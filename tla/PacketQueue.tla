----------------------------- MODULE PacketQueue -----------------------------
(***************************************************************************)
(* What a datagram queue of native/tailscale-native.c promises: packets    *)
(* come out in the order they went in, each at most once, and none is lost *)
(* but the oldest of a full queue, which is counted.  Packets are numbered *)
(* in the order they go in.                                                *)
(***************************************************************************)
EXTENDS Naturals, Sequences

CONSTANTS Size,
          DropsOldest   \* a full queue drops its oldest packet, or refuses

VARIABLES queue,
          last,   \* the last packet put
          taken,  \* the last packet got, 0 when there is none
          lost    \* how many were dropped

Init == queue = <<>> /\ last = 0 /\ taken = 0 /\ lost = 0

Put == /\ last' = last + 1
       /\ \/ /\ Len(queue) < Size
             /\ queue' = Append(queue, last')
             /\ UNCHANGED lost
          \/ /\ Len(queue) = Size /\ DropsOldest
             /\ queue' = Append(Tail(queue), last')
             /\ lost' = lost + 1
       /\ UNCHANGED taken

Get == /\ queue # <<>>
       /\ taken' = Head(queue)
       /\ queue' = Tail(queue)
       /\ UNCHANGED <<last, lost>>

Next == Put \/ Get

Spec == Init /\ [][Next]_<<queue, last, taken, lost>>
=============================================================================
