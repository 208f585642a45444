------------------------- MODULE TcpTransport_proofs -------------------------
(***************************************************************************)
(* The safety invariants of TcpTransport, proved for every ring size, chunk *)
(* size and write size.  The mailbox, the two credits and the record's      *)
(* lifetime hold each other up, so they are proved as one inductive         *)
(* invariant.                                                               *)
(***************************************************************************)
EXTENDS TcpTransport, TLAPS

\* A message is posted at most once per batch of events, and never for none.
Mailbox == /\ OneMessage
           /\ task = "post" => msgs = 0
           /\ raise # {} <=> task = "trigger"

\* The task's last steps, from the slot's release on, in order.
Ending == /\ ~active <=> ret = "gone"
          /\ ret = "gone" => task \in {"trigger", "post", "gone"}
          /\ task = "gone" => ret = "gone"
          /\ task \in {"release", "gone"} \/ ret = "gone" => ~socket /\ ~connected

\* FINAL is raised last, and after it nothing but its own delivery follows.
FinalIsLast ==
  /\ "FINAL" \in raise => ret = "gone"
  /\ "FINAL" \in pending => ret = "gone" /\ task \in {"post", "gone"}
  /\ "FINAL" \in ev => task = "gone" /\ msgs = 0
  /\ hostData = allocated
  /\ ~hostData => task = "gone" /\ msgs = 0

Delivering == js \in {"readable", "writable", "error", "final"}

Turn == /\ Delivering => hostData
        /\ ~Delivering => ev = {}
        /\ waiting => rest > 0 /\ writableLength = 0
        /\ js = "write" => rest > 0 /\ ~waiting

\* What the task received fits, for only the task fills rx.
Received == task \in {"recv", "store"} => io \in 1..Free(rx)

\* The snapshot stays within what the rings allow while it is delivered.
Snapshot == /\ js = "readable" => rdSnap <= rx
            /\ js \in {"readable", "writable"} => wrSnap <= Free(tx)

\* The bytes and the room the streams know of, or are about to be told.
KnownBytes == IF js = "readable" /\ "READABLE" \in ev THEN rdSnap ELSE readableLength
KnownRoom == IF js \in {"readable", "writable"} /\ "WRITABLE" \in ev
             THEN wrSnap ELSE writableLength

\* They are exact, unless the task is about to say more.
BytesKnown == hostData => rx = KnownBytes \/ Raising("READABLE")
RoomKnown == connected => Free(tx) = KnownRoom \/ Raising("WRITABLE")
                          \/ task \in {"send", "detach"}

ErrorKept ==
  ret = "gone" /\ err # 0 /\ ~explicit =>
    \/ Raising("ERROR")
    \/ "ERROR" \in ev /\ js \in {"readable", "writable", "error"}
    \/ failed

Coherent ==
  /\ Mailbox /\ Ending /\ FinalIsLast /\ Turn /\ Received
  /\ ReadCredit /\ WriteCredit /\ Snapshot /\ BytesKnown /\ RoomKnown /\ ErrorKept

IInv == TypeOK /\ Coherent

\* TypeOK in two halves, for Booleans and arithmetic are different provers' work.
Booleans ==
  /\ socket \in BOOLEAN /\ explicit \in BOOLEAN /\ connected \in BOOLEAN
  /\ closing \in BOOLEAN /\ active \in BOOLEAN /\ allocated \in BOOLEAN
  /\ hostData \in BOOLEAN /\ demand \in BOOLEAN /\ waiting \in BOOLEAN
  /\ ready \in BOOLEAN /\ failed \in BOOLEAN /\ rdDone \in BOOLEAN
  /\ wrDone \in BOOLEAN /\ jsClosed \in BOOLEAN

Values ==
  /\ task \in Labels /\ ret \in {"pop", "room", "gone"} /\ raise \subseteq Events
  /\ io \in 0..Chunk /\ rx \in 0..Capacity /\ tx \in 0..Capacity
  /\ pending \subseteq Events /\ msgs \in 0..1 /\ err \in 0..2
  /\ js \in Turns /\ ev \subseteq Events /\ rdSnap \in 0..Capacity /\ wrSnap \in 0..Capacity
  /\ readableLength \in 0..Capacity /\ writableLength \in 0..Capacity
  /\ rest \in 0..MaxWrite

LEMMA TypeHalves == TypeOK <=> Booleans /\ Values
BY DEF TypeOK, Booleans, Values

-----------------------------------------------------------------------------
\* drainReadable leaves Booleans as flags, whichever way it returns.
LEMMA DrainBooleans ==
  ASSUME NEW length, NEW wants \in BOOLEAN, rdDone \in BOOLEAN, Drain(length, wants)
  PROVE  demand' \in BOOLEAN /\ rdDone' \in BOOLEAN
<1>1. CASE length > 0 /\ wants /\ ~rdDone
  <2>1. demand' \in BOOLEAN
    BY <1>1 DEF Drain
  <2>2. CASE hostData /\ length <= rx
    BY <1>1, <2>1, <2>2 DEF Drain
  <2>3. CASE ~(hostData /\ length <= rx)
    BY <1>1, <2>1, <2>3 DEF Drain
  <2> QED BY <2>2, <2>3
<1>2. CASE ~(length > 0 /\ wants /\ ~rdDone)
  BY <1>2 DEF Drain
<1> QED BY <1>1, <1>2

\* The flags stay Booleans.
LEMMA BooleansStep == Booleans /\ [Next]_vars => Booleans'
<1> SUFFICES ASSUME Booleans, [Next]_vars PROVE Booleans'
  OBVIOUS
<1> USE DEF Booleans, Goto, Raise, ctl, held, rings, mail, flags, owner, snap, credit, write, fate, jsVars
<1>1. CASE ConnectFails
  BY <1>1 DEF ConnectFails
<1>2. CASE ConnectSucceeds
  BY <1>2 DEF ConnectSucceeds
<1>3. CASE Opened
  BY <1>3 DEF Opened
<1>4. CASE Pop
  BY <1>4 DEF Pop, Leaves, Least
<1>5. CASE Send
  BY <1>5 DEF Send, AfterFailure
<1>6. CASE Room
  BY <1>6 DEF Room, ReceiveSize, Least, Free
<1>7. CASE Recv
  BY <1>7 DEF Recv, AfterFailure
<1>8. CASE Store
  BY <1>8 DEF Store
<1>9. CASE Detach
  BY <1>9 DEF Detach
<1>10. CASE Release
  BY <1>10 DEF Release
<1>11. CASE Trigger
  BY <1>11 DEF Trigger, Merged, Posts
<1>12. CASE Post
  BY <1>12 DEF Post
<1>13. CASE Deliver
  BY <1>13 DEF Deliver, Free
<1>14. CASE OnReadable
  <2>1. CASE ReadableHeard
    <3>1. Drain(Announced, demand)
      BY <1>14, <2>1 DEF OnReadable
    <3>2. demand' \in BOOLEAN /\ rdDone' \in BOOLEAN
      BY <3>1, DrainBooleans
    <3> QED BY <1>14, <3>2 DEF OnReadable
  <2>2. CASE ~ReadableHeard
    BY <1>14, <2>2 DEF OnReadable
  <2> QED BY <2>1, <2>2
<1>15. CASE OnWritable
  <2>1. CASE WritableHeard
    BY <1>15, <2>1 DEF OnWritable
  <2>2. CASE ~WritableHeard
    BY <1>15, <2>2 DEF OnWritable
  <2> QED BY <2>1, <2>2
<1>16. CASE OnError
  <2>1. CASE ErrorHeard
    BY <1>16, <2>1 DEF OnError
  <2>2. CASE ~ErrorHeard
    BY <1>16, <2>2 DEF OnError
  <2> QED BY <2>1, <2>2
<1>17. CASE OnFinal
  <2>1. CASE "FINAL" \in ev
    BY <1>17, <2>1 DEF OnFinal
  <2>2. CASE "FINAL" \notin ev
    BY <1>17, <2>2 DEF OnFinal
  <2> QED BY <2>1, <2>2
<1>18. CASE Pull
  <2>1. demand' \in BOOLEAN /\ rdDone' \in BOOLEAN
    BY <1>18, DrainBooleans DEF Pull
  <2> QED BY <1>18, <2>1 DEF Pull
<1>19. CASE StartWrite
  BY <1>19 DEF StartWrite
<1>20. CASE AwaitRoom
  BY <1>20 DEF AwaitRoom
<1>21. CASE WriteSome
  <2>1. CASE hostData /\ connected /\ Least(writableLength, rest) <= Free(tx)
    BY <1>21, <2>1 DEF WriteSome
  <2>2. CASE ~(hostData /\ connected /\ Least(writableLength, rest) <= Free(tx))
    BY <1>21, <2>2 DEF WriteSome
  <2> QED BY <2>1, <2>2
<1>22. CASE AppClose
  BY <1>22 DEF AppClose
<1>23. CASE ManagerClose
  BY <1>23 DEF ManagerClose
<1>24. CASE UNCHANGED vars
  BY <1>24 DEF vars
<1> QED
  BY <1>1, <1>2, <1>3, <1>4, <1>5, <1>6, <1>7, <1>8, <1>9, <1>10, <1>11, <1>12, <1>13, <1>14, <1>15, <1>16, <1>17, <1>18, <1>19, <1>20, <1>21, <1>22, <1>23, <1>24 DEF Next, TaskStep, DeliverStep, ClientStep

\* The counts stay within the rings and the labels within their sets.
LEMMA ValuesStep == IInv /\ [Next]_vars => Values'
<1> SUFFICES ASSUME IInv, [Next]_vars PROVE Values'
  OBVIOUS
<1> USE SizesAssumption DEF IInv, TypeOK, Values, Coherent, Received, Snapshot, ReadCredit, WriteCredit, Mailbox, Turn, Delivering, FinalIsLast, Labels, Turns, Events, Goto, Raise, Free, Least, ctl, held, rings, mail, flags, owner, snap, credit, write, fate, jsVars
<1>1. CASE ConnectFails
  BY <1>1 DEF ConnectFails
<1>2. CASE ConnectSucceeds
  BY <1>2 DEF ConnectSucceeds
<1>3. CASE Opened
  BY <1>3 DEF Opened
<1>4. CASE Pop
  BY <1>4 DEF Pop, Leaves, Least
<1>5. CASE Send
  BY <1>5 DEF Send, AfterFailure
<1>6. CASE Room
  BY <1>6 DEF Room, ReceiveSize, Least, Free
<1>7. CASE Recv
  BY <1>7 DEF Recv, AfterFailure
<1>8. CASE Store
  BY <1>8 DEF Store
<1>9. CASE Detach
  BY <1>9 DEF Detach
<1>10. CASE Release
  BY <1>10 DEF Release
<1>11. CASE Trigger
  BY <1>11 DEF Trigger, Merged, Posts
<1>12. CASE Post
  BY <1>12 DEF Post
<1>13. CASE Deliver
  BY <1>13 DEF Deliver, Free
<1>14. CASE OnReadable
  BY <1>14 DEF OnReadable, ReadableHeard, Announced, Drain
<1>15. CASE OnWritable
  BY <1>15 DEF OnWritable, WritableHeard
<1>16. CASE OnError
  BY <1>16 DEF OnError, ErrorHeard
<1>17. CASE OnFinal
  BY <1>17 DEF OnFinal
<1>18. CASE Pull
  BY <1>18 DEF Pull, Drain
<1>19. CASE StartWrite
  BY <1>19 DEF StartWrite
<1>20. CASE AwaitRoom
  BY <1>20 DEF AwaitRoom
<1>21. CASE WriteSome
  BY <1>21 DEF WriteSome, CreditAfter, Least, Free
<1>22. CASE AppClose
  BY <1>22 DEF AppClose
<1>23. CASE ManagerClose
  BY <1>23 DEF ManagerClose
<1>24. CASE UNCHANGED vars
  BY <1>24 DEF vars
<1> QED
  BY <1>1, <1>2, <1>3, <1>4, <1>5, <1>6, <1>7, <1>8, <1>9, <1>10, <1>11, <1>12, <1>13, <1>14, <1>15, <1>16, <1>17, <1>18, <1>19, <1>20, <1>21, <1>22, <1>23, <1>24 DEF Next, TaskStep, DeliverStep, ClientStep

\* Every step keeps the mailbox, the credits and the record's lifetime coherent.
LEMMA CoherentStep == IInv /\ [Next]_vars => Coherent'
<1> SUFFICES ASSUME IInv, [Next]_vars PROVE Coherent'
  OBVIOUS
<1> USE SizesAssumption DEF IInv, TypeOK, Coherent, Mailbox, OneMessage, Ending, FinalIsLast,
    Delivering, Turn, Received, ReadCredit, WriteCredit, Snapshot, KnownBytes, KnownRoom,
    BytesKnown, RoomKnown, ErrorKept, Raising, Labels, Turns, Events, Goto, Raise, Free,
    Least, ctl, held, rings, mail, flags, owner, snap, credit, write, fate, jsVars
<1>1. CASE ConnectFails
  BY <1>1 DEF ConnectFails
<1>2. CASE ConnectSucceeds
  BY <1>2 DEF ConnectSucceeds
<1>3. CASE Opened
  BY <1>3 DEF Opened
<1>4. CASE Pop
  BY <1>4 DEF Pop, Leaves, Least
<1>5. CASE Send
  BY <1>5 DEF Send, AfterFailure
<1>6. CASE Room
  BY <1>6 DEF Room, ReceiveSize, Least, Free
<1>7. CASE Recv
  BY <1>7 DEF Recv, AfterFailure
<1>8. CASE Store
  BY <1>8 DEF Store
<1>9. CASE Detach
  BY <1>9 DEF Detach
<1>10. CASE Release
  BY <1>10 DEF Release
<1>11. CASE Trigger
  <2>1. Mailbox'
    <3>1. raise # {} /\ msgs \in 0..1
      BY <1>11 DEF Trigger
    <3>2. pending' # {} /\ raise' = {} /\ msgs' = msgs
      BY <1>11, <3>1 DEF Trigger, Merged
    <3>3. CASE pending = {}
      BY <1>11, <3>1, <3>2, <3>3 DEF Trigger, Posts
    <3>4. CASE pending # {}
      BY <1>11, <3>1, <3>2, <3>4 DEF Trigger, Posts
    <3> QED BY <3>3, <3>4
  <2>2. (Ending /\ FinalIsLast /\ Turn /\ Received)'
    BY <1>11 DEF Trigger, Merged, Posts
  <2>3. (ReadCredit /\ WriteCredit /\ Snapshot)'
    BY <1>11 DEF Trigger, Merged, Posts
  <2>4. (BytesKnown /\ RoomKnown /\ ErrorKept)'
    BY <1>11 DEF Trigger, Merged, Posts
  <2> QED BY <2>1, <2>2, <2>3, <2>4
<1>12. CASE Post
  BY <1>12 DEF Post
<1>13. CASE Deliver
  BY <1>13 DEF Deliver, Free
<1>14. CASE OnReadable
  BY <1>14 DEF OnReadable, ReadableHeard, Announced, Drain
<1>15. CASE OnWritable
  BY <1>15 DEF OnWritable, WritableHeard
<1>16. CASE OnError
  BY <1>16 DEF OnError, ErrorHeard
<1>17. CASE OnFinal
  BY <1>17 DEF OnFinal
<1>18. CASE Pull
  BY <1>18 DEF Pull, Drain
<1>19. CASE StartWrite
  BY <1>19 DEF StartWrite
<1>20. CASE AwaitRoom
  BY <1>20 DEF AwaitRoom
<1>21. CASE WriteSome
  BY <1>21 DEF WriteSome, CreditAfter, Least, Free
<1>22. CASE AppClose
  BY <1>22 DEF AppClose
<1>23. CASE ManagerClose
  BY <1>23 DEF ManagerClose
<1>24. CASE UNCHANGED vars
  BY <1>24 DEF vars
<1> QED
  BY <1>1, <1>2, <1>3, <1>4, <1>5, <1>6, <1>7, <1>8, <1>9, <1>10, <1>11, <1>12, <1>13, <1>14, <1>15, <1>16, <1>17, <1>18, <1>19, <1>20, <1>21, <1>22, <1>23, <1>24 DEF Next, TaskStep, DeliverStep, ClientStep

-----------------------------------------------------------------------------
LEMMA InitIInv == Init => IInv
<1> SUFFICES ASSUME Init PROVE IInv
  OBVIOUS
<1>1. Booleans
  BY Zenon DEF Init, Booleans
<1>2. Values
  BY SizesAssumption DEF Init, Values, Labels, Turns, Events
<1>3. Mailbox /\ Ending /\ FinalIsLast /\ Turn /\ Received
  BY DEF Init, Mailbox, OneMessage, Ending, FinalIsLast, Delivering, Turn, Received
<1>4. ReadCredit /\ WriteCredit /\ Snapshot /\ BytesKnown
  BY SizesAssumption DEF Init, ReadCredit, WriteCredit, Free, Snapshot, BytesKnown, KnownBytes
<1>5. RoomKnown /\ ErrorKept
  BY DEF Init, RoomKnown, ErrorKept
<1> QED BY <1>1, <1>2, <1>3, <1>4, <1>5, TypeHalves DEF IInv, Coherent

\* The inductive invariant of one connection holds for every ring and chunk size.
THEOREM Invariance == Spec => []IInv
<1>1. Init => IInv
  BY InitIInv
<1>2. IInv /\ [Next]_vars => IInv'
  BY BooleansStep, ValuesStep, CoherentStep, TypeHalves DEF IInv, Booleans, Values, TypeOK
<1> QED BY <1>1, <1>2, PTL DEF Spec

\* Every variable keeps its type: the rings, whose bytes the task and the
\* JavaScript thread count separately, are never overfilled.
THEOREM Typing == Spec => []TypeOK
BY Invariance, PTL DEF IInv

\* The record tcp_task and tcp_deliver share: events and the one message that
\* carries them come and go together, nobody is left to touch it once FINAL has
\* freed it, and the slot the manager waits for outlives the use of the socket.
THEOREM RecordSafety == Spec => []RecordIsSafe
<1>1. IInv => NoUseAfterFree
  BY DEF IInv, Coherent, FinalIsLast, NoUseAfterFree
<1>2. IInv => SlotGuardsSocket
  BY DEF IInv, TypeOK, Coherent, Ending, SlotGuardsSocket
<1>3. IInv => OneMessage
  BY DEF IInv, Coherent, Mailbox
<1> QED BY Invariance, <1>1, <1>2, <1>3, PTL DEF RecordIsSafe

\* The streams never read more than was received nor write more than fits.
THEOREM CreditsAreCovered == Spec => []CreditsAreBacked
BY Invariance, PTL DEF IInv, Coherent, CreditsAreBacked

\* No received byte stays in the ring without the streams hearing of it, and a
\* write that waits for room is told when there is some.
THEOREM NothingIsForgotten == Spec => []NothingForgotten
<1>1. IInv => NoLostReadable
  BY SizesAssumption DEF IInv, TypeOK, Coherent, BytesKnown, KnownBytes, NoLostReadable
<1>2. IInv => NoLostWritable
  BY SizesAssumption DEF IInv, TypeOK, Coherent, Turn, RoomKnown, KnownRoom, Free, NoLostWritable
<1> QED BY Invariance, <1>1, <1>2, PTL DEF NothingForgotten

\* The error of a connection nobody closed reaches fail() before the free.
THEOREM ErrorIsReported == Spec => []ErrorBeforeFree
<1>1. IInv => ErrorBeforeFree
  <2> SUFFICES ASSUME IInv, ~allocated, err # 0, ~explicit PROVE failed
    BY DEF ErrorBeforeFree
  <2>1. ~hostData /\ task = "gone" /\ msgs = 0 /\ ret = "gone"
    BY DEF IInv, Coherent, FinalIsLast, Ending
  <2>2. pending = {} /\ ~Delivering /\ ev = {}
    BY <2>1 DEF IInv, Coherent, Mailbox, OneMessage, Turn
  <2>3. ~Raising("ERROR")
    BY <2>1, <2>2 DEF Raising
  <2> QED BY <2>1, <2>2, <2>3 DEF IInv, Coherent, ErrorKept
<1> QED BY Invariance, <1>1, PTL
=============================================================================
