---------------------------- MODULE TcpTransport ----------------------------
(***************************************************************************)
(* One outgoing TCP connection of native/tailscale-native.c: the FreeRTOS  *)
(* task tcp_task, the two byte rings it shares with the JavaScript thread, *)
(* the coalescing event mailbox between them (tcp_trigger / tcp_deliver),  *)
(* and the WHATWG streams client of modules/tailscale.js (createStreams).  *)
(* A ring is its fill level here: which bytes come out is not modelled.    *)
(* A step ends where the code releases a lock, makes a blocking call or    *)
(* calls back into JavaScript.                                             *)
(***************************************************************************)
EXTENDS Integers

CONSTANTS Capacity,   \* TCP_BUFFER_SIZE, the size of each ring
          Chunk,      \* TCP_IO_CHUNK, the task's buffer
          MaxWrite    \* bound: bytes of the largest chunk the application writes

ASSUME SizesAssumption == /\ Capacity \in Nat \ {0}
                          /\ Chunk \in Nat \ {0}
                          /\ MaxWrite \in Nat \ {0}

Events == {"READABLE", "WRITABLE", "ERROR", "FINAL"}

Labels == {"connect", "opened", "pop", "send", "room", "recv", "store",
           "detach", "release", "trigger", "post", "gone"}

Turns == {"idle", "readable", "writable", "error", "final", "write"}

VARIABLES
  task,       \* where tcp_task stands
  ret,        \* where it goes on after tcp_trigger
  raise,      \* the events it is raising
  io,         \* bytes it holds in its buffer, or may receive
  socket,     \* tcp->socket # NULL
  explicit,   \* explicit_close, read while detaching
  rx, tx,     \* bytes used in the two rings
  pending,    \* tcp->pending
  msgs,       \* tcp_deliver messages posted and not yet run
  connected, closing,
  err,        \* tcp->error
  active,     \* manager->tcp = tcp and manager->tcp_active
  allocated,  \* the record has not been freed
  hostData,   \* the JavaScript object still points to the record
  js,         \* what the JavaScript thread is doing for this connection
  ev, rdSnap, wrSnap,              \* tcp_deliver's snapshot
  readableLength, writableLength,  \* createStreams' credits
  demand,     \* desiredSize > 0
  rest,       \* bytes of the chunk in write() not yet in the ring
  waiting,    \* write() awaits writableWaiter
  ready, failed,
  rdDone, wrDone,  \* the readable / writable stream is closed or errored
  jsClosed         \* TailnetTCP #closed

ctl == <<task, ret, raise>>
held == <<io, socket, explicit>>
rings == <<rx, tx>>
mail == <<pending, msgs>>
flags == <<connected, closing, err>>
owner == <<active, allocated>>
snap == <<ev, rdSnap, wrSnap>>
credit == <<readableLength, writableLength, demand>>
write == <<rest, waiting>>
fate == <<ready, failed, rdDone, wrDone, jsClosed>>
jsVars == <<hostData, js, snap, credit, write, fate>>
vars == <<ctl, held, rings, mail, flags, owner, jsVars>>

Least(a, b) == IF a < b THEN a ELSE b

Free(used) == Capacity - used

(***************************************************************************)
(* The constructor has taken the manager's slot, linked the JavaScript     *)
(* object and started tcp_task.                                            *)
(***************************************************************************)
Init ==
  /\ task = "connect" /\ ret = "pop" /\ raise = {} /\ io = 0
  /\ socket = FALSE /\ explicit = FALSE
  /\ rx = 0 /\ tx = 0 /\ pending = {} /\ msgs = 0
  /\ connected = FALSE /\ closing = FALSE /\ err = 0
  /\ active = TRUE /\ allocated = TRUE /\ hostData = TRUE
  /\ js = "idle" /\ ev = {} /\ rdSnap = 0 /\ wrSnap = 0
  /\ readableLength = 0 /\ writableLength = 0 /\ demand \in BOOLEAN
  /\ rest = 0 /\ waiting = FALSE /\ ready = FALSE /\ failed = FALSE
  /\ rdDone = FALSE /\ wrDone = FALSE /\ jsClosed = FALSE

-----------------------------------------------------------------------------
(* tcp_task.  An operator whose name starts with Bug is a plausible mistake *)
(* in the definition after it; no specification uses it.                    *)

Goto(next) == task' = next /\ UNCHANGED <<raise, ret>>

Raise(events, next) == task' = "trigger" /\ raise' = events /\ ret' = next

BugLeaves == FALSE                 \* the loop does not look at closing
Leaves == closing

BugReceiveSize == Chunk            \* receives a chunk whatever room is left
ReceiveSize == Least(Free(rx), Chunk)

BugAfterFailure == "release"       \* an error skips the socket's close
AfterFailure == "detach"

\* microlink_tcp_connect returned no socket (no MicroLink, refused, timed out).
ConnectFails == /\ task = "connect"
                /\ err' = 1
                /\ Goto("detach")
                /\ UNCHANGED <<held, rings, mail, connected, closing, owner, jsVars>>

ConnectSucceeds == /\ task = "connect"
                   /\ socket' = TRUE
                   /\ Goto("opened")
                   /\ UNCHANGED <<io, explicit, rings, mail, flags, owner, jsVars>>

Opened == /\ task = "opened"
          /\ connected' = TRUE
          /\ IF closing THEN Goto("detach") ELSE Raise({"WRITABLE"}, "pop")
          /\ UNCHANGED <<held, rings, mail, closing, err, owner, jsVars>>

\* Top of the loop: leave on closing, else take up to a chunk out of tx.
Pop == /\ task = "pop"
       /\ LET count == IF Leaves THEN 0 ELSE Least(tx, Chunk)
          IN /\ io' = count
             /\ tx' = tx - count
             /\ Goto(IF Leaves THEN "detach" ELSE IF count > 0 THEN "send" ELSE "room")
       /\ UNCHANGED <<socket, explicit, rx, mail, flags, owner, jsVars>>

Send == /\ task = "send"
        /\ \/ Raise({"WRITABLE"}, "room") /\ UNCHANGED err
           \/ Goto(AfterFailure) /\ err' = 2
        /\ io' = 0
        /\ UNCHANGED <<socket, explicit, rings, mail, connected, closing, owner, jsVars>>

\* Without room in rx the task only sleeps, and starts over.
Room == /\ task = "room"
        /\ io' = ReceiveSize
        /\ Goto(IF rx < Capacity THEN "recv" ELSE "pop")
        /\ UNCHANGED <<socket, explicit, rings, mail, flags, owner, jsVars>>

\* microlink_tcp_recv returned an error, nothing, or at most io bytes.
Recv == /\ task = "recv"
        /\ \/ Goto(AfterFailure) /\ err' = 2 /\ io' = 0
           \/ Goto("pop") /\ io' = 0 /\ UNCHANGED err
           \/ Goto("store") /\ io' \in 1..io /\ UNCHANGED err
        /\ UNCHANGED <<socket, explicit, rings, mail, connected, closing, owner, jsVars>>

Store == /\ task = "store"
         /\ rx' = rx + io
         /\ io' = 0
         /\ Raise({"READABLE"}, "pop")
         /\ UNCHANGED <<socket, explicit, tx, mail, flags, owner, jsVars>>

Detach == /\ task = "detach"
          /\ socket' = FALSE
          /\ explicit' = closing
          /\ connected' = FALSE
          /\ Goto("release")
          /\ UNCHANGED <<io, rings, mail, closing, err, owner, jsVars>>

\* Hand the slot back under the manager's lock, then announce the end.
Release == /\ task = "release"
           /\ active' = FALSE
           /\ Raise({"FINAL"} \cup (IF ~explicit /\ err # 0 THEN {"ERROR"} ELSE {}), "gone")
           /\ UNCHANGED <<held, rings, mail, flags, allocated, jsVars>>

BugPosts == TRUE                   \* every trigger posts a message
Posts == pending = {}

\* events raised while a message is posted are lost, the last ones excepted
BugMerged == IF pending = {} THEN raise ELSE pending \cup (raise \cap {"FINAL", "ERROR"})
Merged == pending \cup raise

\* tcp_trigger, under the lock: only the first event of a batch is posted.
Trigger == /\ task = "trigger"
           /\ pending' = Merged
           /\ raise' = {}
           /\ task' = IF Posts THEN "post" ELSE ret
           /\ UNCHANGED <<ret, held, rings, msgs, flags, owner, jsVars>>

Post == /\ task = "post"
        /\ msgs' = msgs + 1
        /\ Goto(ret)
        /\ UNCHANGED <<held, rings, pending, flags, owner, jsVars>>

TaskStep == \/ ConnectFails \/ ConnectSucceeds \/ Opened \/ Pop \/ Send \/ Room
            \/ Recv \/ Store \/ Detach \/ Release \/ Trigger \/ Post

-----------------------------------------------------------------------------
(* The JavaScript thread: tcp_deliver, one callback at a time *)

ReadableHeard == "READABLE" \in ev /\ rdSnap > 0

BugWritableHeard == "WRITABLE" \in ev /\ "READABLE" \notin ev   \* an else-if
WritableHeard == "WRITABLE" \in ev /\ connected

BugErrorHeard == "ERROR" \in ev /\ connected                    \* a copied guard
ErrorHeard == "ERROR" \in ev

BugAnnounced == readableLength + rdSnap                         \* += for =
Announced == rdSnap

\* drainReadable: give the reader all that was announced, if it has room for
\* it.  Once the record is gone the read returns nothing and enqueue throws.
Drain(length, wants) ==
  IF length > 0 /\ wants /\ ~rdDone
  THEN /\ readableLength' = 0
       /\ demand' \in BOOLEAN
       /\ IF hostData /\ length <= rx THEN rx' = rx - length /\ UNCHANGED rdDone
                                      ELSE rdDone' = TRUE /\ UNCHANGED rx
  ELSE /\ readableLength' = length
       /\ demand' = wants
       /\ UNCHANGED <<rx, rdDone>>

Deliver == /\ js = "idle"
           /\ msgs > 0
           /\ msgs' = msgs - 1
           /\ ev' = pending
           /\ pending' = {}
           /\ rdSnap' = rx
           /\ wrSnap' = Free(tx)
           /\ js' = "readable"
           /\ UNCHANGED <<ctl, held, rings, flags, owner, hostData, credit, write, fate>>

OnReadable == /\ js = "readable"
              /\ IF ReadableHeard THEN Drain(Announced, demand)
                 ELSE UNCHANGED <<readableLength, demand, rx, rdDone>>
              /\ js' = "writable"
              /\ UNCHANGED <<ctl, held, tx, mail, flags, owner, hostData, snap,
                             writableLength, write, ready, failed, wrDone, jsClosed>>

OnWritable == /\ js = "writable"
              /\ IF WritableHeard
                 THEN writableLength' = wrSnap /\ waiting' = FALSE /\ ready' = TRUE
                 ELSE UNCHANGED <<writableLength, waiting, ready>>
              /\ js' = "error"
              /\ UNCHANGED <<ctl, held, rings, mail, flags, owner, hostData, snap,
                             readableLength, demand, rest, failed, rdDone, wrDone, jsClosed>>

\* fail() errors both streams, and leaves a write that waits for room waiting.
OnError == /\ js = "error"
           /\ IF ErrorHeard
              THEN jsClosed' = TRUE /\ failed' = TRUE /\ rdDone' = TRUE /\ wrDone' = TRUE
              ELSE UNCHANGED <<jsClosed, failed, rdDone, wrDone>>
           /\ js' = "final"
           /\ UNCHANGED <<ctl, held, rings, mail, flags, owner, hostData, snap, credit,
                          write, ready>>

\* After the last callback the awaiting write(), if it was woken, runs.
OnFinal == /\ js = "final"
           /\ IF "FINAL" \in ev THEN hostData' = FALSE /\ allocated' = FALSE
                                ELSE UNCHANGED <<hostData, allocated>>
           /\ js' = IF rest > 0 /\ ~waiting THEN "write" ELSE "idle"
           /\ ev' = {} /\ rdSnap' = 0 /\ wrSnap' = 0
           /\ UNCHANGED <<ctl, held, rings, mail, flags, active, credit, write, fate>>

-----------------------------------------------------------------------------
(* The JavaScript thread: the application at the two streams *)

\* The consumer reads: pull().
Pull == /\ js = "idle" /\ ready /\ ~rdDone /\ ~demand
        /\ Drain(readableLength, TRUE)
        /\ UNCHANGED <<ctl, held, tx, mail, flags, owner, hostData, js, snap,
                       writableLength, write, ready, failed, wrDone, jsClosed>>

StartWrite == /\ js = "idle" /\ ready /\ ~wrDone /\ rest = 0
              /\ rest' \in 1..MaxWrite
              /\ js' = "write"
              /\ UNCHANGED <<ctl, held, rings, mail, flags, owner, hostData, snap, credit,
                             waiting, fate>>

AwaitRoom == /\ js = "write" /\ writableLength = 0
             /\ waiting' = TRUE
             /\ js' = "idle"
             /\ UNCHANGED <<ctl, held, rings, mail, flags, owner, hostData, snap, credit,
                            rest, fate>>

BugCreditAfter(count) == writableLength     \* ignores what write() returns
CreditAfter(count) == Free(tx + count)

\* xs_tailscale_tcp_write throws "not connected" or "would block", which
\* errors the stream, or fills the ring and returns the room left in it.
WriteSome ==
  /\ js = "write" /\ writableLength > 0
  /\ LET count == Least(writableLength, rest)
     IN IF hostData /\ connected /\ count <= Free(tx)
        THEN /\ tx' = tx + count
             /\ writableLength' = CreditAfter(count)
             /\ rest' = rest - count
             /\ js' = IF rest = count THEN "idle" ELSE "write"
             /\ UNCHANGED wrDone
        ELSE /\ wrDone' = TRUE
             /\ rest' = 0
             /\ js' = "idle"
             /\ UNCHANGED <<tx, writableLength>>
  /\ UNCHANGED <<ctl, held, rx, mail, flags, owner, hostData, snap, readableLength, demand,
                 waiting, ready, failed, rdDone, jsClosed>>

\* readable.cancel(), writable.close() once its writes are done, or
\* socket.close(): TailnetTCP.close() reaches tcp_request_close once.
AppClose == /\ js = "idle" /\ ready
            /\ closing' = (closing \/ (~jsClosed /\ hostData))
            /\ jsClosed' = TRUE
            /\ \/ rdDone' = TRUE /\ UNCHANGED wrDone
               \/ rest = 0 /\ wrDone' = TRUE /\ UNCHANGED rdDone
               \/ UNCHANGED <<rdDone, wrDone>>
            /\ UNCHANGED <<ctl, held, rings, mail, connected, err, owner, hostData, js, snap,
                           credit, write, ready, failed>>

-----------------------------------------------------------------------------
\* manager_close_transports, when the manager closes or rotates its key.
ManagerClose == /\ active
                /\ closing' = TRUE
                /\ UNCHANGED <<ctl, held, rings, mail, connected, err, owner, jsVars>>

DeliverStep == Deliver \/ OnReadable \/ OnWritable \/ OnError \/ OnFinal

ClientStep == AwaitRoom \/ WriteSome

Next == TaskStep \/ DeliverStep \/ ClientStep \/ Pull \/ StartWrite \/ AppClose
        \/ ManagerClose

Spec == Init /\ [][Next]_vars

(***************************************************************************)
(* The scheduler runs the task (priority 4) and its blocking calls time    *)
(* out; the JavaScript thread finishes a turn it began, and takes a posted *)
(* message in its turn whatever else it does, for the queue is a FIFO.     *)
(* The application, the peer and the manager owe nothing.                  *)
(***************************************************************************)
Fairness == /\ WF_vars(TaskStep)
            /\ WF_vars(OnReadable \/ OnWritable \/ OnError \/ OnFinal \/ ClientStep)
            /\ SF_vars(Deliver)

FairSpec == Spec /\ Fairness

-----------------------------------------------------------------------------
\* The values the variables range over: no ring is ever overfilled.
TypeOK ==
  /\ task \in Labels /\ ret \in {"pop", "room", "gone"} /\ raise \subseteq Events
  /\ io \in 0..Chunk /\ socket \in BOOLEAN /\ explicit \in BOOLEAN
  /\ rx \in 0..Capacity /\ tx \in 0..Capacity
  /\ pending \subseteq Events /\ msgs \in 0..1
  /\ connected \in BOOLEAN /\ closing \in BOOLEAN /\ err \in 0..2
  /\ active \in BOOLEAN /\ allocated \in BOOLEAN /\ hostData \in BOOLEAN
  /\ js \in Turns /\ ev \subseteq Events /\ rdSnap \in 0..Capacity /\ wrSnap \in 0..Capacity
  /\ readableLength \in 0..Capacity /\ writableLength \in 0..Capacity
  /\ demand \in BOOLEAN /\ rest \in 0..MaxWrite /\ waiting \in BOOLEAN
  /\ ready \in BOOLEAN /\ failed \in BOOLEAN /\ rdDone \in BOOLEAN /\ wrDone \in BOOLEAN
  /\ jsClosed \in BOOLEAN

\* Events are pending exactly when one delivery is posted or is about to be:
\* no event without a message to carry it, no message that would run after
\* FINAL freed the record (tcp_trigger posts only when pending was 0).
OneMessage == (pending # {}) <=> (msgs = 1 \/ task = "post")

\* Nobody touches a freed record: its task has ended, nothing is posted and
\* the JavaScript object no longer points to it (tcp_deliver frees on FINAL).
NoUseAfterFree == ~allocated => task = "gone" /\ msgs = 0 /\ ~hostData

\* drainReadable never asks for more than the ring holds: no "invalid read
\* size" for the streams, whatever the task stores meanwhile.
ReadCredit == hostData => readableLength <= rx

\* write() never offers more than the ring has room for: no "would block".
WriteCredit == hostData => writableLength <= Free(tx)

Raising(e) == e \in pending \/ (task = "trigger" /\ e \in raise)

\* Received bytes are known to the streams or will be announced: no byte
\* stays in rx without an event on its way (the two sides take the lock at
\* different times, and events are coalesced and cleared in between).
NoLostReadable ==
  hostData /\ rx > 0 =>
    \/ readableLength > 0
    \/ Raising("READABLE")
    \/ js = "readable" /\ "READABLE" \in ev /\ rdSnap > 0

\* A write that waits for room will be told of it: while the task runs its
\* loop the ring still holds bytes to send, or WRITABLE is on its way.
NoLostWritable ==
  waiting /\ connected =>
    \/ tx > 0
    \/ task \in {"send", "detach"}
    \/ Raising("WRITABLE")
    \/ js \in {"readable", "writable"} /\ "WRITABLE" \in ev

\* The slot is given back only when the task has closed its socket and will
\* not use the manager's MicroLink again (manager_close_transports waits for it).
SlotGuardsSocket == ~active => ~socket /\ ~connected /\ task \in {"trigger", "post", "gone"}

\* A transport error the application did not ask for is never swallowed by
\* the coalescing: FINAL frees the record only together with the error, if
\* tcp_task saw one and nobody had closed the connection.
ErrorBeforeFree == ~allocated /\ err # 0 /\ ~explicit => failed

\* What the run checks of the shared record: its mailbox, its slot and its
\* last use (tcp_trigger, tcp_deliver and tcp_task share it without owners).
RecordIsSafe == OneMessage /\ NoUseAfterFree /\ SlotGuardsSocket

\* The streams' counts of bytes and of room are backed by the rings.
CreditsAreBacked == ReadCredit /\ WriteCredit

\* Neither a received byte nor a waiting writer is forgotten.
NothingForgotten == NoLostReadable /\ NoLostWritable

-----------------------------------------------------------------------------
\* A requested close always ends with the record freed.
ClosedIsFreed == closing ~> ~allocated

\* A write waiting for room goes on, unless the transport fails or is closed.
WriterResumes == waiting ~> (~waiting \/ closing \/ err # 0)

\* Neither a close nor a write that waits for room is left hanging.
TransportSettles == ClosedIsFreed /\ WriterResumes

\* A write in flight when the transport fails settles.
WriteSettles == (rest > 0 /\ failed /\ ~closing) ~> (rest = 0)
=============================================================================
