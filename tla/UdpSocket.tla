------------------------------ MODULE UdpSocket ------------------------------
(***************************************************************************)
(* The UDP socket of native/tailscale-native.c: the FreeRTOS task udp_task *)
(* that sends, MicroLink's receive callback in a task of its own, the      *)
(* JavaScript thread that reads, writes and closes, and the manager, which *)
(* may ask the socket to close.  They share two packet rings, a coalescing *)
(* event mailbox and the semaphore wake.  A step ends where the code       *)
(* releases a lock, makes a blocking call or calls back into JavaScript.   *)
(***************************************************************************)
EXTENDS Integers, Sequences

CONSTANTS QueueSize,   \* UDP_QUEUE_SIZE
          MaxArrivals, \* bound: packets received
          MaxWrites    \* bound: packets written

ASSUME UdpAssumption == /\ QueueSize \in Nat \ {0}
                        /\ MaxArrivals \in Nat /\ MaxWrites \in Nat

Slots == 0..QueueSize - 1

Events == {"READABLE", "ERROR", "FINAL"}

VARIABLES
  task,       \* where udp_task stands
  ret, raise, \* where it goes on after udp_trigger, and what it is raising
  held,       \* the packet it has taken, 0 when there is none
  leaving,    \* the closing it read with it
  socket, listens,   \* udp->socket # NULL, and it has the receive callback
  receiver,   \* where MicroLink's receive callback stands
  rx, rxRead, rxWrite, rxCount, dropped,
  tx, txRead, txWrite, txCount,
  wake,       \* the counting semaphore
  pending, msgs,     \* udp->pending, and udp_deliver messages not yet run
  closing, err,
  active,     \* manager->udp = udp and manager->udp_active
  manager,    \* where manager_close_transports stands, with the manager's mutex
  allocated,  \* the record has not been freed
  hostData,   \* the JavaScript object still points to the record
  js, owes,   \* the JavaScript thread; it has still to give wake
  ev, count,  \* udp_deliver's snapshot
  credit,     \* packets announced and not yet read
  failed,     \* onError was called
  jsClosed,   \* UDP #closed
  arrived, got,      \* the last packet received, and the last one read
  written, sent      \* the last packet written, and the last one taken to send

ctl == <<task, ret, raise, held, leaving>>
link == <<socket, listens>>
rxRing == <<rx, rxRead, rxWrite, rxCount, dropped, arrived>>
txRing == <<tx, txRead, txWrite, txCount, written>>
mail == <<pending, msgs>>
owner == <<active, manager, allocated, hostData>>
jsVars == <<js, owes, ev, count, credit, failed, jsClosed, got>>
vars == <<ctl, link, receiver, rxRing, txRing, wake, mail, closing, err, owner, jsVars, sent>>

(***************************************************************************)
(* The constructor has taken the manager's slot, linked the JavaScript     *)
(* object and started udp_task.                                            *)
(***************************************************************************)
Init ==
  /\ task = "create" /\ ret = "take" /\ raise = {} /\ held = 0 /\ leaving = FALSE
  /\ socket = FALSE /\ listens = FALSE /\ receiver = "idle"
  /\ rx = [i \in Slots |-> 0] /\ rxRead = 0 /\ rxWrite = 0 /\ rxCount = 0 /\ dropped = 0
  /\ tx = [i \in Slots |-> 0] /\ txRead = 0 /\ txWrite = 0 /\ txCount = 0
  /\ wake = 0 /\ pending = {} /\ msgs = 0 /\ closing = FALSE /\ err = 0
  /\ active = TRUE /\ manager = "idle" /\ allocated = TRUE /\ hostData = TRUE
  /\ js = "idle" /\ owes = FALSE /\ ev = {} /\ count = 0 /\ credit = 0
  /\ failed = FALSE /\ jsClosed = FALSE
  /\ arrived = 0 /\ got = 0 /\ written = 0 /\ sent = 0

-----------------------------------------------------------------------------
(* Operators shared by the tasks.  One whose name starts with Bug is a      *)
(* plausible mistake in the definition after it; no specification uses it.  *)

After(i) == (i + 1) % QueueSize

BugMaxWake == 1                    \* a binary semaphore
MaxWake == QueueSize + 1

Given == IF wake < MaxWake THEN wake + 1 ELSE wake

BugPosts == TRUE                   \* every trigger posts a message
Posts == pending = {}

BugMerged(events) == IF pending = {} THEN events ELSE pending   \* dropped while one is posted
Merged(events) == pending \cup events

Goto(next) == task' = next /\ UNCHANGED <<ret, raise>>

Raise(events, next) == task' = "trigger" /\ raise' = events /\ ret' = next

-----------------------------------------------------------------------------
(* udp_task *)

CreateFails == /\ task = "create"
               /\ err' = 1
               /\ Raise({"ERROR"}, "vacate")
               /\ UNCHANGED <<held, leaving, link, receiver, rxRing, txRing, wake, mail, closing,
                              owner, jsVars, sent>>

CreateSucceeds == /\ task = "create"
                  /\ socket' = TRUE
                  /\ Goto("listen")
                  /\ UNCHANGED <<held, leaving, listens, receiver, rxRing, txRing, wake, mail,
                                 closing, err, owner, jsVars, sent>>

Listen == /\ task = "listen"
          /\ listens' = TRUE
          /\ Goto("wait")
          /\ UNCHANGED <<held, leaving, socket, receiver, rxRing, txRing, wake, mail, closing,
                         err, owner, jsVars, sent>>

\* xSemaphoreTake(wake, 100 ms): a token, or the timeout.
Wait == /\ task = "wait"
        /\ wake' = IF wake > 0 THEN wake - 1 ELSE wake
        /\ Goto("take")
        /\ UNCHANGED <<held, leaving, link, receiver, rxRing, txRing, mail, closing, err, owner,
                       jsVars, sent>>

\* One packet a turn; on closing the packet taken is not sent.
Take == /\ task = "take"
        /\ leaving' = closing
        /\ IF txCount > 0
           THEN /\ held' = tx[txRead]
                /\ sent' = held'
                /\ txRead' = After(txRead)
                /\ txCount' = txCount - 1
           ELSE held' = 0 /\ UNCHANGED <<sent, txRead, txCount>>
        /\ Goto("send")
        /\ UNCHANGED <<link, receiver, rxRing, tx, txWrite, written, wake, mail, closing, err,
                       owner, jsVars>>

BugLeaves == FALSE                 \* the loop does not look at closing
Leaves == leaving

BugAfterError == "unlisten"        \* a packet that cannot be sent ends the socket
AfterError == "wait"

BugAfterLoop == "vacate"           \* leaves without closing the socket
AfterLoop == "unlisten"

Send == /\ task = "send"
        /\ held' = 0
        /\ \/ Leaves /\ Goto(AfterLoop) /\ UNCHANGED err
           \/ ~Leaves /\ Goto("wait") /\ UNCHANGED err
           \/ ~Leaves /\ held # 0 /\ err' = 2 /\ Raise({"ERROR"}, AfterError)
        /\ UNCHANGED <<leaving, link, receiver, rxRing, txRing, wake, mail, closing, owner,
                       jsVars, sent>>

\* MicroLink does not return while the receive callback runs (external).
Unlisten == /\ task = "unlisten" /\ receiver = "idle"
            /\ listens' = FALSE
            /\ Goto("close")
            /\ UNCHANGED <<held, leaving, socket, receiver, rxRing, txRing, wake, mail, closing,
                           err, owner, jsVars, sent>>

CloseSocket == /\ task = "close"
               /\ socket' = FALSE
               /\ Goto("vacate")
               /\ UNCHANGED <<held, leaving, listens, receiver, rxRing, txRing, wake, mail,
                              closing, err, owner, jsVars, sent>>

BugMutexFree == TRUE               \* vacates the slot without the manager's mutex
MutexFree == manager # "holds"

Vacate == /\ task = "vacate" /\ MutexFree
          /\ active' = FALSE
          /\ Raise({"FINAL"}, "gone")
          /\ UNCHANGED <<held, leaving, link, receiver, rxRing, txRing, wake, mail, closing, err,
                         manager, allocated, hostData, jsVars, sent>>

Trigger == /\ task = "trigger"
           /\ pending' = Merged(raise)
           /\ raise' = {}
           /\ task' = IF Posts THEN "post" ELSE ret
           /\ UNCHANGED <<ret, held, leaving, link, receiver, rxRing, txRing, wake, msgs,
                          closing, err, owner, jsVars, sent>>

Post == /\ task = "post"
        /\ msgs' = msgs + 1
        /\ Goto(ret)
        /\ UNCHANGED <<held, leaving, link, receiver, rxRing, txRing, wake, pending, closing,
                       err, owner, jsVars, sent>>

TaskStep == \/ CreateFails \/ CreateSucceeds \/ Listen \/ Wait \/ Take \/ Send
            \/ Unlisten \/ CloseSocket \/ Vacate \/ Trigger \/ Post

-----------------------------------------------------------------------------
(* udp_receive, in MicroLink's task *)

BugDropsOldest == rxRead           \* drops without moving the read index
DropsOldest == After(rxRead)

Receive ==
  /\ listens /\ receiver = "idle" /\ arrived < MaxArrivals
  /\ IF closing
     THEN UNCHANGED <<rxRing, receiver>>
     ELSE /\ arrived' = arrived + 1
          /\ IF rxCount = QueueSize
             THEN rxRead' = DropsOldest /\ dropped' = dropped + 1 /\ UNCHANGED rxCount
             ELSE rxCount' = rxCount + 1 /\ UNCHANGED <<rxRead, dropped>>
          /\ rx' = [rx EXCEPT ![rxWrite] = arrived']
          /\ rxWrite' = After(rxWrite)
          /\ receiver' = "trigger"
  /\ UNCHANGED <<ctl, link, txRing, wake, mail, closing, err, owner, jsVars, sent>>

ReceiverTriggers == /\ receiver = "trigger"
                    /\ pending' = Merged({"READABLE"})
                    /\ receiver' = IF Posts THEN "post" ELSE "idle"
                    /\ UNCHANGED <<ctl, link, rxRing, txRing, wake, msgs, closing, err, owner,
                                   jsVars, sent>>

ReceiverPosts == /\ receiver = "post"
                 /\ msgs' = msgs + 1
                 /\ receiver' = "idle"
                 /\ UNCHANGED <<ctl, link, rxRing, txRing, wake, pending, closing, err, owner,
                                jsVars, sent>>

-----------------------------------------------------------------------------
(* The JavaScript thread: udp_deliver *)

Deliver == /\ js = "idle" /\ ~owes /\ msgs > 0
           /\ msgs' = msgs - 1
           /\ ev' = pending
           /\ pending' = {}
           /\ count' = rxCount
           /\ js' = "readable"
           /\ UNCHANGED <<ctl, link, receiver, rxRing, txRing, wake, closing, err, owner, owes,
                          credit, failed, jsClosed, got, sent>>

ReadableHeard == "READABLE" \in ev /\ count > 0

BugErrorHeard == "ERROR" \in ev /\ "READABLE" \notin ev   \* an else-if
ErrorHeard == "ERROR" \in ev

BugAnnounced == credit + count                            \* += for =
Announced == count

OnReadable == /\ js = "readable"
              /\ credit' = IF ReadableHeard THEN Announced ELSE credit
              /\ js' = "error"
              /\ UNCHANGED <<ctl, link, receiver, rxRing, txRing, wake, mail, closing, err, owner,
                             owes, ev, count, failed, jsClosed, got, sent>>

OnError == /\ js = "error" /\ ~owes
           /\ failed' = (failed \/ ErrorHeard)
           /\ js' = "final"
           /\ UNCHANGED <<ctl, link, receiver, rxRing, txRing, wake, mail, closing, err, owner,
                          owes, ev, count, credit, jsClosed, got, sent>>

OnFinal == /\ js = "final" /\ ~owes
           /\ IF "FINAL" \in ev THEN hostData' = FALSE /\ allocated' = FALSE
                                ELSE UNCHANGED <<hostData, allocated>>
           /\ js' = "idle" /\ ev' = {} /\ count' = 0
           /\ UNCHANGED <<ctl, link, receiver, rxRing, txRing, wake, mail, closing, err, active,
                          manager, owes, credit, failed, jsClosed, got, sent>>

-----------------------------------------------------------------------------
(* The application, between messages or inside a callback *)

InApplication == /\ ~owes
                 /\ \/ js = "idle"
                    \/ js = "error" /\ ReadableHeard
                    \/ js = "final" /\ ErrorHeard

Read == /\ InApplication /\ hostData /\ rxCount > 0
        /\ got' = rx[rxRead]
        /\ rxRead' = After(rxRead)
        /\ rxCount' = rxCount - 1
        /\ credit' = IF credit > 0 THEN credit - 1 ELSE 0
        /\ UNCHANGED <<ctl, link, receiver, rx, rxWrite, dropped, arrived, txRing, wake, mail,
                       closing, err, owner, js, owes, ev, count, failed, jsClosed, sent>>

BugRoom == TRUE                    \* a full queue is overwritten
Room == txCount < QueueSize

\* write() to a socket that is closing, or whose queue is full, returns false.
Write == /\ InApplication /\ hostData /\ written < MaxWrites
         /\ ~closing /\ Room
         /\ written' = written + 1
         /\ tx' = [tx EXCEPT ![txWrite] = written']
         /\ txWrite' = After(txWrite)
         /\ txCount' = txCount + 1
         /\ owes' = TRUE
         /\ UNCHANGED <<ctl, link, receiver, rxRing, txRead, wake, mail, closing, err, owner, js,
                        ev, count, credit, failed, jsClosed, got, sent>>

Close == /\ InApplication /\ ~jsClosed
         /\ jsClosed' = TRUE
         /\ closing' = (closing \/ hostData)
         /\ owes' = hostData
         /\ UNCHANGED <<ctl, link, receiver, rxRing, txRing, wake, mail, err, owner, js, ev,
                        count, credit, failed, got, sent>>

\* The end of write() and of close(): xSemaphoreGive(wake).
Give == /\ owes
        /\ owes' = FALSE
        /\ wake' = Given
        /\ UNCHANGED <<ctl, link, receiver, rxRing, txRing, mail, closing, err, owner, js, ev,
                       count, credit, failed, jsClosed, got, sent>>

-----------------------------------------------------------------------------
(* manager_close_transports holds the manager's mutex over the request. *)

ManagerCloses == /\ active /\ manager = "idle"
                 /\ closing' = TRUE
                 /\ manager' = "holds"
                 /\ UNCHANGED <<ctl, link, receiver, rxRing, txRing, wake, mail, err, active,
                                allocated, hostData, jsVars, sent>>

ManagerGives == /\ manager = "holds"
                /\ wake' = Given
                /\ manager' = "waits"
                /\ UNCHANGED <<ctl, link, receiver, rxRing, txRing, mail, closing, err, active,
                               allocated, hostData, jsVars, sent>>

-----------------------------------------------------------------------------
DeliverStep == Deliver \/ OnReadable \/ OnError \/ OnFinal

Next == \/ TaskStep \/ DeliverStep
        \/ Receive \/ ReceiverTriggers \/ ReceiverPosts
        \/ Read \/ Write \/ Close \/ Give
        \/ ManagerCloses \/ ManagerGives

Spec == Init /\ [][Next]_vars

-----------------------------------------------------------------------------
\* The values the variables range over: no index leaves its ring.
TypeOK ==
  /\ task \in {"create", "listen", "wait", "take", "send", "unlisten", "close", "vacate",
               "trigger", "post", "gone"}
  /\ ret \in {"take", "wait", "vacate", "gone"} /\ raise \subseteq Events
  /\ held \in 0..MaxWrites /\ leaving \in BOOLEAN
  /\ socket \in BOOLEAN /\ listens \in BOOLEAN /\ receiver \in {"idle", "trigger", "post"}
  /\ rx \in [Slots -> 0..MaxArrivals] /\ tx \in [Slots -> 0..MaxWrites]
  /\ rxRead \in Slots /\ rxWrite \in Slots /\ txRead \in Slots /\ txWrite \in Slots
  /\ rxCount \in 0..QueueSize /\ txCount \in 0..QueueSize
  /\ dropped \in 0..MaxArrivals /\ wake \in 0..QueueSize + 1
  /\ pending \subseteq Events /\ msgs \in 0..1 /\ closing \in BOOLEAN /\ err \in 0..2
  /\ active \in BOOLEAN /\ manager \in {"idle", "holds", "waits"}
  /\ allocated \in BOOLEAN /\ hostData \in BOOLEAN
  /\ js \in {"idle", "readable", "error", "final"} /\ owes \in BOOLEAN
  /\ ev \subseteq Events /\ count \in 0..QueueSize /\ credit \in 0..QueueSize
  /\ failed \in BOOLEAN /\ jsClosed \in BOOLEAN
  /\ arrived \in 0..MaxArrivals /\ got \in 0..MaxArrivals
  /\ written \in 0..MaxWrites /\ sent \in 0..MaxWrites

Posting == (IF task = "post" THEN 1 ELSE 0) + (IF receiver = "post" THEN 1 ELSE 0)

\* Two tasks raise events for one mailbox: events are pending exactly when one
\* delivery is posted or about to be, never two of them.
OneMessage == msgs + Posting = IF pending = {} THEN 0 ELSE 1

\* Nobody touches a freed record: not its task, not the receive callback, not
\* the manager between its request and its give, not a message still posted.
NoUseAfterFree == ~allocated => /\ task = "gone" /\ receiver = "idle" /\ msgs = 0
                                /\ manager # "holds" /\ ~hostData /\ ~owes

\* onReadable's count is a promise: however many packets arrive and push out
\* older ones, that many read() calls find a packet.
ReadIsBacked == hostData => credit <= rxCount

\* A packet that waits and was not announced will be: the queue holds more than
\* the application was told of only while READABLE is on its way.
NoLostReadable ==
  hostData /\ rxCount > credit =>
    \/ receiver = "trigger" \/ "READABLE" \in pending
    \/ js = "readable" /\ "READABLE" \in ev

\* The sending task never sleeps on a packet: each one queued holds a token of
\* wake, except where its write() has yet to give it.
PromptSend == task = "wait" /\ socket =>
                txCount <= wake + (IF owes THEN 1 ELSE 0)

\* The slot is given back only when the socket is closed and MicroLink can no
\* longer call back (manager_close_transports waits for it, then destroys it).
SlotGuardsSocket == ~active => ~socket /\ ~listens /\ receiver = "idle"

\* A socket that could not be created, or a packet that could not be sent, is
\* told to the application before the record goes, though events coalesce.
ErrorBeforeFree == ~allocated /\ err # 0 => failed

Ring(slots, read, used) == [i \in 1..used |-> slots[(read + i - 1) % QueueSize]]

\* The receive ring is a queue that drops its oldest packet ("受信超過時は
\* 最古のpacketを破棄します") and counts every packet it drops.
Received == INSTANCE PacketQueue WITH
              Size <- QueueSize, DropsOldest <- TRUE, queue <- Ring(rx, rxRead, rxCount),
              last <- arrived, taken <- got, lost <- dropped

ReceivesInOrder == Received!Spec

\* The send ring is a queue that refuses a packet when full and loses none:
\* what the task takes is what was written, in order and once.
Sending == INSTANCE PacketQueue WITH
             Size <- QueueSize, DropsOldest <- FALSE, queue <- Ring(tx, txRead, txCount),
             last <- written, taken <- sent, lost <- 0

SendsInOrder == Sending!Spec

\* Both rings are the queues the application is promised.
RingsAreQueues == ReceivesInOrder /\ SendsInOrder

-----------------------------------------------------------------------------
\* What the run checks of the shared record: its types, its mailbox, its slot
\* and its last use, between two tasks, a callback, the manager and JavaScript.
RecordIsSafe == TypeOK /\ OneMessage /\ NoUseAfterFree /\ SlotGuardsSocket /\ ErrorBeforeFree

\* onReadable's count: all of it can be read, and no packet is left out of it.
CountIsTrue == ReadIsBacked /\ NoLostReadable
=============================================================================
