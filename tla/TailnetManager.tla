--------------------------- MODULE TailnetManager ---------------------------
(***************************************************************************)
(* The manager of native/tailscale-native.c: manager_task, the command      *)
(* queue and flags it shares with the JavaScript thread, the MicroLink it   *)
(* creates, rotates and destroys, and the TCP and UDP transports that hold  *)
(* a pointer to that MicroLink.  A transport is what its slot shows of it:  *)
(* TcpTransport models what happens inside.  The JavaScript side is the     *)
(* native API as modules/tailscale.js calls it.  One manager record, from   *)
(* the constructor to manager_free.                                         *)
(***************************************************************************)
EXTENDS Naturals, Sequences

CONSTANT QueueSize      \* length of manager->commands (4 in the code)

ASSUME QueueAssumption == QueueSize \in Nat \ {0}

Kinds == {"tcp", "udp"}

Rotation == {"rotClose", "rotWait", "rotUnpublish", "rotDestroy", "rotateKey"}
Creation == {"create", "launch", "drop", "fail", "rotDone"}
Shutdown == {"stopClose", "stopWait", "stopUnpublish", "stopDestroy", "down",
             "closed", "unlist", "last", "gone"}

VARIABLES
  at,          \* where manager_task stands
  commands,    \* the queue: "START", "REBIND", "WAKE"
  published,   \* manager->ml # NULL
  live,        \* number of MicroLinks initialised and not destroyed
  mlState,     \* what microlink_get_state reports, of a live one
  lastError,
  restarting, rotations,
  startRequested, stopRequested, taskRunning, closedFlag, abandoned,
  listed,      \* gManager = manager
  allocated,   \* the record has not been freed
  slot,        \* per kind: a transport holds the slot (tcp_active, udp_active)
  closing,     \* per kind: its closing flag
  pointer,     \* per kind: its copy of manager->ml
  looked,      \* the constructor's copy of manager->ml
  js,          \* native call the JavaScript thread is in
  jsKind,      \* the kind of transport it constructs
  hostData,    \* the NativeManager object points to the record
  reachable    \* the application or the poll timer still holds the Tailnet

task == <<at, restarting, rotations>>
micro == <<published, live, mlState>>
life == <<taskRunning, closedFlag, listed, allocated>>
requests == <<startRequested, stopRequested, abandoned>>
transports == <<slot, closing, pointer, looked>>
jsVars == <<js, jsKind, hostData, reachable>>
vars == <<task, commands, micro, lastError, requests, life, transports, jsVars>>

Init ==
  /\ at = "loop" /\ restarting = FALSE /\ rotations = 0
  /\ commands = <<>> /\ published = FALSE /\ live = 0 /\ mlState = "idle"
  /\ lastError = 0
  /\ startRequested = FALSE /\ stopRequested = FALSE /\ abandoned = FALSE
  /\ taskRunning = TRUE /\ closedFlag = FALSE /\ listed = TRUE /\ allocated = TRUE
  /\ slot = [k \in Kinds |-> FALSE]
  /\ closing = [k \in Kinds |-> FALSE]
  /\ pointer = [k \in Kinds |-> "none"] /\ looked = "none"
  /\ js = "idle" /\ jsKind \in Kinds /\ hostData = TRUE /\ reachable = TRUE

-----------------------------------------------------------------------------
(* manager_task.  An operator whose name starts with Bug is a plausible     *)
(* mistake in the definition after it; no specification uses it.            *)

BugRestarts == FALSE                         \* restarting is not set
Restarts == TRUE

\* The queue was empty for 100 ms: look at the MicroLink's state.
Poll ==
  /\ at = "loop" /\ ~stopRequested /\ commands = <<>>
  /\ LET state == IF published THEN mlState ELSE "idle"
     IN CASE state = "expired" /\ rotations > 0 ->
               lastError' = 4 /\ UNCHANGED task
          [] state = "expired" /\ rotations = 0 ->
               at' = "rotClose" /\ restarting' = Restarts /\ UNCHANGED <<rotations, lastError>>
          [] OTHER ->
               /\ rotations' = IF state = "connected" THEN 0 ELSE rotations
               /\ UNCHANGED <<at, restarting, lastError>>
  /\ UNCHANGED <<commands, micro, requests, life, transports, jsVars>>

Receive ==
  /\ at = "loop" /\ ~stopRequested /\ commands # <<>>
  /\ commands' = Tail(commands)
  /\ CASE Head(commands) = "START" -> at' = "create" /\ UNCHANGED lastError
       [] Head(commands) = "REBIND" ->
            /\ UNCHANGED at
            /\ \/ lastError' = 3
               \/ published /\ UNCHANGED lastError
       [] OTHER -> UNCHANGED <<at, lastError>>
  /\ UNCHANGED <<restarting, rotations, micro, requests, life, transports, jsVars>>

\* The loop's condition, or the check after a command was received.
Stop == /\ at = "loop" /\ stopRequested
        /\ at' = "stopClose"
        /\ commands' \in {commands} \cup (IF commands = <<>> THEN {} ELSE {Tail(commands)})
        /\ UNCHANGED <<restarting, rotations, micro, lastError, requests, life, transports,
                       jsVars>>

BugAsked(k) == closing[k] \/ (slot[k] /\ k = "tcp")   \* forgets the datagram socket
Asked(k) == closing[k] \/ slot[k]

\* manager_close_transports, first half: under the manager's lock.
RequestClose == /\ at \in {"rotClose", "stopClose"}
                /\ at' = IF at = "rotClose" THEN "rotWait" ELSE "stopWait"
                /\ closing' = [k \in Kinds |-> Asked(k)]
                /\ UNCHANGED <<restarting, rotations, commands, micro, lastError, requests,
                               life, slot, pointer, looked, jsVars>>

BugQuiet == ~slot["tcp"]                     \* forgets the datagram socket
Quiet == \A k \in Kinds : ~slot[k]

\* Second half: poll the two flags, without the lock.
AwaitTransports == /\ at \in {"rotWait", "stopWait"}
                   /\ Quiet
                   /\ at' = IF at = "rotWait" THEN "rotUnpublish" ELSE "stopUnpublish"
                   /\ UNCHANGED <<restarting, rotations, commands, micro, lastError, requests,
                                  life, transports, jsVars>>

BugUnpublishes == FALSE                      \* destroys what is still published
Unpublishes == TRUE

Unpublish == /\ at \in {"rotUnpublish", "stopUnpublish"}
             /\ at' = IF at = "rotUnpublish" THEN "rotDestroy" ELSE "stopDestroy"
             /\ published' = (published /\ ~Unpublishes)
             /\ UNCHANGED <<restarting, rotations, commands, live, mlState, lastError,
                            requests, life, transports, jsVars>>

\* Every copy of the pointer dangles from here on.
Dangling(copy) == IF copy = "live" THEN "dangling" ELSE copy
Dangle == /\ pointer' = [k \in Kinds |-> Dangling(pointer[k])]
          /\ looked' = Dangling(looked)

Destroy == /\ at \in {"rotDestroy", "stopDestroy"}
           /\ live' = IF live > 0 THEN live - 1 ELSE 0
           /\ mlState' = "idle"
           /\ Dangle
           /\ IF at = "rotDestroy" THEN at' = "rotateKey" /\ rotations' = 1
                                   ELSE at' = "down" /\ UNCHANGED rotations
           /\ UNCHANGED <<restarting, commands, published, lastError, requests, life, slot,
                          closing, jsVars>>

\* microlink_rotate_node_key
RotateKey == /\ at = "rotateKey"
             /\ at' \in {"create", "fail"}
             /\ UNCHANGED <<restarting, rotations, commands, micro, lastError, requests, life,
                            transports, jsVars>>

\* manager_create_microlink: microlink_init, published before microlink_start.
Create == /\ at = "create"
          /\ \/ /\ at' = "launch"
                /\ live' = live + 1
                /\ published' = TRUE
                /\ mlState' = "connecting"
             \/ at' = "fail" /\ UNCHANGED micro
          /\ UNCHANGED <<restarting, rotations, commands, lastError, requests, life,
                         transports, jsVars>>

Launch == /\ at = "launch"
          /\ \/ at' = (IF restarting THEN "rotDone" ELSE "loop") /\ UNCHANGED published
             \/ at' = "drop" /\ published' = FALSE
          /\ UNCHANGED <<restarting, rotations, commands, live, mlState, lastError, requests,
                         life, transports, jsVars>>

Drop == /\ at = "drop"
        /\ at' = "fail"
        /\ live' = live - 1
        /\ mlState' = "idle"
        /\ Dangle
        /\ UNCHANGED <<restarting, rotations, commands, published, lastError, requests, life,
                       slot, closing, jsVars>>

BugAfterFailure == "loop"                    \* goes on before restarting is reset
AfterFailure == IF restarting THEN "rotDone" ELSE "loop"

Fail == /\ at = "fail"
        /\ lastError' = IF restarting THEN 4 ELSE 1
        /\ at' = AfterFailure
        /\ UNCHANGED <<restarting, rotations, commands, micro, requests, life, transports,
                       jsVars>>

RotDone == /\ at = "rotDone"
           /\ restarting' = FALSE
           /\ at' = "loop"
           /\ UNCHANGED <<rotations, commands, micro, lastError, requests, life, transports,
                          jsVars>>

Down == /\ at = "down"
        /\ taskRunning' = FALSE
        /\ at' = "closed"
        /\ UNCHANGED <<restarting, rotations, commands, micro, lastError, requests, closedFlag,
                       listed, allocated, transports, jsVars>>

MarkClosed == /\ at = "closed"
              /\ closedFlag' = TRUE
              /\ at' = "unlist"
              /\ UNCHANGED <<restarting, rotations, commands, micro, lastError, requests,
                             taskRunning, listed, allocated, transports, jsVars>>

Unlist == /\ at = "unlist"
          /\ listed' = FALSE
          /\ at' = "last"
          /\ UNCHANGED <<restarting, rotations, commands, micro, lastError, requests,
                         taskRunning, closedFlag, allocated, transports, jsVars>>

\* if (manager->abandoned) manager_free(manager): of a record already freed
\* the task reads anything.
Exit == /\ at = "last"
        /\ at' = "gone"
        /\ allocated' \in IF allocated THEN {~abandoned} ELSE {FALSE}
        /\ UNCHANGED <<restarting, rotations, commands, micro, lastError, requests,
                       taskRunning, closedFlag, listed, transports, jsVars>>

TaskStep == \/ Poll \/ Receive \/ Stop \/ RequestClose \/ AwaitTransports \/ Unpublish
            \/ Destroy \/ RotateKey \/ Create \/ Launch \/ Drop \/ Fail \/ RotDone
            \/ Down \/ MarkClosed \/ Unlist \/ Exit

-----------------------------------------------------------------------------
(* MicroLink's own tasks, and the transports' *)

\* Its coordination task moves between states once microlink_start is done;
\* an expired key stays expired.
MicroLinkMoves == /\ live > 0 /\ mlState # "expired"
                  /\ at \notin {"launch", "drop", "rotDestroy", "stopDestroy"}
                  /\ mlState' \in {"connecting", "connected", "expired"} \ {mlState}
                  /\ UNCHANGED <<task, commands, published, live, lastError, requests, life,
                                 transports, jsVars>>

\* The transport task's first statement copies manager->ml.
TransportStarts(k) == /\ slot[k] /\ pointer[k] = "none"
                      /\ pointer' = [pointer EXCEPT ![k] = IF published THEN "live" ELSE "null"]
                      /\ UNCHANGED <<task, commands, micro, lastError, requests, life, slot,
                                     closing, looked, jsVars>>

\* It hands its slot back, and its record is freed.
Vacate(k) == /\ slot' = [slot EXCEPT ![k] = FALSE]
             /\ closing' = [closing EXCEPT ![k] = FALSE]
             /\ pointer' = [pointer EXCEPT ![k] = "none"]
             /\ UNCHANGED <<task, commands, micro, lastError, requests, life, looked, jsVars>>

\* It ends when asked to, or when it found no MicroLink.
TransportEnds(k) == /\ slot[k] /\ pointer[k] # "none" /\ (closing[k] \/ pointer[k] = "null")
                    /\ Vacate(k)

\* Or its socket fails.
TransportFails(k) == /\ slot[k] /\ pointer[k] \in {"live", "dangling"} /\ ~closing[k]
                     /\ Vacate(k)

-----------------------------------------------------------------------------
(* The JavaScript thread *)

Valid == js = "idle" /\ reachable /\ hostData /\ ~closedFlag

BugHasRoom == TRUE                          \* sends whatever the queue holds
HasRoom == Len(commands) < QueueSize

BugMayStart == TRUE                         \* a second start is let through
MayStart == ~startRequested

\* Tailnet.start; from now on the poll timer holds the object.
Start == /\ Valid /\ MayStart /\ HasRoom
         /\ startRequested' = TRUE
         /\ commands' = Append(commands, "START")
         /\ UNCHANGED <<task, micro, lastError, stopRequested, abandoned, life, transports,
                        jsVars>>

\* rebind looks for a MicroLink under the lock ...
Rebind == /\ Valid /\ published
          /\ js' = "rebind"
          /\ UNCHANGED <<task, commands, micro, lastError, requests, life, transports, jsKind,
                         hostData, reachable>>

\* ... then forgets the error, whatever the task has done since ...
ForgetError == /\ js = "rebind"
               /\ js' = "send"
               /\ lastError' = 0
               /\ UNCHANGED <<task, commands, micro, requests, life, transports, jsKind,
                              hostData, reachable>>

\* ... and sends the command, or throws because the queue is full.
SendRebind == /\ js = "send"
              /\ js' = "idle"
              /\ commands' = IF HasRoom THEN Append(commands, "REBIND") ELSE commands
              /\ UNCHANGED <<task, micro, lastError, requests, life, transports, jsKind,
                             hostData, reachable>>

Close == /\ Valid /\ ~stopRequested
         /\ stopRequested' = TRUE
         /\ commands' = IF HasRoom THEN Append(commands, "WAKE") ELSE commands
         /\ UNCHANGED <<task, micro, lastError, startRequested, abandoned, life, transports,
                        jsVars>>

BugMayRelease == stopRequested              \* asks only that close() was called
MayRelease == closedFlag /\ ~taskRunning

\* The poll timer saw closed: release frees the record.
Release == /\ js = "idle" /\ reachable /\ hostData /\ stopRequested /\ MayRelease
           /\ hostData' = FALSE
           /\ allocated' = FALSE
           /\ UNCHANGED <<task, commands, micro, lastError, requests, taskRunning, closedFlag,
                          listed, transports, js, jsKind, reachable>>

\* Nothing holds the Tailnet any more: the application dropped it before it had a
\* timer, or the virtual machine ends.  Then its destructor runs.
Forget == /\ js = "idle" /\ reachable
          /\ reachable' = FALSE
          /\ UNCHANGED <<task, commands, micro, lastError, requests, life, transports, js,
                         jsKind, hostData>>

BugAbandons == FALSE                        \* leaves the record to nobody
Abandons == TRUE

\* The task still runs: it is told to free the record itself.
Collect == /\ js = "idle" /\ ~reachable /\ hostData /\ taskRunning
           /\ hostData' = FALSE
           /\ abandoned' = Abandons
           /\ stopRequested' = TRUE
           /\ js' = "collect"
           /\ UNCHANGED <<task, commands, micro, lastError, startRequested, life, transports,
                          jsKind, reachable>>

BugMayFree == stopRequested                 \* asks only whether the task was told to end
MayFree == ~taskRunning

\* The task is done with all but its last reads: the destructor frees the record.
CollectFrees == /\ js = "idle" /\ ~reachable /\ hostData /\ MayFree
                /\ hostData' = FALSE
                /\ allocated' = FALSE
                /\ UNCHANGED <<task, commands, micro, lastError, requests, taskRunning,
                               closedFlag, listed, transports, js, jsKind, reachable>>

CollectWakes == /\ js = "collect"
                /\ js' = "idle"
                /\ commands' = IF HasRoom THEN Append(commands, "WAKE") ELSE commands
                /\ UNCHANGED <<task, micro, lastError, requests, life, transports, jsKind,
                               hostData, reachable>>

\* The application closes a transport.
CloseTransport(k) == /\ js = "idle" /\ slot[k] /\ ~closing[k]
                     /\ closing' = [closing EXCEPT ![k] = TRUE]
                     /\ UNCHANGED <<task, commands, micro, lastError, requests, life, slot,
                                    pointer, looked, jsVars>>

\* A transport's constructor copies the pointer under the lock ...
Construct(k) == /\ Valid /\ published
                /\ js' = "look"
                /\ jsKind' = k
                /\ looked' = "live"
                /\ UNCHANGED <<task, commands, micro, lastError, requests, life, slot, closing,
                               pointer, hostData, reachable>>

\* ... asks that MicroLink, without the lock, whether it is connected (one that was
\* destroyed meanwhile answers anything), or throws ...
LookUp == /\ js = "look"
          /\ \/ (looked = "live" => mlState = "connected") /\ js' = "construct"
             \/ (looked = "live" => mlState # "connected") /\ js' = "idle"
          /\ looked' = "none"
          /\ UNCHANGED <<task, commands, micro, lastError, requests, life, slot, closing,
                         pointer, jsKind, hostData, reachable>>

BugSlotFree(k) == ~slot[k]                  \* does not ask for stop_requested
SlotFree(k) == ~slot[k] /\ ~stopRequested

\* ... and takes the slot under it, or throws.  Without memory for its task
\* it hands the slot back.
TakeSlot == /\ js = "construct"
            /\ js' = "idle"
            /\ slot' \in {slot} \cup
                 (IF SlotFree(jsKind) THEN {[slot EXCEPT ![jsKind] = TRUE]} ELSE {})
            /\ UNCHANGED <<task, commands, micro, lastError, requests, life, closing, pointer,
                           looked, jsKind, hostData, reachable>>

\* A native call goes on.
Continue == ForgetError \/ SendRebind \/ LookUp \/ TakeSlot \/ CollectWakes

JsStep == \/ Start \/ Rebind \/ Close \/ Release \/ Forget \/ Collect \/ CollectFrees
          \/ (\E k \in Kinds : Construct(k) \/ CloseTransport(k)) \/ Continue

TransportStep == \E k \in Kinds : TransportStarts(k) \/ TransportEnds(k) \/ TransportFails(k)

Next == TaskStep \/ MicroLinkMoves \/ TransportStep \/ JsStep

Spec == Init /\ [][Next]_vars

(***************************************************************************)
(* The scheduler runs the manager's task and the transports' tasks; a       *)
(* transport asked to close ends (TcpTransport's TransportSettles); the     *)
(* JavaScript thread finishes a call, and its timer polls for closed.       *)
(***************************************************************************)
Fairness == /\ WF_vars(TaskStep)
            /\ \A k \in Kinds : WF_vars(TransportStarts(k)) /\ WF_vars(TransportEnds(k))
            /\ WF_vars(Continue) /\ WF_vars(Release)

FairSpec == Spec /\ Fairness

-----------------------------------------------------------------------------
\* The values the variables range over.
TypeOK ==
  /\ at \in {"loop"} \cup Rotation \cup Creation \cup Shutdown
  /\ commands \in Seq({"START", "REBIND", "WAKE"}) /\ Len(commands) <= QueueSize
  /\ published \in BOOLEAN /\ live \in Nat
  /\ mlState \in {"idle", "connecting", "connected", "expired"}
  /\ lastError \in {0, 1, 3, 4} /\ restarting \in BOOLEAN /\ rotations \in 0..1
  /\ startRequested \in BOOLEAN /\ stopRequested \in BOOLEAN /\ taskRunning \in BOOLEAN
  /\ closedFlag \in BOOLEAN /\ abandoned \in BOOLEAN /\ listed \in BOOLEAN
  /\ allocated \in BOOLEAN
  /\ slot \in [Kinds -> BOOLEAN] /\ closing \in [Kinds -> BOOLEAN]
  /\ pointer \in [Kinds -> {"none", "null", "live", "dangling"}]
  /\ looked \in {"none", "live", "dangling"}
  /\ js \in {"idle", "rebind", "send", "collect", "look", "construct"} /\ jsKind \in Kinds
  /\ hostData \in BOOLEAN /\ reachable \in BOOLEAN

\* What xs_tailscale_manager_get_state looks at, one after the other, before it
\* reports "idle".  A MicroLink counts once it has started, and a rotation until its
\* end has left one of the other two.
Marked == \/ lastError # 0
          \/ restarting /\ at # "rotDone"
          \/ published /\ at # "launch"

\* The getters call MicroLink through manager->ml under the lock: what is
\* published is never destroyed.
PublishedIsLive == published => live > 0

\* However start, rotation and their failures interleave, at most one
\* MicroLink exists, and the manager leaves none behind.
OneMicroLink == live <= 1 /\ (at \in {"down", "closed", "unlist", "last", "gone"} => live = 0)

\* Closing the Tailnet destroys the MicroLink only after both transports have
\* ended, and no transport is admitted later: none is left with a pointer.
CloseOutlivesTransports ==
  at \in Shutdown \ {"stopClose", "stopWait"} => \A k \in Kinds : ~slot[k] /\ pointer[k] = "none"

\* factoryReset erases the keys when no manager is listed: then no MicroLink
\* and no transport that uses them exists.
ResetFindsNobody == ~listed => live = 0 /\ \A k \in Kinds : ~slot[k]

\* What release or the destructor frees, no transport and no MicroLink points to.
FreedIsQuiet == ~allocated => live = 0 /\ ~taskRunning /\ \A k \in Kinds : ~slot[k]

\* A Tailnet that has come to a MicroLink or an error keeps a mark of what it came
\* to, through every rotation and failure, until it is closed.  There is one way to
\* lose it: a rebind that saw the MicroLink forgets the error of a rotation that
\* failed since.
AbsenceIsMarked == [][Marked /\ ~stopRequested /\ ~Marked' => ForgetError]_vars

\* What a manager owns: its variables' types, one MicroLink that outlives its
\* publication and the transports of a closed Tailnet, and nothing once it is
\* unlisted or freed.
ManagerIsSound ==
  /\ TypeOK /\ PublishedIsLive /\ OneMicroLink
  /\ CloseOutlivesTransports /\ ResetFindsNobody /\ FreedIsQuiet

-----------------------------------------------------------------------------
\* A rotation waits for a transport that took its slot after the close
\* requests went out, and that nobody has asked to close.
Stranded == at = "rotWait" /\ \E k \in Kinds : slot[k] /\ ~closing[k]

\* close() completes, also during a start or a rotation, unless the rotation
\* is stranded for good.
CloseCompletes == stopRequested ~> (closedFlag \/ []Stranded)

\* A rotation leads to a new MicroLink or to an error.
RotationCompletes == restarting ~> (~restarting \/ []Stranded)

\* A record nobody points to any more is freed, released or collected.
NothingLeaks == ~hostData ~> (~allocated \/ []Stranded)

=============================================================================
