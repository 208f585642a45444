------------------------------ MODULE DeviceApp ------------------------------
(***************************************************************************)
(* The application of examples/cores3-websocket/main.js: Wi-Fi, the clock, *)
(* the tailnet and the camera's WebSocket sessions, brought up in stages   *)
(* and brought up again after any of them fails.  One event loop runs the  *)
(* timers, the driver's and the transport's callbacks and the async        *)
(* functions; an action is what runs until the next await.  How long a     *)
(* timer takes is left out, except that each does fire.                    *)
(***************************************************************************)
EXTENDS Naturals, FiniteSets, FiniteSetsExt, Sequences

CONSTANTS MaxSessions,  \* bound: the WebSocket sessions, one after another
          MaxDrops      \* bound: times Wi-Fi goes down

ASSUME AppAssumption == MaxSessions \in Nat \ {0} /\ MaxDrops \in Nat

Sessions == 1..MaxSessions
None == 0

TailnetStates == {"connecting", "connected", "reconnecting", "user", "error"}

VARIABLES
  connection, changed,   \* wifi.connection, and its onChanged is due
  drops,
  wifiConnected, wifiHadIP, connectTimer, reconnectTimer,
  sntp,                  \* SNTP has been asked
  tailnet,               \* "none", or the state of the Tailnet object
  starting,              \* where startTailnet awaits, or "no"
  needsRebind, recoveryTimer,
  webSocket, retryTimer,
  at,                    \* where the session's openWebSocket awaits
  stream,                \* the session's WebSocketStream #state
  slot,                  \* the session whose TCP connection the manager has
  reads,                 \* sessions whose readServerMessages goes on
  run,                   \* where the session's cameraStream.run is
  cameraTask,            \* cameraSessionTask
  awaits,                \* the session whose camera task a session waits for
  opened,                \* the sessions in the order in which they opened
  owner, watching        \* heartbeatWatchdogSocket; the native watchdog runs

wifi == <<connection, changed, drops, wifiConnected, wifiHadIP, connectTimer, reconnectTimer>>
tail == <<tailnet, starting, needsRebind, recoveryTimer>>
socket == <<webSocket, retryTimer, at, stream, slot, reads>>
camera == <<run, cameraTask, awaits, opened>>
watch == <<owner, watching>>
vars == <<wifi, sntp, tail, socket, camera, watch>>

\* The scan has ended and connectWiFi has run.
Init ==
  /\ connection = "connecting" /\ changed = FALSE /\ drops = 0
  /\ wifiConnected = FALSE /\ wifiHadIP = FALSE
  /\ connectTimer = TRUE /\ reconnectTimer = FALSE
  /\ sntp = FALSE
  /\ tailnet = "none" /\ starting = "no" /\ needsRebind = FALSE /\ recoveryTimer = FALSE
  /\ webSocket = None /\ retryTimer = FALSE
  /\ at = [s \in Sessions |-> "unused"] /\ stream = [s \in Sessions |-> "connecting"]
  /\ slot = None /\ reads = {}
  /\ run = [s \in Sessions |-> "none"]
  /\ awaits = [s \in Sessions |-> None] /\ opened = <<>>
  /\ cameraTask = None /\ owner = None /\ watching = FALSE

-----------------------------------------------------------------------------
(* Sessions.  An operator whose name starts with Bug is a plausible mistake *)
(* in the definition after it; no specification uses it.                    *)

BugMayRetry(current) == current = None /\ wifiConnected /\ starting = "no"
                          /\ tailnet = "connected"     \* leaves it to startTailnet
MayRetry(current) == current = None /\ wifiConnected /\ tailnet = "connected"

\* retireWebSocket: forget the session, and schedule a retry.
Retire(s) == LET current == IF webSocket = s THEN None ELSE webSocket
             IN /\ webSocket' = current
                /\ retryTimer' = (retryTimer \/ MayRetry(current))

\* close() does nothing while the connection is being opened.
Closed(s) == IF stream[s] = "open" THEN "closing" ELSE stream[s]

BugOwns(s) == TRUE                     \* any session's end stops the watchdog
BugIsCurrent(s) == webSocket = s       \* asks for the current session instead
Owns(s) == owner = s

\* The finally block of openWebSocket.
Finally(s) == /\ at' = [at EXCEPT ![s] = "done"]
              /\ stream' = [stream EXCEPT ![s] = Closed(s)]
              /\ owner' = IF Owns(s) THEN None ELSE owner
              /\ watching' = (watching /\ ~Owns(s))
              /\ Retire(s)

\* A new WebSocketStream.
Opens == \E s \in Sessions : /\ at[s] = "unused" /\ \A t \in 1..(s - 1) : at[t] # "unused"
                             /\ webSocket' = s
                             /\ at' = [at EXCEPT ![s] = "opening"]

\* openWebSocket up to its first await; a constructor that throws is retried.
OpenWebSocket ==
  IF webSocket # None
  THEN UNCHANGED <<webSocket, retryTimer, at>>
  ELSE \/ Opens /\ UNCHANGED retryTimer
       \/ Retire(None) /\ UNCHANGED at

RetryTimerFires == /\ retryTimer
                   /\ \/ webSocket # None /\ retryTimer' = FALSE /\ UNCHANGED <<webSocket, at>>
                      \/ /\ webSocket = None
                         /\ Opens /\ retryTimer' = FALSE
                      \/ /\ webSocket = None       \* the constructor throws
                         /\ retryTimer' = MayRetry(None)
                         /\ UNCHANGED <<webSocket, at>>
                   /\ UNCHANGED <<wifi, sntp, tail, stream, slot, reads, camera, watch>>

\* The WebSocket client's TCP connection takes the manager's only slot.
TakeSlot(s) == /\ at[s] # "unused" /\ stream[s] = "connecting" /\ slot = None
               /\ slot' = s
               /\ UNCHANGED <<wifi, sntp, tail, webSocket, retryTimer, at, stream, reads, camera,
                               watch>>

BugMustWait == FALSE                   \* starts beside the camera task before it
MustWait == cameraTask # None

\* socket.opened resolves; a session given up before has nobody waiting.
StreamOpens(s) ==
  /\ stream[s] = "connecting" /\ slot = s
  /\ stream' = [stream EXCEPT ![s] = "open"]
  /\ IF at[s] = "opening"
     THEN /\ owner' = s /\ watching' = TRUE
          /\ opened' = Append(opened, s)
          /\ IF MustWait
             THEN /\ at' = [at EXCEPT ![s] = "previous"]
                  /\ awaits' = [awaits EXCEPT ![s] = cameraTask]
                  /\ UNCHANGED <<run, cameraTask, reads>>
             ELSE /\ at' = [at EXCEPT ![s] = "running"] /\ reads' = reads \cup {s}
                  /\ run' = [run EXCEPT ![s] = "hello"] /\ cameraTask' = s
                  /\ UNCHANGED awaits
     ELSE UNCHANGED <<at, reads, camera, watch>>
  /\ UNCHANGED <<wifi, sntp, tail, webSocket, retryTimer, slot>>

\* socket.opened resolves and the watchdog cannot be started: the finally block
\* stops it, for the session that owns it by now.
WatchdogFails(s) == /\ stream[s] = "connecting" /\ slot = s /\ at[s] = "opening"
                    /\ stream' = [stream EXCEPT ![s] = "closing"]
                    /\ at' = [at EXCEPT ![s] = "done"]
                    /\ owner' = None /\ watching' = FALSE
                    /\ Retire(s)
                    /\ UNCHANGED <<wifi, sntp, tail, slot, reads, camera>>

\* A transport error, a slot that is taken, or the peer's close.
StreamEnds(s) ==
  /\ at[s] # "unused" /\ stream[s] # "closed"
  /\ slot' = IF slot = s THEN None ELSE slot
  /\ stream' = [stream EXCEPT ![s] = "closed"]
  /\ Retire(s)
  /\ at' = IF at[s] = "opening" THEN [at EXCEPT ![s] = "done"] ELSE at
  /\ UNCHANGED <<wifi, sntp, tail, reads, camera, watch>>

\* waitWithTimeout(socket.opened, 65 s), and the finally block.
OpenTimesOut(s) == /\ at[s] = "opening" /\ stream[s] = "connecting"
                   /\ Finally(s)
                   /\ UNCHANGED <<wifi, sntp, tail, slot, reads, camera>>

BugLeft(s) == awaits                   \* the timeout does not detach
Left(s) == [awaits EXCEPT ![s] = None]

PreviousTimesOut(s) == /\ at[s] = "previous"
                       /\ Finally(s)
                       /\ awaits' = Left(s)
                       /\ UNCHANGED <<wifi, sntp, tail, slot, reads, run, cameraTask, opened>>

\* The race is over: the stream is closed or the camera has stopped.
SessionEnds(s) == /\ at[s] = "running"
                  /\ \/ stream[s] = "closed" \/ run[s] = "over"
                  /\ Finally(s)
                  /\ UNCHANGED <<wifi, sntp, tail, slot, reads, camera>>

\* readServerMessages ends: it finds the stream closed or the session replaced, or,
\* at any time, the write of an answer fails.  It retires the session, and where
\* that still goes on the race is over; an answer may hold the task up until later.
ReadEnds(s) == /\ s \in reads
               /\ reads' = reads \ {s}
               /\ IF at[s] = "running" THEN Finally(s)
                                       ELSE Retire(s) /\ UNCHANGED <<at, stream, watch>>
               /\ UNCHANGED <<wifi, sntp, tail, slot, camera>>

-----------------------------------------------------------------------------
(* CameraStream.run *)

SendHello(s) == /\ run[s] = "hello" /\ stream[s] = "open"
                /\ run' = [run EXCEPT ![s] = "frames"]
                /\ UNCHANGED <<wifi, sntp, tail, socket, cameraTask, awaits, opened,
                               watch>>

BugStillMine(s) == TRUE                \* a task that ends forgets the newer one
StillMine(s) == cameraTask = s

\* The latest of some sessions to open.
Newest(some) == opened[Max({i \in DOMAIN opened : opened[i] \in some})]

\* The camera fails, a write fails or times out, or frames find the session
\* replaced; cameraSessionTask is cleared only by its own task.  The sessions
\* that await it then start theirs, the oldest first, so that the newest is last.
RunEnds(s) ==
  LET next == {t \in Sessions : awaits[t] = s}
  IN /\ run[s] \in {"hello", "frames"}
     /\ run' = [t \in Sessions |-> IF t = s THEN "over" ELSE IF t \in next THEN "hello" ELSE run[t]]
     /\ at' = [t \in Sessions |-> IF t \in next THEN "running" ELSE at[t]]
     /\ reads' = reads \cup next
     /\ awaits' = [t \in Sessions |-> IF t \in next THEN None ELSE awaits[t]]
     /\ cameraTask' = IF next # {} THEN Newest(next)
                      ELSE IF StillMine(s) THEN None ELSE cameraTask
     /\ UNCHANGED <<wifi, sntp, tail, webSocket, retryTimer, stream, slot, opened, watch>>

-----------------------------------------------------------------------------
(* The tailnet *)

BugMayRecover == ~recoveryTimer        \* whether or not there is a network
MayRecover == wifiConnected /\ ~recoveryTimer

\* startTailnet up to its first await, for the tailnet state it would see.
StartTailnet(connected) ==
  IF starting # "no" \/ ~connected
  THEN UNCHANGED <<tailnet, starting, needsRebind>>
  ELSE \/ /\ tailnet = "none"
          /\ tailnet' = "connecting" /\ starting' = "start" /\ UNCHANGED needsRebind
       \/ /\ tailnet = "connected" /\ needsRebind
          /\ tailnet' = "reconnecting" /\ starting' = "rebind" /\ needsRebind' = FALSE
       \/ /\ tailnet = "connected" /\ ~needsRebind
          /\ starting' = "sleep" /\ UNCHANGED <<tailnet, needsRebind>>
       \/ /\ tailnet \notin {"none", "connected"}
          /\ UNCHANGED <<tailnet, starting, needsRebind>>

RecoveryTimerFires == /\ recoveryTimer
                      /\ recoveryTimer' = FALSE
                      /\ StartTailnet(wifiConnected)
                      /\ UNCHANGED <<wifi, sntp, socket, camera, watch>>

\* #poll sees the native state change and calls onStateChanged.
TailnetMoves ==
  /\ tailnet # "none"
  /\ tailnet' \in TailnetStates \ {tailnet}
  /\ recoveryTimer' = (recoveryTimer \/ (tailnet' = "connected" /\ wifiConnected /\ webSocket = None))
  /\ UNCHANGED <<wifi, sntp, starting, needsRebind, socket, camera, watch>>

StartResolves == /\ starting \in {"start", "rebind"} /\ tailnet = "connected"
                 /\ starting' = "sleep"
                 /\ UNCHANGED <<wifi, sntp, tailnet, needsRebind, recoveryTimer, socket, camera,
                                watch>>

\* start() and rebind() reject on an error or a timeout; start() does not count the
\* time the user takes.
StartRejects == /\ \/ starting = "start" /\ tailnet \notin {"connected", "user"}
                   \/ starting = "rebind" /\ tailnet # "connected"
                /\ starting' = "no"
                /\ recoveryTimer' = (recoveryTimer \/ MayRecover)
                /\ UNCHANGED <<wifi, sntp, tailnet, needsRebind, socket, camera, watch>>

SleepEnds == /\ starting = "sleep"
             /\ starting' = "no"
             /\ OpenWebSocket
             /\ UNCHANGED <<wifi, sntp, tailnet, needsRebind, recoveryTimer, stream, slot, reads,
                            camera, watch>>

-----------------------------------------------------------------------------
(* Wi-Fi and the clock *)

WifiRises == /\ connection \in {"connecting", "associated"}
             /\ connection' = IF connection = "connecting" THEN "associated" ELSE "up"
             /\ changed' = TRUE
             /\ UNCHANGED <<drops, wifiConnected, wifiHadIP, connectTimer, reconnectTimer, sntp,
                            tail, socket, camera, watch>>

WifiDrops == /\ connection # "down" /\ drops < MaxDrops
             /\ connection' = "down" /\ changed' = TRUE /\ drops' = drops + 1
             /\ UNCHANGED <<wifiConnected, wifiHadIP, connectTimer, reconnectTimer, sntp, tail,
                            socket, camera, watch>>

\* The first address waits for SNTP, a later one starts the tailnet at once.
OnChangedUp ==
  /\ changed /\ connection = "up"
  /\ changed' = FALSE
  /\ IF wifiConnected
     THEN UNCHANGED <<wifiConnected, wifiHadIP, connectTimer, sntp, tailnet, starting, needsRebind>>
     ELSE /\ wifiConnected' = TRUE /\ wifiHadIP' = TRUE /\ connectTimer' = FALSE
          /\ IF wifiHadIP
             THEN StartTailnet(TRUE) /\ UNCHANGED sntp
             ELSE sntp' = TRUE /\ UNCHANGED <<tailnet, starting, needsRebind>>
  /\ UNCHANGED <<connection, drops, reconnectTimer, recoveryTimer, socket, camera, watch>>

OnChangedBetween == /\ changed /\ connection \in {"connecting", "associated"}
                    /\ changed' = FALSE
                    /\ UNCHANGED <<connection, drops, wifiConnected, wifiHadIP, connectTimer,
                                   reconnectTimer, sntp, tail, socket, camera, watch>>

OnChangedDown ==
  /\ changed /\ connection = "down"
  /\ changed' = FALSE
  /\ connectTimer' = FALSE /\ wifiConnected' = FALSE /\ reconnectTimer' = TRUE
  /\ retryTimer' = FALSE /\ recoveryTimer' = FALSE
  /\ needsRebind' = (tailnet # "none")
  /\ IF webSocket = None
     THEN UNCHANGED stream
     ELSE stream' = [stream EXCEPT ![webSocket] = Closed(webSocket)]
  /\ webSocket' = None
  /\ UNCHANGED <<connection, drops, wifiHadIP, sntp, tailnet, starting, at, slot, reads, camera,
                 watch>>

\* Only a connection still at 300 is given up.
ConnectTimerFires ==
  /\ connectTimer
  /\ connectTimer' = FALSE
  /\ IF connection = "connecting"
     THEN connection' = "down" /\ changed' = TRUE /\ reconnectTimer' = TRUE
     ELSE UNCHANGED <<connection, changed, reconnectTimer>>
  /\ UNCHANGED <<drops, wifiConnected, wifiHadIP, sntp, tail, socket, camera, watch>>

\* connectWiFi; connect() may throw.
ReconnectTimerFires ==
  /\ reconnectTimer
  /\ \/ /\ connection' = "connecting" /\ connectTimer' = TRUE /\ reconnectTimer' = FALSE
     \/ UNCHANGED <<connection, connectTimer, reconnectTimer>>
  /\ UNCHANGED <<changed, drops, wifiConnected, wifiHadIP, sntp, tail, socket, camera, watch>>

SntpTime == /\ sntp
            /\ sntp' = FALSE
            /\ StartTailnet(wifiConnected)
            /\ UNCHANGED <<wifi, recoveryTimer, socket, camera, watch>>

SntpError == /\ sntp
             /\ sntp' = FALSE
             /\ UNCHANGED <<wifi, tail, socket, camera, watch>>

-----------------------------------------------------------------------------
Next ==
  \/ \E s \in Sessions : \/ TakeSlot(s) \/ StreamOpens(s) \/ WatchdogFails(s) \/ StreamEnds(s)
                         \/ OpenTimesOut(s) \/ PreviousTimesOut(s) \/ SessionEnds(s)
                         \/ ReadEnds(s) \/ SendHello(s) \/ RunEnds(s)
  \/ RetryTimerFires \/ RecoveryTimerFires \/ TailnetMoves \/ StartResolves \/ StartRejects
  \/ SleepEnds \/ WifiRises \/ WifiDrops \/ OnChangedUp \/ OnChangedBetween \/ OnChangedDown
  \/ ConnectTimerFires \/ ReconnectTimerFires \/ SntpTime \/ SntpError

Spec == Init /\ [][Next]_vars

-----------------------------------------------------------------------------
\* The values the variables range over; who awaits a task is at "previous".
TypeOK ==
  /\ connection \in {"down", "connecting", "associated", "up"} /\ changed \in BOOLEAN
  /\ drops \in 0..MaxDrops
  /\ wifiConnected \in BOOLEAN /\ wifiHadIP \in BOOLEAN
  /\ connectTimer \in BOOLEAN /\ reconnectTimer \in BOOLEAN
  /\ sntp \in BOOLEAN
  /\ tailnet \in TailnetStates \cup {"none"} /\ starting \in {"no", "start", "rebind", "sleep"}
  /\ needsRebind \in BOOLEAN /\ recoveryTimer \in BOOLEAN
  /\ webSocket \in Sessions \cup {None} /\ retryTimer \in BOOLEAN
  /\ at \in [Sessions -> {"unused", "opening", "previous", "running", "done"}]
  /\ stream \in [Sessions -> {"connecting", "open", "closing", "closed"}]
  /\ slot \in Sessions \cup {None} /\ reads \subseteq Sessions
  /\ run \in [Sessions -> {"none", "hello", "frames", "over"}]
  /\ cameraTask \in Sessions \cup {None}
  /\ awaits \in [Sessions -> Sessions \cup {None}] /\ opened \in Seq(Sessions)
  /\ \A s \in Sessions : awaits[s] # None <=> at[s] = "previous"
  /\ owner \in Sessions \cup {None} /\ watching \in BOOLEAN

\* The watchdog restarts the device "only when neither a ping nor a frame
\* progresses for 75 s": it runs only while the session that feeds it goes on,
\* so a session that ended never makes it fire.
WatchIsFed == watching => owner # None /\ at[owner] \in {"previous", "running"}

\* The session that is current and open is the one the watchdog watches, though
\* an old session may end after it began.
SessionIsWatched == webSocket # None /\ at[webSocket] \in {"previous", "running"}
                      => owner = webSocket /\ watching

\* The next session finds the camera task that still sends, and waits for it.
TaskIsKnown == \A s \in Sessions :
                 run[s] \in {"hello", "frames"} /\ stream[s] = "open" => cameraTask = s

\* Sessions overlap, but only one of them at a time takes frames from the camera.
OneStreamer == Cardinality({s \in Sessions : run[s] = "frames"}) <= 1

\* "Reconnects in stages": with Wi-Fi and the tailnet up and no session, some
\* timer or some start is on its way to the next one.
NeverStalls == wifiConnected /\ tailnet = "connected" /\ webSocket = None =>
                 retryTimer \/ recoveryTimer \/ starting # "no"

\* No retry is armed for a network that is gone.
RetriesNeedWifi == retryTimer \/ recoveryTimer => wifiConnected

\* The watchdog and the sessions; the camera and its tasks; the retries.
WatchFollowsSession == WatchIsFed /\ SessionIsWatched
CameraHasOneTask == TypeOK /\ TaskIsKnown /\ OneStreamer
RetriesGoOn == NeverStalls /\ RetriesNeedWifi
=============================================================================
