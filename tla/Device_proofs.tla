---------------------------- MODULE Device_proofs ----------------------------
(***************************************************************************)
(* The device: the application's sessions, camera tasks and retries, for   *)
(* any number of sessions and of Wi-Fi drops; the native watchdog that     *)
(* the application feeds, for every number of ticks and counter width; and *)
(* one session's WebSocket stream, for every size of message and of room.  *)
(***************************************************************************)
EXTENDS DeviceApp, HeartbeatWatchdog, CameraLink, FiniteSetTheorems, SequenceTheorems,
        WellFoundedInduction, TLAPS

Alive == {"hello", "frames"}
Begun == {"previous", "running"}

\* A session's stream has the slot while it is open, and its current session is
\* open once it has begun.
SlotIsOpen ==
  /\ \A s \in Sessions : /\ stream[s] \in {"open", "closing"} => slot = s
                         /\ at[s] \in {"unused", "opening"} => stream[s] = "connecting"
                         /\ at[s] \in Begun => stream[s] # "connecting"
  /\ slot # None => at[slot] # "unused" /\ stream[slot] # "closed"
  /\ webSocket # None => /\ at[webSocket] \in {"opening"} \cup Begun
                         /\ at[webSocket] \in Begun => stream[webSocket] = "open"

\* The watchdog has an owner that has begun, and watches the current session.
Watched ==
  /\ watching <=> owner # None
  /\ owner # None => at[owner] \in Begun
  /\ webSocket # None /\ at[webSocket] \in Begun => owner = webSocket

\* Tasks belong to sessions that have begun; the one that sessions wait for, and
\* that has the camera, is the newest.
Tasked ==
  /\ \A s \in Sessions : /\ at[s] \in {"unused", "opening", "previous"} => run[s] = "none"
                         /\ run[s] # "none" => stream[s] # "connecting"
                         /\ awaits[s] # None => awaits[s] = cameraTask
                         /\ run[s] = "frames" => cameraTask = s
                         /\ run[s] \in Alive /\ stream[s] = "open" => cameraTask = s
  /\ cameraTask # None => run[cameraTask] \in Alive

\* Of the sessions that wait, only the last to open can still be open.
Ordered == \A s \in Sessions : at[s] \in Begun =>
             /\ \E i \in DOMAIN opened : opened[i] = s
             /\ stream[s] = "open" => opened[Len(opened)] = s

\* Before the first address there is no tailnet.
Staged == RetriesGoOn /\ (~wifiHadIP => ~wifiConnected /\ tailnet = "none")

IInv == TypeOK /\ SlotIsOpen /\ Watched /\ Tasked /\ Ordered /\ Staged

-----------------------------------------------------------------------------
(* Types, in two halves: Booleans and data are different provers' work. *)

Booleans ==
  /\ changed \in BOOLEAN /\ wifiConnected \in BOOLEAN /\ wifiHadIP \in BOOLEAN
  /\ connectTimer \in BOOLEAN /\ reconnectTimer \in BOOLEAN /\ sntp \in BOOLEAN
  /\ needsRebind \in BOOLEAN /\ recoveryTimer \in BOOLEAN /\ retryTimer \in BOOLEAN
  /\ watching \in BOOLEAN

Values ==
  /\ connection \in {"down", "connecting", "associated", "up"} /\ drops \in 0..MaxDrops
  /\ tailnet \in TailnetStates \cup {"none"} /\ starting \in {"no", "start", "rebind", "sleep"}
  /\ webSocket \in Sessions \cup {None}
  /\ at \in [Sessions -> {"unused", "opening", "previous", "running", "done"}]
  /\ stream \in [Sessions -> {"connecting", "open", "closing", "closed"}]
  /\ slot \in Sessions \cup {None} /\ reads \subseteq Sessions
  /\ run \in [Sessions -> {"none", "hello", "frames", "over"}]
  /\ cameraTask \in Sessions \cup {None}
  /\ awaits \in [Sessions -> Sessions \cup {None}] /\ opened \in Seq(Sessions)
  /\ \A s \in Sessions : awaits[s] # None <=> at[s] = "previous"
  /\ owner \in Sessions \cup {None}

LEMMA Halves == TypeOK <=> Booleans /\ Values
  BY DEF TypeOK, Booleans, Values

\* None is no session.
LEMMA NoneIsNone == None \notin Sessions
  BY AppAssumption DEF None, Sessions

\* A set of positions has a greatest one.
LEMMA MaxIs ==
  ASSUME NEW n \in Nat, NEW S, S \subseteq 1..n, S # {}
  PROVE  Max(S) \in S /\ \A i \in S : i <= Max(S)
<1> DEFINE T == {n - i : i \in S}
<1>1. T \subseteq Nat /\ T # {}
  <2>1. PICK i \in S : TRUE
    OBVIOUS
  <2>2. n - i \in T
    BY <2>1
  <2>3. QED
    BY <2>2
<1>2. PICK x \in T : \A y \in T : ~ (<<y, x>> \in OpToRel(<, Nat))
  BY <1>1, NatLessThanWellFounded, WFMin, Zenon
<1>3. PICK m \in S : x = n - m
  OBVIOUS
<1>4. ASSUME NEW i \in S PROVE m >= i
  <2>1. n - i \in T /\ n - i \in Nat /\ x \in Nat
    BY <1>1
  <2>2. ~ (n - i < x)
    BY <1>2, <2>1 DEF OpToRel
  <2>3. QED
    BY <1>3, <2>1, <2>2
<1>5. Max(S) \in S /\ \A i \in S : Max(S) >= i
  BY <1>4 DEF Max
<1>6. QED
  BY <1>5

\* The latest of some opened sessions is one of them, and the last of all if it is
\* among them.
LEMMA NewestIs ==
  ASSUME opened \in Seq(Sessions), NEW some, some # {},
         \A t \in some : \E i \in DOMAIN opened : opened[i] = t
  PROVE  /\ Newest(some) \in some
         /\ opened[Len(opened)] \in some => Newest(some) = opened[Len(opened)]
<1> DEFINE S == {i \in DOMAIN opened : opened[i] \in some}
<1>1. S \subseteq 1..Len(opened) /\ S # {} /\ Len(opened) \in Nat
  OBVIOUS
<1>2. Max(S) \in S /\ \A i \in S : i <= Max(S)
  BY <1>1, MaxIs
<1>3. opened[Len(opened)] \in some => Max(S) = Len(opened)
  <2>1. SUFFICES ASSUME opened[Len(opened)] \in some PROVE Max(S) = Len(opened)
    OBVIOUS
  <2>2. Len(opened) \in S
    BY <1>1, <2>1
  <2>3. Max(S) \in 1..Len(opened) /\ Len(opened) <= Max(S)
    BY <1>1, <1>2, <2>2
  <2>4. QED
    BY <1>1, <2>3
<1>4. QED
  BY <1>2, <1>3 DEF Newest

LEMMA BooleansStep == ASSUME Booleans, [Next]_vars PROVE Booleans'
<1> USE DEF Booleans, wifi, tail, socket, camera, watch
<1>1. ASSUME NEW s \in Sessions, TakeSlot(s) PROVE Booleans'
  BY <1>1 DEF TakeSlot
<1>2. ASSUME NEW s \in Sessions, StreamOpens(s) PROVE Booleans'
  BY <1>2 DEF StreamOpens, MustWait
<1>3. ASSUME NEW s \in Sessions, WatchdogFails(s) PROVE Booleans'
  BY <1>3 DEF WatchdogFails, Retire, MayRetry
<1>4. ASSUME NEW s \in Sessions, StreamEnds(s) PROVE Booleans'
  BY <1>4 DEF StreamEnds, Retire, MayRetry
<1>5. ASSUME NEW s \in Sessions, OpenTimesOut(s) PROVE Booleans'
  BY <1>5 DEF OpenTimesOut, Finally, Closed, Owns, Retire, MayRetry
<1>6. ASSUME NEW s \in Sessions, PreviousTimesOut(s) PROVE Booleans'
  BY <1>6 DEF PreviousTimesOut, Finally, Closed, Owns, Retire, MayRetry, Left
<1>7. ASSUME NEW s \in Sessions, SessionEnds(s) PROVE Booleans'
  BY <1>7 DEF SessionEnds, Finally, Closed, Owns, Retire, MayRetry
<1>8. ASSUME NEW s \in Sessions, ReadEnds(s) PROVE Booleans'
  BY <1>8 DEF ReadEnds, Finally, Closed, Owns, Retire, MayRetry
<1>9. ASSUME NEW s \in Sessions, SendHello(s) PROVE Booleans'
  BY <1>9 DEF SendHello
<1>10. ASSUME NEW s \in Sessions, RunEnds(s) PROVE Booleans'
  BY <1>10 DEF RunEnds, StillMine
<1>11. CASE RetryTimerFires
  BY <1>11 DEF RetryTimerFires, Opens, MayRetry
<1>12. CASE RecoveryTimerFires
  BY <1>12 DEF RecoveryTimerFires, StartTailnet
<1>13. CASE TailnetMoves
  BY <1>13 DEF TailnetMoves, TailnetStates
<1>14. CASE StartResolves
  BY <1>14 DEF StartResolves
<1>15. CASE StartRejects
  BY <1>15 DEF StartRejects, MayRecover
<1>16. CASE SleepEnds
  BY <1>16 DEF SleepEnds, OpenWebSocket, Opens, Retire, MayRetry
<1>17. CASE WifiRises
  BY <1>17 DEF WifiRises
<1>18. CASE WifiDrops
  BY <1>18 DEF WifiDrops
<1>19. CASE OnChangedUp
  BY <1>19 DEF OnChangedUp, StartTailnet
<1>20. CASE OnChangedBetween
  BY <1>20 DEF OnChangedBetween
<1>21. CASE OnChangedDown
  BY <1>21 DEF OnChangedDown, Closed
<1>22. CASE ConnectTimerFires
  BY <1>22 DEF ConnectTimerFires
<1>23. CASE ReconnectTimerFires
  BY <1>23 DEF ReconnectTimerFires
<1>24. CASE SntpTime
  BY <1>24 DEF SntpTime, StartTailnet
<1>25. CASE SntpError
  BY <1>25 DEF SntpError
<1>26. CASE UNCHANGED vars
  BY <1>26 DEF vars
<1>27. QED
  BY <1>1, <1>2, <1>3, <1>4, <1>5, <1>6, <1>7, <1>8, <1>9, <1>10, <1>11, <1>12,
     <1>13, <1>14, <1>15, <1>16, <1>17, <1>18, <1>19, <1>20, <1>21, <1>22, <1>23,
     <1>24, <1>25, <1>26 DEF Next

LEMMA ValuesStep == ASSUME Values, SlotIsOpen, Ordered, [Next]_vars PROVE Values'
<1> USE NoneIsNone, AppAssumption DEF Values, SlotIsOpen, TailnetStates, Begun, wifi,
        tail, socket, camera, watch
<1>1. ASSUME NEW s \in Sessions, TakeSlot(s) PROVE Values'
  BY <1>1 DEF TakeSlot
<1>2. ASSUME NEW s \in Sessions, StreamOpens(s) PROVE Values'
  <2>1. opened' \in Seq(Sessions)
    <3>1. opened' = opened \/ opened' = Append(opened, s)
      BY <1>2 DEF StreamOpens
    <3>2. opened \in Seq(Sessions) /\ Append(opened, s) \in Seq(Sessions)
      OBVIOUS
    <3>3. QED
      BY <3>1, <3>2
  <2>2. /\ at' \in [Sessions -> {"unused", "opening", "previous", "running", "done"}]
        /\ awaits' \in [Sessions -> Sessions \cup {None}]
    BY <1>2 DEF StreamOpens
  <2>3. \A t \in Sessions : awaits'[t] # None <=> at'[t] = "previous"
    <3>1. CASE at[s] = "opening" /\ cameraTask # None
      BY <1>2, <3>1 DEF StreamOpens, MustWait
    <3>2. CASE at[s] = "opening" /\ cameraTask = None
      BY <1>2, <3>2 DEF StreamOpens, MustWait
    <3>3. CASE at[s] # "opening"
      BY <1>2, <3>3 DEF StreamOpens
    <3>4. QED
      BY <3>1, <3>2, <3>3
  <2>4. /\ stream' \in [Sessions -> {"connecting", "open", "closing", "closed"}]
        /\ run' \in [Sessions -> {"none", "hello", "frames", "over"}]
        /\ cameraTask' \in Sessions \cup {None} /\ owner' \in Sessions \cup {None}
    BY <1>2 DEF StreamOpens
  <2>5. /\ UNCHANGED <<connection, drops, tailnet, starting, webSocket, slot>>
        /\ reads' \subseteq Sessions
    BY <1>2 DEF StreamOpens
  <2>6. QED
    BY <2>1, <2>2, <2>3, <2>4, <2>5
<1>3. ASSUME NEW s \in Sessions, WatchdogFails(s) PROVE Values'
  BY <1>3 DEF WatchdogFails, Retire, MayRetry
<1>4. ASSUME NEW s \in Sessions, StreamEnds(s) PROVE Values'
  BY <1>4 DEF StreamEnds, Retire, MayRetry
<1>5. ASSUME NEW s \in Sessions, OpenTimesOut(s) PROVE Values'
  BY <1>5 DEF OpenTimesOut, Finally, Closed, Owns, Retire, MayRetry
<1>6. ASSUME NEW s \in Sessions, PreviousTimesOut(s) PROVE Values'
  BY <1>6 DEF PreviousTimesOut, Finally, Closed, Owns, Retire, MayRetry, Left
<1>7. ASSUME NEW s \in Sessions, SessionEnds(s) PROVE Values'
  BY <1>7 DEF SessionEnds, Finally, Closed, Owns, Retire, MayRetry
<1>8. ASSUME NEW s \in Sessions, ReadEnds(s) PROVE Values'
  BY <1>8 DEF ReadEnds, Finally, Closed, Owns, Retire, MayRetry
<1>9. ASSUME NEW s \in Sessions, SendHello(s) PROVE Values'
  BY <1>9 DEF SendHello
<1>10. ASSUME NEW s \in Sessions, RunEnds(s) PROVE Values'
  <2> DEFINE next == {t \in Sessions : awaits[t] = s}
  <2>1. next # {} => Newest(next) \in next
    <3>1. \A t \in next : \E i \in DOMAIN opened : opened[i] = t
      BY DEF Ordered, Begun
    <3>2. opened \in Seq(Sessions)
      OBVIOUS
    <3>3. QED
      BY ONLY <3>1, <3>2, NewestIs
  <2>2. QED
    BY <2>1, <1>10 DEF RunEnds, StillMine
<1>11. CASE RetryTimerFires
  BY <1>11 DEF RetryTimerFires, Opens, MayRetry
<1>12. CASE RecoveryTimerFires
  BY <1>12 DEF RecoveryTimerFires, StartTailnet
<1>13. CASE TailnetMoves
  BY <1>13 DEF TailnetMoves, TailnetStates
<1>14. CASE StartResolves
  BY <1>14 DEF StartResolves
<1>15. CASE StartRejects
  BY <1>15 DEF StartRejects, MayRecover
<1>16. CASE SleepEnds
  BY <1>16 DEF SleepEnds, OpenWebSocket, Opens, Retire, MayRetry
<1>17. CASE WifiRises
  BY <1>17 DEF WifiRises
<1>18. CASE WifiDrops
  BY <1>18 DEF WifiDrops
<1>19. CASE OnChangedUp
  BY <1>19 DEF OnChangedUp, StartTailnet
<1>20. CASE OnChangedBetween
  BY <1>20 DEF OnChangedBetween
<1>21. CASE OnChangedDown
  BY <1>21 DEF OnChangedDown, Closed
<1>22. CASE ConnectTimerFires
  BY <1>22 DEF ConnectTimerFires
<1>23. CASE ReconnectTimerFires
  <2>1. connection' \in {"down", "connecting", "associated", "up"}
    BY <1>23 DEF ReconnectTimerFires
  <2>2. UNCHANGED <<drops, tail, sntp, socket, camera, watch>>
    BY <1>23 DEF ReconnectTimerFires
  <2>3. QED
    BY <2>1, <2>2
<1>24. CASE SntpTime
  BY <1>24 DEF SntpTime, StartTailnet
<1>25. CASE SntpError
  BY <1>25 DEF SntpError
<1>26. CASE UNCHANGED vars
  BY <1>26 DEF vars
<1>27. QED
  BY <1>1, <1>2, <1>3, <1>4, <1>5, <1>6, <1>7, <1>8, <1>9, <1>10, <1>11, <1>12,
     <1>13, <1>14, <1>15, <1>16, <1>17, <1>18, <1>19, <1>20, <1>21, <1>22, <1>23,
     <1>24, <1>25, <1>26 DEF Next

\* A session that is replaced or ends gives the slot back before another opens.
LEMMA SlotIsOpenStep == ASSUME IInv, [Next]_vars PROVE SlotIsOpen'
<1> USE NoneIsNone DEF IInv, TypeOK, SlotIsOpen, Begun, wifi, tail, socket, camera,
        watch
<1>1. ASSUME NEW s \in Sessions, TakeSlot(s) PROVE SlotIsOpen'
  BY <1>1 DEF TakeSlot
<1>2. ASSUME NEW s \in Sessions, StreamOpens(s) PROVE SlotIsOpen'
  BY <1>2 DEF StreamOpens, MustWait
<1>3. ASSUME NEW s \in Sessions, WatchdogFails(s) PROVE SlotIsOpen'
  BY <1>3 DEF WatchdogFails, Retire, MayRetry
<1>4. ASSUME NEW s \in Sessions, StreamEnds(s) PROVE SlotIsOpen'
  BY <1>4 DEF StreamEnds, Retire, MayRetry
<1>5. ASSUME NEW s \in Sessions, OpenTimesOut(s) PROVE SlotIsOpen'
  BY <1>5 DEF OpenTimesOut, Finally, Closed, Owns, Retire, MayRetry
<1>6. ASSUME NEW s \in Sessions, PreviousTimesOut(s) PROVE SlotIsOpen'
  BY <1>6 DEF PreviousTimesOut, Finally, Closed, Owns, Retire, MayRetry, Left
<1>7. ASSUME NEW s \in Sessions, SessionEnds(s) PROVE SlotIsOpen'
  BY <1>7 DEF SessionEnds, Finally, Closed, Owns, Retire, MayRetry
<1>8. ASSUME NEW s \in Sessions, ReadEnds(s) PROVE SlotIsOpen'
  BY <1>8 DEF ReadEnds, Finally, Closed, Owns, Retire, MayRetry
<1>9. ASSUME NEW s \in Sessions, SendHello(s) PROVE SlotIsOpen'
  BY <1>9 DEF SendHello
<1>10. ASSUME NEW s \in Sessions, RunEnds(s) PROVE SlotIsOpen'
  BY <1>10 DEF RunEnds, StillMine
<1>11. CASE RetryTimerFires
  BY <1>11 DEF RetryTimerFires, Opens, MayRetry
<1>12. CASE RecoveryTimerFires
  BY <1>12 DEF RecoveryTimerFires, StartTailnet
<1>13. CASE TailnetMoves
  BY <1>13 DEF TailnetMoves, TailnetStates
<1>14. CASE StartResolves
  BY <1>14 DEF StartResolves
<1>15. CASE StartRejects
  BY <1>15 DEF StartRejects, MayRecover
<1>16. CASE SleepEnds
  BY <1>16 DEF SleepEnds, OpenWebSocket, Opens, Retire, MayRetry
<1>17. CASE WifiRises
  BY <1>17 DEF WifiRises
<1>18. CASE WifiDrops
  BY <1>18 DEF WifiDrops
<1>19. CASE OnChangedUp
  BY <1>19 DEF OnChangedUp, StartTailnet
<1>20. CASE OnChangedBetween
  BY <1>20 DEF OnChangedBetween
<1>21. CASE OnChangedDown
  BY <1>21 DEF OnChangedDown, Closed
<1>22. CASE ConnectTimerFires
  BY <1>22 DEF ConnectTimerFires
<1>23. CASE ReconnectTimerFires
  BY <1>23 DEF ReconnectTimerFires
<1>24. CASE SntpTime
  BY <1>24 DEF SntpTime, StartTailnet
<1>25. CASE SntpError
  BY <1>25 DEF SntpError
<1>26. CASE UNCHANGED vars
  BY <1>26 DEF vars
<1>27. QED
  BY <1>1, <1>2, <1>3, <1>4, <1>5, <1>6, <1>7, <1>8, <1>9, <1>10, <1>11, <1>12,
     <1>13, <1>14, <1>15, <1>16, <1>17, <1>18, <1>19, <1>20, <1>21, <1>22, <1>23,
     <1>24, <1>25, <1>26 DEF Next

\* The watchdog changes hands when a session opens, and stops with its owner's end.
LEMMA WatchedStep == ASSUME IInv, [Next]_vars PROVE Watched'
<1> USE NoneIsNone DEF IInv, TypeOK, SlotIsOpen, Watched, Begun, wifi, tail, socket,
        camera, watch
<1>1. ASSUME NEW s \in Sessions, TakeSlot(s) PROVE Watched'
  BY <1>1 DEF TakeSlot
<1>2. ASSUME NEW s \in Sessions, StreamOpens(s) PROVE Watched'
  BY <1>2 DEF StreamOpens, MustWait
<1>3. ASSUME NEW s \in Sessions, WatchdogFails(s) PROVE Watched'
  BY <1>3 DEF WatchdogFails, Retire, MayRetry
<1>4. ASSUME NEW s \in Sessions, StreamEnds(s) PROVE Watched'
  BY <1>4 DEF StreamEnds, Retire, MayRetry
<1>5. ASSUME NEW s \in Sessions, OpenTimesOut(s) PROVE Watched'
  BY <1>5 DEF OpenTimesOut, Finally, Closed, Owns, Retire, MayRetry
<1>6. ASSUME NEW s \in Sessions, PreviousTimesOut(s) PROVE Watched'
  BY <1>6 DEF PreviousTimesOut, Finally, Closed, Owns, Retire, MayRetry, Left
<1>7. ASSUME NEW s \in Sessions, SessionEnds(s) PROVE Watched'
  BY <1>7 DEF SessionEnds, Finally, Closed, Owns, Retire, MayRetry
<1>8. ASSUME NEW s \in Sessions, ReadEnds(s) PROVE Watched'
  <2>1. CASE at[s] = "running"
    <3>1. Finally(s)
      BY <1>8, <2>1, Zenon DEF ReadEnds
    <3>2. /\ at' = [at EXCEPT ![s] = "done"] /\ owner' = (IF owner = s THEN None ELSE owner)
          /\ watching' = (watching /\ owner # s)
          /\ webSocket' = (IF webSocket = s THEN None ELSE webSocket)
      BY <3>1, Zenon DEF Finally, Owns, Retire
    <3>3. QED
      BY <3>2
  <2>2. CASE at[s] # "running"
    <3>1. UNCHANGED <<at, owner, watching>> /\ webSocket' \in {webSocket, None}
      BY <1>8, <2>2 DEF ReadEnds, Retire
    <3>2. QED
      BY <3>1
  <2>3. QED
    BY <2>1, <2>2
<1>9. ASSUME NEW s \in Sessions, SendHello(s) PROVE Watched'
  BY <1>9 DEF SendHello
<1>10. ASSUME NEW s \in Sessions, RunEnds(s) PROVE Watched'
  BY <1>10 DEF RunEnds, StillMine
<1>11. CASE RetryTimerFires
  BY <1>11 DEF RetryTimerFires, Opens, MayRetry
<1>12. CASE RecoveryTimerFires
  BY <1>12 DEF RecoveryTimerFires, StartTailnet
<1>13. CASE TailnetMoves
  BY <1>13 DEF TailnetMoves, TailnetStates
<1>14. CASE StartResolves
  BY <1>14 DEF StartResolves
<1>15. CASE StartRejects
  BY <1>15 DEF StartRejects, MayRecover
<1>16. CASE SleepEnds
  BY <1>16 DEF SleepEnds, OpenWebSocket, Opens, Retire, MayRetry
<1>17. CASE WifiRises
  BY <1>17 DEF WifiRises
<1>18. CASE WifiDrops
  BY <1>18 DEF WifiDrops
<1>19. CASE OnChangedUp
  BY <1>19 DEF OnChangedUp, StartTailnet
<1>20. CASE OnChangedBetween
  BY <1>20 DEF OnChangedBetween
<1>21. CASE OnChangedDown
  BY <1>21 DEF OnChangedDown, Closed
<1>22. CASE ConnectTimerFires
  BY <1>22 DEF ConnectTimerFires
<1>23. CASE ReconnectTimerFires
  BY <1>23 DEF ReconnectTimerFires
<1>24. CASE SntpTime
  BY <1>24 DEF SntpTime, StartTailnet
<1>25. CASE SntpError
  BY <1>25 DEF SntpError
<1>26. CASE UNCHANGED vars
  BY <1>26 DEF vars
<1>27. QED
  BY <1>1, <1>2, <1>3, <1>4, <1>5, <1>6, <1>7, <1>8, <1>9, <1>10, <1>11, <1>12,
     <1>13, <1>14, <1>15, <1>16, <1>17, <1>18, <1>19, <1>20, <1>21, <1>22, <1>23,
     <1>24, <1>25, <1>26 DEF Next

\* A task that ends hands the camera to the newest of those that waited for it.
LEMMA TaskedStep == ASSUME IInv, [Next]_vars PROVE Tasked'
<1> USE NoneIsNone DEF IInv, TypeOK, SlotIsOpen, Tasked, Begun, Alive, wifi, tail,
        socket, camera, watch
<1>1. ASSUME NEW s \in Sessions, TakeSlot(s) PROVE Tasked'
  BY <1>1 DEF TakeSlot
<1>2. ASSUME NEW s \in Sessions, StreamOpens(s) PROVE Tasked'
  <2>1. CASE at[s] = "opening" /\ cameraTask # None
    BY <1>2, <2>1 DEF StreamOpens, MustWait
  <2>2. CASE at[s] = "opening" /\ cameraTask = None
    <3>1. /\ cameraTask' = s /\ run' = [run EXCEPT ![s] = "hello"] /\ awaits' = awaits
          /\ at' = [at EXCEPT ![s] = "running"] /\ stream' = [stream EXCEPT ![s] = "open"]
      BY <1>2, <2>2 DEF StreamOpens, MustWait
    <3>2. \A t \in Sessions : awaits[t] = None /\ run[t] # "frames"
      BY <2>2
    <3>3. \A t \in Sessions \ {s} : stream[t] = "open" => run[t] \notin Alive
      BY <2>2
    <3>4. QED
      BY <3>1, <3>2, <3>3
  <2>3. CASE at[s] # "opening"
    <3>1. run[s] \notin Alive
      BY <1>2, <2>3 DEF StreamOpens
    <3>2. QED
      BY <1>2, <2>3, <3>1 DEF StreamOpens
  <2>4. QED
    BY <2>1, <2>2, <2>3
<1>3. ASSUME NEW s \in Sessions, WatchdogFails(s) PROVE Tasked'
  BY <1>3 DEF WatchdogFails, Retire, MayRetry
<1>4. ASSUME NEW s \in Sessions, StreamEnds(s) PROVE Tasked'
  BY <1>4 DEF StreamEnds, Retire, MayRetry
<1>5. ASSUME NEW s \in Sessions, OpenTimesOut(s) PROVE Tasked'
  BY <1>5 DEF OpenTimesOut, Finally, Closed, Owns, Retire, MayRetry
<1>6. ASSUME NEW s \in Sessions, PreviousTimesOut(s) PROVE Tasked'
  BY <1>6 DEF PreviousTimesOut, Finally, Closed, Owns, Retire, MayRetry, Left
<1>7. ASSUME NEW s \in Sessions, SessionEnds(s) PROVE Tasked'
  BY <1>7 DEF SessionEnds, Finally, Closed, Owns, Retire, MayRetry
<1>8. ASSUME NEW s \in Sessions, ReadEnds(s) PROVE Tasked'
  BY <1>8 DEF ReadEnds, Finally, Closed, Owns, Retire, MayRetry
<1>9. ASSUME NEW s \in Sessions, SendHello(s) PROVE Tasked'
  BY <1>9 DEF SendHello
<1>10. ASSUME NEW s \in Sessions, RunEnds(s) PROVE Tasked'
  <2> DEFINE next == {t \in Sessions : awaits[t] = s}
  <2>1. /\ run' = [t \in Sessions |-> IF t = s THEN "over"
                                      ELSE IF t \in next THEN "hello" ELSE run[t]]
        /\ at' = [t \in Sessions |-> IF t \in next THEN "running" ELSE at[t]]
        /\ awaits' = [t \in Sessions |-> IF t \in next THEN None ELSE awaits[t]]
        /\ stream' = stream /\ run[s] \in Alive
    BY <1>10 DEF RunEnds
  <2>2. s \notin next
    BY <2>1
  <2>3. CASE next = {}
    <3>1. cameraTask' = IF cameraTask = s THEN None ELSE cameraTask
      BY <1>10, <2>3 DEF RunEnds, StillMine
    <3>2. \A t \in Sessions : awaits'[t] # None => awaits'[t] = cameraTask'
      BY <2>1, <2>3, <3>1
    <3>3. QED
      BY <2>1, <2>3, <3>1, <3>2
  <2>4. CASE next # {}
    <3>1. cameraTask = s
      BY <2>4
    <3>2. cameraTask' = Newest(next)
      BY <1>10, <2>4 DEF RunEnds
    <3>3. /\ Newest(next) \in next
          /\ opened[Len(opened)] \in next => Newest(next) = opened[Len(opened)]
      <4>1. \A t \in next : \E i \in DOMAIN opened : opened[i] = t
        BY DEF Ordered
      <4>2. QED
        BY <2>4, <4>1, NewestIs
    <3>4. \A t \in next : stream[t] = "open" => cameraTask' = t
      BY <3>2, <3>3 DEF Ordered
    <3>5. \A t \in Sessions : awaits'[t] = None
      BY <2>1, <3>1
    <3>6. \A t \in Sessions : run'[t] # "frames"
      BY <2>1, <3>1
    <3>7. \A t \in Sessions : run'[t] \in Alive /\ stream'[t] = "open" => cameraTask' = t
      BY <2>1, <3>1, <3>4
    <3>8. \A t \in Sessions :
            /\ at'[t] \in {"unused", "opening", "previous"} => run'[t] = "none"
            /\ run'[t] # "none" => stream'[t] # "connecting"
      BY <2>1, <3>1 DEF Begun
    <3>9. run'[cameraTask'] \in Alive
      BY <2>1, <2>2, <3>2, <3>3
    <3>10. QED
      BY <3>5, <3>6, <3>7, <3>8, <3>9
  <2>5. QED
    BY <2>3, <2>4
<1>11. CASE RetryTimerFires
  BY <1>11 DEF RetryTimerFires, Opens, MayRetry
<1>12. CASE RecoveryTimerFires
  BY <1>12 DEF RecoveryTimerFires, StartTailnet
<1>13. CASE TailnetMoves
  BY <1>13 DEF TailnetMoves, TailnetStates
<1>14. CASE StartResolves
  BY <1>14 DEF StartResolves
<1>15. CASE StartRejects
  BY <1>15 DEF StartRejects, MayRecover
<1>16. CASE SleepEnds
  BY <1>16 DEF SleepEnds, OpenWebSocket, Opens, Retire, MayRetry
<1>17. CASE WifiRises
  BY <1>17 DEF WifiRises
<1>18. CASE WifiDrops
  BY <1>18 DEF WifiDrops
<1>19. CASE OnChangedUp
  BY <1>19 DEF OnChangedUp, StartTailnet
<1>20. CASE OnChangedBetween
  BY <1>20 DEF OnChangedBetween
<1>21. CASE OnChangedDown
  BY <1>21 DEF OnChangedDown, Closed
<1>22. CASE ConnectTimerFires
  BY <1>22 DEF ConnectTimerFires
<1>23. CASE ReconnectTimerFires
  BY <1>23 DEF ReconnectTimerFires
<1>24. CASE SntpTime
  BY <1>24 DEF SntpTime, StartTailnet
<1>25. CASE SntpError
  BY <1>25 DEF SntpError
<1>26. CASE UNCHANGED vars
  BY <1>26 DEF vars
<1>27. QED
  BY <1>1, <1>2, <1>3, <1>4, <1>5, <1>6, <1>7, <1>8, <1>9, <1>10, <1>11, <1>12,
     <1>13, <1>14, <1>15, <1>16, <1>17, <1>18, <1>19, <1>20, <1>21, <1>22, <1>23,
     <1>24, <1>25, <1>26 DEF Next

\* A session opens when no other is open.
LEMMA OrderedStep == ASSUME IInv, [Next]_vars PROVE Ordered'
<1> USE NoneIsNone DEF IInv, TypeOK, SlotIsOpen, Ordered, Begun, wifi, tail, socket,
        camera, watch
<1>1. ASSUME NEW s \in Sessions, TakeSlot(s) PROVE Ordered'
  BY <1>1 DEF TakeSlot
<1>2. ASSUME NEW s \in Sessions, StreamOpens(s) PROVE Ordered'
  <2>1. CASE at[s] = "opening"
    <3>1. opened' = Append(opened, s)
      BY <1>2, <2>1 DEF StreamOpens
    <3>2. /\ Len(opened') = Len(opened) + 1 /\ opened'[Len(opened')] = s
          /\ Len(opened) \in Nat
          /\ \A i \in DOMAIN opened : i \in DOMAIN opened' /\ opened'[i] = opened[i]
          /\ Len(opened') \in DOMAIN opened'
      BY <3>1
    <3>3. /\ \A t \in Sessions \ {s} : at'[t] = at[t] /\ stream'[t] = stream[t]
          /\ \A t \in Sessions \ {s} : stream[t] # "open"
      BY <1>2 DEF StreamOpens
    <3>4. QED
      BY <3>2, <3>3
  <2>2. CASE at[s] # "opening"
    <3>1. at[s] \notin Begun
      BY <1>2, <2>2 DEF StreamOpens
    <3>2. QED
      BY <1>2, <2>2, <3>1 DEF StreamOpens
  <2>3. QED
    BY <2>1, <2>2
<1>3. ASSUME NEW s \in Sessions, WatchdogFails(s) PROVE Ordered'
  BY <1>3 DEF WatchdogFails, Retire, MayRetry
<1>4. ASSUME NEW s \in Sessions, StreamEnds(s) PROVE Ordered'
  BY <1>4 DEF StreamEnds, Retire, MayRetry
<1>5. ASSUME NEW s \in Sessions, OpenTimesOut(s) PROVE Ordered'
  BY <1>5 DEF OpenTimesOut, Finally, Closed, Owns, Retire, MayRetry
<1>6. ASSUME NEW s \in Sessions, PreviousTimesOut(s) PROVE Ordered'
  BY <1>6 DEF PreviousTimesOut, Finally, Closed, Owns, Retire, MayRetry, Left
<1>7. ASSUME NEW s \in Sessions, SessionEnds(s) PROVE Ordered'
  BY <1>7 DEF SessionEnds, Finally, Closed, Owns, Retire, MayRetry
<1>8. ASSUME NEW s \in Sessions, ReadEnds(s) PROVE Ordered'
  BY <1>8 DEF ReadEnds, Finally, Closed, Owns, Retire, MayRetry
<1>9. ASSUME NEW s \in Sessions, SendHello(s) PROVE Ordered'
  BY <1>9 DEF SendHello
<1>10. ASSUME NEW s \in Sessions, RunEnds(s) PROVE Ordered'
  BY <1>10 DEF RunEnds, StillMine
<1>11. CASE RetryTimerFires
  BY <1>11 DEF RetryTimerFires, Opens, MayRetry
<1>12. CASE RecoveryTimerFires
  BY <1>12 DEF RecoveryTimerFires, StartTailnet
<1>13. CASE TailnetMoves
  BY <1>13 DEF TailnetMoves, TailnetStates
<1>14. CASE StartResolves
  BY <1>14 DEF StartResolves
<1>15. CASE StartRejects
  BY <1>15 DEF StartRejects, MayRecover
<1>16. CASE SleepEnds
  BY <1>16 DEF SleepEnds, OpenWebSocket, Opens, Retire, MayRetry
<1>17. CASE WifiRises
  BY <1>17 DEF WifiRises
<1>18. CASE WifiDrops
  BY <1>18 DEF WifiDrops
<1>19. CASE OnChangedUp
  BY <1>19 DEF OnChangedUp, StartTailnet
<1>20. CASE OnChangedBetween
  BY <1>20 DEF OnChangedBetween
<1>21. CASE OnChangedDown
  BY <1>21 DEF OnChangedDown, Closed
<1>22. CASE ConnectTimerFires
  BY <1>22 DEF ConnectTimerFires
<1>23. CASE ReconnectTimerFires
  BY <1>23 DEF ReconnectTimerFires
<1>24. CASE SntpTime
  BY <1>24 DEF SntpTime, StartTailnet
<1>25. CASE SntpError
  BY <1>25 DEF SntpError
<1>26. CASE UNCHANGED vars
  BY <1>26 DEF vars
<1>27. QED
  BY <1>1, <1>2, <1>3, <1>4, <1>5, <1>6, <1>7, <1>8, <1>9, <1>10, <1>11, <1>12,
     <1>13, <1>14, <1>15, <1>16, <1>17, <1>18, <1>19, <1>20, <1>21, <1>22, <1>23,
     <1>24, <1>25, <1>26 DEF Next

\* What leaves the application without a session, or brings the network back, leads on.
LEMMA StagedStep == ASSUME IInv, [Next]_vars PROVE Staged'
<1> USE NoneIsNone DEF IInv, TypeOK, Staged, RetriesGoOn, NeverStalls,
        RetriesNeedWifi, wifi, tail, socket, camera, watch
<1>1. ASSUME NEW s \in Sessions, TakeSlot(s) PROVE Staged'
  BY <1>1 DEF TakeSlot
<1>2. ASSUME NEW s \in Sessions, StreamOpens(s) PROVE Staged'
  BY <1>2 DEF StreamOpens, MustWait
<1>3. ASSUME NEW s \in Sessions, WatchdogFails(s) PROVE Staged'
  BY <1>3 DEF WatchdogFails, Retire, MayRetry
<1>4. ASSUME NEW s \in Sessions, StreamEnds(s) PROVE Staged'
  BY <1>4 DEF StreamEnds, Retire, MayRetry
<1>5. ASSUME NEW s \in Sessions, OpenTimesOut(s) PROVE Staged'
  BY <1>5 DEF OpenTimesOut, Finally, Closed, Owns, Retire, MayRetry
<1>6. ASSUME NEW s \in Sessions, PreviousTimesOut(s) PROVE Staged'
  BY <1>6 DEF PreviousTimesOut, Finally, Closed, Owns, Retire, MayRetry, Left
<1>7. ASSUME NEW s \in Sessions, SessionEnds(s) PROVE Staged'
  BY <1>7 DEF SessionEnds, Finally, Closed, Owns, Retire, MayRetry
<1>8. ASSUME NEW s \in Sessions, ReadEnds(s) PROVE Staged'
  BY <1>8 DEF ReadEnds, Finally, Closed, Owns, Retire, MayRetry
<1>9. ASSUME NEW s \in Sessions, SendHello(s) PROVE Staged'
  BY <1>9 DEF SendHello
<1>10. ASSUME NEW s \in Sessions, RunEnds(s) PROVE Staged'
  BY <1>10 DEF RunEnds, StillMine
<1>11. CASE RetryTimerFires
  BY <1>11 DEF RetryTimerFires, Opens, MayRetry
<1>12. CASE RecoveryTimerFires
  BY <1>12 DEF RecoveryTimerFires, StartTailnet
<1>13. CASE TailnetMoves
  BY <1>13 DEF TailnetMoves, TailnetStates
<1>14. CASE StartResolves
  BY <1>14 DEF StartResolves
<1>15. CASE StartRejects
  BY <1>15 DEF StartRejects, MayRecover
<1>16. CASE SleepEnds
  BY <1>16 DEF SleepEnds, OpenWebSocket, Opens, Retire, MayRetry
<1>17. CASE WifiRises
  BY <1>17 DEF WifiRises
<1>18. CASE WifiDrops
  BY <1>18 DEF WifiDrops
<1>19. CASE OnChangedUp
  BY <1>19 DEF OnChangedUp, StartTailnet
<1>20. CASE OnChangedBetween
  BY <1>20 DEF OnChangedBetween
<1>21. CASE OnChangedDown
  BY <1>21 DEF OnChangedDown, Closed
<1>22. CASE ConnectTimerFires
  BY <1>22 DEF ConnectTimerFires
<1>23. CASE ReconnectTimerFires
  BY <1>23 DEF ReconnectTimerFires
<1>24. CASE SntpTime
  BY <1>24 DEF SntpTime, StartTailnet
<1>25. CASE SntpError
  BY <1>25 DEF SntpError
<1>26. CASE UNCHANGED vars
  BY <1>26 DEF vars
<1>27. QED
  BY <1>1, <1>2, <1>3, <1>4, <1>5, <1>6, <1>7, <1>8, <1>9, <1>10, <1>11, <1>12,
     <1>13, <1>14, <1>15, <1>16, <1>17, <1>18, <1>19, <1>20, <1>21, <1>22, <1>23,
     <1>24, <1>25, <1>26 DEF Next

-----------------------------------------------------------------------------
(* Theorems *)

LEMMA InitInvariant == Init => IInv
<1> SUFFICES ASSUME Init PROVE IInv
  OBVIOUS
<1>1. Booleans
  BY Zenon DEF Init, Booleans
<1>2. Values
  BY AppAssumption DEF Init, Values, TailnetStates
<1>3. SlotIsOpen /\ Watched /\ Tasked /\ Ordered
  BY DEF Init, SlotIsOpen, Watched, Tasked, Ordered, Begun, Alive
<1>4. Staged
  BY DEF Init, Staged, RetriesGoOn, NeverStalls, RetriesNeedWifi
<1>5. QED
  BY <1>1, <1>2, <1>3, <1>4, Halves DEF IInv

LEMMA InductiveStep == IInv /\ [Next]_vars => IInv'
<1> SUFFICES ASSUME IInv, [Next]_vars PROVE IInv'
  OBVIOUS
<1>1. TypeOK' <=> Booleans' /\ Values'
  BY Zenon DEF TypeOK, Booleans, Values
<1>2. TypeOK'
  BY <1>1, Halves, BooleansStep, ValuesStep DEF IInv
<1>3. QED
  BY <1>2, SlotIsOpenStep, WatchedStep, TaskedStep, OrderedStep, StagedStep DEF IInv

\* All of what the application's event loop keeps.
THEOREM Invariance == Spec => []IInv
  BY InitInvariant, InductiveStep, PTL DEF Spec

\* The watchdog runs only for a session that goes on, and for the current one
\* once that has begun, however sessions overlap.
THEOREM WatchFollows == Spec => []WatchFollowsSession
<1>1. IInv => WatchFollowsSession
  BY NoneIsNone DEF IInv, TypeOK, SlotIsOpen, Watched, Begun, WatchFollowsSession, WatchIsFed,
     SessionIsWatched
<1>2. QED
  BY <1>1, Invariance, PTL

\* The session to come knows the camera task that still sends, and one session at
\* a time takes frames.
THEOREM OneTaskSends == Spec => []CameraHasOneTask
<1>1. ASSUME IInv PROVE OneStreamer
  <2> DEFINE S == {s \in Sessions : run[s] = "frames"}
  <2>1. S \subseteq {cameraTask}
    BY <1>1 DEF IInv, Tasked
  <2>2. Cardinality({cameraTask}) = 1 /\ IsFiniteSet({cameraTask})
    BY FS_Singleton
  <2>3. Cardinality(S) <= 1
    BY <2>1, <2>2, FS_Subset
  <2>4. QED
    BY <2>3 DEF OneStreamer
<1>2. IInv => TaskIsKnown
  BY DEF IInv, Tasked, Alive, TaskIsKnown
<1>3. IInv => CameraHasOneTask
  BY <1>1, <1>2 DEF IInv, CameraHasOneTask
<1>4. QED
  BY <1>3, Invariance, PTL

\* With a network and no session something leads to the next one, and nothing is
\* retried without a network.
THEOREM RetriesContinue == Spec => []RetriesGoOn
<1>1. IInv => RetriesGoOn
  BY DEF IInv, Staged
<1>2. QED
  BY <1>1, Invariance, PTL

-----------------------------------------------------------------------------
(* The heartbeat watchdog.  The argument counts decrements: Gap is how many *)
(* ticks the counter has gone down since it was last stored, wrapping below *)
(* zero; at most one more than those that fired since, because one callback *)
(* may have loaded the counter before the store and decrement it after.     *)

Gap == IF remaining <= base THEN base - remaining ELSE MaxCount + 1 + base - remaining

Loaded == IF seen # 0 THEN 1 ELSE 0

\* One decrement at most is not accounted for by a tick since the store.
OneInFlight == Gap + Loaded <= since + 1

\* While start() has not finished, or after stop(), nothing ticks down to a
\* restart: zero was stored, or the timer is off and nothing has ticked.
QuietUnlessArmed ==
  /\ js \in {"store", "run"} => ~timerOn
  /\ js = "run" => since = 0
  /\ ~armed /\ js # "stop" => ~timerOn
  /\ js = "stop" => base = 0 /\ ~armed
  /\ ~armed => base = 0 \/ (since = 0 /\ ~timerOn)

WatchdogIInv == WatchdogTypeOK /\ OneInFlight /\ QuietUnlessArmed /\ NoEarlyRestart /\ StopHolds

\* WatchdogTypeOK in two halves, for Booleans and arithmetic are different provers' work.
WatchdogBooleans == /\ timerOn \in BOOLEAN /\ started \in BOOLEAN
                    /\ armed \in BOOLEAN /\ restarted \in BOOLEAN

WatchdogValues == /\ remaining \in 0..MaxCount /\ seen \in 0..MaxCount /\ since \in 0..MaxCount
                  /\ base \in {0, Ticks} /\ js \in {"idle", "store", "run", "stop", "hung"}

LEMMA WatchdogInitIInv == WatchdogInit => WatchdogIInv
<1> SUFFICES ASSUME WatchdogInit PROVE WatchdogIInv
  OBVIOUS
<1>1. WatchdogBooleans
  BY Zenon DEF WatchdogInit, WatchdogBooleans
<1>2. WatchdogValues
  BY WatchdogAssumption DEF WatchdogInit, WatchdogValues
<1>3. OneInFlight
  BY WatchdogAssumption DEF WatchdogInit, OneInFlight, Gap, Loaded
<1>4. QuietUnlessArmed /\ NoEarlyRestart /\ StopHolds
  BY DEF WatchdogInit, QuietUnlessArmed, NoEarlyRestart, StopHolds
<1>5. QED
  BY <1>1, <1>2, <1>3, <1>4, Zenon
  DEF WatchdogIInv, WatchdogTypeOK, WatchdogBooleans, WatchdogValues

LEMMA WatchdogBooleansStep == WatchdogTypeOK /\ [WatchdogNext]_watchdogVars => WatchdogBooleans'
<1> SUFFICES ASSUME WatchdogTypeOK, [WatchdogNext]_watchdogVars PROVE WatchdogBooleans'
  OBVIOUS
<1>1. WatchdogBooleans
  BY Zenon DEF WatchdogTypeOK, WatchdogBooleans
<1>2. CASE Decrement
  <2>1. (Decremented = 0) \in BOOLEAN
    BY Zenon
  <2>2. QED
    BY <1>1, <1>2, <2>1, Zenon DEF Decrement, WatchdogBooleans
<1>3. CASE WatchdogNext /\ ~Decrement
  BY <1>1, <1>3, Zenon
  DEF WatchdogBooleans, WatchdogNext, Fire, KeepsRunning, StartBegins, StartStores, StartRuns,
      Feed,
      StopStores, StopTimer, Hang
<1>4. CASE UNCHANGED watchdogVars
  BY <1>1, <1>4, Zenon DEF WatchdogBooleans, watchdogVars
<1>5. QED
  BY <1>2, <1>3, <1>4

LEMMA WatchdogValuesStep == WatchdogTypeOK /\ [WatchdogNext]_watchdogVars => WatchdogValues'
<1> SUFFICES ASSUME WatchdogValues, [WatchdogNext]_watchdogVars PROVE WatchdogValues'
  BY Zenon DEF WatchdogTypeOK, WatchdogValues
<1> USE WatchdogAssumption DEF WatchdogValues
<1>1. CASE Fire
  BY <1>1 DEF Fire
<1>2. CASE Decrement
  BY <1>2 DEF Decrement, Decremented
<1>3. CASE StartBegins \/ StartRuns \/ StopTimer \/ Hang
  BY <1>3 DEF StartBegins, StartRuns, StopTimer, Hang
<1>4. CASE StartStores \/ Feed
  BY <1>4 DEF StartStores, Feed, Store
<1>5. CASE StopStores
  BY <1>5 DEF StopStores, Store, Stopped
<1>6. CASE UNCHANGED watchdogVars
  BY <1>6 DEF watchdogVars
<1>7. QED
  BY <1>1, <1>2, <1>3, <1>4, <1>5, <1>6 DEF WatchdogNext

LEMMA WatchdogTypeStep == WatchdogTypeOK /\ [WatchdogNext]_watchdogVars => WatchdogTypeOK'
  BY WatchdogBooleansStep, WatchdogValuesStep, Zenon
  DEF WatchdogTypeOK, WatchdogBooleans, WatchdogValues

\* A store makes the gap zero, whatever the callback has loaded.
LEMMA StoreClosesGap ==
  ASSUME WatchdogTypeOK, NEW value \in {0, Ticks}, Store(value), UNCHANGED seen
  PROVE  OneInFlight'
<1>1. /\ remaining' = value /\ base' = value /\ since' = 0 /\ value \in Nat
  BY WatchdogAssumption DEF Store
<1>2. QED
  BY <1>1, WatchdogAssumption DEF OneInFlight, Gap, Loaded

\* A tick adds one to each side, a decrement moves one from Loaded to Gap.
LEMMA InFlightStep == WatchdogTypeOK /\ OneInFlight /\ [WatchdogNext]_watchdogVars => OneInFlight'
<1> SUFFICES ASSUME WatchdogTypeOK, OneInFlight, [WatchdogNext]_watchdogVars PROVE OneInFlight'
  OBVIOUS
<1> USE WatchdogAssumption
<1>1. CASE Fire
  BY <1>1 DEF Fire, WatchdogTypeOK, OneInFlight, Gap, Loaded
<1>2. CASE Decrement
  BY <1>2 DEF Decrement, Decremented, WatchdogTypeOK, OneInFlight, Gap, Loaded
<1>3. CASE StartStores \/ Feed
  BY <1>3, StoreClosesGap DEF StartStores, Feed
<1>4. CASE StopStores
  BY <1>4, StoreClosesGap DEF StopStores, Stopped
<1>5. CASE StartBegins \/ StartRuns \/ StopTimer \/ Hang \/ UNCHANGED watchdogVars
  BY <1>5 DEF StartBegins, StartRuns, StopTimer, Hang, watchdogVars, OneInFlight, Gap, Loaded
<1>6. QED
  BY <1>1, <1>2, <1>3, <1>4, <1>5 DEF WatchdogNext

LEMMA QuietStep ==
  WatchdogTypeOK /\ QuietUnlessArmed /\ [WatchdogNext]_watchdogVars => QuietUnlessArmed'
<1> SUFFICES ASSUME WatchdogTypeOK, QuietUnlessArmed, [WatchdogNext]_watchdogVars
             PROVE  QuietUnlessArmed'
  OBVIOUS
<1> USE DEF QuietUnlessArmed
<1>1. CASE Fire \/ Decrement
  BY <1>1 DEF Fire, Decrement, KeepsRunning
<1>2. CASE StartBegins \/ StartStores \/ StartRuns
  BY <1>2 DEF StartBegins, StartStores, StartRuns, Store
<1>3. CASE Feed
  BY <1>3 DEF Feed, Store
<1>4. CASE StopStores \/ StopTimer
  BY <1>4 DEF StopStores, StopTimer, Store, Stopped
<1>5. CASE Hang \/ UNCHANGED watchdogVars
  BY <1>5 DEF Hang, watchdogVars
<1>6. QED
  BY <1>1, <1>2, <1>3, <1>4, <1>5 DEF WatchdogNext

\* Only a decrement restarts, and afterwards nothing moves.
LEMMA RestartStep ==
  WatchdogIInv /\ [WatchdogNext]_watchdogVars => NoEarlyRestart' /\ StopHolds'
<1> SUFFICES ASSUME WatchdogIInv, [WatchdogNext]_watchdogVars PROVE NoEarlyRestart' /\ StopHolds'
  OBVIOUS
<1> USE WatchdogAssumption
<1>1. CASE Decrement /\ restarted'
  <2>1. /\ Decremented = 0 /\ seen # 0
        /\ UNCHANGED <<timerOn, armed, since, base>>
    BY <1>1 DEF Decrement, WatchdogIInv, WatchdogTypeOK
  <2>2. remaining = 1
    BY <2>1 DEF Decremented, WatchdogIInv, WatchdogTypeOK
  <2>3. Gap + 1 <= since + 1
    BY <2>1 DEF WatchdogIInv, OneInFlight, Loaded
  <2>4. CASE base = 0
    BY <2>1, <2>2, <2>3, <2>4 DEF Gap, WatchdogIInv, WatchdogTypeOK, NoEarlyRestart, StopHolds
  <2>5. CASE base = Ticks
    BY <2>1, <2>2, <2>3, <2>5
    DEF Gap, WatchdogIInv, WatchdogTypeOK, QuietUnlessArmed, NoEarlyRestart, StopHolds
  <2>6. QED
    BY <2>4, <2>5 DEF WatchdogIInv, WatchdogTypeOK
<1>2. CASE ~restarted'
  BY <1>2 DEF NoEarlyRestart, StopHolds
<1>3. CASE restarted' /\ ~Decrement
  BY <1>3
  DEF WatchdogNext, Fire, StartBegins, StartStores, StartRuns, Feed, StopStores, StopTimer,
              Hang, watchdogVars, WatchdogIInv, NoEarlyRestart, StopHolds
<1>4. QED
  BY <1>1, <1>2, <1>3

\* The inductive invariant holds in every reachable state, for every number of
\* ticks start() can set and every width of the counter.
THEOREM WatchdogInvariance == WatchdogSpec => []WatchdogIInv
<1>1. WatchdogIInv /\ [WatchdogNext]_watchdogVars => WatchdogIInv'
  BY WatchdogTypeStep, InFlightStep, QuietStep, RestartStep DEF WatchdogIInv
<1>2. QED
  BY WatchdogInitIInv, <1>1, PTL DEF WatchdogSpec

\* The counter, and what the callback loaded of it, stay within the uint32_t.
THEOREM WatchdogTyping == WatchdogSpec => []WatchdogTypeOK
  BY WatchdogInvariance, PTL DEF WatchdogIInv

\* A feed is never lost to a callback that runs across it: the device restarts
\* only Ticks - 1 ticks or more after the last store.
THEOREM FeedIsNeverLost == WatchdogSpec => []NoEarlyRestart
  BY WatchdogInvariance, PTL DEF WatchdogIInv

\* watchdog_stop holds against a callback it overtook.
THEOREM StopIsNeverLost == WatchdogSpec => []StopHolds
  BY WatchdogInvariance, PTL DEF WatchdogIInv
-----------------------------------------------------------------------------
(* CameraLink: what is queued, what the peer has heard and what the        *)
(* callbacks told agree, message by message, in every state.               *)

Kinds == {"report", "hello", "frame", "ack", "nack", "close"}
Fates == {"pending", "ok", "failed"}
Joined == [ids : SUBSET Nat, size : Nat]
Queued == [id : Nat, left : Nat]
Sent == [kind : Kinds, done : Fates]

\* The size of a message that was sent, and how many the peer has heard.
SizeOf(id) == Size(sends[id].kind)
Heard == Len(peer.heard)

\* Types, but for the queue's, which follows; and the credit is backed.
Wired == /\ state \in {"open", "closing", "closed"} /\ free \in 0..Room /\ room \in 0..Room
         /\ buffers \in Seq(Queued) /\ sends \in Seq(Sent)
         /\ peer \in [heard : Seq(Joined), half : Joined]
         /\ CreditIsBacked

\* What is queued was sent last, and the peer has heard all before it.
Lined == /\ Heard + Len(buffers) <= Len(sends)
         /\ state # "closed" => Heard + Len(buffers) = Len(sends)
         /\ state = "closed" => Len(buffers) = 0
         /\ \A i \in 1..Len(buffers) : buffers[i].id = Heard + i

\* What the peer has heard is whole; of the next message it may have a part, ...
Heeded == /\ \A id \in 1..Heard : peer.heard[id] = [ids |-> {id}, size |-> SizeOf(id)]
          /\ \/ peer.half = Nothing
             \/ /\ Heard + 1 <= Len(sends) /\ peer.half.ids = {Heard + 1}
                /\ peer.half.size \in 1..(SizeOf(Heard + 1) - 1)

\* ... and what is queued is the rest.
Queue == \A i \in 1..Len(buffers) :
           buffers[i].left = SizeOf(Heard + i) - (IF i = 1 THEN peer.half.size ELSE 0)

\* A callback tells which of these became of its message.
Told == \A id \in 1..Len(sends) :
          sends[id].done = IF id <= Heard THEN "ok"
                           ELSE IF state = "closed" THEN "failed" ELSE "pending"

Wire == Wired /\ Lined /\ Heeded /\ Queue /\ Told

\* The only frame that may be pending is the one the camera's task awaits.
Flying == Lent \subseteq {camId} /\ (cam \notin {"frame", "ended"} => Lent = {})

Stashed == StashIsPulled /\ (arrived = 0 => queue = 0 /\ stash = "none")

\* The values of what is not on the wire.
LinkValues ==
  /\ stash \in {"none", "more", "last"} /\ queue \in 0..MaxCommands /\ arrived \in 0..MaxCommands
  /\ session \in {"running", "over"} /\ capture \in {"none", "idle", "on"}
  /\ cam \in {"start", "report", "hello", "timer", "frame", "ended"}
  /\ camId \in 0..Len(sends) /\ reader \in {"read", "ack", "nack", "ended"}
  /\ readerId \in 0..Len(sends)

\* The inductive invariant.
LinkIInv == Wire /\ Flying /\ Stashed /\ LinkValues /\ current \in BOOLEAN

-----------------------------------------------------------------------------
(* The wire: a step of the link sends a message, passes some on, fails them *)
(* or leaves the wire alone.                                                *)

LEMMA SizesArePositive == \A kind : Size(kind) \in Nat \ {0}
  BY LinkAssumption DEF Size

LEMMA NothingIs == Nothing \in Joined /\ Nothing.ids = {} /\ Nothing.size = 0
  BY DEF Nothing, Joined

Writes == \E kind \in Kinds : /\ state = "open" /\ state' \in {"open", "closing"}
                              /\ Write(kind)
Rests == UNCHANGED <<state, room, free, buffers, peer, sends>>

\* What happens to the wire in a step.
LEMMA StepOfTheWire ==
  ASSUME [LinkNext]_linkVars
  PROVE  Rests \/ Writes \/ OnWritable \/ Drain \/ LinkEnds
<1> USE DEF Rests, Kinds
<1>1. ASSUME NEW kind \in {"report", "hello", "frame"}, NEW where, CamSends(kind, where)
      PROVE  Rests \/ Writes
  BY <1>1 DEF CamSends, Writes, out
<1>2. ASSUME CloseSocket
      PROVE  Rests \/ Writes
  BY <1>2 DEF CloseSocket, Writes, out
<1>3. ASSUME NEW kind \in {"ack", "nack"}, Answers(kind)
      PROVE  Rests \/ Writes
  BY <1>2, <1>3 DEF Answers, ReaderEnds, Writes
<1>4. ASSUME Continues
      PROVE  Rests \/ Writes
  BY <1>2, <1>4 DEF Continues, ReaderEnds, out
<1>5. CASE CamStep
  BY <1>1, <1>5 DEF CamStep, StartFails, StartWorks, CamGoesOn, CamTimesOut, FrameEnds, SendFrame,
     CamKeeps, out
<1>6. CASE ReaderStep
  BY <1>2, <1>3, <1>4, <1>6 DEF ReaderStep, ReadCommand, ReadDone, AnswerSent, AnswerFails,
     ReaderEnds
<1>7. CASE \E f \in {"more", "last"} : Arrive(f)
  BY <1>7 DEF Arrive, out
<1>8. CASE RaceEnds \/ WifiDown
  BY <1>2, <1>8 DEF RaceEnds, WifiDown
<1>9. CASE UNCHANGED linkVars
  BY <1>9 DEF linkVars, out
<1> QED BY <1>5, <1>6, <1>7, <1>8, <1>9 DEF LinkNext

\* A message is sent: whole, in part, or not yet.
LEMMA WriteKeepsWire ==
  ASSUME Wire, Writes
  PROVE  Wire'
<1>1. PICK kind \in Kinds : /\ state = "open" /\ state' \in {"open", "closing"} /\ Write(kind)
  BY DEF Writes
<1>i. PICK id : id = Len(sends) + 1
  OBVIOUS
<1>s. PICK size : size = Size(kind)
  OBVIOUS
<1> DEFINE whole == buffers = <<>> /\ size <= room
           part == IF buffers = <<>> /\ ~whole THEN room ELSE 0
<1>w. /\ sends' = Append(sends, [kind |-> kind, done |-> IF whole THEN "ok" ELSE "pending"])
      /\ IF whole THEN ClientWrite(Fragment(id, size, FALSE))
         ELSE IF part > 0 THEN ClientWrite(Fragment(id, part, More)) ELSE UNCHANGED peer
      /\ buffers' = IF whole THEN buffers ELSE Append(buffers, [id |-> id, left |-> size - part])
      /\ free' = free - (IF whole THEN size ELSE part)
      /\ room' = IF whole \/ part > 0 THEN free' ELSE room
  BY <1>1, <1>i, <1>s DEF Write
<1>p. /\ whole => buffers = <<>> /\ size <= room
      /\ ~whole /\ part > 0 => part = room /\ buffers = <<>> /\ ~(size <= room)
  OBVIOUS
<1> HIDE DEF part, whole
<1>2. /\ id = Len(sends) + 1 /\ id \in Nat /\ size \in Nat \ {0}
      /\ room \in Nat /\ free \in Nat /\ room <= free
      /\ Len(buffers) \in Nat /\ Len(sends) \in Nat /\ Heard \in Nat
      /\ Room \in Nat /\ free <= Room
  BY <1>i, <1>s, SizesArePositive, LenProperties, LinkAssumption
     DEF Wire, Wired, CreditIsBacked, Heard
<1>3. /\ Heard + Len(buffers) = Len(sends) /\ Heard + (Len(buffers) + 1) = id
      /\ buffers = <<>> => Len(buffers) = 0 /\ peer.half = Nothing
  BY <1>1, <1>2, EmptySeq DEF Wire, Lined, Heeded, Wired
<1>4. /\ sends' \in Seq(Sent) /\ Len(sends') = id
      /\ \A i \in 1..Len(sends) : sends'[i] = sends[i]
      /\ sends'[id] = [kind |-> kind, done |-> IF whole THEN "ok" ELSE "pending"]
  <2>1. [kind |-> kind, done |-> IF whole THEN "ok" ELSE "pending"] \in Sent
    BY DEF Sent, Fates
  <2> QED BY <1>w, <1>i, <2>1, AppendProperties DEF Wire, Wired
<1>5. /\ \A i \in 1..Len(sends) : Size(sends'[i].kind) = SizeOf(i)
      /\ Size(sends'[id].kind) = size
  BY <1>4, <1>i, <1>s DEF SizeOf
<1>6. \A i \in 1..Len(sends) : sends'[i].done = IF i <= Heard THEN "ok" ELSE "pending"
  BY <1>1, <1>4, <1>i DEF Wire, Told
<1>7. sends'[id].done = IF whole THEN "ok" ELSE "pending"
  BY <1>4
<1>8. peer \in [heard : Seq(Joined), half : Joined] /\ peer.half \in Joined
  BY DEF Wire, Wired
<1>9. CASE whole
  <2>1. /\ peer' = Hear(peer, Fragment(id, size, FALSE)) /\ buffers' = buffers
        /\ free' = free - size /\ room' = free' /\ size <= room /\ buffers = <<>>
    BY <1>w, <1>p, <1>9 DEF ClientWrite
  <2> DEFINE joined == [ids |-> {id}, size |-> size]
  <2>2. joined \in Joined
    BY <1>2 DEF Joined
  <2>3. peer' = [heard |-> Append(peer.heard, joined), half |-> Nothing]
    <3>1. peer.half.ids \cup {id} = {id} /\ peer.half.size + size = size
      BY <1>2, <1>3, <2>1, NothingIs
    <3> QED BY <2>1, <3>1 DEF Hear, Fragment
  <2>4. /\ peer'.heard \in Seq(Joined) /\ Heard' = Heard + 1
        /\ \A i \in 1..Heard : peer'.heard[i] = peer.heard[i]
        /\ peer'.heard[Heard + 1] = joined /\ peer'.half = Nothing
    <3> HIDE DEF joined
    <3> QED BY <1>8, <2>2, <2>3, AppendProperties DEF Heard
  <2>5. Wired'
    <3>1. free' \in 0..Room /\ room' \in 0..Room /\ room' <= free'
      BY <1>2, <2>1
    <3>2. peer' \in [heard : Seq(Joined), half : Joined]
      BY <2>3, <2>4, NothingIs
    <3> QED BY <1>1, <1>4, <2>1, <3>1, <3>2 DEF Wire, Wired, CreditIsBacked
  <2>6. Lined'
    BY <1>1, <1>2, <1>3, <1>4, <2>1, <2>4 DEF Lined
  <2>7. Heeded'
    <3>1. \A i \in 1..Heard : peer'.heard[i] = [ids |-> {i}, size |-> Size(sends'[i].kind)]
      BY <1>2, <1>3, <1>5, <2>4 DEF Wire, Heeded
    <3>2. peer'.heard[Heard + 1] = [ids |-> {Heard + 1}, size |-> Size(sends'[Heard + 1].kind)]
      <4>1. Heard + 1 = id
        BY <1>2, <1>3, <2>1
      <4> QED BY <1>5, <2>4, <4>1
    <3>3. \A i \in 1..(Heard + 1) : i \in 1..Heard \/ i = Heard + 1
      BY <1>2
    <3> QED BY <2>4, <3>1, <3>2, <3>3 DEF Heeded, SizeOf
  <2>8. Queue'
    BY <1>2, <1>3, <2>1 DEF Queue
  <2>9. Told'
    BY <1>1, <1>2, <1>3, <1>4, <1>6, <1>7, <1>9, <2>1, <2>4 DEF Told
  <2> QED BY <2>5, <2>6, <2>7, <2>8, <2>9 DEF Wire
\* The message is queued, the part that fits taken off.
<1>10. ASSUME ~whole, NEW sent \in 0..(size - 1),
              buffers' = Append(buffers, [id |-> id, left |-> size - sent]),
              peer'.heard = peer.heard, peer'.half \in Joined,
              peer'.half.size = IF buffers = <<>> THEN sent ELSE peer.half.size,
              IF sent > 0 THEN buffers = <<>> /\ peer'.half.ids = {id} ELSE peer'.half = peer.half,
              peer' \in [heard : Seq(Joined), half : Joined],
              free' = free - sent, room' = (IF sent > 0 THEN free' ELSE room), sent <= room
       PROVE  Wire'
  <2>1. [id |-> id, left |-> size - sent] \in Queued
    BY <1>2 DEF Queued
  <2>2. /\ buffers' \in Seq(Queued) /\ Len(buffers') = Len(buffers) + 1
        /\ \A i \in 1..Len(buffers) : buffers'[i] = buffers[i]
        /\ buffers'[Len(buffers) + 1] = [id |-> id, left |-> size - sent]
    BY <1>10, <2>1, AppendProperties DEF Wire, Wired
  <2>3. Heard' = Heard
    BY <1>10 DEF Heard
  <2>4. Wired'
    <3>1. free' \in 0..Room /\ room' \in 0..Room /\ room' <= free'
      BY <1>2, <1>10
    <3> QED BY <1>1, <1>4, <1>10, <2>2, <3>1 DEF Wire, Wired, CreditIsBacked
  <2>5. Lined'
    <3>1. \A i \in 1..Len(buffers') : buffers'[i].id = Heard + i
      <4>1. buffers'[Len(buffers) + 1].id = Heard + (Len(buffers) + 1)
        BY <1>2, <1>3, <2>2
      <4>2. \A i \in 1..Len(buffers) : buffers'[i].id = Heard + i
        BY <2>2 DEF Wire, Lined
      <4>3. \A i \in 1..(Len(buffers) + 1) : i \in 1..Len(buffers) \/ i = Len(buffers) + 1
        BY <1>2
      <4> QED BY <2>2, <4>1, <4>2, <4>3
    <3> QED BY <1>1, <1>2, <1>3, <1>4, <2>2, <2>3, <3>1 DEF Lined
  <2>6. Heeded'
    <3>1. \A i \in 1..Heard : peer'.heard[i] = [ids |-> {i}, size |-> Size(sends'[i].kind)]
      BY <1>2, <1>3, <1>5, <1>10 DEF Wire, Heeded
    <3>2. CASE sent = 0
      <4>1. peer'.half = peer.half
        BY <1>2, <1>10, <3>2
      <4>2. Heard + 1 <= Len(sends) => Size(sends'[Heard + 1].kind) = SizeOf(Heard + 1)
        BY <1>2, <1>5
      <4>3. Heard + 1 <= Len(sends) => Heard + 1 <= Len(sends')
        BY <1>2, <1>4
      <4> QED BY <2>3, <3>1, <4>1, <4>2, <4>3 DEF Wire, Heeded, SizeOf
    <3>3. CASE sent > 0
      <4>1. Heard + 1 = id /\ peer'.half.ids = {id} /\ peer'.half.size = sent
        BY <1>2, <1>3, <1>10, <3>3
      <4>2. Size(sends'[Heard + 1].kind) = size /\ sent \in 1..(size - 1)
        BY <1>5, <1>2, <1>10, <3>3, <4>1
      <4>3. peer'.half.size \in 1..(Size(sends'[Heard + 1].kind) - 1)
        BY <4>1, <4>2
      <4>4. Heard + 1 <= Len(sends')
        BY <1>2, <1>4, <4>1
      <4> QED BY <2>3, <3>1, <4>1, <4>3, <4>4 DEF Heeded, SizeOf
    <3> QED BY <3>2, <3>3
  <2>7. Queue'
    <3>1. \A i \in 1..Len(buffers) : buffers'[i].left = buffers[i].left /\ buffers # <<>>
      BY <2>2, <1>2, EmptySeq
    <3>2. /\ \A i \in 1..Len(buffers) : Size(sends'[Heard + i].kind) = SizeOf(Heard + i)
          /\ Size(sends'[Heard + (Len(buffers) + 1)].kind) = size
      BY <1>2, <1>3, <1>5
    <3>3. peer'.half.size = IF buffers = <<>> THEN sent ELSE peer.half.size
      BY <1>10
    <3>4. \A i \in 1..Len(buffers) :
            buffers'[i].left = Size(sends'[Heard + i].kind) - (IF i = 1 THEN peer'.half.size ELSE 0)
      BY <3>1, <3>2, <3>3 DEF Wire, Queue
    <3>5. buffers'[Len(buffers) + 1].left = size - sent
      BY <2>2
    <3>6. IF Len(buffers) + 1 = 1 THEN buffers = <<>> ELSE buffers # <<>>
      BY <1>2, EmptySeq DEF Wire, Wired
    <3>7. CASE Len(buffers) + 1 = 1
      BY <1>2, <2>2, <2>3, <3>2, <3>3, <3>5, <3>6, <3>7 DEF Queue, SizeOf
    <3>8. CASE Len(buffers) + 1 # 1
      <4>1. sent = 0
        BY <1>2, <1>10, <3>6, <3>8
      <4>2. \A i \in 1..(Len(buffers) + 1) : i \in 1..Len(buffers) \/ i = Len(buffers) + 1
        BY <1>2
      <4>3. buffers'[Len(buffers) + 1].left = Size(sends'[Heard + (Len(buffers) + 1)].kind) - 0
        BY <1>2, <3>2, <3>5, <4>1
      <4> QED BY <2>2, <2>3, <3>4, <3>8, <4>2, <4>3 DEF Queue, SizeOf
    <3> QED BY <3>7, <3>8
  <2>8. Told'
    BY <1>1, <1>2, <1>3, <1>4, <1>6, <1>7, <1>10, <2>2, <2>3 DEF Told
  <2> QED BY <2>4, <2>5, <2>6, <2>7, <2>8 DEF Wire
<1>11. CASE ~whole /\ part > 0
  <2>1. /\ peer' = Hear(peer, Fragment(id, part, More)) /\ part = room /\ buffers = <<>>
        /\ free' = free - part /\ room' = free'
        /\ buffers' = Append(buffers, [id |-> id, left |-> size - part])
    BY <1>w, <1>p, <1>11 DEF ClientWrite
  <2>2. part \in 0..(size - 1)
    BY <1>p, <1>2, <1>11, <2>1
  <2>3. peer.half.ids \cup {id} = {id} /\ peer.half.size + part = part
    BY <1>2, <1>3, <2>1, <2>2, NothingIs
  <2>4. peer' = [heard |-> peer.heard, half |-> [ids |-> {id}, size |-> part]]
    BY <1>8, <2>1, <2>3 DEF Hear, Fragment, More
  <2>5. [ids |-> {id}, size |-> part] \in Joined
    BY <1>2, <2>2 DEF Joined
  <2>6. /\ peer'.heard = peer.heard /\ peer'.half \in Joined
        /\ peer' \in [heard : Seq(Joined), half : Joined]
        /\ peer'.half.size = part /\ peer'.half.ids = {id}
    BY <1>8, <2>4, <2>5
  <2>7. part <= room /\ room' = free'
    BY <1>2, <2>1
  <2> QED BY <1>10, <1>11, <2>1, <2>2, <2>6, <2>7
<1>12. CASE ~whole /\ part = 0
  <2>1. /\ peer' = peer /\ free' = free - part /\ room' = room
        /\ buffers' = Append(buffers, [id |-> id, left |-> size - part])
    BY <1>w, <1>2, <1>12
  <2>2. peer.half.size = IF buffers = <<>> THEN 0 ELSE peer.half.size
    BY <1>3, NothingIs
  <2> QED BY <1>2, <1>8, <1>10, <1>12, <2>1, <2>2
<1>13. part \in Nat
  BY <1>2 DEF part
<1> QED BY <1>9, <1>11, <1>12, <1>13

\* The messages that are passed on whole.
LEMMA PassedIsWhole ==
  ASSUME Wire, NEW k \in 0..Len(buffers)
  PROVE  /\ Passed(k) \in [heard : Seq(Joined), half : Joined]
         /\ Len(Passed(k).heard) = Heard + k
         /\ \A id \in 1..(Heard + k) : Passed(k).heard[id] = [ids |-> {id}, size |-> SizeOf(id)]
         /\ Passed(k).half = IF k = 0 THEN peer.half ELSE Nothing
<1>1. /\ Len(buffers) \in Nat /\ Heard \in Nat /\ peer.half \in Joined /\ peer.heard \in Seq(Joined)
      /\ peer \in [heard : Seq(Joined), half : Joined]
      /\ Heard + Len(buffers) <= Len(sends) /\ Len(sends) \in Nat
  BY LenProperties DEF Wire, Wired, Lined, Heard
<1>2. CASE k = 0
  BY <1>1, <1>2 DEF Passed, Wire, Heeded, Heard
<1>3. CASE k # 0
  <2> DEFINE first == [ids |-> peer.half.ids \cup {buffers[1].id},
                       size |-> peer.half.size + buffers[1].left]
             whole(i) == IF i = 1 THEN first
                         ELSE [ids |-> {buffers[i].id}, size |-> buffers[i].left]
             more == [i \in 1..k |-> whole(i)]
  <2>1. \A i \in 1..k : SizeOf(Heard + i) \in Nat
    BY SizesArePositive DEF SizeOf
  <2>2. \A i \in 1..k : whole(i) = [ids |-> {Heard + i}, size |-> SizeOf(Heard + i)]
    <3>1. /\ 1 \in 1..Len(buffers) /\ buffers[1].id = Heard + 1
          /\ buffers[1].left = SizeOf(Heard + 1) - peer.half.size
      BY <1>1, <1>3 DEF Wire, Lined, Queue
    <3>2. peer.half.ids \cup {Heard + 1} = {Heard + 1}
      BY NothingIs DEF Wire, Heeded
    <3>3. peer.half.size + buffers[1].left = SizeOf(Heard + 1)
      BY <1>1, <1>3, <2>1, <3>1 DEF Joined
    <3>4. whole(1) = [ids |-> {Heard + 1}, size |-> SizeOf(Heard + 1)]
      BY <3>1, <3>2, <3>3
    <3>5. ASSUME NEW i \in 1..k, i # 1
          PROVE  whole(i) = [ids |-> {Heard + i}, size |-> SizeOf(Heard + i)]
      <4>1. buffers[i].id = Heard + i /\ buffers[i].left = SizeOf(Heard + i) - 0
        BY <1>1, <3>5 DEF Wire, Lined, Queue
      <4>2. SizeOf(Heard + i) - 0 = SizeOf(Heard + i)
        BY <2>1
      <4> QED BY <3>5, <4>1, <4>2
    <3> QED BY <3>4, <3>5
  <2>3. \A i \in 1..k : whole(i) \in Joined
    <3>1. \A i \in 1..k : Heard + i \in Nat
      BY <1>1
    <3>2. \A i \in 1..k : [ids |-> {Heard + i}, size |-> SizeOf(Heard + i)] \in Joined
      BY <2>1, <3>1 DEF Joined
    <3> HIDE DEF whole
    <3> QED BY <2>2, <3>2
  <2>4. more \in Seq(Joined) /\ Len(more) = k /\ \A i \in 1..k : more[i] = whole(i)
    <3> HIDE DEF whole
    <3> QED BY <1>1, <2>3, IsASeq
  <2>5. Passed(k) = [heard |-> peer.heard \o more, half |-> Nothing]
    BY <1>3 DEF Passed
  <2> HIDE DEF more, whole
  <2>6. /\ peer.heard \o more \in Seq(Joined) /\ Len(peer.heard \o more) = Heard + k
        /\ \A i \in 1..(Heard + k) : (peer.heard \o more)[i] =
                     IF i <= Heard THEN peer.heard[i] ELSE more[i - Heard]
    <3>1. peer.heard \in Seq(Joined) /\ more \in Seq(Joined)
      BY <1>1, <2>4
    <3>2. Len(more) = k /\ Len(peer.heard) = Heard
      BY <2>4 DEF Heard
    <3> QED BY <3>1, <3>2, ConcatProperties
  <2>7. ASSUME NEW id \in 1..(Heard + k)
        PROVE  (peer.heard \o more)[id] = [ids |-> {id}, size |-> SizeOf(id)]
    <3>1. CASE id <= Heard
      BY <1>1, <2>6, <3>1 DEF Wire, Heeded
    <3>2. CASE id > Heard
      <4>1. PICK i \in 1..k : Heard + i = id /\ id - Heard = i
        BY <1>1, <3>2
      <4>2. more[i] = [ids |-> {id}, size |-> SizeOf(id)]
        BY <2>2, <2>4, <4>1
      <4>3. (peer.heard \o more)[id] = more[i]
        BY <1>1, <2>6, <3>2, <4>1
      <4> QED BY <4>1, <4>2, <4>3
    <3>3. id <= Heard \/ id > Heard
      BY <1>1
    <3> QED BY <3>1, <3>2, <3>3
  <2>8. Passed(k).heard = peer.heard \o more /\ Passed(k).half = Nothing
    BY <2>5
  <2>9. Passed(k) \in [heard : Seq(Joined), half : Joined]
    BY <2>5, <2>6, NothingIs
  <2> QED BY <1>3, <2>6, <2>7, <2>8, <2>9
<1> QED BY <1>2, <1>3

\* What is left of a message, and what the peer joins to a part.
LEMMA RemainderIs ==
  ASSUME NEW b \in Queued, NEW n
  PROVE  Remainder(b, n) = [id |-> b.id, left |-> b.left - n]
  BY DEF Remainder, Queued

LEMMA HearMore ==
  ASSUME NEW p \in [heard : Seq(Joined), half : Joined], NEW id, NEW size
  PROVE  Hear(p, Fragment(id, size, More)) =
           [heard |-> p.heard, half |-> [ids |-> p.half.ids \cup {id}, size |-> p.half.size + size]]
  BY DEF Hear, Fragment, More

\* onWritable passes on what fits.
LEMMA PassKeepsWire ==
  ASSUME Wire, OnWritable
  PROVE  Wire'
<1>1. PICK k \in {n \in 0..Len(buffers) : n <= free} : \E offset \in Offsets(k) :
         Stops(k, free - offset[k]) /\ PassOn(k, free - offset[k])
  BY DEF OnWritable
<1>2. PICK offset \in Offsets(k) : Stops(k, free - offset[k]) /\ PassOn(k, free - offset[k])
  BY <1>1
<1> DEFINE gone == SubSeq(buffers, k + 1, Len(buffers))
<1>r. PICK rest : rest = free - offset[k]
  OBVIOUS
<1>3. /\ Len(buffers) \in Nat /\ Heard \in Nat /\ Room \in Nat /\ free \in 0..Room
      /\ k \in 0..Len(buffers) /\ Len(sends) \in Nat
      /\ state # "closed" /\ state' = state /\ room' = free'
      /\ sends \in Seq(Sent) /\ buffers \in Seq(Queued)
  BY LenProperties, LinkAssumption DEF Wire, Wired, OnWritable, Heard
<1>4. rest \in 0..free
  <2>1. offset[k] \in 0..free
    BY <1>3 DEF Offsets
  <2> QED BY <1>3, <1>r, <2>1
<1>5. /\ k < Len(buffers) => buffers[k + 1].left > rest
      /\ IF k < Len(buffers) /\ rest > 0
         THEN /\ peer' = Hear(Passed(k), Fragment(Head(gone).id, rest, More))
              /\ buffers' = <<Remainder(Head(gone), rest)>> \o Tail(gone)
              /\ free' = 0
         ELSE peer' = Passed(k) /\ buffers' = gone /\ free' = rest
      /\ sends' = [i \in DOMAIN sends |->
                     IF \E j \in 1..k : buffers[j].id = i THEN [sends[i] EXCEPT !.done = "ok"]
                     ELSE sends[i]]
  BY <1>2, <1>r DEF Stops, PassOn
<1>6. Heard + Len(buffers) = Len(sends)
  BY <1>3 DEF Wire, Lined
<1>7. /\ gone \in Seq(Queued) /\ Len(gone) = Len(buffers) - k
      /\ \A i \in 1..(Len(buffers) - k) : gone[i] = buffers[k + i]
  <2>1. \A i \in (k + 1)..Len(buffers) : buffers[i] \in Queued
    BY <1>3, ElementOfSeq
  <2> QED BY <1>3, <2>1, SubSeqProperties
<1> HIDE DEF gone
<1>8. /\ sends' \in Seq(Sent) /\ Len(sends') = Len(sends)
      /\ \A i \in 1..Len(sends) : /\ Size(sends'[i].kind) = SizeOf(i)
                                  /\ sends'[i].done = IF i <= Heard + k THEN "ok" ELSE "pending"
  <2>1. DOMAIN sends = 1..Len(sends) /\ \A i \in 1..Len(sends) : sends[i] \in Sent
    BY <1>3, LenProperties, ElementOfSeq
  <2>2. ASSUME NEW i \in 1..Len(sends)
        PROVE  (\E j \in 1..k : buffers[j].id = i) <=> (Heard < i /\ i <= Heard + k)
    <3>1. \A j \in 1..k : buffers[j].id = Heard + j
      BY <1>3 DEF Wire, Lined
    <3>2. Heard < i /\ i <= Heard + k => i - Heard \in 1..k /\ Heard + (i - Heard) = i
      BY <1>3
    <3>3. \A j \in 1..k : Heard < Heard + j /\ Heard + j <= Heard + k
      BY <1>3
    <3>4. (\E j \in 1..k : buffers[j].id = i) => (Heard < i /\ i <= Heard + k)
      BY <3>1, <3>3
    <3>5. Heard < i /\ i <= Heard + k => \E j \in 1..k : buffers[j].id = i
      BY <3>1, <3>2
    <3> QED BY <3>4, <3>5
  <2>3. \A i \in 1..Len(sends) : sends'[i] = IF Heard < i /\ i <= Heard + k
                                             THEN [sends[i] EXCEPT !.done = "ok"] ELSE sends[i]
    BY <1>5, <2>1, <2>2
  <2>4. \A i \in 1..Len(sends) : sends'[i] \in Sent /\ sends'[i].kind = sends[i].kind
    BY <2>1, <2>3 DEF Sent, Fates
  <2>5. sends' = [i \in 1..Len(sends) |-> sends'[i]]
    BY <1>5, <2>1
  <2>6. ASSUME NEW i \in 1..Len(sends)
        PROVE  sends'[i].done = IF i <= Heard + k THEN "ok" ELSE "pending"
    <3>1. sends[i].done = IF i <= Heard THEN "ok" ELSE "pending"
      BY <1>3 DEF Wire, Told
    <3>2. CASE Heard < i /\ i <= Heard + k
      BY <2>1, <2>3, <3>2 DEF Sent
    <3>3. CASE ~(Heard < i /\ i <= Heard + k)
      <4>1. i <= Heard <=> i <= Heard + k
        BY <1>3, <3>3
      <4> QED BY <2>3, <3>1, <3>3, <4>1
    <3> QED BY <3>2, <3>3
  <2> QED BY <1>3, <2>4, <2>5, <2>6 DEF SizeOf
<1>9. /\ Passed(k) \in [heard : Seq(Joined), half : Joined]
      /\ Len(Passed(k).heard) = Heard + k
      /\ \A id \in 1..(Heard + k) : Passed(k).heard[id] = [ids |-> {id}, size |-> SizeOf(id)]
      /\ Passed(k).half = IF k = 0 THEN peer.half ELSE Nothing
  BY <1>3, PassedIsWhole
<1>10. CASE ~(k < Len(buffers) /\ rest > 0)
  <2>1. peer' = Passed(k) /\ buffers' = gone /\ free' = rest /\ Heard' = Heard + k
    BY <1>5, <1>9, <1>10 DEF Heard
  <2>2. Wired'
    <3>1. free' \in 0..Room /\ room' \in 0..Room /\ room' <= free'
      BY <1>3, <1>4, <2>1
    <3> QED BY <1>3, <1>7, <1>8, <1>9, <2>1, <3>1 DEF Wire, Wired, CreditIsBacked
  <2>3. Lined'
    <3>1. ASSUME NEW i \in 1..(Len(buffers) - k)
          PROVE  gone[i].id = Heard + (k + i)
      <4>1. k + i \in 1..Len(buffers)
        BY <1>3
      <4> QED BY <1>7, <4>1 DEF Wire, Lined
    <3>2. \A i \in 1..(Len(buffers) - k) : Heard + (k + i) = (Heard + k) + i
      BY <1>3
    <3>3. (Heard + k) + (Len(buffers) - k) = Len(sends) /\ Len(sends) <= Len(sends)
      BY <1>3, <1>6
    <3> QED BY <1>3, <1>7, <1>8, <2>1, <3>1, <3>2, <3>3 DEF Lined
  <2>4. Heeded'
    <3>1. \A id \in 1..(Heard + k) :
            Passed(k).heard[id] = [ids |-> {id}, size |-> Size(sends'[id].kind)]
      <4>1. \A id \in 1..(Heard + k) : id \in 1..Len(sends)
        BY <1>3, <1>6
      <4> QED BY <1>8, <1>9, <4>1
    <3>2. CASE k = 0
      <4>1. Heard + 1 <= Len(sends) => Size(sends'[Heard + 1].kind) = SizeOf(Heard + 1)
        BY <1>3, <1>8
      <4>2. Heard + k = Heard /\ peer'.half = peer.half
        BY <1>3, <1>9, <2>1, <3>2
      <4> QED BY <1>8, <2>1, <3>1, <4>1, <4>2 DEF Wire, Heeded, SizeOf
    <3>3. CASE k # 0
      BY <1>9, <2>1, <3>1, <3>3 DEF Heeded, SizeOf
    <3> QED BY <3>2, <3>3
  <2>5. Queue'
    <3>1. ASSUME NEW i \in 1..(Len(buffers) - k)
          PROVE  gone[i].left = Size(sends'[(Heard + k) + i].kind)
                                  - (IF i = 1 THEN peer'.half.size ELSE 0)
      <4>1. /\ k + i \in 1..Len(buffers) /\ Heard + (k + i) = (Heard + k) + i
            /\ (Heard + k) + i \in 1..Len(sends)
        BY <1>3, <1>6
      <4>2. gone[i].left = SizeOf((Heard + k) + i) - (IF k + i = 1 THEN peer.half.size ELSE 0)
        BY <1>7, <4>1 DEF Wire, Queue
      <4>3. (IF k + i = 1 THEN peer.half.size ELSE 0) = (IF i = 1 THEN peer'.half.size ELSE 0)
        BY <1>3, <1>9, <2>1, NothingIs
      <4> QED BY <1>8, <4>1, <4>2, <4>3
    <3> QED BY <1>7, <2>1, <3>1 DEF Queue, SizeOf
  <2>6. Told'
    BY <1>3, <1>8, <2>1 DEF Told
  <2> QED BY <2>2, <2>3, <2>4, <2>5, <2>6 DEF Wire
<1>11. CASE k < Len(buffers) /\ rest > 0
  <2> DEFINE next == (Heard + k) + 1
             before == Passed(k).half.size
             remains == <<Remainder(Head(gone), rest)>>
  <2>1. /\ k + 1 \in 1..Len(buffers) /\ Heard + (k + 1) = next /\ next \in 1..Len(sends)
        /\ rest \in Nat \ {0}
    BY <1>3, <1>4, <1>6, <1>11
  <2>2. /\ Passed(k).half \in Joined /\ Passed(k).half.ids \cup {next} = {next}
        /\ before \in Nat /\ before = IF k + 1 = 1 THEN peer.half.size ELSE 0
    <3>1. Passed(k).half \in Joined /\ before \in Nat
      BY <1>9 DEF Joined
    <3>2. before = IF k + 1 = 1 THEN peer.half.size ELSE 0
      BY <1>3, <1>9, NothingIs
    <3>3. Passed(k).half.ids = {} \/ Passed(k).half.ids = {next}
      BY <1>3, <1>9, NothingIs DEF Wire, Heeded
    <3> QED BY <3>1, <3>2, <3>3
  <2>3. /\ gone # <<>> /\ Head(gone) = buffers[k + 1] /\ Head(gone) \in Queued
        /\ Tail(gone) \in Seq(Queued) /\ Len(Tail(gone)) = (Len(buffers) - k) - 1
        /\ \A i \in 1..((Len(buffers) - k) - 1) : Tail(gone)[i] = gone[i + 1]
    <3>1. gone # <<>> /\ Head(gone) = gone[1]
      BY <1>3, <1>7, <1>11, EmptySeq
    <3>2. gone[1] = buffers[k + 1]
      BY <1>3, <1>7, <1>11
    <3> QED BY <1>7, <3>1, <3>2, HeadTailProperties
  <2>4. /\ Head(gone).id = next /\ Head(gone).left = SizeOf(next) - before
        /\ Head(gone).left > rest /\ SizeOf(next) \in Nat
    BY <1>5, <1>11, <2>1, <2>2, <2>3, SizesArePositive DEF Wire, Lined, Queue, SizeOf
  <2>5. /\ Remainder(Head(gone), rest) \in Queued
        /\ Remainder(Head(gone), rest).id = next
        /\ Remainder(Head(gone), rest).left = SizeOf(next) - (before + rest)
    <3>1. Remainder(Head(gone), rest) = [id |-> Head(gone).id, left |-> Head(gone).left - rest]
      BY <2>3, RemainderIs
    <3>2. \A a, b, c \in Nat : a - b > c => /\ (a - b) - c = a - (b + c)
                                           /\ (a - b) - c \in Nat
      OBVIOUS
    <3>4. Head(gone).left - rest = SizeOf(next) - (before + rest) /\ Head(gone).left - rest \in Nat
      <4> HIDE DEF before, next
      <4>1. rest \in Nat /\ before \in Nat /\ SizeOf(next) \in Nat
        BY <2>1, <2>2, <2>4
      <4>2. Head(gone).left = SizeOf(next) - before /\ SizeOf(next) - before > rest
        BY <2>4
      <4> QED BY <3>2, <4>1, <4>2
    <3>3. next \in Nat
      BY <2>1, <1>3
    <3> QED BY <2>4, <3>1, <3>3, <3>4 DEF Queued
  <2>6. /\ remains \in Seq(Queued) /\ Len(remains) = 1
        /\ remains[1] = Remainder(Head(gone), rest)
    BY <2>5
  <2>7. peer' = [heard |-> Passed(k).heard, half |-> [ids |-> {next}, size |-> before + rest]]
    <3>1. peer' = [heard |-> Passed(k).heard,
                   half |-> [ids |-> Passed(k).half.ids \cup {next}, size |-> before + rest]]
      BY <1>5, <1>9, <1>11, <2>4, HearMore
    <3> QED BY <2>2, <3>1
  <2>8. /\ peer' \in [heard : Seq(Joined), half : Joined]
        /\ peer'.half.size = before + rest /\ peer'.half.ids = {next}
        /\ peer'.heard = Passed(k).heard /\ Heard' = Heard + k
        /\ before + rest \in 1..(SizeOf(next) - 1)
    <3>1. before + rest \in 1..(SizeOf(next) - 1) /\ before + rest \in Nat
      <4> HIDE DEF before, next
      <4>1. rest \in Nat \ {0} /\ before \in Nat /\ SizeOf(next) \in Nat
        BY <2>1, <2>2, <2>4
      <4>2. SizeOf(next) - before > rest
        BY <2>4
      <4> QED BY <4>1, <4>2
    <3>2. [ids |-> {next}, size |-> before + rest] \in Joined
      BY <1>3, <3>1 DEF Joined
    <3> QED BY <1>9, <2>7, <3>1, <3>2 DEF Heard
  <2> HIDE DEF remains, before
  <2>9. /\ buffers' \in Seq(Queued) /\ Len(buffers') = Len(buffers) - k
        /\ buffers'[1] = Remainder(Head(gone), rest)
        /\ \A i \in 1..(Len(buffers) - k) : i # 1 => buffers'[i] = gone[i]
    <3>1. buffers' = remains \o Tail(gone)
      BY <1>5, <1>11 DEF remains
    <3>6. remains \in Seq(Queued) /\ Tail(gone) \in Seq(Queued)
      BY <2>3, <2>6
    <3>2. /\ buffers' \in Seq(Queued) /\ Len(buffers') = Len(remains) + Len(Tail(gone))
          /\ \A i \in 1..(Len(remains) + Len(Tail(gone))) :
               buffers'[i] = IF i <= Len(remains) THEN remains[i] ELSE Tail(gone)[i - Len(remains)]
      BY <3>1, <3>6, ConcatProperties
    <3>4. Len(remains) + Len(Tail(gone)) = Len(buffers) - k /\ Len(remains) = 1
      BY <1>3, <2>3, <2>6
    <3>5. /\ \A i \in 1..(Len(buffers) - k) : i # 1 => ~(i <= 1)
          /\ 1 \in 1..(Len(buffers) - k)
      BY <1>3, <1>11
    <3>3. \A i \in 1..(Len(buffers) - k) : i # 1 => Tail(gone)[i - 1] = gone[i]
      <4>1. ASSUME NEW i \in 1..(Len(buffers) - k), i # 1
            PROVE  Tail(gone)[i - 1] = gone[i]
        <5>1. i - 1 \in 1..((Len(buffers) - k) - 1) /\ (i - 1) + 1 = i
          BY <1>3, <4>1
        <5> QED BY <2>3, <5>1
      <4> QED BY <4>1
    <3> QED BY <2>6, <3>2, <3>3, <3>4, <3>5
  <2>10. Wired'
    <3>1. free' \in 0..Room /\ room' \in 0..Room /\ room' <= free'
      BY <1>3, <1>5, <1>11
    <3> QED BY <1>3, <1>8, <2>8, <2>9, <3>1 DEF Wire, Wired, CreditIsBacked
  <2>11. Lined'
    <3>1. ASSUME NEW i \in 1..(Len(buffers) - k)
          PROVE  buffers'[i].id = (Heard + k) + i
      <4>1. k + i \in 1..Len(buffers) /\ Heard + (k + i) = (Heard + k) + i
        BY <1>3
      <4>2. gone[i].id = (Heard + k) + i
        BY <1>7, <4>1 DEF Wire, Lined
      <4> QED BY <2>5, <2>9, <4>2
    <3>2. (Heard + k) + (Len(buffers) - k) = Len(sends) /\ Len(sends) <= Len(sends)
      BY <1>3, <1>6
    <3> QED BY <1>3, <1>8, <2>8, <2>9, <3>1, <3>2 DEF Lined
  <2>12. Heeded'
    <3>1. \A id \in 1..(Heard + k) :
            peer'.heard[id] = [ids |-> {id}, size |-> Size(sends'[id].kind)]
      <4>1. \A id \in 1..(Heard + k) : id \in 1..Len(sends)
        BY <1>3, <1>6
      <4> QED BY <1>8, <1>9, <2>8, <4>1
    <3>2. next <= Len(sends') /\ Size(sends'[next].kind) = SizeOf(next)
      BY <1>3, <1>8, <2>1
    <3> QED BY <2>8, <3>1, <3>2 DEF Heeded, SizeOf
  <2>13. Queue'
    <3>1. ASSUME NEW i \in 1..(Len(buffers) - k)
          PROVE  buffers'[i].left = Size(sends'[(Heard + k) + i].kind)
                                      - (IF i = 1 THEN peer'.half.size ELSE 0)
      <4>1. /\ k + i \in 1..Len(buffers) /\ Heard + (k + i) = (Heard + k) + i
            /\ (Heard + k) + i \in 1..Len(sends)
        BY <1>3, <1>6
      <4>2. CASE i = 1
        BY <1>8, <2>5, <2>8, <2>9, <4>1, <4>2
      <4>3. CASE i # 1
        <5>2. k + i # 1
          BY <1>3, <4>3
        <5>1. gone[i].left = SizeOf((Heard + k) + i) - 0
          BY <1>7, <4>1, <5>2 DEF Wire, Queue
        <5> QED BY <1>8, <2>9, <4>1, <4>3, <5>1
      <4> QED BY <4>2, <4>3
    <3> QED BY <2>8, <2>9, <3>1 DEF Queue, SizeOf
  <2>14. Told'
    BY <1>3, <1>8, <2>8 DEF Told
  <2> QED BY <2>10, <2>11, <2>12, <2>13, <2>14 DEF Wire
<1> QED BY <1>10, <1>11

\* The client has more room, or nothing happens.
LEMMA DrainKeepsWire ==
  ASSUME Wire, Drain \/ Rests
  PROVE  Wire'
<1>1. /\ UNCHANGED <<state, room, buffers, peer, sends>>
      /\ free' = free \/ free' \in (free + 1)..Room
  BY DEF Drain, Rests
<1>2. Wired'
  BY <1>1, LinkAssumption DEF Wire, Wired, CreditIsBacked
<1>3. Lined' /\ Heeded' /\ Queue' /\ Told'
  BY <1>1 DEF Wire, Lined, Heeded, Queue, Told, Heard, SizeOf
<1> QED BY <1>2, <1>3 DEF Wire

\* The connection ends, and what is queued fails.
LEMMA EndKeepsWire ==
  ASSUME Wire, LinkEnds
  PROVE  Wire'
<1>1. /\ state # "closed" /\ state' = "closed" /\ buffers' = <<>> /\ UNCHANGED <<room, free, peer>>
      /\ sends' = [i \in DOMAIN sends |-> IF sends[i].done = "pending"
                                          THEN [sends[i] EXCEPT !.done = "failed"] ELSE sends[i]]
  BY DEF LinkEnds, Drained
<1>2. /\ Len(buffers) \in Nat /\ Heard \in Nat /\ Len(sends) \in Nat
      /\ Heard + Len(buffers) <= Len(sends)
      /\ DOMAIN sends = 1..Len(sends) /\ \A i \in 1..Len(sends) : sends[i] \in Sent
  BY LenProperties, ElementOfSeq DEF Wire, Wired, Lined, Heard
<1>3. ASSUME NEW i \in 1..Len(sends)
      PROVE  /\ sends'[i] \in Sent /\ sends'[i].kind = sends[i].kind
             /\ sends'[i].done = IF i <= Heard THEN "ok" ELSE "failed"
  <2>1. sends[i].done = IF i <= Heard THEN "ok" ELSE "pending"
    BY <1>1 DEF Wire, Told
  <2> QED BY <1>1, <1>2, <2>1 DEF Sent, Fates
<1>4. sends' = [i \in 1..Len(sends) |-> sends'[i]]
  BY <1>1, <1>2
<1>5. sends' \in Seq(Sent) /\ Len(sends') = Len(sends)
  BY <1>2, <1>3, <1>4
<1>6. Wired'
  BY <1>1, <1>5, EmptySeq DEF Wire, Wired, CreditIsBacked
<1>7. Lined' /\ Queue'
  BY <1>1, <1>2, <1>5, EmptySeq DEF Lined, Queue, Heard
<1>8. Heeded'
  <2>1. \A i \in 1..Len(sends) : Size(sends'[i].kind) = SizeOf(i)
    BY <1>3 DEF SizeOf
  <2>2. Heard + 1 <= Len(sends) => Size(sends'[Heard + 1].kind) = SizeOf(Heard + 1)
    BY <1>2, <2>1
  <2>3. \A id \in 1..Heard : peer.heard[id] = [ids |-> {id}, size |-> Size(sends'[id].kind)]
    <3>1. \A id \in 1..Heard : id \in 1..Len(sends)
      BY <1>2
    <3> QED BY <2>1, <3>1 DEF Wire, Heeded
  <2> QED BY <1>1, <1>5, <2>2, <2>3 DEF Wire, Heeded, SizeOf, Heard
<1>9. Told'
  BY <1>1, <1>3, <1>5 DEF Told, Heard
<1> QED BY <1>6, <1>7, <1>8, <1>9 DEF Wire

\* Together.
LEMMA WireStep == Wire /\ [LinkNext]_linkVars => Wire'
  BY StepOfTheWire, WriteKeepsWire, PassKeepsWire, DrainKeepsWire, EndKeepsWire

-----------------------------------------------------------------------------
(* The two functions: which messages they await, and how many frames.      *)

\* A message that is sent is the next.
LEMMA WriteSends ==
  ASSUME sends \in Seq(Sent), NEW kind \in Kinds, Write(kind)
  PROVE  /\ sends' \in Seq(Sent) /\ Len(sends') = Len(sends) + 1
         /\ \A i \in 1..Len(sends) : sends'[i] = sends[i]
         /\ sends'[Len(sends) + 1].kind = kind
<1> DEFINE e == [kind |-> kind, done |-> IF buffers = <<>> /\ Size(kind) <= room THEN "ok"
                                         ELSE "pending"]
<1>1. sends' = Append(sends, e)
  BY DEF Write
<1>2. e \in Sent /\ e.kind = kind
  BY DEF Sent, Fates
<1> HIDE DEF e
<1> QED BY <1>1, <1>2, AppendProperties

\* A callback that has run does not run again.
LEMMA PassSends ==
  ASSUME sends \in Seq(Sent), OnWritable \/ LinkEnds
  PROVE  /\ sends' \in Seq(Sent) /\ Len(sends') = Len(sends)
         /\ \A i \in 1..Len(sends) : /\ sends'[i].kind = sends[i].kind
                                     /\ sends'[i].done = "pending" => sends[i].done = "pending"
<1>1. DOMAIN sends = 1..Len(sends) /\ \A i \in 1..Len(sends) : sends[i] \in Sent
  BY LenProperties, ElementOfSeq
<1>2. CASE OnWritable
  <2>1. PICK k \in 0..Len(buffers) : \E offset \in Offsets(k) : PassOn(k, free - offset[k])
    BY <1>2 DEF OnWritable
  <2>2. sends' = [i \in DOMAIN sends |->
                    IF \E j \in 1..k : buffers[j].id = i THEN [sends[i] EXCEPT !.done = "ok"]
                    ELSE sends[i]]
    BY <2>1 DEF PassOn
  <2>3. ASSUME NEW i \in 1..Len(sends)
        PROVE  /\ sends'[i] \in Sent /\ sends'[i].kind = sends[i].kind
               /\ sends'[i].done = "pending" => sends[i].done = "pending"
    <3>1. sends'[i] = [sends[i] EXCEPT !.done = "ok"] \/ sends'[i] = sends[i]
      BY <1>1, <2>2
    <3> QED BY <1>1, <3>1 DEF Sent, Fates
  <2>4. sends' = [i \in 1..Len(sends) |-> sends'[i]]
    BY <1>1, <2>2
  <2> QED BY <2>3, <2>4, LenProperties
<1>3. CASE LinkEnds
  <2>1. sends' = [i \in DOMAIN sends |-> IF sends[i].done = "pending"
                                         THEN [sends[i] EXCEPT !.done = "failed"] ELSE sends[i]]
    BY <1>3 DEF LinkEnds
  <2>2. ASSUME NEW i \in 1..Len(sends)
        PROVE  /\ sends'[i] \in Sent /\ sends'[i].kind = sends[i].kind
               /\ sends'[i].done = "pending" => sends[i].done = "pending"
    <3>1. sends'[i] = [sends[i] EXCEPT !.done = "failed"] \/ sends'[i] = sends[i]
      BY <1>1, <2>1
    <3> QED BY <1>1, <3>1 DEF Sent, Fates
  <2>3. sends' = [i \in 1..Len(sends) |-> sends'[i]]
    BY <1>1, <2>1
  <2> QED BY <2>2, <2>3, LenProperties
<1> QED BY <1>2, <1>3

\* Which frames may be pending.
LEMMA LentAfter ==
  ASSUME sends \in Seq(Sent)
  PROVE  /\ UNCHANGED sends => Lent' = Lent
         /\ \A kind \in Kinds : Write(kind) =>
              Lent' \subseteq (IF kind = "frame" THEN Lent \cup {Len(sends) + 1} ELSE Lent)
         /\ OnWritable \/ LinkEnds => Lent' \subseteq Lent
<1>1. DOMAIN sends = 1..Len(sends) /\ Len(sends) \in Nat
  BY LenProperties
<1>2. UNCHANGED sends => Lent' = Lent
  BY DEF Lent
<1>3. ASSUME NEW kind \in Kinds, Write(kind), NEW i \in Lent', i \notin Lent
      PROVE  kind = "frame" /\ i = Len(sends) + 1
  <2>1. /\ i \in 1..(Len(sends) + 1) /\ sends'[i].kind = "frame" /\ sends'[i].done = "pending"
    BY <1>3, WriteSends, LenProperties DEF Lent
  <2>2. i \notin 1..Len(sends)
    BY <1>1, <1>3, <2>1, WriteSends DEF Lent
  <2>3. i = Len(sends) + 1
    BY <1>1, <2>1, <2>2
  <2> QED BY <1>3, <2>1, <2>3, WriteSends
<1>4. ASSUME OnWritable \/ LinkEnds, NEW i \in Lent'
      PROVE  i \in Lent
  <2>1. i \in 1..Len(sends) /\ sends'[i].kind = "frame" /\ sends'[i].done = "pending"
    BY <1>4, PassSends, LenProperties DEF Lent
  <2> QED BY <1>1, <1>4, <2>1, PassSends DEF Lent
<1> QED BY <1>2, <1>3, <1>4

\* A Boolean, which is the other prover's work.
LEMMA CurrentStep == current \in BOOLEAN /\ [LinkNext]_linkVars => current' \in BOOLEAN
<1> SUFFICES ASSUME current \in BOOLEAN, [LinkNext]_linkVars
             PROVE  current' \in BOOLEAN
  OBVIOUS
<1>1. ASSUME NEW kind, Answers(kind)
      PROVE  current' \in BOOLEAN
  BY <1>1, Zenon DEF Answers, ReaderEnds
<1>2. ASSUME Continues
      PROVE  current' \in BOOLEAN
  BY <1>2, Zenon DEF Continues, ReaderEnds
<1>3. CASE CamStep
  BY <1>3, Zenon DEF CamStep, StartFails, StartWorks, CamGoesOn, CamTimesOut, FrameEnds, SendFrame,
     CamKeeps, CamSends
<1>4. CASE ReaderStep
  BY <1>1, <1>2, <1>4, Zenon DEF ReaderStep, ReadCommand, ReadDone, AnswerSent, AnswerFails,
     ReaderEnds
<1>5. CASE OnWritable \/ Drain \/ LinkEnds \/ \E f \in {"more", "last"} : Arrive(f)
  BY <1>5, Zenon DEF OnWritable, Drain, LinkEnds, Arrive
<1>6. CASE RaceEnds \/ WifiDown \/ UNCHANGED linkVars
  BY <1>6, Zenon DEF RaceEnds, WifiDown, linkVars
<1> QED BY <1>3, <1>4, <1>5, <1>6 DEF LinkNext

\* Each function's step, as far as the invariant needs it.
LEMMA CamIs ==
  ASSUME CamStep
  PROVE  /\ UNCHANGED <<state, in, session, reader, readerId>>
         /\ \/ UNCHANGED <<sends, camId>> /\ cam' = "ended"
            \/ /\ UNCHANGED <<sends, camId>> /\ cam' = "timer"
               /\ cam \in {"report", "hello", "frame"} /\ Done(camId) # "pending"
            \/ \E kind \in {"report", "hello"} : cam = "start" /\ cam' = kind
                                                 /\ camId' = Len(sends) + 1 /\ Write(kind)
            \/ cam = "timer" /\ cam' = "frame" /\ camId' = Len(sends) + 1 /\ Write("frame")
<1> USE DEF out
<1>1. CASE StartFails
  BY <1>1 DEF StartFails, CamSends
<1>2. CASE StartWorks
  BY <1>2 DEF StartWorks, CamSends
<1>3. CASE CamGoesOn
  BY <1>3 DEF CamGoesOn, CamKeeps, Streams
<1>4. CASE CamTimesOut \/ FrameEnds
  BY <1>4 DEF CamTimesOut, FrameEnds, CamKeeps
<1>5. CASE SendFrame
  BY <1>5 DEF SendFrame, CamSends
<1> QED BY <1>1, <1>2, <1>3, <1>4, <1>5 DEF CamStep

LEMMA CloseIs ==
  ASSUME CloseSocket
  PROVE  /\ state' = "closed" <=> state = "closed"
         /\ UNCHANGED sends \/ Write("close")
  BY DEF CloseSocket, out

LEMMA ReaderIs ==
  ASSUME ReaderStep
  PROVE  /\ Dequeue \/ UNCHANGED in
         /\ state' = "closed" <=> state = "closed"
         /\ UNCHANGED <<session, capture, cam, camId>>
         /\ \/ \E kind \in {"ack", "nack"} :
                 reader' = kind /\ readerId' = Len(sends) + 1 /\ Write(kind)
            \/ /\ reader' \in {"read", "ended"} /\ UNCHANGED readerId
               /\ UNCHANGED sends \/ Write("close")
<1>1. ASSUME ReaderEnds
      PROVE  /\ state' = "closed" <=> state = "closed"
             /\ reader' = "ended" /\ UNCHANGED readerId
             /\ UNCHANGED sends \/ Write("close")
  BY <1>1, CloseIs DEF ReaderEnds
<1>2. ASSUME NEW kind \in {"ack", "nack"}, Answers(kind)
      PROVE  /\ state' = "closed" <=> state = "closed"
             /\ \/ reader' = kind /\ readerId' = Len(sends) + 1 /\ Write(kind)
                \/ /\ reader' = "ended" /\ UNCHANGED readerId
                   /\ UNCHANGED sends \/ Write("close")
  BY <1>1, <1>2 DEF Answers
<1>3. ASSUME Continues
      PROVE  /\ state' = "closed" <=> state = "closed"
             /\ reader' \in {"read", "ended"} /\ UNCHANGED readerId
             /\ UNCHANGED sends \/ Write("close")
  BY <1>1, <1>3 DEF Continues, out
<1>4. CASE ReadCommand
  BY <1>2, <1>3, <1>4 DEF ReadCommand, ReaderKeeps
<1>5. CASE ReadDone
  BY <1>1, <1>5 DEF ReadDone, ReaderKeeps
<1>6. CASE AnswerSent
  BY <1>3, <1>6 DEF AnswerSent, ReaderKeeps
<1>7. CASE AnswerFails
  BY <1>1, <1>2, <1>7 DEF AnswerFails, ReaderKeeps
<1> QED BY <1>4, <1>5, <1>6, <1>7 DEF ReaderStep

LEMMA RestIs ==
  ASSUME \/ OnWritable \/ Drain \/ LinkEnds \/ \E f \in {"more", "last"} : Arrive(f)
         \/ RaceEnds \/ WifiDown \/ UNCHANGED linkVars
  PROVE  /\ UNCHANGED <<cam, camId, reader, readerId>>
         /\ UNCHANGED in \/ \E f \in {"more", "last"} : Arrive(f)
         /\ state = "closed" => state' = "closed"
         /\ UNCHANGED capture /\ session' \in {session, "over"}
         /\ UNCHANGED sends \/ Write("close") \/ OnWritable \/ LinkEnds
<1> USE DEF tasks, out
<1>1. CASE OnWritable \/ Drain \/ LinkEnds
  BY <1>1 DEF OnWritable, Drain, LinkEnds
<1>2. CASE \E f \in {"more", "last"} : Arrive(f)
  BY <1>2 DEF Arrive
<1>3. CASE RaceEnds \/ WifiDown
  BY <1>3, CloseIs DEF RaceEnds, WifiDown
<1>4. CASE UNCHANGED linkVars
  BY <1>4 DEF linkVars
<1> QED BY <1>1, <1>2, <1>3, <1>4

LEMMA StepIs ==
  ASSUME [LinkNext]_linkVars
  PROVE  \/ CamStep \/ ReaderStep
         \/ OnWritable \/ Drain \/ LinkEnds \/ \E f \in {"more", "last"} : Arrive(f)
         \/ RaceEnds \/ WifiDown \/ UNCHANGED linkVars
  BY DEF LinkNext

\* A function awaits a message that it sent.
LEMMA IdsStep ==
  ASSUME sends \in Seq(Sent), camId \in 0..Len(sends), readerId \in 0..Len(sends),
         [LinkNext]_linkVars
  PROVE  camId' \in 0..Len(sends') /\ readerId' \in 0..Len(sends')
<1>1. Len(sends) \in Nat
  BY LenProperties
<1>2. ASSUME NEW kind \in Kinds, Write(kind)
      PROVE  Len(sends') = Len(sends) + 1
  BY <1>2, WriteSends
<1>3. CASE CamStep
  BY <1>1, <1>2, <1>3, CamIs DEF Kinds
<1>4. CASE ReaderStep
  BY <1>1, <1>2, <1>4, ReaderIs DEF Kinds
<1>5. CASE ~(CamStep \/ ReaderStep)
  <2>1. /\ UNCHANGED <<camId, readerId>>
        /\ UNCHANGED sends \/ Write("close") \/ OnWritable \/ LinkEnds
    BY <1>5, StepIs, RestIs
  <2> QED BY <1>1, <1>2, <2>1, PassSends DEF Kinds
<1> QED BY <1>3, <1>4, <1>5

\* Reading the message in the stream pulls the fragment behind it.
LEMMA StashedStep ==
  ASSUME Stashed, stash \in {"none", "more", "last"}, queue \in 0..MaxCommands,
         arrived \in 0..MaxCommands, [LinkNext]_linkVars
  PROVE  /\ Stashed' /\ stash' \in {"none", "more", "last"} /\ queue' \in 0..MaxCommands
         /\ arrived' \in 0..MaxCommands
<1>1. ASSUME NEW f \in {"more", "last"}, Arrive(f)
      PROVE  /\ Stashed' /\ stash' \in {"none", "more", "last"} /\ queue' \in 0..MaxCommands
             /\ arrived' \in 0..MaxCommands
  <2>1. arrived' \in 1..MaxCommands
    BY <1>1, LinkAssumption DEF Arrive
  <2>2. CASE Wants
    BY <1>1, <2>1, <2>2, LinkAssumption DEF Arrive, Take, Wants, Stashed, StashIsPulled
  <2>3. CASE ~Wants
    BY <1>1, <2>1, <2>3, LinkAssumption DEF Arrive, Wants, Stashed, StashIsPulled
  <2> QED BY <2>2, <2>3
<1>2. ASSUME Dequeue, state' = "closed" <=> state = "closed"
      PROVE  /\ Stashed' /\ stash' \in {"none", "more", "last"} /\ queue' \in 0..MaxCommands
             /\ arrived' \in 0..MaxCommands
  <2>1. queue = 1 /\ UNCHANGED arrived /\ arrived # 0 /\ 1 \in 0..MaxCommands
    BY <1>2, LinkAssumption DEF Dequeue, Stashed, StashIsPulled
  <2>2. CASE Pulls
    BY <1>2, <2>1, <2>2, LinkAssumption DEF Dequeue, Take, Pulls, Stashed, StashIsPulled
  <2>3. CASE ~Pulls
    BY <1>2, <2>1, <2>3, LinkAssumption DEF Dequeue, Pulls, Stashed, StashIsPulled
  <2> QED BY <2>2, <2>3
<1>3. ASSUME UNCHANGED in, state = "closed" => state' = "closed"
      PROVE  /\ Stashed' /\ stash' \in {"none", "more", "last"} /\ queue' \in 0..MaxCommands
             /\ arrived' \in 0..MaxCommands
  BY <1>3 DEF in, Stashed, StashIsPulled
<1>4. CASE CamStep
  BY <1>3, <1>4, CamIs
<1>5. CASE ReaderStep
  BY <1>2, <1>3, <1>5, ReaderIs
<1>6. CASE ~(CamStep \/ ReaderStep)
  BY <1>1, <1>3, <1>6, StepIs, RestIs
<1> QED BY <1>4, <1>5, <1>6

\* The task sends a frame when the one before it is settled.
LEMMA FlyingStep ==
  ASSUME Flying, sends \in Seq(Sent), camId \in 0..Len(sends), [LinkNext]_linkVars
  PROVE  Flying'
<1>1. ASSUME Lent' \subseteq Lent, UNCHANGED <<cam, camId>>
      PROVE  Flying'
  BY <1>1 DEF Flying
<1>2. CASE CamStep
  <2>1. CASE UNCHANGED <<sends, camId>> /\ cam' = "ended"
    BY <2>1, LentAfter DEF Flying
  <2>2. CASE UNCHANGED <<sends, camId>> /\ cam' = "timer" /\ Done(camId) # "pending"
    BY <2>2, LentAfter DEF Flying, Lent, Done
  <2>3. ASSUME NEW kind \in {"report", "hello"}, cam = "start", Write(kind)
        PROVE  Flying'
    BY <2>3, LentAfter DEF Flying, Kinds
  <2>4. CASE cam = "timer" /\ cam' = "frame" /\ camId' = Len(sends) + 1 /\ Write("frame")
    BY <2>4, LentAfter DEF Flying, Kinds
  <2> QED BY <1>2, <2>1, <2>2, <2>3, <2>4, CamIs
<1>3. CASE ReaderStep
  BY <1>1, <1>3, ReaderIs, LentAfter DEF Kinds
<1>4. CASE ~(CamStep \/ ReaderStep)
  BY <1>1, <1>4, StepIs, RestIs, LentAfter DEF Kinds
<1> QED BY <1>2, <1>3, <1>4

LEMMA PlacesStep ==
  ASSUME LinkValues, [LinkNext]_linkVars
  PROVE  /\ session' \in {"running", "over"} /\ capture' \in {"none", "idle", "on"}
         /\ cam' \in {"start", "report", "hello", "timer", "frame", "ended"}
         /\ reader' \in {"read", "ack", "nack", "ended"}
<1>1. CASE CamStep
  <2>1. capture' \in {"none", "idle", "on"}
    BY <1>1 DEF CamStep, StartFails, StartWorks, CamGoesOn, CamTimesOut, FrameEnds, SendFrame,
       CamKeeps, LinkValues
  <2> QED BY <1>1, <2>1, CamIs DEF LinkValues
<1>2. CASE ReaderStep
  BY <1>2, ReaderIs DEF LinkValues
<1>3. CASE ~(CamStep \/ ReaderStep)
  BY <1>3, StepIs, RestIs DEF LinkValues
<1> QED BY <1>1, <1>2, <1>3

LEMMA LinkInitIInv == LinkInit => LinkIInv
<1> SUFFICES ASSUME LinkInit
             PROVE  LinkIInv
  OBVIOUS
<1>1. Wired /\ Heard = 0 /\ Len(buffers) = 0 /\ Len(sends) = 0
  BY LinkAssumption, NothingIs, EmptySeq DEF LinkInit, Wired, CreditIsBacked, Heard
<1>2. Wire
  BY <1>1 DEF LinkInit, Wire, Lined, Heeded, Queue, Told
<1>3. Flying /\ Stashed
  BY DEF LinkInit, Flying, Lent, Stashed, StashIsPulled
<1>4. LinkValues
  BY <1>1, LinkAssumption DEF LinkInit, LinkValues
<1>5. current \in BOOLEAN
  BY Zenon DEF LinkInit
<1> QED BY <1>2, <1>3, <1>4, <1>5 DEF LinkIInv

LEMMA LinkInductiveStep == LinkIInv /\ [LinkNext]_linkVars => LinkIInv'
<1> SUFFICES ASSUME LinkIInv, [LinkNext]_linkVars
             PROVE  LinkIInv'
  OBVIOUS
<1>1. sends \in Seq(Sent)
  BY DEF LinkIInv, Wire, Wired
<1>2. Wire'
  BY WireStep DEF LinkIInv
<1>3. Flying'
  BY <1>1, FlyingStep DEF LinkIInv, LinkValues
<1>4. /\ Stashed' /\ stash' \in {"none", "more", "last"} /\ queue' \in 0..MaxCommands
      /\ arrived' \in 0..MaxCommands
  BY StashedStep DEF LinkIInv, LinkValues
<1>5. LinkValues'
  BY <1>1, <1>4, IdsStep, PlacesStep DEF LinkIInv, LinkValues
<1>6. current' \in BOOLEAN
  BY CurrentStep DEF LinkIInv
<1> QED BY <1>2, <1>3, <1>4, <1>5, <1>6 DEF LinkIInv

\* The invariant holds in every reachable state.
THEOREM LinkInvariance == LinkSpec => []LinkIInv
  BY LinkInitIInv, LinkInductiveStep, PTL DEF LinkSpec

\* The peer gets the messages of both functions in the order of send(), each
\* whole and none inside another.
THEOREM WireHolds == LinkSpec => []WireIsWhole
<1>1. LinkIInv => WireIsWhole
  <2> SUFFICES ASSUME Wire
               PROVE  WireIsWhole
    BY DEF LinkIInv
  <2>1. Heard \in Nat /\ \A kind : Size(kind) \in Nat \ {0}
    BY LenProperties, SizesArePositive DEF Wire, Wired, Heard
  <2> QED BY <2>1 DEF Wire, Heeded, WireIsWhole, Heard, SizeOf
<1> QED BY <1>1, LinkInvariance, PTL

LEMMA LinkIsTyped == LinkIInv => LinkTypeOK
<1> SUFFICES ASSUME LinkIInv
             PROVE  LinkTypeOK
  OBVIOUS
<1>1. ASSUME NEW i \in DOMAIN buffers
      PROVE  /\ buffers[i].id \in DOMAIN sends
             /\ buffers[i].left \in 1..Size(sends[buffers[i].id].kind)
  <2>1. /\ i \in 1..Len(buffers) /\ Len(buffers) \in Nat /\ Len(sends) \in Nat /\ Heard \in Nat
        /\ DOMAIN sends = 1..Len(sends) /\ peer.half.size \in Nat
    BY <1>1, LenProperties DEF LinkIInv, Wire, Wired, Heard, Joined
  <2>2. buffers[i].id = Heard + i /\ Heard + i \in 1..Len(sends)
    <3>1. /\ buffers[i].id = Heard + i
          /\ state # "closed" => Heard + Len(buffers) = Len(sends)
          /\ state = "closed" => Len(buffers) = 0
      BY <2>1 DEF LinkIInv, Wire, Lined
    <3>2. Len(buffers) # 0
      BY <2>1
    <3>3. Heard + Len(buffers) = Len(sends)
      BY <3>1, <3>2
    <3>4. Heard + i \in 1..(Heard + Len(buffers))
      BY <2>1
    <3> QED BY <3>1, <3>3, <3>4
  <2>3. SizeOf(Heard + i) \in Nat \ {0}
    BY SizesArePositive DEF SizeOf
  <2>4. i = 1 => peer.half.size \in 0..(SizeOf(Heard + i) - 1)
    BY <2>1, <2>3, NothingIs DEF LinkIInv, Wire, Heeded
  <2>5. buffers[i].left = SizeOf(Heard + i) - (IF i = 1 THEN peer.half.size ELSE 0)
    BY <2>1 DEF LinkIInv, Wire, Queue
  <2>6. buffers[i].left \in 1..SizeOf(Heard + i)
    BY <2>3, <2>4, <2>5
  <2> QED BY <2>1, <2>2, <2>6 DEF SizeOf
<1>2. current \in BOOLEAN
  BY DEF LinkIInv
<1>3. /\ state \in {"open", "closing", "closed"} /\ free \in 0..Room /\ room \in 0..Room
      /\ sends \in Seq([kind : {"report", "hello", "frame", "ack", "nack", "close"},
                        done : {"pending", "ok", "failed"}])
  BY DEF LinkIInv, Wire, Wired, Sent, Kinds, Fates
<1>4. LinkValues
  BY DEF LinkIInv
<1> QED BY <1>1, <1>2, <1>3, <1>4 DEF LinkTypeOK, LinkValues

LEMMA AccountsHold == LinkIInv => SendsAreAccounted
<1> SUFFICES ASSUME LinkIInv, NEW id \in DOMAIN sends
             PROVE
    LET given == IF id \in peer.half.ids THEN peer.half.size ELSE 0
        queued == {buffers[i] : i \in {j \in DOMAIN buffers : buffers[j].id = id}}
    IN CASE sends[id].done = "ok" -> queued = {} /\ id \in DOMAIN peer.heard
         [] sends[id].done = "failed" ->
              queued = {} /\ id \notin DOMAIN peer.heard /\ state = "closed"
         [] OTHER -> queued = {[id |-> id, left |-> Size(sends[id].kind) - given]}
  BY DEF SendsAreAccounted
<1> DEFINE given == IF id \in peer.half.ids THEN peer.half.size ELSE 0
           queued == {buffers[i] : i \in {j \in DOMAIN buffers : buffers[j].id = id}}
<1>1. /\ Len(buffers) \in Nat /\ Len(sends) \in Nat /\ Heard \in Nat /\ id \in 1..Len(sends)
      /\ DOMAIN buffers = 1..Len(buffers) /\ DOMAIN peer.heard = 1..Heard
      /\ \A i \in 1..Len(buffers) : buffers[i] \in Queued
  BY LenProperties, ElementOfSeq DEF LinkIInv, Wire, Wired, Heard
<1>2. /\ \A i \in 1..Len(buffers) : buffers[i].id = Heard + i
      /\ sends[id].done = IF id <= Heard THEN "ok"
                          ELSE IF state = "closed" THEN "failed" ELSE "pending"
      /\ state = "closed" => Len(buffers) = 0
      /\ state # "closed" => Heard + Len(buffers) = Len(sends)
  BY <1>1 DEF LinkIInv, Wire, Lined, Told
<1>3. CASE id <= Heard
  <2>1. queued = {}
    BY <1>1, <1>2, <1>3
  <2> QED BY <1>1, <1>2, <1>3, <2>1
<1>4. CASE id > Heard /\ state = "closed"
  <2>1. queued = {}
    BY <1>1, <1>2, <1>4
  <2> QED BY <1>1, <1>2, <1>4, <2>1
<1>5. CASE id > Heard /\ state # "closed"
  <2>1. PICK n \in 1..Len(buffers) : id = Heard + n
    <3>1. id - Heard \in 1..Len(buffers) /\ id = Heard + (id - Heard)
      BY <1>1, <1>2, <1>5
    <3> QED BY <3>1
  <2>2. given = IF n = 1 THEN peer.half.size ELSE 0
    BY <1>1, <2>1, NothingIs DEF LinkIInv, Wire, Heeded
  <2>3. buffers[n].id = id /\ buffers[n].left = SizeOf(id) - given
    BY <1>2, <2>1, <2>2 DEF LinkIInv, Wire, Queue
  <2>4. buffers[n] = [id |-> id, left |-> Size(sends[id].kind) - given]
    BY <1>1, <2>3 DEF Queued, SizeOf
  <2>5. \A i \in 1..Len(buffers) : buffers[i].id = id <=> i = n
    BY <1>1, <1>2, <2>1
  <2>6. queued = {buffers[n]}
    BY <1>1, <2>5
  <2> QED BY <1>1, <1>2, <1>5, <2>4, <2>6
<1>6. id <= Heard \/ id > Heard
  BY <1>1
<1> QED BY <1>3, <1>4, <1>5, <1>6

\* Both directions: no send() is lost or told twice, the client is never given more
\* than it has room for, one frame is in flight, and a fragment that was left with
\* the client is read.
THEOREM LinkHolds == LinkSpec => []LinkIsTrue
<1>1. ASSUME LinkIInv
      PROVE  OneFrame
  <2>1. IsFiniteSet({camId}) /\ Cardinality({camId}) = 1
    BY FS_Singleton
  <2>2. Lent \subseteq {camId}
    BY <1>1 DEF LinkIInv, Flying
  <2> QED BY <2>1, <2>2, FS_Subset DEF OneFrame
<1>2. LinkIInv => StashIsPulled /\ CreditIsBacked
  BY DEF LinkIInv, Stashed, Wire, Wired
<1>3. LinkIInv => LinkIsTrue
  BY <1>1, <1>2, LinkIsTyped, AccountsHold DEF LinkIsTrue
<1> QED BY <1>3, LinkInvariance, PTL

\* However many messages are queued and whatever their sizes, onWritable's loop has
\* an end: it runs whenever the client has more room than it has granted.
THEOREM LoopHasAnEnd ==
  ASSUME LinkIInv
  PROVE  \E k \in {n \in 0..Len(buffers) : n <= free} :
           \E offset \in Offsets(k) : Stops(k, free - offset[k])
<1> DEFINE ends == {k \in 0..Len(buffers) : k <= free /\ \E offset \in Offsets(k) : offset[k] >= k}
<1>1. /\ Len(buffers) \in Nat /\ free \in Nat
      /\ \A i \in 1..Len(buffers) : buffers[i].left \in Nat \ {0}
  BY LinkIsTyped, LinkAssumption, LenProperties DEF LinkTypeOK, LinkIInv, Wire, Wired
<1>2. 0 \in ends
  <2>1. [i \in 0..0 |-> 0] \in Offsets(0)
    BY <1>1 DEF Offsets
  <2> QED BY <1>1, <2>1
<1>3. PICK k \in ends : \A n \in ends : n <= k
  <2> DEFINE after == {k + 1 : k \in ends}
  <2>1. after \subseteq 1..(Len(buffers) + 1) /\ after # {} /\ Len(buffers) + 1 \in Nat
    BY <1>1, <1>2
  <2>2. Max(after) \in after /\ \A i \in after : i <= Max(after)
    BY <2>1, MaxIs
  <2>3. PICK k \in ends : Max(after) = k + 1
    BY <2>2
  <2>4. ASSUME NEW n \in ends
        PROVE  n <= k
    <3>1. n + 1 <= k + 1
      BY <2>2, <2>3
    <3> QED BY <1>1, <3>1
  <2> QED BY <2>4
<1>4. PICK offset \in Offsets(k) : offset[k] >= k
  BY <1>3
<1>5. k \in 0..Len(buffers) /\ k <= free /\ offset[k] \in 0..free
  BY <1>1, <1>3, <1>4 DEF Offsets
<1>6. ASSUME k < Len(buffers), buffers[k + 1].left <= free - offset[k]
      PROVE  FALSE
  <2> DEFINE farther == [i \in 0..(k + 1) |-> IF i = k + 1 THEN offset[k] + buffers[k + 1].left
                                              ELSE offset[i]]
  <2>1. buffers[k + 1].left \in Nat \ {0} /\ k + 1 \in Nat
    BY <1>1, <1>5, <1>6
  <2>2. offset[k] + buffers[k + 1].left \in 0..free /\ offset[k] + buffers[k + 1].left >= k + 1
    <3>1. \A x, y, z, w \in Nat : x <= w /\ z <= w - x /\ z # 0 /\ x >= y
                                   => x + z \in 0..w /\ x + z >= y + 1
      OBVIOUS
    <3>2. /\ k \in Nat /\ free \in Nat /\ offset[k] \in Nat /\ offset[k] <= free
          /\ buffers[k + 1].left \in Nat /\ buffers[k + 1].left # 0
      BY <1>1, <1>5, <2>1
    <3> QED BY <1>4, <1>6, <3>1, <3>2
  <2>3. /\ offset \in [0..k -> 0..free] /\ offset[0] = 0
        /\ \A i \in 1..k : offset[i] = offset[i - 1] + buffers[i].left
    BY <1>4 DEF Offsets
  <2>4. farther \in [0..(k + 1) -> 0..free]
    BY <1>5, <2>2, <2>3
  <2>5. farther[0] = 0 /\ farther[k + 1] >= k + 1
    BY <1>5, <2>1, <2>2, <2>3
  <2>6. ASSUME NEW i \in 1..(k + 1)
        PROVE  farther[i] = farther[i - 1] + buffers[i].left
    <3>1. i - 1 \in 0..k /\ i - 1 # k + 1
      BY <1>5
    <3>2. farther[i - 1] = offset[i - 1]
      BY <1>5, <3>1
    <3>3. CASE i = k + 1
      <4>1. i - 1 = k
        BY <1>5, <3>3
      <4> QED BY <3>2, <3>3, <4>1
    <3>4. CASE i # k + 1
      BY <1>5, <2>3, <3>2, <3>4
    <3> QED BY <3>3, <3>4
  <2>7. farther \in Offsets(k + 1)
    BY <2>4, <2>5, <2>6 DEF Offsets
  <2>8. k + 1 \in ends
    BY <1>1, <1>5, <1>6, <2>2, <2>5, <2>7
  <2> QED BY <1>3, <1>5, <2>8
<1>7. Stops(k, free - offset[k])
  <2>1. k < Len(buffers) => buffers[k + 1].left \in Nat
    BY <1>1, <1>5
  <2> QED BY <1>1, <1>5, <1>6, <2>1 DEF Stops
<1> QED BY <1>4, <1>5, <1>7
=============================================================================
