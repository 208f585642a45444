------------------------ MODULE TailnetManager_proofs ------------------------
(***************************************************************************)
(* The manager's record, its MicroLink and its transports, for a command   *)
(* queue of every size and any number of starts, rebinds and rotations.    *)
(***************************************************************************)
EXTENDS TailnetManager, SequenceTheorems, TLAPS

\* Where what is published is what is live, where neither is left, and where a
\* MicroLink is about to be destroyed that nobody is shown any more.
Owned ==
  /\ live \in 0..1
  /\ at \in {"loop", "rotClose", "rotWait", "rotUnpublish", "launch", "rotDone", "stopClose",
             "stopWait", "stopUnpublish"} => (live = 1 <=> published)
  /\ at \in {"rotDestroy", "drop"} => ~published /\ live = 1
  /\ at = "stopDestroy" => ~published
  /\ at \in {"rotClose", "rotWait", "rotUnpublish", "launch"} => published
  /\ at \in {"create", "rotateKey", "fail"} \cup (Shutdown \ {"stopClose", "stopWait",
             "stopUnpublish", "stopDestroy"}) => ~published /\ live = 0

Starts(q) == {i \in DOMAIN q : q[i] = "START"}

\* Before the start there is no MicroLink, and the task only waits.
Unstarted == ~startRequested => /\ ~published /\ live = 0
                                /\ at \in {"loop"} \cup Shutdown

\* A manager is started once: while the command waits there is no MicroLink and
\* nothing creates one, and there is no second such command behind it.
StartedOnce ==
  /\ Starts(commands) # {} => /\ startRequested /\ ~published /\ live = 0
                             /\ at \in {"loop"} \cup Shutdown
  /\ \A i, j \in Starts(commands) : i = j
  /\ Unstarted

\* The flags tell how far a shutdown has come, and only a record whose task has
\* announced its end is freed.
Ending ==
  /\ at \in Shutdown => stopRequested
  /\ taskRunning <=> at \notin {"closed", "unlist", "last", "gone"}
  /\ closedFlag <=> at \in {"unlist", "last", "gone"}
  /\ ~listed <=> at \in {"last", "gone"}
  /\ ~allocated => at \in {"closed", "unlist", "last", "gone"}

\* A copy of the pointer belongs to a transport, and the MicroLink goes down
\* after all of them.
Outlived ==
  /\ \A k \in Kinds : pointer[k] # "none" => slot[k]
  /\ at \in Shutdown \ {"stopClose", "stopWait"} => Quiet

\* A rotation is on until its end has left a MicroLink or an error.
Rotating ==
  /\ at \in Rotation \cup {"rotDone"} => restarting
  /\ at \in {"loop"} \cup Shutdown => ~restarting

IInv == TypeOK /\ Owned /\ StartedOnce /\ Ending /\ Outlived /\ Rotating

-----------------------------------------------------------------------------
(* The command queue *)

Commands == {"START", "REBIND", "WAKE"}

\* A command added is the last, and one taken was the first.
LEMMA Queued ==
  ASSUME NEW q \in Seq(Commands), Len(q) < QueueSize, NEW c \in Commands
  PROVE  /\ Append(q, c) \in Seq(Commands) /\ Len(Append(q, c)) <= QueueSize
         /\ c # "START" => Starts(Append(q, c)) = Starts(q)
         /\ c = "START" => Starts(Append(q, c)) = Starts(q) \cup {Len(q) + 1}
  BY QueueAssumption DEF Starts

LEMMA Dequeued ==
  ASSUME NEW q \in Seq(Commands), q # <<>>
  PROVE  /\ Tail(q) \in Seq(Commands) /\ Len(Tail(q)) = Len(q) - 1
         /\ Head(q) \in Commands
         /\ \A i \in Starts(Tail(q)) : i \in Nat /\ i >= 1 /\ i + 1 \in Starts(q)
         /\ Head(q) = "START" => 1 \in Starts(q)
  BY DEF Starts

-----------------------------------------------------------------------------
(* Types, in two halves: Booleans and data are different provers' work. *)

Booleans ==
  /\ published \in BOOLEAN /\ restarting \in BOOLEAN
  /\ startRequested \in BOOLEAN /\ stopRequested \in BOOLEAN /\ taskRunning \in BOOLEAN
  /\ closedFlag \in BOOLEAN /\ abandoned \in BOOLEAN /\ listed \in BOOLEAN
  /\ allocated \in BOOLEAN /\ hostData \in BOOLEAN /\ reachable \in BOOLEAN
  /\ slot \in [Kinds -> BOOLEAN] /\ closing \in [Kinds -> BOOLEAN]

Values ==
  /\ at \in {"loop"} \cup Rotation \cup Creation \cup Shutdown
  /\ commands \in Seq(Commands) /\ Len(commands) <= QueueSize
  /\ live \in Nat
  /\ mlState \in {"idle", "connecting", "connected", "expired"}
  /\ lastError \in {0, 1, 3, 4} /\ rotations \in 0..1
  /\ pointer \in [Kinds -> {"none", "null", "live", "dangling"}]
  /\ looked \in {"none", "live", "dangling"}
  /\ js \in {"idle", "rebind", "send", "collect", "look", "construct"} /\ jsKind \in Kinds

LEMMA Halves == TypeOK <=> Booleans /\ Values
  BY DEF TypeOK, Booleans, Values, Commands

LEMMA Cleared == ASSUME NEW f \in [Kinds -> BOOLEAN], NEW k \in Kinds
                 PROVE  [f EXCEPT ![k] = FALSE] \in [Kinds -> BOOLEAN]
  OBVIOUS

LEMMA BooleansStep == ASSUME Booleans, Values, [Next]_vars PROVE Booleans'
<1> USE DEF Booleans, task, micro, requests, life, transports, jsVars
<1>1. CASE Poll
  BY <1>1 DEF Poll, Restarts
<1>2. CASE Receive
  BY <1>2 DEF Receive
<1>3. CASE Stop
  BY <1>3 DEF Stop
<1>4. CASE RequestClose
  BY <1>4 DEF RequestClose, Asked
<1>5. CASE AwaitTransports
  BY <1>5 DEF AwaitTransports, Quiet
<1>6. CASE Unpublish
  BY <1>6 DEF Unpublish, Unpublishes
<1>7. CASE Destroy
  BY <1>7 DEF Destroy, Dangle, Dangling
<1>8. CASE RotateKey
  BY <1>8 DEF RotateKey
<1>9. CASE Create
  BY <1>9 DEF Create
<1>10. CASE Launch
  BY <1>10 DEF Launch
<1>11. CASE Drop
  BY <1>11 DEF Drop, Dangle, Dangling
<1>12. CASE Fail
  BY <1>12 DEF Fail, AfterFailure
<1>13. CASE RotDone
  BY <1>13 DEF RotDone
<1>14. CASE Down
  BY <1>14 DEF Down
<1>15. CASE MarkClosed
  BY <1>15 DEF MarkClosed
<1>16. CASE Unlist
  BY <1>16 DEF Unlist
<1>17. CASE Exit
  BY <1>17 DEF Exit
<1>18. CASE MicroLinkMoves
  BY <1>18 DEF MicroLinkMoves
<1>19. CASE TransportStep
  <2>1. PICK k \in Kinds : TransportStarts(k) \/ TransportEnds(k) \/ TransportFails(k)
    BY <1>19 DEF TransportStep
  <2>2. UNCHANGED <<published, restarting, requests, life, hostData, reachable>>
    BY <2>1 DEF TransportStarts, TransportEnds, TransportFails, Vacate
  <2>3. slot' \in [Kinds -> BOOLEAN]
    <3>1. slot' = slot \/ slot' = [slot EXCEPT ![k] = FALSE]
      BY <2>1 DEF TransportStarts, TransportEnds, TransportFails, Vacate
    <3>2. QED
      BY <3>1, Cleared, Zenon
  <2>4. closing' \in [Kinds -> BOOLEAN]
    <3>1. closing' = closing \/ closing' = [closing EXCEPT ![k] = FALSE]
      BY <2>1 DEF TransportStarts, TransportEnds, TransportFails, Vacate
    <3>2. QED
      BY <3>1, Cleared, Zenon
  <2>5. QED
    BY <2>2, <2>3, <2>4, Zenon
<1>20. CASE Start
  BY <1>20 DEF Start, Valid, MayStart, HasRoom
<1>21. CASE Rebind
  BY <1>21 DEF Rebind, Valid
<1>22. CASE ForgetError
  BY <1>22 DEF ForgetError
<1>23. CASE SendRebind
  BY <1>23 DEF SendRebind, HasRoom
<1>24. CASE Close
  BY <1>24 DEF Close, Valid, HasRoom
<1>25. CASE Release
  BY <1>25 DEF Release, MayRelease
<1>26. CASE Forget
  BY <1>26 DEF Forget
<1>27. CASE Collect
  BY <1>27 DEF Collect, Abandons
<1>28. CASE CollectFrees
  BY <1>28 DEF CollectFrees, MayFree
<1>29. CASE CollectWakes
  BY <1>29 DEF CollectWakes, HasRoom
<1>30. CASE \E k \in Kinds : Construct(k)
  BY <1>30 DEF Construct, Valid
<1>31. CASE \E k \in Kinds : CloseTransport(k)
  BY <1>31 DEF CloseTransport
<1>32. CASE LookUp
  BY <1>32 DEF LookUp
<1>33. CASE TakeSlot
  <2>1. PICK k \in Kinds : slot' \in {slot, [slot EXCEPT ![k] = TRUE]}
    BY <1>33 DEF TakeSlot, SlotFree, Values
  <2>2. slot' \in [Kinds -> BOOLEAN]
    BY <2>1
  <2>3. QED
    BY <2>2, <1>33, Zenon DEF TakeSlot
<1>34. CASE UNCHANGED vars
  BY <1>34 DEF vars
<1>35. QED
  BY <1>1, <1>2, <1>3, <1>4, <1>5, <1>6, <1>7, <1>8, <1>9, <1>10, <1>11, <1>12, <1>13, <1>14,
     <1>15, <1>16, <1>17, <1>18, <1>19, <1>20, <1>21, <1>22, <1>23, <1>24, <1>25, <1>26, <1>27,
     <1>28, <1>29, <1>30, <1>31, <1>32, <1>33, <1>34 DEF Next, TaskStep, JsStep, Continue

LEMMA ValuesStep == ASSUME Values, Owned, [Next]_vars PROVE Values'
<1> USE QueueAssumption DEF Values, Owned, Rotation, Creation, Shutdown, task, micro,
        requests, life, transports, jsVars
<1>1. CASE Poll
  BY <1>1 DEF Poll, Restarts
<1>2. CASE Receive
  BY Dequeued, <1>2 DEF Receive
<1>3. CASE Stop
  BY Dequeued, <1>3 DEF Stop
<1>4. CASE RequestClose
  BY <1>4 DEF RequestClose, Asked
<1>5. CASE AwaitTransports
  BY <1>5 DEF AwaitTransports, Quiet
<1>6. CASE Unpublish
  BY <1>6 DEF Unpublish, Unpublishes
<1>7. CASE Destroy
  BY <1>7 DEF Destroy, Dangle, Dangling
<1>8. CASE RotateKey
  BY <1>8 DEF RotateKey
<1>9. CASE Create
  BY <1>9 DEF Create
<1>10. CASE Launch
  BY <1>10 DEF Launch
<1>11. CASE Drop
  BY <1>11 DEF Drop, Dangle, Dangling
<1>12. CASE Fail
  BY <1>12 DEF Fail, AfterFailure
<1>13. CASE RotDone
  BY <1>13 DEF RotDone
<1>14. CASE Down
  BY <1>14 DEF Down
<1>15. CASE MarkClosed
  BY <1>15 DEF MarkClosed
<1>16. CASE Unlist
  BY <1>16 DEF Unlist
<1>17. CASE Exit
  BY <1>17 DEF Exit
<1>18. CASE MicroLinkMoves
  BY <1>18 DEF MicroLinkMoves
<1>19. CASE TransportStep
  BY <1>19 DEF TransportStep, TransportStarts, TransportEnds, TransportFails, Vacate
<1>20. CASE Start
  <2>1. HasRoom => /\ Append(commands, "START") \in Seq(Commands)
                  /\ Len(Append(commands, "START")) <= QueueSize
    BY Queued DEF HasRoom, Commands
  <2>2. QED
    BY <2>1, <1>20 DEF Start
<1>21. CASE Rebind
  BY <1>21 DEF Rebind, Valid
<1>22. CASE ForgetError
  BY <1>22 DEF ForgetError
<1>23. CASE SendRebind
  <2>1. HasRoom => /\ Append(commands, "REBIND") \in Seq(Commands)
                  /\ Len(Append(commands, "REBIND")) <= QueueSize
    BY Queued DEF HasRoom, Commands
  <2>2. QED
    BY <2>1, <1>23 DEF SendRebind
<1>24. CASE Close
  <2>1. HasRoom => /\ Append(commands, "WAKE") \in Seq(Commands)
                  /\ Len(Append(commands, "WAKE")) <= QueueSize
    BY Queued DEF HasRoom, Commands
  <2>2. QED
    BY <2>1, <1>24 DEF Close
<1>25. CASE Release
  BY <1>25 DEF Release, MayRelease
<1>26. CASE Forget
  BY <1>26 DEF Forget
<1>27. CASE Collect
  BY <1>27 DEF Collect, Abandons
<1>28. CASE CollectFrees
  BY <1>28 DEF CollectFrees, MayFree
<1>29. CASE CollectWakes
  <2>1. HasRoom => /\ Append(commands, "WAKE") \in Seq(Commands)
                  /\ Len(Append(commands, "WAKE")) <= QueueSize
    BY Queued DEF HasRoom, Commands
  <2>2. QED
    BY <2>1, <1>29 DEF CollectWakes
<1>30. CASE \E k \in Kinds : Construct(k)
  BY <1>30 DEF Construct, Valid
<1>31. CASE \E k \in Kinds : CloseTransport(k)
  BY <1>31 DEF CloseTransport
<1>32. CASE LookUp
  BY <1>32 DEF LookUp
<1>33. CASE TakeSlot
  BY <1>33 DEF TakeSlot, SlotFree
<1>34. CASE UNCHANGED vars
  BY <1>34 DEF vars
<1>35. QED
  BY <1>1, <1>2, <1>3, <1>4, <1>5, <1>6, <1>7, <1>8, <1>9, <1>10, <1>11, <1>12, <1>13, <1>14,
     <1>15, <1>16, <1>17, <1>18, <1>19, <1>20, <1>21, <1>22, <1>23, <1>24, <1>25, <1>26, <1>27,
     <1>28, <1>29, <1>30, <1>31, <1>32, <1>33, <1>34 DEF Next, TaskStep, JsStep, Continue

\* A MicroLink is created where there is none, and destroyed where it is not published.
LEMMA OwnedStep == ASSUME IInv, [Next]_vars PROVE Owned'
<1> USE DEF IInv, Owned, StartedOnce, Unstarted, TypeOK, Rotation, Creation,
        Shutdown, task, micro, requests, life, transports, jsVars
<1>1. CASE Poll
  BY <1>1 DEF Poll, Rotating
<1>2. CASE Receive
  <2>1. Head(commands) = "START" => Starts(commands) # {}
    BY Dequeued, <1>2 DEF Receive, Commands
  <2>2. QED
    BY <2>1, <1>2 DEF Receive
<1>3. CASE Stop
  BY <1>3 DEF Stop
<1>4. CASE RequestClose
  BY <1>4 DEF RequestClose, Asked
<1>5. CASE AwaitTransports
  BY <1>5 DEF AwaitTransports, Quiet
<1>6. CASE Unpublish
  BY <1>6 DEF Unpublish, Unpublishes
<1>7. CASE Destroy
  BY <1>7 DEF Destroy, Dangle, Dangling
<1>8. CASE RotateKey
  BY <1>8 DEF RotateKey
<1>9. CASE Create
  BY <1>9 DEF Create
<1>10. CASE Launch
  BY <1>10 DEF Launch
<1>11. CASE Drop
  BY <1>11 DEF Drop, Dangle, Dangling
<1>12. CASE Fail
  BY <1>12 DEF Fail, AfterFailure
<1>13. CASE RotDone
  BY <1>13 DEF RotDone
<1>14. CASE Down
  BY <1>14 DEF Down
<1>15. CASE MarkClosed
  BY <1>15 DEF MarkClosed
<1>16. CASE Unlist
  BY <1>16 DEF Unlist
<1>17. CASE Exit
  BY <1>17 DEF Exit
<1>18. CASE MicroLinkMoves
  BY <1>18 DEF MicroLinkMoves
<1>19. CASE TransportStep
  BY <1>19 DEF TransportStep, TransportStarts, TransportEnds, TransportFails, Vacate
<1>20. CASE Start
  BY <1>20 DEF Start, Valid, MayStart, HasRoom
<1>21. CASE Rebind
  BY <1>21 DEF Rebind, Valid
<1>22. CASE ForgetError
  BY <1>22 DEF ForgetError
<1>23. CASE SendRebind
  BY <1>23 DEF SendRebind, HasRoom
<1>24. CASE Close
  BY <1>24 DEF Close, Valid, HasRoom
<1>25. CASE Release
  BY <1>25 DEF Release, MayRelease
<1>26. CASE Forget
  BY <1>26 DEF Forget
<1>27. CASE Collect
  BY <1>27 DEF Collect, Abandons
<1>28. CASE CollectFrees
  BY <1>28 DEF CollectFrees, MayFree
<1>29. CASE CollectWakes
  BY <1>29 DEF CollectWakes, HasRoom
<1>30. CASE \E k \in Kinds : Construct(k)
  BY <1>30 DEF Construct, Valid
<1>31. CASE \E k \in Kinds : CloseTransport(k)
  BY <1>31 DEF CloseTransport
<1>32. CASE LookUp
  BY <1>32 DEF LookUp
<1>33. CASE TakeSlot
  BY <1>33 DEF TakeSlot, SlotFree
<1>34. CASE UNCHANGED vars
  BY <1>34 DEF vars
<1>35. QED
  BY <1>1, <1>2, <1>3, <1>4, <1>5, <1>6, <1>7, <1>8, <1>9, <1>10, <1>11, <1>12, <1>13, <1>14,
     <1>15, <1>16, <1>17, <1>18, <1>19, <1>20, <1>21, <1>22, <1>23, <1>24, <1>25, <1>26, <1>27,
     <1>28, <1>29, <1>30, <1>31, <1>32, <1>33, <1>34 DEF Next, TaskStep, JsStep, Continue

\* Taking the start from the queue leaves none behind; adding it finds none there.
LEMMA StartedStep == ASSUME IInv, [Next]_vars PROVE StartedOnce'
<1>0. commands \in Seq(Commands)
  BY DEF IInv, TypeOK, Commands
<1> USE DEF IInv, Owned, StartedOnce, Unstarted, TypeOK, Rotation, Creation,
        Shutdown, task, micro, requests, life, transports, jsVars
<1>1. CASE Poll
  BY <1>1 DEF Poll, Restarts
<1>2. CASE Receive
  <2>1. \A i \in Starts(commands') : i \in Nat /\ i >= 1 /\ i + 1 \in Starts(commands)
    BY Dequeued, <1>0, <1>2 DEF Receive
  <2>2. Head(commands) = "START" => 1 \in Starts(commands)
    BY Dequeued, <1>0, <1>2 DEF Receive
  <2>3. Head(commands) = "START" => Starts(commands') = {}
    BY <2>1, <2>2
  <2>4. QED
    BY <2>1, <2>2, <2>3, <1>2 DEF Receive
<1>3. CASE Stop
  <2>1. \/ commands' = commands
        \/ \A i \in Starts(commands') : i \in Nat /\ i >= 1 /\ i + 1 \in Starts(commands)
    BY Dequeued, <1>0, <1>3 DEF Stop
  <2>2. QED
    BY <2>1, <1>3 DEF Stop
<1>4. CASE RequestClose
  BY <1>4 DEF RequestClose, Asked
<1>5. CASE AwaitTransports
  BY <1>5 DEF AwaitTransports, Quiet
<1>6. CASE Unpublish
  BY <1>6 DEF Unpublish, Unpublishes
<1>7. CASE Destroy
  BY <1>7 DEF Destroy, Dangle, Dangling
<1>8. CASE RotateKey
  BY <1>8 DEF RotateKey
<1>9. CASE Create
  BY <1>9 DEF Create
<1>10. CASE Launch
  BY <1>10 DEF Launch
<1>11. CASE Drop
  BY <1>11 DEF Drop, Dangle, Dangling
<1>12. CASE Fail
  BY <1>12 DEF Fail, AfterFailure
<1>13. CASE RotDone
  BY <1>13 DEF RotDone
<1>14. CASE Down
  BY <1>14 DEF Down
<1>15. CASE MarkClosed
  BY <1>15 DEF MarkClosed
<1>16. CASE Unlist
  BY <1>16 DEF Unlist
<1>17. CASE Exit
  BY <1>17 DEF Exit
<1>18. CASE MicroLinkMoves
  BY <1>18 DEF MicroLinkMoves
<1>19. CASE TransportStep
  BY <1>19 DEF TransportStep, TransportStarts, TransportEnds, TransportFails, Vacate
<1>20. CASE Start
  <2>1. Starts(commands') = Starts(commands) \cup {Len(commands) + 1}
    BY Queued, <1>0, <1>20 DEF Start, HasRoom, Commands
  <2>2. Starts(commands) = {}
    BY <1>20 DEF Start, MayStart
  <2>3. ~published /\ live = 0 /\ at \in {"loop"} \cup Shutdown
    BY <1>20 DEF Start, Valid, MayStart
  <2>4. QED
    BY <2>1, <2>2, <2>3, <1>20 DEF Start
<1>21. CASE Rebind
  BY <1>21 DEF Rebind, Valid
<1>22. CASE ForgetError
  BY <1>22 DEF ForgetError
<1>23. CASE SendRebind
  <2>1. commands' = commands \/ Starts(commands') = Starts(commands)
    BY Queued, <1>0, <1>23 DEF SendRebind, HasRoom, Commands
  <2>2. QED
    BY <2>1, <1>23 DEF SendRebind
<1>24. CASE Close
  <2>1. commands' = commands \/ Starts(commands') = Starts(commands)
    BY Queued, <1>0, <1>24 DEF Close, HasRoom, Commands
  <2>2. QED
    BY <2>1, <1>24 DEF Close
<1>25. CASE Release
  BY <1>25 DEF Release, MayRelease
<1>26. CASE Forget
  BY <1>26 DEF Forget
<1>27. CASE Collect
  BY <1>27 DEF Collect, Abandons
<1>28. CASE CollectFrees
  BY <1>28 DEF CollectFrees, MayFree
<1>29. CASE CollectWakes
  <2>1. commands' = commands \/ Starts(commands') = Starts(commands)
    BY Queued, <1>0, <1>29 DEF CollectWakes, HasRoom, Commands
  <2>2. QED
    BY <2>1, <1>29 DEF CollectWakes
<1>30. CASE \E k \in Kinds : Construct(k)
  BY <1>30 DEF Construct, Valid
<1>31. CASE \E k \in Kinds : CloseTransport(k)
  BY <1>31 DEF CloseTransport
<1>32. CASE LookUp
  BY <1>32 DEF LookUp
<1>33. CASE TakeSlot
  BY <1>33 DEF TakeSlot, SlotFree
<1>34. CASE UNCHANGED vars
  BY <1>34 DEF vars
<1>35. QED
  BY <1>1, <1>2, <1>3, <1>4, <1>5, <1>6, <1>7, <1>8, <1>9, <1>10, <1>11, <1>12, <1>13, <1>14,
     <1>15, <1>16, <1>17, <1>18, <1>19, <1>20, <1>21, <1>22, <1>23, <1>24, <1>25, <1>26, <1>27,
     <1>28, <1>29, <1>30, <1>31, <1>32, <1>33, <1>34 DEF Next, TaskStep, JsStep, Continue

\* The flags follow the task through its shutdown.
LEMMA EndingStep == ASSUME IInv, [Next]_vars PROVE Ending'
<1> USE DEF IInv, Ending, TypeOK, Rotation, Creation, Shutdown, task, micro,
        requests, life, transports, jsVars
<1>1. CASE Poll
  BY <1>1 DEF Poll, Restarts
<1>2. CASE Receive
  BY <1>2 DEF Receive
<1>3. CASE Stop
  BY <1>3 DEF Stop
<1>4. CASE RequestClose
  BY <1>4 DEF RequestClose, Asked
<1>5. CASE AwaitTransports
  BY <1>5 DEF AwaitTransports, Quiet
<1>6. CASE Unpublish
  BY <1>6 DEF Unpublish, Unpublishes
<1>7. CASE Destroy
  BY <1>7 DEF Destroy, Dangle, Dangling
<1>8. CASE RotateKey
  BY <1>8 DEF RotateKey
<1>9. CASE Create
  BY <1>9 DEF Create
<1>10. CASE Launch
  BY <1>10 DEF Launch
<1>11. CASE Drop
  BY <1>11 DEF Drop, Dangle, Dangling
<1>12. CASE Fail
  BY <1>12 DEF Fail, AfterFailure
<1>13. CASE RotDone
  BY <1>13 DEF RotDone
<1>14. CASE Down
  BY <1>14 DEF Down
<1>15. CASE MarkClosed
  BY <1>15 DEF MarkClosed
<1>16. CASE Unlist
  BY <1>16 DEF Unlist
<1>17. CASE Exit
  BY <1>17 DEF Exit
<1>18. CASE MicroLinkMoves
  BY <1>18 DEF MicroLinkMoves
<1>19. CASE TransportStep
  BY <1>19 DEF TransportStep, TransportStarts, TransportEnds, TransportFails, Vacate
<1>20. CASE Start
  BY <1>20 DEF Start, Valid, MayStart, HasRoom
<1>21. CASE Rebind
  BY <1>21 DEF Rebind, Valid
<1>22. CASE ForgetError
  BY <1>22 DEF ForgetError
<1>23. CASE SendRebind
  BY <1>23 DEF SendRebind, HasRoom
<1>24. CASE Close
  BY <1>24 DEF Close, Valid, HasRoom
<1>25. CASE Release
  BY <1>25 DEF Release, MayRelease
<1>26. CASE Forget
  BY <1>26 DEF Forget
<1>27. CASE Collect
  BY <1>27 DEF Collect, Abandons
<1>28. CASE CollectFrees
  BY <1>28 DEF CollectFrees, MayFree
<1>29. CASE CollectWakes
  BY <1>29 DEF CollectWakes, HasRoom
<1>30. CASE \E k \in Kinds : Construct(k)
  BY <1>30 DEF Construct, Valid
<1>31. CASE \E k \in Kinds : CloseTransport(k)
  BY <1>31 DEF CloseTransport
<1>32. CASE LookUp
  BY <1>32 DEF LookUp
<1>33. CASE TakeSlot
  BY <1>33 DEF TakeSlot, SlotFree
<1>34. CASE UNCHANGED vars
  BY <1>34 DEF vars
<1>35. QED
  BY <1>1, <1>2, <1>3, <1>4, <1>5, <1>6, <1>7, <1>8, <1>9, <1>10, <1>11, <1>12, <1>13, <1>14,
     <1>15, <1>16, <1>17, <1>18, <1>19, <1>20, <1>21, <1>22, <1>23, <1>24, <1>25, <1>26, <1>27,
     <1>28, <1>29, <1>30, <1>31, <1>32, <1>33, <1>34 DEF Next, TaskStep, JsStep, Continue

\* No transport is admitted after the request to stop.
LEMMA OutlivedStep == ASSUME IInv, [Next]_vars PROVE Outlived'
<1> USE DEF IInv, Ending, Outlived, Quiet, Kinds, TypeOK, Rotation, Creation,
        Shutdown, task, micro, requests, life, transports, jsVars
<1>1. CASE Poll
  BY <1>1 DEF Poll, Restarts
<1>2. CASE Receive
  BY <1>2 DEF Receive
<1>3. CASE Stop
  BY <1>3 DEF Stop
<1>4. CASE RequestClose
  BY <1>4 DEF RequestClose, Asked
<1>5. CASE AwaitTransports
  BY <1>5 DEF AwaitTransports, Quiet
<1>6. CASE Unpublish
  BY <1>6 DEF Unpublish, Unpublishes
<1>7. CASE Destroy
  BY <1>7 DEF Destroy, Dangle, Dangling
<1>8. CASE RotateKey
  BY <1>8 DEF RotateKey
<1>9. CASE Create
  BY <1>9 DEF Create
<1>10. CASE Launch
  BY <1>10 DEF Launch
<1>11. CASE Drop
  BY <1>11 DEF Drop, Dangle, Dangling
<1>12. CASE Fail
  BY <1>12 DEF Fail, AfterFailure
<1>13. CASE RotDone
  BY <1>13 DEF RotDone
<1>14. CASE Down
  BY <1>14 DEF Down
<1>15. CASE MarkClosed
  BY <1>15 DEF MarkClosed
<1>16. CASE Unlist
  BY <1>16 DEF Unlist
<1>17. CASE Exit
  BY <1>17 DEF Exit
<1>18. CASE MicroLinkMoves
  BY <1>18 DEF MicroLinkMoves
<1>19. CASE TransportStep
  BY <1>19 DEF TransportStep, TransportStarts, TransportEnds, TransportFails, Vacate
<1>20. CASE Start
  BY <1>20 DEF Start, Valid, MayStart, HasRoom
<1>21. CASE Rebind
  BY <1>21 DEF Rebind, Valid
<1>22. CASE ForgetError
  BY <1>22 DEF ForgetError
<1>23. CASE SendRebind
  BY <1>23 DEF SendRebind, HasRoom
<1>24. CASE Close
  BY <1>24 DEF Close, Valid, HasRoom
<1>25. CASE Release
  BY <1>25 DEF Release, MayRelease
<1>26. CASE Forget
  BY <1>26 DEF Forget
<1>27. CASE Collect
  BY <1>27 DEF Collect, Abandons
<1>28. CASE CollectFrees
  BY <1>28 DEF CollectFrees, MayFree
<1>29. CASE CollectWakes
  BY <1>29 DEF CollectWakes, HasRoom
<1>30. CASE \E k \in Kinds : Construct(k)
  BY <1>30 DEF Construct, Valid
<1>31. CASE \E k \in Kinds : CloseTransport(k)
  BY <1>31 DEF CloseTransport
<1>32. CASE LookUp
  BY <1>32 DEF LookUp
<1>33. CASE TakeSlot
  BY <1>33 DEF TakeSlot, SlotFree
<1>34. CASE UNCHANGED vars
  BY <1>34 DEF vars
<1>35. QED
  BY <1>1, <1>2, <1>3, <1>4, <1>5, <1>6, <1>7, <1>8, <1>9, <1>10, <1>11, <1>12, <1>13, <1>14,
     <1>15, <1>16, <1>17, <1>18, <1>19, <1>20, <1>21, <1>22, <1>23, <1>24, <1>25, <1>26, <1>27,
     <1>28, <1>29, <1>30, <1>31, <1>32, <1>33, <1>34 DEF Next, TaskStep, JsStep, Continue

\* A rotation is marked at every one of its steps, and nowhere else.
LEMMA RotatingStep == ASSUME IInv, [Next]_vars PROVE Rotating'
<1> USE DEF IInv, Owned, Rotating, TypeOK, Rotation, Creation, Shutdown, task,
        micro, requests, life, transports, jsVars
<1>1. CASE Poll
  BY <1>1 DEF Poll, Restarts
<1>2. CASE Receive
  BY <1>2 DEF Receive
<1>3. CASE Stop
  BY <1>3 DEF Stop
<1>4. CASE RequestClose
  BY <1>4 DEF RequestClose, Asked
<1>5. CASE AwaitTransports
  BY <1>5 DEF AwaitTransports, Quiet
<1>6. CASE Unpublish
  BY <1>6 DEF Unpublish, Unpublishes
<1>7. CASE Destroy
  BY <1>7 DEF Destroy, Dangle, Dangling
<1>8. CASE RotateKey
  BY <1>8 DEF RotateKey
<1>9. CASE Create
  BY <1>9 DEF Create
<1>10. CASE Launch
  BY <1>10 DEF Launch
<1>11. CASE Drop
  BY <1>11 DEF Drop, Dangle, Dangling
<1>12. CASE Fail
  BY <1>12 DEF Fail, AfterFailure
<1>13. CASE RotDone
  BY <1>13 DEF RotDone
<1>14. CASE Down
  BY <1>14 DEF Down
<1>15. CASE MarkClosed
  BY <1>15 DEF MarkClosed
<1>16. CASE Unlist
  BY <1>16 DEF Unlist
<1>17. CASE Exit
  BY <1>17 DEF Exit
<1>18. CASE MicroLinkMoves
  BY <1>18 DEF MicroLinkMoves
<1>19. CASE TransportStep
  BY <1>19 DEF TransportStep, TransportStarts, TransportEnds, TransportFails, Vacate
<1>20. CASE Start
  BY <1>20 DEF Start, Valid, MayStart, HasRoom
<1>21. CASE Rebind
  BY <1>21 DEF Rebind, Valid
<1>22. CASE ForgetError
  BY <1>22 DEF ForgetError
<1>23. CASE SendRebind
  BY <1>23 DEF SendRebind, HasRoom
<1>24. CASE Close
  BY <1>24 DEF Close, Valid, HasRoom
<1>25. CASE Release
  BY <1>25 DEF Release, MayRelease
<1>26. CASE Forget
  BY <1>26 DEF Forget
<1>27. CASE Collect
  BY <1>27 DEF Collect, Abandons
<1>28. CASE CollectFrees
  BY <1>28 DEF CollectFrees, MayFree
<1>29. CASE CollectWakes
  BY <1>29 DEF CollectWakes, HasRoom
<1>30. CASE \E k \in Kinds : Construct(k)
  BY <1>30 DEF Construct, Valid
<1>31. CASE \E k \in Kinds : CloseTransport(k)
  BY <1>31 DEF CloseTransport
<1>32. CASE LookUp
  BY <1>32 DEF LookUp
<1>33. CASE TakeSlot
  BY <1>33 DEF TakeSlot, SlotFree
<1>34. CASE UNCHANGED vars
  BY <1>34 DEF vars
<1>35. QED
  BY <1>1, <1>2, <1>3, <1>4, <1>5, <1>6, <1>7, <1>8, <1>9, <1>10, <1>11, <1>12, <1>13, <1>14,
     <1>15, <1>16, <1>17, <1>18, <1>19, <1>20, <1>21, <1>22, <1>23, <1>24, <1>25, <1>26, <1>27,
     <1>28, <1>29, <1>30, <1>31, <1>32, <1>33, <1>34 DEF Next, TaskStep, JsStep, Continue

-----------------------------------------------------------------------------
(* Theorems *)

LEMMA InitInvariant == Init => IInv
<1> SUFFICES ASSUME Init PROVE IInv
  OBVIOUS
<1>1. Booleans
  BY Zenon DEF Init, Booleans
<1>2. Values
  BY QueueAssumption DEF Init, Values, Commands
<1>3. Starts(commands) = {}
  BY DEF Init, Starts
<1>4. Owned /\ StartedOnce /\ Ending /\ Outlived /\ Rotating
  BY <1>3 DEF Init, Owned, StartedOnce, Unstarted, Ending, Outlived, Rotating, Rotation,
     Shutdown
<1>5. QED
  BY <1>1, <1>2, <1>4, Halves DEF IInv

LEMMA InductiveStep == IInv /\ [Next]_vars => IInv'
<1> SUFFICES ASSUME IInv, [Next]_vars PROVE IInv'
  OBVIOUS
<1>1. TypeOK' <=> Booleans' /\ Values'
  BY Zenon DEF TypeOK, Booleans, Values, Commands
<1>2. TypeOK'
  BY <1>1, Halves, BooleansStep, ValuesStep DEF IInv
<1>3. QED
  BY <1>2, OwnedStep, StartedStep, EndingStep, OutlivedStep, RotatingStep DEF IInv

\* All of what the manager, its MicroLink and the transports keep.
THEOREM Invariance == Spec => []IInv
  BY InitInvariant, InductiveStep, PTL DEF Spec

\* A manager has at most one MicroLink; it is live while it is published, and goes
\* down after the transports, none of which is left when the record is unlisted
\* or freed.
THEOREM ManagerSafety == Spec => []ManagerIsSound
<1>1. IInv => PublishedIsLive /\ OneMicroLink
  BY DEF IInv, TypeOK, Owned, PublishedIsLive, OneMicroLink, Rotation, Creation, Shutdown
<1>2. IInv => CloseOutlivesTransports /\ ResetFindsNobody /\ FreedIsQuiet
  BY DEF IInv, TypeOK, Owned, Ending, Outlived, Quiet, CloseOutlivesTransports,
     ResetFindsNobody, FreedIsQuiet, Shutdown
<1>3. IInv => ManagerIsSound
  BY <1>1, <1>2 DEF IInv, ManagerIsSound
<1>4. QED
  BY <1>3, Invariance, PTL

\* However the Tailnet rotates and fails, it loses the mark of what it came to by
\* one step only: a rebind that forgets an error.
THEOREM MarksStay == Spec => AbsenceIsMarked
<1>1. ASSUME IInv, [Next]_vars, Marked, ~stopRequested, ~ForgetError
      PROVE  Marked'
  <2> USE <1>1 DEF Marked, IInv, TypeOK, Owned, Ending, Rotating, Rotation,
            Creation, Shutdown, task, micro, requests, life, transports, jsVars
  <2>1. CASE Poll
    BY <2>1 DEF Poll, Restarts
  <2>2. CASE Receive
    BY <2>2 DEF Receive
  <2>3. CASE Stop
    BY <2>3 DEF Stop
  <2>4. CASE RequestClose
    BY <2>4 DEF RequestClose, Asked
  <2>5. CASE AwaitTransports
    BY <2>5 DEF AwaitTransports, Quiet
  <2>6. CASE Unpublish
    BY <2>6 DEF Unpublish, Unpublishes
  <2>7. CASE Destroy
    BY <2>7 DEF Destroy, Dangle, Dangling
  <2>8. CASE RotateKey
    BY <2>8 DEF RotateKey
  <2>9. CASE Create
    BY <2>9 DEF Create
  <2>10. CASE Launch
    BY <2>10 DEF Launch
  <2>11. CASE Drop
    BY <2>11 DEF Drop, Dangle, Dangling
  <2>12. CASE Fail
    BY <2>12 DEF Fail, AfterFailure
  <2>13. CASE RotDone
    BY <2>13 DEF RotDone
  <2>14. CASE Down
    BY <2>14 DEF Down
  <2>15. CASE MarkClosed
    BY <2>15 DEF MarkClosed
  <2>16. CASE Unlist
    BY <2>16 DEF Unlist
  <2>17. CASE Exit
    BY <2>17 DEF Exit
  <2>18. CASE MicroLinkMoves
    BY <2>18 DEF MicroLinkMoves
  <2>19. CASE TransportStep
    BY <2>19 DEF TransportStep, TransportStarts, TransportEnds, TransportFails, Vacate
  <2>20. CASE Start
    BY <2>20 DEF Start, Valid, MayStart, HasRoom
  <2>21. CASE Rebind
    BY <2>21 DEF Rebind, Valid
  <2>22. CASE ForgetError
    BY <2>22 DEF ForgetError
  <2>23. CASE SendRebind
    BY <2>23 DEF SendRebind, HasRoom
  <2>24. CASE Close
    BY <2>24 DEF Close, Valid, HasRoom
  <2>25. CASE Release
    BY <2>25 DEF Release, MayRelease
  <2>26. CASE Forget
    BY <2>26 DEF Forget
  <2>27. CASE Collect
    BY <2>27 DEF Collect, Abandons
  <2>28. CASE CollectFrees
    BY <2>28 DEF CollectFrees, MayFree
  <2>29. CASE CollectWakes
    BY <2>29 DEF CollectWakes, HasRoom
  <2>30. CASE \E k \in Kinds : Construct(k)
    BY <2>30 DEF Construct, Valid
  <2>31. CASE \E k \in Kinds : CloseTransport(k)
    BY <2>31 DEF CloseTransport
  <2>32. CASE LookUp
    BY <2>32 DEF LookUp
  <2>33. CASE TakeSlot
    BY <2>33 DEF TakeSlot, SlotFree
  <2>34. CASE UNCHANGED vars
    BY <2>34 DEF vars
  <2>35. QED
    BY <2>1, <2>2, <2>3, <2>4, <2>5, <2>6, <2>7, <2>8, <2>9, <2>10, <2>11, <2>12, <2>13, <2>14,
       <2>15, <2>16, <2>17, <2>18, <2>19, <2>20, <2>21, <2>22, <2>23, <2>24, <2>25, <2>26,
       <2>27, <2>28, <2>29, <2>30, <2>31, <2>32, <2>33, <2>34
    DEF Next, TaskStep, JsStep, Continue
<1>2. IInv /\ [Next]_vars => [Marked /\ ~stopRequested /\ ~Marked' => ForgetError]_vars
  BY <1>1
<1>3. QED
  BY <1>2, Invariance, PTL DEF Spec, AbsenceIsMarked

=============================================================================
