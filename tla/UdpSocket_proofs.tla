--------------------------- MODULE UdpSocket_proofs ---------------------------
(***************************************************************************)
(* The UDP socket's shared record, its announced packets and its wake-ups, *)
(* for every queue size and any number of packets.                         *)
(***************************************************************************)
EXTENDS UdpSocket, SequenceTheorems, TLAPS

\* Inside udp_trigger, on the way back to ret.
Raising == task \in {"trigger", "post"}

\* The socket is open, and hears, over a stretch of the task; the callback runs
\* only while it hears.
Open == /\ socket <=> \/ task \in {"listen", "wait", "take", "send", "unlisten", "close"}
                      \/ Raising /\ ret = "wait"
        /\ listens <=> \/ task \in {"wait", "take", "send", "unlisten"}
                       \/ Raising /\ ret = "wait"
        /\ receiver # "idle" => listens

\* The task raises something exactly in udp_trigger, and gives the slot back last.
Ending == /\ raise # {} <=> task = "trigger"
          /\ ~active <=> ret = "gone"
          /\ ret = "gone" => task \in {"trigger", "post", "gone"} /\ manager # "holds"
          /\ task = "gone" => ret = "gone"
          /\ Raising => ret # "take"

\* FINAL is the last event, and nothing follows its delivery.
FinalIsLast ==
  /\ "FINAL" \in raise => ret = "gone"
  /\ "FINAL" \in pending => ret = "gone" /\ task \in {"post", "gone"}
  /\ "FINAL" \in ev => task = "gone" /\ pending = {}
  /\ hostData = allocated
  /\ ~hostData => task = "gone" /\ pending = {} /\ ~owes /\ js = "idle"
  /\ js = "idle" => ev = {}

\* An error is on its way to the application until onError has run.
ErrorKept == err # 0 => \/ failed \/ "ERROR" \in raise \/ "ERROR" \in pending
                        \/ "ERROR" \in ev /\ js \in {"readable", "error"}

\* What arrives after the snapshot is announced by the next delivery.
Announcing == js = "readable" /\ hostData =>
                /\ count <= rxCount
                /\ rxCount > count => receiver = "trigger" \/ "READABLE" \in pending

\* A packet queued holds a token, but for the one the task has just taken it for.
Tokens == txCount <= wake + (IF owes THEN 1 ELSE 0) + (IF task = "take" THEN 1 ELSE 0)

Coherent == /\ Open /\ Ending /\ OneMessage /\ FinalIsLast /\ ErrorKept
            /\ ReadIsBacked /\ NoLostReadable /\ Announcing /\ Tokens
            /\ dropped <= arrived

\* The k-th slot after r; the write index is where the queue ends.
At(r, k) == (r + k) % QueueSize

Indices == rxWrite = At(rxRead, rxCount) /\ txWrite = At(txRead, txCount)

IInv == TypeOK /\ Coherent /\ Indices

-----------------------------------------------------------------------------
(* Types, in two halves: Booleans and data are different provers' work. *)

Booleans == /\ leaving \in BOOLEAN /\ socket \in BOOLEAN /\ listens \in BOOLEAN
            /\ closing \in BOOLEAN /\ active \in BOOLEAN /\ allocated \in BOOLEAN
            /\ hostData \in BOOLEAN /\ owes \in BOOLEAN /\ failed \in BOOLEAN
            /\ jsClosed \in BOOLEAN

Values ==
  /\ task \in {"create", "listen", "wait", "take", "send", "unlisten", "close", "vacate",
               "trigger", "post", "gone"}
  /\ ret \in {"take", "wait", "vacate", "gone"} /\ raise \subseteq Events
  /\ held \in 0..MaxWrites /\ receiver \in {"idle", "trigger", "post"}
  /\ rx \in [Slots -> 0..MaxArrivals] /\ tx \in [Slots -> 0..MaxWrites]
  /\ rxRead \in Slots /\ rxWrite \in Slots /\ txRead \in Slots /\ txWrite \in Slots
  /\ rxCount \in 0..QueueSize /\ txCount \in 0..QueueSize
  /\ dropped \in 0..MaxArrivals /\ wake \in 0..QueueSize + 1
  /\ pending \subseteq Events /\ msgs \in 0..1 /\ err \in 0..2
  /\ manager \in {"idle", "holds", "waits"} /\ js \in {"idle", "readable", "error", "final"}
  /\ ev \subseteq Events /\ count \in 0..QueueSize /\ credit \in 0..QueueSize
  /\ arrived \in 0..MaxArrivals /\ got \in 0..MaxArrivals
  /\ written \in 0..MaxWrites /\ sent \in 0..MaxWrites

LEMMA Halves == TypeOK <=> Booleans /\ Values
  BY DEF TypeOK, Booleans, Values

LEMMA NextSlot == ASSUME NEW i \in Slots PROVE After(i) \in Slots
  BY UdpAssumption DEF After, Slots

LEMMA BooleansStep == ASSUME Booleans, [Next]_vars PROVE Booleans'
<1> USE DEF Booleans, Goto, Raise, ctl, link, rxRing, txRing, mail, owner, jsVars
<1>1. CASE CreateFails
  BY <1>1 DEF CreateFails
<1>2. CASE CreateSucceeds
  BY <1>2 DEF CreateSucceeds
<1>3. CASE Listen
  BY <1>3 DEF Listen
<1>4. CASE Wait
  BY <1>4 DEF Wait
<1>5. CASE Take
  BY <1>5 DEF Take
<1>6. CASE Send
  BY <1>6 DEF Send, Leaves, AfterLoop, AfterError
<1>7. CASE Unlisten
  BY <1>7 DEF Unlisten
<1>8. CASE CloseSocket
  BY <1>8 DEF CloseSocket
<1>9. CASE Vacate
  BY <1>9 DEF Vacate, MutexFree
<1>10. CASE Trigger
  BY <1>10 DEF Trigger, Merged, Posts
<1>11. CASE Post
  BY <1>11 DEF Post
<1>12. CASE Deliver
  BY <1>12 DEF Deliver
<1>13. CASE OnReadable
  BY <1>13 DEF OnReadable, ReadableHeard, Announced
<1>14. CASE OnError
  BY <1>14 DEF OnError, ErrorHeard
<1>15. CASE OnFinal
  BY <1>15 DEF OnFinal
<1>16. CASE Receive
  BY <1>16 DEF Receive, DropsOldest
<1>17. CASE ReceiverTriggers
  BY <1>17 DEF ReceiverTriggers, Merged, Posts
<1>18. CASE ReceiverPosts
  BY <1>18 DEF ReceiverPosts
<1>19. CASE Read
  BY <1>19 DEF Read, InApplication
<1>20. CASE Write
  BY <1>20 DEF Write, Room, InApplication
<1>21. CASE Close
  BY <1>21 DEF Close, InApplication
<1>22. CASE Give
  BY <1>22 DEF Give, Given, MaxWake
<1>23. CASE ManagerCloses
  BY <1>23 DEF ManagerCloses
<1>24. CASE ManagerGives
  BY <1>24 DEF ManagerGives, Given, MaxWake
<1>25. CASE UNCHANGED vars
  BY <1>25 DEF vars
<1>26. QED
  BY <1>1, <1>2, <1>3, <1>4, <1>5, <1>6, <1>7, <1>8, <1>9, <1>10, <1>11, <1>12, <1>13,
     <1>14, <1>15, <1>16, <1>17, <1>18, <1>19, <1>20, <1>21, <1>22, <1>23, <1>24, <1>25 DEF Next, TaskStep, DeliverStep

\* Counts stay within the queues and indices within the rings.
LEMMA ValuesStep == ASSUME IInv, [Next]_vars PROVE Values'
<1> USE UdpAssumption DEF IInv, TypeOK, Values, Coherent, Open, Ending, Raising, OneMessage, Posting,
        FinalIsLast, Announcing, Events, Goto, Raise, ctl, link, rxRing, txRing, mail, owner, jsVars
<1>1. CASE CreateFails
  BY <1>1 DEF CreateFails
<1>2. CASE CreateSucceeds
  BY <1>2 DEF CreateSucceeds
<1>3. CASE Listen
  BY <1>3 DEF Listen
<1>4. CASE Wait
  BY <1>4 DEF Wait
<1>5. CASE Take
  BY NextSlot, <1>5 DEF Take
<1>6. CASE Send
  BY <1>6 DEF Send, Leaves, AfterLoop, AfterError
<1>7. CASE Unlisten
  BY <1>7 DEF Unlisten
<1>8. CASE CloseSocket
  BY <1>8 DEF CloseSocket
<1>9. CASE Vacate
  BY <1>9 DEF Vacate, MutexFree
<1>10. CASE Trigger
  BY <1>10 DEF Trigger, Merged, Posts
<1>11. CASE Post
  BY <1>11 DEF Post
<1>12. CASE Deliver
  BY <1>12 DEF Deliver
<1>13. CASE OnReadable
  BY <1>13 DEF OnReadable, ReadableHeard, Announced
<1>14. CASE OnError
  BY <1>14 DEF OnError, ErrorHeard
<1>15. CASE OnFinal
  BY <1>15 DEF OnFinal
<1>16. CASE Receive
  BY NextSlot, <1>16 DEF Receive, DropsOldest
<1>17. CASE ReceiverTriggers
  BY <1>17 DEF ReceiverTriggers, Merged, Posts
<1>18. CASE ReceiverPosts
  BY <1>18 DEF ReceiverPosts
<1>19. CASE Read
  BY NextSlot, <1>19 DEF Read, InApplication
<1>20. CASE Write
  BY NextSlot, <1>20 DEF Write, Room, InApplication
<1>21. CASE Close
  BY <1>21 DEF Close, InApplication
<1>22. CASE Give
  BY <1>22 DEF Give, Given, MaxWake
<1>23. CASE ManagerCloses
  BY <1>23 DEF ManagerCloses
<1>24. CASE ManagerGives
  BY <1>24 DEF ManagerGives, Given, MaxWake
<1>25. CASE UNCHANGED vars
  BY <1>25 DEF vars
<1>26. QED
  BY <1>1, <1>2, <1>3, <1>4, <1>5, <1>6, <1>7, <1>8, <1>9, <1>10, <1>11, <1>12, <1>13,
     <1>14, <1>15, <1>16, <1>17, <1>18, <1>19, <1>20, <1>21, <1>22, <1>23, <1>24, <1>25 DEF Next, TaskStep, DeliverStep

LEMMA CoherentStep == ASSUME IInv, [Next]_vars PROVE Coherent'
<1> USE UdpAssumption DEF IInv, TypeOK, Coherent, Open, Ending, Raising, OneMessage, Posting,
        FinalIsLast, ErrorKept, ReadIsBacked, NoLostReadable, Announcing, Tokens, Events,
        Goto, Raise, ctl, link, rxRing, txRing, mail, owner, jsVars
<1>1. CASE CreateFails
  BY <1>1 DEF CreateFails
<1>2. CASE CreateSucceeds
  BY <1>2 DEF CreateSucceeds
<1>3. CASE Listen
  BY <1>3 DEF Listen
<1>4. CASE Wait
  BY <1>4 DEF Wait
<1>5. CASE Take
  BY <1>5 DEF Take
<1>6. CASE Send
  BY <1>6 DEF Send, Leaves, AfterLoop, AfterError
<1>7. CASE Unlisten
  BY <1>7 DEF Unlisten
<1>8. CASE CloseSocket
  BY <1>8 DEF CloseSocket
<1>9. CASE Vacate
  BY <1>9 DEF Vacate, MutexFree
<1>10. CASE Trigger
  <2>1. Open' /\ Ending' /\ OneMessage'
    <3>1. raise # {} /\ pending' # {} /\ raise' = {} /\ UNCHANGED <<ret, msgs, receiver>>
      BY <1>10 DEF Trigger, Merged
    <3>2. CASE pending = {}
      BY <1>10, <3>1, <3>2 DEF Trigger, Posts
    <3>3. CASE pending # {}
      BY <1>10, <3>1, <3>3 DEF Trigger, Posts
    <3>4. QED
      BY <3>2, <3>3
  <2>2. FinalIsLast' /\ ErrorKept'
    BY <1>10 DEF Trigger, Merged, Posts
  <2>3. ReadIsBacked' /\ NoLostReadable' /\ Announcing' /\ Tokens' /\ (dropped <= arrived)'
    BY <1>10 DEF Trigger, Merged, Posts
  <2>4. QED
    BY <2>1, <2>2, <2>3
<1>11. CASE Post
  BY <1>11 DEF Post
<1>12. CASE Deliver
  BY <1>12 DEF Deliver
<1>13. CASE OnReadable
  BY <1>13 DEF OnReadable, ReadableHeard, Announced
<1>14. CASE OnError
  BY <1>14 DEF OnError, ErrorHeard
<1>15. CASE OnFinal
  BY <1>15 DEF OnFinal
<1>16. CASE Receive
  BY <1>16 DEF Receive, DropsOldest
<1>17. CASE ReceiverTriggers
  BY <1>17 DEF ReceiverTriggers, Merged, Posts
<1>18. CASE ReceiverPosts
  BY <1>18 DEF ReceiverPosts
<1>19. CASE Read
  <2>1. Open' /\ Ending' /\ OneMessage'
    BY <1>19 DEF Read
  <2>4. FinalIsLast' /\ ErrorKept' /\ Tokens'
    BY <1>19 DEF Read
  <2>2. ReadIsBacked' /\ NoLostReadable'
    BY <1>19 DEF Read
  <2>3. Announcing' /\ (dropped <= arrived)'
    BY <1>19 DEF Read, InApplication
  <2>5. QED
    BY <2>1, <2>2, <2>3, <2>4
<1>20. CASE Write
  <2>1. Open' /\ Ending' /\ OneMessage' /\ FinalIsLast' /\ ErrorKept'
    BY <1>20 DEF Write
  <2>2. ReadIsBacked' /\ NoLostReadable' /\ Announcing' /\ (dropped <= arrived)'
    BY <1>20 DEF Write
  <2>3. Tokens'
    BY <1>20 DEF Write, InApplication
  <2>4. QED
    BY <2>1, <2>2, <2>3
<1>21. CASE Close
  BY <1>21 DEF Close, InApplication
<1>22. CASE Give
  BY <1>22 DEF Give, Given, MaxWake
<1>23. CASE ManagerCloses
  BY <1>23 DEF ManagerCloses
<1>24. CASE ManagerGives
  BY <1>24 DEF ManagerGives, Given, MaxWake
<1>25. CASE UNCHANGED vars
  BY <1>25 DEF vars
<1>26. QED
  BY <1>1, <1>2, <1>3, <1>4, <1>5, <1>6, <1>7, <1>8, <1>9, <1>10, <1>11, <1>12, <1>13,
     <1>14, <1>15, <1>16, <1>17, <1>18, <1>19, <1>20, <1>21, <1>22, <1>23, <1>24, <1>25 DEF Next, TaskStep, DeliverStep

-----------------------------------------------------------------------------
(* The rings *)

\* An index wraps at most once.
LEMMA AtIs ==
  ASSUME NEW r \in Slots, NEW k \in 0..QueueSize
  PROVE  /\ At(r, k) = IF r + k < QueueSize THEN r + k ELSE r + k - QueueSize
         /\ At(r, k) \in Slots
  BY UdpAssumption DEF At, Slots

LEMMA AfterIsAt == ASSUME NEW r \in Slots PROVE After(r) = At(r, 1)
  BY DEF After, At

LEMMA AtNext ==
  ASSUME NEW r \in Slots, NEW n \in 0..QueueSize - 1
  PROVE  After(At(r, n)) = At(r, n + 1) /\ At(After(r), n) = At(r, n + 1)
<1>1. 1 \in 0..QueueSize /\ n \in 0..QueueSize /\ n + 1 \in 0..QueueSize
  BY UdpAssumption
<1>2. At(r, 1) \in Slots /\ At(r, n) \in Slots
  BY <1>1, AtIs
<1>3. After(At(r, n)) = At(At(r, n), 1) /\ After(r) = At(r, 1)
  BY <1>2, AfterIsAt
<1>4. /\ At(r, 1) = IF r + 1 < QueueSize THEN r + 1 ELSE r + 1 - QueueSize
      /\ At(r, n) = IF r + n < QueueSize THEN r + n ELSE r + n - QueueSize
      /\ At(r, n + 1) = IF r + (n + 1) < QueueSize THEN r + (n + 1) ELSE r + (n + 1) - QueueSize
  BY <1>1, AtIs
<1>5. /\ At(At(r, n), 1) = IF At(r, n) + 1 < QueueSize THEN At(r, n) + 1 ELSE At(r, n) + 1 - QueueSize
      /\ At(At(r, 1), n) = IF At(r, 1) + n < QueueSize THEN At(r, 1) + n ELSE At(r, 1) + n - QueueSize
  BY <1>1, <1>2, AtIs
<1>6. QED
  BY <1>3, <1>4, <1>5, UdpAssumption DEF Slots

\* A full ring ends where it begins.
LEMMA AtEnd ==
  ASSUME NEW r \in Slots
  PROVE  At(r, QueueSize) = r /\ At(After(r), QueueSize - 1) = r
<1>1. At(r, QueueSize) = r
  <2>1. QueueSize \in 0..QueueSize
    BY UdpAssumption
  <2>2. At(r, QueueSize) = IF r + QueueSize < QueueSize THEN r + QueueSize ELSE r + QueueSize - QueueSize
    BY <2>1, AtIs
  <2>3. QED
    BY <2>2, UdpAssumption DEF Slots
<1>2. QueueSize - 1 \in 0..QueueSize - 1 /\ QueueSize - 1 + 1 = QueueSize
  BY UdpAssumption
<1>3. QED
  BY <1>1, <1>2, AtNext

\* Only these steps touch a ring, or what was read or taken from it.
LEMMA Others ==
  ASSUME [Next]_vars
  PROVE  /\ Receive \/ Read \/ UNCHANGED <<rxRing, got>>
         /\ Take \/ Write \/ UNCHANGED <<txRing, sent>>
<1> USE DEF jsVars
<1>1. TaskStep => /\ UNCHANGED <<rxRing, got>>
                  /\ Take \/ UNCHANGED <<txRing, sent>>
  BY Zenon DEF TaskStep, CreateFails, CreateSucceeds, Listen, Wait, Take, Send, Unlisten,
     CloseSocket, Vacate, Trigger, Post
<1>2. DeliverStep => UNCHANGED <<rxRing, got, txRing, sent>>
  BY Zenon DEF DeliverStep, Deliver, OnReadable, OnError, OnFinal
<1>3. ReceiverTriggers \/ ReceiverPosts => UNCHANGED <<rxRing, got, txRing, sent>>
  BY Zenon DEF ReceiverTriggers, ReceiverPosts
<1>4. Close \/ Give \/ ManagerCloses \/ ManagerGives => UNCHANGED <<rxRing, got, txRing, sent>>
  BY Zenon DEF Close, Give, ManagerCloses, ManagerGives
<1>5. Receive \/ Read => UNCHANGED <<txRing, sent>>
  BY Zenon DEF Receive, Read
<1>6. Write => UNCHANGED <<rxRing, got>>
  BY Zenon DEF Write
<1>7. UNCHANGED vars => UNCHANGED <<rxRing, got, txRing, sent>>
  BY Zenon DEF vars
<1>8. QED
  BY <1>1, <1>2, <1>3, <1>4, <1>5, <1>6, <1>7, Zenon DEF Next

LEMMA IndicesStep == ASSUME IInv, [Next]_vars PROVE Indices'
<1>1. /\ rxRead \in Slots /\ rxWrite \in Slots /\ txRead \in Slots /\ txWrite \in Slots
      /\ rxCount \in 0..QueueSize /\ txCount \in 0..QueueSize /\ Indices
  BY DEF IInv, TypeOK
<1>2. ASSUME NEW n \in 0..QueueSize, n # QueueSize PROVE n \in 0..QueueSize - 1
  BY <1>2, UdpAssumption
<1>3. ASSUME UNCHANGED <<rxRing, txRing>> PROVE Indices'
  BY <1>1, <1>3 DEF Indices, rxRing, txRing
<1>4. CASE Take
  <2>1. CASE txCount > 0
    <3>1. /\ txRead' = After(txRead) /\ txCount' = txCount - 1 /\ txWrite' = txWrite
          /\ UNCHANGED rxRing
      BY <1>4, <2>1 DEF Take
    <3>2. txCount - 1 \in 0..QueueSize - 1 /\ txCount - 1 + 1 = txCount
      BY <1>1, <2>1, UdpAssumption
    <3>3. QED
      BY <1>1, <3>1, <3>2, AtNext DEF Indices, rxRing
  <2>2. CASE ~(txCount > 0)
    BY <1>1, <1>4, <2>2 DEF Take, Indices, rxRing
  <2>3. QED
    BY <2>1, <2>2
<1>5. CASE Receive
  <2>1. CASE closing
    BY <1>1, <1>5, <2>1 DEF Receive, Indices, rxRing, txRing
  <2>2. CASE ~closing /\ rxCount = QueueSize
    <3>1. rxWrite = rxRead
      BY <1>1, <2>2, AtEnd DEF Indices
    <3>2. /\ rxRead' = After(rxRead) /\ rxCount' = QueueSize /\ rxWrite' = After(rxRead)
          /\ UNCHANGED txRing
      BY <1>5, <2>2, <3>1 DEF Receive, DropsOldest
    <3>3. At(After(rxRead), QueueSize) = After(rxRead)
      BY <1>1, NextSlot, AtEnd
    <3>4. QED
      BY <1>1, <3>2, <3>3 DEF Indices, txRing
  <2>3. CASE ~closing /\ rxCount # QueueSize
    <3>1. /\ rxRead' = rxRead /\ rxCount' = rxCount + 1 /\ rxWrite' = After(rxWrite)
          /\ UNCHANGED txRing
      BY <1>5, <2>3 DEF Receive
    <3>2. QED
      BY <1>1, <1>2, <2>3, <3>1, AtNext DEF Indices, txRing
  <2>4. QED
    BY <2>1, <2>2, <2>3
<1>6. CASE Read
  <2>1. /\ rxRead' = After(rxRead) /\ rxCount' = rxCount - 1 /\ rxWrite' = rxWrite
        /\ UNCHANGED txRing /\ rxCount > 0
    BY <1>6 DEF Read
  <2>2. rxCount - 1 \in 0..QueueSize - 1 /\ rxCount - 1 + 1 = rxCount
    BY <1>1, <2>1, UdpAssumption
  <2>3. QED
    BY <1>1, <2>1, <2>2, AtNext DEF Indices, txRing
<1>7. CASE Write
  <2>1. /\ txRead' = txRead /\ txCount' = txCount + 1 /\ txWrite' = After(txWrite)
        /\ UNCHANGED rxRing /\ txCount < QueueSize
    BY <1>7 DEF Write, Room
  <2>2. txCount # QueueSize
    BY <1>1, <2>1
  <2>3. QED
    BY <1>1, <1>2, <2>1, <2>2, AtNext DEF Indices, rxRing
<1>8. QED
  BY <1>3, <1>4, <1>5, <1>6, <1>7, Others DEF rxRing, txRing, Indices

\* What Append, Tail and Head of the queue are in its ring.
LEMMA RingIsSeq ==
  ASSUME NEW slots \in [Slots -> Nat], NEW r \in Slots, NEW n \in 0..QueueSize
  PROVE  /\ Ring(slots, r, n) \in Seq(Nat) /\ Len(Ring(slots, r, n)) = n
         /\ \A i \in 1..n : Ring(slots, r, n)[i] = slots[At(r, i - 1)]
<1>1. \A i \in 1..n : r + i - 1 = r + (i - 1) /\ i - 1 \in 0..QueueSize
  BY UdpAssumption DEF Slots
<1>2. Ring(slots, r, n) = [i \in 1..n |-> slots[At(r, i - 1)]]
  BY <1>1 DEF Ring, At
<1>3. \A i \in 1..n : At(r, i - 1) \in Slots
  BY <1>1, AtIs
<1>4. Ring(slots, r, n) \in [1..n -> Nat]
  BY <1>2, <1>3
<1>5. Ring(slots, r, n) \in Seq(Nat) /\ Len(Ring(slots, r, n)) = n
  BY <1>4, UdpAssumption, SeqDef
<1>6. QED
  BY <1>2, <1>5

LEMMA RingPut ==
  ASSUME NEW slots \in [Slots -> Nat], NEW r \in Slots, NEW n \in 0..QueueSize - 1, NEW p \in Nat
  PROVE  Ring([slots EXCEPT ![At(r, n)] = p], r, n + 1) = Append(Ring(slots, r, n), p)
<1> DEFINE new == [slots EXCEPT ![At(r, n)] = p]
           before == Ring(slots, r, n)
           after == Ring(new, r, n + 1)
<1>1. n \in 0..QueueSize /\ n + 1 \in 0..QueueSize /\ n + 1 - 1 = n
  BY UdpAssumption
<1>2. At(r, n) \in Slots
  BY <1>1, AtIs
<1>3. /\ new \in [Slots -> Nat] /\ new[At(r, n)] = p
      /\ \A i \in Slots : i # At(r, n) => new[i] = slots[i]
  BY <1>2
<1>4. ASSUME NEW i \in 1..n PROVE At(r, i - 1) \in Slots /\ At(r, i - 1) # At(r, n)
  <2>1. i - 1 \in 0..QueueSize /\ i - 1 < n
    BY UdpAssumption
  <2>2. /\ At(r, i - 1) = IF r + (i - 1) < QueueSize THEN r + (i - 1) ELSE r + (i - 1) - QueueSize
        /\ At(r, n) = IF r + n < QueueSize THEN r + n ELSE r + n - QueueSize
        /\ At(r, i - 1) \in Slots
    BY <1>1, <2>1, AtIs
  <2>3. QED
    BY <2>1, <2>2, UdpAssumption DEF Slots
<1> HIDE DEF new
<1>5. /\ after \in Seq(Nat) /\ Len(after) = n + 1
      /\ \A i \in 1..n + 1 : after[i] = new[At(r, i - 1)]
  BY <1>1, <1>3, RingIsSeq
<1>6. /\ before \in Seq(Nat) /\ Len(before) = n
      /\ \A i \in 1..n : before[i] = slots[At(r, i - 1)]
  BY <1>1, RingIsSeq
<1> HIDE DEF before, after
<1>7. /\ Append(before, p) \in Seq(Nat) /\ Len(Append(before, p)) = n + 1
      /\ \A i \in 1..n : Append(before, p)[i] = before[i]
      /\ Append(before, p)[n + 1] = p
  BY <1>6, AppendProperties
<1>8. \A i \in 1..n : after[i] = Append(before, p)[i]
  BY <1>3, <1>4, <1>5, <1>6, <1>7
<1>9. after[n + 1] = p
  <2>1. n + 1 \in 1..n + 1
    OBVIOUS
  <2>2. after[n + 1] = new[At(r, n + 1 - 1)]
    BY <1>5, <2>1
  <2>3. QED
    BY <1>1, <1>3, <2>2
<1>10. \A i \in 1..n + 1 : after[i] = Append(before, p)[i]
  BY <1>7, <1>8, <1>9
<1>11. after = Append(before, p)
  BY <1>5, <1>7, <1>10, SeqEqual
<1>12. QED
  BY <1>11 DEF new, before, after

LEMMA RingGet ==
  ASSUME NEW slots \in [Slots -> Nat], NEW r \in Slots, NEW n \in 1..QueueSize
  PROVE  /\ Ring(slots, r, n) # <<>> /\ Head(Ring(slots, r, n)) = slots[r]
         /\ Ring(slots, After(r), n - 1) = Tail(Ring(slots, r, n))
<1> DEFINE before == Ring(slots, r, n)
           after == Ring(slots, After(r), n - 1)
<1>1. After(r) \in Slots /\ n - 1 \in 0..QueueSize /\ n \in 0..QueueSize
  BY NextSlot, UdpAssumption
<1>2. /\ before \in Seq(Nat) /\ Len(before) = n
      /\ \A i \in 1..n : before[i] = slots[At(r, i - 1)]
  BY <1>1, RingIsSeq
<1>3. /\ after \in Seq(Nat) /\ Len(after) = n - 1
      /\ \A i \in 1..n - 1 : after[i] = slots[At(After(r), i - 1)]
  BY <1>1, RingIsSeq
<1> HIDE DEF before, after
<1>4. before # <<>>
  BY <1>2, EmptySeq
<1>5. /\ Tail(before) \in Seq(Nat) /\ Len(Tail(before)) = n - 1
      /\ \A i \in 1..n - 1 : Tail(before)[i] = before[i + 1]
      /\ Head(before) = before[1]
  BY <1>2, <1>4, HeadTailProperties
<1>6. ASSUME NEW i \in 1..n - 1 PROVE after[i] = Tail(before)[i]
  <2>1. i - 1 \in 0..QueueSize - 1 /\ i - 1 + 1 = i /\ i + 1 - 1 = i /\ i + 1 \in 1..n
    BY UdpAssumption
  <2>2. At(After(r), i - 1) = At(r, i)
    BY <2>1, AtNext
  <2>3. before[i + 1] = slots[At(r, i + 1 - 1)]
    BY <1>2, <2>1
  <2>4. QED
    BY <1>3, <1>5, <2>1, <2>2, <2>3
<1>7. after = Tail(before)
  BY <1>3, <1>5, <1>6, SeqEqual
<1>8. Head(before) = slots[r]
  <2>1. 0 \in 0..QueueSize /\ 1 - 1 = 0 /\ 1 \in 1..n
    BY UdpAssumption
  <2>2. At(r, 0) = IF r + 0 < QueueSize THEN r + 0 ELSE r + 0 - QueueSize
    BY <2>1, AtIs
  <2>3. At(r, 0) = r
    BY <2>2, UdpAssumption DEF Slots
  <2>4. before[1] = slots[At(r, 1 - 1)]
    BY <1>2, <2>1
  <2>5. QED
    BY <1>5, <2>1, <2>3, <2>4
<1>9. QED
  BY <1>4, <1>7, <1>8 DEF before, after

-----------------------------------------------------------------------------
(* Theorems *)

LEMMA InitInvariant == Init => IInv
<1> SUFFICES ASSUME Init PROVE IInv
  OBVIOUS
<1>1. Booleans
  BY Zenon DEF Init, Booleans
<1>2. Values
  BY UdpAssumption DEF Init, Values, Events, Slots
<1>3. Coherent
  BY UdpAssumption DEF Init, Coherent, Open, Ending, Raising, OneMessage, Posting, FinalIsLast,
     ErrorKept, ReadIsBacked, NoLostReadable, Announcing, Tokens
<1>4. Indices
  <2>1. 0 \in Slots /\ 0 \in 0..QueueSize
    BY UdpAssumption DEF Slots
  <2>2. At(0, 0) = 0
    BY <2>1, AtIs, UdpAssumption
  <2>3. QED
    BY <2>2 DEF Init, Indices
<1>5. QED
  BY <1>1, <1>2, <1>3, <1>4, Halves DEF IInv

THEOREM Invariance == Spec => []IInv
<1>1. IInv /\ [Next]_vars => TypeOK'
  <2>1. TypeOK' <=> Booleans' /\ Values'
    BY Zenon DEF TypeOK, Booleans, Values
  <2>2. QED
    BY <2>1, Halves, BooleansStep, ValuesStep DEF IInv
<1>2. IInv /\ [Next]_vars => IInv'
  BY <1>1, CoherentStep, IndicesStep, Zenon DEF IInv
<1>3. QED
  BY <1>2, InitInvariant, PTL DEF Spec

\* udp_trigger posts once per batch of events, udp_task, MicroLink's callback and
\* the manager are done with a record before udp_deliver frees it, its error has
\* been told, and its slot is given back only once the socket is closed.
THEOREM RecordSafety == Spec => []RecordIsSafe
<1>1. IInv => TypeOK /\ OneMessage /\ ErrorBeforeFree
  BY DEF IInv, TypeOK, Coherent, FinalIsLast, ErrorKept, Ending, ErrorBeforeFree
<1>2. IInv => SlotGuardsSocket
  BY DEF IInv, TypeOK, Coherent, Open, Ending, Raising, SlotGuardsSocket
<1>3. IInv => NoUseAfterFree
  BY DEF IInv, TypeOK, Coherent, Open, Ending, Raising, OneMessage, Posting, FinalIsLast,
     NoUseAfterFree
<1>4. IInv => RecordIsSafe
  BY <1>1, <1>2, <1>3 DEF RecordIsSafe
<1>5. QED
  BY <1>4, Invariance, PTL

\* The count that udp_deliver gives onReadable can be read, and leaves no packet out.
THEOREM CountHolds == Spec => []CountIsTrue
<1>1. IInv => CountIsTrue
  BY DEF IInv, Coherent, CountIsTrue
<1>2. QED
  BY <1>1, Invariance, PTL

\* udp_task never sleeps on a packet that was written and woken for.
THEOREM SendIsPrompt == Spec => []PromptSend
<1>1. IInv => PromptSend
  BY DEF IInv, TypeOK, Coherent, Tokens, PromptSend
<1>2. QED
  BY <1>1, Invariance, PTL

\* Each packet that udp_task sends is the oldest one written and not yet sent; each
\* one JavaScript reads is the oldest received that a full queue did not drop.
THEOREM QueuesArePromised == Spec => RingsAreQueues
<1>1. ASSUME Init PROVE Received!Init /\ Sending!Init
  BY <1>1 DEF Init, Received!Init, Sending!Init, Ring
<1>2. ASSUME IInv, [Next]_vars
      PROVE  [Received!Next]_<<Ring(rx, rxRead, rxCount), arrived, got, dropped>>
  <2>1. /\ rx \in [Slots -> Nat] /\ rxRead \in Slots /\ rxCount \in 0..QueueSize
        /\ rxWrite = At(rxRead, rxCount) /\ arrived \in Nat /\ arrived + 1 \in Nat
    BY <1>2, UdpAssumption DEF IInv, TypeOK, Indices
  <2>2. CASE Read
    <3>1. rxCount \in 1..QueueSize /\ rx' = rx /\ arrived' = arrived /\ dropped' = dropped
      BY <2>1, <2>2 DEF Read
    <3>2. got' = rx[rxRead] /\ rxRead' = After(rxRead) /\ rxCount' = rxCount - 1
      BY <2>2 DEF Read
    <3>3. Received!Get
      BY <2>1, <3>1, <3>2, RingGet DEF Received!Get
    <3>4. QED
      BY <3>3 DEF Received!Next
  <2>3. CASE Receive /\ ~closing /\ rxCount # QueueSize
    <3>1. /\ arrived' = arrived + 1 /\ rx' = [rx EXCEPT ![rxWrite] = arrived + 1]
          /\ rxCount' = rxCount + 1 /\ UNCHANGED <<rxRead, dropped, got>>
      BY <2>3 DEF Receive, jsVars
    <3>2. rxCount \in 0..QueueSize - 1
      BY <2>1, <2>3, UdpAssumption
    <3>3. Ring(rx', rxRead, rxCount') = Append(Ring(rx, rxRead, rxCount), arrived')
      <4>1. Ring([rx EXCEPT ![At(rxRead, rxCount)] = arrived + 1], rxRead, rxCount + 1)
              = Append(Ring(rx, rxRead, rxCount), arrived + 1)
        BY <2>1, <3>2, RingPut, Zenon
      <4>2. QED
        BY <2>1, <3>1, <4>1
    <3>4. Len(Ring(rx, rxRead, rxCount)) < QueueSize
      BY <2>1, <3>2, RingIsSeq, UdpAssumption
    <3>5. Received!Put
      BY <3>1, <3>3, <3>4 DEF Received!Put
    <3>6. QED
      BY <3>5 DEF Received!Next
  <2>4. CASE Receive /\ ~closing /\ rxCount = QueueSize
    <3>1. /\ arrived' = arrived + 1 /\ rx' = [rx EXCEPT ![rxWrite] = arrived + 1]
          /\ rxRead' = After(rxRead) /\ dropped' = dropped + 1 /\ UNCHANGED <<rxCount, got>>
      BY <2>4 DEF Receive, DropsOldest, jsVars
    <3>2. /\ After(rxRead) \in Slots /\ QueueSize - 1 \in 0..QueueSize - 1
          /\ QueueSize \in 1..QueueSize /\ QueueSize - 1 + 1 = QueueSize
      BY <2>1, NextSlot, UdpAssumption
    <3>3. rxWrite = At(After(rxRead), QueueSize - 1)
      BY <2>1, <2>4, AtEnd
    <3>4. Ring(rx, After(rxRead), QueueSize - 1) = Tail(Ring(rx, rxRead, QueueSize))
      BY <2>1, <3>2, RingGet
    <3>5. Ring(rx', After(rxRead), QueueSize) = Append(Ring(rx, After(rxRead), QueueSize - 1), arrived')
      <4>1. Ring([rx EXCEPT ![At(After(rxRead), QueueSize - 1)] = arrived + 1],
                 After(rxRead), QueueSize - 1 + 1)
              = Append(Ring(rx, After(rxRead), QueueSize - 1), arrived + 1)
        BY <2>1, <3>2, RingPut, Zenon
      <4>2. QED
        BY <3>1, <3>2, <3>3, <4>1
    <3>6. Len(Ring(rx, rxRead, rxCount)) = QueueSize
      BY <2>1, <2>4, RingIsSeq
    <3>7. Received!Put
      BY <2>4, <3>1, <3>4, <3>5, <3>6 DEF Received!Put
    <3>8. QED
      BY <3>7 DEF Received!Next
  <2>5. CASE UNCHANGED <<rxRing, got>>
    BY <2>5 DEF rxRing
  <2>6. QED
    BY <1>2, <2>2, <2>3, <2>4, <2>5, Others DEF Receive, jsVars
<1>3. ASSUME IInv, [Next]_vars
      PROVE  [Sending!Next]_<<Ring(tx, txRead, txCount), written, sent, 0>>
  <2>1. /\ tx \in [Slots -> Nat] /\ txRead \in Slots /\ txCount \in 0..QueueSize
        /\ txWrite = At(txRead, txCount) /\ written \in Nat /\ written + 1 \in Nat
    BY <1>3, UdpAssumption DEF IInv, TypeOK, Indices
  <2>2. CASE Take /\ txCount > 0
    <3>1. txCount \in 1..QueueSize /\ tx' = tx /\ written' = written
      BY <2>1, <2>2 DEF Take
    <3>2. sent' = tx[txRead] /\ txRead' = After(txRead) /\ txCount' = txCount - 1
      BY <2>2 DEF Take
    <3>3. Sending!Get
      BY <2>1, <3>1, <3>2, RingGet DEF Sending!Get
    <3>4. QED
      BY <3>3 DEF Sending!Next
  <2>3. CASE Write
    <3>1. /\ written' = written + 1 /\ tx' = [tx EXCEPT ![txWrite] = written + 1]
          /\ txCount' = txCount + 1 /\ UNCHANGED <<txRead, sent>> /\ txCount < QueueSize
      BY <2>3 DEF Write, Room
    <3>2. txCount \in 0..QueueSize - 1
      BY <2>1, <3>1, UdpAssumption
    <3>3. Ring(tx', txRead, txCount') = Append(Ring(tx, txRead, txCount), written')
      <4>1. Ring([tx EXCEPT ![At(txRead, txCount)] = written + 1], txRead, txCount + 1)
              = Append(Ring(tx, txRead, txCount), written + 1)
        BY <2>1, <3>2, RingPut, Zenon
      <4>2. QED
        BY <2>1, <3>1, <4>1
    <3>4. Len(Ring(tx, txRead, txCount)) < QueueSize
      BY <2>1, <3>2, RingIsSeq, UdpAssumption
    <3>5. Sending!Put
      BY <3>1, <3>3, <3>4 DEF Sending!Put
    <3>6. QED
      BY <3>5 DEF Sending!Next
  <2>4. CASE UNCHANGED <<txRing, sent>>
    BY <2>4 DEF txRing
  <2>5. QED
    BY <1>3, <2>2, <2>3, <2>4, Others DEF Take
<1>4. QED
  BY <1>1, <1>2, <1>3, Invariance, PTL
  DEF Spec, RingsAreQueues, ReceivesInOrder, SendsInOrder, Received!Spec, Sending!Spec
=============================================================================
