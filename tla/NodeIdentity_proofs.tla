-------------------------- MODULE NodeIdentity_proofs --------------------------
(***************************************************************************)
(* The identity is kept however many keys expire, however often power is     *)
(* lost or a write fails, and wherever that happens: NodeIdentity's safety    *)
(* for every Limit.  The argument follows the key under which the control    *)
(* plane knows the node.  It is always one of the two public keys in flash;   *)
(* a rotation keeps the old one there before it touches the pair; and as     *)
(* long as a MicroLink runs, it still names both of them, so that whatever    *)
(* the control plane books next is again one of the two.                      *)
(***************************************************************************)
EXTENDS NodeIdentity, TLAPS

Held(key) == key # 0 => key \in {pub, old}
Named(key) == key # 0 => key \in {node, oldNode}

\* Without a pair there is no previous key.
PairExists == (pri = 0 => pub = 0 /\ old = 0) /\ (pub = 0 => old = 0)

\* The first pair is saved where there was none; later, the previous key is written
\* before the pair changes.
OldIsFirst == /\ at = "newPri" => pri = 0
              /\ at = "newPub" => pri # 0
              /\ at \in {"newPri", "newPub"} => pub = 0 /\ keys # 0
              /\ at = "setOld" => old = 0 /\ pub # 0
              /\ at \in {"setPri", "setPub"} => old = pub /\ pub # 0

\* A running MicroLink has the keys of the flash, and the control plane knows
\* the device, or the user's session, by one of them.
LinkKnows ==
  coord # "none" => /\ at = "run" /\ node = pub /\ oldNode \in {0, old}
                    /\ Named(current) /\ Named(session.key)

\* A session to be signed in to names the node that there is already.
SessionNames ==
  session # NoSession => session.key # 0 /\ (current # 0 => current \in {session.key, session.old})

NodesMatch == nodes <= 1 /\ (current = 0 => nodes = 0)

ResetForgets == resetting \/ at = "closed" => ~savedAuth

KeysSound == PairExists /\ OldIsFirst /\ NodeIsKept /\ Held(session.key) /\ LinkKnows

PlaneSound == SessionNames /\ NodesMatch /\ ResetForgets /\ SpentKeyIsNotNeeded

IInv == TypeOK /\ KeysSound /\ PlaneSound

-----------------------------------------------------------------------------
(* Types *)

\* TypeOK in two halves: Booleans and arithmetic are different provers' work.
Booleans == /\ savedAuth \in BOOLEAN /\ resetting \in BOOLEAN /\ authKey \in BOOLEAN
            /\ url \in BOOLEAN /\ approval \in BOOLEAN /\ spent \in BOOLEAN

Places == /\ at \in {"off", "newPri", "newPub", "run", "check", "setOld", "setPri", "setPub",
                     "commit", "remake", "closed"}
          /\ coord \in {"none", "connect", "register", "wait", "fetch", "poll", "reconnect", "idle"}
          /\ state \in {"idle", "connecting", "registering", "connected", "reconnecting", "error",
                        "needs-auth", "needs-approval", "expired"}
          /\ status \in {"none", "unapproved", "valid", "expired"}
          /\ attempts \in 0..1 /\ lastError \in {0, 1, 4}

Numbers == /\ keys \in Nat
           /\ pri \in 0..keys /\ pub \in 0..keys /\ old \in 0..keys
           /\ node \in 0..keys /\ oldNode \in 0..keys
           /\ current \in 0..keys /\ nodes \in Nat
           /\ session \in [key : 0..keys, old : 0..keys]

Counts == left \in [Events -> Nat]

LEMMA InitType == Init => TypeOK
<1> SUFFICES ASSUME Init PROVE TypeOK
  OBVIOUS
<1>1. Booleans
  BY Zenon DEF Init, Booleans
<1>2. Places /\ Numbers
  BY DEF Init, Places, Numbers, NoSession
<1>3. Counts
  BY LimitAssumption DEF Init, Counts
<1>4. QED
  BY <1>1, <1>2, <1>3, Zenon DEF TypeOK, Booleans, Places, Numbers, Counts

LEMMA CountsStep == TypeOK /\ [Next]_vars => Counts'
<1> SUFFICES ASSUME Counts, [Next]_vars PROVE Counts'
  BY Zenon DEF TypeOK, Counts
<1>1. ASSUME NEW event \in Events, Spend(event) PROVE Counts'
  BY <1>1 DEF Spend, Counts
<1>2. CASE UNCHANGED left
  BY <1>2 DEF Counts
<1>3. UNCHANGED left \/ \E event \in Events : Spend(event)
  <2>1. CASE ManagerStep
    BY <2>1, Zenon DEF ManagerStep, Boot, SavePair, Connected, GivesUp, BeginRotation, CheckKeys, WriteKey,
                Remake, CloseTailnet, FactoryReset, ResetFails
  <2>2. CASE ConnectWorks \/ Reconnect \/ WaitEnds \/ FetchPeers \/ LearnsExpiry
    BY <2>2, Zenon DEF ConnectWorks, Reconnect, WaitEnds, FetchPeers, LearnsExpiry, Local
  <2>3. ASSUME NEW result, Take(result) PROVE UNCHANGED left \/ \E event \in Events : Spend(event)
    BY <2>3, Zenon DEF Take, ForgetOld, Events
  <2>4. CASE RegisterAnswered \/ RegisterLost
    BY <2>3, <2>4, Zenon DEF RegisterAnswered, RegisterLost
  <2>5. CASE PowerLoss \/ SaveFails \/ RotationFault \/ RequestReset \/ LinkFails
    BY <2>5, Zenon DEF PowerLoss, SaveFails, RotationFault, RequestReset, LinkFails, Local, Events
  <2>6. CASE Visit \/ Approve \/ Expire \/ Extend
    BY <2>6, Zenon DEF Visit, Approve, Expire, Extend, Events
  <2>7. CASE UNCHANGED vars
    BY <2>7, Zenon DEF vars
  <2>8. QED
    BY <2>1, <2>2, <2>4, <2>5, <2>6, <2>7, Zenon DEF Next, CoordStep, Environment
<1>4. QED
  BY <1>1, <1>2, <1>3

LEMMA BooleansStep == TypeOK /\ [Next]_vars => Booleans'
<1> SUFFICES ASSUME Booleans, [Next]_vars PROVE Booleans'
  BY Zenon DEF TypeOK, Booleans
<1>1. CASE ManagerStep
  <2>1. CASE Boot \/ SavePair \/ BeginRotation \/ Remake \/ CloseTailnet
    BY <1>1, <2>1, Zenon DEF Booleans, Boot, SavePair, BeginRotation, Remake, CloseTailnet, LoadKeys,
                Runs, NoLink, Idle, link, plane
  <2>2. CASE Connected \/ GivesUp \/ CheckKeys \/ WriteKey \/ FactoryReset \/ ResetFails
    BY <1>1, <2>2, Zenon DEF Booleans, Connected, GivesUp, CheckKeys, WriteKey, FactoryReset,
                ResetFails, Idle, link, plane
  <2>3. QED
    BY <1>1, <2>1, <2>2, Zenon DEF ManagerStep
<1>2. CASE ConnectWorks \/ Reconnect \/ WaitEnds \/ FetchPeers \/ LearnsExpiry \/ LinkFails
  BY <1>2, Zenon DEF Booleans, ConnectWorks, Reconnect, WaitEnds, FetchPeers, LearnsExpiry, LinkFails,
              Local, Here, plane
<1>3. ASSUME NEW result, Take(result) PROVE UNCHANGED <<savedAuth, resetting, authKey>>
                                          /\ url' \in BOOLEAN /\ approval' \in BOOLEAN
  BY <1>3, Zenon DEF Take, Here
<1>4. ASSUME NEW a, Answer(a) PROVE spent' = spent \/ spent' = TRUE
  BY <1>4, Zenon DEF Answer, Same, plane
<1>5. Same => spent' = spent
  BY Zenon DEF Same, plane
<1>6. CASE RegisterAnswered \/ RegisterLost
  BY <1>3, <1>4, <1>5, <1>6, Zenon DEF Booleans, RegisterAnswered, RegisterLost
<1>7. CASE PowerLoss \/ SaveFails \/ RotationFault \/ RequestReset
  BY <1>7, Zenon DEF Booleans, PowerLoss, SaveFails, RotationFault, RequestReset, KeepsAuth, NoLink,
              Idle, link, plane
<1>8. CASE Visit \/ Approve \/ Expire \/ Extend
  BY <1>8, Zenon DEF Booleans, Visit, Approve, Expire, Extend, Here, link
<1>9. CASE UNCHANGED vars
  BY <1>9, Zenon DEF Booleans, vars, link, plane
<1>10. QED
  BY <1>1, <1>2, <1>6, <1>7, <1>8, <1>9, Zenon DEF Next, CoordStep, Environment

LEMMA PlacesStep == TypeOK /\ [Next]_vars => Places'
<1> SUFFICES ASSUME Places, [Next]_vars PROVE Places'
  BY Zenon DEF TypeOK, Places
<1>1. CASE ManagerStep
  BY <1>1 DEF Places, ManagerStep, Boot, SavePair, Connected, GivesUp, BeginRotation, CheckKeys,
              WriteKey, Remake, CloseTailnet, FactoryReset, ResetFails, LoadKeys, Runs, NoLink, Idle,
              link, plane,
              manager, RotationFails, Following
<1>2. CASE ConnectWorks \/ Reconnect \/ WaitEnds \/ FetchPeers \/ LearnsExpiry \/ LinkFails
  BY <1>2 DEF Places, ConnectWorks, Reconnect, WaitEnds, FetchPeers, LearnsExpiry, LinkFails,
              Local, Here, plane, manager, WaitingState
<1>3. ASSUME NEW result, Take(result) PROVE /\ UNCHANGED manager
                                            /\ coord' \in {"idle", "wait", "reconnect", "fetch"}
                                            /\ state' \in {state, "error", "expired", "needs-auth",
                                                           "needs-approval", "registering"}
  BY <1>3 DEF Take, Here
<1>4. ASSUME NEW a, Answer(a) PROVE status' \in {status, "valid", "unapproved"}
  BY <1>4 DEF Answer, Same, plane, Approvals, Join
<1>5. Same => status' = status
  BY DEF Same, plane
<1>6. CASE RegisterAnswered \/ RegisterLost
  BY <1>3, <1>4, <1>5, <1>6 DEF Places, RegisterAnswered, RegisterLost, manager
<1>7. CASE PowerLoss \/ SaveFails \/ RotationFault \/ RequestReset
  BY <1>7 DEF Places, PowerLoss, SaveFails, RotationFault, RequestReset, NoLink, Idle, link, plane, manager,
              RotationFails
<1>8. CASE Visit \/ Approve \/ Expire \/ Extend
  BY <1>8 DEF Places, Visit, Approve, Expire, Extend, Here, link, manager, Join, Approvals
<1>9. CASE UNCHANGED vars
  BY <1>9 DEF Places, vars, link, plane, manager
<1>10. QED
  BY <1>1, <1>2, <1>6, <1>7, <1>8, <1>9, Zenon DEF Next, CoordStep, Environment

LEMMA NumbersStep == TypeOK /\ [Next]_vars => Numbers'
<1> SUFFICES ASSUME Numbers, [Next]_vars PROVE Numbers'
  BY Zenon DEF TypeOK, Numbers
<1>1. CASE ManagerStep
  <2>1. CASE Boot \/ SavePair \/ Remake
    BY <1>1, <2>1 DEF Numbers, Boot, SavePair, Remake, LoadKeys, Runs, Idle, flash, link, plane
  <2>2. CASE Connected \/ GivesUp \/ BeginRotation \/ CloseTailnet \/ ResetFails
    BY <1>1, <2>2 DEF Numbers, Connected, GivesUp, BeginRotation, CloseTailnet, ResetFails, NoLink, Idle,
                flash, link, plane
  <2>3. CASE CheckKeys \/ WriteKey
    BY <1>1, <2>3 DEF Numbers, CheckKeys, WriteKey, Idle, flash, link, plane
  <2>4. CASE FactoryReset
    BY <1>1, <2>4 DEF Numbers, FactoryReset, NoSession, link
  <2>5. QED
    BY <1>1, <2>1, <2>2, <2>3, <2>4, Zenon DEF ManagerStep
<1>2. CASE ConnectWorks \/ Reconnect \/ WaitEnds \/ FetchPeers \/ LearnsExpiry \/ LinkFails
  BY <1>2 DEF Numbers, ConnectWorks, Reconnect, WaitEnds, FetchPeers, LearnsExpiry, LinkFails,
              Local, Here, plane, flash
<1>3. ASSUME NEW result, Take(result) PROVE /\ UNCHANGED <<keys, pri, pub, node>>
                                            /\ old' \in {0, old} /\ oldNode' \in {0, oldNode}
  BY <1>3 DEF Take, Here, ForgetOld
<1>4. ASSUME NEW a, Answer(a), UNCHANGED keys
      PROVE current' \in 0..keys' /\ nodes' \in Nat /\ session' \in [key : 0..keys', old : 0..keys']
  BY <1>4 DEF Numbers, Answer, Same, plane, Join, NoSession
<1>5. Same => UNCHANGED <<current, nodes, session>>
  BY DEF Same, plane
<1>6. CASE RegisterAnswered \/ RegisterLost
  BY <1>3, <1>4, <1>5, <1>6 DEF Numbers, RegisterAnswered, RegisterLost
<1>7. CASE PowerLoss \/ SaveFails \/ RotationFault \/ RequestReset
  BY <1>7 DEF Numbers, PowerLoss, SaveFails, RotationFault, RequestReset, NoLink, Idle, flash, link, plane
<1>8. CASE Visit \/ Approve \/ Expire \/ Extend
  BY <1>8 DEF Numbers, Visit, Approve, Expire, Extend, Here, flash, link, Join, NoSession
<1>9. CASE UNCHANGED vars
  BY <1>9 DEF Numbers, vars, flash, link, plane
<1>10. QED
  BY <1>1, <1>2, <1>6, <1>7, <1>8, <1>9, Zenon DEF Next, CoordStep, Environment

LEMMA TypeStep == TypeOK /\ [Next]_vars => TypeOK'
<1> SUFFICES ASSUME TypeOK, [Next]_vars PROVE TypeOK'
  OBVIOUS
<1>1. Booleans' /\ Places' /\ Numbers' /\ Counts'
  BY BooleansStep, PlacesStep, NumbersStep, CountsStep, Zenon
<1>2. QED
  BY <1>1, Zenon DEF TypeOK, Booleans, Places, Numbers, Counts

-----------------------------------------------------------------------------
(* The keys in flash and in the MicroLink *)

\* A MicroLink that starts takes the pair of the flash, or makes the first one.
LEMMA LoadingKnows ==
  ASSUME TypeOK, KeysSound, LoadKeys, coord = "none", UNCHANGED plane
  PROVE KeysSound'
<1> USE DEF TypeOK, KeysSound, LoadKeys, Runs, flash, plane, PairExists, OldIsFirst, NodeIsKept,
            Held, LinkKnows, Named
<1>1. CASE pri = 0
  BY <1>1 DEF link
<1>2. CASE pri # 0
  BY <1>2
<1>3. QED
  BY <1>1, <1>2

\* The first pair is saved, or not, before the control plane knows the device.
LEMMA SavingKnows ==
  ASSUME TypeOK, KeysSound, SavePair \/ SaveFails
  PROVE KeysSound'
<1> USE DEF TypeOK, KeysSound, SavePair, SaveFails, Runs, Idle, flash, link, plane, PairExists,
            OldIsFirst, NodeIsKept, Held, LinkKnows, Named
<1>1. pub = 0 /\ old = 0 /\ keys # 0 /\ current = 0 /\ session.key = 0 /\ coord = "none"
  OBVIOUS
<1>2. CASE SavePair /\ at = "newPri"
  BY <1>1, <1>2
<1>3. CASE SavePair /\ at = "newPub"
  <2>1. pub' = keys /\ old' = 0 /\ at' = "run" /\ node' = keys /\ oldNode' = 0 /\ keys' = keys
    BY <1>1, <1>3
  <2>2. pri' = pri /\ current' = 0 /\ session'.key = 0
    BY <1>1, <1>3
  <2>3. pri # 0
    BY <1>3
  <2>4. QED
    BY <1>1, <2>1, <2>2, <2>3
<1>4. CASE SaveFails
  BY <1>1, <1>4
<1>5. QED
  BY <1>2, <1>3, <1>4

\* A rotation that stops anywhere leaves the current key in flash.
LEMMA RotationKeeps ==
  ASSUME TypeOK, KeysSound, CheckKeys \/ WriteKey \/ RotationFault
  PROVE KeysSound'
<1>1. CASE CheckKeys
  BY <1>1 DEF TypeOK, KeysSound, CheckKeys, MayRotate, RotationFails, Idle, flash, link, plane,
              PairExists, OldIsFirst, NodeIsKept, Held, LinkKnows, Named
<1>2. CASE WriteKey
  <2>1. at # "commit" => keys # 0
    BY <1>2 DEF TypeOK, KeysSound, WriteKey, PairExists, OldIsFirst, LinkKnows
  <2>2. QED
    BY <1>2, <2>1 DEF TypeOK, KeysSound, WriteKey, Writes, Following, Idle, link, plane,
              PairExists, OldIsFirst, NodeIsKept, Held, LinkKnows, Named
<1>3. CASE RotationFault
  BY <1>3 DEF KeysSound, RotationFault, RotationFails, Idle, flash, link, plane,
              PairExists, OldIsFirst, NodeIsKept, Held, LinkKnows, Named
<1>4. QED
  BY <1>1, <1>2, <1>3

\* Whatever the control plane books with a registration is the key it names.
LEMMA AnswerKnows ==
  ASSUME TypeOK, KeysSound, coord = "register", NEW a, Answer(a)
  PROVE /\ current' # 0 => current' \in {node, oldNode}
        /\ session'.key # 0 => session'.key \in {node, oldNode}
        /\ a = "ok" => current' = node /\ session' = NoSession
  BY DEF TypeOK, KeysSound, LinkKnows, Named, Answer, Join, Admits, Approvals, Same, plane, NoSession

LEMMA RegisterKeeps ==
  ASSUME TypeOK, KeysSound, RegisterAnswered \/ RegisterLost
  PROVE KeysSound'
<1>1. coord = "register"
  BY DEF RegisterAnswered, RegisterLost
<1>2. PICK result : Take(result) /\ (result = "ok" => \E a \in {"ok"} : Answer(a))
  <2>1. CASE RegisterAnswered
    BY <2>1 DEF RegisterAnswered
  <2>2. CASE RegisterLost
    <3>1. Silence \in {"approval", "url", "retry"}
      BY DEF Silence
    <3>2. PICK result \in {"approval", "url", "retry"} : Take(result)
      BY <2>2, <3>1 DEF RegisterLost
    <3>3. QED
      BY <3>2
  <2>3. QED
    BY <2>1, <2>2
<1>3. /\ current' # 0 => current' \in {node, oldNode}
      /\ session'.key # 0 => session'.key \in {node, oldNode}
  BY <1>1, AnswerKnows DEF RegisterAnswered, RegisterLost, Same, plane, KeysSound, LinkKnows, Named
<1>4. result = "ok" => current' = node /\ session' = NoSession
  BY <1>1, <1>2, AnswerKnows
<1>5. /\ at = "run" /\ node = pub /\ oldNode \in {0, old}
      /\ UNCHANGED <<at, pri, pub, node>>
  BY <1>1, <1>2 DEF KeysSound, LinkKnows, Take, Here, manager
<1>6. CASE result # "ok"
  BY <1>2, <1>3, <1>5, <1>6 DEF KeysSound, Take, ForgetOld, Forgets,
              PairExists, OldIsFirst, NodeIsKept, Held, LinkKnows, Named
<1>7. CASE result = "ok"
  BY <1>2, <1>4, <1>5, <1>7 DEF KeysSound, Take, ForgetOld, Forgets, NoSession,
              PairExists, OldIsFirst, NodeIsKept, Held, LinkKnows, Named
<1>8. QED
  BY <1>6, <1>7

LEMMA KeysStep == TypeOK /\ KeysSound /\ [Next]_vars => KeysSound'
<1> SUFFICES ASSUME TypeOK, KeysSound, [Next]_vars PROVE KeysSound'
  OBVIOUS
<1> USE DEF KeysSound, PairExists, OldIsFirst, NodeIsKept, Held, LinkKnows, Named
<1>1. CASE Boot \/ Remake
  BY <1>1, LoadingKnows DEF Boot, Remake, Idle, plane
<1>2. CASE SavePair \/ SaveFails
  BY <1>2, SavingKnows
<1>3. CASE Connected \/ GivesUp \/ ResetFails
  BY <1>3 DEF Connected, GivesUp, ResetFails, Idle, flash, link, plane
<1>4. CASE BeginRotation \/ CloseTailnet \/ PowerLoss
  BY <1>4 DEF BeginRotation, CloseTailnet, PowerLoss, NoLink, Idle, flash, plane
<1>5. CASE CheckKeys \/ WriteKey \/ RotationFault
  BY <1>5, RotationKeeps
<1>6. CASE FactoryReset
  BY <1>6 DEF FactoryReset, NoSession, link
<1>7. CASE (CoordStep /\ ~RegisterAnswered) \/ LinkFails
  BY <1>7 DEF CoordStep, ConnectWorks, Reconnect, WaitEnds, FetchPeers, LearnsExpiry, LinkFails,
              Local, Here, flash, plane, manager
<1>8. CASE RegisterAnswered \/ RegisterLost
  BY <1>8, RegisterKeeps
<1>9. CASE RequestReset \/ Approve \/ Expire \/ Extend
  BY <1>9 DEF RequestReset, Approve, Expire, Extend, Here, flash, link, plane, manager
<1>10. CASE Visit
  BY <1>10 DEF Visit, Join, NoSession, flash, link, manager
<1>11. CASE UNCHANGED vars
  BY <1>11 DEF vars, flash, link, plane, manager
<1>12. QED
  BY <1>1, <1>2, <1>3, <1>4, <1>5, <1>6, <1>7, <1>8, <1>9, <1>10, <1>11, Zenon
     DEF Next, ManagerStep, CoordStep, Environment

-----------------------------------------------------------------------------
(* The control plane's one node *)

LEMMA AnswerBooksOne ==
  ASSUME TypeOK, KeysSound, PlaneSound, coord = "register", NEW a, Answer(a)
  PROVE SessionNames' /\ NodesMatch' /\ (savedAuth /\ spent' => current' # 0)
<1> USE DEF TypeOK, KeysSound, PlaneSound, LinkKnows, Named, SessionNames, NodesMatch,
            SpentKeyIsNotNeeded, Join, Same, plane, NoSession
<1>1. current # 0 => node # 0
  BY DEF PairExists, NodeIsKept
<1>2. SessionNames'
  BY <1>1 DEF Answer
<1>3. NodesMatch'
  BY <1>1 DEF Answer, SendsAuth
<1>4. savedAuth /\ spent' => current' # 0
  BY <1>1 DEF Answer
<1>5. QED
  BY <1>2, <1>3, <1>4

LEMMA PlaneStep == TypeOK /\ KeysSound /\ PlaneSound /\ [Next]_vars => PlaneSound'
<1> SUFFICES ASSUME TypeOK, KeysSound, PlaneSound, [Next]_vars PROVE PlaneSound'
  OBVIOUS
<1> USE DEF PlaneSound, SessionNames, NodesMatch, ResetForgets, SpentKeyIsNotNeeded
<1>1. CASE ManagerStep /\ ~FactoryReset
  BY <1>1 DEF ManagerStep, Boot, SavePair, Connected, GivesUp, BeginRotation, CheckKeys, WriteKey, Remake,
              CloseTailnet, ResetFails, RotationFails, Following, LoadKeys, Idle, plane
<1>2. CASE FactoryReset
  BY <1>2 DEF FactoryReset, NoSession
<1>3. CASE (CoordStep /\ ~RegisterAnswered) \/ LinkFails
  BY <1>3 DEF CoordStep, ConnectWorks, Reconnect, WaitEnds, FetchPeers, LearnsExpiry, LinkFails,
              Local, Here, plane, manager
<1>4. CASE RegisterAnswered \/ RegisterLost
  <2>1. coord = "register" /\ UNCHANGED <<at, resetting, savedAuth>>
    BY <1>4 DEF RegisterAnswered, RegisterLost, Take, Here, manager
  <2>2. CASE Same
    BY <2>1, <2>2 DEF Same, plane
  <2>3. CASE ~Same
    BY <1>4, <2>1, <2>3, AnswerBooksOne DEF RegisterAnswered, RegisterLost
  <2>4. QED
    BY <2>2, <2>3
<1>5. CASE PowerLoss \/ SaveFails \/ RotationFault \/ RequestReset
  BY <1>5 DEF PowerLoss, SaveFails, RotationFault, RotationFails, RequestReset, KeepsAuth, Idle, plane, manager
<1>6. CASE Approve \/ Expire \/ Extend
  BY <1>6 DEF Approve, Expire, Extend, Here, manager
<1>7. CASE Visit
  BY <1>7 DEF TypeOK, Visit, Join, NoSession, manager
<1>8. CASE UNCHANGED vars
  BY <1>8 DEF vars, plane, manager
<1>9. QED
  BY <1>1, <1>2, <1>3, <1>4, <1>5, <1>6, <1>7, <1>8, Zenon
     DEF Next, ManagerStep, CoordStep, Environment

LEMMA InitIInv == Init => IInv
<1>1. Init => KeysSound
  BY DEF Init, KeysSound, PairExists, OldIsFirst, NodeIsKept, Held, LinkKnows, NoSession
<1>2. Init => PlaneSound
  BY DEF Init, PlaneSound, SessionNames, NodesMatch, ResetForgets, SpentKeyIsNotNeeded
<1>3. QED
  BY <1>1, <1>2, InitType, Zenon DEF IInv

\* However often keys expire, writes fail, power is lost or the identity is
\* reset: the device still has the key that the control plane knows it by, no
\* second node is made, and no used auth key waits for a registration.
THEOREM Identity == Spec => []IdentityIsKept
<1>1. Init => IInv
  BY InitIInv
<1>2. IInv /\ [Next]_vars => IInv'
  BY TypeStep, KeysStep, PlaneStep, Zenon DEF IInv
<1>3. IInv => IdentityIsKept
  BY DEF IInv, KeysSound, PlaneSound, IdentityIsKept, NodesMatch, OneNode
<1>4. QED
  BY <1>1, <1>2, <1>3, PTL DEF Spec

-----------------------------------------------------------------------------
(* What the user is asked *)

\* A registration that succeeded ends the asking.
Asking == UserStaysAsked /\ (coord \in {"fetch", "poll"} => ~url /\ ~approval)

LEMMA AskingStep == Asking /\ [Next]_vars => Asking'
<1> SUFFICES ASSUME Asking, [Next]_vars PROVE Asking'
  OBVIOUS
<1> USE DEF Asking, UserStaysAsked
<1>1. CASE Boot \/ SavePair \/ BeginRotation \/ Remake \/ CloseTailnet \/ PowerLoss
  BY <1>1, Zenon DEF Boot, SavePair, BeginRotation, Remake, CloseTailnet, PowerLoss, LoadKeys, Runs,
              NoLink, link
<1>2. CASE UNCHANGED link
  BY <1>2, Zenon DEF link
<1>3. CASE ConnectWorks \/ WaitEnds \/ FetchPeers \/ LearnsExpiry \/ LinkFails
  BY <1>3 DEF ConnectWorks, WaitEnds, FetchPeers, LearnsExpiry, LinkFails, Local
<1>4. CASE Reconnect
  BY <1>4 DEF Reconnect, WaitingState, Local
<1>5. CASE RegisterAnswered
  BY <1>5 DEF RegisterAnswered, Take
<1>6. CASE RegisterLost
  <2>1. CASE Take("retry")
    BY <1>6, <2>1 DEF RegisterLost, Take
  <2>2. CASE approval /\ Take("approval")
    BY <1>6, <2>2 DEF RegisterLost, Take
  <2>3. CASE ~approval /\ url /\ Take("url")
    BY <1>6, <2>3 DEF RegisterLost, Take
  <2>4. QED
    BY <1>6, <2>1, <2>2, <2>3 DEF RegisterLost, Silence
<1>7. \/ UNCHANGED link \/ RegisterAnswered \/ RegisterLost
      \/ Boot \/ SavePair \/ BeginRotation \/ Remake \/ CloseTailnet \/ PowerLoss
      \/ ConnectWorks \/ WaitEnds \/ FetchPeers \/ LearnsExpiry \/ LinkFails \/ Reconnect
  BY Zenon DEF Next, ManagerStep, CoordStep, Environment, vars, Connected, GivesUp, CheckKeys, WriteKey,
     FactoryReset, ResetFails, SaveFails, RotationFault, RequestReset, Visit, Approve, Expire, Extend
<1>8. QED
  BY <1>1, <1>2, <1>3, <1>4, <1>5, <1>6, <1>7, Zenon

\* Through timeouts, lost answers and reconnections the state shows the step that
\* is the user's to take, and never one that is not.
THEOREM Asked == Spec => []UserStaysAsked
<1>1. Init => Asking
  BY DEF Init, Asking, UserStaysAsked
<1>2. Asking => UserStaysAsked
  BY Zenon DEF Asking
<1>3. QED
  BY <1>1, <1>2, AskingStep, PTL DEF Spec
=============================================================================
