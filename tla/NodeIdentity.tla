----------------------------- MODULE NodeIdentity -----------------------------
(***************************************************************************)
(* The node key of a device: how the patched MicroLink stores, registers,   *)
(* rotates and forgets it (patches/0001-moddable-esp-idf6.patch), with the  *)
(* part of the manager's task that asks for a rotation and main.js's reset  *)
(* of the identity.  Flash is written one key at a time; power may be lost, *)
(* or a write fail, between any two.  The control plane is external: it     *)
(* knows the device as one node, under its current key.  Keys are numbered  *)
(* in the order they are generated; 0 is no key.                            *)
(***************************************************************************)
EXTENDS Naturals

CONSTANT Limit          \* bound: how often each of Events happens

Events == {"loss", "fault", "reset", "expiry"}

ASSUME LimitAssumption == Limit \in [Events -> Nat]

VARIABLES
  pri, pub, old,     \* wg_private, wg_public and old_wg_pub in NVS
  savedAuth,         \* the saved configuration has an auth key
  keys,              \* keys generated so far
  at,                \* where manager_task is; "off" before there is one
  attempts, lastError,
  resetting,         \* resetTailnetIdentity awaits tailnet.close()
  coord, state,      \* ml_coord_task's state and ml->state
  node, oldNode,     \* ml->wg_public_key and ml->old_wg_public_key
  authKey,           \* manager->auth_key is set
  url, approval,     \* ml->auth_url is set; ml->approval_pending
  current, status,   \* the control plane's: the node's key, and what it is worth
  session,           \* the AuthURL it gave out last, and for which request
  spent, nodes,      \* the auth key was used; nodes made for this device
  left               \* of Limit

flash == <<pri, pub, old>>
manager == <<at, attempts, lastError>>
link == <<coord, state, node, oldNode, url, approval>>
plane == <<current, status, session, spent, nodes>>
vars == <<flash, savedAuth, keys, manager, resetting, link, authKey, plane, left>>

NoSession == [key |-> 0, old |-> 0]

\* A new device, with an auth key in its configuration or without.
Init ==
  /\ pri = 0 /\ pub = 0 /\ old = 0 /\ savedAuth \in BOOLEAN /\ keys = 0
  /\ at = "off" /\ attempts = 0 /\ lastError = 0 /\ resetting = FALSE
  /\ coord = "none" /\ state = "idle" /\ node = 0 /\ oldNode = 0
  /\ url = FALSE /\ approval = FALSE /\ authKey = FALSE
  /\ current = 0 /\ status = "none" /\ session = NoSession /\ spent = FALSE /\ nodes = 0
  /\ left = Limit

Spend(event) == left[event] > 0 /\ left' = [left EXCEPT ![event] = @ - 1]

-----------------------------------------------------------------------------
(* The manager's task.  An operator whose name starts with Bug is a          *)
(* plausible mistake in the definition after it; no specification uses it.   *)

NoLink == /\ coord' = "none" /\ state' = "idle" /\ node' = 0 /\ oldNode' = 0
          /\ url' = FALSE /\ approval' = FALSE

\* A MicroLink runs with a public key.
Runs(key) == /\ node' = key /\ oldNode' = old
             /\ coord' = "connect" /\ state' = "connecting"
             /\ url' = FALSE /\ approval' = FALSE

\* load_or_generate_keys, in a new MicroLink.  A private key is the pair's word: a
\* public key that is missing beside it is not made again.
LoadKeys == /\ IF pri = 0
               THEN at' = "newPri" /\ keys' = keys + 1 /\ UNCHANGED link
               ELSE at' = "run" /\ Runs(pub) /\ UNCHANGED keys
            /\ UNCHANGED flash

Boot == /\ at = "off"
        /\ attempts' = 0 /\ lastError' = 0
        /\ authKey' = savedAuth
        /\ LoadKeys
        /\ UNCHANGED <<savedAuth, resetting, plane, left>>

Idle == UNCHANGED <<savedAuth, resetting, authKey, plane>>

\* The first pair is saved, and the MicroLink runs ...
SavePair == /\ at \in {"newPri", "newPub"}
            /\ IF at = "newPri"
               THEN at' = "newPub" /\ pri' = keys /\ UNCHANGED <<pub, link>>
               ELSE at' = "run" /\ pub' = keys /\ Runs(keys) /\ UNCHANGED pri
            /\ UNCHANGED <<old, keys, attempts, lastError, left>> /\ Idle

\* ... or it is not, and the start fails.
SaveFails == /\ at \in {"newPri", "newPub"} /\ Spend("fault")
             /\ at' = "run" /\ lastError' = 1
             /\ UNCHANGED <<flash, keys, attempts, link>> /\ Idle

Connected == /\ at = "run" /\ state = "connected" /\ attempts # 0
             /\ attempts' = 0
             /\ UNCHANGED <<flash, keys, at, lastError, link, left>> /\ Idle

GivesUp == /\ at = "run" /\ state = "expired" /\ attempts # 0 /\ lastError = 0
           /\ lastError' = 4
           /\ UNCHANGED <<flash, keys, at, attempts, link, left>> /\ Idle

\* The MicroLink is destroyed before its key is rotated.
BeginRotation == /\ at = "run" /\ state = "expired" /\ attempts = 0 /\ ~resetting
                 /\ at' = "check" /\ attempts' = 1
                 /\ NoLink
                 /\ UNCHANGED <<flash, keys, lastError, left>> /\ Idle

RotationFails == at' = "run" /\ lastError' = 4 /\ UNCHANGED attempts

BugMayRotate == pub # 0                \* forgets the rotation in progress
MayRotate == old = 0 /\ pub # 0

\* microlink_rotate_node_key: nothing is written before both keys are known ...
CheckKeys == /\ at = "check"
             /\ IF MayRotate
                THEN at' = "setOld" /\ keys' = keys + 1 /\ UNCHANGED <<attempts, lastError>>
                ELSE RotationFails /\ UNCHANGED keys
             /\ UNCHANGED <<flash, link, left>> /\ Idle

BugWrites(step) == IF step = "setOld" THEN "setPri" ELSE step  \* keeps no old key
Writes(step) == step

Following(step) == CASE step = "setOld" -> "setPri" [] step = "setPri" -> "setPub"
                     [] step = "setPub" -> "commit" [] OTHER -> "remake"

\* ... then the previous public key, the new pair, and a commit.
WriteKey == /\ at \in {"setOld", "setPri", "setPub", "commit"}
            /\ at' = Following(at)
            /\ old' = IF Writes(at) = "setOld" THEN pub ELSE old
            /\ pri' = IF Writes(at) = "setPri" THEN keys ELSE pri
            /\ pub' = IF Writes(at) = "setPub" THEN keys ELSE pub
            /\ UNCHANGED <<keys, attempts, lastError, link, left>> /\ Idle

\* Any of them, or the new MicroLink, fails.
RotationFault == /\ at \in {"setOld", "setPri", "setPub", "commit", "remake"}
                 /\ Spend("fault")
                 /\ RotationFails
                 /\ UNCHANGED <<flash, keys, link>> /\ Idle

Remake == /\ at = "remake"
          /\ LoadKeys
          /\ UNCHANGED <<attempts, lastError, left>> /\ Idle

\* The device restarts without warning.
PowerLoss == /\ at # "off" /\ Spend("loss")
             /\ at' = "off" /\ attempts' = 0 /\ lastError' = 0 /\ resetting' = FALSE
             /\ authKey' = FALSE
             /\ NoLink
             /\ UNCHANGED <<flash, savedAuth, keys, plane>>

-----------------------------------------------------------------------------
(* resetTailnetIdentity *)

BugKeepsAuth == savedAuth              \* erases the identity only
KeepsAuth == FALSE

RequestReset == /\ at # "off" /\ ~resetting /\ Spend("reset")
                /\ savedAuth' = KeepsAuth
                /\ resetting' = TRUE
                /\ UNCHANGED <<flash, keys, manager, link, authKey, plane>>

\* A rotation is finished first.
CloseTailnet == /\ resetting /\ at = "run"
                /\ at' = "closed" /\ UNCHANGED <<attempts, lastError>>
                /\ NoLink
                /\ UNCHANGED <<flash, savedAuth, keys, resetting, authKey, plane, left>>

\* The keys are erased and the device restarts; the control plane's node stays
\* behind and is no longer this device's.
FactoryReset == /\ at = "closed"
                /\ at' = "off" /\ attempts' = 0 /\ lastError' = 0 /\ resetting' = FALSE
                /\ pri' = 0 /\ pub' = 0 /\ old' = 0 /\ authKey' = FALSE
                /\ current' = 0 /\ status' = "none" /\ session' = NoSession /\ nodes' = 0
                /\ UNCHANGED <<savedAuth, keys, link, spent, left>>

\* The manager is still listed, or nothing was erased: the reset gives up and
\* the next startTailnet makes a new manager.
ResetFails == /\ at = "closed"
              /\ at' = "off" /\ attempts' = 0 /\ lastError' = 0 /\ resetting' = FALSE
              /\ authKey' = FALSE
              /\ UNCHANGED <<flash, savedAuth, keys, link, plane, left>>

-----------------------------------------------------------------------------
(* ml_coord_task *)

Here == UNCHANGED <<keys, savedAuth, manager, resetting, authKey>>
Local == Here /\ UNCHANGED <<flash, plane, left>>

BugWaitingState(s) == s                \* shows the connection's state meanwhile
\* The user's step keeps showing while the connection is made again.
WaitingState(s) == CASE approval -> "needs-approval"
                     [] ~approval /\ url -> "needs-auth"
                     [] OTHER -> s

ConnectWorks == /\ coord = "connect"
                /\ coord' = "register"
                /\ state' = IF url \/ approval THEN state ELSE "registering"
                /\ UNCHANGED <<node, oldNode, url, approval>> /\ Local

\* No connection, or it ends before the next answer.
LinkFails == /\ coord \in {"connect", "fetch", "poll"}
             /\ coord' = "reconnect"
             /\ UNCHANGED <<state, node, oldNode, url, approval>> /\ Local

Reconnect == /\ coord = "reconnect"
             /\ coord' = "connect"
             /\ state' = WaitingState("reconnecting")
             /\ UNCHANGED <<node, oldNode, url, approval>> /\ Local

\* COORD_WAIT_AUTH: 1 s, or 10 s, later on a new connection.
WaitEnds == /\ coord = "wait"
            /\ coord' = "connect"
            /\ UNCHANGED <<state, node, oldNode, url, approval>> /\ Local

FetchPeers == /\ coord = "fetch"
              /\ coord' = "poll" /\ state' = "connected"
              /\ UNCHANGED <<node, oldNode, url, approval>> /\ Local

\* The map response said Node.Expired.
LearnsExpiry == /\ coord = "poll" /\ status = "expired"
                /\ coord' = "idle" /\ state' = "expired"
                /\ UNCHANGED <<node, oldNode, url, approval>> /\ Local

BugSendsAuth == authKey                \* also with an old key
SendsAuth == authKey /\ oldNode = 0

-----------------------------------------------------------------------------
(* The control plane *)

\* A key becomes the node's, a new node's unless the old key is the node's.
Join(key, oldKey, worth) ==
  /\ current' = key /\ status' = worth /\ session' = NoSession
  /\ nodes' = IF current # 0 /\ current \in {key, oldKey} THEN nodes ELSE nodes + 1

Same == UNCHANGED plane
Approvals == {"valid", "unapproved"}
Admits(worth) == IF worth = "valid" THEN "ok" ELSE "approval"

\* Its answers to a registration of node, and what it books meanwhile.
Answer(a) ==
  \/ /\ node = current /\ status \in Approvals
     /\ a = Admits(status)
     /\ session' = NoSession /\ UNCHANGED <<current, status, spent, nodes>>
  \/ /\ status = "expired" /\ current \in {node, oldNode}
     /\ a = "expired" /\ Same
  \/ /\ node # 0 /\ (status \notin Approvals \/ node # current)
     /\ ~SendsAuth
     /\ a = "url" /\ session' = [key |-> node, old |-> oldNode]
     /\ UNCHANGED <<current, status, spent, nodes>>
  \/ /\ node \notin {0, current} /\ SendsAuth /\ ~spent
     /\ \E worth \in Approvals : a = Admits(worth) /\ Join(node, oldNode, worth)
     /\ spent' = TRUE
  \/ /\ node # current /\ current # 0 /\ oldNode = current /\ ~SendsAuth
     /\ \E worth \in Approvals : a = Admits(worth) /\ Join(node, oldNode, worth)
     /\ UNCHANGED spent
  \/ /\ node # current /\ SendsAuth /\ (spent \/ current = 0)
     /\ a = "fatal" /\ Same
  \/ node = 0 /\ a = "fatal" /\ Same

\* The user opens the URL and signs in.
Visit == /\ session # NoSession
         /\ \E worth \in Approvals : Join(session.key, session.old, worth)
         /\ UNCHANGED <<flash, savedAuth, keys, manager, resetting, link, authKey, spent, left>>

Approve == /\ status = "unapproved"
           /\ status' = "valid"
           /\ UNCHANGED <<current, session, spent, nodes, link, flash, left>> /\ Here

Expire == /\ status = "valid" /\ Spend("expiry")
          /\ status' = "expired"
          /\ UNCHANGED <<current, session, spent, nodes, link, flash>> /\ Here

\* An administrator extends the key.
Extend == /\ status = "expired"
          /\ status' = "valid"
          /\ UNCHANGED <<current, session, spent, nodes, link, flash, left>> /\ Here

-----------------------------------------------------------------------------
(* do_register, and what ml_coord_task makes of its result *)

\* ml_register_classify_response of no answer.
Silence == CASE approval -> "approval" [] ~approval /\ url -> "url" [] OTHER -> "retry"

BugForgets(result) == result # "retry" \* drops the old key with any answer
\* ml_registration_complete
Forgets(result) == result = "ok"

\* The erasure's own failure is not looked at.
ForgetOld(result) ==
  IF Forgets(result) /\ oldNode # 0
  THEN /\ oldNode' = 0
       /\ \/ old' = 0 /\ UNCHANGED left
          \/ Spend("fault") /\ UNCHANGED old
  ELSE UNCHANGED <<old, oldNode, left>>

Take(result) ==
  /\ coord' = CASE result \in {"fatal", "expired"} -> "idle"
                [] result \in {"url", "approval"} -> "wait"
                [] result = "retry" -> "reconnect" [] OTHER -> "fetch"
  /\ state' = CASE result = "fatal" -> "error" [] result = "expired" -> "expired"
                [] result = "url" -> "needs-auth" [] result = "approval" -> "needs-approval"
                [] result = "retry" -> state [] OTHER -> "registering"
  /\ url' = (result = "url" \/ (url /\ result # "ok"))
  /\ approval' = (result = "approval" \/ (approval /\ result \notin {"ok", "url"}))
  /\ ForgetOld(result)
  /\ UNCHANGED <<pri, pub, node>> /\ Here

RegisterAnswered == coord = "register" /\ \E a \in {"ok", "approval", "url", "expired", "fatal"} :
                                            Answer(a) /\ Take(a)

\* The request cannot be sent, its answer does not come in time, or it cannot be
\* read.
RegisterLost == /\ coord = "register"
                /\ Same \/ \E a \in {"ok", "approval", "url"} : Answer(a)
                /\ Take(Silence) \/ Take("retry")

-----------------------------------------------------------------------------
ManagerStep == \/ Boot \/ SavePair \/ Connected \/ GivesUp \/ BeginRotation \/ CheckKeys \/ WriteKey
               \/ Remake \/ CloseTailnet \/ FactoryReset \/ ResetFails
Environment == \/ PowerLoss \/ SaveFails \/ RotationFault \/ RequestReset \/ LinkFails \/ RegisterLost
               \/ Visit \/ Approve \/ Expire \/ Extend
CoordStep == ConnectWorks \/ Reconnect \/ WaitEnds \/ FetchPeers \/ LearnsExpiry \/ RegisterAnswered

Next == ManagerStep \/ CoordStep \/ Environment

Spec == Init /\ [][Next]_vars

(***************************************************************************)
(* The tasks run.  The network lets a connection through, and the control   *)
(* plane's answers, again and again; nobody has to sign in or to approve.   *)
(***************************************************************************)
Fairness == /\ WF_vars(ManagerStep) /\ WF_vars(Reconnect) /\ WF_vars(WaitEnds)
            /\ SF_vars(ConnectWorks) /\ SF_vars(FetchPeers) /\ SF_vars(LearnsExpiry)
            /\ SF_vars(RegisterAnswered)

FairSpec == Spec /\ Fairness

-----------------------------------------------------------------------------
\* The values the variables range over.
TypeOK ==
  /\ pri \in 0..keys /\ pub \in 0..keys /\ old \in 0..keys /\ savedAuth \in BOOLEAN
  /\ keys \in Nat
  /\ at \in {"off", "newPri", "newPub", "run", "check", "setOld", "setPri", "setPub", "commit",
             "remake", "closed"}
  /\ attempts \in 0..1 /\ lastError \in {0, 1, 4} /\ resetting \in BOOLEAN
  /\ coord \in {"none", "connect", "register", "wait", "fetch", "poll", "reconnect", "idle"}
  /\ state \in {"idle", "connecting", "registering", "connected", "reconnecting", "error",
                "needs-auth", "needs-approval", "expired"}
  /\ node \in 0..keys /\ oldNode \in 0..keys /\ authKey \in BOOLEAN
  /\ url \in BOOLEAN /\ approval \in BOOLEAN
  /\ current \in 0..keys /\ status \in {"none", "unapproved", "valid", "expired"}
  /\ session \in [key : 0..keys, old : 0..keys] /\ spent \in BOOLEAN /\ nodes \in Nat
  /\ left \in [Events -> Nat]

\* The key under which the control plane knows the device is one the device
\* still has: wherever a rotation, a registration or the power stops, the next
\* request can name it.
NodeIsKept == current # 0 => current \in {pub, old}

\* So the control plane never makes a second node for it.
OneNode == nodes <= 1

\* An auth key that was used stays saved only as long as no registration needs
\* another: a reset does not leave it for the new identity.
SpentKeyIsNotNeeded == savedAuth /\ spent => current # 0

IdentityIsKept == TypeOK /\ NodeIsKept /\ OneNode /\ SpentKeyIsNotNeeded

\* While the user has a URL to open or an approval to wait for, the state says
\* so, through timeouts and reconnections.
UserStaysAsked ==
  /\ url \/ approval => state \in {"needs-auth", "needs-approval", "expired", "error"}
  /\ state = "needs-auth" => url
  /\ state = "needs-approval" => approval

\* An expired key leads to a registration, to a user who is asked, or to an
\* error: a rotation is not repeated for ever, nor refused for a spent auth key.
ExpiryIsHandled ==
  status = "expired" ~> \/ status # "expired" \/ lastError = 4
                        \/ state \in {"needs-auth", "needs-approval"}
=============================================================================
