-------------------------- MODULE SetupPage_proofs --------------------------
(***************************************************************************)
(* SetupPage's safety for any number of saves and troubles and any length   *)
(* of the line buffer: that the page's promise about saved settings holds,   *)
(* that its buttons are of use, and that the BLE window follows the link.    *)
(***************************************************************************)
EXTENDS SetupPage, TLAPS

\* The number of the settings the user typed last.
Typed == Limit["save"] - left["save"]

\* Numbers are given out in order, and only the user's request carries one.
Numbers ==
  /\ left["save"] <= Limit["save"]
  /\ value <= Typed /\ nvs <= Typed
  /\ task["user"].cmd = "set" => task["user"].num = Typed
  /\ task["user"].cmd = "clear" => task["user"].num = 0
  /\ \A k \in Kinds \ {"user"} : task[k].cmd = "get"

\* A restart is asked for by one request at a time, and its probe comes after it.
OneRestart ==
  /\ task["user"].cmd \in {"set", "restart", "reset"} => task["probe"] = Off
  /\ task["probe"].at # "opening"

\* Every answer is to a request that waits for it, and to one only.
AnswerMatches(i) ==
  LET request == answers[i].request IN
  request # NoRequest =>
    /\ request.from \in Kinds
    /\ task[request.from].at = "await" /\ request = Request(request.from)
    /\ \A j \in DOMAIN answers : answers[j].request.from = request.from => j = i
    /\ request.cmd = "set" /\ answers[i].ok => request.num <= value /\ request.num <= nvs

Matched == \A i \in DOMAIN answers : AnswerMatches(i)

\* What was reported as saved is in use, and in flash.
Promises == promised <= value /\ PromiseIsKept

\* A connection on BLE is one to a server that runs, and stops its window.
Linked ==
  /\ bridge \/ ~up => ble = "off"
  /\ (phone = "none") = (ble \in {"off", "open"})
  /\ WindowFollowsLink

\* Answers come over an open port; with a connection the page shows its buttons,
\* and whoever closes one is waited for.
Shown ==
  /\ answers # <<>> => port # "none"
  /\ view # "ready" => NoPort
  /\ view = "leaving" => closer = "user"
  /\ view = "busy" =>
       \E k \in {"serial", "again"} : task[k].at \in {"opening", "waiting", "closing"}
  /\ \A k \in {"serial", "again"} : closer = k => task[k].at = "closing"
  /\ closer # "none" => port # "none"
  /\ PageIsUsable

IInv == TypeOK /\ SavedIsUsed /\ Numbers /\ OneRestart /\ Matched /\ Promises /\ Linked /\ Shown

-----------------------------------------------------------------------------
(* Sequences *)

LEMMA TailIs ==
  ASSUME NEW S, NEW s \in Seq(S), s # <<>>
  PROVE  /\ Head(s) \in S /\ Head(s) = s[1] /\ 1 \in DOMAIN s
         /\ Tail(s) \in Seq(S) /\ Len(Tail(s)) = Len(s) - 1
         /\ \A i \in DOMAIN Tail(s) : i + 1 \in DOMAIN s /\ Tail(s)[i] = s[i + 1]
<1>1. Len(s) \in Nat /\ Len(s) # 0 /\ DOMAIN s = 1..Len(s)
  OBVIOUS
<1>2. Tail(s) \in Seq(S) /\ Len(Tail(s)) = Len(s) - 1
  BY <1>1
<1>3. DOMAIN Tail(s) = 1..(Len(s) - 1)
  BY <1>2
<1>4. \A i \in 1..(Len(s) - 1) : Tail(s)[i] = s[i + 1]
  BY <1>1
<1>5. QED
  BY <1>1, <1>2, <1>3, <1>4

LEMMA AppendIs ==
  ASSUME NEW S, NEW s \in Seq(S), NEW e \in S
  PROVE  /\ Append(s, e) \in Seq(S) /\ Len(Append(s, e)) = Len(s) + 1
         /\ DOMAIN Append(s, e) = 1..(Len(s) + 1)
         /\ Append(s, e)[Len(s) + 1] = e
         /\ \A i \in DOMAIN s : Append(s, e)[i] = s[i]
  OBVIOUS

LEMMA OneIs == ASSUME NEW S, NEW e \in S PROVE <<e>> \in Seq(S) /\ <<>> \in Seq(S)
  OBVIOUS

-----------------------------------------------------------------------------
(* Types *)

Parts == [request : Requests, last : {FALSE}]
Answers == [request : Requests, ok : BOOLEAN]
Tasks == [at : {"off", "opening", "head", "tail", "await", "closing", "waiting"},
          cmd : Commands, num : Nat]

Booleans == bridge \in BOOLEAN /\ up \in BOOLEAN /\ armed \in BOOLEAN /\ expect \in BOOLEAN

Saved == value \in Nat /\ nvs \in Nat /\ refused \subseteq Nat
Timers == due \subseteq {"restart", "reset"} /\ ble \in {"off", "open", "linked", "auth"}
          /\ phone \in {"none", "linked", "half"}
Lines == buffer \in Seq(Parts) /\ Len(buffer) <= MaxParts
Budget == left \in [Events -> Nat]
Shows == view \in {"idle", "busy", "ready", "leaving"} /\ port \in {"none", "open", "dead"}
         /\ closer \in {"none", "serial", "again", "user", "lost", "restart"} /\ promised \in Nat
Written == answers \in Seq(Answers)
Doing == task \in [Kinds -> Tasks]

LEMMA TypeParts ==
  TypeOK <=> Booleans /\ Saved /\ Timers /\ Lines /\ Budget /\ Shows /\ Written /\ Doing
  BY Zenon DEF TypeOK, Booleans, Saved, Timers, Lines, Budget, Shows, Written, Doing, Parts,
               Answers, Tasks

LEMMA Empty ==
  /\ <<>> \in Seq(Parts) /\ Len(<<>>) <= MaxParts /\ <<>> \in Seq(Answers)
  BY MaxPartsAssumption

\* An id that is no longer pending leaves a request with no sender.
LEMMA ForgottenIs ==
  ASSUME NEW k \in Kinds, NEW request \in Requests
  PROVE  /\ Forgotten(k, request) \in Requests
         /\ Forgotten(k, request) \in {request, NoRequest}
         /\ Forgotten(k, request).from # k
         /\ request.from # k => Forgotten(k, request) = request
         /\ request.from = k => Forgotten(k, request) = NoRequest
  BY DEF Forgotten, Requests, NoRequest, Kinds, Commands

LEMMA ForgetLines ==
  ASSUME Lines, NEW k \in Kinds
  PROVE  Forget(k, buffer) \in Seq(Parts) /\ Len(Forget(k, buffer)) = Len(buffer)
<1>1. Len(buffer) \in Nat /\ DOMAIN buffer = 1..Len(buffer)
  BY DEF Lines
<1>2. ASSUME NEW i \in 1..Len(buffer)
      PROVE  [buffer[i] EXCEPT !.request = Forgotten(k, @)] \in Parts
  <2>1. buffer[i] \in Parts
    BY <1>1 DEF Lines
  <2>2. buffer[i].request \in Requests
    BY <2>1 DEF Parts
  <2>3. Forgotten(k, buffer[i].request) \in Requests
    BY <2>2, ForgottenIs
  <2>4. QED
    BY <2>1, <2>3 DEF Parts
<1>3. QED
  BY <1>1, <1>2 DEF Forget

LEMMA ForgetAnswers ==
  ASSUME NEW messages \in Seq(Answers), NEW k \in Kinds
  PROVE  /\ Forget(k, messages) \in Seq(Answers)
         /\ DOMAIN Forget(k, messages) = DOMAIN messages
         /\ \A i \in DOMAIN messages :
              /\ Forget(k, messages)[i].request = Forgotten(k, messages[i].request)
              /\ Forget(k, messages)[i].ok = messages[i].ok
<1>1. Len(messages) \in Nat /\ DOMAIN messages = 1..Len(messages)
  OBVIOUS
<1>2. ASSUME NEW i \in 1..Len(messages)
      PROVE  [messages[i] EXCEPT !.request = Forgotten(k, @)] \in Answers
  <2>1. messages[i] \in Answers
    BY <1>1
  <2>2. messages[i].request \in Requests
    BY <2>1 DEF Answers
  <2>3. Forgotten(k, messages[i].request) \in Requests
    BY <2>2, ForgottenIs
  <2>4. QED
    BY <2>1, <2>3 DEF Answers
<1>3. ASSUME NEW i \in 1..Len(messages)
      PROVE  messages[i] \in Answers
  BY <1>1
<1>4. Forget(k, messages) \in Seq(Answers) /\ DOMAIN Forget(k, messages) = DOMAIN messages
  BY <1>1, <1>2 DEF Forget
<1>5. QED
  BY <1>1, <1>3, <1>4 DEF Forget, Answers

LEMMA InitType == Init => TypeOK
<1> SUFFICES ASSUME Init PROVE TypeOK
  OBVIOUS
<1>1. Booleans
  BY Zenon DEF Init, DeviceInit, Booleans
<1>2. Saved /\ Timers /\ Shows /\ Written
  BY DEF Init, DeviceInit, Saved, Timers, Shows, Written
<1>3. Lines
  BY MaxPartsAssumption DEF Init, DeviceInit, Lines
<1>4. Budget
  BY LimitAssumption DEF Init, DeviceInit, Budget
<1>5. Doing
  BY DEF Init, Doing, Tasks, Off, Commands
<1>6. QED
  BY <1>1, <1>2, <1>3, <1>4, <1>5, TypeParts

-----------------------------------------------------------------------------
(* What the device's operations do *)

LEMMA SpendDoes ==
  ASSUME Budget, NEW event \in Events, Spend(event)
  PROVE  /\ Budget' /\ left[event] # 0 /\ left'[event] = left[event] - 1
         /\ \A other \in Events \ {event} : left'[other] = left[other]
  BY DEF Spend, Budget, Events

\* A store leaves the settings in use those that a restart finds, or an error.
LEMMA StoreDoes ==
  ASSUME Saved, Budget, NEW new \in Nat, NEW ok \in BOOLEAN, Store(new, ok)
  PROVE  /\ Saved' /\ Budget' /\ (SavedIsUsed => SavedIsUsed') /\ left'["save"] = left["save"]
         /\ value' \in {value, new} /\ nvs' \in {nvs, new}
         /\ ok => value' = new /\ nvs' = new
         /\ ~ok => value' = value
<1>1. Budget' /\ left'["save"] = left["save"]
  BY SpendDoes DEF Store, Events, Budget
<1>2. CASE ok
  <2>1. value' = new /\ nvs' = new /\ refused' = {}
    BY <1>2 DEF Store, InUse
  <2>2. QED
    BY <1>1, <1>2, <2>1 DEF Saved, SavedIsUsed
<1>3. CASE ~ok
  <2>1. value' = value /\ nvs' \in {nvs, new} /\ refused' = refused \cup {new}
    BY <1>3 DEF Store, InUse
  <2>2. QED
    BY <1>1, <1>3, <2>1 DEF Saved, SavedIsUsed
<1>4. QED
  BY <1>2, <1>3

\* The end of a line leaves nothing of it, and is answered if the line was a
\* request; only then is anything done.
LEMMA FeedDoes ==
  ASSUME Lines, Timers, NEW request \in Requests, NEW last \in BOOLEAN, NEW next \in Seq(Parts),
         Feed(Part(request, last), next)
  PROVE  /\ Lines' /\ (last => buffer' \in {<<>>, next})
         /\ due' \subseteq {"restart", "reset"} /\ UNCHANGED <<ble, armed>>
         /\ \/ Settled /\ UNCHANGED answers
            \/ /\ last
               /\ \E ok \in BOOLEAN :
                    /\ Reply(request, ok)
                    /\ IF request.cmd \in {"set", "clear"} THEN Store(request.num, ok)
                                                           ELSE Settled
<1> DEFINE part == Part(request, last)
           line == Append(buffer, part)
           whole == Fits(next) /\ last /\ IsRequest(line)
<1>1. part.request = request /\ part.last = last
  BY DEF Part
<1>2. buffer' = CASE ~Fits(next) -> <<>> [] Fits(next) /\ last -> next [] OTHER -> line
  BY <1>1, Zenon DEF Feed, TooLong
<1>3. Lines' /\ (last => buffer' \in {<<>>, next})
  <2>1. CASE ~Fits(next)
    BY <1>2, <2>1, Empty DEF Lines
  <2>2. CASE Fits(next) /\ last
    <3>1. Len(next) <= MaxParts
      BY <2>2, MaxPartsAssumption DEF Fits, Lines
    <3>2. QED
      BY <1>2, <2>2, <3>1 DEF Lines
  <2>3. CASE Fits(next) /\ ~last
    <3>1. part \in Parts
      BY <2>3 DEF Part, Parts
    <3>2. line \in Seq(Parts) /\ Len(line) = Len(buffer) + 1
      BY <3>1, AppendIs DEF Lines
    <3>3. Len(line) <= MaxParts
      BY <2>3, <3>2, MaxPartsAssumption DEF Fits, Lines
    <3>4. QED
      BY <1>2, <2>3, <3>2, <3>3 DEF Lines
  <2>4. QED
    BY <2>1, <2>2, <2>3
<1>4. CASE whole
  <2>1. PICK ok \in BOOLEAN : Handle(request, ok) /\ Reply(request, ok)
    BY <1>1, <1>4, Zenon DEF Feed
  <2>2. /\ due' \subseteq {"restart", "reset"} /\ UNCHANGED <<ble, armed>>
        /\ IF request.cmd \in {"set", "clear"} THEN Store(request.num, ok) ELSE Settled
    BY <2>1 DEF Handle, Requests, Commands, Timers
  <2>3. QED
    BY <1>3, <1>4, <2>1, <2>2
<1>5. CASE ~whole
  <2>1. Settled /\ UNCHANGED <<due, ble, armed, answers>>
    BY <1>1, <1>5, Zenon DEF Feed
  <2>2. QED
    BY <1>3, <2>1 DEF Timers
<1>6. QED
  BY <1>4, <1>5

LEMMA RequestIs ==
  ASSUME Doing, NEW k \in Kinds
  PROVE  Request(k) \in Requests /\ Request(k).from = k /\ Request(k) # NoRequest
         /\ Request(k).cmd = task[k].cmd /\ Request(k).num = task[k].num
  BY DEF Doing, Tasks, Request, Requests, NoRequest, Kinds

LEMMA NextTasks ==
  /\ Off \in Tasks /\ Opening \in Tasks /\ Off # Opening
  /\ Closing \in Tasks /\ Closing.cmd = "get" /\ Closing.at = "closing"
  /\ Waiting \in Tasks /\ Waiting.cmd = "get" /\ Waiting.at = "waiting"
  /\ Off.cmd = "get" /\ Opening.cmd = "get" /\ Off.at = "off" /\ Opening.at = "opening"
  /\ \A cmd \in Commands, num \in Nat :
       /\ Ask(cmd, num) \in Tasks /\ Ask(cmd, num) # Off
       /\ Ask(cmd, num).cmd = cmd /\ Ask(cmd, num).num = num /\ Ask(cmd, num).at = "head"
  BY DEF Off, Opening, Closing, Waiting, Ask, Tasks, Commands

-----------------------------------------------------------------------------
(* Types are kept *)

LEMMA BooleansStep == TypeOK /\ [Next]_vars => Booleans'
<1> SUFFICES ASSUME Booleans, [Next]_vars PROVE Booleans'
  BY TypeParts
<1> USE DEF Booleans, Quiet, Silent, Step, Link, Settled, device, page
<1>1. CASE UserClicks
  BY <1>1, Zenon DEF UserClicks, ClickSerial, ClickDisconnect, ClickRequest
<1>2. CASE \E k \in Kinds : OpenPort(k)
  BY <1>2, Zenon DEF OpenPort
<1>3. ASSUME NEW part, NEW next, Arrives(part, next) PROVE Booleans'
  <2>1. CASE up
    <3>1. Feed(part, next) /\ UNCHANGED <<bridge, up, expect>>
      BY <1>3, <2>1, Zenon DEF Arrives
    <3>2. armed' \in BOOLEAN
      BY <3>1, Zenon DEF Feed, Handle, StartBLE
    <3>3. QED
      BY <3>1, <3>2, Zenon
  <2>2. CASE ~up
    BY <1>3, <2>2, Zenon DEF Arrives
  <2>3. QED
    BY <2>1, <2>2
<1>4. ASSUME NEW k \in Kinds, Send(k) \/ \E next \in Kinds : SendNext(k, next) PROVE Booleans'
  BY <1>3, <1>4, Zenon DEF Send, SendNext, Failed
<1>5. CASE \E k \in Kinds : Timeout(k)
  BY <1>5, Zenon DEF Timeout, Failed
<1>6. CASE OpenFails \/ AgainTries \/ AgainFails \/ ExpectEnds \/ NoticePort \/ PortCloses
  BY <1>6, Zenon
  DEF OpenFails, Failed, AgainTries, AgainFails, ExpectEnds, NoticePort, PortCloses
<1>7. CASE TakeAnswer
  BY <1>7, Zenon DEF TakeAnswer, Failed, Done
<1>8. CASE DeviceStep
  BY <1>8, Zenon DEF DeviceStep, Boot, BLEStep, PhoneConnects, Authenticate, PhoneSends,
                     PhoneLeaves, AfterLink, WindowEnds, Feed, Handle, StartBLE
<1>9. CASE World
  BY <1>9, Zenon DEF World, Restart, Crash, Stops, GoesDown, ResetIdentity, ScriptStartsBLE,
                     Handle, StartBLE, Unplug, LoseAnswer
<1>10. CASE UNCHANGED vars
  BY <1>10, Zenon DEF vars
<1>11. QED
  BY <1>1, <1>2, <1>4, <1>5, <1>6, <1>7, <1>8, <1>9, <1>10, Zenon DEF Next, PageStep, TaskStep

\* TypeOK without its Booleans, which BooleansStep has.
Data == Saved /\ Timers /\ Lines /\ Budget /\ Shows /\ Written /\ Doing

LEMMA FailedData ==
  ASSUME Data, NEW k \in Kinds, NEW rest \in Seq(Answers), Failed(k, rest), UNCHANGED left
  PROVE  Data' /\ (SavedIsUsed => SavedIsUsed')
<1>1. Lines'
  <2>1. buffer' = Forget(k, buffer)
    BY DEF Failed
  <2>2. QED
    BY <2>1, ForgetLines DEF Lines, Data
<1>2. Written'
  BY DEF Failed, Written
<1>3. Shows'
  BY DEF Failed, CloseSerial, NoPort, AfterFailure, Shows, Data, Kinds
<1>4. Doing'
  BY NextTasks DEF Failed, Advance, Doing, Data
<1>5. QED
  BY <1>1, <1>2, <1>3, <1>4
  DEF Data, Failed, Silent, Quiet, Saved, Timers, Budget, SavedIsUsed

LEMMA DoneData ==
  ASSUME Data, NEW k \in Kinds, NEW rest \in Seq(Answers), Done(k, rest), UNCHANGED left
  PROVE  Data' /\ (SavedIsUsed => SavedIsUsed')
<1>1. Doing'
  <2>1. /\ task \in [Kinds -> Tasks] /\ Off \in Tasks /\ Ask("restart", 0) \in Tasks
        /\ Ask("get", 0) \in Tasks
    BY NextTasks DEF Doing, Data, Commands
  <2>2. QED
    BY <2>1 DEF Done, Doing, Kinds
<1>2. Shows'
  BY DEF Done, Shows, Data, Doing, Tasks
<1>3. QED
  BY <1>1, <1>2
  DEF Data, Done, Silent, Quiet, Saved, Timers, Budget, SavedIsUsed, Lines, Written

\* A chunk that a task sends arrives, or is lost with a device that is down.
LEMMA ArrivesData ==
  ASSUME Data, NEW k \in Kinds, NEW last \in BOOLEAN, NEW next \in Seq(Parts),
         Arrives(Part(Request(k), last), next), Doing'
  PROVE  Data' /\ (SavedIsUsed => SavedIsUsed')
<1> USE DEF Data
<1>1. CASE ~up
  BY <1>1 DEF Arrives, device, Saved, Timers, Lines, Budget, Shows, Written, SavedIsUsed
<1>2. CASE up
  <2>1. Feed(Part(Request(k), last), next) /\ UNCHANGED phone
    BY <1>2 DEF Arrives
  <2>2. Request(k) \in Requests /\ Request(k).from = k
    BY RequestIs
  <2>3. Lines' /\ Timers'
    BY <2>1, <2>2, FeedDoes DEF Timers
  <2>4. Saved' /\ Budget' /\ Written' /\ (SavedIsUsed => SavedIsUsed')
    <3>1. CASE Settled /\ UNCHANGED answers
      BY <3>1 DEF Settled, Saved, Budget, Written, SavedIsUsed
    <3>2. ASSUME NEW ok \in BOOLEAN, Reply(Request(k), ok),
                 IF Request(k).cmd \in {"set", "clear"} THEN Store(Request(k).num, ok) ELSE Settled
          PROVE  Saved' /\ Budget' /\ Written' /\ (SavedIsUsed => SavedIsUsed')
      <4>1. Request(k).num \in Nat
        BY <2>2 DEF Requests
      <4>2. Saved' /\ Budget' /\ (SavedIsUsed => SavedIsUsed')
        BY <3>2, <4>1, StoreDoes DEF Settled, Saved, Budget, SavedIsUsed
      <4>3. [request |-> Request(k), ok |-> ok] \in Answers
        BY <2>2 DEF Answers
      <4>4. Written'
        BY <3>2, <4>3, AppendIs DEF Reply, Written
      <4>5. QED
        BY <4>2, <4>4
    <3>3. QED
      BY <2>1, <2>2, <3>1, <3>2, FeedDoes
  <2>5. Shows'
    BY DEF Arrives, Shows
  <2>6. QED
    BY <2>3, <2>4, <2>5
<1>3. QED
  BY <1>1, <1>2

\* The start of a task's line is a part.
LEMMA NextIs ==
  ASSUME Doing, NEW k \in Kinds
  PROVE  <<Part(Request(k), FALSE)>> \in Seq(Parts) /\ <<>> \in Seq(Parts)
<1>1. Part(Request(k), FALSE) \in Parts
  BY RequestIs DEF Part, Parts
<1>2. QED
  BY <1>1, OneIs, Zenon

LEMMA SendData ==
  ASSUME Data, NEW k \in Kinds, Send(k) \/ \E next \in Kinds : SendNext(k, next)
  PROVE  Data' /\ (SavedIsUsed => SavedIsUsed')
<1> USE DEF Data
<1>1. CASE Failed(k, Forget(k, answers)) /\ UNCHANGED left
  <2>1. Forget(k, answers) \in Seq(Answers)
    BY ForgetAnswers DEF Written
  <2>2. QED
    BY <1>1, <2>1, FailedData
<1>2. ASSUME NEW last \in BOOLEAN, Arrives(Part(Request(k), last), <<>>),
             Advance(k, [task[k] EXCEPT !.at = IF last THEN "await" ELSE "tail"])
      PROVE  Data' /\ (SavedIsUsed => SavedIsUsed')
  <2>1. Doing'
    BY <1>2 DEF Advance, Doing, Tasks
  <2>2. QED
    BY <1>2, <2>1, NextIs, ArrivesData
<1>3. ASSUME NEW next \in Kinds, SendNext(k, next)
      PROVE  Data' /\ (SavedIsUsed => SavedIsUsed')
  <2>1. Doing'
    BY <1>3 DEF SendNext, Doing, Tasks
  <2>2. QED
    BY <1>3, <2>1, NextIs, ArrivesData DEF SendNext
<1>4. QED
  <2>1. CASE Send(k)
    BY <1>1, <1>2, <2>1 DEF Send
  <2>2. QED
    BY <1>3, <2>1

LEMMA PhoneSendsData ==
  ASSUME Data, PhoneSends, UNCHANGED page
  PROVE  Data' /\ UNCHANGED <<answers, value, nvs, refused, left, ble, armed, up, bridge>>
<1> DEFINE request == [from |-> "phone", cmd |-> "get", num |-> 0]
           last == phone = "half"
<1> USE DEF Data
<1>1. request \in Requests /\ request.from = "phone" /\ request.cmd = "get"
  BY DEF Requests, Commands
<1>2. CASE ble = "auth"
  <2>1. Feed(Part(request, last), <<>>)
    BY <1>2 DEF PhoneSends
  <2>2. Lines' /\ due' \subseteq {"restart", "reset"} /\ UNCHANGED <<ble, armed>>
        /\ Settled /\ UNCHANGED answers
    BY <1>1, <2>1, FeedDoes, Empty DEF Reply
  <2>3. QED
    BY <2>2 DEF PhoneSends, Settled, page, Saved, Timers, Budget, Shows, Written, Doing
<1>3. CASE ble # "auth"
  BY <1>3 DEF PhoneSends, Settled, page, Saved, Timers, Budget, Shows, Written, Doing, Lines
<1>4. QED
  BY <1>2, <1>3

\* TypeOK's data, and that the settings in use are those in flash.
LEMMA DataStep ==
  ASSUME IInv, Data, [Next]_vars
  PROVE  Data' /\ (SavedIsUsed => SavedIsUsed')
<1> DEFINE Goal == Data' /\ (SavedIsUsed => SavedIsUsed')
<1> USE DEF Data, Saved, Timers, Lines, Budget, Shows, Written, Doing, SavedIsUsed
<1>1. CASE ClickSerial
  BY <1>1, NextTasks DEF ClickSerial, Advance, Step, device
<1>2. CASE ClickDisconnect
  <2>1. Budget'
    BY <1>2, SpendDoes DEF ClickDisconnect, Events
  <2>2. QED
    BY <1>2, <2>1 DEF ClickDisconnect, CloseSerial, device
<1>3. ASSUME NEW cmd \in Commands, ClickRequest(cmd) PROVE Goal
  <2>1. Budget'
    BY <1>3, SpendDoes DEF ClickRequest, Events
  <2>2. (IF cmd = "set" THEN Limit["save"] - left'["save"] ELSE 0) \in Nat
    <3>1. CASE cmd = "set"
      <4>1. left'["save"] = left["save"] - 1 /\ left["save"] \in Nat /\ Limit["save"] \in Nat
        BY <1>3, <3>1, SpendDoes, LimitAssumption DEF ClickRequest, Events
      <4>2. QED
        BY <3>1, <4>1 DEF IInv, Numbers
    <3>2. QED
      BY <3>1
  <2>3. Doing'
    BY <1>3, <2>2, NextTasks DEF ClickRequest, Advance
  <2>4. QED
    BY <1>3, <2>1, <2>3 DEF ClickRequest, device
<1>4. ASSUME NEW k \in Kinds, OpenPort(k) PROVE Goal
  BY <1>4, NextTasks DEF OpenPort, Advance, Step, device, Commands
<1>5. ASSUME NEW k \in Kinds, Timeout(k) PROVE Goal
  BY <1>5, ForgetAnswers, FailedData DEF Timeout
<1>6. CASE OpenFails
  BY <1>6, FailedData DEF OpenFails, Kinds
<1>7. CASE TakeAnswer
  <2>1. Head(answers) \in Answers /\ Tail(answers) \in Seq(Answers)
    BY <1>7, TailIs DEF TakeAnswer
  <2>2. Head(answers) = answers[1] /\ 1 \in DOMAIN answers
    BY <1>7, TailIs DEF TakeAnswer
  <2>3. CASE Head(answers).request = NoRequest /\ answers' = Tail(answers) /\ Silent
             /\ UNCHANGED <<buffer, page, left>>
    BY <2>1, <2>3 DEF Silent, Quiet, page
  <2>4. CASE Head(answers).request # NoRequest
    <3>1. Head(answers).request.from \in Kinds
      BY <2>2, <2>4 DEF IInv, Matched, AnswerMatches
    <3>2. \/ Done(Head(answers).request.from, Tail(answers))
          \/ Failed(Head(answers).request.from, Tail(answers))
      BY <1>7, <2>4 DEF TakeAnswer
    <3>3. UNCHANGED left
      BY <1>7 DEF TakeAnswer
    <3>4. QED
      BY <2>1, <3>1, <3>2, <3>3, DoneData, FailedData
  <2>5. QED
    BY <1>7, <2>3, <2>4 DEF TakeAnswer
<1>8. CASE AgainTries \/ AgainFails \/ ExpectEnds \/ NoticePort \/ PortCloses
  <2>1. Doing'
    BY <1>8, NextTasks
    DEF AgainTries, AgainFails, TryAgain, ExpectEnds, NoticePort, PortCloses, Advance, Step
  <2>2. CASE AgainTries \/ AgainFails \/ ExpectEnds \/ NoticePort
    <3>1. Shows'
      BY <2>2
      DEF AgainTries, AgainFails, TryAgain, CloseSerial, ExpectEnds, NoticePort, WhenOver, Step
    <3>2. UNCHANGED <<device, left>>
      BY <2>2, Zenon DEF AgainTries, AgainFails, ExpectEnds, NoticePort, Step
    <3>3. QED
      BY <2>1, <3>1, <3>2 DEF device
  <2>3. CASE PortCloses
    BY <2>1, <2>3, Empty DEF PortCloses, TryAgain, WhenOver, Silent, Quiet
  <2>4. QED
    BY <1>8, <2>2, <2>3
<1>9. CASE Boot /\ UNCHANGED page
  BY <1>9 DEF Boot, page
<1>10. CASE BLEStep /\ UNCHANGED page
  <2>1. CASE PhoneSends
    BY <1>10, <2>1, PhoneSendsData
  <2>2. CASE ~PhoneSends
    BY <1>10, <2>2 DEF BLEStep, PhoneConnects, Authenticate, PhoneLeaves, WindowEnds, Link,
                       Quiet, page
  <2>3. QED
    BY <2>1, <2>2
<1>11. CASE Restart \/ Crash
  <2>1. Budget'
    BY <1>11, SpendDoes DEF Restart, Crash, Events
  <2>2. Lines'
    BY <1>11, Empty DEF Restart, Crash, Stops, GoesDown
  <2>3. QED
    BY <1>11, <2>1, <2>2 DEF Restart, Crash, Stops, GoesDown
<1>12. CASE ResetIdentity
  <2>1. PICK ok \in BOOLEAN : Store(value, ok)
    BY <1>12 DEF ResetIdentity
  <2>2. Saved' /\ Budget' /\ (SavedIsUsed => SavedIsUsed')
    BY <2>1, StoreDoes
  <2>3. CASE Stops
    <3>1. Lines'
      BY <2>3, Empty DEF Stops, GoesDown
    <3>2. QED
      BY <2>2, <2>3, <3>1 DEF Stops, GoesDown
  <2>4. CASE ~Stops
    BY <1>12, <2>2, <2>4 DEF ResetIdentity, page
  <2>5. QED
    BY <2>3, <2>4
<1>13. CASE ScriptStartsBLE
  <2>1. Lines'
    BY <1>13, Empty DEF ScriptStartsBLE
  <2>2. Settled /\ UNCHANGED <<due, phone, answers, page>>
    BY <1>13 DEF ScriptStartsBLE, Handle
  <2>3. ble' \in {"off", "open", "linked", "auth"}
    BY <1>13 DEF ScriptStartsBLE, Handle, StartBLE
  <2>4. QED
    BY <2>1, <2>2, <2>3 DEF Settled, page
<1>14. CASE Unplug
  <2>1. Budget'
    BY <1>14, SpendDoes DEF Unplug, Events
  <2>2. QED
    BY <1>14, <2>1 DEF Unplug, device
<1>15. CASE LoseAnswer
  <2>1. Budget' /\ Tail(answers) \in Seq(Answers)
    BY <1>15, SpendDoes, TailIs DEF LoseAnswer, Events
  <2>2. QED
    BY <1>15, <2>1 DEF LoseAnswer, Silent, Quiet, page
<1>16. CASE UNCHANGED vars
  BY <1>16 DEF vars, device, page
<1>17. ASSUME NEW k \in Kinds, Send(k) \/ \E next \in Kinds : SendNext(k, next) PROVE Goal
  BY <1>17, SendData
<1>18. QED
  BY <1>1, <1>2, <1>3, <1>4, <1>5, <1>6, <1>7, <1>8, <1>9, <1>10, <1>11, <1>12, <1>13, <1>14, <1>15, <1>16, <1>17
  DEF Next, UserClicks, PageStep, TaskStep, DeviceStep, World

LEMMA TypeStep == ASSUME IInv, [Next]_vars PROVE TypeOK' /\ SavedIsUsed'
<1>1. Booleans'
  BY BooleansStep DEF IInv
<1>2. Data' /\ SavedIsUsed'
  BY DataStep, TypeParts, Zenon DEF IInv, Data
<1>3. QED
  BY <1>1, <1>2, TypeParts, Zenon
  DEF TypeOK, Booleans, Data, Saved, Timers, Lines, Budget, Shows,
     Written, Doing, Parts, Answers, Tasks

\* A part of k's line, or its end with the start of another's, is sent: the tasks
\* move on, and the end of a line that is k's request is done and answered.
Sent(k) ==
  /\ port = "open" /\ task[k].at \in {"head", "tail"}
  /\ UNCHANGED <<bridge, up, phone, ble, armed, view, port, closer, expect>>
  /\ \A other \in Kinds :
       /\ task'[other].cmd = task[other].cmd /\ task'[other].num = task[other].num
       /\ \/ task'[other] = task[other]
          \/ task[other].at \in {"head", "tail"} /\ task'[other].at \in {"tail", "await"}
  /\ promised' = IF nvs' = 0 THEN 0 ELSE promised
  /\ \/ Settled /\ UNCHANGED answers
     \/ /\ task'[k].at = "await"
        /\ \E ok \in BOOLEAN :
             /\ answers' = Append(answers, [request |-> Request(k), ok |-> ok])
             /\ IF task[k].cmd \in {"set", "clear"} THEN Store(task[k].num, ok) ELSE Settled

LEMMA ArrivesDoes ==
  ASSUME TypeOK, NEW k \in Kinds, NEW last \in BOOLEAN, NEW next \in Seq(Parts),
         Arrives(Part(Request(k), last), next)
  PROVE  /\ UNCHANGED <<bridge, up, phone, ble, armed, view, port, closer, expect>>
         /\ promised' = IF nvs' = 0 THEN 0 ELSE promised
         /\ up /\ last => buffer' \in {<<>>, next}
         /\ \/ Settled /\ UNCHANGED answers
            \/ /\ last
               /\ \E ok \in BOOLEAN :
                    /\ answers' = Append(answers, [request |-> Request(k), ok |-> ok])
                    /\ IF task[k].cmd \in {"set", "clear"} THEN Store(task[k].num, ok) ELSE Settled
<1>1. CASE ~up
  BY <1>1 DEF Arrives, device, Settled
<1>2. CASE up
  <2>1. /\ Feed(Part(Request(k), last), next)
        /\ UNCHANGED <<bridge, up, phone, view, port, closer, expect>>
        /\ promised' = IF nvs' = 0 THEN 0 ELSE promised
    BY <1>2, Zenon DEF Arrives
  <2>2. /\ Request(k) \in Requests /\ Request(k).from = k /\ Lines /\ Timers
        /\ Request(k).cmd = task[k].cmd /\ Request(k).num = task[k].num
    BY RequestIs, TypeParts
  <2>3. /\ last => buffer' \in {<<>>, next}
        /\ UNCHANGED <<ble, armed>>
        /\ \/ Settled /\ UNCHANGED answers
           \/ /\ last
              /\ \E ok \in BOOLEAN :
                   /\ Reply(Request(k), ok)
                   /\ IF Request(k).cmd \in {"set", "clear"} THEN Store(Request(k).num, ok)
                                                             ELSE Settled
    BY <2>1, <2>2, FeedDoes
  <2>4. ASSUME NEW ok \in BOOLEAN, Reply(Request(k), ok)
        PROVE  answers' = Append(answers, [request |-> Request(k), ok |-> ok])
    BY <2>2, <2>4, k # "phone" DEF Reply, Kinds
  <2>5. QED
    BY <2>1, <2>2, <2>3, <2>4
<1>3. QED
  BY <1>1, <1>2

LEMMA SendDoes ==
  ASSUME TypeOK, NEW k \in Kinds, Send(k) \/ \E next \in Kinds : SendNext(k, next)
  PROVE  \/ Failed(k, Forget(k, answers)) /\ UNCHANGED left
         \/ Sent(k)
<1>1. task \in [Kinds -> Tasks] /\ Doing
  BY TypeParts DEF Doing
<1>2. ASSUME NEW last \in BOOLEAN, last <=> task[k].at = "tail", task[k].at \in {"head", "tail"},
             Writable, Arrives(Part(Request(k), last), <<>>),
             Advance(k, [task[k] EXCEPT !.at = IF last THEN "await" ELSE "tail"])
      PROVE  Sent(k)
  <2>1. <<>> \in Seq(Parts)
    BY <1>1, NextIs
  <2>2. \A other \in Kinds :
          /\ task'[other].cmd = task[other].cmd /\ task'[other].num = task[other].num
          /\ \/ task'[other] = task[other]
             \/ task[other].at \in {"head", "tail"} /\ task'[other].at \in {"tail", "await"}
    BY <1>1, <1>2 DEF Advance, Tasks
  <2>3. last => task'[k].at = "await"
    BY <1>1, <1>2 DEF Advance, Tasks
  <2>4. QED
    BY <1>2, <2>1, <2>2, <2>3, ArrivesDoes DEF Sent, Writable
<1>3. ASSUME NEW next \in Kinds, SendNext(k, next) PROVE Sent(k)
  <2>1. <<Part(Request(next), FALSE)>> \in Seq(Parts)
    BY <1>1, NextIs
  <2>2. \A other \in Kinds :
          /\ task'[other].cmd = task[other].cmd /\ task'[other].num = task[other].num
          /\ \/ task'[other] = task[other]
             \/ task[other].at \in {"head", "tail"} /\ task'[other].at \in {"tail", "await"}
    BY <1>1, <1>3 DEF SendNext, Tasks
  <2>3. task'[k].at = "await" /\ task[k].at = "tail"
    BY <1>1, <1>3 DEF SendNext, Tasks
  <2>4. QED
    BY <1>3, <2>1, <2>2, <2>3, ArrivesDoes DEF Sent, SendNext, Writable
<1>4. CASE Send(k)
  BY <1>2, <1>4 DEF Send
<1>5. QED
  BY <1>3, <1>4

-----------------------------------------------------------------------------
(* The BLE window *)

LEMMA LinkedStep == ASSUME IInv, [Next]_vars PROVE Linked'
<1> USE DEF IInv, Linked, WindowFollowsLink
<1>1. TypeOK
  OBVIOUS
<1>2. CASE UNCHANGED <<bridge, up, ble, phone, armed>>
  BY <1>2
<1>3. CASE UserClicks
  BY <1>2, <1>3 DEF UserClicks, ClickSerial, ClickDisconnect, ClickRequest, Step, device
<1>4. ASSUME NEW k \in Kinds, OpenPort(k) \/ Timeout(k)
      PROVE  UNCHANGED <<bridge, up, ble, phone, armed>>
  BY <1>4 DEF OpenPort, Timeout, Failed, Silent, Quiet, Step, device
<1>5. ASSUME NEW k \in Kinds, Send(k) \/ \E next \in Kinds : SendNext(k, next)
      PROVE  UNCHANGED <<bridge, up, ble, phone, armed>>
  BY <1>1, <1>5, SendDoes DEF Sent, Failed, Silent, Quiet
<1>6. CASE OpenFails \/ TakeAnswer \/ AgainTries \/ AgainFails \/ ExpectEnds \/ NoticePort \/ PortCloses
  <2>1. UNCHANGED <<bridge, up, ble, phone, armed>>
    BY <1>6
    DEF OpenFails, TakeAnswer, AgainTries, AgainFails, ExpectEnds, NoticePort, PortCloses,
                Failed, Done, Silent, Quiet, Step, device
  <2>2. QED
    BY <2>1, <1>2
<1>7. CASE Boot
  BY <1>7 DEF Boot
<1>8. CASE BLEStep /\ UNCHANGED page
  <2>1. CASE PhoneSends
    <3>1. UNCHANGED <<ble, armed, up, bridge>>
      BY <1>8, <2>1, PhoneSendsData, TypeParts DEF Data
    <3>2. phone' # "none"
      BY <2>1 DEF PhoneSends
    <3>3. phone # "none"
      BY <2>1 DEF PhoneSends
    <3>4. QED
      BY <3>1, <3>2, <3>3
  <2>2. CASE PhoneConnects \/ Authenticate
    <3>1. armed = (ble = "open") /\ armed \in BOOLEAN
      BY <1>1 DEF TypeOK
    <3>2. UNCHANGED <<bridge, up>> /\ armed' = FALSE /\ ble' \in {"linked", "auth"}
          /\ phone' # "none" /\ ble # "off"
      BY <2>2, <3>1 DEF PhoneConnects, Authenticate, Link, Quiet
    <3>3. ble' \notin {"off", "open"} /\ ~(bridge' \/ ~up')
      BY <3>2
    <3>4. WindowFollowsLink'
      BY <3>2, <3>3
    <3>5. (phone' = "none") = (ble' \in {"off", "open"})
      BY <3>2, <3>3
    <3>6. QED
      BY <3>3, <3>4, <3>5
  <2>3. CASE PhoneLeaves
    <3>1. ~bridge /\ up
      BY <1>1, <2>3 DEF PhoneLeaves, TypeOK
    <3>2. armed' = TRUE /\ ble' = "open" /\ phone' = "none" /\ UNCHANGED <<bridge, up>>
      BY <2>3, Zenon DEF PhoneLeaves, AfterLink, Link, Quiet
    <3>3. QED
      BY <3>1, <3>2
  <2>4. CASE WindowEnds
    BY <2>4 DEF WindowEnds, Link, Quiet
  <2>5. QED
    BY <1>8, <2>1, <2>2, <2>3, <2>4 DEF BLEStep
<1>9. CASE Restart \/ Crash
  BY <1>9 DEF Restart, Crash, Stops, GoesDown
<1>10. CASE ResetIdentity
  BY <1>10, <1>2 DEF ResetIdentity, Stops, GoesDown
<1>11. CASE ScriptStartsBLE
  BY <1>1, <1>11 DEF ScriptStartsBLE, Handle, StartBLE, Rearms, Settled, TypeOK
<1>12. CASE Unplug \/ LoseAnswer
  BY <1>12, <1>2 DEF Unplug, LoseAnswer, Silent, Quiet, device
<1>13. CASE UNCHANGED vars
  BY <1>13 DEF vars, device
<1>14. QED
  BY <1>2, <1>3, <1>4, <1>5, <1>6, <1>7, <1>8, <1>9, <1>10, <1>11, <1>12, <1>13
  DEF Next, PageStep, TaskStep, DeviceStep, World

-----------------------------------------------------------------------------
(* The page's buttons *)

LEMMA ShownStep == ASSUME IInv, TypeOK', [Next]_vars PROVE Shown'
<1> USE DEF IInv, Shown, PageIsUsable, NoPort
<1>1. TypeOK /\ task \in [Kinds -> Tasks] /\ task' \in [Kinds -> Tasks]
  BY Zenon DEF TypeOK, Tasks
<1>2. CASE UNCHANGED <<answers, view, port, closer, task>>
  BY <1>2
<1>3. CASE ClickSerial
  BY <1>1, <1>3, NextTasks DEF ClickSerial, Advance, Step, device, Kinds
<1>4. CASE ClickDisconnect
  BY <1>4 DEF ClickDisconnect, CloseSerial, device
<1>5. ASSUME NEW cmd \in Commands, ClickRequest(cmd) PROVE Shown'
  <2>1. /\ UNCHANGED <<answers, view, port, closer>>
        /\ task'["serial"] = task["serial"] /\ task'["again"] = task["again"]
    BY <1>1, <1>5 DEF ClickRequest, Advance, device, Kinds
  <2>2. QED
    BY <2>1
<1>6. ASSUME NEW k \in Kinds, OpenPort(k) PROVE Shown'
  <2>1. port = "none" /\ closer = "none" /\ view' = "ready" /\ port' = "open" /\ closer' = "none"
    BY <1>6 DEF OpenPort
  <2>2. QED
    BY <2>1
<1>7. ASSUME NEW k \in Kinds, NEW rest \in Seq(Answers), rest = <<>> \/ answers # <<>>, Failed(k, rest),
             task[k].at # "closing"
      PROVE  Shown'
  <2>1. CASE k \in {"serial", "again"} /\ ~NoPort
    <3>1. /\ closer' = k /\ UNCHANGED <<view, port>> /\ task'[k].at = "closing"
          /\ port # "none" /\ task'[k] # Off /\ view = "ready"
      BY <1>1, <1>7, <2>1, NextTasks DEF Failed, CloseSerial, Advance, Silent
    <3>2. QED
      BY <2>1, <3>1
  <2>2. CASE k = "serial" /\ NoPort
    <3>1. /\ view' = "idle" /\ UNCHANGED <<port, closer>> /\ answers' = rest
          /\ task'["again"] = task["again"]
      BY <1>1, <1>7, <2>2 DEF Failed, AfterFailure, Advance, Kinds
    <3>2. QED
      BY <1>7, <2>2, <3>1
  <2>3. CASE k = "again" /\ NoPort
    <3>1. /\ UNCHANGED <<view, port, closer>> /\ answers' = rest
          /\ task'["again"].at = "waiting" /\ task'["again"] # Off /\ task'["serial"] = task["serial"]
      BY <1>1, <1>7, <2>3, NextTasks DEF Failed, AfterFailure, Advance, Kinds
    <3>2. QED
      BY <1>7, <2>3, <3>1
  <2>4. CASE k \in {"user", "probe"}
    <3>1. /\ answers' = rest /\ UNCHANGED <<port, view, closer>>
          /\ task'["serial"] = task["serial"] /\ task'["again"] = task["again"]
      BY <1>1, <2>4, <1>7 DEF Failed, AfterFailure, Advance, Kinds
    <3>2. QED
      BY <3>1, <1>7
  <2>5. QED
    BY <2>1, <2>2, <2>3, <2>4 DEF Kinds
<1>8. ASSUME NEW k \in Kinds, Send(k) \/ \E next \in Kinds : SendNext(k, next) PROVE Shown'
  <2>1. task[k].at \in {"head", "tail"}
    BY <1>8 DEF Send, SendNext
  <2>2. CASE Failed(k, Forget(k, answers))
    <3>1. Forget(k, answers) \in Seq(Answers) /\ (Forget(k, answers) = <<>> \/ answers # <<>>)
      BY ForgetAnswers, TypeParts DEF Written
    <3>2. QED
      BY <1>7, <2>1, <2>2, <3>1
  <2>3. CASE Sent(k)
    <3>1. /\ UNCHANGED <<view, port, closer>> /\ port = "open"
          /\ \A other \in Kinds :
               \/ task'[other].at = task[other].at
               \/ task[other].at \in {"head", "tail"} /\ task'[other].at # "off"
      BY <2>3 DEF Sent
    <3>2. \A other \in {"serial", "again"} : task[other].at \in {"opening", "waiting", "closing"}
                                            => task'[other].at = task[other].at
      BY <3>1 DEF Kinds
    <3>3. \A other \in {"serial", "again"} :
            task[other].at \in {"opening", "waiting", "closing"} => task'[other] # Off
      BY <3>2, NextTasks
    <3>4. QED
      BY <3>1, <3>2, <3>3
  <2>4. QED
    BY <1>1, <1>8, <2>2, <2>3, SendDoes
<1>9. ASSUME NEW k \in Kinds, Timeout(k) PROVE Shown'
  <2>1. Forget(k, answers) \in Seq(Answers) /\ (Forget(k, answers) = <<>> \/ answers # <<>>)
    BY ForgetAnswers, TypeParts DEF Written
  <2>2. QED
    BY <1>7, <1>9, <2>1 DEF Timeout
<1>10. CASE OpenFails
  <2>1. answers \in Seq(Answers)
    BY TypeParts DEF Written
  <2>2. QED
    BY <1>7, <1>10, <2>1 DEF OpenFails, Kinds
<1>11. CASE TakeAnswer
  <2>1. answers # <<>> /\ port # "none" /\ closer = "none" /\ view = "ready"
    BY <1>11 DEF TakeAnswer
  <2>2. Tail(answers) \in Seq(Answers) /\ Head(answers) = answers[1] /\ 1 \in DOMAIN answers
    BY <2>1, TailIs, TypeParts DEF Written
  <2>3. CASE Head(answers).request = NoRequest /\ UNCHANGED page
    BY <2>1, <2>3 DEF page
  <2>4. CASE Head(answers).request # NoRequest
    <3>1. Head(answers).request.from \in Kinds /\ task[Head(answers).request.from].at = "await"
      BY <2>2, <2>4 DEF Matched, AnswerMatches
    <3>2. CASE Failed(Head(answers).request.from, Tail(answers))
      BY <1>7, <2>1, <2>2, <3>1, <3>2
    <3>3. CASE Done(Head(answers).request.from, Tail(answers))
      BY <2>1, <3>3 DEF Done
    <3>4. QED
      BY <1>11, <2>4, <3>2, <3>3 DEF TakeAnswer
  <2>5. QED
    BY <1>11, <2>3, <2>4 DEF TakeAnswer
<1>12. CASE AgainTries
  <2>1. UNCHANGED <<answers, port, closer>> /\ task["again"].at = "waiting"
        /\ task'["serial"] = task["serial"]
    BY <1>1, <1>12 DEF AgainTries, TryAgain, Advance, Step, device, Kinds
  <2>2. CASE NoPort /\ expect
    <3>1. view' = "busy" /\ task'["again"].at = "opening" /\ task'["again"] # Off
      BY <1>1, <1>12, <2>2, NextTasks DEF AgainTries, TryAgain, Advance, Kinds
    <3>2. QED
      BY <2>1, <2>2, <3>1
  <2>3. CASE NoPort /\ ~expect
    BY <1>12, <2>1, <2>3 DEF AgainTries, TryAgain, WhenOver
  <2>4. CASE ~NoPort
    BY <1>12, <2>1, <2>4 DEF AgainTries, TryAgain, WhenOver
  <2>5. QED
    BY <2>2, <2>3, <2>4
<1>13. CASE AgainFails
  <2>1. UNCHANGED <<answers, port>> /\ task["again"].at = "opening"
        /\ task'["serial"] = task["serial"] /\ task'["again"] # Off
    BY <1>1, <1>13, NextTasks DEF AgainFails, Advance, Step, device, Kinds
  <2>2. CASE UNCHANGED <<view, closer>> /\ task'["again"].at = "waiting"
    BY <2>1, <2>2
  <2>3. CASE NoPort /\ view' = "busy" /\ UNCHANGED closer /\ task'["again"].at = "waiting"
    BY <2>1, <2>3
  <2>4. CASE ~NoPort /\ view' = "busy" /\ closer' = "again" /\ task'["again"].at = "closing"
    BY <2>1, <2>4
  <2>5. QED
    BY <1>1, <1>13, <2>2, <2>3, <2>4, NextTasks
    DEF AgainFails, Advance, CloseSerial, Step, Kinds
<1>14. CASE ExpectEnds
  BY <1>2, <1>14 DEF ExpectEnds, Step, device
<1>15. CASE NoticePort
  BY <1>15 DEF NoticePort, Step, device
<1>16. CASE PortCloses
  <2>1. port' = "none" /\ closer' = "none" /\ answers' = <<>>
    BY <1>16 DEF PortCloses
  <2>2. CASE closer \in {"serial", "user", "lost"}
    BY <1>16, <2>1, <2>2 DEF PortCloses
  <2>3. CASE closer = "again"
    <3>1. UNCHANGED view /\ task'["again"].at = "waiting" /\ task'["again"] # Off
      BY <1>1, <1>16, <2>3, NextTasks DEF PortCloses, Advance, Kinds
    <3>2. QED
      BY <2>1, <2>3, <3>1
  <2>4. CASE closer = "restart" /\ task["again"] # Off
    BY <1>16, <2>1, <2>4 DEF PortCloses
  <2>5. CASE closer = "restart" /\ task["again"] = Off
    <3>1. \/ view' = "busy" /\ task'["again"].at = "opening" /\ task'["again"] # Off
          \/ view' = "idle"
      BY <1>1, <1>16, <2>5, NextTasks DEF PortCloses, TryAgain, WhenOver, Advance, Kinds
    <3>2. QED
      BY <2>1, <3>1
  <2>6. QED
    BY <1>16, <2>2, <2>3, <2>4, <2>5 DEF PortCloses
<1>17. CASE DeviceStep
  <2>1. UNCHANGED answers
    BY <1>17, PhoneSendsData, TypeParts
    DEF DeviceStep, Boot, BLEStep, PhoneConnects, Authenticate, PhoneLeaves, WindowEnds, Link,
        Data
  <2>2. QED
    BY <1>2, <1>17, <2>1 DEF DeviceStep, page
<1>18. CASE Restart \/ Crash \/ ResetIdentity \/ ScriptStartsBLE \/ Unplug
  BY <1>18
  DEF Restart, Crash, ResetIdentity, Stops, GoesDown, ScriptStartsBLE, Unplug, page, device
<1>19. CASE LoseAnswer
  BY <1>19 DEF LoseAnswer, page
<1>20. CASE UNCHANGED vars
  BY <1>2, <1>20 DEF vars, device, page
<1>21. QED
  BY <1>3, <1>4, <1>5, <1>6, <1>8, <1>9, <1>10, <1>11, <1>12, <1>13, <1>14, <1>15, <1>16, <1>17, <1>18, <1>19, <1>20
  DEF Next, UserClicks, PageStep, TaskStep, World

-----------------------------------------------------------------------------
(* The numbers of the settings *)

LEMMA InitNumbers == Init => Numbers /\ OneRestart /\ Matched /\ Promises
<1> SUFFICES ASSUME Init PROVE Numbers /\ OneRestart /\ Matched /\ Promises
  OBVIOUS
<1>1. Limit["save"] \in Nat /\ left = Limit /\ Typed = 0
  BY LimitAssumption DEF Init, DeviceInit, Events, Typed
<1>2. Numbers /\ OneRestart /\ Promises
  BY <1>1, NextTasks DEF Init, DeviceInit, Numbers, OneRestart, Promises, PromiseIsKept, Kinds
<1>3. Matched
  BY DEF Init, DeviceInit, Matched
<1>4. QED
  BY <1>2, <1>3

\* What a task is after it ended in an error: no one's command.
LEMMA FailedTasks ==
  ASSUME TypeOK, NEW k \in Kinds, NEW rest, Failed(k, rest)
  PROVE  /\ \A other \in Kinds \ {k} : task'[other] = task[other]
         /\ task'[k].cmd = "get" /\ task'[k] \in {Off, Closing, Waiting}
         /\ k \notin {"serial", "again"} => task'[k] = Off
  BY NextTasks DEF TypeOK, Failed, Advance

LEMMA NumbersStep == ASSUME IInv, TypeOK', [Next]_vars PROVE Numbers' /\ OneRestart'
<1> DEFINE Goal == Numbers' /\ OneRestart'
<1> USE DEF IInv
<1>1. /\ TypeOK /\ task \in [Kinds -> Tasks] /\ task' \in [Kinds -> Tasks]
      /\ Typed \in Nat /\ Limit["save"] \in Nat /\ left["save"] \in Nat /\ left'["save"] \in Nat
      /\ value \in Nat /\ nvs \in Nat
  <2>1. Limit["save"] \in Nat /\ left["save"] \in Nat /\ left'["save"] \in Nat
    BY LimitAssumption DEF TypeOK, Events
  <2>2. Typed \in Nat
    BY <2>1 DEF Typed, Numbers
  <2>3. QED
    BY <2>1, <2>2, Zenon DEF TypeOK, Tasks
\* A step that changes no settings and no command.
<1>2. ASSUME left'["save"] = left["save"], value' \in {value, nvs}, nvs' \in {value, nvs},
             \A k \in Kinds : task'[k].cmd \in {task[k].cmd, "get"},
             task'["user"].cmd # "get" => task'["user"].num = task["user"].num,
             task'["probe"] = task["probe"] \/ task'["probe"] = Off
      PROVE  Goal
  BY <1>1, <1>2, NextTasks DEF Numbers, OneRestart, Typed, Kinds
<1>3. ASSUME NEW event \in Events, event # "save", Spend(event) PROVE left'["save"] = left["save"]
  BY <1>3, TypeParts, SpendDoes DEF Events
<1>4. CASE UNCHANGED <<task, value, nvs>> /\ left'["save"] = left["save"]
  BY <1>2, <1>4
<1>5. CASE ClickSerial
  BY <1>1, <1>2, <1>5, NextTasks DEF ClickSerial, Advance, Step, device, Kinds
<1>6. CASE ClickDisconnect
  BY <1>3, <1>4, <1>6 DEF ClickDisconnect, device, Events
<1>7. ASSUME NEW cmd \in Commands, ClickRequest(cmd) PROVE Goal
  <2>1. /\ UNCHANGED <<value, nvs>> /\ task["user"] = Off
        /\ task' = [task EXCEPT !["user"] = Ask(cmd, IF cmd = "set" THEN Typed' ELSE 0)]
        /\ cmd \in {"set", "restart", "reset"} => task["probe"] = Off
    BY <1>7 DEF ClickRequest, Advance, Typed, device
  <2>2. IF cmd = "set" THEN left'["save"] = left["save"] - 1 /\ left["save"] # 0
                       ELSE left' = left
    BY <1>7, TypeParts, SpendDoes DEF ClickRequest, Events
  <2>3. /\ left'["save"] <= left["save"] /\ Typed <= Typed' /\ Typed' \in Nat
        /\ left'["save"] <= Limit["save"]
    BY <1>1, <2>2 DEF Typed, Numbers
  <2>4. /\ task'["user"].cmd = cmd /\ task'["user"].num = IF cmd = "set" THEN Typed' ELSE 0
    BY <1>1, <2>1, <2>3, NextTasks DEF Kinds
  <2>5. \A k \in Kinds \ {"user"} : task'[k] = task[k]
    BY <1>1, <2>1
  <2>6. Numbers'
    BY <1>1, <2>1, <2>3, <2>4, <2>5 DEF Numbers
  <2>7. OneRestart'
    BY <2>1, <2>4, <2>5 DEF OneRestart, Kinds
  <2>8. QED
    BY <2>6, <2>7
<1>8. ASSUME NEW k \in Kinds, OpenPort(k) PROVE Goal
  <2>1. k # "probe"
    BY <1>8 DEF OpenPort, OneRestart
  <2>2. QED
    BY <1>1, <1>2, <1>8, <2>1, NextTasks DEF OpenPort, Advance, Step, device, Kinds, Commands
<1>9. ASSUME NEW k \in Kinds, NEW rest, Failed(k, rest), UNCHANGED left PROVE Goal
  <2>1. UNCHANGED <<value, nvs>>
    BY <1>9 DEF Failed, Silent, Quiet
  <2>2. QED
    BY <1>1, <1>2, <1>9, <2>1, FailedTasks DEF Kinds
<1>10. ASSUME NEW k \in Kinds, Send(k) \/ \E next \in Kinds : SendNext(k, next) PROVE Goal
  <2>1. CASE Failed(k, Forget(k, answers)) /\ UNCHANGED left
    BY <1>9, <2>1
  <2>2. CASE Sent(k)
    <3>1. /\ \A other \in Kinds : task'[other].cmd = task[other].cmd /\ task'[other].num = task[other].num
          /\ \A other \in Kinds :
               \/ task'[other] = task[other]
               \/ task[other].at # "off" /\ task'[other].at # "opening"
      BY <2>2 DEF Sent
    <3>2. task["probe"] = Off => task'["probe"] = Off
      BY <3>1, NextTasks DEF Kinds
    <3>3. OneRestart'
      BY <3>1, <3>2 DEF OneRestart, Kinds
    <3>4. CASE Settled
      BY <3>1, <3>3, <3>4 DEF Settled, Numbers, Typed, Kinds
    <3>5. ASSUME NEW ok \in BOOLEAN, task[k].cmd \in {"set", "clear"}, Store(task[k].num, ok)
          PROVE  Goal
      <4>1. k = "user" /\ task[k].num \in Nat
        BY <1>1, <3>5 DEF Numbers, Tasks
      <4>2. /\ left'["save"] = left["save"]
            /\ value' \in {value, task[k].num} /\ nvs' \in {nvs, task[k].num}
        BY <3>5, <4>1, TypeParts, StoreDoes
      <4>3. task[k].num <= Typed
        BY <1>1, <3>5, <4>1 DEF Numbers
      <4>4. Numbers'
        BY <1>1, <3>1, <4>2, <4>3 DEF Numbers, Typed, Kinds
      <4>5. QED
        BY <3>3, <4>4
    <3>6. QED
      BY <2>2, <3>4, <3>5 DEF Sent
  <2>3. QED
    BY <1>1, <1>10, <2>1, <2>2, SendDoes
<1>11. ASSUME NEW k \in Kinds, Timeout(k) PROVE Goal
  BY <1>9, <1>11 DEF Timeout
<1>12. CASE OpenFails
  BY <1>9, <1>12 DEF OpenFails, Kinds
<1>13. ASSUME NEW k \in Kinds, NEW rest, Done(k, rest), UNCHANGED left PROVE Goal
  <2>1. UNCHANGED <<value, nvs>>
    BY <1>13 DEF Done, Silent, Quiet
  <2>2. CASE task[k].cmd = "set"
    <3>1. task' = [task EXCEPT ![k] = Ask("restart", 0)] /\ k = "user"
      BY <1>13, <2>2 DEF Done, Numbers
    <3>2. task["probe"] = Off
      BY <2>2, <3>1 DEF OneRestart
    <3>3. QED
      BY <1>1, <1>13, <2>1, <3>1, <3>2, NextTasks
      DEF Numbers, OneRestart, Typed, Kinds, Commands
  <2>3. CASE task[k].cmd \in {"restart", "reset"}
    <3>1. task' = [task EXCEPT ![k] = Off, !["probe"] = Ask("get", 0)] /\ k = "user"
      BY <1>13, <2>3 DEF Done, Numbers
    <3>2. QED
      BY <1>1, <1>13, <2>1, <3>1, NextTasks DEF Numbers, OneRestart, Typed, Kinds, Commands
  <2>4. CASE task[k].cmd \notin {"set", "restart", "reset"}
    <3>1. task' = [task EXCEPT ![k] = Off]
      BY <1>13, <2>4 DEF Done
    <3>2. QED
      BY <1>1, <1>2, <1>13, <2>1, <3>1, NextTasks DEF Kinds
  <2>5. QED
    BY <2>2, <2>3, <2>4
<1>14. CASE TakeAnswer
  <2>1. answers # <<>> /\ UNCHANGED left
    BY <1>14 DEF TakeAnswer
  <2>2. Head(answers) = answers[1] /\ 1 \in DOMAIN answers
    BY <2>1, TailIs, TypeParts DEF Written
  <2>3. CASE Silent /\ UNCHANGED page
    BY <1>4, <2>1, <2>3 DEF page, Silent, Quiet
  <2>4. CASE Head(answers).request # NoRequest
    <3>1. Head(answers).request.from \in Kinds
      BY <2>2, <2>4 DEF Matched, AnswerMatches
    <3>2. QED
      BY <1>9, <1>13, <1>14, <2>1, <2>4, <3>1 DEF TakeAnswer
  <2>5. QED
    BY <1>14, <2>3, <2>4 DEF TakeAnswer
<1>15. CASE AgainTries \/ AgainFails \/ ExpectEnds \/ NoticePort \/ PortCloses
  BY <1>1, <1>2, <1>15, NextTasks
  DEF AgainTries, AgainFails, TryAgain, ExpectEnds, NoticePort, PortCloses, Advance, Step,
      device,
      Silent, Quiet, Kinds
<1>16. CASE DeviceStep
  <2>1. CASE PhoneSends
    BY <1>4, <1>16, <2>1, PhoneSendsData, TypeParts DEF DeviceStep, page, Data
  <2>2. CASE ~PhoneSends
    BY <1>2, <1>4, <1>16, <2>2
    DEF DeviceStep, Boot, BLEStep, PhoneConnects, Authenticate, PhoneLeaves, WindowEnds, Link,
        Quiet, page
  <2>3. QED
    BY <2>1, <2>2
<1>17. CASE Restart \/ Crash \/ Unplug \/ LoseAnswer \/ ScriptStartsBLE
  BY <1>3, <1>4, <1>17 DEF Restart, Crash, Stops, Unplug, LoseAnswer, ScriptStartsBLE, Handle,
                           Settled, Silent, Quiet, page, device, Events
<1>18. CASE ResetIdentity
  <2>1. PICK ok \in BOOLEAN : Store(value, ok)
    BY <1>18 DEF ResetIdentity
  <2>2. /\ left'["save"] = left["save"] /\ value' = value /\ nvs' \in {nvs, value}
    BY <1>1, <2>1, TypeParts, StoreDoes
  <2>3. UNCHANGED task
    BY <1>18 DEF ResetIdentity, Stops, page
  <2>4. QED
    BY <1>2, <2>2, <2>3
<1>19. CASE UNCHANGED vars
  BY <1>4, <1>19 DEF vars, device, page
<1>20. QED
  BY <1>5, <1>6, <1>7, <1>8, <1>10, <1>11, <1>12, <1>14, <1>15, <1>16, <1>17, <1>18, <1>19
  DEF Next, UserClicks, PageStep, TaskStep, World

\* Answers that are left over still match: none is new, those to a task that
\* went on are forgotten, and the settings they speak of are still in flash.
LEMMA MatchedKept ==
  ASSUME IInv, NEW shift \in {0, 1},
         DOMAIN answers' \subseteq Nat, \A i \in DOMAIN answers' : i + shift \in DOMAIN answers,
         \A i \in DOMAIN answers' :
           \/ answers'[i].request = NoRequest
           \/ /\ answers'[i].request = answers[i + shift].request
              /\ answers'[i].ok = answers[i + shift].ok
              /\ task'[answers'[i].request.from] = task[answers'[i].request.from],
         \A i \in DOMAIN answers :
           answers[i].request # NoRequest /\ answers[i].request.cmd = "set" /\ answers[i].ok
             => answers[i].request.num <= value' /\ answers[i].request.num <= nvs'
  PROVE  Matched'
<1> DEFINE RequestNext(k) == [from |-> k, cmd |-> task'[k].cmd, num |-> task'[k].num]
<1> SUFFICES ASSUME NEW i \in DOMAIN answers', answers'[i].request # NoRequest
             PROVE  LET request == answers'[i].request IN
                    /\ request.from \in Kinds
                    /\ task'[request.from].at = "await" /\ request = RequestNext(request.from)
                    /\ \A j \in DOMAIN answers' : answers'[j].request.from = request.from => j = i
                    /\ request.cmd = "set" /\ answers'[i].ok
                         => request.num <= value' /\ request.num <= nvs'
  BY DEF Matched, AnswerMatches, Request
<1> DEFINE request == answers'[i].request
<1>1. /\ request = answers[i + shift].request /\ answers'[i].ok = answers[i + shift].ok
      /\ task'[request.from] = task[request.from] /\ i + shift \in DOMAIN answers
  OBVIOUS
<1>2. /\ request.from \in Kinds
      /\ task[request.from].at = "await" /\ request = Request(request.from)
      /\ \A j \in DOMAIN answers : answers[j].request.from = request.from => j = i + shift
  BY <1>1 DEF IInv, Matched, AnswerMatches
<1>3. request.cmd = "set" /\ answers'[i].ok => request.num <= value' /\ request.num <= nvs'
  BY <1>1
<1>4. ASSUME NEW j \in DOMAIN answers', answers'[j].request.from = request.from
      PROVE  j = i
  <2>1. answers'[j].request # NoRequest
    BY <1>2, <1>4 DEF NoRequest, Kinds
  <2>2. j + shift \in DOMAIN answers /\ answers[j + shift].request.from = request.from
    BY <1>4, <2>1
  <2>3. j + shift = i + shift
    BY <1>2, <2>2
  <2>4. QED
    BY <2>3
<1>5. request = RequestNext(request.from)
  BY <1>1, <1>2 DEF Request
<1>6. QED
  BY <1>1, <1>2, <1>3, <1>4, <1>5

\* The settings a restart brings back are those the answers spoke of.
LEMMA MatchedSettings ==
  ASSUME IInv, value' \in {value, nvs}, nvs' \in {value, nvs}
  PROVE  \A i \in DOMAIN answers :
           answers[i].request # NoRequest /\ answers[i].request.cmd = "set" /\ answers[i].ok
             => answers[i].request.num <= value' /\ answers[i].request.num <= nvs'
  BY DEF IInv, Matched, AnswerMatches

\* Nothing is left to match.
LEMMA MatchedNone == ASSUME answers' = <<>> PROVE Matched'
  BY DEF Matched, AnswerMatches

LEMMA MatchedQuiet ==
  ASSUME IInv, UNCHANGED answers, value' \in {value, nvs}, nvs' \in {value, nvs},
         \A k \in Kinds : task[k].at = "await" => task'[k] = task[k]
  PROVE  Matched'
<1>1. /\ DOMAIN answers \subseteq Nat
      /\ \A i \in DOMAIN answers : i + 0 = i
  BY TypeParts DEF IInv, Written
<1>2. \A i \in DOMAIN answers :
        answers[i].request # NoRequest
          => task'[answers[i].request.from] = task[answers[i].request.from]
  BY DEF IInv, Matched, AnswerMatches
<1>3. QED
  BY <1>1, <1>2, MatchedSettings, MatchedKept

\* An error to k's request: k's other answers, if any, are forgotten.
LEMMA MatchedFailed ==
  ASSUME IInv, NEW k \in Kinds, Failed(k, Forget(k, answers))
  PROVE  Matched'
<1>1. answers' = Forget(k, answers) /\ UNCHANGED <<value, nvs>>
  BY DEF Failed, Silent, Quiet
<1>2. answers \in Seq(Answers) /\ TypeOK
  BY TypeParts DEF IInv, Written
<1>3. /\ DOMAIN answers' = DOMAIN answers /\ DOMAIN answers \subseteq Nat
      /\ \A i \in DOMAIN answers : /\ answers'[i].request = Forgotten(k, answers[i].request)
                                   /\ answers'[i].ok = answers[i].ok /\ i + 0 = i
  BY <1>1, <1>2, ForgetAnswers
<1>4. ASSUME NEW i \in DOMAIN answers
      PROVE  \/ answers'[i].request = NoRequest
             \/ /\ answers'[i].request = answers[i].request
                /\ task'[answers'[i].request.from] = task[answers'[i].request.from]
  <2>1. answers[i].request \in Requests
    <3>1. answers[i] \in Answers
      BY <1>2, <1>4
    <3>2. QED
      BY <3>1 DEF Answers
  <2>2. CASE answers[i].request.from = k
    BY <1>3, <2>1, <2>2, ForgottenIs
  <2>3. CASE answers[i].request.from # k /\ answers[i].request # NoRequest
    <3>1. answers'[i].request = answers[i].request /\ answers[i].request.from \in Kinds
      BY <1>3, <2>1, <2>3, ForgottenIs DEF IInv, Matched, AnswerMatches
    <3>2. QED
      BY <1>2, <2>3, <3>1, FailedTasks
  <2>4. QED
    BY <1>3, <2>1, <2>2, <2>3, ForgottenIs
<1>5. QED
  BY <1>1, <1>3, <1>4, MatchedSettings, MatchedKept

\* The first answer is taken, and only what asked for it goes on.
LEMMA MatchedTaken ==
  ASSUME IInv, answers # <<>>, answers' = Tail(answers), UNCHANGED <<value, nvs>>,
         \A k \in Kinds : task[k].at = "await" => k = Head(answers).request.from \/ task'[k] = task[k]
  PROVE  Matched'
<1>1. answers \in Seq(Answers)
  BY TypeParts DEF IInv, Written
<1>2. /\ Head(answers) = answers[1] /\ 1 \in DOMAIN answers /\ DOMAIN Tail(answers) \subseteq Nat \ {0}
      /\ \A i \in DOMAIN Tail(answers) : i + 1 \in DOMAIN answers /\ Tail(answers)[i] = answers[i + 1]
  BY <1>1, TailIs
<1>3. ASSUME NEW i \in DOMAIN answers', answers'[i].request # NoRequest
      PROVE  task'[answers'[i].request.from] = task[answers'[i].request.from]
  <2>1. /\ i + 1 \in DOMAIN answers /\ answers'[i] = answers[i + 1] /\ i + 1 # 1
    BY <1>2, <1>3
  <2>2. /\ answers'[i].request.from \in Kinds
        /\ task[answers'[i].request.from].at = "await"
        /\ \A j \in DOMAIN answers : answers[j].request.from = answers'[i].request.from => j = i + 1
    BY <1>3, <2>1 DEF IInv, Matched, AnswerMatches
  <2>3. Head(answers).request.from # answers'[i].request.from
    BY <1>2, <2>1, <2>2
  <2>4. QED
    BY <2>2, <2>3
<1>4. QED
  BY <1>2, <1>3, MatchedSettings, MatchedKept

\* A request is answered: its task begins to wait, and had no answer before.
LEMMA MatchedAnswered ==
  ASSUME IInv, TypeOK', NEW k \in Kinds, NEW ok \in BOOLEAN, task[k].at \in {"head", "tail"},
         task'[k].at = "await", task'[k].cmd = task[k].cmd, task'[k].num = task[k].num,
         \A other \in Kinds : task'[other].cmd = task[other].cmd /\ task'[other].num = task[other].num,
         \A other \in Kinds : task[other].at = "await" => task'[other].at = "await",
         answers' = Append(answers, [request |-> Request(k), ok |-> ok]),
         IF task[k].cmd \in {"set", "clear"} THEN Store(task[k].num, ok) ELSE Settled
  PROVE  Matched'
<1> DEFINE answer == [request |-> Request(k), ok |-> ok]
           n == Len(answers) + 1
           RequestNext(j) == [from |-> j, cmd |-> task'[j].cmd, num |-> task'[j].num]
<1>1. /\ TypeOK /\ answers \in Seq(Answers) /\ answer \in Answers
      /\ Request(k) \in Requests /\ Request(k).from = k /\ Request(k) # NoRequest
      /\ Request(k).cmd = task[k].cmd /\ Request(k).num = task[k].num
  <2>1. TypeOK /\ answers \in Seq(Answers) /\ Doing
    BY TypeParts DEF IInv, Written
  <2>2. /\ Request(k) \in Requests /\ Request(k).from = k /\ Request(k) # NoRequest
        /\ Request(k).cmd = task[k].cmd /\ Request(k).num = task[k].num
    BY <2>1, RequestIs
  <2>3. QED
    BY <2>1, <2>2 DEF Answers
<1>2. /\ DOMAIN answers' = DOMAIN answers \cup {n} /\ answers'[n] = answer /\ n \notin DOMAIN answers
      /\ \A i \in DOMAIN answers : answers'[i] = answers[i]
  BY <1>1, AppendIs
<1>3. RequestNext(k) = Request(k)
  BY DEF Request
<1>4. \A i \in DOMAIN answers : answers[i].request.from # k
  BY <1>1 DEF IInv, Matched, AnswerMatches, NoRequest, Kinds
<1>5. ok /\ task[k].cmd = "set" => value' = task[k].num /\ nvs' = task[k].num
  BY <1>1, TypeParts, StoreDoes DEF Doing, Tasks
<1>6. ASSUME NEW i \in DOMAIN answers, answers[i].request # NoRequest
      PROVE  LET request == answers[i].request IN
             /\ request.from \in Kinds
             /\ task'[request.from].at = "await" /\ request = RequestNext(request.from)
             /\ \A j \in DOMAIN answers' : answers'[j].request.from = request.from => j = i
             /\ request.cmd = "set" /\ answers[i].ok => request.num <= value' /\ request.num <= nvs'
  <2> DEFINE request == answers[i].request
  <2>1. /\ request.from \in Kinds \ {k}
        /\ task[request.from].at = "await" /\ request = Request(request.from)
        /\ \A j \in DOMAIN answers : answers[j].request.from = request.from => j = i
        /\ request.cmd = "set" /\ answers[i].ok => request.num <= value /\ request.num <= nvs
    BY <1>4, <1>6 DEF IInv, Matched, AnswerMatches
  <2>2. task'[request.from].at = "await" /\ RequestNext(request.from) = Request(request.from)
    BY <2>1 DEF Request
  <2>3. \A j \in DOMAIN answers' : answers'[j].request.from = request.from => j = i
    BY <1>1, <1>2, <2>1
  <2>4. request.cmd = "set" => UNCHANGED <<value, nvs>>
    <3>1. request.cmd = "set" => task[request.from].cmd = "set"
      BY <2>1 DEF Request
    <3>2. request.cmd = "set" => request.from = "user"
      BY <2>1, <3>1 DEF IInv, Numbers
    <3>3. request.cmd = "set" => task[k].cmd = "get"
      BY <2>1, <3>2 DEF IInv, Numbers
    <3>4. QED
      BY <3>3 DEF Settled
  <2>5. QED
    BY <2>1, <2>2, <2>3, <2>4
<1>7. \A j \in DOMAIN answers' : answers'[j].request.from = k => j = n
  BY <1>2, <1>4
<1>8. SUFFICES ASSUME NEW i \in DOMAIN answers', answers'[i].request # NoRequest
             PROVE  LET request == answers'[i].request IN
                    /\ request.from \in Kinds
                    /\ task'[request.from].at = "await" /\ request = RequestNext(request.from)
                    /\ \A j \in DOMAIN answers' : answers'[j].request.from = request.from => j = i
                    /\ request.cmd = "set" /\ answers'[i].ok
                         => request.num <= value' /\ request.num <= nvs'
  BY DEF Matched, AnswerMatches, Request
<1>9. CASE i \in DOMAIN answers
  BY <1>2, <1>6, <1>8, <1>9
<1>10. CASE i = n
  <2>1. answers'[i].request = Request(k) /\ answers'[i].ok = ok
    BY <1>2, <1>10
  <2>2. task[k].num \in Nat
    BY <1>1 DEF TypeOK
  <2>3. ok /\ task[k].cmd = "set" => task[k].num <= value' /\ task[k].num <= nvs'
    BY <1>5, <2>2
  <2>4. QED
    BY <1>1, <1>3, <1>7, <1>10, <2>1, <2>3
<1>11. QED
  BY <1>2, <1>8, <1>9, <1>10

LEMMA MatchedStep == ASSUME IInv, TypeOK', [Next]_vars PROVE Matched'
<1> USE DEF IInv
<1>1. /\ TypeOK /\ task \in [Kinds -> Tasks] /\ answers \in Seq(Answers)
      /\ \A k \in Kinds : task[k] = Off => task[k].at = "off"
  BY TypeParts, NextTasks DEF Written, Doing
<1>2. CASE UNCHANGED <<answers, task>> /\ value' \in {value, nvs} /\ nvs' \in {value, nvs}
  BY <1>2, MatchedQuiet
<1>3. CASE ClickSerial
  BY <1>1, <1>3, MatchedQuiet DEF ClickSerial, Advance, Step, device
<1>4. CASE ClickDisconnect
  BY <1>2, <1>4 DEF ClickDisconnect, device
<1>5. ASSUME NEW cmd \in Commands, ClickRequest(cmd) PROVE Matched'
  BY <1>1, <1>5, MatchedQuiet DEF ClickRequest, Advance, device
<1>6. ASSUME NEW k \in Kinds, OpenPort(k) PROVE Matched'
  BY <1>1, <1>6, MatchedQuiet DEF OpenPort, Advance, Step, device
<1>7. ASSUME NEW k \in Kinds, Send(k) \/ \E next \in Kinds : SendNext(k, next) PROVE Matched'
  <2>1. CASE Failed(k, Forget(k, answers))
    BY <2>1, MatchedFailed
  <2>2. CASE Sent(k)
    <3>1. /\ \A other \in Kinds : task'[other].cmd = task[other].cmd /\ task'[other].num = task[other].num
          /\ \A other \in Kinds : task[other].at = "await" => task'[other] = task[other]
          /\ task[k].at \in {"head", "tail"}
      BY <2>2 DEF Sent
    <3>2. CASE Settled /\ UNCHANGED answers
      BY <3>1, <3>2, MatchedQuiet DEF Settled
    <3>3. ASSUME NEW ok \in BOOLEAN, task'[k].at = "await",
                 answers' = Append(answers, [request |-> Request(k), ok |-> ok]),
                 IF task[k].cmd \in {"set", "clear"} THEN Store(task[k].num, ok) ELSE Settled
          PROVE  Matched'
      BY <3>1, <3>3, MatchedAnswered
    <3>4. QED
      BY <2>2, <3>2, <3>3 DEF Sent
  <2>3. QED
    BY <1>1, <1>7, <2>1, <2>2, SendDoes
<1>8. ASSUME NEW k \in Kinds, Timeout(k) PROVE Matched'
  BY <1>8, MatchedFailed DEF Timeout
<1>9. CASE OpenFails
  <2>1. UNCHANGED <<answers, value, nvs>> /\ task["serial"].at = "opening"
    BY <1>9 DEF OpenFails, Failed, Silent, Quiet
  <2>2. \A k \in Kinds \ {"serial"} : task'[k] = task[k]
    BY <1>1, <1>9, FailedTasks DEF OpenFails, Kinds
  <2>3. QED
    BY <2>1, <2>2, MatchedQuiet
<1>10. CASE TakeAnswer
  <2>1. answers # <<>>
    BY <1>10 DEF TakeAnswer
  <2>2. Head(answers) = answers[1] /\ 1 \in DOMAIN answers
    BY <1>1, <2>1, TailIs
  <2>3. CASE answers' = Tail(answers) /\ Silent /\ UNCHANGED page
    BY <2>1, <2>3, MatchedTaken DEF Silent, Quiet, page
  <2>4. CASE Head(answers).request # NoRequest
    <3> DEFINE k == Head(answers).request.from
    <3>1. k \in Kinds /\ Head(answers).request = Request(k)
      BY <2>2, <2>4 DEF Matched, AnswerMatches
    <3>2. CASE Failed(k, Tail(answers))
      <4>1. answers' = Tail(answers) /\ UNCHANGED <<value, nvs>>
        BY <3>2 DEF Failed, Silent, Quiet
      <4>2. \A other \in Kinds \ {k} : task'[other] = task[other]
        BY <1>1, <3>1, <3>2, FailedTasks
      <4>3. QED
        BY <2>1, <4>1, <4>2, MatchedTaken
    <3>3. CASE Done(k, Tail(answers))
      <4>1. answers' = Tail(answers) /\ UNCHANGED <<value, nvs>>
        BY <3>3 DEF Done, Silent, Quiet
      <4>2. \A other \in Kinds \ {k} : other = "probe" \/ task'[other] = task[other]
        BY <1>1, <3>1, <3>3 DEF Done
      <4>3. task'["probe"] = task["probe"] \/ k = "probe" \/ task["probe"] = Off
        <5>1. CASE task[k].cmd \in {"restart", "reset"}
          BY <3>1, <5>1 DEF Numbers, OneRestart
        <5>2. CASE task[k].cmd \notin {"restart", "reset"}
          BY <1>1, <3>1, <3>3, <5>2 DEF Done, Kinds
        <5>3. QED
          BY <5>1, <5>2
      <4>4. QED
        BY <1>1, <2>1, <4>1, <4>2, <4>3, MatchedTaken DEF Kinds
    <3>4. QED
      BY <1>10, <2>4, <3>2, <3>3 DEF TakeAnswer
  <2>5. QED
    BY <1>10, <2>3, <2>4 DEF TakeAnswer
<1>11. CASE AgainTries \/ AgainFails
  BY <1>1, <1>11, MatchedQuiet DEF AgainTries, AgainFails, TryAgain, Advance, Step, device
<1>12. CASE ExpectEnds
  BY <1>2, <1>12 DEF ExpectEnds, Step, device
<1>13. CASE NoticePort
  BY <1>2, <1>13 DEF NoticePort, Step, device
<1>14. CASE PortCloses
  BY <1>14, MatchedNone DEF PortCloses
<1>15. CASE DeviceStep
  <2>1. CASE PhoneSends
    BY <1>2, <1>15, <2>1, PhoneSendsData, TypeParts DEF DeviceStep, page, Data
  <2>2. CASE ~PhoneSends
    BY <1>2, <1>15, <2>2
    DEF DeviceStep, Boot, BLEStep, PhoneConnects, Authenticate, PhoneLeaves, WindowEnds, Link,
        Quiet, page
  <2>3. QED
    BY <2>1, <2>2
<1>16. CASE Restart \/ Crash \/ ScriptStartsBLE \/ Unplug
  BY <1>2, <1>16 DEF Restart, Crash, Stops, GoesDown, Unplug, ScriptStartsBLE, Handle, Settled,
                     page, device
<1>17. CASE ResetIdentity
  <2>1. PICK ok \in BOOLEAN : Store(value, ok)
    BY <1>17 DEF ResetIdentity
  <2>2. value' = value /\ nvs' \in {nvs, value}
    BY <1>1, <2>1, TypeParts, StoreDoes DEF Saved
  <2>3. UNCHANGED <<answers, task>>
    BY <1>17 DEF ResetIdentity, Stops, GoesDown, page
  <2>4. QED
    BY <1>2, <2>2, <2>3
<1>18. CASE LoseAnswer
  BY <1>18, MatchedTaken DEF LoseAnswer, Silent, Quiet, page
<1>19. CASE UNCHANGED vars
  BY <1>2, <1>19 DEF vars, device, page
<1>20. QED
  BY <1>3, <1>4, <1>5, <1>6, <1>7, <1>8, <1>9, <1>10, <1>11, <1>12, <1>13, <1>14, <1>15, <1>16, <1>17, <1>18, <1>19
  DEF Next, UserClicks, PageStep, TaskStep, World

\* The promise about saved settings is kept by what is in use and in flash.
LEMMA PromisesStep == ASSUME IInv, TypeOK', [Next]_vars PROVE Promises'
<1> USE DEF IInv, Promises, PromiseIsKept
<1>1. /\ TypeOK /\ task \in [Kinds -> Tasks] /\ answers \in Seq(Answers)
      /\ value \in Nat /\ nvs \in Nat /\ promised \in Nat /\ value' \in Nat /\ nvs' \in Nat
      /\ left["save"] \in Nat /\ Limit["save"] \in Nat
  <2>1. left["save"] \in Nat /\ Limit["save"] \in Nat
    BY LimitAssumption DEF TypeOK, Events
  <2>2. QED
    BY <2>1, TypeParts, Zenon DEF Written, Doing, Shows, Saved, TypeOK
<1>2. CASE promised' = promised /\ value' \in {value, nvs} /\ nvs' \in {value, nvs}
  BY <1>2
<1>3. CASE UserClicks
  BY <1>2, <1>3
  DEF UserClicks, ClickSerial, ClickDisconnect, ClickRequest, Step, device, Silent, Quiet
<1>4. ASSUME NEW k \in Kinds, OpenPort(k) \/ Timeout(k) PROVE Promises'
  BY <1>2, <1>4 DEF OpenPort, Timeout, Failed, Step, device, Silent, Quiet
<1>5. ASSUME NEW k \in Kinds, Send(k) \/ \E next \in Kinds : SendNext(k, next) PROVE Promises'
  <2>1. CASE Failed(k, Forget(k, answers))
    BY <1>2, <2>1 DEF Failed, Silent, Quiet
  <2>2. CASE Sent(k)
    <3>1. /\ promised' = IF nvs' = 0 THEN 0 ELSE promised
          /\ \/ Settled
             \/ /\ task[k].cmd \in {"set", "clear"}
                /\ \E ok \in BOOLEAN : Store(task[k].num, ok)
      BY <2>2 DEF Sent
    <3>2. CASE Settled
      BY <1>1, <3>1, <3>2 DEF Settled
    <3>3. ASSUME NEW ok \in BOOLEAN, task[k].cmd \in {"set", "clear"}, Store(task[k].num, ok)
          PROVE  Promises'
      <4>1. /\ task[k].num \in Nat /\ value' \in {value, task[k].num} /\ nvs' \in {nvs, task[k].num}
            /\ ok => value' = task[k].num /\ nvs' = task[k].num
            /\ ~ok => value' = value
        BY <1>1, <3>3, TypeParts, StoreDoes DEF Tasks
      <4>2. k = "user"
        BY <3>3 DEF Numbers
      <4>3. CASE task[k].cmd = "set"
        BY <1>1, <3>1, <4>1, <4>2, <4>3 DEF Numbers, Typed
      <4>4. CASE task[k].cmd = "clear"
        BY <1>1, <3>1, <4>1, <4>2, <4>4 DEF Numbers
      <4>5. QED
        BY <3>3, <4>3, <4>4
    <3>4. QED
      BY <2>2, <3>2, <3>3 DEF Sent
  <2>3. QED
    BY <1>1, <1>5, <2>1, <2>2, SendDoes
<1>6. CASE TakeAnswer
  <2>1. answers # <<>>
    BY <1>6 DEF TakeAnswer
  <2>2. Head(answers) = answers[1] /\ 1 \in DOMAIN answers
    BY <1>1, <2>1, TailIs
  <2>3. CASE Silent /\ UNCHANGED page
    BY <1>2, <2>3 DEF Silent, Quiet, page
  <2>4. CASE Head(answers).request # NoRequest
    <3> DEFINE k == Head(answers).request.from
    <3>1. /\ k \in Kinds /\ Head(answers).request = Request(k)
          /\ task[k].cmd = "set" /\ Head(answers).ok => task[k].num <= value /\ task[k].num <= nvs
      BY <2>2, <2>4 DEF Matched, AnswerMatches, Request
    <3>2. CASE \E rest : Failed(k, rest)
      BY <1>2, <3>2 DEF Failed, Silent, Quiet
    <3>3. CASE Head(answers).ok /\ Done(k, Tail(answers))
      BY <1>2, <3>1, <3>3 DEF Done, Silent, Quiet
    <3>4. QED
      BY <1>6, <2>4, <3>2, <3>3 DEF TakeAnswer
  <2>5. QED
    BY <1>6, <2>3, <2>4 DEF TakeAnswer
<1>7. CASE OpenFails \/ AgainTries \/ AgainFails \/ ExpectEnds \/ NoticePort \/ PortCloses
  BY <1>2, <1>7
  DEF OpenFails, AgainTries, AgainFails, ExpectEnds, NoticePort, PortCloses, Failed, Step,
      device,
      Silent, Quiet
<1>8. CASE DeviceStep
  <2>1. CASE PhoneSends
    BY <1>2, <1>8, <2>1, PhoneSendsData, TypeParts DEF DeviceStep, page, Data
  <2>2. CASE ~PhoneSends
    BY <1>2, <1>8, <2>2
    DEF DeviceStep, Boot, BLEStep, PhoneConnects, Authenticate, PhoneLeaves, WindowEnds, Link,
        Quiet, page
  <2>3. QED
    BY <2>1, <2>2
<1>9. CASE Restart \/ Crash \/ ScriptStartsBLE \/ Unplug \/ LoseAnswer
  BY <1>2, <1>9 DEF Restart, Crash, Stops, Unplug, ScriptStartsBLE, Handle, Settled, LoseAnswer,
                    page, device, Silent, Quiet
<1>10. CASE ResetIdentity
  <2>1. PICK ok \in BOOLEAN : Store(value, ok)
    BY <1>10 DEF ResetIdentity
  <2>2. value' = value /\ nvs' \in {nvs, value}
    BY <1>1, <2>1, TypeParts, StoreDoes
  <2>3. promised' = promised
    BY <1>10 DEF ResetIdentity, Stops, page
  <2>4. QED
    BY <1>2, <2>2, <2>3
<1>11. CASE UNCHANGED vars
  BY <1>2, <1>11 DEF vars, device, page
<1>12. QED
  BY <1>3, <1>4, <1>5, <1>6, <1>7, <1>8, <1>9, <1>10, <1>11
  DEF Next, PageStep, TaskStep, World

-----------------------------------------------------------------------------
LEMMA InitInvariant == Init => IInv
<1> SUFFICES ASSUME Init PROVE IInv
  OBVIOUS
<1>1. SavedIsUsed
  BY DEF Init, DeviceInit, SavedIsUsed
<1>2. Linked
  BY DEF Init, DeviceInit, Linked, WindowFollowsLink
<1>3. Shown
  BY DEF Init, DeviceInit, Shown, PageIsUsable, NoPort
<1>4. QED
  BY <1>1, <1>2, <1>3, InitType, InitNumbers DEF IInv

LEMMA InductiveStep == IInv /\ [Next]_vars => IInv'
  BY TypeStep, NumbersStep, MatchedStep, PromisesStep, LinkedStep, ShownStep DEF IInv

\* The inductive invariant holds in every reachable state, for any number of
\* saves and troubles and any length of a line.
THEOREM Invariance == Spec => []IInv
  BY InitInvariant, InductiveStep, PTL DEF Spec

\* Settings reported as saved, or the ones typed after them, are in use and in
\* flash, whatever requests, time-outs, errors and restarts come between.
THEOREM SettingsSurvive == Spec => []SettingsAreKept
<1>1. IInv => SettingsAreKept
  BY DEF IInv, Promises, SettingsAreKept
<1>2. QED
  BY <1>1, Invariance, PTL

\* The BLE server is on the air for its window only, and a connection is not
\* cut by the window of the advertising before it.
THEOREM WindowIsTheLinks == Spec => []WindowFollowsLink
<1>1. IInv => WindowFollowsLink
  BY DEF IInv, Linked
<1>2. QED
  BY <1>1, Invariance, PTL

\* The user is never left with buttons that all fail, nor with none.
THEOREM ButtonsAreOfUse == Spec => []PageIsUsable
<1>1. IInv => PageIsUsable
  BY DEF IInv, Shown
<1>2. QED
  BY <1>1, Invariance, PTL

\* Only the last part of a line over an open port makes a task wait for its
\* answer, and it leaves nothing but another task's next line in the line buffer.
Emptied ==
  \/ buffer' = <<>>
  \/ \E next \in Kinds : task'[next].at = "tail" /\ buffer' = <<Part(Request(next), FALSE)>>

LEMMA TornLineStep ==
  ASSUME IInv, [Next]_vars, NEW k \in Kinds, up, task[k].at = "tail", task'[k].at = "await"
  PROVE  Emptied
<1>1. TypeOK /\ task \in [Kinds -> Tasks]
  BY TypeParts DEF IInv, Doing
<1>2. CASE UNCHANGED task
  BY <1>2
<1>3. ASSUME NEW other \in Kinds, NEW next \in Tasks, next.at # "await",
             task' = [task EXCEPT ![other] = next]
      PROVE  FALSE
  BY <1>1, <1>3
<1>4. CASE UserClicks
  <2>1. CASE ClickSerial \/ ClickDisconnect
    BY <1>2, <1>3, <2>1, NextTasks DEF ClickSerial, ClickDisconnect, Advance, Kinds
  <2>2. ASSUME NEW cmd \in Commands, ClickRequest(cmd) PROVE FALSE
    <3>1. PICK next : task["user"] = Off /\ task' = [task EXCEPT !["user"] = next]
      BY <2>2 DEF ClickRequest, Advance
    <3>2. k # "user"
      BY <3>1, NextTasks
    <3>3. QED
      BY <1>1, <3>1, <3>2
  <2>3. QED
    BY <1>4, <2>1, <2>2 DEF UserClicks
<1>5. ASSUME NEW other \in Kinds, OpenPort(other) PROVE FALSE
  BY <1>3, <1>5, NextTasks DEF OpenPort, Advance, Commands
<1>6. ASSUME NEW other \in Kinds, NEW rest, Failed(other, rest) PROVE FALSE
  <2>1. task'[other].at # "await" /\ \A rem \in Kinds \ {other} : task'[rem] = task[rem]
    BY <1>1, <1>6, FailedTasks, NextTasks
  <2>2. QED
    BY <2>1
<1>7. ASSUME NEW other \in Kinds, Send(other) \/ \E next \in Kinds : SendNext(other, next)
      PROVE  Emptied
  <2>1. CASE Failed(other, Forget(other, answers))
    BY <1>6, <2>1
  <2>2. ASSUME NEW last \in BOOLEAN, Arrives(Part(Request(other), last), <<>>),
               Advance(other, [task[other] EXCEPT !.at = IF last THEN "await" ELSE "tail"])
        PROVE  Emptied
    <3>1. k = other /\ last
      BY <1>1, <2>2 DEF Advance, Tasks
    <3>2. <<>> \in Seq(Parts)
      BY Empty
    <3>3. buffer' = <<>>
      BY <1>1, <2>2, <3>1, <3>2, ArrivesDoes
    <3>4. QED
      BY <3>3 DEF Emptied
  <2>3. ASSUME NEW next \in Kinds, SendNext(other, next) PROVE Emptied
    <3>1. task'[next].at = "tail"
      BY <1>1, <2>3 DEF SendNext, Tasks
    <3>2. <<Part(Request(next), FALSE)>> \in Seq(Parts)
      BY <1>1, NextIs DEF Doing
    <3>3. Arrives(Part(Request(other), TRUE), <<Part(Request(next), FALSE)>>)
      BY <2>3 DEF SendNext
    <3>4. buffer' \in {<<>>, <<Part(Request(next), FALSE)>>}
      BY <1>1, <3>2, <3>3, ArrivesDoes
    <3>5. QED
      BY <3>1, <3>4 DEF Emptied
  <2>4. CASE Send(other)
    BY <2>1, <2>2, <2>4 DEF Send
  <2>5. QED
    BY <1>7, <2>3, <2>4
<1>8. ASSUME NEW other \in Kinds, NEW rest, Done(other, rest) PROVE FALSE
  <2>1. \/ task' = [task EXCEPT ![other] = Ask("restart", 0)]
        \/ task' = [task EXCEPT ![other] = Off, !["probe"] = Ask("get", 0)]
        \/ task' = [task EXCEPT ![other] = Off]
    BY <1>8, Zenon DEF Done
  <2>2. CASE task' = [task EXCEPT ![other] = Off, !["probe"] = Ask("get", 0)]
    BY <1>1, <2>2, NextTasks DEF Commands
  <2>3. QED
    BY <1>3, <2>1, <2>2, NextTasks DEF Commands
<1>9. CASE TakeAnswer
  <2>1. answers # <<>> /\ answers \in Seq(Answers)
    BY <1>9, TypeParts DEF TakeAnswer, IInv, Written
  <2>2. Head(answers) = answers[1] /\ 1 \in DOMAIN answers
    BY <2>1, TailIs
  <2>3. Head(answers).request # NoRequest => Head(answers).request.from \in Kinds
    BY <2>2 DEF IInv, Matched, AnswerMatches
  <2>4. QED
    BY <1>2, <1>6, <1>8, <1>9, <2>3 DEF TakeAnswer, page
<1>10. CASE AgainTries \/ AgainFails \/ ExpectEnds \/ NoticePort \/ PortCloses
  BY <1>2, <1>3, <1>10, NextTasks
  DEF AgainTries, AgainFails, TryAgain, ExpectEnds, NoticePort, PortCloses, Advance, Kinds
<1>11. CASE (\E other \in Kinds : Timeout(other)) \/ OpenFails
  BY <1>6, <1>11 DEF Timeout, OpenFails, Kinds
<1>12. CASE DeviceStep \/ World \/ UNCHANGED vars
  BY <1>2, <1>12 DEF DeviceStep, World, Restart, Crash, Stops, ResetIdentity, ScriptStartsBLE,
                     Unplug, LoseAnswer, page, vars
<1>13. QED
  BY <1>4, <1>5, <1>7, <1>9, <1>10, <1>11, <1>12 DEF Next, PageStep, TaskStep

\* A torn line costs the requests of one chunk: whatever was left of earlier
\* lines, the end of a line leaves nothing but the start of the next.
THEOREM TornLinesEnd == Spec => TornLineEnds
<1>1. IInv /\ [Next]_vars =>
        [\A k \in Kinds : up /\ task[k].at = "tail" /\ task'[k].at = "await" =>
           \/ buffer' = <<>>
           \/ \E next \in Kinds :
                task'[next].at = "tail" /\ buffer' = <<Part(Request(next), FALSE)>>]_vars
  BY TornLineStep DEF Emptied
<1>2. QED
  BY <1>1, Invariance, PTL DEF Spec, TornLineEnds

====
