------------------------------- MODULE SetupPage -------------------------------
(***************************************************************************)
(* The setup page of the camera hub (tools/camera-server.ts, its script)     *)
(* on Web Serial, and the device it sets up: requests matched to answers by  *)
(* their id, the restart after a save and the reconnection after the restart.*)
(* The script's async functions are tasks that interleave; the user clicks   *)
(* whatever is enabled.                                                      *)
(***************************************************************************)
EXTENDS Provisioning

VARIABLES
  view,              \* "idle": the connect buttons; "busy": none; "ready": the others;
                     \* "leaving": the disconnect button
  port,              \* the serial port: "none", "open", or "dead" until it is closed
  closer,            \* who closes the port, serialPort being undefined meanwhile
  expect,            \* Date.now() < expectedRestartUntil
  task,              \* the async functions, by kind
  promised           \* the last settings the page reported as saved, not erased since

page == <<view, port, closer, expect, task, promised>>
vars == <<device, left, page>>

Kinds == {"serial", "again", "user", "probe"}  \* bound: one task of each
Commands == {"get", "set", "clear", "restart", "reset"}

Off == [at |-> "off", cmd |-> "get", num |-> 0]
Opening == [Off EXCEPT !.at = "opening"]
Closing == [Off EXCEPT !.at = "closing"]
Waiting == [Off EXCEPT !.at = "waiting"]
Ask(cmd, num) == [at |-> "head", cmd |-> cmd, num |-> num]

Init == /\ DeviceInit
        /\ view = "idle" /\ port = "none" /\ closer = "none" /\ expect = FALSE
        /\ task = [k \in Kinds |-> Off] /\ promised = 0

Request(k) == [from |-> k, cmd |-> task[k].cmd, num |-> task[k].num]
NoRequest == [from |-> "none", cmd |-> "get", num |-> 0]

-----------------------------------------------------------------------------
(* What the page's functions do.  An operator whose name starts with Bug is a *)
(* plausible mistake in the definition after it.                              *)

BugForgotten(k, request) == request    \* matched by function, not by id
\* The id of k's request is no longer pending.
Forgotten(k, request) == IF request.from = k THEN NoRequest ELSE request

Forget(k, messages) ==
  [i \in DOMAIN messages |-> [messages[i] EXCEPT !.request = Forgotten(k, @)]]

Advance(k, next) == task' = [task EXCEPT ![k] = next]
Silent == Quiet /\ UNCHANGED <<ble, armed, phone>>     \* of the device
Step == UNCHANGED <<device, left, promised>>

\* serialPort is undefined.
NoPort == port = "none" \/ closer # "none"

\* closeSerial, up to its awaits; there is nothing to wait for without a port.
CloseSerial(who) == closer' = (IF NoPort THEN closer ELSE who)

\* disconnected() after a failed connection; the reconnection waits for a second.
AfterFailure(k) == IF k = "serial" THEN "idle" ELSE view

\* What the function that made k's request, or k's connection, does with an error.
Failed(k, rest) ==
  /\ IF k \in {"serial", "again"} /\ ~NoPort
     THEN CloseSerial(k) /\ Advance(k, Closing) /\ UNCHANGED view
     ELSE /\ Advance(k, IF k = "again" THEN Waiting ELSE Off)
          /\ view' = AfterFailure(k) /\ UNCHANGED closer
  /\ answers' = rest
  /\ buffer' = Forget(k, buffer)
  /\ Silent /\ UNCHANGED <<port, expect, promised>>

\* ... and with an answer: a save is followed by a restart, and that by a probe.
Done(k, rest) ==
  LET cmd == task[k].cmd IN
  /\ task' = CASE cmd = "set" -> [task EXCEPT ![k] = Ask("restart", 0)]
               [] cmd \in {"restart", "reset"} -> [task EXCEPT ![k] = Off,
                                                              !["probe"] = Ask("get", 0)]
               [] OTHER -> [task EXCEPT ![k] = Off]
  /\ expect' = (k = "user" /\ (expect \/ cmd = "set"))
  /\ promised' = IF cmd = "set" THEN task[k].num ELSE promised
  /\ answers' = rest
  /\ Silent /\ UNCHANGED <<buffer, view, port, closer>>

-----------------------------------------------------------------------------
(* The user's clicks *)

ClickSerial == /\ view = "idle" /\ task["serial"] = Off /\ phone = "none"
               /\ view' = "busy" /\ Advance("serial", Opening)
               /\ Step /\ UNCHANGED <<port, closer, expect>>

\* The buttons stay enabled while another function's request is on its way.
ClickRequest(cmd) ==
  /\ view = "ready" /\ task["user"] = Off
  \* bound: one restart at a time
  /\ cmd \in {"set", "restart", "reset"} => task["probe"] = Off /\ due = {}
  /\ IF cmd = "set" THEN Spend("save") ELSE UNCHANGED left
  /\ Advance("user", Ask(cmd, IF cmd = "set" THEN Limit["save"] - left'["save"] ELSE 0))
  /\ expect' = (expect \/ cmd \in {"restart", "reset"})
  /\ UNCHANGED <<device, view, port, closer, promised>>

\* Clicked again, or without a port, it does not wait.
ClickDisconnect == /\ view \in {"ready", "leaving"} /\ Spend("trouble")
                   /\ CloseSerial("user")
                   /\ view' = (IF NoPort THEN "idle" ELSE "leaving") /\ expect' = FALSE
                   /\ UNCHANGED <<device, port, task, promised>>

-----------------------------------------------------------------------------
(* The functions' steps *)

\* openSerial, clicked or by the reconnection.
OpenPort(k) == /\ task[k].at = "opening"
               /\ port = "none" /\ (bridge \/ up)
               /\ port' = "open" /\ view' = "ready"
               /\ Advance(k, Ask("get", 0))
               /\ Step /\ UNCHANGED <<closer, expect>>

\* The port is taken, the device away, or the user does not choose one: whatever
\* connection there is, it is closed.
OpenFails == task["serial"].at = "opening" /\ Failed("serial", answers) /\ UNCHANGED left

\* Writing still works while a failed connection's reader is cancelled.
Writable == port = "open" /\ closer \in {"none", "serial", "again"}

\* The device, if it runs, gets a chunk.
Arrives(part, next) ==
  /\ IF up THEN Feed(part, next) ELSE UNCHANGED <<device, left>>
  /\ promised' = IF nvs' = 0 THEN 0 ELSE promised
  /\ UNCHANGED <<bridge, up, phone, view, port, closer, expect>>

\* One part of send()'s line; the port keeps lines apart.
Send(k) ==
  LET last == task[k].at = "tail" IN
  /\ task[k].at \in {"head", "tail"}
  /\ \/ /\ Writable
        /\ ~last => \A other \in Kinds : task[other].at # "tail"
        /\ Advance(k, [task[k] EXCEPT !.at = IF last THEN "await" ELSE "tail"])
        /\ Arrives(Part(Request(k), last), <<>>)
     \/ /\ NoPort \/ port # "open"
        /\ Failed(k, Forget(k, answers)) /\ UNCHANGED left

\* The end of k's line comes in one chunk with the start of the next.
SendNext(k, next) ==
  /\ task[k].at = "tail" /\ task[next].at = "head" /\ Writable
  /\ task' = [task EXCEPT ![k].at = "await", ![next].at = "tail"]
  /\ Arrives(Part(Request(k), TRUE), <<Part(Request(next), FALSE)>>)

\* acceptChunk
TakeAnswer ==
  /\ answers # <<>> /\ closer = "none"
  /\ LET a == Head(answers)
         rest == Tail(answers) IN
     \/ /\ a.request = NoRequest
        /\ answers' = rest /\ Silent /\ UNCHANGED <<buffer, page>>
     \/ a.request # NoRequest /\ a.ok /\ Done(a.request.from, rest)
     \/ a.request # NoRequest /\ ~a.ok /\ Failed(a.request.from, rest)
  /\ UNCHANGED left

\* 10 s without an answer, or with one that is just too late; one of those at
\* a time is the bound.
Timeout(k) == /\ task[k].at = "await"
              /\ ~\E i \in DOMAIN answers : answers[i].request = NoRequest
              /\ Failed(k, Forget(k, answers)) /\ UNCHANGED left

BugWhenOver == view                    \* disconnected() is left out
WhenOver == IF NoPort THEN "idle" ELSE view

\* reconnectSerial's loop tries, or ends: the user was faster, or the time is over.
TryAgain == IF NoPort /\ expect THEN view' = "busy" /\ Advance("again", Opening)
            ELSE view' = WhenOver /\ Advance("again", Off)

AgainTries == /\ task["again"].at = "waiting"
              /\ TryAgain
              /\ Step /\ UNCHANGED <<port, closer, expect>>

\* The device's port is not listed, or does not open.
AgainFails == /\ task["again"].at = "opening"
              /\ \/ /\ Advance("again", Waiting)
                    /\ Step /\ UNCHANGED <<view, port, closer, expect>>
                 \/ /\ CloseSerial("again") /\ view' = "busy"
                    /\ Advance("again", IF NoPort THEN Waiting ELSE Closing)
                    /\ Step /\ UNCHANGED <<port, expect>>

\* 30 s after the restart was asked for.
ExpectEnds == /\ expect /\ expect' = FALSE
              /\ Step /\ UNCHANGED <<view, port, closer, task>>

\* readSerial ends by itself: a restart is waited for, by one loop only.
NoticePort == /\ port = "dead" /\ closer = "none"
              /\ closer' = (IF expect THEN "restart" ELSE "lost")
              /\ Step /\ UNCHANGED <<view, port, expect, task>>

\* port.close() is done: what was not read is gone, and whoever waited goes on.
PortCloses == /\ closer # "none"
              /\ port' = "none" /\ closer' = "none" /\ answers' = <<>>
              /\ \/ closer = "serial" /\ view' = "idle" /\ Advance("serial", Off)
                 \/ closer = "again" /\ Advance("again", Waiting) /\ UNCHANGED view
                 \/ closer \in {"user", "lost"} /\ view' = "idle" /\ UNCHANGED task
                 \/ /\ closer = "restart"
                    /\ IF task["again"] = Off THEN TryAgain ELSE UNCHANGED <<view, task>>
              /\ Silent /\ UNCHANGED <<buffer, left, expect, promised>>

-----------------------------------------------------------------------------
(* The device and the cable *)

Stops == /\ GoesDown
         /\ port' = IF port = "open" /\ ~bridge THEN "dead" ELSE port
         /\ UNCHANGED <<view, closer, expect, task, promised>>

Restart == "restart" \in due /\ Stops /\ UNCHANGED <<value, nvs, refused, left>>
Crash == Spend("trouble") /\ Stops /\ UNCHANGED <<value, nvs, refused>>

\* resetTailnetIdentity: the auth key is taken out of the saved settings; then
\* the identity is erased and the device restarts, or it goes on.
ResetIdentity == /\ "reset" \in due
                 /\ \/ Store(value, TRUE) /\ Stops
                    \/ /\ \E ok \in BOOLEAN : Store(value, ok)
                       /\ due' = due \ {"reset"}
                       /\ UNCHANGED <<bridge, up, buffer, ble, armed, phone, answers, page>>

\* provision-usb.ps1 ble, when the port is free: a whole line.
ScriptStartsBLE == /\ port = "none" /\ up
                   /\ IF buffer = <<>> THEN Handle([cmd |-> "ble"], TRUE)
                      ELSE Settled /\ UNCHANGED <<due, ble, armed>>
                   /\ buffer' = <<>>
                   /\ UNCHANGED <<bridge, up, phone, answers, page>>

Unplug == /\ port = "open" /\ Spend("trouble")
          /\ port' = "dead"
          /\ UNCHANGED <<device, view, closer, expect, task, promised>>

\* usbWrite gives up after 100 ms.
LoseAnswer == /\ answers # <<>> /\ Spend("trouble")
              /\ answers' = Tail(answers)
              /\ Silent /\ UNCHANGED <<buffer, page>>

-----------------------------------------------------------------------------
TaskStep(k) == OpenPort(k) \/ Send(k) \/ Timeout(k) \/ \E next \in Kinds : SendNext(k, next)
UserClicks == ClickSerial \/ ClickDisconnect \/ \E cmd \in Commands : ClickRequest(cmd)
PageStep == \/ \E k \in Kinds : TaskStep(k)
            \/ OpenFails \/ TakeAnswer \/ AgainTries \/ AgainFails \/ ExpectEnds
            \/ NoticePort \/ PortCloses
\* Bound: BLE is used while the page is not.
Unused == port = "none" /\ \A k \in Kinds : task[k] = Off
DeviceStep == (Boot \/ (BLEStep /\ Unused)) /\ UNCHANGED page
World == Restart \/ Crash \/ ResetIdentity \/ ScriptStartsBLE \/ Unplug \/ LoseAnswer

Next == UserClicks \/ PageStep \/ DeviceStep \/ World

Spec == Init /\ [][Next]_vars

-----------------------------------------------------------------------------
Requests == [from : Kinds \cup {"none", "phone"}, cmd : Commands, num : Nat]

\* The values the variables range over.
TypeOK ==
  /\ bridge \in BOOLEAN /\ up \in BOOLEAN /\ value \in Nat /\ nvs \in Nat
  /\ refused \subseteq Nat /\ due \subseteq {"restart", "reset"}
  /\ ble \in {"off", "open", "linked", "auth"} /\ armed \in BOOLEAN
  /\ phone \in {"none", "linked", "half"}
  /\ buffer \in Seq([request : Requests, last : {FALSE}]) /\ Len(buffer) <= MaxParts
  /\ answers \in Seq([request : Requests, ok : BOOLEAN])
  /\ left \in [Events -> Nat]
  /\ view \in {"idle", "busy", "ready", "leaving"} /\ port \in {"none", "open", "dead"}
  /\ closer \in {"none", "serial", "again", "user", "lost", "restart"}
  /\ expect \in BOOLEAN /\ promised \in Nat
  /\ task \in [Kinds -> [at : {"off", "opening", "head", "tail", "await", "closing", "waiting"},
                         cmd : Commands, num : Nat]]

\* What the page reported as saved, or what the user typed later, is in flash.
PromiseIsKept == promised <= nvs

SettingsAreKept == TypeOK /\ SavedIsUsed /\ PromiseIsKept

\* The page has no enabled button only while a connection is being made, and
\* shows a connection's buttons only when there is one or it is coming back: the
\* user is never left with buttons that all fail, nor with none.
PageIsUsable ==
  /\ view = "busy" => \E k \in {"serial", "again"} : task[k] # Off
  /\ view = "ready" => port # "none" \/ \E k \in {"serial", "again"} : task[k] # Off

\* Whatever was left of earlier lines, on USB or BLE, the end of a line leaves
\* nothing but the start of the next: a torn line costs the requests of one chunk.
TornLineEnds ==
  [][\A k \in Kinds : up /\ task[k].at = "tail" /\ task'[k].at = "await" =>
       \/ buffer' = <<>>
       \/ \E next \in Kinds :
            task'[next].at = "tail" /\ buffer' = <<Part(Request(next), FALSE)>>]_vars
=============================================================================
