----------------------------- MODULE Provisioning -----------------------------
(***************************************************************************)
(* The device's side of its setup: the line assembled from what USB and BLE *)
(* bring (provisioning-protocol.js), the settings in use and in flash        *)
(* (device-config.js and .c), and the BLE server with its window             *)
(* (ble-provisioning.js), with whoever uses BLE.  SetupPage adds the browser *)
(* at the other end of the USB port and composes the two.  Settings are      *)
(* numbered in the order the user typed them, 0 being the firmware's         *)
(* defaults; a request travels in two parts.                                 *)
(***************************************************************************)
EXTENDS Naturals, Sequences

CONSTANTS Limit,        \* bound: how often each of Events happens
          MaxParts      \* parts the line buffer takes: MAX_LINE_BYTES

Events == {"save", "trouble"}

ASSUME LimitAssumption == Limit \in [Events -> Nat]
ASSUME MaxPartsAssumption == MaxParts \in Nat \ {0, 1}

VARIABLES
  bridge,            \* a UART bridge keeps the port (M5Camera, which has no BLE)
  up,                \* the firmware runs
  buffer,            \* parts of a line that has not ended
  value, nvs,        \* the settings in use, and those in flash
  refused,           \* settings whose write reported an error, since the last good one
  due,               \* timers of provision.restart and provision.tailnet.reset
  ble,               \* the server: "off", "open" to a connection, "linked", "auth"
  armed,             \* the window's timer
  phone,             \* the client on BLE: "none", connected, or half through a line
  answers,           \* written to USB and not yet read at the other end
  left               \* of Limit

device == <<bridge, up, buffer, value, nvs, refused, due, ble, armed, phone, answers>>

DeviceInit ==
  /\ bridge \in BOOLEAN /\ up = TRUE /\ buffer = <<>>
  /\ value = 0 /\ nvs = 0 /\ refused = {} /\ due = {}
  /\ ble = (IF bridge THEN "off" ELSE "open") /\ armed = ~bridge /\ phone = "none" /\ answers = <<>>
  /\ left = Limit

Spend(event) == left[event] > 0 /\ left' = [left EXCEPT ![event] = @ - 1]

-----------------------------------------------------------------------------
(* The settings.  An operator whose name starts with Bug is a plausible       *)
(* mistake in the definition after it; no specification uses it.              *)

BugInUse(new, ok) == new               \* this.value is set before native.save
InUse(new, ok) == IF ok THEN new ELSE value

\* save() and clear(): an error leaves the settings in use alone, but says
\* nothing of the flash.
Store(new, ok) ==
  /\ value' = InUse(new, ok)
  /\ IF ok THEN nvs' = new /\ refused' = {} /\ UNCHANGED left
           ELSE nvs' \in {nvs, new} /\ refused' = refused \cup {new} /\ Spend("trouble")

Settled == UNCHANGED <<value, nvs, refused, left>>

-----------------------------------------------------------------------------
(* The BLE server *)

BugRearms == TRUE                      \* extendWindow also when connected
Rearms == ble \in {"off", "open"}

\* startBLEProvisioning: a new server, or a longer window for the old one.
StartBLE == IF bridge THEN UNCHANGED <<ble, armed>>
            ELSE /\ ble' = (IF ble = "off" THEN "open" ELSE ble)
                 /\ armed' = (armed \/ Rearms)

-----------------------------------------------------------------------------
(* ProvisioningProtocol *)

\* handle(): what a valid request does, with its answer.
Handle(request, ok) ==
  \/ /\ request.cmd = "get" /\ ok
     /\ Settled /\ UNCHANGED <<due, ble, armed>>
  \/ /\ request.cmd \in {"set", "clear"}
     /\ Store(request.num, ok) /\ UNCHANGED <<due, ble, armed>>
  \/ /\ request.cmd = "ble" /\ ok
     /\ StartBLE /\ Settled /\ UNCHANGED due
  \/ /\ request.cmd \in {"restart", "reset"} /\ ok
     /\ due' = due \cup {request.cmd}
     /\ Settled /\ UNCHANGED <<ble, armed>>

Part(request, last) == [request |-> request, last |-> last]

\* A line that is exactly the parts of one request, in order.
IsRequest(line) ==
  /\ Len(line) = 2 /\ line[1].request = line[2].request
  /\ ~line[1].last /\ line[2].last

\* A chunk is one part of a line, or the end of one with the start of the next.
Fits(next) == Len(buffer) + 1 + Len(next) <= MaxParts

BugTooLong == buffer                   \* drops the chunk only
\* What feed() keeps when the buffer and the chunk are too long.
TooLong == <<>>

\* The answer goes back the way the line's last part came.  That of a bad line
\* has no request's id and is not kept here, nor is one to BLE.
Reply(request, ok) ==
  answers' = IF request.from = "phone" THEN answers
             ELSE Append(answers, [request |-> request, ok |-> ok])

\* feed(), and handle() of a line that it completes.
Feed(part, next) ==
  LET line == Append(buffer, part) IN
  /\ buffer' = CASE ~Fits(next) -> TooLong [] Fits(next) /\ part.last -> next [] OTHER -> line
  /\ IF Fits(next) /\ part.last /\ IsRequest(line)
     THEN \E ok \in BOOLEAN : Handle(part.request, ok) /\ Reply(part.request, ok)
     ELSE Settled /\ UNCHANGED <<due, ble, armed, answers>>

-----------------------------------------------------------------------------
(* The BLE server's callbacks.  Who connects only asks for the settings.      *)

Quiet == UNCHANGED <<bridge, up, value, nvs, refused, due>>
Link == Quiet /\ UNCHANGED <<buffer, answers>>

PhoneConnects == /\ ble = "open" /\ phone = "none"
                 /\ ble' = "linked" /\ armed' = FALSE /\ phone' = "linked"
                 /\ Link /\ UNCHANGED left

\* The pairing completes: onAuthenticated.
Authenticate == /\ ble = "linked" /\ ble' = "auth"
                /\ Link /\ UNCHANGED <<armed, phone, left>>

\* Nothing is taken from a connection that is not authenticated.
PhoneSends == /\ phone # "none"
              /\ phone' = IF phone = "half" THEN "linked" ELSE "half"
              /\ IF ble = "auth"
                 THEN Feed(Part([from |-> "phone", cmd |-> "get", num |-> 0], phone = "half"), <<>>)
                 ELSE Settled /\ UNCHANGED <<due, ble, armed, buffer, answers>>
              /\ UNCHANGED <<bridge, up>>

BugAfterLink == FALSE                  \* onDisconnected advertises only
AfterLink == TRUE

\* onDisconnected
PhoneLeaves == /\ phone # "none"
               /\ ble' = "open" /\ armed' = AfterLink /\ phone' = "none"
               /\ Link /\ UNCHANGED left

\* shutdown()
WindowEnds == /\ armed
              /\ armed' = FALSE /\ ble' = "off" /\ phone' = "none"
              /\ Link /\ UNCHANGED left

BLEStep == PhoneConnects \/ Authenticate \/ PhoneSends \/ PhoneLeaves \/ WindowEnds

-----------------------------------------------------------------------------
(* Restarts *)

\* esp_restart, a crash or a power cut.
GoesDown == /\ up /\ up' = FALSE
            /\ buffer' = <<>> /\ due' = {} /\ ble' = "off" /\ armed' = FALSE /\ phone' = "none"
            /\ UNCHANGED <<bridge, answers>>

\* DeviceConfig's constructor, and the BLE server's.
Boot == /\ ~up /\ up' = TRUE
        /\ value' = nvs /\ refused' = {}
        /\ ble' = (IF bridge THEN "off" ELSE "open") /\ armed' = ~bridge
        /\ UNCHANGED <<bridge, buffer, nvs, due, phone, answers, left>>

-----------------------------------------------------------------------------
\* The settings in use are those that a restart will find, unless a write
\* reported an error.
SavedIsUsed == nvs \in {value} \cup refused

\* The BLE server is on the air for its window only, and a connection is not cut
\* by the window of the advertising before it.
WindowFollowsLink == armed = (ble = "open")
=============================================================================
