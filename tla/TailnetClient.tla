---------------------------- MODULE TailnetClient ----------------------------
(***************************************************************************)
(* The Tailnet class of modules/tailscale.js: start, rebind and close, the *)
(* promises they return, and the repeating timer whose #poll follows the   *)
(* native manager and keeps the deadlines.  Everything runs in one thread, *)
(* but every callback into the application may call the class again, so a  *)
(* call is a stack of frames.  Time is counted in periods of the timer.    *)
(***************************************************************************)
EXTENDS Naturals, Sequences

CONSTANTS Timeout,    \* #connectTimeout
          Settle,     \* the 500 ms in which a rebind is not believed
          MaxNow,     \* bound: where the clock stops
          MaxRebinds, \* bound: rebinds requested
          MaxWaits,   \* bound: times the user is waited for
          MaxDepth    \* bound: frames under a call made from a callback

ASSUME ClientAssumption == Timeout \in Nat \ {0} /\ Settle \in Nat \ {0}
ASSUME BoundsAssumption == MaxNow \in Nat /\ MaxRebinds \in Nat

Unset == MaxNow + Timeout + 1         \* undefined: a time that never comes

URLs == {0, 1}                        \* 0: undefined

NativeStates == {"idle", "connecting", "connected", "reconnecting", "user", "error"}

VARIABLES
  now, timer, due,          \* the clock; #timer; its callback is due
  native, url,              \* what the manager reports; "user" is needs-auth or -approval
  started, stopping, closed,   \* start_requested, stop_requested, closed
  requests, handled, requestedAt,  \* rebind commands
  alive,                    \* #native is defined
  state, authURL, reported, \* #state, #authURL, #reportedError
  startResult, startDeadline, remaining,
  rebindResult, rebindDeadline, rebindNotBefore,   \* 0: undefined
  closing,
  stack,                    \* frames of the running call, the innermost first
  startP, rebindP, closeP,  \* the promises
  late,                     \* those made after close(): start()'s is 0, a rebind's its number
  spent, waits              \* time start() waited not for the user; times it waited for him

clock == <<now, due>>
manager == <<native, url, started, stopping, closed, requests, handled, requestedAt>>
face == <<state, authURL, reported>>
startVars == <<startResult, startDeadline, remaining, startP>>
rebindVars == <<rebindResult, rebindDeadline, rebindNotBefore, rebindP>>
closeVars == <<alive, closing, closeP, late>>
count == <<spent, waits>>
vars == <<clock, timer, manager, face, startVars, rebindVars, closeVars, stack, count>>

Init ==
  /\ now = 0 /\ timer = FALSE /\ due = FALSE
  /\ native = "idle" /\ url = 0 /\ started = FALSE /\ stopping = FALSE /\ closed = FALSE
  /\ requests = 0 /\ handled = 0 /\ requestedAt = 0
  /\ alive = TRUE /\ state = "idle" /\ authURL = 0 /\ reported = "none"
  /\ startResult = FALSE /\ startDeadline = Unset /\ remaining = Unset
  /\ rebindResult = 0 /\ rebindDeadline = 0 /\ rebindNotBefore = 0
  /\ closing = FALSE /\ stack = <<>>
  /\ startP = "none" /\ rebindP = [i \in 1..MaxRebinds |-> "none"] /\ closeP = "none"
  /\ late = {} /\ spent = 0 /\ waits = 0

-----------------------------------------------------------------------------
(* Frames.  An operator whose name starts with Bug is a plausible mistake   *)
(* in the definition after it; no specification uses it.                    *)

Callback == [at |-> "callback"]

At(label) == stack # <<>> /\ Head(stack).at = label

Goto(frames) == stack' = frames \o Tail(stack)

\* #setState and #error: what is left to do runs after the callback returns.
SetState(s, frames) ==
  /\ state' = s
  /\ reported' = IF s = state \/ s = "error" THEN reported ELSE "none"
  /\ stack' = (IF s = state THEN <<>> ELSE <<Callback>>) \o frames

Report(message, frames) ==
  /\ reported' = message
  /\ Goto((IF message = reported THEN <<>> ELSE <<Callback>>) \o frames)

Return == At("callback") /\ Goto(<<>>)
          /\ UNCHANGED <<clock, timer, manager, face, startVars, rebindVars, closeVars, count>>

\* The application calls from the event loop or inside a callback.
MayCall == stack = <<>> \/ (At("callback") /\ Len(stack) <= MaxDepth)

Settled(promise, fate) == IF promise = "pending" THEN fate ELSE promise

-----------------------------------------------------------------------------
(* The application's calls *)

\* Any other start() throws, before it changes anything.
Start == /\ MayCall /\ state = "idle" /\ alive /\ ~started /\ ~closed
         /\ started' = TRUE
         /\ SetState("connecting", <<[at |-> "start"]>> \o stack)
         /\ UNCHANGED <<clock, timer, native, url, stopping, closed, requests, handled,
                        requestedAt, authURL, startVars, rebindVars, closeVars, count>>

\* A promise is made; close() may have been called before, even inside the callback
\* that just returned.
Make(id) == late' = IF closeP = "none" THEN late ELSE late \cup {id}

StartEnds == /\ At("start")
             /\ Make(0)
             /\ startP' = "pending" /\ startResult' = TRUE
             /\ startDeadline' = now + Timeout /\ remaining' = Unset
             /\ timer' = TRUE
             /\ Goto(<<>>)
             /\ UNCHANGED <<clock, manager, face, rebindVars, alive, closing, closeP, count>>

BugReuses == FALSE                    \* a second rebind() replaces the promise
Reuses == rebindResult # 0            \* it returns the first one's: nothing changes

Rebind == /\ MayCall /\ state = "connected" /\ ~Reuses
          /\ alive /\ ~closed /\ requests < MaxRebinds
          /\ requests' = requests + 1 /\ requestedAt' = now
          /\ SetState("reconnecting", <<[at |-> "rebind", id |-> requests']>> \o stack)
          /\ UNCHANGED <<clock, timer, native, url, started, stopping, closed, handled, authURL,
                         startVars, rebindVars, closeVars, count>>

BugNotBefore == now                   \* believes the state of before the rebind
NotBefore == now + Settle

RebindEnds == /\ At("rebind")
              /\ Make(Head(stack).id)
              /\ rebindResult' = Head(stack).id
              /\ rebindP' = [rebindP EXCEPT ![rebindResult'] = "pending"]
              /\ rebindNotBefore' = NotBefore
              /\ rebindDeadline' = now + Timeout
              /\ timer' = TRUE
              /\ Goto(<<>>)
              /\ UNCHANGED <<clock, manager, face, startVars, alive, closing, closeP, count>>

RejectAll(fate) ==
  /\ startP' = IF startResult THEN Settled(startP, fate) ELSE startP
  /\ rebindP' = [i \in DOMAIN rebindP |-> IF i = rebindResult THEN Settled(rebindP[i], fate)
                                          ELSE rebindP[i]]
  /\ startResult' = FALSE /\ rebindResult' = 0 /\ remaining' = Unset

BugTimerRuns == timer                 \* close() leaves the timer as it is
TimerRuns == TRUE

\* A later close() returns the same promise, or a resolved one.
Close == /\ MayCall /\ alive /\ closeP = "none"
         /\ RejectAll("closed")
         /\ closeP' = "pending" /\ closing' = TRUE
         /\ stopping' = TRUE
         /\ timer' = TimerRuns
         /\ UNCHANGED <<clock, native, url, started, closed, requests, handled, requestedAt, face,
                        startDeadline, rebindDeadline, rebindNotBefore, alive, late, stack,
                        count>>

-----------------------------------------------------------------------------
(* #poll *)

PollBegins == /\ stack = <<>> /\ timer /\ due
              /\ due' = FALSE

Disbelieves == rebindResult # 0 /\ native = "connected" /\ now < rebindNotBefore

Poll == /\ PollBegins /\ alive /\ ~closing
        /\ LET seen == IF Disbelieves THEN "reconnecting" ELSE native
           IN SetState(seen, <<[at |-> "auth", seen |-> seen, now |-> now,
                                news |-> url # authURL /\ url # 0]>>)
        /\ authURL' = url
        /\ UNCHANGED <<now, timer, manager, startVars, rebindVars, closeVars, count>>

PollClosing == /\ PollBegins /\ alive /\ closing
               /\ IF closed
                  THEN /\ alive' = FALSE /\ closing' = FALSE
                       /\ SetState("closed", <<[at |-> "closed"]>>)
                  ELSE UNCHANGED <<alive, closing, state, reported, stack>>
               /\ UNCHANGED <<now, timer, manager, authURL, startVars, rebindVars, closeP, late,
                              count>>

CloseEnds == /\ At("closed")
             /\ closeP' = Settled(closeP, "resolved")
             /\ timer' = FALSE /\ Goto(<<>>)
             /\ UNCHANGED <<clock, manager, face, startVars, rebindVars, alive, closing, late,
                            count>>

Frame == Head(stack)

PollAuth == /\ At("auth")
            /\ Goto((IF Frame.news THEN <<Callback>> ELSE <<>>)
                     \o <<[Frame EXCEPT !.at = IF Frame.seen = "error" THEN "error" ELSE "starts"]>>)
            /\ UNCHANGED <<clock, timer, manager, face, startVars, rebindVars, closeVars, count>>

PollError == /\ At("error")
             /\ Report("native", <<[at |-> "failed"]>>)
             /\ UNCHANGED <<clock, timer, manager, state, authURL, startVars, rebindVars,
                            closeVars, count>>

PollFailed == /\ At("failed")
              /\ RejectAll("failed")
              /\ Goto(<<>>)
              /\ UNCHANGED <<clock, timer, manager, face, startDeadline, rebindDeadline,
                             rebindNotBefore, closeVars, count>>

BugWaitsForUser == FALSE              \* the deadline runs on
WaitsForUser == Frame.seen = "user"

BugResumed == startDeadline + remaining   \* undefined + remaining
BugRestarted == Frame.now + Timeout       \* the whole timeout again
Resumed == Frame.now + (IF remaining = Unset THEN Timeout ELSE remaining)

\* The deadline of start() stops while the user is waited for.
Deadline ==
  CASE startResult /\ WaitsForUser /\ startDeadline # Unset -> Unset
    [] startResult /\ ~WaitsForUser /\ startDeadline = Unset -> Resumed
    [] OTHER -> startDeadline

Remaining ==
  CASE startResult /\ WaitsForUser /\ startDeadline # Unset ->
         (IF startDeadline > Frame.now THEN startDeadline - Frame.now ELSE 0)
    [] startResult /\ ~WaitsForUser /\ startDeadline = Unset -> Unset
    [] OTHER -> remaining

PollStarts ==
  LET rebinds == [Frame EXCEPT !.at = "rebinds"]
  IN /\ At("starts")
     /\ startDeadline' = Deadline
     /\ IF startResult /\ Frame.seen = "connected"
        THEN /\ startP' = Settled(startP, "resolved")
             /\ startResult' = FALSE /\ remaining' = Unset
             /\ Goto(<<rebinds>>) /\ UNCHANGED reported
        ELSE /\ remaining' = Remaining
             /\ IF startResult /\ Deadline # Unset /\ Frame.now >= Deadline
                THEN Report("timedOut", <<[at |-> "timedOut"], rebinds>>)
                ELSE Goto(<<rebinds>>) /\ UNCHANGED reported
             /\ UNCHANGED <<startP, startResult>>
     /\ UNCHANGED <<clock, timer, manager, state, authURL, rebindVars, closeVars, count>>

StartTimesOut == /\ At("timedOut")
                 /\ startP' = Settled(startP, "timedOut")
                 /\ startResult' = FALSE /\ remaining' = Unset
                 /\ Goto(<<>>)
                 /\ UNCHANGED <<clock, timer, manager, face, startDeadline, rebindVars, closeVars,
                                count>>

PollRebinds ==
  /\ At("rebinds")
  /\ IF rebindResult # 0 /\ Frame.seen = "connected" /\ Frame.now >= rebindNotBefore
     THEN /\ rebindP' = [rebindP EXCEPT ![rebindResult] = Settled(@, "resolved")]
          /\ rebindResult' = 0
          /\ Goto(<<>>) /\ UNCHANGED reported
     ELSE /\ IF rebindResult # 0 /\ Frame.now >= rebindDeadline
             THEN Report("rebind", <<[at |-> "rebindTimedOut", id |-> rebindResult]>>)
             ELSE Goto(<<>>) /\ UNCHANGED reported
          /\ UNCHANGED <<rebindP, rebindResult>>
  /\ UNCHANGED <<clock, timer, manager, state, authURL, startVars, rebindDeadline,
                 rebindNotBefore, closeVars, count>>

RebindTimesOut == /\ At("rebindTimedOut")
                  /\ rebindP' = [rebindP EXCEPT ![Frame.id] = Settled(@, "timedOut")]
                  /\ rebindResult' = 0
                  /\ Goto(<<>>)
                  /\ UNCHANGED <<clock, timer, manager, face, startVars, rebindDeadline,
                                 rebindNotBefore, closeVars, count>>

-----------------------------------------------------------------------------
(* The native manager, as TailnetManager reports it, and time *)

NativeMoves ==
  /\ started /\ ~stopping
  /\ native' \in NativeStates /\ native' # native
  /\ native' = "user" => waits < MaxWaits
  /\ url' \in IF native' = "user" THEN URLs ELSE {0}
  /\ waits' = IF native' = "user" THEN waits + 1 ELSE waits
  /\ UNCHANGED <<clock, timer, started, stopping, closed, requests, handled, requestedAt, face,
                 startVars, rebindVars, closeVars, stack, spent>>

NativeRebinds ==
  /\ handled < requests /\ ~closed
  /\ handled' = handled + 1
  /\ native' \in {"connected", "reconnecting", "error"} /\ url' = 0
  /\ UNCHANGED <<clock, timer, started, stopping, closed, requests, requestedAt, face, startVars,
                 rebindVars, closeVars, stack, count>>

NativeCloses == /\ stopping /\ ~closed
                /\ closed' = TRUE
                /\ UNCHANGED <<clock, timer, native, url, started, stopping, requests, handled,
                               requestedAt, face, startVars, rebindVars, closeVars, stack, count>>

\* The timer is never a whole period late, and the manager takes a command
\* within the 500 ms that rebind() grants it.
Tick == /\ ~(timer /\ due)
        /\ handled < requests /\ ~closed => now + 1 < requestedAt + Settle
        /\ now' = IF now < MaxNow THEN now + 1 ELSE now
        /\ due' = timer
        /\ spent' = IF now < MaxNow /\ startP = "pending" /\ native # "user" THEN spent + 1
                    ELSE spent
        /\ UNCHANGED <<timer, manager, face, startVars, rebindVars, closeVars, stack, waits>>

-----------------------------------------------------------------------------
PollStep == \/ Poll \/ PollClosing \/ PollAuth \/ PollError \/ PollFailed \/ PollStarts
            \/ StartTimesOut \/ PollRebinds \/ RebindTimesOut \/ CloseEnds

Next == \/ Start \/ StartEnds \/ Rebind \/ RebindEnds \/ Close \/ Return
        \/ PollStep \/ NativeMoves \/ NativeRebinds \/ NativeCloses \/ Tick

Spec == Init /\ [][Next]_vars

-----------------------------------------------------------------------------
Fates == {"none", "pending", "resolved", "failed", "timedOut", "closed"}

\* The values the variables range over.
TypeOK ==
  /\ now \in 0..MaxNow /\ timer \in BOOLEAN /\ due \in BOOLEAN
  /\ native \in NativeStates /\ url \in URLs
  /\ started \in BOOLEAN /\ stopping \in BOOLEAN /\ closed \in BOOLEAN
  /\ requests \in 0..MaxRebinds /\ handled \in 0..requests /\ requestedAt \in 0..MaxNow
  /\ alive \in BOOLEAN /\ state \in NativeStates \cup {"closed"} /\ authURL \in URLs
  /\ reported \in {"none", "native", "timedOut", "rebind"}
  /\ startResult \in BOOLEAN /\ startDeadline \in (0..MaxNow + Timeout) \cup {Unset}
  /\ remaining \in (0..Timeout) \cup {Unset}
  /\ rebindResult \in 0..MaxRebinds /\ rebindDeadline \in 0..MaxNow + Timeout
  /\ rebindNotBefore \in 0..MaxNow + Settle /\ closing \in BOOLEAN
  /\ startP \in Fates /\ rebindP \in [1..MaxRebinds -> Fates] /\ closeP \in Fates
  /\ late \subseteq 0..MaxRebinds
  /\ \A i \in DOMAIN stack : stack[i].at \in {"callback", "start", "rebind", "auth", "error",
                "failed", "starts", "timedOut", "rebinds", "rebindTimedOut", "closed"}

\* A pending promise is still held by the field of its call, whatever the callbacks
\* called: no other one takes its place there.
NoOrphan == /\ startP = "pending" => startResult
            /\ \A i \in DOMAIN rebindP : rebindP[i] = "pending" => rebindResult = i

\* Until close() is called, everything that is pending is polled; the promise of
\* close() is polled until it is resolved, and then the timer stops.
PendingIsPolled ==
  /\ closeP = "none" /\ (startP = "pending" \/ \E i \in DOMAIN rebindP : rebindP[i] = "pending")
       => timer
  /\ closeP = "pending" => timer
  /\ closeP = "resolved" => ~timer /\ ~alive

\* close() leaves no promise behind but those made after it, by a start() or rebind()
\* that was called on the closing tailnet or whose own onStateChanged called close():
\* nothing ever settles these.
ClosedIsFinal ==
  closeP # "none" => /\ startP = "pending" <=> 0 \in late
                     /\ \A i \in DOMAIN rebindP : rebindP[i] = "pending" <=> i \in late

\* "The time it waits for the user in these two states is not charged to
\* connectTimeout": start() times out only when it has waited that long for
\* something else, less what a poll takes to see the user's turn begin.
UserTimeIsFree == startP = "timedOut" => spent + waits >= Timeout

\* ... and it waits no longer than that, unless it was called on, or closed
\* from its own onStateChanged on, a tailnet that is closing.
StartIsBounded == startP = "pending" /\ closeP = "none" => spent <= Timeout + waits + 1

\* A rebind resolves only after the manager's task has taken its command: the
\* "connected" of before is not believed.
RebindIsDone == \A i \in DOMAIN rebindP : rebindP[i] = "resolved" => handled >= i

\* start() is charged for its own waiting, neither more nor less.
TimeIsCharged == UserTimeIsFree /\ StartIsBounded

\* What the class owes to each promise: its field, until close() its timer, and by
\* close() its end, except to those that come too late for it.
PromisesAreKept == TypeOK /\ NoOrphan /\ PendingIsPolled /\ ClosedIsFinal
=============================================================================
