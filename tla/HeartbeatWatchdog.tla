-------------------------- MODULE HeartbeatWatchdog --------------------------
(***************************************************************************)
(* The heartbeat watchdog of examples/cores3-websocket/native/              *)
(* device-config.c: an ESP-IDF timer that restarts the device when the      *)
(* JavaScript thread has not fed it for a number of ticks.  The callback    *)
(* runs in the timer's task and reads the counter before it decrements it;  *)
(* start, feed and stop run in the JavaScript thread between those two.     *)
(***************************************************************************)
EXTENDS Naturals

CONSTANTS Ticks,    \* gHeartbeatWatchdogTicks: 5..300, from the checked timeout
          MaxCount \* 2^32 - 1, the largest uint32_t

ASSUME WatchdogAssumption == Ticks \in Nat /\ MaxCount \in Nat /\ 2 <= Ticks /\ Ticks <= MaxCount

VARIABLES
  remaining,  \* gHeartbeatWatchdogRemaining
  seen,       \* what the callback loaded, 0 when none runs past its load
  timerOn,    \* the periodic timer runs
  started,    \* gHeartbeatWatchdogTicks # 0
  js,         \* the JavaScript thread, between the statements of a call
  armed,      \* start() is done and stop() has not begun
  restarted,
  since,      \* ticks fired since the counter was last stored (up to MaxCount)
  base        \* what was stored

watchdogVars == <<remaining, seen, timerOn, started, js, armed, restarted, since, base>>

WatchdogInit ==
  /\ remaining = 0 /\ seen = 0 /\ timerOn = FALSE /\ started = FALSE
  /\ js = "idle" /\ armed = FALSE /\ restarted = FALSE /\ since = 0 /\ base = 0

Store(value) == remaining' = value /\ base' = value /\ since' = 0

-----------------------------------------------------------------------------
(* The timer's task.  An operator whose name starts with Bug is a plausible *)
(* mistake in the definition after it; no specification uses it.            *)

BugKeepsRunning == FALSE                    \* a one-shot timer
KeepsRunning == timerOn

Fire == /\ timerOn /\ seen = 0 /\ ~restarted
        /\ seen' = remaining
        /\ since' = IF since < MaxCount THEN since + 1 ELSE since
        /\ timerOn' = KeepsRunning
        /\ UNCHANGED <<remaining, started, js, armed, restarted, base>>

BugDecremented == seen - 1                  \* a store of the loaded value less one
BugSigned == remaining - 1                  \* no wrap below zero
Decremented == IF remaining = 0 THEN MaxCount ELSE remaining - 1

Decrement == /\ seen # 0 /\ ~restarted
             /\ remaining' = Decremented
             /\ restarted' = (Decremented = 0)
             /\ seen' = 0
             /\ UNCHANGED <<timerOn, started, js, armed, since, base>>

-----------------------------------------------------------------------------
(* The JavaScript thread *)

StartBegins == /\ js = "idle" /\ ~restarted
               /\ timerOn' = FALSE
               /\ js' = "store"
               /\ UNCHANGED <<remaining, seen, started, armed, restarted, since, base>>

StartStores == /\ js = "store" /\ ~restarted
               /\ Store(Ticks)
               /\ started' = TRUE
               /\ js' = "run"
               /\ UNCHANGED <<seen, timerOn, armed, restarted>>

\* esp_timer_start_periodic may fail, and start() then throws.
StartRuns == /\ js = "run" /\ ~restarted
             /\ \/ timerOn' = TRUE /\ armed' = TRUE
                \/ armed' = FALSE /\ UNCHANGED timerOn
             /\ js' = "idle"
             /\ UNCHANGED <<remaining, seen, started, restarted, since, base>>

Feed == /\ js = "idle" /\ ~restarted
        /\ started
        /\ Store(Ticks)
        /\ UNCHANGED <<seen, timerOn, started, js, armed, restarted>>

BugStopped == remaining                     \* only stops the timer
Stopped == 0

StopStores == /\ js = "idle" /\ ~restarted
              /\ Store(Stopped)
              /\ armed' = FALSE
              /\ js' = "stop"
              /\ UNCHANGED <<seen, timerOn, started, restarted>>

StopTimer == /\ js = "stop" /\ ~restarted
             /\ timerOn' = FALSE
             /\ js' = "idle"
             /\ UNCHANGED <<remaining, seen, started, armed, restarted, since, base>>

\* A native call blocks the event loop for good.
Hang == /\ js = "idle" /\ ~restarted
        /\ js' = "hung"
        /\ UNCHANGED <<remaining, seen, timerOn, started, armed, restarted, since, base>>

WatchdogNext == Fire \/ Decrement \/ StartBegins \/ StartStores \/ StartRuns \/ Feed
                \/ StopStores \/ StopTimer \/ Hang

WatchdogSpec == WatchdogInit /\ [][WatchdogNext]_watchdogVars

\* The timer's task has the highest priority: it runs whatever JavaScript does.
WatchdogFairSpec == WatchdogSpec /\ WF_watchdogVars(Fire) /\ WF_watchdogVars(Decrement)

-----------------------------------------------------------------------------
\* The values the variables range over.
WatchdogTypeOK ==
  /\ remaining \in 0..MaxCount /\ seen \in 0..MaxCount /\ timerOn \in BOOLEAN /\ started \in BOOLEAN
  /\ js \in {"idle", "store", "run", "stop", "hung"} /\ armed \in BOOLEAN
  /\ restarted \in BOOLEAN /\ since \in 0..MaxCount /\ base \in {0, Ticks}

\* However feeds, stops and starts fall between the callback's load and its
\* decrement, the device restarts only when at least Ticks - 1 ticks fired
\* after the last feed or start: a feed is never lost, the counter's wrap
\* below zero after a stop does no harm.
NoEarlyRestart == restarted => since >= Ticks - 1

\* A stop holds: a callback it overtook does not restart the device (for as
\* long as the wrapped counter lasts).
StopHolds == restarted => armed \/ since = MaxCount

\* "It can reboot even if a native TCP write blocks the event loop completely".
HangRestarts == (js = "hung" /\ armed) ~> restarted
=============================================================================
