------------------------- MODULE TailnetClient_proofs -------------------------
(***************************************************************************)
(* TailnetClient's safety for any timeouts and any number of rebinds and of *)
(* waits for the user: every promise has its field and its timer, close()    *)
(* leaves pending only what is made after it, start() is charged for its own *)
(* waiting only, and a rebind resolves after its command was taken.  The     *)
(* stack of frames is the hard part: what the callbacks of a poll may have   *)
(* called before the poll goes on.                                           *)
(***************************************************************************)
EXTENDS TailnetClient, SequenceTheorems, TLAPS

PollLabels == {"auth", "error", "failed", "starts", "timedOut", "rebinds",
               "rebindTimedOut", "closed"}

\* A poll's frames have what it saw and when; a rebind's have its number.
Polls == [at : {"auth", "error", "starts", "rebinds"},
          seen : NativeStates, now : 0..MaxNow, news : BOOLEAN]
Numbered == [at : {"rebind", "rebindTimedOut"}, id : 1..MaxRebinds]
Plain == [at : {"callback", "start", "failed", "timedOut", "closed"}]
Frames == Polls \cup Numbered \cup Plain

\* The outermost frame, a poll's if one runs.
Base == stack[Len(stack)]
Polling == stack # <<>> /\ Base.at \in PollLabels
TimingOut == Len(stack) > 1 /\ stack[Len(stack) - 1].at = "timedOut"

\* A poll begins on an empty stack, so that its frames are at the bottom.
Shape ==
  \A i \in 1..Len(stack) :
    stack[i].at \in PollLabels =>
      \/ i = Len(stack) /\ stack[i].at # "timedOut"
      \/ i = Len(stack) - 1 /\ stack[i].at = "timedOut" /\ Base.at = "rebinds"

Holds(label) == \E i \in 1..Len(stack) : stack[i].at = label
Once(label) == \A i, j \in 1..Len(stack) : stack[i].at = label /\ stack[j].at = label => i = j

Latest == \A i \in 1..Len(stack) : stack[i].at = "rebind" => stack[i].id = requests

\* start() and rebind() run once at a time, and not when the tailnet is closed.
Calls ==
  /\ Once("start") /\ Once("rebind")
  /\ Holds("start") => started /\ alive /\ startP = "none" /\ ~Polling
  /\ Holds("rebind") => alive /\ state = "reconnecting" /\ rebindResult = 0
  /\ Latest

\* Nothing happens before start().
Unstarted ==
  /\ ~started => /\ startP = "none" /\ native = "idle" /\ requests = 0
                 /\ state \in {"idle", "closed"} /\ (timer => closeP # "none")
                 /\ (Polling => Base.at = "closed")
  /\ startP = "none" => spent = 0
  /\ native = "user" => waits > 0

Closing ==
  /\ closeP \in {"none", "pending", "resolved"}
  /\ stopping <=> closeP # "none"
  /\ closed => stopping
  /\ closing => closeP = "pending" /\ alive
  /\ alive => (closing <=> closeP # "none")
  /\ ~alive => closeP # "none"
  /\ Polling => timer /\ (alive <=> Base.at # "closed")
  /\ Polling /\ Base.at = "closed" => closeP = "pending"

\* The manager takes a rebind's command within the time it is granted.
Command ==
  /\ requestedAt <= now
  /\ handled < requests /\ ~closed => now < requestedAt + Settle

\* A rebind in progress is the last one requested ...
Current ==
  rebindResult # 0 => rebindResult = requests /\ requestedAt + Settle <= rebindNotBefore

\* ... and is not believed to be done before that time.
Believed ==
  rebindResult # 0 /\ state = "connected" =>
    /\ Polling /\ Base.at \in {"auth", "starts", "rebinds"}
    /\ Base.seen = "connected" /\ rebindNotBefore <= Base.now

\* A poll that believes it runs while the manager does.
Trusted ==
  Polling /\ Base.at \in {"auth", "starts", "rebinds"} /\ rebindResult # 0
    /\ rebindNotBefore <= Base.now => ~stopping

\* No other rebind begins while one is timing out.
Expiring ==
  Polling /\ Base.at = "rebindTimedOut" =>
    started /\ state # "connected" /\ rebindResult \in {0, Base.id} /\ ~Holds("rebind")

Rebinds == Command /\ Current /\ Believed /\ Trusted /\ Expiring

-----------------------------------------------------------------------------
(* The charge of start() *)

Watching == Polling /\ Base.at \in {"auth", "error", "starts"}
One(condition) == IF condition THEN 1 ELSE 0

\* start() has its promise, and its deadline or what rests of it ...
Pending == startResult <=> startP = "pending"
Resting == startResult => (startDeadline = Unset <=> remaining # Unset)

\* ... unless close() dropped it.
Dropped == startResult /\ Polling /\ closeP # "none" => Base.at = "closed"

\* A poll's time is past, but by less than two periods of the timer.
Past == Polling /\ Base.at \in {"auth", "error", "starts", "rebinds"} => Base.now <= now
Fresh == Watching => now <= Base.now + One(due)

\* start() times out when it has waited, and never has more time than all of it.
Waited == TimingOut => spent + waits >= Timeout
Within ==
  startDeadline # Unset => startDeadline <= Timeout + (IF Watching THEN Base.now ELSE now)

Starts == Pending /\ Resting /\ Dropped /\ Past /\ Fresh /\ Waited /\ Within

\* While the deadline runs, time is charged except for one tick of a user's turn
\* that no poll has seen ...
Runs(deadline) ==
  /\ spent + One(native = "user") + deadline <= now + Timeout + waits
  /\ now + Timeout + One(native = "user" /\ ~due) <= deadline + spent + waits

\* ... and while it rests, none is, except for one tick after a user's turn.
Rests(rest) ==
  /\ spent + One(native = "user" \/ ~due) + rest <= Timeout + waits
  /\ Timeout <= rest + spent + waits

\* What a poll that has not come to the deadline yet will make of it.
Charged ==
  IF Watching
  THEN IF Base.seen = "user"
       THEN IF startDeadline = Unset THEN Rests(remaining)
            ELSE Base.now <= startDeadline /\ Rests(startDeadline - Base.now)
       ELSE IF startDeadline = Unset THEN Runs(Base.now + remaining)
            ELSE Base.now <= startDeadline /\ Runs(startDeadline)
  ELSE IF TimingOut \/ (Polling /\ Base.at = "failed") THEN spent <= Timeout + waits + One(due)
  ELSE IF startDeadline = Unset THEN Rests(remaining)
  ELSE now + One(~due) <= startDeadline /\ Runs(startDeadline)

Charge == startResult /\ closeP = "none" => Charged

-----------------------------------------------------------------------------
(* What close() leaves behind *)

\* While a poll fails, no rebind() can be called.
Failing ==
  Polling /\ (Base.at \in {"error", "failed"} \/ (Base.at = "auth" /\ Base.seen = "error"))
    => state = "error"

\* A rebind that was made after close(), from a poll that still runs, is too young
\* for this poll to end it.
Missed ==
  Polling /\ closeP # "none" /\ rebindResult # 0 =>
    /\ Base.at \in {"auth", "starts", "rebinds", "closed"}
    /\ Base.at = "auth" => Base.seen # "error"
    /\ Base.at # "closed" => Base.now < rebindDeadline

Ends == Failing /\ Missed /\ (closeP = "none" => late = {})

Counts == spent \in Nat /\ waits \in Nat

IInv == /\ TypeOK /\ Counts /\ stack \in Seq(Frames) /\ Shape /\ Calls /\ Unstarted /\ Closing
        /\ Rebinds /\ Ends /\ Starts /\ Charge /\ PromisesAreKept /\ UserTimeIsFree /\ RebindIsDone

-----------------------------------------------------------------------------
(* Short sequences *)

LEMMA OneIs ==
  ASSUME NEW S, NEW a \in S
  PROVE  <<a>> \in Seq(S) /\ Len(<<a>>) = 1 /\ <<a>>[1] = a /\ <<a>> # <<>>
  OBVIOUS

LEMMA TwoIs ==
  ASSUME NEW S, NEW a \in S, NEW b \in S
  PROVE  /\ <<a, b>> \in Seq(S) /\ Len(<<a, b>>) = 2 /\ <<a, b>> # <<>>
         /\ <<a, b>>[1] = a /\ <<a, b>>[2] = b
  OBVIOUS

LEMMA ThreeIs ==
  ASSUME NEW S, NEW a \in S, NEW b \in S, NEW c \in S
  PROVE  /\ <<a, b, c>> \in Seq(S) /\ Len(<<a, b, c>>) = 3 /\ <<a, b, c>> # <<>>
         /\ <<a, b, c>>[1] = a /\ <<a, b, c>>[2] = b /\ <<a, b, c>>[3] = c
  OBVIOUS

LEMMA BeforeIs ==
  ASSUME NEW S, NEW s \in Seq(S), NEW t \in Seq(S)
  PROVE  /\ s \o t \in Seq(S) /\ Len(s \o t) = Len(s) + Len(t)
         /\ \A i \in 1..Len(s) : (s \o t)[i] = s[i]
         /\ \A i \in 1..Len(s) + Len(t) : i > Len(s) => (s \o t)[i] = t[i - Len(s)]
  OBVIOUS

LEMMA TailOne ==
  ASSUME NEW S, NEW s \in Seq(S), Len(s) = 2
  PROVE  Tail(s) = <<s[2]>>
<1>1. s[2] \in S /\ Tail(s) \in Seq(S) /\ Len(Tail(s)) = 1 /\ Tail(s)[1] = s[2]
  OBVIOUS
<1>2. /\ <<s[2]>> \in Seq(S) /\ Len(<<s[2]>>) = 1 /\ <<s[2]>>[1] = s[2]
  BY <1>1, OneIs
<1>3. ASSUME NEW t \in Seq(S), Len(t) = 1, t[1] = s[2] PROVE t = <<s[2]>>
  <2>1. \A i \in 1..Len(t) : i = 1
    BY <1>3
  <2>2. QED
    BY <1>2, <1>3, <2>1, SeqEqual
<1>4. QED
  BY <1>1, <1>3

LEMMA TailNone ==
  ASSUME NEW S, NEW s \in Seq(S), Len(s) = 1
  PROVE  Tail(s) = <<>>
<1>1. Tail(s) \in Seq(S) /\ Len(Tail(s)) = 0
  OBVIOUS
<1>2. QED
  BY <1>1, EmptySeq

-----------------------------------------------------------------------------
(* Frames and stacks *)

LEMMA FramesAre ==
  ASSUME NEW f \in Frames
  PROVE  /\ f.at \in {"auth", "error", "starts", "rebinds"} => f \in Polls
         /\ f.at \in {"rebind", "rebindTimedOut"} => f \in Numbered
         /\ f.at \in PollLabels \cup {"callback", "start", "rebind"}
  BY DEF Frames, Polls, Numbered, Plain, PollLabels

LEMMA PollFrame ==
  ASSUME NEW f \in Polls, NEW label \in {"auth", "error", "starts", "rebinds"}
  PROVE  /\ f.seen \in NativeStates /\ f.now \in 0..MaxNow /\ f.news \in BOOLEAN
         /\ [f EXCEPT !.at = label] \in Polls /\ [f EXCEPT !.at = label].at = label
         /\ [f EXCEPT !.at = label].seen = f.seen /\ [f EXCEPT !.at = label].now = f.now
         /\ [f EXCEPT !.at = label] \in Frames
<1>1. f.seen \in NativeStates /\ f.now \in 0..MaxNow /\ f.news \in BOOLEAN
  BY DEF Polls
<1>2. /\ [f EXCEPT !.at = label] \in Polls /\ [f EXCEPT !.at = label].at = label
      /\ [f EXCEPT !.at = label].seen = f.seen /\ [f EXCEPT !.at = label].now = f.now
  BY DEF Polls
<1>3. QED
  BY <1>1, <1>2 DEF Frames

LEMMA PlainFrame ==
  /\ Callback \in Frames /\ Callback.at = "callback"
  /\ \A label \in {"start", "failed", "timedOut", "closed"} :
       [at |-> label] \in Frames /\ [at |-> label].at = label
  /\ \A label \in {"rebind", "rebindTimedOut"}, id \in 1..MaxRebinds :
       /\ [at |-> label, id |-> id] \in Frames
       /\ [at |-> label, id |-> id].at = label /\ [at |-> label, id |-> id].id = id
  BY DEF Callback, Frames, Plain, Numbered

Pops == stack # <<>> /\ Head(stack).at \notin PollLabels /\ stack' = Tail(stack)

Pushes(frame) == \/ stack' = <<frame>> \o stack
                 \/ stack' = <<Callback, frame>> \o stack

\* A frame that is not a poll's returns.
LEMMA PopDoes ==
  ASSUME stack \in Seq(Frames), Shape, Pops
  PROVE  /\ stack' \in Seq(Frames) /\ Shape'
         /\ (Polling' <=> Polling) /\ (Polling => Base' = Base)
         /\ (TimingOut' <=> TimingOut)
         /\ \A label : Holds(label)' => Holds(label)
         /\ \A label : Once(label) => Once(label)' /\ (Head(stack).at = label => ~Holds(label)')
         /\ \A i \in 1..Len(stack') : \E j \in 1..Len(stack) : stack'[i] = stack[j]
<1>1. /\ Len(stack) \in Nat /\ Len(stack) > 0 /\ Head(stack) = stack[1]
      /\ stack' \in Seq(Frames) /\ Len(stack') \in Nat /\ Len(stack') = Len(stack) - 1
      /\ \A i \in 1..Len(stack') : i + 1 \in 1..Len(stack) /\ stack'[i] = stack[i + 1]
      /\ stack # <<>> /\ Head(stack).at \notin PollLabels
  BY HeadTailProperties DEF Pops
<1>2. CASE Len(stack) = 1
  <2>1. stack' = <<>> /\ Len(stack') = 0
    BY <1>1, <1>2, EmptySeq
  <2>2. ~Polling /\ ~Polling' /\ ~TimingOut /\ ~TimingOut' /\ Shape'
    BY <1>1, <1>2, <2>1 DEF Polling, Base, TimingOut, Shape
  <2>3. \A label : ~Holds(label)' /\ Once(label)'
    <3>1. \A i \in 1..Len(stack') : FALSE
      <4> SUFFICES ASSUME NEW i \in 1..Len(stack') PROVE FALSE
        OBVIOUS
      <4>1. 1 <= i /\ i <= 0
        BY <1>1, <1>2
      <4>2. QED
        BY <4>1
    <3>2. QED
      BY <3>1 DEF Holds, Once
  <2>4. QED
    BY <1>1, <2>1, <2>2, <2>3
<1>3. CASE Len(stack) > 1
  <2>1. stack' # <<>> /\ Base' = Base /\ Len(stack') \in Nat
    <3>1. Len(stack') \in 1..Len(stack') /\ Len(stack') + 1 = Len(stack)
      BY <1>1, <1>3
    <3>2. stack'[Len(stack')] = stack[Len(stack)]
      BY <1>1, <3>1
    <3>3. stack' # <<>>
      BY <3>1, EmptySeq
    <3>4. QED
      BY <3>1, <3>2, <3>3 DEF Base
  <2>2. Polling' <=> Polling
    BY <1>1, <2>1 DEF Polling
  <2>3. TimingOut' <=> TimingOut
    <3>1. CASE Len(stack) = 2
      BY <1>1, <3>1 DEF TimingOut, PollLabels
    <3>2. CASE Len(stack) > 2
      BY <1>1, <3>2 DEF TimingOut
    <3>3. QED
      BY <1>1, <1>3, <3>1, <3>2
  <2>4. Shape'
    <3> SUFFICES ASSUME NEW i \in 1..Len(stack'), stack'[i].at \in PollLabels
                 PROVE  \/ i = Len(stack') /\ stack'[i].at # "timedOut"
                        \/ i = Len(stack') - 1 /\ stack'[i].at = "timedOut" /\ Base'.at = "rebinds"
      BY DEF Shape
    <3>1. i + 1 \in 1..Len(stack) /\ stack'[i] = stack[i + 1]
      BY <1>1
    <3>2. \/ i + 1 = Len(stack) /\ stack[i + 1].at # "timedOut"
          \/ i + 1 = Len(stack) - 1 /\ stack[i + 1].at = "timedOut" /\ Base.at = "rebinds"
      BY <3>1 DEF Shape
    <3>3. CASE stack'[i].at # "timedOut"
      BY <1>1, <3>1, <3>2, <3>3
    <3>4. CASE stack'[i].at = "timedOut"
      <4>1. i + 1 = Len(stack) - 1 /\ Base.at = "rebinds"
        BY <3>1, <3>2, <3>4
      <4>2. i = Len(stack') - 1
        BY <1>1, <4>1
      <4>3. QED
        BY <2>1, <3>4, <4>1, <4>2
    <3>5. QED
      BY <3>3, <3>4
  <2>5. \A label : Holds(label)' => Holds(label)
    BY <1>1 DEF Holds
  <2>6. \A label : Once(label) => Once(label)' /\ (Head(stack).at = label => ~Holds(label)')
    <3>1. ASSUME NEW label, Once(label) PROVE Once(label)'
      <4> SUFFICES ASSUME NEW i \in 1..Len(stack'), NEW j \in 1..Len(stack'),
                          stack'[i].at = label, stack'[j].at = label
                   PROVE  i = j
        BY DEF Once
      <4>1. /\ i + 1 \in 1..Len(stack) /\ stack[i + 1].at = label
            /\ j + 1 \in 1..Len(stack) /\ stack[j + 1].at = label
        BY <1>1
      <4>2. i + 1 = j + 1
        BY <3>1, <4>1 DEF Once
      <4>3. QED
        BY <1>1, <4>2
    <3>2. ASSUME NEW label, Once(label), Head(stack).at = label PROVE ~Holds(label)'
      BY <1>1, <3>2 DEF Once, Holds
    <3>3. QED
      BY <3>1, <3>2
  <2>7. QED
    BY <1>1, <2>1, <2>2, <2>3, <2>4, <2>5, <2>6
<1>4. QED
  BY <1>1, <1>2, <1>3

\* A call goes on the stack, and maybe the callback it makes.
LEMMA PushDoes ==
  ASSUME stack \in Seq(Frames), Shape, NEW frame \in Frames, frame.at \notin PollLabels,
         Pushes(frame)
  PROVE  /\ stack' \in Seq(Frames) /\ Shape'
         /\ (Polling' <=> Polling) /\ (Polling => Base' = Base)
         /\ (TimingOut' <=> TimingOut)
         /\ \A label : label \notin {"callback", frame.at} =>
                         (Holds(label)' <=> Holds(label)) /\ (Once(label) => Once(label)')
         /\ frame.at # "callback" /\ ~Holds(frame.at) => Once(frame.at)'
         /\ \A i \in 1..Len(stack') : \/ stack'[i] \in {frame, Callback}
                                      \/ \E j \in 1..Len(stack) : stack'[i] = stack[j]
<1>1. /\ frame.at \notin PollLabels /\ Callback \in Frames /\ Callback.at = "callback"
      /\ "callback" \notin PollLabels
  BY PlainFrame DEF PollLabels
<1>2. PICK top \in Seq(Frames) :
        /\ stack' = top \o stack /\ Len(top) \in {1, 2} /\ top[Len(top)] = frame
        /\ \A i \in 1..Len(top) : top[i] \in {frame, Callback}
        /\ \A i \in 1..Len(top) : top[i] = frame => i = Len(top) \/ frame.at = "callback"
  <2>1. CASE stack' = <<frame>> \o stack
    <3>1. /\ <<frame>> \in Seq(Frames) /\ Len(<<frame>>) = 1 /\ <<frame>>[1] = frame
      BY OneIs
    <3>2. \A i \in 1..Len(<<frame>>) : i = 1
      BY <3>1
    <3>3. QED
      BY <2>1, <3>1, <3>2
  <2>2. CASE stack' = <<Callback, frame>> \o stack
    <3>1. /\ <<Callback, frame>> \in Seq(Frames) /\ Len(<<Callback, frame>>) = 2
          /\ <<Callback, frame>>[1] = Callback /\ <<Callback, frame>>[2] = frame
      BY <1>1, TwoIs
    <3>2. \A i \in 1..Len(<<Callback, frame>>) : i = 1 \/ i = 2
      BY <3>1
    <3>3. \A i \in 1..Len(<<Callback, frame>>) :
            /\ <<Callback, frame>>[i] \in {frame, Callback}
            /\ <<Callback, frame>>[i] = frame => i = 2 \/ frame.at = "callback"
      BY <1>1, <3>1, <3>2
    <3>4. QED
      BY <2>2, <3>1, <3>3
  <2>3. QED
    BY <2>1, <2>2 DEF Pushes
<1> DEFINE k == Len(top)
           n == Len(stack)
<1>3. /\ k \in {1, 2} /\ n \in Nat /\ stack' \in Seq(Frames) /\ Len(stack') = k + n
      /\ \A i \in 1..k : stack'[i] = top[i]
      /\ \A i \in 1..(k + n) : i > k => stack'[i] = stack[i - k]
  BY <1>2, BeforeIs
<1> HIDE DEF k, n
<1>4. ASSUME NEW i \in 1..(k + n)
      PROVE  \/ i \in 1..k /\ stack'[i] \in {frame, Callback} /\ stack'[i].at \notin PollLabels
                /\ (stack'[i] = frame => i = k \/ frame.at = "callback")
             \/ i - k \in 1..n /\ stack'[i] = stack[i - k]
  <2>1. CASE i \in 1..k
    BY <1>1, <1>2, <1>3, <2>1 DEF k
  <2>2. CASE i \notin 1..k
    BY <1>3, <2>2
  <2>3. QED
    BY <2>1, <2>2
<1>5. ASSUME NEW i \in 1..n
      PROVE  i + k \in 1..(k + n) /\ stack'[i + k] = stack[i]
  <2>1. i + k \in 1..(k + n) /\ i + k > k /\ (i + k) - k = i
    BY <1>3
  <2>2. QED
    BY <1>3, <2>1
<1>6. Len(stack') = k + n /\ Len(stack) = n
  BY <1>3 DEF n
<1>7. (n # 0 <=> stack # <<>>) /\ stack' # <<>>
  BY <1>3 DEF n
<1>8. n # 0 => Base' = Base
  <2> SUFFICES ASSUME n # 0 PROVE Base' = Base
    OBVIOUS
  <2>1. n \in 1..n /\ n + k = k + n
    BY <1>3
  <2>2. stack'[k + n] = stack[n]
    BY <1>5, <2>1
  <2>3. QED
    BY <1>6, <2>2 DEF Base
<1>9. n = 0 => Base' = frame
  <2> SUFFICES ASSUME n = 0 PROVE Base' = frame
    OBVIOUS
  <2>1. k + n = k /\ k \in 1..k
    BY <1>3
  <2>2. stack'[k] = frame
    BY <1>2, <1>3, <2>1 DEF k
  <2>3. QED
    BY <1>6, <2>1, <2>2 DEF Base
<1>10. (Polling' <=> Polling) /\ (Polling => Base' = Base)
  <2>1. CASE n = 0
    <3>1. Polling' <=> Base'.at \in PollLabels
      BY <1>7 DEF Polling
    <3>2. QED
      BY <1>1, <1>7, <1>9, <2>1, <3>1 DEF Polling
  <2>2. CASE n # 0
    BY <1>7, <1>8, <2>2 DEF Polling
  <2>3. QED
    BY <2>1, <2>2
<1>11. TimingOut' <=> TimingOut
  <2> DEFINE m == (k + n) - 1
  <2>0. TimingOut' <=> k + n > 1 /\ stack'[m].at = "timedOut"
    BY <1>6 DEF TimingOut
  <2>1. CASE n \in {0, 1}
    <3>1. n = 1 \/ k = 2 => m \in 1..k
      BY <1>3, <2>1
    <3>2. m \in 1..k => stack'[m].at \notin PollLabels
      <4> SUFFICES ASSUME m \in 1..k PROVE stack'[m].at \notin PollLabels
        OBVIOUS
      <4>1. stack'[m] \in {frame, Callback}
        BY <1>2, <1>3 DEF k
      <4>2. QED
        BY <1>1, <4>1
    <3>3. "timedOut" \in PollLabels
      BY DEF PollLabels
    <3>4. ~TimingOut
      BY <1>6, <2>1 DEF TimingOut
    <3>5. k + n > 1 => n = 1 \/ k = 2
      BY <1>3, <2>1
    <3>6. QED
      BY <2>0, <3>1, <3>2, <3>3, <3>4, <3>5
  <2>2. CASE n \notin {0, 1}
    <3>1. n - 1 \in 1..n /\ (n - 1) + k = m /\ n > 1 /\ k + n > 1
      BY <1>3, <2>2
    <3>2. stack'[m] = stack[n - 1]
      BY <1>5, <3>1
    <3>3. TimingOut <=> stack[n - 1].at = "timedOut"
      BY <1>6, <3>1 DEF TimingOut
    <3>4. QED
      BY <2>0, <3>1, <3>2, <3>3
  <2>3. QED
    BY <2>1, <2>2
<1>12. Shape'
  <2> SUFFICES ASSUME NEW i \in 1..(k + n), stack'[i].at \in PollLabels
               PROVE  \/ i = k + n /\ stack'[i].at # "timedOut"
                      \/ i = (k + n) - 1 /\ stack'[i].at = "timedOut" /\ Base'.at = "rebinds"
    BY <1>6 DEF Shape
  <2>1. i - k \in 1..n /\ stack'[i] = stack[i - k]
    BY <1>4
  <2>2. \/ i - k = n /\ stack[i - k].at # "timedOut"
        \/ i - k = n - 1 /\ stack[i - k].at = "timedOut" /\ Base.at = "rebinds"
    BY <1>6, <2>1 DEF Shape
  <2>3. n # 0
    BY <1>3, <2>1
  <2>4. QED
    BY <1>3, <1>8, <2>1, <2>2, <2>3
<1>13. ASSUME NEW label, label \notin {"callback", frame.at}
       PROVE  (Holds(label)' <=> Holds(label)) /\ (Once(label) => Once(label)')
  <2>1. ASSUME NEW i \in 1..(k + n), stack'[i].at = label
        PROVE  i - k \in 1..n /\ stack[i - k].at = label
    BY <1>1, <1>4, <1>13, <2>1
  <2>2. Holds(label)' => Holds(label)
    BY <1>6, <2>1 DEF Holds
  <2>3. Holds(label) => Holds(label)'
    BY <1>5, <1>6 DEF Holds
  <2>4. Once(label) => Once(label)'
    <3> SUFFICES ASSUME Once(label), NEW i \in 1..(k + n), NEW j \in 1..(k + n),
                        stack'[i].at = label, stack'[j].at = label
                 PROVE  i = j
      BY <1>6 DEF Once
    <3>1. i - k \in 1..n /\ j - k \in 1..n /\ stack[i - k].at = label /\ stack[j - k].at = label
      BY <2>1
    <3>2. i - k = j - k
      BY <1>6, <3>1 DEF Once
    <3>3. QED
      BY <1>3, <3>2
  <2>5. QED
    BY <2>2, <2>3, <2>4
<1>14. frame.at # "callback" /\ ~Holds(frame.at) => Once(frame.at)'
  <2> SUFFICES ASSUME frame.at # "callback", ~Holds(frame.at),
                      NEW i \in 1..(k + n), stack'[i].at = frame.at
               PROVE  i = k
    BY <1>6 DEF Once
  <2>1. ~(i - k \in 1..n /\ stack'[i] = stack[i - k])
    BY <1>6 DEF Holds
  <2>2. QED
    BY <1>1, <1>4, <2>1
<1>15. \A i \in 1..(k + n) : \/ stack'[i] \in {frame, Callback}
                            \/ \E j \in 1..n : stack'[i] = stack[j]
  BY <1>4
<1>16. QED
  BY <1>3, <1>6, <1>10, <1>11, <1>12, <1>13, <1>14, <1>15

\* The stack has a poll's frames only, under a callback at most.
NoCalls == /\ stack \in Seq(Frames) /\ Shape
           /\ \A label \in {"start", "rebind"} : ~Holds(label) /\ Once(label)
           /\ \A i \in 1..Len(stack) : stack[i].at # "rebind"

LEMMA EmptyStack ==
  ASSUME stack' = <<>>
  PROVE  NoCalls' /\ ~Polling' /\ ~TimingOut'
  BY DEF NoCalls, Shape, Holds, Once, Polling, TimingOut

LEMMA PollStack ==
  ASSUME NEW frame \in Frames, frame.at \in PollLabels, frame.at # "timedOut",
         stack' = <<frame>> \/ stack' = <<Callback, frame>>
  PROVE  NoCalls' /\ Polling' /\ Base' = frame /\ ~TimingOut'
<1>1. Callback \in Frames /\ Callback.at = "callback" /\ frame.at \notin {"start", "rebind", "callback"}
      /\ "callback" \notin PollLabels
  BY PlainFrame DEF PollLabels
<1>2. PICK n \in {1, 2} :
        /\ stack' \in Seq(Frames) /\ Len(stack') = n /\ stack' # <<>> /\ stack'[n] = frame
        /\ n = 2 => stack'[1] = Callback
  <2>1. CASE stack' = <<frame>>
    BY <2>1, OneIs
  <2>2. CASE stack' = <<Callback, frame>>
    BY <1>1, <2>2, TwoIs
  <2>3. QED
    BY <2>1, <2>2
<1>3. Base' = frame /\ Polling'
  BY <1>2 DEF Base, Polling
<1>4. \A i \in 1..n : (stack'[i] = frame /\ i = n) \/ stack'[i] = Callback
  BY <1>2
<1>5. Shape' /\ ~TimingOut'
  BY <1>1, <1>2, <1>4 DEF Shape, TimingOut
<1>6. \A label \in {"start", "rebind"} : ~Holds(label)' /\ Once(label)'
  BY <1>1, <1>2, <1>4 DEF Holds, Once
<1>7. \A i \in 1..Len(stack') : stack'[i].at # "rebind"
  BY <1>1, <1>2, <1>4
<1>8. QED
  BY <1>2, <1>3, <1>5, <1>6, <1>7 DEF NoCalls

LEMMA TimingStack ==
  ASSUME NEW frame \in Frames, frame.at = "rebinds",
         \/ stack' = <<[at |-> "timedOut"], frame>>
         \/ stack' = <<Callback, [at |-> "timedOut"], frame>>
  PROVE  NoCalls' /\ Polling' /\ Base' = frame /\ TimingOut'
<1> DEFINE timed == [at |-> "timedOut"]
<1>1. /\ Callback \in Frames /\ Callback.at = "callback" /\ timed \in Frames
      /\ timed.at = "timedOut" /\ "callback" \notin PollLabels /\ "rebinds" \in PollLabels
  BY PlainFrame DEF PollLabels
<1> HIDE DEF timed
<1>2. PICK n \in {2, 3} :
        /\ stack' \in Seq(Frames) /\ Len(stack') = n /\ stack' # <<>>
        /\ stack'[n] = frame /\ stack'[n - 1] = timed
        /\ n = 3 => stack'[1] = Callback
  <2>1. CASE stack' = <<timed, frame>>
    <3>1. 2 - 1 = 1
      OBVIOUS
    <3>2. QED
      BY <1>1, <2>1, <3>1, TwoIs
  <2>2. CASE stack' = <<Callback, timed, frame>>
    <3>1. 3 - 1 = 2
      OBVIOUS
    <3>2. QED
      BY <1>1, <2>2, <3>1, ThreeIs
  <2>3. QED
    BY <2>1, <2>2 DEF timed
<1>3. Base' = frame /\ Polling'
  BY <1>1, <1>2 DEF Base, Polling
<1>4. \A i \in 1..n : \/ stack'[i] = frame /\ i = n
                      \/ stack'[i] = timed /\ i = n - 1
                      \/ stack'[i] = Callback
  <2> TAKE i \in 1..n
  <2>1. i = n \/ i = n - 1 \/ (n = 3 /\ i = 1)
    <3>1. n \in Nat /\ i \in Nat /\ 1 <= i /\ i <= n /\ n \in {2, 3}
      OBVIOUS
    <3>2. QED
      BY <3>1
  <2>2. CASE n = 3 /\ i = 1
    BY <1>2, <2>2
  <2>3. CASE i = n
    <3>1. stack'[n] = frame
      BY <1>2
    <3>2. QED
      BY <2>3, <3>1
  <2>4. CASE i = n - 1
    BY <1>2, <2>4
  <2>5. QED
    BY <2>1, <2>2, <2>3, <2>4
<1>5. Shape'
  BY <1>1, <1>2, <1>3, <1>4 DEF Shape
<1>6. TimingOut'
  BY <1>1, <1>2 DEF TimingOut
<1>7. \A label \in {"start", "rebind"} : ~Holds(label)' /\ Once(label)'
  BY <1>1, <1>2, <1>4 DEF Holds, Once
<1>8. \A i \in 1..Len(stack') : stack'[i].at # "rebind"
  BY <1>1, <1>2, <1>4
<1>9. QED
  BY <1>2, <1>3, <1>5, <1>6, <1>7, <1>8 DEF NoCalls

\* A poll's frame that goes on is alone, or is start()'s time-out before the rebinds.
LEMMA PollAlone ==
  ASSUME stack \in Seq(Frames), Shape, stack # <<>>, Head(stack).at \in PollLabels
  PROVE  /\ Polling
         /\ IF Head(stack).at = "timedOut"
            THEN /\ TimingOut /\ Base.at = "rebinds" /\ Base \in Frames
                 /\ Tail(stack) = <<Base>>
            ELSE ~TimingOut /\ Head(stack) = Base /\ Base \in Frames /\ Tail(stack) = <<>>
<1>1. /\ Len(stack) \in Nat /\ Len(stack) > 0 /\ Head(stack) = stack[1] /\ 1 \in 1..Len(stack)
      /\ Len(stack) \in 1..Len(stack) /\ Base = stack[Len(stack)]
  BY DEF Base
<1>2. Base \in Frames
  BY <1>1
<1>3. \/ 1 = Len(stack) /\ Head(stack).at # "timedOut"
      \/ 1 = Len(stack) - 1 /\ Head(stack).at = "timedOut" /\ Base.at = "rebinds"
  <2>1. \/ 1 = Len(stack) /\ stack[1].at # "timedOut"
        \/ 1 = Len(stack) - 1 /\ stack[1].at = "timedOut" /\ Base.at = "rebinds"
    BY <1>1 DEF Shape
  <2>2. QED
    BY <1>1, <2>1
<1>4. CASE Head(stack).at = "timedOut"
  <2>1. Len(stack) = 2 /\ Base.at = "rebinds" /\ stack[Len(stack) - 1] = Head(stack)
    BY <1>1, <1>3, <1>4
  <2>2. Tail(stack) = <<Base>>
    BY <1>1, <1>2, <2>1, TailOne
  <2>3. TimingOut
    BY <1>4, <2>1 DEF TimingOut
  <2>4. Polling
    BY <1>1, <2>1 DEF Polling, PollLabels
  <2>5. QED
    BY <1>2, <1>4, <2>1, <2>2, <2>3, <2>4
<1>5. CASE Head(stack).at # "timedOut"
  <2>1. Len(stack) = 1 /\ Head(stack) = Base
    BY <1>1, <1>3, <1>5
  <2>2. ~TimingOut
    BY <2>1 DEF TimingOut
  <2>3. Polling
    BY <2>1 DEF Polling
  <2>4. Tail(stack) = <<>>
    BY <2>1, TailNone
  <2>5. QED
    BY <1>2, <1>5, <2>1, <2>2, <2>3, <2>4
<1>6. QED
  BY <1>4, <1>5


-----------------------------------------------------------------------------
(* What each action does to the stack *)

JoinIs(p, q, S) ==
  /\ p \o q \in Seq(S) /\ Len(p \o q) = Len(p) + Len(q)
  /\ \A i \in 1..Len(p) : (p \o q)[i] = p[i]
  /\ \A i \in 1..Len(q) : (p \o q)[Len(p) + i] = q[i]

LEMMA JoinLemma ==
  ASSUME NEW S, NEW p \in Seq(S), NEW q \in Seq(S)
  PROVE  JoinIs(p, q, S)
  BY DEF JoinIs

LEMMA JoinsThree ==
  ASSUME NEW S, NEW a \in S, NEW b \in S, NEW c \in S
  PROVE  <<a>> \o <<b, c>> = <<a, b, c>>
<1>1. /\ <<a>> \in Seq(S) /\ Len(<<a>>) = 1 /\ <<a>>[1] = a
      /\ <<b, c>> \in Seq(S) /\ Len(<<b, c>>) = 2 /\ <<b, c>>[1] = b /\ <<b, c>>[2] = c
  BY OneIs, TwoIs
<1>2. /\ <<a, b, c>> \in Seq(S) /\ Len(<<a, b, c>>) = 3
      /\ <<a, b, c>>[1] = a /\ <<a, b, c>>[2] = b /\ <<a, b, c>>[3] = c
  BY ThreeIs
<1>3. ASSUME NEW p \in Seq(S), NEW q \in Seq(S), NEW r \in Seq(S),
             Len(p) = 1, p[1] = a, Len(q) = 2, q[1] = b, q[2] = c,
             Len(r) = 3, r[1] = a, r[2] = b, r[3] = c
      PROVE  p \o q = r
  <2>1. /\ p \o q \in Seq(S) /\ Len(p \o q) = 3
        /\ (p \o q)[1] = a /\ (p \o q)[2] = b /\ (p \o q)[3] = c
    <3>1. JoinIs(p, q, S)
      BY JoinLemma
    <3>2. p \o q \in Seq(S) /\ Len(p \o q) = 3
      BY <1>3, <3>1 DEF JoinIs
    <3>3. (p \o q)[1] = p[1] /\ (p \o q)[2] = q[1] /\ (p \o q)[3] = q[2]
      BY <1>3, <3>1 DEF JoinIs
    <3>4. QED
      BY <1>3, <3>1, <3>2, <3>3
  <2>2. \A i \in 1..3 : i = 1 \/ i = 2 \/ i = 3
    OBVIOUS
  <2>3. QED
    BY <1>3, <2>1, <2>2, SeqEqual
<1>4. QED
  BY <1>1, <1>2, <1>3

LEMMA JoinsAre ==
  ASSUME NEW S, NEW a \in S, NEW b \in S, NEW c \in S, NEW s \in Seq(S)
  PROVE  /\ <<>> \o s = s /\ s \o <<>> = s
         /\ <<a>> \o <<b>> = <<a, b>> /\ <<a>> \o <<b, c>> = <<a, b, c>>
         /\ <<a>> \o (<<b>> \o s) = <<a, b>> \o s
<1>1. <<>> \o s = s /\ s \o <<>> = s
  BY ConcatEmptySeq
<1>2. <<a>> \o <<b>> = <<a, b>>
  <2>1. /\ <<a>> \in Seq(S) /\ Len(<<a>>) = 1 /\ <<a>>[1] = a
        /\ <<b>> \in Seq(S) /\ Len(<<b>>) = 1 /\ <<b>>[1] = b
    BY OneIs
  <2>2. /\ <<a, b>> \in Seq(S) /\ Len(<<a, b>>) = 2
        /\ <<a, b>>[1] = a /\ <<a, b>>[2] = b
    BY TwoIs
  <2>3. ASSUME NEW p \in Seq(S), NEW q \in Seq(S), NEW r \in Seq(S),
               Len(p) = 1, p[1] = a, Len(q) = 1, q[1] = b, Len(r) = 2, r[1] = a, r[2] = b
        PROVE  p \o q = r
    <3>1. /\ p \o q \in Seq(S) /\ Len(p \o q) = 2 /\ (p \o q)[1] = a /\ (p \o q)[2] = b
      <4>1. JoinIs(p, q, S)
        BY JoinLemma
      <4>2. p \o q \in Seq(S) /\ Len(p \o q) = 2
        BY <2>3, <4>1 DEF JoinIs
      <4>3. (p \o q)[1] = p[1] /\ (p \o q)[2] = q[1]
        BY <2>3, <4>1 DEF JoinIs
      <4>4. QED
        BY <2>3, <4>1, <4>2, <4>3
    <3>2. \A i \in 1..2 : i = 1 \/ i = 2
      OBVIOUS
    <3>3. QED
      BY <2>3, <3>1, <3>2, SeqEqual
  <2>4. QED
    BY <2>1, <2>2, <2>3
<1>3. <<a>> \o <<b, c>> = <<a, b, c>>
  BY JoinsThree
<1>4. <<a>> \o (<<b>> \o s) = <<a, b>> \o s
  <2>1. <<a>> \in Seq(S) /\ <<b>> \in Seq(S)
    BY OneIs
  <2>2. (<<a>> \o <<b>>) \o s = <<a>> \o (<<b>> \o s)
    BY <2>1, ConcatAssociative
  <2>3. QED
    BY <1>2, <2>2
<1>5. QED
  BY <1>1, <1>2, <1>3, <1>4

\* A frame, under the callback or not.
LEMMA CallsFirst ==
  ASSUME NEW f \in Frames, NEW top, top \in {<<>>, <<Callback>>}
  PROVE  top \o <<f>> \in Seq(Frames) /\ top \o <<f>> \in {<<f>>, <<Callback, f>>}
<1>1. Callback \in Frames
  BY PlainFrame
<1>2. <<f>> \in Seq(Frames) /\ <<Callback, f>> \in Seq(Frames)
  BY <1>1, OneIs, TwoIs
<1>3. <<>> \o <<f>> = <<f>> /\ <<Callback>> \o <<f>> = <<Callback, f>>
  BY <1>1, <1>2, JoinsAre
<1>4. QED
  BY <1>2, <1>3

LEMMA GotoAlone ==
  ASSUME stack \in Seq(Frames), Shape, stack # <<>>, Head(stack).at \in PollLabels,
         Head(stack).at # "timedOut", NEW frames \in Seq(Frames), Goto(frames)
  PROVE  stack' = frames /\ Polling /\ ~TimingOut /\ Base = Head(stack) /\ Base \in Frames
<1>1. Polling /\ ~TimingOut /\ Base = Head(stack) /\ Base \in Frames /\ Tail(stack) = <<>>
  BY PollAlone
<1>2. stack' = frames \o <<>>
  BY <1>1 DEF Goto
<1>3. QED
  BY <1>1, <1>2, ConcatEmptySeq

Steady == (Polling' <=> Polling) /\ (Polling => Base' = Base) /\ (TimingOut' <=> TimingOut)

NoNewCalls == \A label \in {"start", "rebind"} : /\ Holds(label)' => Holds(label)
                                                 /\ Once(label) => Once(label)'

Inherits == \A i \in 1..Len(stack') : \E j \in 1..Len(stack) : stack'[i] = stack[j]

Stacked == stack \in Seq(Frames) /\ Shape

LEMMA SameDoes ==
  ASSUME Stacked, UNCHANGED stack
  PROVE  Stacked' /\ Steady /\ NoNewCalls /\ Inherits
<1>1. stack' = stack
  OBVIOUS
<1>2. Stacked' /\ Steady
  BY <1>1 DEF Stacked, Steady, Shape, Polling, TimingOut, Base
<1>3. NoNewCalls
  BY <1>1 DEF NoNewCalls, Holds, Once
<1>4. Inherits
  BY <1>1 DEF Inherits
<1>5. QED
  BY <1>2, <1>3, <1>4

\* A call returns.
LEMMA ReturnDoes ==
  ASSUME Stacked, NEW label \in {"callback", "start", "rebind"}, At(label), Goto(<<>>)
  PROVE  /\ Stacked' /\ Steady /\ NoNewCalls /\ Inherits /\ Holds(label)
         /\ Once(label) => ~Holds(label)'
         /\ \E i \in 1..Len(stack) : stack[i] = Head(stack)
<1>1. stack # <<>> /\ Head(stack).at = label /\ label \notin PollLabels
  BY DEF At, PollLabels
<1>2. stack' = Tail(stack)
  <2>1. Tail(stack) \in Seq(Frames)
    BY <1>1, HeadTailProperties DEF Stacked
  <2>2. QED
    BY <2>1, ConcatEmptySeq DEF Goto
<1>3. Pops
  BY <1>1, <1>2 DEF Pops
<1>4. /\ stack' \in Seq(Frames) /\ Shape'
      /\ (Polling' <=> Polling) /\ (Polling => Base' = Base)
      /\ (TimingOut' <=> TimingOut)
      /\ \A l : Holds(l)' => Holds(l)
      /\ \A l : Once(l) => Once(l)' /\ (Head(stack).at = l => ~Holds(l)')
      /\ \A i \in 1..Len(stack') : \E j \in 1..Len(stack) : stack'[i] = stack[j]
  BY <1>3, PopDoes DEF Stacked
<1>5. 1 \in 1..Len(stack) /\ stack[1] = Head(stack)
  BY <1>1 DEF Stacked
<1>6. Holds(label)
  BY <1>1, <1>5 DEF Holds
<1>7. QED
  BY <1>1, <1>4, <1>5, <1>6 DEF Stacked, Steady, NoNewCalls, Inherits

\* A call begins, and its callback is called.
LEMMA CallDoes ==
  ASSUME Stacked, NEW s, s # state, NEW frame \in Frames, frame.at \in {"start", "rebind"},
         SetState(s, <<frame>> \o stack)
  PROVE  /\ Stacked' /\ Steady
         /\ \A label \in {"start", "rebind"} \ {frame.at} :
              (Holds(label)' => Holds(label)) /\ (Once(label) => Once(label)')
         /\ ~Holds(frame.at) => Once(frame.at)'
         /\ \A i \in 1..Len(stack') : \/ stack'[i] = frame
                                      \/ stack'[i].at = "callback"
                                      \/ \E j \in 1..Len(stack) : stack'[i] = stack[j]
<1>1. Callback \in Frames /\ Callback.at = "callback" /\ frame.at \notin PollLabels
  BY PlainFrame DEF PollLabels
<1>2. stack' = <<Callback>> \o (<<frame>> \o stack)
  BY DEF SetState
<1>3. Pushes(frame)
  BY <1>1, <1>2, JoinsAre DEF Pushes, Stacked
<1>4. /\ stack' \in Seq(Frames) /\ Shape'
      /\ (Polling' <=> Polling) /\ (Polling => Base' = Base)
      /\ (TimingOut' <=> TimingOut)
      /\ \A label : label \notin {"callback", frame.at} =>
                      (Holds(label)' <=> Holds(label)) /\ (Once(label) => Once(label)')
      /\ frame.at # "callback" /\ ~Holds(frame.at) => Once(frame.at)'
      /\ \A i \in 1..Len(stack') : \/ stack'[i] \in {frame, Callback}
                                   \/ \E j \in 1..Len(stack) : stack'[i] = stack[j]
  BY <1>1, <1>3, PushDoes DEF Stacked
<1>5. QED
  BY <1>1, <1>4 DEF Stacked, Steady

-----------------------------------------------------------------------------
(* What each action of a poll does to the stack *)

\* A poll goes from its frame to nothing, to one frame, or to start()'s time-out.
Going(label) == Polling /\ ~TimingOut /\ Base = Frame /\ Base \in Frames /\ Base.at = label

LEMMA LeavesNothing ==
  ASSUME Stacked, NEW label \in PollLabels, label # "timedOut", At(label), Goto(<<>>)
  PROVE  Going(label) /\ NoCalls' /\ ~Polling' /\ ~TimingOut'
<1>1. <<>> \in Seq(Frames) /\ stack # <<>> /\ Head(stack).at = label
  BY EmptySeq DEF At
<1>2. stack' = <<>> /\ Polling /\ ~TimingOut /\ Base = Head(stack) /\ Base \in Frames
  BY <1>1, GotoAlone DEF Stacked
<1>3. QED
  BY <1>1, <1>2, EmptyStack DEF Going, Frame

LEMMA LeavesFrame ==
  ASSUME Stacked, NEW label \in PollLabels, label # "timedOut", At(label),
         NEW f \in Frames, f.at \in PollLabels, f.at # "timedOut",
         NEW top, top \in {<<>>, <<Callback>>}, Goto(top \o <<f>>)
  PROVE  Going(label) /\ NoCalls' /\ Polling' /\ Base' = f /\ ~TimingOut'
<1>1. top \o <<f>> \in Seq(Frames) /\ top \o <<f>> \in {<<f>>, <<Callback, f>>}
  BY CallsFirst
<1>2. stack # <<>> /\ Head(stack).at = label
  BY DEF At
<1>3. stack' = top \o <<f>> /\ Polling /\ ~TimingOut /\ Base = Head(stack) /\ Base \in Frames
  BY <1>1, <1>2, GotoAlone DEF Stacked
<1>4. stack' = <<f>> \/ stack' = <<Callback, f>>
  BY <1>1, <1>3
<1>5. NoCalls' /\ Polling' /\ Base' = f /\ ~TimingOut'
  BY <1>4, PollStack
<1>6. QED
  BY <1>2, <1>3, <1>5 DEF Going, Frame

LEMMA LeavesTimeOut ==
  ASSUME Stacked, At("starts"), NEW f \in Frames, f.at = "rebinds",
         NEW top, top \in {<<>>, <<Callback>>}, Goto(top \o <<[at |-> "timedOut"], f>>)
  PROVE  Going("starts") /\ NoCalls' /\ Polling' /\ Base' = f /\ TimingOut'
<1> DEFINE timed == [at |-> "timedOut"]
<1>1. Callback \in Frames /\ timed \in Frames /\ "starts" \in PollLabels
  BY PlainFrame DEF PollLabels
<1>2. stack # <<>> /\ Head(stack).at = "starts" /\ Goto(top \o <<timed, f>>)
  BY DEF At
<1> HIDE DEF timed
<1>3. /\ <<timed, f>> \in Seq(Frames) /\ <<Callback, timed, f>> \in Seq(Frames)
      /\ <<>> \o <<timed, f>> = <<timed, f>>
      /\ <<Callback>> \o <<timed, f>> = <<Callback, timed, f>>
  <2>1. <<timed, f>> \in Seq(Frames) /\ <<Callback, timed, f>> \in Seq(Frames)
    BY <1>1, TwoIs, ThreeIs
  <2>2. <<>> \o <<timed, f>> = <<timed, f>>
    BY <2>1, ConcatEmptySeq
  <2>3. <<Callback>> \o <<timed, f>> = <<Callback, timed, f>>
    <3>1. \A a, b, c \in Frames : <<a>> \o <<b, c>> = <<a, b, c>>
      BY JoinsThree, Zenon
    <3>2. QED
      BY <1>1, <3>1, Zenon
  <2>4. QED
    BY <2>1, <2>2, <2>3
<1>4. top \o <<timed, f>> \in Seq(Frames)
  BY <1>3
<1>5. /\ stack' = top \o <<timed, f>>
      /\ Polling /\ ~TimingOut /\ Base = Head(stack) /\ Base \in Frames
  BY <1>1, <1>2, <1>4, GotoAlone DEF Stacked
<1>6. stack' = <<timed, f>> \/ stack' = <<Callback, timed, f>>
  BY <1>3, <1>5
<1>7. NoCalls' /\ Polling' /\ Base' = f /\ TimingOut'
  BY <1>6, TimingStack DEF timed
<1>8. QED
  BY <1>2, <1>5, <1>7 DEF Going, Frame

LEMMA NotRunning ==
  ASSUME stack = <<>>
  PROVE  Stacked /\ ~Polling /\ ~TimingOut /\ \A label : ~Holds(label)
  BY DEF Stacked, Shape, Polling, TimingOut, Holds

Seen == IF Disbelieves THEN "reconnecting" ELSE native

LEMMA PollDoes ==
  ASSUME TypeOK, Poll
  PROVE  /\ ~Polling /\ ~TimingOut /\ NoCalls' /\ Polling' /\ ~TimingOut'
         /\ Base'.at = "auth" /\ Base'.seen = Seen /\ Base'.now = now
         /\ Seen \in NativeStates /\ state' = Seen
<1> DEFINE f == [at |-> "auth", seen |-> Seen, now |-> now, news |-> url # authURL /\ url # 0]
           top == IF Seen = state THEN <<>> ELSE <<Callback>>
<1>1. Seen \in NativeStates /\ now \in 0..MaxNow
  BY DEF Seen, TypeOK, NativeStates
<1>2. (url # authURL /\ url # 0) \in BOOLEAN
  OBVIOUS
<1>3. f \in Frames /\ f.at = "auth" /\ f.seen = Seen /\ f.now = now
  BY <1>1, <1>2 DEF Frames, Polls
<1>4. stack = <<>> /\ state' = Seen /\ stack' = top \o <<f>>
  BY DEF Poll, PollBegins, SetState, Seen
<1>5. top \in {<<>>, <<Callback>>}
  OBVIOUS
<1>6. "auth" \in PollLabels
  BY DEF PollLabels
<1> HIDE DEF f, top
<1>7. stack' = <<f>> \/ stack' = <<Callback, f>>
  BY <1>3, <1>4, <1>5, CallsFirst
<1>8. NoCalls' /\ Polling' /\ Base' = f /\ ~TimingOut'
  BY <1>3, <1>6, <1>7, PollStack
<1>9. QED
  BY <1>1, <1>3, <1>4, <1>8, NotRunning

LEMMA PollClosingDoes ==
  ASSUME PollClosing
  PROVE  /\ ~Polling /\ ~TimingOut /\ NoCalls' /\ ~TimingOut'
         /\ closed => Polling' /\ Base'.at = "closed" /\ state' = "closed" /\ ~alive' /\ ~closing'
         /\ ~closed => ~Polling' /\ UNCHANGED <<alive, closing, state, reported>>
<1>1. stack = <<>>
  BY DEF PollClosing, PollBegins
<1>2. CASE closed
  <2> DEFINE f == [at |-> "closed"]
             top == IF "closed" = state THEN <<>> ELSE <<Callback>>
  <2>1. f \in Frames /\ f.at = "closed" /\ "closed" \in PollLabels
    BY PlainFrame DEF PollLabels
  <2>2. stack' = top \o <<f>> /\ state' = "closed" /\ ~alive' /\ ~closing'
    BY <1>2 DEF PollClosing, SetState
  <2>3. top \in {<<>>, <<Callback>>}
    OBVIOUS
  <2> HIDE DEF f, top
  <2>4. stack' = <<f>> \/ stack' = <<Callback, f>>
    BY <2>1, <2>2, <2>3, CallsFirst
  <2>5. NoCalls' /\ Polling' /\ Base' = f /\ ~TimingOut'
    BY <2>1, <2>4, PollStack
  <2>6. QED
    BY <1>1, <1>2, <2>1, <2>2, <2>5, NotRunning
<1>3. CASE ~closed
  <2>1. stack' = <<>> /\ UNCHANGED <<alive, closing, state, reported>>
    BY <1>1, <1>3 DEF PollClosing
  <2>2. QED
    BY <1>1, <1>3, <2>1, NotRunning, EmptyStack
<1>4. QED
  BY <1>2, <1>3

LEMMA FrameIs ==
  ASSUME Stacked, NEW label \in {"auth", "error", "starts", "rebinds"}, At(label),
         NEW next \in {"auth", "error", "starts", "rebinds"}
  PROVE  /\ Frame \in Polls
         /\ [Frame EXCEPT !.at = next] \in Frames /\ [Frame EXCEPT !.at = next].at = next
         /\ [Frame EXCEPT !.at = next].seen = Frame.seen
         /\ [Frame EXCEPT !.at = next].now = Frame.now
<1>1. Frame \in Frames /\ Frame.at = label
  BY HeadTailProperties DEF Stacked, At, Frame
<1>2. Frame \in Polls
  BY <1>1, FramesAre
<1>3. QED
  BY <1>2, PollFrame

LEMMA PollAuthDoes ==
  ASSUME Stacked, PollAuth
  PROVE  /\ Going("auth") /\ NoCalls' /\ Polling' /\ ~TimingOut'
         /\ Base'.at \in {"error", "starts"} /\ (Base'.at = "error" <=> Base.seen = "error")
         /\ Base'.seen = Base.seen /\ Base'.now = Base.now
<1> DEFINE next == IF Frame.seen = "error" THEN "error" ELSE "starts"
           f == [Frame EXCEPT !.at = next]
           top == IF Frame.news THEN <<Callback>> ELSE <<>>
<1>1. At("auth") /\ Goto(top \o <<f>>)
  BY DEF PollAuth
<1>2. next \in {"auth", "error", "starts", "rebinds"} /\ top \in {<<>>, <<Callback>>}
      /\ (next = "error" <=> Frame.seen = "error") /\ next \in {"error", "starts"}
  OBVIOUS
<1> HIDE DEF top, next
<1>3. f \in Frames /\ f.at = next /\ f.seen = Frame.seen /\ f.now = Frame.now
  BY <1>1, <1>2, FrameIs
<1>4. next \in PollLabels /\ next # "timedOut" /\ "auth" \in PollLabels
  BY <1>2 DEF PollLabels
<1> HIDE DEF f
<1>5. Going("auth") /\ NoCalls' /\ Polling' /\ Base' = f /\ ~TimingOut'
  BY <1>1, <1>2, <1>3, <1>4, LeavesFrame
<1>6. QED
  BY <1>2, <1>3, <1>5 DEF Going

LEMMA PollErrorDoes ==
  ASSUME Stacked, PollError
  PROVE  /\ Going("error") /\ NoCalls' /\ Polling' /\ ~TimingOut' /\ Base'.at = "failed"
         /\ reported' = "native"
<1> DEFINE f == [at |-> "failed"]
           top == IF "native" = reported THEN <<>> ELSE <<Callback>>
<1>1. At("error") /\ Goto(top \o <<f>>) /\ reported' = "native"
  BY DEF PollError, Report
<1>2. top \in {<<>>, <<Callback>>}
  OBVIOUS
<1>3. f \in Frames /\ f.at = "failed"
  BY PlainFrame
<1>4. "failed" \in PollLabels /\ "error" \in PollLabels
  BY DEF PollLabels
<1> HIDE DEF f, top
<1>5. Going("error") /\ NoCalls' /\ Polling' /\ Base' = f /\ ~TimingOut'
  BY <1>1, <1>2, <1>3, <1>4, LeavesFrame
<1>6. QED
  BY <1>1, <1>3, <1>5

LEMMA PollFailedDoes ==
  ASSUME Stacked, PollFailed
  PROVE  Going("failed") /\ NoCalls' /\ ~Polling' /\ ~TimingOut'
  BY LeavesNothing DEF PollFailed, PollLabels

LEMMA CloseEndsDoes ==
  ASSUME Stacked, CloseEnds
  PROVE  Going("closed") /\ NoCalls' /\ ~Polling' /\ ~TimingOut'
  BY LeavesNothing DEF CloseEnds, PollLabels

LEMMA RebindTimesOutDoes ==
  ASSUME Stacked, RebindTimesOut
  PROVE  Going("rebindTimedOut") /\ NoCalls' /\ ~Polling' /\ ~TimingOut'
  BY LeavesNothing DEF RebindTimesOut, PollLabels

Expires == startResult /\ Frame.seen # "connected" /\ Deadline # Unset /\ Frame.now >= Deadline

LEMMA PollStartsDoes ==
  ASSUME Stacked, PollStarts
  PROVE  /\ Going("starts") /\ NoCalls' /\ Polling' /\ (TimingOut' <=> Expires)
         /\ Base'.at = "rebinds" /\ Base'.seen = Base.seen /\ Base'.now = Base.now
         /\ reported' \in {reported, "timedOut"} /\ Base \in Polls
<1> DEFINE f == [Frame EXCEPT !.at = "rebinds"]
           top == IF "timedOut" = reported THEN <<>> ELSE <<Callback>>
<1>1. At("starts")
  BY DEF PollStarts
<1>2. f \in Frames /\ f.at = "rebinds" /\ f.seen = Frame.seen /\ f.now = Frame.now
      /\ Frame \in Polls
  BY <1>1, FrameIs
<1>3. top \in {<<>>, <<Callback>>} /\ "starts" \in PollLabels /\ "rebinds" \in PollLabels
  BY DEF PollLabels
<1>4. CASE Expires
  <2>1. Goto(top \o <<[at |-> "timedOut"], f>>) /\ reported' = "timedOut"
    BY <1>4 DEF PollStarts, Report, Expires
  <2> HIDE DEF f, top
  <2>2. Going("starts") /\ NoCalls' /\ Polling' /\ Base' = f /\ TimingOut'
    BY <1>1, <1>2, <1>3, <2>1, LeavesTimeOut
  <2>3. QED
    BY <1>2, <1>4, <2>1, <2>2 DEF Going
<1>5. CASE ~Expires
  <2>1. Goto(<<f>>) /\ UNCHANGED reported
    BY <1>5 DEF PollStarts, Expires
  <2> HIDE DEF f, top
  <2>2. <<>> \o <<f>> = <<f>>
    BY <1>2, OneIs, ConcatEmptySeq
  <2>3. Goto(<<>> \o <<f>>)
    BY <2>1, <2>2
  <2>4. <<>> \in {<<>>, <<Callback>>}
    OBVIOUS
  <2>5. Going("starts") /\ NoCalls' /\ Polling' /\ Base' = f /\ ~TimingOut'
    BY <1>1, <1>2, <1>3, <2>3, <2>4, LeavesFrame
  <2>6. QED
    BY <1>2, <1>5, <2>1, <2>5 DEF Going
<1>6. QED
  BY <1>4, <1>5

LEMMA StartTimesOutDoes ==
  ASSUME Stacked, StartTimesOut
  PROVE  /\ Polling /\ TimingOut /\ NoCalls' /\ Polling' /\ Base' = Base /\ ~TimingOut'
         /\ Base.at = "rebinds"
<1>1. stack # <<>> /\ Head(stack).at = "timedOut" /\ Goto(<<>>) /\ "timedOut" \in PollLabels
      /\ "rebinds" \in PollLabels
  BY DEF StartTimesOut, At, PollLabels
<1>2. Polling /\ TimingOut /\ Base.at = "rebinds" /\ Base \in Frames /\ Tail(stack) = <<Base>>
  BY <1>1, PollAlone DEF Stacked
<1>3. <<Base>> \in Seq(Frames)
  BY <1>2, OneIs
<1>4. stack' = <<Base>>
  BY <1>1, <1>2, <1>3, ConcatEmptySeq DEF Goto
<1> DEFINE f == Base
<1>5. f \in Frames /\ f.at = "rebinds" /\ stack' = <<f>>
  BY <1>2, <1>4
<1> HIDE DEF f
<1>6. NoCalls' /\ Polling' /\ Base' = f /\ ~TimingOut'
  BY <1>1, <1>5, PollStack
<1>7. QED
  BY <1>2, <1>6 DEF f

Rebound == rebindResult # 0 /\ Frame.seen = "connected" /\ Frame.now >= rebindNotBefore

LEMMA PollRebindsDoes ==
  ASSUME Stacked, TypeOK, PollRebinds
  PROVE  /\ Going("rebinds") /\ NoCalls' /\ ~TimingOut' /\ Base \in Polls
         /\ reported' \in {reported, "rebind"}
         /\ Polling' => /\ Base'.at = "rebindTimedOut" /\ Base'.id = rebindResult
                        /\ rebindResult # 0 /\ ~Rebound
<1> DEFINE f == [at |-> "rebindTimedOut", id |-> rebindResult]
           top == IF "rebind" = reported THEN <<>> ELSE <<Callback>>
<1>1. At("rebinds")
  BY DEF PollRebinds
<1>2. Frame \in Polls
  BY <1>1, FrameIs
<1>3. top \in {<<>>, <<Callback>>} /\ "rebinds" \in PollLabels /\ "rebindTimedOut" \in PollLabels
  BY DEF PollLabels
<1>4. CASE ~Rebound /\ rebindResult # 0 /\ Frame.now >= rebindDeadline
  <2>1. Goto(top \o <<f>>) /\ reported' = "rebind"
    BY <1>4 DEF PollRebinds, Report, Rebound
  <2>2. rebindResult \in 1..MaxRebinds
    BY <1>4, BoundsAssumption DEF TypeOK
  <2>3. f \in Frames /\ f.at = "rebindTimedOut" /\ f.id = rebindResult
    BY <2>2, PlainFrame
  <2> HIDE DEF f, top
  <2>4. Going("rebinds") /\ NoCalls' /\ Polling' /\ Base' = f /\ ~TimingOut'
    BY <1>1, <1>3, <2>1, <2>3, LeavesFrame
  <2>5. QED
    BY <1>2, <1>4, <2>1, <2>3, <2>4 DEF Going
<1>5. CASE ~(~Rebound /\ rebindResult # 0 /\ Frame.now >= rebindDeadline)
  <2>1. Goto(<<>>) /\ UNCHANGED reported
    BY <1>5 DEF PollRebinds, Rebound
  <2>2. Going("rebinds") /\ NoCalls' /\ ~Polling' /\ ~TimingOut'
    BY <1>1, <1>3, <2>1, LeavesNothing
  <2>3. QED
    BY <1>2, <2>1, <2>2 DEF Going
<1>6. QED
  BY <1>4, <1>5

LEMMA StartDoes ==
  ASSUME Stacked, Start
  PROVE  /\ Stacked' /\ Steady /\ state' = "connecting"
         /\ Holds("rebind")' => Holds("rebind")
         /\ Once("rebind") => Once("rebind")'
         /\ ~Holds("start") => Once("start")'
         /\ \A i \in 1..Len(stack') : \/ stack'[i].at \in {"start", "callback"}
                                      \/ \E j \in 1..Len(stack) : stack'[i] = stack[j]
<1> DEFINE f == [at |-> "start"]
<1>1. f \in Frames /\ f.at = "start"
  BY PlainFrame
<1>2. "connecting" # state /\ SetState("connecting", <<f>> \o stack) /\ state' = "connecting"
  BY DEF Start, SetState
<1> HIDE DEF f
<1>3. /\ Stacked' /\ Steady
      /\ \A label \in {"start", "rebind"} \ {f.at} :
           (Holds(label)' => Holds(label)) /\ (Once(label) => Once(label)')
      /\ ~Holds(f.at) => Once(f.at)'
      /\ \A i \in 1..Len(stack') : \/ stack'[i] = f
                                   \/ stack'[i].at = "callback"
                                   \/ \E j \in 1..Len(stack) : stack'[i] = stack[j]
  BY <1>1, <1>2, CallDoes
<1>4. QED
  BY <1>1, <1>2, <1>3

LEMMA RebindDoes ==
  ASSUME Stacked, TypeOK, Rebind
  PROVE  /\ Stacked' /\ Steady /\ state' = "reconnecting"
         /\ Holds("start")' => Holds("start")
         /\ Once("start") => Once("start")'
         /\ ~Holds("rebind") => Once("rebind")'
         /\ \A i \in 1..Len(stack') : \/ stack'[i].at = "callback"
                                      \/ stack'[i].at = "rebind" /\ stack'[i].id = requests'
                                      \/ \E j \in 1..Len(stack) : stack'[i] = stack[j]
<1>1. requests' \in 1..MaxRebinds
  BY BoundsAssumption DEF Rebind, TypeOK
<1>2. PICK f \in Frames : f = [at |-> "rebind", id |-> requests']
  BY <1>1, PlainFrame
<1>3. /\ "reconnecting" # state /\ SetState("reconnecting", <<f>> \o stack)
      /\ state' = "reconnecting" /\ f.at = "rebind" /\ f.id = requests'
  BY <1>2 DEF Rebind, SetState
<1>4. /\ Stacked' /\ Steady
      /\ \A label \in {"start", "rebind"} \ {f.at} :
           (Holds(label)' => Holds(label)) /\ (Once(label) => Once(label)')
      /\ ~Holds(f.at) => Once(f.at)'
      /\ \A i \in 1..Len(stack') : \/ stack'[i] = f
                                   \/ stack'[i].at = "callback"
                                   \/ \E j \in 1..Len(stack) : stack'[i] = stack[j]
  BY <1>3, CallDoes
<1>5. QED
  BY <1>3, <1>4

\* A step that neither calls nor returns, outside of a poll.
Aside == NativeMoves \/ NativeRebinds \/ NativeCloses \/ Tick \/ Close \/ UNCHANGED vars

LEMMA AsideDoes ==
  ASSUME Aside
  PROVE  UNCHANGED stack
  BY DEF Aside, NativeMoves, NativeRebinds, NativeCloses, Tick, Close, vars

\* The actions, each in a disjunct.
LEMMA Steps ==
  ASSUME [Next]_vars
  PROVE  \/ Start \/ StartEnds \/ Rebind \/ RebindEnds \/ Return
         \/ Poll \/ PollClosing \/ PollAuth \/ PollError \/ PollFailed \/ PollStarts
         \/ StartTimesOut \/ PollRebinds \/ RebindTimesOut \/ CloseEnds \/ Aside
  BY DEF Next, PollStep, Aside

LEMMA StackedStep ==
  ASSUME Stacked, TypeOK, [Next]_vars
  PROVE  Stacked'
<1>1. CASE Start
  BY <1>1, StartDoes
<1>2. CASE Rebind
  BY <1>2, RebindDoes
<1>3. CASE StartEnds \/ RebindEnds \/ Return
  BY <1>3, ReturnDoes DEF StartEnds, RebindEnds, Return
<1>4. CASE Aside
  BY <1>4, AsideDoes, SameDoes
<1>5. CASE \/ Poll \/ PollClosing \/ PollAuth \/ PollError \/ PollFailed \/ PollStarts
           \/ StartTimesOut \/ PollRebinds \/ RebindTimesOut \/ CloseEnds
  <2>1. NoCalls'
    BY <1>5, PollDoes, PollClosingDoes, PollAuthDoes, PollErrorDoes, PollFailedDoes,
       PollStartsDoes, StartTimesOutDoes, PollRebindsDoes, RebindTimesOutDoes, CloseEndsDoes
  <2>2. QED
    BY <2>1 DEF NoCalls, Stacked
<1>6. QED
  BY <1>1, <1>2, <1>3, <1>4, <1>5, Steps

LEMMA TimingPolls ==
  ASSUME Stacked, TimingOut
  PROVE  Polling /\ Base.at = "rebinds"
<1>1. Len(stack) \in Nat /\ Len(stack) - 1 \in 1..Len(stack)
      /\ stack[Len(stack) - 1].at = "timedOut" /\ stack # <<>>
  BY EmptySeq DEF Stacked, TimingOut
<1>2. Len(stack) - 1 # Len(stack)
  BY <1>1
<1>3. Base.at = "rebinds"
  BY <1>1, <1>2 DEF Stacked, Shape, PollLabels
<1>4. QED
  BY <1>1, <1>3 DEF Polling, PollLabels

-----------------------------------------------------------------------------
(* The types *)

Booleans == /\ timer \in BOOLEAN /\ due \in BOOLEAN
            /\ started \in BOOLEAN /\ stopping \in BOOLEAN /\ closed \in BOOLEAN
            /\ alive \in BOOLEAN /\ startResult \in BOOLEAN /\ closing \in BOOLEAN

Times == /\ now \in 0..MaxNow /\ requestedAt \in 0..MaxNow
         /\ startDeadline \in (0..MaxNow + Timeout) \cup {Unset}
         /\ remaining \in (0..Timeout) \cup {Unset}
         /\ rebindDeadline \in 0..MaxNow + Timeout /\ rebindNotBefore \in 0..MaxNow + Settle

Names == /\ native \in NativeStates /\ url \in URLs
         /\ state \in NativeStates \cup {"closed"} /\ authURL \in URLs
         /\ reported \in {"none", "native", "timedOut", "rebind"}
         /\ startP \in Fates /\ closeP \in Fates

Numbers == /\ requests \in 0..MaxRebinds /\ handled \in 0..requests
           /\ rebindResult \in 0..MaxRebinds /\ rebindP \in [1..MaxRebinds -> Fates]
           /\ late \subseteq 0..MaxRebinds

LEMMA TypeParts ==
  ASSUME stack \in Seq(Frames)
  PROVE  TypeOK <=> Booleans /\ Times /\ Names /\ Numbers
<1>1. \A i \in DOMAIN stack : stack[i].at \in PollLabels \cup {"callback", "start", "rebind"}
  <2>1. \A i \in DOMAIN stack : stack[i] \in Frames
    OBVIOUS
  <2>2. QED
    BY <2>1, FramesAre
<1>2. \A i \in DOMAIN stack : stack[i].at \in {"callback", "start", "rebind", "auth", "error",
                "failed", "starts", "timedOut", "rebinds", "rebindTimedOut", "closed"}
  BY <1>1 DEF PollLabels
<1>3. TypeOK => Booleans /\ Times /\ Names /\ Numbers
  BY DEF TypeOK, Booleans, Times, Names, Numbers
<1>4. Booleans /\ Times /\ Names /\ Numbers => TypeOK
  BY <1>2, Zenon DEF TypeOK, Booleans, Times, Names, Numbers
<1>5. QED
  BY <1>3, <1>4

LEMMA BooleansStep ==
  ASSUME Booleans, [Next]_vars
  PROVE  Booleans'
<1>1. CASE \/ Start \/ StartEnds \/ Rebind \/ RebindEnds \/ Return
  BY <1>1, Zenon DEF Start, StartEnds, Rebind, RebindEnds, Return, Booleans,
     vars, clock, manager, face, startVars, rebindVars, closeVars, count
<1>2. CASE Poll \/ PollClosing \/ PollAuth
  BY <1>2, Zenon DEF Poll, PollBegins, PollClosing, PollAuth, Booleans,
     clock, manager, face, startVars, rebindVars, closeVars, count
<1>3. CASE PollError \/ PollFailed
  BY <1>3, Zenon DEF PollError, PollFailed, RejectAll, Booleans,
     clock, manager, face, startVars, rebindVars, closeVars, count
<1>4. CASE PollStarts
  BY <1>4, Zenon DEF PollStarts, Booleans,
     clock, manager, face, startVars, rebindVars, closeVars, count
<1>5. CASE StartTimesOut \/ PollRebinds \/ RebindTimesOut \/ CloseEnds
  BY <1>5, Zenon DEF StartTimesOut, PollRebinds, RebindTimesOut, CloseEnds, Booleans,
     clock, manager, face, startVars, rebindVars, closeVars, count
<1>6. CASE Aside
  BY <1>6, Zenon DEF Aside, NativeMoves, NativeRebinds, NativeCloses, Tick, Close, RejectAll,
     TimerRuns, Booleans, vars, clock, manager, face, startVars, rebindVars, closeVars, count
<1>7. QED
  BY <1>1, <1>2, <1>3, <1>4, <1>5, <1>6, Steps

LEMMA NumbersAre ==
  /\ Timeout \in Nat /\ Timeout > 0 /\ Settle \in Nat /\ Settle > 0
  /\ MaxNow \in Nat /\ MaxRebinds \in Nat /\ Unset = MaxNow + Timeout + 1 /\ Unset \in Nat
  /\ Unset \notin 0..MaxNow + Timeout /\ Unset \notin 0..Timeout
  BY ClientAssumption, BoundsAssumption DEF Unset

\* What is left of start()'s time is never more than all of it.
LEMMA DeadlineDoes ==
  ASSUME Times, Starts, Going("starts"), Base \in Polls, startResult
  PROVE  /\ Frame.now \in 0..MaxNow
         /\ Deadline \in (0..MaxNow + Timeout) \cup {Unset}
         /\ Remaining \in (0..Timeout) \cup {Unset}
         /\ Deadline # Unset => Deadline <= Frame.now + Timeout
         /\ (Deadline = Unset) <=> (Frame.seen = "user")
         /\ (Deadline = Unset) <=> (Remaining # Unset)
<1>1. Frame.now \in 0..MaxNow /\ Frame = Base /\ Watching
  BY DEF Going, Polls, Watching
<1>2. /\ startDeadline \in (0..MaxNow + Timeout) \cup {Unset}
      /\ remaining \in (0..Timeout) \cup {Unset}
      /\ startDeadline # Unset => startDeadline <= Timeout + Frame.now
      /\ startDeadline = Unset <=> remaining # Unset
  BY <1>1 DEF Times, Starts, Resting, Within
<1>3. CASE WaitsForUser /\ startDeadline # Unset
  <2>1. Deadline = Unset
        /\ Remaining = IF startDeadline > Frame.now THEN startDeadline - Frame.now ELSE 0
    BY <1>3 DEF Deadline, Remaining
  <2>2. Remaining \in 0..Timeout
    BY <1>1, <1>2, <1>3, <2>1, NumbersAre
  <2>3. QED
    BY <1>1, <1>3, <2>1, <2>2, NumbersAre DEF WaitsForUser
<1>4. CASE WaitsForUser /\ startDeadline = Unset
  <2>1. Deadline = Unset /\ Remaining = remaining
    BY <1>4 DEF Deadline, Remaining
  <2>2. QED
    BY <1>1, <1>2, <1>4, <2>1 DEF WaitsForUser
<1>5. CASE ~WaitsForUser /\ startDeadline = Unset
  <2>1. Deadline = Frame.now + remaining /\ Remaining = Unset /\ remaining \in 0..Timeout
    BY <1>2, <1>5 DEF Deadline, Remaining, Resumed
  <2>2. Deadline \in 0..MaxNow + Timeout /\ Deadline <= Frame.now + Timeout
    BY <1>1, <2>1, NumbersAre
  <2>3. QED
    BY <1>1, <1>5, <2>1, <2>2, NumbersAre DEF WaitsForUser
<1>6. CASE ~WaitsForUser /\ startDeadline # Unset
  <2>1. Deadline = startDeadline /\ Remaining = remaining
    BY <1>6 DEF Deadline, Remaining
  <2>2. QED
    BY <1>1, <1>2, <1>6, <2>1, NumbersAre DEF WaitsForUser
<1>7. QED
  BY <1>3, <1>4, <1>5, <1>6

LEMMA TimesStep ==
  ASSUME Stacked, Times, Starts, [Next]_vars
  PROVE  Times'
<1>0. Unset \in {Unset}
  OBVIOUS
<1>1. CASE \/ Start \/ Return \/ Poll \/ PollClosing \/ PollAuth \/ PollError \/ PollRebinds
           \/ RebindTimesOut \/ CloseEnds \/ NativeMoves \/ NativeRebinds \/ NativeCloses
           \/ UNCHANGED vars
  BY <1>1, Zenon DEF Start, Return, Poll, PollBegins, PollClosing, PollAuth, PollError,
     PollRebinds, RebindTimesOut, CloseEnds, NativeMoves, NativeRebinds, NativeCloses, Times,
     vars, clock, manager, face, startVars, rebindVars, closeVars, count
<1>2. CASE PollFailed \/ StartTimesOut \/ Close
  BY <1>2, Zenon DEF PollFailed, StartTimesOut, Close, RejectAll, Times,
     clock, manager, face, startVars, rebindVars, closeVars, count
<1>3. CASE StartEnds
  BY <1>3, NumbersAre DEF StartEnds, Times, clock, manager, face, rebindVars
<1>4. CASE Rebind
  BY <1>4 DEF Rebind, Times, clock, startVars, rebindVars
<1>5. CASE RebindEnds
  BY <1>5, NumbersAre DEF RebindEnds, Times, NotBefore, clock, manager, startVars
<1>6. CASE Tick
  BY <1>6, NumbersAre DEF Tick, Times, manager, startVars, rebindVars
<1>7. CASE PollStarts
  <2>1. Going("starts") /\ Base \in Polls
    BY <1>7, PollStartsDoes
  <2>2. CASE startResult
    BY <1>7, <2>1, <2>2, DeadlineDoes DEF PollStarts, Times, clock, manager, rebindVars
  <2>3. CASE ~startResult
    <3>1. startDeadline' = startDeadline /\ remaining' = remaining
      BY <1>7, <2>3 DEF PollStarts, Deadline, Remaining
    <3>2. QED
      BY <1>7, <3>1 DEF PollStarts, Times, clock, manager, rebindVars
  <2>4. QED
    BY <2>2, <2>3
<1>8. QED
  BY <1>1, <1>2, <1>3, <1>4, <1>5, <1>6, <1>7, Steps DEF Aside

LEMMA NamesStep ==
  ASSUME Stacked, Booleans, Times, Names, Numbers, [Next]_vars
  PROVE  Names'
<1>0. TypeOK
  BY TypeParts DEF Stacked
<1>1. CASE Start
  BY <1>1 DEF Start, SetState, Names, NativeStates, clock, startVars, closeVars
<1>2. CASE Rebind
  BY <1>2 DEF Rebind, SetState, Names, NativeStates, clock, startVars, closeVars
<1>3. CASE StartEnds \/ RebindEnds \/ Return \/ PollAuth
  BY <1>3 DEF StartEnds, RebindEnds, Return, PollAuth, Names, Fates, manager, face, startVars, closeVars
<1>4. CASE Poll
  BY <1>0, <1>4, PollDoes DEF Poll, SetState, Names, manager, startVars, closeVars
<1>5. CASE PollClosing
  BY <1>5, PollClosingDoes DEF PollClosing, SetState, Names, manager, startVars
<1>6. CASE PollFailed \/ Close
  BY <1>6 DEF PollFailed, Close, RejectAll, Settled, Names, Fates, manager, face, closeVars
<1>7. CASE PollError
  BY <1>7, PollErrorDoes DEF PollError, Names, manager, startVars, closeVars
<1>8. CASE PollStarts
  <2>1. reported' \in {reported, "timedOut"}
    BY <1>8, PollStartsDoes
  <2>2. QED
    BY <1>8, <2>1 DEF PollStarts, Settled, Names, Fates, manager, closeVars
<1>9. CASE PollRebinds
  <2>1. reported' \in {reported, "rebind"}
    BY <1>0, <1>9, PollRebindsDoes
  <2>2. QED
    BY <1>9, <2>1 DEF PollRebinds, Names, manager, startVars, closeVars
<1>10. CASE StartTimesOut \/ RebindTimesOut \/ CloseEnds
  BY <1>10 DEF StartTimesOut, RebindTimesOut, CloseEnds, Settled, Names, Fates, manager, face,
     startVars, closeVars
<1>11. CASE NativeMoves \/ NativeRebinds
  BY <1>11 DEF NativeMoves, NativeRebinds, Names, NativeStates, URLs, face, startVars, closeVars
<1>12. CASE NativeCloses \/ Tick \/ UNCHANGED vars
  BY <1>12 DEF NativeCloses, Tick, Names, vars, manager, face, startVars, closeVars
<1>13. QED
  BY <1>1, <1>2, <1>3, <1>4, <1>5, <1>6, <1>7, <1>8, <1>9, <1>10, <1>11, <1>12, Steps DEF Aside

LEMMA NumbersStep ==
  ASSUME Stacked, Booleans, Times, Names, Numbers, [Next]_vars
  PROVE  Numbers'
<1>0. TypeOK
  BY TypeParts DEF Stacked
<1>1. \A promise \in Fates, fate \in Fates : Settled(promise, fate) \in Fates
  BY DEF Settled
<1>late. late' \subseteq 0..MaxRebinds
  <2>1. late \subseteq 0..MaxRebinds
    BY DEF Numbers
  <2>2. CASE StartEnds
    BY <2>1, <2>2, NumbersAre DEF StartEnds, Make
  <2>3. CASE RebindEnds
    <3>1. stack # <<>> /\ Head(stack) \in Frames /\ Head(stack).at = "rebind"
      BY <2>3, HeadTailProperties DEF RebindEnds, At, Stacked
    <3>2. Head(stack).id \in 0..MaxRebinds
      BY <3>1, FramesAre, NumbersAre DEF Numbered
    <3>3. late' \subseteq late \cup {Head(stack).id}
      BY <2>3 DEF RebindEnds, Make
    <3>4. QED
      BY <2>1, <3>2, <3>3
  <2>4. CASE ~StartEnds /\ ~RebindEnds
    <3>1. UNCHANGED late
      BY <2>4, Zenon DEF Next, PollStep, Start, Rebind, Return, Poll, PollClosing, PollAuth,
         PollError, PollFailed, PollStarts, StartTimesOut, PollRebinds, RebindTimesOut, CloseEnds,
         Close, NativeMoves, NativeRebinds, NativeCloses, Tick, vars, closeVars
    <3>2. QED
      BY <2>1, <3>1
  <2>5. QED
    BY <2>2, <2>3, <2>4
<1>2. CASE \/ Start \/ StartEnds \/ Return \/ Poll \/ PollClosing \/ PollAuth \/ PollError
           \/ PollStarts \/ StartTimesOut \/ CloseEnds \/ NativeMoves \/ NativeCloses \/ Tick
           \/ UNCHANGED vars
  BY <1>late, <1>2, Zenon DEF Start, StartEnds, Return, Poll, PollClosing, PollAuth, PollError, PollStarts,
     StartTimesOut, CloseEnds, NativeMoves, NativeCloses, Tick, Numbers,
     vars, clock, manager, face, startVars, rebindVars, closeVars, count
<1>3. CASE Rebind
  BY <1>late, <1>3, NumbersAre DEF Rebind, Numbers, rebindVars
<1>4. CASE RebindEnds
  <2>1. stack # <<>> /\ Head(stack) \in Frames /\ Head(stack).at = "rebind"
    BY <1>4, HeadTailProperties DEF RebindEnds, At, Stacked
  <2>2. Head(stack).id \in 1..MaxRebinds
    BY <2>1, FramesAre DEF Numbered
  <2>3. rebindResult' \in 1..MaxRebinds
        /\ rebindP' = [rebindP EXCEPT ![rebindResult'] = "pending"]
        /\ UNCHANGED <<requests, handled>>
    BY <1>4, <2>2 DEF RebindEnds, manager
  <2>4. "pending" \in Fates
    BY DEF Fates
  <2>5. rebindP' \in [1..MaxRebinds -> Fates]
    BY <2>3, <2>4 DEF Numbers
  <2>6. QED
    BY <1>late, <2>3, <2>5, NumbersAre DEF Numbers
<1>5. CASE PollFailed \/ Close
  <2>1. PICK fate \in Fates : RejectAll(fate)
    BY <1>5 DEF PollFailed, Close, Fates
  <2>2. rebindP' \in [1..MaxRebinds -> Fates] /\ rebindResult' = 0
    BY <1>1, <2>1 DEF RejectAll, Numbers
  <2>3. UNCHANGED <<requests, handled>>
    BY <1>5 DEF PollFailed, Close, manager
  <2>4. QED
    BY <1>late, <2>2, <2>3, NumbersAre DEF Numbers
<1>6. CASE PollRebinds
  <2>1. UNCHANGED <<requests, handled>> /\ rebindResult' \in {rebindResult, 0}
    BY <1>6 DEF PollRebinds, manager
  <2>2. rebindP' \in [1..MaxRebinds -> Fates]
    <3>1. \/ rebindP' = rebindP
          \/ /\ rebindResult # 0
             /\ rebindP' = [rebindP EXCEPT ![rebindResult] = Settled(@, "resolved")]
      BY <1>6 DEF PollRebinds
    <3>2. "resolved" \in Fates
      BY DEF Fates
    <3>3. QED
      BY <1>1, <3>1, <3>2, NumbersAre DEF Numbers
  <2>3. QED
    BY <1>late, <2>1, <2>2, NumbersAre DEF Numbers
<1>7. CASE RebindTimesOut
  <2>1. "timedOut" \in Fates
    BY DEF Fates
  <2>2. rebindP' = [rebindP EXCEPT ![Frame.id] = Settled(@, "timedOut")]
        /\ rebindResult' = 0 /\ UNCHANGED <<requests, handled>>
    BY <1>7 DEF RebindTimesOut, manager
  <2>3. rebindP' \in [1..MaxRebinds -> Fates]
    BY <1>1, <2>1, <2>2 DEF Numbers
  <2>4. QED
    BY <1>late, <2>2, <2>3, NumbersAre DEF Numbers
<1>8. CASE NativeRebinds
  BY <1>late, <1>8, NumbersAre DEF NativeRebinds, Numbers, rebindVars
<1>9. QED
  BY <1>2, <1>3, <1>4, <1>5, <1>6, <1>7, <1>8, Steps DEF Aside

LEMMA CountsStep ==
  ASSUME Counts, [Next]_vars
  PROVE  Counts'
<1>1. CASE NativeMoves
  BY <1>1 DEF NativeMoves, Counts
<1>2. CASE Tick
  BY <1>2 DEF Tick, Counts
<1>3. CASE ~NativeMoves /\ ~Tick
  <2>1. UNCHANGED count
    BY <1>3, Zenon DEF Next, PollStep, Start, StartEnds, Rebind, RebindEnds, Return, Poll,
       PollClosing, PollAuth, PollError, PollFailed, PollStarts, StartTimesOut, PollRebinds,
       RebindTimesOut, CloseEnds, NativeRebinds, NativeCloses, Close, vars
  <2>2. QED
    BY <2>1 DEF Counts, count
<1>4. QED
  BY <1>1, <1>2, <1>3

-----------------------------------------------------------------------------
(* The calls *)

\* What the calls and the polls of a step leave of the calls on the stack.
Quiet == /\ NoNewCalls
         /\ \A i \in 1..Len(stack') : \/ stack'[i].at # "rebind"
                                      \/ \E j \in 1..Len(stack) : stack'[i] = stack[j]

LEMMA QuietSteps ==
  ASSUME Stacked, TypeOK, [Next]_vars, ~Start, ~Rebind
  PROVE  Quiet
<1>1. CASE StartEnds \/ RebindEnds \/ Return
  BY <1>1, ReturnDoes DEF StartEnds, RebindEnds, Return, Quiet, Inherits
<1>2. CASE Aside
  BY <1>2, AsideDoes, SameDoes DEF Quiet, Inherits
<1>3. CASE \/ Poll \/ PollClosing \/ PollAuth \/ PollError \/ PollFailed \/ PollStarts
           \/ StartTimesOut \/ PollRebinds \/ RebindTimesOut \/ CloseEnds
  <2>1. NoCalls'
    BY <1>3, PollDoes, PollClosingDoes, PollAuthDoes, PollErrorDoes, PollFailedDoes,
       PollStartsDoes, StartTimesOutDoes, PollRebindsDoes, RebindTimesOutDoes, CloseEndsDoes
  <2>2. QED
    BY <2>1 DEF NoCalls, Quiet, NoNewCalls
<1>4. QED
  BY <1>1, <1>2, <1>3, Steps

\* A poll's step leaves no call on the stack.
PollSteps == \/ Poll \/ PollClosing \/ PollAuth \/ PollError \/ PollFailed \/ PollStarts
             \/ StartTimesOut \/ PollRebinds \/ RebindTimesOut \/ CloseEnds

LEMMA PollQuiet ==
  ASSUME Stacked, TypeOK, PollSteps
  PROVE  ~Holds("start")' /\ ~Holds("rebind")'
<1>1. NoCalls'
  BY PollDoes, PollClosingDoes, PollAuthDoes, PollErrorDoes, PollFailedDoes,
     PollStartsDoes, StartTimesOutDoes, PollRebindsDoes, RebindTimesOutDoes, CloseEndsDoes
     DEF PollSteps
<1>2. QED
  BY <1>1 DEF NoCalls

LEMMA CallsStep ==
  ASSUME Stacked, TypeOK, Calls, Unstarted, Closing, Starts, [Next]_vars
  PROVE  Calls'
<1>1. CASE Start
  <2>1. /\ ~started /\ alive /\ startP = "none" /\ ~Polling /\ started' /\ alive' = alive
        /\ startP' = startP /\ ~Holds("start") /\ ~Holds("rebind") /\ requests' = requests
    BY <1>1 DEF Start, Unstarted, Closing, Calls, closeVars, startVars
  <2>2. /\ Steady /\ ~Holds("rebind")' /\ Once("rebind")' /\ Once("start")'
        /\ \A i \in 1..Len(stack') : \/ stack'[i].at \in {"start", "callback"}
                                     \/ \E j \in 1..Len(stack) : stack'[i] = stack[j]
    BY <1>1, <2>1, StartDoes DEF Calls
  <2>3. Latest'
    BY <2>1, <2>2 DEF Calls, Latest
  <2>4. QED
    BY <2>1, <2>2, <2>3 DEF Calls, Steady
<1>2. CASE Rebind
  <2>1. /\ alive /\ alive' = alive /\ rebindResult = 0 /\ rebindResult' = rebindResult
        /\ state = "connected" /\ ~Holds("rebind")
        /\ UNCHANGED <<started, startP>>
    BY <1>2 DEF Rebind, Reuses, Calls, closeVars, startVars, rebindVars
  <2>2. /\ Steady /\ (Holds("start")' => Holds("start")) /\ Once("rebind")' /\ Once("start")'
        /\ state' = "reconnecting"
        /\ \A i \in 1..Len(stack') : \/ stack'[i].at = "callback"
                                     \/ stack'[i].at = "rebind" /\ stack'[i].id = requests'
                                     \/ \E j \in 1..Len(stack) : stack'[i] = stack[j]
    BY <1>2, <2>1, RebindDoes DEF Calls
  <2>3. Latest'
    <3>1. \A j \in 1..Len(stack) : stack[j].at # "rebind"
      BY <2>1 DEF Holds
    <3>2. QED
      BY <2>2, <3>1 DEF Latest
  <2>4. QED
    BY <2>1, <2>2, <2>3 DEF Calls, Steady
<1>3. ASSUME ~Start, ~Rebind PROVE Calls'
  <2>1. Quiet
    BY <1>3, QuietSteps
  <2>2. Once("start")' /\ Once("rebind")' /\ (Holds("start")' => Holds("start"))
        /\ (Holds("rebind")' => Holds("rebind"))
    BY <2>1 DEF Quiet, NoNewCalls, Calls
  <2>3. CASE PollSteps
    <3>1. ~Holds("start")' /\ ~Holds("rebind")'
      BY <2>3, PollQuiet
    <3>2. Latest'
      BY <3>1 DEF Latest, Holds
    <3>3. QED
      BY <2>2, <3>1, <3>2 DEF Calls
  <2>4. CASE StartEnds \/ RebindEnds \/ Return
    <3>1. /\ UNCHANGED <<requests, started, alive, state>> /\ Steady
          /\ StartEnds => ~Holds("start")' /\ rebindResult' = rebindResult
          /\ RebindEnds => ~Holds("rebind")' /\ startP' = startP
          /\ Return => startP' = startP /\ rebindResult' = rebindResult
      BY <2>4, ReturnDoes DEF StartEnds, RebindEnds, Return, manager, face, closeVars, startVars,
         rebindVars, Calls
    <3>2. Latest'
      BY <2>1, <3>1 DEF Latest, Quiet, Calls
    <3>3. QED
      BY <2>2, <2>4, <3>1, <3>2 DEF Calls, Steady
  <2>5. CASE Aside
    <3>1. /\ UNCHANGED <<stack, requests, started, alive, state>>
          /\ startP = "none" => startP' = "none"
          /\ rebindResult = 0 => rebindResult' = 0
      BY <2>5 DEF Aside, NativeMoves, NativeRebinds, NativeCloses, Tick, Close, RejectAll, Settled,
         vars, manager, face, closeVars, startVars, rebindVars
    <3>2. Latest' /\ Steady
      BY <3>1, SameDoes DEF Latest, Calls
    <3>3. QED
      BY <2>2, <3>1, <3>2 DEF Calls, Steady
  <2>6. QED
    BY <1>3, <2>3, <2>4, <2>5, Steps DEF PollSteps
<1>4. QED
  BY <1>1, <1>2, <1>3

-----------------------------------------------------------------------------
(* Before start(), and while the tailnet closes *)

\* The facts a call on the stack, or a poll's frame, brings.
LEMMA Running ==
  ASSUME IInv
  PROVE  /\ Stacked /\ TypeOK /\ Booleans /\ Times /\ Names /\ Numbers
         /\ Polling /\ Base.at # "closed" => started /\ alive
         /\ Holds("start") \/ Holds("rebind") => started /\ alive
         /\ startResult => started /\ startP = "pending"
         /\ alive => (closing <=> closeP # "none")
<1>1. Stacked /\ TypeOK /\ Booleans /\ Times /\ Names /\ Numbers
  BY TypeParts DEF IInv, Stacked
<1>2. Polling /\ Base.at # "closed" => started /\ alive
  BY DEF IInv, Unstarted, Closing
<1>3. Holds("start") \/ Holds("rebind") => started /\ alive
  BY DEF IInv, Calls, Unstarted
<1>4. startResult => started /\ startP = "pending"
  BY DEF IInv, Starts, Pending, Unstarted
<1>5. QED
  BY <1>1, <1>2, <1>3, <1>4 DEF IInv, Closing

LEMMA UnstartedStep ==
  ASSUME IInv, [Next]_vars
  PROVE  Unstarted'
<1>0. Unstarted /\ Closing
  BY DEF IInv
<1>1. CASE Start
  BY <1>0, <1>1 DEF Start, Unstarted, startVars, count
<1>2. CASE Rebind
  <2>1. started /\ started' /\ UNCHANGED <<startP, spent, waits, native>>
    BY <1>0, <1>2 DEF Rebind, Unstarted, startVars, count
  <2>2. QED
    BY <1>0, <2>1 DEF Unstarted
<1>3. CASE StartEnds \/ RebindEnds
  <2>1. Holds("start") \/ Holds("rebind")
    BY <1>3, Running, ReturnDoes DEF StartEnds, RebindEnds
  <2>2. started /\ started' /\ startP' \in {startP, "pending"} /\ UNCHANGED <<spent, waits, native>>
    BY <1>3, <2>1, Running DEF StartEnds, RebindEnds, manager, startVars, count
  <2>3. QED
    BY <1>0, <2>2 DEF Unstarted
<1>4. CASE Return
  <2>1. UNCHANGED <<started, startP, native, requests, state, timer, closeP, spent, waits>>
        /\ Steady
    BY <1>4, Running, ReturnDoes DEF Return, manager, face, startVars, closeVars, count
  <2>2. QED
    BY <1>0, <2>1 DEF Unstarted, Steady
<1>5. CASE Poll
  <2>1. started
    BY <1>0, <1>5 DEF Poll, PollBegins, Unstarted, Closing
  <2>2. UNCHANGED <<started, startP, native, spent, waits>>
    BY <1>5 DEF Poll, manager, startVars, count
  <2>3. QED
    BY <1>0, <2>1, <2>2 DEF Unstarted
<1>6. CASE PollClosing
  <2>1. UNCHANGED <<started, startP, native, requests, timer, closeP, spent, waits>>
        /\ state' \in {state, "closed"} /\ (Polling' => Base'.at = "closed")
    BY <1>6, PollClosingDoes DEF PollClosing, manager, startVars, count
  <2>2. QED
    BY <1>0, <2>1 DEF Unstarted
<1>7. CASE PollAuth \/ PollError \/ PollFailed \/ PollStarts \/ StartTimesOut \/ PollRebinds
           \/ RebindTimesOut
  <2>1. started
    BY <1>7, Running, PollAuthDoes, PollErrorDoes, PollFailedDoes, PollStartsDoes,
       StartTimesOutDoes, PollRebindsDoes, RebindTimesOutDoes DEF Going
  <2>2. UNCHANGED <<started, native, spent, waits>> /\ (startP' = "none" => startP = "none")
    BY <1>7 DEF PollAuth, PollError, PollFailed, PollStarts, StartTimesOut, PollRebinds,
       RebindTimesOut, RejectAll, Settled, manager, startVars, count
  <2>3. QED
    BY <1>0, <2>1, <2>2 DEF Unstarted
<1>8. CASE CloseEnds
  <2>1. Going("closed") /\ ~Polling'
    BY <1>8, Running, CloseEndsDoes
  <2>2. UNCHANGED <<started, startP, native, requests, state, spent, waits>> /\ ~timer'
    BY <1>8 DEF CloseEnds, manager, face, startVars, count
  <2>3. QED
    BY <1>0, <2>1, <2>2 DEF Unstarted
<1>9. CASE Close
  <2>1. UNCHANGED <<started, native, requests, state, spent, waits>> /\ closeP' = "pending"
        /\ (startP' = "none" <=> startP = "none") /\ Steady
    BY <1>9, Running, SameDoes DEF Close, RejectAll, Settled, face, count
  <2>2. QED
    BY <1>0, <2>1 DEF Unstarted, Steady
<1>10. CASE NativeMoves
  <2>1. started /\ UNCHANGED <<started, startP, spent>> /\ waits \in Nat
        /\ (native' = "user" => waits' = waits + 1)
    BY <1>10 DEF NativeMoves, startVars, IInv, Counts
  <2>2. native' = "user" => waits' > 0
    BY <2>1
  <2>3. QED
    BY <1>0, <2>1, <2>2 DEF Unstarted
<1>11. CASE NativeRebinds
  <2>1. requests # 0 /\ requests' = requests
    BY <1>11, Running DEF NativeRebinds, Numbers
  <2>2. started /\ UNCHANGED <<started, startP, spent>> /\ native' # "user"
    BY <1>0, <1>11, <2>1 DEF NativeRebinds, Unstarted, startVars, count
  <2>3. QED
    BY <1>0, <2>2 DEF Unstarted
<1>12. CASE NativeCloses \/ UNCHANGED vars
  <2>1. UNCHANGED <<started, startP, native, requests, state, timer, closeP, spent, waits>>
        /\ Steady
    BY <1>12, Running, SameDoes DEF NativeCloses, vars, manager, face, startVars, closeVars, count
  <2>2. QED
    BY <1>0, <2>1 DEF Unstarted, Steady
<1>13. CASE Tick
  <2>1. UNCHANGED <<started, startP, native, requests, state, timer, closeP, waits>>
        /\ Steady /\ (startP # "pending" => spent' = spent)
    BY <1>13, Running, SameDoes DEF Tick, manager, face, startVars, closeVars
  <2>2. QED
    BY <1>0, <2>1 DEF Unstarted, Steady
<1>14. QED
  BY <1>1, <1>2, <1>3, <1>4, <1>5, <1>6, <1>7, <1>8, <1>9, <1>10, <1>11, <1>12, <1>13, Steps
     DEF Aside

LEMMA ClosingStep ==
  ASSUME IInv, [Next]_vars
  PROVE  Closing'
<1>0. Closing /\ Booleans /\ Stacked /\ TypeOK
  BY Running DEF IInv
<1>1. CASE Start \/ Rebind
  <2>1. UNCHANGED <<closeP, stopping, closed, closing, alive, timer>> /\ Steady
    BY <1>0, <1>1, StartDoes, RebindDoes DEF Start, Rebind, closeVars
  <2>2. QED
    BY <1>0, <2>1 DEF Closing, Steady
<1>2. CASE StartEnds \/ RebindEnds \/ Return
  <2>1. UNCHANGED <<closeP, stopping, closed, closing, alive>> /\ Steady /\ (timer => timer')
    BY <1>0, <1>2, ReturnDoes DEF StartEnds, RebindEnds, Return, closeVars, manager
  <2>2. QED
    BY <1>0, <2>1 DEF Closing, Steady
<1>3. CASE Poll
  <2>1. UNCHANGED <<closeP, stopping, closed, closing, alive, timer>> /\ timer /\ alive
        /\ Polling' /\ Base'.at = "auth"
    BY <1>0, <1>3, PollDoes DEF Poll, PollBegins, closeVars, manager
  <2>2. QED
    BY <1>0, <2>1 DEF Closing
<1>4. CASE PollClosing
  <2>1. /\ UNCHANGED <<closeP, stopping, closed, timer>> /\ timer /\ closing
        /\ closed => Polling' /\ Base'.at = "closed" /\ ~alive' /\ ~closing'
        /\ ~closed => ~Polling' /\ UNCHANGED <<alive, closing>>
    BY <1>0, <1>4, PollClosingDoes DEF PollClosing, PollBegins, manager
  <2>2. closeP = "pending"
    BY <1>0, <2>1 DEF Closing
  <2>3. CASE closed
    BY <1>0, <2>1, <2>2, <2>3 DEF Closing
  <2>4. CASE ~closed
    BY <1>0, <2>1, <2>2, <2>4 DEF Closing
  <2>5. QED
    BY <2>3, <2>4
<1>5. CASE PollAuth \/ PollError \/ PollFailed \/ PollStarts \/ StartTimesOut \/ PollRebinds
           \/ RebindTimesOut
  <2>1. UNCHANGED <<closeP, stopping, closed, closing, alive, timer>>
    BY <1>5 DEF PollAuth, PollError, PollFailed, PollStarts, StartTimesOut, PollRebinds,
       RebindTimesOut, closeVars, manager
  <2>2. Polling /\ Base.at # "closed" /\ (Polling' => Base'.at # "closed")
    BY <1>0, <1>5, PollAuthDoes, PollErrorDoes, PollFailedDoes, PollStartsDoes,
       StartTimesOutDoes, PollRebindsDoes, RebindTimesOutDoes DEF Going
  <2>3. QED
    BY <1>0, <2>1, <2>2 DEF Closing
<1>6. CASE CloseEnds
  <2>1. Going("closed") /\ ~Polling'
    BY <1>0, <1>6, CloseEndsDoes
  <2>2. closeP = "pending" /\ ~alive /\ ~closing /\ stopping
    BY <1>0, <2>1 DEF Closing, Going
  <2>3. closeP' = "resolved" /\ UNCHANGED <<stopping, closed, closing, alive>>
    BY <1>6, <2>2 DEF CloseEnds, Settled, manager
  <2>4. QED
    BY <1>0, <2>1, <2>2, <2>3 DEF Closing
<1>7. CASE Close
  <2>1. /\ alive /\ alive' = alive /\ closeP' = "pending" /\ closing' /\ stopping' /\ timer'
        /\ closed' = closed /\ Steady
    BY <1>0, <1>7, SameDoes DEF Close, TimerRuns
  <2>2. QED
    BY <1>0, <2>1 DEF Closing, Steady
<1>8. CASE NativeMoves \/ NativeRebinds \/ Tick \/ UNCHANGED vars
  <2>1. UNCHANGED <<closeP, stopping, closed, closing, alive, timer>> /\ Steady
    BY <1>0, <1>8, SameDoes DEF NativeMoves, NativeRebinds, Tick, vars, closeVars, manager
  <2>2. QED
    BY <1>0, <2>1 DEF Closing, Steady
<1>9. CASE NativeCloses
  <2>1. UNCHANGED <<closeP, stopping, closing, alive, timer>> /\ stopping /\ Steady
    BY <1>0, <1>9, SameDoes DEF NativeCloses, closeVars
  <2>2. QED
    BY <1>0, <2>1 DEF Closing, Steady
<1>10. QED
  BY <1>1, <1>2, <1>3, <1>4, <1>5, <1>6, <1>7, <1>8, <1>9, Steps DEF Aside

-----------------------------------------------------------------------------
(* A rebind in progress *)

LEMMA CommandStep ==
  ASSUME IInv, [Next]_vars
  PROVE  Command'
<1>0. Command /\ now \in Nat /\ requestedAt \in Nat /\ handled \in Nat /\ requests \in Nat
  BY Running, NumbersAre DEF IInv, Rebinds, Times, Numbers
<1>1. CASE Rebind
  BY <1>0, <1>1, NumbersAre DEF Rebind, Command, clock
<1>2. CASE NativeRebinds
  BY <1>0, <1>2 DEF NativeRebinds, Command, clock
<1>3. CASE NativeCloses
  BY <1>0, <1>3 DEF NativeCloses, Command, clock
<1>4. CASE Tick
  <2>1. UNCHANGED <<handled, requests, requestedAt, closed>> /\ now' \in {now, now + 1}
        /\ (handled < requests /\ ~closed => now + 1 < requestedAt + Settle)
    BY <1>4 DEF Tick, manager
  <2>2. QED
    BY <1>0, <2>1, NumbersAre DEF Command
<1>5. CASE ~Rebind /\ ~NativeRebinds /\ ~NativeCloses /\ ~Tick
  <2>1. UNCHANGED <<handled, requests, requestedAt, closed, now>>
    BY <1>5, Zenon DEF Next, PollStep, Start, StartEnds, RebindEnds, Return, Poll,
       PollClosing, PollAuth, PollError, PollFailed, PollStarts, StartTimesOut, PollRebinds,
       RebindTimesOut, CloseEnds, NativeMoves, Close, vars, manager, clock
  <2>2. QED
    BY <1>0, <2>1 DEF Command
<1>6. QED
  BY <1>1, <1>2, <1>3, <1>4, <1>5

LEMMA CurrentStep ==
  ASSUME IInv, [Next]_vars
  PROVE  Current'
<1>0. Current /\ Command /\ Calls
  BY DEF IInv, Rebinds
<1>1. CASE Rebind
  BY <1>1 DEF Rebind, Reuses, Current, rebindVars
<1>2. CASE RebindEnds
  <2>1. PICK i \in 1..Len(stack) : stack[i] = Head(stack)
    BY <1>2, Running, ReturnDoes DEF RebindEnds
  <2>2. Head(stack).id = requests
    BY <1>0, <1>2, <2>1 DEF RebindEnds, At, Calls, Latest
  <2>3. rebindResult' = requests /\ rebindNotBefore' = now + Settle
        /\ UNCHANGED <<requests, requestedAt>>
    BY <1>2, <2>2 DEF RebindEnds, NotBefore, manager
  <2>4. requestedAt + Settle <= now + Settle
    BY <1>0, Running, NumbersAre DEF Command, Times
  <2>5. QED
    BY <2>3, <2>4 DEF Current
<1>3. CASE ~Rebind /\ ~RebindEnds
  <2>1. UNCHANGED <<requests, requestedAt, rebindNotBefore>> /\ rebindResult' \in {0, rebindResult}
    BY <1>3 DEF Next, PollStep, Start, StartEnds, Return, Poll,
       PollClosing, PollAuth, PollError, PollFailed, PollStarts, StartTimesOut, PollRebinds,
       RebindTimesOut, CloseEnds, NativeMoves, NativeRebinds, NativeCloses, Tick, Close, RejectAll,
       vars, manager, rebindVars
  <2>2. QED
    BY <1>0, <2>1 DEF Current
<1>4. QED
  BY <1>1, <1>2, <1>3

LEMMA BelievedStep ==
  ASSUME IInv, [Next]_vars
  PROVE  Believed'
<1>0. Believed /\ Stacked /\ TypeOK
  BY Running DEF IInv, Rebinds
<1>1. CASE Start \/ Rebind
  BY <1>0, <1>1, StartDoes, RebindDoes DEF Believed
<1>2. CASE RebindEnds
  <2>1. Holds("rebind")
    BY <1>0, <1>2, ReturnDoes DEF RebindEnds
  <2>2. state' = "reconnecting"
    BY <1>2, <2>1 DEF RebindEnds, IInv, Calls, face
  <2>3. QED
    BY <2>2 DEF Believed
<1>3. CASE StartEnds \/ Return
  <2>1. UNCHANGED <<state, rebindResult, rebindNotBefore>> /\ Steady
    BY <1>0, <1>3, ReturnDoes DEF StartEnds, Return, face, rebindVars
  <2>2. QED
    BY <1>0, <2>1 DEF Believed, Steady
<1>4. CASE Poll
  <2>1. Polling' /\ Base'.at = "auth" /\ Base'.seen = Seen /\ Base'.now = now /\ state' = Seen
    BY <1>0, <1>4, PollDoes
  <2>2. UNCHANGED <<rebindResult, rebindNotBefore>>
    BY <1>4 DEF Poll, rebindVars
  <2>3. rebindResult # 0 /\ Seen = "connected" => rebindNotBefore <= now
    BY Running, NumbersAre DEF Seen, Disbelieves, Times
  <2>4. QED
    BY <2>1, <2>2, <2>3 DEF Believed
<1>5. CASE PollClosing
  <2>1. /\ UNCHANGED <<rebindResult, rebindNotBefore>> /\ ~Polling
        /\ state' \in {state, "closed"}
    BY <1>0, <1>5, PollClosingDoes DEF PollClosing, rebindVars
  <2>2. QED
    BY <1>0, <2>1 DEF Believed
<1>6. CASE PollAuth \/ PollStarts
  <2>1. /\ UNCHANGED <<state, rebindResult, rebindNotBefore>> /\ Polling /\ Polling'
        /\ Base'.seen = Base.seen /\ Base'.now = Base.now
        /\ Base'.at \in {"starts", "rebinds"} \/ Base.seen = "error"
    BY <1>0, <1>6, PollAuthDoes, PollStartsDoes DEF PollAuth, PollStarts, face, rebindVars, Going
  <2>2. QED
    BY <1>0, <2>1 DEF Believed
<1>7. CASE PollError \/ CloseEnds
  <2>1. /\ UNCHANGED <<state, rebindResult, rebindNotBefore>> /\ Base.at \in {"error", "closed"}
    BY <1>0, <1>7, PollErrorDoes, CloseEndsDoes DEF PollError, CloseEnds, face, rebindVars, Going
  <2>2. QED
    BY <1>0, <2>1 DEF Believed
<1>8. CASE PollFailed \/ RebindTimesOut \/ Close
  <2>1. rebindResult' = 0
    BY <1>8 DEF PollFailed, RebindTimesOut, Close, RejectAll
  <2>2. QED
    BY <2>1 DEF Believed
<1>9. CASE StartTimesOut
  <2>1. UNCHANGED <<state, rebindResult, rebindNotBefore>> /\ Polling /\ Polling' /\ Base' = Base
    BY <1>0, <1>9, StartTimesOutDoes DEF StartTimesOut, face, rebindVars
  <2>2. QED
    BY <1>0, <2>1 DEF Believed
<1>10. CASE PollRebinds
  <2>1. Going("rebinds")
    BY <1>0, <1>10, PollRebindsDoes
  <2>2. UNCHANGED <<state, rebindNotBefore>> /\ rebindResult' \in {0, rebindResult}
        /\ (Rebound => rebindResult' = 0)
    BY <1>10 DEF PollRebinds, Rebound, face
  <2>3. rebindResult # 0 /\ state = "connected" => Rebound
    BY <1>0, <2>1, Running, NumbersAre DEF Believed, Going, Rebound, Times, Polls
  <2>4. QED
    BY <2>2, <2>3 DEF Believed
<1>11. CASE Aside /\ ~Close
  <2>1. UNCHANGED <<state, rebindResult, rebindNotBefore>> /\ Steady
    BY <1>0, <1>11, AsideDoes, SameDoes DEF Aside, NativeMoves, NativeRebinds, NativeCloses,
       Tick, vars, face, rebindVars
  <2>2. QED
    BY <1>0, <2>1 DEF Believed, Steady
<1>12. QED
  BY <1>1, <1>2, <1>3, <1>4, <1>5, <1>6, <1>7, <1>8, <1>9, <1>10, <1>11, Steps

LEMMA TrustedStep ==
  ASSUME IInv, [Next]_vars
  PROVE  Trusted'
<1>0. Trusted /\ Stacked /\ TypeOK /\ Closing
  BY Running DEF IInv, Rebinds
<1>1. CASE Start \/ Rebind \/ StartEnds \/ Return
  <2>1. UNCHANGED <<rebindResult, rebindNotBefore, stopping>> /\ Steady
    BY <1>0, <1>1, StartDoes, RebindDoes, ReturnDoes DEF Start, Rebind, StartEnds, Return,
       manager, rebindVars
  <2>2. QED
    BY <1>0, <2>1 DEF Trusted, Steady
<1>2. CASE RebindEnds
  <2>1. rebindNotBefore' = now + Settle /\ Steady
    BY <1>0, <1>2, ReturnDoes DEF RebindEnds, NotBefore
  <2>2. Polling /\ Base.at \in {"auth", "starts", "rebinds"} => Base.now <= now /\ Base.now \in Nat
    <3>1. Polling => Base \in Frames
      BY <1>0, EmptySeq DEF Polling, Base, Stacked
    <3>2. Polling /\ Base.at \in {"auth", "starts", "rebinds"} => Base \in Polls
      BY <3>1, FramesAre
    <3>3. QED
      BY <3>2, NumbersAre DEF Polls, IInv, Starts, Past
  <2>3. Polling /\ Base.at \in {"auth", "starts", "rebinds"} => ~(rebindNotBefore' <= Base.now)
    BY <2>1, <2>2, Running, NumbersAre DEF Times
  <2>4. QED
    BY <2>1, <2>3 DEF Trusted, Steady
<1>3. CASE Poll
  <2>1. ~stopping /\ stopping' = stopping
    BY <1>0, <1>3 DEF Poll, Closing, manager
  <2>2. QED
    BY <2>1 DEF Trusted
<1>4. CASE PollClosing \/ PollError \/ PollRebinds
  <2>1. Polling' => Base'.at \notin {"auth", "starts", "rebinds"}
    BY <1>0, <1>4, PollClosingDoes, PollErrorDoes, PollRebindsDoes
  <2>2. QED
    BY <2>1 DEF Trusted
<1>5. CASE PollAuth \/ PollStarts
  <2>1. /\ UNCHANGED <<stopping, rebindResult, rebindNotBefore>> /\ Polling /\ Base'.now = Base.now
        /\ Base.at \in {"auth", "starts", "rebinds"}
    BY <1>0, <1>5, PollAuthDoes, PollStartsDoes DEF PollAuth, PollStarts, manager, rebindVars, Going
  <2>2. QED
    BY <1>0, <2>1 DEF Trusted
<1>6. CASE PollFailed \/ RebindTimesOut \/ CloseEnds
  <2>1. ~Polling'
    BY <1>0, <1>6, PollFailedDoes, RebindTimesOutDoes, CloseEndsDoes
  <2>2. QED
    BY <2>1 DEF Trusted
<1>7. CASE Close
  BY <1>7 DEF Close, RejectAll, Trusted
<1>8. CASE StartTimesOut
  <2>1. UNCHANGED <<stopping, rebindResult, rebindNotBefore>> /\ Polling /\ Polling' /\ Base' = Base
    BY <1>0, <1>8, StartTimesOutDoes DEF StartTimesOut, manager, rebindVars
  <2>2. QED
    BY <1>0, <2>1 DEF Trusted
<1>9. CASE Aside /\ ~Close
  <2>1. UNCHANGED <<stopping, rebindResult, rebindNotBefore>> /\ Steady
    BY <1>0, <1>9, AsideDoes, SameDoes DEF Aside, NativeMoves, NativeRebinds, NativeCloses,
       Tick, vars, manager, rebindVars
  <2>2. QED
    BY <1>0, <2>1 DEF Trusted, Steady
<1>10. QED
  BY <1>1, <1>2, <1>3, <1>4, <1>5, <1>6, <1>7, <1>8, <1>9, Steps

LEMMA ExpiringStep ==
  ASSUME IInv, [Next]_vars
  PROVE  Expiring'
<1>0. Expiring /\ Stacked /\ TypeOK
  BY Running DEF IInv, Rebinds
<1>1. CASE Start
  BY <1>0, <1>1, StartDoes DEF Expiring, Steady, Start
<1>2. CASE Rebind
  BY <1>0, <1>2, RebindDoes DEF Expiring, Steady, Rebind
<1>3. CASE RebindEnds
  <2>1. Holds("rebind") /\ Steady
    BY <1>0, <1>3, ReturnDoes DEF RebindEnds
  <2>2. QED
    BY <1>0, <2>1 DEF Expiring, Steady
<1>4. CASE StartEnds \/ Return
  <2>1. UNCHANGED <<state, started, rebindResult>> /\ Steady /\ (Holds("rebind")' => Holds("rebind"))
    BY <1>0, <1>4, ReturnDoes DEF StartEnds, Return, face, manager, rebindVars, NoNewCalls
  <2>2. QED
    BY <1>0, <2>1 DEF Expiring, Steady
<1>5. CASE PollSteps /\ ~PollRebinds
  <2>1. Polling' => Base'.at # "rebindTimedOut"
    BY <1>0, <1>5, PollDoes, PollClosingDoes, PollAuthDoes, PollErrorDoes, PollFailedDoes,
       PollStartsDoes, StartTimesOutDoes, RebindTimesOutDoes, CloseEndsDoes DEF PollSteps
  <2>2. QED
    BY <2>1 DEF Expiring
<1>6. CASE PollRebinds
  <2>1. Going("rebinds") /\ ~Holds("rebind")'
    BY <1>0, <1>6, PollRebindsDoes, PollQuiet DEF PollSteps
  <2>2. started /\ started' = started /\ state' = state /\ rebindResult' \in {0, rebindResult}
    BY <1>6, <2>1, Running DEF PollRebinds, face, manager, Going
  <2>3. Polling' => Base'.id = rebindResult /\ rebindResult # 0 /\ ~Rebound
    BY <1>0, <1>6, PollRebindsDoes
  <2>4. rebindResult # 0 /\ state = "connected" => Rebound
    BY <2>1, Running, NumbersAre DEF IInv, Rebinds, Believed, Going, Rebound, Times, Polls
  <2>5. QED
    BY <2>1, <2>2, <2>3, <2>4 DEF Expiring
<1>7. CASE Aside
  <2>1. UNCHANGED <<state, started>> /\ rebindResult' \in {0, rebindResult} /\ Steady /\ NoNewCalls
    BY <1>0, <1>7, AsideDoes, SameDoes DEF Aside, NativeMoves, NativeRebinds, NativeCloses,
       Tick, Close, RejectAll, vars, face, manager, rebindVars
  <2>2. QED
    BY <1>0, <2>1 DEF Expiring, Steady, NoNewCalls
<1>8. QED
  BY <1>1, <1>2, <1>3, <1>4, <1>5, <1>6, <1>7, Steps DEF PollSteps

\* A rebind resolves only after the manager has taken its command.
LEMMA RebindIsDoneStep ==
  ASSUME IInv, [Next]_vars
  PROVE  RebindIsDone'
<1>0. RebindIsDone /\ Stacked /\ TypeOK /\ Numbers /\ handled \in Nat /\ requests \in Nat
  BY Running DEF IInv, Numbers
<1>1. CASE NativeRebinds
  BY <1>0, <1>1 DEF NativeRebinds, RebindIsDone, rebindVars, Numbers
<1>2. CASE RebindEnds
  BY <1>0, <1>2 DEF RebindEnds, RebindIsDone, manager, Numbers
<1>3. CASE PollFailed \/ Close
  <2>1. PICK fate \in {"failed", "closed"} : RejectAll(fate)
    BY <1>3 DEF PollFailed, Close
  <2>2. \A i \in DOMAIN rebindP' : i \in DOMAIN rebindP
                                   /\ (rebindP'[i] = "resolved" => rebindP[i] = "resolved")
    BY <2>1 DEF RejectAll, Settled
  <2>3. handled' = handled
    BY <1>3 DEF PollFailed, Close, manager
  <2>4. QED
    BY <1>0, <2>2, <2>3 DEF RebindIsDone
<1>4. CASE PollRebinds
  <2>1. Going("rebinds") /\ Base \in Polls
    BY <1>0, <1>4, PollRebindsDoes
  <2>2. handled' = handled
    BY <1>4 DEF PollRebinds, manager
  <2>3. CASE Rebound
    <3>1. Base.now \in Nat /\ Base.now <= now /\ now \in Nat /\ rebindNotBefore \in Nat
          /\ requestedAt \in Nat /\ rebindNotBefore <= Base.now /\ Polling
          /\ Base.at = "rebinds" /\ rebindResult # 0
      BY <2>1, <2>3, Running, NumbersAre DEF Polls, Going, Rebound, Times, IInv, Starts, Past
    <3>2. ~stopping /\ ~closed
      BY <3>1 DEF IInv, Rebinds, Trusted, Closing
    <3>3. rebindResult = requests /\ requestedAt + Settle <= rebindNotBefore
      BY <3>1 DEF IInv, Rebinds, Current
    <3>4. ~(now < requestedAt + Settle)
      BY <3>1, <3>3, NumbersAre
    <3>5. handled >= requests
      BY <1>0, <3>2, <3>4 DEF IInv, Rebinds, Command
    <3>6. rebindP' = [rebindP EXCEPT ![rebindResult] = Settled(@, "resolved")]
      BY <1>4, <2>3 DEF PollRebinds, Rebound
    <3>7. QED
      BY <1>0, <2>2, <3>3, <3>5, <3>6 DEF RebindIsDone, Numbers
  <2>4. CASE ~Rebound
    <3>1. rebindP' = rebindP
      BY <1>4, <2>4 DEF PollRebinds, Rebound
    <3>2. QED
      BY <1>0, <2>2, <3>1 DEF RebindIsDone
  <2>5. QED
    BY <2>3, <2>4
<1>5. CASE RebindTimesOut
  <2>1. rebindP' = [rebindP EXCEPT ![Frame.id] = Settled(@, "timedOut")] /\ handled' = handled
    BY <1>5 DEF RebindTimesOut, manager
  <2>2. QED
    BY <1>0, <2>1 DEF RebindIsDone, Numbers, Settled
<1>6. CASE ~NativeRebinds /\ ~RebindEnds /\ ~PollFailed /\ ~Close /\ ~PollRebinds /\ ~RebindTimesOut
  <2>1. UNCHANGED <<handled, rebindP>>
    BY <1>6, Zenon DEF Next, PollStep, Start, StartEnds, Rebind, Return, Poll,
       PollClosing, PollAuth, PollError, PollStarts, StartTimesOut, CloseEnds, NativeMoves,
       NativeCloses, Tick, vars, manager, rebindVars
  <2>2. QED
    BY <1>0, <2>1 DEF RebindIsDone
<1>7. QED
  BY <1>1, <1>2, <1>3, <1>4, <1>5, <1>6

-----------------------------------------------------------------------------
(* start() and its promise *)

LEMMA StartKept ==
  ASSUME [Next]_vars, ~StartEnds, ~PollFailed, ~Close, ~PollStarts, ~StartTimesOut
  PROVE  UNCHANGED startVars
  BY Zenon DEF Next, PollStep, Start, Rebind, RebindEnds, Return, Poll, PollClosing, PollAuth,
     PollError, PollRebinds, RebindTimesOut, CloseEnds, NativeMoves, NativeRebinds, NativeCloses,
     Tick, vars

LEMMA StartDrops ==
  ASSUME PollFailed \/ Close \/ StartTimesOut
  PROVE  ~startResult' /\ UNCHANGED startDeadline
  BY DEF PollFailed, Close, StartTimesOut, RejectAll

\* A frame of a poll that looks at start() has its time.
LEMMA BaseIs ==
  ASSUME Stacked, Polling
  PROVE  /\ Base \in Frames /\ Base.at \in PollLabels
         /\ Base.at \in {"auth", "error", "starts", "rebinds"} =>
              Base \in Polls /\ Base.now \in Nat /\ Base.seen \in NativeStates
<1>1. Base \in Frames /\ Base.at \in PollLabels
  BY EmptySeq DEF Polling, Base, Stacked
<1>2. QED
  BY <1>1, FramesAre, NumbersAre DEF Polls

LEMMA PendingStep ==
  ASSUME IInv, [Next]_vars
  PROVE  Pending'
<1>0. Pending /\ startResult \in BOOLEAN
  BY Running DEF IInv, Starts, Booleans
<1>1. CASE StartEnds
  BY <1>1 DEF StartEnds, Pending
<1>2. CASE PollFailed \/ Close \/ StartTimesOut
  <2>1. ~startResult'
    BY <1>2, StartDrops
  <2>2. startP' # "pending"
    BY <1>0, <1>2 DEF PollFailed, Close, StartTimesOut, RejectAll, Settled, Pending
  <2>3. QED
    BY <2>1, <2>2 DEF Pending
<1>3. CASE PollStarts
  <2>1. \/ UNCHANGED <<startP, startResult>>
        \/ ~startResult' /\ startP' = Settled(startP, "resolved")
    BY <1>3 DEF PollStarts
  <2>2. QED
    BY <1>0, <2>1 DEF Pending, Settled
<1>4. CASE ~StartEnds /\ ~PollFailed /\ ~Close /\ ~PollStarts /\ ~StartTimesOut
  BY <1>0, <1>4, StartKept DEF Pending, startVars
<1>5. QED
  BY <1>1, <1>2, <1>3, <1>4

\* What start()'s part of a poll does to its deadline.
LEMMA PollStartsKeeps ==
  ASSUME IInv, PollStarts
  PROVE  /\ startDeadline' = Deadline
         /\ startResult' => startResult /\ remaining' = Remaining /\ Frame.seen # "connected"
         /\ startResult => /\ Frame.now \in 0..MaxNow
                           /\ Deadline \in (0..MaxNow + Timeout) \cup {Unset}
                           /\ Remaining \in (0..Timeout) \cup {Unset}
                           /\ Deadline # Unset => Deadline <= Frame.now + Timeout
                           /\ (Deadline = Unset) <=> (Frame.seen = "user")
                           /\ (Deadline = Unset) <=> (Remaining # Unset)
         /\ ~startResult => Deadline = startDeadline
<1>1. Going("starts") /\ Base \in Polls
  BY Running, PollStartsDoes
<1>2. startResult => /\ Frame.now \in 0..MaxNow
                     /\ Deadline \in (0..MaxNow + Timeout) \cup {Unset}
                     /\ Remaining \in (0..Timeout) \cup {Unset}
                     /\ Deadline # Unset => Deadline <= Frame.now + Timeout
                     /\ (Deadline = Unset) <=> (Frame.seen = "user")
                     /\ (Deadline = Unset) <=> (Remaining # Unset)
  <2> SUFFICES ASSUME startResult
               PROVE  /\ Frame.now \in 0..MaxNow
                      /\ Deadline \in (0..MaxNow + Timeout) \cup {Unset}
                      /\ Remaining \in (0..Timeout) \cup {Unset}
                      /\ Deadline # Unset => Deadline <= Frame.now + Timeout
                      /\ (Deadline = Unset) <=> (Frame.seen = "user")
                      /\ (Deadline = Unset) <=> (Remaining # Unset)
    OBVIOUS
  <2>1. Times /\ Starts
    BY Running DEF IInv
  <2>2. QED
    BY <1>1, <2>1, DeadlineDoes
<1>3. /\ startDeadline' = Deadline
      /\ startResult' => startResult /\ remaining' = Remaining /\ Frame.seen # "connected"
  BY DEF PollStarts
<1>4. ~startResult => Deadline = startDeadline
  BY DEF Deadline
<1>5. QED
  BY <1>2, <1>3, <1>4

LEMMA RestingStep ==
  ASSUME IInv, [Next]_vars
  PROVE  Resting'
<1>0. Resting
  BY DEF IInv, Starts
<1>1. CASE StartEnds
  <2>1. startDeadline' = now + Timeout /\ remaining' = Unset
    BY <1>1 DEF StartEnds
  <2>2. now + Timeout # Unset
    BY Running, NumbersAre DEF Times
  <2>3. Unset' = Unset
    BY DEF Unset
  <2>4. QED
    BY <2>1, <2>2, <2>3 DEF Resting
<1>2. CASE PollFailed \/ Close \/ StartTimesOut
  BY <1>2, StartDrops DEF Resting
<1>3. CASE PollStarts
  BY <1>3, PollStartsKeeps DEF Resting, Unset
<1>4. CASE ~StartEnds /\ ~PollFailed /\ ~Close /\ ~PollStarts /\ ~StartTimesOut
  BY <1>0, <1>4, StartKept DEF Resting, startVars, Unset
<1>5. QED
  BY <1>1, <1>2, <1>3, <1>4

LEMMA DroppedStep ==
  ASSUME IInv, [Next]_vars
  PROVE  Dropped'
<1>0. Dropped /\ Stacked /\ TypeOK /\ Closing
  BY Running DEF IInv, Starts
<1>1. CASE Start \/ Rebind \/ RebindEnds \/ Return
  <2>1. UNCHANGED <<startResult, closeP>> /\ Steady
    BY <1>0, <1>1, StartDoes, RebindDoes, ReturnDoes DEF Start, Rebind, RebindEnds, Return,
       startVars, closeVars
  <2>2. QED
    BY <1>0, <2>1 DEF Dropped, Steady
<1>2. CASE StartEnds
  <2>1. Holds("start") /\ Steady
    BY <1>0, <1>2, ReturnDoes DEF StartEnds
  <2>2. ~Polling'
    BY <2>1 DEF IInv, Calls, Steady
  <2>3. QED
    BY <2>2 DEF Dropped
<1>3. CASE Poll
  <2>1. closeP = "none" /\ closeP' = closeP
    BY <1>0, <1>3 DEF Poll, Closing, closeVars
  <2>2. QED
    BY <2>1 DEF Dropped
<1>4. CASE PollClosing \/ CloseEnds
  <2>1. Polling' => Base'.at = "closed"
    BY <1>0, <1>4, PollClosingDoes, CloseEndsDoes
  <2>2. QED
    BY <2>1 DEF Dropped
<1>5. CASE PollAuth \/ PollError \/ PollStarts \/ PollRebinds \/ RebindTimesOut
  <2>1. Polling /\ Base.at # "closed"
    BY <1>0, <1>5, PollAuthDoes, PollErrorDoes, PollStartsDoes, PollRebindsDoes,
       RebindTimesOutDoes DEF Going
  <2>2. (startResult' => startResult) /\ closeP' = closeP
    BY <1>5 DEF PollAuth, PollError, PollStarts, PollRebinds, RebindTimesOut, startVars, closeVars
  <2>3. QED
    BY <1>0, <2>1, <2>2 DEF Dropped
<1>6. CASE PollFailed \/ Close \/ StartTimesOut
  BY <1>6, StartDrops DEF Dropped
<1>7. CASE Aside /\ ~Close
  <2>1. UNCHANGED <<startResult, closeP>> /\ Steady
    BY <1>0, <1>7, AsideDoes, SameDoes DEF Aside, NativeMoves, NativeRebinds, NativeCloses,
       Tick, vars, startVars, closeVars
  <2>2. QED
    BY <1>0, <2>1 DEF Dropped, Steady
<1>8. QED
  BY <1>1, <1>2, <1>3, <1>4, <1>5, <1>6, <1>7, Steps

\* What a step makes of the poll that runs: the next frame of the same poll, or none.
LEMMA PollMoves ==
  ASSUME Stacked, TypeOK, [Next]_vars, ~Poll
  PROVE  /\ Polling' /\ Base'.at \in {"auth", "error", "starts", "rebinds"} =>
              /\ Polling /\ Base.at \in {"auth", "error", "starts", "rebinds"}
              /\ Base'.now = Base.now /\ Base'.seen = Base.seen
         /\ Watching' => Watching
         /\ TimingOut' => TimingOut \/ (PollStarts /\ Expires)
<1>1. CASE Start \/ Rebind \/ RebindEnds \/ Return \/ StartEnds
  <2>1. Steady
    BY <1>1, StartDoes, RebindDoes, ReturnDoes DEF Start, Rebind, RebindEnds, Return, StartEnds
  <2>2. QED
    BY <2>1 DEF Steady, Watching
<1>2. CASE Aside
  <2>1. Steady
    BY <1>2, AsideDoes, SameDoes
  <2>2. QED
    BY <2>1 DEF Steady, Watching
<1>3. CASE PollClosing \/ PollError \/ PollFailed \/ PollRebinds \/ RebindTimesOut \/ CloseEnds
  <2>1. /\ Polling' => Base'.at \in {"closed", "failed", "rebindTimedOut"}
        /\ ~TimingOut'
    BY <1>3, PollClosingDoes, PollErrorDoes, PollFailedDoes, PollRebindsDoes, RebindTimesOutDoes,
       CloseEndsDoes
  <2>2. QED
    BY <2>1 DEF Watching
<1>4. CASE PollAuth
  BY <1>4, PollAuthDoes DEF Going, Watching
<1>5. CASE PollStarts
  BY <1>5, PollStartsDoes DEF Going, Watching
<1>6. CASE StartTimesOut
  BY <1>6, StartTimesOutDoes DEF Watching
<1>7. QED
  BY <1>1, <1>2, <1>3, <1>4, <1>5, <1>6, Steps

LEMMA OneOf ==
  \A condition \in BOOLEAN : One(condition) = IF condition THEN 1 ELSE 0
  BY DEF One

LEMMA PastStep ==
  ASSUME IInv, [Next]_vars
  PROVE  Past'
<1>0. Past /\ Stacked /\ TypeOK /\ Times /\ now \in Nat /\ MaxNow \in Nat
  BY Running, NumbersAre DEF IInv, Starts, Times
<1>1. CASE Poll
  <2>1. Base'.now = now /\ now' = now
    BY <1>0, <1>1, PollDoes DEF Poll
  <2>2. QED
    BY <1>0, <2>1 DEF Past
<1>2. CASE ~Poll
  <2>1. now' \in Nat /\ now <= now'
    <3>1. CASE Tick
      BY <1>0, <3>1 DEF Tick
    <3>2. CASE ~Tick
      <4>1. now' = now
        BY <1>2, <3>2, Zenon DEF Next, PollStep, Start, StartEnds, Rebind, RebindEnds, Return,
           PollClosing, PollAuth, PollError, PollFailed, PollStarts, StartTimesOut, PollRebinds,
           RebindTimesOut, CloseEnds, NativeMoves, NativeRebinds, NativeCloses, Close, vars, clock
      <4>2. QED
        BY <1>0, <4>1
    <3>3. QED
      BY <3>1, <3>2
  <2>2. Polling' /\ Base'.at \in {"auth", "error", "starts", "rebinds"} =>
          Base'.now \in Nat /\ Base'.now <= now
    <3>1. Polling' /\ Base'.at \in {"auth", "error", "starts", "rebinds"} =>
            Polling /\ Base.at \in {"auth", "error", "starts", "rebinds"} /\ Base'.now = Base.now
      BY <1>0, <1>2, PollMoves
    <3>2. QED
      BY <1>0, <3>1, BaseIs DEF Past
  <2>3. QED
    BY <1>0, <2>1, <2>2 DEF Past
<1>3. QED
  BY <1>1, <1>2

LEMMA FreshStep ==
  ASSUME IInv, [Next]_vars
  PROVE  Fresh'
<1>0. Fresh /\ Stacked /\ TypeOK /\ now \in Nat /\ Booleans
  BY Running, NumbersAre DEF IInv, Starts, Times
<1>1. CASE Poll
  <2>1. Base'.now = now /\ now' = now /\ now <= now + One(due')
    BY <1>0, <1>1, PollDoes DEF Poll, One
  <2>2. QED
    BY <2>1 DEF Fresh
<1>2. CASE Tick
  <2>1. Steady
    BY <1>0, <1>2, AsideDoes, SameDoes DEF Aside
  <2>2. CASE Watching
    <3>1. Base.now \in Nat /\ Polling /\ timer
      BY <1>0, <2>2, BaseIs DEF Watching, IInv, Closing
    <3>2. ~due /\ due' /\ now' \in {now, now + 1}
      BY <1>2, <3>1 DEF Tick
    <3>3. now' <= Base.now + One(due')
      BY <1>0, <2>2, <3>1, <3>2 DEF Fresh, One
    <3>4. QED
      BY <2>1, <3>1, <3>3 DEF Fresh, Steady
  <2>3. CASE ~Watching
    BY <2>1, <2>3 DEF Fresh, Watching, Steady
  <2>4. QED
    BY <2>2, <2>3
<1>3. CASE PollClosing
  <2>1. ~Watching'
    BY <1>0, <1>3, PollClosingDoes DEF Watching
  <2>2. QED
    BY <2>1 DEF Fresh
<1>4. CASE ~Poll /\ ~Tick /\ ~PollClosing
  <2>1. now' = now /\ due' = due
    BY <1>4, Zenon DEF Next, PollStep, Start, StartEnds, Rebind, RebindEnds, Return,
       PollAuth, PollError, PollFailed, PollStarts, StartTimesOut, PollRebinds,
       RebindTimesOut, CloseEnds, NativeMoves, NativeRebinds, NativeCloses, Close, vars, clock
  <2>2. Watching' => Watching /\ Base'.now = Base.now
    BY <1>0, <1>4, PollMoves DEF Watching
  <2>3. QED
    BY <1>0, <2>1, <2>2 DEF Fresh, One
<1>5. QED
  BY <1>1, <1>2, <1>3, <1>4

LEMMA WithinStep ==
  ASSUME IInv, [Next]_vars
  PROVE  Within'
<1>0. Within /\ Past /\ Stacked /\ TypeOK /\ Times /\ now \in Nat
  BY Running, NumbersAre DEF IInv, Starts, Times
<1>1. Unset' = Unset
  BY DEF Unset
<1>2. CASE Poll
  <2>1. Base'.now = now /\ now' = now /\ startDeadline' = startDeadline /\ ~Watching
    BY <1>0, <1>2, PollDoes DEF Poll, startVars, Watching
  <2>2. QED
    BY <1>0, <1>1, <2>1 DEF Within
<1>3. CASE StartEnds
  <2>1. Holds("start") /\ Steady
    BY <1>0, <1>3, ReturnDoes DEF StartEnds
  <2>2. ~Polling'
    BY <2>1 DEF IInv, Calls, Steady
  <2>3. startDeadline' = now + Timeout /\ now' = now
    BY <1>3 DEF StartEnds, clock
  <2>4. now + Timeout <= Timeout + now
    BY <1>0, NumbersAre
  <2>5. QED
    BY <1>1, <2>2, <2>3, <2>4 DEF Within, Watching
<1>4. CASE PollStarts
  <2>1. ~Watching' /\ Watching /\ Frame = Base /\ Base \in Polls
    BY <1>0, <1>4, PollStartsDoes DEF Watching, Going
  <2>2. startDeadline' = Deadline /\ now' = now
    BY <1>4 DEF PollStarts, clock
  <2>3. Base.now <= now /\ Base.now \in Nat
    BY <1>0, <2>1, BaseIs DEF Past, Watching
  <2>4. Deadline # Unset => Deadline \in Nat /\ Deadline <= Timeout + Base.now
    <3>1. CASE startResult
      BY <1>4, <2>1, <2>3, <3>1, PollStartsKeeps, NumbersAre
    <3>2. CASE ~startResult
      BY <1>0, <1>4, <2>1, <3>2, PollStartsKeeps, NumbersAre DEF Within, Times
    <3>3. QED
      BY <3>1, <3>2
  <2>5. Deadline # Unset => Deadline <= Timeout + now
    BY <1>0, <2>3, <2>4, NumbersAre
  <2>6. QED
    BY <1>1, <2>1, <2>2, <2>5 DEF Within
<1>5. CASE ~Poll /\ ~StartEnds /\ ~PollStarts
  <2>1. startDeadline' = startDeadline
    BY <1>5, StartKept, StartDrops DEF startVars
  <2>2. now' \in Nat /\ now <= now'
    <3>1. CASE Tick
      BY <1>0, <3>1, NumbersAre DEF Tick
    <3>2. CASE ~Tick
      <4>1. now' = now
        BY <1>5, <3>2, Zenon DEF Next, PollStep, Start, Rebind, RebindEnds, Return,
           PollClosing, PollAuth, PollError, PollFailed, StartTimesOut, PollRebinds,
           RebindTimesOut, CloseEnds, NativeMoves, NativeRebinds, NativeCloses, Close, vars, clock
      <4>2. QED
        BY <1>0, <4>1
    <3>3. QED
      BY <3>1, <3>2
  <2>3. Watching' => Watching /\ Base'.now = Base.now
    BY <1>0, <1>5, PollMoves DEF Watching
  <2>4. Watching => Base.now \in Nat /\ Base.now <= now
    BY <1>0, BaseIs DEF Past, Watching
  <2>5. startDeadline # Unset => startDeadline \in Nat /\ startDeadline <= Timeout + now
    BY <1>0, <2>4, NumbersAre DEF Within, Times
  <2>6. CASE Watching'
    BY <1>0, <1>1, <2>1, <2>3, <2>6 DEF Within
  <2>7. CASE ~Watching'
    <3>1. startDeadline # Unset => startDeadline <= Timeout + now'
      BY <1>0, <2>2, <2>5, NumbersAre
    <3>2. QED
      BY <1>1, <2>1, <2>7, <3>1 DEF Within
  <2>8. QED
    BY <2>6, <2>7
<1>6. QED
  BY <1>2, <1>3, <1>4, <1>5

-----------------------------------------------------------------------------
(* The charge of start() *)

\* What Charged says, in numbers: Frame's time is known while it is watched.
LEMMA ChargeHas ==
  ASSUME IInv, startResult, closeP = "none"
  PROVE  /\ Charged /\ timer /\ startP = "pending"
         /\ now \in Nat /\ spent \in Nat /\ waits \in Nat
         /\ Timeout \in Nat /\ Timeout > 0 /\ Unset \in Nat
         /\ startDeadline = Unset \/ startDeadline \in Nat
         /\ startDeadline = Unset => remaining \in Nat
         /\ Watching => Base.now \in Nat /\ Base.now <= now /\ now <= Base.now + One(due)
         /\ due \in BOOLEAN
<1>1. Charged
  BY DEF IInv, Charge
<1>2. startP = "pending" /\ timer
  BY DEF IInv, Starts, Pending, PromisesAreKept, PendingIsPolled
<1>3. now \in Nat /\ spent \in Nat /\ waits \in Nat /\ due \in BOOLEAN
  BY Running, NumbersAre DEF IInv, Counts, Times, Booleans
<1>4. startDeadline = Unset \/ startDeadline \in Nat
  BY Running, NumbersAre DEF Times
<1>5. startDeadline = Unset => remaining \in Nat
  BY Running, NumbersAre DEF Times, IInv, Starts, Resting
<1>6. Watching => Base.now \in Nat /\ Base.now <= now /\ now <= Base.now + One(due)
  BY Running, BaseIs DEF IInv, Starts, Past, Fresh, Watching
<1>7. QED
  BY <1>1, <1>2, <1>3, <1>4, <1>5, <1>6, NumbersAre

LEMMA ChargeBegins ==
  ASSUME IInv, StartEnds
  PROVE  Charge'
<1>1. Holds("start") /\ Steady
  BY Running, ReturnDoes DEF StartEnds
<1>2. ~Polling /\ startP = "none" /\ spent = 0 /\ (native = "user" => waits > 0)
  BY <1>1 DEF IInv, Calls, Unstarted
<1>3. ~Polling' /\ ~TimingOut'
  BY <1>1, <1>2, Running, TimingPolls DEF Steady
<1>4. startDeadline' = now + Timeout /\ UNCHANGED <<now, due, native, spent, waits>>
  BY <1>3 DEF StartEnds, clock, manager, count
<1>5. now \in Nat /\ waits \in Nat /\ Timeout \in Nat /\ Timeout > 0 /\ Unset' = Unset
      /\ now + Timeout # Unset
  BY Running, NumbersAre DEF IInv, Counts, Times, Unset
<1>6. now + One(~due) <= now + Timeout
  BY <1>5 DEF One
<1>7. /\ spent + One(native = "user") + (now + Timeout) <= now + Timeout + waits
      /\ now + Timeout + One(native = "user" /\ ~due) <= now + Timeout + spent + waits
  BY <1>2, <1>5 DEF One
<1>8. QED
  BY <1>3, <1>4, <1>5, <1>6, <1>7 DEF Charge, Charged, Watching, Runs, One

\* A step that neither looks at the deadline nor moves the clock.
LEMMA ChargeKept ==
  ASSUME Charged, UNCHANGED <<now, due, native, spent, waits, startDeadline, remaining>>,
         \/ Steady
         \/ /\ Watching /\ Watching'
            /\ Base'.seen = Base.seen /\ Base'.now = Base.now
         \/ /\ ~Watching /\ ~TimingOut /\ ~(Polling /\ Base.at = "failed")
            /\ ~Watching' /\ ~TimingOut' /\ ~(Polling' /\ Base'.at = "failed")
  PROVE  Charged'
<1>0. Unset' = Unset
  BY DEF Unset
<1>1. CASE Steady
  BY <1>0, <1>1 DEF Charged, Watching, Runs, Rests, Steady, One
<1>2. CASE /\ Watching /\ Watching'
           /\ Base'.seen = Base.seen /\ Base'.now = Base.now
  BY <1>0, <1>2 DEF Charged, Runs, Rests, One
<1>3. CASE /\ ~Watching /\ ~TimingOut /\ ~(Polling /\ Base.at = "failed")
           /\ ~Watching' /\ ~TimingOut' /\ ~(Polling' /\ Base'.at = "failed")
  BY <1>0, <1>3 DEF Charged, Runs, Rests, One
<1>4. QED
  BY <1>1, <1>2, <1>3

\* A poll sees what the clock and the manager have come to.
LEMMA ChargeSeen ==
  ASSUME IInv, Poll, startResult, closeP = "none"
  PROVE  Charged'
<1>1. /\ ~Watching /\ ~TimingOut /\ ~(Polling /\ Base.at = "failed") /\ Watching'
      /\ Base'.seen = Seen /\ Base'.now = now
  BY Running, PollDoes DEF Watching
<1>2. /\ UNCHANGED <<now, native, spent, waits, startDeadline, remaining>> /\ due /\ ~due'
      /\ Unset' = Unset
  BY DEF Poll, PollBegins, manager, startVars, count, Unset
<1>3. Seen = "user" <=> native = "user"
  BY DEF Seen, Disbelieves
<1>4. CASE startDeadline = Unset
  <2>1. Rests(remaining)
    BY <1>1, <1>4, ChargeHas DEF Charged
  <2>2. remaining \in Nat /\ now \in Nat /\ spent \in Nat /\ waits \in Nat /\ Timeout \in Nat
    BY <1>4, ChargeHas
  <2>3. CASE native = "user"
    <3>1. spent + 1 + remaining <= Timeout + waits /\ Timeout <= remaining + spent + waits
      BY <1>2, <2>1, <2>3 DEF Rests, One
    <3>2. QED
      BY <1>1, <1>2, <1>3, <1>4, <2>3, <3>1 DEF Charged, Rests, One
  <2>4. CASE native # "user"
    <3>1. spent + 0 + remaining <= Timeout + waits /\ Timeout <= remaining + spent + waits
      BY <1>2, <2>1, <2>4 DEF Rests, One
    <3>2. /\ spent + 0 + (now + remaining) <= now + Timeout + waits
          /\ now + Timeout + 0 <= (now + remaining) + spent + waits
      BY <2>2, <3>1
    <3>3. QED
      BY <1>1, <1>2, <1>3, <1>4, <2>4, <3>2 DEF Charged, Runs, One
  <2>5. QED
    BY <2>3, <2>4
<1>5. CASE startDeadline # Unset
  <2>1. now + One(~due) <= startDeadline /\ Runs(startDeadline)
    BY <1>1, <1>5, ChargeHas DEF Charged
  <2>2. startDeadline \in Nat /\ now \in Nat /\ spent \in Nat /\ waits \in Nat /\ Timeout \in Nat
    BY <1>5, ChargeHas
  <2>3. now <= startDeadline
    BY <1>2, <2>1, <2>2 DEF One
  <2>4. CASE native = "user"
    <3>1. /\ spent + 1 + startDeadline <= now + Timeout + waits
          /\ now + Timeout + 0 <= startDeadline + spent + waits
      BY <1>2, <2>1, <2>4 DEF Runs, One
    <3>2. /\ spent + 1 + (startDeadline - now) <= Timeout + waits
          /\ Timeout <= (startDeadline - now) + spent + waits
      BY <2>2, <3>1
    <3>3. QED
      BY <1>1, <1>2, <1>3, <1>5, <2>3, <2>4, <3>2 DEF Charged, Rests, One
  <2>5. CASE native # "user"
    <3>1. /\ spent + 0 + startDeadline <= now + Timeout + waits
          /\ now + Timeout + 0 <= startDeadline + spent + waits
      BY <1>2, <2>1, <2>5 DEF Runs, One
    <3>2. QED
      BY <1>1, <1>2, <1>3, <1>5, <2>3, <2>5, <3>1 DEF Charged, Runs, One
  <2>6. QED
    BY <2>4, <2>5
<1>6. QED
  BY <1>4, <1>5

\* An error is reported within a period of the deadline.
LEMMA ChargeFails ==
  ASSUME IInv, PollError, startResult, closeP = "none"
  PROVE  Charged'
<1>1. Watching /\ ~Watching' /\ Polling' /\ Base'.at = "failed"
  BY Running, PollErrorDoes DEF Going, Watching
<1>2. UNCHANGED <<now, due, spent, waits>>
  BY DEF PollError, clock, count
<1>3. spent <= Timeout + waits + One(due)
  <2>1. /\ now \in Nat /\ spent \in Nat /\ waits \in Nat /\ Timeout \in Nat
        /\ Base.now \in Nat /\ now <= Base.now + One(due) /\ due \in BOOLEAN
        /\ startDeadline = Unset => remaining \in Nat
        /\ startDeadline # Unset => startDeadline \in Nat
    BY <1>1, ChargeHas
  <2>2. \/ startDeadline = Unset /\ (Rests(remaining) \/ Runs(Base.now + remaining))
        \/ startDeadline # Unset /\ Base.now <= startDeadline
           /\ (Rests(startDeadline - Base.now) \/ Runs(startDeadline))
    BY <1>1, ChargeHas DEF Charged
  <2>3. ASSUME NEW rest \in Nat, Rests(rest) PROVE spent <= Timeout + waits + One(due)
    BY <2>1, <2>3 DEF Rests, One
  <2>4. ASSUME NEW rest \in Nat, Runs(Base.now + rest) PROVE spent <= Timeout + waits + One(due)
    BY <2>1, <2>4 DEF Runs, One
  <2>5. startDeadline # Unset /\ Base.now <= startDeadline =>
          startDeadline - Base.now \in Nat /\ Base.now + (startDeadline - Base.now) = startDeadline
    BY <2>1
  <2>6. QED
    BY <2>1, <2>2, <2>3, <2>4, <2>5
<1>4. QED
  BY <1>1, <1>2, <1>3 DEF Charged, Watching, One

\* A poll stops the deadline, starts it again, or finds that it is past.
LEMMA ChargeLooked ==
  ASSUME IInv, PollStarts, startResult', closeP = "none"
  PROVE  Charged' /\ (TimingOut' => spent + waits >= Timeout)
<1>1. /\ Watching /\ ~Watching' /\ Frame = Base /\ Polling' /\ Base'.at = "rebinds"
      /\ (TimingOut' <=> Expires)
  BY Running, PollStartsDoes DEF Going, Watching
<1>2. /\ startResult /\ Frame.seen # "connected"
      /\ startDeadline' = Deadline /\ remaining' = Remaining
      /\ Deadline \in (0..MaxNow + Timeout) \cup {Unset}
      /\ Remaining \in (0..Timeout) \cup {Unset}
      /\ (Deadline = Unset) <=> (Base.seen = "user")
      /\ (Deadline = Unset) <=> (Remaining # Unset)
      /\ UNCHANGED <<now, due, native, spent, waits>> /\ Unset' = Unset
  BY <1>1, PollStartsKeeps DEF PollStarts, clock, manager, count, Unset
<1>3. /\ now \in Nat /\ spent \in Nat /\ waits \in Nat /\ Timeout \in Nat
      /\ Base.now \in Nat /\ Base.now <= now /\ now <= Base.now + One(due) /\ due \in BOOLEAN
      /\ startDeadline = Unset => remaining \in Nat
      /\ startDeadline # Unset => startDeadline \in Nat
      /\ Charged
  BY <1>1, <1>2, ChargeHas
<1>4. CASE Base.seen = "user"
  <2>1. Rests(Remaining)
    <3>1. CASE startDeadline = Unset
      <4>1. Remaining = remaining
        BY <1>1, <1>4, <3>1 DEF Remaining, WaitsForUser
      <4>2. QED
        BY <1>1, <1>3, <1>4, <3>1, <4>1 DEF Charged
    <3>2. CASE startDeadline # Unset
      <4>1. Base.now <= startDeadline /\ Rests(startDeadline - Base.now)
        BY <1>1, <1>3, <1>4, <3>2 DEF Charged
      <4>2. Remaining = startDeadline - Base.now
        BY <1>1, <1>2, <1>3, <1>4, <3>2, <4>1 DEF Remaining, WaitsForUser
      <4>3. QED
        BY <4>1, <4>2
    <3>3. QED
      BY <3>1, <3>2
  <2>2. ~TimingOut'
    BY <1>1, <1>2, <1>4 DEF Expires
  <2>3. QED
    BY <1>1, <1>2, <1>4, <2>1, <2>2 DEF Charged, Rests, One
<1>5. CASE Base.seen # "user"
  <2>1. Deadline \in Nat /\ Runs(Deadline) /\ Base.now <= Deadline
    <3>1. CASE startDeadline = Unset
      <4>1. Deadline = Base.now + remaining
        BY <1>1, <1>2, <1>3, <1>5, <3>1, NumbersAre DEF Deadline, WaitsForUser, Resumed,
           IInv, Starts, Resting
      <4>2. QED
        BY <1>1, <1>3, <1>5, <3>1, <4>1 DEF Charged
    <3>2. CASE startDeadline # Unset
      <4>1. Deadline = startDeadline
        BY <1>1, <1>5, <3>2 DEF Deadline, WaitsForUser
      <4>2. QED
        BY <1>1, <1>3, <1>5, <3>2, <4>1 DEF Charged
    <3>3. QED
      BY <3>1, <3>2
  <2>2. CASE Base.now >= Deadline
    <3>1. spent + waits >= Timeout /\ spent <= Timeout + waits + One(due)
      BY <1>3, <2>1, <2>2 DEF Runs, One
    <3>2. TimingOut'
      BY <1>1, <1>2, <1>5, <2>2 DEF Expires
    <3>3. Charged'
      BY <1>1, <1>2, <3>1, <3>2 DEF Charged, One
    <3>4. QED
      BY <3>1, <3>3
  <2>3. CASE ~(Base.now >= Deadline)
    <3>1. now + One(~due) <= Deadline
      BY <1>3, <2>1, <2>3 DEF One
    <3>2. ~TimingOut'
      BY <1>1, <2>3 DEF Expires
    <3>3. Charged'
      BY <1>1, <1>2, <1>5, <2>1, <3>1, <3>2 DEF Charged, Runs, One
    <3>4. QED
      BY <3>2, <3>3
  <2>4. QED
    BY <2>2, <2>3
<1>6. QED
  BY <1>4, <1>5

\* The manager's report changes: a turn of the user is waited for, or is over.
LEMMA ChargeReported ==
  ASSUME IInv, NativeMoves \/ NativeRebinds, startResult, closeP = "none"
  PROVE  Charged'
<1>1. /\ Steady /\ UNCHANGED <<now, due, spent, startDeadline, remaining>> /\ Unset' = Unset
  BY Running, AsideDoes, SameDoes DEF Aside, NativeMoves, NativeRebinds, clock, startVars, count, Unset
<1>2. Watching' <=> Watching
  BY <1>1 DEF Watching, Steady
<1>3. Polling => Base' = Base
  BY <1>1 DEF Steady
<1>4. \/ native' = "user" /\ native # "user" /\ waits' = waits + 1
      \/ native' # "user" /\ waits' = waits
  BY DEF NativeMoves, NativeRebinds, count
<1>5. /\ now \in Nat /\ spent \in Nat /\ waits \in Nat /\ Timeout \in Nat /\ due \in BOOLEAN
  BY ChargeHas
<1>6. ASSUME NEW rest \in Nat, Rests(rest)
      PROVE  /\ spent + One(native' = "user" \/ ~due) + rest <= Timeout + waits'
             /\ Timeout <= rest + spent + waits'
  BY <1>4, <1>5, <1>6 DEF Rests, One
<1>7. ASSUME NEW deadline \in Nat, Runs(deadline)
      PROVE  /\ spent + One(native' = "user") + deadline <= now + Timeout + waits'
             /\ now + Timeout + One(native' = "user" /\ ~due) <= deadline + spent + waits'
  BY <1>4, <1>5, <1>7 DEF Runs, One
<1>8. /\ startDeadline = Unset => remaining \in Nat
      /\ startDeadline # Unset => startDeadline \in Nat
      /\ Watching => Base.now \in Nat
      /\ Watching /\ startDeadline # Unset /\ Base.now <= startDeadline =>
           startDeadline - Base.now \in Nat
      /\ Watching /\ startDeadline = Unset => Base.now + remaining \in Nat
  BY ChargeHas
<1>9. CASE Watching
  BY <1>1, <1>2, <1>3, <1>6, <1>7, <1>8, <1>9, ChargeHas DEF Charged, Rests, Runs, One, Watching
<1>10. CASE ~Watching /\ (TimingOut \/ (Polling /\ Base.at = "failed"))
  <2>1. spent <= Timeout + waits + One(due)
    BY <1>10, ChargeHas DEF Charged
  <2>2. spent <= Timeout + waits' + One(due)
    BY <1>4, <1>5, <2>1 DEF One
  <2>3. ~Watching' /\ (TimingOut' \/ (Polling' /\ Base'.at = "failed"))
    BY <1>1, <1>2, <1>3, <1>10 DEF Steady
  <2>4. QED
    BY <1>1, <2>2, <2>3 DEF Charged, One
<1>11. CASE ~Watching /\ ~(TimingOut \/ (Polling /\ Base.at = "failed"))
  <2>1. ~Watching' /\ ~(TimingOut' \/ (Polling' /\ Base'.at = "failed"))
    BY <1>1, <1>2, <1>3, <1>11 DEF Steady
  <2>2. IF startDeadline = Unset THEN Rests(remaining)
        ELSE now + One(~due) <= startDeadline /\ Runs(startDeadline)
    BY <1>11, ChargeHas DEF Charged
  <2>3. QED
    BY <1>1, <1>6, <1>7, <1>8, <2>1, <2>2 DEF Charged, Rests, Runs, One
<1>12. QED
  BY <1>9, <1>10, <1>11

\* A period of the timer is charged unless the user is waited for.
LEMMA ChargeTicks ==
  ASSUME IInv, Tick, startResult, closeP = "none"
  PROVE  Charged'
<1>1. /\ Steady /\ UNCHANGED <<native, waits, startDeadline, remaining>> /\ Unset' = Unset
  BY Running, AsideDoes, SameDoes DEF Aside, Tick, manager, startVars, Unset
<1>2. Watching' <=> Watching
  BY <1>1 DEF Watching, Steady
<1>3. Polling => Base' = Base
  BY <1>1 DEF Steady
<1>4. ~due /\ due' /\ \/ now' = now /\ spent' = spent
                      \/ now' = now + 1 /\ native = "user" /\ spent' = spent
                      \/ now' = now + 1 /\ native # "user" /\ spent' = spent + 1
  BY ChargeHas DEF Tick
<1>5. /\ now \in Nat /\ spent \in Nat /\ waits \in Nat /\ Timeout \in Nat
  BY ChargeHas
<1>6. ASSUME NEW rest \in Nat, Rests(rest)
      PROVE  /\ spent' + One(native = "user" \/ ~due') + rest <= Timeout + waits
             /\ Timeout <= rest + spent' + waits
  <2>1. spent + 1 + rest <= Timeout + waits /\ Timeout <= rest + spent + waits
    BY <1>4, <1>6 DEF Rests, One
  <2>2. QED
    BY <1>4, <1>5, <2>1 DEF One
<1>7. ASSUME NEW deadline \in Nat, Runs(deadline)
      PROVE  /\ spent' + One(native = "user") + deadline <= now' + Timeout + waits
             /\ now' + Timeout + One(native = "user" /\ ~due') <= deadline + spent' + waits
  <2>1. /\ spent + One(native = "user") + deadline <= now + Timeout + waits
        /\ now + Timeout + One(native = "user") <= deadline + spent + waits
    BY <1>4, <1>7 DEF Runs, One
  <2>2. One(native = "user") = (IF native = "user" THEN 1 ELSE 0)
        /\ One(native = "user" /\ ~due') = 0
    BY <1>4 DEF One
  <2>3. QED
    BY <1>4, <1>5, <2>1, <2>2
<1>8. /\ startDeadline = Unset => remaining \in Nat
      /\ startDeadline # Unset => startDeadline \in Nat
      /\ Watching => Base.now \in Nat
      /\ Watching /\ startDeadline # Unset /\ Base.now <= startDeadline =>
           startDeadline - Base.now \in Nat
      /\ Watching /\ startDeadline = Unset => Base.now + remaining \in Nat
  BY ChargeHas
<1>9. CASE Watching
  <2>1. Polling /\ Polling' /\ Base' = Base /\ Watching'
    BY <1>1, <1>2, <1>3, <1>9 DEF Watching
  <2>2. IF Base.seen = "user"
        THEN IF startDeadline = Unset THEN Rests(remaining)
             ELSE Base.now <= startDeadline /\ Rests(startDeadline - Base.now)
        ELSE IF startDeadline = Unset THEN Runs(Base.now + remaining)
             ELSE Base.now <= startDeadline /\ Runs(startDeadline)
    BY <1>9, ChargeHas DEF Charged
  <2>3. QED
    BY <1>1, <1>6, <1>7, <1>8, <1>9, <2>1, <2>2 DEF Charged, Rests, Runs, One
<1>10. CASE ~Watching /\ (TimingOut \/ (Polling /\ Base.at = "failed"))
  <2>1. spent <= Timeout + waits + 0
    BY <1>4, <1>10, ChargeHas DEF Charged, One
  <2>2. spent' <= Timeout + waits + 1
    BY <1>4, <1>5, <2>1
  <2>3. ~Watching' /\ (TimingOut' \/ (Polling' /\ Base'.at = "failed"))
    BY <1>1, <1>2, <1>3, <1>10 DEF Steady
  <2>4. QED
    BY <1>1, <1>4, <2>2, <2>3 DEF Charged, One
<1>11. CASE ~Watching /\ ~(TimingOut \/ (Polling /\ Base.at = "failed"))
  <2>1. ~Watching' /\ ~(TimingOut' \/ (Polling' /\ Base'.at = "failed"))
    BY <1>1, <1>2, <1>3, <1>11 DEF Steady
  <2>2. IF startDeadline = Unset THEN Rests(remaining)
        ELSE now + One(~due) <= startDeadline /\ Runs(startDeadline)
    BY <1>11, ChargeHas DEF Charged
  <2>3. startDeadline # Unset => now' + One(~due') <= startDeadline
    BY <1>4, <1>5, <1>8, <2>2 DEF One
  <2>4. QED
    BY <1>1, <1>6, <1>7, <1>8, <2>1, <2>2, <2>3 DEF Charged, Rests, Runs, One
<1>12. QED
  BY <1>9, <1>10, <1>11

LEMMA ChargeStep ==
  ASSUME IInv, [Next]_vars
  PROVE  Charge'
<1> SUFFICES ASSUME startResult', closeP' = "none" PROVE Charged'
  BY DEF Charge
<1>1. CASE StartEnds
  BY <1>1, ChargeBegins DEF Charge
<1>2. CASE PollFailed \/ Close \/ StartTimesOut
  BY <1>2, StartDrops
<1>3. ASSUME ~StartEnds, ~PollFailed, ~Close, ~StartTimesOut PROVE Charged'
  <2>1. startResult /\ (~PollStarts => UNCHANGED startVars)
    BY <1>3, StartKept DEF PollStarts, startVars
  <2>2. closeP = "none"
    <3>1. CASE CloseEnds
      BY <3>1 DEF CloseEnds, Settled
    <3>2. CASE ~CloseEnds
      BY <1>3, <3>2, Zenon DEF Next, PollStep, Start, Rebind, RebindEnds, Return, Poll,
         PollClosing, PollAuth, PollError, PollStarts, PollRebinds,
         RebindTimesOut, NativeMoves, NativeRebinds, NativeCloses, Tick, vars, closeVars
    <3>3. QED
      BY <3>1, <3>2
  <2>3. Charged
    BY <2>1, <2>2, ChargeHas
  <2>4. CASE Poll
    BY <2>1, <2>2, <2>4, ChargeSeen
  <2>5. CASE PollError
    BY <2>1, <2>2, <2>5, ChargeFails
  <2>6. CASE PollStarts
    BY <2>2, <2>6, ChargeLooked
  <2>7. CASE NativeMoves \/ NativeRebinds
    BY <2>1, <2>2, <2>7, ChargeReported
  <2>8. CASE Tick
    BY <2>1, <2>2, <2>8, ChargeTicks
  <2>9. CASE Start \/ Rebind \/ RebindEnds \/ Return \/ NativeCloses \/ UNCHANGED vars
    <3>1. Steady
      BY <2>9, Running, StartDoes, RebindDoes, ReturnDoes, SameDoes DEF Start, Rebind, RebindEnds,
         Return, NativeCloses, vars
    <3>2. UNCHANGED <<now, due, native, spent, waits, startDeadline, remaining>>
      BY <2>9 DEF Start, Rebind, RebindEnds, Return, NativeCloses, vars, clock, manager, startVars, count
    <3>3. QED
      BY <2>3, <3>1, <3>2, ChargeKept
  <2>10. CASE PollAuth
    <3>1. Watching /\ Watching' /\ Base'.seen = Base.seen /\ Base'.now = Base.now
      BY <2>10, Running, PollAuthDoes DEF Watching, Going
    <3>2. UNCHANGED <<now, due, native, spent, waits, startDeadline, remaining>>
      BY <2>10 DEF PollAuth, clock, manager, startVars, count
    <3>3. QED
      BY <2>3, <3>1, <3>2, ChargeKept
  <2>11. CASE PollRebinds \/ RebindTimesOut
    <3>1. /\ ~Watching /\ ~TimingOut /\ ~(Polling /\ Base.at = "failed")
          /\ ~Watching' /\ ~TimingOut' /\ ~(Polling' /\ Base'.at = "failed")
      BY <2>11, Running, PollRebindsDoes, RebindTimesOutDoes DEF Watching, Going
    <3>2. UNCHANGED <<now, due, native, spent, waits, startDeadline, remaining>>
      BY <2>11 DEF PollRebinds, RebindTimesOut, clock, manager, startVars, count
    <3>3. QED
      BY <2>3, <3>1, <3>2, ChargeKept
  <2>12. CASE PollClosing \/ CloseEnds
    <3>1. closing \/ Going("closed")
      BY <2>12, Running, CloseEndsDoes DEF PollClosing
    <3>2. closeP = "pending"
      BY <3>1 DEF IInv, Closing, Going
    <3>3. QED
      BY <2>2, <3>2
  <2>13. QED
    BY <1>3, <2>4, <2>5, <2>6, <2>7, <2>8, <2>9, <2>10, <2>11, <2>12, Steps DEF Aside
<1>4. QED
  BY <1>1, <1>2, <1>3

\* Time and turns only add up.
LEMMA CountsGrow ==
  ASSUME Counts, [Next]_vars
  PROVE  spent' \in Nat /\ waits' \in Nat /\ spent <= spent' /\ waits <= waits'
<1>1. CASE NativeMoves
  BY <1>1 DEF NativeMoves, Counts
<1>2. CASE Tick
  BY <1>2 DEF Tick, Counts
<1>3. CASE ~NativeMoves /\ ~Tick
  <2>1. UNCHANGED count
    BY <1>3, Zenon DEF Next, PollStep, Start, StartEnds, Rebind, RebindEnds, Return, Poll,
       PollClosing, PollAuth, PollError, PollFailed, PollStarts, StartTimesOut, PollRebinds,
       RebindTimesOut, CloseEnds, NativeRebinds, NativeCloses, Close, vars
  <2>2. QED
    BY <2>1 DEF Counts, count
<1>4. QED
  BY <1>1, <1>2, <1>3

LEMMA WaitedStep ==
  ASSUME IInv, [Next]_vars
  PROVE  Waited'
<1>0. Waited /\ Counts
  BY DEF IInv, Starts
<1>1. spent + waits >= Timeout => spent' + waits' >= Timeout
  BY <1>0, CountsGrow, NumbersAre DEF Counts
<1>2. CASE PollStarts /\ Expires
  <2>1. startResult' /\ UNCHANGED <<spent, waits>>
    BY <1>2 DEF PollStarts, Expires, count
  <2>2. Polling /\ Base.at # "closed" /\ startResult
    BY <1>2, Running, PollStartsDoes DEF Going, Expires
  <2>3. closeP = "none"
    BY <2>2 DEF IInv, Starts, Dropped
  <2>4. QED
    BY <1>2, <2>1, <2>3, ChargeLooked DEF Waited
<1>3. CASE Poll
  BY <1>3, Running, PollDoes DEF Waited
<1>4. CASE ~Poll /\ ~(PollStarts /\ Expires)
  <2>1. TimingOut' => TimingOut
    BY <1>4, Running, PollMoves
  <2>2. QED
    BY <1>0, <1>1, <2>1 DEF Waited
<1>5. QED
  BY <1>2, <1>3, <1>4

LEMMA UserTimeStep ==
  ASSUME IInv, [Next]_vars
  PROVE  UserTimeIsFree'
<1>0. UserTimeIsFree /\ Counts /\ Waited
  BY DEF IInv, Starts
<1>1. spent + waits >= Timeout => spent' + waits' >= Timeout
  BY <1>0, CountsGrow, NumbersAre DEF Counts
<1>2. CASE StartTimesOut
  BY <1>0, <1>1, <1>2, Running, StartTimesOutDoes DEF UserTimeIsFree, Waited
<1>3. CASE ~StartTimesOut
  <2>1. startP' = "timedOut" => startP = "timedOut"
    <3>1. CASE StartEnds \/ PollFailed \/ Close \/ PollStarts
      BY <3>1 DEF StartEnds, PollFailed, Close, PollStarts, RejectAll, Settled
    <3>2. CASE ~StartEnds /\ ~PollFailed /\ ~Close /\ ~PollStarts
      BY <1>3, <3>2, StartKept DEF startVars
    <3>3. QED
      BY <3>1, <3>2
  <2>2. QED
    BY <1>0, <1>1, <2>1 DEF UserTimeIsFree
<1>4. QED
  BY <1>2, <1>3

-----------------------------------------------------------------------------
(* The promises *)

LEMMA OrphanStep ==
  ASSUME IInv, [Next]_vars
  PROVE  NoOrphan'
<1>0. NoOrphan /\ Numbers /\ Stacked /\ TypeOK
  BY Running DEF IInv, PromisesAreKept
<1>1. startP' = "pending" => startResult'
  BY PendingStep DEF Pending
<1>2. \A i \in DOMAIN rebindP' : rebindP'[i] = "pending" => rebindResult' = i
  <2>1. CASE RebindEnds
    <3>1. Holds("rebind")
      BY <1>0, <2>1, ReturnDoes DEF RebindEnds
    <3>2. rebindResult = 0
      BY <3>1 DEF IInv, Calls
    <3>3. \A i \in DOMAIN rebindP : rebindP[i] # "pending"
      BY <1>0, <3>2 DEF NoOrphan, Numbers
    <3>4. rebindP' = [rebindP EXCEPT ![rebindResult'] = "pending"]
      BY <2>1 DEF RebindEnds
    <3>5. QED
      BY <3>3, <3>4
  <2>2. CASE PollFailed \/ Close
    <3>1. PICK fate \in {"failed", "closed"} : RejectAll(fate)
      BY <2>2 DEF PollFailed, Close
    <3>2. \A i \in DOMAIN rebindP' : i \in DOMAIN rebindP /\ rebindP'[i] # "pending"
      BY <1>0, <3>1 DEF RejectAll, Settled, NoOrphan
    <3>3. QED
      BY <3>2
  <2>3. CASE PollRebinds
    <3>1. \/ UNCHANGED <<rebindP, rebindResult>>
          \/ /\ rebindP' = [rebindP EXCEPT ![rebindResult] = Settled(@, "resolved")]
             /\ rebindResult' = 0
      BY <2>3 DEF PollRebinds
    <3>2. QED
      BY <1>0, <3>1 DEF NoOrphan, Settled, Numbers
  <2>4. CASE RebindTimesOut
    <3>1. Going("rebindTimedOut")
      BY <1>0, <2>4, RebindTimesOutDoes
    <3>2. rebindResult \in {0, Frame.id}
      BY <3>1 DEF IInv, Rebinds, Expiring, Going
    <3>3. rebindP' = [rebindP EXCEPT ![Frame.id] = Settled(@, "timedOut")]
      BY <2>4 DEF RebindTimesOut
    <3>4. \A i \in DOMAIN rebindP : rebindP[i] = "pending" => i = Frame.id
      BY <1>0, <3>2 DEF NoOrphan, Numbers
    <3>5. \A i \in DOMAIN rebindP' : rebindP'[i] # "pending"
      BY <3>3, <3>4 DEF Settled
    <3>6. QED
      BY <3>5
  <2>5. CASE ~RebindEnds /\ ~PollFailed /\ ~Close /\ ~PollRebinds /\ ~RebindTimesOut
    <3>1. UNCHANGED <<rebindP, rebindResult>>
      BY <2>5, Zenon DEF Next, PollStep, Start, StartEnds, Rebind, Return, Poll,
         PollClosing, PollAuth, PollError, PollStarts, StartTimesOut, CloseEnds, NativeMoves,
         NativeRebinds, NativeCloses, Tick, vars, rebindVars
    <3>2. QED
      BY <1>0, <3>1 DEF NoOrphan
  <2>6. QED
    BY <2>1, <2>2, <2>3, <2>4, <2>5
<1>3. QED
  BY <1>1, <1>2 DEF NoOrphan

LEMMA LateKept ==
  ASSUME [Next]_vars, ~StartEnds, ~RebindEnds, ~Close, ~CloseEnds
  PROVE  UNCHANGED <<closeP, late>>
  BY Zenon DEF Next, PollStep, Start, Rebind, Return, Poll, PollClosing, PollAuth, PollError,
     PollFailed, PollStarts, StartTimesOut, PollRebinds, RebindTimesOut, NativeMoves,
     NativeRebinds, NativeCloses, Tick, vars, closeVars

\* A poll that goes on after close() settles nothing: what was there is settled, and
\* what was made since is too young.
LEMMA LatePolls ==
  ASSUME IInv, closeP # "none",
         PollFailed \/ PollStarts \/ StartTimesOut \/ PollRebinds \/ RebindTimesOut
  PROVE  UNCHANGED <<startP, rebindP>> /\ (PollRebinds => ~Polling')
<1>0. /\ Stacked /\ TypeOK /\ Numbers /\ Times /\ Names /\ Missed /\ NoOrphan /\ Closing
      /\ Trusted /\ Dropped
  BY Running DEF IInv, Ends, PromisesAreKept, Rebinds, Starts
<1>1. \A i \in DOMAIN rebindP : i # 0
  BY <1>0 DEF Numbers
<1>2. CASE PollFailed
  <2>1. ~startResult /\ rebindResult = 0
    BY <1>0, <1>2, PollFailedDoes DEF Going, Dropped, Missed
  <2>2. RejectAll("failed") /\ ~PollRebinds
    BY <1>2 DEF PollFailed, PollRebinds, At
  <2>3. startP' = startP
    BY <2>1, <2>2 DEF RejectAll
  <2>4. rebindP' = [i \in DOMAIN rebindP |-> rebindP[i]]
    BY <1>1, <2>1, <2>2 DEF RejectAll
  <2>5. rebindP' = rebindP
    BY <1>0, <2>4 DEF Numbers
  <2>6. QED
    BY <2>2, <2>3, <2>5
<1>3. CASE PollStarts
  <2>1. ~startResult
    BY <1>0, <1>3, PollStartsDoes DEF Going, Dropped
  <2>2. QED
    BY <1>3, <2>1 DEF PollStarts, PollRebinds, At, rebindVars
<1>4. CASE StartTimesOut
  <2>1. ~startResult
    BY <1>0, <1>4, StartTimesOutDoes DEF Dropped
  <2>2. startP # "pending"
    BY <1>0, <2>1 DEF NoOrphan
  <2>3. QED
    BY <1>4, <2>2 DEF StartTimesOut, PollRebinds, At, rebindVars, Settled
<1>5. CASE PollRebinds
  <2>1. Going("rebinds") /\ Base \in Polls
    BY <1>0, <1>5, PollRebindsDoes
  <2>2. stopping
    BY <1>0 DEF Closing
  <2>3. rebindResult # 0 => ~(rebindNotBefore <= Base.now) /\ Base.now < rebindDeadline
    BY <1>0, <2>1, <2>2 DEF Going, Trusted, Missed
  <2>4. /\ Base.now \in Nat /\ rebindNotBefore \in Nat /\ rebindDeadline \in Nat
        /\ Base = Frame
    BY <1>0, <2>1, NumbersAre DEF Going, Polls, Times
  <2>5. ~Rebound /\ ~(rebindResult # 0 /\ Frame.now >= rebindDeadline)
    BY <2>3, <2>4 DEF Rebound
  <2>6. UNCHANGED rebindP /\ Goto(<<>>)
    BY <1>5, <2>5 DEF PollRebinds, Rebound
  <2>7. ~Polling'
    BY <1>0, <1>5, <2>6, LeavesNothing DEF PollRebinds, PollLabels
  <2>8. QED
    BY <1>5, <2>6, <2>7 DEF PollRebinds, startVars
<1>6. CASE RebindTimesOut
  <2>1. rebindResult = 0
    BY <1>0, <1>6, RebindTimesOutDoes DEF Going, Missed
  <2>2. \A i \in DOMAIN rebindP : rebindP[i] # "pending"
    BY <1>0, <1>1, <2>1 DEF NoOrphan
  <2>3. rebindP' = [rebindP EXCEPT ![Frame.id] = Settled(@, "timedOut")]
    BY <1>6 DEF RebindTimesOut
  <2>4. rebindP' = rebindP
    BY <1>0, <2>2, <2>3 DEF Settled, Numbers
  <2>5. QED
    BY <1>6, <2>4 DEF RebindTimesOut, PollRebinds, At, startVars
<1>7. QED
  BY <1>2, <1>3, <1>4, <1>5, <1>6

\* start() and rebind() need another state than "error".
LEMMA FailingStep ==
  ASSUME IInv, [Next]_vars
  PROVE  Failing'
<1>0. Failing /\ Stacked /\ TypeOK
  BY Running DEF IInv, Ends
<1>1. CASE Start
  <2>1. state = "idle" /\ Steady
    BY <1>0, <1>1, StartDoes DEF Start
  <2>2. QED
    BY <1>0, <2>1 DEF Failing, Steady
<1>2. CASE Rebind
  <2>1. state = "connected" /\ Steady
    BY <1>0, <1>2, RebindDoes DEF Rebind
  <2>2. QED
    BY <1>0, <2>1 DEF Failing, Steady
<1>3. CASE StartEnds \/ RebindEnds \/ Return
  <2>1. UNCHANGED state /\ Steady
    BY <1>0, <1>3, ReturnDoes DEF StartEnds, RebindEnds, Return, face
  <2>2. QED
    BY <1>0, <2>1 DEF Failing, Steady
<1>4. CASE Poll
  <2>1. Base'.at = "auth" /\ Base'.seen = Seen /\ state' = Seen
    BY <1>0, <1>4, PollDoes
  <2>2. QED
    BY <2>1 DEF Failing
<1>5. CASE PollClosing \/ PollStarts \/ StartTimesOut \/ PollRebinds \/ RebindTimesOut \/ CloseEnds
           \/ PollFailed
  <2>1. Polling' => Base'.at \notin {"auth", "error", "failed"}
    BY <1>0, <1>5, PollClosingDoes, PollStartsDoes, StartTimesOutDoes, PollRebindsDoes,
       RebindTimesOutDoes, CloseEndsDoes, PollFailedDoes
  <2>2. QED
    BY <2>1 DEF Failing
<1>6. CASE PollAuth \/ PollError
  <2>1. /\ UNCHANGED state /\ Polling
        /\ \/ Base.at = "auth" /\ Base'.at \in {"error", "starts"}
              /\ (Base'.at = "error" <=> Base.seen = "error")
           \/ Base.at = "error"
    BY <1>0, <1>6, PollAuthDoes, PollErrorDoes DEF PollAuth, PollError, face, Going
  <2>2. QED
    BY <1>0, <2>1 DEF Failing
<1>7. CASE Aside
  <2>1. UNCHANGED state /\ Steady
    BY <1>0, <1>7, AsideDoes, SameDoes DEF Aside, NativeMoves, NativeRebinds, NativeCloses,
       Tick, Close, vars, face
  <2>2. QED
    BY <1>0, <2>1 DEF Failing, Steady
<1>8. QED
  BY <1>1, <1>2, <1>3, <1>4, <1>5, <1>6, <1>7, Steps

LEMMA MissedStep ==
  ASSUME IInv, [Next]_vars
  PROVE  Missed'
<1>0. Missed /\ Failing /\ Stacked /\ TypeOK /\ Closing
  BY Running DEF IInv, Ends
<1>1. CASE Start \/ Rebind \/ StartEnds \/ Return
  <2>1. UNCHANGED <<rebindResult, rebindDeadline, closeP>> /\ Steady
    BY <1>0, <1>1, StartDoes, RebindDoes, ReturnDoes DEF Start, Rebind, StartEnds, Return,
       closeVars, rebindVars
  <2>2. QED
    BY <1>0, <2>1 DEF Missed, Steady
<1>2. CASE RebindEnds
  <2>1. Holds("rebind") /\ Steady /\ rebindDeadline' = now + Timeout
    BY <1>0, <1>2, ReturnDoes DEF RebindEnds
  <2>2. Polling => Base.at # "rebindTimedOut" /\ state = "reconnecting"
    BY <2>1 DEF IInv, Rebinds, Expiring, Calls
  <2>3. Polling => Base.at # "timedOut"
    <3>1. Polling => Len(stack) \in 1..Len(stack) /\ Base = stack[Len(stack)]
      BY <1>0, EmptySeq DEF Polling, Base, Stacked
    <3>2. Len(stack) # Len(stack) - 1
      BY <1>0 DEF Stacked
    <3>3. QED
      BY <1>0, <3>1, <3>2 DEF Polling, Stacked, Shape
  <2>4. Polling => /\ Base.at \in {"auth", "starts", "rebinds", "closed"}
                   /\ Base.at = "auth" => Base.seen # "error"
    BY <1>0, <2>2, <2>3 DEF Failing, Polling, PollLabels
  <2>5. Polling /\ Base.at \in {"auth", "starts", "rebinds"} => Base.now < rebindDeadline'
    <3>1. Polling /\ Base.at \in {"auth", "starts", "rebinds"} =>
            Base.now \in Nat /\ Base.now <= now
      BY <1>0, BaseIs DEF IInv, Starts, Past
    <3>2. \A t \in Nat : t <= now => t < now + Timeout
      BY Running, NumbersAre DEF Times
    <3>3. QED
      BY <2>1, <3>1, <3>2
  <2>6. QED
    BY <2>1, <2>4, <2>5 DEF Missed, Steady
<1>3. CASE Poll
  <2>1. closeP = "none" /\ closeP' = closeP
    BY <1>0, <1>3 DEF Poll, Closing, closeVars
  <2>2. QED
    BY <2>1 DEF Missed
<1>4. CASE PollClosing \/ CloseEnds
  <2>1. Polling' => Base'.at = "closed"
    BY <1>0, <1>4, PollClosingDoes, CloseEndsDoes
  <2>2. QED
    BY <2>1 DEF Missed
<1>5. CASE PollAuth \/ PollStarts
  <2>1. /\ UNCHANGED <<rebindResult, rebindDeadline, closeP>> /\ Polling
        /\ Base'.now = Base.now /\ Base.at \in {"auth", "starts"}
        /\ Base'.at \in {"error", "starts", "rebinds"}
        /\ (Base'.at = "error" => Base.at = "auth" /\ Base.seen = "error")
    BY <1>0, <1>5, PollAuthDoes, PollStartsDoes DEF PollAuth, PollStarts, closeVars, rebindVars,
       Going
  <2>2. QED
    BY <1>0, <2>1 DEF Missed
<1>6. CASE PollError
  <2>1. Going("error") /\ UNCHANGED <<rebindResult, closeP>>
    BY <1>0, <1>6, PollErrorDoes DEF PollError, closeVars, rebindVars
  <2>2. QED
    BY <1>0, <2>1 DEF Missed, Going
<1>7. CASE PollFailed \/ RebindTimesOut \/ Close
  <2>1. rebindResult' = 0
    BY <1>7 DEF PollFailed, RebindTimesOut, Close, RejectAll
  <2>2. QED
    BY <2>1 DEF Missed
<1>8. CASE StartTimesOut
  <2>1. UNCHANGED <<rebindResult, rebindDeadline, closeP>> /\ Polling /\ Base' = Base
    BY <1>0, <1>8, StartTimesOutDoes DEF StartTimesOut, closeVars, rebindVars
  <2>2. QED
    BY <1>0, <2>1 DEF Missed
<1>9. CASE PollRebinds
  <2>1. closeP' = closeP
    BY <1>9 DEF PollRebinds, closeVars
  <2>2. closeP # "none" => ~Polling'
    BY <1>9, LatePolls
  <2>3. QED
    BY <2>1, <2>2 DEF Missed
<1>10. CASE Aside /\ ~Close
  <2>1. UNCHANGED <<rebindResult, rebindDeadline, closeP>> /\ Steady
    BY <1>0, <1>10, AsideDoes, SameDoes DEF Aside, NativeMoves, NativeRebinds, NativeCloses,
       Tick, vars, closeVars, rebindVars
  <2>2. QED
    BY <1>0, <2>1 DEF Missed, Steady
<1>11. QED
  BY <1>1, <1>2, <1>3, <1>4, <1>5, <1>6, <1>7, <1>8, <1>9, <1>10, Steps

LEMMA EarlyStep ==
  ASSUME IInv, [Next]_vars
  PROVE  (closeP = "none" => late = {})'
<1>0. closeP = "none" => late = {}
  BY DEF IInv, Ends
<1>1. CASE StartEnds \/ RebindEnds
  BY <1>0, <1>1 DEF StartEnds, RebindEnds, Make
<1>2. CASE Close
  BY <1>2 DEF Close
<1>3. CASE CloseEnds
  <2>1. closeP = "pending"
    BY <1>3, Running, CloseEndsDoes DEF IInv, Closing, Going
  <2>2. closeP' = "resolved"
    BY <1>3, <2>1 DEF CloseEnds, Settled
  <2>3. QED
    BY <2>2
<1>4. CASE ~StartEnds /\ ~RebindEnds /\ ~Close /\ ~CloseEnds
  <2>1. UNCHANGED <<closeP, late>>
    BY <1>4, LateKept
  <2>2. QED
    BY <1>0, <2>1
<1>5. QED
  BY <1>1, <1>2, <1>3, <1>4

\* Only those promises are pending on a closing tailnet that were made after close().
LEMMA FinalStep ==
  ASSUME IInv, [Next]_vars
  PROVE  ClosedIsFinal'
<1>0. /\ ClosedIsFinal /\ NoOrphan /\ Numbers /\ Stacked /\ TypeOK
      /\ closeP = "none" => late = {}
  BY Running DEF IInv, PromisesAreKept, Ends
<1>1. CASE Close
  <2>1. closeP = "none" /\ late' = {}
    BY <1>0, <1>1 DEF Close
  <2>2. RejectAll("closed")
    BY <1>1 DEF Close
  <2>3. startP' # "pending"
    BY <1>0, <2>2 DEF RejectAll, Settled, NoOrphan
  <2>4. \A i \in DOMAIN rebindP' : i \in DOMAIN rebindP /\ rebindP'[i] # "pending"
    BY <1>0, <2>2 DEF RejectAll, Settled, NoOrphan
  <2>5. QED
    BY <2>1, <2>3, <2>4 DEF ClosedIsFinal
<1>2. CASE StartEnds
  <2>1. startP' = "pending" /\ UNCHANGED <<closeP, rebindP>>
    BY <1>2 DEF StartEnds, rebindVars
  <2>2. closeP # "none" => late' = late \cup {0}
    BY <1>2 DEF StartEnds, Make
  <2>3. \A i \in DOMAIN rebindP : i # 0
    BY <1>0 DEF Numbers
  <2>4. QED
    BY <1>0, <2>1, <2>2, <2>3 DEF ClosedIsFinal
<1>3. CASE RebindEnds
  <2>1. PICK n \in 1..MaxRebinds : n = Head(stack).id
    <3>1. stack # <<>> /\ Head(stack) \in Frames /\ Head(stack).at = "rebind"
      BY <1>0, <1>3, HeadTailProperties DEF RebindEnds, At, Stacked
    <3>2. QED
      BY <3>1, FramesAre DEF Numbered
  <2>2. rebindP' = [rebindP EXCEPT ![n] = "pending"] /\ UNCHANGED <<closeP, startP>>
    BY <1>3, <2>1 DEF RebindEnds, startVars
  <2>3. closeP # "none" => late' = late \cup {n}
    BY <1>3, <2>1 DEF RebindEnds, Make
  <2>4. n # 0 /\ DOMAIN rebindP = 1..MaxRebinds
    BY <1>0, <2>1 DEF Numbers
  <2>5. DOMAIN rebindP' = 1..MaxRebinds /\ rebindP'[n] = "pending"
        /\ \A i \in 1..MaxRebinds : i # n => rebindP'[i] = rebindP[i]
    BY <2>1, <2>2, <2>4
  <2>6. QED
    BY <1>0, <2>1, <2>2, <2>3, <2>4, <2>5 DEF ClosedIsFinal
<1>4. CASE PollFailed \/ PollStarts \/ StartTimesOut \/ PollRebinds \/ RebindTimesOut
  <2>1. UNCHANGED <<closeP, late>>
    BY <1>4 DEF PollFailed, PollStarts, StartTimesOut, PollRebinds, RebindTimesOut, closeVars
  <2>2. closeP # "none" => UNCHANGED <<startP, rebindP>>
    BY <1>4, LatePolls
  <2>3. QED
    BY <1>0, <2>1, <2>2 DEF ClosedIsFinal
<1>5. CASE CloseEnds
  <2>1. closeP = "pending"
    BY <1>5, Running, CloseEndsDoes DEF IInv, Closing, Going
  <2>2. UNCHANGED <<startP, rebindP, late>>
    BY <1>5 DEF CloseEnds, startVars, rebindVars
  <2>3. QED
    BY <1>0, <2>1, <2>2 DEF ClosedIsFinal
<1>6. CASE /\ ~Close /\ ~StartEnds /\ ~RebindEnds /\ ~CloseEnds
           /\ ~PollFailed /\ ~PollStarts /\ ~StartTimesOut /\ ~PollRebinds /\ ~RebindTimesOut
  <2>1. UNCHANGED <<closeP, late>>
    BY <1>6, LateKept
  <2>2. UNCHANGED startP
    BY <1>6, StartKept DEF startVars
  <2>3. UNCHANGED rebindP
    BY <1>6, Zenon DEF Next, PollStep, Start, Rebind, Return, Poll, PollClosing, PollAuth,
       PollError, NativeMoves, NativeRebinds, NativeCloses, Tick, vars, rebindVars
  <2>4. QED
    BY <1>0, <2>1, <2>2, <2>3 DEF ClosedIsFinal
<1>7. QED
  BY <1>1, <1>2, <1>3, <1>4, <1>5, <1>6

Waiting == startP = "pending" \/ \E i \in DOMAIN rebindP : rebindP[i] = "pending"

\* A promise is made by a call that sets the timer; no step makes one pending again.
LEMMA WaitingKept ==
  ASSUME [Next]_vars, ~StartEnds, ~RebindEnds
  PROVE  Waiting' => Waiting
<1>1. startP' = "pending" => startP = "pending"
  <2>1. CASE PollFailed \/ Close \/ PollStarts \/ StartTimesOut
    BY <2>1 DEF PollFailed, Close, PollStarts, StartTimesOut, RejectAll, Settled
  <2>2. CASE ~PollFailed /\ ~Close /\ ~PollStarts /\ ~StartTimesOut
    BY <2>2, StartKept DEF startVars
  <2>3. QED
    BY <2>1, <2>2
<1>2. \A i \in DOMAIN rebindP' :
        i \in DOMAIN rebindP /\ (rebindP'[i] = "pending" => rebindP[i] = "pending")
  <2>1. CASE PollFailed \/ Close
    <3>1. PICK fate \in {"failed", "closed"} : RejectAll(fate)
      BY <2>1 DEF PollFailed, Close
    <3>2. QED
      BY <3>1 DEF RejectAll, Settled
  <2>2. CASE PollRebinds
    <3>1. \/ rebindP' = rebindP
          \/ rebindP' = [rebindP EXCEPT ![rebindResult] = Settled(@, "resolved")]
      BY <2>2 DEF PollRebinds
    <3>2. QED
      BY <3>1 DEF Settled
  <2>3. CASE RebindTimesOut
    <3>1. rebindP' = [rebindP EXCEPT ![Frame.id] = Settled(@, "timedOut")]
      BY <2>3 DEF RebindTimesOut
    <3>2. QED
      BY <3>1 DEF Settled
  <2>4. CASE ~PollFailed /\ ~Close /\ ~PollRebinds /\ ~RebindTimesOut
    <3>1. UNCHANGED rebindP
      BY <2>4, Zenon DEF Next, PollStep, Start, Rebind, Return, Poll,
         PollClosing, PollAuth, PollError, PollStarts, StartTimesOut, CloseEnds, NativeMoves,
         NativeRebinds, NativeCloses, Tick, vars, rebindVars
    <3>2. QED
      BY <3>1
  <2>5. QED
    BY <2>1, <2>2, <2>3, <2>4
<1>3. QED
  BY <1>1, <1>2 DEF Waiting

LEMMA PolledStep ==
  ASSUME IInv, [Next]_vars
  PROVE  PendingIsPolled'
<1>0. /\ closeP = "none" /\ Waiting => timer
      /\ closeP = "pending" => timer
      /\ closeP = "resolved" => ~timer /\ ~alive
  BY DEF IInv, PromisesAreKept, PendingIsPolled, Waiting
<1>1. CASE StartEnds \/ RebindEnds
  <2>1. alive /\ timer' /\ UNCHANGED <<closeP, alive>>
    BY <1>1, Running, ReturnDoes DEF StartEnds, RebindEnds, closeVars
  <2>2. QED
    BY <1>0, <2>1 DEF PendingIsPolled
<1>2. CASE Close
  <2>1. timer' /\ closeP' = "pending"
    BY <1>2 DEF Close, TimerRuns
  <2>2. QED
    BY <2>1 DEF PendingIsPolled
<1>3. CASE CloseEnds
  <2>1. closeP = "pending" /\ ~alive
    BY <1>3, Running, CloseEndsDoes DEF IInv, Closing, Going
  <2>2. closeP' = "resolved" /\ ~timer' /\ alive' = alive
    BY <1>3, <2>1 DEF CloseEnds, Settled
  <2>3. QED
    BY <2>1, <2>2 DEF PendingIsPolled
<1>4. CASE PollClosing
  <2>1. timer /\ closeP' = closeP /\ timer' = timer
    BY <1>4 DEF PollClosing, PollBegins
  <2>2. QED
    BY <1>0, <2>1 DEF PendingIsPolled
<1>5. CASE ~StartEnds /\ ~RebindEnds /\ ~Close /\ ~CloseEnds /\ ~PollClosing
  <2>1. UNCHANGED <<timer, closeP, alive>>
    BY <1>5, Zenon DEF Next, PollStep, Start, Rebind, Return, Poll, PollAuth,
       PollError, PollFailed, PollStarts, StartTimesOut, PollRebinds,
       RebindTimesOut, NativeMoves, NativeRebinds, NativeCloses, Tick, vars, closeVars
  <2>2. Waiting' => Waiting
    BY <1>5, WaitingKept
  <2>3. (startP' = "pending" \/ \E i \in DOMAIN rebindP' : rebindP'[i] = "pending") => Waiting
    BY <2>2 DEF Waiting
  <2>4. QED
    BY <1>0, <2>1, <2>3 DEF PendingIsPolled
<1>6. QED
  BY <1>1, <1>2, <1>3, <1>4, <1>5

-----------------------------------------------------------------------------
(* The theorems *)

LEMMA InitInvariant ==
  ASSUME Init
  PROVE  IInv
<1>1. Booleans /\ Times /\ Names /\ Counts /\ Numbers
  <2>1. Booleans /\ Names /\ Counts
    BY DEF Init, Booleans, Names, Counts, NativeStates, URLs, Fates
  <2>2. Times
    BY NumbersAre DEF Init, Times
  <2>3. Numbers
    BY NumbersAre DEF Init, Numbers, Fates
  <2>4. QED
    BY <2>1, <2>2, <2>3
<1>2. stack = <<>> /\ stack \in Seq(Frames)
  BY EmptySeq DEF Init
<1>3. Stacked /\ ~Polling /\ ~TimingOut /\ \A label : ~Holds(label)
  BY <1>2, NotRunning
<1>4. TypeOK
  BY <1>1, <1>2, TypeParts
<1>5. Calls
  <2>1. \A label : Once(label)
    BY <1>3 DEF Once, Holds
  <2>2. Latest
    BY <1>3 DEF Latest, Holds
  <2>3. QED
    BY <1>3, <2>1, <2>2 DEF Calls
<1>6. Unstarted /\ Closing /\ Ends
  BY <1>3 DEF Init, Unstarted, Closing, Ends, Failing, Missed
<1>7. Rebinds
  BY <1>3, NumbersAre DEF Init, Rebinds, Command, Current, Believed, Trusted, Expiring
<1>8. Starts /\ Charge
  BY <1>3 DEF Init, Starts, Pending, Resting, Dropped, Past, Fresh, Waited, Within, Watching, Charge
<1>9. PromisesAreKept /\ UserTimeIsFree /\ RebindIsDone
  BY <1>4 DEF Init, PromisesAreKept, NoOrphan, PendingIsPolled, ClosedIsFinal, UserTimeIsFree, RebindIsDone
<1>10. QED
  BY <1>1, <1>2, <1>3, <1>4, <1>5, <1>6, <1>7, <1>8, <1>9 DEF IInv, Stacked

LEMMA InductiveStep ==
  ASSUME IInv, [Next]_vars
  PROVE  IInv'
<1>1. /\ Stacked /\ TypeOK /\ Booleans /\ Times /\ Names /\ Numbers /\ Counts
      /\ Calls /\ Unstarted /\ Closing /\ Starts
  BY Running DEF IInv
<1>2. Stacked'
  BY <1>1, StackedStep
<1>3. Booleans' /\ Times' /\ Names' /\ Numbers'
  BY <1>1, BooleansStep, TimesStep, NamesStep, NumbersStep
<1>4. TypeOK'
  <2>1. stack' \in Seq(Frames)
    BY <1>2 DEF Stacked
  <2>2. (stack \in Seq(Frames) => (TypeOK <=> Booleans /\ Times /\ Names /\ Numbers))'
    BY TypeParts, PTL
  <2>3. QED
    BY <1>3, <2>1, <2>2
<1>5. Counts' /\ Calls' /\ Unstarted' /\ Closing'
  BY <1>1, CountsStep, CallsStep, UnstartedStep, ClosingStep
<1>6. Rebinds' /\ RebindIsDone'
  BY CommandStep, CurrentStep, BelievedStep, TrustedStep, ExpiringStep, RebindIsDoneStep DEF Rebinds
<1>7. Starts'
  BY PendingStep, RestingStep, DroppedStep, PastStep, FreshStep, WaitedStep, WithinStep DEF Starts
<1>8. Charge' /\ UserTimeIsFree'
  BY ChargeStep, UserTimeStep
<1>9. PromisesAreKept'
  BY <1>4, OrphanStep, PolledStep, FinalStep DEF PromisesAreKept
<1>10. Ends'
  BY FailingStep, MissedStep, EarlyStep DEF Ends
<1>11. QED
  BY <1>2, <1>4, <1>5, <1>6, <1>7, <1>8, <1>9, <1>10 DEF IInv, Stacked

\* The inductive invariant holds in every reachable state, for every timeout,
\* depth of the stack and number of rebinds.
THEOREM Invariance == Spec => []IInv
<1>1. IInv /\ [Next]_vars => IInv'
  BY InductiveStep
<1>2. QED
  BY <1>1, InitInvariant, PTL DEF Spec

\* Whatever the callbacks of the application call: a pending promise of start(),
\* rebind() or close() keeps its field and, until close(), the timer that polls it;
\* and once close() was called those are pending that were made after it, and no
\* others, for ever.
THEOREM PromisesHold == Spec => []PromisesAreKept
<1>1. IInv => PromisesAreKept
  BY DEF IInv
<1>2. QED
  BY <1>1, Invariance, PTL

\* start() times out when it has waited connectTimeout for something else than the
\* user, neither earlier nor later, whatever the timeout and the user's turns are.
THEOREM TimeIsItsOwn == Spec => []TimeIsCharged
<1>1. IInv => StartIsBounded
  <2> SUFFICES ASSUME IInv, startP = "pending", closeP = "none"
               PROVE  spent <= Timeout + waits + 1
    BY DEF StartIsBounded
  <2>1. startResult
    BY DEF IInv, Starts, Pending
  <2>2. /\ Charged /\ now \in Nat /\ spent \in Nat /\ waits \in Nat /\ Timeout \in Nat
        /\ startDeadline = Unset => remaining \in Nat
        /\ startDeadline # Unset => startDeadline \in Nat
        /\ Watching => Base.now \in Nat /\ Base.now <= now /\ now <= Base.now + One(due)
        /\ due \in BOOLEAN
    BY <2>1, ChargeHas
  <2>3. ASSUME NEW rest \in Nat, Rests(rest) PROVE spent <= Timeout + waits + 1
    BY <2>2, <2>3 DEF Rests, One
  <2>4. ASSUME NEW deadline \in Nat, Runs(deadline), now <= deadline + 1
        PROVE  spent <= Timeout + waits + 1
    BY <2>2, <2>4 DEF Runs, One
  <2>5. CASE Watching
    <3>1. now <= Base.now + 1
      BY <2>2, <2>5 DEF One
    <3>2. CASE startDeadline = Unset
      <4>1. Base.now + remaining \in Nat /\ now <= Base.now + remaining + 1
        BY <2>2, <2>5, <3>1, <3>2
      <4>2. Rests(remaining) \/ Runs(Base.now + remaining)
        BY <2>2, <2>5, <3>2 DEF Charged
      <4>3. QED
        BY <2>2, <2>3, <2>4, <3>2, <4>1, <4>2
    <3>3. CASE startDeadline # Unset
      <4>1. /\ Base.now <= startDeadline
            /\ Rests(startDeadline - Base.now) \/ Runs(startDeadline)
        BY <2>2, <2>5, <3>3 DEF Charged
      <4>2. startDeadline - Base.now \in Nat /\ now <= startDeadline + 1
        BY <2>2, <2>5, <3>1, <3>3, <4>1
      <4>3. QED
        BY <2>2, <2>3, <2>4, <3>3, <4>1, <4>2
    <3>4. QED
      BY <3>2, <3>3
  <2>6. CASE ~Watching /\ (TimingOut \/ (Polling /\ Base.at = "failed"))
    BY <2>2, <2>6 DEF Charged, One
  <2>7. CASE ~Watching /\ ~(TimingOut \/ (Polling /\ Base.at = "failed"))
    <3>1. IF startDeadline = Unset THEN Rests(remaining)
          ELSE now + One(~due) <= startDeadline /\ Runs(startDeadline)
      BY <2>2, <2>7 DEF Charged
    <3>2. startDeadline # Unset => now <= startDeadline + 1
      BY <2>2, <3>1 DEF One
    <3>3. QED
      BY <2>2, <2>3, <2>4, <3>1, <3>2
  <2>8. QED
    BY <2>5, <2>6, <2>7
<1>2. IInv => TimeIsCharged
  BY <1>1 DEF IInv, TimeIsCharged
<1>3. QED
  BY <1>2, Invariance, PTL

\* The "connected" of before a rebind is never taken for its end, whatever the
\* settling time is, as long as the manager takes a command within it.
THEOREM RebindsAreDone == Spec => []RebindIsDone
<1>1. IInv => RebindIsDone
  BY DEF IInv
<1>2. QED
  BY <1>1, Invariance, PTL
====
