------------------------------ MODULE CameraLink ------------------------------
(***************************************************************************)
(* One open WebSocket session of the camera: how WebSocketStream passes    *)
(* messages to the WebSocket client and from it, with the credit the       *)
(* client grants, and the two async functions that share the stream:       *)
(* CameraStream.run, which sends a hello and then frames, and              *)
(* readServerMessages, which answers commands.  Messages are numbered in   *)
(* the order of send() and have a size; one event loop runs everything,    *)
(* and an awaiting function goes on some time after its promise settles.   *)
(***************************************************************************)
EXTENDS Naturals, Sequences, FiniteSets

CONSTANTS Room,         \* the WebSocket client's buffer
          TextSize,     \* size of a JSON message and of a close
          FrameSize,    \* size of a JPEG
          MaxFrames,    \* bound: frames the camera has
          MaxCommands   \* bound: fragments of commands that arrive

ASSUME LinkAssumption == /\ Room \in Nat \ {0}
                         /\ TextSize \in Nat \ {0} /\ FrameSize \in Nat \ {0}
                         /\ MaxFrames \in Nat /\ MaxCommands \in Nat

VARIABLES
  state,      \* #state from 1 on: "open", "closing", "closed"
  room,       \* #writableLength
  buffers,    \* #writableBuffers: the message and how much of it is left
  free,       \* the room the client really has
  peer,       \* what the client has passed on: messages, and one half way
  sends,      \* messages sent, and how their callbacks were called
  stash,      \* #readableOptions of a fragment not yet read, or "none"
  queue,      \* messages in the readable stream
  arrived,    \* fragments that arrived
  current,    \* webSocket === socket
  session,    \* openWebSocket still awaits the race
  capture,    \* this.camera: "none", "idle" when it was not started, "on"
  cam, camId, \* where run is, and the message it awaits
  reader, readerId  \* where readServerMessages is, and the message it awaits

out == <<room, buffers, free, peer, sends>>
in == <<stash, queue, arrived>>
tasks == <<cam, camId, reader, readerId>>
linkVars == <<state, out, in, current, session, capture, tasks>>

Nothing == [ids |-> {}, size |-> 0]

\* The session has opened, so the client has sent its handshake and holds
\* nothing; the camera may be open from an earlier session.
LinkInit ==
  /\ state = "open" /\ free = Room /\ room = free
  /\ buffers = <<>> /\ sends = <<>>
  /\ peer = [heard |-> <<>>, half |-> Nothing]
  /\ stash = "none" /\ queue = 0 /\ arrived = 0
  /\ current = TRUE /\ session = "running" /\ capture \in {"none", "idle", "on"}
  /\ cam = "start" /\ camId = 0 /\ reader = "read" /\ readerId = 0

-----------------------------------------------------------------------------
(* WebSocketStream, towards the client.  An operator whose name starts with *)
(* Bug is a plausible mistake in the definition after it; no specification  *)
(* uses it.                                                                 *)

Fragment(id, size, more) == [id |-> id, size |-> size, more |-> more]

BugMore == FALSE                       \* a part is sent as if it were all
More == TRUE

\* The peer joins fragments until one has no "more".
Hear(p, f) ==
  LET joined == [ids |-> p.half.ids \cup {f.id}, size |-> p.half.size + f.size]
  IN IF f.more THEN [p EXCEPT !.half = joined]
               ELSE [heard |-> Append(p.heard, joined), half |-> Nothing]

ClientWrite(fragment) == peer' = Hear(peer, fragment)

Size(kind) == IF kind = "frame" THEN FrameSize ELSE TextSize

\* #write, for a message that its caller may send.
Write(kind) ==
  LET id == Len(sends) + 1
      size == Size(kind)
      whole == buffers = <<>> /\ size <= room
      part == IF buffers = <<>> /\ ~whole THEN room ELSE 0
  IN /\ sends' = Append(sends, [kind |-> kind, done |-> IF whole THEN "ok" ELSE "pending"])
     /\ IF whole THEN ClientWrite(Fragment(id, size, FALSE))
        ELSE IF part > 0 THEN ClientWrite(Fragment(id, part, More)) ELSE UNCHANGED peer
     /\ buffers' = IF whole THEN buffers ELSE Append(buffers, [id |-> id, left |-> size - part])
     /\ free' = free - (IF whole THEN size ELSE part)
     /\ room' = IF whole \/ part > 0 THEN free' ELSE room

\* close(): a close message behind what is queued, once.
CloseSocket == IF state = "open"
               THEN state' = "closing" /\ Write("close")
               ELSE UNCHANGED <<state, out>>

\* How much of the client's room is used up after each of the first k messages,
\* where they fit.
Offsets(k) == {offset \in [0..k -> 0..free] :
                 offset[0] = 0 /\ \A i \in 1..k : offset[i] = offset[i - 1] + buffers[i].left}

\* "if" where there is "while": one message at most.
BugStops(k, rest) == k = IF Len(buffers) > 0 /\ buffers[1].left <= free THEN 1 ELSE 0
Stops(k, rest) == k < Len(buffers) => buffers[k + 1].left > rest

\* The peer after the first k messages: the first one ends what is half way.
Passed(k) ==
  IF k = 0 THEN peer
  ELSE LET first == [ids |-> peer.half.ids \cup {buffers[1].id},
                     size |-> peer.half.size + buffers[1].left]
           whole(i) == IF i = 1 THEN first ELSE [ids |-> {buffers[i].id}, size |-> buffers[i].left]
       IN [heard |-> peer.heard \o [i \in 1..k |-> whole(i)], half |-> Nothing]

BugRemainder(b, n) == b                \* offset is not advanced
Remainder(b, n) == [b EXCEPT !.left = @ - n]

\* onWritable passes on k messages, all that fit, and then a part of the next.
\* Each has a byte at least, so no more than free of them fit.
PassOn(k, rest) ==
  LET tail == SubSeq(buffers, k + 1, Len(buffers))
      part == k < Len(buffers) /\ rest > 0
  IN /\ IF part
        THEN /\ peer' = Hear(Passed(k), Fragment(Head(tail).id, rest, More))
             /\ buffers' = <<Remainder(Head(tail), rest)>> \o Tail(tail)
             /\ free' = 0
        ELSE /\ peer' = Passed(k)
             /\ buffers' = tail
             /\ free' = rest
     /\ sends' = [i \in DOMAIN sends |->
                    IF \E j \in 1..k : buffers[j].id = i THEN [sends[i] EXCEPT !.done = "ok"]
                    ELSE sends[i]]

OnWritable ==
  /\ state # "closed" /\ room < free
  /\ \E k \in {n \in 0..Len(buffers) : n <= free} : \E offset \in Offsets(k) :
       /\ Stops(k, free - offset[k])
       /\ PassOn(k, free - offset[k])
  /\ room' = free'
  /\ UNCHANGED <<state, in, current, session, capture, tasks>>

\* The client's TCP connection takes some of what the client holds.
Drain == /\ state # "closed" /\ free < Room
         /\ free' \in (free + 1)..Room
         /\ UNCHANGED <<state, room, buffers, peer, sends, in, current, session, capture, tasks>>

BugDrained == buffers                  \* forgets what is queued
Drained == <<>>

\* The peer's close or a transport error: #drainWritable fails what is queued.
LinkEnds ==
  /\ state # "closed"
  /\ state' = "closed"
  /\ buffers' = Drained
  /\ sends' = [i \in DOMAIN sends |-> IF sends[i].done = "pending"
                                      THEN [sends[i] EXCEPT !.done = "failed"] ELSE sends[i]]
  /\ UNCHANGED <<room, free, peer, in, current, session, capture, tasks>>

-----------------------------------------------------------------------------
(* WebSocketStream, from the client *)

BugWants == queue <= 1                 \* reads one message ahead
Wants == queue = 0                     \* desiredSize > 0

\* #read: a message is enqueued with its last fragment.
Take(fragment, held) == queue' = IF fragment = "last" THEN held + 1 ELSE held

\* onReadable; the client has the next fragment only when this one is read.
Arrive(fragment) ==
  /\ state # "closed" /\ stash = "none" /\ arrived < MaxCommands
  /\ arrived' = arrived + 1
  /\ IF Wants THEN Take(fragment, queue) /\ UNCHANGED stash
              ELSE stash' = fragment /\ UNCHANGED queue
  /\ UNCHANGED <<state, out, current, session, capture, tasks>>

BugPulls == FALSE                      \* waits for the next onReadable
Pulls == stash # "none" /\ state # "closed"

\* reader.read() takes a message, and the stream pulls.
Dequeue == /\ queue > 0
           /\ IF Pulls THEN Take(stash, queue - 1) /\ stash' = "none"
                       ELSE queue' = queue - 1 /\ UNCHANGED stash
           /\ UNCHANGED arrived

-----------------------------------------------------------------------------
(* CameraStream.run *)

BugConnected == TRUE                   \* does not ask
Connected == current                   \* isConnected()

Done(id) == sends[id].done

\* The frames whose callback has not run: M5Camera's pendingFrame, not closed yet.
Lent == {i \in DOMAIN sends : sends[i].kind = "frame" /\ sends[i].done = "pending"}

Frames == Cardinality({i \in DOMAIN sends : sends[i].kind = "frame"})

\* send() throws unless the stream is open; both writeWithTimeout and
\* streamFrames end with that error.
CamSends(kind, where) ==
  /\ IF state = "open"
     THEN cam' = where /\ camId' = Len(sends) + 1 /\ Write(kind)
     ELSE cam' = "ended" /\ UNCHANGED <<camId, out>>
  /\ UNCHANGED <<state, in, current, session, reader, readerId>>

\* start() throws before this.camera is set, or after.
StartFails == /\ cam = "start" /\ capture = "none"
              /\ capture' \in {"none", "idle"}
              /\ CamSends("report", "report")

\* An open camera is not started again.
StartWorks == /\ cam = "start"
              /\ capture' = IF capture = "none" THEN "on" ELSE capture
              /\ CamSends("hello", "hello")

CamKeeps == UNCHANGED <<state, out, in, current, session, capture, camId, reader, readerId>>

Streams == cam' = IF Connected THEN "timer" ELSE "ended"

CamGoesOn == /\ cam \in {"report", "hello", "frame"} /\ Done(camId) # "pending"
             /\ IF cam # "report" /\ Done(camId) = "ok" THEN Streams ELSE cam' = "ended"
             /\ CamKeeps

\* The 30 s of writeWithTimeout or of a frame; the message stays queued.
CamTimesOut == /\ cam \in {"report", "hello", "frame"} /\ Done(camId) = "pending"
               /\ cam' = "ended"
               /\ CamKeeps

\* sendFrame: the session was replaced, or the encoder throws, ...
FrameEnds == /\ cam = "timer"
             /\ ~Connected \/ capture = "on"
             /\ cam' = "ended"
             /\ CamKeeps

\* ... or the frame is sent.  Without one the timer is only set again.
SendFrame == /\ cam = "timer" /\ Connected /\ capture = "on" /\ Frames < MaxFrames
             /\ CamSends("frame", "frame")
             /\ UNCHANGED capture

CamStep == StartFails \/ StartWorks \/ CamGoesOn \/ CamTimesOut \/ FrameEnds \/ SendFrame

-----------------------------------------------------------------------------
(* readServerMessages and the session *)

\* Its finally block.
ReaderEnds == /\ reader' = "ended" /\ current' = FALSE
              /\ CloseSocket
              /\ UNCHANGED readerId

\* An ok answer that cannot be sent is followed by an error, and that by the end.
Answers(kind) ==
  IF state = "open"
  THEN /\ reader' = kind /\ readerId' = Len(sends) + 1
       /\ Write(kind)
       /\ UNCHANGED <<state, current>>
  ELSE ReaderEnds

ReaderKeeps == UNCHANGED <<session, capture, cam, camId>>

\* The loop goes on while the session is the current one.
Continues == IF current THEN reader' = "read" /\ UNCHANGED <<readerId, state, out, current>>
                        ELSE ReaderEnds

\* A message that is no command is ignored.
ReadCommand == /\ reader = "read"
               /\ Dequeue
               /\ Answers("ack") \/ Answers("nack") \/ Continues
               /\ ReaderKeeps

ReadDone == /\ reader = "read" /\ queue = 0 /\ state = "closed"
            /\ ReaderEnds
            /\ UNCHANGED in /\ ReaderKeeps

AnswerSent == /\ reader \in {"ack", "nack"} /\ Done(readerId) = "ok"
              /\ Continues
              /\ UNCHANGED in /\ ReaderKeeps

\* Failed, or not sent in 30 s.
AnswerFails == /\ reader \in {"ack", "nack"} /\ Done(readerId) # "ok"
               /\ IF reader = "ack" THEN Answers("nack") ELSE ReaderEnds
               /\ UNCHANGED in /\ ReaderKeeps

ReaderStep == ReadCommand \/ ReadDone \/ AnswerSent \/ AnswerFails

\* The race of openWebSocket ends, and its finally block closes the stream.
RaceEnds == /\ session = "running"
            /\ state = "closed" \/ cam = "ended" \/ reader = "ended"
            /\ session' = "over" /\ current' = FALSE
            /\ CloseSocket
            /\ UNCHANGED <<in, capture, tasks>>

\* Wi-Fi goes down.
WifiDown == /\ current
            /\ current' = FALSE
            /\ CloseSocket
            /\ UNCHANGED <<in, session, capture, tasks>>

-----------------------------------------------------------------------------
LinkNext == \/ OnWritable \/ Drain \/ LinkEnds \/ \E f \in {"more", "last"} : Arrive(f)
            \/ CamStep \/ ReaderStep \/ RaceEnds \/ WifiDown

LinkSpec == LinkInit /\ [][LinkNext]_linkVars

(***************************************************************************)
(* The event loop runs what is due.  TCP sends what it holds or fails, for *)
(* it gives up on a peer that never acknowledges.                          *)
(***************************************************************************)
LinkFairness == /\ WF_linkVars(OnWritable) /\ WF_linkVars(CamStep) /\ WF_linkVars(ReaderStep)
                /\ WF_linkVars(RaceEnds)
                /\ WF_linkVars((Drain \/ LinkEnds) /\ free < Room)

LinkFairSpec == LinkSpec /\ LinkFairness

-----------------------------------------------------------------------------
\* The values the variables range over.
LinkTypeOK ==
  /\ state \in {"open", "closing", "closed"} /\ free \in 0..Room /\ room \in 0..Room
  /\ \A i \in DOMAIN buffers : /\ buffers[i].id \in DOMAIN sends
                               /\ buffers[i].left \in 1..Size(sends[buffers[i].id].kind)
  /\ sends \in Seq([kind : {"report", "hello", "frame", "ack", "nack", "close"},
                    done : {"pending", "ok", "failed"}])
  /\ stash \in {"none", "more", "last"} /\ queue \in 0..MaxCommands /\ arrived \in 0..MaxCommands
  /\ current \in BOOLEAN /\ session \in {"running", "over"} /\ capture \in {"none", "idle", "on"}
  /\ cam \in {"start", "report", "hello", "timer", "frame", "ended"}
  /\ camId \in 0..Len(sends) /\ reader \in {"read", "ack", "nack", "ended"}
  /\ readerId \in 0..Len(sends)

\* The peer gets the messages of both functions in the order of send(), each
\* whole and none inside another, and at most the next one half way.
WireIsWhole ==
  LET n == Len(peer.heard)
  IN /\ \A id \in 1..n : peer.heard[id] = [ids |-> {id}, size |-> Size(sends[id].kind)]
     /\ peer.half # Nothing => /\ peer.half.ids = {n + 1}
                               /\ peer.half.size < Size(sends[n + 1].kind)

\* A send() still waits exactly while the rest of it is queued; onComplete means
\* that the client has all of it, onError that it will never have.
SendsAreAccounted ==
  \A id \in DOMAIN sends :
    LET given == IF id \in peer.half.ids THEN peer.half.size ELSE 0
        queued == {buffers[i] : i \in {j \in DOMAIN buffers : buffers[j].id = id}}
    IN CASE sends[id].done = "ok" -> queued = {} /\ id \in DOMAIN peer.heard
         [] sends[id].done = "failed" ->
              queued = {} /\ id \notin DOMAIN peer.heard /\ state = "closed"
         [] OTHER -> queued = {[id |-> id, left |-> Size(sends[id].kind) - given]}

\* write() never gives the client more than it has room for.
CreditIsBacked == room <= free

\* "Only one frame is in flight": however slow the link, frames do not pile up, and
\* a camera that lends its buffers is short of one at most.
OneFrame == Cardinality(Lent) <= 1

\* A fragment that was left with the client is behind a message in the stream,
\* and reading that one pulls it; a single message is held in memory.
StashIsPulled == queue <= 1 /\ (stash # "none" /\ state # "closed" => queue = 1)

\* Both directions, between the two functions and the client.
LinkIsTrue == LinkTypeOK /\ SendsAreAccounted /\ CreditIsBacked /\ OneFrame /\ StashIsPulled

-----------------------------------------------------------------------------
\* What is queued behind a full client is passed on or fails, all of it (as
\* many messages as there are in the bounds).
SendsSettle == (buffers # <<>>) ~> (buffers = <<>>)

\* The camera's task ends once the session is replaced or its stream is closed,
\* whatever it was waiting for: the next session waits for it (main.js:370).
TaskEnds == (~current \/ state = "closed") ~> (cam = "ended")

\* Nothing waits for ever: not a message behind a full client, not the camera's
\* task behind a session that is over.
LinkSettles == SendsSettle /\ TaskEnds
=============================================================================
