------------------------------ MODULE CameraHub ------------------------------
(***************************************************************************)
(* One camera's record in tools/camera-server.ts, between the camera's     *)
(* successive WebSocket sessions, the dashboard's viewers and the command  *)
(* API.  The hub is one event loop: an action is one callback.  What is in *)
(* flight is a FIFO per direction and connection; the camera gives a       *)
(* connection up at any time, the hub may hear of it much later, and a     *)
(* connection it is closing still delivers what was sent on it.            *)
(***************************************************************************)
EXTENDS Naturals, Sequences, FiniteSets

CONSTANTS Sockets,      \* the connections the camera makes, one after another
          Viewers,      \* dashboard streams
          MaxHistory,   \* MAX_COMMAND_HISTORY
          MaxCommands,  \* bound: commands the hub sends
          MaxUp,        \* bound: messages of the camera in flight
          Nobody        \* no connection

ASSUME HubAssumption == /\ Nobody \notin Sockets
                        /\ MaxHistory \in Nat \ {0} /\ MaxCommands \in Nat /\ MaxUp \in Nat

VIEWER_FPS == [none |-> 1, grid |-> 2, detail |-> 8]

Rates == {VIEWER_FPS[m] : m \in {"none", "grid", "detail"}}

VARIABLES
  known,       \* the registry has a record of the camera
  ready,       \* readyState, at the hub
  bound,       \* connections whose callbacks hold the record
  session,     \* record.socket
  watching,    \* record.viewers
  desired, requested,   \* desiredFps, and requestedFps (0 is undefined)
  commands,    \* record.commands, newest first, each with its connection
  sent,        \* number of commands sent
  down, up,    \* messages in flight from and to the hub
  cur,         \* the camera's webSocket
  fps,         \* the camera's CameraStream.fps
  handled,     \* commands the camera has answered
  manual,      \* the last stream.set of the session is the API's
  stopping     \* the hub shuts down

record == <<known, session, desired, requested, commands, sent, manual>>
links == <<ready, bound>>
wires == <<down, up>>
camera == <<cur, fps, handled>>
vars == <<record, watching, links, wires, camera, stopping>>

Init ==
  /\ known = FALSE /\ session = Nobody /\ desired = VIEWER_FPS.none /\ requested = 0
  /\ commands = <<>> /\ sent = 0 /\ manual = FALSE
  /\ watching = [v \in Viewers |-> "none"]
  /\ ready = [s \in Sockets |-> "unused"] /\ bound = {}
  /\ down = [s \in Sockets |-> <<>>] /\ up = [s \in Sockets |-> <<>>]
  /\ cur = Nobody /\ fps \in Rates /\ handled = {} /\ stopping = FALSE

Open(s) == s # Nobody /\ ready[s] = "open"

-----------------------------------------------------------------------------
(* Commands and the stream rate.  An operator whose name starts with Bug is *)
(* a plausible mistake in the definition after it; no specification uses it. *)

BugPushed(entry) == <<entry>> \o commands          \* without the limit
Pushed(entry) == SubSeq(<<entry>> \o commands, 1,
                        IF Len(commands) < MaxHistory THEN Len(commands) + 1 ELSE MaxHistory)

\* sendCommand on an open connection: rate 0 stands for any other command.  One
\* that the camera has left loses it.
SendCommand(s, rate, source) ==
  /\ sent < MaxCommands
  /\ sent' = sent + 1
  /\ commands' = Pushed([id |-> sent', status |-> "pending", via |-> s])
  /\ down' = IF s = cur THEN [down EXCEPT ![s] = Append(@, [id |-> sent', rate |-> rate])] ELSE down
  /\ manual' = IF rate = 0 THEN manual ELSE source = "api"

Desired(who) ==
  CASE \E v \in Viewers : who[v] = "detail" -> VIEWER_FPS.detail
    [] (\A v \in Viewers : who[v] # "detail") /\ (\E v \in Viewers : who[v] = "grid") ->
         VIEWER_FPS.grid
    [] OTHER -> VIEWER_FPS.none

BugStale(s, told, rate) == Open(s) /\ told # 0 /\ told # rate   \* only changes are sent
Stale(s, told, rate) == Open(s) /\ told # rate

\* updateStreamRate, for the viewers, connection and requestedFps it would see.
UpdateStreamRate(who, s, told) ==
  /\ desired' = Desired(who)
  /\ IF Stale(s, told, desired')
     THEN requested' = desired' /\ SendCommand(s, desired', "viewer")
     ELSE requested' = told /\ UNCHANGED <<commands, sent, down, manual>>

-----------------------------------------------------------------------------
(* Messages of a connection *)

\* close(): what the camera has sent is still delivered.
BugReplaced(s) == ready                            \* the old connection stays open
Replaced(s) == IF Open(session) /\ session # s
               THEN [ready EXCEPT ![session] = "closing"] ELSE ready

BugToldAgain == requested                          \* a reconnection keeps requestedFps
ToldAgain == 0

\* On a connection that is being closed send() throws, before the callbacks get
\* the record that already names it.
AcceptHello(s) ==
  /\ known' = TRUE
  /\ ready' = Replaced(s)
  /\ session' = s
  /\ IF Open(s) THEN bound' = bound \cup {s} /\ UpdateStreamRate(watching, s, ToldAgain)
               ELSE requested' = ToldAgain /\ UNCHANGED <<bound, desired, commands, sent, down, manual>>

BugAnswers(i, id) == i = 1 /\ commands[i].id = id  \* looks at the newest only
BugAnyId(i, id) == i = 1                           \* does not compare the id
Answers(i, id) == commands[i].id = id

\* An answer to a command that has left the history is only logged.
AcceptAck(m) == commands' = [i \in DOMAIN commands |->
                               IF Answers(i, m.id) THEN [commands[i] EXCEPT !.status = m.status]
                               ELSE commands[i]]

Refuse(s) == /\ ready' = [ready EXCEPT ![s] = "closing"]
             /\ UNCHANGED <<record, bound, down>>

Hear(s) == /\ ready[s] \in {"open", "closing"} /\ up[s] # <<>>
           /\ up' = [up EXCEPT ![s] = Tail(@)]
           /\ UNCHANGED <<watching, camera, stopping>>

HearHello(s) == /\ Hear(s) /\ Head(up[s]).type = "hello"
                /\ IF s \in bound THEN Refuse(s) ELSE AcceptHello(s)

HearAck(s) == /\ Hear(s) /\ Head(up[s]).type = "ack"
              /\ AcceptAck(Head(up[s]))
              /\ UNCHANGED <<known, session, desired, requested, sent, manual, links, down>>

\* A bound connection's frame is published: HubPersistence follows it.
HearFrame(s) == /\ Hear(s) /\ Head(up[s]).type = "frame"
                /\ IF s \in bound THEN UNCHANGED <<record, links, down>> ELSE Refuse(s)

BugIsSession(s) == s \in bound                     \* any close ends the session
IsSession(s) == s \in bound /\ session = s

\* onclose: the peer closed, or the idle timeout passed.
SocketCloses(s) ==
  /\ ready[s] \in {"open", "closing"}
  /\ ready' = [ready EXCEPT ![s] = "closed"]
  /\ IF IsSession(s) THEN session' = Nobody /\ requested' = 0
                     ELSE UNCHANGED <<session, requested>>
  /\ up' = [up EXCEPT ![s] = <<>>]
  /\ down' = [down EXCEPT ![s] = <<>>]
  /\ UNCHANGED <<known, desired, commands, sent, manual, watching, bound, camera, stopping>>

\* The peer's close has been read and its event has not run.
SocketCloseArrives(s) == /\ ready[s] = "open" /\ cur # s
                         /\ ready' = [ready EXCEPT ![s] = "closing"]
                         /\ UNCHANGED <<record, watching, bound, wires, camera, stopping>>

-----------------------------------------------------------------------------
(* The dashboard and the command API *)

\* streamResponse: start
ViewerOpens(v, mode) == /\ known /\ ~stopping /\ watching[v] = "none"
                        /\ watching' = [watching EXCEPT ![v] = mode]
                        /\ UpdateStreamRate(watching', session, requested)
                        /\ UNCHANGED <<known, session, links, up, camera, stopping>>

BugRemaining(v) == watching                        \* cancel() forgets the viewer
Remaining(v) == [watching EXCEPT ![v] = "none"]

\* streamResponse: cancel
ViewerLeaves(v) == /\ watching[v] # "none"
                   /\ watching' = [watching EXCEPT ![v] = "none"]
                   /\ UpdateStreamRate(Remaining(v), session, requested)
                   /\ UNCHANGED <<known, session, links, up, camera, stopping>>

\* commandResponse; of a camera that is not connected it answers 409.
ApiCommand(rate) == /\ known /\ ~stopping /\ Open(session)
                    /\ SendCommand(session, rate, "api")
                    /\ UNCHANGED <<known, session, desired, requested, watching, links, up,
                                   camera, stopping>>

\* close(): a record's open connection is closed and forgotten.  One that has not
\* said hello yet is not, and may still become the session.
Shutdown == /\ ~stopping
            /\ stopping' = TRUE
            /\ IF Open(session)
               THEN /\ ready' = [ready EXCEPT ![session] = "closing"]
                    /\ session' = Nobody /\ requested' = 0
               ELSE UNCHANGED <<ready, session, requested>>
            /\ UNCHANGED <<known, desired, commands, sent, manual, watching, bound, wires, camera>>

-----------------------------------------------------------------------------
(* The camera *)

Hello == [type |-> "hello"]
Frame == [type |-> "frame"]

\* It opens a connection and says hello; a client that does not keep to the
\* protocol sends a frame first, or hello twice.
Connect(s) == /\ ~stopping /\ cur = Nobody /\ ready[s] = "unused"
              /\ cur' = s
              /\ ready' = [ready EXCEPT ![s] = "open"]
              /\ \E first \in {<<Hello>>, <<Frame, Hello>>, <<Hello, Hello>>} :
                   up' = [up EXCEPT ![s] = first]
              /\ UNCHANGED <<record, watching, bound, down, fps, handled, stopping>>

\* The bound leaves room for an answer: frames hold up no command.
SendFrame(s) == /\ cur = s /\ s \in bound /\ Len(up[s]) + 1 < MaxUp
                /\ up' = [up EXCEPT ![s] = Append(@, Frame)]
                /\ UNCHANGED <<record, watching, links, down, camera, stopping>>

Ack(id, status) == [type |-> "ack", id |-> id, status |-> status]

\* What the camera answers: that it carried the command out; that it did not, or
\* that its answer could not be sent; or both, where the first answer was not
\* written within 30 s and yet is still on its way.
Replies(id) == {<<Ack(id, "ok")>>, <<Ack(id, "error")>>, <<Ack(id, "ok"), Ack(id, "error")>>}

\* handleCommand, and the second answer of readServerMessages; where that one fails
\* too the camera disconnects.
Handle(s) ==
  /\ cur = s /\ down[s] # <<>>
  /\ LET m == Head(down[s])
     IN /\ fps' = IF m.rate = 0 THEN fps ELSE m.rate
        /\ handled' = handled \cup {m.id}
        /\ \E replies \in Replies(m.id) : /\ Len(up[s]) + Len(replies) <= MaxUp
                                          /\ up' = [up EXCEPT ![s] = @ \o replies]
  /\ down' = [down EXCEPT ![s] = Tail(@)]
  /\ UNCHANGED <<record, watching, links, cur, stopping>>

\* The camera gives the connection up, or sees it closed; what it was sent is
\* lost, what it sent last may be.
Disconnect(s) == /\ cur = s
                 /\ cur' = Nobody
                 /\ \E n \in 0..Len(up[s]) : up' = [up EXCEPT ![s] = SubSeq(@, 1, n)]
                 /\ down' = [down EXCEPT ![s] = <<>>]
                 /\ UNCHANGED <<record, watching, links, fps, handled, stopping>>

-----------------------------------------------------------------------------
HearStep(s) == HearHello(s) \/ HearAck(s) \/ HearFrame(s)

Next ==
  \/ \E s \in Sockets : \/ HearStep(s) \/ SocketCloses(s) \/ SocketCloseArrives(s)
                        \/ Connect(s) \/ SendFrame(s) \/ Handle(s) \/ Disconnect(s)
  \/ \E v \in Viewers : ViewerLeaves(v) \/ \E mode \in {"grid", "detail"} : ViewerOpens(v, mode)
  \/ \E rate \in {0, 5} : ApiCommand(rate)
  \/ Shutdown

Spec == Init /\ [][Next]_vars

\* The hub's event loop and the camera's take the messages that arrive.
FairSpec == Spec /\ \A s \in Sockets : WF_vars(HearStep(s)) /\ WF_vars(Handle(s))

-----------------------------------------------------------------------------
\* The values the variables range over.
TypeOK ==
  /\ known \in BOOLEAN /\ session \in Sockets \cup {Nobody}
  /\ desired \in Rates /\ requested \in Rates \cup {0}
  /\ commands \in Seq([id : 1..MaxCommands, status : {"pending", "ok", "error"}, via : Sockets])
  /\ Len(commands) <= MaxHistory /\ sent \in 0..MaxCommands
  /\ ready \in [Sockets -> {"unused", "open", "closing", "closed"}] /\ bound \subseteq Sockets
  /\ watching \in [Viewers -> {"none", "grid", "detail"}]
  /\ cur \in Sockets \cup {Nobody} /\ fps \in Rates \cup {5} /\ handled \subseteq 1..MaxCommands
  /\ manual \in BOOLEAN /\ stopping \in BOOLEAN

\* A connection that said hello and is open is the record's: a reconnection
\* replaces the old one, and the old one's late close, or late hello, never
\* leaves two nor hides the new one ("device reconnected", onclose's guard).
OneSession == \A s \in bound : ready[s] = "open" => session = s

\* The rate the hub believes it asked for is the one its viewers need,
\* through every reconnection and every viewer that comes or goes.
RateIsRequested == Open(session) => requested = desired /\ desired = Desired(watching)

\* Once nothing is in flight to a connected camera it streams at the rate the
\* viewers need, whatever rate it had in an earlier session; only an API
\* stream.set overrides that.
QuietRate == cur # Nobody /\ cur = session /\ Open(cur) /\ down[cur] = <<>> /\ ~manual
               => fps = Desired(watching)

\* A command is reported answered only if the camera answered it.
AnsweredIsHandled == \A i \in DOMAIN commands :
                       commands[i].status # "pending" => commands[i].id \in handled

\* Once nothing is in flight on a session, none of its commands still in the
\* history is pending: no answer is lost or booked on another command.
QuietHistory == cur # Nobody /\ cur = session /\ down[cur] = <<>> /\ up[cur] = <<>> =>
                  \A i \in DOMAIN commands : commands[i].via = cur => commands[i].status # "pending"

\* The rate the hub believes in and the rate the camera has.
RateIsTrue == RateIsRequested /\ QuietRate

\* What the history shows of a command is what became of it.
HistoryIsTrue == TypeOK /\ AnsweredIsHandled /\ QuietHistory

-----------------------------------------------------------------------------
\* A connected camera comes to stream at the rate its viewers need.
RateSettles ==
  (cur # Nobody /\ cur = session /\ Open(cur))
    ~> (fps = Desired(watching) \/ cur # session \/ ~Open(session) \/ manual)
=============================================================================
