------------------------------ MODULE Hub_proofs ------------------------------
(***************************************************************************)
(* The camera hub: one camera's record, with a single session, the rate it *)
(* streams at and the fate of its commands, for any number of connections, *)
(* viewers and commands and any length of the history; and what the hub    *)
(* keeps on disk, for any set of cameras and any number of JPEGs, failures *)
(* and crashes.                                                            *)
(***************************************************************************)
EXTENDS CameraHub, HubPersistence, SequenceTheorems, TLAPS

Commands == [id : 1..MaxCommands, status : {"pending", "ok", "error"}, via : Sockets]

Orders == [id : 1..MaxCommands, rate : Rates \cup {0, 5}]

Acks == [type : {"ack"}, id : 1..MaxCommands, status : {"ok", "error"}]

Wires == /\ down \in [Sockets -> Seq(Orders)]
         /\ up \in [Sockets -> Seq({Hello, Frame} \cup Acks)]

\* A connection that said hello has been opened, and a bound one that the record
\* names has not ended.
Bound == /\ \A s \in bound : ready[s] # "unused"
         /\ session # Nobody => ready[session] # "unused"
         /\ session \in bound => ready[session] # "closed"
         /\ Open(session) => session \in bound
         /\ OneSession

\* The last rate on its way to the camera is the one the hub asked for; where
\* none is, the camera has it.
Told(orders, has, asked) ==
  \/ has = asked /\ \A i \in 1..Len(orders) : orders[i].rate = 0
  \/ \E i \in 1..Len(orders) : /\ orders[i].rate = asked
                               /\ \A j \in i + 1..Len(orders) : orders[j].rate = 0

Rate == /\ RateIsRequested
        /\ cur # Nobody /\ cur = session /\ Open(cur) /\ ~manual => Told(down[cur], fps, requested)

\* A pending command is on its way to the camera, or its answer is on its way back.
Asked(id) == \E i \in 1..Len(down[cur]) : down[cur][i].id = id
Answered(id) == \E i \in 1..Len(up[cur]) : up[cur][i].type = "ack" /\ up[cur][i].id = id

NoneForgotten ==
  cur # Nobody /\ ready[cur] # "closed" =>
    \A i \in 1..Len(commands) :
      commands[i].via = cur /\ commands[i].status = "pending"
        => Asked(commands[i].id) \/ Answered(commands[i].id)

History ==
  /\ AnsweredIsHandled
  /\ \A s \in Sockets : \A i \in 1..Len(up[s]) : up[s][i].type = "ack" => up[s][i].id \in handled
  /\ \A i \in 1..Len(commands) : commands[i].via \in bound
  /\ NoneForgotten

IInv == TypeOK /\ Wires /\ Bound /\ Rate /\ History

-----------------------------------------------------------------------------
(* What a command and a change of rate do *)

LEMMA RatesAre == Rates = {1, 2, 8}
  BY DEF Rates, VIEWER_FPS

LEMMA DesiredIsRate == ASSUME NEW who PROVE Desired(who) \in Rates
<1>1. CASE \E v \in Viewers : who[v] = "detail"
  BY <1>1, RatesAre DEF Desired, VIEWER_FPS
<1>2. CASE ~(\E v \in Viewers : who[v] = "detail") /\ (\E v \in Viewers : who[v] = "grid")
  BY <1>2, RatesAre DEF Desired, VIEWER_FPS
<1>3. CASE ~(\E v \in Viewers : who[v] = "detail") /\ ~(\E v \in Viewers : who[v] = "grid")
  BY <1>3, RatesAre DEF Desired, VIEWER_FPS
<1>4. QED
  BY <1>1, <1>2, <1>3

\* The history has the new entry first, then the old ones it has room for.
LEMMA Pushing ==
  ASSUME commands \in Seq(Commands), Len(commands) <= MaxHistory, NEW entry \in Commands
  PROVE  /\ Pushed(entry) \in Seq(Commands) /\ Len(Pushed(entry)) <= MaxHistory
         /\ \A i \in 1..Len(Pushed(entry)) :
              \/ Pushed(entry)[i] = entry
              \/ \E j \in 1..Len(commands) : Pushed(entry)[i] = commands[j]
<1> DEFINE all == <<entry>> \o commands
           n == IF Len(commands) < MaxHistory THEN Len(commands) + 1 ELSE MaxHistory
<1>1. /\ <<entry>> \in Seq(Commands) /\ Len(<<entry>>) = 1 /\ <<entry>>[1] = entry
      /\ Len(commands) \in Nat
  BY LenProperties
<1>2. /\ all \in Seq(Commands) /\ Len(all) = Len(commands) + 1
      /\ \A i \in 1..Len(commands) + 1 : all[i] = IF i <= 1 THEN entry ELSE commands[i - 1]
  BY <1>1, ConcatProperties
<1>3. n \in 1..Len(commands) + 1 /\ n <= MaxHistory
  BY <1>1, HubAssumption
<1> HIDE DEF all, n
<1>4. \A i \in 1..n : all[i] \in Commands
  BY <1>1, <1>2, <1>3, ElementOfSeq
<1>5. /\ SubSeq(all, 1, n) \in Seq(Commands) /\ Len(SubSeq(all, 1, n)) = n
      /\ \A i \in 1..n : SubSeq(all, 1, n)[i] = all[i]
  <2>1. n \in Int /\ n >= 1
    BY <1>1, <1>3
  <2>2. /\ SubSeq(all, 1, n) \in Seq(Commands)
        /\ Len(SubSeq(all, 1, n)) = IF 1 <= n THEN n - 1 + 1 ELSE 0
        /\ \A i \in 1..n - 1 + 1 : SubSeq(all, 1, n)[i] = all[1 + i - 1]
    BY <1>4, <2>1, SubSeqProperties
  <2>3. QED
    BY <2>1, <2>2
<1>6. \A i \in 1..n : \/ all[i] = entry
                      \/ \E j \in 1..Len(commands) : all[i] = commands[j]
  BY <1>1, <1>2, <1>3
<1>7. Pushed(entry) = SubSeq(all, 1, n)
  BY DEF Pushed, all, n
<1>8. QED
  BY <1>3, <1>5, <1>6, <1>7

LEMMA Sending ==
  ASSUME TypeOK, Wires, NEW s \in Sockets, NEW rate \in Rates \cup {0, 5}, NEW source,
         SendCommand(s, rate, source)
  PROVE  /\ sent' \in 0..MaxCommands /\ sent + 1 \in 1..MaxCommands
         /\ commands' \in Seq(Commands) /\ Len(commands') <= MaxHistory
         /\ down' \in [Sockets -> Seq(Orders)]
         /\ s = cur => down' = [down EXCEPT ![s] = Append(@, [id |-> sent + 1, rate |-> rate])]
         /\ s # cur => down' = down
         /\ \A i \in 1..Len(commands') :
              \/ commands'[i] = [id |-> sent + 1, status |-> "pending", via |-> s]
              \/ \E j \in 1..Len(commands) : commands'[i] = commands[j]
<1> DEFINE entry == [id |-> sent + 1, status |-> "pending", via |-> s]
           order == [id |-> sent + 1, rate |-> rate]
<1>1. sent' = sent + 1 /\ sent + 1 \in 1..MaxCommands
  BY HubAssumption DEF SendCommand, TypeOK
<1>2. entry \in Commands /\ order \in Orders
  BY <1>1 DEF Commands, Orders
<1>3. commands' = Pushed(entry) /\ commands \in Seq(Commands) /\ Len(commands) <= MaxHistory
  BY <1>1 DEF SendCommand, TypeOK, Commands
<1>4. /\ s = cur => down' = [down EXCEPT ![s] = Append(@, order)]
      /\ s # cur => down' = down
  BY <1>1 DEF SendCommand
<1>5. down \in [Sockets -> Seq(Orders)]
  BY DEF Wires
<1> HIDE DEF entry, order
<1>6. Append(down[s], order) \in Seq(Orders)
  BY <1>2, <1>5, AppendProperties
<1>7. down' \in [Sockets -> Seq(Orders)]
  BY <1>4, <1>5, <1>6
<1>8. /\ commands' \in Seq(Commands) /\ Len(commands') <= MaxHistory
      /\ \A i \in 1..Len(commands') :
           \/ commands'[i] = entry
           \/ \E j \in 1..Len(commands) : commands'[i] = commands[j]
  BY <1>2, <1>3, Pushing
<1>9. QED
  BY <1>1, <1>4, <1>7, <1>8 DEF entry, order

\* updateStreamRate: the connection is told where it was not told this rate.
LEMMA Updating ==
  ASSUME NEW who, NEW s, NEW told, UpdateStreamRate(who, s, told)
  PROVE  /\ desired' = Desired(who) /\ desired' \in Rates
         /\ \/ Open(s) /\ requested' = desired' /\ SendCommand(s, desired', "viewer")
            \/ /\ ~Open(s) \/ told = desired'
               /\ requested' = told /\ UNCHANGED <<commands, sent, down, manual>>
<1>1. desired' = Desired(who)
  BY DEF UpdateStreamRate
<1>2. desired' \in Rates
  BY <1>1, DesiredIsRate
<1>3. QED
  BY <1>1, <1>2 DEF UpdateStreamRate, Stale
-----------------------------------------------------------------------------
(* Types *)

Flags == known \in BOOLEAN /\ manual \in BOOLEAN /\ stopping \in BOOLEAN

Links == /\ ready \in [Sockets -> {"unused", "open", "closing", "closed"}] /\ bound \subseteq Sockets
         /\ session \in Sockets \cup {Nobody} /\ cur \in Sockets \cup {Nobody}
         /\ watching \in [Viewers -> {"none", "grid", "detail"}]
         /\ desired \in Rates /\ requested \in Rates \cup {0} /\ fps \in Rates \cup {5}
         /\ handled \subseteq 1..MaxCommands

Story == /\ commands \in Seq(Commands) /\ Len(commands) <= MaxHistory /\ sent \in 0..MaxCommands

LEMMA Parts == TypeOK <=> Flags /\ Links /\ Story
  BY DEF TypeOK, Flags, Links, Story, Commands

LEMMA FlagsStep == ASSUME Flags, [Next]_vars PROVE Flags'
<1>1. CASE \E s \in Sockets : HearHello(s)
  BY <1>1, Zenon DEF Flags, HearHello, Hear, Refuse, AcceptHello, UpdateStreamRate, SendCommand, record
<1>2. CASE \E s \in Sockets : HearAck(s) \/ HearFrame(s)
  BY <1>2, Zenon DEF Flags, HearAck, HearFrame, Hear, Refuse, record
<1>3. CASE \E s \in Sockets : SocketCloses(s) \/ SocketCloseArrives(s) \/ Connect(s)
  BY <1>3, Zenon DEF Flags, SocketCloses, SocketCloseArrives, Connect, record
<1>4. CASE \E s \in Sockets : SendFrame(s) \/ Handle(s) \/ Disconnect(s)
  BY <1>4, Zenon DEF Flags, SendFrame, Handle, Disconnect, record
<1>5. CASE \E v \in Viewers : ViewerLeaves(v) \/ \E mode \in {"grid", "detail"} : ViewerOpens(v, mode)
  BY <1>5, Zenon DEF Flags, ViewerLeaves, ViewerOpens, UpdateStreamRate, SendCommand
<1>6. CASE (\E rate \in {0, 5} : ApiCommand(rate)) \/ Shutdown
  BY <1>6, Zenon DEF Flags, ApiCommand, SendCommand, Shutdown
<1>7. CASE UNCHANGED vars
  BY <1>7, Zenon DEF Flags, vars, record
<1>8. QED
  BY <1>1, <1>2, <1>3, <1>4, <1>5, <1>6, <1>7, Zenon DEF Next, HearStep

\* The heads and tails of the wires, and what an answer says.
LEMMA Heads ==
  ASSUME Wires, NEW s \in Sockets
  PROVE  /\ up[s] # <<>> => /\ Head(up[s]) \in {Hello, Frame} \cup Acks
                            /\ Tail(up[s]) \in Seq({Hello, Frame} \cup Acks)
                            /\ Head(up[s]).type = "ack" => Head(up[s]) \in Acks
         /\ down[s] # <<>> => Head(down[s]) \in Orders /\ Tail(down[s]) \in Seq(Orders)
<1>1. up[s] \in Seq({Hello, Frame} \cup Acks) /\ down[s] \in Seq(Orders)
  BY DEF Wires
<1>2. \A m \in {Hello, Frame} \cup Acks : m.type = "ack" => m \in Acks
  BY DEF Hello, Frame
<1>3. QED
  BY <1>1, <1>2, HeadTailProperties

\* The camera's replies are answers to the command it was given, one at least.
LEMMA Replying ==
  ASSUME Wires, NEW s \in Sockets, Handle(s)
  PROVE  \E replies \in Seq(Acks) :
           /\ Len(replies) >= 1 /\ up' = [up EXCEPT ![s] = @ \o replies]
           /\ \A i \in 1..Len(replies) : replies[i].type = "ack" /\ replies[i].id = Head(down[s]).id
<1> DEFINE id == Head(down[s]).id
<1>1. id \in 1..MaxCommands
  BY Heads DEF Handle, Orders
<1>2. PICK replies \in Replies(id) : up' = [up EXCEPT ![s] = @ \o replies]
  BY Zenon DEF Handle
<1> HIDE DEF id
<1>3. /\ Ack(id, "ok") \in Acks /\ Ack(id, "error") \in Acks
      /\ \A status \in {"ok", "error"} : Ack(id, status).type = "ack" /\ Ack(id, status).id = id
  BY <1>1 DEF Acks, Ack
<1>4. \/ replies = <<Ack(id, "ok")>> \/ replies = <<Ack(id, "error")>>
      \/ replies = <<Ack(id, "ok"), Ack(id, "error")>>
  BY <1>2 DEF Replies
<1>5. /\ replies \in Seq(Acks) /\ Len(replies) >= 1
      /\ \A i \in 1..Len(replies) : replies[i].type = "ack" /\ replies[i].id = id
  <2>1. ASSUME NEW a \in Acks, a.type = "ack", a.id = id
        PROVE  /\ <<a>> \in Seq(Acks) /\ Len(<<a>>) = 1
               /\ \A i \in 1..1 : <<a>>[i].type = "ack" /\ <<a>>[i].id = id
    BY <2>1
  <2>2. ASSUME NEW a \in Acks, NEW b \in Acks, a.type = "ack", b.type = "ack", a.id = id, b.id = id
        PROVE  /\ <<a, b>> \in Seq(Acks) /\ Len(<<a, b>>) = 2
               /\ \A i \in 1..2 : <<a, b>>[i].type = "ack" /\ <<a, b>>[i].id = id
    BY <2>2
  <2> DEFINE ok == Ack(id, "ok")
             no == Ack(id, "error")
  <2>3. /\ ok \in Acks /\ no \in Acks /\ ok.type = "ack" /\ no.type = "ack" /\ ok.id = id /\ no.id = id
        /\ \/ replies = <<ok>> \/ replies = <<no>> \/ replies = <<ok, no>>
    BY <1>3, <1>4
  <2> HIDE DEF ok, no
  <2>4. CASE replies = <<ok>>
    BY <2>1, <2>3, <2>4
  <2>5. CASE replies = <<no>>
    BY <2>1, <2>3, <2>5
  <2>6. CASE replies = <<ok, no>>
    BY <2>2, <2>3, <2>6
  <2>7. QED
    BY <2>3, <2>4, <2>5, <2>6
<1>6. QED
  BY <1>2, <1>5 DEF id

LEMMA LinksStep == ASSUME TypeOK, Wires, [Next]_vars PROVE Links'
<1> USE RatesAre DEF Links, links, wires, camera, record
<1>0. Links
  BY Parts
<1>1. ASSUME NEW s \in Sockets, HearHello(s) PROVE Links'
  <2>1. CASE s \in bound
    BY <1>0, <1>1, <2>1 DEF HearHello, Hear, Refuse
  <2>2. CASE s \notin bound
    <3>1. /\ AcceptHello(s) /\ UNCHANGED <<watching, camera>>
      BY <1>1, <2>2 DEF HearHello, Hear
    <3>2. /\ session' = s /\ ready' \in [Sockets -> {"unused", "open", "closing", "closed"}]
          /\ bound' \subseteq Sockets
      BY <1>0, <3>1 DEF AcceptHello, Replaced
    <3>3. CASE Open(s)
      <4>1. UpdateStreamRate(watching, s, ToldAgain)
        BY <3>1, <3>3 DEF AcceptHello
      <4>2. desired' \in Rates /\ requested' \in Rates \cup {0}
        BY <4>1, Updating DEF ToldAgain
      <4>3. QED
        BY <1>0, <3>1, <3>2, <4>2
    <3>4. CASE ~Open(s)
      BY <1>0, <3>1, <3>2, <3>4 DEF AcceptHello, ToldAgain
    <3>5. QED
      BY <3>3, <3>4
  <2>3. QED
    BY <2>1, <2>2
<1>2. ASSUME NEW s \in Sockets, HearAck(s) \/ HearFrame(s) PROVE Links'
  BY <1>0, <1>2 DEF HearAck, HearFrame, Hear, Refuse
<1>3. ASSUME NEW s \in Sockets, SocketCloses(s) \/ SocketCloseArrives(s) PROVE Links'
  BY <1>0, <1>3 DEF SocketCloses, SocketCloseArrives
<1>4. ASSUME NEW s \in Sockets, Connect(s) \/ SendFrame(s) \/ Disconnect(s) PROVE Links'
  BY <1>0, <1>4 DEF Connect, SendFrame, Disconnect
<1>5. ASSUME NEW s \in Sockets, Handle(s) PROVE Links'
  <2>1. Head(down[s]) \in Orders
    BY <1>5, Heads DEF Handle
  <2>2. Head(down[s]).rate \in Rates \cup {0, 5} /\ Head(down[s]).id \in 1..MaxCommands
    BY <2>1 DEF Orders
  <2>3. fps' \in Rates \cup {5} /\ handled' \subseteq 1..MaxCommands
    BY <1>0, <1>5, <2>2 DEF Handle
  <2>4. QED
    BY <1>0, <1>5, <2>3 DEF Handle
<1>6. ASSUME NEW v \in Viewers, ViewerLeaves(v) PROVE Links'
  <2>1. UpdateStreamRate(Remaining(v), session, requested)
    BY <1>6 DEF ViewerLeaves
  <2>2. desired' \in Rates /\ requested' \in Rates \cup {0}
    BY <1>0, <2>1, Updating
  <2>3. QED
    BY <1>0, <1>6, <2>2 DEF ViewerLeaves
<1>7. ASSUME NEW v \in Viewers, NEW mode \in {"grid", "detail"}, ViewerOpens(v, mode) PROVE Links'
  <2>1. UpdateStreamRate(watching', session, requested)
    BY <1>7 DEF ViewerOpens
  <2>2. desired' \in Rates /\ requested' \in Rates \cup {0}
    BY <1>0, <2>1, Updating
  <2>3. QED
    BY <1>0, <1>7, <2>2 DEF ViewerOpens
<1>8. CASE (\E rate \in {0, 5} : ApiCommand(rate)) \/ Shutdown
  BY <1>0, <1>8 DEF ApiCommand, Shutdown
<1>9. CASE UNCHANGED vars
  BY <1>0, <1>9 DEF vars
<1>10. QED
  BY <1>1, <1>2, <1>3, <1>4, <1>5, <1>6, <1>7, <1>8, <1>9, Zenon DEF Next, HearStep

\* An answer changes the status of its command and nothing else.
LEMMA Answering ==
  ASSUME commands \in Seq(Commands), NEW m \in Acks, AcceptAck(m)
  PROVE  /\ commands' \in Seq(Commands) /\ Len(commands') = Len(commands)
         /\ \A i \in 1..Len(commands) :
              /\ commands'[i].id = commands[i].id /\ commands'[i].via = commands[i].via
              /\ commands[i].id = m.id => commands'[i].status # "pending"
              /\ commands[i].id # m.id => commands'[i] = commands[i]
<1>1. /\ Len(commands) \in Nat /\ DOMAIN commands = 1..Len(commands)
      /\ \A i \in 1..Len(commands) : commands[i] \in Commands
  BY LenProperties, ElementOfSeq
<1>2. commands' = [i \in 1..Len(commands) |->
                     IF commands[i].id = m.id THEN [commands[i] EXCEPT !.status = m.status]
                     ELSE commands[i]]
  BY <1>1 DEF AcceptAck, Answers
<1>3. \A i \in 1..Len(commands) :
        /\ [commands[i] EXCEPT !.status = m.status]
             = [id |-> commands[i].id, status |-> m.status, via |-> commands[i].via]
        /\ [commands[i] EXCEPT !.status = m.status] \in Commands
  BY <1>1 DEF Commands, Acks
<1>4. \A i \in 1..Len(commands) : commands'[i] \in Commands
  BY <1>1, <1>2, <1>3
<1>5. commands' \in [1..Len(commands) -> Commands]
  BY <1>2, <1>4
<1>6. commands' \in Seq(Commands) /\ Len(commands') = Len(commands)
  BY <1>1, <1>5, SeqDef
<1>7. m.status # "pending"
  BY DEF Acks
<1>8. QED
  BY <1>2, <1>3, <1>6, <1>7

\* Who sends: a step leaves the history alone, answers a command, or adds one.
LEMMA Steps ==
  ASSUME TypeOK, Wires, [Next]_vars
  PROVE  \/ UNCHANGED <<commands, sent>>
         \/ \E s \in Sockets : HearAck(s)
         \/ \E s \in Sockets, rate \in Rates \cup {0, 5}, source \in {"api", "viewer"} :
              SendCommand(s, rate, source)
<1> USE DEF record
<1>0. ASSUME NEW who, NEW s, NEW told, s # Nobody => s \in Sockets, UpdateStreamRate(who, s, told)
      PROVE  \/ UNCHANGED <<commands, sent>>
             \/ \E t \in Sockets, rate \in Rates \cup {0, 5}, source \in {"api", "viewer"} :
                  SendCommand(t, rate, source)
  <2>1. \/ UNCHANGED <<commands, sent>>
        \/ s \in Sockets /\ desired' \in Rates /\ SendCommand(s, desired', "viewer")
    BY <1>0, Updating DEF Open
  <2>2. QED
    BY <2>1, Zenon
<1>1. ASSUME NEW s \in Sockets, HearHello(s)
      PROVE  \/ UNCHANGED <<commands, sent>>
             \/ \E t \in Sockets, rate \in Rates \cup {0, 5}, source \in {"api", "viewer"} :
                  SendCommand(t, rate, source)
  BY <1>0, <1>1, Zenon DEF HearHello, Refuse, AcceptHello
<1>2. ASSUME NEW s \in Sockets, HearFrame(s) PROVE UNCHANGED <<commands, sent>>
  BY <1>2, Zenon DEF HearFrame, Refuse
<1>3. ASSUME NEW s \in Sockets, \/ SocketCloses(s) \/ SocketCloseArrives(s) \/ Connect(s)
                                \/ SendFrame(s) \/ Handle(s) \/ Disconnect(s)
      PROVE  UNCHANGED <<commands, sent>>
  BY <1>3, Zenon DEF SocketCloses, SocketCloseArrives, Connect, SendFrame, Handle, Disconnect
<1>4. ASSUME NEW v \in Viewers, ViewerLeaves(v) \/ \E mode \in {"grid", "detail"} : ViewerOpens(v, mode)
      PROVE  \/ UNCHANGED <<commands, sent>>
             \/ \E t \in Sockets, rate \in Rates \cup {0, 5}, source \in {"api", "viewer"} :
                  SendCommand(t, rate, source)
  <2>1. session # Nobody => session \in Sockets
    BY DEF TypeOK
  <2>2. QED
    BY <1>0, <1>4, <2>1, Zenon DEF ViewerLeaves, ViewerOpens
<1>5. ASSUME NEW rate \in {0, 5}, ApiCommand(rate)
      PROVE  \E t \in Sockets, r \in Rates \cup {0, 5}, source \in {"api", "viewer"} :
               SendCommand(t, r, source)
  <2>1. session \in Sockets /\ rate \in Rates \cup {0, 5} /\ SendCommand(session, rate, "api")
    BY <1>5 DEF ApiCommand, TypeOK, Open
  <2>2. QED
    BY <2>1, Zenon
<1>6. CASE Shutdown \/ UNCHANGED vars
  BY <1>6, Zenon DEF Shutdown, vars
<1>7. QED
  BY <1>1, <1>2, <1>3, <1>4, <1>5, <1>6, Zenon DEF Next, HearStep

LEMMA StoryStep == ASSUME TypeOK, Wires, [Next]_vars PROVE Story'
<1>1. Story
  BY Parts
<1>2. CASE UNCHANGED <<commands, sent>>
  BY <1>1, <1>2 DEF Story
<1>3. ASSUME NEW s \in Sockets, HearAck(s) PROVE Story'
  <2>1. Head(up[s]) \in Acks /\ AcceptAck(Head(up[s])) /\ sent' = sent
    BY <1>3, Heads DEF HearAck, Hear
  <2>2. QED
    BY <1>1, <2>1, Answering DEF Story
<1>4. ASSUME NEW s \in Sockets, NEW rate \in Rates \cup {0, 5}, NEW source, SendCommand(s, rate, source)
      PROVE  Story'
  BY <1>4, Sending DEF Story
<1>5. QED
  BY <1>2, <1>3, <1>4, Steps, Zenon

LEMMA WiresStep == ASSUME TypeOK, Wires, [Next]_vars PROVE Wires'
<1> DEFINE Ups == Seq({Hello, Frame} \cup Acks)
<1>0. /\ down \in [Sockets -> Seq(Orders)] /\ up \in [Sockets -> Ups]
      /\ <<>> \in Seq(Orders) /\ <<>> \in Ups
      /\ session # Nobody => session \in Sockets
  BY DEF Wires, TypeOK
<1> USE DEF wires
<1>1. ASSUME NEW s \in Sockets, Hear(s) PROVE up' \in [Sockets -> Ups]
  BY <1>0, <1>1, Heads DEF Hear
<1>2. ASSUME NEW who, NEW s, NEW told, s # Nobody => s \in Sockets, UpdateStreamRate(who, s, told)
      PROVE  down' \in [Sockets -> Seq(Orders)]
  <2>1. \/ down' = down
        \/ s \in Sockets /\ desired' \in Rates /\ SendCommand(s, desired', "viewer")
    BY <1>2, Updating DEF Open
  <2>2. QED
    BY <1>0, <2>1, Sending
<1>3. ASSUME NEW s \in Sockets, HearHello(s) PROVE Wires'
  <2>1. UNCHANGED down \/ UpdateStreamRate(watching, s, ToldAgain)
    BY <1>3, Zenon DEF HearHello, Refuse, AcceptHello
  <2>2. down' \in [Sockets -> Seq(Orders)]
    BY <1>0, <1>2, <2>1, Zenon
  <2>3. QED
    BY <1>1, <1>3, <2>2, Zenon DEF HearHello, Wires
<1>4. ASSUME NEW s \in Sockets, HearAck(s) \/ HearFrame(s) PROVE Wires'
  <2>1. UNCHANGED down
    BY <1>4, Zenon DEF HearAck, HearFrame, Refuse
  <2>2. QED
    BY <1>0, <1>1, <1>4, <2>1, Zenon DEF HearAck, HearFrame, Wires
<1>5. ASSUME NEW s \in Sockets, SocketCloses(s) \/ SocketCloseArrives(s) PROVE Wires'
  BY <1>0, <1>5 DEF SocketCloses, SocketCloseArrives, Wires
<1>6. ASSUME NEW s \in Sockets, Connect(s) PROVE Wires'
  <2>1. <<Hello>> \in Ups /\ <<Frame, Hello>> \in Ups /\ <<Hello, Hello>> \in Ups
    OBVIOUS
  <2>2. PICK first \in {<<Hello>>, <<Frame, Hello>>, <<Hello, Hello>>} :
          up' = [up EXCEPT ![s] = first]
    BY <1>6 DEF Connect
  <2> HIDE DEF Ups
  <2>3. first \in Ups
    BY <2>1
  <2>4. up' \in [Sockets -> Ups] /\ down' = down
    BY <1>0, <1>6, <2>2, <2>3 DEF Connect
  <2>5. QED
    BY <1>0, <2>4 DEF Wires, Ups
<1>7. ASSUME NEW s \in Sockets, SendFrame(s) PROVE Wires'
  <2>1. Append(up[s], Frame) \in Ups
    BY <1>0, AppendProperties
  <2>2. QED
    BY <1>0, <1>7, <2>1 DEF SendFrame, Wires
<1>8. ASSUME NEW s \in Sockets, Handle(s) PROVE Wires'
  <2>1. Head(down[s]).id \in 1..MaxCommands /\ Tail(down[s]) \in Seq(Orders)
    BY <1>8, Heads DEF Handle, Orders
  <2>2. PICK replies \in Seq(Acks) : up' = [up EXCEPT ![s] = @ \o replies]
    BY <1>0, <1>8, Replying
  <2>3. replies \in Ups
    BY <2>2
  <2>4. up[s] \o replies \in Ups
    BY <1>0, <2>3, ConcatProperties
  <2>5. up' \in [Sockets -> Ups]
    BY <1>0, <2>2, <2>4
  <2>6. down' \in [Sockets -> Seq(Orders)]
    BY <1>0, <1>8, <2>1 DEF Handle
  <2>7. QED
    BY <2>5, <2>6 DEF Wires
<1>9. ASSUME NEW s \in Sockets, Disconnect(s) PROVE Wires'
  <2>1. PICK n \in 0..Len(up[s]) : up' = [up EXCEPT ![s] = SubSeq(@, 1, n)]
    BY <1>9 DEF Disconnect
  <2>2. SubSeq(up[s], 1, n) \in Ups
    <3>1. up[s] \in Ups /\ Len(up[s]) \in Nat
      BY <1>0, LenProperties
    <3>2. \A i \in 1..n : up[s][i] \in {Hello, Frame} \cup Acks
      BY <2>1, <3>1, ElementOfSeq
    <3>3. QED
      BY <2>1, <3>1, <3>2, SubSeqProperties
  <2>3. up' \in [Sockets -> Ups] /\ down' \in [Sockets -> Seq(Orders)]
    BY <1>0, <1>9, <2>1, <2>2 DEF Disconnect
  <2>4. QED
    BY <2>3 DEF Wires
<1>10. ASSUME NEW v \in Viewers, ViewerLeaves(v) \/ \E mode \in {"grid", "detail"} : ViewerOpens(v, mode)
       PROVE  Wires'
  <2>1. /\ UpdateStreamRate(Remaining(v), session, requested)
           \/ UpdateStreamRate(watching', session, requested)
        /\ up' = up
    BY <1>10, Zenon DEF ViewerLeaves, ViewerOpens
  <2>2. down' \in [Sockets -> Seq(Orders)]
    BY <1>0, <1>2, <2>1, Zenon
  <2>3. QED
    BY <1>0, <2>1, <2>2 DEF Wires
<1>11. ASSUME NEW rate \in {0, 5}, ApiCommand(rate) PROVE Wires'
  <2>1. /\ session \in Sockets /\ rate \in Rates \cup {0, 5} /\ SendCommand(session, rate, "api")
        /\ up' = up
    BY <1>0, <1>11 DEF ApiCommand, Open
  <2>2. QED
    BY <1>0, <2>1, Sending DEF Wires
<1>12. CASE Shutdown \/ UNCHANGED vars
  BY <1>0, <1>12 DEF Shutdown, vars, Wires
<1>13. QED
  BY <1>3, <1>4, <1>5, <1>6, <1>7, <1>8, <1>9, <1>10, <1>11, <1>12, Zenon DEF Next, HearStep

-----------------------------------------------------------------------------
(* The session *)

LEMMA BoundStep == ASSUME TypeOK, Bound, [Next]_vars PROVE Bound'
<1> USE HubAssumption DEF TypeOK, Bound, OneSession, Open, links, record, camera, wires
<1>1. ASSUME NEW s \in Sockets, HearHello(s) PROVE Bound'
  <2>1. CASE s \in bound
    BY <1>1, <2>1 DEF HearHello, Hear, Refuse
  <2>2. CASE s \notin bound
    <3>1. ready[s] \in {"open", "closing"} /\ AcceptHello(s)
      BY <1>1, <2>2 DEF HearHello, Hear
    <3>2. /\ session' = s /\ ready' = Replaced(s)
          /\ bound' = IF ready[s] = "open" THEN bound \cup {s} ELSE bound
      BY <3>1 DEF AcceptHello
    <3>3. /\ ready'[s] = ready[s]
          /\ \A t \in Sockets : ready'[t] = "open" => ready[t] = "open" /\ (t # s => t # session)
          /\ \A t \in Sockets : ready'[t] = "unused" => ready[t] = "unused"
      BY <3>2 DEF Replaced
    <3>4. QED
      BY <2>2, <3>1, <3>2, <3>3
  <2>3. QED
    BY <2>1, <2>2
<1>2. ASSUME NEW s \in Sockets, HearAck(s) \/ HearFrame(s) PROVE Bound'
  BY <1>2 DEF HearAck, HearFrame, Hear, Refuse
<1>3. ASSUME NEW s \in Sockets, SocketCloses(s) PROVE Bound'
  BY <1>3 DEF SocketCloses, IsSession
<1>4. ASSUME NEW s \in Sockets, SocketCloseArrives(s) \/ Connect(s) PROVE Bound'
  BY <1>4 DEF SocketCloseArrives, Connect
<1>5. ASSUME NEW s \in Sockets, SendFrame(s) \/ Handle(s) \/ Disconnect(s) PROVE Bound'
  BY <1>5 DEF SendFrame, Handle, Disconnect
<1>6. CASE \E v \in Viewers : ViewerLeaves(v) \/ \E mode \in {"grid", "detail"} : ViewerOpens(v, mode)
  BY <1>6 DEF ViewerLeaves, ViewerOpens
<1>7. CASE \E rate \in {0, 5} : ApiCommand(rate)
  BY <1>7 DEF ApiCommand
<1>8. CASE Shutdown
  BY <1>8 DEF Shutdown
<1>9. CASE UNCHANGED vars
  BY <1>9 DEF vars
<1>10. QED
  BY <1>1, <1>2, <1>3, <1>4, <1>5, <1>6, <1>7, <1>8, <1>9, Zenon DEF Next, HearStep

-----------------------------------------------------------------------------
(* The rate *)

LEMMA TellLast ==
  ASSUME NEW orders \in Seq(Orders), NEW order \in Orders, NEW has
  PROVE  Told(Append(orders, order), has, order.rate)
<1>1. /\ Len(Append(orders, order)) = Len(orders) + 1 /\ Len(orders) \in Nat
      /\ Append(orders, order)[Len(orders) + 1] = order
  BY AppendProperties, LenProperties
<1>2. QED
  BY <1>1 DEF Told

LEMMA TellOther ==
  ASSUME NEW orders \in Seq(Orders), NEW order \in Orders, NEW has, NEW asked,
         order.rate = 0, Told(orders, has, asked)
  PROVE  Told(Append(orders, order), has, asked)
<1>1. /\ Len(Append(orders, order)) = Len(orders) + 1 /\ Len(orders) \in Nat
      /\ \A i \in 1..Len(orders) : Append(orders, order)[i] = orders[i]
      /\ Append(orders, order)[Len(orders) + 1] = order
  BY AppendProperties, LenProperties
<1>2. CASE has = asked /\ \A i \in 1..Len(orders) : orders[i].rate = 0
  BY <1>1, <1>2 DEF Told
<1>3. ASSUME NEW i \in 1..Len(orders), orders[i].rate = asked,
             \A j \in i + 1..Len(orders) : orders[j].rate = 0
      PROVE  Told(Append(orders, order), has, asked)
  <2>1. \A j \in i + 1..Len(Append(orders, order)) : Append(orders, order)[j].rate = 0
    BY <1>1, <1>3
  <2>2. QED
    BY <1>1, <1>3, <2>1 DEF Told
<1>4. QED
  BY <1>2, <1>3 DEF Told

\* The camera takes the first order.
LEMMA TakeFirst ==
  ASSUME NEW orders \in Seq(Orders), orders # <<>>, NEW has, NEW asked, asked # 0,
         Told(orders, has, asked)
  PROVE  Told(Tail(orders), IF Head(orders).rate = 0 THEN has ELSE Head(orders).rate, asked)
<1>1. /\ Len(Tail(orders)) = Len(orders) - 1 /\ Len(orders) \in Nat /\ Len(orders) > 0
      /\ \A i \in 1..Len(Tail(orders)) : Tail(orders)[i] = orders[i + 1]
      /\ Head(orders) = orders[1]
  BY HeadTailProperties, LenProperties, EmptySeq
<1>2. CASE has = asked /\ \A i \in 1..Len(orders) : orders[i].rate = 0
  BY <1>1, <1>2 DEF Told
<1>3. ASSUME NEW i \in 1..Len(orders), orders[i].rate = asked,
             \A j \in i + 1..Len(orders) : orders[j].rate = 0
      PROVE  Told(Tail(orders), IF Head(orders).rate = 0 THEN has ELSE Head(orders).rate, asked)
  <2>1. CASE i = 1
    BY <1>1, <1>3, <2>1 DEF Told
  <2>2. CASE i > 1
    <3>1. i - 1 \in 1..Len(Tail(orders)) /\ Tail(orders)[i - 1].rate = asked
      BY <1>1, <1>3, <2>2
    <3>2. \A j \in (i - 1) + 1..Len(Tail(orders)) : Tail(orders)[j].rate = 0
      BY <1>1, <1>3, <2>2
    <3>3. QED
      BY <3>1, <3>2 DEF Told
  <2>3. QED
    BY <1>3, <2>1, <2>2
<1>4. QED
  BY <1>2, <1>3 DEF Told

\* updateStreamRate leaves the rate settled for the connection it names.
LEMMA RateUpdated ==
  ASSUME TypeOK, Wires, NEW who, NEW s \in Sockets, NEW told, Open(s), UpdateStreamRate(who, s, told),
         UNCHANGED <<cur, fps>>
  PROVE  /\ requested' = desired' /\ desired' = Desired(who)
         /\ s = cur /\ (told = Desired(who) /\ ~manual => Told(down[s], fps, told)) /\ ~manual'
              => Told(down'[s], fps', requested')
<1>1. /\ desired' = Desired(who) /\ desired' \in Rates
      /\ \/ requested' = desired' /\ SendCommand(s, desired', "viewer")
         \/ /\ told = desired'
            /\ requested' = told /\ UNCHANGED <<commands, sent, down, manual>>
  BY Updating
<1>2. ASSUME s = cur, SendCommand(s, desired', "viewer") PROVE Told(down'[s], fps', desired')
  <2>1. /\ sent + 1 \in 1..MaxCommands
        /\ down' = [down EXCEPT ![s] = Append(@, [id |-> sent + 1, rate |-> desired'])]
    BY <1>1, <1>2, Sending
  <2>2. down[s] \in Seq(Orders) /\ down \in [Sockets -> Seq(Orders)]
    BY DEF Wires
  <2>3. [id |-> sent + 1, rate |-> desired'] \in Orders
    BY <1>1, <2>1 DEF Orders
  <2>4. down'[s] = Append(down[s], [id |-> sent + 1, rate |-> desired'])
    BY <2>1, <2>2
  <2>5. QED
    BY <2>2, <2>3, <2>4, TellLast
<1>3. QED
  BY <1>1, <1>2

LEMMA RateStep == ASSUME TypeOK, Wires, Bound, Rate, [Next]_vars PROVE Rate'
<1> USE HubAssumption DEF Open, links, record, camera, wires
<1>0. /\ ready \in [Sockets -> {"unused", "open", "closing", "closed"}]
      /\ session \in Sockets \cup {Nobody} /\ cur \in Sockets \cup {Nobody}
      /\ down \in [Sockets -> Seq(Orders)]
      /\ session # Nobody => ready[session] # "unused"
      /\ Open(session) => requested = desired /\ desired = Desired(watching)
      /\ cur # Nobody /\ cur = session /\ Open(cur) /\ ~manual => Told(down[cur], fps, requested)
  BY DEF TypeOK, Wires, Bound, Rate, RateIsRequested
<1>1. ASSUME NEW s \in Sockets, HearHello(s) PROVE Rate'
  <2>1. CASE s \in bound
    BY <1>0, <1>1, <2>1 DEF HearHello, Hear, Refuse, Rate, RateIsRequested, Desired
  <2>2. CASE s \notin bound
    <3>1. AcceptHello(s) /\ UNCHANGED <<watching, cur, fps>>
      BY <1>1, <2>2 DEF HearHello, Hear
    <3>2. session' = s /\ ready'[s] = ready[s]
      BY <1>0, <3>1 DEF AcceptHello, Replaced
    <3>3. CASE Open(s)
      <4>1. UpdateStreamRate(watching, s, ToldAgain)
        BY <3>1, <3>3 DEF AcceptHello
      <4>2. ToldAgain # Desired(watching)
        BY RatesAre, DesiredIsRate DEF ToldAgain
      <4>3. /\ requested' = desired' /\ desired' = Desired(watching)
            /\ s = cur /\ ~manual' => Told(down'[s], fps', requested')
        BY <3>1, <3>3, <4>1, <4>2, RateUpdated
      <4>4. Desired(watching)' = Desired(watching)
        BY <3>1 DEF Desired
      <4>5. QED
        BY <3>1, <3>2, <4>3, <4>4 DEF Rate, RateIsRequested
    <3>4. CASE ~Open(s)
      BY <3>2, <3>4 DEF Rate, RateIsRequested
    <3>5. QED
      BY <3>3, <3>4
  <2>3. QED
    BY <2>1, <2>2
<1>2. ASSUME NEW s \in Sockets, HearAck(s) \/ HearFrame(s) PROVE Rate'
  BY <1>0, <1>2 DEF HearAck, HearFrame, Hear, Refuse, Rate, RateIsRequested, Desired
<1>3. ASSUME NEW s \in Sockets, SocketCloses(s) PROVE Rate'
  BY <1>0, <1>3 DEF SocketCloses, IsSession, Rate, RateIsRequested, Desired
<1>4. ASSUME NEW s \in Sockets, SocketCloseArrives(s) PROVE Rate'
  BY <1>0, <1>4 DEF SocketCloseArrives, Rate, RateIsRequested, Desired
<1>5. ASSUME NEW s \in Sockets, Connect(s) PROVE Rate'
  BY <1>0, <1>5 DEF Connect, Rate, RateIsRequested, Desired
<1>6. ASSUME NEW s \in Sockets, SendFrame(s) PROVE Rate'
  BY <1>0, <1>6 DEF SendFrame, Rate, RateIsRequested, Desired
<1>7. ASSUME NEW s \in Sockets, Handle(s) PROVE Rate'
  <2>1. /\ cur = s /\ cur' = s /\ down[s] # <<>> /\ down'[s] = Tail(down[s])
        /\ fps' = IF Head(down[s]).rate = 0 THEN fps ELSE Head(down[s]).rate
        /\ UNCHANGED <<record, watching, links>>
    BY <1>0, <1>7 DEF Handle
  <2>2. Open(s) /\ s = session => requested # 0
    BY <1>0, RatesAre, DesiredIsRate
  <2>3. ASSUME Open(s), s = session, ~manual PROVE Told(down'[s], fps', requested)
    BY <1>0, <2>1, <2>2, <2>3, TakeFirst
  <2>4. Desired(watching)' = Desired(watching)
    BY <2>1 DEF Desired
  <2>5. QED
    BY <1>0, <2>1, <2>3, <2>4 DEF Rate, RateIsRequested
<1>8. ASSUME NEW s \in Sockets, Disconnect(s) PROVE Rate'
  BY <1>0, <1>8 DEF Disconnect, Rate, RateIsRequested, Desired
<1>9. ASSUME NEW who, UpdateStreamRate(who, session, requested), UNCHANGED <<session, links, cur, fps>>,
             Desired(watching)' = Desired(who)
      PROVE  Rate'
  <2>1. CASE Open(session)
    <3>1. session \in Sockets
      BY <1>0, <2>1
    <3>2. ~manual /\ session = cur => Told(down[session], fps, requested)
      BY <1>0, <2>1
    <3>3. /\ requested' = desired' /\ desired' = Desired(who)
          /\ session = cur /\ ~manual' => Told(down'[session], fps', requested')
      BY <1>9, <2>1, <3>1, <3>2, RateUpdated
    <3>4. QED
      BY <1>9, <3>3 DEF Rate, RateIsRequested
  <2>2. CASE ~Open(session)
    BY <1>9, <2>2 DEF Rate, RateIsRequested
  <2>3. QED
    BY <2>1, <2>2
<1>10. ASSUME NEW v \in Viewers, ViewerLeaves(v) PROVE Rate'
  <2>1. /\ UpdateStreamRate(Remaining(v), session, requested)
        /\ watching' = Remaining(v) /\ UNCHANGED <<session, links, cur, fps>>
    BY <1>10 DEF ViewerLeaves, Remaining
  <2>2. Desired(watching)' = Desired(Remaining(v))
    BY <2>1 DEF Desired
  <2>3. QED
    BY <1>9, <2>1, <2>2
<1>11. ASSUME NEW v \in Viewers, NEW mode \in {"grid", "detail"}, ViewerOpens(v, mode) PROVE Rate'
  <2>1. UpdateStreamRate(watching', session, requested) /\ UNCHANGED <<session, links, cur, fps>>
    BY <1>11 DEF ViewerOpens
  <2>2. Desired(watching)' = Desired(watching')
    BY DEF Desired
  <2>3. QED
    BY <1>9, <2>1, <2>2
<1>12. ASSUME NEW rate \in {0, 5}, ApiCommand(rate) PROVE Rate'
  <2>1. /\ session \in Sockets /\ SendCommand(session, rate, "api") /\ rate \in Rates \cup {0, 5}
        /\ UNCHANGED <<session, requested, desired, watching, ready, cur, fps>>
    BY <1>0, <1>12 DEF ApiCommand
  <2>2. manual' = IF rate = 0 THEN manual ELSE TRUE
    BY <2>1 DEF SendCommand
  <2>3. ASSUME rate = 0, session = cur, Told(down[cur], fps, requested)
        PROVE  Told(down'[cur], fps, requested)
    <3>1. /\ sent + 1 \in 1..MaxCommands
          /\ down' = [down EXCEPT ![cur] = Append(@, [id |-> sent + 1, rate |-> 0])]
      BY <2>1, <2>3, Sending
    <3>2. [id |-> sent + 1, rate |-> 0] \in Orders
      BY <3>1 DEF Orders
    <3>3. down'[cur] = Append(down[cur], [id |-> sent + 1, rate |-> 0]) /\ down[cur] \in Seq(Orders)
      BY <1>0, <2>1, <2>3, <3>1
    <3>4. QED
      BY <2>3, <3>2, <3>3, TellOther
  <2>4. Desired(watching)' = Desired(watching)
    BY <2>1 DEF Desired
  <2>5. QED
    BY <1>0, <2>1, <2>2, <2>3, <2>4 DEF Rate, RateIsRequested
<1>13. CASE Shutdown
  BY <1>0, <1>13 DEF Shutdown, Rate, RateIsRequested, Desired
<1>14. CASE UNCHANGED vars
  BY <1>0, <1>14 DEF vars, Rate, RateIsRequested, Desired
<1>15. QED
  BY <1>1, <1>2, <1>3, <1>4, <1>5, <1>6, <1>7, <1>8, <1>10, <1>11, <1>12, <1>13, <1>14, Zenon
  DEF Next, HearStep

-----------------------------------------------------------------------------
(* The fate of the commands *)

\* The same answers are on their way as before, on connections that have not ended.
SameAnswers ==
  \A s \in Sockets :
    /\ \A i \in 1..Len(up'[s]) : up'[s][i].type = "ack" =>
         \E j \in 1..Len(up[s]) : up[s][j] = up'[s][i]
    /\ ready'[s] # "closed" => \A i \in 1..Len(up[s]) : up[s][i].type = "ack" =>
         \E j \in 1..Len(up'[s]) : up'[s][j] = up[s][i]

LEMMA AnswersOf ==
  ASSUME NEW s \in Sockets, \A t \in Sockets : t # s => up'[t] = up[t],
         \A i \in 1..Len(up'[s]) : up'[s][i].type = "ack" =>
           \E j \in 1..Len(up[s]) : up[s][j] = up'[s][i],
         \A i \in 1..Len(up[s]) : up[s][i].type = "ack" =>
           \E j \in 1..Len(up'[s]) : up'[s][j] = up[s][i]
  PROVE  SameAnswers
<1> DEFINE New(t) == \A i \in 1..Len(up'[t]) : up'[t][i].type = "ack" =>
                       \E j \in 1..Len(up[t]) : up[t][j] = up'[t][i]
           Old(t) == \A i \in 1..Len(up[t]) : up[t][i].type = "ack" =>
                       \E j \in 1..Len(up'[t]) : up'[t][j] = up[t][i]
<1>1. ASSUME NEW t \in Sockets, t # s PROVE New(t) /\ Old(t)
  <2>1. up'[t] = up[t]
    BY <1>1
  <2>2. QED
    BY <2>1
<1>2. New(s) /\ Old(s)
  OBVIOUS
<1>3. \A t \in Sockets : New(t) /\ Old(t)
  <2> HIDE DEF New, Old
  <2>1. QED
    BY <1>1, <1>2
<1>4. QED
  BY <1>3, Zenon DEF SameAnswers

\* Every order on its way to the camera still is.
SameOrders == \A i \in 1..Len(down[cur]) : \E j \in 1..Len(down'[cur]) : down'[cur][j] = down[cur][i]

\* No answer is lost while commands stay what they are, or new ones are sent.
LEMMA HistoryKept ==
  ASSUME TypeOK, History, Story', bound \subseteq bound', UNCHANGED <<handled, cur>>, SameAnswers,
         cur # Nobody /\ ready'[cur] # "closed" => ready[cur] # "closed" /\ SameOrders,
         \A i \in 1..Len(commands') :
           \/ \E j \in 1..Len(commands) : commands'[i] = commands[j]
           \/ /\ commands'[i].via \in bound' /\ commands'[i].status = "pending"
              /\ commands'[i].via = cur =>
                   \E j \in 1..Len(down'[cur]) : down'[cur][j].id = commands'[i].id
  PROVE  History'
<1>0. /\ DOMAIN commands = 1..Len(commands) /\ DOMAIN commands' = 1..Len(commands')
      /\ cur # Nobody => cur \in Sockets
  BY LenProperties DEF TypeOK, Story
<1>1. AnsweredIsHandled'
  BY <1>0 DEF History, AnsweredIsHandled
<1>2. \A s \in Sockets : \A i \in 1..Len(up'[s]) : up'[s][i].type = "ack" => up'[s][i].id \in handled
  BY DEF History, SameAnswers
<1>3. \A i \in 1..Len(commands') : commands'[i].via \in bound'
  BY DEF History
<1>4. ASSUME cur # Nobody, ready'[cur] # "closed", NEW i \in 1..Len(commands'),
             commands'[i].via = cur, commands'[i].status = "pending"
      PROVE  \/ \E k \in 1..Len(down'[cur]) : down'[cur][k].id = commands'[i].id
             \/ \E k \in 1..Len(up'[cur]) : up'[cur][k].type = "ack" /\ up'[cur][k].id = commands'[i].id
  <2>1. CASE \E j \in 1..Len(commands) : commands'[i] = commands[j]
    <3>1. \/ \E k \in 1..Len(down[cur]) : down[cur][k].id = commands'[i].id
          \/ \E k \in 1..Len(up[cur]) : up[cur][k].type = "ack" /\ up[cur][k].id = commands'[i].id
      BY <1>4, <2>1 DEF History, NoneForgotten, Asked, Answered
    <3>2. ASSUME NEW k \in 1..Len(down[cur]), down[cur][k].id = commands'[i].id
          PROVE  \E l \in 1..Len(down'[cur]) : down'[cur][l].id = commands'[i].id
      <4>1. PICK l \in 1..Len(down'[cur]) : down'[cur][l] = down[cur][k]
        BY <1>4, <3>2, Zenon DEF SameOrders
      <4>2. QED
        BY <3>2, <4>1
    <3>3. ASSUME NEW k \in 1..Len(up[cur]), up[cur][k].type = "ack", up[cur][k].id = commands'[i].id
          PROVE  \E l \in 1..Len(up'[cur]) : up'[cur][l].type = "ack" /\ up'[cur][l].id = commands'[i].id
      <4>1. PICK l \in 1..Len(up'[cur]) : up'[cur][l] = up[cur][k]
        BY <1>0, <1>4, <3>3, Zenon DEF SameAnswers
      <4>2. QED
        BY <3>3, <4>1
    <3>4. QED
      BY <3>1, <3>2, <3>3, Zenon
  <2>2. CASE ~(\E j \in 1..Len(commands) : commands'[i] = commands[j])
    BY <1>4, <2>2
  <2>3. QED
    BY <2>1, <2>2
<1>5. QED
  BY <1>1, <1>2, <1>3, <1>4 DEF History, NoneForgotten, Asked, Answered

\* A new command, on a connection that is the session.
LEMMA HistorySent ==
  ASSUME TypeOK, Wires, History, Story', bound \subseteq bound', UNCHANGED <<handled, cur>>, SameAnswers,
         cur # Nobody /\ ready'[cur] # "closed" => ready[cur] # "closed",
         NEW s \in bound', s \in Sockets, NEW rate \in Rates \cup {0, 5}, NEW source,
         SendCommand(s, rate, source)
  PROVE  History'
<1>1. /\ sent + 1 \in 1..MaxCommands
      /\ s = cur => down' = [down EXCEPT ![s] = Append(@, [id |-> sent + 1, rate |-> rate])]
      /\ s # cur => down' = down
      /\ \A i \in 1..Len(commands') :
           \/ commands'[i] = [id |-> sent + 1, status |-> "pending", via |-> s]
           \/ \E j \in 1..Len(commands) : commands'[i] = commands[j]
  BY Sending
<1>2. /\ [id |-> sent + 1, rate |-> rate] \in Orders
      /\ down \in [Sockets -> Seq(Orders)] /\ down[s] \in Seq(Orders)
  BY <1>1 DEF Orders, Wires
<1>3. CASE s = cur
  <2>1. /\ down'[cur] = Append(down[cur], [id |-> sent + 1, rate |-> rate])
        /\ down[cur] \in Seq(Orders)
    BY <1>1, <1>2, <1>3
  <2>2. /\ Len(down'[cur]) = Len(down[cur]) + 1 /\ Len(down[cur]) \in Nat
        /\ \A i \in 1..Len(down[cur]) : down'[cur][i] = down[cur][i]
        /\ down'[cur][Len(down[cur]) + 1] = [id |-> sent + 1, rate |-> rate]
    BY <1>2, <2>1, AppendProperties, LenProperties
  <2>3. SameOrders
    BY <2>2 DEF SameOrders
  <2>4. \E j \in 1..Len(down'[cur]) : down'[cur][j].id = sent + 1
    BY <2>2
  <2>5. QED
    BY <1>1, <2>3, <2>4, HistoryKept
<1>4. CASE s # cur
  <2>1. SameOrders
    BY <1>1, <1>4 DEF SameOrders
  <2>2. QED
    BY <1>1, <1>4, <2>1, HistoryKept
<1>5. QED
  BY <1>3, <1>4

LEMMA HistoryStep == ASSUME IInv, Story', [Next]_vars PROVE History'
<1> USE HubAssumption DEF links, record, camera, wires
<1>0. /\ TypeOK /\ Wires /\ Bound /\ Rate /\ History
      /\ ready \in [Sockets -> {"unused", "open", "closing", "closed"}]
      /\ session \in Sockets \cup {Nobody} /\ cur \in Sockets \cup {Nobody} /\ bound \subseteq Sockets
      /\ up \in [Sockets -> Seq({Hello, Frame} \cup Acks)] /\ down \in [Sockets -> Seq(Orders)]
  BY DEF IInv, TypeOK, Wires
<1>h. \A s \in Sockets : \A i \in 1..Len(up[s]) : up[s][i].type = "ack" => up[s][i].id \in handled
  BY <1>0, Zenon DEF History
<1>a. up' = up => SameAnswers
  BY DEF SameAnswers
<1>b. down' = down => SameOrders
  BY DEF SameOrders
<1>c. ASSUME NEW s \in Sockets, Hear(s), Head(up[s]).type # "ack" PROVE SameAnswers
  <2>1. up[s] # <<>> /\ up' = [up EXCEPT ![s] = Tail(@)]
    BY <1>c DEF Hear
  <2>2. up[s] \in Seq({Hello, Frame} \cup Acks)
    BY <1>0
  <2>3. /\ Len(Tail(up[s])) = Len(up[s]) - 1 /\ Len(up[s]) \in Nat /\ Head(up[s]) = up[s][1]
        /\ \A i \in 1..Len(Tail(up[s])) : Tail(up[s])[i] = up[s][i + 1]
    BY <2>1, <2>2, HeadTailProperties, LenProperties
  <2>4. /\ up'[s] = Tail(up[s]) /\ \A t \in Sockets : t # s => up'[t] = up[t]
    BY <1>0, <2>1
  <2>5. ASSUME NEW i \in 1..Len(up[s]), up[s][i].type = "ack"
        PROVE  \E j \in 1..Len(up'[s]) : up'[s][j] = up[s][i]
    <3>1. i # 1
      BY <1>c, <2>3, <2>5
    <3>2. i - 1 \in 1..Len(Tail(up[s])) /\ Tail(up[s])[i - 1] = up[s][i]
      BY <2>3, <3>1
    <3>3. QED
      BY <2>4, <3>2
  <2>6. \A i \in 1..Len(up'[s]) : \E j \in 1..Len(up[s]) : up[s][j] = up'[s][i]
    BY <2>3, <2>4
  <2>7. QED
    BY <2>4, <2>5, <2>6, AnswersOf
<1>d. UNCHANGED commands => \A i \in 1..Len(commands') : \E j \in 1..Len(commands) : commands'[i] = commands[j]
  OBVIOUS
<1>1. ASSUME NEW s \in Sockets, HearHello(s) PROVE History'
  <2>1. SameAnswers /\ UNCHANGED <<handled, cur>> /\ ready[s] \in {"open", "closing"}
    BY <1>1, <1>c DEF HearHello, Hear
  <2>2. CASE s \in bound
    <3>1. UNCHANGED <<commands, bound, down>> /\ ready' = [ready EXCEPT ![s] = "closing"]
      BY <1>1, <2>2 DEF HearHello, Refuse
    <3>2. cur # Nobody /\ ready'[cur] # "closed" => ready[cur] # "closed"
      BY <1>0, <2>1, <3>1
    <3>3. QED
      BY <1>0, <1>b, <1>d, <2>1, <3>1, <3>2, HistoryKept
  <2>3. CASE s \notin bound
    <3>1. AcceptHello(s)
      BY <1>1, <2>3 DEF HearHello
    <3>2. /\ ready' = Replaced(s)
          /\ cur # Nobody /\ ready'[cur] # "closed" => ready[cur] # "closed"
      BY <1>0, <3>1 DEF AcceptHello, Replaced, Open
    <3>3. CASE Open(s)
      <4>1. UpdateStreamRate(watching, s, ToldAgain) /\ bound' = bound \cup {s}
        BY <3>1, <3>3 DEF AcceptHello
      <4>2. desired' \in Rates /\ SendCommand(s, desired', "viewer")
        BY <3>3, <4>1, Updating, RatesAre DEF ToldAgain
      <4>3. QED
        BY <1>0, <2>1, <3>2, <4>1, <4>2, HistorySent
    <3>4. CASE ~Open(s)
      <4>1. UNCHANGED <<bound, commands, down>>
        BY <3>1, <3>4 DEF AcceptHello
      <4>2. QED
        BY <1>0, <1>b, <1>d, <2>1, <3>2, <4>1, HistoryKept
    <3>5. QED
      BY <3>3, <3>4
  <2>4. QED
    BY <2>2, <2>3
<1>2. ASSUME NEW s \in Sockets, HearFrame(s) PROVE History'
  <2>1. /\ SameAnswers /\ UNCHANGED <<handled, cur, commands, bound, down>>
        /\ ready' = ready \/ ready' = [ready EXCEPT ![s] = "closing"]
        /\ ready[s] \in {"open", "closing"}
    BY <1>2, <1>c DEF HearFrame, Hear, Refuse
  <2>2. cur # Nobody /\ ready'[cur] # "closed" => ready[cur] # "closed"
    BY <1>0, <2>1
  <2>3. QED
    BY <1>0, <1>b, <1>d, <2>1, <2>2, HistoryKept
<1>3. ASSUME NEW s \in Sockets, HearAck(s) PROVE History'
  <2> DEFINE m == Head(up[s])
  <2>1. /\ m \in Acks /\ m.type = "ack" /\ AcceptAck(m) /\ up[s] # <<>>
        /\ up' = [up EXCEPT ![s] = Tail(@)]
        /\ UNCHANGED <<handled, cur, ready, bound, down>>
    BY <1>0, <1>3, Heads DEF HearAck, Hear
  <2>2. up[s] \in Seq({Hello, Frame} \cup Acks)
    BY <1>0
  <2>3. /\ Len(Tail(up[s])) = Len(up[s]) - 1 /\ Len(up[s]) \in Nat /\ Len(up[s]) > 0
        /\ m = up[s][1]
        /\ \A i \in 1..Len(Tail(up[s])) : Tail(up[s])[i] = up[s][i + 1]
    BY <2>1, <2>2, HeadTailProperties, LenProperties, EmptySeq
  <2>4. up'[s] = Tail(up[s]) /\ \A t \in Sockets : t # s => up'[t] = up[t]
    BY <1>0, <2>1
  <2> HIDE DEF m
  <2>5. /\ Len(commands') = Len(commands)
        /\ \A i \in 1..Len(commands) :
             /\ commands'[i].id = commands[i].id /\ commands'[i].via = commands[i].via
             /\ commands[i].id = m.id => commands'[i].status # "pending"
             /\ commands[i].id # m.id => commands'[i] = commands[i]
        /\ DOMAIN commands = 1..Len(commands) /\ DOMAIN commands' = 1..Len(commands')
    <3>1. commands \in Seq(Commands) /\ commands' \in Seq(Commands)
      BY <1>0, Parts DEF Story
    <3>2. QED
      BY <2>1, <3>1, Answering, LenProperties
  <2>6. m.id \in handled
    BY <1>h, <2>1, <2>3
  <2>7. AnsweredIsHandled'
    BY <1>0, <2>1, <2>5, <2>6 DEF History, AnsweredIsHandled
  <2>8. \A t \in Sockets : \A i \in 1..Len(up'[t]) :
          up'[t][i].type = "ack" => up'[t][i].id \in handled'
    <3>1. \A i \in 1..Len(up'[s]) : i + 1 \in 1..Len(up[s]) /\ up'[s][i] = up[s][i + 1]
      BY <2>3, <2>4
    <3>2. QED
      BY <1>h, <2>1, <2>4, <3>1
  <2>9. \A i \in 1..Len(commands') : commands'[i].via \in bound'
    BY <1>0, <2>1, <2>5 DEF History
  <2>10. ASSUME cur # Nobody, ready[cur] # "closed", NEW i \in 1..Len(commands),
                commands'[i].via = cur, commands'[i].status = "pending"
         PROVE  \/ \E k \in 1..Len(down[cur]) : down[cur][k].id = commands'[i].id
                \/ \E k \in 1..Len(up'[cur]) :
                     up'[cur][k].type = "ack" /\ up'[cur][k].id = commands'[i].id
    <3>1. commands[i].id # m.id /\ commands'[i] = commands[i]
      BY <2>5, <2>10
    <3>2. CASE \E k \in 1..Len(down[cur]) : down[cur][k].id = commands[i].id
      BY <3>1, <3>2
    <3>3. ASSUME NEW k \in 1..Len(up[cur]), up[cur][k].type = "ack", up[cur][k].id = commands[i].id
          PROVE  \E l \in 1..Len(up'[cur]) : up'[cur][l].type = "ack" /\ up'[cur][l].id = commands'[i].id
      <4>1. CASE cur = s
        <5>1. k # 1
          BY <2>3, <3>1, <3>3, <4>1
        <5>2. k - 1 \in 1..Len(Tail(up[s])) /\ Tail(up[s])[k - 1] = up[s][k]
          BY <2>3, <3>3, <4>1, <5>1
        <5>3. QED
          BY <2>4, <3>1, <3>3, <4>1, <5>2
      <4>2. CASE cur # s
        BY <1>0, <2>4, <2>10, <3>1, <3>3, <4>2
      <4>3. QED
        BY <4>1, <4>2
    <3>4. QED
      BY <1>0, <2>10, <3>1, <3>2, <3>3 DEF History, NoneForgotten, Asked, Answered
  <2>11. NoneForgotten'
    <3>1. cur' = cur /\ ready' = ready /\ down' = down /\ Len(commands') = Len(commands)
      BY <2>1, <2>5
    <3>2. SUFFICES ASSUME cur # Nobody, ready[cur] # "closed", NEW i \in 1..Len(commands),
                          commands'[i].via = cur, commands'[i].status = "pending"
                   PROVE  Asked(commands[i].id)' \/ Answered(commands[i].id)'
      BY <3>1, Zenon DEF NoneForgotten
    <3>3. QED
      BY <2>10, <3>1, <3>2, Zenon DEF Asked, Answered
  <2>12. QED
    BY <2>7, <2>8, <2>9, <2>11, Zenon DEF History
<1>4. ASSUME NEW s \in Sockets, SocketCloses(s) PROVE History'
  <2>1. /\ ready' = [ready EXCEPT ![s] = "closed"]
        /\ up' = [up EXCEPT ![s] = <<>>] /\ down' = [down EXCEPT ![s] = <<>>]
        /\ UNCHANGED <<handled, cur, commands, bound>>
    BY <1>4 DEF SocketCloses
  <2>2. /\ ready'[s] = "closed" /\ up'[s] = <<>>
        /\ \A t \in Sockets : t # s => ready'[t] = ready[t] /\ up'[t] = up[t] /\ down'[t] = down[t]
    BY <1>0, <2>1
  <2>3. SameAnswers
    BY <2>2 DEF SameAnswers
  <2>4. cur # Nobody /\ ready'[cur] # "closed" => ready[cur] # "closed" /\ SameOrders
    BY <1>0, <2>2 DEF SameOrders
  <2>5. QED
    BY <1>0, <1>d, <2>1, <2>3, <2>4, HistoryKept
<1>5. ASSUME NEW s \in Sockets, SocketCloseArrives(s) PROVE History'
  <2>1. /\ ready[s] = "open" /\ ready' = [ready EXCEPT ![s] = "closing"]
        /\ UNCHANGED <<handled, cur, commands, bound, up, down>>
    BY <1>5 DEF SocketCloseArrives
  <2>2. cur # Nobody /\ ready'[cur] # "closed" => ready[cur] # "closed"
    BY <1>0, <2>1
  <2>3. QED
    BY <1>0, <1>a, <1>b, <1>d, <2>1, <2>2, HistoryKept
<1>6. ASSUME NEW s \in Sockets, Connect(s) PROVE History'
  <2>1. /\ ready[s] = "unused" /\ cur' = s /\ UNCHANGED <<handled, commands, bound, down>>
        /\ \E first \in {<<Hello>>, <<Frame, Hello>>, <<Hello, Hello>>} : up' = [up EXCEPT ![s] = first]
    BY <1>6 DEF Connect
  <2>2. s \notin bound
    BY <1>0, <2>1 DEF Bound
  <2>3. \A i \in 1..Len(up'[s]) : up'[s][i].type # "ack"
    BY <1>0, <2>1 DEF Hello, Frame
  <2>4. \A t \in Sockets : t # s => up'[t] = up[t]
    BY <1>0, <2>1
  <2>5. QED
    BY <1>0, <2>1, <2>2, <2>3, <2>4 DEF History, AnsweredIsHandled, NoneForgotten
<1>7. ASSUME NEW s \in Sockets, SendFrame(s) PROVE History'
  <2>1. /\ up' = [up EXCEPT ![s] = Append(@, Frame)]
        /\ UNCHANGED <<handled, cur, commands, bound, down, ready>>
    BY <1>7 DEF SendFrame
  <2>2. /\ Len(Append(up[s], Frame)) = Len(up[s]) + 1 /\ Len(up[s]) \in Nat
        /\ \A i \in 1..Len(up[s]) : Append(up[s], Frame)[i] = up[s][i]
        /\ Append(up[s], Frame)[Len(up[s]) + 1] = Frame
    <3>1. up[s] \in Seq({Hello, Frame} \cup Acks) /\ Frame \in {Hello, Frame} \cup Acks
      BY <1>0
    <3>2. QED
      BY <3>1, AppendProperties, LenProperties
  <2>3. up'[s] = Append(up[s], Frame) /\ \A t \in Sockets : t # s => up'[t] = up[t]
    BY <1>0, <2>1
  <2>4. SameAnswers
    <3>1. Frame.type # "ack"
      BY DEF Frame
    <3>2. ASSUME NEW i \in 1..Len(up'[s]), up'[s][i].type = "ack"
          PROVE  \E j \in 1..Len(up[s]) : up[s][j] = up'[s][i]
      BY <2>2, <2>3, <3>1, <3>2
    <3>3. \A i \in 1..Len(up[s]) : \E j \in 1..Len(up'[s]) : up'[s][j] = up[s][i]
      BY <2>2, <2>3
    <3>4. QED
      BY <2>3, <3>2, <3>3, AnswersOf
  <2>5. QED
    BY <1>0, <1>b, <1>d, <2>1, <2>4, HistoryKept
<1>8. ASSUME NEW s \in Sockets, Handle(s) PROVE History'
  <2> DEFINE m == Head(down[s])
  <2>1. PICK replies \in Seq(Acks) :
          /\ Len(replies) >= 1 /\ up' = [up EXCEPT ![s] = @ \o replies]
          /\ \A i \in 1..Len(replies) : replies[i].type = "ack" /\ replies[i].id = m.id
    BY <1>0, <1>8, Replying
  <2>2. /\ cur = s /\ down[s] # <<>> /\ down' = [down EXCEPT ![s] = Tail(@)]
        /\ handled' = handled \cup {m.id} /\ UNCHANGED <<cur, commands, bound, ready>>
    BY <1>8 DEF Handle
  <2>3. m \in Orders
    BY <1>0, <2>2, Heads
  <2> DEFINE all == up[s] \o replies
  <2>4. replies \in Seq({Hello, Frame} \cup Acks) /\ up[s] \in Seq({Hello, Frame} \cup Acks)
    BY <1>0, <2>1
  <2>5. /\ Len(up[s]) \in Nat /\ Len(replies) \in Nat /\ Len(all) = Len(up[s]) + Len(replies)
        /\ \A i \in 1..Len(up[s]) : all[i] = up[s][i]
        /\ \A i \in 1..Len(replies) : all[Len(up[s]) + i] = replies[i]
    <3>1. /\ Len(up[s]) \in Nat /\ Len(replies) \in Nat
      BY <2>4, LenProperties
    <3>2. /\ Len(all) = Len(up[s]) + Len(replies)
          /\ \A i \in 1..Len(up[s]) + Len(replies) :
               all[i] = IF i <= Len(up[s]) THEN up[s][i] ELSE replies[i - Len(up[s])]
      BY <2>4, ConcatProperties
    <3>3. QED
      BY <3>1, <3>2
  <2>6. /\ Len(Tail(down[s])) = Len(down[s]) - 1 /\ Len(down[s]) \in Nat /\ m = down[s][1]
        /\ \A i \in 1..Len(Tail(down[s])) : Tail(down[s])[i] = down[s][i + 1]
    <3>1. down[s] \in Seq(Orders)
      BY <1>0
    <3>2. QED
      BY <2>2, <3>1, HeadTailProperties, LenProperties
  <2>7. /\ up'[s] = all /\ down'[s] = Tail(down[s])
        /\ \A t \in Sockets : t # s => up'[t] = up[t]
    BY <1>0, <2>1, <2>2
  <2>8. Len(replies) >= 1 /\ \A i \in 1..Len(replies) : replies[i].type = "ack" /\ replies[i].id = m.id
    BY <2>1
  <2> HIDE DEF m, all
  <2>9. AnsweredIsHandled' /\ \A i \in 1..Len(commands') : commands'[i].via \in bound'
    BY <1>0, <2>2 DEF History, AnsweredIsHandled
  <2>10. \A t \in Sockets : \A i \in 1..Len(up'[t]) :
           up'[t][i].type = "ack" => up'[t][i].id \in handled'
    <3>1. ASSUME NEW i \in 1..Len(up'[s]), up'[s][i].type = "ack" PROVE up'[s][i].id \in handled'
      <4>1. CASE i \in 1..Len(up[s])
        BY <1>h, <2>2, <2>5, <2>7, <3>1, <4>1
      <4>2. CASE i \notin 1..Len(up[s])
        <5>1. PICK k \in 1..Len(replies) : i = Len(up[s]) + k
          <6>1. i - Len(up[s]) \in 1..Len(replies) /\ i = Len(up[s]) + (i - Len(up[s]))
            BY <2>5, <2>7, <3>1, <4>2
          <6>2. QED
            BY <6>1
        <5>2. QED
          BY <2>2, <2>5, <2>7, <2>8, <5>1
      <4>3. QED
        BY <4>1, <4>2
    <3>2. QED
      BY <1>h, <2>2, <2>7, <3>1
  <2>11. ASSUME ready[s] # "closed", NEW i \in 1..Len(commands),
                commands[i].via = s, commands[i].status = "pending"
         PROVE  \/ \E k \in 1..Len(down'[s]) : down'[s][k].id = commands[i].id
                \/ \E k \in 1..Len(up'[s]) : up'[s][k].type = "ack" /\ up'[s][k].id = commands[i].id
    <3>1. ASSUME NEW k \in 1..Len(down[s]), down[s][k].id = commands[i].id, k # 1
          PROVE  \E l \in 1..Len(down'[s]) : down'[s][l].id = commands[i].id
      <4>1. k - 1 \in 1..Len(Tail(down[s])) /\ Tail(down[s])[k - 1] = down[s][k]
        BY <2>6, <3>1
      <4>2. QED
        BY <2>7, <3>1, <4>1
    <3>2. ASSUME down[s][1].id = commands[i].id
          PROVE  \E k \in 1..Len(up'[s]) : up'[s][k].type = "ack" /\ up'[s][k].id = commands[i].id
      <4>1. 1 \in 1..Len(replies) /\ Len(up[s]) + 1 \in 1..Len(up'[s])
        BY <2>5, <2>7, <2>8
      <4>2. up'[s][Len(up[s]) + 1] = replies[1]
        BY <2>5, <2>7, <4>1
      <4>3. replies[1].type = "ack" /\ replies[1].id = commands[i].id
        BY <2>6, <2>8, <3>2, <4>1
      <4>4. QED
        BY <4>1, <4>2, <4>3
    <3>3. ASSUME NEW k \in 1..Len(up[s]), up[s][k].type = "ack", up[s][k].id = commands[i].id
          PROVE  \E l \in 1..Len(up'[s]) : up'[s][l].type = "ack" /\ up'[s][l].id = commands[i].id
      <4>1. k \in 1..Len(up'[s]) /\ up'[s][k] = up[s][k]
        BY <2>5, <2>7, <3>3
      <4>2. QED
        BY <3>3, <4>1
    <3>4. QED
      <4>1. \/ \E k \in 1..Len(down[s]) : down[s][k].id = commands[i].id
            \/ \E k \in 1..Len(up[s]) : up[s][k].type = "ack" /\ up[s][k].id = commands[i].id
        BY <1>0, <2>2, <2>11 DEF History, NoneForgotten, Asked, Answered
      <4>2. QED
        BY <3>1, <3>2, <3>3, <4>1
  <2>12. NoneForgotten'
    <3>1. cur = s /\ cur' = s /\ commands' = commands /\ ready' = ready
      BY <2>2
    <3>2. SUFFICES ASSUME ready[s] # "closed", NEW i \in 1..Len(commands),
                          commands[i].via = s, commands[i].status = "pending"
                   PROVE  Asked(commands[i].id)' \/ Answered(commands[i].id)'
      BY <3>1, Zenon DEF NoneForgotten
    <3>3. QED
      BY <2>11, <3>1, <3>2, Zenon DEF Asked, Answered
  <2>13. QED
    BY <2>9, <2>10, <2>12, Zenon DEF History
<1>9. ASSUME NEW s \in Sockets, Disconnect(s) PROVE History'
  <2>1. PICK n \in 0..Len(up[s]) : up' = [up EXCEPT ![s] = SubSeq(@, 1, n)]
    BY <1>9 DEF Disconnect
  <2>2. cur' = Nobody /\ UNCHANGED <<handled, commands, bound>>
    BY <1>9 DEF Disconnect
  <2>3. up[s] \in Seq({Hello, Frame} \cup Acks)
    BY <1>0
  <2>4. Len(SubSeq(up[s], 1, n)) = n /\ \A i \in 1..n : SubSeq(up[s], 1, n)[i] = up[s][i]
    <3>1. Len(up[s]) \in Nat /\ \A i \in 1..n : up[s][i] \in {Hello, Frame} \cup Acks
      BY <2>1, <2>3, LenProperties, ElementOfSeq
    <3>2. QED
      BY <2>1, <3>1, SubSeqProperties
  <2>5. up'[s] = SubSeq(up[s], 1, n) /\ \A t \in Sockets : t # s => up'[t] = up[t]
    BY <1>0, <2>1
  <2>6. \A t \in Sockets : \A i \in 1..Len(up'[t]) :
          up'[t][i].type = "ack" => up'[t][i].id \in handled'
    <3>1. Len(up[s]) \in Nat
      BY <2>3, LenProperties
    <3>2. QED
      BY <1>0, <2>1, <2>2, <2>4, <2>5, <3>1 DEF History
  <2>7. QED
    BY <1>0, <2>2, <2>6 DEF History, AnsweredIsHandled, NoneForgotten
<1>10. ASSUME NEW who, UpdateStreamRate(who, session, requested), UNCHANGED <<handled, cur, up, ready, bound>>
       PROVE  History'
  <2>1. CASE UNCHANGED <<commands, down>>
    BY <1>0, <1>10, <1>a, <1>b, <1>d, <2>1, HistoryKept
  <2>2. CASE Open(session) /\ desired' \in Rates /\ SendCommand(session, desired', "viewer")
    <3>1. session \in Sockets /\ session \in bound'
      BY <1>0, <1>10, <2>2 DEF Open, Bound
    <3>2. QED
      BY <1>0, <1>10, <1>a, <2>2, <3>1, HistorySent
  <2>3. QED
    BY <1>10, <2>1, <2>2, Updating
<1>11. ASSUME NEW v \in Viewers, ViewerLeaves(v) \/ \E mode \in {"grid", "detail"} : ViewerOpens(v, mode)
       PROVE  History'
  <2>1. /\ UpdateStreamRate(Remaining(v), session, requested)
           \/ UpdateStreamRate(watching', session, requested)
        /\ UNCHANGED <<handled, cur, up, ready, bound>>
    BY <1>11 DEF ViewerLeaves, ViewerOpens
  <2>2. QED
    BY <1>10, <2>1
<1>12. ASSUME NEW rate \in {0, 5}, ApiCommand(rate) PROVE History'
  <2>1. /\ session \in Sockets /\ session \in bound /\ SendCommand(session, rate, "api")
        /\ rate \in Rates \cup {0, 5} /\ UNCHANGED <<handled, cur, up, ready, bound>>
    BY <1>0, <1>12 DEF ApiCommand, Open, Bound
  <2>2. QED
    BY <1>0, <1>a, <2>1, HistorySent
<1>13. CASE Shutdown
  <2>1. /\ UNCHANGED <<handled, cur, up, down, bound, commands>>
        /\ ready' = ready \/ (Open(session) /\ ready' = [ready EXCEPT ![session] = "closing"])
    BY <1>13 DEF Shutdown
  <2>2. cur # Nobody /\ ready'[cur] # "closed" => ready[cur] # "closed"
    BY <1>0, <2>1 DEF Open
  <2>3. QED
    BY <1>0, <1>a, <1>b, <1>d, <2>1, <2>2, HistoryKept
<1>14. CASE UNCHANGED vars
  BY <1>0, <1>a, <1>b, <1>d, <1>14, HistoryKept DEF vars
<1>15. QED
  BY <1>1, <1>2, <1>3, <1>4, <1>5, <1>6, <1>7, <1>8, <1>9, <1>11, <1>12, <1>13, <1>14, Zenon
  DEF Next, HearStep

-----------------------------------------------------------------------------
(* Theorems *)

LEMMA InitInvariant == Init => IInv
<1> SUFFICES ASSUME Init PROVE IInv
  OBVIOUS
<1> USE HubAssumption, RatesAre DEF Init, VIEWER_FPS
<1>1. Flags
  BY Zenon DEF Flags
<1>2. Links /\ Story
  BY DEF Links, Story
<1>3. Wires
  BY DEF Wires
<1>4. Bound
  BY DEF Bound, OneSession, Open
<1>5. Rate
  BY DEF Rate, RateIsRequested, Open
<1>6. History
  BY DEF History, AnsweredIsHandled, NoneForgotten
<1>7. QED
  BY <1>1, <1>2, <1>3, <1>4, <1>5, <1>6, Parts DEF IInv

LEMMA InductiveStep == IInv /\ [Next]_vars => IInv'
<1> SUFFICES ASSUME IInv, [Next]_vars PROVE IInv'
  OBVIOUS
<1>1. TypeOK /\ Wires /\ Bound /\ Rate /\ Flags
  BY Parts DEF IInv
<1>2. Flags' /\ Links' /\ Story' /\ Wires' /\ Bound' /\ Rate'
  BY <1>1, FlagsStep, LinksStep, StoryStep, WiresStep, BoundStep, RateStep
<1>3. History'
  BY <1>2, HistoryStep
<1>4. TypeOK'
  <2>1. TypeOK' <=> Flags' /\ Links' /\ Story'
    BY DEF TypeOK, Flags, Links, Story, Commands
  <2>2. QED
    BY <1>2, <2>1
<1>5. QED
  BY <1>2, <1>3, <1>4, Zenon DEF IInv

THEOREM Invariance == Spec => []IInv
<1>1. QED
  BY InitInvariant, InductiveStep, PTL DEF Spec

\* Whatever order hellos and closes come in, an open connection that said hello is
\* the record's socket: acceptHello closes the one before it.
THEOREM SessionIsOne == Spec => []OneSession
<1>1. IInv => OneSession
  BY DEF IInv, Bound
<1>2. QED
  BY <1>1, Invariance, PTL

\* requestedFps follows the viewers, and a camera that has taken its commands
\* streams at it (updateStreamRate, and its reset of requestedFps on hello).
THEOREM RateFollows == Spec => []RateIsTrue
<1>1. IInv => RateIsRequested
  BY DEF IInv, Rate
<1>2. ASSUME IInv, cur # Nobody, cur = session, Open(cur), down[cur] = <<>>, ~manual
      PROVE  fps = Desired(watching)
  <2>1. Told(<<>>, fps, requested) /\ requested = Desired(watching)
    BY <1>2 DEF IInv, Rate, RateIsRequested
  <2>2. fps = requested
    BY <2>1 DEF Told
  <2>3. QED
    BY <2>1, <2>2
<1>3. IInv => RateIsTrue
  BY <1>1, <1>2 DEF RateIsTrue, QuietRate
<1>4. QED
  BY <1>3, Invariance, PTL

\* No answer is booked on another command, and none is lost while the session
\* lasts (acceptAck's search by id, handleCommand's answer to each command).
THEOREM HistoryTells == Spec => []HistoryIsTrue
<1>1. IInv => TypeOK /\ AnsweredIsHandled
  BY DEF IInv, History
<1>2. IInv => QuietHistory
  <2> SUFFICES ASSUME IInv, cur # Nobody, cur = session, down[cur] = <<>>, up[cur] = <<>>,
                      NEW i \in DOMAIN commands, commands[i].via = cur
               PROVE  commands[i].status # "pending"
    BY DEF QuietHistory
  <2>1. i \in 1..Len(commands)
    <3>1. commands \in Seq(Commands)
      BY Parts DEF IInv, Story
    <3>2. QED
      BY <3>1, LenProperties
  <2>2. session \in bound
    BY <2>1 DEF IInv, History
  <2>3. ready[cur] # "closed"
    BY <2>2 DEF IInv, Bound
  <2>4. ~Asked(commands[i].id) /\ ~Answered(commands[i].id)
    BY DEF Asked, Answered
  <2>5. QED
    BY <2>1, <2>3, <2>4 DEF IInv, History, NoneForgotten
<1>3. IInv => HistoryIsTrue
  BY <1>1, <1>2 DEF HistoryIsTrue
<1>4. QED
  BY <1>3, Invariance, PTL

-----------------------------------------------------------------------------
(* The disk and the dirty marks *)

\* A stopped hub remembers nothing; what is dirty has a flush to come, and a
\* running flush has the registry and dirty JPEGs only before it.
Marks ==
  /\ ~running => /\ at = "idle" /\ ~stateDirty /\ dirtyFrames = {}
                 /\ \A d \in Devices : records[d] = Unknown /\ image[d] = 0
  /\ dirtyFrames # {} => stateDirty
  /\ at = "idle" => todo = {}
  /\ at # "idle" => /\ stateDirty /\ (byTimer \/ closed)
                    /\ target \in todo /\ "registry" \in todo
                    /\ todo \subseteq dirtyFrames \cup {"registry"}
                    /\ target = "registry" => todo = {"registry"}
  /\ DirtyIsScheduled

\* The disk has what is not marked, and what this flush has written already.
Written ==
  /\ \A d \in Devices : image[d] # 0 /\ (d \notin dirtyFrames \/ (at # "idle" /\ d \notin todo))
                          => frameFile[d] = image[d]
  /\ running /\ ~stateDirty => records \in {registryFile, NoRegistry}

\* JPEGs only get newer, one that is marked is there, and what is there has a record.
Newer ==
  \A d \in Devices : /\ image[d] <= taken[d] /\ frameFile[d] <= taken[d]
                     /\ records[d].frame <= taken[d] /\ registryFile[d].frame <= taken[d]
                     /\ d \in dirtyFrames => image[d] # 0
                     /\ image[d] # 0 => records[d] # Unknown

\* On disk the registry tells of no JPEG newer than the one beside it; and the next
\* flush leaves it so: a record tells of no JPEG newer than the image that flush
\* will have written or, where a start could not read it, than the one on disk.
Ordered ==
  \A d \in Devices :
    /\ d \in removed => frameFile[d] = 0
    /\ d \notin removed => registryFile[d].frame <= frameFile[d]
    /\ image[d] # 0 => records[d].frame <= image[d] /\ registryFile[d].frame <= image[d]
    /\ image[d] = 0 /\ d \notin removed => records[d].frame <= frameFile[d]

\* Where rename replaces the file nothing is removed; what a flush saved and every
\* start found is in memory while the hub runs, and on disk unless removed.
Kept ==
  /\ replaces => at \notin {"remove", "again"} /\ removed = {}
  /\ at = "again" => target \in removed
  /\ \A d \in saved : /\ "registry" \in removed \/ registryFile[d] # Unknown
                      /\ d \in removed \/ frameFile[d] # 0
                      /\ running => records[d] # Unknown

PersistIInv == PersistTypeOK /\ Marks /\ Written /\ Newer /\ Ordered /\ Kept

-----------------------------------------------------------------------------
(* Types *)

Records == [Devices -> [frame : 0..MaxFrames, news : 0..MaxNews]]

\* PersistTypeOK in two halves: Booleans and data are different provers' work.
PersistBooleans == /\ replaces \in BOOLEAN /\ running \in BOOLEAN /\ closed \in BOOLEAN
                   /\ stateDirty \in BOOLEAN /\ timer \in BOOLEAN /\ byTimer \in BOOLEAN

Data == /\ records \in Records /\ image \in [Devices -> 0..MaxFrames]
        /\ dirtyFrames \subseteq Devices /\ todo \subseteq Targets /\ target \in Targets
        /\ at \in {"idle", "write", "rename", "remove", "again"}
        /\ frameFile \in [Devices -> 0..MaxFrames] /\ registryFile \in Records
        /\ saved \subseteq Devices /\ removed \subseteq Targets
        /\ taken \in [Devices -> 0..MaxFrames]
        /\ faults \in 0..MaxFaults /\ crashes \in 0..MaxCrashes
        /\ unread \in 0..MaxUnread

LEMMA Halves == PersistTypeOK <=> PersistBooleans /\ Data
  BY Zenon DEF PersistTypeOK, PersistBooleans, Data, Records

LEMMA InitType == PersistInit => PersistTypeOK
<1> SUFFICES ASSUME PersistInit PROVE PersistBooleans /\ Data
  BY Halves
<1>1. PersistBooleans
  BY Zenon DEF PersistInit, PersistBooleans
<1>2. Data
  BY BoundsAssumption DEF PersistInit, Data, Records, Unknown, Targets
<1>3. QED
  BY <1>1, <1>2

LEMMA PersistBooleansStep == PersistBooleans /\ [PersistNext]_persistVars => PersistBooleans'
<1> SUFFICES ASSUME PersistBooleans, [PersistNext]_persistVars PROVE PersistBooleans'
  OBVIOUS
<1>1. CASE \E d \in Devices : Change(d) \/ PublishFrame(d)
  BY <1>1, Zenon DEF PersistBooleans, Change, PublishFrame, MarkDirty, flushing
<1>2. CASE TimerFires \/ Close
  BY <1>2, Zenon DEF PersistBooleans, TimerFires, Close, flushing
<1>3. CASE WriteTemporary \/ AlreadyExists \/ RemoveOld
  BY <1>3, Zenon DEF PersistBooleans, WriteTemporary, AlreadyExists, RemoveOld, dirt
<1>4. CASE Rename
  BY <1>4, Zenon DEF PersistBooleans, Rename, Done
<1>5. CASE Fault
  BY <1>5, Zenon DEF PersistBooleans, Fault, Retries, Marked
<1>6. CASE Exit \/ Crash \/ Restart
  BY <1>6, Zenon DEF PersistBooleans, Exit, Crash, Restart, Stop, dirt, flushing
<1>7. CASE UNCHANGED persistVars
  BY <1>7, Zenon DEF PersistBooleans, persistVars, dirt, flushing
<1>8. QED
  BY <1>1, <1>2, <1>3, <1>4, <1>5, <1>6, <1>7, Zenon DEF PersistNext, FlushStep

\* Two updates of a device's record that appear in actions.
LEMMA RecordUpdate ==
  ASSUME NEW f \in Records, NEW d \in Devices, NEW frame \in 0..MaxFrames, NEW news \in 0..MaxNews
  PROVE  [f EXCEPT ![d] = [frame |-> frame, news |-> news]] \in Records
  BY DEF Records

LEMMA NewsUpdate ==
  ASSUME NEW f \in Records, NEW d \in Devices, f[d].news < MaxNews
  PROVE  [f[d] EXCEPT !.news = @ + 1] = [frame |-> f[d].frame, news |-> f[d].news + 1]
         /\ f[d].news + 1 \in 1..MaxNews
  BY BoundsAssumption DEF Records

LEMMA ChangeStep ==
  ASSUME Data, NEW d \in Devices, Change(d)
  PROVE  /\ records' = [records EXCEPT ![d] = [frame |-> records[d].frame,
                                                news |-> records[d].news + 1]]
         /\ records[d].frame \in 0..MaxFrames /\ records[d].news + 1 \in 1..MaxNews
<1>1. records \in Records /\ records[d].news < MaxNews
  BY DEF Data, Change
<1>2. records[d].frame \in 0..MaxFrames
  BY <1>1 DEF Records
<1>3. records' = [records EXCEPT ![d] = [records[d] EXCEPT !.news = @ + 1]]
  BY Zenon DEF Change
<1>4. QED
  BY <1>1, <1>2, <1>3, NewsUpdate

LEMMA PublishStep ==
  ASSUME Data, NEW d \in Devices, PublishFrame(d)
  PROVE  /\ taken[d] + 1 \in 1..MaxFrames
         /\ taken' = [taken EXCEPT ![d] = taken[d] + 1]
         /\ image' = [image EXCEPT ![d] = taken[d] + 1]
         /\ records' = [records EXCEPT ![d] = [frame |-> taken[d] + 1, news |-> records[d].news]]
         /\ records[d].news \in 0..MaxNews
<1>1. /\ records \in Records /\ taken \in [Devices -> 0..MaxFrames] /\ taken[d] < MaxFrames
      /\ taken' = [taken EXCEPT ![d] = taken[d] + 1]
  BY DEF Data, PublishFrame
<1>2. taken'[d] = taken[d] + 1 /\ taken[d] + 1 \in 1..MaxFrames
  BY <1>1, BoundsAssumption
<1>3. image' = [image EXCEPT ![d] = taken[d] + 1]
  BY <1>2, Zenon DEF PublishFrame
<1>4. records' = [records EXCEPT ![d] = [records[d] EXCEPT !.frame = taken'[d]]]
  BY Zenon DEF PublishFrame
<1>5. /\ [records[d] EXCEPT !.frame = taken'[d]]
           = [frame |-> taken[d] + 1, news |-> records[d].news]
      /\ records[d].news \in 0..MaxNews
  BY <1>1, <1>2 DEF Records
<1>6. QED
  BY <1>1, <1>2, <1>3, <1>4, <1>5

\* Neither makes a record unknown.
LEMMA KnownStays ==
  ASSUME Data, NEW d \in Devices, Change(d) \/ PublishFrame(d)
  PROVE  \A e \in Devices : records[e] # Unknown => records'[e] # Unknown
<1> USE BoundsAssumption
<1>1. records \in Records
  BY DEF Data
<1>2. \A e \in Devices : e # d => records'[e] = records[e]
  BY <1>1, ChangeStep, PublishStep DEF Records
<1>3. records'[d].frame # 0 \/ records'[d].news # 0
  BY <1>1, ChangeStep, PublishStep DEF Records
<1>4. records'[d] # Unknown
  BY <1>3 DEF Unknown
<1>5. QED
  BY <1>2, <1>4

\* Some cameras of a closing hub go offline: only their news change.
LEMMA CloseStep ==
  ASSUME Data, Close
  PROVE  /\ records' \in Records
         /\ \A d \in Devices : /\ records'[d].frame = records[d].frame
                               /\ records[d] # Unknown => records'[d] # Unknown
         /\ ~stateDirty' => records' = records /\ ~stateDirty
<1>1. PICK online \in SUBSET {d \in Devices : records[d] # Unknown /\ records[d].news < MaxNews} :
        /\ records' = [d \in Devices |-> IF d \in online
                                         THEN [records[d] EXCEPT !.news = @ + 1] ELSE records[d]]
        /\ stateDirty' = (stateDirty \/ online # {})
  BY Zenon DEF Close
<1>2. records \in Records
  BY DEF Data
<1>3. ASSUME NEW d \in Devices
      PROVE  /\ records'[d] \in [frame : 0..MaxFrames, news : 0..MaxNews]
             /\ records'[d].frame = records[d].frame
             /\ records[d] # Unknown => records'[d] # Unknown
  <2>1. CASE d \in online
    <3>1. records'[d] = [records[d] EXCEPT !.news = @ + 1] /\ records[d].news < MaxNews
      BY <1>1, <2>1, Zenon
    <3>2. /\ records'[d] = [frame |-> records[d].frame, news |-> records[d].news + 1]
          /\ records[d].news + 1 \in 1..MaxNews
      BY <1>2, <3>1, NewsUpdate, Zenon
    <3>3. QED
      BY <1>2, <3>2, BoundsAssumption DEF Records, Unknown
  <2>2. CASE d \notin online
    BY <1>1, <1>2, <2>2 DEF Records
  <2>3. QED
    BY <2>1, <2>2
<1>4. records' \in Records
  BY <1>1, <1>3 DEF Records
<1>5. ASSUME ~stateDirty' PROVE records' = records /\ ~stateDirty
  <2>1. online = {} /\ ~stateDirty
    BY <1>1, <1>5, Zenon
  <2>2. QED
    BY <1>1, <1>2, <2>1 DEF Records
<1>6. QED
  BY <1>3, <1>4, <1>5

LEMMA BeginStep ==
  ASSUME NEW frames, frames \subseteq Devices, Begin(frames)
  PROVE  /\ todo' = frames \cup {"registry"} /\ at' = "write" /\ target' \in todo'
         /\ todo' \subseteq Targets
         /\ target' = "registry" => todo' = {"registry"}
  BY DevicesAssumption DEF Begin, First, Targets

LEMMA PutStep ==
  ASSUME Data, NEW new \in 0..MaxFrames, NEW content \in Records, Put(new, content)
  PROVE  frameFile' \in [Devices -> 0..MaxFrames] /\ registryFile' \in Records
  BY DEF Data, Put, Targets

LEMMA ReplaceStep ==
  ASSUME Data, Replace
  PROVE  frameFile' \in [Devices -> 0..MaxFrames] /\ registryFile' \in Records
<1>1. (IF target = "registry" THEN 0 ELSE image[target]) \in 0..MaxFrames
  BY BoundsAssumption DEF Data, Targets
<1>2. QED
  BY <1>1, PutStep DEF Replace, Data

\* A temporary file changes nothing that a reader sees.
LEMMA TemporaryStep ==
  ASSUME Data, WriteTemporary
  PROVE  frameFile' = frameFile /\ registryFile' = registryFile
  BY DEF Data, WriteTemporary, Put, During, Targets

\* A start has the registry and the JPEGs of its cameras, one of them perhaps not;
\* or nothing.
LEMMA RestartStep ==
  ASSUME Data, Restart
  PROVE  /\ records' \in Records /\ image' \in [Devices -> 0..MaxFrames]
         /\ records' \in {registryFile, NoRegistry}
         /\ \A d \in Devices : /\ image'[d] \in {0, frameFile[d]}
                               /\ image'[d] # 0 => records' = registryFile
                                                   /\ registryFile[d] # Unknown
                               /\ records'[d].frame \in {registryFile[d].frame, 0}
<1> USE BoundsAssumption
<1>1. Found \in [Devices -> 0..MaxFrames]
  BY DEF Data, Found
<1>2. \A d \in Devices : Found[d] \in {0, frameFile[d]}
                         /\ (Found[d] # 0 => registryFile[d] # Unknown)
  BY DEF Found
<1>3. /\ NoRegistry \in Records /\ registryFile \in Records
      /\ \A d \in Devices : NoRegistry[d].frame = 0
  BY DEF Data, NoRegistry, Unknown, Records
<1>4. CASE Load
  BY <1>1, <1>2, <1>3, <1>4, Zenon DEF Load
<1>5. CASE LoadAllButOne
  <2>1. PICK e \in Devices : image' = [Found EXCEPT ![e] = 0]
    BY <1>5 DEF LoadAllButOne
  <2>2. /\ image' \in [Devices -> 0..MaxFrames]
        /\ \A d \in Devices : image'[d] \in {0, Found[d]}
    BY <1>1, <2>1
  <2>3. QED
    BY <1>2, <1>3, <1>5, <2>2 DEF LoadAllButOne
<1>6. CASE LoadNothing
  <2>1. image' = [d \in Devices |-> 0] /\ records' = NoRegistry
    BY <1>6 DEF LoadNothing
  <2>2. QED
    BY <1>3, <2>1
<1>7. QED
  BY <1>4, <1>5, <1>6 DEF Restart

LEMMA DataStep == Data /\ [PersistNext]_persistVars => Data'
<1> SUFFICES ASSUME Data, [PersistNext]_persistVars PROVE Data'
  OBVIOUS
<1> USE BoundsAssumption
<1>1. ASSUME NEW d \in Devices, Change(d) PROVE Data'
  <2>1. records' \in Records
    BY <1>1, ChangeStep, RecordUpdate DEF Data
  <2>2. QED
    BY <1>1, <2>1 DEF Data, Change, MarkDirty, flushing, disk, files, bounds
<1>2. ASSUME NEW d \in Devices, PublishFrame(d) PROVE Data'
  <2>1. records' \in Records
    BY <1>2, PublishStep, RecordUpdate DEF Data
  <2>2. image' \in [Devices -> 0..MaxFrames] /\ taken' \in [Devices -> 0..MaxFrames]
    BY <1>2, PublishStep DEF Data
  <2>3. QED
    BY <1>2, <2>1, <2>2 DEF Data, PublishFrame, MarkDirty, flushing, disk, files
<1>3. CASE TimerFires
  BY <1>3, BeginStep DEF Data, TimerFires, flushing, memory, disk, files, bounds
<1>4. CASE Close
  BY <1>4, CloseStep, BeginStep DEF Data, Close, flushing, disk, files, bounds
<1>5. CASE WriteTemporary
  BY <1>5, TemporaryStep DEF Data, WriteTemporary, memory, dirt, bounds
<1>6. CASE Rename
  <2>1. Done
    BY <1>6 DEF Rename
  <2>2. Replace
    BY <2>1 DEF Done
  <2>3. QED
    BY <2>1, <2>2, ReplaceStep DEF Data, Done, Replace, StillDirty, Targets, memory, bounds
<1>7. CASE AlreadyExists
  BY <1>7 DEF Data, AlreadyExists, memory, dirt, disk, files, bounds
<1>8. CASE RemoveOld
  <2>1. NoRegistry \in Records
    BY DEF NoRegistry, Unknown, Records
  <2>2. frameFile' \in [Devices -> 0..MaxFrames] /\ registryFile' \in Records
    BY <1>8, <2>1, PutStep DEF RemoveOld
  <2>3. QED
    BY <1>8, <2>2 DEF Data, RemoveOld, memory, dirt, bounds
<1>9. CASE Fault
  <2>1. UNCHANGED files \/ Replace
    BY <1>9 DEF Fault
  <2>2. frameFile' \in [Devices -> 0..MaxFrames] /\ registryFile' \in Records
    BY <2>1, ReplaceStep DEF Data, files
  <2>3. removed' \subseteq Targets
    BY <2>1 DEF Data, files, Replace
  <2>4. QED
    BY <1>9, <2>2, <2>3 DEF Data, Fault, memory
<1>10. CASE Exit \/ Crash
  BY <1>10 DEF Data, Exit, Crash, Stop, NoRegistry, Unknown, Records, Targets, disk, files, bounds
<1>11. CASE Restart
  <2>1. records' \in Records /\ image' \in [Devices -> 0..MaxFrames]
    BY <1>11, RestartStep
  <2>2. faults' \in 0..MaxFaults /\ unread' \in 0..MaxUnread
    BY <1>11 DEF Data, Restart, Load, LoadAllButOne, LoadNothing
  <2>3. QED
    BY <1>11, <2>1, <2>2 DEF Data, Restart, dirt, flushing, disk, files
<1>12. CASE UNCHANGED persistVars
  BY <1>12 DEF Data, persistVars, memory, dirt, flushing, disk, files, bounds
<1>13. QED
  BY <1>1, <1>2, <1>3, <1>4, <1>5, <1>6, <1>7, <1>8, <1>9, <1>10, <1>11, <1>12
  DEF PersistNext, FlushStep

-----------------------------------------------------------------------------
(* The invariant *)

LEMMA PersistInitInvariant == PersistInit => PersistIInv
<1> SUFFICES ASSUME PersistInit PROVE PersistIInv
  OBVIOUS
<1>1. PersistTypeOK
  BY InitType
<1>2. Marks
  BY DEF PersistInit, Marks, DirtyIsScheduled
<1>3. Written
  BY DEF PersistInit, Written
<1>4. Newer
  <2>1. ASSUME NEW d \in Devices
        PROVE  /\ image[d] = 0 /\ frameFile[d] = 0 /\ taken[d] = 0 /\ d \notin dirtyFrames
               /\ records[d].frame = 0 /\ registryFile[d].frame = 0
    BY DEF PersistInit, Unknown
  <2>2. QED
    BY <2>1 DEF Newer
<1>5. Ordered
  BY DEF PersistInit, Ordered, Unknown
<1>6. Kept
  BY DEF PersistInit, Kept, Unknown
<1>7. QED
  BY <1>1, <1>2, <1>3, <1>4, <1>5, <1>6, Zenon DEF PersistIInv

\* A flush is at work on the registry, which is the last, or on a marked JPEG.
LEMMA TargetStep ==
  ASSUME Data, Marks, at # "idle", Replace
  PROVE  /\ removed' = removed \ {target}
         /\ \/ /\ target = "registry" /\ todo = {"registry"} /\ todo \ {target} = {}
               /\ frameFile' = frameFile /\ registryFile' = records
            \/ /\ target \in Devices /\ target \in dirtyFrames /\ target # "registry"
               /\ todo \ {target} # {}
               /\ frameFile' = [frameFile EXCEPT ![target] = image[target]]
               /\ registryFile' = registryFile
  BY DevicesAssumption DEF Data, Targets, Marks, Replace, Put

LEMMA RenameStep ==
  ASSUME Rename
  PROVE  Done /\ Replace /\ running /\ at # "idle"
  BY DEF Rename, MayRename, Done

LEMMA MarksStep == PersistIInv /\ [PersistNext]_persistVars => Marks'
<1> SUFFICES ASSUME Data, Marks, [PersistNext]_persistVars PROVE Marks'
  BY Halves DEF PersistIInv
<1> USE DEF Marks, DirtyIsScheduled
<1>1. ASSUME NEW d \in Devices, Change(d) PROVE Marks'
  BY <1>1 DEF Change, Awake, MarkDirty, flushing
<1>2. ASSUME NEW d \in Devices, PublishFrame(d) PROVE Marks'
  BY <1>2 DEF PublishFrame, Awake, MarkDirty, flushing
<1>3. CASE TimerFires
  BY <1>3, BeginStep DEF Data, TimerFires, Awake, flushing, memory
<1>4. CASE Close
  BY <1>4, BeginStep DEF Data, Close, Awake, flushing
<1>5. CASE WriteTemporary \/ AlreadyExists \/ RemoveOld
  BY <1>5 DEF WriteTemporary, AlreadyExists, RemoveOld, memory, dirt
<1>6. CASE Rename
  <2>1. Done /\ running /\ at # "idle"
    BY <1>6, RenameStep
  <2>2. QED
    BY <2>1 DEF Done, StillDirty, memory
<1>7. CASE Fault
  BY <1>7 DEF Fault, Retries, Marked, memory
<1>8. CASE Exit \/ Crash
  BY <1>8 DEF Exit, Crash, Stop, NoRegistry
<1>9. CASE Restart
  BY <1>9 DEF Restart, dirt, flushing
<1>10. CASE UNCHANGED persistVars
  BY <1>10 DEF persistVars, memory, dirt, flushing
<1>11. QED
  BY <1>1, <1>2, <1>3, <1>4, <1>5, <1>6, <1>7, <1>8, <1>9, <1>10 DEF PersistNext, FlushStep

LEMMA WrittenStep == PersistIInv /\ [PersistNext]_persistVars => Written'
<1> SUFFICES ASSUME Data, Marks, Written, [PersistNext]_persistVars PROVE Written'
  BY Halves DEF PersistIInv
<1> USE DEF Written
<1>1. ASSUME NEW d \in Devices, Change(d) PROVE Written'
  BY <1>1 DEF Change, Awake, MarkDirty, flushing, disk, files
<1>2. ASSUME NEW d \in Devices, PublishFrame(d) PROVE Written'
  BY <1>2, PublishStep DEF Data, PublishFrame, Awake, MarkDirty, flushing, disk, files
<1>3. CASE TimerFires
  BY <1>3, BeginStep DEF Data, TimerFires, Awake, flushing, memory, disk, files
<1>4. CASE Close
  <2>1. running /\ at = "idle" /\ UNCHANGED <<running, image, dirtyFrames, frameFile, registryFile>>
    BY <1>4 DEF Close, Awake, disk, files
  <2>2. CASE stateDirty'
    <3>1. todo' = dirtyFrames \cup {"registry"}
      BY <1>4, <2>2 DEF Close, Begin
    <3>2. QED
      BY <2>1, <2>2, <3>1
  <2>3. CASE ~stateDirty'
    <3>1. records' = records /\ ~stateDirty /\ at' = at
      BY <1>4, <2>3, CloseStep DEF Close, flushing
    <3>2. QED
      BY <2>1, <3>1
  <2>4. QED
    BY <2>2, <2>3
<1>5. CASE WriteTemporary
  BY <1>5, TemporaryStep DEF WriteTemporary, memory, dirt
<1>6. CASE Rename
  <2>1. Done /\ Replace /\ running /\ at # "idle"
    BY <1>6, RenameStep
  <2>2. CASE target = "registry"
    <3>1. /\ todo = {"registry"} /\ todo \ {target} = {}
          /\ frameFile' = frameFile /\ registryFile' = records
      BY <2>1, <2>2, TargetStep, DevicesAssumption
    <3>2. dirtyFrames' = {} /\ UNCHANGED <<image, records>>
      BY <2>1, <3>1 DEF Done, StillDirty, memory
    <3>3. QED
      BY <2>1, <3>1, <3>2, DevicesAssumption
  <2>3. CASE target # "registry"
    <3>1. /\ target \in Devices /\ frameFile' = [frameFile EXCEPT ![target] = image[target]]
          /\ todo \ {target} # {}
      BY <2>1, <2>3, TargetStep
    <3>2. /\ UNCHANGED <<image, dirtyFrames, stateDirty>> /\ stateDirty
          /\ todo' = todo \ {target} /\ at' # "idle"
      BY <2>1, <3>1 DEF Marks, Done, memory
    <3>3. QED
      BY <2>1, <3>1, <3>2 DEF Data, Marks
  <2>4. QED
    BY <2>2, <2>3
<1>7. CASE AlreadyExists
  BY <1>7 DEF AlreadyExists, memory, dirt, disk, files
<1>8. CASE RemoveOld
  BY <1>8 DEF Data, Targets, Marks, RemoveOld, Put, memory, dirt
<1>9. CASE Fault
  <2>1. /\ at # "idle" /\ at' = "idle" /\ stateDirty /\ stateDirty'
        /\ UNCHANGED <<image, dirtyFrames>>
    BY <1>9 DEF Marks, Fault, Marked, memory
  <2>2. \A d \in Devices : d \notin dirtyFrames => frameFile'[d] = frameFile[d]
    BY <1>9, <2>1, TargetStep DEF Data, Fault, files
  <2>3. QED
    BY <2>1, <2>2
<1>10. CASE Exit \/ Crash
  BY <1>10 DEF Exit, Crash, Stop
<1>11. CASE Restart
  <2>1. /\ UNCHANGED <<frameFile, registryFile, stateDirty>>
        /\ records' \in {registryFile, NoRegistry}
        /\ \A d \in Devices : image'[d] \in {0, frameFile[d]}
    BY <1>11, RestartStep DEF Restart, dirt, disk, files
  <2>2. QED
    BY <2>1
<1>12. CASE UNCHANGED persistVars
  BY <1>12 DEF persistVars, memory, dirt, flushing, disk, files
<1>13. QED
  BY <1>1, <1>2, <1>3, <1>4, <1>5, <1>6, <1>7, <1>8, <1>9, <1>10, <1>11, <1>12
  DEF PersistNext, FlushStep

LEMMA SameReplaces == ASSUME [PersistNext]_persistVars PROVE replaces' = replaces
  BY Zenon
  DEF PersistNext, Change, PublishFrame, TimerFires, Close, FlushStep, WriteTemporary, Rename,
      AlreadyExists, RemoveOld, Done, Fault, Exit, Crash, Restart, persistVars

\* What the renaming of a temporary file does to each part, be the flush to go on
\* or to fail right after it.
LEMMA ReplacedNewer ==
  ASSUME Data, Marks, Newer, Ordered, at # "idle", Replace, UNCHANGED <<image, records, taken>>,
         dirtyFrames' \subseteq dirtyFrames
  PROVE  Newer'
<1> USE DEF Newer
<1>1. CASE target = "registry"
  <2>1. frameFile' = frameFile /\ registryFile' = records
    BY <1>1, TargetStep, DevicesAssumption
  <2>2. QED
    BY <2>1
<1>2. CASE target # "registry"
  <2>1. \A d \in Devices : frameFile'[d] \in {frameFile[d], image[d]}
    BY <1>2, TargetStep DEF Data
  <2>2. registryFile' = registryFile
    BY <1>2, TargetStep
  <2>3. QED
    BY <2>1, <2>2
<1>3. QED
  BY <1>1, <1>2

LEMMA ReplacedOrdered ==
  ASSUME Data, Marks, Written, Newer, Ordered, at # "idle", Replace, UNCHANGED <<image, records>>
  PROVE  Ordered'
<1> USE DEF Ordered
<1>1. CASE target = "registry"
  <2>1. todo = {"registry"} /\ frameFile' = frameFile /\ registryFile' = records
    BY <1>1, TargetStep, DevicesAssumption
  <2>2. \A d \in Devices : image[d] # 0 => frameFile[d] = image[d]
    BY <2>1, DevicesAssumption DEF Written
  <2>3. \A d \in Devices : d \in removed' <=> d \in removed
    BY <1>1, TargetStep, DevicesAssumption
  <2>4. QED
    BY <2>1, <2>2, <2>3
<1>2. CASE target # "registry"
  <2>1. /\ target \in Devices /\ image[target] # 0
        /\ frameFile' = [frameFile EXCEPT ![target] = image[target]]
        /\ registryFile' = registryFile /\ removed' = removed \ {target}
    BY <1>2, TargetStep DEF Newer
  <2>2. QED
    BY <2>1 DEF Data
<1>3. QED
  BY <1>1, <1>2

LEMMA ReplacedKept ==
  ASSUME Data, Marks, Newer, Kept, running, at # "idle", Replace, NEW d \in saved
  PROVE  /\ "registry" \in removed' \/ registryFile'[d] # Unknown
         /\ d \in removed' \/ frameFile'[d] # 0
<1>1. /\ d \in Devices /\ records[d] # Unknown /\ d # "registry"
      /\ "registry" \in removed \/ registryFile[d] # Unknown
      /\ d \in removed \/ frameFile[d] # 0
  BY DevicesAssumption DEF Data, Kept
<1>2. CASE target = "registry"
  BY <1>1, <1>2, TargetStep, DevicesAssumption
<1>3. CASE target # "registry"
  BY <1>1, <1>3, TargetStep DEF Data, Newer
<1>4. QED
  BY <1>2, <1>3

LEMMA NewerStep == PersistIInv /\ [PersistNext]_persistVars => Newer'
<1> SUFFICES ASSUME Data, Marks, Newer, Ordered, [PersistNext]_persistVars PROVE Newer'
  BY Halves DEF PersistIInv
<1> USE DEF Newer
<1>1. ASSUME NEW d \in Devices, Change(d) PROVE Newer'
  BY <1>1, ChangeStep, BoundsAssumption
  DEF Data, Records, Unknown, Change, MarkDirty, disk, files, bounds
<1>2. ASSUME NEW d \in Devices, PublishFrame(d) PROVE Newer'
  BY <1>2, PublishStep, BoundsAssumption
  DEF Data, Records, Unknown, PublishFrame, MarkDirty, disk, files
<1>3. CASE TimerFires
  BY <1>3 DEF TimerFires, memory, disk, files, bounds
<1>4. CASE Close
  <2>1. UNCHANGED <<image, dirtyFrames, frameFile, registryFile, taken>>
    BY <1>4, Zenon DEF Close, disk, files, bounds
  <2>2. \A d \in Devices : /\ records'[d].frame = records[d].frame
                           /\ records[d] # Unknown => records'[d] # Unknown
    BY <1>4, CloseStep, Zenon DEF Data
  <2>3. QED
    BY <2>1, <2>2, Zenon
<1>5. CASE WriteTemporary
  BY <1>5, TemporaryStep DEF WriteTemporary, memory, dirt, bounds
<1>6. CASE Rename
  <2>1. Done /\ Replace /\ running /\ at # "idle"
    BY <1>6, RenameStep
  <2>2. dirtyFrames' \subseteq dirtyFrames /\ UNCHANGED <<image, records, taken>>
    BY <2>1 DEF Done, StillDirty, memory, bounds
  <2>3. QED
    BY <2>1, <2>2, ReplacedNewer
<1>7. CASE AlreadyExists
  BY <1>7 DEF AlreadyExists, memory, dirt, disk, files, bounds
<1>8. CASE RemoveOld
  <2>1. \A d \in Devices : /\ frameFile'[d] \in {frameFile[d], 0}
                           /\ registryFile'[d] \in {registryFile[d], Unknown}
    BY <1>8 DEF Data, Targets, RemoveOld, Put, NoRegistry
  <2>2. \A d \in Devices : taken[d] \in Nat /\ taken'[d] = taken[d]
    BY <1>8, BoundsAssumption DEF Data, RemoveOld, bounds
  <2>3. QED
    BY <1>8, <2>1, <2>2 DEF Unknown, RemoveOld, memory, dirt
<1>9. CASE Fault
  <2>1. at # "idle" /\ UNCHANGED <<image, records, taken, dirtyFrames>>
    BY <1>9 DEF Fault, memory, files
  <2>2. UNCHANGED <<frameFile, registryFile>> \/ Replace
    BY <1>9 DEF Fault, files
  <2>3. QED
    BY <2>1, <2>2, ReplacedNewer
<1>10. CASE Exit \/ Crash
  <2>1. \A d \in Devices : image'[d] = 0 /\ records'[d].frame = 0 /\ taken[d] \in Nat
    BY <1>10, BoundsAssumption DEF Data, Exit, Crash, Stop, NoRegistry, Unknown
  <2>2. UNCHANGED <<frameFile, registryFile, taken>> /\ dirtyFrames' = {}
    BY <1>10 DEF Exit, Crash, Stop, disk, files, bounds
  <2>3. QED
    BY <2>1, <2>2
<1>11. CASE Restart
  <2>1. /\ \A d \in Devices : /\ image'[d] \in {0, frameFile[d]}
                              /\ image'[d] # 0 => records'[d] # Unknown
                              /\ records'[d].frame \in {registryFile[d].frame, 0}
    BY <1>11, RestartStep
  <2>2. UNCHANGED <<frameFile, registryFile, taken>> /\ dirtyFrames' = {}
    BY <1>11 DEF Marks, Restart, dirt, disk, files
  <2>3. \A d \in Devices : taken[d] \in Nat
    BY BoundsAssumption DEF Data
  <2>4. QED
    BY <2>1, <2>2, <2>3
<1>12. CASE UNCHANGED persistVars
  BY <1>12 DEF persistVars, memory, dirt, disk, files, bounds
<1>13. QED
  BY <1>1, <1>2, <1>3, <1>4, <1>5, <1>6, <1>7, <1>8, <1>9, <1>10, <1>11, <1>12
  DEF PersistNext, FlushStep

LEMMA OrderedStep == PersistIInv /\ [PersistNext]_persistVars => Ordered'
<1> SUFFICES ASSUME Data, Marks, Written, Newer, Ordered, [PersistNext]_persistVars
             PROVE  Ordered'
  BY Halves DEF PersistIInv
<1> USE BoundsAssumption DEF Ordered
<1>1. ASSUME NEW d \in Devices, Change(d) PROVE Ordered'
  BY <1>1, ChangeStep DEF Data, Records, Change, disk, files
<1>2. ASSUME NEW d \in Devices, PublishFrame(d) PROVE Ordered'
  <2>1. /\ image' = [image EXCEPT ![d] = taken[d] + 1]
        /\ records' = [records EXCEPT ![d] = [frame |-> taken[d] + 1, news |-> records[d].news]]
        /\ taken[d] + 1 \in 1..MaxFrames /\ registryFile[d].frame <= taken[d]
        /\ taken[d] \in Nat /\ registryFile[d].frame \in Nat
    BY <1>2, PublishStep DEF Data, Newer, Records
  <2>2. UNCHANGED <<frameFile, registryFile, removed>>
    BY <1>2 DEF PublishFrame, disk, files
  <2>3. registryFile[d].frame <= taken[d] + 1
    BY <2>1
  <2>4. QED
    BY <2>1, <2>2, <2>3 DEF Data, Records
<1>3. CASE TimerFires
  BY <1>3 DEF TimerFires, memory, disk, files
<1>4. CASE Close
  <2>1. UNCHANGED <<image, frameFile, registryFile, removed>>
    BY <1>4, Zenon DEF Close, disk, files
  <2>2. \A d \in Devices : records'[d].frame = records[d].frame
    BY <1>4, CloseStep, Zenon DEF Data
  <2>3. QED
    BY <2>1, <2>2, Zenon
<1>5. CASE WriteTemporary
  BY <1>5, TemporaryStep DEF WriteTemporary, memory
<1>6. CASE Rename
  <2>1. Replace /\ running /\ at # "idle" /\ UNCHANGED <<image, records>>
    BY <1>6, RenameStep DEF Done, memory
  <2>2. QED
    BY <2>1, ReplacedOrdered
<1>7. CASE AlreadyExists
  BY <1>7 DEF AlreadyExists, memory, disk, files
<1>8. CASE RemoveOld
  <2>1. removed' = removed \cup {target} /\ UNCHANGED <<image, records>>
    BY <1>8 DEF RemoveOld, memory
  <2>2. CASE target = "registry"
    <3>1. frameFile' = frameFile /\ registryFile' = NoRegistry
      BY <1>8, <2>2 DEF RemoveOld, Put
    <3>2. \A d \in Devices : registryFile'[d].frame = 0
      BY <3>1 DEF NoRegistry, Unknown
    <3>3. \A d \in Devices : /\ frameFile[d] \in Nat /\ image[d] \in Nat
                             /\ d \in removed' <=> d \in removed
      BY <2>1, <2>2, DevicesAssumption DEF Data
    <3>4. QED
      BY <2>1, <3>1, <3>2, <3>3
  <2>3. CASE target # "registry"
    <3>1. /\ target \in Devices /\ frameFile' = [frameFile EXCEPT ![target] = 0]
          /\ registryFile' = registryFile
      BY <1>8, <2>3 DEF Data, Targets, RemoveOld, Put
    <3>2. QED
      BY <2>1, <3>1 DEF Data
  <2>4. QED
    BY <2>2, <2>3
<1>9. CASE Fault
  <2>1. at # "idle" /\ running /\ UNCHANGED <<image, records>>
    BY <1>9 DEF Fault, memory, files
  <2>2. UNCHANGED <<frameFile, registryFile, removed>> \/ Replace
    BY <1>9 DEF Fault, files
  <2>3. QED
    BY <2>1, <2>2, ReplacedOrdered
<1>10. CASE Exit \/ Crash
  <2>1. \A d \in Devices : image'[d] = 0 /\ records'[d].frame = 0 /\ frameFile[d] \in Nat
    BY <1>10 DEF Data, Exit, Crash, Stop, NoRegistry, Unknown
  <2>2. UNCHANGED <<frameFile, registryFile, removed>>
    BY <1>10 DEF Exit, Crash, disk, files
  <2>3. QED
    BY <2>1, <2>2
<1>11. CASE Restart
  <2>1. \A d \in Devices : /\ image'[d] \in {0, frameFile[d]}
                           /\ image'[d] # 0 => records' = registryFile
                           /\ records'[d].frame \in {registryFile[d].frame, 0}
    BY <1>11, RestartStep
  <2>2. UNCHANGED <<frameFile, registryFile, removed>>
    BY <1>11 DEF Restart, disk, files
  <2>3. \A d \in Devices : frameFile[d] \in Nat
    BY DEF Data
  <2>4. QED
    BY <2>1, <2>2, <2>3
<1>12. CASE UNCHANGED persistVars
  BY <1>12 DEF persistVars, memory, disk, files
<1>13. QED
  BY <1>1, <1>2, <1>3, <1>4, <1>5, <1>6, <1>7, <1>8, <1>9, <1>10, <1>11, <1>12
  DEF PersistNext, FlushStep

LEMMA KeptStep == PersistIInv /\ [PersistNext]_persistVars => Kept'
<1> SUFFICES ASSUME Data, Marks, Written, Newer, Kept, [PersistNext]_persistVars PROVE Kept'
  BY Halves DEF PersistIInv
<1> USE DEF Kept
<1>0. saved \subseteq Devices /\ replaces' = replaces
  BY SameReplaces DEF Data
<1>1. ASSUME NEW d \in Devices, Change(d) PROVE Kept'
  <2>1. \A e \in Devices : records[e] # Unknown => records'[e] # Unknown
    BY <1>1, KnownStays
  <2>2. QED
    BY <1>0, <1>1, <2>1 DEF Change, flushing, disk, files
<1>2. ASSUME NEW d \in Devices, PublishFrame(d) PROVE Kept'
  <2>1. \A e \in Devices : records[e] # Unknown => records'[e] # Unknown
    BY <1>2, KnownStays
  <2>2. QED
    BY <1>0, <1>2, <2>1 DEF PublishFrame, flushing, disk, files
<1>3. CASE TimerFires
  BY <1>0, <1>3, BeginStep DEF Data, TimerFires, Awake, flushing, memory, disk, files
<1>4. CASE Close
  <2>1. UNCHANGED <<running, saved, removed, frameFile, registryFile>>
    BY <1>4, Zenon DEF Close, disk, files
  <2>2. at = "idle" /\ (at' = "write" \/ UNCHANGED <<at, target>>)
    BY <1>4, Zenon DEF Close, Awake, Begin, flushing
  <2>3. \A d \in Devices : records[d] # Unknown => records'[d] # Unknown
    BY <1>4, CloseStep, Zenon DEF Data
  <2>4. at' \in {"idle", "write"}
    BY <2>2
  <2>5. QED
    BY <1>0, <2>1, <2>3, <2>4
<1>5. CASE WriteTemporary
  BY <1>0, <1>5, TemporaryStep DEF WriteTemporary, memory
<1>6. CASE Rename
  <2>1. Done /\ Replace /\ running /\ at # "idle"
    BY <1>6, RenameStep
  <2>2. UNCHANGED <<running, records>> /\ at' \in {"idle", "write"} /\ removed' \subseteq removed
    BY <2>1, TargetStep DEF Done, memory
  <2>3. \A d \in saved' : d \in saved \/ (d \in Devices /\ image[d] # 0 /\ todo \ {target} = {})
    BY <2>1 DEF Done
  <2>4. \A d \in saved : /\ "registry" \in removed' \/ registryFile'[d] # Unknown
                         /\ d \in removed' \/ frameFile'[d] # 0
    BY <1>0, <2>1, ReplacedKept
  <2>5. ASSUME NEW d \in Devices, image[d] # 0, todo \ {target} = {}
        PROVE  records[d] # Unknown /\ registryFile'[d] # Unknown /\ frameFile'[d] # 0
    <3>1. target = "registry" /\ todo = {"registry"} /\ d \notin todo
      BY <2>1, <2>5, TargetStep, DevicesAssumption
    <3>2. frameFile' = frameFile /\ registryFile' = records
      BY <2>1, <3>1, TargetStep, DevicesAssumption
    <3>3. QED
      BY <2>1, <2>5, <3>1, <3>2 DEF Written, Newer
  <2>6. QED
    BY <1>0, <2>1, <2>2, <2>3, <2>4, <2>5
<1>7. CASE AlreadyExists
  BY <1>0, <1>7 DEF AlreadyExists, memory, disk, files
<1>8. CASE RemoveOld
  <2>1. /\ ~replaces /\ removed' = removed \cup {target} /\ target' = target /\ running
        /\ UNCHANGED <<running, records, saved>>
    BY <1>8 DEF RemoveOld, memory
  <2>2. \A d \in Devices : d = target \/ frameFile'[d] = frameFile[d]
    BY <1>8 DEF Data, RemoveOld, Put
  <2>3. target = "registry" \/ registryFile' = registryFile
    BY <1>8 DEF RemoveOld, Put
  <2>4. QED
    BY <1>0, <2>1, <2>2, <2>3
<1>9. CASE Fault
  <2>1. at # "idle" /\ running /\ at' = "idle" /\ UNCHANGED <<running, records, saved>>
    BY <1>9 DEF Fault, memory
  <2>2. UNCHANGED files \/ Replace
    BY <1>9 DEF Fault
  <2>3. removed' \subseteq removed
    BY <2>1, <2>2, TargetStep DEF files
  <2>4. \A d \in saved : /\ "registry" \in removed' \/ registryFile'[d] # Unknown
                         /\ d \in removed' \/ frameFile'[d] # 0
    BY <2>1, <2>2, ReplacedKept DEF files
  <2>5. QED
    BY <1>0, <2>1, <2>3, <2>4
<1>10. CASE Exit \/ Crash
  BY <1>0, <1>10 DEF Exit, Crash, Stop, disk, files
<1>11. CASE Restart
  <2>1. UNCHANGED <<at, target, files>> /\ saved' = {d \in saved : records'[d] # Unknown}
    BY <1>11 DEF Restart, flushing
  <2>2. QED
    BY <1>0, <2>1 DEF files
<1>12. CASE UNCHANGED persistVars
  BY <1>0, <1>12 DEF persistVars, memory, flushing, disk, files
<1>13. QED
  BY <1>1, <1>2, <1>3, <1>4, <1>5, <1>6, <1>7, <1>8, <1>9, <1>10, <1>11, <1>12
  DEF PersistNext, FlushStep

-----------------------------------------------------------------------------
\* The six parts hold together in every reachable state.
THEOREM PersistInvariance == PersistSpec => []PersistIInv
<1>1. PersistInit => PersistIInv
  BY PersistInitInvariant
<1>2. PersistIInv /\ [PersistNext]_persistVars => PersistIInv'
  <2>1. PersistIInv /\ [PersistNext]_persistVars => PersistTypeOK'
    <3>1. PersistTypeOK' <=> PersistBooleans' /\ Data'
      BY Zenon DEF PersistTypeOK, PersistBooleans, Data, Records
    <3>2. QED
      BY <3>1, Halves, PersistBooleansStep, DataStep DEF PersistIInv
  <2>2. QED
    BY <2>1, MarksStep, WrittenStep, NewerStep, OrderedStep, KeptStep, Zenon DEF PersistIInv
<1>3. QED
  BY <1>1, <1>2, PTL DEF PersistSpec

\* Whichever operation failed and wherever the hub crashed: a JPEG on disk is never
\* older than registry.json says; and each camera that a flush saved is found again,
\* with an image, until a start goes on without it, the file being missing only
\* between its removal and the second rename, which no platform whose rename
\* replaces comes to (flush 177-197, atomicWriteFile 739-764, loadState 200-257).
THEOREM DiskHolds == PersistSpec => []DiskIsTrue
<1>1. PersistIInv => FrameBeforeRegistry
  BY DEF PersistIInv, Ordered, FrameBeforeRegistry
<1>2. PersistIInv => SavedIsRestored
  BY DEF PersistIInv, Kept, SavedIsRestored
<1>3. PersistIInv => DiskIsTrue
  BY <1>1, <1>2 DEF DiskIsTrue
<1>4. QED
  BY <1>3, PersistInvariance, PTL

\* Nothing marked clean differs from the disk, and what is dirty has a timer, a
\* flush, or a hub that is closed (markDirty, schedulePersistence, flush).
THEOREM MarksHold == PersistSpec => []MarksAreTrue
<1>1. PersistIInv => CleanIsDurable
  BY DEF PersistIInv, Marks, Written, CleanIsDurable
<1>2. PersistIInv => MarksAreTrue
  BY <1>1, Zenon DEF PersistIInv, Marks, MarksAreTrue
<1>3. QED
  BY <1>2, PersistInvariance, PTL
=============================================================================
