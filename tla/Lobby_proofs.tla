---------------------------- MODULE Lobby_proofs ----------------------------
(***************************************************************************)
(* Lobby keeps its types, its timers run only in the phases they belong to,*)
(* a game that has begun stays as it is, and players learn each other's    *)
(* sides and readiness: for any players, sides and mishaps.  Without       *)
(* mishaps whoever plays has one game and, in the end, one clock.          *)
(***************************************************************************)
EXTENDS Lobby, SequenceTheorems, FiniteSetTheorems, WellFoundedInduction, TLAPS

Queues == [Node \X Node -> Seq(Message)]

\* Whoever is past choosing has a side, which ready and the roster go by.
SideChosen == \A n \in Node : player[n].phase # "side" => player[n].team \in Teams

\* The inductive invariant.
IInv == TypeOK /\ SideChosen /\ TimersMatchPhase

-----------------------------------------------------------------------------
(* Types of the operators.                                                 *)

LEMMA MessageTypes ==
    /\ \A t \in Teams : ReadyMsg(t) \in Message /\ SideMsg(t) \in Message
    /\ \A k \in {"unready", "time_sync_request", "time_sync_response"} : Plain(k) \in Message
    /\ \A m, c \in Node : GameStartMsg(m, c) \in Message
BY DEF ReadyMsg, SideMsg, Plain, GameStartMsg, Message

\* What is read of a message has its type.
LEMMA MessageKinds ==
    ASSUME NEW msg \in Message
    PROVE  /\ msg.type \in {"ready", "side_choice"} => msg.team \in Teams
           /\ msg.type = "game_start" => msg.game \in Node /\ msg.clock \in Node
BY DEF Message

Entry == [ready : BOOLEAN, team : Teams \cup {NoTeam}]

LEMMA HeardType ==
    ASSUME NEW e \in Entry, NEW msg \in Message
    PROVE  Heard(e, msg) \in Entry
<1>1. [e EXCEPT !.ready = FALSE] \in Entry
  BY DEF Entry
<1>2. msg.team \in Teams => [e EXCEPT !.team = msg.team] \in Entry
  BY DEF Entry
<1>3. msg.team \in Teams => [ready |-> TRUE, team |-> msg.team] \in Entry
  BY DEF Entry
<1>4. QED BY <1>1, <1>2, <1>3, MessageKinds DEF Heard

LEMMA SentType ==
    ASSUME NEW queues \in Queues, NEW n, NEW ps, NEW msg \in Message
    PROVE  Sent(queues, n, ps, msg) \in Queues
<1>1. \A c \in Node \X Node : Append(queues[c], msg) \in Seq(Message)
  BY AppendProperties DEF Queues
<1>2. QED BY <1>1 DEF Sent, Queues

\* A message that is received leaves its queue.
LEMMA ReceivedType ==
    ASSUME NEW c \in Node \X Node, net \in Queues, net[c] # <<>>
    PROVE  /\ Head(net[c]) \in Message
           /\ [net EXCEPT ![c] = Tail(@)] \in Queues
<1>1. Head(net[c]) \in Message /\ Tail(net[c]) \in Seq(Message)
  BY HeadTailProperties DEF Queues
<1>2. QED BY <1>1 DEF Queues

\* A player with one field replaced.
LEMMA FieldTypes ==
    ASSUME NEW s \in Player
    PROVE  /\ \A x \in Phases : [s EXCEPT !.phase = x] \in Player
           /\ \A x \in Teams \cup {NoTeam} : [s EXCEPT !.team = x] \in Player
           /\ \A x \in BOOLEAN : [s EXCEPT !.checking = x] \in Player
           /\ \A x \in BOOLEAN : [s EXCEPT !.counting = x] \in Player
           /\ \A x \in Node \cup {NoId} : [s EXCEPT !.game = x] \in Player
           /\ \A x \in [Node -> Teams \cup {NoTeam}] : [s EXCEPT !.roster = x] \in Player
           /\ \A x \in Node : [s EXCEPT !.clock = x] \in Player
           /\ \A x \in BOOLEAN : [s EXCEPT !.timed = x] \in Player
BY DEF Player

LEMMA RosterType ==
    ASSUME TypeOK, NEW n \in Node
    PROVE  RosterOf(n) \in [Node -> Teams \cup {NoTeam}]
BY DEF RosterOf, TypeOK, Player

LEMMA CountdownType ==
    ASSUME TypeOK, NEW n \in Node, NEW id \in Node \cup {NoId}, NEW c
    PROVE  Countdown(n, id, c) \in Player
<1> DEFINE a == [player[n] EXCEPT !.phase = "starting"]
           b == [a EXCEPT !.game = id]
           d == [b EXCEPT !.checking = FALSE]
           e == [d EXCEPT !.counting = TRUE]
           f == [e EXCEPT !.roster = RosterOf(n)]
<1>1. player[n] \in Player
  BY DEF TypeOK
<1>2. a \in Player
  BY <1>1, FieldTypes DEF Phases
<1>3. b \in Player
  <2> HIDE DEF a
  <2> QED BY <1>2, FieldTypes
<1>4. d \in Player
  <2> HIDE DEF b
  <2> QED BY <1>3, FieldTypes
<1>5. e \in Player
  <2> HIDE DEF d
  <2> QED BY <1>4, FieldTypes
<1>6. f \in Player
  <2> HIDE DEF e
  <2> QED BY <1>5, RosterType, FieldTypes
<1>7. [f EXCEPT !.timed = (player[n].clock = c)] \in Player
  <2> HIDE DEF f
  <2> QED BY <1>6, FieldTypes
<1>8. QED BY <1>7 DEF Countdown, BeginCountdown

LEMMA CountdownFields ==
    ASSUME NEW n \in Node, NEW id, NEW c, player[n] \in Player
    PROVE  /\ Countdown(n, id, c).phase = "starting"
           /\ Countdown(n, id, c).team = player[n].team
           /\ Countdown(n, id, c).checking = FALSE
           /\ Countdown(n, id, c).counting = TRUE
BY DEF Countdown, BeginCountdown, Player

LEMMA ClockType ==
    ASSUME TypeOK, NEW n \in Node, NEW p \in Node
    PROVE  HandleSyncResponse(n, p) \in Player
<1>1. player[n] \in Player
  BY DEF TypeOK
<1>2. QED BY <1>1, FieldTypes DEF HandleSyncResponse

LEMMA GameStartType ==
    ASSUME TypeOK, NEW n \in Node, NEW p \in Node, NEW msg \in Message,
           msg.type = "game_start"
    PROVE  HandleGameStart(n, p, msg) \in Player
BY MessageKinds, CountdownType DEF HandleGameStart, TypeOK

-----------------------------------------------------------------------------
(* Type correctness.                                                       *)

LEMMA InitTypes == Init => TypeOK
<1> SUFFICES ASSUME Init PROVE TypeOK
  OBVIOUS
<1>1. player \in [Node -> Player]
  BY TeamAssumption DEF Init, Player, Phases, Teams, EmptyGame
<1>2. seen \in [Node -> [Node -> [ready : BOOLEAN, team : Teams \cup {NoTeam}]]]
  BY TeamAssumption DEF Init, Teams
<1>3. net \in [Node \X Node -> Seq(Message)]
  BY EmptySeq DEF Init
<1>4. /\ peers \in [Node -> SUBSET Node] /\ up \subseteq Links
      /\ switched \subseteq Node /\ reset \subseteq Node /\ mishaps \in 0..MaxMishaps
  BY BoundAssumption DEF Init
<1>5. QED BY <1>1, <1>2, <1>3, <1>4 DEF TypeOK

LEMMA ReceiveTypes ==
    ASSUME TypeOK, NEW n \in Node, NEW p \in Node, Receive(p, n)
    PROVE  TypeOK'
<1> DEFINE msg    == Head(net[<<p, n>>])
           queues == [net EXCEPT ![<<p, n>>] = Tail(@)]
<1>1. msg \in Message /\ queues \in Queues
  BY ReceivedType DEF Receive, TypeOK, Queues
<1>2. Heard(seen[n][p], msg) \in [ready : BOOLEAN, team : Teams \cup {NoTeam}]
  BY <1>1, HeardType DEF TypeOK, Entry
<1>3. seen' \in [Node -> [Node -> [ready : BOOLEAN, team : Teams \cup {NoTeam}]]]
  <2>1. seen' = [seen EXCEPT ![n][p] = Heard(@, msg)]
    BY DEF Receive
  <2>2. QED BY <1>2, <2>1 DEF TypeOK
<1>4. player' \in [Node -> Player]
  <2>1. HandleSyncResponse(n, p) \in Player
    BY ClockType
  <2>2. msg.type = "game_start" => HandleGameStart(n, p, msg) \in Player
    BY <1>1, GameStartType
  <2>3. QED BY <2>1, <2>2 DEF Receive, TypeOK
<1>5. net' \in Queues
  BY <1>1, MessageTypes, SentType DEF Receive, AnswerTimeSync
<1>6. UNCHANGED <<peers, up, switched, reset, mishaps>>
  BY DEF Receive
<1>7. QED BY <1>3, <1>4, <1>5, <1>6 DEF TypeOK, Queues

\* What a player may become without the three parts of IInv noticing.
Fits(s) ==
    /\ s \in Player
    /\ s.phase # "side" => s.team \in Teams
    /\ s.checking => s.phase = "waiting"
    /\ s.counting <=> s.phase = "starting"

\* The operators of the game state keep what they must.
LEMMA SetSideFits ==
    ASSUME NEW s, Fits(s), NEW t \in Teams
    PROVE  Fits(SetSide(s, t))
<1> DEFINE a == [s EXCEPT !.phase = "choosing"]
           b == [a EXCEPT !.team = t]
<1>1. a \in Player
  BY FieldTypes DEF Fits, Phases
<1>2. b \in Player
  <2> HIDE DEF a
  <2> QED BY <1>1, FieldTypes
<1>3. b.phase = "choosing" /\ b.team = t /\ b.checking = s.checking /\ b.counting = s.counting
  BY DEF Fits, Player
<1> HIDE DEF b
<1>4. s.phase \in {"side", "choosing"} => Fits(b)
  BY <1>2, <1>3 DEF Fits
<1>5. QED BY <1>4 DEF SetSide, b

LEMMA ReadyFits ==
    ASSUME NEW s, Fits(s), s.phase = "choosing"
    PROVE  Fits([SetWaitingForPeers(s) EXCEPT !.checking = TRUE])
<1> DEFINE a == [s EXCEPT !.phase = "waiting"]
           b == [a EXCEPT !.checking = TRUE]
<1>1. a \in Player
  BY FieldTypes DEF Fits, Phases
<1>2. b \in Player
  <2> HIDE DEF a
  <2> QED BY <1>1, FieldTypes
<1>3. b.phase = "waiting" /\ b.team = s.team /\ b.counting = s.counting
  BY DEF Fits, Player
<1> HIDE DEF b
<1>4. Fits(b)
  BY <1>2, <1>3 DEF Fits
<1>5. QED BY <1>4 DEF SetWaitingForPeers, b

LEMMA PollStopsFits ==
    ASSUME NEW s, Fits(s)
    PROVE  Fits([s EXCEPT !.checking = FALSE])
<1> DEFINE b == [s EXCEPT !.checking = FALSE]
<1>1. b \in Player
  BY FieldTypes DEF Fits
<1>2. b.phase = s.phase /\ b.team = s.team /\ b.counting = s.counting /\ ~ b.checking
  BY DEF Fits, Player
<1> HIDE DEF b
<1>3. Fits(b)
  BY <1>1, <1>2 DEF Fits
<1>4. QED BY <1>3 DEF b

LEMMA UnreadyFits ==
    ASSUME NEW s, Fits(s), s.phase = "waiting"
    PROVE  Fits([SetUnready(s) EXCEPT !.checking = FALSE])
<1> DEFINE a == [s EXCEPT !.phase = "choosing"]
           b == [a EXCEPT !.checking = FALSE]
<1>1. a \in Player
  BY FieldTypes DEF Fits, Phases
<1>2. b \in Player
  <2> HIDE DEF a
  <2> QED BY <1>1, FieldTypes
<1>3. b.phase = "choosing" /\ b.team = s.team /\ b.counting = s.counting /\ ~ b.checking
  BY DEF Fits, Player
<1> HIDE DEF b
<1>4. Fits(b)
  BY <1>2, <1>3 DEF Fits
<1>5. QED BY <1>4 DEF SetUnready, b

LEMMA BeginFits ==
    ASSUME NEW s, Fits(s), s.counting
    PROVE  Fits([BeginPlay(s) EXCEPT !.counting = FALSE])
<1> DEFINE a == [s EXCEPT !.phase = "playing"]
           b == [a EXCEPT !.counting = FALSE]
<1>1. a \in Player
  BY FieldTypes DEF Fits, Phases
<1>2. b \in Player
  <2> HIDE DEF a
  <2> QED BY <1>1, FieldTypes
<1>3. b.phase = "playing" /\ b.team = s.team /\ b.checking = s.checking /\ ~ b.counting
  BY DEF Fits, Player
<1> HIDE DEF b
<1>4. Fits(b)
  BY <1>2, <1>3 DEF Fits
<1>5. QED BY <1>4 DEF BeginPlay, Fits, b

LEMMA ResetFits ==
    ASSUME NEW s, Fits(s)
    PROVE  Fits([ResetGame(s) EXCEPT
                    !.checking = FALSE, !.counting = FALSE, !.roster = EmptyGame])
<1> DEFINE a == [s EXCEPT !.phase = "side"]
           b == [a EXCEPT !.team = NoTeam]
           c == [b EXCEPT !.game = NoId]
           d == [c EXCEPT !.checking = FALSE]
           e == [d EXCEPT !.counting = FALSE]
           f == [e EXCEPT !.roster = EmptyGame]
<1>1. a \in Player
  BY FieldTypes DEF Fits, Phases
<1>2. b \in Player
  <2> HIDE DEF a
  <2> QED BY <1>1, FieldTypes
<1>3. c \in Player
  <2> HIDE DEF b
  <2> QED BY <1>2, FieldTypes
<1>4. d \in Player
  <2> HIDE DEF c
  <2> QED BY <1>3, FieldTypes
<1>5. e \in Player
  <2> HIDE DEF d
  <2> QED BY <1>4, FieldTypes
<1>6. f \in Player
  <2>1. EmptyGame \in [Node -> Teams \cup {NoTeam}]
    BY DEF EmptyGame
  <2> HIDE DEF e
  <2> QED BY <1>5, <2>1, FieldTypes
<1>7. f.phase = "side" /\ ~ f.checking /\ ~ f.counting
  BY DEF Fits, Player
<1> HIDE DEF f
<1>8. Fits(f)
  BY <1>6, <1>7 DEF Fits
<1>9. QED BY <1>8 DEF ResetGame, f

LEMMA FitsIsInvariant == IInv <=> TypeOK /\ \A n \in Node : Fits(player[n])
BY DEF IInv, SideChosen, TimersMatchPhase, Fits, TypeOK

LEMMA InitInv == Init => IInv
<1> SUFFICES ASSUME Init PROVE IInv
  OBVIOUS
<1>1. TypeOK
  BY InitTypes
<1>2. SideChosen /\ TimersMatchPhase
  BY TeamAssumption DEF Init, SideChosen, TimersMatchPhase, Teams
<1>3. QED BY <1>1, <1>2 DEF IInv

\* A step that replaces one player by another that fits keeps the invariant.
LEMMA OneFits ==
    ASSUME IInv, TypeOK', NEW n \in Node, NEW s,
           player' = [player EXCEPT ![n] = s], Fits(s)
    PROVE  IInv'
<1>1. \A m \in Node : Fits(player[m])
  BY FitsIsInvariant
<1>2. \A m \in Node : player'[m] = IF m = n THEN s ELSE player[m]
  BY DEF IInv, TypeOK
<1>3. \A m \in Node : Fits(player'[m])
  BY <1>1, <1>2
<1>4. QED BY <1>3 DEF IInv, SideChosen, TimersMatchPhase, Fits

\* ... and so does one that replaces none.
LEMMA NoneChanges ==
    ASSUME IInv, TypeOK', UNCHANGED player
    PROVE  IInv'
BY DEF IInv, SideChosen, TimersMatchPhase

LEMMA CountdownFits ==
    ASSUME IInv, NEW n \in Node, NEW id \in Node \cup {NoId}, NEW c,
           player[n].phase # "side"
    PROVE  Fits(Countdown(n, id, c))
<1>1. Countdown(n, id, c) \in Player
  BY CountdownType DEF IInv
<1>2. QED BY <1>1 DEF IInv, SideChosen, Fits, Countdown, BeginCountdown, Player, TypeOK

LEMMA ReceiveInv ==
    ASSUME IInv, NEW n \in Node, NEW p \in Node, Receive(p, n)
    PROVE  IInv'
<1> DEFINE msg == Head(net[<<p, n>>])
           s   == CASE msg.type = "game_start"         -> HandleGameStart(n, p, msg)
                    [] msg.type = "time_sync_response" -> HandleSyncResponse(n, p)
                    [] OTHER                           -> player[n]
<1>1. TypeOK'
  BY ReceiveTypes DEF IInv
<1>2. player' = [player EXCEPT ![n] = s]
  BY DEF Receive
<1>3. Fits(player[n])
  BY FitsIsInvariant
<1>4. msg \in Message
  BY ReceivedType DEF Receive, IInv, TypeOK, Queues
<1>5. msg.type = "game_start" => Fits(HandleGameStart(n, p, msg))
  BY <1>3, <1>4, MessageKinds, CountdownFits DEF HandleGameStart
<1>6. Fits(HandleSyncResponse(n, p))
  BY <1>3 DEF HandleSyncResponse, Fits, Player
<1>7. Fits(s)
  BY <1>3, <1>5, <1>6
<1>8. QED BY <1>1, <1>2, <1>7, OneFits

LEMMA MishapType ==
    ASSUME TypeOK, NEW kind, Mishap(kind)
    PROVE  mishaps' \in 0..MaxMishaps
BY BoundAssumption DEF Mishap, TypeOK

LEMMA NextInv == IInv /\ [Next]_vars => IInv'
<1> SUFFICES ASSUME IInv, [Next]_vars PROVE IInv'
  OBVIOUS
<1>0. TypeOK /\ \A n \in Node : Fits(player[n])
  BY FitsIsInvariant
<1>1. ASSUME NEW n \in Node, NEW t \in Teams, SetTeam(n, t) PROVE IInv'
  <2>1. Fits(SetSide(player[n], t))
    BY <1>0, SetSideFits
  <2>2. net' \in Queues
    BY <1>0, <1>1, MessageTypes, SentType DEF SetTeam, TypeOK, Queues
  <2>3. TypeOK'
    BY <1>0, <1>1, <2>1, <2>2 DEF SetTeam, TypeOK, Queues, Fits
  <2>4. QED BY <1>1, <2>1, <2>3, OneFits DEF SetTeam
<1>2. ASSUME NEW n \in Node, Ready(n) PROVE IInv'
  <2> DEFINE s == [SetWaitingForPeers(player[n]) EXCEPT !.checking = TRUE]
  <2>1. Fits(s)
    BY <1>0, <1>2, ReadyFits DEF Ready
  <2>2. player[n].team \in Teams
    BY <1>0, <1>2 DEF Ready, Fits
  <2>3. Sent(net, n, peers[n], ReadyMsg(player[n].team)) \in Queues
    BY <1>0, <2>2, MessageTypes, SentType DEF TypeOK, Queues
  <2>4. net' \in Queues
    BY <1>2, <2>3, MessageTypes, SentType DEF Ready, Synced
  <2>5. player' = [player EXCEPT ![n] = s]
    BY <1>2 DEF Ready
  <2>6. TypeOK'
    BY <1>0, <1>2, <2>1, <2>4, <2>5 DEF Ready, TypeOK, Queues, Fits
  <2>7. QED BY <2>1, <2>5, <2>6, OneFits
<1>3. ASSUME NEW n \in Node, Unready(n) PROVE IInv'
  <2> DEFINE s == [SetUnready(player[n]) EXCEPT !.checking = FALSE]
  <2>1. Fits(s)
    BY <1>0, <1>3, UnreadyFits DEF Unready
  <2>2. net' \in Queues
    BY <1>0, <1>3, MessageTypes, SentType DEF Unready, TypeOK, Queues
  <2>3. player' = [player EXCEPT ![n] = s]
    BY <1>3 DEF Unready
  <2>4. TypeOK'
    BY <1>0, <1>3, <2>1, <2>2, <2>3, MishapType DEF Unready, TypeOK, Queues, Fits
  <2>5. QED BY <2>1, <2>3, <2>4, OneFits
<1>4. ASSUME NEW n \in Node, ReadyTimesOut(n) PROVE IInv'
  <2> DEFINE s == [player[n] EXCEPT !.checking = FALSE]
  <2>1. Fits(s)
    BY <1>0, PollStopsFits
  <2>2. player' = [player EXCEPT ![n] = s]
    BY <1>4 DEF ReadyTimesOut
  <2>3. TypeOK'
    BY <1>0, <1>4, <2>1, <2>2, MishapType DEF ReadyTimesOut, TypeOK, Fits
  <2>4. QED BY <2>1, <2>2, <2>3, OneFits
<1>5. ASSUME NEW n \in Node, StartGame(n) PROVE IInv'
  <2> DEFINE id == IF n \in Masters(n, player[n].roster) THEN n ELSE NoId
             c == player[n].clock
  <2>1. player[n].phase = "waiting"
    BY <1>0, <1>5 DEF StartGame, AllPeersReady, Fits
  <2>2. Fits(Countdown(n, id, c)) /\ c \in Node
    <3>1. id \in Node \cup {NoId}
      OBVIOUS
    <3>2. player[n] \in Player /\ player[n].phase # "side"
      BY <1>0, <2>1 DEF Fits
    <3>3. c \in Node
      BY <3>2 DEF Player
    <3> HIDE DEF id, c
    <3>4. QED BY <3>1, <3>2, <3>3, CountdownFits
  <2>3. player' = [player EXCEPT ![n] = Countdown(n, id, c)]
    BY <1>5 DEF StartGame
  <2>4. net' \in Queues
    <3>1. Sent(net, n, peers[n], GameStartMsg(n, c)) \in Queues
      BY <1>0, <2>2, MessageTypes, SentType DEF TypeOK, Queues
    <3>2. QED BY <1>0, <1>5, <3>1 DEF StartGame, TypeOK, Queues
  <2>5. TypeOK'
    BY <1>0, <1>5, <2>2, <2>3, <2>4 DEF StartGame, TypeOK, Queues, Fits
  <2>6. QED BY <2>2, <2>3, <2>5, OneFits
<1>6. ASSUME NEW n \in Node, Begin(n) PROVE IInv'
  <2> DEFINE s == [BeginPlay(player[n]) EXCEPT !.counting = FALSE]
  <2>1. Fits(s)
    BY <1>0, <1>6, BeginFits DEF Begin
  <2>2. player' = [player EXCEPT ![n] = s]
    BY <1>6 DEF Begin
  <2>3. TypeOK'
    BY <1>0, <1>6, <2>1, <2>2 DEF Begin, TypeOK, Fits
  <2>4. QED BY <2>1, <2>2, <2>3, OneFits
<1>7. ASSUME NEW n \in Node, NEW p \in Node, Receive(p, n) PROVE IInv'
  BY <1>7, ReceiveInv
<1>8. ASSUME NEW l \in Links, LinkFails(l) PROVE IInv'
  <2>1. TypeOK'
    BY <1>0, <1>8, MishapType DEF LinkFails, TypeOK
  <2>2. QED BY <1>8, <2>1, NoneChanges DEF LinkFails
<1>9. ASSUME NEW n \in Node, NEW p \in Node, PeerDisconnects(n, p) PROVE IInv'
  <2>1. net' \in Queues
    BY <1>0, <1>9, EmptySeq DEF PeerDisconnects, TypeOK, Queues
  <2>2. TypeOK'
    BY <1>0, <1>9, <2>1 DEF PeerDisconnects, TypeOK, Queues, NewPeer
  <2>3. QED BY <1>9, <2>2, NoneChanges DEF PeerDisconnects
<1>10. ASSUME NEW a \in Node, NEW b \in Node, Connect(a, b) PROVE IInv'
  <2>1. net' \in Queues
    BY <1>0, <1>10, EmptySeq DEF Connect, TypeOK, Queues
  <2>2. {a, b} \in Links
    <3>1. /\ IsFiniteSet({a}) /\ Cardinality({a}) = 1
          /\ b \notin {a} /\ {a} \cup {b} = {a, b}
      BY <1>10, FS_Singleton DEF Connect
    <3>2. Cardinality({a, b}) = 2
      BY <3>1, FS_AddElement
    <3>3. QED BY <3>2 DEF Links
  <2>3. TypeOK'
    BY <1>0, <1>10, <2>1, <2>2 DEF Connect, TypeOK, Queues
  <2>4. QED BY <1>10, <2>3, NoneChanges DEF Connect
<1>11. ASSUME NEW n \in Node, NEW p \in Node, AddPeer(n, p) PROVE IInv'
  <2>1. CASE InGame(n) /\ player[n].roster[p] = NoTeam
    <3>1. TypeOK'
      BY <1>0, <1>11, <2>1 DEF AddPeer, TypeOK
    <3>2. QED BY <1>11, <3>1, NoneChanges DEF AddPeer
  <2>2. CASE ~ (InGame(n) /\ player[n].roster[p] = NoTeam)
    <3> DEFINE e == IF InGame(n) THEN [ready |-> TRUE, team |-> player[n].roster[p]]
                    ELSE NewPeer
    <3>1. player[n].roster[p] \in Teams \cup {NoTeam} /\ player[n].team \in Teams \cup {NoTeam}
      BY <1>0 DEF TypeOK, Player
    <3>2. e \in Entry
      BY <3>1 DEF Entry, NewPeer
    <3>3. seen' = [seen EXCEPT ![n][p] = e]
      BY <1>11, <2>2 DEF AddPeer
    <3>4. seen' \in [Node -> [Node -> Entry]]
      <4> HIDE DEF e
      <4> QED BY <1>0, <3>2, <3>3 DEF TypeOK, Entry
    <3>5. player[n].team # NoTeam =>
              Sent(net, n, {p}, SideMsg(player[n].team)) \in Queues
      BY <1>0, <3>1, MessageTypes, SentType DEF TypeOK, Queues
    <3>6. net' \in Queues
      BY <1>0, <1>11, <2>2, <3>5 DEF AddPeer, TypeOK, Queues
    <3>7. /\ peers' = [peers EXCEPT ![n] = @ \cup {p}]
          /\ UNCHANGED <<player, up, switched, reset, mishaps>>
      BY <1>11, <2>2 DEF AddPeer
    <3>8. TypeOK'
      BY <1>0, <3>4, <3>6, <3>7 DEF TypeOK, Queues, Entry
    <3>9. QED BY <3>7, <3>8, NoneChanges
  <2>3. QED BY <2>1, <2>2
<1>12. ASSUME NEW n \in Node, Reset(n) PROVE IInv'
  <2> DEFINE s == [ResetGame(player[n]) EXCEPT
                      !.checking = FALSE, !.counting = FALSE, !.roster = EmptyGame]
  <2>1. Fits(s)
    BY <1>0, ResetFits
  <2>2. player' = [player EXCEPT ![n] = s]
    BY <1>12 DEF Reset
  <2>3. TypeOK'
    BY <1>0, <1>12, <2>1, <2>2, MishapType DEF Reset, TypeOK, Fits, NewPeer
  <2>4. QED BY <2>1, <2>2, <2>3, OneFits
<1>13. CASE UNCHANGED vars
  <2>1. TypeOK'
    BY <1>0, <1>13 DEF vars, TypeOK
  <2>2. QED BY <1>13, <2>1, NoneChanges DEF vars
<1>14. QED
  BY <1>1, <1>2, <1>3, <1>4, <1>5, <1>6, <1>7, <1>8, <1>9, <1>10, <1>11, <1>12, <1>13
     DEF Next

LEMMA Invariance == Spec => []IInv
BY InitInv, NextInv, PTL DEF Spec

\* What a node keeps of its game, its peers and the messages under way always has
\* its type; ready in particular never announces an unchosen side.
THEOREM LobbyKeepsTypes == Spec => []TypeOK
<1>1. IInv => TypeOK
  BY DEF IInv
<1>2. QED BY <1>1, Invariance, PTL

\* The ready poll runs only while waiting and the countdown only while starting,
\* whatever unready, game_start, timeouts and reset do to them.
THEOREM TimersStayInPhase == Spec => []TimersMatchPhase
<1>1. IInv => TimersMatchPhase
  BY DEF IInv
<1>2. QED BY <1>1, Invariance, PTL

-----------------------------------------------------------------------------
(* Games that have begun.                                                  *)

Fixed(n) ==
    \/ player'[n].phase = "side"
    \/ /\ player'[n].phase = "playing"
       /\ player'[n].game = player[n].game
       /\ player'[n].roster = player[n].roster

LEMMA NextFixed ==
    IInv /\ [Next]_vars => \A n \in Node : player[n].phase = "playing" => Fixed(n)
<1> SUFFICES ASSUME IInv, [Next]_vars, NEW m \in Node, player[m].phase = "playing"
             PROVE  Fixed(m)
  OBVIOUS
<1>0. /\ player \in [Node -> Player]
      /\ \A n \in Node : Fits(player[n])
      /\ ~ player[m].checking /\ ~ player[m].counting
  BY FitsIsInvariant DEF IInv, TypeOK, Fits, Player
\* Another player's step does not concern m.
<1>1. ASSUME NEW n \in Node, NEW s, player' = [player EXCEPT ![n] = s],
             n = m => /\ s.phase = "playing" \/ s.phase = "side"
                      /\ s.phase = "playing" =>
                             s.game = player[m].game /\ s.roster = player[m].roster
      PROVE  Fixed(m)
  <2>1. player'[m] = IF n = m THEN s ELSE player[m]
    BY <1>0, <1>1
  <2>2. QED BY <1>1, <2>1 DEF Fixed
<1>2. CASE UNCHANGED player
  BY <1>2 DEF Fixed
<1>3. ASSUME NEW n \in Node, NEW t \in Teams, SetTeam(n, t) PROVE Fixed(m)
  BY <1>1, <1>3 DEF SetTeam
<1>4. ASSUME NEW n \in Node, Ready(n) PROVE Fixed(m)
  BY <1>1, <1>4 DEF Ready
<1>5. ASSUME NEW n \in Node, Unready(n) PROVE Fixed(m)
  BY <1>1, <1>5 DEF Unready
<1>6. ASSUME NEW n \in Node, ReadyTimesOut(n) PROVE Fixed(m)
  BY <1>0, <1>1, <1>6 DEF ReadyTimesOut
<1>7. ASSUME NEW n \in Node, StartGame(n) PROVE Fixed(m)
  <2>1. n # m
    BY <1>0, <1>7 DEF StartGame, AllPeersReady
  <2>2. QED BY <1>1, <1>7, <2>1 DEF StartGame
<1>8. ASSUME NEW n \in Node, Begin(n) PROVE Fixed(m)
  <2>1. n # m
    BY <1>0, <1>8 DEF Begin
  <2>2. QED BY <1>1, <1>8, <2>1 DEF Begin
<1>9. ASSUME NEW n \in Node, NEW p \in Node, Receive(p, n) PROVE Fixed(m)
  <2> DEFINE msg == Head(net[<<p, n>>])
             s   == CASE msg.type = "game_start"         -> HandleGameStart(n, p, msg)
                      [] msg.type = "time_sync_response" -> HandleSyncResponse(n, p)
                      [] OTHER                           -> player[n]
  <2>1. player' = [player EXCEPT ![n] = s]
    BY <1>9 DEF Receive
  <2>2. n = m => /\ s.phase = "playing"
                 /\ s.game = player[m].game /\ s.roster = player[m].roster
    BY <1>0 DEF HandleGameStart, HandleSyncResponse, Player
  <2> HIDE DEF s
  <2>3. QED BY <1>1, <2>1, <2>2
<1>10. ASSUME NEW n \in Node, Reset(n) PROVE Fixed(m)
  <2> DEFINE s == [ResetGame(player[n]) EXCEPT
                      !.checking = FALSE, !.counting = FALSE, !.roster = EmptyGame]
  <2>1. player' = [player EXCEPT ![n] = s]
    BY <1>10 DEF Reset
  <2>2. s.phase = "side"
    BY <1>0 DEF ResetGame, Player
  <2> HIDE DEF s
  <2>3. QED BY <1>1, <2>1, <2>2
<1>11. QED
  BY <1>2, <1>3, <1>4, <1>5, <1>6, <1>7, <1>8, <1>9, <1>10
     DEF Next, LinkFails, PeerDisconnects, Connect, AddPeer, vars

\* A game that has begun on a node keeps its id and its roster until the node
\* starts over: no late game_start, ready or reconnection touches it.
THEOREM BegunGamesStay == Spec => BegunGamesAreFixed
<1>1. IInv /\ [Next]_vars =>
          [\A n \in Node : player[n].phase = "playing" => Fixed(n)]_vars
  BY NextFixed
<1>2. QED BY <1>1, Invariance, PTL DEF Spec, BegunGamesAreFixed, Fixed

-----------------------------------------------------------------------------
(* What a message says about its sender.                                   *)

\* The messages that tell a side.
Telling(msg) == msg.type \in {"ready", "side_choice"}

Silent(q) == \A i \in 1..Len(q) : ~ Telling(q[i])

\* The last side told in q is t.
LastTold(q, t) ==
    \E i \in 1..Len(q) : /\ Telling(q[i]) /\ q[i].team = t
                         /\ \A j \in 1..Len(q) : j > i => ~ Telling(q[j])

Has(q, type) == \E i \in 1..Len(q) : q[i].type = type

\* Whatever ready is in q, an unready follows.
Retracted(q) ==
    \E i \in 1..Len(q) : /\ q[i].type = "unready"
                         /\ \A j \in 1..Len(q) : j > i => q[j].type # "ready"

LEMMA AppendTold ==
    ASSUME NEW q \in Seq(Message), NEW msg \in Message
    PROVE  /\ Telling(msg) => LastTold(Append(q, msg), msg.team)
           /\ ~ Telling(msg) => /\ Silent(q) => Silent(Append(q, msg))
                                /\ \A t : LastTold(q, t) => LastTold(Append(q, msg), t)
<1> DEFINE k == Append(q, msg)
<1>1. /\ Len(k) = Len(q) + 1 /\ Len(q) \in Nat
      /\ k[Len(q) + 1] = msg
      /\ \A i \in 1..Len(q) : k[i] = q[i]
  BY AppendProperties, LenProperties
<1> HIDE DEF k
<1>2. ASSUME Telling(msg) PROVE LastTold(k, msg.team)
  BY <1>1, <1>2 DEF LastTold
<1>3. ASSUME ~ Telling(msg), Silent(q) PROVE Silent(k)
  BY <1>1, <1>3 DEF Silent
<1>4. ASSUME ~ Telling(msg), NEW t, LastTold(q, t) PROVE LastTold(k, t)
  <2>1. PICK i \in 1..Len(q) : /\ Telling(q[i]) /\ q[i].team = t
                               /\ \A j \in 1..Len(q) : j > i => ~ Telling(q[j])
    BY <1>4 DEF LastTold
  <2>2. \A j \in 1..Len(k) : j > i => ~ Telling(k[j])
    BY <1>1, <1>4, <2>1
  <2>3. QED BY <1>1, <2>1, <2>2 DEF LastTold
<1>5. QED BY <1>2, <1>3, <1>4 DEF k

LEMMA AppendReady ==
    ASSUME NEW q \in Seq(Message), NEW msg \in Message
    PROVE  /\ \A type : Has(Append(q, msg), type) <=> Has(q, type) \/ msg.type = type
           /\ msg.type = "unready" => Retracted(Append(q, msg))
           /\ msg.type # "ready" /\ Retracted(q) => Retracted(Append(q, msg))
<1> DEFINE k == Append(q, msg)
<1>1. /\ Len(k) = Len(q) + 1 /\ Len(q) \in Nat
      /\ k[Len(q) + 1] = msg
      /\ \A i \in 1..Len(q) : k[i] = q[i]
  BY AppendProperties, LenProperties
<1> HIDE DEF k
<1>2. ASSUME NEW type PROVE Has(k, type) <=> Has(q, type) \/ msg.type = type
  BY <1>1 DEF Has
<1>3. ASSUME msg.type = "unready" PROVE Retracted(k)
  BY <1>1, <1>3 DEF Retracted
<1>4. ASSUME msg.type # "ready", Retracted(q) PROVE Retracted(k)
  <2>1. PICK i \in 1..Len(q) : /\ q[i].type = "unready"
                               /\ \A j \in 1..Len(q) : j > i => q[j].type # "ready"
    BY <1>4 DEF Retracted
  <2>2. \A j \in 1..Len(k) : j > i => k[j].type # "ready"
    BY <1>1, <1>4, <2>1
  <2>3. QED BY <1>1, <2>1, <2>2 DEF Retracted
<1>5. QED BY <1>2, <1>3, <1>4 DEF k

LEMMA TailFacts ==
    ASSUME NEW q \in Seq(Message), q # <<>>
    PROVE  /\ Tail(q) \in Seq(Message) /\ Head(q) \in Message
           /\ Head(q) = q[1] /\ Len(q) \in Nat \ {0}
           /\ Len(Tail(q)) = Len(q) - 1
           /\ \A i \in 1..Len(Tail(q)) : Tail(q)[i] = q[i + 1]
           /\ \A i \in 1..Len(q) : i = 1 \/ (i - 1 \in 1..Len(Tail(q)) /\ Tail(q)[i - 1] = q[i])
<1>1. /\ Tail(q) \in Seq(Message) /\ Head(q) \in Message
      /\ Head(q) = q[1] /\ Len(q) \in Nat \ {0}
      /\ Len(Tail(q)) = Len(q) - 1
      /\ \A i \in 1..Len(Tail(q)) : Tail(q)[i] = q[i + 1]
  BY HeadTailProperties, LenProperties, EmptySeq
<1>2. \A i \in 1..Len(q) : i = 1 \/ (i - 1 \in 1..Len(Tail(q)) /\ Tail(q)[i - 1] = q[i])
  BY <1>1
<1>3. QED BY <1>1, <1>2

LEMMA TailTold ==
    ASSUME NEW q \in Seq(Message), q # <<>>
    PROVE  /\ Silent(q) => Silent(Tail(q)) /\ ~ Telling(Head(q))
           /\ \A t : LastTold(q, t) =>
                  LastTold(Tail(q), t) \/ (/\ Telling(Head(q)) /\ Head(q).team = t
                                           /\ Silent(Tail(q)))
<1> DEFINE k == Tail(q)
<1>1. /\ Head(q) = q[1] /\ Len(q) \in Nat \ {0}
      /\ Len(k) = Len(q) - 1
      /\ \A i \in 1..Len(k) : k[i] = q[i + 1]
      /\ \A i \in 1..Len(q) : i = 1 \/ (i - 1 \in 1..Len(k) /\ k[i - 1] = q[i])
  BY TailFacts
<1> HIDE DEF k
<1>2. ASSUME Silent(q) PROVE Silent(k) /\ ~ Telling(Head(q))
  BY <1>1, <1>2 DEF Silent
<1>3. ASSUME NEW t, LastTold(q, t)
      PROVE  LastTold(k, t) \/ (Telling(Head(q)) /\ Head(q).team = t /\ Silent(k))
  <2>1. PICK i \in 1..Len(q) : /\ Telling(q[i]) /\ q[i].team = t
                               /\ \A j \in 1..Len(q) : j > i => ~ Telling(q[j])
    BY <1>3 DEF LastTold
  <2>2. \A j \in 1..Len(k) : j > i - 1 => ~ Telling(k[j])
    BY <1>1, <2>1
  <2>3. CASE i = 1
    BY <1>1, <2>1, <2>2, <2>3 DEF Silent
  <2>4. CASE i # 1
    <3>1. i - 1 \in 1..Len(k) /\ k[i - 1] = q[i]
      BY <1>1, <2>4
    <3>2. QED BY <2>1, <2>2, <3>1 DEF LastTold
  <2>5. QED BY <2>3, <2>4
<1>4. QED BY <1>2, <1>3 DEF k

LEMMA TailReady ==
    ASSUME NEW q \in Seq(Message), q # <<>>
    PROVE  /\ \A type : Has(q, type) <=> Head(q).type = type \/ Has(Tail(q), type)
           /\ Retracted(q) => \/ Retracted(Tail(q))
                              \/ Head(q).type = "unready" /\ ~ Has(Tail(q), "ready")
<1> DEFINE k == Tail(q)
<1>1. /\ Head(q) = q[1] /\ Len(q) \in Nat \ {0}
      /\ Len(k) = Len(q) - 1
      /\ \A i \in 1..Len(k) : k[i] = q[i + 1]
      /\ \A i \in 1..Len(q) : i = 1 \/ (i - 1 \in 1..Len(k) /\ k[i - 1] = q[i])
  BY TailFacts
<1> HIDE DEF k
<1>2. ASSUME NEW type PROVE Has(q, type) <=> Head(q).type = type \/ Has(k, type)
  <2>1. \A i \in 1..Len(k) : i + 1 \in 1..Len(q)
    BY <1>1
  <2>2. 1 \in 1..Len(q)
    BY <1>1
  <2>3. QED BY <1>1, <2>1, <2>2 DEF Has
<1>3. ASSUME Retracted(q)
      PROVE  Retracted(k) \/ (Head(q).type = "unready" /\ ~ Has(k, "ready"))
  <2>1. PICK i \in 1..Len(q) : /\ q[i].type = "unready"
                               /\ \A j \in 1..Len(q) : j > i => q[j].type # "ready"
    BY <1>3 DEF Retracted
  <2>2. \A j \in 1..Len(k) : j > i - 1 => k[j].type # "ready"
    BY <1>1, <2>1
  <2>3. CASE i = 1
    BY <1>1, <2>1, <2>2, <2>3 DEF Has
  <2>4. CASE i # 1
    <3>1. i - 1 \in 1..Len(k) /\ k[i - 1] = q[i]
      BY <1>1, <2>4
    <3>2. QED BY <2>1, <2>2, <3>1 DEF Retracted
  <2>5. QED BY <2>3, <2>4
<1>4. QED BY <1>2, <1>3 DEF k

LEMMA EmptyQueue ==
    /\ Silent(<<>>) /\ ~ Retracted(<<>>)
    /\ \A t : ~ LastTold(<<>>, t)
    /\ \A type : ~ Has(<<>>, type)
<1>1. Len(<<>>) = 0
  BY EmptySeq
<1>2. QED BY <1>1 DEF Silent, Retracted, LastTold, Has

-----------------------------------------------------------------------------
(* What players know of each other.                                        *)

\* p sends n what it does, and neither has started over.
Facing(n, p) ==
    /\ n \in peers[p] /\ {n, p} \in up
    /\ n \notin reset /\ p \notin reset

\* p is ready, or further.
Past(p) == player[p].phase \in {"waiting", "starting", "playing"}

\* n goes by what it is told, not by a roster; without mishaps the two agree.
Hears(n) == ~ InGame(n) \/ mishaps = 0

\* n knows p's side, or the message that tells it is on its way.
SideFollows(n, p) ==
    Facing(n, p) /\ Hears(n) /\ Hears(p) =>
        \/ LastTold(net[<<p, n>>], player[p].team)
        \/ /\ Silent(net[<<p, n>>])
           /\ p \in peers[n] /\ seen[n][p].team = player[p].team

\* p, not ready, is not thought ready for good.
ReadyFollows(n, p) ==
    Facing(n, p) /\ Hears(n) /\ ~ Past(p) =>
        \/ Retracted(net[<<p, n>>])
        \/ /\ ~ Has(net[<<p, n>>], "ready")
           /\ p \in peers[n] => ~ seen[n][p].ready

\* p has sent nothing over a connection it has not handled the start of.
NothingYet(n, p) ==
    {n, p} \in up /\ n \notin peers[p] =>
        /\ net[<<p, n>>] = <<>>
        /\ p \in peers[n] /\ ~ InGame(n) => ~ seen[n][p].ready

Knows(n, p) == SideFollows(n, p) /\ ReadyFollows(n, p) /\ NothingYet(n, p)

\* Only starting over takes a player back to choosing a side.
SideUnlessReset == \A n \in Node : n \notin reset => player[n].phase # "side"

Complete ==
    /\ up = Links /\ reset = {}
    /\ \A n \in Node : peers[n] = Node \ {n}

\* The inductive invariant.
KnowInv ==
    /\ IInv
    /\ SideUnlessReset
    /\ mishaps = 0 => Complete
    /\ \A n, p \in Node : Knows(n, p)

LEMMA PairIsLink ==
    ASSUME NEW a \in Node, NEW b \in Node
    PROVE  {a, b} \in Links <=> a # b
<1>1. /\ IsFiniteSet({a}) /\ Cardinality({a}) = 1
      /\ b # a => b \notin {a} /\ {a} \cup {b} = {a, b}
  BY FS_Singleton
<1>2. a # b => Cardinality({a, b}) = 2
  BY <1>1, FS_AddElement
<1>3. a = b => {a, b} = {a}
  OBVIOUS
<1>4. QED BY <1>1, <1>2, <1>3 DEF Links

\* A countdown puts its node in a game.
LEMMA CountdownInGame ==
    ASSUME IInv, NEW n \in Node, NEW id, NEW c, player[n].phase # "side",
           player'[n] = Countdown(n, id, c)
    PROVE  InGame(n)'
<1>1. player[n] \in Player /\ player[n].team \in Teams
  BY DEF IInv, TypeOK, SideChosen
<1>2. Countdown(n, id, c).roster = RosterOf(n)
  BY <1>1 DEF Countdown, BeginCountdown, Player
<1>3. player'[n].roster[n] # NoTeam
  BY <1>1, <1>2 DEF RosterOf, Teams, NoTeam
<1>4. QED BY <1>3 DEF InGame, Players

\* What a step does to one player, whatever it is.
SameOrReset(n) ==
    \/ Reset(n) /\ player'[n].roster = EmptyGame
    \/ player'[n].roster = player[n].roster
    \/ InGame(n)'

LEMMA ReceivedGameStart ==
    ASSUME IInv, NEW n \in Node, NEW p \in Node, Receive(p, n)
    PROVE  /\ player'[n].team = player[n].team
           /\ Past(n) => Past(n)'
           /\ player'[n].phase # player[n].phase => player'[n].phase = "starting"
           /\ player'[n].roster = player[n].roster \/ InGame(n)'
           /\ \A m \in Node : m # n => player'[m] = player[m]
<1> DEFINE msg == Head(net[<<p, n>>])
<1>1. player \in [Node -> Player] /\ player[n] \in Player
  BY DEF IInv, TypeOK
<1>2. \A m \in Node : m # n => player'[m] = player[m]
  BY <1>1 DEF Receive
<1>3. CASE msg.type = "game_start" /\ player[n].phase \in {"waiting", "starting"}
           /\ player'[n] = Countdown(n, msg.game, msg.clock)
  <2>1. InGame(n)'
    BY <1>3, CountdownInGame
  <2>2. LET s == Countdown(n, msg.game, msg.clock)
        IN  s.team = player[n].team /\ s.phase = "starting"
    BY <1>1 DEF Countdown, BeginCountdown, Player
  <2>3. player'[n].team = player[n].team /\ player'[n].phase = "starting"
    BY <1>3, <2>2
  <2>4. QED BY <1>2, <2>1, <2>3 DEF Past
<1>4. CASE player'[n] = HandleSyncResponse(n, p)
  BY <1>1, <1>2, <1>4 DEF HandleSyncResponse, Past, Player
<1>5. CASE player'[n] = player[n]
  BY <1>2, <1>5 DEF Past
<1>6. \/ msg.type = "game_start" /\ player'[n] = HandleGameStart(n, p, msg)
      \/ player'[n] = HandleSyncResponse(n, p)
      \/ player'[n] = player[n]
  BY <1>1 DEF Receive
<1>7. QED BY <1>3, <1>4, <1>5, <1>6 DEF HandleGameStart

\* The steps that change a player's game leave it in one, or start it over.
LEMMA RosterSteps ==
    ASSUME IInv, Next, NEW n \in Node
    PROVE  SameOrReset(n) /\ reset \subseteq reset' /\ (mishaps' = 0 => mishaps = 0)
<1>0. /\ player \in [Node -> Player] /\ player[n] \in Player
      /\ mishaps \in 0..MaxMishaps /\ MaxMishaps \in Nat
  BY BoundAssumption DEF IInv, TypeOK
<1>1. ASSUME NEW a \in Node, NEW t \in Teams, SetTeam(a, t) PROVE SameOrReset(n)
  BY <1>0, <1>1 DEF SetTeam, SetSide, Player, SameOrReset
<1>2. ASSUME NEW a \in Node, Ready(a) PROVE SameOrReset(n)
  BY <1>0, <1>2 DEF Ready, SetWaitingForPeers, Player, SameOrReset
<1>3. ASSUME NEW a \in Node, Unready(a) PROVE SameOrReset(n)
  BY <1>0, <1>3 DEF Unready, SetUnready, Player, SameOrReset
<1>4. ASSUME NEW a \in Node, ReadyTimesOut(a) PROVE SameOrReset(n)
  BY <1>0, <1>4 DEF ReadyTimesOut, Player, SameOrReset
<1>5. ASSUME NEW a \in Node, StartGame(a) PROVE SameOrReset(n)
  <2>1. player[a].phase # "side"
    BY <1>5 DEF StartGame, AllPeersReady, IInv, TimersMatchPhase
  <2>2. PICK id, c : player' = [player EXCEPT ![a] = Countdown(a, id, c)]
    BY <1>5 DEF StartGame
  <2>3. a = n => player'[a] = Countdown(a, id, c)
    BY <1>0, <2>2
  <2>4. a = n => InGame(n)'
    BY <2>1, <2>3, CountdownInGame
  <2>5. a # n => player'[n] = player[n]
    BY <1>0, <2>2
  <2>6. QED BY <2>4, <2>5 DEF SameOrReset
<1>6. ASSUME NEW a \in Node, Begin(a) PROVE SameOrReset(n)
  BY <1>0, <1>6 DEF Begin, BeginPlay, Player, SameOrReset
<1>7. ASSUME NEW a \in Node, NEW p \in Node, Receive(p, a) PROVE SameOrReset(n)
  BY <1>7, ReceivedGameStart DEF SameOrReset
<1>8. ASSUME NEW a \in Node, Reset(a) PROVE SameOrReset(n)
  <2> DEFINE s == [ResetGame(player[a]) EXCEPT
                      !.checking = FALSE, !.counting = FALSE, !.roster = EmptyGame]
  <2>1. player' = [player EXCEPT ![a] = s]
    BY <1>8 DEF Reset
  <2>2. a = n => s.roster = EmptyGame
    BY <1>0 DEF ResetGame, Player
  <2> HIDE DEF s
  <2>3. a = n => player'[n] = s
    BY <1>0, <2>1
  <2>4. a # n => player'[n] = player[n]
    BY <1>0, <2>1
  <2>5. QED BY <1>8, <2>2, <2>3, <2>4 DEF SameOrReset
<1>9. ASSUME UNCHANGED player PROVE SameOrReset(n)
  BY <1>9 DEF SameOrReset
<1>10. SameOrReset(n)
  BY <1>1, <1>2, <1>3, <1>4, <1>5, <1>6, <1>7, <1>8, <1>9
     DEF Next, LinkFails, PeerDisconnects, Connect, AddPeer
<1>11. reset \subseteq reset' /\ (mishaps' = 0 => mishaps = 0)
  <2>1. mishaps' = mishaps \/ \E kind : Mishap(kind)
    BY DEF Next, SetTeam, Ready, Unready, ReadyTimesOut, StartGame, Begin, Receive,
           LinkFails, PeerDisconnects, Connect, AddPeer, Reset
  <2>2. mishaps' = mishaps \/ mishaps' = mishaps + 1
    BY <2>1 DEF Mishap
  <2>3. reset' = reset \/ \E a \in Node : reset' = reset \cup {a}
    BY DEF Next, SetTeam, Ready, Unready, ReadyTimesOut, StartGame, Begin, Receive,
           LinkFails, PeerDisconnects, Connect, AddPeer, Reset
  <2>4. QED BY <1>0, <2>2, <2>3
<1>12. QED BY <1>10, <1>11

\* Who hears after a step heard before it.
LEMMA HearsBefore ==
    ASSUME IInv, Next, NEW n \in Node
    PROVE  /\ n \notin reset' => n \notin reset
           /\ n \notin reset' /\ Hears(n)' => Hears(n)
           /\ n \notin reset' /\ ~ InGame(n)' => ~ InGame(n)
<1>1. SameOrReset(n) /\ reset \subseteq reset' /\ (mishaps' = 0 => mishaps = 0)
  BY RosterSteps
<1>2. Reset(n) => n \in reset'
  BY DEF Reset
<1>3. n \notin reset' /\ ~ InGame(n)' => ~ InGame(n)
  BY <1>1, <1>2 DEF SameOrReset, InGame, Players
<1>4. QED BY <1>1, <1>3 DEF Hears

\* Without a mishap nobody leaves a game.
LEMMA StaysInGame ==
    ASSUME IInv, Next, NEW n \in Node, mishaps' = mishaps
    PROVE  ~ InGame(n)' => ~ InGame(n)
<1>1. SameOrReset(n)
  BY RosterSteps
<1>2. mishaps \in 0..MaxMishaps /\ MaxMishaps \in Nat
  BY BoundAssumption DEF IInv, TypeOK
<1>3. ~ Reset(n)
  BY <1>2 DEF Reset, Mishap
<1>4. QED BY <1>1, <1>3 DEF SameOrReset, InGame, Players

\* What a step may do around a pair of players without disturbing what one knows.
Untouched(n, p) ==
    /\ net'[<<p, n>>] = net[<<p, n>>]
    /\ seen'[n][p] = seen[n][p]
    /\ player'[p].team = player[p].team
    /\ Past(p) => Past(p)'
    /\ p \in peers'[n] <=> p \in peers[n]
    /\ n \in peers'[p] <=> n \in peers[p]
    /\ {n, p} \in up' => {n, p} \in up
    /\ ~ InGame(n)' => ~ InGame(n)

LEMMA UntouchedKnows ==
    ASSUME KnowInv, Next, NEW n \in Node, NEW p \in Node, Untouched(n, p)
    PROVE  Knows(n, p)'
<1>1. Knows(n, p)
  BY DEF KnowInv
<1>2. /\ n \notin reset' => n \notin reset
      /\ n \notin reset' /\ Hears(n)' => Hears(n)
      /\ n \notin reset' /\ ~ InGame(n)' => ~ InGame(n)
  BY HearsBefore DEF KnowInv
<1>3. /\ p \notin reset' => p \notin reset
      /\ p \notin reset' /\ Hears(p)' => Hears(p)
  BY HearsBefore DEF KnowInv
<1>4. Facing(n, p)' => Facing(n, p)
  BY <1>2, <1>3 DEF Facing, Untouched
<1>5. SideFollows(n, p)'
  <2>1. SideFollows(n, p)
    BY <1>1 DEF Knows
  <2>2. CASE ~ (Facing(n, p) /\ Hears(n) /\ Hears(p))'
    BY <2>2 DEF SideFollows
  <2>3. CASE (Facing(n, p) /\ Hears(n) /\ Hears(p))'
    <3>1. Facing(n, p) /\ Hears(n) /\ Hears(p)
      BY <1>2, <1>3, <1>4, <2>3 DEF Facing
    <3>2. QED BY <2>1, <3>1 DEF SideFollows, Untouched
  <2>4. QED BY <2>2, <2>3
<1>6. ReadyFollows(n, p)'
  <2>1. ReadyFollows(n, p)
    BY <1>1 DEF Knows
  <2>2. CASE ~ (Facing(n, p) /\ Hears(n) /\ ~ Past(p))'
    BY <2>2 DEF ReadyFollows
  <2>3. CASE (Facing(n, p) /\ Hears(n) /\ ~ Past(p))'
    <3>1. Facing(n, p) /\ Hears(n) /\ ~ Past(p)
      BY <1>2, <1>4, <2>3 DEF Facing, Untouched
    <3>2. QED BY <2>1, <3>1 DEF ReadyFollows, Untouched
  <2>4. QED BY <2>2, <2>3
<1>7. NothingYet(n, p)'
  <2>1. NothingYet(n, p)
    BY <1>1 DEF Knows
  <2>2. QED BY <2>1 DEF NothingYet, Untouched
<1>8. QED BY <1>5, <1>6, <1>7 DEF Knows

\* What the invariant says of types, in the forms the steps below need.
LEMMA KnowTypes ==
    ASSUME KnowInv
    PROVE  /\ player \in [Node -> Player] /\ net \in Queues
           /\ seen \in [Node -> [Node -> Entry]]
           /\ peers \in [Node -> SUBSET Node] /\ up \subseteq Links
           /\ mishaps \in Nat
           /\ \A n \in Node : Fits(player[n]) /\ player[n] \in Player
           /\ \A n, p \in Node : net[<<p, n>>] \in Seq(Message)
<1>1. MaxMishaps \in Nat
  BY BoundAssumption
<1>2. mishaps \in Nat
  BY <1>1 DEF KnowInv, IInv, TypeOK
<1>3. QED BY <1>2, FitsIsInvariant DEF KnowInv, IInv, TypeOK, Queues, Entry

\* The queue from p to n after p sends to ps, and every other one.
LEMMA SentTo ==
    ASSUME NEW queues, NEW p \in Node, NEW n \in Node, NEW m \in Node, NEW ps, NEW msg
    PROVE  Sent(queues, m, ps, msg)[<<p, n>>] =
               IF p = m /\ n \in ps /\ {p, n} \in up
               THEN Append(queues[<<p, n>>], msg) ELSE queues[<<p, n>>]
BY DEF Sent

LEMMA PairSwap == \A a, b : {a, b} = {b, a}
OBVIOUS

-----------------------------------------------------------------------------
(* The steps.                                                              *)

LEMMA SetTeamKnows ==
    ASSUME KnowInv, Next, NEW m \in Node, NEW t \in Teams, SetTeam(m, t),
           NEW n \in Node, NEW p \in Node
    PROVE  Knows(n, p)'
<1>0. /\ player[m] \in Player /\ net[<<p, n>>] \in Seq(Message)
      /\ player \in [Node -> Player]
  BY KnowTypes
<1>1. /\ player' = [player EXCEPT ![m] = SetSide(player[m], t)]
      /\ net' = Sent(net, m, peers[m], SideMsg(t))
      /\ player[m].phase \in {"side", "choosing"}
      /\ UNCHANGED <<seen, peers, up, reset, mishaps>>
  BY DEF SetTeam
<1>2. ~ Past(m) /\ ~ Past(m)' /\ player'[m].team = t
  BY <1>0, <1>1 DEF SetSide, Player, Past
<1>3. \A a \in Node : a # m => player'[a] = player[a]
  BY <1>0, <1>1
<1>4. ~ InGame(n)' => ~ InGame(n)
  BY <1>1, StaysInGame DEF KnowInv
<1>s. net'[<<p, n>>] = IF p = m /\ n \in peers[m] /\ {p, n} \in up
                       THEN Append(net[<<p, n>>], SideMsg(t)) ELSE net[<<p, n>>]
  BY <1>1, SentTo
<1>5. CASE ~ (p = m /\ n \in peers[m] /\ {p, n} \in up)
  <2>1. net'[<<p, n>>] = net[<<p, n>>]
    BY <1>s, <1>5
  <2>2. CASE p # m
    <3>1. Untouched(n, p)
      BY <1>1, <1>3, <1>4, <2>1, <2>2 DEF Untouched, Past
    <3>2. QED BY <3>1, UntouchedKnows
  <2>3. CASE p = m
    <3>1. ~ Facing(n, p)'
      BY <1>1, <1>5, <2>3, PairSwap DEF Facing
    <3>2. NothingYet(n, p)
      BY DEF KnowInv, Knows
    <3>3. NothingYet(n, p)'
      BY <1>1, <1>4, <2>1, <3>2 DEF NothingYet
    <3>4. QED BY <3>1, <3>3 DEF Knows, SideFollows, ReadyFollows
  <2>4. QED BY <2>2, <2>3
<1>6. CASE p = m /\ n \in peers[m] /\ {p, n} \in up
  <2>1. net'[<<p, n>>] = Append(net[<<p, n>>], SideMsg(t))
    BY <1>s, <1>6
  <2>2. SideMsg(t) \in Message /\ Telling(SideMsg(t)) /\ SideMsg(t).team = t
        /\ SideMsg(t).type # "ready"
    BY MessageTypes DEF SideMsg, Telling
  <2>3. SideFollows(n, p)'
    BY <1>0, <1>2, <1>6, <2>1, <2>2, AppendTold DEF SideFollows
  <2>4. ReadyFollows(n, p)'
    <3>1. ReadyFollows(n, p)
      BY DEF KnowInv, Knows
    <3>2. /\ n \notin reset' => n \notin reset
          /\ n \notin reset' /\ Hears(n)' => Hears(n)
      BY HearsBefore DEF KnowInv
    <3>3. ASSUME (Facing(n, p) /\ Hears(n))'
          PROVE  \/ Retracted(net[<<p, n>>])
                 \/ /\ ~ Has(net[<<p, n>>], "ready")
                    /\ p \in peers[n] => ~ seen[n][p].ready
      BY <1>1, <1>2, <1>6, <3>1, <3>2, <3>3 DEF ReadyFollows, Facing
    <3>4. Retracted(net[<<p, n>>]) => Retracted(net[<<p, n>>])'
      BY <1>0, <2>1, <2>2, AppendReady
    <3>5. ~ Has(net[<<p, n>>], "ready") => ~ Has(net[<<p, n>>], "ready")'
      BY <1>0, <2>1, <2>2, AppendReady
    <3>6. QED BY <1>1, <3>3, <3>4, <3>5 DEF ReadyFollows
  <2>5. NothingYet(n, p)'
    BY <1>1, <1>6 DEF NothingYet
  <2>6. QED BY <2>3, <2>4, <2>5 DEF Knows
<1>7. QED BY <1>5, <1>6
\* A player that cannot reach n tells it nothing.
LEMMA UnreachedKnows ==
    ASSUME KnowInv, NEW n \in Node, NEW p \in Node,
           UNCHANGED <<peers, up>>, ~ (n \in peers[p] /\ {p, n} \in up),
           net'[<<p, n>>] = net[<<p, n>>], seen'[n][p] = seen[n][p],
           ~ InGame(n)' => ~ InGame(n)
    PROVE  Knows(n, p)'
<1>1. ~ Facing(n, p)'
  BY PairSwap DEF Facing
<1>2. NothingYet(n, p)
  BY DEF KnowInv, Knows
<1>3. NothingYet(n, p)'
  BY <1>2 DEF NothingYet
<1>4. QED BY <1>1, <1>3 DEF Knows, SideFollows, ReadyFollows

\* A message that tells no side and no readiness leaves n to learn what it would.
LEMMA PlainKnows ==
    ASSUME KnowInv, Next, NEW n \in Node, NEW p \in Node, NEW msg \in Message,
           ~ Telling(msg), n \in peers[p], {p, n} \in up, UNCHANGED <<peers, up>>,
           net'[<<p, n>>] = Append(net[<<p, n>>], msg),
           seen'[n][p] = seen[n][p], player'[p].team = player[p].team,
           msg.type = "unready" \/ (Past(p) => Past(p)')
    PROVE  Knows(n, p)'
<1> DEFINE q == net[<<p, n>>]
<1>1. /\ q \in Seq(Message) /\ {n, p} = {p, n} /\ msg.type # "ready"
  BY KnowTypes DEF Telling
<1>2. /\ n \notin reset' => n \notin reset
      /\ n \notin reset' /\ Hears(n)' => Hears(n)
  BY HearsBefore DEF KnowInv
<1>3. /\ p \notin reset' => p \notin reset
      /\ p \notin reset' /\ Hears(p)' => Hears(p)
  BY HearsBefore DEF KnowInv
<1>4. /\ Silent(q) => Silent(Append(q, msg))
      /\ LastTold(q, player[p].team) => LastTold(Append(q, msg), player[p].team)
  BY <1>1, AppendTold
<1>5. /\ Has(Append(q, msg), "ready") <=> Has(q, "ready")
      /\ msg.type = "unready" => Retracted(Append(q, msg))
      /\ Retracted(q) => Retracted(Append(q, msg))
  BY <1>1, AppendReady
<1>6. SideFollows(n, p) /\ ReadyFollows(n, p)
  BY DEF KnowInv, Knows
<1>7. SideFollows(n, p)'
  <2>1. CASE ~ (Facing(n, p) /\ Hears(n) /\ Hears(p))'
    BY <2>1 DEF SideFollows
  <2>2. CASE (Facing(n, p) /\ Hears(n) /\ Hears(p))'
    <3>1. Facing(n, p) /\ Hears(n) /\ Hears(p)
      BY <1>1, <1>2, <1>3, <2>2 DEF Facing
    <3>2. QED BY <1>4, <1>6, <3>1 DEF SideFollows
  <2>3. QED BY <2>1, <2>2
<1>8. ReadyFollows(n, p)'
  <2>1. CASE ~ (Facing(n, p) /\ Hears(n) /\ ~ Past(p))'
    BY <2>1 DEF ReadyFollows
  <2>2. CASE msg.type = "unready"
    BY <1>5, <2>2 DEF ReadyFollows
  <2>3. CASE (Facing(n, p) /\ Hears(n) /\ ~ Past(p))' /\ msg.type # "unready"
    <3>1. Facing(n, p) /\ Hears(n) /\ ~ Past(p)
      BY <1>1, <1>2, <1>3, <2>3 DEF Facing
    <3>2. QED BY <1>5, <1>6, <3>1 DEF ReadyFollows
  <2>4. QED BY <2>1, <2>2, <2>3
<1>9. NothingYet(n, p)'
  BY DEF NothingYet
<1>10. QED BY <1>7, <1>8, <1>9 DEF Knows

LEMMA ReadyKnows ==
    ASSUME KnowInv, Next, NEW m \in Node, Ready(m), NEW n \in Node, NEW p \in Node
    PROVE  Knows(n, p)'
<1> DEFINE q    == net[<<p, n>>]
           tell == ReadyMsg(player[m].team)
           ask  == Plain("time_sync_request")
<1>0. /\ player[m] \in Player /\ q \in Seq(Message)
      /\ player \in [Node -> Player] /\ Fits(player[m])
  BY KnowTypes
<1>1. /\ player' = [player EXCEPT ![m] = [SetWaitingForPeers(player[m]) EXCEPT !.checking = TRUE]]
      /\ net' = Synced(Sent(net, m, peers[m], tell), m)
      /\ player[m].phase = "choosing"
      /\ UNCHANGED <<seen, peers, up, reset, mishaps>>
  BY DEF Ready
<1>2. Past(m)' /\ player'[m].team = player[m].team /\ player[m].team \in Teams
  BY <1>0, <1>1 DEF SetWaitingForPeers, Player, Past, Fits
<1>3. \A a \in Node : a # m => player'[a] = player[a]
  BY <1>0, <1>1
<1>4. ~ InGame(n)' => ~ InGame(n)
  BY <1>1, StaysInGame DEF KnowInv
<1>5. Sent(net, m, peers[m], tell)[<<p, n>>] =
          IF p = m /\ n \in peers[m] /\ {p, n} \in up THEN Append(q, tell) ELSE q
  BY SentTo
<1>6. net'[<<p, n>>] =
          IF p = m /\ n \in TimeMasters(m) /\ {p, n} \in up
          THEN Append(Sent(net, m, peers[m], tell)[<<p, n>>], ask)
          ELSE Sent(net, m, peers[m], tell)[<<p, n>>]
  <2> HIDE DEF tell, ask
  <2>1. Sent(Sent(net, m, peers[m], tell), m, TimeMasters(m), ask)[<<p, n>>] =
          IF p = m /\ n \in TimeMasters(m) /\ {p, n} \in up
          THEN Append(Sent(net, m, peers[m], tell)[<<p, n>>], ask)
          ELSE Sent(net, m, peers[m], tell)[<<p, n>>]
    BY SentTo
  <2>2. QED BY <1>1, <2>1 DEF Synced, ask
<1>7. TimeMasters(m) \subseteq peers[m]
  BY DEF TimeMasters
<1>8. CASE p # m
  <2>1. Untouched(n, p)
    BY <1>1, <1>3, <1>4, <1>5, <1>6, <1>8 DEF Untouched, Past
  <2>2. QED BY <2>1, UntouchedKnows
<1>9. CASE p = m /\ ~ (n \in peers[m] /\ {p, n} \in up)
  <2>1. net'[<<p, n>>] = net[<<p, n>>]
    BY <1>5, <1>6, <1>7, <1>9
  <2>2. QED BY <1>1, <1>4, <1>9, <2>1, UnreachedKnows
<1>10. CASE p = m /\ n \in peers[m] /\ {p, n} \in up
  <2>1. /\ tell \in Message /\ Telling(tell) /\ tell.team = player[m].team
        /\ ask \in Message /\ ~ Telling(ask)
    BY <1>2, MessageTypes DEF ReadyMsg, Plain, Telling
  <2>2. /\ Append(q, tell) \in Seq(Message) /\ LastTold(Append(q, tell), player[m].team)
    <3> HIDE DEF tell
    <3>1. LastTold(Append(q, tell), tell.team)
      BY <1>0, <2>1, AppendTold
    <3>2. QED BY <1>0, <2>1, <3>1, AppendProperties
  <2>3. LastTold(Append(Append(q, tell), ask), player[m].team)
    <3> HIDE DEF tell, ask
    <3>1. QED BY <2>1, <2>2, AppendTold
  <2>4. LastTold(net'[<<p, n>>], player'[p].team)
    BY <1>2, <1>5, <1>6, <1>10, <2>2, <2>3
  <2>5. QED BY <1>1, <1>2, <1>10, <2>4 DEF Knows, SideFollows, ReadyFollows, NothingYet
<1>11. QED BY <1>8, <1>9, <1>10

LEMMA UnreadyKnows ==
    ASSUME KnowInv, Next, NEW m \in Node, Unready(m), NEW n \in Node, NEW p \in Node
    PROVE  Knows(n, p)'
<1>0. player[m] \in Player /\ player \in [Node -> Player]
  BY KnowTypes
<1>1. /\ player' = [player EXCEPT ![m] = [SetUnready(player[m]) EXCEPT !.checking = FALSE]]
      /\ net' = Sent(net, m, peers[m], Plain("unready"))
      /\ UNCHANGED <<seen, peers, up, reset>>
  BY DEF Unready
<1>2. player'[m].team = player[m].team /\ player'[m].roster = player[m].roster
  BY <1>0, <1>1 DEF SetUnready, Player
<1>3. \A a \in Node : a # m => player'[a] = player[a]
  BY <1>0, <1>1
<1>4. ~ InGame(n)' => ~ InGame(n)
  BY <1>2, <1>3 DEF InGame
<1>5. net'[<<p, n>>] = IF p = m /\ n \in peers[m] /\ {p, n} \in up
                       THEN Append(net[<<p, n>>], Plain("unready")) ELSE net[<<p, n>>]
  BY <1>1, SentTo
<1>6. CASE p # m
  <2>1. Untouched(n, p)
    BY <1>1, <1>3, <1>4, <1>5, <1>6 DEF Untouched, Past
  <2>2. QED BY <2>1, UntouchedKnows
<1>7. CASE p = m /\ ~ (n \in peers[m] /\ {p, n} \in up)
  BY <1>1, <1>4, <1>5, <1>7, UnreachedKnows
<1>8. CASE p = m /\ n \in peers[m] /\ {p, n} \in up
  <2>1. Plain("unready") \in Message /\ ~ Telling(Plain("unready"))
        /\ Plain("unready").type = "unready"
    BY MessageTypes DEF Plain, Telling
  <2>2. net'[<<p, n>>] = Append(net[<<p, n>>], Plain("unready"))
    BY <1>5, <1>8
  <2>3. n \in peers[p] /\ player'[p].team = player[p].team
    BY <1>2, <1>8
  <2>4. QED BY <1>1, <1>8, <2>1, <2>2, <2>3, PlainKnows
<1>9. QED BY <1>6, <1>7, <1>8

LEMMA StartGameKnows ==
    ASSUME KnowInv, Next, NEW m \in Node, StartGame(m), NEW n \in Node, NEW p \in Node
    PROVE  Knows(n, p)'
<1>0. player[m] \in Player /\ player \in [Node -> Player]
  BY KnowTypes
<1> DEFINE start == GameStartMsg(m, player[m].clock)
<1>1. PICK id, c : player' = [player EXCEPT ![m] = Countdown(m, id, c)]
  BY DEF StartGame
<1>2. /\ net' = Sent(net, m, peers[m], start) \/ net' = net
      /\ UNCHANGED <<seen, peers, up, reset, mishaps>>
  BY DEF StartGame
<1>3. player'[m].team = player[m].team /\ Past(m)'
  BY <1>0, <1>1, CountdownFields DEF Past
<1>4. \A a \in Node : a # m => player'[a] = player[a]
  BY <1>0, <1>1
<1>5. ~ InGame(n)' => ~ InGame(n)
  BY <1>2, StaysInGame DEF KnowInv
<1>6. Sent(net, m, peers[m], start)[<<p, n>>] =
          IF p = m /\ n \in peers[m] /\ {p, n} \in up
          THEN Append(net[<<p, n>>], start) ELSE net[<<p, n>>]
  BY SentTo
<1>7. CASE net'[<<p, n>>] = net[<<p, n>>]
  <2>1. Untouched(n, p)
    BY <1>2, <1>3, <1>4, <1>5, <1>7 DEF Untouched, Past
  <2>2. QED BY <2>1, UntouchedKnows
<1>8. CASE net'[<<p, n>>] # net[<<p, n>>]
  <2>1. /\ p = m /\ n \in peers[m] /\ {p, n} \in up
        /\ net'[<<p, n>>] = Append(net[<<p, n>>], start)
    BY <1>2, <1>6, <1>8
  <2>2. start \in Message /\ ~ Telling(start)
    BY <1>0, MessageTypes DEF Player, GameStartMsg, Telling
  <2>3. n \in peers[p] /\ player'[p].team = player[p].team /\ Past(p)'
    BY <1>3, <2>1
  <2>4. QED BY <1>2, <2>1, <2>2, <2>3, PlainKnows
<1>9. QED BY <1>7, <1>8

\* Steps of one player that send nothing and keep its side.
LEMMA QuietKnows ==
    ASSUME KnowInv, Next, NEW n \in Node, NEW p \in Node,
           UNCHANGED <<seen, peers, net>>, up' \subseteq up,
           player'[p].team = player[p].team, Past(p) => Past(p)', ~ InGame(n)' => ~ InGame(n)
    PROVE  Knows(n, p)'
<1>1. Untouched(n, p)
  BY DEF Untouched
<1>2. QED BY <1>1, UntouchedKnows

\* The message from p that n handles says what n then knows.
LEMMA HandledKnows ==
    ASSUME KnowInv, Next, NEW n \in Node, NEW p \in Node, n # p, Receive(p, n)
    PROVE  Knows(n, p)'
<1> DEFINE q == net[<<p, n>>]
           e == seen[n][p]
<1>0. /\ net \in Queues /\ q \in Seq(Message) /\ q # <<>>
      /\ seen \in [Node -> [Node -> Entry]] /\ player \in [Node -> Player]
      /\ p \in peers[n] /\ UNCHANGED <<peers, up, reset, mishaps>>
  BY KnowTypes DEF Receive
<1>1. net'[<<p, n>>] = Tail(q)
  <2> DEFINE queues == [net EXCEPT ![<<p, n>>] = Tail(@)]
             answer == Plain("time_sync_response")
  <2>1. queues[<<p, n>>] = Tail(q) /\ queues \in [Node \X Node -> Seq(Message) \cup {Tail(q)}]
    BY <1>0 DEF Queues
  <2> HIDE DEF queues, answer, q, e
  <2>2. Sent(queues, n, {p}, answer)[<<p, n>>] = queues[<<p, n>>]
    BY DEF Sent
  <2>3. net' = queues \/ net' = Sent(queues, n, {p}, answer)
    BY DEF Receive, AnswerTimeSync, queues, answer
  <2>4. QED BY <2>1, <2>2, <2>3 DEF q
<1>2. seen'[n][p] = Heard(e, Head(q))
  <2>1. seen' = [seen EXCEPT ![n][p] = Heard(@, Head(q))]
    BY DEF Receive
  <2>2. QED BY <1>0, <2>1
<1>3. player'[p] = player[p]
  BY ReceivedGameStart DEF KnowInv
<1>4. Head(q) \in Message /\ e \in Entry
  BY <1>0, TailFacts
<1>5. /\ Telling(Head(q)) => Heard(e, Head(q)).team = Head(q).team
      /\ ~ Telling(Head(q)) => Heard(e, Head(q)).team = e.team
      /\ Head(q).type = "unready" => ~ Heard(e, Head(q)).ready
      /\ Head(q).type # "ready" /\ ~ e.ready => ~ Heard(e, Head(q)).ready
  BY <1>4 DEF Heard, Telling, Entry
<1>6. /\ n \notin reset' => n \notin reset
      /\ n \notin reset' /\ Hears(n)' => Hears(n)
  BY HearsBefore DEF KnowInv
<1>7. p \notin reset' /\ Hears(p)' => Hears(p)
  BY HearsBefore DEF KnowInv
<1>8. SideFollows(n, p) /\ ReadyFollows(n, p) /\ NothingYet(n, p)
  BY DEF KnowInv, Knows
<1> HIDE DEF e
<1>9. SideFollows(n, p)'
  <2>1. CASE ~ (Facing(n, p) /\ Hears(n) /\ Hears(p))'
    BY <2>1 DEF SideFollows
  <2>2. CASE (Facing(n, p) /\ Hears(n) /\ Hears(p))'
    <3>1. Facing(n, p) /\ Hears(n) /\ Hears(p)
      BY <1>0, <1>6, <1>7, <2>2 DEF Facing
    <3>2. CASE LastTold(q, player[p].team)
      <4>1. \/ LastTold(Tail(q), player[p].team)
            \/ Telling(Head(q)) /\ Head(q).team = player[p].team /\ Silent(Tail(q))
        BY <1>0, <3>2, TailTold
      <4>2. QED BY <1>0, <1>1, <1>2, <1>3, <1>5, <4>1 DEF SideFollows
    <3>3. CASE Silent(q) /\ e.team = player[p].team
      <4>1. Silent(Tail(q)) /\ ~ Telling(Head(q))
        BY <1>0, <3>3, TailTold
      <4>2. QED BY <1>0, <1>1, <1>2, <1>3, <1>5, <3>3, <4>1 DEF SideFollows
    <3>4. QED BY <1>8, <3>1, <3>2, <3>3 DEF SideFollows, e
  <2>3. QED BY <2>1, <2>2
<1>10. ReadyFollows(n, p)'
  <2>1. CASE ~ (Facing(n, p) /\ Hears(n) /\ ~ Past(p))'
    BY <2>1 DEF ReadyFollows
  <2>2. CASE (Facing(n, p) /\ Hears(n) /\ ~ Past(p))'
    <3>1. Facing(n, p) /\ Hears(n) /\ ~ Past(p)
      BY <1>0, <1>3, <1>6, <2>2 DEF Facing, Past
    <3>2. CASE Retracted(q)
      <4>1. \/ Retracted(Tail(q))
            \/ Head(q).type = "unready" /\ ~ Has(Tail(q), "ready")
        BY <1>0, <3>2, TailReady
      <4>2. QED BY <1>1, <1>2, <1>5, <4>1 DEF ReadyFollows
    <3>3. CASE ~ Has(q, "ready") /\ ~ e.ready
      <4>1. Head(q).type # "ready" /\ ~ Has(Tail(q), "ready")
        BY <1>0, <3>3, TailReady
      <4>2. QED BY <1>1, <1>2, <1>5, <3>3, <4>1 DEF ReadyFollows
    <3>4. QED BY <1>0, <1>8, <3>1, <3>2, <3>3 DEF ReadyFollows, e
  <2>3. QED BY <2>1, <2>2
<1>11. NothingYet(n, p)'
  BY <1>0, <1>8 DEF NothingYet
<1>12. QED BY <1>9, <1>10, <1>11 DEF Knows

\* Nobody sends itself anything.
LEMMA SelfKnows ==
    ASSUME NEW n \in Node, (up \subseteq Links)'
    PROVE  Knows(n, n)'
<1>1. {n, n} \notin up'
  BY PairIsLink DEF Links
<1>2. QED BY <1>1 DEF Knows, SideFollows, ReadyFollows, NothingYet, Facing

LEMMA ReceiveKnows ==
    ASSUME KnowInv, Next, NEW a \in Node, NEW b \in Node, Receive(a, b),
           NEW n \in Node, NEW p \in Node
    PROVE  Knows(n, p)'
<1> DEFINE queues == [net EXCEPT ![<<a, b>>] = Tail(@)]
           answer == Plain("time_sync_response")
<1>0. /\ net \in Queues /\ a \in peers[b] /\ up \subseteq Links
      /\ seen \in [Node -> [Node -> Entry]]
      /\ UNCHANGED <<peers, up, reset, mishaps>>
  BY KnowTypes DEF Receive
<1>1. /\ player'[p].team = player[p].team
      /\ Past(p) => Past(p)'
      /\ ~ InGame(n)' => ~ InGame(n)
  <2>1. /\ player'[b].team = player[b].team
        /\ Past(b) => Past(b)'
        /\ \A m \in Node : m # b => player'[m] = player[m]
    BY ReceivedGameStart DEF KnowInv
  <2>2. ~ InGame(n)' => ~ InGame(n)
    BY <1>0, StaysInGame DEF KnowInv
  <2>3. QED BY <2>1, <2>2 DEF Past
<1>2. CASE n = p
  BY <1>0, <1>2, SelfKnows
<1>3. CASE n = b /\ p = a /\ n # p
  BY <1>3, HandledKnows
<1>4. CASE ~ (n = b /\ p = a) /\ n # p
  <2>1. seen'[n][p] = seen[n][p]
    <3>1. seen' = [seen EXCEPT ![b][a] = Heard(@, Head(net[<<a, b>>]))]
      BY DEF Receive
    <3>2. QED BY <1>0, <1>4, <3>1
  <2>2. queues[<<p, n>>] = net[<<p, n>>]
    BY <1>0, <1>4 DEF Queues
  <2> HIDE DEF queues
  <2>3. net' = queues \/ net' = Sent(queues, b, {a}, answer)
    BY DEF Receive, AnswerTimeSync, queues
  <2>4. Sent(queues, b, {a}, answer)[<<p, n>>] =
            IF p = b /\ n \in {a} /\ {p, n} \in up
            THEN Append(net[<<p, n>>], answer) ELSE net[<<p, n>>]
    <3> HIDE DEF answer
    <3>1. QED BY <2>2, SentTo
  <2>5. CASE net'[<<p, n>>] = net[<<p, n>>]
    <3>1. Untouched(n, p)
      BY <1>0, <1>1, <2>1, <2>5 DEF Untouched
    <3>2. QED BY <3>1, UntouchedKnows
  <2>6. CASE net'[<<p, n>>] # net[<<p, n>>]
    <3>1. /\ p = b /\ n = a /\ {p, n} \in up
          /\ net'[<<p, n>>] = Append(net[<<p, n>>], answer)
      BY <2>2, <2>3, <2>4, <2>6
    <3>2. answer \in Message /\ ~ Telling(answer)
      BY MessageTypes DEF Plain, Telling
    <3> HIDE DEF answer
    <3>3. n \in peers[p]
      BY <1>0, <3>1
    <3>4. QED BY <1>0, <1>1, <2>1, <3>1, <3>2, <3>3, PlainKnows
  <2>7. QED BY <2>5, <2>6
<1>5. QED BY <1>2, <1>3, <1>4

LEMMA PeerDisconnectsKnows ==
    ASSUME KnowInv, Next, NEW a \in Node, NEW b \in Node, PeerDisconnects(a, b),
           NEW n \in Node, NEW p \in Node
    PROVE  Knows(n, p)'
<1>0. /\ net \in Queues /\ peers \in [Node -> SUBSET Node]
      /\ seen \in [Node -> [Node -> Entry]]
      /\ {a, b} \notin up /\ UNCHANGED <<player, up, reset, mishaps>>
      /\ peers' = [peers EXCEPT ![a] = @ \ {b}]
      /\ seen' = [seen EXCEPT ![a][b] = NewPeer]
      /\ net' = [net EXCEPT ![<<b, a>>] = <<>>]
  BY KnowTypes DEF PeerDisconnects
<1>1. CASE {n, p} = {a, b}
  BY <1>0, <1>1 DEF Knows, SideFollows, ReadyFollows, NothingYet, Facing
<1>2. CASE {n, p} # {a, b}
  <2>1. ~ (n = a /\ p = b) /\ ~ (n = b /\ p = a)
    BY <1>2
  <2>2. seen'[n][p] = seen[n][p] /\ net'[<<p, n>>] = net[<<p, n>>]
    BY <1>0, <2>1 DEF Queues
  <2>3. /\ p \in peers'[n] <=> p \in peers[n]
        /\ n \in peers'[p] <=> n \in peers[p]
    BY <1>0, <2>1
  <2>4. Untouched(n, p)
    BY <1>0, <2>2, <2>3 DEF Untouched, Past, InGame
  <2>5. QED BY <2>4, UntouchedKnows
<1>3. QED BY <1>1, <1>2

LEMMA ConnectKnows ==
    ASSUME KnowInv, Next, NEW a \in Node, NEW b \in Node, Connect(a, b),
           NEW n \in Node, NEW p \in Node
    PROVE  Knows(n, p)'
<1>0. /\ a \notin peers[b] /\ b \notin peers[a]
      /\ UNCHANGED <<player, seen, peers, reset, mishaps>>
      /\ up' = up \cup {{a, b}}
      /\ net'[<<p, n>>] = IF {p, n} = {a, b} THEN <<>> ELSE net[<<p, n>>]
  BY DEF Connect
<1>1. CASE {n, p} = {a, b}
  <2>1. n \notin peers'[p] /\ p \notin peers'[n] /\ net'[<<p, n>>] = <<>>
    BY <1>0, <1>1
  <2>2. QED BY <2>1 DEF Knows, SideFollows, ReadyFollows, NothingYet, Facing
<1>2. CASE {n, p} # {a, b}
  <2>1. net'[<<p, n>>] = net[<<p, n>>] /\ ({n, p} \in up' => {n, p} \in up)
    BY <1>0, <1>2
  <2>2. Untouched(n, p)
    BY <1>0, <2>1 DEF Untouched, Past, InGame
  <2>3. QED BY <2>2, UntouchedKnows
<1>3. QED BY <1>1, <1>2

LEMMA ResetKnows ==
    ASSUME KnowInv, Next, NEW m \in Node, Reset(m), NEW n \in Node, NEW p \in Node
    PROVE  Knows(n, p)'
<1>0. /\ player \in [Node -> Player] /\ seen \in [Node -> [Node -> Entry]]
      /\ m \in reset' /\ UNCHANGED <<peers, up, net>>
      /\ seen' = [seen EXCEPT ![m] = [a \in Node |-> NewPeer]]
      /\ \A a \in Node : a # m => player'[a] = player[a]
  BY KnowTypes DEF Reset
<1>1. CASE n = m \/ p = m
  <2>1. ~ Facing(n, p)'
    BY <1>0, <1>1 DEF Facing
  <2>2. NothingYet(n, p)
    BY DEF KnowInv, Knows
  <2>3. NothingYet(n, p)'
    <3>1. CASE n = m
      BY <1>0, <2>2, <3>1 DEF NothingYet, NewPeer
    <3>2. CASE n # m
      BY <1>0, <2>2, <3>2 DEF NothingYet, InGame
    <3>3. QED BY <3>1, <3>2
  <2>4. QED BY <2>1, <2>3 DEF Knows, SideFollows, ReadyFollows
<1>2. CASE n # m /\ p # m
  <2>1. Untouched(n, p)
    BY <1>0, <1>2 DEF Untouched, Past, InGame
  <2>2. QED BY <2>1, UntouchedKnows
<1>3. QED BY <1>1, <1>2

LEMMA AddPeerKnows ==
    ASSUME KnowInv, Next, NEW a \in Node, NEW b \in Node, AddPeer(a, b),
           NEW n \in Node, NEW p \in Node
    PROVE  Knows(n, p)'
<1>0. /\ peers \in [Node -> SUBSET Node] /\ up \subseteq Links
      /\ seen \in [Node -> [Node -> Entry]] /\ net \in Queues
      /\ a # b /\ {a, b} \in up /\ b \notin peers[a]
      /\ UNCHANGED <<player, reset, mishaps>>
  BY KnowTypes DEF AddPeer
<1>1. UNCHANGED <<InGame(n), InGame(p), Past(p), Hears(n), Hears(p)>>
  BY <1>0 DEF InGame, Past, Hears
<1>2. mishaps # 0
  <2>1. Complete => peers[a] = Node \ {a}
    BY DEF Complete
  <2>2. QED BY <1>0, <2>1 DEF KnowInv
<1>3. Knows(n, p)
  BY DEF KnowInv
<1>4. CASE InGame(a) /\ player[a].roster[b] = NoTeam
  <2>1. UNCHANGED <<seen, peers, net>> /\ up' \subseteq up
    BY <1>4 DEF AddPeer
  <2>2. QED BY <1>0, <1>1, <2>1, QuietKnows
<1>5. CASE ~ (InGame(a) /\ player[a].roster[b] = NoTeam)
  <2> DEFINE e == IF InGame(a) THEN [ready |-> TRUE, team |-> player[a].roster[b]]
                  ELSE NewPeer
             side == SideMsg(player[a].team)
  <2>1. /\ peers' = [peers EXCEPT ![a] = @ \cup {b}]
        /\ seen' = [seen EXCEPT ![a][b] = e]
        /\ net' = IF ~ InGame(a) /\ player[a].team # NoTeam
                  THEN Sent(net, a, {b}, side) ELSE net
        /\ up' = up
    BY <1>5 DEF AddPeer
  <2>2. ~ InGame(a) => ~ e.ready
    BY DEF NewPeer
  <2> HIDE DEF e, side
  <2>3. Sent(net, a, {b}, side)[<<p, n>>] =
            IF p = a /\ n \in {b} /\ {p, n} \in up
            THEN Append(net[<<p, n>>], side) ELSE net[<<p, n>>]
    BY SentTo
  \* a adds b, from which it knows nothing but what is on its way.
  <2>4. CASE n = a /\ p = b
    <3>1. seen'[n][p] = e /\ net'[<<p, n>>] = net[<<p, n>>] /\ peers'[p] = peers[p]
      BY <1>0, <2>1, <2>3, <2>4
    <3>2. p \notin peers[n]
      BY <1>0, <2>4
    <3>3. Facing(n, p)' <=> Facing(n, p)
      BY <1>0, <2>1, <3>1 DEF Facing
    <3>4. SideFollows(n, p)'
      BY <1>0, <1>1, <1>3, <3>1, <3>2, <3>3 DEF Knows, SideFollows
    <3>5. ReadyFollows(n, p)'
      <4>1. Hears(n)' => ~ InGame(n)
        BY <1>1, <1>2 DEF Hears
      <4>2. Hears(n)' => ~ e.ready
        BY <2>2, <2>4, <4>1
      <4>3. QED BY <1>1, <1>3, <3>1, <3>3, <4>2 DEF Knows, ReadyFollows
    <3>6. NothingYet(n, p)'
      <4>1. ~ InGame(n)' => ~ e.ready
        BY <1>1, <2>2, <2>4
      <4>2. QED BY <1>3, <2>1, <3>1, <4>1 DEF Knows, NothingYet
    <3>7. QED BY <3>4, <3>5, <3>6 DEF Knows
  \* a tells b its side over a connection it has not used before.
  <2>5. CASE n = b /\ p = a
    <3>1. seen'[n][p] = seen[n][p] /\ n \in peers'[p] /\ peers'[n] = peers[n]
      BY <1>0, <2>1, <2>5
    <3>2. /\ n \notin peers[p] /\ {n, p} \in up /\ {p, n} \in up
          /\ net[<<p, n>>] = <<>>
          /\ p \in peers[n] /\ ~ InGame(n) => ~ seen[n][p].ready
      BY <1>0, <1>3, <2>5, PairSwap DEF Knows, NothingYet
    <3>3. SideFollows(n, p)'
      <4>1. CASE ~ (Facing(n, p) /\ Hears(p))'
        BY <4>1 DEF SideFollows
      <4>2. CASE (Facing(n, p) /\ Hears(p))'
        <5>1. ~ InGame(p) /\ p \notin reset
          BY <1>0, <1>1, <1>2, <4>2 DEF Hears, Facing
        <5>2. player[p].team \in Teams
          BY <5>1 DEF KnowInv, SideUnlessReset, IInv, SideChosen
        <5>3. side \in Message /\ Telling(side) /\ side.team = player[p].team
          BY <2>5, <5>2, MessageTypes DEF side, SideMsg, Telling
        <5>4. net'[<<p, n>>] = Append(net[<<p, n>>], side)
          BY <2>1, <2>3, <2>5, <3>2, <5>1, <5>2 DEF Teams, NoTeam
        <5>5. LastTold(Append(net[<<p, n>>], side), player[p].team)
          <6>1. net[<<p, n>>] \in Seq(Message)
            BY KnowTypes
          <6>2. LastTold(Append(net[<<p, n>>], side), side.team)
            BY <5>3, <6>1, AppendTold
          <6>3. QED BY <5>3, <6>2
        <5>6. QED BY <1>0, <5>4, <5>5 DEF SideFollows
      <4>3. QED BY <4>1, <4>2
    <3>4. ReadyFollows(n, p)'
      <4>1. Hears(n)' => ~ InGame(n)
        BY <1>1, <1>2 DEF Hears
      <4>2. ~ Has(net[<<p, n>>], "ready")
        BY <3>2, EmptyQueue
      <4>3. ~ Has(net'[<<p, n>>], "ready")
        <5>1. CASE net'[<<p, n>>] = net[<<p, n>>]
          BY <4>2, <5>1
        <5>2. CASE net'[<<p, n>>] # net[<<p, n>>]
          <6>1. net'[<<p, n>>] = Append(net[<<p, n>>], side) /\ player[a].team # NoTeam
            BY <2>1, <2>3, <5>2
          <6>2. player[a].team \in Teams
            BY <6>1, KnowTypes DEF Player
          <6>3. side \in Message /\ side.type # "ready"
            BY <6>2, MessageTypes DEF side, SideMsg
          <6>4. net[<<p, n>>] \in Seq(Message)
            BY KnowTypes
          <6>5. QED BY <4>2, <6>1, <6>3, <6>4, AppendReady
        <5>3. QED BY <5>1, <5>2
      <4>4. QED BY <3>1, <3>2, <4>1, <4>3 DEF ReadyFollows
    <3>5. NothingYet(n, p)'
      BY <3>1 DEF NothingYet
    <3>6. QED BY <3>3, <3>4, <3>5 DEF Knows
  <2>6. CASE ~ (n = a /\ p = b) /\ ~ (n = b /\ p = a)
    <3>1. seen'[n][p] = seen[n][p] /\ net'[<<p, n>>] = net[<<p, n>>]
      BY <1>0, <2>1, <2>3, <2>6
    <3>2. /\ p \in peers'[n] <=> p \in peers[n]
          /\ n \in peers'[p] <=> n \in peers[p]
      BY <1>0, <2>1, <2>6
    <3>3. Untouched(n, p)
      BY <1>0, <1>1, <2>1, <3>1, <3>2 DEF Untouched
    <3>4. QED BY <3>3, UntouchedKnows
  <2>7. QED BY <2>4, <2>5, <2>6
<1>6. QED BY <1>4, <1>5

LEMMA InitKnows == Init => KnowInv
<1> SUFFICES ASSUME Init PROVE KnowInv
  OBVIOUS
<1>1. SideUnlessReset /\ Complete
  BY DEF Init, SideUnlessReset, Complete
<1>2. ASSUME NEW n \in Node, NEW p \in Node PROVE Knows(n, p)
  <2>1. net[<<p, n>>] = <<>> /\ ~ seen[n][p].ready /\ seen[n][p].team = player[p].team
    BY DEF Init
  <2>2. {n, p} \in up => n # p
    BY PairIsLink DEF Init
  <2>3. n # p => p \in peers[n]
    BY DEF Init
  <2>4. QED BY <2>1, <2>2, <2>3, EmptyQueue
            DEF Knows, SideFollows, ReadyFollows, NothingYet, Facing
<1>3. QED BY <1>1, <1>2, InitInv DEF KnowInv

LEMMA SideStays ==
    ASSUME KnowInv, Next
    PROVE  SideUnlessReset'
<1>0. player \in [Node -> Player] /\ reset \subseteq reset'
  <2>1. reset \subseteq reset'
    BY DEF Next, SetTeam, Ready, Unready, ReadyTimesOut, StartGame, Begin, Receive,
           LinkFails, PeerDisconnects, Connect, AddPeer, Reset
  <2>2. QED BY <2>1, KnowTypes
<1> SUFFICES ASSUME NEW n \in Node, n \notin reset', player'[n].phase = "side"
             PROVE  FALSE
  BY DEF SideUnlessReset
<1>1. player[n].phase # "side" /\ player[n] \in Player
  BY <1>0 DEF KnowInv, SideUnlessReset
<1>2. ASSUME NEW a \in Node, NEW t \in Teams, SetTeam(a, t) PROVE FALSE
  BY <1>0, <1>1, <1>2 DEF SetTeam, SetSide, Player
<1>3. ASSUME NEW a \in Node, Ready(a) PROVE FALSE
  BY <1>0, <1>1, <1>3 DEF Ready, SetWaitingForPeers, Player
<1>4. ASSUME NEW a \in Node, Unready(a) PROVE FALSE
  BY <1>0, <1>1, <1>4 DEF Unready, SetUnready, Player
<1>5. ASSUME NEW a \in Node, ReadyTimesOut(a) PROVE FALSE
  BY <1>0, <1>1, <1>5 DEF ReadyTimesOut, Player
<1>6. ASSUME NEW a \in Node, StartGame(a) PROVE FALSE
  BY <1>0, <1>1, <1>6, CountdownFields DEF StartGame
<1>7. ASSUME NEW a \in Node, Begin(a) PROVE FALSE
  BY <1>0, <1>1, <1>7 DEF Begin, BeginPlay, Player
<1>8. ASSUME NEW a \in Node, NEW p \in Node, Receive(p, a) PROVE FALSE
  <2>1. player'[n].phase # player[n].phase => player'[n].phase = "starting"
    BY <1>8, ReceivedGameStart DEF KnowInv
  <2>2. QED BY <1>1, <2>1
<1>9. ASSUME NEW a \in Node, Reset(a) PROVE FALSE
  BY <1>0, <1>1, <1>9 DEF Reset
<1>10. ASSUME UNCHANGED player PROVE FALSE
  BY <1>1, <1>10
<1>11. QED
  BY <1>2, <1>3, <1>4, <1>5, <1>6, <1>7, <1>8, <1>9, <1>10
     DEF KnowInv, Next, LinkFails, PeerDisconnects, Connect, AddPeer

\* Connections are lost only by mishaps, and nothing else undoes a full table.
LEMMA StaysComplete ==
    ASSUME KnowInv, Next, mishaps' = 0
    PROVE  Complete' /\ mishaps = 0
<1>1. mishaps = 0 /\ mishaps \in Nat
  <2>1. mishaps \in Nat
    BY KnowTypes
  <2>2. mishaps' = mishaps \/ \E kind : Mishap(kind)
    BY DEF Next, SetTeam, Ready, Unready, ReadyTimesOut, StartGame, Begin, Receive,
           LinkFails, PeerDisconnects, Connect, AddPeer, Reset
  <2>3. QED BY <2>1, <2>2 DEF Mishap
<1>2. Complete
  BY <1>1 DEF KnowInv
<1>3. ~ \E kind : Mishap(kind)
  BY <1>1 DEF Mishap
<1>4. ASSUME NEW a \in Node, NEW b \in Node
      PROVE  ~ PeerDisconnects(a, b) /\ ~ Connect(a, b) /\ ~ AddPeer(a, b)
  BY <1>2, PairIsLink DEF PeerDisconnects, Connect, AddPeer, Complete
<1>5. UNCHANGED <<peers, up, reset>>
  BY <1>3, <1>4 DEF Next, SetTeam, Ready, Unready, ReadyTimesOut, StartGame, Begin,
                    Receive, LinkFails, Reset
<1>6. QED BY <1>1, <1>2, <1>5 DEF Complete

LEMMA NextKnows == KnowInv /\ [Next]_vars => KnowInv'
<1> SUFFICES ASSUME KnowInv, [Next]_vars PROVE KnowInv'
  OBVIOUS
<1>0. IInv' /\ player \in [Node -> Player]
  BY NextInv, KnowTypes DEF KnowInv
<1>1. CASE UNCHANGED vars
  BY <1>0, <1>1 DEF vars, KnowInv, SideUnlessReset, Complete, Knows, SideFollows,
                    ReadyFollows, NothingYet, Facing, Hears, Past, InGame
<1>2. CASE Next
  <2>1. SideUnlessReset' /\ (mishaps' = 0 => Complete')
    BY <1>2, SideStays, StaysComplete
  <2>2. ASSUME NEW n \in Node, NEW p \in Node PROVE Knows(n, p)'
    <3>1. ASSUME NEW a \in Node, NEW t \in Teams, SetTeam(a, t) PROVE Knows(n, p)'
      BY <1>2, <3>1, SetTeamKnows
    <3>2. ASSUME NEW a \in Node, Ready(a) PROVE Knows(n, p)'
      BY <1>2, <3>2, ReadyKnows
    <3>3. ASSUME NEW a \in Node, Unready(a) PROVE Knows(n, p)'
      BY <1>2, <3>3, UnreadyKnows
    <3>4. ASSUME NEW a \in Node, ReadyTimesOut(a) PROVE Knows(n, p)'
      <4>1. /\ UNCHANGED <<seen, peers, net, up>>
            /\ \A m \in Node : player'[m] = player[m]
                               \/ player'[m] = [player[m] EXCEPT !.checking = FALSE]
        BY <1>0, <3>4 DEF ReadyTimesOut
      <4>2. \A m \in Node : /\ player'[m].team = player[m].team
                            /\ player'[m].phase = player[m].phase
                            /\ player'[m].roster = player[m].roster
        <5> SUFFICES ASSUME NEW m \in Node
                     PROVE  /\ player'[m].team = player[m].team
                            /\ player'[m].phase = player[m].phase
                            /\ player'[m].roster = player[m].roster
          OBVIOUS
        <5>1. player[m] \in Player
          BY <1>0
        <5>2. QED BY <4>1, <5>1 DEF Player
      <4>3. QED BY <1>2, <4>1, <4>2, QuietKnows DEF Past, InGame
    <3>5. ASSUME NEW a \in Node, StartGame(a) PROVE Knows(n, p)'
      BY <1>2, <3>5, StartGameKnows
    <3>6. ASSUME NEW a \in Node, Begin(a) PROVE Knows(n, p)'
      <4>1. /\ UNCHANGED <<seen, peers, net, up>>
            /\ \A m \in Node :
                   \/ player'[m] = player[m]
                   \/ player'[m] = [BeginPlay(player[m]) EXCEPT !.counting = FALSE]
        BY <1>0, <3>6 DEF Begin
      <4>2. \A m \in Node : /\ player'[m].team = player[m].team
                            /\ Past(m) => Past(m)'
                            /\ player'[m].roster = player[m].roster
        <5> SUFFICES ASSUME NEW m \in Node
                     PROVE  /\ player'[m].team = player[m].team
                            /\ Past(m) => Past(m)'
                            /\ player'[m].roster = player[m].roster
          OBVIOUS
        <5>1. player[m] \in Player
          BY <1>0
        <5>2. CASE player'[m] = player[m]
          BY <5>2 DEF Past
        <5>3. CASE player'[m] = [BeginPlay(player[m]) EXCEPT !.counting = FALSE]
          BY <5>1, <5>3 DEF Player, BeginPlay, Past
        <5>4. QED BY <4>1, <5>2, <5>3
      <4>3. QED BY <1>2, <4>1, <4>2, QuietKnows DEF InGame
    <3>7. ASSUME NEW a \in Node, NEW b \in Node, Receive(a, b) PROVE Knows(n, p)'
      BY <1>2, <3>7, ReceiveKnows
    <3>8. ASSUME NEW l \in Links, LinkFails(l) PROVE Knows(n, p)'
      <4>1. UNCHANGED <<player, seen, peers, net>> /\ up' \subseteq up
        BY <3>8 DEF LinkFails
      <4>2. QED BY <1>2, <4>1, QuietKnows DEF Past, InGame
    <3>9. ASSUME NEW a \in Node, NEW b \in Node, PeerDisconnects(a, b) PROVE Knows(n, p)'
      BY <1>2, <3>9, PeerDisconnectsKnows
    <3>10. ASSUME NEW a \in Node, NEW b \in Node, Connect(a, b) PROVE Knows(n, p)'
      BY <1>2, <3>10, ConnectKnows
    <3>11. ASSUME NEW a \in Node, NEW b \in Node, AddPeer(a, b) PROVE Knows(n, p)'
      BY <1>2, <3>11, AddPeerKnows
    <3>12. ASSUME NEW a \in Node, Reset(a) PROVE Knows(n, p)'
      BY <1>2, <3>12, ResetKnows
    <3>13. QED
      BY <1>2, <3>1, <3>2, <3>3, <3>4, <3>5, <3>6, <3>7, <3>8, <3>9, <3>10, <3>11, <3>12
         DEF Next
  <2>3. QED BY <1>0, <2>1, <2>2 DEF KnowInv
<1>3. QED BY <1>1, <1>2

LEMMA KnowInvariance == Spec => []KnowInv
BY InitKnows, NextKnows, PTL DEF Spec

\* Players in the lobby that have handled what each sent know each other's sides,
\* however often sides are chosen again, connections lost and players let back in.
THEOREM SidesAreKnown == Spec => []SidesKnown
<1>1. KnowInv => SidesKnown
  <2> SUFFICES ASSUME KnowInv, NEW n \in Node, NEW p \in Node,
                      UpToDate(n, p), ~ InGame(n), ~ InGame(p)
               PROVE  seen[n][p].team = player[p].team
    BY DEF SidesKnown
  <2>1. Facing(n, p) /\ Hears(n) /\ Hears(p) /\ net[<<p, n>>] = <<>>
    BY DEF UpToDate, Facing, Hears
  <2>2. SideFollows(n, p)
    BY DEF KnowInv, Knows
  <2>3. QED BY <2>1, <2>2, EmptyQueue DEF SideFollows
<1>2. QED BY <1>1, KnowInvariance, PTL

\* Nobody is counted as ready for good after taking it back or coming back.
THEOREM NobodyIsPhantomReady == Spec => []NoPhantomReady
<1>1. KnowInv => NoPhantomReady
  <2> SUFFICES ASSUME KnowInv, NEW n \in Node, NEW p \in Node,
                      UpToDate(n, p), ~ InGame(n), seen[n][p].ready
               PROVE  player[p].phase \in {"waiting", "starting", "playing"}
    BY DEF NoPhantomReady
  <2>1. Facing(n, p) /\ Hears(n) /\ net[<<p, n>>] = <<>> /\ p \in peers[n]
    BY DEF UpToDate, Facing, Hears
  <2>2. ReadyFollows(n, p)
    BY DEF KnowInv, Knows
  <2>3. QED BY <2>1, <2>2, EmptyQueue DEF ReadyFollows, Past
<1>2. QED BY <1>1, KnowInvariance, PTL

-----------------------------------------------------------------------------
(* One game on one clock: what holds while no mishap has happened.         *)

Lowest(l) == l \in Node /\ \A m \in Node : l <= m

Started(n) == player[n].phase \in {"starting", "playing"}

\* Nobody chooses a side after announcing to be ready.
ReadyIsLast(q) ==
    \A i, j \in 1..Len(q) : q[i].type = "ready" /\ j > i => ~ Telling(q[j])

\* n knows, or will hear, that p is ready, and for which side.
Candid(n, p) ==
    /\ Past(p) => seen[n][p].ready \/ Has(net[<<p, n>>], "ready")
    /\ seen[n][p].ready => Silent(net[<<p, n>>])
    /\ seen[n][p].team \in Teams
    /\ ReadyIsLast(net[<<p, n>>])

\* The messages that only the lowest key l sends, or is sent; its game once it has
\* started.
Expected(l, started, n, p, msg) ==
    /\ msg.type # "unready"
    /\ msg.type = "game_start" => p = l /\ started /\ msg.game = l /\ msg.clock = l
    /\ msg.type = "time_sync_request" => n = l
    /\ msg.type = "time_sync_response" => p = l

AllExpected(l, started, n, p, q) ==
    \A i \in 1..Len(q) : Expected(l, started, n, p, q[i])

\* Once l has started, n has its game or will hear of it; and not before.
GameFollows(l, n) ==
    /\ Started(l) => player[n].game = l \/ (n # l /\ Has(net[<<l, n>>], "game_start"))
    /\ player[n].game = l => Started(l)

\* n goes by l's clock, or is about to.
ClockFollows(l, n) ==
    \/ player[n].clock = l
    \/ n # l /\ ~ Past(n)
    \/ n # l /\ Has(net[<<n, l>>], "time_sync_request")
    \/ n # l /\ Has(net[<<l, n>>], "time_sync_response")

\* What holds of n's own state.
Orderly(l, n) ==
    /\ player[n].phase = "waiting" => player[n].checking
    /\ player[n].roster = EmptyGame \/ Players(player[n].roster) = Node
    /\ player[n].game # NoId => Started(n)
    /\ player[n].game = NoId \/ player[n].game = l
    /\ player[n].timed => player[n].game = NoId \/ player[n].clock = l
    /\ player[n].game = NoId => player[n].timed
    /\ player[n].phase = "playing" => player[n].game = l

\* Nobody starts before everyone is ready, with players on both sides.
EveryonePast ==
    \A n \in Node : Started(n) =>
        /\ \A p \in Node : Past(p)
        /\ \A t \in Teams : \E p \in Node : player[p].team = t

\* The lowest key's roster, once it has started: it decides whose votes count.
SidesRight(l) ==
    Started(l) => \A p \in Node : player[l].roster[p] = player[p].team

Calm(l) ==
    /\ \A n \in Node : Orderly(l, n) /\ GameFollows(l, n) /\ ClockFollows(l, n)
    /\ \A n, p \in Node : n # p =>
           Candid(n, p) /\ AllExpected(l, Started(l), n, p, net[<<p, n>>])
    /\ EveryonePast
    /\ SidesRight(l)

\* The inductive invariant.
CalmInv(l) == KnowInv /\ (mishaps = 0 => Calm(l))

LEMMA AppendLast ==
    ASSUME NEW q \in Seq(Message), NEW msg \in Message, ReadyIsLast(q),
           ~ Telling(msg) \/ ~ Has(q, "ready")
    PROVE  ReadyIsLast(Append(q, msg))
<1> DEFINE k == Append(q, msg)
<1>1. /\ Len(k) = Len(q) + 1 /\ Len(q) \in Nat
      /\ k[Len(q) + 1] = msg
      /\ \A i \in 1..Len(q) : k[i] = q[i]
  BY AppendProperties, LenProperties
<1> HIDE DEF k
<1>2. ASSUME NEW i \in 1..Len(k), NEW j \in 1..Len(k), k[i].type = "ready", j > i
      PROVE  ~ Telling(k[j])
  <2>1. i \in 1..Len(q) /\ k[i] = q[i] /\ Has(q, "ready")
    BY <1>1, <1>2 DEF Has
  <2>2. CASE j \in 1..Len(q)
    BY <1>1, <1>2, <2>1, <2>2 DEF ReadyIsLast
  <2>3. CASE j = Len(q) + 1
    BY <1>1, <2>1, <2>3
  <2>4. QED BY <1>1, <2>2, <2>3
<1>3. QED BY <1>2 DEF ReadyIsLast, k

LEMMA TailLast ==
    ASSUME NEW q \in Seq(Message), q # <<>>, ReadyIsLast(q)
    PROVE  ReadyIsLast(Tail(q)) /\ (Head(q).type = "ready" => Silent(Tail(q)))
<1> DEFINE k == Tail(q)
<1>1. /\ Head(q) = q[1] /\ Len(q) \in Nat \ {0}
      /\ Len(k) = Len(q) - 1
      /\ \A i \in 1..Len(k) : k[i] = q[i + 1]
  BY TailFacts
<1> HIDE DEF k
<1>2. \A i \in 1..Len(k) : i + 1 \in 1..Len(q)
  BY <1>1
<1>3. ReadyIsLast(k)
  <2> SUFFICES ASSUME NEW i \in 1..Len(k), NEW j \in 1..Len(k), k[i].type = "ready", j > i
               PROVE  ~ Telling(k[j])
    BY DEF ReadyIsLast
  <2>1. i + 1 \in 1..Len(q) /\ j + 1 \in 1..Len(q) /\ j + 1 > i + 1
    BY <1>1, <1>2
  <2>2. QED BY <1>1, <2>1 DEF ReadyIsLast
<1>4. ASSUME Head(q).type = "ready" PROVE Silent(k)
  <2> SUFFICES ASSUME NEW j \in 1..Len(k) PROVE ~ Telling(k[j])
    BY DEF Silent
  <2>1. 1 \in 1..Len(q) /\ j + 1 \in 1..Len(q) /\ j + 1 > 1
    BY <1>1, <1>2
  <2>2. QED BY <1>1, <1>4, <2>1 DEF ReadyIsLast
<1>5. QED BY <1>3, <1>4 DEF k

LEMMA AppendElements ==
    ASSUME NEW q \in Seq(Message), NEW msg \in Message
    PROVE  \A i \in 1..Len(Append(q, msg)) :
               Append(q, msg)[i] = msg \/ \E j \in 1..Len(q) : Append(q, msg)[i] = q[j]
<1> DEFINE k == Append(q, msg)
<1>1. /\ Len(k) = Len(q) + 1 /\ Len(q) \in Nat
      /\ k[Len(q) + 1] = msg
      /\ \A i \in 1..Len(q) : k[i] = q[i]
  BY AppendProperties, LenProperties
<1> HIDE DEF k
<1>2. \A i \in 1..Len(k) : i \in 1..Len(q) \/ i = Len(q) + 1
  BY <1>1
<1>3. \A i \in 1..Len(k) : k[i] = msg \/ \E j \in 1..Len(q) : k[i] = q[j]
  BY <1>1, <1>2
<1>4. QED BY <1>3 DEF k

LEMMA TailElements ==
    ASSUME NEW q \in Seq(Message), q # <<>>
    PROVE  /\ \E j \in 1..Len(q) : Head(q) = q[j]
           /\ \A i \in 1..Len(Tail(q)) : \E j \in 1..Len(q) : Tail(q)[i] = q[j]
<1>1. /\ Head(q) = q[1] /\ Len(q) \in Nat \ {0}
      /\ Len(Tail(q)) = Len(q) - 1
      /\ \A i \in 1..Len(Tail(q)) : Tail(q)[i] = q[i + 1]
  BY TailFacts
<1>2. 1 \in 1..Len(q) /\ \A i \in 1..Len(Tail(q)) : i + 1 \in 1..Len(q)
  BY <1>1
<1>3. QED BY <1>1, <1>2

\* A queue that grows by a message to be expected, or loses one.
LEMMA QueueExpected ==
    ASSUME NEW l, NEW started, NEW n, NEW p, NEW q \in Seq(Message),
           AllExpected(l, started, n, p, q)
    PROVE  /\ \A msg \in Message : Expected(l, started, n, p, msg) =>
                  AllExpected(l, started, n, p, Append(q, msg))
           /\ q # <<>> => /\ Expected(l, started, n, p, Head(q))
                         /\ AllExpected(l, started, n, p, Tail(q))
<1>1. ASSUME NEW msg \in Message, Expected(l, started, n, p, msg)
      PROVE  AllExpected(l, started, n, p, Append(q, msg))
  BY <1>1, AppendElements DEF AllExpected
<1>2. ASSUME q # <<>>
      PROVE  Expected(l, started, n, p, Head(q)) /\ AllExpected(l, started, n, p, Tail(q))
  BY <1>2, TailElements DEF AllExpected
<1>3. QED BY <1>1, <1>2

LEMMA StillExpected ==
    ASSUME NEW l, NEW a, NEW b, NEW n, NEW p, NEW q, AllExpected(l, a, n, p, q), a => b
    PROVE  AllExpected(l, b, n, p, q)
BY DEF AllExpected, Expected

\* Without mishaps everyone hears everyone.
LEMMA CalmFacts ==
    ASSUME NEW l, Lowest(l), CalmInv(l), mishaps = 0, NEW n \in Node
    PROVE  /\ Complete /\ Connected(n) = Node
           /\ Masters(n, player[n].roster) = {l}
           /\ TimeMasters(n) = {l} \ {n}
           /\ \A p \in Node : n # p =>
                  /\ {n, p} \in up /\ {p, n} \in up /\ n \in peers[p] /\ p \in peers[n]
                  /\ seen[n][p].ready => Past(p)
                  /\ Has(net[<<p, n>>], "ready") => Past(p)
                  /\ Silent(net[<<p, n>>]) => seen[n][p].team = player[p].team
<1>1. Complete
  BY DEF CalmInv, KnowInv
<1>2. Connected(n) = Node
  BY <1>1 DEF Connected, Complete
<1>3. \A m \in Node : (\A j \in Node : m <= j) <=> m = l
  <2>1. Node \subseteq Nat
    BY NodeAssumption
  <2>2. QED BY <2>1 DEF Lowest
<1>4. Masters(n, player[n].roster) = {l}
  <2>1. Playing(Players(player[n].roster), Node) = Node
    <3>1. Players(EmptyGame) = {}
      BY DEF Players, EmptyGame
    <3>2. Players(player[n].roster) = {} \/ Players(player[n].roster) = Node
      BY <3>1 DEF CalmInv, Calm, Orderly
    <3>3. QED BY <3>2 DEF Playing
  <2>2. QED BY <1>2, <1>3, <2>1 DEF Masters, IsMaster, Lowest
<1>5. TimeMasters(n) = {l} \ {n}
  BY <1>1, <1>2, <1>3 DEF TimeMasters, Complete, Lowest
<1>6. ASSUME NEW p \in Node, n # p
      PROVE  /\ {n, p} \in up /\ {p, n} \in up /\ n \in peers[p] /\ p \in peers[n]
             /\ seen[n][p].ready => Past(p)
             /\ Has(net[<<p, n>>], "ready") => Past(p)
             /\ Silent(net[<<p, n>>]) => seen[n][p].team = player[p].team
  <2>1. {n, p} \in up /\ {p, n} \in up /\ n \in peers[p] /\ p \in peers[n]
    BY <1>1, <1>6, PairIsLink, PairSwap DEF Complete
  <2>2. Facing(n, p) /\ Hears(n) /\ Hears(p)
    BY <1>1, <2>1 DEF Facing, Hears, Complete
  <2>3. SideFollows(n, p) /\ ReadyFollows(n, p)
    BY DEF CalmInv, KnowInv, Knows
  <2>4. ~ Retracted(net[<<p, n>>])
    BY <1>6 DEF CalmInv, Calm, AllExpected, Expected, Retracted
  <2>5. Silent(net[<<p, n>>]) => ~ LastTold(net[<<p, n>>], player[p].team)
    BY DEF Silent, LastTold
  <2>6. QED BY <2>1, <2>2, <2>3, <2>4, <2>5 DEF SideFollows, ReadyFollows
<1>7. QED BY <1>1, <1>2, <1>4, <1>5, <1>6

\* A queue that keeps its messages, whatever is appended.
Grows(n, p) == \A type : Has(net[<<p, n>>], type) => Has(net'[<<p, n>>], type)

LEMMA AppendGrows ==
    ASSUME NEW n \in Node, NEW p \in Node, NEW msg \in Message,
           net[<<p, n>>] \in Seq(Message),
           \/ net'[<<p, n>>] = net[<<p, n>>]
           \/ net'[<<p, n>>] = Append(net[<<p, n>>], msg)
    PROVE  Grows(n, p)
BY AppendReady DEF Grows

LEMMA SameCandid ==
    ASSUME NEW n \in Node, NEW p \in Node, Candid(n, p),
           net'[<<p, n>>] = net[<<p, n>>], seen'[n][p] = seen[n][p], Past(p)' => Past(p)
    PROVE  Candid(n, p)'
BY DEF Candid

LEMMA PlainCandid ==
    ASSUME NEW n \in Node, NEW p \in Node, NEW msg \in Message, Candid(n, p),
           net[<<p, n>>] \in Seq(Message), ~ Telling(msg),
           net'[<<p, n>>] = Append(net[<<p, n>>], msg),
           seen'[n][p] = seen[n][p], Past(p)' => Past(p)
    PROVE  Candid(n, p)'
<1> DEFINE q == net[<<p, n>>]
           k == net'[<<p, n>>]
<1>1. /\ Silent(q) => Silent(k)
      /\ Has(k, "ready") <=> Has(q, "ready")
      /\ ReadyIsLast(q) => ReadyIsLast(k)
  BY AppendTold, AppendReady, AppendLast DEF Telling
<1>2. QED BY <1>1 DEF Candid

LEMMA TellingCandid ==
    ASSUME NEW n \in Node, NEW p \in Node, NEW msg \in Message, Candid(n, p),
           net[<<p, n>>] \in Seq(Message),
           net'[<<p, n>>] = Append(net[<<p, n>>], msg),
           seen'[n][p] = seen[n][p], ~ seen[n][p].ready, ~ Has(net[<<p, n>>], "ready"),
           Past(p)' => msg.type = "ready"
    PROVE  Candid(n, p)'
<1> DEFINE k == net'[<<p, n>>]
<1>1. ReadyIsLast(k) /\ (msg.type = "ready" => Has(k, "ready"))
  BY AppendReady, AppendLast DEF Candid
<1>2. QED BY <1>1 DEF Candid

\* The parts of Calm, one at a time.
LEMMA CalmParts ==
    ASSUME NEW l, Lowest(l), CalmInv(l), mishaps = 0
    PROVE  /\ \A n \in Node : Orderly(l, n) /\ GameFollows(l, n) /\ ClockFollows(l, n)
           /\ \A n, p \in Node : n # p =>
                  Candid(n, p) /\ AllExpected(l, Started(l), n, p, net[<<p, n>>])
           /\ EveryonePast /\ SidesRight(l)
           /\ player \in [Node -> Player] /\ net \in Queues
           /\ seen \in [Node -> [Node -> Entry]]
           /\ \A n \in Node : Fits(player[n]) /\ player[n] \in Player
           /\ \A n, p \in Node : net[<<p, n>>] \in Seq(Message)
BY KnowTypes DEF CalmInv, Calm

LEMMA SetTeamCalm ==
    ASSUME NEW l, Lowest(l), CalmInv(l), mishaps = 0,
           NEW m \in Node, NEW t \in Teams, SetTeam(m, t)
    PROVE  Calm(l)'
<1> DEFINE side == SideMsg(t)
<1>0. /\ player \in [Node -> Player] /\ player[m] \in Player
      /\ \A n, p \in Node : net[<<p, n>>] \in Seq(Message)
  BY CalmParts
<1>1. /\ player' = [player EXCEPT ![m] = SetSide(player[m], t)]
      /\ net' = Sent(net, m, peers[m], side)
      /\ player[m].phase \in {"side", "choosing"}
      /\ UNCHANGED <<seen, peers, up, reset, mishaps>>
  BY DEF SetTeam
<1>2. /\ \A a \in Node : a # m => player'[a] = player[a]
      /\ player'[m].phase = "choosing" /\ ~ Past(m)
      /\ \A f \in {"roster", "game", "clock", "checking", "timed"} : player'[m][f] = player[m][f]
  BY <1>0, <1>1 DEF SetSide, Player, Past
<1>3. \A n \in Node : (Past(n)' <=> Past(n)) /\ (Started(n)' <=> Started(n))
  BY <1>1, <1>2 DEF Past, Started
<1>4. side \in Message /\ Telling(side) /\ side.type = "side_choice"
  BY MessageTypes DEF SideMsg, Telling
<1> HIDE DEF side
<1>5. \A n, p \in Node : \/ net'[<<p, n>>] = net[<<p, n>>]
                         \/ p = m /\ net'[<<p, n>>] = Append(net[<<p, n>>], side)
  BY <1>1 DEF Sent
<1>6. \A n, p \in Node : Grows(n, p)
  BY <1>0, <1>4, <1>5, AppendGrows
<1>7. ASSUME NEW n \in Node PROVE (Orderly(l, n) /\ GameFollows(l, n) /\ ClockFollows(l, n))'
  <2>1. Orderly(l, n) /\ GameFollows(l, n) /\ ClockFollows(l, n) /\ l \in Node
    BY CalmParts DEF Lowest
  <2>2. /\ player'[n].roster = player[n].roster /\ player'[n].game = player[n].game
        /\ player'[n].clock = player[n].clock /\ player'[n].timed = player[n].timed
        /\ player'[n].phase = "waiting" => player'[n].checking = player[n].checking /\ player[n].phase = "waiting"
        /\ player'[n].phase = "playing" => player[n].phase = "playing"
    BY <1>2
  <2>3. Orderly(l, n)'
    BY <1>3, <2>1, <2>2 DEF Orderly, Players, EmptyGame
  <2>4. GameFollows(l, n)' /\ ClockFollows(l, n)'
    BY <1>3, <1>6, <2>1, <2>2 DEF GameFollows, ClockFollows, Grows
  <2>5. QED BY <2>3, <2>4
<1>8. ASSUME NEW n \in Node, NEW p \in Node, n # p
      PROVE  Candid(n, p)' /\ AllExpected(l, Started(l), n, p, net[<<p, n>>])'
  <2>1. /\ Candid(n, p) /\ seen'[n][p] = seen[n][p]
        /\ AllExpected(l, Started(l), n, p, net[<<p, n>>])
        /\ AllExpected(l, Started(l)', n, p, net[<<p, n>>])
        /\ net[<<p, n>>] \in Seq(Message)
    <3>1. AllExpected(l, Started(l), n, p, net[<<p, n>>])
      BY <1>8, CalmParts
    <3>2. Started(l) => Started(l)'
      BY <1>3 DEF Lowest
    <3>3. AllExpected(l, Started(l)', n, p, net[<<p, n>>])
      BY <3>1, <3>2, StillExpected
    <3>4. QED BY <1>0, <1>1, <1>8, <3>1, <3>3, CalmParts
  <2>2. CASE net'[<<p, n>>] = net[<<p, n>>]
    <3>1. Candid(n, p)'
      BY <1>3, <2>1, <2>2, SameCandid
    <3>2. QED BY <2>1, <2>2, <3>1
  <2>3. CASE p = m /\ net'[<<p, n>>] = Append(net[<<p, n>>], side)
    <3>1. ~ seen[n][p].ready /\ ~ Has(net[<<p, n>>], "ready") /\ ~ Past(p)'
      BY <1>2, <1>3, <1>8, <2>3, CalmFacts
    <3>2. Candid(n, p)'
      BY <1>4, <2>1, <2>3, <3>1, TellingCandid
    <3>3. Expected(l, Started(l)', n, p, side)
      BY <1>4 DEF Expected
    <3>4. AllExpected(l, Started(l)', n, p, Append(net[<<p, n>>], side))
      BY <1>4, <2>1, <3>3, QueueExpected
    <3>5. QED BY <2>3, <3>2, <3>4
  <2>4. QED BY <1>5, <2>2, <2>3
<1>9. EveryonePast'
  <2>1. EveryonePast /\ ~ Past(m)
    BY <1>2, CalmParts
  <2>2. \A n \in Node : ~ Started(n)'
    BY <1>3, <2>1 DEF EveryonePast
  <2>3. QED BY <2>2 DEF EveryonePast
<1>10. SidesRight(l)'
  <2>1. EveryonePast /\ ~ Past(m) /\ l \in Node
    BY <1>2, CalmParts DEF Lowest
  <2>2. ~ Started(l)'
    BY <1>3, <2>1 DEF EveryonePast
  <2>3. QED BY <2>2 DEF SidesRight
<1>11. QED BY <1>7, <1>8, <1>9, <1>10 DEF Calm

LEMMA ReadyCalm ==
    ASSUME NEW l, Lowest(l), CalmInv(l), mishaps = 0, NEW m \in Node, Ready(m)
    PROVE  Calm(l)'
<1> DEFINE tell == ReadyMsg(player[m].team)
           ask  == Plain("time_sync_request")
           q(n, p) == Sent(net, m, peers[m], tell)[<<p, n>>]
<1>0. /\ player \in [Node -> Player] /\ player[m] \in Player /\ Fits(player[m])
      /\ \A n, p \in Node : net[<<p, n>>] \in Seq(Message)
      /\ l \in Node
  BY CalmParts DEF Lowest
<1>1. /\ player' = [player EXCEPT ![m] = [SetWaitingForPeers(player[m]) EXCEPT !.checking = TRUE]]
      /\ net' = Synced(Sent(net, m, peers[m], tell), m)
      /\ player[m].phase = "choosing"
      /\ UNCHANGED <<seen, peers, up, reset, mishaps>>
  BY DEF Ready
<1>2. /\ \A a \in Node : a # m => player'[a] = player[a]
      /\ player'[m].phase = "waiting" /\ player'[m].checking /\ ~ Past(m)
      /\ \A f \in {"roster", "game", "clock", "team", "timed"} : player'[m][f] = player[m][f]
      /\ player[m].team \in Teams
  BY <1>0, <1>1 DEF SetWaitingForPeers, Player, Past, Fits
<1>3. /\ \A n \in Node : Started(n)' <=> Started(n)
      /\ \A n \in Node : Past(n)' <=> Past(n) \/ n = m
  BY <1>1, <1>2 DEF Past, Started
<1>4. /\ tell \in Message /\ tell.type = "ready" /\ Telling(tell)
      /\ ask \in Message /\ ask.type = "time_sync_request" /\ ~ Telling(ask)
  BY <1>2, MessageTypes DEF ReadyMsg, Plain, Telling
<1>5. /\ TimeMasters(m) = {l} \ {m}
      /\ \A n \in Node : n # m => n \in peers[m] /\ {m, n} \in up
  BY CalmFacts, <1>0
<1> HIDE DEF tell
<1>6. \A n, p \in Node : n # p =>
          IF p # m THEN net'[<<p, n>>] = net[<<p, n>>]
          ELSE IF n # l THEN net'[<<p, n>>] = Append(net[<<p, n>>], tell)
          ELSE net'[<<p, n>>] = Append(Append(net[<<p, n>>], tell), ask)
  <2> HIDE DEF ask
  <2>1. \A n, p \in Node : n # p =>
          q(n, p) = IF p # m THEN net[<<p, n>>] ELSE Append(net[<<p, n>>], tell)
    BY <1>5 DEF Sent
  <2>2. \A n, p \in Node : n # p =>
          net'[<<p, n>>] = IF p # m \/ n # l THEN q(n, p) ELSE Append(q(n, p), ask)
    <3> HIDE DEF q
    <3>1. net' = Sent(Sent(net, m, peers[m], tell), m, {l} \ {m}, ask)
      BY <1>1, <1>5 DEF Synced, ask
    <3>2. QED BY <1>0, <1>5, <3>1 DEF Sent, q
  <2>3. QED BY <2>1, <2>2
<1> HIDE DEF ask, q
<1>7. \A n, p \in Node : n # p => Append(net[<<p, n>>], tell) \in Seq(Message)
  BY <1>0, <1>4, AppendProperties
<1>8. \A n, p \in Node : n # p => Grows(n, p)
  <2> SUFFICES ASSUME NEW n \in Node, NEW p \in Node, n # p, NEW type,
                      Has(net[<<p, n>>], type)
               PROVE  Has(net'[<<p, n>>], type)
    BY DEF Grows
  <2>1. Has(Append(net[<<p, n>>], tell), type)
    BY <1>0, <1>4, AppendReady
  <2>2. Has(Append(Append(net[<<p, n>>], tell), ask), type)
    BY <1>4, <1>7, <2>1, AppendReady
  <2>3. QED BY <1>6, <2>1, <2>2
<1>9. ASSUME NEW n \in Node PROVE (Orderly(l, n) /\ GameFollows(l, n) /\ ClockFollows(l, n))'
  <2>1. Orderly(l, n) /\ GameFollows(l, n) /\ ClockFollows(l, n)
    BY CalmParts
  <2>2. /\ player'[n].roster = player[n].roster /\ player'[n].game = player[n].game
        /\ player'[n].clock = player[n].clock /\ player'[n].timed = player[n].timed
        /\ player'[n].phase = "waiting" => player'[n].checking \/ (player[n].phase = "waiting" /\ n # m)
        /\ n # m => player'[n].checking = player[n].checking
        /\ player'[n].phase = "playing" => player[n].phase = "playing"
    BY <1>2
  <2>3. Orderly(l, n)'
    BY <1>3, <2>1, <2>2 DEF Orderly, Players, EmptyGame
  <2>4. GameFollows(l, n)'
    BY <1>0, <1>3, <1>8, <2>1, <2>2 DEF GameFollows, Grows
  <2>5. ClockFollows(l, n)'
    <3>1. CASE n # m \/ n = l
      BY <1>0, <1>3, <1>8, <2>1, <2>2, <3>1 DEF ClockFollows, Grows
    <3>2. CASE n = m /\ n # l
      <4>1. Has(net'[<<n, l>>], "time_sync_request")
        <5>1. net'[<<n, l>>] = Append(Append(net[<<n, l>>], tell), ask)
          BY <1>0, <1>6, <3>2
        <5>2. Append(net[<<n, l>>], tell) \in Seq(Message)
          BY <1>0, <1>7, <3>2
        <5> DEFINE b == Append(net[<<n, l>>], tell)
        <5> HIDE DEF b
        <5>3. Has(Append(b, ask), "time_sync_request")
          BY <1>4, <5>2, AppendReady DEF b
        <5>4. QED BY <5>1, <5>3 DEF b
      <4>2. QED BY <3>2, <4>1 DEF ClockFollows
    <3>3. QED BY <3>1, <3>2
  <2>6. QED BY <2>3, <2>4, <2>5
<1>10. ASSUME NEW n \in Node, NEW p \in Node, n # p
       PROVE  Candid(n, p)' /\ AllExpected(l, Started(l), n, p, net[<<p, n>>])'
  <2>1. /\ Candid(n, p) /\ seen'[n][p] = seen[n][p]
        /\ AllExpected(l, Started(l), n, p, net[<<p, n>>])
        /\ AllExpected(l, Started(l)', n, p, net[<<p, n>>])
        /\ net[<<p, n>>] \in Seq(Message)
    <3>1. AllExpected(l, Started(l), n, p, net[<<p, n>>])
      BY <1>10, CalmParts
    <3>2. Started(l) => Started(l)'
      BY <1>0, <1>3
    <3>3. AllExpected(l, Started(l)', n, p, net[<<p, n>>])
      BY <3>1, <3>2, StillExpected
    <3>4. QED BY <1>0, <1>1, <1>10, <3>1, <3>3, CalmParts
  <2>2. CASE p # m
    <3>1. net'[<<p, n>>] = net[<<p, n>>] /\ (Past(p)' => Past(p))
      BY <1>3, <1>6, <1>10, <2>2
    <3>2. Candid(n, p)'
      BY <2>1, <3>1, SameCandid
    <3>3. QED BY <2>1, <3>1, <3>2
  <2>3. CASE p = m
    <3> DEFINE a == net[<<p, n>>]
               b == Append(a, tell)
               c == Append(b, ask)
    <3>1. ~ seen[n][p].ready /\ ~ Has(a, "ready")
      BY <1>2, <1>10, <2>3, CalmFacts
    <3>2. /\ b \in Seq(Message) /\ net'[<<p, n>>] \in {b, c}
          /\ n # l => net'[<<p, n>>] = b
      BY <1>6, <1>7, <1>10, <2>3
    <3>3. ReadyIsLast(b) /\ Has(b, "ready")
      BY <1>4, <2>1, <3>1, AppendLast, AppendReady DEF Candid
    <3>4. AllExpected(l, Started(l)', n, p, b)
      <4>1. Expected(l, Started(l)', n, p, tell)
        BY <1>4 DEF Expected
      <4>2. QED BY <1>4, <2>1, <4>1, QueueExpected
    <3> HIDE DEF a, b
    <3>5. ReadyIsLast(c) /\ Has(c, "ready")
      BY <1>4, <3>2, <3>3, AppendLast, AppendReady
    <3>6. n = l => AllExpected(l, Started(l)', n, p, c)
      <4>1. n = l => Expected(l, Started(l)', n, p, ask)
        BY <1>4 DEF Expected
      <4>2. QED BY <1>4, <3>2, <3>4, <4>1, QueueExpected
    <3>7. Candid(n, p)'
      <4>1. ReadyIsLast(net'[<<p, n>>]) /\ Has(net'[<<p, n>>], "ready")
        BY <3>2, <3>3, <3>5
      <4>2. QED BY <2>1, <3>1, <4>1 DEF Candid
    <3>8. QED BY <3>2, <3>4, <3>6, <3>7
  <2>4. QED BY <2>2, <2>3
<1>11. EveryonePast'
  <2>1. EveryonePast
    BY CalmParts
  <2>2. \A n \in Node : player'[n].team = player[n].team
    BY <1>2
  <2>3. QED BY <1>3, <2>1, <2>2 DEF EveryonePast
<1>12. SidesRight(l)'
  <2>1. SidesRight(l) /\ \A n \in Node : player'[n].team = player[n].team
    BY <1>2, CalmParts
  <2>2. player'[l].roster = player[l].roster
    BY <1>0, <1>2
  <2>3. QED BY <1>0, <1>3, <2>1, <2>2 DEF SidesRight
<1>13. QED BY <1>9, <1>10, <1>11, <1>12 DEF Calm

\* Whoever finds everyone ready sees what there is: everyone is, for the sides seen.
LEMMA PollIsRight ==
    ASSUME NEW l, Lowest(l), CalmInv(l), mishaps = 0, NEW m \in Node
    PROVE  AllPeersReady(m) =>
               /\ \A p \in Node : Past(p)
               /\ \A t \in Teams : \E p \in Node : player[p].team = t
               /\ Players(RosterOf(m)) = Node
               /\ \A p \in Node : RosterOf(m)[p] = player[p].team
<1> SUFFICES ASSUME AllPeersReady(m)
             PROVE  /\ \A p \in Node : Past(p)
                    /\ \A t \in Teams : \E p \in Node : player[p].team = t
                    /\ Players(RosterOf(m)) = Node
                    /\ \A p \in Node : RosterOf(m)[p] = player[p].team
  OBVIOUS
<1>1. /\ Connected(m) = Node /\ peers[m] = Node \ {m}
      /\ Fits(player[m]) /\ player[m].checking
  BY CalmFacts, CalmParts DEF AllPeersReady, Complete
<1>2. Past(m) /\ player[m].team \in Teams
  BY <1>1 DEF Fits, Past
<1>3. ASSUME NEW p \in Node, p # m
      PROVE  Past(p) /\ seen[m][p].team = player[p].team /\ seen[m][p].team \in Teams
  <2>1. seen[m][p].ready
    BY <1>1, <1>3 DEF AllPeersReady
  <2>2. Candid(m, p)
    BY <1>3, CalmParts
  <2>3. /\ seen[m][p].ready => Past(p)
        /\ Silent(net[<<p, m>>]) => seen[m][p].team = player[p].team
    BY <1>3, CalmFacts
  <2>4. QED BY <2>1, <2>2, <2>3 DEF Candid
<1>4. \A p \in Node : RosterOf(m)[p] = player[p].team /\ player[p].team \in Teams
  BY <1>1, <1>2, <1>3 DEF RosterOf
<1>5. Players(RosterOf(m)) = Node
  BY <1>4 DEF Players, Teams, NoTeam
<1>6. \A t \in Teams : \E p \in Node : player[p].team = t
  BY <1>1, <1>4 DEF AllPeersReady, BothSides, Teams, NoTeam
<1>7. QED BY <1>2, <1>3, <1>4, <1>5, <1>6

LEMMA StartGameCalm ==
    ASSUME NEW l, Lowest(l), CalmInv(l), mishaps = 0, NEW m \in Node, StartGame(m)
    PROVE  Calm(l)'
<1> DEFINE id    == IF m = l THEN l ELSE NoId
           c     == player[m].clock
           start == GameStartMsg(m, c)
<1>0. /\ player \in [Node -> Player] /\ player[m] \in Player /\ Fits(player[m])
      /\ \A n, p \in Node : net[<<p, n>>] \in Seq(Message)
      /\ l \in Node /\ Node \subseteq Nat \ {0}
  BY CalmParts, NodeAssumption DEF Lowest
<1>1. /\ AllPeersReady(m)
      /\ player' = [player EXCEPT ![m] = Countdown(m, id, c)]
      /\ net' = IF m = l THEN Sent(net, m, peers[m], start) ELSE net
      /\ UNCHANGED <<seen, peers, up, reset, mishaps>>
  <2>1. m \in Masters(m, player[m].roster) <=> m = l
    <3>1. Masters(m, player[m].roster) = {l}
      BY CalmFacts
    <3>2. QED BY <3>1
  <2>2. QED BY <2>1 DEF StartGame
<1>2. player[m].phase = "waiting"
  BY <1>0, <1>1 DEF AllPeersReady, Fits
<1>3. /\ \A a \in Node : a # m => player'[a] = player[a]
      /\ player'[m].phase = "starting" /\ player'[m].team = player[m].team
      /\ player'[m].game = id /\ player'[m].roster = RosterOf(m)
      /\ player'[m].clock = player[m].clock /\ player'[m].timed
  BY <1>0, <1>1 DEF Countdown, BeginCountdown, Player
<1>4. /\ \A p \in Node : Past(p)
      /\ \A t \in Teams : \E p \in Node : player[p].team = t
      /\ Players(RosterOf(m)) = Node
      /\ \A p \in Node : RosterOf(m)[p] = player[p].team
  BY <1>1, PollIsRight
<1>5. /\ \A n \in Node : Started(n)' <=> Started(n) \/ n = m
      /\ \A n \in Node : Past(n)'
  BY <1>2, <1>3, <1>4 DEF Past, Started
<1>6. /\ start \in Message /\ start.type = "game_start" /\ ~ Telling(start)
      /\ start.game = m /\ start.clock = c
  BY <1>0, MessageTypes DEF GameStartMsg, Telling, Player
\* The lowest key goes by its own clock.
<1>13. m = l => c = l
  BY <1>0, CalmParts DEF ClockFollows
<1> HIDE DEF start, id, c
<1>7. \A n, p \in Node : n # p =>
          net'[<<p, n>>] = IF m = l /\ p = m THEN Append(net[<<p, n>>], start)
                           ELSE net[<<p, n>>]
  <2>1. \A n \in Node : n # m => n \in peers[m] /\ {m, n} \in up
    BY CalmFacts
  <2>2. QED BY <1>1, <2>1 DEF Sent
<1>8. \A n, p \in Node : n # p => Grows(n, p)
  BY <1>0, <1>6, <1>7, AppendGrows
<1>9. ASSUME NEW n \in Node PROVE (Orderly(l, n) /\ GameFollows(l, n) /\ ClockFollows(l, n))'
  <2>1. Orderly(l, n) /\ GameFollows(l, n) /\ ClockFollows(l, n)
    BY CalmParts
  <2>2. Orderly(l, n)'
    <3>1. CASE n = m
      BY <1>3, <1>4, <1>5, <1>13, <3>1 DEF Orderly, Players, id, c
    <3>2. CASE n # m
      BY <1>3, <1>5, <2>1, <3>2 DEF Orderly, Players, EmptyGame
    <3>3. QED BY <3>1, <3>2
  <2>3. GameFollows(l, n)'
    <3>0. player'[n].game = l => Started(l)'
      <4>1. player'[n].game \in {player[n].game, id}
        BY <1>3
      <4>2. id = l => Started(l)'
        <5>1. l # NoId
          BY <1>0 DEF NoId
        <5>2. id = l => m = l
          BY <5>1 DEF id
        <5>3. QED BY <1>0, <1>5, <5>2
      <4>3. Started(l) => Started(l)'
        BY <1>0, <1>5
      <4>4. QED BY <2>1, <4>1, <4>2, <4>3 DEF GameFollows
    <3>1. CASE m = l /\ n = l
      BY <1>3, <3>0, <3>1 DEF GameFollows, id
    <3>2. CASE m = l /\ n # l
      <4>1. net'[<<l, n>>] = Append(net[<<l, n>>], start)
        BY <1>0, <1>7, <3>2
      <4>2. Has(net'[<<l, n>>], "game_start")
        BY <1>0, <1>6, <4>1, AppendReady
      <4>3. QED BY <3>0, <3>2, <4>2 DEF GameFollows
    <3>3. CASE m # l /\ n # m
      <4>1. player'[n] = player[n] /\ (Started(l)' <=> Started(l))
        BY <1>0, <1>3, <1>5, <3>3
      <4>2. n # l => Grows(n, l)
        BY <1>0, <1>8
      <4>3. QED BY <2>1, <3>0, <4>1, <4>2 DEF GameFollows, Grows
    <3>4. CASE m # l /\ n = m
      <4>1. Started(l)' => Started(l)
        BY <1>0, <1>5, <3>4
      <4>2. player[m].game # l
        BY <1>0, <1>2, <2>1, <3>4 DEF Orderly, Started, NoId
      <4>3. Grows(n, l)
        BY <1>0, <1>8, <3>4
      <4>4. QED BY <2>1, <3>0, <3>4, <4>1, <4>2, <4>3 DEF GameFollows, Grows
    <3>5. QED BY <3>1, <3>2, <3>3, <3>4
  <2>4. ClockFollows(l, n)'
    BY <1>0, <1>3, <1>4, <1>8, <2>1 DEF ClockFollows, Grows
  <2>5. QED BY <2>2, <2>3, <2>4
<1>10. ASSUME NEW n \in Node, NEW p \in Node, n # p
       PROVE  Candid(n, p)' /\ AllExpected(l, Started(l), n, p, net[<<p, n>>])'
  <2>1. /\ Candid(n, p) /\ seen'[n][p] = seen[n][p]
        /\ AllExpected(l, Started(l), n, p, net[<<p, n>>])
        /\ net[<<p, n>>] \in Seq(Message)
    BY <1>0, <1>1, <1>10, CalmParts
  <2>2. AllExpected(l, Started(l)', n, p, net[<<p, n>>])
    <3>1. Started(l) => Started(l)'
      BY <1>0, <1>5
    <3>2. QED BY <2>1, <3>1, StillExpected
  <2>3. CASE ~ (m = l /\ p = m)
    <3>1. net'[<<p, n>>] = net[<<p, n>>] /\ Past(p)
      BY <1>4, <1>7, <1>10, <2>3
    <3>2. Candid(n, p)'
      BY <2>1, <3>1, SameCandid
    <3>3. QED BY <2>2, <3>1, <3>2
  <2>4. CASE m = l /\ p = m
    <3>1. net'[<<p, n>>] = Append(net[<<p, n>>], start) /\ Past(p)
      BY <1>4, <1>7, <1>10, <2>4
    <3>2. Candid(n, p)'
      BY <1>6, <2>1, <3>1, PlainCandid
    <3>3. Expected(l, Started(l)', n, p, start)
      BY <1>0, <1>5, <1>6, <1>13, <2>4 DEF Expected
    <3>4. AllExpected(l, Started(l)', n, p, Append(net[<<p, n>>], start))
      BY <1>6, <2>1, <2>2, <3>3, QueueExpected
    <3>5. QED BY <3>1, <3>2, <3>4
  <2>5. QED BY <2>3, <2>4
<1>11. EveryonePast'
  <2>1. \A n \in Node : player'[n].team = player[n].team
    BY <1>3
  <2>2. QED BY <1>4, <1>5, <2>1 DEF EveryonePast
<1>12. SidesRight(l)'
  <2>1. \A n \in Node : player'[n].team = player[n].team
    BY <1>3
  <2>2. CASE m = l
    BY <1>3, <1>4, <2>1, <2>2 DEF SidesRight
  <2>3. CASE m # l
    <3>1. SidesRight(l) /\ player'[l] = player[l] /\ (Started(l)' => Started(l))
      BY <1>0, <1>3, <1>5, <2>3, CalmParts
    <3>2. QED BY <2>1, <3>1 DEF SidesRight
  <2>4. QED BY <2>2, <2>3
<1>14. QED BY <1>9, <1>10, <1>11, <1>12 DEF Calm

LEMMA BeginCalm ==
    ASSUME NEW l, Lowest(l), CalmInv(l), mishaps = 0, NEW m \in Node, Begin(m)
    PROVE  Calm(l)'
<1>0. /\ player \in [Node -> Player] /\ player[m] \in Player /\ Fits(player[m])
      /\ l \in Node
  BY CalmParts DEF Lowest
<1>1. /\ player[m].counting /\ (player[m].timed => CaughtUp)
      /\ player' = [player EXCEPT ![m] = [BeginPlay(player[m]) EXCEPT !.counting = FALSE]]
      /\ UNCHANGED <<seen, peers, up, net, reset, mishaps>>
  BY DEF Begin
<1>2. player[m].phase = "starting"
  BY <1>0, <1>1 DEF Fits
<1>3. /\ \A a \in Node : a # m => player'[a] = player[a]
      /\ player'[m].phase = "playing" /\ player'[m].team = player[m].team
      /\ player'[m].game = player[m].game /\ player'[m].roster = player[m].roster
      /\ player'[m].clock = player[m].clock /\ player'[m].timed = player[m].timed
  BY <1>0, <1>1, <1>2 DEF BeginPlay, Player
<1>4. /\ \A n \in Node : Started(n)' <=> Started(n)
      /\ \A n \in Node : Past(n)' <=> Past(n)
  BY <1>2, <1>3 DEF Past, Started
<1>5. /\ \A p \in Node : Past(p)
      /\ \A t \in Teams : \E p \in Node : player[p].team = t
  BY <1>2, CalmParts DEF EveryonePast, Started
\* Ten seconds have passed, in which the lowest key's game has come.
<1>6. ASSUME player[m].timed PROVE player[m].game = l
  <2>1. \A n, p \in Node : net[<<p, n>>] = <<>> /\ \A type : ~ Has(net[<<p, n>>], type)
    BY <1>1, <1>6, EmptyQueue DEF CaughtUp
  \* The lowest key has started: its poll would have found everyone ready.
  <2>2. Started(l)
    <3> SUFFICES ASSUME ~ Started(l) PROVE FALSE
      OBVIOUS
    <3>1. player[l].phase = "waiting" /\ player[l].checking
      BY <1>0, <1>5, CalmParts DEF Past, Started, Orderly
    <3>2. m # l /\ peers[l] = Node \ {l} /\ Connected(l) = Node
      BY <1>0, <1>2, CalmFacts DEF Started, Complete
    <3>3. ASSUME NEW p \in Node, p # l
          PROVE  seen[l][p].ready /\ seen[l][p].team = player[p].team /\ seen[l][p].team \in Teams
      <4>1. Candid(l, p) /\ Silent(net[<<p, l>>])
        BY <1>0, <2>1, <3>3, CalmParts, EmptyQueue
      <4>2. Silent(net[<<p, l>>]) => seen[l][p].team = player[p].team
        BY <1>0, <3>3, CalmFacts
      <4>3. QED BY <1>0, <1>5, <2>1, <4>1, <4>2 DEF Candid
    <3>4. player[l].team \in Teams
      BY <1>0, <3>1, CalmParts DEF Fits
    <3>5. \A p \in Node : RosterOf(l)[p] = player[p].team /\ player[p].team \in Teams
      BY <3>2, <3>3, <3>4 DEF RosterOf
    <3>6. BothSides(l)
      BY <1>5, <3>2, <3>5 DEF BothSides, Teams, NoTeam
    <3>7. peers[l] # {} /\ \A p \in peers[l] : seen[l][p].ready
      BY <3>2, <3>3
    <3>8. AllPeersReady(l)
      BY <3>1, <3>6, <3>7 DEF AllPeersReady
    <3>9. QED BY <1>0, <1>1, <1>6, <3>8 DEF CaughtUp
  <2>3. GameFollows(l, m)
    BY CalmParts
  <2>4. QED BY <1>0, <2>1, <2>2, <2>3 DEF GameFollows
\* A countdown that is off is one for the lowest key's game.
<1>7. ASSUME ~ player[m].timed PROVE player[m].game = l
  BY <1>7, CalmParts DEF Orderly
<1>8. player[m].game = l
  BY <1>6, <1>7
<1>9. ASSUME NEW n \in Node PROVE (Orderly(l, n) /\ GameFollows(l, n) /\ ClockFollows(l, n))'
  <2>1. Orderly(l, n) /\ GameFollows(l, n) /\ ClockFollows(l, n)
    BY CalmParts
  <2>2. Orderly(l, n)'
    <3>1. CASE n = m
      BY <1>3, <1>4, <1>8, <2>1, <3>1 DEF Orderly, Players, EmptyGame, Started
    <3>2. CASE n # m
      BY <1>3, <1>4, <2>1, <3>2 DEF Orderly, Players, EmptyGame
    <3>3. QED BY <3>1, <3>2
  <2>3. GameFollows(l, n)' /\ ClockFollows(l, n)'
    BY <1>0, <1>1, <1>3, <1>4, <2>1 DEF GameFollows, ClockFollows
  <2>4. QED BY <2>2, <2>3
<1>10. ASSUME NEW n \in Node, NEW p \in Node, n # p
       PROVE  Candid(n, p)' /\ AllExpected(l, Started(l), n, p, net[<<p, n>>])'
  <2>1. Candid(n, p) /\ AllExpected(l, Started(l), n, p, net[<<p, n>>])
    BY <1>10, CalmParts
  <2>2. Candid(n, p)'
    BY <1>1, <1>4, <2>1 DEF Candid
  <2>3. AllExpected(l, Started(l)', n, p, net[<<p, n>>])
    BY <1>0, <1>4, <2>1, StillExpected
  <2>4. QED BY <1>1, <2>2, <2>3
<1>11. EveryonePast'
  <2>1. \A n \in Node : player'[n].team = player[n].team
    BY <1>3
  <2>2. QED BY <1>4, <1>5, <2>1 DEF EveryonePast
<1>12. SidesRight(l)'
  <2>1. \A n \in Node : player'[n].team = player[n].team /\ player'[n].roster = player[n].roster
    BY <1>3
  <2>2. SidesRight(l)
    BY CalmParts
  <2>3. QED BY <1>0, <1>4, <2>1, <2>2 DEF SidesRight
<1>13. QED BY <1>9, <1>10, <1>11, <1>12 DEF Calm

LEMMA RosterIsFull ==
    ASSUME NEW l, Lowest(l), CalmInv(l), mishaps = 0, NEW m \in Node,
           player[m].phase # "side"
    PROVE  Players(RosterOf(m)) = Node
<1>1. peers[m] = Node \ {m} /\ player[m].team \in Teams
  BY CalmFacts, CalmParts DEF Complete, Fits
<1>2. \A p \in Node : p # m => seen[m][p].team \in Teams
  BY CalmParts DEF Candid
<1>3. QED BY <1>1, <1>2 DEF Players, RosterOf, Teams, NoTeam

\* What handling a message does to the player that handles it.
LEMMA CalmReceiver ==
    ASSUME NEW l, Lowest(l), CalmInv(l), mishaps = 0,
           NEW a \in Node, NEW b \in Node, Receive(a, b), NEW msg,
           msg = Head(net[<<a, b>>])
    PROVE  /\ a # b /\ net[<<a, b>>] # <<>>
           /\ Expected(l, Started(l), b, a, msg) /\ msg \in Message
           /\ \A m \in Node : m # b => player'[m] = player[m]
           /\ player'[b].team = player[b].team /\ (Past(b)' <=> Past(b))
           /\ Started(l)' <=> Started(l)
           /\ Started(b)' => Started(b) \/ Started(l)
           /\ Orderly(l, b)' /\ player'[l].roster = player[l].roster
           /\ a = l /\ msg.type = "game_start" => player'[b].game = l
           /\ player[b].game = l => player'[b].game = l
           /\ player'[b].game = player[b].game \/ Started(l)
           /\ a = l /\ msg.type = "time_sync_response" => player'[b].clock = l
           /\ player[b].clock = l => player'[b].clock = l
<1>0. /\ player \in [Node -> Player] /\ player[b] \in Player /\ Fits(player[b])
      /\ net[<<a, b>>] \in Seq(Message) /\ net[<<a, b>>] # <<>> /\ l \in Node
  BY CalmParts DEF Lowest, Receive
<1>1. a # b
  BY CalmFacts DEF Receive, Complete
<1>2. Expected(l, Started(l), b, a, msg) /\ msg \in Message
  BY <1>0, <1>1, CalmParts, QueueExpected, TailFacts
<1>3. Orderly(l, b)
  BY CalmParts
<1>4. \A m \in Node : m # b => player'[m] = player[m]
  BY <1>0 DEF Receive
<1>5. l = b /\ player'[b].phase = player[b].phase => (Started(l)' <=> Started(l))
  BY DEF Started
<1>6. l # b => (Started(l)' <=> Started(l))
  BY <1>0, <1>4 DEF Started
<1>7. CASE /\ msg.type = "game_start" /\ player[b].phase \in {"waiting", "starting"}
           /\ player'[b] = Countdown(b, msg.game, msg.clock)
  <2>1. a = l /\ Started(l) /\ msg.game = l /\ msg.clock = l
    BY <1>2, <1>7 DEF Expected
  <2>2. /\ player'[b].phase = "starting" /\ player'[b].team = player[b].team
        /\ player'[b].game = l /\ player'[b].roster = RosterOf(b)
        /\ player'[b].clock = player[b].clock
        /\ player'[b].timed <=> player[b].clock = l
    BY <1>0, <1>7, <2>1 DEF Countdown, BeginCountdown, Player
  <2>3. Players(RosterOf(b)) = Node
    BY <1>7, RosterIsFull
  <2>4. Past(b)' /\ Past(b)
    BY <1>7, <2>2 DEF Past
  <2>5. Orderly(l, b)'
    <3>1. l # NoId
      BY <1>0, NodeAssumption DEF NoId
    <3>2. Players(player'[b].roster) = Node
      BY <2>2, <2>3
    <3>3. QED BY <2>2, <3>1, <3>2 DEF Orderly, Started, Players
  <2>6. QED BY <1>0, <1>1, <1>2, <1>4, <1>6, <1>7, <2>1, <2>2, <2>4, <2>5
\* The fields that decide all but the clock are as they were.
<1>8. ASSUME /\ player'[b].phase = player[b].phase /\ player'[b].team = player[b].team
             /\ player'[b].game = player[b].game /\ player'[b].roster = player[b].roster
             /\ player'[b].checking = player[b].checking
             /\ player'[b].timed = player[b].timed
             /\ player'[b].clock = player[b].clock \/ player'[b].clock = l,
             a = l /\ msg.type = "game_start" => player[b].game = l,
             a = l /\ msg.type = "time_sync_response" => player'[b].clock = l
      PROVE  /\ player'[b].team = player[b].team /\ (Past(b)' <=> Past(b))
             /\ Started(l)' <=> Started(l)
             /\ Started(b)' => Started(b)
             /\ Orderly(l, b)' /\ player'[l].roster = player[l].roster
             /\ a = l /\ msg.type = "game_start" => player'[b].game = l
             /\ player[b].game = l => player'[b].game = l
             /\ player'[b].game = player[b].game \/ Started(l)
             /\ a = l /\ msg.type = "time_sync_response" => player'[b].clock = l
             /\ player[b].clock = l => player'[b].clock = l
  <2>1. (Past(b)' <=> Past(b)) /\ (Started(b)' <=> Started(b))
    BY <1>8 DEF Past, Started
  <2>2. Orderly(l, b)'
    BY <1>3, <1>8, <2>1 DEF Orderly, Players, EmptyGame
  <2>3. player'[l].roster = player[l].roster
    BY <1>0, <1>4, <1>8
  <2>4. QED BY <1>5, <1>6, <1>8, <2>1, <2>2, <2>3
<1>9. CASE msg.type = "time_sync_response" /\ player'[b] = HandleSyncResponse(b, a)
  <2>1. a = l
    BY <1>2, <1>9 DEF Expected
  <2>2. /\ player'[b].phase = player[b].phase /\ player'[b].team = player[b].team
        /\ player'[b].game = player[b].game /\ player'[b].roster = player[b].roster
        /\ player'[b].checking = player[b].checking /\ player'[b].clock = l
        /\ player'[b].timed = player[b].timed
    BY <1>0, <1>9, <2>1 DEF HandleSyncResponse, Player
  <2>3. QED BY <1>0, <1>1, <1>2, <1>4, <1>8, <1>9, <2>2
<1>10. CASE /\ player'[b] = player[b] /\ msg.type # "time_sync_response"
            /\ msg.type = "game_start" => player[b].game = l
  BY <1>0, <1>1, <1>2, <1>4, <1>8, <1>10
<1>11. CASE msg.type = "game_start"
  <2>1. a = l /\ Started(l)
    BY <1>2, <1>11 DEF Expected
  <2>2. Past(b)
    BY <1>0, <2>1, CalmParts DEF EveryonePast
  <2>3. a \in Masters(b, player[b].roster)
    <3>1. Masters(b, player[b].roster) = {l}
      BY CalmFacts
    <3>2. QED BY <2>1, <3>1
  <2>4. player'[b] = HandleGameStart(b, a, msg)
    BY <1>0, <1>11 DEF Receive
  <2>5. CASE player[b].phase \in {"waiting", "starting"}
    BY <1>7, <1>11, <2>3, <2>4, <2>5 DEF HandleGameStart
  <2>6. CASE player[b].phase = "playing"
    BY <1>3, <1>10, <1>11, <2>4, <2>6 DEF HandleGameStart, Orderly
  <2>7. QED BY <2>2, <2>5, <2>6 DEF Past
<1>12. CASE msg.type = "time_sync_response"
  BY <1>0, <1>9, <1>12 DEF Receive
<1>13. CASE msg.type \notin {"game_start", "time_sync_response"}
  BY <1>0, <1>10, <1>13 DEF Receive
<1>14. QED BY <1>11, <1>12, <1>13

\* ... and to the queues.
LEMMA CalmQueues ==
    ASSUME NEW l, Lowest(l), CalmInv(l), mishaps = 0,
           NEW a \in Node, NEW b \in Node, Receive(a, b), NEW msg,
           msg = Head(net[<<a, b>>]), NEW answer, answer = Plain("time_sync_response")
    PROVE  /\ net'[<<a, b>>] = Tail(net[<<a, b>>])
           /\ net'[<<b, a>>] = IF msg.type = "time_sync_request"
                               THEN Append(net[<<b, a>>], answer) ELSE net[<<b, a>>]
           /\ \A n, p \in Node : ~ (n = b /\ p = a) /\ ~ (n = a /\ p = b) =>
                  net'[<<p, n>>] = net[<<p, n>>]
           /\ seen'[b][a] = Heard(seen[b][a], msg)
           /\ \A n, p \in Node : ~ (n = b /\ p = a) => seen'[n][p] = seen[n][p]
<1> DEFINE queues == [net EXCEPT ![<<a, b>>] = Tail(@)]
<1>0. /\ net \in Queues /\ seen \in [Node -> [Node -> Entry]]
      /\ seen' = [seen EXCEPT ![b][a] = Heard(@, msg)]
      /\ net' = IF msg.type = "time_sync_request" THEN Sent(queues, b, {a}, answer) ELSE queues
  BY CalmParts DEF Receive, AnswerTimeSync
<1>1. a # b /\ {b, a} \in up
  <2>1. a # b
    BY CalmReceiver
  <2>2. QED BY <2>1, CalmFacts
<1>2. /\ queues[<<a, b>>] = Tail(net[<<a, b>>])
      /\ \A n, p \in Node : ~ (n = b /\ p = a) => queues[<<p, n>>] = net[<<p, n>>]
  BY <1>0 DEF Queues
<1> HIDE DEF queues
<1>3. \A n, p \in Node :
          Sent(queues, b, {a}, answer)[<<p, n>>] =
              IF p = b /\ n = a THEN Append(queues[<<p, n>>], answer) ELSE queues[<<p, n>>]
  BY <1>1 DEF Sent
<1>4. /\ seen'[b][a] = Heard(seen[b][a], msg)
      /\ \A n, p \in Node : ~ (n = b /\ p = a) => seen'[n][p] = seen[n][p]
  BY <1>0
<1>5. \A n, p \in Node :
          net'[<<p, n>>] = IF msg.type = "time_sync_request" /\ p = b /\ n = a
                           THEN Append(queues[<<p, n>>], answer) ELSE queues[<<p, n>>]
  BY <1>0, <1>3
<1>6. QED BY <1>1, <1>2, <1>4, <1>5

LEMMA ReceiveCalm ==
    ASSUME NEW l, Lowest(l), CalmInv(l), mishaps = 0,
           NEW a \in Node, NEW b \in Node, Receive(a, b)
    PROVE  Calm(l)'
<1> DEFINE q == net[<<a, b>>]
<1> SUFFICES ASSUME NEW msg, msg = Head(q),
                    NEW answer, answer = Plain("time_sync_response")
             PROVE  Calm(l)'
  OBVIOUS
<1>0. /\ \A n, p \in Node : net[<<p, n>>] \in Seq(Message)
      /\ l \in Node
  BY CalmParts DEF Lowest
<1>1. /\ a # b /\ q # <<>>
      /\ Expected(l, Started(l), b, a, msg) /\ msg \in Message
      /\ \A m \in Node : m # b => player'[m] = player[m]
      /\ player'[b].team = player[b].team /\ (Past(b)' <=> Past(b))
      /\ Started(l)' <=> Started(l)
      /\ Started(b)' => Started(b) \/ Started(l)
      /\ Orderly(l, b)' /\ player'[l].roster = player[l].roster
      /\ a = l /\ msg.type = "game_start" => player'[b].game = l
      /\ player[b].game = l => player'[b].game = l
      /\ player'[b].game = player[b].game \/ Started(l)
      /\ a = l /\ msg.type = "time_sync_response" => player'[b].clock = l
      /\ player[b].clock = l => player'[b].clock = l
  BY CalmReceiver
<1>2. /\ net'[<<a, b>>] = Tail(q)
      /\ net'[<<b, a>>] = IF msg.type = "time_sync_request"
                          THEN Append(net[<<b, a>>], answer) ELSE net[<<b, a>>]
      /\ \A n, p \in Node : ~ (n = b /\ p = a) /\ ~ (n = a /\ p = b) =>
             net'[<<p, n>>] = net[<<p, n>>]
      /\ seen'[b][a] = Heard(seen[b][a], msg)
      /\ \A n, p \in Node : ~ (n = b /\ p = a) => seen'[n][p] = seen[n][p]
  BY CalmQueues
<1>3. /\ answer \in Message /\ ~ Telling(answer) /\ answer.type = "time_sync_response"
  BY MessageTypes DEF Plain, Telling
<1> HIDE DEF q
<1>4. \A n \in Node : Past(n)' <=> Past(n)
  BY <1>1 DEF Past
\* What is in a queue stays there, but for the message handled.
<1>5. \A n, p \in Node : ~ (n = b /\ p = a) => Grows(n, p)
  <2> SUFFICES ASSUME NEW n \in Node, NEW p \in Node, ~ (n = b /\ p = a)
               PROVE  Grows(n, p)
    OBVIOUS
  <2>1. \/ net'[<<p, n>>] = net[<<p, n>>]
        \/ net'[<<p, n>>] = Append(net[<<p, n>>], answer)
    BY <1>2
  <2>2. net[<<p, n>>] \in Seq(Message)
    BY <1>0
  <2>3. QED BY <1>3, <2>1, <2>2, AppendGrows
<1>6. \A type : Has(q, type) => msg.type = type \/ Has(net'[<<a, b>>], type)
  BY <1>0, <1>1, <1>2, TailReady DEF q
<1>7. ASSUME NEW n \in Node PROVE (Orderly(l, n) /\ GameFollows(l, n) /\ ClockFollows(l, n))'
  <2>1. Orderly(l, n) /\ GameFollows(l, n) /\ ClockFollows(l, n)
    BY CalmParts
  <2>2. Orderly(l, n)'
    <3>1. CASE n = b
      BY <1>1, <3>1
    <3>2. CASE n # b
      <4>1. player'[n] = player[n]
        BY <1>1, <3>2
      <4>2. QED BY <2>1, <4>1 DEF Orderly, Players, EmptyGame, Started
    <3>3. QED BY <3>1, <3>2
  <2>3. player[n].game = l => player'[n].game = l
    BY <1>1
  <2>4. player[n].clock = l => player'[n].clock = l
    BY <1>1
  <2>5. GameFollows(l, n)'
    <3>0. player'[n].game = l => Started(l)'
      <4>1. player'[n].game = player[n].game \/ Started(l)
        BY <1>1
      <4>2. QED BY <1>1, <2>1, <4>1 DEF GameFollows
    <3>1. CASE n # l /\ Has(net[<<l, n>>], "game_start")
      <4>1. CASE n = b /\ a = l
        BY <1>1, <1>6, <3>0, <3>1, <4>1 DEF GameFollows, q
      <4>2. CASE ~ (n = b /\ a = l)
        BY <1>0, <1>5, <3>0, <3>1, <4>2 DEF GameFollows, Grows
      <4>3. QED BY <4>1, <4>2
    <3>2. QED BY <1>1, <2>1, <2>3, <3>0, <3>1 DEF GameFollows
  <2>6. ClockFollows(l, n)'
    <3>1. CASE n # l /\ Has(net[<<l, n>>], "time_sync_response")
      <4>1. CASE n = b /\ a = l
        BY <1>1, <1>6, <3>1, <4>1 DEF ClockFollows, q
      <4>2. CASE ~ (n = b /\ a = l)
        BY <1>0, <1>5, <3>1, <4>2 DEF ClockFollows, Grows
      <4>3. QED BY <4>1, <4>2
    <3>2. CASE n # l /\ Has(net[<<n, l>>], "time_sync_request")
      <4>1. CASE n = a /\ l = b /\ msg.type = "time_sync_request"
        <5>1. net'[<<l, n>>] = Append(net[<<l, n>>], answer)
          BY <1>2, <4>1
        <5>2. Has(net'[<<l, n>>], "time_sync_response")
          BY <1>0, <1>3, <5>1, AppendReady
        <5>3. QED BY <3>2, <5>2 DEF ClockFollows
      <4>2. CASE n = a /\ l = b /\ msg.type # "time_sync_request"
        BY <1>6, <3>2, <4>2 DEF ClockFollows, q
      <4>3. CASE ~ (n = a /\ l = b)
        BY <1>0, <1>5, <3>2, <4>3 DEF ClockFollows, Grows
      <4>4. QED BY <4>1, <4>2, <4>3
    <3>3. QED BY <1>4, <2>1, <2>4, <3>1, <3>2 DEF ClockFollows
  <2>7. QED BY <2>2, <2>5, <2>6
<1>8. ASSUME NEW n \in Node, NEW p \in Node, n # p
      PROVE  Candid(n, p)' /\ AllExpected(l, Started(l), n, p, net[<<p, n>>])'
  <2>1. /\ Candid(n, p) /\ AllExpected(l, Started(l), n, p, net[<<p, n>>])
        /\ net[<<p, n>>] \in Seq(Message)
    BY <1>8, CalmParts
  <2>2. AllExpected(l, Started(l)', n, p, net[<<p, n>>])
    BY <1>1, <2>1, StillExpected
  <2>3. CASE n = b /\ p = a
    <3> DEFINE e == seen[b][a]
    <3>1. /\ Silent(q) => Silent(Tail(q))
          /\ ReadyIsLast(Tail(q)) /\ (msg.type = "ready" => Silent(Tail(q)))
      BY <1>1, <2>1, <2>3, TailTold, TailLast DEF Candid, q
    <3>2. e \in Entry
      BY CalmParts
    <3>3. msg.type # "unready" /\ e.team \in Teams /\ (e.ready => Silent(q))
      BY <1>1, <2>1, <2>3 DEF Expected, Candid, q
    <3>4. /\ Heard(e, msg).team \in Teams
          /\ msg.type = "ready" => Heard(e, msg).ready
          /\ msg.type # "ready" => Heard(e, msg).ready = e.ready
      BY <1>1, <3>2, <3>3, MessageKinds DEF Heard, Entry
    <3>5. Past(p)' => e.ready \/ Has(q, "ready")
      BY <1>4, <2>1, <2>3 DEF Candid, q
    <3> HIDE DEF e
    <3>6. seen'[n][p] = Heard(e, msg) /\ net'[<<p, n>>] = Tail(q)
      BY <1>2, <2>3 DEF e
    <3>7. Candid(n, p)'
      BY <1>2, <1>6, <2>3, <3>1, <3>3, <3>4, <3>5, <3>6 DEF Candid
    <3>8. AllExpected(l, Started(l)', n, p, Tail(q))
      BY <1>1, <2>1, <2>2, <2>3, QueueExpected DEF q
    <3>9. QED BY <3>6, <3>7, <3>8
  <2>4. CASE net'[<<p, n>>] = net[<<p, n>>] /\ ~ (n = b /\ p = a)
    <3>1. seen'[n][p] = seen[n][p]
      BY <1>2, <2>4
    <3>2. Candid(n, p)'
      BY <1>4, <2>1, <2>4, <3>1, SameCandid
    <3>3. QED BY <2>2, <2>4, <3>2
  <2>5. CASE /\ n = a /\ p = b /\ msg.type = "time_sync_request"
             /\ net'[<<p, n>>] = Append(net[<<p, n>>], answer)
    <3>1. seen'[n][p] = seen[n][p]
      BY <1>1, <1>2, <2>5
    <3>2. Candid(n, p)'
      BY <1>3, <1>4, <2>1, <2>5, <3>1, PlainCandid
    <3>3. Expected(l, Started(l)', n, p, answer)
      BY <1>1, <1>3, <2>5 DEF Expected
    <3>4. AllExpected(l, Started(l)', n, p, Append(net[<<p, n>>], answer))
      BY <1>3, <2>1, <2>2, <3>3, QueueExpected
    <3>5. QED BY <2>5, <3>2, <3>4
  <2>6. QED BY <1>2, <2>3, <2>4, <2>5
<1>9. EveryonePast'
  <2>1. EveryonePast
    BY CalmParts
  <2>2. \A n \in Node : Started(n)' => Started(n) \/ Started(l)
    BY <1>1 DEF Started
  <2>3. \A n \in Node : player'[n].team = player[n].team
    BY <1>1
  <2>4. QED BY <1>0, <1>4, <2>1, <2>2, <2>3 DEF EveryonePast
<1>10. SidesRight(l)'
  <2>1. \A n \in Node : player'[n].team = player[n].team
    BY <1>1
  <2>2. SidesRight(l)
    BY CalmParts
  <2>3. QED BY <1>1, <2>1, <2>2 DEF SidesRight
<1>11. QED BY <1>7, <1>8, <1>9, <1>10 DEF Calm

LEMMA InitCalm ==
    ASSUME NEW l, Lowest(l), Init
    PROVE  CalmInv(l)
<1>1. KnowInv
  BY InitKnows
<1>2. \A n \in Node : ~ Past(n) /\ ~ Started(n)
  BY DEF Init, Past, Started
<1>3. \A n \in Node : Orderly(l, n) /\ GameFollows(l, n)
  BY <1>2, NodeAssumption DEF Init, Orderly, GameFollows, Lowest, NoId
<1>4. \A n \in Node : ClockFollows(l, n)
  BY <1>2 DEF Init, ClockFollows
<1>5. \A n, p \in Node : /\ net[<<p, n>>] = <<>> /\ ~ seen[n][p].ready
                         /\ seen[n][p].team \in Teams
  BY TeamAssumption DEF Init, Teams
<1>6. \A i : ~ (i \in 1..Len(<<>>))
  BY EmptySeq
<1>7. ASSUME NEW n \in Node, NEW p \in Node
      PROVE  Candid(n, p) /\ AllExpected(l, Started(l), n, p, net[<<p, n>>])
  <2>1. \A i : ~ (i \in 1..Len(net[<<p, n>>]))
    BY <1>5, <1>6
  <2>2. Candid(n, p)
    BY <1>2, <1>5, <2>1 DEF Candid, ReadyIsLast, Silent
  <2>3. QED BY <2>1, <2>2 DEF AllExpected
<1>8. EveryonePast
  BY <1>2 DEF EveryonePast
<1>9. SidesRight(l)
  BY <1>2 DEF SidesRight, Lowest
<1>10. QED BY <1>1, <1>3, <1>4, <1>7, <1>8, <1>9 DEF CalmInv, Calm

LEMMA NextCalm ==
    ASSUME NEW l, Lowest(l), CalmInv(l), [Next]_vars
    PROVE  CalmInv(l)'
<1>1. KnowInv'
  BY NextKnows DEF CalmInv
<1>2. CASE UNCHANGED vars
  <2>1. mishaps = 0 => Calm(l)
    BY DEF CalmInv
  <2>2. UNCHANGED <<player, seen, net, mishaps>>
    BY <1>2 DEF vars
  <2>3. mishaps' = 0 => Calm(l)'
    BY <2>1, <2>2 DEF Calm, Orderly, GameFollows, ClockFollows, Candid, EveryonePast,
                      SidesRight, Past, Started, Players, EmptyGame
  <2>4. QED BY <1>1, <2>3 DEF CalmInv
<1>3. CASE Next
  <2> SUFFICES ASSUME mishaps' = 0 PROVE Calm(l)'
    BY <1>1 DEF CalmInv
  <2>1. mishaps = 0 /\ Complete
    <3>1. mishaps = 0
      BY <1>3, StaysComplete DEF CalmInv
    <3>2. QED BY <3>1 DEF CalmInv, KnowInv
  <2>2. ~ \E kind : Mishap(kind)
    BY <2>1 DEF Mishap
  <2>3. ASSUME NEW a \in Node, NEW b \in Node
        PROVE  ~ PeerDisconnects(a, b) /\ ~ Connect(a, b) /\ ~ AddPeer(a, b)
    BY <2>1, PairIsLink DEF PeerDisconnects, Connect, AddPeer, Complete
  <2>4. ASSUME NEW n \in Node, NEW t \in Teams, SetTeam(n, t) PROVE Calm(l)'
    BY <2>1, <2>4, SetTeamCalm
  <2>5. ASSUME NEW n \in Node, Ready(n) PROVE Calm(l)'
    BY <2>1, <2>5, ReadyCalm
  <2>6. ASSUME NEW n \in Node, StartGame(n) PROVE Calm(l)'
    BY <2>1, <2>6, StartGameCalm
  <2>7. ASSUME NEW n \in Node, Begin(n) PROVE Calm(l)'
    BY <2>1, <2>7, BeginCalm
  <2>8. ASSUME NEW n \in Node, NEW p \in Node, Receive(p, n) PROVE Calm(l)'
    BY <2>1, <2>8, ReceiveCalm
  <2>9. QED BY <1>3, <2>2, <2>3, <2>4, <2>5, <2>6, <2>7, <2>8
           DEF Next, Unready, ReadyTimesOut, LinkFails, Reset
<1>4. QED BY <1>2, <1>3

\* A non-empty set of naturals has a least element: the lowest key.
LEMMA LowestExists == Node # {} => \E l \in Node : Lowest(l)
<1> SUFFICES ASSUME Node # {} PROVE \E l \in Node : Lowest(l)
  OBVIOUS
<1> DEFINE R == OpToRel(<, Nat)
<1>1. IsWellFoundedOn(R, Nat) /\ Node \subseteq Nat
  BY NatLessThanWellFounded, NodeAssumption
<1>2. \A x, y \in Nat : x < y => <<x, y>> \in R
  BY Zenon DEF OpToRel
<1> HIDE DEF R
<1>3. PICK l \in Node : \A k \in Node : ~ (<<k, l>> \in R)
  BY <1>1, WFMin, Zenon
<1>4. \A k \in Node : ~ (k < l)
  BY <1>1, <1>2, <1>3
<1>5. \A k \in Node : l <= k
  BY <1>1, <1>4
<1>6. QED BY <1>5 DEF Lowest

\* What the game of the lowest key is on everyone who plays.
LEMMA CalmGame ==
    ASSUME NEW l, Lowest(l), CalmInv(l)
    PROVE  OneGameOneClock
<1> SUFFICES ASSUME mishaps = 0, NEW n \in Node, player[n].phase = "playing"
             PROVE  /\ player[n].game = l
                    /\ \A p \in Node : player[l].roster[p] = player[p].team
                    /\ player[n].timed \/ Handled(n, l) => player[n].clock = l
  BY DEF OneGameOneClock, Lowest
<1>1. l \in Node /\ Orderly(l, n) /\ ClockFollows(l, n) /\ GameFollows(l, n)
      /\ EveryonePast /\ SidesRight(l)
  BY CalmParts DEF Lowest
<1>2. player[n].game = l /\ l # NoId
  BY <1>1, NodeAssumption DEF Orderly, NoId
<1>3. \A p \in Node : player[l].roster[p] = player[p].team
  BY <1>1, <1>2 DEF SidesRight, GameFollows
<1>4. player[n].timed => player[n].clock = l
  BY <1>1, <1>2 DEF Orderly
<1>5. Handled(n, l) => player[n].clock = l
  BY <1>1, EmptyQueue DEF ClockFollows, Handled, Past
<1>6. QED BY <1>2, <1>3, <1>4, <1>5

\* Without mishaps whoever plays has the id of the lowest key, which has everyone on
\* the side they chose, and goes by its clock, at the latest once what the two sent
\* each other is handled: whichever node's poll came first.
THEOREM OneGameStarts == Spec => []OneGameOneClock
<1>1. ASSUME NEW l \in Node, Lowest(l) PROVE Spec => []OneGameOneClock
  <2>1. Init => CalmInv(l)
    BY <1>1, InitCalm
  <2>2. CalmInv(l) /\ [Next]_vars => CalmInv(l)'
    BY <1>1, NextCalm
  <2>3. CalmInv(l) => OneGameOneClock
    BY <1>1, CalmGame
  <2>4. QED BY <2>1, <2>2, <2>3, PTL DEF Spec
<1>2. ASSUME Node = {} PROVE Spec => []OneGameOneClock
  <2>1. OneGameOneClock
    BY <1>2 DEF OneGameOneClock
  <2>2. QED BY <2>1, PTL
<1>3. QED BY <1>1, <1>2, LowestExists

=============================================================================
