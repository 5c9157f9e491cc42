-------------------------------- MODULE Lobby --------------------------------
(***************************************************************************)
(* From the lobby into a game (core/node.ts, game/game-state.ts): players  *)
(* choose sides and press Ready, every node polls for everyone being ready,*)
(* the lowest connected key hands out the game's id and start, and a       *)
(* countdown begins the game on each node by itself.  Meanwhile players    *)
(* take Ready back, run out of time, lose connections and start over.      *)
(*                                                                         *)
(* The settings are SettingsLobby's concern: here they are accepted by all.*)
(* A clock is named by whose it is: clock[n] = m says that n's synchronized*)
(* time is m's own clock (timeOffset; n itself while it is 0).  Two clocks *)
(* may differ by any amount: how long a countdown takes is only known when *)
(* its delay was computed on the clock that its start is told on.          *)
(***************************************************************************)
EXTENDS Integers, Sequences, FiniteSets, Roster

CONSTANTS Node,         \* the players: natural numbers, as in Roster
          FirstTeam,    \* FirstTeam[n]: the side n chose first
          Fickle,       \* the players that may choose again
          Mishaps,      \* which mishaps may happen
          MaxMishaps    \* bound: how many of them

ASSUME NodeAssumption == Node \subseteq Nat \ {0} /\ IsFiniteSet(Node)
ASSUME TeamAssumption == FirstTeam \in [Node -> {"white", "black"}]
ASSUME BoundAssumption ==
    /\ Fickle \subseteq Node
    /\ Mishaps \subseteq {"unready", "timeout", "link", "reset"}
    /\ MaxMishaps \in Nat

VARIABLES
    player,     \* player[n]: n's game state, timers, roster and clock
    seen,       \* seen[n][p]: what n's table says of p while p is in it
    peers,      \* peers[n]: the players n has in its peer table
    up,         \* the connections that work, as pairs {a, b}
    net,        \* net[<<m, n>>]: messages from m that n has not handled, in order
    switched,   \* the players that chose their side again (bounds the model)
    reset,      \* the players that started over (history variable)
    mishaps     \* how many mishaps so far (bounds the model)

vars == <<player, seen, peers, up, net, switched, reset, mishaps>>

NoTeam == "none"
NoId   == 0           \* the empty id of a provisional countdown
Teams  == {"white", "black"}
Phases == {"side", "choosing", "waiting", "starting", "playing"}

Player == [phase    : Phases,
           team     : Teams \cup {NoTeam},
           checking : BOOLEAN,                       \* readyCheckInterval runs
           counting : BOOLEAN,                       \* gameStartTimeout is set
           game     : Node \cup {NoId},              \* whose game id it has
           roster   : [Node -> Teams \cup {NoTeam}], \* NoTeam: not in the game
           clock    : Node,
           timed    : BOOLEAN]   \* its countdown's delay is that of startsAt's clock

Links == {l \in SUBSET Node : Cardinality(l) = 2}

NewPeer   == [ready |-> FALSE, team |-> NoTeam]
EmptyGame == [n \in Node |-> NoTeam]

ReadyMsg(t)      == [type |-> "ready", team |-> t]
SideMsg(t)       == [type |-> "side_choice", team |-> t]
Plain(type)      == [type |-> type]
\* The game's id and its startsAt, a time on the sender's synchronized clock.
GameStartMsg(id, c) == [type |-> "game_start", game |-> id, clock |-> c]

Message == [type : {"ready", "side_choice"}, team : Teams]
      \cup [type : {"unready", "time_sync_request", "time_sync_response"}]
      \cup [type : {"game_start"}, game : Node, clock : Node]

Connected(n) == {n} \cup peers[n]

\* The players a roster holds.
Players(roster) == {p \in Node : roster[p] # NoTeam}

Masters(n, roster) ==
    {m \in Connected(n) : IsMaster(m, Players(roster), Connected(n))}

\* A packet goes to the peers in ps whose connection is open.
Sent(queues, n, ps, msg) ==
    [c \in Node \X Node |->
        IF c[1] = n /\ c[2] \in ps /\ {n, c[2]} \in up
        THEN Append(queues[c], msg) ELSE queues[c]]

\* acceptingConnection, which every change of phase keeps in step.
LobbyOpen(n) == player[n].phase \in {"side", "choosing"}

\* roster.has and acceptsConnection: a closed lobby lets its players back in.
Accepts(n, p) == LobbyOpen(n) \/ player[n].roster[p] # NoTeam

InGame(n) == Players(player[n].roster) # {}

-----------------------------------------------------------------------------
(* The game state's own changes of phase, each a no-op in a wrong phase.   *)

SetSide(s, t) ==
    IF s.phase \in {"side", "choosing"}
    THEN [s EXCEPT !.phase = "choosing", !.team = t] ELSE s

SetWaitingForPeers(s) ==
    IF s.phase = "choosing" THEN [s EXCEPT !.phase = "waiting"] ELSE s

SetUnready(s) ==
    IF s.phase = "waiting" THEN [s EXCEPT !.phase = "choosing"] ELSE s

BeginCountdown(s, id) == [s EXCEPT !.phase = "starting", !.game = id]

BeginPlay(s) == IF s.phase = "starting" THEN [s EXCEPT !.phase = "playing"] ELSE s

ResetGame(s) == [s EXCEPT !.phase = "side", !.team = NoTeam, !.game = NoId]

-----------------------------------------------------------------------------
(* Sides and readiness.                                                    *)

\* setTeam.
SetTeam(n, t) ==
    /\ player[n].phase \in {"side", "choosing"}
    /\ player[n].phase = "choosing" =>
           /\ t # player[n].team
           /\ n \in Fickle \ switched
    /\ player' = [player EXCEPT ![n] = SetSide(@, t)]
    /\ net' = Sent(net, n, peers[n], SideMsg(t))
    /\ switched' = IF player[n].phase = "choosing" THEN switched \cup {n} ELSE switched
    /\ UNCHANGED <<seen, peers, up, reset, mishaps>>

\* The lowest connected key keeps the time; everyone else asks it.
TimeMasters(n) == {m \in peers[n] : \A p \in Connected(n) : m <= p}

\* sync: the time master itself has nothing to do, not even to forget an offset.
Synced(queues, n) == Sent(queues, n, TimeMasters(n), Plain("time_sync_request"))

\* ready: it is told to everyone, the clock is synchronized and the poll starts.
Ready(n) ==
    /\ player[n].phase = "choosing"
    /\ player' = [player EXCEPT ![n] = [SetWaitingForPeers(@) EXCEPT !.checking = TRUE]]
    /\ net' = Synced(Sent(net, n, peers[n], ReadyMsg(player[n].team)), n)
    /\ UNCHANGED <<seen, peers, up, switched, reset, mishaps>>

Mishap(kind) ==
    /\ kind \in Mishaps
    /\ mishaps < MaxMishaps
    /\ mishaps' = mishaps + 1

\* Mutants: the poll goes on; nobody is told.
UnreadyKeepPolling(n) ==
    /\ player[n].phase = "waiting"
    /\ Mishap("unready")
    /\ player' = [player EXCEPT ![n] = SetUnready(@)]
    /\ net' = Sent(net, n, peers[n], Plain("unready"))
    /\ UNCHANGED <<seen, peers, up, switched, reset>>

UnreadyQuietly(n) ==
    /\ player[n].phase = "waiting"
    /\ Mishap("unready")
    /\ player' = [player EXCEPT ![n] = [SetUnready(@) EXCEPT !.checking = FALSE]]
    /\ UNCHANGED <<seen, peers, up, net, switched, reset>>

Unready(n) ==
    /\ player[n].phase = "waiting"
    /\ Mishap("unready")
    /\ player' = [player EXCEPT ![n] = [SetUnready(@) EXCEPT !.checking = FALSE]]
    /\ net' = Sent(net, n, peers[n], Plain("unready"))
    /\ UNCHANGED <<seen, peers, up, switched, reset>>

\* checkAllPeersReady after READY_TIMEOUT_MS: the poll stops, n stays ready.
ReadyTimesOut(n) ==
    /\ player[n].checking
    /\ Mishap("timeout")
    /\ player' = [player EXCEPT ![n].checking = FALSE]
    /\ UNCHANGED <<seen, peers, up, net, switched, reset>>

-----------------------------------------------------------------------------
(* Starting the game.                                                      *)

\* recordRoster: us and everyone connected whose side is known.
RosterOf(n) ==
    [p \in Node |-> IF p = n THEN player[n].team
                    ELSE IF p \in peers[n] THEN seen[n][p].team ELSE NoTeam]

\* checkTeamBalance, a player whose side is not known counting as white.
BothSides(n) ==
    LET team(p) == IF RosterOf(n)[p] = NoTeam THEN "white" ELSE RosterOf(n)[p]
    IN  \A t \in Teams : \E p \in Connected(n) : team(p) = t

\* The poll stops, the roster is recorded and the countdown to a time on c's clock
\* runs; an earlier one is replaced.  Its delay is computed once, with the clock n
\* goes by now (scheduleGameBegin).
Countdown(n, id, c) ==
    [BeginCountdown(player[n], id) EXCEPT
        !.checking = FALSE, !.counting = TRUE, !.roster = RosterOf(n),
        !.timed = (player[n].clock = c)]

\* checkAllPeersReady finds the poll running and everyone ready.
AllPeersReady(n) ==
    /\ player[n].checking
    /\ peers[n] # {}
    /\ \A p \in peers[n] : seen[n][p].ready
    /\ BothSides(n)

\* checkAllPeersReady with everyone ready, and initiateGameStart: the master
\* hands out its game; anyone else starts a countdown of its own meanwhile.
StartGame(n) ==
    LET master == n \in Masters(n, player[n].roster)
        id     == IF master THEN n ELSE NoId
        c      == player[n].clock
    IN  /\ AllPeersReady(n)
        /\ player' = [player EXCEPT ![n] = Countdown(n, id, c)]
        /\ net' = IF master THEN Sent(net, n, peers[n], GameStartMsg(id, c)) ELSE net
        /\ UNCHANGED <<seen, peers, up, switched, reset, mishaps>>

\* Mutants: only a countdown of our own is replaced; a game under way is, too.
HandleGameStartIfCounting(n, p, msg) ==
    IF p \in Masters(n, player[n].roster) /\ player[n].phase = "starting"
    THEN Countdown(n, msg.game, msg.clock) ELSE player[n]

HandleGameStartAnytime(n, p, msg) ==
    IF p \in Masters(n, player[n].roster) /\ player[n].phase # "side"
    THEN Countdown(n, msg.game, msg.clock) ELSE player[n]

\* handleGameStart: the master's game replaces our countdown, or our waiting.
HandleGameStart(n, p, msg) ==
    IF p \in Masters(n, player[n].roster) /\ player[n].phase \in {"waiting", "starting"}
    THEN Countdown(n, msg.game, msg.clock) ELSE player[n]

\* Ten seconds are longer than a message takes, and longer than five polls: what
\* was under way when such a countdown started is done before it is over.
CaughtUp ==
    /\ \A c \in Node \X Node : net[c] = <<>>
    /\ \A m \in Node : ~AllPeersReady(m)

\* The countdown is over on n.  It took ten seconds if it was timed on the clock its
\* start is told on; on another one it is over at once, or late, as the clocks differ.
Begin(n) ==
    /\ player[n].counting
    /\ player[n].timed => CaughtUp
    /\ player' = [player EXCEPT ![n] = [BeginPlay(@) EXCEPT !.counting = FALSE]]
    /\ UNCHANGED <<seen, peers, up, net, switched, reset, mishaps>>

\* n tells p its own clock, whatever time n goes by itself.
AnswerTimeSync(queues, n, p) == Sent(queues, n, {p}, Plain("time_sync_response"))

\* Mutant: the answer is not used.
IgnoreSyncResponse(n, p) == player[n]

\* The offset that makes n's time the time of whoever answered.
HandleSyncResponse(n, p) == [player[n] EXCEPT !.clock = p]

\* What a message tells n about the player that sent it.
Heard(entry, msg) ==
    CASE msg.type = "ready"       -> [ready |-> TRUE, team |-> msg.team]
      [] msg.type = "unready"     -> [entry EXCEPT !.ready = FALSE]
      [] msg.type = "side_choice" -> [entry EXCEPT !.team = msg.team]
      [] OTHER                    -> entry

\* HandleMessage, the messages the lobby uses.
Receive(p, n) ==
    /\ p \in peers[n]
    /\ net[<<p, n>>] # <<>>
    /\ LET msg    == Head(net[<<p, n>>])
           queues == [net EXCEPT ![<<p, n>>] = Tail(@)]
       IN  /\ seen' = [seen EXCEPT ![n][p] = Heard(@, msg)]
           /\ player' = [player EXCEPT ![n] =
                  CASE msg.type = "game_start"         -> HandleGameStart(n, p, msg)
                    [] msg.type = "time_sync_response" -> HandleSyncResponse(n, p)
                    [] OTHER                           -> @]
           /\ net' = IF msg.type = "time_sync_request"
                     THEN AnswerTimeSync(queues, n, p) ELSE queues
    /\ UNCHANGED <<peers, up, switched, reset, mishaps>>

-----------------------------------------------------------------------------
(* Connections, and starting over.                                         *)

LinkFails(l) ==
    /\ l \in up
    /\ Mishap("link")
    /\ up' = up \ {l}
    /\ UNCHANGED <<player, seen, peers, net, switched, reset>>

\* handlePeerDisconnect.
PeerDisconnects(n, p) ==
    /\ p \in peers[n]
    /\ {n, p} \notin up
    /\ peers' = [peers EXCEPT ![n] = @ \ {p}]
    /\ seen' = [seen EXCEPT ![n][p] = NewPeer]
    /\ net' = [net EXCEPT ![<<p, n>>] = <<>>]
    /\ UNCHANGED <<player, up, switched, reset, mishaps>>

\* a dials b, which lets it in.
Connect(a, b) ==
    /\ a # b
    /\ {a, b} \notin up
    /\ b \notin peers[a] /\ a \notin peers[b]
    /\ Accepts(b, a)
    /\ up' = up \cup {{a, b}}
    /\ net' = [c \in Node \X Node |-> IF {c[1], c[2]} = {a, b} THEN <<>> ELSE net[c]]
    /\ UNCHANGED <<player, seen, peers, switched, reset, mishaps>>

\* Mutant: a newcomer is not told our side.
AddPeerQuietly(n, p) ==
    /\ {n, p} \in up
    /\ p # n
    /\ p \notin peers[n]
    /\ peers' = [peers EXCEPT ![n] = @ \cup {p}]
    /\ seen' = [seen EXCEPT ![n][p] = NewPeer]
    /\ UNCHANGED <<player, up, net, switched, reset, mishaps>>

\* addPeer.  In a game the roster says who p is, and nobody else is let in; in
\* the lobby p starts blank and is told our side, but not that we are ready.
AddPeer(n, p) ==
    /\ {n, p} \in up
    /\ p # n
    /\ p \notin peers[n]
    /\ IF InGame(n) /\ player[n].roster[p] = NoTeam
       THEN up' = up \ {{n, p}} /\ UNCHANGED <<seen, peers, net>>
       ELSE /\ peers' = [peers EXCEPT ![n] = @ \cup {p}]
            /\ seen' = [seen EXCEPT ![n][p] =
                   IF InGame(n) THEN [ready |-> TRUE, team |-> player[n].roster[p]]
                   ELSE NewPeer]
            /\ net' = IF ~InGame(n) /\ player[n].team # NoTeam
                      THEN Sent(net, n, {p}, SideMsg(player[n].team)) ELSE net
            /\ UNCHANGED up
    /\ UNCHANGED <<player, switched, reset, mishaps>>

\* reset, once the game is over on n's screen ("playing" covers the finished
\* game).  Nobody is told, and the clock stays as it was set.
Reset(n) ==
    /\ player[n].phase = "playing"
    /\ Mishap("reset")
    /\ reset' = reset \cup {n}
    /\ player' = [player EXCEPT ![n] = [ResetGame(@) EXCEPT
           !.checking = FALSE, !.counting = FALSE, !.roster = EmptyGame]]
    /\ seen' = [seen EXCEPT ![n] = [p \in Node |-> NewPeer]]
    /\ UNCHANGED <<peers, up, net, switched>>

-----------------------------------------------------------------------------
\* Everyone is connected, has chosen a side and has been told the others'.
Init ==
    /\ player = [n \in Node |->
           [phase |-> "choosing", team |-> FirstTeam[n], checking |-> FALSE,
            counting |-> FALSE, game |-> NoId, roster |-> EmptyGame, clock |-> n,
            timed |-> TRUE]]
    /\ seen = [n \in Node |-> [p \in Node |-> [ready |-> FALSE, team |-> FirstTeam[p]]]]
    /\ peers = [n \in Node |-> Node \ {n}]
    /\ up = Links
    /\ net = [c \in Node \X Node |-> <<>>]
    /\ switched = {} /\ reset = {} /\ mishaps = 0

Next ==
    \/ \E n \in Node, t \in Teams : SetTeam(n, t)
    \/ \E n \in Node : Ready(n)
    \/ \E n \in Node : Unready(n)
    \/ \E n \in Node : ReadyTimesOut(n)
    \/ \E n \in Node : StartGame(n)
    \/ \E n \in Node : Begin(n)
    \/ \E n, p \in Node : Receive(p, n)
    \/ \E l \in Links : LinkFails(l)
    \/ \E n, p \in Node : PeerDisconnects(n, p)
    \/ \E a, b \in Node : Connect(a, b)
    \/ \E n, p \in Node : AddPeer(n, p)
    \/ \E n \in Node : Reset(n)

Spec == Init /\ [][Next]_vars

(* Fairness.  The poll and the countdown are timers of the event loop, and *)
(* messages and ends of connections are handled.  Nobody has to press      *)
(* Ready.                                                                  *)
Fairness ==
    \A n \in Node : /\ WF_vars(StartGame(n))
                    /\ WF_vars(Begin(n))
                    /\ \A p \in Node : /\ WF_vars(Receive(p, n))
                                       /\ WF_vars(PeerDisconnects(n, p))
                                       /\ WF_vars(AddPeer(n, p))

FairSpec == Spec /\ Fairness

-----------------------------------------------------------------------------
(* Properties.                                                             *)

TypeOK ==
    /\ player \in [Node -> Player]
    /\ seen \in [Node -> [Node -> [ready : BOOLEAN, team : Teams \cup {NoTeam}]]]
    /\ peers \in [Node -> SUBSET Node]
    /\ up \subseteq Links
    /\ net \in [Node \X Node -> Seq(Message)]
    /\ switched \subseteq Node
    /\ reset \subseteq Node
    /\ mishaps \in 0..MaxMishaps

\* n knows p, and has handled everything p sent.
UpToDate(n, p) ==
    /\ p \in peers[n] /\ n \in peers[p]
    /\ {n, p} \in up
    /\ net[<<p, n>>] = <<>>
    /\ {n, p} \cap reset = {}

\* However sides are chosen again, connections lost and players let back in,
\* players in the lobby that have handled what each sent know each other's sides
\* (addPeer tells each newcomer ours).  Starting over breaks this: reset wipes
\* what had arrived before it, and tells nobody.
SidesKnown ==
    \A n, p \in Node :
        UpToDate(n, p) /\ ~InGame(n) /\ ~InGame(p)
            => seen[n][p].team = player[p].team

\* A node that thinks p ready is right, or an unready is on its way: nobody is
\* counted as ready for good after taking it back or coming back.
NoPhantomReady ==
    \A n, p \in Node :
        UpToDate(n, p) /\ ~InGame(n) /\ seen[n][p].ready
            => player[p].phase \in {"waiting", "starting", "playing"}

\* The poll runs only while waiting for the others and the countdown only while
\* starting: no timer that unready, a master's game_start or reset should have
\* stopped can start or begin a game later (begin would open a window in the
\* lobby: scheduleGameBegin does not look at what begin() did).
TimersMatchPhase ==
    \A n \in Node : /\ player[n].checking => player[n].phase = "waiting"
                    /\ player[n].counting <=> player[n].phase = "starting"

\* Once a game has begun on a node, no late game_start, reconnection or ready
\* changes its id or its roster, or begins it again, until it starts over.
BegunGamesAreFixed ==
    [][\A n \in Node : player[n].phase = "playing" =>
           \/ player'[n].phase = "side"
           \/ /\ player'[n].phase = "playing"
              /\ player'[n].game = player[n].game
              /\ player'[n].roster = player[n].roster]_vars

\* n has handled what m sent, and the other way round.
Handled(n, m) == net[<<m, n>>] = <<>> /\ net[<<n, m>>] = <<>>

\* Without mishaps, whoever plays has the id of the lowest key, never the empty
\* one of a provisional countdown, and that player, who counts the votes, has
\* everyone on the side they chose.  All run on that player's clock, with one
\* exception: who handles game_start before the answer to its time request has a
\* countdown that is off by as much as its clock is, and may begin before the
\* answer comes; it still goes by that clock once what was sent is handled.
OneGameOneClock ==
    mishaps = 0 => \A n \in Node : player[n].phase = "playing" =>
        LET first == player[n].game
        IN  /\ first \in Node
            /\ \A m \in Node : first <= m
            /\ \A p \in Node : player[first].roster[p] = player[p].team
            /\ player[n].timed \/ Handled(n, first) => player[n].clock = first

EveryoneReady ==
    /\ \A n \in Node : player[n].phase = "waiting"
    /\ \A t \in Teams : \E n \in Node : player[n].team = t

\* Without mishaps, once everyone is ready with players on both sides, everyone
\* ends up in one game, whichever node's poll comes first.
EveryoneStarts ==
    [](mishaps = 0) =>
        (EveryoneReady ~> \A n, m \in Node : /\ player[n].phase = "playing"
                                             /\ player[n].game = player[m].game)

=============================================================================
