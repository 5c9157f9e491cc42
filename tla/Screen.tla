------------------------------- MODULE Screen -------------------------------
(***************************************************************************)
(* What one player's screen shows (ReactChessDemocracy: store.ts and       *)
(* useChessDemocracy.ts) against what the node of the same app knows.  The *)
(* two are different processes: main.ts pushes the node's events to the    *)
(* screen and answers its requests, in order, while both go on.  The store *)
(* is filled once after joining (hydrateFromNode) and kept by the pushes.  *)
(*                                                                         *)
(* The node's handlers are reduced to the state the screen shows and the   *)
(* events they emit; the other players may do anything that these accept.  *)
(***************************************************************************)
EXTENDS Integers, Sequences, FiniteSets

CONSTANTS Peer,       \* the other players
          Settings,   \* the settings somebody may propose
          Default,    \* the settings everyone starts with
          MaxVersion, \* bound: the others propose settings up to this version
          MaxTurn,    \* bound: the last turn of a game
          MaxRevotes, \* the setting maxRevotes
          MaxEvents,  \* bound: how many things happen to the node
          MaxClicks   \* bound: how often the player clicks

Self   == 0
NoSide == "none"
Side   == {"white", "black"}

ASSUME PeerAssumption == IsFiniteSet(Peer) /\ Self \notin Peer

\* What a resign part is that is no number: left out (undefined), computed from that
\* (NaN), or that after the network (JSON has null for it).
Undefined == "undefined"
NaN       == "NaN"
Null      == "null"
NoNumber  == {Undefined, NaN, Null}

\* The settings c with that resign part.
Except(c, r) == [c EXCEPT !.resign = r]
AnySettings  == Settings \cup {Except(c, r) : c \in Settings, r \in NoNumber}

ASSUME SettingsAssumption ==
    /\ Default \in Settings
    /\ \A c \in Settings : /\ c = [vote |-> c.vote, resign |-> c.resign]
                          /\ c.resign \notin NoNumber
ASSUME BoundAssumption == {MaxVersion, MaxTurn, MaxRevotes, MaxEvents, MaxClicks} \subseteq Nat

H == INSTANCE ConfigHandshake WITH Node <- Peer, Settings <- AnySettings

VARIABLES
    node,       \* what the node knows
    store,      \* what the screen shows
    told,       \* pushes and answers on their way to the screen, in order
    asked,      \* requests on their way to the main process, in order
    got,        \* the answers hydrateFromNode holds until the last one is there
    joined,     \* the network is set: the screens of a game are shown
    refreshes,  \* timers that will ask for the peers again
    busy,       \* the buttons that wait for an answer
    again,      \* the player has played again (history variable)
    events, clicks   \* how many there were (bound the model)

vars == <<node, store, told, asked, got, joined, refreshes, busy, again, events, clicks>>

Phase == {"waiting_for_side", "waiting_for_ready", "waiting_for_peers", "starting",
          "in_progress", "finished"}
Lobby == {"waiting_for_side", "waiting_for_ready"}

Gone      == [here |-> FALSE, team |-> NoSide, ready |-> FALSE]
Here(t, r) == [here |-> TRUE, team |-> t, ready |-> r]
Peers     == [Peer -> {Gone} \cup [here : {TRUE}, team : Side \cup {NoSide}, ready : BOOLEAN]]
Present(ps) == {p \in Peer : ps[p].here}

NoWindow == [turn |-> -1, round |-> 0, votes |-> {}]
NewWindow(t, r) == [turn |-> t, round |-> r, votes |-> {}]
Mover(w) == IF w.turn % 2 = 0 THEN "white" ELSE "black"

-----------------------------------------------------------------------------
(* The node: each handler gives the new node and the events it emits.      *)

NewNode == [phase |-> "waiting_for_side", team |-> NoSide,
            peers |-> [p \in Peer |-> Gone],
            roster |-> [p \in Peer |-> NoSide],
            hs |-> H!InitialHandshake,
            window |-> NoWindow,
            resign |-> {}]             \* who voted to resign; {}: no vote is open

Push(type)            == [type |-> type]
PeerPush(type, p)     == [type |-> type, peer |-> p]
TeamUpdated(p, t)     == [type |-> "peer:team_updated", peer |-> p, team |-> t]
ReadyChanged(p, r)    == [type |-> "peer:ready_changed", peer |-> p, ready |-> r]
ConfigUpdated(c, v, p) == [type |-> "config:updated", config |-> c, version |-> v, proposer |-> p]
\* Of a peer's settings the screen is told the vote part only.
PeerProposed(c, v, p) == ConfigUpdated(Except(c, Undefined), v, p)
SelfAccepted(v)       == [type |-> "config:self_accepted", version |-> v]
GameStarting(t)       == [type |-> "game:starting", team |-> t]
GameStarted(t)        == [type |-> "game:started", team |-> t]
WindowOpened(t)       == [type |-> "vote:window_opened", turn |-> t]
RevoteStarted(t)      == [type |-> "revote:started", turn |-> t]
VoteUpdated(n)        == [type |-> "resign:vote_updated", yes |-> n]

Result(n, out) == [node |-> n, out |-> out]
Then(r, next)  == Result(next.node, r.out \o next.out)

InGame(n) == n.phase \in {"starting", "in_progress", "finished"}

EndGame(n) ==
    Result([n EXCEPT !.phase = "finished", !.window = NoWindow, !.resign = {}],
           <<Push("game:over")>>)

OpenWindow(n, t, r) ==
    Result([n EXCEPT !.window = NewWindow(t, r)], <<WindowOpened(t)>>)

\* Mutant: the next window is opened before the screen hears of the move.
OpenThenTell(n) ==
    LET next == OpenWindow(n, n.window.turn + 1, 0)
    IN  {EndGame(n)}
        \cup (IF n.window.turn < MaxTurn
              THEN {Result(next.node, next.out \o <<Push("tally:done")>>)} ELSE {})

\* applyTally, of whatever outcome: a move that ends the game or does not, a new
\* round, or no round left.
ApplyTally(n) ==
    LET moved == Result([n EXCEPT !.window = NoWindow], <<Push("tally:done")>>)
        turn  == n.window.turn
    IN  {Then(moved, EndGame(n))}
        \cup (IF turn < MaxTurn THEN {Then(moved, OpenWindow(n, turn + 1, 0))} ELSE {})
        \cup {IF n.window.round < MaxRevotes
              THEN Result([n EXCEPT !.window = NewWindow(turn, @.round + 1)],
                          <<RevoteStarted(turn)>>)
              ELSE EndGame(n)}

\* countIfEveryoneVoted at the end of a handler: it may be the time to count.
Counted(r) ==
    {r} \cup (IF r.node.window = NoWindow THEN {}
              ELSE {Then(r, s) : s \in ApplyTally(r.node)})

TeamSize(n) == 1 + Cardinality({p \in Peer : n.peers[p].here /\ n.peers[p].team = n.team})

\* ResignVote.passes, with the default threshold if there is one: nothing reaches NaN,
\* and anything null.
Passes(n) ==
    CASE n.hs.config.resign = NaN  -> FALSE
      [] n.hs.config.resign = Null -> TRUE
      [] OTHER -> Cardinality(n.resign) * 100 >= 67 * TeamSize(n)

\* checkResignThreshold.
CheckResign(r) ==
    LET n == r.node
    IN  IF n.phase = "in_progress" /\ n.resign # {} /\ Passes(n)
        THEN Then(r, EndGame(n)) ELSE r

AddYes(n, p) ==
    CheckResign(Result([n EXCEPT !.resign = @ \cup {p}],
        (IF n.resign = {} THEN <<Push("resign:vote_started")>> ELSE <<>>)
            \o <<VoteUpdated(Cardinality(n.resign \cup {p}))>>))

-----------------------------------------------------------------------------
(* What happens to the node.                                               *)

Happens(results) ==
    /\ events < MaxEvents
    /\ events' = events + 1
    /\ \E r \in results : node' = r.node /\ told' = told \o r.out
    /\ UNCHANGED <<store, asked, got, joined, refreshes, busy, again, clicks>>

\* addPeer, of a new player or a new connection to one.
PeerJoins(p) ==
    /\ IF InGame(node) THEN node.roster[p] # NoSide ELSE node.phase \in Lobby
    /\ Happens({Result([node EXCEPT !.peers[p] = IF InGame(node) THEN Here(node.roster[p], TRUE)
                                                             ELSE Here(NoSide, FALSE)],
                       <<PeerPush("peer:joined", p)>>)})

\* handlePeerDisconnect.
PeerLeaves(p) ==
    /\ node.peers[p].here
    /\ Happens(Counted(CheckResign(
           Result([node EXCEPT !.peers[p] = Gone], <<PeerPush("peer:left", p)>>))))

ChoosesSide(p, t) ==
    /\ node.peers[p].here /\ ~InGame(node)
    /\ Happens({Result([node EXCEPT !.peers[p].team = t], <<TeamUpdated(p, t)>>)})

\* A ready message carries the side, which was told before unless we forgot it.
GetsReady(p, t) ==
    /\ node.peers[p].here /\ ~InGame(node)
    /\ node.peers[p].team = t \/ (again /\ node.peers[p].team = NoSide)
    /\ Happens({Result([node EXCEPT !.peers[p] = Here(t, TRUE)], <<ReadyChanged(p, TRUE)>>)})

GetsUnready(p) ==
    /\ node.peers[p].ready /\ ~InGame(node)
    /\ Happens({Result([node EXCEPT !.peers[p].ready = FALSE], <<ReadyChanged(p, FALSE)>>)})

\* handleConfigAccept.  Settings are talked about in the lobby (bounds the model: these handlers do not
\* look at the phase).
AcceptArrives(p, v) ==
    /\ node.peers[p].here /\ ~InGame(node) /\ ~H!IsStale(node.hs, v)
    /\ Happens({Result([node EXCEPT !.hs = H!ReceiveAccept(@, p, v)],
                       IF v = node.hs.version THEN <<PeerPush("config:peer_accepted", p)>>
                                              ELSE <<>>)})

\* What the others may propose, under version 0 (on joining) what everyone starts with.
Proposals(v) == IF v = 0 THEN {Default}
                ELSE Settings \cup {Except(c, Null) : c \in Settings}

\* handleConfigProposal: settings we have accepted already are not shown again.
ProposalArrives(p, c, v) ==
    LET h     == H!ReceiveProposal(node.hs, p, c, v)
        early == {q \in Peer \ {p} : node.hs.accepted[q] = v}
    IN  /\ node.peers[p].here /\ ~InGame(node) /\ ~H!IsStale(node.hs, v)
        /\ \E order \in {o \in [1..Cardinality(early) -> early] :
                            \A i, j \in DOMAIN o : i # j => o[i] # o[j]} :
              Happens({Result([node EXCEPT !.hs = h],
                  (IF h.self = v THEN <<>> ELSE <<PeerProposed(c, v, p)>>)
                  \o [i \in DOMAIN order |-> PeerPush("config:peer_accepted", order[i])])})

\* initiateGameStart, or the master's game_start.
GameStarts ==
    /\ node.phase \in {"waiting_for_peers", "starting"}
    /\ Present(node.peers) # {}
    /\ Happens({Result([node EXCEPT !.phase = "starting",
                                    !.roster = [p \in Peer |-> node.peers[p].team]],
                       <<GameStarting(node.team)>>)})

\* scheduleGameBegin's timer.
GameBegins ==
    /\ node.phase = "starting"
    /\ LET begun == [node EXCEPT !.phase = "in_progress"]
       IN  Happens({Then(Result(begun, <<GameStarted(node.team)>>), OpenWindow(begun, 0, 0))})

\* One more vote, if there is a player whose vote counts and who has not voted.
OneVote(r) ==
    LET w == r.node.window
    IN  {Then(r, Result([r.node EXCEPT !.window.votes = @ \cup {p}],
                        <<PeerPush("vote:received", p)>>)) :
            p \in {p \in Peer : w # NoWindow /\ r.node.roster[p] = Mover(w)
                               /\ p \notin w.votes}}

\* handleVote.
VoteArrives ==
    Happens(UNION {Counted(r) : r \in OneVote(Result(node, <<>>))})

\* onTallyDue or handleTallyResult.
TallyIsApplied ==
    /\ node.window # NoWindow
    /\ Happens(ApplyTally(node))

\* handleGameSnapshot: moves we missed (one, to bound the model), each shown as a
\* tally, or a missed round; then the votes that we miss (one).
SnapshotArrives ==
    /\ node.window # NoWindow
    /\ LET missed == Result(node, <<Push("tally:done")>>)
           turn   == node.window.turn
           shown  == {Result(node, <<>>), Then(missed, EndGame(node))}
                     \cup {Then(missed, OpenWindow(node, turn + 1, r)) :
                              r \in IF turn < MaxTurn THEN 0..MaxRevotes ELSE {}}
                     \cup {OpenWindow(node, turn, r) : r \in (node.window.round + 1)..MaxRevotes}
       IN  Happens(UNION {Counted(r) : r \in shown \cup UNION {OneVote(r) : r \in shown}})

\* A draw, a timeout, the other side's resignation, a desync.
GameEnds ==
    /\ node.phase = "in_progress"
    /\ Happens({EndGame(node)})

\* handleResignVote, from a teammate.
ResignVoteArrives(p) ==
    /\ node.phase = "in_progress"
    /\ node.peers[p].here /\ node.peers[p].team = node.team
    /\ p \notin node.resign
    /\ Happens({AddYes(node, p)})

\* Mutant: the screen is not told that the resign vote lapsed.
ResignVoteLapses ==
    /\ node.resign # {}
    /\ Happens({Result([node EXCEPT !.resign = {}], <<>>)})

ResignVoteExpires ==
    /\ node.resign # {}
    /\ Happens({Result([node EXCEPT !.resign = {}], <<Push("resign:vote_expired")>>)})

Events ==
    \/ \E p \in Peer : PeerJoins(p) \/ PeerLeaves(p) \/ GetsUnready(p)
                       \/ ResignVoteArrives(p)
    \/ \E p \in Peer, t \in Side : ChoosesSide(p, t) \/ GetsReady(p, t)
    \/ \E p \in Peer, v \in 0..MaxVersion :
          AcceptArrives(p, v) \/ \E c \in Proposals(v) : ProposalArrives(p, c, v)
    \/ GameStarts \/ GameBegins \/ VoteArrives \/ TallyIsApplied \/ SnapshotArrives
    \/ GameEnds \/ ResignVoteExpires

-----------------------------------------------------------------------------
(* The main process answers the screen's requests (main.ts).  An answer    *)
(* carries who asked, and `ok` or what was asked for.                      *)

Request(ask, for) == [ask |-> ask, for |-> for, seen |-> 0]
Done(q, ok)       == [type |-> "done", for |-> q.for, seen |-> q.seen, ok |-> ok]

Snapshot(n) == [phase |-> n.phase, team |-> n.team]
Config(n)   == [config |-> n.hs.config, version |-> n.hs.version,
                self |-> n.hs.self = n.hs.version,
                accepted |-> {p \in Present(n.peers) : n.hs.accepted[p] = n.hs.version}]

\* The head of `asked` is a request of that kind.
Asks(kind) == asked # <<>> /\ Head(asked).ask = kind

\* r, and then the answer.
Answers(r, answer) ==
    /\ node' = r.node
    /\ told' = told \o Append(r.out, answer)
    /\ asked' = Tail(asked)
    /\ UNCHANGED <<store, got, joined, refreshes, busy, again, events, clicks>>

\* The node does r, if it may.
Obeys(may, r) ==
    IF may THEN Answers(r, Done(Head(asked), TRUE))
           ELSE Answers(Result(node, <<>>), Done(Head(asked), FALSE))

SetTeam ==
    /\ Asks("setTeam")
    /\ Obeys(node.phase \in Lobby,
             Result([node EXCEPT !.team = Head(asked).team, !.phase = "waiting_for_ready"], <<>>))

Ready ==
    /\ Asks("ready")
    /\ Obeys(node.phase = "waiting_for_ready" /\ H!AllAccepted(node.hs, Present(node.peers)),
             Result([node EXCEPT !.phase = "waiting_for_peers"], <<>>))

Unready ==
    /\ Asks("unready")
    /\ Obeys(node.phase = "waiting_for_peers",
             Result([node EXCEPT !.phase = "waiting_for_ready"], <<>>))

\* What is out of range is refused: null reads as 0, and NaN is in no order to a bound.
SetConfig ==
    /\ Asks("setConfig")
    /\ LET c == Head(asked).config
           h == H!Propose(node.hs, c)
       IN  Obeys(node.phase \in Lobby /\ c.resign # Null,
                 Result([node EXCEPT !.hs = h],
                        <<ConfigUpdated(h.config, h.version, Self)>>))

AcceptConfig ==
    /\ Asks("acceptConfig")
    /\ Obeys(node.phase \in Lobby,
             Result([node EXCEPT !.hs = H!AcceptCurrent(@)], <<SelfAccepted(node.hs.version)>>))

\* castVote: refused too when the window closed meanwhile.
CastVote ==
    /\ Asks("castVote")
    /\ LET w   == node.window
           may == w # NoWindow /\ Mover(w) = node.team /\ Self \notin w.votes
       IN  \/ may /\ \E r \in Counted(Result([node EXCEPT !.window.votes = @ \cup {Self}],
                                             <<PeerPush("vote:received", Self)>>)) :
                        Answers(r, Done(Head(asked), TRUE))
           \/ Answers(Result(node, <<>>), Done(Head(asked), FALSE))

CastResignVote ==
    /\ Asks("resign")
    /\ LET may == node.phase = "in_progress" /\ Self \notin node.resign
       IN  Obeys(may, IF may THEN AddYes(node, Self) ELSE Result(node, <<>>))

\* Node.reset: also what the others said of themselves is forgotten.
Reset ==
    /\ Asks("reset")
    /\ Answers(Result([NewNode EXCEPT !.peers =
                           [p \in Peer |-> IF node.peers[p].here THEN Here(NoSide, FALSE) ELSE Gone]],
                      <<Push("game:reset")>>),
               Done(Head(asked), TRUE))

GetState ==
    /\ Asks("getState")
    /\ Answers(Result(node, <<>>),
               [type |-> "state", for |-> Head(asked).for, state |-> Snapshot(node)])

GetPeers ==
    /\ Asks("getPeers")
    /\ Answers(Result(node, <<>>),
               [type |-> "peers", for |-> Head(asked).for, peers |-> node.peers])

GetConfig ==
    /\ Asks("getConfig")
    /\ Answers(Result(node, <<>>),
               [type |-> "config", for |-> Head(asked).for, config |-> Config(node),
                seen |-> Head(asked).seen])

MainProcess ==
    \/ SetTeam \/ Ready \/ Unready \/ SetConfig \/ AcceptConfig \/ CastVote
    \/ CastResignVote \/ Reset \/ GetState \/ GetPeers \/ GetConfig

-----------------------------------------------------------------------------
(* The store: its operations, on a store s.                                *)

NoResign == [yes |-> 0, voted |-> FALSE]
EmptyStore == [phase |-> "waiting_for_side", team |-> NoSide, version |-> 0,
               config |-> Default, form |-> Default.resign, self |-> TRUE, accepted |-> {},
               window |-> NoWindow, resign |-> NoResign, peers |-> [p \in Peer |-> Gone]]

UpsertPeer(s, p) == [s EXCEPT !.peers[p] = Here(@.team, FALSE)]
UpdatePeerTeam(s, p, t) == IF s.peers[p].here THEN [s EXCEPT !.peers[p].team = t] ELSE s
UpdatePeerReady(s, p, r) == IF s.peers[p].here THEN [s EXCEPT !.peers[p].ready = r] ELSE s
RemovePeer(s, p)    == [s EXCEPT !.peers[p] = Gone]
SetPeers(s, ps)     == [s EXCEPT !.peers = ps]

\* The lobby appears with the resign part that is shown then in its form; NaN is
\* what it computes from undefined.
Filled(r) == IF r = Undefined THEN NaN ELSE r

ApplySnapshot(s, g) ==
    [s EXCEPT !.phase = g.phase, !.team = g.team,
              !.form = IF s.phase = "waiting_for_side" /\ g.phase # s.phase
                       THEN Filled(s.config.resign) ELSE @]

\* setStarting, setStarted: our side as given, unless none is.
SetPhase(s, phase, t) == [s EXCEPT !.phase = phase, !.team = IF t = NoSide THEN @ ELSE t]

\* Mutant: the vote that was open is still shown.
SetGameOverOnly(s) == [s EXCEPT !.phase = "finished"]

\* setGameOver, closeVotingWindow and closeResignVote.
SetGameOver(s) == [s EXCEPT !.phase = "finished", !.window = NoWindow, !.resign = NoResign]

\* resetGame leaves the peers as they were.
ResetGame(s) == [EmptyStore EXCEPT !.peers = s.peers]

ApplyConfigSnapshot(s, c) ==
    [s EXCEPT !.config = c.config, !.version = c.version, !.self = c.self,
              !.accepted = c.accepted]

\* Mutant: who accepted the settings before is still shown to accept.
SetConfigOnly(s, c, v, proposer) ==
    [s EXCEPT !.config = c, !.version = v, !.self = FALSE, !.accepted = @ \cup {proposer}]

SetConfigUpdated(s, c, v, proposer) ==
    [s EXCEPT !.config = c, !.version = v, !.self = FALSE, !.accepted = {proposer}]

SetSelfAccepted(s, v) == IF s.version = v THEN [s EXCEPT !.self = TRUE] ELSE s

AddPeerAccepted(s, p) == [s EXCEPT !.accepted = @ \cup {p}]

OpenVotingWindow(s, t) == [s EXCEPT !.window = NewWindow(t, 0)]
AddVote(s, p)    == IF s.window = NoWindow THEN s ELSE [s EXCEPT !.window.votes = @ \cup {p}]

ApplyRevote(s, t) == IF s.window.turn = t THEN [s EXCEPT !.window.votes = {}] ELSE s

\* Whoever opened the resign vote.
OpenResignVote(s)      == [s EXCEPT !.resign = [yes |-> 1, voted |-> TRUE]]
UpdateResignVote(s, n) == IF s.resign = NoResign THEN s ELSE [s EXCEPT !.resign.yes = n]

\* The subscriptions of useChessDemocracy.
OnPush(s, m) ==
    CASE m.type = "peer:joined"          -> UpsertPeer(s, m.peer)
      [] m.type = "peer:left"            -> RemovePeer(s, m.peer)
      [] m.type = "peer:team_updated"    -> UpdatePeerTeam(s, m.peer, m.team)
      [] m.type = "peer:ready_changed"   -> UpdatePeerReady(s, m.peer, m.ready)
      [] m.type = "game:starting"        -> SetPhase(s, "starting", m.team)
      [] m.type = "game:started"         -> SetPhase(s, "in_progress", m.team)
      [] m.type = "game:over"            -> SetGameOver(s)
      [] m.type = "game:reset"           -> ResetGame(s)
      [] m.type = "config:updated"       -> SetConfigUpdated(s, m.config, m.version, m.proposer)
      [] m.type = "config:peer_accepted" -> AddPeerAccepted(s, m.peer)
      [] m.type = "config:self_accepted" -> SetSelfAccepted(s, m.version)
      [] m.type = "vote:window_opened"   -> OpenVotingWindow(s, m.turn)
      [] m.type = "vote:received"        -> AddVote(s, m.peer)
      [] m.type = "tally:done"           -> [s EXCEPT !.window = NoWindow]
      [] m.type = "revote:started"       -> ApplyRevote(s, m.turn)
      [] m.type = "resign:vote_started"  -> OpenResignVote(s)
      [] m.type = "resign:vote_updated"  -> UpdateResignVote(s, m.yes)
      [] m.type = "resign:vote_expired"  -> [s EXCEPT !.resign = NoResign]

Answer == {"connected", "done", "state", "peers", "config"}
Hears  == told # <<>>
IsPush == Hears /\ Head(told).type \notin Answer

\* Mutant: the list is not asked for again.
PushIsShownOnly ==
    /\ IsPush
    /\ told' = Tail(told)
    /\ store' = OnPush(store, Head(told))
    /\ UNCHANGED <<node, asked, got, joined, refreshes, busy, again, events, clicks>>

\* Who joins has more to say: the list is asked for again half a second later.
PushIsShown ==
    /\ IsPush
    /\ told' = Tail(told)
    /\ store' = OnPush(store, Head(told))
    /\ refreshes' = refreshes + (IF Head(told).type = "peer:joined" THEN 1 ELSE 0)
    /\ UNCHANGED <<node, asked, got, joined, busy, again, events, clicks>>

\* The timer.  It is due when joining is over, which takes less than 500 ms.
RefreshIsDue ==
    /\ joined /\ refreshes > 0
    /\ refreshes' = refreshes - 1
    /\ asked' = Append(asked, Request("getPeers", "refresh"))
    /\ UNCHANGED <<node, store, told, got, joined, busy, again, events, clicks>>

-----------------------------------------------------------------------------
(* Answers, and what the handler that waits for each does next.            *)

AnswerTo(type, for) == Hears /\ Head(told).type = type /\ Head(told).for = for
More(requests) == asked' = asked \o requests /\ told' = Tail(told)

\* joinNetwork: connected, and hydrateFromNode asks for everything at once.
Connected ==
    /\ Hears /\ Head(told).type = "connected"
    /\ More(<<Request("getState", "join"), Request("getPeers", "join"),
              Request("getConfig", "join")>>)
    /\ UNCHANGED <<node, store, got, joined, refreshes, busy, again, events, clicks>>

\* Its answers wait for the last one and are applied together.
AnswerIsHeld ==
    /\ AnswerTo("state", "join") \/ AnswerTo("peers", "join")
    /\ got' = Append(got, Head(told))
    /\ More(<<>>)
    /\ UNCHANGED <<node, store, joined, refreshes, busy, again, events, clicks>>

Hydrated ==
    /\ AnswerTo("config", "join")
    /\ store' = ApplyConfigSnapshot(
           SetPeers(ApplySnapshot(store, got[1].state), got[2].peers), Head(told).config)
    /\ joined' = TRUE
    /\ got' = <<>>
    /\ More(<<>>)
    /\ UNCHANGED <<node, refreshes, busy, again, events, clicks>>

PeersAreShown ==
    /\ AnswerTo("peers", "refresh")
    /\ store' = SetPeers(store, Head(told).peers)
    /\ More(<<>>)
    /\ UNCHANGED <<node, got, joined, refreshes, busy, again, events, clicks>>

\* A side, Ready, Unready: done, now show the state; or refused.
StateIsAskedFor(button) ==
    /\ AnswerTo("done", button)
    /\ IF Head(told).ok
       THEN More(<<Request("getState", button)>>) /\ UNCHANGED busy
       ELSE More(<<>>) /\ busy' = busy \ {button}
    /\ UNCHANGED <<node, store, got, joined, refreshes, again, events, clicks>>

StateIsShown(button) ==
    /\ AnswerTo("state", button)
    /\ store' = ApplySnapshot(store, Head(told).state)
    /\ busy' = busy \ {button}
    /\ More(<<>>)
    /\ UNCHANGED <<node, got, joined, refreshes, again, events, clicks>>

\* handleProposeConfig: done, now get the settings.
ConfigIsAskedFor ==
    /\ AnswerTo("done", "propose")
    /\ IF Head(told).ok
       THEN /\ More(<<[ask |-> "getConfig", for |-> "propose", seen |-> Head(told).seen]>>)
            /\ UNCHANGED busy
       ELSE More(<<>>) /\ busy' = busy \ {"propose"}
    /\ UNCHANGED <<node, store, got, joined, refreshes, again, events, clicks>>

\* ... and mark the version after the one on screen at the click as accepted.
ConfigIsShown ==
    /\ AnswerTo("config", "propose")
    /\ store' = SetSelfAccepted(ApplyConfigSnapshot(store, Head(told).config),
                                Head(told).seen + 1)
    /\ busy' = busy \ {"propose"}
    /\ More(<<>>)
    /\ UNCHANGED <<node, got, joined, refreshes, again, events, clicks>>

\* handleAcceptConfig: what was on screen at the click is accepted.
AcceptIsShown ==
    /\ AnswerTo("done", "accept")
    /\ store' = IF Head(told).ok THEN SetSelfAccepted(store, Head(told).seen) ELSE store
    /\ busy' = busy \ {"accept"}
    /\ More(<<>>)
    /\ UNCHANGED <<node, got, joined, refreshes, again, events, clicks>>

\* The rest is left to the pushes; Play again resets the store itself.
ClickIsDone(button) ==
    /\ AnswerTo("done", button)
    /\ store' = IF button = "again" THEN ResetGame(store) ELSE store
    /\ busy' = busy \ {button}
    /\ More(<<>>)
    /\ UNCHANGED <<node, got, joined, refreshes, again, events, clicks>>

Renderer ==
    \/ PushIsShown \/ RefreshIsDue
    \/ Connected \/ AnswerIsHeld \/ Hydrated \/ PeersAreShown
    \/ \E button \in {"side", "ready", "unready"} :
          StateIsAskedFor(button) \/ StateIsShown(button)
    \/ ConfigIsAskedFor \/ ConfigIsShown \/ AcceptIsShown
    \/ \E button \in {"vote", "resign", "again"} : ClickIsDone(button)

-----------------------------------------------------------------------------
(* Clicks, on the screen that App shows for the phase in the store.        *)

Click(button, request) ==
    /\ joined /\ clicks < MaxClicks
    /\ button \notin busy \ {"unready", "resign", "again"}   \* these stay clickable
    /\ clicks' = clicks + 1
    /\ busy' = busy \cup {button}
    /\ asked' = Append(asked, request)
    /\ UNCHANGED <<node, store, told, got, joined, refreshes, events>>

\* BootScreen's choose, LobbyScreen's handleSwitchSide.
ClickSide(t) ==
    /\ store.phase \in Lobby /\ store.team # t
    /\ Click("side", [ask |-> "setTeam", for |-> "side", seen |-> 0, team |-> t])
    /\ UNCHANGED again

ClickReady ==
    /\ store.phase = "waiting_for_ready"
    /\ Click("ready", Request("ready", "ready"))
    /\ UNCHANGED again

ClickUnready ==
    /\ store.phase = "waiting_for_peers"
    /\ Click("unready", Request("unready", "unready"))
    /\ UNCHANGED again

\* What the lobby's form may hold: a resign part that is no number stays as it is
\* until the player enters one.
Forms == Settings \cup {Except(c, store.form) : c \in {d \in Settings : store.form \in NoNumber}}

ClickPropose(c) ==
    /\ store.phase = "waiting_for_ready"
    /\ Click("propose", [ask |-> "setConfig", for |-> "propose", config |-> c,
                         seen |-> store.version])
    /\ UNCHANGED again

ClickAccept ==
    /\ store.phase = "waiting_for_ready" /\ ~store.self
    /\ Click("accept", [ask |-> "acceptConfig", for |-> "accept", seen |-> store.version])
    /\ UNCHANGED again

\* handleCastVote.
ClickVote ==
    /\ store.phase = "in_progress" /\ store.window # NoWindow
    /\ Mover(store.window) = store.team /\ Self \notin store.window.votes
    /\ Click("vote", Request("castVote", "vote"))
    /\ UNCHANGED again

\* The button is off once the screen says we voted.
ClickResign ==
    /\ store.phase = "in_progress" /\ ~store.resign.voted
    /\ Click("resign", Request("resign", "resign"))
    /\ UNCHANGED again

ClickPlayAgain ==
    /\ store.phase = "finished"
    /\ Click("again", Request("reset", "again"))
    /\ again' = TRUE

Clicks ==
    \/ \E t \in Side : ClickSide(t)
    \/ ClickReady \/ ClickUnready
    \/ \E c \in Forms : ClickPropose(c)
    \/ ClickAccept \/ ClickVote \/ ClickResign \/ ClickPlayAgain

-----------------------------------------------------------------------------
\* The app has just connected its node, and nobody is there yet.
Connecting ==
    /\ node = NewNode
    /\ told = <<[type |-> "connected"]>>
    /\ store = EmptyStore
    /\ joined = FALSE

\* Or the screen is up to date, in the lobby or in a game, with the player on white
\* and the others on the sides in `sides`.
Shown(phase, window, sides, accepted) ==
    LET ps == [p \in Peer |-> Here(sides[p], phase = "in_progress")]
    IN  /\ node = [NewNode EXCEPT !.phase = phase, !.team = "white", !.peers = ps,
                       !.hs.accepted = [p \in Peer |-> IF p \in accepted THEN 0 ELSE H!None],
                       !.roster = IF phase = "in_progress" THEN sides ELSE @,
                       !.window = window]
        /\ store = [EmptyStore EXCEPT !.phase = phase, !.team = "white", !.peers = ps,
                        !.accepted = accepted, !.window = window]
        /\ told = <<>>
        /\ joined = TRUE

Init ==
    /\ \/ Connecting
       \/ \E sides \in [Peer -> Side] :
             /\ \A t \in Side : \E p \in Peer : sides[p] = t
             /\ \/ Shown("waiting_for_ready", NoWindow, sides, Peer)
                \/ Shown("in_progress", NewWindow(0, 0), sides, Peer)
    /\ asked = <<>> /\ got = <<>>
    /\ refreshes = 0 /\ busy = {} /\ again = FALSE
    /\ events = 0 /\ clicks = 0

Next == Events \/ MainProcess \/ Renderer \/ Clicks

Spec == Init /\ [][Next]_vars

-----------------------------------------------------------------------------
(* Properties.                                                             *)

\* The types, and that a vote is on the screen only during a game.
TypeOK ==
    /\ node.phase \in Phase /\ store.phase \in Phase
    /\ {node.team, store.team} \subseteq Side \cup {NoSide}
    /\ node.peers \in Peers /\ store.peers \in Peers
    /\ node.hs \in H!Handshake
    /\ store.version \in Nat /\ store.config \in AnySettings
    /\ store.self \in BOOLEAN /\ store.accepted \subseteq Peer \cup {Self}
    /\ node.resign \subseteq Peer \cup {Self}
    /\ store.resign \in [yes : 0..(Cardinality(Peer) + 1), voted : BOOLEAN]
    /\ store.window # NoWindow => store.phase = "in_progress"
    /\ store.resign # NoResign => store.phase = "in_progress"

\* Nothing is on its way to or from the screen.
Quiet == joined /\ told = <<>> /\ asked = <<>> /\ refreshes = 0

\* The screen ends up with the players that are connected, whoever came or left
\* while the answers that fill it were under way, and, unless the player has
\* played again (which forgets them in the node only), with their sides and who
\* is ready.
ShowsThePeers ==
    Quiet => /\ Present(store.peers) = Present(node.peers)
             /\ ~again => store.peers = node.peers

\* ... with the phase and side of our own node, so that App shows the screen whose
\* buttons the node will obey, and with the vote that is open and who voted in it.
ShowsTheGame ==
    Quiet => /\ store.phase = node.phase /\ store.team = node.team
             /\ store.window.turn = node.window.turn
             /\ store.window.votes = node.window.votes

\* ... with the settings of the vote that are in force, and no player is shown to
\* have accepted them who has not accepted them, or later ones that have not arrived.
ShowsTheSettings ==
    Quiet => /\ store.version = node.hs.version
             /\ store.config.vote = node.hs.config.vote
             /\ \A p \in store.accepted \cap Peer : node.hs.accepted[p] >= node.hs.version

\* ... and with as many votes to resign as the node has.
CountsResignVotes == Quiet => store.resign.yes = Cardinality(node.resign)

\* Settings that the node proposes are checked: they are numbers in range.  (NaN does
\* not come over the network.)
ProposesNumbers == node.hs.config.resign # NaN

=============================================================================
