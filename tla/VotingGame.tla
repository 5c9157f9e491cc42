----------------------------- MODULE VotingGame -----------------------------
(***************************************************************************)
(* The game in progress, as the nodes of a game run it between them        *)
(* (core/node.ts): players vote for their side's move, the master counts   *)
(* and publishes, the others recount and apply, players drop out and come  *)
(* back, and a returning player is brought up to date by a snapshot.       *)
(*                                                                         *)
(* Each node is a record; a handler of the code is an operator from the    *)
(* node's record to [node |-> new record, out |-> messages broadcast].     *)
(* Every roster is the same, Node itself: the lobby's work, modelled       *)
(* elsewhere.  A position is the history that leads to it (the code's FEN);*)
(* Legal and GameEnds stand for chess.js.  Clocks are left out: a window   *)
(* may close at any time after it opens, and a node's clock only decides   *)
(* whether its own window (the scheduled close plus the grace) is over.    *)
(***************************************************************************)
EXTENDS Integers, Sequences, Roster, VoteTally

CONSTANTS Legal(_),       \* the legal moves after a history
          GameEnds(_),    \* does the engine end the game at this history?
          MaxRevotes,     \* the setting of that name
          MayDrop,        \* the links that may fail
          MaxDrops,       \* bound: how many times links fail
          MayRestart,     \* the players that may restart their app
          StartSkew,      \* may the countdown end later on some nodes?
          MoveTimeouts    \* can the per-turn limit run out?

ASSUME NodeAssumption == Node \subseteq Nat /\ IsFiniteSet(Node)
ASSUME TeamAssumption == Team \in [Node -> {"white", "black"}]
ASSUME MoveAssumption == Move \subseteq Nat /\ NoVote \notin Move
ASSUME RevoteAssumption == MaxRevotes \in Nat
ASSUME NewGameAssumption == ~GameEnds(<<>>)
ASSUME FaultAssumption ==
    /\ MaxDrops \in Nat
    /\ MayRestart \subseteq Node
    /\ MayDrop \subseteq SUBSET Node
    /\ StartSkew \in BOOLEAN /\ MoveTimeouts \in BOOLEAN

VARIABLES
    node,     \* node[n]: the game as n sees it
    peers,    \* peers[n]: the players n has in its peer table
    up,       \* the links between players that work, as pairs {a, b}
    net,      \* net[<<m, n>>]: messages from m that n has not handled, in order
    cast,     \* every vote ever cast: what its voter meant (history variable)
    drops     \* how many links have failed so far (bounds the model)

vars == <<node, peers, up, net, cast, drops>>

Phases  == {"lobby", "starting", "in_progress", "finished"}
Results == {"none", "engine", "revotes_exhausted", "desync", "timeout"}

NodeState ==
    [phase    : Phases,
     result   : Results,
     history  : Seq(Move),
     round    : Nat,          \* which vote on this turn: 0, then 1 per revote
     votes    : Votes,        \* the signed votes held for the open window
     closed   : BOOLEAN,      \* the window's close plus the grace has passed
     settling : BOOLEAN]      \* a returning player's state is being exchanged

VoteMsg     == [type : {"vote"}, turn : Nat, round : Nat, move : Move]
TallyMsg    == [type : {"tally_result"}, before : Seq(Move), round : Nat,
                outcome : {"winner", "no_majority", "no_votes"},
                move : Move \cup {NoVote}, votes : Votes]
SnapshotMsg == [type : {"game_snapshot"}, moves : Seq(Move), round : Nat,
                votes : Votes]
GameOverMsg == [type : {"game_over"}]    \* reason "timeout": see MoveTimeout

Message == VoteMsg \cup TallyMsg \cup SnapshotMsg \cup GameOverMsg

Min2(i, j)  == IF i <= j THEN i ELSE j
SideToMove(history) == IF Len(history) % 2 = 0 THEN "white" ELSE "black"

\* Us and everyone we are connected to.
Connected(n, ps) == {n} \cup ps

-----------------------------------------------------------------------------
(* Windows, counting and applying: what the handlers below are made of.    *)

\* Mutant: the votes of the last window are not cleared.
OpenWindowKeepingVotes(s, history, round) ==
    [s EXCEPT !.history = history, !.round = round, !.closed = FALSE]

\* openVotingWindow: a fresh window for the position after `history`.
OpenWindow(s, history, round) ==
    [s EXCEPT !.history = history, !.round = round,
              !.votes = NoVotes, !.closed = FALSE]

\* endGame: the open window and its timers are gone, and with them the use of
\* the settling time.
EndGame(s, why) ==
    [s EXCEPT !.phase = "finished", !.result = why, !.round = 0,
              !.votes = NoVotes, !.closed = FALSE, !.settling = FALSE]

\* A move is played: the engine ends the game, or the next window opens.
PlayMove(s, move) ==
    LET history == Append(s.history, move)
    IN  IF GameEnds(history)
        THEN [EndGame(s, "engine") EXCEPT !.history = history]
        ELSE OpenWindow(s, history, 0)

\* Mutants: one revote too many; the round number does not move on.
MaybeRevoteOnceMore(s) ==
    IF s.round > MaxRevotes
    THEN EndGame(s, "revotes_exhausted")
    ELSE OpenWindow(s, s.history, s.round + 1)

MaybeRevoteSameRound(s) ==
    IF s.round >= MaxRevotes
    THEN EndGame(s, "revotes_exhausted")
    ELSE OpenWindow(s, s.history, s.round)

\* maybeRevote: vote again on the same turn, or give the game up.
MaybeRevote(s) ==
    IF s.round >= MaxRevotes
    THEN EndGame(s, "revotes_exhausted")
    ELSE OpenWindow(s, s.history, s.round + 1)

ApplyTally(s, tally) ==
    IF tally.outcome = "winner" THEN PlayMove(s, tally.move) ELSE MaybeRevote(s)

TallyClaim(s) ==
    [type    |-> "tally_result",
     before  |-> s.history,
     round   |-> s.round,
     outcome |-> TallyMoves(s.votes).outcome,
     move    |-> TallyMoves(s.votes).move,
     votes   |-> s.votes]

\* Mutant: the tally is applied first, then published from the new state.
CountThenPublish(s) ==
    LET t == ApplyTally(s, TallyMoves(s.votes))
    IN  [node |-> t, out |-> <<TallyClaim(t)>>]

CountAndPublish(s) ==
    [node |-> ApplyTally(s, TallyMoves(s.votes)), out |-> <<TallyClaim(s)>>]

Silent(s) == [node |-> s, out |-> <<>>]

\* n is the one who counts: master, with enough players connected, and not
\* waiting for a returning player's state.
MayCount(n, s, ps) ==
    /\ ~s.settling
    /\ HasQuorum(Node, Connected(n, ps))
    /\ IsMaster(n, Node, Connected(n, ps))

\* Every connected player on the side to move has voted, and there is one.
EveryoneVoted(n, s, ps) ==
    LET voters == {v \in Playing(Node, Connected(n, ps)) :
                       Team[v] = SideToMove(s.history)}
    IN  voters # {} /\ voters \subseteq Voters(s.votes)

CountIfEveryoneVoted(n, s, ps) ==
    IF s.phase = "in_progress" /\ MayCount(n, s, ps) /\ EveryoneVoted(n, s, ps)
    THEN CountAndPublish(s)
    ELSE Silent(s)

-----------------------------------------------------------------------------
(* Messages from a peer p, as n in state s with peers ps handles them.     *)

\* Mutant: a vote of an earlier round of the turn is let in.
HandleVoteOfAnyRound(n, s, ps, p, msg) ==
    IF /\ s.phase = "in_progress"
       /\ msg.turn = Len(s.history)
       /\ CheckVote(p, msg.move, SideToMove(s.history), Legal(s.history))
       /\ ~s.closed
       /\ s.votes[p] = NoVote
    THEN CountIfEveryoneVoted(n, [s EXCEPT !.votes[p] = msg.move], ps)
    ELSE Silent(s)

HandleVote(n, s, ps, p, msg) ==
    IF /\ s.phase = "in_progress"
       /\ msg.turn = Len(s.history)
       /\ msg.round = s.round
       /\ CheckVote(p, msg.move, SideToMove(s.history), Legal(s.history))
       /\ ~s.closed
       /\ s.votes[p] = NoVote
    THEN CountIfEveryoneVoted(n, [s EXCEPT !.votes[p] = msg.move], ps)
    ELSE Silent(s)

\* Mutant: the votes recounted are the node's own, not those of the tally.
RecountOwnVotes(n, s, ps, p, claim) ==
    IF \/ s.phase # "in_progress"
       \/ ~IsMaster(p, Node, Connected(n, ps))
       \/ Len(claim.before) # Len(s.history)
       \/ claim.round # s.round
    THEN Silent(s)
    ELSE Silent(ApplyTally(s, TallyMoves(s.votes)))

HandleTallyResult(n, s, ps, p, claim) ==
    IF \/ s.phase # "in_progress"
       \/ ~IsMaster(p, Node, Connected(n, ps))
       \/ Len(claim.before) # Len(s.history)
       \/ claim.round # s.round
    THEN Silent(s)
    ELSE IF VerifyTally(claim, s.history, SideToMove(s.history), Legal(s.history))
         THEN Silent(ApplyTally(s, TallyMoves(claim.votes)))
         ELSE Silent(EndGame(s, "desync"))

HistoriesDiffer(h, k) == \E i \in 1..Min2(Len(h), Len(k)) : h[i] # k[i]

\* Mutant: a snapshot of the window we are in reopens it.
ShowsAsMuch(s, snap) ==
    \/ Len(snap.moves) > Len(s.history)
    \/ Len(snap.moves) = Len(s.history) /\ snap.round >= s.round

\* The snapshot shows moves we have not played, or a later round of our turn.
ShowsMore(s, snap) ==
    \/ Len(snap.moves) > Len(s.history)
    \/ Len(snap.moves) = Len(s.history) /\ snap.round > s.round

\* Votes of a snapshot for the window we are in that never reached us.
MergeVotes(s, votes) ==
    [s EXCEPT !.votes = [v \in Node |->
        IF /\ s.votes[v] = NoVote
           /\ votes[v] # NoVote
           /\ CheckVote(v, votes[v], SideToMove(s.history), Legal(s.history))
        THEN votes[v] ELSE s.votes[v]]]

HandleGameSnapshot(n, s, ps, snap) ==
    IF s.phase # "in_progress" THEN Silent(s)
    ELSE IF HistoriesDiffer(s.history, snap.moves) THEN Silent(EndGame(s, "desync"))
    ELSE IF Len(snap.moves) < Len(s.history) THEN Silent(s)
    ELSE LET caught == IF ShowsMore(s, snap)
                       THEN OpenWindow(s, snap.moves, snap.round) ELSE s
         IN  IF caught.round = snap.round
             THEN CountIfEveryoneVoted(n, MergeVotes(caught, snap.votes), ps)
             ELSE Silent(caught)

\* A peer's move timeout is believed only when our own limit is nearly up
\* too, which it never is before our window has closed.
HandleGameOver(s, believed) ==
    IF s.phase = "in_progress" /\ s.closed /\ believed
    THEN Silent(EndGame(s, "timeout"))
    ELSE Silent(s)

Handled(n, s, ps, p, msg, believed) ==
    CASE msg.type = "vote"          -> HandleVote(n, s, ps, p, msg)
      [] msg.type = "tally_result"  -> HandleTallyResult(n, s, ps, p, msg)
      [] msg.type = "game_snapshot" -> HandleGameSnapshot(n, s, ps, msg)
      [] msg.type = "game_over"     -> HandleGameOver(s, believed)

-----------------------------------------------------------------------------
(* Sending.  A packet goes to every peer in the table whose connection is  *)
(* open; on a dead connection it is lost without a trace.                  *)

Links == {l \in SUBSET Node : Cardinality(l) = 2}

Sent(queues, n, ps, out) ==
    [c \in Node \X Node |->
        IF c[1] = n /\ c[2] \in ps /\ {n, c[2]} \in up
        THEN queues[c] \o out ELSE queues[c]]

\* n's state becomes r.node, and r.out is broadcast to ps over `queues`.
Do(n, r, queues, ps) ==
    /\ node' = [node EXCEPT ![n] = r.node]
    /\ net' = Sent(queues, n, ps, r.out)

SnapshotOf(s) ==
    [type |-> "game_snapshot", moves |-> s.history, round |-> s.round,
     votes |-> s.votes]

-----------------------------------------------------------------------------
(* The players, the timers and the network.                                *)

\* The countdown runs out on n: the first window opens.
Begin(n) ==
    /\ node[n].phase = "starting"
    /\ node' = [node EXCEPT ![n] =
                   OpenWindow([@ EXCEPT !.phase = "in_progress"], <<>>, 0)]
    /\ UNCHANGED <<peers, up, net, cast, drops>>

\* Mutant: a player may vote again while the window is open.
CastVoteAgain(n, move) ==
    LET s     == node[n]
        msg   == [type |-> "vote", turn |-> Len(s.history), round |-> s.round,
                  move |-> move]
        count == CountIfEveryoneVoted(n, [s EXCEPT !.votes[n] = move], peers[n])
    IN  /\ s.phase = "in_progress"
        /\ CheckVote(n, move, SideToMove(s.history), Legal(s.history))
        /\ ~s.closed
        /\ Do(n, [count EXCEPT !.out = <<msg>> \o @], net, peers[n])
        /\ cast' = cast \cup {[voter |-> n, before |-> s.history,
                               round |-> s.round, move |-> move]}
        /\ UNCHANGED <<peers, up, drops>>

CastVote(n, move) ==
    LET s     == node[n]
        msg   == [type |-> "vote", turn |-> Len(s.history), round |-> s.round,
                  move |-> move]
        count == CountIfEveryoneVoted(n, [s EXCEPT !.votes[n] = move], peers[n])
    IN  /\ s.phase = "in_progress"
        /\ CheckVote(n, move, SideToMove(s.history), Legal(s.history))
        /\ ~s.closed
        /\ s.votes[n] = NoVote
        /\ Do(n, [count EXCEPT !.out = <<msg>> \o @], net, peers[n])
        /\ cast' = cast \cup {[voter |-> n, before |-> s.history,
                               round |-> s.round, move |-> move]}
        /\ UNCHANGED <<peers, up, drops>>

\* The window's close plus the grace passes on n's clock.
WindowCloses(n) ==
    /\ node[n].phase = "in_progress"
    /\ ~node[n].closed
    /\ node' = [node EXCEPT ![n].closed = TRUE]
    /\ UNCHANGED <<peers, up, net, cast, drops>>

\* onTallyDue on the node that counts; on any other it only re-arms its timer.
TallyDue(n) ==
    /\ node[n].phase = "in_progress"
    /\ node[n].closed
    /\ MayCount(n, node[n], peers[n])
    /\ Do(n, CountAndPublish(node[n]), net, peers[n])
    /\ UNCHANGED <<peers, up, cast, drops>>

\* The two seconds after a player came back are over.
GraceOver(n) ==
    /\ node[n].phase = "in_progress"
    /\ node[n].settling
    /\ node' = [node EXCEPT ![n].settling = FALSE]
    /\ UNCHANGED <<peers, up, net, cast, drops>>

\* No move within the limit: n ends the game and tells the others.  The limit
\* covers every round of the turn and ten seconds more, so it never runs out
\* before the window in hand has closed.
MoveTimeout(n) ==
    /\ MoveTimeouts
    /\ node[n].phase = "in_progress"
    /\ node[n].closed
    /\ Do(n, [node |-> EndGame(node[n], "timeout"),
              out  |-> <<[type |-> "game_over"]>>], net, peers[n])
    /\ UNCHANGED <<peers, up, cast, drops>>

Receive(p, n) ==
    /\ p \in peers[n]
    /\ net[<<p, n>>] # <<>>
    /\ \E believed \in IF Head(net[<<p, n>>]).type = "game_over"
                       THEN BOOLEAN ELSE {TRUE} :
           Do(n, Handled(n, node[n], peers[n], p, Head(net[<<p, n>>]), believed),
              [net EXCEPT ![<<p, n>>] = Tail(@)], peers[n])
    /\ UNCHANGED <<peers, up, cast, drops>>

\* A link fails.  What was under way may still be read; what is sent later is lost.
LinkFails(l) ==
    /\ l \in up
    /\ drops < MaxDrops
    /\ up' = up \ {l}
    /\ drops' = drops + 1
    /\ UNCHANGED <<node, peers, net, cast>>

\* n notices that its connection to p is gone.
PeerDisconnects(n, p) ==
    /\ p \in peers[n]
    /\ {n, p} \notin up
    /\ peers' = [peers EXCEPT ![n] = @ \ {p}]
    /\ Do(n, CountIfEveryoneVoted(n, node[n], peers[n] \ {p}),
          [net EXCEPT ![<<p, n>>] = <<>>], peers[n] \ {p})
    /\ UNCHANGED <<up, cast, drops>>

\* Two players that lost each other connect again.
LinkReturns(l) ==
    /\ l \in Links \ up
    /\ \A a, b \in l : b \notin peers[a]
    /\ up' = up \cup {l}
    /\ net' = [c \in Node \X Node |-> IF {c[1], c[2]} = l THEN <<>> ELSE net[c]]
    /\ UNCHANGED <<node, peers, cast, drops>>

\* n adds p once the handshake is done.  In a game, n tells p where the game
\* stands and holds off counting until p has told it the same.
AddPeer(n, p) ==
    /\ {n, p} \in up
    /\ p # n
    /\ p \notin peers[n]
    /\ peers' = [peers EXCEPT ![n] = @ \cup {p}]
    /\ IF node[n].phase = "in_progress"
       THEN Do(n, [node |-> [node[n] EXCEPT !.settling = TRUE],
                   out  |-> <<SnapshotOf(node[n])>>], net, {p})
       ELSE UNCHANGED <<node, net>>
    /\ UNCHANGED <<up, cast, drops>>

\* n's app restarts with the same key: it comes up in the lobby, knowing
\* nothing of the game, and every link it had is gone.
Restart(n) ==
    /\ n \in MayRestart
    /\ node[n].phase = "in_progress"
    /\ node' = [node EXCEPT ![n] = [EndGame(@, "none") EXCEPT
                                       !.phase = "lobby", !.history = <<>>]]
    /\ peers' = [peers EXCEPT ![n] = {}]
    /\ up' = {l \in up : n \notin l}
    /\ net' = [c \in Node \X Node |-> IF c[2] = n THEN <<>> ELSE net[c]]
    /\ UNCHANGED <<cast, drops>>

-----------------------------------------------------------------------------
\* Every player has the roster and the master's game_start and is connected to
\* everyone.  The countdown is still running on every node, or is over on all.
Init ==
    /\ node = [n \in Node |->
                  [phase |-> IF StartSkew THEN "starting" ELSE "in_progress",
                   result |-> "none", history |-> <<>>,
                   round |-> 0, votes |-> NoVotes, closed |-> FALSE,
                   settling |-> FALSE]]
    /\ peers = [n \in Node |-> Node \ {n}]
    /\ up = Links
    /\ net = [c \in Node \X Node |-> <<>>]
    /\ cast = {}
    /\ drops = 0

Next ==
    \/ \E n \in Node : Begin(n)
    \/ \E n \in Node, move \in Move : CastVote(n, move)
    \/ \E n \in Node : WindowCloses(n)
    \/ \E n \in Node : TallyDue(n)
    \/ \E n \in Node : GraceOver(n)
    \/ \E n \in Node : MoveTimeout(n)
    \/ \E n, p \in Node : Receive(p, n)
    \/ \E l \in MayDrop : LinkFails(l)
    \/ \E n, p \in Node : PeerDisconnects(n, p)
    \/ \E l \in Links : LinkReturns(l)
    \/ \E n, p \in Node : AddPeer(n, p)
    \/ \E n \in Node : Restart(n)

Spec == Init /\ [][Next]_vars

(* Fairness.  The event loop runs every timer that is due and handles every *)
(* message that has arrived, and a connection's end is reported sooner or   *)
(* later (by its socket, or by the sweep for silent peers).  Players need   *)
(* not vote, and nothing makes a failed link come back.                     *)
Fairness ==
    \A n \in Node :
        /\ WF_vars(Begin(n)) /\ WF_vars(WindowCloses(n)) /\ WF_vars(TallyDue(n))
        /\ WF_vars(GraceOver(n)) /\ WF_vars(MoveTimeout(n))
        /\ \A p \in Node : /\ WF_vars(Receive(p, n))
                           /\ WF_vars(PeerDisconnects(n, p))
                           /\ WF_vars(AddPeer(n, p))

FairSpec == Spec /\ Fairness

-----------------------------------------------------------------------------
(* Properties.                                                             *)

TypeOK ==
    /\ node \in [Node -> NodeState]
    /\ peers \in [Node -> SUBSET Node]
    /\ up \subseteq Links
    /\ net \in [Node \X Node -> Seq(Message)]
    /\ cast \subseteq [voter : Node, before : Seq(Move), round : Nat, move : Move]
    /\ drops \in Nat

InPrefix(h, k) == Len(h) <= Len(k) /\ \A i \in 1..Len(h) : h[i] = k[i]

\* A player casts at most one vote on a turn and round, whatever it misses,
\* catches up with or loses in between (the duplicate check of castVote and
\* the rounds that keep a late vote out of the next window).
OneVotePerRound ==
    \A c, d \in cast :
        /\ c.voter = d.voter
        /\ Len(c.before) = Len(d.before)
        /\ c.round = d.round
        => c = d

\* In state s of its voter, vote c is in hand, or its window is gone.
HoldsVote(s, c) ==
    /\ s.phase # "starting"
    /\ s.phase = "in_progress" =>
          \/ Len(c.before) < Len(s.history)
          \/ /\ Len(c.before) = Len(s.history)
             /\ \/ c.round < s.round
                \/ c.round = s.round /\ s.votes[c.voter] = c.move

\* A player holds the vote it cast until its game is past that window: nothing
\* it misses or catches up with makes it forget, or takes it back to a window
\* it voted in.  This is why OneVotePerRound holds.
HoldsItsVotes == \A c \in cast : HoldsVote(node[c.voter], c)

\* Every vote a node holds for its open window was cast by that voter for
\* this turn and this round, even after splits and snapshots.
GenuineVotes ==
    \A n \in Node : \A v \in Voters(node[n].votes) :
        \E c \in cast : /\ c.voter = v
                        /\ Len(c.before) = Len(node[n].history)
                        /\ c.round = node[n].round
                        /\ c.move = node[n].votes[v]

\* ... and for this very position: the vote itself names only turn and round
\* (the signed payload has no position), so this rests on the nodes agreeing.
VotesForThisPosition ==
    \A n \in Node : \A v \in Voters(node[n].votes) :
        \E c \in cast : /\ c.voter = v
                        /\ c.before = node[n].history
                        /\ c.round = node[n].round
                        /\ c.move = node[n].votes[v]

\* Nobody's board shows a move that no player on the side to move voted for
\* on that turn, however the move got there: counted, recounted or replayed.
MovesWereVotedFor ==
    \A n \in Node : \A i \in 1..Len(node[n].history) :
        \E c \in cast : /\ Len(c.before) = i - 1
                        /\ c.move = node[n].history[i]
                        /\ Team[c.voter] = SideToMove(c.before)

\* All nodes are in the same game: of two histories one extends the other.
Agreement ==
    \A n, m \in Node : \/ InPrefix(node[n].history, node[m].history)
                       \/ InPrefix(node[m].history, node[n].history)

\* Never two nodes that would both count the votes of their open windows.
OneCounter ==
    \A n, m \in Node :
        /\ node[n].phase = "in_progress" /\ MayCount(n, node[n], peers[n])
        /\ node[m].phase = "in_progress" /\ MayCount(m, node[m], peers[m])
        => n = m

\* No honest game is stopped as out of sync.
NoDesync == \A n \in Node : node[n].result # "desync"

\* A turn gets its first window and MaxRevotes more, and no snapshot or tally
\* takes a node past that.
RevotesAreBounded == \A n \in Node : node[n].round <= MaxRevotes

\* Everyone is connected to everyone, every message has been handled, and no
\* node is about to begin or settling.
Quiet ==
    /\ up = Links
    /\ \A n \in Node : /\ peers[n] = Node \ {n}
                       /\ node[n].phase # "starting"
                       /\ ~node[n].settling
    /\ \A c \in Node \X Node : net[c] = <<>>

\* Once all is handled, everyone is at the same move and the same round, or
\* has the same ending.
SameGameWhenQuiet ==
    Quiet => \A n, m \in Node : /\ node[n].history = node[m].history
                                /\ node[n].round = node[m].round
                                /\ node[n].phase = node[m].phase
                                /\ node[n].result = node[m].result

\* t is a later window than s: a later turn, or a later round of the turn.
Later(s, t) ==
    \/ Len(s.history) < Len(t.history)
    \/ Len(s.history) = Len(t.history) /\ s.round < t.round

\* A node's game only moves forward: windows open in order, a vote held in
\* a window stays as it is until the window is gone, and the end is final.
MovesForward(s, t) ==
    \/ s = t
    \/ s.phase = "starting" /\ t.phase = "in_progress"
    \/ s.phase = "in_progress" /\ t.phase = "lobby"
    \/ /\ s.phase = "in_progress"
       /\ t.phase \in {"in_progress", "finished"}
       /\ InPrefix(s.history, t.history)
       /\ t.phase = "in_progress" =>
             \/ Later(s, t)
             \/ /\ s.history = t.history
                /\ s.round = t.round
                /\ \A v \in Voters(s.votes) : t.votes[v] = s.votes[v]

\* No step takes a node back to an earlier window, rewrites a move it played
\* ("a snapshot can only extend our history, never rewrite it"), changes or
\* loses a vote it holds while the window is open, or replaces a result.
GameMovesForward == [][\A n \in Node : MovesForward(node[n], node'[n])]_vars

\* The windows, the revotes and the moves run out: every node's game ends, whether
\* or not anybody votes, though links fail for good, apps restart, countdowns end
\* late and a peer's timeout is not believed (then our own limit ends the game).
GamesEnd == \A n \in Node : <>(node[n].phase \in {"finished", "lobby"})

\* The longest history any node has.
LongestHistory ==
    LET histories == {node[n].history : n \in Node}
    IN  CHOOSE h \in histories : \A k \in histories : Len(k) <= Len(h)

Agreed == INSTANCE AgreedGame
              WITH decided <- LongestHistory,
                   view    <- [n \in Node |-> node[n].history]

\* The nodes play one game: every step maps to one of AgreedGame or a stutter.
PlaysOneGame == Agreed!Spec

=============================================================================
