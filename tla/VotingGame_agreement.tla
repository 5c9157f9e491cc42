------------------------ MODULE VotingGame_agreement ------------------------
(***************************************************************************)
(* When the players of VotingGame play one game.  The code elects nobody:  *)
(* whoever is the lowest key of a quorum of connected players counts, so   *)
(* one lost link can make two of them.  While one player m is up and no    *)
(* other is in that place (MasterStays), every board shows a beginning of  *)
(* m's game, every message tells of a beginning of it, and VotingGame      *)
(* implements AgreedGame.  The second part says which faults leave m       *)
(* there; the third, when all boards show the same once all is handled.    *)
(***************************************************************************)
EXTENDS VotingGame_proofs

-----------------------------------------------------------------------------
(* One game, as long as nobody but m takes the count.                      *)

\* n, connected to ps, is the one to count: what MayCount asks of its peers.
Leads(n, ps) ==
    /\ HasQuorum(Node, Connected(n, ps))
    /\ IsMaster(n, Node, Connected(n, ps))

\* m's app is up, and no other player in the game is the one to count.
MasterStays(m) ==
    /\ node[m].phase # "lobby"
    /\ \A n \in Node \ {m} : node[n].phase # "lobby" => ~Leads(n, peers[n])

VotesPass(votes, h) ==
    \A v \in Voters(votes) : CheckVote(v, votes[v], SideToMove(h), Legal(h))

\* The node of record s is at, or behind, a game that stands at H.
Follows(H, s) ==
    /\ InPrefix(s.history, H)
    /\ VotesPass(s.votes, s.history)
    /\ s.phase = "starting" => s.history = <<>>
    /\ s.phase \in {"starting", "in_progress"} => ~GameEnds(s.history)
    /\ s.result # "desync"

\* What p tells q of a game that m counts and that stands at H.
Tells(H, m, p, q, msg) ==
    /\ msg.type = "tally_result" =>
          /\ p = m
          /\ InPrefix(msg.before, H)
          /\ VotesPass(msg.votes, msg.before)
          /\ TallyMoves(msg.votes) = [outcome |-> msg.outcome, move |-> msg.move]
          /\ msg.outcome = "winner" => InPrefix(Append(msg.before, msg.move), H)
    /\ msg.type = "game_snapshot" =>
          /\ InPrefix(msg.moves, H)
          /\ ~GameEnds(msg.moves)

TellsAll(H, m, p, q, out) == \A i \in 1..Len(out) : Tells(H, m, p, q, out[i])

TellsNet(H, m, queues) ==
    \A p, q \in Node : TellsAll(H, m, p, q, queues[<<p, q>>])

\* The game stays as it is, or a legal move is played.
Grows(H, K) ==
    \/ K = H
    \/ /\ ~GameEnds(H)
       /\ \E move \in Move : move \in Legal(H) /\ K = Append(H, move)

\* Where m's game stands after n handled r.
StandsAt(H, m, n, r) == IF n = m THEN r.node.history ELSE H

\* n's handling r, told to ps, keeps everyone in m's game, which stood at H.
Keeps(H, m, n, ps, r) ==
    LET K == StandsAt(H, m, n, r)
    IN  /\ Grows(H, K)
        /\ Follows(K, r.node)
        /\ \A q \in ps : TellsAll(K, m, n, q, r.out)

LEMMA GrowsExtends ==
    ASSUME NEW H \in Seq(Move), NEW K, Grows(H, K)
    PROVE  K \in Seq(Move) /\ InPrefix(H, K)
<1>1. CASE K = H
  BY <1>1, PrefixReflexive
<1>2. CASE K # H
  <2>1. PICK move \in Move : K = Append(H, move)
    BY <1>2 DEF Grows
  <2>2. QED BY <2>1, AppendExtends, AppendProperties
<1>3. QED BY <1>1, <1>2

LEMMA FollowsExtends ==
    ASSUME NEW H \in Seq(Move), NEW K \in Seq(Move), InPrefix(H, K),
           NEW s \in NodeState, Follows(H, s)
    PROVE  Follows(K, s)
<1>1. InPrefix(s.history, K)
  BY PrefixTransitive DEF NodeState, Follows
<1>2. QED BY <1>1 DEF Follows

LEMMA TellsExtends ==
    ASSUME NEW H \in Seq(Move), NEW K \in Seq(Move), InPrefix(H, K),
           NEW m, NEW p, NEW q, NEW msg \in Message, Tells(H, m, p, q, msg)
    PROVE  Tells(K, m, p, q, msg)
<1>1. CASE msg \in TallyMsg /\ msg.type = "tally_result"
  <2>1. msg.before \in Seq(Move) /\ (msg.outcome = "winner" => msg.move \in Move)
    <3>1. msg.votes \in Votes /\ msg.before \in Seq(Move)
      BY <1>1 DEF TallyMsg
    <3>2. TallyMoves(msg.votes).outcome = msg.outcome /\ TallyMoves(msg.votes).move = msg.move
      BY <1>1 DEF Tells
    <3>3. QED BY <3>1, <3>2, TallyType
  <2>2. InPrefix(msg.before, K)
    BY <1>1, <2>1, PrefixTransitive DEF Tells
  <2>3. msg.outcome = "winner" => InPrefix(Append(msg.before, msg.move), K)
    BY <1>1, <2>1, PrefixTransitive, AppendProperties DEF Tells
  <2>4. QED BY <1>1, <2>2, <2>3 DEF Tells
<1>2. CASE msg \in SnapshotMsg /\ msg.type = "game_snapshot"
  <2>1. InPrefix(msg.moves, K)
    BY <1>2, PrefixTransitive DEF Tells, SnapshotMsg
  <2>2. QED BY <1>2, <2>1 DEF Tells
<1>3. CASE msg.type \in {"vote", "game_over"}
  BY <1>3 DEF Tells
<1>4. QED BY <1>1, <1>2, <1>3, MessageTypes

LEMMA TellsAllExtends ==
    ASSUME NEW H \in Seq(Move), NEW K \in Seq(Move), InPrefix(H, K),
           NEW m, NEW p, NEW q, NEW out \in Seq(Message), TellsAll(H, m, p, q, out)
    PROVE  TellsAll(K, m, p, q, out)
<1>1. \A i \in 1..Len(out) : out[i] \in Message
  OBVIOUS
<1>2. QED BY <1>1, TellsExtends DEF TellsAll

\* Two beginnings of the same game: of the same length they are the same, and
\* of any lengths one extends the other.
LEMMA PrefixesCompare ==
    ASSUME NEW H \in Seq(Move), NEW h \in Seq(Move), NEW k \in Seq(Move),
           InPrefix(h, H), InPrefix(k, H)
    PROVE  /\ Len(h) = Len(k) => h = k
           /\ InPrefix(h, k) \/ InPrefix(k, h)
           /\ ~HistoriesDiffer(h, k)
<1>1. Len(h) \in Nat /\ Len(k) \in Nat /\ Len(H) \in Nat
  OBVIOUS
<1>2. \A i \in 1..Len(h) : h[i] = H[i]
  BY DEF InPrefix
<1>3. \A i \in 1..Len(k) : k[i] = H[i]
  BY DEF InPrefix
<1>4. Len(h) <= Len(k) => \A i \in 1..Len(h) : i \in 1..Len(k)
  BY <1>1
<1>5. Len(k) <= Len(h) => \A i \in 1..Len(k) : i \in 1..Len(h)
  BY <1>1
<1>6. Len(h) = Len(k) => h = k
  BY <1>2, <1>3, SeqEqual
<1>7. InPrefix(h, k) \/ InPrefix(k, h)
  BY <1>1, <1>2, <1>3, <1>4, <1>5 DEF InPrefix
<1>8. ~HistoriesDiffer(h, k)
  BY <1>1, <1>2, <1>3, <1>4, <1>5 DEF HistoriesDiffer, Min2
<1>9. QED BY <1>6, <1>7, <1>8

LEMMA NoVotesPass ==
    ASSUME NEW h
    PROVE  VotesPass(NoVotes, h)
BY DEF VotesPass, NoVotes, Voters

LEMMA OpenWindowFollows ==
    ASSUME NEW H, NEW s \in NodeState, NEW h, NEW r, s.phase # "starting",
           s.result # "desync", InPrefix(h, H), ~GameEnds(h)
    PROVE  Follows(H, OpenWindow(s, h, r))
<1> DEFINE t == OpenWindow(s, h, r)
<1>1. t.history = h /\ t.votes = NoVotes /\ t.phase = s.phase /\ t.result = s.result
  BY DEF OpenWindow, NodeState
<1>2. QED BY <1>1, NoVotesPass DEF Follows

LEMMA EndGameFollows ==
    ASSUME NEW H, NEW s \in NodeState, NEW why, why # "desync",
           InPrefix(s.history, H)
    PROVE  Follows(H, EndGame(s, why))
<1> DEFINE t == EndGame(s, why)
<1>1. t.history = s.history /\ t.votes = NoVotes /\ t.phase = "finished" /\ t.result = why
  BY DEF EndGame, NodeState
<1>2. QED BY <1>1, NoVotesPass DEF Follows

LEMMA ApplyTallyFollows ==
    ASSUME NEW H, NEW s \in NodeState, s.phase = "in_progress",
           s.result # "desync", ~GameEnds(s.history), NEW votes \in Votes,
           InPrefix(s.history, H),
           TallyMoves(votes).outcome = "winner" =>
               InPrefix(Append(s.history, TallyMoves(votes).move), H)
    PROVE  Follows(H, ApplyTally(s, TallyMoves(votes)))
<1> DEFINE t == TallyMoves(votes)
           h == Append(s.history, t.move)
<1>1. CASE t.outcome = "winner"
  <2>1. ~GameEnds(h) => Follows(H, OpenWindow(s, h, 0))
    <3> HIDE DEF h
    <3>1. InPrefix(h, H)
      BY <1>1 DEF h
    <3>2. QED BY <3>1, OpenWindowFollows
  <2>2. Follows(H, [EndGame(s, "engine") EXCEPT !.history = h])
    <3> DEFINE e == [EndGame(s, "engine") EXCEPT !.history = h]
    <3>1. e.history = h /\ e.votes = NoVotes /\ e.phase = "finished" /\ e.result = "engine"
      BY DEF EndGame, NodeState
    <3>2. QED BY <1>1, <3>1, NoVotesPass DEF Follows
  <2>3. QED BY <1>1, <2>1, <2>2 DEF ApplyTally, PlayMove
<1>2. CASE t.outcome # "winner"
  <2>1. Follows(H, EndGame(s, "revotes_exhausted"))
    BY EndGameFollows
  <2>2. Follows(H, OpenWindow(s, s.history, s.round + 1))
    BY OpenWindowFollows
  <2>3. QED BY <1>2, <2>1, <2>2 DEF ApplyTally, MaybeRevote
<1>3. QED BY <1>1, <1>2

LEMMA ApplyTallyHistory ==
    ASSUME NEW s \in NodeState, NEW votes \in Votes
    PROVE  ApplyTally(s, TallyMoves(votes)).history =
              IF TallyMoves(votes).outcome = "winner"
              THEN Append(s.history, TallyMoves(votes).move) ELSE s.history
BY DEF ApplyTally, PlayMove, MaybeRevote, OpenWindow, EndGame, NodeState

\* m counts the votes it holds, and tells the others.
LEMMA CountAndPublishKeeps ==
    ASSUME NEW m, NEW s \in NodeState, s.phase = "in_progress",
           Follows(s.history, s), NEW ps
    PROVE  Keeps(s.history, m, m, ps, CountAndPublish(s))
<1> DEFINE H == s.history
           t == TallyMoves(s.votes)
           u == ApplyTally(s, t)
           K == u.history
           claim == TallyClaim(s)
<1>1. H \in Seq(Move) /\ s.votes \in Votes /\ ~GameEnds(H) /\ VotesPass(s.votes, H)
  BY DEF NodeState, Follows
<1>2. K = IF t.outcome = "winner" THEN Append(H, t.move) ELSE H
  BY <1>1, ApplyTallyHistory
<1>3. t.outcome = "winner" => t.move \in Move /\ t.move \in Legal(H)
  <2>1. IsFiniteSet(Node) /\ Move \subseteq Nat /\ NoVote \notin Move
    BY NodeAssumption, MoveAssumption
  <2>2. t.outcome = "winner" => t.move \in Move /\ \E v \in Node : s.votes[v] = t.move
    BY <1>1, <2>1, TallyMovesType
  <2>3. QED BY <1>1, <2>1, <2>2 DEF VotesPass, Voters, CheckVote
<1>4. Grows(H, K)
  BY <1>1, <1>2, <1>3 DEF Grows
<1>5. InPrefix(H, K) /\ K \in Seq(Move)
  BY <1>1, <1>4, GrowsExtends
<1>6. t.outcome = "winner" => InPrefix(Append(H, t.move), K)
  BY <1>2, <1>5, PrefixReflexive
<1>7. Follows(K, u)
  <2> HIDE DEF K
  <2>1. QED BY <1>1, <1>5, <1>6, ApplyTallyFollows DEF Follows
<1>8. /\ claim.type = "tally_result" /\ claim.before = H /\ claim.votes = s.votes
      /\ claim.outcome = t.outcome /\ claim.move = t.move
      /\ t = [outcome |-> t.outcome, move |-> t.move]
  BY DEF TallyClaim, TallyMoves
<1> HIDE DEF K, t, u, claim
<1>9. \A q : Tells(K, m, m, q, claim)
  BY <1>1, <1>5, <1>6, <1>8 DEF Tells, t
<1>10. \A q : TellsAll(K, m, m, q, <<claim>>)
  BY <1>9 DEF TellsAll
<1>11. CountAndPublish(s).node = u /\ CountAndPublish(s).out = <<claim>>
  BY DEF CountAndPublish, u, t, claim
<1>12. QED BY <1>4, <1>7, <1>10, <1>11 DEF Keeps, StandsAt, K

\* A node that says nothing keeps to the game.
LEMMA SilentKeeps ==
    ASSUME NEW H, NEW m, NEW n, NEW s, Follows(H, s), n = m => s.history = H, NEW ps
    PROVE  Keeps(H, m, n, ps, Silent(s))
<1>1. Silent(s).node = s /\ Silent(s).out = <<>>
  BY DEF Silent
<1>2. \A q : TellsAll(H, m, n, q, <<>>)
  BY DEF TellsAll
<1>3. StandsAt(H, m, n, Silent(s)) = H
  BY <1>1 DEF StandsAt
<1>4. QED BY <1>1, <1>2, <1>3 DEF Keeps, Grows

LEMMA CountIfEveryoneVotedKeeps ==
    ASSUME NEW H, NEW m \in Node, NEW n \in Node,
           NEW s \in NodeState, Follows(H, s), n = m => s.history = H,
           NEW ps, n # m /\ s.phase = "in_progress" => ~Leads(n, ps)
    PROVE  Keeps(H, m, n, ps, CountIfEveryoneVoted(n, s, ps))
<1>1. CASE s.phase = "in_progress" /\ n = m
  BY <1>1, CountAndPublishKeeps, SilentKeeps DEF CountIfEveryoneVoted
<1>2. CASE s.phase # "in_progress" \/ n # m
  BY <1>2, SilentKeeps DEF CountIfEveryoneVoted, MayCount, Leads
<1>3. QED BY <1>1, <1>2

LEMMA HandleVoteKeeps ==
    ASSUME NEW H, NEW m \in Node, NEW n \in Node,
           NEW s \in NodeState, Follows(H, s), n = m => s.history = H,
           NEW ps, n # m /\ s.phase = "in_progress" => ~Leads(n, ps),
           NEW p \in Node, NEW msg \in VoteMsg
    PROVE  Keeps(H, m, n, ps, HandleVote(n, s, ps, p, msg))
<1> DEFINE t == [s EXCEPT !.votes[p] = msg.move]
<1>1. msg.move \in Move
  BY DEF VoteMsg
<1>2. t \in NodeState
  BY <1>1, VoteType
<1>3. /\ t.history = s.history /\ t.phase = s.phase /\ t.result = s.result
      /\ \A v \in Node : t.votes[v] = IF v = p THEN msg.move ELSE s.votes[v]
  BY DEF NodeState, Votes
<1> HIDE DEF t
<1>4. CheckVote(p, msg.move, SideToMove(s.history), Legal(s.history)) => Follows(H, t)
  BY <1>3 DEF Follows, VotesPass, Voters
<1>5. CheckVote(p, msg.move, SideToMove(s.history), Legal(s.history)) =>
          Keeps(H, m, n, ps, CountIfEveryoneVoted(n, t, ps))
  BY <1>2, <1>3, <1>4, CountIfEveryoneVotedKeeps
<1>6. QED BY <1>5, SilentKeeps DEF HandleVote, t

LEMMA HandleTallyResultKeeps ==
    ASSUME NEW H \in Seq(Move), NEW m \in Node, NEW n \in Node,
           NEW s \in NodeState, Follows(H, s), n # m, NEW ps, NEW p,
           NEW claim \in TallyMsg, claim.type = "tally_result",
           Tells(H, m, p, n, claim)
    PROVE  Keeps(H, m, n, ps, HandleTallyResult(n, s, ps, p, claim))
<1>1. claim.votes \in Votes /\ claim.before \in Seq(Move) /\ s.history \in Seq(Move)
  BY DEF TallyMsg, NodeState
<1>2. Len(claim.before) = Len(s.history) => claim.before = s.history
  BY <1>1, PrefixesCompare DEF Tells, Follows
<1>3. ASSUME claim.before = s.history
      PROVE  VerifyTally(claim, s.history, SideToMove(s.history), Legal(s.history))
  BY <1>3 DEF Tells, VerifyTally, VotesPass
<1>4. ASSUME claim.before = s.history, s.phase = "in_progress"
      PROVE  Follows(H, ApplyTally(s, TallyMoves(claim.votes)))
  <2>1. TallyMoves(claim.votes).outcome = "winner" =>
            InPrefix(Append(s.history, TallyMoves(claim.votes).move), H)
    BY <1>4 DEF Tells
  <2>2. QED BY <1>1, <1>4, <2>1, ApplyTallyFollows DEF Follows
<1>5. claim.before = s.history /\ s.phase = "in_progress" =>
          Keeps(H, m, n, ps, Silent(ApplyTally(s, TallyMoves(claim.votes))))
  BY <1>4, SilentKeeps
<1>6. Keeps(H, m, n, ps, Silent(s))
  BY SilentKeeps
<1>7. QED BY <1>2, <1>3, <1>5, <1>6 DEF HandleTallyResult

LEMMA MergeVotesFollows ==
    ASSUME NEW H, NEW s \in NodeState, Follows(H, s), NEW votes \in Votes
    PROVE  Follows(H, MergeVotes(s, votes))
<1> DEFINE t == MergeVotes(s, votes)
<1>1. /\ t.history = s.history /\ t.phase = s.phase /\ t.result = s.result
      /\ \A v \in Node :
            \/ t.votes[v] = s.votes[v]
            \/ /\ t.votes[v] = votes[v]
               /\ CheckVote(v, votes[v], SideToMove(s.history), Legal(s.history))
  BY DEF MergeVotes, NodeState, Votes
<1> HIDE DEF t
<1>2. VotesPass(t.votes, t.history)
  BY <1>1 DEF Follows, VotesPass, Voters
<1>3. QED BY <1>1, <1>2 DEF Follows, t

LEMMA HandleGameSnapshotKeeps ==
    ASSUME NEW H \in Seq(Move), NEW m \in Node, NEW n \in Node,
           NEW s \in NodeState, Follows(H, s), n = m => s.history = H,
           NEW ps, n # m /\ s.phase = "in_progress" => ~Leads(n, ps), NEW p,
           NEW snap \in SnapshotMsg, snap.type = "game_snapshot",
           Tells(H, m, p, n, snap)
    PROVE  Keeps(H, m, n, ps, HandleGameSnapshot(n, s, ps, snap))
<1> DEFINE caught == IF ShowsMore(s, snap)
                     THEN OpenWindow(s, snap.moves, snap.round) ELSE s
           merged == MergeVotes(caught, snap.votes)
<1>1. /\ snap.moves \in Seq(Move) /\ snap.round \in Nat /\ snap.votes \in Votes
      /\ InPrefix(snap.moves, H) /\ ~GameEnds(snap.moves)
      /\ s.history \in Seq(Move) /\ InPrefix(s.history, H)
  BY DEF SnapshotMsg, NodeState, Tells, Follows
<1>2. ~HistoriesDiffer(s.history, snap.moves)
  BY <1>1, PrefixesCompare
<1>3. CASE s.phase # "in_progress"
  BY <1>3, SilentKeeps DEF HandleGameSnapshot
<1>4. CASE s.phase = "in_progress"
  <2>1. caught \in NodeState /\ caught.phase = "in_progress"
    BY <1>1, <1>4, OpenWindowType DEF OpenWindow, NodeState
  <2>2. Follows(H, caught)
    BY <1>1, <1>4, OpenWindowFollows DEF Follows
  <2>3. n = m => caught.history = H
    <3>1. n = m /\ ShowsMore(s, snap) => snap.moves = H
      BY <1>1, PrefixReflexive, PrefixesCompare DEF ShowsMore, InPrefix
    <3>2. ShowsMore(s, snap) => caught.history = snap.moves
      BY DEF OpenWindow, NodeState
    <3>3. QED BY <3>1, <3>2
  <2> HIDE DEF caught
  <2>4. /\ merged \in NodeState /\ Follows(H, merged)
        /\ merged.history = caught.history /\ merged.phase = caught.phase
    <3>1. merged.history = caught.history /\ merged.phase = caught.phase
      BY <2>1 DEF MergeVotes, NodeState
    <3>2. QED BY <1>1, <2>1, <2>2, <3>1, MergeVotesType, MergeVotesFollows
  <2> HIDE DEF merged
  <2>5. Keeps(H, m, n, ps, CountIfEveryoneVoted(n, merged, ps))
    BY <1>4, <2>1, <2>3, <2>4, CountIfEveryoneVotedKeeps
  <2>6. Keeps(H, m, n, ps, Silent(s)) /\ Keeps(H, m, n, ps, Silent(caught))
    BY <2>2, <2>3, SilentKeeps
  <2>7. QED BY <1>2, <1>4, <2>5, <2>6 DEF HandleGameSnapshot, caught, merged
<1>5. QED BY <1>3, <1>4

LEMMA HandleGameOverKeeps ==
    ASSUME NEW H, NEW m, NEW n, NEW s \in NodeState, Follows(H, s),
           n = m => s.history = H, NEW ps, NEW believed
    PROVE  Keeps(H, m, n, ps, HandleGameOver(s, believed))
<1>1. Follows(H, EndGame(s, "timeout"))
  BY EndGameFollows DEF Follows
<1>2. EndGame(s, "timeout").history = s.history
  BY DEF EndGame, NodeState
<1>3. QED BY <1>1, <1>2, SilentKeeps DEF HandleGameOver

\* m itself is told no tally.
LEMMA HandledKeeps ==
    ASSUME NEW H \in Seq(Move), NEW m \in Node, NEW n \in Node,
           NEW s \in NodeState, Follows(H, s), n = m => s.history = H,
           NEW ps, n # m /\ s.phase = "in_progress" => ~Leads(n, ps),
           NEW p \in Node, p # n, NEW msg \in Message, Tells(H, m, p, n, msg),
           NEW believed
    PROVE  Keeps(H, m, n, ps, Handled(n, s, ps, p, msg, believed))
<1>1. CASE msg \in VoteMsg /\ msg.type = "vote"
  BY <1>1, HandleVoteKeeps DEF Handled
<1>2. CASE msg \in TallyMsg /\ msg.type = "tally_result"
  <2>1. p = m
    BY <1>2 DEF Tells
  <2>2. n # m
    BY <2>1
  <2>3. QED BY <1>2, <2>2, HandleTallyResultKeeps DEF Handled
<1>3. CASE msg \in SnapshotMsg /\ msg.type = "game_snapshot"
  BY <1>3, HandleGameSnapshotKeeps DEF Handled
<1>4. CASE msg \in GameOverMsg /\ msg.type = "game_over"
  BY <1>4, HandleGameOverKeeps DEF Handled
<1>5. QED BY <1>1, <1>2, <1>3, <1>4, MessageTypes

-----------------------------------------------------------------------------
(* Who leaves a game.                                                      *)

LEMMA ApplyTallyPhase ==
    ASSUME NEW s \in NodeState, NEW t
    PROVE  ApplyTally(s, t).phase \in {s.phase, "finished"}
BY DEF ApplyTally, PlayMove, MaybeRevote, OpenWindow, EndGame, NodeState

LEMMA CountIfEveryoneVotedPhase ==
    ASSUME NEW n, NEW s \in NodeState, NEW ps
    PROVE  CountIfEveryoneVoted(n, s, ps).node.phase \in {s.phase, "finished"}
BY ApplyTallyPhase DEF CountIfEveryoneVoted, CountAndPublish, Silent

\* No message sends a node to the lobby.
LEMMA HandledPhase ==
    ASSUME NEW n, NEW s \in NodeState, NEW ps, NEW p \in Node,
           NEW msg \in Message, NEW believed
    PROVE  Handled(n, s, ps, p, msg, believed).node.phase \in {s.phase, "finished"}
<1>1. \A t : Silent(t).node = t
  BY DEF Silent
<1>2. \A why : EndGame(s, why).phase = "finished"
  BY DEF EndGame, NodeState
<1>3. CASE msg \in VoteMsg /\ msg.type = "vote"
  <2> DEFINE t == [s EXCEPT !.votes[p] = msg.move]
  <2>1. t \in NodeState /\ t.phase = s.phase
    BY <1>3, VoteType DEF VoteMsg, NodeState
  <2> HIDE DEF t
  <2>2. CountIfEveryoneVoted(n, t, ps).node.phase \in {s.phase, "finished"}
    BY <2>1, CountIfEveryoneVotedPhase
  <2>3. QED BY <1>1, <1>3, <2>2 DEF Handled, HandleVote, t
<1>4. CASE msg \in TallyMsg /\ msg.type = "tally_result"
  BY <1>1, <1>2, <1>4, ApplyTallyPhase DEF Handled, HandleTallyResult
<1>5. CASE msg \in SnapshotMsg /\ msg.type = "game_snapshot"
  <2> DEFINE caught == IF ShowsMore(s, msg)
                       THEN OpenWindow(s, msg.moves, msg.round) ELSE s
             merged == MergeVotes(caught, msg.votes)
  <2>1. caught \in NodeState /\ caught.phase = s.phase
    BY <1>5, OpenWindowType DEF SnapshotMsg, OpenWindow, NodeState
  <2> HIDE DEF caught
  <2>2. merged \in NodeState /\ merged.phase = s.phase
    BY <1>5, <2>1, MergeVotesType DEF SnapshotMsg, MergeVotes, NodeState
  <2> HIDE DEF merged
  <2>3. CountIfEveryoneVoted(n, merged, ps).node.phase \in {s.phase, "finished"}
    BY <2>2, CountIfEveryoneVotedPhase
  <2>4. QED
    BY <1>1, <1>2, <1>5, <2>1, <2>3 DEF Handled, HandleGameSnapshot, caught, merged
<1>6. CASE msg \in GameOverMsg /\ msg.type = "game_over"
  BY <1>1, <1>2, <1>6 DEF Handled, HandleGameOver
<1>7. QED BY <1>3, <1>4, <1>5, <1>6, MessageTypes

\* A node comes to the lobby by a restart only.
LEMMA OnlyRestartsLeave ==
    ASSUME TypeOK, [Next]_vars, NEW m \in Node,
           node[m].phase # "lobby", node'[m].phase = "lobby"
    PROVE  Restart(m)
<1>0. node \in [Node -> NodeState] /\ net \in [Node \X Node -> Seq(Message)]
  BY DEF TypeOK
<1>1. ASSUME NEW n \in Node, NEW t, node' = [node EXCEPT ![n] = t], t.phase # "lobby"
      PROVE  FALSE
  BY <1>0, <1>1
<1>2. ASSUME NEW n \in Node, Begin(n) PROVE FALSE
  <2> DEFINE t == OpenWindow([node[n] EXCEPT !.phase = "in_progress"], <<>>, 0)
  <2>1. t.phase = "in_progress"
    BY <1>0 DEF OpenWindow, NodeState
  <2> HIDE DEF t
  <2>2. QED BY <1>1, <1>2, <2>1 DEF Begin, t
<1>3. ASSUME NEW n \in Node, NEW move \in Move, CastVote(n, move) PROVE FALSE
  <2> DEFINE s     == [node[n] EXCEPT !.votes[n] = move]
             msg   == [type |-> "vote", turn |-> Len(node[n].history),
                       round |-> node[n].round, move |-> move]
             count == CountIfEveryoneVoted(n, s, peers[n])
  <2>1. s \in NodeState /\ s.phase = node[n].phase /\ node[n].phase = "in_progress"
    BY <1>0, <1>3, VoteType DEF NodeState, CastVote
  <2>2. Do(n, [count EXCEPT !.out = <<msg>> \o @], net, peers[n])
    BY <1>3 DEF CastVote
  <2> HIDE DEF s, msg
  <2>3. count \in Handlings /\ count.node.phase # "lobby"
    BY <2>1, CountIfEveryoneVotedType, CountIfEveryoneVotedPhase
  <2> HIDE DEF count
  <2>4. node' = [node EXCEPT ![n] = count.node]
    BY <2>2, <2>3 DEF Do, Handlings
  <2>5. QED BY <1>1, <2>3, <2>4
<1>4. ASSUME NEW n \in Node, WindowCloses(n) PROVE FALSE
  BY <1>0, <1>4 DEF WindowCloses, NodeState
<1>5. ASSUME NEW n \in Node, TallyDue(n) PROVE FALSE
  <2>1. ApplyTally(node[n], TallyMoves(node[n].votes)).phase # "lobby"
    BY <1>0, <1>5, ApplyTallyPhase DEF TallyDue
  <2>2. QED BY <1>1, <1>5, <2>1 DEF TallyDue, Do, CountAndPublish
<1>6. ASSUME NEW n \in Node, GraceOver(n) PROVE FALSE
  BY <1>0, <1>6 DEF GraceOver, NodeState
<1>7. ASSUME NEW n \in Node, MoveTimeout(n) PROVE FALSE
  <2>1. EndGame(node[n], "timeout").phase # "lobby"
    BY <1>0 DEF EndGame, NodeState
  <2>2. QED BY <1>1, <1>7, <2>1 DEF MoveTimeout, Do
<1>8. ASSUME NEW n \in Node, NEW p \in Node, Receive(p, n) PROVE FALSE
  <2> DEFINE msg == Head(net[<<p, n>>])
  <2>1. msg \in Message
    BY <1>0, <1>8, HeadTailProperties DEF Receive
  <2>2. PICK believed : node' = [node EXCEPT ![n] =
            Handled(n, node[n], peers[n], p, msg, believed).node]
    BY <1>8 DEF Receive, Do
  <2> HIDE DEF msg
  <2>3. Handled(n, node[n], peers[n], p, msg, believed).node.phase \in {node[n].phase, "finished"}
    BY <1>0, <2>1, HandledPhase
  <2>4. n = m
    BY <1>0, <2>2
  <2>5. QED BY <1>1, <2>2, <2>3, <2>4
<1>9. ASSUME NEW l \in MayDrop, LinkFails(l) PROVE FALSE
  BY <1>9 DEF LinkFails
<1>10. ASSUME NEW n \in Node, NEW p \in Node, PeerDisconnects(n, p) PROVE FALSE
  <2>1. CountIfEveryoneVoted(n, node[n], peers[n] \ {p}).node.phase
            \in {node[n].phase, "finished"}
    BY <1>0, CountIfEveryoneVotedPhase
  <2>2. node' = [node EXCEPT ![n] = CountIfEveryoneVoted(n, node[n], peers[n] \ {p}).node]
    BY <1>10 DEF PeerDisconnects, Do
  <2>3. n = m
    BY <1>0, <2>2
  <2>4. QED BY <1>1, <2>1, <2>2, <2>3
<1>11. ASSUME NEW l \in Links, LinkReturns(l) PROVE FALSE
  BY <1>11 DEF LinkReturns
<1>12. ASSUME NEW n \in Node, NEW p \in Node, AddPeer(n, p) PROVE FALSE
  <2>1. node' = node \/ node' = [node EXCEPT ![n] = [node[n] EXCEPT !.settling = TRUE]]
    BY <1>12 DEF AddPeer, Do
  <2>2. [node[n] EXCEPT !.settling = TRUE].phase = node[n].phase
    BY <1>0 DEF NodeState
  <2>3. QED BY <1>0, <2>1, <2>2
<1>13. ASSUME NEW n \in Node, Restart(n) PROVE Restart(m)
  <2>1. n = m
    BY <1>0, <1>13 DEF Restart
  <2>2. QED BY <1>13, <2>1
<1>14. ASSUME UNCHANGED vars PROVE FALSE
  BY <1>14 DEF vars
<1>15. QED
  BY <1>2, <1>3, <1>4, <1>5, <1>6, <1>7, <1>8, <1>9, <1>10, <1>11, <1>12, <1>13,
     <1>14 DEF Next

\* A game that is not in the lobby was not there before the step.
LEMMA NeverOutOfLobby ==
    ASSUME TypeOK, [Next]_vars, NEW n \in Node, node'[n].phase # "lobby"
    PROVE  node[n].phase # "lobby"
BY NextForward DEF MovesForward

-----------------------------------------------------------------------------
(* Every step keeps everyone in m's game.                                  *)

FollowInv(m) ==
    /\ TypeOK
    /\ \A n \in Node : n \notin peers[n]
    /\ \A n \in Node : Follows(node[m].history, node[n])
    /\ TellsNet(node[m].history, m, net)
    /\ \A c \in cast : InPrefix(c.before, node[m].history)

LEMMA NotItsOwnPeer ==
    ASSUME [Next]_vars, TypeOK, \A n \in Node : n \notin peers[n]
    PROVE  \A n \in Node : n \notin peers'[n]
<1>1. peers \in [Node -> SUBSET Node]
  BY DEF TypeOK
<1>2. \/ peers' = peers
      \/ \E n, p \in Node : peers' = [peers EXCEPT ![n] = @ \ {p}]
      \/ \E n, p \in Node : p # n /\ peers' = [peers EXCEPT ![n] = @ \cup {p}]
      \/ \E n \in Node : peers' = [peers EXCEPT ![n] = {}]
  BY DEF Next, vars, Begin, CastVote, WindowCloses, TallyDue, GraceOver, MoveTimeout,
         Receive, LinkFails, PeerDisconnects, LinkReturns, AddPeer, Restart
<1>3. QED BY <1>1, <1>2

LEMMA SentTells ==
    ASSUME NEW K, NEW m, NEW queues \in Channels, TellsNet(K, m, queues),
           NEW n \in Node, NEW ps, NEW out \in Seq(Message),
           \A q \in ps : TellsAll(K, m, n, q, out)
    PROVE  TellsNet(K, m, Sent(queues, n, ps, out))
<1> SUFFICES ASSUME NEW p \in Node, NEW q \in Node
             PROVE  TellsAll(K, m, p, q, Sent(queues, n, ps, out)[<<p, q>>])
  BY DEF TellsNet
<1> DEFINE old == queues[<<p, q>>]
<1>1. old \in Seq(Message) /\ TellsAll(K, m, p, q, old)
  BY DEF Channels, TellsNet
<1>2. \/ Sent(queues, n, ps, out)[<<p, q>>] = old
      \/ p = n /\ q \in ps /\ Sent(queues, n, ps, out)[<<p, q>>] = old \o out
  BY DEF Sent
<1> HIDE DEF old
<1>3. p = n /\ q \in ps => TellsAll(K, m, p, q, old \o out)
  <2>1. /\ Len(old \o out) = Len(old) + Len(out)
        /\ \A i \in 1..(Len(old) + Len(out)) :
              (old \o out)[i] = IF i <= Len(old) THEN old[i] ELSE out[i - Len(old)]
    BY <1>1, ConcatProperties
  <2>2. Len(old) \in Nat /\ Len(out) \in Nat
    BY <1>1
  <2>3. \A i \in 1..(Len(old) + Len(out)) :
            i \in 1..Len(old) \/ (~(i <= Len(old)) /\ i - Len(old) \in 1..Len(out))
    BY <2>2
  <2>4. QED BY <1>1, <2>1, <2>3 DEF TellsAll
<1>4. QED BY <1>1, <1>2, <1>3

LEMMA DoKeeps ==
    ASSUME NEW m \in Node, node \in [Node -> NodeState],
           \A k \in Node : Follows(node[m].history, node[k]),
           NEW queues \in Channels, TellsNet(node[m].history, m, queues),
           NEW n \in Node, NEW ps, NEW r \in Handlings,
           Keeps(node[m].history, m, n, ps, r), Do(n, r, queues, ps)
    PROVE  /\ Grows(node[m].history, node'[m].history)
           /\ \A k \in Node : Follows(node'[m].history, node'[k])
           /\ TellsNet(node'[m].history, m, net')
<1> DEFINE H == node[m].history
           K == node'[m].history
<1>1. r.node \in NodeState /\ r.out \in Seq(Message)
  BY DEF Handlings
<1>2. node' = [node EXCEPT ![n] = r.node] /\ net' = Sent(queues, n, ps, r.out)
  BY DEF Do
<1>3. K = StandsAt(H, m, n, r)
  BY <1>2 DEF StandsAt
<1>4. /\ Grows(H, K) /\ Follows(K, r.node)
      /\ \A q \in ps : TellsAll(K, m, n, q, r.out)
  BY <1>3 DEF Keeps
<1>5. H \in Seq(Move) /\ K \in Seq(Move) /\ InPrefix(H, K)
  BY <1>4, GrowsExtends DEF NodeState
<1> HIDE DEF H, K
<1>6. \A k \in Node : Follows(K, node[k])
  BY <1>5, FollowsExtends DEF H
<1>7. \A k \in Node : Follows(K, node'[k])
  BY <1>2, <1>4, <1>6
<1>8. TellsNet(K, m, queues)
  BY <1>5, TellsAllExtends DEF TellsNet, Channels, H
<1>9. TellsNet(K, m, net')
  BY <1>1, <1>2, <1>4, <1>8, SentTells
<1>10. QED BY <1>4, <1>7, <1>9 DEF H, K

LEMMA RestTells ==
    ASSUME NEW K, NEW m, NEW p, NEW n, NEW q \in Seq(Message), q # <<>>,
           TellsAll(K, m, p, n, q)
    PROVE  Tells(K, m, p, n, Head(q)) /\ TellsAll(K, m, p, n, Tail(q))
<1>1. /\ Len(q) \in Nat /\ Len(q) # 0 /\ Head(q) = q[1]
      /\ Len(Tail(q)) = Len(q) - 1
      /\ \A i \in 1..Len(Tail(q)) : Tail(q)[i] = q[i + 1]
  BY HeadTailProperties, EmptySeq
<1>2. 1 \in 1..Len(q) /\ \A i \in 1..(Len(q) - 1) : i + 1 \in 1..Len(q)
  BY <1>1
<1>3. QED BY <1>1, <1>2 DEF TellsAll

LEMMA NothingTold ==
    ASSUME NEW K, NEW m, NEW p, NEW q
    PROVE  TellsAll(K, m, p, q, <<>>)
BY DEF TellsAll

\* A node whose game stays in its window.
LEMMA SameWindowFollows ==
    ASSUME NEW H, NEW s, Follows(H, s),
           NEW t, t.history = s.history, t.votes = s.votes,
           t.phase = s.phase, t.result = s.result
    PROVE  Follows(H, t)
BY DEF Follows

\* What is said and is neither a tally nor a snapshot.
LEMMA PlainTells ==
    ASSUME NEW msg, msg.type \in {"vote", "game_over"}
    PROVE  \A K, m, p, q : Tells(K, m, p, q, msg)
BY DEF Tells

LEMMA FollowStep ==
    ASSUME NEW m \in Node, MasterStays(m), MasterStays(m)', FollowInv(m), [Next]_vars
    PROVE  /\ Grows(node[m].history, node'[m].history)
           /\ \A n \in Node : Follows(node'[m].history, node'[n])
           /\ TellsNet(node'[m].history, m, net')
<1> DEFINE H == node[m].history
           Goal == /\ Grows(H, node'[m].history)
                   /\ \A n \in Node : Follows(node'[m].history, node'[n])
                   /\ TellsNet(node'[m].history, m, net')
<1>0. /\ TypeOK
      /\ node \in [Node -> NodeState] /\ node' \in [Node -> NodeState]
      /\ peers \in [Node -> SUBSET Node]
      /\ net \in Channels /\ net' \in Channels
      /\ H \in Seq(Move)
      /\ \A n \in Node : Follows(H, node[n])
      /\ TellsNet(H, m, net)
      /\ \A n \in Node : n # m /\ node[n].phase # "lobby" => ~Leads(n, peers[n])
      /\ \A n \in Node : n \notin peers[n]
  BY NextType DEF FollowInv, TypeOK, Channels, NodeState, MasterStays
<1>s. ASSUME node'[m].history = H, \A n \in Node : Follows(H, node'[n]),
             TellsNet(H, m, net')
      PROVE  Goal
  BY <1>s DEF Grows
<1>1. ASSUME NEW n \in Node, Begin(n) PROVE Goal
  <2> DEFINE s == [node[n] EXCEPT !.phase = "in_progress"]
             t == OpenWindow(s, <<>>, 0)
  <2>1. s \in NodeState /\ s.phase = "in_progress" /\ s.result = node[n].result
    <3>1. node[n] \in NodeState
      BY <1>0
    <3>2. QED BY <3>1 DEF NodeState, Phases
  <2>2. node[n].history = <<>> /\ ~GameEnds(<<>>) /\ node[n].result # "desync"
        /\ InPrefix(<<>>, H)
    BY <1>0, <1>1, NewGameAssumption DEF Begin, Follows
  <2>3. node' = [node EXCEPT ![n] = t] /\ net' = net
    BY <1>1 DEF Begin
  <2> HIDE DEF s
  <2>4. Follows(H, t)
    BY <2>1, <2>2, OpenWindowFollows
  <2>5. t.history = <<>>
    BY <2>1 DEF OpenWindow, NodeState
  <2> HIDE DEF t
  <2>6. node'[m].history = H
    BY <1>0, <2>2, <2>3, <2>5
  <2>7. QED BY <1>0, <1>s, <2>3, <2>4, <2>6
<1>2. ASSUME NEW n \in Node, NEW move \in Move, CastVote(n, move) PROVE Goal
  <2> DEFINE s     == node[n]
             t     == [s EXCEPT !.votes[n] = move]
             msg   == [type |-> "vote", turn |-> Len(s.history),
                       round |-> s.round, move |-> move]
             count == CountIfEveryoneVoted(n, t, peers[n])
             r     == [count EXCEPT !.out = <<msg>> \o @]
  <2>1. /\ Do(n, r, net, peers[n])
        /\ s.phase = "in_progress"
        /\ CheckVote(n, move, SideToMove(s.history), Legal(s.history))
    BY <1>2 DEF CastVote
  <2>2. s \in NodeState /\ t \in NodeState /\ Follows(H, s)
    BY <1>0, VoteType
  <2>3. /\ t.history = s.history /\ t.phase = s.phase /\ t.result = s.result
        /\ \A v \in Node : t.votes[v] = IF v = n THEN move ELSE s.votes[v]
    BY <2>2 DEF NodeState, Votes
  <2>4. msg \in Message /\ msg.type = "vote"
    BY <2>2 DEF Message, VoteMsg, NodeState
  <2> HIDE DEF t, msg
  <2>5. Follows(H, t)
    BY <2>1, <2>2, <2>3 DEF Follows, VotesPass, Voters
  <2>6. count \in Handlings /\ Keeps(H, m, n, peers[n], count)
    BY <1>0, <2>1, <2>2, <2>3, <2>5, CountIfEveryoneVotedType, CountIfEveryoneVotedKeeps
  <2> HIDE DEF count
  <2>7. r \in Handlings /\ r.node = count.node /\ r.out = <<msg>> \o count.out
    <3>1. <<msg>> \o count.out \in Seq(Message)
      BY <2>4, <2>6, ConcatProperties DEF Handlings
    <3>2. QED BY <2>6, <3>1 DEF Handlings
  <2>8. ASSUME NEW K, NEW q, TellsAll(K, m, n, q, count.out)
        PROVE  TellsAll(K, m, n, q, r.out)
    <3>1. count.out \in Seq(Message) /\ <<msg>> \in Seq(Message)
      BY <2>4, <2>6 DEF Handlings
    <3>2. /\ Len(<<msg>> \o count.out) = 1 + Len(count.out)
          /\ \A i \in 1..(1 + Len(count.out)) :
                (<<msg>> \o count.out)[i] = IF i <= 1 THEN msg ELSE count.out[i - 1]
      BY <3>1, ConcatProperties
    <3>3. \A i \in 1..(1 + Len(count.out)) : ~(i <= 1) => i - 1 \in 1..Len(count.out)
      BY <3>1
    <3>4. Tells(K, m, n, q, msg)
      BY <2>4, PlainTells
    <3>5. QED BY <2>7, <2>8, <3>2, <3>3, <3>4 DEF TellsAll
  <2> HIDE DEF r
  <2>9. Keeps(H, m, n, peers[n], r)
    BY <2>6, <2>7, <2>8 DEF Keeps, StandsAt
  <2>10. QED BY <1>0, <2>1, <2>7, <2>9, DoKeeps
<1>3. ASSUME NEW n \in Node, WindowCloses(n) PROVE Goal
  <2> DEFINE t == [node[n] EXCEPT !.closed = TRUE]
  <2>1. /\ t.history = node[n].history /\ t.votes = node[n].votes
        /\ t.phase = node[n].phase /\ t.result = node[n].result
    BY <1>0 DEF NodeState
  <2>2. node' = [node EXCEPT ![n] = t] /\ net' = net
    BY <1>3 DEF WindowCloses
  <2> HIDE DEF t
  <2>3. Follows(H, t)
    <3>1. Follows(H, node[n])
      BY <1>0
    <3> HIDE DEF H
    <3>2. QED BY <2>1, <3>1, SameWindowFollows
  <2>4. node'[m].history = H
    BY <1>0, <2>1, <2>2
  <2>5. QED BY <1>0, <1>s, <2>2, <2>3, <2>4
<1>4. ASSUME NEW n \in Node, TallyDue(n) PROVE Goal
  <2>1. n = m /\ node[n].phase = "in_progress"
    BY <1>0, <1>4 DEF TallyDue, MayCount, Leads
  <2>2. /\ CountAndPublish(node[m]) \in Handlings
        /\ Keeps(H, m, m, peers[m], CountAndPublish(node[m]))
    BY <1>0, <2>1, CountAndPublishType, CountAndPublishKeeps
  <2>3. Do(m, CountAndPublish(node[m]), net, peers[m])
    BY <1>4, <2>1 DEF TallyDue
  <2>4. QED BY <1>0, <2>2, <2>3, DoKeeps
<1>5. ASSUME NEW n \in Node, GraceOver(n) PROVE Goal
  <2> DEFINE t == [node[n] EXCEPT !.settling = FALSE]
  <2>1. /\ t.history = node[n].history /\ t.votes = node[n].votes
        /\ t.phase = node[n].phase /\ t.result = node[n].result
    BY <1>0 DEF NodeState
  <2>2. node' = [node EXCEPT ![n] = t] /\ net' = net
    BY <1>5 DEF GraceOver
  <2> HIDE DEF t
  <2>3. Follows(H, t)
    <3>1. Follows(H, node[n])
      BY <1>0
    <3> HIDE DEF H
    <3>2. QED BY <2>1, <3>1, SameWindowFollows
  <2>4. node'[m].history = H
    BY <1>0, <2>1, <2>2
  <2>5. QED BY <1>0, <1>s, <2>2, <2>3, <2>4
<1>6. ASSUME NEW n \in Node, MoveTimeout(n) PROVE Goal
  <2> DEFINE over == [type |-> "game_over"]
             r == [node |-> EndGame(node[n], "timeout"), out  |-> <<over>>]
  <2>1. r \in Handlings
    <3>1. over \in Message
      BY DEF Message, GameOverMsg
    <3>2. QED BY <1>0, <3>1, EndGameType DEF Handlings, Results
  <2>2. Follows(H, EndGame(node[n], "timeout"))
    <3>1. InPrefix(node[n].history, H)
      BY <1>0 DEF Follows
    <3> HIDE DEF H
    <3>2. QED BY <1>0, <3>1, EndGameFollows
  <2>3. EndGame(node[n], "timeout").history = node[n].history
    BY <1>0 DEF EndGame, NodeState
  <2>4. \A q : TellsAll(H, m, n, q, <<over>>)
    BY PlainTells DEF TellsAll
  <2>5. Keeps(H, m, n, peers[n], r)
    BY <2>2, <2>3, <2>4 DEF Keeps, StandsAt, Grows
  <2>6. Do(n, r, net, peers[n])
    BY <1>6 DEF MoveTimeout
  <2> HIDE DEF r
  <2>7. QED BY <1>0, <2>1, <2>5, <2>6, DoKeeps
<1>7. ASSUME NEW n \in Node, NEW p \in Node, Receive(p, n) PROVE Goal
  <2> DEFINE queue == net[<<p, n>>]
             rest  == [net EXCEPT ![<<p, n>>] = Tail(@)]
             r(believed) == Handled(n, node[n], peers[n], p, Head(queue), believed)
  <2>1. queue \in Seq(Message) /\ queue # <<>> /\ TellsAll(H, m, p, n, queue) /\ p # n
    BY <1>0, <1>7 DEF Receive, TellsNet, Channels
  <2>2. Head(queue) \in Message /\ Tail(queue) \in Seq(Message)
    BY <2>1, HeadTailProperties
  <2>3. Tells(H, m, p, n, Head(queue)) /\ TellsAll(H, m, p, n, Tail(queue))
    BY <2>1, RestTells
  <2>4. rest \in Channels /\ TellsNet(H, m, rest)
    BY <1>0, <2>2, <2>3 DEF TellsNet, Channels
  <2>5. PICK believed : Do(n, r(believed), rest, peers[n])
    BY <1>7 DEF Receive
  <2> HIDE DEF queue, rest, H
  <2>6. r(believed) \in Handlings /\ Keeps(H, m, n, peers[n], r(believed))
    <3>1. n = m => node[n].history = H
      BY DEF H
    <3>2. QED BY <1>0, <2>1, <2>2, <2>3, <3>1, HandledType, HandledKeeps
  <2> HIDE DEF r
  <2>7. QED BY <1>0, <2>4, <2>5, <2>6, DoKeeps DEF H
<1>8. ASSUME NEW l \in MayDrop, LinkFails(l) PROVE Goal
  BY <1>0, <1>8, <1>s DEF LinkFails
<1>9. ASSUME NEW n \in Node, NEW p \in Node, PeerDisconnects(n, p) PROVE Goal
  <2> DEFINE ps == peers[n] \ {p}
             r == CountIfEveryoneVoted(n, node[n], ps)
             queues == [net EXCEPT ![<<p, n>>] = <<>>]
  <2>1. n # m /\ node[n].phase = "in_progress" => ~Leads(n, ps)
    <3>1. r.node.phase \in {node[n].phase, "finished"}
      BY <1>0, CountIfEveryoneVotedPhase
    <3>2. node'[n] = r.node /\ peers'[n] = ps
      BY <1>0, <1>9 DEF PeerDisconnects, Do
    <3> HIDE DEF r, ps
    <3>3. QED BY <3>1, <3>2 DEF MasterStays
  <2> HIDE DEF ps
  <2>2. r \in Handlings /\ Keeps(H, m, n, ps, r)
    BY <1>0, <2>1, CountIfEveryoneVotedType, CountIfEveryoneVotedKeeps
  <2>3. queues \in Channels /\ TellsNet(H, m, queues)
    BY <1>0, EmptySeq, NothingTold DEF TellsNet, Channels
  <2>4. Do(n, r, queues, ps)
    BY <1>9 DEF PeerDisconnects, ps
  <2> HIDE DEF r, queues
  <2>5. QED BY <1>0, <2>2, <2>3, <2>4, DoKeeps
<1>10. ASSUME NEW l \in Links, LinkReturns(l) PROVE Goal
  <2>1. ASSUME NEW p \in Node, NEW q \in Node
        PROVE  net'[<<p, q>>] = <<>> \/ net'[<<p, q>>] = net[<<p, q>>]
    BY <1>10 DEF LinkReturns
  <2>2. TellsNet(H, m, net')
    <3> HIDE DEF H
    <3>1. ASSUME NEW p \in Node, NEW q \in Node
          PROVE  TellsAll(H, m, p, q, net'[<<p, q>>])
      <4>1. TellsAll(H, m, p, q, net[<<p, q>>]) /\ TellsAll(H, m, p, q, <<>>)
        BY <1>0, NothingTold DEF TellsNet
      <4>2. QED BY <2>1, <4>1
    <3>2. QED BY <3>1 DEF TellsNet
  <2>3. QED BY <1>0, <1>10, <1>s, <2>2 DEF LinkReturns
<1>11. ASSUME NEW n \in Node, NEW p \in Node, AddPeer(n, p) PROVE Goal
  <2>1. CASE node[n].phase = "in_progress"
    <3> DEFINE t == [node[n] EXCEPT !.settling = TRUE]
               msg == SnapshotOf(node[n])
               r == [node |-> t, out  |-> <<msg>>]
    <3>1. Do(n, r, net, {p})
      BY <1>11, <2>1 DEF AddPeer
    <3>2. t \in NodeState
      BY <1>0 DEF NodeState
    <3>3. /\ t.history = node[n].history /\ t.votes = node[n].votes
          /\ t.phase = node[n].phase /\ t.result = node[n].result
      BY <1>0 DEF NodeState
    <3>4. msg \in Message /\ msg.type = "game_snapshot" /\ msg.moves = node[n].history
      BY <1>0 DEF SnapshotOf, NodeState, Message, SnapshotMsg
    <3> HIDE DEF t, msg
    <3>5. r \in Handlings
      BY <3>2, <3>4 DEF Handlings
    <3>6. Tells(H, m, n, p, msg)
      BY <1>0, <2>1, <3>4 DEF Tells, Follows
    <3>7. Follows(H, t)
      BY <1>0, <3>3, SameWindowFollows
    <3>8. Keeps(H, m, n, {p}, r)
      BY <3>3, <3>6, <3>7 DEF Keeps, StandsAt, Grows, TellsAll
    <3> HIDE DEF r
    <3>9. QED BY <1>0, <3>1, <3>5, <3>8, DoKeeps
  <2>2. CASE node[n].phase # "in_progress"
    BY <1>0, <1>11, <1>s, <2>2 DEF AddPeer
  <2>3. QED BY <2>1, <2>2
<1>12. ASSUME NEW n \in Node, Restart(n) PROVE Goal
  <2> DEFINE t == [EndGame(node[n], "none") EXCEPT !.phase = "lobby", !.history = <<>>]
  <2>1. t.votes = NoVotes /\ t.history = <<>> /\ t.phase = "lobby" /\ t.result = "none"
    BY <1>0 DEF EndGame, NodeState
  <2>2. node' = [node EXCEPT ![n] = t]
    BY <1>12 DEF Restart
  <2>3. n # m
    BY <1>0, <2>1, <2>2 DEF MasterStays
  <2> HIDE DEF t
  <2>4. Follows(H, t)
    BY <2>1, NoVotesPass DEF Follows, InPrefix
  <2>5. ASSUME NEW p \in Node, NEW q \in Node
        PROVE  net'[<<p, q>>] = <<>> \/ net'[<<p, q>>] = net[<<p, q>>]
    BY <1>12 DEF Restart
  <2>6. TellsNet(H, m, net')
    <3> HIDE DEF H
    <3>1. ASSUME NEW p \in Node, NEW q \in Node
          PROVE  TellsAll(H, m, p, q, net'[<<p, q>>])
      <4>1. TellsAll(H, m, p, q, net[<<p, q>>]) /\ TellsAll(H, m, p, q, <<>>)
        BY <1>0, NothingTold DEF TellsNet
      <4>2. QED BY <2>5, <4>1
    <3>2. QED BY <3>1 DEF TellsNet
  <2>7. QED BY <1>0, <1>s, <2>2, <2>3, <2>4, <2>6
<1>13. ASSUME UNCHANGED vars PROVE Goal
  BY <1>0, <1>13, <1>s DEF vars
<1> HIDE DEF Goal
<1>14. Goal
  BY <1>1, <1>2, <1>3, <1>4, <1>5, <1>6, <1>7, <1>8, <1>9, <1>10, <1>11, <1>12,
     <1>13 DEF Next
<1>15. QED BY <1>14 DEF Goal

LEMMA FollowInit ==
    ASSUME NEW m \in Node, Init
    PROVE  FollowInv(m)
<1>1. \A n \in Node : Follows(node[m].history, node[n])
  <2> SUFFICES ASSUME NEW n \in Node PROVE Follows(<<>>, node[n])
    BY DEF Init
  <2>1. /\ node[n].history = <<>> /\ node[n].votes = NoVotes
        /\ node[n].result = "none"
    BY DEF Init
  <2>2. QED BY <2>1, NoVotesPass, NewGameAssumption DEF Follows, InPrefix
<1>2. TellsNet(node[m].history, m, net)
  BY NothingTold DEF Init, TellsNet
<1>3. QED BY <1>1, <1>2, InitType DEF FollowInv, Init

LEMMA FollowNext ==
    ASSUME NEW m \in Node, MasterStays(m), MasterStays(m)', FollowInv(m), [Next]_vars
    PROVE  FollowInv(m)'
<1> DEFINE H == node[m].history
           K == node'[m].history
<1>1. TypeOK' /\ \A n \in Node : n \notin peers'[n]
  BY NextType, NotItsOwnPeer DEF FollowInv
<1>2. /\ Grows(H, K)
      /\ \A n \in Node : Follows(K, node'[n])
      /\ TellsNet(K, m, net')
  BY FollowStep
<1>3. H \in Seq(Move) /\ \A n \in Node : node[n].history \in Seq(Move)
  BY DEF FollowInv, TypeOK, NodeState
<1>4. K \in Seq(Move) /\ InPrefix(H, K)
  BY <1>2, <1>3, GrowsExtends
<1>5. \A c \in cast : c.before \in Seq(Move) /\ InPrefix(c.before, H)
  BY DEF FollowInv, TypeOK
<1>6. \A n \in Node : InPrefix(node[n].history, H)
  BY DEF FollowInv, Follows
<1>7. \A h \in Seq(Move) : InPrefix(h, H) => InPrefix(h, K)
  BY <1>3, <1>4, PrefixTransitive
<1>8. \A c \in cast' : InPrefix(c.before, K)
  <2> HIDE DEF H, K
  <2>1. CASE cast' = cast
    BY <1>5, <1>7, <2>1
  <2>2. CASE \E n \in Node, move \in Move :
                 cast' = cast \cup {[voter |-> n, before |-> node[n].history,
                                     round |-> node[n].round, move |-> move]}
    BY <1>3, <1>5, <1>6, <1>7, <2>2
  <2>3. QED BY <2>1, <2>2, WhatIsCast
<1>9. QED BY <1>1, <1>2, <1>8 DEF FollowInv

-----------------------------------------------------------------------------
(* What follows while nobody else takes the count.                         *)

LEMMA FollowAlways ==
    ASSUME NEW m \in Node
    PROVE  Spec /\ []MasterStays(m) => []FollowInv(m)
<1>1. Init => FollowInv(m)
  BY FollowInit
<1>2. MasterStays(m) /\ MasterStays(m)' /\ FollowInv(m) /\ [Next]_vars => FollowInv(m)'
  BY FollowNext
<1>3. QED BY <1>1, <1>2, PTL DEF Spec

\* For any number of players, any rules of chess and any faults: as long as one
\* player is up and no other is master of a quorum, all boards show the same
\* game, some of them less of it.
THEOREM OneGameForAll ==
    ASSUME NEW m \in Node
    PROVE  Spec /\ []MasterStays(m) => []Agreement
<1>1. ASSUME FollowInv(m) PROVE Agreement
  <2>1. /\ node[m].history \in Seq(Move)
        /\ \A n \in Node : /\ node[n].history \in Seq(Move)
                           /\ InPrefix(node[n].history, node[m].history)
    BY <1>1 DEF FollowInv, TypeOK, NodeState, Follows
  <2>2. QED BY <2>1, PrefixesCompare DEF Agreement
<1>2. QED BY <1>1, FollowAlways, PTL

\* ... and nobody's game is stopped as out of sync: each tally that player
\* publishes passes the recount on every other.
THEOREM NobodyIsOutOfSync ==
    ASSUME NEW m \in Node
    PROVE  Spec /\ []MasterStays(m) => []NoDesync
<1>1. FollowInv(m) => NoDesync
  BY DEF FollowInv, Follows, NoDesync
<1>2. QED BY <1>1, FollowAlways, PTL

\* ... and a vote counts only for the very position it was cast in, though the
\* vote itself names only its turn and round.
THEOREM VotesMeanThisPosition ==
    ASSUME NEW m \in Node
    PROVE  Spec /\ []MasterStays(m) => []VotesForThisPosition
<1>1. ASSUME FollowInv(m), GenuineInv PROVE VotesForThisPosition
  <2> SUFFICES ASSUME NEW n \in Node, NEW v \in Voters(node[n].votes)
               PROVE  \E c \in cast : /\ c.voter = v
                                      /\ c.before = node[n].history
                                      /\ c.round = node[n].round
                                      /\ c.move = node[n].votes[v]
    BY DEF VotesForThisPosition
  <2>1. PICK c \in cast : /\ c.voter = v /\ Len(c.before) = Len(node[n].history)
                          /\ c.round = node[n].round /\ c.move = node[n].votes[v]
    BY <1>1 DEF GenuineInv, GenuineNode, AllCast, CastAs
  <2>2. /\ node[m].history \in Seq(Move) /\ node[n].history \in Seq(Move)
        /\ c.before \in Seq(Move)
        /\ InPrefix(c.before, node[m].history)
        /\ InPrefix(node[n].history, node[m].history)
    BY <1>1 DEF FollowInv, TypeOK, NodeState, Follows
  <2>3. c.before = node[n].history
    BY <2>1, <2>2, PrefixesCompare
  <2>4. QED BY <2>1, <2>3
<1>2. QED BY <1>1, FollowAlways, GenuineAlways, PTL

-----------------------------------------------------------------------------
(* The refinement of AgreedGame.                                           *)

LEMMA LongestIsTheMasters ==
    ASSUME NEW m \in Node
    PROVE  FollowInv(m) => LongestHistory = node[m].history
<1> SUFFICES ASSUME FollowInv(m) PROVE LongestHistory = node[m].history
  OBVIOUS
<1> DEFINE histories == {node[n].history : n \in Node}
           Longest(h) == \A k \in histories : Len(k) <= Len(h)
<1>1. /\ node[m].history \in Seq(Move)
      /\ \A h \in histories : h \in Seq(Move) /\ InPrefix(h, node[m].history)
  BY DEF FollowInv, TypeOK, NodeState, Follows
<1>2. node[m].history \in histories /\ Longest(node[m].history)
  BY <1>1 DEF InPrefix
<1>3. LongestHistory \in histories /\ Longest(LongestHistory)
  BY <1>2 DEF LongestHistory
<1>4. Len(LongestHistory) = Len(node[m].history)
  BY <1>1, <1>2, <1>3
<1>5. InPrefix(node[m].history, node[m].history)
  BY <1>1, PrefixReflexive
<1>6. QED BY <1>1, <1>3, <1>4, <1>5, PrefixesCompare

LEMMA LongestIsTheMastersNext ==
    ASSUME NEW m \in Node
    PROVE  (FollowInv(m) => LongestHistory = node[m].history)'
BY LongestIsTheMasters, PTL

\* A step changes what at most one node has seen.
LEMMA OneNodeChanges ==
    ASSUME [Next]_vars, TypeOK, NEW m \in Node
    PROVE  \E n \in Node : \A k \in Node \ {n} : node'[k] = node[k]
<1>1. \/ node' = node
      \/ \E n \in Node : \E t : node' = [node EXCEPT ![n] = t]
  BY DEF Next, vars, Begin, CastVote, WindowCloses, TallyDue, GraceOver, MoveTimeout,
         Receive, LinkFails, PeerDisconnects, LinkReturns, AddPeer, Restart, Do
<1>2. QED BY <1>1 DEF TypeOK

LEMMA PrefixIsSubSeq ==
    ASSUME NEW h \in Seq(Move), NEW H \in Seq(Move), InPrefix(h, H)
    PROVE  h = SubSeq(H, 1, Len(h))
<1>1. /\ Len(h) \in Nat /\ Len(H) \in Nat /\ Len(h) <= Len(H)
      /\ \A i \in 1..Len(h) : h[i] = H[i]
  BY DEF InPrefix
<1>2. \A i \in 1..Len(h) : i \in 1..Len(H)
  BY <1>1
<1>3. \A i \in 1..Len(h) : H[i] \in Move
  BY <1>2
<1>4. /\ SubSeq(H, 1, Len(h)) \in Seq(Move)
      /\ Len(SubSeq(H, 1, Len(h))) = Len(h)
      /\ \A i \in 1..Len(h) : SubSeq(H, 1, Len(h))[i] = H[i]
  BY <1>1, <1>3
<1>5. QED BY <1>1, <1>4, SeqEqual

LEMMA RefinementInit ==
    ASSUME NEW m \in Node, Init, FollowInv(m)
    PROVE  Agreed!Init
<1>1. LongestHistory = node[m].history
  BY LongestIsTheMasters
<1>2. QED BY <1>1 DEF Init, Agreed!Init

\* While nobody restarts: what m's game gains is decided, and what another node's
\* gains is learnt.
LEMMA RefinementStep ==
    ASSUME NEW m \in Node, MasterStays(m), MasterStays(m)', MayRestart = {},
           FollowInv(m), FollowInv(m)', [Next]_vars
    PROVE  [Agreed!Next]_(Agreed!vars)
<1> DEFINE H == node[m].history
           K == node'[m].history
           view == [n \in Node |-> node[n].history]
           later == [n \in Node |-> node'[n].history]
<1>1. LongestHistory = H
  BY LongestIsTheMasters
<1>2. LongestHistory' = K
  BY LongestIsTheMastersNext
<1>3. PICK n \in Node : \A k \in Node \ {n} : node'[k] = node[k]
  BY OneNodeChanges DEF FollowInv
<1>4. /\ H \in Seq(Move) /\ K \in Seq(Move)
      /\ \A k \in Node : /\ node[k].history \in Seq(Move)
                         /\ node'[k].history \in Seq(Move)
                         /\ node[k] \in NodeState /\ node'[k] \in NodeState
                         /\ InPrefix(node[k].history, H)
                         /\ InPrefix(node'[k].history, K)
  BY DEF FollowInv, TypeOK, NodeState, Follows
<1>5. later = [view EXCEPT ![n] = node'[n].history]
  BY <1>3
<1>6. CASE n = m
  <2>1. Grows(H, K)
    BY FollowStep
  <2>2. CASE K = H
    <3>1. later = view
      BY <1>5, <1>6, <2>2
    <3>2. QED BY <1>1, <1>2, <2>2, <3>1 DEF Agreed!vars
  <2>3. CASE K # H
    <3>1. PICK move \in Move : /\ ~GameEnds(H) /\ move \in Legal(H)
                               /\ K = Append(H, move)
      BY <2>1, <2>3 DEF Grows
    <3>2. view[m] = H /\ later = [view EXCEPT ![m] = K]
      BY <1>5, <1>6
    <3>3. Agreed!Decide(m, move)
      BY <1>1, <1>2, <3>1, <3>2 DEF Agreed!Decide
    <3>4. QED BY <3>3 DEF Agreed!Next
  <2>4. QED BY <2>2, <2>3
<1>7. CASE n # m
  <2> DEFINE h == node[n].history
             k == node'[n].history
  <2>1. K = H
    BY <1>3, <1>7
  <2>2. InPrefix(h, k)
    <3>1. MovesForward(node[n], node'[n])
      BY NextForward DEF FollowInv
    <3>2. ~(node[n].phase = "in_progress" /\ node'[n].phase = "lobby")
      BY OnlyRestartsLeave DEF FollowInv, Restart
    <3>3. node[n].phase = "starting" => h = <<>>
      BY DEF FollowInv, Follows
    <3>4. InPrefix(h, h) /\ (h = <<>> => InPrefix(h, k))
      BY <1>4, PrefixReflexive DEF InPrefix
    <3>5. QED BY <3>1, <3>2, <3>3, <3>4 DEF MovesForward
  <2>3. /\ h \in Seq(Move) /\ k \in Seq(Move) /\ InPrefix(k, H)
        /\ Len(h) <= Len(k) /\ Len(k) <= Len(H)
    BY <1>4, <2>1, <2>2 DEF InPrefix
  <2>4. CASE Len(h) = Len(k)
    <3>1. h = k
      BY <2>2, <2>3, <2>4, PrefixReflexive, PrefixesCompare
    <3>2. later = view
      BY <1>5, <3>1
    <3>3. QED BY <1>1, <1>2, <2>1, <3>2 DEF Agreed!vars
  <2>5. CASE Len(h) # Len(k)
    <3>1. Len(h) < Len(k) /\ Len(k) \in 1..Len(H)
      BY <2>3, <2>5
    <3>2. k = SubSeq(H, 1, Len(k))
      BY <1>4, <2>3, PrefixIsSubSeq
    <3>3. PICK i \in 1..Len(H) : i = Len(k)
      BY <3>1
    <3>4. Agreed!Learn(n, i)
      BY <1>1, <1>2, <1>5, <2>1, <3>1, <3>2, <3>3 DEF Agreed!Learn
    <3>5. i \in 1..Len(LongestHistory)
      BY <1>1, <3>3
    <3>6. QED BY <3>4, <3>5 DEF Agreed!Next
  <2>6. QED BY <2>4, <2>5
<1>8. QED BY <1>6, <1>7

\* For any number of players and any rules of chess, while no other than one
\* player is master of a quorum and nobody restarts: VotingGame implements
\* AgreedGame.  There is one sequence of legal moves, and every board only
\* catches up with it.
THEOREM PlaysTheAgreedGame ==
    ASSUME NEW m \in Node, MayRestart = {}
    PROVE  Spec /\ []MasterStays(m) => PlaysOneGame
<1>1. Init => Agreed!Init
  BY FollowInit, RefinementInit
<1>2. /\ FollowInv(m) /\ FollowInv(m)' /\ MasterStays(m) /\ MasterStays(m)'
      /\ [Next]_vars
      => [Agreed!Next]_(Agreed!vars)
  BY RefinementStep
<1>3. QED BY <1>1, <1>2, FollowAlways, PTL DEF Spec, PlaysOneGame, Agreed!Spec

-----------------------------------------------------------------------------
(* Faults under which nobody else takes the count.                         *)

\* A player that n stays connected to as long as n plays.
Holds(n, k) ==
    /\ k # n
    /\ {n, k} \notin MayDrop
    /\ k \notin MayRestart

\* m does not restart, and every other player keeps one with a lower key.
StaysMaster(m) ==
    /\ m \notin MayRestart
    /\ \A n \in Node \ {m} : \E k \in Node : k < n /\ Holds(n, k)

\* Whoever plays is connected to those it cannot lose, and they are up.
Wired ==
    /\ \A n, k \in Node : Holds(n, k) /\ node[n].phase # "lobby" =>
          {n, k} \in up /\ k \in peers[n]
    /\ \A n \in Node \ MayRestart : node[n].phase # "lobby"

LEMMA PairIsLink ==
    ASSUME NEW a \in Node, NEW b \in Node, a # b
    PROVE  {a, b} \in Links
<1>1. IsFiniteSet({a}) /\ Cardinality({a}) = 1
  BY FS_Singleton
<1>2. Cardinality({a} \cup {b}) = Cardinality({a}) + 1
  BY <1>1, FS_AddElement
<1>3. {a} \cup {b} = {a, b}
  OBVIOUS
<1>4. QED BY <1>1, <1>2, <1>3 DEF Links

LEMMA WiredInit == Init => Wired
BY PairIsLink DEF Init, Wired, Holds

\* Links and peer tables after a step.
LEMMA LinksKept ==
    ASSUME [Next]_vars, TypeOK, Wired
    PROVE  \A n, k \in Node : Holds(n, k) /\ node'[n].phase # "lobby" =>
               {n, k} \in up' /\ k \in peers'[n]
<1>0. /\ node \in [Node -> NodeState] /\ peers \in [Node -> SUBSET Node]
      /\ \A n, k \in Node : Holds(n, k) /\ node'[n].phase # "lobby" =>
            {n, k} \in up /\ k \in peers[n]
  BY NeverOutOfLobby DEF TypeOK, Wired
<1> DEFINE Goal == \A n, k \in Node : Holds(n, k) /\ node'[n].phase # "lobby" =>
                       {n, k} \in up' /\ k \in peers'[n]
<1>1. CASE UNCHANGED <<peers, up>>
  BY <1>0, <1>1
<1>2. ASSUME NEW l \in MayDrop, LinkFails(l) PROVE Goal
  <2>1. \A n, k \in Node : Holds(n, k) => {n, k} # l
    BY DEF Holds
  <2>2. QED BY <1>0, <1>2, <2>1 DEF LinkFails
<1>3. ASSUME NEW i \in Node, NEW p \in Node, PeerDisconnects(i, p) PROVE Goal
  BY <1>0, <1>3 DEF PeerDisconnects
<1>4. ASSUME NEW l \in Links, LinkReturns(l) PROVE Goal
  BY <1>0, <1>4 DEF LinkReturns
<1>5. ASSUME NEW i \in Node, NEW p \in Node, AddPeer(i, p) PROVE Goal
  BY <1>0, <1>5 DEF AddPeer
<1>6. ASSUME NEW i \in Node, Restart(i) PROVE Goal
  <2>1. node'[i].phase = "lobby"
    BY <1>0, <1>6 DEF Restart, EndGame, NodeState
  <2>2. \A n, k \in Node : Holds(n, k) /\ n # i => i \notin {n, k}
    BY <1>6 DEF Holds, Restart
  <2>3. QED BY <1>0, <1>6, <2>1, <2>2 DEF Restart
<1>7. \/ UNCHANGED <<peers, up>>
      \/ \E l \in MayDrop : LinkFails(l)
      \/ \E i, p \in Node : PeerDisconnects(i, p)
      \/ \E l \in Links : LinkReturns(l)
      \/ \E i, p \in Node : AddPeer(i, p)
      \/ \E i \in Node : Restart(i)
  BY DEF Next, vars, Begin, CastVote, WindowCloses, TallyDue, GraceOver,
         MoveTimeout, Receive
<1>8. QED BY <1>1, <1>2, <1>3, <1>4, <1>5, <1>6, <1>7

LEMMA WiredNext == TypeOK /\ Wired /\ [Next]_vars => Wired'
<1> SUFFICES ASSUME TypeOK, Wired, [Next]_vars PROVE Wired'
  OBVIOUS
<1>1. \A n \in Node \ MayRestart : node'[n].phase # "lobby"
  BY OnlyRestartsLeave DEF Wired, Restart
<1>2. QED BY <1>1, LinksKept DEF Wired

LEMMA WiredAlways == Spec => []Wired
<1>1. Init => Wired
  BY WiredInit
<1>2. QED BY <1>1, WiredNext, TypeCorrect, PTL DEF Spec

\* For any number of players and any faults after which every player but m is
\* still connected to one with a lower key: no other becomes master.
THEOREM MasterNeverChanges ==
    ASSUME NEW m \in Node, StaysMaster(m)
    PROVE  Spec => []MasterStays(m)
<1>1. ASSUME Wired PROVE MasterStays(m)
  <2>1. ASSUME NEW n \in Node \ {m}, node[n].phase # "lobby"
        PROVE  ~Leads(n, peers[n])
    <3>1. PICK k \in Node : k < n /\ Holds(n, k)
      BY DEF StaysMaster
    <3>2. k \in Playing(Node, Connected(n, peers[n]))
      BY <1>1, <2>1, <3>1 DEF Wired, Playing, Connected
    <3>3. ~(n <= k)
      BY <3>1, NodeAssumption
    <3>4. QED BY <3>2, <3>3 DEF Leads, IsMaster
  <2>2. node[m].phase # "lobby"
    BY <1>1 DEF Wired, StaysMaster
  <2>3. QED BY <2>1, <2>2 DEF MasterStays
<1>2. QED BY <1>1, WiredAlways, PTL

\* Under those faults only m counts.
THEOREM OnlyTheMasterCounts ==
    ASSUME NEW m \in Node, StaysMaster(m)
    PROVE  Spec => []OneCounter
<1>1. MasterStays(m) => OneCounter
  BY DEF MasterStays, MayCount, Leads, OneCounter
<1>2. QED BY <1>1, MasterNeverChanges, PTL

\* A quorum of two players is both of them.
LEMMA QuorumOfTwo ==
    ASSUME Cardinality(Node) <= 2, NEW n \in Node, NEW k \in Node, n # k,
           NEW ps \in SUBSET Node, Leads(n, ps)
    PROVE  n < k
<1> DEFINE P == Playing(Node, Connected(n, ps))
<1>1. IsFiniteSet(Node) /\ Node \subseteq Nat
  BY NodeAssumption
<1>2. P \subseteq Node /\ n \in P
  BY DEF Playing, Connected
<1>3. IsFiniteSet(P) /\ Cardinality(P) * 2 > Cardinality(Node)
  BY <1>1, <1>2, FS_Subset DEF Leads, HasQuorum
<1>4. k \in P => n < k
  BY <1>1 DEF Leads, IsMaster
<1>5. ASSUME k \notin P PROVE FALSE
  <2> HIDE DEF P
  <2>1. IsFiniteSet(P \cup {k}) /\ Cardinality(P \cup {k}) = Cardinality(P) + 1
    BY <1>3, <1>5, FS_AddElement
  <2>2. P \cup {k} \in SUBSET Node
    BY <1>2
  <2>3. Cardinality(P \cup {k}) <= Cardinality(Node)
    BY <1>1, <2>2, FS_Subset
  <2>4. Cardinality(P) \in Nat /\ Cardinality(Node) \in Nat
    BY <1>1, <1>3, FS_CardinalityType
  <2>5. Cardinality(P) <= 1
    BY <2>1, <2>3, <2>4
  <2>6. Cardinality(Node) >= 2
    <3>1. IsFiniteSet({n}) /\ Cardinality({n}) = 1 /\ k \notin {n}
      BY FS_Singleton
    <3>2. Cardinality({n} \cup {k}) = 2
      BY <3>1, FS_AddElement
    <3>3. {n} \cup {k} \in SUBSET Node
      OBVIOUS
    <3>4. QED BY <1>1, <3>2, <3>3, FS_Subset
  <2>7. QED BY <1>3, <2>4, <2>5, <2>6
<1>6. QED BY <1>4, <1>5

\* Of two players only one counts, whatever links fail and apps restart.
THEOREM TwoPlayersOneCounter ==
    ASSUME Cardinality(Node) <= 2
    PROVE  Spec => []OneCounter
<1>1. ASSUME TypeOK PROVE OneCounter
  <2> SUFFICES ASSUME NEW n \in Node, NEW k \in Node, n # k,
                      MayCount(n, node[n], peers[n]), MayCount(k, node[k], peers[k])
               PROVE  FALSE
    BY DEF OneCounter
  <2>1. Leads(n, peers[n]) /\ Leads(k, peers[k])
    BY DEF MayCount, Leads
  <2>2. n < k /\ k < n
    BY <1>1, <2>1, QuorumOfTwo DEF TypeOK
  <2>3. QED BY <2>2, NodeAssumption
<1>2. QED BY <1>1, TypeCorrect, PTL

\* ... and all links may fail at any time without the two boards parting, as
\* long as the app of the player with the lower key does not restart.
THEOREM TwoPlayersOneGame ==
    ASSUME Cardinality(Node) <= 2, NEW m \in Node \ MayRestart,
           \A n \in Node : m <= n
    PROVE  Spec => [](Agreement /\ NoDesync /\ VotesForThisPosition)
<1>1. TypeOK /\ Wired => MasterStays(m)
  <2>1. ASSUME TypeOK, NEW n \in Node \ {m} PROVE ~Leads(n, peers[n])
    <3>1. m <= n /\ ~(n < m)
      BY NodeAssumption
    <3>2. QED BY <2>1, <3>1, QuorumOfTwo DEF TypeOK
  <2>2. Wired => node[m].phase # "lobby"
    BY DEF Wired
  <2>3. QED BY <2>1, <2>2 DEF MasterStays
<1>2. Spec => []MasterStays(m)
  BY <1>1, WiredAlways, TypeCorrect, PTL
<1>3. /\ Spec /\ []MasterStays(m) => []Agreement
      /\ Spec /\ []MasterStays(m) => []NoDesync
      /\ Spec /\ []MasterStays(m) => []VotesForThisPosition
  BY OneGameForAll, NobodyIsOutOfSync, VotesMeanThisPosition
<1>4. QED BY <1>2, <1>3, PTL

-----------------------------------------------------------------------------
(* Everyone in the same window once all is handled.                        *)

\* The game is not over in s.
Underway(s) == s.phase \in {"starting", "in_progress"}

\* Nobody's app restarts, nobody gives up waiting for a move, every countdown is
\* over before m counts, and whoever connects to m again finds it in its game,
\* or has itself come to the end.
NobodyLeftOut(m) ==
    /\ \A n \in Node : node[n].phase # "lobby" /\ node[n].result # "timeout"
    /\ \A n \in Node : node[n].phase = "starting" =>
          Underway(node[m]) /\ node[m].history = <<>> /\ node[m].round = 0
    /\ \A n \in Node \ {m} : {m, n} \in up /\ n \notin peers[m] =>
          Underway(node[m]) \/ ~Underway(node[n])

\* Window (i, r), round r of turn i, opens before window (j, t).
Earlier(i, r, j, t) == i < j \/ (i = j /\ r < t)

\* In what follows M is m's record, and m has counted C[i] windows of turn i:
\* it has opened those, and the one it has open.
Opened(C, M, i, r) ==
    r < C[i] \/ (Underway(M) /\ i = Len(M.history) /\ r = M.round)

Counted(C, M) ==
    /\ \A i \in Nat : i > Len(M.history) => C[i] = 0
    /\ Underway(M) => M.result = "none" /\ C[Len(M.history)] = M.round

Standing(s) == <<s.phase, s.result, s.history, s.round>>

\* Whoever is in state s is in a window that m opened, or is where m ended.
Reached(C, M, s) ==
    IF Underway(s)
    THEN s.result = "none" /\ Opened(C, M, Len(s.history), s.round)
    ELSE Standing(s) = Standing(M)

\* A player in round r after history h.
At(h, r) ==
    [phase |-> "in_progress", result |-> "none", history |-> h, round |-> r,
     votes |-> NoVotes, closed |-> FALSE, settling |-> FALSE]

IsTally(msg, i, r) ==
    msg.type = "tally_result" /\ Len(msg.before) = i /\ msg.round = r

\* A tally is of a window m counted, and takes whoever is in it to the next
\* that m opened, or to the end; a snapshot tells a window m opened.
Fits(C, M, msg) ==
    /\ msg.type = "tally_result" =>
          /\ msg.round < C[Len(msg.before)]
          /\ Reached(C, M, ApplyTally(At(msg.before, msg.round),
                                      [outcome |-> msg.outcome, move |-> msg.move]))
    /\ msg.type = "game_snapshot" => Opened(C, M, Len(msg.moves), msg.round)

FitsAll(C, M, out) == \A k \in 1..Len(out) : Fits(C, M, out[k])

FitsNet(C, M, queues) == \A p, q \in Node : FitsAll(C, M, queues[<<p, q>>])

\* The tallies in q are of later and later windows.
InOrder(q) ==
    \A k, l \in 1..Len(q) :
        k < l /\ q[k].type = "tally_result" /\ q[l].type = "tally_result" =>
        Earlier(Len(q[k].before), q[k].round, Len(q[l].before), q[l].round)

\* Window (i, r) is not before the one s is in, nor before the one that a
\* snapshot at the head of q takes it to.
Ahead(s, q, i, r) ==
    /\ ~Earlier(i, r, Len(s.history), s.round)
    /\ q # <<>> /\ q[1].type = "game_snapshot" =>
          ~Earlier(i, r, Len(q[1].moves), q[1].round)

\* q has a tally of every window that was counted and that s has yet to pass.
Complete(C, s, q) ==
    \A i, r \in Nat : r < C[i] /\ Ahead(s, q, i, r) =>
        \E k \in 1..Len(q) : IsTally(q[k], i, r)

\* m can tell n what it counts.
InTouch(m, n) == n \in peers[m] /\ {m, n} \in up

KeepsUp(C, m) ==
    /\ Counted(C, node[m])
    /\ \A n \in Node : Reached(C, node[m], node[n])
    /\ FitsNet(C, node[m], net)
    /\ \A n \in Node \ {m} :
          /\ InOrder(net[<<m, n>>])
          /\ Underway(node[n]) /\ InTouch(m, n) => Complete(C, node[n], net[<<m, n>>])
          /\ {m, n} \in up /\ n \notin peers[m] => net[<<m, n>>] = <<>>

KeepUpInv(m) ==
    /\ \A n \in Node : m <= n
    /\ \E C \in [Nat -> Nat] : KeepsUp(C, m)

\* What becomes of m: it stays in its window, or counts it and says so.
Advances(C, M, D, N, out) ==
    /\ D \in [Nat -> Nat] /\ \A i \in Nat : C[i] <= D[i]
    /\ Counted(D, N)
    /\ \A i, r \in Nat : Opened(C, M, i, r) => Opened(D, N, i, r)
    /\ Underway(M) \/ Standing(N) = Standing(M)
    /\ FitsAll(D, N, out)
    /\ InOrder(out)
    /\ \A k \in 1..Len(out) :
          /\ out[k].type # "game_snapshot"
          /\ out[k].type = "tally_result" =>
                \A i, r \in Nat : r < C[i] =>
                    Earlier(i, r, Len(out[k].before), out[k].round)
    /\ \A i, r \in Nat : r < D[i] =>
          r < C[i] \/ \E k \in 1..Len(out) : IsTally(out[k], i, r)

LEMMA ApplyTallyStanding ==
    ASSUME NEW s \in NodeState, s.phase = "in_progress", s.result = "none", NEW t
    PROVE  Standing(ApplyTally(s, t)) = Standing(ApplyTally(At(s.history, s.round), t))
<1> DEFINE a == At(s.history, s.round)
<1>1. /\ a \in NodeState /\ a.phase = "in_progress" /\ a.result = "none"
      /\ a.history = s.history /\ a.round = s.round
  BY NoVotesType DEF At, NodeState, Phases, Results
<1> HIDE DEF a
<1>2. s \in NodeState /\ a \in NodeState
  BY <1>1
<1>3. Standing(PlayMove(s, t.move)) = Standing(PlayMove(a, t.move))
  <2> DEFINE h == Append(s.history, t.move)
  <2>1. Standing(OpenWindow(s, h, 0)) = Standing(OpenWindow(a, h, 0))
    BY <1>1 DEF Standing, OpenWindow, NodeState
  <2>2. Standing([EndGame(s, "engine") EXCEPT !.history = h])
            = Standing([EndGame(a, "engine") EXCEPT !.history = h])
    BY <1>1 DEF Standing, EndGame, NodeState
  <2>3. h = Append(a.history, t.move)
    BY <1>1
  <2>4. PlayMove(s, t.move) = IF GameEnds(h)
            THEN [EndGame(s, "engine") EXCEPT !.history = h] ELSE OpenWindow(s, h, 0)
    BY DEF PlayMove
  <2>5. PlayMove(a, t.move) = IF GameEnds(h)
            THEN [EndGame(a, "engine") EXCEPT !.history = h] ELSE OpenWindow(a, h, 0)
    BY <2>3 DEF PlayMove
  <2> HIDE DEF h
  <2>6. QED BY <2>1, <2>2, <2>4, <2>5
<1>4. Standing(MaybeRevote(s)) = Standing(MaybeRevote(a))
  <2>1. Standing(OpenWindow(s, s.history, s.round + 1))
            = Standing(OpenWindow(a, a.history, a.round + 1))
    BY <1>1 DEF Standing, OpenWindow, NodeState
  <2>2. Standing(EndGame(s, "revotes_exhausted")) = Standing(EndGame(a, "revotes_exhausted"))
    BY <1>1 DEF Standing, EndGame, NodeState
  <2>3. QED BY <1>1, <2>1, <2>2 DEF MaybeRevote
<1>5. QED BY <1>3, <1>4 DEF ApplyTally, a

\* Where a tally takes a player: out of the game, or to a later window.
TakesOn(s, u) ==
    /\ Len(u.history) \in Nat /\ u.round \in Nat /\ Len(s.history) <= Len(u.history)
    /\ \/ u.phase = "finished"
       \/ /\ u.phase = "in_progress" /\ u.result = "none"
          /\ \/ Len(u.history) = Len(s.history) + 1 /\ u.round = 0
             \/ u.history = s.history /\ u.round = s.round + 1

LEMMA ApplyTallyTakesOn ==
    ASSUME NEW s \in NodeState, s.phase = "in_progress", s.result = "none", NEW t
    PROVE  TakesOn(s, ApplyTally(s, t))
<1> DEFINE h == Append(s.history, t.move)
<1>1. Len(h) = Len(s.history) + 1 /\ Len(s.history) \in Nat /\ s.round \in Nat
  <2>1. s.history \in Seq(Move \cup {t.move})
    BY DEF NodeState
  <2>2. QED BY <2>1, AppendProperties DEF NodeState
<1> HIDE DEF h
<1>2. TakesOn(s, OpenWindow(s, h, 0))
  BY <1>1 DEF TakesOn, OpenWindow, NodeState
<1>3. TakesOn(s, [EndGame(s, "engine") EXCEPT !.history = h])
  BY <1>1 DEF TakesOn, EndGame, NodeState
<1>4. TakesOn(s, OpenWindow(s, s.history, s.round + 1))
  BY <1>1 DEF TakesOn, OpenWindow, NodeState
<1>5. TakesOn(s, EndGame(s, "revotes_exhausted"))
  BY <1>1 DEF TakesOn, EndGame, NodeState
<1>6. QED
  BY <1>2, <1>3, <1>4, <1>5 DEF ApplyTally, PlayMove, MaybeRevote, h

LEMMA StandingParts ==
    ASSUME NEW s, NEW t, Standing(s) = Standing(t)
    PROVE  /\ s.phase = t.phase /\ s.result = t.result
           /\ s.history = t.history /\ s.round = t.round
           /\ Underway(s) <=> Underway(t)
BY DEF Standing, Underway

\* All that is said of a player is about where it stands.
LEMMA SameStanding ==
    ASSUME NEW s, NEW t, Standing(s) = Standing(t)
    PROVE  /\ \A C, M : Reached(C, M, s) <=> Reached(C, M, t)
           /\ \A C, i, r : Opened(C, s, i, r) <=> Opened(C, t, i, r)
           /\ \A C : Counted(C, s) <=> Counted(C, t)
           /\ \A C, q : Complete(C, s, q) <=> Complete(C, t, q)
<1>1. /\ s.phase = t.phase /\ s.result = t.result
      /\ s.history = t.history /\ s.round = t.round
  BY StandingParts
<1>2. QED BY <1>1 DEF Reached, Opened, Counted, Complete, Ahead, Underway

-----------------------------------------------------------------------------
(* What m does, and what it says.                                          *)

LEMMA ReachedAdvances ==
    ASSUME NEW C, NEW M, NEW D, NEW N, NEW out, Advances(C, M, D, N, out),
           NEW s, Len(s.history) \in Nat, s.round \in Nat, Reached(C, M, s)
    PROVE  Reached(D, N, s)
<1>1. CASE Underway(s)
  BY <1>1 DEF Reached, Advances
<1>2. CASE ~Underway(s)
  <2>1. Standing(s) = Standing(M)
    BY <1>2 DEF Reached
  <2>2. ~Underway(M)
    BY <1>2, <2>1, StandingParts
  <2>3. QED BY <1>2, <2>1, <2>2 DEF Reached, Advances
<1>3. QED BY <1>1, <1>2

LEMMA FitsAdvances ==
    ASSUME NEW C \in [Nat -> Nat], NEW M, NEW D, NEW N, NEW out,
           Advances(C, M, D, N, out), NEW msg \in Message, Fits(C, M, msg)
    PROVE  Fits(D, N, msg)
<1>1. CASE msg \in TallyMsg /\ msg.type = "tally_result"
  <2> DEFINE a == At(msg.before, msg.round)
             t == [outcome |-> msg.outcome, move |-> msg.move]
  <2>1. /\ msg.before \in Seq(Move) /\ msg.round \in Nat
        /\ Len(msg.before) \in Nat
    BY <1>1 DEF TallyMsg
  <2>2. Reached(C, M, ApplyTally(a, t)) /\ msg.round < C[Len(msg.before)]
    BY <1>1 DEF Fits
  <2>3. a \in NodeState
    BY <2>1, NoVotesType DEF At, NodeState, Phases, Results
  <2>4. /\ Len(ApplyTally(a, t).history) \in Nat
        /\ ApplyTally(a, t).round \in Nat
    <3>1. a.phase = "in_progress" /\ a.result = "none"
      BY DEF At
    <3> HIDE DEF a, t
    <3>2. QED BY <2>3, <3>1, ApplyTallyTakesOn DEF TakesOn
  <2> HIDE DEF a, t
  <2>5. Reached(D, N, ApplyTally(a, t))
    BY <2>2, <2>4, ReachedAdvances
  <2>6. msg.round < D[Len(msg.before)]
    <3>1. \A i \in Nat : C[i] \in Nat /\ D[i] \in Nat /\ C[i] <= D[i]
      BY DEF Advances
    <3>2. \A i, j, k \in Nat : i < j /\ j <= k => i < k
      OBVIOUS
    <3>3. QED BY <2>1, <2>2, <3>1, <3>2
  <2>7. QED BY <1>1, <2>5, <2>6 DEF Fits, a, t
<1>2. CASE msg \in SnapshotMsg /\ msg.type = "game_snapshot"
  BY <1>2 DEF Fits, Advances, SnapshotMsg
<1>3. CASE msg.type \in {"vote", "game_over"}
  BY <1>3 DEF Fits
<1>4. QED BY <1>1, <1>2, <1>3, MessageTypes
LEMMA ReachedItself ==
    ASSUME NEW C, NEW M, Counted(C, M)
    PROVE  Reached(C, M, M)
BY DEF Counted, Reached, Opened

LEMMA OneMore ==
    ASSUME NEW C \in [Nat -> Nat], NEW i0 \in Nat, NEW D, D = [C EXCEPT ![i0] = @ + 1]
    PROVE  /\ D \in [Nat -> Nat] /\ D[i0] = C[i0] + 1
           /\ \A i \in Nat : i # i0 => D[i] = C[i]
           /\ \A i \in Nat : C[i] \in Nat /\ D[i] \in Nat /\ C[i] <= D[i]
OBVIOUS

\* m counts the window it has open.
LEMMA CountAndPublishAdvances ==
    ASSUME NEW C \in [Nat -> Nat], NEW M, NEW s \in NodeState, Standing(s) = Standing(M),
           s.phase = "in_progress", Counted(C, M)
    PROVE  \E D : Advances(C, M, D, CountAndPublish(s).node, CountAndPublish(s).out)
<1> DEFINE i0 == Len(s.history)
           D == [C EXCEPT ![i0] = @ + 1]
           t == TallyMoves(s.votes)
           u == ApplyTally(s, t)
           claim == TallyClaim(s)
<1>1. /\ i0 \in Nat /\ s.round \in Nat /\ s.result = "none" /\ Underway(s)
      /\ C[i0] = s.round /\ \A i \in Nat : i > i0 => C[i] = 0
  <2>1. Counted(C, s)
    BY SameStanding
  <2>2. Underway(s)
    BY DEF Underway
  <2>3. QED BY <2>1, <2>2 DEF Counted, NodeState
<1>2. TakesOn(s, u)
  BY <1>1, ApplyTallyTakesOn
<1>3. /\ claim.type = "tally_result" /\ claim.before = s.history /\ claim.round = s.round
      /\ [outcome |-> claim.outcome, move |-> claim.move] = t
  BY DEF TallyClaim, TallyMoves
<1>4. CountAndPublish(s).node = u /\ CountAndPublish(s).out = <<claim>>
  BY DEF CountAndPublish
<1>0. i0 = Len(s.history)
  OBVIOUS
<1>4a. D = [C EXCEPT ![i0] = @ + 1]
  OBVIOUS
<1> HIDE DEF D, t, u, claim, i0
<1>5. /\ D \in [Nat -> Nat] /\ D[i0] = s.round + 1
      /\ \A i \in Nat : i # i0 => D[i] = C[i]
      /\ \A i \in Nat : C[i] \in Nat /\ D[i] \in Nat /\ C[i] <= D[i]
  BY <1>1, <1>4a, OneMore
<1>6. Counted(D, u)
  <2>1. \A i \in Nat : i > i0 => D[i] = 0
    <3>1. \A i \in Nat : i > i0 => i # i0
      BY <1>1
    <3>2. QED BY <1>1, <1>5, <3>1
  <2>2. \A i \in Nat : i > Len(u.history) => D[i] = 0
    <3>1. Len(u.history) \in Nat /\ i0 <= Len(u.history)
      BY <1>0, <1>2 DEF TakesOn
    <3>2. \A j, i \in Nat : i0 <= j /\ i > j => i > i0
      BY <1>1
    <3>3. QED BY <2>1, <3>1, <3>2
  <2>3. i0 + 1 \in Nat /\ D[i0 + 1] = 0
    BY <1>1, <2>1
  <2>4. Underway(u) => u.result = "none" /\ D[Len(u.history)] = u.round
    BY <1>0, <1>1, <1>2, <1>5, <2>3 DEF TakesOn, Underway
  <2>5. QED BY <2>2, <2>4 DEF Counted
<1>7. ASSUME NEW i \in Nat, NEW r \in Nat, Opened(C, M, i, r) PROVE Opened(D, u, i, r)
  <2>1. Opened(C, s, i, r)
    BY <1>7, SameStanding
  <2>2. r < D[i]
    <3>1. CASE r < C[i]
      BY <1>5, <3>1
    <3>2. CASE i = i0 /\ r = s.round
      BY <1>1, <1>5, <3>2
    <3>3. QED BY <1>0, <2>1, <3>1, <3>2 DEF Opened
  <2>3. QED BY <2>2 DEF Opened
<1>8. Underway(M)
  BY <1>1, StandingParts
<1>9. FitsAll(D, u, <<claim>>)
  <2>1. Reached(D, u, u)
    BY <1>6, ReachedItself
  <2>2. Standing(u) = Standing(ApplyTally(At(s.history, s.round), t))
    BY <1>1, ApplyTallyStanding DEF u
  <2>3. Reached(D, u, ApplyTally(At(s.history, s.round), t))
    BY <2>1, <2>2, SameStanding
  <2>4. s.round < D[i0]
    BY <1>1, <1>5
  <2>5. Fits(D, u, claim)
    BY <1>0, <1>3, <2>3, <2>4 DEF Fits
  <2>6. QED BY <2>5 DEF FitsAll
<1>10. InOrder(<<claim>>)
  BY DEF InOrder
<1>11. ASSUME NEW i \in Nat, NEW r \in Nat, r < C[i] PROVE Earlier(i, r, i0, s.round)
  <2>1. C[i] # 0
    BY <1>5, <1>11
  <2>2. i <= i0
    BY <1>1, <2>1
  <2>3. QED BY <1>1, <1>11, <2>2 DEF Earlier
<1>12. ASSUME NEW i \in Nat, NEW r \in Nat, r < D[i]
       PROVE  r < C[i] \/ IsTally(claim, i, r)
  <2>1. CASE i = i0
    <3>1. r < s.round + 1 /\ C[i] = s.round
      BY <1>1, <1>5, <1>12, <2>1
    <3>2. r < C[i] \/ r = s.round
      BY <1>1, <3>1
    <3>3. QED BY <1>0, <1>3, <2>1, <3>2 DEF IsTally
  <2>2. CASE i # i0
    BY <1>5, <1>12, <2>2
  <2>3. QED BY <2>1, <2>2
<1>13. Advances(C, M, D, u, <<claim>>)
  <2>1. \A k \in 1..Len(<<claim>>) : <<claim>>[k] = claim
    OBVIOUS
  <2>2. 1 \in 1..Len(<<claim>>) /\ <<claim>>[1] = claim
    OBVIOUS
  <2>3. claim.type # "game_snapshot"
    BY <1>3
  <2>4. \A k \in 1..Len(<<claim>>) :
          /\ <<claim>>[k].type # "game_snapshot"
          /\ <<claim>>[k].type = "tally_result" =>
                \A i, r \in Nat : r < C[i] =>
                    Earlier(i, r, Len(<<claim>>[k].before), <<claim>>[k].round)
    BY <1>0, <1>3, <1>11, <2>1, <2>3
  <2>5. \A i, r \in Nat : r < D[i] =>
            r < C[i] \/ \E k \in 1..Len(<<claim>>) : IsTally(<<claim>>[k], i, r)
    BY <1>12, <2>2
  <2>6. QED BY <1>5, <1>6, <1>7, <1>8, <1>9, <1>10, <2>4, <2>5 DEF Advances
<1>14. QED BY <1>4, <1>13

\* m stays in its window and says nothing.
LEMMA SilentAdvances ==
    ASSUME NEW C \in [Nat -> Nat], NEW M, NEW s, Standing(s) = Standing(M), Counted(C, M)
    PROVE  Advances(C, M, C, Silent(s).node, Silent(s).out)
<1>1. Silent(s).node = s /\ Silent(s).out = <<>>
  BY DEF Silent
<1>2. Counted(C, s) /\ \A i, r : Opened(C, M, i, r) => Opened(C, s, i, r)
  BY SameStanding
<1>3. \A i \in Nat : C[i] \in Nat /\ C[i] <= C[i]
  OBVIOUS
<1>4. FitsAll(C, s, <<>>) /\ InOrder(<<>>)
  BY DEF FitsAll, InOrder
<1>5. QED BY <1>1, <1>2, <1>3, <1>4 DEF Advances

LEMMA CountIfEveryoneVotedAdvances ==
    ASSUME NEW C \in [Nat -> Nat], NEW M, NEW s \in NodeState, Standing(s) = Standing(M),
           Counted(C, M), NEW n, NEW ps
    PROVE  \E D : Advances(C, M, D, CountIfEveryoneVoted(n, s, ps).node,
                                    CountIfEveryoneVoted(n, s, ps).out)
BY CountAndPublishAdvances, SilentAdvances DEF CountIfEveryoneVoted

\* What is told after a vote.
LEMMA VoteThenAdvances ==
    ASSUME NEW C, NEW M, NEW D, NEW N, NEW out \in Seq(Message),
           Advances(C, M, D, N, out), NEW msg \in Message, msg.type = "vote"
    PROVE  Advances(C, M, D, N, <<msg>> \o out)
<1> DEFINE all == <<msg>> \o out
<1>1. <<msg>> \in Seq(Message) /\ Len(<<msg>>) = 1 /\ <<msg>>[1] = msg
  OBVIOUS
<1>2. /\ Len(all) = 1 + Len(out) /\ Len(out) \in Nat
      /\ \A k \in 1..(1 + Len(out)) : all[k] = IF k <= 1 THEN <<msg>>[k] ELSE out[k - 1]
  BY <1>1, ConcatProperties
<1>3. /\ all[1] = msg
      /\ \A k \in 1..Len(all) : k = 1 \/ (k - 1 \in 1..Len(out) /\ all[k] = out[k - 1])
      /\ \A k \in 1..Len(out) : k + 1 \in 1..Len(all) /\ all[k + 1] = out[k]
  BY <1>1, <1>2
<1> HIDE DEF all
<1>4. FitsAll(D, N, all)
  <2>1. Fits(D, N, msg)
    BY DEF Fits
  <2>2. FitsAll(D, N, out)
    BY DEF Advances
  <2>3. QED BY <1>3, <2>1, <2>2 DEF FitsAll
<1>5. InOrder(all)
  <2> SUFFICES ASSUME NEW k \in 1..Len(all), NEW l \in 1..Len(all), k < l,
                      all[k].type = "tally_result", all[l].type = "tally_result"
               PROVE  Earlier(Len(all[k].before), all[k].round,
                              Len(all[l].before), all[l].round)
    BY DEF InOrder
  <2>1. k # 1 /\ l # 1
    BY <1>3
  <2>2. /\ k - 1 \in 1..Len(out) /\ l - 1 \in 1..Len(out) /\ k - 1 < l - 1
        /\ all[k] = out[k - 1] /\ all[l] = out[l - 1]
    BY <1>2, <1>3, <2>1
  <2>3. InOrder(out)
    BY DEF Advances
  <2>4. QED BY <2>2, <2>3 DEF InOrder
<1>6. \A k \in 1..Len(all) :
          /\ all[k].type # "game_snapshot"
          /\ all[k].type = "tally_result" =>
                \A i, r \in Nat : r < C[i] =>
                    Earlier(i, r, Len(all[k].before), all[k].round)
  BY <1>3 DEF Advances
<1>7. \A i, r \in Nat : r < D[i] =>
          r < C[i] \/ \E k \in 1..Len(all) : IsTally(all[k], i, r)
  BY <1>3 DEF Advances
<1>8. Advances(C, M, D, N, all)
  BY <1>4, <1>5, <1>6, <1>7 DEF Advances
<1>9. QED BY <1>8 DEF all
\* all is what is in q, and then what is in out.
Joins(all, q, out) ==
    /\ all \in Seq(Message) /\ Len(all) = Len(q) + Len(out)
    /\ Len(q) \in Nat /\ Len(out) \in Nat
    /\ \A k \in 1..Len(q) : k \in 1..Len(all) /\ all[k] = q[k]
    /\ \A k \in 1..Len(out) : Len(q) + k \in 1..Len(all) /\ all[Len(q) + k] = out[k]
    /\ \A k \in 1..Len(all) :
          \/ k \in 1..Len(q) /\ all[k] = q[k]
          \/ k - Len(q) \in 1..Len(out) /\ k > Len(q) /\ all[k] = out[k - Len(q)]

LEMMA Joined ==
    ASSUME NEW q \in Seq(Message), NEW out \in Seq(Message)
    PROVE  Joins(q \o out, q, out)
<1> DEFINE all == q \o out
<1>1. /\ all \in Seq(Message) /\ Len(all) = Len(q) + Len(out)
      /\ \A k \in 1..(Len(q) + Len(out)) :
            all[k] = IF k <= Len(q) THEN q[k] ELSE out[k - Len(q)]
  BY ConcatProperties
<1>2. Len(q) \in Nat /\ Len(out) \in Nat
  OBVIOUS
<1>3. \A k \in 1..Len(q) : k \in 1..Len(all) /\ k <= Len(q)
  BY <1>1, <1>2
<1>4. \A k \in 1..Len(out) :
          Len(q) + k \in 1..Len(all) /\ ~(Len(q) + k <= Len(q)) /\ Len(q) + k - Len(q) = k
  BY <1>1, <1>2
<1>5. \A k \in 1..Len(all) :
          \/ k \in 1..Len(q) /\ k <= Len(q)
          \/ k - Len(q) \in 1..Len(out) /\ k > Len(q) /\ ~(k <= Len(q))
  BY <1>1, <1>2
<1>6. QED BY <1>1, <1>2, <1>3, <1>4, <1>5 DEF Joins

LEMMA FitsJoined ==
    ASSUME NEW D, NEW N, NEW q \in Seq(Message), NEW out \in Seq(Message),
           FitsAll(D, N, q), FitsAll(D, N, out)
    PROVE  FitsAll(D, N, q \o out)
<1> DEFINE all == q \o out
<1>1. Joins(all, q, out)
  BY Joined
<1> HIDE DEF all
<1>2. FitsAll(D, N, all)
  BY <1>1 DEF Joins, FitsAll
<1>3. QED BY <1>2 DEF all

\* What a tally under way names.
LEMMA TallyNames ==
    ASSUME NEW q \in Seq(Message), NEW k \in 1..Len(q), q[k].type = "tally_result"
    PROVE  /\ q[k] \in TallyMsg
           /\ Len(q[k].before) \in Nat /\ q[k].round \in Nat
<1>1. q[k] \in Message
  OBVIOUS
<1>2. q[k] \in TallyMsg
  BY <1>1, MessageTypes
<1>3. q[k].before \in Seq(Move) /\ q[k].round \in Nat
  BY <1>2 DEF TallyMsg
<1>4. QED BY <1>2, <1>3

\* What m says comes after what it said before, and leaves nothing out.
LEMMA TellsInOrder ==
    ASSUME NEW C \in [Nat -> Nat], NEW M, NEW D, NEW N,
           NEW q \in Seq(Message), NEW out \in Seq(Message),
           Advances(C, M, D, N, out), FitsAll(C, M, q), InOrder(q)
    PROVE  InOrder(q \o out)
<1> DEFINE all == q \o out
<1>0. Joins(all, q, out)
  BY Joined
<1> HIDE DEF all
<1> SUFFICES ASSUME NEW k \in 1..Len(all), NEW l \in 1..Len(all), k < l,
                    all[k].type = "tally_result", all[l].type = "tally_result"
             PROVE  Earlier(Len(all[k].before), all[k].round,
                            Len(all[l].before), all[l].round)
  BY DEF InOrder, all
<1>1. InOrder(out)
  BY DEF Advances
<1>a. \A j \in 1..Len(all) :
          \/ j \in 1..Len(q) /\ all[j] = q[j]
          \/ j - Len(q) \in 1..Len(out) /\ j > Len(q) /\ all[j] = out[j - Len(q)]
  BY <1>0 DEF Joins
<1>2. CASE l \in 1..Len(q) /\ all[l] = q[l]
  <2>0. Len(q) \in Nat /\ Len(all) \in Nat
    <3>1. Len(q) \in Nat /\ Len(out) \in Nat /\ Len(all) = Len(q) + Len(out)
      BY <1>0 DEF Joins
    <3>2. QED BY <3>1
  <2>1. ~(k > Len(q))
    <3>1. k \in Nat /\ l \in Nat /\ l <= Len(q)
      BY <1>2, <2>0
    <3>2. QED BY <2>0, <3>1
  <2>2. k \in 1..Len(q) /\ all[k] = q[k]
    BY <1>a, <2>1
  <2>3. QED BY <1>2, <2>2 DEF InOrder
<1>3. CASE l - Len(q) \in 1..Len(out) /\ l > Len(q) /\ all[l] = out[l - Len(q)]
  <2>1. CASE k \in 1..Len(q) /\ all[k] = q[k]
    <3>1. Len(q[k].before) \in Nat /\ q[k].round \in Nat
      BY <2>1, TallyNames
    <3>2. q[k].round < C[Len(q[k].before)]
      BY <2>1 DEF FitsAll, Fits
    <3>3. QED BY <1>3, <2>1, <3>1, <3>2 DEF Advances
  <2>2. CASE k - Len(q) \in 1..Len(out) /\ all[k] = out[k - Len(q)]
    <3> DEFINE kk == k - Len(q)
               ll == l - Len(q)
    <3>1. kk \in 1..Len(out) /\ ll \in 1..Len(out) /\ kk < ll
      BY <1>3, <2>2
    <3>2. all[k] = out[kk] /\ all[l] = out[ll]
      BY <1>3, <2>2
    <3> HIDE DEF kk, ll
    <3>3. QED BY <1>1, <3>1, <3>2 DEF InOrder
  <2>3. QED BY <1>a, <2>1, <2>2
<1>4. QED BY <1>a, <1>2, <1>3

LEMMA CompleteAdvances ==
    ASSUME NEW C \in [Nat -> Nat], NEW M, NEW D, NEW N,
           NEW q \in Seq(Message), NEW out \in Seq(Message),
           Advances(C, M, D, N, out), NEW s, Complete(C, s, q)
    PROVE  Complete(D, s, q \o out)
<1> DEFINE all == q \o out
<1>0. Joins(all, q, out)
  BY Joined
<1> HIDE DEF all
<1> SUFFICES ASSUME NEW i \in Nat, NEW r \in Nat, r < D[i], Ahead(s, all, i, r)
             PROVE  \E k \in 1..Len(all) : IsTally(all[k], i, r)
  BY DEF Complete, all
<1>1. Ahead(s, q, i, r)
  <2>1. q # <<>> => all # <<>> /\ all[1] = q[1]
    <3>1. q # <<>> => 1 \in 1..Len(q)
      BY EmptySeq
    <3>2. q # <<>> => 1 \in 1..Len(all) /\ all[1] = q[1]
      BY <1>0, <3>1 DEF Joins
    <3>3. QED BY <3>2
  <2>2. QED BY <2>1 DEF Ahead
<1>2. CASE r < C[i]
  <2>1. PICK k \in 1..Len(q) : IsTally(q[k], i, r)
    BY <1>1, <1>2 DEF Complete
  <2>2. QED BY <1>0, <2>1 DEF Joins
<1>3. CASE \E k \in 1..Len(out) : IsTally(out[k], i, r)
  <2>1. PICK k \in 1..Len(out) : IsTally(out[k], i, r)
    BY <1>3
  <2>2. \A j \in 1..Len(out) : Len(q) + j \in 1..Len(all) /\ all[Len(q) + j] = out[j]
    BY <1>0 DEF Joins
  <2>3. QED BY <2>1, <2>2
<1>4. QED BY <1>2, <1>3 DEF Advances

LEMMA SentFits ==
    ASSUME NEW D, NEW N, NEW queues \in Channels, FitsNet(D, N, queues),
           NEW n \in Node, NEW ps, NEW out \in Seq(Message), FitsAll(D, N, out)
    PROVE  FitsNet(D, N, Sent(queues, n, ps, out))
<1> SUFFICES ASSUME NEW p \in Node, NEW q \in Node
             PROVE  FitsAll(D, N, Sent(queues, n, ps, out)[<<p, q>>])
  BY DEF FitsNet
<1>1. queues[<<p, q>>] \in Seq(Message) /\ FitsAll(D, N, queues[<<p, q>>])
  BY DEF Channels, FitsNet
<1>2. FitsAll(D, N, queues[<<p, q>>] \o out)
  BY <1>1, FitsJoined
<1>3. QED BY <1>1, <1>2 DEF Sent

-----------------------------------------------------------------------------
(* What another player does with what it is told.                          *)

\* Where msg takes a player that does not count, from s to t.
Takes(s, msg, t) ==
    \/ /\ Standing(t) = Standing(s)
       /\ s.phase = "in_progress" =>
             /\ ~IsTally(msg, Len(s.history), s.round)
             /\ msg.type = "game_snapshot" => ~ShowsMore(s, msg)
    \/ /\ s.phase = "in_progress" /\ IsTally(msg, Len(s.history), s.round)
       /\ Standing(t) = Standing(ApplyTally(At(msg.before, msg.round),
                                 [outcome |-> msg.outcome, move |-> msg.move]))
    \/ /\ s.phase = "in_progress" /\ msg.type = "game_snapshot" /\ ShowsMore(s, msg)
       /\ Standing(t) = <<s.phase, s.result, msg.moves, msg.round>>
    \/ t.result = "timeout"

\* The player says nothing, and stands where msg takes it.
Quietly(s, msg, r) == r.out = <<>> /\ Takes(s, msg, r.node)

LEMMA NotCounting ==
    ASSUME NEW n, NEW s, NEW ps, s.phase = "in_progress" => ~Leads(n, ps)
    PROVE  CountIfEveryoneVoted(n, s, ps) = Silent(s)
BY DEF CountIfEveryoneVoted, MayCount, Leads

LEMMA StayingPut ==
    ASSUME NEW s, NEW t, NEW msg, Standing(t) = Standing(s),
           ~(s.phase = "in_progress" /\ IsTally(msg, Len(s.history), s.round)),
           ~(s.phase = "in_progress" /\ msg.type = "game_snapshot" /\ ShowsMore(s, msg))
    PROVE  Quietly(s, msg, Silent(t))
BY DEF Quietly, Takes, Silent

LEMMA HandleVoteQuietly ==
    ASSUME NEW n, NEW s \in NodeState, NEW ps,
           s.phase = "in_progress" => ~Leads(n, ps),
           NEW p \in Node, NEW msg \in VoteMsg, msg.type = "vote"
    PROVE  Quietly(s, msg, HandleVote(n, s, ps, p, msg))
<1> DEFINE t == [s EXCEPT !.votes[p] = msg.move]
<1>1. Standing(t) = Standing(s) /\ t.phase = s.phase
  BY DEF Standing, NodeState
<1> HIDE DEF t
<1>2. CountIfEveryoneVoted(n, t, ps) = Silent(t)
  BY <1>1, NotCounting
<1>3. Quietly(s, msg, Silent(t)) /\ Quietly(s, msg, Silent(s))
  BY <1>1, StayingPut DEF IsTally
<1>4. QED BY <1>2, <1>3 DEF HandleVote, t

LEMMA HandleTallyResultQuietly ==
    ASSUME NEW H \in Seq(Move), NEW m \in Node, NEW n \in Node,
           NEW s \in NodeState, Follows(H, s),
           s.phase = "in_progress" => s.result = "none",
           NEW ps, NEW p \in Node, IsMaster(p, Node, Connected(n, ps)),
           NEW claim \in TallyMsg, claim.type = "tally_result", Tells(H, m, p, n, claim)
    PROVE  Quietly(s, claim, HandleTallyResult(n, s, ps, p, claim))
<1>1. claim.votes \in Votes /\ claim.before \in Seq(Move) /\ s.history \in Seq(Move)
  BY DEF TallyMsg, NodeState
<1>2. Len(claim.before) = Len(s.history) => claim.before = s.history
  BY <1>1, PrefixesCompare DEF Tells, Follows
<1>3. CASE s.phase = "in_progress" /\ IsTally(claim, Len(s.history), s.round)
  <2> DEFINE c == [outcome |-> claim.outcome, move |-> claim.move]
             t == ApplyTally(s, c)
  <2>1. claim.before = s.history /\ claim.round = s.round /\ TallyMoves(claim.votes) = c
    BY <1>2, <1>3 DEF IsTally, Tells
  <2>2. VerifyTally(claim, s.history, SideToMove(s.history), Legal(s.history))
    BY <2>1 DEF Tells, VerifyTally, VotesPass
  <2>3. HandleTallyResult(n, s, ps, p, claim) = Silent(t)
    BY <1>3, <2>1, <2>2 DEF HandleTallyResult
  <2>4. Standing(t) = Standing(ApplyTally(At(s.history, s.round), c))
    BY <1>3, ApplyTallyStanding
  <2> HIDE DEF t, c
  <2>5. Takes(s, claim, t)
    BY <1>3, <2>1, <2>4 DEF Takes, c
  <2>6. QED BY <2>3, <2>5 DEF Quietly, Silent
<1>4. CASE ~(s.phase = "in_progress" /\ IsTally(claim, Len(s.history), s.round))
  <2>1. HandleTallyResult(n, s, ps, p, claim) = Silent(s)
    BY <1>4 DEF HandleTallyResult, IsTally
  <2>2. QED BY <1>4, <2>1, StayingPut
<1>5. QED BY <1>3, <1>4

LEMMA MergedStanding ==
    ASSUME NEW s \in NodeState, NEW votes
    PROVE  Standing(MergeVotes(s, votes)) = Standing(s)
BY DEF Standing, MergeVotes, NodeState

LEMMA HandleGameSnapshotQuietly ==
    ASSUME NEW H \in Seq(Move), NEW m \in Node, NEW n \in Node,
           NEW s \in NodeState, Follows(H, s), NEW ps,
           s.phase = "in_progress" => ~Leads(n, ps), NEW p,
           NEW snap \in SnapshotMsg, snap.type = "game_snapshot", Tells(H, m, p, n, snap)
    PROVE  Quietly(s, snap, HandleGameSnapshot(n, s, ps, snap))
<1> DEFINE caught == IF ShowsMore(s, snap)
                     THEN OpenWindow(s, snap.moves, snap.round) ELSE s
           merged == MergeVotes(caught, snap.votes)
<1>1. /\ snap.moves \in Seq(Move) /\ snap.round \in Nat /\ s.history \in Seq(Move)
      /\ ~HistoriesDiffer(s.history, snap.moves)
  <2>1. snap.moves \in Seq(Move) /\ snap.round \in Nat /\ s.history \in Seq(Move)
    BY DEF SnapshotMsg, NodeState
  <2>2. QED BY <2>1, PrefixesCompare DEF Tells, Follows
<1>2. ~IsTally(snap, Len(s.history), s.round)
  BY DEF IsTally
<1>3. CASE s.phase # "in_progress"
  BY <1>3, StayingPut DEF HandleGameSnapshot
<1>4. CASE s.phase = "in_progress"
  <2>1. caught \in NodeState /\ caught.phase = "in_progress"
    BY <1>1, <1>4, OpenWindowType DEF OpenWindow, NodeState
  <2>2. ShowsMore(s, snap) =>
            Standing(caught) = <<s.phase, s.result, snap.moves, snap.round>>
    BY DEF Standing, OpenWindow, NodeState
  <2>3. ~ShowsMore(s, snap) => Standing(caught) = Standing(s)
    OBVIOUS
  <2> HIDE DEF caught
  <2>4. Standing(merged) = Standing(caught) /\ merged.phase = "in_progress"
    BY <2>1, MergedStanding, StandingParts
  <2> HIDE DEF merged
  <2>5. CountIfEveryoneVoted(n, merged, ps) = Silent(merged)
    BY <1>4, <2>4, NotCounting
  <2>6. \A t : Standing(t) = Standing(caught) => Quietly(s, snap, Silent(t))
    BY <1>2, <1>4, <2>2, <2>3 DEF Quietly, Takes, Silent
  <2>7. Len(snap.moves) < Len(s.history) => Quietly(s, snap, Silent(s))
    <3>1. Len(snap.moves) < Len(s.history) => ~ShowsMore(s, snap)
      BY <1>1 DEF ShowsMore
    <3>2. QED BY <1>2, <3>1, StayingPut
  <2>8. /\ Quietly(s, snap, Silent(caught))
        /\ Quietly(s, snap, CountIfEveryoneVoted(n, merged, ps))
    BY <2>4, <2>5, <2>6
  <2>9. QED BY <1>1, <1>4, <2>7, <2>8 DEF HandleGameSnapshot, caught, merged
<1>5. QED BY <1>3, <1>4

LEMMA HandleGameOverQuietly ==
    ASSUME NEW s \in NodeState, NEW msg, msg.type = "game_over", NEW believed
    PROVE  Quietly(s, msg, HandleGameOver(s, believed))
<1>1. EndGame(s, "timeout").result = "timeout"
  BY DEF EndGame, NodeState
<1>2. Quietly(s, msg, Silent(EndGame(s, "timeout")))
  BY <1>1 DEF Quietly, Takes, Silent
<1>3. Quietly(s, msg, Silent(s))
  BY StayingPut DEF IsTally
<1>4. QED BY <1>2, <1>3 DEF HandleGameOver

LEMMA HandledQuietly ==
    ASSUME NEW H \in Seq(Move), NEW m \in Node, NEW n \in Node,
           NEW s \in NodeState, Follows(H, s),
           s.phase = "in_progress" => s.result = "none", NEW ps,
           s.phase = "in_progress" => ~Leads(n, ps),
           NEW p \in Node, p = m => IsMaster(p, Node, Connected(n, ps)),
           NEW msg \in Message, Tells(H, m, p, n, msg), NEW believed
    PROVE  Quietly(s, msg, Handled(n, s, ps, p, msg, believed))
<1>1. CASE msg \in VoteMsg /\ msg.type = "vote"
  BY <1>1, HandleVoteQuietly DEF Handled
<1>2. CASE msg \in TallyMsg /\ msg.type = "tally_result"
  <2>1. p = m
    BY <1>2 DEF Tells
  <2>2. QED BY <1>2, <2>1, HandleTallyResultQuietly DEF Handled
<1>3. CASE msg \in SnapshotMsg /\ msg.type = "game_snapshot"
  BY <1>3, HandleGameSnapshotQuietly DEF Handled
<1>4. CASE msg \in GameOverMsg /\ msg.type = "game_over"
  BY <1>4, HandleGameOverQuietly DEF Handled
<1>5. QED BY <1>1, <1>2, <1>3, <1>4, MessageTypes

LEMMA TakesReached ==
    ASSUME NEW C, NEW M, NEW s, NEW t, NEW msg, Takes(s, msg, t),
           t.result # "timeout", Reached(C, M, s), Fits(C, M, msg)
    PROVE  Reached(C, M, t)
<1>1. CASE Standing(t) = Standing(s)
  BY <1>1, SameStanding
<1>2. CASE /\ s.phase = "in_progress" /\ IsTally(msg, Len(s.history), s.round)
           /\ Standing(t) = Standing(ApplyTally(At(msg.before, msg.round),
                                     [outcome |-> msg.outcome, move |-> msg.move]))
  <2>1. Reached(C, M, ApplyTally(At(msg.before, msg.round),
                                 [outcome |-> msg.outcome, move |-> msg.move]))
    BY <1>2 DEF IsTally, Fits
  <2>2. QED BY <1>2, <2>1, SameStanding
<1>3. CASE /\ s.phase = "in_progress" /\ msg.type = "game_snapshot"
           /\ Standing(t) = <<s.phase, s.result, msg.moves, msg.round>>
  <2>1. /\ t.phase = "in_progress" /\ t.result = s.result
        /\ t.history = msg.moves /\ t.round = msg.round
    BY <1>3 DEF Standing
  <2>2. s.result = "none" /\ Opened(C, M, Len(msg.moves), msg.round)
    BY <1>3 DEF Reached, Underway, Fits
  <2>3. QED BY <2>1, <2>2 DEF Reached, Underway
<1>4. QED BY <1>1, <1>2, <1>3 DEF Takes

\* What is left of a queue once its head is handled.
LEMMA RestOf ==
    ASSUME NEW q \in Seq(Message), q # <<>>
    PROVE  /\ Tail(q) \in Seq(Message) /\ Len(q) \in Nat /\ Len(Tail(q)) \in Nat
           /\ 1 \in 1..Len(q) /\ Head(q) = q[1] /\ q[1] \in Message
           /\ \A k \in 1..Len(Tail(q)) : k + 1 \in 1..Len(q) /\ Tail(q)[k] = q[k + 1]
           /\ \A k \in 1..Len(q) : k = 1 \/
                 \E l \in 1..Len(Tail(q)) : k = l + 1 /\ Tail(q)[l] = q[k]
<1>1. /\ Len(q) \in Nat /\ Len(q) # 0 /\ Head(q) = q[1]
      /\ Tail(q) \in Seq(Message) /\ Len(Tail(q)) = Len(q) - 1
      /\ \A k \in 1..Len(Tail(q)) : Tail(q)[k] = q[k + 1]
  BY HeadTailProperties, EmptySeq
<1>2. 1 \in 1..Len(q) /\ \A k \in 1..Len(Tail(q)) : k + 1 \in 1..Len(q)
  BY <1>1
<1>3. q[1] \in Message
  BY <1>2
<1>4. ASSUME NEW k \in 1..Len(q), k # 1
      PROVE  \E l \in 1..Len(Tail(q)) : k = l + 1 /\ Tail(q)[l] = q[k]
  <2>1. k - 1 \in 1..Len(Tail(q)) /\ k = (k - 1) + 1
    BY <1>1, <1>4
  <2>2. Tail(q)[k - 1] = q[k]
    BY <1>1, <2>1
  <2>3. QED BY <2>1, <2>2
<1>5. QED BY <1>1, <1>2, <1>3, <1>4

LEMMA RestFits ==
    ASSUME NEW C, NEW M, NEW q \in Seq(Message), q # <<>>, FitsAll(C, M, q)
    PROVE  Fits(C, M, Head(q)) /\ FitsAll(C, M, Tail(q))
BY RestOf DEF FitsAll

LEMMA RestInOrder ==
    ASSUME NEW q \in Seq(Message), q # <<>>, InOrder(q)
    PROVE  InOrder(Tail(q))
<1> DEFINE rest == Tail(q)
<1>1. /\ Len(rest) \in Nat
      /\ \A k \in 1..Len(rest) : k + 1 \in 1..Len(q) /\ rest[k] = q[k + 1]
  BY RestOf
<1> HIDE DEF rest
<1>2. \A k, l \in 1..Len(rest) : k < l => k + 1 < l + 1
  BY <1>1
<1>3. InOrder(rest)
  BY <1>1, <1>2 DEF InOrder
<1>4. QED BY <1>3 DEF rest

\* The tallies that t has yet to pass are still to be handled.
LEMMA RestComplete ==
    ASSUME NEW C, NEW s, NEW t, NEW q \in Seq(Message), q # <<>>, Complete(C, s, q),
           \A i, r \in Nat : r < C[i] /\ ~Earlier(i, r, Len(t.history), t.round) =>
              /\ ~Earlier(i, r, Len(s.history), s.round)
              /\ q[1].type = "game_snapshot" =>
                    ~Earlier(i, r, Len(q[1].moves), q[1].round)
              /\ ~IsTally(q[1], i, r)
    PROVE  Complete(C, t, Tail(q))
<1> SUFFICES ASSUME NEW i \in Nat, NEW r \in Nat, r < C[i], Ahead(t, Tail(q), i, r)
             PROVE  \E k \in 1..Len(Tail(q)) : IsTally(Tail(q)[k], i, r)
  BY DEF Complete
<1>1. Ahead(s, q, i, r) /\ ~IsTally(q[1], i, r)
  BY DEF Ahead
<1>2. PICK k \in 1..Len(q) : IsTally(q[k], i, r)
  BY <1>1 DEF Complete
<1>3. k # 1
  BY <1>1, <1>2
<1>4. QED BY <1>2, <1>3, RestOf

LEMMA LaterComplete ==
    ASSUME NEW C, NEW s, NEW t, NEW q, Complete(C, s, q),
           \A i, r \in Nat : r < C[i] /\ ~Earlier(i, r, Len(t.history), t.round) =>
              ~Earlier(i, r, Len(s.history), s.round)
    PROVE  Complete(C, t, q)
BY DEF Complete, Ahead

\* A window that is not before (j, u) is not before an earlier one.
LEMMA EarlierTransitive ==
    ASSUME NEW i \in Nat, NEW r \in Nat, NEW j \in Nat, NEW u \in Nat,
           NEW k \in Nat, NEW v \in Nat, ~Earlier(i, r, j, u),
           Earlier(k, v, j, u) \/ (k = j /\ v = u)
    PROVE  ~Earlier(i, r, k, v)
BY DEF Earlier

\* Wherever a player that does not count is taken, it is not back.
LEMMA TakesLater ==
    ASSUME NEW s \in NodeState, NEW t, NEW msg \in Message, Takes(s, msg, t),
           t.result # "timeout", Underway(t), s.phase = "in_progress"
    PROVE  /\ Len(t.history) \in Nat /\ t.round \in Nat
           /\ \/ Standing(t) = Standing(s) /\ ~IsTally(msg, Len(s.history), s.round)
              \/ Earlier(Len(s.history), s.round, Len(t.history), t.round)
<1>1. Len(s.history) \in Nat /\ s.round \in Nat
  <2>1. s.history \in Seq(Move) /\ s.round \in Nat
    BY DEF NodeState
  <2>2. QED BY <2>1
<1>2. CASE Standing(t) = Standing(s) /\ ~IsTally(msg, Len(s.history), s.round)
  <2>1. t.history = s.history /\ t.round = s.round
    BY <1>2, StandingParts
  <2>2. QED BY <1>1, <1>2, <2>1
<1>3. CASE /\ IsTally(msg, Len(s.history), s.round)
           /\ Standing(t) = Standing(ApplyTally(At(msg.before, msg.round),
                                     [outcome |-> msg.outcome, move |-> msg.move]))
  <2> DEFINE a == At(msg.before, msg.round)
             u == ApplyTally(a, [outcome |-> msg.outcome, move |-> msg.move])
  <2>1. msg \in TallyMsg
    BY <1>3, MessageTypes DEF IsTally
  <2>2. a \in NodeState /\ a.phase = "in_progress" /\ a.result = "none"
        /\ a.history = msg.before /\ a.round = msg.round
    BY <2>1, NoVotesType DEF At, NodeState, Phases, Results, TallyMsg
  <2> HIDE DEF a
  <2>3. TakesOn(a, u)
    BY <2>2, ApplyTallyTakesOn
  <2> HIDE DEF u
  <2>4. Underway(u) /\ t.history = u.history /\ t.round = u.round
    BY <1>3, StandingParts DEF u, a
  <2>5. Len(a.history) = Len(s.history) /\ a.round = s.round
    BY <1>3, <2>2 DEF IsTally
  <2>6. QED BY <1>1, <2>3, <2>4, <2>5 DEF TakesOn, Underway, Earlier
<1>4. CASE /\ msg.type = "game_snapshot" /\ ShowsMore(s, msg)
           /\ Standing(t) = <<s.phase, s.result, msg.moves, msg.round>>
  <2>1. msg \in SnapshotMsg
    BY <1>4, MessageTypes
  <2>2. msg.moves \in Seq(Move) /\ msg.round \in Nat
    BY <2>1 DEF SnapshotMsg
  <2>3. t.history = msg.moves /\ t.round = msg.round
    BY <1>4 DEF Standing
  <2>4. QED BY <1>1, <1>4, <2>2, <2>3 DEF ShowsMore, Earlier
<1>5. QED BY <1>2, <1>3, <1>4 DEF Takes

LEMMA NoneCounted ==
    ASSUME NEW C, \A i \in Nat : C[i] = 0
    PROVE  \A s, q : Complete(C, s, q)
BY DEF Complete

LEMMA TakesUnderway ==
    ASSUME NEW s, NEW t, NEW msg, Takes(s, msg, t), t.result # "timeout",
           Underway(t)
    PROVE  Underway(s) /\ (s.phase = "starting" => Standing(t) = Standing(s))
BY StandingParts DEF Takes, Underway

LEMMA WindowType ==
    ASSUME NEW s \in NodeState
    PROVE  Len(s.history) \in Nat /\ s.round \in Nat
<1>1. s.history \in Seq(Move) /\ s.round \in Nat
  BY DEF NodeState
<1>2. QED BY <1>1

\* A tally at the head of the queue is of a window that a player who ignores it
\* is past.
LEMMA IgnoredTally ==
    ASSUME NEW C \in [Nat -> Nat], NEW M \in NodeState, Counted(C, M),
           NEW s \in NodeState, s.phase = "in_progress", Reached(C, M, s),
           NEW q \in Seq(Message), q # <<>>, FitsAll(C, M, q), InOrder(q),
           Complete(C, s, q), ~IsTally(q[1], Len(s.history), s.round),
           NEW i \in Nat, NEW r \in Nat, IsTally(q[1], i, r)
    PROVE  Earlier(i, r, Len(s.history), s.round)
<1> DEFINE j == Len(s.history)
           u == s.round
<1>1. j \in Nat /\ u \in Nat /\ Len(M.history) \in Nat /\ M.round \in Nat
  BY WindowType
<1>2. 1 \in 1..Len(q) /\ q[1].type = "tally_result" /\ r < C[i]
  BY RestOf DEF FitsAll, Fits, IsTally
<1>3. ~(i = j /\ r = u)
  OBVIOUS
<1>4. Opened(C, M, j, u)
  BY DEF Reached, Underway
<1> HIDE DEF j, u
<1>5. CASE u < C[j]
  <2>1. Ahead(s, q, j, u)
    <3>1. ~Earlier(j, u, j, u)
      BY <1>1 DEF Earlier
    <3>2. QED BY <1>2, <3>1 DEF Ahead, j, u
  <2>2. PICK k \in 1..Len(q) : IsTally(q[k], j, u)
    BY <1>1, <1>5, <2>1 DEF Complete
  <2>3. k # 1
    BY <2>2 DEF j, u
  <2>4. 1 < k
    BY <2>3
  <2>5. Earlier(i, r, j, u)
    BY <1>2, <2>2, <2>4 DEF InOrder, IsTally
  <2>6. QED BY <2>5 DEF j, u
<1>6. CASE Underway(M) /\ j = Len(M.history) /\ u = M.round
  <2>1. C[i] # 0 /\ (i = j => C[i] = u) /\ C[i] \in Nat
    <3>1. C[i] \in Nat
      OBVIOUS
    <3>2. C[i] # 0
      BY <1>2, <3>1
    <3>3. QED BY <1>6, <3>1, <3>2 DEF Counted
  <2>2. ~(i > j)
    BY <1>6, <2>1 DEF Counted
  <2>3. Earlier(i, r, j, u)
    BY <1>1, <1>2, <2>1, <2>2 DEF Earlier
  <2>4. QED BY <2>3 DEF j, u
<1>7. QED BY <1>4, <1>5, <1>6 DEF Opened

\* A snapshot shows no later window than the one its reader then is in.
LEMMA SnapshotPassed ==
    ASSUME NEW s \in NodeState, s.phase = "in_progress",
           NEW msg \in Message, msg.type = "game_snapshot",
           NEW t, Takes(s, msg, t), t.result # "timeout",
           NEW i \in Nat, NEW r \in Nat,
           ~Earlier(i, r, Len(s.history), s.round),
           ~Earlier(i, r, Len(t.history), t.round)
    PROVE  ~Earlier(i, r, Len(msg.moves), msg.round)
<1>1. Len(msg.moves) \in Nat /\ msg.round \in Nat
  <2>1. msg \in SnapshotMsg
    BY MessageTypes
  <2>2. msg.moves \in Seq(Move) /\ msg.round \in Nat
    BY <2>1 DEF SnapshotMsg
  <2>3. QED BY <2>2
<1>2. Len(s.history) \in Nat /\ s.round \in Nat
  BY WindowType
<1>3. CASE ShowsMore(s, msg)
  <2>1. Standing(t) = <<s.phase, s.result, msg.moves, msg.round>>
    BY <1>3 DEF Takes, IsTally
  <2>2. t.history = msg.moves /\ t.round = msg.round
    BY <2>1 DEF Standing
  <2>3. QED BY <2>2
<1>4. CASE ~ShowsMore(s, msg)
  <2>1. \/ Len(msg.moves) = Len(s.history) /\ msg.round = s.round
        \/ Earlier(Len(msg.moves), msg.round, Len(s.history), s.round)
    BY <1>1, <1>2, <1>4 DEF ShowsMore, Earlier
  <2>2. QED BY <1>1, <1>2, <2>1, EarlierTransitive
<1>5. QED BY <1>3, <1>4

\* A player that handles what m told it.
LEMMA ToldByMaster ==
    ASSUME NEW C \in [Nat -> Nat], NEW M \in NodeState, Counted(C, M),
           NEW s \in NodeState, Reached(C, M, s),
           s.phase = "starting" => \A i \in Nat : C[i] = 0,
           NEW q \in Seq(Message), q # <<>>, FitsAll(C, M, q), InOrder(q),
           Underway(s) => Complete(C, s, q),
           NEW t, Takes(s, Head(q), t), t.result # "timeout", Underway(t)
    PROVE  Complete(C, t, Tail(q))
<1>1. CASE s.phase = "starting"
  BY <1>1, NoneCounted
<1>2. CASE s.phase = "in_progress"
  <2>1. Complete(C, s, q)
    BY <1>2 DEF Underway
  <2>2. Head(q) = q[1] /\ q[1] \in Message
    BY RestOf
  <2>3. /\ Len(s.history) \in Nat /\ s.round \in Nat
        /\ Len(t.history) \in Nat /\ t.round \in Nat
        /\ \/ Standing(t) = Standing(s) /\ ~IsTally(q[1], Len(s.history), s.round)
           \/ Earlier(Len(s.history), s.round, Len(t.history), t.round)
    BY <1>2, <2>2, TakesLater, WindowType
  <2>4. \/ Len(t.history) = Len(s.history) /\ t.round = s.round
        \/ Earlier(Len(s.history), s.round, Len(t.history), t.round)
    BY <2>3, StandingParts
  <2>5. ASSUME NEW i \in Nat, NEW r \in Nat, r < C[i],
               ~Earlier(i, r, Len(t.history), t.round)
        PROVE  /\ ~Earlier(i, r, Len(s.history), s.round)
               /\ q[1].type = "game_snapshot" =>
                     ~Earlier(i, r, Len(q[1].moves), q[1].round)
               /\ ~IsTally(q[1], i, r)
    <3>1. ~Earlier(i, r, Len(s.history), s.round)
      BY <2>3, <2>4, <2>5, EarlierTransitive
    <3>2. q[1].type = "game_snapshot" =>
              ~Earlier(i, r, Len(q[1].moves), q[1].round)
      <4> DEFINE msg == q[1]
      <4>1. msg \in Message /\ Takes(s, msg, t)
        BY <2>2
      <4> HIDE DEF msg
      <4>2. msg.type = "game_snapshot" => ~Earlier(i, r, Len(msg.moves), msg.round)
        BY <1>2, <2>5, <3>1, <4>1, SnapshotPassed
      <4>3. QED BY <4>2 DEF msg
    <3>3. ASSUME IsTally(q[1], i, r) PROVE FALSE
      <4>1. CASE IsTally(q[1], Len(s.history), s.round)
        <5>1. i = Len(s.history) /\ r = s.round
          BY <3>3, <4>1 DEF IsTally
        <5>2. QED BY <2>3, <2>5, <4>1, <5>1
      <4>2. CASE ~IsTally(q[1], Len(s.history), s.round)
        BY <1>2, <2>1, <3>1, <3>3, <4>2, IgnoredTally
      <4>3. QED BY <4>1, <4>2
    <3>4. QED BY <3>1, <3>2, <3>3
  <2>6. QED BY <2>1, <2>5, RestComplete
<1>3. QED BY <1>1, <1>2, TakesUnderway DEF Underway

\* A player that handles what another than m told it.
LEMMA ToldByOther ==
    ASSUME NEW C, NEW s \in NodeState, NEW msg \in Message, NEW t, Takes(s, msg, t),
           t.result # "timeout", Underway(t),
           s.phase = "starting" => \A i \in Nat : C[i] = 0,
           NEW q, Underway(s) => Complete(C, s, q)
    PROVE  Complete(C, t, q)
<1>1. CASE s.phase = "starting"
  BY <1>1, NoneCounted
<1>2. CASE s.phase = "in_progress"
  <2>1. Complete(C, s, q)
    BY <1>2 DEF Underway
  <2>2. /\ Len(s.history) \in Nat /\ s.round \in Nat
        /\ Len(t.history) \in Nat /\ t.round \in Nat
        /\ Standing(t) = Standing(s)
           \/ Earlier(Len(s.history), s.round, Len(t.history), t.round)
    BY <1>2, TakesLater, WindowType
  <2>3. \/ Len(t.history) = Len(s.history) /\ t.round = s.round
        \/ Earlier(Len(s.history), s.round, Len(t.history), t.round)
    BY <2>2, StandingParts
  <2>4. \A i, r \in Nat : ~Earlier(i, r, Len(t.history), t.round) =>
            ~Earlier(i, r, Len(s.history), s.round)
    BY <2>2, <2>3, EarlierTransitive
  <2>5. QED BY <2>1, <2>4, LaterComplete
<1>3. QED BY <1>1, <1>2, TakesUnderway DEF Underway

-----------------------------------------------------------------------------
(* What m does with what it is told.                                       *)

\* No snapshot shows m more than it has.
LEMMA NoMoreForMaster ==
    ASSUME NEW C \in [Nat -> Nat], NEW s \in NodeState, s.phase = "in_progress",
           Counted(C, s), NEW snap \in SnapshotMsg, snap.type = "game_snapshot",
           Fits(C, s, snap)
    PROVE  ~ShowsMore(s, snap)
<1>1. Len(s.history) \in Nat /\ s.round \in Nat
  BY WindowType
<1>2. Len(snap.moves) \in Nat /\ snap.round \in Nat
  <2>1. snap.moves \in Seq(Move) /\ snap.round \in Nat
    BY DEF SnapshotMsg
  <2>2. QED BY <2>1
<1>3. Opened(C, s, Len(snap.moves), snap.round)
  BY DEF Fits
<1>4. /\ \A i \in Nat : i > Len(s.history) => C[i] = 0
      /\ C[Len(s.history)] = s.round
  BY DEF Counted, Underway
<1> DEFINE i == Len(snap.moves)
           h == Len(s.history)
<1>5. i \in Nat /\ h \in Nat /\ C[i] \in Nat /\ (i > h => C[i] = 0) /\ (i = h => C[i] = s.round)
  BY <1>1, <1>2, <1>4
<1>6. snap.round < C[i] \/ (i = h /\ snap.round = s.round)
  BY <1>3 DEF Opened
<1> HIDE DEF i, h
<1>7. ~(i > h) /\ ~(i = h /\ snap.round > s.round)
  BY <1>1, <1>2, <1>5, <1>6
<1>8. QED BY <1>7 DEF ShowsMore, i, h

LEMMA HandleVoteAdvances ==
    ASSUME NEW C \in [Nat -> Nat], NEW s \in NodeState, Counted(C, s), NEW m, NEW ps,
           NEW p \in Node, NEW msg \in VoteMsg, NEW r, r = HandleVote(m, s, ps, p, msg)
    PROVE  \E D : Advances(C, s, D, r.node, r.out)
<1> DEFINE t == [s EXCEPT !.votes[p] = msg.move]
<1>1. msg.move \in Move
  BY DEF VoteMsg
<1>2. t \in NodeState /\ Standing(t) = Standing(s)
  BY <1>1, VoteType DEF Standing, NodeState
<1> HIDE DEF t
<1>3. CASE r = Silent(s)
  BY <1>3, SilentAdvances
<1>4. CASE r = CountIfEveryoneVoted(m, t, ps)
  BY <1>2, <1>4, CountIfEveryoneVotedAdvances
<1>5. QED BY <1>3, <1>4 DEF HandleVote, t

LEMMA HandleGameSnapshotAdvances ==
    ASSUME NEW C \in [Nat -> Nat], NEW s \in NodeState, Counted(C, s), NEW m, NEW ps,
           NEW p, NEW snap \in SnapshotMsg, snap.type = "game_snapshot",
           Fits(C, s, snap), Follows(s.history, s), Tells(s.history, m, p, m, snap),
           NEW r, r = HandleGameSnapshot(m, s, ps, snap)
    PROVE  \E D : Advances(C, s, D, r.node, r.out)
<1> DEFINE merged == MergeVotes(s, snap.votes)
<1>1. /\ snap.moves \in Seq(Move) /\ snap.votes \in Votes /\ s.history \in Seq(Move)
      /\ ~HistoriesDiffer(s.history, snap.moves)
  <2>1. snap.moves \in Seq(Move) /\ snap.votes \in Votes /\ s.history \in Seq(Move)
    BY DEF SnapshotMsg, NodeState
  <2>2. QED BY <2>1, PrefixesCompare DEF Tells, Follows
<1>2. merged \in NodeState /\ Standing(merged) = Standing(s)
  BY <1>1, MergeVotesType, MergedStanding
<1>3. s.phase = "in_progress" => ~ShowsMore(s, snap)
  BY NoMoreForMaster
<1>4. r \in {Silent(s), CountIfEveryoneVoted(m, merged, ps)}
  BY <1>1, <1>3 DEF HandleGameSnapshot
<1> HIDE DEF merged
<1>5. CASE r = Silent(s)
  BY <1>5, SilentAdvances
<1>6. CASE r = CountIfEveryoneVoted(m, merged, ps)
  BY <1>2, <1>6, CountIfEveryoneVotedAdvances
<1>7. QED BY <1>4, <1>5, <1>6

LEMMA HandleGameOverAdvances ==
    ASSUME NEW C \in [Nat -> Nat], NEW s \in NodeState, Counted(C, s), NEW believed,
           NEW r, r = HandleGameOver(s, believed), r.node.result # "timeout"
    PROVE  \E D : Advances(C, s, D, r.node, r.out)
<1>1. EndGame(s, "timeout").result = "timeout"
  BY DEF EndGame, NodeState
<1>2. r = Silent(s)
  BY <1>1 DEF HandleGameOver, Silent
<1>3. QED BY <1>2, SilentAdvances

LEMMA HandledAdvances ==
    ASSUME NEW C \in [Nat -> Nat], NEW s \in NodeState, Counted(C, s),
           NEW m \in Node, NEW ps, NEW p \in Node, p # m, NEW msg \in Message,
           Fits(C, s, msg), Follows(s.history, s), Tells(s.history, m, p, m, msg),
           NEW believed, NEW r, r = Handled(m, s, ps, p, msg, believed),
           r.node.result # "timeout"
    PROVE  \E D : Advances(C, s, D, r.node, r.out)
<1>1. CASE msg \in VoteMsg /\ msg.type = "vote"
  BY <1>1, HandleVoteAdvances DEF Handled
<1>2. CASE msg \in TallyMsg /\ msg.type = "tally_result"
  BY <1>2 DEF Tells
<1>3. CASE msg \in SnapshotMsg /\ msg.type = "game_snapshot"
  BY <1>3, HandleGameSnapshotAdvances DEF Handled
<1>4. CASE msg \in GameOverMsg /\ msg.type = "game_over"
  BY <1>4, HandleGameOverAdvances DEF Handled
<1>5. QED BY <1>1, <1>2, <1>3, <1>4, MessageTypes

-----------------------------------------------------------------------------
(* Every step keeps everyone up.                                           *)

\* m does something, and tells ps.
LEMMA MasterActs ==
    ASSUME NEW m \in Node, node \in [Node -> NodeState], NEW C \in [Nat -> Nat],
           KeepsUp(C, m), NEW queues \in Channels, FitsNet(C, node[m], queues),
           \A n \in Node : queues[<<m, n>>] = net[<<m, n>>],
           NEW N \in NodeState, NEW out \in Seq(Message), NEW ps,
           \E D : Advances(C, node[m], D, N, out),
           node' = [node EXCEPT ![m] = N], net' = Sent(queues, m, ps, out),
           up' = up, peers'[m] = ps, ps \subseteq peers[m],
           \A n \in Node : {m, n} \in up /\ n \notin ps => n \notin peers[m]
    PROVE  \E D \in [Nat -> Nat] : KeepsUp(D, m)'
<1>1. PICK D : Advances(C, node[m], D, N, out)
  OBVIOUS
<1>2. /\ \A n \in Node : Reached(C, node[m], node[n])
      /\ \A n \in Node \ {m} :
            /\ InOrder(queues[<<m, n>>])
            /\ Underway(node[n]) /\ InTouch(m, n) =>
                  Complete(C, node[n], queues[<<m, n>>])
            /\ {m, n} \in up /\ n \notin peers[m] => queues[<<m, n>>] = <<>>
  BY DEF KeepsUp
<1>3. /\ D \in [Nat -> Nat] /\ Counted(D, node'[m])
      /\ \A n \in Node : Reached(D, node'[m], node'[n])
      /\ FitsNet(D, node'[m], net')
      /\ \A n \in Node \ {m} :
            /\ InOrder(net'[<<m, n>>])
            /\ Complete(C, node[n], queues[<<m, n>>])
               /\ ((n \in ps /\ {m, n} \in up) \/ out = <<>>)
               => Complete(D, node'[n], net'[<<m, n>>])
            /\ n \notin ps => net'[<<m, n>>] = queues[<<m, n>>]
  <2> USE <1>1, <1>2
  <2> DEFINE M == node[m]
  <2>1. node'[m] = N /\ \A n \in Node \ {m} : node'[n] = node[n]
    OBVIOUS
  <2>2. D \in [Nat -> Nat] /\ Counted(D, N) /\ FitsAll(D, N, out)
    BY DEF Advances
  <2>3. ASSUME NEW n \in Node
        PROVE  Len(node[n].history) \in Nat /\ node[n].round \in Nat
    <3>1. node[n] \in NodeState
      OBVIOUS
    <3>2. node[n].history \in Seq(Move) /\ node[n].round \in Nat
      BY <3>1 DEF NodeState
    <3>3. QED BY <3>2
  <2>4. \A n \in Node : Reached(D, N, node'[n])
    <3>1. Reached(D, N, N)
      BY <2>2, ReachedItself
    <3>2. \A n \in Node : Reached(D, N, node[n])
      BY <2>3, ReachedAdvances
    <3>3. QED BY <2>1, <3>1, <3>2
  <2>5. FitsNet(D, N, net')
    <3>1. ASSUME NEW p \in Node, NEW q \in Node PROVE FitsAll(D, N, queues[<<p, q>>])
      <4>1. queues[<<p, q>>] \in Seq(Message) /\ FitsAll(C, M, queues[<<p, q>>])
        BY DEF Channels, FitsNet
      <4> DEFINE old == queues[<<p, q>>]
      <4> HIDE DEF old
      <4>2. \A k \in 1..Len(old) : old[k] \in Message
        <5>1. old \in Seq(Message)
          BY <4>1 DEF old
        <5>2. QED BY <5>1
      <4>3. FitsAll(C, M, old) => FitsAll(D, N, old)
        BY <4>2, FitsAdvances DEF FitsAll
      <4>4. QED BY <4>1, <4>3 DEF old
    <3>2. QED BY <2>2, <3>1, SentFits DEF FitsNet
  <2>6. ASSUME NEW n \in Node \ {m}
        PROVE  /\ InOrder(net'[<<m, n>>])
               /\ Complete(C, node[n], queues[<<m, n>>])
                  /\ ((n \in ps /\ {m, n} \in up) \/ out = <<>>)
                  => Complete(D, node'[n], net'[<<m, n>>])
               /\ n \notin ps => net'[<<m, n>>] = queues[<<m, n>>]
    <3> DEFINE q == queues[<<m, n>>]
    <3>1. q \in Seq(Message) /\ FitsAll(C, M, q) /\ InOrder(q)
      BY DEF Channels, FitsNet
    <3>2. net'[<<m, n>>] = IF n \in ps /\ {m, n} \in up THEN q \o out ELSE q
      BY DEF Sent
    <3>3. out = <<>> => q \o out = q
      BY <3>1, ConcatEmptySeq
    <3> HIDE DEF q
    <3>4. InOrder(q \o out) /\ InOrder(q)
      BY <3>1, TellsInOrder
    <3>5. Complete(C, node[n], q) => Complete(D, node'[n], q \o out)
      BY <2>1, <3>1, CompleteAdvances
    <3>6. QED BY <3>2, <3>3, <3>4, <3>5 DEF q
  <2>7. QED BY <2>1, <2>2, <2>4, <2>5, <2>6
<1>4. \A n \in Node \ {m} : node'[n] = node[n]
  OBVIOUS
<1>5. ASSUME NEW n \in Node \ {m}
      PROVE  /\ Underway(node'[n]) /\ InTouch(m, n)' => Complete(D, node'[n], net'[<<m, n>>])
             /\ {m, n} \in up' /\ n \notin peers'[m] => net'[<<m, n>>] = <<>>
  <2>1. InTouch(m, n)' => n \in ps /\ {m, n} \in up /\ InTouch(m, n)
    BY DEF InTouch
  <2>2. QED BY <1>2, <1>3, <1>4, <2>1
<1>6. KeepsUp(D, m)'
  BY <1>3, <1>5 DEF KeepsUp
<1>7. QED BY <1>3, <1>6

\* Another player does something, and tells ps.
LEMMA OtherActs ==
    ASSUME NEW m \in Node, node \in [Node -> NodeState], NEW C \in [Nat -> Nat],
           KeepsUp(C, m), NEW n \in Node \ {m},
           NEW queues \in Channels, FitsNet(C, node[m], queues),
           \A k \in Node \ {n} : queues[<<m, k>>] = net[<<m, k>>],
           NEW t \in NodeState, Reached(C, node[m], t),
           NEW out \in Seq(Message), FitsAll(C, node[m], out), NEW ps,
           node' = [node EXCEPT ![n] = t], net' = Sent(queues, n, ps, out),
           up' = up, peers'[m] = peers[m], InOrder(queues[<<m, n>>]),
           Underway(t) /\ InTouch(m, n) => Complete(C, t, queues[<<m, n>>]),
           {m, n} \in up /\ n \notin peers[m] => queues[<<m, n>>] = <<>>
    PROVE  \E D \in [Nat -> Nat] : KeepsUp(D, m)'
<1>1. /\ Counted(C, node[m]) /\ \A k \in Node : Reached(C, node[m], node[k])
      /\ \A k \in Node \ {m} :
            /\ InOrder(net[<<m, k>>])
            /\ Underway(node[k]) /\ InTouch(m, k) => Complete(C, node[k], net[<<m, k>>])
            /\ {m, k} \in up /\ k \notin peers[m] => net[<<m, k>>] = <<>>
  BY DEF KeepsUp
<1>2. /\ node'[m] = node[m] /\ node'[n] = t
      /\ \A k \in Node : Reached(C, node'[m], node'[k])
      /\ FitsNet(C, node'[m], net')
      /\ \A k \in Node : net'[<<m, k>>] = queues[<<m, k>>]
      /\ \A k \in Node \ {n} : node'[k] = node[k]
  <2>1. node'[m] = node[m] /\ node'[n] = t /\ \A k \in Node \ {n} : node'[k] = node[k]
    OBVIOUS
  <2>2. FitsNet(C, node[m], net')
    BY SentFits
  <2>3. \A k \in Node : net'[<<m, k>>] = queues[<<m, k>>]
    BY DEF Sent
  <2>4. QED BY <1>1, <2>1, <2>2, <2>3
<1>3. ASSUME NEW k \in Node \ {m}
      PROVE  /\ InOrder(net'[<<m, k>>])
             /\ Underway(node'[k]) /\ InTouch(m, k)' => Complete(C, node'[k], net'[<<m, k>>])
             /\ {m, k} \in up' /\ k \notin peers'[m] => net'[<<m, k>>] = <<>>
  <2>1. InTouch(m, k)' <=> InTouch(m, k)
    BY DEF InTouch
  <2>2. CASE k = n
    BY <1>2, <2>1, <2>2
  <2>3. CASE k # n
    BY <1>1, <1>2, <2>1, <2>3
  <2>4. QED BY <2>2, <2>3
<1>4. KeepsUp(C, m)'
  BY <1>1, <1>2, <1>3 DEF KeepsUp
<1>5. QED BY <1>4

LEMMA SayingNothing ==
    ASSUME NEW queues \in Channels, NEW n, NEW ps
    PROVE  Sent(queues, n, ps, <<>>) = queues
<1>1. \A c \in Node \X Node : queues[c] \o <<>> = queues[c]
  BY ConcatEmptySeq DEF Channels
<1>2. QED BY <1>1 DEF Sent, Channels

LEMMA SaidNothing ==
    ASSUME NEW C, NEW M
    PROVE  FitsAll(C, M, <<>>) /\ <<>> \in Seq(Message) /\ InOrder(<<>>)
BY DEF FitsAll, InOrder

\* What is supposed of a step, and what is known before it.
Supposed(m, C) ==
    /\ FollowInv(m) /\ NobodyLeftOut(m) /\ MasterStays(m)
    /\ \A n \in Node : m <= n
    /\ KeepsUp(C, m)

LEMMA Known ==
    ASSUME NEW m \in Node, NEW C \in [Nat -> Nat], Supposed(m, C)
    PROVE  /\ node \in [Node -> NodeState] /\ net \in Channels
           /\ peers \in [Node -> SUBSET Node]
           /\ \A n \in Node : n \notin peers[n]
           /\ \A n \in Node : Follows(node[m].history, node[n])
           /\ TellsNet(node[m].history, m, net)
           /\ \A n \in Node \ {m} : ~Leads(n, peers[n])
           /\ Counted(C, node[m]) /\ FitsNet(C, node[m], net)
           /\ \A n \in Node : Reached(C, node[m], node[n])
           /\ \A n \in Node \ {m} :
                 /\ InOrder(net[<<m, n>>])
                 /\ Underway(node[n]) /\ InTouch(m, n) =>
                       Complete(C, node[n], net[<<m, n>>])
                 /\ {m, n} \in up /\ n \notin peers[m] => net[<<m, n>>] = <<>>
           /\ \A n \in Node : node[n].phase = "starting" =>
                 /\ Underway(node[m]) /\ node[m].history = <<>> /\ node[m].round = 0
                 /\ \A i \in Nat : C[i] = 0
<1>1. /\ TypeOK /\ \A n \in Node : n \notin peers[n]
      /\ \A n \in Node : Follows(node[m].history, node[n])
      /\ TellsNet(node[m].history, m, net)
  BY DEF Supposed, FollowInv
<1>2. \A n \in Node \ {m} : ~Leads(n, peers[n])
  BY DEF Supposed, MasterStays, NobodyLeftOut
<1>3. /\ Counted(C, node[m]) /\ FitsNet(C, node[m], net)
      /\ \A n \in Node : Reached(C, node[m], node[n])
      /\ \A n \in Node \ {m} :
            /\ InOrder(net[<<m, n>>])
            /\ Underway(node[n]) /\ InTouch(m, n) => Complete(C, node[n], net[<<m, n>>])
            /\ {m, n} \in up /\ n \notin peers[m] => net[<<m, n>>] = <<>>
  BY DEF Supposed, KeepsUp
<1>4. ASSUME NEW n \in Node, node[n].phase = "starting"
      PROVE  /\ Underway(node[m]) /\ node[m].history = <<>> /\ node[m].round = 0
             /\ \A i \in Nat : C[i] = 0
  <2>1. Underway(node[m]) /\ node[m].history = <<>> /\ node[m].round = 0
    BY <1>4 DEF Supposed, NobodyLeftOut
  <2>2. Len(node[m].history) = 0
    BY <2>1
  <2>3. /\ \A i \in Nat : i > 0 => C[i] = 0
        /\ C[0] = 0
    BY <1>3, <2>1, <2>2 DEF Counted
  <2>4. \A i \in Nat : i > 0 \/ i = 0
    OBVIOUS
  <2>5. QED BY <2>1, <2>3, <2>4
<1>5. QED BY <1>1, <1>2, <1>3, <1>4 DEF TypeOK, Channels

\* A step that leaves n in its window, all links, and what is said as they are.
LEMMA StaysInWindow ==
    ASSUME NEW m \in Node, NEW C \in [Nat -> Nat], Supposed(m, C), NEW n \in Node,
           NEW t \in NodeState, Standing(t) = Standing(node[n]),
           node' = [node EXCEPT ![n] = t], UNCHANGED <<peers, up, net>>
    PROVE  \E D \in [Nat -> Nat] : KeepsUp(D, m)'
<1>1. CASE n = m
  <2>1. \E D : Advances(C, node[m], D, t, <<>>)
    <3>1. Advances(C, node[m], C, Silent(t).node, Silent(t).out)
      BY <1>1, Known, SilentAdvances
    <3>2. QED BY <3>1 DEF Silent
  <2>2. net' = Sent(net, m, peers[m], <<>>)
    BY Known, SayingNothing
  <2>3. KeepsUp(C, m) /\ peers'[m] = peers[m] /\ up' = up
    BY DEF Supposed
  <2>4. <<>> \in Seq(Message)
    BY SaidNothing
  <2>5. node \in [Node -> NodeState] /\ net \in Channels /\ FitsNet(C, node[m], net)
    BY Known
  <2>6. node' = [node EXCEPT ![m] = t]
    BY <1>1
  <2>7. QED BY <2>1, <2>2, <2>3, <2>4, <2>5, <2>6, MasterActs
<1>2. CASE n # m
  <2>1. net' = Sent(net, n, peers[n], <<>>)
    BY Known, SayingNothing
  <2>2. KeepsUp(C, m) /\ peers'[m] = peers[m] /\ up' = up /\ n \in Node \ {m}
    BY <1>2 DEF Supposed
  <2>3. FitsAll(C, node[m], <<>>) /\ <<>> \in Seq(Message)
    BY SaidNothing
  <2>4. /\ node \in [Node -> NodeState] /\ net \in Channels /\ FitsNet(C, node[m], net)
        /\ InOrder(net[<<m, n>>]) /\ Reached(C, node[m], node[n])
        /\ Underway(node[n]) /\ InTouch(m, n) => Complete(C, node[n], net[<<m, n>>])
        /\ {m, n} \in up /\ n \notin peers[m] => net[<<m, n>>] = <<>>
    BY <1>2, Known
  <2>5. /\ Reached(C, node[m], t) /\ (Underway(t) <=> Underway(node[n]))
        /\ Complete(C, node[n], net[<<m, n>>]) => Complete(C, t, net[<<m, n>>])
    BY <2>4, SameStanding, StandingParts
  <2>6. QED BY <2>1, <2>2, <2>3, <2>4, <2>5, OtherActs
<1>3. QED BY <1>1, <1>2

LEMMA BeginKeepsUp ==
    ASSUME NEW m \in Node, NEW C \in [Nat -> Nat], Supposed(m, C),
           NEW n \in Node, Begin(n)
    PROVE  \E D \in [Nat -> Nat] : KeepsUp(D, m)'
<1> DEFINE s == node[n]
           u == [s EXCEPT !.phase = "in_progress"]
           t == OpenWindow(u, <<>>, 0)
<1>1. /\ node \in [Node -> NodeState] /\ net \in Channels /\ FitsNet(C, node[m], net)
      /\ s \in NodeState /\ s.phase = "starting" /\ Reached(C, node[m], s)
      /\ Underway(node[m]) /\ node[m].history = <<>> /\ node[m].round = 0
      /\ \A i \in Nat : C[i] = 0
      /\ Counted(C, node[m])
  BY Known DEF Begin
<1>2. node' = [node EXCEPT ![n] = t] /\ net' = net /\ peers' = peers /\ up' = up
  BY DEF Begin
<1>3. u \in NodeState /\ u.result = s.result /\ u.phase = "in_progress"
  BY <1>1 DEF NodeState, Phases
<1> HIDE DEF u
<1>4. /\ t \in NodeState /\ t.phase = "in_progress" /\ t.result = "none"
      /\ t.history = <<>> /\ t.round = 0
  <2>1. t \in NodeState
    BY <1>3, OpenWindowType, EmptySeq
  <2>2. s.result = "none"
    BY <1>1 DEF Reached, Underway
  <2>3. QED BY <1>3, <2>1, <2>2 DEF OpenWindow, NodeState
<1> HIDE DEF t, s
<1>5. <<>> \in Seq(Message) /\ FitsAll(C, node[m], <<>>) /\ InOrder(<<>>)
  BY SaidNothing
<1>6. CASE n = m
  <2>1. Counted(C, t)
    BY <1>1, <1>4 DEF Counted, Underway
  <2>2. \A i, r \in Nat : Opened(C, node[m], i, r) => Opened(C, t, i, r)
    BY <1>1, <1>4 DEF Opened, Underway
  <2>3. \A i \in Nat : C[i] <= C[i]
    OBVIOUS
  <2>4. FitsAll(C, t, <<>>)
    BY SaidNothing
  <2>5. Advances(C, node[m], C, t, <<>>)
    BY <1>1, <1>5, <2>1, <2>2, <2>3, <2>4 DEF Advances
  <2>6. net' = Sent(net, m, peers[m], <<>>)
    BY <1>1, <1>2, SayingNothing
  <2>7. KeepsUp(C, m)
    BY DEF Supposed
  <2>8. QED BY <1>1, <1>2, <1>4, <1>5, <1>6, <2>5, <2>6, <2>7, MasterActs
<1>7. CASE n # m
  <2>1. net' = Sent(net, n, peers[n], <<>>)
    BY <1>1, <1>2, SayingNothing
  <2>2. KeepsUp(C, m) /\ n \in Node \ {m} /\ peers'[m] = peers[m] /\ up' = up
    BY <1>2, <1>7 DEF Supposed
  <2>3. /\ InOrder(net[<<m, n>>])
        /\ {m, n} \in up /\ n \notin peers[m] => net[<<m, n>>] = <<>>
    BY <1>7, Known
  <2>4. Reached(C, node[m], t)
    <3>1. Opened(C, node[m], Len(t.history), t.round)
      BY <1>1, <1>4 DEF Opened
    <3>2. QED BY <1>4, <3>1 DEF Reached, Underway
  <2>5. Underway(t) /\ InTouch(m, n) => Complete(C, t, net[<<m, n>>])
    BY <1>1, NoneCounted
  <2>6. /\ node \in [Node -> NodeState] /\ net \in Channels /\ FitsNet(C, node[m], net)
        /\ t \in NodeState /\ node' = [node EXCEPT ![n] = t]
    BY <1>1, <1>2, <1>4
  <2>7. FitsAll(C, node[m], <<>>) /\ <<>> \in Seq(Message)
    BY <1>5
  <2>8. QED BY <2>1, <2>2, <2>3, <2>4, <2>5, <2>6, <2>7, OtherActs
<1>8. QED BY <1>6, <1>7

LEMMA WindowClosesKeepsUp ==
    ASSUME NEW m \in Node, NEW C \in [Nat -> Nat], Supposed(m, C),
           NEW n \in Node, WindowCloses(n)
    PROVE  \E D \in [Nat -> Nat] : KeepsUp(D, m)'
<1> DEFINE t == [node[n] EXCEPT !.closed = TRUE]
<1>0. node[n] \in NodeState
  BY Known
<1>1. t \in NodeState /\ Standing(t) = Standing(node[n])
  BY <1>0 DEF NodeState, Standing
<1>2. node' = [node EXCEPT ![n] = t] /\ UNCHANGED <<peers, up, net>>
  BY DEF WindowCloses
<1> HIDE DEF t
<1>3. QED BY <1>1, <1>2, StaysInWindow

LEMMA GraceOverKeepsUp ==
    ASSUME NEW m \in Node, NEW C \in [Nat -> Nat], Supposed(m, C),
           NEW n \in Node, GraceOver(n)
    PROVE  \E D \in [Nat -> Nat] : KeepsUp(D, m)'
<1> DEFINE t == [node[n] EXCEPT !.settling = FALSE]
<1>0. node[n] \in NodeState
  BY Known
<1>1. t \in NodeState /\ Standing(t) = Standing(node[n])
  BY <1>0 DEF NodeState, Standing
<1>2. node' = [node EXCEPT ![n] = t] /\ UNCHANGED <<peers, up, net>>
  BY DEF GraceOver
<1> HIDE DEF t
<1>3. QED BY <1>1, <1>2, StaysInWindow

LEMMA TallyDueKeepsUp ==
    ASSUME NEW m \in Node, NEW C \in [Nat -> Nat], Supposed(m, C),
           NEW n \in Node, TallyDue(n)
    PROVE  \E D \in [Nat -> Nat] : KeepsUp(D, m)'
<1>1. n = m
  BY Known DEF TallyDue, MayCount, Leads
<1>2. node[m] \in NodeState /\ node[m].phase = "in_progress" /\ Counted(C, node[m])
  BY <1>1, Known DEF TallyDue
<1> DEFINE r == CountAndPublish(node[m])
<1>3. r \in Handlings /\ \E D : Advances(C, node[m], D, r.node, r.out)
  BY <1>2, CountAndPublishType, CountAndPublishAdvances
<1>4. /\ node' = [node EXCEPT ![m] = r.node] /\ net' = Sent(net, m, peers[m], r.out)
      /\ peers' = peers /\ up' = up
  BY <1>1 DEF TallyDue, Do
<1> HIDE DEF r
<1>5. r.node \in NodeState /\ r.out \in Seq(Message)
  BY <1>3 DEF Handlings
<1>6. /\ node \in [Node -> NodeState] /\ net \in Channels /\ FitsNet(C, node[m], net)
      /\ KeepsUp(C, m)
  BY Known DEF Supposed
<1>7. QED BY <1>3, <1>4, <1>5, <1>6, MasterActs

LEMMA CastVoteKeepsUp ==
    ASSUME NEW m \in Node, NEW C \in [Nat -> Nat], Supposed(m, C),
           NEW n \in Node, NEW move \in Move, CastVote(n, move)
    PROVE  \E D \in [Nat -> Nat] : KeepsUp(D, m)'
<1> DEFINE s     == node[n]
           t     == [s EXCEPT !.votes[n] = move]
           msg   == [type |-> "vote", turn |-> Len(s.history),
                     round |-> s.round, move |-> move]
           count == CountIfEveryoneVoted(n, t, peers[n])
           r     == [count EXCEPT !.out = <<msg>> \o @]
<1>1. Do(n, r, net, peers[n]) /\ UNCHANGED <<peers, up>>
  BY DEF CastVote
<1>2. s \in NodeState
  BY Known
<1>3. t \in NodeState /\ Standing(t) = Standing(s)
  BY <1>2, VoteType DEF Standing, NodeState
<1>4. msg \in Message /\ msg.type = "vote"
  BY <1>2 DEF Message, VoteMsg, NodeState
<1> HIDE DEF t, msg
<1>5. count \in Handlings
  BY <1>3, CountIfEveryoneVotedType
<1>6. r.node = count.node /\ r.out = <<msg>> \o count.out
  BY <1>5 DEF Handlings
<1>7. /\ count.node \in NodeState /\ count.out \in Seq(Message)
      /\ <<msg>> \in Seq(Message) /\ <<msg>> \o count.out \in Seq(Message)
  BY <1>4, <1>5, ConcatProperties DEF Handlings
<1>8. /\ node' = [node EXCEPT ![n] = count.node]
      /\ net' = Sent(net, n, peers[n], <<msg>> \o count.out)
  BY <1>1, <1>6 DEF Do
<1>9. /\ node \in [Node -> NodeState] /\ net \in Channels /\ FitsNet(C, node[m], net)
      /\ KeepsUp(C, m) /\ Counted(C, node[m])
  BY Known DEF Supposed
<1>10. CASE n = m
  <2>1. PICK D : Advances(C, node[m], D, count.node, count.out)
    BY <1>3, <1>9, <1>10, CountIfEveryoneVotedAdvances
  <2> HIDE DEF r, count
  <2>2. Advances(C, node[m], D, count.node, <<msg>> \o count.out)
    BY <1>4, <1>7, <2>1, VoteThenAdvances
  <2>3. peers'[m] = peers[m] /\ up' = up
    BY <1>1
  <2>4. QED BY <1>7, <1>8, <1>9, <1>10, <2>2, <2>3, MasterActs
<1>11. CASE n # m
  <2>1. count = Silent(t)
    BY <1>11, Known, NotCounting
  <2>2. count.node = t /\ <<msg>> \o count.out = <<msg>>
    BY <1>7, <2>1, ConcatEmptySeq DEF Silent
  <2> HIDE DEF r, count
  <2>3. FitsAll(C, node[m], <<msg>>)
    BY <1>4 DEF FitsAll, Fits
  <2>4. /\ InOrder(net[<<m, n>>]) /\ Reached(C, node[m], s)
        /\ Underway(s) /\ InTouch(m, n) => Complete(C, s, net[<<m, n>>])
        /\ {m, n} \in up /\ n \notin peers[m] => net[<<m, n>>] = <<>>
    BY <1>11, Known
  <2>5. /\ Reached(C, node[m], t) /\ (Underway(t) <=> Underway(s))
        /\ Complete(C, s, net[<<m, n>>]) => Complete(C, t, net[<<m, n>>])
    BY <1>3, <2>4, SameStanding, StandingParts
  <2>6. n \in Node \ {m} /\ peers'[m] = peers[m] /\ up' = up
    BY <1>1, <1>11
  <2> HIDE DEF s
  <2>7. QED BY <1>3, <1>7, <1>8, <1>9, <2>2, <2>3, <2>4, <2>5, <2>6, OtherActs
<1>12. QED BY <1>10, <1>11

\* m is the lowest key, so whoever is connected to it takes it for the master.
LEMMA LowestIsMaster ==
    ASSUME NEW m \in Node, \A n \in Node : m <= n, NEW n, NEW ps, m \in ps
    PROVE  IsMaster(m, Node, Connected(n, ps))
BY DEF IsMaster, Playing, Connected

LEMMA ReceiveKeepsUp ==
    ASSUME NEW m \in Node, NEW C \in [Nat -> Nat], Supposed(m, C),
           \A k \in Node : node'[k].result # "timeout",
           NEW n \in Node, NEW p \in Node, Receive(p, n)
    PROVE  \E D \in [Nat -> Nat] : KeepsUp(D, m)'
<1> DEFINE s     == node[n]
           queue == net[<<p, n>>]
           msg   == Head(queue)
           rest  == [net EXCEPT ![<<p, n>>] = Tail(@)]
           r(believed) == Handled(n, s, peers[n], p, msg, believed)
<1>0. /\ node \in [Node -> NodeState] /\ net \in Channels /\ FitsNet(C, node[m], net)
      /\ KeepsUp(C, m) /\ Counted(C, node[m]) /\ node[m] \in NodeState
      /\ s \in NodeState /\ Reached(C, node[m], s) /\ Follows(node[m].history, s)
      /\ Follows(node[m].history, node[m])
      /\ node[m].history \in Seq(Move)
  BY Known DEF Supposed, NodeState
<1>1. /\ queue \in Seq(Message) /\ queue # <<>> /\ p \in peers[n] /\ p # n
      /\ FitsAll(C, node[m], queue) /\ TellsAll(node[m].history, m, p, n, queue)
  BY Known DEF Receive, Channels, FitsNet, TellsNet
<1>2. PICK believed : Do(n, r(believed), rest, peers[n])
  BY DEF Receive
<1>3. peers'[m] = peers[m] /\ up' = up
  BY DEF Receive
<1> DEFINE h == r(believed)
<1>4. node' = [node EXCEPT ![n] = h.node] /\ net' = Sent(rest, n, peers[n], h.out)
  BY <1>2 DEF Do
<1> HIDE DEF queue, r
<1>5. /\ msg \in Message /\ Tail(queue) \in Seq(Message) /\ msg = queue[1]
      /\ Fits(C, node[m], msg) /\ FitsAll(C, node[m], Tail(queue))
      /\ Tells(node[m].history, m, p, n, msg)
  BY <1>1, RestOf, RestFits, RestTells
<1>6. /\ rest \in Channels /\ FitsNet(C, node[m], rest)
      /\ \A k \in Node : <<m, k>> # <<p, n>> => rest[<<m, k>>] = net[<<m, k>>]
      /\ rest[<<p, n>>] = Tail(queue)
  <2>1. rest = [net EXCEPT ![<<p, n>>] = Tail(queue)]
    BY DEF queue
  <2>2. \A a, b \in Node : rest[<<a, b>>] =
            IF a = p /\ b = n THEN Tail(queue) ELSE net[<<a, b>>]
    BY <1>0, <2>1 DEF Channels
  <2>3. rest \in Channels
    BY <1>0, <1>5, <2>1 DEF Channels
  <2> HIDE DEF rest
  <2>4. FitsNet(C, node[m], rest)
    BY <1>0, <1>5, <2>2 DEF FitsNet
  <2>5. QED BY <2>2, <2>3, <2>4
<1> HIDE DEF rest, msg
<1>7. h \in Handlings
  BY <1>0, <1>5, HandledType DEF r
<1>8. h.node \in NodeState /\ h.out \in Seq(Message)
  BY <1>7 DEF Handlings
<1>9. h.node.result # "timeout"
  <2>1. node'[n] = h.node
    BY <1>0, <1>4
  <2>2. QED BY <2>1
<1>10. CASE n = m
  <2>1. \E D : Advances(C, node[m], D, h.node, h.out)
    BY <1>0, <1>1, <1>5, <1>9, <1>10, HandledAdvances DEF r
  <2> HIDE DEF h
  <2>2. \A k \in Node : rest[<<m, k>>] = net[<<m, k>>]
    BY <1>1, <1>6, <1>10
  <2>3. QED BY <1>0, <1>3, <1>4, <1>6, <1>8, <1>10, <2>1, <2>2, MasterActs
<1>11. CASE n # m
  <2> DEFINE t == h.node
  <2>1. s.phase = "in_progress" => s.result = "none" /\ ~Leads(n, peers[n])
    BY <1>0, <1>11, Known DEF Reached, Underway
  <2>2. p = m => IsMaster(p, Node, Connected(n, peers[n]))
    BY <1>1, LowestIsMaster DEF Supposed
  <2>3. Quietly(s, msg, h)
    BY <1>0, <1>5, <2>1, <2>2, HandledQuietly DEF r
  <2>4. h.out = <<>> /\ Takes(s, msg, t)
    BY <2>3 DEF Quietly
  <2> HIDE DEF h
  <2>5. Reached(C, node[m], t)
    BY <1>0, <1>5, <1>9, <2>4, TakesReached
  <2>6. /\ s.phase = "starting" => \A i \in Nat : C[i] = 0
        /\ InOrder(net[<<m, n>>])
        /\ Underway(s) /\ InTouch(m, n) => Complete(C, s, net[<<m, n>>])
        /\ {m, n} \in up /\ n \notin peers[m] => net[<<m, n>>] = <<>>
    BY <1>11, Known
  <2>7. /\ InOrder(rest[<<m, n>>])
        /\ Underway(t) /\ InTouch(m, n) => Complete(C, t, rest[<<m, n>>])
        /\ {m, n} \in up /\ n \notin peers[m] => rest[<<m, n>>] = <<>>
    <3>1. CASE p = m
      <4>1. queue = net[<<m, n>>] /\ rest[<<m, n>>] = Tail(queue)
        BY <1>6, <3>1 DEF queue
      <4>2. InOrder(Tail(queue))
        BY <1>1, <2>6, <4>1, RestInOrder
      <4>3. Takes(s, Head(queue), t)
        BY <2>4 DEF msg
      <4> HIDE DEF t, s
      <4>4. ASSUME Underway(t), InTouch(m, n) PROVE Complete(C, t, Tail(queue))
        BY <1>0, <1>1, <1>9, <2>6, <4>1, <4>3, <4>4, ToldByMaster DEF t
      <4>5. QED BY <1>1, <2>6, <4>1, <4>2, <4>4
    <3>2. CASE p # m
      <4>1. rest[<<m, n>>] = net[<<m, n>>]
        BY <1>6, <3>2
      <4>2. ASSUME Underway(t), InTouch(m, n) PROVE Complete(C, t, net[<<m, n>>])
        BY <1>0, <1>5, <1>9, <2>4, <2>6, <4>2, ToldByOther
      <4>3. QED BY <2>6, <4>1, <4>2
    <3>3. QED BY <3>1, <3>2
  <2>8. FitsAll(C, node[m], <<>>) /\ <<>> \in Seq(Message)
    BY SaidNothing
  <2>9. \A k \in Node \ {n} : rest[<<m, k>>] = net[<<m, k>>]
    BY <1>6
  <2>10. /\ t \in NodeState /\ node' = [node EXCEPT ![n] = t]
         /\ net' = Sent(rest, n, peers[n], <<>>) /\ n \in Node \ {m}
    BY <1>4, <1>8, <1>11, <2>4
  <2> HIDE DEF t
  <2>11. QED
    BY <1>0, <1>3, <1>6, <2>5, <2>7, <2>8, <2>9, <2>10, OtherActs
<1>12. QED BY <1>10, <1>11

LEMMA PeerDisconnectsKeepsUp ==
    ASSUME NEW m \in Node, NEW C \in [Nat -> Nat], Supposed(m, C),
           \A k \in Node \ {m} : ~Leads(k, peers'[k]),
           NEW n \in Node, NEW p \in Node, PeerDisconnects(n, p)
    PROVE  \E D \in [Nat -> Nat] : KeepsUp(D, m)'
<1> DEFINE s == node[n]
           ps == peers[n] \ {p}
           r == CountIfEveryoneVoted(n, s, ps)
           queues == [net EXCEPT ![<<p, n>>] = <<>>]
<1>0. /\ node \in [Node -> NodeState] /\ net \in Channels /\ FitsNet(C, node[m], net)
      /\ KeepsUp(C, m) /\ Counted(C, node[m]) /\ s \in NodeState
      /\ peers \in [Node -> SUBSET Node]
  BY Known DEF Supposed
<1>1. /\ p \in peers[n] /\ p # n /\ {n, p} \notin up /\ up' = up
      /\ peers' = [peers EXCEPT ![n] = ps]
  BY Known DEF PeerDisconnects
<1>2. node' = [node EXCEPT ![n] = r.node] /\ net' = Sent(queues, n, ps, r.out)
  BY DEF PeerDisconnects, Do
<1>3. r \in Handlings
  BY <1>0, CountIfEveryoneVotedType
<1>4. r.node \in NodeState /\ r.out \in Seq(Message)
  BY <1>3 DEF Handlings
<1>5. <<>> \in Seq(Message) /\ FitsAll(C, node[m], <<>>) /\ InOrder(<<>>)
  BY SaidNothing
<1>6. /\ queues \in Channels /\ FitsNet(C, node[m], queues)
      /\ \A k \in Node : <<m, k>> # <<p, n>> => queues[<<m, k>>] = net[<<m, k>>]
      /\ queues[<<p, n>>] = <<>>
  <2>1. \A a, b \in Node : queues[<<a, b>>] =
            IF a = p /\ b = n THEN <<>> ELSE net[<<a, b>>]
    BY <1>0 DEF Channels
  <2>2. queues \in Channels
    BY <1>0, <1>5 DEF Channels
  <2> HIDE DEF queues
  <2>3. QED BY <1>0, <1>5, <2>1, <2>2 DEF FitsNet
<1> HIDE DEF queues
<1>7. CASE n = m
  <2>1. \E D : Advances(C, node[m], D, r.node, r.out)
    BY <1>0, <1>7, CountIfEveryoneVotedAdvances
  <2> HIDE DEF r
  <2>2. \A k \in Node : queues[<<m, k>>] = net[<<m, k>>]
    BY <1>1, <1>6, <1>7
  <2>3. /\ peers'[m] = ps /\ ps \subseteq peers[m]
        /\ \A k \in Node : {m, k} \in up /\ k \notin ps => k \notin peers[m]
    BY <1>0, <1>1, <1>7
  <2> HIDE DEF ps
  <2>4. QED BY <1>0, <1>1, <1>2, <1>4, <1>6, <1>7, <2>1, <2>2, <2>3, MasterActs
<1>8. CASE n # m
  <2>1. ~Leads(n, ps)
    <3>1. peers'[n] = ps
      BY <1>0, <1>1
    <3>2. QED BY <1>8, <3>1
  <2>2. r.node = s /\ r.out = <<>>
    BY <2>1, NotCounting DEF Silent
  <2> HIDE DEF r
  <2>3. /\ Reached(C, node[m], s) /\ InOrder(net[<<m, n>>])
        /\ Underway(s) /\ InTouch(m, n) => Complete(C, s, net[<<m, n>>])
        /\ {m, n} \in up /\ n \notin peers[m] => net[<<m, n>>] = <<>>
    BY <1>8, Known
  <2>4. /\ InOrder(queues[<<m, n>>])
        /\ Underway(s) /\ InTouch(m, n) => Complete(C, s, queues[<<m, n>>])
        /\ {m, n} \in up /\ n \notin peers[m] => queues[<<m, n>>] = <<>>
    <3>1. CASE p = m
      <4>1. ~InTouch(m, n)
        <5>1. {m, n} = {n, p}
          BY <3>1
        <5>2. QED BY <1>1, <5>1 DEF InTouch
      <4>2. QED BY <1>5, <1>6, <3>1, <4>1
    <3>2. CASE p # m
      <4>1. queues[<<m, n>>] = net[<<m, n>>]
        BY <1>6, <3>2
      <4>2. QED BY <2>3, <4>1
    <3>3. QED BY <3>1, <3>2
  <2>5. /\ \A k \in Node \ {n} : queues[<<m, k>>] = net[<<m, k>>]
        /\ peers'[m] = peers[m] /\ n \in Node \ {m}
    BY <1>0, <1>1, <1>6, <1>8
  <2>6. node' = [node EXCEPT ![n] = s] /\ net' = Sent(queues, n, ps, <<>>)
    BY <1>2, <2>2
  <2> HIDE DEF s, ps
  <2>7. QED BY <1>0, <1>1, <1>5, <1>6, <2>3, <2>4, <2>5, <2>6, OtherActs
<1>9. QED BY <1>7, <1>8

\* Only links and peer tables change, and m's queues with whom it meets are empty.
LEMMA LinksChange ==
    ASSUME NEW m \in Node, NEW C \in [Nat -> Nat], Supposed(m, C),
           node' = node, FitsNet(C, node[m], net'),
           \A n \in Node \ {m} :
              /\ InTouch(m, n)' =>
                    /\ Underway(node[n]) => Complete(C, node[n], net'[<<m, n>>])
                    /\ net'[<<m, n>>] = net[<<m, n>>]
              /\ net'[<<m, n>>] \in {<<>>, net[<<m, n>>]}
              /\ {m, n} \in up' /\ n \notin peers'[m] => net'[<<m, n>>] = <<>>
    PROVE  \E D \in [Nat -> Nat] : KeepsUp(D, m)'
<1>1. /\ Counted(C, node[m]) /\ \A n \in Node : Reached(C, node[m], node[n])
      /\ \A n \in Node \ {m} : InOrder(net[<<m, n>>])
  BY Known
<1>2. \A n \in Node \ {m} : InOrder(net'[<<m, n>>])
  BY <1>1, SaidNothing
<1>3. KeepsUp(C, m)'
  BY <1>1, <1>2 DEF KeepsUp
<1>4. QED BY <1>3

LEMMA LinkFailsKeepsUp ==
    ASSUME NEW m \in Node, NEW C \in [Nat -> Nat], Supposed(m, C),
           NEW l, LinkFails(l)
    PROVE  \E D \in [Nat -> Nat] : KeepsUp(D, m)'
<1>1. node' = node /\ net' = net /\ peers' = peers /\ up' \subseteq up
  BY DEF LinkFails
<1>2. \A n \in Node \ {m} : InTouch(m, n)' => InTouch(m, n)
  BY <1>1 DEF InTouch
<1>3. /\ FitsNet(C, node[m], net)
      /\ \A n \in Node \ {m} :
            /\ Underway(node[n]) /\ InTouch(m, n) => Complete(C, node[n], net[<<m, n>>])
            /\ {m, n} \in up /\ n \notin peers[m] => net[<<m, n>>] = <<>>
  BY Known
<1>4. QED BY <1>1, <1>2, <1>3, LinksChange

LEMMA LinkReturnsKeepsUp ==
    ASSUME NEW m \in Node, NEW C \in [Nat -> Nat], Supposed(m, C),
           NEW l \in Links, LinkReturns(l)
    PROVE  \E D \in [Nat -> Nat] : KeepsUp(D, m)'
<1>1. /\ node' = node /\ peers' = peers /\ up' = up \cup {l}
      /\ \A a, b \in l : b \notin peers[a]
      /\ \A a, b \in Node : net'[<<a, b>>] = IF {a, b} = l THEN <<>> ELSE net[<<a, b>>]
  BY DEF LinkReturns
<1>2. /\ FitsNet(C, node[m], net)
      /\ \A n \in Node \ {m} :
            /\ Underway(node[n]) /\ InTouch(m, n) => Complete(C, node[n], net[<<m, n>>])
            /\ {m, n} \in up /\ n \notin peers[m] => net[<<m, n>>] = <<>>
  BY Known
<1>3. FitsNet(C, node[m], net')
  BY <1>1, <1>2, SaidNothing DEF FitsNet
<1>4. ASSUME NEW n \in Node \ {m}
      PROVE  /\ InTouch(m, n)' =>
                    /\ Underway(node[n]) => Complete(C, node[n], net'[<<m, n>>])
                    /\ net'[<<m, n>>] = net[<<m, n>>]
             /\ net'[<<m, n>>] \in {<<>>, net[<<m, n>>]}
             /\ {m, n} \in up' /\ n \notin peers'[m] => net'[<<m, n>>] = <<>>
  <2>1. InTouch(m, n)' => {m, n} # l /\ InTouch(m, n)
    <3>1. {m, n} = l => n \notin peers[m]
      BY <1>1
    <3>2. QED BY <1>1, <3>1 DEF InTouch
  <2>2. {m, n} \in up' => {m, n} = l \/ {m, n} \in up
    BY <1>1
  <2>3. QED BY <1>1, <1>2, <2>1, <2>2
<1>5. QED BY <1>1, <1>3, <1>4, LinksChange

LEMMA SnapshotFits ==
    ASSUME NEW C, NEW M, NEW s \in NodeState, s.phase = "in_progress", Reached(C, M, s)
    PROVE  /\ SnapshotOf(s) \in Message /\ SnapshotOf(s).type = "game_snapshot"
           /\ SnapshotOf(s).moves = s.history /\ SnapshotOf(s).round = s.round
           /\ <<SnapshotOf(s)>> \in Seq(Message) /\ FitsAll(C, M, <<SnapshotOf(s)>>)
<1> DEFINE msg == SnapshotOf(s)
<1>1. /\ msg \in Message /\ msg.type = "game_snapshot"
      /\ msg.moves = s.history /\ msg.round = s.round
  BY DEF SnapshotOf, NodeState, Message, SnapshotMsg
<1>2. Opened(C, M, Len(s.history), s.round)
  BY DEF Reached, Underway
<1> HIDE DEF msg
<1>3. Fits(C, M, msg)
  BY <1>1, <1>2 DEF Fits
<1>4. <<msg>> \in Seq(Message) /\ FitsAll(C, M, <<msg>>)
  BY <1>1, <1>3 DEF FitsAll
<1>5. QED BY <1>1, <1>4 DEF msg

\* m has counted no window after the one it has open.
LEMMA NothingAhead ==
    ASSUME NEW C \in [Nat -> Nat], NEW M \in NodeState, Counted(C, M), Underway(M),
           NEW i \in Nat, NEW r \in Nat, r < C[i]
    PROVE  Earlier(i, r, Len(M.history), M.round)
<1>1. Len(M.history) \in Nat /\ M.round \in Nat /\ C[i] \in Nat
  BY WindowType
<1>2. /\ i > Len(M.history) => C[i] = 0
      /\ C[Len(M.history)] = M.round
  BY DEF Counted
<1>3. ~(i > Len(M.history))
  <2>1. C[i] # 0
    BY <1>1
  <2>2. QED BY <1>2, <2>1
<1> DEFINE h == Len(M.history)
<1>4. h \in Nat /\ M.round \in Nat /\ ~(i > h) /\ C[h] = M.round
  BY <1>1, <1>2, <1>3
<1> HIDE DEF h
<1>5. i < h \/ i = h
  BY <1>4
<1>6. i = h => r < M.round
  BY <1>4
<1>7. Earlier(i, r, h, M.round)
  BY <1>5, <1>6 DEF Earlier
<1>8. QED BY <1>7 DEF h

\* m takes another player back, and tells it where the game stands.
LEMMA MasterAddsPeer ==
    ASSUME NEW m \in Node, NEW C \in [Nat -> Nat], Supposed(m, C),
           NEW p \in Node, AddPeer(m, p), node[m].phase = "in_progress"
    PROVE  \E D \in [Nat -> Nat] : KeepsUp(D, m)'
<1> DEFINE M == node[m]
           t == [M EXCEPT !.settling = TRUE]
           msg == SnapshotOf(M)
<1>1. /\ node \in [Node -> NodeState] /\ net \in Channels /\ FitsNet(C, M, net)
      /\ Counted(C, M) /\ \A n \in Node : Reached(C, M, node[n])
      /\ peers \in [Node -> SUBSET Node]
      /\ \A n \in Node \ {m} :
            /\ InOrder(net[<<m, n>>])
            /\ Underway(node[n]) /\ InTouch(m, n) => Complete(C, node[n], net[<<m, n>>])
            /\ {m, n} \in up /\ n \notin peers[m] => net[<<m, n>>] = <<>>
  BY Known
<1>2. /\ {m, p} \in up /\ p # m /\ p \notin peers[m] /\ up' = up
      /\ peers' = [peers EXCEPT ![m] = @ \cup {p}]
      /\ node' = [node EXCEPT ![m] = t] /\ net' = Sent(net, m, {p}, <<msg>>)
  BY DEF AddPeer, Do
<1>3. M \in NodeState /\ Underway(M)
  BY <1>1 DEF Underway
<1>4. t \in NodeState /\ Standing(t) = Standing(M)
  BY <1>3 DEF NodeState, Standing
<1>5. /\ msg \in Message /\ msg.type = "game_snapshot"
      /\ msg.moves = M.history /\ msg.round = M.round
      /\ <<msg>> \in Seq(Message) /\ FitsAll(C, M, <<msg>>)
  BY <1>1, <1>3, SnapshotFits
<1>6. net[<<m, p>>] = <<>> /\ net'[<<m, p>>] = <<msg>>
  <2>1. net[<<m, p>>] = <<>>
    BY <1>1, <1>2
  <2>2. net'[<<m, p>>] = <<>> \o <<msg>>
    BY <1>2, <2>1 DEF Sent
  <2>3. QED BY <1>5, <2>1, <2>2, ConcatEmptySeq
<1>7. \A n \in Node \ {p} : net'[<<m, n>>] = net[<<m, n>>]
  BY <1>2 DEF Sent
<1> HIDE DEF t, msg
<1>8. /\ node'[m] = t /\ Counted(C, t)
      /\ \A n \in Node \ {m} : node'[n] = node[n]
      /\ \A n \in Node : Reached(C, t, node'[n])
      /\ FitsNet(C, t, net')
  <2>1. node'[m] = t /\ \A n \in Node \ {m} : node'[n] = node[n]
    BY <1>1, <1>2
  <2>2. Advances(C, M, C, t, <<>>)
    <3>1. Advances(C, M, C, Silent(t).node, Silent(t).out)
      BY <1>1, <1>4, SilentAdvances
    <3>2. QED BY <3>1 DEF Silent
  <2>3. Reached(C, t, t)
    BY <2>2, ReachedItself DEF Advances
  <2>4. ASSUME NEW n \in Node PROVE Reached(C, t, node[n])
    <3>1. Len(node[n].history) \in Nat /\ node[n].round \in Nat
      BY <1>1, WindowType
    <3>2. QED BY <1>1, <2>2, <3>1, ReachedAdvances
  <2>5. FitsNet(C, M, net')
    BY <1>1, <1>2, <1>5, SentFits
  <2>6. \A s : Fits(C, M, s) => Fits(C, t, s)
    <3>1. t.history = M.history /\ t.round = M.round /\ (Underway(t) <=> Underway(M))
      BY <1>4, StandingParts
    <3>2. QED BY <1>4, <3>1 DEF Fits, Reached, Opened
  <2>7. FitsNet(C, t, net')
    BY <2>5, <2>6 DEF FitsNet, FitsAll
  <2>8. Counted(C, t)
    BY <2>2 DEF Advances
  <2>9. QED BY <2>1, <2>3, <2>4, <2>7, <2>8
<1>9. InOrder(<<msg>>)
  BY DEF InOrder
<1>10. \A s : Complete(C, s, <<msg>>)
  <2>1. ASSUME NEW i \in Nat, NEW r \in Nat, r < C[i]
        PROVE  Earlier(i, r, Len(msg.moves), msg.round)
    <3> HIDE DEF M
    <3>1. QED BY <1>1, <1>3, <1>5, <2>1, NothingAhead
  <2>2. <<msg>> # <<>> /\ <<msg>>[1] = msg
    OBVIOUS
  <2>3. QED BY <1>5, <2>1, <2>2 DEF Complete, Ahead
<1>11. ASSUME NEW n \in Node \ {m}
       PROVE  /\ InOrder(net'[<<m, n>>])
              /\ Underway(node'[n]) /\ InTouch(m, n)' =>
                    Complete(C, node'[n], net'[<<m, n>>])
              /\ {m, n} \in up' /\ n \notin peers'[m] => net'[<<m, n>>] = <<>>
  <2>1. CASE n = p
    <3>1. n \in peers'[m]
      BY <1>1, <1>2, <2>1
    <3>2. QED BY <1>6, <1>9, <1>10, <2>1, <3>1
  <2>2. CASE n # p
    <3>1. InTouch(m, n)' <=> InTouch(m, n)
      BY <1>1, <1>2, <2>2 DEF InTouch
    <3>2. n \in peers'[m] <=> n \in peers[m]
      BY <1>1, <1>2, <2>2
    <3>3. QED BY <1>1, <1>2, <1>7, <1>8, <2>2, <3>1, <3>2
  <2>3. QED BY <2>1, <2>2
<1>12. KeepsUp(C, m)'
  BY <1>8, <1>11 DEF KeepsUp
<1>13. QED BY <1>12

LEMMA AddPeerKeepsUp ==
    ASSUME NEW m \in Node, NEW C \in [Nat -> Nat], Supposed(m, C),
           NEW n \in Node, NEW p \in Node, AddPeer(n, p)
    PROVE  \E D \in [Nat -> Nat] : KeepsUp(D, m)'
<1>1. /\ node \in [Node -> NodeState] /\ net \in Channels /\ FitsNet(C, node[m], net)
      /\ peers \in [Node -> SUBSET Node] /\ KeepsUp(C, m)
      /\ \A k \in Node : Reached(C, node[m], node[k])
      /\ \A k \in Node \ {m} :
            /\ InOrder(net[<<m, k>>])
            /\ Underway(node[k]) /\ InTouch(m, k) => Complete(C, node[k], net[<<m, k>>])
            /\ {m, k} \in up /\ k \notin peers[m] => net[<<m, k>>] = <<>>
  BY Known DEF Supposed
<1>2. /\ {n, p} \in up /\ p # n /\ p \notin peers[n] /\ up' = up
      /\ peers' = [peers EXCEPT ![n] = @ \cup {p}]
  BY DEF AddPeer
<1>3. CASE n = m /\ node[m].phase = "in_progress"
  BY <1>3, MasterAddsPeer
<1>4. CASE node[n].phase # "in_progress"
  <2>1. node' = node /\ net' = net
    BY <1>4 DEF AddPeer
  <2>2. ASSUME NEW k \in Node \ {m}, InTouch(m, k)', Underway(node[k])
        PROVE  Complete(C, node[k], net[<<m, k>>])
    <3>1. CASE InTouch(m, k)
      BY <1>1, <2>2, <3>1
    <3>2. CASE ~InTouch(m, k)
      <4>1. n = m /\ k = p /\ {m, k} \in up /\ k \notin peers[m]
        BY <1>1, <1>2, <2>2, <3>2 DEF InTouch
      <4>2. Underway(node[m])
        BY <2>2, <4>1 DEF Supposed, NobodyLeftOut
      <4>3. node[m].phase = "starting"
        BY <1>4, <4>1, <4>2 DEF Underway
      <4>4. \A i \in Nat : C[i] = 0
        BY <4>3, Known
      <4>5. QED BY <4>4, NoneCounted
    <3>3. QED BY <3>1, <3>2
  <2>3. \A k \in Node \ {m} : {m, k} \in up' /\ k \notin peers'[m] =>
            {m, k} \in up /\ k \notin peers[m]
    BY <1>1, <1>2
  <2>4. QED BY <1>1, <2>1, <2>2, <2>3, LinksChange
<1>5. CASE n # m /\ node[n].phase = "in_progress"
  <2> DEFINE s == node[n]
             t == [s EXCEPT !.settling = TRUE]
             msg == SnapshotOf(s)
  <2>1. node' = [node EXCEPT ![n] = t] /\ net' = Sent(net, n, {p}, <<msg>>)
    BY <1>5 DEF AddPeer, Do
  <2>2. s \in NodeState /\ Reached(C, node[m], s)
    BY <1>1
  <2>3. t \in NodeState /\ Standing(t) = Standing(s)
    BY <2>2 DEF NodeState, Standing
  <2>4. <<msg>> \in Seq(Message) /\ FitsAll(C, node[m], <<msg>>)
    BY <1>5, <2>2, SnapshotFits
  <2> HIDE DEF t, msg
  <2>5. /\ InOrder(net[<<m, n>>]) /\ n \in Node \ {m}
        /\ Underway(s) /\ InTouch(m, n) => Complete(C, s, net[<<m, n>>])
        /\ {m, n} \in up /\ n \notin peers[m] => net[<<m, n>>] = <<>>
    BY <1>1, <1>5
  <2>6. /\ Reached(C, node[m], t) /\ (Underway(t) <=> Underway(s))
        /\ Complete(C, s, net[<<m, n>>]) => Complete(C, t, net[<<m, n>>])
    BY <2>2, <2>3, SameStanding, StandingParts
  <2>7. peers'[m] = peers[m] /\ up' = up
    BY <1>1, <1>2, <1>5
  <2> HIDE DEF s
  <2>8. QED BY <1>1, <2>1, <2>3, <2>4, <2>5, <2>6, <2>7, OtherActs
<1>6. QED BY <1>3, <1>4, <1>5

LEMMA KeepUpInit ==
    ASSUME NEW m \in Node, Init, MasterStays(m)
    PROVE  KeepUpInv(m)
<1>1. \A n \in Node : /\ node[n].phase \in {"starting", "in_progress"}
                      /\ node[n].result = "none" /\ node[n].history = <<>>
                      /\ node[n].round = 0 /\ peers[n] = Node \ {n}
  BY DEF Init
<1>2. \A n \in Node : m <= n
  <2>1. PICK j \in Node : \A n \in Node : j <= n
    BY LeastNatural, NodeAssumption
  <2>2. Playing(Node, Connected(j, peers[j])) = Node
    BY <1>1 DEF Playing, Connected
  <2>3. Cardinality(Node) \in Nat /\ Cardinality(Node) # 0
    BY NodeAssumption, FS_CardinalityType, FS_EmptySet
  <2>4. Cardinality(Node) * 2 > Cardinality(Node)
    BY <2>3
  <2>5. Leads(j, peers[j])
    BY <2>1, <2>2, <2>4 DEF Leads, HasQuorum, IsMaster
  <2>6. node[j].phase # "lobby"
    BY <1>1
  <2>7. j = m
    BY <2>5, <2>6 DEF MasterStays
  <2>8. QED BY <2>1, <2>7
<1> DEFINE C == [i \in Nat |-> 0]
<1>3. C \in [Nat -> Nat] /\ \A i \in Nat : C[i] = 0
  OBVIOUS
<1> HIDE DEF C
<1>4. Len(node[m].history) = 0
  BY <1>1
<1>5. Counted(C, node[m])
  BY <1>1, <1>3, <1>4 DEF Counted
<1>6. \A n \in Node : Reached(C, node[m], node[n])
  BY <1>1 DEF Reached, Opened, Underway
<1>7. FitsNet(C, node[m], net) /\ \A n \in Node : InOrder(net[<<m, n>>])
  BY SaidNothing DEF Init, FitsNet
<1>8. \A n \in Node : Complete(C, node[n], net[<<m, n>>])
  BY <1>3, NoneCounted
<1>9. KeepsUp(C, m)
  BY <1>5, <1>6, <1>7, <1>8 DEF KeepsUp, Init
<1>10. QED BY <1>2, <1>3, <1>9 DEF KeepUpInv

LEMMA KeepUpNext ==
    ASSUME NEW m \in Node, MasterStays(m), MasterStays(m)',
           NobodyLeftOut(m), NobodyLeftOut(m)', FollowInv(m), KeepUpInv(m), [Next]_vars
    PROVE  KeepUpInv(m)'
<1> DEFINE Goal == \E D \in [Nat -> Nat] : KeepsUp(D, m)'
<1>1. PICK C \in [Nat -> Nat] : Supposed(m, C)
  BY DEF KeepUpInv, Supposed
<1>2. /\ \A n \in Node : node'[n].phase # "lobby" /\ node'[n].result # "timeout"
      /\ \A n \in Node \ {m} : ~Leads(n, peers'[n])
  BY DEF NobodyLeftOut, MasterStays
<1>3. node \in [Node -> NodeState]
  BY <1>1, Known
<1> HIDE DEF Goal
<1>4. ASSUME NEW n \in Node, Begin(n) PROVE Goal
  BY <1>1, <1>4, BeginKeepsUp DEF Goal
<1>5. ASSUME NEW n \in Node, NEW move \in Move, CastVote(n, move) PROVE Goal
  BY <1>1, <1>5, CastVoteKeepsUp DEF Goal
<1>6. ASSUME NEW n \in Node, WindowCloses(n) PROVE Goal
  BY <1>1, <1>6, WindowClosesKeepsUp DEF Goal
<1>7. ASSUME NEW n \in Node, TallyDue(n) PROVE Goal
  BY <1>1, <1>7, TallyDueKeepsUp DEF Goal
<1>8. ASSUME NEW n \in Node, GraceOver(n) PROVE Goal
  BY <1>1, <1>8, GraceOverKeepsUp DEF Goal
<1>9. ASSUME NEW n \in Node, MoveTimeout(n) PROVE Goal
  <2>1. node'[n].result = "timeout"
    BY <1>3, <1>9 DEF MoveTimeout, Do, EndGame, NodeState
  <2>2. QED BY <1>2, <2>1
<1>10. ASSUME NEW n \in Node, NEW p \in Node, Receive(p, n) PROVE Goal
  BY <1>1, <1>2, <1>10, ReceiveKeepsUp DEF Goal
<1>11. ASSUME NEW l \in MayDrop, LinkFails(l) PROVE Goal
  BY <1>1, <1>11, LinkFailsKeepsUp DEF Goal
<1>12. ASSUME NEW n \in Node, NEW p \in Node, PeerDisconnects(n, p) PROVE Goal
  BY <1>1, <1>2, <1>12, PeerDisconnectsKeepsUp DEF Goal
<1>13. ASSUME NEW l \in Links, LinkReturns(l) PROVE Goal
  BY <1>1, <1>13, LinkReturnsKeepsUp DEF Goal
<1>14. ASSUME NEW n \in Node, NEW p \in Node, AddPeer(n, p) PROVE Goal
  BY <1>1, <1>14, AddPeerKeepsUp DEF Goal
<1>15. ASSUME NEW n \in Node, Restart(n) PROVE Goal
  <2>1. node'[n].phase = "lobby"
    BY <1>3, <1>15 DEF Restart, EndGame, NodeState
  <2>2. QED BY <1>2, <2>1
<1>16. ASSUME UNCHANGED vars PROVE Goal
  <2>1. UNCHANGED <<node, peers, up, net>>
    BY <1>16 DEF vars
  <2>2. /\ FitsNet(C, node[m], net)
        /\ \A n \in Node \ {m} :
              /\ Underway(node[n]) /\ InTouch(m, n) => Complete(C, node[n], net[<<m, n>>])
              /\ {m, n} \in up /\ n \notin peers[m] => net[<<m, n>>] = <<>>
    BY <1>1, Known
  <2>3. \A n : InTouch(m, n)' <=> InTouch(m, n)
    BY <2>1 DEF InTouch
  <2>4. QED BY <1>1, <2>1, <2>2, <2>3, LinksChange DEF Goal
<1>17. Goal
  BY <1>4, <1>5, <1>6, <1>7, <1>8, <1>9, <1>10, <1>11, <1>12, <1>13, <1>14, <1>15,
     <1>16 DEF Next
<1>18. QED BY <1>17 DEF KeepUpInv, Goal

-----------------------------------------------------------------------------
(* When all is handled.                                                    *)

LEMMA KeptUp ==
    ASSUME NEW m \in Node, FollowInv(m), NobodyLeftOut(m), KeepUpInv(m), Quiet,
           NEW n \in Node
    PROVE  Standing(node[n]) = Standing(node[m])
<1> DEFINE M == node[m]
           s == node[n]
<1>1. PICK C \in [Nat -> Nat] : KeepsUp(C, m)
  BY DEF KeepUpInv
<1>2. /\ Counted(C, M) /\ Reached(C, M, s)
      /\ n # m /\ Underway(s) /\ InTouch(m, n) => Complete(C, s, net[<<m, n>>])
  BY <1>1 DEF KeepsUp
<1>3. /\ M \in NodeState /\ s \in NodeState
      /\ M.history \in Seq(Move) /\ s.history \in Seq(Move)
      /\ InPrefix(M.history, M.history) /\ InPrefix(s.history, M.history)
  BY DEF FollowInv, TypeOK, Follows, NodeState
<1>4. M.phase # "starting" /\ s.phase # "starting" /\ net[<<m, n>>] = <<>>
  BY DEF Quiet
<1>5. CASE n = m
  BY <1>5
<1>6. CASE ~Underway(s)
  BY <1>2, <1>6 DEF Reached
<1>7. CASE n # m /\ Underway(s)
  <2> DEFINE j == Len(s.history)
             u == s.round
  <2>1. j \in Nat /\ u \in Nat
    BY <1>3, WindowType
  <2>2. InTouch(m, n)
    BY <1>7, PairIsLink DEF InTouch, Quiet
  <2>3. Complete(C, s, <<>>)
    BY <1>2, <1>4, <1>7, <2>2
  <2>4. s.result = "none" /\ Opened(C, M, j, u)
    BY <1>2, <1>7 DEF Reached
  <2>5. ~(u < C[j])
    <3> SUFFICES ASSUME u < C[j] PROVE FALSE
      OBVIOUS
    <3> HIDE DEF j, u
    <3>a. ~Earlier(j, u, j, u)
      BY <2>1 DEF Earlier
    <3>1. Ahead(s, <<>>, j, u)
      BY <3>a DEF Ahead, j, u
    <3>2. \E k \in 1..Len(<<>>) : IsTally(<<>>[k], j, u)
      BY <2>1, <2>3, <3>1 DEF Complete
    <3>3. QED BY <3>2
  <2>6. Underway(M) /\ j = Len(M.history) /\ u = M.round
    BY <2>4, <2>5 DEF Opened
  <2>7. s.history = M.history
    BY <1>3, <2>6, PrefixesCompare
  <2>8. M.phase = "in_progress" /\ s.phase = "in_progress" /\ M.result = "none"
    BY <1>2, <1>4, <1>7, <2>6 DEF Underway, Counted
  <2>9. QED BY <2>4, <2>6, <2>7, <2>8 DEF Standing
<1>8. QED BY <1>5, <1>6, <1>7

LEMMA KeptUpIsSameGame ==
    ASSUME NEW m \in Node
    PROVE  FollowInv(m) /\ NobodyLeftOut(m) /\ KeepUpInv(m) => SameGameWhenQuiet
<1> SUFFICES ASSUME FollowInv(m), NobodyLeftOut(m), KeepUpInv(m), Quiet
             PROVE  \A n \in Node : Standing(node[n]) = Standing(node[m])
  BY DEF SameGameWhenQuiet, Standing
<1> QED BY KeptUp

\* For any number of players and any rules of chess, whatever links fail and
\* return: as long as one player counts and nobody is left out of its game,
\* everyone is at the same move and round, or has the same ending, once all is
\* handled.  Every tally reaches whoever needs it, or a snapshot makes up for it.
THEOREM NobodyStaysBehind ==
    ASSUME NEW m \in Node
    PROVE  Spec /\ []MasterStays(m) /\ []NobodyLeftOut(m) => []SameGameWhenQuiet
<1>1. Init /\ MasterStays(m) => KeepUpInv(m)
  BY KeepUpInit
<1>2. /\ MasterStays(m) /\ MasterStays(m)' /\ NobodyLeftOut(m) /\ NobodyLeftOut(m)'
      /\ FollowInv(m) /\ KeepUpInv(m) /\ [Next]_vars
      => KeepUpInv(m)'
  BY KeepUpNext
<1>3. FollowInv(m) /\ NobodyLeftOut(m) /\ KeepUpInv(m) => SameGameWhenQuiet
  BY KeptUpIsSameGame
<1>4. Spec /\ []MasterStays(m) => []FollowInv(m)
  BY FollowAlways
<1>5. QED BY <1>1, <1>2, <1>3, <1>4, PTL DEF Spec

-----------------------------------------------------------------------------
(* Faults that leave nobody out.                                           *)

NoTimeoutTold(out) == \A i \in 1..Len(out) : out[i].type # "game_over"

NoTimeouts ==
    /\ \A n \in Node : node[n].result # "timeout"
    /\ \A c \in Node \X Node : NoTimeoutTold(net[c])

LEMMA ApplyTallyResult ==
    ASSUME NEW s \in NodeState, s.result # "timeout"
    PROVE  \A t : ApplyTally(s, t).result # "timeout"
<1>1. \A h, i : OpenWindow(s, h, i).result = s.result
  BY DEF OpenWindow, NodeState
<1>2. \A why, h : /\ EndGame(s, why).result = why
                  /\ [EndGame(s, why) EXCEPT !.history = h].result = why
  BY DEF EndGame, NodeState
<1>3. QED BY <1>1, <1>2 DEF ApplyTally, PlayMove, MaybeRevote

LEMMA CountingIsNoTimeout ==
    ASSUME NEW n, NEW s \in NodeState, s.result # "timeout", NEW ps
    PROVE  /\ CountIfEveryoneVoted(n, s, ps).node.result # "timeout"
           /\ NoTimeoutTold(CountIfEveryoneVoted(n, s, ps).out)
<1>1. \A t : ApplyTally(s, t).result # "timeout"
  BY ApplyTallyResult
<1>2. NoTimeoutTold(<<TallyClaim(s)>>) /\ NoTimeoutTold(<<>>)
  BY DEF NoTimeoutTold, TallyClaim
<1>3. QED BY <1>1, <1>2 DEF CountIfEveryoneVoted, CountAndPublish, Silent

LEMMA HandledIsNoTimeout ==
    ASSUME NEW n, NEW s \in NodeState, s.result # "timeout", NEW ps, NEW p \in Node,
           NEW msg \in Message, msg.type # "game_over", NEW believed, NEW r,
           r = Handled(n, s, ps, p, msg, believed)
    PROVE  r.node.result # "timeout" /\ NoTimeoutTold(r.out)
<1> DEFINE Fine(x) == x.node.result # "timeout" /\ NoTimeoutTold(x.out)
<1>1. \A t : t.result # "timeout" => Fine(Silent(t))
  BY DEF Silent, NoTimeoutTold
<1>2. EndGame(s, "desync").result # "timeout"
  BY DEF EndGame, NodeState
<1>3. ASSUME NEW t \in NodeState, t.result = s.result
      PROVE  Fine(CountIfEveryoneVoted(n, t, ps))
  BY <1>3, CountingIsNoTimeout
<1>4. \A t : ApplyTally(s, t).result # "timeout"
  BY ApplyTallyResult
<1> HIDE DEF Fine
<1>5. CASE msg \in VoteMsg /\ msg.type = "vote"
  <2> DEFINE t == [s EXCEPT !.votes[p] = msg.move]
  <2>1. t \in NodeState /\ t.result = s.result
    BY <1>5, VoteType DEF VoteMsg, NodeState
  <2> HIDE DEF t
  <2>2. Fine(CountIfEveryoneVoted(n, t, ps))
    BY <1>3, <2>1
  <2>3. Fine(r)
    BY <1>1, <1>5, <2>2 DEF Handled, HandleVote, t
  <2>4. QED BY <2>3 DEF Fine
<1>6. CASE msg \in TallyMsg /\ msg.type = "tally_result"
  <2>1. Fine(r)
    BY <1>1, <1>2, <1>4, <1>6 DEF Handled, HandleTallyResult
  <2>2. QED BY <2>1 DEF Fine
<1>7. CASE msg \in SnapshotMsg /\ msg.type = "game_snapshot"
  <2> DEFINE caught == IF ShowsMore(s, msg)
                       THEN OpenWindow(s, msg.moves, msg.round) ELSE s
             merged == MergeVotes(caught, msg.votes)
  <2>1. caught \in NodeState /\ caught.result = s.result
    BY <1>7, OpenWindowType DEF SnapshotMsg, OpenWindow, NodeState
  <2> HIDE DEF caught
  <2>2. merged \in NodeState /\ merged.result = s.result
    BY <1>7, <2>1, MergeVotesType DEF SnapshotMsg, MergeVotes, NodeState
  <2> HIDE DEF merged
  <2>3. Fine(CountIfEveryoneVoted(n, merged, ps)) /\ Fine(Silent(caught))
    BY <1>1, <1>3, <2>1, <2>2
  <2>4. Fine(r)
    BY <1>1, <1>2, <1>7, <2>3 DEF Handled, HandleGameSnapshot, caught, merged
  <2>5. QED BY <2>4 DEF Fine
<1>8. QED BY <1>5, <1>6, <1>7, MessageTypes

LEMMA NoTimeoutJoined ==
    ASSUME NEW q \in Seq(Message), NEW out \in Seq(Message),
           NoTimeoutTold(q), NoTimeoutTold(out)
    PROVE  NoTimeoutTold(q \o out)
<1>1. /\ Len(q \o out) = Len(q) + Len(out)
      /\ \A i \in 1..(Len(q) + Len(out)) :
            (q \o out)[i] = IF i <= Len(q) THEN q[i] ELSE out[i - Len(q)]
  BY ConcatProperties
<1>2. Len(q) \in Nat /\ Len(out) \in Nat
  OBVIOUS
<1>3. \A i \in 1..(Len(q) + Len(out)) :
          i \in 1..Len(q) \/ (~(i <= Len(q)) /\ i - Len(q) \in 1..Len(out))
  BY <1>2
<1>4. QED BY <1>1, <1>3 DEF NoTimeoutTold

\* A node that has n's new state and says what tells of no timeout.
LEMMA SaysNoTimeout ==
    ASSUME node \in [Node -> NodeState], net \in Channels, NoTimeouts, NEW n \in Node,
           NEW t, t.result # "timeout", node' = [node EXCEPT ![n] = t],
           NEW queues \in Channels,
           \A c \in Node \X Node : NoTimeoutTold(queues[c]),
           NEW ps, NEW out \in Seq(Message), NoTimeoutTold(out),
           net' = Sent(queues, n, ps, out)
    PROVE  NoTimeouts'
<1>1. \A k \in Node : node'[k].result # "timeout"
  BY DEF NoTimeouts
<1>2. ASSUME NEW c \in Node \X Node PROVE NoTimeoutTold(net'[c])
  <2> DEFINE q == queues[c]
  <2>1. q \in Seq(Message) /\ NoTimeoutTold(q)
    BY DEF Channels
  <2>2. net'[c] \in {q, q \o out}
    BY DEF Sent
  <2> HIDE DEF q
  <2>3. NoTimeoutTold(q \o out)
    BY <2>1, NoTimeoutJoined
  <2>4. QED BY <2>1, <2>2, <2>3
<1>3. QED BY <1>1, <1>2 DEF NoTimeouts

LEMMA NoTimeoutsNext ==
    ASSUME TypeOK, NoTimeouts, ~MoveTimeouts, [Next]_vars
    PROVE  NoTimeouts'
<1>1. /\ node \in [Node -> NodeState] /\ net \in Channels
      /\ \A n \in Node : node[n] \in NodeState /\ node[n].result # "timeout"
      /\ \A c \in Node \X Node : net[c] \in Seq(Message) /\ NoTimeoutTold(net[c])
  BY DEF TypeOK, NoTimeouts, Channels
<1>2. NoTimeoutTold(<<>>) /\ <<>> \in Seq(Message)
  BY DEF NoTimeoutTold
<1> DEFINE Goal == NoTimeouts'
<1>3. ASSUME NEW n \in Node, NEW t, node' = [node EXCEPT ![n] = t],
             t.result # "timeout", \A c \in Node \X Node : net'[c] \in {<<>>, net[c]}
      PROVE  Goal
  BY <1>1, <1>2, <1>3 DEF NoTimeouts
<1>4. ASSUME NEW n \in Node, NEW r \in Handlings, NEW queues \in Channels, NEW ps,
             Do(n, r, queues, ps), r.node.result # "timeout", NoTimeoutTold(r.out),
             \A c \in Node \X Node : NoTimeoutTold(queues[c])
      PROVE  Goal
  <2>1. r.out \in Seq(Message)
    BY DEF Handlings
  <2>2. node' = [node EXCEPT ![n] = r.node] /\ net' = Sent(queues, n, ps, r.out)
    BY <1>4 DEF Do
  <2>3. QED BY <1>1, <1>4, <2>1, <2>2, SaysNoTimeout
<1> HIDE DEF Goal
<1>5. ASSUME NEW n \in Node, Begin(n) PROVE Goal
  <2> DEFINE t == OpenWindow([node[n] EXCEPT !.phase = "in_progress"], <<>>, 0)
  <2>1. t.result # "timeout"
    BY <1>1 DEF OpenWindow, NodeState
  <2> HIDE DEF t
  <2>2. QED BY <1>3, <1>5, <2>1 DEF Begin, t
<1>6. ASSUME NEW n \in Node, NEW move \in Move, CastVote(n, move) PROVE Goal
  <2> DEFINE s     == node[n]
             t     == [s EXCEPT !.votes[n] = move]
             msg   == [type |-> "vote", turn |-> Len(s.history), round |-> s.round,
                       move |-> move]
             count == CountIfEveryoneVoted(n, t, peers[n])
             r     == [count EXCEPT !.out = <<msg>> \o @]
  <2>1. s \in NodeState /\ t \in NodeState /\ t.result # "timeout"
    BY <1>1, VoteType DEF NodeState
  <2>2. <<msg>> \in Seq(Message) /\ NoTimeoutTold(<<msg>>)
    <3>1. Len(s.history) \in Nat /\ s.round \in Nat
      BY <2>1, WindowType
    <3>2. msg \in VoteMsg
      BY <3>1 DEF VoteMsg
    <3>3. QED BY <3>2 DEF Message, NoTimeoutTold
  <2> HIDE DEF t, msg
  <2>3. /\ count \in Handlings /\ count.node.result # "timeout"
        /\ NoTimeoutTold(count.out)
    BY <2>1, CountIfEveryoneVotedType, CountingIsNoTimeout
  <2>4. Do(n, r, net, peers[n])
    BY <1>6 DEF CastVote, t, msg
  <2> HIDE DEF count
  <2>5. count.out \in Seq(Message) /\ r.node = count.node /\ r.out = <<msg>> \o count.out
    BY <2>3 DEF Handlings
  <2>6. NoTimeoutTold(r.out) /\ r.out \in Seq(Message)
    BY <2>2, <2>3, <2>5, NoTimeoutJoined, ConcatProperties
  <2>7. r \in Handlings
    BY <2>3, <2>6 DEF Handlings
  <2> HIDE DEF r
  <2>8. QED BY <1>1, <1>4, <2>3, <2>4, <2>5, <2>6, <2>7
<1>7. ASSUME NEW n \in Node, WindowCloses(n) PROVE Goal
  <2>1. [node[n] EXCEPT !.closed = TRUE].result # "timeout"
    BY <1>1 DEF NodeState
  <2>2. QED BY <1>3, <1>7, <2>1 DEF WindowCloses
<1>8. ASSUME NEW n \in Node, TallyDue(n) PROVE Goal
  <2> DEFINE r == CountAndPublish(node[n])
  <2>1. r \in Handlings
    BY <1>1, CountAndPublishType
  <2>2. r.node.result # "timeout" /\ NoTimeoutTold(r.out)
    BY <1>1, ApplyTallyResult DEF CountAndPublish, NoTimeoutTold, TallyClaim
  <2> HIDE DEF r
  <2>3. QED BY <1>1, <1>4, <1>8, <2>1, <2>2 DEF TallyDue, r
<1>9. ASSUME NEW n \in Node, GraceOver(n) PROVE Goal
  <2>1. [node[n] EXCEPT !.settling = FALSE].result # "timeout"
    BY <1>1 DEF NodeState
  <2>2. QED BY <1>3, <1>9, <2>1 DEF GraceOver
<1>10. ASSUME NEW n \in Node, MoveTimeout(n) PROVE Goal
  BY <1>10 DEF MoveTimeout
<1>11. ASSUME NEW n \in Node, NEW p \in Node, Receive(p, n) PROVE Goal
  <2> DEFINE q    == net[<<p, n>>]
             msg  == Head(q)
             rest == [net EXCEPT ![<<p, n>>] = Tail(@)]
  <2>1. q \in Seq(Message) /\ q # <<>> /\ NoTimeoutTold(q)
    BY <1>1, <1>11 DEF Receive
  <2>2. PICK believed : Do(n, Handled(n, node[n], peers[n], p, msg, believed), rest, peers[n])
    BY <1>11 DEF Receive
  <2>3. rest = [net EXCEPT ![<<p, n>>] = Tail(q)]
    OBVIOUS
  <2> HIDE DEF q, rest
  <2>4. /\ msg \in Message /\ msg.type # "game_over"
        /\ Tail(q) \in Seq(Message) /\ NoTimeoutTold(Tail(q))
    BY <2>1, RestOf DEF NoTimeoutTold
  <2>5. rest \in Channels /\ \A c \in Node \X Node : NoTimeoutTold(rest[c])
    BY <1>1, <2>3, <2>4 DEF Channels
  <2> HIDE DEF msg
  <2> DEFINE r == Handled(n, node[n], peers[n], p, msg, believed)
  <2>6. r \in Handlings
    BY <1>1, <2>4, HandledType
  <2>7. r.node.result # "timeout" /\ NoTimeoutTold(r.out)
    BY <1>1, <2>4, HandledIsNoTimeout
  <2> HIDE DEF r
  <2>8. QED BY <1>4, <2>2, <2>5, <2>6, <2>7 DEF r
<1>12. ASSUME NEW n \in Node, NEW p \in Node, PeerDisconnects(n, p) PROVE Goal
  <2> DEFINE r == CountIfEveryoneVoted(n, node[n], peers[n] \ {p})
             queues == [net EXCEPT ![<<p, n>>] = <<>>]
  <2>1. r \in Handlings /\ r.node.result # "timeout" /\ NoTimeoutTold(r.out)
    BY <1>1, CountIfEveryoneVotedType, CountingIsNoTimeout
  <2>2. queues \in Channels /\ \A c \in Node \X Node : NoTimeoutTold(queues[c])
    BY <1>1, <1>2 DEF Channels
  <2>3. Do(n, r, queues, peers[n] \ {p})
    BY <1>12 DEF PeerDisconnects
  <2> HIDE DEF r, queues
  <2>4. QED BY <1>4, <2>1, <2>2, <2>3
<1>13. ASSUME node' = node, \A c \in Node \X Node : net'[c] \in {<<>>, net[c]}
       PROVE  Goal
  BY <1>1, <1>2, <1>13 DEF NoTimeouts, Goal
<1>14. ASSUME NEW l \in MayDrop, LinkFails(l) PROVE Goal
  BY <1>13, <1>14 DEF LinkFails
<1>15. ASSUME NEW l \in Links, LinkReturns(l) PROVE Goal
  BY <1>13, <1>15 DEF LinkReturns
<1>16. ASSUME NEW n \in Node, NEW p \in Node, AddPeer(n, p) PROVE Goal
  <2>1. CASE node[n].phase = "in_progress"
    <3> DEFINE r == [node |-> [node[n] EXCEPT !.settling = TRUE],
                     out  |-> <<SnapshotOf(node[n])>>]
    <3>1. r.node \in NodeState /\ r.node.result # "timeout"
      BY <1>1 DEF NodeState
    <3>2. r.out \in Seq(Message) /\ NoTimeoutTold(r.out)
      BY <1>1 DEF SnapshotOf, NodeState, Message, SnapshotMsg, NoTimeoutTold
    <3>3. r \in Handlings
      BY <3>1, <3>2 DEF Handlings
    <3>4. Do(n, r, net, {p})
      BY <1>16, <2>1 DEF AddPeer
    <3> HIDE DEF r
    <3>5. QED BY <1>1, <1>4, <3>1, <3>2, <3>3, <3>4
  <2>2. CASE node[n].phase # "in_progress"
    BY <1>13, <1>16, <2>2 DEF AddPeer
  <2>3. QED BY <2>1, <2>2
<1>17. ASSUME NEW n \in Node, Restart(n) PROVE Goal
  <2> DEFINE t == [EndGame(node[n], "none") EXCEPT !.phase = "lobby", !.history = <<>>]
  <2>1. t.result # "timeout"
    BY <1>1 DEF EndGame, NodeState
  <2> HIDE DEF t
  <2>2. QED BY <1>3, <1>17, <2>1 DEF Restart, t
<1>18. ASSUME UNCHANGED vars PROVE Goal
  BY <1>13, <1>18 DEF vars
<1>19. Goal
  BY <1>5, <1>6, <1>7, <1>8, <1>9, <1>10, <1>11, <1>12, <1>14, <1>15, <1>16, <1>17,
     <1>18 DEF Next
<1>20. QED BY <1>19 DEF Goal

\* No countdown runs into the game, and nobody leaves it.
Together == \A n \in Node : node[n].phase \notin {"lobby", "starting"}

LEMMA TogetherNext ==
    ASSUME TypeOK, Together, MayRestart = {}, [Next]_vars
    PROVE  Together'
<1>1. ASSUME NEW n \in Node PROVE node'[n].phase # "lobby"
  BY OnlyRestartsLeave DEF Together, Restart
<1>2. ASSUME NEW n \in Node PROVE node'[n].phase # "starting"
  BY NextForward DEF Together, MovesForward
<1>3. QED BY <1>1, <1>2 DEF Together

\* For any number of players and any rules of chess: when the links of the
\* player with the lowest key hold and those of the others may fail and return,
\* nobody's app restarts, the countdowns end together and no turn runs out of
\* time, everyone ends up in the same place once all is handled.
THEOREM NobodyStaysBehindTheLowest ==
    ASSUME NEW m \in Node, \A n \in Node : m <= n, \A l \in MayDrop : m \notin l,
           MayRestart = {}, ~StartSkew, ~MoveTimeouts
    PROVE  Spec => []SameGameWhenQuiet
<1>1. \A n \in Node \ {m} : m < n /\ Holds(n, m) /\ Holds(m, n)
  BY NodeAssumption DEF Holds
<1>2. StaysMaster(m)
  BY <1>1 DEF StaysMaster
<1>3. Spec => []MasterStays(m)
  BY <1>2, MasterNeverChanges
<1>4. Init => NoTimeouts /\ Together
  BY DEF Init, NoTimeouts, NoTimeoutTold, Together
<1>5. /\ TypeOK /\ NoTimeouts /\ [Next]_vars => NoTimeouts'
      /\ TypeOK /\ Together /\ [Next]_vars => Together'
  BY NoTimeoutsNext, TogetherNext
<1>6. Wired /\ NoTimeouts /\ Together => NobodyLeftOut(m)
  BY <1>1 DEF Wired, NoTimeouts, Together, NobodyLeftOut
<1>7. Spec /\ []MasterStays(m) /\ []NobodyLeftOut(m) => []SameGameWhenQuiet
  BY NobodyStaysBehind
<1>8. QED BY <1>3, <1>4, <1>5, <1>6, <1>7, TypeCorrect, WiredAlways, PTL DEF Spec

=============================================================================
