-------------------------- MODULE VotingGame_proofs --------------------------
(***************************************************************************)
(* VotingGame keeps its types, only ever moves forward on every node, lets *)
(* a player vote once per turn and round, and counts and plays nothing but *)
(* what was voted for: for any players, moves, rules of chess, settings    *)
(* and faults.                                                             *)
(***************************************************************************)
EXTENDS VotingGame, SequenceTheorems, FiniteSetTheorems, WellFoundedInduction, TLAPS

-----------------------------------------------------------------------------
(* The counting rule of VoteTally, for every list of votes of finitely     *)
(* many players.                                                           *)

\* A non-empty set of naturals has a least element: the move that sorts first.
LEMMA LeastNatural ==
    ASSUME NEW T, T \subseteq Nat, T # {}
    PROVE  \E m \in T : \A k \in T : m <= k
<1> DEFINE R == OpToRel(<, Nat)
<1>1. IsWellFoundedOn(R, Nat)
  BY NatLessThanWellFounded
<1>2. \A x, y \in Nat : x < y => <<x, y>> \in R
  BY Zenon DEF OpToRel
<1> HIDE DEF R
<1>3. PICK m \in T : \A k \in T : ~ (<<k, m>> \in R)
  BY <1>1, WFMin, Zenon
<1>4. \A k \in T : ~ (k < m)
  BY <1>2, <1>3
<1>5. \A k \in T : m <= k
  BY <1>4
<1>6. QED BY <1>5

\* The voters, and those among them who chose m, are finitely many.
LEMMA VotersAreFinite ==
    ASSUME IsFiniteSet(Node), NEW votes
    PROVE  /\ IsFiniteSet(Voters(votes))
           /\ Cardinality(Voters(votes)) \in Nat
           /\ \A m : IsFiniteSet({v \in Node : votes[v] = m})
           /\ \A m : Count(votes, m) \in Nat
<1>1. \A S \in SUBSET Node : IsFiniteSet(S) /\ Cardinality(S) \in Nat
  BY FS_Subset, FS_CardinalityType
<1>2. Voters(votes) \in SUBSET Node
  BY DEF Voters
<1>3. \A m : {v \in Node : votes[v] = m} \in SUBSET Node
  OBVIOUS
<1>4. QED BY <1>1, <1>2, <1>3, Zenon DEF Count

\* The leading moves are moves somebody voted for, and finitely many.
LEMMA TopIsVotedFor ==
    ASSUME IsFiniteSet(Node), NoVote \notin Move, NEW votes \in Votes
    PROVE  /\ Top(votes) \subseteq Move
           /\ \A m \in Top(votes) : \E v \in Node : votes[v] = m
           /\ IsFiniteSet(Top(votes))
<1> DEFINE voted == {votes[v] : v \in Voters(votes)}
           f == [v \in Voters(votes) |-> votes[v]]
<1>1. Top(votes) \subseteq voted
  BY DEF Top
<1>2. voted \subseteq Move
  BY DEF Voters, Votes
<1>3. f \in Surjection(Voters(votes), voted)
  BY DEF Surjection
<1>4. IsFiniteSet(voted)
  BY <1>3, VotersAreFinite, FS_Surjection
<1>5. IsFiniteSet(Top(votes))
  BY <1>1, <1>4, FS_Subset
<1>6. QED BY <1>1, <1>2, <1>5 DEF Voters

\* When there is a winner, it is a move and at least one player voted for it:
\* a tally cannot produce a move out of nothing.
THEOREM WinnerWasVotedFor ==
    ASSUME IsFiniteSet(Node), Move \subseteq Nat, NoVote \notin Move,
           NEW votes \in Votes, Outcome(votes) = "winner"
    PROVE  /\ Winner(votes) \in Top(votes)
           /\ Winner(votes) \in Move
           /\ \E v \in Node : votes[v] = Winner(votes)
<1>1. Top(votes) # {}
  <2>1. Cardinality(Top(votes)) \in {1, 2}
    BY DEF Outcome, Majority, TwoWayTie
  <2>2. QED BY <2>1, FS_EmptySet
<1>2. Top(votes) \subseteq Nat
  BY TopIsVotedFor
<1>3. \E m \in Top(votes) : \A k \in Top(votes) : m <= k
  BY <1>1, <1>2, LeastNatural
<1>4. Winner(votes) \in Top(votes)
  BY <1>3 DEF Winner
<1>5. QED BY <1>4, TopIsVotedFor

\* What tallyMoves returns is a well-formed outcome.
LEMMA TallyMovesType ==
    ASSUME IsFiniteSet(Node), Move \subseteq Nat, NoVote \notin Move,
           NEW votes \in Votes
    PROVE  /\ TallyMoves(votes).outcome \in {"winner", "no_majority", "no_votes"}
           /\ TallyMoves(votes).move \in Move \cup {NoVote}
           /\ TallyMoves(votes).outcome = "winner" =>
                 /\ TallyMoves(votes).move \in Move
                 /\ \E v \in Node : votes[v] = TallyMoves(votes).move
<1>1. Outcome(votes) \in {"winner", "no_majority", "no_votes"}
  BY DEF Outcome
<1>2. QED BY <1>1, WinnerWasVotedFor DEF TallyMoves

\* A move with more than half of the votes is the move that is played
\* (README: "A move with more than half the votes is committed").
THEOREM MajorityIsPlayed ==
    ASSUME IsFiniteSet(Node), Move \subseteq Nat, NoVote \notin Move,
           NEW votes \in Votes, NEW m \in Move,
           Count(votes, m) * 2 > Cardinality(Voters(votes))
    PROVE  TallyMoves(votes) = [outcome |-> "winner", move |-> m]
<1> DEFINE For(k) == {v \in Node : votes[v] = k}
<1>1. /\ \A k : IsFiniteSet(For(k)) /\ Cardinality(For(k)) = Count(votes, k)
      /\ \A k : Count(votes, k) \in Nat
      /\ IsFiniteSet(Voters(votes)) /\ Cardinality(Voters(votes)) \in Nat
  BY VotersAreFinite, Zenon DEF Count
<1>2. \A k \in Move : For(k) \subseteq Voters(votes)
  BY DEF Voters
<1>3. \A k \in Move : k # m => Count(votes, k) < Count(votes, m)
  <2> SUFFICES ASSUME NEW k \in Move, k # m
               PROVE  Count(votes, k) < Count(votes, m)
    OBVIOUS
  <2>1. For(k) \cap For(m) = {}
    OBVIOUS
  <2>2. For(k) \cup For(m) \in SUBSET Voters(votes)
    BY <1>2
  <2>3. Cardinality(For(k) \cup For(m)) =
            Cardinality(For(k)) + Cardinality(For(m)) - Cardinality(For(k) \cap For(m))
    BY <1>1, FS_Union
  <2>4. Cardinality(For(k) \cap For(m)) = 0
    BY <2>1, FS_EmptySet
  <2>5. Cardinality(For(k) \cup For(m)) <= Cardinality(Voters(votes))
    BY <2>2, <1>1, FS_Subset
  <2>6. Count(votes, k) + Count(votes, m) <= Cardinality(Voters(votes))
    BY <2>3, <2>4, <2>5, <1>1
  <2>7. QED BY <2>6, <1>1
<1>4. \E v \in Node : votes[v] = m
  <2>1. For(m) # {}
    BY <1>1, FS_EmptySet
  <2>2. QED BY <2>1
<1>5. Top(votes) = {m}
  <2>1. {votes[v] : v \in Voters(votes)} \subseteq Move
    BY DEF Voters, Votes
  <2>2. m \in {votes[v] : v \in Voters(votes)}
    BY <1>4 DEF Voters
  <2>3. \A k \in Move : Count(votes, k) \in Nat
    BY <1>1
  <2>4. m \in Top(votes)
    <3>1. \A k \in Move : Count(votes, k) <= Count(votes, m)
      BY <2>3, <1>3
    <3>2. QED BY <3>1, <2>1, <2>2 DEF Top
  <2>5. \A k \in Top(votes) : k \in Move /\ Count(votes, m) <= Count(votes, k)
    BY <2>1, <2>2 DEF Top
  <2>6. \A k \in Top(votes) : k = m
    <3> SUFFICES ASSUME NEW k \in Top(votes), k # m
                 PROVE  FALSE
      OBVIOUS
    <3>1. k \in Move /\ Count(votes, m) <= Count(votes, k)
      BY <2>5
    <3>2. Count(votes, k) < Count(votes, m)
      BY <3>1, <1>3
    <3>3. Count(votes, k) \in Nat /\ Count(votes, m) \in Nat
      BY <3>1, <2>3
    <3>4. QED BY <3>1, <3>2, <3>3
  <2>7. QED BY <2>4, <2>6
<1>6. Cardinality(Top(votes)) = 1
  BY <1>5, FS_Singleton
<1>7. Voters(votes) # {}
  BY <1>4 DEF Voters
<1>8. Outcome(votes) = "winner"
  BY <1>5, <1>6, <1>7 DEF Outcome, Majority
<1>9. Winner(votes) = m
  BY <1>5 DEF Winner
<1>10. QED BY <1>8, <1>9 DEF TallyMoves

-----------------------------------------------------------------------------
(* What votes and handlers are.                                            *)

\* The tally of a list of votes, as tallyMoves returns it.
Tallies == [outcome : {"winner", "no_majority", "no_votes"}, move : Move \cup {NoVote}]

\* What a handler returns: the node's new state and what it broadcasts.
Handlings == [node : NodeState, out : Seq(Message)]

-----------------------------------------------------------------------------
(* Types of the operators the actions are made of.                         *)

LEMMA NoVotesType == NoVotes \in Votes
BY DEF NoVotes, Votes

LEMMA TallyType ==
    ASSUME NEW votes \in Votes
    PROVE  /\ TallyMoves(votes) \in Tallies
           /\ TallyMoves(votes).outcome = "winner" => TallyMoves(votes).move \in Move
<1>1. IsFiniteSet(Node) /\ Move \subseteq Nat /\ NoVote \notin Move
  BY NodeAssumption, MoveAssumption
<1>2. TallyMoves(votes) = [outcome |-> TallyMoves(votes).outcome, move |-> TallyMoves(votes).move]
  BY DEF TallyMoves
<1>3. QED BY <1>1, <1>2, TallyMovesType DEF Tallies

LEMMA OpenWindowType ==
    ASSUME NEW s \in NodeState, NEW h \in Seq(Move), NEW r \in Nat
    PROVE  OpenWindow(s, h, r) \in NodeState
BY NoVotesType DEF OpenWindow, NodeState

LEMMA EndGameType ==
    ASSUME NEW s \in NodeState, NEW why \in Results
    PROVE  EndGame(s, why) \in NodeState
BY NoVotesType DEF EndGame, NodeState, Phases

LEMMA ApplyTallyType ==
    ASSUME NEW s \in NodeState, NEW votes \in Votes
    PROVE  ApplyTally(s, TallyMoves(votes)) \in NodeState
<1> DEFINE t == TallyMoves(votes)
<1>1. CASE t.outcome = "winner"
  <2>1. t.move \in Move
    BY <1>1, TallyType
  <2>2. Append(s.history, t.move) \in Seq(Move)
    BY <2>1, AppendProperties DEF NodeState
  <2>3. EndGame(s, "engine") \in NodeState
    BY EndGameType DEF Results
  <2>4. [EndGame(s, "engine") EXCEPT !.history = Append(s.history, t.move)] \in NodeState
    BY <2>2, <2>3 DEF NodeState
  <2>5. OpenWindow(s, Append(s.history, t.move), 0) \in NodeState
    BY <2>2, OpenWindowType
  <2>6. QED BY <1>1, <2>4, <2>5 DEF ApplyTally, PlayMove
<1>2. CASE t.outcome # "winner"
  <2>1. EndGame(s, "revotes_exhausted") \in NodeState
    BY EndGameType DEF Results
  <2>2. s.history \in Seq(Move) /\ s.round + 1 \in Nat
    BY DEF NodeState
  <2>3. OpenWindow(s, s.history, s.round + 1) \in NodeState
    BY <2>2, OpenWindowType
  <2>4. QED BY <1>2, <2>1, <2>3 DEF ApplyTally, MaybeRevote
<1>3. QED BY <1>1, <1>2

LEMMA TallyClaimType ==
    ASSUME NEW s \in NodeState
    PROVE  TallyClaim(s) \in TallyMsg
<1>1. s.votes \in Votes /\ s.history \in Seq(Move) /\ s.round \in Nat
  BY DEF NodeState
<1>2. TallyMoves(s.votes) \in Tallies
  BY <1>1, TallyType
<1>3. QED BY <1>1, <1>2 DEF TallyClaim, TallyMsg, Tallies

LEMMA SilentType ==
    ASSUME NEW s \in NodeState
    PROVE  Silent(s) \in Handlings
BY EmptySeq DEF Silent, Handlings

LEMMA CountAndPublishType ==
    ASSUME NEW s \in NodeState
    PROVE  CountAndPublish(s) \in Handlings
<1>1. ApplyTally(s, TallyMoves(s.votes)) \in NodeState
  BY ApplyTallyType DEF NodeState
<1>2. TallyClaim(s) \in Message
  BY TallyClaimType DEF Message
<1>3. <<TallyClaim(s)>> \in Seq(Message)
  BY <1>2
<1>4. QED BY <1>1, <1>3 DEF CountAndPublish, Handlings

LEMMA CountIfEveryoneVotedType ==
    ASSUME NEW n, NEW s \in NodeState, NEW ps
    PROVE  CountIfEveryoneVoted(n, s, ps) \in Handlings
BY CountAndPublishType, SilentType DEF CountIfEveryoneVoted

LEMMA VoteType ==
    ASSUME NEW s \in NodeState, NEW p \in Node, NEW m \in Move
    PROVE  [s EXCEPT !.votes[p] = m] \in NodeState
BY DEF NodeState, Votes

-----------------------------------------------------------------------------
(* Types of the handlers.                                                  *)

LEMMA HandleVoteType ==
    ASSUME NEW n, NEW s \in NodeState, NEW ps, NEW p \in Node, NEW msg \in VoteMsg
    PROVE  HandleVote(n, s, ps, p, msg) \in Handlings
<1>1. [s EXCEPT !.votes[p] = msg.move] \in NodeState
  BY VoteType DEF VoteMsg
<1>2. QED BY <1>1, CountIfEveryoneVotedType, SilentType DEF HandleVote

LEMMA HandleTallyResultType ==
    ASSUME NEW n, NEW s \in NodeState, NEW ps, NEW p \in Node, NEW claim \in TallyMsg
    PROVE  HandleTallyResult(n, s, ps, p, claim) \in Handlings
<1>1. ApplyTally(s, TallyMoves(claim.votes)) \in NodeState
  BY ApplyTallyType DEF TallyMsg
<1>2. EndGame(s, "desync") \in NodeState
  BY EndGameType DEF Results
<1>3. QED BY <1>1, <1>2, SilentType DEF HandleTallyResult

LEMMA MergeVotesType ==
    ASSUME NEW s \in NodeState, NEW votes \in Votes
    PROVE  MergeVotes(s, votes) \in NodeState
<1>1. [v \in Node |->
         IF /\ s.votes[v] = NoVote
            /\ votes[v] # NoVote
            /\ CheckVote(v, votes[v], SideToMove(s.history), Legal(s.history))
         THEN votes[v] ELSE s.votes[v]] \in Votes
  BY DEF NodeState, Votes
<1>2. QED BY <1>1 DEF MergeVotes, NodeState

LEMMA HandleGameSnapshotType ==
    ASSUME NEW n, NEW s \in NodeState, NEW ps, NEW snap \in SnapshotMsg
    PROVE  HandleGameSnapshot(n, s, ps, snap) \in Handlings
<1> DEFINE caught == IF ShowsMore(s, snap)
                     THEN OpenWindow(s, snap.moves, snap.round) ELSE s
<1>1. caught \in NodeState
  BY OpenWindowType DEF SnapshotMsg
<1>2. MergeVotes(caught, snap.votes) \in NodeState
  BY <1>1, MergeVotesType DEF SnapshotMsg
<1>3. EndGame(s, "desync") \in NodeState
  BY EndGameType DEF Results
<1> HIDE DEF caught
<1>4. CountIfEveryoneVoted(n, MergeVotes(caught, snap.votes), ps) \in Handlings
  BY <1>2, CountIfEveryoneVotedType
<1>5. QED
  BY <1>1, <1>3, <1>4, SilentType DEF HandleGameSnapshot, caught

LEMMA HandleGameOverType ==
    ASSUME NEW s \in NodeState, NEW believed
    PROVE  HandleGameOver(s, believed) \in Handlings
<1>1. EndGame(s, "timeout") \in NodeState
  BY EndGameType DEF Results
<1>2. QED BY <1>1, SilentType DEF HandleGameOver

\* Every message is of one of the four types, and its type says which.
LEMMA MessageTypes ==
    ASSUME NEW msg \in Message
    PROVE  \/ msg \in VoteMsg /\ msg.type = "vote"
           \/ msg \in TallyMsg /\ msg.type = "tally_result"
           \/ msg \in SnapshotMsg /\ msg.type = "game_snapshot"
           \/ msg \in GameOverMsg /\ msg.type = "game_over"
BY DEF Message, VoteMsg, TallyMsg, SnapshotMsg, GameOverMsg

LEMMA HandledType ==
    ASSUME NEW n, NEW s \in NodeState, NEW ps, NEW p \in Node,
           NEW msg \in Message, NEW believed
    PROVE  Handled(n, s, ps, p, msg, believed) \in Handlings
<1>1. CASE msg \in VoteMsg /\ msg.type = "vote"
  BY <1>1, HandleVoteType DEF Handled
<1>2. CASE msg \in TallyMsg /\ msg.type = "tally_result"
  BY <1>2, HandleTallyResultType DEF Handled
<1>3. CASE msg \in SnapshotMsg /\ msg.type = "game_snapshot"
  BY <1>3, HandleGameSnapshotType DEF Handled
<1>4. CASE msg \in GameOverMsg /\ msg.type = "game_over"
  BY <1>4, HandleGameOverType DEF Handled
<1>5. QED BY <1>1, <1>2, <1>3, <1>4, MessageTypes

-----------------------------------------------------------------------------
(* Every handler moves the node's game forward.                            *)

LEMMA PrefixReflexive ==
    ASSUME NEW h \in Seq(Move)
    PROVE  InPrefix(h, h)
BY DEF InPrefix

LEMMA PrefixTransitive ==
    ASSUME NEW h \in Seq(Move), NEW k \in Seq(Move), NEW l \in Seq(Move),
           InPrefix(h, k), InPrefix(k, l)
    PROVE  InPrefix(h, l)
BY DEF InPrefix

LEMMA AppendExtends ==
    ASSUME NEW h \in Seq(Move), NEW m \in Move
    PROVE  InPrefix(h, Append(h, m)) /\ Len(Append(h, m)) = Len(h) + 1
BY AppendProperties DEF InPrefix

\* Two steps forward, the first of which leaves the game in progress, are one.
LEMMA ForwardTransitive ==
    ASSUME NEW a \in NodeState, NEW b \in NodeState, NEW c \in NodeState,
           a.phase = "in_progress", b.phase = "in_progress",
           MovesForward(a, b), MovesForward(b, c)
    PROVE  MovesForward(a, c)
<1>1. CASE a = b \/ b = c
  BY <1>1
<1>2. CASE a # b /\ b # c
  <2>1. CASE c.phase = "lobby"
    BY <2>1 DEF MovesForward
  <2>2. CASE c.phase # "lobby"
    <3>1. /\ InPrefix(a.history, b.history) /\ InPrefix(b.history, c.history)
          /\ c.phase \in {"in_progress", "finished"}
      BY <1>2, <2>2 DEF MovesForward
    <3>2. InPrefix(a.history, c.history)
      BY <3>1, PrefixTransitive DEF NodeState
    <3>3. ASSUME c.phase = "in_progress"
          PROVE  \/ Later(a, c)
                 \/ /\ a.history = c.history
                    /\ a.round = c.round
                    /\ \A v \in Voters(a.votes) : c.votes[v] = a.votes[v]
      <4>1. Later(a, b) \/ /\ a.history = b.history /\ a.round = b.round
                           /\ \A v \in Voters(a.votes) : b.votes[v] = a.votes[v]
        BY <1>2 DEF MovesForward
      <4>2. Later(b, c) \/ /\ b.history = c.history /\ b.round = c.round
                           /\ \A v \in Voters(b.votes) : c.votes[v] = b.votes[v]
        BY <1>2, <3>3 DEF MovesForward
      <4>3. /\ Len(a.history) \in Nat /\ Len(b.history) \in Nat /\ Len(c.history) \in Nat
            /\ a.round \in Nat /\ b.round \in Nat /\ c.round \in Nat
        BY DEF NodeState
      <4>4. CASE Later(a, b) \/ Later(b, c)
        BY <4>1, <4>2, <4>3, <4>4 DEF Later
      <4>5. CASE ~ (Later(a, b) \/ Later(b, c))
        BY <4>1, <4>2, <4>5 DEF Voters
      <4>6. QED BY <4>4, <4>5
    <3>4. QED BY <3>1, <3>2, <3>3 DEF MovesForward
  <2>3. QED BY <2>1, <2>2
<1>3. QED BY <1>1, <1>2

LEMMA EndGameForward ==
    ASSUME NEW s \in NodeState, s.phase = "in_progress", NEW why \in Results
    PROVE  MovesForward(s, EndGame(s, why))
<1>1. EndGame(s, why).phase = "finished" /\ EndGame(s, why).history = s.history
  BY DEF EndGame, NodeState
<1>2. InPrefix(s.history, s.history)
  BY PrefixReflexive DEF NodeState
<1>3. QED BY <1>1, <1>2 DEF MovesForward

\* A window opened for a later turn, or a later round of the same turn.
LEMMA OpenWindowForward ==
    ASSUME NEW s \in NodeState, s.phase = "in_progress",
           NEW h \in Seq(Move), NEW r \in Nat,
           InPrefix(s.history, h),
           Len(s.history) < Len(h) \/ (Len(s.history) = Len(h) /\ s.round < r)
    PROVE  MovesForward(s, OpenWindow(s, h, r))
<1> DEFINE t == OpenWindow(s, h, r)
<1>1. t.phase = "in_progress" /\ t.history = h /\ t.round = r
  BY DEF OpenWindow, NodeState
<1>2. Later(s, t)
  BY <1>1 DEF Later
<1>3. QED BY <1>1, <1>2 DEF MovesForward

LEMMA ApplyTallyForward ==
    ASSUME NEW s \in NodeState, s.phase = "in_progress", NEW votes \in Votes
    PROVE  MovesForward(s, ApplyTally(s, TallyMoves(votes)))
<1> DEFINE t == TallyMoves(votes)
           h == Append(s.history, t.move)
<1>1. s.history \in Seq(Move) /\ s.round \in Nat
  BY DEF NodeState
<1>2. CASE t.outcome = "winner"
  <2>1. t.move \in Move
    BY <1>2, TallyType
  <2>2. h \in Seq(Move) /\ InPrefix(s.history, h) /\ Len(h) = Len(s.history) + 1
    BY <1>1, <2>1, AppendExtends, AppendProperties
  <2>3. MovesForward(s, OpenWindow(s, h, 0))
    <3>1. Len(s.history) < Len(h)
      BY <1>1, <2>2
    <3>2. QED BY <2>2, <3>1, OpenWindowForward
  <2>4. MovesForward(s, [EndGame(s, "engine") EXCEPT !.history = h])
    <3> DEFINE e == [EndGame(s, "engine") EXCEPT !.history = h]
    <3>1. e.phase = "finished" /\ e.history = h
      BY DEF EndGame, NodeState
    <3>2. QED BY <2>2, <3>1 DEF MovesForward
  <2>5. QED BY <1>2, <2>3, <2>4 DEF ApplyTally, PlayMove
<1>3. CASE t.outcome # "winner"
  <2>1. MovesForward(s, EndGame(s, "revotes_exhausted"))
    BY EndGameForward DEF Results
  <2>2. MovesForward(s, OpenWindow(s, s.history, s.round + 1))
    BY <1>1, PrefixReflexive, OpenWindowForward
  <2>3. QED BY <1>3, <2>1, <2>2 DEF ApplyTally, MaybeRevote
<1>4. QED BY <1>2, <1>3

LEMMA CountIfEveryoneVotedForward ==
    ASSUME NEW n, NEW s \in NodeState, NEW ps
    PROVE  MovesForward(s, CountIfEveryoneVoted(n, s, ps).node)
<1>1. Silent(s).node = s
  BY DEF Silent
<1>2. s.phase = "in_progress" => MovesForward(s, CountAndPublish(s).node)
  BY ApplyTallyForward DEF CountAndPublish, NodeState
<1>3. MovesForward(s, s)
  BY DEF MovesForward
<1>4. QED BY <1>1, <1>2, <1>3 DEF CountIfEveryoneVoted

\* Votes are added to the open window, then counted if that was the last one.
LEMMA AddVotesForward ==
    ASSUME NEW n, NEW s \in NodeState, NEW t \in NodeState, NEW ps,
           s.phase = "in_progress", t.phase = "in_progress",
           t.history = s.history, t.round = s.round,
           \A v \in Voters(s.votes) : t.votes[v] = s.votes[v]
    PROVE  MovesForward(s, CountIfEveryoneVoted(n, t, ps).node)
<1>1. InPrefix(s.history, t.history)
  BY PrefixReflexive DEF NodeState
<1>2. MovesForward(s, t)
  BY <1>1 DEF MovesForward
<1>3. CountIfEveryoneVoted(n, t, ps).node \in NodeState
  BY CountIfEveryoneVotedType DEF Handlings
<1>4. MovesForward(t, CountIfEveryoneVoted(n, t, ps).node)
  BY CountIfEveryoneVotedForward
<1>5. QED BY <1>2, <1>3, <1>4, ForwardTransitive

LEMMA OneVoteForward ==
    ASSUME NEW n, NEW s \in NodeState, NEW ps, NEW p \in Node, NEW m \in Move,
           s.phase = "in_progress", s.votes[p] = NoVote
    PROVE  MovesForward(s, CountIfEveryoneVoted(n, [s EXCEPT !.votes[p] = m], ps).node)
<1> DEFINE t == [s EXCEPT !.votes[p] = m]
<1>1. t \in NodeState
  BY VoteType
<1>2. t.phase = "in_progress" /\ t.history = s.history /\ t.round = s.round
  BY DEF NodeState
<1>3. \A v \in Voters(s.votes) : t.votes[v] = s.votes[v]
  BY DEF NodeState, Votes, Voters
<1> HIDE DEF t
<1>4. MovesForward(s, CountIfEveryoneVoted(n, t, ps).node)
  BY <1>1, <1>2, <1>3, AddVotesForward
<1>5. QED BY <1>4 DEF t

LEMMA HandleVoteForward ==
    ASSUME NEW n, NEW s \in NodeState, NEW ps, NEW p \in Node, NEW msg \in VoteMsg
    PROVE  MovesForward(s, HandleVote(n, s, ps, p, msg).node)
<1>1. msg.move \in Move
  BY DEF VoteMsg
<1>2. Silent(s).node = s /\ MovesForward(s, s)
  BY DEF Silent, MovesForward
<1>3. s.phase = "in_progress" /\ s.votes[p] = NoVote =>
          MovesForward(s, CountIfEveryoneVoted(n, [s EXCEPT !.votes[p] = msg.move], ps).node)
  BY <1>1, OneVoteForward
<1>4. QED BY <1>2, <1>3 DEF HandleVote

LEMMA HandleTallyResultForward ==
    ASSUME NEW n, NEW s \in NodeState, NEW ps, NEW p \in Node, NEW claim \in TallyMsg
    PROVE  MovesForward(s, HandleTallyResult(n, s, ps, p, claim).node)
<1>1. \A t : Silent(t).node = t
  BY DEF Silent
<1>2. MovesForward(s, s)
  BY DEF MovesForward
<1>3. s.phase = "in_progress" => MovesForward(s, ApplyTally(s, TallyMoves(claim.votes)))
  BY ApplyTallyForward DEF TallyMsg
<1>4. s.phase = "in_progress" => MovesForward(s, EndGame(s, "desync"))
  BY EndGameForward DEF Results
<1>5. QED BY <1>1, <1>2, <1>3, <1>4 DEF HandleTallyResult

LEMMA HandleGameSnapshotForward ==
    ASSUME NEW n, NEW s \in NodeState, NEW ps, NEW snap \in SnapshotMsg
    PROVE  MovesForward(s, HandleGameSnapshot(n, s, ps, snap).node)
<1> DEFINE caught == IF ShowsMore(s, snap)
                     THEN OpenWindow(s, snap.moves, snap.round) ELSE s
<1>1. /\ s.history \in Seq(Move) /\ snap.moves \in Seq(Move)
      /\ s.round \in Nat /\ snap.round \in Nat /\ snap.votes \in Votes
  BY DEF NodeState, SnapshotMsg
<1>2. \A t : Silent(t).node = t
  BY DEF Silent
<1>3. MovesForward(s, s)
  BY DEF MovesForward
<1>4. s.phase = "in_progress" => MovesForward(s, EndGame(s, "desync"))
  BY EndGameForward DEF Results
<1>5. ASSUME s.phase = "in_progress", ~HistoriesDiffer(s.history, snap.moves),
             Len(s.history) <= Len(snap.moves)
      PROVE  /\ MovesForward(s, caught)
             /\ MovesForward(s, CountIfEveryoneVoted(n, MergeVotes(caught, snap.votes), ps).node)
  <2>1. caught \in NodeState
    BY <1>1, OpenWindowType
  <2>2. caught.phase = "in_progress"
    BY <1>5 DEF OpenWindow, NodeState
  <2>3. InPrefix(s.history, snap.moves)
    BY <1>1, <1>5 DEF InPrefix, HistoriesDiffer, Min2
  <2>4. MovesForward(s, caught)
    BY <1>1, <1>3, <1>5, <2>3, OpenWindowForward DEF ShowsMore
  <2> HIDE DEF caught
  <2> DEFINE merged == MergeVotes(caught, snap.votes)
  <2>5. merged \in NodeState
    <3>1. [v \in Node |->
             IF /\ caught.votes[v] = NoVote
                /\ snap.votes[v] # NoVote
                /\ CheckVote(v, snap.votes[v], SideToMove(caught.history), Legal(caught.history))
             THEN snap.votes[v] ELSE caught.votes[v]] \in Votes
      BY <1>1, <2>1 DEF NodeState, Votes
    <3>2. QED BY <2>1, <3>1 DEF MergeVotes, NodeState
  <2>6. /\ merged.phase = caught.phase /\ merged.history = caught.history
        /\ merged.round = caught.round
        /\ \A v \in Voters(caught.votes) : merged.votes[v] = caught.votes[v]
    BY <2>1 DEF MergeVotes, NodeState, Votes, Voters
  <2> HIDE DEF merged
  <2>7. MovesForward(caught, CountIfEveryoneVoted(n, merged, ps).node)
    BY <2>1, <2>2, <2>5, <2>6, AddVotesForward
  <2>8. CountIfEveryoneVoted(n, merged, ps).node \in NodeState
    BY <2>5, CountIfEveryoneVotedType DEF Handlings
  <2>9. MovesForward(s, CountIfEveryoneVoted(n, merged, ps).node)
    BY <1>5, <2>1, <2>2, <2>4, <2>7, <2>8, ForwardTransitive
  <2>10. QED BY <2>4, <2>9 DEF merged
<1> HIDE DEF caught
<1>6. CASE s.phase # "in_progress"
  BY <1>2, <1>3, <1>6 DEF HandleGameSnapshot
<1>7. CASE s.phase = "in_progress" /\ HistoriesDiffer(s.history, snap.moves)
  BY <1>2, <1>4, <1>7 DEF HandleGameSnapshot
<1>8. CASE /\ s.phase = "in_progress" /\ ~HistoriesDiffer(s.history, snap.moves)
           /\ Len(snap.moves) < Len(s.history)
  BY <1>2, <1>3, <1>8 DEF HandleGameSnapshot
<1>9. CASE /\ s.phase = "in_progress" /\ ~HistoriesDiffer(s.history, snap.moves)
           /\ ~(Len(snap.moves) < Len(s.history))
  <2>1. Len(s.history) <= Len(snap.moves)
    BY <1>1, <1>9
  <2>2. QED BY <1>2, <1>5, <1>9, <2>1 DEF HandleGameSnapshot, caught
<1>10. QED BY <1>6, <1>7, <1>8, <1>9

LEMMA HandleGameOverForward ==
    ASSUME NEW s \in NodeState, NEW believed
    PROVE  MovesForward(s, HandleGameOver(s, believed).node)
<1>1. s.phase = "in_progress" => MovesForward(s, EndGame(s, "timeout"))
  BY EndGameForward DEF Results
<1>2. QED BY <1>1 DEF HandleGameOver, Silent, MovesForward

LEMMA HandledForward ==
    ASSUME NEW n, NEW s \in NodeState, NEW ps, NEW p \in Node,
           NEW msg \in Message, NEW believed
    PROVE  MovesForward(s, Handled(n, s, ps, p, msg, believed).node)
<1>1. CASE msg \in VoteMsg /\ msg.type = "vote"
  BY <1>1, HandleVoteForward DEF Handled
<1>2. CASE msg \in TallyMsg /\ msg.type = "tally_result"
  BY <1>2, HandleTallyResultForward DEF Handled
<1>3. CASE msg \in SnapshotMsg /\ msg.type = "game_snapshot"
  BY <1>3, HandleGameSnapshotForward DEF Handled
<1>4. CASE msg \in GameOverMsg /\ msg.type = "game_over"
  BY <1>4, HandleGameOverForward DEF Handled
<1>5. QED BY <1>1, <1>2, <1>3, <1>4, MessageTypes

-----------------------------------------------------------------------------
(* Type correctness.                                                       *)

Channels == [Node \X Node -> Seq(Message)]

LEMMA SentType ==
    ASSUME NEW queues \in Channels, NEW n, NEW ps, NEW out \in Seq(Message)
    PROVE  Sent(queues, n, ps, out) \in Channels
<1>1. \A c \in Node \X Node : queues[c] \o out \in Seq(Message)
  BY ConcatProperties DEF Channels
<1>2. QED BY <1>1 DEF Sent, Channels

\* A step that handles r at n over `queues` keeps the types of node and net.
LEMMA DoType ==
    ASSUME node \in [Node -> NodeState], NEW n \in Node, NEW r \in Handlings,
           NEW queues \in Channels, NEW ps, Do(n, r, queues, ps)
    PROVE  node' \in [Node -> NodeState] /\ net' \in Channels
<1>1. r.node \in NodeState /\ r.out \in Seq(Message)
  BY DEF Handlings
<1>2. QED BY <1>1, SentType DEF Do

LEMMA InitType == Init => TypeOK
<1> SUFFICES ASSUME Init PROVE TypeOK
  OBVIOUS
<1>1. <<>> \in Seq(Move) /\ <<>> \in Seq(Message)
  BY EmptySeq
<1>2. node \in [Node -> NodeState]
  BY <1>1, NoVotesType, FaultAssumption DEF Init, NodeState, Phases, Results
<1>3. net \in [Node \X Node -> Seq(Message)]
  BY <1>1 DEF Init
<1>4. QED BY <1>2, <1>3 DEF Init, TypeOK, Links

LEMMA NextType == TypeOK /\ [Next]_vars => TypeOK'
<1> SUFFICES ASSUME TypeOK, [Next]_vars PROVE TypeOK'
  OBVIOUS
<1> USE DEF Channels
<1>0. /\ node \in [Node -> NodeState] /\ net \in Channels
      /\ peers \in [Node -> SUBSET Node] /\ up \subseteq Links
      /\ cast \subseteq [voter : Node, before : Seq(Move), round : Nat, move : Move]
      /\ drops \in Nat
  BY DEF TypeOK
<1>1. ASSUME NEW n \in Node, Begin(n) PROVE TypeOK'
  <2>1. [node[n] EXCEPT !.phase = "in_progress"] \in NodeState
    BY <1>0 DEF NodeState, Phases
  <2>2. OpenWindow([node[n] EXCEPT !.phase = "in_progress"], <<>>, 0) \in NodeState
    BY <2>1, OpenWindowType, EmptySeq
  <2>3. QED BY <1>0, <1>1, <2>2 DEF Begin, TypeOK
<1>2. ASSUME NEW n \in Node, NEW move \in Move, CastVote(n, move) PROVE TypeOK'
  <2> DEFINE s     == node[n]
             msg   == [type |-> "vote", turn |-> Len(s.history),
                       round |-> s.round, move |-> move]
             count == CountIfEveryoneVoted(n, [s EXCEPT !.votes[n] = move], peers[n])
  <2>1. s \in NodeState /\ s.history \in Seq(Move) /\ s.round \in Nat
    BY <1>0 DEF NodeState
  <2>2. msg \in Message
    BY <2>1 DEF Message, VoteMsg
  <2>3. [s EXCEPT !.votes[n] = move] \in NodeState
    BY <2>1, VoteType
  <2>4. count \in Handlings
    BY <2>3, CountIfEveryoneVotedType
  <2> HIDE DEF msg, count
  <2>5. <<msg>> \o count.out \in Seq(Message)
    BY <2>2, <2>4, ConcatProperties DEF Handlings
  <2>6. [count EXCEPT !.out = <<msg>> \o @] \in Handlings
    BY <2>4, <2>5 DEF Handlings
  <2>7. Do(n, [count EXCEPT !.out = <<msg>> \o @], net, peers[n])
    BY <1>2 DEF CastVote, count, msg
  <2>8. node' \in [Node -> NodeState] /\ net' \in Channels
    BY <1>0, <2>6, <2>7, DoType
  <2>9. [voter |-> n, before |-> s.history, round |-> s.round, move |-> move]
            \in [voter : Node, before : Seq(Move), round : Nat, move : Move]
    BY <2>1
  <2>10. /\ cast' = cast \cup {[voter |-> n, before |-> s.history,
                                round |-> s.round, move |-> move]}
         /\ UNCHANGED <<peers, up, drops>>
    BY <1>2 DEF CastVote
  <2>11. QED BY <1>0, <2>8, <2>9, <2>10 DEF TypeOK
<1>3. ASSUME NEW n \in Node, WindowCloses(n) PROVE TypeOK'
  <2>1. [node[n] EXCEPT !.closed = TRUE] \in NodeState
    BY <1>0 DEF NodeState
  <2>2. QED BY <1>0, <1>3, <2>1 DEF WindowCloses, TypeOK
<1>4. ASSUME NEW n \in Node, TallyDue(n) PROVE TypeOK'
  <2>1. CountAndPublish(node[n]) \in Handlings
    BY <1>0, CountAndPublishType
  <2>2. node' \in [Node -> NodeState] /\ net' \in Channels
    BY <1>0, <1>4, <2>1, DoType DEF TallyDue
  <2>3. QED BY <1>0, <1>4, <2>2 DEF TallyDue, TypeOK
<1>5. ASSUME NEW n \in Node, GraceOver(n) PROVE TypeOK'
  <2>1. [node[n] EXCEPT !.settling = FALSE] \in NodeState
    BY <1>0 DEF NodeState
  <2>2. QED BY <1>0, <1>5, <2>1 DEF GraceOver, TypeOK
<1>6. ASSUME NEW n \in Node, MoveTimeout(n) PROVE TypeOK'
  <2> DEFINE r == [node |-> EndGame(node[n], "timeout"),
                   out  |-> <<[type |-> "game_over"]>>]
  <2>1. EndGame(node[n], "timeout") \in NodeState
    BY <1>0, EndGameType DEF Results
  <2>2. [type |-> "game_over"] \in Message
    BY DEF Message, GameOverMsg
  <2>3. r \in Handlings
    BY <2>1, <2>2 DEF Handlings
  <2>4. node' \in [Node -> NodeState] /\ net' \in Channels
    BY <1>0, <1>6, <2>3, DoType DEF MoveTimeout
  <2>5. QED BY <1>0, <1>6, <2>4 DEF MoveTimeout, TypeOK
<1>7. ASSUME NEW n \in Node, NEW p \in Node, Receive(p, n) PROVE TypeOK'
  <2> DEFINE queue == net[<<p, n>>]
             rest  == [net EXCEPT ![<<p, n>>] = Tail(@)]
  <2>1. queue \in Seq(Message) /\ queue # <<>>
    BY <1>0, <1>7 DEF Receive
  <2>2. Head(queue) \in Message /\ Tail(queue) \in Seq(Message)
    BY <2>1, HeadTailProperties
  <2>3. rest \in Channels
    BY <1>0, <2>2
  <2>4. PICK believed : Do(n, Handled(n, node[n], peers[n], p, Head(queue), believed),
                           rest, peers[n])
    BY <1>7 DEF Receive
  <2>5. Handled(n, node[n], peers[n], p, Head(queue), believed) \in Handlings
    BY <1>0, <2>2, HandledType
  <2> HIDE DEF queue, rest
  <2>6. node' \in [Node -> NodeState] /\ net' \in Channels
    BY <1>0, <2>3, <2>4, <2>5, DoType
  <2>7. QED BY <1>0, <1>7, <2>6 DEF Receive, TypeOK
<1>8. ASSUME NEW l \in MayDrop, LinkFails(l) PROVE TypeOK'
  BY <1>0, <1>8 DEF LinkFails, TypeOK
<1>9. ASSUME NEW n \in Node, NEW p \in Node, PeerDisconnects(n, p) PROVE TypeOK'
  <2> DEFINE r == CountIfEveryoneVoted(n, node[n], peers[n] \ {p})
             queues == [net EXCEPT ![<<p, n>>] = <<>>]
  <2>1. r \in Handlings
    BY <1>0, CountIfEveryoneVotedType
  <2>2. queues \in Channels
    BY <1>0, EmptySeq
  <2>3. Do(n, r, queues, peers[n] \ {p})
    BY <1>9 DEF PeerDisconnects
  <2> HIDE DEF r, queues
  <2>4. node' \in [Node -> NodeState] /\ net' \in Channels
    BY <1>0, <2>1, <2>2, <2>3, DoType
  <2>5. QED BY <1>0, <1>9, <2>4 DEF PeerDisconnects, TypeOK
<1>10. ASSUME NEW l \in Links, LinkReturns(l) PROVE TypeOK'
  <2>1. net' \in Channels
    BY <1>0, <1>10, EmptySeq DEF LinkReturns
  <2>2. QED BY <1>0, <1>10, <2>1 DEF LinkReturns, TypeOK
<1>11. ASSUME NEW n \in Node, NEW p \in Node, AddPeer(n, p) PROVE TypeOK'
  <2> DEFINE r == [node |-> [node[n] EXCEPT !.settling = TRUE],
                   out  |-> <<SnapshotOf(node[n])>>]
  <2>1. [node[n] EXCEPT !.settling = TRUE] \in NodeState
    BY <1>0 DEF NodeState
  <2>2. SnapshotOf(node[n]) \in Message
    BY <1>0 DEF SnapshotOf, NodeState, Message, SnapshotMsg
  <2>3. r \in Handlings
    BY <2>1, <2>2 DEF Handlings
  <2>4. \/ Do(n, r, net, {p})
        \/ UNCHANGED <<node, net>>
    BY <1>11 DEF AddPeer
  <2> HIDE DEF r
  <2>5. node' \in [Node -> NodeState] /\ net' \in Channels
    BY <1>0, <2>3, <2>4, DoType
  <2>6. QED BY <1>0, <1>11, <2>5 DEF AddPeer, TypeOK
<1>12. ASSUME NEW n \in Node, Restart(n) PROVE TypeOK'
  <2>1. EndGame(node[n], "none") \in NodeState
    BY <1>0, EndGameType DEF Results
  <2>2. [EndGame(node[n], "none") EXCEPT !.phase = "lobby", !.history = <<>>] \in NodeState
    BY <2>1, EmptySeq DEF NodeState, Phases
  <2>3. net' \in Channels
    BY <1>0, <1>12, EmptySeq DEF Restart
  <2>4. QED BY <1>0, <1>12, <2>2, <2>3 DEF Restart, TypeOK
<1>13. CASE UNCHANGED vars
  BY <1>0, <1>13 DEF vars, TypeOK
<1>14. QED
  BY <1>1, <1>2, <1>3, <1>4, <1>5, <1>6, <1>7, <1>8, <1>9, <1>10, <1>11, <1>12,
     <1>13 DEF Next

\* In every state every node's record, the channels and the votes cast have
\* their types, for any players, settings and faults (the whole protocol of
\* node.ts: no handler leaves a node with a malformed game).
THEOREM TypeCorrect == Spec => []TypeOK
BY InitType, NextType, PTL DEF Spec

-----------------------------------------------------------------------------
(* Every step moves every node's game forward, or leaves it alone.         *)

\* A step changes one node's record, to one that is forward of it.
LEMMA OneNodeForward ==
    ASSUME node \in [Node -> NodeState], NEW n \in Node, NEW t,
           node' = [node EXCEPT ![n] = t], MovesForward(node[n], t)
    PROVE  \A m \in Node : MovesForward(node[m], node'[m])
BY DEF MovesForward

\* A record of a game in progress that stays in its window.
LEMMA SameWindowForward ==
    ASSUME NEW s \in NodeState, NEW t, s.phase = "in_progress",
           t.phase = "in_progress", t.history = s.history,
           t.round = s.round, t.votes = s.votes
    PROVE  MovesForward(s, t)
<1>1. InPrefix(s.history, t.history)
  BY PrefixReflexive DEF NodeState
<1>2. QED BY <1>1 DEF MovesForward

LEMMA NextForward ==
    TypeOK /\ [Next]_vars => \A n \in Node : MovesForward(node[n], node'[n])
<1> SUFFICES ASSUME TypeOK, [Next]_vars
             PROVE  \A m \in Node : MovesForward(node[m], node'[m])
  OBVIOUS
<1>0. node \in [Node -> NodeState] /\ net \in [Node \X Node -> Seq(Message)]
  BY DEF TypeOK
<1>1. ASSUME NEW n \in Node, Begin(n)
      PROVE  \A m \in Node : MovesForward(node[m], node'[m])
  <2> DEFINE t == OpenWindow([node[n] EXCEPT !.phase = "in_progress"], <<>>, 0)
  <2>1. t.phase = "in_progress"
    BY <1>0 DEF OpenWindow, NodeState
  <2>2. MovesForward(node[n], t)
    BY <1>1, <2>1 DEF Begin, MovesForward
  <2>3. QED BY <1>0, <1>1, <2>2, OneNodeForward DEF Begin
<1>2. ASSUME NEW n \in Node, NEW move \in Move, CastVote(n, move)
      PROVE  \A m \in Node : MovesForward(node[m], node'[m])
  <2> DEFINE s     == node[n]
             msg   == [type |-> "vote", turn |-> Len(s.history),
                       round |-> s.round, move |-> move]
             count == CountIfEveryoneVoted(n, [s EXCEPT !.votes[n] = move], peers[n])
  <2>1. MovesForward(s, count.node)
    BY <1>0, <1>2, OneVoteForward DEF CastVote
  <2>2. count \in Handlings
    BY <1>0, VoteType, CountIfEveryoneVotedType
  <2> HIDE DEF msg, count
  <2>3. Do(n, [count EXCEPT !.out = <<msg>> \o @], net, peers[n])
    BY <1>2 DEF CastVote, count, msg
  <2>4. node' = [node EXCEPT ![n] = count.node]
    BY <2>2, <2>3 DEF Do, Handlings
  <2>5. QED BY <1>0, <2>1, <2>4, OneNodeForward
<1>3. ASSUME NEW n \in Node, WindowCloses(n)
      PROVE  \A m \in Node : MovesForward(node[m], node'[m])
  <2> DEFINE t == [node[n] EXCEPT !.closed = TRUE]
  <2>1. node' = [node EXCEPT ![n] = t]
    BY <1>3 DEF WindowCloses
  <2>2. /\ t.phase = node[n].phase /\ t.history = node[n].history
        /\ t.round = node[n].round /\ t.votes = node[n].votes
    BY <1>0 DEF NodeState
  <2> HIDE DEF t
  <2>3. MovesForward(node[n], t)
    BY <1>0, <1>3, <2>2, SameWindowForward DEF WindowCloses
  <2>4. QED BY <1>0, <2>1, <2>3, OneNodeForward
<1>4. ASSUME NEW n \in Node, TallyDue(n)
      PROVE  \A m \in Node : MovesForward(node[m], node'[m])
  <2>1. MovesForward(node[n], CountAndPublish(node[n]).node)
    BY <1>0, <1>4, ApplyTallyForward DEF TallyDue, CountAndPublish, NodeState
  <2>2. QED BY <1>0, <1>4, <2>1, OneNodeForward DEF TallyDue, Do
<1>5. ASSUME NEW n \in Node, GraceOver(n)
      PROVE  \A m \in Node : MovesForward(node[m], node'[m])
  <2> DEFINE t == [node[n] EXCEPT !.settling = FALSE]
  <2>1. node' = [node EXCEPT ![n] = t]
    BY <1>5 DEF GraceOver
  <2>2. /\ t.phase = node[n].phase /\ t.history = node[n].history
        /\ t.round = node[n].round /\ t.votes = node[n].votes
    BY <1>0 DEF NodeState
  <2> HIDE DEF t
  <2>3. MovesForward(node[n], t)
    BY <1>0, <1>5, <2>2, SameWindowForward DEF GraceOver
  <2>4. QED BY <1>0, <2>1, <2>3, OneNodeForward
<1>6. ASSUME NEW n \in Node, MoveTimeout(n)
      PROVE  \A m \in Node : MovesForward(node[m], node'[m])
  <2>1. MovesForward(node[n], EndGame(node[n], "timeout"))
    BY <1>0, <1>6, EndGameForward DEF MoveTimeout, Results
  <2>2. node' = [node EXCEPT ![n] = EndGame(node[n], "timeout")]
    BY <1>6 DEF MoveTimeout, Do
  <2>3. QED BY <1>0, <2>1, <2>2, OneNodeForward
<1>7. ASSUME NEW n \in Node, NEW p \in Node, Receive(p, n)
      PROVE  \A m \in Node : MovesForward(node[m], node'[m])
  <2> DEFINE queue == net[<<p, n>>]
             r(b)  == Handled(n, node[n], peers[n], p, Head(queue), b)
  <2>1. Head(queue) \in Message
    BY <1>0, <1>7, HeadTailProperties DEF Receive
  <2>2. PICK believed : Do(n, r(believed), [net EXCEPT ![<<p, n>>] = Tail(@)], peers[n])
    BY <1>7 DEF Receive
  <2>3. MovesForward(node[n], r(believed).node)
    BY <1>0, <2>1, HandledForward
  <2>4. QED BY <1>0, <2>2, <2>3, OneNodeForward DEF Do
<1>8. ASSUME NEW l \in MayDrop, LinkFails(l)
      PROVE  \A m \in Node : MovesForward(node[m], node'[m])
  BY <1>8 DEF LinkFails, MovesForward
<1>9. ASSUME NEW n \in Node, NEW p \in Node, PeerDisconnects(n, p)
      PROVE  \A m \in Node : MovesForward(node[m], node'[m])
  <2>1. MovesForward(node[n], CountIfEveryoneVoted(n, node[n], peers[n] \ {p}).node)
    BY <1>0, CountIfEveryoneVotedForward
  <2>2. QED BY <1>0, <1>9, <2>1, OneNodeForward DEF PeerDisconnects, Do
<1>10. ASSUME NEW l \in Links, LinkReturns(l)
       PROVE  \A m \in Node : MovesForward(node[m], node'[m])
  BY <1>10 DEF LinkReturns, MovesForward
<1>11. ASSUME NEW n \in Node, NEW p \in Node, AddPeer(n, p)
       PROVE  \A m \in Node : MovesForward(node[m], node'[m])
  <2> DEFINE t == [node[n] EXCEPT !.settling = TRUE]
  <2>1. CASE node[n].phase = "in_progress"
    <3>1. node' = [node EXCEPT ![n] = t]
      BY <1>11, <2>1 DEF AddPeer, Do
    <3>2. /\ t.phase = node[n].phase /\ t.history = node[n].history
          /\ t.round = node[n].round /\ t.votes = node[n].votes
      BY <1>0 DEF NodeState
    <3> HIDE DEF t
    <3>3. MovesForward(node[n], t)
      BY <1>0, <2>1, <3>2, SameWindowForward
    <3>4. QED BY <1>0, <3>1, <3>3, OneNodeForward
  <2>2. CASE node[n].phase # "in_progress"
    BY <1>11, <2>2 DEF AddPeer, MovesForward
  <2>3. QED BY <2>1, <2>2
<1>12. ASSUME NEW n \in Node, Restart(n)
       PROVE  \A m \in Node : MovesForward(node[m], node'[m])
  <2> DEFINE t == [EndGame(node[n], "none") EXCEPT !.phase = "lobby", !.history = <<>>]
  <2>1. t.phase = "lobby"
    BY <1>0 DEF EndGame, NodeState
  <2>2. MovesForward(node[n], t)
    BY <1>12, <2>1 DEF Restart, MovesForward
  <2>3. QED BY <1>0, <1>12, <2>2, OneNodeForward DEF Restart
<1>13. CASE UNCHANGED vars
  BY <1>13 DEF vars, MovesForward
<1>14. QED
  BY <1>1, <1>2, <1>3, <1>4, <1>5, <1>6, <1>7, <1>8, <1>9, <1>10, <1>11, <1>12,
     <1>13 DEF Next

\* Whatever messages come in whatever order, and whatever fails: no step of any
\* handler takes a node back to an earlier window, rewrites a move it played,
\* drops or changes a vote it holds, or replaces a result.
THEOREM GamesOnlyMoveForward == Spec => GameMovesForward
<1>1. TypeOK /\ [Next]_vars => [\A n \in Node : MovesForward(node[n], node'[n])]_vars
  BY NextForward
<1>2. QED BY <1>1, TypeCorrect, PTL DEF Spec, GameMovesForward

-----------------------------------------------------------------------------
(* One vote per turn and round.                                            *)

LEMMA HoldsVoteForward ==
    ASSUME NEW s \in NodeState, NEW t \in NodeState,
           NEW c \in [voter : Node, before : Seq(Move), round : Nat, move : Move],
           HoldsVote(s, c), MovesForward(s, t)
    PROVE  HoldsVote(t, c)
<1>1. /\ Len(c.before) \in Nat /\ Len(s.history) \in Nat /\ Len(t.history) \in Nat
      /\ c.round \in Nat /\ s.round \in Nat /\ t.round \in Nat
  BY DEF NodeState
<1>2. c.move # NoVote /\ c.voter \in Node
  BY MoveAssumption
<1>3. t.phase # "starting"
  BY DEF HoldsVote, MovesForward
<1>4. ASSUME t.phase = "in_progress", s # t
      PROVE  HoldsVote(t, c)
  <2>1. \/ Later(s, t)
        \/ /\ s.history = t.history
           /\ s.round = t.round
           /\ \A v \in Voters(s.votes) : t.votes[v] = s.votes[v]
    BY <1>4 DEF HoldsVote, MovesForward
  <2>2. s.phase = "in_progress"
    BY <1>4 DEF HoldsVote, MovesForward
  <2>3. CASE Later(s, t)
    BY <1>1, <1>3, <2>2, <2>3 DEF HoldsVote, Later
  <2>4. CASE /\ s.history = t.history /\ s.round = t.round
             /\ \A v \in Voters(s.votes) : t.votes[v] = s.votes[v]
    BY <1>1, <1>2, <1>3, <2>2, <2>4 DEF HoldsVote, Voters
  <2>5. QED BY <2>1, <2>3, <2>4
<1>5. QED BY <1>3, <1>4 DEF HoldsVote

\* Only CastVote casts, and what it casts is in hand afterwards.
LEMMA CastVoteHeld ==
    ASSUME TypeOK, NEW n \in Node, NEW move \in Move, CastVote(n, move),
           NEW c, c = [voter |-> n, before |-> node[n].history,
                       round |-> node[n].round, move |-> move]
    PROVE  HoldsVote(node'[n], c)
<1> DEFINE s     == node[n]
           u     == [s EXCEPT !.votes[n] = move]
           msg   == [type |-> "vote", turn |-> Len(s.history),
                     round |-> s.round, move |-> move]
           count == CountIfEveryoneVoted(n, u, peers[n])
<1>1. s \in NodeState /\ node \in [Node -> NodeState]
  BY DEF TypeOK
<1>2. u \in NodeState
  BY <1>1, VoteType
<1>3. s.phase = "in_progress"
  BY DEF CastVote
<1>4. u.phase = s.phase /\ u.history = s.history /\ u.round = s.round /\ u.votes[n] = move
  BY <1>1 DEF NodeState, Votes
<1>5. Do(n, [count EXCEPT !.out = <<msg>> \o @], net, peers[n])
  BY DEF CastVote
<1> HIDE DEF u, msg
<1>6. HoldsVote(u, c)
  BY <1>3, <1>4 DEF HoldsVote
<1>7. count \in Handlings
  BY <1>2, CountIfEveryoneVotedType
<1>8. MovesForward(u, count.node)
  BY <1>2, CountIfEveryoneVotedForward
<1> HIDE DEF count
<1>9. node'[n] = count.node
  BY <1>1, <1>5, <1>7 DEF Do, Handlings
<1>10. c \in [voter : Node, before : Seq(Move), round : Nat, move : Move]
  BY <1>1 DEF NodeState
<1>11. QED BY <1>2, <1>6, <1>7, <1>8, <1>9, <1>10, HoldsVoteForward DEF Handlings

\* What a step casts, if anything.
LEMMA WhatIsCast ==
    ASSUME [Next]_vars
    PROVE  \/ cast' = cast
           \/ \E n \in Node, move \in Move :
                 /\ CastVote(n, move)
                 /\ cast' = cast \cup {[voter |-> n, before |-> node[n].history,
                                        round |-> node[n].round, move |-> move]}
BY DEF Next, vars, Begin, CastVote, WindowCloses, TallyDue, GraceOver, MoveTimeout,
       Receive, LinkFails, PeerDisconnects, LinkReturns, AddPeer, Restart

\* The strengthening: a vote that could be cast twice is still in hand.
VotesInv == TypeOK /\ OneVotePerRound /\ HoldsItsVotes

LEMMA VotesInvInit == Init => VotesInv
BY InitType DEF Init, VotesInv, OneVotePerRound, HoldsItsVotes

LEMMA VotesInvNext == VotesInv /\ [Next]_vars => VotesInv'
<1> SUFFICES ASSUME VotesInv, [Next]_vars PROVE VotesInv'
  OBVIOUS
<1> DEFINE Casts == [voter : Node, before : Seq(Move), round : Nat, move : Move]
<1>0. /\ TypeOK /\ TypeOK'
      /\ node \in [Node -> NodeState] /\ node' \in [Node -> NodeState]
      /\ cast \subseteq Casts /\ cast' \subseteq Casts
  BY NextType DEF VotesInv, TypeOK
<1>1. \A c \in cast : HoldsVote(node'[c.voter], c)
  BY <1>0, NextForward, HoldsVoteForward DEF VotesInv, HoldsItsVotes
<1>2. CASE cast' = cast
  BY <1>0, <1>1, <1>2 DEF VotesInv, OneVotePerRound, HoldsItsVotes
<1>3. ASSUME NEW n \in Node, NEW move \in Move, CastVote(n, move),
             cast' = cast \cup {[voter |-> n, before |-> node[n].history,
                                 round |-> node[n].round, move |-> move]}
      PROVE  VotesInv'
  <2> DEFINE c == [voter |-> n, before |-> node[n].history,
                   round |-> node[n].round, move |-> move]
  <2>1. HoldsVote(node'[n], c)
    BY <1>0, <1>3, CastVoteHeld
  <2>2. HoldsItsVotes'
    BY <1>1, <1>3, <2>1 DEF HoldsItsVotes
  <2>3. node[n].phase = "in_progress" /\ node[n].votes[n] = NoVote
    BY <1>3 DEF CastVote
  <2>4. ASSUME NEW d \in cast, d.voter = n,
               Len(d.before) = Len(node[n].history), d.round = node[n].round
        PROVE  FALSE
    <3>1. HoldsVote(node[n], d)
      BY <2>4 DEF VotesInv, HoldsItsVotes
    <3>2. Len(node[n].history) \in Nat /\ node[n].round \in Nat
      BY <1>0 DEF NodeState
    <3>3. node[n].votes[n] = d.move
      BY <2>3, <2>4, <3>1, <3>2 DEF HoldsVote
    <3>4. d.move \in Move
      BY <1>0
    <3>5. QED BY <2>3, <3>3, <3>4, MoveAssumption
  <2>5. OneVotePerRound'
    BY <1>3, <2>4 DEF OneVotePerRound, VotesInv
  <2>6. QED BY <1>0, <2>2, <2>5 DEF VotesInv
<1>4. QED BY <1>2, <1>3, WhatIsCast

\* For any players, moves, rules, settings and faults: no player ever casts two
\* votes on the same turn and round (castVote's duplicate check is enough,
\* through splits, snapshots, revotes and restarts).
THEOREM OneVote == Spec => []OneVotePerRound
<1>1. VotesInv => OneVotePerRound
  BY DEF VotesInv
<1>2. QED BY <1>1, VotesInvInit, VotesInvNext, PTL DEF Spec

-----------------------------------------------------------------------------
(* Votes and moves come from votes that were cast.                         *)

Casts == [voter : Node, before : Seq(Move), round : Nat, move : Move]

\* Among the votes C, v's for this move on this turn and round.
CastAs(C, v, turn, round, move) ==
    \E c \in C : /\ c.voter = v /\ Len(c.before) = turn
                 /\ c.round = round /\ c.move = move

AllCast(C, votes, turn, round) ==
    \A v \in Voters(votes) : CastAs(C, v, turn, round, votes[v])

\* Among the votes C, one for this move on this turn, by the side to move.
VotedFor(C, turn, move) ==
    \E c \in C : /\ Len(c.before) = turn
                 /\ c.move = move
                 /\ Team[c.voter] = SideToMove(c.before)

AllVotedFor(C, history) ==
    \A i \in 1..Len(history) : VotedFor(C, i - 1, history[i])

RightSide(C) == \A c \in C : Team[c.voter] = SideToMove(c.before)

\* What a node holds and plays was cast, and its rounds are within the setting.
GenuineNode(C, s) ==
    /\ AllCast(C, s.votes, Len(s.history), s.round)
    /\ AllVotedFor(C, s.history)
    /\ s.round <= MaxRevotes

\* What p says was cast, for the turn and round it says.
GenuineMsg(C, p, msg) ==
    /\ msg.type = "vote" => CastAs(C, p, msg.turn, msg.round, msg.move)
    /\ msg.type = "tally_result" =>
          AllCast(C, msg.votes, Len(msg.before), msg.round)
    /\ msg.type = "game_snapshot" =>
          /\ AllCast(C, msg.votes, Len(msg.moves), msg.round)
          /\ AllVotedFor(C, msg.moves)
          /\ msg.round <= MaxRevotes

GenuineOut(C, p, out) == \A i \in 1..Len(out) : GenuineMsg(C, p, out[i])

GenuineNet(C, queues) ==
    \A m, n \in Node : GenuineOut(C, m, queues[<<m, n>>])

\* What n makes of a genuine state.
GenuineHandling(C, n, r) == GenuineNode(C, r.node) /\ GenuineOut(C, n, r.out)

LEMMA GenuineGrows ==
    ASSUME NEW C, NEW D, C \subseteq D
    PROVE  /\ \A s : GenuineNode(C, s) => GenuineNode(D, s)
           /\ \A p, out : GenuineOut(C, p, out) => GenuineOut(D, p, out)
<1>1. \A v, turn, round, move :
          CastAs(C, v, turn, round, move) => CastAs(D, v, turn, round, move)
  BY DEF CastAs
<1>2. \A votes, turn, round : AllCast(C, votes, turn, round) => AllCast(D, votes, turn, round)
  BY <1>1 DEF AllCast
<1>3. \A h : AllVotedFor(C, h) => AllVotedFor(D, h)
  BY DEF AllVotedFor, VotedFor
<1>4. \A p, msg : GenuineMsg(C, p, msg) => GenuineMsg(D, p, msg)
  BY <1>1, <1>2, <1>3 DEF GenuineMsg
<1>5. QED BY <1>2, <1>3, <1>4 DEF GenuineNode, GenuineOut

LEMMA NothingCast ==
    ASSUME NEW C, NEW turn, NEW round
    PROVE  AllCast(C, NoVotes, turn, round)
BY DEF AllCast, NoVotes, Voters

LEMMA NothingSaid ==
    ASSUME NEW C, NEW p
    PROVE  GenuineOut(C, p, <<>>)
BY DEF GenuineOut

LEMMA OpenWindowGenuine ==
    ASSUME NEW C, NEW s \in NodeState, NEW h \in Seq(Move), NEW r \in Nat,
           AllVotedFor(C, h), r <= MaxRevotes
    PROVE  GenuineNode(C, OpenWindow(s, h, r))
<1> DEFINE t == OpenWindow(s, h, r)
<1>1. t.history = h /\ t.round = r /\ t.votes = NoVotes
  BY DEF OpenWindow, NodeState
<1>2. QED BY <1>1, NothingCast DEF GenuineNode

LEMMA EndGameGenuine ==
    ASSUME NEW C, NEW s \in NodeState, NEW why, AllVotedFor(C, s.history)
    PROVE  GenuineNode(C, EndGame(s, why))
<1> DEFINE t == EndGame(s, why)
<1>1. t.history = s.history /\ t.round = 0 /\ t.votes = NoVotes
  BY DEF EndGame, NodeState
<1>2. QED BY <1>1, NothingCast, RevoteAssumption DEF GenuineNode

\* A move some player on the side to move voted for extends the history.
LEMMA AppendVotedFor ==
    ASSUME NEW C, NEW h \in Seq(Move), NEW m \in Move,
           AllVotedFor(C, h), VotedFor(C, Len(h), m)
    PROVE  AllVotedFor(C, Append(h, m))
<1>1. /\ Append(h, m) \in Seq(Move) /\ Len(Append(h, m)) = Len(h) + 1
      /\ \A i \in 1..Len(h) : Append(h, m)[i] = h[i]
      /\ Append(h, m)[Len(h) + 1] = m
  BY AppendProperties
<1>2. Len(h) \in Nat
  OBVIOUS
<1>3. \A i \in 1..(Len(h) + 1) : i \in 1..Len(h) \/ (i = Len(h) + 1 /\ i - 1 = Len(h))
  BY <1>2
<1> DEFINE k == Append(h, m)
<1>4. \A i \in 1..Len(k) : VotedFor(C, i - 1, k[i])
  BY <1>1, <1>3 DEF AllVotedFor
<1>5. QED BY <1>4 DEF AllVotedFor

\* The winner of votes that were cast was voted for.
LEMMA WinnerVotedFor ==
    ASSUME NEW C \in SUBSET Casts, RightSide(C), NEW votes \in Votes,
           NEW turn, NEW round, AllCast(C, votes, turn, round),
           TallyMoves(votes).outcome = "winner"
    PROVE  VotedFor(C, turn, TallyMoves(votes).move)
<1> DEFINE m == TallyMoves(votes).move
<1>1. IsFiniteSet(Node) /\ Move \subseteq Nat /\ NoVote \notin Move
  BY NodeAssumption, MoveAssumption
<1>2. m \in Move /\ \E v \in Node : votes[v] = m
  BY <1>1, TallyMovesType
<1>3. PICK v \in Node : votes[v] = m
  BY <1>2
<1>4. v \in Voters(votes)
  BY <1>1, <1>2, <1>3 DEF Voters
<1>5. CastAs(C, v, turn, round, m)
  BY <1>3, <1>4 DEF AllCast
<1>6. QED BY <1>5 DEF CastAs, VotedFor, RightSide

LEMMA ApplyTallyGenuine ==
    ASSUME NEW C \in SUBSET Casts, RightSide(C), NEW s \in NodeState,
           GenuineNode(C, s), NEW votes \in Votes,
           AllCast(C, votes, Len(s.history), s.round)
    PROVE  GenuineNode(C, ApplyTally(s, TallyMoves(votes)))
<1> DEFINE t == TallyMoves(votes)
           h == Append(s.history, t.move)
<1>1. /\ s.history \in Seq(Move) /\ s.round \in Nat
      /\ MaxRevotes \in Nat /\ 0 <= MaxRevotes
  BY RevoteAssumption DEF NodeState
<1>2. CASE t.outcome = "winner"
  <2>1. t.move \in Move /\ VotedFor(C, Len(s.history), t.move)
    BY <1>2, TallyType, WinnerVotedFor
  <2>2. h \in Seq(Move) /\ AllVotedFor(C, h)
    BY <1>1, <2>1, AppendVotedFor, AppendProperties DEF GenuineNode
  <2>3. GenuineNode(C, OpenWindow(s, h, 0))
    <3> HIDE DEF h
    <3>1. QED BY <1>1, <2>2, OpenWindowGenuine
  <2>4. GenuineNode(C, [EndGame(s, "engine") EXCEPT !.history = h])
    <3> DEFINE e == [EndGame(s, "engine") EXCEPT !.history = h]
    <3>1. e.history = h /\ e.round = 0 /\ e.votes = NoVotes
      BY DEF EndGame, NodeState
    <3>2. QED BY <1>1, <2>2, <3>1, NothingCast DEF GenuineNode
  <2>5. QED BY <1>2, <2>3, <2>4 DEF ApplyTally, PlayMove
<1>3. CASE t.outcome # "winner"
  <2>1. GenuineNode(C, EndGame(s, "revotes_exhausted"))
    BY EndGameGenuine DEF GenuineNode
  <2>2. ~(s.round >= MaxRevotes) => GenuineNode(C, OpenWindow(s, s.history, s.round + 1))
    BY <1>1, OpenWindowGenuine DEF GenuineNode
  <2>3. QED BY <1>3, <2>1, <2>2 DEF ApplyTally, MaybeRevote
<1>4. QED BY <1>2, <1>3

LEMMA TallyClaimGenuine ==
    ASSUME NEW C, NEW n, NEW s \in NodeState, GenuineNode(C, s)
    PROVE  GenuineMsg(C, n, TallyClaim(s))
BY DEF TallyClaim, GenuineMsg, GenuineNode

LEMMA SilentGenuine ==
    ASSUME NEW C, NEW n, NEW s, GenuineNode(C, s)
    PROVE  GenuineHandling(C, n, Silent(s))
BY DEF Silent, GenuineHandling, GenuineOut

LEMMA CountAndPublishGenuine ==
    ASSUME NEW C \in SUBSET Casts, RightSide(C), NEW n, NEW s \in NodeState,
           GenuineNode(C, s)
    PROVE  GenuineHandling(C, n, CountAndPublish(s))
<1>1. GenuineNode(C, ApplyTally(s, TallyMoves(s.votes)))
  BY ApplyTallyGenuine DEF GenuineNode, NodeState
<1>2. GenuineMsg(C, n, TallyClaim(s))
  BY TallyClaimGenuine
<1>3. GenuineOut(C, n, <<TallyClaim(s)>>)
  BY <1>2 DEF GenuineOut
<1>4. QED BY <1>1, <1>3 DEF CountAndPublish, GenuineHandling

LEMMA CountIfEveryoneVotedGenuine ==
    ASSUME NEW C \in SUBSET Casts, RightSide(C), NEW n, NEW s \in NodeState,
           GenuineNode(C, s), NEW ps
    PROVE  GenuineHandling(C, n, CountIfEveryoneVoted(n, s, ps))
BY CountAndPublishGenuine, SilentGenuine DEF CountIfEveryoneVoted

LEMMA AddVoteGenuine ==
    ASSUME NEW C, NEW s \in NodeState, GenuineNode(C, s), NEW p \in Node,
           NEW m \in Move, CastAs(C, p, Len(s.history), s.round, m)
    PROVE  GenuineNode(C, [s EXCEPT !.votes[p] = m])
<1> DEFINE t == [s EXCEPT !.votes[p] = m]
<1>1. /\ t.history = s.history /\ t.round = s.round
      /\ \A v \in Node : t.votes[v] = IF v = p THEN m ELSE s.votes[v]
  BY DEF NodeState, Votes
<1>2. AllCast(C, t.votes, Len(t.history), t.round)
  BY <1>1 DEF AllCast, Voters, GenuineNode
<1>3. QED BY <1>1, <1>2 DEF GenuineNode

LEMMA HandleVoteGenuine ==
    ASSUME NEW C \in SUBSET Casts, RightSide(C), NEW n, NEW s \in NodeState,
           GenuineNode(C, s), NEW ps, NEW p \in Node,
           NEW msg \in VoteMsg, msg.type = "vote", GenuineMsg(C, p, msg)
    PROVE  GenuineHandling(C, n, HandleVote(n, s, ps, p, msg))
<1> DEFINE t == [s EXCEPT !.votes[p] = msg.move]
<1>1. msg.move \in Move
  BY DEF VoteMsg
<1>2. t \in NodeState
  BY <1>1, VoteType
<1>3. msg.turn = Len(s.history) /\ msg.round = s.round => GenuineNode(C, t)
  BY <1>1, AddVoteGenuine DEF GenuineMsg
<1>4. GenuineNode(C, t) => GenuineHandling(C, n, CountIfEveryoneVoted(n, t, ps))
  <2> HIDE DEF t
  <2>1. QED BY <1>2, CountIfEveryoneVotedGenuine
<1>5. QED BY <1>3, <1>4, SilentGenuine DEF HandleVote

LEMMA HandleTallyResultGenuine ==
    ASSUME NEW C \in SUBSET Casts, RightSide(C), NEW n, NEW s \in NodeState,
           GenuineNode(C, s), NEW ps, NEW p,
           NEW claim \in TallyMsg, claim.type = "tally_result",
           GenuineMsg(C, p, claim)
    PROVE  GenuineHandling(C, n, HandleTallyResult(n, s, ps, p, claim))
<1>1. claim.votes \in Votes
  BY DEF TallyMsg
<1>2. Len(claim.before) = Len(s.history) /\ claim.round = s.round =>
          GenuineNode(C, ApplyTally(s, TallyMoves(claim.votes)))
  BY <1>1, ApplyTallyGenuine DEF GenuineMsg
<1>3. GenuineNode(C, EndGame(s, "desync"))
  BY EndGameGenuine DEF GenuineNode
<1>4. QED BY <1>2, <1>3, SilentGenuine DEF HandleTallyResult

LEMMA MergeVotesGenuine ==
    ASSUME NEW C, NEW s \in NodeState, GenuineNode(C, s), NEW votes \in Votes,
           AllCast(C, votes, Len(s.history), s.round)
    PROVE  GenuineNode(C, MergeVotes(s, votes))
<1> DEFINE t == MergeVotes(s, votes)
<1>1. /\ t.history = s.history /\ t.round = s.round
      /\ \A v \in Node : t.votes[v] = s.votes[v] \/ (t.votes[v] = votes[v] /\ votes[v] # NoVote)
  BY DEF MergeVotes, NodeState, Votes
<1> HIDE DEF t
<1>2. AllCast(C, t.votes, Len(t.history), t.round)
  BY <1>1 DEF AllCast, Voters, GenuineNode
<1>3. QED BY <1>1, <1>2 DEF GenuineNode, t

LEMMA HandleGameSnapshotGenuine ==
    ASSUME NEW C \in SUBSET Casts, RightSide(C), NEW n, NEW s \in NodeState,
           GenuineNode(C, s), NEW ps, NEW p,
           NEW snap \in SnapshotMsg, snap.type = "game_snapshot",
           GenuineMsg(C, p, snap)
    PROVE  GenuineHandling(C, n, HandleGameSnapshot(n, s, ps, snap))
<1> DEFINE caught == IF ShowsMore(s, snap)
                     THEN OpenWindow(s, snap.moves, snap.round) ELSE s
           merged == MergeVotes(caught, snap.votes)
<1>1. /\ snap.moves \in Seq(Move) /\ snap.round \in Nat /\ snap.votes \in Votes
      /\ AllVotedFor(C, snap.moves) /\ snap.round <= MaxRevotes
      /\ AllCast(C, snap.votes, Len(snap.moves), snap.round)
  BY DEF SnapshotMsg, GenuineMsg
<1>2. caught \in NodeState /\ GenuineNode(C, caught)
  BY <1>1, OpenWindowType, OpenWindowGenuine
<1>3. Len(caught.history) = Len(snap.moves) \/ caught = s
  BY <1>1 DEF OpenWindow, NodeState
<1>4. ASSUME ~(Len(snap.moves) < Len(s.history)), caught.round = snap.round
      PROVE  Len(caught.history) = Len(snap.moves)
  <2>1. Len(snap.moves) \in Nat /\ Len(s.history) \in Nat
    BY <1>1 DEF NodeState
  <2>2. CASE ShowsMore(s, snap)
    BY <2>2 DEF OpenWindow, NodeState
  <2>3. CASE ~ShowsMore(s, snap)
    BY <1>4, <2>1, <2>3 DEF ShowsMore
  <2>4. QED BY <2>2, <2>3
<1> HIDE DEF caught
<1>5. ASSUME ~(Len(snap.moves) < Len(s.history)), caught.round = snap.round
      PROVE  GenuineHandling(C, n, CountIfEveryoneVoted(n, merged, ps))
  <2>1. merged \in NodeState /\ GenuineNode(C, merged)
    BY <1>1, <1>2, <1>4, <1>5, MergeVotesType, MergeVotesGenuine
  <2> HIDE DEF merged
  <2>2. QED BY <2>1, CountIfEveryoneVotedGenuine
<1>6. GenuineNode(C, EndGame(s, "desync"))
  BY EndGameGenuine DEF GenuineNode
<1>7. /\ GenuineHandling(C, n, Silent(s))
      /\ GenuineHandling(C, n, Silent(caught))
      /\ GenuineHandling(C, n, Silent(EndGame(s, "desync")))
  BY <1>2, <1>6, SilentGenuine
<1>8. QED BY <1>5, <1>7 DEF HandleGameSnapshot, caught

LEMMA HandleGameOverGenuine ==
    ASSUME NEW C, NEW n, NEW s \in NodeState, GenuineNode(C, s), NEW believed
    PROVE  GenuineHandling(C, n, HandleGameOver(s, believed))
<1>1. GenuineNode(C, EndGame(s, "timeout"))
  BY EndGameGenuine DEF GenuineNode
<1>2. QED BY <1>1, SilentGenuine DEF HandleGameOver

LEMMA HandledGenuine ==
    ASSUME NEW C \in SUBSET Casts, RightSide(C), NEW n, NEW s \in NodeState,
           GenuineNode(C, s), NEW ps, NEW p \in Node, NEW msg \in Message,
           GenuineMsg(C, p, msg), NEW believed
    PROVE  GenuineHandling(C, n, Handled(n, s, ps, p, msg, believed))
<1>1. CASE msg \in VoteMsg /\ msg.type = "vote"
  BY <1>1, HandleVoteGenuine DEF Handled
<1>2. CASE msg \in TallyMsg /\ msg.type = "tally_result"
  BY <1>2, HandleTallyResultGenuine DEF Handled
<1>3. CASE msg \in SnapshotMsg /\ msg.type = "game_snapshot"
  BY <1>3, HandleGameSnapshotGenuine DEF Handled
<1>4. CASE msg \in GameOverMsg /\ msg.type = "game_over"
  BY <1>4, HandleGameOverGenuine DEF Handled
<1>5. QED BY <1>1, <1>2, <1>3, <1>4, MessageTypes

\* A genuine broadcast over genuine queues.
LEMMA SentGenuine ==
    ASSUME NEW C, NEW queues \in Channels, GenuineNet(C, queues),
           NEW n \in Node, NEW ps, NEW out \in Seq(Message), GenuineOut(C, n, out)
    PROVE  GenuineNet(C, Sent(queues, n, ps, out))
<1> SUFFICES ASSUME NEW m \in Node, NEW k \in Node
             PROVE  GenuineOut(C, m, Sent(queues, n, ps, out)[<<m, k>>])
  BY DEF GenuineNet
<1> DEFINE q == queues[<<m, k>>]
<1>1. q \in Seq(Message) /\ GenuineOut(C, m, q)
  BY DEF Channels, GenuineNet
<1>2. \/ Sent(queues, n, ps, out)[<<m, k>>] = q
      \/ m = n /\ Sent(queues, n, ps, out)[<<m, k>>] = q \o out
  BY DEF Sent
<1> HIDE DEF q
<1>3. m = n => GenuineOut(C, m, q \o out)
  <2>1. /\ Len(q \o out) = Len(q) + Len(out)
        /\ \A i \in 1..(Len(q) + Len(out)) :
              (q \o out)[i] = IF i <= Len(q) THEN q[i] ELSE out[i - Len(q)]
    BY <1>1, ConcatProperties
  <2>2. Len(q) \in Nat /\ Len(out) \in Nat
    BY <1>1
  <2>3. \A i \in 1..(Len(q) + Len(out)) :
            i \in 1..Len(q) \/ (~(i <= Len(q)) /\ i - Len(q) \in 1..Len(out))
    BY <2>2
  <2>4. QED BY <1>1, <2>1, <2>3 DEF GenuineOut
<1>4. QED BY <1>1, <1>2, <1>3

LEMMA DoGenuine ==
    ASSUME NEW C, node \in [Node -> NodeState],
           \A m \in Node : GenuineNode(C, node[m]),
           NEW queues \in Channels, GenuineNet(C, queues), NEW n \in Node,
           NEW r \in Handlings, GenuineHandling(C, n, r),
           NEW ps, Do(n, r, queues, ps)
    PROVE  /\ \A m \in Node : GenuineNode(C, node'[m])
           /\ GenuineNet(C, net')
<1>1. r.out \in Seq(Message)
  BY DEF Handlings
<1>2. GenuineNet(C, net')
  BY <1>1, SentGenuine DEF Do, GenuineHandling
<1>3. QED BY <1>2 DEF Do, GenuineHandling

\* Dropping the head of a channel, or all of it, leaves the rest genuine.
LEMMA RestGenuine ==
    ASSUME NEW C, NEW p, NEW q \in Seq(Message), q # <<>>, GenuineOut(C, p, q)
    PROVE  GenuineMsg(C, p, Head(q)) /\ GenuineOut(C, p, Tail(q))
<1>1. /\ Len(q) \in Nat /\ Len(q) # 0 /\ Head(q) = q[1]
      /\ Len(Tail(q)) = Len(q) - 1
      /\ \A i \in 1..Len(Tail(q)) : Tail(q)[i] = q[i + 1]
  BY HeadTailProperties, EmptySeq
<1>2. 1 \in 1..Len(q) /\ \A i \in 1..(Len(q) - 1) : i + 1 \in 1..Len(q)
  BY <1>1
<1>3. QED BY <1>1, <1>2 DEF GenuineOut

GenuineInv ==
    /\ TypeOK
    /\ RightSide(cast)
    /\ \A n \in Node : GenuineNode(cast, node[n])
    /\ GenuineNet(cast, net)

LEMMA GenuineInit == Init => GenuineInv
<1> SUFFICES ASSUME Init PROVE GenuineInv
  OBVIOUS
<1>1. RightSide(cast) /\ GenuineNet(cast, net)
  BY DEF Init, RightSide, GenuineNet, GenuineOut
<1>2. ASSUME NEW n \in Node PROVE GenuineNode(cast, node[n])
  <2>1. node[n].votes = NoVotes /\ node[n].round = 0 /\ node[n].history = <<>>
    BY DEF Init
  <2>2. AllVotedFor(cast, <<>>)
    BY DEF AllVotedFor
  <2>3. QED BY <2>1, <2>2, NothingCast, RevoteAssumption DEF GenuineNode
<1>3. QED BY <1>1, <1>2, InitType DEF GenuineInv

LEMMA GenuineNext == GenuineInv /\ [Next]_vars => GenuineInv'
<1> SUFFICES ASSUME GenuineInv, [Next]_vars PROVE GenuineInv'
  OBVIOUS
<1> USE DEF Channels
<1>0. /\ TypeOK /\ TypeOK'
      /\ node \in [Node -> NodeState] /\ node' \in [Node -> NodeState]
      /\ net \in Channels /\ net' \in Channels
      /\ cast \in SUBSET Casts /\ cast' \in SUBSET Casts
      /\ RightSide(cast) /\ GenuineNet(cast, net)
      /\ \A n \in Node : GenuineNode(cast, node[n])
  BY NextType DEF GenuineInv, TypeOK, Casts
<1> DEFINE Goal == /\ RightSide(cast')
                   /\ \A n \in Node : GenuineNode(cast', node'[n])
                   /\ GenuineNet(cast', net')
\* A node whose votes, round and history stay as they are stays genuine.
<1>a. ASSUME NEW s \in NodeState, GenuineNode(cast, s), NEW t,
             t.votes = s.votes, t.round = s.round, t.history = s.history
      PROVE  GenuineNode(cast, t)
  BY <1>a DEF GenuineNode
<1>1. ASSUME NEW n \in Node, Begin(n) PROVE Goal
  <2> DEFINE s == [node[n] EXCEPT !.phase = "in_progress"]
  <2>1. s \in NodeState
    BY <1>0 DEF NodeState, Phases
  <2>2. AllVotedFor(cast, <<>>) /\ <<>> \in Seq(Move) /\ 0 <= MaxRevotes
    BY EmptySeq, RevoteAssumption DEF AllVotedFor
  <2> HIDE DEF s
  <2>3. GenuineNode(cast, OpenWindow(s, <<>>, 0))
    BY <2>1, <2>2, OpenWindowGenuine
  <2>4. QED BY <1>0, <1>1, <2>3 DEF Begin, s
<1>2. ASSUME NEW n \in Node, NEW move \in Move, CastVote(n, move) PROVE Goal
  <2> DEFINE s     == node[n]
             c     == [voter |-> n, before |-> s.history, round |-> s.round, move |-> move]
             C     == cast \cup {c}
             t     == [s EXCEPT !.votes[n] = move]
             msg   == [type |-> "vote", turn |-> Len(s.history),
                       round |-> s.round, move |-> move]
             count == CountIfEveryoneVoted(n, t, peers[n])
             r     == [count EXCEPT !.out = <<msg>> \o @]
  <2>1. /\ Do(n, r, net, peers[n])
        /\ cast' = C
        /\ Team[n] = SideToMove(s.history)
    BY <1>2 DEF CastVote, CheckVote
  <2>2. s \in NodeState /\ t \in NodeState /\ c \in Casts
    BY <1>0, VoteType DEF NodeState, Casts
  <2>3. RightSide(C) /\ C \in SUBSET Casts
    BY <1>0, <2>1, <2>2 DEF RightSide
  <2>4. CastAs(C, n, Len(s.history), s.round, move)
    <3>1. c \in C /\ c.voter = n /\ c.before = s.history /\ c.round = s.round /\ c.move = move
      OBVIOUS
    <3> HIDE DEF c, C
    <3>2. QED BY <3>1 DEF CastAs
  <2>5. /\ \A m \in Node : GenuineNode(C, node[m])
        /\ GenuineNet(C, net)
    BY <1>0, GenuineGrows DEF GenuineNet
  <2>6. GenuineNode(C, t)
    <3> HIDE DEF C
    <3>1. QED BY <2>2, <2>4, <2>5, AddVoteGenuine
  <2>7. GenuineMsg(C, n, msg) /\ msg \in Message
    BY <2>2, <2>4 DEF GenuineMsg, Message, VoteMsg, NodeState
  <2> HIDE DEF C, t, msg
  <2>8. count \in Handlings /\ GenuineHandling(C, n, count)
    BY <2>2, <2>3, <2>6, CountIfEveryoneVotedType, CountIfEveryoneVotedGenuine
  <2> HIDE DEF count
  <2>9. r \in Handlings /\ r.node = count.node /\ r.out = <<msg>> \o count.out
    <3>1. <<msg>> \o count.out \in Seq(Message)
      BY <2>7, <2>8, ConcatProperties DEF Handlings
    <3>2. QED BY <2>8, <3>1 DEF Handlings
  <2>10. GenuineOut(C, n, <<msg>> \o count.out)
    <3>1. count.out \in Seq(Message) /\ <<msg>> \in Seq(Message)
      BY <2>7, <2>8 DEF Handlings
    <3>2. /\ Len(<<msg>> \o count.out) = 1 + Len(count.out)
          /\ \A i \in 1..(1 + Len(count.out)) :
                (<<msg>> \o count.out)[i] = IF i <= 1 THEN msg ELSE count.out[i - 1]
      BY <3>1, ConcatProperties
    <3>3. \A i \in 1..(1 + Len(count.out)) : ~(i <= 1) => i - 1 \in 1..Len(count.out)
      BY <3>1
    <3>4. QED BY <2>7, <2>8, <3>2, <3>3 DEF GenuineOut, GenuineHandling
  <2>11. GenuineHandling(C, n, r)
    BY <2>8, <2>9, <2>10 DEF GenuineHandling
  <2> HIDE DEF r
  <2>12. (\A m \in Node : GenuineNode(C, node'[m])) /\ GenuineNet(C, net')
    BY <1>0, <2>1, <2>5, <2>9, <2>11, DoGenuine
  <2>13. QED BY <2>1, <2>3, <2>12
<1>3. ASSUME NEW n \in Node, WindowCloses(n) PROVE Goal
  <2> DEFINE t == [node[n] EXCEPT !.closed = TRUE]
  <2>1. GenuineNode(cast, t)
    <3>1. t.votes = node[n].votes /\ t.round = node[n].round /\ t.history = node[n].history
      BY <1>0 DEF NodeState
    <3> HIDE DEF t
    <3>2. QED BY <1>0, <1>a, <3>1
  <2>2. QED BY <1>0, <1>3, <2>1 DEF WindowCloses
<1>4. ASSUME NEW n \in Node, TallyDue(n) PROVE Goal
  <2>1. /\ CountAndPublish(node[n]) \in Handlings
        /\ GenuineHandling(cast, n, CountAndPublish(node[n]))
    BY <1>0, CountAndPublishType, CountAndPublishGenuine
  <2>2. Do(n, CountAndPublish(node[n]), net, peers[n]) /\ cast' = cast
    BY <1>4 DEF TallyDue
  <2>3. QED BY <1>0, <2>1, <2>2, DoGenuine
<1>5. ASSUME NEW n \in Node, GraceOver(n) PROVE Goal
  <2> DEFINE t == [node[n] EXCEPT !.settling = FALSE]
  <2>1. GenuineNode(cast, t)
    <3>1. t.votes = node[n].votes /\ t.round = node[n].round /\ t.history = node[n].history
      BY <1>0 DEF NodeState
    <3> HIDE DEF t
    <3>2. QED BY <1>0, <1>a, <3>1
  <2>2. QED BY <1>0, <1>5, <2>1 DEF GraceOver
<1>6. ASSUME NEW n \in Node, MoveTimeout(n) PROVE Goal
  <2> DEFINE r == [node |-> EndGame(node[n], "timeout"),
                   out  |-> <<[type |-> "game_over"]>>]
  <2>1. [type |-> "game_over"] \in Message
    BY DEF Message, GameOverMsg
  <2>2. r \in Handlings
    BY <1>0, <2>1, EndGameType DEF Handlings, Results
  <2>3. GenuineMsg(cast, n, [type |-> "game_over"])
    BY DEF GenuineMsg
  <2>4. GenuineHandling(cast, n, r)
    <3>1. GenuineNode(cast, EndGame(node[n], "timeout"))
      BY <1>0, EndGameGenuine DEF GenuineNode
    <3>2. GenuineOut(cast, n, <<[type |-> "game_over"]>>)
      BY <2>3 DEF GenuineOut
    <3>3. QED BY <3>1, <3>2 DEF GenuineHandling
  <2>5. Do(n, r, net, peers[n]) /\ cast' = cast
    BY <1>6 DEF MoveTimeout
  <2> HIDE DEF r
  <2>6. QED BY <1>0, <2>2, <2>4, <2>5, DoGenuine
<1>7. ASSUME NEW n \in Node, NEW p \in Node, Receive(p, n) PROVE Goal
  <2> DEFINE queue == net[<<p, n>>]
             rest  == [net EXCEPT ![<<p, n>>] = Tail(@)]
             r(believed) == Handled(n, node[n], peers[n], p, Head(queue), believed)
  <2>1. queue \in Seq(Message) /\ queue # <<>> /\ GenuineOut(cast, p, queue)
    BY <1>0, <1>7 DEF Receive, GenuineNet
  <2>2. Head(queue) \in Message /\ Tail(queue) \in Seq(Message)
    BY <2>1, HeadTailProperties
  <2>3. GenuineMsg(cast, p, Head(queue)) /\ GenuineOut(cast, p, Tail(queue))
    BY <2>1, RestGenuine
  <2>4. rest \in Channels /\ GenuineNet(cast, rest)
    BY <1>0, <2>2, <2>3 DEF GenuineNet
  <2>5. PICK believed : Do(n, r(believed), rest, peers[n])
    BY <1>7 DEF Receive
  <2> HIDE DEF queue, rest
  <2>6. r(believed) \in Handlings /\ GenuineHandling(cast, n, r(believed))
    BY <1>0, <2>2, <2>3, HandledType, HandledGenuine
  <2> HIDE DEF r
  <2>7. cast' = cast
    BY <1>7 DEF Receive
  <2>8. QED BY <1>0, <2>4, <2>5, <2>6, <2>7, DoGenuine
<1>8. ASSUME NEW l \in MayDrop, LinkFails(l) PROVE Goal
  BY <1>0, <1>8 DEF LinkFails
<1>9. ASSUME NEW n \in Node, NEW p \in Node, PeerDisconnects(n, p) PROVE Goal
  <2> DEFINE r == CountIfEveryoneVoted(n, node[n], peers[n] \ {p})
             queues == [net EXCEPT ![<<p, n>>] = <<>>]
  <2>1. r \in Handlings /\ GenuineHandling(cast, n, r)
    BY <1>0, CountIfEveryoneVotedType, CountIfEveryoneVotedGenuine
  <2>2. queues \in Channels /\ GenuineNet(cast, queues)
    BY <1>0, EmptySeq DEF GenuineNet, GenuineOut
  <2>3. Do(n, r, queues, peers[n] \ {p}) /\ cast' = cast
    BY <1>9 DEF PeerDisconnects
  <2> HIDE DEF r, queues
  <2>4. QED BY <1>0, <2>1, <2>2, <2>3, DoGenuine
<1>10. ASSUME NEW l \in Links, LinkReturns(l) PROVE Goal
  <2>1. GenuineNet(cast, net')
    <3>1. ASSUME NEW m \in Node, NEW k \in Node
          PROVE  net'[<<m, k>>] = <<>> \/ net'[<<m, k>>] = net[<<m, k>>]
      BY <1>10 DEF LinkReturns
    <3>2. QED BY <1>0, <3>1, NothingSaid DEF GenuineNet
  <2>2. QED BY <1>0, <1>10, <2>1 DEF LinkReturns
<1>11. ASSUME NEW n \in Node, NEW p \in Node, AddPeer(n, p) PROVE Goal
  <2> DEFINE r == [node |-> [node[n] EXCEPT !.settling = TRUE],
                   out  |-> <<SnapshotOf(node[n])>>]
  <2>1. SnapshotOf(node[n]) \in Message /\ GenuineMsg(cast, n, SnapshotOf(node[n]))
    BY <1>0 DEF SnapshotOf, NodeState, Message, SnapshotMsg, GenuineMsg, GenuineNode
  <2>2. [node[n] EXCEPT !.settling = TRUE] \in NodeState
    BY <1>0 DEF NodeState
  <2>3. r \in Handlings
    BY <2>1, <2>2 DEF Handlings
  <2>4. GenuineNode(cast, [node[n] EXCEPT !.settling = TRUE])
    <3> DEFINE t == [node[n] EXCEPT !.settling = TRUE]
    <3>1. t.votes = node[n].votes /\ t.round = node[n].round /\ t.history = node[n].history
      BY <1>0 DEF NodeState
    <3> HIDE DEF t
    <3>2. GenuineNode(cast, t)
      BY <1>0, <1>a, <3>1
    <3>3. QED BY <3>2 DEF t
  <2>5. GenuineHandling(cast, n, r)
    BY <2>1, <2>4 DEF GenuineHandling, GenuineOut
  <2>6. /\ Do(n, r, net, {p}) \/ UNCHANGED <<node, net>>
        /\ cast' = cast
    BY <1>11 DEF AddPeer
  <2> HIDE DEF r
  <2>7. QED BY <1>0, <2>3, <2>5, <2>6, DoGenuine
<1>12. ASSUME NEW n \in Node, Restart(n) PROVE Goal
  <2> DEFINE t == [EndGame(node[n], "none") EXCEPT !.phase = "lobby", !.history = <<>>]
  <2>1. t.votes = NoVotes /\ t.round = 0 /\ t.history = <<>>
    BY <1>0 DEF EndGame, NodeState
  <2>2. AllVotedFor(cast, <<>>)
    BY DEF AllVotedFor
  <2> HIDE DEF t
  <2>3. GenuineNode(cast, t)
    BY <2>1, <2>2, NothingCast, RevoteAssumption DEF GenuineNode
  <2>4. GenuineNet(cast, net')
    <3>1. ASSUME NEW m \in Node, NEW k \in Node
          PROVE  net'[<<m, k>>] = <<>> \/ net'[<<m, k>>] = net[<<m, k>>]
      BY <1>12 DEF Restart
    <3>2. QED BY <1>0, <3>1, NothingSaid DEF GenuineNet
  <2>5. node' = [node EXCEPT ![n] = t] /\ cast' = cast
    BY <1>12 DEF Restart, t
  <2>6. QED BY <1>0, <2>3, <2>4, <2>5
<1>13. ASSUME UNCHANGED vars PROVE Goal
  BY <1>0, <1>13 DEF vars
<1>14. Goal
  BY <1>1, <1>2, <1>3, <1>4, <1>5, <1>6, <1>7, <1>8, <1>9, <1>10, <1>11, <1>12,
     <1>13 DEF Next
<1>15. QED BY <1>0, <1>14 DEF GenuineInv

LEMMA GenuineAlways == Spec => []GenuineInv
BY GenuineInit, GenuineNext, PTL DEF Spec

\* For any players, rules, settings and faults: every vote a node holds for its
\* open window was cast by that player for this turn and this round.
THEOREM VotesAreGenuine == Spec => []GenuineVotes
<1>1. GenuineInv => GenuineVotes
  BY DEF GenuineInv, GenuineVotes, GenuineNode, AllCast, CastAs
<1>2. QED BY <1>1, GenuineAlways, PTL

\* For any players, rules, settings and faults: every move on every board was
\* voted for on that turn by a player of the side to move.
THEOREM EveryMoveWasVotedFor == Spec => []MovesWereVotedFor
<1>1. GenuineInv => MovesWereVotedFor
  BY DEF GenuineInv, MovesWereVotedFor, GenuineNode, AllVotedFor, VotedFor
<1>2. QED BY <1>1, GenuineAlways, PTL

\* For any players, rules, settings and faults: no tally and no snapshot takes a
\* node past the revotes the settings allow.
THEOREM RevotesStayBounded == Spec => []RevotesAreBounded
<1>1. GenuineInv => RevotesAreBounded
  BY DEF GenuineInv, RevotesAreBounded, GenuineNode
<1>2. QED BY <1>1, GenuineAlways, PTL

\* For any players, rules, settings and faults: a player holds the vote it cast
\* until its game is past that window.
THEOREM CastVotesAreHeld == Spec => []HoldsItsVotes
<1>1. VotesInv => HoldsItsVotes
  BY DEF VotesInv
<1>2. QED BY <1>1, VotesInvInit, VotesInvNext, PTL DEF Spec

=============================================================================
