------------------------- MODULE TeamDecisions_proofs -------------------------
(***************************************************************************)
(* No game ends in a draw that only one side wanted, no side's game is     *)
(* given up without enough of its players, and no resign vote with enough  *)
(* yes stays open: for any players, sides, threshold and failures.  While  *)
(* no link fails, votes to resign meet, and a resignation ends every game. *)
(*                                                                         *)
(* What the messages and the games of the nodes may say is judged by the   *)
(* history of what the players did, which only grows.                      *)
(***************************************************************************)
EXTENDS TeamDecisions, SequenceTheorems, FiniteSetTheorems, TLAPS

Histories == [offers : SUBSET Node, accepts : SUBSET Node, yes : SUBSET Node, drops : Nat]
History   == [offers |-> offers, accepts |-> accepts, yes |-> yes, drops |-> drops]

Grows(h, k) ==
    /\ h.offers \subseteq k.offers
    /\ h.accepts \subseteq k.accepts
    /\ h.yes \subseteq k.yes
    /\ h.drops <= k.drops

\* What a draw offer, a draw and the end of side t's game rest on.
HasOffered(h, t) == \E o \in h.offers : Team[o] = t
Agreed(h)        == \E o \in h.offers, a \in h.accepts : Team[a] = Other(Team[o])
GivenUp(h, t)    == h.drops = 0 => Enough(h.yes \cap SideOf(t), SideOf(t))

Rightful(h, result) ==
    /\ result = "draw" => Agreed(h)
    /\ result \in Teams => GivenUp(h, Other(result))

\* The messages that p may have sent.
Justified(p, h) ==
    {m \in Message : /\ m.type = "draw_offer"  => p \in h.offers
                     /\ m.type = "resign_vote" => p \in h.yes
                     /\ m.type = "game_over"   => Rightful(h, m.result)}

\* A game that n may be in.
Good(n, g, h) ==
    /\ g \in Game
    /\ g.offer # None => HasOffered(h, g.offer)
    /\ Rightful(h, g.result)
    /\ g.yes \subseteq h.yes \cap SideOf(Team[n])
    /\ g.open => g.result = None

Mates(n, ps) == SideOf(Team[n]) \cap ({n} \cup ps)

\* The vote that n has open is not decided among the connected teammates.
Undecided(n, g, ps) == g.open => ~ Enough(g.yes, Mates(n, ps))

Complete(n, h, ps) == h.drops = 0 => ps = Node \ {n}

\* The outcome of handling something on n.
GoodStep(n, r, h, ps) ==
    /\ Good(n, r.game, h)
    /\ Undecided(n, r.game, ps)
    /\ r.out \in Seq(Justified(n, h))

\* The inductive invariant.
IInv ==
    /\ TypeOK
    /\ drops = 0 => up = Links
    /\ \A n \in Node : /\ Good(n, game[n], History)
                       /\ Undecided(n, game[n], peers[n])
                       /\ Complete(n, History, peers[n])
    /\ \A c \in Node \X Node : net[c] \in Seq(Justified(c[1], History))

-----------------------------------------------------------------------------
(* Sides, numbers of votes and histories.                                  *)

LEMMA OtherOther ==
    /\ \A t \in Teams : Other(t) \in Teams /\ Other(Other(t)) = t /\ Other(t) # t
    /\ None \notin Teams /\ "draw" \notin Teams /\ None # "draw"
    /\ \A n \in Node : Team[n] \in Teams
BY TeamAssumption DEF Other, Teams, None

LEMMA SubsetsAreFinite ==
    ASSUME NEW S \in SUBSET Node
    PROVE  IsFiniteSet(S) /\ Cardinality(S) \in Nat
BY NodeAssumption, FS_Subset, FS_CardinalityType

LEMMA SmallerSet ==
    ASSUME NEW S \in SUBSET Node, NEW T \in SUBSET S
    PROVE  Cardinality(T) <= Cardinality(S) /\ Cardinality(T) \in Nat /\ Cardinality(S) \in Nat
<1>1. T \in SUBSET Node
  OBVIOUS
<1>2. QED BY <1>1, SubsetsAreFinite, FS_Subset

LEMMA Times ==
    ASSUME NEW k \in Nat, NEW a \in Nat, NEW b \in Nat, a <= b
    PROVE  k * a <= k * b /\ k * a \in Nat /\ k * b \in Nat
BY SMT

LEMMA MoreVotes ==
    ASSUME NEW team \in SUBSET Node, NEW w \in SUBSET Node, NEW v \in SUBSET w,
           Enough(v, team)
    PROVE  Enough(w, team)
<1>1. Cardinality(v) <= Cardinality(w) /\ Cardinality(v) \in Nat /\ Cardinality(w) \in Nat
  BY SmallerSet
<1>2. Percent * Cardinality(team) \in Nat
  BY SubsetsAreFinite, BoundAssumption, Times
<1>3. QED BY <1>1, <1>2 DEF Enough

LEMMA LargerTeam ==
    ASSUME NEW v \in SUBSET Node, NEW team \in SUBSET Node, NEW part \in SUBSET team,
           part # {}, Enough(v, team)
    PROVE  Enough(v, part)
<1>1. Cardinality(part) <= Cardinality(team) /\ Cardinality(part) \in Nat
      /\ Cardinality(team) \in Nat
  BY SmallerSet
<1>2. Percent \in Nat /\ Cardinality(v) \in Nat
  BY BoundAssumption, SubsetsAreFinite
<1>3. /\ Percent * Cardinality(part) <= Percent * Cardinality(team)
      /\ Percent * Cardinality(part) \in Nat /\ Percent * Cardinality(team) \in Nat
  BY <1>1, <1>2, Times
<1>4. QED BY <1>2, <1>3 DEF Enough

LEMMA PairIsLink ==
    ASSUME NEW a \in Node, NEW b \in Node, a # b
    PROVE  {a, b} \in Links
<1>1. IsFiniteSet({a}) /\ Cardinality({a}) = 1
  BY FS_Singleton
<1>2. Cardinality({a} \cup {b}) = Cardinality({a}) + 1
  BY <1>1, FS_AddElement
<1>3. {a} \cup {b} = {a, b}
  OBVIOUS
<1>4. QED BY <1>1, <1>2, <1>3 DEF Links

LEMMA MatesOf ==
    ASSUME NEW n \in Node, NEW ps \in SUBSET Node
    PROVE  /\ Mates(n, ps) \in SUBSET Node
           /\ n \in Mates(n, ps)
           /\ Mates(n, ps) = {n} \cup {p \in ps : Team[p] = Team[n]}
           /\ ps = Node \ {n} => Mates(n, ps) = SideOf(Team[n])
BY DEF Mates, SideOf

\* The code's threshold is the documented one, over the connected team.
LEMMA PassesEnough ==
    ASSUME NEW n \in Node, NEW ps \in SUBSET Node, NEW v \in SUBSET Node
    PROVE  Passes(v, TeamSize(n, ps)) <=> Enough(v, Mates(n, ps))
<1>1. TeamSize(n, ps) = Cardinality(Mates(n, ps))
  BY MatesOf DEF TeamSize
<1>2. Mates(n, ps) # {} /\ IsFiniteSet(Mates(n, ps)) /\ Cardinality(Mates(n, ps)) \in Nat
  BY MatesOf, SubsetsAreFinite
<1>3. Cardinality(Mates(n, ps)) # 0
  BY <1>2, FS_EmptySet
<1>4. QED BY <1>1, <1>2, <1>3 DEF Passes, Enough

LEMMA RightfulGrows ==
    ASSUME NEW h \in Histories, NEW k \in Histories, Grows(h, k), NEW result,
           Rightful(h, result)
    PROVE  Rightful(k, result)
<1>1. result = "draw" => Agreed(k)
  BY DEF Rightful, Agreed, Grows
<1>2. ASSUME result \in Teams PROVE GivenUp(k, Other(result))
  <2> DEFINE t == Other(result)
  <2>1. GivenUp(h, t)
    BY <1>2 DEF Rightful
  <2>2. SUFFICES ASSUME k.drops = 0 PROVE Enough(k.yes \cap SideOf(t), SideOf(t))
    BY DEF GivenUp
  <2>3. h.drops = 0
    BY <2>2 DEF Grows, Histories
  <2>4. /\ SideOf(t) \in SUBSET Node /\ k.yes \cap SideOf(t) \in SUBSET Node
        /\ h.yes \cap SideOf(t) \in SUBSET (k.yes \cap SideOf(t))
    BY DEF SideOf, Grows, Histories
  <2> HIDE DEF t
  <2>5. QED BY <2>1, <2>3, <2>4, MoreVotes DEF GivenUp
<1>3. QED BY <1>1, <1>2 DEF Rightful

LEMMA JustifiedGrows ==
    ASSUME NEW h \in Histories, NEW k \in Histories, Grows(h, k), NEW p
    PROVE  Justified(p, h) \subseteq Justified(p, k)
BY RightfulGrows DEF Justified, Grows

LEMMA GoodGrows ==
    ASSUME NEW h \in Histories, NEW k \in Histories, Grows(h, k), NEW n, NEW g, Good(n, g, h)
    PROVE  Good(n, g, k)
<1>1. Rightful(k, g.result)
  BY RightfulGrows DEF Good
<1>2. g.offer # None => HasOffered(k, g.offer)
  BY DEF Good, HasOffered, Grows
<1>3. g.yes \subseteq k.yes \cap SideOf(Team[n])
  BY DEF Good, Grows
<1>4. QED BY <1>1, <1>2, <1>3 DEF Good

-----------------------------------------------------------------------------
(* The operators on games.                                                 *)

LEMMA EndGameGood ==
    ASSUME NEW h \in Histories, NEW n \in Node, NEW g, Good(n, g, h),
           NEW result \in {"draw"} \cup Teams, Rightful(h, result), NEW ps
    PROVE  /\ Good(n, EndGame(g, result), h)
           /\ Undecided(n, EndGame(g, result), ps)
           /\ EndGame(g, result).result = result
           /\ GameOver(result) \in Justified(n, h)
<1> DEFINE a == [g EXCEPT !.result = result]
           b == [a EXCEPT !.open = FALSE]
           e == [b EXCEPT !.yes = {}]
<1>1. a \in Game
  BY DEF Good, Game
<1>2. b \in Game
  <2> HIDE DEF a
  <2> QED BY <1>1 DEF Game
<1>3. e \in Game
  <2> HIDE DEF b
  <2> QED BY <1>2 DEF Game
<1>4. e.result = result /\ e.offer = g.offer /\ ~ e.open /\ e.yes = {}
  BY DEF Good, Game
<1>5. EndGame(g, result) = e
  BY DEF EndGame
<1> HIDE DEF e
<1>6. GameOver(result) \in Justified(n, h)
  BY DEF GameOver, Justified, Message
<1>7. QED BY <1>3, <1>4, <1>5, <1>6 DEF Good, Undecided

LEMMA OneMessage ==
    ASSUME NEW S, NEW m \in S
    PROVE  <<m>> \in Seq(S)
BY SMT

LEMMA EndAndAnnounceGood ==
    ASSUME NEW h \in Histories, NEW n \in Node, NEW g, Good(n, g, h),
           NEW result \in {"draw"} \cup Teams, Rightful(h, result), NEW ps
    PROVE  GoodStep(n, EndAndAnnounce(g, result), h, ps)
<1>1. <<GameOver(result)>> \in Seq(Justified(n, h))
  BY EndGameGood, OneMessage
<1>2. QED BY <1>1, EndGameGood DEF EndAndAnnounce, GoodStep

LEMMA SilentGood ==
    ASSUME NEW h, NEW n, NEW g, Good(n, g, h), NEW ps, Undecided(n, g, ps)
    PROVE  GoodStep(n, Silent(g), h, ps)
BY EmptySeq DEF Silent, GoodStep

\* Whoever finds enough yes votes among a complete team may give up for it.
LEMMA CheckResignGood ==
    ASSUME NEW h \in Histories, NEW n \in Node, NEW g, Good(n, g, h),
           NEW ps \in SUBSET Node, Complete(n, h, ps)
    PROVE  GoodStep(n, CheckResign(n, g, ps), h, ps)
<1> DEFINE passes == g.open /\ g.result = None /\ Passes(g.yes, TeamSize(n, ps))
<1>0. /\ g.yes \in SUBSET Node /\ g.yes \subseteq h.yes \cap SideOf(Team[n])
      /\ g.open => g.result = None
  BY DEF Good, Game
<1>1. Passes(g.yes, TeamSize(n, ps)) <=> Enough(g.yes, Mates(n, ps))
  BY <1>0, PassesEnough
<1>2. CASE passes
  <2> DEFINE t == Team[n]
  <2>1. t \in Teams /\ Other(t) \in Teams /\ Other(Other(t)) = t /\ Other(t) # "draw"
    BY OtherOther
  <2>2. h.drops = 0 => Enough(h.yes \cap SideOf(t), SideOf(t))
    <3>1. SideOf(t) \in SUBSET Node /\ h.yes \cap SideOf(t) \in SUBSET Node
      BY DEF SideOf
    <3>2. h.drops = 0 => Enough(g.yes, SideOf(t))
      BY <1>1, <1>2, MatesOf DEF Complete
    <3>3. QED BY <1>0, <3>1, <3>2, MoreVotes
  <2>3. Rightful(h, Other(t))
    BY <2>1, <2>2 DEF Rightful, GivenUp
  <2>4. QED BY <1>2, <2>1, <2>3, EndAndAnnounceGood DEF CheckResign
<1>3. CASE ~ passes
  <2>1. Undecided(n, g, ps)
    BY <1>0, <1>1, <1>3 DEF Undecided
  <2>2. CheckResign(n, g, ps) = Silent(g)
    BY <1>3 DEF CheckResign
  <2>3. QED BY <2>1, <2>2, SilentGood
<1>4. QED BY <1>2, <1>3

LEMMA AddYesGood ==
    ASSUME NEW h \in Histories, NEW n \in Node, NEW g, Good(n, g, h), g.result = None,
           NEW p \in Node, Team[p] = Team[n], p \in h.yes
    PROVE  Good(n, AddYes(g, p), h)
<1> DEFINE a == [g EXCEPT !.open = TRUE]
           b == [a EXCEPT !.yes = @ \cup {p}]
<1>1. a \in Game /\ a.yes = g.yes
  BY DEF Good, Game
<1>2. b \in Game
  <2> HIDE DEF a
  <2> QED BY <1>1 DEF Game
<1>3. b.result = None /\ b.offer = g.offer /\ b.yes = g.yes \cup {p}
  BY DEF Good, Game
<1>4. p \in SideOf(Team[n])
  BY DEF SideOf
<1>5. AddYes(g, p) = b
  BY DEF AddYes
<1> HIDE DEF b
<1>6. QED BY <1>2, <1>3, <1>4, <1>5 DEF Good

LEMMA OfferGood ==
    ASSUME NEW h \in Histories, NEW n \in Node, NEW g, Good(n, g, h), NEW ps, Undecided(n, g, ps),
           NEW t \in Teams \cup {None}, t # None => HasOffered(h, t)
    PROVE  Good(n, [g EXCEPT !.offer = t], h) /\ Undecided(n, [g EXCEPT !.offer = t], ps)
<1> DEFINE b == [g EXCEPT !.offer = t]
<1>1. b \in Game
  BY DEF Good, Game
<1>2. b.result = g.result /\ b.offer = t /\ b.yes = g.yes /\ b.open = g.open
  BY DEF Good, Game
<1> HIDE DEF b
<1>3. Good(n, b, h) /\ Undecided(n, b, ps)
  BY <1>1, <1>2 DEF Good, Undecided
<1>4. QED BY <1>3 DEF b

-----------------------------------------------------------------------------
(* The handlers.                                                           *)

LEMMA ResignVoteGood ==
    ASSUME NEW h \in Histories, NEW n \in Node, NEW g, Good(n, g, h),
           NEW ps \in SUBSET Node, Complete(n, h, ps), Undecided(n, g, ps),
           NEW p \in Node, p \in h.yes
    PROVE  GoodStep(n, HandleResignVote(n, g, ps, p), h, ps)
<1>1. CASE g.result = None /\ Team[p] = Team[n] /\ p \notin g.yes
  <2>1. Good(n, AddYes(g, p), h)
    BY <1>1, AddYesGood
  <2>2. QED BY <1>1, <2>1, CheckResignGood DEF HandleResignVote
<1>2. CASE ~ (g.result = None /\ Team[p] = Team[n] /\ p \notin g.yes)
  BY <1>2, SilentGood DEF HandleResignVote
<1>3. QED BY <1>1, <1>2

LEMMA GameOverGood ==
    ASSUME NEW h \in Histories, NEW n \in Node, NEW g, Good(n, g, h),
           NEW ps, Undecided(n, g, ps), NEW p \in Node,
           NEW msg \in Justified(p, h), msg.type = "game_over"
    PROVE  GoodStep(n, Silent(HandleGameOver(g, p, msg)), h, ps)
<1>1. msg.result \in {"draw"} \cup Teams /\ Rightful(h, msg.result)
  BY DEF Justified, Message
<1>2. CASE RejectGameOver(g, p, msg.result)
  BY <1>2, SilentGood DEF HandleGameOver
<1>3. CASE ~ RejectGameOver(g, p, msg.result)
  BY <1>1, <1>3, EndGameGood, SilentGood DEF HandleGameOver
<1>4. QED BY <1>2, <1>3

LEMMA HandledGood ==
    ASSUME NEW h \in Histories, NEW n \in Node, NEW g, Good(n, g, h),
           NEW ps \in SUBSET Node, Complete(n, h, ps), Undecided(n, g, ps),
           NEW p \in Node, NEW msg \in Justified(p, h)
    PROVE  GoodStep(n, Handled(n, g, ps, p, msg), h, ps)
<1>0. msg.type \in {"draw_offer", "draw_response", "resign_vote", "game_over"}
  BY DEF Justified, Message
<1>1. CASE msg.type = "draw_offer"
  <2>1. p \in h.offers /\ Team[p] \in Teams
    BY <1>1, OtherOther DEF Justified
  <2>2. HasOffered(h, Team[p])
    BY <2>1 DEF HasOffered
  <2>3. /\ Good(n, HandleDrawOffer(g, p), h)
        /\ Undecided(n, HandleDrawOffer(g, p), ps)
    BY <2>1, <2>2, OfferGood DEF HandleDrawOffer
  <2>4. QED BY <1>1, <2>3, SilentGood DEF Handled
<1>2. CASE msg.type = "draw_response"
  <2>1. /\ Good(n, HandleDrawResponse(g), h)
        /\ Undecided(n, HandleDrawResponse(g), ps)
    BY OfferGood DEF HandleDrawResponse
  <2>2. QED BY <1>2, <2>1, SilentGood DEF Handled
<1>3. CASE msg.type = "resign_vote"
  <2>1. p \in h.yes
    BY <1>3 DEF Justified
  <2>2. QED BY <1>3, <2>1, ResignVoteGood DEF Handled
<1>4. CASE msg.type = "game_over"
  BY <1>4, GameOverGood DEF Handled
<1>5. QED BY <1>0, <1>1, <1>2, <1>3, <1>4

-----------------------------------------------------------------------------
(* The queues, and steps of one player.                                    *)

GoodQueues(queues, h) ==
    /\ queues \in [Node \X Node -> Seq(Message)]
    /\ \A c \in Node \X Node : queues[c] \in Seq(Justified(c[1], h))

LEMMA JustifiedMessages ==
    ASSUME NEW p, NEW h, NEW q \in Seq(Justified(p, h))
    PROVE  q \in Seq(Message)
BY SeqMonotonic DEF Justified

LEMMA QueuesGrow ==
    ASSUME NEW h \in Histories, NEW k \in Histories, Grows(h, k),
           NEW queues, GoodQueues(queues, h)
    PROVE  GoodQueues(queues, k)
BY JustifiedGrows, SeqMonotonic DEF GoodQueues

LEMMA SentGood ==
    ASSUME NEW h, NEW queues, GoodQueues(queues, h), NEW n \in Node, NEW ps,
           NEW out \in Seq(Justified(n, h))
    PROVE  GoodQueues(Sent(queues, n, ps, out), h)
<1> DEFINE s == Sent(queues, n, ps, out)
<1>1. ASSUME NEW c \in Node \X Node PROVE s[c] \in Seq(Justified(c[1], h))
  <2>1. queues[c] \in Seq(Justified(c[1], h))
    BY DEF GoodQueues
  <2>2. c[1] = n => queues[c] \o out \in Seq(Justified(c[1], h))
    BY <2>1, ConcatProperties
  <2>3. QED BY <2>1, <2>2 DEF Sent
<1>2. s = [c \in Node \X Node |-> s[c]]
  BY DEF Sent
<1> HIDE DEF s
<1>3. \A c \in Node \X Node : s[c] \in Seq(Message)
  BY <1>1, JustifiedMessages
<1>4. s \in [Node \X Node -> Seq(Message)]
  BY <1>2, <1>3
<1>5. QED BY <1>1, <1>4 DEF GoodQueues, s

\* Taking the first message of a queue, and emptying one.
LEMMA TakenGood ==
    ASSUME NEW h, NEW queues, GoodQueues(queues, h), NEW c \in Node \X Node
    PROVE  /\ queues[c] # <<>> => /\ Head(queues[c]) \in Justified(c[1], h)
                                  /\ GoodQueues([queues EXCEPT ![c] = Tail(@)], h)
           /\ GoodQueues([queues EXCEPT ![c] = <<>>], h)
<1>1. queues[c] \in Seq(Justified(c[1], h))
  BY DEF GoodQueues
<1>2. ASSUME NEW q \in Seq(Justified(c[1], h))
      PROVE  GoodQueues([queues EXCEPT ![c] = q], h)
  <2>1. q \in Seq(Message)
    BY <1>2, JustifiedMessages
  <2>2. QED BY <1>2, <2>1 DEF GoodQueues
<1>3. <<>> \in Seq(Justified(c[1], h))
  BY EmptySeq
<1>4. queues[c] # <<>> => /\ Head(queues[c]) \in Justified(c[1], h)
                           /\ Tail(queues[c]) \in Seq(Justified(c[1], h))
  BY <1>1, HeadTailProperties
<1>5. QED BY <1>2, <1>3, <1>4

LEMMA HistoryTypes == TypeOK => History \in Histories
BY DEF TypeOK, History, Histories

\* A player does r, whatever it and the others knew before.
LEMMA StepGood ==
    ASSUME IInv, History' \in Histories, Grows(History, History'), expiries' \in Nat,
           UNCHANGED <<up, drops>>, NEW n \in Node, NEW ps \in SUBSET Node,
           peers' = [peers EXCEPT ![n] = ps], Complete(n, History', ps),
           NEW r, GoodStep(n, r, History', ps),
           NEW queues, GoodQueues(queues, History'), NEW to, Do(n, r, queues, to)
    PROVE  IInv'
<1>0. TypeOK /\ History \in Histories
  BY HistoryTypes DEF IInv
<1>1. GoodQueues(net', History')
  BY SentGood DEF Do, GoodStep
<1>2. r.game \in Game /\ game' = [game EXCEPT ![n] = r.game]
  BY DEF Do, GoodStep, Good
<1>3. TypeOK'
  <2>1. {offers, accepts, yes}' \subseteq SUBSET Node /\ drops' \in Nat
    BY DEF History, Histories
  <2>2. game' \in [Node -> Game]
    BY <1>0, <1>2 DEF TypeOK
  <2>3. peers' \in [Node -> SUBSET Node] /\ up' \subseteq Links
    BY <1>0 DEF TypeOK
  <2>4. QED BY <1>1, <2>1, <2>2, <2>3 DEF TypeOK, GoodQueues
<1>4. drops' = 0 => up' = Links
  BY DEF IInv
<1>5. ASSUME NEW m \in Node
      PROVE  /\ Good(m, game'[m], History')
             /\ Undecided(m, game'[m], peers'[m])
             /\ Complete(m, History', peers'[m])
  <2>1. CASE m = n
    BY <1>0, <1>2, <2>1 DEF GoodStep, TypeOK
  <2>2. CASE m # n
    <3>1. /\ game'[m] = game[m] /\ peers'[m] = peers[m]
          /\ Good(m, game[m], History) /\ Undecided(m, game[m], peers[m])
          /\ Complete(m, History, peers[m])
      BY <1>0, <1>2, <2>2 DEF TypeOK, IInv
    <3>2. Good(m, game[m], History')
      BY <1>0, <3>1, GoodGrows
    <3>3. History'.drops = History.drops
      BY DEF History
    <3>4. QED BY <3>1, <3>2, <3>3 DEF Complete
  <2>3. QED BY <2>1, <2>2
<1>6. QED BY <1>1, <1>3, <1>4, <1>5 DEF IInv, GoodQueues

-----------------------------------------------------------------------------
(* The invariant.                                                          *)

LEMMA InitInv == Init => IInv
<1> SUFFICES ASSUME Init PROVE IInv
  OBVIOUS
<1>0. NewGame \in Game
  BY DEF NewGame, Game
<1>1. net \in [Node \X Node -> Seq(Message)]
  BY EmptySeq DEF Init
<1>2. TypeOK
  BY <1>0, <1>1 DEF Init, TypeOK
<1>3. ASSUME NEW n \in Node
      PROVE  /\ Good(n, game[n], History)
             /\ Undecided(n, game[n], peers[n])
             /\ Complete(n, History, peers[n])
  <2>1. game[n] = NewGame /\ peers[n] = Node \ {n}
    BY DEF Init
  <2>2. Rightful(History, None)
    BY OtherOther DEF Rightful
  <2>3. QED BY <1>0, <2>1, <2>2 DEF Good, Undecided, Complete, NewGame
<1>4. \A c \in Node \X Node : net[c] \in Seq(Justified(c[1], History))
  BY EmptySeq DEF Init
<1>5. QED BY <1>2, <1>3, <1>4 DEF Init, IInv

\* What holds of a player before its step.
LEMMA Before ==
    ASSUME IInv, NEW n \in Node
    PROVE  /\ History \in Histories
           /\ Good(n, game[n], History) /\ Undecided(n, game[n], peers[n])
           /\ Complete(n, History, peers[n])
           /\ peers[n] \in SUBSET Node
           /\ peers = [peers EXCEPT ![n] = peers[n]]
           /\ GoodQueues(net, History)
BY HistoryTypes DEF IInv, TypeOK, GoodQueues

LEMMA SameHistory ==
    ASSUME UNCHANGED <<offers, accepts, yes, drops>>, TypeOK
    PROVE  History' = History /\ Grows(History, History')
BY DEF History, Grows, TypeOK

LEMMA OfferDrawInv ==
    ASSUME IInv, NEW n \in Node, OfferDraw(n)
    PROVE  IInv'
<1> DEFINE h == History'
           r == [game |-> [game[n] EXCEPT !.offer = Team[n]], out |-> <<Plain("draw_offer")>>]
<1>1. h \in Histories /\ Grows(History, h) /\ n \in h.offers /\ h.drops = History.drops
  BY DEF IInv, TypeOK, OfferDraw, History, Histories, Grows
<1>2. Good(n, game[n], h) /\ Undecided(n, game[n], peers[n]) /\ Complete(n, h, peers[n])
  BY <1>1, Before, GoodGrows DEF Complete
<1>3. Team[n] \in Teams /\ HasOffered(h, Team[n])
  BY <1>1, OtherOther DEF HasOffered
<1>4. Good(n, r.game, h) /\ Undecided(n, r.game, peers[n])
  BY <1>1, <1>2, <1>3, OfferGood
<1>5. r.out \in Seq(Justified(n, h))
  <2>1. Plain("draw_offer") \in Justified(n, h)
    BY <1>1 DEF Justified, Plain, Message
  <2>2. QED BY <2>1, OneMessage
<1>6. GoodQueues(net, h)
  BY <1>1, Before, QueuesGrow
<1>7. GoodStep(n, r, h, peers[n])
  BY <1>4, <1>5 DEF GoodStep
<1>8. /\ Do(n, r, net, peers[n]) /\ expiries' \in Nat
      /\ UNCHANGED <<up, drops, peers>>
  BY DEF OfferDraw, IInv, TypeOK
<1> HIDE DEF h, r
<1>9. QED BY <1>1, <1>2, <1>6, <1>7, <1>8, Before, StepGood DEF h

LEMMA AcceptDrawInv ==
    ASSUME IInv, NEW n \in Node, AcceptDraw(n)
    PROVE  IInv'
<1> DEFINE h == History'
           g == [game[n] EXCEPT !.offer = None]
           r == EndAndAnnounce(g, "draw")
<1>1. h \in Histories /\ Grows(History, h) /\ n \in h.accepts /\ h.drops = History.drops
  BY DEF IInv, TypeOK, AcceptDraw, History, Histories, Grows
<1>2. Good(n, game[n], h) /\ Undecided(n, game[n], peers[n]) /\ Complete(n, h, peers[n])
  BY <1>1, Before, GoodGrows DEF Complete
<1>3. Good(n, g, h)
  BY <1>1, <1>2, OfferGood
<1>4. Rightful(h, "draw")
  <2>1. game[n].offer = Other(Team[n]) /\ Team[n] \in Teams /\ game[n].offer \in Teams
    BY OtherOther DEF AcceptDraw, MayAnswer
  <2>2. PICK o \in h.offers : Team[o] = Other(Team[n])
    BY <1>2, <2>1, OtherOther DEF Good, HasOffered
  <2>3. Team[n] = Other(Team[o])
    BY <2>1, <2>2, OtherOther
  <2>4. Agreed(h)
    BY <1>1, <2>2, <2>3 DEF Agreed
  <2>5. QED BY <2>4, OtherOther DEF Rightful
<1>5. GoodStep(n, r, h, peers[n])
  BY <1>1, <1>3, <1>4, EndAndAnnounceGood
<1>6. GoodQueues(net, h)
  BY <1>1, Before, QueuesGrow
<1>7. /\ Do(n, r, net, peers[n]) /\ expiries' \in Nat
      /\ UNCHANGED <<up, drops, peers>>
  BY DEF AcceptDraw, IInv, TypeOK
<1> HIDE DEF h, r
<1>8. QED BY <1>1, <1>2, <1>5, <1>6, <1>7, Before, StepGood DEF h

LEMMA DeclineDrawInv ==
    ASSUME IInv, NEW n \in Node, DeclineDraw(n)
    PROVE  IInv'
<1> DEFINE h == History
           r == [game |-> [game[n] EXCEPT !.offer = None], out |-> <<Plain("draw_response")>>]
<1>1. History' = h /\ Grows(h, h) /\ h \in Histories
  BY SameHistory, Before DEF DeclineDraw, IInv
<1>2. Good(n, r.game, h) /\ Undecided(n, r.game, peers[n])
  BY <1>1, Before, OfferGood
<1>3. r.out \in Seq(Justified(n, h))
  <2>1. Plain("draw_response") \in Justified(n, h)
    BY DEF Justified, Plain, Message
  <2>2. QED BY <2>1, OneMessage
<1>4. GoodStep(n, r, h, peers[n])
  BY <1>2, <1>3 DEF GoodStep
<1>5. /\ Do(n, r, net, peers[n]) /\ expiries' \in Nat
      /\ UNCHANGED <<up, drops, peers>>
  BY DEF DeclineDraw, IInv, TypeOK
<1> HIDE DEF h, r
<1>6. QED BY <1>1, <1>4, <1>5, Before, StepGood DEF h

LEMMA CastResignVoteInv ==
    ASSUME IInv, NEW n \in Node, CastResignVote(n)
    PROVE  IInv'
<1> DEFINE h      == History'
           mates  == {p \in peers[n] : Team[p] = Team[n]}
           r      == CheckResign(n, AddYes(game[n], n), peers[n])
           queues == Sent(net, n, mates, <<Plain("resign_vote")>>)
<1>1. h \in Histories /\ Grows(History, h) /\ n \in h.yes /\ h.drops = History.drops
  BY DEF IInv, TypeOK, CastResignVote, History, Histories, Grows
<1>2. Good(n, game[n], h) /\ Complete(n, h, peers[n])
  BY <1>1, Before, GoodGrows DEF Complete
<1>3. Good(n, AddYes(game[n], n), h)
  BY <1>1, <1>2, AddYesGood DEF CastResignVote
<1>4. GoodStep(n, r, h, peers[n])
  BY <1>1, <1>2, <1>3, Before, CheckResignGood
<1>5. GoodQueues(queues, h)
  <2>1. Plain("resign_vote") \in Justified(n, h)
    BY <1>1 DEF Justified, Plain, Message
  <2>2. GoodQueues(net, h)
    BY <1>1, Before, QueuesGrow
  <2>3. QED BY <2>1, <2>2, OneMessage, SentGood
<1>6. /\ Do(n, r, queues, peers[n]) /\ expiries' \in Nat
      /\ UNCHANGED <<up, drops, peers>>
  BY DEF CastResignVote, IInv, TypeOK
<1> HIDE DEF h, r, queues
<1>7. QED BY <1>1, <1>2, <1>4, <1>5, <1>6, Before, StepGood DEF h

LEMMA RunOutGood ==
    ASSUME NEW h, NEW n, NEW g, Good(n, g, h), NEW ps
    PROVE  /\ Good(n, [g EXCEPT !.open = FALSE, !.yes = {}], h)
           /\ Undecided(n, [g EXCEPT !.open = FALSE, !.yes = {}], ps)
<1> DEFINE a == [g EXCEPT !.open = FALSE]
           b == [a EXCEPT !.yes = {}]
<1>1. a \in Game
  BY DEF Good, Game
<1>2. b \in Game
  <2> HIDE DEF a
  <2> QED BY <1>1 DEF Game
<1>3. b.offer = g.offer /\ b.result = g.result /\ ~ b.open /\ b.yes = {}
  BY DEF Good, Game
<1> HIDE DEF b
<1>4. Good(n, b, h) /\ Undecided(n, b, ps)
  BY <1>2, <1>3 DEF Good, Undecided
<1>5. QED BY <1>4 DEF b

LEMMA ExpiresInv ==
    ASSUME IInv, NEW n \in Node, ResignVoteExpires(n)
    PROVE  IInv'
<1> DEFINE b == [game[n] EXCEPT !.open = FALSE, !.yes = {}]
<1>1. History' = History /\ TypeOK
  BY SameHistory DEF ResignVoteExpires, IInv
<1>2. game' = [game EXCEPT ![n] = b]
  BY <1>1 DEF ResignVoteExpires, TypeOK
<1>3. Good(n, b, History) /\ Undecided(n, b, peers[n])
  BY Before, RunOutGood
<1> HIDE DEF b
<1>4. game' \in [Node -> Game]
  BY <1>1, <1>2, <1>3 DEF TypeOK, Good
<1>5. expiries' \in Nat /\ UNCHANGED <<peers, up, net, offers, accepts, yes, drops>>
  BY <1>1 DEF ResignVoteExpires, TypeOK
<1>6. TypeOK'
  BY <1>1, <1>4, <1>5 DEF TypeOK
<1>7. \A m \in Node : game'[m] = IF m = n THEN b ELSE game[m]
  BY <1>1, <1>2 DEF TypeOK
<1>8. QED BY <1>1, <1>3, <1>5, <1>6, <1>7 DEF IInv

LEMMA ReceiveInv ==
    ASSUME IInv, NEW n \in Node, NEW p \in Node, Receive(p, n)
    PROVE  IInv'
<1> DEFINE h      == History
           msg    == Head(net[<<p, n>>])
           r      == Handled(n, game[n], peers[n], p, msg)
           queues == [net EXCEPT ![<<p, n>>] = Tail(@)]
<1>1. History' = h /\ Grows(h, h) /\ h \in Histories
  BY SameHistory, Before DEF Receive, IInv
<1>2. msg \in Justified(p, h) /\ GoodQueues(queues, h)
  <2>1. net[<<p, n>>] # <<>> /\ <<p, n>> \in Node \X Node /\ <<p, n>>[1] = p
    BY DEF Receive
  <2>2. GoodQueues(net, h)
    BY Before
  <2>3. QED BY <2>1, <2>2, TakenGood
<1>3. GoodStep(n, r, h, peers[n])
  BY <1>1, <1>2, Before, HandledGood
<1>4. /\ Do(n, r, queues, peers[n]) /\ expiries' \in Nat
      /\ UNCHANGED <<up, drops, peers>>
  BY DEF Receive, IInv, TypeOK
<1> HIDE DEF h, r, queues
<1>5. QED BY <1>1, <1>2, <1>3, <1>4, Before, StepGood DEF h

LEMMA PeerDisconnectsInv ==
    ASSUME IInv, NEW n \in Node, NEW p \in Node, PeerDisconnects(n, p)
    PROVE  IInv'
<1> DEFINE h      == History
           ps     == peers[n] \ {p}
           r      == CheckResign(n, game[n], ps)
           queues == [net EXCEPT ![<<p, n>>] = <<>>]
<1>1. History' = h /\ Grows(h, h) /\ h \in Histories
  BY SameHistory, Before DEF PeerDisconnects, IInv
<1>2. ps \in SUBSET Node /\ Complete(n, h, ps)
  <2>1. ASSUME drops = 0 PROVE FALSE
    <3>1. up = Links /\ peers[n] = Node \ {n}
      BY <2>1, Before DEF IInv, Complete, History
    <3>2. p # n /\ {n, p} \notin Links
      BY <3>1 DEF PeerDisconnects
    <3>3. QED BY <3>2, PairIsLink
  <2>2. QED BY <2>1, Before DEF Complete, History
<1>3. GoodStep(n, r, h, ps)
  BY <1>1, <1>2, Before, CheckResignGood
<1>4. GoodQueues(queues, h)
  BY Before, TakenGood
<1>5. /\ Do(n, r, queues, ps) /\ expiries' \in Nat
      /\ UNCHANGED <<up, drops>> /\ peers' = [peers EXCEPT ![n] = ps]
  BY DEF PeerDisconnects, IInv, TypeOK
<1> HIDE DEF h, r, queues, ps
<1>6. QED BY <1>1, <1>2, <1>3, <1>4, <1>5, StepGood DEF h

LEMMA LinkFailsInv ==
    ASSUME IInv, NEW l \in MayDrop, LinkFails(l)
    PROVE  IInv'
<1>1. TypeOK /\ TypeOK'
  BY DEF LinkFails, IInv, TypeOK
<1>2. /\ History \in Histories /\ History' \in Histories /\ Grows(History, History')
      /\ drops' # 0 /\ History'.drops # 0
  BY <1>1, HistoryTypes DEF LinkFails, TypeOK, History, Histories, Grows
<1>3. ASSUME NEW n \in Node
      PROVE  /\ Good(n, game'[n], History')
             /\ Undecided(n, game'[n], peers'[n])
             /\ Complete(n, History', peers'[n])
  <2>1. game' = game /\ peers' = peers
    BY DEF LinkFails
  <2>2. Good(n, game[n], History) /\ Undecided(n, game[n], peers[n])
    BY Before
  <2>3. QED BY <1>2, <2>1, <2>2, GoodGrows DEF Complete
<1>4. GoodQueues(net', History')
  BY <1>2, QueuesGrow DEF LinkFails, IInv, GoodQueues, TypeOK
<1>5. QED BY <1>1, <1>2, <1>3, <1>4 DEF IInv, GoodQueues

LEMMA LinkReturnsInv ==
    ASSUME IInv, NEW l \in Links, LinkReturns(l)
    PROVE  IInv'
<1>0. TypeOK /\ History' = History
  BY SameHistory DEF LinkReturns, IInv
<1>1. drops # 0
  BY DEF LinkReturns, IInv
<1>2. GoodQueues(net', History)
  <2>1. GoodQueues(net, History)
    BY <1>0 DEF IInv, GoodQueues, TypeOK
  <2>2. net' = [c \in Node \X Node |-> IF {c[1], c[2]} = l THEN <<>> ELSE net[c]]
    BY DEF LinkReturns
  <2>3. QED BY <2>1, <2>2, EmptySeq DEF GoodQueues
<1>3. peers' \in [Node -> SUBSET Node] /\ \A n \in Node : peers[n] \subseteq peers'[n]
  <2>1. l \subseteq Node
    BY DEF Links
  <2>2. QED BY <1>0, <2>1 DEF LinkReturns, TypeOK
<1>4. TypeOK'
  BY <1>0, <1>2, <1>3 DEF LinkReturns, TypeOK, GoodQueues
\* A team that grows leaves a vote undecided.
<1>5. ASSUME NEW n \in Node
      PROVE  /\ Good(n, game'[n], History')
             /\ Undecided(n, game'[n], peers'[n])
             /\ Complete(n, History', peers'[n])
  <2>1. game' = game /\ History'.drops # 0
    BY <1>0, <1>1 DEF LinkReturns, History
  <2>2. Good(n, game[n], History) /\ Undecided(n, game[n], peers[n])
    BY Before
  <2>3. /\ Mates(n, peers'[n]) \in SUBSET Node
        /\ Mates(n, peers[n]) \in SUBSET Mates(n, peers'[n])
        /\ Mates(n, peers[n]) # {}
    BY <1>0, <1>3, MatesOf DEF Mates, TypeOK
  <2>4. game[n].yes \in SUBSET Node
    BY <1>0 DEF TypeOK, Game
  <2>5. Undecided(n, game[n], peers'[n])
    BY <2>2, <2>3, <2>4, LargerTeam DEF Undecided
  <2>6. QED BY <1>0, <2>1, <2>2, <2>5 DEF Complete
<1>6. drops' # 0
  BY <1>1 DEF LinkReturns
<1>7. QED BY <1>0, <1>2, <1>4, <1>5, <1>6 DEF IInv, GoodQueues

LEMMA NextInv == IInv /\ [Next]_vars => IInv'
<1> SUFFICES ASSUME IInv, [Next]_vars PROVE IInv'
  OBVIOUS
<1>1. CASE UNCHANGED vars
  <2>1. History' = History
    BY <1>1 DEF vars, History
  <2>2. TypeOK'
    BY <1>1 DEF vars, IInv, TypeOK
  <2>3. QED BY <1>1, <2>1, <2>2 DEF vars, IInv
<1>2. QED
  BY <1>1, OfferDrawInv, AcceptDrawInv, DeclineDrawInv, CastResignVoteInv, ExpiresInv,
     ReceiveInv, LinkFailsInv, PeerDisconnectsInv, LinkReturnsInv DEF Next

LEMMA Invariance == Spec => []IInv
BY InitInv, NextInv, PTL DEF Spec

\* Games, votes and messages of the players' decisions always have their types.
THEOREM DecisionTypes == Spec => []TypeOK
<1>1. IInv => TypeOK
  BY DEF IInv
<1>2. QED BY <1>1, Invariance, PTL

\* Whatever offers and answers cross or get lost, no game ends in a draw that a
\* player of one side has not offered and one of the other side accepted.
THEOREM DrawsAreAgreed == Spec => []DrawNeedsBothSides
<1>1. IInv => DrawNeedsBothSides
  BY DEF IInv, Good, Rightful, Agreed, History, DrawNeedsBothSides
<1>2. QED BY <1>1, Invariance, PTL

\* While no connection was lost, a side's game is given up only if the share of
\* its players that the setting asks for has voted for it, for every setting.
THEOREM ResignationsAreVoted == Spec => []ResigningNeedsTheTeam
<1>1. ASSUME IInv, NEW n \in Node, NEW t \in Teams, game[n].result = Other(t), drops = 0
      PROVE  Enough(yes \cap SideOf(t), SideOf(t))
  <2>1. Rightful(History, Other(t)) /\ Other(t) \in Teams /\ Other(Other(t)) = t
    BY <1>1, OtherOther DEF IInv, Good
  <2>2. QED BY <1>1, <2>1 DEF Rightful, GivenUp, History
<1>2. IInv => ResigningNeedsTheTeam
  BY <1>1 DEF ResigningNeedsTheTeam
<1>3. QED BY <1>2, Invariance, PTL

\* No resign vote stays open with enough yes among the connected teammates: a
\* leaving player decides it as well as a vote does.
THEOREM EnoughVotesDecide == Spec => []EnoughYesResigns
<1>1. IInv => EnoughYesResigns
  BY DEF IInv, Undecided, Mates, EnoughYesResigns
<1>2. QED BY <1>1, Invariance, PTL

-----------------------------------------------------------------------------
(* While no link fails, what one player decides reaches everyone.          *)

Holds(q, msg) == \E i \in 1..Len(q) : q[i] = msg

GivesUp(p) == GameOver(Other(Team[p]))
VotesYes   == Plain("resign_vote")

Channels == [Node \X Node -> Seq(Message)]

\* p has given up for its side, and everyone is out of the game or will hear it.
Given(p) ==
    \A n \in Node : game[n].result # None \/ Holds(net[<<p, n>>], GivesUp(p))

ResignationsSpread ==
    /\ \A p, n \in Node : Holds(net[<<p, n>>], GivesUp(p)) => Given(p)
    /\ \A n \in Node : game[n].result \in Teams => \E p \in Node : Given(p)

\* p's vote is known to n, or will be, or n is out of the game.
Counted(p, n) ==
    \/ game[n].result # None
    \/ p \in game[n].yes
    \/ Holds(net[<<p, n>>], VotesYes)

VotesSpread ==
    /\ \A p \in yes : \A n \in SideOf(Team[p]) : Counted(p, n)
    /\ \A n \in Node : game[n].yes # {} => game[n].open

\* With the types, inductive.
SpreadInv ==
    drops = 0 => /\ ResignationsSpread
                 /\ expiries = 0 => VotesSpread

\* n's game g after it handled msg from p takes notice of it.
Noticed(p, n, g, msg) ==
    /\ msg = GivesUp(p) => g.result # None
    /\ msg = VotesYes /\ Team[p] = Team[n] => g.result # None \/ p \in g.yes

\* The queues, of which n may have handled a message and now has game g.
Forwarded(n, g, queues) ==
    /\ queues \in Channels
    /\ \A p, k \in Node : \A msg \in {GivesUp(p), VotesYes} :
          /\ Holds(queues[<<p, k>>], GivesUp(p)) => Holds(net[<<p, k>>], GivesUp(p))
          /\ Holds(net[<<p, k>>], msg) =>
                Holds(queues[<<p, k>>], msg) \/ (k = n /\ Noticed(p, n, g, msg))

\* A game goes from g to r.game: over games stay over, yes votes stay.
Proceeds(n, g, r) ==
    /\ r.game \in Game
    /\ r.out \in Seq(Message)
    /\ g.result # None => r.game.result = g.result
    /\ r.game.result = None => g.yes \subseteq r.game.yes
    /\ (g.yes # {} => g.open) => (r.game.yes # {} => r.game.open)
    /\ Holds(r.out, GivesUp(n)) => r.game.result # None

\* ... and what n decides for its side it announces.
Announces(n, g, r) ==
    r.game.result \in Teams => g.result \in Teams \/ Holds(r.out, GivesUp(n))

LEMMA HoldsOne ==
    ASSUME NEW m, NEW msg
    PROVE  Holds(<<m>>, msg) <=> m = msg
BY DEF Holds

LEMMA HoldsNothing ==
    ASSUME NEW msg
    PROVE  ~Holds(<<>>, msg)
BY DEF Holds

LEMMA HoldsBoth ==
    ASSUME NEW a \in Seq(Message), NEW b \in Seq(Message), NEW msg
    PROVE  Holds(a \o b, msg) <=> Holds(a, msg) \/ Holds(b, msg)
<1>1. /\ Len(a \o b) = Len(a) + Len(b) /\ Len(a) \in Nat /\ Len(b) \in Nat
      /\ \A i \in 1..(Len(a) + Len(b)) :
            (a \o b)[i] = IF i <= Len(a) THEN a[i] ELSE b[i - Len(a)]
  BY ConcatProperties
<1>2. ASSUME NEW i \in 1..(Len(a) + Len(b)) PROVE (a \o b)[i] = msg => Holds(a, msg) \/ Holds(b, msg)
  <2>1. i <= Len(a) => i \in 1..Len(a)
    BY <1>1
  <2>2. ~(i <= Len(a)) => i - Len(a) \in 1..Len(b)
    BY <1>1
  <2>3. QED BY <1>1, <2>1, <2>2 DEF Holds
<1>3. ASSUME NEW i \in 1..Len(a) PROVE i \in 1..(Len(a) + Len(b)) /\ (a \o b)[i] = a[i]
  BY <1>1
<1>4. ASSUME NEW i \in 1..Len(b)
      PROVE  Len(a) + i \in 1..(Len(a) + Len(b)) /\ (a \o b)[Len(a) + i] = b[i]
  <2>1. /\ Len(a) + i \in 1..(Len(a) + Len(b)) /\ ~(Len(a) + i <= Len(a))
        /\ (Len(a) + i) - Len(a) = i
    BY <1>1
  <2>2. QED BY <1>1, <2>1
<1>5. QED BY <1>1, <1>2, <1>3, <1>4 DEF Holds

LEMMA HoldsRest ==
    ASSUME NEW q \in Seq(Message), q # <<>>, NEW msg
    PROVE  /\ Holds(q, msg) => msg = Head(q) \/ Holds(Tail(q), msg)
           /\ Holds(Tail(q), msg) => Holds(q, msg)
<1>1. /\ Len(q) \in Nat /\ Len(q) # 0 /\ Head(q) = q[1]
      /\ Len(Tail(q)) = Len(q) - 1
      /\ \A i \in 1..Len(Tail(q)) : Tail(q)[i] = q[i + 1]
  BY HeadTailProperties, EmptySeq
<1>2. ASSUME NEW i \in 1..Len(q), i # 1
      PROVE  i - 1 \in 1..Len(Tail(q)) /\ Tail(q)[i - 1] = q[i]
  <2>1. i - 1 \in 1..Len(Tail(q)) /\ (i - 1) + 1 = i
    BY <1>1, <1>2
  <2>2. QED BY <1>1, <2>1
<1>3. ASSUME NEW i \in 1..Len(Tail(q)) PROVE i + 1 \in 1..Len(q)
  BY <1>1
<1>4. QED BY <1>1, <1>2, <1>3 DEF Holds

LEMMA SentHolds ==
    ASSUME NEW queues \in Channels, NEW n \in Node, NEW to \in SUBSET (Node \ {n}),
           NEW out \in Seq(Message), up = Links,
           NEW p \in Node, NEW k \in Node, NEW msg
    PROVE  /\ Sent(queues, n, to, out) \in Channels
           /\ Holds(Sent(queues, n, to, out)[<<p, k>>], msg) <=>
                  \/ Holds(queues[<<p, k>>], msg)
                  \/ p = n /\ k \in to /\ Holds(out, msg)
<1>1. \A i \in to : {n, i} \in up
  BY PairIsLink
<1>2. ASSUME NEW c \in Node \X Node
      PROVE  queues[c] \in Seq(Message) /\ queues[c] \o out \in Seq(Message)
  BY ConcatProperties DEF Channels
<1>3. Sent(queues, n, to, out) \in Channels
  BY <1>2 DEF Sent, Channels
<1>4. Sent(queues, n, to, out)[<<p, k>>] =
          IF p = n /\ k \in to THEN queues[<<p, k>>] \o out ELSE queues[<<p, k>>]
  BY <1>1 DEF Sent
<1>5. queues[<<p, k>>] \in Seq(Message)
  BY DEF Channels
<1>6. QED BY <1>3, <1>4, <1>5, HoldsBoth

-----------------------------------------------------------------------------
(* The operators on games.                                                 *)

LEMMA SilentProceeds ==
    ASSUME NEW n, NEW g \in Game, NEW t \in Game, t.result = g.result,
           t.yes = g.yes, t.open = g.open
    PROVE  Proceeds(n, g, Silent(t)) /\ Announces(n, g, Silent(t))
<1>1. Silent(t).game = t /\ Silent(t).out = <<>>
  BY DEF Silent
<1>2. QED BY <1>1, EmptySeq, HoldsNothing DEF Proceeds, Announces

LEMMA EndGameEnds ==
    ASSUME NEW g \in Game, NEW result \in {"draw"} \cup Teams
    PROVE  /\ EndGame(g, result) \in Game
           /\ EndGame(g, result).result = result
           /\ EndGame(g, result).yes = {}
           /\ result # None
<1> DEFINE a == [g EXCEPT !.result = result]
           b == [a EXCEPT !.open = FALSE]
           e == [b EXCEPT !.yes = {}]
<1>1. a \in Game
  BY DEF Game
<1>2. b \in Game
  <2> HIDE DEF a
  <2> QED BY <1>1 DEF Game
<1>3. e \in Game /\ e.yes = {}
  <2> HIDE DEF b
  <2> QED BY <1>2 DEF Game
<1>4. e.result = result
  BY DEF Game
<1>5. EndGame(g, result) = e
  BY DEF EndGame
<1> HIDE DEF e
<1>6. QED BY <1>3, <1>4, <1>5, OtherOther

LEMMA EndProceeds ==
    ASSUME NEW n \in Node, NEW g \in Game, g.result = None,
           NEW result \in {"draw"} \cup Teams
    PROVE  /\ Proceeds(n, g, EndAndAnnounce(g, result))
           /\ result = Other(Team[n]) \/ result = "draw" =>
                  Announces(n, g, EndAndAnnounce(g, result))
<1> DEFINE r == EndAndAnnounce(g, result)
<1>1. r.game = EndGame(g, result) /\ r.out = <<GameOver(result)>>
  BY DEF EndAndAnnounce
<1>2. GameOver(result) \in Message
  BY DEF GameOver, Message
<1>3. r.out \in Seq(Message)
  BY <1>1, <1>2, OneMessage
<1>4. result = Other(Team[n]) => Holds(r.out, GivesUp(n))
  BY <1>1, HoldsOne DEF GivesUp
<1> HIDE DEF r
<1>5. Proceeds(n, g, r)
  BY <1>1, <1>3, EndGameEnds DEF Proceeds
<1>6. result = Other(Team[n]) \/ result = "draw" => Announces(n, g, r)
  BY <1>1, <1>4, EndGameEnds, OtherOther DEF Announces
<1>7. QED BY <1>5, <1>6 DEF r

LEMMA CheckResignProceeds ==
    ASSUME NEW n \in Node, NEW g \in Game, NEW ps
    PROVE  /\ Proceeds(n, g, CheckResign(n, g, ps))
           /\ Announces(n, g, CheckResign(n, g, ps))
<1>1. Other(Team[n]) \in Teams
  BY OtherOther
<1>2. QED BY <1>1, EndProceeds, SilentProceeds DEF CheckResign

LEMMA AddYesProceeds ==
    ASSUME NEW n \in Node, NEW g \in Game, g.result = None, NEW p \in Node, NEW ps
    PROVE  /\ Proceeds(n, g, CheckResign(n, AddYes(g, p), ps))
           /\ Announces(n, g, CheckResign(n, AddYes(g, p), ps))
           /\ \/ CheckResign(n, AddYes(g, p), ps).game.result # None
              \/ p \in CheckResign(n, AddYes(g, p), ps).game.yes
<1> DEFINE a == [g EXCEPT !.open = TRUE]
           b == [a EXCEPT !.yes = @ \cup {p}]
           r == CheckResign(n, b, ps)
<1>1. a \in Game /\ a.yes = g.yes /\ a.open /\ a.result = None
  BY DEF Game
<1>2. b \in Game /\ b.yes = g.yes \cup {p} /\ b.open /\ b.result = None
  <2> HIDE DEF a
  <2> QED BY <1>1 DEF Game
<1>3. AddYes(g, p) = b
  BY DEF AddYes
<1> HIDE DEF b
<1>4. Proceeds(n, b, r) /\ Announces(n, b, r)
  BY <1>2, CheckResignProceeds
<1> HIDE DEF r
<1>5. /\ Proceeds(n, g, r) /\ Announces(n, g, r)
      /\ r.game.result # None \/ p \in r.game.yes
  BY <1>2, <1>4 DEF Proceeds, Announces
<1>6. QED BY <1>3, <1>5 DEF r

LEMMA OfferProceeds ==
    ASSUME NEW n \in Node, NEW g \in Game, NEW t \in Teams \cup {None},
           NEW out \in Seq(Message), ~Holds(out, GivesUp(n))
    PROVE  /\ Proceeds(n, g, [game |-> [g EXCEPT !.offer = t], out |-> out])
           /\ Announces(n, g, [game |-> [g EXCEPT !.offer = t], out |-> out])
<1> DEFINE b == [g EXCEPT !.offer = t]
<1>1. b \in Game /\ b.result = g.result /\ b.yes = g.yes /\ b.open = g.open
  BY DEF Game
<1> HIDE DEF b
<1>2. /\ Proceeds(n, g, [game |-> b, out |-> out])
      /\ Announces(n, g, [game |-> b, out |-> out])
  BY <1>1 DEF Proceeds, Announces
<1>3. QED BY <1>2 DEF b

LEMMA Different ==
    ASSUME NEW p
    PROVE  /\ GivesUp(p) # VotesYes
           /\ GivesUp(p) # Plain("draw_offer") /\ GivesUp(p) # Plain("draw_response")
           /\ GivesUp(p).type = "game_over" /\ GivesUp(p).result = Other(Team[p])
           /\ VotesYes.type = "resign_vote"
<1>1. GivesUp(p).type = "game_over" /\ GivesUp(p).result = Other(Team[p])
  BY DEF GivesUp, GameOver
<1>2. \A t : Plain(t).type = t
  BY DEF Plain
<1>3. QED BY <1>1, <1>2 DEF VotesYes

\* A message handled is taken notice of, and a side's game is given up on n's
\* own count or because the sender has given up.
LEMMA HandledProceeds ==
    ASSUME NEW n \in Node, NEW g \in Game, NEW ps, NEW p \in Node, NEW msg \in Message
    PROVE  /\ Proceeds(n, g, Handled(n, g, ps, p, msg))
           /\ Noticed(p, n, Handled(n, g, ps, p, msg).game, msg)
           /\ \/ Announces(n, g, Handled(n, g, ps, p, msg))
              \/ msg = GivesUp(p)
<1> DEFINE r == Handled(n, g, ps, p, msg)
<1>0. msg.type \in {"draw_offer", "draw_response", "resign_vote", "game_over"}
  BY DEF Message
<1>1. Proceeds(n, g, Silent(g)) /\ Announces(n, g, Silent(g)) /\ Silent(g).game = g
  BY SilentProceeds DEF Silent
<1>2. ASSUME NEW t \in Teams \cup {None}
      PROVE  /\ Proceeds(n, g, Silent([g EXCEPT !.offer = t]))
             /\ Announces(n, g, Silent([g EXCEPT !.offer = t]))
  BY EmptySeq, HoldsNothing, OfferProceeds DEF Silent
<1>3. CASE msg.type = "draw_offer"
  <2>1. Noticed(p, n, r.game, msg)
    BY <1>3, Different DEF Noticed
  <2>2. Team[p] \in Teams
    BY OtherOther
  <2>3. QED BY <1>1, <1>2, <1>3, <2>1, <2>2 DEF Handled, HandleDrawOffer
<1>4. CASE msg.type = "draw_response"
  <2>1. Noticed(p, n, r.game, msg)
    BY <1>4, Different DEF Noticed
  <2>2. QED BY <1>2, <1>4, <2>1 DEF Handled, HandleDrawResponse
<1>5. CASE msg.type = "resign_vote"
  <2>1. r = HandleResignVote(n, g, ps, p) /\ msg # GivesUp(p)
    BY <1>5, Different DEF Handled
  <2>2. CASE g.result = None /\ Team[p] = Team[n] /\ p \notin g.yes
    BY <2>1, <2>2, AddYesProceeds DEF HandleResignVote, Noticed
  <2>3. CASE ~(g.result = None /\ Team[p] = Team[n] /\ p \notin g.yes)
    BY <1>1, <2>1, <2>3 DEF HandleResignVote, Noticed
  <2>4. QED BY <2>2, <2>3
<1>6. CASE msg.type = "game_over"
  <2>1. r = Silent(HandleGameOver(g, p, msg)) /\ msg # VotesYes
    BY <1>6, Different DEF Handled
  <2>2. msg.result \in {"draw"} \cup Teams /\ msg = GameOver(msg.result)
    BY <1>6 DEF Message, GameOver
  <2>3. CASE RejectGameOver(g, p, msg.result)
    <3>1. r = Silent(g)
      BY <2>1, <2>3 DEF HandleGameOver
    <3>2. msg = GivesUp(p) => g.result # None
      BY <2>3, Different, OtherOther DEF RejectGameOver
    <3>3. QED BY <1>1, <2>1, <3>1, <3>2 DEF Noticed
  <2>4. CASE ~RejectGameOver(g, p, msg.result)
    <3>1. r.game = EndGame(g, msg.result) /\ r.out = <<>>
      BY <2>1, <2>4 DEF HandleGameOver, Silent
    <3>2. g.result = None /\ (msg.result \in Teams => msg.result = Other(Team[p]))
      BY <2>4 DEF RejectGameOver
    <3>3. msg.result \in Teams => msg = GivesUp(p)
      BY <2>2, <3>2 DEF GivesUp
    <3>4. /\ r.game \in Game /\ r.game.result = msg.result
          /\ r.game.yes = {} /\ r.game.result # None
      <4>1. /\ EndGame(g, msg.result) \in Game /\ EndGame(g, msg.result).yes = {}
            /\ EndGame(g, msg.result).result = msg.result /\ msg.result # None
        BY <2>2, EndGameEnds
      <4>2. QED BY <3>1, <4>1
    <3> HIDE DEF r
    <3>5. Proceeds(n, g, r)
      BY <3>1, <3>2, <3>4, EmptySeq, HoldsNothing DEF Proceeds
    <3>6. msg.result \notin Teams => Announces(n, g, r)
      BY <3>4 DEF Announces
    <3>7. QED BY <2>1, <3>3, <3>4, <3>5, <3>6 DEF Noticed, r
  <2>5. QED BY <2>3, <2>4
<1>7. QED BY <1>0, <1>3, <1>4, <1>5, <1>6

-----------------------------------------------------------------------------
(* The steps.                                                              *)

\* Whom a vote cast in this step may be missing from.
NewVotesSent(n, g, queues) ==
    \A p \in yes' \ yes :
        /\ p = n
        /\ g.result # None \/ n \in g.yes
        /\ \A k \in SideOf(Team[n]) \ {n} : Holds(queues[<<n, k>>], VotesYes)

LEMMA StepSpreads ==
    ASSUME IInv, SpreadInv, drops = 0, drops' = drops, NEW n \in Node, NEW r,
           NEW queues, Do(n, r, queues, peers[n]),
           Proceeds(n, game[n], r), Forwarded(n, r.game, queues),
           \/ Announces(n, game[n], r)
           \/ \E p \in Node : Holds(net[<<p, n>>], GivesUp(p)),
           NewVotesSent(n, r.game, queues), expiries' = expiries
    PROVE  SpreadInv'
<1>1. /\ up = Links /\ peers[n] = Node \ {n}
      /\ game \in [Node -> Game]
      /\ ResignationsSpread /\ (expiries = 0 => VotesSpread)
  BY Before DEF IInv, TypeOK, Complete, History, SpreadInv
<1>2. /\ game' = [game EXCEPT ![n] = r.game]
      /\ net' = Sent(queues, n, Node \ {n}, r.out)
      /\ \A k \in Node : game'[k] = IF k = n THEN r.game ELSE game[k]
  BY <1>1 DEF Do
<1>3. ASSUME NEW p \in Node, NEW k \in Node, NEW msg
      PROVE  Holds(net'[<<p, k>>], msg) <=>
                 \/ Holds(queues[<<p, k>>], msg)
                 \/ p = n /\ k # n /\ Holds(r.out, msg)
  <2> DEFINE to == Node \ {n}
  <2>1. queues \in Channels /\ r.out \in Seq(Message) /\ to \in SUBSET (Node \ {n})
    BY DEF Proceeds, Forwarded
  <2>2. k \in to <=> k # n
    OBVIOUS
  <2>3. net' = Sent(queues, n, to, r.out)
    BY <1>2
  <2> HIDE DEF to
  <2>4. Holds(Sent(queues, n, to, r.out)[<<p, k>>], msg) <=>
            \/ Holds(queues[<<p, k>>], msg)
            \/ p = n /\ k \in to /\ Holds(r.out, msg)
    BY <1>1, <2>1, SentHolds
  <2>5. QED BY <2>2, <2>3, <2>4
<1>4. \A k \in Node : game[k].result # None => game'[k].result # None
  BY <1>2 DEF Proceeds
<1>5. ASSUME NEW p \in Node, Given(p) PROVE Given(p)'
  <2> SUFFICES ASSUME NEW k \in Node, game'[k].result = None
               PROVE  Holds(net'[<<p, k>>], GivesUp(p))
    BY DEF Given
  <2>1. Holds(net[<<p, k>>], GivesUp(p))
    BY <1>4, <1>5 DEF Given
  <2>2. Holds(queues[<<p, k>>], GivesUp(p))
    BY <1>2, <2>1 DEF Forwarded, Noticed
  <2>3. QED BY <1>3, <2>2
<1>6. ASSUME Holds(r.out, GivesUp(n)) PROVE Given(n)'
  <2>1. r.game.result # None
    BY <1>6 DEF Proceeds
  <2>2. QED BY <1>2, <1>3, <1>6, <2>1 DEF Given
<1>7. ResignationsSpread'
  <2>1. ASSUME NEW p \in Node, NEW k \in Node, Holds(net'[<<p, k>>], GivesUp(p))
        PROVE  Given(p)'
    <3>1. CASE Holds(queues[<<p, k>>], GivesUp(p))
      BY <1>1, <1>5, <3>1 DEF Forwarded, ResignationsSpread
    <3>2. QED BY <1>3, <1>6, <2>1, <3>1
  <2>2. ASSUME NEW k \in Node, game'[k].result \in Teams
        PROVE  \E p \in Node : Given(p)'
    <3>1. CASE game[k].result \in Teams
      BY <1>1, <1>5, <3>1 DEF ResignationsSpread
    <3>2. CASE k = n /\ Holds(r.out, GivesUp(n))
      BY <1>6, <3>2
    <3>3. CASE \E p \in Node : Holds(net[<<p, n>>], GivesUp(p))
      BY <1>1, <1>5, <3>3 DEF ResignationsSpread
    <3>4. QED BY <1>2, <2>2, <3>1, <3>2, <3>3 DEF Announces
  <2>3. QED BY <2>1, <2>2 DEF ResignationsSpread
<1>8. ASSUME expiries' = 0 PROVE VotesSpread'
  <2>1. VotesSpread
    BY <1>1, <1>8
  <2>2. ASSUME NEW p \in Node, NEW k \in Node, Team[k] = Team[p], Counted(p, k)
        PROVE  Counted(p, k)'
    <3>1. SUFFICES ASSUME game'[k].result = None, p \notin game'[k].yes
                   PROVE  Holds(net'[<<p, k>>], VotesYes)
      BY DEF Counted
    <3>2. game[k].result = None /\ p \notin game[k].yes
      BY <1>2, <1>4, <3>1 DEF Proceeds
    <3>3. Holds(net[<<p, k>>], VotesYes)
      BY <2>2, <3>2 DEF Counted
    <3>4. Holds(queues[<<p, k>>], VotesYes)
      BY <1>2, <2>2, <3>1, <3>3 DEF Forwarded, Noticed
    <3>5. QED BY <1>3, <3>4
  <2>3. ASSUME NEW p \in yes', NEW k \in SideOf(Team[p]) PROVE Counted(p, k)'
    <3>1. k \in Node /\ Team[k] = Team[p]
      BY DEF SideOf
    <3>2. yes \subseteq Node
      BY DEF IInv, TypeOK
    <3>3. CASE p \in yes
      BY <2>1, <2>2, <3>1, <3>2, <3>3 DEF VotesSpread
    <3>4. CASE p \notin yes
      <4>1. /\ p = n /\ (r.game.result # None \/ n \in r.game.yes)
            /\ k # n => Holds(queues[<<n, k>>], VotesYes)
        BY <3>4 DEF NewVotesSent
      <4>2. QED BY <1>2, <1>3, <3>1, <4>1 DEF Counted
    <3>5. QED BY <3>3, <3>4
  <2>4. \A k \in Node : game'[k].yes # {} => game'[k].open
    BY <1>2, <2>1 DEF VotesSpread, Proceeds
  <2>5. QED BY <2>3, <2>4 DEF VotesSpread
<1>9. QED BY <1>7, <1>8 DEF SpreadInv

\* Nothing is taken out of the queues in this step.
LEMMA NetForwarded ==
    ASSUME IInv, NEW n, NEW g
    PROVE  Forwarded(n, g, net)
BY DEF IInv, TypeOK, Channels, Forwarded

LEMMA NothingNew ==
    ASSUME NEW n, NEW g, NEW queues, yes' = yes
    PROVE  NewVotesSent(n, g, queues)
BY DEF NewVotesSent

LEMMA SpreadNext == IInv /\ SpreadInv /\ [Next]_vars => SpreadInv'
<1> SUFFICES ASSUME IInv, SpreadInv, [Next]_vars PROVE SpreadInv'
  OBVIOUS
<1>0. CASE drops' # 0
  BY <1>0 DEF SpreadInv
<1>a. CASE drops' = 0
  <2>0. /\ game \in [Node -> Game] /\ net \in Channels /\ yes \in SUBSET Node
        /\ drops \in Nat /\ expiries \in Nat
    BY DEF IInv, TypeOK, Channels
  <2>1. ASSUME NEW n \in Node, OfferDraw(n) PROVE SpreadInv'
    <3> DEFINE r == [game |-> [game[n] EXCEPT !.offer = Team[n]],
                     out  |-> <<Plain("draw_offer")>>]
    <3>1. Plain("draw_offer") \in Message /\ Team[n] \in Teams \cup {None}
      BY OtherOther DEF Plain, Message
    <3>2. <<Plain("draw_offer")>> \in Seq(Message)
      BY <3>1, OneMessage
    <3>3. ~Holds(<<Plain("draw_offer")>>, GivesUp(n))
      BY HoldsOne, Different
    <3>4. Proceeds(n, game[n], r) /\ Announces(n, game[n], r)
      BY <2>0, <3>1, <3>2, <3>3, OfferProceeds
    <3>5. /\ Do(n, r, net, peers[n])
          /\ drops' = drops /\ expiries' = expiries /\ yes' = yes
      BY <2>1 DEF OfferDraw
    <3> HIDE DEF r
    <3>6. QED BY <1>a, <3>4, <3>5, NetForwarded, NothingNew, StepSpreads
  <2>2. ASSUME NEW n \in Node, AcceptDraw(n) PROVE SpreadInv'
    <3> DEFINE g == [game[n] EXCEPT !.offer = None]
               r == EndAndAnnounce(g, "draw")
    <3>1. g \in Game /\ g.result = None /\ g.yes = game[n].yes /\ g.open = game[n].open
      BY <2>0, <2>2 DEF AcceptDraw, MayAnswer, Game
    <3>2. game[n].result = None
      BY <2>2 DEF AcceptDraw, MayAnswer
    <3>3. Do(n, r, net, peers[n]) /\ drops' = drops /\ expiries' = expiries /\ yes' = yes
      BY <2>2 DEF AcceptDraw
    <3> HIDE DEF g
    <3>4. Proceeds(n, g, r) /\ Announces(n, g, r)
      BY <3>1, EndProceeds
    <3> HIDE DEF r
    <3>5. Proceeds(n, game[n], r) /\ Announces(n, game[n], r)
      BY <3>1, <3>2, <3>4 DEF Proceeds, Announces
    <3>6. QED BY <1>a, <3>3, <3>5, NetForwarded, NothingNew, StepSpreads
  <2>3. ASSUME NEW n \in Node, DeclineDraw(n) PROVE SpreadInv'
    <3> DEFINE r == [game |-> [game[n] EXCEPT !.offer = None],
                     out  |-> <<Plain("draw_response")>>]
    <3>1. Plain("draw_response") \in Message
      BY DEF Plain, Message
    <3>2. <<Plain("draw_response")>> \in Seq(Message)
      BY <3>1, OneMessage
    <3>3. ~Holds(<<Plain("draw_response")>>, GivesUp(n))
      BY HoldsOne, Different
    <3>4. Proceeds(n, game[n], r) /\ Announces(n, game[n], r)
      BY <2>0, <3>2, <3>3, OfferProceeds
    <3>5. /\ Do(n, r, net, peers[n])
          /\ drops' = drops /\ expiries' = expiries /\ yes' = yes
      BY <2>3 DEF DeclineDraw
    <3> HIDE DEF r
    <3>6. QED BY <1>a, <3>4, <3>5, NetForwarded, NothingNew, StepSpreads
  <2>4. ASSUME NEW n \in Node, CastResignVote(n) PROVE SpreadInv'
    <3> DEFINE mates  == {p \in peers[n] : Team[p] = Team[n]}
               r      == CheckResign(n, AddYes(game[n], n), peers[n])
               queues == Sent(net, n, mates, <<VotesYes>>)
    <3>1. /\ Do(n, r, queues, peers[n]) /\ yes' = yes \cup {n}
          /\ drops' = drops /\ expiries' = expiries /\ game[n].result = None
      BY <2>4 DEF CastResignVote, VotesYes
    <3>2. /\ Proceeds(n, game[n], r) /\ Announces(n, game[n], r)
          /\ r.game.result # None \/ n \in r.game.yes
      BY <2>0, <3>1, AddYesProceeds
    <3>3. up = Links /\ peers[n] = Node \ {n}
      BY <1>a, <3>1, Before DEF IInv, Complete, History
    <3>4. mates \in SUBSET (Node \ {n}) /\ mates = SideOf(Team[n]) \ {n}
      BY <3>3 DEF SideOf
    <3>5. <<VotesYes>> \in Seq(Message)
      <4>1. VotesYes \in Message
        BY DEF VotesYes, Plain, Message
      <4>2. QED BY <4>1, OneMessage
    <3> HIDE DEF mates, r
    <3>6. ASSUME NEW p \in Node, NEW k \in Node, NEW msg
          PROVE  /\ queues \in Channels
                 /\ Holds(queues[<<p, k>>], msg) <=>
                        \/ Holds(net[<<p, k>>], msg)
                        \/ p = n /\ k \in mates /\ msg = VotesYes
      <4>1. Holds(<<VotesYes>>, msg) <=> msg = VotesYes
        BY HoldsOne
      <4>2. /\ Sent(net, n, mates, <<VotesYes>>) \in Channels
            /\ Holds(Sent(net, n, mates, <<VotesYes>>)[<<p, k>>], msg) <=>
                   \/ Holds(net[<<p, k>>], msg)
                   \/ p = n /\ k \in mates /\ Holds(<<VotesYes>>, msg)
        <5> DEFINE out == <<VotesYes>>
        <5>0. out \in Seq(Message) /\ mates \in SUBSET (Node \ {n}) /\ up = Links /\ net \in Channels
          BY <2>0, <3>3, <3>4, <3>5
        <5> HIDE DEF out
        <5>1. Sent(net, n, mates, out) \in Channels
          BY <5>0, SentHolds
        <5>2. Holds(Sent(net, n, mates, out)[<<p, k>>], msg) <=>
                  \/ Holds(net[<<p, k>>], msg)
                  \/ p = n /\ k \in mates /\ Holds(out, msg)
          BY <5>0, SentHolds
        <5>3. QED BY <5>1, <5>2 DEF out
      <4>3. QED BY <4>1, <4>2
    <3> HIDE DEF queues
    <3>7. Forwarded(n, r.game, queues)
      BY <3>6, Different DEF Forwarded
    <3>8. NewVotesSent(n, r.game, queues)
      <4>1. \A k \in SideOf(Team[n]) \ {n} : k \in Node
        BY DEF SideOf
      <4>2. \A k \in SideOf(Team[n]) \ {n} : Holds(queues[<<n, k>>], VotesYes)
        BY <3>4, <3>6, <4>1
      <4>3. QED BY <3>1, <3>2, <4>2 DEF NewVotesSent
    <3>9. QED BY <1>a, <3>1, <3>2, <3>7, <3>8, StepSpreads
  <2>5. ASSUME NEW n \in Node, ResignVoteExpires(n) PROVE SpreadInv'
    <3>1. /\ expiries' # 0 /\ drops' = drops /\ net' = net
      BY <2>0, <2>5 DEF ResignVoteExpires
    <3>2. \A k \in Node : game'[k].result = game[k].result
      BY <2>0, <2>5 DEF ResignVoteExpires, Game
    <3>3. \A p \in Node : Given(p) => Given(p)'
      BY <3>1, <3>2 DEF Given
    <3>4. ResignationsSpread
      BY <1>a, <3>1 DEF SpreadInv
    <3>5. ResignationsSpread'
      BY <3>1, <3>2, <3>3, <3>4 DEF ResignationsSpread
    <3>6. QED BY <3>1, <3>5 DEF SpreadInv
  <2>6. ASSUME NEW n \in Node, NEW p \in Node, Receive(p, n) PROVE SpreadInv'
    <3> DEFINE msg    == Head(net[<<p, n>>])
               r      == Handled(n, game[n], peers[n], p, msg)
               queues == [net EXCEPT ![<<p, n>>] = Tail(@)]
    <3>1. /\ Do(n, r, queues, peers[n]) /\ net[<<p, n>>] # <<>>
          /\ drops' = drops /\ expiries' = expiries /\ yes' = yes
      BY <2>6 DEF Receive
    <3>2. net[<<p, n>>] \in Seq(Message)
      BY <2>0 DEF Channels
    <3>3. msg \in Message /\ Tail(net[<<p, n>>]) \in Seq(Message)
      BY <3>1, <3>2, HeadTailProperties
    <3>4. Holds(net[<<p, n>>], msg)
      BY <3>1, <3>2, HeadTailProperties, EmptySeq DEF Holds
    <3>5. queues \in Channels
      BY <2>0, <3>3 DEF Channels
    <3>6. \A i, k \in Node : queues[<<i, k>>] =
              IF i = p /\ k = n THEN Tail(net[<<p, n>>]) ELSE net[<<i, k>>]
      BY <2>0 DEF Channels
    <3>7. \A x : /\ Holds(net[<<p, n>>], x) => x = msg \/ Holds(Tail(net[<<p, n>>]), x)
                 /\ Holds(Tail(net[<<p, n>>]), x) => Holds(net[<<p, n>>], x)
      BY <3>1, <3>2, HoldsRest
    <3> HIDE DEF msg, queues
    <3>8. /\ Proceeds(n, game[n], r) /\ Noticed(p, n, r.game, msg)
          /\ Announces(n, game[n], r) \/ msg = GivesUp(p)
      BY <2>0, <3>3, HandledProceeds
    <3> HIDE DEF r
    <3>9. Forwarded(n, r.game, queues)
      BY <3>5, <3>6, <3>7, <3>8 DEF Forwarded
    <3>10. QED BY <1>a, <3>1, <3>4, <3>8, <3>9, NothingNew, StepSpreads
  <2>7. ASSUME NEW l \in MayDrop, LinkFails(l) PROVE SpreadInv'
    BY <1>a, <2>0, <2>7 DEF LinkFails
  <2>8. ASSUME NEW n \in Node, NEW p \in Node, PeerDisconnects(n, p) PROVE SpreadInv'
    <3>1. up = Links /\ peers[n] = Node \ {n}
      BY <1>a, <2>8, Before DEF PeerDisconnects, IInv, Complete, History
    <3>2. QED BY <2>8, <3>1, PairIsLink DEF PeerDisconnects
  <2>9. ASSUME NEW l \in Links, LinkReturns(l) PROVE SpreadInv'
    BY <1>a, <2>9 DEF LinkReturns, IInv
  <2>10. ASSUME UNCHANGED vars PROVE SpreadInv'
    BY <2>10 DEF vars, SpreadInv, ResignationsSpread, VotesSpread, Given, Counted
  <2>11. QED
    BY <2>1, <2>2, <2>3, <2>4, <2>5, <2>6, <2>7, <2>8, <2>9, <2>10 DEF Next
<1>b. QED BY <1>0, <1>a

LEMMA SpreadInit == Init => SpreadInv
<1> SUFFICES ASSUME Init PROVE SpreadInv
  OBVIOUS
<1>1. \A n \in Node : game[n].result = None /\ game[n].yes = {}
  BY DEF Init, NewGame
<1>2. \A p, n \in Node : \A msg : ~Holds(net[<<p, n>>], msg)
  BY HoldsNothing DEF Init
<1>3. QED
  BY <1>1, <1>2, OtherOther
     DEF Init, SpreadInv, ResignationsSpread, VotesSpread

LEMMA SpreadAlways == Spec => []SpreadInv
BY SpreadInit, SpreadNext, Invariance, PTL DEF Spec

\* For any players, sides and settings: when no link has failed and no message
\* is under way, a resignation that one node decided has ended everyone's game.
THEOREM ResignationsReachEveryone == Spec => []ResignationEndsEverywhere
<1>1. ASSUME SpreadInv PROVE ResignationEndsEverywhere
  <2> SUFFICES ASSUME Quiet, NEW k \in Node, game[k].result \in Teams,
                      NEW n \in Node
               PROVE  game[n].result # None
    BY DEF ResignationEndsEverywhere
  <2>1. PICK p \in Node : Given(p)
    BY <1>1 DEF Quiet, SpreadInv, ResignationsSpread
  <2>2. ~Holds(net[<<p, n>>], GivesUp(p))
    BY HoldsNothing DEF Quiet
  <2>3. QED BY <2>1, <2>2 DEF Given
<1>2. QED BY <1>1, SpreadAlways, PTL

\* For any players, sides and settings: votes to resign cast at the same time on
\* different nodes meet.  Once all of a side have voted, no link has failed, no
\* vote ran out and no draw was taken, the game is over on every node.
THEOREM SimultaneousVotesMeet == Spec => []TeamVotesMeet
<1>1. ASSUME IInv, SpreadInv PROVE TeamVotesMeet
  <2> SUFFICES ASSUME Quiet, expiries = 0, accepts = {}, NEW t \in Teams,
                      SideOf(t) # {}, SideOf(t) \subseteq yes
               PROVE  \A n \in Node : game[n].result # None
    BY DEF TeamVotesMeet
  <2>1. PICK m \in SideOf(t) : TRUE
    OBVIOUS
  <2>2. m \in Node /\ Team[m] = t
    BY DEF SideOf
  <2>3. game[m].result # None
    <3>1. SUFFICES ASSUME game[m].result = None PROVE FALSE
      OBVIOUS
    <3>2. \A p \in SideOf(t) : p \in yes /\ Team[p] = t /\ m \in SideOf(Team[p]) /\ p \in Node
      BY <2>2 DEF SideOf
    <3>3. \A p \in SideOf(t) : Counted(p, m)
      BY <1>1, <3>2 DEF Quiet, SpreadInv, VotesSpread
    <3>4. \A p \in SideOf(t) : ~Holds(net[<<p, m>>], VotesYes)
      BY <2>2, <3>2, HoldsNothing DEF Quiet
    <3>5. SideOf(t) \subseteq game[m].yes /\ game[m].open
      <4>1. SideOf(t) \subseteq game[m].yes
        BY <3>1, <3>3, <3>4 DEF Counted
      <4>2. QED BY <1>1, <2>1, <2>2, <4>1 DEF Quiet, SpreadInv, VotesSpread
    <3>6. /\ ~Enough(game[m].yes, Mates(m, peers[m]))
          /\ Mates(m, peers[m]) = SideOf(t)
          /\ game[m].yes \in SUBSET Node
      BY <1>1, <2>2, <3>5, Before, MatesOf
         DEF Undecided, Complete, History, Quiet, Good, Game
    <3>7. Enough(SideOf(t), SideOf(t))
      <4>1. SideOf(t) \in SUBSET Node
        BY DEF SideOf
      <4>2. Cardinality(SideOf(t)) \in Nat
        BY <4>1, SubsetsAreFinite
      <4>3. ASSUME NEW c \in Nat PROVE c * 100 >= Percent * c
        <5>1. Percent \in Nat /\ Percent <= 100 /\ 100 \in Nat
          BY BoundAssumption
        <5>2. c * Percent <= c * 100
          BY <5>1, Times
        <5>3. c * Percent = Percent * c
          BY <5>1
        <5>4. QED BY <5>2, <5>3
      <4>4. QED BY <4>2, <4>3 DEF Enough
    <3>8. QED BY <3>5, <3>6, <3>7, MoreVotes DEF SideOf
  <2>4. game[m].result \in Teams
    <3>1. game[m].result \in {None, "draw"} \cup Teams
      BY <1>1, <2>2 DEF IInv, TypeOK, Game
    <3>2. game[m].result # "draw"
      BY <1>1, <2>2 DEF IInv, Good, Rightful, Agreed, History
    <3>3. QED BY <2>3, <3>1, <3>2
  <2>5. PICK p \in Node : Given(p)
    BY <1>1, <2>2, <2>4 DEF Quiet, SpreadInv, ResignationsSpread
  <2>6. \A n \in Node : ~Holds(net[<<p, n>>], GivesUp(p))
    BY HoldsNothing DEF Quiet
  <2>7. QED BY <2>5, <2>6 DEF Given
<1>2. QED BY <1>1, Invariance, SpreadAlways, PTL

=============================================================================
