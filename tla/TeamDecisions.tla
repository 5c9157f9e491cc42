---------------------------- MODULE TeamDecisions ----------------------------
(***************************************************************************)
(* What the players of a game decide besides moves (core/node.ts and       *)
(* core/resign-vote.ts): draw offers between the sides, and each side's    *)
(* vote to resign.  Either ends the game on the node that decides it, which*)
(* tells the others.  Everyone has the roster and the same game; how moves,*)
(* timeouts and the engine end games is VotingGame's concern.              *)
(***************************************************************************)
EXTENDS Integers, Sequences, FiniteSets

CONSTANTS Node, Team,     \* the players, and the side each is on
          Percent,        \* the setting resignThreshold, in hundredths
          MayOffer,       \* the players that may offer a draw, each once
          MayDrop,        \* the links that may fail
          MaxDrops,       \* bound: how many times they do
          MaxExpiries     \* bound: how many times a resign vote runs out

ASSUME NodeAssumption == IsFiniteSet(Node)
ASSUME TeamAssumption == Team \in [Node -> {"white", "black"}]
ASSUME BoundAssumption ==
    /\ Percent \in 1..100
    /\ MayOffer \subseteq Node
    /\ MayDrop \subseteq SUBSET Node
    /\ {MaxDrops, MaxExpiries} \subseteq Nat

VARIABLES
    game,      \* game[n]: how n's game ended, and what is being decided in it
    peers,     \* peers[n]: the players n has in its peer table
    up,        \* the links that work, as pairs {a, b}
    net,       \* net[<<m, n>>]: messages from m that n has not handled, in order
    offers,    \* the players that offered a draw (history variable)
    accepts,   \* the players that accepted one (history variable)
    yes,       \* the players that voted to resign (history variable)
    drops,     \* how many links have failed
    expiries   \* how many resign votes have run out

vars == <<game, peers, up, net, offers, accepts, yes, drops, expiries>>

Teams == {"white", "black"}
None  == "none"

Other(t) == IF t = "white" THEN "black" ELSE "white"

Game == [result : {None, "draw"} \cup Teams,   \* None in progress; else draw or winner
         offer  : Teams \cup {None},           \* _drawOfferedBy
         open   : BOOLEAN,                     \* a resign vote is open
         yes    : SUBSET Node]                 \* its yes votes

NewGame == [result |-> None, offer |-> None, open |-> FALSE, yes |-> {}]

Links == {l \in SUBSET Node : Cardinality(l) = 2}

Plain(type)      == [type |-> type]
GameOver(result) == [type |-> "game_over", result |-> result]

\* A draw_response is always a refusal: an acceptance is a game_over.
Message == [type : {"draw_offer", "draw_response", "resign_vote"}]
      \cup [type : {"game_over"}, result : {"draw"} \cup Teams]

Sent(queues, n, ps, out) ==
    [c \in Node \X Node |->
        IF c[1] = n /\ c[2] \in ps /\ {n, c[2]} \in up
        THEN queues[c] \o out ELSE queues[c]]

\* n's game becomes r.game, and r.out goes to ps over `queues`.
Do(n, r, queues, ps) ==
    /\ game' = [game EXCEPT ![n] = r.game]
    /\ net' = Sent(queues, n, ps, r.out)

Silent(g) == [game |-> g, out |-> <<>>]

-----------------------------------------------------------------------------
(* Ending the game, and the resign vote.                                   *)

\* endGame: the open resign vote is closed, the draw offer is not looked at again.
EndGame(g, result) == [g EXCEPT !.result = result, !.open = FALSE, !.yes = {}]

\* ... and the others are told, for what they cannot see for themselves.
EndAndAnnounce(g, result) ==
    [game |-> EndGame(g, result), out |-> <<GameOver(result)>>]

\* connectedTeamSize, of a player connected to ps.
TeamSize(n, ps) == Cardinality({n} \cup {p \in ps : Team[p] = Team[n]})

\* Mutant: half the team is enough.
PassesByHalf(votes, size) == size > 0 /\ Cardinality(votes) * 2 >= size

Passes(votes, size) == size > 0 /\ Cardinality(votes) * 100 >= Percent * size

\* Mutant: nothing is announced.
CheckResignSilently(n, g, ps) ==
    IF g.open /\ g.result = None /\ Passes(g.yes, TeamSize(n, ps))
    THEN Silent(EndGame(g, Other(Team[n])))
    ELSE Silent(g)

\* checkResignThreshold and resignOurSide.
CheckResign(n, g, ps) ==
    IF g.open /\ g.result = None /\ Passes(g.yes, TeamSize(n, ps))
    THEN EndAndAnnounce(g, Other(Team[n]))
    ELSE Silent(g)

\* ResignVote.add on the open vote, or on a new one.
AddYes(g, p) == [g EXCEPT !.open = TRUE, !.yes = @ \cup {p}]

-----------------------------------------------------------------------------
(* Messages from a peer p, as n with game g and peers ps handles them.     *)

HandleDrawOffer(g, p) ==
    IF g.result = None THEN [g EXCEPT !.offer = Team[p]] ELSE g

\* Whoever declines, and whichever offer was meant.
HandleDrawResponse(g) == [g EXCEPT !.offer = None]

\* Mutant: the threshold is looked at only when we vote ourselves.
HandleResignVoteUncounted(n, g, ps, p) ==
    IF g.result = None /\ Team[p] = Team[n] /\ p \notin g.yes
    THEN Silent(AddYes(g, p))
    ELSE Silent(g)

HandleResignVote(n, g, ps, p) ==
    IF g.result = None /\ Team[p] = Team[n] /\ p \notin g.yes
    THEN CheckResign(n, AddYes(g, p), ps)
    ELSE Silent(g)

\* rejectGameOver: a draw only from the side it was offered to, a resignation
\* only for the sender's own side.
RejectGameOver(g, p, result) ==
    \/ g.result # None
    \/ result = "draw" /\ (g.offer = None \/ g.offer = Team[p])
    \/ result \in Teams /\ result # Other(Team[p])

HandleGameOver(g, p, msg) ==
    IF RejectGameOver(g, p, msg.result) THEN g ELSE EndGame(g, msg.result)

Handled(n, g, ps, p, msg) ==
    CASE msg.type = "draw_offer"    -> Silent(HandleDrawOffer(g, p))
      [] msg.type = "draw_response" -> Silent(HandleDrawResponse(g))
      [] msg.type = "resign_vote"   -> HandleResignVote(n, g, ps, p)
      [] msg.type = "game_over"     -> Silent(HandleGameOver(g, p, msg))

-----------------------------------------------------------------------------
(* The players.                                                            *)

\* offerDraw, whatever offer there is already.
OfferDraw(n) ==
    /\ game[n].result = None
    /\ n \in MayOffer \ offers
    /\ Do(n, [game |-> [game[n] EXCEPT !.offer = Team[n]],
              out  |-> <<Plain("draw_offer")>>], net, peers[n])
    /\ offers' = offers \cup {n}
    /\ UNCHANGED <<peers, up, accepts, yes, drops, expiries>>

\* Mutant: any offer can be taken, our own side's too.
MayAnswerAny(n) == game[n].result = None /\ game[n].offer # None

\* There is an offer from the other side.
MayAnswer(n) ==
    /\ game[n].result = None
    /\ game[n].offer = Other(Team[n])

AcceptDraw(n) ==
    /\ MayAnswer(n)
    /\ Do(n, EndAndAnnounce([game[n] EXCEPT !.offer = None], "draw"), net, peers[n])
    /\ accepts' = accepts \cup {n}
    /\ UNCHANGED <<peers, up, offers, yes, drops, expiries>>

DeclineDraw(n) ==
    /\ MayAnswer(n)
    /\ Do(n, [game |-> [game[n] EXCEPT !.offer = None],
              out  |-> <<Plain("draw_response")>>], net, peers[n])
    /\ UNCHANGED <<peers, up, offers, accepts, yes, drops, expiries>>

\* castResignVote: only teammates are told, before the threshold is looked at.
CastResignVote(n) ==
    LET mates   == {p \in peers[n] : Team[p] = Team[n]}
        checked == CheckResign(n, AddYes(game[n], n), peers[n])
    IN  /\ game[n].result = None
        /\ n \notin game[n].yes
        /\ Do(n, checked, Sent(net, n, mates, <<Plain("resign_vote")>>), peers[n])
        /\ yes' = yes \cup {n}
        /\ UNCHANGED <<peers, up, offers, accepts, drops, expiries>>

\* The window of n's resign vote runs out.
ResignVoteExpires(n) ==
    /\ game[n].open
    /\ expiries < MaxExpiries
    /\ game' = [game EXCEPT ![n].open = FALSE, ![n].yes = {}]
    /\ expiries' = expiries + 1
    /\ UNCHANGED <<peers, up, net, offers, accepts, yes, drops>>

-----------------------------------------------------------------------------
(* The network.                                                            *)

Receive(p, n) ==
    /\ p \in peers[n]
    /\ net[<<p, n>>] # <<>>
    /\ Do(n, Handled(n, game[n], peers[n], p, Head(net[<<p, n>>])),
          [net EXCEPT ![<<p, n>>] = Tail(@)], peers[n])
    /\ UNCHANGED <<peers, up, offers, accepts, yes, drops, expiries>>

LinkFails(l) ==
    /\ l \in up
    /\ drops < MaxDrops
    /\ up' = up \ {l}
    /\ drops' = drops + 1
    /\ UNCHANGED <<game, peers, net, offers, accepts, yes, expiries>>

\* Mutant: the resign vote is not looked at again.
PeerLeavesQuietly(n, p) ==
    /\ p \in peers[n]
    /\ {n, p} \notin up
    /\ peers' = [peers EXCEPT ![n] = @ \ {p}]
    /\ net' = [net EXCEPT ![<<p, n>>] = <<>>]
    /\ UNCHANGED <<game, up, offers, accepts, yes, drops, expiries>>

\* handlePeerDisconnect: the team is smaller, which may be enough.
PeerDisconnects(n, p) ==
    /\ p \in peers[n]
    /\ {n, p} \notin up
    /\ peers' = [peers EXCEPT ![n] = @ \ {p}]
    /\ Do(n, CheckResign(n, game[n], peers[n] \ {p}),
          [net EXCEPT ![<<p, n>>] = <<>>], peers[n] \ {p})
    /\ UNCHANGED <<up, offers, accepts, yes, drops, expiries>>

\* Two players that lost each other are connected again, on both sides; neither
\* is told of offers or votes it missed.
LinkReturns(l) ==
    /\ l \in Links \ up
    /\ \A a, b \in l : b \notin peers[a]
    /\ up' = up \cup {l}
    /\ peers' = [n \in Node |-> IF n \in l THEN peers[n] \cup (l \ {n}) ELSE peers[n]]
    /\ net' = [c \in Node \X Node |-> IF {c[1], c[2]} = l THEN <<>> ELSE net[c]]
    /\ UNCHANGED <<game, offers, accepts, yes, drops, expiries>>

-----------------------------------------------------------------------------
\* The game has just begun: everyone is connected and nothing is proposed.
Init ==
    /\ game = [n \in Node |-> NewGame]
    /\ peers = [n \in Node |-> Node \ {n}]
    /\ up = Links
    /\ net = [c \in Node \X Node |-> <<>>]
    /\ offers = {} /\ accepts = {} /\ yes = {}
    /\ drops = 0 /\ expiries = 0

Next ==
    \/ \E n \in Node : OfferDraw(n)
    \/ \E n \in Node : AcceptDraw(n)
    \/ \E n \in Node : DeclineDraw(n)
    \/ \E n \in Node : CastResignVote(n)
    \/ \E n \in Node : ResignVoteExpires(n)
    \/ \E n, p \in Node : Receive(p, n)
    \/ \E l \in MayDrop : LinkFails(l)
    \/ \E n, p \in Node : PeerDisconnects(n, p)
    \/ \E l \in Links : LinkReturns(l)

Spec == Init /\ [][Next]_vars

-----------------------------------------------------------------------------
(* Properties.                                                             *)

TypeOK ==
    /\ game \in [Node -> Game]
    /\ peers \in [Node -> SUBSET Node]
    /\ up \subseteq Links
    /\ net \in [Node \X Node -> Seq(Message)]
    /\ {offers, accepts, yes} \subseteq SUBSET Node
    /\ drops \in Nat /\ expiries \in Nat

SideOf(t) == {p \in Node : Team[p] = t}

\* docs/resign-vote.md: the yes votes over the size of the team.
Enough(votes, team) ==
    team # {} /\ Cardinality(votes) * 100 >= Percent * Cardinality(team)

\* README: only the other side can accept a draw.  No game, on any node, ends in
\* a draw unless some player offered it and a player of the other side accepted,
\* whatever offers and answers crossed or were missed.
DrawNeedsBothSides ==
    \A n \in Node : game[n].result = "draw" =>
        \E o \in offers, a \in accepts : Team[a] = Other(Team[o])

\* README: no single player can resign for a side.  While nobody has lost a
\* connection, a side's game is given up only if enough of its players have said
\* yes: no vote is counted twice, for the other side, or out of a smaller team.
ResigningNeedsTheTeam ==
    \A n \in Node : \A t \in Teams :
        game[n].result = Other(t) /\ drops = 0 =>
            Enough(yes \cap SideOf(t), SideOf(t))

\* No vote with enough yes stays open: also when it is a player leaving, and not
\* a vote, that makes it enough.
EnoughYesResigns ==
    \A n \in Node : game[n].open =>
        ~Enough(game[n].yes, SideOf(Team[n]) \cap ({n} \cup peers[n]))

Quiet ==
    /\ drops = 0
    /\ \A c \in Node \X Node : net[c] = <<>>

\* Votes cast at the same time on different nodes meet: once everyone of a side
\* has said yes, no vote ran out and nobody took a draw meanwhile, the game is
\* over for everyone.
TeamVotesMeet ==
    Quiet /\ expiries = 0 /\ accepts = {} => \A t \in Teams :
        SideOf(t) # {} /\ SideOf(t) \subseteq yes
            => \A n \in Node : game[n].result # None

\* A resignation that one node has decided ends the game of every node, even
\* when a draw or the other side's resignation crosses it.
ResignationEndsEverywhere ==
    Quiet /\ (\E n \in Node : game[n].result \in Teams)
        => \A n \in Node : game[n].result # None

=============================================================================
