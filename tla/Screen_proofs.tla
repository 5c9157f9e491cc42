----------------------------- MODULE Screen_proofs -----------------------------
(***************************************************************************)
(* What is under way to the screen brings it to what the node knows: the   *)
(* invariants of Screen, for any number of players, settings, events and   *)
(* clicks.                                                                 *)
(***************************************************************************)
EXTENDS Screen, SequenceTheorems, FiniteSetTheorems, TLAPS

\* A node in the lobby has no vote open, and tells the screen nothing of its phase.
Early == Lobby \cup {"waiting_for_peers"}

Anyone  == Peer \cup {Self}
Windows == [turn : Int, round : Int, votes : SUBSET Anyone]
Resigns == [yes : 0..(Cardinality(Peer) + 1), voted : BOOLEAN]

ResignParts == NoNumber \cup {c.resign : c \in AnySettings}

Stores == [phase : Phase, team : Side \cup {NoSide}, version : Nat, config : AnySettings,
           form : ResignParts, self : BOOLEAN, accepted : SUBSET Anyone, window : Windows,
           resign : Resigns, peers : Peers]

\* A vote is on the screen during a game only.
StoreOK(s) ==
    /\ s \in Stores
    /\ s.window # NoWindow => s.phase = "in_progress" /\ s.window.turn \in Nat
    /\ s.resign # NoResign => s.phase = "in_progress" /\ s.resign.voted /\ s.resign.yes > 0

Nodes == [phase : Phase, team : Side \cup {NoSide}, peers : Peers,
          roster : [Peer -> Side \cup {NoSide}], hs : H!Handshake,
          window : Windows, resign : SUBSET Anyone]

\* ... and open in the node then only; and who is past choosing has a side.
NodeOK(n) ==
    /\ n \in Nodes
    /\ n.window # NoWindow => n.phase = "in_progress" /\ n.window.turn \in Nat
    /\ n.resign # {} => n.phase = "in_progress"
    /\ n.phase # "waiting_for_side" => n.team \in Side

-----------------------------------------------------------------------------
(* What the screen comes to.                                               *)

\* The store, the answers held, whether joining is over, and whether it began.
View(s, g, j, b) == [store |-> s, got |-> g, joined |-> j, begun |-> b]
WithStore(x, s)  == View(s, x.got, x.joined, x.begun)

StateFor == {"side", "ready", "unready"}
Fetched  == {"state", "peers", "config"}
ForJoin(m) == m.type \in Fetched /\ m.for = "join"

Hydrate(x, m) ==
    ApplyConfigSnapshot(SetPeers(ApplySnapshot(x.store, x.got[1].state), x.got[2].peers),
                        m.config)

\* What the screen makes of a message.
Handled(x, m) ==
    CASE m.type \notin Answer -> WithStore(x, OnPush(x.store, m))
      [] m.type = "connected" -> View(x.store, x.got, x.joined, TRUE)
      [] m.type \in {"state", "peers"} /\ m.for = "join" ->
            View(x.store, Append(x.got, m), x.joined, x.begun)
      [] m.type = "config" /\ m.for = "join" -> View(Hydrate(x, m), <<>>, TRUE, x.begun)
      [] m.type = "peers" /\ m.for # "join"  -> WithStore(x, SetPeers(x.store, m.peers))
      [] m.type = "state" /\ m.for # "join"  -> WithStore(x, ApplySnapshot(x.store, m.state))
      [] m.type = "config" /\ m.for # "join" ->
            WithStore(x, SetSelfAccepted(ApplyConfigSnapshot(x.store, m.config), m.seen + 1))
      [] m.type = "done" /\ m.for = "accept" ->
            WithStore(x, IF m.ok THEN SetSelfAccepted(x.store, m.seen) ELSE x.store)
      [] m.type = "done" /\ m.for = "again"  -> WithStore(x, ResetGame(x.store))
      [] m.type = "done" /\ m.for \notin {"accept", "again"} -> x

\* Joining happens once, and nothing is asked for before it is over.
Legal(x, m) ==
    /\ m.type = "connected" => ~ x.begun
    /\ ForJoin(m) => ~ x.joined
    /\ m.type \in {"done"} \cup Fetched /\ ~ ForJoin(m) => x.joined
    /\ m.type = "done" => m.seen \in Nat

IsSeq(ms) == \E S : ms \in Seq(S)

\* Handling ms one by one takes the screen from x to y.
Leads(x, ms, y) ==
    /\ IsSeq(ms)
    /\ \E tr : /\ tr[0] = x /\ tr[Len(ms)] = y
               /\ \A i \in 0..Len(ms) : StoreOK(tr[i].store) /\ (tr[i].joined => y.joined)
               /\ \A i \in 1..Len(ms) : /\ Legal(tr[i - 1], ms[i])
                                        /\ tr[i] = Handled(tr[i - 1], ms[i])

-----------------------------------------------------------------------------
(* The invariant: it will agree with the node, as far as nothing is left to *)
(* ask for.                                                                *)

WindowShown(s, n) == s.window.turn = n.window.turn /\ s.window.votes = n.window.votes

SettingsShown(s, hs) ==
    /\ s.version = hs.version
    /\ s.config.vote = hs.config.vote
    /\ \A p \in s.accepted \cap Peer : hs.accepted[p] >= hs.version

\* All but the vote that is open.
RestShown(s, n) ==
    /\ s.resign.yes = Cardinality(n.resign)
    /\ n.phase \notin Early => s.phase = n.phase /\ s.team = n.team
    /\ SettingsShown(s, n.hs)

GameShown(s, n) == WindowShown(s, n) /\ RestShown(s, n)

PhaseShown(s, n) == s.phase = n.phase /\ s.team = n.team

PeersShown(s, n) ==
    /\ Present(s.peers) = Present(n.peers)
    /\ ~ again => s.peers = n.peers

BringsState(m) == m.type = "done" /\ m.for \in StateFor /\ m.ok
AsksState(q)   == q.ask = "getState" /\ q.for \in StateFor
AsksList(q)    == q.ask = "getPeers" /\ q.for = "refresh"
NewPeer(m)     == m.type = "peer:joined"

StateTold(ms)  == \E i \in 1..Len(ms) : BringsState(ms[i])
PeerTold(ms)   == \E i \in 1..Len(ms) : NewPeer(ms[i])
StateAsked(qs) == \E i \in 1..Len(qs) : AsksState(qs[i])
ListAsked(qs)  == \E i \in 1..Len(qs) : AsksList(qs[i])
ResetAsked(qs) == \E i \in 1..Len(qs) : qs[i].ask = "reset"

\* The phase, or the list of players, is still to be asked for or shown.
StateComes == StateTold(told) \/ StateAsked(asked)
ListComes  == refreshes > 0 \/ PeerTold(told) \/ ListAsked(asked)

\* What the buttons and the timer ask of the main process.
LateRequests ==
    {q \in [ask : {"setTeam"}, for : {"side"}, seen : Nat, team : Side]
           \cup [ask : {"setConfig"}, for : {"propose"}, config : AnySettings, seen : Nat]
           \cup [ask : {"getState", "getPeers", "getConfig", "ready", "unready", "acceptConfig",
                        "castVote", "resign", "reset"},
                 for : StateFor \cup {"refresh", "propose", "accept", "vote", "resign", "again"},
                 seen : Nat] :
        /\ q.ask = "getState" => q.for \in StateFor
        /\ q.ask = "getPeers" => q.for = "refresh"
        /\ q.ask = "getConfig" => q.for = "propose"
        /\ q.ask \in {"ready", "unready", "resign"} => q.for = q.ask
        /\ q.ask = "acceptConfig" => q.for = "accept"
        /\ q.ask = "castVote" => q.for = "vote"
        /\ q.ask = "reset" => q.for = "again"}

AskState  == Request("getState", "join")
AskPeers  == Request("getPeers", "join")
AskConfig == Request("getConfig", "join")
Nobody    == [p \in Peer |-> Gone]

HeldState     == [type |-> "state", for |-> "join", state |-> Snapshot(node)]
HeldPeers(ps) == [type |-> "peers", for |-> "join", peers |-> ps]

\* How far joining is, b: it began; y: what the screen comes to.
Joining(b, y) ==
    /\ ~ joined => ~ b \/ ~ y.joined \/ asked = <<>>
    /\ ~ b => asked = <<>> /\ y.got = <<>> /\ ~ y.joined
    /\ b /\ ~ y.joined =>
          \/ asked = <<AskState, AskPeers, AskConfig>> /\ y.got = <<>>
          \/ asked = <<AskPeers, AskConfig>> /\ y.got = <<HeldState>>
          \/ asked = <<AskConfig>>
             /\ \E ps \in Peers : /\ y.got = <<HeldState, HeldPeers(ps)>>
                                  /\ ~ ListComes => ps = Nobody
    /\ y.joined => y.got = <<>> /\ asked \in Seq(LateRequests) /\ (ResetAsked(asked) => again)
    /\ ~ joined => node.phase = "waiting_for_side" /\ node.team = NoSide
    /\ ~ y.joined /\ ~ ListComes => node.peers = Nobody

Agrees(b, y) ==
    /\ Joining(b, y)
    /\ GameShown(y.store, node)
    /\ ~ StateComes => PhaseShown(y.store, node)
    /\ ~ ListComes => PeersShown(y.store, node)

Now(b) == View(store, got, joined, b)

ScreenInv ==
    /\ NodeOK(node)
    /\ refreshes \in Nat
    /\ \E b \in BOOLEAN : \E y : Leads(Now(b), told, y) /\ Agrees(b, y)

-----------------------------------------------------------------------------
(* Sequences.                                                              *)

LEMMA EmptyIsSeq == IsSeq(<<>>) /\ Len(<<>>) = 0
<1>1. <<>> \in Seq({})
  BY EmptySeq
<1>2. QED BY <1>1, EmptySeq DEF IsSeq

LEMMA OneIsSeq ==
    ASSUME NEW m
    PROVE  IsSeq(<<m>>) /\ Len(<<m>>) = 1 /\ <<m>>[1] = m
<1>1. <<m>> \in Seq({m})
  OBVIOUS
<1>2. QED BY <1>1 DEF IsSeq

LEMMA ConcatIsSeq ==
    ASSUME NEW s, NEW t, IsSeq(s), IsSeq(t)
    PROVE  /\ IsSeq(s \o t)
           /\ Len(s) \in Nat /\ Len(t) \in Nat
           /\ Len(s \o t) = Len(s) + Len(t)
           /\ \A i \in 1..Len(s) : (s \o t)[i] = s[i]
           /\ \A i \in (Len(s) + 1)..(Len(s) + Len(t)) : (s \o t)[i] = t[i - Len(s)]
<1>1. PICK S : s \in Seq(S)
  BY DEF IsSeq
<1>2. PICK T : t \in Seq(T)
  BY DEF IsSeq
<1>3. s \in Seq(S \cup T) /\ t \in Seq(S \cup T)
  BY <1>1, <1>2
<1>4. s \o t \in Seq(S \cup T)
  BY <1>3, ConcatProperties
<1>5. QED BY <1>3, <1>4, ConcatProperties, LenProperties DEF IsSeq

LEMMA TailIsSeq ==
    ASSUME NEW s, IsSeq(s), s # <<>>
    PROVE  /\ IsSeq(Tail(s))
           /\ Len(s) \in Nat /\ Len(s) > 0 /\ Len(Tail(s)) = Len(s) - 1
           /\ Head(s) = s[1]
           /\ \A i \in 1..Len(Tail(s)) : Tail(s)[i] = s[i + 1]
<1>1. PICK S : s \in Seq(S)
  BY DEF IsSeq
<1>2. Tail(s) \in Seq(S)
  BY <1>1, HeadTailProperties
<1>3. QED BY <1>1, <1>2, HeadTailProperties, LenProperties, EmptySeq DEF IsSeq

LEMMA AppendsOne ==
    ASSUME NEW s, IsSeq(s), NEW m
    PROVE  Append(s, m) = s \o <<m>>
<1>1. PICK S : s \in Seq(S)
  BY DEF IsSeq
<1>2. s \in Seq(S \cup {m}) /\ m \in S \cup {m}
  BY <1>1
<1>3. QED BY <1>2, AppendIsConcat

LEMMA AppendedToOne ==
    ASSUME NEW x, NEW m
    PROVE  Append(<<x>>, m) = <<x, m>>
<1> DEFINE s == Append(<<x>>, m)
           t == <<x, m>>
<1>1. <<x>> \in Seq({x, m}) /\ Len(<<x>>) = 1 /\ <<x>>[1] = x
  OBVIOUS
<1>2. t \in Seq({x, m}) /\ Len(t) = 2 /\ t[1] = x /\ t[2] = m
  OBVIOUS
<1>3. s \in Seq({x, m}) /\ Len(s) = 2 /\ s[1] = x /\ s[2] = m
  BY <1>1, AppendProperties
<1> HIDE DEF s, t
<1>4. \A i \in 1..2 : s[i] = t[i]
  BY <1>2, <1>3
<1>5. s = t
  BY <1>2, <1>3, <1>4, SeqEqual
<1>6. QED BY <1>5 DEF s, t

LEMMA AloneAfterNothing ==
    ASSUME NEW m
    PROVE  <<>> \o <<m>> = <<m>>
<1>1. <<m>> \in Seq({m})
  OBVIOUS
<1>2. QED BY <1>1, ConcatEmptySeq

-----------------------------------------------------------------------------
(* Handling messages one by one.                                           *)

LEMMA LeadsNowhere ==
    ASSUME NEW x, StoreOK(x.store)
    PROVE  Leads(x, <<>>, x)
<1> DEFINE tr == [i \in 0..0 |-> x]
<1>1. tr[0] = x
  OBVIOUS
<1> HIDE DEF tr
<1>2. QED BY <1>1, EmptyIsSeq DEF Leads

LEMMA LeadsThere ==
    ASSUME NEW x, NEW y, Leads(x, <<>>, y)
    PROVE  x = y
BY EmptyIsSeq DEF Leads

LEMMA LeadsOK ==
    ASSUME NEW x, NEW ms, NEW y, Leads(x, ms, y)
    PROVE  IsSeq(ms) /\ StoreOK(x.store) /\ StoreOK(y.store) /\ (x.joined => y.joined)
<1>1. Len(ms) \in Nat
  BY LenProperties DEF Leads, IsSeq
<1>2. 0 \in 0..Len(ms) /\ Len(ms) \in 0..Len(ms)
  BY <1>1
<1>3. QED BY <1>2 DEF Leads

LEMMA LeadsByOne ==
    ASSUME NEW x, NEW m, StoreOK(x.store), Legal(x, m), StoreOK(Handled(x, m).store),
           x.joined => Handled(x, m).joined
    PROVE  Leads(x, <<m>>, Handled(x, m))
<1> DEFINE y  == Handled(x, m)
           tr == [i \in 0..1 |-> IF i = 0 THEN x ELSE y]
<1>1. tr[0] = x /\ tr[1] = y
  OBVIOUS
<1>2. \A i \in 0..1 : i = 0 \/ i = 1
  OBVIOUS
<1>3. \A i \in 1..1 : i = 1 /\ i - 1 = 0
  OBVIOUS
<1> HIDE DEF tr
<1>4. \A i \in 0..1 : StoreOK(tr[i].store) /\ (tr[i].joined => y.joined)
  BY <1>1, <1>2
<1>5. \A i \in 1..1 : Legal(tr[i - 1], <<m>>[i]) /\ tr[i] = Handled(tr[i - 1], <<m>>[i])
  BY <1>1, <1>3, OneIsSeq
<1> HIDE DEF y
<1>6. Leads(x, <<m>>, y)
  BY <1>1, <1>4, <1>5, OneIsSeq DEF Leads
<1>7. QED BY <1>6 DEF y

LEMMA LeadsOn ==
    ASSUME NEW x, NEW ms, NEW y, NEW ns, NEW z, Leads(x, ms, y), Leads(y, ns, z)
    PROVE  Leads(x, ms \o ns, z)
<1> DEFINE L == Len(ms)
           K == Len(ns)
<1>0. IsSeq(ms) /\ IsSeq(ns)
  BY DEF Leads
<1>1. /\ IsSeq(ms \o ns) /\ L \in Nat /\ K \in Nat /\ Len(ms \o ns) = L + K
      /\ \A i \in 1..L : (ms \o ns)[i] = ms[i]
      /\ \A i \in (L + 1)..(L + K) : (ms \o ns)[i] = ns[i - L]
  BY <1>0, ConcatIsSeq
<1>2. PICK f : /\ f[0] = x /\ f[L] = y
               /\ \A i \in 0..L : StoreOK(f[i].store) /\ (f[i].joined => y.joined)
               /\ \A i \in 1..L : Legal(f[i - 1], ms[i]) /\ f[i] = Handled(f[i - 1], ms[i])
  BY DEF Leads
<1>3. PICK g : /\ g[0] = y /\ g[K] = z
               /\ \A i \in 0..K : StoreOK(g[i].store) /\ (g[i].joined => z.joined)
               /\ \A i \in 1..K : Legal(g[i - 1], ns[i]) /\ g[i] = Handled(g[i - 1], ns[i])
  BY DEF Leads
<1> HIDE DEF L, K
<1>4. y.joined => z.joined
  BY <1>1, <1>3
<1> DEFINE h == [i \in 0..(L + K) |-> IF i <= L THEN f[i] ELSE g[i - L]]
<1>5. \A i \in 0..L : h[i] = f[i]
  BY <1>1
<1>6. \A i \in 0..K : h[L + i] = g[i]
  BY <1>1, <1>2, <1>3
<1> HIDE DEF h
<1>7. h[0] = x /\ h[L + K] = z
  BY <1>1, <1>2, <1>3, <1>5, <1>6
<1>8. ASSUME NEW i \in 0..(L + K)
      PROVE  StoreOK(h[i].store) /\ (h[i].joined => z.joined)
  <2>1. CASE i <= L
    BY <1>1, <1>2, <1>4, <1>5, <2>1
  <2>2. CASE ~ (i <= L)
    <3>1. i - L \in 0..K /\ L + (i - L) = i
      BY <1>1, <2>2
    <3>2. h[i] = g[i - L]
      BY <1>6, <3>1
    <3>3. QED BY <1>3, <3>1, <3>2
  <2>3. QED BY <2>1, <2>2
<1>9. ASSUME NEW i \in 1..(L + K)
      PROVE  Legal(h[i - 1], (ms \o ns)[i]) /\ h[i] = Handled(h[i - 1], (ms \o ns)[i])
  <2>1. CASE i <= L
    <3>1. i \in 1..L /\ i \in 0..L /\ i - 1 \in 0..L
      BY <1>1, <2>1
    <3>2. h[i] = f[i] /\ h[i - 1] = f[i - 1] /\ (ms \o ns)[i] = ms[i]
      BY <1>1, <1>5, <3>1
    <3>3. QED BY <1>2, <3>1, <3>2
  <2>2. CASE ~ (i <= L)
    <3>1. /\ i - L \in 1..K /\ i - L \in 0..K /\ (i - L) - 1 \in 0..K
          /\ L + (i - L) = i /\ L + ((i - L) - 1) = i - 1
          /\ i \in (L + 1)..(L + K)
      BY <1>1, <2>2
    <3>2. h[i] = g[i - L] /\ h[i - 1] = g[(i - L) - 1] /\ (ms \o ns)[i] = ns[i - L]
      BY <1>1, <1>6, <3>1
    <3>3. QED BY <1>3, <3>1, <3>2
  <2>3. QED BY <2>1, <2>2
<1>10. QED BY <1>1, <1>7, <1>8, <1>9 DEF Leads

LEMMA LeadsAfter ==
    ASSUME NEW x, NEW ms, NEW y, Leads(x, ms, y), ms # <<>>
    PROVE  /\ Legal(x, Head(ms)) /\ StoreOK(Handled(x, Head(ms)).store)
           /\ Leads(Handled(x, Head(ms)), Tail(ms), y)
<1> DEFINE L == Len(ms)
<1>1. /\ IsSeq(Tail(ms)) /\ L \in Nat /\ L > 0 /\ Len(Tail(ms)) = L - 1
      /\ Head(ms) = ms[1]
      /\ \A i \in 1..Len(Tail(ms)) : Tail(ms)[i] = ms[i + 1]
  BY TailIsSeq DEF Leads
<1>2. PICK f : /\ f[0] = x /\ f[L] = y
               /\ \A i \in 0..L : StoreOK(f[i].store) /\ (f[i].joined => y.joined)
               /\ \A i \in 1..L : Legal(f[i - 1], ms[i]) /\ f[i] = Handled(f[i - 1], ms[i])
  BY DEF Leads
<1> HIDE DEF L
<1> DEFINE h == [i \in 0..(L - 1) |-> f[i + 1]]
<1>3. 1 \in 1..L /\ 1 \in 0..L /\ 1 - 1 = 0
  BY <1>1
<1>4. Legal(x, Head(ms)) /\ f[1] = Handled(x, Head(ms)) /\ StoreOK(f[1].store)
  BY <1>1, <1>2, <1>3
<1>5. \A i \in 0..(L - 1) : h[i] = f[i + 1] /\ i + 1 \in 0..L
  BY <1>1
<1> HIDE DEF h
<1>6. h[0] = f[1] /\ h[L - 1] = y
  BY <1>1, <1>2, <1>5
<1>7. \A i \in 1..(L - 1) : /\ i - 1 \in 0..(L - 1) /\ i \in 0..(L - 1) /\ i + 1 \in 1..L
                            /\ (i - 1) + 1 = i /\ (i + 1) - 1 = i
  BY <1>1
<1>8. \A i \in 1..(L - 1) : Legal(h[i - 1], Tail(ms)[i]) /\ h[i] = Handled(h[i - 1], Tail(ms)[i])
  BY <1>1, <1>2, <1>5, <1>7
<1>9. \A i \in 0..(L - 1) : StoreOK(h[i].store) /\ (h[i].joined => y.joined)
  BY <1>2, <1>5
<1>10. Leads(f[1], Tail(ms), y)
  BY <1>1, <1>6, <1>8, <1>9 DEF Leads
<1>11. QED BY <1>4, <1>10

-----------------------------------------------------------------------------
(* What the node tells of a step, r, takes the screen from y to z.         *)

Reaches(y, n, r, z) ==
    /\ Leads(y, r.out, z) /\ z.got = y.got /\ z.joined = y.joined
    /\ NodeOK(r.node) /\ GameShown(z.store, r.node)
    /\ StateTold(r.out) \/ (PhaseShown(y.store, n) => PhaseShown(z.store, r.node))
    /\ \/ PeerTold(r.out)
       \/ /\ PeersShown(y.store, n) => PeersShown(z.store, r.node)
          /\ n.peers = Nobody => r.node.peers = Nobody
    /\ \/ joined
       \/ n.phase = "waiting_for_side" =>
              r.node.phase = "waiting_for_side" /\ r.node.team = n.team

Tells(y, n, r) == \E z : Reaches(y, n, r, z)

\* The screen, in y, shows what the node, n, knows.
Synced(y, n) == StoreOK(y.store) /\ NodeOK(n) /\ GameShown(y.store, n)

LEMMA ReachesSynced ==
    ASSUME NEW y, NEW n, NEW r, NEW z, Reaches(y, n, r, z)
    PROVE  Synced(z, r.node)
BY LeadsOK DEF Reaches, Synced

LEMMA NothingTold ==
    ASSUME NEW y, NEW n, Synced(y, n)
    PROVE  Reaches(y, n, Result(n, <<>>), y)
BY LeadsNowhere DEF Reaches, Synced, Result

LEMMA ToldInBoth ==
    ASSUME NEW s, NEW t, IsSeq(s), IsSeq(t)
    PROVE  /\ StateTold(s \o t) <=> StateTold(s) \/ StateTold(t)
           /\ PeerTold(s \o t) <=> PeerTold(s) \/ PeerTold(t)
           /\ StateAsked(s \o t) <=> StateAsked(s) \/ StateAsked(t)
           /\ ListAsked(s \o t) <=> ListAsked(s) \/ ListAsked(t)
           /\ ResetAsked(s \o t) <=> ResetAsked(s) \/ ResetAsked(t)
<1>1. /\ Len(s) \in Nat /\ Len(t) \in Nat
      /\ Len(s \o t) = Len(s) + Len(t)
      /\ \A i \in 1..Len(s) : (s \o t)[i] = s[i]
      /\ \A i \in (Len(s) + 1)..(Len(s) + Len(t)) : (s \o t)[i] = t[i - Len(s)]
  BY ConcatIsSeq
<1>2. \A i \in 1..Len(s) : i \in 1..Len(s \o t) /\ (s \o t)[i] = s[i]
  BY <1>1
<1>3. \A i \in 1..Len(t) : Len(s) + i \in 1..Len(s \o t) /\ (s \o t)[Len(s) + i] = t[i]
  BY <1>1
<1>4. ASSUME NEW i \in 1..Len(s \o t)
      PROVE  \/ i \in 1..Len(s) /\ (s \o t)[i] = s[i]
             \/ i - Len(s) \in 1..Len(t) /\ (s \o t)[i] = t[i - Len(s)]
  <2>1. i \in 1..Len(s) \/ (i \in (Len(s) + 1)..(Len(s) + Len(t)) /\ i - Len(s) \in 1..Len(t))
    BY <1>1
  <2>2. QED BY <1>1, <2>1
<1>5. StateTold(s \o t) <=> StateTold(s) \/ StateTold(t)
  BY <1>2, <1>3, <1>4 DEF StateTold
<1>6. PeerTold(s \o t) <=> PeerTold(s) \/ PeerTold(t)
  BY <1>2, <1>3, <1>4 DEF PeerTold
<1>7. StateAsked(s \o t) <=> StateAsked(s) \/ StateAsked(t)
  BY <1>2, <1>3, <1>4 DEF StateAsked
<1>8. ListAsked(s \o t) <=> ListAsked(s) \/ ListAsked(t)
  BY <1>2, <1>3, <1>4 DEF ListAsked
<1>9. ResetAsked(s \o t) <=> ResetAsked(s) \/ ResetAsked(t)
  BY <1>2, <1>3, <1>4 DEF ResetAsked
<1>10. QED BY <1>5, <1>6, <1>7, <1>8, <1>9

LEMMA ReachesOn ==
    ASSUME NEW y, NEW n, NEW r, NEW z, NEW q, NEW w,
           Reaches(y, n, r, z), Reaches(z, r.node, q, w)
    PROVE  Reaches(y, n, Then(r, q), w)
<1>1. Then(r, q).node = q.node /\ Then(r, q).out = r.out \o q.out
  BY DEF Then, Result
<1>2. IsSeq(r.out) /\ IsSeq(q.out)
  BY LeadsOK DEF Reaches
<1>3. Leads(y, r.out \o q.out, w)
  BY LeadsOn DEF Reaches
<1>4. /\ StateTold(r.out \o q.out) <=> StateTold(r.out) \/ StateTold(q.out)
      /\ PeerTold(r.out \o q.out) <=> PeerTold(r.out) \/ PeerTold(q.out)
  BY <1>2, ToldInBoth
<1>5. QED BY <1>1, <1>3, <1>4 DEF Reaches

LEMMA TellsOn ==
    ASSUME NEW y, NEW n, NEW r, NEW q, Tells(y, n, r),
           \A z : Synced(z, r.node) => Tells(z, r.node, q)
    PROVE  Tells(y, n, Then(r, q))
BY ReachesSynced, ReachesOn DEF Tells

\* One push.
LEMMA OnePush ==
    ASSUME NEW y, NEW n, NEW k, NEW m, m.type \notin Answer,
           StoreOK(y.store), NEW s, s = OnPush(y.store, m), StoreOK(s),
           NodeOK(k), GameShown(s, k),
           PhaseShown(y.store, n) => PhaseShown(s, k),
           \/ m.type = "peer:joined"
           \/ /\ PeersShown(y.store, n) => PeersShown(s, k)
              /\ n.peers = Nobody => k.peers = Nobody,
           joined \/ (n.phase = "waiting_for_side" =>
                         k.phase = "waiting_for_side" /\ k.team = n.team)
    PROVE  Reaches(y, n, Result(k, <<m>>), WithStore(y, s))
<1>1. Handled(y, m) = WithStore(y, s)
  BY DEF Handled, Answer
<1>2. Legal(y, m)
  BY DEF Legal, ForJoin, Answer, Fetched
<1>3. /\ WithStore(y, s).store = s /\ WithStore(y, s).got = y.got
      /\ WithStore(y, s).joined = y.joined
  BY DEF WithStore, View
<1>4. Leads(y, <<m>>, WithStore(y, s))
  BY <1>1, <1>2, <1>3, LeadsByOne
<1>5. m.type = "peer:joined" => PeerTold(<<m>>)
  BY OneIsSeq DEF PeerTold, NewPeer
<1>6. Result(k, <<m>>).node = k /\ Result(k, <<m>>).out = <<m>>
  BY DEF Result
<1>7. QED BY <1>3, <1>4, <1>5, <1>6 DEF Reaches

-----------------------------------------------------------------------------
(* Votes and the end of a game.                                            *)

LEMMA SmallTypes ==
    /\ NoWindow \in Windows /\ NoResign \in Resigns
    /\ \A t \in Nat, r \in Int : NewWindow(t, r) \in Windows /\ NewWindow(t, r) # NoWindow
    /\ Nobody \in Peers
<1>1. IsFiniteSet(Peer) /\ Cardinality(Peer) \in Nat
  BY PeerAssumption, FS_CardinalityType
<1>2. QED BY <1>1 DEF NoWindow, NoResign, Windows, Resigns, NewWindow, Nobody, Peers

LEMMA DefaultType == Default \in AnySettings /\ Default.resign \in ResignParts
<1>1. Default \in AnySettings
  BY SettingsAssumption DEF AnySettings
<1>2. QED BY <1>1 DEF ResignParts

LEMMA AnyoneIsFinite ==
    ASSUME NEW S \in SUBSET Anyone
    PROVE  /\ IsFiniteSet(S) /\ Cardinality(S) \in 0..(Cardinality(Peer) + 1)
           /\ Cardinality(S) = 0 <=> S = {}
<1>1. IsFiniteSet(Anyone) /\ Cardinality(Anyone) = Cardinality(Peer) + 1
  BY PeerAssumption, FS_AddElement DEF Anyone
<1>2. QED BY <1>1, FS_Subset, FS_CardinalityType, FS_EmptySet

\* Of the window the screen may show anything.
LEMMA GameOverTold ==
    ASSUME NEW y, NEW n, StoreOK(y.store), NodeOK(n), RestShown(y.store, n),
           n.phase \notin Early
    PROVE  Tells(y, n, EndGame(n))
<1> DEFINE s == SetGameOver(y.store)
           k == [n EXCEPT !.phase = "finished", !.window = NoWindow, !.resign = {}]
           m == Push("game:over")
<1>1. EndGame(n) = Result(k, <<m>>)
  BY DEF EndGame
<1>2. m.type \notin Answer /\ s = OnPush(y.store, m)
  BY DEF Push, Answer, OnPush
<1>3. /\ s \in Stores /\ s.phase = "finished" /\ s.window = NoWindow /\ s.resign = NoResign
      /\ s.team = y.store.team /\ s.version = y.store.version /\ s.config = y.store.config
      /\ s.accepted = y.store.accepted /\ s.peers = y.store.peers
  BY SmallTypes DEF StoreOK, Stores, SetGameOver, Phase
<1>4. StoreOK(s)
  BY <1>3 DEF StoreOK
<1>5. /\ k \in Nodes /\ k.phase = "finished" /\ k.window = NoWindow /\ k.resign = {}
      /\ k.team = n.team /\ k.hs = n.hs /\ k.peers = n.peers
  BY SmallTypes DEF NodeOK, Nodes, Phase
<1>6. NodeOK(k)
  BY <1>5 DEF NodeOK, Early, Lobby
<1>7. NoResign.yes = 0 /\ Cardinality({}) = 0
  BY FS_EmptySet DEF NoResign
<1>8. GameShown(s, k) /\ PhaseShown(s, k)
  BY <1>3, <1>5, <1>7 DEF GameShown, RestShown, WindowShown, PhaseShown, SettingsShown
<1>9. (PeersShown(y.store, n) => PeersShown(s, k)) /\ (n.peers = Nobody => k.peers = Nobody)
  BY <1>3, <1>5 DEF PeersShown
<1>10. n.phase # "waiting_for_side"
  BY DEF Early, Lobby
<1> HIDE DEF s, k, m
<1>11. Reaches(y, n, Result(k, <<m>>), WithStore(y, s))
  BY <1>2, <1>4, <1>6, <1>8, <1>9, <1>10, OnePush
<1>12. QED BY <1>1, <1>11 DEF Tells

LEMMA WindowTold ==
    ASSUME NEW y, NEW n, StoreOK(y.store), NodeOK(n), RestShown(y.store, n),
           n.phase = "in_progress", NEW t \in Nat, NEW r \in Int
    PROVE  Tells(y, n, OpenWindow(n, t, r))
<1> DEFINE s == OpenVotingWindow(y.store, t)
           k == [n EXCEPT !.window = NewWindow(t, r)]
           m == WindowOpened(t)
<1>1. OpenWindow(n, t, r) = Result(k, <<m>>)
  BY DEF OpenWindow
<1>2. m.type \notin Answer /\ s = OnPush(y.store, m)
  BY DEF WindowOpened, Answer, OnPush
<1>3. y.store.phase = "in_progress"
  BY DEF RestShown, Early, Lobby
<1>4. /\ s \in Stores /\ s.phase = "in_progress" /\ s.window = NewWindow(t, 0)
      /\ s.resign = y.store.resign
      /\ s.team = y.store.team /\ s.version = y.store.version /\ s.config = y.store.config
      /\ s.accepted = y.store.accepted /\ s.peers = y.store.peers
  BY <1>3, SmallTypes DEF StoreOK, Stores, OpenVotingWindow
<1>5. StoreOK(s)
  BY <1>4 DEF StoreOK, NewWindow
<1>6. /\ k \in Nodes /\ k.phase = n.phase /\ k.window = NewWindow(t, r) /\ k.resign = n.resign
      /\ k.team = n.team /\ k.hs = n.hs /\ k.peers = n.peers
  BY SmallTypes DEF NodeOK, Nodes
<1>7. NodeOK(k)
  BY <1>6 DEF NodeOK, NewWindow
<1>8. GameShown(s, k) /\ (PhaseShown(y.store, n) => PhaseShown(s, k))
  BY <1>3, <1>4, <1>6 DEF GameShown, RestShown, WindowShown, PhaseShown, SettingsShown, NewWindow
<1>9. (PeersShown(y.store, n) => PeersShown(s, k)) /\ (n.peers = Nobody => k.peers = Nobody)
  BY <1>4, <1>6 DEF PeersShown
<1> HIDE DEF s, k, m
<1>10. Reaches(y, n, Result(k, <<m>>), WithStore(y, s))
  BY <1>2, <1>5, <1>7, <1>8, <1>9, OnePush
<1>11. QED BY <1>1, <1>10 DEF Tells

\* Of an open window only the window changes, and only to show.
LEMMA OnlyTheWindow ==
    ASSUME NEW y, NEW n, Synced(y, n), n.window # NoWindow, NEW m, m.type \notin Answer,
           NEW v \in Windows, v # NoWindow => v.turn \in Nat,
           OnPush(y.store, m) = [y.store EXCEPT !.window = v],
           NEW w \in Windows, w # NoWindow => w.turn \in Nat,
           v.turn = w.turn, v.votes = w.votes
    PROVE  Tells(y, n, Result([n EXCEPT !.window = w], <<m>>))
<1> DEFINE s == [y.store EXCEPT !.window = v]
           k == [n EXCEPT !.window = w]
<1>1. n.phase = "in_progress"
  BY DEF Synced, NodeOK
<1>2. y.store.phase = "in_progress"
  BY <1>1 DEF Synced, GameShown, RestShown, Early, Lobby
<1>3. /\ s \in Stores /\ s.phase = "in_progress" /\ s.window = v
      /\ s.resign = y.store.resign
      /\ s.team = y.store.team /\ s.version = y.store.version /\ s.config = y.store.config
      /\ s.accepted = y.store.accepted /\ s.peers = y.store.peers
  BY <1>2 DEF Synced, StoreOK, Stores
<1>4. StoreOK(s) /\ StoreOK(y.store)
  BY <1>3 DEF StoreOK, Synced
<1>5. /\ k \in Nodes /\ k.phase = "in_progress" /\ k.window = w /\ k.resign = n.resign
      /\ k.team = n.team /\ k.hs = n.hs /\ k.peers = n.peers
  BY <1>1 DEF Synced, NodeOK, Nodes
<1>6. NodeOK(k)
  BY <1>5 DEF NodeOK, Synced
<1>7. GameShown(s, k) /\ (PhaseShown(y.store, n) => PhaseShown(s, k))
  BY <1>1, <1>2, <1>3, <1>5 DEF Synced, GameShown, RestShown, WindowShown, PhaseShown, SettingsShown
<1>8. (PeersShown(y.store, n) => PeersShown(s, k)) /\ (n.peers = Nobody => k.peers = Nobody)
  BY <1>3, <1>5 DEF PeersShown
<1> HIDE DEF s, k
<1>9. s = OnPush(y.store, m)
  BY DEF s
<1>10. n.phase # "waiting_for_side"
  BY <1>1
<1>11. Reaches(y, n, Result(k, <<m>>), WithStore(y, s))
  BY <1>4, <1>6, <1>7, <1>8, <1>9, <1>10, OnePush
<1>12. QED BY <1>11 DEF Tells, k

\* What is on the screen of an open window.
LEMMA WindowIsShown ==
    ASSUME NEW y, NEW n, Synced(y, n), n.window # NoWindow
    PROVE  /\ n.window \in Windows /\ n.window.turn \in Nat /\ n.phase = "in_progress"
           /\ y.store.window \in Windows /\ y.store.window # NoWindow
           /\ y.store.window.turn = n.window.turn /\ y.store.window.votes = n.window.votes
BY DEF Synced, NodeOK, Nodes, StoreOK, Stores, GameShown, WindowShown, NoWindow

LEMMA MoveTold ==
    ASSUME NEW y, NEW n, Synced(y, n), n.window # NoWindow
    PROVE  Tells(y, n, Result([n EXCEPT !.window = NoWindow], <<Push("tally:done")>>))
<1> DEFINE m == Push("tally:done")
<1>1. m.type \notin Answer /\ OnPush(y.store, m) = [y.store EXCEPT !.window = NoWindow]
  BY DEF Push, Answer, OnPush
<1> HIDE DEF m
<1>2. Tells(y, n, Result([n EXCEPT !.window = NoWindow], <<m>>))
  BY <1>1, SmallTypes, OnlyTheWindow
<1>3. QED BY <1>2 DEF m

LEMMA RevoteTold ==
    ASSUME NEW y, NEW n, Synced(y, n), n.window # NoWindow
    PROVE  Tells(y, n, Result([n EXCEPT !.window = NewWindow(n.window.turn, @.round + 1)],
                              <<RevoteStarted(n.window.turn)>>))
<1> DEFINE t == n.window.turn
           m == RevoteStarted(t)
           v == [y.store.window EXCEPT !.votes = {}]
           w == NewWindow(t, n.window.round + 1)
<1>1. /\ n.window \in Windows /\ t \in Nat
      /\ y.store.window \in Windows /\ y.store.window # NoWindow
      /\ y.store.window.turn = t
  BY WindowIsShown
<1>2. m.type \notin Answer /\ OnPush(y.store, m) = ApplyRevote(y.store, t)
  BY DEF RevoteStarted, Answer, OnPush
<1>3. ApplyRevote(y.store, t) = [y.store EXCEPT !.window = v]
  BY <1>1 DEF ApplyRevote, Synced, StoreOK, Stores
<1>4. v \in Windows /\ v.turn = t /\ v.votes = {}
  BY <1>1 DEF Windows
<1>5. w \in Windows /\ w.turn = t /\ w.votes = {}
  BY <1>1 DEF Windows, NewWindow
<1>6. [n EXCEPT !.window = NewWindow(n.window.turn, @.round + 1)] = [n EXCEPT !.window = w]
  BY DEF Synced, NodeOK, Nodes
<1> HIDE DEF m, v, w
<1>7. Tells(y, n, Result([n EXCEPT !.window = w], <<m>>))
  BY <1>1, <1>2, <1>3, <1>4, <1>5, OnlyTheWindow
<1>8. QED BY <1>6, <1>7 DEF m

LEMMA VoteTold ==
    ASSUME NEW y, NEW n, Synced(y, n), n.window # NoWindow, NEW p \in Anyone
    PROVE  Tells(y, n, Result([n EXCEPT !.window.votes = @ \cup {p}],
                              <<PeerPush("vote:received", p)>>))
<1> DEFINE m == PeerPush("vote:received", p)
           v == [y.store.window EXCEPT !.votes = @ \cup {p}]
           w == [n.window EXCEPT !.votes = @ \cup {p}]
<1>1. /\ n.window \in Windows /\ n.window.turn \in Nat
      /\ y.store.window \in Windows /\ y.store.window # NoWindow
      /\ y.store.window.turn = n.window.turn /\ y.store.window.votes = n.window.votes
  BY WindowIsShown
<1>2. m.type \notin Answer /\ OnPush(y.store, m) = AddVote(y.store, p)
  BY DEF PeerPush, Answer, OnPush
<1>3. AddVote(y.store, p) = [y.store EXCEPT !.window = v]
  BY <1>1 DEF AddVote, Synced, StoreOK, Stores
<1>4. v \in Windows /\ v.turn = y.store.window.turn /\ v.votes = y.store.window.votes \cup {p}
  BY <1>1 DEF Windows
<1>5. w \in Windows /\ w.turn = n.window.turn /\ w.votes = n.window.votes \cup {p}
  BY <1>1 DEF Windows
<1>6. [n EXCEPT !.window.votes = @ \cup {p}] = [n EXCEPT !.window = w]
  BY DEF Synced, NodeOK, Nodes
<1> HIDE DEF m, v, w
<1>7. Tells(y, n, Result([n EXCEPT !.window = w], <<m>>))
  BY <1>1, <1>2, <1>3, <1>4, <1>5, OnlyTheWindow
<1>8. QED BY <1>6, <1>7 DEF m

\* After a move, as the tally or a snapshot tells it: the game is over, or the next
\* window opens.
LEMMA AfterMoveTold ==
    ASSUME NEW y, NEW n, Synced(y, n), n.window # NoWindow, NEW o,
           NEW t \in Nat, NEW r \in Int
    PROVE  /\ Tells(y, n, Then(Result(o, <<Push("tally:done")>>), EndGame(n)))
           /\ Tells(y, n, Then(Result(o, <<Push("tally:done")>>), OpenWindow(n, t, r)))
<1> DEFINE k     == [n EXCEPT !.window = NoWindow]
           moved == Result(k, <<Push("tally:done")>>)
<1>1. n.phase = "in_progress" /\ n \in Nodes
  BY WindowIsShown DEF Synced, NodeOK
<1>2. Tells(y, n, moved)
  BY MoveTold
<1>3. moved.node = k /\ k.phase = "in_progress"
  BY <1>1 DEF Result, Nodes
<1>4. EndGame(n) = EndGame(k) /\ OpenWindow(n, t, r) = OpenWindow(k, t, r)
  BY <1>1 DEF EndGame, OpenWindow, Nodes
<1>5. \A q : Then(Result(o, <<Push("tally:done")>>), q) = Then(moved, q)
  BY DEF Then, Result
<1> HIDE DEF k, moved
<1>6. ASSUME NEW z, Synced(z, k)
      PROVE  Tells(z, k, EndGame(k)) /\ Tells(z, k, OpenWindow(k, t, r))
  <2>1. k.phase \notin Early
    BY <1>3 DEF Early, Lobby
  <2>2. StoreOK(z.store) /\ NodeOK(k) /\ RestShown(z.store, k)
    BY <1>6 DEF Synced, GameShown
  <2>3. QED BY <1>3, <2>1, <2>2, GameOverTold, WindowTold
<1>7. QED BY <1>2, <1>3, <1>4, <1>5, <1>6, TellsOn

LEMMA TallyTold ==
    ASSUME NEW y, NEW n, Synced(y, n), n.window # NoWindow, NEW r \in ApplyTally(n)
    PROVE  Tells(y, n, r)
<1>1. n.window.turn + 1 \in Nat /\ n.phase = "in_progress" /\ 0 \in Int
  BY WindowIsShown
<1>2. Tells(y, n, EndGame(n))
  BY <1>1, GameOverTold DEF Synced, GameShown, Early, Lobby
<1>3. QED BY <1>1, <1>2, AfterMoveTold, RevoteTold DEF ApplyTally

LEMMA CountedTold ==
    ASSUME NEW y, NEW n, NEW r, Tells(y, n, r), NEW q \in Counted(r)
    PROVE  Tells(y, n, q)
<1>1. CASE q = r
  BY <1>1
<1>2. CASE q # r
  <2>1. r.node.window # NoWindow
    BY <1>2 DEF Counted
  <2>2. PICK t \in ApplyTally(r.node) : q = Then(r, t)
    BY <1>2, <2>1 DEF Counted
  <2>3. \A z : Synced(z, r.node) => Tells(z, r.node, t)
    BY <2>1, TallyTold
  <2>4. QED BY <2>2, <2>3, TellsOn
<1>3. QED BY <1>1, <1>2

LEMMA OneVoteTold ==
    ASSUME NEW y, NEW n, NEW r, Tells(y, n, r), NEW q \in OneVote(r)
    PROVE  Tells(y, n, q)
<1>1. PICK p \in Peer :
          /\ r.node.window # NoWindow
          /\ q = Then(r, Result([r.node EXCEPT !.window.votes = @ \cup {p}],
                               <<PeerPush("vote:received", p)>>))
  BY DEF OneVote
<1>2. p \in Anyone
  BY DEF Anyone
<1>3. QED BY <1>1, <1>2, VoteTold, TellsOn

-----------------------------------------------------------------------------
(* Votes to resign.                                                        *)

\* A step that changes only what is shown of the resign vote.
LEMMA OnlyTheResignVote ==
    ASSUME NEW y, NEW n, Synced(y, n), n.phase = "in_progress", NEW m, m.type \notin Answer,
           NEW v \in Resigns, OnPush(y.store, m) = [y.store EXCEPT !.resign = v],
           v # NoResign => v.voted /\ v.yes > 0,
           NEW R \in SUBSET Anyone, v.yes = Cardinality(R)
    PROVE  Reaches(y, n, Result([n EXCEPT !.resign = R], <<m>>),
                   WithStore(y, [y.store EXCEPT !.resign = v]))
<1> DEFINE s == [y.store EXCEPT !.resign = v]
           k == [n EXCEPT !.resign = R]
<1>1. y.store.phase = "in_progress"
  BY DEF Synced, GameShown, RestShown, Early, Lobby
<1>2. /\ s \in Stores /\ s.phase = "in_progress" /\ s.window = y.store.window
      /\ s.resign = v
      /\ s.team = y.store.team /\ s.version = y.store.version /\ s.config = y.store.config
      /\ s.accepted = y.store.accepted /\ s.peers = y.store.peers
  BY <1>1 DEF Synced, StoreOK, Stores
<1>3. StoreOK(s) /\ StoreOK(y.store)
  BY <1>2 DEF StoreOK, Synced
<1>4. /\ k \in Nodes /\ k.phase = "in_progress" /\ k.window = n.window /\ k.resign = R
      /\ k.team = n.team /\ k.hs = n.hs /\ k.peers = n.peers
  BY DEF Synced, NodeOK, Nodes
<1>5. NodeOK(k)
  BY <1>4 DEF NodeOK, Synced
<1>6. GameShown(s, k) /\ (PhaseShown(y.store, n) => PhaseShown(s, k))
  BY <1>1, <1>2, <1>4 DEF Synced, GameShown, RestShown, WindowShown, PhaseShown, SettingsShown
<1>7. (PeersShown(y.store, n) => PeersShown(s, k)) /\ (n.peers = Nobody => k.peers = Nobody)
  BY <1>2, <1>4 DEF PeersShown
<1> HIDE DEF s, k
<1>8. s = OnPush(y.store, m)
  BY DEF s
<1>9. Reaches(y, n, Result(k, <<m>>), WithStore(y, s))
  BY <1>3, <1>5, <1>6, <1>7, <1>8, OnePush
<1>10. QED BY <1>9 DEF s, k

LEMMA LapseTold ==
    ASSUME NEW y, NEW n, Synced(y, n), n.resign # {}
    PROVE  Tells(y, n, Result([n EXCEPT !.resign = {}], <<Push("resign:vote_expired")>>))
<1> DEFINE m == Push("resign:vote_expired")
<1>1. m.type \notin Answer /\ OnPush(y.store, m) = [y.store EXCEPT !.resign = NoResign]
  BY DEF Push, Answer, OnPush
<1>2. n.phase = "in_progress"
  BY DEF Synced, NodeOK
<1>3. NoResign.yes = Cardinality({}) /\ {} \in SUBSET Anyone
  BY FS_EmptySet DEF NoResign
<1> HIDE DEF m
<1>4. Reaches(y, n, Result([n EXCEPT !.resign = {}], <<m>>),
              WithStore(y, [y.store EXCEPT !.resign = NoResign]))
  BY <1>1, <1>2, <1>3, SmallTypes, OnlyTheResignVote
<1>5. QED BY <1>4 DEF Tells, m

LEMMA ResignCheckTold ==
    ASSUME NEW y, NEW n, NEW r, Tells(y, n, r)
    PROVE  Tells(y, n, CheckResign(r))
<1>1. CASE CheckResign(r) = r
  BY <1>1
<1>2. CASE CheckResign(r) # r
  <2>1. CheckResign(r) = Then(r, EndGame(r.node)) /\ r.node.phase = "in_progress"
    BY <1>2 DEF CheckResign
  <2>2. \A z : Synced(z, r.node) => Tells(z, r.node, EndGame(r.node))
    BY <2>1, GameOverTold DEF Synced, GameShown, Early, Lobby
  <2>3. QED BY <2>1, <2>2, TellsOn
<1>3. QED BY <1>1, <1>2

LEMMA YesTold ==
    ASSUME NEW y, NEW n, Synced(y, n), n.phase = "in_progress", NEW p \in Anyone
    PROVE  Tells(y, n, AddYes(n, p))
<1> DEFINE R == n.resign \cup {p}
           N == Cardinality(R)
           k == [n EXCEPT !.resign = @ \cup {p}]
           m == VoteUpdated(N)
           b == Push("resign:vote_started")
           one == [yes |-> 1, voted |-> TRUE]
           out == (IF n.resign = {} THEN <<b>> ELSE <<>>) \o <<m>>
<1>0. /\ n \in Nodes /\ n.resign \in SUBSET Anyone /\ R \in SUBSET Anyone /\ R # {}
      /\ y.store \in Stores /\ y.store.resign \in Resigns
      /\ y.store.resign.yes = Cardinality(n.resign)
      /\ y.store.resign # NoResign => y.store.resign.voted
  BY DEF Synced, NodeOK, Nodes, StoreOK, Stores, GameShown, RestShown
<1>1. N \in 1..(Cardinality(Peer) + 1) /\ Cardinality(Peer) \in Nat
  BY <1>0, AnyoneIsFinite, PeerAssumption, FS_CardinalityType
<1>2. k = [n EXCEPT !.resign = R]
  BY <1>0 DEF Nodes
<1>3. m.type \notin Answer /\ m.yes = N /\ \A s : OnPush(s, m) = UpdateResignVote(s, N)
  BY DEF VoteUpdated, Answer, OnPush
<1>4. b.type \notin Answer /\ OnPush(y.store, b) = [y.store EXCEPT !.resign = one]
  BY DEF Push, Answer, OnPush, OpenResignVote
<1>5. one \in Resigns /\ one # NoResign /\ one.voted /\ one.yes = 1
  BY <1>1 DEF Resigns, NoResign
<1>6. AddYes(n, p) = CheckResign(Result(k, out))
  BY DEF AddYes
<1> HIDE DEF k, m, b, one, N
<1>7. CASE n.resign = {}
  <2>1. R = {p} /\ N = 1
    BY <1>7, FS_Singleton DEF N
  <2> DEFINE z == WithStore(y, [y.store EXCEPT !.resign = one])
  <2>2. Reaches(y, n, Result(k, <<b>>), z)
    <3>1. one.yes = Cardinality(R)
      BY <1>5, <2>1 DEF N
    <3>2. QED BY <1>0, <1>2, <1>4, <1>5, <3>1, OnlyTheResignVote
  <2>3. z.store.resign = one
    BY <1>0 DEF WithStore, View, Stores
  <2>4. Synced(z, k)
    BY <2>2, ReachesSynced DEF Result
  <2>5. z.store \in Stores /\ k \in Nodes /\ k.resign = R /\ k.phase = "in_progress"
    BY <2>4, <1>0, <1>2 DEF Synced, StoreOK, NodeOK, Nodes
  <2>6. OnPush(z.store, m) = [z.store EXCEPT !.resign = one]
    <3>1. OnPush(z.store, m) = [z.store EXCEPT !.resign.yes = 1]
      BY <1>3, <1>5, <2>1, <2>3 DEF UpdateResignVote
    <3>2. [one EXCEPT !.yes = 1] = one
      BY DEF one
    <3> HIDE DEF z
    <3>3. [z.store EXCEPT !.resign.yes = 1] = [z.store EXCEPT !.resign = one]
      BY <2>3, <2>5, <3>2 DEF Stores
    <3>4. QED BY <3>1, <3>3
  <2>7. k = [k EXCEPT !.resign = R]
    BY <2>5 DEF Nodes
  <2> HIDE DEF z
  <2>8. Reaches(z, k, Result(k, <<m>>), WithStore(z, [z.store EXCEPT !.resign = one]))
    <3>1. one.yes = Cardinality(R)
      BY <1>5, <2>1 DEF N
    <3>2. Reaches(z, k, Result([k EXCEPT !.resign = R], <<m>>),
                  WithStore(z, [z.store EXCEPT !.resign = one]))
      BY <1>0, <1>3, <1>5, <2>4, <2>5, <2>6, <3>1, OnlyTheResignVote
    <3>3. QED BY <3>2, <2>7
  <2>9. Result(k, out) = Then(Result(k, <<b>>), Result(k, <<m>>))
    BY <1>7 DEF Then, Result
  <2>10. Tells(y, n, Result(k, out))
    <3>1. Result(k, <<b>>).node = k
      BY DEF Result
    <3>2. QED BY <2>2, <2>8, <2>9, <3>1, ReachesOn DEF Tells
  <2>11. QED BY <1>6, <2>10, ResignCheckTold
<1>8. CASE n.resign # {}
  <2> DEFINE v == [y.store.resign EXCEPT !.yes = N]
  <2>1. y.store.resign # NoResign
    <3>1. y.store.resign.yes # 0
      BY <1>0, <1>8, AnyoneIsFinite
    <3>2. QED BY <3>1 DEF NoResign
  <2>2. v \in Resigns /\ v.voted /\ v.yes = N /\ N > 0
    BY <1>0, <1>1, <2>1 DEF Resigns
  <2>3. OnPush(y.store, m) = [y.store EXCEPT !.resign = v]
    BY <1>0, <1>3, <2>1 DEF UpdateResignVote, Stores
  <2>4. Result(k, out) = Then(Result(n, <<>>), Result(k, <<m>>))
    BY <1>8 DEF Then, Result
  <2> HIDE DEF v
  <2>5. Reaches(y, n, Result(k, <<m>>), WithStore(y, [y.store EXCEPT !.resign = v]))
    <3>1. v.yes = Cardinality(R)
      BY <2>2 DEF N
    <3>2. QED BY <1>0, <1>2, <1>3, <2>2, <2>3, <3>1, OnlyTheResignVote
  <2>6. Tells(y, n, Result(k, out))
    <3>1. Result(n, <<>>).node = n
      BY DEF Result
    <3>2. QED BY <2>4, <2>5, <3>1, NothingTold, ReachesOn DEF Tells
  <2>7. QED BY <1>6, <2>6, ResignCheckTold
<1>9. QED BY <1>7, <1>8

-----------------------------------------------------------------------------
(* Players.                                                                *)

LEMMA OnlyThePlayers ==
    ASSUME NEW y, NEW n, Synced(y, n), NEW m, m.type \notin Answer,
           NEW v \in Peers, OnPush(y.store, m) = [y.store EXCEPT !.peers = v],
           NEW w \in Peers, NEW k, k = [n EXCEPT !.peers = w],
           \/ m.type = "peer:joined"
           \/ /\ PeersShown(y.store, n) => /\ Present(v) = Present(w)
                                           /\ ~ again => v = w
              /\ n.peers # Nobody
    PROVE  Tells(y, n, Result(k, <<m>>))
<1> DEFINE s == [y.store EXCEPT !.peers = v]
<1>1. /\ s \in Stores /\ s.phase = y.store.phase /\ s.window = y.store.window
      /\ s.resign = y.store.resign
      /\ s.team = y.store.team /\ s.version = y.store.version /\ s.config = y.store.config
      /\ s.accepted = y.store.accepted /\ s.peers = v
  BY DEF Synced, StoreOK, Stores
<1>2. StoreOK(s) /\ StoreOK(y.store)
  BY <1>1 DEF StoreOK, Synced
<1>3. /\ k \in Nodes /\ k.phase = n.phase /\ k.window = n.window /\ k.resign = n.resign
      /\ k.team = n.team /\ k.hs = n.hs /\ k.peers = w
  BY DEF Synced, NodeOK, Nodes
<1>4. NodeOK(k)
  BY <1>3 DEF NodeOK, Synced
<1>5. GameShown(s, k) /\ (PhaseShown(y.store, n) => PhaseShown(s, k))
  BY <1>1, <1>3 DEF Synced, GameShown, RestShown, WindowShown, PhaseShown, SettingsShown
<1>6. \/ m.type = "peer:joined"
      \/ /\ PeersShown(y.store, n) => PeersShown(s, k)
         /\ n.peers = Nobody => k.peers = Nobody
  BY <1>1, <1>3 DEF PeersShown
<1> HIDE DEF s
<1>7. s = OnPush(y.store, m)
  BY DEF s
<1>8. Reaches(y, n, Result(k, <<m>>), WithStore(y, s))
  BY <1>2, <1>3, <1>4, <1>5, <1>6, <1>7, OnePush
<1>9. QED BY <1>8 DEF Tells

\* A player that is there, or is not.
LEMMA PlayerTypes ==
    ASSUME NEW ps \in Peers, NEW p \in Peer
    PROVE  /\ [ps EXCEPT ![p] = Gone] \in Peers
           /\ \A t \in Side \cup {NoSide}, r \in BOOLEAN : [ps EXCEPT ![p] = Here(t, r)] \in Peers
           /\ ps[p].here \in BOOLEAN
           /\ ps[p].team \in Side \cup {NoSide}
           /\ ps[p].here => ps[p] = Here(ps[p].team, ps[p].ready) /\ ps[p].ready \in BOOLEAN
           /\ ps[p].here => ps # Nobody
           /\ ps[p].ready => ps[p].here
           /\ ps[p].here => \A t \in Side : [ps EXCEPT ![p].team = t] \in Peers
           /\ ps[p].here => \A r \in BOOLEAN : [ps EXCEPT ![p].ready = r] \in Peers
           /\ ps[p].here => \A r \in BOOLEAN : [ps[p] EXCEPT !.ready = r] = Here(ps[p].team, r)
<1> DEFINE There == [here : {TRUE}, team : Side \cup {NoSide}, ready : BOOLEAN]
<1>1. /\ ps \in [Peer -> {Gone} \cup There] /\ ps[p] \in {Gone} \cup There
      /\ \A u \in {Gone} \cup There : [ps EXCEPT ![p] = u] \in Peers
  BY DEF Peers
<1>2. Gone.here = FALSE /\ Gone.team = NoSide /\ Gone.ready = FALSE
  BY DEF Gone
<1>3. \A t \in Side \cup {NoSide}, r \in BOOLEAN : Here(t, r) \in There
  BY DEF Here
<1>4. ASSUME NEW u \in There
      PROVE  /\ u.here = TRUE /\ u.team \in Side \cup {NoSide} /\ u.ready \in BOOLEAN
             /\ u = Here(u.team, u.ready)
             /\ \A t \in Side : [u EXCEPT !.team = t] \in There
             /\ \A r \in BOOLEAN : [u EXCEPT !.ready = r] = Here(u.team, r)
  <2>1. u.here = TRUE /\ u.team \in Side \cup {NoSide} /\ u.ready \in BOOLEAN
    OBVIOUS
  <2>2. ASSUME NEW x \in There PROVE x = Here(x.team, x.ready)
    BY DEF Here
  <2>3. \A t \in Side : [u EXCEPT !.team = t] \in There
    OBVIOUS
  <2>4. ASSUME NEW r \in BOOLEAN PROVE [u EXCEPT !.ready = r] = Here(u.team, r)
    <3> DEFINE x == [u EXCEPT !.ready = r]
    <3>1. x \in There /\ x.team = u.team /\ x.ready = r
      OBVIOUS
    <3> HIDE DEF x
    <3>2. x = Here(u.team, r)
      BY <2>2, <3>1
    <3>3. QED BY <3>2 DEF x
  <2>5. QED BY <2>1, <2>2, <2>3, <2>4
<1>5. \A t : [ps EXCEPT ![p].team = t] = [ps EXCEPT ![p] = [ps[p] EXCEPT !.team = t]]
  OBVIOUS
<1>6. \A r : [ps EXCEPT ![p].ready = r] = [ps EXCEPT ![p] = [ps[p] EXCEPT !.ready = r]]
  OBVIOUS
<1>7. ps[p].here \in BOOLEAN /\ ps[p].team \in Side \cup {NoSide} /\ (ps[p].here => ps[p] \in There)
  BY <1>1, <1>2, <1>4
<1>8. ps[p].ready => ps[p].here
  BY <1>1, <1>2, <1>4
<1>9. Nobody[p] = Gone
  BY DEF Nobody
<1> HIDE DEF There
<1>10. ps[p].here => ps # Nobody
  BY <1>2, <1>9
<1>11. [ps EXCEPT ![p] = Gone] \in Peers
  BY <1>1
<1>12. \A t \in Side \cup {NoSide}, r \in BOOLEAN : [ps EXCEPT ![p] = Here(t, r)] \in Peers
  BY <1>1, <1>3
<1>13. ps[p].here => \A t \in Side : [ps EXCEPT ![p].team = t] \in Peers
  BY <1>1, <1>4, <1>5, <1>7
<1>14. ASSUME ps[p].here, NEW r \in BOOLEAN PROVE [ps EXCEPT ![p].ready = r] \in Peers
  <2>1. [ps[p] EXCEPT !.ready = r] \in There
    <3>1. ps[p] \in There /\ ps[p].team \in Side \cup {NoSide}
      BY <1>7, <1>14
    <3>2. [ps[p] EXCEPT !.ready = r] = Here(ps[p].team, r)
      BY <1>4, <3>1
    <3>3. QED BY <1>3, <3>1, <3>2
  <2>2. QED BY <1>1, <1>6, <2>1
<1>15. ps[p].here => /\ ps[p] = Here(ps[p].team, ps[p].ready) /\ ps[p].ready \in BOOLEAN
                     /\ \A r \in BOOLEAN : [ps[p] EXCEPT !.ready = r] = Here(ps[p].team, r)
  BY <1>4, <1>7
<1>16. QED BY <1>7, <1>8, <1>10, <1>11, <1>12, <1>13, <1>14, <1>15

LEMMA ComesTold ==
    ASSUME NEW y, NEW n, Synced(y, n), NEW p \in Peer, NEW t \in Side \cup {NoSide},
           NEW r \in BOOLEAN
    PROVE  Tells(y, n, Result([n EXCEPT !.peers[p] = Here(t, r)], <<PeerPush("peer:joined", p)>>))
<1> DEFINE m == PeerPush("peer:joined", p)
           v == [y.store.peers EXCEPT ![p] = Here(@.team, FALSE)]
           w == [n.peers EXCEPT ![p] = Here(t, r)]
           k == [n EXCEPT !.peers[p] = Here(t, r)]
<1>0. y.store \in Stores /\ y.store.peers \in Peers /\ n \in Nodes /\ n.peers \in Peers
  BY DEF Synced, StoreOK, NodeOK, Stores, Nodes
<1>1. m.type \notin Answer /\ OnPush(y.store, m) = UpsertPeer(y.store, p) /\ m.type = "peer:joined"
  BY DEF PeerPush, Answer, OnPush
<1>2. UpsertPeer(y.store, p) = [y.store EXCEPT !.peers = v]
  BY <1>0 DEF UpsertPeer, Stores
<1>3. v \in Peers /\ w \in Peers
  BY <1>0, PlayerTypes
<1>4. k = [n EXCEPT !.peers = w]
  BY <1>0 DEF Nodes
<1> HIDE DEF m, v, w, k
<1>5. Tells(y, n, Result(k, <<m>>))
  BY <1>1, <1>2, <1>3, <1>4, OnlyThePlayers
<1>6. QED BY <1>5 DEF k, m

LEMMA LeavesTold ==
    ASSUME NEW y, NEW n, Synced(y, n), NEW p \in Peer, n.peers[p].here
    PROVE  Tells(y, n, Result([n EXCEPT !.peers[p] = Gone], <<PeerPush("peer:left", p)>>))
<1> DEFINE m == PeerPush("peer:left", p)
           v == [y.store.peers EXCEPT ![p] = Gone]
           w == [n.peers EXCEPT ![p] = Gone]
           k == [n EXCEPT !.peers[p] = Gone]
<1>0. y.store \in Stores /\ y.store.peers \in Peers /\ n \in Nodes /\ n.peers \in Peers
  BY DEF Synced, StoreOK, NodeOK, Stores, Nodes
<1>1. m.type \notin Answer /\ OnPush(y.store, m) = RemovePeer(y.store, p)
  BY DEF PeerPush, Answer, OnPush
<1>2. RemovePeer(y.store, p) = [y.store EXCEPT !.peers = v]
  BY <1>0 DEF RemovePeer, Stores
<1>3. v \in Peers /\ w \in Peers /\ n.peers # Nobody
  BY <1>0, PlayerTypes
<1>4. k = [n EXCEPT !.peers = w]
  BY <1>0 DEF Nodes
<1>5. PeersShown(y.store, n) => Present(v) = Present(w) /\ (~ again => v = w)
  <2>1. Present(v) = Present(y.store.peers) \ {p} /\ Present(w) = Present(n.peers) \ {p}
    BY <1>0 DEF Present, Peers, Gone
  <2>2. y.store.peers = n.peers => v = w
    OBVIOUS
  <2> HIDE DEF v, w
  <2>3. QED BY <2>1, <2>2 DEF PeersShown
<1> HIDE DEF m, v, w, k
<1>6. Tells(y, n, Result(k, <<m>>))
  BY <1>1, <1>2, <1>3, <1>4, <1>5, OnlyThePlayers
<1>7. QED BY <1>6 DEF k, m

LEMMA SideTold ==
    ASSUME NEW y, NEW n, Synced(y, n), NEW p \in Peer, n.peers[p].here, NEW t \in Side
    PROVE  Tells(y, n, Result([n EXCEPT !.peers[p].team = t], <<TeamUpdated(p, t)>>))
<1> DEFINE m == TeamUpdated(p, t)
           v == IF y.store.peers[p].here THEN [y.store.peers EXCEPT ![p].team = t]
                                         ELSE y.store.peers
           w == [n.peers EXCEPT ![p].team = t]
           k == [n EXCEPT !.peers[p].team = t]
<1>0. y.store \in Stores /\ y.store.peers \in Peers /\ n \in Nodes /\ n.peers \in Peers
  BY DEF Synced, StoreOK, NodeOK, Stores, Nodes
<1>1. m.type \notin Answer /\ OnPush(y.store, m) = UpdatePeerTeam(y.store, p, t)
  BY DEF TeamUpdated, Answer, OnPush
<1>2. UpdatePeerTeam(y.store, p, t) = [y.store EXCEPT !.peers = v]
  BY <1>0 DEF UpdatePeerTeam, Stores
<1>3. v \in Peers /\ w \in Peers /\ n.peers # Nobody
  BY <1>0, PlayerTypes
<1>4. k = [n EXCEPT !.peers = w]
  BY <1>0 DEF Nodes
<1>5. PeersShown(y.store, n) => Present(v) = Present(w) /\ (~ again => v = w)
  <2>1. Present(v) = Present(y.store.peers) /\ Present(w) = Present(n.peers)
    BY <1>0 DEF Present, Peers
  <2>2. y.store.peers = n.peers => v = w
    OBVIOUS
  <2> HIDE DEF v, w
  <2>3. QED BY <2>1, <2>2 DEF PeersShown
<1> HIDE DEF m, v, w, k
<1>6. Tells(y, n, Result(k, <<m>>))
  BY <1>1, <1>2, <1>3, <1>4, <1>5, OnlyThePlayers
<1>7. QED BY <1>6 DEF k, m

\* Whether a player is ready; its side is new only to a player that played again.
LEMMA ReadinessTold ==
    ASSUME NEW y, NEW n, Synced(y, n), NEW p \in Peer, n.peers[p].here,
           NEW t \in Side \cup {NoSide}, n.peers[p].team = t \/ again, NEW r \in BOOLEAN
    PROVE  Tells(y, n, Result([n EXCEPT !.peers[p] = Here(t, r)], <<ReadyChanged(p, r)>>))
<1> DEFINE m == ReadyChanged(p, r)
           v == IF y.store.peers[p].here THEN [y.store.peers EXCEPT ![p].ready = r]
                                         ELSE y.store.peers
           w == [n.peers EXCEPT ![p] = Here(t, r)]
           k == [n EXCEPT !.peers[p] = Here(t, r)]
<1>0. y.store \in Stores /\ y.store.peers \in Peers /\ n \in Nodes /\ n.peers \in Peers
  BY DEF Synced, StoreOK, NodeOK, Stores, Nodes
<1>1. m.type \notin Answer /\ OnPush(y.store, m) = UpdatePeerReady(y.store, p, r)
  BY DEF ReadyChanged, Answer, OnPush
<1>2. UpdatePeerReady(y.store, p, r) = [y.store EXCEPT !.peers = v]
  BY <1>0 DEF UpdatePeerReady, Stores
<1>3. v \in Peers /\ w \in Peers /\ n.peers # Nobody
  BY <1>0, PlayerTypes
<1>4. k = [n EXCEPT !.peers = w]
  BY <1>0 DEF Nodes
<1>5. PeersShown(y.store, n) => Present(v) = Present(w) /\ (~ again => v = w)
  <2>1. Present(v) = Present(y.store.peers) /\ Present(w) = Present(n.peers)
    BY <1>0 DEF Present, Peers, Here
  <2>2. y.store.peers = n.peers /\ ~ again => v = w
    <3>1. n.peers[p].team = t => [n.peers[p] EXCEPT !.ready = r] = Here(t, r)
      BY <1>0, PlayerTypes
    <3>2. QED BY <1>0, <3>1 DEF Peers
  <2> HIDE DEF v, w
  <2>3. QED BY <2>1, <2>2 DEF PeersShown
<1> HIDE DEF m, v, w, k
<1>6. Tells(y, n, Result(k, <<m>>))
  BY <1>1, <1>2, <1>3, <1>4, <1>5, OnlyThePlayers
<1>7. QED BY <1>6 DEF k, m

-----------------------------------------------------------------------------
(* Settings.                                                               *)

LEMMA HandshakeTypes ==
    ASSUME NEW h \in H!Handshake, NEW p \in Peer, NEW c \in AnySettings, NEW v \in Nat
    PROVE  /\ H!Propose(h, c) \in H!Handshake
           /\ H!AcceptCurrent(h) \in H!Handshake
           /\ H!ReceiveProposal(h, p, c, v) \in H!Handshake
           /\ H!ReceiveAccept(h, p, v) \in H!Handshake
<1>1. H!Propose(h, c) \in H!Handshake
  BY DEF H!Propose, H!Handshake, H!Version, H!None
<1>2. H!AcceptCurrent(h) \in H!Handshake
  BY DEF H!AcceptCurrent, H!Handshake, H!Version, H!None
<1>3. H!ReceiveProposal(h, p, c, v) \in H!Handshake
  BY DEF H!ReceiveProposal, H!Handshake, H!Version, H!None
<1>4. H!ReceiveAccept(h, p, v) \in H!Handshake
  BY DEF H!ReceiveAccept, H!Handshake, H!Version, H!None
<1>5. QED BY <1>1, <1>2, <1>3, <1>4

\* Another resign part leaves the vote part alone.
LEMMA ExceptTypes ==
    ASSUME NEW c \in AnySettings, NEW r \in NoNumber
    PROVE  Except(c, r) \in AnySettings /\ Except(c, r).vote = c.vote
<1>1. PICK d \in Settings : c = d \/ \E x \in NoNumber : c = Except(d, x)
  BY DEF AnySettings
<1>2. d = [vote |-> d.vote, resign |-> d.resign]
  BY SettingsAssumption
<1>3. Except(c, r) = Except(d, r) /\ Except(c, r).vote = c.vote
  BY <1>1, <1>2 DEF Except
<1>4. QED BY <1>3 DEF AnySettings

LEMMA ProposalTypes == \A v : Proposals(v) \subseteq AnySettings
BY SettingsAssumption DEF Proposals, AnySettings, NoNumber

LEMMA InitialHandshakeType == H!InitialHandshake \in H!Handshake
BY DefaultType DEF H!InitialHandshake, H!Handshake, H!Version, H!None

\* Stores that differ in the settings.
Alike(s, t) ==
    /\ s.phase = t.phase /\ s.team = t.team /\ s.window = t.window /\ s.resign = t.resign
    /\ s.peers = t.peers

LEMMA AlikeShown ==
    ASSUME NEW y, NEW n, Synced(y, n), NEW s \in Stores, Alike(s, y.store),
           NEW h \in H!Handshake, NEW k, k = [n EXCEPT !.hs = h], SettingsShown(s, h)
    PROVE  /\ StoreOK(s) /\ NodeOK(k) /\ GameShown(s, k)
           /\ PhaseShown(y.store, n) => PhaseShown(s, k)
           /\ PeersShown(y.store, n) => PeersShown(s, k)
           /\ k.peers = n.peers /\ k.phase = n.phase /\ k.team = n.team /\ k.hs = h
<1>1. StoreOK(s)
  BY DEF Synced, StoreOK, Alike
<1>2. /\ k \in Nodes /\ k.phase = n.phase /\ k.window = n.window /\ k.resign = n.resign
      /\ k.team = n.team /\ k.hs = h /\ k.peers = n.peers
  BY DEF Synced, NodeOK, Nodes
<1>3. NodeOK(k)
  BY <1>2 DEF NodeOK, Synced
<1>4. GameShown(s, k)
  BY <1>2 DEF Alike, Synced, GameShown, RestShown, WindowShown
<1>5. /\ PhaseShown(y.store, n) => PhaseShown(s, k)
      /\ PeersShown(y.store, n) => PeersShown(s, k)
  BY <1>2 DEF Alike, PhaseShown, PeersShown
<1>6. QED BY <1>1, <1>2, <1>3, <1>4, <1>5

LEMMA OnlyTheSettings ==
    ASSUME NEW y, NEW n, Synced(y, n), NEW m, m.type \notin Answer,
           NEW s \in Stores, s = OnPush(y.store, m), Alike(s, y.store),
           NEW h \in H!Handshake, NEW k, k = [n EXCEPT !.hs = h], SettingsShown(s, h)
    PROVE  Reaches(y, n, Result(k, <<m>>), WithStore(y, s))
<1>1. /\ StoreOK(s) /\ NodeOK(k) /\ GameShown(s, k)
      /\ PhaseShown(y.store, n) => PhaseShown(s, k)
      /\ PeersShown(y.store, n) => PeersShown(s, k)
      /\ k.peers = n.peers /\ k.phase = n.phase /\ k.team = n.team
  BY AlikeShown
<1>2. StoreOK(y.store)
  BY DEF Synced
<1>3. QED BY <1>1, <1>2, OnePush

\* Settings are replaced, the vote part by theirs, and only their proposer has accepted them.
LEMMA UpdateTold ==
    ASSUME NEW y, NEW n, Synced(y, n), NEW h \in H!Handshake, NEW p \in Anyone,
           p \in Peer => h.accepted[p] >= h.version,
           NEW c \in AnySettings, c.vote = h.config.vote,
           NEW k, k = [n EXCEPT !.hs = h]
    PROVE  Tells(y, n, Result(k, <<ConfigUpdated(c, h.version, p)>>))
<1> DEFINE m == ConfigUpdated(c, h.version, p)
           s == SetConfigUpdated(y.store, c, h.version, p)
<1>1. m.type \notin Answer /\ s = OnPush(y.store, m)
  BY DEF ConfigUpdated, Answer, OnPush
<1>2. h.version \in Nat
  BY DEF H!Handshake, H!Version
<1>3. /\ s \in Stores /\ Alike(s, y.store)
      /\ s.version = h.version /\ s.config = c /\ s.accepted = {p}
  BY <1>2 DEF Synced, StoreOK, Stores, SetConfigUpdated, Alike
<1>4. SettingsShown(s, h)
  BY <1>3 DEF SettingsShown
<1> HIDE DEF s, m
<1>5. Reaches(y, n, Result(k, <<m>>), WithStore(y, s))
  BY <1>1, <1>3, <1>4, OnlyTheSettings
<1>6. QED BY <1>5 DEF Tells, m

LEMMA SelfAcceptTold ==
    ASSUME NEW y, NEW n, Synced(y, n), NEW v,
           NEW k, k = [n EXCEPT !.hs = H!AcceptCurrent(@)]
    PROVE  Tells(y, n, Result(k, <<SelfAccepted(v)>>))
<1> DEFINE m == SelfAccepted(v)
           s == SetSelfAccepted(y.store, v)
           h == H!AcceptCurrent(n.hs)
<1>1. m.type \notin Answer /\ s = OnPush(y.store, m)
  BY DEF SelfAccepted, Answer, OnPush
<1>2. n \in Nodes /\ n.hs \in H!Handshake /\ y.store \in Stores
  BY DEF Synced, StoreOK, NodeOK, Nodes
<1>3. /\ h \in H!Handshake /\ h.version = n.hs.version /\ h.config = n.hs.config
      /\ h.accepted = n.hs.accepted
  BY <1>2 DEF H!AcceptCurrent, H!Handshake, H!Version
<1>4. /\ s \in Stores /\ Alike(s, y.store)
      /\ s.version = y.store.version /\ s.config = y.store.config
      /\ s.accepted = y.store.accepted
  BY <1>2 DEF Stores, SetSelfAccepted, Alike
<1>5. SettingsShown(s, h)
  BY <1>3, <1>4 DEF SettingsShown, Synced, GameShown, RestShown
<1>6. k = [n EXCEPT !.hs = h]
  BY <1>2 DEF Nodes
<1> HIDE DEF s, m, h
<1>7. Reaches(y, n, Result(k, <<m>>), WithStore(y, s))
  BY <1>1, <1>3, <1>4, <1>5, <1>6, OnlyTheSettings
<1>8. QED BY <1>7 DEF Tells, m

\* A peer has accepted the settings in force.
LEMMA AcceptTold ==
    ASSUME NEW y, NEW n, Synced(y, n), NEW p \in Peer, n.hs.accepted[p] >= n.hs.version
    PROVE  Tells(y, n, Result(n, <<PeerPush("config:peer_accepted", p)>>))
<1> DEFINE m == PeerPush("config:peer_accepted", p)
           s == AddPeerAccepted(y.store, p)
<1>1. m.type \notin Answer /\ s = OnPush(y.store, m)
  BY DEF PeerPush, Answer, OnPush
<1>2. n \in Nodes /\ n.hs \in H!Handshake /\ y.store \in Stores
  BY DEF Synced, StoreOK, NodeOK, Nodes
<1>3. /\ s \in Stores /\ Alike(s, y.store)
      /\ s.version = y.store.version /\ s.config = y.store.config
      /\ s.accepted = y.store.accepted \cup {p}
  BY <1>2 DEF Stores, AddPeerAccepted, Alike, Anyone
<1>4. SettingsShown(s, n.hs)
  BY <1>3 DEF SettingsShown, Synced, GameShown, RestShown
<1>5. n = [n EXCEPT !.hs = n.hs]
  BY <1>2 DEF Nodes
<1> HIDE DEF s, m
<1>6. Reaches(y, n, Result(n, <<m>>), WithStore(y, s))
  BY <1>1, <1>2, <1>3, <1>4, <1>5, OnlyTheSettings
<1>7. QED BY <1>6 DEF Tells, m

\* Nothing is shown of settings that were accepted already.
LEMMA SilentTold ==
    ASSUME NEW y, NEW n, Synced(y, n), NEW h \in H!Handshake, SettingsShown(y.store, h),
           NEW k, k = [n EXCEPT !.hs = h]
    PROVE  Tells(y, n, Result(k, <<>>))
<1>1. y.store \in Stores /\ StoreOK(y.store) /\ Alike(y.store, y.store)
  BY DEF Synced, StoreOK, Alike
<1>2. /\ NodeOK(k) /\ GameShown(y.store, k)
      /\ PhaseShown(y.store, n) => PhaseShown(y.store, k)
      /\ PeersShown(y.store, n) => PeersShown(y.store, k)
      /\ k.peers = n.peers /\ k.phase = n.phase /\ k.team = n.team
  BY <1>1, AlikeShown
<1>3. Leads(y, <<>>, y)
  BY <1>1, LeadsNowhere
<1>4. Reaches(y, n, Result(k, <<>>), y)
  BY <1>2, <1>3 DEF Reaches, Result
<1>5. QED BY <1>4 DEF Tells

\* Peers that accepted the settings before they were proposed to us, in any order.
LEMMA EarlyTold ==
    ASSUME NEW y, NEW n, Synced(y, n), NEW K \in Nat, NEW order \in [1..K -> Peer],
           \A i \in 1..K : n.hs.accepted[order[i]] >= n.hs.version,
           NEW out, out = [i \in 1..K |-> PeerPush("config:peer_accepted", order[i])]
    PROVE  Tells(y, n, Result(n, out))
<1> DEFINE S(i) == [y.store EXCEPT !.accepted = @ \cup {order[j] : j \in 1..i}]
           tr   == [i \in 0..K |-> IF i = 0 THEN y ELSE WithStore(y, S(i))]
           s    == S(K)
           z    == tr[K]
<1>0. /\ n \in Nodes /\ n.hs \in H!Handshake
      /\ y.store \in Stores /\ StoreOK(y.store)
      /\ SettingsShown(y.store, n.hs) /\ n = [n EXCEPT !.hs = n.hs]
  BY DEF Synced, StoreOK, NodeOK, Nodes, GameShown, RestShown
<1>1. ASSUME NEW i \in 0..K
      PROVE  /\ S(i) \in Stores /\ Alike(S(i), y.store)
             /\ S(i).version = y.store.version /\ S(i).config = y.store.config
             /\ S(i).accepted = y.store.accepted \cup {order[j] : j \in 1..i}
  <2>1. {order[j] : j \in 1..i} \subseteq Anyone
    BY DEF Anyone
  <2> DEFINE A == {order[j] : j \in 1..i}
  <2> HIDE DEF A
  <2>2. A \subseteq Anyone => LET t == [y.store EXCEPT !.accepted = @ \cup A] IN
            /\ t \in Stores /\ Alike(t, y.store)
            /\ t.version = y.store.version /\ t.config = y.store.config
            /\ t.accepted = y.store.accepted \cup A
    BY <1>0 DEF Stores, Alike
  <2>3. QED BY <2>1, <2>2 DEF A
<1>2. S(0) = y.store
  <2>1. {order[j] : j \in 1..0} = {}
    OBVIOUS
  <2>2. QED BY <1>0, <2>1 DEF Stores
<1>3. ASSUME NEW i \in 1..K PROVE AddPeerAccepted(S(i - 1), order[i]) = S(i)
  <2>1. i - 1 \in 0..K /\ i \in 0..K
    OBVIOUS
  <2>2. {order[j] : j \in 1..i} = {order[j] : j \in 1..(i - 1)} \cup {order[i]}
    OBVIOUS
  <2> DEFINE A == {order[j] : j \in 1..(i - 1)}
             B == {order[j] : j \in 1..i}
  <2> HIDE DEF A, B
  <2>3. B = A \cup {order[i]} =>
          AddPeerAccepted([y.store EXCEPT !.accepted = @ \cup A], order[i])
              = [y.store EXCEPT !.accepted = @ \cup B]
    BY <1>0 DEF AddPeerAccepted, Stores
  <2>4. QED BY <2>2, <2>3 DEF A, B
<1>4. StoreOK(s) /\ SettingsShown(s, n.hs)
  <2>1. K \in 0..K
    OBVIOUS
  <2>2. /\ s \in Stores /\ Alike(s, y.store)
        /\ s.version = y.store.version /\ s.config = y.store.config
        /\ s.accepted = y.store.accepted \cup {order[j] : j \in 1..K}
    BY <1>1, <2>1
  <2> HIDE DEF s
  <2>3. QED BY <1>0, <2>2 DEF StoreOK, Alike, SettingsShown
<1> HIDE DEF S
<1>5. ASSUME NEW i \in 0..K
      PROVE  /\ tr[i].store = S(i) /\ tr[i].got = y.got /\ tr[i].joined = y.joined
             /\ tr[i].begun = y.begun
  BY <1>2 DEF WithStore, View
<1>6. tr[0] = y /\ \A i \in 1..K : tr[i] = View(S(i), y.got, y.joined, y.begun)
  BY DEF WithStore
<1> HIDE DEF tr
<1>7. ASSUME NEW i \in 0..K PROVE StoreOK(tr[i].store) /\ (tr[i].joined => z.joined)
  <2>1. K \in 0..K
    OBVIOUS
  <2>2. S(i) \in Stores /\ Alike(S(i), y.store)
    BY <1>1
  <2>3. StoreOK(S(i))
    BY <1>0, <2>2 DEF StoreOK, Alike
  <2>4. QED BY <1>5, <2>1, <2>3
<1>8. /\ out \in Seq({out[i] : i \in 1..K}) /\ Len(out) = K
      /\ \A i \in 1..K : out[i] = PeerPush("config:peer_accepted", order[i])
  OBVIOUS
<1>9. ASSUME NEW i \in 1..K
      PROVE  Legal(tr[i - 1], out[i]) /\ tr[i] = Handled(tr[i - 1], out[i])
  <2>1. i - 1 \in 0..K
    OBVIOUS
  <2>2. out[i].type \notin Answer
    BY <1>8 DEF PeerPush, Answer
  <2>3. Handled(tr[i - 1], out[i]) = WithStore(tr[i - 1], OnPush(tr[i - 1].store, out[i]))
    BY <2>2 DEF Handled, Answer
  <2>4. \A t : OnPush(t, out[i]) = AddPeerAccepted(t, order[i])
    BY <1>8 DEF PeerPush, OnPush
  <2>5. Handled(tr[i - 1], out[i]) = View(S(i), y.got, y.joined, y.begun)
    BY <1>3, <1>5, <2>1, <2>3, <2>4 DEF WithStore
  <2>6. Legal(tr[i - 1], out[i])
    BY <2>2 DEF Legal, ForJoin, Answer, Fetched
  <2>7. QED BY <1>6, <2>5, <2>6
<1>10. Leads(y, out, z)
  BY <1>6, <1>7, <1>8, <1>9 DEF Leads, IsSeq
<1>11. z.store = s /\ z.got = y.got /\ z.joined = y.joined
  BY <1>5
<1>12. s \in Stores /\ Alike(s, y.store)
  BY <1>1
<1> HIDE DEF s, z
<1>13. /\ NodeOK(n) /\ GameShown(s, n)
       /\ PhaseShown(y.store, n) => PhaseShown(s, n)
       /\ PeersShown(y.store, n) => PeersShown(s, n)
  BY <1>0, <1>4, <1>12, AlikeShown
<1>14. Reaches(y, n, Result(n, out), z)
  BY <1>10, <1>11, <1>13 DEF Reaches, Result
<1>15. QED BY <1>14 DEF Tells

-----------------------------------------------------------------------------
(* The game starts.                                                        *)

\* Outside a game no vote is on the screen.
LEMMA ClosedOutside ==
    ASSUME NEW y, NEW n, Synced(y, n), n.phase # "in_progress"
    PROVE  y.store.window = NoWindow /\ y.store.resign = NoResign
           /\ n.window = NoWindow /\ n.resign = {}
<1>1. n.window = NoWindow /\ n.resign = {} /\ n \in Nodes
  BY DEF Synced, NodeOK
<1>2. y.store.window.turn = -1 /\ y.store.resign.yes = 0
  BY <1>1, FS_EmptySet DEF Synced, GameShown, WindowShown, RestShown, NoWindow
<1>3. QED BY <1>1, <1>2 DEF Synced, StoreOK

\* The screen is told the phase and our side.
LEMMA PhaseTold ==
    ASSUME NEW y, NEW n, Synced(y, n), n.phase \in {"waiting_for_peers", "starting"},
           NEW m, m.type \notin Answer, NEW phase \in {"starting", "in_progress"},
           OnPush(y.store, m) = SetPhase(y.store, phase, n.team),
           NEW k \in Nodes, k.phase = phase, k.team = n.team, k.peers = n.peers,
           k.window = n.window, k.resign = n.resign, k.hs = n.hs
    PROVE  Tells(y, n, Result(k, <<m>>))
<1> DEFINE s == SetPhase(y.store, phase, n.team)
<1>1. /\ y.store.window = NoWindow /\ y.store.resign = NoResign
      /\ n.window = NoWindow /\ n.resign = {}
  BY ClosedOutside
<1>2. n.team \in Side /\ n.team # NoSide /\ y.store \in Stores /\ StoreOK(y.store)
  BY DEF Synced, NodeOK, StoreOK, Side, NoSide
<1>3. /\ s \in Stores /\ s.phase = phase /\ s.window = NoWindow
      /\ s.resign = y.store.resign
      /\ s.team = n.team /\ s.version = y.store.version /\ s.config = y.store.config
      /\ s.accepted = y.store.accepted /\ s.peers = y.store.peers
  BY <1>1, <1>2 DEF Stores, SetPhase, Phase
<1>4. StoreOK(s)
  BY <1>1, <1>3 DEF StoreOK
<1>5. NodeOK(k)
  BY <1>1, <1>2 DEF NodeOK
<1>6. GameShown(s, k) /\ PhaseShown(s, k)
  BY <1>1, <1>3 DEF Synced, GameShown, RestShown, WindowShown, PhaseShown, SettingsShown
<1>7. PeersShown(y.store, n) => PeersShown(s, k)
  BY <1>3 DEF PeersShown
<1> HIDE DEF s
<1>8. s = OnPush(y.store, m)
  BY DEF s
<1>9. Reaches(y, n, Result(k, <<m>>), WithStore(y, s))
  BY <1>2, <1>4, <1>5, <1>6, <1>7, <1>8, OnePush
<1>10. QED BY <1>9 DEF Tells

-----------------------------------------------------------------------------
(* What happens to the node.                                               *)

\* More is told, and nothing more asked for.
LEMMA MoreTold ==
    ASSUME ScreenInv, NEW r, \A y : Synced(y, node) => Tells(y, node, r),
           node' = r.node, told' = told \o r.out,
           UNCHANGED <<store, asked, got, joined, refreshes, again>>
    PROVE  ScreenInv'
<1>1. PICK b, y : b \in BOOLEAN /\ Leads(Now(b), told, y) /\ Agrees(b, y)
  BY DEF ScreenInv
<1>2. Synced(y, node)
  BY <1>1, LeadsOK DEF Synced, ScreenInv, Agrees
<1>3. PICK z : Reaches(y, node, r, z)
  BY <1>2 DEF Tells
<1>4. Leads(Now(b), told', z) /\ Now(b)' = Now(b)
  BY <1>1, <1>3, LeadsOn DEF Reaches, Now
<1>5. /\ StateTold(told') <=> StateTold(told) \/ StateTold(r.out)
      /\ PeerTold(told') <=> PeerTold(told) \/ PeerTold(r.out)
  BY <1>1, <1>3, LeadsOK, ToldInBoth DEF Reaches
<1>6. /\ StateComes' <=> StateComes \/ StateTold(r.out)
      /\ ListComes' <=> ListComes \/ PeerTold(r.out)
  BY <1>5 DEF StateComes, ListComes
<1>7. joined => y.joined
  BY <1>1, LeadsOK DEF Now, View
<1>8. ~ joined => node.phase = "waiting_for_side" /\ node.team = NoSide
                  /\ node'.phase = "waiting_for_side" /\ node'.team = NoSide
  BY <1>1, <1>3 DEF Agrees, Joining, Reaches
<1>9. ~ joined => HeldState' = HeldState
  BY <1>8 DEF HeldState, Snapshot
<1>10. Joining(b, z)'
  BY <1>1, <1>3, <1>6, <1>7, <1>8, <1>9 DEF Agrees, Joining, Reaches
<1>11. /\ GameShown(z.store, node')
       /\ ~ StateComes' => PhaseShown(z.store, node')
       /\ ~ ListComes' => PeersShown(z.store, node)'
  BY <1>1, <1>3, <1>6 DEF Agrees, Reaches, PeersShown
<1>12. Agrees(b, z)'
  BY <1>10, <1>11 DEF Agrees
<1>13. NodeOK(node') /\ refreshes' \in Nat
  BY <1>3 DEF Reaches, ScreenInv
<1>14. QED BY <1>1, <1>4, <1>12, <1>13 DEF ScreenInv

LEMMA HappensKeeps ==
    ASSUME ScreenInv, NEW results, Happens(results),
           \A r \in results : \A y : Synced(y, node) => Tells(y, node, r)
    PROVE  ScreenInv'
<1>1. PICK r \in results : node' = r.node /\ told' = told \o r.out
  BY DEF Happens
<1>2. UNCHANGED <<store, asked, got, joined, refreshes, again>>
  BY DEF Happens
<1>3. QED BY <1>1, <1>2, MoreTold

LEMMA Others ==
    ASSUME ScreenInv, NEW p \in Peer,
           PeerJoins(p) \/ PeerLeaves(p) \/ GetsUnready(p)
           \/ \E t \in Side : ChoosesSide(p, t) \/ GetsReady(p, t)
    PROVE  ScreenInv'
<1>0. node \in Nodes /\ node.peers \in Peers /\ node.roster \in [Peer -> Side \cup {NoSide}]
      /\ \A r : Result(node, <<>>).node = node
  BY DEF ScreenInv, NodeOK, Nodes, Result
<1>1. CASE PeerJoins(p)
  <2> DEFINE t == IF InGame(node) THEN node.roster[p] ELSE NoSide
             g == InGame(node)
             r == Result([node EXCEPT !.peers[p] = Here(t, g)], <<PeerPush("peer:joined", p)>>)
  <2>1. t \in Side \cup {NoSide} /\ g \in BOOLEAN
    BY <1>0 DEF InGame
  <2>2. (IF InGame(node) THEN Here(node.roster[p], TRUE) ELSE Here(NoSide, FALSE)) = Here(t, g)
    <3>1. CASE InGame(node)
      <4>1. g = TRUE
        BY <2>1, <3>1
      <4>2. QED BY <3>1, <4>1
    <3>2. CASE ~ InGame(node)
      <4>1. g = FALSE
        BY <2>1, <3>2
      <4>2. QED BY <3>2, <4>1
    <3>3. QED BY <3>1, <3>2
  <2>3. Happens({r})
    BY <1>1, <2>2 DEF PeerJoins
  <2>4. \A y : Synced(y, node) => Tells(y, node, r)
    BY <2>1, ComesTold
  <2>5. QED BY <2>3, <2>4, HappensKeeps
<1>2. CASE PeerLeaves(p)
  <2> DEFINE r == Result([node EXCEPT !.peers[p] = Gone], <<PeerPush("peer:left", p)>>)
  <2>1. Happens(Counted(CheckResign(r))) /\ node.peers[p].here
    BY <1>2 DEF PeerLeaves
  <2>2. \A y : Synced(y, node) => Tells(y, node, r)
    BY <2>1, LeavesTold
  <2> HIDE DEF r
  <2>3. \A y : Synced(y, node) => \A q \in Counted(CheckResign(r)) : Tells(y, node, q)
    BY <2>2, ResignCheckTold, CountedTold
  <2>4. QED BY <2>1, <2>3, HappensKeeps
<1>3. CASE GetsUnready(p)
  <2> DEFINE r == Result([node EXCEPT !.peers[p].ready = FALSE], <<ReadyChanged(p, FALSE)>>)
             t == node.peers[p].team
  <2>1. Happens({r}) /\ node.peers[p].ready
    BY <1>3 DEF GetsUnready
  <2>2. node.peers[p].here /\ t \in Side \cup {NoSide}
        /\ [node.peers[p] EXCEPT !.ready = FALSE] = Here(t, FALSE)
    <3>1. node.peers[p].here
      BY <1>0, <2>1, PlayerTypes
    <3>2. QED BY <1>0, <3>1, PlayerTypes
  <2>3. [node EXCEPT !.peers[p].ready = FALSE] = [node EXCEPT !.peers[p] = Here(t, FALSE)]
    BY <2>2
  <2>4. \A y : Synced(y, node) => Tells(y, node, r)
    BY <2>2, <2>3, ReadinessTold
  <2>5. QED BY <2>1, <2>4, HappensKeeps
<1>4. ASSUME NEW t \in Side, ChoosesSide(p, t) PROVE ScreenInv'
  <2> DEFINE r == Result([node EXCEPT !.peers[p].team = t], <<TeamUpdated(p, t)>>)
  <2>1. Happens({r}) /\ node.peers[p].here
    BY <1>4 DEF ChoosesSide
  <2>2. \A y : Synced(y, node) => Tells(y, node, r)
    BY <2>1, SideTold
  <2>3. QED BY <2>1, <2>2, HappensKeeps
<1>5. ASSUME NEW t \in Side, GetsReady(p, t) PROVE ScreenInv'
  <2> DEFINE r == Result([node EXCEPT !.peers[p] = Here(t, TRUE)], <<ReadyChanged(p, TRUE)>>)
  <2>1. Happens({r}) /\ node.peers[p].here /\ (node.peers[p].team = t \/ again)
    BY <1>5 DEF GetsReady
  <2>2. \A y : Synced(y, node) => Tells(y, node, r)
    BY <2>1, ReadinessTold
  <2>3. QED BY <2>1, <2>2, HappensKeeps
<1>6. QED BY <1>1, <1>2, <1>3, <1>4, <1>5

LEMMA SettingsEvents ==
    ASSUME ScreenInv, NEW p \in Peer, NEW v \in 0..MaxVersion,
           AcceptArrives(p, v) \/ \E c \in Proposals(v) : ProposalArrives(p, c, v)
    PROVE  ScreenInv'
<1>0. node \in Nodes /\ node.hs \in H!Handshake /\ v \in Nat /\ NodeOK(node)
      /\ node.hs.version \in Nat
  BY BoundAssumption DEF ScreenInv, NodeOK, Nodes, H!Handshake, H!Version
<1>1. CASE AcceptArrives(p, v)
  <2> DEFINE h == H!ReceiveAccept(node.hs, p, v)
             k == [node EXCEPT !.hs = H!ReceiveAccept(@, p, v)]
             m == PeerPush("config:peer_accepted", p)
             r == Result(k, IF v = node.hs.version THEN <<m>> ELSE <<>>)
  <2>1. Happens({r}) /\ v >= node.hs.version
    BY <1>0, <1>1 DEF AcceptArrives, H!IsStale
  <2>2. h \in H!Handshake
    BY <1>0, HandshakeTypes, DefaultType
  <2>3. /\ h.version = node.hs.version /\ h.config = node.hs.config /\ h.accepted[p] = v
        /\ \A q \in Peer \ {p} : h.accepted[q] = node.hs.accepted[q]
    BY <1>0, <2>1 DEF H!ReceiveAccept, H!IsStale, H!Handshake, H!Version, H!None
  <2>4. k = [node EXCEPT !.hs = h] /\ k.hs = h
    BY <1>0 DEF Nodes
  <2> HIDE DEF h, k, m
  <2>5. ASSUME NEW y, Synced(y, node) PROVE Tells(y, node, r)
    <3>1. SettingsShown(y.store, node.hs)
      BY <2>5 DEF Synced, GameShown, RestShown
    <3>2. SettingsShown(y.store, h)
      BY <2>1, <2>3, <3>1 DEF SettingsShown
    <3>3. Tells(y, node, Result(k, <<>>))
      BY <2>2, <2>4, <2>5, <3>2, SilentTold
    <3>4. CASE v # node.hs.version
      BY <3>3, <3>4
    <3>5. CASE v = node.hs.version
      <4>1. h.accepted[p] >= h.version
        BY <1>0, <2>3, <3>5
      <4>2. \A z : Synced(z, k) => Tells(z, k, Result(k, <<m>>))
        BY <2>4, <4>1, AcceptTold DEF m
      <4>3. Result(k, <<>>).node = k /\ Then(Result(k, <<>>), Result(k, <<m>>)) = r
        BY <3>5 DEF Result, Then
      <4>4. QED BY <3>3, <4>2, <4>3, TellsOn
    <3>6. QED BY <3>4, <3>5
  <2>6. QED BY <2>1, <2>5, HappensKeeps
<1>2. ASSUME NEW c \in Proposals(v), ProposalArrives(p, c, v) PROVE ScreenInv'
  <2>0. c \in AnySettings
    BY ProposalTypes
  <2> DEFINE h     == H!ReceiveProposal(node.hs, p, c, v)
             early == {q \in Peer \ {p} : node.hs.accepted[q] = v}
             K     == Cardinality(early)
             k     == [node EXCEPT !.hs = h]
  <2>1. PICK order \in [1..K -> early] :
            Happens({Result(k, (IF h.self = v THEN <<>> ELSE <<PeerProposed(c, v, p)>>)
                       \o [i \in DOMAIN order |-> PeerPush("config:peer_accepted", order[i])])})
    BY <1>2 DEF ProposalArrives
  <2> DEFINE first == IF h.self = v THEN <<>> ELSE <<PeerProposed(c, v, p)>>
             out   == [i \in 1..K |-> PeerPush("config:peer_accepted", order[i])]
             r     == Result(k, first \o out)
  <2>2. K \in Nat /\ order \in [1..K -> Peer]
    <3>1. early \in SUBSET Anyone /\ early \subseteq Peer
      BY DEF Anyone
    <3>2. IsFiniteSet(early)
      BY <3>1, AnyoneIsFinite
    <3>3. K \in Nat
      BY <3>2, FS_CardinalityType
    <3>4. QED BY <3>1, <3>3
  <2>3. v >= node.hs.version
    BY <1>0, <1>2 DEF ProposalArrives, H!IsStale
  <2>4. h \in H!Handshake
    BY <1>0, <2>0, HandshakeTypes
  <2>5. /\ h.version = v /\ h.config = c /\ h.accepted[p] = v
        /\ \A q \in Peer \ {p} : node.hs.accepted[q] >= v => h.accepted[q] = node.hs.accepted[q]
        /\ h.self = v => H!SameConfig(node.hs, c, v)
    BY <1>0 DEF H!ReceiveProposal, H!Handshake, H!Version, H!None
  <2>6. k.hs = h
    BY <1>0 DEF Nodes
  <2>7. Happens({r})
    BY <2>1
  <2>8. \A i \in 1..K : h.accepted[order[i]] >= h.version
    BY <1>0, <2>1, <2>5
  <2> HIDE DEF h, K, k, early
  <2>9. ASSUME NEW y, Synced(y, node) PROVE Tells(y, node, r)
    <3>1. Tells(y, node, Result(k, first))
      <4>1. CASE h.self = v
        <5>1. v = node.hs.version /\ c.vote = node.hs.config.vote
          BY <2>5, <4>1 DEF H!SameConfig
        <5>2. SettingsShown(y.store, node.hs)
          BY <2>9 DEF Synced, GameShown, RestShown
        <5>4. node.hs.config.vote = h.config.vote
          BY <2>5, <5>1
        <5>5. \A q \in Peer : node.hs.accepted[q] >= node.hs.version => h.accepted[q] >= h.version
          BY <1>0, <2>5, <5>1
        <5>6. SettingsShown(y.store, h)
          BY <2>5, <5>1, <5>2, <5>4, <5>5 DEF SettingsShown
        <5>7. QED BY <2>4, <2>9, <4>1, <5>6, SilentTold DEF k
      <4>2. CASE h.self # v
        <5>1. h.accepted[p] >= h.version /\ p \in Anyone
          BY <1>0, <2>5 DEF Anyone
        <5>2. Except(c, Undefined) \in AnySettings /\ Except(c, Undefined).vote = h.config.vote
          BY <2>0, <2>5, ExceptTypes DEF NoNumber
        <5>3. Tells(y, node, Result(k, <<ConfigUpdated(Except(c, Undefined), h.version, p)>>))
          BY <2>4, <2>9, <5>1, <5>2, UpdateTold DEF k
        <5>4. QED BY <2>5, <4>2, <5>3 DEF PeerProposed
      <4>3. QED BY <4>1, <4>2
    <3> HIDE DEF first
    <3>2. \A z : Synced(z, k) => Tells(z, k, Result(k, out))
      BY <2>2, <2>6, <2>8, EarlyTold
    <3> HIDE DEF out
    <3>3. Result(k, first).node = k /\ Then(Result(k, first), Result(k, out)) = Result(k, first \o out)
      BY DEF Result, Then
    <3>4. QED BY <3>1, <3>2, <3>3, TellsOn
  <2> HIDE DEF r
  <2>10. QED BY <2>7, <2>9, HappensKeeps
<1>3. QED BY <1>1, <1>2

LEMMA GameEvents ==
    ASSUME ScreenInv,
           GameStarts \/ GameBegins \/ VoteArrives \/ TallyIsApplied \/ SnapshotArrives
           \/ GameEnds \/ ResignVoteExpires \/ \E p \in Peer : ResignVoteArrives(p)
    PROVE  ScreenInv'
<1>0. node \in Nodes /\ NodeOK(node)
  BY DEF ScreenInv, NodeOK
<1>1. CASE GameStarts
  <2> DEFINE k == [node EXCEPT !.phase = "starting",
                               !.roster = [p \in Peer |-> node.peers[p].team]]
             m == GameStarting(node.team)
             r == Result(k, <<m>>)
  <2>1. Happens({r}) /\ node.phase \in {"waiting_for_peers", "starting"}
    BY <1>1 DEF GameStarts
  <2>2. \A p \in Peer : node.peers[p].team \in Side \cup {NoSide}
    BY <1>0, PlayerTypes DEF Nodes
  <2>3. /\ k \in Nodes /\ k.phase = "starting" /\ k.team = node.team /\ k.peers = node.peers
        /\ k.window = node.window /\ k.resign = node.resign /\ k.hs = node.hs
    BY <1>0, <2>2 DEF Nodes, Phase
  <2>4. m.type \notin Answer /\ \A s : OnPush(s, m) = SetPhase(s, "starting", node.team)
    BY DEF GameStarting, Answer, OnPush
  <2> HIDE DEF k, m
  <2>5. \A y : Synced(y, node) => Tells(y, node, r)
    BY <2>1, <2>3, <2>4, PhaseTold
  <2>6. QED BY <2>1, <2>5, HappensKeeps
<1>2. CASE GameBegins
  <2> DEFINE k == [node EXCEPT !.phase = "in_progress"]
             m == GameStarted(node.team)
             r == Then(Result(k, <<m>>), OpenWindow(k, 0, 0))
  <2>1. Happens({r}) /\ node.phase = "starting"
    BY <1>2 DEF GameBegins
  <2>2. /\ k \in Nodes /\ k.phase = "in_progress" /\ k.team = node.team /\ k.peers = node.peers
        /\ k.window = node.window /\ k.resign = node.resign /\ k.hs = node.hs
    BY <1>0 DEF Nodes, Phase
  <2>3. m.type \notin Answer /\ \A s : OnPush(s, m) = SetPhase(s, "in_progress", node.team)
    BY DEF GameStarted, Answer, OnPush
  <2>4. Result(k, <<m>>).node = k
    BY DEF Result
  <2> HIDE DEF k, m
  <2>5. \A y : Synced(y, node) => Tells(y, node, Result(k, <<m>>))
    BY <2>1, <2>2, <2>3, PhaseTold
  <2>6. \A z : Synced(z, k) => Tells(z, k, OpenWindow(k, 0, 0))
    BY <2>2, WindowTold DEF Synced, GameShown
  <2>7. \A y : Synced(y, node) => Tells(y, node, r)
    BY <2>4, <2>5, <2>6, TellsOn
  <2>8. QED BY <2>1, <2>7, HappensKeeps
<1> DEFINE none == Result(node, <<>>)
<1>3. none.node = node /\ \A y : Synced(y, node) => Tells(y, node, none)
  BY NothingTold DEF Tells, Result
<1>4. CASE VoteArrives
  <2>1. Happens(UNION {Counted(r) : r \in OneVote(none)})
    BY <1>4 DEF VoteArrives
  <2> HIDE DEF none
  <2>2. \A y : Synced(y, node) => \A r \in OneVote(none) : \A q \in Counted(r) : Tells(y, node, q)
    BY <1>3, OneVoteTold, CountedTold
  <2>3. \A q \in UNION {Counted(r) : r \in OneVote(none)} :
            \A y : Synced(y, node) => Tells(y, node, q)
    BY <2>2
  <2>4. QED BY <2>1, <2>3, HappensKeeps
<1>5. CASE TallyIsApplied
  BY <1>5, TallyTold, HappensKeeps DEF TallyIsApplied
<1>6. CASE SnapshotArrives
  <2> DEFINE missed == Result(node, <<Push("tally:done")>>)
             turn   == node.window.turn
             shown  == {none, Then(missed, EndGame(node))}
                       \cup {Then(missed, OpenWindow(node, turn + 1, r)) :
                                r \in IF turn < MaxTurn THEN 0..MaxRevotes ELSE {}}
                       \cup {OpenWindow(node, turn, r) : r \in (node.window.round + 1)..MaxRevotes}
             both   == shown \cup UNION {OneVote(r) : r \in shown}
  <2>1. Happens(UNION {Counted(r) : r \in both}) /\ node.window # NoWindow
    BY <1>6 DEF SnapshotArrives
  <2>2. turn \in Nat /\ turn + 1 \in Nat /\ node.phase = "in_progress" /\ node.window.round \in Int
    BY <1>0, <2>1 DEF NodeOK, Nodes, Windows
  <2>3. (\A r \in 0..MaxRevotes : r \in Int) /\ (\A r \in (node.window.round + 1)..MaxRevotes : r \in Int)
    BY <2>2
  <2>4. ASSUME NEW y, Synced(y, node), NEW r \in Int
        PROVE  /\ Tells(y, node, Then(missed, EndGame(node)))
               /\ Tells(y, node, Then(missed, OpenWindow(node, turn + 1, r)))
               /\ Tells(y, node, OpenWindow(node, turn, r))
    <3>1. StoreOK(y.store) /\ NodeOK(node) /\ RestShown(y.store, node)
      BY <2>4 DEF Synced, GameShown
    <3>2. QED BY <2>1, <2>2, <2>4, <3>1, AfterMoveTold, WindowTold
  <2> HIDE DEF missed, turn, none
  <2>5. \A r \in shown : \A y : Synced(y, node) => Tells(y, node, r)
    BY <1>3, <2>3, <2>4
  <2> HIDE DEF shown
  <2>6. \A r \in both : \A y : Synced(y, node) => Tells(y, node, r)
    BY <2>5, OneVoteTold
  <2> HIDE DEF both
  <2>7. \A q \in UNION {Counted(r) : r \in both} : \A y : Synced(y, node) => Tells(y, node, q)
    BY <2>6, CountedTold
  <2>8. QED BY <2>1, <2>7, HappensKeeps
<1>7. CASE GameEnds
  <2>1. Happens({EndGame(node)}) /\ node.phase = "in_progress"
    BY <1>7 DEF GameEnds
  <2>2. \A y : Synced(y, node) => Tells(y, node, EndGame(node))
    BY <2>1, GameOverTold DEF Synced, GameShown, Early, Lobby
  <2>3. QED BY <2>1, <2>2, HappensKeeps
<1>8. CASE ResignVoteExpires
  <2>1. Happens({Result([node EXCEPT !.resign = {}], <<Push("resign:vote_expired")>>)})
        /\ node.resign # {}
    BY <1>8 DEF ResignVoteExpires
  <2>2. QED BY <2>1, LapseTold, HappensKeeps
<1>9. ASSUME NEW p \in Peer, ResignVoteArrives(p) PROVE ScreenInv'
  <2>1. Happens({AddYes(node, p)}) /\ node.phase = "in_progress" /\ p \in Anyone
    BY <1>9 DEF ResignVoteArrives, Anyone
  <2>2. QED BY <2>1, YesTold, HappensKeeps
<1>10. QED BY <1>1, <1>2, <1>4, <1>5, <1>6, <1>7, <1>8, <1>9

-----------------------------------------------------------------------------
(* The main process answers.                                               *)

\* What is asked for when joining is over, and what is left of it.
LEMMA FirstOfLate ==
    ASSUME NEW qs \in Seq(LateRequests), qs # <<>>
    PROVE  /\ Head(qs) \in LateRequests /\ Tail(qs) \in Seq(LateRequests)
           /\ StateAsked(qs) => AsksState(Head(qs)) \/ StateAsked(Tail(qs))
           /\ StateAsked(Tail(qs)) => StateAsked(qs)
           /\ ListAsked(qs) => AsksList(Head(qs)) \/ ListAsked(Tail(qs))
           /\ ListAsked(Tail(qs)) => ListAsked(qs)
           /\ ResetAsked(Tail(qs)) => ResetAsked(qs)
           /\ Head(qs).ask = "reset" => ResetAsked(qs)
<1>1. Head(qs) \in LateRequests /\ Tail(qs) \in Seq(LateRequests)
  BY HeadTailProperties
<1>2. IsSeq(qs)
  BY DEF IsSeq
<1>3. /\ Len(qs) \in Nat /\ Len(qs) > 0 /\ Len(Tail(qs)) = Len(qs) - 1 /\ Head(qs) = qs[1]
      /\ \A i \in 1..Len(Tail(qs)) : Tail(qs)[i] = qs[i + 1]
  BY <1>2, TailIsSeq
<1>4. \A i \in 1..Len(Tail(qs)) : i + 1 \in 1..Len(qs) /\ Tail(qs)[i] = qs[i + 1]
  BY <1>3
<1>5. ASSUME NEW i \in 1..Len(qs)
      PROVE  qs[i] = Head(qs) \/ (i - 1 \in 1..Len(Tail(qs)) /\ qs[i] = Tail(qs)[i - 1])
  <2>1. i = 1 \/ (i - 1 \in 1..Len(Tail(qs)) /\ (i - 1) + 1 = i)
    BY <1>3
  <2>2. QED BY <1>3, <2>1
<1>6. 1 \in 1..Len(qs)
  BY <1>3
<1>7. /\ StateAsked(qs) => AsksState(Head(qs)) \/ StateAsked(Tail(qs))
      /\ StateAsked(Tail(qs)) => StateAsked(qs)
  BY <1>4, <1>5 DEF StateAsked
<1>8. /\ ListAsked(qs) => AsksList(Head(qs)) \/ ListAsked(Tail(qs))
      /\ ListAsked(Tail(qs)) => ListAsked(qs)
  BY <1>4, <1>5 DEF ListAsked
<1>9. /\ ResetAsked(Tail(qs)) => ResetAsked(qs)
      /\ Head(qs).ask = "reset" => ResetAsked(qs)
  BY <1>3, <1>4, <1>6 DEF ResetAsked
<1>10. QED BY <1>1, <1>7, <1>8, <1>9

LEMMA AnswerKeeps ==
    ASSUME ScreenInv, asked # <<>>, Head(asked).for # "join", NEW r, NEW a, Answers(r, a),
           \A y : Synced(y, node) /\ y.joined /\ joined
                   /\ Head(asked) \in LateRequests /\ (Head(asked).ask = "reset" => again) =>
              \E z : /\ Reaches(y, node, Result(r.node, r.out \o <<a>>), z)
                     /\ AsksState(Head(asked)) => PhaseShown(z.store, r.node)
                     /\ AsksList(Head(asked)) => PeersShown(z.store, r.node)
    PROVE  ScreenInv'
<1>1. PICK b, y : b \in BOOLEAN /\ Leads(Now(b), told, y) /\ Agrees(b, y)
  BY DEF ScreenInv
<1>2. Synced(y, node)
  BY <1>1, LeadsOK DEF Synced, ScreenInv, Agrees
<1>3. y.joined
  <2>1. CASE ~ y.joined
    <3>1. Head(asked) \in {AskState, AskPeers, AskConfig}
      BY <1>1, <2>1 DEF Agrees, Joining
    <3>2. Head(asked).for = "join"
      BY <3>1 DEF AskState, AskPeers, AskConfig, Request
    <3>3. QED BY <3>2
  <2>2. QED BY <2>1
<1>4. asked \in Seq(LateRequests) /\ (ResetAsked(asked) => again) /\ joined /\ b /\ y.got = <<>>
  BY <1>1, <1>3 DEF Agrees, Joining
<1>5. Head(asked) \in LateRequests /\ (Head(asked).ask = "reset" => again)
  BY <1>4, FirstOfLate
<1>6. PICK z : /\ Reaches(y, node, Result(r.node, r.out \o <<a>>), z)
               /\ AsksState(Head(asked)) => PhaseShown(z.store, r.node)
               /\ AsksList(Head(asked)) => PeersShown(z.store, r.node)
  BY <1>2, <1>3, <1>4, <1>5
<1> DEFINE out == r.out \o <<a>>
           q   == Result(r.node, out)
<1>7. /\ node' = r.node /\ told' = told \o Append(r.out, a) /\ asked' = Tail(asked)
      /\ UNCHANGED <<store, got, joined, refreshes, again>>
  BY DEF Answers
<1>8. q.node = r.node /\ q.out = out
  BY DEF Result
<1>9. told' = told \o out
  <2>1. Append(r.out, a) = r.out \o <<a>>
    OBVIOUS
  <2>2. QED BY <1>7, <2>1
<1> HIDE DEF out, q
<1>10. Reaches(y, node, q, z)
  BY <1>6 DEF q, out
<1>11. Leads(Now(b), told', z) /\ Now(b)' = Now(b)
  BY <1>1, <1>7, <1>8, <1>9, <1>10, LeadsOn DEF Reaches, Now
<1>12. /\ StateTold(told') <=> StateTold(told) \/ StateTold(out)
       /\ PeerTold(told') <=> PeerTold(told) \/ PeerTold(out)
  BY <1>1, <1>8, <1>9, <1>10, LeadsOK, ToldInBoth DEF Reaches
<1>13. ~ StateComes' => PhaseShown(z.store, r.node)
  BY <1>1, <1>4, <1>6, <1>7, <1>8, <1>10, <1>12, FirstOfLate DEF StateComes, Reaches, Agrees
<1>14. ~ ListComes' => PeersShown(z.store, r.node)
  BY <1>1, <1>4, <1>6, <1>7, <1>8, <1>10, <1>12, FirstOfLate DEF ListComes, Reaches, Agrees
<1>15. Joining(b, z)'
  <2>1. z.joined /\ z.got = <<>>
    BY <1>3, <1>4, <1>10 DEF Reaches
  <2>2. asked' \in Seq(LateRequests) /\ (ResetAsked(asked') => again')
    BY <1>4, <1>7, FirstOfLate
  <2>3. QED BY <1>4, <1>7, <2>1, <2>2 DEF Joining
<1>16. NodeOK(node') /\ GameShown(z.store, node')
  BY <1>7, <1>8, <1>10 DEF Reaches
<1>17. Agrees(b, z)'
  BY <1>7, <1>13, <1>14, <1>15, <1>16 DEF Agrees, PeersShown
<1>18. refreshes' \in Nat
  BY <1>7 DEF ScreenInv
<1>19. QED BY <1>1, <1>11, <1>16, <1>17, <1>18 DEF ScreenInv

LEMMA LateFields ==
    ASSUME NEW q \in LateRequests
    PROVE  /\ q.for # "join"
           /\ q.ask = "setTeam" => q.for = "side" /\ q.team \in Side
           /\ q.ask = "setConfig" => q.for = "propose" /\ q.config \in AnySettings
           /\ q.ask = "acceptConfig" => q.for = "accept"
           /\ q.ask = "castVote" => q.for = "vote"
           /\ q.ask \in {"ready", "unready", "resign"} => q.for = q.ask
           /\ q.ask = "reset" => q.for = "again"
           /\ q.ask = "getState" => q.for \in StateFor
           /\ q.ask = "getPeers" => q.for = "refresh"
           /\ q.ask = "getConfig" => q.for = "propose"
           /\ q.seen \in Nat
BY DEF LateRequests, StateFor

\* The first request is one of joining, or of a button or timer.
LEMMA FirstAsked ==
    ASSUME ScreenInv, asked # <<>>
    PROVE  Head(asked) \in {AskState, AskPeers, AskConfig} \/ Head(asked) \in LateRequests
<1>1. PICK b, y : b \in BOOLEAN /\ Leads(Now(b), told, y) /\ Agrees(b, y)
  BY DEF ScreenInv
<1>2. CASE ~ y.joined
  BY <1>1, <1>2 DEF Agrees, Joining
<1>3. CASE y.joined
  BY <1>1, <1>3, FirstOfLate DEF Agrees, Joining
<1>4. QED BY <1>2, <1>3

\* An answer that changes nothing on the screen but what it says.
LEMMA OneAnswer ==
    ASSUME NEW y, NEW n, Synced(y, n), y.joined, NEW a,
           a.type \in {"done"} \cup Fetched, a.for # "join",
           a.type = "done" => a.seen \in Nat,
           NEW s, StoreOK(s), Handled(y, a) = WithStore(y, s), GameShown(s, n),
           PhaseShown(y.store, n) => PhaseShown(s, n),
           PeersShown(y.store, n) => PeersShown(s, n)
    PROVE  Reaches(y, n, Result(n, <<a>>), WithStore(y, s))
<1>1. Legal(y, a)
  BY DEF Legal, ForJoin, Fetched
<1>2. /\ WithStore(y, s).store = s /\ WithStore(y, s).got = y.got
      /\ WithStore(y, s).joined = y.joined
  BY DEF WithStore, View
<1>3. Leads(y, <<a>>, WithStore(y, s))
  BY <1>1, <1>2, LeadsByOne DEF Synced
<1>4. Result(n, <<a>>).node = n /\ Result(n, <<a>>).out = <<a>> /\ NodeOK(n)
  BY DEF Result, Synced
<1>5. QED BY <1>2, <1>3, <1>4 DEF Reaches

\* Done, or refused: what was shown is kept.
LEMMA IdleAnswer ==
    ASSUME NEW y, NEW n, NEW k, Synced(y, n), y.joined, NEW a, a.type = "done", a.seen \in Nat,
           a.for \notin {"join", "accept", "again"},
           NodeOK(k), GameShown(y.store, k), k.peers = n.peers,
           (a.for \in StateFor /\ a.ok) \/ (PhaseShown(y.store, n) => PhaseShown(y.store, k)),
           joined
    PROVE  Reaches(y, n, Result(k, <<a>>), y)
<1>1. Handled(y, a) = y
  BY DEF Handled, Answer
<1>2. Legal(y, a)
  BY DEF Legal, ForJoin, Fetched
<1>3. Leads(y, <<a>>, y)
  BY <1>1, <1>2, LeadsByOne DEF Synced
<1>4. a.for \in StateFor /\ a.ok => StateTold(<<a>>)
  BY OneIsSeq DEF StateTold, BringsState
<1>5. Result(k, <<a>>).node = k /\ Result(k, <<a>>).out = <<a>>
  BY DEF Result
<1>6. QED BY <1>3, <1>4, <1>5 DEF Reaches, PeersShown

LEMMA DoneTold ==
    ASSUME NEW y, NEW n, Synced(y, n), y.joined, joined, NEW q \in LateRequests,
           q.for # "again", NEW ok \in BOOLEAN
    PROVE  Tells(y, n, Result(n, <<Done(q, ok)>>))
<1> DEFINE a == Done(q, ok)
<1>1. a.type = "done" /\ a.for = q.for /\ a.ok = ok /\ a.seen \in Nat /\ a.for # "join"
  BY LateFields DEF Done
<1> HIDE DEF a
<1>2. CASE a.for # "accept"
  <2>1. NodeOK(n) /\ GameShown(y.store, n)
    BY DEF Synced
  <2>2. Reaches(y, n, Result(n, <<a>>), y)
    BY <1>1, <1>2, <2>1, IdleAnswer
  <2>3. QED BY <2>2 DEF Tells, a
<1>3. CASE a.for = "accept"
  <2> DEFINE s == IF a.ok THEN SetSelfAccepted(y.store, a.seen) ELSE y.store
  <2>1. y.store \in Stores /\ StoreOK(y.store)
    BY DEF Synced, StoreOK
  <2>2. /\ s \in Stores /\ Alike(s, y.store)
        /\ s.version = y.store.version /\ s.config = y.store.config
        /\ s.accepted = y.store.accepted
    BY <2>1 DEF Stores, SetSelfAccepted, Alike
  <2>3. StoreOK(s)
    BY <2>1, <2>2 DEF StoreOK, Alike
  <2>4. Handled(y, a) = WithStore(y, s)
    BY <1>1, <1>3 DEF Handled, Answer
  <2> HIDE DEF s
  <2>5. /\ GameShown(s, n)
        /\ PhaseShown(y.store, n) => PhaseShown(s, n)
        /\ PeersShown(y.store, n) => PeersShown(s, n)
    BY <2>2 DEF Alike, Synced, GameShown, RestShown, WindowShown, SettingsShown, PhaseShown, PeersShown
  <2>6. Reaches(y, n, Result(n, <<a>>), WithStore(y, s))
    BY <1>1, <2>3, <2>4, <2>5, OneAnswer
  <2>7. QED BY <2>6 DEF Tells, a
<1>4. QED BY <1>2, <1>3

LEMMA ThenDone ==
    ASSUME NEW y, NEW n, NEW r, Tells(y, n, r), y.joined, joined, NEW q \in LateRequests,
           q.for # "again", NEW ok \in BOOLEAN
    PROVE  Tells(y, n, Result(r.node, r.out \o <<Done(q, ok)>>))
<1> DEFINE d == Result(r.node, <<Done(q, ok)>>)
<1>1. PICK z : Reaches(y, n, r, z)
  BY DEF Tells
<1>2. Synced(z, r.node) /\ z.joined
  BY <1>1, ReachesSynced DEF Reaches
<1>3. PICK w : Reaches(z, r.node, d, w)
  BY <1>2, DoneTold DEF Tells
<1>4. Then(r, d) = Result(r.node, r.out \o <<Done(q, ok)>>)
  BY DEF Then, Result
<1> HIDE DEF d
<1>5. Reaches(y, n, Then(r, d), w)
  BY <1>1, <1>3, ReachesOn
<1>6. QED BY <1>4, <1>5 DEF Tells

LEMMA DoneKeeps ==
    ASSUME ScreenInv, asked # <<>>, NEW r, NEW ok \in BOOLEAN, Answers(r, Done(Head(asked), ok)),
           Head(asked).ask \notin {"getState", "getPeers", "getConfig", "reset"},
           \A y : Synced(y, node) /\ Head(asked) \in LateRequests => Tells(y, node, r)
    PROVE  ScreenInv'
<1> DEFINE q == Head(asked)
           a == Done(q, ok)
<1>1. q \in LateRequests
  BY FirstAsked DEF AskState, AskPeers, AskConfig, Request
<1>2. q.for # "join" /\ q.for # "again" /\ ~ AsksState(q) /\ ~ AsksList(q)
  <2>1. q.ask # "getState" /\ q.ask # "getPeers"
    OBVIOUS
  <2>2. q.for # "again"
    BY <1>1 DEF LateRequests, StateFor
  <2>3. QED BY <1>1, <2>1, <2>2, LateFields DEF AsksState, AsksList
<1>3. ASSUME NEW y, Synced(y, node), y.joined, joined
      PROVE  Tells(y, node, Result(r.node, r.out \o <<a>>))
  BY <1>1, <1>2, <1>3, ThenDone
<1> HIDE DEF a
<1>4. \A y : Synced(y, node) /\ y.joined /\ joined =>
              \E z : /\ Reaches(y, node, Result(r.node, r.out \o <<a>>), z)
                     /\ AsksState(Head(asked)) => PhaseShown(z.store, r.node)
                     /\ AsksList(Head(asked)) => PeersShown(z.store, r.node)
  BY <1>2, <1>3 DEF Tells
<1>5. Answers(r, a)
  BY DEF a
<1>6. QED BY <1>2, <1>4, <1>5, AnswerKeeps

LEMMA RefusedKeeps ==
    ASSUME ScreenInv, asked # <<>>, Answers(Result(node, <<>>), Done(Head(asked), FALSE)),
           Head(asked).ask \notin {"getState", "getPeers", "getConfig", "reset"}
    PROVE  ScreenInv'
<1> DEFINE r == Result(node, <<>>)
<1>1. \A y : Synced(y, node) => Tells(y, node, r)
  BY NothingTold DEF Tells
<1> HIDE DEF r
<1>2. Answers(r, Done(Head(asked), FALSE))
  BY DEF r
<1>3. QED BY <1>1, <1>2, DoneKeeps

\* Our side and whether we are ready: the screen asks for them then.
LEMMA MovedKeeps ==
    ASSUME ScreenInv, asked # <<>>, Head(asked).ask \in {"setTeam", "ready", "unready"},
           NEW k, NodeOK(k), k.peers = node.peers, k.window = node.window,
           k.resign = node.resign, k.hs = node.hs, k.phase \in Early,
           Answers(Result(k, <<>>), Done(Head(asked), TRUE))
    PROVE  ScreenInv'
<1> DEFINE q == Head(asked)
           a == Done(q, TRUE)
           r == Result(k, <<>>)
<1>1. q \in LateRequests
  BY FirstAsked DEF AskState, AskPeers, AskConfig, Request
<1>2. /\ q.for \in StateFor /\ q.for \notin {"join", "accept", "again"}
      /\ ~ AsksState(q) /\ ~ AsksList(q)
  <2>1. q.for \in StateFor
    BY <1>1, LateFields DEF StateFor
  <2>2. QED BY <2>1 DEF StateFor, AsksState, AsksList
<1>3. a.type = "done" /\ a.for = q.for /\ a.ok /\ a.seen \in Nat
  BY <1>1, LateFields DEF Done
<1>4. r.node = k /\ r.out = <<>>
  BY DEF Result
<1> HIDE DEF a, r
<1>5. r.out \o <<a>> = <<a>>
  BY <1>4, AloneAfterNothing
<1>6. ASSUME NEW y, Synced(y, node), y.joined, joined
      PROVE  Reaches(y, node, Result(r.node, r.out \o <<a>>), y)
  <2>1. GameShown(y.store, k)
    BY <1>6 DEF Synced, GameShown, RestShown, WindowShown
  <2>2. Reaches(y, node, Result(k, <<a>>), y)
    BY <1>2, <1>3, <1>6, <2>1, IdleAnswer
  <2>3. QED BY <1>4, <1>5, <2>2
<1>7. \A y : Synced(y, node) /\ y.joined /\ joined =>
              \E z : /\ Reaches(y, node, Result(r.node, r.out \o <<a>>), z)
                     /\ AsksState(Head(asked)) => PhaseShown(z.store, r.node)
                     /\ AsksList(Head(asked)) => PeersShown(z.store, r.node)
  BY <1>2, <1>6
<1>8. Answers(r, a)
  BY DEF a, r
<1>9. QED BY <1>2, <1>7, <1>8, AnswerKeeps

LEMMA ButtonsKeep ==
    ASSUME ScreenInv,
           SetTeam \/ Ready \/ Unready \/ SetConfig \/ AcceptConfig \/ CastVote \/ CastResignVote
    PROVE  ScreenInv'
<1> DEFINE q == Head(asked)
<1>0. NodeOK(node) /\ node \in Nodes /\ node.hs \in H!Handshake
  BY DEF ScreenInv, NodeOK, Nodes
<1>1. CASE SetTeam
  <2> DEFINE k == [node EXCEPT !.team = q.team, !.phase = "waiting_for_ready"]
  <2>1. asked # <<>> /\ q.ask = "setTeam"
    BY <1>1 DEF SetTeam, Asks
  <2>2. q.team \in Side
    BY <2>1, FirstAsked, LateFields DEF AskState, AskPeers, AskConfig, Request
  <2>3. \/ node.phase \in Lobby /\ Answers(Result(k, <<>>), Done(q, TRUE))
        \/ Answers(Result(node, <<>>), Done(q, FALSE))
    BY <1>1 DEF SetTeam, Obeys
  <2>4. CASE node.phase \in Lobby /\ Answers(Result(k, <<>>), Done(q, TRUE))
    <3>1. /\ k \in Nodes /\ k.peers = node.peers /\ k.window = node.window
          /\ k.resign = node.resign /\ k.hs = node.hs /\ k.phase = "waiting_for_ready"
          /\ k.team \in Side
      BY <1>0, <2>2 DEF Nodes, Phase
    <3>2. NodeOK(k) /\ k.phase \in Early
      BY <1>0, <2>4, <3>1 DEF NodeOK, Lobby, Early
    <3> HIDE DEF k
    <3>3. QED BY <2>1, <2>4, <3>1, <3>2, MovedKeeps
  <2>5. QED BY <2>1, <2>3, <2>4, RefusedKeeps
<1>2. CASE Ready
  <2> DEFINE k == [node EXCEPT !.phase = "waiting_for_peers"]
  <2>1. asked # <<>> /\ q.ask = "ready"
    BY <1>2 DEF Ready, Asks
  <2>2. \/ node.phase = "waiting_for_ready" /\ Answers(Result(k, <<>>), Done(q, TRUE))
        \/ Answers(Result(node, <<>>), Done(q, FALSE))
    BY <1>2 DEF Ready, Obeys
  <2>3. CASE node.phase = "waiting_for_ready" /\ Answers(Result(k, <<>>), Done(q, TRUE))
    <3>1. /\ k \in Nodes /\ k.peers = node.peers /\ k.window = node.window
          /\ k.resign = node.resign /\ k.hs = node.hs /\ k.phase = "waiting_for_peers"
          /\ k.team = node.team
      BY <1>0 DEF Nodes, Phase
    <3>2. NodeOK(k) /\ k.phase \in Early
      BY <1>0, <2>3, <3>1 DEF NodeOK, Early
    <3> HIDE DEF k
    <3>3. QED BY <2>1, <2>3, <3>1, <3>2, MovedKeeps
  <2>4. QED BY <2>1, <2>2, <2>3, RefusedKeeps
<1>3. CASE Unready
  <2> DEFINE k == [node EXCEPT !.phase = "waiting_for_ready"]
  <2>1. asked # <<>> /\ q.ask = "unready"
    BY <1>3 DEF Unready, Asks
  <2>2. \/ node.phase = "waiting_for_peers" /\ Answers(Result(k, <<>>), Done(q, TRUE))
        \/ Answers(Result(node, <<>>), Done(q, FALSE))
    BY <1>3 DEF Unready, Obeys
  <2>3. CASE node.phase = "waiting_for_peers" /\ Answers(Result(k, <<>>), Done(q, TRUE))
    <3>1. /\ k \in Nodes /\ k.peers = node.peers /\ k.window = node.window
          /\ k.resign = node.resign /\ k.hs = node.hs /\ k.phase = "waiting_for_ready"
          /\ k.team = node.team
      BY <1>0 DEF Nodes, Phase
    <3>2. NodeOK(k) /\ k.phase \in Early
      BY <1>0, <2>3, <3>1 DEF NodeOK, Early, Lobby
    <3> HIDE DEF k
    <3>3. QED BY <2>1, <2>3, <3>1, <3>2, MovedKeeps
  <2>4. QED BY <2>1, <2>2, <2>3, RefusedKeeps
<1>4. CASE SetConfig
  <2> DEFINE h == H!Propose(node.hs, q.config)
             k == [node EXCEPT !.hs = h]
             r == Result(k, <<ConfigUpdated(h.config, h.version, Self)>>)
  <2>1. asked # <<>> /\ q.ask = "setConfig"
    BY <1>4 DEF SetConfig, Asks
  <2>2. Answers(r, Done(q, TRUE)) \/ Answers(Result(node, <<>>), Done(q, FALSE))
    BY <1>4 DEF SetConfig, Obeys
  <2>3. ASSUME q \in LateRequests, NEW y, Synced(y, node) PROVE Tells(y, node, r)
    <3>1. q.config \in AnySettings
      BY <2>1, <2>3, LateFields
    <3>2. h \in H!Handshake
      BY <1>0, <3>1 DEF H!Propose, H!Handshake, H!Version, H!None
    <3>3. Self \in Anyone /\ Self \notin Peer
      BY PeerAssumption DEF Anyone
    <3>4. h.config \in AnySettings
      BY <3>1 DEF H!Propose
    <3> HIDE DEF h
    <3>5. QED BY <2>3, <3>2, <3>3, <3>4, UpdateTold
  <2> HIDE DEF r
  <2>4. QED BY <2>1, <2>2, <2>3, RefusedKeeps, DoneKeeps
<1>5. CASE AcceptConfig
  <2> DEFINE k == [node EXCEPT !.hs = H!AcceptCurrent(@)]
             r == Result(k, <<SelfAccepted(node.hs.version)>>)
  <2>1. asked # <<>> /\ q.ask = "acceptConfig"
    BY <1>5 DEF AcceptConfig, Asks
  <2>2. Answers(r, Done(q, TRUE)) \/ Answers(Result(node, <<>>), Done(q, FALSE))
    BY <1>5 DEF AcceptConfig, Obeys
  <2>3. \A y : Synced(y, node) => Tells(y, node, r)
    BY SelfAcceptTold
  <2> HIDE DEF r
  <2>4. QED BY <2>1, <2>2, <2>3, RefusedKeeps, DoneKeeps
<1>6. CASE CastVote
  <2> DEFINE w == node.window
             may == w # NoWindow /\ Mover(w) = node.team /\ Self \notin w.votes
             v == Result([node EXCEPT !.window.votes = @ \cup {Self}],
                         <<PeerPush("vote:received", Self)>>)
  <2>1. asked # <<>> /\ q.ask = "castVote"
    BY <1>6 DEF CastVote, Asks
  <2>2. \/ w # NoWindow /\ \E r \in Counted(v) : Answers(r, Done(q, TRUE))
        \/ Answers(Result(node, <<>>), Done(q, FALSE))
    BY <1>6 DEF CastVote
  <2>3. ASSUME w # NoWindow, NEW y, Synced(y, node) PROVE Tells(y, node, v)
    BY <2>3, VoteTold DEF Anyone
  <2> HIDE DEF v
  <2>4. ASSUME w # NoWindow, NEW r \in Counted(v), Answers(r, Done(q, TRUE)) PROVE ScreenInv'
    <3>1. \A y : Synced(y, node) => Tells(y, node, r)
      BY <2>3, <2>4, CountedTold
    <3>2. QED BY <2>1, <2>4, <3>1, DoneKeeps
  <2>5. QED BY <2>1, <2>2, <2>4, RefusedKeeps
<1>7. CASE CastResignVote
  <2> DEFINE r == AddYes(node, Self)
  <2>1. asked # <<>> /\ q.ask = "resign"
    BY <1>7 DEF CastResignVote, Asks
  <2>2. \/ node.phase = "in_progress" /\ Answers(r, Done(q, TRUE))
        \/ Answers(Result(node, <<>>), Done(q, FALSE))
    BY <1>7 DEF CastResignVote, Obeys
  <2>3. ASSUME node.phase = "in_progress", NEW y, Synced(y, node) PROVE Tells(y, node, r)
    BY <2>3, YesTold DEF Anyone
  <2> HIDE DEF r
  <2>4. QED BY <2>1, <2>2, <2>3, RefusedKeeps, DoneKeeps
<1>8. QED BY <1>1, <1>2, <1>3, <1>4, <1>5, <1>6, <1>7

\* What Node.reset leaves.
NodeReset(n) ==
    [NewNode EXCEPT !.peers =
        [p \in Peer |-> IF n.peers[p].here THEN Here(NoSide, FALSE) ELSE Gone]]

LEMMA ResetTypes ==
    ASSUME NEW s, StoreOK(s), NEW n, NodeOK(n), NEW k, k = NodeReset(n)
    PROVE  /\ NodeOK(k) /\ k.phase = "waiting_for_side" /\ k.team = NoSide
           /\ k.window = NoWindow /\ k.resign = {} /\ k.hs = H!InitialHandshake
           /\ Present(k.peers) = Present(n.peers)
           /\ n.peers = Nobody => k.peers = Nobody
           /\ StoreOK(ResetGame(s))
           /\ ResetGame(s).phase = "waiting_for_side" /\ ResetGame(s).team = NoSide
           /\ ResetGame(s).window = NoWindow /\ ResetGame(s).resign = NoResign
           /\ ResetGame(s).version = 0 /\ ResetGame(s).config = Default
           /\ ResetGame(s).accepted = {} /\ ResetGame(s).peers = s.peers
           /\ ResetGame(ResetGame(s)) = ResetGame(s)
<1> DEFINE ps == [p \in Peer |-> IF n.peers[p].here THEN Here(NoSide, FALSE) ELSE Gone]
           t  == ResetGame(s)
<1>1. ps \in Peers /\ Present(ps) = Present(n.peers) /\ (n.peers = Nobody => ps = Nobody)
  BY DEF Peers, Here, Gone, Present, Nobody
<1> HIDE DEF ps
<1>2. NewNode \in Nodes
  BY SmallTypes, InitialHandshakeType DEF Nodes, NewNode, Phase, Nobody
<1>3. /\ k \in Nodes /\ k.phase = "waiting_for_side" /\ k.team = NoSide /\ k.window = NoWindow
      /\ k.resign = {} /\ k.hs = H!InitialHandshake /\ k.peers = ps
  BY <1>1, <1>2 DEF Nodes, NewNode, NodeReset, ps
<1>4. EmptyStore \in Stores
  BY SmallTypes, DefaultType DEF EmptyStore, Stores, Phase, Nobody
<1>5. s.peers \in Peers
  BY DEF StoreOK, Stores
<1>6. /\ t \in Stores /\ t.phase = "waiting_for_side" /\ t.team = NoSide /\ t.window = NoWindow
      /\ t.resign = NoResign /\ t.version = 0 /\ t.config = Default /\ t.accepted = {}
      /\ t.peers = s.peers
  BY <1>4, <1>5 DEF ResetGame, Stores, EmptyStore
<1>7. ResetGame(t) = t
  BY <1>6 DEF ResetGame
<1> HIDE DEF t
<1>8. StoreOK(t)
  BY <1>6 DEF StoreOK
<1>9. NodeOK(k)
  BY <1>3 DEF NodeOK
<1>10. QED BY <1>1, <1>3, <1>6, <1>7, <1>8, <1>9 DEF t

LEMMA ResetKeeps ==
    ASSUME ScreenInv, Reset
    PROVE  ScreenInv'
<1> DEFINE k == NodeReset(node)
           m == Push("game:reset")
           q == Head(asked)
           a == Done(q, TRUE)
           r == Result(k, <<m>>)
<1>1. asked # <<>> /\ q.ask = "reset" /\ Answers(r, a)
  BY DEF Reset, Asks, NodeReset
<1>2. q \in LateRequests
  BY <1>1, FirstAsked DEF AskState, AskPeers, AskConfig, Request
<1>3. q.for = "again" /\ a.type = "done" /\ a.for = "again" /\ a.seen \in Nat
  BY <1>1, <1>2, LateFields DEF Done
<1>4. m.type \notin Answer /\ m.type = "game:reset"
  BY DEF Push, Answer
<1>5. NodeOK(node)
  BY DEF ScreenInv
<1>6. r.node = k /\ r.out = <<m>>
  BY DEF Result
<1>7. ASSUME NEW y, Synced(y, node), y.joined, joined, again
      PROVE  \E z : /\ Reaches(y, node, Result(r.node, r.out \o <<a>>), z)
                    /\ AsksState(q) => PhaseShown(z.store, r.node)
                    /\ AsksList(q) => PeersShown(z.store, r.node)
  <2> DEFINE s == ResetGame(y.store)
             z == WithStore(y, s)
  <2>1. StoreOK(y.store)
    BY <1>7 DEF Synced
  <2>2. /\ NodeOK(k) /\ k.phase = "waiting_for_side" /\ k.team = NoSide
        /\ k.window = NoWindow /\ k.resign = {} /\ k.hs = H!InitialHandshake
        /\ Present(k.peers) = Present(node.peers)
        /\ node.peers = Nobody => k.peers = Nobody
    BY <1>5, <2>1, ResetTypes
  <2>3. /\ StoreOK(s)
        /\ s.phase = "waiting_for_side" /\ s.team = NoSide
        /\ s.window = NoWindow /\ s.resign = NoResign
        /\ s.version = 0 /\ s.config = Default
        /\ s.accepted = {} /\ s.peers = y.store.peers
        /\ ResetGame(s) = s
    BY <1>5, <2>1, ResetTypes
  <2>4. s = OnPush(y.store, m)
    BY <1>4 DEF OnPush
  <2> HIDE DEF k, m, s, a
  <2>5. SettingsShown(s, k.hs)
    BY <2>2, <2>3 DEF SettingsShown, H!InitialHandshake
  <2>6. GameShown(s, k) /\ PhaseShown(s, k)
    BY <2>2, <2>3, <2>5, FS_EmptySet
       DEF GameShown, RestShown, WindowShown, PhaseShown, Early, Lobby, NoResign
  <2>7. PeersShown(y.store, node) => PeersShown(s, k)
    BY <1>7, <2>2, <2>3 DEF PeersShown
  <2>8. Reaches(y, node, Result(k, <<m>>), z)
    BY <1>4, <1>7, <2>1, <2>2, <2>3, <2>4, <2>6, <2>7, OnePush
  <2>9. z.store = s /\ z.joined
    BY <1>7 DEF WithStore, View
  <2>10. Synced(z, k)
    BY <2>2, <2>3, <2>6, <2>9 DEF Synced
  <2>11. Handled(z, a) = WithStore(z, s)
    BY <1>3, <2>3, <2>9 DEF Handled, Answer
  <2> HIDE DEF z
  <2>12. Reaches(z, k, Result(k, <<a>>), WithStore(z, s))
    BY <1>3, <2>3, <2>6, <2>9, <2>10, <2>11, OneAnswer
  <2>13. Result(k, <<m>>).node = k /\ Then(Result(k, <<m>>), Result(k, <<a>>)) = Result(r.node, r.out \o <<a>>)
    BY <1>6 DEF Result, Then, k
  <2>14. Reaches(y, node, Result(r.node, r.out \o <<a>>), WithStore(z, s))
    BY <2>8, <2>12, <2>13, ReachesOn
  <2>15. ~ AsksState(q) /\ ~ AsksList(q)
    BY <1>1 DEF AsksState, AsksList
  <2>16. QED BY <2>14, <2>15
<1> HIDE DEF r, a
<1>8. QED BY <1>1, <1>2, <1>3, <1>7, AnswerKeeps

\* What a button or the timer asked to see, and the store that then shows it.
LEMMA FetchKeeps ==
    ASSUME ScreenInv, asked # <<>>, NEW a, Answers(Result(node, <<>>), a),
           a.type \in Fetched, a.for # "join", Head(asked).for # "join",
           Head(asked).ask # "reset",
           \A y : Synced(y, node) /\ Head(asked) \in LateRequests =>
              \E s : /\ StoreOK(s) /\ Handled(y, a) = WithStore(y, s) /\ GameShown(s, node)
                     /\ PhaseShown(y.store, node) => PhaseShown(s, node)
                     /\ PeersShown(y.store, node) => PeersShown(s, node)
                     /\ AsksState(Head(asked)) => PhaseShown(s, node)
                     /\ AsksList(Head(asked)) => PeersShown(s, node)
    PROVE  ScreenInv'
<1> DEFINE r == Result(node, <<>>)
<1>1. r.node = node /\ r.out = <<>>
  BY DEF Result
<1> HIDE DEF r
<1>2. Result(r.node, r.out \o <<a>>) = Result(node, <<a>>)
  BY <1>1, AloneAfterNothing
<1>3. ASSUME NEW y, Synced(y, node), y.joined, Head(asked) \in LateRequests
      PROVE  \E z : /\ Reaches(y, node, Result(r.node, r.out \o <<a>>), z)
                    /\ AsksState(Head(asked)) => PhaseShown(z.store, r.node)
                    /\ AsksList(Head(asked)) => PeersShown(z.store, r.node)
  <2>1. PICK s : /\ StoreOK(s) /\ Handled(y, a) = WithStore(y, s) /\ GameShown(s, node)
                 /\ PhaseShown(y.store, node) => PhaseShown(s, node)
                 /\ PeersShown(y.store, node) => PeersShown(s, node)
                 /\ AsksState(Head(asked)) => PhaseShown(s, node)
                 /\ AsksList(Head(asked)) => PeersShown(s, node)
    BY <1>3
  <2>2. Reaches(y, node, Result(node, <<a>>), WithStore(y, s))
    BY <1>3, <2>1, OneAnswer DEF Fetched
  <2>3. WithStore(y, s).store = s
    BY DEF WithStore, View
  <2>4. QED BY <1>1, <1>2, <2>1, <2>2, <2>3
<1>4. Answers(r, a)
  BY DEF r
<1>5. QED BY <1>3, <1>4, AnswerKeeps

LEMMA SnapshotTypes ==
    ASSUME NEW s \in Stores, NEW g, g.phase \in Phase, g.team \in Side \cup {NoSide}
    PROVE  LET t == ApplySnapshot(s, g) IN
           /\ t \in Stores /\ t.phase = g.phase /\ t.team = g.team
           /\ t.window = s.window /\ t.resign = s.resign /\ t.peers = s.peers
           /\ t.version = s.version /\ t.config = s.config /\ t.accepted = s.accepted
<1>1. s.config.resign \in ResignParts /\ NaN \in ResignParts
  BY DEF Stores, ResignParts, NoNumber
<1>2. Filled(s.config.resign) \in ResignParts
  BY <1>1 DEF Filled
<1>3. QED BY <1>2 DEF ApplySnapshot, Stores

LEMMA StateFetched ==
    ASSUME NEW y, Synced(y, node), NEW a, a.type = "state", a.for # "join",
           a.state = Snapshot(node)
    PROVE  \E s : /\ StoreOK(s) /\ Handled(y, a) = WithStore(y, s) /\ GameShown(s, node)
                  /\ PhaseShown(s, node)
                  /\ PeersShown(y.store, node) => PeersShown(s, node)
<1> DEFINE s == ApplySnapshot(y.store, Snapshot(node))
<1>1. y.store \in Stores /\ StoreOK(y.store) /\ node \in Nodes
  BY DEF Synced, StoreOK, NodeOK
<1>2. /\ s \in Stores /\ s.phase = node.phase /\ s.team = node.team
      /\ s.window = y.store.window /\ s.resign = y.store.resign /\ s.peers = y.store.peers
      /\ s.version = y.store.version /\ s.config = y.store.config
      /\ s.accepted = y.store.accepted
  BY <1>1, SnapshotTypes DEF Snapshot, Nodes
<1>3. Handled(y, a) = WithStore(y, s)
  BY DEF Handled, Answer
<1> HIDE DEF s
<1>4. StoreOK(s)
  BY <1>1, <1>2, ClosedOutside DEF StoreOK
<1>5. GameShown(s, node) /\ PhaseShown(s, node) /\ (PeersShown(y.store, node) => PeersShown(s, node))
  BY <1>2 DEF Synced, GameShown, RestShown, WindowShown, SettingsShown, PhaseShown, PeersShown
<1>6. QED BY <1>3, <1>4, <1>5

LEMMA PeersFetched ==
    ASSUME NEW y, Synced(y, node), NEW a, a.type = "peers", a.for # "join",
           a.peers = node.peers
    PROVE  \E s : /\ StoreOK(s) /\ Handled(y, a) = WithStore(y, s) /\ GameShown(s, node)
                  /\ PhaseShown(y.store, node) => PhaseShown(s, node)
                  /\ PeersShown(s, node)
<1> DEFINE s == SetPeers(y.store, node.peers)
<1>1. y.store \in Stores /\ StoreOK(y.store) /\ node \in Nodes
  BY DEF Synced, StoreOK, NodeOK
<1>2. /\ s \in Stores /\ s.phase = y.store.phase /\ s.team = y.store.team
      /\ s.window = y.store.window /\ s.resign = y.store.resign /\ s.peers = node.peers
      /\ s.version = y.store.version /\ s.config = y.store.config
      /\ s.accepted = y.store.accepted
  BY <1>1 DEF SetPeers, Stores, Nodes
<1>3. Handled(y, a) = WithStore(y, s)
  BY DEF Handled, Answer
<1> HIDE DEF s
<1>4. StoreOK(s)
  BY <1>1, <1>2 DEF StoreOK
<1>5. GameShown(s, node) /\ PeersShown(s, node) /\ (PhaseShown(y.store, node) => PhaseShown(s, node))
  BY <1>2 DEF Synced, GameShown, RestShown, WindowShown, SettingsShown, PhaseShown, PeersShown
<1>6. QED BY <1>3, <1>4, <1>5

\* The answer of getConfig is right about the settings, whatever was shown.
LEMMA ConfigTypes ==
    ASSUME NEW s \in Stores, NEW n \in Nodes
    PROVE  /\ ApplyConfigSnapshot(s, Config(n)) \in Stores
           /\ Alike(ApplyConfigSnapshot(s, Config(n)), s)
           /\ SettingsShown(ApplyConfigSnapshot(s, Config(n)), n.hs)
<1>1. n.hs \in H!Handshake /\ n.hs.version \in Nat /\ n.hs.config \in AnySettings
  BY DEF Nodes, H!Handshake, H!Version
<1>2. Present(n.peers) \subseteq Peer
  BY DEF Present
<1>3. /\ Config(n).config = n.hs.config /\ Config(n).version = n.hs.version
      /\ Config(n).self \in BOOLEAN
      /\ Config(n).accepted \in SUBSET Anyone
      /\ \A p \in Config(n).accepted : n.hs.accepted[p] = n.hs.version
  BY <1>2 DEF Config, Anyone
<1> DEFINE c == Config(n)
           t == ApplyConfigSnapshot(s, c)
<1> HIDE DEF c
<1>4. /\ c.config = n.hs.config /\ c.version = n.hs.version /\ c.self \in BOOLEAN
      /\ c.accepted \in SUBSET Anyone
      /\ \A p \in c.accepted : n.hs.accepted[p] = n.hs.version
  BY <1>3 DEF c
<1>5. /\ t \in Stores /\ Alike(t, s)
      /\ t.config = c.config /\ t.version = c.version /\ t.accepted = c.accepted
  BY <1>1, <1>4 DEF ApplyConfigSnapshot, Stores, Alike
<1> HIDE DEF t
<1>6. SettingsShown(t, n.hs)
  BY <1>1, <1>4, <1>5 DEF SettingsShown
<1>7. QED BY <1>5, <1>6 DEF t, c

LEMMA ConfigFetched ==
    ASSUME NEW y, Synced(y, node), NEW a, a.type = "config", a.for # "join",
           a.config = Config(node)
    PROVE  \E s : /\ StoreOK(s) /\ Handled(y, a) = WithStore(y, s) /\ GameShown(s, node)
                  /\ PhaseShown(y.store, node) => PhaseShown(s, node)
                  /\ PeersShown(y.store, node) => PeersShown(s, node)
<1> DEFINE t == ApplyConfigSnapshot(y.store, Config(node))
           s == SetSelfAccepted(t, a.seen + 1)
<1>1. y.store \in Stores /\ StoreOK(y.store) /\ node \in Nodes
  BY DEF Synced, StoreOK, NodeOK
<1>2. t \in Stores /\ Alike(t, y.store) /\ SettingsShown(t, node.hs)
  BY <1>1, ConfigTypes
<1>3. Handled(y, a) = WithStore(y, s)
  BY DEF Handled, Answer
<1> HIDE DEF t
<1>4. /\ s \in Stores /\ Alike(s, y.store) /\ SettingsShown(s, node.hs)
  BY <1>2 DEF SetSelfAccepted, Stores, Alike, SettingsShown
<1> HIDE DEF s
<1>5. StoreOK(s)
  BY <1>1, <1>4 DEF StoreOK, Alike
<1>6. /\ GameShown(s, node)
      /\ PhaseShown(y.store, node) => PhaseShown(s, node)
      /\ PeersShown(y.store, node) => PeersShown(s, node)
  BY <1>4 DEF Synced, GameShown, RestShown, WindowShown, PhaseShown, PeersShown, Alike
<1>7. QED BY <1>3, <1>5, <1>6

\* Asked for by a button or by the timer.
LEMMA FetchesKeep ==
    ASSUME ScreenInv, GetState \/ GetPeers \/ GetConfig, Head(asked).for # "join"
    PROVE  ScreenInv'
<1> DEFINE q == Head(asked)
<1>1. asked # <<>> /\ q.ask \in {"getState", "getPeers", "getConfig"}
  BY DEF GetState, GetPeers, GetConfig, Asks
<1>2. CASE GetState
  <2> DEFINE a == [type |-> "state", for |-> q.for, state |-> Snapshot(node)]
  <2>1. q.ask = "getState" /\ Answers(Result(node, <<>>), a) /\ ~ AsksList(q) /\ q.ask # "reset"
    BY <1>2 DEF GetState, Asks, AsksList
  <2>2. a.type = "state" /\ a.for # "join" /\ a.state = Snapshot(node) /\ a.type \in Fetched
    BY DEF Fetched
  <2> HIDE DEF a
  <2>3. QED BY <1>1, <2>1, <2>2, StateFetched, FetchKeeps
<1>3. CASE GetPeers
  <2> DEFINE a == [type |-> "peers", for |-> q.for, peers |-> node.peers]
  <2>1. q.ask = "getPeers" /\ Answers(Result(node, <<>>), a) /\ ~ AsksState(q) /\ q.ask # "reset"
    BY <1>3 DEF GetPeers, Asks, AsksState
  <2>2. a.type = "peers" /\ a.for # "join" /\ a.peers = node.peers /\ a.type \in Fetched
    BY DEF Fetched
  <2> HIDE DEF a
  <2>3. QED BY <1>1, <2>1, <2>2, PeersFetched, FetchKeeps
<1>4. CASE GetConfig
  <2> DEFINE a == [type |-> "config", for |-> q.for, config |-> Config(node), seen |-> q.seen]
  <2>1. /\ q.ask = "getConfig" /\ Answers(Result(node, <<>>), a) /\ q.ask # "reset"
        /\ ~ AsksState(q) /\ ~ AsksList(q)
    BY <1>4 DEF GetConfig, Asks, AsksState, AsksList
  <2>2. a.type = "config" /\ a.for # "join" /\ a.config = Config(node) /\ a.type \in Fetched
    BY DEF Fetched
  <2> HIDE DEF a
  <2>3. QED BY <1>1, <2>1, <2>2, ConfigFetched, FetchKeeps
<1>5. QED BY <1>2, <1>3, <1>4

\* Joining asks for everything at once; none of it is a button's or the timer's.
LEMMA JoinAsks ==
    ASSUME NEW qs \in {<<AskState, AskPeers, AskConfig>>, <<AskPeers, AskConfig>>,
                       <<AskConfig>>, <<>>}
    PROVE  /\ ~ StateAsked(qs) /\ ~ ListAsked(qs) /\ ~ ResetAsked(qs) /\ IsSeq(qs)
           /\ qs # <<>> => Head(qs).for = "join"
<1> DEFINE J == {AskState, AskPeers, AskConfig}
<1>1. \A q \in J : q.for = "join" /\ q.ask # "reset"
  BY DEF AskState, AskPeers, AskConfig, Request
<1>2. AskState \in J /\ AskPeers \in J /\ AskConfig \in J
  OBVIOUS
<1> HIDE DEF J
<1>3. qs \in Seq(J)
  <2>1. /\ <<AskState, AskPeers, AskConfig>> \in Seq(J) /\ <<AskPeers, AskConfig>> \in Seq(J)
        /\ <<AskConfig>> \in Seq(J)
    BY <1>2
  <2>2. <<>> \in Seq(J)
    BY EmptySeq
  <2>3. QED BY <2>1, <2>2
<1>4. \A i \in 1..Len(qs) : qs[i] \in J
  BY <1>3, ElementOfSeq
<1>5. qs # <<>> => Head(qs) \in J
  BY <1>3, HeadTailProperties
<1>6. QED BY <1>1, <1>3, <1>4, <1>5 DEF StateAsked, ListAsked, ResetAsked, AsksState, AsksList, StateFor, IsSeq

LEMMA JoinSteps ==
    /\ Head(<<AskState, AskPeers, AskConfig>>) = AskState
    /\ Tail(<<AskState, AskPeers, AskConfig>>) = <<AskPeers, AskConfig>>
    /\ Head(<<AskPeers, AskConfig>>) = AskPeers
    /\ Tail(<<AskPeers, AskConfig>>) = <<AskConfig>>
    /\ Head(<<AskConfig>>) = AskConfig
    /\ Tail(<<AskConfig>>) = <<>>
    /\ AskState.ask = "getState" /\ AskPeers.ask = "getPeers" /\ AskConfig.ask = "getConfig"
    /\ AskState.for = "join" /\ AskPeers.for = "join" /\ AskConfig.for = "join"
<1>1. /\ AskState.ask = "getState" /\ AskPeers.ask = "getPeers" /\ AskConfig.ask = "getConfig"
      /\ AskState.for = "join" /\ AskPeers.for = "join" /\ AskConfig.for = "join"
  BY DEF AskState, AskPeers, AskConfig, Request
<1>2. QED BY <1>1

\* One of its answers: what is left is to say how far joining is then.
LEMMA JoinAnswerKeeps ==
    ASSUME ScreenInv, asked # <<>>, NEW a, ForJoin(a), Answers(Result(node, <<>>), a),
           NEW b \in BOOLEAN, NEW y, Leads(Now(b), told, y), Agrees(b, y), ~ y.joined,
           ~ StateAsked(asked), ~ ListAsked(asked),
           ~ StateAsked(Tail(asked)), ~ ListAsked(Tail(asked)),
           NEW z, z = Handled(y, a), StoreOK(z.store), GameShown(z.store, node),
           PhaseShown(y.store, node) => PhaseShown(z.store, node),
           ~ ListComes /\ PeersShown(y.store, node) => PeersShown(z.store, node),
           (ListComes' <=> ListComes) => Joining(b, z)'
    PROVE  ScreenInv'
<1> DEFINE r == Result(node, <<>>)
<1>1. r.node = node /\ r.out = <<>>
  BY DEF Result
<1> HIDE DEF r
<1>2. Answers(r, a)
  BY DEF r
<1>3. Append(r.out, a) = <<a>>
  BY <1>1
<1>4. /\ node' = node /\ told' = told \o <<a>> /\ asked' = Tail(asked)
      /\ UNCHANGED <<store, got, joined, refreshes, again>>
  BY <1>1, <1>2, <1>3 DEF Answers
<1>5. Legal(y, a) /\ ~ BringsState(a) /\ ~ NewPeer(a)
  BY DEF Legal, ForJoin, Fetched, BringsState, NewPeer
<1>6. StoreOK(y.store)
  BY LeadsOK
<1>7. Leads(y, <<a>>, z)
  BY <1>5, <1>6, LeadsByOne
<1>8. Leads(Now(b), told \o <<a>>, z)
  BY <1>7, LeadsOn
<1>9. Leads(Now(b), told, z)' 
  BY <1>4, <1>8 DEF Now
<1>10. /\ StateTold(told') <=> StateTold(told)
       /\ PeerTold(told') <=> PeerTold(told)
  <2>1. IsSeq(told) /\ IsSeq(<<a>>)
    BY LeadsOK, OneIsSeq
  <2>2. ~ StateTold(<<a>>) /\ ~ PeerTold(<<a>>)
    BY <1>5, OneIsSeq DEF StateTold, PeerTold
  <2>3. QED BY <1>4, <2>1, <2>2, ToldInBoth
<1>11. (ListComes' <=> ListComes) /\ (StateComes' <=> StateComes)
  BY <1>4, <1>10 DEF ListComes, StateComes
<1>12. Joining(b, z)'
  BY <1>11
<1>13. GameShown(z.store, node') /\ NodeOK(node') /\ refreshes' \in Nat
  BY <1>4 DEF ScreenInv
<1>14. ~ StateComes' => PhaseShown(z.store, node')
  BY <1>4, <1>11 DEF Agrees
<1>15. ~ ListComes' => PeersShown(z.store, node)'
  BY <1>4, <1>11 DEF Agrees, PeersShown
<1>16. Agrees(b, z)'
  BY <1>12, <1>13, <1>14, <1>15 DEF Agrees
<1>17. QED BY <1>9, <1>13, <1>16 DEF ScreenInv

LEMMA JoinAnswered ==
    ASSUME ScreenInv, GetState \/ GetPeers \/ GetConfig, Head(asked).for = "join"
    PROVE  ScreenInv'
<1> DEFINE q == Head(asked)
<1>0. asked # <<>>
  BY DEF GetState, GetPeers, GetConfig, Asks
<1>1. PICK b, y : b \in BOOLEAN /\ Leads(Now(b), told, y) /\ Agrees(b, y)
  BY DEF ScreenInv
<1>2. ~ y.joined
  <2>1. CASE y.joined
    <3>1. asked \in Seq(LateRequests)
      BY <1>1, <2>1 DEF Agrees, Joining
    <3>2. q \in LateRequests
      BY <1>0, <3>1, FirstOfLate
    <3>3. QED BY <3>2, LateFields
  <2>2. QED BY <2>1
<1>3. ~ joined
  BY <1>1, <1>2, LeadsOK DEF Now, View
<1>4. /\ b
      /\ \/ asked = <<AskState, AskPeers, AskConfig>> /\ y.got = <<>>
         \/ asked = <<AskPeers, AskConfig>> /\ y.got = <<HeldState>>
         \/ asked = <<AskConfig>>
            /\ \E ps \in Peers : /\ y.got = <<HeldState, HeldPeers(ps)>>
                                 /\ ~ ListComes => ps = Nobody
      /\ node.phase = "waiting_for_side" /\ node.team = NoSide
      /\ ~ ListComes => node.peers = Nobody
  BY <1>0, <1>1, <1>2, <1>3 DEF Agrees, Joining
<1>5. Synced(y, node) /\ StoreOK(y.store) /\ y.store \in Stores /\ node \in Nodes
  BY <1>1, LeadsOK DEF Synced, ScreenInv, Agrees, StoreOK, NodeOK
<1>6. GameShown(y.store, node)
  BY <1>5 DEF Synced
<1>7. /\ ~ StateAsked(asked) /\ ~ ListAsked(asked)
      /\ ~ StateAsked(Tail(asked)) /\ ~ ListAsked(Tail(asked))
  BY <1>4, JoinAsks, JoinSteps
<1>8. CASE asked = <<AskState, AskPeers, AskConfig>> /\ y.got = <<>>
  <2>1. PICK a : a = HeldState
    OBVIOUS
  <2>2. PICK z : z = View(y.store, <<a>>, y.joined, y.begun)
    OBVIOUS
  <2>3. GetState /\ Tail(asked) = <<AskPeers, AskConfig>> /\ q = AskState
    BY <1>8, JoinSteps DEF GetState, GetPeers, GetConfig, Asks
  <2>4. Answers(Result(node, <<>>), a)
    BY <2>3, <2>1, JoinSteps DEF GetState, HeldState
  <2>5. a.type = "state" /\ a.for = "join"
    BY <2>1 DEF HeldState
  <2>6. UNCHANGED <<node, joined>> /\ asked' = <<AskPeers, AskConfig>>
    BY <2>3, <2>4 DEF Answers, Result
  <2>7. HeldState' = HeldState
    BY <2>6 DEF HeldState, Snapshot
  <2>8. Append(y.got, a) = <<a>>
    BY <1>8
  <2>9. z = Handled(y, a)
    BY <2>5, <2>8, <2>2 DEF Handled, Answer
  <2>10. /\ z.store = y.store /\ z.got = <<a>> /\ ~ z.joined
    BY <1>2, <2>2 DEF View
  <2>11. ForJoin(a)
    BY <2>5 DEF ForJoin, Fetched
  <2>12. ASSUME ListComes' <=> ListComes PROVE Joining(b, z)'
    BY <1>3, <1>4, <2>6, <2>7, <2>10, <2>12, <2>1 DEF Joining
  <2>13. QED BY <1>0, <1>1, <1>2, <1>5, <1>6, <1>7, <2>4, <2>9, <2>10, <2>11, <2>12, JoinAnswerKeeps
<1>9. CASE asked = <<AskPeers, AskConfig>> /\ y.got = <<HeldState>>
  <2>1. PICK ps : ps = node.peers
    OBVIOUS
  <2>2. PICK a : a = HeldPeers(ps)
    OBVIOUS
  <2>3. PICK held : held = HeldState
    OBVIOUS
  <2>4. PICK z : z = View(y.store, <<held, a>>, y.joined, y.begun)
    OBVIOUS
  <2>5. GetPeers /\ Tail(asked) = <<AskConfig>> /\ q = AskPeers
    BY <1>9, JoinSteps DEF GetState, GetPeers, GetConfig, Asks
  <2>6. Answers(Result(node, <<>>), a)
    BY <2>5, <2>1, <2>2, JoinSteps DEF GetPeers, HeldPeers
  <2>7. a.type = "peers" /\ a.for = "join"
    BY <2>2 DEF HeldPeers
  <2>8. UNCHANGED <<node, joined>> /\ asked' = <<AskConfig>>
    BY <2>5, <2>6 DEF Answers, Result
  <2>9. HeldState' = HeldState
    BY <2>8 DEF HeldState, Snapshot
  <2>10. ps \in Peers
    BY <1>5, <2>1 DEF Nodes
  <2>11. Append(y.got, a) = <<held, a>>
    BY <1>9, <2>3, AppendedToOne
  <2>12. z.got = <<held, a>> /\ z.store = y.store /\ ~ z.joined
    BY <1>2, <2>4 DEF View
  <2>13. z = Handled(y, a)
    BY <2>7, <2>11, <2>4 DEF Handled, Answer
  <2>14. ForJoin(a)
    BY <2>7 DEF ForJoin, Fetched
  <2>15. ASSUME ListComes' <=> ListComes PROVE Joining(b, z)'
    <3>1. held = HeldState' /\ a = HeldPeers(ps)'
      BY <2>9, <2>2, <2>3 DEF HeldPeers
    <3>2. ~ ListComes' => ps = Nobody
      BY <1>4, <2>15, <2>1
    <3>3. QED BY <1>3, <1>4, <2>8, <2>10, <2>12, <2>15, <3>1, <3>2 DEF Joining
  <2>16. QED BY <1>0, <1>1, <1>2, <1>5, <1>6, <1>7, <2>6, <2>12, <2>13, <2>14, <2>15, JoinAnswerKeeps
<1>10. CASE asked = <<AskConfig>>
            /\ \E ps \in Peers : /\ y.got = <<HeldState, HeldPeers(ps)>>
                                 /\ ~ ListComes => ps = Nobody
  <2>1. PICK ps \in Peers : /\ y.got = <<HeldState, HeldPeers(ps)>>
                            /\ ~ ListComes => ps = Nobody
    BY <1>10
  <2>2. PICK a : a = [type |-> "config", for |-> "join", config |-> Config(node), seen |-> q.seen]
    OBVIOUS
  <2> DEFINE t == SetPeers(ApplySnapshot(y.store, Snapshot(node)), ps)
             s == ApplyConfigSnapshot(t, Config(node))
  <2>3. PICK z : z = View(s, <<>>, TRUE, y.begun)
    OBVIOUS
  <2>4. GetConfig /\ Tail(asked) = <<>> /\ q = AskConfig
    BY <1>10, JoinSteps DEF GetState, GetPeers, GetConfig, Asks
  <2>5. Answers(Result(node, <<>>), a)
    BY <2>4, <2>2, JoinSteps DEF GetConfig
  <2>6. a.type = "config" /\ a.for = "join" /\ a.config = Config(node)
    BY <2>2
  <2>7. UNCHANGED <<node, joined>> /\ asked' = <<>>
    BY <2>4, <2>5 DEF Answers, Result
  <2>8. y.got[1].state = Snapshot(node) /\ y.got[2].peers = ps
    BY <2>1 DEF HeldState, HeldPeers
  <2>9. Hydrate(y, a) = s
    BY <2>6, <2>8 DEF Hydrate
  <2>10. z = Handled(y, a)
    BY <2>6, <2>9, <2>3 DEF Handled, Answer
  <2>11. /\ t \in Stores /\ t.phase = node.phase /\ t.team = node.team
         /\ t.window = y.store.window /\ t.resign = y.store.resign /\ t.peers = ps
    <3> DEFINE u == ApplySnapshot(y.store, Snapshot(node))
    <3>1. /\ u \in Stores /\ u.phase = node.phase /\ u.team = node.team
          /\ u.window = y.store.window /\ u.resign = y.store.resign
      BY <1>5, SnapshotTypes DEF Snapshot, Nodes
    <3>2. t = SetPeers(u, ps)
      OBVIOUS
    <3> HIDE DEF u, t
    <3>3. QED BY <2>1, <3>1, <3>2 DEF SetPeers, Stores
  <2> HIDE DEF t
  <2>12. s \in Stores /\ Alike(s, t) /\ SettingsShown(s, node.hs)
    BY <1>5, <2>11, ConfigTypes
  <2> HIDE DEF s
  <2>13. z.store = s /\ z.got = <<>> /\ z.joined
    BY <2>3 DEF View
  <2>14. s.window = NoWindow /\ s.resign = NoResign
    BY <1>4, <1>5, <2>11, <2>12, ClosedOutside DEF Alike
  <2>15. StoreOK(s)
    BY <2>12, <2>14 DEF StoreOK
  <2>16. GameShown(s, node) /\ PhaseShown(s, node)
    BY <1>6, <2>11, <2>12 DEF Alike, GameShown, RestShown, WindowShown, PhaseShown
  <2>17. ~ ListComes => PeersShown(s, node)
    BY <1>4, <2>11, <2>12, <2>1 DEF Alike, PeersShown
  <2>18. ForJoin(a)
    BY <2>6 DEF ForJoin, Fetched
  <2>19. asked' \in Seq(LateRequests) /\ ~ ResetAsked(asked')
    BY <2>7, JoinAsks, EmptySeq
  <2>20. Joining(b, z)'
    BY <1>3, <1>4, <2>7, <2>13, <2>19 DEF Joining
  <2>21. QED BY <1>0, <1>1, <1>2, <1>7, <2>5, <2>10, <2>13, <2>15, <2>16, <2>17, <2>18, <2>20, JoinAnswerKeeps
<1>11. QED BY <1>4, <1>8, <1>9, <1>10

LEMMA MainProcessKeeps ==
    ASSUME ScreenInv, MainProcess
    PROVE  ScreenInv'
BY ButtonsKeep, ResetKeeps, FetchesKeep, JoinAnswered DEF MainProcess

-----------------------------------------------------------------------------
(* The screen takes the first of what it is told.                          *)

LEMMA FirstOfTold ==
    ASSUME NEW ms, IsSeq(ms), ms # <<>>
    PROVE  /\ StateTold(ms) => BringsState(Head(ms)) \/ StateTold(Tail(ms))
           /\ PeerTold(ms) => NewPeer(Head(ms)) \/ PeerTold(Tail(ms))
<1>1. /\ Len(ms) \in Nat /\ Len(ms) > 0 /\ Len(Tail(ms)) = Len(ms) - 1 /\ Head(ms) = ms[1]
      /\ \A i \in 1..Len(Tail(ms)) : Tail(ms)[i] = ms[i + 1]
  BY TailIsSeq
<1>2. ASSUME NEW i \in 1..Len(ms)
      PROVE  ms[i] = Head(ms) \/ (i - 1 \in 1..Len(Tail(ms)) /\ ms[i] = Tail(ms)[i - 1])
  <2>1. i = 1 \/ (i - 1 \in 1..Len(Tail(ms)) /\ (i - 1) + 1 = i)
    BY <1>1
  <2>2. QED BY <1>1, <2>1
<1>3. QED BY <1>2 DEF StateTold, PeerTold

LEMMA AskedIsSeq ==
    ASSUME ScreenInv
    PROVE  IsSeq(asked) /\ asked \o <<>> = asked
<1>1. PICK b, y : b \in BOOLEAN /\ Leads(Now(b), told, y) /\ Agrees(b, y)
  BY DEF ScreenInv
<1>2. CASE y.joined
  <2>1. asked \in Seq(LateRequests)
    BY <1>1, <1>2 DEF Agrees, Joining
  <2>2. QED BY <2>1, ConcatEmptySeq DEF IsSeq
<1>3. CASE ~ y.joined
  <2>1. asked \in {<<AskState, AskPeers, AskConfig>>, <<AskPeers, AskConfig>>, <<AskConfig>>, <<>>}
    BY <1>1, <1>3 DEF Agrees, Joining
  <2>2. IsSeq(asked)
    BY <2>1, JoinAsks
  <2>3. QED BY <2>2, ConcatEmptySeq DEF IsSeq
<1>4. QED BY <1>2, <1>3

\* What is left is to say how far joining is then.
LEMMA FirstIsShown ==
    ASSUME ScreenInv, told # <<>>, NEW b \in BOOLEAN, NEW y, Leads(Now(b), told, y),
           Agrees(b, y), NEW c \in BOOLEAN, NEW qs, IsSeq(qs),
           View(store', got', joined', c) = Handled(Now(b), Head(told)),
           told' = Tail(told), asked' = asked \o qs, UNCHANGED <<node, again>>,
           refreshes' \in Nat, refreshes' >= refreshes,
           NewPeer(Head(told)) => refreshes' > 0,
           BringsState(Head(told)) => StateAsked(qs),
           (ListComes => ListComes') => Joining(c, y)'
    PROVE  ScreenInv'
<1>1. Leads(Now(c)', told', y)
  BY LeadsAfter DEF Now
<1>2. IsSeq(told) /\ IsSeq(asked)
  BY LeadsOK, AskedIsSeq
<1>3. /\ StateAsked(asked') <=> StateAsked(asked) \/ StateAsked(qs)
      /\ ListAsked(asked') <=> ListAsked(asked) \/ ListAsked(qs)
  BY <1>2, ToldInBoth
<1>4. StateComes => StateComes'
  BY <1>2, <1>3, FirstOfTold DEF StateComes
<1>5. ListComes => ListComes'
  <2>1. refreshes \in Nat
    BY DEF ScreenInv
  <2>2. refreshes > 0 => refreshes' > 0
    BY <2>1
  <2>3. QED BY <1>2, <1>3, <2>2, FirstOfTold DEF ListComes
<1>6. Joining(c, y)'
  BY <1>5
<1>7. /\ GameShown(y.store, node) /\ (~ StateComes => PhaseShown(y.store, node))
      /\ (~ ListComes => PeersShown(y.store, node)) /\ NodeOK(node)
  BY DEF Agrees, ScreenInv
<1>8. /\ GameShown(y.store, node') /\ (~ StateComes' => PhaseShown(y.store, node'))
      /\ NodeOK(node')
  BY <1>4, <1>7
<1>9. ~ ListComes' => PeersShown(y.store, node)'
  BY <1>5, <1>7 DEF PeersShown
<1>10. Agrees(c, y)'
  BY <1>6, <1>8, <1>9 DEF Agrees
<1>11. QED BY <1>1, <1>8, <1>10 DEF ScreenInv

\* All messages but the first one, connected.
LEMMA MessageKeeps ==
    ASSUME ScreenInv, told # <<>>, NEW qs \in Seq(LateRequests), ~ ResetAsked(qs),
           qs = <<>> \/ joined,
           \A b \in BOOLEAN : View(store', got', joined', b) = Handled(Now(b), Head(told)),
           told' = Tail(told), asked' = asked \o qs, UNCHANGED <<node, again>>,
           joined => joined',
           refreshes' \in Nat, refreshes' >= refreshes,
           NewPeer(Head(told)) => refreshes' > 0,
           BringsState(Head(told)) => StateAsked(qs)
    PROVE  ScreenInv'
<1>1. PICK b, y : b \in BOOLEAN /\ Leads(Now(b), told, y) /\ Agrees(b, y)
  BY DEF ScreenInv
<1>2. joined => y.joined
  BY <1>1, LeadsOK DEF Now, View
<1>3. joined' => y.joined
  <2>1. Leads(View(store', got', joined', b), Tail(told), y)
    BY <1>1, LeadsAfter
  <2>2. QED BY <2>1, LeadsOK DEF View
<1>4. Joining(b, y)
  BY <1>1 DEF Agrees
<1>5. IsSeq(qs)
  BY DEF IsSeq
<1>6. IsSeq(asked) /\ asked \o <<>> = asked
  BY AskedIsSeq
<1>7. ASSUME ListComes => ListComes' PROVE Joining(b, y)'
  <2>1. CASE ~ y.joined
    <3>1. ~ joined /\ ~ joined' /\ asked' = asked
      BY <1>2, <1>3, <1>6, <2>1
    <3>2. HeldState' = HeldState
      BY DEF HeldState, Snapshot
    <3>3. QED BY <1>4, <1>7, <2>1, <3>1, <3>2 DEF Joining, HeldPeers
  <2>2. CASE y.joined
    <3>1. asked \in Seq(LateRequests) /\ (ResetAsked(asked) => again) /\ y.got = <<>> /\ b
      BY <1>4, <2>2 DEF Joining
    <3>2. asked' \in Seq(LateRequests)
      BY <3>1, ConcatProperties
    <3>3. ResetAsked(asked') => again'
      BY <1>5, <1>6, <3>1, ToldInBoth
    <3>4. ~ joined' => asked' = asked /\ ~ joined
      BY <1>6
    <3>5. QED BY <1>4, <2>2, <3>1, <3>2, <3>3, <3>4 DEF Joining
  <2>3. QED BY <2>1, <2>2
<1>8. QED BY <1>1, <1>5, <1>7, FirstIsShown

LEMMA SilentMessageKeeps ==
    ASSUME ScreenInv, told # <<>>,
           \A b \in BOOLEAN : View(store', got', joined', b) = Handled(Now(b), Head(told)),
           told' = Tail(told), asked' = asked, UNCHANGED <<node, again>>,
           joined => joined',
           refreshes' \in Nat, refreshes' >= refreshes,
           NewPeer(Head(told)) => refreshes' > 0,
           ~ BringsState(Head(told))
    PROVE  ScreenInv'
<1>1. <<>> \in Seq(LateRequests) /\ ~ ResetAsked(<<>>)
  BY EmptySeq, JoinAsks
<1>2. asked' = asked \o <<>>
  BY AskedIsSeq
<1>3. QED BY <1>1, <1>2, MessageKeeps

\* A late answer finds joining over.
LEMMA LateAnswer ==
    ASSUME ScreenInv, told # <<>>, Head(told).type \in {"done"} \cup Fetched,
           ~ ForJoin(Head(told))
    PROVE  joined /\ (Head(told).type = "done" => Head(told).seen \in Nat)
<1>1. PICK b, y : b \in BOOLEAN /\ Leads(Now(b), told, y) /\ Agrees(b, y)
  BY DEF ScreenInv
<1>2. Legal(Now(b), Head(told))
  BY <1>1, LeadsAfter
<1>3. QED BY <1>2 DEF Legal, Now, View

LEMMA ConnectedKeeps ==
    ASSUME ScreenInv, Connected
    PROVE  ScreenInv'
<1> DEFINE m  == Head(told)
           qs == <<AskState, AskPeers, AskConfig>>
<1>1. /\ told # <<>> /\ m.type = "connected" /\ told' = Tail(told) /\ asked' = asked \o qs
      /\ UNCHANGED <<node, store, got, joined, refreshes, again>>
  BY DEF Connected, Hears, More, AskState, AskPeers, AskConfig
<1>2. PICK b, y : b \in BOOLEAN /\ Leads(Now(b), told, y) /\ Agrees(b, y)
  BY DEF ScreenInv
<1>3. ~ b
  BY <1>1, <1>2, LeadsAfter DEF Legal, Now, View
<1>4. asked = <<>> /\ y.got = <<>> /\ ~ y.joined /\ ~ joined /\ Joining(b, y)
  BY <1>2, <1>3, LeadsOK DEF Agrees, Joining, Now, View
<1>5. IsSeq(qs) /\ ~ StateAsked(qs)
  BY JoinAsks
<1>6. asked' = qs
  BY <1>1, <1>4, <1>5, ConcatEmptySeq DEF IsSeq
<1>7. View(store', got', joined', TRUE) = Handled(Now(b), m)
  BY <1>1 DEF Handled, Answer, Now, View
<1>8. ~ NewPeer(m) /\ ~ BringsState(m) /\ refreshes \in Nat
  BY <1>1 DEF NewPeer, BringsState, ScreenInv
<1>9. ASSUME ListComes => ListComes' PROVE Joining(TRUE, y)'
  BY <1>1, <1>4, <1>6, <1>9 DEF Joining
<1>10. refreshes' \in Nat /\ refreshes' >= refreshes
  BY <1>1, <1>8
<1>11. /\ told # <<>> /\ told' = Tail(told) /\ asked' = asked \o qs /\ UNCHANGED <<node, again>>
  BY <1>1
<1> HIDE DEF qs, m
<1>12. QED BY <1>2, <1>5, <1>7, <1>8, <1>9, <1>10, <1>11, FirstIsShown DEF m

LEMMA PushKeeps ==
    ASSUME ScreenInv, PushIsShown
    PROVE  ScreenInv'
<1> DEFINE m == Head(told)
<1>1. /\ told # <<>> /\ m.type \notin Answer /\ told' = Tail(told)
      /\ store' = OnPush(store, m)
      /\ refreshes' = refreshes + (IF m.type = "peer:joined" THEN 1 ELSE 0)
      /\ UNCHANGED <<node, asked, got, joined, again>>
  BY DEF PushIsShown, IsPush, Hears
<1>2. refreshes \in Nat
  BY DEF ScreenInv
<1>3. refreshes' \in Nat /\ refreshes' >= refreshes /\ (NewPeer(m) => refreshes' > 0)
  BY <1>1, <1>2 DEF NewPeer
<1>4. ~ BringsState(m)
  BY <1>1 DEF BringsState, Answer
<1>5. \A b \in BOOLEAN : View(store', got', joined', b) = Handled(Now(b), m)
  BY <1>1 DEF Handled, WithStore, Now, View, Answer
<1>6. QED BY <1>1, <1>3, <1>4, <1>5, SilentMessageKeeps

LEMMA JoinMessagesKeep ==
    ASSUME ScreenInv, AnswerIsHeld \/ Hydrated
    PROVE  ScreenInv'
<1> DEFINE m == Head(told)
<1>1. told # <<>> /\ m.type \in Fetched /\ m.for = "join"
  BY DEF AnswerIsHeld, Hydrated, AnswerTo, Hears, Fetched
<1>2. told' = Tail(told) /\ asked' = asked /\ UNCHANGED <<node, refreshes, again>>
  BY AskedIsSeq DEF AnswerIsHeld, Hydrated, More
<1>3. refreshes \in Nat /\ ~ NewPeer(m) /\ ~ BringsState(m)
  BY <1>1 DEF ScreenInv, NewPeer, BringsState, Fetched
<1>4. refreshes' \in Nat /\ refreshes' >= refreshes
  BY <1>2, <1>3
<1>5. CASE AnswerIsHeld
  <2>1. /\ m.type \in {"state", "peers"} /\ got' = Append(got, m)
        /\ UNCHANGED <<store, joined>>
    BY <1>5 DEF AnswerIsHeld, AnswerTo
  <2>2. \A b \in BOOLEAN : View(store', got', joined', b) = Handled(Now(b), m)
    BY <1>1, <2>1 DEF Handled, Now, View, Answer
  <2>3. QED BY <1>1, <1>2, <1>3, <1>4, <2>1, <2>2, SilentMessageKeeps
<1>6. CASE Hydrated
  <2>1. /\ m.type = "config" /\ got' = <<>> /\ joined' = TRUE
        /\ store' = ApplyConfigSnapshot(
               SetPeers(ApplySnapshot(store, got[1].state), got[2].peers), m.config)
    BY <1>6 DEF Hydrated, AnswerTo
  <2>2. \A b \in BOOLEAN : View(store', got', joined', b) = Handled(Now(b), m)
    BY <1>1, <2>1 DEF Handled, Now, View, Answer, Hydrate
  <2>3. QED BY <1>1, <1>2, <1>3, <1>4, <2>1, <2>2, SilentMessageKeeps
<1>7. QED BY <1>5, <1>6

LEMMA OneLateRequest ==
    ASSUME NEW q \in LateRequests, q.ask # "reset"
    PROVE  /\ <<q>> \in Seq(LateRequests) /\ ~ ResetAsked(<<q>>)
           /\ AsksState(q) => StateAsked(<<q>>)
<1>1. <<q>> \in Seq(LateRequests)
  OBVIOUS
<1>2. QED BY <1>1, OneIsSeq DEF ResetAsked, StateAsked

\* What a button's handler asks for next.
LEMMA NextRequests ==
    /\ \A button \in StateFor : /\ Request("getState", button) \in LateRequests
                                /\ AsksState(Request("getState", button))
                                /\ Request("getState", button).ask = "getState"
    /\ \A n \in Nat : [ask |-> "getConfig", for |-> "propose", seen |-> n] \in LateRequests
    /\ Request("getPeers", "refresh") \in LateRequests
    /\ AsksList(Request("getPeers", "refresh"))
BY DEF Request, LateRequests, StateFor, AsksState, AsksList

LEMMA LateMessagesKeep ==
    ASSUME ScreenInv,
           \/ PeersAreShown \/ ConfigIsAskedFor \/ ConfigIsShown \/ AcceptIsShown
           \/ \E button \in StateFor : StateIsAskedFor(button) \/ StateIsShown(button)
           \/ \E button \in {"vote", "resign", "again"} : ClickIsDone(button)
    PROVE  ScreenInv'
<1> DEFINE m == Head(told)
<1>0. IsSeq(asked) /\ asked \o <<>> = asked /\ refreshes \in Nat
  BY AskedIsSeq DEF ScreenInv
<1>1. CASE PeersAreShown
  <2>1. /\ told # <<>> /\ m.type = "peers" /\ m.for = "refresh" /\ told' = Tail(told)
        /\ asked' = asked /\ store' = SetPeers(store, m.peers)
        /\ UNCHANGED <<node, got, joined, refreshes, again>>
    BY <1>0, <1>1 DEF PeersAreShown, AnswerTo, Hears, More
  <2>2. \A b \in BOOLEAN : View(store', got', joined', b) = Handled(Now(b), m)
    BY <2>1 DEF Handled, WithStore, Now, View, Answer
  <2>3. ~ NewPeer(m) /\ ~ BringsState(m)
    BY <2>1 DEF NewPeer, BringsState
  <2>4. QED BY <1>0, <2>1, <2>2, <2>3, SilentMessageKeeps
<1>2. CASE ConfigIsAskedFor
  <2> DEFINE q == [ask |-> "getConfig", for |-> "propose", seen |-> m.seen]
  <2>1. /\ told # <<>> /\ m.type = "done" /\ m.for = "propose" /\ told' = Tail(told)
        /\ asked' = asked \o <<q>> \/ asked' = asked
        /\ UNCHANGED <<node, store, got, joined, refreshes, again>>
    BY <1>0, <1>2 DEF ConfigIsAskedFor, AnswerTo, Hears, More
  <2>2. joined /\ m.seen \in Nat
    BY <2>1, LateAnswer DEF ForJoin, Fetched
  <2>3. q \in LateRequests /\ q.ask # "reset"
    BY <2>2, NextRequests
  <2> HIDE DEF q
  <2>4. \A b \in BOOLEAN : View(store', got', joined', b) = Handled(Now(b), m)
    BY <2>1 DEF Handled, Now, View, Answer
  <2>5. ~ NewPeer(m) /\ ~ BringsState(m)
    BY <2>1 DEF NewPeer, BringsState, StateFor
  <2>6. <<q>> \in Seq(LateRequests) /\ ~ ResetAsked(<<q>>)
    BY <2>3, OneLateRequest
  <2>7. refreshes' \in Nat /\ refreshes' >= refreshes /\ (joined => joined')
    BY <1>0, <2>1
  <2>8. CASE asked' = asked \o <<q>>
    BY <2>1, <2>2, <2>4, <2>5, <2>6, <2>8, <2>7, MessageKeeps
  <2>9. CASE asked' = asked
    BY <2>1, <2>4, <2>5, <2>9, <2>7, SilentMessageKeeps
  <2>10. QED BY <2>1, <2>8, <2>9
<1>3. CASE ConfigIsShown
  <2>1. /\ told # <<>> /\ m.type = "config" /\ m.for = "propose" /\ told' = Tail(told)
        /\ asked' = asked
        /\ store' = SetSelfAccepted(ApplyConfigSnapshot(store, m.config), m.seen + 1)
        /\ UNCHANGED <<node, got, joined, refreshes, again>>
    BY <1>0, <1>3 DEF ConfigIsShown, AnswerTo, Hears, More
  <2>2. \A b \in BOOLEAN : View(store', got', joined', b) = Handled(Now(b), m)
    BY <2>1 DEF Handled, WithStore, Now, View, Answer
  <2>3. ~ NewPeer(m) /\ ~ BringsState(m)
    BY <2>1 DEF NewPeer, BringsState
  <2>4. QED BY <1>0, <2>1, <2>2, <2>3, SilentMessageKeeps
<1>4. CASE AcceptIsShown
  <2>1. /\ told # <<>> /\ m.type = "done" /\ m.for = "accept" /\ told' = Tail(told)
        /\ asked' = asked
        /\ store' = IF m.ok THEN SetSelfAccepted(store, m.seen) ELSE store
        /\ UNCHANGED <<node, got, joined, refreshes, again>>
    BY <1>0, <1>4 DEF AcceptIsShown, AnswerTo, Hears, More
  <2>2. \A b \in BOOLEAN : View(store', got', joined', b) = Handled(Now(b), m)
    BY <2>1 DEF Handled, WithStore, Now, View, Answer
  <2>3. ~ NewPeer(m) /\ ~ BringsState(m)
    BY <2>1 DEF NewPeer, BringsState, StateFor
  <2>4. QED BY <1>0, <2>1, <2>2, <2>3, SilentMessageKeeps
<1>5. ASSUME NEW button \in StateFor, StateIsAskedFor(button) PROVE ScreenInv'
  <2> DEFINE q == Request("getState", button)
  <2>1. /\ told # <<>> /\ m.type = "done" /\ m.for = button /\ told' = Tail(told)
        /\ (m.ok /\ asked' = asked \o <<q>>) \/ (~ m.ok /\ asked' = asked)
        /\ UNCHANGED <<node, store, got, joined, refreshes, again>>
    BY <1>0, <1>5 DEF StateIsAskedFor, AnswerTo, Hears, More
  <2>2. joined
    BY <2>1, LateAnswer DEF ForJoin, Fetched
  <2>3. q \in LateRequests /\ q.ask # "reset" /\ AsksState(q)
    BY NextRequests
  <2> HIDE DEF q
  <2>4. \A b \in BOOLEAN : View(store', got', joined', b) = Handled(Now(b), m)
    BY <2>1 DEF Handled, Now, View, Answer, StateFor
  <2>5. ~ NewPeer(m)
    BY <2>1 DEF NewPeer
  <2>6. <<q>> \in Seq(LateRequests) /\ ~ ResetAsked(<<q>>) /\ StateAsked(<<q>>)
    BY <2>3, OneLateRequest
  <2>7. refreshes' \in Nat /\ refreshes' >= refreshes /\ (joined => joined')
    BY <1>0, <2>1
  <2>8. CASE m.ok /\ asked' = asked \o <<q>>
    BY <2>1, <2>2, <2>4, <2>5, <2>6, <2>8, <2>7, MessageKeeps
  <2>9. CASE ~ m.ok /\ asked' = asked
    <3>1. ~ BringsState(m)
      BY <2>9 DEF BringsState
    <3>2. QED BY <2>1, <2>4, <2>5, <2>9, <2>7, <3>1, SilentMessageKeeps
  <2>10. QED BY <2>1, <2>8, <2>9
<1>6. ASSUME NEW button \in StateFor, StateIsShown(button) PROVE ScreenInv'
  <2>1. /\ told # <<>> /\ m.type = "state" /\ m.for # "join" /\ told' = Tail(told)
        /\ asked' = asked /\ store' = ApplySnapshot(store, m.state)
        /\ UNCHANGED <<node, got, joined, refreshes, again>>
    BY <1>0, <1>6 DEF StateIsShown, AnswerTo, Hears, More, StateFor
  <2>2. \A b \in BOOLEAN : View(store', got', joined', b) = Handled(Now(b), m)
    BY <2>1 DEF Handled, WithStore, Now, View, Answer
  <2>3. ~ NewPeer(m) /\ ~ BringsState(m)
    BY <2>1 DEF NewPeer, BringsState
  <2>4. QED BY <1>0, <2>1, <2>2, <2>3, SilentMessageKeeps
<1>7. ASSUME NEW button \in {"vote", "resign", "again"}, ClickIsDone(button) PROVE ScreenInv'
  <2>1. /\ told # <<>> /\ m.type = "done" /\ m.for = button /\ told' = Tail(told)
        /\ asked' = asked
        /\ store' = IF button = "again" THEN ResetGame(store) ELSE store
        /\ UNCHANGED <<node, got, joined, refreshes, again>>
    BY <1>0, <1>7 DEF ClickIsDone, AnswerTo, Hears, More
  <2>2. \A b \in BOOLEAN : View(store', got', joined', b) = Handled(Now(b), m)
    BY <2>1 DEF Handled, WithStore, Now, View, Answer
  <2>3. ~ NewPeer(m) /\ ~ BringsState(m)
    BY <2>1 DEF NewPeer, BringsState, StateFor
  <2>4. QED BY <1>0, <2>1, <2>2, <2>3, SilentMessageKeeps
<1>8. QED BY <1>1, <1>2, <1>3, <1>4, <1>5, <1>6, <1>7

-----------------------------------------------------------------------------
(* The screen asks, and the beginning.                                     *)

LEMMA AskedFor ==
    ASSUME ScreenInv, joined, NEW q \in LateRequests, asked' = Append(asked, q),
           UNCHANGED <<node, store, told, got, joined>>,
           refreshes' \in Nat, refreshes' >= refreshes \/ AsksList(q),
           again => again', q.ask = "reset" => again'
    PROVE  ScreenInv'
<1>1. PICK b, y : b \in BOOLEAN /\ Leads(Now(b), told, y) /\ Agrees(b, y)
  BY DEF ScreenInv
<1>2. y.joined
  BY <1>1, LeadsOK DEF Now, View
<1>3. /\ asked \in Seq(LateRequests) /\ (ResetAsked(asked) => again) /\ y.got = <<>> /\ b
  BY <1>1, <1>2 DEF Agrees, Joining
<1>4. IsSeq(asked) /\ IsSeq(<<q>>) /\ asked' = asked \o <<q>>
  BY <1>3, AppendsOne, OneIsSeq DEF IsSeq
<1>5. /\ StateAsked(asked') <=> StateAsked(asked) \/ StateAsked(<<q>>)
      /\ ListAsked(asked') <=> ListAsked(asked) \/ ListAsked(<<q>>)
      /\ ResetAsked(asked') <=> ResetAsked(asked) \/ ResetAsked(<<q>>)
  BY <1>4, ToldInBoth
<1>6. /\ AsksList(q) => ListAsked(<<q>>)
      /\ ResetAsked(<<q>>) => q.ask = "reset"
  BY OneIsSeq DEF ListAsked, ResetAsked
<1>7. refreshes \in Nat
  BY DEF ScreenInv
<1>8. (StateComes => StateComes') /\ (ListComes => ListComes')
  BY <1>5, <1>6, <1>7 DEF StateComes, ListComes
<1>9. asked' \in Seq(LateRequests) /\ (ResetAsked(asked') => again')
  BY <1>3, <1>5, <1>6, AppendProperties
<1>10. Joining(b, y)'
  BY <1>2, <1>3, <1>9 DEF Joining
<1>11. /\ GameShown(y.store, node') /\ (~ StateComes' => PhaseShown(y.store, node'))
       /\ NodeOK(node')
  BY <1>1, <1>8 DEF Agrees, ScreenInv
<1>12. ~ ListComes' => PeersShown(y.store, node)'
  BY <1>1, <1>8 DEF Agrees, PeersShown
<1>13. Agrees(b, y)'
  BY <1>10, <1>11, <1>12 DEF Agrees
<1>14. Leads(Now(b), told, y)'
  BY <1>1 DEF Now
<1>15. QED BY <1>1, <1>11, <1>13, <1>14 DEF ScreenInv

LEMMA RefreshKeeps ==
    ASSUME ScreenInv, RefreshIsDue
    PROVE  ScreenInv'
<1>1. refreshes \in Nat /\ refreshes > 0 /\ refreshes' = refreshes - 1 /\ joined
      /\ UNCHANGED <<node, store, told, got, joined, again>>
      /\ asked' = Append(asked, Request("getPeers", "refresh"))
  BY DEF ScreenInv, RefreshIsDue
<1>2. refreshes' \in Nat
  BY <1>1
<1>3. /\ Request("getPeers", "refresh") \in LateRequests
      /\ AsksList(Request("getPeers", "refresh"))
      /\ Request("getPeers", "refresh").ask # "reset"
  BY NextRequests DEF AsksList
<1>4. QED BY <1>1, <1>2, <1>3, AskedFor

LEMMA ClickKeeps ==
    ASSUME ScreenInv, NEW button, NEW q \in LateRequests, Click(button, q),
           again' = again \/ again' = TRUE,
           q.ask = "reset" => again'
    PROVE  ScreenInv'
<1>1. /\ joined /\ asked' = Append(asked, q)
      /\ UNCHANGED <<node, store, told, got, joined, refreshes>>
  BY DEF Click
<1>2. refreshes' \in Nat /\ refreshes' >= refreshes
  BY <1>1 DEF ScreenInv
<1>3. again => again'
  OBVIOUS
<1>4. QED BY <1>1, <1>2, <1>3, AskedFor

LEMMA ClicksKeep ==
    ASSUME ScreenInv, Clicks
    PROVE  ScreenInv'
<1>0. store.version \in Nat
  <2>1. PICK b, y : b \in BOOLEAN /\ Leads(Now(b), told, y) /\ Agrees(b, y)
    BY DEF ScreenInv
  <2>2. StoreOK(store)
    BY <2>1, LeadsOK DEF Now, View
  <2>3. QED BY <2>2 DEF StoreOK, Stores
<1>1. ASSUME NEW t \in Side, ClickSide(t) PROVE ScreenInv'
  <2> DEFINE q == [ask |-> "setTeam", for |-> "side", seen |-> 0, team |-> t]
  <2>1. Click("side", q) /\ again' = again /\ q.ask # "reset"
    BY <1>1 DEF ClickSide
  <2>2. q \in LateRequests
    BY DEF LateRequests
  <2> HIDE DEF q
  <2>3. QED BY <2>1, <2>2, ClickKeeps
<1>2. CASE ClickReady
  <2>1. Click("ready", Request("ready", "ready")) /\ again' = again
    BY <1>2 DEF ClickReady
  <2>2. Request("ready", "ready") \in LateRequests /\ Request("ready", "ready").ask # "reset"
    BY DEF LateRequests, Request, StateFor
  <2>3. QED BY <2>1, <2>2, ClickKeeps
<1>3. CASE ClickUnready
  <2>1. Click("unready", Request("unready", "unready")) /\ again' = again
    BY <1>3 DEF ClickUnready
  <2>2. Request("unready", "unready") \in LateRequests /\ Request("unready", "unready").ask # "reset"
    BY DEF LateRequests, Request, StateFor
  <2>3. QED BY <2>1, <2>2, ClickKeeps
<1>4. ASSUME NEW c \in Forms, ClickPropose(c) PROVE ScreenInv'
  <2>0. c \in AnySettings
    BY DEF Forms, AnySettings
  <2> DEFINE q == [ask |-> "setConfig", for |-> "propose", config |-> c, seen |-> store.version]
  <2>1. Click("propose", q) /\ again' = again /\ q.ask # "reset"
    BY <1>4 DEF ClickPropose
  <2>2. q \in LateRequests
    BY <1>0, <2>0 DEF LateRequests
  <2> HIDE DEF q
  <2>3. QED BY <2>1, <2>2, ClickKeeps
<1>5. CASE ClickAccept
  <2> DEFINE q == [ask |-> "acceptConfig", for |-> "accept", seen |-> store.version]
  <2>1. Click("accept", q) /\ again' = again /\ q.ask # "reset"
    BY <1>5 DEF ClickAccept
  <2>2. q \in LateRequests
    BY <1>0 DEF LateRequests
  <2> HIDE DEF q
  <2>3. QED BY <2>1, <2>2, ClickKeeps
<1>6. CASE ClickVote
  <2>1. Click("vote", Request("castVote", "vote")) /\ again' = again
    BY <1>6 DEF ClickVote
  <2>2. Request("castVote", "vote") \in LateRequests /\ Request("castVote", "vote").ask # "reset"
    BY DEF LateRequests, Request
  <2>3. QED BY <2>1, <2>2, ClickKeeps
<1>7. CASE ClickResign
  <2>1. Click("resign", Request("resign", "resign")) /\ again' = again
    BY <1>7 DEF ClickResign
  <2>2. Request("resign", "resign") \in LateRequests /\ Request("resign", "resign").ask # "reset"
    BY DEF LateRequests, Request
  <2>3. QED BY <2>1, <2>2, ClickKeeps
<1>8. CASE ClickPlayAgain
  <2>1. Click("again", Request("reset", "again")) /\ again' = TRUE
    BY <1>8 DEF ClickPlayAgain
  <2>2. Request("reset", "again") \in LateRequests /\ Request("reset", "again").ask = "reset"
    BY DEF LateRequests, Request
  <2>3. QED BY <2>1, <2>2, ClickKeeps
<1>9. QED BY <1>1, <1>2, <1>3, <1>4, <1>5, <1>6, <1>7, <1>8 DEF Clicks

LEMMA NewTypes ==
    /\ NewNode \in Nodes /\ EmptyStore \in Stores
    /\ NewNode.peers = Nobody /\ EmptyStore.peers = Nobody
    /\ NodeOK(NewNode) /\ StoreOK(EmptyStore)
    /\ GameShown(EmptyStore, NewNode)
<1>1. NewNode \in Nodes /\ NewNode.peers = Nobody
  BY SmallTypes, InitialHandshakeType DEF Nodes, NewNode, Phase, Nobody
<1>2. EmptyStore \in Stores /\ EmptyStore.peers = Nobody
  BY SmallTypes, DefaultType DEF EmptyStore, Stores, Phase, Nobody
<1>3. NodeOK(NewNode)
  BY <1>1 DEF NodeOK, NewNode
<1>4. StoreOK(EmptyStore)
  BY <1>2 DEF StoreOK, EmptyStore
<1>5. WindowShown(EmptyStore, NewNode)
  BY DEF WindowShown, EmptyStore, NewNode
<1>6. SettingsShown(EmptyStore, NewNode.hs)
  BY DEF SettingsShown, EmptyStore, NewNode, H!InitialHandshake
<1>7. RestShown(EmptyStore, NewNode)
  BY <1>6, FS_EmptySet DEF RestShown, EmptyStore, NewNode, NoResign, Early, Lobby
<1>8. QED BY <1>1, <1>2, <1>3, <1>4, <1>5, <1>7 DEF GameShown

LEMMA ConnectingStarts ==
    ASSUME Init, Connecting
    PROVE  ScreenInv
<1> DEFINE m == [type |-> "connected"]
           x == Now(FALSE)
           y == View(EmptyStore, <<>>, FALSE, TRUE)
<1>1. /\ node = NewNode /\ told = <<m>> /\ store = EmptyStore /\ joined = FALSE
      /\ asked = <<>> /\ got = <<>> /\ refreshes = 0
  BY DEF Init, Connecting
<1>2. /\ x.store = EmptyStore /\ x.got = <<>> /\ x.joined = FALSE /\ x.begun = FALSE
      /\ y.store = EmptyStore /\ y.got = <<>> /\ y.joined = FALSE
  BY <1>1 DEF Now, View
<1>3. Handled(x, m) = y
  BY <1>2 DEF Handled, Answer, View
<1>4. Legal(x, m)
  BY <1>2 DEF Legal, ForJoin, Fetched
<1> HIDE DEF m, x, y
<1>5. Leads(x, <<m>>, y)
  BY <1>2, <1>3, <1>4, NewTypes, LeadsByOne
<1>6. node.phase = "waiting_for_side" /\ node.team = NoSide /\ node.peers = Nobody
  BY <1>1, NewTypes DEF NewNode
<1>7. Joining(FALSE, y)
  BY <1>1, <1>2, <1>6 DEF Joining
<1>8. PhaseShown(y.store, node) /\ PeersShown(y.store, node)
  BY <1>1, <1>2, NewTypes DEF PhaseShown, PeersShown, EmptyStore, NewNode
<1>9. Agrees(FALSE, y)
  BY <1>1, <1>2, <1>7, <1>8, NewTypes DEF Agrees
<1>10. NodeOK(node) /\ refreshes \in Nat
  BY <1>1, NewTypes
<1>11. QED BY <1>1, <1>5, <1>9, <1>10 DEF ScreenInv, x

LEMMA ShownStarts ==
    ASSUME Init, NEW phase \in {"waiting_for_ready", "in_progress"},
           NEW window \in Windows, window # NoWindow => phase = "in_progress" /\ window.turn \in Nat,
           NEW sides \in [Peer -> Side], Shown(phase, window, sides, Peer)
    PROVE  ScreenInv
<1> DEFINE ps == [p \in Peer |-> Here(sides[p], phase = "in_progress")]
           ac == [p \in Peer |-> IF p \in Peer THEN 0 ELSE H!None]
           x  == Now(TRUE)
<1>1. /\ node = [NewNode EXCEPT !.phase = phase, !.team = "white", !.peers = ps,
                       !.hs.accepted = ac,
                       !.roster = IF phase = "in_progress" THEN sides ELSE @,
                       !.window = window]
      /\ store = [EmptyStore EXCEPT !.phase = phase, !.team = "white", !.peers = ps,
                        !.accepted = Peer, !.window = window]
      /\ told = <<>> /\ joined = TRUE /\ asked = <<>> /\ got = <<>> /\ refreshes = 0
  BY DEF Init, Shown
<1>2. ps \in Peers
  BY DEF Peers, Here
<1>3. H!InitialHandshake \in H!Handshake /\ H!InitialHandshake = NewNode.hs
  BY InitialHandshakeType DEF NewNode
<1>4. ac = [p \in Peer |-> 0]
  OBVIOUS
<1> HIDE DEF ps, ac
<1> DEFINE h == [H!InitialHandshake EXCEPT !.accepted = ac]
<1>5. h \in H!Handshake /\ h.version = 0 /\ h.config = Default /\ (\A p \in Peer : h.accepted[p] = 0)
  BY <1>3, <1>4 DEF H!Handshake, H!Version, H!InitialHandshake
<1>6. /\ node \in Nodes /\ node.phase = phase /\ node.team = "white" /\ node.peers = ps
      /\ node.hs = h /\ node.window = window /\ node.resign = {}
  <2>1. sides \in [Peer -> Side \cup {NoSide}]
    OBVIOUS
  <2>2. phase \in Phase /\ {} \in SUBSET Anyone /\ "white" \in Side \cup {NoSide}
    BY DEF Phase, Side
  <2>3. NewNode \in Nodes /\ NewNode.resign = {}
    BY NewTypes DEF NewNode
  <2>4. node = [NewNode EXCEPT !.phase = phase, !.team = "white", !.peers = ps, !.hs = h,
                    !.roster = IF phase = "in_progress" THEN sides ELSE @, !.window = window]
    BY <1>1, <1>3, <2>3 DEF Nodes
  <2> HIDE DEF h
  <2>5. QED BY <1>2, <1>5, <2>1, <2>2, <2>3, <2>4 DEF Nodes
<1>7. /\ store \in Stores /\ store.phase = phase /\ store.team = "white" /\ store.peers = ps
      /\ store.accepted = Peer /\ store.window = window /\ store.version = 0
      /\ store.config = Default /\ store.resign = NoResign
  <2>1. phase \in Phase /\ Peer \in SUBSET Anyone /\ "white" \in Side \cup {NoSide}
    BY DEF Phase, Side, Anyone
  <2>2. /\ EmptyStore \in Stores /\ EmptyStore.version = 0 /\ EmptyStore.config = Default
        /\ EmptyStore.resign = NoResign
    BY NewTypes DEF EmptyStore
  <2>3. QED BY <1>1, <1>2, <2>1, <2>2 DEF Stores
<1> HIDE DEF h
<1>8. NodeOK(node) /\ StoreOK(store)
  BY <1>6, <1>7 DEF NodeOK, StoreOK, Side
<1>9. SettingsShown(store, node.hs)
  BY <1>5, <1>6, <1>7 DEF SettingsShown
<1>10. GameShown(store, node)
  BY <1>6, <1>7, <1>9, FS_EmptySet DEF GameShown, WindowShown, RestShown, NoResign
<1>11. PhaseShown(store, node) /\ PeersShown(store, node)
  BY <1>6, <1>7 DEF PhaseShown, PeersShown
<1>12. x.store = store /\ x.got = <<>> /\ x.joined = TRUE
  BY <1>1 DEF Now, View
<1> HIDE DEF x
<1>13. Leads(x, told, x)
  BY <1>1, <1>8, <1>12, LeadsNowhere
<1>14. Joining(TRUE, x)
  BY <1>1, <1>12, EmptySeq, JoinAsks DEF Joining
<1>15. Agrees(TRUE, x)
  BY <1>10, <1>11, <1>12, <1>14 DEF Agrees
<1>16. QED BY <1>1, <1>8, <1>13, <1>15 DEF ScreenInv, x

LEMMA InitialScreen == Init => ScreenInv
<1> SUFFICES ASSUME Init PROVE ScreenInv
  OBVIOUS
<1>1. CASE Connecting
  BY <1>1, ConnectingStarts
<1>2. ASSUME NEW sides \in [Peer -> Side],
             \/ Shown("waiting_for_ready", NoWindow, sides, Peer)
             \/ Shown("in_progress", NewWindow(0, 0), sides, Peer)
      PROVE  ScreenInv
  <2>1. NoWindow \in Windows /\ NewWindow(0, 0) \in Windows /\ NewWindow(0, 0).turn \in Nat
    BY SmallTypes DEF NewWindow
  <2>2. QED BY <1>2, <2>1, ShownStarts
<1>3. QED BY <1>1, <1>2 DEF Init

LEMMA StutterKeeps ==
    ASSUME ScreenInv, UNCHANGED vars
    PROVE  ScreenInv'
<1> DEFINE r == Result(node, <<>>)
<1>1. \A y : Synced(y, node) => Tells(y, node, r)
  BY NothingTold DEF Tells
<1>2. told \o <<>> = told
  <2>1. IsSeq(told)
    BY LeadsOK DEF ScreenInv
  <2>2. QED BY <2>1, ConcatEmptySeq DEF IsSeq
<1>3. node' = r.node /\ told' = told \o r.out /\ UNCHANGED <<store, asked, got, joined, refreshes, again>>
  BY <1>2 DEF vars, Result
<1> HIDE DEF r
<1>4. QED BY <1>1, <1>3, MoreTold

LEMMA ScreenStep == ScreenInv /\ [Next]_vars => ScreenInv'
<1> SUFFICES ASSUME ScreenInv, [Next]_vars PROVE ScreenInv'
  OBVIOUS
<1>1. CASE Events
  <2>1. ASSUME NEW p \in Peer, PeerJoins(p) \/ PeerLeaves(p) \/ GetsUnready(p) PROVE ScreenInv'
    BY <2>1, Others
  <2>2. ASSUME NEW p \in Peer, NEW t \in Side, ChoosesSide(p, t) \/ GetsReady(p, t)
        PROVE  ScreenInv'
    BY <2>2, Others
  <2>3. ASSUME NEW p \in Peer, NEW v \in 0..MaxVersion,
               AcceptArrives(p, v) \/ \E c \in Proposals(v) : ProposalArrives(p, c, v)
        PROVE  ScreenInv'
    BY <2>3, SettingsEvents
  <2>4. QED BY <1>1, <2>1, <2>2, <2>3, GameEvents DEF Events
<1>2. CASE MainProcess
  BY <1>2, MainProcessKeeps
<1>3. CASE Renderer
  BY <1>3, PushKeeps, RefreshKeeps, ConnectedKeeps, JoinMessagesKeep, LateMessagesKeep
     DEF Renderer, StateFor
<1>4. CASE Clicks
  BY <1>4, ClicksKeep
<1>5. CASE UNCHANGED vars
  BY <1>5, StutterKeeps
<1>6. QED BY <1>1, <1>2, <1>3, <1>4, <1>5 DEF Next

LEMMA ScreenAlwaysInv == Spec => []ScreenInv
BY InitialScreen, ScreenStep, PTL DEF Spec

-----------------------------------------------------------------------------
(* What the screen shows.                                                  *)

LEMMA StoreNow ==
    ASSUME ScreenInv
    PROVE  StoreOK(store) /\ NodeOK(node)
<1>1. PICK b, y : b \in BOOLEAN /\ Leads(Now(b), told, y) /\ Agrees(b, y)
  BY DEF ScreenInv
<1>2. QED BY <1>1, LeadsOK DEF ScreenInv, Now, View

\* When nothing is under way, what the screen comes to is what it shows.
LEMMA QuietShows ==
    ASSUME ScreenInv, Quiet
    PROVE  GameShown(store, node) /\ PhaseShown(store, node) /\ PeersShown(store, node)
<1>1. PICK b, y : b \in BOOLEAN /\ Leads(Now(b), told, y) /\ Agrees(b, y)
  BY DEF ScreenInv
<1>2. told = <<>> /\ asked = <<>> /\ ~ (refreshes > 0)
  BY DEF Quiet
<1>3. y = Now(b)
  BY <1>1, <1>2, LeadsThere
<1>4. y.store = store
  BY <1>3 DEF Now, View
<1>5. ~ StateComes /\ ~ ListComes
  BY <1>2, EmptyIsSeq DEF StateComes, ListComes, StateTold, PeerTold, StateAsked, ListAsked
<1>6. QED BY <1>1, <1>4, <1>5 DEF Agrees

\* The types; and votes, of both kinds, are shown during a game only: every push, answer and
\* click of store.ts and useChessDemocracy.ts keeps the screen one that App can draw.
THEOREM ScreensAreTyped == Spec => []TypeOK
<1>1. ScreenInv => TypeOK
  BY StoreNow DEF TypeOK, StoreOK, NodeOK, Stores, Nodes, Resigns, Anyone
<1>2. QED BY <1>1, ScreenAlwaysInv, PTL

\* The screen ends up with the players the node is connected to, whoever came or left while
\* hydrateFromNode or a refresh was under way, and with their sides and readiness.
THEOREM PlayersAreShown == Spec => []ShowsThePeers
<1>1. ScreenInv => ShowsThePeers
  BY QuietShows DEF ShowsThePeers, PeersShown
<1>2. QED BY <1>1, ScreenAlwaysInv, PTL

\* The screen ends up with the phase and side of its own node, and with the vote that is open
\* and who voted in it, in whatever order pushes, answers and clicks met.
THEOREM GameIsShown == Spec => []ShowsTheGame
<1>1. ScreenInv => ShowsTheGame
  BY QuietShows DEF ShowsTheGame, GameShown, WindowShown, PhaseShown
<1>2. QED BY <1>1, ScreenAlwaysInv, PTL

\* The screen ends up with as many votes to resign as the node has.
THEOREM ResignVotesAreCounted == Spec => []CountsResignVotes
<1>1. ScreenInv => CountsResignVotes
  BY QuietShows DEF CountsResignVotes, GameShown, RestShown
<1>2. QED BY <1>1, ScreenAlwaysInv, PTL

\* The screen ends up with the vote settings in force and shows nobody to have accepted them
\* who has not, whether they were proposed here or by a peer, or taken without a push.
THEOREM SettingsAreShown == Spec => []ShowsTheSettings
<1>1. ScreenInv => ShowsTheSettings
  BY QuietShows DEF ShowsTheSettings, GameShown, RestShown, SettingsShown
<1>2. QED BY <1>1, ScreenAlwaysInv, PTL

=============================================================================
