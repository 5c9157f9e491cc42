---------------------------- MODULE NodeLife_proofs ----------------------------
(***************************************************************************)
(* Only the node that the app holds has a transport that runs, and the     *)
(* other player does not go on with a connection of a node before it: for  *)
(* any number of nodes, of overlapping connectNetwork calls and of         *)
(* connections, on either network (the latter on the first node's LAN).    *)
(***************************************************************************)
EXTENDS NodeLife, TLAPS

Conns == [Slot -> Conn]

\* A node whose transport runs or may yet start to, and that was not stopped, is
\* the one the app holds.
Current ==
    /\ (starting \cup online) \ stopped \subseteq {life} \ {None}
    /\ online \cap stopped = {}

\* Whoever is in a player's table is on a connection of that player which it uses.
EntriesInUse ==
    \A w \in Player : entry[w] # None =>
        IsOf(entry[w], w) /\ conn[entry[w]][Side(w)] = "used"

\* The inductive invariant.
IInv == TypeOK /\ Current /\ EntriesInUse

-----------------------------------------------------------------------------
(* Types of the operators.                                                 *)

LEMMA UnusedType == Unused \in Conn
BY DEF Unused, Conn

\* An end of a connection, replaced.
LEMMA EndType ==
    ASSUME NEW d \in Conn, NEW w, NEW x \in {"new", "used", "gone"}
    PROVE  [d EXCEPT ![Side(w)] = x] \in Conn
<1>1. CASE w = Other
  <2>1. [d EXCEPT !.them = x] \in Conn
    BY DEF Conn
  <2>2. QED BY <1>1, <2>1 DEF Side
<1>2. CASE w # Other
  <2>1. [d EXCEPT !.us = x] \in Conn
    BY DEF Conn
  <2>2. QED BY <1>2, <2>1 DEF Side
<1>3. QED BY <1>1, <1>2

LEMMA CutByType ==
    ASSUME NEW d \in Conn, NEW w
    PROVE  CutBy(d, w) \in Conn
<1> DEFINE a == [d EXCEPT ![Side(w)] = "gone"]
           x == IF d.state = "open" THEN "cut" ELSE d.state
<1>1. a \in Conn
  BY EndType
<1>2. x \in {"open", "cut", "dead"}
  BY DEF Conn
<1>3. [a EXCEPT !.state = x] \in Conn
  <2> HIDE DEF a, x
  <2> QED BY <1>1, <1>2 DEF Conn
<1>4. CutBy(d, w) = [a EXCEPT !.state = x]
  BY DEF CutBy
<1>5. QED BY <1>3, <1>4

\* What is left of a connection an end of which is replaced, or cut.
SetEnd(d, w, x) == [d EXCEPT ![Side(w)] = x]

LEMMA EndFields ==
    ASSUME NEW d \in Conn, NEW w, NEW x \in {"new", "used", "gone"}
    PROVE  /\ SetEnd(d, w, x) \in Conn
           /\ SetEnd(d, w, x).life = d.life
           /\ \A v : SetEnd(d, w, x)[Side(v)] = IF Side(v) = Side(w) THEN x ELSE d[Side(v)]
<1>1. CASE w = Other
  <2> DEFINE e == [d EXCEPT !.them = x]
  <2>1. e \in Conn /\ e.life = d.life /\ e.us = d.us /\ e.them = x
    BY DEF Conn
  <2>2. e = SetEnd(d, w, x)
    BY <1>1 DEF Side, SetEnd
  <2> HIDE DEF e
  <2>3. QED BY <1>1, <2>1, <2>2 DEF Side
<1>2. CASE w # Other
  <2> DEFINE e == [d EXCEPT !.us = x]
  <2>1. e \in Conn /\ e.life = d.life /\ e.us = x /\ e.them = d.them
    BY DEF Conn
  <2>2. e = SetEnd(d, w, x)
    BY <1>2 DEF Side, SetEnd
  <2> HIDE DEF e
  <2>3. QED BY <1>2, <2>1, <2>2 DEF Side
<1>3. QED BY <1>1, <1>2

LEMMA UsedEnd ==
    ASSUME NEW d \in Conn, NEW w, NEW v
    PROVE  SetEnd(d, w, "used")[Side(v)] = IF Side(v) = Side(w) THEN "used" ELSE d[Side(v)]
<1>1. CASE w = Other
  <2>1. [d EXCEPT !.them = "used"].us = d.us /\ [d EXCEPT !.them = "used"].them = "used"
    BY DEF Conn
  <2>2. SetEnd(d, w, "used") = [d EXCEPT !.them = "used"]
    BY <1>1 DEF Side, SetEnd
  <2>3. QED BY <1>1, <2>1, <2>2 DEF Side
<1>2. CASE w # Other
  <2>1. [d EXCEPT !.us = "used"].us = "used" /\ [d EXCEPT !.us = "used"].them = d.them
    BY DEF Conn
  <2>2. SetEnd(d, w, "used") = [d EXCEPT !.us = "used"]
    BY <1>2 DEF Side, SetEnd
  <2>3. QED BY <1>2, <2>1, <2>2 DEF Side
<1>3. QED BY <1>1, <1>2

LEMMA GoneEnd ==
    ASSUME NEW d \in Conn, NEW w, NEW v
    PROVE  SetEnd(d, w, "gone")[Side(v)] = IF Side(v) = Side(w) THEN "gone" ELSE d[Side(v)]
<1>1. CASE w = Other
  <2>1. [d EXCEPT !.them = "gone"].us = d.us /\ [d EXCEPT !.them = "gone"].them = "gone"
    BY DEF Conn
  <2>2. SetEnd(d, w, "gone") = [d EXCEPT !.them = "gone"]
    BY <1>1 DEF Side, SetEnd
  <2>3. QED BY <1>1, <2>1, <2>2 DEF Side
<1>2. CASE w # Other
  <2>1. [d EXCEPT !.us = "gone"].us = "gone" /\ [d EXCEPT !.us = "gone"].them = d.them
    BY DEF Conn
  <2>2. SetEnd(d, w, "gone") = [d EXCEPT !.us = "gone"]
    BY <1>2 DEF Side, SetEnd
  <2>3. QED BY <1>2, <2>1, <2>2 DEF Side
<1>3. QED BY <1>1, <1>2

LEMMA CutFields ==
    ASSUME NEW d \in Conn, NEW w
    PROVE  /\ CutBy(d, w).life = d.life
           /\ \A v : CutBy(d, w)[Side(v)] = IF Side(v) = Side(w) THEN "gone" ELSE d[Side(v)]
<1> DEFINE a == SetEnd(d, w, "gone")
           x == IF d.state = "open" THEN "cut" ELSE d.state
           e == [a EXCEPT !.state = x]
<1>1. a \in Conn
  BY EndFields
<1>2. e.life = a.life /\ e.us = a.us /\ e.them = a.them
  <2> HIDE DEF a, x
  <2> QED BY <1>1 DEF Conn
<1>3. \A v : e[Side(v)] = a[Side(v)]
  <2> HIDE DEF e, a
  <2> QED BY <1>2 DEF Side
<1>4. CutBy(d, w) = e
  BY DEF CutBy, SetEnd
<1> HIDE DEF e
<1>5. QED BY <1>2, <1>3, <1>4, EndFields

LEMMA OpenedType ==
    ASSUME conn \in Conns, NEW c \in Slot, NEW l \in Life,
           NEW dialler \in {"us", "them", "swarm"}, Opened(c, l, dialler)
    PROVE  conn' \in Conns
<1>1. [life |-> l, dialler |-> dialler, state |-> "open", us |-> "new", them |-> "new"] \in Conn
  BY DEF Conn
<1>2. QED BY <1>1 DEF Opened, Conns

LEMMA SideType == \A w : Side(w) \in {"us", "them"}
BY DEF Side

\* The sides tell the other player's end from ours, but not our nodes apart.
LEMMA Sides == \A v, w : Side(v) = Side(w) <=> (v = Other <=> w = Other)
BY DEF Side

-----------------------------------------------------------------------------
(* The main process.                                                       *)

Connections ==
    /\ conn \in Conns
    /\ entry \in [Player -> Slot \cup {None}]
    /\ redial \subseteq Player \X Life

Tables == Connections /\ EntriesInUse

LEMMA TablesOf == IInv => Tables /\ 0 \notin Slot /\ None \notin Slot
BY SlotAssumption DEF IInv, TypeOK, Tables, Connections, Conns, None

LEMMA StopTypes ==
    ASSUME IInv, Stop(life)
    PROVE  Tables'
<1>0. Tables /\ None \notin Slot
  BY TablesOf
<1>1. conn' \in Conns
  <2>1. \A c \in Slot : CutBy(conn[c], life) \in Conn /\ conn[c] \in Conn
    BY <1>0, CutByType DEF Tables, Connections, Conns
  <2>2. QED BY <2>1 DEF Stop, Conns
<1>2. entry' \in [Player -> Slot \cup {None}]
  BY <1>0 DEF Stop, Tables, Connections
<1>3. redial' \subseteq Player \X Life
  BY <1>0 DEF Stop, Tables, Connections
<1>4. EntriesInUse'
  <2>1. SUFFICES ASSUME NEW w \in Player, entry'[w] # None
                 PROVE  IsOf(entry[w], w)' /\ conn'[entry'[w]][Side(w)] = "used"
    BY DEF EntriesInUse
  <2> DEFINE c == entry[w]
  <2>2. entry'[w] = c /\ c # None /\ c \in Slot /\ (w # life \/ life = None)
    BY <1>0, <2>1 DEF Stop, Tables, Connections
  <2>3. IsOf(c, w) /\ conn[c][Side(w)] = "used" /\ conn[c] \in Conn
    BY <1>0, <2>2 DEF Tables, Connections, EntriesInUse, Conns
  <2> HIDE DEF c
  <2>4. CASE network = "global" /\ life \in online /\ conn[c].life = life
    <3>1. life # None
      BY <2>4 DEF IInv, TypeOK, None
    <3>2. w = Other /\ Side(w) # Side(life)
      BY <2>2, <2>3, <2>4, <3>1, Sides DEF IsOf, None, Other
    <3>3. conn'[c] = CutBy(conn[c], life)
      BY <2>2, <2>4 DEF Stop
    <3>4. conn'[c].life = conn[c].life /\ conn'[c][Side(w)] = conn[c][Side(w)]
      BY <2>3, <3>2, <3>3, CutFields
    <3>5. QED BY <2>2, <2>3, <3>4 DEF IsOf
  <2>5. CASE ~ (network = "global" /\ life \in online /\ conn[c].life = life)
    <3>1. conn'[c] = conn[c]
      BY <2>2, <2>5 DEF Stop
    <3>2. QED BY <2>2, <2>3, <3>1 DEF IsOf
  <2>6. QED BY <2>4, <2>5
<1>5. QED BY <1>1, <1>2, <1>3, <1>4 DEF Tables, Connections

LEMMA InitInv == Init => IInv
<1> SUFFICES ASSUME Init PROVE IInv
  OBVIOUS
<1>1. TypeOK
  <2>1. conn \in [Slot -> Conn] /\ entry \in [Player -> Slot \cup {None}]
    BY UnusedType DEF Init
  <2>2. calls \in 0..MaxCalls /\ lives \in 0..MaxLives /\ breaks \in 0..MaxBreaks
    BY BoundAssumption DEF Init
  <2>3. life \in Life \cup {None} /\ life <= lives
    BY DEF Init, None
  <2>4. QED BY <2>1, <2>2, <2>3 DEF Init, TypeOK
<1>2. Current /\ EntriesInUse
  BY DEF Init, Current, EntriesInUse
<1>3. QED BY <1>1, <1>2 DEF IInv

\* The app stops its node, or none, and holds none for now.
LEMMA StopInv ==
    ASSUME IInv, Stop(life), life' = None,
           calls' \in 0..MaxCalls, loggedIn' \in BOOLEAN,
           UNCHANGED <<network, lives, starting, met, breaks>>
    PROVE  IInv'
<1>1. Tables'
  BY StopTypes
<1>2. stopped' = stopped \cup ({life} \ {None}) /\ online' = online \ {life}
  BY DEF Stop
<1>3. life \in Nat /\ lives \in Nat /\ life <= lives
  BY BoundAssumption DEF IInv, TypeOK, Life, None
<1>4. stopped' \subseteq 1..lives' /\ online' \subseteq 1..lives' /\ starting' \subseteq 1..lives'
  BY <1>2, <1>3 DEF IInv, TypeOK, None
<1>5. TypeOK'
  BY <1>1, <1>3, <1>4 DEF IInv, TypeOK, Tables, Connections, Conns, None
<1>6. Current'
  BY <1>2 DEF IInv, Current
<1>7. QED BY <1>1, <1>5, <1>6 DEF IInv, Tables

LEMMA JoinResumesInv ==
    ASSUME IInv, JoinResumes
    PROVE  IInv'
<1>1. Tables'
  BY StopTypes DEF JoinResumes
<1>2. /\ stopped' = stopped \cup ({life} \ {None}) /\ online' = online \ {life}
      /\ starting' = starting \cup {lives + 1}
      /\ life' = lives + 1 /\ lives' = lives + 1 /\ calls' = calls - 1
      /\ UNCHANGED <<network, loggedIn, met, breaks>>
  BY DEF Stop, JoinResumes
<1>3. life \in Nat /\ lives \in Nat /\ life <= lives /\ lives < MaxLives /\ MaxLives \in Nat
  BY BoundAssumption DEF JoinResumes, IInv, TypeOK, Life, None
<1>4. /\ stopped' \subseteq 1..lives' /\ online' \subseteq 1..lives' /\ starting' \subseteq 1..lives'
      /\ life' \in Life /\ lives' \in 0..MaxLives /\ life' <= lives'
  BY <1>2, <1>3 DEF IInv, TypeOK, None, Life
<1>5. calls' \in 0..MaxCalls
  BY <1>2, BoundAssumption DEF JoinResumes, IInv, TypeOK
<1>6. TypeOK'
  BY <1>1, <1>2, <1>4, <1>5 DEF IInv, TypeOK, Tables, Connections, Conns
\* The node just made is not among those that were stopped.
<1>7. Current'
  <2>1. lives + 1 \notin stopped' /\ lives + 1 # None
    BY <1>2, <1>3 DEF IInv, TypeOK, None
  <2>2. QED BY <1>2, <2>1 DEF IInv, Current
<1>8. QED BY <1>1, <1>6, <1>7 DEF IInv, Tables

LEMMA TransportReadyInv ==
    ASSUME IInv, NEW l \in Life, TransportReady(l)
    PROVE  IInv'
<1>1. TypeOK'
  BY DEF TransportReady, IInv, TypeOK
<1>2. Current'
  BY DEF TransportReady, IInv, Current
<1>3. EntriesInUse'
  BY DEF TransportReady, IInv, EntriesInUse, IsOf
<1>4. QED BY <1>1, <1>2, <1>3 DEF IInv

-----------------------------------------------------------------------------
(* Connections: they do not concern which node runs.                       *)

LEMMA OnlyConnections ==
    ASSUME IInv, Tables', met' \subseteq Player \X Life, breaks' \in 0..MaxBreaks,
           UNCHANGED <<network, app, online>>
    PROVE  IInv'
BY DEF IInv, TypeOK, Current, Tables, Connections, Conns, app

\* A step that leaves the tables alone and, of the connections, changes only ends
\* that no table uses.
LEMMA OthersStay ==
    ASSUME Tables, NEW c \in Slot, NEW d \in Conn, conn' = [conn EXCEPT ![c] = d],
           entry' = entry, redial' \subseteq Player \X Life,
           \A w \in Player : entry[w] = c => d.life = conn[c].life /\ d[Side(w)] = "used"
    PROVE  Tables'
<1>1. conn' \in Conns
  BY DEF Tables, Connections, Conns
<1>2. EntriesInUse'
  <2>1. SUFFICES ASSUME NEW w \in Player, entry[w] # None
                 PROVE  /\ conn'[entry[w]].life # None
                        /\ w = Other \/ conn'[entry[w]].life = w
                        /\ conn'[entry[w]][Side(w)] = "used"
    BY DEF EntriesInUse, IsOf
  <2>2. /\ conn[entry[w]].life # None /\ (w = Other \/ conn[entry[w]].life = w)
        /\ conn[entry[w]][Side(w)] = "used" /\ entry[w] \in Slot
    BY <2>1 DEF Tables, Connections, EntriesInUse, IsOf
  <2>3. conn'[entry[w]] = IF entry[w] = c THEN d ELSE conn[entry[w]]
    BY <2>2 DEF Tables, Connections, Conns
  <2>4. QED BY <2>2, <2>3
<1>3. QED BY <1>1, <1>2 DEF Tables, Connections

LEMMA OpenedTables ==
    ASSUME Tables, NEW c \in Slot, Free(c), NEW l \in Life,
           NEW dialler \in {"us", "them", "swarm"}, Opened(c, l, dialler),
           entry' = entry, redial' \subseteq Player \X Life
    PROVE  Tables'
<1> DEFINE d == [life |-> l, dialler |-> dialler, state |-> "open", us |-> "new", them |-> "new"]
<1>1. d \in Conn /\ conn' = [conn EXCEPT ![c] = d]
  BY DEF Conn, Opened
<1>2. \A w \in Player : entry[w] # c
  BY DEF Free
<1> HIDE DEF d
<1>3. QED BY <1>1, <1>2, OthersStay

LEMMA ConnectingInv ==
    ASSUME IInv, NEW w \in Player, NEW l \in Life, NEW c \in Slot,
           Discover(w, l, c) \/ RetryTick(w, l, c) \/ SwarmConnects(l, c)
    PROVE  IInv'
<1>0. Tables /\ redial \subseteq Player \X Life
  BY TablesOf DEF Tables, Connections
<1>1. CASE Discover(w, l, c)
  <2>1. Tables'
    BY <1>0, <1>1, OpenedTables, SideType DEF Discover, Tables, Connections, EntriesInUse, IsOf
  <2>2. met' \subseteq Player \X Life
    BY <1>1 DEF Discover, IInv, TypeOK
  <2>3. QED BY <1>1, <2>1, <2>2, OnlyConnections DEF Discover, IInv, TypeOK
<1>2. CASE RetryTick(w, l, c)
  <2>1. Tables'
    BY <1>0, <1>2, OpenedTables, SideType DEF RetryTick, Tables, Connections, EntriesInUse, IsOf
  <2>2. QED BY <1>2, <2>1, OnlyConnections DEF RetryTick, IInv, TypeOK
<1>3. CASE SwarmConnects(l, c)
  <2>1. Tables'
    BY <1>0, <1>3, OpenedTables DEF SwarmConnects
  <2>2. QED BY <1>3, <2>1, OnlyConnections DEF SwarmConnects, IInv, TypeOK
<1>4. QED BY <1>1, <1>2, <1>3

LEMMA AdmitsInv ==
    ASSUME IInv, NEW c \in Slot, NEW w \in Player, Admits(c, w)
    PROVE  IInv'
<1> DEFINE old  == entry[w]
           used(d) == SetEnd(conn[d], w, "used")
<1>0. Tables /\ None \notin Slot
  BY TablesOf
<1>1. /\ IsOf(c, w) /\ conn[c][Side(w)] = "new"
      /\ UNCHANGED <<network, app, online, met, redial, breaks>>
  BY DEF Admits
<1>2. \A d \in Slot : conn[d] \in Conn /\ CutBy(conn[d], w) \in Conn /\ used(d) \in Conn
  BY <1>0, EndFields, CutByType DEF Tables, Connections, Conns
<1>3. CASE old = None \/ network = "global"
  <2>1. /\ entry' = [entry EXCEPT ![w] = c]
        /\ conn' = [d \in Slot |-> IF d = c THEN used(d)
                                   ELSE IF d = old THEN CutBy(conn[d], w) ELSE conn[d]]
    BY <1>3 DEF Admits, AddPeer, SetEnd
  <2>2. conn' \in Conns /\ entry' \in [Player -> Slot \cup {None}]
    <3> HIDE DEF used
    <3> QED BY <1>0, <1>2, <2>1 DEF Tables, Connections, Conns
  <2>3. ASSUME NEW v \in Player, entry'[v] # None
        PROVE  IsOf(entry[v], v)' /\ conn'[entry'[v]][Side(v)] = "used"
    <3>1. CASE v = w
      <4>1. entry'[v] = c /\ conn'[c] = used(c)
        BY <1>0, <2>1, <3>1 DEF Tables, Connections
      <4>2. used(c).life = conn[c].life /\ used(c)[Side(w)] = "used"
        BY <1>2, EndFields
      <4>3. QED BY <1>1, <3>1, <4>1, <4>2 DEF IsOf
    <3>2. CASE v # w
      <4> DEFINE e == entry[v]
      <4>1. entry'[v] = e /\ e # None /\ e \in Slot
        BY <1>0, <2>1, <2>3, <3>2 DEF Tables, Connections
      <4>2. IsOf(e, v) /\ conn[e][Side(v)] = "used"
        BY <1>0, <4>1 DEF Tables, EntriesInUse
      \* A connection of two players is used by one of each side.
      <4>3. ASSUME IsOf(e, w) PROVE Side(v) # Side(w)
        BY <3>2, <4>2, <4>3, Sides DEF IsOf
      <4>4. used(e).life = conn[e].life /\ CutBy(conn[e], w).life = conn[e].life
        BY <1>2, <4>1, EndFields, CutFields
      <4>5. IsOf(e, w) => /\ used(e)[Side(v)] = conn[e][Side(v)]
                           /\ CutBy(conn[e], w)[Side(v)] = conn[e][Side(v)]
        <5>1. ASSUME IsOf(e, w)
              PROVE  /\ used(e)[Side(v)] = conn[e][Side(v)]
                     /\ CutBy(conn[e], w)[Side(v)] = conn[e][Side(v)]
          <6>1. Side(v) # Side(w) /\ conn[e] \in Conn
            BY <1>2, <4>1, <4>3, <5>1
          <6>2. SetEnd(conn[e], w, "used")[Side(v)] = conn[e][Side(v)]
            BY <6>1, UsedEnd
          <6>3. CutBy(conn[e], w)[Side(v)] = conn[e][Side(v)]
            BY <6>1, CutFields
          <6>4. QED BY <6>2, <6>3
        <5>2. QED BY <5>1
      <4>6. e = c \/ e = old => IsOf(e, w)
        BY <1>0, <1>1, <4>1 DEF Tables, EntriesInUse
      <4>7. conn'[e] = IF e = c THEN used(e) ELSE IF e = old THEN CutBy(conn[e], w) ELSE conn[e]
        BY <2>1, <4>1
      <4> HIDE DEF used, e
      <4>8. conn'[e].life = conn[e].life /\ conn'[e][Side(v)] = "used"
        BY <4>2, <4>4, <4>5, <4>6, <4>7
      <4>9. QED BY <4>1, <4>2, <4>8 DEF IsOf, e
    <3>3. QED BY <3>1, <3>2
  <2>4. Tables'
    BY <1>0, <1>1, <2>2, <2>3 DEF Tables, Connections, EntriesInUse
  <2>5. QED BY <1>1, <2>4, OnlyConnections DEF IInv, TypeOK
<1>4. CASE ~ (old = None \/ network = "global")
  <2>1. conn' = [conn EXCEPT ![c] = used(c)] /\ entry' = entry
    BY <1>4 DEF Admits, AddPeer, SetEnd
  <2>2. \A v \in Player : entry[v] = c => v # w /\ IsOf(c, v) /\ conn[c][Side(v)] = "used"
    BY <1>0, <1>1 DEF Tables, EntriesInUse
  <2>3. \A v \in Player : entry[v] = c => /\ used(c).life = conn[c].life
                                           /\ used(c)[Side(v)] = "used"
    <3>1. ASSUME NEW v \in Player, entry[v] = c
          PROVE  used(c).life = conn[c].life /\ used(c)[Side(v)] = "used"
      <4>1. conn[c] \in Conn /\ conn[c][Side(v)] = "used"
        BY <1>2, <2>2, <3>1
      <4>2. SetEnd(conn[c], w, "used").life = conn[c].life
        BY <4>1, EndFields
      <4>3. SetEnd(conn[c], w, "used")[Side(v)] = "used"
        BY <4>1, UsedEnd
      <4>4. QED BY <4>2, <4>3
    <3>2. QED BY <3>1
  <2>4. redial' \subseteq Player \X Life
    BY <1>0, <1>1 DEF Tables, Connections
  <2>5. Tables'
    <3> HIDE DEF used
    <3> QED BY <1>0, <1>2, <2>1, <2>3, <2>4, OthersStay
  <2>6. QED BY <1>1, <2>5, OnlyConnections DEF IInv, TypeOK
<1>5. QED BY <1>3, <1>4

\* w is done with its connection c, whatever becomes of w's end.
LEMMA LostTables ==
    ASSUME Tables, NEW c \in Slot, NEW w \in Player, IsOf(c, w), NEW d \in Conn,
           conn' = [conn EXCEPT ![c] = d], d.life = conn[c].life,
           \A v : Side(v) # Side(w) => d[Side(v)] = conn[c][Side(v)],
           entry' = [entry EXCEPT ![w] = IF @ = c THEN None ELSE @],
           redial' \subseteq Player \X Life, None \notin Slot
    PROVE  Tables'
<1>1. conn' \in Conns /\ entry' \in [Player -> Slot \cup {None}]
  BY DEF Tables, Connections, Conns
<1>2. ASSUME NEW v \in Player, entry'[v] # None
      PROVE  IsOf(entry[v], v)' /\ conn'[entry'[v]][Side(v)] = "used"
  <2> DEFINE e == entry[v]
  <2>1. entry'[v] = e /\ e # None /\ e \in Slot /\ (v = w => e # c)
    BY <1>2 DEF Tables, Connections
  <2>2. IsOf(e, v) /\ conn[e][Side(v)] = "used"
    BY <2>1 DEF Tables, EntriesInUse
  <2>3. conn'[e] = IF e = c THEN d ELSE conn[e]
    BY <2>1 DEF Tables, Connections, Conns
  <2>4. e = c => Side(v) # Side(w)
    BY <2>1, <2>2, Sides DEF IsOf
  <2> HIDE DEF e
  <2>5. conn'[e].life = conn[e].life /\ conn'[e][Side(v)] = "used"
    BY <2>2, <2>3, <2>4
  <2>6. QED BY <2>1, <2>2, <2>5 DEF IsOf, e
<1>3. QED BY <1>1, <1>2 DEF Tables, Connections, EntriesInUse

LEMMA RedialType ==
    ASSUME Tables, NEW c \in Slot, NEW w \in Player, IsOf(c, w), Disconnected(c, w)
    PROVE  redial' \subseteq Player \X Life
<1>1. conn[c].life \in Life
  BY DEF IsOf, Tables, Connections, Conns, Conn
<1>2. QED BY <1>1 DEF Disconnected, Tables, Connections

LEMMA CloseEventInv ==
    ASSUME IInv, NEW c \in Slot, NEW w \in Player, CloseEvent(c, w)
    PROVE  IInv'
<1> DEFINE d == SetEnd(conn[c], w, "gone")
<1>0. Tables /\ None \notin Slot /\ IsOf(c, w) /\ conn[c] \in Conn
  BY TablesOf DEF CloseEvent, Tables, Connections, Conns
<1>1. d \in Conn /\ d.life = conn[c].life
      /\ \A v : Side(v) # Side(w) => d[Side(v)] = conn[c][Side(v)]
  <2>1. "gone" \in {"new", "used", "gone"}
    OBVIOUS
  <2>2. \A v : d[Side(v)] = IF Side(v) = Side(w) THEN "gone" ELSE conn[c][Side(v)]
    BY <1>0, GoneEnd
  <2>3. d \in Conn /\ d.life = conn[c].life
    BY <1>0, <2>1, EndFields
  <2> HIDE DEF d
  <2>4. QED BY <2>2, <2>3
<1>2. conn' = [conn EXCEPT ![c] = d] /\ UNCHANGED <<network, app, online, met, breaks>>
  BY DEF CloseEvent, SetEnd
<1> HIDE DEF d
<1>3. entry' = [entry EXCEPT ![w] = IF @ = c THEN None ELSE @] /\ redial' \subseteq Player \X Life
  <2>1. CASE conn[c][Side(w)] = "used"
    BY <1>0, <2>1, RedialType DEF CloseEvent, Disconnected
  <2>2. CASE conn[c][Side(w)] # "used"
    <3>1. entry[w] # c /\ entry' = entry /\ redial' = redial
      BY <1>0, <2>2 DEF CloseEvent, Tables, EntriesInUse
    <3>2. QED BY <1>0, <3>1 DEF Tables, Connections
  <2>3. QED BY <2>1, <2>2
<1>4. Tables'
  BY <1>0, <1>1, <1>2, <1>3, LostTables
<1>5. QED BY <1>2, <1>4, OnlyConnections DEF IInv, TypeOK

LEMMA SweepInv ==
    ASSUME IInv, NEW w \in Player, Sweep(w)
    PROVE  IInv'
<1> DEFINE c == entry[w]
           d == CutBy(conn[c], w)
<1>0. /\ Tables /\ None \notin Slot /\ c \in Slot
      /\ IsOf(c, w) /\ conn[c] \in Conn
  BY TablesOf DEF Sweep, Tables, Connections, Conns, EntriesInUse
<1>1. d \in Conn /\ d.life = conn[c].life
      /\ \A v : Side(v) # Side(w) => d[Side(v)] = conn[c][Side(v)]
  BY <1>0, CutByType, CutFields
<1>2. /\ conn' = [conn EXCEPT ![c] = d] /\ Disconnected(c, w)
      /\ UNCHANGED <<network, app, online, met, breaks>>
  BY DEF Sweep
<1> HIDE DEF c, d
<1>3. entry' = [entry EXCEPT ![w] = IF @ = c THEN None ELSE @] /\ redial' \subseteq Player \X Life
  BY <1>0, <1>2, RedialType DEF Disconnected
<1>4. Tables'
  BY <1>0, <1>1, <1>2, <1>3, LostTables
<1>5. QED BY <1>2, <1>4, OnlyConnections DEF IInv, TypeOK

LEMMA BreakInv ==
    ASSUME IInv, NEW c \in Slot, WireDies(c) \/ Forget(c)
    PROVE  IInv'
<1>0. Tables /\ None \notin Slot /\ conn[c] \in Conn
  BY TablesOf DEF Tables, Connections, Conns
<1>1. CASE WireDies(c)
  <2> DEFINE d == [conn[c] EXCEPT !.state = "dead"]
  <2>1. d \in Conn /\ d.life = conn[c].life /\ d.us = conn[c].us /\ d.them = conn[c].them
    BY <1>0 DEF Conn
  <2>2. conn' = [conn EXCEPT ![c] = d] /\ UNCHANGED <<network, app, online, entry, met, redial>>
    BY <1>1 DEF WireDies
  <2> HIDE DEF d
  <2>3. \A v : d[Side(v)] = conn[c][Side(v)]
    BY <2>1 DEF Side
  <2>4. \A v \in Player : entry[v] = c => d.life = conn[c].life /\ d[Side(v)] = "used"
    BY <1>0, <2>1, <2>3 DEF Tables, EntriesInUse
  <2>5. redial' \subseteq Player \X Life
    BY <1>0, <2>2 DEF Tables, Connections
  <2>6. Tables'
    BY <1>0, <2>1, <2>2, <2>4, <2>5, OthersStay
  <2>7. breaks' \in 0..MaxBreaks
    BY <1>1, BoundAssumption DEF WireDies, IInv, TypeOK
  <2>8. QED BY <2>2, <2>6, <2>7, OnlyConnections DEF IInv, TypeOK
<1>2. CASE Forget(c)
  <2>1. \A v \in Player : entry[v] # c
    BY <1>0, <1>2, SideType DEF Forget, Tables, EntriesInUse
  <2>2. conn' = [conn EXCEPT ![c] = Unused]
        /\ UNCHANGED <<network, app, online, entry, met, redial, breaks>>
    BY <1>2 DEF Forget
  <2>3. redial' \subseteq Player \X Life
    BY <1>0, <2>2 DEF Tables, Connections
  <2>4. Tables'
    BY <1>0, <2>1, <2>2, <2>3, UnusedType, OthersStay
  <2>5. QED BY <2>2, <2>4, OnlyConnections DEF IInv, TypeOK
<1>3. QED BY <1>1, <1>2

-----------------------------------------------------------------------------
(* The invariant.                                                          *)

LEMMA ClicksInv ==
    ASSUME IInv, Clicks
    PROVE  IInv'
<1>1. CASE LogIn
  BY <1>1 DEF LogIn, IInv, TypeOK, Current, EntriesInUse, IsOf
<1>2. CASE LogOut
  BY <1>2, StopInv DEF LogOut, IInv, TypeOK
<1>3. CASE Join
  <2>1. calls' \in 0..MaxCalls
    BY <1>3, BoundAssumption DEF Join, IInv, TypeOK
  <2>2. QED BY <1>3, <2>1 DEF Join, IInv, TypeOK, Current, EntriesInUse, IsOf
<1>4. CASE Leave
  BY <1>4, StopInv DEF Leave, IInv, TypeOK
<1>5. QED BY <1>1, <1>2, <1>3, <1>4 DEF Clicks

LEMMA NextInv == IInv /\ [Next]_vars => IInv'
<1> SUFFICES ASSUME IInv, [Next]_vars PROVE IInv'
  OBVIOUS
<1>1. CASE UNCHANGED vars
  BY <1>1 DEF vars, app, IInv, TypeOK, Current, EntriesInUse, IsOf
<1>2. CASE Connecting
  <2>1. \E w \in Player, l \in Life, c \in Slot :
            Discover(w, l, c) \/ RetryTick(w, l, c) \/ SwarmConnects(l, c)
    BY <1>2 DEF Connecting, Player
  <2>2. QED BY <2>1, ConnectingInv
<1>3. CASE \E c \in Slot, w \in Player : OnConnection(c, w)
  BY <1>3, AdmitsInv, CloseEventInv DEF OnConnection
<1>4. CASE \E c \in Slot : WireDies(c) \/ Forget(c)
  BY <1>4, BreakInv
<1>5. CASE \E w \in Player : Sweep(w)
  BY <1>5, SweepInv
<1>6. CASE \E l \in Life : TransportReady(l)
  BY <1>6, TransportReadyInv
<1>7. QED BY <1>1, <1>2, <1>3, <1>4, <1>5, <1>6, ClicksInv, JoinResumesInv DEF Next

LEMMA Invariance == Spec => []IInv
BY InitInv, NextInv, PTL DEF Spec

\* The main process, the tables and the connections always have their types.
THEOREM LifeTypes == Spec => []TypeOK
<1>1. IInv => TypeOK
  BY DEF IInv
<1>2. QED BY <1>1, Invariance, PTL

\* However joining, leaving and logging out overlap, and whenever a transport gets
\* ready, none runs but that of the node the app holds.
THEOREM NoSecondTransport == Spec => []OneTransportRuns
<1>1. IInv => OneTransportRuns
  BY DEF IInv, Current, OneTransportRuns
<1>2. QED BY <1>1, Invariance, PTL

-----------------------------------------------------------------------------
(* Who the other player talks to.                                          *)

\* Connections and timers belong to nodes that were made and whose transport
\* got ready.
OldLives ==
    /\ \A c \in Slot : conn[c].life <= lives /\ conn[c].life \notin starting
    /\ \A r \in redial : r[2] <= lives /\ r[2] \notin starting
    /\ online \cap starting = {}

\* Over the internet the other player uses one connection at a time, the one in
\* its table: it retires the last when it admits the next.
TheyUseOne ==
    network = "global" =>
        \A c \in Slot : conn[c].them = "used" => entry[Other] = c

\* On the first node's LAN our node does not close what the other player uses: it
\* hears it there.
Intact ==
    entry[Other] # None => conn[entry[Other]].state # "cut"

\* ... and whoever is admitted, or in our table, is in the other player's.
AdmittedIsKnown ==
    \A c \in Slot :
        /\ conn[c].life # None /\ conn[c].state = "open" /\ conn[c].them = "used"
        /\ conn[c].us = "new" \/ \E l \in online : entry[l] = c
        => entry[Other] # None

OnFirstLan == network = "local" /\ lives <= 1 => Intact /\ AdmittedIsKnown

\* The inductive invariant.
TouchInv == IInv /\ OldLives /\ TheyUseOne /\ OnFirstLan

\* The parts of a connection an end of which is replaced, or cut.
LEMMA EndParts ==
    ASSUME NEW d \in Conn, NEW w, NEW x \in {"new", "used", "gone"}
    PROVE  /\ SetEnd(d, w, x).life = d.life
           /\ SetEnd(d, w, x).state = d.state
           /\ SetEnd(d, w, x).them = IF w = Other THEN x ELSE d.them
           /\ SetEnd(d, w, x).us = IF w = Other THEN d.us ELSE x
           /\ SetEnd(d, w, x) \in Conn
<1>1. CASE w = Other
  <2> DEFINE e == [d EXCEPT !.them = x]
  <2>1. e.life = d.life /\ e.state = d.state /\ e.us = d.us /\ e.them = x /\ e \in Conn
    BY DEF Conn
  <2>2. e = SetEnd(d, w, x)
    BY <1>1 DEF Side, SetEnd
  <2> HIDE DEF e
  <2>3. QED BY <1>1, <2>1, <2>2
<1>2. CASE w # Other
  <2> DEFINE e == [d EXCEPT !.us = x]
  <2>1. e.life = d.life /\ e.state = d.state /\ e.us = x /\ e.them = d.them /\ e \in Conn
    BY DEF Conn
  <2>2. e = SetEnd(d, w, x)
    BY <1>2 DEF Side, SetEnd
  <2> HIDE DEF e
  <2>3. QED BY <1>2, <2>1, <2>2
<1>3. QED BY <1>1, <1>2

LEMMA CutParts ==
    ASSUME NEW d \in Conn, NEW w
    PROVE  /\ CutBy(d, w).life = d.life
           /\ CutBy(d, w).state = IF d.state = "open" THEN "cut" ELSE d.state
           /\ CutBy(d, w).them = IF w = Other THEN "gone" ELSE d.them
           /\ CutBy(d, w).us = IF w = Other THEN d.us ELSE "gone"
<1> DEFINE a == SetEnd(d, w, "gone")
           x == IF d.state = "open" THEN "cut" ELSE d.state
           e == [a EXCEPT !.state = x]
<1>0. "gone" \in {"new", "used", "gone"}
  OBVIOUS
<1>1. /\ a \in Conn /\ a.life = d.life /\ a.state = d.state
      /\ a.them = IF w = Other THEN "gone" ELSE d.them
      /\ a.us = IF w = Other THEN d.us ELSE "gone"
  <2> HIDE DEF a
  <2> QED BY <1>0, EndParts DEF a
<1>2. e.life = a.life /\ e.us = a.us /\ e.them = a.them /\ e.state = x
  <2> HIDE DEF a, x
  <2> QED BY <1>1 DEF Conn
<1>3. CutBy(d, w) = e
  BY DEF CutBy, SetEnd
<1> HIDE DEF e, a
<1>4. QED BY <1>1, <1>2, <1>3

\* A connection that is opened takes a free slot.
LEMMA OpenedParts ==
    ASSUME conn \in Conns, NEW c \in Slot, NEW l \in Life,
           NEW dialler \in {"us", "them", "swarm"}, Opened(c, l, dialler)
    PROVE  /\ conn'[c].life = l /\ conn'[c].state = "open"
           /\ conn'[c].them = "new" /\ conn'[c].us = "new"
           /\ \A d \in Slot : d # c => conn'[d] = conn[d]
BY DEF Opened, Conns

-----------------------------------------------------------------------------
LEMMA InitTouch == Init => TouchInv
<1> SUFFICES ASSUME Init PROVE TouchInv
  OBVIOUS
<1>1. IInv
  BY InitInv
<1>2. OldLives
  BY DEF Init, OldLives, Unused, None
<1>3. TheyUseOne /\ OnFirstLan
  BY DEF Init, TheyUseOne, OnFirstLan, Intact, AdmittedIsKnown, Unused, None, Other, Player
<1>4. QED BY <1>1, <1>2, <1>3 DEF TouchInv

LEMMA Shapes ==
    ASSUME IInv
    PROVE  /\ Tables /\ None \notin Slot /\ conn \in Conns
           /\ \A c \in Slot : conn[c] \in Conn /\ conn[c].life \in Nat
           /\ entry \in [Player -> Slot \cup {None}] /\ Other \in Player
           /\ lives \in Nat /\ life \in Nat /\ life <= lives
           /\ online \subseteq 1..lives /\ starting \subseteq 1..lives
           /\ Life \subseteq Player /\ Life \subseteq Nat \ {0} /\ online \subseteq Life
           /\ redial \subseteq Player \X Life
<1>1. Tables /\ None \notin Slot
  BY TablesOf
<1>2. /\ lives \in Nat /\ life \in Nat /\ life <= lives
      /\ online \subseteq 1..lives /\ starting \subseteq 1..lives
      /\ Life \subseteq Player /\ Life \subseteq Nat \ {0} /\ Other \in Player
      /\ online \subseteq Life
  BY BoundAssumption DEF IInv, TypeOK, Life, None, Player
<1>3. /\ conn \in Conns /\ \A c \in Slot : conn[c] \in Conn /\ conn[c].life \in Nat
      /\ entry \in [Player -> Slot \cup {None}] /\ redial \subseteq Player \X Life
  BY <1>1 DEF Tables, Connections, Conns, Conn, Life, None
<1>4. QED BY <1>1, <1>2, <1>3

\* The app stops its node, or none.
LEMMA StopTouch ==
    ASSUME TouchInv, IInv', Stop(life), network' = network, lives' \in Nat,
           lives' = lives \/ lives' = lives + 1,
           starting' = starting \/ (starting' = starting \cup {lives'} /\ lives' = lives + 1)
    PROVE  TouchInv'
<1>0. /\ IInv /\ None \notin Slot /\ lives \in Nat /\ life \in Nat
      /\ \A c \in Slot : conn[c] \in Conn /\ conn[c].life \in Nat
      /\ entry \in [Player -> Slot \cup {None}] /\ Other \in Player
      /\ online \subseteq 1..lives /\ starting \subseteq 1..lives
      /\ redial \subseteq Player \X Life /\ Life \subseteq Nat \ {0}
      /\ online \subseteq Player
  BY Shapes DEF TouchInv
<1>1. /\ online' = online \ {life} /\ redial' \subseteq redial
      /\ entry'[Other] = entry[Other]
      /\ \A w \in Player : entry'[w] = entry[w] \/ entry'[w] = None
  BY <1>0 DEF Stop, None, Other
<1>2. \A c \in Slot : /\ conn'[c].life = conn[c].life /\ conn'[c].them = conn[c].them
                      /\ network = "local" => conn'[c] = conn[c]
  <2> SUFFICES ASSUME NEW c \in Slot
               PROVE  /\ conn'[c].life = conn[c].life /\ conn'[c].them = conn[c].them
                      /\ network = "local" => conn'[c] = conn[c]
    OBVIOUS
  <2>1. conn'[c] = IF network = "global" /\ life \in online /\ conn[c].life = life
                   THEN CutBy(conn[c], life) ELSE conn[c]
    BY DEF Stop
  <2>2. CASE network = "global" /\ life \in online /\ conn[c].life = life
    <3>1. life # Other
      BY <1>0, <2>2 DEF Other
    <3>2. CutBy(conn[c], life).life = conn[c].life
          /\ CutBy(conn[c], life).them = conn[c].them
      BY <1>0, <3>1, CutParts
    <3>3. QED BY <2>1, <2>2, <3>2
  <2>3. CASE ~ (network = "global" /\ life \in online /\ conn[c].life = life)
    BY <2>1, <2>3
  <2>4. QED BY <2>2, <2>3
<1>3. OldLives'
  <2>1. \A c \in Slot : conn'[c].life <= lives' /\ conn'[c].life \notin starting'
    BY <1>0, <1>2 DEF TouchInv, OldLives
  <2>2. \A r \in redial' : r[2] <= lives' /\ r[2] \notin starting'
    <3> SUFFICES ASSUME NEW r \in redial' PROVE r[2] <= lives' /\ r[2] \notin starting'
      OBVIOUS
    <3>1. r \in redial /\ r[2] \in Nat
      BY <1>0, <1>1
    <3>2. QED BY <1>0, <3>1 DEF TouchInv, OldLives
  <2>3. online' \cap starting' = {}
    <3> SUFFICES ASSUME NEW l \in online, l \in starting' PROVE FALSE
      BY <1>1
    <3>1. l \notin starting /\ l # lives + 1
      BY <1>0 DEF TouchInv, OldLives
    <3>2. QED BY <3>1
  <2>4. QED BY <2>1, <2>2, <2>3 DEF OldLives
<1>4. TheyUseOne'
  BY <1>1, <1>2 DEF TouchInv, TheyUseOne
<1>5. OnFirstLan'
  <2> SUFFICES ASSUME network = "local", lives' <= 1 PROVE Intact' /\ AdmittedIsKnown'
    BY DEF OnFirstLan
  <2>1. Intact /\ AdmittedIsKnown
    BY <1>0 DEF TouchInv, OnFirstLan
  <2>2. Intact'
    <3>1. entry[Other] # None => entry[Other] \in Slot
      BY <1>0
    <3>2. QED BY <1>1, <1>2, <2>1, <3>1 DEF Intact
  <2>3. AdmittedIsKnown'
    <3> SUFFICES ASSUME NEW c \in Slot,
                        conn'[c].life # None /\ conn'[c].state = "open" /\ conn'[c].them = "used",
                        conn'[c].us = "new" \/ \E l \in online' : entry'[l] = c
                 PROVE  entry[Other] # None
      BY <1>1 DEF AdmittedIsKnown
    <3>1. conn'[c] = conn[c]
      BY <1>2
    <3>2. ASSUME NEW l \in online', entry'[l] = c PROVE l \in online /\ entry[l] = c
      BY <1>0, <1>1, <3>2
    <3>3. QED BY <2>1, <3>1, <3>2 DEF AdmittedIsKnown
  <2>4. QED BY <2>2, <2>3
<1>6. QED BY <1>3, <1>4, <1>5 DEF TouchInv

\* A connection is opened, or nothing happens but the end of a timer.
LEMMA OpenedTouch ==
    ASSUME TouchInv, IInv', NEW c \in Slot, Free(c), NEW l \in Life,
           l <= lives, l \notin starting,
           UNCHANGED conn \/ \E dialler \in {"us", "them", "swarm"} : Opened(c, l, dialler),
           UNCHANGED <<network, app, online, entry>>, redial' \subseteq redial
    PROVE  TouchInv'
<1>0. /\ IInv /\ None \notin Slot /\ conn \in Conns
      /\ entry \in [Player -> Slot \cup {None}] /\ Other \in Player
      /\ online \subseteq 1..lives /\ Life \subseteq Player
  BY Shapes DEF TouchInv
<1>1. UNCHANGED <<network, lives, starting, online, entry>>
  BY DEF app
<1>2. \A d \in Slot : \/ conn'[d] = conn[d]
                      \/ d = c /\ conn'[d].life = l /\ conn'[d].them = "new"
  BY <1>0, OpenedParts
<1>3. OldLives'
  BY <1>1, <1>2 DEF TouchInv, OldLives
<1>4. TheyUseOne'
  BY <1>1, <1>2 DEF TouchInv, TheyUseOne
<1>5. OnFirstLan'
  <2> SUFFICES ASSUME network = "local", lives <= 1 PROVE Intact' /\ AdmittedIsKnown'
    BY <1>1 DEF OnFirstLan
  <2>1. Intact /\ AdmittedIsKnown
    BY DEF TouchInv, OnFirstLan
  <2>2. entry[Other] # None => entry[Other] \in Slot /\ entry[Other] # c
    BY <1>0 DEF Free
  <2>3. Intact'
    BY <1>1, <1>2, <2>1, <2>2 DEF Intact
  <2>4. AdmittedIsKnown'
    BY <1>1, <1>2, <2>1 DEF AdmittedIsKnown
  <2>5. QED BY <2>3, <2>4
<1>6. QED BY <1>3, <1>4, <1>5 DEF TouchInv

LEMMA ConnectingTouch ==
    ASSUME TouchInv, IInv', NEW w \in Player, NEW l \in Life, NEW c \in Slot,
           Discover(w, l, c) \/ RetryTick(w, l, c) \/ SwarmConnects(l, c)
    PROVE  TouchInv'
<1>0. /\ IInv /\ lives \in Nat /\ online \subseteq 1..lives
      /\ Side(w) \in {"us", "them", "swarm"}
  BY Shapes, SideType DEF TouchInv
<1>1. CASE Discover(w, l, c) \/ SwarmConnects(l, c)
  <2>0. l \in online
    BY <1>1 DEF Discover, SwarmConnects
  <2>1. l <= lives /\ l \notin starting
    <3>1. l \notin starting
      BY <2>0 DEF TouchInv, OldLives
    <3>2. QED BY <1>0, <2>0, <3>1
  <2>2. QED BY <1>0, <1>1, <2>1, OpenedTouch DEF Discover, SwarmConnects
<1>2. CASE RetryTick(w, l, c)
  <2>1. l <= lives /\ l \notin starting
    <3>1. <<w, l>> \in redial /\ <<w, l>>[2] = l
      BY <1>2 DEF RetryTick
    <3>2. QED BY <3>1 DEF TouchInv, OldLives
  <2>2. QED BY <1>0, <1>2, <2>1, OpenedTouch DEF RetryTick
<1>3. QED BY <1>1, <1>2

LEMMA TransportReadyTouch ==
    ASSUME TouchInv, IInv', NEW l \in Life, TransportReady(l)
    PROVE  TouchInv'
<1>0. IInv /\ entry \in [Player -> Slot \cup {None}] /\ Life \subseteq Nat \ {0}
  BY Shapes DEF TouchInv
<1>1. /\ l \in starting /\ starting' = starting \ {l}
      /\ online' = online \/ online' = online \cup {l}
      /\ UNCHANGED <<network, life, lives, conn, entry, redial>>
  BY DEF TransportReady
\* It has no connection yet.
<1>2. \A c \in Slot : conn[c].life # l
  BY <1>1 DEF TouchInv, OldLives
<1>3. entry[l] = None
  <2> SUFFICES ASSUME entry[l] # None PROVE FALSE
    OBVIOUS
  <2>1. l \in Player /\ l # Other /\ entry[l] \in Slot
    BY <1>0 DEF Player, Other
  <2>2. conn[entry[l]].life = l
    BY <1>0, <2>1 DEF IInv, EntriesInUse, IsOf
  <2>3. QED BY <1>2, <2>1, <2>2
<1>4. OldLives'
  BY <1>1 DEF TouchInv, OldLives
<1>5. TheyUseOne'
  BY <1>1 DEF TouchInv, TheyUseOne
<1>6. OnFirstLan'
  <2> SUFFICES ASSUME network = "local", lives <= 1 PROVE Intact' /\ AdmittedIsKnown'
    BY <1>1 DEF OnFirstLan
  <2>1. Intact /\ AdmittedIsKnown
    BY DEF TouchInv, OnFirstLan
  <2>2. \A c \in Slot, k \in online' : entry[k] = c => k \in online
    BY <1>0, <1>1, <1>3, Shapes
  <2>3. QED BY <1>1, <2>1, <2>2 DEF Intact, AdmittedIsKnown
<1>7. QED BY <1>4, <1>5, <1>6 DEF TouchInv

\* What a step on connections leaves of OldLives.
LEMMA OldLivesStay ==
    ASSUME OldLives, UNCHANGED <<app, online>>,
           \A d \in Slot : conn'[d].life = conn[d].life \/ conn'[d].life = None,
           \A r \in redial' : r \in redial \/ \E d \in Slot : r[2] = conn[d].life,
           IInv
    PROVE  OldLives'
<1>1. None \notin starting /\ None <= lives
  BY DEF IInv, TypeOK, None
<1>2. QED BY <1>1 DEF OldLives, app

LEMMA AdmitsTouch ==
    ASSUME TouchInv, IInv', NEW c \in Slot, NEW w \in Player, Admits(c, w)
    PROVE  TouchInv'
<1> DEFINE old     == entry[w]
           used(d) == SetEnd(conn[d], w, "used")
<1>0. /\ IInv /\ Tables /\ None \notin Slot /\ Other \in Player
      /\ \A d \in Slot : conn[d] \in Conn
      /\ entry \in [Player -> Slot \cup {None}]
      /\ online \subseteq Life /\ Life \subseteq Player /\ Life \subseteq Nat \ {0}
  BY Shapes DEF TouchInv
<1>1. /\ conn[c].state = "open" /\ IsOf(c, w) /\ conn[c][Side(w)] = "new"
      /\ UNCHANGED <<network, app, online, met, redial, breaks>>
  BY DEF Admits
<1>2. \A d \in Slot :
          /\ used(d).life = conn[d].life /\ used(d).state = conn[d].state
          /\ used(d).them = IF w = Other THEN "used" ELSE conn[d].them
          /\ used(d).us = IF w = Other THEN conn[d].us ELSE "used"
  BY <1>0, EndParts
<1>3. \A d \in Slot :
          /\ CutBy(conn[d], w).life = conn[d].life
          /\ CutBy(conn[d], w).them = IF w = Other THEN "gone" ELSE conn[d].them
  BY <1>0, CutParts
<1>4. CASE network = "global"
  <2>1. /\ entry' = [entry EXCEPT ![w] = c]
        /\ conn' = [d \in Slot |-> IF d = c THEN used(d)
                                   ELSE IF d = old THEN CutBy(conn[d], w) ELSE conn[d]]
    BY <1>4 DEF Admits, AddPeer, SetEnd
  <2> HIDE DEF used, old
  <2>2. \A d \in Slot :
            /\ conn'[d].life = conn[d].life
            /\ w # Other => conn'[d].them = conn[d].them
            /\ w = Other => conn'[d].them = IF d = c THEN "used"
                                            ELSE IF d = old THEN "gone" ELSE conn[d].them
    BY <1>2, <1>3, <2>1
  <2>3. OldLives'
    BY <1>0, <1>1, <2>2, OldLivesStay DEF TouchInv
  <2>4. TheyUseOne'
    <3> SUFFICES ASSUME NEW d \in Slot, conn'[d].them = "used" PROVE entry'[Other] = d
      BY DEF TheyUseOne
    <3>1. CASE w = Other
      BY <1>0, <1>1, <1>4, <2>1, <2>2, <3>1 DEF TouchInv, TheyUseOne, old
    <3>2. CASE w # Other
      BY <1>0, <1>1, <1>4, <2>1, <2>2, <3>2 DEF TouchInv, TheyUseOne
    <3>3. QED BY <3>1, <3>2
  <2>5. OnFirstLan'
    BY <1>1, <1>4 DEF OnFirstLan
  <2>6. QED BY <2>3, <2>4, <2>5 DEF TouchInv
<1>5. CASE network # "global"
  <2>1. /\ entry' = [entry EXCEPT ![w] = IF @ = None THEN c ELSE @]
        /\ \A d \in Slot : conn'[d] = IF d = c THEN used(d) ELSE conn[d]
    <3>1. CASE old = None
      BY <1>0, <1>5, <3>1 DEF Admits, AddPeer, SetEnd
    <3>2. CASE old # None
      BY <1>0, <1>5, <3>2 DEF Admits, AddPeer, SetEnd, Tables, Connections, Conns
    <3>3. QED BY <3>1, <3>2
  <2> HIDE DEF used, old
  <2>2. \A d \in Slot :
            /\ conn'[d].life = conn[d].life /\ conn'[d].state = conn[d].state
            /\ conn'[d].them = IF d = c /\ w = Other THEN "used" ELSE conn[d].them
            /\ conn'[d].us = IF d = c /\ w # Other THEN "used" ELSE conn[d].us
    BY <1>2, <2>1
  <2>3. OldLives'
    BY <1>0, <1>1, <2>2, OldLivesStay DEF TouchInv
  <2>4. TheyUseOne'
    BY <1>1, <1>5 DEF TheyUseOne
  <2>5. OnFirstLan'
    <3> SUFFICES ASSUME network = "local", lives <= 1 PROVE Intact' /\ AdmittedIsKnown'
      BY <1>1 DEF OnFirstLan, app
    <3>1. Intact /\ AdmittedIsKnown
      BY DEF TouchInv, OnFirstLan
    <3>2. Intact'
      <4>1. CASE entry'[Other] = entry[Other]
        <5>1. entry[Other] # None => entry[Other] \in Slot
          BY <1>0
        <5>2. QED BY <2>2, <3>1, <4>1, <5>1 DEF Intact
      <4>2. CASE entry'[Other] # entry[Other]
        <5>1. entry'[Other] = c
          BY <1>0, <2>1, <4>2
        <5>2. QED BY <1>1, <2>2, <5>1 DEF Intact
      <4>3. QED BY <4>1, <4>2
    <3>3. AdmittedIsKnown'
      <4>1. CASE w = Other
        BY <1>0, <2>1, <4>1 DEF AdmittedIsKnown
      <4>2. CASE w # Other
        <5> SUFFICES ASSUME NEW d \in Slot,
                            conn[d].life # None /\ conn[d].state = "open" /\ conn[d].them = "used",
                            conn'[d].us = "new" \/ \E l \in online : entry'[l] = d
                     PROVE  entry[Other] # None
          BY <1>0, <1>1, <2>1, <2>2, <4>2 DEF AdmittedIsKnown
        <5>1. conn[c].us = "new"
          BY <1>1, <4>2 DEF Side
        <5>2. conn[d].us = "new" \/ \E l \in online : entry[l] = d
          <6>1. ASSUME NEW l \in online, entry'[l] = d PROVE d = c \/ entry[l] = d
            BY <1>0, <2>1, <6>1
          <6>2. QED BY <2>2, <5>1, <6>1
        <5>3. QED BY <3>1, <5>2 DEF AdmittedIsKnown
      <4>3. QED BY <4>1, <4>2
    <3>4. QED BY <3>2, <3>3
  <2>6. QED BY <2>3, <2>4, <2>5 DEF TouchInv
<1>6. QED BY <1>4, <1>5

\* A player's end of a connection goes, and its table loses it.  On the first LAN,
\* where the other player may have others, it either goes on with one or is not
\* missed, and does not lose one that our node closed.
LEMMA LostTouch ==
    ASSUME TouchInv, IInv', NEW c \in Slot, NEW w \in Player, NEW d \in Conn,
           conn' = [conn EXCEPT ![c] = d], d.life = conn[c].life,
           d.state = conn[c].state \/ d.state = "cut",
           d.us = conn[c].us \/ d.us = "gone",
           d.them = IF w = Other THEN "gone" ELSE conn[c].them,
           \A v \in Player : entry'[v] = IF v = w /\ entry[v] = c THEN None ELSE entry[v],
           \A r \in redial' : r \in redial \/ r[2] = conn[c].life,
           UNCHANGED <<network, app, online>>,
           w = Other /\ entry[Other] = c /\ network = "local" /\ lives <= 1 =>
               \A e \in Slot \ {c} :
                   /\ conn[e].life # None /\ conn[e].state = "open" /\ conn[e].them = "used"
                   => conn[e].us # "new" /\ \A l \in online : entry[l] # e,
           w # Other /\ entry[Other] = c /\ network = "local" /\ lives <= 1 =>
               d.state = conn[c].state
    PROVE  TouchInv'
<1>0. /\ IInv /\ None \notin Slot /\ Other \in Player /\ conn \in Conns
      /\ entry \in [Player -> Slot \cup {None}]
      /\ online \subseteq Life /\ Life \subseteq Player
  BY Shapes DEF TouchInv
<1>1. /\ conn'[c] = d /\ \A e \in Slot : e # c => conn'[e] = conn[e]
  BY <1>0 DEF Conns
<1>2. OldLives'
  BY <1>0, <1>1, OldLivesStay DEF TouchInv
<1>3. TheyUseOne'
  <2> SUFFICES ASSUME network = "global", NEW e \in Slot, conn'[e].them = "used"
               PROVE  entry'[Other] = e
    BY DEF TheyUseOne
  <2>1. conn[e].them = "used" /\ (w = Other => e # c)
    BY <1>1
  <2>2. entry[Other] = e
    BY <2>1 DEF TouchInv, TheyUseOne
  <2>3. QED BY <1>0, <2>1, <2>2
<1>4. OnFirstLan'
  <2> SUFFICES ASSUME network = "local", lives <= 1 PROVE Intact' /\ AdmittedIsKnown'
    BY DEF OnFirstLan, app
  <2>1. Intact /\ AdmittedIsKnown
    BY DEF TouchInv, OnFirstLan
  <2>2. Intact'
    <3> SUFFICES ASSUME entry'[Other] # None PROVE conn'[entry'[Other]].state # "cut"
      BY DEF Intact
    <3>1. entry'[Other] = entry[Other] /\ entry[Other] \in Slot /\ (w = Other => entry[Other] # c)
      BY <1>0
    <3>2. CASE entry[Other] = c
      BY <1>1, <2>1, <3>1, <3>2 DEF Intact
    <3>3. CASE entry[Other] # c
      BY <1>1, <2>1, <3>1, <3>3 DEF Intact
    <3>4. QED BY <3>2, <3>3
  <2>3. AdmittedIsKnown'
    <3> SUFFICES ASSUME NEW e \in Slot,
                        conn'[e].life # None /\ conn'[e].state = "open" /\ conn'[e].them = "used",
                        conn'[e].us = "new" \/ \E l \in online : entry'[l] = e
                 PROVE  entry'[Other] # None
      BY DEF AdmittedIsKnown
    <3>1. /\ conn[e].life # None /\ conn[e].state = "open" /\ conn[e].them = "used"
          /\ w = Other => e # c
      BY <1>1
    <3>2. conn[e].us = "new" \/ \E l \in online : entry[l] = e
      <4>1. ASSUME NEW l \in online, entry'[l] = e PROVE entry[l] = e
        BY <1>0, <4>1
      <4>2. conn'[e].us = "new" => conn[e].us = "new"
        BY <1>1
      <4>3. QED BY <4>1, <4>2
    <3>3. entry[Other] # None
      BY <2>1, <3>1, <3>2 DEF AdmittedIsKnown
    <3>4. CASE w = Other /\ entry[Other] = c
      BY <3>1, <3>2, <3>4
    <3>5. CASE ~ (w = Other /\ entry[Other] = c)
      BY <1>0, <3>3, <3>5
    <3>6. QED BY <3>4, <3>5
  <2>4. QED BY <2>2, <2>3
<1>5. QED BY <1>2, <1>3, <1>4 DEF TouchInv

LEMMA CloseEventTouch ==
    ASSUME TouchInv, IInv', NEW c \in Slot, NEW w \in Player, CloseEvent(c, w)
    PROVE  TouchInv'
<1> DEFINE d == SetEnd(conn[c], w, "gone")
<1>0. /\ IInv /\ Tables /\ None \notin Slot /\ Other \in Player /\ conn[c] \in Conn
      /\ entry \in [Player -> Slot \cup {None}]
  BY Shapes DEF TouchInv
<1>1. /\ d \in Conn /\ d.life = conn[c].life /\ d.state = conn[c].state
      /\ d.us = conn[c].us \/ d.us = "gone"
      /\ d.them = IF w = Other THEN "gone" ELSE conn[c].them
  <2>1. "gone" \in {"new", "used", "gone"}
    OBVIOUS
  <2> HIDE DEF d
  <2>2. QED BY <1>0, <2>1, EndParts DEF d
<1>2. /\ conn' = [conn EXCEPT ![c] = d] /\ UNCHANGED <<network, app, online>>
      /\ conn[c].state = "cut" /\ IsOf(c, w)
  BY DEF CloseEvent, SetEnd
<1> HIDE DEF d
<1>3. /\ \A v \in Player : entry'[v] = IF v = w /\ entry[v] = c THEN None ELSE entry[v]
      /\ \A r \in redial' : r \in redial \/ r[2] = conn[c].life
  <2>1. CASE conn[c][Side(w)] = "used"
    BY <1>0, <2>1 DEF CloseEvent, Disconnected
  <2>2. CASE conn[c][Side(w)] # "used"
    <3>1. entry[w] # c
      BY <1>0, <2>2 DEF Tables, EntriesInUse
    <3>2. entry' = entry /\ redial' = redial
      BY <2>2 DEF CloseEvent
    <3>3. QED BY <3>1, <3>2
  <2>3. QED BY <2>1, <2>2
\* A connection the other player uses is not one that we closed.
<1>4. entry[Other] = c => ~ (network = "local" /\ lives <= 1)
  BY <1>0, <1>2 DEF TouchInv, OnFirstLan, Intact
<1>5. QED BY <1>1, <1>2, <1>3, <1>4, LostTouch

LEMMA SweepTouch ==
    ASSUME TouchInv, IInv', NEW w \in Player, Sweep(w)
    PROVE  TouchInv'
<1> DEFINE c == entry[w]
           d == CutBy(conn[c], w)
<1>0. /\ IInv /\ Tables /\ None \notin Slot /\ Other \in Player /\ c \in Slot
      /\ conn[c] \in Conn /\ entry \in [Player -> Slot \cup {None}]
      /\ online \subseteq Life /\ Life \subseteq Player /\ Life \subseteq Nat \ {0}
  BY Shapes DEF TouchInv, Sweep
<1>1. /\ d \in Conn /\ d.life = conn[c].life
      /\ d.state = IF conn[c].state = "open" THEN "cut" ELSE conn[c].state
      /\ d.us = conn[c].us \/ d.us = "gone"
      /\ d.them = IF w = Other THEN "gone" ELSE conn[c].them
  <2> HIDE DEF c
  <2> QED BY <1>0, CutByType, CutParts
<1>2. /\ conn' = [conn EXCEPT ![c] = d] /\ UNCHANGED <<network, app, online>>
      /\ ~ Hears(w) /\ Still /\ (w = Other \/ w \in online)
      /\ Disconnected(c, w)
  BY DEF Sweep
<1>3. /\ \A v \in Player : entry'[v] = IF v = w /\ entry[v] = c THEN None ELSE entry[v]
      /\ \A r \in redial' : r \in redial \/ r[2] = conn[c].life
  BY <1>0, <1>2 DEF Disconnected
\* The other player hears our node on every connection the node uses.
<1>4. ASSUME w = Other, NEW e \in Slot \ {c},
             conn[e].life # None /\ conn[e].state = "open" /\ conn[e].them = "used"
      PROVE  conn[e].us # "new" /\ \A l \in online : entry[l] # e
  <2>1. conn[e].us # "new"
    BY <1>2, <1>4 DEF Still
  <2>2. ASSUME NEW l \in online, entry[l] = e PROVE FALSE
    BY <1>0, <1>2, <1>4, <2>2 DEF Hears, Speaks, Side
  <2>3. QED BY <2>1, <2>2
\* Our node hears the other player on the connection that both use.
<1>5. ASSUME w # Other, entry[Other] = c, conn[c].state = "open" PROVE FALSE
  <2>1. conn[c].life = w /\ conn[c][Side(w)] = "used"
    BY <1>0, <1>5 DEF Tables, EntriesInUse, IsOf
  <2>2. Speaks(entry[Other], w)
    BY <1>0, <1>5, <2>1 DEF Speaks
  <2>3. QED BY <1>2, <1>5, <2>1, <2>2 DEF Hears
<1> HIDE DEF c, d
<1>6. QED BY <1>0, <1>1, <1>2, <1>3, <1>4, <1>5, LostTouch

LEMMA BreakTouch ==
    ASSUME TouchInv, IInv', NEW c \in Slot, WireDies(c) \/ Forget(c)
    PROVE  TouchInv'
<1>0. /\ IInv /\ Tables /\ None \notin Slot /\ Other \in Player /\ conn \in Conns
      /\ entry \in [Player -> Slot \cup {None}]
      /\ online \subseteq Life /\ Life \subseteq Player
  BY Shapes DEF TouchInv
<1>1. UNCHANGED <<network, app, online, entry, redial>>
  BY DEF WireDies, Forget
<1>2. /\ \A e \in Slot : e # c => conn'[e] = conn[e]
      /\ conn'[c].life = conn[c].life \/ conn'[c].life = None
      /\ conn'[c].state # "open" /\ (conn'[c].them = "used" => conn[c].them = "used")
      /\ entry[Other] = c => conn'[c].state # "cut"
  <2>1. CASE WireDies(c)
    <3>1. conn' = [conn EXCEPT ![c] = [conn[c] EXCEPT !.state = "dead"]] /\ conn[c] \in Conn
      BY <1>0, <2>1 DEF WireDies, Conns
    <3>2. QED BY <1>0, <3>1 DEF Conns, Conn
  <2>2. CASE Forget(c)
    <3>1. conn' = [conn EXCEPT ![c] = Unused]
      BY <2>2 DEF Forget
    <3>2. entry[Other] # c
      BY <1>0, <2>2 DEF Forget, Tables, EntriesInUse, Side
    <3>3. QED BY <1>0, <3>1, <3>2 DEF Conns, Unused
  <2>3. QED BY <2>1, <2>2
<1>3. OldLives'
  BY <1>0, <1>1, <1>2, OldLivesStay DEF TouchInv
<1>4. TheyUseOne'
  BY <1>1, <1>2 DEF TouchInv, TheyUseOne
<1>5. OnFirstLan'
  <2> SUFFICES ASSUME network = "local", lives <= 1 PROVE Intact' /\ AdmittedIsKnown'
    BY <1>1 DEF OnFirstLan, app
  <2>1. Intact /\ AdmittedIsKnown
    BY DEF TouchInv, OnFirstLan
  <2>2. Intact'
    <3>1. entry[Other] # None => entry[Other] \in Slot
      BY <1>0
    <3>2. QED BY <1>1, <1>2, <2>1, <3>1 DEF Intact
  <2>3. AdmittedIsKnown'
    BY <1>1, <1>2, <2>1 DEF AdmittedIsKnown
  <2>4. QED BY <2>2, <2>3
<1>6. QED BY <1>3, <1>4, <1>5 DEF TouchInv

LEMMA SameTouch ==
    ASSUME TouchInv, IInv', UNCHANGED <<network, lives, starting, online, conn, entry, redial>>
    PROVE  TouchInv'
BY DEF TouchInv, OldLives, TheyUseOne, OnFirstLan, Intact, AdmittedIsKnown

LEMMA NextTouch == TouchInv /\ [Next]_vars => TouchInv'
<1> SUFFICES ASSUME TouchInv, [Next]_vars PROVE TouchInv'
  OBVIOUS
<1>1. IInv' /\ lives \in Nat
  BY NextInv, Shapes DEF TouchInv
<1>2. CASE UNCHANGED vars
  BY <1>1, <1>2, SameTouch DEF vars, app
<1>3. CASE LogIn \/ Join
  BY <1>1, <1>3, SameTouch DEF LogIn, Join
<1>4. CASE LogOut \/ Leave
  BY <1>1, <1>4, StopTouch DEF LogOut, Leave
<1>5. CASE JoinResumes
  BY <1>1, <1>5, StopTouch DEF JoinResumes
<1>6. CASE \E l \in Life : TransportReady(l)
  BY <1>1, <1>6, TransportReadyTouch
<1>7. CASE Connecting
  <2>1. \E w \in Player, l \in Life, c \in Slot :
            Discover(w, l, c) \/ RetryTick(w, l, c) \/ SwarmConnects(l, c)
    BY <1>7 DEF Connecting, Player
  <2>2. QED BY <1>1, <2>1, ConnectingTouch
<1>8. CASE \E c \in Slot, w \in Player : OnConnection(c, w)
  BY <1>1, <1>8, AdmitsTouch, CloseEventTouch DEF OnConnection
<1>9. CASE \E c \in Slot : WireDies(c) \/ Forget(c)
  BY <1>1, <1>9, BreakTouch
<1>10. CASE \E w \in Player : Sweep(w)
  BY <1>1, <1>10, SweepTouch
<1>11. QED BY <1>2, <1>3, <1>4, <1>5, <1>6, <1>7, <1>8, <1>9, <1>10 DEF Next, Clicks

LEMMA TouchInvTouches == TouchInv => InTouchUnlessLeftOnLan
<1> SUFFICES ASSUME TouchInv, network = "global" \/ lives = 1, NEW l \in online,
                    entry[l] # None, conn[entry[l]].state = "open", conn[entry[l]].them = "used"
             PROVE  entry[Other] # None /\ conn[entry[Other]].life = l
  BY DEF InTouchUnlessLeftOnLan, InTouch
<1>0. /\ IInv /\ None \notin Slot /\ Other \in Player /\ l \in Player /\ l # Other
      /\ entry \in [Player -> Slot \cup {None}] /\ l \in 1..lives /\ lives \in Nat
      /\ \A c \in Slot : conn[c].life \in Nat
  BY Shapes DEF TouchInv, Other
<1>1. entry[l] \in Slot /\ conn[entry[l]].life = l /\ l # None
  BY <1>0 DEF IInv, EntriesInUse, IsOf, None, Other
<1>2. CASE network = "global"
  BY <1>0, <1>1, <1>2 DEF TouchInv, TheyUseOne
<1>3. CASE network # "global"
  <2>1. network = "local" /\ lives = 1
    BY <1>0, <1>3, NetworksAssumption DEF IInv, TypeOK
  <2>2. entry[Other] # None
    BY <1>1, <2>1 DEF TouchInv, OnFirstLan, AdmittedIsKnown
  <2>3. entry[Other] \in Slot /\ conn[entry[Other]].life # None
    BY <1>0, <2>2 DEF IInv, EntriesInUse, IsOf
  <2>4. conn[entry[Other]].life <= 1 /\ l = 1
    BY <1>0, <2>1, <2>3 DEF TouchInv, OldLives
  <2>5. QED BY <1>0, <2>2, <2>3, <2>4 DEF None
<1>4. QED BY <1>2, <1>3

\* The other player does not go on with a connection of an earlier node: over the
\* internet handleConnection retires what it had (hyperswarm-network.ts), and on
\* the first node's LAN removeGhosts only gives up a connection on which nothing
\* is heard.
THEOREM NobodyTalksToAGhost == Spec => []InTouchUnlessLeftOnLan
BY InitTouch, NextTouch, TouchInvTouches, PTL DEF Spec

=============================================================================
