--------------------------- MODULE PeerTable_proofs ---------------------------
(***************************************************************************)
(* The count of peers, which admission goes by, is the size of the peer    *)
(* table; players that talk know what the other told them, and go on       *)
(* talking until a connection fails.  All for any number of connections,   *)
(* failures and reconnections, on either transport.                        *)
(***************************************************************************)
EXTENDS PeerTable, SequenceTheorems, TLAPS

Conns == [Slot -> Conn]

\* The inductive invariant of the table and its count.
IInv == TypeOK /\ CountMatchesTable

-----------------------------------------------------------------------------
(* Types of the operators.                                                 *)

LEMMA OtherType == \A n \in Node : Other(n) \in Node /\ Other(n) # n
BY DEF Node, Other

LEMMA UnusedType == Unused \in Conn
<1>1. <<>> \in Seq(Packets)
  BY EmptySeq
<1>2. QED BY <1>1 DEF Unused, Conn, Node

\* A connection with one field replaced.
LEMMA FieldTypes ==
    ASSUME NEW s \in Conn, NEW n \in Node
    PROVE  /\ \A x \in Node : [s EXCEPT !.dialer = x] \in Conn
           /\ \A x \in BOOLEAN : [s EXCEPT !.wire = x] \in Conn
           /\ \A x \in BOOLEAN : [s EXCEPT !.pending = x] \in Conn
           /\ \A x \in {"open", "closing", "closed"} : [s EXCEPT !.socket[n] = x] \in Conn
           /\ \A x \in [Node -> {"open", "closing", "closed"}] :
                  [s EXCEPT !.socket = x] \in Conn
           /\ \A x \in {"none", "alive", "dead"} : [s EXCEPT !.peer[n] = x] \in Conn
           /\ \A x \in Seq(Packets) : [s EXCEPT !.inbox[n] = x] \in Conn
           /\ \A x \in [Node -> Seq(Packets)] : [s EXCEPT !.inbox = x] \in Conn
BY DEF Conn

\* ... in the table of connections.
LEMMA UpdateTypes ==
    ASSUME NEW cs \in Conns, NEW c \in Slot, NEW n \in Node
    PROVE  /\ \A x \in BOOLEAN : [cs EXCEPT ![c].wire = x] \in Conns
           /\ \A x \in BOOLEAN : [cs EXCEPT ![c].pending = x] \in Conns
           /\ \A x \in {"open", "closing", "closed"} : [cs EXCEPT ![c].socket[n] = x] \in Conns
           /\ \A x \in {"none", "alive", "dead"} : [cs EXCEPT ![c].peer[n] = x] \in Conns
           /\ \A x \in Seq(Packets) : [cs EXCEPT ![c].inbox[n] = x] \in Conns
           /\ \A x \in [Node -> Seq(Packets)] : [cs EXCEPT ![c].inbox = x] \in Conns
           /\ \A x \in Conn : [cs EXCEPT ![c] = x] \in Conns
<1>1. cs[c] \in Conn
  BY DEF Conns
<1>2. \A x \in BOOLEAN : [cs EXCEPT ![c].wire = x] \in Conns
  BY <1>1, FieldTypes DEF Conns
<1>3. \A x \in BOOLEAN : [cs EXCEPT ![c].pending = x] \in Conns
  BY <1>1, FieldTypes DEF Conns
<1>4. \A x \in {"open", "closing", "closed"} : [cs EXCEPT ![c].socket[n] = x] \in Conns
  BY <1>1, FieldTypes DEF Conns
<1>5. \A x \in {"none", "alive", "dead"} : [cs EXCEPT ![c].peer[n] = x] \in Conns
  BY <1>1, FieldTypes DEF Conns
<1>6. \A x \in Seq(Packets) : [cs EXCEPT ![c].inbox[n] = x] \in Conns
  BY <1>1, FieldTypes DEF Conns
<1>7. \A x \in [Node -> Seq(Packets)] : [cs EXCEPT ![c].inbox = x] \in Conns
  BY <1>1, FieldTypes DEF Conns
<1>8. \A x \in Conn : [cs EXCEPT ![c] = x] \in Conns
  BY DEF Conns
<1>9. QED BY <1>2, <1>3, <1>4, <1>5, <1>6, <1>7, <1>8

LEMMA InboxType ==
    ASSUME NEW cs \in Conns, NEW c \in Slot, NEW n \in Node
    PROVE  cs[c].inbox[n] \in Seq(Packets)
BY DEF Conns, Conn

LEMMA SentType ==
    ASSUME NEW cs \in Conns, NEW c \in Slot, NEW n \in Node, NEW packet \in Packets
    PROVE  Sent(cs, c, n, packet) \in Conns
<1>1. Append(cs[c].inbox[Other(n)], packet) \in Seq(Packets)
  BY OtherType, InboxType, AppendProperties
<1>2. [cs EXCEPT ![c].inbox[Other(n)] = Append(@, packet)] \in Conns
  BY <1>1, OtherType, UpdateTypes
<1>3. QED BY <1>2 DEF Sent

LEMMA ClosedType ==
    ASSUME NEW cs \in Conns, NEW c \in Slot, NEW n \in Node
    PROVE  Closed(cs, c, n) \in Conns
BY UpdateTypes DEF Closed

LEMMA TailType ==
    ASSUME NEW cs \in Conns, NEW c \in Slot, NEW n \in Node, cs[c].inbox[n] # <<>>
    PROVE  [cs EXCEPT ![c].inbox[n] = Tail(@)] \in Conns
<1>1. Tail(cs[c].inbox[n]) \in Seq(Packets)
  BY InboxType, HeadTailProperties
<1>2. QED BY <1>1, UpdateTypes

LEMMA OpenedType ==
    ASSUME NEW dialer \in Node, NEW inbox \in [Node -> Seq(Packets)]
    PROVE  Opened(dialer, inbox) \in Conn
<1> DEFINE a == [Unused EXCEPT !.dialer = dialer]
           b == [a EXCEPT !.wire = TRUE]
           d == [b EXCEPT !.inbox = inbox]
           e == [d EXCEPT !.socket = [n \in Node |-> "open"]]
<1>0. 1 \in Node
  BY DEF Node
<1>1. a \in Conn
  BY <1>0, UnusedType, FieldTypes
<1>2. b \in Conn
  <2> HIDE DEF a
  <2> QED BY <1>0, <1>1, FieldTypes
<1>3. d \in Conn
  <2> HIDE DEF b
  <2> QED BY <1>0, <1>2, FieldTypes
<1>4. e \in Conn
  <2> HIDE DEF d
  <2> QED BY <1>0, <1>3, FieldTypes
<1>5. QED BY <1>4 DEF Opened

LEMMA EndedType ==
    ASSUME NEW s \in Conn, NEW n \in Node
    PROVE  Ended(s, n) \in Conn
<1> DEFINE a == [s EXCEPT !.socket[n] = "closed"]
           b == [a EXCEPT !.inbox[n] = <<>>]
           x == IF s.peer[n] = "alive" THEN "dead" ELSE s.peer[n]
           d == [b EXCEPT !.peer[n] = x]
<1>1. a \in Conn
  BY FieldTypes
<1>2. b \in Conn
  <2>1. <<>> \in Seq(Packets)
    BY EmptySeq
  <2> HIDE DEF a
  <2>2. QED BY <1>1, <2>1, FieldTypes
<1>3. x \in {"none", "alive", "dead"}
  BY DEF Conn
<1>4. d \in Conn
  <2> HIDE DEF b, x
  <2> QED BY <1>2, <1>3, FieldTypes
<1>5. QED BY <1>4 DEF Ended

-----------------------------------------------------------------------------
(* The table and its count.                                                *)

Tables ==
    /\ table \in [Node -> Slot \cup {None}]
    /\ count \in [Node -> Nat]
    /\ knows \in [Node -> BOOLEAN]
    /\ CountMatchesTable

LEMMA NoneIsNoSlot == None \notin Slot
BY SlotAssumption

LEMMA EnteredTypes ==
    ASSUME Tables, NEW cs \in Conns, NEW c \in Slot, NEW n \in Node,
           Entered(cs, table[n], c, n)
    PROVE  Tables' /\ conn' \in Conns
<1>1. conn' \in Conns
  <2>1. table[n] # None => Closed(cs, table[n], n) \in Conns
    BY ClosedType DEF Tables
  <2>2. "state" \in Packets
    BY DEF Packets
  <2>3. QED BY <2>1, <2>2, SentType DEF Entered
<1>2. table' = [table EXCEPT ![n] = c] /\ knows' = [knows EXCEPT ![n] = FALSE]
  BY DEF Entered
<1>3. count' = IF table[n] = None THEN [count EXCEPT ![n] = @ + 1] ELSE count
  BY DEF Entered
<1>4. count' \in [Node -> Nat] /\ CountMatchesTable'
  BY <1>2, <1>3, NoneIsNoSlot DEF Tables, CountMatchesTable
<1>5. QED BY <1>1, <1>2, <1>4 DEF Tables

LEMMA AddPeerTypes ==
    ASSUME Tables, NEW cs \in Conns, NEW c \in Slot, NEW n \in Node,
           AddPeer(cs, table[n], c, n)
    PROVE  Tables' /\ conn' \in Conns
<1>1. CASE table[n] # None /\ Works(cs, table[n], n)
  BY <1>1 DEF AddPeer, Tables, CountMatchesTable
<1>2. CASE ~ (table[n] # None /\ Works(cs, table[n], n))
  BY <1>2, EnteredTypes DEF AddPeer
<1>3. QED BY <1>1, <1>2

LEMMA DisconnectTypes ==
    ASSUME Tables, NEW c \in Slot, NEW n \in Node, HandlePeerDisconnect(c, n)
    PROVE  Tables'
<1>1. CASE table[n] = c
  <2>1. /\ table' = [table EXCEPT ![n] = None]
        /\ knows' = [knows EXCEPT ![n] = FALSE]
        /\ count' = [count EXCEPT ![n] = @ - 1]
    BY <1>1 DEF HandlePeerDisconnect
  <2>2. count[n] = 1
    BY <1>1, NoneIsNoSlot DEF Tables, CountMatchesTable
  <2>3. count' \in [Node -> Nat] /\ CountMatchesTable'
    BY <2>1, <2>2 DEF Tables, CountMatchesTable
  <2>4. QED BY <2>1, <2>3 DEF Tables
<1>2. CASE table[n] # c
  BY <1>2 DEF HandlePeerDisconnect, Tables, CountMatchesTable
<1>3. QED BY <1>1, <1>2

LEMMA RetryTypes ==
    ASSUME NEW n \in Node, retry \in [Node -> 0..Attempts \cup {None}], ScheduleReconnect(n)
    PROVE  retry' \in [Node -> 0..Attempts \cup {None}]
BY BoundAssumption DEF ScheduleReconnect

LEMMA ConnUnchanged ==
    ASSUME IInv, UNCHANGED <<transport, table, count, knows, retry, found, failures>>,
           conn' \in Conns
    PROVE  IInv'
BY DEF IInv, TypeOK, Conns, CountMatchesTable

LEMMA TableChanges ==
    ASSUME IInv, UNCHANGED <<transport, found, failures>>,
           retry' \in [Node -> 0..Attempts \cup {None}], Tables', conn' \in Conns
    PROVE  IInv'
BY DEF IInv, TypeOK, Conns, Tables

-----------------------------------------------------------------------------
(* The invariant.                                                          *)

LEMMA InitInv == Init => IInv
<1> SUFFICES ASSUME Init PROVE IInv
  OBVIOUS
<1>1. TypeOK
  BY UnusedType, BoundAssumption DEF Init, TypeOK
<1>2. CountMatchesTable
  BY DEF Init, CountMatchesTable
<1>3. QED BY <1>1, <1>2 DEF IInv

LEMMA DialledType ==
    ASSUME NEW n \in Node, NEW c \in Slot, conn \in Conns, Dialled(n, c)
    PROVE  conn' \in Conns
<1> DEFINE inbox == [m \in Node |-> IF m = n THEN <<>> ELSE <<"handshake">>]
<1>1. <<>> \in Seq(Packets) /\ <<"handshake">> \in Seq(Packets)
  BY EmptySeq DEF Packets
<1>2. inbox \in [Node -> Seq(Packets)]
  BY <1>1
<1>3. Opened(n, inbox) \in Conn
  <2> HIDE DEF inbox
  <2> QED BY <1>2, OpenedType
<1>4. conn' = [conn EXCEPT ![c] = Opened(n, inbox)]
  BY DEF Dialled
<1> HIDE DEF inbox
<1>5. QED BY <1>3, <1>4, UpdateTypes

LEMMA OnConnectionInv ==
    ASSUME IInv, NEW n \in Node, NEW c \in Slot, OnConnection(c, n)
    PROVE  IInv'
<1>0. /\ TypeOK /\ conn \in Conns /\ Tables
      /\ retry \in [Node -> 0..Attempts \cup {None}]
  BY DEF IInv, TypeOK, Conns, Tables
<1>1. CASE HandleHandshake(c, n)
  <2> DEFINE a == [conn EXCEPT ![c].inbox[n] = Tail(@)]
             b == [a EXCEPT ![c].pending = TRUE]
  <2>1. a \in Conns
    BY <1>0, <1>1, TailType DEF HandleHandshake
  <2>2. b \in Conns
    <3> HIDE DEF a
    <3> QED BY <2>1, UpdateTypes
  <2>3. conn' = Sent(b, c, n, "ack")
    BY <1>1 DEF HandleHandshake
  <2> HIDE DEF b
  <2>4. conn' \in Conns
    BY <2>2, <2>3, SentType DEF Packets
  <2>5. QED BY <1>1, <2>4, ConnUnchanged DEF HandleHandshake
<1>2. CASE AckIsSent(c, n)
  <2> DEFINE a == [conn EXCEPT ![c].pending = FALSE]
             b == [a EXCEPT ![c].peer[n] = "alive"]
             d == [b EXCEPT ![c].inbox[n] = HeldEarly(@)]
  <2>1. a \in Conns
    BY <1>0, UpdateTypes
  <2>2. b \in Conns
    <3> HIDE DEF a
    <3> QED BY <2>1, UpdateTypes
  <2>3. d \in Conns
    <3> HIDE DEF b
    <3> QED BY <2>2, InboxType, UpdateTypes DEF HeldEarly
  <2>4. AddPeer(d, table[n], c, n)
    BY <1>2 DEF AckIsSent
  <2> HIDE DEF d
  <2>5. Tables' /\ conn' \in Conns
    BY <1>0, <2>3, <2>4, AddPeerTypes
  <2>6. QED BY <1>0, <1>2, <2>5, TableChanges DEF AckIsSent
<1>3. CASE HandleAck(c, n)
  <2> DEFINE b == [conn EXCEPT ![c].inbox[n] = HeldEarly(Tail(@))]
             d == [b EXCEPT ![c].peer[n] = "alive"]
  <2>1. b \in Conns
    BY <1>0, <1>3, TailType DEF HandleAck, HeldEarly
  <2>2. d \in Conns
    <3> HIDE DEF b
    <3> QED BY <2>1, UpdateTypes
  <2>3. AddPeer(d, table[n], c, n)
    BY <1>3 DEF HandleAck
  <2> HIDE DEF d
  <2>4. Tables' /\ conn' \in Conns
    BY <1>0, <2>2, <2>3, AddPeerTypes
  <2>5. QED BY <1>0, <1>3, <2>4, TableChanges DEF HandleAck
<1>4. CASE HandshakeTimesOut(c, n)
  BY <1>0, <1>4, ClosedType, ConnUnchanged DEF HandshakeTimesOut
<1>5. CASE HandleHello(c, n)
  <2> DEFINE old  == table[n]
             b    == [conn EXCEPT ![c].inbox[n] = Tail(@)]
             said == [b EXCEPT ![c].peer[n] = "alive"]
             dead == [said EXCEPT ![old].peer[n] = "dead"]
  <2>1. b \in Conns
    BY <1>0, <1>5, TailType DEF HandleHello
  <2>2. said \in Conns
    <3> HIDE DEF b
    <3> QED BY <2>1, UpdateTypes
  <2>3. CASE old # None /\ conn[old].peer[n] = "alive"
    <3>1. old \in Slot
      BY <1>0, <2>3 DEF Tables
    <3>2. dead \in Conns
      <4> HIDE DEF said
      <4> QED BY <2>2, <3>1, UpdateTypes
    <3>3. Closed(dead, old, n) \in Conns
      <4> HIDE DEF dead
      <4> QED BY <3>1, <3>2, ClosedType
    <3>4. Entered(Closed(dead, old, n), old, c, n)
      BY <1>5, <2>3 DEF HandleHello
    <3> HIDE DEF dead
    <3>5. Tables' /\ conn' \in Conns
      BY <1>0, <3>3, <3>4, EnteredTypes
    <3>6. QED BY <1>0, <1>5, <3>5, TableChanges DEF HandleHello
  <2>4. CASE ~ (old # None /\ conn[old].peer[n] = "alive")
    <3>1. AddPeer(said, old, c, n)
      BY <1>5, <2>4 DEF HandleHello
    <3> HIDE DEF said
    <3>2. Tables' /\ conn' \in Conns
      BY <1>0, <2>2, <3>1, AddPeerTypes
    <3>3. QED BY <1>0, <1>5, <3>2, TableChanges DEF HandleHello
  <2>5. QED BY <2>3, <2>4
<1>6. CASE HandleState(c, n)
  <2>1. conn' \in Conns
    BY <1>0, <1>6, TailType DEF HandleState
  <2>2. Tables'
    BY <1>0, <1>6 DEF HandleState, Tables, CountMatchesTable
  <2>3. QED BY <1>0, <1>6, <2>1, <2>2, TableChanges DEF HandleState
<1>7. CASE SocketEnds(c, n)
  BY <1>0, <1>7, ClosedType, ConnUnchanged DEF SocketEnds
<1>8. CASE CloseEvent(c, n)
  <2>1. Ended(conn[c], n) \in Conn
    BY <1>0, EndedType DEF Conns
  <2>2. conn' = [conn EXCEPT ![c] = Unused] \/ conn' = [conn EXCEPT ![c] = Ended(conn[c], n)]
    BY <1>8 DEF CloseEvent
  <2>3. conn' \in Conns
    BY <1>0, <2>1, <2>2, UnusedType DEF Conns
  <2>4. Tables' /\ retry' \in [Node -> 0..Attempts \cup {None}]
    <3>1. CASE conn[c].peer[n] = "alive"
      BY <1>0, <1>8, <3>1, DisconnectTypes, RetryTypes DEF CloseEvent, Disconnected
    <3>2. CASE conn[c].peer[n] # "alive"
      BY <1>0, <1>8, <3>2 DEF CloseEvent, Tables, CountMatchesTable
    <3>3. QED BY <3>1, <3>2
  <2>5. QED BY <1>8, <2>3, <2>4, TableChanges DEF CloseEvent
<1>9. CASE RemoveGhost(n, c)
  <2> DEFINE a == [conn EXCEPT ![c].peer[n] = "dead"]
  <2>1. a \in Conns
    BY <1>0, UpdateTypes
  <2>2. conn' \in Conns
    <3>1. conn' = Closed(a, c, n)
      BY <1>9 DEF RemoveGhost
    <3> HIDE DEF a
    <3>2. QED BY <2>1, <3>1, ClosedType
  <2>3. Tables' /\ retry' \in [Node -> 0..Attempts \cup {None}]
    BY <1>0, <1>9, DisconnectTypes, RetryTypes DEF RemoveGhost, Disconnected
  <2>4. QED BY <1>9, <2>2, <2>3, TableChanges DEF RemoveGhost
<1>10. QED
  BY <1>1, <1>2, <1>3, <1>4, <1>5, <1>6, <1>7, <1>8, <1>9 DEF OnConnection

LEMMA NextInv == IInv /\ [Next]_vars => IInv'
<1> SUFFICES ASSUME IInv, [Next]_vars PROVE IInv'
  OBVIOUS
<1>0. TypeOK /\ conn \in Conns /\ Tables
  BY DEF IInv, TypeOK, Conns, Tables
<1>1. ASSUME NEW n \in Node, NEW c \in Slot, Discover(n, c) PROVE IInv'
  <2>1. conn' \in Conns
    BY <1>0, <1>1, DialledType DEF Discover
  <2>2. found' \subseteq Node
    BY <1>0, <1>1 DEF Discover, TypeOK
  <2>3. QED BY <1>1, <2>1, <2>2 DEF Discover, IInv, TypeOK, Conns, CountMatchesTable
<1>2. ASSUME NEW n \in Node, NEW c \in Slot, RetryTick(n, c) PROVE IInv'
  <2>1. conn' \in Conns
    BY <1>0, <1>2, DialledType DEF RetryTick
  <2>2. retry' \in [Node -> 0..Attempts \cup {None}]
    <3>1. retry[n] \in 0..Attempts
      BY <1>0, <1>2 DEF RetryTick, TypeOK
    <3>2. CASE table[n] # None \/ retry[n] = Attempts
      BY <1>0, <1>2, <3>2 DEF RetryTick, TypeOK
    <3>3. CASE ~ (table[n] # None \/ retry[n] = Attempts)
      <4>1. retry[n] + 1 \in 0..Attempts
        BY <3>1, <3>3, BoundAssumption
      <4>2. retry' = [retry EXCEPT ![n] = @ + 1]
        BY <1>2, <3>3 DEF RetryTick
      <4>3. QED BY <1>0, <4>1, <4>2 DEF TypeOK
    <3>4. QED BY <3>2, <3>3
  <2>3. UNCHANGED <<transport, table, count, knows, found, failures>>
    BY <1>2 DEF RetryTick
  <2>4. QED BY <2>1, <2>2, <2>3 DEF IInv, TypeOK, Conns, CountMatchesTable
<1>3. ASSUME NEW c \in Slot, SwarmConnects(c) PROVE IInv'
  <2>1. <<"hello">> \in Seq(Packets)
    BY DEF Packets
  <2>2. Opened(1, [n \in Node |-> <<"hello">>]) \in Conn
    BY <2>1, OpenedType DEF Node
  <2>3. conn' \in Conns
    BY <1>0, <1>3, <2>2 DEF SwarmConnects, Conns
  <2>4. QED BY <1>3, <2>3, ConnUnchanged DEF SwarmConnects
<1>4. ASSUME NEW c \in Slot, WireFails(c) PROVE IInv'
  <2>1. [n \in Node |-> <<>>] \in [Node -> Seq(Packets)]
    BY EmptySeq
  <2>2. [conn EXCEPT ![c].wire = FALSE] \in Conns
    BY <1>0, UpdateTypes DEF Node
  <2>3. conn' \in Conns
    <3> DEFINE cs == [conn EXCEPT ![c].wire = FALSE]
    <3>1. conn' = [cs EXCEPT ![c].inbox = [n \in Node |-> <<>>]]
      BY <1>4 DEF WireFails
    <3> HIDE DEF cs
    <3>2. QED BY <2>1, <2>2, <3>1, UpdateTypes DEF cs, Node
  <2>4. failures' \in 0..MaxFailures
    BY <1>0, <1>4, BoundAssumption DEF WireFails, TypeOK
  <2>5. QED BY <1>4, <2>3, <2>4 DEF WireFails, IInv, TypeOK, Conns, CountMatchesTable
<1>5. ASSUME NEW n \in Node, NEW c \in Slot, OnConnection(c, n) PROVE IInv'
  BY <1>5, OnConnectionInv
<1>6. CASE UNCHANGED vars
  BY <1>0, <1>6, ConnUnchanged DEF vars, IInv
<1>7. QED BY <1>1, <1>2, <1>3, <1>4, <1>5, <1>6 DEF Next

LEMMA Invariance == Spec => []IInv
BY InitInv, NextInv, PTL DEF Spec

\* Connections, tables, counts and reconnection timers always have their types;
\* in particular no count goes below zero, and no reconnection over its limit.
THEOREM PeerTableTypes == Spec => []TypeOK
<1>1. IInv => TypeOK
  BY DEF IInv
<1>2. QED BY <1>1, Invariance, PTL

\* The peers counted are the peers in the table, however connections are doubled,
\* replaced, closed, found silent or made again.
THEOREM PeersAreCountedOnce == Spec => []CountMatchesTable
<1>1. IInv => CountMatchesTable
  BY DEF IInv
<1>2. QED BY <1>1, Invariance, PTL

-----------------------------------------------------------------------------
(* What is said on a connection.                                           *)

Has(q, x)    == \E i \in 1..Len(q) : q[i] = x
OnlyState(q) == \A i \in 1..Len(q) : q[i] = "state"

\* A connection, on transport tr, says hello, handshake or ack before anything
\* else, and only while there is no Peer of it yet.
Orderly(s, tr) ==
    \A n \in Node :
        /\ s.peer[n] # "none" => OnlyState(s.inbox[n])
        /\ \A i \in 1..Len(s.inbox[n]) : i > 1 => s.inbox[n][i] = "state"
        /\ s.pending /\ n # s.dialer => s.peer[n] = "none" /\ OnlyState(s.inbox[n])
        /\ Has(s.inbox[n], "handshake") =>
               /\ n # s.dialer /\ ~ s.pending
               /\ s.peer[Other(n)] = "none" /\ s.inbox[Other(n)] = <<>>
        /\ Has(s.inbox[n], "hello") => tr = "internet"

\* A player knows, or will handle, what the other tells it on the connection s
\* that the other has in its table.
Listens(s, n, inTable, known) ==
    s.wire /\ s.socket[1] = "open" /\ s.socket[2] = "open" =>
        /\ s.peer[n] = "none" => Has(s.inbox[n], "state")
        /\ inTable => known \/ Has(s.inbox[n], "state")

Speaking ==
    /\ \A c \in Slot : Orderly(conn[c], transport)
    /\ \A n \in Node : table[n] # None => conn[table[n]].peer[n] = "alive"
    /\ \A n \in Node : table[Other(n)] # None =>
           Listens(conn[table[Other(n)]], n, table[n] = table[Other(n)], knows[n])

\* Until a connection fails: none of them ends, and a greeting is on its way to
\* whoever has no Peer yet.
Sound(s) ==
    /\ s.wire
    /\ \A n \in Node :
        /\ s.socket[n] = "open" /\ s.peer[n] \in {"none", "alive"}
        /\ s.peer[n] = "none" =>
               \/ ~ OnlyState(s.inbox[n])
               \/ s.pending /\ n # s.dialer
               \/ n = s.dialer /\ Has(s.inbox[Other(n)], "handshake")

NothingFailed ==
    failures = 0 =>
        /\ \A c \in Slot : conn[c] = Unused \/ Sound(conn[c])
        /\ transport = "internet" =>
               \A c, d \in Slot : conn[c] # Unused /\ conn[d] # Unused => c = d
        /\ \A n \in Node : /\ retry[n] = None
                           /\ \A c \in Slot : conn[c].peer[n] = "alive" => table[n] # None
                           /\ table[Other(n)] # None =>
                                  \/ Has(conn[table[Other(n)]].inbox[n], "state")
                                  \/ knows[n] /\ table[n] # None

\* The inductive invariant of what is known.
TalkInv == IInv /\ Speaking /\ NothingFailed

-----------------------------------------------------------------------------
(* Queues.                                                                 *)

LEMMA AppendHas ==
    ASSUME NEW q \in Seq(Packets), NEW x \in Packets
    PROVE  /\ Append(q, x) \in Seq(Packets)
           /\ \A y : Has(Append(q, x), y) <=> Has(q, y) \/ x = y
           /\ OnlyState(q) => OnlyState(Append(q, "state"))
           /\ (\A i \in 1..Len(q) : i > 1 => q[i] = "state") =>
                  \A i \in 1..Len(Append(q, "state")) : i > 1 => Append(q, "state")[i] = "state"
<1>1. \A z \in Packets : /\ Append(q, z) \in Seq(Packets)
                         /\ Len(q) \in Nat /\ Len(Append(q, z)) = Len(q) + 1
                         /\ Append(q, z)[Len(q) + 1] = z
                         /\ \A i \in 1..Len(q) : Append(q, z)[i] = q[i]
  BY AppendProperties, LenProperties
<1>2. "state" \in Packets
  BY DEF Packets
<1>3. \A y : Has(Append(q, x), y) <=> Has(q, y) \/ x = y
  <2> DEFINE k == Append(q, x)
  <2>1. /\ Len(q) \in Nat /\ Len(k) = Len(q) + 1
        /\ k[Len(q) + 1] = x /\ \A i \in 1..Len(q) : k[i] = q[i]
    BY <1>1
  <2> HIDE DEF k
  <2>2. /\ \A i \in 1..Len(k) : i = Len(q) + 1 \/ i \in 1..Len(q)
        /\ \A i \in 1..Len(q) : i \in 1..Len(k)
        /\ Len(q) + 1 \in 1..Len(k)
    BY <2>1
  <2>3. \A y : Has(k, y) <=> Has(q, y) \/ x = y
    BY <2>1, <2>2 DEF Has
  <2>4. QED BY <2>3 DEF k
<1>4. OnlyState(q) => OnlyState(Append(q, "state"))
  BY <1>1, <1>2 DEF OnlyState
<1>5. (\A i \in 1..Len(q) : i > 1 => q[i] = "state") =>
          \A i \in 1..Len(Append(q, "state")) : i > 1 => Append(q, "state")[i] = "state"
  BY <1>1, <1>2
<1>6. QED BY <1>1, <1>3, <1>4, <1>5

\* Only the first packet can be a greeting.
LEMMA TailHas ==
    ASSUME NEW q \in Seq(Packets), q # <<>>, \A i \in 1..Len(q) : i > 1 => q[i] = "state"
    PROVE  /\ Tail(q) \in Seq(Packets) /\ OnlyState(Tail(q))
           /\ \A x : Has(q, x) /\ x # "state" => Head(q) = x
           /\ Has(q, "state") /\ Head(q) # "state" => Has(Tail(q), "state")
           /\ Has(q, Head(q))
<1> DEFINE k == Tail(q)
<1>1. /\ k \in Seq(Packets) /\ Head(q) = q[1] /\ Len(q) \in Nat \ {0}
      /\ Len(k) = Len(q) - 1 /\ \A i \in 1..Len(k) : k[i] = q[i + 1]
  BY HeadTailProperties, LenProperties, EmptySeq
<1> HIDE DEF k
<1>2. OnlyState(k)
  BY <1>1 DEF OnlyState
<1>3. \A x : Has(q, x) /\ x # "state" => Head(q) = x
  BY <1>1 DEF Has
<1>4. ASSUME Has(q, "state"), Head(q) # "state" PROVE Has(k, "state")
  <2>1. PICK i \in 1..Len(q) : q[i] = "state"
    BY <1>4 DEF Has
  <2>2. i - 1 \in 1..Len(k) /\ k[i - 1] = q[i]
    BY <1>1, <1>4, <2>1
  <2>3. QED BY <2>1, <2>2 DEF Has
<1>5. Has(q, Head(q))
  BY <1>1 DEF Has
<1>6. QED BY <1>1, <1>2, <1>3, <1>4, <1>5 DEF k

LEMMA EmptyHas ==
    /\ \A x : ~ Has(<<>>, x)
    /\ OnlyState(<<>>) /\ \A i \in 1..Len(<<>>) : i > 1 => <<>>[i] = "state"
BY DEF Has, OnlyState

LEMMA OneHas == \A x, y : Has(<<x>>, y) <=> x = y
BY DEF Has

LEMMA OnlyStateHas ==
    \A q : OnlyState(q) <=> \A x : Has(q, x) => x = "state"
BY DEF OnlyState, Has

-----------------------------------------------------------------------------
(* One connection.                                                         *)

LEMMA ConnFields ==
    ASSUME NEW s \in Conn, NEW n \in Node
    PROVE  /\ s.inbox[n] \in Seq(Packets) /\ Other(n) \in Node /\ Other(n) # n
           /\ Other(Other(n)) = n /\ \A m \in Node : m = n \/ m = Other(n)
           /\ s.wire \in BOOLEAN /\ s.pending \in BOOLEAN /\ s.dialer \in Node
           /\ s.peer[n] \in {"none", "alive", "dead"}
           /\ s.socket[n] \in {"open", "closing", "closed"}
BY DEF Conn, Node, Other

\* What close does to n's end.
ClosedEnd(s, n) ==
    IF s.socket[n] = "open" THEN [s EXCEPT !.socket[n] = "closing"] ELSE s

\* n's state is sent.
StateSent(s, n) ==
    IF s.socket[n] = "open" /\ s.wire /\ s.socket[Other(n)] # "closed"
    THEN [s EXCEPT !.inbox[Other(n)] = Append(@, "state")] ELSE s

LEMMA ClosedEndFields ==
    ASSUME NEW s \in Conn, NEW n \in Node
    PROVE  LET t == ClosedEnd(s, n)
           IN  /\ t \in Conn /\ t.dialer = s.dialer /\ t.wire = s.wire
               /\ t.peer = s.peer /\ t.pending = s.pending /\ t.inbox = s.inbox
               /\ \A m \in Node : t.socket[m] = "open" => s.socket[m] = "open"
<1>1. [s EXCEPT !.socket[n] = "closing"] \in Conn
  BY FieldTypes
<1>2. QED BY <1>1 DEF ClosedEnd, Conn

LEMMA StateSentFields ==
    ASSUME NEW s \in Conn, NEW n \in Node
    PROVE  LET t == StateSent(s, n)
               o == Other(n)
           IN  /\ t \in Conn /\ t.dialer = s.dialer /\ t.wire = s.wire
               /\ t.peer = s.peer /\ t.pending = s.pending /\ t.socket = s.socket
               /\ t.inbox[n] = s.inbox[n]
               /\ t.inbox[o] = s.inbox[o] \/ t.inbox[o] = Append(s.inbox[o], "state")
               /\ s.wire /\ s.socket[n] = "open" /\ s.socket[o] # "closed" =>
                      t.inbox[o] = Append(s.inbox[o], "state")
<1> DEFINE o == Other(n)
           u == [s EXCEPT !.inbox[o] = Append(@, "state")]
<1>0. o \in Node /\ o # n /\ s.inbox[o] \in Seq(Packets)
  BY ConnFields
<1>1. StateSent(s, n) = IF s.socket[n] = "open" /\ s.wire /\ s.socket[o] # "closed" THEN u ELSE s
  BY DEF StateSent
<1> HIDE DEF o
<1>2. Append(s.inbox[o], "state") \in Seq(Packets)
  BY <1>0, AppendProperties DEF Packets
<1>3. /\ u \in Conn /\ u.dialer = s.dialer /\ u.wire = s.wire
      /\ u.peer = s.peer /\ u.pending = s.pending /\ u.socket = s.socket
      /\ u.inbox[n] = s.inbox[n] /\ u.inbox[o] = Append(s.inbox[o], "state")
  BY <1>0, <1>2 DEF Conn
<1> HIDE DEF u
<1>4. QED BY <1>1, <1>3 DEF o

\* A connection that only loses packets stays orderly.
LEMMA WornOrderly ==
    ASSUME NEW s \in Conn, NEW t \in Conn, NEW tr, Orderly(s, tr),
           t.dialer = s.dialer, t.pending = s.pending,
           \A m \in Node : /\ t.inbox[m] = s.inbox[m] \/ t.inbox[m] = <<>>
                           /\ t.peer[m] = "none" <=> s.peer[m] = "none"
    PROVE  Orderly(t, tr)
BY ConnFields, EmptyHas DEF Orderly

LEMMA StateSentOrderly ==
    ASSUME NEW s \in Conn, NEW n \in Node, NEW tr, Orderly(s, tr), s.peer[n] # "none"
    PROVE  Orderly(StateSent(s, n), tr)
<1> DEFINE o == Other(n)
           t == StateSent(s, n)
<1>1. /\ t \in Conn /\ t.dialer = s.dialer /\ t.peer = s.peer /\ t.pending = s.pending
      /\ t.inbox[n] = s.inbox[n]
      /\ t.inbox[o] = s.inbox[o] \/ t.inbox[o] = Append(s.inbox[o], "state")
  BY StateSentFields
<1>2. /\ s.inbox[o] \in Seq(Packets) /\ o \in Node /\ Other(o) = n
      /\ \A m \in Node : m = n \/ m = o
  BY ConnFields
<1>3. CASE t.inbox[o] = s.inbox[o]
  <2> HIDE DEF t, o
  <2>1. \A m \in Node : t.inbox[m] = s.inbox[m]
    BY <1>1, <1>2, <1>3
  <2>2. QED BY <1>1, <2>1, WornOrderly DEF t
<1>4. CASE t.inbox[o] = Append(s.inbox[o], "state")
  <2>0. "state" \in Packets
    BY DEF Packets
  <2>1. /\ \A y : Has(t.inbox[o], y) <=> Has(s.inbox[o], y) \/ y = "state"
        /\ OnlyState(s.inbox[o]) => OnlyState(t.inbox[o])
        /\ (\A i \in 1..Len(s.inbox[o]) : i > 1 => s.inbox[o][i] = "state") =>
               \A i \in 1..Len(t.inbox[o]) : i > 1 => t.inbox[o][i] = "state"
    BY <1>2, <1>4, <2>0, AppendHas
  \* n has a Peer, so that it has handled the handshake.
  <2>2. ~ Has(s.inbox[n], "handshake") /\ ~ Has(s.inbox[o], "handshake")
    BY <1>2, OnlyStateHas DEF Orderly
  <2> HIDE DEF t, o
  <2>3. QED
    BY <1>1, <1>2, <2>1, <2>2 DEF Orderly, t
<1>5. QED BY <1>1, <1>3, <1>4

-----------------------------------------------------------------------------
(* A new Peer.                                                             *)

\* n makes a Peer of connection c, which becomes s.
Arrives(c, n, s) ==
    LET r == conn[c]
        o == Other(n)
    IN  /\ s \in Conn /\ s.dialer = r.dialer /\ s.wire = r.wire /\ s.socket = r.socket
        /\ r.peer[n] = "none" /\ s.peer[n] = "alive" /\ s.peer[o] = r.peer[o]
        /\ s.inbox[o] = r.inbox[o] /\ OnlyState(s.inbox[n])
        /\ Has(r.inbox[n], "state") => Has(s.inbox[n], "state")
        /\ ~ Has(r.inbox[n], "handshake") /\ ~ Has(r.inbox[o], "handshake")
        /\ s.pending => r.pending /\ n = r.dialer
        /\ n = r.dialer => s.pending = r.pending
        /\ r # Unused

\* It has another that works ...
Declines(c, n, s) ==
    /\ conn' = [conn EXCEPT ![c] = s]
    /\ table[n] # None
    /\ UNCHANGED <<table, knows>>

\* The connection that is given up has an end less.
Worn(r, t, n) ==
    /\ t.dialer = r.dialer /\ t.wire = r.wire /\ t.pending = r.pending
    /\ t.inbox = r.inbox /\ t.peer[Other(n)] = r.peer[Other(n)]
    /\ t.peer[n] = "none" <=> r.peer[n] = "none"
    /\ \A m \in Node : t.socket[m] = "open" => r.socket[m] = "open"

\* ... or it uses the new one.
Enters(c, n, s) ==
    /\ conn'[c] = StateSent(s, n)
    /\ \A d \in Slot \ {c} :
           conn'[d] = conn[d] \/ (d = table[n] /\ Worn(conn[d], conn'[d], n))
    /\ table' = [table EXCEPT ![n] = c]
    /\ knows' = [knows EXCEPT ![n] = FALSE]
    /\ \/ table[n] = None
       \/ ~ Works(conn, table[n], n)
       \/ transport = "internet"

LEMMA EnteredConn ==
    ASSUME NEW cs \in Conns, NEW c \in Slot, NEW n \in Node, NEW old,
           old = None \/ old \in Slot \ {c}, Entered(cs, old, c, n)
    PROVE  /\ conn'[c] = StateSent(cs[c], n)
           /\ \A d \in Slot \ {c} :
                  conn'[d] = IF d = old THEN ClosedEnd(cs[d], n) ELSE cs[d]
<1> DEFINE k == IF old = None THEN cs ELSE Closed(cs, old, n)
<1>1. conn' = Sent(k, c, n, "state")
  BY DEF Entered
<1>2. /\ k \in Conns /\ k[c] = cs[c]
      /\ \A d \in Slot \ {c} : k[d] = IF d = old THEN ClosedEnd(cs[d], n) ELSE cs[d]
  <2>1. CASE old = None
    BY <2>1, NoneIsNoSlot
  <2>2. CASE old # None
    <3>1. k = Closed(cs, old, n) /\ k \in Conns /\ old \in Slot \ {c}
      BY <2>2, ClosedType
    <3>2. k = IF cs[old].socket[n] = "open"
              THEN [cs EXCEPT ![old] = ClosedEnd(cs[old], n)] ELSE cs
      BY <3>1 DEF Closed, ClosedEnd
    <3> HIDE DEF k
    <3>3. cs[old].socket[n] # "open" => ClosedEnd(cs[old], n) = cs[old]
      BY DEF ClosedEnd
    <3>4. QED BY <3>1, <3>2, <3>3 DEF Conns
  <2>3. QED BY <2>1, <2>2
<1> HIDE DEF k
<1>3. conn' = IF /\ k[c].socket[n] = "open" /\ k[c].wire
                 /\ k[c].socket[Other(n)] # "closed"
              THEN [k EXCEPT ![c] = StateSent(k[c], n)] ELSE k
  BY <1>1 DEF Sent, StateSent
<1>4. ~ (k[c].socket[n] = "open" /\ k[c].wire /\ k[c].socket[Other(n)] # "closed")
      => StateSent(k[c], n) = k[c]
  BY DEF StateSent
<1>5. conn'[c] = StateSent(k[c], n) /\ \A d \in Slot \ {c} : conn'[d] = k[d]
  BY <1>2, <1>3, <1>4 DEF Conns
<1>6. QED BY <1>2, <1>5

LEMMA WornByClose ==
    ASSUME NEW r \in Conn, NEW n \in Node
    PROVE  Worn(r, ClosedEnd(r, n), n)
BY ClosedEndFields DEF Worn

LEMMA AddPeerSteps ==
    ASSUME IInv, NEW c \in Slot, NEW n \in Node, NEW s \in Conn, table[n] # c,
           AddPeer([conn EXCEPT ![c] = s], table[n], c, n)
    PROVE  Declines(c, n, s) \/ Enters(c, n, s)
<1> DEFINE cs  == [conn EXCEPT ![c] = s]
           old == table[n]
<1>0. /\ cs \in Conns /\ cs[c] = s /\ \A d \in Slot \ {c} : cs[d] = conn[d]
      /\ old = None \/ old \in Slot \ {c}
      /\ \A d \in Slot : conn[d] \in Conn
  BY DEF IInv, TypeOK, Conns
<1>1. AddPeer(cs, old, c, n)
  OBVIOUS
<1>2. CASE old # None /\ Works(cs, old, n)
  BY <1>1, <1>2 DEF AddPeer, Declines
<1>3. CASE ~ (old # None /\ Works(cs, old, n))
  <2> HIDE DEF cs, old
  <2>1. Entered(cs, old, c, n)
    BY <1>1, <1>3 DEF AddPeer
  <2>2. /\ conn'[c] = StateSent(s, n)
        /\ \A d \in Slot \ {c} : conn'[d] = IF d = old THEN ClosedEnd(conn[d], n) ELSE conn[d]
    <3>1. /\ conn'[c] = StateSent(cs[c], n)
          /\ \A d \in Slot \ {c} : conn'[d] = IF d = old THEN ClosedEnd(cs[d], n) ELSE cs[d]
      BY <1>0, <2>1, EnteredConn
    <3>2. QED BY <1>0, <3>1
  <2>3. \A d \in Slot \ {c} : conn'[d] = conn[d] \/ (d = old /\ Worn(conn[d], conn'[d], n))
    BY <1>0, <2>2, WornByClose
  <2>4. old = None \/ ~ Works(conn, old, n)
    BY <1>0, <1>3 DEF Works
  <2>5. QED BY <2>1, <2>2, <2>3, <2>4 DEF Enters, Entered, old
<1>4. QED BY <1>2, <1>3

LEMMA AckIsSentArrives ==
    ASSUME TalkInv, NEW c \in Slot, NEW n \in Node, AckIsSent(c, n)
    PROVE  \E s : Arrives(c, n, s) /\ (Declines(c, n, s) \/ Enters(c, n, s))
<1> DEFINE r == conn[c]
           s == [[r EXCEPT !.pending = FALSE] EXCEPT !.peer[n] = "alive"]
<1>0. /\ conn \in Conns /\ r \in Conn /\ r.pending /\ n # r.dialer /\ Orderly(r, transport)
      /\ table[n] # None => conn[table[n]].peer[n] = "alive"
  BY DEF TalkInv, IInv, TypeOK, Conns, Speaking, AckIsSent
<1>1. /\ Other(n) \in Node /\ Other(n) # n /\ Other(Other(n)) = n
      /\ r.inbox[n] \in Seq(Packets)
  BY <1>0, ConnFields
<1>2. /\ s \in Conn /\ s.dialer = r.dialer /\ s.wire = r.wire /\ s.socket = r.socket
      /\ s.inbox = r.inbox /\ ~ s.pending
      /\ s.peer[n] = "alive" /\ s.peer[Other(n)] = r.peer[Other(n)]
  BY <1>0, <1>1 DEF Conn
<1>3. /\ r.peer[n] = "none" /\ OnlyState(r.inbox[n])
      /\ ~ Has(r.inbox[Other(n)], "handshake")
  BY <1>0, <1>1 DEF Orderly
<1>4. ~ Has(r.inbox[n], "handshake")
  BY <1>3, OnlyStateHas
<1>5. r # Unused
  BY <1>0 DEF Unused
<1>6. AddPeer([conn EXCEPT ![c] = s], table[n], c, n)
  <2> DEFINE cs == [conn EXCEPT ![c].pending = FALSE, ![c].peer[n] = "alive",
                                ![c].inbox[n] = HeldEarly(@)]
  <2>1. AddPeer(cs, table[n], c, n)
    BY DEF AckIsSent
  <2>2. cs = [conn EXCEPT ![c] = s]
    <3> DEFINE k == [conn EXCEPT ![c] = s]
    <3>1. [conn EXCEPT ![c].pending = FALSE, ![c].peer[n] = "alive"] = k
      BY <1>0 DEF Conns, Conn
    <3>2. cs = [k EXCEPT ![c].inbox[n] = r.inbox[n]]
      BY <3>1 DEF HeldEarly
    <3>3. k[c] = s /\ k \in Conns
      BY <1>0, <1>2 DEF Conns
    <3> HIDE DEF cs, k, s
    <3>4. [s EXCEPT !.inbox[n] = r.inbox[n]] = s
      BY <1>2 DEF Conn
    <3>5. [k EXCEPT ![c].inbox[n] = r.inbox[n]] = k
      BY <3>3, <3>4 DEF Conns
    <3>6. QED BY <3>2, <3>5 DEF k
  <2> HIDE DEF cs
  <2>3. QED BY <2>1, <2>2
<1>7. table[n] # c
  BY <1>0, <1>3, NoneIsNoSlot
<1> HIDE DEF s
<1>8. Declines(c, n, s) \/ Enters(c, n, s)
  BY <1>2, <1>6, <1>7, AddPeerSteps DEF TalkInv
<1>9. Arrives(c, n, s)
  BY <1>0, <1>2, <1>3, <1>4, <1>5 DEF Arrives
<1>10. QED BY <1>8, <1>9

\* A greeting that is not a handshake makes a Peer.
LEMMA GreetingArrives ==
    ASSUME TalkInv, NEW c \in Slot, NEW n \in Node,
           conn[c].inbox[n] # <<>>, Head(conn[c].inbox[n]) \in {"ack", "hello"}
    PROVE  LET s == [[conn[c] EXCEPT !.inbox[n] = Tail(@)] EXCEPT !.peer[n] = "alive"]
           IN  /\ Arrives(c, n, s) /\ table[n] # c
               /\ Head(conn[c].inbox[n]) = "hello" => transport = "internet"
<1> DEFINE r == conn[c]
           q == r.inbox[n]
           s == [[r EXCEPT !.inbox[n] = Tail(@)] EXCEPT !.peer[n] = "alive"]
<1>0. /\ r \in Conn /\ Orderly(r, transport)
      /\ table[n] # None => conn[table[n]].peer[n] = "alive"
  BY DEF TalkInv, IInv, TypeOK, Speaking
<1>1. /\ Other(n) \in Node /\ Other(n) # n /\ Other(Other(n)) = n
      /\ q \in Seq(Packets)
  BY <1>0, ConnFields
<1>2. \A i \in 1..Len(q) : i > 1 => q[i] = "state"
  BY <1>0 DEF Orderly
<1>3. /\ Tail(q) \in Seq(Packets) /\ OnlyState(Tail(q))
      /\ \A x : Has(q, x) /\ x # "state" => Head(q) = x
      /\ Has(q, "state") /\ Head(q) # "state" => Has(Tail(q), "state")
      /\ Has(q, Head(q))
  <2> HIDE DEF q
  <2> QED BY <1>1, <1>2, TailHas DEF q
<1>4. ~ OnlyState(q)
  BY <1>3, OnlyStateHas
<1>5. /\ s \in Conn /\ s.dialer = r.dialer /\ s.wire = r.wire /\ s.socket = r.socket
      /\ s.inbox[n] = Tail(q) /\ s.inbox[Other(n)] = r.inbox[Other(n)]
      /\ s.pending = r.pending
      /\ s.peer[n] = "alive" /\ s.peer[Other(n)] = r.peer[Other(n)]
  BY <1>0, <1>1, <1>3 DEF Conn
<1>6. /\ r.peer[n] = "none" /\ (r.pending => n = r.dialer)
      /\ ~ Has(r.inbox[Other(n)], "handshake")
      /\ Has(q, "hello") => transport = "internet"
  BY <1>0, <1>1, <1>4 DEF Orderly
<1>7. ~ Has(q, "handshake")
  BY <1>3
<1>8. r # Unused
  BY DEF Unused
<1>9. table[n] # c
  BY <1>0, <1>6, NoneIsNoSlot
<1> HIDE DEF s
<1>10. Arrives(c, n, s)
  BY <1>0, <1>3, <1>5, <1>6, <1>7, <1>8 DEF Arrives
<1>11. QED BY <1>3, <1>6, <1>9, <1>10 DEF s

LEMMA HandleAckArrives ==
    ASSUME TalkInv, NEW c \in Slot, NEW n \in Node, HandleAck(c, n)
    PROVE  \E s : Arrives(c, n, s) /\ (Declines(c, n, s) \/ Enters(c, n, s))
<1> DEFINE s == [[conn[c] EXCEPT !.inbox[n] = Tail(@)] EXCEPT !.peer[n] = "alive"]
<1>1. conn[c].inbox[n] # <<>> /\ Head(conn[c].inbox[n]) = "ack" /\ conn \in Conns
  BY DEF HandleAck, TalkInv, IInv, TypeOK, Conns
<1>2. Arrives(c, n, s) /\ table[n] # c
  BY <1>1, GreetingArrives
<1>3. AddPeer([conn EXCEPT ![c] = s], table[n], c, n)
  <2> DEFINE cs == [conn EXCEPT ![c].inbox[n] = HeldEarly(Tail(@)), ![c].peer[n] = "alive"]
  <2>1. AddPeer(cs, table[n], c, n)
    BY DEF HandleAck
  <2>2. cs = [conn EXCEPT ![c] = s]
    BY <1>1 DEF HeldEarly, Conns, Conn
  <2> HIDE DEF cs
  <2>3. QED BY <2>1, <2>2
<1> HIDE DEF s
<1>4. QED BY <1>2, <1>3, AddPeerSteps DEF TalkInv, Arrives

LEMMA HandleHelloArrives ==
    ASSUME TalkInv, NEW c \in Slot, NEW n \in Node, HandleHello(c, n)
    PROVE  \E s : Arrives(c, n, s) /\ (Declines(c, n, s) \/ Enters(c, n, s))
<1> DEFINE s    == [[conn[c] EXCEPT !.inbox[n] = Tail(@)] EXCEPT !.peer[n] = "alive"]
           old  == table[n]
           said == [conn EXCEPT ![c].inbox[n] = Tail(@), ![c].peer[n] = "alive"]
<1>1. /\ conn[c].inbox[n] # <<>> /\ Head(conn[c].inbox[n]) = "hello" /\ conn \in Conns
      /\ table \in [Node -> Slot \cup {None}]
  BY DEF HandleHello, TalkInv, IInv, TypeOK, Conns
<1>2. Arrives(c, n, s) /\ old # c /\ transport = "internet"
  BY <1>1, GreetingArrives
<1>3. said = [conn EXCEPT ![c] = s]
  BY <1>1 DEF Conns, Conn
<1>4. IF old # None /\ conn[old].peer[n] = "alive"
      THEN Entered(Closed([said EXCEPT ![old].peer[n] = "dead"], old, n), old, c, n)
      ELSE AddPeer(said, old, c, n)
  BY DEF HandleHello
<1>5. s \in Conn
  BY <1>2 DEF Arrives
<1> HIDE DEF s, said
<1>6. CASE old # None /\ conn[old].peer[n] = "alive"
  <2> DEFINE dead == [conn[old] EXCEPT !.peer[n] = "dead"]
             cs   == [said EXCEPT ![old].peer[n] = "dead"]
             k    == Closed(cs, old, n)
  <2>0. old \in Slot \ {c}
    BY <1>1, <1>2, <1>6
  <2> HIDE DEF old
  <2>1. /\ dead \in Conn /\ Worn(conn[old], dead, n)
        /\ conn[old] \in Conn
    BY <1>1, <1>6, <2>0, OtherType DEF Conns, Conn, Worn
  <2>2. /\ cs \in Conns /\ cs[c] = s /\ cs[old] = dead
        /\ \A d \in Slot \ {c, old} : cs[d] = conn[d]
    BY <1>1, <1>3, <1>5, <2>0, <2>1 DEF Conns
  <2> HIDE DEF dead, cs
  <2>3. /\ k \in Conns /\ k[c] = s /\ k[old] = ClosedEnd(dead, n)
        /\ \A d \in Slot \ {c, old} : k[d] = conn[d]
    <3>1. k \in Conns
      BY <2>0, <2>2, ClosedType
    <3>2. k = IF cs[old].socket[n] = "open"
              THEN [cs EXCEPT ![old] = ClosedEnd(cs[old], n)] ELSE cs
      BY DEF Closed, ClosedEnd
    <3>3. dead.socket[n] # "open" => ClosedEnd(dead, n) = dead
      BY DEF ClosedEnd
    <3> HIDE DEF k
    <3>4. QED BY <2>0, <2>2, <3>1, <3>2, <3>3 DEF Conns
  <2> HIDE DEF k
  <2>4. Entered(k, old, c, n)
    BY <1>4, <1>6 DEF k, cs, old
  <2>5. /\ conn'[c] = StateSent(s, n)
        /\ \A d \in Slot \ {c} : conn'[d] = IF d = old THEN ClosedEnd(k[d], n) ELSE k[d]
    BY <2>0, <2>3, <2>4, EnteredConn
  <2>6. Worn(conn[old], ClosedEnd(ClosedEnd(dead, n), n), n)
    <3> DEFINE a == ClosedEnd(dead, n)
               b == ClosedEnd(a, n)
    <3>1. a \in Conn /\ Worn(dead, a, n)
      BY <2>1, ClosedEndFields, WornByClose
    <3> HIDE DEF a
    <3>2. Worn(a, b, n)
      BY <3>1, WornByClose
    <3> HIDE DEF b
    <3>3. Worn(conn[old], b, n)
      BY <2>1, <3>1, <3>2 DEF Worn
    <3>4. QED BY <3>3 DEF a, b
  <2>7. \A d \in Slot \ {c} : conn'[d] = conn[d] \/ (d = old /\ Worn(conn[d], conn'[d], n))
    BY <2>0, <2>3, <2>5, <2>6
  <2>8. Enters(c, n, s)
    BY <1>2, <2>4, <2>5, <2>7 DEF Enters, Entered, old
  <2>9. QED BY <1>2, <2>8
<1>7. CASE ~ (old # None /\ conn[old].peer[n] = "alive")
  <2>1. AddPeer([conn EXCEPT ![c] = s], old, c, n)
    BY <1>3, <1>4, <1>7
  <2>2. QED BY <1>2, <1>5, <2>1, AddPeerSteps DEF TalkInv
<1>8. QED BY <1>6, <1>7

LEMMA ArrivedOrderly ==
    ASSUME NEW c \in Slot, NEW n \in Node, NEW s, conn[c] \in Conn,
           Orderly(conn[c], transport), Arrives(c, n, s)
    PROVE  Orderly(s, transport) /\ Orderly(StateSent(s, n), transport)
<1> DEFINE r == conn[c]
           o == Other(n)
<1>1. o \in Node /\ o # n /\ Other(o) = n /\ (\A m \in Node : m = n \/ m = o)
  BY ConnFields
<1>2. Orderly(r, transport) /\ Arrives(c, n, s)
  OBVIOUS
<1> HIDE DEF o
<1>3. /\ OnlyState(s.inbox[n]) /\ ~ Has(s.inbox[n], "handshake") /\ ~ Has(s.inbox[n], "hello")
      /\ \A i \in 1..Len(s.inbox[n]) : i > 1 => s.inbox[n][i] = "state"
      /\ ~ (s.pending /\ n # s.dialer)
  BY <1>2, OnlyStateHas DEF Arrives, OnlyState
<1>4. /\ s.peer[o] = r.peer[o] /\ s.inbox[o] = r.inbox[o] /\ s.dialer = r.dialer
      /\ s.pending => r.pending
      /\ ~ Has(r.inbox[o], "handshake")
  BY <1>2 DEF Arrives, o
<1>5. Orderly(s, transport)
  BY <1>1, <1>2, <1>3, <1>4 DEF Orderly
<1>6. s \in Conn /\ s.peer[n] # "none"
  BY <1>2 DEF Arrives
<1>7. QED BY <1>5, <1>6, StateSentOrderly

\* What both outcomes leave of a connection other than c.
LEMMA OthersWear ==
    ASSUME IInv, NEW c \in Slot, NEW n \in Node, NEW s, Declines(c, n, s) \/ Enters(c, n, s),
           NEW d \in Slot, d # c
    PROVE  conn'[d] = conn[d] \/ (Enters(c, n, s) /\ d = table[n] /\ Worn(conn[d], conn'[d], n))
BY DEF Declines, Enters, IInv, TypeOK

LEMMA ArrivalSpeaking ==
    ASSUME TalkInv, IInv', transport' = transport,
           NEW c \in Slot, NEW n \in Node, NEW s, Arrives(c, n, s),
           Declines(c, n, s) \/ Enters(c, n, s)
    PROVE  Speaking'
<1> DEFINE r == conn[c]
           o == Other(n)
           t == StateSent(s, n)
<1>0. /\ IInv /\ \A d \in Slot : conn[d] \in Conn /\ conn'[d] \in Conn /\ Orderly(conn[d], transport)
      /\ table \in [Node -> Slot \cup {None}] /\ conn \in Conns
      /\ \A m \in Node : table[m] # None => conn[table[m]].peer[m] = "alive"
      /\ \A m \in Node : table[Other(m)] # None =>
             Listens(conn[table[Other(m)]], m, table[m] = table[Other(m)], knows[m])
      /\ knows \in [Node -> BOOLEAN]
  BY DEF TalkInv, IInv, TypeOK, Speaking, Conns
<1>1. o \in Node /\ o # n /\ Other(o) = n /\ (\A m \in Node : m = n \/ m = o)
  BY DEF Node, Other
<1>2. /\ s \in Conn /\ s.dialer = r.dialer /\ s.wire = r.wire /\ s.socket = r.socket
      /\ r.peer[n] = "none" /\ s.peer[n] = "alive" /\ s.peer[o] = r.peer[o]
      /\ s.inbox[o] = r.inbox[o]
      /\ Has(r.inbox[n], "state") => Has(s.inbox[n], "state")
  BY DEF Arrives
<1>3. table[n] # c
  BY <1>0, <1>2, NoneIsNoSlot
<1>4. /\ t \in Conn /\ t.wire = s.wire /\ t.socket = s.socket /\ t.peer = s.peer
      /\ t.inbox[n] = s.inbox[n]
      /\ s.wire /\ s.socket[n] = "open" /\ s.socket[o] # "closed" =>
             t.inbox[o] = Append(s.inbox[o], "state")
  BY <1>2, StateSentFields
<1>5. /\ \A d \in Slot : d # c =>
             conn'[d] = conn[d] \/ (Enters(c, n, s) /\ d = table[n] /\ Worn(conn[d], conn'[d], n))
      /\ conn'[c] = s \/ conn'[c] = t
  <2>1. \A d \in Slot : d # c =>
             conn'[d] = conn[d] \/ (Enters(c, n, s) /\ d = table[n] /\ Worn(conn[d], conn'[d], n))
    BY <1>0, OthersWear
  <2>2. conn'[c] = s \/ conn'[c] = t
    BY <1>0 DEF Declines, Enters, Conns
  <2>3. QED BY <2>1, <2>2
<1>6. Orderly(s, transport) /\ Orderly(t, transport)
  BY <1>0, ArrivedOrderly
<1> HIDE DEF t, o
<1>7. \A d \in Slot : Orderly(conn'[d], transport)
  <2> SUFFICES ASSUME NEW d \in Slot PROVE Orderly(conn'[d], transport)
    OBVIOUS
  <2>1. CASE d = c
    BY <1>5, <1>6, <2>1
  <2>2. CASE d # c /\ conn'[d] = conn[d]
    BY <1>0, <2>2
  <2>3. CASE d # c /\ Worn(conn[d], conn'[d], n)
    <3>1. \A m \in Node : /\ conn'[d].inbox[m] = conn[d].inbox[m]
                          /\ conn'[d].peer[m] = "none" <=> conn[d].peer[m] = "none"
      BY <1>1, <2>3 DEF Worn, o
    <3>2. conn'[d].dialer = conn[d].dialer /\ conn'[d].pending = conn[d].pending
      BY <2>3 DEF Worn
    <3>3. QED BY <1>0, <3>1, <3>2, WornOrderly
  <2>4. QED BY <1>5, <2>1, <2>2, <2>3
<1>8. \A m \in Node : table'[m] # None => conn'[table'[m]].peer[m] = "alive"
  <2> SUFFICES ASSUME NEW m \in Node, table'[m] # None PROVE conn'[table'[m]].peer[m] = "alive"
    OBVIOUS
  <2>1. CASE table'[m] = c
    <3>1. m = n \/ (m = o /\ table[m] = c)
      BY <1>0, <1>1, <2>1 DEF Declines, Enters
    <3>2. conn'[c].peer = s.peer
      BY <1>4, <1>5
    <3>3. QED BY <1>0, <1>2, <2>1, <3>1, <3>2, NoneIsNoSlot
  <2>2. CASE table'[m] # c
    <3>1. table'[m] = table[m] /\ table[m] \in Slot /\ (Enters(c, n, s) => m = o)
      BY <1>0, <1>1, <2>2 DEF Declines, Enters
    <3>2. CASE conn'[table[m]] = conn[table[m]]
      BY <1>0, <3>1, <3>2
    <3>3. CASE conn'[table[m]] # conn[table[m]]
      <4>1. m = o /\ Worn(conn[table[m]], conn'[table[m]], n)
        BY <1>5, <2>2, <3>1, <3>3
      <4>2. QED BY <1>0, <3>1, <4>1 DEF Worn, o
    <3>4. QED BY <3>2, <3>3
  <2>3. QED BY <2>1, <2>2
<1>9. ASSUME NEW m \in Node, table'[Other(m)] # None
      PROVE  Listens(conn'[table'[Other(m)]], m, table'[m] = table'[Other(m)], knows'[m])
  <2>1. CASE Declines(c, n, s)
    <3> DEFINE e == table[Other(m)]
    <3>1. /\ table' = table /\ knows' = knows /\ conn' = [conn EXCEPT ![c] = s]
          /\ e \in Slot /\ Other(m) \in Node
      BY <1>0, <1>9, <2>1, OtherType DEF Declines
    <3>2. CASE e = c
      <4>1. m = n
        BY <1>1, <1>3, <3>2 DEF o
      <4>2. conn'[e] = s
        BY <1>0, <3>1, <3>2 DEF Conns
      <4>3. QED BY <1>2, <1>3, <3>1, <3>2, <4>1, <4>2 DEF Listens
    <3>3. CASE e # c
      <4>1. conn'[e] = conn[e]
        BY <1>0, <3>1, <3>3 DEF Conns
      <4>2. Listens(conn[e], m, table[m] = e, knows[m])
        BY <1>0, <1>9, <3>1
      <4>3. QED BY <3>1, <4>1, <4>2
    <3>4. QED BY <3>2, <3>3
  <2>2. CASE Enters(c, n, s)
    <3>1. conn'[c] = t /\ table' = [table EXCEPT ![n] = c] /\ knows' = [knows EXCEPT ![n] = FALSE]
      BY <2>2 DEF Enters, t
    <3>2. CASE m = o
      <4>1. table'[Other(m)] = c
        BY <1>0, <1>1, <3>1, <3>2
      <4>2. s.inbox[o] \in Seq(Packets) /\ "state" \in Packets
        BY <1>1, <1>2, ConnFields DEF Packets
      <4>3. Has(Append(s.inbox[o], "state"), "state")
        BY <4>2, AppendHas
      <4>4. n \in {1, 2} /\ o \in {1, 2}
        BY <1>1 DEF Node
      <4>5. s.wire /\ s.socket[1] = "open" /\ s.socket[2] = "open" => Has(t.inbox[o], "state")
        BY <1>4, <4>3, <4>4
      <4>6. QED BY <1>4, <3>1, <3>2, <4>1, <4>5 DEF Listens
    <3>3. CASE m = n
      <4> DEFINE e == table[o]
      <4>1. /\ table'[Other(m)] = e /\ e \in Slot /\ table'[m] = c
            /\ Listens(conn[e], n, table[n] = e, knows[n])
        BY <1>0, <1>1, <1>9, <3>1, <3>3 DEF o
      <4>2. CASE e = c
        <5>1. /\ conn'[e] = t
              /\ s.wire /\ s.socket[1] = "open" /\ s.socket[2] = "open" => Has(r.inbox[n], "state")
          BY <1>2, <3>1, <4>1, <4>2 DEF Listens
        <5>2. QED BY <1>2, <1>4, <3>3, <4>1, <4>2, <5>1 DEF Listens
      <4>3. CASE e # c
        <5>1. conn'[e] = conn[e] \/ Worn(conn[e], conn'[e], n)
          BY <1>5, <4>1, <4>3
        <5>2. /\ conn'[e].wire = conn[e].wire /\ conn'[e].inbox = conn[e].inbox
              /\ conn'[e].peer[n] = "none" => conn[e].peer[n] = "none"
              /\ conn'[e].socket[1] = "open" => conn[e].socket[1] = "open"
              /\ conn'[e].socket[2] = "open" => conn[e].socket[2] = "open"
          BY <5>1 DEF Worn, Node
        <5>3. QED BY <3>3, <4>1, <4>3, <5>2 DEF Listens
      <4>4. QED BY <4>2, <4>3
    <3>4. QED BY <1>1, <3>2, <3>3
  <2>3. QED BY <2>1, <2>2
<1>10. QED
  <2>1. \A m \in Node : table'[Other(m)] # None =>
             Listens(conn'[table'[Other(m)]], m, table'[m] = table'[Other(m)], knows'[m])
    BY <1>9
  <2>2. QED BY <1>7, <1>8, <2>1 DEF Speaking

LEMMA ArrivedSound ==
    ASSUME NEW c \in Slot, NEW n \in Node, NEW s, conn[c] \in Conn,
           Sound(conn[c]), Arrives(c, n, s)
    PROVE  Sound(s) /\ Sound(StateSent(s, n))
<1> DEFINE r == conn[c]
           o == Other(n)
           t == StateSent(s, n)
<1>1. /\ o \in Node /\ o # n /\ Other(o) = n /\ (\A m \in Node : m = n \/ m = o)
      /\ r.dialer \in Node
  BY ConnFields
<1>2. /\ s \in Conn /\ s.dialer = r.dialer /\ s.wire = r.wire /\ s.socket = r.socket
      /\ s.peer[n] = "alive" /\ s.peer[o] = r.peer[o] /\ s.inbox[o] = r.inbox[o]
      /\ ~ Has(r.inbox[n], "handshake") /\ (n = r.dialer => s.pending = r.pending)
  BY DEF Arrives
<1>3. /\ t.wire = s.wire /\ t.socket = s.socket /\ t.peer = s.peer
      /\ t.pending = s.pending /\ t.dialer = s.dialer
      /\ t.inbox[o] = s.inbox[o] \/ t.inbox[o] = Append(s.inbox[o], "state")
  BY <1>2, StateSentFields
<1>4. ~ OnlyState(s.inbox[o]) => ~ OnlyState(t.inbox[o])
  <2>1. s.inbox[o] \in Seq(Packets) /\ "state" \in Packets
    BY <1>1, <1>2, ConnFields DEF Packets
  <2>2. \A y : Has(Append(s.inbox[o], "state"), y) <=> Has(s.inbox[o], y) \/ y = "state"
    BY <2>1, AppendHas
  <2>3. QED BY <1>3, <2>2, OnlyStateHas
<1> HIDE DEF t, o
<1>5. /\ r.wire /\ r.socket[n] = "open" /\ r.socket[o] = "open"
      /\ r.peer[o] \in {"none", "alive"}
      /\ r.peer[o] = "none" => \/ ~ OnlyState(r.inbox[o])
                               \/ r.pending /\ o # r.dialer
  BY <1>1, <1>2 DEF Sound
<1>6. s.wire /\ \A m \in Node : /\ s.socket[m] = "open" /\ s.peer[m] \in {"none", "alive"}
                                /\ s.peer[m] = "none" => m = o
  BY <1>1, <1>2, <1>5
<1>7. s.peer[o] = "none" => ~ OnlyState(s.inbox[o]) \/ (s.pending /\ o # s.dialer)
  BY <1>1, <1>2, <1>5
<1>8. Sound(s)
  BY <1>6, <1>7 DEF Sound
<1>9. Sound(t)
  BY <1>3, <1>4, <1>6, <1>7 DEF Sound
<1>10. QED BY <1>8, <1>9 DEF t

LEMMA ArrivalNothingFailed ==
    ASSUME TalkInv, IInv', UNCHANGED <<transport, retry, failures>>,
           NEW c \in Slot, NEW n \in Node, NEW s, Arrives(c, n, s),
           Declines(c, n, s) \/ Enters(c, n, s)
    PROVE  NothingFailed'
<1> SUFFICES ASSUME failures = 0 PROVE NothingFailed'
  BY DEF NothingFailed
<1> DEFINE r == conn[c]
           o == Other(n)
           t == StateSent(s, n)
<1>0. /\ IInv /\ \A d \in Slot : conn[d] \in Conn /\ (conn[d] = Unused \/ Sound(conn[d]))
      /\ table \in [Node -> Slot \cup {None}] /\ conn \in Conns
      /\ \A m \in Node : table[m] # None => conn[table[m]].peer[m] = "alive"
      /\ transport = "internet" => \A d, e \in Slot : conn[d] # Unused /\ conn[e] # Unused => d = e
      /\ \A m \in Node : /\ retry[m] = None
                         /\ \A d \in Slot : conn[d].peer[m] = "alive" => table[m] # None
                         /\ table[Other(m)] # None =>
                                  \/ Has(conn[table[Other(m)]].inbox[m], "state")
                                  \/ knows[m] /\ table[m] # None
  BY DEF TalkInv, IInv, TypeOK, Speaking, Conns, NothingFailed
<1>1. o \in Node /\ o # n /\ Other(o) = n /\ (\A m \in Node : m = n \/ m = o)
  BY DEF Node, Other
<1>2. /\ s \in Conn /\ s.wire = r.wire /\ s.socket = r.socket /\ r # Unused
      /\ r.peer[n] = "none" /\ s.peer[n] = "alive" /\ s.peer[o] = r.peer[o]
      /\ s.inbox[o] = r.inbox[o]
      /\ Has(r.inbox[n], "state") => Has(s.inbox[n], "state")
  BY DEF Arrives
<1>3. Sound(r) /\ Sound(s) /\ Sound(t)
  BY <1>0, <1>2, ArrivedSound
<1>4. /\ t \in Conn /\ t.peer = s.peer /\ t.inbox[n] = s.inbox[n]
      /\ Has(t.inbox[o], "state")
      /\ t.inbox[o] = s.inbox[o] \/ t.inbox[o] = Append(s.inbox[o], "state")
  <2>1. /\ t \in Conn /\ t.peer = s.peer /\ t.inbox[n] = s.inbox[n]
        /\ s.wire /\ s.socket[n] = "open" /\ s.socket[o] # "closed" =>
               t.inbox[o] = Append(s.inbox[o], "state")
    BY <1>2, StateSentFields
  <2>2. s.inbox[o] \in Seq(Packets) /\ "state" \in Packets
    BY <1>1, <1>2, ConnFields DEF Packets
  <2>3. Has(Append(s.inbox[o], "state"), "state")
    BY <2>2, AppendHas
  <2>4. s.wire /\ s.socket[n] = "open" /\ s.socket[o] = "open"
    BY <1>1, <1>3 DEF Sound
  <2>5. QED BY <2>1, <2>3, <2>4
<1> HIDE DEF t, o
\* A first connection is entered: one that works is kept.
<1>5. Enters(c, n, s) => table[n] = None
  <2> SUFFICES ASSUME Enters(c, n, s), table[n] # None PROVE FALSE
    OBVIOUS
  <2> DEFINE e == table[n]
  <2>1. e \in Slot /\ conn[e].peer[n] = "alive" /\ e # c
    BY <1>0, <1>2
  <2>2. conn[e] # Unused
    BY <2>1 DEF Unused
  <2>3. Works(conn, e, n)
    BY <1>0, <2>1, <2>2 DEF Works, Sound
  <2>4. transport # "internet"
    BY <1>0, <1>2, <2>1, <2>2
  <2>5. QED BY <2>3, <2>4 DEF Enters
<1>6. /\ \A d \in Slot : d # c => conn'[d] = conn[d]
      /\ conn'[c] = s \/ conn'[c] = t
  <2>1. \A d \in Slot : d # c =>
             conn'[d] = conn[d] \/ (Enters(c, n, s) /\ d = table[n])
    BY <1>0, OthersWear
  <2>2. conn'[c] = s \/ conn'[c] = t
    BY <1>0 DEF Declines, Enters, Conns, t
  <2>3. QED BY <1>5, <2>1, <2>2, NoneIsNoSlot
<1>7. /\ conn'[c].peer = s.peer /\ Sound(conn'[c])
      /\ conn'[c].inbox[n] = s.inbox[n]
      /\ Has(s.inbox[o], "state") => Has(conn'[c].inbox[o], "state")
  BY <1>3, <1>4, <1>6
<1>8. \A d \in Slot : conn'[d] = Unused \/ Sound(conn'[d])
  BY <1>0, <1>6, <1>7
<1>9. transport = "internet" =>
          \A d, e \in Slot : conn'[d] # Unused /\ conn'[e] # Unused => d = e
  BY <1>0, <1>2, <1>6
<1>10. \A m \in Node : table[m] # None => table'[m] # None
  BY <1>0, NoneIsNoSlot DEF Declines, Enters
<1>11. table'[n] # None
  BY <1>0, NoneIsNoSlot DEF Declines, Enters
<1>12. ASSUME NEW m \in Node, NEW d \in Slot, conn'[d].peer[m] = "alive" PROVE table'[m] # None
  BY <1>0, <1>1, <1>2, <1>6, <1>7, <1>10, <1>11, <1>12
<1>13. \A d \in Slot : \A m \in Node : Has(conn[d].inbox[m], "state") => Has(conn'[d].inbox[m], "state")
  BY <1>1, <1>2, <1>6, <1>7
<1>14. ASSUME NEW m \in Node, table'[Other(m)] # None
       PROVE  Has(conn'[table'[Other(m)]].inbox[m], "state") \/ (knows'[m] /\ table'[m] # None)
  <2>1. CASE Declines(c, n, s)
    BY <1>0, <1>13, <1>14, <2>1, OtherType DEF Declines
  <2>2. CASE Enters(c, n, s)
    <3>1. table' = [table EXCEPT ![n] = c] /\ conn'[c] = t
      BY <2>2 DEF Enters, t
    <3>2. CASE m = o
      <4>1. table'[Other(m)] = c
        BY <1>0, <1>1, <3>1, <3>2
      <4>2. QED BY <1>4, <3>1, <3>2, <4>1
    <3>3. CASE m = n
      <4>1. table'[Other(m)] = table[o] /\ table[o] \in Slot /\ table[n] = None
        BY <1>0, <1>1, <1>5, <1>14, <2>2, <3>1, <3>3 DEF o
      <4>2. Has(conn[table[o]].inbox[n], "state")
        BY <1>0, <4>1, NoneIsNoSlot DEF o
      <4>3. QED BY <1>13, <3>3, <4>1, <4>2
    <3>4. QED BY <1>1, <3>2, <3>3
  <2>3. QED BY <2>1, <2>2
<1>15. QED
  <2>1. \A m \in Node : /\ retry'[m] = None
                        /\ \A d \in Slot : conn'[d].peer[m] = "alive" => table'[m] # None
                        /\ table'[Other(m)] # None =>
                               \/ Has(conn'[table'[Other(m)]].inbox[m], "state")
                               \/ knows'[m] /\ table'[m] # None
    BY <1>0, <1>12, <1>14
  <2>2. QED BY <1>8, <1>9, <2>1 DEF NothingFailed

-----------------------------------------------------------------------------
(* A connection is opened.                                                 *)

LEMMA UnusedOrderly == \A tr : Orderly(Unused, tr)
BY EmptyHas DEF Orderly, Unused, Node

\* The greetings on a connection that n opens the way of transport tr.
Greetings(n, tr) ==
    IF tr = "lan" THEN [m \in Node |-> IF m = n THEN <<>> ELSE <<"handshake">>]
    ELSE [m \in Node |-> <<"hello">>]

LEMMA OpenedRecord ==
    ASSUME NEW n \in Node, NEW tr \in {"lan", "internet"},
           tr = "internet" => transport = "internet"
    PROVE  LET s == Opened(n, Greetings(n, tr))
           IN  s \in Conn /\ s # Unused /\ Orderly(s, transport) /\ Sound(s)
<1> DEFINE g == Greetings(n, tr)
           s == Opened(n, g)
<1>1. g \in [Node -> Seq(Packets)]
  <2>1. <<>> \in Seq(Packets) /\ <<"handshake">> \in Seq(Packets) /\ <<"hello">> \in Seq(Packets)
    BY EmptySeq DEF Packets
  <2>2. QED BY <2>1 DEF Greetings
<1>2. s \in Conn
  <2> HIDE DEF g
  <2> QED BY <1>1, OpenedType
<1>3. /\ s.dialer = n /\ s.wire = TRUE /\ s.pending = FALSE /\ s.inbox = g
      /\ \A m \in Node : s.socket[m] = "open" /\ s.peer[m] = "none"
  <2> HIDE DEF g
  <2> QED BY <1>1 DEF Opened, Unused
<1>4. s # Unused
  BY <1>3 DEF Unused
<1>5. \A m \in Node : m = n \/ (m = Other(n) /\ Other(m) = n /\ m # n)
  BY DEF Node, Other
<1> HIDE DEF s
<1>6. CASE tr = "lan"
  <2>1. \A m \in Node : g[m] = IF m = n THEN <<>> ELSE <<"handshake">>
    BY <1>6 DEF Greetings
  <2>2. \A m \in Node : \A i \in 1..Len(g[m]) : i > 1 => g[m][i] = "state"
    BY <2>1
  <2>3. \A m \in Node : /\ Has(g[m], "handshake") <=> m # n
                        /\ ~ Has(g[m], "hello")
                        /\ m # n => ~ OnlyState(g[m])
    BY <2>1, EmptyHas, OneHas, OnlyStateHas
  <2>4. Orderly(s, transport)
    BY <1>3, <1>5, <2>1, <2>2, <2>3 DEF Orderly
  <2>5. Sound(s)
    BY <1>3, <1>5, <2>3 DEF Sound, Node, Other
  <2>6. QED BY <1>2, <1>4, <2>4, <2>5 DEF s
<1>7. CASE tr # "lan"
  <2>1. \A m \in Node : g[m] = <<"hello">>
    BY <1>7 DEF Greetings
  <2>2. \A m \in Node : \A i \in 1..Len(g[m]) : i > 1 => g[m][i] = "state"
    BY <2>1
  <2>3. \A m \in Node : ~ Has(g[m], "handshake") /\ ~ OnlyState(g[m])
    BY <2>1, OneHas, OnlyStateHas
  <2>4. Sound(s)
    BY <1>3, <2>3 DEF Sound
  <2>5. transport = "internet"
    BY <1>7
  <2>6. Orderly(s, transport)
    BY <1>3, <2>2, <2>3, <2>5 DEF Orderly
  <2>7. QED BY <1>2, <1>4, <2>4, <2>6 DEF s
<1>8. QED BY <1>6, <1>7

\* A connection without a Peer at either end, in no table, is all that changes.
LEMMA QuietChange ==
    ASSUME TalkInv, UNCHANGED <<transport, table, knows, failures>>,
           NEW c \in Slot, NEW t \in Conn, conn' = [conn EXCEPT ![c] = t],
           Orderly(t, transport), \A m \in Node : table[m] # c /\ t.peer[m] = "none",
           failures = 0 =>
               /\ retry' = retry /\ Sound(t)
               /\ transport = "internet" => \A d \in Slot : d # c => conn[d] = Unused
    PROVE  Speaking' /\ NothingFailed'
<1>0. /\ \A d \in Slot : Orderly(conn[d], transport)
      /\ table \in [Node -> Slot \cup {None}]
      /\ conn'[c] = t /\ \A d \in Slot : d # c => conn'[d] = conn[d]
      /\ \A m \in Node : table[m] # None => conn[table[m]].peer[m] = "alive"
      /\ \A m \in Node : table[Other(m)] # None =>
             Listens(conn[table[Other(m)]], m, table[m] = table[Other(m)], knows[m])
  BY DEF TalkInv, IInv, TypeOK, Speaking
<1>1. \A m \in Node : table[m] # None => conn'[table[m]] = conn[table[m]]
  BY <1>0
<1>2. \A d \in Slot : Orderly(conn'[d], transport)
  BY <1>0
<1>3. \A m \in Node : table'[m] # None => conn'[table'[m]].peer[m] = "alive"
  BY <1>0, <1>1
<1>4. \A m \in Node : table'[Other(m)] # None =>
             Listens(conn'[table'[Other(m)]], m, table'[m] = table'[Other(m)], knows'[m])
  BY <1>0, <1>1, OtherType
<1>5. Speaking'
  BY <1>2, <1>3, <1>4 DEF Speaking
<1>6. ASSUME failures = 0 PROVE NothingFailed'
  <2>0. /\ retry' = retry /\ Sound(t)
        /\ transport = "internet" => \A d \in Slot : d # c => conn[d] = Unused
        /\ \A d \in Slot : conn[d] = Unused \/ Sound(conn[d])
        /\ \A m \in Node : /\ retry[m] = None
                           /\ \A d \in Slot : conn[d].peer[m] = "alive" => table[m] # None
                           /\ table[Other(m)] # None =>
                                  \/ Has(conn[table[Other(m)]].inbox[m], "state")
                                  \/ knows[m] /\ table[m] # None
    BY <1>6 DEF TalkInv, NothingFailed
  <2>1. \A d \in Slot : conn'[d] = Unused \/ Sound(conn'[d])
    BY <1>0, <2>0
  <2>2. transport = "internet" =>
            \A d, e \in Slot : conn'[d] # Unused /\ conn'[e] # Unused => d = e
    BY <1>0, <2>0
  <2>3. \A m \in Node : \A d \in Slot : conn'[d].peer[m] = "alive" => table[m] # None
    BY <1>0, <2>0
  <2>4. \A m \in Node : table[Other(m)] # None =>
            Has(conn'[table[Other(m)]].inbox[m], "state") \/ (knows[m] /\ table[m] # None)
    BY <1>1, <2>0, OtherType
  <2>5. QED BY <2>0, <2>1, <2>2, <2>3, <2>4 DEF NothingFailed
<1>7. QED BY <1>5, <1>6 DEF NothingFailed

\* A connection is opened in a free slot.
LEMMA OpeningTalk ==
    ASSUME TalkInv, UNCHANGED <<transport, table, knows, failures>>,
           NEW c \in Slot, NEW n \in Node, IsFree(c), NEW tr \in {"lan", "internet"},
           tr = "internet" => transport = "internet",
           conn' = [conn EXCEPT ![c] = Opened(n, Greetings(n, tr))],
           failures = 0 =>
               /\ retry' = retry
               /\ transport = "internet" => \A d \in Slot : conn[d] = Unused
    PROVE  Speaking' /\ NothingFailed'
<1> DEFINE t == Opened(n, Greetings(n, tr))
<1>1. t \in Conn /\ Orderly(t, transport) /\ Sound(t)
  BY OpenedRecord
<1>2. \A m \in Node : table[m] # c /\ t.peer[m] = "none"
  BY DEF IsFree, Opened, Unused
<1> HIDE DEF t
<1>3. conn' = [conn EXCEPT ![c] = t]
  BY DEF t
<1>4. QED BY <1>1, <1>2, <1>3, QuietChange

\* Nothing changes but who was found, or a timer after a failure.
LEMMA NothingSaid ==
    ASSUME TalkInv, UNCHANGED <<transport, conn, table, knows, failures>>,
           failures = 0 => retry' = retry
    PROVE  Speaking' /\ NothingFailed'
<1>1. Speaking'
  BY DEF TalkInv, Speaking
<1>2. NothingFailed'
  BY DEF TalkInv, NothingFailed
<1>3. QED BY <1>1, <1>2

LEMMA DiscoverTalk ==
    ASSUME TalkInv, NEW n \in Node, NEW c \in Slot, Discover(n, c)
    PROVE  Speaking' /\ NothingFailed'
<1>1. /\ transport = "lan" /\ IsFree(c)
      /\ UNCHANGED <<transport, table, knows, retry, failures>>
  BY DEF Discover, NextFree
<1>2. CASE table[n] = None
  <2>1. conn' = [conn EXCEPT ![c] = Opened(n, Greetings(n, "lan"))]
    BY <1>1, <1>2 DEF Discover, Dialled, Greetings
  <2>2. QED BY <1>1, <2>1, OpeningTalk
<1>3. CASE table[n] # None
  BY <1>1, <1>3, NothingSaid DEF Discover
<1>4. QED BY <1>2, <1>3

LEMMA RetryTickTalk ==
    ASSUME TalkInv, NEW n \in Node, NEW c \in Slot, RetryTick(n, c)
    PROVE  Speaking' /\ NothingFailed'
<1>1. /\ IsFree(c) /\ retry[n] # None
      /\ UNCHANGED <<transport, table, knows, failures>>
  BY DEF RetryTick, NextFree
<1>2. failures # 0
  BY <1>1 DEF TalkInv, NothingFailed
<1>3. CASE table[n] # None \/ retry[n] = Attempts
  BY <1>1, <1>2, <1>3, NothingSaid DEF RetryTick
<1>4. CASE ~ (table[n] # None \/ retry[n] = Attempts)
  <2>1. conn' = [conn EXCEPT ![c] = Opened(n, Greetings(n, "lan"))]
    BY <1>4 DEF RetryTick, Dialled, Greetings
  <2>2. QED BY <1>1, <1>2, <2>1, OpeningTalk
<1>5. QED BY <1>3, <1>4

LEMMA SwarmConnectsTalk ==
    ASSUME TalkInv, NEW c \in Slot, SwarmConnects(c)
    PROVE  Speaking' /\ NothingFailed'
<1>1. /\ transport = "internet" /\ IsFree(c) /\ 1 \in Node
      /\ UNCHANGED <<transport, table, knows, retry, failures>>
      /\ \A d \in Slot : conn[d].wire => \E n \in Node : conn[d].socket[n] # "open"
  BY DEF SwarmConnects, NextFree, Node
<1>2. conn' = [conn EXCEPT ![c] = Opened(1, Greetings(1, "internet"))]
  BY <1>1 DEF SwarmConnects, Greetings
<1>3. failures = 0 => \A d \in Slot : conn[d] = Unused
  BY <1>1 DEF TalkInv, NothingFailed, Sound
<1>4. QED BY <1>1, <1>2, <1>3, OpeningTalk

LEMMA HandshakeTalk ==
    ASSUME TalkInv, NEW c \in Slot, NEW n \in Node, HandleHandshake(c, n)
    PROVE  Speaking' /\ NothingFailed'
<1> DEFINE r == conn[c]
           o == Other(n)
           q == r.inbox[n]
           u == [[r EXCEPT !.inbox[n] = Tail(@)] EXCEPT !.pending = TRUE]
           sends == r.socket[n] = "open" /\ r.wire /\ r.socket[o] # "closed"
           t == IF sends THEN [u EXCEPT !.inbox[o] = Append(@, "ack")] ELSE u
<1>0. /\ r \in Conn /\ Orderly(r, transport) /\ conn \in Conns
      /\ \A m \in Node : table[m] # None => conn[table[m]].peer[m] = "alive"
      /\ q # <<>> /\ Head(q) = "handshake"
      /\ UNCHANGED <<transport, table, count, knows, retry, found, failures>>
      /\ conn' = Sent([conn EXCEPT ![c].inbox[n] = Tail(@), ![c].pending = TRUE], c, n, "ack")
  BY DEF TalkInv, IInv, TypeOK, Speaking, Conns, HandleHandshake
<1>1. /\ o \in Node /\ o # n /\ Other(o) = n /\ (\A m \in Node : m = n \/ m = o)
      /\ q \in Seq(Packets) /\ r.dialer \in Node
  BY <1>0, ConnFields
<1>2. \A i \in 1..Len(q) : i > 1 => q[i] = "state"
  BY <1>0 DEF Orderly
<1>3. Tail(q) \in Seq(Packets) /\ OnlyState(Tail(q)) /\ Has(q, "handshake")
  <2> HIDE DEF q
  <2> QED BY <1>0, <1>1, <1>2, TailHas
<1>4. ~ OnlyState(q)
  BY <1>3, OnlyStateHas
<1>5. /\ n # r.dialer /\ ~ r.pending /\ r.peer[n] = "none"
      /\ r.peer[o] = "none" /\ r.inbox[o] = <<>>
  BY <1>0, <1>1, <1>3, <1>4 DEF Orderly
<1>6. /\ u \in Conn /\ u.dialer = r.dialer /\ u.wire = r.wire /\ u.socket = r.socket
      /\ u.peer = r.peer /\ u.pending = TRUE
      /\ u.inbox[n] = Tail(q) /\ u.inbox[o] = <<>>
  BY <1>0, <1>1, <1>3, <1>5 DEF Conn
<1> HIDE DEF q, u, o
<1>7. Append(<<>>, "ack") = <<"ack">> /\ <<"ack">> \in Seq(Packets)
  BY DEF Packets
<1>8. /\ t \in Conn /\ t.dialer = r.dialer /\ t.wire = r.wire /\ t.socket = r.socket
      /\ t.peer = r.peer /\ t.pending = TRUE /\ t.inbox[n] = Tail(q)
      /\ t.inbox[o] = IF sends THEN <<"ack">> ELSE <<>>
  <2> HIDE DEF sends
  <2> QED BY <1>1, <1>6, <1>7 DEF Conn
<1>9. conn' = [conn EXCEPT ![c] = t]
  <2> DEFINE cs == [conn EXCEPT ![c].inbox[n] = Tail(@), ![c].pending = TRUE]
  <2>1. cs = [conn EXCEPT ![c] = u]
    BY <1>0 DEF Conns, Conn, u
  <2>2. conn' = Sent(cs, c, n, "ack")
    BY <1>0
  <2> HIDE DEF cs
  <2>3. cs[c] = u /\ cs \in Conns
    BY <1>0, <1>6, <2>1 DEF Conns
  <2>4. conn' = IF sends THEN [cs EXCEPT ![c].inbox[o] = Append(@, "ack")] ELSE cs
    BY <1>6, <2>2, <2>3 DEF Sent, o
  <2>5. QED BY <1>0, <2>1, <2>3, <2>4 DEF Conns
<1> HIDE DEF t
<1>10. /\ \A y : ~ (Has(t.inbox[n], y) /\ y # "state")
       /\ \A y : Has(t.inbox[o], y) => y = "ack"
       /\ \A i \in 1..Len(t.inbox[o]) : i > 1 => t.inbox[o][i] = "state"
  <2>1. \A y : ~ (Has(t.inbox[n], y) /\ y # "state")
    BY <1>3, <1>8, OnlyStateHas
  <2>2. \A y : Has(t.inbox[o], y) => y = "ack"
    BY <1>8, OneHas, EmptyHas
  <2>3. \A i \in 1..Len(t.inbox[o]) : i > 1 => t.inbox[o][i] = "state"
    BY <1>8
  <2>4. QED BY <2>1, <2>2, <2>3
<1>11. Orderly(t, transport)
  <2>1. \A i \in 1..Len(t.inbox[n]) : i > 1 => t.inbox[n][i] = "state"
    BY <1>3, <1>8 DEF OnlyState
  <2>2. \A m \in Node : t.peer[m] = "none"
    BY <1>1, <1>5, <1>8
  <2>3. \A m \in Node : m # t.dialer => m = n
    BY <1>1, <1>5, <1>8
  <2>4. \A m \in Node : ~ Has(t.inbox[m], "handshake") /\ ~ Has(t.inbox[m], "hello")
    BY <1>1, <1>10
  <2>5. \A m \in Node : \A i \in 1..Len(t.inbox[m]) : i > 1 => t.inbox[m][i] = "state"
    BY <1>1, <1>10, <2>1
  <2>6. OnlyState(t.inbox[n])
    BY <1>3, <1>8
  <2>7. QED BY <2>2, <2>3, <2>4, <2>5, <2>6 DEF Orderly
<1>12. \A m \in Node : table[m] # c /\ t.peer[m] = "none"
  BY <1>0, <1>1, <1>5, <1>8, NoneIsNoSlot
<1>13. r # Unused
  <2>1. Unused.inbox[n] = <<>>
    BY DEF Unused
  <2>2. QED BY <1>0, <2>1 DEF q
<1>14. ASSUME failures = 0
       PROVE  /\ Sound(t)
              /\ transport = "internet" => \A d \in Slot : d # c => conn[d] = Unused
  <2>1. /\ Sound(r)
        /\ transport = "internet" => \A d \in Slot : d # c => conn[d] = Unused
    BY <1>13, <1>14 DEF TalkInv, NothingFailed
  <2>2. sends /\ t.wire /\ \A m \in Node : t.socket[m] = "open"
    BY <1>1, <1>8, <2>1 DEF Sound
  <2>3. ~ OnlyState(t.inbox[o])
    <3>1. t.inbox[o] = <<"ack">> /\ Has(<<"ack">>, "ack")
      BY <1>8, <2>2, OneHas
    <3>2. ~ OnlyState(<<"ack">>)
      BY <3>1, OnlyStateHas
    <3>3. QED BY <3>1, <3>2
  <2>4. \A m \in Node : t.peer[m] = "none"
    BY <1>12
  <2>5. Sound(t)
    BY <1>1, <1>5, <1>8, <2>2, <2>3, <2>4 DEF Sound
  <2>6. QED BY <2>1, <2>5
<1>15. QED
  BY <1>0, <1>8, <1>9, <1>11, <1>12, <1>14, QuietChange

-----------------------------------------------------------------------------
(* The other player's state is handled.                                    *)

LEMMA StateTalk ==
    ASSUME TalkInv, NEW c \in Slot, NEW n \in Node, HandleState(c, n)
    PROVE  Speaking' /\ NothingFailed'
<1> DEFINE r == conn[c]
           o == Other(n)
           q == r.inbox[n]
           t == [r EXCEPT !.inbox[n] = Tail(@)]
<1>0. /\ r \in Conn /\ Orderly(r, transport) /\ conn \in Conns
      /\ table \in [Node -> Slot \cup {None}] /\ knows \in [Node -> BOOLEAN]
      /\ \A d \in Slot : Orderly(conn[d], transport)
      /\ \A m \in Node : table[m] # None => conn[table[m]].peer[m] = "alive"
      /\ \A m \in Node : table[Other(m)] # None =>
             Listens(conn[table[Other(m)]], m, table[m] = table[Other(m)], knows[m])
      /\ r.peer[n] # "none" /\ q # <<>>
      /\ UNCHANGED <<transport, table, retry, failures>>
      /\ conn' = [conn EXCEPT ![c] = t]
      /\ knows' = [knows EXCEPT ![n] = table[n] # None]
  BY DEF TalkInv, IInv, TypeOK, Speaking, Conns, HandleState
<1>1. /\ o \in Node /\ o # n /\ Other(o) = n /\ (\A m \in Node : m = n \/ m = o)
      /\ q \in Seq(Packets) /\ r.dialer \in Node
  BY <1>0, ConnFields
<1>2. OnlyState(q) /\ \A i \in 1..Len(q) : i > 1 => q[i] = "state"
  BY <1>0 DEF Orderly
<1>3. Tail(q) \in Seq(Packets) /\ OnlyState(Tail(q))
  <2> HIDE DEF q
  <2> QED BY <1>0, <1>1, <1>2, TailHas
<1>4. /\ t \in Conn /\ t.dialer = r.dialer /\ t.wire = r.wire /\ t.socket = r.socket
      /\ t.peer = r.peer /\ t.pending = r.pending
      /\ t.inbox[n] = Tail(q) /\ t.inbox[o] = r.inbox[o]
  BY <1>0, <1>1, <1>3 DEF Conn
<1> HIDE DEF q, t, o
<1>5. /\ conn'[c] = t /\ \A d \in Slot : d # c => conn'[d] = conn[d]
      /\ knows'[n] = (table[n] # None) /\ knows'[o] = knows[o]
  BY <1>0, <1>1 DEF Conns
<1>6. ~ Has(q, "handshake") /\ ~ Has(t.inbox[n], "handshake") /\ ~ Has(t.inbox[n], "hello")
  BY <1>2, <1>3, <1>4, OnlyStateHas
<1>7. Orderly(t, transport)
  <2>1. \A i \in 1..Len(t.inbox[n]) : i > 1 => t.inbox[n][i] = "state"
    BY <1>3, <1>4 DEF OnlyState
  <2>2. OnlyState(t.inbox[n]) /\ ~ (t.pending /\ n # t.dialer)
    BY <1>0, <1>3, <1>4 DEF Orderly
  <2>3. ~ Has(r.inbox[o], "handshake")
    BY <1>0, <1>1 DEF Orderly
  <2> DEFINE One(m) ==
          /\ t.peer[m] # "none" => OnlyState(t.inbox[m])
          /\ \A i \in 1..Len(t.inbox[m]) : i > 1 => t.inbox[m][i] = "state"
          /\ t.pending /\ m # t.dialer => t.peer[m] = "none" /\ OnlyState(t.inbox[m])
          /\ ~ Has(t.inbox[m], "handshake")
          /\ Has(t.inbox[m], "hello") => transport = "internet"
  <2>4. One(n)
    BY <1>6, <2>1, <2>2
  <2>5. One(o)
    <3>1. /\ r.peer[o] # "none" => OnlyState(r.inbox[o])
          /\ \A i \in 1..Len(r.inbox[o]) : i > 1 => r.inbox[o][i] = "state"
          /\ r.pending /\ o # r.dialer => r.peer[o] = "none" /\ OnlyState(r.inbox[o])
          /\ Has(r.inbox[o], "hello") => transport = "internet"
      BY <1>0, <1>1 DEF Orderly
    <3>2. QED BY <1>4, <2>3, <3>1
  <2>6. \A m \in Node : One(m)
    BY <1>1, <2>4, <2>5
  <2>7. QED BY <2>6 DEF Orderly
<1>8. Speaking'
  <2>1. \A d \in Slot : Orderly(conn'[d], transport)
    BY <1>0, <1>5, <1>7
  <2>2. \A d \in Slot : conn'[d].peer = conn[d].peer
    BY <1>4, <1>5
  <2>3. \A m \in Node : table'[m] # None => conn'[table'[m]].peer[m] = "alive"
    BY <1>0, <2>2
  <2>4. ASSUME NEW m \in Node, table'[Other(m)] # None
        PROVE  Listens(conn'[table'[Other(m)]], m, table'[m] = table'[Other(m)], knows'[m])
    <3> DEFINE e == table[Other(m)]
    <3>1. /\ e \in Slot /\ Other(m) \in Node /\ table' = table
          /\ Listens(conn[e], m, table[m] = e, knows[m])
      BY <1>0, <2>4, OtherType
    <3>2. /\ conn'[e].wire = conn[e].wire /\ conn'[e].socket = conn[e].socket
          /\ conn'[e].peer = conn[e].peer
      BY <1>4, <1>5, <3>1
    <3>3. CASE m = n
      <4>1. table[m] = e => knows'[m]
        BY <1>5, <2>4, <3>1, <3>3
      <4>2. conn'[e].peer[m] = "none" => conn'[e] = conn[e]
        BY <1>0, <1>4, <1>5, <3>1, <3>3
      <4>3. QED BY <3>1, <3>2, <4>1, <4>2 DEF Listens
    <3>4. CASE m = o
      <4>1. conn'[e].inbox[m] = conn[e].inbox[m] /\ knows'[m] = knows[m]
        BY <1>4, <1>5, <3>1, <3>4
      <4>2. QED BY <3>1, <3>2, <4>1 DEF Listens
    <3>5. QED BY <1>1, <3>3, <3>4
  <2>5. \A m \in Node : table'[Other(m)] # None =>
             Listens(conn'[table'[Other(m)]], m, table'[m] = table'[Other(m)], knows'[m])
    BY <2>4
  <2>6. QED BY <1>0, <2>1, <2>3, <2>5 DEF Speaking
<1>9. ASSUME failures = 0 PROVE NothingFailed'
  <2>0. /\ \A d \in Slot : conn[d] = Unused \/ Sound(conn[d])
        /\ transport = "internet" => \A d, e \in Slot : conn[d] # Unused /\ conn[e] # Unused => d = e
        /\ \A m \in Node : /\ retry[m] = None
                           /\ \A d \in Slot : conn[d].peer[m] = "alive" => table[m] # None
                           /\ table[Other(m)] # None =>
                                  \/ Has(conn[table[Other(m)]].inbox[m], "state")
                                  \/ knows[m] /\ table[m] # None
    BY <1>9 DEF TalkInv, NothingFailed
  <2>1. r # Unused
    BY <1>0, <1>1 DEF Unused
  <2>2. Sound(t)
    <3>1. Sound(r)
      BY <2>0, <2>1
    <3>2. r.peer[o] = "none" => ~ OnlyState(r.inbox[o]) \/ (r.pending /\ o # r.dialer)
      BY <1>1, <1>6, <3>1 DEF Sound, q
    <3>3. QED BY <1>0, <1>1, <1>4, <3>1, <3>2 DEF Sound
  <2>3. /\ \A d \in Slot : conn'[d] = Unused \/ Sound(conn'[d])
        /\ transport = "internet" =>
               \A d, e \in Slot : conn'[d] # Unused /\ conn'[e] # Unused => d = e
    BY <1>5, <2>0, <2>1, <2>2
  <2>4. \A m \in Node : \A d \in Slot : conn'[d].peer[m] = "alive" => table[m] # None
    BY <1>4, <1>5, <2>0
  <2>5. table[n] # None
    <3>1. r.peer[n] = "alive"
      BY <1>0, <2>0, <2>1 DEF Sound
    <3>2. QED BY <2>0, <3>1
  <2>6. ASSUME NEW m \in Node, table[Other(m)] # None
        PROVE  Has(conn'[table[Other(m)]].inbox[m], "state") \/ (knows'[m] /\ table[m] # None)
    <3>1. CASE m = n
      BY <1>5, <2>5, <3>1
    <3>2. CASE m = o
      <4>1. table[Other(m)] \in Slot
        BY <1>0, <2>6, OtherType
      <4>2. conn'[table[Other(m)]].inbox[m] = conn[table[Other(m)]].inbox[m]
        BY <1>4, <1>5, <3>2, <4>1
      <4>3. QED BY <1>5, <2>0, <2>6, <3>2, <4>2
    <3>3. QED BY <1>1, <3>1, <3>2
  <2>7. QED BY <1>0, <2>0, <2>3, <2>4, <2>6 DEF NothingFailed
<1>10. QED BY <1>0, <1>8, <1>9 DEF NothingFailed

-----------------------------------------------------------------------------
(* A connection ends.                                                      *)

\* Connection s becomes t: it has lost an end, its wire, or packets.
Loses(s, t) ==
    /\ t.dialer = s.dialer /\ t.pending = s.pending
    /\ \A m \in Node : /\ t.inbox[m] = s.inbox[m] \/ t.inbox[m] = <<>>
                       /\ t.peer[m] = "none" <=> s.peer[m] = "none"
    /\ t.wire /\ t.socket[1] = "open" /\ t.socket[2] = "open" =>
           /\ s.wire /\ s.socket[1] = "open" /\ s.socket[2] = "open"
           /\ t.inbox = s.inbox

LEMMA LossSpeaking ==
    ASSUME TalkInv, IInv', transport' = transport,
           \A d \in Slot : \/ conn'[d] = Unused
                           \/ Loses(conn[d], conn'[d]),
           \A m \in Node :
               \/ table'[m] = None
               \/ /\ table'[m] = table[m] /\ knows'[m] = knows[m]
                  /\ table[m] # None => conn'[table[m]].peer[m] = conn[table[m]].peer[m]
    PROVE  Speaking'
<1>0. /\ \A d \in Slot : conn[d] \in Conn /\ conn'[d] \in Conn /\ Orderly(conn[d], transport)
      /\ table \in [Node -> Slot \cup {None}]
      /\ \A m \in Node : table[m] # None => conn[table[m]].peer[m] = "alive"
      /\ \A m \in Node : table[Other(m)] # None =>
             Listens(conn[table[Other(m)]], m, table[m] = table[Other(m)], knows[m])
  BY DEF TalkInv, IInv, TypeOK, Speaking
<1>1. \A d \in Slot : Orderly(conn'[d], transport)
  <2> SUFFICES ASSUME NEW d \in Slot PROVE Orderly(conn'[d], transport)
    OBVIOUS
  <2>1. CASE conn'[d] = Unused
    BY <2>1, UnusedOrderly
  <2>2. CASE Loses(conn[d], conn'[d])
    BY <1>0, <2>2, WornOrderly DEF Loses
  <2>3. QED BY <2>1, <2>2
<1>2. \A m \in Node : table'[m] # None => conn'[table'[m]].peer[m] = "alive"
  BY <1>0
<1>3. ASSUME NEW m \in Node, table'[Other(m)] # None
      PROVE  Listens(conn'[table'[Other(m)]], m, table'[m] = table'[Other(m)], knows'[m])
  <2> DEFINE e == table[Other(m)]
             s == conn[e]
             t == conn'[e]
  <2>1. /\ Other(m) \in Node /\ table'[Other(m)] = e /\ e \in Slot
        /\ t.peer[Other(m)] = "alive" /\ Listens(s, m, table[m] = e, knows[m])
    BY <1>0, <1>2, <1>3, OtherType
  <2>2. t # Unused
    BY <2>1 DEF Unused
  <2>3. Loses(s, t)
    BY <2>1, <2>2
  <2>4. table'[m] = e => table[m] = e /\ knows'[m] = knows[m]
    BY <2>1, NoneIsNoSlot
  <2> HIDE DEF s, t, e
  <2>5. QED BY <2>1, <2>3, <2>4 DEF Listens, Loses, t
<1>4. QED BY <1>1, <1>2, <1>3 DEF Speaking

LEMMA ClosedLoses ==
    ASSUME conn \in Conns, NEW c \in Slot, NEW n \in Node, conn' = Closed(conn, c, n)
    PROVE  \A d \in Slot : conn'[d].peer = conn[d].peer /\ Loses(conn[d], conn'[d])
<1>1. conn' = IF conn[c].socket[n] = "open"
              THEN [conn EXCEPT ![c] = ClosedEnd(conn[c], n)] ELSE conn
  BY DEF Closed, ClosedEnd
<1>2. \A d \in Slot : conn'[d] = conn[d] \/ conn'[d] = ClosedEnd(conn[d], n)
  BY <1>1 DEF Conns
<1>3. \A d \in Slot : LET s == conn[d]
                          t == ClosedEnd(conn[d], n)
                      IN  /\ t.dialer = s.dialer /\ t.wire = s.wire
                          /\ t.peer = s.peer /\ t.pending = s.pending /\ t.inbox = s.inbox
                          /\ \A m \in Node : t.socket[m] = "open" => s.socket[m] = "open"
  BY ClosedEndFields DEF Conns
<1>4. \A d \in Slot : /\ conn'[d].dialer = conn[d].dialer /\ conn'[d].wire = conn[d].wire
                      /\ conn'[d].peer = conn[d].peer /\ conn'[d].pending = conn[d].pending
                      /\ conn'[d].inbox = conn[d].inbox
                      /\ \A m \in Node : conn'[d].socket[m] = "open" => conn[d].socket[m] = "open"
  BY <1>2, <1>3
<1>5. QED BY <1>4 DEF Loses, Node

\* A timeout, or the end of the socket: not before a connection failed.
LEMMA CutShortTalk ==
    ASSUME TalkInv, IInv', NEW c \in Slot, NEW n \in Node,
           HandshakeTimesOut(c, n) \/ SocketEnds(c, n)
    PROVE  Speaking' /\ NothingFailed'
<1>1. /\ conn[c].socket[n] = "open" /\ conn \in Conns /\ conn' = Closed(conn, c, n)
      /\ ~ conn[c].wire \/ conn[c].socket[Other(n)] # "open"
      /\ UNCHANGED <<transport, table, knows, failures>>
  BY DEF HandshakeTimesOut, SocketEnds, TalkInv, IInv, TypeOK, Conns
<1>2. \A d \in Slot : conn'[d].peer = conn[d].peer /\ Loses(conn[d], conn'[d])
  BY <1>1, ClosedLoses
<1>3. \A m \in Node : table[m] # None => conn'[table[m]].peer[m] = conn[table[m]].peer[m]
  BY <1>2 DEF TalkInv, IInv, TypeOK
<1>4. Speaking'
  BY <1>1, <1>2, <1>3, LossSpeaking
<1>5. failures # 0
  BY <1>1, OtherType DEF TalkInv, NothingFailed, Sound, Unused
<1>6. QED BY <1>1, <1>4, <1>5 DEF NothingFailed

LEMMA CloseEventTalk ==
    ASSUME TalkInv, IInv', NEW c \in Slot, NEW n \in Node, CloseEvent(c, n)
    PROVE  Speaking' /\ NothingFailed'
<1> DEFINE r == conn[c]
           o == Other(n)
           e == Ended(r, n)
<1>1. /\ r.socket[n] = "closing" /\ conn \in Conns /\ r \in Conn
      /\ table \in [Node -> Slot \cup {None}] /\ knows \in [Node -> BOOLEAN]
      /\ \A m \in Node : table[m] # None => conn[table[m]].peer[m] = "alive"
      /\ UNCHANGED <<transport, failures>>
      /\ conn' = [conn EXCEPT ![c] =
             IF /\ r.socket[o] = "closed" /\ ~ r.pending /\ table[o] # c
             THEN Unused ELSE e]
      /\ \/ r.peer[n] = "alive" /\ HandlePeerDisconnect(c, n)
         \/ r.peer[n] # "alive" /\ UNCHANGED <<table, knows>>
  BY DEF CloseEvent, Disconnected, TalkInv, IInv, TypeOK, Conns, Speaking
<1>2. /\ o \in Node /\ o # n /\ Other(o) = n /\ (\A m \in Node : m = n \/ m = o)
  BY <1>1, ConnFields
<1>3. /\ e.dialer = r.dialer /\ e.pending = r.pending /\ e.inbox[n] = <<>>
      /\ e.inbox[o] = r.inbox[o] /\ e.peer[o] = r.peer[o] /\ e.socket[n] = "closed"
      /\ e.peer[n] = "none" <=> r.peer[n] = "none"
  BY <1>1, <1>2 DEF Ended, Conn
<1> HIDE DEF e, o
<1>4. Loses(r, e)
  <2>1. n = 1 \/ n = 2
    BY DEF Node
  <2>2. QED BY <1>2, <1>3, <2>1 DEF Loses
<1>5. \A d \in Slot : \/ conn'[d] = Unused
                      \/ Loses(conn[d], conn'[d])
  <2>1. \A d \in Slot : conn'[d] = Unused \/ conn'[d] = conn[d] \/ (d = c /\ conn'[d] = e)
    BY <1>1 DEF Conns
  <2>2. \A d \in Slot : Loses(conn[d], conn[d])
    BY DEF Loses
  <2>3. QED BY <1>4, <2>1, <2>2
<1>6. \/ /\ table[n] = c /\ table' = [table EXCEPT ![n] = None]
         /\ knows' = [knows EXCEPT ![n] = FALSE]
      \/ table[n] # c /\ table' = table /\ knows' = knows
  BY <1>1, NoneIsNoSlot DEF HandlePeerDisconnect
<1>7. ASSUME NEW m \in Node, table'[m] # None
      PROVE  /\ table'[m] = table[m] /\ knows'[m] = knows[m]
             /\ conn'[table[m]].peer[m] = conn[table[m]].peer[m]
  <2>1. table'[m] = table[m] /\ knows'[m] = knows[m] /\ table[m] \in Slot
    BY <1>1, <1>6, <1>7
  <2>2. CASE table[m] = c
    <3>1. m = o
      BY <1>1, <1>2, <1>6, <1>7, <2>2
    <3>2. conn'[c] = e
      BY <1>1, <2>2, <3>1 DEF Conns
    <3>3. QED BY <1>3, <2>1, <2>2, <3>1, <3>2
  <2>3. CASE table[m] # c
    BY <1>1, <2>1, <2>3 DEF Conns
  <2>4. QED BY <2>1, <2>2, <2>3
<1>8. Speaking'
  <2>1. \A m \in Node :
            \/ table'[m] = None
            \/ /\ table'[m] = table[m] /\ knows'[m] = knows[m]
               /\ table[m] # None => conn'[table[m]].peer[m] = conn[table[m]].peer[m]
    BY <1>7
  <2>2. QED BY <1>1, <1>5, <2>1, LossSpeaking
<1>9. failures # 0
  BY <1>1 DEF TalkInv, NothingFailed, Sound, Unused
<1>10. QED BY <1>1, <1>8, <1>9 DEF NothingFailed

\* A player that is not heard from: not before a connection failed.
LEMMA RemoveGhostTalk ==
    ASSUME TalkInv, IInv', NEW c \in Slot, NEW n \in Node, RemoveGhost(n, c)
    PROVE  Speaking' /\ NothingFailed'
<1> DEFINE r == conn[c]
           o == Other(n)
           dead == [r EXCEPT !.peer[n] = "dead"]
           t == ClosedEnd(dead, n)
<1>1. /\ r.peer[n] = "alive" /\ table[n] = c /\ conn \in Conns /\ r \in Conn
      /\ table \in [Node -> Slot \cup {None}] /\ knows \in [Node -> BOOLEAN]
      /\ ~ Hears(n) /\ Still
      /\ UNCHANGED <<transport, failures>>
      /\ conn' = Closed([conn EXCEPT ![c].peer[n] = "dead"], c, n)
      /\ table' = [table EXCEPT ![n] = None] /\ knows' = [knows EXCEPT ![n] = FALSE]
  BY DEF RemoveGhost, Disconnected, HandlePeerDisconnect, TalkInv, IInv, TypeOK, Conns
<1>2. /\ o \in Node /\ o # n /\ Other(o) = n /\ (\A m \in Node : m = n \/ m = o)
  BY <1>1, ConnFields
<1>3. /\ dead \in Conn /\ dead.dialer = r.dialer /\ dead.wire = r.wire
      /\ dead.socket = r.socket /\ dead.pending = r.pending /\ dead.inbox = r.inbox
      /\ dead.peer[n] = "dead" /\ dead.peer[o] = r.peer[o]
  BY <1>1, <1>2 DEF Conn
<1> HIDE DEF dead, o
<1>4. /\ t.dialer = r.dialer /\ t.wire = r.wire /\ t.pending = r.pending /\ t.inbox = r.inbox
      /\ t.peer = dead.peer
      /\ \A m \in Node : t.socket[m] = "open" => r.socket[m] = "open"
  BY <1>3, ClosedEndFields
<1>5. conn'[c] = t /\ \A d \in Slot : d # c => conn'[d] = conn[d]
  <2> DEFINE cs == [conn EXCEPT ![c].peer[n] = "dead"]
  <2>1. cs = [conn EXCEPT ![c] = dead] /\ cs[c] = dead /\ cs \in Conns
    BY <1>1, <1>3 DEF Conns, dead
  <2>2. conn' = Closed(cs, c, n)
    BY <1>1
  <2> HIDE DEF cs
  <2>3. conn' = IF dead.socket[n] = "open" THEN [cs EXCEPT ![c] = t] ELSE cs
    <3>1. dead.socket[n] = "open" => t = [dead EXCEPT !.socket[n] = "closing"]
      BY DEF ClosedEnd
    <3>2. conn' = IF dead.socket[n] = "open" THEN [cs EXCEPT ![c].socket[n] = "closing"] ELSE cs
      BY <2>1, <2>2 DEF Closed
    <3> HIDE DEF t
    <3>3. QED BY <2>1, <3>1, <3>2 DEF Conns
  <2>4. dead.socket[n] # "open" => t = dead
    BY DEF ClosedEnd
  <2> HIDE DEF t
  <2>5. QED BY <1>1, <2>1, <2>3, <2>4 DEF Conns
<1> HIDE DEF t
<1>6. Loses(r, t)
  <2>1. \A m \in Node : t.peer[m] = "none" <=> r.peer[m] = "none"
    BY <1>1, <1>2, <1>3, <1>4
  <2>2. QED BY <1>4, <2>1 DEF Loses, Node
<1>7. \A d \in Slot : conn'[d] = Unused \/ Loses(conn[d], conn'[d])
  <2>1. \A d \in Slot : Loses(conn[d], conn[d])
    BY DEF Loses
  <2>2. QED BY <1>5, <1>6, <2>1
<1>8. \A m \in Node :
          \/ table'[m] = None
          \/ /\ table'[m] = table[m] /\ knows'[m] = knows[m]
             /\ table[m] # None => conn'[table[m]].peer[m] = conn[table[m]].peer[m]
  <2>1. table'[n] = None /\ table'[o] = table[o] /\ knows'[o] = knows[o]
    BY <1>1, <1>2
  <2>2. table[o] # None => conn'[table[o]].peer[o] = conn[table[o]].peer[o]
    <3>1. CASE table[o] = c
      BY <1>3, <1>4, <1>5, <3>1
    <3>2. CASE table[o] # c
      BY <1>1, <1>2, <1>5, <3>2
    <3>3. QED BY <3>1, <3>2
  <2>3. QED BY <1>2, <2>1, <2>2
<1>9. Speaking'
  BY <1>1, <1>7, <1>8, LossSpeaking
<1>10. failures # 0
  <2> SUFFICES ASSUME failures = 0 PROVE FALSE
    OBVIOUS
  <2>0. /\ \A d \in Slot : conn[d] = Unused \/ Sound(conn[d])
        /\ \A m \in Node : \A d \in Slot : conn[d].peer[m] = "alive" => table[m] # None
        /\ \A m \in Node : table[m] # None => conn[table[m]].peer[m] = "alive"
    BY DEF TalkInv, NothingFailed, Speaking
  \* A connection in use has two Peers, once everything is handled.
  <2>1. ASSUME NEW d \in Slot, NEW m \in Node, conn[d].peer[m] = "alive"
        PROVE  /\ conn[d].wire
               /\ \A k \in Node : conn[d].peer[k] = "alive" /\ conn[d].socket[k] = "open"
    <3>1. conn[d] # Unused
      BY <2>1 DEF Unused
    <3>2. Sound(conn[d])
      BY <2>0, <3>1
    <3>3. \A k \in Node : conn[d].inbox[k] = <<>> /\ ~ conn[d].pending
      BY <1>1 DEF Still
    <3>4. \A k \in Node : conn[d].inbox[Other(k)] = <<>>
      BY <3>3, OtherType
    <3>5. QED BY <3>2, <3>3, <3>4, EmptyHas DEF Sound
  <2>2. r.peer[o] = "alive"
    BY <1>1, <1>2, <2>1
  <2>3. table[o] \in Slot
    BY <1>1, <1>2, <2>0, <2>2
  <2>4. conn[table[o]].peer[o] = "alive"
    BY <1>2, <2>0, <2>3, NoneIsNoSlot
  <2>5. /\ conn[table[o]].wire
        /\ \A k \in Node : conn[table[o]].peer[k] = "alive" /\ conn[table[o]].socket[k] = "open"
    BY <1>2, <2>1, <2>3, <2>4
  <2>6. Hears(n)
    BY <1>2, <2>3, <2>5, NoneIsNoSlot DEF Hears, o
  <2>7. QED BY <1>1, <2>6
<1>11. QED BY <1>1, <1>9, <1>10 DEF NothingFailed

LEMMA WireFailsTalk ==
    ASSUME TalkInv, IInv', NEW c \in Slot, WireFails(c)
    PROVE  Speaking' /\ NothingFailed'
<1> DEFINE t == [[conn[c] EXCEPT !.wire = FALSE] EXCEPT !.inbox = [n \in Node |-> <<>>]]
<1>1. /\ conn \in Conns /\ failures \in Nat /\ failures' = failures + 1
      /\ UNCHANGED <<transport, table, knows>>
      /\ conn' = [conn EXCEPT ![c].wire = FALSE, ![c].inbox = [n \in Node |-> <<>>]]
  BY BoundAssumption DEF WireFails, TalkInv, IInv, TypeOK, Conns
<1>2. /\ t.dialer = conn[c].dialer /\ t.pending = conn[c].pending /\ t.peer = conn[c].peer
      /\ t.wire = FALSE /\ \A m \in Node : t.inbox[m] = <<>>
  BY <1>1 DEF Conns, Conn
<1>3. conn'[c] = t /\ \A d \in Slot : d # c => conn'[d] = conn[d]
  BY <1>1 DEF Conns, Conn
<1> HIDE DEF t
<1>4. \A d \in Slot : conn'[d].peer = conn[d].peer /\ Loses(conn[d], conn'[d])
  BY <1>2, <1>3 DEF Loses
<1>5. \A m \in Node : table[m] # None => conn'[table[m]].peer[m] = conn[table[m]].peer[m]
  BY <1>4 DEF TalkInv, IInv, TypeOK
<1>6. Speaking'
  BY <1>1, <1>4, <1>5, LossSpeaking
<1>7. failures' # 0
  BY <1>1
<1>8. QED BY <1>6, <1>7 DEF NothingFailed

-----------------------------------------------------------------------------
(* The invariant.                                                          *)

LEMMA InitTalk == Init => TalkInv
<1> SUFFICES ASSUME Init PROVE TalkInv
  OBVIOUS
<1>1. /\ \A c \in Slot : conn[c] = Unused
      /\ \A n \in Node : table[n] = None /\ retry[n] = None
  BY DEF Init
<1>2. Speaking
  BY <1>1, UnusedOrderly, OtherType DEF Speaking
<1>3. NothingFailed
  <2>1. \A n \in Node : table[Other(n)] = None
    BY <1>1, OtherType
  <2>2. \A n \in Node, c \in Slot : conn[c].peer[n] # "alive"
    BY <1>1 DEF Unused
  <2>3. QED BY <1>1, <2>1, <2>2 DEF NothingFailed
<1>4. QED BY <1>2, <1>3, InitInv DEF TalkInv

LEMMA NextTalk == TalkInv /\ [Next]_vars => TalkInv'
<1> SUFFICES ASSUME TalkInv, [Next]_vars PROVE TalkInv'
  OBVIOUS
<1>0. IInv'
  BY NextInv DEF TalkInv
<1>1. ASSUME NEW n \in Node, NEW c \in Slot, Discover(n, c) PROVE Speaking' /\ NothingFailed'
  BY <1>1, DiscoverTalk
<1>2. ASSUME NEW n \in Node, NEW c \in Slot, RetryTick(n, c) PROVE Speaking' /\ NothingFailed'
  BY <1>2, RetryTickTalk
<1>3. ASSUME NEW c \in Slot, SwarmConnects(c) PROVE Speaking' /\ NothingFailed'
  BY <1>3, SwarmConnectsTalk
<1>4. ASSUME NEW n \in Node, NEW c \in Slot, OnConnection(c, n)
      PROVE  Speaking' /\ NothingFailed'
  <2>1. CASE HandleHandshake(c, n)
    BY <2>1, HandshakeTalk
  <2>2. CASE AckIsSent(c, n) \/ HandleAck(c, n) \/ HandleHello(c, n)
    <3>1. PICK s : Arrives(c, n, s) /\ (Declines(c, n, s) \/ Enters(c, n, s))
      BY <2>2, AckIsSentArrives, HandleAckArrives, HandleHelloArrives
    <3>2. UNCHANGED <<transport, retry, failures>>
      BY <2>2 DEF AckIsSent, HandleAck, HandleHello
    <3>3. QED BY <1>0, <3>1, <3>2, ArrivalSpeaking, ArrivalNothingFailed
  <2>3. CASE HandleState(c, n)
    BY <2>3, StateTalk
  <2>4. CASE HandshakeTimesOut(c, n) \/ SocketEnds(c, n)
    BY <1>0, <2>4, CutShortTalk
  <2>5. CASE CloseEvent(c, n)
    BY <1>0, <2>5, CloseEventTalk
  <2>6. CASE RemoveGhost(n, c)
    BY <1>0, <2>6, RemoveGhostTalk
  <2>7. QED BY <1>4, <2>1, <2>2, <2>3, <2>4, <2>5, <2>6 DEF OnConnection
<1>5. ASSUME NEW c \in Slot, WireFails(c) PROVE Speaking' /\ NothingFailed'
  BY <1>0, <1>5, WireFailsTalk
<1>6. ASSUME UNCHANGED vars PROVE Speaking' /\ NothingFailed'
  BY <1>6, NothingSaid DEF vars
<1>7. Speaking' /\ NothingFailed'
  BY <1>1, <1>2, <1>3, <1>4, <1>5, <1>6 DEF Next
<1>8. QED BY <1>0, <1>7 DEF TalkInv

LEMMA TalkersHaveHeard == TalkInv => TalkersKnow
<1> SUFFICES ASSUME TalkInv, Talking, Still, failures = 0 \/ table[1] = table[2],
                    NEW n \in Node
             PROVE  knows[n]
  BY DEF TalkersKnow
<1> DEFINE o == Other(n)
           e == table[o]
<1>1. /\ o \in Node /\ Other(o) = n /\ e # None /\ e \in Slot
      /\ conn[e].wire /\ conn[e].socket[o] = "open" /\ conn[e].socket[n] = "open"
  BY DEF Talking, Works, TalkInv, IInv, TypeOK, Node, Other
<1>2. ~ Has(conn[e].inbox[n], "state")
  BY <1>1, EmptyHas DEF Still
<1>3. CASE failures = 0
  BY <1>1, <1>2, <1>3 DEF TalkInv, NothingFailed
<1>4. CASE table[1] = table[2]
  <2>1. table[n] = e
    BY <1>1, <1>4 DEF Node, Other
  <2>2. Listens(conn[e], n, table[n] = e, knows[n])
    BY <1>1 DEF TalkInv, Speaking
  <2>3. conn[e].socket[1] = "open" /\ conn[e].socket[2] = "open"
    BY <1>1 DEF Node, Other
  <2>4. QED BY <1>1, <1>2, <2>1, <2>2, <2>3 DEF Listens
<1>5. QED BY <1>3, <1>4

\* Two players that talk and have handled everything know each other's side and
\* settings, or game: no greeting, no second connection and no early packet makes
\* one of them miss what the other told it, unless a connection failed and they
\* were left with one each.
THEOREM TalkersKnowEachOther == Spec => []TalkersKnow
<1>1. Spec => []TalkInv
  BY InitTalk, NextTalk, PTL DEF Spec
<1>2. QED BY <1>1, TalkersHaveHeard, PTL

-----------------------------------------------------------------------------
(* Talk goes on.                                                           *)

BothOpen(s) == s.wire /\ \A n \in Node : s.socket[n] = "open"

\* Over the internet nobody dials; and a hello that can still be handled is on a
\* connection that works, of which the swarm keeps one.
Swarmed(s) ==
    /\ ~ s.pending
    /\ \A n \in Node :
        /\ ~ Has(s.inbox[n], "handshake") /\ ~ Has(s.inbox[n], "ack")
        /\ Has(s.inbox[n], "hello") /\ s.socket[n] = "open" => BothOpen(s)

OneWorks ==
    \A c, d \in Slot : BothOpen(conn[c]) /\ BothOpen(conn[d]) => c = d

SwarmInv ==
    transport = "internet" =>
        /\ \A c \in Slot : Swarmed(conn[c])
        /\ OneWorks
        /\ \A n \in Node : retry[n] = None

\* Connection s becomes t: it has lost an end or packets, no hello of a
\* connection that works among its ends.
Shrinks(s, t) ==
    /\ t.pending = s.pending
    /\ t.wire => s.wire
    /\ \A m \in Node : /\ t.inbox[m] = s.inbox[m] \/ t.inbox[m] = <<>>
                       /\ t.socket[m] = "open" => s.socket[m] = "open"
    /\ \/ ~ BothOpen(s)
       \/ \A m \in Node : t.inbox[m] = <<>>

LEMMA SwarmedUnused == Swarmed(Unused) /\ ~ BothOpen(Unused)
BY EmptyHas DEF Swarmed, BothOpen, Unused

LEMMA ShrunkSwarm ==
    ASSUME SwarmInv, transport' = transport, transport = "internet" => retry' = retry,
           \A d \in Slot : \/ conn'[d] = conn[d]
                           \/ conn'[d] = Unused
                           \/ Shrinks(conn[d], conn'[d])
    PROVE  SwarmInv'
<1> SUFFICES ASSUME transport = "internet"
             PROVE  (\A c \in Slot : Swarmed(conn'[c])) /\ OneWorks'
  BY DEF SwarmInv
<1>0. OneWorks /\ \A c \in Slot : Swarmed(conn[c])
  BY DEF SwarmInv
<1>1. ASSUME NEW d \in Slot
      PROVE  Swarmed(conn'[d]) /\ (BothOpen(conn'[d]) => BothOpen(conn[d]))
  <2>1. CASE conn'[d] = conn[d]
    BY <1>0, <2>1
  <2>2. CASE conn'[d] = Unused
    BY <2>2, SwarmedUnused
  <2>3. CASE Shrinks(conn[d], conn'[d])
    <3> DEFINE s == conn[d]
               t == conn'[d]
    <3>1. Swarmed(s) /\ Shrinks(s, t)
      BY <1>0, <2>3
    <3> HIDE DEF s, t
    <3>2. BothOpen(t) => BothOpen(s)
      BY <3>1 DEF BothOpen, Shrinks
    <3>3. Swarmed(t)
      BY <3>1, EmptyHas DEF Swarmed, Shrinks
    <3>4. QED BY <3>2, <3>3 DEF s, t
  <2>4. QED BY <2>1, <2>2, <2>3
<1>2. OneWorks'
  BY <1>0, <1>1 DEF OneWorks
<1>3. QED BY <1>1, <1>2

\* A handshake is not handled over the internet.
LEMMA NoHandshakes ==
    ASSUME TalkInv, SwarmInv, transport = "internet", NEW c \in Slot, NEW n \in Node
    PROVE  ~ HandleHandshake(c, n) /\ ~ HandleAck(c, n) /\ ~ AckIsSent(c, n)
<1> DEFINE q == conn[c].inbox[n]
<1>1. /\ q \in Seq(Packets) /\ \A i \in 1..Len(q) : i > 1 => q[i] = "state"
      /\ Swarmed(conn[c])
  BY ConnFields DEF TalkInv, IInv, TypeOK, Speaking, Orderly, SwarmInv
<1>2. q # <<>> => Has(q, Head(q))
  <2> HIDE DEF q
  <2> QED BY <1>1, TailHas
<1>3. QED BY <1>1, <1>2 DEF Swarmed, HandleHandshake, HandleAck, AckIsSent

LEMMA HelloWorks ==
    ASSUME TalkInv, SwarmInv, NEW c \in Slot, NEW n \in Node, HandleHello(c, n)
    PROVE  BothOpen(conn[c]) /\ transport = "internet"
<1> DEFINE q == conn[c].inbox[n]
<1>1. /\ q # <<>> /\ Head(q) = "hello" /\ conn[c].socket[n] = "open"
      /\ q \in Seq(Packets) /\ \A i \in 1..Len(q) : i > 1 => q[i] = "state"
  BY ConnFields DEF HandleHello, TalkInv, IInv, TypeOK, Speaking, Orderly
<1>2. Has(q, "hello")
  <2> HIDE DEF q
  <2> QED BY <1>1, TailHas
<1>3. transport = "internet"
  BY <1>1, GreetingArrives
<1>4. QED BY <1>1, <1>2, <1>3 DEF SwarmInv, Swarmed

\* The connections other than that of the hello.
LEMMA HelloSwarm ==
    ASSUME TalkInv, IInv', SwarmInv, NEW c \in Slot, NEW n \in Node, HandleHello(c, n)
    PROVE  SwarmInv'
<1>0. /\ BothOpen(conn[c]) /\ transport = "internet" /\ OneWorks
      /\ \A d \in Slot : Swarmed(conn[d]) /\ conn[d] \in Conn
      /\ \A m \in Node : retry[m] = None
      /\ UNCHANGED <<transport, retry>> /\ conn \in Conns
  BY HelloWorks DEF SwarmInv, HandleHello, TalkInv, IInv, TypeOK, Conns
<1>1. PICK s : Arrives(c, n, s) /\ (Declines(c, n, s) \/ Enters(c, n, s))
  BY HandleHelloArrives
<1> DEFINE r == conn[c]
           o == Other(n)
           t == StateSent(s, n)
<1>2. /\ s \in Conn /\ s.wire = r.wire /\ s.socket = r.socket
      /\ s.inbox[o] = r.inbox[o] /\ OnlyState(s.inbox[n])
      /\ s.pending => r.pending
  BY <1>1 DEF Arrives
<1>3. o \in Node /\ (\A m \in Node : m = n \/ m = o) /\ s.inbox[o] \in Seq(Packets)
  BY <1>2, ConnFields
<1>4. /\ t.wire = s.wire /\ t.socket = s.socket /\ t.pending = s.pending
      /\ t.inbox[n] = s.inbox[n]
      /\ t.inbox[o] = s.inbox[o] \/ t.inbox[o] = Append(s.inbox[o], "state")
  BY <1>2, StateSentFields
<1>5. \A y : Has(Append(s.inbox[o], "state"), y) => Has(s.inbox[o], y) \/ y = "state"
  <2>1. "state" \in Packets
    BY DEF Packets
  <2> HIDE DEF o
  <2>2. QED BY <1>3, <2>1, AppendHas
<1> HIDE DEF t, o
<1>6. /\ \A d \in Slot : d # c =>
             conn'[d] = conn[d] \/ (Enters(c, n, s) /\ d = table[n] /\ Worn(conn[d], conn'[d], n))
      /\ conn'[c] = s \/ conn'[c] = t
  <2>1. \A d \in Slot : d # c =>
             conn'[d] = conn[d] \/ (Enters(c, n, s) /\ d = table[n] /\ Worn(conn[d], conn'[d], n))
    BY <1>1, OthersWear DEF TalkInv
  <2>2. conn'[c] = s \/ conn'[c] = t
    BY <1>0, <1>1 DEF Declines, Enters, Conns, t
  <2>3. QED BY <2>1, <2>2
<1>7. BothOpen(s) /\ BothOpen(t)
  BY <1>0, <1>2, <1>4 DEF BothOpen
<1>8. Swarmed(s) /\ Swarmed(t)
  <2>1. \A y : Has(s.inbox[n], y) => y = "state"
    BY <1>2, OnlyStateHas
  <2>2. Swarmed(r)
    BY <1>0
  <2>3. Swarmed(s)
    BY <1>2, <1>3, <1>7, <2>1, <2>2 DEF Swarmed
  <2>4. \A m \in Node : \A y : Has(t.inbox[m], y) => Has(s.inbox[m], y) \/ y = "state"
    BY <1>3, <1>4, <1>5
  <2>5. Swarmed(t)
    BY <1>4, <1>7, <2>3, <2>4 DEF Swarmed
  <2>6. QED BY <2>3, <2>5
<1>9. ASSUME NEW d \in Slot, d # c
      PROVE  Swarmed(conn'[d]) /\ ~ BothOpen(conn'[d])
  <2>1. Swarmed(conn[d]) /\ ~ BothOpen(conn[d])
    BY <1>0, <1>9 DEF OneWorks
  <2>2. CASE conn'[d] = conn[d]
    BY <2>1, <2>2
  <2>3. CASE Worn(conn[d], conn'[d], n)
    BY <2>1, <2>3 DEF Worn, Swarmed, BothOpen
  <2>4. QED BY <1>6, <1>9, <2>2, <2>3
<1>10. \A d \in Slot : Swarmed(conn'[d])
  BY <1>6, <1>8, <1>9
<1>11. OneWorks'
  BY <1>9 DEF OneWorks
<1>12. QED BY <1>0, <1>10, <1>11 DEF SwarmInv

\* Both players are open on a connection that has been opened, or on none more.
LEMMA OpenedSwarm ==
    ASSUME TalkInv, SwarmInv, NEW c \in Slot, SwarmConnects(c)
    PROVE  SwarmInv'
<1> DEFINE t == Opened(1, Greetings(1, "internet"))
<1>1. /\ transport = "internet" /\ conn' = [conn EXCEPT ![c] = t] /\ conn \in Conns
      /\ UNCHANGED <<transport, retry>>
      /\ \A d \in Slot : ~ BothOpen(conn[d])
      /\ \A d \in Slot : Swarmed(conn[d])
      /\ \A n \in Node : retry[n] = None
  BY DEF SwarmConnects, Greetings, BothOpen, TalkInv, IInv, TypeOK, Conns, SwarmInv
<1>2. /\ BothOpen(t) /\ ~ t.pending /\ \A n \in Node : t.inbox[n] = <<"hello">>
  BY DEF Opened, Unused, Greetings, BothOpen
<1> HIDE DEF t
<1>3. Swarmed(t)
  BY <1>2, OneHas DEF Swarmed
<1>4. /\ conn'[c] = t /\ \A d \in Slot : d # c => conn'[d] = conn[d]
  BY <1>1 DEF Conns
<1>5. OneWorks'
  BY <1>1, <1>4 DEF OneWorks
<1>6. QED BY <1>1, <1>3, <1>4, <1>5 DEF SwarmInv

LEMMA StateSwarm ==
    ASSUME TalkInv, SwarmInv, NEW c \in Slot, NEW n \in Node, HandleState(c, n)
    PROVE  SwarmInv'
<1> SUFFICES ASSUME transport = "internet" PROVE SwarmInv'
  BY DEF SwarmInv, HandleState
<1> DEFINE r == conn[c]
           q == r.inbox[n]
           t == [r EXCEPT !.inbox[n] = Tail(@)]
<1>1. /\ conn' = [conn EXCEPT ![c] = t] /\ conn \in Conns /\ r \in Conn
      /\ UNCHANGED <<transport, retry>> /\ q # <<>>
      /\ \A d \in Slot : Swarmed(conn[d])
      /\ OneWorks /\ \A m \in Node : retry[m] = None
      /\ q \in Seq(Packets) /\ \A i \in 1..Len(q) : i > 1 => q[i] = "state"
  BY ConnFields
     DEF HandleState, TalkInv, IInv, TypeOK, Conns, Speaking, Orderly, SwarmInv
<1>2. OnlyState(Tail(q))
  <2> HIDE DEF q
  <2> QED BY <1>1, TailHas
<1>3. \A y : Has(Tail(q), y) => y = "state"
  BY <1>2, OnlyStateHas
<1>4. /\ t.wire = r.wire /\ t.socket = r.socket /\ t.pending = r.pending
      /\ t.inbox[n] = Tail(q) /\ \A m \in Node : m # n => t.inbox[m] = r.inbox[m]
  BY <1>1 DEF Conn
<1> HIDE DEF q, t
<1>5. BothOpen(t) <=> BothOpen(r)
  BY <1>4 DEF BothOpen
<1>6. Swarmed(t)
  BY <1>1, <1>3, <1>4, <1>5 DEF Swarmed
<1>7. /\ conn'[c] = t /\ \A d \in Slot : d # c => conn'[d] = conn[d]
  BY <1>1 DEF Conns
<1>8. OneWorks'
  BY <1>1, <1>5, <1>7 DEF OneWorks
<1>9. QED BY <1>1, <1>6, <1>7, <1>8 DEF SwarmInv

\* What the ends of a connection do to the others.
LEMMA ClosedShrinks ==
    ASSUME conn \in Conns, NEW c \in Slot, NEW n \in Node, conn' = Closed(conn, c, n),
           ~ BothOpen(conn[c])
    PROVE  \A d \in Slot : conn'[d] = conn[d] \/ (d = c /\ Shrinks(conn[d], conn'[d]))
<1>1. conn' = IF conn[c].socket[n] = "open"
              THEN [conn EXCEPT ![c] = ClosedEnd(conn[c], n)] ELSE conn
  BY DEF Closed, ClosedEnd
<1>2. \A d \in Slot : conn'[d] = conn[d] \/ (d = c /\ conn'[d] = ClosedEnd(conn[c], n))
  BY <1>1 DEF Conns
<1>3. Shrinks(conn[c], ClosedEnd(conn[c], n))
  BY ClosedEndFields DEF Conns, Shrinks
<1>4. QED BY <1>2, <1>3

LEMMA SwarmStep ==
    ASSUME TalkInv, IInv', SwarmInv, [Next]_vars
    PROVE  SwarmInv'
<1>0. conn \in Conns
  BY DEF TalkInv, IInv, TypeOK, Conns
<1>1. ASSUME NEW n \in Node, NEW c \in Slot, Discover(n, c) PROVE SwarmInv'
  BY <1>1 DEF Discover, SwarmInv
<1>2. ASSUME NEW n \in Node, NEW c \in Slot, RetryTick(n, c) PROVE SwarmInv'
  BY <1>2 DEF RetryTick, SwarmInv
<1>3. ASSUME NEW c \in Slot, SwarmConnects(c) PROVE SwarmInv'
  BY <1>3, OpenedSwarm
<1>4. ASSUME NEW n \in Node, NEW c \in Slot, OnConnection(c, n) PROVE SwarmInv'
  <2>1. CASE HandleHandshake(c, n) \/ HandleAck(c, n) \/ AckIsSent(c, n)
    <3>1. transport # "internet"
      BY <2>1, NoHandshakes
    <3>2. transport' = transport
      BY <2>1 DEF HandleHandshake, HandleAck, AckIsSent
    <3>3. QED BY <3>1, <3>2 DEF SwarmInv
  <2>2. CASE HandleHello(c, n)
    BY <2>2, HelloSwarm
  <2>3. CASE HandleState(c, n)
    BY <2>3, StateSwarm
  <2>4. CASE HandshakeTimesOut(c, n) \/ SocketEnds(c, n)
    <3>1. conn' = Closed(conn, c, n) /\ UNCHANGED <<transport, retry>> /\ ~ BothOpen(conn[c])
      BY <2>4, OtherType DEF HandshakeTimesOut, SocketEnds, BothOpen
    <3>2. QED BY <1>0, <3>1, ClosedShrinks, ShrunkSwarm
  <2>5. CASE CloseEvent(c, n)
    <3>1. /\ conn[c].socket[n] = "closing" /\ transport' = transport
          /\ transport = "internet" => retry' = retry
          /\ conn' = [conn EXCEPT ![c] = Unused] \/ conn' = [conn EXCEPT ![c] = Ended(conn[c], n)]
      BY <2>5 DEF CloseEvent, Disconnected, ScheduleReconnect
    <3>2. Shrinks(conn[c], Ended(conn[c], n))
      <4>1. conn[c] \in Conn
        BY <1>0 DEF Conns
      <4>2. LET s == conn[c]
                t == Ended(s, n)
            IN  /\ t.pending = s.pending /\ t.wire = s.wire
                /\ \A m \in Node : /\ t.inbox[m] = s.inbox[m] \/ t.inbox[m] = <<>>
                                   /\ t.socket[m] = "open" => s.socket[m] = "open"
        BY <4>1 DEF Ended, Conn
      <4>3. ~ BothOpen(conn[c])
        BY <3>1 DEF BothOpen
      <4>4. QED BY <4>2, <4>3 DEF Shrinks
    <3>3. \A d \in Slot : conn'[d] = conn[d] \/ conn'[d] = Unused \/ Shrinks(conn[d], conn'[d])
      BY <1>0, <3>1, <3>2 DEF Conns
    <3>4. QED BY <3>1, <3>3, ShrunkSwarm
  <2>6. CASE RemoveGhost(n, c)
    <3> DEFINE dead == [conn[c] EXCEPT !.peer[n] = "dead"]
               cs   == [conn EXCEPT ![c].peer[n] = "dead"]
    <3>1. /\ Still /\ transport' = transport
          /\ transport = "internet" => retry' = retry
          /\ conn' = Closed(cs, c, n)
      BY <2>6 DEF RemoveGhost, Disconnected, ScheduleReconnect
    <3>2. conn[c] \in Conn
      BY <1>0 DEF Conns
    <3>3. /\ dead \in Conn /\ dead.pending = conn[c].pending /\ dead.wire = conn[c].wire
          /\ dead.inbox = conn[c].inbox /\ dead.socket = conn[c].socket
      BY <3>2 DEF Conn
    <3>4. cs = [conn EXCEPT ![c] = dead] /\ cs[c] = dead
      BY <1>0 DEF Conns
    <3> HIDE DEF dead, cs
    <3>5. conn' = [conn EXCEPT ![c] = ClosedEnd(dead, n)]
      <4>1. conn' = IF dead.socket[n] = "open" THEN [cs EXCEPT ![c].socket[n] = "closing"] ELSE cs
        BY <3>1, <3>4 DEF Closed
      <4>2. QED BY <1>0, <3>4, <4>1 DEF ClosedEnd, Conns
    <3>6. Shrinks(conn[c], ClosedEnd(dead, n))
      <4>1. LET t == ClosedEnd(dead, n)
            IN  /\ t.pending = dead.pending /\ t.wire = dead.wire /\ t.inbox = dead.inbox
                /\ \A m \in Node : t.socket[m] = "open" => dead.socket[m] = "open"
        BY <3>3, ClosedEndFields
      <4>2. \A m \in Node : conn[c].inbox[m] = <<>>
        BY <3>1 DEF Still
      <4>3. QED BY <3>3, <4>1, <4>2 DEF Shrinks
    <3>7. \A d \in Slot : conn'[d] = conn[d] \/ Shrinks(conn[d], conn'[d])
      BY <1>0, <3>5, <3>6 DEF Conns
    <3>8. QED BY <3>1, <3>7, ShrunkSwarm
  <2>7. QED BY <1>4, <2>1, <2>2, <2>3, <2>4, <2>5, <2>6 DEF OnConnection
<1>5. ASSUME NEW c \in Slot, WireFails(c) PROVE SwarmInv'
  <2>1. /\ conn' = [conn EXCEPT ![c].wire = FALSE, ![c].inbox = [n \in Node |-> <<>>]]
        /\ UNCHANGED <<transport, retry>>
    BY <1>5 DEF WireFails
  <2>2. /\ conn'[c].pending = conn[c].pending /\ conn'[c].socket = conn[c].socket
        /\ conn'[c].wire = FALSE /\ \A m \in Node : conn'[c].inbox[m] = <<>>
        /\ \A d \in Slot : d # c => conn'[d] = conn[d]
    BY <1>0, <2>1 DEF Conns, Conn
  <2>3. Shrinks(conn[c], conn'[c])
    BY <2>2 DEF Shrinks
  <2>4. QED BY <2>1, <2>2, <2>3, ShrunkSwarm
<1>6. ASSUME UNCHANGED vars PROVE SwarmInv'
  BY <1>6 DEF vars, SwarmInv, OneWorks
<1>7. QED BY <1>1, <1>2, <1>3, <1>4, <1>5, <1>6 DEF Next

LEMMA InitSwarm == Init => SwarmInv
BY SwarmedUnused DEF Init, SwarmInv, OneWorks

-----------------------------------------------------------------------------
(* ... unless a connection fails.                                          *)

\* The connections players talk on stay.
LEMMA TalkStays ==
    ASSUME Talking, table \in [Node -> Slot \cup {None}], table' = table,
           \A n \in Node :
               /\ conn'[table[n]].wire = conn[table[n]].wire
               /\ conn'[table[n]].socket = conn[table[n]].socket
               /\ conn'[table[n]].peer[n] = conn[table[n]].peer[n]
    PROVE  Talking'
BY DEF Talking, Works

LEMMA TalkingWorks ==
    ASSUME TalkInv, Talking, NEW n \in Node
    PROVE  /\ table[n] \in Slot /\ BothOpen(conn[table[n]])
           /\ conn[table[n]].peer[n] = "alive"
<1>1. /\ table[n] \in Slot /\ conn[table[n]].wire /\ conn[table[n]].peer[n] = "alive"
      /\ conn[table[n]].socket[n] = "open" /\ conn[table[n]].socket[Other(n)] = "open"
  BY DEF Talking, Works, TalkInv, IInv, TypeOK
<1>2. \A m \in Node : m = n \/ m = Other(n)
  BY DEF Node, Other
<1>3. QED BY <1>1, <1>2 DEF BothOpen

\* A new Peer of a connection is not used.
LEMMA ArrivalDeclined ==
    ASSUME TalkInv, SwarmInv, Talking, NEW c \in Slot, NEW n \in Node,
           AckIsSent(c, n) \/ HandleAck(c, n) \/ HandleHello(c, n),
           NEW s, Arrives(c, n, s), Enters(c, n, s)
    PROVE  FALSE
<1> DEFINE e == table[n]
<1>1. e \in Slot /\ BothOpen(conn[e]) /\ conn[e].peer[n] = "alive"
  BY TalkingWorks
<1>2. e # None /\ Works(conn, e, n)
  BY <1>1, NoneIsNoSlot DEF Works, BothOpen
<1>3. transport = "internet"
  BY <1>2 DEF Enters
<1>4. HandleHello(c, n)
  BY <1>3, NoHandshakes
<1>5. BothOpen(conn[c]) /\ OneWorks
  BY <1>3, <1>4, HelloWorks DEF SwarmInv
<1>6. c = e
  BY <1>1, <1>5 DEF OneWorks
<1>7. QED BY <1>1, <1>6 DEF Arrives

LEMMA TalkStep ==
    ASSUME TalkInv, SwarmInv, Talking, failures' = failures, [Next]_vars
    PROVE  Talking'
<1>0. /\ conn \in Conns /\ table \in [Node -> Slot \cup {None}]
      /\ \A d \in Slot : conn[d] \in Conn
      /\ \A m \in Node : /\ table[m] \in Slot /\ BothOpen(conn[table[m]])
                         /\ conn[table[m]].peer[m] = "alive"
  BY TalkingWorks DEF TalkInv, IInv, TypeOK, Conns
<1>1. ASSUME NEW c \in Slot, ~ BothOpen(conn[c]), table' = table,
             \A d \in Slot : d # c => conn'[d] = conn[d]
      PROVE  Talking'
  BY <1>0, <1>1, TalkStays
<1>2. ASSUME NEW c \in Slot, IsFree(c) PROVE ~ BothOpen(conn[c])
  BY <1>2 DEF IsFree, BothOpen, Node
<1>3. ASSUME NEW n \in Node, NEW c \in Slot, Discover(n, c) \/ RetryTick(n, c) PROVE Talking'
  BY <1>0, <1>1, <1>2, <1>3 DEF Discover, RetryTick, NextFree, Dialled, Conns
<1>4. ASSUME NEW c \in Slot, SwarmConnects(c) PROVE Talking'
  BY <1>0, <1>1, <1>2, <1>4 DEF SwarmConnects, NextFree, Conns
<1>5. ASSUME NEW n \in Node, NEW c \in Slot, OnConnection(c, n) PROVE Talking'
  <2>1. CASE HandleHandshake(c, n) \/ HandleState(c, n)
    <3>1. \A d \in Slot : /\ conn'[d].wire = conn[d].wire /\ conn'[d].socket = conn[d].socket
                          /\ conn'[d].peer = conn[d].peer
      <4>1. CASE HandleHandshake(c, n)
        <5> DEFINE a  == [conn EXCEPT ![c].inbox[n] = Tail(@)]
                   cs == [a EXCEPT ![c].pending = TRUE]
        <5>1. conn' = Sent(cs, c, n, "ack")
          BY <4>1 DEF HandleHandshake
        <5>2. a \in Conns
          BY <1>0, <4>1, TailType DEF HandleHandshake
        <5>3. \A d \in Slot : /\ a[d].wire = conn[d].wire /\ a[d].socket = conn[d].socket
                              /\ a[d].peer = conn[d].peer
          BY <1>0 DEF Conns, Conn
        <5> HIDE DEF a
        <5>4. cs \in Conns
          BY <5>2, UpdateTypes
        <5>5. \A d \in Slot : /\ cs[d].wire = a[d].wire /\ cs[d].socket = a[d].socket
                              /\ cs[d].peer = a[d].peer
          BY <5>2 DEF Conns, Conn
        <5> HIDE DEF cs
        <5>6. \A d \in Slot : /\ conn'[d].wire = cs[d].wire /\ conn'[d].socket = cs[d].socket
                              /\ conn'[d].peer = cs[d].peer
          BY <5>1, <5>4 DEF Sent, Conns, Conn
        <5>7. QED BY <5>3, <5>5, <5>6
      <4>2. CASE HandleState(c, n)
        BY <1>0, <4>2 DEF HandleState, Conns, Conn
      <4>3. QED BY <2>1, <4>1, <4>2
    <3>2. table' = table
      BY <2>1 DEF HandleHandshake, HandleState
    <3>3. QED BY <1>0, <3>1, <3>2, TalkStays
  <2>2. CASE AckIsSent(c, n) \/ HandleAck(c, n) \/ HandleHello(c, n)
    <3>1. PICK s : Arrives(c, n, s) /\ (Declines(c, n, s) \/ Enters(c, n, s))
      BY <2>2, AckIsSentArrives, HandleAckArrives, HandleHelloArrives
    <3>2. Declines(c, n, s)
      BY <2>2, <3>1, ArrivalDeclined
    <3>3. /\ table' = table /\ conn' = [conn EXCEPT ![c] = s]
          /\ s.wire = conn[c].wire /\ s.socket = conn[c].socket
          /\ conn[c].peer[n] = "none" /\ s.peer[Other(n)] = conn[c].peer[Other(n)]
      BY <3>1, <3>2 DEF Declines, Arrives
    <3>4. \A m \in Node : m = n \/ m = Other(n)
      BY DEF Node, Other
    <3>5. \A m \in Node :
              /\ conn'[table[m]].wire = conn[table[m]].wire
              /\ conn'[table[m]].socket = conn[table[m]].socket
              /\ conn'[table[m]].peer[m] = conn[table[m]].peer[m]
      BY <1>0, <3>3, <3>4 DEF Conns
    <3>6. QED BY <1>0, <3>3, <3>5, TalkStays
  <2>3. CASE HandshakeTimesOut(c, n) \/ SocketEnds(c, n)
    <3>1. conn' = Closed(conn, c, n) /\ table' = table /\ ~ BothOpen(conn[c])
      BY <2>3, OtherType DEF HandshakeTimesOut, SocketEnds, BothOpen
    <3>2. \A d \in Slot : d # c => conn'[d] = conn[d]
      BY <1>0, <3>1 DEF Closed, Conns
    <3>3. QED BY <1>1, <3>1, <3>2
  <2>4. CASE CloseEvent(c, n)
    <3>1. ~ BothOpen(conn[c])
      BY <2>4 DEF CloseEvent, BothOpen
    <3>2. table' = table
      BY <1>0, <2>4, <3>1 DEF CloseEvent, Disconnected, HandlePeerDisconnect
    <3>3. \A d \in Slot : d # c => conn'[d] = conn[d]
      BY <1>0, <2>4 DEF CloseEvent, Conns
    <3>4. QED BY <1>1, <3>1, <3>2, <3>3
  \* Whoever talks is heard, once everything is handled.
  <2>5. CASE RemoveGhost(n, c)
    <3> DEFINE o == Other(n)
               e == table[o]
    <3>1. o \in Node /\ o # n /\ Other(o) = n
      BY DEF Node, Other
    <3>2. e \in Slot /\ BothOpen(conn[e]) /\ e # None
      BY <1>0, <3>1, NoneIsNoSlot
    <3>3. Listens(conn[e], n, table[n] = e, knows[n])
      BY <3>2 DEF TalkInv, Speaking
    <3>4. conn[e].inbox[n] = <<>>
      BY <2>5, <3>2 DEF RemoveGhost, Still
    <3>5. conn[e].wire /\ conn[e].socket[1] = "open" /\ conn[e].socket[2] = "open"
      BY <3>2 DEF BothOpen, Node
    <3>6. conn[e].peer[n] # "none"
      BY <3>3, <3>4, <3>5, EmptyHas DEF Listens
    <3>7. Hears(n)
      BY <3>1, <3>2, <3>6 DEF Hears, BothOpen
    <3>8. QED BY <2>5, <3>7 DEF RemoveGhost
  <2>6. QED BY <1>5, <2>1, <2>2, <2>3, <2>4, <2>5 DEF OnConnection
<1>6. ASSUME NEW c \in Slot, WireFails(c) PROVE FALSE
  <2>1. failures \in Nat /\ failures' = failures + 1
    BY <1>6, BoundAssumption DEF WireFails, TalkInv, IInv, TypeOK
  <2>2. QED BY <2>1
<1>7. ASSUME UNCHANGED vars PROVE Talking'
  BY <1>7 DEF vars, Talking, Works
<1>8. QED BY <1>3, <1>4, <1>5, <1>6, <1>7 DEF Next

\* Players that talk go on talking, whatever dials cross, redials come late and
\* sweeps find, until a connection fails: over the internet only because a hello
\* that can still be handled is on the one connection that works.
THEOREM OnlyFailuresInterrupt == Spec => TalkGoesOn
<1>1. Init => TalkInv /\ SwarmInv
  BY InitTalk, InitSwarm
<1>2. TalkInv /\ SwarmInv /\ [Next]_vars => (TalkInv /\ SwarmInv)'
  <2>1. ASSUME TalkInv, SwarmInv, [Next]_vars PROVE TalkInv' /\ SwarmInv'
    <3>1. TalkInv'
      BY <2>1, NextTalk
    <3>2. IInv'
      BY <3>1 DEF TalkInv
    <3>3. QED BY <2>1, <3>1, <3>2, SwarmStep
  <2>2. QED BY <2>1
<1>3. TalkInv /\ SwarmInv /\ [Next]_vars => [Talking /\ failures' = failures => Talking']_vars
  BY TalkStep
<1>4. QED BY <1>1, <1>2, <1>3, PTL DEF Spec, TalkGoesOn

=============================================================================
