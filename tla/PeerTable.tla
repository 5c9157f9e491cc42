------------------------------ MODULE PeerTable ------------------------------
(***************************************************************************)
(* How two players find, keep and lose their connection: the peer table of *)
(* core/node.ts over either transport.  On a LAN                           *)
(* (network/base-network-controller.ts, network/localnetwork/) both dial   *)
(* what they discover, so there may be several WebSockets at once, and the *)
(* lower key dials again after a loss.  Over the internet                  *)
(* (network/globalnetwork/) hyperswarm keeps one stream per pair and opens *)
(* another when it breaks.  Nodes ping and sweep silent peers on both.     *)
(*                                                                         *)
(* Both players let each other in throughout (one lobby, or one game).     *)
(* What a node tells a peer it adds, its side and settings or a snapshot,  *)
(* is one message, "state".  A connection is a slot that is used again.    *)
(***************************************************************************)
EXTENDS Integers, Sequences, FiniteSets

CONSTANTS Slot,          \* the connections there can be at a time
          None,          \* not a number
          Attempts,      \* RECONNECT_ATTEMPTS
          MaxFailures    \* bound: how many connections fail

ASSUME SlotAssumption == Slot \subseteq Nat /\ None \notin Nat
ASSUME BoundAssumption == Attempts \in Nat /\ MaxFailures \in Nat

VARIABLES
    transport,   \* "lan" or "internet", for both players
    conn,        \* conn[c]: a connection, as its two ends see it
    table,       \* table[n]: the connection of the peer n has, or None
    count,       \* count[n]: alivePeersCount
    knows,       \* knows[n]: n's entry holds what its peer told it
    retry,       \* retry[n]: reconnection attempts so far, or None
    found,       \* the players whose mDNS found the other one
    failures     \* how many connections failed (bounds the model)

vars == <<transport, conn, table, count, knows, retry, found, failures>>

Node == {1, 2}                  \* 1 has the lower key
Other(n) == 3 - n

Packets == {"handshake", "ack", "hello", "state"}

Conn == [dialer  : Node,
         wire    : BOOLEAN,                                   \* packets get across
         socket  : [Node -> {"open", "closing", "closed"}],
         peer    : [Node -> {"none", "alive", "dead"}],       \* the Peer made of it
         pending : BOOLEAN,                                   \* the ack is being sent
         inbox   : [Node -> Seq(Packets)]]

Unused == [dialer |-> 1, wire |-> FALSE, socket |-> [n \in Node |-> "closed"],
           peer |-> [n \in Node |-> "none"], pending |-> FALSE,
           inbox |-> [n \in Node |-> <<>>]]

IsFree(c) ==
    /\ \A n \in Node : conn[c].socket[n] = "closed" /\ table[n] # c
    /\ ~conn[c].pending

\* Which free slot a new connection takes does not matter.
NextFree(c) == IsFree(c) /\ \A d \in Slot : IsFree(d) => c <= d

Opened(dialer, inbox) ==
    [Unused EXCEPT !.dialer = dialer, !.wire = TRUE, !.inbox = inbox,
                   !.socket = [n \in Node |-> "open"]]

\* A packet from n, on connection c of cs.
Sent(cs, c, n, packet) ==
    IF cs[c].socket[n] = "open" /\ cs[c].wire /\ cs[c].socket[Other(n)] # "closed"
    THEN [cs EXCEPT ![c].inbox[Other(n)] = Append(@, packet)] ELSE cs

\* close(): what has arrived may still be handled; the close event comes later.
Closed(cs, c, n) ==
    IF cs[c].socket[n] = "open" THEN [cs EXCEPT ![c].socket[n] = "closing"] ELSE cs

Works(cs, c, n) == cs[c].peer[n] = "alive" /\ cs[c].socket[n] = "open"

-----------------------------------------------------------------------------
(* The node's table.                                                       *)

\* n's connection c replaces `old`, or is its first: n tells its peer its state.
Entered(cs, old, c, n) ==
    /\ table' = [table EXCEPT ![n] = c]
    /\ knows' = [knows EXCEPT ![n] = FALSE]
    /\ count' = IF old = None THEN [count EXCEPT ![n] = @ + 1] ELSE count
    /\ conn' = Sent(IF old = None THEN cs ELSE Closed(cs, old, n), c, n, "state")

\* Mutant: the newest connection is the one that counts.
AddPeerNewest(cs, old, c, n) == Entered(cs, old, c, n)

\* addPeer: a connection that works is kept, and a second one stays open unused.
AddPeer(cs, old, c, n) ==
    IF old # None /\ Works(cs, old, n)
    THEN conn' = cs /\ UNCHANGED <<table, knows, count>>
    ELSE Entered(cs, old, c, n)

\* Mutant: the peer is counted out whichever of its connections ended.
CountAnyway(c, n) ==
    /\ table' = [table EXCEPT ![n] = IF @ = c THEN None ELSE @]
    /\ knows' = [knows EXCEPT ![n] = table[n] # c /\ @]
    /\ count' = [count EXCEPT ![n] = @ - 1]

\* handlePeerDisconnect: only if it is the connection we are using.
HandlePeerDisconnect(c, n) ==
    IF table[n] = c
    THEN /\ table' = [table EXCEPT ![n] = None]
         /\ knows' = [knows EXCEPT ![n] = FALSE]
         /\ count' = [count EXCEPT ![n] = @ - 1]
    ELSE UNCHANGED <<table, knows, count>>

\* scheduleReconnect: only on a LAN, the lower key, and one timer at a time.
ScheduleReconnect(n) ==
    retry' = IF transport = "lan" /\ n < Other(n) /\ retry[n] = None
             THEN [retry EXCEPT ![n] = 0] ELSE retry

\* peer:disconnected, which the table and the reconnection both listen to.
Disconnected(c, n) == HandlePeerDisconnect(c, n) /\ ScheduleReconnect(n)

-----------------------------------------------------------------------------
(* Connecting on a LAN.                                                    *)

Dialled(n, c) ==
    conn' = [conn EXCEPT ![c] =
        Opened(n, [m \in Node |-> IF m = n THEN <<>> ELSE <<"handshake">>])]

\* mDNS announces the other player, once: connectToPeer, unless we have it.
Discover(n, c) ==
    /\ transport = "lan"
    /\ n \notin found
    /\ NextFree(c)
    /\ found' = found \cup {n}
    /\ IF table[n] = None THEN Dialled(n, c) ELSE UNCHANGED conn
    /\ UNCHANGED <<transport, table, count, knows, retry, failures>>

\* The reconnection timer: it stops with the peer back or the attempts used up.
\* RECONNECT_INTERVAL_MS is longer than a handshake takes over a working wire.
RetryTick(n, c) ==
    /\ retry[n] # None
    /\ NextFree(c)
    /\ \A d \in Slot : conn[d].wire /\ conn[d].dialer = n /\ conn[d].socket[n] = "open"
                        => conn[d].peer[n] # "none" /\ ~conn[d].pending
    /\ IF table[n] # None \/ retry[n] = Attempts
       THEN retry' = [retry EXCEPT ![n] = None] /\ UNCHANGED conn
       ELSE retry' = [retry EXCEPT ![n] = @ + 1] /\ Dialled(n, c)
    /\ UNCHANGED <<transport, table, count, knows, found, failures>>

\* handleHandshake, up to the wait for the ack to be sent.
HandleHandshake(c, n) ==
    /\ conn[c].socket[n] = "open"
    /\ conn[c].inbox[n] # <<>> /\ Head(conn[c].inbox[n]) = "handshake"
    /\ conn' = Sent([conn EXCEPT ![c].inbox[n] = Tail(@), ![c].pending = TRUE],
                    c, n, "ack")
    /\ UNCHANGED <<transport, table, count, knows, retry, found, failures>>

\* Mutant: what arrives before there is a handler is gone.
DropEarly(packets) == <<>>

\* WebSocketConnection holds what arrives before there is a handler.
HeldEarly(packets) == packets

\* ... and its rest.  The socket may have closed meanwhile, unnoticed: there was
\* no handler of its close event yet.
AckIsSent(c, n) ==
    /\ conn[c].pending
    /\ n # conn[c].dialer
    /\ AddPeer([conn EXCEPT ![c].pending = FALSE, ![c].peer[n] = "alive",
                            ![c].inbox[n] = HeldEarly(@)], table[n], c, n)
    /\ UNCHANGED <<transport, retry, found, failures>>

\* connect resolves, and connectToPeer goes on.
HandleAck(c, n) ==
    /\ conn[c].socket[n] = "open"
    /\ conn[c].inbox[n] # <<>> /\ Head(conn[c].inbox[n]) = "ack"
    /\ AddPeer([conn EXCEPT ![c].inbox[n] = HeldEarly(Tail(@)), ![c].peer[n] = "alive"],
               table[n], c, n)
    /\ UNCHANGED <<transport, retry, found, failures>>

\* HANDSHAKE_TIMEOUT_MS passes, on the dialler of a LAN and on both ends over the
\* internet.
HandshakeTimesOut(c, n) ==
    /\ conn[c].socket[n] = "open" /\ conn[c].peer[n] = "none"
    /\ transport = "lan" => n = conn[c].dialer
    /\ ~conn[c].wire
    /\ conn' = Closed(conn, c, n)
    /\ UNCHANGED <<transport, table, count, knows, retry, found, failures>>

-----------------------------------------------------------------------------
(* Connecting over the internet.                                           *)

\* Hyperswarm, which keeps one connection per pair, opens one; each side's hello
\* is on its way (handleConnection).
SwarmConnects(c) ==
    /\ transport = "internet"
    /\ NextFree(c)
    /\ \A d \in Slot : conn[d].wire => \E n \in Node : conn[d].socket[n] # "open"
    /\ conn' = [conn EXCEPT ![c] = Opened(1, [n \in Node |-> <<"hello">>])]
    /\ UNCHANGED <<transport, table, count, knows, retry, found, failures>>

\* A valid hello: a connection that still looks alive is retired, as the new one
\* takes its place.
HandleHello(c, n) ==
    /\ conn[c].socket[n] = "open"
    /\ conn[c].inbox[n] # <<>> /\ Head(conn[c].inbox[n]) = "hello"
    /\ LET old  == table[n]
           said == [conn EXCEPT ![c].inbox[n] = Tail(@), ![c].peer[n] = "alive"]
       IN  IF old # None /\ conn[old].peer[n] = "alive"
           THEN \* it leaves the table, and the new one enters it
                Entered(Closed([said EXCEPT ![old].peer[n] = "dead"], old, n), old, c, n)
           ELSE AddPeer(said, old, c, n)
    /\ UNCHANGED <<transport, retry, found, failures>>

-----------------------------------------------------------------------------
(* A connection in use, and its end.                                       *)

\* HandleMessage finds the sender by its key, whichever connection it came on.
HandleState(c, n) ==
    /\ conn[c].peer[n] # "none"
    /\ conn[c].socket[n] = "open" \/ (conn[c].socket[n] = "closing" /\ transport = "lan")
    /\ conn[c].inbox[n] # <<>> /\ Head(conn[c].inbox[n]) = "state"
    /\ conn' = [conn EXCEPT ![c].inbox[n] = Tail(@)]
    /\ knows' = [knows EXCEPT ![n] = table[n] # None]
    /\ UNCHANGED <<transport, table, count, retry, found, failures>>

\* The network loses a connection: nobody is told.
WireFails(c) ==
    /\ conn[c].wire
    /\ failures < MaxFailures
    /\ failures' = failures + 1
    /\ conn' = [conn EXCEPT ![c].wire = FALSE, ![c].inbox = [n \in Node |-> <<>>]]
    /\ UNCHANGED <<transport, table, count, knows, retry, found>>

\* n's socket finds the other end closed, or the wire gone.
SocketEnds(c, n) ==
    /\ conn[c].socket[n] = "open"
    /\ ~conn[c].wire \/ conn[c].socket[Other(n)] # "open"
    /\ conn[c].inbox[n] = <<>>
    /\ conn' = Closed(conn, c, n)
    /\ UNCHANGED <<transport, table, count, knows, retry, found, failures>>

\* n's end of a connection is over; a slot whose both ends are is free again.
Ended(s, n) ==
    [s EXCEPT !.socket[n] = "closed", !.inbox[n] = <<>>,
              !.peer[n] = IF s.peer[n] = "alive" THEN "dead" ELSE s.peer[n]]

\* The close event: a peer that is not yet known as dead is disconnected.
CloseEvent(c, n) ==
    /\ conn[c].socket[n] = "closing"
    /\ conn' = [conn EXCEPT ![c] =
           IF /\ conn[c].socket[Other(n)] = "closed" /\ ~conn[c].pending
              /\ table[Other(n)] # c
           THEN Unused ELSE Ended(conn[c], n)]
    /\ IF conn[c].peer[n] = "alive"
       THEN Disconnected(c, n)
       ELSE UNCHANGED <<table, count, knows, retry>>
    /\ UNCHANGED <<transport, found, failures>>

\* n hears from its peer, if only its pings: they come on the connection that the
\* peer has for n.
Hears(n) ==
    LET c == table[Other(n)]
    IN  c # None /\ conn[c].wire /\ conn[c].socket[Other(n)] = "open"
                 /\ conn[c].socket[n] = "open" /\ conn[c].peer[n] # "none"

\* Nothing else goes on that takes less than GHOST_TIMEOUT_MS.
Still ==
    /\ \A n \in Node : retry[n] = None
    /\ \A c \in Slot : /\ ~conn[c].pending
                       /\ \A n \in Node : /\ conn[c].inbox[n] = <<>>
                                          /\ conn[c].socket[n] # "closing"

\* Mutant: the peer is deleted without a word.
RemoveGhostSilently(n, c) ==
    /\ table[n] = c
    /\ conn[c].peer[n] = "alive"
    /\ ~Hears(n)
    /\ Still
    /\ conn' = Closed([conn EXCEPT ![c].peer[n] = "dead"], c, n)
    /\ HandlePeerDisconnect(c, n)
    /\ UNCHANGED <<transport, retry, found, failures>>

\* removeGhosts and sweepSilentPeers: nothing was heard for GHOST_TIMEOUT_MS.
RemoveGhost(n, c) ==
    /\ table[n] = c
    /\ conn[c].peer[n] = "alive"
    /\ ~Hears(n)
    /\ Still
    /\ conn' = Closed([conn EXCEPT ![c].peer[n] = "dead"], c, n)
    /\ Disconnected(c, n)
    /\ UNCHANGED <<transport, found, failures>>

-----------------------------------------------------------------------------
Init ==
    /\ transport \in {"lan", "internet"}
    /\ conn = [c \in Slot |-> Unused]
    /\ table = [n \in Node |-> None]
    /\ count = [n \in Node |-> 0]
    /\ knows = [n \in Node |-> FALSE]
    /\ retry = [n \in Node |-> None]
    /\ found = {} /\ failures = 0

OnConnection(c, n) ==
    \/ HandleHandshake(c, n)
    \/ AckIsSent(c, n)
    \/ HandleAck(c, n)
    \/ HandshakeTimesOut(c, n)
    \/ HandleHello(c, n)
    \/ HandleState(c, n)
    \/ SocketEnds(c, n)
    \/ CloseEvent(c, n)
    \/ RemoveGhost(n, c)

Next ==
    \/ \E n \in Node, c \in Slot : Discover(n, c)
    \/ \E n \in Node, c \in Slot : RetryTick(n, c)
    \/ \E c \in Slot : SwarmConnects(c)
    \/ \E n \in Node, c \in Slot : OnConnection(c, n)
    \/ \E c \in Slot : WireFails(c)

Spec == Init /\ [][Next]_vars

(* Fairness.  Timers fire, packets and ends of connections are handled,    *)
(* TCP gives up on a dead wire, and each lookup finds the other player.    *)
Fairness ==
    /\ WF_vars(\E c \in Slot : SwarmConnects(c))
    /\ \A n \in Node : /\ WF_vars(\E c \in Slot : Discover(n, c))
                       /\ WF_vars(\E c \in Slot : RetryTick(n, c))
                       /\ \A c \in Slot : WF_vars(OnConnection(c, n))

FairSpec == Spec /\ Fairness

-----------------------------------------------------------------------------
(* Properties.                                                             *)

TypeOK ==
    /\ transport \in {"lan", "internet"}
    /\ conn \in [Slot -> Conn]
    /\ table \in [Node -> Slot \cup {None}]
    /\ count \in [Node -> Nat]
    /\ knows \in [Node -> BOOLEAN]
    /\ retry \in [Node -> 0..Attempts \cup {None}]
    /\ found \subseteq Node
    /\ failures \in 0..MaxFailures

\* alivePeersCount is the size of the table, which admission compares with
\* MAX_PEERS: however a peer leaves and comes back, and whether its socket, the
\* sweep or a newer connection says so, it is counted once.
CountMatchesTable ==
    \A n \in Node : count[n] = (IF table[n] = None THEN 0 ELSE 1)

\* Both players have a connection that gets packets across; not always the same.
Talking ==
    \A n \in Node : LET c == table[n] IN
        /\ c # None
        /\ conn[c].wire
        /\ Works(conn, c, n)
        /\ conn[c].socket[Other(n)] = "open"

\* Only a failing wire interrupts two players that talk: no second connection, no
\* late end of an earlier one, no sweep and no reconnection does.
TalkGoesOn ==
    [][Talking /\ failures' = failures => Talking']_vars

\* Once two players that talk have handled everything, each knows the other's
\* state, also what was sent before a handler was attached, or on a connection
\* the other does not use.  After a failure this needs both to use the same
\* connection: a player that dials again while the other still has one of its
\* own is a new peer to itself only, and is told nothing.
TalkersKnow ==
    /\ Talking /\ Still
    /\ failures = 0 \/ table[1] = table[2]
    => \A n \in Node : knows[n]

\* Once they have talked, players that lose each other find each other again,
\* whoever notices first and in whatever way.
TalkAgain == <>Talking => <>[]Talking

=============================================================================
