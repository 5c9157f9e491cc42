------------------------------ MODULE NodeLife ------------------------------
(***************************************************************************)
(* The nodes one app goes through (chess-democracy-electron/main.ts): the   *)
(* player logs in, picks a network, leaves it, picks again, logs out.  Each *)
(* choice makes a new Node under the same key, with a transport of its own; *)
(* Node.stop ends the old one.  The model follows the connections of all of *)
(* them to one other player, who stays in the lobby: over the internet a    *)
(* stopped transport destroys its connections (hyperswarm-network.ts), on a *)
(* LAN it only stops listening (local-network-controller.ts).               *)
(*                                                                          *)
(* How a single connection is made and lost is PeerTable's concern: here an *)
(* end is new, then used (its node was told), then gone.                    *)
(***************************************************************************)
EXTENDS Naturals, FiniteSets

CONSTANTS Networks,    \* the networks the player may pick: "local", "global"
          MaxLives,    \* bound: how many nodes the app makes
          MaxCalls,    \* bound: how many connectNetwork calls wait at once
          Slot,        \* bound: connections at a time
          MaxBreaks,   \* bound: connections that die unnoticed
          LowerKey     \* the other player has the higher key: we redial on a LAN

ASSUME NetworksAssumption == Networks \subseteq {"local", "global"} /\ Networks # {}
ASSUME BoundAssumption == MaxLives \in Nat /\ MaxCalls \in Nat /\ MaxBreaks \in Nat
ASSUME SlotAssumption == IsFiniteSet(Slot) /\ 0 \notin Slot
ASSUME KeyAssumption == LowerKey \in BOOLEAN

VARIABLES
    network,    \* the network the player picks, every time
    loggedIn,   \* identityPath is set
    calls,      \* connectNetwork calls that await the core's modules
    life,       \* the node the main process holds; None before and after
    lives,      \* how many nodes were made
    stopped,    \* the nodes that were stopped
    starting,   \* the nodes whose transport is not ready yet
    online,     \* the nodes whose transport runs: listens, pings, sweeps
    conn,       \* the connections between one of our nodes and the other player
    entry,      \* entry[w]: w's connection in its peer table, or None
    met,        \* who has found whom by mDNS
    redial,     \* whose reconnection timer runs
    breaks      \* connections that died unnoticed (bounds the model)

app  == <<loggedIn, calls, life, lives, stopped, starting>>
vars == <<network, app, online, conn, entry, met, redial, breaks>>

None   == 0
Other  == 0                    \* the other player; our nodes are 1, 2, ...
Life   == 1..MaxLives
Player == {Other} \cup Life

\* "cut": closed by one side, the other will be told; "dead": nobody is told.
Conn   == [life : Life \cup {None}, dialler : {"us", "them", "swarm"},
           state : {"open", "cut", "dead"},
           us : {"new", "used", "gone"}, them : {"new", "used", "gone"}]
Unused == [life |-> None, dialler |-> "us", state |-> "cut", us |-> "gone", them |-> "gone"]

Side(w)    == IF w = Other THEN "them" ELSE "us"
IsOf(c, w) == conn[c].life # None /\ (w = Other \/ conn[c].life = w)

Opened(c, l, dialler) ==
    conn' = [conn EXCEPT ![c] = [life |-> l, dialler |-> dialler, state |-> "open",
                                 us |-> "new", them |-> "new"]]

\* w's end of d is closed by w itself: over a working wire the other end hears.
CutBy(d, w) ==
    [d EXCEPT ![Side(w)] = "gone", !.state = IF @ = "open" THEN "cut" ELSE @]

\* scheduleReconnect: on a LAN, the lower key, whether or not it was stopped.
Redials(w) == network = "local" /\ (IF w = Other THEN ~LowerKey ELSE LowerKey)

\* peer:disconnected for w's end of c: handlePeerDisconnect, scheduleReconnect.
Disconnected(c, w) ==
    /\ entry' = [entry EXCEPT ![w] = IF @ = c THEN None ELSE @]
    /\ redial' = IF Redials(w) THEN redial \cup {<<w, conn[c].life>>} ELSE redial

-----------------------------------------------------------------------------
(* The main process.                                                       *)

\* Node.stop, if there is a node; what its transport's stop does to connections.
Stop(l) ==
    /\ stopped' = stopped \cup ({l} \ {None})
    /\ online' = online \ {l}
    /\ entry' = [w \in Player |-> IF w = l /\ l # None THEN None ELSE entry[w]]
    /\ redial' = {r \in redial : r[1] # l \/ l = None}
    /\ conn' = [c \in Slot |->
           IF network = "global" /\ l \in online /\ conn[c].life = l
           THEN CutBy(conn[c], l) ELSE conn[c]]

LogIn ==
    /\ ~loggedIn
    /\ loggedIn' = TRUE
    /\ UNCHANGED <<network, calls, life, lives, stopped, starting, online, conn,
                   entry, met, redial, breaks>>

\* IDENTITY_LOGOUT.  The window reloads: the renderer forgets its calls.
LogOut ==
    /\ loggedIn
    /\ loggedIn' = FALSE
    /\ life' = None
    /\ Stop(life)
    /\ UNCHANGED <<network, calls, lives, starting, met, breaks>>

\* connectNetwork, up to its await.  The old network is dropped after it.
Join ==
    /\ loggedIn
    /\ calls < MaxCalls
    /\ calls' = calls + 1
    /\ UNCHANGED <<network, loggedIn, life, lives, stopped, starting, online, conn,
                   entry, met, redial, breaks>>

\* ... and its rest: stopNode, new Node, boot.
JoinResumes ==
    /\ calls > 0 /\ lives < MaxLives
    /\ calls' = calls - 1
    /\ Stop(life)
    /\ life' = lives + 1 /\ lives' = lives + 1
    /\ starting' = starting \cup {lives + 1}
    /\ UNCHANGED <<network, loggedIn, met, breaks>>

\* NETWORK_LEAVE, in the lobby.
Leave ==
    /\ life # None
    /\ life' = None
    /\ Stop(life)
    /\ UNCHANGED <<network, loggedIn, calls, lives, starting, met, breaks>>

\* Mutant: the transport is used although the node was stopped meanwhile.
TransportReadyAnyway(l) ==
    /\ l \in starting
    /\ starting' = starting \ {l}
    /\ online' = online \cup {l}
    /\ UNCHANGED <<network, loggedIn, calls, life, lives, stopped, conn, entry, met,
                   redial, breaks>>

\* boot: the factory's promise resolves.
TransportReady(l) ==
    /\ l \in starting
    /\ starting' = starting \ {l}
    /\ online' = IF l \in stopped THEN online ELSE online \cup {l}
    /\ UNCHANGED <<network, loggedIn, calls, life, lives, stopped, conn, entry, met,
                   redial, breaks>>

-----------------------------------------------------------------------------
(* Connections.                                                            *)

Free(c)    == conn[c] = Unused /\ \A w \in Player : entry[w] # c
Dialling(w, l) ==
    \E c \in Slot : conn[c].life = l /\ conn[c].dialler = Side(w)
                    /\ conn[c].state # "cut" /\ conn[c][Side(w)] = "new"

\* mDNS announces each node once to the other: connectToPeer, unless it has it.
Discover(w, l, c) ==
    /\ network = "local"
    /\ l \in online /\ w \in {Other, l} /\ <<w, l>> \notin met
    /\ Free(c)
    /\ met' = met \cup {<<w, l>>}
    /\ IF entry[w] = None THEN Opened(c, l, Side(w)) ELSE UNCHANGED conn
    /\ UNCHANGED <<network, app, online, entry, redial, breaks>>

\* The reconnection timer.  The other player dials the port it knows, where only
\* that node listened; ours dial the other player, whichever node it is.
RetryTick(w, l, c) ==
    /\ <<w, l>> \in redial
    /\ Free(c) /\ ~Dialling(w, l)
    /\ IF entry[w] # None \/ (w = Other /\ l \notin online)   \* back, or 20 times refused
       THEN redial' = redial \ {<<w, l>>} /\ UNCHANGED conn
       ELSE Opened(c, l, Side(w)) /\ UNCHANGED redial
    /\ UNCHANGED <<network, app, online, entry, met, breaks>>

\* Hyperswarm opens a connection with whoever is in the room, one per pair.
SwarmConnects(l, c) ==
    /\ network = "global"
    /\ l \in online
    /\ Free(c)
    /\ \A d \in Slot : conn[d].life = l => conn[d].us = "gone" \/ conn[d].them = "gone"
    /\ Opened(c, l, "swarm")
    /\ UNCHANGED <<network, app, online, entry, met, redial, breaks>>

\* Mutant: over the internet too, a connection that looks alive is kept.
AddPeerUnlessKnown(c, w) ==
    /\ entry' = [entry EXCEPT ![w] = IF @ = None THEN c ELSE @]
    /\ conn' = [conn EXCEPT ![c][Side(w)] = "used"]

\* addPeer, which a stopped node does not refuse.  A second connection stays open
\* beside one that works; over the internet the older was retired first.
AddPeer(c, w) ==
    LET old == entry[w]
    IN  IF old = None \/ network = "global"
        THEN /\ entry' = [entry EXCEPT ![w] = c]
             /\ conn' = [d \in Slot |-> IF d = c THEN [conn[d] EXCEPT ![Side(w)] = "used"]
                                        ELSE IF d = old THEN CutBy(conn[d], w)
                                        ELSE conn[d]]
        ELSE /\ conn' = [conn EXCEPT ![c][Side(w)] = "used"]
             /\ UNCHANGED entry

\* The handshake gets through: on a LAN who was dialled is first, and the dialler
\* hears of it by the ack; over the internet each has the other's hello.
Admits(c, w) ==
    /\ conn[c].state = "open" /\ IsOf(c, w) /\ conn[c][Side(w)] = "new"
    /\ conn[c].dialler = Side(w) => IF w = Other THEN conn[c].us # "new"
                                                 ELSE conn[c].them # "new"
    /\ AddPeer(c, w)
    /\ UNCHANGED <<network, app, online, met, redial, breaks>>

\* A connection dies and no one is told.
WireDies(c) ==
    /\ conn[c].state = "open" /\ conn[c].us = "used" /\ conn[c].them = "used"
    /\ breaks < MaxBreaks
    /\ breaks' = breaks + 1
    /\ conn' = [conn EXCEPT ![c].state = "dead"]
    /\ UNCHANGED <<network, app, online, entry, met, redial>>

\* w's end of a connection that the other side closed: its close event.
CloseEvent(c, w) ==
    /\ conn[c].state = "cut" /\ IsOf(c, w) /\ conn[c][Side(w)] # "gone"
    /\ conn' = [conn EXCEPT ![c][Side(w)] = "gone"]
    /\ IF conn[c][Side(w)] = "used" THEN Disconnected(c, w) ELSE UNCHANGED <<entry, redial>>
    /\ UNCHANGED <<network, app, online, met, breaks>>

\* w hears from the other side, if only its pings.  Those come from nodes that
\* run, on the connection they have in their table.
Speaks(c, w) == c # None /\ conn[c].state = "open" /\ conn[c][Side(w)] = "used"
Hears(w) ==
    IF w = Other THEN \E l \in online : Speaks(entry[l], Other)
    ELSE Speaks(entry[Other], w) /\ conn[entry[Other]].life = w

\* Nothing else goes on that takes less than GHOST_TIMEOUT_MS.
Still ==
    \A c \in Slot : conn[c].state # "dead" /\ conn[c].life # None =>
        IF conn[c].state = "cut" THEN conn[c].us = "gone" /\ conn[c].them = "gone"
                                 ELSE conn[c].us # "new" /\ conn[c].them # "new"

\* Mutant: nobody is ever found silent.
SweepNobody(w) == FALSE /\ UNCHANGED vars

\* removeGhosts, sweepSilentPeers: nothing was heard for GHOST_TIMEOUT_MS.
Sweep(w) ==
    /\ w = Other \/ w \in online
    /\ entry[w] # None /\ ~Hears(w) /\ Still
    /\ conn' = [conn EXCEPT ![entry[w]] = CutBy(@, w)]
    /\ Disconnected(entry[w], w)
    /\ UNCHANGED <<network, app, online, met, breaks>>

\* A connection both ends are done with makes room (bounds the model).
Forget(c) ==
    /\ conn[c].life # None /\ conn[c].us = "gone" /\ conn[c].them = "gone"
    /\ conn' = [conn EXCEPT ![c] = Unused]
    /\ UNCHANGED <<network, app, online, entry, met, redial, breaks>>

-----------------------------------------------------------------------------
Init ==
    /\ network \in Networks
    /\ loggedIn = FALSE /\ calls = 0 /\ life = None /\ lives = 0
    /\ stopped = {} /\ starting = {} /\ online = {}
    /\ conn = [c \in Slot |-> Unused]
    /\ entry = [w \in Player |-> None]
    /\ met = {} /\ redial = {} /\ breaks = 0

Clicks == LogIn \/ LogOut \/ Join \/ Leave

Connecting ==
    \/ \E w \in Player, l \in Life, c \in Slot : Discover(w, l, c)
    \/ \E w \in Player, l \in Life, c \in Slot : RetryTick(w, l, c)
    \/ \E l \in Life, c \in Slot : SwarmConnects(l, c)

OnConnection(c, w) == Admits(c, w) \/ CloseEvent(c, w)

Next ==
    \/ Clicks
    \/ JoinResumes
    \/ \E l \in Life : TransportReady(l)
    \/ Connecting
    \/ \E c \in Slot, w \in Player : OnConnection(c, w)
    \/ \E c \in Slot : WireDies(c) \/ Forget(c)
    \/ \E w \in Player : Sweep(w)

Spec == Init /\ [][Next]_vars

(* Fairness.  Promises resolve, packets and close events are handled, the  *)
(* swarm looks again and again, timers fire.  Nobody has to click.         *)
Fairness ==
    /\ WF_vars(JoinResumes)
    /\ \A l \in Life : WF_vars(TransportReady(l))
    /\ WF_vars(Connecting)
    /\ \A c \in Slot, w \in Player : WF_vars(OnConnection(c, w))
    /\ \A c \in Slot : WF_vars(Forget(c))
    /\ \A w \in Player : WF_vars(Sweep(w))

FairSpec == Spec /\ Fairness

-----------------------------------------------------------------------------
(* Properties.                                                             *)

TypeOK ==
    /\ network \in Networks /\ loggedIn \in BOOLEAN
    /\ calls \in 0..MaxCalls
    /\ life \in Life \cup {None} /\ lives \in 0..MaxLives
    /\ life <= lives
    /\ stopped \subseteq 1..lives /\ starting \subseteq 1..lives /\ online \subseteq 1..lives
    /\ conn \in [Slot -> Conn]
    /\ entry \in [Player -> Slot \cup {None}]
    /\ met \subseteq Player \X Life
    /\ redial \subseteq Player \X Life
    /\ breaks \in 0..MaxBreaks

\* Only the node the app holds has a transport that runs, however calls of
\* connectNetwork overlap with each other, with leaving and logging out, and
\* whenever the transport gets ready.
OneTransportRuns == online \subseteq {life} \ {None}

\* Once a connection of the running node is in its table and the other side has
\* admitted it, the other side speaks on a connection of that node, and not on
\* one of a node before it.
InTouch ==
    \A l \in online :
        LET c == entry[l] IN
        c # None /\ conn[c].state = "open" /\ conn[c].them = "used" /\ l = life
            => entry[Other] # None /\ conn[entry[Other]].life = l

\* That holds for the first node on either network, and over the internet also
\* across every change of network.  (On the LAN it does not: a node that stops
\* leaves its sockets open, and the other side may go on with the old one.)
InTouchUnlessLeftOnLan == network = "global" \/ lives = 1 => InTouch

Together ==
    /\ life # None
    /\ entry[Other] # None /\ entry[Other] = entry[life]
    /\ conn[entry[life]].state = "open"

\* Over the internet, who stays in a room is again and again connected to the
\* other player, whatever broke before and whichever network it left.
FindsThePeer == network = "global" /\ <>[](life # None) => <>[]Together

\* Over the internet, who leaves is taken out of the other player's table, even
\* if the connection died before it could say so.
LeaverIsForgotten == network = "global" => (life = None ~> (entry[Other] = None \/ life # None))

=============================================================================
