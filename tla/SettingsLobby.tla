---------------------------- MODULE SettingsLobby ----------------------------
(***************************************************************************)
(* The players of a lobby agreeing on the settings (core/node.ts): anyone  *)
(* may propose, everyone accepts, and nobody may press Ready before every  *)
(* player has.  Players restart their app and join anew.                   *)
(* Sides, the ready check and the start of the game are left out: they     *)
(* read the handshake only through Ready.                                  *)
(***************************************************************************)
EXTENDS ConfigHandshake, Sequences

CONSTANTS Proposers,    \* the players that propose settings
          MayReady,     \* the players that press Ready
          MaxVersion,   \* bound: proposals stop at this version
          MayRestart    \* the players that restart their app, once each

ASSUME LobbyAssumption ==
    /\ Proposers \subseteq Node /\ MayReady \subseteq Node
    /\ MayRestart \subseteq Node
    /\ MaxVersion \in Nat

VARIABLES
    hs,         \* hs[n]: n's handshake
    ready,      \* the players in waiting_for_peers; the rest are choosing
    peers,      \* peers[n]: the players n has in its peer table
    up,         \* the connections that work, as pairs {a, b}
    net,        \* net[<<m, n>>]: messages from m that n has not handled, in order
    restarted   \* the players that have restarted

vars == <<hs, ready, peers, up, net, restarted>>

Proposal == [type : {"config_proposal"}, config : Settings, version : Version]
Accepts  == [type : {"config_accept"}, version : Version]
Message  == Proposal \cup Accepts

Links == {l \in SUBSET Node : Cardinality(l) = 2}

ProposalOf(h) ==
    [type |-> "config_proposal", config |-> h.config, version |-> h.version]

AcceptOf(v) == [type |-> "config_accept", version |-> v]

\* A packet goes to the peers in the table whose connection is open.
Sent(queues, n, ps, msg) ==
    [c \in Node \X Node |->
        IF c[1] = n /\ c[2] \in ps /\ {n, c[2]} \in up
        THEN Append(queues[c], msg) ELSE queues[c]]

-----------------------------------------------------------------------------
\* setConfig: the proposal is ours and goes to every peer.
SetConfig(n, c) ==
    LET h == Propose(hs[n], c)
    IN  /\ n \in Proposers
        /\ n \notin ready
        /\ hs[n].version < MaxVersion
        /\ hs' = [hs EXCEPT ![n] = h]
        /\ net' = Sent(net, n, peers[n], ProposalOf(h))
        /\ UNCHANGED <<ready, peers, up, restarted>>

\* acceptConfig, when there is something to accept (a repeated accept sends the
\* same message again and changes nothing).
AcceptConfig(n) ==
    /\ n \notin ready
    /\ hs[n].self # hs[n].version
    /\ hs' = [hs EXCEPT ![n] = AcceptCurrent(@)]
    /\ net' = Sent(net, n, peers[n], AcceptOf(hs[n].version))
    /\ UNCHANGED <<ready, peers, up, restarted>>

Ready(n) ==
    /\ n \in MayReady \ ready
    /\ AllAccepted(hs[n], peers[n])
    /\ ready' = ready \cup {n}
    /\ UNCHANGED <<hs, peers, up, net, restarted>>

Unready(n) ==
    /\ n \in ready
    /\ ready' = ready \ {n}
    /\ UNCHANGED <<hs, peers, up, net, restarted>>

\* handleConfigProposal, in whatever phase n is: settings it had already
\* accepted under this version are accepted again.
HandleProposal(n, p, msg, queues) ==
    LET h == ReceiveProposal(hs[n], p, msg.config, msg.version)
    IN  IF IsStale(hs[n], msg.version)
        THEN net' = queues /\ UNCHANGED hs
        ELSE /\ hs' = [hs EXCEPT ![n] = h]
             /\ net' = IF h.self = msg.version
                       THEN Sent(queues, n, peers[n], AcceptOf(msg.version))
                       ELSE queues

HandleAccept(n, p, msg, queues) ==
    /\ hs' = [hs EXCEPT ![n] = ReceiveAccept(@, p, msg.version)]
    /\ net' = queues

Receive(p, n) ==
    /\ p \in peers[n]
    /\ net[<<p, n>>] # <<>>
    /\ LET msg    == Head(net[<<p, n>>])
           queues == [net EXCEPT ![<<p, n>>] = Tail(@)]
       IN  IF msg.type = "config_proposal"
           THEN HandleProposal(n, p, msg, queues)
           ELSE HandleAccept(n, p, msg, queues)
    /\ UNCHANGED <<ready, peers, up, restarted>>

\* Two players connect: whoever is dialled must not have pressed Ready.
Connect(l) ==
    /\ l \in Links \ up
    /\ l \ ready # {}
    /\ \A a, b \in l : b \notin peers[a]
    /\ up' = up \cup {l}
    /\ UNCHANGED <<hs, ready, peers, net, restarted>>

\* Mutant: a newcomer is not told the settings.
AddPeerQuietly(n, p) ==
    /\ {n, p} \in up
    /\ p # n
    /\ p \notin peers[n]
    /\ peers' = [peers EXCEPT ![n] = @ \cup {p}]
    /\ UNCHANGED <<hs, ready, up, net, restarted>>

\* n adds p once connected, and tells it the settings it has.
AddPeer(n, p) ==
    /\ {n, p} \in up
    /\ p # n
    /\ p \notin peers[n]
    /\ peers' = [peers EXCEPT ![n] = @ \cup {p}]
    /\ net' = Sent(net, n, {p}, ProposalOf(hs[n]))
    /\ UNCHANGED <<hs, ready, up, restarted>>

\* n notices that its connection to p is gone.  What p accepted is remembered.
PeerDisconnects(n, p) ==
    /\ p \in peers[n]
    /\ {n, p} \notin up
    /\ peers' = [peers EXCEPT ![n] = @ \ {p}]
    /\ net' = [net EXCEPT ![<<p, n>>] = <<>>]
    /\ UNCHANGED <<hs, ready, up, restarted>>

\* n's app restarts with the same key and knows nothing.
Restart(n) ==
    /\ n \in MayRestart \ restarted
    /\ restarted' = restarted \cup {n}
    /\ hs' = [hs EXCEPT ![n] = InitialHandshake]
    /\ ready' = ready \ {n}
    /\ peers' = [peers EXCEPT ![n] = {}]
    /\ up' = {l \in up : n \notin l}
    /\ net' = [c \in Node \X Node |-> IF c[2] = n THEN <<>> ELSE net[c]]

-----------------------------------------------------------------------------
\* All are connected and have the default settings; each has had the others'
\* proposals of them.
Init ==
    /\ hs = [n \in Node |->
                [InitialHandshake EXCEPT !.accepted =
                    [p \in Node |-> IF p # n THEN 0 ELSE None]]]
    /\ ready = {}
    /\ peers = [n \in Node |-> Node \ {n}]
    /\ up = Links
    /\ net = [c \in Node \X Node |-> <<>>]
    /\ restarted = {}

Next ==
    \/ \E n \in Node, c \in Settings : SetConfig(n, c)
    \/ \E n \in Node : AcceptConfig(n)
    \/ \E n \in Node : Ready(n)
    \/ \E n \in Node : Unready(n)
    \/ \E n, p \in Node : Receive(p, n)
    \/ \E l \in Links : Connect(l)
    \/ \E n, p \in Node : AddPeer(n, p)
    \/ \E n, p \in Node : PeerDisconnects(n, p)
    \/ \E n \in Node : Restart(n)

Spec == Init /\ [][Next]_vars

(* Fairness.  Messages are handled, connections are made and noticed, and  *)
(* the players accept what is on their screen.  Nobody has to propose, to  *)
(* press Ready or to take it back.                                         *)
Fairness ==
    /\ \A n \in Node : WF_vars(AcceptConfig(n))
    /\ \A n, p \in Node : /\ WF_vars(Receive(p, n))
                          /\ WF_vars(AddPeer(n, p))
                          /\ WF_vars(PeerDisconnects(n, p))
    /\ \A l \in Links : WF_vars(Connect(l))

FairSpec == Spec /\ Fairness

-----------------------------------------------------------------------------
TypeOK ==
    /\ hs \in [Node -> Handshake]
    /\ ready \subseteq Node
    /\ peers \in [Node -> SUBSET Node]
    /\ up \subseteq Links
    /\ net \in [Node \X Node -> Seq(Message)]
    /\ restarted \subseteq Node

\* Everyone has pressed Ready, knows the others and has handled what they sent:
\* the game they start next is a game of all of them.
EveryoneReady ==
    /\ ready = Node
    /\ \A n \in Node : peers[n] = Node \ {n}
    /\ \A c \in Node \X Node : net[c] = <<>>

\* README: every player computes the same limit from the settings they all
\* accepted.  Once everyone has pressed Ready, their settings are the same.
ReadyPlayersAgree ==
    EveryoneReady => \A n, m \in Node : hs[n].config = hs[m].config

\* Nobody's settings go back to an older version, except by a restart.
VersionsOnlyRise ==
    [][\A n \in Node : hs'[n].version >= hs[n].version \/ n \in restarted' \ restarted]_vars

\* No accept is lost: once the proposals stop, everyone may press Ready, in
\* whatever order proposals, accepts and returning players arrived.  A player
\* that stays ready cannot accept anything (acceptConfig), so nobody does.
EveryoneMayReady ==
    <>[](ready = {}) => <>[](\A n \in Node : AllAccepted(hs[n], peers[n]))

=============================================================================
