------------------------- MODULE SettingsLobby_proofs -------------------------
(***************************************************************************)
(* SettingsLobby keeps its types, and no message ever takes a player back  *)
(* to an older version of the settings: for any players, settings,         *)
(* proposers and restarts.  With one proposer that does not restart,       *)
(* players who are all ready have the same settings; two that propose at   *)
(* once can break that, as TLC shows.                                      *)
(***************************************************************************)
EXTENDS SettingsLobby, SequenceTheorems, FiniteSetTheorems, TLAPS

-----------------------------------------------------------------------------
(* Types of the handshake's operators.                                     *)

LEMMA InitialType == InitialHandshake \in Handshake
BY SettingsAssumption DEF InitialHandshake, Handshake, Version, None

LEMMA ProposeType ==
    ASSUME NEW h \in Handshake, NEW c \in Settings
    PROVE  Propose(h, c) \in Handshake
BY DEF Propose, Handshake, Version, None

LEMMA AcceptCurrentType ==
    ASSUME NEW h \in Handshake
    PROVE  AcceptCurrent(h) \in Handshake
BY DEF AcceptCurrent, Handshake, Version, None

LEMMA ReceiveProposalType ==
    ASSUME NEW h \in Handshake, NEW p \in Node, NEW c \in Settings, NEW v \in Version
    PROVE  ReceiveProposal(h, p, c, v) \in Handshake
BY DEF ReceiveProposal, Handshake, Version, None

LEMMA ReceiveAcceptType ==
    ASSUME NEW h \in Handshake, NEW p \in Node, NEW v \in Version
    PROVE  ReceiveAccept(h, p, v) \in Handshake
BY DEF ReceiveAccept, Handshake, Version, None

LEMMA ProposalOfType ==
    ASSUME NEW h \in Handshake
    PROVE  ProposalOf(h) \in Message
BY DEF ProposalOf, Handshake, Message, Proposal

LEMMA AcceptOfType ==
    ASSUME NEW v \in Version
    PROVE  AcceptOf(v) \in Message
BY DEF AcceptOf, Message, Accepts

LEMMA SentType ==
    ASSUME NEW queues \in [Node \X Node -> Seq(Message)], NEW n, NEW ps,
           NEW msg \in Message
    PROVE  Sent(queues, n, ps, msg) \in [Node \X Node -> Seq(Message)]
<1>1. \A c \in Node \X Node : Append(queues[c], msg) \in Seq(Message)
  BY AppendProperties
<1>2. QED BY <1>1 DEF Sent

\* A message that is received leaves its queue.
LEMMA ReceivedType ==
    ASSUME NEW c \in Node \X Node,
           net \in [Node \X Node -> Seq(Message)], net[c] # <<>>
    PROVE  /\ Head(net[c]) \in Message
           /\ [net EXCEPT ![c] = Tail(@)] \in [Node \X Node -> Seq(Message)]
<1>1. Head(net[c]) \in Message /\ Tail(net[c]) \in Seq(Message)
  BY HeadTailProperties
<1>2. QED BY <1>1

LEMMA MessageKinds ==
    ASSUME NEW msg \in Message
    PROVE  /\ msg.version \in Version
           /\ msg.type = "config_proposal" => msg.config \in Settings
BY DEF Message, Proposal, Accepts

-----------------------------------------------------------------------------
(* Type correctness.                                                       *)

LEMMA InitTypes == Init => TypeOK
<1> SUFFICES ASSUME Init PROVE TypeOK
  OBVIOUS
<1>1. hs \in [Node -> Handshake]
  <2>1. \A n \in Node : \A f \in [Node -> {0, None}] :
            [InitialHandshake EXCEPT !.accepted = f] \in Handshake
    BY InitialType DEF Handshake, Version, None
  <2>2. QED BY <2>1 DEF Init
<1>2. net \in [Node \X Node -> Seq(Message)]
  BY EmptySeq DEF Init
<1>3. ready \subseteq Node /\ peers \in [Node -> SUBSET Node] /\ up \subseteq Links
      /\ restarted \subseteq Node
  BY DEF Init
<1>4. QED BY <1>1, <1>2, <1>3 DEF TypeOK

LEMMA ProposalTypes ==
    ASSUME TypeOK, NEW n \in Node, NEW p \in Node, NEW msg \in Message,
           NEW queues \in [Node \X Node -> Seq(Message)],
           msg.type = "config_proposal", HandleProposal(n, p, msg, queues)
    PROVE  /\ hs' \in [Node -> Handshake]
           /\ net' \in [Node \X Node -> Seq(Message)]
<1> DEFINE h == ReceiveProposal(hs[n], p, msg.config, msg.version)
<1>1. h \in Handshake
  BY MessageKinds, ReceiveProposalType DEF TypeOK
<1>2. Sent(queues, n, peers[n], AcceptOf(msg.version)) \in [Node \X Node -> Seq(Message)]
  BY MessageKinds, AcceptOfType, SentType
<1>3. CASE IsStale(hs[n], msg.version)
  BY <1>3 DEF HandleProposal, TypeOK
<1>4. CASE ~ IsStale(hs[n], msg.version)
  BY <1>1, <1>2, <1>4 DEF HandleProposal, TypeOK
<1>5. QED BY <1>3, <1>4

LEMMA ReceiveTypes ==
    ASSUME TypeOK, NEW n \in Node, NEW p \in Node, Receive(p, n)
    PROVE  TypeOK'
<1> DEFINE msg    == Head(net[<<p, n>>])
           queues == [net EXCEPT ![<<p, n>>] = Tail(@)]
<1>1. msg \in Message /\ queues \in [Node \X Node -> Seq(Message)]
  BY ReceivedType DEF Receive, TypeOK
<1>2. UNCHANGED <<ready, peers, up, restarted>>
  BY DEF Receive
<1>3. CASE msg.type = "config_proposal"
  BY <1>1, <1>2, <1>3, ProposalTypes DEF Receive, TypeOK
<1>4. CASE msg.type # "config_proposal"
  <2>1. ReceiveAccept(hs[n], p, msg.version) \in Handshake
    BY <1>1, MessageKinds, ReceiveAcceptType DEF TypeOK
  <2>2. QED BY <1>1, <1>2, <1>4, <2>1 DEF Receive, HandleAccept, TypeOK
<1>5. QED BY <1>3, <1>4

LEMMA NextTypes == TypeOK /\ [Next]_vars => TypeOK'
<1> SUFFICES ASSUME TypeOK, [Next]_vars PROVE TypeOK'
  OBVIOUS
<1>1. ASSUME NEW n \in Node, NEW c \in Settings, SetConfig(n, c) PROVE TypeOK'
  <2>1. Propose(hs[n], c) \in Handshake
    BY ProposeType DEF TypeOK
  <2>2. net' \in [Node \X Node -> Seq(Message)]
    BY <1>1, <2>1, ProposalOfType, SentType DEF SetConfig, TypeOK
  <2>3. QED BY <1>1, <2>1, <2>2 DEF SetConfig, TypeOK
<1>2. ASSUME NEW n \in Node, AcceptConfig(n) PROVE TypeOK'
  <2>1. AcceptCurrent(hs[n]) \in Handshake /\ hs[n].version \in Version
    BY AcceptCurrentType DEF TypeOK, Handshake
  <2>2. net' \in [Node \X Node -> Seq(Message)]
    BY <1>2, <2>1, AcceptOfType, SentType DEF AcceptConfig, TypeOK
  <2>3. QED BY <1>2, <2>1, <2>2 DEF AcceptConfig, TypeOK
<1>3. ASSUME NEW n \in Node, Ready(n) PROVE TypeOK'
  BY <1>3 DEF Ready, TypeOK
<1>4. ASSUME NEW n \in Node, Unready(n) PROVE TypeOK'
  BY <1>4 DEF Unready, TypeOK
<1>5. ASSUME NEW n \in Node, NEW p \in Node, Receive(p, n) PROVE TypeOK'
  BY <1>5, ReceiveTypes
<1>6. ASSUME NEW l \in Links, Connect(l) PROVE TypeOK'
  BY <1>6 DEF Connect, TypeOK
<1>7. ASSUME NEW n \in Node, NEW p \in Node, AddPeer(n, p) PROVE TypeOK'
  <2>1. net' \in [Node \X Node -> Seq(Message)]
    BY <1>7, ProposalOfType, SentType DEF AddPeer, TypeOK
  <2>2. QED BY <1>7, <2>1 DEF AddPeer, TypeOK
<1>8. ASSUME NEW n \in Node, NEW p \in Node, PeerDisconnects(n, p) PROVE TypeOK'
  <2>1. net' \in [Node \X Node -> Seq(Message)]
    BY <1>8, EmptySeq DEF PeerDisconnects, TypeOK
  <2>2. QED BY <1>8, <2>1 DEF PeerDisconnects, TypeOK
<1>9. ASSUME NEW n \in Node, Restart(n) PROVE TypeOK'
  <2>1. net' \in [Node \X Node -> Seq(Message)]
    BY <1>9, EmptySeq DEF Restart, TypeOK
  <2>2. QED BY <1>9, <2>1, InitialType DEF Restart, TypeOK
<1>10. CASE UNCHANGED vars
  BY <1>10 DEF vars, TypeOK
<1>11. QED
  BY <1>1, <1>2, <1>3, <1>4, <1>5, <1>6, <1>7, <1>8, <1>9, <1>10 DEF Next

\* The handshakes, the queues and the peer tables of a lobby always have their
\* types: node.ts never stores settings, versions or accepts of another shape.
THEOREM LobbyTypes == Spec => []TypeOK
BY InitTypes, NextTypes, PTL DEF Spec

-----------------------------------------------------------------------------
(* Versions.                                                               *)

LEMMA NextVersions ==
    TypeOK /\ [Next]_vars =>
        \A n \in Node : \/ hs'[n].version >= hs[n].version
                        \/ n \in restarted' \ restarted
<1> SUFFICES ASSUME TypeOK, [Next]_vars, NEW m \in Node
             PROVE  hs'[m].version >= hs[m].version \/ m \in restarted' \ restarted
  OBVIOUS
<1>0. hs \in [Node -> Handshake] /\ \A n \in Node : hs[n].version \in Nat
  BY DEF TypeOK, Handshake, Version
<1>1. ASSUME NEW n \in Node, NEW c \in Settings, SetConfig(n, c)
      PROVE  hs'[m].version >= hs[m].version
  BY <1>0, <1>1 DEF SetConfig, Propose
<1>2. ASSUME NEW n \in Node, AcceptConfig(n)
      PROVE  hs'[m].version >= hs[m].version
  BY <1>0, <1>2 DEF AcceptConfig, AcceptCurrent, Handshake
<1>3. ASSUME NEW n \in Node, NEW p \in Node, Receive(p, n)
      PROVE  hs'[m].version >= hs[m].version
  <2> DEFINE msg == Head(net[<<p, n>>])
  <2>1. msg \in Message /\ msg.version \in Nat
    BY <1>3, ReceivedType, MessageKinds DEF Receive, TypeOK, Version
  <2>2. CASE msg.type = "config_proposal"
    BY <1>0, <1>3, <2>1, <2>2 DEF Receive, HandleProposal, IsStale, ReceiveProposal
  <2>3. CASE msg.type # "config_proposal"
    <3>1. ReceiveAccept(hs[n], p, msg.version).version = hs[n].version
      BY <1>0 DEF ReceiveAccept, Handshake
    <3>2. hs' = [hs EXCEPT ![n] = ReceiveAccept(hs[n], p, msg.version)]
      BY <1>3, <2>3 DEF Receive, HandleAccept
    <3>3. QED BY <1>0, <3>1, <3>2
  <2>4. QED BY <2>2, <2>3
<1>4. ASSUME NEW n \in Node, Restart(n)
      PROVE  hs'[m].version >= hs[m].version \/ m \in restarted' \ restarted
  BY <1>0, <1>4 DEF Restart
<1>5. CASE UNCHANGED hs
  BY <1>0, <1>5
<1>6. QED
  BY <1>1, <1>2, <1>3, <1>4, <1>5
     DEF Next, Ready, Unready, Connect, AddPeer, PeerDisconnects, vars

\* receiveProposal refuses older versions: proposals that were resent to a
\* newcomer, or come from a restarted player, never undo a newer one.
THEOREM ProposalsNeverGoBack == Spec => VersionsOnlyRise
<1>1. TypeOK /\ [Next]_vars =>
          [\A n \in Node : hs'[n].version >= hs[n].version \/ n \in restarted' \ restarted]_vars
  BY NextVersions
<1>2. QED BY <1>1, LobbyTypes, PTL DEF Spec, VersionsOnlyRise

-----------------------------------------------------------------------------
(* One proposer.  With a single player p that proposes, and that does not  *)
(* restart, every version in the lobby is one of p's, and p's version      *)
(* stands for p's settings: what everyone has, and every proposal under    *)
(* way, is p's own or older.  A player p reaches is at p's version or has  *)
(* a proposal of it under way, and receiveProposal never refuses that one. *)

OnlyProposer(p) == p \in Node /\ Proposers \subseteq {p} /\ p \notin MayRestart

\* Settings c of version v are those of the handshake h, or older ones.
OwnOrOlder(h, c, v) == v <= h.version /\ (v = h.version => c = h.config)

\* The proposals in a queue are those of h, or older ones.
NothingNewer(q, h) ==
    \A i \in 1..Len(q) : q[i].type = "config_proposal"
                         => OwnOrOlder(h, q[i].config, q[i].version)

\* A queue proposes version v.
Proposes(q, v) ==
    \E i \in 1..Len(q) : q[i].type = "config_proposal" /\ q[i].version = v

AllFrom(p) ==
    /\ OwnOrOlder(hs[p], Default, 0)
    /\ \A n \in Node : OwnOrOlder(hs[p], hs[n].config, hs[n].version)
    /\ \A c \in Node \X Node : NothingNewer(net[c], hs[p])

Told(p, n) ==
    \/ hs[n].version = hs[p].version
    \/ Proposes(net[<<p, n>>], hs[p].version)

ReachedAreTold(p) ==
    \A n \in Node : n # p /\ n \in peers[p] /\ {n, p} \in up => Told(p, n)

\* A connection that has ended is gone from one of its two peer tables.
LostIsNoticed ==
    \A n, m \in Node : n # m /\ n \in peers[m] /\ m \in peers[n] => {n, m} \in up

\* The inductive invariant.
AgreeInv(p) == TypeOK /\ AllFrom(p) /\ ReachedAreTold(p) /\ LostIsNoticed

LEMMA AppendFacts ==
    ASSUME NEW q \in Seq(Message), NEW msg \in Message
    PROVE  /\ Append(q, msg) \in Seq(Message)
           /\ Len(q) \in Nat /\ Len(Append(q, msg)) = Len(q) + 1
           /\ Append(q, msg)[Len(q) + 1] = msg
           /\ \A i \in 1..Len(q) : Append(q, msg)[i] = q[i]
BY AppendProperties, LenProperties

LEMMA TailFacts ==
    ASSUME NEW q \in Seq(Message), q # <<>>
    PROVE  /\ Tail(q) \in Seq(Message) /\ Head(q) \in Message
           /\ Head(q) = q[1] /\ Len(q) \in Nat \ {0}
           /\ Len(Tail(q)) = Len(q) - 1
           /\ \A i \in 1..Len(Tail(q)) : Tail(q)[i] = q[i + 1]
           /\ \A i \in 1..Len(q) : i = 1 \/ (i - 1 \in 1..Len(Tail(q)) /\ Tail(q)[i - 1] = q[i])
<1>1. /\ Tail(q) \in Seq(Message) /\ Head(q) \in Message
      /\ Head(q) = q[1] /\ Len(q) \in Nat \ {0}
      /\ Len(Tail(q)) = Len(q) - 1
      /\ \A i \in 1..Len(Tail(q)) : Tail(q)[i] = q[i + 1]
  BY HeadTailProperties, LenProperties, EmptySeq
<1>2. \A i \in 1..Len(q) : i = 1 \/ (i - 1 \in 1..Len(Tail(q)) /\ Tail(q)[i - 1] = q[i])
  BY <1>1
<1>3. QED BY <1>1, <1>2

\* One more message.
LEMMA AppendTells ==
    ASSUME NEW q \in Seq(Message), NEW msg \in Message, NEW h, NEW v
    PROVE  /\ /\ NothingNewer(q, h)
              /\ msg.type = "config_proposal" => OwnOrOlder(h, msg.config, msg.version)
              => NothingNewer(Append(q, msg), h)
           /\ Proposes(q, v) => Proposes(Append(q, msg), v)
           /\ msg.type = "config_proposal" => Proposes(Append(q, msg), msg.version)
<1> DEFINE k == Append(q, msg)
<1>1. /\ Len(q) \in Nat /\ Len(k) = Len(q) + 1
      /\ k[Len(q) + 1] = msg /\ \A i \in 1..Len(q) : k[i] = q[i]
  BY AppendFacts
<1> HIDE DEF k
<1>2. /\ \A i \in 1..Len(k) : i = Len(q) + 1 \/ i \in 1..Len(q)
      /\ \A i \in 1..Len(q) : i \in 1..Len(k)
      /\ Len(q) + 1 \in 1..Len(k)
  BY <1>1
<1>3. ASSUME NothingNewer(q, h),
             msg.type = "config_proposal" => OwnOrOlder(h, msg.config, msg.version)
      PROVE  NothingNewer(k, h)
  BY <1>1, <1>2, <1>3 DEF NothingNewer
<1>4. Proposes(q, v) => Proposes(k, v)
  BY <1>1, <1>2 DEF Proposes
<1>5. msg.type = "config_proposal" => Proposes(k, msg.version)
  BY <1>1, <1>2 DEF Proposes
<1>6. QED BY <1>3, <1>4, <1>5 DEF k

\* One message less.
LEMMA TailTells ==
    ASSUME NEW q \in Seq(Message), q # <<>>, NEW h, NEW v
    PROVE  /\ NothingNewer(q, h) => /\ NothingNewer(Tail(q), h)
                                    /\ Head(q).type = "config_proposal" =>
                                           OwnOrOlder(h, Head(q).config, Head(q).version)
           /\ Proposes(q, v) =>
                  \/ Proposes(Tail(q), v)
                  \/ Head(q).type = "config_proposal" /\ Head(q).version = v
<1> DEFINE k == Tail(q)
<1>1. /\ Head(q) = q[1] /\ Len(q) \in Nat \ {0}
      /\ Len(k) = Len(q) - 1
      /\ \A i \in 1..Len(k) : k[i] = q[i + 1]
      /\ \A i \in 1..Len(q) : i = 1 \/ (i - 1 \in 1..Len(k) /\ k[i - 1] = q[i])
  BY TailFacts
<1> HIDE DEF k
<1>2. (\A i \in 1..Len(k) : i + 1 \in 1..Len(q)) /\ 1 \in 1..Len(q)
  BY <1>1
<1>3. NothingNewer(q, h) => /\ NothingNewer(k, h)
                            /\ Head(q).type = "config_proposal" =>
                                   OwnOrOlder(h, Head(q).config, Head(q).version)
  BY <1>1, <1>2 DEF NothingNewer
<1>4. ASSUME Proposes(q, v)
      PROVE  Proposes(k, v) \/ (Head(q).type = "config_proposal" /\ Head(q).version = v)
  <2>1. PICK i \in 1..Len(q) : q[i].type = "config_proposal" /\ q[i].version = v
    BY <1>4 DEF Proposes
  <2>2. CASE i = 1
    BY <1>1, <2>1, <2>2
  <2>3. CASE i # 1
    BY <1>1, <2>1, <2>3 DEF Proposes
  <2>4. QED BY <2>2, <2>3
<1>5. QED BY <1>3, <1>4 DEF k

LEMMA EmptyTells == ASSUME NEW h PROVE NothingNewer(<<>>, h)
BY DEF NothingNewer

\* Settings that are old stay old when newer ones are proposed.
LEMMA ProposedIsNewer ==
    ASSUME NEW h \in Handshake, NEW d \in Settings
    PROVE  /\ \A c \in Settings, v \in Version :
                  OwnOrOlder(h, c, v) => OwnOrOlder(Propose(h, d), c, v)
           /\ Propose(h, d).version = h.version + 1 /\ Propose(h, d).config = d
           /\ \A v \in Version : v <= h.version => v # h.version + 1
BY DEF OwnOrOlder, Propose, Handshake, Version

LEMMA QueueIsNewer ==
    ASSUME NEW h \in Handshake, NEW d \in Settings, NEW q \in Seq(Message),
           NothingNewer(q, h)
    PROVE  NothingNewer(q, Propose(h, d))
<1> SUFFICES ASSUME NEW i \in 1..Len(q), q[i].type = "config_proposal"
             PROVE  OwnOrOlder(Propose(h, d), q[i].config, q[i].version)
  BY DEF NothingNewer
<1>1. q[i] \in Message
  BY ElementOfSeq
<1>2. q[i].version \in Version /\ q[i].config \in Settings
  BY <1>1, MessageKinds
<1>3. QED BY <1>2, ProposedIsNewer DEF NothingNewer

\* Sending leaves the queues' older messages where they are.
LEMMA SentTells ==
    ASSUME NEW queues \in [Node \X Node -> Seq(Message)], NEW n \in Node, NEW ps,
           NEW msg \in Message, NEW c \in Node \X Node, NEW h, NEW v
    PROVE  /\ /\ NothingNewer(queues[c], h)
              /\ msg.type = "config_proposal" => OwnOrOlder(h, msg.config, msg.version)
              => NothingNewer(Sent(queues, n, ps, msg)[c], h)
           /\ Proposes(queues[c], v) => Proposes(Sent(queues, n, ps, msg)[c], v)
           /\ /\ msg.type = "config_proposal"
              /\ c[1] = n /\ c[2] \in ps /\ {n, c[2]} \in up
              => Proposes(Sent(queues, n, ps, msg)[c], msg.version)
<1> DEFINE s == Sent(queues, n, ps, msg)
<1>1. s[c] = IF c[1] = n /\ c[2] \in ps /\ {n, c[2]} \in up
             THEN Append(queues[c], msg) ELSE queues[c]
  BY DEF Sent
<1> HIDE DEF s
<1>2. queues[c] \in Seq(Message)
  OBVIOUS
<1>3. CASE c[1] = n /\ c[2] \in ps /\ {n, c[2]} \in up
  BY <1>1, <1>2, <1>3, AppendTells DEF s
<1>4. CASE ~ (c[1] = n /\ c[2] \in ps /\ {n, c[2]} \in up)
  BY <1>1, <1>4 DEF s
<1>5. QED BY <1>3, <1>4

-----------------------------------------------------------------------------
LEMMA InitAgrees == ASSUME NEW p \in Node PROVE Init => AgreeInv(p)
<1> SUFFICES ASSUME Init PROVE AgreeInv(p)
  OBVIOUS
<1>1. TypeOK
  BY InitTypes
<1>2. \A n \in Node : hs[n].version = 0 /\ hs[n].config = Default
  BY DEF Init, InitialHandshake
<1>3. \A c \in Node \X Node : NothingNewer(net[c], hs[p])
  BY EmptyTells DEF Init
<1>4. AllFrom(p)
  BY <1>2, <1>3 DEF AllFrom, OwnOrOlder
<1>5. ReachedAreTold(p)
  BY <1>2 DEF ReachedAreTold, Told
<1>6. LostIsNoticed
  <2> SUFFICES ASSUME NEW n \in Node, NEW m \in Node, n # m PROVE {n, m} \in Links
    BY DEF LostIsNoticed, Init
  <2>1. IsFiniteSet({n, m}) /\ Cardinality({n, m}) = 2
    <3>1. IsFiniteSet({n}) /\ Cardinality({n}) = 1
      BY FS_Singleton
    <3>2. {n, m} = {n} \cup {m} /\ m \notin {n}
      OBVIOUS
    <3>3. QED BY <3>1, <3>2, FS_AddElement
  <2>2. QED BY <2>1 DEF Links
<1>7. QED BY <1>1, <1>4, <1>5, <1>6 DEF AgreeInv

\* What is own or older depends on the version and the settings alone.
LEMMA SameSettings ==
    ASSUME NEW h, NEW g, h.version = g.version, h.config = g.config
    PROVE  /\ \A c, v : OwnOrOlder(h, c, v) <=> OwnOrOlder(g, c, v)
           /\ \A q : NothingNewer(q, h) <=> NothingNewer(q, g)
BY DEF OwnOrOlder, NothingNewer

\* AllFrom and ReachedAreTold for a step that leaves every player's settings and
\* version, and takes nothing out of a queue.
LEMMA QuietStep ==
    ASSUME NEW p \in Node, AgreeInv(p), TypeOK',
           \A n \in Node : hs'[n].version = hs[n].version /\ hs'[n].config = hs[n].config,
           \A c \in Node \X Node : NothingNewer(net'[c], hs[p]),
           \A n \in Node : n # p /\ n \in peers'[p] /\ {n, p} \in up' =>
               \/ Told(p, n)
                  /\ (Proposes(net[<<p, n>>], hs[p].version)
                      => Proposes(net'[<<p, n>>], hs[p].version))
               \/ Proposes(net'[<<p, n>>], hs[p].version)
    PROVE  AllFrom(p)' /\ ReachedAreTold(p)'
<1>1. /\ \A c, v : OwnOrOlder(hs'[p], c, v) <=> OwnOrOlder(hs[p], c, v)
      /\ \A q : NothingNewer(q, hs'[p]) <=> NothingNewer(q, hs[p])
  BY SameSettings
<1>2. AllFrom(p)'
  BY <1>1 DEF AllFrom, AgreeInv
<1>3. ReachedAreTold(p)'
  BY DEF ReachedAreTold, Told
<1>4. QED BY <1>2, <1>3

LEMMA SetConfigAgrees ==
    ASSUME NEW p \in Node, Proposers \subseteq {p}, AgreeInv(p), TypeOK',
           NEW m \in Node, NEW d \in Settings, SetConfig(m, d)
    PROVE  AgreeInv(p)'
<1> DEFINE h == Propose(hs[p], d)
<1>0. m = p /\ TypeOK /\ hs[p] \in Handshake /\ hs \in [Node -> Handshake]
      /\ net \in [Node \X Node -> Seq(Message)]
  BY DEF SetConfig, AgreeInv, TypeOK
<1>1. /\ hs' = [hs EXCEPT ![p] = h]
      /\ net' = Sent(net, p, peers[p], ProposalOf(h))
      /\ peers' = peers /\ up' = up
  BY <1>0 DEF SetConfig
<1>2. h \in Handshake /\ ProposalOf(h) \in Message
      /\ ProposalOf(h).type = "config_proposal" /\ ProposalOf(h).version = h.version
      /\ ProposalOf(h).config = h.config
  BY <1>0, ProposeType, ProposalOfType DEF ProposalOf
<1>3. /\ \A c \in Settings, v \in Version :
             OwnOrOlder(hs[p], c, v) => OwnOrOlder(h, c, v)
      /\ \A c \in Node \X Node : NothingNewer(net[c], h)
  BY <1>0, ProposedIsNewer, QueueIsNewer DEF AgreeInv, AllFrom
<1>4. OwnOrOlder(h, h.config, h.version)
  BY <1>2 DEF OwnOrOlder, Handshake, Version
<1> HIDE DEF h
<1>5. hs'[p] = h /\ \A n \in Node : n # p => hs'[n] = hs[n]
  BY <1>0, <1>1
<1>6. \A c \in Node \X Node : NothingNewer(net'[c], h)
  BY <1>0, <1>1, <1>2, <1>3, <1>4, SentTells
<1>7. \A n \in Node : OwnOrOlder(h, hs'[n].config, hs'[n].version)
  BY <1>0, <1>3, <1>4, <1>5 DEF AgreeInv, AllFrom, Handshake
<1>8. OwnOrOlder(h, Default, 0)
  BY <1>0, <1>3, SettingsAssumption DEF AgreeInv, AllFrom, Version
<1>9. AllFrom(p)'
  BY <1>5, <1>6, <1>7, <1>8 DEF AllFrom
<1>10. ReachedAreTold(p)'
  <2> SUFFICES ASSUME NEW n \in Node, n # p, n \in peers[p], {n, p} \in up
               PROVE  Proposes(net'[<<p, n>>], h.version)
    BY <1>1, <1>5 DEF ReachedAreTold, Told
  <2> DEFINE c == <<p, n>>
  <2>1. c \in Node \X Node /\ c[1] = p /\ c[2] = n /\ {p, c[2]} \in up
    <3>1. {p, n} = {n, p}
      OBVIOUS
    <3>2. QED BY <3>1
  <2> HIDE DEF c
  <2>2. Proposes(Sent(net, p, peers[p], ProposalOf(h))[c], ProposalOf(h).version)
    BY <1>0, <1>2, <2>1, SentTells
  <2>3. QED BY <1>1, <1>2, <2>2 DEF c
<1>11. LostIsNoticed'
  BY <1>1 DEF LostIsNoticed, AgreeInv
<1>12. QED BY <1>9, <1>10, <1>11 DEF AgreeInv

LEMMA AcceptConfigAgrees ==
    ASSUME NEW p \in Node, AgreeInv(p), TypeOK', NEW m \in Node, AcceptConfig(m)
    PROVE  AgreeInv(p)'
<1> DEFINE msg == AcceptOf(hs[m].version)
<1>0. hs \in [Node -> Handshake] /\ net \in [Node \X Node -> Seq(Message)]
  BY DEF AgreeInv, TypeOK
<1>1. /\ hs' = [hs EXCEPT ![m] = AcceptCurrent(hs[m])]
      /\ net' = Sent(net, m, peers[m], msg)
      /\ peers' = peers /\ up' = up
  BY DEF AcceptConfig
<1>2. msg \in Message /\ msg.type # "config_proposal"
  <2>1. hs[m].version \in Version
    BY <1>0 DEF Handshake
  <2>2. QED BY <2>1, AcceptOfType DEF AcceptOf
<1> HIDE DEF msg
<1>3. \A n \in Node : hs'[n].version = hs[n].version /\ hs'[n].config = hs[n].config
  BY <1>0, <1>1 DEF AcceptCurrent, Handshake
<1>4. \A c \in Node \X Node : NothingNewer(net'[c], hs[p])
  BY <1>0, <1>1, <1>2, SentTells DEF AgreeInv, AllFrom
<1>5. \A c \in Node \X Node : \A v : Proposes(net[c], v) => Proposes(net'[c], v)
  BY <1>0, <1>1, <1>2, SentTells
<1>6. AllFrom(p)' /\ ReachedAreTold(p)'
  <2>1. \A n \in Node : n # p /\ n \in peers'[p] /\ {n, p} \in up' =>
               Told(p, n) /\ (Proposes(net[<<p, n>>], hs[p].version)
                              => Proposes(net'[<<p, n>>], hs[p].version))
    BY <1>1, <1>5 DEF AgreeInv, ReachedAreTold
  <2>2. QED BY <1>3, <1>4, <2>1, QuietStep
<1>7. LostIsNoticed'
  BY <1>1 DEF LostIsNoticed, AgreeInv
<1>8. QED BY <1>6, <1>7 DEF AgreeInv

LEMMA ConnectAgrees ==
    ASSUME NEW p \in Node, AgreeInv(p), TypeOK', NEW l \in Links, Connect(l)
    PROVE  AgreeInv(p)'
<1>1. UNCHANGED <<hs, peers, net>> /\ up' = up \cup {l}
  BY DEF Connect
<1>2. \A n \in Node : {n, p} \in up' /\ n \in peers[p] => {n, p} \in up
  BY <1>1 DEF Connect
<1>3. AllFrom(p)'
  BY <1>1 DEF AllFrom, AgreeInv
<1>4. ReachedAreTold(p)'
  BY <1>1, <1>2 DEF ReachedAreTold, Told, AgreeInv
<1>5. LostIsNoticed'
  BY <1>1 DEF LostIsNoticed, AgreeInv
<1>6. QED BY <1>3, <1>4, <1>5 DEF AgreeInv

LEMMA AddPeerAgrees ==
    ASSUME NEW p \in Node, AgreeInv(p), TypeOK', NEW m \in Node, NEW n \in Node,
           AddPeer(m, n)
    PROVE  AgreeInv(p)'
<1> DEFINE msg == ProposalOf(hs[m])
<1>0. hs \in [Node -> Handshake] /\ net \in [Node \X Node -> Seq(Message)]
      /\ peers \in [Node -> SUBSET Node]
  BY DEF AgreeInv, TypeOK
<1>1. /\ hs' = hs /\ up' = up /\ {m, n} \in up
      /\ peers' = [peers EXCEPT ![m] = @ \cup {n}]
      /\ net' = Sent(net, m, {n}, msg)
  BY DEF AddPeer
<1>2. msg \in Message /\ msg.type = "config_proposal"
      /\ msg.version = hs[m].version /\ msg.config = hs[m].config
  BY <1>0, ProposalOfType DEF ProposalOf
<1> HIDE DEF msg
<1>3. OwnOrOlder(hs[p], msg.config, msg.version)
  BY <1>2 DEF AgreeInv, AllFrom
<1>4. \A c \in Node \X Node : NothingNewer(net'[c], hs[p])
  BY <1>0, <1>1, <1>2, <1>3, SentTells DEF AgreeInv, AllFrom
<1>5. \A c \in Node \X Node : \A v : Proposes(net[c], v) => Proposes(net'[c], v)
  BY <1>0, <1>1, <1>2, SentTells
<1>6. ASSUME NEW k \in Node, k # p, k \in peers'[p], {k, p} \in up'
      PROVE  \/ Told(p, k)
                /\ (Proposes(net[<<p, k>>], hs[p].version)
                    => Proposes(net'[<<p, k>>], hs[p].version))
             \/ Proposes(net'[<<p, k>>], hs[p].version)
  <2>1. CASE k \in peers[p]
    BY <1>1, <1>5, <1>6, <2>1 DEF AgreeInv, ReachedAreTold
  <2>2. CASE k \notin peers[p]
    <3> DEFINE c == <<p, k>>
    <3>1. m = p /\ n = k
      BY <1>0, <1>1, <1>6, <2>2
    <3>2. c \in Node \X Node /\ c[1] = m /\ c[2] \in {n} /\ {m, c[2]} \in up
      BY <1>1, <3>1
    <3> HIDE DEF c
    <3>3. Proposes(Sent(net, m, {n}, msg)[c], msg.version)
      BY <1>0, <1>2, <3>2, SentTells
    <3>4. QED BY <1>1, <1>2, <3>1, <3>3 DEF c
  <2>3. QED BY <2>1, <2>2
<1>7. AllFrom(p)' /\ ReachedAreTold(p)'
  BY <1>1, <1>4, <1>6, QuietStep
<1>8. LostIsNoticed'
  <2> SUFFICES ASSUME NEW a \in Node, NEW b \in Node, a # b,
                      a \in peers'[b], b \in peers'[a]
               PROVE  {a, b} \in up
    BY <1>1 DEF LostIsNoticed
  <2>1. CASE a \in peers[b] /\ b \in peers[a]
    BY <2>1 DEF LostIsNoticed, AgreeInv
  <2>2. CASE a \notin peers[b]
    <3>1. b = m /\ a = n
      BY <1>0, <1>1, <2>2
    <3>2. {a, b} = {m, n}
      BY <3>1
    <3>3. QED BY <1>1, <3>2
  <2>3. CASE b \notin peers[a]
    <3>1. a = m /\ b = n
      BY <1>0, <1>1, <2>3
    <3>2. QED BY <1>1, <3>1
  <2>4. QED BY <2>1, <2>2, <2>3
<1>9. QED BY <1>7, <1>8 DEF AgreeInv

LEMMA PeerDisconnectsAgrees ==
    ASSUME NEW p \in Node, AgreeInv(p), TypeOK', NEW m \in Node, NEW n \in Node,
           PeerDisconnects(m, n)
    PROVE  AgreeInv(p)'
<1>0. net \in [Node \X Node -> Seq(Message)] /\ peers \in [Node -> SUBSET Node]
  BY DEF AgreeInv, TypeOK
<1>1. /\ hs' = hs /\ up' = up /\ {m, n} \notin up
      /\ peers' = [peers EXCEPT ![m] = @ \ {n}]
      /\ net' = [net EXCEPT ![<<n, m>>] = <<>>]
  BY DEF PeerDisconnects
<1>2. \A c \in Node \X Node : net'[c] = net[c] \/ (net'[c] = <<>> /\ c = <<n, m>>)
  BY <1>0, <1>1
<1>3. \A k \in Node : k \in peers'[p] => k \in peers[p]
  BY <1>0, <1>1
<1>4. \A c \in Node \X Node : NothingNewer(net'[c], hs[p])
  BY <1>2, EmptyTells DEF AgreeInv, AllFrom
<1>5. ASSUME NEW k \in Node, k # p, k \in peers'[p], {k, p} \in up'
      PROVE  Told(p, k) /\ net'[<<p, k>>] = net[<<p, k>>]
  <2>1. Told(p, k)
    BY <1>1, <1>3, <1>5 DEF AgreeInv, ReachedAreTold
  <2>2. <<p, k>> # <<n, m>>
    BY <1>1, <1>5
  <2>3. QED BY <1>2, <2>1, <2>2
<1>6. AllFrom(p)' /\ ReachedAreTold(p)'
  BY <1>1, <1>4, <1>5, QuietStep
<1>7. LostIsNoticed'
  BY <1>0, <1>1 DEF LostIsNoticed, AgreeInv
<1>8. QED BY <1>6, <1>7 DEF AgreeInv

LEMMA RestartAgrees ==
    ASSUME NEW p \in Node, p \notin MayRestart, AgreeInv(p), TypeOK',
           NEW m \in Node, Restart(m)
    PROVE  AgreeInv(p)'
<1>0. /\ net \in [Node \X Node -> Seq(Message)] /\ peers \in [Node -> SUBSET Node]
      /\ hs \in [Node -> Handshake] /\ m # p
  BY DEF AgreeInv, TypeOK, Restart
<1>1. /\ hs' = [hs EXCEPT ![m] = InitialHandshake]
      /\ peers' = [peers EXCEPT ![m] = {}]
      /\ up' = {l \in up : m \notin l}
      /\ net' = [c \in Node \X Node |-> IF c[2] = m THEN <<>> ELSE net[c]]
  BY DEF Restart
<1>2. /\ hs'[p] = hs[p] /\ peers'[p] = peers[p]
      /\ \A n \in Node : n # m => hs'[n] = hs[n]
      /\ hs'[m].version = 0 /\ hs'[m].config = Default
  BY <1>0, <1>1 DEF InitialHandshake
<1>3. \A c \in Node \X Node : NothingNewer(net'[c], hs[p])
  BY <1>1, EmptyTells DEF AgreeInv, AllFrom
<1>4. AllFrom(p)'
  BY <1>2, <1>3 DEF AgreeInv, AllFrom
<1>5. ReachedAreTold(p)'
  <2> SUFFICES ASSUME NEW n \in Node, n # p, n \in peers[p], {n, p} \in up'
               PROVE  Told(p, n)'
    BY <1>2 DEF ReachedAreTold
  <2>1. n # m /\ {n, p} \in up
    BY <1>1
  <2>2. net'[<<p, n>>] = net[<<p, n>>]
    BY <1>1, <2>1
  <2>3. QED BY <1>2, <2>1, <2>2 DEF AgreeInv, ReachedAreTold, Told
<1>6. LostIsNoticed'
  <2> SUFFICES ASSUME NEW a \in Node, NEW b \in Node, a # b,
                      a \in peers'[b], b \in peers'[a]
               PROVE  {a, b} \in up'
    BY DEF LostIsNoticed
  <2>1. a # m /\ b # m /\ a \in peers[b] /\ b \in peers[a]
    BY <1>0, <1>1
  <2>2. {a, b} \in up
    BY <2>1 DEF LostIsNoticed, AgreeInv
  <2>3. QED BY <1>1, <2>1, <2>2
<1>7. QED BY <1>4, <1>5, <1>6 DEF AgreeInv

\* Whoever receives a proposal is at least at its version afterwards.
LEMMA ReceivedVersions ==
    ASSUME NEW n \in Node, NEW m \in Node, TypeOK, Receive(m, n)
    PROVE  /\ \A k \in Node : k # n => hs'[k] = hs[k]
           /\ \/ /\ hs'[n].version = hs[n].version /\ hs'[n].config = hs[n].config
                 /\ Head(net[<<m, n>>]).type = "config_proposal"
                    => Head(net[<<m, n>>]).version < hs[n].version
              \/ /\ Head(net[<<m, n>>]).type = "config_proposal"
                 /\ Head(net[<<m, n>>]).version >= hs[n].version
                 /\ hs'[n].version = Head(net[<<m, n>>]).version
                 /\ hs'[n].config = Head(net[<<m, n>>]).config
<1> DEFINE msg    == Head(net[<<m, n>>])
           queues == [net EXCEPT ![<<m, n>>] = Tail(@)]
<1>0. hs \in [Node -> Handshake] /\ \A k \in Node : hs[k].version \in Nat
  BY DEF TypeOK, Handshake, Version
<1>1. msg \in Message /\ msg.version \in Nat
  BY ReceivedType, MessageKinds DEF Receive, TypeOK, Version
<1>2. IF msg.type = "config_proposal" THEN HandleProposal(n, m, msg, queues)
                                      ELSE HandleAccept(n, m, msg, queues)
  BY DEF Receive
<1> HIDE DEF msg, queues
<1>3. CASE msg.type = "config_proposal" /\ IsStale(hs[n], msg.version)
  BY <1>0, <1>2, <1>3 DEF HandleProposal, IsStale, msg
<1>4. CASE msg.type = "config_proposal" /\ ~ IsStale(hs[n], msg.version)
  <2>1. hs' = [hs EXCEPT ![n] = ReceiveProposal(hs[n], m, msg.config, msg.version)]
    BY <1>2, <1>4 DEF HandleProposal
  <2>2. hs'[n].version = msg.version /\ hs'[n].config = msg.config
    BY <1>0, <2>1 DEF ReceiveProposal
  <2>3. msg.version >= hs[n].version
    BY <1>0, <1>1, <1>4 DEF IsStale
  <2>4. \A k \in Node : k # n => hs'[k] = hs[k]
    BY <1>0, <2>1
  <2>5. QED BY <1>4, <2>2, <2>3, <2>4 DEF msg
<1>5. CASE msg.type # "config_proposal"
  <2>1. hs' = [hs EXCEPT ![n] = ReceiveAccept(hs[n], m, msg.version)]
    BY <1>2, <1>5 DEF HandleAccept
  <2>2. ReceiveAccept(hs[n], m, msg.version).version = hs[n].version
        /\ ReceiveAccept(hs[n], m, msg.version).config = hs[n].config
    BY <1>0 DEF ReceiveAccept, Handshake
  <2>3. QED BY <1>0, <1>5, <2>1, <2>2 DEF msg
<1>6. QED BY <1>3, <1>4, <1>5

\* ... and the queues it leaves.
LEMMA ReceivedQueues ==
    ASSUME NEW n \in Node, NEW m \in Node, TypeOK, Receive(m, n), NEW h, NEW v,
           \A c \in Node \X Node : NothingNewer(net[c], h)
    PROVE  /\ \A c \in Node \X Node :
                  /\ NothingNewer(net'[c], h)
                  /\ c # <<m, n>> /\ Proposes(net[c], v) => Proposes(net'[c], v)
           /\ Proposes(net[<<m, n>>], v) =>
                  \/ Proposes(net'[<<m, n>>], v)
                  \/ /\ Head(net[<<m, n>>]).type = "config_proposal"
                     /\ Head(net[<<m, n>>]).version = v
           /\ Head(net[<<m, n>>]).type = "config_proposal" =>
                  OwnOrOlder(h, Head(net[<<m, n>>]).config, Head(net[<<m, n>>]).version)
<1> DEFINE msg    == Head(net[<<m, n>>])
           queues == [net EXCEPT ![<<m, n>>] = Tail(@)]
           answer == AcceptOf(msg.version)
<1>1. /\ <<m, n>> \in Node \X Node /\ net[<<m, n>>] # <<>>
      /\ net \in [Node \X Node -> Seq(Message)]
      /\ msg \in Message /\ queues \in [Node \X Node -> Seq(Message)]
  BY ReceivedType DEF Receive, TypeOK
<1>2. answer \in Message /\ answer.type # "config_proposal"
  BY <1>1, MessageKinds, AcceptOfType DEF AcceptOf
<1>3. net' = queues \/ net' = Sent(queues, n, peers[n], answer)
  BY DEF Receive, HandleProposal, HandleAccept
<1>4. \A c \in Node \X Node : queues[c] = IF c = <<m, n>> THEN Tail(net[c]) ELSE net[c]
  BY <1>1
<1> HIDE DEF queues, answer
<1>5. /\ NothingNewer(Tail(net[<<m, n>>]), h)
      /\ msg.type = "config_proposal" => OwnOrOlder(h, msg.config, msg.version)
      /\ Proposes(net[<<m, n>>], v) =>
             \/ Proposes(Tail(net[<<m, n>>]), v)
             \/ msg.type = "config_proposal" /\ msg.version = v
  <2>1. net[<<m, n>>] \in Seq(Message) /\ NothingNewer(net[<<m, n>>], h)
    BY <1>1
  <2>2. QED BY <1>1, <2>1, TailTells
<1>6. \A c \in Node \X Node : NothingNewer(queues[c], h)
  BY <1>4, <1>5
<1>7. \A c \in Node \X Node : /\ NothingNewer(net'[c], h)
                              /\ Proposes(queues[c], v) => Proposes(net'[c], v)
  <2>1. CASE net' = queues
    BY <1>6, <2>1
  <2>2. CASE net' = Sent(queues, n, peers[n], answer)
    BY <1>1, <1>2, <1>6, <2>2, SentTells
  <2>3. QED BY <1>3, <2>1, <2>2
<1>8. QED BY <1>1, <1>4, <1>5, <1>7

LEMMA ReceiveAgrees ==
    ASSUME NEW p \in Node, AgreeInv(p), TypeOK', NEW n \in Node, NEW m \in Node,
           Receive(m, n)
    PROVE  AgreeInv(p)'
<1> DEFINE msg == Head(net[<<m, n>>])
           v   == hs[p].version
<1>0. /\ TypeOK /\ peers' = peers /\ up' = up
      /\ \A k \in Node : hs[k].version \in Nat
      /\ msg.version \in Nat
  <2>1. TypeOK /\ peers' = peers /\ up' = up
    BY DEF AgreeInv, Receive
  <2>2. QED BY <2>1, ReceivedType, MessageKinds DEF Receive, TypeOK, Handshake, Version
<1>1. /\ \A c \in Node \X Node :
             /\ NothingNewer(net'[c], hs[p])
             /\ c # <<m, n>> /\ Proposes(net[c], v) => Proposes(net'[c], v)
      /\ Proposes(net[<<m, n>>], v) =>
             \/ Proposes(net'[<<m, n>>], v)
             \/ msg.type = "config_proposal" /\ msg.version = v
      /\ msg.type = "config_proposal" => OwnOrOlder(hs[p], msg.config, msg.version)
  BY <1>0, ReceivedQueues DEF AgreeInv, AllFrom
<1>2. /\ \A k \in Node : k # n => hs'[k] = hs[k]
      /\ \/ /\ hs'[n].version = hs[n].version /\ hs'[n].config = hs[n].config
            /\ msg.type = "config_proposal" => msg.version < hs[n].version
         \/ /\ msg.type = "config_proposal" /\ msg.version >= hs[n].version
            /\ hs'[n].version = msg.version /\ hs'[n].config = msg.config
  BY <1>0, ReceivedVersions
<1>3. \A k \in Node : OwnOrOlder(hs[p], hs[k].config, hs[k].version)
  BY DEF AgreeInv, AllFrom
<1> HIDE DEF msg
<1>4. hs'[p].version = v /\ hs'[p].config = hs[p].config
  BY <1>0, <1>1, <1>2 DEF OwnOrOlder
<1>5. \A k \in Node : OwnOrOlder(hs[p], hs'[k].config, hs'[k].version)
  BY <1>1, <1>2, <1>3
<1>6. AllFrom(p)'
  <2>1. /\ \A c, w : OwnOrOlder(hs'[p], c, w) <=> OwnOrOlder(hs[p], c, w)
        /\ \A q : NothingNewer(q, hs'[p]) <=> NothingNewer(q, hs[p])
    BY <1>4, SameSettings
  <2>2. QED BY <1>1, <1>5, <2>1 DEF AllFrom, AgreeInv
<1>7. ReachedAreTold(p)'
  <2> SUFFICES ASSUME NEW k \in Node, k # p, k \in peers[p], {k, p} \in up
               PROVE  hs'[k].version = v \/ Proposes(net'[<<p, k>>], v)
    BY <1>0, <1>4 DEF ReachedAreTold, Told
  <2>1. Told(p, k)
    BY DEF AgreeInv, ReachedAreTold
  <2>2. CASE hs[k].version = v
    BY <1>0, <1>1, <1>2, <2>2 DEF OwnOrOlder
  <2>3. CASE Proposes(net[<<p, k>>], v) /\ <<p, k>> # <<m, n>>
    BY <1>1, <2>3
  <2>4. CASE Proposes(net[<<p, k>>], v) /\ <<p, k>> = <<m, n>>
    <3>0. k = n
      BY <2>4, Zenon
    <3>1. \/ Proposes(net'[<<p, k>>], v)
          \/ msg.type = "config_proposal" /\ msg.version = v
      BY <1>1, <2>4, <3>0
    <3>2. CASE msg.type = "config_proposal" /\ msg.version = v
      <4>1. hs[n].version <= v
        BY <1>3 DEF OwnOrOlder
      <4>2. QED BY <1>0, <1>2, <3>0, <3>2, <4>1
    <3>3. QED BY <3>1, <3>2
  <2>5. QED BY <2>1, <2>2, <2>3, <2>4 DEF Told
<1>8. LostIsNoticed'
  BY <1>0 DEF LostIsNoticed, AgreeInv
<1>9. QED BY <1>6, <1>7, <1>8 DEF AgreeInv

LEMMA NextAgrees ==
    ASSUME NEW p, OnlyProposer(p)
    PROVE  AgreeInv(p) /\ [Next]_vars => AgreeInv(p)'
<1> SUFFICES ASSUME AgreeInv(p), [Next]_vars PROVE AgreeInv(p)'
  OBVIOUS
<1>0. p \in Node /\ Proposers \subseteq {p} /\ p \notin MayRestart
  BY DEF OnlyProposer
<1>1. TypeOK'
  BY NextTypes DEF AgreeInv
<1>2. ASSUME NEW n \in Node, NEW c \in Settings, SetConfig(n, c) PROVE AgreeInv(p)'
  BY <1>0, <1>1, <1>2, SetConfigAgrees
<1>3. ASSUME NEW n \in Node, AcceptConfig(n) PROVE AgreeInv(p)'
  BY <1>0, <1>1, <1>3, AcceptConfigAgrees
<1>4. ASSUME NEW n \in Node, Ready(n) \/ Unready(n) PROVE AgreeInv(p)'
  BY <1>1, <1>4
     DEF Ready, Unready, AgreeInv, AllFrom, ReachedAreTold, Told, LostIsNoticed
<1>5. ASSUME NEW n \in Node, NEW m \in Node, Receive(m, n) PROVE AgreeInv(p)'
  BY <1>0, <1>1, <1>5, ReceiveAgrees
<1>6. ASSUME NEW l \in Links, Connect(l) PROVE AgreeInv(p)'
  BY <1>0, <1>1, <1>6, ConnectAgrees
<1>7. ASSUME NEW n \in Node, NEW m \in Node, AddPeer(n, m) PROVE AgreeInv(p)'
  BY <1>0, <1>1, <1>7, AddPeerAgrees
<1>8. ASSUME NEW n \in Node, NEW m \in Node, PeerDisconnects(n, m) PROVE AgreeInv(p)'
  BY <1>0, <1>1, <1>8, PeerDisconnectsAgrees
<1>9. ASSUME NEW n \in Node, Restart(n) PROVE AgreeInv(p)'
  BY <1>0, <1>1, <1>9, RestartAgrees
<1>10. CASE UNCHANGED vars
  BY <1>1, <1>10
     DEF vars, AgreeInv, AllFrom, ReachedAreTold, Told, LostIsNoticed
<1>11. QED
  BY <1>2, <1>3, <1>4, <1>5, <1>6, <1>7, <1>8, <1>9, <1>10 DEF Next

LEMMA AgreeInvAgrees ==
    ASSUME NEW p \in Node
    PROVE  AgreeInv(p) => ReadyPlayersAgree
<1> SUFFICES ASSUME AgreeInv(p), EveryoneReady PROVE \A n \in Node : hs[n].config = hs[p].config
  BY DEF ReadyPlayersAgree
<1> TAKE n \in Node
<1>1. CASE n = p
  BY <1>1
<1>2. CASE n # p
  <2>1. {n, p} \in up /\ n \in peers[p]
    BY <1>2 DEF EveryoneReady, LostIsNoticed, AgreeInv
  <2>2. net[<<p, n>>] = <<>>
    BY DEF EveryoneReady
  <2>3. hs[n].version = hs[p].version
    BY <1>2, <2>1, <2>2 DEF AgreeInv, ReachedAreTold, Told, Proposes
  <2>4. QED BY <2>3 DEF AgreeInv, AllFrom, OwnOrOlder
<1>3. QED BY <1>1, <1>2

\* The player that sends its setConfig to the peers it reaches, and its settings
\* to whoever it adds (node.ts), leaves nobody behind: when everyone has pressed
\* Ready they have its settings, however often it proposed and whoever of the
\* others restarted.
THEOREM OneProposerAgrees ==
    ASSUME NEW p, OnlyProposer(p)
    PROVE  Spec => []ReadyPlayersAgree
<1>1. Init => AgreeInv(p)
  BY InitAgrees DEF OnlyProposer
<1>2. AgreeInv(p) /\ [Next]_vars => AgreeInv(p)'
  BY NextAgrees
<1>3. AgreeInv(p) => ReadyPlayersAgree
  BY AgreeInvAgrees DEF OnlyProposer
<1>4. QED BY <1>1, <1>2, <1>3, PTL DEF Spec

=============================================================================
