--------------------------- MODULE ConfigHandshake ---------------------------
(***************************************************************************)
(* One player's side of the settings handshake (core/config-handshake.ts): *)
(* the settings, their version, and who has accepted that version.  A      *)
(* handshake h is a record; the methods are operators from h to a new one. *)
(* Settings are [vote |-> ..., resign |-> ...]: the vote window and the    *)
(* revotes, and the resign vote's threshold and window, which some of the  *)
(* code tells apart.  All are in range, which every proposer checks of its *)
(* own, but for resign parts that are no numbers (see Screen).             *)
(***************************************************************************)
EXTENDS Integers, FiniteSets

CONSTANTS Node,      \* the players that may ever be in the lobby
          Settings,  \* the settings they may propose
          Default    \* the settings everyone starts with

ASSUME NodeAssumption == IsFiniteSet(Node)
ASSUME SettingsAssumption ==
    /\ Default \in Settings
    /\ \A c \in Settings : c = [vote |-> c.vote, resign |-> c.resign]

None == -1     \* no version accepted

Version   == Nat
Handshake == [config   : Settings,
              version  : Version,
              self     : Version \cup {None},            \* what we accepted
              accepted : [Node -> Version \cup {None}]]  \* what peers accepted

InitialHandshake ==
    [config |-> Default, version |-> 0, self |-> 0,
     accepted |-> [p \in Node |-> None]]

\* Our own proposal: a higher version, which we accept and nobody else has.
Propose(h, c) ==
    [config |-> c, version |-> h.version + 1, self |-> h.version + 1,
     accepted |-> [p \in Node |-> None]]

AcceptCurrent(h) == [h EXCEPT !.self = h.version]

\* Mutant: no proposal is too old.
NeverStale(h, v) == FALSE

IsStale(h, v) == v < h.version

\* The vote settings are the ones we already accepted under this version.
SameConfig(h, c, v) ==
    v = h.version /\ c.vote = h.config.vote /\ h.self = h.version

\* A proposal that is not stale replaces our settings, also under the version we
\* have; accepts of older versions are dropped, those of this one are kept.
ReceiveProposal(h, sender, c, v) ==
    [config   |-> c,
     version  |-> v,
     self     |-> IF SameConfig(h, c, v) THEN v ELSE None,
     accepted |-> [p \in Node |-> IF p = sender THEN v
                                  ELSE IF h.accepted[p] < v THEN None
                                  ELSE h.accepted[p]]]

\* Mutant: an accept that overtook its proposal is not kept.
ReceiveAcceptInOrder(h, sender, v) ==
    IF v # h.version THEN h ELSE [h EXCEPT !.accepted[sender] = v]

\* An accept of a version we have not seen yet is kept until it is proposed.
ReceiveAccept(h, sender, v) ==
    IF IsStale(h, v) THEN h ELSE [h EXCEPT !.accepted[sender] = v]

\* We and every one of these peers accepted the current settings.
AllAccepted(h, peers) ==
    \/ peers = {}
    \/ /\ h.self = h.version
       /\ \A p \in peers : h.accepted[p] = h.version

=============================================================================
