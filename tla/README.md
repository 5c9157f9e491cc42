# Chess-Democracy in TLA+

Chess-Democracy is a chess game in which each side is a team: the players of the
side to move vote, and the winning move is played. There is no server. Every
player runs a *node*; nodes connect to each other directly, and the protocol
between them lives in `chess-democracy-core` (TypeScript, `src/core/node.ts`).
This directory holds TLA+ models of that protocol, the TLC runs that check them
on small instances, and TLAPS proofs of what holds for every instance.

Paths below are relative to `chess-democracy-core/src` unless they say otherwise.

## 1. The system

| Component | State | Operations | Where |
|---|---|---|---|
| Game in progress | phase, history, the open vote window (turn, round, signed votes, close), resync grace, timers | cast a vote; handle vote, tally_result, game_snapshot, game_over; window due; revote; move limit | `core/node.ts`, `game/voting-state.ts` |
| Counting | none (pure) | `tallyMoves`, `checkVote`, `verifyTally` | `game/voting-state.ts`, `game/verify-tally.ts` |
| Roster | the game's players and sides | record, clear, playing, master, hasQuorum | `core/roster.ts` |
| Game record | phase, board, moves, result | setSide, ready/unready, countdown, begin, applyMove, finish, reset | `game/game-state.ts` |
| Settings handshake | config, version, our accept, peers' accepts | propose, accept, receive both, allAccepted, reset | `core/config-handshake.ts` |
| Lobby | sides, ready flags, ready check, countdown | ready, unready, ready check, game_start, reset | `core/node.ts` 392-520, 942-976, 1153-1204 |
| Resign vote | yes-votes, expiry | cast, receive, threshold, expire | `core/resign-vote.ts`, `core/node.ts` 1078-1151 |
| Draw offers | which side's offer is out | offer, answer, receive both | `core/node.ts` 186-211, 304-320 |
| Peer table | one connection per peer, alive or dead | add, replace, disconnect, ghost sweep | `core/node.ts` 1218-1305, `network/base-network-controller.ts` |
| Messages | seen nonces | sign, broadcast, verify, dispatch | `network/message-service.ts`, `network/peer-messaging.ts` |
| LAN transport | dials, retries | discovery, handshake, reconnect | `network/localnetwork/*` |
| Internet transport | swarm connections, listings | hello, framing, announce, expire | `network/globalnetwork/*` |
| Clock | offset to the lowest key | one request and answer | `network/peer-messaging.ts` 154-229 |
| Main process | the node, whether one is logged in | connectNetwork, leave, log out; requests and pushed events | `chess-democracy-electron/main.ts`, `src/ipc-channels.ts` |
| Renderer | a store, a replica of the node's state | hydration, pushed events, clicks | `chess-democracy-electron/ReactChessDemocracy/src` |

Nodes interact by signed messages over one connection per pair, in order on a
connection, with no acknowledgement and no resending: what is sent on a dead
connection is lost. Within a node everything runs on one event loop, so a
handler is atomic up to its first `await`, including every call it makes. What is
hard is between nodes: each has its own view of who is connected, hence of who is
*master* (the lowest key it sees) and of whether there is a *quorum*; votes,
tallies and snapshots cross; connections die unnoticed and come back, sometimes
twice; windows open and close at different moments; an app may restart and know
nothing. And it is between the processes of one app: the main process replaces
its node while calls are waiting, and the screen is filled by answers that
overtake, and are overtaken by, what is pushed to it.

What makes the components correct:

* game: one game for all, nobody votes twice, every move was voted for, votes
  count only for the turn and round they were cast in, history only grows, no
  honest game is stopped, every game ends;
* counting: everyone gets the same result from the same votes;
* settings: everyone plays with settings everyone accepted;
* lobby: everyone who starts, starts the same game on the same clock, and no timer
  left over from before touches it;
* resign and draw: a side gives up, or a draw is made, only when those who must
  agree did, and then on every node;
* peer table: players that lose each other find each other again, and a peer is
  counted once however its connections come and go;
* the app: one transport at a time, and whoever leaves is forgotten;
* the screen: once nothing is under way, it shows what the node knows.

`PROJECT.json` lists the places in the code where these are at risk, with the
properties that cover each.

## 2. The modules

    Roster      VoteTally           pure operators: master, quorum; the count
       |  \      /     \
       |  VotingGame                        the protocol of a game in progress
       |  /   |    \
       | AgreedGame VotingGame_proofs       what it promises; what is proved
       |               |
       |           VotingGame_agreement     ... when the master stays
       |
     Lobby ---- Lobby_proofs                from the lobby into a game

    ConfigHandshake                         pure operators: one player's settings
       |        \
    SettingsLobby  Screen                   players agreeing on settings; the
       |              |                     screen and the node of one app
       |           Screen_proofs
    SettingsLobby_proofs

    TeamDecisions ---- TeamDecisions_proofs draws and resignations
    PeerTable -------- PeerTable_proofs     two players and their connections
    NodeLife --------- NodeLife_proofs      the nodes one app goes through

Every module that TLC checks has an `MC` module with its instances. The models meet
at named points: `Lobby` starts the games that `VotingGame` and `TeamDecisions` are
about, `SettingsLobby` settles what they are played with, `PeerTable` justifies the
links that fail, are noticed and return in all of them, `NodeLife` what a
restarting or leaving player looks like to the others, and `Screen` looks at one
node of theirs from the outside.

**`Roster`, `VoteTally`** translate `roster.ts`, `tallyMoves`, `checkVote` and
`verifyTally`. Keys and moves are natural numbers, because the code only
compares them. A list of signed votes is a function from players to a move or
`NoVote`: one vote per player, and signatures cannot be forged.

**`VotingGame`** is the protocol. `node[n]` is the state of node n's game: phase,
result, history, and the open window's round, votes and whether it is `closed`
(its scheduled close plus the grace is over on n's clock), and `settling`
(`_resyncGraceUntil` is in the future). `peers[n]` is n's peer table, `up` the
links that work, `net` the messages under way on each connection, in order.
`cast` remembers every vote ever cast, for the properties only.

| Action | Code |
|---|---|
| `Begin` | the countdown's timer (`scheduleGameBegin`) |
| `CastVote` | `castVote`: record, broadcast, count if that was the last vote |
| `WindowCloses` | time passes the close plus the grace: `VotingState.castVote` refuses from here |
| `TallyDue` | `onTallyDue` on the node that counts: `countAndPublish`, `applyTally` |
| `GraceOver` | the resync grace ends |
| `MoveTimeout` | the per-turn timer of `openVotingWindow` |
| `Receive` | a message is read: `HandleMessage`, then `handleVote`, `handleTallyResult`, `handleGameSnapshot` or `handleGameOver`, with all they call |
| `LinkFails`, `PeerDisconnects` | a connection dies; later each end notices (`close` or the ghost sweep): `handlePeerDisconnect` |
| `LinkReturns`, `AddPeer` | a new connection; each end adds it (`addPeer`) and sends its snapshot |
| `Restart` | the app restarts with the same key: lobby, no peers |

Handlers are operators from a node's record to a new record and the messages it
broadcasts, and an action applies one: a handler with its trailing
`countIfEveryoneVoted`, `applyTally`, `maybeRevote`, `openVotingWindow` or
`endGame` is one step, as on the event loop.

What the model abstracts:

* chess: `Legal(history)` and `GameEnds(history)` are constants, any rules; a
  position is the history leading to it (the code compares FENs);
* time: a window may close any time after it opened, independently on each node,
  so clock offsets, `decidedAt` and the anchoring of the next window need no
  model. Two facts are used: the move limit covers every round of a turn
  plus 10 s, so it never runs out while the window in hand is still open; and a
  peer's timeout is believed only if our own limit is nearly up, so not
  before our window has closed (beyond that, believed or not is arbitrary);
* the lobby (`Lobby`): every node has the same roster and got the master's `game_start`;
  `StartSkew` says whether the countdown may end later on some nodes;
* a link returns only once both ends noticed that it was gone; replacing a
  connection that only one end knows to be dead is `PeerTable`'s;
* branches that cannot be taken: a snapshot with an illegal move (every sender
  replayed its own moves), the engine refusing a recounted winner
  (`checkVote` tested it), messages of another game (one game only);
* `onTallyDue` on a node that does not count only re-arms its timer: a stutter;
* draws and resignations, which end the game by the same `endGame`, are in
  `TeamDecisions`.

**`AgreedGame`** is what the protocol promises: one sequence of moves that grows by
legal moves, and views of it that only catch up. `VotingGame` refines it
(`PlaysOneGame`) with `decided` as the longest history and `view` as the nodes'
histories.

**`ConfigHandshake`** translates the methods of `config-handshake.ts` as operators
from a handshake (settings, version, our accept, the peers' accepts) to a new
one. Settings have two parts, because `receiveProposal` compares only one: `vote`
(window and revotes) and `resign` (threshold and window).

**`SettingsLobby`** puts a handshake in every player's node and lets them propose
and accept over ordered connections:

| Action | Code |
|---|---|
| `SetConfig`, `AcceptConfig` | `setConfig`, `acceptConfig`: change the handshake, tell every peer |
| `Ready`, `Unready` | `ready` (only if `allAccepted`), `unready` |
| `Receive` | `handleConfigProposal`, with the accept it answers when it knows the settings, and `handleConfigAccept` |
| `Connect`, `AddPeer` | a connection to someone who has not pressed Ready; each end sends the settings it has (`addPeer`) |
| `PeerDisconnects`, `Restart` | `handlePeerDisconnect`, which forgets the connection and not the accept; an app restarts with the same key |

`agreed` remembers what each player agreed to since it started, for the
properties only. Left out: sides, the ready flags and the start (`Lobby`), which
read the handshake only through `Ready`; settings out of range, which no node proposes (settings
that are no numbers, which pass the range check, are in `Screen`);
accepting again what is already accepted, which only repeats the message.
Connections break here only by a restart.

**`Lobby`** is the way into a game. `player[n]` is the node's game state, its two
timers (`checking`, the ready check; `counting`, the countdown), the id of the game it
is in, its roster, whose clock it follows, and whether its countdown is `timed` on the clock that
the game's start was told on; `seen[n][p]` is what n's table says
of p's side and readiness.

| Action | Code |
|---|---|
| `SetTeam`, `Ready`, `Unready` | `setTeam`, `ready` (announce, synchronize the clock, start the check), `unready` |
| `StartGame` | `checkAllPeersReady` with everyone ready and both sides there, and `initiateGameStart`: the master's game, or a provisional countdown |
| `ReadyTimesOut` | `checkAllPeersReady` after `READY_TIMEOUT_MS` |
| `Begin` | the timer of `scheduleGameBegin` |
| `Receive` | `handleReady`, `handleUnready`, `handleSideChoice`, `handleGameStart`, the time request and its answer |
| `Connect`, `AddPeer`, `LinkFails`, `PeerDisconnects` | admission by `acceptsConnection`, `addPeer` in the lobby and in a game, `handlePeerDisconnect` |
| `Reset` | `reset`, after a game |

A countdown takes ten seconds only if its delay was computed (`scheduleGameBegin`, once, when
it starts) with the clock that the start was told on. `game_start` carries whose clock that is, and
`timed` says whether the receiver went by it then. If so, `Begin` waits for `CaughtUp`: ten
seconds are longer than a message takes and than five polls of the ready check. If not,
because `game_start` came before the answer to the time request, the clocks may differ by
anything and `Begin` may come at once or at any later time. Settings are accepted throughout. `Mishaps` chooses which of unready, timeout, link and reset
may happen, `MaxMishaps` how many.

**`TeamDecisions`** has draw offers and resign votes in a game that everyone is in.
`game[n]` is how n's game ended, which side's offer it goes by, and its resign
vote. `checkResignThreshold` is `CheckResign`, called where the code calls it: after a
vote, after a teammate's vote, after a player left. What a node decides it
announces (`EndAndAnnounce`), and the others believe it by `rejectGameOver`.
`offers`, `accepts` and `yes` remember what players did, for the properties only.
The threshold is in hundredths: fractions of a team under 100 compare as the code's
floating point numbers do.

**`PeerTable`** follows two players and every connection between them, with the two
ends of each: the socket, the `Peer` made of it, and the packets on their way. On a
LAN both dial what mDNS announces, and the lower key dials again; over the
internet the swarm opens one connection per pair. `HandleHandshake` and `AckIsSent`
are the two halves of `handleHandshake`, around its `await`; `HeldEarly` is
`WebSocketConnection.held`. What a node tells a peer it adds (side and settings, or a
snapshot) is one packet, `state`. Time is used three times: the redial interval is
longer than a handshake over a working wire (`RetryTick`), a handshake
times out only over a dead one (`HandshakeTimesOut`), and nothing that takes less
than the 30 s of a ghost is still going on when it is swept (`Still`).

**`NodeLife`** is the app's side of it: log in, `connectNetwork` up to its `await` (`Join`) and
after it (`JoinResumes`), leave, log out; each choice makes a `Node` with a transport
that gets ready later (`TransportReady`, the factory's promise in `boot`). The
connections of all these nodes to one other player are there to see what `stop` does
to them: over the internet they are destroyed, on a LAN they are left.

**`Screen`** puts the node and the store of one app side by side. `told` is what
main.ts sends to the window (pushed events and answers, in order), `asked` what the
window sends. The node's handlers are reduced to the state the screen shows and the
events they emit, the other players do anything these accept. `PushIsShown` is a
subscription of `useChessDemocracy`, `Connected`, `AnswerIsHeld` and `Hydrated` are
`joinNetwork` and `hydrateFromNode`; a button is a `Click...` action, and one action for
each answer its handler awaits. `RefreshIsDue` assumes that joining takes less than
the 500 ms of that timer. After "Play again" (`again`) the node has forgotten the peers'
sides and the store has not: `ShowsThePeers` says so. Not in the model: the move
list, clocks, draw banners, notifications; numbers out of range.

The resign part of the settings may be no number, as in the code: of a peer's proposal
the node pushes the vote part only (`PeerProposed`), so the store's becomes undefined; the lobby's form
(`store.form`, filled when the lobby appears) makes NaN of it; `setConfig` lets NaN pass; and the network
makes null of NaN, which peers may propose in turn. `SetConfig` refuses null, which compares as 0.

**Definitions marked "Mutant"** in the modules are faulty versions of the
definition that follows them. No specification uses them: they are there to show,
one per property, that the property notices that fault.

## 3. What is checked

The runs do not check the `TypeOK` of the modules whose proofs establish it for all
instances (section 4), but for `Screen`'s, which also says when a vote is on the screen.

`CHECK_DEADLOCK FALSE` throughout: games end, players stop clicking, and the bounded
mishaps run out.

The instances of `VotingGame` have players 1 and 3 on white and 2 on black (or 1 and 2), two
moves of which black has one legal, and games of at most two moves. Three players
are the fewest with a majority that is not everyone, with a vote that can be
split, and with an observer of two masters. Two moves are the fewest in which a
vote, a tally or a snapshot of an earlier turn or round can meet a later one.

| Run | Bounds | Shows |
|---|---|---|
| `Mesh` | 3 players, 1 revote, no failures | Every interleaving plays one game (`PlaysOneGame`), counts a vote only for the position it was cast in, and leaves everyone in the same place once all messages are handled |
| `Rejoin` | 3 players, one link of player 3 fails and may return | Histories agree, nobody is stopped as out of sync, votes are genuine and moves were voted for |
| `Faults` | 2 players, 2 link failures, restarts, move limit, skewed start, fair | One vote per turn and round; never two nodes that would count; no more revotes than allowed, also for who joins a revote by a snapshot; windows, histories and results only move forward; every game ends |
| `OneProposer` | 3 players; player 1 proposes once, player 2 restarts once, two settings, fair | Once all are ready they have the same settings; versions only rise; no accept is lost, so in the end everyone may press Ready |
| `Start` | 3 players, the master alone on its side; player 2 may change sides; one unready, ready timeout, lost link or reset; fair | Players know each other's sides, and who is thought ready is; timers match phases; begun games are left alone; without the mishap, everyone begins one game, whose master has everyone on the side they chose, and goes by its clock (who heard of the game before the time: as soon as that is handled) |
| `Decisions` | teammates 1, 2 and opponent 3; threshold 67 %; one offer each of 1 and 3; the teammates' link fails once and may return; one resign vote runs out | Draws need both sides and resignations the team; enough yes votes always resign; concurrent votes meet, and a resignation ends everyone's game |
| `Connections` | 2 players, both transports, 3 connections at a time, 2 failures, 2 redials, fair | A peer is counted once; talk is interrupted only by a failure and goes on after it; who talks knows what the other said |
| `Switching` | both networks, 2 nodes of the app, 2 overlapping calls, 2 connections, 1 unnoticed break, fair | One transport runs; over the internet the players of a room find each other, and who leaves is forgotten |
| `Screen` | 2 other players, 2 settings, 1 version, 2 turns, 1 revote, 2 events, 3 clicks; from an empty screen, a lobby or a game | Types; peers, phase, side, vote, resign vote and, of the settings, version, vote part and accepts on the screen are the node's. The two settings differ in both parts, and peers propose them without a resign part too |

One proposal is enough in `OneProposer` for an old version to meet a newer one, because a restarted
player sends the default again. `EveryoneMayReady` speaks of games in which nobody
stays ready: a player that is ready cannot accept (`acceptConfig` refuses) until it
takes that back, and nothing makes it. In `Start`, three players are the fewest with whom a
message overtakes another over a third node. In `Connections`, three slots hold both
sides' first dials and a redial, and two failures hit the replacement too. In
`Screen`, two events and three clicks are the fewest with which an answer is between two
pushes while a third request waits, and enough for a peer's settings to be proposed back (`Blank`); `SYMMETRY` exchanges the other players, which
no invariant tells apart.

Three runs show places where the code does something else than its documents say:

| Run | Violated | In words |
|---|---|---|
| `SplitBrain` | `Agreement` | Players 1 and 2 lose each other; 3 still sees both. Both are master with two of three connected, both count, and they play different moves. The README says only one node counts |
| `Crossing` | `ReadyPlayersAgree` | Two players propose at once, under the same version: each takes the other's settings, and the game starts with two sets of settings. If they differ only in the resign vote, which `receiveProposal` does not compare, nobody is even asked; otherwise (`Settings <- MCTwoSettings`) everyone accepts a version that means two things |
| `Blank` | `ProposesNumbers` | A peer's proposal is pushed to the screen without its resign part, and the store writes undefined over both of its fields, which the push's type declares as numbers. If the lobby appears after that, its form opens with NaN, and what the player proposes from it passes a check of the form `x < min \|\| x > max`. The proposer's node then has a threshold that no resign vote reaches, and its peers one (null) that any reaches |

The first half of `Blank` happens for every proposal of a peer but one that repeats what we accepted
(same version and vote part): until the settings are fetched again, the screen has no resign settings
though the node has. This is a defect of the code (`node.ts` 285); `ShowsTheSettings` is about the rest
of the settings.

Behaviour met while modelling that falls short of a document or a comment and that the properties
leave out, each with its hazard in `PROJECT.json`:

* who comes back after the others finished gets no snapshot (`node.ts` 1266, 687) and
  waits for its move limit;
* a vote that arrives before the receiver's window opens is dropped for good (323), though a
  comment counts on every node holding every vote (567). With a skewed start a node
  can so miss the first tally as well: `Mesh` starts with all countdowns over;
* a master whose app restarts and reconnects is still the lowest key connected, and the
  others wait for it (575, 986);
* who joins counts whoever told it the settings as having accepted them
  (`core/config-handshake.ts` 96);
* the renderer takes the node's clock to be in step with the game's master (`useChessDemocracy.ts`
  10), but a countdown whose `game_start` came before the answer to the time request is computed on the
  player's own clock (`node.ts` 499, 416-417): it is off by as much as that clock, and over at once if that
  is more than ten seconds ahead. `OneGameOneClock` says what remains: the player is in the master's
  game, and goes by its clock once the answer is handled;
* a player's new side and Ready may reach the master before, and another player after, that one
  handled `game_start` (973). The other player's roster then keeps the former side: it refuses that player's
  votes and takes a tally that has them for out of sync (`verify-tally.ts`, `node.ts` 656). So
  `OneGameOneClock` speaks of the master's roster only, and `VotingGame`, which starts with one roster for
  all, is about games in which nobody changed sides just before Ready;
* a teammate's resign vote opens the banner, and `openResignVote` in the store (535) takes it for our own:
  the button is off, so teammates cannot join the vote from the screen;
* a player that is not waiting when `game_start` arrives is left behind (962), and a
  player that joins late never learns who is ready;
* crossing draw offers can end the game on one node and not on another; 2 of 3 votes
  are below the default threshold of 0.67, which `docs/resign-vote.md` counts as reached (arithmetic:
  no run has a team of three);
* on a LAN, a first dial that fails on both sides is not tried again; a lower key that
  redials while the other side still uses an older connection is told nothing; and after leaving
  and joining again, the other player may go on with the old node's connection, which
  `stop` does not close;
* Play again leaves the peers' sides of the game before on the screen.

What the instances do not reach: a change of master while tallies are under way is in `SplitBrain`
only (in `Rejoin` player 1 is master throughout, in `Faults` a quorum is everyone); a split of
three ways, and one more supporter losing a move, need more voters than two; and a player that
joins a window in a revote needs snapshots, which `Mesh` has not: `Faults` has them, with two players, and
`RevotesStayBounded` is proved for any number and any failures.

Fairness. In every module the event loop runs due timers and reads messages that
arrived, promises resolve, and a dead connection is noticed sooner or later (its
socket closes, or the sweep finds it silent for 30 s). `SettingsLobby` adds that players
connect (discovery dials on) and accept the settings on their screen, `PeerTable` and
`NodeLife` that mDNS announces a player that is there and that the swarm looks again
and again. Nothing makes a player vote, propose, press Ready or click, and nothing makes a link
return in a game.

## 4. What is proved

All theorems hold for any values of the constants that meet the named assumptions of
their module: any number of players or connections, any rules, settings, bounds on
failures. A theorem that asks for more says so in its statement (ASSUME), and so does
the table. Each is proved from an inductive invariant, one step per action, and TLC
has checked each of these invariants on the constants of a run before it was proved.

| Module | Theorems | Inductive invariant and argument |
|---|---|---|
| `VotingGame_proofs` | `WinnerWasVotedFor`, `MajorityIsPlayed`, of `VoteTally` | none: a winning move has at least one vote and at least as many as any other; more than half of the votes win |
| | `TypeCorrect` (`[]TypeOK`) | operators and handlers map typed records to typed records and messages |
| | `GamesOnlyMoveForward` (`GameMovesForward`) | `MovesForward` is transitive through a game in progress (`ForwardTransitive`), so a handler that adds votes or catches up, then counts, is forward because each part is |
| | `OneVote` (`[]OneVotePerRound`), `CastVotesAreHeld` (`[]HoldsItsVotes`) | `VotesInv` has both: a vote cast is in its voter's hand, or the voter's game is past that window. Without it, a state in which a vote is cast and not held would let its player vote again |
| | `VotesAreGenuine` (`[]GenuineVotes`), `EveryMoveWasVotedFor` (`[]MovesWereVotedFor`), `RevotesStayBounded` (`[]RevotesAreBounded`) | `GenuineInv` says of every vote list in a node, a tally or a snapshot that its votes were cast for the turn and round it is about; of every history in a node or a snapshot that its moves were voted for; of every round that it is within the setting. A handler takes what it has from these, and what was cast stays cast |
| `VotingGame_agreement` | `OneGameForAll` (`Agreement`), `NobodyIsOutOfSync` (`NoDesync`), `VotesMeanThisPosition` (`VotesForThisPosition`), each under `[]MasterStays(m)` | `FollowInv(m)`, see below |
| | `PlaysTheAgreedGame` (`PlaysOneGame`), if also nobody restarts | the refinement of `AgreedGame`, step by step: the longest history is m's, so a step plays the move m plays, or one board catches up, or neither |
| | `MasterNeverChanges` (`[]MasterStays(m)`), `OnlyTheMasterCounts` (`[]OneCounter`), if `StaysMaster(m)` | `Wired`: a player that is in the game is connected over links that do not fail to players that do not restart |
| | `TwoPlayersOneCounter` (`[]OneCounter`), `TwoPlayersOneGame` (`Agreement`, `NoDesync`, `VotesForThisPosition`), with at most two players | a quorum of two is both |
| | `NobodyStaysBehind` (`[]SameGameWhenQuiet`) under `[]MasterStays(m)` and `[]NobodyLeftOut(m)`; `NobodyStaysBehindTheLowest`, from constants alone | `KeepUpInv(m)` with `FollowInv(m)`, see below. `NoTimeouts`, `Together` and `Wired` give the second theorem: m is the lowest key and keeps its links, nobody restarts, no countdown ends late, no turn runs out of time |
| `SettingsLobby_proofs` | `LobbyTypes`, `ProposalsNeverGoBack` (`VersionsOnlyRise`) | types alone |
| | `OneProposerAgrees` (`[]ReadyPlayersAgree`), if `OnlyProposer(p)` | `AgreeInv(p)`: every version in the lobby, in a node or under way, is one of p's and stands for the same settings as with p, and whoever p reaches has p's version or a proposal of it under way |
| `Lobby_proofs` | `LobbyKeepsTypes`, `TimersStayInPhase` (`[]TimersMatchPhase`), `BegunGamesStay` (`BegunGamesAreFixed`) | types, `SideChosen` (whoever is past choosing has a side, or `ready` would announce none) and `TimersMatchPhase`: `Begin` and `StartGame` look at timers, not at the phase, and leave a begun game alone only because of it |
| | `SidesAreKnown` (`[]SidesKnown`), `NobodyIsPhantomReady` (`[]NoPhantomReady`) | `KnowInv`: of two players that are connected and did not start over, each knows the other's side, or the last message about it on its way names it; likewise an `unready` |
| | `OneGameStarts` (`[]OneGameOneClock`) | `CalmInv(l)` for the lowest key l, while no mishap happened: nobody changes sides after announcing to be ready; only l sends `game_start`, on its own clock, and answers about time; whoever does not go by l's game or clock has yet to handle such a message; a timed countdown to l's game is one on l's clock (`Orderly`); and l's roster has everyone's side (`SidesRight`), because everyone was ready when l started. Clocks may differ by anything, so nothing is claimed of a countdown that is not timed until the answer is handled |
| `TeamDecisions_proofs` | `DecisionTypes`, `DrawsAreAgreed`, `ResignationsAreVoted`, `EnoughVotesDecide` | every message under way and every game is *justified* by what players did: an offer by its sender's having offered, a resign vote by a yes, a `game_over` by an agreement or by enough votes. What players did only grows, so what is justified stays so; and no open vote is decided among the teammates connected |
| | `ResignationsReachEveryone` (`[]ResignationEndsEverywhere`), `SimultaneousVotesMeet` (`[]TeamVotesMeet`) | `SpreadInv`, while no link failed: behind every game given up is a player whose `game_over` everyone has handled or will; and, while no vote ran out, every yes is counted by each teammate, or will be |
| `PeerTable_proofs` | `PeerTableTypes`, `PeersAreCountedOnce` (`[]CountMatchesTable`) | types and the count together: the table changes by `Entered` and `HandlePeerDisconnect` only, which count what they change |
| | `TalkersKnowEachOther` (`[]TalkersKnow`) | `TalkInv`: on a connection the greeting comes first (`Orderly`), and whoever uses the connection in the other's table knows its state or will handle it there (`Listens`). Until a connection fails none ends (`Sound`), so the first in a table stays |
| | `OnlyFailuresInterrupt` (`TalkGoesOn`) | `TalkInv` on a LAN: whoever arrives at a player that talks is refused. `SwarmInv` over the internet: nobody dials there, and a hello that can still be handled is on the one connection that works, so no other replaces it. The sweep spares whoever talks because it is heard (`RemoveGhost`) |
| `NodeLife_proofs` | `LifeTypes`, `NoSecondTransport` (`[]OneTransportRuns`) | `Current`: whatever runs or may yet start, and was not stopped, is the node the app holds, and nothing stopped runs. `EntriesInUse`: whoever is in a table is there by a connection of its own |
| | `NobodyTalksToAGhost` (`[]InTouchUnlessLeftOnLan`) | `TouchInv`: over the internet the other player uses one connection, the one in its table; on the first LAN nothing it uses is closed from our side, and whoever it admitted is in its table |
| `Screen_proofs` | `ScreensAreTyped` (`[]TypeOK`), `PlayersAreShown` (`[]ShowsThePeers`), `GameIsShown` (`[]ShowsTheGame`), `ResignVotesAreCounted` (`[]CountsResignVotes`), `SettingsAreShown` (`[]ShowsTheSettings`) | `ScreenInv`, see below |

**One game.** The code elects nobody: a node counts if it has the lowest key
of those it is connected to and these are a quorum, so agreement cannot hold
whatever fails (`SplitBrain`). `MasterStays(m)` is what it needs: m is in the game, and no
other player is, by its own peer table, the one to count. Under it `FollowInv(m)`
is inductive: every board is a beginning of m's, every tally under way was m's and
is one of m's game, every snapshot tells a beginning of it, and every vote was cast
on one. A node behind can then neither refuse m's tally (`NoDesync`) nor play
anything else. Everything else may go wrong: any links fail, players other than m restart,
countdowns end at different times. `MasterNeverChanges` says which faults leave m
there: m does not restart, and every other player keeps a link to some player with a lower key
that does not restart. `Rejoin` is an instance of `OneGameForAll` (TLC finds `MasterStays(1)`
to hold there: of player 3's links one fails, and either leaves it a lower key). The refinement asks in
addition that nobody restarts, because the board of a restarted app is empty again, and no
view in `AgreedGame` shrinks; agreement itself does not ask it. With two players
(`Faults`) nobody counts alone, so links may fail at will.

**The same window.** `FollowInv` says that what players are told is true; that they are told
enough is `KeepUpInv(m)`. Its witness C is how many windows (votes) of each turn m has counted, so
m has *opened* those and the one in hand. Whoever is in the game is in a window that m opened, or
where m ended (`Reached`). Every tally under way is of a counted window and takes whoever is in it
to the next that m opened (`Fits`); to one receiver they come in order (`InOrder`). And for
whoever m can tell, each counted window that it has yet to pass has its tally in the queue, apart
from those that a snapshot at the head skips (`Complete`). A count adds a window to C and its
tally to those queues (`Advances`); a tally that a player ignores is of a window it is past
(`IgnoredTally`); whoever connects again finds an empty queue and gets a snapshot, of the one
window of m's not in C. With empty queues nobody is in a counted window, so all are in m's.

`NobodyLeftOut(m)` is what this needs besides a master: nobody restarts or ends a turn for lack of
time, m counts nothing before every countdown is over, and whoever connects to m again finds it
still playing, or has itself ended. Each part is needed: TLC finds a quiet state with different
boards as soon as any one of them is dropped. The last two are ways in which this code leaves a
player behind for good: `handleTallyResult` ignores a tally that comes before the game began
(`core/node.ts` 637), and a node whose game is over sends no snapshot to who comes back
(1264-1268). Links may fail and return otherwise, so a quiet state after a failure is not
excluded: TLC reaches one. TLC checked `KeepUpInv`, with C as a variable, and the theorem in all
states its hypotheses allow: of `Mesh` (394,517), of three players of whom one link fails, also
one to m (669,047), and of two players whose link fails twice, with late countdowns (65,718; a
restart or a timeout ends what is checked there). `NobodyStaysBehindTheLowest` has `Mesh` as an
instance and adds what `Mesh` does not: any number of players, and failures of links between the
others.

`NewGameAssumption` (the empty game has not ended) was added to `VotingGame` for
these proofs; it is so in chess.

**One proposer.** `OnlyProposer(p)` cannot be weakened to two proposers, as `Crossing` shows,
nor to a p that restarts: it would propose other settings under the versions it used before.

**The screen.** What it shows and what its node knows agree only when nothing is under way, so the
invariant is about what the screen *comes to*: `Leads(x, told, y)` says that
handling what is under way, one message after the other (`Handled`), takes it from x to y, and
`ScreenInv` that in y it agrees with the node as it is now. A step of the
node is then one lemma per event (`GameOverTold`, `VoteTold`, `LeavesTold`, ...): what it
emits takes a screen that agrees with the node before to one that agrees with the node after,
whatever else it shows. A step of the screen changes nothing: it only comes nearer to y. The
exceptions are in the invariant too. `StateComes`: after a change of side or readiness the phase
disagrees until the state that the button asks for was shown, and since the node pushes no
event for it, only this request repairs it. `ListComes`: who joins is shown without
side and readiness until the list was asked for again. `Joining`: the three answers of
`hydrateFromNode` are taken from three moments. The first stays true while it is held, because
before joining is over the player can press nothing, so the phase cannot change; the second
may not, but whoever comes meanwhile is asked for again.
Of the settings it says that version, vote part and accepts agree. It cannot say more: the node compares the
vote part of a proposal with that of the settings it accepted (`SameConfig`) and tells the screen nothing
if they are the same, and else it tells it the vote part. So the resign part on the screen may be the
former, or none. TLC, which cannot look for the
sequence in `Leads`, checked `ScreenInv` with the one that `Handled` computes.
`SettingsAssumption` is what these proofs use of the settings: those the code starts with are
among the proposable, every setting has the two parts, and its resign part is a number.

Model-checked only:

* liveness (`GamesEnd`, `EveryoneMayReady`, `EveryoneStarts`, `TalkAgain`, `FindsThePeer`,
  `LeaverIsForgotten`), which is out of the prover's reach, as are ENABLED and induction
  over recursive definitions.

## 5. Not modelled

* Cryptography: signatures hold, keys are unique. Nonces and their lifetime with them.
* mDNS, Hyperswarm, WebSockets, chess.js, Electron: libraries, modelled from how they are used.
* Admission by number of peers and by rate (`network/base-network-controller.ts` 103-135) and refused
  handshakes: the count they go by is proved, who is turned away is not modelled.
* Public lobby listings (`network/globalnetwork/lobby.ts`): a list for display that nothing of the game reads.
* The error of the clock's estimate: a clock is named by its owner in `Lobby`, and windows
  close at any time in `VotingGame`. How much two clocks differ is not a number anywhere.
* More than two players in `PeerTable` and `NodeLife`: connections of different pairs share only the
  count.
* On the screen: the board, move list, clocks, draw banners, notifications.
* A game with resign settings that are no numbers (`Blank` shows how a node gets them), or with
  rosters that differ (section 3): `TeamDecisions` and `VotingGame` start without.
* A proposal of settings during a game, and two games in a row: `Lobby` lets a player start over, and
  what it leaves behind is checked, but the second game's settings and votes are not.
* Logging, styles, icons, the updater, identity files.
