# Odamex in TLA+

Odamex is a client/server port of Doom: a dedicated server runs the game at 35
tics a second, clients predict and draw it, a master server lists the servers.
The modules here model the parts of it in which the *order* of events decides
what happens (a lossy channel, connections, a match with its rounds and queue, flags that
players carry, votes and the rotation of maps, moving floors and ceilings, waves of
monsters), check them with TLC on small instances, and prove what
matters most for all instances with TLAPS.

Paths below are paths of the repository without `src/`. Every definition that
models code names its lines in `PROJECT.json`, under `map`.

    tlc -workers 2 -config match_rules.cfg MCMatch.tla     (the runs are in PROJECT.json)
    tlapm MatchProofs.tla

## 1. The system

The server is one thread. `SV_RunTics` (server/src/sv_main.cpp) reads all
packets that have arrived (`SV_GetPackets`), then runs one tic: the level state
and time limit (`SV_GameTics`), votes, the game (`G_Ticker`: the players'
commands, the pending game action, the thinkers), sends what it has to send, and
erases the players who were dropped in the meantime. A client does the same with
its own input. All state is in globals, and handlers call each other directly: a
kill ends a round, which sets a countdown, which asks for a reset, which serves
the queue. So the hard part is not parallelism in the server but the order of
calls inside a frame, the state one handler leaves for the next, and the network.

| component | state | operations | interacts with | what is hard | correct when |
|---|---|---|---|---|---|
| reliable link (`sv_rproto.cpp`, `i_net.cpp`, `cl_main.cpp`) | send buffers, sequence numbers, ring of packets kept, ring of numbers received | write, flush, send, acknowledge and resend, overflow, drop | everything that sends; the end of the connection handshake | loss, duplicates, reordering, slots in reuse, overflow in the middle of a handler | at most once, nothing altered, gaps repaired |
| level state (`g_levelstate.cpp`) | state, countdown, round, winner | tic, reset, restart, force start, ready, end of round and game | sets `gameaction`; asked by joins, scores, pickups | the end of a countdown sets a state *and* asks for a reset that comes later in the frame | rounds start level, countdowns end, limits hold |
| win conditions (`g_gametype.cpp`, `teaminfo.cpp`) | none; players' lives, scores, wins | checks of score, lives, time, objectives and player count | called by kills, captures, exits, departures | two conditions in one tic, a check that is forgotten or comes twice | a round is won once, by a side that leads |
| joining, queue, frame (`sv_main.cpp`, `sv_level.cpp`, `sv_game.cpp`) | players' status, queue positions, readiness, `gameaction` | connect, join, queue, spectate, disconnect, level reset and change | all of the above | the queue must be served at every event that makes room | never overfull, nobody waits in vain, no late joins |
| CTF flags (`sv_ctf.cpp`, `cl_ctf.cpp`) | flag states, carriers, timeouts; a copy on each client | grab, drop, return, capture, timeout, reset | deaths, departures, rounds, sides | a carrier who leaves in any state; two copies of one state | no flag lost or doubled, clients see the truth |
| votes (`sv_vote.cpp`) | the vote in progress, ballots, countdown | call, ballot, count, interrupt, execute | `gameaction`, level state, map list | levels and the list change under a vote | a vote ends, and does what it was called for |
| map list (`sv_maplist.cpp`, `cl_maplist.cpp`) | list, index, shuffle, version; the client's cache with a timeout | insert, remove, clear, shuffle, next; query, update | votes, level changes | an index into a list that changes; requests that are lost | the index is the played map's; a client told "OK" has the list |
| connections (`sv_main.cpp`, `cl_main.cpp`, `cl_game.cpp`) | the client's state; slots and free ids | request, accept, refuse, acknowledge, drop, time out, remove | link, players list | a client that connects twice, datagrams of an earlier attempt, a timeout | an id belongs to one slot, a slot to somebody who plays |
| movers (`p_doors.cpp`, `p_plats.cpp`, `p_ceiling.cpp`, `p_floor.cpp`, `p_pillar.cpp`) | a thinker for each moving plane, the sector's two pointers, the list of moving sectors | start, tic, turn, stop, resume, destroy | line specials, scripts, snapshots | an activation between any two thinkers, six kinds of movers on two planes | one mover per plane, listed, and it ends |
| stairs (`p_floor.cpp`) | locks and links of sectors | build, arrive, clear | movers | steps arrive in any order, staircases overlap | locks are cleared when the last step is there |
| horde (`p_horde.cpp`, `p_hordespawn.cpp`) | the wave, health spawned and killed, bosses, timers | tick, spawn, death, destruction, commands | level state, spawner, monsters | counts that monsters change in many ways | the counts are right, every wave ends |
| master (`master/main.cpp`, `sv_master.cpp`) | servers with ages, verification | heartbeat, verify, expire, list | servers, launchers | stale entries | a live server is listed |
| unlagged (`p_unlag.cpp`) | histories of positions | record, reconcile, restore | shots | restore after an early return | all moved back |
| prediction, snapshots (`cl_pred.cpp`, `p_snapshot.cpp`, `cl_replay.cpp`) | ring of snapshots, world index | add, interpolate, replay | link | wrap of the ring | what is shown was sent |
| network ids (`hashtable.h`, `svc_message.cpp`, `sv_mobj.cpp`) | ids of actors and where they live | allocate, look up, free | every message about an actor | an id reused while a message is on its way | an id names one actor |
| demos, downloads (`cl_demo.cpp`, `cl_download.cpp`) | state of a recording or transfer | start, stop, seek, tic | client state | a stop in the wrong state | states are left as they are entered |

Pure computation or output (bans, scripts, physics and monsters, queries,
resources, console, renderer and sound, launchers, vendored libraries) is listed in
`PROJECT.json` with the reason for leaving it out.

## 2. The plan

| | modules | composes | state |
|---|---|---|---|
| 1 | `ReliableDelivery`, `ReliableLink`, `ReliableLinkProofs` | the second refines the first | done; safety and the refinement proved |
| 2 | `LevelState`, `Match`, `MCMatch`, `MatchProofs`, with `SumProofs` | operators; the frame that calls them | done; safety proved |
| 3 | `CtfFlags`, `CtfMatch`, `MCCtf`, `CtfProofs` | operators; Match with flags | done; safety proved |
| 4 | `MapList`, `Votes`, `MapVotes`, `MCMapVotes`, `MapVotesProofs` | operators of list and votes; the server with its clients' caches | done; safety proved |
| 5 | `Connections`, `MCConnections`, `ConnectionsProofs` | hands over to `ReliableLink` | done; safety proved |
| 6 | `Movers`, `MCMovers`, `MoversProofs` | | done; safety proved |
| 7 | `Stairs`, `MCStairs`, `MoversProofs` | the floor movers of many sectors | done; safety proved |
| 8 | `Horde`, `MCHorde`, `HordeProofs`, with `SumProofs` | | done; safety proved |
| 9 | settings that change in a match, changes of team; network ids; savegames of a horde | Match, Horde | open |

Every safety property that a passing run checks is proved for all values of the constants, some
of them under a named hypothesis on the settings or the map (section 10).

## 3. The reliable link

`ReliableLink.tla` models one client's connection from the moment packet 0 is on
the wire (the end of `SV_ConnectClient`) until the player is erased.

**State.** The server's `player_t`/`client_t` (`playerstate`, `reliablebuf` with its
overflow, `netbuf`, `sequence`, `last_sequence`, the ring `oldpackets`), the
commands of the datagram being parsed (`net_message`), the two directions of the
network, and the client (`cstate`, the ring `packetseq`, `net_buffer`). Messages are
numbered in the order they are written, so a set stands for a buffer. `sent`,
`received`, `applied` and `reapplied` are history.

**Actions.** `WriteReliable`/`WriteUnreliable` are `MSG_WriteSVC` with its early
flush; `SendPacket` is `SV_SendPacket` with the drop of an overflowed client;
`AcknowledgePacket` resends the gap (`SendOldPacket`) in the order and with the
stops of the code; `ConnectClient2` finishes the connection; `DropClient`,
`DisconnectClient` and `RemoveDisconnected` end it. On the client `Connect`,
`ReadPacket`, `UnknownChallenge` and `IgnorePacket` are the readers of a datagram,
`SendCmd` and `QuitNetGame` the writers.

**Network.** A set of datagrams: any may be overtaken, `MaxLoss` may be lost and
`MaxDup` delivered twice; a retransmission is a datagram of its own. One
assumption is needed, `LifetimeHolds`: no datagram outlives the sending of `Window`
later ones (256 in the code, some seven seconds). Without it the client takes an
old number for a new one, since `packetseq` remembers only the last in each slot.

| run | bounds | shows |
|---|---|---|
| `link_safety` | 2 slots, 5 packets, 3 messages, one loss, one duplicate; a buffer that one message fills | `TypeOK`, `AppliedAtMostOnce`, `FaithfulPackets`, and that the link implements `ReliableDelivery` |
| `link_repair` | 4 slots and packets, all with reliable data, one loss, one duplicate | `MissedArrives` |
| `link_gap` | 5 slots and packets, some of unreliable data only, one loss | `MissedIsRetransmitted` is violated (section 12) |

Two slots and five packets use every slot twice and more, which is where rings go
wrong; one loss and one duplicate with free reordering give every pattern of gaps
in five packets that needs no second loss. A buffer of one message reaches the
overflow and the drop. `CHECK_DEADLOCK FALSE`: a session ends.

**Fairness** (`FairSpec`): both programs read what has arrived and send what they
have buffered in every tic of their loops, so those actions are weakly fair.
Nothing obliges the game to write, the network to lose or anybody to leave.

`MissedArrives` needs a later packet to overtake a lost one: only acknowledgements show a
gap, so the last packet of a session may stay lost. The link promises no more, and
`ReliableDelivery` does not promise arrival at all.

## 4. The match

**`LevelState.tla`** has the functions of `g_levelstate.cpp` and `g_gametype.cpp` as
operators on a record of the globals they work on (`Games`): they are sequential
and call each other, and a call in the source is a nested operator here in the same
order. **`Match.tla`** makes the actions of a server of them.

**The frame** is the variable `phase`:

    packets --GameTics--> votes --> commands --(game action)--> world --> drops --> cleanup --> packets
                                        \-- queue, losers --/

In `packets` come any number of requests (`Connect`, `Disconnect`, `JoinRequest`,
`SpectateRequest`, `ReadyRequest`) and console commands. `GameTics` is the level
state's tic, the time limit and the delays. In `votes` a vote may pass. In `commands`
and `world` players act (`Kill`, `Capture`, `Exit`), in between the pending game
action runs (`DoResetLevel`, `DoNewGame`, `DoCompleted`). In `drops` the server
may find that a client's buffer has overflowed (`Disconnect`), and `cleanup` is
`SV_RemoveDisconnectedPlayer`.

A loop of the source whose body calls other handlers takes one step per round:
`queue` goes through `SV_UpdatePlayerQueuePositions` in the order of the positions
and returns to the phase it was called from, `losers` through the players
`SV_UpdatePlayerQueueLevelChange` makes spectators. No other action is enabled
inside, so the result is the same as that of one step.

**Abstractions.** Times are tics. A player's team is fixed. Settings do not change
in a behavior. Percentages of readiness are compared without the rounding of
floats. A player who leaves the game is `"left"` until the end of the frame; a spectator
who leaves is gone at once, since nothing reads his slot. Not modelled: the
callbacks of settings, `sv_emptyreset` and `sv_emptyfreeze`, the timeout of
readiness, the delay of respawns, `sv_maxplayersperteam`.

**Bounds.** `MaxTime`: a game without a time limit may go on forever, so `HoldTime`
moves `level.time` and the countdown's end back together once nothing reads the
time any more (`MaxTimeAssumption` says that all limits lie below it). `MaxScore` and
`MaxDebt` bound scores. `EarlyKills` says whether players may be telefragged at
`level.time` 0; `match_rules` leaves that out because of a divergence listed in section 12.

| run | settings | checks |
|---|---|---|
| `match_rules` | eight kinds of game, three players, a limit of two or three players: duel, survival with rounds and without, CTF on sides with lives and without, CTF with lives off sides, cooperative play and survival | `NobodyWaitsInVain`, `RoundLimitHolds`, `WinsAreRounds`, `MatchWinnerLeads`, `SurvivorsRemain`, `NoLateJoin` |
| `match_admin` | warmup with readiness, survival with a queue; lobbies, all commands and votes | `NoOverfill`, `QueueInOrder`, `RoundsStartLevel` under interference |

Limits are 1 to 3, so that a match reaches them and goes beyond; three players with
a limit of two fill the queue, with teams of one and two there is a majority, and a third
team exists that is not in play. `match_rules` has 3.3 million states, `match_admin`
1.4 million. The two players of one team are interchangeable
(`SYMMETRY Alike`): the actions choose between players only when there is one. Two rounds reach the change of sides and both the end
of a round and of a match.

`MatchWinnerLeads` is about the step that ends a match: whoever is declared the winner has won at
least as many rounds as everybody there. It excepts a winner who enters the game in that very step
(section 12). `WinsAreRounds` allows two wins a round in CTF with lives and without sides, for the
reason given there. `NobodyWaitsInVain` and `SurvivorsRemain` do not hold under every interference;
what they need of the settings is named in the hypotheses of their theorems (`AlwaysServed`,
`Unattended`), which the settings of `match_rules` satisfy and those of `match_admin` do not.

Liveness is checked in `match_progress` (section 5), which runs the same frame with flags.

## 5. Capture the flag

**`CtfFlags.tla`** has the functions of `sv_ctf.cpp` as operators on a record of flags:
`state`, `flagger`, `timeout` (`TeamInfo::FlagData`), `carried` (`player_t::flags`), and
`seenState`, `seenFlagger`, the copy of a client that has applied every message so far
(that they arrive in order is the link's business). **`CtfMatch.tla`** takes every
action of `Match` together with what the same handler does to the flags, and adds
`TouchFlag`, `TouchSocket` and `Reborn`. `dead` holds the players in `PST_DEAD`.

Whoever dies, spectates, joins from the spectators, is booted or leaves drops his
flags (`CTF_CheckFlags`), but `SV_FlagDrop` does nothing unless the gameplay is
ticking. What keeps flags from being lost is that a reset always comes before the next
fight. A
player who becomes a spectator after the fight keeps them even then, and `Match` frees a
spectator's slot at once: `RemoveGone` is the end of the frame for such a player, and
`CtfConnect` waits for it.

A player may meet any flag of `FlagTeams` in play; in other games there is none, and
`CtfMatch` is `Match`.

Not modelled: changes of team, pickup times, the places of flags and players' points.

| run | settings | checks |
|---|---|---|
| `ctf_flags` | three flags without rounds in a game the winners stay in, rounds on sides with a time limit, and warmup; touch, manual and timed returns; a restart vote | `FlagsAreSomewhere`, `OneEnemyFlag`, `OnlyDefendersFlagMoves`, `PairSeesFlags` |
| `match_progress` | CTF without rounds or time limit, rounds of CTF on sides with both, and survival with a timer to join; a flag timeout; fair | `CountdownsEnd`, `TimeLimitEndsRounds`, `DroppedFlagsReturn` |

A timeout of one tic shows both its counting and its end. Two players suffice for every
exchange of two flags, and `FlagTeams` lets them meet a third flag.

**Fairness** (`CtfFairness`): the server's own steps are weakly fair, and `GameTics`
strongly: requests may come before it in every frame, but `SV_GetPackets` reads the finitely
many packets that wait and then goes on. Players and administrators owe nothing; no player
has to touch a flag.

## 6. The map list and votes

**`MapList.tla`** has `Maplist` and `MaplistCache` as operators on a record each, methods
from the object before to the object after; **`Votes.tla`** has the count of ballots;
**`MapVotes.tla`** puts them on a server. `Frame` is one `SV_GameTics`: the vote's tic
(`VoteRuntic`), the pending game action (`Pending`, `NewLevel`), the tic of the level or of
the intermission. Between frames the administrator edits the list, users ask and vote, and
the server reads their messages.

The version of the list is a byte, as in the code. A shuffle is any order. A random map is any
map. A client asks `clc_maplist` once in an unreliable packet, which may be lost (`LoseRequest`); the
answers come in order, since they travel on the reliable link. `TimeRunsOut` and
`TimeoutPasses` are the client's three and the server's sixty seconds: any time may pass
between two actions. Left out: the waits between votes and between ballots,
kick votes, forced spectators, and the vote's display.

| run | bounds | checks |
|---|---|---|
| `map_votes` | two clients, one of which asks; a list of two maps at its second, three maps in all; six budgets of edits, questions, losses, votes, ballots, exits | `IndexFollowsMap`, `PatientOkIsTrue`, `NoVoteAcrossLevels`, `MapVoteLoadsItsMap`, `VotesEnd`, `QueriesEnd` |

Three edits put a map before and after the current one, remove it, empty the list and shuffle it; a
vote with two clients can be decided by ballots or by the countdown. A single budget of
everything would only add interleavings of parts that do not meet: the budgets pair edits
with questions, edits with votes, votes with exits.

`PatientOkIsTrue` excepts clients that gave up a question before (section 12).

**Fairness**: the server runs frames, and clients run tics while time passes. Nobody
has to vote or to ask, and no message has to be read.

## 7. Connections

**`Connections.tla`** models a client's way to the server and off it. The client is in the
console, connecting or connected; it keeps whether its player has an actor (`mo`), whether
the first packet is entered among those received (`packetseq`), and acknowledgements that wait
(`net_buffer`). The server keeps slots in order of arrival, and the set of free ids. Reading a
datagram is one action on either side, `ClientReads` and `ServerReads`, whose disjuncts are
the functions that take it in the client's and the slot's state. `Banned` clients stand
for all whom `SV_ConnectClient` refuses after it gave them a slot (bans, version, password).

A datagram is one of the kinds that are told apart; equal ones under way count once, of a
server's later packets one per client is under way. A datagram takes less than the four
seconds after which the client asks again. The token's lifetime of twenty seconds is left
out, and `Connect` and `Reconnect` include the request of the next tic.

`CheckTimeouts` drops a slot whose client is silent: gone, or connected without anything it
would send. A client that connects or plays sends more often than every 65 seconds.

| run | bounds | checks |
|---|---|---|
| `connections` | a client and a banned one, two ids, limits 1 and 2; five budgets: the user acts twice with two losses or a copy, a vote with a loss, a lower limit, an error with a second client | `IdsAreConserved`, `AttemptsEnd`, `SlotsAreUsed` |

Two actions of the user are enough to leave or crash and come back while the first slot is
still there. `CHECK_DEADLOCK FALSE`: users stop.

**Fairness**: programs run and the network delivers what it does not lose. The rare kinds of
datagrams are fair apart from the packets that come all the time, as one may not starve
the other within four seconds.

## 8. Movers

**`Movers.tla`** models one tagged sector: the heights of its planes, the thinkers on them
(`thinker`), its two pointers, its entry in `movingsectors`, and something solid that stands in it.
`RunThink(i)` runs one thinker of the current tic (`ran`), `EndTic` is
`SV_DestroyFinishedMovingSectors`, and between any two thinkers a line, a script or a player may
start, turn, stop or resume a mover (`EV_DoDoor`, `EV_DoPlat`, ...). `LowerFloor` and
the other three steps are `MovePlane`; a step that leaves the thing no room is refused unless the
mover crushes.

Types that behave alike are one type (`DoorTypes`, ...). Heights and speeds are
small numbers; the heights around the sector do not change. A new thinker may run in the same tic.
Left out: the lights, the sounds, donuts, waggling floors, the door that closes in thirty
seconds, and delays of 0.

| run | bounds | checks |
|---|---|---|
| `movers` | heights 0..4, three thinkers, two activations, one thing; a closed and an open sector, both values of `co_boomphys` | `TypeOK`, `EveryMoverOwnsItsPlane`, `MoversAreListed`, `CrushersRecover`, `MoversEnd` |

Heights to 4 have steps that end short of, on and beyond the destination; the door
that opens by itself is a mover at the start, so two activations make three movers or
turn, stop and resume one. `CHECK_DEADLOCK FALSE`: the activations are bounded.

**Fairness**: every thinker runs in every tic, tics end, and what stands in the way leaves
or dies. `Ends` names the movers that have an end; section 12 says which have none
and should.

**`Stairs.tla`** has many sectors, each with at most one floor mover without heights, and their
`stairlock`, `prevsec` and `nextsec`. `Staircases` are all chains the search through the lines can
find, since the order of lines is the map's; `Unlock` is the end of `DFloor::RunThink` for a
step, including the two searches along the links; `hung` says that one of them goes round for
ever.

| run | bounds | checks |
|---|---|---|
| `stairs` | five sectors: three steps along lines, begun at the first or the second, two along specials; plain floors on a step of each | `ChainIsLinked`, `StairsComplete` |

A chain of three has a step that is neither the first nor the last, and the two starts give
overlapping staircases. Lines that lead nowhere else, and no resets: with them locks do stay
(section 12). Fairness as for movers.

## 9. Horde

**`Horde.tla`** has the functions of `p_horde.cpp`, `p_hordespawn.cpp` and `p_hordedefine.cpp` as
operators on a record of `HordeState` and of the actors it knows. Time counts seconds, at which the
director runs (`Second` with `Pressure` and `Bosses`, which may place all, some or none of what they
want); between them players shoot (`Shoot`), monsters are destroyed, raised and
collected, and an administrator enters commands.

| run | bounds | checks |
|---|---|---|
| `horde` | two waves, a type of monsters and one of bosses, four actors, one raised corpse, one command; the second wave limits its bosses | `BooksAreExact`, `BossLimitHolds`, `WavesEnd` |

Four actors hold a group of monsters together with two bosses; the bosses' health takes one
or two of them, so that a wave is in want of a second. `BossRoom` keeps two actors free for them: in the
game there is always room for another actor.

**Fairness**: seconds pass, players shoot some monster and some boss, and a spawn that is tried
again and again finds a place at last (strong fairness of a placement, since it may be tried
without success in between).

## 10. What is proved

For all values of the constants (any window and buffer sizes, any number of players
and teams, any settings), from the assumptions named in the modules:

| theorem | says | argument |
|---|---|---|
| `ReliableLinkProofs!TypeCorrect` | `Spec => []TypeOK` | inductive as it stands |
| `ReliableLinkProofs!AtMostOnce` | `Spec => []AppliedAtMostOnce` | the client remembers in each slot the last number received there, and whatever shares a slot is `Window` apart (`SlotInjective`); a datagram in flight is younger than that, so a number not found in its slot was not received, and no message is in two packets |
| `ReliableLinkProofs!Faithful` | `Spec => []FaithfulPackets` | what a slot keeps under a number is what was sent under it, so a retransmission is the packet again |
| `ReliableLinkProofs!Refines` | `Spec => ImplementsDelivery` | under the same invariant a `Transmit` is the abstract `Send`, a message only buffered is `Write`, a packet not received before is `Accept`; packet 0 read again is a stutter, since what was received was applied (`Digested`) |
| `MatchProofs!TypeCorrect`, `NeverOverfull`, `RoundLimit`, `OrderedQueue` | `TypeOK`, `NoOverfill`, `RoundLimitHolds`, `QueueInOrder` | one invariant, `IInv`: the type, the limit, `RoundOK`, which also says that in `endround` the round is *below* the limit, as the next round is counted from there, and the order of the queue, which in the middle of its loop is an order of those not yet looked at |
| `MatchProofs!NeverLate` | `NoLateJoin` | `IInv`; the join test comes last in every path into the game |
| `MatchProofs!WinsOnlyForRounds`, `LevelStart`, `WinnerLeads` | `WinsAreRounds`, `RoundsStartLevel`, `MatchWinnerLeads` | a second invariant, `FairInv`, of the books: the wins are those of the rounds that are over; a fight that is about to begin has clean scores or a reset to come; `MatchWinnerLeads` is a property of steps: every step into `endgame` crowns a leader or is that of a player who comes in (`Ends`) |
| `MatchProofs!SomebodyIsLeft` | `SurvivorsRemain`, if `Unattended` | a third, `MannedInv`: in every phase of the frame a fight for lives has enough players, or a count of the survivors or a reset is still to come |
| `MatchProofs!NobodyIsForgotten` | `NobodyWaitsInVain`, if `AlwaysServed` | a fourth, `WaitInv`: outside the loop over the queue nobody waits whom the join test lets in; inside it, whoever was refused stays refused, because no one's joining makes room and the countdown of a preround is over when its time comes, so that a closed join timer does not open again |
| `CtfProofs!CtfIsMatch` | `CtfSpec => Spec` | every action is one of `Match` or leaves its variables alone |
| `CtfProofs!CtfTypeCorrect`, `NoTwoEnemyFlags` | `CtfTypeOK`, `OneEnemyFlag` | the operators keep `Good`: the type, and that any two enemy flags of a player are the same; only `FlagGrab` adds a flag |
| `CtfProofs!FlagsStaySomewhere`, `SidesHold`, `PairSees` | `FlagsAreSomewhere`, `OnlyDefendersFlagMoves`, `PairSeesFlags` | `FlagInv`: while a round is fought, flags and carriers agree (`Whole`), those that may not move are home (`Still`), and the client's copy is right but for a carrier who has just left (`Shown`). Before a fight nothing is claimed: a fight begins with a reset that puts all flags home, which is what `LevelStart`'s invariant provides |
| `MapVotesProofs!IndexIsCurrent` | `IndexFollowsMap` | every method of the list keeps it `Sound` and, while the map is in it, its index on that map (`InsertSound`, `RemoveSound`, ...): facts about sequences with an element put in or taken out. `Sound` also says that a shuffled list that is not empty has an order, where the next index is read; a server starts with a sound list (`ListsAssumption`) |
| `MapVotesProofs!OwnLevelOnly` | `NoVoteAcrossLevels` | `FirstTic`: a vote older than the level meets it in its first tic, and the vote's tic, which comes before that of the game, interrupts it there |
| `MapVotesProofs!PatientsAreToldTheTruth` | `PatientOkIsTrue` | `CacheInv`, an invariant of the channel: of what a patient client asks, either the question or the answer is under way, never both, and no answer is about an older list than the server counts on (`Orderly`, `Truthful`) |
| `MapVotesProofs!VotedMapIsLoaded` | `MapVoteLoadsItsMap`, with fewer edits than versions | `VoteInv`: the version of the list is that of the vote and the number of edits since; while that is 0 the index is that of the named map |
| `ConnectionsProofs!IdsConserved` | `IdsAreConserved` | with no more slots than `sv_maxclients` allows and with distinct ids, no free id means that all are in use, and then nobody comes before one is given back (`IdsInv`); after an error only this is left, that those still free are apart from those held |
| `MoversProofs!TypeCorrect`, `OwnPlanes`, `Listed`, `Recovered` | `TypeOK`, `EveryMoverOwnsItsPlane`, `MoversAreListed`, `CrushersRecover` | one invariant, `IInv`: the type, `SoundMover` (which statuses, planes and speeds belong together), the ownership of planes, and `PointersLead`: a pointer leads to a listed mover of a kind that has that plane |
| `MoversProofs!ChainLinked` | `ChainIsLinked`, if `FirstStepsApart` | `StairsInv`: a locked sector's links lead there and back, and the step before it is locked or is a first step of `EV_BuildStairs`, which is never locked and has nothing before it. What a search reaches is a smallest set closed under the links (`ReachIs`), so whoever clears the locks from the end of a chain leaves no locked sector with a link into it (`UnlockLinks`); a new staircase takes sectors without locks, so that no link of a locked one leads to them (`BuildLinks`) |
| `HordeProofs!HordeBooks` | `BooksAreExact` | every operator on the record changes the counters by what it does to the set of actors: sums over a set in which one actor is added, removed or changed |
| `HordeProofs!HordeBossLimit` | `BossLimitHolds` | without a recipe there are no bosses, and a spawn takes no more than the limit leaves |

The books of a horde and the wins of a match are sums, for which the community modules have a
recursive function. `SumProofs` holds the lemmas about it, which say nothing of the game: above
all that a sum over a finite set is split at any element (`SumSplits`). Induction theorems take an
operator, which the provers cannot instantiate; each of these proofs refutes a smallest
counterexample instead.

`RoundLimitHolds` is not inductive: a match in `endround` in its last round would break
it with the next round, and the proof needs that `endRound` goes to `endgame` there. The proofs
of `Match` follow the code: each operator keeps a `Sound` game sound and neither
adds players nor, except where it may, rounds (`Keeps`), and operators that call others
compose these facts. `NoOverfill` rests on the fact that every path into the game asks
`G_CanJoinGameStart` in the same step. The invariants of a match build on each other in
the order of the table, and each has a lemma per operator and one per action; the header of the
module says how they are named.

Some theorems have hypotheses. Those of two about the match are on its settings, and every part
of them is needed: TLC finds a violation when any one is dropped, by an event of the code that
does not serve the queue or count the survivors (section 12). `Unattended`: nobody restarts or forces the match, no
telefrags at `level.time` 0, matches with lives have no warmup that players end and start by themselves.
`AlwaysServed`: no lobbies, matches without lives have no warmup, and are not restarted. A vote's
theorem has one as well: without it a byte's 256 edits make an old version look new. That of the
stairs is on the map. `FirstStepsApart`: nothing leads to the first step of an `EV_BuildStairs`, it leads
on to one sector only, it does not begin a generalized staircase too, and there are no more than two
specials. Without any of these TLC has a chain whose links disagree: the first step, not
being locked, is taken again while the rest is being built, and of three specials the middle one may
be busy when the first is taken again (section 12).

For movers neither the ownership nor the list is inductive alone: a new mover is kept
off a plane by the sector's pointer, so the pointer has to be right; a pointer is cleared with
the mover it leads to, so no two movers may share one; and `CrushersRecover` needs that a
stopped crusher remembers a direction that goes with its speed. There is a lemma for a turn
of each kind of thinker (`RunThink`), one for the end of a tic and one for a new mover, and
the starts and stops compose them.

**Only model-checked**:

- Liveness (`MissedArrives`, `CountdownsEnd`, `TimeLimitEndsRounds`, `DroppedFlagsReturn`, `VotesEnd`,
  `QueriesEnd`, `AttemptsEnd`, `SlotsAreUsed`, `MoversEnd`, `StairsComplete`, `WavesEnd`): fairness and
  ENABLED are out of the prover's reach.

## 11. Not modelled

- *Master server, bans, server queries, resources, console*: sequential programs whose
  errors a unit test finds.
- *Unlagged, physics, monsters, weapons, prediction*: numeric simulation.
- *Network ids, demos, downloads*: worth a model; open.
- *Scripts*: an interpreter whose behavior is that of its programs. The exits are in `Match`.
- *Within the modelled parts*: what each section above lists, and settings that change
  during a match, `sv_emptyreset`, `sv_emptyfreeze` and changes of team.

## 12. Divergences

One is shown by a run:

- `link_gap`: `SV_AcknowledgePacket` (server/src/sv_rproto.cpp:276) stops resending at
  the first packet of the gap that kept no reliable data and then moves `last_sequence`
  past all of them, so reliable data behind it is never sent again although the
  comment at line 156 says it is kept to be retransmitted "if it's missed".

The others were met while modelling. They are in the models, or in the assumptions named
above; the properties of the runs are about something else.

Link:
- An overflow inside `SV_ConnectClient2` drops the player, and the function goes on to assign
  `PST_ENTER`.
- A duplicate of packet 0 is applied again by the client, which has not entered it among the
  received ones: `AppliedAtMostOnce` excepts the message it carries.

Match:
- A queued spectator who asks again once the game is joinable joins with his place in the
  queue (`SV_SetPlayerSpec`), and the queue later joins him a second time.
- `G_DeferedReset` and `G_DeferedFullReset` overwrite a change of map that is pending.
- `LevelState::reset` clears the countdown that `setState` has just set: the first round
  after a change of map has no preround.
- The countdown goes on when the last ready player takes his readiness back.
- A telefrag at `level.time` 0 takes a life without counting the survivors. A fight that nobody is
  left to fight also goes on when somebody restarts or forces a match whose survivors have just been
  counted, or when a warmup ends with too few players (`Unattended` rules these out).
- The `restart` command takes a lobby out of its warmup.
- The queue is not served when the map before was a lobby, nor when a match without lives goes from
  its end back to the warmup or is restarted there (`AlwaysServed`); with lives it is also left alone
  from the end of a game until the next round.
- A player whose joining ends the match, since he makes up the number or joins a second time from a
  place he kept in the queue (sv_main.cpp:3297), has his wins cleared after they were counted, and is
  announced as a winner without any.
- A restart vote that passes in the frame of a deferred reset gets a countdown that is
  longer by the time already played.
- CTF with lives and without sides decides a round twice: the branch for objectives of
  `G_LivesCheckEndGame` (common/g_gametype.cpp:939) does not return, although the comment above it
  says what wins, so that the team left wins after the team with the points has, and the second
  winner replaces the first.
- At the time limit a third team that is not in play beats teams with negative points.

Flags:
- The refresh after a capture leaves the flags' states out and the client reads them as
  "home", so with three teams, or with flags that need not be home, it shows a carried flag
  at its base. `PairSeesFlags` is about the other games.

Map list:
- A client that gave up two questions takes the first of two lists sent to it, while the
  server remembers the second and tells it later that its list is good.
- `MapVote` compares versions, and `clear` leaves the version: a vote for a map passes on an
  empty list and does nothing. The version is a byte: after 256 edits during a vote it is the same
  again, and the vote loads whatever map has its index then.

Connections:
- Whoever acknowledges the number 0 gets the connection sequence (`SV_AcknowledgePacket`,
  "Finish our connection sequence."): it runs twice when the acknowledgement of a later packet
  overtakes the first, and for a new slot on an old acknowledgement.
- `Vote::parse` and `SendServerSettings` send packets to players who have not acknowledged packet 0.
- After a recoverable error the slots are cleared and their ids never given back
  (server/src/d_main.cpp:116); when the free ids run out they are all made free again
  (server/src/sv_main.cpp:511), those held by players included. `IdsAreConserved` says how far the
  ids can still be relied on.
- `sv_maxclients` may be 255, and there are 254 ids.
- A client whose update is lost says nothing and is dropped after 65 seconds; the test is for
  equality with a tic. The client has no timeout of its own.

Movers:
- `EV_StopPlat` takes a plat that has been destroyed in the same tic.
- A pillar's two speeds are set so that both planes arrive together, but one branch divides the wrong
  way, and with a ceiling that has no way to go the pillar never ends.
- `waitRaise` and `waitClose` doors of a generalized line start to open, never wait and never
  finish. `platDownWaitUpStayStone` and, under `co_boomphys` or with equal heights, `upWaitDownStay`
  never finish either. `Ends` leaves them out.
- A raise of a lower ceiling or a toggle above it takes the planes through each other.
- `platDownByValue` leaves `m_High` unset, `CloseIn30` its top height and wait, and a delay of 0
  wraps around.
- `ceilRaiseToLowest` sets a top height and moves down; `EV_DoCeiling` reactivates only
  `crushAndRaise`; `P_SpawnDonut` does not ask whether its second sector is busy.
- The state of a finished mover is sent once, unreliably, and `SVC_MovingSector` sends no status
  of a ceiling.

Stairs:
- `EV_BuildStairs` neither locks the first sector nor resets its links, as `EV_DoGenStairs` does. It can be
  raised again while the rest is being built, against p_floor.cpp:1421 ("wait for entire staircase
  to build before retriggering"). Two
  sectors that face each other make a ring, and the search in `DFloor::RunThink` does not end. Steps of
  one-sided or looping lines, and stairs that reset, keep their locks.
- With `usespecials`, a busy sector is passed over and its `nextsec` is written, so that the chain leads
  back but not forth.

Horde:
- With a limit on bosses no wave ends: `m_bossRecipe.limit` would have to become 0, but the state
  machine compares `m_bosses.size()` with the first spawn's count and does not get there. A wave without
  bosses never ends. `WavesEnd` leaves these out.
- The limit on monsters caps each spawn, not what is alive together with it.
- Raised monsters are not in the pool; one that is raised and killed is in the queue of corpses twice.
- After a game is loaded the bosses' recipe is missing and corpses count as bosses.
- `P_RunHordeTics` returns before its reset at `level.time` 0 while the game is paused.
