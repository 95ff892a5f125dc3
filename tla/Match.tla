-------------------------------- MODULE Match ---------------------------------
(***************************************************************************)
(* A match on the Odamex server: players connect, join, queue, get ready,  *)
(* score, die and leave while the server goes through the phases of its    *)
(* frames.  One frame (SV_RunTics) reads the packets and the console, runs *)
(* one tic (the level state, the votes, the players' commands, the pending *)
(* game action, the thinkers) and removes the clients that were dropped.   *)
(*                                                                         *)
(* The server is single-threaded.  A loop of the source that calls other   *)
(* handlers takes one step per iteration here, in a phase of its own that  *)
(* enables nothing else.                                                   *)
(***************************************************************************)
EXTENDS LevelState

CONSTANTS
    ReJoinDelay,    \* tics before somebody who left may join again
    LobbyMaps,      \* whether the maps that get loaded are lobbies
    Votes,          \* the votes that may pass
    Commands,       \* the commands the administrator may enter
    EarlyKills,     \* whether spawning players telefrag at level.time 0
    MaxTime,        \* bound: level.time is not let past this
    MaxScore,       \* bound on the score of a side
    MaxDebt         \* bound on a negative score

VoteKinds == {"restart", "forcestart", "forcespec", "map"}
CommandKinds == {"restart", "forcestart", "nextmap", "map"}

ASSUME BoundsAssumption ==
    /\ ReJoinDelay \in Nat
    /\ MaxTime \in Nat
    /\ MaxScore \in Nat
    /\ MaxDebt \in Nat
ASSUME ChoicesAssumption ==
    /\ LobbyMaps \subseteq {0, 1}
    /\ Votes \subseteq VoteKinds
    /\ Commands \subseteq CommandKinds
    /\ EarlyKills \in BOOLEAN
ASSUME MaxTimeAssumption ==
    \A s \in Settings :
        /\ s.timelimit < MaxTime
        /\ s.preroundtime + 1 + s.jointimer <= MaxTime

VARIABLES
    game,       \* the globals of LevelState's operators
    phase,      \* where in its frame the server is
    queue,      \* the loop of SV_UpdatePlayerQueuePositions
    losers      \* the loop of SV_UpdatePlayerQueueLevelChange

vars == <<cvars, game, phase, queue, losers>>

Phases == {"packets", "votes", "commands", "world", "drops", "cleanup",
           "queue", "losers"}

Queues == [todo : SUBSET Players, place : Nat, test : {"join", "start"},
           back : Phases \ {"queue"}]

Idle == [todo |-> {}, place |-> 1, test |-> "join", back |-> "packets"]

Spectating(p) == game.status[p] = "spectator"
Playing(p) == game.status[p] = "playing"
Present(g) == {p \in Players : g.status[p] # "absent"}
Left(g) == {p \in Players : g.status[p] = "left"}

-----------------------------------------------------------------------------
(* Joining and leaving the game.                                           *)

\* P_ClearPlayerScores and TeamInfo_ResetScores, with or without the wins.
ClearScores(g, players, sides, clearWins) ==
    [g EXCEPT
        !.lives = [p \in Players |-> IF p \in players THEN cvars.lives ELSE g.lives[p]],
        !.score = [x \in Sides |-> IF x \in sides THEN 0 ELSE g.score[x]],
        !.wins = [x \in Sides |->
                     IF clearWins /\ x \in sides THEN 0 ELSE g.wins[x]]]

\* SV_SetReady without its message.
SetReady(g, p, setting) ==
    ReadyToggle([g EXCEPT !.ready = IF setting THEN @ \cup {p} ELSE @ \ {p}])

Unready(g, p) == IF cvars.warmup = 1 THEN SetReady(g, p, FALSE) ELSE g

\* The spectator's body is killed while he still has the lives of his last
\* game, and only then gets fresh scores.
JoinPlayer(g, p) ==
    LET joined == [g EXCEPT !.status[p] = "playing"]
        killed == IF g.time > 0 THEN LivesCheckEndGame(joined) ELSE joined
    IN  Unready(ClearScores(killed, {p}, {p}, TRUE), p)

SpecPlayer(g, p) ==
    AssertValidPlayerCount(
        [Unready([g EXCEPT !.status[p] = "spectator"], p)
            EXCEPT !.delay[p] = ReJoinDelay])

\* SV_UpdatePlayerQueuePositions: go through the queue with the given test,
\* then go on at "back".  Whoever is leaving is out of the queue.
UpdateQueue(g, test, leaving, back) ==
    LET queued == {p \in Players : g.position[p] > 0} \ leaving IN
    /\ game' = [g EXCEPT !.position =
                   [p \in Players |-> IF p \in leaving THEN 0 ELSE g.position[p]]]
    /\ IF queued = {}
       THEN phase' = back /\ queue' = Idle
       ELSE /\ phase' = "queue"
            /\ queue' = [todo |-> queued, place |-> 1, test |-> test, back |-> back]

First(p) == \A q \in queue.todo : game.position[p] <= game.position[q]

MayJoin(g, test) == IF test = "start" THEN CanJoinGameStart(g) ELSE CanJoinGame(g)

QueueAfter(p, place) ==
    IF queue.todo = {p}
    THEN phase' = queue.back /\ queue' = Idle
    ELSE /\ phase' = phase
         /\ queue' = [queue EXCEPT !.todo = @ \ {p}, !.place = place]

\* A bug to catch: everybody in the queue joins as soon as one may.
ServeQueueAtOnce ==
    /\ phase = "queue"
    /\ \E p \in queue.todo :
          /\ First(p)
          /\ game' = JoinPlayer([game EXCEPT !.position[p] = 0], p)
          /\ QueueAfter(p, queue.place)
    /\ UNCHANGED <<cvars, losers>>

\* A bug to catch: those who stay in the queue keep their numbers.
ServeQueueKeeping ==
    /\ phase = "queue"
    /\ \E p \in queue.todo :
          /\ First(p)
          /\ game' = IF MayJoin(game, queue.test)
                     THEN JoinPlayer([game EXCEPT !.position[p] = 0], p)
                     ELSE game
          /\ QueueAfter(p, queue.place)
    /\ UNCHANGED <<cvars, losers>>

\* The first in the queue joins or gets the next place.
ServeQueue ==
    /\ phase = "queue"
    /\ \E p \in queue.todo :
          /\ First(p)
          /\ \/ /\ MayJoin(game, queue.test)
                /\ game' = JoinPlayer([game EXCEPT !.position[p] = 0], p)
                /\ QueueAfter(p, queue.place)
             \/ /\ ~MayJoin(game, queue.test)
                /\ game' = [game EXCEPT !.position[p] = queue.place]
                /\ QueueAfter(p, queue.place + 1)
    /\ UNCHANGED <<cvars, losers>>

-----------------------------------------------------------------------------
(* Packets and console commands, read at the start of a frame.             *)

\* SV_ConnectClient2: a new client starts as a spectator.
Connect(p) ==
    /\ phase = "packets"
    /\ game.status[p] = "absent"
    /\ game' = ClearScores([game EXCEPT !.status[p] = "spectator"], {p}, {p}, TRUE)
    /\ UNCHANGED <<cvars, phase, queue, losers>>

\* A slot without a player.
Erase(g, p) ==
    [g EXCEPT !.status[p] = "absent", !.ready = @ \ {p}, !.delay[p] = 0,
              !.lives[p] = 0, !.score[p] = 0, !.wins[p] = 0]

\* SV_DisconnectClient, for a client that leaves or is dropped.  A spectator's
\* removal at the end of the frame changes nothing else, so he goes at once.
Disconnect(p) ==
    /\ phase \in {"packets", "drops"}
    /\ Spectating(p) \/ Playing(p)
    /\ UpdateQueue(
         IF Playing(p) THEN [game EXCEPT !.status[p] = "left"] ELSE Erase(game, p),
         "join", {p}, phase)
    /\ UNCHANGED <<cvars, losers>>

\* A bug to catch: a spectator may join although the join timer is over.
JoinRequestAnyTime(p) ==
    /\ phase = "packets"
    /\ Spectating(p)
    /\ game.delay[p] = 0
    /\ CanJoinGameStart(game)
    /\ game' = JoinPlayer(game, p)
    /\ UNCHANGED <<cvars, phase, queue, losers>>

\* SV_SetPlayerSpec(player, false): join, or queue to join.
JoinRequest(p) ==
    /\ phase = "packets"
    /\ Spectating(p)
    /\ game.delay[p] = 0
    /\ \/ /\ CanJoinGame(game)
          /\ game' = JoinPlayer(game, p)
          /\ UNCHANGED <<phase, queue>>
       \/ /\ ~CanJoinGame(game)
          /\ game.position[p] = 0
          /\ UpdateQueue([game EXCEPT !.position[p] = 255], "join", {}, "packets")
    /\ UNCHANGED <<cvars, losers>>

\* A bug to catch: the queue is not served when somebody leaves the game.
SpectateRequestQuietly(p) ==
    /\ phase = "packets"
    /\ Playing(p)
    /\ game' = SpecPlayer(game, p)
    /\ UNCHANGED <<cvars, phase, queue, losers>>

\* SV_SetPlayerSpec(player, true): leave the game, or the queue.
SpectateRequest(p) ==
    /\ phase = "packets"
    /\ \/ Playing(p) /\ UpdateQueue(SpecPlayer(game, p), "join", {p}, "packets")
       \/ /\ Spectating(p)
          /\ game.position[p] > 0
          /\ UpdateQueue([game EXCEPT !.delay[p] = ReJoinDelay], "join", {p}, "packets")
    /\ UNCHANGED <<cvars, losers>>

\* ReadyCmd.  Nothing reads the ready flag while sv_warmup is off.
ReadyRequest(p) ==
    /\ phase = "packets"
    /\ Spectating(p) \/ Playing(p)
    /\ cvars.warmup = 1
    /\ CanReadyToggle(game)
    /\ game' = SetReady(game, p, p \notin game.ready)
    /\ UNCHANGED <<cvars, phase, queue, losers>>

DeferedInitNew(g) == [g EXCEPT !.action = "newgame"]

\* The commands restart, forcestart, nextmap and map (or forcenextmap).
Console(command) ==
    /\ phase = "packets"
    /\ game' = CASE command = "restart"    -> Restart(game)
                 [] command = "forcestart" -> ForceStart(game)
                 [] command = "nextmap"    -> ExitLevel(game)
                 [] command = "map"        -> DeferedInitNew(game)
    /\ UNCHANGED <<cvars, phase, queue, losers>>

-----------------------------------------------------------------------------
(* The tic: SV_GameTics, then G_Ticker.                                    *)

RunDelays(g) ==
    [g EXCEPT !.delay = [p \in Players |->
                   IF g.delay[p] > 0 THEN g.delay[p] - 1 ELSE 0]]

\* Bound: past MaxTime nothing reads level.time but the countdown that runs, so
\* the two are moved back together, a countdown that is over to 0.
HoldTime(g) ==
    LET over == g.time - MaxTime IN
    IF over <= 0 THEN g
    ELSE [g EXCEPT !.time = MaxTime,
                   !.done = IF @ <= over THEN 0 ELSE @ - over]

\* The level state and the time limit; in the intermission neither.
GameTics ==
    /\ phase = "packets"
    /\ LET ticked == IF game.gamestate = "level"
                     THEN TimeCheckEndGame(Tic(HoldTime(game)))
                     ELSE game
           voting == game.gamestate = "level" /\ Votes # {}
       IN  /\ game' = IF voting THEN ticked ELSE RunDelays(ticked)
           /\ phase' = IF voting THEN "votes" ELSE "commands"
    /\ UNCHANGED <<cvars, queue, losers>>

EndVotes ==
    /\ phase = "votes"
    /\ game' = RunDelays(game)
    /\ phase' = "commands"
    /\ UNCHANGED <<cvars, queue, losers>>

\* A vote passes, unless nobody is left who voted or it is interrupted because
\* the map is new or over.
VotePasses(vote) ==
    /\ phase = "votes"
    /\ Present(game) \ Left(game) # {}
    /\ game.time # 1
    /\ game.gamestate = "level"
    /\ \/ /\ vote # "forcespec"
          /\ game' = RunDelays(CASE vote = "restart"    -> Restart(Reset(game))
                                 [] vote = "forcestart" -> ForceStart(game)
                                 [] vote = "map"        -> DeferedInitNew(game))
          /\ phase' = "commands"
          /\ UNCHANGED queue
       \/ /\ vote = "forcespec"
          /\ \E p \in InGame(game) :
                UpdateQueue(RunDelays(SpecPlayer(game, p)), "join", {p}, "commands")
    /\ UNCHANGED <<cvars, losers>>

\* The score a kill changes, and by how much.  Frags are not counted at
\* level.time 0, but a death without a killer always costs one.
Scorer(victim, killer) ==
    IF cvars.gametype = "dm"
    THEN IF killer = NoOne THEN victim ELSE killer
    ELSE TeamOf[killer]

Frag(victim, killer) ==
    IF \/ cvars.gametype \notin {"dm", "teamdm"}
       \/ cvars.gametype = "teamdm" /\ killer = NoOne
       \/ killer # NoOne /\ game.time = 0
    THEN 0
    ELSE IF \/ killer \in {NoOne, victim}
            \/ cvars.gametype = "teamdm" /\ TeamOf[killer] = TeamOf[victim]
    THEN -1
    ELSE 1

GiveFrags(g, victim, killer) ==
    LET num == Frag(victim, killer) IN
    IF num # 0 /\ CanScoreChange(g)
    THEN [g EXCEPT !.score[Scorer(victim, killer)] = @ + num]
    ELSE g

TakeLife(g, victim) ==
    IF g.lives[victim] > 0 /\ g.state = "ingame"
    THEN [g EXCEPT !.lives[victim] = @ - 1]
    ELSE g

\* A bug to catch: the survivors are not counted after a death.
KillPlayerOnly(victim, killer) ==
    LET scored == TakeLife(GiveFrags(game, victim, killer), victim) IN
    IF killer # NoOne /\ cvars.gametype \in {"dm", "teamdm"}
    THEN ScoreCheckEndGame(scored)
    ELSE scored

\* P_KillMobj for a player; nothing ends the game at level.time 0.
KillPlayer(victim, killer) ==
    LET scored == TakeLife(GiveFrags(game, victim, killer), victim)
        limited == IF killer # NoOne /\ cvars.gametype \in {"dm", "teamdm"}
                   THEN ScoreCheckEndGame(scored)
                   ELSE scored
    IN  IF game.time = 0 THEN scored ELSE LivesCheckEndGame(limited)

\* Players act in the commands phase and in the thinkers', for the rest of the
\* frame even those who have just been dropped.
Acting(p) ==
    /\ phase = "world" \/ (phase = "commands" /\ game.gamestate = "level")
    /\ p \in InGame(game) \cup Left(game)
    /\ cvars.lives = 0 \/ game.lives[p] > 0

Kill(victim, killer) ==
    /\ Acting(victim)
    /\ EarlyKills \/ game.time > 0
    /\ game' = KillPlayer(victim, killer)
    /\ \A x \in Sides : game'.score[x] \in -MaxDebt .. MaxScore
    /\ UNCHANGED <<cvars, phase, queue, losers>>

\* SV_FlagScore: a flag is captured.
Capture(p) ==
    /\ Acting(p)
    /\ cvars.gametype = "ctf"
    /\ CanScoreChange(game)
    /\ game.score[TeamOf[p]] < MaxScore
    /\ game' = ScoreCheckEndGame([game EXCEPT !.score[TeamOf[p]] = @ + 1])
    /\ UNCHANGED <<cvars, phase, queue, losers>>

\* An exit line or switch.
Exit(p) ==
    /\ Acting(p)
    /\ game.lobby = 1 \/ IsCoopGame \/ cvars.allowexit = 1
    /\ game' = ExitLevel(game)
    /\ UNCHANGED <<cvars, phase, queue, losers>>

\* G_DoResetLevel, up to the service of the queue.
ResetLevel(g, full) ==
    LET cleared == ClearScores(g, Present(g), Present(g) \cup Teams, full) IN
    [cleared EXCEPT !.action = "nothing",
                    !.time = 0,
                    !.ready = IF full /\ cvars.warmup = 1 THEN {} ELSE @]

DoResetLevel ==
    /\ phase = "commands"
    /\ game.action \in {"resetlevel", "fullresetlevel"}
    /\ UpdateQueue(ResetLevel(game, game.action = "fullresetlevel"),
                   "start", {}, "world")
    /\ UNCHANGED <<cvars, losers>>

DoCompleted ==
    /\ phase = "commands"
    /\ game.action = "completed"
    /\ game' = [game EXCEPT !.action = "nothing"]
    /\ UNCHANGED <<cvars, phase, queue, losers>>

\* G_InitNew and G_DoLoadLevel.
LoadLevel(g, lobby) ==
    LET sides == Present(g) \cup (IF IsTeamGame THEN Teams ELSE {})
        cleared == ClearScores(g, Present(g), sides, TRUE)
    IN  Reset([cleared EXCEPT !.time = 0,
                              !.action = "nothing",
                              !.gamestate = "level",
                              !.lobby = lobby,
                              !.delay = [p \in Players |-> 0],
                              !.ready = IF cvars.warmup = 1 THEN {} ELSE @])

\* Those g_winnerstays makes spectators after a game won this way.
Losers(g, win) ==
    IF cvars.winnerstays = 0 THEN {}
    ELSE CASE win.type = "player"            -> InGame(g) \ {win.id}
           [] win.type = "team"              -> {p \in InGame(g) : TeamOf[p] # win.id}
           [] win.type \in {"draw", "nobody"} -> InGame(g)
           [] OTHER                          -> {}

\* G_DoNewGame.  The queue is not served when a lobby is left.
DoNewGame ==
    /\ phase = "commands"
    /\ game.action = "newgame"
    /\ \E lobby \in LobbyMaps :
          LET loaded == LoadLevel(game, lobby)
              booted == Losers(loaded, game.winner)
          IN  IF game.lobby = 1
              THEN game' = loaded /\ phase' = "world" /\ UNCHANGED <<queue, losers>>
              ELSE IF booted = {}
              THEN UpdateQueue(loaded, "start", {}, "world") /\ UNCHANGED losers
              ELSE /\ game' = loaded
                   /\ phase' = "losers"
                   /\ losers' = booted
                   /\ UNCHANGED queue
    /\ UNCHANGED cvars

\* The losers become spectators one by one and may join again at once ...
BootLoser(p) ==
    /\ phase = "losers"
    /\ p \in losers
    /\ losers' = losers \ {p}
    /\ UpdateQueue([SpecPlayer(game, p) EXCEPT !.delay[p] = 0], "join", {p}, "losers")
    /\ UNCHANGED cvars

\* ... and then the queue is served.
LosersBooted ==
    /\ phase = "losers"
    /\ losers = {}
    /\ UpdateQueue(game, "start", {}, "world")
    /\ UNCHANGED <<cvars, losers>>

\* No game action is pending any more.
RunWorld ==
    /\ phase = "commands"
    /\ game.action = "nothing"
    /\ game.gamestate = "level"
    /\ phase' = "world"
    /\ UNCHANGED <<cvars, game, queue, losers>>

\* The intermission counts down to the change of map.
RunIntermission ==
    /\ phase = "commands"
    /\ game.action = "nothing"
    /\ game.gamestate = "intermission"
    /\ LET counted == [game EXCEPT !.mapchange = @ - 1] IN
       game' = IF counted.mapchange = 0 THEN DeferedInitNew(counted) ELSE counted
    /\ phase' = "drops"
    /\ UNCHANGED <<cvars, queue, losers>>

\* The end of P_Ticker.
EndTicker ==
    /\ phase = "world"
    /\ game' = [game EXCEPT !.time = @ + 1]
    /\ phase' = "drops"
    /\ UNCHANGED <<cvars, queue, losers>>

-----------------------------------------------------------------------------
(* The end of the frame.                                                   *)

EndDrops ==
    /\ phase = "drops"
    /\ phase' = IF Left(game) = {} THEN "packets" ELSE "cleanup"
    /\ UNCHANGED <<cvars, game, queue, losers>>

\* SV_RemoveDisconnectedPlayer.
RemoveDisconnected(p) ==
    /\ phase = "cleanup"
    /\ p \in Left(game)
    /\ UpdateQueue(AssertValidPlayerCount(Erase(game, p)), "join", {p},
                   IF Left(game) = {p} THEN "packets" ELSE "cleanup")
    /\ UNCHANGED <<cvars, losers>>

-----------------------------------------------------------------------------
Empty(lobby) ==
    [state |-> "warmup", done |-> 0, start |-> 0, round |-> 0,
     winner |-> NoWinner, time |-> 0, action |-> "nothing",
     gamestate |-> "level", mapchange |-> 0, lobby |-> lobby,
     status |-> [p \in Players |-> "absent"],
     position |-> [p \in Players |-> 0], delay |-> [p \in Players |-> 0],
     ready |-> {}, lives |-> [p \in Players |-> 0],
     score |-> [x \in Sides |-> 0], wins |-> [x \in Sides |-> 0]]

\* The server has just loaded its first map.
Init ==
    /\ cvars \in Settings
    /\ \E lobby \in LobbyMaps : game = Reset(Empty(lobby))
    /\ phase = "packets"
    /\ queue = Idle
    /\ losers = {}

Server ==
    \/ GameTics
    \/ EndVotes
    \/ DoResetLevel
    \/ DoCompleted
    \/ DoNewGame
    \/ \E p \in Players : BootLoser(p)
    \/ LosersBooted
    \/ ServeQueue
    \/ RunWorld
    \/ RunIntermission
    \/ EndTicker
    \/ EndDrops
    \/ \E p \in Players : RemoveDisconnected(p)

Clients ==
    \E p \in Players :
        \/ Connect(p)
        \/ Disconnect(p)
        \/ JoinRequest(p)
        \/ SpectateRequest(p)
        \/ ReadyRequest(p)
        \/ \E killer \in InGame(game) \cup Left(game) \cup {NoOne} : Kill(p, killer)
        \/ Capture(p)
        \/ Exit(p)

Operators ==
    \/ \E command \in Commands : Console(command)
    \/ \E vote \in Votes : VotePasses(vote)

Next == Server \/ Clients \/ Operators

Spec == Init /\ [][Next]_vars

-----------------------------------------------------------------------------
(* Safety.                                                                 *)

\* Every variable holds a value of its type, in every handler of the frame.
TypeOK ==
    /\ cvars \in Settings
    /\ game \in Games
    /\ phase \in Phases
    /\ queue \in Queues
    /\ losers \in SUBSET Players

\* There are never more players in the game than sv_maxplayers, whoever joins,
\* queues, is served from the queue or is booted (G_CanJoinGameStart).
NoOverfill == Cardinality(InGame(game)) <= cvars.maxplayers

Queued == {p \in Players : game.position[p] > 0}

\* The places in the queue are 1, 2, 3 and so on without a gap or a tie,
\* whenever the queue is not just being gone through
\* (SV_UpdatePlayerQueuePositions).
QueueInOrder ==
    phase # "queue" =>
        {game.position[p] : p \in Queued} = 1 .. Cardinality(Queued)

\* Between frames nobody is left in the queue whom the join test would let in:
\* every event that makes room serves the queue.  Games with lives leave it alone
\* between their rounds.
NobodyWaitsInVain ==
    /\ phase = "packets"
    /\ Queued # {}
    /\ cvars.lives = 0 \/ game.state \in {"preround", "ingame"}
    => ~CanJoinGame(game)

\* With g_roundlimit no round beyond the limit is played (G_RoundsShouldEndGame).
RoundLimitHolds ==
    cvars.roundlimit > 0 /\ IsRoundsGame => game.round <= cvars.roundlimit

Sum(f, S) == SumFunctionOnSet(f, S)

\* What a round can give: a round of CTF with lives that is not played on sides
\* ends twice, for the team with the best score and for the survivors.
WinsPerRound ==
    IF cvars.gametype = "ctf" /\ cvars.lives > 0 /\ ~IsSidesGame THEN 2 ELSE 1

\* A round gives one win to one side, but for the games above: the wins held
\* never outnumber the rounds that are over (GiveWins, GiveTeamWins, endRound),
\* unless all scores are about to be cleared.
WinsAreRounds ==
    /\ IsRoundsGame
    /\ game.gamestate = "level"
    /\ game.state \in {"preround", "ingame"} \cup EndStates
    /\ game.action \notin {"fullresetlevel", "newgame"}
    => Sum(game.wins, Sides) <=
           WinsPerRound * (IF game.state \in EndStates THEN game.round ELSE game.round - 1)

\* Between frames a fight for lives that goes on has at least two sides with
\* lives left, in coop one (G_LivesCheckEndGame, G_AssertValidPlayerCount).
SurvivorsRemain ==
    LET alive == IF IsTeamGame THEN TeamsOf(Alive(game)) ELSE Alive(game) IN
    /\ cvars.lives > 0
    /\ phase = "packets"
    /\ Left(game) = {}
    /\ game.gamestate = "level"
    /\ game.state = "ingame"
    => Cardinality(alive) >= (IF IsCoopGame THEN 1 ELSE 2)

-----------------------------------------------------------------------------
(* What a step never does.                                                 *)

Entered(p) == game.status[p] # "playing" /\ game'.status[p] = "playing"

\* A round starts level: when the fight or its preround begins, and no reset is
\* still to come, nobody has a score or has lost a life, whatever was done in the
\* countdowns before it (setState, G_DoResetLevel).
RoundsStartLevel ==
    [][/\ game'.gamestate = "level"
       /\ game'.state \in {"preround", "ingame"}
       /\ game'.action = "nothing"
       /\ game.state # game'.state \/ game.action # "nothing"
       => /\ \A x \in Sides : game'.score[x] = 0
          /\ \A p \in InGame(game') : game'.lives[p] = cvars.lives]_vars

\* Whoever plays against each other.
Rivals(g) == IF IsTeamGame THEN TeamsOf(InGame(g)) ELSE InGame(g)

\* Whom the queue lets in, though he may have joined by himself before.
Served(p) == phase = "queue" /\ game.position[p] > 0 /\ game'.position[p] = 0

\* A match played in rounds ends with a winner who has won at least as many of
\* them as everybody still there (G_RoundsShouldEndGame,
\* G_AssertValidPlayerCount), unless it is the player whose joining ends it: his
\* wins are cleared when they have been counted.
MatchWinnerLeads ==
    [][/\ IsRoundsGame
       /\ game.state # "endgame"
       /\ game'.state = "endgame"
       /\ game'.winner.type \in {"player", "team"}
       /\ \A p \in Players : Entered(p) \/ Served(p) => p # game'.winner.id
       => \A x \in Rivals(game') : game'.wins[x] <= game'.wins[game'.winner.id]]_vars

\* With limited lives nobody enters a round whose join timer is over, neither
\* directly nor from the queue (G_CanJoinGame, SV_UpdatePlayerQueuePositions).
NoLateJoin ==
    [][\A p \in Players :
          Entered(p) /\ cvars.lives > 0 =>
              ~(game.state = "ingame" /\ JoinTimerOver(game))]_vars

-----------------------------------------------------------------------------
(* Liveness.                                                               *)

Counting(state) == game.gamestate = "level" /\ game.state = state

\* Nothing stands still forever: neither a countdown of a round or a game, nor an
\* intermission, nor a row of them without a fight in between (LevelState::tic,
\* G_Ticker).
CountdownsEnd ==
    LET Waiting == \/ game.gamestate = "intermission"
                   \/ \E state \in {"forced", "preround", "endround", "endgame"} :
                         Counting(state)
    IN  Waiting ~> ~Waiting

\* With a time limit every round ends, whatever the players do or do not do
\* (G_TimeCheckEndGame).
TimeLimitEndsRounds ==
    Counting("ingame") /\ cvars.timelimit > 0 ~> ~Counting("ingame")

=============================================================================
