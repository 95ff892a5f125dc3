------------------------------ MODULE LevelState ------------------------------
(***************************************************************************)
(* The rules of a match on the Odamex server: the warmup, countdown, round *)
(* and endgame states of common/g_levelstate.cpp and the win conditions of *)
(* common/g_gametype.cpp.                                                  *)
(*                                                                         *)
(* The C++ functions call each other in sequence and all work on the same  *)
(* globals, so a function of the source is an operator here that takes the *)
(* game, a record of those globals, and returns the game it leaves behind. *)
(* Match.tla turns the operators into the actions of a server.             *)
(*                                                                         *)
(* Times are in tics.  Flags are 0 or 1.                                   *)
(***************************************************************************)
EXTENDS Integers, FiniteSets, FiniteSetsExt

CONSTANTS
    Players,        \* the player slots
    NumTeams,       \* NUMTEAMS
    TeamOf,         \* userinfo.team of each player
    Settings,       \* the server settings considered
    NoOne           \* the id of a WinInfo that names nobody

Teams == 0 .. (NumTeams - 1)

\* Whoever can score: players when everybody plays alone, teams otherwise.
Sides == Players \cup Teams

GameTypes == {"dm", "teamdm", "ctf", "coop"}

\* The server variables the rules read: g_rounds, g_sides, sv_warmup and so on.
\* "limit" is sv_fraglimit, or sv_scorelimit in CTF; "autostart" is
\* sv_warmup_autostart in percent.
Cvars == [gametype : GameTypes,
          rounds : {0, 1}, sides : {0, 1}, warmup : {0, 1},
          preroundreset : {0, 1}, winnerstays : {0, 1}, allowexit : {0, 1},
          lives : Nat, jointimer : Nat, roundlimit : Nat, winlimit : Nat,
          limit : Nat, countdown : Nat, preroundtime : Nat,
          postroundtime : Nat, timelimit : Nat, maxplayers : Nat,
          teamsinplay : Nat, autostart : Nat, intermission : Nat \ {0}]

ASSUME PlayersAssumption == IsFiniteSet(Players)
ASSUME TeamsAssumption ==
    NumTeams \in Nat /\ NumTeams >= 3 /\ TeamOf \in [Players -> Teams]
ASSUME SettingsAssumption == Settings \subseteq Cvars
ASSUME TeamsInPlayAssumption ==
    \A s \in Settings, p \in Players : TeamOf[p] < s.teamsinplay
ASSUME SidesAssumption == Players \cap Teams = {} /\ NoOne \notin Sides

VARIABLE cvars      \* the settings in force, fixed for a behavior

WarmupStates == {"warmup", "countdown", "forced"}
EndStates == {"endround", "endgame"}
States == WarmupStates \cup {"preround", "ingame"} \cup EndStates

WinTypes == {"unknown", "everybody", "nobody", "draw", "player", "team"}
WinInfo == [type : WinTypes, id : Sides \cup {NoOne}]
NoWinner == [type |-> "unknown", id |-> NoOne]
Draw == [type |-> "draw", id |-> NoOne]
Nobody == [type |-> "nobody", id |-> NoOne]

Actions == {"nothing", "resetlevel", "fullresetlevel", "newgame", "completed"}

\* What a slot of the players list holds.  "left" is a player in PST_DISCONNECT
\* who was in the game: the end of the frame removes him.
Statuses == {"absent", "spectator", "playing", "left"}

\* The members of LevelState (state, done, start, round, winner), the globals
\* level.time, gameaction, gamestate, mapchange and the lobby flag, and the
\* members of player_t and TeamInfo the rules use.
Games == [state : States, done : Nat, start : Nat, round : Nat,
          winner : WinInfo, time : Nat, action : Actions,
          gamestate : {"level", "intermission"}, mapchange : Int,
          lobby : {0, 1}, status : [Players -> Statuses],
          position : [Players -> Nat], delay : [Players -> Nat],
          ready : SUBSET Players, lives : [Players -> Nat],
          score : [Sides -> Int], wins : [Sides -> Nat]]

-----------------------------------------------------------------------------
(* Questions about the settings and the players.                           *)

IsCoopGame == cvars.gametype = "coop"
IsTeamGame == cvars.gametype \in {"teamdm", "ctf"}
IsSidesGame == cvars.sides = 1 /\ IsTeamGame

IsRoundsGame ==
    /\ cvars.rounds = 1
    /\ ~(IsCoopGame /\ (cvars.lives < 1 \/ cvars.roundlimit < 1))

\* PlayerQuery: those in the game and not spectating.
InGame(g) == {p \in Players : g.status[p] = "playing"}
Alive(g) == {p \in InGame(g) : g.lives[p] > 0}

TeamsOf(S) == {TeamOf[p] : p \in S}

\* The members of S with the highest value of f: a query's filterSortMax.
Tops(f, S) == {x \in S : \A y \in S : f[y] <= f[x]}

LivesPool(g) ==
    [t \in Teams |-> SumFunctionOnSet(g.lives, {p \in Alive(g) : TeamOf[p] = t})]

The(S) == CHOOSE x \in S : TRUE

WonBy(side) ==
    [type |-> IF IsTeamGame THEN "team" ELSE "player", id |-> side]

\* A single best side wins, several draw.
WinnerAmong(S) == IF Cardinality(S) = 1 THEN WonBy(The(S)) ELSE Draw

\* The team on defense: the sides change with the rounds.
DefendingTeam(g) ==
    LET teams == IF cvars.teamsinplay < 3 THEN 2 ELSE 3
        round0 == IF g.round = 0 THEN 0 ELSE g.round - 1
    IN  round0 % teams

\* A bug to catch: the level state is not asked whether a game is on.
CanEndGameAnytime(g) == g.lobby = 0

CanEndGame(g) ==
    /\ g.lobby = 0
    /\ g.action \notin {"resetlevel", "fullresetlevel"}
    /\ g.state = "ingame"

CanScoreChange(g) == g.state = "ingame"

CanReadyToggle(g) == g.state \notin {"forced", "endgame"}

CanJoinGameStart(g) ==
    /\ g.gamestate = "level"
    /\ g.state # "endgame"
    /\ Cardinality(InGame(g)) < cvars.maxplayers

\* The time left to join is over when level.time reaches the end of the timer.
JoinTimerOver(g) == g.start + cvars.jointimer <= g.time

CanJoinGame(g) ==
    /\ CanJoinGameStart(g)
    /\ ~(cvars.lives > 0 /\ g.state = "ingame" /\ JoinTimerOver(g))

-----------------------------------------------------------------------------
(* LevelState: the state and its countdowns.                               *)

StartOfRoundState ==
    IF /\ IsRoundsGame
       /\ cvars.preroundtime > 0
       /\ cvars.gametype \in {"dm", "teamdm"}
    THEN "preround"
    ELSE "ingame"

DoneTime(g, new) ==
    CASE new \in {"countdown", "forced"} -> g.time + cvars.countdown
      [] new = "preround"               -> cvars.preroundtime
      [] new \in EndStates              -> g.time + cvars.postroundtime
      [] OTHER                          -> 0

StartTime(g) ==
    IF g.action \in {"resetlevel", "fullresetlevel"} THEN 1 ELSE g.time + 1

SetState(g, new) ==
    [g EXCEPT !.state = new,
              !.done = DoneTime(g, new),
              !.start = IF new = "ingame" THEN StartTime(g) ELSE g.start,
              !.round = IF new \in WarmupStates THEN 0 ELSE g.round,
              !.winner = IF new \in EndStates THEN g.winner ELSE NoWinner]

\* The countdown is zeroed last, whatever the state that was set.
Reset(g) ==
    IF \/ g.lobby = 1
       \/ cvars.lives > 0 /\ InGame(g) = {}
       \/ cvars.lives > 0 /\ ~IsCoopGame
       \/ cvars.warmup = 1
    THEN [SetState(g, "warmup") EXCEPT !.done = 0]
    ELSE [SetState([g EXCEPT !.round = 1], StartOfRoundState) EXCEPT !.done = 0]

Restart(g) == SetState(g, "forced")

ForceStart(g) == IF g.state = "warmup" THEN SetState(g, "forced") ELSE g

\* The ready players the autostart ratio asks for, rounded up.
NeededReady(total) == (total * cvars.autostart + 99) \div 100

ReadyToggle(g) ==
    LET ready == InGame(g) \cap g.ready
        enough == Cardinality(ready) >= NeededReady(Cardinality(InGame(g)))
    IN  IF \/ cvars.warmup = 0
           \/ g.lobby = 1
           \/ g.state \notin {"warmup", "countdown"}
           \/ ready = {}
        THEN g
        ELSE IF enough /\ g.state = "warmup" THEN SetState(g, "countdown")
        ELSE IF ~enough /\ g.state = "countdown" THEN SetState(g, "warmup")
        ELSE g

-----------------------------------------------------------------------------
(* Ending rounds and games.                                                *)

\* The sides a match is won among.
Contenders(g) == IF IsTeamGame THEN Teams ELSE InGame(g)

RoundLimitHit(g) == cvars.roundlimit > 0 /\ g.round >= cvars.roundlimit

WinLimitHit(g) ==
    LET tops == Tops(g.wins, Contenders(g)) IN
    /\ cvars.winlimit > 0
    /\ Cardinality(tops) = 1
    /\ g.wins[The(tops)] >= cvars.winlimit

RoundsShouldEndGame(g) == RoundLimitHit(g) \/ (~IsCoopGame /\ WinLimitHit(g))

MatchWinner(g) ==
    IF IsCoopGame THEN Nobody ELSE WinnerAmong(Tops(g.wins, Contenders(g)))

\* A bug to catch: the limit is compared with the rounds before this one.
EndRoundLate(g) ==
    IF RoundsShouldEndGame([g EXCEPT !.round = g.round - 1])
    THEN SetState([g EXCEPT !.winner = MatchWinner(g)], "endgame")
    ELSE SetState(g, "endround")

\* A bug to catch: the winner of the last round is taken for the match winner.
EndRoundKeeping(g) ==
    IF IsRoundsGame /\ ~RoundsShouldEndGame(g)
    THEN SetState(g, "endround")
    ELSE SetState(g, "endgame")

EndRound(g) ==
    IF IsRoundsGame
    THEN IF RoundsShouldEndGame(g)
         THEN SetState([g EXCEPT !.winner = MatchWinner(g)], "endgame")
         ELSE SetState(g, "endround")
    ELSE SetState(g, IF IsCoopGame THEN "warmup" ELSE "endgame")

EndGame(g) == IF g.state # "endgame" THEN SetState(g, "endgame") ELSE g

GiveWins(g, side) == [g EXCEPT !.wins[side] = @ + 1]

SetWinner(g, win) == [g EXCEPT !.winner = win]

\* A side wins the round.
WinRound(g, side) == EndRound(SetWinner(GiveWins(g, side), WonBy(side)))

DrawRound(g) == EndRound(SetWinner(g, Draw))

\* With at most one team alive CTF without sides is decided on the score ...
ObjectivesCheck(g) ==
    LET tops == Tops(g.score, Teams) IN
    IF /\ cvars.gametype = "ctf"
       /\ ~IsSidesGame
       /\ Cardinality(TeamsOf(Alive(g))) <= 1
    THEN IF Cardinality(tops) = 1 THEN WinRound(g, The(tops)) ELSE DrawRound(g)
    ELSE g

\* ... and then, like every team game, on who is left.
LastTeamCheck(g, aliveTeams) ==
    CASE aliveTeams = {}             -> DrawRound(g)
      [] Cardinality(aliveTeams) = 1 -> WinRound(g, The(aliveTeams))
      [] OTHER                       -> g

LastPlayerCheck(g) ==
    CASE Alive(g) = {}             -> DrawRound(g)
      [] Cardinality(Alive(g)) = 1 -> WinRound(g, The(Alive(g)))
      [] OTHER                     -> g

LivesCheckEndGame(g) ==
    IF cvars.lives = 0 \/ ~CanEndGame(g) THEN g
    ELSE CASE IsCoopGame ->
                IF Alive(g) = {} THEN EndRound(SetWinner(g, Nobody)) ELSE g
           [] IsTeamGame ->
                LastTeamCheck(ObjectivesCheck(g), TeamsOf(Alive(g)))
           [] OTHER -> LastPlayerCheck(g)

\* The frag limit of players or teams, the score limit in CTF.  It is checked
\* after every change of a score, so the best side is alone when it is hit.
ScoreCheckEndGame(g) ==
    LET tops == Tops(g.score, Contenders(g)) IN
    IF /\ CanEndGame(g)
       /\ cvars.limit > 0
       /\ tops # {}
       /\ g.score[The(tops)] >= cvars.limit
    THEN WinRound(g, The(tops))
    ELSE g

\* Out of time: nobody is given a win for it, except the defenders.
TimeOver(g) ==
    LET defenders == DefendingTeam(g)
        onLives == cvars.lives > 0 /\ cvars.limit = 0
        value == IF ~onLives THEN g.score
                 ELSE IF IsTeamGame THEN LivesPool(g) ELSE g.lives
    IN  IF InGame(g) = {} THEN SetWinner(g, NoWinner)
        ELSE IF IsCoopGame THEN g
        ELSE IF IsSidesGame
        THEN SetWinner(GiveWins(g, defenders), WonBy(defenders))
        ELSE SetWinner(g, WinnerAmong(Tops(value, Contenders(g))))

\* A bug to catch: a round that would be a draw goes on.
TimeCheckEndGameSudden(g) ==
    IF /\ CanEndGame(g)
       /\ cvars.timelimit > 0
       /\ g.time >= cvars.timelimit + 1
       /\ TimeOver(g).winner # Draw
    THEN EndRound(TimeOver(g))
    ELSE g

TimeCheckEndGame(g) ==
    IF CanEndGame(g) /\ cvars.timelimit > 0 /\ g.time >= cvars.timelimit + 1
    THEN EndRound(TimeOver(g))
    ELSE g

\* Called when a player has left the game: with lives, too few players to go on
\* end it, or take a countdown back to the warmup.
AssertValidPlayerCount(g) ==
    LET sides == IF IsTeamGame THEN TeamsOf(InGame(g)) ELSE InGame(g)
        valid == InGame(g) # {} /\ (IsCoopGame \/ Cardinality(sides) > 1)
        win == IF sides = {} THEN NoWinner ELSE WonBy(The(sides))
        h == LivesCheckEndGame(IF valid THEN g ELSE SetWinner(g, win))
    IN  IF cvars.lives = 0 \/ g.state \in {"warmup", "endgame"} THEN g
        ELSE IF IsCoopGame /\ InGame(g) = {} THEN Reset(g)
        ELSE IF valid THEN h
        ELSE IF h.state \in {"countdown", "forced"} THEN Reset(h)
        ELSE EndGame(h)

-----------------------------------------------------------------------------
(* LevelState::tic, once per tic while a level runs.                       *)

DeferedReset(g) == [g EXCEPT !.action = "resetlevel"]
DeferedFullReset(g) == [g EXCEPT !.action = "fullresetlevel"]

ExitLevel(g) ==
    [g EXCEPT !.gamestate = "intermission",
              !.mapchange = cvars.intermission,
              !.action = "completed"]

\* The warmup that lives ask for ends by itself once there are enough players.
EnoughPlayers(g) ==
    CASE IsCoopGame -> InGame(g) # {}
      [] IsTeamGame -> Cardinality(TeamsOf(InGame(g))) >= 2
      [] OTHER      -> Cardinality(InGame(g)) >= 2

TicWarmup(g) ==
    IF g.lobby = 1 THEN g
    ELSE IF cvars.warmup = 0 /\ EnoughPlayers(g) THEN SetState(g, "forced")
    ELSE IF cvars.autostart = 0 THEN SetState(g, "countdown")
    ELSE g

\* A bug to catch: the next round starts without the level being reset.
TicDoneDirty(g) ==
    LET next == [g EXCEPT !.round = @ + 1] IN
    CASE g.state = "preround" ->
           SetState(IF cvars.preroundreset = 1 THEN DeferedReset(g) ELSE g, "ingame")
      [] g.state = "endround" -> SetState(next, StartOfRoundState)
      [] g.state = "endgame"  -> ExitLevel(g)
      [] OTHER                -> SetState(DeferedFullReset(next), StartOfRoundState)

TicDone(g) ==
    LET next == [g EXCEPT !.round = @ + 1] IN
    CASE g.state = "preround" ->
           SetState(IF cvars.preroundreset = 1 THEN DeferedReset(g) ELSE g, "ingame")
      [] g.state = "endround" -> SetState(DeferedReset(next), StartOfRoundState)
      [] g.state = "endgame"  -> ExitLevel(g)
      [] OTHER                -> SetState(DeferedFullReset(next), StartOfRoundState)

\* A bug to catch: nothing is counted down while the gameplay stands still.
TicFrozen(g) ==
    IF g.state = "warmup" THEN TicWarmup(g)
    ELSE IF g.state \notin {"ingame"} \cup EndStates /\ g.time >= g.done
    THEN TicDone(g)
    ELSE g

Tic(g) ==
    IF /\ g.state # "warmup"
       /\ InGame(g) = {}
       /\ cvars.warmup = 1 \/ cvars.lives > 0
    THEN SetState(g, "warmup")
    ELSE IF g.state = "warmup" THEN TicWarmup(g)
    ELSE IF g.state # "ingame" /\ g.time >= g.done THEN TicDone(g)
    ELSE g

=============================================================================
