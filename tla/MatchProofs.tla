------------------------------ MODULE MatchProofs ------------------------------
(***************************************************************************)
(* What holds of a match for every set of players, every number of teams   *)
(* and all settings.                                                       *)
(*                                                                         *)
(* A function of the source is an operator on the game, so there is a      *)
(* lemma per operator for each thing the proofs need to know of it, and    *)
(* the lemmas of functions that call others follow from the lemmas of      *)
(* those.  The lemmas are named after the operator or action and what they *)
(* say of it:                                                              *)
(*                                                                         *)
(*   ...Sound          from a sound game it makes a sound game with the    *)
(*                     same players in it                                  *)
(*   ...Step, Tidies   the action keeps the type, the limit on players,    *)
(*                     the round limit and the order of the queue (IInv)   *)
(*   ...Flow, ...Run   the game goes on with the state or ends it, and a   *)
(*                     win goes to a side that plays                       *)
(*   ...Fair           the books of rounds, wins, scores and lives stay    *)
(*                     right (FairInv)                                     *)
(*   ...Winds, Manned, Mans   a fight for lives keeps enough players or    *)
(*                     ends (MannedInv)                                    *)
(*   ...Follows, Waits there is no more room for those who wait, or the    *)
(*                     queue is served (WaitInv)                           *)
(*                                                                         *)
(* The invariants build on each other in this order; the theorems about    *)
(* the first two are in the section "The theorems", those about the other  *)
(* two end the module.                                                     *)
(***************************************************************************)
EXTENDS Match, SumProofs, TLAPS

\* What the round number must satisfy for the round limit to hold: a round that
\* ends below the limit leaves room for one more, and a warmup for the first.
RoundOK(g) ==
    /\ g.state \in WarmupStates => g.round = 0
    /\ g.state = "preround" => StartOfRoundState = "preround"
    /\ cvars.roundlimit > 0 /\ IsRoundsGame =>
          /\ g.round <= cvars.roundlimit
          /\ g.state = "endround" => g.round < cvars.roundlimit

\* A game that is on has been started at some tic.
StartOK(g) == g.state = "ingame" => g.start > 0

\* A game of the right type, whose round and clock go with its state.
Sound(g) == g \in Games /\ RoundOK(g) /\ StartOK(g)

\* h has everybody where g has him: in the game or not, and in the queue.
Stays(g, h) == Sound(h) /\ h.status = g.status /\ h.position = g.position

\* h comes from g in the same tic, with everybody where he was.
Frame(g, h) == h.status = g.status /\ h.position = g.position /\ h.time = g.time

\* h is a sound game that comes from g in the same tic, with everybody where he
\* was.
Keeps(g, h) == Sound(h) /\ Frame(g, h)

\* The settings are among those considered.
Settled == cvars \in Settings

-----------------------------------------------------------------------------
(* The level state.                                                        *)

\* The settings have their types.
LEMMA CvarTypes == ASSUME Settled PROVE cvars \in Cvars
  BY SettingsAssumption DEF Settled

LEMMA StartStateType == StartOfRoundState \in {"preround", "ingame"}
  BY DEF StartOfRoundState

\* setState keeps the game's type; what it does to the round depends on the state.
LEMMA SetStateType ==
  ASSUME Settled, NEW g \in Games, NEW new \in States
  PROVE  /\ SetState(g, new) \in Games
         /\ SetState(g, new).state = new
         /\ SetState(g, new).round = IF new \in WarmupStates THEN 0 ELSE g.round
         /\ StartOK(g) => StartOK(SetState(g, new))
         /\ Frame(g, SetState(g, new))
  <1>1. DoneTime(g, new) \in Nat
    BY CvarTypes DEF DoneTime, Cvars, Games, EndStates
  <1>2. StartTime(g) \in Nat /\ StartTime(g) > 0
    BY DEF StartTime, Games
  <1>3. NoWinner \in WinInfo
    BY DEF NoWinner, WinInfo, WinTypes
  <1> QED
    BY <1>1, <1>2, <1>3 DEF SetState, Games, StartOK, Frame

LEMMA SetStateSound ==
  ASSUME Settled, NEW g, Sound(g), NEW new \in States,
         new = "endround" /\ cvars.roundlimit > 0 /\ IsRoundsGame =>
            g.round < cvars.roundlimit,
         new = "preround" => StartOfRoundState = "preround"
  PROVE  Keeps(g, SetState(g, new))
  <1>1. g \in Games /\ g.round \in Nat
    BY DEF Sound, Games
  <1>2. cvars.roundlimit \in Nat
    BY CvarTypes DEF Cvars
  <1>3. RoundOK(SetState(g, new))
    BY <1>1, <1>2, SetStateType DEF RoundOK, Sound, WarmupStates
  <1> QED
    BY <1>1, <1>3, SetStateType DEF Keeps, Sound

\* Only the state and the round matter for the round limit.
LEMMA SameRound ==
  ASSUME NEW g, Sound(g), NEW h \in Games,
         h.state = g.state, h.round = g.round, h.start = g.start
  PROVE  Sound(h)
  BY DEF Sound, RoundOK, StartOK

LEMMA KeepsStays == ASSUME NEW g, NEW h, Keeps(g, h) PROVE Stays(g, h)
  BY DEF Keeps, Stays, Frame

LEMMA StaysTransitive ==
  ASSUME NEW f, NEW g, NEW h, Stays(f, g), Stays(g, h) PROVE Stays(f, h)
  BY DEF Stays

LEMMA KeepsTransitive ==
  ASSUME NEW f, NEW g, NEW h, Keeps(f, g), Keeps(g, h) PROVE Keeps(f, h)
  BY DEF Keeps, Frame

\* What follows when the start of a round is set: the round number stays.
LEMMA StartOfRoundType ==
  ASSUME Settled, NEW g \in Games
  PROVE  /\ SetState(g, StartOfRoundState) \in Games
         /\ SetState(g, StartOfRoundState).state \in {"preround", "ingame"}
         /\ SetState(g, StartOfRoundState).state = StartOfRoundState
         /\ SetState(g, StartOfRoundState).round = g.round
         /\ StartOK(g) => StartOK(SetState(g, StartOfRoundState))
         /\ Frame(g, SetState(g, StartOfRoundState))
  <1> DEFINE new == StartOfRoundState
  <1>1. new \in States /\ new \notin WarmupStates
    BY StartStateType DEF States, WarmupStates
  <1>2. new \in {"preround", "ingame"}
    BY StartStateType
  <1> HIDE DEF new
  <1>3. /\ SetState(g, new) \in Games
        /\ SetState(g, new).state = new
        /\ SetState(g, new).round = g.round
        /\ StartOK(g) => StartOK(SetState(g, new))
        /\ Frame(g, SetState(g, new))
    BY <1>1, SetStateType
  <1> QED
    BY <1>2, <1>3 DEF new

\* The countdown is of no concern to the round limit.
LEMMA DoneSound ==
  ASSUME NEW g, Sound(g), NEW n \in Nat
  PROVE  Keeps(g, [g EXCEPT !.done = n])
  <1>1. [g EXCEPT !.done = n] \in Games
    BY DEF Sound, Games
  <1> QED
    BY <1>1, SameRound DEF Keeps, Frame, Sound, Games

LEMMA ResetSound ==
  ASSUME Settled, NEW g, Sound(g) PROVE Keeps(g, Reset(g))
  <1> DEFINE w == SetState(g, "warmup")
             r == [g EXCEPT !.round = 1]
             p == SetState(r, StartOfRoundState)
  <1>1. Keeps(g, w)
    BY SetStateSound DEF States, WarmupStates
  <1>2. Keeps(g, p)
    <2>1. /\ r \in Games /\ Frame(g, r) /\ r.round = 1 /\ StartOK(r)
          /\ cvars.roundlimit \in Nat
      BY CvarTypes DEF Sound, Games, Cvars, Frame, StartOK
    <2>2. /\ p \in Games /\ Frame(r, p) /\ p.round = 1 /\ StartOK(p)
          /\ p.state \in {"preround", "ingame"} /\ p.state = StartOfRoundState
      <3> HIDE DEF r
      <3> QED
        BY <2>1, StartOfRoundType
    <2> HIDE DEF p
    <2> QED
      BY <2>1, <2>2 DEF Keeps, Frame, Sound, RoundOK, WarmupStates
  <1>3. \/ Reset(g) = [w EXCEPT !.done = 0]
        \/ Reset(g) = [p EXCEPT !.done = 0]
    BY DEF Reset
  <1> HIDE DEF w, p
  <1>4. Keeps(w, [w EXCEPT !.done = 0]) /\ Keeps(p, [p EXCEPT !.done = 0])
    BY <1>1, <1>2, DoneSound DEF Keeps
  <1> QED
    BY <1>1, <1>2, <1>3, <1>4, KeepsTransitive

LEMMA RestartSound ==
  ASSUME Settled, NEW g, Sound(g) PROVE Keeps(g, Restart(g))
  BY SetStateSound DEF Restart, States, WarmupStates

LEMMA KeepsItself == ASSUME NEW g, Sound(g) PROVE Keeps(g, g)
  BY DEF Keeps, Frame

LEMMA ForceStartSound ==
  ASSUME Settled, NEW g, Sound(g) PROVE Keeps(g, ForceStart(g))
  BY SetStateSound, KeepsItself DEF ForceStart, States, WarmupStates

LEMMA ReadyToggleSound ==
  ASSUME Settled, NEW g, Sound(g) PROVE Keeps(g, ReadyToggle(g))
  <1>1. \/ ReadyToggle(g) = g
        \/ ReadyToggle(g) = SetState(g, "countdown")
        \/ ReadyToggle(g) = SetState(g, "warmup")
    BY DEF ReadyToggle
  <1> QED
    BY <1>1, SetStateSound, KeepsItself DEF States, WarmupStates

-----------------------------------------------------------------------------
(* Ending rounds and games.                                                *)

LEMMA SetWinnerSound ==
  ASSUME NEW g, Sound(g), NEW win \in WinInfo
  PROVE  Keeps(g, SetWinner(g, win))
  <1>1. SetWinner(g, win) \in Games
    BY DEF SetWinner, Sound, Games
  <1> QED
    BY <1>1, SameRound DEF SetWinner, Keeps, Frame, Sound, Games

LEMMA GiveWinsSound ==
  ASSUME NEW g, Sound(g), NEW side \in Sides
  PROVE  Keeps(g, GiveWins(g, side))
  <1>1. GiveWins(g, side) \in Games
    BY DEF GiveWins, Sound, Games
  <1> QED
    BY <1>1, SameRound DEF GiveWins, Keeps, Frame, Sound, Games

\* A winner is chosen among those who may win.
LEMMA TheInSet == ASSUME NEW S, S # {} PROVE The(S) \in S
  BY DEF The

\* A set of one element is not empty.
LEMMA OneIsSome == ASSUME NEW S, Cardinality(S) = 1 PROVE S # {}
  BY FS_EmptySet

LEMMA WonByType == ASSUME NEW side \in Sides PROVE WonBy(side) \in WinInfo
  BY DEF WonBy, WinInfo, WinTypes

LEMMA WinnerAmongType ==
  ASSUME NEW S \in SUBSET Sides PROVE WinnerAmong(S) \in WinInfo
  <1>1. Draw \in WinInfo
    BY DEF Draw, WinInfo, WinTypes
  <1>2. Cardinality(S) = 1 => The(S) \in Sides
    BY OneIsSome, TheInSet
  <1> QED
    BY <1>1, <1>2, WonByType DEF WinnerAmong

LEMMA TeamSides ==
  ASSUME NEW S \in SUBSET Players PROVE TeamsOf(S) \in SUBSET Teams
  BY TeamsAssumption DEF TeamsOf

LEMMA ContendersAreSides ==
  ASSUME NEW g PROVE Contenders(g) \in SUBSET Sides
  BY DEF Contenders, Sides, InGame

LEMMA TopsAmong == ASSUME NEW f, NEW S PROVE Tops(f, S) \in SUBSET S
  BY DEF Tops

LEMMA MatchWinnerType == ASSUME NEW g PROVE MatchWinner(g) \in WinInfo
  <1>1. Nobody \in WinInfo
    BY DEF Nobody, WinInfo, WinTypes
  <1>2. Tops(g.wins, Contenders(g)) \in SUBSET Sides
    BY ContendersAreSides, TopsAmong
  <1> QED
    BY <1>1, <1>2, WinnerAmongType DEF MatchWinner

\* A round ends the match or, below the round limit, the round.
LEMMA EndRoundSound ==
  ASSUME Settled, NEW g, Sound(g) PROVE Keeps(g, EndRound(g))
  <1>1. CASE IsRoundsGame /\ RoundsShouldEndGame(g)
    <2>1. Keeps(g, SetWinner(g, MatchWinner(g)))
      BY SetWinnerSound, MatchWinnerType
    <2>2. EndRound(g) = SetState(SetWinner(g, MatchWinner(g)), "endgame")
      BY <1>1 DEF EndRound, SetWinner
    <2> QED
      BY <2>1, <2>2, SetStateSound, KeepsTransitive DEF Keeps, States, EndStates
  <1>2. CASE IsRoundsGame /\ ~RoundsShouldEndGame(g)
    <2>1. cvars.roundlimit > 0 => g.round < cvars.roundlimit
      BY <1>2, CvarTypes DEF RoundsShouldEndGame, RoundLimitHit, Cvars, Sound, Games
    <2> QED
      BY <1>2, <2>1, SetStateSound DEF EndRound, States, EndStates
  <1>3. CASE ~IsRoundsGame
    BY <1>3, SetStateSound DEF EndRound, States, EndStates, WarmupStates
  <1> QED
    BY <1>1, <1>2, <1>3

LEMMA EndGameSound ==
  ASSUME Settled, NEW g, Sound(g) PROVE Keeps(g, EndGame(g))
  BY SetStateSound, KeepsItself DEF EndGame, States, EndStates

LEMMA WinRoundSound ==
  ASSUME Settled, NEW g, Sound(g), NEW side \in Sides
  PROVE  Keeps(g, WinRound(g, side))
  <1> DEFINE h == GiveWins(g, side)
             i == SetWinner(h, WonBy(side))
  <1>1. Keeps(g, h)
    BY GiveWinsSound
  <1>2. Keeps(h, i)
    BY <1>1, SetWinnerSound, WonByType DEF Keeps
  <1>3. Keeps(i, EndRound(i))
    BY <1>2, EndRoundSound DEF Keeps
  <1> QED
    BY <1>1, <1>2, <1>3, KeepsTransitive DEF WinRound

LEMMA DrawRoundSound ==
  ASSUME Settled, NEW g, Sound(g) PROVE Keeps(g, DrawRound(g))
  <1>1. Draw \in WinInfo
    BY DEF Draw, WinInfo, WinTypes
  <1>2. Keeps(g, SetWinner(g, Draw))
    BY <1>1, SetWinnerSound
  <1> QED
    BY <1>2, EndRoundSound, KeepsTransitive DEF Keeps, DrawRound

LEMMA AliveSides == ASSUME NEW g PROVE TeamsOf(Alive(g)) \in SUBSET Sides
  BY TeamSides DEF Alive, InGame, Sides

LEMMA InGameSides == ASSUME NEW g PROVE TeamsOf(InGame(g)) \in SUBSET Sides
  BY TeamSides DEF InGame, Sides

\* The only element of a set of sides is a side.
LEMMA TheSide ==
  ASSUME NEW S \in SUBSET Sides, Cardinality(S) = 1 PROVE The(S) \in Sides
  BY OneIsSome, TheInSet

LEMMA ObjectivesSound ==
  ASSUME Settled, NEW g, Sound(g) PROVE Keeps(g, ObjectivesCheck(g))
  <1> DEFINE tops == Tops(g.score, Teams)
  <1>1. tops \in SUBSET Sides
    BY TopsAmong DEF Sides
  <1>2. \/ ObjectivesCheck(g) = g
        \/ ObjectivesCheck(g) = DrawRound(g)
        \/ Cardinality(tops) = 1 /\ ObjectivesCheck(g) = WinRound(g, The(tops))
    BY DEF ObjectivesCheck
  <1> QED
    BY <1>1, <1>2, TheSide, KeepsItself, DrawRoundSound, WinRoundSound

LEMMA LastTeamSound ==
  ASSUME Settled, NEW g, Sound(g), NEW S \in SUBSET Sides
  PROVE  Keeps(g, LastTeamCheck(g, S))
  <1>1. \/ LastTeamCheck(g, S) = g
        \/ LastTeamCheck(g, S) = DrawRound(g)
        \/ Cardinality(S) = 1 /\ LastTeamCheck(g, S) = WinRound(g, The(S))
    BY DEF LastTeamCheck
  <1> QED
    BY <1>1, TheSide, KeepsItself, DrawRoundSound, WinRoundSound

LEMMA LastPlayerSound ==
  ASSUME Settled, NEW g, Sound(g) PROVE Keeps(g, LastPlayerCheck(g))
  <1>1. Alive(g) \in SUBSET Sides
    BY DEF Alive, InGame, Sides
  <1>2. \/ LastPlayerCheck(g) = g
        \/ LastPlayerCheck(g) = DrawRound(g)
        \/ /\ Cardinality(Alive(g)) = 1
           /\ LastPlayerCheck(g) = WinRound(g, The(Alive(g)))
    BY DEF LastPlayerCheck
  <1> QED
    BY <1>1, <1>2, TheSide, KeepsItself, DrawRoundSound, WinRoundSound

LEMMA LivesCheckSound ==
  ASSUME Settled, NEW g, Sound(g) PROVE Keeps(g, LivesCheckEndGame(g))
  <1>1. Keeps(g, EndRound(SetWinner(g, Nobody)))
    <2>1. Nobody \in WinInfo
      BY DEF Nobody, WinInfo, WinTypes
    <2>2. Keeps(g, SetWinner(g, Nobody))
      BY <2>1, SetWinnerSound
    <2> QED
      BY <2>2, EndRoundSound, KeepsTransitive DEF Keeps
  <1>2. Keeps(g, LastTeamCheck(ObjectivesCheck(g), TeamsOf(Alive(g))))
    BY ObjectivesSound, AliveSides, LastTeamSound, KeepsTransitive DEF Keeps
  <1>3. \/ LivesCheckEndGame(g) = g
        \/ LivesCheckEndGame(g) = EndRound(SetWinner(g, Nobody))
        \/ LivesCheckEndGame(g) = LastTeamCheck(ObjectivesCheck(g), TeamsOf(Alive(g)))
        \/ LivesCheckEndGame(g) = LastPlayerCheck(g)
    BY DEF LivesCheckEndGame
  <1> QED
    BY <1>1, <1>2, <1>3, KeepsItself, LastPlayerSound

LEMMA ScoreCheckSound ==
  ASSUME Settled, NEW g, Sound(g) PROVE Keeps(g, ScoreCheckEndGame(g))
  <1> DEFINE tops == Tops(g.score, Contenders(g))
  <1>1. tops \in SUBSET Sides
    BY TopsAmong, ContendersAreSides
  <1>2. \/ ScoreCheckEndGame(g) = g
        \/ tops # {} /\ ScoreCheckEndGame(g) = WinRound(g, The(tops))
    BY DEF ScoreCheckEndGame
  <1> QED
    BY <1>1, <1>2, TheInSet, KeepsItself, WinRoundSound

\* Two or three teams defend in turn.
LEMMA DefendingTeamType ==
  ASSUME NEW g \in Games PROVE DefendingTeam(g) \in Teams
  <1> DEFINE teams == IF cvars.teamsinplay < 3 THEN 2 ELSE 3
             round0 == IF g.round = 0 THEN 0 ELSE g.round - 1
  <1>1. round0 \in Nat /\ teams \in {2, 3}
    BY DEF Games
  <1>2. DefendingTeam(g) = (round0 % teams)
    BY DEF DefendingTeam
  <1>3. teams <= NumTeams /\ NumTeams \in Nat
    BY TeamsAssumption
  <1> HIDE DEF teams, round0
  <1> QED
    BY <1>1, <1>2, <1>3 DEF Teams

LEMMA TimeOverSound ==
  ASSUME Settled, NEW g, Sound(g) PROVE Keeps(g, TimeOver(g))
  <1> DEFINE d == DefendingTeam(g)
             h == GiveWins(g, d)
             value == IF ~(cvars.lives > 0 /\ cvars.limit = 0) THEN g.score
                      ELSE IF IsTeamGame THEN LivesPool(g) ELSE g.lives
             tops == Tops(value, Contenders(g))
  <1>1. Keeps(g, SetWinner(g, NoWinner))
    <2>1. NoWinner \in WinInfo
      BY DEF NoWinner, WinInfo, WinTypes
    <2> QED
      BY <2>1, SetWinnerSound
  <1>2. Keeps(g, SetWinner(h, WonBy(d)))
    <2>1. d \in Sides
      BY DefendingTeamType DEF Sides, Sound
    <2>2. Keeps(g, h)
      BY <2>1, GiveWinsSound
    <2> QED
      BY <2>1, <2>2, WonByType, SetWinnerSound, KeepsTransitive DEF Keeps
  <1>3. Keeps(g, SetWinner(g, WinnerAmong(tops)))
    <2>1. tops \in SUBSET Sides
      BY TopsAmong, ContendersAreSides
    <2> QED
      BY <2>1, WinnerAmongType, SetWinnerSound
  <1>4. \/ TimeOver(g) = SetWinner(g, NoWinner)
        \/ TimeOver(g) = g
        \/ TimeOver(g) = SetWinner(h, WonBy(d))
        \/ TimeOver(g) = SetWinner(g, WinnerAmong(tops))
    BY DEF TimeOver
  <1> QED
    BY <1>1, <1>2, <1>3, <1>4, KeepsItself

LEMMA TimeCheckSound ==
  ASSUME Settled, NEW g, Sound(g) PROVE Keeps(g, TimeCheckEndGame(g))
  BY TimeOverSound, EndRoundSound, KeepsTransitive, KeepsItself
     DEF Keeps, TimeCheckEndGame

LEMMA PlayerCountSound ==
  ASSUME Settled, NEW g, Sound(g) PROVE Keeps(g, AssertValidPlayerCount(g))
  <1> DEFINE sides == IF IsTeamGame THEN TeamsOf(InGame(g)) ELSE InGame(g)
             valid == InGame(g) # {} /\ (IsCoopGame \/ Cardinality(sides) > 1)
             win == IF sides = {} THEN NoWinner ELSE WonBy(The(sides))
             f == IF valid THEN g ELSE SetWinner(g, win)
             h == LivesCheckEndGame(f)
  <1>1. win \in WinInfo
    <2>1. sides \in SUBSET Sides
      BY InGameSides DEF InGame, Sides
    <2>2. NoWinner \in WinInfo
      BY DEF NoWinner, WinInfo, WinTypes
    <2> QED
      BY <2>1, <2>2, TheInSet, WonByType
  <1>2. Keeps(g, f)
    <2>1. Keeps(g, SetWinner(g, win))
      BY <1>1, SetWinnerSound
    <2> QED
      BY <2>1, KeepsItself
  <1>3. Keeps(g, h)
    <2>1. Sound(f)
      BY <1>2 DEF Keeps
    <2> HIDE DEF f
    <2> QED
      BY <1>2, <2>1, LivesCheckSound, KeepsTransitive
  <1>4. \/ AssertValidPlayerCount(g) = g
        \/ AssertValidPlayerCount(g) = Reset(g)
        \/ AssertValidPlayerCount(g) = h
        \/ AssertValidPlayerCount(g) = Reset(h)
        \/ AssertValidPlayerCount(g) = EndGame(h)
    BY DEF AssertValidPlayerCount
  <1>5. Sound(h)
    BY <1>3 DEF Keeps
  <1> HIDE DEF h
  <1> QED
    BY <1>3, <1>4, <1>5, KeepsItself, ResetSound, EndGameSound, KeepsTransitive

-----------------------------------------------------------------------------
(* LevelState::tic.                                                        *)

LEMMA ActionSound ==
  ASSUME NEW g, Sound(g), NEW action \in Actions
  PROVE  Keeps(g, [g EXCEPT !.action = action])
  <1>1. [g EXCEPT !.action = action] \in Games
    BY DEF Sound, Games
  <1> QED
    BY <1>1, SameRound DEF Keeps, Frame, Sound, Games

LEMMA ExitLevelSound ==
  ASSUME Settled, NEW g, Sound(g) PROVE Keeps(g, ExitLevel(g))
  <1>1. ExitLevel(g) \in Games
    <2>1. cvars.intermission \in Int
      BY CvarTypes DEF Cvars
    <2> QED
      BY <2>1 DEF ExitLevel, Sound, Games, Actions
  <1> QED
    BY <1>1, SameRound DEF ExitLevel, Keeps, Frame, Sound, Games

LEMMA TicWarmupSound ==
  ASSUME Settled, NEW g, Sound(g) PROVE Keeps(g, TicWarmup(g))
  <1>1. \/ TicWarmup(g) = g
        \/ TicWarmup(g) = SetState(g, "forced")
        \/ TicWarmup(g) = SetState(g, "countdown")
    BY DEF TicWarmup
  <1> QED
    BY <1>1, SetStateSound, KeepsItself DEF States, WarmupStates

\* The next round starts, the reset of the level pending: after a round that
\* ended below the limit, or the first one after a countdown.
LEMMA NextRoundSound ==
  ASSUME Settled, NEW g, Sound(g), NEW action \in Actions,
         g.state \in WarmupStates \cup {"endround"}
  PROVE  Keeps(g, SetState([[g EXCEPT !.round = @ + 1] EXCEPT !.action = action],
                           StartOfRoundState))
  <1> DEFINE n == [[g EXCEPT !.round = @ + 1] EXCEPT !.action = action]
             h == SetState(n, StartOfRoundState)
  <1>1. /\ n \in Games
        /\ n.round = g.round + 1
        /\ StartOK(n)
        /\ Frame(g, n)
    <2>1. g.round + 1 \in Nat
      BY DEF Sound, Games
    <2>2. [g EXCEPT !.round = @ + 1] \in Games
      BY <2>1 DEF Sound, Games
    <2> QED
      BY <2>1, <2>2 DEF Sound, Games, StartOK, Frame
  <1>2. /\ h \in Games
        /\ h.state \in {"preround", "ingame"} /\ h.state = StartOfRoundState
        /\ h.round = g.round + 1
        /\ StartOK(h)
        /\ Frame(g, h)
    <2> HIDE DEF n
    <2> QED
      BY <1>1, StartOfRoundType DEF Frame
  <1>3. cvars.roundlimit \in Nat /\ g.round \in Nat
    BY CvarTypes DEF Cvars, Sound, Games
  <1> HIDE DEF h
  <1>4. RoundOK(h)
    BY <1>2, <1>3 DEF RoundOK, Sound, WarmupStates
  <1>5. Keeps(g, h)
    BY <1>2, <1>4 DEF Keeps, Sound
  <1> QED
    BY <1>5 DEF h, n

LEMMA TicDoneSound ==
  ASSUME Settled, NEW g, Sound(g), g.state \notin {"warmup", "ingame"}
  PROVE  Keeps(g, TicDone(g))
  <1>1. CASE g.state = "preround"
    <2>1. Keeps(g, DeferedReset(g))
      <3>1. "resetlevel" \in Actions
        BY DEF Actions
      <3> QED
        BY <3>1, ActionSound DEF DeferedReset
    <2>2. \/ TicDone(g) = SetState(g, "ingame")
          \/ TicDone(g) = SetState(DeferedReset(g), "ingame")
      BY <1>1 DEF TicDone
    <2> QED
      BY <2>1, <2>2, SetStateSound, KeepsTransitive DEF Keeps, States
  <1>2. CASE g.state = "endround"
    <2>1. TicDone(g) = SetState([[g EXCEPT !.round = @ + 1]
                                  EXCEPT !.action = "resetlevel"], StartOfRoundState)
      BY <1>2 DEF TicDone, DeferedReset
    <2> QED
      BY <1>2, <2>1, NextRoundSound DEF Actions
  <1>3. CASE g.state = "endgame"
    BY <1>3, ExitLevelSound DEF TicDone
  <1>4. CASE g.state \in {"countdown", "forced"}
    <2>1. TicDone(g) = SetState([[g EXCEPT !.round = @ + 1]
                                  EXCEPT !.action = "fullresetlevel"], StartOfRoundState)
      BY <1>4 DEF TicDone, DeferedFullReset
    <2> QED
      BY <1>4, <2>1, NextRoundSound DEF Actions, WarmupStates
  <1> QED
    BY <1>1, <1>2, <1>3, <1>4 DEF Sound, Games, States, WarmupStates, EndStates

LEMMA TicSound ==
  ASSUME Settled, NEW g, Sound(g) PROVE Keeps(g, Tic(g))
  <1>1. \/ Tic(g) = SetState(g, "warmup")
        \/ Tic(g) = TicWarmup(g)
        \/ Tic(g) = g
        \/ g.state \notin {"warmup", "ingame"} /\ Tic(g) = TicDone(g)
    BY DEF Tic
  <1>2. Keeps(g, SetState(g, "warmup"))
    BY SetStateSound DEF States, WarmupStates
  <1> QED
    BY <1>1, <1>2, TicWarmupSound, TicDoneSound, KeepsItself

-----------------------------------------------------------------------------
(* The handlers of Match.                                                  *)

\* Clearing the scores touches nothing else.
LEMMA ClearScoresSound ==
  ASSUME Settled, NEW g, Sound(g), NEW S, NEW T, NEW b \in BOOLEAN
  PROVE  Keeps(g, ClearScores(g, S, T, b))
  <1> DEFINE lives == [p \in Players |-> IF p \in S THEN cvars.lives ELSE g.lives[p]]
             score == [x \in Sides |-> IF x \in T THEN 0 ELSE g.score[x]]
             wins == [x \in Sides |-> IF b /\ x \in T THEN 0 ELSE g.wins[x]]
  <1>1. /\ lives \in [Players -> Nat]
        /\ score \in [Sides -> Int]
        /\ wins \in [Sides -> Nat]
    BY CvarTypes DEF Cvars, Sound, Games
  <1>2. ClearScores(g, S, T, b) = [g EXCEPT !.lives = lives, !.score = score, !.wins = wins]
    BY DEF ClearScores
  <1> HIDE DEF lives, score, wins
  <1>3. ClearScores(g, S, T, b) \in Games
    BY <1>1, <1>2 DEF Sound, Games
  <1> QED
    BY <1>2, <1>3, SameRound DEF Keeps, Frame, Sound, Games

LEMMA SetReadySound ==
  ASSUME Settled, NEW g, Sound(g), NEW p \in Players, NEW b \in BOOLEAN
  PROVE  Keeps(g, SetReady(g, p, b))
  <1> DEFINE ready == IF b THEN g.ready \cup {p} ELSE g.ready \ {p}
             h == [g EXCEPT !.ready = ready]
  <1>1. ready \in SUBSET Players
    BY DEF Sound, Games
  <1>2. SetReady(g, p, b) = ReadyToggle(h)
    BY DEF SetReady
  <1> HIDE DEF ready
  <1>3. h \in Games
    BY <1>1 DEF Sound, Games
  <1>4. Keeps(g, h)
    BY <1>3, SameRound DEF Keeps, Frame, Sound, Games
  <1> HIDE DEF h
  <1> QED
    BY <1>2, <1>4, ReadyToggleSound, KeepsTransitive DEF Keeps

LEMMA UnreadySound ==
  ASSUME Settled, NEW g, Sound(g), NEW p \in Players
  PROVE  Keeps(g, Unready(g, p))
  BY SetReadySound, KeepsItself DEF Unready

LEMMA StatusSound ==
  ASSUME NEW g, Sound(g), NEW p \in Players, NEW status \in Statuses
  PROVE  LET h == [g EXCEPT !.status[p] = status]
         IN  /\ Sound(h)
             /\ h.status = [g.status EXCEPT ![p] = status]
             /\ h.position = g.position
             /\ h.time = g.time
  <1> DEFINE all == [g.status EXCEPT ![p] = status]
             h == [g EXCEPT !.status = all]
  <1>1. all \in [Players -> Statuses]
    BY DEF Sound, Games
  <1>2. [g EXCEPT !.status[p] = status] = h
    BY DEF Sound, Games
  <1> HIDE DEF all
  <1>3. /\ h \in Games /\ h.status = all
        /\ h.position = g.position /\ h.time = g.time
    BY <1>1 DEF Sound, Games
  <1>4. Sound(h)
    BY <1>3, SameRound DEF Sound, Games
  <1> QED
    BY <1>2, <1>3, <1>4 DEF all

LEMMA DelaySound ==
  ASSUME NEW g, Sound(g), NEW p \in Players, NEW n \in Nat
  PROVE  Keeps(g, [g EXCEPT !.delay[p] = n])
  <1>1. [g EXCEPT !.delay[p] = n] \in Games
    BY DEF Sound, Games
  <1> QED
    BY <1>1, SameRound DEF Keeps, Frame, Sound, Games

LEMMA PositionSound ==
  ASSUME NEW g, Sound(g), NEW p \in Players, NEW n \in Nat
  PROVE  LET h == [g EXCEPT !.position[p] = n]
         IN  /\ Sound(h)
             /\ h.position = [g.position EXCEPT ![p] = n]
             /\ h.status = g.status
             /\ h.time = g.time
  <1>1. [g EXCEPT !.position[p] = n] \in Games
    BY DEF Sound, Games
  <1> QED
    BY <1>1, SameRound DEF Sound, Games

LEMMA JoinPlayerSound ==
  ASSUME Settled, NEW g, Sound(g), NEW p \in Players
  PROVE  /\ Sound(JoinPlayer(g, p))
         /\ JoinPlayer(g, p).status = [g.status EXCEPT ![p] = "playing"]
         /\ JoinPlayer(g, p).position = g.position
         /\ JoinPlayer(g, p).time = g.time
  <1> DEFINE joined == [g EXCEPT !.status[p] = "playing"]
             killed == IF g.time > 0 THEN LivesCheckEndGame(joined) ELSE joined
             cleared == ClearScores(killed, {p}, {p}, TRUE)
  <1>1. /\ Sound(joined) /\ joined.status = [g.status EXCEPT ![p] = "playing"]
        /\ joined.position = g.position /\ joined.time = g.time
    BY StatusSound DEF Statuses
  <1> HIDE DEF joined
  <1>2. Keeps(joined, killed)
    BY <1>1, LivesCheckSound, KeepsItself
  <1> HIDE DEF killed
  <1>3. Keeps(joined, cleared)
    <2>1. Keeps(killed, cleared)
      BY <1>2, ClearScoresSound DEF Keeps
    <2> QED
      BY <1>2, <2>1, KeepsTransitive
  <1> HIDE DEF cleared
  <1>4. Keeps(joined, Unready(cleared, p))
    BY <1>3, UnreadySound, KeepsTransitive DEF Keeps
  <1>5. JoinPlayer(g, p) = Unready(cleared, p)
    BY DEF JoinPlayer, joined, killed, cleared
  <1> QED
    BY <1>1, <1>4, <1>5 DEF Keeps, Frame

LEMMA SpecPlayerSound ==
  ASSUME Settled, NEW g, Sound(g), NEW p \in Players
  PROVE  /\ Sound(SpecPlayer(g, p))
         /\ SpecPlayer(g, p).status = [g.status EXCEPT ![p] = "spectator"]
         /\ SpecPlayer(g, p).position = g.position
         /\ SpecPlayer(g, p).time = g.time
  <1> DEFINE moved == [g EXCEPT !.status[p] = "spectator"]
             unready == Unready(moved, p)
             delayed == [unready EXCEPT !.delay[p] = ReJoinDelay]
  <1>1. /\ Sound(moved) /\ moved.status = [g.status EXCEPT ![p] = "spectator"]
        /\ moved.position = g.position /\ moved.time = g.time
    BY StatusSound DEF Statuses
  <1> HIDE DEF moved
  <1>2. Keeps(moved, unready)
    BY <1>1, UnreadySound
  <1> HIDE DEF unready
  <1>3. Keeps(moved, delayed)
    BY <1>2, DelaySound, BoundsAssumption, KeepsTransitive DEF Keeps
  <1> HIDE DEF delayed
  <1>4. Keeps(moved, AssertValidPlayerCount(delayed))
    BY <1>3, PlayerCountSound, KeepsTransitive DEF Keeps
  <1>5. SpecPlayer(g, p) = AssertValidPlayerCount(delayed)
    BY DEF SpecPlayer, moved, unready, delayed
  <1> QED
    BY <1>1, <1>4, <1>5 DEF Keeps, Frame

LEMMA EraseSound ==
  ASSUME NEW g, Sound(g), NEW p \in Players
  PROVE  /\ Sound(Erase(g, p))
         /\ Erase(g, p).status = [g.status EXCEPT ![p] = "absent"]
         /\ Erase(g, p).position = g.position
         /\ Erase(g, p).time = g.time
  <1> DEFINE status == [g.status EXCEPT ![p] = "absent"]
             ready == g.ready \ {p}
             delay == [g.delay EXCEPT ![p] = 0]
             lives == [g.lives EXCEPT ![p] = 0]
             score == [g.score EXCEPT ![p] = 0]
             wins == [g.wins EXCEPT ![p] = 0]
  <1>1. /\ status \in [Players -> Statuses]
        /\ ready \in SUBSET Players
        /\ delay \in [Players -> Nat]
        /\ lives \in [Players -> Nat]
        /\ score \in [Sides -> Int]
        /\ wins \in [Sides -> Nat]
    <2>1. /\ g.status \in [Players -> Statuses] /\ g.ready \in SUBSET Players
          /\ g.delay \in [Players -> Nat] /\ g.lives \in [Players -> Nat]
          /\ g.score \in [Sides -> Int] /\ g.wins \in [Sides -> Nat]
      BY DEF Sound, Games
    <2>2. p \in Sides /\ "absent" \in Statuses
      BY DEF Sides, Statuses
    <2>3. status \in [Players -> Statuses] /\ ready \in SUBSET Players
      BY <2>1, <2>2
    <2>4. delay \in [Players -> Nat] /\ lives \in [Players -> Nat]
      BY <2>1
    <2>5. score \in [Sides -> Int] /\ wins \in [Sides -> Nat]
      BY <2>1, <2>2
    <2> QED
      BY <2>3, <2>4, <2>5
  <1> DEFINE h == [g EXCEPT !.status = status, !.ready = ready, !.delay = delay]
             e == [h EXCEPT !.lives = lives, !.score = score, !.wins = wins]
  <1>2. Erase(g, p) = e
    BY DEF Erase, Sound, Games
  <1> HIDE DEF status, ready, delay, lives, score, wins
  <1>3. /\ h \in Games /\ h.status = status
        /\ h.state = g.state /\ h.round = g.round /\ h.start = g.start
        /\ h.position = g.position /\ h.time = g.time
    BY <1>1 DEF Sound, Games
  <1> HIDE DEF h
  <1>4. /\ e \in Games /\ e.status = status
        /\ e.state = g.state /\ e.round = g.round /\ e.start = g.start
        /\ e.position = g.position /\ e.time = g.time
    BY <1>1, <1>3 DEF Games
  <1> HIDE DEF e
  <1> QED
    BY <1>2, <1>4, SameRound DEF status

\* Whatever the loop over the queue is started for, the game stays the same but
\* for the places in the queue.
LEMMA UpdateQueueSound ==
  ASSUME NEW g, Sound(g), NEW test \in {"join", "start"}, NEW leaving,
         NEW back \in Phases \ {"queue"}, UpdateQueue(g, test, leaving, back)
  PROVE  /\ Sound(game') /\ game'.status = g.status /\ game'.time = g.time
         /\ phase' \in Phases /\ queue' \in Queues
  <1> DEFINE position == [p \in Players |-> IF p \in leaving THEN 0 ELSE g.position[p]]
             queued == {p \in Players : g.position[p] > 0} \ leaving
  <1>1. position \in [Players -> Nat]
    BY DEF Sound, Games
  <1>2. game' = [g EXCEPT !.position = position]
    BY DEF UpdateQueue
  <1> HIDE DEF position
  <1>3. game' \in Games
    BY <1>1, <1>2 DEF Sound, Games
  <1>4. Sound(game') /\ game'.status = g.status /\ game'.time = g.time
    BY <1>2, <1>3, SameRound DEF Sound, Games
  <1>5. phase' \in Phases
    BY DEF UpdateQueue, Phases
  <1>6. queue' = Idle \/ queue' = [todo |-> queued, place |-> 1, test |-> test, back |-> back]
    BY DEF UpdateQueue
  <1>7. queue' \in Queues
    BY <1>6 DEF Queues, Idle, Phases
  <1> QED
    BY <1>4, <1>5, <1>7

\* The games the level's loading, its reset and the frame's end leave behind.
LEMMA ResetLevelSound ==
  ASSUME Settled, NEW g, Sound(g), NEW full \in BOOLEAN
  PROVE  Stays(g, ResetLevel(g, full)) /\ ResetLevel(g, full).time = 0
  <1> DEFINE cleared == ClearScores(g, Present(g), Present(g) \cup Teams, full)
             ready == IF full /\ cvars.warmup = 1 THEN {} ELSE cleared.ready
             reset == [cleared EXCEPT !.action = "nothing", !.time = 0, !.ready = ready]
  <1>1. Keeps(g, cleared)
    BY ClearScoresSound
  <1>2. ResetLevel(g, full) = reset
    BY DEF ResetLevel
  <1> HIDE DEF cleared
  <1>3. ready \in SUBSET Players
    BY <1>1 DEF Keeps, Sound, Games
  <1> HIDE DEF ready
  <1>4. /\ reset \in Games
        /\ reset.state = cleared.state
        /\ reset.round = cleared.round
        /\ reset.start = cleared.start
        /\ reset.status = cleared.status
        /\ reset.position = cleared.position
        /\ reset.time = 0
    BY <1>1, <1>3 DEF Keeps, Sound, Games, Actions
  <1> HIDE DEF reset
  <1> QED
    BY <1>1, <1>2, <1>4, SameRound DEF Keeps, Frame, Stays

LEMMA LoadLevelSound ==
  ASSUME Settled, NEW g, Sound(g), NEW lobby \in {0, 1}
  PROVE  Stays(g, LoadLevel(g, lobby)) /\ LoadLevel(g, lobby).time = 0
  <1> DEFINE sides == Present(g) \cup (IF IsTeamGame THEN Teams ELSE {})
             cleared == ClearScores(g, Present(g), sides, TRUE)
             delay == [p \in Players |-> 0]
             ready == IF cvars.warmup = 1 THEN {} ELSE cleared.ready
             fresh == [cleared EXCEPT !.time = 0, !.action = "nothing",
                                      !.gamestate = "level", !.lobby = lobby,
                                      !.delay = delay, !.ready = ready]
  <1>1. Keeps(g, cleared)
    BY ClearScoresSound
  <1>2. LoadLevel(g, lobby) = Reset(fresh)
    BY DEF LoadLevel
  <1> HIDE DEF cleared
  <1>3. ready \in SUBSET Players /\ delay \in [Players -> Nat]
    BY <1>1 DEF Keeps, Sound, Games
  <1> HIDE DEF ready, delay
  <1>4. fresh \in Games
    BY <1>1, <1>3 DEF Keeps, Sound, Games, Actions
  <1>5. /\ fresh.state = cleared.state /\ fresh.round = cleared.round
        /\ fresh.start = cleared.start /\ fresh.status = cleared.status
        /\ fresh.position = cleared.position /\ fresh.time = 0
    BY <1>1 DEF Keeps, Sound, Games
  <1> HIDE DEF fresh
  <1>6. Stays(g, fresh)
    BY <1>1, <1>4, <1>5, SameRound DEF Keeps, Frame, Stays
  <1>7. Keeps(fresh, Reset(fresh))
    BY <1>6, ResetSound DEF Stays
  <1> QED
    BY <1>2, <1>5, <1>6, <1>7, KeepsStays, StaysTransitive DEF Keeps, Frame

LEMMA HoldTimeSound ==
  ASSUME NEW g, Sound(g) PROVE Stays(g, HoldTime(g))
  <1> DEFINE over == g.time - MaxTime
             done == IF g.done <= over THEN 0 ELSE g.done - over
  <1>1. over \in Int /\ MaxTime \in Nat /\ g.done \in Nat
    BY BoundsAssumption DEF Sound, Games
  <1>2. CASE over <= 0
    BY <1>2 DEF HoldTime, Stays
  <1>3. CASE ~(over <= 0)
    <2>1. done \in Nat
      BY <1>1, <1>3
    <2>2. HoldTime(g) = [g EXCEPT !.time = MaxTime, !.done = done]
      BY <1>3 DEF HoldTime, Sound, Games
    <2> HIDE DEF done, over
    <2>3. HoldTime(g) \in Games
      BY <1>1, <2>1, <2>2 DEF Sound, Games
    <2> QED
      BY <2>2, <2>3, SameRound DEF Stays, Sound, Games
  <1> QED
    BY <1>2, <1>3

LEMMA RunDelaysSound ==
  ASSUME NEW g, Sound(g) PROVE Keeps(g, RunDelays(g))
  <1> DEFINE delay == [p \in Players |-> IF g.delay[p] > 0 THEN g.delay[p] - 1 ELSE 0]
  <1>1. delay \in [Players -> Nat]
    BY DEF Sound, Games
  <1>2. RunDelays(g) = [g EXCEPT !.delay = delay]
    BY DEF RunDelays
  <1> HIDE DEF delay
  <1>3. RunDelays(g) \in Games
    BY <1>1, <1>2 DEF Sound, Games
  <1> QED
    BY <1>2, <1>3, SameRound DEF Keeps, Frame, Sound, Games

\* A kill credits or costs a player or a team of the game.
LEMMA GiveFragsSound ==
  ASSUME NEW g, Sound(g), NEW victim \in Players, NEW killer \in Players \cup {NoOne}
  PROVE  Keeps(g, GiveFrags(g, victim, killer))
  <1> DEFINE num == Frag(victim, killer)
             side == Scorer(victim, killer)
             score == [g.score EXCEPT ![side] = @ + num]
  <1>1. num \in {-1, 0, 1}
    BY DEF Frag
  <1>2. ASSUME num # 0 PROVE side \in Sides
    <2>1. killer # NoOne => TeamOf[killer] \in Sides
      BY TeamsAssumption DEF Sides
    <2>2. cvars.gametype # "dm" => killer # NoOne
      BY <1>2 DEF Frag
    <2> QED
      BY <2>1, <2>2 DEF Scorer, Sides
  <1>3. ASSUME num # 0 PROVE score \in [Sides -> Int]
    BY <1>1, <1>2, <1>3 DEF Sound, Games
  <1>4. \/ GiveFrags(g, victim, killer) = g
        \/ num # 0 /\ GiveFrags(g, victim, killer) = [g EXCEPT !.score = score]
    BY DEF GiveFrags, Sound, Games
  <1> HIDE DEF num, side, score
  <1>5. ASSUME num # 0 PROVE Keeps(g, [g EXCEPT !.score = score])
    <2>1. [g EXCEPT !.score = score] \in Games
      BY <1>3, <1>5 DEF Sound, Games
    <2> QED
      BY <2>1, SameRound DEF Keeps, Frame, Sound, Games
  <1> QED
    BY <1>4, <1>5, KeepsItself

LEMMA TakeLifeSound ==
  ASSUME NEW g, Sound(g), NEW victim \in Players
  PROVE  Keeps(g, TakeLife(g, victim))
  <1> DEFINE lives == [g.lives EXCEPT ![victim] = @ - 1]
  <1>1. ASSUME g.lives[victim] > 0 PROVE lives \in [Players -> Nat]
    BY <1>1 DEF Sound, Games
  <1>2. \/ TakeLife(g, victim) = g
        \/ g.lives[victim] > 0 /\ TakeLife(g, victim) = [g EXCEPT !.lives = lives]
    BY DEF TakeLife, Sound, Games
  <1> HIDE DEF lives
  <1>3. ASSUME g.lives[victim] > 0 PROVE Keeps(g, [g EXCEPT !.lives = lives])
    <2>1. [g EXCEPT !.lives = lives] \in Games
      BY <1>1, <1>3 DEF Sound, Games
    <2> QED
      BY <2>1, SameRound DEF Keeps, Frame, Sound, Games
  <1> QED
    BY <1>2, <1>3, KeepsItself

LEMMA KillPlayerSound ==
  ASSUME Settled, Sound(game),
         NEW victim \in Players, NEW killer \in Players \cup {NoOne}
  PROVE  Keeps(game, KillPlayer(victim, killer))
  <1> DEFINE fragged == GiveFrags(game, victim, killer)
             scored == TakeLife(fragged, victim)
             limited == IF killer # NoOne /\ cvars.gametype \in {"dm", "teamdm"}
                        THEN ScoreCheckEndGame(scored)
                        ELSE scored
  <1>1. Keeps(game, fragged)
    BY GiveFragsSound
  <1>2. Keeps(game, scored)
    <2> HIDE DEF fragged
    <2> QED
      BY <1>1, TakeLifeSound, KeepsTransitive DEF Keeps
  <1>3. Keeps(game, limited)
    <2> HIDE DEF scored
    <2> QED
      BY <1>2, ScoreCheckSound, KeepsTransitive DEF Keeps
  <1>4. Keeps(game, LivesCheckEndGame(limited))
    <2> HIDE DEF limited
    <2> QED
      BY <1>3, LivesCheckSound, KeepsTransitive DEF Keeps
  <1>5. \/ KillPlayer(victim, killer) = scored
        \/ KillPlayer(victim, killer) = LivesCheckEndGame(limited)
    BY DEF KillPlayer
  <1> QED
    BY <1>2, <1>4, <1>5

-----------------------------------------------------------------------------
(* How a game goes on.                                                     *)

\* What ending a round or a game, or going back to a warmup, leaves alone.
Kept(g, h) ==
    /\ h.status = g.status /\ h.lives = g.lives /\ h.score = g.score
    /\ h.action = g.action /\ h.gamestate = g.gamestate /\ h.lobby = g.lobby
    /\ h.start = g.start

\* Nobody gets wins but those in the game, and teams only in team games.
WinsToPlayers(g, h) ==
    /\ \A p \in Players \ InGame(g) : h.wins[p] = g.wins[p]
    /\ ~IsTeamGame => \A t \in Teams : h.wins[t] = g.wins[t]

\* There are at most n more wins.
MoreWins(g, h, n) == Sum(h.wins, Sides) <= Sum(g.wins, Sides) + n

\* A match that is over has a winner nobody is ahead of.
Crowned(g) ==
    /\ IsRoundsGame
    /\ g.state = "endgame"
    /\ g.winner.type \in {"player", "team"}
    => /\ g.winner.id \in Sides
       /\ \A x \in Rivals(g) : g.wins[x] <= g.wins[g.winner.id]

\* k is g after at most n wins have been given and a winner has been named.
Awarded(g, k, n) ==
    /\ k \in Games
    /\ Kept(g, k) /\ k.state = g.state /\ k.round = g.round
    /\ WinsToPlayers(g, k) /\ MoreWins(g, k, n)

\* The state stays, falls back to a warmup, or the round or the game ends with at
\* most n more wins.
Flow(g, h, n) ==
    /\ Kept(g, h) /\ WinsToPlayers(g, h)
    /\ \/ /\ h.state = g.state /\ h.round = g.round /\ h.wins = g.wins
          /\ g.state = "endgame" => h.winner = g.winner
       \/ h.state \in WarmupStates
       \/ /\ h.state \in EndStates /\ g.state \notin WarmupStates
          /\ h.round = g.round /\ MoreWins(g, h, n)
          /\ Crowned(h)

LEMMA FiniteSides == IsFiniteSet(Sides) /\ IsFiniteSet(Teams)
  <1>1. Teams = 0 .. (NumTeams - 1) /\ NumTeams - 1 \in Int /\ 0 \in Int
    BY TeamsAssumption DEF Teams
  <1>2. IsFiniteSet(Teams)
    BY <1>1, FS_Interval
  <1> QED
    BY <1>2, PlayersAssumption, FS_Union DEF Sides

\* The wins add up to an integer.
LEMMA SumOfWins == ASSUME NEW g \in Games PROVE Sum(g.wins, Sides) \in Int
  <1>1. g.wins \in [Sides -> Nat]
    BY DEF Games
  <1> DEFINE f == g.wins
  <1>2. \A x \in Sides : f[x] \in Int
    BY <1>1
  <1> HIDE DEF f
  <1>3. SumFunctionOnSet(f, Sides) \in Int
    BY <1>2, FiniteSides, SumIsInt
  <1> QED
    BY <1>3 DEF Sum, f

\* Whatever follows from a game in a run follows from itself, ...
LEMMA FlowItself ==
  ASSUME NEW g \in Games, NEW n \in Nat PROVE Flow(g, g, n)
  BY DEF Flow, Kept, WinsToPlayers

\* ... and from what follows from it.
LEMMA FlowTransitive ==
  ASSUME NEW f \in Games, NEW g \in Games, NEW h \in Games, NEW m \in Nat, NEW n \in Nat,
         Flow(f, g, m), Flow(g, h, n)
  PROVE  Flow(f, h, m + n)
  <1>1. Kept(f, h) /\ InGame(g) = InGame(f) /\ InGame(h) = InGame(g)
    BY DEF Flow, Kept, InGame
  <1>2. WinsToPlayers(f, h)
    BY <1>1 DEF Flow, WinsToPlayers
  <1>3. /\ Sum(f.wins, Sides) \in Int /\ Sum(g.wins, Sides) \in Int
        /\ Sum(h.wins, Sides) \in Int
    BY SumOfWins
  <1>4. CASE h.state \in WarmupStates
    BY <1>1, <1>2, <1>4 DEF Flow
  <1>5. CASE /\ h.state = g.state /\ h.round = g.round /\ h.wins = g.wins
             /\ g.state = "endgame" => h.winner = g.winner
    <2>1. CASE /\ g.state = f.state /\ g.round = f.round /\ g.wins = f.wins
               /\ f.state = "endgame" => g.winner = f.winner
      BY <1>1, <1>2, <1>5, <2>1 DEF Flow
    <2>2. CASE /\ g.state \in EndStates /\ f.state \notin WarmupStates
               /\ g.round = f.round /\ MoreWins(f, g, m) /\ Crowned(g)
      <3>1. Crowned(h)
        BY <1>1, <1>5, <2>2 DEF Crowned, Rivals
      <3>2. MoreWins(f, h, m + n)
        BY <1>3, <1>5, <2>2 DEF MoreWins
      <3> QED
        BY <1>1, <1>2, <1>5, <2>2, <3>1, <3>2 DEF Flow
    <2>3. CASE g.state \in WarmupStates
      BY <1>1, <1>2, <1>5, <2>3 DEF Flow
    <2> QED
      BY <2>1, <2>2, <2>3 DEF Flow
  <1>6. CASE /\ h.state \in EndStates /\ g.state \notin WarmupStates
             /\ h.round = g.round /\ MoreWins(g, h, n) /\ Crowned(h)
    <2>1. f.state \notin WarmupStates /\ g.round = f.round
      BY <1>6 DEF Flow
    <2>2. Sum(g.wins, Sides) <= Sum(f.wins, Sides) + m
      BY <1>3, <1>6 DEF Flow, MoreWins
    <2>3. MoreWins(f, h, m + n)
      BY <1>3, <1>6, <2>2 DEF MoreWins
    <2> QED
      BY <1>1, <1>2, <1>6, <2>1, <2>3 DEF Flow
  <1> QED
    BY <1>4, <1>5, <1>6 DEF Flow

\* What setState leaves alone.
LEMMA SetStateFields ==
  ASSUME NEW g \in Games, NEW new
  PROVE  LET h == SetState(g, new)
         IN  /\ h.state = new /\ h.wins = g.wins /\ h.lives = g.lives
             /\ h.score = g.score /\ h.status = g.status /\ h.action = g.action
             /\ h.gamestate = g.gamestate /\ h.lobby = g.lobby
             /\ h.round = (IF new \in WarmupStates THEN 0 ELSE g.round)
             /\ h.winner = (IF new \in EndStates THEN g.winner ELSE NoWinner)
             /\ h.start = (IF new = "ingame" THEN StartTime(g) ELSE g.start)
             /\ h.done = DoneTime(g, new)
  BY DEF SetState, Games

LEMMA WarmupFlow ==
  ASSUME NEW g \in Games, NEW new \in WarmupStates, NEW n \in Nat
  PROVE  Flow(g, SetState(g, new), n)
  <1> DEFINE h == SetState(g, new)
  <1>1. /\ h.state = new /\ h.wins = g.wins /\ h.lives = g.lives
        /\ h.score = g.score /\ h.status = g.status /\ h.action = g.action
        /\ h.gamestate = g.gamestate /\ h.lobby = g.lobby
        /\ h.start = g.start
    BY SetStateFields DEF WarmupStates
  <1> HIDE DEF h
  <1>2. Flow(g, h, n)
    BY <1>1 DEF Flow, Kept, WinsToPlayers
  <1> QED
    BY <1>2 DEF h

LEMMA EndFlow ==
  ASSUME NEW g \in Games, NEW n \in Nat, NEW k, Awarded(g, k, n), NEW new \in EndStates,
         g.state \notin WarmupStates, Crowned(SetState(k, new))
  PROVE  Flow(g, SetState(k, new), n)
  <1> DEFINE h == SetState(k, new)
  <1>1. /\ h.state = new /\ h.wins = k.wins /\ h.lives = k.lives
        /\ h.score = k.score /\ h.status = k.status /\ h.action = k.action
        /\ h.gamestate = k.gamestate /\ h.lobby = k.lobby
        /\ h.start = k.start /\ h.round = k.round
    BY SetStateFields DEF Awarded, WarmupStates, EndStates
  <1>2. Crowned(h)
    OBVIOUS
  <1> HIDE DEF h
  <1>3. Flow(g, h, n)
    BY <1>1, <1>2 DEF Flow, Awarded, Kept, WinsToPlayers, MoreWins
  <1> QED
    BY <1>3 DEF h

\* More wins may be allowed than were given.
LEMMA FlowMore ==
  ASSUME NEW g \in Games, NEW h \in Games, NEW m \in Nat, NEW n \in Nat, m <= n,
         Flow(g, h, m)
  PROVE  Flow(g, h, n)
  <1>1. Sum(g.wins, Sides) \in Int /\ Sum(h.wins, Sides) \in Int
    BY SumOfWins
  <1>2. MoreWins(g, h, m) => MoreWins(g, h, n)
    BY <1>1 DEF MoreWins
  <1> QED
    BY <1>2 DEF Flow

\* A round that goes on has given no wins yet.
LEMMA FlowFrom ==
  ASSUME NEW f, NEW g, NEW h, NEW m, NEW n,
         Flow(f, g, m), g.state = "ingame", Flow(g, h, n)
  PROVE  Flow(f, h, n)
  <1>1. /\ g.state = f.state /\ g.round = f.round /\ g.wins = f.wins
        /\ Kept(f, g) /\ Kept(g, h)
    BY DEF Flow, WarmupStates, EndStates
  <1>2. Kept(f, h) /\ InGame(g) = InGame(f)
    BY <1>1 DEF Kept, InGame
  <1>3. WinsToPlayers(f, h)
    BY <1>1, <1>2 DEF Flow, WinsToPlayers
  <1>4. MoreWins(g, h, n) => MoreWins(f, h, n)
    BY <1>1 DEF MoreWins
  <1> QED
    BY <1>1, <1>2, <1>3, <1>4 DEF Flow

\* Only a round being played gives wins, and no more than WinsPerRound.
Gain(g) == IF g.state = "ingame" THEN WinsPerRound ELSE 0

\* h comes from g by the checks of one handler, which give as many wins as a
\* round may.
Run(g, h) == h \in Games /\ Flow(g, h, Gain(g))

LEMMA GainType == ASSUME NEW g PROVE Gain(g) \in {0, 1, 2} /\ WinsPerRound \in {1, 2}
  BY DEF Gain, WinsPerRound

LEMMA RunItself == ASSUME NEW g \in Games PROVE Run(g, g)
  BY FlowItself, GainType DEF Run

LEMMA RunTransitive ==
  ASSUME NEW f \in Games, NEW g, NEW h, Run(f, g), Run(g, h)
  PROVE  Run(f, h)
  <1>1. g \in Games /\ h \in Games /\ Flow(f, g, Gain(f)) /\ Flow(g, h, Gain(g))
    BY DEF Run
  <1>2. CASE g.state = "ingame"
    <2>1. Gain(f) = Gain(g)
      BY <1>1, <1>2 DEF Flow, WarmupStates, EndStates, Gain
    <2> QED
      BY <1>1, <1>2, <2>1, FlowFrom DEF Run
  <1>3. CASE g.state # "ingame"
    <2>1. Gain(g) = 0 /\ Gain(f) \in Nat
      BY <1>3, GainType DEF Gain
    <2>2. Flow(f, h, Gain(f) + 0)
      BY <1>1, <2>1, FlowTransitive
    <2> QED
      BY <1>1, <2>1, <2>2 DEF Run
  <1> QED
    BY <1>2, <1>3

LEMMA WarmupRun ==
  ASSUME Settled, NEW g, Sound(g), NEW new \in WarmupStates
  PROVE  Run(g, SetState(g, new))
  <1>1. g \in Games /\ new \in States /\ Gain(g) \in Nat
    BY GainType DEF Sound, States
  <1>2. SetState(g, new) \in Games
    BY <1>1, SetStateType
  <1> QED
    BY <1>1, <1>2, WarmupFlow DEF Run

LEMMA ReadyToggleRun ==
  ASSUME Settled, NEW g, Sound(g) PROVE Run(g, ReadyToggle(g))
  <1>1. \/ ReadyToggle(g) = g
        \/ ReadyToggle(g) = SetState(g, "countdown")
        \/ ReadyToggle(g) = SetState(g, "warmup")
    BY DEF ReadyToggle
  <1>2. "countdown" \in WarmupStates /\ "warmup" \in WarmupStates /\ g \in Games
    BY DEF WarmupStates, Sound
  <1> QED
    BY <1>1, <1>2, WarmupRun, RunItself

LEMMA ForceStartRun ==
  ASSUME Settled, NEW g, Sound(g) PROVE Run(g, ForceStart(g))
  <1>1. "forced" \in WarmupStates /\ g \in Games
    BY DEF WarmupStates, Sound
  <1> QED
    BY <1>1, WarmupRun, RunItself DEF ForceStart

LEMMA RestartRun ==
  ASSUME Settled, NEW g, Sound(g) PROVE Run(g, Restart(g))
  <1>1. "forced" \in WarmupStates
    BY DEF WarmupStates
  <1> QED
    BY <1>1, WarmupRun DEF Restart

\* The countdown is nobody's.
LEMMA DoneRun ==
  ASSUME NEW g \in Games, NEW n \in Nat PROVE Run(g, [g EXCEPT !.done = n])
  <1> DEFINE h == [g EXCEPT !.done = n]
  <1>1. /\ h \in Games
        /\ h.state = g.state /\ h.round = g.round /\ h.wins = g.wins
        /\ h.winner = g.winner /\ h.status = g.status /\ h.lives = g.lives
        /\ h.score = g.score /\ h.action = g.action /\ h.gamestate = g.gamestate
        /\ h.lobby = g.lobby /\ h.start = g.start
    BY DEF Games
  <1> HIDE DEF h
  <1>2. Run(g, h)
    BY <1>1 DEF Run, Flow, Kept, WinsToPlayers
  <1> QED
    BY <1>2 DEF h

\* Reset goes back to the warmup when lives or readiness are asked for.
LEMMA ResetRun ==
  ASSUME Settled, NEW g, Sound(g), cvars.lives > 0, IsCoopGame => InGame(g) = {}
  PROVE  Run(g, Reset(g))
  <1> DEFINE w == SetState(g, "warmup")
  <1>1. Reset(g) = [w EXCEPT !.done = 0]
    BY DEF Reset
  <1>2. "warmup" \in WarmupStates /\ g \in Games
    BY DEF WarmupStates, Sound
  <1>3. Run(g, w)
    BY <1>2, WarmupRun
  <1> HIDE DEF w
  <1>4. Run(w, [w EXCEPT !.done = 0])
    BY <1>3, DoneRun DEF Run
  <1> QED
    BY <1>1, <1>2, <1>3, <1>4, RunTransitive

\* One more win for a side is one more in the sum.
LEMMA OneMoreWin ==
  ASSUME NEW g \in Games, NEW side \in Sides
  PROVE  Sum(GiveWins(g, side).wins, Sides) = Sum(g.wins, Sides) + 1
  <1> DEFINE f == g.wins
             h == [f EXCEPT ![side] = @ + 1]
  <1>1. /\ \A x \in Sides : f[x] \in Int /\ h[x] \in Int
        /\ \A x \in Sides \ {side} : f[x] = h[x]
        /\ h[side] = f[side] + 1
    BY DEF Games
  <1>2. GiveWins(g, side).wins = h
    BY DEF GiveWins, Games
  <1> HIDE DEF f, h
  <1>3. SumFunctionOnSet(h, Sides) = SumFunctionOnSet(f, Sides) - f[side] + h[side]
    BY <1>1, FiniteSides, SumChanges
  <1>4. SumFunctionOnSet(f, Sides) \in Int
    BY <1>1, FiniteSides, SumIsInt
  <1>5. SumFunctionOnSet(h, Sides) = SumFunctionOnSet(f, Sides) + 1
    BY <1>1, <1>3, <1>4
  <1> QED
    BY <1>2, <1>5 DEF Sum, f

\* Naming a winner gives no win ...
LEMMA NamedAward ==
  ASSUME NEW g \in Games, NEW k, NEW n \in Nat, Awarded(g, k, n), NEW win \in WinInfo
  PROVE  Awarded(g, SetWinner(k, win), n)
  <1> DEFINE h == SetWinner(k, win)
  <1>1. /\ h \in Games
        /\ h.state = k.state /\ h.round = k.round /\ h.wins = k.wins
        /\ h.status = k.status /\ h.lives = k.lives
        /\ h.score = k.score /\ h.action = k.action /\ h.gamestate = k.gamestate
        /\ h.lobby = k.lobby /\ h.start = k.start
    BY DEF SetWinner, Awarded, Games
  <1> HIDE DEF h
  <1>2. Awarded(g, h, n)
    BY <1>1 DEF Awarded, Kept, WinsToPlayers, MoreWins
  <1> QED
    BY <1>2 DEF h

\* Nothing is awarded ...
LEMMA NoAward == ASSUME NEW g \in Games, NEW n \in Nat PROVE Awarded(g, g, n)
  <1>1. Sum(g.wins, Sides) \in Int
    BY SumOfWins
  <1> QED
    BY <1>1 DEF Awarded, Kept, WinsToPlayers, MoreWins

\* ... and a win goes to a player of the game or, in team games, to a team.
LEMMA WinAward ==
  ASSUME NEW g, Sound(g), NEW side,
         \/ side \in InGame(g)
         \/ IsTeamGame /\ side \in Teams
  PROVE  Awarded(g, GiveWins(g, side), 1)
  <1> DEFINE h == GiveWins(g, side)
  <1>1. side \in Sides /\ g \in Games
    BY DEF InGame, Sides, Sound
  <1>2. h \in Games
    BY <1>1, GiveWinsSound DEF Keeps, Sound
  <1>3. /\ h.state = g.state /\ h.round = g.round
        /\ h.status = g.status /\ h.lives = g.lives
        /\ h.score = g.score /\ h.action = g.action /\ h.gamestate = g.gamestate
        /\ h.lobby = g.lobby /\ h.start = g.start
        /\ \A x \in Sides \ {side} : h.wins[x] = g.wins[x]
    BY <1>1 DEF GiveWins, Games
  <1>4. MoreWins(g, h, 1)
    BY <1>1, OneMoreWin, SumOfWins DEF MoreWins
  <1> HIDE DEF h
  <1>5. side \in Players => side \notin Teams
    BY SidesAssumption
  <1>6. WinsToPlayers(g, h)
    BY <1>3, <1>5 DEF WinsToPlayers, InGame, Sides
  <1>7. Awarded(g, h, 1)
    BY <1>2, <1>3, <1>4, <1>6 DEF Awarded, Kept
  <1> QED
    BY <1>7 DEF h

\* Rivals are among those a match is won by, and a win by one of them names him.
LEMMA RivalsContend == ASSUME NEW g PROVE Rivals(g) \subseteq Contenders(g)
  BY TeamSides DEF Rivals, Contenders, InGame

\* The winner of a match is ahead of all contenders.
LEMMA TopWins ==
  ASSUME NEW k, NEW win, win = MatchWinner(k), win.type \in {"player", "team"}
  PROVE  /\ win.id \in Sides
         /\ \A x \in Contenders(k) : k.wins[x] <= k.wins[win.id]
  <1> DEFINE tops == Tops(k.wins, Contenders(k))
  <1>1. Cardinality(tops) = 1 /\ win = WonBy(The(tops))
    BY DEF MatchWinner, Nobody, WinnerAmong, Draw
  <1>2. win.id \in tops
    <2> HIDE DEF tops
    <2>1. win.id = The(tops)
      BY <1>1 DEF WonBy
    <2> QED
      BY <1>1, <2>1, OneIsSome, TheInSet
  <1> QED
    BY <1>2, ContendersAreSides DEF Tops

\* Unless it ends a game of coop without rounds, a round ends in one of the two
\* states for it.
LEMMA EndRoundState ==
  ASSUME NEW k \in Games, ~IsCoopGame PROVE EndRound(k).state \in EndStates
  <1>1. SetWinner(k, MatchWinner(k)) \in Games
    BY MatchWinnerType DEF SetWinner, Games
  <1>2. "endround" \in EndStates /\ "endgame" \in EndStates
    BY DEF EndStates
  <1>3. \/ EndRound(k) = SetState(SetWinner(k, MatchWinner(k)), "endgame")
        \/ EndRound(k) = SetState(k, "endround")
        \/ EndRound(k) = SetState(k, "endgame")
    BY DEF EndRound, SetWinner
  <1> QED
    BY <1>1, <1>2, <1>3, SetStateFields

LEMMA EndRoundFlow ==
  ASSUME NEW g \in Games, NEW n \in Nat, NEW k, Awarded(g, k, n),
         g.state \notin WarmupStates
  PROVE  Flow(g, EndRound(k), n)
  <1>0. k \in Games /\ "endround" \in EndStates /\ "endgame" \in EndStates
    BY DEF Awarded, EndStates
  <1>1. CASE IsRoundsGame /\ RoundsShouldEndGame(k)
    <2> DEFINE w == SetWinner(k, MatchWinner(k))
               h == SetState(w, "endgame")
    <2>1. Awarded(g, w, n)
      BY MatchWinnerType, NamedAward
    <2>2. w.wins = k.wins /\ w.status = k.status /\ w.winner = MatchWinner(k) /\ w \in Games
      <3>1. w \in Games
        BY <2>1 DEF Awarded
      <3> QED
        BY <1>0, <3>1 DEF SetWinner, Games
    <2>3. EndRound(k) = h
      BY <1>1 DEF EndRound, SetWinner
    <2> HIDE DEF w
    <2>4. h.wins = k.wins /\ h.winner = MatchWinner(k) /\ h.status = k.status
      BY <1>0, <2>2, SetStateFields
    <2>5. Crowned(h)
      <3> HIDE DEF h
      <3>1. Rivals(h) \subseteq Contenders(k)
        <4>1. Contenders(h) = Contenders(k)
          BY <2>4 DEF Contenders, InGame
        <4> QED
          BY <4>1, RivalsContend
      <3> QED
        BY <2>4, <3>1, TopWins DEF Crowned
    <2> QED
      BY <1>0, <2>1, <2>3, <2>5, EndFlow
  <1>2. CASE IsRoundsGame /\ ~RoundsShouldEndGame(k)
    <2>1. EndRound(k) = SetState(k, "endround")
      BY <1>2 DEF EndRound
    <2>2. Crowned(SetState(k, "endround"))
      <3>1. SetState(k, "endround").state = "endround"
        BY <1>0, SetStateFields
      <3> QED
        BY <3>1 DEF Crowned
    <2> QED
      BY <1>0, <2>1, <2>2, EndFlow
  <1>3. CASE ~IsRoundsGame /\ ~IsCoopGame
    <2>1. EndRound(k) = SetState(k, "endgame")
      BY <1>3 DEF EndRound
    <2>2. Crowned(SetState(k, "endgame"))
      BY <1>3 DEF Crowned
    <2> QED
      BY <1>0, <2>1, <2>2, EndFlow
  <1>4. CASE ~IsRoundsGame /\ IsCoopGame
    <2> DEFINE h == SetState(k, "warmup")
    <2>1. EndRound(k) = h
      BY <1>4 DEF EndRound
    <2>2. Flow(k, h, n)
      BY <1>0, WarmupFlow DEF WarmupStates
    <2>3. h.state = "warmup" /\ h.wins = k.wins
      BY <1>0, SetStateFields
    <2> HIDE DEF h
    <2>4. Flow(g, h, n)
      BY <2>2, <2>3 DEF Flow, Awarded, Kept, WinsToPlayers, WarmupStates
    <2> QED
      BY <2>1, <2>4
  <1> QED
    BY <1>1, <1>2, <1>3, <1>4

LEMMA WinRoundFlow ==
  ASSUME NEW g, Sound(g), g.state \notin WarmupStates, NEW side,
         \/ side \in InGame(g)
         \/ IsTeamGame /\ side \in Teams
  PROVE  Flow(g, WinRound(g, side), 1)
  <1> DEFINE h == GiveWins(g, side)
             i == SetWinner(h, WonBy(side))
  <1>1. side \in Sides /\ g \in Games
    BY DEF InGame, Sides, Sound
  <1>2. Awarded(g, h, 1)
    BY WinAward
  <1> HIDE DEF h
  <1>3. Awarded(g, i, 1)
    BY <1>1, <1>2, WonByType, NamedAward
  <1> HIDE DEF i
  <1>4. Flow(g, EndRound(i), 1)
    BY <1>1, <1>3, EndRoundFlow
  <1>5. WinRound(g, side) = EndRound(i)
    BY DEF WinRound, i, h
  <1> QED
    BY <1>4, <1>5

LEMMA NamedFlow ==
  ASSUME NEW g, Sound(g), g.state \notin WarmupStates, NEW win \in WinInfo, NEW n \in Nat
  PROVE  Flow(g, EndRound(SetWinner(g, win)), n)
  <1>1. Awarded(g, SetWinner(g, win), n)
    BY NoAward, NamedAward DEF Sound
  <1> HIDE DEF SetWinner
  <1> QED
    BY <1>1, EndRoundFlow DEF Sound

LEMMA DrawRoundFlow ==
  ASSUME NEW g, Sound(g), g.state \notin WarmupStates, NEW n \in Nat
  PROVE  Flow(g, DrawRound(g), n)
  <1>1. Draw \in WinInfo
    BY DEF Draw, WinInfo, WinTypes
  <1> QED
    BY <1>1, NamedFlow DEF DrawRound

LEMMA WinRoundState ==
  ASSUME NEW g \in Games, NEW side \in Sides, ~IsCoopGame
  PROVE  WinRound(g, side).state \in EndStates
  <1> DEFINE h == GiveWins(g, side)
             i == SetWinner(h, WonBy(side))
  <1>1. h \in Games
    BY DEF GiveWins, Games
  <1> HIDE DEF h
  <1>2. i \in Games
    BY <1>1, WonByType DEF SetWinner, Games
  <1> HIDE DEF i
  <1>3. EndRound(i).state \in EndStates
    BY <1>2, EndRoundState
  <1> QED
    BY <1>3 DEF WinRound, i, h

\* CTF without sides may decide a round on the score ...
LEMMA ObjectivesFlow ==
  ASSUME NEW g, Sound(g), g.state \notin WarmupStates, IsTeamGame
  PROVE  /\ Flow(g, ObjectivesCheck(g), 1)
         /\ ObjectivesCheck(g).state \notin WarmupStates
         /\ \/ ObjectivesCheck(g) = g
            \/ cvars.gametype = "ctf" /\ ~IsSidesGame
  <1> DEFINE tops == Tops(g.score, Teams)
  <1>0. g \in Games /\ ~IsCoopGame
    BY DEF Sound, IsTeamGame, IsCoopGame
  <1>1. \/ ObjectivesCheck(g) = g
        \/ /\ cvars.gametype = "ctf" /\ ~IsSidesGame
           /\ \/ ObjectivesCheck(g) = DrawRound(g)
              \/ Cardinality(tops) = 1 /\ ObjectivesCheck(g) = WinRound(g, The(tops))
    BY DEF ObjectivesCheck
  <1>2. CASE ObjectivesCheck(g) = g
    BY <1>0, <1>2, FlowItself
  <1>3. CASE /\ cvars.gametype = "ctf" /\ ~IsSidesGame
             /\ ObjectivesCheck(g) = DrawRound(g)
    <2>1. SetWinner(g, Draw) \in Games
      BY <1>0 DEF SetWinner, Games, Draw, WinInfo, WinTypes
    <2>2. DrawRound(g).state \in EndStates
      BY <1>0, <2>1, EndRoundState DEF DrawRound
    <2> QED
      BY <1>3, <2>2, DrawRoundFlow DEF EndStates, WarmupStates
  <1>4. CASE /\ cvars.gametype = "ctf" /\ ~IsSidesGame
             /\ Cardinality(tops) = 1 /\ ObjectivesCheck(g) = WinRound(g, The(tops))
    <2>1. The(tops) \in Teams /\ The(tops) \in Sides
      <3>1. tops \in SUBSET Teams
        BY TopsAmong
      <3> HIDE DEF tops
      <3> QED
        BY <1>4, <3>1, OneIsSome, TheInSet DEF Sides
    <2> HIDE DEF tops
    <2>2. WinRound(g, The(tops)).state \in EndStates
      BY <1>0, <2>1, WinRoundState
    <2> QED
      BY <1>4, <2>1, <2>2, WinRoundFlow DEF EndStates, WarmupStates
  <1> QED
    BY <1>1, <1>2, <1>3, <1>4

LEMMA LastTeamFlow ==
  ASSUME NEW g, Sound(g), g.state \notin WarmupStates, IsTeamGame, NEW S \in SUBSET Teams
  PROVE  Flow(g, LastTeamCheck(g, S), 1)
  <1>1. \/ LastTeamCheck(g, S) = g
        \/ LastTeamCheck(g, S) = DrawRound(g)
        \/ Cardinality(S) = 1 /\ LastTeamCheck(g, S) = WinRound(g, The(S))
    BY DEF LastTeamCheck
  <1>2. Cardinality(S) = 1 => The(S) \in Teams
    BY OneIsSome, TheInSet
  <1> QED
    BY <1>1, <1>2, FlowItself, DrawRoundFlow, WinRoundFlow DEF Sound

LEMMA LastPlayerFlow ==
  ASSUME NEW g, Sound(g), g.state \notin WarmupStates
  PROVE  Flow(g, LastPlayerCheck(g), 1)
  <1>1. \/ LastPlayerCheck(g) = g
        \/ LastPlayerCheck(g) = DrawRound(g)
        \/ /\ Cardinality(Alive(g)) = 1
           /\ LastPlayerCheck(g) = WinRound(g, The(Alive(g)))
    BY DEF LastPlayerCheck
  <1>2. Cardinality(Alive(g)) = 1 => The(Alive(g)) \in InGame(g)
    <2>1. Alive(g) \in SUBSET InGame(g)
      BY DEF Alive
    <2> QED
      BY <2>1, OneIsSome, TheInSet
  <1> QED
    BY <1>1, <1>2, FlowItself, DrawRoundFlow, WinRoundFlow DEF Sound

\* ... and then goes on to decide it on who is left.
LEMMA LivesCheckRun ==
  ASSUME Settled, NEW g, Sound(g) PROVE Run(g, LivesCheckEndGame(g))
  <1>0. /\ g \in Games /\ LivesCheckEndGame(g) \in Games
        /\ WinsPerRound \in Nat /\ 1 <= WinsPerRound
    BY LivesCheckSound, GainType DEF Sound, Keeps
  <1>1. CASE LivesCheckEndGame(g) = g
    BY <1>0, <1>1, RunItself
  <1>2. CASE LivesCheckEndGame(g) # g
    <2>1. cvars.lives # 0 /\ g.state = "ingame" /\ g.state \notin WarmupStates
      BY <1>2 DEF LivesCheckEndGame, CanEndGame, WarmupStates
    <2>2. CASE IsCoopGame
      <3>1. LivesCheckEndGame(g) = EndRound(SetWinner(g, Nobody))
        <4>1. ~IsTeamGame
          BY <2>2 DEF IsCoopGame, IsTeamGame
        <4> QED
          BY <1>2, <2>2, <4>1 DEF LivesCheckEndGame
      <3>2. Nobody \in WinInfo
        BY DEF Nobody, WinInfo, WinTypes
      <3> QED
        BY <1>0, <2>1, <3>1, <3>2, NamedFlow DEF Run, Gain
    <2>3. CASE ~IsCoopGame /\ IsTeamGame
      <3> DEFINE o == ObjectivesCheck(g)
                 S == TeamsOf(Alive(g))
                 h == LastTeamCheck(o, S)
      <3>1. LivesCheckEndGame(g) = h
        BY <1>2, <2>3 DEF LivesCheckEndGame
      <3>2. S \in SUBSET Teams
        BY TeamSides DEF Alive, InGame
      <3>3. /\ Sound(o) /\ Flow(g, o, 1) /\ o.state \notin WarmupStates
            /\ o = g \/ (cvars.gametype = "ctf" /\ ~IsSidesGame)
        BY <2>1, <2>3, ObjectivesSound, ObjectivesFlow DEF Keeps
      <3> HIDE DEF o, S
      <3>4. Flow(o, h, 1)
        BY <2>3, <3>2, <3>3, LastTeamFlow
      <3>5. h \in Games /\ o \in Games
        BY <1>0, <3>1, <3>3 DEF Sound
      <3> HIDE DEF h
      <3>6. CASE o = g
        <4>1. Flow(g, h, WinsPerRound)
          BY <1>0, <3>4, <3>5, <3>6, FlowMore
        <4> QED
          BY <1>0, <2>1, <3>1, <4>1 DEF Run, Gain
      <3>7. CASE o # g
        <4>1. WinsPerRound = 2
          <5>1. cvars.lives \in Nat
            BY CvarTypes DEF Cvars
          <5> QED
            BY <2>1, <3>3, <3>7, <5>1 DEF WinsPerRound
        <4>2. Flow(g, h, 1 + 1)
          BY <1>0, <3>3, <3>4, <3>5, FlowTransitive
        <4> QED
          BY <1>0, <2>1, <3>1, <4>1, <4>2 DEF Run, Gain
      <3> QED
        BY <3>6, <3>7
    <2>4. CASE ~IsCoopGame /\ ~IsTeamGame
      <3>1. LivesCheckEndGame(g) = LastPlayerCheck(g)
        BY <1>2, <2>4 DEF LivesCheckEndGame
      <3>2. Flow(g, LastPlayerCheck(g), 1)
        BY <2>1, LastPlayerFlow
      <3>3. Flow(g, LastPlayerCheck(g), WinsPerRound)
        BY <1>0, <3>1, <3>2, FlowMore
      <3> QED
        BY <1>0, <2>1, <3>1, <3>3 DEF Run, Gain
    <2> QED
      BY <2>2, <2>3, <2>4
  <1> QED
    BY <1>1, <1>2

LEMMA ScoreCheckRun ==
  ASSUME Settled, NEW g, Sound(g) PROVE Run(g, ScoreCheckEndGame(g))
  <1> DEFINE tops == Tops(g.score, Contenders(g))
  <1>0. /\ g \in Games /\ ScoreCheckEndGame(g) \in Games
        /\ WinsPerRound \in Nat /\ 1 <= WinsPerRound
    BY ScoreCheckSound, GainType DEF Sound, Keeps
  <1>1. CASE ScoreCheckEndGame(g) = g
    BY <1>0, <1>1, RunItself
  <1>2. CASE ScoreCheckEndGame(g) # g
    <2>1. /\ g.state = "ingame" /\ g.state \notin WarmupStates
          /\ tops # {} /\ ScoreCheckEndGame(g) = WinRound(g, The(tops))
      BY <1>2 DEF ScoreCheckEndGame, CanEndGame, WarmupStates
    <2>2. The(tops) \in Contenders(g)
      BY <2>1, TopsAmong, TheInSet
    <2> HIDE DEF tops
    <2>3. Flow(g, WinRound(g, The(tops)), 1)
      BY <2>1, <2>2, WinRoundFlow DEF Contenders
    <2>4. Flow(g, ScoreCheckEndGame(g), WinsPerRound)
      BY <1>0, <2>1, <2>3, FlowMore
    <2> QED
      BY <1>0, <2>1, <2>4 DEF Run, Gain
  <1> QED
    BY <1>1, <1>2

\* When time is over the defenders may get a win.
LEMMA TimeOverAwards ==
  ASSUME Settled, NEW g, Sound(g) PROVE Awarded(g, TimeOver(g), 1)
  <1> DEFINE d == DefendingTeam(g)
             h == GiveWins(g, d)
             value == IF ~(cvars.lives > 0 /\ cvars.limit = 0) THEN g.score
                      ELSE IF IsTeamGame THEN LivesPool(g) ELSE g.lives
             tops == Tops(value, Contenders(g))
  <1>0. g \in Games /\ Awarded(g, g, 1)
    BY NoAward DEF Sound
  <1>1. Awarded(g, SetWinner(g, NoWinner), 1)
    <2>1. NoWinner \in WinInfo
      BY DEF NoWinner, WinInfo, WinTypes
    <2> QED
      BY <1>0, <2>1, NamedAward
  <1>2. IsSidesGame => Awarded(g, SetWinner(h, WonBy(d)), 1)
    <2>1. d \in Teams /\ d \in Sides
      BY <1>0, DefendingTeamType DEF Sides
    <2>2. IsSidesGame => Awarded(g, h, 1)
      BY <2>1, WinAward DEF IsSidesGame
    <2> HIDE DEF h
    <2> QED
      BY <1>0, <2>1, <2>2, WonByType, NamedAward
  <1>3. Awarded(g, SetWinner(g, WinnerAmong(tops)), 1)
    <2>1. tops \in SUBSET Sides
      BY TopsAmong, ContendersAreSides
    <2> QED
      BY <1>0, <2>1, WinnerAmongType, NamedAward
  <1>4. \/ TimeOver(g) = SetWinner(g, NoWinner)
        \/ TimeOver(g) = g
        \/ IsSidesGame /\ TimeOver(g) = SetWinner(h, WonBy(d))
        \/ TimeOver(g) = SetWinner(g, WinnerAmong(tops))
    BY DEF TimeOver
  <1> QED
    BY <1>0, <1>1, <1>2, <1>3, <1>4

LEMMA TimeCheckRun ==
  ASSUME Settled, NEW g, Sound(g) PROVE Run(g, TimeCheckEndGame(g))
  <1>0. /\ g \in Games /\ TimeCheckEndGame(g) \in Games
        /\ WinsPerRound \in Nat /\ 1 <= WinsPerRound
    BY TimeCheckSound, GainType DEF Sound, Keeps
  <1>1. CASE TimeCheckEndGame(g) = g
    BY <1>0, <1>1, RunItself
  <1>2. CASE TimeCheckEndGame(g) # g
    <2>1. /\ g.state = "ingame" /\ g.state \notin WarmupStates
          /\ TimeCheckEndGame(g) = EndRound(TimeOver(g))
      BY <1>2 DEF TimeCheckEndGame, CanEndGame, WarmupStates
    <2>2. Flow(g, EndRound(TimeOver(g)), 1)
      BY <1>0, <2>1, TimeOverAwards, EndRoundFlow
    <2>3. Flow(g, TimeCheckEndGame(g), WinsPerRound)
      BY <1>0, <2>1, <2>2, FlowMore
    <2> QED
      BY <1>0, <2>1, <2>3 DEF Run, Gain
  <1> QED
    BY <1>1, <1>2

\* Two members of a set of at most one are the same.
LEMMA AtMostOne ==
  ASSUME NEW S, IsFiniteSet(S), Cardinality(S) <= 1, NEW x \in S, NEW y \in S
  PROVE  x = y
  <1>1. Cardinality(S) \in Nat
    BY FS_CardinalityType
  <1>2. Cardinality(S) # 0
    BY FS_EmptySet
  <1>3. Cardinality(S) = 1
    BY <1>1, <1>2
  <1> QED
    BY <1>3, FS_Singleton

\* Whoever plays or is alive is one of finitely many.
LEMMA FiniteRivals ==
  ASSUME NEW g
  PROVE  /\ IsFiniteSet(Rivals(g)) /\ Rivals(g) \subseteq Sides
         /\ IsFiniteSet(InGame(g)) /\ IsFiniteSet(Alive(g))
         /\ IsFiniteSet(TeamsOf(InGame(g))) /\ IsFiniteSet(TeamsOf(Alive(g)))
  <1>1. InGame(g) \subseteq Players /\ Alive(g) \subseteq Players
    BY DEF Alive, InGame
  <1>2. IsFiniteSet(InGame(g)) /\ IsFiniteSet(Alive(g))
    BY <1>1, PlayersAssumption, FS_Subset
  <1>3. TeamsOf(InGame(g)) \subseteq Teams /\ TeamsOf(Alive(g)) \subseteq Teams
    BY <1>1, TeamSides
  <1>4. IsFiniteSet(TeamsOf(InGame(g))) /\ IsFiniteSet(TeamsOf(Alive(g)))
    BY <1>3, FiniteSides, FS_Subset
  <1> QED
    BY <1>1, <1>2, <1>3, <1>4 DEF Rivals, Sides

\* The survivors are among the rivals.
LEMMA AliveRivals ==
  ASSUME NEW g PROVE (IF IsTeamGame THEN TeamsOf(Alive(g)) ELSE Alive(g)) \subseteq Rivals(g)
  BY DEF Rivals, TeamsOf, Alive

\* After a round that does not end the game its winner is still named.
LEMMA RoundsWinner ==
  ASSUME NEW k \in Games, EndRound(k).state = "endround"
  PROVE  EndRound(k).winner = k.winner
  <1>1. SetWinner(k, MatchWinner(k)) \in Games
    BY MatchWinnerType DEF SetWinner, Games
  <1>2. \/ EndRound(k) = SetState(SetWinner(k, MatchWinner(k)), "endgame")
        \/ EndRound(k) = SetState(k, "endround")
        \/ EndRound(k) = SetState(k, "endgame")
        \/ EndRound(k) = SetState(k, "warmup")
    BY DEF EndRound, SetWinner
  <1>3. EndRound(k) = SetState(k, "endround")
    BY <1>1, <1>2, SetStateFields
  <1> QED
    BY <1>3, SetStateFields DEF EndStates

\* Where one side is left, a round that ends is won by that side or by nobody.
SurvivorNamed(g, h) ==
    /\ h.state \in EndStates
    /\ h.state = "endround" =>
          h.winner = Draw \/ \E x \in Rivals(g) : h.winner = WonBy(x)

\* A draw names nobody ...
LEMMA DrawNames ==
  ASSUME NEW f, NEW g \in Games, ~IsCoopGame
  PROVE  SurvivorNamed(f, DrawRound(g))
  <1>1. SetWinner(g, Draw) \in Games /\ SetWinner(g, Draw).winner = Draw
    BY DEF SetWinner, Games, Draw, WinInfo, WinTypes
  <1> QED
    BY <1>1, EndRoundState, RoundsWinner DEF DrawRound, SurvivorNamed

\* ... and a win a rival.
LEMMA WinNames ==
  ASSUME NEW f, NEW g \in Games, ~IsCoopGame, NEW side \in Rivals(f)
  PROVE  SurvivorNamed(f, WinRound(g, side))
  <1> DEFINE h == GiveWins(g, side)
             i == SetWinner(h, WonBy(side))
  <1>0. side \in Sides
    BY FiniteRivals
  <1>1. h \in Games
    BY <1>0 DEF GiveWins, Games
  <1> HIDE DEF h
  <1>2. i \in Games /\ i.winner = WonBy(side)
    BY <1>0, <1>1, WonByType DEF SetWinner, Games
  <1> HIDE DEF i
  <1>3. EndRound(i).state \in EndStates
    BY <1>2, EndRoundState
  <1>4. EndRound(i).state = "endround" => EndRound(i).winner = WonBy(side)
    BY <1>2, RoundsWinner
  <1>5. WinRound(g, side) = EndRound(i)
    BY DEF WinRound, i, h
  <1> QED
    BY <1>3, <1>4, <1>5 DEF SurvivorNamed

LEMMA LivesCheckNames ==
  ASSUME Settled, NEW g, Sound(g), ~IsCoopGame, Cardinality(Rivals(g)) <= 1,
         LivesCheckEndGame(g) # g
  PROVE  SurvivorNamed(g, LivesCheckEndGame(g))
  <1>1. g \in Games
    BY DEF Sound
  <1>2. CASE IsTeamGame
    <2> DEFINE o == ObjectivesCheck(g)
               S == TeamsOf(Alive(g))
    <2>1. LivesCheckEndGame(g) = LastTeamCheck(o, S)
      BY <1>2 DEF LivesCheckEndGame
    <2>2. o \in Games
      BY ObjectivesSound DEF Keeps, Sound
    <2>3. S \subseteq Rivals(g) /\ IsFiniteSet(S)
      BY <1>2, AliveRivals, FiniteRivals
    <2> HIDE DEF o, S
    <2>4. Cardinality(S) = 1 \/ S = {}
      <3>1. Cardinality(S) \in Nat /\ Cardinality(Rivals(g)) \in Nat
            /\ Cardinality(S) <= Cardinality(Rivals(g))
        BY <2>3, FiniteRivals, FS_Subset, FS_CardinalityType
      <3>2. Cardinality(S) = 0 => S = {}
        BY <2>3, FS_EmptySet
      <3> QED
        BY <3>1, <3>2
    <2>5. \/ S = {} /\ LastTeamCheck(o, S) = DrawRound(o)
          \/ Cardinality(S) = 1 /\ LastTeamCheck(o, S) = WinRound(o, The(S))
      BY <2>4, FS_EmptySet DEF LastTeamCheck
    <2>6. Cardinality(S) = 1 => The(S) \in Rivals(g)
      BY <2>3, OneIsSome, TheInSet
    <2> QED
      BY <2>1, <2>2, <2>5, <2>6, DrawNames, WinNames
  <1>3. CASE ~IsTeamGame
    <2> DEFINE S == Alive(g)
    <2>1. LivesCheckEndGame(g) = LastPlayerCheck(g)
      BY <1>3 DEF LivesCheckEndGame
    <2>2. S \subseteq Rivals(g)
      BY <1>3, AliveRivals
    <2>3. \/ LastPlayerCheck(g) = DrawRound(g)
          \/ Cardinality(S) = 1 /\ LastPlayerCheck(g) = WinRound(g, The(S))
      BY <2>1 DEF LastPlayerCheck
    <2> HIDE DEF S
    <2>4. Cardinality(S) = 1 => The(S) \in Rivals(g)
      BY <2>2, OneIsSome, TheInSet
    <2> QED
      BY <1>1, <2>1, <2>3, <2>4, DrawNames, WinNames
  <1> QED
    BY <1>2, <1>3

LEMMA NamedRun ==
  ASSUME NEW g, Sound(g), g.state # "endgame", NEW win \in WinInfo
  PROVE  Run(g, SetWinner(g, win))
  <1> DEFINE h == SetWinner(g, win)
  <1>1. /\ h \in Games
        /\ h.state = g.state /\ h.round = g.round /\ h.wins = g.wins
        /\ h.status = g.status /\ h.lives = g.lives
        /\ h.score = g.score /\ h.action = g.action /\ h.gamestate = g.gamestate
        /\ h.lobby = g.lobby /\ h.start = g.start
    BY DEF SetWinner, Sound, Games
  <1> HIDE DEF h
  <1>2. Run(g, h)
    BY <1>1 DEF Run, Flow, Kept, WinsToPlayers
  <1> QED
    BY <1>2 DEF h

\* A game that too few are left to play ends with the one left for its winner.
LEMMA EndGameRun ==
  ASSUME Settled, NEW h, Sound(h), h.state \notin WarmupStates,
         Crowned(SetState(h, "endgame"))
  PROVE  Run(h, EndGame(h))
  <1>1. h \in Games /\ Gain(h) \in Nat /\ Awarded(h, h, Gain(h))
    BY GainType, NoAward DEF Sound
  <1>2. EndGame(h) \in Games
    BY EndGameSound DEF Keeps, Sound
  <1>3. CASE h.state = "endgame"
    BY <1>1, <1>3, RunItself DEF EndGame
  <1>4. CASE h.state # "endgame"
    <2>1. Flow(h, SetState(h, "endgame"), Gain(h))
      BY <1>1, EndFlow DEF EndStates
    <2> QED
      BY <1>2, <1>4, <2>1 DEF EndGame, Run
  <1> QED
    BY <1>3, <1>4

\* A match that is left to one side ends with that side as its winner.
LEMMA OneLeft ==
  ASSUME Settled, NEW g, Sound(g), ~IsCoopGame, Cardinality(Rivals(g)) <= 1,
         g.state \notin WarmupStates,
         g.winner = NoWinner \/ \E x \in Rivals(g) : g.winner = WonBy(x)
  PROVE  Run(g, EndGame(LivesCheckEndGame(g)))
  <1> DEFINE h == LivesCheckEndGame(g)
             e == SetState(h, "endgame")
  <1>1. Run(g, h) /\ Sound(h) /\ g \in Games /\ h \in Games
    BY LivesCheckRun, LivesCheckSound DEF Keeps, Sound
  <1>2. h = g \/ SurvivorNamed(g, h)
    BY LivesCheckNames
  <1>3. h.status = g.status
    BY LivesCheckSound DEF Keeps, Frame
  <1> HIDE DEF h
  <1>4. h.state \notin WarmupStates
    BY <1>2 DEF SurvivorNamed, WarmupStates, EndStates
  <1>5. h.state = "endgame" \/ Crowned(e)
    <2>1. SUFFICES ASSUME h.state # "endgame" PROVE Crowned(e)
      OBVIOUS
    <2>2. e.winner = h.winner /\ e.status = g.status
      BY <1>1, <1>3, SetStateFields DEF EndStates
    <2>3. Rivals(e) = Rivals(g)
      BY <2>2 DEF Rivals, InGame
    <2> HIDE DEF e
    <2>4. \/ e.winner = NoWinner \/ e.winner = Draw
          \/ \E x \in Rivals(g) : e.winner = WonBy(x)
      BY <1>2, <2>1, <2>2 DEF SurvivorNamed, EndStates
    <2>5. ASSUME e.winner.type \in {"player", "team"}, NEW x \in Rivals(e)
          PROVE  e.wins[x] = e.wins[e.winner.id]
      <3>1. PICK y \in Rivals(g) : e.winner = WonBy(y)
        BY <2>4, <2>5 DEF NoWinner, Draw
      <3>2. x = y
        BY <2>3, <2>5, FiniteRivals, AtMostOne
      <3> QED
        BY <3>1, <3>2 DEF WonBy
    <2>6. ASSUME NEW x \in Rivals(e), e.winner.type \in {"player", "team"}
          PROVE  e.wins[x] <= e.wins[e.winner.id]
      <3>1. e \in Games
        BY <1>1, SetStateType DEF e, States, EndStates
      <3>2. x \in Sides
        BY <2>6, FiniteRivals
      <3>3. e.wins[x] \in Nat
        BY <3>1, <3>2 DEF Games
      <3> QED
        BY <2>5, <2>6, <3>3
    <2>7. e.winner.type \in {"player", "team"} => e.winner.id \in Sides
      <3>1. \A y \in Rivals(g) : y \in Sides
        BY FiniteRivals
      <3>2. ASSUME e.winner.type \in {"player", "team"} PROVE e.winner.id \in Sides
        <4>1. PICK y \in Rivals(g) : e.winner = WonBy(y)
          BY <2>4, <3>2 DEF NoWinner, Draw
        <4> QED
          BY <3>1, <4>1 DEF WonBy
      <3> QED
        BY <3>2
    <2> QED
      BY <2>6, <2>7 DEF Crowned
  <1>6. Run(h, EndGame(h))
    <2>1. CASE h.state = "endgame"
      BY <1>1, <2>1, RunItself DEF EndGame
    <2>2. CASE h.state # "endgame"
      BY <1>1, <1>4, <1>5, <2>2, EndGameRun
    <2> QED
      BY <2>1, <2>2
  <1> QED
    BY <1>1, <1>6, RunTransitive DEF h

LEMMA PlayerCountRun ==
  ASSUME Settled, NEW g, Sound(g) PROVE Run(g, AssertValidPlayerCount(g))
  <1> DEFINE sides == Rivals(g)
             valid == InGame(g) # {} /\ (IsCoopGame \/ Cardinality(sides) > 1)
             win == IF sides = {} THEN NoWinner ELSE WonBy(The(sides))
             f == SetWinner(g, win)
  <1>0. g \in Games /\ cvars.lives \in Nat
    BY CvarTypes DEF Sound, Cvars
  <1>1. win \in WinInfo
    <2>1. NoWinner \in WinInfo
      BY DEF NoWinner, WinInfo, WinTypes
    <2> QED
      BY <2>1, FiniteRivals, TheInSet, WonByType
  <1>2. CASE cvars.lives = 0 \/ g.state \in {"warmup", "endgame"}
    <2>1. AssertValidPlayerCount(g) = g
      BY <1>2 DEF AssertValidPlayerCount
    <2> QED
      BY <1>0, <2>1, RunItself
  <1>3. CASE /\ ~(cvars.lives = 0 \/ g.state \in {"warmup", "endgame"})
             /\ IsCoopGame /\ InGame(g) = {}
    <2>1. AssertValidPlayerCount(g) = Reset(g)
      BY <1>3 DEF AssertValidPlayerCount
    <2> QED
      BY <1>0, <1>3, <2>1, ResetRun
  <1>4. CASE /\ ~(cvars.lives = 0 \/ g.state \in {"warmup", "endgame"})
             /\ ~(IsCoopGame /\ InGame(g) = {})
             /\ valid
    <2>1. AssertValidPlayerCount(g) = LivesCheckEndGame(g)
      BY <1>4 DEF AssertValidPlayerCount, Rivals
    <2> QED
      BY <2>1, LivesCheckRun
  <1>5. CASE /\ ~(cvars.lives = 0 \/ g.state \in {"warmup", "endgame"})
             /\ ~(IsCoopGame /\ InGame(g) = {})
             /\ ~valid
    <2> DEFINE h == LivesCheckEndGame(f)
    <2>1. ~IsCoopGame /\ Cardinality(sides) <= 1
      <3>1. ~IsCoopGame
        BY <1>5
      <3>2. InGame(g) = {} => sides = {}
        BY DEF Rivals, TeamsOf
      <3>3. Cardinality(sides) \in Nat
        BY FiniteRivals, FS_CardinalityType
      <3>4. Cardinality({}) = 0
        BY FS_EmptySet
      <3>5. InGame(g) = {} \/ ~(Cardinality(sides) > 1)
        BY <1>5, <3>1
      <3> QED
        BY <3>1, <3>2, <3>3, <3>4, <3>5
    <2>2. AssertValidPlayerCount(g) =
             IF h.state \in {"countdown", "forced"} THEN Reset(h) ELSE EndGame(h)
      BY <1>5 DEF AssertValidPlayerCount, Rivals
    <2>3. /\ Run(g, f) /\ Sound(f) /\ f \in Games /\ f.status = g.status
          /\ f.winner = win /\ f.state = g.state
      <3>1. Run(g, f)
        BY <1>1, <1>5, NamedRun
      <3>2. Keeps(g, f)
        BY <1>1, SetWinnerSound
      <3>3. f.winner = win /\ f.state = g.state
        BY <1>0 DEF SetWinner, Games
      <3> QED
        BY <3>1, <3>2, <3>3 DEF Keeps, Frame, Sound
    <2>4. Rivals(f) = sides
      BY <2>3 DEF Rivals, InGame
    <2>5. f.winner = NoWinner \/ \E x \in Rivals(f) : f.winner = WonBy(x)
      BY <2>3, <2>4, TheInSet
    <2> HIDE DEF f, win, sides
    <2>6. CASE g.state \in {"countdown", "forced"}
      <3>1. h = f
        BY <2>3, <2>6 DEF LivesCheckEndGame, CanEndGame
      <3>2. AssertValidPlayerCount(g) = Reset(f)
        BY <2>2, <2>3, <2>6, <3>1
      <3>3. Run(f, Reset(f))
        BY <1>0, <1>5, <2>1, <2>3, ResetRun
      <3> QED
        BY <1>0, <2>3, <3>2, <3>3, RunTransitive
    <2>7. CASE g.state \notin {"countdown", "forced"}
      <3>1. f.state \notin WarmupStates
        BY <1>5, <2>3, <2>7 DEF WarmupStates
      <3>2. h.state \notin {"countdown", "forced"}
        BY <2>1, <2>3, <2>4, <3>1, LivesCheckNames
           DEF SurvivorNamed, EndStates, WarmupStates
      <3>3. Run(f, EndGame(h))
        BY <2>1, <2>3, <2>4, <2>5, <3>1, OneLeft
      <3> QED
        BY <1>0, <2>2, <2>3, <3>2, <3>3, RunTransitive
    <2> QED
      BY <2>6, <2>7
  <1> QED
    BY <1>2, <1>3, <1>4, <1>5

-----------------------------------------------------------------------------
(* The books of a game: its rounds, wins, scores and lives.                *)

\* Nothing is left of those who are gone, and teams count only in team games.
Erased(g) ==
    \A p \in Players : g.status[p] = "absent" => g.wins[p] = 0 /\ g.score[p] = 0

\* Teams have nothing in games that are not theirs.
TeamsOut(g) ==
    ~IsTeamGame => \A t \in Teams : g.wins[t] = 0 /\ g.score[t] = 0

\* A match that is on has a round.
RoundPos(g) == g.state \notin WarmupStates => g.round > 0

\* A level that is completed is over.
Completed(g) == g.action = "completed" => g.gamestate = "intermission"

\* Before a fight everybody but those of free is as at its beginning.
LevelOK(g, free) ==
    /\ g.gamestate = "level"
    /\ g.state = "preround"
    /\ g.action = "nothing"
    => /\ \A x \in Sides : g.score[x] = 0
       /\ \A p \in InGame(g) \ free : g.lives[p] = cvars.lives

\* The rounds that have been played to their end.
RoundsOver(g) == IF g.state \in EndStates THEN g.round ELSE g.round - 1

\* The wins are those of the rounds that are over, unless an action is pending
\* that is in over.
Books(g, over) ==
    /\ IsRoundsGame
    /\ g.gamestate = "level"
    /\ g.state \notin WarmupStates
    /\ g.action \notin over
    => Sum(g.wins, Sides) <= WinsPerRound * RoundsOver(g)

\* The books of a game: who is gone or does not play has nothing, a match has a
\* round, the next fight starts level, and wins are those of rounds that are
\* over.
Fair(g, over, free) ==
    /\ Erased(g) /\ TeamsOut(g) /\ RoundPos(g) /\ Completed(g)
    /\ LevelOK(g, free) /\ Books(g, over)

\* Whoever has not come in has not to be left out.
LEMMA FairFree ==
  ASSUME NEW g, NEW over, NEW free, Fair(g, over, free),
         \A p \in InGame(g) \cap free : g.lives[p] = cvars.lives
  PROVE  Fair(g, over, {})
  BY DEF Fair, LevelOK

\* Fewer books are kept while more actions are pending.
LEMMA FairOver ==
  ASSUME NEW g, NEW over, NEW more, NEW free, Fair(g, over, free),
         g.action \in over => g.action \in more
  PROVE  Fair(g, more, free)
  BY DEF Fair, Books

\* A round ends with as many wins as it may give.
LEMMA RunBooks ==
  ASSUME NEW g \in Games, NEW h, NEW over, Run(g, h), Books(g, over)
  PROVE  Books(h, over)
  <1>1. SUFFICES ASSUME IsRoundsGame, h.gamestate = "level", h.state \notin WarmupStates,
                        h.action \notin over
                 PROVE  Sum(h.wins, Sides) <= WinsPerRound * RoundsOver(h)
    BY DEF Books
  <1>2. h \in Games /\ Flow(g, h, Gain(g)) /\ g.gamestate = "level" /\ g.action \notin over
    BY <1>1 DEF Run, Flow, Kept
  <1>3. CASE /\ h.state = g.state /\ h.round = g.round /\ h.wins = g.wins
    BY <1>1, <1>2, <1>3 DEF Books, RoundsOver
  <1>4. CASE /\ h.state \in EndStates /\ g.state \notin WarmupStates
             /\ h.round = g.round /\ MoreWins(g, h, Gain(g))
    <2> DEFINE a == Sum(g.wins, Sides)
               b == Sum(h.wins, Sides)
               r == g.round
    <2>1. a \in Int /\ b \in Int /\ r \in Nat
      BY <1>2, SumOfWins DEF Games
    <2>2. a <= WinsPerRound * RoundsOver(g) /\ b <= a + Gain(g)
      BY <1>1, <1>2, <1>4 DEF Books, MoreWins
    <2>3. RoundsOver(h) = r
      BY <1>4 DEF RoundsOver
    <2> HIDE DEF a, b, r
    <2>4. CASE g.state \in EndStates
      <3>1. Gain(g) = 0 /\ RoundsOver(g) = r
        BY <2>4 DEF Gain, RoundsOver, EndStates, r
      <3> QED
        BY <2>1, <2>2, <2>3, <3>1, GainType DEF b
    <2>5. CASE g.state \notin EndStates
      <3>1. RoundsOver(g) = r - 1 /\ Gain(g) \in {0, WinsPerRound}
        BY <2>5 DEF Gain, RoundsOver, EndStates, r
      <3>2. b <= WinsPerRound * r
        <4>1. CASE WinsPerRound = 1
          BY <2>1, <2>2, <3>1, <4>1
        <4>2. CASE WinsPerRound = 2
          BY <2>1, <2>2, <3>1, <4>2
        <4> QED
          BY <4>1, <4>2, GainType
      <3> QED
        BY <2>3, <3>2 DEF b
    <2> QED
      BY <2>4, <2>5
  <1> QED
    BY <1>1, <1>2, <1>3, <1>4 DEF Flow

\* The checks keep the books.
LEMMA RunFair ==
  ASSUME NEW g \in Games, NEW h, NEW over, NEW free, Run(g, h), Fair(g, over, free)
  PROVE  Fair(h, over, free)
  <1>0. Flow(g, h, Gain(g)) /\ Kept(g, h) /\ InGame(h) = InGame(g) /\ h \in Games
    BY DEF Run, Flow, Kept, InGame
  <1>1. Erased(h)
    <2>1. \A p \in Players : h.status[p] = "absent" => h.wins[p] = g.wins[p]
      BY <1>0 DEF Flow, WinsToPlayers, InGame, Kept
    <2> QED
      BY <1>0, <2>1 DEF Erased, Fair, Kept
  <1>2. TeamsOut(h)
    BY <1>0 DEF TeamsOut, Fair, Flow, WinsToPlayers, Kept
  <1>3. RoundPos(h)
    BY <1>0 DEF RoundPos, Fair, Flow
  <1>4. Completed(h)
    BY <1>0 DEF Completed, Fair, Kept
  <1>5. LevelOK(h, free)
    <2>1. h.state = "preround" => g.state = "preround"
      BY <1>0 DEF Flow, WarmupStates, EndStates
    <2> QED
      BY <1>0, <2>1 DEF LevelOK, Fair, Kept
  <1>6. Books(h, over)
    BY RunBooks DEF Fair
  <1> QED
    BY <1>1, <1>2, <1>3, <1>4, <1>5, <1>6 DEF Fair

\* What does not concern the books: the times, the queue, who is ready.
SameBooks(g, h) ==
    /\ h.state = g.state /\ h.round = g.round /\ h.winner = g.winner
    /\ h.wins = g.wins /\ Kept(g, h)

LEMMA SameRun ==
  ASSUME NEW g, NEW h \in Games, SameBooks(g, h) PROVE Run(g, h)
  BY DEF SameBooks, Run, Flow, WinsToPlayers, Kept

LEMMA SetReadyRun ==
  ASSUME Settled, NEW g, Sound(g), NEW p \in Players, NEW b \in BOOLEAN
  PROVE  Run(g, SetReady(g, p, b))
  <1> DEFINE ready == IF b THEN g.ready \cup {p} ELSE g.ready \ {p}
             h == [g EXCEPT !.ready = ready]
  <1>0. g \in Games
    BY DEF Sound
  <1>1. ready \in SUBSET Players
    BY DEF Sound, Games
  <1>2. SetReady(g, p, b) = ReadyToggle(h)
    BY DEF SetReady
  <1> HIDE DEF ready
  <1>3. h \in Games
    BY <1>1 DEF Sound, Games
  <1>4. Sound(h) /\ SameBooks(g, h)
    BY <1>3, SameRound DEF SameBooks, Kept, Sound, Games
  <1> HIDE DEF h
  <1>5. Run(g, h) /\ Run(h, ReadyToggle(h))
    BY <1>3, <1>4, SameRun, ReadyToggleRun
  <1> QED
    BY <1>0, <1>2, <1>5, RunTransitive

LEMMA UnreadyRun ==
  ASSUME Settled, NEW g, Sound(g), NEW p \in Players
  PROVE  Run(g, Unready(g, p))
  BY SetReadyRun, RunItself DEF Unready, Sound

\* No fight begins, no match is over without a winner who leads, and no action is
\* ordered or done.
Plays(g, h) ==
    /\ h.action = g.action /\ h.gamestate = g.gamestate
    /\ h.state \in {"preround", "ingame"} => h.state = g.state /\ h.round = g.round
    /\ g.state # "endgame" /\ h.state = "endgame" => Crowned(h)

\* A run goes on with a state or ends it.
LEMMA RunPlays ==
  ASSUME NEW f, NEW g, NEW h, f.state = g.state, f.action = g.action,
         f.gamestate = g.gamestate, f.round = g.round, Run(g, h)
  PROVE  Plays(f, h)
  BY DEF Plays, Run, Flow, Kept, WarmupStates, EndStates

LEMMA StatusFair ==
  ASSUME NEW g, Sound(g), NEW p \in Players, NEW status \in Statuses, status # "absent",
         NEW over, Fair(g, over, {})
  PROVE  LET h == [g EXCEPT !.status[p] = status]
         IN  /\ Fair(h, over, {p})
             /\ status # "playing" => Fair(h, over, {})
             /\ h.state = g.state /\ h.action = g.action /\ h.gamestate = g.gamestate
             /\ h.gamestate = g.gamestate /\ h.round = g.round
  <1> DEFINE h == [g EXCEPT !.status[p] = status]
  <1>1. /\ h.state = g.state /\ h.round = g.round /\ h.wins = g.wins
        /\ h.lives = g.lives /\ h.score = g.score /\ h.action = g.action
        /\ h.gamestate = g.gamestate
        /\ h.status = [g.status EXCEPT ![p] = status]
        /\ g.status \in [Players -> Statuses]
    BY DEF Sound, Games
  <1> HIDE DEF h
  <1>2. InGame(h) \subseteq InGame(g) \cup {p}
    BY <1>1 DEF InGame
  <1>3. status # "playing" => InGame(h) \subseteq InGame(g)
    BY <1>1 DEF InGame
  <1>4. Erased(h)
    BY <1>1 DEF Erased, Fair
  <1>5. TeamsOut(h) /\ RoundPos(h) /\ Completed(h)
    BY <1>1 DEF Fair, TeamsOut, RoundPos, Completed
  <1>6. Books(h, over)
    BY <1>1 DEF Fair, Books, RoundsOver
  <1>7. LevelOK(h, {p}) /\ (status # "playing" => LevelOK(h, {}))
    BY <1>1, <1>2, <1>3 DEF Fair, LevelOK
  <1>8. /\ Fair(h, over, {p}) /\ (status # "playing" => Fair(h, over, {}))
    BY <1>4, <1>5, <1>6, <1>7 DEF Fair
  <1> QED
    BY <1>1, <1>8 DEF h

\* A player who has no wins any more leaves no more of them in the sum.
LEMMA FewerWins ==
  ASSUME NEW g \in Games, NEW h \in Games, NEW p \in Players,
         h.wins = [g.wins EXCEPT ![p] = 0]
  PROVE  Sum(h.wins, Sides) <= Sum(g.wins, Sides)
  <1> DEFINE f == g.wins
             k == h.wins
  <1>1. /\ f \in [Sides -> Nat] /\ p \in Sides /\ k = [f EXCEPT ![p] = 0]
    BY DEF Games, Sides
  <1> HIDE DEF f, k
  <1>2. /\ \A x \in Sides : f[x] \in Int
        /\ \A x \in Sides : k[x] \in Int
        /\ \A x \in Sides \ {p} : f[x] = k[x]
        /\ k[p] = 0 /\ f[p] \in Nat
    BY <1>1
  <1>3. SumFunctionOnSet(k, Sides) = SumFunctionOnSet(f, Sides) - f[p] + k[p]
    <2>1. p \in Sides /\ IsFiniteSet(Sides)
      BY <1>1, FiniteSides
    <2> QED
      BY <1>2, <2>1, SumChanges
  <1>4. SumFunctionOnSet(f, Sides) \in Int
    BY <1>2, FiniteSides, SumIsInt
  <1>5. SumFunctionOnSet(k, Sides) <= SumFunctionOnSet(f, Sides)
    BY <1>2, <1>3, <1>4
  <1> QED
    BY <1>5 DEF Sum, f, k

\* Books with the wins of one player struck out are still right.
LEMMA FewerBooks ==
  ASSUME NEW g \in Games, NEW h \in Games, NEW p \in Players, NEW over, Books(g, over),
         h.wins = [g.wins EXCEPT ![p] = 0], h.state = g.state, h.round = g.round,
         h.action = g.action, h.gamestate = g.gamestate
  PROVE  Books(h, over)
  <1>1. /\ Sum(h.wins, Sides) \in Int /\ Sum(g.wins, Sides) \in Int
        /\ Sum(h.wins, Sides) <= Sum(g.wins, Sides)
    BY SumOfWins, FewerWins
  <1>2. RoundsOver(h) = RoundsOver(g) /\ RoundsOver(g) \in Int
    BY DEF RoundsOver, Games
  <1> DEFINE a == Sum(g.wins, Sides)
             b == Sum(h.wins, Sides)
             c == WinsPerRound * RoundsOver(g)
  <1>3. c \in Int
    BY <1>2, GainType
  <1>4. Books(g, over) <=> (IsRoundsGame /\ g.gamestate = "level"
                            /\ g.state \notin WarmupStates /\ g.action \notin over => a <= c)
    BY DEF Books
  <1>5. Books(h, over) <=> (IsRoundsGame /\ g.gamestate = "level"
                            /\ g.state \notin WarmupStates /\ g.action \notin over => b <= c)
    BY <1>2 DEF Books
  <1> HIDE DEF a, b, c
  <1>6. a <= c => b <= c
    BY <1>1, <1>3 DEF a, b
  <1> QED
    BY <1>4, <1>5, <1>6

\* A player gets fresh scores.
LEMMA ClearFair ==
  ASSUME Settled, NEW g, Sound(g), NEW p \in Players, NEW over, Fair(g, over, {p})
  PROVE  LET h == ClearScores(g, {p}, {p}, TRUE)
         IN  /\ Fair(h, over, {})
             /\ h.state = g.state /\ h.action = g.action /\ h.winner = g.winner
             /\ h.gamestate = g.gamestate /\ h.round = g.round
             /\ h.status = g.status /\ h.wins = [g.wins EXCEPT ![p] = 0]
  <1> DEFINE lives == [q \in Players |-> IF q \in {p} THEN cvars.lives ELSE g.lives[q]]
             score == [x \in Sides |-> IF x \in {p} THEN 0 ELSE g.score[x]]
             wins == [x \in Sides |-> IF TRUE /\ x \in {p} THEN 0 ELSE g.wins[x]]
             h == ClearScores(g, {p}, {p}, TRUE)
  <1>1. h = [g EXCEPT !.lives = lives, !.score = score, !.wins = wins]
    BY DEF ClearScores
  <1>2. g \in Games /\ h \in Games
    BY ClearScoresSound DEF Keeps, Sound
  <1>3. wins = [g.wins EXCEPT ![p] = 0] /\ p \in Sides /\ p \notin Teams
    BY <1>2, SidesAssumption DEF Games, Sides
  <1>4. /\ \A x \in Sides : score[x] = IF x = p THEN 0 ELSE g.score[x]
        /\ \A q \in Players : lives[q] = IF q = p THEN cvars.lives ELSE g.lives[q]
        /\ \A x \in Sides : wins[x] = IF x = p THEN 0 ELSE g.wins[x]
    OBVIOUS
  <1> HIDE DEF lives, score, wins
  <1>5. /\ h.state = g.state /\ h.round = g.round /\ h.wins = wins
        /\ h.lives = lives /\ h.score = score /\ h.action = g.action
        /\ h.gamestate = g.gamestate /\ h.status = g.status /\ h.winner = g.winner
    BY <1>1, <1>2 DEF Games
  <1> HIDE DEF h
  <1>6. InGame(h) = InGame(g)
    BY <1>5 DEF InGame
  <1>7. Erased(h)
    <2>1. \A q \in Players : q \in Sides
      BY DEF Sides
    <2> QED
      BY <1>4, <1>5, <2>1 DEF Erased, Fair
  <1>8. TeamsOut(h)
    <2>1. \A t \in Teams : t \in Sides /\ t # p
      BY <1>3 DEF Sides
    <2> QED
      BY <1>4, <1>5, <2>1 DEF TeamsOut, Fair
  <1>9. RoundPos(h) /\ Completed(h)
    BY <1>5 DEF Fair, RoundPos, Completed
  <1>10. Books(h, over)
    BY <1>2, <1>3, <1>5, FewerBooks DEF Fair
  <1>11. LevelOK(h, {})
    <2>1. \A q \in InGame(g) : q \in Players
      BY DEF InGame
    <2> QED
      BY <1>4, <1>5, <1>6, <2>1 DEF Fair, LevelOK
  <1>12. Fair(h, over, {})
    BY <1>7, <1>8, <1>9, <1>10, <1>11 DEF Fair
  <1> QED
    BY <1>3, <1>5, <1>12 DEF h

\* A match whose winner has just joined has lost his wins; else the winner leads.
LEMMA CrownedBut ==
  ASSUME NEW g \in Games, NEW h, NEW p \in Players, Crowned(g), h.state = g.state,
         h.winner = g.winner, h.status = g.status, h.wins = [g.wins EXCEPT ![p] = 0],
         h.winner.id # p
  PROVE  Crowned(h)
  <1>1. Rivals(h) = Rivals(g)
    BY DEF Rivals, InGame
  <1>2. g.wins \in [Sides -> Nat]
    BY DEF Games
  <1>3. \A x \in Rivals(g) : x \in Sides
    BY FiniteRivals
  <1>4. \A x \in Sides : h.wins[x] \in Nat /\ h.wins[x] <= g.wins[x]
    BY <1>2
  <1>5. g.winner.id \in Sides => h.wins[g.winner.id] = g.wins[g.winner.id]
    BY <1>2
  <1>6. ASSUME g.winner.id \in Sides, NEW x \in Rivals(g),
               g.wins[x] <= g.wins[g.winner.id]
        PROVE  h.wins[x] <= h.wins[g.winner.id]
    <2>1. /\ h.wins[x] \in Nat /\ g.wins[x] \in Nat /\ g.wins[g.winner.id] \in Nat
          /\ h.wins[x] <= g.wins[x]
      BY <1>2, <1>3, <1>4, <1>6
    <2> QED
      BY <1>5, <1>6, <2>1
  <1> QED
    BY <1>1, <1>6 DEF Crowned

\* What joining does to the books.
JoinsFairly(g, h, p, over) ==
    /\ Fair(h, over, {})
    /\ h.action = g.action /\ h.gamestate = g.gamestate
    /\ h.state \in {"preround", "ingame"} => h.state = g.state /\ h.round = g.round
    /\ g.state # "endgame" /\ h.state = "endgame" /\ h.winner.id # p => Crowned(h)

LEMMA JoinFair ==
  ASSUME Settled, NEW g, Sound(g), NEW p \in Players, NEW over, Fair(g, over, {})
  PROVE  JoinsFairly(g, JoinPlayer(g, p), p, over)
  <1> DEFINE joined == [g EXCEPT !.status[p] = "playing"]
             killed == IF g.time > 0 THEN LivesCheckEndGame(joined) ELSE joined
             cleared == ClearScores(killed, {p}, {p}, TRUE)
             h == Unready(cleared, p)
  <1>0. "playing" \in Statuses
    BY DEF Statuses
  <1>1. /\ Sound(joined) /\ joined \in Games /\ Fair(joined, over, {p})
        /\ joined.state = g.state /\ joined.action = g.action
        /\ joined.gamestate = g.gamestate /\ joined.round = g.round
    BY <1>0, StatusSound, StatusFair DEF Sound
  <1> HIDE DEF joined
  <1>2. Run(joined, killed) /\ Sound(killed) /\ killed \in Games
    <2>1. Sound(killed)
      BY <1>1, LivesCheckSound DEF Keeps
    <2> QED
      BY <1>1, <2>1, LivesCheckRun, RunItself DEF Sound
  <1> HIDE DEF killed
  <1>3. Fair(killed, over, {p}) /\ Plays(g, killed)
    BY <1>1, <1>2, RunFair, RunPlays
  <1>4. /\ Fair(cleared, over, {})
        /\ cleared.state = killed.state /\ cleared.action = killed.action
        /\ cleared.gamestate = killed.gamestate /\ cleared.round = killed.round
        /\ cleared.winner = killed.winner /\ cleared.status = killed.status
        /\ cleared.wins = [killed.wins EXCEPT ![p] = 0]
    BY <1>2, <1>3, ClearFair
  <1>5. Sound(cleared) /\ cleared \in Games
    BY <1>2, ClearScoresSound DEF Keeps, Sound
  <1> HIDE DEF cleared
  <1>6. Run(cleared, h)
    BY <1>5, UnreadyRun
  <1> HIDE DEF h
  <1>7. Fair(h, over, {}) /\ Plays(cleared, h)
    BY <1>4, <1>5, <1>6, RunFair, RunPlays
  <1>8. ASSUME g.state # "endgame", h.state = "endgame", h.winner.id # p
        PROVE  Crowned(h)
    <2>1. CASE cleared.state # "endgame"
      BY <1>7, <1>8, <2>1 DEF Plays
    <2>2. CASE cleared.state = "endgame"
      <3>1. Crowned(killed)
        BY <1>3, <1>4, <1>8, <2>2 DEF Plays
      <3>2. CASE /\ h.state = cleared.state /\ h.wins = cleared.wins
                 /\ h.winner = cleared.winner
        <4>1. Crowned(cleared)
          BY <1>2, <1>4, <1>8, <3>1, <3>2, CrownedBut
        <4>2. Rivals(h) = Rivals(cleared)
          BY <1>6 DEF Run, Flow, Kept, Rivals, InGame
        <4> QED
          BY <3>2, <4>1, <4>2 DEF Crowned
      <3> QED
        BY <1>6, <1>8, <2>2, <3>2 DEF Run, Flow, WarmupStates
    <2> QED
      BY <2>1, <2>2
  <1>9. JoinsFairly(g, h, p, over)
    BY <1>1, <1>3, <1>4, <1>7, <1>8 DEF JoinsFairly, Plays
  <1> QED
    BY <1>9 DEF JoinPlayer, h, cleared, killed, joined

LEMMA DelayRun ==
  ASSUME NEW g, Sound(g), NEW p \in Players, NEW n \in Nat
  PROVE  Run(g, [g EXCEPT !.delay[p] = n])
  <1> DEFINE h == [g EXCEPT !.delay[p] = n]
  <1>1. h \in Games /\ SameBooks(g, h)
    BY DEF Sound, Games, SameBooks, Kept
  <1> HIDE DEF h
  <1>2. Run(g, h)
    BY <1>1, SameRun
  <1> QED
    BY <1>2 DEF h

LEMMA SpecFair ==
  ASSUME Settled, NEW g, Sound(g), NEW p \in Players, NEW over, Fair(g, over, {})
  PROVE  Fair(SpecPlayer(g, p), over, {}) /\ Plays(g, SpecPlayer(g, p))
  <1> DEFINE moved == [g EXCEPT !.status[p] = "spectator"]
             unready == Unready(moved, p)
             delayed == [unready EXCEPT !.delay[p] = ReJoinDelay]
             h == AssertValidPlayerCount(delayed)
  <1>0. "spectator" \in Statuses
    BY DEF Statuses
  <1>1. /\ Sound(moved) /\ moved \in Games /\ Fair(moved, over, {})
        /\ moved.state = g.state /\ moved.action = g.action
        /\ moved.gamestate = g.gamestate /\ moved.round = g.round
    BY <1>0, StatusSound, StatusFair DEF Sound
  <1> HIDE DEF moved
  <1>2. Run(moved, unready) /\ Sound(unready) /\ unready \in Games
    BY <1>1, UnreadyRun, UnreadySound DEF Keeps, Sound
  <1> HIDE DEF unready
  <1>3. Run(unready, delayed) /\ Sound(delayed) /\ delayed \in Games
    BY <1>2, DelayRun, DelaySound, BoundsAssumption DEF Keeps, Sound
  <1> HIDE DEF delayed
  <1>4. Run(delayed, h)
    BY <1>3, PlayerCountRun
  <1> HIDE DEF h
  <1>5. Run(moved, h)
    BY <1>1, <1>2, <1>3, <1>4, RunTransitive
  <1>6. Fair(h, over, {}) /\ Plays(g, h)
    BY <1>1, <1>5, RunFair, RunPlays
  <1> QED
    BY <1>6 DEF SpecPlayer, h, delayed, unready, moved

\* A slot is erased with all that was its player's.
LEMMA EraseFair ==
  ASSUME NEW g, Sound(g), NEW p \in Players, NEW over, Fair(g, over, {})
  PROVE  /\ Fair(Erase(g, p), over, {})
         /\ Erase(g, p).state = g.state /\ Erase(g, p).action = g.action
         /\ Erase(g, p).gamestate = g.gamestate /\ Erase(g, p).round = g.round
  <1> DEFINE status == [g.status EXCEPT ![p] = "absent"]
             lives == [g.lives EXCEPT ![p] = 0]
             score == [g.score EXCEPT ![p] = 0]
             wins == [g.wins EXCEPT ![p] = 0]
             h == Erase(g, p)
  <1>0. g \in Games /\ h \in Games /\ p \in Sides
    BY EraseSound DEF Sound, Sides
  <1>1. /\ h.state = g.state /\ h.round = g.round /\ h.action = g.action
        /\ h.gamestate = g.gamestate
    BY DEF Erase, Sound, Games
  <1>2. h.status = status /\ h.lives = lives /\ h.score = score /\ h.wins = wins
    BY DEF Erase, Sound, Games
  <1> HIDE DEF h
  <1>3. /\ \A x \in Sides : score[x] = IF x = p THEN 0 ELSE g.score[x]
        /\ \A x \in Sides : wins[x] = IF x = p THEN 0 ELSE g.wins[x]
        /\ \A q \in Players : lives[q] = IF q = p THEN 0 ELSE g.lives[q]
        /\ \A q \in Players : status[q] = IF q = p THEN "absent" ELSE g.status[q]
    BY <1>0 DEF Games
  <1>4. Books(h, over)
    BY <1>0, <1>1, <1>2, FewerBooks DEF Fair
  <1> HIDE DEF status, lives, score, wins
  <1>5. InGame(h) \subseteq InGame(g) \ {p}
    BY <1>2, <1>3 DEF InGame
  <1>6. Erased(h)
    <2>1. \A q \in Players : q \in Sides
      BY DEF Sides
    <2> QED
      BY <1>2, <1>3, <2>1 DEF Erased, Fair
  <1>7. TeamsOut(h)
    <2>1. \A t \in Teams : t \in Sides /\ t # p
      BY SidesAssumption DEF Sides
    <2> QED
      BY <1>2, <1>3, <2>1 DEF TeamsOut, Fair
  <1>8. RoundPos(h) /\ Completed(h)
    BY <1>1 DEF Fair, RoundPos, Completed
  <1>9. LevelOK(h, {})
    <2>1. \A q \in InGame(h) : q \in Players /\ q \in InGame(g) /\ q # p
      BY <1>5 DEF InGame
    <2> QED
      BY <1>1, <1>2, <1>3, <2>1 DEF Fair, LevelOK
  <1>10. Fair(h, over, {})
    BY <1>4, <1>6, <1>7, <1>8, <1>9 DEF Fair
  <1> QED
    BY <1>1, <1>10 DEF h

\* While a round is played a score may change: a player's who is there, or a
\* team's in a team game.
LEMMA ScoreFair ==
  ASSUME NEW g, Sound(g), g.state = "ingame", NEW side \in Sides, NEW n \in Int,
         side \in Players => g.status[side] # "absent",
         side \in Teams => IsTeamGame,
         NEW over, Fair(g, over, {})
  PROVE  LET h == [g EXCEPT !.score[side] = n]
         IN  /\ h \in Games /\ Fair(h, over, {})
             /\ h.state = g.state /\ h.action = g.action /\ h.status = g.status
             /\ h.gamestate = g.gamestate /\ h.round = g.round
             /\ Keeps(g, h)
  <1> DEFINE score == [g.score EXCEPT ![side] = n]
             h == [g EXCEPT !.score = score]
  <1>1. [g EXCEPT !.score[side] = n] = h /\ g \in Games
    BY DEF Sound, Games
  <1>2. /\ score \in [Sides -> Int]
        /\ \A x \in Sides : score[x] = IF x = side THEN n ELSE g.score[x]
    BY <1>1 DEF Games
  <1> HIDE DEF score
  <1>3. /\ h \in Games /\ h.score = score /\ h.state = g.state /\ h.round = g.round
        /\ h.wins = g.wins /\ h.action = g.action /\ h.gamestate = g.gamestate
        /\ h.status = g.status /\ h.start = g.start
        /\ h.position = g.position /\ h.time = g.time
    BY <1>1, <1>2 DEF Games
  <1> HIDE DEF h
  <1>4. Erased(h)
    <2>1. \A q \in Players : q \in Sides
      BY DEF Sides
    <2> QED
      BY <1>2, <1>3, <2>1 DEF Erased, Fair
  <1>5. TeamsOut(h)
    <2>1. \A t \in Teams : t \in Sides
      BY DEF Sides
    <2> QED
      BY <1>2, <1>3, <2>1 DEF TeamsOut, Fair
  <1>6. RoundPos(h) /\ Completed(h) /\ Books(h, over) /\ LevelOK(h, {})
    BY <1>3 DEF Fair, RoundPos, Completed, Books, RoundsOver, LevelOK
  <1>7. Fair(h, over, {})
    BY <1>4, <1>5, <1>6 DEF Fair
  <1>8. Keeps(g, h)
    BY <1>3, SameRound DEF Keeps, Frame
  <1> QED
    BY <1>1, <1>3, <1>7, <1>8

LEMMA FragsFair ==
  ASSUME NEW g, Sound(g), NEW victim \in Players, NEW killer \in Players \cup {NoOne},
         g.status[victim] # "absent", killer \in Players => g.status[killer] # "absent",
         NEW over, Fair(g, over, {})
  PROVE  LET h == GiveFrags(g, victim, killer)
         IN  /\ Fair(h, over, {})
             /\ h.state = g.state /\ h.action = g.action /\ h.status = g.status
             /\ h.gamestate = g.gamestate /\ h.round = g.round
  <1> DEFINE num == Frag(victim, killer)
             side == Scorer(victim, killer)
             n == g.score[side] + num
  <1>1. num \in {-1, 0, 1}
    BY DEF Frag
  <1>2. CASE num = 0 \/ g.state # "ingame"
    <2>1. GiveFrags(g, victim, killer) = g
      BY <1>2 DEF GiveFrags, CanScoreChange
    <2> QED
      BY <2>1
  <1>3. CASE num # 0 /\ g.state = "ingame"
    <2>1. cvars.gametype \in {"dm", "teamdm"}
      BY <1>3 DEF Frag
    <2>2. NoOne \notin Players /\ Players \cap Teams = {}
      BY SidesAssumption DEF Sides
    <2>3. CASE cvars.gametype = "dm"
      <3>1. side \in Players /\ g.status[side] # "absent" /\ side \in Sides /\ side \notin Teams
        BY <2>2, <2>3 DEF Scorer, Sides
      <3>2. n \in Int
        BY <1>1, <3>1 DEF Sound, Games
      <3>3. GiveFrags(g, victim, killer) = [g EXCEPT !.score[side] = n]
        BY <1>3 DEF GiveFrags, CanScoreChange, Sound, Games
      <3> HIDE DEF side, n
      <3> QED
        BY <1>3, <3>1, <3>2, <3>3, ScoreFair
    <2>4. CASE cvars.gametype = "teamdm"
      <3>1. killer # NoOne
        BY <1>3, <2>4 DEF Frag
      <3>2. side = TeamOf[killer]
        BY <2>4 DEF Scorer
      <3>3. side \in Teams /\ side \in Sides /\ side \notin Players
        BY <2>2, <3>1, <3>2, TeamsAssumption DEF Sides
      <3>4. n \in Int /\ IsTeamGame
        BY <1>1, <2>4, <3>3 DEF Sound, Games, IsTeamGame
      <3>5. GiveFrags(g, victim, killer) = [g EXCEPT !.score[side] = n]
        BY <1>3 DEF GiveFrags, CanScoreChange, Sound, Games
      <3> HIDE DEF side, n
      <3> QED
        BY <1>3, <3>3, <3>4, <3>5, ScoreFair
    <2> QED
      BY <2>1, <2>3, <2>4
  <1> QED
    BY <1>2, <1>3

LEMMA LifeFair ==
  ASSUME NEW g, Sound(g), NEW victim \in Players, NEW over, Fair(g, over, {})
  PROVE  LET h == TakeLife(g, victim)
         IN  /\ Fair(h, over, {}) /\ h.state = g.state /\ h.action = g.action
             /\ h.gamestate = g.gamestate /\ h.round = g.round
  <1> DEFINE h == [g EXCEPT !.lives[victim] = @ - 1]
  <1>1. CASE TakeLife(g, victim) = g
    BY <1>1
  <1>2. CASE g.state = "ingame" /\ TakeLife(g, victim) = h
    <2>1. /\ h.state = g.state /\ h.round = g.round /\ h.wins = g.wins
          /\ h.score = g.score /\ h.action = g.action /\ h.gamestate = g.gamestate
          /\ h.status = g.status
      BY DEF Sound, Games
    <2> HIDE DEF h
    <2>2. Fair(h, over, {})
      BY <1>2, <2>1
         DEF Fair, Erased, TeamsOut, RoundPos, Completed, Books, RoundsOver, LevelOK
    <2> QED
      BY <1>2, <2>1, <2>2
  <1> QED
    BY <1>1, <1>2 DEF TakeLife

LEMMA KillFair ==
  ASSUME Settled, Sound(game),
         NEW victim \in Players, NEW killer \in Players \cup {NoOne},
         game.status[victim] # "absent",
         killer \in Players => game.status[killer] # "absent",
         NEW over, Fair(game, over, {})
  PROVE  /\ Fair(KillPlayer(victim, killer), over, {})
         /\ Plays(game, KillPlayer(victim, killer))
  <1> DEFINE fragged == GiveFrags(game, victim, killer)
             scored == TakeLife(fragged, victim)
             limited == IF killer # NoOne /\ cvars.gametype \in {"dm", "teamdm"}
                        THEN ScoreCheckEndGame(scored)
                        ELSE scored
             h == LivesCheckEndGame(limited)
  <1>1. /\ Sound(fragged) /\ Fair(fragged, over, {})
        /\ fragged.state = game.state /\ fragged.action = game.action
        /\ fragged.gamestate = game.gamestate /\ fragged.round = game.round
    BY GiveFragsSound, FragsFair DEF Keeps
  <1> HIDE DEF fragged
  <1>2. /\ Sound(scored) /\ Fair(scored, over, {})
        /\ scored.state = game.state /\ scored.action = game.action
        /\ scored.gamestate = game.gamestate /\ scored.round = game.round
    BY <1>1, TakeLifeSound, LifeFair DEF Keeps
  <1> HIDE DEF scored
  <1>3. Run(scored, limited) /\ Sound(limited) /\ scored \in Games
    BY <1>2, ScoreCheckRun, ScoreCheckSound, RunItself DEF Keeps, Sound
  <1> HIDE DEF limited
  <1>4. Run(limited, h)
    BY <1>3, LivesCheckRun
  <1> HIDE DEF h
  <1>5. Run(scored, h)
    BY <1>3, <1>4, RunTransitive
  <1>6. Fair(h, over, {}) /\ Plays(game, h)
    BY <1>2, <1>3, <1>5, RunFair, RunPlays
  <1>7. Plays(game, scored)
    BY <1>2, <1>3, RunItself, RunPlays
  <1>8. \/ KillPlayer(victim, killer) = scored
        \/ KillPlayer(victim, killer) = h
    BY DEF KillPlayer, h, limited, scored, fragged
  <1> QED
    BY <1>2, <1>6, <1>7, <1>8

\* Nobody has a score or has lost a life.
Fresh(g) ==
    /\ \A x \in Sides : g.score[x] = 0
    /\ \A p \in InGame(g) : g.lives[p] = cvars.lives

\* A fight that begins, and no reset is pending, begins fresh.
Starts(g, h) ==
    /\ h.gamestate = "level"
    /\ h.state \in {"preround", "ingame"}
    /\ h.action = "nothing"
    /\ g.state # h.state \/ g.action # "nothing"
    => Fresh(h)

\* A run begins no fight ...
LEMMA RunStarts ==
  ASSUME NEW f, NEW g, NEW h, Starts(f, g), Run(g, h) PROVE Starts(f, h)
  <1>1. InGame(h) = InGame(g) /\ Kept(g, h)
    BY DEF Run, Flow, Kept, InGame
  <1>2. h.state \in {"preround", "ingame"} => g.state = h.state
    BY DEF Run, Flow, WarmupStates, EndStates
  <1>3. Fresh(g) => Fresh(h)
    BY <1>1 DEF Fresh, Kept
  <1> QED
    BY <1>1, <1>2, <1>3 DEF Starts, Kept

LEMMA PlaysStarts == ASSUME NEW g, NEW h, Plays(g, h) PROVE Starts(g, h)
  BY DEF Plays, Starts

\* A fight goes on, or its preround is over.
GoesOn(g, h) ==
    /\ h.gamestate = "level" /\ h.action = "nothing" /\ h.state = "ingame"
    => /\ g.gamestate = "level" /\ g.action = "nothing" /\ g.state \in {"preround", "ingame"}
       /\ g.round = h.round

\* ... and no round.
LEMMA RunGoesOn ==
  ASSUME NEW f, NEW g, NEW h, GoesOn(f, g), Run(g, h) PROVE GoesOn(f, h)
  <1>1. Kept(g, h)
    BY DEF Run, Flow, Kept
  <1>2. h.state = "ingame" => g.state = h.state /\ g.round = h.round
    BY DEF Run, Flow, WarmupStates, EndStates
  <1> QED
    BY <1>1, <1>2 DEF GoesOn, Kept

LEMMA PlaysGoesOn == ASSUME NEW g, NEW h, Plays(g, h) PROVE GoesOn(g, h)
  BY DEF Plays, GoesOn

\* In a warmup nothing is promised of rounds and fights.
LEMMA WarmupFair ==
  ASSUME NEW g, NEW h, NEW over, NEW free, Fair(g, over, free), h.state \in WarmupStates,
         h.status = g.status, h.wins = g.wins, h.score = g.score, h.action = g.action,
         h.gamestate = g.gamestate
  PROVE  Fair(h, over, free)
  BY DEF Fair, Erased, TeamsOut, RoundPos, Completed, LevelOK, Books, WarmupStates

\* A level that is completed goes into the intermission.
LEMMA ExitFair ==
  ASSUME NEW g \in Games, NEW over, NEW free, Fair(g, over, free)
  PROVE  /\ Fair(ExitLevel(g), over, free)
         /\ ExitLevel(g).state = g.state /\ ExitLevel(g).action = "completed"
         /\ ExitLevel(g).gamestate = "intermission"
  <1> DEFINE h == ExitLevel(g)
  <1>1. /\ h.state = g.state /\ h.round = g.round /\ h.wins = g.wins
        /\ h.score = g.score /\ h.status = g.status
        /\ h.action = "completed" /\ h.gamestate = "intermission"
    BY DEF ExitLevel, Games
  <1> HIDE DEF h
  <1>2. Fair(h, over, free)
    BY <1>1 DEF Fair, Erased, TeamsOut, RoundPos, Completed, LevelOK, Books
  <1> QED
    BY <1>1, <1>2 DEF h

\* An action other than the last is ordered.
LEMMA OrderFair ==
  ASSUME NEW g \in Games, NEW action \in {"resetlevel", "newgame"},
         NEW over, NEW free, Fair(g, over, free),
         \/ g.action \notin over
         \/ action \in over
         \/ g.gamestate = "intermission"
  PROVE  LET h == [g EXCEPT !.action = action]
         IN  /\ Fair(h, over, free) /\ h.state = g.state /\ h.action = action
             /\ h.wins = g.wins /\ h.round = g.round /\ h.gamestate = g.gamestate
             /\ h.status = g.status /\ h.score = g.score /\ h.lives = g.lives
  <1> DEFINE h == [g EXCEPT !.action = action]
  <1>1. /\ h.state = g.state /\ h.round = g.round /\ h.wins = g.wins
        /\ h.score = g.score /\ h.status = g.status /\ h.lives = g.lives
        /\ h.action = action /\ h.gamestate = g.gamestate
    BY DEF Games
  <1> HIDE DEF h
  <1>2. Fair(h, over, free)
    BY <1>1 DEF Fair, Erased, TeamsOut, RoundPos, Completed, LevelOK, Books, RoundsOver
  <1> QED
    BY <1>1, <1>2 DEF h

\* The actions after which the books begin anew.
Full == {"fullresetlevel"}

\* From the preround into the fight ...
LEMMA FightFair ==
  ASSUME NEW g \in Games, g.state = "preround", Fair(g, Full, {}),
         g.action # "fullresetlevel"
  PROVE  LET h == SetState(IF cvars.preroundreset = 1 THEN DeferedReset(g) ELSE g, "ingame")
         IN  Fair(h, Full, {}) /\ Starts(g, h) /\ GoesOn(g, h) /\ h.state = "ingame"
  <1> DEFINE k == IF cvars.preroundreset = 1 THEN DeferedReset(g) ELSE g
             h == SetState(k, "ingame")
  <1>1. /\ k \in Games /\ Fair(k, Full, {}) /\ k.state = "preround"
        /\ k.action = g.action \/ k.action = "resetlevel"
        /\ k.wins = g.wins /\ k.round = g.round /\ k.gamestate = g.gamestate
        /\ k.status = g.status /\ k.score = g.score /\ k.lives = g.lives
    <2> DEFINE d == DeferedReset(g)
    <2>1. d \in Games
      BY DEF DeferedReset, Games, Actions
    <2>2. /\ Fair(d, Full, {}) /\ d.state = g.state /\ d.action = "resetlevel"
          /\ d.wins = g.wins /\ d.round = g.round /\ d.gamestate = g.gamestate
          /\ d.status = g.status /\ d.score = g.score /\ d.lives = g.lives
      BY OrderFair DEF DeferedReset, Full
    <2>3. k = d \/ k = g
      OBVIOUS
    <2> HIDE DEF d, k
    <2>4. CASE k = d
      BY <2>1, <2>2, <2>4
    <2>5. CASE k = g
      BY <2>5
    <2> QED
      BY <2>3, <2>4, <2>5
  <1> HIDE DEF k
  <1>2. /\ h.state = "ingame" /\ h.wins = k.wins /\ h.lives = k.lives
        /\ h.score = k.score /\ h.status = k.status /\ h.action = k.action
        /\ h.gamestate = k.gamestate /\ h.round = k.round
    BY <1>1, SetStateFields DEF WarmupStates
  <1> HIDE DEF h
  <1>3. Fair(h, Full, {})
    BY <1>1, <1>2 DEF Fair, Erased, TeamsOut, RoundPos, Completed, LevelOK, Books,
                      RoundsOver, EndStates, WarmupStates
  <1>4. Starts(g, h)
    <2>1. SUFFICES ASSUME h.gamestate = "level", h.action = "nothing" PROVE Fresh(h)
      BY DEF Starts
    <2>2. k.action = "nothing" /\ InGame(h) = InGame(k) /\ k.gamestate = "level"
      BY <1>2, <2>1 DEF InGame
    <2> QED
      BY <1>1, <1>2, <2>2 DEF Fair, LevelOK, Fresh
  <1>5. GoesOn(g, h)
    BY <1>1, <1>2 DEF GoesOn
  <1> QED
    BY <1>2, <1>3, <1>4, <1>5 DEF h, k

\* ... and from one round, or a countdown, into the next.
Following(g, action) ==
    SetState([[g EXCEPT !.round = @ + 1] EXCEPT !.action = action], StartOfRoundState)

\* ... from the end of a round or of a countdown into the next round ...
LEMMA NextRoundFair ==
  ASSUME NEW g \in Games, Fair(g, Full, {}), g.action # "fullresetlevel",
         NEW action,
         \/ g.state = "endround" /\ action = "resetlevel"
         \/ g.state \in WarmupStates /\ action = "fullresetlevel"
  PROVE  LET h == Following(g, action)
         IN  /\ Fair(h, Full, {}) /\ Starts(g, h) /\ GoesOn(g, h)
             /\ h.state \in {"preround", "ingame"} /\ h.action = action
  <1> DEFINE n == [[g EXCEPT !.round = @ + 1] EXCEPT !.action = action]
             new == StartOfRoundState
             h == SetState(n, new)
  <1>1. /\ n \in Games /\ n.round = g.round + 1 /\ n.action = action
        /\ n.wins = g.wins /\ n.gamestate = g.gamestate /\ n.status = g.status
        /\ n.score = g.score /\ n.lives = g.lives
    <2>1. g.round + 1 \in Nat /\ action \in Actions
      BY DEF Games, Actions
    <2>2. [g EXCEPT !.round = @ + 1] \in Games
      BY <2>1 DEF Games
    <2> QED
      BY <2>1, <2>2 DEF Games
  <1>2. new \in {"preround", "ingame"} /\ new \notin WarmupStates
    BY StartStateType DEF WarmupStates
  <1> HIDE DEF n, new
  <1>3. /\ h.state = new /\ h.wins = n.wins /\ h.lives = n.lives
        /\ h.score = n.score /\ h.status = n.status /\ h.action = n.action
        /\ h.gamestate = n.gamestate /\ h.round = n.round
    BY <1>1, <1>2, SetStateFields
  <1> HIDE DEF h
  <1>4. Erased(h) /\ TeamsOut(h) /\ Completed(h) /\ LevelOK(h, {})
    BY <1>1, <1>3 DEF Fair, Erased, TeamsOut, Completed, LevelOK
  <1>5. RoundPos(h)
    BY <1>1, <1>3 DEF RoundPos, Games
  <1>6. Books(h, Full)
    <2>1. CASE g.state = "endround"
      <3>0. h.state \notin EndStates /\ h.round = g.round + 1
        BY <1>1, <1>2, <1>3 DEF EndStates
      <3>1. RoundsOver(h) = h.round - 1
        BY <3>0 DEF RoundsOver
      <3>2. RoundsOver(h) = RoundsOver(g)
        <4>1. RoundsOver(g) = g.round
          BY <2>1 DEF RoundsOver, EndStates
        <4>2. g.round \in Nat
          BY DEF Games
        <4> QED
          BY <3>0, <3>1, <4>1, <4>2
      <3>3. g.state \notin WarmupStates /\ g.action \notin Full
        BY <2>1 DEF WarmupStates, Full
      <3> QED
        BY <1>1, <1>3, <3>2, <3>3 DEF Fair, Books
    <2>2. CASE g.state # "endround"
      BY <1>1, <1>3, <2>2 DEF Books, Full
    <2> QED
      BY <2>1, <2>2
  <1>7. Starts(g, h) /\ GoesOn(g, h)
    BY <1>1, <1>3 DEF Starts, GoesOn
  <1>8. Fair(h, Full, {})
    BY <1>4, <1>5, <1>6 DEF Fair
  <1>9. /\ Fair(h, Full, {}) /\ Starts(g, h) /\ GoesOn(g, h)
        /\ h.state \in {"preround", "ingame"} /\ h.action = action
    BY <1>1, <1>2, <1>3, <1>7, <1>8
  <1> QED
    BY <1>9 DEF h, n, new, Following

\* What a tic does to the books.
TicsFairly(g, h) ==
    /\ Fair(h, Full, {}) /\ Starts(g, h) /\ GoesOn(g, h)
    /\ h.state = "endgame" => g.state = "endgame"

LEMMA TicDoneFair ==
  ASSUME NEW g \in Games, Fair(g, Full, {}), g.action # "fullresetlevel",
         g.state \notin {"warmup", "ingame"}
  PROVE  TicsFairly(g, TicDone(g))
  <1>1. CASE g.state = "preround"
    <2> DEFINE h == SetState(IF cvars.preroundreset = 1 THEN DeferedReset(g) ELSE g, "ingame")
    <2>1. TicDone(g) = h
      BY <1>1 DEF TicDone
    <2>2. Fair(h, Full, {}) /\ Starts(g, h) /\ GoesOn(g, h) /\ h.state = "ingame"
      BY <1>1, FightFair
    <2> HIDE DEF h
    <2> QED
      BY <2>1, <2>2 DEF TicsFairly
  <1>2. CASE g.state = "endround"
    <2> DEFINE h == Following(g, "resetlevel")
    <2>1. TicDone(g) = h
      BY <1>2 DEF TicDone, DeferedReset, Following
    <2>2. Fair(h, Full, {}) /\ Starts(g, h) /\ GoesOn(g, h) /\ h.state \in {"preround", "ingame"}
      BY <1>2, NextRoundFair
    <2> HIDE DEF h
    <2> QED
      BY <2>1, <2>2 DEF TicsFairly
  <1>3. CASE g.state = "endgame"
    <2>1. TicDone(g) = ExitLevel(g)
      BY <1>3 DEF TicDone
    <2>2. Fair(ExitLevel(g), Full, {}) /\ ExitLevel(g).state = "endgame"
      BY <1>3, ExitFair
    <2> QED
      BY <1>3, <2>1, <2>2 DEF TicsFairly, Starts, GoesOn
  <1>4. CASE g.state \in {"countdown", "forced"}
    <2> DEFINE h == Following(g, "fullresetlevel")
    <2>1. TicDone(g) = h
      BY <1>4 DEF TicDone, DeferedFullReset, Following
    <2>2. Fair(h, Full, {}) /\ Starts(g, h) /\ GoesOn(g, h) /\ h.state \in {"preround", "ingame"}
      BY <1>4, NextRoundFair DEF WarmupStates
    <2> HIDE DEF h
    <2> QED
      BY <2>1, <2>2 DEF TicsFairly
  <1> QED
    BY <1>1, <1>2, <1>3, <1>4 DEF Games, States, WarmupStates, EndStates

LEMMA TicFair ==
  ASSUME Settled, NEW g, Sound(g), Fair(g, Full, {}), g.action # "fullresetlevel"
  PROVE  TicsFairly(g, Tic(g))
  <1>0. g \in Games /\ "warmup" \in WarmupStates
    BY DEF Sound, WarmupStates
  <1>1. \/ Tic(g) = SetState(g, "warmup")
        \/ Tic(g) = SetState(g, "forced")
        \/ Tic(g) = SetState(g, "countdown")
        \/ Tic(g) = g
        \/ g.state \notin {"warmup", "ingame"} /\ Tic(g) = TicDone(g)
    BY DEF Tic, TicWarmup
  <1>2. ASSUME NEW new \in WarmupStates PROVE TicsFairly(g, SetState(g, new))
    <2>1. Run(g, SetState(g, new))
      BY WarmupRun
    <2>2. SetState(g, new).state \in WarmupStates
      BY <1>0, SetStateFields
    <2> QED
      BY <1>0, <2>1, <2>2, RunFair DEF TicsFairly, Starts, GoesOn, WarmupStates
  <1>3. TicsFairly(g, g)
    BY DEF TicsFairly, Starts, GoesOn, Fair, LevelOK, Fresh
  <1> QED
    BY <1>0, <1>1, <1>2, <1>3, TicDoneFair DEF WarmupStates

\* What a reset of the level, complete or between two rounds, leaves of the books.
LEMMA ResetLevelFair ==
  ASSUME Settled, NEW g, Sound(g), NEW over, NEW more, NEW full \in BOOLEAN, Fair(g, over, {}),
         full \/ g.action \notin over
  PROVE  LET h == ResetLevel(g, full)
         IN  /\ Fair(h, more, {}) /\ Fresh(h)
             /\ h \in Games /\ h.state = g.state /\ h.action = "nothing"
  <1> DEFINE S == Present(g)
             lives == [p \in Players |-> IF p \in S THEN cvars.lives ELSE g.lives[p]]
             score == [x \in Sides |-> IF x \in S \cup Teams THEN 0 ELSE g.score[x]]
             wins == [x \in Sides |-> IF full /\ x \in S \cup Teams THEN 0 ELSE g.wins[x]]
             cleared == ClearScores(g, S, S \cup Teams, full)
             ready == IF full /\ cvars.warmup = 1 THEN {} ELSE cleared.ready
             h == [cleared EXCEPT !.action = "nothing", !.time = 0, !.ready = ready]
  <1>1. cleared = [g EXCEPT !.lives = lives, !.score = score, !.wins = wins]
    BY DEF ClearScores
  <1>2. g \in Games /\ cleared \in Games
    BY ClearScoresSound DEF Keeps, Sound
  <1>3. \A x \in Sides : x \in S \cup Teams \/ (x \in Players /\ g.status[x] = "absent")
    BY DEF Sides, Present
  <1>4. /\ \A x \in Sides : score[x] = 0
        /\ full => \A x \in Sides : wins[x] = 0
    BY <1>3 DEF Fair, Erased
  <1>5. ~full => wins = g.wins
    BY <1>2 DEF Games
  <1>6. \A p \in InGame(g) : lives[p] = cvars.lives
    BY DEF InGame, Present
  <1>7. ResetLevel(g, full) = h
    BY DEF ResetLevel
  <1>8. h \in Games
    BY <1>7, ResetLevelSound DEF Stays, Sound
  <1> HIDE DEF lives, score, wins, S
  <1>9. /\ cleared.lives = lives /\ cleared.score = score /\ cleared.wins = wins
        /\ cleared.state = g.state /\ cleared.round = g.round
        /\ cleared.gamestate = g.gamestate /\ cleared.status = g.status
    BY <1>1, <1>2 DEF Games
  <1> HIDE DEF cleared, ready
  <1>10. /\ h.lives = lives /\ h.score = score /\ h.wins = wins
         /\ h.state = g.state /\ h.round = g.round
         /\ h.gamestate = g.gamestate /\ h.status = g.status /\ h.action = "nothing"
    BY <1>2, <1>9 DEF Games
  <1> HIDE DEF h
  <1>11. InGame(h) = InGame(g)
    BY <1>10 DEF InGame
  <1>12. Fresh(h)
    BY <1>4, <1>6, <1>10, <1>11 DEF Fresh
  <1>13. \A x \in Sides : g.wins[x] = 0 => h.wins[x] = 0
    BY <1>4, <1>5, <1>10
  <1>14. Erased(h) /\ TeamsOut(h)
    <2>1. (\A p \in Players : p \in Sides) /\ (\A t \in Teams : t \in Sides)
      BY DEF Sides
    <2> QED
      BY <1>4, <1>10, <1>13, <2>1 DEF Fair, Erased, TeamsOut
  <1>15. RoundPos(h) /\ Completed(h)
    BY <1>10 DEF Fair, RoundPos, Completed
  <1>16. LevelOK(h, {})
    BY <1>12 DEF LevelOK, Fresh
  <1>17. Books(h, more)
    <2>1. SUFFICES ASSUME IsRoundsGame, h.gamestate = "level", h.state \notin WarmupStates
                   PROVE  Sum(h.wins, Sides) <= WinsPerRound * RoundsOver(h)
      BY DEF Books
    <2>2. RoundsOver(h) = RoundsOver(g) /\ RoundsOver(h) \in Nat
      BY <1>2, <1>10, <1>15, <2>1 DEF RoundsOver, RoundPos, Games
    <2>3. CASE full
      <3> DEFINE w == h.wins
      <3>1. \A x \in Sides : w[x] = 0
        BY <1>4, <1>10, <2>3
      <3> HIDE DEF w
      <3>2. SumFunctionOnSet(w, Sides) = 0
        BY <3>1, FiniteSides, SumZero
      <3>3. Sum(h.wins, Sides) = 0
        BY <3>2 DEF Sum, w
      <3> QED
        BY <2>2, <3>3, GainType
    <2>4. CASE ~full
      BY <1>5, <1>10, <2>1, <2>2, <2>4 DEF Fair, Books
    <2> QED
      BY <2>3, <2>4
  <1>18. Fair(h, more, {})
    BY <1>14, <1>15, <1>16, <1>17 DEF Fair
  <1> QED
    BY <1>7, <1>8, <1>10, <1>12, <1>18

\* Reset goes to a warmup or into the first round.
LEMMA ResetFields ==
  ASSUME NEW g \in Games
  PROVE  LET h == Reset(g)
         IN  /\ h.wins = g.wins /\ h.lives = g.lives /\ h.score = g.score
             /\ h.status = g.status /\ h.action = g.action /\ h.gamestate = g.gamestate
             /\ \/ h.state = "warmup"
                \/ h.state \in {"preround", "ingame"} /\ h.round = 1
  <1> DEFINE first == [g EXCEPT !.round = 1]
             new == StartOfRoundState
             u == SetState(g, "warmup")
             v == SetState(first, new)
  <1>1. first \in Games /\ first.round = 1
        /\ first.wins = g.wins /\ first.lives = g.lives /\ first.score = g.score
        /\ first.status = g.status /\ first.action = g.action
        /\ first.gamestate = g.gamestate
    BY DEF Games
  <1>2. new \in {"preround", "ingame"} /\ new \notin WarmupStates
    BY StartStateType DEF WarmupStates
  <1> HIDE DEF first, new
  <1>3. Reset(g) = [u EXCEPT !.done = 0] \/ Reset(g) = [v EXCEPT !.done = 0]
    BY DEF Reset, first, new
  <1>4. /\ u.state = "warmup" /\ u.wins = g.wins /\ u.lives = g.lives
        /\ u.score = g.score /\ u.status = g.status /\ u.action = g.action
        /\ u.gamestate = g.gamestate
    BY SetStateFields
  <1>5. /\ v.state = new /\ v.round = 1 /\ v.wins = g.wins /\ v.lives = g.lives
        /\ v.score = g.score /\ v.status = g.status /\ v.action = g.action
        /\ v.gamestate = g.gamestate
    BY <1>1, <1>2, SetStateFields
  <1>6. CASE Reset(g) = [u EXCEPT !.done = 0]
    BY <1>4, <1>6 DEF SetState
  <1>7. CASE Reset(g) = [v EXCEPT !.done = 0]
    BY <1>2, <1>5, <1>7 DEF SetState
  <1> QED
    BY <1>3, <1>6, <1>7

\* A game without wins and scores is fair in its warmup and its first round.
LEMMA CleanFair ==
  ASSUME NEW g \in Games, NEW over,
         \A x \in Sides : g.wins[x] = 0 /\ g.score[x] = 0,
         \A p \in InGame(g) : g.lives[p] = cvars.lives,
         g.action = "nothing",
         \/ g.state = "warmup"
         \/ g.state \in {"preround", "ingame"} /\ g.round = 1
  PROVE  Fair(g, over, {}) /\ Fresh(g) /\ g.state # "endgame"
  <1>1. (\A p \in Players : p \in Sides) /\ (\A t \in Teams : t \in Sides)
    BY DEF Sides
  <1>2. Erased(g) /\ TeamsOut(g)
    BY <1>1 DEF Erased, TeamsOut
  <1>3. RoundPos(g) /\ Completed(g) /\ LevelOK(g, {}) /\ Fresh(g)
    BY DEF RoundPos, Completed, LevelOK, Fresh, WarmupStates
  <1>4. Books(g, over)
    <2>1. SUFFICES ASSUME g.state \notin WarmupStates
                   PROVE  Sum(g.wins, Sides) <= WinsPerRound * RoundsOver(g)
      BY DEF Books
    <2>2. RoundsOver(g) = 0
      BY <2>1 DEF RoundsOver, WarmupStates, EndStates
    <2> DEFINE w == g.wins
    <2>3. \A x \in Sides : w[x] = 0
      OBVIOUS
    <2> HIDE DEF w
    <2>4. SumFunctionOnSet(w, Sides) = 0
      BY <2>3, FiniteSides, SumZero
    <2>5. Sum(g.wins, Sides) = 0
      BY <2>4 DEF Sum, w
    <2> QED
      BY <2>2, <2>5, GainType
  <1> QED
    BY <1>2, <1>3, <1>4 DEF Fair

LEMMA LoadLevelFair ==
  ASSUME Settled, NEW g, Sound(g), NEW over, NEW more, Fair(g, over, {}), NEW lobby \in {0, 1}
  PROVE  LET h == LoadLevel(g, lobby)
         IN  /\ Fair(h, more, {}) /\ Fresh(h)
             /\ h \in Games /\ h.state # "endgame" /\ h.action = "nothing"
  <1> DEFINE S == Present(g)
             T == S \cup (IF IsTeamGame THEN Teams ELSE {})
             lives == [p \in Players |-> IF p \in S THEN cvars.lives ELSE g.lives[p]]
             score == [x \in Sides |-> IF x \in T THEN 0 ELSE g.score[x]]
             wins == [x \in Sides |-> IF TRUE /\ x \in T THEN 0 ELSE g.wins[x]]
             cleared == ClearScores(g, S, T, TRUE)
             delay == [p \in Players |-> 0]
             ready == IF cvars.warmup = 1 THEN {} ELSE cleared.ready
             timed == [cleared EXCEPT !.time = 0, !.action = "nothing",
                                      !.gamestate = "level"]
             fresh == [timed EXCEPT !.lobby = lobby, !.delay = delay, !.ready = ready]
             h == Reset(fresh)
  <1>1. cleared = [g EXCEPT !.lives = lives, !.score = score, !.wins = wins]
    BY DEF ClearScores
  <1>2. g \in Games /\ cleared \in Games
    BY ClearScoresSound DEF Keeps, Sound
  <1>3. \A x \in Sides : \/ x \in T
                         \/ x \in Players /\ g.status[x] = "absent"
                         \/ x \in Teams /\ ~IsTeamGame
    BY DEF Sides, Present
  <1>4. \A x \in Sides : score[x] = 0 /\ wins[x] = 0
    BY <1>3 DEF Fair, Erased, TeamsOut
  <1>5. \A p \in InGame(g) : lives[p] = cvars.lives
    BY DEF InGame, Present
  <1>6. LoadLevel(g, lobby) = h
    BY DEF LoadLevel
  <1>7. h \in Games
    BY <1>6, LoadLevelSound DEF Stays, Sound
  <1> HIDE DEF lives, score, wins, S, T
  <1>8. /\ cleared.lives = lives /\ cleared.score = score /\ cleared.wins = wins
        /\ cleared.status = g.status
    BY <1>1, <1>2 DEF Games
  <1>9. ready \in SUBSET Players /\ delay \in [Players -> Nat] /\ "nothing" \in Actions
    BY <1>2 DEF Games, Actions
  <1> HIDE DEF cleared, ready, delay
  <1>10. /\ timed \in Games
         /\ timed.lives = lives /\ timed.score = score /\ timed.wins = wins
         /\ timed.status = g.status /\ timed.action = "nothing"
    BY <1>2, <1>8, <1>9 DEF Games
  <1> HIDE DEF timed
  <1>11. /\ fresh \in Games
         /\ fresh.lives = lives /\ fresh.score = score /\ fresh.wins = wins
         /\ fresh.status = g.status /\ fresh.action = "nothing"
    BY <1>9, <1>10 DEF Games
  <1> HIDE DEF fresh
  <1>12. /\ h.lives = lives /\ h.score = score /\ h.wins = wins
         /\ h.status = g.status /\ h.action = "nothing"
         /\ \/ h.state = "warmup"
            \/ h.state \in {"preround", "ingame"} /\ h.round = 1
    BY <1>11, ResetFields
  <1> HIDE DEF h
  <1>13. InGame(h) = InGame(g)
    BY <1>12 DEF InGame
  <1>14. /\ \A x \in Sides : h.wins[x] = 0 /\ h.score[x] = 0
         /\ \A p \in InGame(h) : h.lives[p] = cvars.lives
    BY <1>4, <1>5, <1>12, <1>13
  <1>15. Fair(h, more, {}) /\ Fresh(h) /\ h.state # "endgame"
    BY <1>7, <1>12, <1>14, CleanFair
  <1> QED
    BY <1>6, <1>7, <1>12, <1>15

\* The clock, the waiting times and the countdown to the next map.
LEMMA HoldTimeRun == ASSUME NEW g, Sound(g) PROVE Run(g, HoldTime(g))
  <1>1. HoldTime(g) \in Games
    BY HoldTimeSound DEF Stays, Sound
  <1>2. SameBooks(g, HoldTime(g))
    BY DEF HoldTime, SameBooks, Kept, Sound, Games
  <1> QED
    BY <1>1, <1>2, SameRun

LEMMA RunDelaysRun == ASSUME NEW g, Sound(g) PROVE Run(g, RunDelays(g))
  <1>1. RunDelays(g) \in Games
    BY RunDelaysSound DEF Keeps, Sound
  <1>2. SameBooks(g, RunDelays(g))
    BY DEF RunDelays, SameBooks, Kept, Sound, Games
  <1> QED
    BY <1>1, <1>2, SameRun

\* A restart ordered by a vote goes through Reset into the warmup's last countdown.
LEMMA VotedRestartFair ==
  ASSUME Settled, NEW g, Sound(g), NEW over, Fair(g, over, {})
  PROVE  LET h == Restart(Reset(g))
         IN  Fair(h, over, {}) /\ Plays(g, h) /\ Sound(h) /\ h \in Games
  <1> DEFINE r == Reset(g)
             h == SetState(r, "forced")
  <1>1. Sound(r) /\ r \in Games /\ "forced" \in WarmupStates /\ g \in Games
    BY ResetSound DEF Keeps, Sound, WarmupStates
  <1>2. /\ r.wins = g.wins /\ r.score = g.score /\ r.status = g.status
        /\ r.action = g.action /\ r.gamestate = g.gamestate
    BY <1>1, ResetFields
  <1> HIDE DEF r
  <1>3. Sound(h) /\ h \in Games
    BY <1>1, RestartSound DEF Restart, Keeps, Sound
  <1>4. /\ h.wins = r.wins /\ h.score = r.score /\ h.status = r.status
        /\ h.action = r.action /\ h.gamestate = r.gamestate /\ h.state = "forced"
    BY <1>1, SetStateFields
  <1> HIDE DEF h
  <1>5. Fair(h, over, {})
    BY <1>1, <1>2, <1>4, WarmupFair
  <1>6. Plays(g, h)
    BY <1>2, <1>4 DEF Plays
  <1> QED
    BY <1>3, <1>5, <1>6 DEF h, r, Restart

-----------------------------------------------------------------------------
(* The invariant and the steps.                                            *)

\* Losers are booted, and the queue is served for the start of a round or a level,
\* at level.time 0.
LosersAtZero ==
    \/ phase = "losers"
    \/ phase = "queue" /\ (queue.test = "start" \/ queue.back = "losers")
    => game.time = 0

\* The members of S have the places 1 to n in the queue, each his own.
Numbered(position, S, n) ==
    Cardinality(S) = n /\ {position[p] : p \in S} = 1 .. n

\* In the middle of the loop those it has passed have the first places.
PlacesOK ==
    IF phase = "queue"
    THEN /\ queue.todo \subseteq Queued
         /\ queue.todo # {}
         /\ queue.place > 0
         /\ Numbered(game.position, Queued \ queue.todo, queue.place - 1)
    ELSE Numbered(game.position, Queued, Cardinality(Queued))

\* The invariant is inductive with the round condition at its heart; that the
\* game is not overfull needs only its type.
IInv ==
    TypeOK /\ RoundOK(game) /\ StartOK(game) /\ NoOverfill /\ LosersAtZero /\ PlacesOK

\* What every step leaves behind when nobody but those of S is in the game.
Leaves(S) ==
    /\ cvars' = cvars
    /\ Sound(game')
    /\ InGame(game') \subseteq S
    /\ phase' \in Phases
    /\ queue' \in Queues
    /\ losers' \in SUBSET Players

\* Nobody has entered, or somebody whom the join test let in; the test for the
\* start of a round, which has no timer, only at level.time 0.
GoodStep ==
    \/ Leaves(InGame(game))
    \/ /\ CanJoinGameStart(game)
       /\ CanJoinGame(game) \/ game.time = 0
       /\ \E p \in Players : Leaves(InGame(game) \cup {p})

\* What a step does to the queue: nothing, or the loop over it starts, or goes on.
\* Losers are booted, and the queue is served after them, at level.time 0.
Queueing ==
    \E g \in Games, test \in {"join", "start"}, leaving \in SUBSET Players,
       back \in Phases \ {"queue"} :
        /\ UpdateQueue(g, test, leaving, back)
        /\ test = "start" \/ back = "losers" => g.time = 0

\* A step that leaves the queue alone, starts the loop over it, or goes on with
\* it.
TidyStep ==
    \/ /\ phase # "queue"
       /\ phase' # "queue"
       /\ game'.position = game.position
       /\ phase' = "losers" => game'.time = 0
    \/ Queueing
    \/ ServeQueue

\* Steps like these keep the types and the limit on players.
LEMMA GoodStepKeepsTypes ==
  ASSUME IInv, GoodStep
  PROVE  (TypeOK /\ RoundOK(game) /\ StartOK(game) /\ NoOverfill)'
  <1>1. IsFiniteSet(InGame(game)) /\ Cardinality(InGame(game)) \in Nat
    <2>1. InGame(game) \subseteq Players
      BY DEF InGame
    <2> QED
      BY <2>1, PlayersAssumption, FS_Subset, FS_CardinalityType
  <1>2. cvars.maxplayers \in Nat
    BY CvarTypes DEF IInv, TypeOK, Settled, Cvars
  <1>3. PICK S : /\ Leaves(S)
                 /\ IsFiniteSet(S)
                 /\ Cardinality(S) <= cvars.maxplayers
    <2>1. CASE Leaves(InGame(game))
      BY <1>1, <2>1 DEF IInv, NoOverfill
    <2>2. CASE /\ CanJoinGameStart(game)
               /\ \E p \in Players : Leaves(InGame(game) \cup {p})
      <3>1. PICK p \in Players : Leaves(InGame(game) \cup {p})
        BY <2>2
      <3>2. Cardinality(InGame(game)) < cvars.maxplayers
        BY <2>2 DEF CanJoinGameStart
      <3>3. /\ IsFiniteSet(InGame(game) \cup {p})
            /\ \/ Cardinality(InGame(game) \cup {p}) = Cardinality(InGame(game))
               \/ Cardinality(InGame(game) \cup {p}) = Cardinality(InGame(game)) + 1
        <4> DEFINE S == InGame(game)
        <4>1. IsFiniteSet(S)
          BY <1>1
        <4> HIDE DEF S
        <4>2. /\ IsFiniteSet(S \cup {p})
              /\ Cardinality(S \cup {p}) =
                    IF p \in S THEN Cardinality(S) ELSE Cardinality(S) + 1
          BY <4>1, FS_AddElement, Zenon
        <4>3. \/ Cardinality(S \cup {p}) = Cardinality(S)
              \/ Cardinality(S \cup {p}) = Cardinality(S) + 1
          BY <4>2, Zenon
        <4> QED
          BY <4>2, <4>3, Zenon DEF S
      <3>4. Cardinality(InGame(game) \cup {p}) \in Nat
        BY <3>3, FS_CardinalityType
      <3> QED
        BY <1>1, <1>2, <3>1, <3>2, <3>3, <3>4
    <2> QED
      BY <2>1, <2>2 DEF GoodStep
  <1>4. /\ Cardinality(InGame(game')) <= Cardinality(S)
        /\ Cardinality(InGame(game')) \in Nat
        /\ Cardinality(S) \in Nat
    BY <1>3, FS_Subset, FS_CardinalityType DEF Leaves
  <1>5. NoOverfill'
    BY <1>2, <1>3, <1>4 DEF NoOverfill, Leaves, InGame
  <1>6. TypeOK'
    BY <1>3 DEF IInv, TypeOK, Leaves, Sound
  <1>7. RoundOK(game)'
    BY <1>3 DEF Leaves, Sound, RoundOK, IsRoundsGame, IsCoopGame, StartOfRoundState
  <1>8. StartOK(game)'
    BY <1>3 DEF Leaves, Sound, StartOK
  <1> QED
    BY <1>5, <1>6, <1>7, <1>8

\* A handler that ends with the next game, or with the loop over the queue.
LEMMA SoundState == ASSUME IInv PROVE Settled /\ Sound(game)
  BY DEF IInv, TypeOK, Settled, Sound

LEMMA SameInGame ==
  ASSUME NEW g, NEW h, h.status = g.status PROVE InGame(h) = InGame(g)
  BY DEF InGame

\* The players in the game after one player's status has changed.
LEMMA InGameAfter ==
  ASSUME NEW g, Sound(g), NEW h, NEW p \in Players, NEW status,
         h.status = [g.status EXCEPT ![p] = status]
  PROVE  /\ InGame(h) \subseteq InGame(g) \cup {p}
         /\ status # "playing" => InGame(h) \subseteq InGame(g)
  BY DEF InGame, Sound, Games

\* A step that only moves the queue and the phase and keeps the players.
LEMMA KeepingStep ==
  ASSUME IInv, cvars' = cvars, Stays(game, game'), queue' \in Queues,
         phase # "queue", phase' \in Phases \ {"queue"}, losers' \in SUBSET Players,
         phase' = "losers" => game'.time = 0
  PROVE  GoodStep /\ TidyStep
  BY SameInGame DEF GoodStep, TidyStep, Leaves, Stays

LEMMA TypesOfTheRest ==
  ASSUME IInv PROVE phase \in Phases /\ queue \in Queues /\ losers \in SUBSET Players
  BY DEF IInv, TypeOK

LEMMA JoiningStep ==
  ASSUME IInv, NEW p \in Players, NEW g, Sound(g), g.status = game.status,
         CanJoinGameStart(game), CanJoinGame(game) \/ game.time = 0,
         game' = JoinPlayer(g, p), cvars' = cvars,
         phase' \in Phases, queue' \in Queues, losers' \in SUBSET Players
  PROVE  GoodStep
  <1>1. Sound(game') /\ game'.status = [game.status EXCEPT ![p] = "playing"]
    BY SoundState, JoinPlayerSound
  <1>2. InGame(game') \subseteq InGame(game) \cup {p}
    BY <1>1, SoundState, InGameAfter
  <1> QED
    BY <1>1, <1>2 DEF GoodStep, Leaves

\* The loop over the queue is started for a game with the same players.
LEMMA QueueStep ==
  ASSUME IInv, NEW g, Sound(g), InGame(g) \subseteq InGame(game),
         NEW test \in {"join", "start"}, NEW leaving \in SUBSET Players,
         NEW back \in Phases \ {"queue"}, test = "start" \/ back = "losers" => g.time = 0,
         UpdateQueue(g, test, leaving, back), cvars' = cvars,
         losers' \in SUBSET Players
  PROVE  GoodStep /\ TidyStep
  <1>1. /\ Sound(game') /\ game'.status = g.status
        /\ phase' \in Phases /\ queue' \in Queues
    BY UpdateQueueSound
  <1>2. GoodStep
    BY <1>1, SameInGame DEF GoodStep, Leaves
  <1>3. Queueing
    BY DEF Queueing, Sound
  <1> QED
    BY <1>2, <1>3 DEF TidyStep

\* A player becomes a spectator, is marked as gone, or is removed.
LEMMA MovedAway ==
  ASSUME NEW g, Sound(g), NEW h, NEW p \in Players, NEW status, status # "playing",
         h.status = [g.status EXCEPT ![p] = status]
  PROVE  InGame(h) \subseteq InGame(g)
  BY InGameAfter

LEMMA SpecPlayerLeaves ==
  ASSUME Settled, NEW g, Sound(g), NEW p \in Players
  PROVE  /\ Sound(SpecPlayer(g, p))
         /\ InGame(SpecPlayer(g, p)) \subseteq InGame(g)
  <1> DEFINE h == SpecPlayer(g, p)
  <1>1. Sound(h) /\ h.status = [g.status EXCEPT ![p] = "spectator"]
    BY SpecPlayerSound
  <1> HIDE DEF h
  <1>2. InGame(h) \subseteq InGame(g)
    BY <1>1, MovedAway
  <1> QED
    BY <1>1, <1>2 DEF h

-----------------------------------------------------------------------------
(* Clients.                                                                *)

LEMMA ConnectStep == ASSUME IInv, NEW p \in Players, Connect(p) PROVE GoodStep /\ TidyStep
  <1> DEFINE g == [game EXCEPT !.status[p] = "spectator"]
  <1>1. /\ Sound(g) /\ g.status = [game.status EXCEPT ![p] = "spectator"]
        /\ g.position = game.position
    BY SoundState, StatusSound DEF Statuses
  <1>2. game' = ClearScores(g, {p}, {p}, TRUE)
    BY DEF Connect
  <1> HIDE DEF g
  <1>3. Keeps(g, game')
    BY <1>1, <1>2, SoundState, ClearScoresSound
  <1>4. InGame(game') \subseteq InGame(game)
    BY <1>1, <1>3, SoundState, MovedAway, SameInGame DEF Keeps, Frame
  <1>5. GoodStep
    BY <1>3, <1>4, TypesOfTheRest DEF Connect, GoodStep, Leaves, Keeps
  <1>6. TidyStep
    BY <1>1, <1>3 DEF Connect, TidyStep, Keeps, Frame
  <1> QED
    BY <1>5, <1>6

LEMMA DisconnectStep == ASSUME IInv, NEW p \in Players, Disconnect(p) PROVE GoodStep /\ TidyStep
  <1> DEFINE gone == [game EXCEPT !.status[p] = "left"]
             g == IF Playing(p) THEN gone ELSE Erase(game, p)
  <1>1. Sound(gone) /\ gone.status = [game.status EXCEPT ![p] = "left"]
    BY SoundState, StatusSound DEF Statuses
  <1>2. /\ Sound(Erase(game, p))
        /\ Erase(game, p).status = [game.status EXCEPT ![p] = "absent"]
    BY SoundState, EraseSound
  <1>3. Sound(g) /\ InGame(g) \subseteq InGame(game)
    BY <1>1, <1>2, SoundState, MovedAway
  <1>4. /\ UpdateQueue(g, "join", {p}, phase)
        /\ phase \in Phases \ {"queue"}
        /\ UNCHANGED <<cvars, losers>>
    BY DEF Disconnect, Phases
  <1>5. phase # "losers" /\ {p} \in SUBSET Players
    BY DEF Disconnect
  <1> HIDE DEF g
  <1> QED
    BY <1>3, <1>4, <1>5, TypesOfTheRest, QueueStep

LEMMA JoinRequestStep == ASSUME IInv, NEW p \in Players, JoinRequest(p) PROVE GoodStep /\ TidyStep
  <1>1. CASE CanJoinGame(game) /\ game' = JoinPlayer(game, p) /\ UNCHANGED <<phase, queue>>
    <2>1. GoodStep
      BY <1>1, SoundState, TypesOfTheRest, JoiningStep DEF JoinRequest, CanJoinGame
    <2>2. game'.position = game.position
      BY <1>1, SoundState, JoinPlayerSound
    <2> QED
      BY <1>1, <2>1, <2>2 DEF JoinRequest, TidyStep
  <1>2. CASE UpdateQueue([game EXCEPT !.position[p] = 255], "join", {}, "packets")
    <2> DEFINE g == [game EXCEPT !.position[p] = 255]
    <2>1. Sound(g) /\ g.status = game.status
      BY SoundState, PositionSound
    <2> HIDE DEF g
    <2>2. InGame(g) \subseteq InGame(game)
      BY <2>1, SameInGame
    <2>3. UpdateQueue(g, "join", {}, "packets") /\ UNCHANGED <<cvars, losers>>
      BY <1>2 DEF JoinRequest, g
    <2>4. {} \in SUBSET Players
      OBVIOUS
    <2> QED
      BY <2>1, <2>2, <2>3, <2>4, TypesOfTheRest, QueueStep DEF Phases
  <1> QED
    BY <1>1, <1>2 DEF JoinRequest

LEMMA SpectateRequestStep ==
  ASSUME IInv, NEW p \in Players, SpectateRequest(p) PROVE GoodStep /\ TidyStep
  <1>1. CASE UpdateQueue(SpecPlayer(game, p), "join", {p}, "packets")
    <2>1. /\ Sound(SpecPlayer(game, p))
          /\ InGame(SpecPlayer(game, p)) \subseteq InGame(game)
      BY SoundState, SpecPlayerLeaves
    <2> QED
      BY <1>1, <2>1, TypesOfTheRest, QueueStep DEF SpectateRequest, Phases
  <1>2. CASE UpdateQueue([game EXCEPT !.delay[p] = ReJoinDelay], "join", {p}, "packets")
    <2> DEFINE g == [game EXCEPT !.delay[p] = ReJoinDelay]
    <2>1. Keeps(game, g)
      BY SoundState, DelaySound, BoundsAssumption
    <2>2. UpdateQueue(g, "join", {p}, "packets") /\ UNCHANGED <<cvars, losers>>
      BY <1>2 DEF SpectateRequest
    <2> HIDE DEF g
    <2>3. Sound(g) /\ InGame(g) \subseteq InGame(game)
      BY <2>1, SameInGame DEF Keeps, Frame
    <2> QED
      BY <2>2, <2>3, TypesOfTheRest, QueueStep DEF Phases
  <1> QED
    BY <1>1, <1>2 DEF SpectateRequest

LEMMA ReadyRequestStep == ASSUME IInv, NEW p \in Players, ReadyRequest(p) PROVE GoodStep /\ TidyStep
  <1>1. (p \notin game.ready) \in BOOLEAN
    OBVIOUS
  <1>2. Keeps(game, game')
    BY <1>1, SoundState, SetReadySound DEF ReadyRequest
  <1> QED
    BY <1>2, KeepsStays, TypesOfTheRest, KeepingStep DEF ReadyRequest, Phases

LEMMA KillStep ==
  ASSUME IInv, NEW p \in Players,
         NEW killer \in InGame(game) \cup Left(game) \cup {NoOne}, Kill(p, killer)
  PROVE  GoodStep /\ TidyStep
  <1>1. killer \in Players \cup {NoOne}
    BY DEF InGame, Left
  <1>2. Keeps(game, game')
    BY <1>1, SoundState, KillPlayerSound DEF Kill
  <1> QED
    BY <1>2, KeepsStays, TypesOfTheRest, KeepingStep DEF Kill, Acting, Phases

LEMMA CaptureStep == ASSUME IInv, NEW p \in Players, Capture(p) PROVE GoodStep /\ TidyStep
  <1> DEFINE score == [game.score EXCEPT ![TeamOf[p]] = @ + 1]
             g == [game EXCEPT !.score = score]
  <1>1. TeamOf[p] \in Sides
    BY TeamsAssumption DEF Sides
  <1>2. score \in [Sides -> Int]
    BY <1>1, SoundState DEF Sound, Games
  <1>3. game' = ScoreCheckEndGame(g)
    BY SoundState DEF Capture, Sound, Games
  <1> HIDE DEF score
  <1>4. g \in Games
    BY <1>2, SoundState DEF Sound, Games
  <1>5. Keeps(game, g)
    BY <1>4, SoundState, SameRound DEF Keeps, Frame, Sound, Games
  <1> HIDE DEF g
  <1>6. Keeps(game, game')
    BY <1>3, <1>5, SoundState, ScoreCheckSound, KeepsTransitive DEF Keeps
  <1> QED
    BY <1>6, KeepsStays, TypesOfTheRest, KeepingStep DEF Capture, Acting, Phases

LEMMA ExitStep == ASSUME IInv, NEW p \in Players, Exit(p) PROVE GoodStep /\ TidyStep
  BY SoundState, ExitLevelSound, KeepsStays, TypesOfTheRest, KeepingStep DEF Exit, Acting, Phases

-----------------------------------------------------------------------------
(* The administrator and the votes.                                        *)

LEMMA InitNewSound ==
  ASSUME NEW g, Sound(g) PROVE Keeps(g, DeferedInitNew(g))
  BY ActionSound DEF DeferedInitNew, Actions

LEMMA ConsoleStep ==
  ASSUME IInv, NEW command \in Commands, Console(command) PROVE GoodStep /\ TidyStep
  <1>1. command \in CommandKinds
    BY ChoicesAssumption
  <1>2. \/ game' = Restart(game)
        \/ game' = ForceStart(game)
        \/ game' = ExitLevel(game)
        \/ game' = DeferedInitNew(game)
    BY <1>1 DEF Console, CommandKinds
  <1>3. Keeps(game, game')
    BY <1>2, SoundState, RestartSound, ForceStartSound, ExitLevelSound, InitNewSound
  <1> QED
    BY <1>3, KeepsStays, TypesOfTheRest, KeepingStep DEF Console, Phases

LEMMA VoteStep == ASSUME IInv, NEW vote \in Votes, VotePasses(vote) PROVE GoodStep /\ TidyStep
  <1>1. CASE vote # "forcespec"
    <2>1. vote \in VoteKinds
      BY ChoicesAssumption
    <2>2. PICK g : /\ game' = RunDelays(g)
                   /\ \/ g = Restart(Reset(game))
                      \/ g = ForceStart(game)
                      \/ g = DeferedInitNew(game)
      BY <1>1, <2>1 DEF VotePasses, VoteKinds
    <2>3. Keeps(game, Restart(Reset(game)))
      BY SoundState, ResetSound, RestartSound, KeepsTransitive DEF Keeps
    <2>4. Keeps(game, g)
      BY <2>2, <2>3, SoundState, ForceStartSound, InitNewSound
    <2>5. Keeps(game, game')
      BY <2>2, <2>4, RunDelaysSound, KeepsTransitive DEF Keeps
    <2> QED
      BY <1>1, <2>5, KeepsStays, TypesOfTheRest, KeepingStep DEF VotePasses, Phases
  <1>2. CASE vote = "forcespec"
    <2>1. PICK p \in InGame(game) :
            UpdateQueue(RunDelays(SpecPlayer(game, p)), "join", {p}, "commands")
      BY <1>2 DEF VotePasses
    <2>2. p \in Players
      BY DEF InGame
    <2> DEFINE s == SpecPlayer(game, p)
    <2>3. Sound(s) /\ InGame(s) \subseteq InGame(game)
      BY <2>2, SoundState, SpecPlayerLeaves
    <2> HIDE DEF s
    <2>4. Sound(RunDelays(s)) /\ InGame(RunDelays(s)) \subseteq InGame(game)
      BY <2>3, RunDelaysSound, SameInGame DEF Keeps, Frame
    <2>5. UpdateQueue(RunDelays(s), "join", {p}, "commands")
      BY <2>1 DEF s
    <2>6. {p} \in SUBSET Players
      BY <2>2
    <2> QED
      BY <2>4, <2>5, <2>6, TypesOfTheRest, QueueStep DEF VotePasses, Phases
  <1> QED
    BY <1>1, <1>2

-----------------------------------------------------------------------------
(* The server's own steps.                                                 *)

LEMMA GameTicsStep == ASSUME IInv, GameTics PROVE GoodStep /\ TidyStep
  <1> DEFINE ticked == IF game.gamestate = "level"
                       THEN TimeCheckEndGame(Tic(HoldTime(game)))
                       ELSE game
  <1>1. Stays(game, ticked)
    <2> DEFINE held == HoldTime(game)
    <2>1. Stays(game, held)
      BY SoundState, HoldTimeSound
    <2> HIDE DEF held
    <2>2. Keeps(held, Tic(held))
      BY <2>1, SoundState, TicSound DEF Stays
    <2>3. Keeps(held, TimeCheckEndGame(Tic(held)))
      BY <2>2, SoundState, TimeCheckSound, KeepsTransitive DEF Keeps
    <2>4. Stays(game, TimeCheckEndGame(Tic(held)))
      BY <2>1, <2>3, KeepsStays, StaysTransitive
    <2> QED
      BY <2>4, SoundState DEF Stays, held
  <1>2. game' = ticked \/ game' = RunDelays(ticked)
    BY DEF GameTics
  <1> HIDE DEF ticked
  <1>3. Stays(game, game')
    BY <1>1, <1>2, RunDelaysSound, KeepsStays, StaysTransitive DEF Stays
  <1>4. phase # "queue" /\ phase' \in Phases \ {"queue", "losers"}
    BY DEF GameTics, Phases
  <1> QED
    BY <1>3, <1>4, TypesOfTheRest, KeepingStep DEF GameTics

LEMMA EndVotesStep == ASSUME IInv, EndVotes PROVE GoodStep /\ TidyStep
  BY SoundState, RunDelaysSound, KeepsStays, TypesOfTheRest, KeepingStep
     DEF EndVotes, Phases

LEMMA DoResetLevelStep == ASSUME IInv, DoResetLevel PROVE GoodStep /\ TidyStep
  <1> DEFINE g == ResetLevel(game, game.action = "fullresetlevel")
  <1>1. (game.action = "fullresetlevel") \in BOOLEAN
    OBVIOUS
  <1>2. Stays(game, g) /\ g.time = 0
    BY <1>1, SoundState, ResetLevelSound
  <1>3. UpdateQueue(g, "start", {}, "world") /\ UNCHANGED <<cvars, losers>>
    BY DEF DoResetLevel
  <1> HIDE DEF g
  <1>4. Sound(g) /\ InGame(g) \subseteq InGame(game)
    BY <1>2, SameInGame DEF Stays
  <1>5. {} \in SUBSET Players
    OBVIOUS
  <1> QED
    BY <1>2, <1>3, <1>4, <1>5, TypesOfTheRest, QueueStep DEF Phases

LEMMA DoCompletedStep == ASSUME IInv, DoCompleted PROVE GoodStep /\ TidyStep
  <1>1. "nothing" \in Actions
    BY DEF Actions
  <1>2. Stays(game, game')
    BY <1>1, SoundState, ActionSound, KeepsStays DEF DoCompleted
  <1> QED
    BY <1>2, TypesOfTheRest, KeepingStep DEF DoCompleted, Phases

LEMMA DoNewGameStep == ASSUME IInv, DoNewGame PROVE GoodStep /\ TidyStep
  <1>1. PICK lobby \in LobbyMaps :
          \/ /\ game' = LoadLevel(game, lobby)
             /\ phase' \in {"world", "losers"}
             /\ queue' = queue
             /\ \/ losers' = losers
                \/ losers' = Losers(LoadLevel(game, lobby), game.winner)
          \/ /\ UpdateQueue(LoadLevel(game, lobby), "start", {}, "world")
             /\ losers' = losers
    BY DEF DoNewGame
  <1>2. lobby \in {0, 1}
    BY ChoicesAssumption
  <1> DEFINE g == LoadLevel(game, lobby)
  <1>3. Stays(game, g) /\ g.time = 0
    BY <1>2, SoundState, LoadLevelSound
  <1>4. Losers(g, game.winner) \in SUBSET Players
    BY DEF Losers, InGame
  <1>5. Sound(g) /\ InGame(g) \subseteq InGame(game)
    BY <1>3, SameInGame DEF Stays
  <1>6. cvars' = cvars /\ phase = "commands" /\ {} \in SUBSET Players
    BY DEF DoNewGame
  <1> HIDE DEF g
  <1>7. CASE UpdateQueue(g, "start", {}, "world") /\ losers' = losers
    BY <1>3, <1>5, <1>6, <1>7, TypesOfTheRest, QueueStep DEF Phases
  <1>8. CASE /\ game' = g
             /\ phase' \in {"world", "losers"}
             /\ queue' = queue
             /\ losers' = losers \/ losers' = Losers(g, game.winner)
    <2>1. phase' \in Phases \ {"queue"} /\ losers' \in SUBSET Players
      BY <1>4, <1>8, TypesOfTheRest DEF Phases
    <2> QED
      BY <1>3, <1>6, <1>8, <2>1, TypesOfTheRest, KeepingStep
  <1> QED
    BY <1>1, <1>7, <1>8 DEF g

LEMMA BootLoserStep == ASSUME IInv, NEW p \in Players, BootLoser(p) PROVE GoodStep /\ TidyStep
  <1> DEFINE s == SpecPlayer(game, p)
             g == [s EXCEPT !.delay[p] = 0]
  <1>1. Sound(s) /\ InGame(s) \subseteq InGame(game)
    BY SoundState, SpecPlayerLeaves
  <1>2. UpdateQueue(g, "join", {p}, "losers") /\ cvars' = cvars /\ losers' \subseteq losers
    BY DEF BootLoser
  <1>3. s.time = 0
    BY SoundState, SpecPlayerSound DEF BootLoser, IInv, LosersAtZero
  <1> HIDE DEF s
  <1>4. Keeps(s, g)
    BY <1>1, DelaySound
  <1> HIDE DEF g
  <1>5. Sound(g) /\ InGame(g) \subseteq InGame(game) /\ g.time = 0
    BY <1>1, <1>3, <1>4, SameInGame DEF Keeps, Frame
  <1>6. losers' \in SUBSET Players /\ {p} \in SUBSET Players
    BY <1>2, TypesOfTheRest
  <1> QED
    BY <1>2, <1>5, <1>6, QueueStep DEF Phases

LEMMA LosersBootedStep == ASSUME IInv, LosersBooted PROVE GoodStep /\ TidyStep
  <1>1. game.time = 0 /\ {} \in SUBSET Players
    BY DEF LosersBooted, IInv, LosersAtZero
  <1> QED
    BY <1>1, SoundState, TypesOfTheRest, QueueStep DEF LosersBooted, Phases

LEMMA ServeQueueStep == ASSUME IInv, ServeQueue PROVE GoodStep /\ TidyStep
  <1>1. PICK p \in queue.todo :
          \/ /\ MayJoin(game, queue.test)
             /\ game' = JoinPlayer([game EXCEPT !.position[p] = 0], p)
             /\ QueueAfter(p, queue.place)
          \/ /\ game' = [game EXCEPT !.position[p] = queue.place]
             /\ QueueAfter(p, queue.place + 1)
    BY DEF ServeQueue
  <1>2. p \in Players /\ queue.place \in Nat /\ queue \in Queues /\ phase \in Phases
    BY TypesOfTheRest DEF Queues
  <1>3. ASSUME NEW n \in Nat, QueueAfter(p, n) PROVE phase' \in Phases /\ queue' \in Queues
    <2>1. Idle \in Queues
      BY DEF Idle, Queues, Phases
    <2>2. [queue EXCEPT !.todo = @ \ {p}, !.place = n] \in Queues
      BY <1>2 DEF Queues
    <2>3. queue.back \in Phases
      BY <1>2 DEF Queues
    <2> QED
      BY <1>2, <1>3, <2>1, <2>2, <2>3 DEF QueueAfter
  <1>4. cvars' = cvars /\ losers' = losers
    BY DEF ServeQueue
  <1>5. CASE /\ MayJoin(game, queue.test)
             /\ game' = JoinPlayer([game EXCEPT !.position[p] = 0], p)
             /\ QueueAfter(p, queue.place)
    <2>1. CanJoinGameStart(game) /\ (CanJoinGame(game) \/ game.time = 0)
      BY <1>2, <1>5 DEF MayJoin, CanJoinGame, ServeQueue, IInv, LosersAtZero, Queues
    <2> DEFINE g == [game EXCEPT !.position[p] = 0]
    <2>2. Sound(g) /\ g.status = game.status
      BY <1>2, SoundState, PositionSound
    <2>3. game' = JoinPlayer(g, p)
      BY <1>5
    <2>4. phase' \in Phases /\ queue' \in Queues
      BY <1>2, <1>3, <1>5
    <2> HIDE DEF g
    <2>5. GoodStep
      BY <1>2, <1>4, <2>1, <2>2, <2>3, <2>4, TypesOfTheRest, JoiningStep
    <2> QED
      BY <2>5 DEF TidyStep
  <1>6. CASE /\ game' = [game EXCEPT !.position[p] = queue.place]
             /\ QueueAfter(p, queue.place + 1)
    <2>1. Sound(game') /\ game'.status = game.status
      BY <1>2, <1>6, SoundState, PositionSound
    <2>2. queue.place + 1 \in Nat
      BY <1>2
    <2>3. phase' \in Phases /\ queue' \in Queues
      BY <1>3, <1>6, <2>2
    <2>4. InGame(game') = InGame(game)
      BY <2>1, SameInGame
    <2>5. GoodStep
      BY <1>4, <2>1, <2>3, <2>4, TypesOfTheRest DEF GoodStep, Leaves
    <2> QED
      BY <2>5 DEF TidyStep
  <1> QED
    BY <1>1, <1>5, <1>6

LEMMA RunWorldStep == ASSUME IInv, RunWorld PROVE GoodStep /\ TidyStep
  BY SoundState, KeepsItself, KeepsStays, TypesOfTheRest, KeepingStep
     DEF RunWorld, Phases

LEMMA RunIntermissionStep == ASSUME IInv, RunIntermission PROVE GoodStep /\ TidyStep
  <1> DEFINE counted == [game EXCEPT !.mapchange = @ - 1]
  <1>1. counted \in Games
    BY SoundState DEF Sound, Games
  <1>2. Keeps(game, counted)
    BY <1>1, SoundState, SameRound DEF Keeps, Frame, Sound, Games
  <1>3. game' = counted \/ game' = DeferedInitNew(counted)
    BY DEF RunIntermission
  <1> HIDE DEF counted
  <1>4. Keeps(game, game')
    BY <1>2, <1>3, InitNewSound, KeepsTransitive DEF Keeps
  <1> QED
    BY <1>4, KeepsStays, TypesOfTheRest, KeepingStep DEF RunIntermission, Phases

LEMMA EndTickerStep == ASSUME IInv, EndTicker PROVE GoodStep /\ TidyStep
  <1>1. game' \in Games
    BY SoundState DEF EndTicker, Sound, Games
  <1>2. Stays(game, game')
    BY <1>1, SoundState, SameRound DEF EndTicker, Stays, Sound, Games
  <1> QED
    BY <1>2, TypesOfTheRest, KeepingStep DEF EndTicker, Phases

LEMMA EndDropsStep == ASSUME IInv, EndDrops PROVE GoodStep /\ TidyStep
  BY SoundState, KeepsItself, KeepsStays, TypesOfTheRest, KeepingStep
     DEF EndDrops, Phases

LEMMA RemoveStep == ASSUME IInv, NEW p \in Players, RemoveDisconnected(p) PROVE GoodStep /\ TidyStep
  <1> DEFINE e == Erase(game, p)
             g == AssertValidPlayerCount(e)
             back == IF Left(game) = {p} THEN "packets" ELSE "cleanup"
  <1>1. Sound(e) /\ InGame(e) \subseteq InGame(game)
    <2>1. Sound(e) /\ e.status = [game.status EXCEPT ![p] = "absent"]
      BY SoundState, EraseSound
    <2> HIDE DEF e
    <2> QED
      BY <2>1, SoundState, MovedAway
  <1>2. UpdateQueue(g, "join", {p}, back) /\ UNCHANGED <<cvars, losers>>
    BY DEF RemoveDisconnected
  <1> HIDE DEF e
  <1>3. Sound(g) /\ InGame(g) \subseteq InGame(game)
    BY <1>1, SoundState, PlayerCountSound, SameInGame DEF Keeps, Frame
  <1>4. back \in Phases \ {"queue", "losers"} /\ {p} \in SUBSET Players
    BY DEF Phases
  <1> HIDE DEF g, back
  <1> QED
    BY <1>2, <1>3, <1>4, TypesOfTheRest, QueueStep

-----------------------------------------------------------------------------
(* The queue.                                                              *)

\* Nobody has no places.
LEMMA NobodyNumbered ==
  ASSUME NEW position, NEW S, S = {}
  PROVE  Cardinality(S) = 0 /\ Numbered(position, S, 0)
  <1>1. Cardinality(S) = 0
    BY FS_EmptySet
  <1> QED
    BY <1>1 DEF Numbered

\* The loop starts with everybody still to come, in whatever order.
LEMMA QueueingTidies ==
  ASSUME IInv, Queueing PROVE LosersAtZero' /\ PlacesOK'
  <1>1. PICK g \in Games, test \in {"join", "start"}, leaving \in SUBSET Players,
             back \in Phases \ {"queue"} :
               /\ UpdateQueue(g, test, leaving, back)
               /\ test = "start" \/ back = "losers" => g.time = 0
    BY DEF Queueing
  <1> DEFINE position == [p \in Players |-> IF p \in leaving THEN 0 ELSE g.position[p]]
             queued == {p \in Players : g.position[p] > 0} \ leaving
  <1>2. game' = [g EXCEPT !.position = position]
    BY <1>1 DEF UpdateQueue
  <1>3. game'.position = position /\ game'.time = g.time
    BY <1>2 DEF Games
  <1>4. Queued' = queued
    BY <1>3 DEF Queued
  <1>5. CASE queued = {} /\ phase' = back /\ queue' = Idle
    <2>1. Cardinality(Queued') = 0 /\ Numbered(game'.position, Queued', 0)
      BY <1>4, <1>5, NobodyNumbered
    <2> QED
      BY <1>1, <1>3, <1>5, <2>1 DEF PlacesOK, LosersAtZero
  <1>6. CASE /\ queued # {}
             /\ phase' = "queue"
             /\ queue' = [todo |-> queued, place |-> 1, test |-> test, back |-> back]
    <2>1. queue'.place - 1 = 0 /\ Queued' \ queue'.todo = {}
      BY <1>4, <1>6
    <2>2. Numbered(game'.position, Queued' \ queue'.todo, queue'.place - 1)
      BY <2>1, NobodyNumbered
    <2> QED
      BY <1>1, <1>3, <1>4, <1>6, <2>2 DEF PlacesOK, LosersAtZero
  <1> QED
    BY <1>1, <1>5, <1>6 DEF UpdateQueue

\* Only the places of those in question count.
LEMMA NumberedByPlaces ==
  ASSUME NEW f, NEW h, NEW S, NEW n, \A p \in S : h[p] = f[p], Numbered(f, S, n)
  PROVE  Numbered(h, S, n)
  BY DEF Numbered

\* The next in the queue gets the next place.
LEMMA NumberedNext ==
  ASSUME NEW f, NEW h, NEW S \in SUBSET Players, NEW n \in Nat, NEW p \in Players \ S,
         \A q \in S : h[q] = f[q], h[p] = n + 1, Numbered(f, S, n)
  PROVE  Numbered(h, S \cup {p}, n + 1)
  <1>1. IsFiniteSet(S)
    BY PlayersAssumption, FS_Subset
  <1>2. Cardinality(S \cup {p}) = n + 1
    BY <1>1, FS_AddElement DEF Numbered
  <1>3. {h[q] : q \in S \cup {p}} = {f[q] : q \in S} \cup {n + 1}
    OBVIOUS
  <1>4. 1 .. (n + 1) = (1 .. n) \cup {n + 1}
    OBVIOUS
  <1> QED
    BY <1>2, <1>3, <1>4 DEF Numbered

LEMMA ServeQueueTidies ==
  ASSUME IInv, ServeQueue PROVE LosersAtZero' /\ PlacesOK'
  <1>1. PICK p \in queue.todo :
          \/ /\ game' = JoinPlayer([game EXCEPT !.position[p] = 0], p)
             /\ QueueAfter(p, queue.place)
          \/ /\ game' = [game EXCEPT !.position[p] = queue.place]
             /\ QueueAfter(p, queue.place + 1)
    BY DEF ServeQueue
  <1> DEFINE done == Queued \ queue.todo
             n == queue.place - 1
  <1>2. /\ phase = "queue" /\ queue \in Queues /\ queue.todo \subseteq Queued
        /\ queue.place > 0 /\ Numbered(game.position, done, n)
        /\ p \in Players /\ p \notin done /\ p \in Queued /\ queue.place \in Nat
    BY TypesOfTheRest DEF ServeQueue, IInv, PlacesOK, Queues, Queued
  <1>3. n \in Nat /\ n + 1 = queue.place /\ done \in SUBSET Players
    BY <1>2 DEF Queued
  <1>4. game.position \in [Players -> Nat] /\ game \in Games
    BY SoundState DEF Sound, Games
  <1>5. ASSUME NEW place, QueueAfter(p, place)
        PROVE  \/ /\ queue.todo = {p} /\ phase' = queue.back /\ phase' # "queue"
                  /\ queue' = Idle
               \/ /\ phase' = "queue" /\ queue'.todo = queue.todo \ {p}
                  /\ queue'.todo # {} /\ queue'.place = place
                  /\ queue'.test = queue.test /\ queue'.back = queue.back
    <2> DEFINE todo == queue.todo \ {p}
               next == [queue EXCEPT !.todo = todo, !.place = place]
    <2>1. queue.back # "queue"
      BY <1>2 DEF Queues
    <2>2. /\ next.todo = todo /\ next.place = place
          /\ next.test = queue.test /\ next.back = queue.back
      BY <1>2 DEF Queues
    <2>3. \/ queue.todo = {p} /\ phase' = queue.back /\ queue' = Idle
          \/ queue.todo # {p} /\ phase' = phase /\ queue' = next
      BY <1>5 DEF QueueAfter
    <2> HIDE DEF next
    <2>4. queue.todo # {p} => todo # {}
      BY <1>1
    <2> QED
      BY <1>2, <2>1, <2>2, <2>3, <2>4
  <1>6. CASE /\ game' = JoinPlayer([game EXCEPT !.position[p] = 0], p)
             /\ QueueAfter(p, queue.place)
    <2> DEFINE g == [game EXCEPT !.position[p] = 0]
    <2>1. Sound(g) /\ g.position = [game.position EXCEPT ![p] = 0] /\ g.time = game.time
      <3>1. Sound(game) /\ p \in Players
        BY <1>2, SoundState
      <3> QED
        BY <3>1, PositionSound
    <2>2. game' = JoinPlayer(g, p)
      BY <1>6
    <2> HIDE DEF g
    <2>3. game'.position = [game.position EXCEPT ![p] = 0] /\ game'.time = game.time
      BY <1>2, <2>1, <2>2, SoundState, JoinPlayerSound
    <2>4. Queued' = Queued \ {p}
      BY <1>2, <1>4, <2>3 DEF Queued
    <2>5. Numbered(game'.position, done, n)
      BY <1>2, <1>3, <1>4, <2>3, NumberedByPlaces DEF Queued
    <2>6. PlacesOK'
      <3>1. CASE queue.todo = {p} /\ phase' # "queue"
        <4>1. Queued' = done
          BY <2>4, <3>1
        <4>2. Cardinality(done) = n
          BY <1>2 DEF Numbered
        <4> HIDE DEF done, n
        <4> QED
          BY <2>5, <3>1, <4>1, <4>2 DEF PlacesOK
      <3>2. CASE /\ phase' = "queue" /\ queue'.todo = queue.todo \ {p}
                 /\ queue'.todo # {} /\ queue'.place = queue.place
        <4>1. Queued' \ queue'.todo = done /\ queue'.todo \subseteq Queued'
          BY <1>2, <2>4, <3>2
        <4> QED
          BY <1>2, <2>5, <3>2, <4>1 DEF PlacesOK
      <3> QED
        BY <1>5, <1>6, <3>1, <3>2
    <2>7. LosersAtZero'
      BY <1>2, <1>5, <1>6, <2>3 DEF IInv, LosersAtZero
    <2> QED
      BY <2>6, <2>7
  <1>7. CASE /\ game' = [game EXCEPT !.position[p] = queue.place]
             /\ QueueAfter(p, queue.place + 1)
    <2>1. /\ game'.position = [game.position EXCEPT ![p] = queue.place]
          /\ game'.time = game.time
      BY <1>2, <1>7, SoundState, PositionSound
    <2>2. Queued' = Queued
      BY <1>2, <1>4, <2>1 DEF Queued
    <2>3. Numbered(game'.position, done \cup {p}, n + 1)
      <3>1. game'.position[p] = n + 1 /\ \A q \in done : game'.position[q] = game.position[q]
        BY <1>2, <1>3, <1>4, <2>1 DEF Queued
      <3> HIDE DEF done, n
      <3> QED
        BY <1>2, <1>3, <3>1, NumberedNext
    <2>4. PlacesOK'
      <3>1. CASE queue.todo = {p} /\ phase' # "queue"
        <4>1. Queued' = done \cup {p}
          BY <1>2, <2>2, <3>1
        <4>2. Cardinality(done \cup {p}) = n + 1
          BY <2>3 DEF Numbered
        <4> HIDE DEF done, n
        <4> QED
          BY <2>3, <3>1, <4>1, <4>2 DEF PlacesOK
      <3>2. CASE /\ phase' = "queue" /\ queue'.todo = queue.todo \ {p}
                 /\ queue'.todo # {} /\ queue'.place = queue.place + 1
        <4>1. /\ Queued' \ queue'.todo = done \cup {p}
              /\ queue'.todo \subseteq Queued'
              /\ queue'.place - 1 = n + 1 /\ queue'.place > 0
          BY <1>2, <1>3, <2>2, <3>2
        <4> HIDE DEF done, n
        <4> QED
          BY <2>3, <3>2, <4>1 DEF PlacesOK
      <3> QED
        BY <1>5, <1>7, <3>1, <3>2
    <2>5. LosersAtZero'
      BY <1>2, <1>5, <1>7, <2>1 DEF IInv, LosersAtZero
    <2> QED
      BY <2>4, <2>5
  <1> QED
    BY <1>1, <1>6, <1>7

LEMMA TidyStepTidies ==
  ASSUME IInv, TidyStep PROVE LosersAtZero' /\ PlacesOK'
  <1>1. CASE /\ phase # "queue"
             /\ phase' # "queue"
             /\ game'.position = game.position
             /\ phase' = "losers" => game'.time = 0
    <2>1. Queued' = Queued
      BY <1>1 DEF Queued
    <2> QED
      BY <1>1, <2>1 DEF IInv, PlacesOK, LosersAtZero
  <1> QED
    BY <1>1, QueueingTidies, ServeQueueTidies DEF TidyStep

LEMMA StepKeepsIInv == ASSUME IInv, GoodStep, TidyStep PROVE IInv'
  BY GoodStepKeepsTypes, TidyStepTidies DEF IInv

-----------------------------------------------------------------------------
(* The books over the steps of the server.                                 *)

\* The phase of the frame the queue is served in.
Stage == IF phase = "queue" THEN queue.back ELSE phase

\* In the commands phase the books wait for a new game that is ordered, too.
Over(stage) == IF stage = "commands" THEN Full \cup {"newgame"} ELSE Full

\* A level whose reset is pending is reset before anything else happens.
Resetting(g, stage) ==
    g.action \in {"resetlevel", "fullresetlevel"} => stage \in {"votes", "commands"}

FairInv == Fair(game, Over(Stage), {}) /\ Resetting(game, Stage)

\* A match that ends has a winner nobody is ahead of, or the player whose joining
\* ends it.
Ends ==
    game.state # "endgame" /\ game'.state = "endgame" =>
        \/ Crowned(game')
        \/ \E p \in Players : (Entered(p) \/ Served(p)) /\ game'.winner.id = p

\* The pending action is done.
ActionDone == phase = "commands" /\ phase' # "commands" /\ game.action # "nothing"

\* What every step does to the books: they stay right, a fight begins level, a
\* round goes on unless the pending action ends it, and a match that ends has a
\* winner.
FairStep ==
    /\ Fair(game', Over(Stage'), {}) /\ Resetting(game', Stage')
    /\ Starts(game, game')
    /\ GoesOn(game, game') \/ ActionDone
    /\ Ends

\* A step that is a fair change of the game followed by a run.
LEMMA RunStep ==
  ASSUME NEW h \in Games, Fair(h, Over(Stage'), {}), Resetting(h, Stage'), Starts(game, h),
         GoesOn(game, h) \/ ActionDone,
         game.state # "endgame" /\ h.state = "endgame" => Crowned(h), Run(h, game')
  PROVE  FairStep
  <1> DEFINE k == game'
  <1>1. Run(h, k)
    OBVIOUS
  <1>2. Ends <=> (game.state # "endgame" /\ k.state = "endgame" =>
                     \/ Crowned(k)
                     \/ \E p \in Players : (Entered(p) \/ Served(p)) /\ game'.winner.id = p)
    BY DEF Ends
  <1>3. FairStep <=> /\ Fair(k, Over(Stage'), {}) /\ Resetting(k, Stage')
                     /\ Starts(game, k)
                     /\ GoesOn(game, k) \/ ActionDone
                     /\ Ends
    BY DEF FairStep
  <1> HIDE DEF k
  <1>4. /\ Fair(k, Over(Stage'), {}) /\ Starts(game, k)
        /\ GoesOn(game, k) \/ ActionDone
    BY <1>1, RunFair, RunStarts, RunGoesOn
  <1>5. Resetting(k, Stage')
    BY <1>1 DEF Resetting, Run, Flow, Kept
  <1>6. ASSUME game.state # "endgame", k.state = "endgame" PROVE Crowned(k)
    <2>1. CASE h.state = "endgame" /\ k.winner = h.winner /\ k.wins = h.wins
      <3>1. Rivals(k) = Rivals(h)
        BY <1>1 DEF Run, Flow, Kept, Rivals, InGame
      <3> QED
        BY <1>6, <2>1, <3>1 DEF Crowned
    <2> QED
      BY <1>1, <1>6, <2>1 DEF Run, Flow, WarmupStates
  <1> QED
    BY <1>2, <1>3, <1>4, <1>5, <1>6

\* What a stage of the frame leaves to the next.
Hands(from, to) ==
    \/ to = from
    \/ from # "commands" /\ (from = "votes" => to = "commands")

\* The books of one stage of the frame are good for the next.
LEMMA HandsOver ==
  ASSUME NEW from, NEW to, Hands(from, to), NEW g, NEW free, Fair(g, Over(from), free)
  PROVE  Fair(g, Over(to), free)
  BY FairOver DEF Hands, Over, Full

\* A step that neither begins a fight nor orders an action.
LEMMA PlaysStep ==
  ASSUME FairInv, NEW h \in Games, Fair(h, Over(Stage), {}), Plays(game, h), Run(h, game'),
         Hands(Stage, Stage')
  PROVE  FairStep
  <1>1. Fair(h, Over(Stage'), {})
    BY HandsOver
  <1>2. Resetting(h, Stage')
    BY DEF FairInv, Resetting, Plays, Hands
  <1>3. Starts(game, h) /\ GoesOn(game, h)
    BY PlaysStarts, PlaysGoesOn
  <1> QED
    BY <1>1, <1>2, <1>3, RunStep DEF Plays

\* A step that only runs the game.
LEMMA CalmStep ==
  ASSUME FairInv, game \in Games, Run(game, game'), Hands(Stage, Stage') PROVE FairStep
  <1>1. Plays(game, game)
    BY RunItself, RunPlays
  <1> QED
    BY <1>1, PlaysStep DEF FairInv

\* The loop over the queue takes nothing but places, and comes back to the stage.
LEMMA QueueRun ==
  ASSUME NEW g, Sound(g), NEW test \in {"join", "start"}, NEW leaving,
         NEW back \in Phases \ {"queue"}, UpdateQueue(g, test, leaving, back)
  PROVE  Run(g, game') /\ Stage' = back
  <1> DEFINE k == game'
  <1>1. k \in Games
    BY UpdateQueueSound DEF Sound
  <1>2. SameBooks(g, k)
    BY DEF UpdateQueue, SameBooks, Kept, Sound, Games
  <1>3. Stage' = back
    BY DEF UpdateQueue, Stage
  <1> HIDE DEF k
  <1>4. Run(g, k)
    BY <1>1, <1>2, SameRun
  <1> QED
    BY <1>3, <1>4 DEF k

\* A player joins from the queue or by himself.
LEMMA JoinStep ==
  ASSUME FairInv, Settled, NEW p \in Players, NEW g, Sound(g), SameBooks(game, g), game \in Games,
         game' = JoinPlayer(g, p), Entered(p) \/ Served(p), Stage' = Stage
  PROVE  FairStep
  <1> DEFINE k == game'
  <1>1. Run(game, g) /\ Fair(g, Over(Stage), {})
    BY SameRun, RunFair DEF FairInv, Sound
  <1>2. k = JoinPlayer(g, p)
    OBVIOUS
  <1>3. Ends <=> (game.state # "endgame" /\ k.state = "endgame" =>
                     \/ Crowned(k)
                     \/ \E q \in Players : (Entered(q) \/ Served(q)) /\ k.winner.id = q)
    BY DEF Ends
  <1>4. FairStep <=> /\ Fair(k, Over(Stage'), {}) /\ Resetting(k, Stage')
                     /\ Starts(game, k)
                     /\ GoesOn(game, k) \/ ActionDone
                     /\ Ends
    BY DEF FairStep
  <1> HIDE DEF k
  <1>5. JoinsFairly(g, k, p, Over(Stage))
    BY <1>1, <1>2, JoinFair
  <1>6. /\ g.state = game.state /\ g.action = game.action
        /\ g.gamestate = game.gamestate /\ g.round = game.round
    BY DEF SameBooks, Kept
  <1>7. Resetting(k, Stage') /\ Starts(game, k) /\ GoesOn(game, k)
    BY <1>5, <1>6 DEF JoinsFairly, FairInv, Resetting, Starts, GoesOn
  <1>8. Ends
    BY <1>3, <1>5, <1>6 DEF JoinsFairly
  <1> QED
    BY <1>4, <1>5, <1>7, <1>8 DEF JoinsFairly

LEMMA FairState ==
  ASSUME IInv, FairInv
  PROVE  Settled /\ Sound(game) /\ game \in Games /\ Fair(game, Over(Stage), {})
  BY SoundState DEF FairInv, Sound

\* A player's status changes, and nobody comes in.
LEMMA ConnectFair ==
  ASSUME IInv, FairInv, NEW p \in Players, Connect(p) PROVE FairStep
  <1> DEFINE g == [game EXCEPT !.status[p] = "spectator"]
             h == ClearScores(g, {p}, {p}, TRUE)
  <1>0. "spectator" \in Statuses /\ game' = h /\ Stage' = Stage
    BY DEF Statuses, Connect, Stage
  <1>1. /\ Sound(g) /\ Fair(g, Over(Stage), {p})
        /\ g.state = game.state /\ g.action = game.action
        /\ g.gamestate = game.gamestate /\ g.round = game.round
    BY <1>0, FairState, StatusSound, StatusFair
  <1> HIDE DEF g
  <1>2. Sound(h) /\ h \in Games
    BY <1>1, FairState, ClearScoresSound DEF Keeps, Sound
  <1>3. /\ Fair(h, Over(Stage), {}) /\ h.state = game.state /\ h.action = game.action
        /\ h.gamestate = game.gamestate /\ h.round = game.round
    BY <1>1, FairState, ClearFair
  <1> HIDE DEF h
  <1>4. Run(h, game') /\ Plays(game, h)
    BY <1>0, <1>2, <1>3, RunItself DEF Plays
  <1> QED
    BY <1>0, <1>2, <1>3, <1>4, PlaysStep DEF Hands

LEMMA DisconnectFair ==
  ASSUME IInv, FairInv, NEW p \in Players, Disconnect(p) PROVE FairStep
  <1> DEFINE gone == [game EXCEPT !.status[p] = "left"]
             g == IF Playing(p) THEN gone ELSE Erase(game, p)
  <1>0. "left" \in Statuses
    BY DEF Statuses
  <1>1. /\ Sound(gone) /\ Fair(gone, Over(Stage), {})
        /\ gone.state = game.state /\ gone.action = game.action
        /\ gone.gamestate = game.gamestate /\ gone.round = game.round
    BY <1>0, FairState, StatusSound, StatusFair
  <1>2. /\ Sound(Erase(game, p)) /\ Fair(Erase(game, p), Over(Stage), {})
        /\ Erase(game, p).state = game.state /\ Erase(game, p).action = game.action
        /\ Erase(game, p).gamestate = game.gamestate /\ Erase(game, p).round = game.round
    BY FairState, EraseSound, EraseFair
  <1>3. /\ UpdateQueue(g, "join", {p}, phase)
        /\ phase \in Phases \ {"queue"} /\ Stage = phase
    BY DEF Disconnect, Phases, Stage
  <1> HIDE DEF gone
  <1>4. /\ Sound(g) /\ g \in Games /\ Fair(g, Over(Stage), {})
        /\ g.state = game.state /\ g.action = game.action
        /\ g.gamestate = game.gamestate /\ g.round = game.round
    BY <1>1, <1>2 DEF Sound
  <1> HIDE DEF g
  <1>5. Run(g, game') /\ Stage' = phase
    BY <1>3, <1>4, QueueRun
  <1>6. Plays(game, g)
    BY <1>4 DEF Plays
  <1> QED
    BY <1>3, <1>4, <1>5, <1>6, PlaysStep DEF Hands

LEMMA JoinRequestFair ==
  ASSUME IInv, FairInv, NEW p \in Players, JoinRequest(p) PROVE FairStep
  <1>1. CASE game' = JoinPlayer(game, p) /\ UNCHANGED <<phase, queue>>
    <2>1. Entered(p)
      <3>1. game'.status = [game.status EXCEPT ![p] = "playing"]
        BY <1>1, FairState, JoinPlayerSound
      <3>2. game.status[p] = "spectator" /\ game.status \in [Players -> Statuses]
        BY FairState DEF JoinRequest, Spectating, Games
      <3> QED
        BY <3>1, <3>2 DEF Entered
    <2>2. SameBooks(game, game) /\ Stage' = Stage
      BY <1>1 DEF SameBooks, Kept, Stage
    <2> QED
      BY <1>1, <2>1, <2>2, FairState, JoinStep
  <1>2. CASE UpdateQueue([game EXCEPT !.position[p] = 255], "join", {}, "packets")
    <2> DEFINE g == [game EXCEPT !.position[p] = 255]
    <2>1. Sound(g) /\ g \in Games
      BY FairState, PositionSound DEF Sound
    <2>2. SameBooks(game, g)
      BY FairState DEF SameBooks, Kept, Games
    <2>3. UpdateQueue(g, "join", {}, "packets") /\ Stage = "packets"
      BY <1>2 DEF JoinRequest, Stage
    <2> HIDE DEF g
    <2>4. Run(game, g) /\ Run(g, game') /\ Stage' = "packets"
      BY <2>1, <2>2, <2>3, SameRun, QueueRun DEF Phases
    <2>5. Run(game, game') /\ Hands(Stage, Stage')
      BY <2>1, <2>3, <2>4, FairState, RunTransitive DEF Hands
    <2> QED
      BY <2>5, FairState, CalmStep
  <1> QED
    BY <1>1, <1>2 DEF JoinRequest

LEMMA SpectateRequestFair ==
  ASSUME IInv, FairInv, NEW p \in Players, SpectateRequest(p) PROVE FairStep
  <1>0. Stage = "packets"
    BY DEF SpectateRequest, Stage
  <1>1. CASE UpdateQueue(SpecPlayer(game, p), "join", {p}, "packets")
    <2> DEFINE g == SpecPlayer(game, p)
    <2>1. /\ Sound(g) /\ g \in Games /\ Fair(g, Over(Stage), {}) /\ Plays(game, g)
      BY FairState, SpecPlayerLeaves, SpecFair DEF Sound
    <2> HIDE DEF g
    <2>2. Run(g, game') /\ Stage' = "packets"
      BY <1>1, <2>1, QueueRun DEF Phases, g
    <2> QED
      BY <1>0, <2>1, <2>2, PlaysStep DEF Hands
  <1>2. CASE UpdateQueue([game EXCEPT !.delay[p] = ReJoinDelay], "join", {p}, "packets")
    <2> DEFINE g == [game EXCEPT !.delay[p] = ReJoinDelay]
    <2>1. Sound(g) /\ g \in Games /\ Run(game, g)
      BY FairState, DelaySound, DelayRun, BoundsAssumption DEF Keeps, Sound
    <2>2. UpdateQueue(g, "join", {p}, "packets")
      BY <1>2
    <2> HIDE DEF g
    <2>3. Run(g, game') /\ Stage' = "packets"
      BY <2>1, <2>2, QueueRun DEF Phases
    <2>4. Run(game, game') /\ Hands(Stage, Stage')
      BY <1>0, <2>1, <2>3, FairState, RunTransitive DEF Hands
    <2> QED
      BY <2>4, FairState, CalmStep
  <1> QED
    BY <1>1, <1>2 DEF SpectateRequest

LEMMA ReadyRequestFair ==
  ASSUME IInv, FairInv, NEW p \in Players, ReadyRequest(p) PROVE FairStep
  <1>1. (p \notin game.ready) \in BOOLEAN
    OBVIOUS
  <1>2. Run(game, game') /\ Stage' = Stage
    BY <1>1, FairState, SetReadyRun DEF ReadyRequest, Stage
  <1> QED
    BY <1>2, FairState, CalmStep DEF Hands

LEMMA KillFairly ==
  ASSUME IInv, FairInv, NEW p \in Players,
         NEW killer \in InGame(game) \cup Left(game) \cup {NoOne}, Kill(p, killer)
  PROVE  FairStep
  <1>1. /\ killer \in Players \cup {NoOne} /\ game.status[p] # "absent"
        /\ killer \in Players => game.status[killer] # "absent"
    BY SidesAssumption DEF InGame, Left, Kill, Acting, Sides
  <1> DEFINE h == KillPlayer(p, killer)
  <1>2. Fair(h, Over(Stage), {}) /\ Plays(game, h)
    BY <1>1, FairState, KillFair
  <1>3. h \in Games
    BY <1>1, FairState, KillPlayerSound DEF Keeps, Sound
  <1>4. game' = h /\ Stage' = Stage
    BY DEF Kill, Stage
  <1> HIDE DEF h
  <1>5. Run(h, game')
    BY <1>3, <1>4, RunItself
  <1> QED
    BY <1>2, <1>3, <1>4, <1>5, PlaysStep DEF Hands

LEMMA CaptureFair ==
  ASSUME IInv, FairInv, NEW p \in Players, Capture(p) PROVE FairStep
  <1> DEFINE side == TeamOf[p]
             n == game.score[side] + 1
             h == [game EXCEPT !.score[side] = n]
  <1>1. side \in Sides /\ side \in Teams /\ side \notin Players
    BY TeamsAssumption, SidesAssumption DEF Sides
  <1>2. n \in Int /\ game.state = "ingame" /\ IsTeamGame
    BY <1>1, FairState DEF Games, Capture, CanScoreChange, IsTeamGame
  <1>3. game' = ScoreCheckEndGame(h) /\ Stage' = Stage
    BY FairState DEF Capture, Games, Stage
  <1> HIDE DEF n, side
  <1>4. /\ h \in Games /\ Fair(h, Over(Stage), {})
        /\ h.state = game.state /\ h.action = game.action /\ Sound(h)
        /\ h.gamestate = game.gamestate /\ h.round = game.round
    BY <1>1, <1>2, FairState, ScoreFair DEF Keeps
  <1> HIDE DEF h
  <1>5. Run(h, game') /\ Plays(game, h)
    BY <1>3, <1>4, FairState, ScoreCheckRun DEF Plays
  <1> QED
    BY <1>3, <1>4, <1>5, PlaysStep DEF Hands

\* A level that is completed goes on when the intermission is over.
LEMMA ExitStepFair ==
  ASSUME IInv, FairInv, game' = ExitLevel(game), Stage' = Stage PROVE FairStep
  <1> DEFINE h == ExitLevel(game)
  <1>1. h \in Games /\ game' = h
    BY FairState, ExitLevelSound DEF Keeps, Sound
  <1>2. /\ Fair(h, Over(Stage), {}) /\ h.state = game.state /\ h.action = "completed"
    BY FairState, ExitFair
  <1> HIDE DEF h
  <1>3. Starts(game, h) /\ GoesOn(game, h) /\ Resetting(h, Stage') /\ Run(h, game')
    BY <1>1, <1>2, RunItself DEF Starts, GoesOn, Resetting
  <1> QED
    BY <1>1, <1>2, <1>3, RunStep

\* A new game is ordered: the books are closed in the commands phase, or no
\* complete reset is pending.
LEMMA NewGameFair ==
  ASSUME NEW g \in Games, Sound(g), NEW over, Fair(g, over, {}),
         g.action \notin over \/ "newgame" \in over \/ g.gamestate = "intermission"
  PROVE  LET h == DeferedInitNew(g)
         IN  /\ h \in Games /\ Sound(h) /\ Fair(h, over, {})
             /\ h.state = g.state /\ h.action = "newgame"
  <1>1. DeferedInitNew(g) \in Games /\ Sound(DeferedInitNew(g))
    BY InitNewSound DEF Keeps, Sound
  <1> QED
    BY <1>1, OrderFair DEF DeferedInitNew

LEMMA ExitLevelFair ==
  ASSUME IInv, FairInv, NEW p \in Players, Exit(p) PROVE FairStep
  BY ExitStepFair DEF Exit, Stage

LEMMA ConsoleFair ==
  ASSUME IInv, FairInv, NEW command \in Commands, Console(command) PROVE FairStep
  <1>0. Stage = "packets" /\ Stage' = "packets" /\ command \in CommandKinds
    BY ChoicesAssumption DEF Console, Stage
  <1>1. CASE game' = Restart(game) \/ game' = ForceStart(game)
    <2>1. Run(game, game')
      BY <1>1, FairState, RestartRun, ForceStartRun
    <2> QED
      BY <1>0, <2>1, FairState, CalmStep DEF Hands
  <1>2. CASE game' = ExitLevel(game)
    BY <1>0, <1>2, ExitStepFair
  <1>3. CASE game' = DeferedInitNew(game)
    <2> DEFINE h == DeferedInitNew(game)
    <2>1. game.action \notin Over(Stage)
      BY <1>0 DEF FairInv, Resetting, Over, Full
    <2>2. /\ h \in Games /\ Fair(h, Over(Stage), {})
          /\ h.state = game.state /\ h.action = "newgame"
      BY <2>1, FairState, NewGameFair
    <2>3. game' = h
      BY <1>3
    <2> HIDE DEF h
    <2>4. Starts(game, h) /\ GoesOn(game, h) /\ Resetting(h, Stage') /\ Run(h, game')
      BY <2>2, <2>3, RunItself DEF Starts, GoesOn, Resetting
    <2> QED
      BY <1>0, <2>2, <2>4, RunStep
  <1> QED
    BY <1>0, <1>1, <1>2, <1>3 DEF Console, CommandKinds

LEMMA VoteFair ==
  ASSUME IInv, FairInv, NEW vote \in Votes, VotePasses(vote) PROVE FairStep
  <1>0. Stage = "votes" /\ Over(Stage) = Full
    BY DEF VotePasses, Stage, Over
  <1>1. ASSUME NEW g, Sound(g), Fair(g, Over(Stage), {}), Plays(game, g), game' = RunDelays(g),
               phase' = "commands"
        PROVE  FairStep
    <2>1. g \in Games /\ Run(g, game')
      BY <1>1, RunDelaysRun DEF Sound
    <2>2. Hands(Stage, Stage')
      BY <1>0, <1>1 DEF Hands, Stage
    <2> QED
      BY <1>1, <2>1, <2>2, PlaysStep
  <1>2. CASE game' = RunDelays(Restart(Reset(game))) /\ phase' = "commands"
    <2> DEFINE g == Restart(Reset(game))
    <2>1. Sound(g) /\ Fair(g, Over(Stage), {}) /\ Plays(game, g)
      BY FairState, VotedRestartFair
    <2> HIDE DEF g
    <2> QED
      BY <1>1, <1>2, <2>1 DEF g
  <1>3. CASE game' = RunDelays(ForceStart(game)) /\ phase' = "commands"
    <2> DEFINE g == ForceStart(game)
    <2>1. Sound(g) /\ Run(game, g)
      BY FairState, ForceStartSound, ForceStartRun DEF Keeps
    <2> HIDE DEF g
    <2>2. Fair(g, Over(Stage), {}) /\ Plays(game, g)
      BY <2>1, FairState, RunFair, RunPlays
    <2> QED
      BY <1>1, <1>3, <2>1, <2>2 DEF g
  <1>4. CASE game' = RunDelays(DeferedInitNew(game)) /\ phase' = "commands"
    <2> DEFINE g == DeferedInitNew(game)
    <2>1. Fair(game, Over("commands"), {}) /\ "newgame" \in Over("commands")
      BY <1>0, FairState, HandsOver DEF Hands, Over
    <2>2. /\ g \in Games /\ Sound(g) /\ Fair(g, Over("commands"), {})
          /\ g.state = game.state /\ g.action = "newgame"
      BY <2>1, FairState, NewGameFair
    <2> HIDE DEF g
    <2>3. Run(g, game') /\ Stage' = "commands"
      BY <1>4, <2>2, RunDelaysRun DEF Stage, g
    <2>4. Starts(game, g) /\ GoesOn(game, g) /\ Resetting(g, Stage')
      BY <2>2 DEF Starts, GoesOn, Resetting
    <2> QED
      BY <2>2, <2>3, <2>4, RunStep
  <1>5. CASE vote = "forcespec"
    <2>1. PICK p \in InGame(game) :
            UpdateQueue(RunDelays(SpecPlayer(game, p)), "join", {p}, "commands")
      BY <1>5 DEF VotePasses
    <2>2. p \in Players
      BY DEF InGame
    <2> DEFINE s == SpecPlayer(game, p)
               d == RunDelays(s)
    <2>3. Sound(s) /\ s \in Games /\ Fair(s, Over(Stage), {}) /\ Plays(game, s)
      BY <2>2, FairState, SpecPlayerLeaves, SpecFair DEF Sound
    <2>4. UpdateQueue(d, "join", {p}, "commands")
      BY <2>1
    <2> HIDE DEF s
    <2>5. Sound(d) /\ d \in Games /\ Run(s, d)
      BY <2>3, RunDelaysSound, RunDelaysRun DEF Keeps, Sound
    <2> HIDE DEF d
    <2>6. Run(d, game') /\ Stage' = "commands"
      BY <2>4, <2>5, QueueRun DEF Phases
    <2>7. Run(s, game') /\ Hands(Stage, Stage')
      BY <1>0, <2>3, <2>5, <2>6, RunTransitive DEF Hands
    <2> QED
      BY <2>3, <2>7, PlaysStep
  <1> QED
    <2>1. vote \in VoteKinds
      BY ChoicesAssumption
    <2> QED
      BY <1>2, <1>3, <1>4, <1>5, <2>1 DEF VotePasses, VoteKinds

LEMMA GameTicsFair == ASSUME IInv, FairInv, GameTics PROVE FairStep
  <1> DEFINE stage == IF game.gamestate = "level" /\ Votes # {} THEN "votes" ELSE "commands"
  <1>0. Stage = "packets" /\ Stage' = stage
    BY DEF GameTics, Stage
  <1>1. CASE game.gamestate # "level"
    <2>1. game' = RunDelays(game)
      BY <1>1 DEF GameTics
    <2>2. Run(game, game')
      BY <2>1, FairState, RunDelaysRun
    <2> QED
      BY <1>0, <2>2, FairState, CalmStep DEF Hands
  <1>2. CASE game.gamestate = "level"
    <2> DEFINE held == HoldTime(game)
               t == Tic(held)
               c == TimeCheckEndGame(t)
    <2>1. Sound(held) /\ held \in Games /\ Run(game, held)
      BY FairState, HoldTimeSound, HoldTimeRun DEF Stays, Sound
    <2>2. /\ held.state = game.state /\ held.action = game.action
          /\ held.gamestate = game.gamestate /\ held.round = game.round
      BY DEF HoldTime
    <2>3. game' = c \/ game' = RunDelays(c)
      BY <1>2 DEF GameTics
    <2> HIDE DEF held
    <2>4. Fair(held, Full, {}) /\ held.action # "fullresetlevel"
      BY <1>0, <2>1, <2>2, FairState, RunFair DEF Over, FairInv, Resetting
    <2>5. Sound(t) /\ t \in Games /\ TicsFairly(held, t)
      BY <2>1, <2>4, FairState, TicSound, TicFair DEF Keeps, Sound
    <2> HIDE DEF t
    <2>6. Sound(c) /\ Run(t, c)
      BY <2>5, FairState, TimeCheckSound, TimeCheckRun DEF Keeps
    <2> HIDE DEF c
    <2>7. Run(t, game')
      <3>1. Run(c, RunDelays(c))
        BY <2>6, RunDelaysRun
      <3>2. Run(t, RunDelays(c))
        BY <2>5, <2>6, <3>1, RunTransitive DEF Sound
      <3> QED
        BY <2>3, <2>6, <3>2
    <2>8. Fair(t, Over(Stage'), {})
      BY <2>5, FairOver DEF TicsFairly, Over, Full
    <2>9. /\ Starts(game, t) /\ (t.state = "endgame" => game.state = "endgame")
          /\ GoesOn(game, t)
      BY <2>2, <2>5 DEF TicsFairly, Starts, GoesOn
    <2>10. Resetting(t, Stage')
      BY <1>0 DEF Resetting
    <2> QED
      BY <2>5, <2>7, <2>8, <2>9, <2>10, RunStep
  <1> QED
    BY <1>1, <1>2

LEMMA EndVotesFair == ASSUME IInv, FairInv, EndVotes PROVE FairStep
  <1>1. Run(game, game') /\ Hands(Stage, Stage')
    BY FairState, RunDelaysRun DEF EndVotes, Hands, Stage
  <1> QED
    BY <1>1, FairState, CalmStep

\* A game whose action has been done, as the rest of the frame finds it.
LEMMA DoneStep ==
  ASSUME IInv, FairInv, NEW g, Sound(g), \A more : Fair(g, more, {}), Fresh(g),
         g.action = "nothing", g.state = "endgame" => game.state = "endgame", Run(g, game'),
         ActionDone
  PROVE  FairStep
  <1>1. g \in Games /\ Fair(g, Over(Stage'), {}) /\ Resetting(g, Stage')
    BY DEF Sound, Resetting
  <1>2. Starts(game, g)
    BY DEF Starts
  <1> QED
    BY <1>1, <1>2, RunStep

LEMMA DoResetLevelFair == ASSUME IInv, FairInv, DoResetLevel PROVE FairStep
  <1> DEFINE full == game.action = "fullresetlevel"
             g == ResetLevel(game, full)
  <1>0. full \in BOOLEAN /\ (full \/ game.action \notin Over(Stage))
    BY DEF DoResetLevel, Over, Full
  <1>1. UpdateQueue(g, "start", {}, "world")
    BY DEF DoResetLevel
  <1> HIDE DEF full
  <1>2. ASSUME NEW more PROVE Fair(g, more, {})
    BY <1>0, FairState, ResetLevelFair
  <1>3. Sound(g) /\ Fresh(g) /\ g.state = game.state /\ g.action = "nothing"
    BY <1>0, FairState, ResetLevelSound, ResetLevelFair DEF Stays
  <1> HIDE DEF g
  <1>4. Run(g, game')
    BY <1>1, <1>3, QueueRun DEF Phases
  <1>5. ActionDone
    BY <1>1 DEF DoResetLevel, UpdateQueue, ActionDone
  <1> QED
    BY <1>2, <1>3, <1>4, <1>5, DoneStep

LEMMA DoCompletedFair == ASSUME IInv, FairInv, DoCompleted PROVE FairStep
  <1> DEFINE h == [game EXCEPT !.action = "nothing"]
  <1>1. /\ h \in Games
        /\ h.state = game.state /\ h.round = game.round /\ h.wins = game.wins
        /\ h.score = game.score /\ h.status = game.status
        /\ h.action = "nothing" /\ h.gamestate = game.gamestate
    BY FairState DEF Games, Actions
  <1>2. game.gamestate = "intermission" /\ game' = h
    BY FairState DEF DoCompleted, Fair, Completed
  <1> HIDE DEF h
  <1>3. Fair(h, Over(Stage'), {})
    BY <1>1, <1>2, FairState
       DEF Fair, Erased, TeamsOut, RoundPos, Completed, LevelOK, Books
  <1>4. Starts(game, h) /\ GoesOn(game, h) /\ Resetting(h, Stage') /\ Run(h, game')
    BY <1>1, <1>2, RunItself DEF Starts, GoesOn, Resetting
  <1> QED
    BY <1>1, <1>3, <1>4, RunStep

LEMMA DoNewGameFair == ASSUME IInv, FairInv, DoNewGame PROVE FairStep
  <1>1. PICK lobby \in LobbyMaps :
          \/ game' = LoadLevel(game, lobby)
          \/ UpdateQueue(LoadLevel(game, lobby), "start", {}, "world")
    BY DEF DoNewGame
  <1>2. lobby \in {0, 1}
    BY ChoicesAssumption
  <1> DEFINE g == LoadLevel(game, lobby)
  <1>3. ASSUME NEW more PROVE Fair(g, more, {})
    BY <1>2, FairState, LoadLevelFair
  <1>4. Sound(g) /\ g \in Games /\ Fresh(g) /\ g.state # "endgame" /\ g.action = "nothing"
    BY <1>2, FairState, LoadLevelSound, LoadLevelFair DEF Stays
  <1>5. game' = g \/ UpdateQueue(g, "start", {}, "world")
    BY <1>1
  <1> HIDE DEF g
  <1>6. Run(g, game')
    BY <1>4, <1>5, QueueRun, RunItself DEF Phases
  <1>7. ActionDone
    BY DEF DoNewGame, UpdateQueue, ActionDone
  <1> QED
    BY <1>3, <1>4, <1>6, <1>7, DoneStep

LEMMA BootLoserFair ==
  ASSUME IInv, FairInv, NEW p \in Players, BootLoser(p) PROVE FairStep
  <1> DEFINE s == SpecPlayer(game, p)
             g == [s EXCEPT !.delay[p] = 0]
  <1>0. UpdateQueue(g, "join", {p}, "losers") /\ Stage = "losers"
    BY DEF BootLoser, Stage
  <1>1. Sound(s) /\ s \in Games /\ Fair(s, Over(Stage), {}) /\ Plays(game, s)
    BY FairState, SpecPlayerLeaves, SpecFair DEF Sound
  <1> HIDE DEF s
  <1>2. Sound(g) /\ g \in Games /\ Run(s, g)
    BY <1>1, DelaySound, DelayRun DEF Keeps, Sound
  <1> HIDE DEF g
  <1>3. Run(g, game') /\ Stage' = "losers"
    BY <1>0, <1>2, QueueRun DEF Phases
  <1>4. Run(s, game') /\ Hands(Stage, Stage')
    BY <1>0, <1>1, <1>2, <1>3, RunTransitive DEF Hands
  <1> QED
    BY <1>1, <1>4, PlaysStep

LEMMA LosersBootedFair == ASSUME IInv, FairInv, LosersBooted PROVE FairStep
  <1>0. UpdateQueue(game, "start", {}, "world") /\ Stage = "losers"
    BY DEF LosersBooted, Stage
  <1>1. Run(game, game') /\ Hands(Stage, Stage')
    BY <1>0, FairState, QueueRun DEF Phases, Hands
  <1> QED
    BY <1>1, FairState, CalmStep

LEMMA ServeQueueFair == ASSUME IInv, FairInv, ServeQueue PROVE FairStep
  <1>0. phase = "queue"
    BY DEF ServeQueue
  <1>1. PICK p \in queue.todo :
          \/ /\ game' = JoinPlayer([game EXCEPT !.position[p] = 0], p)
             /\ QueueAfter(p, queue.place)
          \/ /\ game' = [game EXCEPT !.position[p] = queue.place]
             /\ QueueAfter(p, queue.place + 1)
    BY DEF ServeQueue
  <1>2. /\ queue \in Queues /\ queue.place \in Nat /\ queue.back # "queue"
        /\ p \in Players /\ game.position[p] > 0
    BY <1>0, <1>1, TypesOfTheRest DEF Queues, IInv, PlacesOK, Queued
  <1>3. ASSUME NEW n, QueueAfter(p, n) PROVE Stage' = Stage
    BY <1>0, <1>2, <1>3 DEF QueueAfter, Stage, Queues
  <1>4. CASE /\ game' = JoinPlayer([game EXCEPT !.position[p] = 0], p)
             /\ QueueAfter(p, queue.place)
    <2> DEFINE g == [game EXCEPT !.position[p] = 0]
    <2>1. Sound(g) /\ g.position = [game.position EXCEPT ![p] = 0]
      BY <1>2, FairState, PositionSound
    <2>2. SameBooks(game, g)
      BY FairState DEF SameBooks, Kept, Games
    <2>3. game' = JoinPlayer(g, p) /\ Stage' = Stage
      BY <1>3, <1>4
    <2> HIDE DEF g
    <2>4. game'.position = g.position /\ game.position \in [Players -> Nat]
      BY <1>2, <2>1, <2>3, FairState, JoinPlayerSound DEF Games
    <2>5. Served(p)
      BY <1>0, <1>2, <2>1, <2>4 DEF Served
    <2> QED
      BY <1>2, <2>1, <2>2, <2>3, <2>5, FairState, JoinStep
  <1>5. CASE /\ game' = [game EXCEPT !.position[p] = queue.place]
             /\ QueueAfter(p, queue.place + 1)
    <2> DEFINE g == [game EXCEPT !.position[p] = queue.place]
    <2>1. Sound(g) /\ g \in Games
      BY <1>2, FairState, PositionSound DEF Sound
    <2>2. SameBooks(game, g) /\ game' = g /\ Stage' = Stage
      BY <1>3, <1>5, FairState DEF SameBooks, Kept, Games
    <2> HIDE DEF g
    <2>3. Run(game, game')
      BY <2>1, <2>2, SameRun
    <2> QED
      BY <2>2, <2>3, FairState, CalmStep DEF Hands
  <1> QED
    BY <1>1, <1>4, <1>5

\* No action is pending when the thinkers run.
LEMMA RunWorldFair == ASSUME IInv, FairInv, RunWorld PROVE FairStep
  <1>1. Stage' = "world" /\ game' = game /\ game.action = "nothing"
    BY DEF RunWorld, Stage
  <1>2. Fair(game, Over(Stage'), {})
    BY <1>1, FairState, FairOver DEF Over, Full
  <1>3. Starts(game, game) /\ GoesOn(game, game) /\ Resetting(game, Stage') /\ Run(game, game')
    BY <1>1, FairState, RunItself DEF Starts, GoesOn, Resetting
  <1> QED
    BY <1>2, <1>3, FairState, RunStep

LEMMA RunIntermissionFair == ASSUME IInv, FairInv, RunIntermission PROVE FairStep
  <1> DEFINE counted == [game EXCEPT !.mapchange = @ - 1]
  <1>0. /\ Stage' = "drops" /\ game.action = "nothing"
        /\ game.gamestate = "intermission"
    BY DEF RunIntermission, Stage
  <1>1. counted \in Games /\ SameBooks(game, counted)
    BY FairState DEF Games, SameBooks, Kept
  <1>2. /\ Sound(counted) /\ counted.state = game.state /\ counted.action = game.action
        /\ counted.gamestate = game.gamestate /\ counted.round = game.round
    BY <1>1, FairState, SameRound DEF Sound, SameBooks, Kept, Games
  <1>3. game' = counted \/ game' = DeferedInitNew(counted)
    BY DEF RunIntermission
  <1> HIDE DEF counted
  <1>4. Fair(counted, Over(Stage'), {}) /\ counted.gamestate = "intermission"
    <2>1. Fair(game, Over(Stage'), {})
      BY <1>0, FairState, FairOver DEF Over, Full
    <2> QED
      BY <1>0, <1>1, <2>1, FairState, SameRun, RunFair DEF SameBooks, Kept
  <1>5. CASE game' = counted
    <2>1. Starts(game, counted) /\ GoesOn(game, counted) /\ Resetting(counted, Stage') /\ Run(counted, game')
      BY <1>0, <1>1, <1>2, <1>4, <1>5, RunItself DEF Starts, GoesOn, Resetting
    <2> QED
      BY <1>1, <1>2, <1>4, <2>1, RunStep
  <1>6. CASE game' = DeferedInitNew(counted)
    <2> DEFINE h == DeferedInitNew(counted)
    <2>1. /\ h \in Games /\ Fair(h, Over(Stage'), {})
          /\ h.state = game.state /\ h.action = "newgame"
      BY <1>1, <1>2, <1>4, NewGameFair
    <2>2. game' = h
      BY <1>6
    <2> HIDE DEF h
    <2>3. Starts(game, h) /\ GoesOn(game, h) /\ Resetting(h, Stage') /\ Run(h, game')
      BY <2>1, <2>2, RunItself DEF Starts, GoesOn, Resetting
    <2> QED
      BY <2>1, <2>3, RunStep
  <1> QED
    BY <1>3, <1>5, <1>6

LEMMA EndTickerFair == ASSUME IInv, FairInv, EndTicker PROVE FairStep
  <1> DEFINE h == [game EXCEPT !.time = @ + 1]
  <1>1. h \in Games /\ SameBooks(game, h)
    BY FairState DEF Games, SameBooks, Kept
  <1>2. game' = h /\ Hands(Stage, Stage')
    BY DEF EndTicker, Hands, Stage
  <1> HIDE DEF h
  <1>3. Run(game, game')
    BY <1>1, <1>2, SameRun
  <1> QED
    BY <1>2, <1>3, FairState, CalmStep

LEMMA EndDropsFair == ASSUME IInv, FairInv, EndDrops PROVE FairStep
  <1>1. Run(game, game') /\ Hands(Stage, Stage')
    BY FairState, RunItself DEF EndDrops, Hands, Stage
  <1> QED
    BY <1>1, FairState, CalmStep

LEMMA RemoveFair ==
  ASSUME IInv, FairInv, NEW p \in Players, RemoveDisconnected(p) PROVE FairStep
  <1> DEFINE e == Erase(game, p)
             g == AssertValidPlayerCount(e)
             back == IF Left(game) = {p} THEN "packets" ELSE "cleanup"
  <1>0. /\ UpdateQueue(g, "join", {p}, back) /\ Stage = "cleanup"
        /\ back \in Phases \ {"queue"} /\ back \in {"packets", "cleanup"}
    BY DEF RemoveDisconnected, Stage, Phases
  <1> HIDE DEF back
  <1>1. /\ Sound(e) /\ e \in Games /\ Fair(e, Over(Stage), {})
        /\ e.state = game.state /\ e.action = game.action
        /\ e.gamestate = game.gamestate /\ e.round = game.round
    BY FairState, EraseSound, EraseFair DEF Sound
  <1> HIDE DEF e
  <1>2. Sound(g) /\ g \in Games /\ Run(e, g)
    BY <1>1, FairState, PlayerCountSound, PlayerCountRun DEF Keeps, Sound
  <1> HIDE DEF g
  <1>3. Run(g, game') /\ Stage' = back
    BY <1>0, <1>2, QueueRun
  <1>4. Run(e, game') /\ Hands(Stage, Stage') /\ Plays(game, e)
    BY <1>0, <1>1, <1>2, <1>3, RunTransitive DEF Hands, Plays
  <1> QED
    BY <1>1, <1>4, PlaysStep

LEMMA NextFair == ASSUME IInv, FairInv, Next PROVE FairStep
  <1>1. CASE Server
    BY <1>1, GameTicsFair, EndVotesFair, DoResetLevelFair, DoCompletedFair, DoNewGameFair,
       BootLoserFair, LosersBootedFair, ServeQueueFair, RunWorldFair, RunIntermissionFair,
       EndTickerFair, EndDropsFair, RemoveFair
       DEF Server
  <1>2. CASE Clients
    BY <1>2, ConnectFair, DisconnectFair, JoinRequestFair, SpectateRequestFair,
       ReadyRequestFair, KillFairly, CaptureFair, ExitLevelFair
       DEF Clients
  <1>3. CASE Operators
    BY <1>3, ConsoleFair, VoteFair DEF Operators
  <1> QED
    BY <1>1, <1>2, <1>3 DEF Next

-----------------------------------------------------------------------------
(* The theorems.                                                           *)

LEMMA InitIInv == ASSUME Init PROVE IInv
  <1>1. PICK lobby \in LobbyMaps : game = Reset(Empty(lobby))
    BY DEF Init
  <1>2. lobby \in {0, 1} /\ Settled
    BY ChoicesAssumption DEF Init, Settled
  <1> DEFINE e == Empty(lobby)
  <1>3. /\ Sound(e) /\ e.status = [p \in Players |-> "absent"]
        /\ e.position = [p \in Players |-> 0]
    <2>1. e \in Games
      BY <1>2 DEF Empty, Games, States, WarmupStates, WinInfo, NoWinner, WinTypes,
                  Actions, Statuses
    <2> QED
      BY <1>2, <2>1, CvarTypes DEF Sound, RoundOK, StartOK, Empty, WarmupStates, Cvars
  <1> HIDE DEF e
  <1>4. Keeps(e, game)
    BY <1>1, <1>2, <1>3, ResetSound DEF e
  <1>5. InGame(game) = {}
    BY <1>3, <1>4 DEF Keeps, Frame, InGame
  <1>6. NoOverfill
    BY <1>2, <1>5, CvarTypes, FS_EmptySet DEF NoOverfill, Cvars
  <1>7. TypeOK
    BY <1>4 DEF Init, Keeps, Sound, TypeOK, Phases, Queues, Idle
  <1>8. PlacesOK
    <2>1. Queued = {}
      BY <1>3, <1>4 DEF Keeps, Frame, Queued
    <2>2. Cardinality(Queued) = 0 /\ Numbered(game.position, Queued, 0)
      BY <2>1, NobodyNumbered
    <2> QED
      BY <2>2 DEF Init, PlacesOK
  <1>9. LosersAtZero
    BY DEF Init, LosersAtZero
  <1> QED
    BY <1>4, <1>6, <1>7, <1>8, <1>9 DEF IInv, Keeps, Sound

LEMMA NextStep == ASSUME IInv, Next PROVE GoodStep /\ TidyStep
  <1>1. CASE Server
    BY <1>1, GameTicsStep, EndVotesStep, DoResetLevelStep,
       DoCompletedStep, DoNewGameStep, BootLoserStep, LosersBootedStep, ServeQueueStep,
       RunWorldStep, RunIntermissionStep, EndTickerStep, EndDropsStep, RemoveStep
       DEF Server
  <1>2. CASE Clients
    BY <1>2, ConnectStep, DisconnectStep, JoinRequestStep,
       SpectateRequestStep, ReadyRequestStep, KillStep, CaptureStep, ExitStep
       DEF Clients
  <1>3. CASE Operators
    BY <1>3, ConsoleStep, VoteStep DEF Operators
  <1> QED
    BY <1>1, <1>2, <1>3 DEF Next

LEMMA NextIInv == ASSUME IInv, [Next]_vars PROVE IInv'
  <1>1. CASE UNCHANGED vars
    BY <1>1 DEF vars, IInv, TypeOK, RoundOK, StartOK, NoOverfill, InGame, IsRoundsGame,
                IsCoopGame, StartOfRoundState, LosersAtZero, PlacesOK, Queued
  <1> QED
    BY <1>1, NextStep, StepKeepsIInv

LEMMA Invariance == Spec => []IInv
  BY InitIInv, NextIInv, PTL DEF Spec

LEMMA InitFair == ASSUME Init PROVE FairInv
  <1>1. PICK lobby \in LobbyMaps : game = Reset(Empty(lobby))
    BY DEF Init
  <1> DEFINE e == Empty(lobby)
  <1>2. /\ e \in Games /\ e.action = "nothing" /\ InGame(e) = {}
        /\ \A x \in Sides : e.wins[x] = 0 /\ e.score[x] = 0
    <2>1. lobby \in {0, 1}
      BY ChoicesAssumption
    <2> QED
      BY <2>1 DEF Empty, Games, States, WarmupStates, WinInfo, NoWinner, WinTypes,
                  Actions, Statuses, InGame
  <1>3. game = Reset(e) /\ game \in Games
    BY <1>1, InitIInv, SoundState DEF Sound
  <1> HIDE DEF e
  <1>4. /\ game.wins = e.wins /\ game.score = e.score /\ game.action = "nothing"
        /\ game.status = e.status
        /\ \/ game.state = "warmup"
           \/ game.state \in {"preround", "ingame"} /\ game.round = 1
    BY <1>2, <1>3, ResetFields
  <1>5. InGame(game) = {}
    BY <1>2, <1>4 DEF InGame
  <1>6. Fair(game, Over(Stage), {})
    BY <1>2, <1>3, <1>4, <1>5, CleanFair
  <1> QED
    BY <1>4, <1>6 DEF FairInv, Resetting

LEMMA FairAfter == ASSUME cvars' = cvars, FairStep PROVE FairInv'
  <1>1. /\ (WinsPerRound)' = WinsPerRound /\ IsRoundsGame' = IsRoundsGame
        /\ IsTeamGame' = IsTeamGame
    BY DEF WinsPerRound, IsRoundsGame, IsTeamGame, IsSidesGame, IsCoopGame
  <1>2. Fair(game', Over(Stage'), {}) <=> Fair(game, Over(Stage), {})'
    BY <1>1 DEF Fair, Erased, TeamsOut, RoundPos, Completed, LevelOK, Books, RoundsOver,
                InGame, Over, Full
  <1> QED
    BY <1>2 DEF FairStep, FairInv, Resetting

LEMMA NextFairInv == ASSUME IInv, FairInv, [Next]_vars PROVE FairInv'
  <1>1. CASE UNCHANGED vars
    <2>1. Fair(game, Over(Stage), {}) => Fair(game, Over(Stage), {})'
      BY <1>1 DEF vars, Fair, Erased, TeamsOut, RoundPos, Completed, LevelOK, Books,
                  RoundsOver, InGame, Over, Full, Stage, WinsPerRound, IsRoundsGame,
                  IsTeamGame, IsSidesGame, IsCoopGame
    <2> QED
      BY <1>1, <2>1 DEF vars, FairInv, Resetting, Stage
  <1>2. CASE Next
    <2>1. FairStep
      BY <1>2, NextFair
    <2>2. cvars' = cvars
      BY <1>2, NextStep DEF GoodStep, Leaves
    <2> QED
      BY <2>1, <2>2, FairAfter
  <1> QED
    BY <1>1, <1>2

LEMMA FairInvariance == Spec => []FairInv
  <1>1. Init => IInv /\ FairInv
    BY InitIInv, InitFair
  <1>2. IInv /\ FairInv /\ [Next]_vars => (IInv /\ FairInv)'
    BY NextIInv, NextFairInv
  <1> QED
    BY <1>1, <1>2, PTL DEF Spec

\* Whatever the settings, the players and the order of events, every variable
\* of the match keeps its type in every handler of the frame.
THEOREM TypeCorrect == Spec => []TypeOK
  BY Invariance, PTL DEF IInv

\* No order of joins, departures and queues ever puts more players into the
\* game than sv_maxplayers (G_CanJoinGameStart, SV_UpdatePlayerQueuePositions).
THEOREM NeverOverfull == Spec => []NoOverfill
  BY Invariance, PTL DEF IInv

LEMMA RoundLimitFromIInv == ASSUME IInv PROVE RoundLimitHolds
  BY DEF IInv, RoundOK, RoundLimitHolds

\* No round beyond g_roundlimit is played, whatever ends the rounds, restarts
\* the match or changes the map (G_RoundsShouldEndGame, LevelState::tic).
THEOREM RoundLimit == Spec => []RoundLimitHolds
  BY Invariance, RoundLimitFromIInv, PTL

LEMMA QueueFromIInv == ASSUME IInv PROVE QueueInOrder
  BY DEF IInv, PlacesOK, Numbered, QueueInOrder

\* Whoever joins, leaves or is booted in the middle of it, the places in the
\* queue are 1, 2, 3 and so on whenever the loop over it has ended
\* (SV_UpdatePlayerQueuePositions).
THEOREM OrderedQueue == Spec => []QueueInOrder
  BY Invariance, QueueFromIInv, PTL

LEMMA NobodyIsLate ==
  ASSUME IInv, GoodStep, NEW p \in Players, Entered(p), cvars.lives > 0
  PROVE  ~(game.state = "ingame" /\ JoinTimerOver(game))
  <1>1. CanJoinGame(game) \/ game.time = 0
    BY DEF GoodStep, Leaves, InGame, Entered
  <1>2. CASE CanJoinGame(game)
    BY <1>2 DEF CanJoinGame
  <1>3. CASE game.time = 0
    <2>1. cvars.jointimer \in Nat /\ game.start \in Nat
      BY SoundState, CvarTypes DEF Cvars, Sound, Games
    <2>2. game.state = "ingame" => game.start > 0
      BY DEF IInv, StartOK
    <2> QED
      BY <1>3, <2>1, <2>2 DEF JoinTimerOver
  <1> QED
    BY <1>1, <1>2, <1>3

\* With limited lives nobody enters a round whose join timer is over: the test
\* without a timer serves the queue only when a round or a level has just been
\* reset (G_CanJoinGame, G_CanJoinGameStart, SV_UpdatePlayerQueuePositions).
THEOREM NeverLate == Spec => NoLateJoin
  <1>1. ASSUME IInv, [Next]_vars
        PROVE  [\A p \in Players :
                   Entered(p) /\ cvars.lives > 0 =>
                      ~(game.state = "ingame" /\ JoinTimerOver(game))]_vars
    <2>1. CASE UNCHANGED vars
      BY <2>1
    <2>2. CASE Next
      BY <1>1, <2>2, NextStep, NobodyIsLate
    <2> QED
      BY <1>1, <2>1, <2>2
  <1> QED
    BY <1>1, Invariance, PTL DEF Spec, NoLateJoin

LEMMA WinsFromFair == ASSUME FairInv PROVE WinsAreRounds
  <1>1. SUFFICES ASSUME IsRoundsGame, game.gamestate = "level",
                        game.state \in {"preround", "ingame"} \cup EndStates,
                        game.action \notin {"fullresetlevel", "newgame"}
                 PROVE  Sum(game.wins, Sides) <= WinsPerRound * RoundsOver(game)
    BY DEF WinsAreRounds, RoundsOver
  <1>2. game.state \notin WarmupStates /\ game.action \notin Over(Stage)
    BY <1>1 DEF WarmupStates, EndStates, Over, Full
  <1> QED
    BY <1>1, <1>2 DEF FairInv, Fair, Books

\* A round never gives more wins than it has to give, to whomever, and whatever
\* ends it, restarts the match or makes its players go: the wins that are held are
\* at most those of the rounds that are over (SetWinner and endRound in
\* g_gametype.cpp and g_levelstate.cpp, P_ClearPlayerScores).
THEOREM WinsOnlyForRounds == Spec => []WinsAreRounds
  BY FairInvariance, WinsFromFair, PTL

\* A fight, or the preround before it, begins with no score on any side and with
\* all the lives, whatever was done in the countdowns before it and whoever has
\* come in since (LevelState::setState, G_DoResetLevel, P_ClearPlayerScores).
THEOREM LevelStart == Spec => RoundsStartLevel
  <1>1. ASSUME IInv, FairInv, [Next]_vars
        PROVE  [/\ game'.gamestate = "level"
                /\ game'.state \in {"preround", "ingame"}
                /\ game'.action = "nothing"
                /\ game.state # game'.state \/ game.action # "nothing"
                => /\ \A x \in Sides : game'.score[x] = 0
                   /\ \A p \in InGame(game') : game'.lives[p] = cvars.lives]_vars
    <2>1. CASE Next
      BY <1>1, <2>1, NextFair DEF FairStep, Starts, Fresh
    <2> QED
      BY <1>1, <2>1
  <1> QED
    BY <1>1, Invariance, FairInvariance, PTL DEF Spec, RoundsStartLevel

\* The winner of a match played in rounds has won at least as many of them as
\* everybody still there, whether the last round, a departure or the clock ends
\* it: unless he has just come in, and his wins have been cleared
\* (G_RoundsShouldEndGame, G_AssertValidPlayerCount, SV_JoinPlayer).
THEOREM WinnerLeads == Spec => MatchWinnerLeads
  <1>1. ASSUME IInv, FairInv, [Next]_vars
        PROVE  [/\ IsRoundsGame
                /\ game.state # "endgame"
                /\ game'.state = "endgame"
                /\ game'.winner.type \in {"player", "team"}
                /\ \A p \in Players : Entered(p) \/ Served(p) => p # game'.winner.id
                => \A x \in Rivals(game') :
                      game'.wins[x] <= game'.wins[game'.winner.id]]_vars
    <2>1. CASE Next
      BY <1>1, <2>1, NextFair DEF FairStep, Ends, Crowned
    <2> QED
      BY <1>1, <2>1
  <1> QED
    BY <1>1, Invariance, FairInvariance, PTL DEF Spec, MatchWinnerLeads

-----------------------------------------------------------------------------
(* A fight for lives has somebody to fight.                                *)

\* Limited lives, and no warmup that players or the server end when they like.
LastStanding ==
    Settled /\ cvars.lives > 0 /\ cvars.warmup = 0 /\ cvars.autostart > 0

\* The players of S are enough for a game: two sides, in coop one player.
Enough(S) ==
    IF IsCoopGame THEN S # {}
    ELSE Cardinality(IF IsTeamGame THEN TeamsOf(S) ELSE S) > 1

\* No level is pending, or it was ordered between two frames.
Due(g, stage) == g.action = "nothing" \/ stage = "packets"

\* An action is pending until the players' commands are run, an order for a new
\* game from when it is given.
Ordered(g, stage) ==
    g.action # "nothing" =>
        \/ stage \in {"votes", "commands"}
        \/ stage = "packets" /\ g.action = "newgame"

\* What departures leave true.
Thinned(g, stage) ==
    /\ g.lobby = 1 => g.state = "warmup"
    /\ Due(g, stage) /\ g.state = "preround" => Alive(g) = InGame(g)
    /\ Ordered(g, stage)

\* Once those who leave have been removed, there are enough players, and enough of
\* them have lives.
Staffed(g) ==
    Left(g) = {} /\ g.state \notin {"warmup", "endgame"} => Enough(InGame(g))

\* A fight that is to go on has enough players with lives.
Crewed(g, stage) ==
    /\ Staffed(g)
    /\ Left(g) = {} /\ g.state = "ingame" /\ Due(g, stage) => Enough(Alive(g))

\* What holds of a level in a match for lives at a stage of the frame.
Manned(g, stage) ==
    g.gamestate = "level" => Thinned(g, stage) /\ Crewed(g, stage)

\* The state stays, or goes on to the end of what was on.
Winds(g, h) ==
    /\ Run(g, h)
    /\ \/ h.state = g.state
       \/ h.state = "warmup"
       \/ h.state \in EndStates /\ g.lobby = 0 /\ g.state \notin {"warmup", "endgame"}

\* Whoever plays or lives is told by the players' status and lives.
LEMMA SameCrew ==
  ASSUME NEW g, NEW h, h.status = g.status, h.lives = g.lives
  PROVE  Left(h) = Left(g) /\ InGame(h) = InGame(g) /\ Alive(h) = Alive(g)
  BY DEF Left, InGame, Alive

\* What leaves a state only for its end does not lose the players it needs.
LEMMA WindsStaffed ==
  ASSUME NEW g, NEW h, NEW stage, Winds(g, h), Thinned(g, stage), Staffed(g)
  PROVE  Thinned(h, stage) /\ Staffed(h)
  <1>1. /\ h.status = g.status /\ h.lives = g.lives /\ h.lobby = g.lobby
        /\ h.action = g.action
    BY DEF Winds, Run, Flow, Kept
  <1>2. Left(h) = Left(g) /\ InGame(h) = InGame(g) /\ Alive(h) = Alive(g)
    BY <1>1, SameCrew
  <1>3. Ordered(h, stage) /\ (Due(h, stage) <=> Due(g, stage))
    BY <1>1 DEF Ordered, Thinned, Due
  <1>4. CASE h.state = g.state
    BY <1>1, <1>2, <1>3, <1>4 DEF Thinned, Staffed
  <1>5. CASE h.state = "warmup"
    BY <1>3, <1>5 DEF Thinned, Staffed
  <1>6. CASE h.state \in EndStates /\ g.lobby = 0 /\ g.state \notin {"warmup", "endgame"}
    BY <1>1, <1>2, <1>3, <1>6 DEF Thinned, Staffed, EndStates
  <1> QED
    BY <1>4, <1>5, <1>6 DEF Winds

LEMMA WindsManned ==
  ASSUME NEW g, NEW h, NEW stage, Winds(g, h), Manned(g, stage)
  PROVE  Manned(h, stage)
  <1>1. /\ h.status = g.status /\ h.lives = g.lives
        /\ h.action = g.action /\ h.gamestate = g.gamestate
    BY DEF Winds, Run, Flow, Kept
  <1>2. Left(h) = Left(g) /\ InGame(h) = InGame(g) /\ Alive(h) = Alive(g)
    BY <1>1, SameCrew
  <1>3. h.state = "ingame" => g.state = "ingame"
    BY DEF Winds, EndStates
  <1>4. SUFFICES ASSUME g.gamestate = "level", Thinned(g, stage), Crewed(g, stage)
                 PROVE  Thinned(h, stage) /\ Crewed(h, stage)
    BY <1>1 DEF Manned
  <1>5. Thinned(h, stage) /\ Staffed(h)
    BY <1>4, WindsStaffed DEF Crewed
  <1> QED
    BY <1>1, <1>2, <1>3, <1>4, <1>5 DEF Crewed, Due

LEMMA WindsItself == ASSUME NEW g \in Games PROVE Winds(g, g)
  BY RunItself DEF Winds

\* Who is enough is enough with others.
LEMMA EnoughMore ==
  ASSUME NEW S, NEW T \in SUBSET Players, S \subseteq T, Enough(S)
  PROVE  Enough(T)
  <1> DEFINE A == IF IsTeamGame THEN TeamsOf(S) ELSE S
             B == IF IsTeamGame THEN TeamsOf(T) ELSE T
  <1>1. CASE IsCoopGame
    BY <1>1 DEF Enough
  <1>2. CASE ~IsCoopGame
    <2>1. Cardinality(A) > 1
      BY <1>2 DEF Enough
    <2>2. A \subseteq B /\ B \subseteq Sides
      BY TeamSides DEF TeamsOf, Sides
    <2> HIDE DEF A, B
    <2>3. IsFiniteSet(B)
      BY <2>2, FiniteSides, FS_Subset
    <2>4. Cardinality(A) \in Nat /\ Cardinality(B) \in Nat /\ Cardinality(A) <= Cardinality(B)
      BY <2>2, <2>3, FS_Subset, FS_CardinalityType
    <2>5. Cardinality(B) > 1
      BY <2>1, <2>4
    <2> QED
      BY <1>2, <2>5 DEF Enough, B
  <1> QED
    BY <1>1, <1>2

-----------------------------------------------------------------------------
(* The checks.                                                             *)

\* A set that has neither no nor one member has more.
LEMMA MoreThanOne ==
  ASSUME NEW S, IsFiniteSet(S), S # {}, Cardinality(S) # 1 PROVE Cardinality(S) > 1
  <1>1. Cardinality(S) \in Nat /\ Cardinality(S) # 0
    BY FS_CardinalityType, FS_EmptySet
  <1> QED
    BY <1>1

LEMMA DrawRoundState ==
  ASSUME NEW g \in Games, ~IsCoopGame PROVE DrawRound(g).state \in EndStates
  <1>1. SetWinner(g, Draw) \in Games
    BY DEF SetWinner, Draw, Games, WinInfo, WinTypes
  <1> QED
    BY <1>1, EndRoundState DEF DrawRound

\* A fight with lives goes on only if somebody is left to fight, and ends in no
\* other state than those of an end.
LEMMA LivesCheckDecides ==
  ASSUME LastStanding, NEW g, Sound(g)
  PROVE  LET h == LivesCheckEndGame(g)
         IN  /\ \/ h = g
                \/ CanEndGame(g) /\ h.state \in {"warmup"} \cup EndStates
             /\ CanEndGame(g) /\ h.state = "ingame" => Enough(Alive(g))
  <1> DEFINE h == LivesCheckEndGame(g)
  <1>1. CASE ~CanEndGame(g)
    BY <1>1 DEF LivesCheckEndGame
  <1>2. g \in Games /\ cvars.lives # 0
    BY DEF Sound, LastStanding
  <1>3. CASE CanEndGame(g) /\ IsCoopGame
    <2>1. h = IF Alive(g) = {} THEN EndRound(SetWinner(g, Nobody)) ELSE g
      BY <1>2, <1>3 DEF LivesCheckEndGame, IsCoopGame, IsTeamGame
    <2>2. CASE Alive(g) = {}
      <3>1. SetWinner(g, Nobody) \in Games
        BY <1>2 DEF SetWinner, Nobody, Games, WinInfo, WinTypes
      <3> DEFINE k == SetWinner(g, Nobody)
                 new == IF IsRoundsGame THEN "endround" ELSE "warmup"
      <3>2. /\ \A n \in Games : SetState(n, "endgame").state = "endgame"
            /\ SetState(k, "endround").state = "endround"
            /\ SetState(k, "warmup").state = "warmup"
        BY <3>1, SetStateFields
      <3>3. [k EXCEPT !.winner = MatchWinner(k)] \in Games
        BY <3>1, MatchWinnerType DEF Games
      <3>4. EndRound(k).state \in {"endround", "endgame", "warmup"}
        BY <1>3, <3>2, <3>3 DEF EndRound
      <3> QED
        BY <1>3, <2>1, <2>2, <3>4 DEF EndStates
    <2>3. CASE Alive(g) # {}
      BY <1>3, <2>1, <2>3 DEF Enough
    <2> QED
      BY <2>2, <2>3
  <1>4. CASE CanEndGame(g) /\ ~IsCoopGame /\ IsTeamGame
    <2> DEFINE o == ObjectivesCheck(g)
               S == TeamsOf(Alive(g))
    <2>1. h = LastTeamCheck(o, S)
      BY <1>2, <1>4 DEF LivesCheckEndGame
    <2>2. Sound(o) /\ o \in Games
      BY ObjectivesSound DEF Keeps, Sound, LastStanding
    <2>3. o = g \/ o.state \in EndStates
      <3> DEFINE tops == Tops(g.score, Teams)
      <3>1. tops \in SUBSET Sides
        BY TopsAmong DEF Sides
      <3>2. \/ o = g
            \/ o = DrawRound(g)
            \/ Cardinality(tops) = 1 /\ o = WinRound(g, The(tops))
        BY DEF ObjectivesCheck
      <3> QED
        BY <1>2, <1>4, <3>1, <3>2, TheSide, DrawRoundState, WinRoundState
    <2> HIDE DEF o
    <2>4. S \in SUBSET Sides /\ IsFiniteSet(S)
      BY AliveSides, FiniteRivals
    <2>5. \/ h = DrawRound(o)
          \/ Cardinality(S) = 1 /\ h = WinRound(o, The(S))
          \/ h = o /\ S # {} /\ Cardinality(S) # 1
      BY <2>1 DEF LastTeamCheck
    <2> HIDE DEF S
    <2>6. h.state \in EndStates \/ (h = o /\ Cardinality(S) > 1)
      <3>1. CASE h = DrawRound(o)
        BY <1>4, <2>2, <3>1, DrawRoundState
      <3>2. CASE Cardinality(S) = 1 /\ h = WinRound(o, The(S))
        BY <1>4, <2>2, <2>4, <3>2, TheSide, WinRoundState
      <3>3. CASE h = o /\ S # {} /\ Cardinality(S) # 1
        BY <2>4, <3>3, MoreThanOne
      <3> HIDE DEF h
      <3> QED
        BY <2>5, <3>1, <3>2, <3>3
    <2>7. Cardinality(S) > 1 => Enough(Alive(g))
      BY <1>4 DEF Enough, S
    <2>8. "ingame" \notin EndStates
      BY DEF EndStates
    <2> QED
      BY <1>4, <2>3, <2>6, <2>7, <2>8
  <1>5. CASE CanEndGame(g) /\ ~IsCoopGame /\ ~IsTeamGame
    <2> DEFINE S == Alive(g)
    <2>1. h = LastPlayerCheck(g)
      BY <1>2, <1>5 DEF LivesCheckEndGame
    <2>2. S \in SUBSET Sides /\ IsFiniteSet(S)
      BY FiniteRivals DEF Alive, InGame, Sides
    <2>3. \/ h = DrawRound(g)
          \/ Cardinality(S) = 1 /\ h = WinRound(g, The(S))
          \/ h = g /\ S # {} /\ Cardinality(S) # 1
      BY <2>1 DEF LastPlayerCheck
    <2> HIDE DEF S
    <2>4. h.state \in EndStates \/ (h = g /\ Cardinality(S) > 1)
      <3>1. CASE h = DrawRound(g)
        BY <1>2, <1>5, <3>1, DrawRoundState
      <3>2. CASE Cardinality(S) = 1 /\ h = WinRound(g, The(S))
        BY <1>2, <1>5, <2>2, <3>2, TheSide, WinRoundState
      <3>3. CASE h = g /\ S # {} /\ Cardinality(S) # 1
        BY <2>2, <3>3, MoreThanOne
      <3> HIDE DEF h
      <3> QED
        BY <2>3, <3>1, <3>2, <3>3
    <2>5. Cardinality(S) > 1 => Enough(Alive(g))
      BY <1>5 DEF Enough, S
    <2>6. "ingame" \notin EndStates
      BY DEF EndStates
    <2> QED
      BY <1>5, <2>4, <2>5, <2>6
  <1> QED
    BY <1>1, <1>3, <1>4, <1>5

LEMMA LivesCheckWinds ==
  ASSUME LastStanding, NEW g, Sound(g) PROVE Winds(g, LivesCheckEndGame(g))
  <1>1. Run(g, LivesCheckEndGame(g))
    BY LivesCheckRun DEF LastStanding
  <1> QED
    BY <1>1, LivesCheckDecides DEF Winds, CanEndGame

\* The checks for a score and for the time end a round like the one for lives.
LEMMA EndRoundWinds ==
  ASSUME NEW g, NEW k \in Games, CanEndGame(g), Run(g, EndRound(k))
  PROVE  Winds(g, EndRound(k))
  <1>1. [k EXCEPT !.winner = MatchWinner(k)] \in Games
    BY MatchWinnerType DEF Games
  <1>2. /\ SetState([k EXCEPT !.winner = MatchWinner(k)], "endgame").state = "endgame"
        /\ \A new \in {"endround", "endgame", "warmup"} : SetState(k, new).state = new
    BY <1>1, SetStateFields
  <1>3. EndRound(k).state \in {"endround", "endgame", "warmup"}
    BY <1>2 DEF EndRound
  <1> QED
    BY <1>3 DEF Winds, EndStates, CanEndGame

LEMMA ScoreCheckWinds ==
  ASSUME Settled, NEW g, Sound(g) PROVE Winds(g, ScoreCheckEndGame(g))
  <1> DEFINE tops == Tops(g.score, Contenders(g))
             k == SetWinner(GiveWins(g, The(tops)), WonBy(The(tops)))
  <1>1. Run(g, ScoreCheckEndGame(g)) /\ g \in Games
    BY ScoreCheckRun DEF Sound
  <1>2. CASE ScoreCheckEndGame(g) = g
    BY <1>1, <1>2, WindsItself
  <1>3. CASE CanEndGame(g) /\ tops # {} /\ ScoreCheckEndGame(g) = EndRound(k)
    <2>1. The(tops) \in Sides
      BY <1>3, TopsAmong, ContendersAreSides, TheInSet
    <2>2. k \in Games
      BY <2>1, GiveWinsSound, SetWinnerSound, WonByType DEF Keeps, Sound
    <2> HIDE DEF k
    <2> QED
      BY <1>1, <1>3, <2>2, EndRoundWinds
  <1> QED
    BY <1>2, <1>3 DEF ScoreCheckEndGame, WinRound

LEMMA TimeCheckWinds ==
  ASSUME Settled, NEW g, Sound(g) PROVE Winds(g, TimeCheckEndGame(g))
  <1>1. Run(g, TimeCheckEndGame(g)) /\ g \in Games
    BY TimeCheckRun DEF Sound
  <1>2. CASE TimeCheckEndGame(g) = g
    BY <1>1, <1>2, WindsItself
  <1>3. CASE CanEndGame(g) /\ TimeCheckEndGame(g) = EndRound(TimeOver(g))
    <2>1. TimeOver(g) \in Games
      BY TimeOverSound DEF Keeps, Sound
    <2> QED
      BY <1>1, <1>3, <2>1, EndRoundWinds
  <1> QED
    BY <1>2, <1>3 DEF TimeCheckEndGame

-----------------------------------------------------------------------------
(* Coming and going.                                                       *)

LEMMA ClearFields ==
  ASSUME NEW g \in Games, NEW S, NEW T, NEW b \in BOOLEAN, NEW h,
         h = ClearScores(g, S, T, b)
  PROVE  /\ h.status = g.status /\ h.state = g.state /\ h.lobby = g.lobby
         /\ h.action = g.action /\ h.gamestate = g.gamestate
         /\ \A p \in Players : h.lives[p] = IF p \in S THEN cvars.lives ELSE g.lives[p]
  <1> DEFINE lives == [p \in Players |-> IF p \in S THEN cvars.lives ELSE g.lives[p]]
             score == [x \in Sides |-> IF x \in T THEN 0 ELSE g.score[x]]
             wins == [x \in Sides |-> IF b /\ x \in T THEN 0 ELSE g.wins[x]]
  <1>1. ClearScores(g, S, T, b) = [g EXCEPT !.lives = lives, !.score = score, !.wins = wins]
    BY DEF ClearScores
  <1> HIDE DEF lives, score, wins
  <1>2. /\ h.status = g.status /\ h.state = g.state /\ h.lobby = g.lobby
        /\ h.action = g.action /\ h.gamestate = g.gamestate /\ h.lives = lives
    BY <1>1 DEF Games
  <1> QED
    BY <1>2 DEF lives

LEMMA ResetState ==
  ASSUME LastStanding, NEW g \in Games
  PROVE  LET h == Reset(g)
         IN  /\ h.status = g.status /\ h.lives = g.lives /\ h.lobby = g.lobby
             /\ h.action = g.action /\ h.gamestate = g.gamestate
             /\ \/ h.state = "warmup"
                \/ h.state = "ingame" /\ IsCoopGame /\ InGame(g) # {} /\ g.lobby = 0
  <1> DEFINE h == Reset(g)
             first == [g EXCEPT !.round = 1]
             u == SetState(g, "warmup")
             v == SetState(first, "ingame")
  <1>1. /\ h.status = g.status /\ h.lives = g.lives
        /\ h.action = g.action /\ h.gamestate = g.gamestate
    BY ResetFields
  <1>2. \/ h = [u EXCEPT !.done = 0]
        \/ h = [v EXCEPT !.done = 0] /\ IsCoopGame /\ InGame(g) # {} /\ g.lobby = 0
    <2>1. g.lobby \in {0, 1}
      BY DEF Games
    <2>2. IsCoopGame => StartOfRoundState = "ingame"
      BY DEF StartOfRoundState, IsCoopGame
    <2> QED
      BY <2>1, <2>2 DEF Reset, LastStanding
  <1>3. u \in Games /\ u.state = "warmup" /\ u.lobby = g.lobby
    BY SetStateType, SetStateFields DEF LastStanding, States, WarmupStates
  <1>4. v \in Games /\ v.state = "ingame" /\ v.lobby = g.lobby
    <2>1. first \in Games /\ first.lobby = g.lobby
      BY DEF Games
    <2> HIDE DEF first
    <2> QED
      BY <2>1, SetStateType, SetStateFields DEF LastStanding, States
  <1> HIDE DEF u, v
  <1>5. /\ [u EXCEPT !.done = 0].state = u.state /\ [u EXCEPT !.done = 0].lobby = u.lobby
        /\ [v EXCEPT !.done = 0].state = v.state /\ [v EXCEPT !.done = 0].lobby = v.lobby
    BY <1>3, <1>4 DEF Games
  <1>6. /\ h.lobby = g.lobby
        /\ \/ h.state = "warmup"
           \/ h.state = "ingame" /\ IsCoopGame /\ InGame(g) # {} /\ g.lobby = 0
    BY <1>2, <1>3, <1>4, <1>5
  <1> QED
    BY <1>1, <1>6

\* A warmup asks for nobody, nor does an end of the game.
LEMMA NobodyNeeded ==
  ASSUME NEW g, NEW stage, Ordered(g, stage),
         \/ g.state = "warmup"
         \/ g.state = "endgame" /\ g.lobby # 1
  PROVE  Manned(g, stage)
  BY DEF Manned, Thinned, Crewed, Staffed

\* The check for lives is what a fight needs whose players have become fewer or
\* have lost lives.
LEMMA LivesCheckManned ==
  ASSUME LastStanding, NEW g, Sound(g), NEW stage,
         g.gamestate = "level" => Thinned(g, stage) /\ Staffed(g)
  PROVE  Manned(LivesCheckEndGame(g), stage)
  <1> DEFINE a == LivesCheckEndGame(g)
  <1>1. Winds(g, a)
    BY LivesCheckWinds
  <1>2. /\ \/ a = g
           \/ CanEndGame(g) /\ a.state \in {"warmup"} \cup EndStates
        /\ CanEndGame(g) /\ a.state = "ingame" => Enough(Alive(g))
    BY LivesCheckDecides
  <1> HIDE DEF a
  <1>3. /\ a.status = g.status /\ a.lives = g.lives
        /\ a.action = g.action /\ a.gamestate = g.gamestate
    BY <1>1 DEF Winds, Run, Flow, Kept
  <1>4. SUFFICES ASSUME g.gamestate = "level", Thinned(g, stage), Staffed(g)
                 PROVE  Thinned(a, stage) /\ Crewed(a, stage)
    BY <1>3 DEF Manned, a
  <1>5. Thinned(a, stage) /\ Staffed(a)
    BY <1>1, <1>4, WindsStaffed
  <1>6. InGame(a) = InGame(g) /\ Alive(a) = Alive(g)
    BY <1>3, SameCrew
  <1>7. a.state = "ingame" => a = g
    BY <1>2 DEF EndStates
  <1>8. g.lobby \in {0, 1}
    BY DEF Sound, Games
  <1>9. Due(g, stage) /\ g.state = "ingame" => CanEndGame(g)
    BY <1>4, <1>8 DEF Due, Thinned, Ordered, CanEndGame
  <1>10. Due(a, stage) <=> Due(g, stage)
    BY <1>3 DEF Due
  <1> QED
    BY <1>2, <1>5, <1>6, <1>7, <1>9, <1>10 DEF Crewed

\* Those who are left are counted after a departure, and if they are too few the
\* game ends or goes back to its warmup.
LEMMA PlayerCountManned ==
  ASSUME LastStanding, NEW g, Sound(g), NEW stage, g.gamestate = "level" => Thinned(g, stage)
  PROVE  Manned(AssertValidPlayerCount(g), stage)
  <1> DEFINE sides == IF IsTeamGame THEN TeamsOf(InGame(g)) ELSE InGame(g)
             valid == InGame(g) # {} /\ (IsCoopGame \/ Cardinality(sides) > 1)
             win == IF sides = {} THEN NoWinner ELSE WonBy(The(sides))
             f == IF valid THEN g ELSE SetWinner(g, win)
             h == LivesCheckEndGame(f)
             a == AssertValidPlayerCount(g)
  <1>1. /\ a.status = g.status /\ a.lives = g.lives /\ a.lobby = g.lobby
        /\ a.action = g.action /\ a.gamestate = g.gamestate
    BY PlayerCountRun DEF Run, Flow, Kept, LastStanding
  <1>2. SUFFICES ASSUME g.gamestate = "level", Thinned(g, stage) PROVE Manned(a, stage)
    BY <1>1 DEF Manned
  <1>3. g \in Games /\ cvars.lives # 0
    BY DEF Sound, LastStanding
  <1>4. Ordered(a, stage)
    BY <1>1, <1>2 DEF Ordered, Thinned
  <1>5. CASE g.state \in {"warmup", "endgame"}
    <2>1. a = g
      BY <1>3, <1>5 DEF AssertValidPlayerCount
    <2> QED
      BY <1>2, <1>5, <2>1 DEF Manned, Crewed, Staffed
  <1>6. CASE g.state \notin {"warmup", "endgame"} /\ IsCoopGame /\ InGame(g) = {}
    <2>1. a = Reset(g)
      BY <1>3, <1>6 DEF AssertValidPlayerCount
    <2> HIDE DEF a
    <2>2. a.state = "warmup"
      BY <1>3, <1>6, <2>1, ResetState
    <2> QED
      BY <1>4, <2>2, NobodyNeeded
  <1>7. CASE g.state \notin {"warmup", "endgame"} /\ valid
    <2>1. a = LivesCheckEndGame(g)
      BY <1>3, <1>7 DEF AssertValidPlayerCount
    <2>2. Staffed(g)
      BY <1>7 DEF Enough, Staffed
    <2> HIDE DEF a
    <2> QED
      BY <1>2, <2>1, <2>2, LivesCheckManned
  <1>8. CASE /\ g.state \notin {"warmup", "endgame"} /\ ~valid
             /\ ~(IsCoopGame /\ InGame(g) = {})
    <2>1. ~IsCoopGame
      BY <1>8
    <2>2. a = IF h.state \in {"countdown", "forced"} THEN Reset(h) ELSE EndGame(h)
      BY <1>3, <1>8, <2>1 DEF AssertValidPlayerCount
    <2>3. f \in Games /\ Sound(f)
      <3>1. sides \in SUBSET Sides
        BY InGameSides DEF InGame, Sides
      <3>2. NoWinner \in WinInfo
        BY DEF NoWinner, WinInfo, WinTypes
      <3>3. win \in WinInfo
        BY <3>1, <3>2, TheInSet, WonByType
      <3> QED
        BY <1>8, <3>3, SetWinnerSound DEF Keeps, Sound
    <2> HIDE DEF f
    <2>4. h \in Games
      BY <2>3, LivesCheckSound DEF Keeps, Sound, LastStanding
    <2> HIDE DEF h, a
    <2>5. /\ Reset(h).state = "warmup"
          /\ EndGame(h).state = "endgame"
      BY <2>1, <2>4, ResetState, SetStateFields DEF EndGame
    <2>6. a.lobby # 1
      BY <1>1, <1>2, <1>8 DEF Thinned
    <2> QED
      BY <1>4, <2>2, <2>5, <2>6, NobodyNeeded
  <1> HIDE DEF valid, a
  <1> QED
    BY <1>5, <1>6, <1>7, <1>8

\* A player is out of the game, whatever becomes of his slot.
LEMMA OneOut ==
  ASSUME NEW g, NEW h, NEW p \in Players, NEW status, status # "playing",
         g \in Games, h.status = [g.status EXCEPT ![p] = status],
         \A q \in Players \ {p} : h.lives[q] = g.lives[q]
  PROVE  InGame(h) = InGame(g) \ {p} /\ Alive(h) = Alive(g) \ {p}
  <1>1. g.status \in [Players -> Statuses]
    BY DEF Games
  <1>2. \A q \in Players : h.status[q] = (IF q = p THEN status ELSE g.status[q])
    BY <1>1
  <1> QED
    BY <1>2 DEF InGame, Alive

\* Somebody who leaves takes nothing from the others.
LEMMA OutThinned ==
  ASSUME NEW g \in Games, NEW h, NEW p \in Players, NEW status, status # "playing",
         h.status = [g.status EXCEPT ![p] = status],
         \A q \in Players \ {p} : h.lives[q] = g.lives[q],
         h.state = g.state, h.action = g.action, h.lobby = g.lobby,
         NEW stage, Thinned(g, stage)
  PROVE  Thinned(h, stage)
  <1>1. InGame(h) = InGame(g) \ {p} /\ Alive(h) = Alive(g) \ {p}
    BY OneOut
  <1> QED
    BY <1>1 DEF Thinned, Due, Ordered

\* A slot changes that is neither in the game nor just leaving it.
LEMMA BystanderManned ==
  ASSUME NEW g \in Games, NEW h, NEW p \in Players, NEW status,
         g.status[p] \notin {"playing", "left"}, status \notin {"playing", "left"},
         h.status = [g.status EXCEPT ![p] = status],
         \A q \in Players \ {p} : h.lives[q] = g.lives[q],
         h.state = g.state, h.action = g.action, h.lobby = g.lobby,
         h.gamestate = g.gamestate,
         NEW stage, Manned(g, stage)
  PROVE  Manned(h, stage)
  <1>1. InGame(h) = InGame(g) /\ Alive(h) = Alive(g)
    BY OneOut DEF InGame, Alive
  <1>2. Left(h) = Left(g)
    <2>1. g.status \in [Players -> Statuses]
      BY DEF Games
    <2>2. \A q \in Players : h.status[q] = (IF q = p THEN status ELSE g.status[q])
      BY <2>1
    <2> QED
      BY <2>2 DEF Left
  <1> QED
    BY <1>1, <1>2 DEF Manned, Thinned, Crewed, Staffed, Due, Ordered

LEMMA SpecManned ==
  ASSUME LastStanding, NEW g, Sound(g), NEW p \in Players, NEW stage, Manned(g, stage)
  PROVE  Manned(SpecPlayer(g, p), stage)
  <1> DEFINE s == [g EXCEPT !.status[p] = "spectator"]
             d == [s EXCEPT !.delay[p] = ReJoinDelay]
  <1>0. "spectator" \in Statuses /\ ReJoinDelay \in Nat
    BY BoundsAssumption DEF Statuses
  <1>1. /\ Sound(s) /\ s.status = [g.status EXCEPT ![p] = "spectator"]
        /\ s.state = g.state /\ s.lives = g.lives /\ s.action = g.action
        /\ s.lobby = g.lobby /\ s.gamestate = g.gamestate
    BY <1>0, StatusSound DEF Sound, Games
  <1>2. SpecPlayer(g, p) = AssertValidPlayerCount(d)
    BY DEF SpecPlayer, Unready, LastStanding
  <1> HIDE DEF s
  <1>3. /\ Sound(d) /\ d.status = s.status /\ d.state = s.state /\ d.lives = s.lives
        /\ d.action = s.action /\ d.lobby = s.lobby /\ d.gamestate = s.gamestate
    <2>1. Sound(d)
      BY <1>0, <1>1, DelaySound DEF Keeps
    <2> QED
      BY <1>1, <2>1 DEF Sound, Games
  <1> HIDE DEF d
  <1>4. d.gamestate = "level" => Thinned(d, stage)
    BY <1>1, <1>3, OutThinned DEF Sound, Manned
  <1> QED
    BY <1>2, <1>3, <1>4, PlayerCountManned

\* Whoever joins has all his lives.
LEMMA JoinManned ==
  ASSUME LastStanding, NEW g, Sound(g), NEW p \in Players, g.status[p] # "left",
         NEW stage, Manned(g, stage)
  PROVE  Manned(JoinPlayer(g, p), stage)
  <1> DEFINE joined == [g EXCEPT !.status[p] = "playing"]
             killed == IF g.time > 0 THEN LivesCheckEndGame(joined) ELSE joined
             h == ClearScores(killed, {p}, {p}, TRUE)
  <1>0. "playing" \in Statuses /\ g \in Games
    BY DEF Statuses, Sound
  <1>1. /\ Sound(joined) /\ joined.status = [g.status EXCEPT ![p] = "playing"]
        /\ joined.state = g.state /\ joined.lives = g.lives /\ joined.action = g.action
        /\ joined.lobby = g.lobby /\ joined.gamestate = g.gamestate
    BY <1>0, StatusSound DEF Games
  <1>2. JoinPlayer(g, p) = h
    BY DEF JoinPlayer, Unready, LastStanding
  <1> HIDE DEF joined
  <1>3. /\ killed \in Games
        /\ killed.status = joined.status /\ killed.lives = joined.lives
        /\ killed.action = joined.action /\ killed.lobby = joined.lobby
        /\ killed.gamestate = joined.gamestate
        /\ \/ killed.state = joined.state
           \/ CanEndGame(joined) /\ killed.state \in {"warmup"} \cup EndStates
    <2>1. joined \in Games
      BY <1>1 DEF Sound
    <2>2. LivesCheckEndGame(joined) \in Games
      BY <1>1, LivesCheckSound DEF Keeps, Sound, LastStanding
    <2>3. Run(joined, LivesCheckEndGame(joined))
      BY <1>1, LivesCheckRun DEF LastStanding
    <2> QED
      BY <1>1, <2>1, <2>2, <2>3, LivesCheckDecides DEF Run, Flow, Kept
  <1> HIDE DEF killed
  <1>4. h = ClearScores(killed, {p}, {p}, TRUE) /\ killed \in Games
    BY <1>3
  <1> HIDE DEF h
  <1>14. /\ h.status = killed.status /\ h.state = killed.state /\ h.lobby = killed.lobby
         /\ h.action = killed.action /\ h.gamestate = killed.gamestate
         /\ \A q \in Players : h.lives[q] = IF q \in {p} THEN cvars.lives ELSE killed.lives[q]
    <2> DEFINE S == {p}
               b == TRUE
    <2>1. b \in BOOLEAN /\ h = ClearScores(killed, S, S, b) /\ killed \in Games
      BY <1>4
    <2> HIDE DEF S, b
    <2>2. /\ h.status = killed.status /\ h.state = killed.state /\ h.lobby = killed.lobby
          /\ h.action = killed.action /\ h.gamestate = killed.gamestate
          /\ \A q \in Players : h.lives[q] = IF q \in S THEN cvars.lives ELSE killed.lives[q]
      BY <2>1, ClearFields
    <2> QED
      BY <2>2 DEF S
  <1>15. /\ h.lobby = g.lobby /\ h.action = g.action /\ h.gamestate = g.gamestate
    BY <1>1, <1>3, <1>14
  <1>5. \A q \in Players : /\ h.status[q] = (IF q = p THEN "playing" ELSE g.status[q])
                           /\ h.lives[q] = (IF q = p THEN cvars.lives ELSE g.lives[q])
    BY <1>0, <1>1, <1>3, <1>14 DEF Games
  <1>6. Left(h) = Left(g) /\ InGame(h) = InGame(g) \cup {p} /\ Alive(h) = Alive(g) \cup {p}
    BY <1>5 DEF Left, InGame, Alive, LastStanding
  <1>7. InGame(h) \in SUBSET Players /\ Alive(h) \in SUBSET Players
    BY DEF InGame, Alive
  <1>8. \/ h.state = g.state
        \/ /\ g.lobby = 0 /\ g.state = "ingame"
           /\ h.state \in {"warmup"} \cup EndStates
    BY <1>1, <1>3, <1>14 DEF CanEndGame
  <1>9. SUFFICES ASSUME g.gamestate = "level", Thinned(g, stage), Crewed(g, stage)
                 PROVE  Thinned(h, stage) /\ Crewed(h, stage)
    BY <1>2, <1>15 DEF Manned
  <1>10. Thinned(h, stage)
    BY <1>15, <1>6, <1>8, <1>9 DEF Thinned, Due, Ordered, EndStates
  <1>11. Enough(InGame(g)) => Enough(InGame(h))
    BY <1>6, <1>7, EnoughMore
  <1>12. Enough(Alive(g)) => Enough(Alive(h))
    BY <1>6, <1>7, EnoughMore
  <1>13. Crewed(h, stage)
    BY <1>15, <1>6, <1>8, <1>9, <1>11, <1>12 DEF Crewed, Staffed, Due, EndStates
  <1> QED
    BY <1>10, <1>13

-----------------------------------------------------------------------------
(* The tic and the pending actions.                                        *)

\* h is g in everything the fight for lives asks for.
SameFight(g, h) ==
    /\ h.status = g.status /\ h.lives = g.lives /\ h.state = g.state
    /\ h.lobby = g.lobby /\ h.action = g.action /\ h.gamestate = g.gamestate

LEMMA SameManned ==
  ASSUME NEW g, NEW h, SameFight(g, h), NEW stage, Manned(g, stage)
  PROVE  Manned(h, stage)
  <1>1. Left(h) = Left(g) /\ InGame(h) = InGame(g) /\ Alive(h) = Alive(g)
    BY SameCrew DEF SameFight
  <1> QED
    BY <1>1 DEF SameFight, Manned, Thinned, Crewed, Staffed, Due, Ordered

LEMMA HoldSame == ASSUME NEW g \in Games PROVE SameFight(g, HoldTime(g))
  <1> DEFINE over == g.time - MaxTime
             done == IF g.done <= over THEN 0 ELSE g.done - over
  <1>1. HoldTime(g) = IF over <= 0 THEN g ELSE [g EXCEPT !.time = MaxTime, !.done = done]
    BY DEF HoldTime
  <1> HIDE DEF over, done
  <1> QED
    BY <1>1 DEF SameFight, Games

LEMMA DelaysSame == ASSUME NEW g \in Games PROVE SameFight(g, RunDelays(g))
  <1> DEFINE delay == [p \in Players |-> IF g.delay[p] > 0 THEN g.delay[p] - 1 ELSE 0]
  <1>1. RunDelays(g) = [g EXCEPT !.delay = delay]
    BY DEF RunDelays
  <1> HIDE DEF delay
  <1> QED
    BY <1>1 DEF SameFight, Games

\* The level goes on with the players it has: with a reset still to come, or as it is.
GoesOver(g, h) ==
    /\ h.status = g.status /\ h.lives = g.lives /\ h.lobby = g.lobby
    /\ \/ h.gamestate # "level"
       \/ h.state = "warmup"
       \/ /\ h.lobby # 1
          /\ Left(g) = {} => Enough(InGame(g))
          /\ \/ h.action # "nothing"
             \/ Alive(g) = InGame(g)

LEMMA GoesOverManned ==
  ASSUME NEW g, NEW h, GoesOver(g, h), NEW stage \in {"votes", "commands"}
  PROVE  Manned(h, stage)
  <1>1. Left(h) = Left(g) /\ InGame(h) = InGame(g) /\ Alive(h) = Alive(g)
    BY SameCrew DEF GoesOver
  <1>2. Ordered(h, stage) /\ (Due(h, stage) <=> h.action = "nothing")
    BY DEF Ordered, Due
  <1>3. CASE h.gamestate # "level"
    BY <1>3 DEF Manned
  <1>4. CASE h.state = "warmup"
    BY <1>2, <1>4 DEF Manned, Thinned, Crewed, Staffed
  <1>5. CASE /\ h.lobby # 1
             /\ Left(g) = {} => Enough(InGame(g))
             /\ \/ h.action # "nothing"
                \/ Alive(g) = InGame(g)
    BY <1>1, <1>2, <1>5 DEF Manned, Thinned, Crewed, Staffed
  <1> QED
    BY <1>3, <1>4, <1>5 DEF GoesOver

LEMMA TicManned ==
  ASSUME LastStanding, NEW g, Sound(g), g.gamestate = "level", Manned(g, "packets"),
         NEW stage \in {"votes", "commands"}
  PROVE  Manned(Tic(g), stage)
  <1> DEFINE h == Tic(g)
  <1>1. g \in Games /\ Thinned(g, "packets") /\ Crewed(g, "packets")
    BY DEF Sound, Manned
  <1>2. ASSUME NEW k \in Games, NEW new \in States,
               k.status = g.status, k.lives = g.lives, k.lobby = g.lobby,
               g.lobby # 1, Left(g) = {} => Enough(InGame(g)),
               k.action # "nothing" \/ Alive(g) = InGame(g)
        PROVE  GoesOver(g, SetState(k, new))
    <2> DEFINE s == SetState(k, new)
    <2>1. /\ s.status = k.status /\ s.lives = k.lives /\ s.lobby = k.lobby
          /\ s.action = k.action /\ s.state = new
      BY <1>2, SetStateFields
    <2> HIDE DEF s
    <2>2. GoesOver(g, s)
      BY <1>2, <2>1 DEF GoesOver
    <2> QED
      BY <2>2 DEF s
  <1>3. GoesOver(g, SetState(g, "warmup"))
    BY <1>1, SetStateFields DEF GoesOver
  <1>4. CASE h = g
    <2>1. Ordered(g, stage)
      BY DEF Ordered
    <2> QED
      BY <1>1, <1>4, <2>1 DEF Manned, Thinned, Crewed, Staffed, Due
  <1>5. CASE g.state = "warmup" /\ h = TicWarmup(g)
    <2>1. \/ h = g
          \/ g.lobby # 1 /\ Enough(InGame(g)) /\ h = SetState(g, "forced")
      <3>1. EnoughPlayers(g) => Enough(InGame(g))
        <4>1. CASE IsCoopGame
          BY <4>1 DEF EnoughPlayers, Enough, IsCoopGame, IsTeamGame
        <4>2. CASE ~IsCoopGame /\ IsTeamGame
          <5> DEFINE n == Cardinality(TeamsOf(InGame(g)))
          <5>1. n \in Nat
            BY FiniteRivals, FS_CardinalityType
          <5>2. EnoughPlayers(g) => n >= 2
            BY <4>2 DEF EnoughPlayers
          <5> HIDE DEF n
          <5>3. EnoughPlayers(g) => n > 1
            BY <5>1, <5>2
          <5> QED
            BY <4>2, <5>3 DEF Enough, n
        <4>3. CASE ~IsCoopGame /\ ~IsTeamGame
          <5> DEFINE n == Cardinality(InGame(g))
          <5>1. n \in Nat
            BY FiniteRivals, FS_CardinalityType
          <5>2. EnoughPlayers(g) => n >= 2
            BY <4>3 DEF EnoughPlayers
          <5> HIDE DEF n
          <5>3. EnoughPlayers(g) => n > 1
            BY <5>1, <5>2
          <5> QED
            BY <4>3, <5>3 DEF Enough, n
        <4> QED
          BY <4>1, <4>2, <4>3
      <3>2. \/ h = g
            \/ g.lobby # 1 /\ EnoughPlayers(g) /\ h = SetState(g, "forced")
        BY <1>5 DEF TicWarmup, LastStanding
      <3> QED
        BY <3>1, <3>2
    <2>2. CASE g.lobby # 1 /\ Enough(InGame(g)) /\ h = SetState(g, "forced")
      <3> DEFINE s == SetState(g, "forced")
      <3>1. /\ s.status = g.status /\ s.lives = g.lives /\ s.lobby = g.lobby
            /\ s.state = "forced"
        BY <1>1, SetStateFields
      <3> HIDE DEF s
      <3>2. Left(s) = Left(g) /\ InGame(s) = InGame(g)
        BY <3>1, SameCrew
      <3>3. Ordered(s, stage)
        BY DEF Ordered
      <3>4. Manned(s, stage)
        BY <2>2, <3>1, <3>2, <3>3 DEF Manned, Thinned, Crewed, Staffed
      <3> QED
        BY <2>2, <3>4 DEF s
    <2> QED
      BY <1>4, <2>1, <2>2
  <1>6. CASE g.state \notin {"warmup", "ingame"} /\ h = TicDone(g)
    <2> DEFINE next == [g EXCEPT !.round = @ + 1]
    <2>1. g.lobby # 1
      BY <1>1, <1>6 DEF Thinned
    <2>2. /\ DeferedReset(g) \in Games /\ DeferedReset(g).status = g.status
          /\ DeferedReset(g).lives = g.lives /\ DeferedReset(g).lobby = g.lobby
          /\ DeferedReset(g).action # "nothing"
      BY <1>1 DEF DeferedReset, Games, Actions
    <2>3. /\ next \in Games /\ next.status = g.status
          /\ next.lives = g.lives /\ next.lobby = g.lobby
      BY <1>1 DEF Games
    <2> HIDE DEF next
    <2>4. /\ DeferedReset(next) \in Games /\ DeferedReset(next).status = g.status
          /\ DeferedReset(next).lives = g.lives /\ DeferedReset(next).lobby = g.lobby
          /\ DeferedReset(next).action # "nothing"
          /\ DeferedFullReset(next) \in Games /\ DeferedFullReset(next).status = g.status
          /\ DeferedFullReset(next).lives = g.lives /\ DeferedFullReset(next).lobby = g.lobby
          /\ DeferedFullReset(next).action # "nothing"
      BY <2>3 DEF DeferedReset, DeferedFullReset, Games, Actions
    <2>5. /\ "ingame" \in States /\ StartOfRoundState \in States
      BY StartStateType DEF States
    <2>6. g.state # "endgame" => (Left(g) = {} => Enough(InGame(g)))
      BY <1>1, <1>6 DEF Crewed, Staffed
    <2>7. GoesOver(g, h)
      <3>1. CASE g.state = "preround"
        <4>1. Alive(g) = InGame(g)
          BY <1>1, <3>1 DEF Thinned, Due
        <4>2. GoesOver(g, SetState(g, "ingame")) /\ GoesOver(g, SetState(DeferedReset(g), "ingame"))
          BY <1>1, <1>2, <2>1, <2>2, <2>5, <2>6, <3>1, <4>1
        <4> QED
          BY <1>6, <3>1, <4>2 DEF TicDone
      <3>2. CASE g.state = "endround"
        <4>1. GoesOver(g, SetState(DeferedReset(next), StartOfRoundState))
          BY <1>2, <2>1, <2>4, <2>5, <2>6, <3>2
        <4> QED
          BY <1>6, <3>2, <4>1 DEF TicDone, next
      <3>3. CASE g.state = "endgame"
        <4>1. ExitLevel(g).gamestate = "intermission" /\ ExitLevel(g).lives = g.lives
              /\ ExitLevel(g).status = g.status /\ ExitLevel(g).lobby = g.lobby
          BY <1>1 DEF ExitLevel, Games
        <4>2. h = ExitLevel(g)
          BY <1>6, <3>3 DEF TicDone
        <4> QED
          BY <4>1, <4>2 DEF GoesOver
      <3>4. CASE g.state \notin {"preround", "endround", "endgame"}
        <4>1. GoesOver(g, SetState(DeferedFullReset(next), StartOfRoundState))
          BY <1>2, <2>1, <2>4, <2>5, <2>6, <3>4
        <4>2. h = SetState(DeferedFullReset(next), StartOfRoundState)
          BY <1>6, <3>4 DEF TicDone, next
        <4> QED
          BY <4>1, <4>2
      <3> QED
        BY <3>1, <3>2, <3>3, <3>4
    <2> HIDE DEF h
    <2> QED
      BY <2>7, GoesOverManned DEF h
  <1>7. CASE h = SetState(g, "warmup")
    BY <1>3, <1>7, GoesOverManned
  <1>8. \/ h = g
        \/ h = SetState(g, "warmup")
        \/ g.state = "warmup" /\ h = TicWarmup(g)
        \/ g.state \notin {"warmup", "ingame"} /\ h = TicDone(g)
    BY DEF Tic
  <1> QED
    BY <1>4, <1>5, <1>6, <1>7, <1>8

\* After a reset, or in a new level, everybody has all his lives.
Refilled(g, h) ==
    /\ h.status = g.status
    /\ \A p \in InGame(g) : h.lives[p] = cvars.lives

\* When lives are given out, whoever plays is alive.
LEMMA RefilledAlive ==
  ASSUME LastStanding, NEW g, NEW h, Refilled(g, h)
  PROVE  Left(h) = Left(g) /\ InGame(h) = InGame(g) /\ Alive(h) = InGame(h)
  BY DEF Refilled, Left, InGame, Alive, LastStanding

LEMMA ResetLevelManned ==
  ASSUME LastStanding, NEW g, Sound(g), NEW full \in BOOLEAN, Manned(g, "commands")
  PROVE  Manned(ResetLevel(g, full), "world")
  <1> DEFINE S == Present(g)
             T == S \cup Teams
             cleared == ClearScores(g, S, T, full)
             ready == IF full /\ cvars.warmup = 1 THEN {} ELSE cleared.ready
             h == [cleared EXCEPT !.action = "nothing", !.time = 0, !.ready = ready]
  <1>1. ResetLevel(g, full) = h
    BY DEF ResetLevel
  <1>2. cleared \in Games /\ g \in Games
    BY ClearScoresSound DEF Keeps, Sound, LastStanding
  <1>3. \A p \in InGame(g) : p \in S
    BY DEF InGame, Present
  <1> HIDE DEF S, T
  <1>4. cleared = ClearScores(g, S, T, full)
    OBVIOUS
  <1> HIDE DEF cleared
  <1>5. /\ cleared.status = g.status /\ cleared.state = g.state
        /\ cleared.lobby = g.lobby /\ cleared.gamestate = g.gamestate
        /\ \A p \in Players : cleared.lives[p] = IF p \in S THEN cvars.lives ELSE g.lives[p]
    BY <1>2, <1>4, ClearFields
  <1> HIDE DEF ready
  <1>6. /\ h.status = cleared.status /\ h.state = cleared.state
        /\ h.lobby = cleared.lobby /\ h.gamestate = cleared.gamestate
        /\ h.lives = cleared.lives /\ h.action = "nothing"
    BY <1>2 DEF Games
  <1> HIDE DEF h
  <1>7. Refilled(g, h)
    BY <1>3, <1>5, <1>6 DEF Refilled, InGame
  <1>8. Left(h) = Left(g) /\ InGame(h) = InGame(g) /\ Alive(h) = InGame(h)
    BY <1>7, RefilledAlive
  <1>9. Manned(h, "world")
    BY <1>5, <1>6, <1>8 DEF Manned, Thinned, Crewed, Staffed, Ordered
  <1> QED
    BY <1>1, <1>9

LEMMA LoadLevelManned ==
  ASSUME LastStanding, NEW g, Sound(g), NEW lobby \in {0, 1}, NEW stage
  PROVE  Manned(LoadLevel(g, lobby), stage)
  <1> DEFINE S == Present(g)
             T == S \cup (IF IsTeamGame THEN Teams ELSE {})
             cleared == ClearScores(g, S, T, TRUE)
             delay == [p \in Players |-> 0]
             ready == IF cvars.warmup = 1 THEN {} ELSE cleared.ready
             timed == [cleared EXCEPT !.time = 0, !.action = "nothing",
                                      !.gamestate = "level"]
             fresh == [timed EXCEPT !.lobby = lobby, !.delay = delay, !.ready = ready]
             b == TRUE
             h == Reset(fresh)
  <1>1. LoadLevel(g, lobby) = h
    BY DEF LoadLevel
  <1>2. cleared \in Games /\ g \in Games
    BY ClearScoresSound DEF Keeps, Sound, LastStanding
  <1>3. \A p \in InGame(g) : p \in S
    BY DEF InGame, Present
  <1> HIDE DEF S, T
  <1>4. cleared = ClearScores(g, S, T, b) /\ b \in BOOLEAN
    OBVIOUS
  <1>5. ready \in SUBSET Players /\ delay \in [Players -> Nat]
    BY <1>2 DEF Games
  <1> HIDE DEF cleared, b
  <1>6. /\ cleared.status = g.status
        /\ \A p \in Players : cleared.lives[p] = IF p \in S THEN cvars.lives ELSE g.lives[p]
    BY <1>2, <1>4, ClearFields
  <1> HIDE DEF ready, delay
  <1>7. /\ timed \in Games /\ timed.status = cleared.status
        /\ timed.lives = cleared.lives /\ timed.action = "nothing"
    BY <1>2 DEF Games, Actions
  <1> HIDE DEF timed
  <1>8. /\ fresh \in Games /\ fresh.status = cleared.status
        /\ fresh.lives = cleared.lives /\ fresh.action = "nothing"
    BY <1>5, <1>7 DEF Games
  <1> HIDE DEF fresh
  <1>9. Refilled(g, fresh)
    BY <1>3, <1>6, <1>8 DEF Refilled, InGame
  <1>10. InGame(fresh) = InGame(g) /\ Alive(fresh) = InGame(fresh)
    BY <1>9, RefilledAlive
  <1>11. /\ h.status = fresh.status /\ h.lives = fresh.lives /\ h.lobby = fresh.lobby
         /\ h.action = "nothing"
         /\ \/ h.state = "warmup"
            \/ h.state = "ingame" /\ IsCoopGame /\ InGame(fresh) # {} /\ fresh.lobby = 0
    BY <1>8, ResetState
  <1> HIDE DEF h
  <1>12. InGame(h) = InGame(fresh) /\ Alive(h) = Alive(fresh)
    BY <1>11, SameCrew
  <1>13. Manned(h, stage)
    BY <1>10, <1>11, <1>12 DEF Manned, Thinned, Crewed, Staffed, Ordered, Enough
  <1> QED
    BY <1>1, <1>13

-----------------------------------------------------------------------------
(* The steps.                                                              *)

\* Nobody restarts or forces a match, players do not telefrag each other at
\* level.time 0, and a match for lives has no warmup that players or the server end
\* when they like.
Unattended ==
    /\ \A order \in {"restart", "forcestart"} : order \notin Votes \cup Commands
    /\ ~EarlyKills
    /\ \A s \in Settings : s.lives > 0 => s.warmup = 0 /\ s.autostart > 0

\* Whoever has a place in the queue is on the server.
Here(g) == \A p \in Players : g.position[p] > 0 => g.status[p] \in {"spectator", "playing"}

\* The inductive invariant behind SurvivorsRemain.
MannedInv == cvars.lives > 0 => Manned(game, Stage) /\ Here(game)

\* What is known before a step of a match for lives.
FightState == IInv /\ FairInv /\ LastStanding /\ Manned(game, Stage) /\ Here(game)

\* What every step has to leave behind for it.
MannedStep == Manned(game', Stage') /\ Here(game')

\* A stage of the frame leaves no action to the next, or the votes leave it to the
\* commands.
LEMMA StageManned ==
  ASSUME NEW g, NEW from, NEW to, Manned(g, from),
         \/ g.gamestate = "level" => g.action = "nothing"
         \/ from = "votes" /\ to = "commands"
  PROVE  Manned(g, to)
  BY DEF Manned, Thinned, Crewed, Ordered, Due

\* Outside of packets, votes and commands no action is pending.
LEMMA NothingOrdered ==
  ASSUME NEW g, NEW stage, stage \notin {"packets", "votes", "commands"}, Manned(g, stage)
  PROVE  g.gamestate = "level" => g.action = "nothing"
  BY DEF Manned, Thinned, Ordered

LEMMA FightTypes ==
  ASSUME FightState
  PROVE  /\ Settled /\ LastStanding /\ Sound(game) /\ game \in Games
         /\ game.status \in [Players -> Statuses] /\ game.position \in [Players -> Nat]
         /\ (phase # "queue" => Stage = phase)
         /\ (game.action = "completed" => game.gamestate = "intermission")
         /\ cvars.warmup = 0
  <1>1. Settled /\ Sound(game) /\ game \in Games /\ Fair(game, Over(Stage), {})
    BY FairState DEF FightState
  <1> QED
    BY <1>1 DEF FightState, Games, Stage, Fair, Completed, LastStanding

\* A handler that ends with the loop over the queue.
LEMMA QueueManned ==
  ASSUME NEW g, Sound(g), NEW test \in {"join", "start"}, NEW leaving,
         NEW back \in Phases \ {"queue"}, UpdateQueue(g, test, leaving, back),
         Manned(g, back),
         \A p \in Players \ leaving :
            g.position[p] > 0 => g.status[p] \in {"spectator", "playing"}
  PROVE  MannedStep
  <1> DEFINE k == game'
  <1>1. Stage' = back
    BY DEF UpdateQueue, Stage
  <1>2. k = [g EXCEPT !.position = [p \in Players |-> IF p \in leaving THEN 0
                                                      ELSE g.position[p]]]
    BY DEF UpdateQueue
  <1>3. g \in Games
    BY DEF Sound
  <1> HIDE DEF k
  <1>4. SameFight(g, k)
    BY <1>2, <1>3 DEF SameFight, Games
  <1>5. \A p \in Players : k.position[p] = (IF p \in leaving THEN 0 ELSE g.position[p])
    BY <1>2, <1>3 DEF Games
  <1>6. Here(k)
    BY <1>4, <1>5 DEF Here, SameFight
  <1>7. Manned(k, back)
    BY <1>4, SameManned
  <1> QED
    BY <1>1, <1>6, <1>7 DEF MannedStep, k

\* A handler that changes the game and leaves the queue alone.
LEMMA PlainManned ==
  ASSUME NEW k, game' = k, Manned(k, Stage'), k.position = game.position,
         \A p \in Players : game.position[p] > 0 => k.status[p] \in {"spectator", "playing"}
  PROVE  MannedStep
  BY DEF MannedStep, Here

LEMMA ConnectMans ==
  ASSUME FightState, NEW p \in Players, Connect(p) PROVE MannedStep
  <1> DEFINE g == [game EXCEPT !.status[p] = "spectator"]
             S == {p}
             b == TRUE
             h == ClearScores(g, S, S, b)
  <1>0. /\ "spectator" \in Statuses /\ game' = h /\ Stage' = Stage
        /\ game.status[p] = "absent"
    BY DEF Statuses, Connect, Stage
  <1>1. /\ Sound(g) /\ g.status = [game.status EXCEPT ![p] = "spectator"]
        /\ g.position = game.position
        /\ g.state = game.state /\ g.lives = game.lives /\ g.lobby = game.lobby
        /\ g.action = game.action /\ g.gamestate = game.gamestate
    BY <1>0, FightTypes, StatusSound DEF Games
  <1> HIDE DEF g
  <1>2. b \in BOOLEAN /\ g \in Games /\ \A q \in Players \ {p} : q \notin S
    BY <1>1 DEF Sound
  <1> HIDE DEF S, b
  <1>3. h.position = g.position
    BY <1>1, <1>2, FightTypes, ClearScoresSound DEF Keeps, Frame
  <1>4. h = ClearScores(g, S, S, b)
    OBVIOUS
  <1> HIDE DEF h
  <1>5. /\ h.status = g.status /\ h.state = g.state /\ h.lobby = g.lobby
        /\ h.action = g.action /\ h.gamestate = g.gamestate
        /\ \A q \in Players : h.lives[q] = IF q \in S THEN cvars.lives ELSE g.lives[q]
    BY <1>2, <1>4, ClearFields
  <1>6. \A q \in Players \ {p} : h.lives[q] = game.lives[q]
    BY <1>1, <1>2, <1>5
  <1>7. Manned(h, Stage)
    BY <1>0, <1>1, <1>5, <1>6, FightTypes, BystanderManned DEF FightState
  <1>8. \A q \in Players : game.position[q] > 0 => h.status[q] \in {"spectator", "playing"}
    BY <1>0, <1>1, <1>5, FightTypes DEF FightState, Here
  <1> QED
    BY <1>0, <1>1, <1>3, <1>7, <1>8, PlainManned

LEMMA EraseFields ==
  ASSUME NEW g \in Games, NEW p \in Players
  PROVE  LET h == Erase(g, p)
         IN  /\ h.state = g.state /\ h.lobby = g.lobby
             /\ h.action = g.action /\ h.gamestate = g.gamestate
             /\ \A q \in Players \ {p} : h.lives[q] = g.lives[q]
  <1> DEFINE status == [g.status EXCEPT ![p] = "absent"]
             ready == g.ready \ {p}
             delay == [g.delay EXCEPT ![p] = 0]
             lives == [g.lives EXCEPT ![p] = 0]
             score == [g.score EXCEPT ![p] = 0]
             wins == [g.wins EXCEPT ![p] = 0]
             h == [g EXCEPT !.status = status, !.ready = ready, !.delay = delay,
                            !.lives = lives, !.score = score, !.wins = wins]
  <1>1. Erase(g, p) = h
    BY DEF Erase, Games
  <1>2. \A q \in Players \ {p} : lives[q] = g.lives[q]
    BY DEF Games
  <1> HIDE DEF status, ready, delay, lives, score, wins
  <1>3. /\ h.state = g.state /\ h.lobby = g.lobby
        /\ h.action = g.action /\ h.gamestate = g.gamestate /\ h.lives = lives
    BY DEF Games
  <1> HIDE DEF h
  <1> QED
    BY <1>1, <1>2, <1>3

LEMMA DisconnectMans ==
  ASSUME FightState, NEW p \in Players, Disconnect(p) PROVE MannedStep
  <1>0. /\ phase \in Phases \ {"queue"} /\ Stage = phase /\ "left" \in Statuses
    BY FightTypes DEF Disconnect, Phases, Statuses
  <1>1. CASE Playing(p)
    <2> DEFINE g == [game EXCEPT !.status[p] = "left"]
    <2>1. /\ Sound(g) /\ g.status = [game.status EXCEPT ![p] = "left"]
          /\ g.position = game.position
          /\ g.state = game.state /\ g.lives = game.lives /\ g.lobby = game.lobby
          /\ g.action = game.action /\ g.gamestate = game.gamestate
      BY <1>0, FightTypes, StatusSound DEF Games
    <2>2. UpdateQueue(g, "join", {p}, phase)
      BY <1>1 DEF Disconnect
    <2> HIDE DEF g
    <2>3. Left(g) # {}
      BY <2>1, FightTypes DEF Left
    <2>4. Manned(g, phase)
      BY <1>0, <2>1, <2>3, FightTypes, OutThinned DEF Manned, Crewed, Staffed, FightState
    <2>5. \A q \in Players \ {p} :
             g.position[q] > 0 => g.status[q] \in {"spectator", "playing"}
      BY <2>1, FightTypes DEF FightState, Here
    <2> QED
      BY <1>0, <2>1, <2>2, <2>4, <2>5, QueueManned
  <1>2. CASE Spectating(p)
    <2> DEFINE g == Erase(game, p)
    <2>1. /\ Sound(g) /\ g.status = [game.status EXCEPT ![p] = "absent"]
          /\ g.position = game.position
          /\ g.state = game.state /\ g.lobby = game.lobby
          /\ g.action = game.action /\ g.gamestate = game.gamestate
          /\ \A q \in Players \ {p} : g.lives[q] = game.lives[q]
      BY FightTypes, EraseSound, EraseFields
    <2>2. UpdateQueue(g, "join", {p}, phase)
      BY <1>2 DEF Disconnect, Spectating, Playing
    <2> HIDE DEF g
    <2>3. game.status[p] \notin {"playing", "left"}
      BY <1>2 DEF Spectating
    <2>4. Manned(g, phase)
      BY <1>0, <2>1, <2>3, FightTypes, BystanderManned DEF FightState
    <2>5. \A q \in Players \ {p} :
             g.position[q] > 0 => g.status[q] \in {"spectator", "playing"}
      BY <2>1, FightTypes DEF FightState, Here
    <2> QED
      BY <1>0, <2>1, <2>2, <2>4, <2>5, QueueManned
  <1> QED
    BY <1>1, <1>2 DEF Disconnect

\* One joins, whose place in the queue may have been cleared before.
LEMMA JoinMans ==
  ASSUME FightState, NEW p \in Players, game.status[p] # "left", NEW g, Sound(g),
         SameFight(game, g),
         \A q \in Players : g.position[q] > 0 => game.position[q] > 0,
         game' = JoinPlayer(g, p), Stage' = Stage
  PROVE  MannedStep
  <1> DEFINE h == JoinPlayer(g, p)
  <1>1. Manned(g, Stage) /\ g.status = game.status
    BY SameManned DEF FightState, SameFight
  <1>2. Manned(h, Stage)
    BY <1>1, FightTypes, JoinManned
  <1>3. /\ h.status = [g.status EXCEPT ![p] = "playing"]
        /\ h.position = g.position
    BY FightTypes, JoinPlayerSound
  <1>4. game' = h
    OBVIOUS
  <1> HIDE DEF h
  <1>5. Here(h)
    BY <1>1, <1>3, FightTypes DEF FightState, Here
  <1> QED
    BY <1>2, <1>4, <1>5 DEF MannedStep

LEMMA JoinRequestMans ==
  ASSUME FightState, NEW p \in Players, JoinRequest(p) PROVE MannedStep
  <1>0. /\ phase = "packets" /\ Stage = "packets" /\ game.status[p] = "spectator"
        /\ "packets" \in Phases \ {"queue"}
    BY FightTypes DEF JoinRequest, Spectating, Phases
  <1>1. CASE game' = JoinPlayer(game, p) /\ UNCHANGED <<phase, queue>>
    <2>1. Stage' = Stage /\ SameFight(game, game)
      BY <1>1 DEF Stage, SameFight
    <2> QED
      BY <1>0, <1>1, <2>1, FightTypes, JoinMans
  <1>2. CASE UpdateQueue([game EXCEPT !.position[p] = 255], "join", {}, "packets")
    <2> DEFINE g == [game EXCEPT !.position[p] = 255]
    <2>1. Sound(g) /\ g.position = [game.position EXCEPT ![p] = 255]
      BY FightTypes, PositionSound
    <2>2. SameFight(game, g)
      BY FightTypes DEF SameFight, Games
    <2>3. UpdateQueue(g, "join", {}, "packets")
      BY <1>2
    <2> HIDE DEF g
    <2>4. Manned(g, "packets")
      BY <1>0, <2>2, SameManned DEF FightState
    <2>5. \A q \in Players \ {} : g.position[q] > 0 => g.status[q] \in {"spectator", "playing"}
      BY <1>0, <2>1, <2>2, FightTypes DEF FightState, Here, SameFight
    <2> QED
      BY <1>0, <2>1, <2>3, <2>4, <2>5, QueueManned
  <1> QED
    BY <1>1, <1>2 DEF JoinRequest

\* One becomes a spectator in the game g, in which the others are where they were.
LEMMA SpecMans ==
  ASSUME FightState, NEW p \in Players, NEW g, Sound(g), SameFight(game, g),
         g.position = game.position, NEW from, Manned(game, from),
         NEW h, h = SpecPlayer(g, p)
  PROVE  /\ Sound(h) /\ Manned(h, from) /\ h.position = game.position
         /\ \A q \in Players \ {p} :
               h.position[q] > 0 => h.status[q] \in {"spectator", "playing"}
  <1>1. Manned(g, from) /\ g.status = game.status
    BY SameManned DEF SameFight
  <1>2. /\ Sound(h) /\ h.status = [g.status EXCEPT ![p] = "spectator"]
        /\ h.position = g.position
    BY FightTypes, SpecPlayerSound
  <1>3. Manned(h, from)
    BY <1>1, FightTypes, SpecManned
  <1> QED
    BY <1>1, <1>2, <1>3, FightTypes DEF FightState, Here

\* Delays are not read by the fight.
LEMMA DelayMans ==
  ASSUME NEW g, Sound(g), NEW p \in Players, NEW n \in Nat, NEW h,
         h = [g EXCEPT !.delay[p] = n]
  PROVE  Sound(h) /\ SameFight(g, h) /\ h.position = g.position
  <1>1. Sound(h)
    BY DelaySound DEF Keeps
  <1> QED
    BY <1>1 DEF Sound, SameFight, Games

LEMMA SpectateRequestMans ==
  ASSUME FightState, NEW p \in Players, SpectateRequest(p) PROVE MannedStep
  <1>0. /\ phase = "packets" /\ Stage = "packets" /\ "packets" \in Phases \ {"queue"}
        /\ SameFight(game, game) /\ Manned(game, "packets")
    BY FightTypes DEF SpectateRequest, Phases, SameFight, FightState
  <1>1. CASE UpdateQueue(SpecPlayer(game, p), "join", {p}, "packets")
    <2> DEFINE h == SpecPlayer(game, p)
    <2>1. /\ Sound(h) /\ Manned(h, "packets")
          /\ \A q \in Players \ {p} :
                h.position[q] > 0 => h.status[q] \in {"spectator", "playing"}
      BY <1>0, FightTypes, SpecMans
    <2> QED
      BY <1>0, <1>1, <2>1, QueueManned
  <1>2. CASE UpdateQueue([game EXCEPT !.delay[p] = ReJoinDelay], "join", {p}, "packets")
    <2> DEFINE h == [game EXCEPT !.delay[p] = ReJoinDelay]
    <2>1. /\ Sound(h) /\ SameFight(game, h) /\ h.position = game.position
      BY FightTypes, BoundsAssumption, DelayMans
    <2>2. UpdateQueue(h, "join", {p}, "packets")
      BY <1>2
    <2> HIDE DEF h
    <2>3. Manned(h, "packets")
      BY <1>0, <2>1, SameManned
    <2>4. \A q \in Players \ {p} :
             h.position[q] > 0 => h.status[q] \in {"spectator", "playing"}
      BY <2>1 DEF FightState, Here, SameFight
    <2> QED
      BY <1>0, <2>1, <2>2, <2>3, <2>4, QueueManned
  <1> QED
    BY <1>1, <1>2 DEF SpectateRequest

LEMMA FragsSame ==
  ASSUME NEW g, Sound(g), NEW victim \in Players, NEW killer \in Players \cup {NoOne}
  PROVE  SameFight(g, GiveFrags(g, victim, killer))
  <1> DEFINE x == Scorer(victim, killer)
             score == [g.score EXCEPT ![x] = @ + Frag(victim, killer)]
  <1>1. \/ GiveFrags(g, victim, killer) = g
        \/ GiveFrags(g, victim, killer) = [g EXCEPT !.score = score]
    BY DEF GiveFrags, Sound, Games
  <1> HIDE DEF score
  <1> QED
    BY <1>1 DEF SameFight, Sound, Games

LEMMA KillMans ==
  ASSUME Unattended, FightState, NEW victim \in Players, NEW killer \in Players \cup {NoOne},
         Kill(victim, killer)
  PROVE  MannedStep
  <1> DEFINE given == GiveFrags(game, victim, killer)
             lives == [given.lives EXCEPT ![victim] = @ - 1]
             hurt == [given EXCEPT !.lives = lives]
             scored == TakeLife(given, victim)
             limited == IF killer # NoOne /\ cvars.gametype \in {"dm", "teamdm"}
                        THEN ScoreCheckEndGame(scored)
                        ELSE scored
             h == LivesCheckEndGame(limited)
  <1>0. phase # "queue" /\ Stage = phase /\ Stage' = Stage
    BY FightTypes DEF Kill, Acting, Stage
  <1>1. game' = h /\ KillPlayer(victim, killer) = h
    <2>1. game.time > 0 /\ game' = KillPlayer(victim, killer)
      BY DEF Kill, Unattended
    <2>2. game.time \in Nat
      BY FightTypes DEF Games
    <2>3. game.time # 0
      BY <2>1, <2>2
    <2> QED
      BY <2>1, <2>3 DEF KillPlayer
  <1>2. h.status = game.status /\ h.position = game.position
    BY <1>1, FightTypes, KillPlayerSound DEF Keeps, Frame
  <1>3. Sound(given) /\ SameFight(game, given)
    BY FightTypes, GiveFragsSound, FragsSame DEF Keeps
  <1> HIDE DEF given
  <1>4. Sound(scored)
    BY <1>3, TakeLifeSound DEF Keeps
  <1>5. \/ scored = given
        \/ given.state = "ingame" /\ scored = hurt
    BY <1>3 DEF TakeLife, Sound, Games
  <1>6. /\ scored.status = given.status /\ scored.state = given.state
        /\ scored.lobby = given.lobby /\ scored.action = given.action
        /\ scored.gamestate = given.gamestate
        /\ given.state # "ingame" => scored.lives = given.lives
    <2>1. /\ hurt.status = given.status /\ hurt.state = given.state
          /\ hurt.lobby = given.lobby /\ hurt.action = given.action
          /\ hurt.gamestate = given.gamestate
      <3> HIDE DEF lives
      <3> QED
        BY <1>3 DEF Sound, Games
    <2> HIDE DEF hurt, scored
    <2> QED
      BY <1>5, <2>1
  <1> HIDE DEF scored
  <1>7. game.gamestate = "level" => Thinned(scored, Stage) /\ Staffed(scored)
    <2>1. SUFFICES ASSUME game.gamestate = "level" PROVE Thinned(scored, Stage) /\ Staffed(scored)
      OBVIOUS
    <2>2. Thinned(given, Stage) /\ Staffed(given) /\ given.gamestate = "level"
      BY <1>3, <2>1, SameManned DEF FightState, Manned, Crewed, SameFight
    <2>3. Left(scored) = Left(given) /\ InGame(scored) = InGame(given)
      BY <1>6 DEF Left, InGame
    <2>4. given.state # "ingame" => Alive(scored) = Alive(given)
      BY <1>6, SameCrew
    <2> QED
      BY <1>6, <2>2, <2>3, <2>4 DEF Thinned, Staffed, Due, Ordered
  <1>8. Winds(scored, limited) /\ Sound(limited)
    <2>1. Sound(ScoreCheckEndGame(scored))
      BY <1>4, FightTypes, ScoreCheckSound DEF Keeps
    <2>2. Winds(scored, ScoreCheckEndGame(scored))
      BY <1>4, FightTypes, ScoreCheckWinds
    <2>3. Winds(scored, scored)
      BY <1>4, WindsItself DEF Sound
    <2> QED
      BY <1>4, <2>1, <2>2, <2>3
  <1> HIDE DEF limited
  <1>9. limited.gamestate = game.gamestate
    BY <1>3, <1>6, <1>8 DEF Winds, Run, Flow, Kept, SameFight
  <1>10. Manned(h, Stage)
    BY <1>7, <1>8, <1>9, FightTypes, WindsStaffed, LivesCheckManned
  <1> HIDE DEF h
  <1> QED
    BY <1>0, <1>1, <1>2, <1>10, PlainManned DEF FightState, Here

LEMMA CaptureMans ==
  ASSUME FightState, NEW p \in Players, Capture(p) PROVE MannedStep
  <1> DEFINE t == TeamOf[p]
             score == [game.score EXCEPT ![t] = @ + 1]
             g == [game EXCEPT !.score = score]
             h == ScoreCheckEndGame(g)
  <1>0. phase # "queue" /\ Stage = phase /\ Stage' = Stage
    BY FightTypes DEF Capture, Acting, Stage
  <1>1. t \in Teams /\ t \in Sides
    BY TeamsAssumption DEF Sides
  <1> HIDE DEF t
  <1>2. game' = h
    BY FightTypes DEF Capture, t, Games
  <1>3. score \in [Sides -> Int]
    BY <1>1, FightTypes DEF Games
  <1> HIDE DEF score
  <1>4. /\ g \in Games /\ SameFight(game, g) /\ g.position = game.position
        /\ g.round = game.round /\ g.start = game.start
    BY <1>3, FightTypes DEF Games, SameFight
  <1> HIDE DEF g
  <1>5. Sound(g)
    BY <1>4, FightTypes, SameRound DEF SameFight
  <1>6. Manned(h, Stage)
    BY <1>4, <1>5, FightTypes, SameManned, ScoreCheckWinds, WindsManned DEF FightState
  <1>7. h.status = game.status /\ h.position = game.position
    BY <1>4, <1>5, FightTypes, ScoreCheckSound DEF Keeps, Frame, SameFight
  <1> HIDE DEF h
  <1> QED
    BY <1>0, <1>2, <1>6, <1>7, PlainManned DEF FightState, Here

\* The level is over.
LEMMA OverMans ==
  ASSUME FightState, NEW k, game' = k, k.gamestate # "level",
         k.status = game.status, k.position = game.position
  PROVE  MannedStep
  <1>1. Manned(k, Stage')
    BY DEF Manned
  <1> QED
    BY <1>1, PlainManned DEF FightState, Here

LEMMA ExitMans == ASSUME FightState, game' = ExitLevel(game) PROVE MannedStep
  <1> DEFINE k == ExitLevel(game)
  <1>1. k.gamestate = "intermission" /\ k.status = game.status /\ k.position = game.position
    BY FightTypes DEF ExitLevel, Games
  <1>2. game' = k
    OBVIOUS
  <1> HIDE DEF k
  <1> QED
    BY <1>1, <1>2, OverMans

LEMMA ConsoleMans ==
  ASSUME Unattended, FightState, NEW command \in Commands, Console(command)
  PROVE  MannedStep
  <1>0. phase = "packets" /\ Stage = "packets" /\ Stage' = "packets"
    BY FightTypes DEF Console, Stage
  <1>1. command \in {"nextmap", "map"}
    BY ChoicesAssumption DEF Unattended, CommandKinds
  <1>2. CASE command = "nextmap"
    BY <1>2, ExitMans DEF Console
  <1>3. CASE command = "map"
    <2> DEFINE k == DeferedInitNew(game)
    <2>1. game' = k
      BY <1>3 DEF Console
    <2>2. /\ k.status = game.status /\ k.position = game.position /\ k.lives = game.lives
          /\ k.state = game.state /\ k.lobby = game.lobby /\ k.gamestate = game.gamestate
          /\ k.action = "newgame"
      BY FightTypes DEF DeferedInitNew, Games
    <2> HIDE DEF k
    <2>3. Left(k) = Left(game) /\ InGame(k) = InGame(game) /\ Alive(k) = Alive(game)
      BY <2>2, SameCrew
    <2>4. Manned(k, "packets")
      BY <1>0, <2>2, <2>3 DEF FightState, Manned, Thinned, Crewed, Staffed, Due, Ordered
    <2> QED
      BY <1>0, <2>1, <2>2, <2>4, PlainManned DEF FightState, Here
  <1> QED
    BY <1>1, <1>2, <1>3

LEMMA VoteMans ==
  ASSUME Unattended, FightState, NEW vote \in Votes, VotePasses(vote) PROVE MannedStep
  <1>0. /\ phase = "votes" /\ Stage = "votes" /\ "commands" \in Phases \ {"queue"}
        /\ Manned(game, "votes")
    BY FightTypes DEF VotePasses, Phases, FightState
  <1>1. vote \in {"forcespec", "map"}
    BY ChoicesAssumption DEF Unattended, VoteKinds
  <1>2. CASE vote = "map"
    <2> DEFINE k == DeferedInitNew(game)
               h == RunDelays(k)
    <2>1. game' = h /\ Stage' = "commands"
      BY <1>2 DEF VotePasses, Stage
    <2>2. /\ k.status = game.status /\ k.position = game.position /\ k.lives = game.lives
          /\ k.state = game.state /\ k.lobby = game.lobby /\ k.gamestate = game.gamestate
          /\ k.action = "newgame" /\ Sound(k) /\ k \in Games
      <3>1. Sound(k)
        BY FightTypes, ActionSound DEF DeferedInitNew, Keeps, Actions
      <3> QED
        BY <3>1, FightTypes DEF DeferedInitNew, Games, Sound
    <2> HIDE DEF k
    <2>3. Left(k) = Left(game) /\ InGame(k) = InGame(game) /\ Alive(k) = Alive(game)
      BY <2>2, SameCrew
    <2>4. Manned(k, "commands")
      BY <1>0, <2>2, <2>3 DEF Manned, Thinned, Crewed, Staffed, Due, Ordered
    <2>5. Manned(h, "commands") /\ h.status = k.status /\ h.position = k.position
      BY <2>2, <2>4, DelaysSame, SameManned, RunDelaysSound DEF Keeps, Frame
    <2> HIDE DEF h
    <2> QED
      BY <2>1, <2>2, <2>5, PlainManned DEF FightState, Here
  <1>3. CASE vote = "forcespec"
    <2>1. PICK p \in InGame(game) :
             UpdateQueue(RunDelays(SpecPlayer(game, p)), "join", {p}, "commands")
      BY <1>3 DEF VotePasses
    <2> DEFINE k == SpecPlayer(game, p)
               h == RunDelays(k)
    <2>2. p \in Players /\ SameFight(game, game)
      BY DEF InGame, SameFight
    <2>3. /\ Sound(k) /\ Manned(k, "votes") /\ k.position = game.position
          /\ \A q \in Players \ {p} :
                k.position[q] > 0 => k.status[q] \in {"spectator", "playing"}
      BY <1>0, <2>2, FightTypes, SpecMans
    <2> HIDE DEF k
    <2>4. Manned(k, "commands") /\ k \in Games
      BY <2>3, StageManned DEF Sound
    <2>5. /\ Manned(h, "commands") /\ Sound(h)
          /\ h.status = k.status /\ h.position = k.position
      BY <2>3, <2>4, DelaysSame, SameManned, RunDelaysSound DEF Keeps, Frame
    <2>6. UpdateQueue(h, "join", {p}, "commands")
      BY <2>1 DEF k
    <2> HIDE DEF h
    <2> QED
      BY <1>0, <2>3, <2>5, <2>6, QueueManned
  <1> QED
    BY <1>1, <1>2, <1>3

LEMMA GameTicsMans == ASSUME FightState, GameTics PROVE MannedStep
  <1> DEFINE held == HoldTime(game)
             tic == Tic(held)
             timed == TimeCheckEndGame(tic)
             ticked == IF game.gamestate = "level" THEN timed ELSE game
             delayed == RunDelays(ticked)
  <1>0. /\ phase = "packets" /\ Stage = "packets" /\ Stage' \in {"votes", "commands"}
        /\ game' = ticked \/ game' = delayed
    BY FightTypes DEF GameTics, Stage
  <1>1. Sound(held) /\ held \in Games /\ SameFight(game, held) /\ held.position = game.position
    BY FightTypes, HoldTimeSound, HoldSame DEF Stays, Sound
  <1> HIDE DEF held
  <1>2. Sound(tic) /\ tic.status = held.status /\ tic.position = held.position
    BY <1>1, FightTypes, TicSound DEF Keeps, Frame
  <1>3. game.gamestate = "level" => Manned(tic, Stage')
    <2>1. held.gamestate = game.gamestate /\ Manned(held, "packets")
      BY <1>0, <1>1, SameManned DEF FightState, SameFight
    <2> QED
      BY <1>0, <1>1, <2>1, FightTypes, TicManned
  <1> HIDE DEF tic
  <1>4. /\ Sound(timed) /\ timed.status = tic.status /\ timed.position = tic.position
        /\ game.gamestate = "level" => Manned(timed, Stage')
    <2>1. Winds(tic, timed)
      BY <1>2, FightTypes, TimeCheckWinds
    <2> QED
      BY <1>2, <1>3, <2>1, FightTypes, TimeCheckSound, WindsManned DEF Keeps, Frame
  <1> HIDE DEF timed
  <1>5. /\ Sound(ticked) /\ ticked \in Games /\ Manned(ticked, Stage')
        /\ ticked.status = game.status /\ ticked.position = game.position
    <2>1. CASE game.gamestate = "level"
      BY <1>1, <1>2, <1>4, <2>1 DEF SameFight, Sound
    <2>2. CASE game.gamestate # "level"
      BY <2>2, FightTypes DEF Manned
    <2> QED
      BY <2>1, <2>2
  <1> HIDE DEF ticked
  <1>6. /\ Manned(delayed, Stage')
        /\ delayed.status = game.status /\ delayed.position = game.position
    BY <1>5, DelaysSame, SameManned, RunDelaysSound DEF Keeps, Frame
  <1> HIDE DEF delayed
  <1> QED
    BY <1>0, <1>5, <1>6, PlainManned DEF FightState, Here

LEMMA EndVotesMans == ASSUME FightState, EndVotes PROVE MannedStep
  <1> DEFINE k == RunDelays(game)
  <1>0. Stage = "votes" /\ Stage' = "commands" /\ game' = k /\ Manned(game, "votes")
    BY DEF EndVotes, Stage, FightState
  <1>1. Manned(game, "commands")
    BY <1>0, StageManned
  <1>2. Manned(k, "commands") /\ k.status = game.status /\ k.position = game.position
    BY <1>1, FightTypes, DelaysSame, SameManned, RunDelaysSound DEF Keeps, Frame
  <1> HIDE DEF k
  <1> QED
    BY <1>0, <1>2, PlainManned DEF FightState, Here

LEMMA DoResetLevelMans == ASSUME FightState, DoResetLevel PROVE MannedStep
  <1> DEFINE full == game.action = "fullresetlevel"
             g == ResetLevel(game, full)
  <1>0. /\ full \in BOOLEAN /\ "world" \in Phases \ {"queue"}
        /\ Stage = "commands" /\ Manned(game, "commands")
    BY DEF DoResetLevel, Phases, Stage, FightState
  <1>1. UpdateQueue(g, "start", {}, "world")
    BY DEF DoResetLevel
  <1> HIDE DEF full
  <1>2. Sound(g) /\ g.status = game.status /\ g.position = game.position /\ Manned(g, "world")
    BY <1>0, FightTypes, ResetLevelSound, ResetLevelManned DEF Stays
  <1> HIDE DEF g
  <1>3. \A q \in Players \ {} : g.position[q] > 0 => g.status[q] \in {"spectator", "playing"}
    BY <1>2 DEF FightState, Here
  <1> QED
    BY <1>0, <1>1, <1>2, <1>3, QueueManned

LEMMA DoCompletedMans == ASSUME FightState, DoCompleted PROVE MannedStep
  <1> DEFINE k == [game EXCEPT !.action = "nothing"]
  <1>1. k.gamestate = "intermission" /\ k.status = game.status /\ k.position = game.position
    BY FightTypes DEF DoCompleted, Games
  <1>2. game' = k
    BY DEF DoCompleted
  <1> HIDE DEF k
  <1> QED
    BY <1>1, <1>2, OverMans

LEMMA DoNewGameMans == ASSUME FightState, DoNewGame PROVE MannedStep
  <1>1. PICK lobby \in LobbyMaps :
          \/ game' = LoadLevel(game, lobby) /\ phase' \in {"world", "losers"}
          \/ UpdateQueue(LoadLevel(game, lobby), "start", {}, "world")
    BY DEF DoNewGame
  <1>2. lobby \in {0, 1} /\ "world" \in Phases \ {"queue"}
    BY ChoicesAssumption DEF Phases
  <1> DEFINE g == LoadLevel(game, lobby)
  <1>3. Sound(g) /\ g.status = game.status /\ g.position = game.position
    BY <1>2, FightTypes, LoadLevelSound DEF Stays
  <1>4. ASSUME NEW stage PROVE Manned(g, stage)
    BY <1>2, FightTypes, LoadLevelManned
  <1>5. \/ game' = g /\ phase' \in {"world", "losers"}
        \/ UpdateQueue(g, "start", {}, "world")
    BY <1>1
  <1> HIDE DEF g
  <1>6. CASE game' = g /\ phase' \in {"world", "losers"}
    BY <1>3, <1>4, <1>6, PlainManned DEF FightState, Here
  <1>7. CASE UpdateQueue(g, "start", {}, "world")
    <2>1. \A q \in Players \ {} : g.position[q] > 0 => g.status[q] \in {"spectator", "playing"}
      BY <1>3 DEF FightState, Here
    <2>2. Manned(g, "world")
      BY <1>4
    <2> QED
      BY <1>2, <1>3, <1>7, <2>1, <2>2, QueueManned
  <1> QED
    BY <1>5, <1>6, <1>7

LEMMA BootLoserMans ==
  ASSUME FightState, NEW p \in Players, BootLoser(p) PROVE MannedStep
  <1> DEFINE s == SpecPlayer(game, p)
             g == [s EXCEPT !.delay[p] = 0]
  <1>0. /\ UpdateQueue(g, "join", {p}, "losers") /\ Stage = "losers"
        /\ "losers" \in Phases \ {"queue"} /\ SameFight(game, game)
        /\ Manned(game, "losers")
    BY DEF BootLoser, Stage, Phases, SameFight, FightState
  <1>1. /\ Sound(s) /\ Manned(s, "losers")
        /\ \A q \in Players \ {p} :
              s.position[q] > 0 => s.status[q] \in {"spectator", "playing"}
    BY <1>0, FightTypes, SpecMans
  <1> HIDE DEF s
  <1>2. Sound(g) /\ SameFight(s, g) /\ g.position = s.position
    BY <1>1, DelayMans
  <1> HIDE DEF g
  <1>3. Manned(g, "losers")
    BY <1>1, <1>2, SameManned
  <1>4. \A q \in Players \ {p} : g.position[q] > 0 => g.status[q] \in {"spectator", "playing"}
    BY <1>1, <1>2 DEF SameFight
  <1> QED
    BY <1>0, <1>2, <1>3, <1>4, QueueManned

LEMMA LosersBootedMans == ASSUME FightState, LosersBooted PROVE MannedStep
  <1>0. /\ UpdateQueue(game, "start", {}, "world") /\ Stage = "losers"
        /\ "world" \in Phases \ {"queue"} /\ Manned(game, "losers")
    BY DEF LosersBooted, Stage, Phases, FightState
  <1>1. Manned(game, "world")
    BY <1>0, NothingOrdered, StageManned
  <1>2. \A q \in Players \ {} :
           game.position[q] > 0 => game.status[q] \in {"spectator", "playing"}
    BY DEF FightState, Here
  <1> QED
    BY <1>0, <1>1, <1>2, FightTypes, QueueManned

LEMMA ServeQueueMans == ASSUME FightState, ServeQueue PROVE MannedStep
  <1>0. phase = "queue"
    BY DEF ServeQueue
  <1>1. PICK p \in queue.todo :
          \/ /\ game' = JoinPlayer([game EXCEPT !.position[p] = 0], p)
             /\ QueueAfter(p, queue.place)
          \/ /\ game' = [game EXCEPT !.position[p] = queue.place]
             /\ QueueAfter(p, queue.place + 1)
    BY DEF ServeQueue
  <1>2. /\ queue \in Queues /\ queue.place \in Nat /\ queue.back # "queue"
        /\ p \in Players /\ game.position[p] > 0
    BY <1>0, <1>1, TypesOfTheRest DEF FightState, Queues, IInv, PlacesOK, Queued
  <1>3. ASSUME NEW n, QueueAfter(p, n) PROVE Stage' = Stage
    BY <1>0, <1>2, <1>3 DEF QueueAfter, Stage, Queues
  <1>4. CASE /\ game' = JoinPlayer([game EXCEPT !.position[p] = 0], p)
             /\ QueueAfter(p, queue.place)
    <2> DEFINE g == [game EXCEPT !.position[p] = 0]
    <2>1. Sound(g) /\ g.position = [game.position EXCEPT ![p] = 0]
      BY <1>2, FightTypes, PositionSound
    <2>2. SameFight(game, g)
      BY FightTypes DEF SameFight, Games
    <2>3. game' = JoinPlayer(g, p) /\ Stage' = Stage
      BY <1>3, <1>4
    <2> HIDE DEF g
    <2>4. \A q \in Players : g.position[q] > 0 => game.position[q] > 0
      BY <1>2, <2>1, FightTypes
    <2>5. game.status[p] # "left"
      BY <1>2 DEF FightState, Here
    <2> QED
      BY <1>2, <2>1, <2>2, <2>3, <2>4, <2>5, JoinMans
  <1>5. CASE /\ game' = [game EXCEPT !.position[p] = queue.place]
             /\ QueueAfter(p, queue.place + 1)
    <2> DEFINE g == [game EXCEPT !.position[p] = queue.place]
    <2>1. SameFight(game, g) /\ game' = g /\ Stage' = Stage
      BY <1>3, <1>5, FightTypes DEF SameFight, Games
    <2>2. g.position = [game.position EXCEPT ![p] = queue.place]
      BY FightTypes DEF Games
    <2> HIDE DEF g
    <2>3. Here(g)
      BY <1>2, <2>1, <2>2, FightTypes DEF FightState, Here, SameFight
    <2>4. Manned(g, Stage)
      BY <2>1, SameManned DEF FightState
    <2> QED
      BY <2>1, <2>3, <2>4 DEF MannedStep
  <1> QED
    BY <1>1, <1>4, <1>5

LEMMA RunWorldMans == ASSUME FightState, RunWorld PROVE MannedStep
  <1>1. /\ Stage = "commands" /\ Stage' = "world" /\ game' = game
        /\ game.action = "nothing" /\ Manned(game, "commands")
    BY DEF RunWorld, Stage, FightState
  <1>2. Manned(game, "world")
    BY <1>1, StageManned
  <1> QED
    BY <1>1, <1>2 DEF MannedStep, FightState

LEMMA RunIntermissionMans == ASSUME FightState, RunIntermission PROVE MannedStep
  <1> DEFINE counted == [game EXCEPT !.mapchange = @ - 1]
             k == IF counted.mapchange = 0 THEN DeferedInitNew(counted) ELSE counted
  <1>1. counted \in Games /\ counted.gamestate = "intermission"
        /\ counted.status = game.status /\ counted.position = game.position
    BY FightTypes DEF RunIntermission, Games
  <1>2. game' = k
    BY DEF RunIntermission
  <1> HIDE DEF counted
  <1>3. k.gamestate = "intermission" /\ k.status = game.status /\ k.position = game.position
    BY <1>1 DEF DeferedInitNew, Games
  <1> HIDE DEF k
  <1> QED
    BY <1>2, <1>3, OverMans

LEMMA EndTickerMans == ASSUME FightState, EndTicker PROVE MannedStep
  <1> DEFINE k == [game EXCEPT !.time = @ + 1]
  <1>1. /\ Stage = "world" /\ Stage' = "drops" /\ game' = k /\ Manned(game, "world")
    BY DEF EndTicker, Stage, FightState
  <1>2. SameFight(game, k) /\ k.position = game.position
    BY FightTypes DEF SameFight, Games
  <1> HIDE DEF k
  <1>3. Manned(game, "drops")
    BY <1>1, NothingOrdered, StageManned
  <1>4. Manned(k, "drops")
    BY <1>2, <1>3, SameManned
  <1> QED
    BY <1>1, <1>2, <1>4, PlainManned DEF FightState, Here, SameFight

LEMMA EndDropsMans == ASSUME FightState, EndDrops PROVE MannedStep
  <1>1. /\ Stage = "drops" /\ Stage' \in {"packets", "cleanup"} /\ game' = game
        /\ Manned(game, "drops")
    BY DEF EndDrops, Stage, FightState
  <1>2. Manned(game, "packets") /\ Manned(game, "cleanup")
    BY <1>1, NothingOrdered, StageManned
  <1> QED
    BY <1>1, <1>2 DEF MannedStep, FightState

LEMMA RemoveMans ==
  ASSUME FightState, NEW p \in Players, RemoveDisconnected(p) PROVE MannedStep
  <1> DEFINE e == Erase(game, p)
             g == AssertValidPlayerCount(e)
             back == IF Left(game) = {p} THEN "packets" ELSE "cleanup"
  <1>0. /\ UpdateQueue(g, "join", {p}, back) /\ Stage = "cleanup"
        /\ back \in Phases \ {"queue"} /\ Manned(game, "cleanup")
    BY DEF RemoveDisconnected, Stage, Phases, FightState
  <1> HIDE DEF back
  <1>1. /\ Sound(e) /\ e.status = [game.status EXCEPT ![p] = "absent"]
        /\ e.position = game.position
        /\ e.state = game.state /\ e.lobby = game.lobby
        /\ e.action = game.action /\ e.gamestate = game.gamestate
        /\ \A q \in Players \ {p} : e.lives[q] = game.lives[q]
    BY FightTypes, EraseSound, EraseFields
  <1> HIDE DEF e
  <1>2. e.gamestate = "level" => Thinned(e, "cleanup")
    BY <1>0, <1>1, FightTypes, OutThinned DEF Manned
  <1>3. Manned(g, "cleanup")
    BY <1>1, <1>2, FightTypes, PlayerCountManned
  <1>4. Sound(g) /\ g.status = e.status /\ g.position = e.position
    BY <1>1, FightTypes, PlayerCountSound DEF Keeps, Frame
  <1> HIDE DEF g
  <1>5. Manned(g, back)
    BY <1>3, NothingOrdered, StageManned
  <1>6. \A q \in Players \ {p} : g.position[q] > 0 => g.status[q] \in {"spectator", "playing"}
    BY <1>1, <1>4, FightTypes DEF FightState, Here
  <1> QED
    BY <1>0, <1>4, <1>5, <1>6, QueueManned

LEMMA NextMans == ASSUME Unattended, FightState, Next PROVE MannedStep
  <1>1. CASE Server
    BY <1>1, GameTicsMans, EndVotesMans, DoResetLevelMans, DoCompletedMans, DoNewGameMans,
       BootLoserMans, LosersBootedMans, ServeQueueMans, RunWorldMans, RunIntermissionMans,
       EndTickerMans, EndDropsMans, RemoveMans
       DEF Server
  <1>2. CASE Clients
    <2>1. PICK p \in Players :
             \/ Connect(p) \/ Disconnect(p) \/ JoinRequest(p) \/ SpectateRequest(p)
             \/ ReadyRequest(p)
             \/ \E killer \in Players \cup {NoOne} : Kill(p, killer)
             \/ Capture(p) \/ Exit(p)
      BY <1>2 DEF Clients, InGame, Left
    <2>2. ~ReadyRequest(p)
      BY FightTypes DEF ReadyRequest
    <2>3. Exit(p) => game' = ExitLevel(game)
      BY DEF Exit
    <2> QED
      BY <2>1, <2>2, <2>3, ConnectMans, DisconnectMans, JoinRequestMans,
         SpectateRequestMans, KillMans, CaptureMans, ExitMans
  <1>3. CASE Operators
    BY <1>3, ConsoleMans, VoteMans DEF Operators
  <1> QED
    BY <1>1, <1>2, <1>3 DEF Next

-----------------------------------------------------------------------------

LEMMA InitManned == ASSUME Unattended, Init PROVE MannedInv
  <1>1. SUFFICES ASSUME cvars.lives > 0 PROVE Manned(game, Stage) /\ Here(game)
    BY DEF MannedInv
  <1>2. Settled /\ LastStanding
    BY <1>1 DEF Init, Settled, LastStanding, Unattended
  <1>3. PICK lobby \in LobbyMaps : game = Reset(Empty(lobby))
    BY DEF Init
  <1> DEFINE e == Empty(lobby)
  <1>4. /\ e \in Games /\ e.action = "nothing" /\ InGame(e) = {} /\ Sound(e)
        /\ \A p \in Players : e.position[p] = 0
    <2>1. lobby \in {0, 1}
      BY ChoicesAssumption
    <2>2. e \in Games
      BY <2>1 DEF Empty, Games, States, WarmupStates, WinInfo, NoWinner, WinTypes,
                  Actions, Statuses
    <2> QED
      BY <1>2, <2>2, CvarTypes DEF Empty, InGame, Sound, RoundOK, StartOK, WarmupStates, Cvars
  <1>5. game = Reset(e)
    BY <1>3
  <1> HIDE DEF e
  <1>6. game.state = "warmup" /\ game.action = "nothing"
    BY <1>2, <1>4, <1>5, ResetState
  <1>7. game.position = e.position
    BY <1>2, <1>4, <1>5, ResetSound DEF Keeps, Frame
  <1>8. Manned(game, Stage)
    BY <1>6, NobodyNeeded DEF Ordered
  <1> QED
    BY <1>4, <1>7, <1>8 DEF Here

LEMMA MannedAfter == ASSUME cvars' = cvars, MannedStep PROVE MannedInv'
  <1>1. /\ cvars'.lives = cvars.lives /\ IsCoopGame' = IsCoopGame
        /\ IsTeamGame' = IsTeamGame
    BY DEF IsTeamGame, IsCoopGame
  <1>2. Manned(game', Stage') <=> Manned(game, Stage)'
    BY <1>1 DEF Manned, Thinned, Crewed, Staffed, Enough, Due, Ordered, Left, InGame,
                Alive, TeamsOf
  <1> QED
    BY <1>1, <1>2 DEF MannedStep, MannedInv, Here

LEMMA NextManned ==
  ASSUME Unattended, IInv, FairInv, MannedInv, [Next]_vars PROVE MannedInv'
  <1>1. CASE UNCHANGED vars
    <2>1. cvars' = cvars /\ game' = game /\ Stage' = Stage
      BY <1>1 DEF vars, Stage
    <2>2. CASE cvars.lives > 0
      <3>1. Manned(game', Stage') /\ Here(game')
        BY <2>1, <2>2 DEF MannedInv
      <3> QED
        BY <2>1, <3>1, MannedAfter DEF MannedStep
    <2>3. CASE ~(cvars.lives > 0)
      BY <2>1, <2>3 DEF MannedInv
    <2> QED
      BY <2>2, <2>3
  <1>2. CASE Next
    <2>1. cvars' = cvars /\ Settled
      BY <1>2, NextStep, SoundState DEF GoodStep, Leaves
    <2>2. CASE cvars.lives > 0
      <3>1. FightState
        BY <2>1, <2>2 DEF FightState, MannedInv, LastStanding, Settled, Unattended
      <3> QED
        BY <1>2, <2>1, <3>1, NextMans, MannedAfter
    <2>3. CASE ~(cvars.lives > 0)
      BY <2>1, <2>3 DEF MannedInv
    <2> QED
      BY <2>2, <2>3
  <1> QED
    BY <1>1, <1>2

LEMMA SurvivorsFromManned == ASSUME IInv, MannedInv PROVE SurvivorsRemain
  <1> DEFINE alive == IF IsTeamGame THEN TeamsOf(Alive(game)) ELSE Alive(game)
  <1>1. SUFFICES ASSUME cvars.lives > 0, phase = "packets", Left(game) = {},
                        game.gamestate = "level", game.state = "ingame"
                 PROVE  Cardinality(alive) >= (IF IsCoopGame THEN 1 ELSE 2)
    BY DEF SurvivorsRemain
  <1>2. Stage = "packets"
    BY <1>1 DEF Stage
  <1>3. Enough(Alive(game))
    BY <1>1, <1>2 DEF MannedInv, Manned, Crewed, Due
  <1>4. IsFiniteSet(alive) /\ Cardinality(alive) \in Nat
    BY FiniteRivals, FS_CardinalityType
  <1>5. CASE IsCoopGame
    <2>1. alive # {}
      BY <1>3, <1>5 DEF Enough, IsCoopGame, IsTeamGame
    <2> HIDE DEF alive
    <2>2. Cardinality(alive) # 0
      BY <1>4, <2>1, FS_EmptySet
    <2> QED
      BY <1>4, <1>5, <2>2
  <1>6. CASE ~IsCoopGame
    <2>1. Cardinality(alive) > 1
      BY <1>3, <1>6 DEF Enough
    <2> HIDE DEF alive
    <2> QED
      BY <1>4, <1>6, <2>1
  <1> QED
    BY <1>5, <1>6

\* A match for lives that nobody but its players stops goes on between two frames
\* only with two sides that still have lives, in coop with one player: whoever
\* dies, leaves, spectates, joins, is booted or is served from the queue, and
\* whichever map is loaded (G_LivesCheckEndGame, G_AssertValidPlayerCount,
\* LevelState::tic).
THEOREM SomebodyIsLeft == ASSUME Unattended PROVE Spec => []SurvivorsRemain
  <1>1. Init => IInv /\ FairInv /\ MannedInv
    BY InitIInv, InitFair, InitManned
  <1>2. IInv /\ FairInv /\ MannedInv /\ [Next]_vars => (IInv /\ FairInv /\ MannedInv)'
    BY NextIInv, NextFairInv, NextManned
  <1>3. IInv /\ MannedInv => SurvivorsRemain
    BY SurvivorsFromManned
  <1> QED
    BY <1>1, <1>2, <1>3, PTL DEF Spec

-----------------------------------------------------------------------------
(* Nobody waits in the queue while there is room in the game.              *)

\* Every event that makes room serves the queue, but for these three: a lobby is
\* left, a match without lives goes from its end back to the warmup, or is restarted
\* there.
AlwaysServed ==
    /\ 1 \notin LobbyMaps
    /\ \A s \in Settings : s.lives = 0 => s.warmup = 0
    /\ "restart" \in Votes \cup Commands => \A s \in Settings : s.lives # 0

\* There is room for somebody who waits; games with lives let nobody in between
\* their rounds.
Opens(g) == CanJoinGame(g) /\ (cvars.lives = 0 \/ g.state \in {"preround", "ingame"})

\* No level is about to be reset or loaded, after which the queue of a game with
\* lives is served.
Steady(g, stage) ==
    cvars.lives = 0 \/ stage \notin {"votes", "commands"} \/ g.action = "nothing"

\* Somebody has a place in the queue.
Waiting(g) == \E p \in Players : g.position[p] > 0

\* Nobody waits while there is room, unless a level is about to be reset or
\* loaded.
Shut(g, stage) == Steady(g, stage) /\ Waiting(g) => ~Opens(g)

\* The clock of a game with lives: a preround is over at its time, and the round
\* starts in the tic after.
Timed(g, stage) ==
    cvars.lives # 0 /\ g.gamestate = "level" =>
        /\ g.state = "ingame" => g.start <= cvars.preroundtime + 1
        /\ g.state = "preround" => g.done <= cvars.preroundtime
        /\ g.state = "preround" /\ Steady(g, stage) =>
              /\ g.time <= cvars.preroundtime
              /\ stage \in {"packets", "drops", "cleanup"} \/ g.time < cvars.preroundtime

\* In the same tic the state stays, or the fight ends.
Follows(g, h) ==
    /\ h.lobby = g.lobby /\ h.gamestate = g.gamestate /\ h.action = g.action
    /\ h.time = g.time /\ h.start = g.start
    /\ \/ h.state = g.state /\ (g.state = "preround" => h.done = g.done)
       \/ h.state \notin {"preround", "ingame"}
    /\ cvars.lives = 0 /\ g.state = "endgame" => h.state = "endgame"

\* A game follows from itself ...
LEMMA FollowsItself == ASSUME NEW g PROVE Follows(g, g)
  BY DEF Follows

\* ... and from whatever follows from it.
LEMMA FollowsTransitive ==
  ASSUME NEW f, NEW g, NEW h, Follows(f, g), Follows(g, h) PROVE Follows(f, h)
  BY DEF Follows

\* What follows from a game in the same tic keeps its clock ...
LEMMA FollowsTimed ==
  ASSUME NEW g, NEW h, NEW stage, Follows(g, h), Timed(g, stage) PROVE Timed(h, stage)
  BY DEF Follows, Timed, Steady

\* Who has more in the game has less room.
LEMMA Roomier ==
  ASSUME NEW g \in Games, NEW h \in Games, InGame(g) \subseteq InGame(h)
  PROVE  Cardinality(InGame(g)) <= Cardinality(InGame(h))
         /\ Cardinality(InGame(g)) \in Nat /\ Cardinality(InGame(h)) \in Nat
  <1>1. InGame(h) \subseteq Players
    BY DEF InGame
  <1>2. IsFiniteSet(InGame(h))
    BY <1>1, PlayersAssumption, FS_Subset
  <1> QED
    BY <1>2, FS_Subset, FS_CardinalityType

\* ... and makes no room, as long as nobody leaves, ...
LEMMA FollowsOpens ==
  ASSUME Settled, NEW g \in Games, NEW h \in Games, Follows(g, h),
         InGame(g) \subseteq InGame(h), Opens(h)
  PROVE  Opens(g)
  <1> DEFINE m == Cardinality(InGame(g))
             n == Cardinality(InGame(h))
  <1>1. cvars.maxplayers \in Nat
    BY CvarTypes DEF Cvars
  <1>2. m <= n /\ m \in Nat /\ n \in Nat
    BY Roomier
  <1>3. n < cvars.maxplayers
    BY DEF Opens, CanJoinGame, CanJoinGameStart
  <1> HIDE DEF m, n
  <1>4. m < cvars.maxplayers
    BY <1>1, <1>2, <1>3
  <1>5. JoinTimerOver(h) <=> JoinTimerOver(g)
    BY DEF Follows, JoinTimerOver
  <1> QED
    BY <1>4, <1>5 DEF Opens, CanJoinGame, CanJoinGameStart, Follows, m

\* ... so that who waited with reason still does.
LEMMA FollowsShut ==
  ASSUME Settled, NEW g \in Games, NEW h \in Games, Follows(g, h),
         InGame(g) \subseteq InGame(h), Waiting(h) => Waiting(g),
         NEW stage, Shut(g, stage)
  PROVE  Shut(h, stage)
  <1>1. Steady(h, stage) => Steady(g, stage)
    BY DEF Follows, Steady
  <1> QED
    BY <1>1, FollowsOpens DEF Shut

\* The checks follow, where they do not start a fight.
LEMMA RunFollows ==
  ASSUME NEW g \in Games, NEW h, Run(g, h), h.time = g.time,
         h = g \/ g.state \notin {"preround", "endgame"}
  PROVE  Follows(g, h)
  <1>1. Kept(g, h)
    BY DEF Run, Flow
  <1>2. h.state = g.state \/ h.state \notin {"preround", "ingame"}
    BY DEF Run, Flow, WarmupStates, EndStates
  <1> QED
    BY <1>1, <1>2 DEF Follows, Kept

LEMMA LivesCheckFollows ==
  ASSUME Settled, NEW g, Sound(g) PROVE Follows(g, LivesCheckEndGame(g))
  <1> DEFINE h == LivesCheckEndGame(g)
  <1>1. g \in Games /\ Run(g, h) /\ h.time = g.time
    BY LivesCheckRun, LivesCheckSound DEF Sound, Keeps, Frame
  <1>2. h = g \/ g.state = "ingame"
    BY DEF LivesCheckEndGame, CanEndGame
  <1> HIDE DEF h
  <1>3. Follows(g, h)
    BY <1>1, <1>2, RunFollows
  <1> QED
    BY <1>3 DEF h

LEMMA ScoreCheckFollows ==
  ASSUME Settled, NEW g, Sound(g) PROVE Follows(g, ScoreCheckEndGame(g))
  <1> DEFINE h == ScoreCheckEndGame(g)
  <1>1. g \in Games /\ Run(g, h) /\ h.time = g.time
    BY ScoreCheckRun, ScoreCheckSound DEF Sound, Keeps, Frame
  <1>2. h = g \/ g.state = "ingame"
    BY DEF ScoreCheckEndGame, CanEndGame
  <1> HIDE DEF h
  <1>3. Follows(g, h)
    BY <1>1, <1>2, RunFollows
  <1> QED
    BY <1>3 DEF h

LEMMA TimeCheckFollows ==
  ASSUME Settled, NEW g, Sound(g) PROVE Follows(g, TimeCheckEndGame(g))
  <1> DEFINE h == TimeCheckEndGame(g)
  <1>1. g \in Games /\ Run(g, h) /\ h.time = g.time
    BY TimeCheckRun, TimeCheckSound DEF Sound, Keeps, Frame
  <1>2. h = g \/ g.state = "ingame"
    BY DEF TimeCheckEndGame, CanEndGame
  <1> HIDE DEF h
  <1>3. Follows(g, h)
    BY <1>1, <1>2, RunFollows
  <1> QED
    BY <1>3 DEF h

\* What a reset of the level state leaves of a game with lives.
LEMMA ResetWaits ==
  ASSUME Settled, NEW g \in Games, cvars.lives # 0
  PROVE  LET h == Reset(g)
         IN  /\ h.lobby = g.lobby /\ h.gamestate = g.gamestate /\ h.action = g.action
             /\ h.time = g.time
             /\ \/ h.state = "warmup" /\ h.start = g.start
                \/ h.state = "ingame" /\ h.start = StartTime(g) /\ InGame(g) # {}
  <1> DEFINE h == Reset(g)
             first == [g EXCEPT !.round = 1]
             u == SetState(g, "warmup")
             v == SetState(first, "ingame")
  <1>1. \/ h = [u EXCEPT !.done = 0]
        \/ h = [v EXCEPT !.done = 0] /\ InGame(g) # {}
    <2>1. IsCoopGame => StartOfRoundState = "ingame"
      BY DEF StartOfRoundState, IsCoopGame
    <2>2. cvars.lives > 0
      BY CvarTypes DEF Cvars
    <2> QED
      BY <2>1, <2>2 DEF Reset
  <1>2. /\ u \in Games /\ u.state = "warmup" /\ u.lobby = g.lobby /\ u.start = g.start
        /\ u.gamestate = g.gamestate /\ u.action = g.action /\ u.time = g.time
    <2>1. u \in Games
      BY SetStateType DEF States, WarmupStates
    <2>2. u.time = g.time
      BY DEF SetState, Games
    <2>3. "warmup" # "ingame"
      OBVIOUS
    <2> QED
      BY <2>1, <2>2, <2>3, SetStateFields
  <1>3. /\ first \in Games /\ first.lobby = g.lobby /\ first.gamestate = g.gamestate
        /\ first.action = g.action /\ first.time = g.time
    BY DEF Games
  <1> HIDE DEF first
  <1>4. /\ v \in Games /\ v.state = "ingame" /\ v.lobby = g.lobby
        /\ v.start = StartTime(g)
        /\ v.gamestate = g.gamestate /\ v.action = g.action /\ v.time = g.time
    <2>1. StartTime(first) = StartTime(g)
      BY <1>3 DEF StartTime
    <2>2. v \in Games
      BY <1>3, SetStateType DEF States
    <2>3. v.time = first.time
      BY <1>3 DEF SetState, Games
    <2> QED
      BY <1>3, <2>1, <2>2, <2>3, SetStateFields
  <1> HIDE DEF u, v
  <1>5. CASE h = [u EXCEPT !.done = 0]
    <2> HIDE DEF h
    <2>1. /\ h.lobby = g.lobby /\ h.gamestate = g.gamestate /\ h.action = g.action
          /\ h.time = g.time /\ h.state = "warmup" /\ h.start = g.start
      BY <1>2, <1>5 DEF Games
    <2> QED
      BY <2>1 DEF h
  <1>6. CASE h = [v EXCEPT !.done = 0] /\ InGame(g) # {}
    <2> HIDE DEF h
    <2>1. /\ h.lobby = g.lobby /\ h.gamestate = g.gamestate /\ h.action = g.action
          /\ h.time = g.time /\ h.state = "ingame" /\ h.start = StartTime(g)
      BY <1>4, <1>6 DEF Games
    <2> QED
      BY <1>6, <2>1 DEF h
  <1> QED
    BY <1>1, <1>5, <1>6

LEMMA PlayerCountFollows ==
  ASSUME Settled, NEW g, Sound(g) PROVE Follows(g, AssertValidPlayerCount(g))
  <1> DEFINE sides == IF IsTeamGame THEN TeamsOf(InGame(g)) ELSE InGame(g)
             valid == InGame(g) # {} /\ (IsCoopGame \/ Cardinality(sides) > 1)
             win == IF sides = {} THEN NoWinner ELSE WonBy(The(sides))
             f == IF valid THEN g ELSE SetWinner(g, win)
             h == LivesCheckEndGame(f)
             a == AssertValidPlayerCount(g)
  <1>1. g \in Games /\ Run(g, a) /\ a.time = g.time
    BY PlayerCountRun, PlayerCountSound DEF Sound, Keeps, Frame
  <1>2. CASE cvars.lives = 0 \/ g.state \in {"warmup", "endgame"}
    <2>1. a = g
      BY <1>2 DEF AssertValidPlayerCount
    <2> QED
      BY <2>1, FollowsItself
  <1>3. CASE g.state \notin {"preround", "endgame"}
    <2> HIDE DEF a
    <2>1. Follows(g, a)
      BY <1>1, <1>3, RunFollows
    <2> QED
      BY <2>1 DEF a
  <1>4. CASE g.state = "preround" /\ cvars.lives # 0
    <2>1. a = g \/ a.state \notin {"preround", "ingame"}
      <3>1. CASE IsCoopGame /\ InGame(g) = {}
        <4>1. a = Reset(g)
          BY <1>4, <3>1 DEF AssertValidPlayerCount
        <4> HIDE DEF a
        <4> QED
          BY <1>1, <1>4, <3>1, <4>1, ResetWaits
      <3>2. CASE valid
        <4>1. a = LivesCheckEndGame(g)
          BY <1>4, <3>2 DEF AssertValidPlayerCount
        <4>2. LivesCheckEndGame(g) = g
          BY <1>4 DEF LivesCheckEndGame, CanEndGame
        <4> QED
          BY <4>1, <4>2
      <3>3. CASE ~valid /\ ~(IsCoopGame /\ InGame(g) = {})
        <4> DEFINE k == SetWinner(g, win)
        <4>1. k.state = "preround"
          BY <1>1, <1>4 DEF SetWinner, Games
        <4>2. f = k
          BY <3>3
        <4>3. h = k
          <5> HIDE DEF k
          <5> QED
            BY <4>1, <4>2 DEF LivesCheckEndGame, CanEndGame
        <4>4. a = EndGame(k)
          <5>1. a = IF h.state \in {"countdown", "forced"} THEN Reset(h) ELSE EndGame(h)
            BY <1>4, <3>3 DEF AssertValidPlayerCount
          <5> HIDE DEF a, h, k
          <5> QED
            BY <4>1, <4>3, <5>1
        <4>5. k \in Games
          <5>1. sides \in SUBSET Sides
            BY InGameSides DEF InGame, Sides
          <5>2. NoWinner \in WinInfo
            BY DEF NoWinner, WinInfo, WinTypes
          <5>3. win \in WinInfo
            BY <5>1, <5>2, TheInSet, WonByType
          <5> QED
            BY <5>3, SetWinnerSound DEF Keeps, Sound
        <4> HIDE DEF k, a
        <4>6. SetState(k, "endgame").state = "endgame"
          BY <4>5, SetStateFields
        <4> QED
          BY <4>1, <4>4, <4>6 DEF EndGame
      <3> QED
        BY <3>1, <3>2, <3>3
    <2> HIDE DEF a
    <2>2. Kept(g, a)
      BY <1>1 DEF Run, Flow
    <2>3. Follows(g, a)
      BY <1>1, <1>4, <2>1, <2>2 DEF Follows, Kept
    <2> QED
      BY <2>3 DEF a
  <1> QED
    BY <1>2, <1>3, <1>4

-----------------------------------------------------------------------------
(* The operators that move players.                                        *)

\* h is g but for the players, whom the clock does not ask.
SameClock(g, h) ==
    /\ h.lobby = g.lobby /\ h.gamestate = g.gamestate /\ h.action = g.action
    /\ h.time = g.time /\ h.start = g.start /\ h.state = g.state /\ h.done = g.done

\* The clock and the settings are all that counts.
LEMMA SameFollows == ASSUME NEW g, NEW h, SameClock(g, h) PROVE Follows(g, h)
  BY DEF SameClock, Follows

LEMMA ClearFollows ==
  ASSUME NEW g \in Games, NEW S, NEW T, NEW b \in BOOLEAN, NEW h,
         h = ClearScores(g, S, T, b)
  PROVE  Follows(g, h)
  <1> DEFINE lives == [p \in Players |-> IF p \in S THEN cvars.lives ELSE g.lives[p]]
             score == [x \in Sides |-> IF x \in T THEN 0 ELSE g.score[x]]
             wins == [x \in Sides |-> IF b /\ x \in T THEN 0 ELSE g.wins[x]]
  <1>1. ClearScores(g, S, T, b) = [g EXCEPT !.lives = lives, !.score = score, !.wins = wins]
    BY DEF ClearScores
  <1> HIDE DEF lives, score, wins
  <1>2. SameClock(g, h)
    BY <1>1 DEF Games, SameClock
  <1> QED
    BY <1>2, SameFollows

LEMMA UnreadyFollows ==
  ASSUME Settled, NEW g, Sound(g), NEW p \in Players, NEW b \in BOOLEAN
  PROVE  /\ Follows(g, SetReady(g, p, b))
         /\ Follows(g, Unready(g, p))
  <1> DEFINE ready == IF b THEN g.ready \cup {p} ELSE g.ready \ {p}
             out == g.ready \ {p}
  <1>1. ASSUME NEW r \in SUBSET Players
        PROVE  Follows(g, ReadyToggle([g EXCEPT !.ready = r]))
    <2> DEFINE k == [g EXCEPT !.ready = r]
    <2>1. k \in Games /\ SameClock(g, k)
      BY DEF Sound, Games, SameClock
    <2> HIDE DEF k
    <2>2. ASSUME NEW new \in {"countdown", "warmup"}, k.state \in {"warmup", "countdown"}
          PROVE  Follows(k, SetState(k, new))
      <3>1. SetState(k, new).time = k.time
        BY <2>1 DEF SetState, Games
      <3> QED
        BY <2>1, <2>2, <3>1, SetStateFields DEF Follows
    <2>3. \/ ReadyToggle(k) = k
          \/ /\ k.state \in {"warmup", "countdown"}
             /\ \E new \in {"countdown", "warmup"} : ReadyToggle(k) = SetState(k, new)
      BY DEF ReadyToggle
    <2>4. Follows(k, ReadyToggle(k))
      BY <2>2, <2>3, FollowsItself
    <2> QED
      BY <2>1, <2>4, SameFollows, FollowsTransitive DEF k
  <1>2. ready \in SUBSET Players /\ out \in SUBSET Players
    BY DEF Sound, Games
  <1>3. SetReady(g, p, b) = ReadyToggle([g EXCEPT !.ready = ready])
    BY DEF SetReady, Sound, Games
  <1>4. \/ Unready(g, p) = g
        \/ Unready(g, p) = ReadyToggle([g EXCEPT !.ready = out])
    BY DEF Unready, SetReady, Sound, Games
  <1> HIDE DEF ready, out
  <1> QED
    BY <1>1, <1>2, <1>3, <1>4, FollowsItself

LEMMA StatusFollows ==
  ASSUME NEW g \in Games, NEW p \in Players, NEW status
  PROVE  SameClock(g, [g EXCEPT !.status[p] = status])
  BY DEF SameClock, Games

LEMMA JoinFollows ==
  ASSUME Settled, NEW g, Sound(g), NEW p \in Players
  PROVE  Follows(g, JoinPlayer(g, p))
  <1> DEFINE joined == [g EXCEPT !.status[p] = "playing"]
             killed == IF g.time > 0 THEN LivesCheckEndGame(joined) ELSE joined
             S == {p}
             b == TRUE
             h == ClearScores(killed, S, S, b)
  <1>0. "playing" \in Statuses /\ g \in Games
    BY DEF Statuses, Sound
  <1>1. Sound(joined) /\ Follows(g, joined)
    BY <1>0, StatusSound, StatusFollows, SameFollows
  <1>2. JoinPlayer(g, p) = Unready(h, p)
    BY DEF JoinPlayer
  <1> HIDE DEF joined
  <1>3. Sound(killed) /\ Follows(joined, killed)
    BY <1>1, LivesCheckSound, LivesCheckFollows, FollowsItself DEF Keeps
  <1> HIDE DEF killed
  <1>4. b \in BOOLEAN /\ S \subseteq Players
    OBVIOUS
  <1> HIDE DEF S, b
  <1>5. Sound(h) /\ Follows(killed, h)
    BY <1>3, <1>4, ClearScoresSound, ClearFollows DEF Keeps, Sound
  <1> HIDE DEF h
  <1>6. FALSE \in BOOLEAN
    OBVIOUS
  <1>7. Follows(h, Unready(h, p))
    BY <1>5, <1>6, UnreadyFollows
  <1> QED
    BY <1>1, <1>2, <1>3, <1>5, <1>7, FollowsTransitive

LEMMA SpecFollows ==
  ASSUME Settled, NEW g, Sound(g), NEW p \in Players
  PROVE  Follows(g, SpecPlayer(g, p))
  <1> DEFINE moved == [g EXCEPT !.status[p] = "spectator"]
             out == Unready(moved, p)
             late == [out EXCEPT !.delay[p] = ReJoinDelay]
  <1>0. "spectator" \in Statuses /\ g \in Games /\ ReJoinDelay \in Nat /\ FALSE \in BOOLEAN
    BY BoundsAssumption DEF Statuses, Sound
  <1>1. Sound(moved) /\ Follows(g, moved)
    BY <1>0, StatusSound, StatusFollows, SameFollows
  <1>2. SpecPlayer(g, p) = AssertValidPlayerCount(late)
    BY DEF SpecPlayer
  <1> HIDE DEF moved
  <1>3. Sound(out) /\ Follows(moved, out)
    BY <1>0, <1>1, UnreadySound, UnreadyFollows DEF Keeps
  <1> HIDE DEF out
  <1>4. Sound(late) /\ SameClock(out, late)
    <2>1. Sound(late)
      BY <1>0, <1>3, DelaySound DEF Keeps
    <2> QED
      BY <1>3, <2>1 DEF Sound, SameClock, Games
  <1> HIDE DEF late
  <1>5. Follows(late, AssertValidPlayerCount(late))
    BY <1>4, PlayerCountFollows
  <1> QED
    BY <1>1, <1>2, <1>3, <1>4, <1>5, SameFollows, FollowsTransitive

LEMMA EraseFollows ==
  ASSUME NEW g \in Games, NEW p \in Players
  PROVE  Follows(g, Erase(g, p))
  <1> DEFINE status == [g.status EXCEPT ![p] = "absent"]
             ready == g.ready \ {p}
             delay == [g.delay EXCEPT ![p] = 0]
             lives == [g.lives EXCEPT ![p] = 0]
             score == [g.score EXCEPT ![p] = 0]
             wins == [g.wins EXCEPT ![p] = 0]
             h == [g EXCEPT !.status = status, !.ready = ready, !.delay = delay,
                            !.lives = lives, !.score = score, !.wins = wins]
  <1>1. Erase(g, p) = h
    BY DEF Erase, Games
  <1> HIDE DEF status, ready, delay, lives, score, wins
  <1>2. SameClock(g, h)
    BY DEF Games, SameClock
  <1> HIDE DEF h
  <1> QED
    BY <1>1, <1>2, SameFollows

LEMMA DelaysFollow == ASSUME NEW g \in Games PROVE SameClock(g, RunDelays(g))
  <1> DEFINE delay == [p \in Players |-> IF g.delay[p] > 0 THEN g.delay[p] - 1 ELSE 0]
  <1>1. RunDelays(g) = [g EXCEPT !.delay = delay]
    BY DEF RunDelays
  <1> HIDE DEF delay
  <1> QED
    BY <1>1 DEF SameClock, Games

LEMMA KillFollows ==
  ASSUME Settled, Sound(game), NEW victim \in Players, NEW killer \in Players \cup {NoOne}
  PROVE  Follows(game, KillPlayer(victim, killer))
  <1> DEFINE given == GiveFrags(game, victim, killer)
             lives == [given.lives EXCEPT ![victim] = @ - 1]
             hurt == [given EXCEPT !.lives = lives]
             scored == TakeLife(given, victim)
             limited == IF killer # NoOne /\ cvars.gametype \in {"dm", "teamdm"}
                        THEN ScoreCheckEndGame(scored)
                        ELSE scored
  <1>1. KillPlayer(victim, killer) \in {scored, LivesCheckEndGame(limited)}
    BY DEF KillPlayer
  <1>2. Sound(given) /\ SameClock(game, given)
    <2> DEFINE x == Scorer(victim, killer)
               score == [game.score EXCEPT ![x] = @ + Frag(victim, killer)]
    <2>1. \/ given = game
          \/ given = [game EXCEPT !.score = score]
      BY DEF GiveFrags, Sound, Games
    <2>2. Sound(given)
      BY GiveFragsSound DEF Keeps
    <2> HIDE DEF score, given
    <2> QED
      BY <2>1, <2>2 DEF SameClock, Sound, Games
  <1> HIDE DEF given
  <1>3. Sound(scored) /\ SameClock(given, scored)
    <2>1. Sound(scored)
      BY <1>2, TakeLifeSound DEF Keeps
    <2>2. scored = given \/ scored = hurt
      BY <1>2 DEF TakeLife, Sound, Games
    <2> HIDE DEF lives
    <2>3. SameClock(given, hurt) /\ SameClock(given, given)
      BY <1>2 DEF SameClock, Sound, Games
    <2> HIDE DEF hurt, scored
    <2> QED
      BY <2>1, <2>2, <2>3
  <1> HIDE DEF scored
  <1>4. Sound(limited) /\ Follows(scored, limited)
    BY <1>3, ScoreCheckSound, ScoreCheckFollows, FollowsItself DEF Keeps
  <1> HIDE DEF limited
  <1>5. Follows(limited, LivesCheckEndGame(limited))
    BY <1>4, LivesCheckFollows
  <1>6. Follows(game, given) /\ Follows(given, scored)
    BY <1>2, <1>3, SameFollows
  <1>7. Follows(game, scored) /\ Follows(game, LivesCheckEndGame(limited))
    BY <1>4, <1>5, <1>6, FollowsTransitive
  <1> QED
    BY <1>1, <1>7

-----------------------------------------------------------------------------
(* The tic.                                                                *)

\* Holding the time changes the time and the end of the countdown.
LEMMA HoldFields ==
  ASSUME NEW g \in Games
  PROVE  LET k == HoldTime(g)
         IN  /\ k.status = g.status /\ k.position = g.position /\ k.lobby = g.lobby
             /\ k.gamestate = g.gamestate /\ k.action = g.action
             /\ k.state = g.state /\ k.start = g.start /\ k.done <= g.done
             /\ k.time = g.time \/ (k.time = MaxTime /\ MaxTime < g.time)
  <1> DEFINE over == g.time - MaxTime
             done == IF g.done <= over THEN 0 ELSE g.done - over
             k == [g EXCEPT !.time = MaxTime, !.done = done]
  <1>1. g.time \in Nat /\ g.done \in Nat /\ MaxTime \in Nat
    BY BoundsAssumption DEF Games
  <1>2. HoldTime(g) = IF over <= 0 THEN g ELSE k
    BY DEF HoldTime
  <1>3. CASE over <= 0
    BY <1>1, <1>2, <1>3
  <1>4. CASE ~(over <= 0)
    <2>1. MaxTime < g.time /\ done <= g.done /\ HoldTime(g) = k
      BY <1>1, <1>2, <1>4
    <2> HIDE DEF done, over
    <2>2. /\ k.status = g.status /\ k.position = g.position /\ k.lobby = g.lobby
          /\ k.gamestate = g.gamestate /\ k.action = g.action
          /\ k.state = g.state /\ k.start = g.start /\ k.done = done /\ k.time = MaxTime
      BY DEF Games
    <2> HIDE DEF k
    <2> QED
      BY <2>1, <2>2
  <1> QED
    BY <1>3, <1>4

\* A join timer that is over is still over when the time is held.
LEMMA HoldWaits ==
  ASSUME Settled, NEW g, Sound(g), Timed(g, "packets"), NEW k, k = HoldTime(g)
  PROVE  /\ Timed(k, "packets")
         /\ Opens(k) => Opens(g)
  <1>1. /\ k.status = g.status /\ k.gamestate = g.gamestate /\ k.action = g.action
        /\ k.state = g.state /\ k.start = g.start /\ k.done <= g.done
        /\ k.time = g.time \/ (k.time = MaxTime /\ MaxTime < g.time)
    BY HoldFields DEF Sound
  <1>2. /\ g.time \in Nat /\ g.start \in Nat /\ g.done \in Nat /\ MaxTime \in Nat
        /\ cvars.preroundtime \in Nat /\ cvars.jointimer \in Nat
        /\ cvars.preroundtime + 1 + cvars.jointimer <= MaxTime
    BY BoundsAssumption, MaxTimeAssumption, CvarTypes DEF Sound, Games, Cvars, Settled
  <1>3. k \in Games
    BY HoldTimeSound DEF Stays, Sound
  <1>4. k.time <= g.time /\ k.time \in Nat /\ k.done \in Nat
    BY <1>1, <1>2, <1>3 DEF Games
  <1>5. Timed(k, "packets")
    <2>1. SUFFICES ASSUME cvars.lives # 0, g.gamestate = "level"
                   PROVE  /\ g.state = "ingame" => k.start <= cvars.preroundtime + 1
                          /\ g.state = "preround" => k.done <= cvars.preroundtime
                          /\ g.state = "preround" => k.time <= cvars.preroundtime
      BY <1>1 DEF Timed
    <2>2. /\ g.state = "ingame" => g.start <= cvars.preroundtime + 1
          /\ g.state = "preround" => g.done <= cvars.preroundtime
          /\ g.state = "preround" => g.time <= cvars.preroundtime
      BY <2>1 DEF Timed, Steady
    <2> QED
      BY <1>1, <1>2, <1>4, <2>2
  <1>6. ASSUME Opens(k) PROVE Opens(g)
    <2>1. InGame(k) = InGame(g) /\ k.gamestate = "level" /\ g.gamestate = "level"
      BY <1>1, <1>6 DEF InGame, Opens, CanJoinGame, CanJoinGameStart
    <2>2. cvars.lives > 0 /\ g.state = "ingame" /\ JoinTimerOver(g) => JoinTimerOver(k)
      <3>1. SUFFICES ASSUME cvars.lives > 0, g.state = "ingame",
                            g.start + cvars.jointimer <= g.time
                     PROVE  g.start + cvars.jointimer <= k.time
        BY <1>1 DEF JoinTimerOver
      <3>2. g.start <= cvars.preroundtime + 1
        BY <2>1, <3>1 DEF Timed
      <3> QED
        BY <1>1, <1>2, <3>1, <3>2
    <2> QED
      BY <1>1, <1>6, <2>1, <2>2 DEF Opens, CanJoinGame, CanJoinGameStart
  <1> QED
    BY <1>5, <1>6

\* A new state opens the game to nobody whom the old one kept out, unless a reset is
\* still to come, and the clock is right in it.
LEMMA TurnWaits ==
  ASSUME Settled, NEW g \in Games, g.gamestate = "level", g.state # "endgame",
         NEW k \in Games, k.status = g.status, k.lobby = g.lobby,
         k.gamestate = g.gamestate, k.time = g.time, NEW new,
         \/ cvars.lives = 0
         \/ new \notin {"preround", "ingame"}
         \/ k.action \in {"resetlevel", "fullresetlevel"}
         \/ g.state = "preround" /\ g.time <= cvars.preroundtime /\ new = "ingame",
         NEW stage \in {"votes", "commands"}, NEW s, s = SetState(k, new)
  PROVE  /\ s.lobby = g.lobby /\ Timed(s, stage)
         /\ Steady(s, stage) /\ Opens(s) => Opens(g)
  <1>1. /\ s.state = new /\ s.status = g.status /\ s.lobby = g.lobby
        /\ s.action = k.action /\ s.gamestate = "level"
        /\ s.start = (IF new = "ingame" THEN StartTime(k) ELSE k.start)
        /\ s.done = DoneTime(k, new)
    BY SetStateFields
  <1>2. g.time \in Nat /\ cvars.preroundtime \in Nat /\ cvars.lives \in Nat
    BY CvarTypes DEF Games, Cvars
  <1>3. InGame(s) = InGame(g)
    BY <1>1 DEF InGame
  <1>4. Timed(s, stage)
    <2>1. SUFFICES ASSUME cvars.lives # 0, new \in {"preround", "ingame"}
                   PROVE  Timed(s, stage)
      BY <1>1 DEF Timed
    <2>2. StartTime(k) = 1 \/ (StartTime(k) = g.time + 1 /\ g.time <= cvars.preroundtime)
      BY <2>1 DEF StartTime
    <2>3. StartTime(k) <= cvars.preroundtime + 1
      BY <1>2, <2>2
    <2>4. new = "preround" => s.done <= cvars.preroundtime
      BY <1>1, <1>2 DEF DoneTime, EndStates
    <2>5. new = "preround" => ~Steady(s, stage)
      BY <1>1, <2>1 DEF Steady
    <2> QED
      BY <1>1, <2>3, <2>4, <2>5 DEF Timed
  <1>5. ASSUME Steady(s, stage), Opens(s) PROVE Opens(g)
    <2>1. CanJoinGameStart(g)
      BY <1>3, <1>5 DEF Opens, CanJoinGame, CanJoinGameStart
    <2>2. CASE cvars.lives = 0
      BY <1>2, <2>1, <2>2 DEF Opens, CanJoinGame
    <2>3. CASE cvars.lives # 0
      <3>1. s.state \in {"preround", "ingame"} /\ s.action = "nothing"
        BY <1>5, <2>3 DEF Opens, Steady
      <3>2. g.state = "preround"
        BY <1>1, <2>3, <3>1
      <3> QED
        BY <2>1, <3>2 DEF Opens, CanJoinGame
    <2> QED
      BY <2>2, <2>3
  <1> QED
    BY <1>1, <1>4, <1>5

LEMMA TicWaits ==
  ASSUME AlwaysServed, Settled, NEW g, Sound(g), g.gamestate = "level",
         Timed(g, "packets"), NEW stage \in {"votes", "commands"}, NEW t, t = Tic(g)
  PROVE  /\ t.lobby = g.lobby /\ Timed(t, stage)
         /\ Steady(t, stage) /\ Opens(t) => Opens(g)
  <1>0. /\ g \in Games /\ g.time \in Nat /\ g.done \in Nat /\ cvars.lives \in Nat
        /\ cvars.preroundtime \in Nat
    BY CvarTypes DEF Sound, Games, Cvars
  <1>1. \/ t = g /\ (g.state \in {"warmup", "ingame"} \/ g.time < g.done)
        \/ /\ g.state # "warmup" /\ InGame(g) = {} /\ (cvars.warmup = 1 \/ cvars.lives > 0)
           /\ t = SetState(g, "warmup")
        \/ g.state = "warmup" /\ t = TicWarmup(g)
        \/ g.state \notin {"warmup", "ingame"} /\ t = TicDone(g)
    BY <1>0 DEF Tic
  <1>2. CASE t = g /\ (g.state \in {"warmup", "ingame"} \/ g.time < g.done)
    <2>1. ASSUME cvars.lives # 0
          PROVE  /\ g.state = "ingame" => g.start <= cvars.preroundtime + 1
                 /\ g.state = "preround" => g.done <= cvars.preroundtime
      BY <2>1 DEF Timed
    <2>2. cvars.lives # 0 /\ g.state = "preround" => g.time < cvars.preroundtime
      BY <1>0, <1>2, <2>1
    <2>3. cvars.lives # 0 /\ g.state = "preround" => g.time <= cvars.preroundtime
      BY <1>0, <2>2
    <2>4. Timed(t, stage)
      BY <1>2, <2>1, <2>2, <2>3 DEF Timed
    <2> QED
      BY <1>2, <2>4
  <1>3. CASE /\ g.state # "warmup" /\ InGame(g) = {} /\ (cvars.warmup = 1 \/ cvars.lives > 0)
             /\ t = SetState(g, "warmup")
    <2>1. cvars.lives # 0
      BY <1>0, <1>3 DEF AlwaysServed, Settled
    <2>2. t.state = "warmup" /\ t.lobby = g.lobby
      BY <1>0, <1>3, SetStateFields
    <2> QED
      BY <2>1, <2>2 DEF Timed, Opens
  <1>4. CASE g.state = "warmup" /\ t = TicWarmup(g)
    <2>1. t = g \/ (\E new \in {"forced", "countdown"} : t = SetState(g, new))
      BY <1>4 DEF TicWarmup
    <2>2. CASE t = g
      BY <1>4, <2>2 DEF Timed
    <2>3. ASSUME NEW new \in {"forced", "countdown"}, t = SetState(g, new)
          PROVE  /\ t.lobby = g.lobby /\ Timed(t, stage)
                 /\ Steady(t, stage) /\ Opens(t) => Opens(g)
      BY <1>0, <1>4, <2>3, TurnWaits
    <2> QED
      BY <2>1, <2>2, <2>3
  <1>5. CASE g.state \notin {"warmup", "ingame"} /\ t = TicDone(g)
    <2> DEFINE next == [g EXCEPT !.round = @ + 1]
               b == DeferedReset(g)
               c == DeferedReset(next)
               d == DeferedFullReset(next)
    <2>1. /\ next \in Games /\ next.status = g.status /\ next.lobby = g.lobby
          /\ next.gamestate = g.gamestate /\ next.time = g.time
      BY <1>0 DEF Games
    <2>2. /\ b \in Games /\ b.status = g.status /\ b.lobby = g.lobby
          /\ b.gamestate = g.gamestate /\ b.time = g.time /\ b.action = "resetlevel"
      BY <1>0 DEF DeferedReset, Games, Actions
    <2>3. TicDone(g) = CASE g.state = "preround" ->
                              SetState(IF cvars.preroundreset = 1 THEN b ELSE g, "ingame")
                         [] g.state = "endround" -> SetState(c, StartOfRoundState)
                         [] g.state = "endgame"  -> ExitLevel(g)
                         [] OTHER -> SetState(d, StartOfRoundState)
      BY DEF TicDone
    <2> HIDE DEF next, b
    <2>4. /\ c \in Games /\ c.status = g.status /\ c.lobby = g.lobby
          /\ c.gamestate = g.gamestate /\ c.time = g.time /\ c.action = "resetlevel"
      BY <2>1 DEF DeferedReset, Games, Actions
    <2>5. /\ d \in Games /\ d.status = g.status /\ d.lobby = g.lobby
          /\ d.gamestate = g.gamestate /\ d.time = g.time /\ d.action = "fullresetlevel"
      BY <2>1 DEF DeferedFullReset, Games, Actions
    <2> HIDE DEF c, d
    <2>6. CASE g.state = "endgame"
      <3>1. t = ExitLevel(g)
        BY <1>5, <2>3, <2>6
      <3>2. t.gamestate = "intermission" /\ t.lobby = g.lobby
        BY <1>0, <3>1 DEF ExitLevel, Games
      <3> QED
        BY <3>2 DEF Timed, Opens, CanJoinGame, CanJoinGameStart
    <2>7. CASE g.state = "endround"
      <3>1. t = SetState(c, StartOfRoundState)
        BY <1>5, <2>3, <2>7
      <3> QED
        BY <1>0, <2>4, <2>7, <3>1, TurnWaits
    <2>8. CASE g.state = "preround"
      <3>1. t = SetState(b, "ingame") \/ t = SetState(g, "ingame")
        BY <1>5, <2>3, <2>8
      <3>2. cvars.lives # 0 => g.time <= cvars.preroundtime
        BY <2>8 DEF Timed, Steady
      <3>3. CASE t = SetState(b, "ingame")
        BY <1>0, <2>2, <2>8, <3>3, TurnWaits
      <3>4. CASE t = SetState(g, "ingame")
        BY <1>0, <2>8, <3>2, <3>4, TurnWaits
      <3> QED
        BY <3>1, <3>3, <3>4
    <2>9. CASE g.state \notin {"endgame", "endround", "preround"}
      <3>1. t = SetState(d, StartOfRoundState)
        BY <1>5, <2>3, <2>9
      <3> QED
        BY <1>0, <2>5, <2>9, <3>1, TurnWaits
    <2> QED
      BY <2>6, <2>7, <2>8, <2>9
  <1> QED
    BY <1>1, <1>2, <1>3, <1>4, <1>5

-----------------------------------------------------------------------------
(* The invariant, and what keeps it.                                       *)

\* Between the loops over the queue nobody waits while there is room; in a loop,
\* whoever has been passed over is kept out by its test.
WaitInv ==
    /\ game.lobby = 0
    /\ Timed(game, Stage)
    /\ phase \notin {"queue", "losers"} => Shut(game, phase)
    /\ phase = "queue" /\ Queued \ queue.todo # {} => ~MayJoin(game, queue.test)

\* What is known before a step.
WaitState == IInv /\ FairInv /\ WaitInv

\* The invariant of the next state, in terms of its game, stage and queue.
WaitStep ==
    /\ game'.lobby = 0
    /\ Timed(game', Stage')
    /\ phase' \notin {"queue", "losers"} => Shut(game', phase')
    /\ phase' = "queue" =>
          \/ \A p \in Players \ queue'.todo : game'.position[p] = 0
          \/ ~MayJoin(game', queue'.test)

\* What the steps need of the state before them.
LEMMA WaitTypes ==
  ASSUME WaitState
  PROVE  /\ Settled /\ Sound(game) /\ game \in Games
         /\ game.status \in [Players -> Statuses] /\ game.position \in [Players -> Nat]
         /\ game.lobby = 0 /\ Timed(game, Stage)
         /\ (phase # "queue" => Stage = phase)
         /\ (phase \notin {"queue", "losers"} => Shut(game, phase))
         /\ (game.action = "completed" => game.gamestate = "intermission")
  <1>1. Settled /\ Sound(game) /\ game \in Games /\ Fair(game, Over(Stage), {})
    BY FairState DEF WaitState
  <1>2. game.action = "completed" => game.gamestate = "intermission"
    BY <1>1 DEF Fair, Completed
  <1>3. game.status \in [Players -> Statuses] /\ game.position \in [Players -> Nat]
    BY <1>1 DEF Games
  <1>4. WaitInv /\ (phase # "queue" => Stage = phase)
    BY DEF WaitState, Stage
  <1> QED
    BY <1>1, <1>2, <1>3, <1>4 DEF WaitInv

\* A handler that ends with the loop over the queue.
LEMMA QueueWaits ==
  ASSUME NEW g, Sound(g), g.lobby = 0, NEW test, NEW leaving,
         NEW back \in Phases \ {"queue"}, UpdateQueue(g, test, leaving, back),
         Timed(g, back)
  PROVE  WaitStep
  <1> DEFINE k == game'
             queued == {p \in Players : g.position[p] > 0} \ leaving
  <1>1. Stage' = back
    BY DEF UpdateQueue, Stage
  <1>2. k = [g EXCEPT !.position = [p \in Players |-> IF p \in leaving THEN 0
                                                      ELSE g.position[p]]]
    BY DEF UpdateQueue
  <1>3. g \in Games
    BY DEF Sound
  <1>4. /\ phase' \in {"queue", back}
        /\ phase' = "queue" => queue'.todo = queued
        /\ phase' = back => queued = {}
    BY DEF UpdateQueue
  <1> HIDE DEF k
  <1>5. SameClock(g, k)
    BY <1>2, <1>3 DEF SameClock, Games
  <1>6. \A p \in Players : k.position[p] = (IF p \in leaving THEN 0 ELSE g.position[p])
    BY <1>2, <1>3 DEF Games
  <1>7. \A p \in Players \ queued : k.position[p] = 0
    <2>1. \A p \in Players : g.position[p] \in Nat
      BY <1>3 DEF Games
    <2> QED
      BY <1>6, <2>1
  <1>8. Timed(k, back)
    BY <1>5, SameFollows, FollowsTimed
  <1>9. phase' = back => Shut(k, back)
    BY <1>4, <1>7 DEF Shut, Waiting
  <1> QED
    BY <1>1, <1>4, <1>5, <1>7, <1>8, <1>9 DEF WaitStep, SameClock, k

\* A handler that leaves the queue alone.
LEMMA PlainWaits ==
  ASSUME NEW k, game' = k, k.lobby = 0, phase' # "queue", Timed(k, phase'),
         phase' # "losers" => Shut(k, phase')
  PROVE  WaitStep
  BY DEF WaitStep, Stage

\* ... in the same tic.
LEMMA SoonWaits ==
  ASSUME WaitState, phase \notin {"queue", "losers"}, phase' = phase,
         NEW k, game' = k, Sound(k), Follows(game, k), k.position = game.position,
         InGame(game) \subseteq InGame(k)
  PROVE  WaitStep
  <1>1. Timed(k, phase)
    BY WaitTypes, FollowsTimed
  <1>2. Waiting(k) => Waiting(game)
    BY DEF Waiting
  <1>3. Shut(k, phase)
    BY <1>2, WaitTypes, FollowsShut DEF Sound
  <1>4. k.lobby = 0
    BY WaitTypes DEF Follows
  <1> QED
    BY <1>1, <1>3, <1>4, PlainWaits

\* The packets and the thinkers do not tell one action from another, and the votes
\* and the commands act alike.
LEMMA StageWaits ==
  ASSUME NEW g, NEW from, NEW to, Timed(g, from),
         \/ to \in {"packets", "drops", "cleanup"} /\ from \notin {"votes", "commands"}
         \/ to \in {"votes", "commands"} /\ from \in {"votes", "commands"}
         \/ to \in {"world", "losers"} /\ from \in {"world", "losers"}
         \/ to = "world" /\ from = "commands" /\ g.action = "nothing"
  PROVE  Timed(g, to) /\ (Shut(g, from) => Shut(g, to))
  BY DEF Timed, Steady, Shut

\* Nobody joins in the intermission.
LEMMA OverWaits ==
  ASSUME NEW g, g.gamestate = "intermission", NEW stage
  PROVE  Timed(g, stage) /\ Shut(g, stage)
  BY DEF Timed, Shut, Opens, CanJoinGame, CanJoinGameStart

-----------------------------------------------------------------------------
(* Clients.                                                                *)

LEMMA ConnectWaits == ASSUME WaitState, NEW p \in Players, Connect(p) PROVE WaitStep
  <1> DEFINE g == [game EXCEPT !.status[p] = "spectator"]
             S == {p}
             b == TRUE
             h == ClearScores(g, S, S, b)
  <1>0. /\ "spectator" \in Statuses /\ game' = h /\ phase = "packets" /\ phase' = phase
        /\ game.status[p] = "absent"
    BY DEF Statuses, Connect
  <1>1. /\ Sound(g) /\ g.status = [game.status EXCEPT ![p] = "spectator"]
        /\ g.position = game.position /\ Follows(game, g)
    BY <1>0, WaitTypes, StatusSound, StatusFollows, SameFollows
  <1> HIDE DEF g
  <1>2. b \in BOOLEAN /\ g \in Games
    BY <1>1 DEF Sound
  <1> HIDE DEF S, b
  <1>3. Sound(h) /\ h.position = g.position /\ h.status = g.status
    BY <1>1, <1>2, WaitTypes, ClearScoresSound DEF Keeps, Frame
  <1>4. Follows(game, h)
    BY <1>1, <1>2, ClearFollows, FollowsTransitive
  <1> HIDE DEF h
  <1>5. InGame(game) \subseteq InGame(h)
    BY <1>0, <1>1, <1>3, WaitTypes DEF InGame
  <1> QED
    BY <1>0, <1>1, <1>3, <1>4, <1>5, SoonWaits

LEMMA DisconnectWaits == ASSUME WaitState, NEW p \in Players, Disconnect(p) PROVE WaitStep
  <1>0. /\ phase \in Phases \ {"queue"} /\ Stage = phase /\ "left" \in Statuses
    BY WaitTypes DEF Disconnect, Phases, Statuses
  <1> DEFINE f == [game EXCEPT !.status[p] = "left"]
             e == Erase(game, p)
  <1>1. Sound(f) /\ Follows(game, f)
    BY <1>0, WaitTypes, StatusSound, StatusFollows, SameFollows
  <1>2. Sound(e) /\ Follows(game, e)
    BY WaitTypes, EraseSound, EraseFollows
  <1>3. UpdateQueue(f, "join", {p}, phase) \/ UpdateQueue(e, "join", {p}, phase)
    BY DEF Disconnect
  <1> HIDE DEF f, e
  <1>4. ASSUME NEW g, Sound(g), Follows(game, g), UpdateQueue(g, "join", {p}, phase)
        PROVE  WaitStep
    <2>1. g.lobby = 0 /\ Timed(g, phase)
      BY <1>0, <1>4, WaitTypes, FollowsTimed DEF Follows
    <2> QED
      BY <1>0, <1>4, <2>1, QueueWaits
  <1> QED
    BY <1>1, <1>2, <1>3, <1>4

LEMMA JoinRequestWaits ==
  ASSUME WaitState, NEW p \in Players, JoinRequest(p) PROVE WaitStep
  <1>0. phase = "packets" /\ Stage = "packets" /\ "packets" \in Phases \ {"queue"}
    BY WaitTypes DEF JoinRequest, Phases
  <1>1. CASE game' = JoinPlayer(game, p) /\ phase' = phase
    <2> DEFINE h == JoinPlayer(game, p)
    <2>1. /\ Sound(h) /\ h.status = [game.status EXCEPT ![p] = "playing"]
          /\ h.position = game.position /\ Follows(game, h)
      BY WaitTypes, JoinPlayerSound, JoinFollows
    <2>2. game' = h
      BY <1>1
    <2> HIDE DEF h
    <2>3. InGame(game) \subseteq InGame(h)
      BY <2>1, WaitTypes DEF InGame
    <2> QED
      BY <1>0, <1>1, <2>1, <2>2, <2>3, SoonWaits
  <1>2. CASE UpdateQueue([game EXCEPT !.position[p] = 255], "join", {}, "packets")
    <2> DEFINE g == [game EXCEPT !.position[p] = 255]
    <2>1. Sound(g) /\ SameClock(game, g)
      BY WaitTypes, PositionSound DEF SameClock, Games
    <2>2. UpdateQueue(g, "join", {}, "packets")
      BY <1>2
    <2> HIDE DEF g
    <2>3. g.lobby = 0 /\ Timed(g, "packets")
      BY <1>0, <2>1, WaitTypes, SameFollows, FollowsTimed DEF SameClock
    <2> QED
      BY <1>0, <2>1, <2>2, <2>3, QueueWaits
  <1> QED
    BY <1>1, <1>2 DEF JoinRequest

LEMMA SpectateRequestWaits ==
  ASSUME WaitState, NEW p \in Players, SpectateRequest(p) PROVE WaitStep
  <1>0. phase = "packets" /\ Stage = "packets" /\ "packets" \in Phases \ {"queue"}
    BY WaitTypes DEF SpectateRequest, Phases
  <1> DEFINE s == SpecPlayer(game, p)
             d == [game EXCEPT !.delay[p] = ReJoinDelay]
  <1>1. Sound(s) /\ Follows(game, s)
    BY WaitTypes, SpecPlayerSound, SpecFollows
  <1>2. Sound(d) /\ Follows(game, d)
    <2>1. Sound(d)
      BY WaitTypes, BoundsAssumption, DelaySound DEF Keeps
    <2>2. SameClock(game, d)
      BY WaitTypes DEF SameClock, Games
    <2> QED
      BY <2>1, <2>2, SameFollows
  <1>3. UpdateQueue(s, "join", {p}, "packets") \/ UpdateQueue(d, "join", {p}, "packets")
    BY DEF SpectateRequest
  <1> HIDE DEF s, d
  <1>4. ASSUME NEW g, Sound(g), Follows(game, g), UpdateQueue(g, "join", {p}, "packets")
        PROVE  WaitStep
    <2>1. g.lobby = 0 /\ Timed(g, "packets")
      BY <1>0, <1>4, WaitTypes, FollowsTimed DEF Follows
    <2> QED
      BY <1>0, <1>4, <2>1, QueueWaits
  <1> QED
    BY <1>1, <1>2, <1>3, <1>4

LEMMA ReadyRequestWaits ==
  ASSUME WaitState, NEW p \in Players, ReadyRequest(p) PROVE WaitStep
  <1> DEFINE b == p \notin game.ready
             k == SetReady(game, p, b)
  <1>0. phase = "packets" /\ phase' = phase /\ game' = k /\ b \in BOOLEAN
    BY DEF ReadyRequest
  <1> HIDE DEF b
  <1>1. /\ Sound(k) /\ k.status = game.status /\ k.position = game.position
        /\ Follows(game, k)
    BY <1>0, WaitTypes, SetReadySound, UnreadyFollows DEF Keeps, Frame
  <1> HIDE DEF k
  <1>2. InGame(game) \subseteq InGame(k)
    BY <1>1 DEF InGame
  <1> QED
    BY <1>0, <1>1, <1>2, SoonWaits

LEMMA KillWaits ==
  ASSUME WaitState, NEW victim \in Players, NEW killer \in Players \cup {NoOne},
         Kill(victim, killer)
  PROVE  WaitStep
  <1> DEFINE k == KillPlayer(victim, killer)
  <1>0. phase \notin {"queue", "losers"} /\ phase' = phase /\ game' = k
    BY DEF Kill, Acting
  <1>1. /\ Sound(k) /\ k.status = game.status /\ k.position = game.position
        /\ Follows(game, k)
    BY WaitTypes, KillPlayerSound, KillFollows DEF Keeps, Frame
  <1> HIDE DEF k
  <1>2. InGame(game) \subseteq InGame(k)
    BY <1>1 DEF InGame
  <1> QED
    BY <1>0, <1>1, <1>2, SoonWaits

LEMMA CaptureWaits == ASSUME WaitState, NEW p \in Players, Capture(p) PROVE WaitStep
  <1> DEFINE t == TeamOf[p]
             score == [game.score EXCEPT ![t] = @ + 1]
             g == [game EXCEPT !.score = score]
             h == ScoreCheckEndGame(g)
  <1>0. phase \notin {"queue", "losers"} /\ phase' = phase
    BY DEF Capture, Acting
  <1>1. t \in Sides
    BY TeamsAssumption DEF Sides
  <1> HIDE DEF t
  <1>2. game' = h
    BY WaitTypes DEF Capture, t, Games
  <1>3. score \in [Sides -> Int]
    BY <1>1, WaitTypes DEF Games
  <1> HIDE DEF score
  <1>4. /\ g \in Games /\ SameClock(game, g) /\ g.position = game.position
        /\ g.status = game.status /\ g.round = game.round
    BY <1>3, WaitTypes DEF Games, SameClock
  <1> HIDE DEF g
  <1>5. Sound(g)
    BY <1>4, WaitTypes, SameRound DEF SameClock
  <1>6. /\ Sound(h) /\ h.status = game.status /\ h.position = game.position
    BY <1>4, <1>5, WaitTypes, ScoreCheckSound DEF Keeps, Frame
  <1>7. Follows(game, h)
    BY <1>4, <1>5, WaitTypes, SameFollows, ScoreCheckFollows, FollowsTransitive
  <1> HIDE DEF h
  <1>8. InGame(game) \subseteq InGame(h)
    BY <1>6 DEF InGame
  <1> QED
    BY <1>0, <1>2, <1>6, <1>7, <1>8, SoonWaits

LEMMA ExitWaits ==
  ASSUME WaitState, game' = ExitLevel(game), phase' = phase, phase # "queue"
  PROVE  WaitStep
  <1> DEFINE k == ExitLevel(game)
  <1>1. k.gamestate = "intermission" /\ k.lobby = game.lobby
    BY WaitTypes DEF ExitLevel, Games
  <1>2. game' = k
    OBVIOUS
  <1> HIDE DEF k
  <1> QED
    BY <1>1, <1>2, WaitTypes, OverWaits, PlainWaits

-----------------------------------------------------------------------------
(* The administrator and the votes.                                        *)

\* An ordered map makes no room by itself.
LEMMA MapWaits ==
  ASSUME WaitState, phase \in {"packets", "votes"}, NEW k, k = DeferedInitNew(game),
         NEW stage \in {"packets", "commands"}, stage = "packets" => phase = "packets",
         stage = "commands" => phase = "votes"
  PROVE  Sound(k) /\ k.lobby = 0 /\ Timed(k, stage) /\ Shut(k, stage)
  <1>1. Sound(k)
    BY WaitTypes, ActionSound DEF DeferedInitNew, Keeps, Actions
  <1>2. /\ k.status = game.status /\ k.position = game.position /\ k.lobby = game.lobby
        /\ k.gamestate = game.gamestate /\ k.state = game.state /\ k.start = game.start
        /\ k.done = game.done /\ k.time = game.time /\ k.action = "newgame"
    BY WaitTypes DEF DeferedInitNew, Games
  <1>3. Timed(game, phase) /\ Shut(game, phase) /\ game.lobby = 0
    BY WaitTypes
  <1>4. Opens(k) => Opens(game)
    BY <1>2 DEF Opens, CanJoinGame, CanJoinGameStart, JoinTimerOver, InGame
  <1>5. Timed(k, stage)
    BY <1>2, <1>3 DEF Timed, Steady
  <1>6. Shut(k, stage)
    BY <1>2, <1>3, <1>4 DEF Shut, Steady, Waiting
  <1> QED
    BY <1>1, <1>2, <1>3, <1>5, <1>6

\* A countdown that is forced lets in nobody whom the warmup keeps out.
LEMMA ForceWaits ==
  ASSUME WaitState, phase \in {"packets", "votes"}, NEW k, k = ForceStart(game),
         NEW stage \in {"packets", "commands"}, stage = "packets" => phase = "packets",
         stage = "commands" => phase = "votes"
  PROVE  Sound(k) /\ k.lobby = 0 /\ Timed(k, stage) /\ Shut(k, stage)
  <1>1. Sound(k) /\ k.status = game.status /\ k.position = game.position
    BY WaitTypes, ForceStartSound DEF Keeps, Frame
  <1>2. Timed(game, phase) /\ Shut(game, phase) /\ game.lobby = 0
    BY WaitTypes
  <1>3. CASE k = game
    BY <1>1, <1>2, <1>3, StageWaits
  <1>4. CASE game.state = "warmup" /\ k = SetState(game, "forced")
    <2>1. /\ k.state = "forced" /\ k.lobby = 0 /\ k.gamestate = game.gamestate
          /\ k.action = game.action
      BY <1>2, <1>4, WaitTypes, SetStateFields
    <2>2. Opens(k) => Opens(game)
      <3>1. Opens(k) => cvars.lives = 0 /\ CanJoinGameStart(game)
        BY <1>1, <1>4, <2>1 DEF Opens, CanJoinGame, CanJoinGameStart, InGame
      <3> QED
        BY <3>1 DEF Opens, CanJoinGame
    <2>3. Shut(k, stage)
      BY <1>1, <1>2, <2>1, <2>2 DEF Shut, Steady, Waiting
    <2>4. Timed(k, stage)
      BY <2>1 DEF Timed
    <2> QED
      BY <1>1, <2>1, <2>3, <2>4
  <1> QED
    BY <1>3, <1>4 DEF ForceStart

\* Where a restart is allowed, it keeps everybody out until the countdown is over.
LEMMA RestartWaits ==
  ASSUME Settled, cvars.lives # 0, NEW g, Sound(g), g.lobby = 0, NEW k, k = Restart(g)
  PROVE  \A stage : k.lobby = 0 /\ Timed(k, stage) /\ Shut(k, stage)
  <1>1. k.state = "forced" /\ k.lobby = 0
    BY SetStateFields DEF Restart, Sound
  <1> QED
    BY <1>1 DEF Timed, Shut, Opens

LEMMA ConsoleWaits ==
  ASSUME AlwaysServed, WaitState, NEW command \in Commands, Console(command) PROVE WaitStep
  <1>0. phase = "packets" /\ phase' = "packets"
    BY DEF Console
  <1>1. command \in {"restart", "forcestart", "nextmap", "map"}
    BY ChoicesAssumption DEF CommandKinds
  <1>2. CASE command = "restart"
    <2>1. cvars.lives # 0
      BY <1>2, WaitTypes DEF AlwaysServed, Settled
    <2>2. game' = Restart(game)
      BY <1>2 DEF Console
    <2> QED
      BY <1>0, <2>1, <2>2, WaitTypes, RestartWaits, PlainWaits
  <1>3. CASE command = "forcestart"
    <2>1. game' = ForceStart(game)
      BY <1>3 DEF Console
    <2> QED
      BY <1>0, <2>1, ForceWaits, PlainWaits
  <1>4. CASE command = "nextmap"
    BY <1>0, <1>4, ExitWaits DEF Console
  <1>5. CASE command = "map"
    <2>1. game' = DeferedInitNew(game)
      BY <1>5 DEF Console
    <2> QED
      BY <1>0, <2>1, MapWaits, PlainWaits
  <1> QED
    BY <1>1, <1>2, <1>3, <1>4, <1>5

\* The delays run at the end of the tic's first part.
LEMMA DelaysWait ==
  ASSUME Settled, NEW g, Sound(g), g.lobby = 0, NEW stage, Timed(g, stage), NEW k,
         k = RunDelays(g)
  PROVE  /\ Sound(k) /\ k.lobby = 0 /\ Timed(k, stage)
         /\ Shut(g, stage) => Shut(k, stage)
  <1>1. Sound(k) /\ k.status = g.status /\ k.position = g.position
    BY RunDelaysSound DEF Keeps, Frame
  <1>2. SameClock(g, k)
    BY DelaysFollow DEF Sound
  <1>3. InGame(g) \subseteq InGame(k) /\ (Waiting(k) => Waiting(g))
    BY <1>1 DEF InGame, Waiting
  <1>4. Follows(g, k) /\ g \in Games /\ k \in Games
    BY <1>1, <1>2, SameFollows DEF Sound
  <1>5. Timed(k, stage)
    BY <1>4, FollowsTimed
  <1>6. Shut(g, stage) => Shut(k, stage)
    BY <1>3, <1>4, FollowsShut
  <1> QED
    BY <1>1, <1>2, <1>5, <1>6 DEF SameClock

LEMMA VoteWaits ==
  ASSUME AlwaysServed, WaitState, NEW vote \in Votes, VotePasses(vote) PROVE WaitStep
  <1>0. /\ phase = "votes" /\ Stage = "votes" /\ "commands" \in Phases \ {"queue"}
        /\ Timed(game, "votes")
    BY WaitTypes DEF VotePasses, Phases
  <1>1. vote \in {"restart", "forcestart", "forcespec", "map"}
    BY ChoicesAssumption DEF VoteKinds
  <1>2. ASSUME NEW g, Sound(g), g.lobby = 0, Timed(g, "commands"), Shut(g, "commands"),
               game' = RunDelays(g), phase' = "commands"
        PROVE  WaitStep
    BY <1>2, WaitTypes, DelaysWait, PlainWaits
  <1>3. CASE vote = "restart"
    <2> DEFINE r == Reset(game)
               g == Restart(r)
    <2>1. cvars.lives # 0
      BY <1>3, WaitTypes DEF AlwaysServed, Settled
    <2>2. game' = RunDelays(g) /\ phase' = "commands"
      BY <1>3 DEF VotePasses
    <2>3. Sound(r)
      BY WaitTypes, ResetSound DEF Keeps
    <2>4. r.lobby = 0
      BY <2>1, WaitTypes, ResetWaits
    <2> HIDE DEF r
    <2>5. Sound(g)
      BY <2>3, WaitTypes, RestartSound DEF Keeps
    <2>6. g.lobby = 0 /\ Timed(g, "commands") /\ Shut(g, "commands")
      BY <2>1, <2>3, <2>4, WaitTypes, RestartWaits
    <2> HIDE DEF g
    <2> QED
      BY <1>2, <2>2, <2>5, <2>6
  <1>4. CASE vote = "forcestart"
    <2> DEFINE g == ForceStart(game)
    <2>1. game' = RunDelays(g) /\ phase' = "commands"
      BY <1>4 DEF VotePasses
    <2>2. Sound(g) /\ g.lobby = 0 /\ Timed(g, "commands") /\ Shut(g, "commands")
      BY <1>0, ForceWaits
    <2> HIDE DEF g
    <2> QED
      BY <1>2, <2>1, <2>2
  <1>5. CASE vote = "map"
    <2> DEFINE g == DeferedInitNew(game)
    <2>1. game' = RunDelays(g) /\ phase' = "commands"
      BY <1>5 DEF VotePasses
    <2>2. Sound(g) /\ g.lobby = 0 /\ Timed(g, "commands") /\ Shut(g, "commands")
      BY <1>0, MapWaits
    <2> HIDE DEF g
    <2> QED
      BY <1>2, <2>1, <2>2
  <1>6. CASE vote = "forcespec"
    <2>1. PICK p \in InGame(game) :
             UpdateQueue(RunDelays(SpecPlayer(game, p)), "join", {p}, "commands")
      BY <1>6 DEF VotePasses
    <2> DEFINE k == SpecPlayer(game, p)
               h == RunDelays(k)
    <2>2. p \in Players
      BY DEF InGame
    <2>3. Sound(k) /\ Follows(game, k)
      BY <2>2, WaitTypes, SpecPlayerSound, SpecFollows
    <2> HIDE DEF k
    <2>4. k.lobby = 0 /\ Timed(k, "commands")
      BY <1>0, <2>3, WaitTypes, FollowsTimed, StageWaits DEF Follows
    <2>5. Sound(h) /\ h.lobby = 0 /\ Timed(h, "commands")
      BY <2>3, <2>4, WaitTypes, DelaysWait
    <2>6. UpdateQueue(h, "join", {p}, "commands")
      BY <2>1 DEF k
    <2> HIDE DEF h
    <2> QED
      BY <1>0, <2>5, <2>6, QueueWaits
  <1> QED
    BY <1>1, <1>3, <1>4, <1>5, <1>6

-----------------------------------------------------------------------------
(* The server's frame.                                                     *)

LEMMA GameTicsWait == ASSUME AlwaysServed, WaitState, GameTics PROVE WaitStep
  <1> DEFINE held == HoldTime(game)
             tic == Tic(held)
             timed == TimeCheckEndGame(tic)
             ticked == IF game.gamestate = "level" THEN timed ELSE game
             delayed == RunDelays(ticked)
  <1>0. /\ phase = "packets" /\ phase' \in {"votes", "commands"}
        /\ game' = ticked \/ game' = delayed
        /\ Timed(game, "packets") /\ Shut(game, "packets")
    BY WaitTypes DEF GameTics
  <1>1. Steady(game, "packets")
    BY DEF Steady
  <1>2. /\ Sound(held) /\ held.status = game.status /\ held.position = game.position
        /\ held.lobby = 0 /\ held.gamestate = game.gamestate
        /\ Timed(held, "packets") /\ (Opens(held) => Opens(game))
    BY <1>0, WaitTypes, HoldTimeSound, HoldFields, HoldWaits DEF Stays
  <1> HIDE DEF held
  <1>3. /\ Sound(tic) /\ tic.status = game.status /\ tic.position = game.position
    BY <1>2, WaitTypes, TicSound DEF Keeps, Frame
  <1>4. game.gamestate = "level" =>
           /\ tic.lobby = 0 /\ Timed(tic, phase')
           /\ Steady(tic, phase') /\ Opens(tic) => Opens(held)
    BY <1>0, <1>2, WaitTypes, TicWaits
  <1> HIDE DEF tic
  <1>5. game.gamestate = "level" => Shut(tic, phase')
    BY <1>0, <1>1, <1>2, <1>3, <1>4 DEF Shut, Waiting
  <1>6. /\ Sound(timed) /\ timed.status = game.status /\ timed.position = game.position
        /\ Follows(tic, timed)
    BY <1>3, WaitTypes, TimeCheckSound, TimeCheckFollows DEF Keeps, Frame
  <1> HIDE DEF timed
  <1>7. game.gamestate = "level" =>
           timed.lobby = 0 /\ Timed(timed, phase') /\ Shut(timed, phase')
    <2>1. InGame(tic) \subseteq InGame(timed) /\ (Waiting(timed) => Waiting(tic))
      BY <1>3, <1>6 DEF InGame, Waiting
    <2>2. tic \in Games /\ timed \in Games /\ (game.gamestate = "level" => timed.lobby = 0)
      BY <1>3, <1>4, <1>6 DEF Sound, Follows
    <2>3. game.gamestate = "level" => Timed(timed, phase')
      BY <1>4, <1>6, FollowsTimed
    <2>4. game.gamestate = "level" => Shut(timed, phase')
      BY <1>5, <1>6, <2>1, <2>2, WaitTypes, FollowsShut
    <2> QED
      BY <2>2, <2>3, <2>4
  <1>8. Sound(ticked) /\ ticked.lobby = 0 /\ Timed(ticked, phase') /\ Shut(ticked, phase')
    <2>1. CASE game.gamestate = "level"
      BY <1>6, <1>7, <2>1
    <2>2. CASE game.gamestate = "intermission"
      BY <2>2, WaitTypes, OverWaits
    <2> QED
      BY <2>1, <2>2, WaitTypes DEF Games
  <1> HIDE DEF ticked
  <1>9. delayed.lobby = 0 /\ Timed(delayed, phase') /\ Shut(delayed, phase')
    BY <1>8, WaitTypes, DelaysWait
  <1> HIDE DEF delayed
  <1> QED
    BY <1>0, <1>8, <1>9, PlainWaits

LEMMA EndVotesWait == ASSUME WaitState, EndVotes PROVE WaitStep
  <1> DEFINE k == RunDelays(game)
  <1>0. phase = "votes" /\ phase' = "commands" /\ game' = k
    BY DEF EndVotes
  <1>1. Timed(game, "commands") /\ Shut(game, "commands")
    BY <1>0, WaitTypes, StageWaits
  <1>2. k.lobby = 0 /\ Timed(k, "commands") /\ Shut(k, "commands")
    BY <1>1, WaitTypes, DelaysWait
  <1> HIDE DEF k
  <1> QED
    BY <1>0, <1>2, PlainWaits

LEMMA DoResetLevelWaits == ASSUME WaitState, DoResetLevel PROVE WaitStep
  <1> DEFINE full == game.action = "fullresetlevel"
             S == Present(game)
             T == S \cup Teams
             cleared == ClearScores(game, S, T, full)
             ready == IF full /\ cvars.warmup = 1 THEN {} ELSE cleared.ready
             g == [cleared EXCEPT !.action = "nothing", !.time = 0, !.ready = ready]
  <1>0. /\ phase = "commands" /\ full \in BOOLEAN /\ "world" \in Phases \ {"queue"}
        /\ UpdateQueue(ResetLevel(game, full), "start", {}, "world")
    BY DEF DoResetLevel, Phases
  <1> HIDE DEF full
  <1>1. UpdateQueue(g, "start", {}, "world") /\ g = ResetLevel(game, full)
    BY <1>0 DEF ResetLevel
  <1>2. Sound(g)
    BY <1>0, <1>1, WaitTypes, ResetLevelSound DEF Stays
  <1>3. Sound(cleared) /\ Follows(game, cleared)
    BY <1>0, WaitTypes, ClearScoresSound, ClearFollows DEF Keeps
  <1>4. cleared.lobby = 0 /\ Timed(cleared, "commands")
    BY <1>0, <1>3, WaitTypes, FollowsTimed DEF Follows
  <1> HIDE DEF cleared, ready
  <1>5. /\ g.lobby = 0 /\ g.gamestate = cleared.gamestate /\ g.time = 0
        /\ g.state = cleared.state /\ g.start = cleared.start /\ g.done = cleared.done
    BY <1>3, <1>4 DEF Sound, Games
  <1> HIDE DEF g
  <1>6. g.state = "preround" => 0 < cvars.preroundtime
    <2>1. cvars.preroundtime \in Nat
      BY WaitTypes, CvarTypes DEF Cvars
    <2>2. g.state = "preround" => StartOfRoundState = "preround"
      BY <1>2 DEF Sound, RoundOK
    <2> QED
      BY <2>1, <2>2 DEF StartOfRoundState
  <1>7. Timed(g, "world")
    <2>1. cvars.preroundtime \in Nat
      BY WaitTypes, CvarTypes DEF Cvars
    <2>2. g.state = "preround" => g.time < cvars.preroundtime /\ g.time <= cvars.preroundtime
      BY <1>5, <1>6, <2>1
    <2> QED
      BY <1>4, <1>5, <2>2 DEF Timed
  <1> QED
    BY <1>0, <1>1, <1>2, <1>5, <1>7, QueueWaits

LEMMA DoCompletedWaits == ASSUME WaitState, DoCompleted PROVE WaitStep
  <1> DEFINE k == [game EXCEPT !.action = "nothing"]
  <1>1. phase' = "commands" /\ game' = k /\ game.gamestate = "intermission"
    BY WaitTypes DEF DoCompleted
  <1>2. k.gamestate = "intermission" /\ k.lobby = 0
    BY <1>1, WaitTypes DEF Games
  <1> HIDE DEF k
  <1> QED
    BY <1>1, <1>2, OverWaits, PlainWaits

\* A loaded level is at the start of its clock.
LEMMA LoadLevelWaits ==
  ASSUME Settled, NEW g, Sound(g), NEW h, h = LoadLevel(g, 0)
  PROVE  Sound(h) /\ h.lobby = 0 /\ \A stage : Timed(h, stage)
  <1> DEFINE sides == Present(g) \cup (IF IsTeamGame THEN Teams ELSE {})
             S == Present(g)
             b == TRUE
             cleared == ClearScores(g, S, sides, b)
             delay == [p \in Players |-> 0]
             ready == IF cvars.warmup = 1 THEN {} ELSE cleared.ready
             fresh == [cleared EXCEPT !.time = 0, !.action = "nothing",
                                      !.gamestate = "level", !.lobby = 0,
                                      !.delay = delay, !.ready = ready]
  <1>0. /\ Sound(LoadLevel(g, 0))
        /\ LoadLevel(g, 0) = Reset(fresh)
    <2>1. 0 \in {0, 1}
      OBVIOUS
    <2>2. Sound(LoadLevel(g, 0))
      BY <2>1, LoadLevelSound DEF Stays
    <2> QED
      BY <2>2 DEF LoadLevel
  <1>1. b \in BOOLEAN
    OBVIOUS
  <1> HIDE DEF sides, S, b
  <1>2. cleared \in Games
    BY <1>1, ClearScoresSound DEF Keeps, Sound
  <1>3. delay \in [Players -> Nat] /\ ready \in SUBSET Players
    BY <1>2 DEF Games
  <1> HIDE DEF cleared, delay, ready
  <1>4. /\ fresh \in Games /\ fresh.lobby = 0 /\ fresh.time = 0 /\ fresh.action = "nothing"
    BY <1>2, <1>3 DEF Games, Actions
  <1> HIDE DEF fresh
  <1>5. h = Reset(fresh) /\ Sound(h)
    BY <1>0
  <1>6. ASSUME cvars.lives # 0
        PROVE  /\ h.lobby = 0
               /\ h.state = "warmup" \/ (h.state = "ingame" /\ h.start = StartTime(fresh))
    BY <1>4, <1>5, <1>6, ResetWaits
  <1>7. StartTime(fresh) = 1 /\ cvars.preroundtime \in Nat
    BY <1>4, CvarTypes DEF StartTime, Cvars
  <1>8. h.lobby = 0
    <2> DEFINE first == [fresh EXCEPT !.round = 1]
               u == SetState(fresh, "warmup")
               v == SetState(first, StartOfRoundState)
    <2>1. h = [u EXCEPT !.done = 0] \/ h = [v EXCEPT !.done = 0]
      BY <1>5 DEF Reset
    <2>2. first \in Games /\ first.lobby = 0
      BY <1>4 DEF Games
    <2> HIDE DEF first
    <2>3. u \in Games /\ u.lobby = 0 /\ v \in Games /\ v.lobby = 0
      <3>1. "warmup" \in States /\ StartOfRoundState \in States
        BY StartStateType DEF States, WarmupStates
      <3> QED
        BY <1>4, <2>2, <3>1, SetStateType, SetStateFields
    <2> HIDE DEF u, v
    <2> QED
      BY <2>1, <2>3 DEF Games
  <1>9. ASSUME NEW stage PROVE Timed(h, stage)
    <2>1. cvars.lives # 0 /\ h.state = "ingame" => h.start = 1
      BY <1>6, <1>7
    <2>2. 1 <= cvars.preroundtime + 1
      BY <1>7
    <2> QED
      BY <1>6, <2>1, <2>2 DEF Timed
  <1> QED
    BY <1>5, <1>8, <1>9

LEMMA DoNewGameWaits == ASSUME AlwaysServed, WaitState, DoNewGame PROVE WaitStep
  <1> DEFINE g == LoadLevel(game, 0)
  <1>0. LobbyMaps \subseteq {0}
    BY ChoicesAssumption DEF AlwaysServed
  <1>1. \/ game' = g /\ phase' = "losers"
        \/ UpdateQueue(g, "start", {}, "world")
    BY <1>0, WaitTypes DEF DoNewGame
  <1>2. Sound(g) /\ g.lobby = 0 /\ \A stage : Timed(g, stage)
    BY WaitTypes, LoadLevelWaits
  <1> HIDE DEF g
  <1>3. "world" \in Phases \ {"queue"}
    BY DEF Phases
  <1>4. CASE game' = g /\ phase' = "losers"
    BY <1>2, <1>4, PlainWaits
  <1>5. CASE UpdateQueue(g, "start", {}, "world")
    BY <1>2, <1>3, <1>5, QueueWaits
  <1> QED
    BY <1>1, <1>4, <1>5

LEMMA BootLoserWaits == ASSUME WaitState, NEW p \in Players, BootLoser(p) PROVE WaitStep
  <1> DEFINE s == SpecPlayer(game, p)
             g == [s EXCEPT !.delay[p] = 0]
  <1>0. /\ UpdateQueue(g, "join", {p}, "losers") /\ Stage = "losers"
        /\ "losers" \in Phases \ {"queue"}
    BY DEF BootLoser, Stage, Phases
  <1>1. Sound(s) /\ Follows(game, s)
    BY WaitTypes, SpecPlayerSound, SpecFollows
  <1> HIDE DEF s
  <1>2. Sound(g) /\ SameClock(s, g)
    <2>1. 0 \in Nat
      OBVIOUS
    <2>2. Sound(g)
      BY <1>1, <2>1, DelaySound DEF Keeps
    <2> QED
      BY <1>1, <2>2 DEF Sound, SameClock, Games
  <1> HIDE DEF g
  <1>3. g.lobby = 0 /\ Timed(g, "losers")
    BY <1>0, <1>1, <1>2, WaitTypes, SameFollows, FollowsTransitive, FollowsTimed DEF Follows
  <1> QED
    BY <1>0, <1>2, <1>3, QueueWaits

LEMMA LosersBootedWait == ASSUME WaitState, LosersBooted PROVE WaitStep
  <1>1. /\ UpdateQueue(game, "start", {}, "world") /\ Stage = "losers"
        /\ "world" \in Phases \ {"queue"} /\ Timed(game, "losers")
    BY WaitTypes DEF LosersBooted, Stage, Phases
  <1>2. Timed(game, "world")
    BY <1>1, StageWaits
  <1> QED
    BY <1>1, <1>2, WaitTypes, QueueWaits

\* Nobody joins past somebody who has been refused, and whom the test refuses the
\* game is closed to.
LEMMA ServeQueueWaits == ASSUME WaitState, ServeQueue PROVE WaitStep
  <1>0. phase = "queue"
    BY DEF ServeQueue
  <1>1. PICK p \in queue.todo :
          \/ /\ MayJoin(game, queue.test)
             /\ game' = JoinPlayer([game EXCEPT !.position[p] = 0], p)
             /\ QueueAfter(p, queue.place)
          \/ /\ ~MayJoin(game, queue.test)
             /\ game' = [game EXCEPT !.position[p] = queue.place]
             /\ QueueAfter(p, queue.place + 1)
    BY DEF ServeQueue
  <1>2. /\ queue \in Queues /\ queue.place \in Nat /\ queue.back \in Phases \ {"queue"}
        /\ p \in Players /\ queue.todo \subseteq Players
    BY <1>0, <1>1, TypesOfTheRest DEF WaitState, Queues
  <1>3. ASSUME NEW n, QueueAfter(p, n)
        PROVE  /\ Stage' = Stage /\ phase' \in {"queue", queue.back}
               /\ phase' # "queue" => queue.todo = {p}
               /\ phase' = "queue" =>
                     queue'.todo = queue.todo \ {p} /\ queue'.test = queue.test
    BY <1>0, <1>2, <1>3 DEF QueueAfter, Stage, Queues
  <1>4. CASE /\ MayJoin(game, queue.test)
             /\ game' = JoinPlayer([game EXCEPT !.position[p] = 0], p)
             /\ QueueAfter(p, queue.place)
    <2> DEFINE g == [game EXCEPT !.position[p] = 0]
               k == JoinPlayer(g, p)
    <2>1. Sound(g) /\ g.position = [game.position EXCEPT ![p] = 0] /\ SameClock(game, g)
      BY <1>2, WaitTypes, PositionSound DEF SameClock, Games
    <2>2. game' = k
      BY <1>4
    <2> HIDE DEF g
    <2>3. k.position = g.position /\ Follows(g, k)
      BY <1>2, <2>1, WaitTypes, JoinPlayerSound, JoinFollows
    <2> HIDE DEF k
    <2>4. k.lobby = 0 /\ Timed(k, Stage)
      BY <2>1, <2>3, WaitTypes, SameFollows, FollowsTimed DEF Follows, SameClock
    <2>5. \A q \in Players \ queue.todo : game.position[q] = 0
      <3>1. Queued \ queue.todo = {}
        BY <1>0, <1>4 DEF WaitState, WaitInv
      <3>2. \A q \in Players : game.position[q] \in Nat
        BY WaitTypes
      <3> QED
        BY <3>1, <3>2 DEF Queued
    <2>6. \A q \in Players \ (queue.todo \ {p}) : k.position[q] = 0
      BY <1>2, <2>1, <2>3, <2>5, WaitTypes
    <2>7. phase' # "queue" => ~Waiting(k)
      BY <1>3, <1>4, <2>6 DEF Waiting
    <2>8. phase' # "queue" => Shut(k, phase')
      BY <2>7 DEF Shut
    <2>9. phase' = "queue" => queue'.todo = queue.todo \ {p}
      BY <1>3, <1>4
    <2>10. phase' = "queue" => \A q \in Players \ queue'.todo : k.position[q] = 0
      BY <2>6, <2>9
    <2>11. Stage' = Stage
      BY <1>3, <1>4
    <2> QED
      BY <2>2, <2>4, <2>8, <2>10, <2>11 DEF WaitStep
  <1>5. CASE /\ ~MayJoin(game, queue.test)
             /\ game' = [game EXCEPT !.position[p] = queue.place]
             /\ QueueAfter(p, queue.place + 1)
    <2> DEFINE k == [game EXCEPT !.position[p] = queue.place]
    <2>1. game' = k /\ SameClock(game, k) /\ k.status = game.status
      BY <1>5, WaitTypes DEF SameClock, Games
    <2> HIDE DEF k
    <2>2. k.lobby = 0 /\ Timed(k, Stage)
      BY <2>1, WaitTypes, SameFollows, FollowsTimed DEF SameClock
    <2>3. /\ CanJoinGameStart(k) <=> CanJoinGameStart(game)
          /\ CanJoinGame(k) <=> CanJoinGame(game)
      BY <2>1 DEF SameClock, CanJoinGame, CanJoinGameStart, JoinTimerOver, InGame
    <2>4. ~MayJoin(k, queue.test) /\ ~CanJoinGame(k)
      BY <1>5, <2>3 DEF MayJoin, CanJoinGame
    <2>5. ~Opens(k)
      BY <2>4 DEF Opens
    <2>6. phase' # "queue" => Shut(k, phase')
      BY <2>5 DEF Shut
    <2> QED
      BY <1>3, <1>5, <2>1, <2>2, <2>4, <2>6 DEF WaitStep
  <1> QED
    BY <1>1, <1>4, <1>5

LEMMA RunWorldWaits == ASSUME WaitState, RunWorld PROVE WaitStep
  <1>1. /\ phase = "commands" /\ phase' = "world" /\ game' = game
        /\ game.action = "nothing"
    BY DEF RunWorld
  <1>2. Timed(game, "world") /\ Shut(game, "world")
    BY <1>1, WaitTypes, StageWaits
  <1> QED
    BY <1>1, <1>2, WaitTypes, PlainWaits

LEMMA RunIntermissionWaits == ASSUME WaitState, RunIntermission PROVE WaitStep
  <1> DEFINE counted == [game EXCEPT !.mapchange = @ - 1]
             k == IF counted.mapchange = 0 THEN DeferedInitNew(counted) ELSE counted
  <1>1. counted \in Games /\ counted.gamestate = "intermission" /\ counted.lobby = 0
    BY WaitTypes DEF RunIntermission, Games
  <1>2. game' = k /\ phase' = "drops"
    BY DEF RunIntermission
  <1> HIDE DEF counted
  <1>3. k.gamestate = "intermission" /\ k.lobby = 0
    BY <1>1 DEF DeferedInitNew, Games
  <1> HIDE DEF k
  <1> QED
    BY <1>2, <1>3, OverWaits, PlainWaits

\* The clock goes on: a preround comes to its time, a join timer may run out.
LEMMA EndTickerWaits == ASSUME WaitState, EndTicker PROVE WaitStep
  <1> DEFINE k == [game EXCEPT !.time = @ + 1]
  <1>1. phase = "world" /\ phase' = "drops" /\ game' = k
    BY DEF EndTicker
  <1>2. Timed(game, "world") /\ Shut(game, "world") /\ game.lobby = 0
    BY <1>1, WaitTypes
  <1>3. /\ game.time \in Nat /\ game.start \in Nat
        /\ cvars.preroundtime \in Nat /\ cvars.jointimer \in Nat
    BY WaitTypes, CvarTypes DEF Games, Cvars
  <1>4. /\ k.status = game.status /\ k.position = game.position /\ k.lobby = game.lobby
        /\ k.gamestate = game.gamestate /\ k.action = game.action
        /\ k.state = game.state /\ k.start = game.start /\ k.done = game.done
        /\ k.time = game.time + 1
    BY WaitTypes DEF Games
  <1> HIDE DEF k
  <1>5. game.time < cvars.preroundtime => k.time <= cvars.preroundtime
    BY <1>3, <1>4
  <1>6. Timed(k, "drops")
    BY <1>2, <1>4, <1>5 DEF Timed, Steady
  <1>7. JoinTimerOver(game) => JoinTimerOver(k)
    BY <1>3, <1>4 DEF JoinTimerOver
  <1>8. Opens(k) => Opens(game)
    BY <1>4, <1>7 DEF Opens, CanJoinGame, CanJoinGameStart, InGame
  <1>9. Shut(k, "drops")
    BY <1>2, <1>4, <1>8 DEF Shut, Steady, Waiting
  <1> QED
    BY <1>1, <1>2, <1>4, <1>6, <1>9, PlainWaits

LEMMA EndDropsWaits == ASSUME WaitState, EndDrops PROVE WaitStep
  <1>1. phase = "drops" /\ phase' \in {"packets", "cleanup"} /\ game' = game
    BY DEF EndDrops
  <1>2. Timed(game, phase') /\ Shut(game, phase')
    BY <1>1, WaitTypes, StageWaits
  <1> QED
    BY <1>1, <1>2, WaitTypes, PlainWaits

LEMMA RemoveWaits ==
  ASSUME WaitState, NEW p \in Players, RemoveDisconnected(p) PROVE WaitStep
  <1> DEFINE e == Erase(game, p)
             g == AssertValidPlayerCount(e)
             back == IF Left(game) = {p} THEN "packets" ELSE "cleanup"
  <1>0. /\ UpdateQueue(g, "join", {p}, back) /\ Stage = "cleanup"
        /\ back \in Phases \ {"queue"} /\ back \in {"packets", "cleanup"}
    BY DEF RemoveDisconnected, Stage, Phases
  <1> HIDE DEF back
  <1>1. Sound(e) /\ Follows(game, e)
    BY WaitTypes, EraseSound, EraseFollows
  <1> HIDE DEF e
  <1>2. Sound(g) /\ Follows(e, g)
    BY <1>1, WaitTypes, PlayerCountSound, PlayerCountFollows DEF Keeps
  <1> HIDE DEF g
  <1>3. Follows(game, g)
    BY <1>1, <1>2, FollowsTransitive
  <1>4. g.lobby = 0 /\ Timed(g, "cleanup")
    BY <1>0, <1>3, WaitTypes, FollowsTimed DEF Follows
  <1>5. Timed(g, back)
    BY <1>0, <1>4, StageWaits
  <1> QED
    BY <1>0, <1>2, <1>4, <1>5, QueueWaits

LEMMA NextWaits == ASSUME AlwaysServed, WaitState, Next PROVE WaitStep
  <1>1. CASE Server
    BY <1>1, GameTicsWait, EndVotesWait, DoResetLevelWaits, DoCompletedWaits, DoNewGameWaits,
       BootLoserWaits, LosersBootedWait, ServeQueueWaits, RunWorldWaits,
       RunIntermissionWaits, EndTickerWaits, EndDropsWaits, RemoveWaits
       DEF Server
  <1>2. CASE Clients
    <2>1. PICK p \in Players :
             \/ Connect(p) \/ Disconnect(p) \/ JoinRequest(p) \/ SpectateRequest(p)
             \/ ReadyRequest(p)
             \/ \E killer \in Players \cup {NoOne} : Kill(p, killer)
             \/ Capture(p) \/ Exit(p)
      BY <1>2 DEF Clients, InGame, Left
    <2>2. Exit(p) => game' = ExitLevel(game) /\ phase' = phase /\ phase # "queue"
      BY DEF Exit, Acting
    <2> QED
      BY <2>1, <2>2, ConnectWaits, DisconnectWaits, JoinRequestWaits, SpectateRequestWaits,
         ReadyRequestWaits, KillWaits, CaptureWaits, ExitWaits
  <1>3. CASE Operators
    BY <1>3, ConsoleWaits, VoteWaits DEF Operators
  <1> QED
    BY <1>1, <1>2, <1>3 DEF Next

-----------------------------------------------------------------------------

LEMMA InitWaits == ASSUME AlwaysServed, Init PROVE WaitInv
  <1>1. PICK lobby \in LobbyMaps : game = Reset(Empty(lobby))
    BY DEF Init
  <1> DEFINE e == Empty(lobby)
  <1>2. lobby = 0 /\ phase = "packets" /\ Stage = "packets" /\ Settled
    BY ChoicesAssumption DEF AlwaysServed, Init, Stage, Settled
  <1>3. /\ e \in Games /\ e.lobby = 0 /\ e.action = "nothing" /\ e.time = 0
        /\ InGame(e) = {} /\ \A p \in Players : e.position[p] = 0
    <2>1. e \in Games
      BY <1>2 DEF Empty, Games, States, WarmupStates, WinInfo, NoWinner, WinTypes,
                  Actions, Statuses
    <2> QED
      BY <1>2, <2>1 DEF Empty, InGame
  <1>4. game = Reset(e)
    BY <1>1
  <1>5. Sound(e)
    BY <1>2, <1>3, CvarTypes DEF Sound, RoundOK, StartOK, Empty, WarmupStates, Cvars
  <1> HIDE DEF e
  <1>6. game \in Games /\ game.position = e.position
    BY <1>2, <1>4, <1>5, ResetSound DEF Keeps, Frame, Sound
  <1>7. Timed(game, "packets")
    <2>1. cvars.lives # 0 => game.state = "warmup"
      BY <1>2, <1>3, <1>4, ResetWaits
    <2> QED
      BY <2>1 DEF Timed
  <1>8. game.lobby = 0
    <2> DEFINE first == [e EXCEPT !.round = 1]
               u == SetState(e, "warmup")
               v == SetState(first, StartOfRoundState)
    <2>1. game = [u EXCEPT !.done = 0] \/ game = [v EXCEPT !.done = 0]
      BY <1>4 DEF Reset
    <2>2. first \in Games /\ first.lobby = 0
      BY <1>3 DEF Games
    <2> HIDE DEF first
    <2>3. u \in Games /\ u.lobby = 0 /\ v \in Games /\ v.lobby = 0
      <3>1. "warmup" \in States /\ StartOfRoundState \in States
        BY StartStateType DEF States, WarmupStates
      <3> QED
        BY <1>2, <1>3, <2>2, <3>1, SetStateType, SetStateFields
    <2> HIDE DEF u, v
    <2> QED
      BY <2>1, <2>3 DEF Games
  <1> QED
    BY <1>2, <1>3, <1>6, <1>7, <1>8 DEF WaitInv, Shut, Waiting

LEMMA WaitAfter == ASSUME cvars' = cvars, WaitStep PROVE WaitInv'
  <1>1. Timed(game', Stage') <=> Timed(game, Stage)'
    BY DEF Timed, Steady
  <1>2. Shut(game', phase') <=> Shut(game, phase)'
    BY DEF Shut, Steady, Waiting, Opens, CanJoinGame, CanJoinGameStart, JoinTimerOver, InGame
  <1>3. MayJoin(game', queue'.test) <=> MayJoin(game, queue.test)'
    BY DEF MayJoin, CanJoinGame, CanJoinGameStart, JoinTimerOver, InGame
  <1>4. (\A p \in Players \ queue'.todo : game'.position[p] = 0)
        => (Queued \ queue.todo)' = {}
    BY DEF Queued
  <1> QED
    BY <1>1, <1>2, <1>3, <1>4 DEF WaitStep, WaitInv

LEMMA NextWait ==
  ASSUME AlwaysServed, IInv, FairInv, WaitInv, [Next]_vars PROVE WaitInv'
  <1>1. CASE UNCHANGED vars
    <2>1. /\ cvars' = cvars /\ game' = game /\ phase' = phase /\ queue' = queue
          /\ Stage' = Stage
      BY <1>1 DEF vars, Stage
    <2>2. phase = "queue" =>
             \/ \A p \in Players \ queue.todo : game.position[p] = 0
             \/ ~MayJoin(game, queue.test)
      <3>1. \A p \in Players : game.position[p] \in Nat
        BY SoundState DEF Sound, Games
      <3> QED
        BY <3>1 DEF WaitInv, Queued
    <2>3. WaitStep
      BY <2>1, <2>2 DEF WaitStep, WaitInv
    <2> QED
      BY <2>1, <2>3, WaitAfter
  <1>2. CASE Next
    <2>1. cvars' = cvars
      BY <1>2, NextStep DEF GoodStep, Leaves
    <2> QED
      BY <1>2, <2>1, NextWaits, WaitAfter DEF WaitState
  <1> QED
    BY <1>1, <1>2

\* Where every event that makes room serves the queue (no lobby is left, and a match
\* without lives has no warmup to go back to and is not restarted) nobody is left in
\* the queue between two frames whom the game would let in: whoever leaves, dies, is
\* booted or votes, whichever map is loaded and however the clock stands
\* (SV_UpdatePlayerQueuePositions and its callers).
THEOREM NobodyIsForgotten == ASSUME AlwaysServed PROVE Spec => []NobodyWaitsInVain
  <1>1. Init => IInv /\ FairInv /\ WaitInv
    BY InitIInv, InitFair, InitWaits
  <1>2. IInv /\ FairInv /\ WaitInv /\ [Next]_vars => (IInv /\ FairInv /\ WaitInv)'
    BY NextIInv, NextFairInv, NextWait
  <1>3. WaitInv => NobodyWaitsInVain
    BY DEF WaitInv, NobodyWaitsInVain, Shut, Steady, Waiting, Opens, Queued
  <1> QED
    BY <1>1, <1>2, <1>3, PTL DEF Spec

=============================================================================
