------------------------------- MODULE CtfFlags -------------------------------
(***************************************************************************)
(* The flags of capture the flag: who takes, drops, returns and captures   *)
(* them (server/src/sv_ctf.cpp), and what a client that has applied every  *)
(* message so far shows of them (client/src/cl_parse.cpp, cl_ctf.cpp).     *)
(*                                                                         *)
(* As in LevelState, a function of the source is an operator: it takes the *)
(* flags f and the game g it reads, and returns the flags.  CtfMatch calls *)
(* the operators from the actions of a match.                              *)
(***************************************************************************)
EXTENDS LevelState

\* ctf_manualreturn, g_ctf_notouchreturn, ctf_flagathometoscore, and
\* ctf_flagtimeout in tics.
Options == [manualreturn : {0, 1}, notouchreturn : {0, 1},
            flagathometoscore : {0, 1}, flagtimeout : Nat]

CONSTANT FlagOptions
ASSUME OptionsAssumption == FlagOptions \subseteq Options

VARIABLE options    \* the options in force, fixed for a behavior

FlagStates == {"home", "dropped", "carried"}

\* TeamInfo.FlagData (state, flagger, timeout), player_t.flags (carried), and
\* FlagData as the client has it.
Flags == [state : [Teams -> FlagStates],
          flagger : [Teams -> Players \cup {NoOne}],
          timeout : [Teams -> Nat],
          carried : [Players -> SUBSET Teams],
          seenState : [Teams -> FlagStates],
          seenFlagger : [Teams -> Players \cup {NoOne}]]

CanTickGameplay(g) == g.state \in {"warmup", "ingame"}

\* A bug to catch: the sides are not looked at.
CanPickupAnything(g, team) == g.state = "ingame"

CanPickupObjective(g, team) ==
    /\ cvars.sides = 1 => team = DefendingTeam(g)
    /\ g.state = "ingame"

-----------------------------------------------------------------------------
(* The client.                                                             *)

\* CTF_CarryFlag, unless the client has removed the player.
SeeCarried(f, g, p, team) ==
    IF g.status[p] \in {"spectator", "playing"}
    THEN [f EXCEPT !.seenState[team] = "carried", !.seenFlagger[team] = p]
    ELSE f

\* The events SCORE_CAPTURE, SCORE_RETURN and SCORE_DROP.
See(f, team, state) ==
    [f EXCEPT !.seenState[team] = state, !.seenFlagger[team] = NoOne]

\* CL_CTFRefresh.  A refresh that is not full leaves the flags' states out of
\* the message, which reads as flag_home.
SeeRefresh(f, g, full) ==
    [f EXCEPT
        !.seenState = [t \in Teams |-> IF full THEN f.state[t] ELSE "home"],
        !.seenFlagger =
            [t \in Teams |->
                IF /\ full
                   /\ f.state[t] = "carried"
                   /\ f.flagger[t] # NoOne
                   /\ g.status[f.flagger[t]] \in {"spectator", "playing"}
                THEN f.flagger[t]
                ELSE NoOne]]

\* CTF_MoveFlags: the client has removed a player who carried flags.
SeeLeave(f, p) ==
    LET lost == {t \in Teams : f.seenFlagger[t] = p} IN
    [f EXCEPT !.seenState = [t \in Teams |-> IF t \in lost THEN "home" ELSE @[t]],
              !.seenFlagger = [t \in Teams |-> IF t \in lost THEN NoOne ELSE @[t]]]

-----------------------------------------------------------------------------
(* The server.                                                             *)

\* FlagData with the flag lying somewhere, carried by nobody.
Placed(f, team, state, timeout) ==
    [f EXCEPT !.state[team] = state, !.flagger[team] = NoOne,
              !.timeout[team] = timeout]

SpawnFlag(f, team) == Placed(f, team, "home", 0)

SpawnDroppedFlag(f, team) == Placed(f, team, "dropped", options.flagtimeout)

\* A bug to catch: enemy flags are taken whatever the player carries already.
FlagGrabMore(f, g, p, team) ==
    SeeCarried([f EXCEPT !.carried[p] = @ \cup {team}, !.flagger[team] = p,
                         !.state[team] = "carried", !.timeout[team] = 0],
               g, p, team)

\* A player carries one enemy flag at a time, and his own beside it.
FlagGrab(f, g, p, team) ==
    IF team # TeamOf[p] /\ f.carried[p] \ {TeamOf[p]} # {}
    THEN f
    ELSE SeeCarried([f EXCEPT !.carried[p] = @ \cup {team}, !.flagger[team] = p,
                              !.state[team] = "carried", !.timeout[team] = 0],
                    g, p, team)

\* A bug to catch: the clients are not told of a return.
FlagReturnQuietly(f, team) == SpawnFlag(f, team)

FlagReturn(f, team) == See(SpawnFlag(f, team), team, "home")

\* A player touches a flag that is home or lies where it was dropped.
FlagTouch(f, g, p, team) ==
    IF ~CanTickGameplay(g) \/ ~CanPickupObjective(g, team) THEN f
    ELSE IF team # TeamOf[p] THEN FlagGrab(f, g, p, team)
    ELSE IF f.state[team] = "home" THEN f
    ELSE IF options.manualreturn = 1 THEN FlagGrab(f, g, p, team)
    ELSE IF options.notouchreturn = 1 THEN f
    ELSE FlagReturn(f, team)

\* SV_FlagScore, but for the points: the event, the refresh with the points of
\* all teams, and the flag that goes home.
FlagScore(f, g, p, team) ==
    SpawnFlag([SeeRefresh(See(f, team, "home"), g, FALSE)
                  EXCEPT !.carried[p] = @ \ {team}], team)

\* At the socket of his team a player returns its flag, if he carries it ...
ReturnOwn(f, p) ==
    IF TeamOf[p] \in f.carried[p]
    THEN FlagReturn([f EXCEPT !.carried[p] = @ \ {TeamOf[p]}], TeamOf[p])
    ELSE f

\* ... and captures the enemy flags he carries.
Captured(f, p) ==
    IF options.flagathometoscore = 1 /\ ReturnOwn(f, p).state[TeamOf[p]] # "home"
    THEN {}
    ELSE f.carried[p] \ {TeamOf[p]}

SocketTouch(f, g, p) ==
    IF ~CanTickGameplay(g) THEN f
    ELSE IF Captured(f, p) = {} THEN ReturnOwn(f, p)
    ELSE FlagScore(ReturnOwn(f, p), g, p, The(Captured(f, p)))

\* SV_FlagDrop of every flag a player carries.  Nothing is dropped while the
\* gameplay stands still.
CheckFlags(f, g, p) ==
    LET drops == IF CanTickGameplay(g) THEN f.carried[p] ELSE {}
        In(old, new) == [t \in Teams |-> IF t \in drops THEN new ELSE old[t]]
    IN  [f EXCEPT !.carried[p] = @ \ drops,
                  !.state = In(@, "dropped"),
                  !.flagger = In(@, NoOne),
                  !.timeout = In(@, options.flagtimeout),
                  !.seenState = In(@, "dropped"),
                  !.seenFlagger = In(@, NoOne)]

\* G_PlayerReborn: a player who is reborn carries nothing.
PlayerReborn(f, p) == [f EXCEPT !.carried[p] = {}]

\* A bug to catch: dropped flags are left where they are.
RunTicsNever(f, g) == f

\* CTF_RunTics: dropped flags go home after their timeout and one tic.
RunTics(f, g) ==
    LET counts == {t \in Teams : f.state[t] = "dropped"}
        over == {t \in counts : f.timeout[t] = 0}
        Home(old, new) == [t \in Teams |-> IF t \in over THEN new ELSE old[t]]
    IN  IF ~CanTickGameplay(g) \/ g.gamestate # "level" \/ options.flagtimeout = 0
        THEN f
        ELSE [f EXCEPT !.state = Home(@, "home"),
                       !.timeout = [t \in Teams |->
                                       IF t \in counts \ over THEN @[t] - 1 ELSE @[t]],
                       !.seenState = Home(@, "home"),
                       !.seenFlagger = Home(@, NoOne)]

AllHome(f) ==
    [f EXCEPT !.state = [t \in Teams |-> "home"],
              !.flagger = [t \in Teams |-> NoOne],
              !.timeout = [t \in Teams |-> 0],
              !.carried = [p \in Players |-> {}]]

\* TeamInfo_ResetScores, when a level is reset or loaded, and the full update
\* every client gets of it.
ResetScores(f, g) == SeeRefresh(AllHome(f), g, TRUE)

=============================================================================
