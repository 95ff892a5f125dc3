------------------------------- MODULE CtfMatch -------------------------------
(***************************************************************************)
(* A match of capture the flag: the actions of Match together with what    *)
(* each of them does to the flags, and the touches of flags and sockets.   *)
(***************************************************************************)
EXTENDS Match, CtfFlags

VARIABLES
    flags,      \* the flags, on the server and as a client shows them
    dead        \* players in PST_DEAD

ctfVars == <<vars, options, flags, dead>>

ASSUME CtfAssumption ==
    \A s \in Settings : s.gametype = "ctf" => s.teamsinplay <= NumTeams

\* Other games have no flags.
FlagTeams == IF cvars.gametype = "ctf" THEN 0 .. (cvars.teamsinplay - 1) ELSE {}

\* Players whose body can touch things and be hit.
Standing(p) == Acting(p) /\ p \notin dead

-----------------------------------------------------------------------------
(* Players.                                                                *)

\* P_KillMobj drops the victim's flags.
CtfKill(victim, killer) ==
    /\ Standing(victim)
    /\ Kill(victim, killer)
    /\ flags' = CheckFlags(flags, game, victim)
    /\ dead' = dead \cup {victim}
    /\ UNCHANGED options

\* A dead player who has a life left is reborn, by the use button or the respawn
\* timer.
Reborn(p) ==
    /\ phase = "commands"
    /\ game.gamestate = "level"
    /\ p \in dead
    /\ cvars.lives = 0 \/ game.lives[p] > 0
    /\ flags' = PlayerReborn(flags, p)
    /\ dead' = dead \ {p}
    /\ UNCHANGED <<vars, options>>

\* There is something to touch unless the flag is carried.
TouchFlag(p, team) ==
    /\ Standing(p)
    /\ flags.state[team] # "carried"
    /\ flags' = FlagTouch(flags, game, p, team)
    /\ UNCHANGED <<vars, options, dead>>

\* The captures give a point while scores may change.
TouchSocket(p) ==
    /\ Standing(p)
    /\ flags' = SocketTouch(flags, game, p)
    /\ IF Captured(flags, p) # {} /\ CanScoreChange(game)
       THEN Capture(p)
       ELSE UNCHANGED vars
    /\ UNCHANGED <<options, dead>>

\* SV_JoinPlayer kills the spectator's body and has the player reborn.
Joined(f, p) == PlayerReborn(CheckFlags(f, game, p), p)

CtfJoinRequest(p) ==
    /\ JoinRequest(p)
    /\ flags' = IF CanJoinGame(game) THEN Joined(flags, p) ELSE flags
    /\ dead' = IF CanJoinGame(game) THEN dead \ {p} ELSE dead
    /\ UNCHANGED options

CtfServeQueue ==
    /\ ServeQueue
    /\ LET served == {p \in queue.todo : game.position[p] > 0 /\ game'.position[p] = 0}
       IN  /\ flags' = IF served = {} THEN flags ELSE Joined(flags, The(served))
           /\ dead' = dead \ served
    /\ UNCHANGED options

\* A bug to catch: a spectator keeps the flags he carried.
SpectateKeeping(f, p) == IF p \in dead THEN PlayerReborn(f, p) ELSE f

\* SV_SpecPlayer: the flags are dropped first, and somebody dead is reborn.
Spectate(f, p) ==
    LET dropped == CheckFlags(f, game, p) IN
    IF p \in dead THEN PlayerReborn(dropped, p) ELSE dropped

CtfSpectateRequest(p) ==
    /\ SpectateRequest(p)
    /\ flags' = IF Playing(p) THEN Spectate(flags, p) ELSE flags
    /\ dead' = dead \ {p}
    /\ UNCHANGED options

CtfVotePasses(vote) ==
    /\ VotePasses(vote)
    /\ LET out == {p \in Players : Playing(p) /\ game'.status[p] = "spectator"} IN
       /\ flags' = IF out = {} THEN flags ELSE Spectate(flags, The(out))
       /\ dead' = dead \ out
    /\ UNCHANGED options

CtfBootLoser(p) ==
    /\ BootLoser(p)
    /\ flags' = Spectate(flags, p)
    /\ dead' = dead \ {p}
    /\ UNCHANGED options

\* A slot is free again once the client in it has been removed.
CtfConnect(p) ==
    /\ flags.carried[p] = {}
    /\ Connect(p)
    /\ UNCHANGED <<options, flags, dead>>

CtfDisconnect(p) ==
    /\ Disconnect(p)
    /\ flags' = SeeLeave(flags, p)
    /\ UNCHANGED <<options, dead>>

-----------------------------------------------------------------------------
(* The server's frame.                                                     *)

\* The flags' timeouts run before the level state.
CtfGameTics ==
    /\ GameTics
    /\ flags' = RunTics(flags, game)
    /\ UNCHANGED <<options, dead>>

CtfDoResetLevel ==
    /\ DoResetLevel
    /\ flags' = ResetScores(flags, game)
    /\ dead' = {}
    /\ UNCHANGED options

CtfDoNewGame ==
    /\ DoNewGame
    /\ flags' = ResetScores(flags, game)
    /\ dead' = {}
    /\ UNCHANGED options

\* The end of the frame removes those who have left: first the spectators, whose
\* slots are free in Match already.
Gone == {p \in Players : game.status[p] = "absent" /\ flags.carried[p] # {}}

RemoveGone(p) ==
    /\ phase = "drops"
    /\ p \in Gone
    /\ flags' = PlayerReborn(CheckFlags(flags, game, p), p)
    /\ UNCHANGED <<vars, options, dead>>

CtfEndDrops ==
    /\ Gone = {}
    /\ EndDrops
    /\ UNCHANGED <<options, flags, dead>>

CtfRemoveDisconnected(p) ==
    /\ RemoveDisconnected(p)
    /\ flags' = PlayerReborn(CheckFlags(flags, game', p), p)
    /\ dead' = dead \ {p}
    /\ UNCHANGED options

\* What leaves the flags alone, on the server's side and on the players'.
CtfRunFrame ==
    /\ \/ EndVotes
       \/ DoCompleted
       \/ LosersBooted
       \/ RunWorld
       \/ RunIntermission
       \/ EndTicker
    /\ UNCHANGED <<options, flags, dead>>

CtfInterfere ==
    /\ \/ \E p \in Players : ReadyRequest(p) \/ Exit(p)
       \/ \E command \in Commands : Console(command)
    /\ UNCHANGED <<options, flags, dead>>

-----------------------------------------------------------------------------
CtfInit ==
    /\ Init
    /\ options \in FlagOptions
    /\ flags = [state |-> [t \in Teams |-> "home"],
                flagger |-> [t \in Teams |-> NoOne],
                timeout |-> [t \in Teams |-> 0],
                carried |-> [p \in Players |-> {}],
                seenState |-> [t \in Teams |-> "home"],
                seenFlagger |-> [t \in Teams |-> NoOne]]
    /\ dead = {}

CtfServer ==
    \/ CtfGameTics
    \/ CtfDoResetLevel
    \/ CtfDoNewGame
    \/ \E p \in Players : CtfBootLoser(p)
    \/ CtfServeQueue
    \/ \E p \in Players : RemoveGone(p)
    \/ CtfEndDrops
    \/ \E p \in Players : CtfRemoveDisconnected(p)
    \/ CtfRunFrame

CtfClients ==
    \/ CtfInterfere
    \/ \E vote \in Votes : CtfVotePasses(vote)
    \/ \E p \in Players :
          \/ CtfConnect(p)
          \/ CtfDisconnect(p)
          \/ CtfJoinRequest(p)
          \/ CtfSpectateRequest(p)
          \/ \E killer \in InGame(game) \cup Left(game) \cup {NoOne} : CtfKill(p, killer)
          \/ Reborn(p)
          \/ \E team \in FlagTeams : TouchFlag(p, team)
          \/ TouchSocket(p)

CtfNext == CtfServer \/ CtfClients

CtfSpec == CtfInit /\ [][CtfNext]_ctfVars

-----------------------------------------------------------------------------
(* Properties.                                                             *)

Fighting(g) == g.gamestate = "level" /\ g.state = "ingame" /\ g.action = "nothing"

\* The flags keep their type.
CtfTypeOK ==
    /\ options \in FlagOptions
    /\ flags \in Flags
    /\ dead \in SUBSET Players

\* While a round is fought a flag is carried by exactly the player it says it is
\* carried by, who is in the game, and no flag is lost with somebody who died,
\* left or became a spectator, in whatever state that happened (CTF_CheckFlags,
\* SV_FlagDrop, TeamInfo_ResetScores).
FlagsAreSomewhere ==
    Fighting(game) =>
        \A t \in Teams :
            LET carriers == {p \in Players : t \in flags.carried[p]} IN
            IF flags.state[t] = "carried"
            THEN /\ carriers = {flags.flagger[t]}
                 /\ game.status[flags.flagger[t]] \in {"playing", "left"}
                 /\ flags.flagger[t] \notin dead
            ELSE carriers = {} /\ flags.flagger[t] = NoOne

\* Nobody ever carries two enemy flags: a capture takes one flag home
\* (SV_FlagGrab, SV_SocketTouch).
OneEnemyFlag ==
    \A p \in Players : Cardinality(flags.carried[p] \ {TeamOf[p]}) <= 1

\* With g_sides only the defenders' flag is ever away from home in a round,
\* although the sides change from round to round (G_CanPickupObjective,
\* getDefendingTeam, G_DoResetLevel).
OnlyDefendersFlagMoves ==
    Fighting(game) /\ IsSidesGame =>
        \A t \in Teams \ {DefendingTeam(game)} : flags.state[t] = "home"

\* With two teams and flags that must be home to score, a client that has applied
\* all messages shows every flag where it is, and with its carrier, between the
\* frames of a fight: the refresh after a capture finds all flags at home.
PairSeesFlags ==
    /\ cvars.teamsinplay = 2
    /\ options.flagathometoscore = 1
    /\ Fighting(game)
    /\ phase = "packets"
    /\ Left(game) = {}
    => /\ flags.seenState = flags.state
       /\ flags.seenFlagger = flags.flagger

\* The server keeps running its frames.  It reads the packets that wait for it
\* at the start of a frame, finitely many, and then goes on.
CtfFairness ==
    /\ WF_ctfVars(CtfServer)
    /\ SF_ctfVars(CtfGameTics)

CtfFairSpec == CtfSpec /\ CtfFairness

\* With a timeout no flag lies on the ground forever, whatever becomes of the
\* round it was dropped in (CTF_RunTics).
DroppedFlagsReturn ==
    \A t \in Teams :
        options.flagtimeout > 0 /\ flags.state[t] = "dropped"
            ~> flags.state[t] # "dropped"

=============================================================================
