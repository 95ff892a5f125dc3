------------------------------- MODULE CtfProofs -------------------------------
(***************************************************************************)
(* Proofs about CtfMatch: a match of capture the flag is a match, and for  *)
(* any number of teams and players, all settings and all options the flags *)
(* keep their type, nobody carries two enemy flags, every flag is at home, *)
(* on the ground or with one player, only the flag of the defenders moves  *)
(* on sides, and the clients of a game of two see what the server has.     *)
(*                                                                         *)
(* The operators of CtfFlags are shown to keep a predicate Good of the     *)
(* flags, and Right of the flags and the game; the actions of CtfMatch     *)
(* apply them to such flags.  What Match's own invariants say (the queue   *)
(* holds players, a fight starts after a reset) comes from MatchProofs.    *)
(***************************************************************************)
EXTENDS CtfMatch, MatchProofs

\* The inductive form of OneEnemyFlag.
OneEnemy(f) ==
    \A p \in Players : \A t, u \in f.carried[p] \ {TeamOf[p]} : t = u

\* What every operator keeps of the flags: their type and that nobody has two
\* enemy flags.
Good(f) == f \in Flags /\ OneEnemy(f)

\* The settings of the flags, which do not change in a behavior.
OptionsOK == options \in FlagOptions

\* The inductive invariant behind CtfTypeOK and OneEnemyFlag.
CtfIInv == IInv /\ OptionsOK /\ Good(flags) /\ dead \in SUBSET Players

-----------------------------------------------------------------------------
(* Every behavior of CtfMatch is a behavior of Match.                      *)

LEMMA CtfServerIsMatch == ASSUME CtfServer PROVE [Next]_vars
  BY DEF CtfServer, CtfGameTics, CtfDoResetLevel, CtfDoNewGame, CtfBootLoser,
         CtfServeQueue, RemoveGone, CtfEndDrops, CtfRemoveDisconnected, CtfRunFrame,
         Next, Server

LEMMA CtfClientIsMatch ==
  ASSUME NEW p \in Players,
         \/ CtfConnect(p)
         \/ CtfDisconnect(p)
         \/ CtfJoinRequest(p)
         \/ CtfSpectateRequest(p)
         \/ \E killer \in InGame(game) \cup Left(game) \cup {NoOne} : CtfKill(p, killer)
         \/ Reborn(p)
         \/ \E team \in FlagTeams : TouchFlag(p, team)
         \/ TouchSocket(p)
  PROVE  [Next]_vars
  <1>1. CASE CtfConnect(p) \/ CtfDisconnect(p) \/ CtfJoinRequest(p) \/ CtfSpectateRequest(p)
    BY <1>1 DEF CtfConnect, CtfDisconnect, CtfJoinRequest, CtfSpectateRequest, Next, Clients
  <1>2. CASE \E killer \in InGame(game) \cup Left(game) \cup {NoOne} : CtfKill(p, killer)
    BY <1>2 DEF CtfKill, Next, Clients
  <1>3. CASE Reborn(p) \/ \E team \in FlagTeams : TouchFlag(p, team)
    BY <1>3 DEF Reborn, TouchFlag
  <1>4. CASE TouchSocket(p)
    BY <1>4 DEF TouchSocket, Next, Clients
  <1> QED
    BY <1>1, <1>2, <1>3, <1>4

LEMMA CtfNextIsMatch == ASSUME [CtfNext]_ctfVars PROVE [Next]_vars
  <1>1. CASE UNCHANGED ctfVars
    BY <1>1 DEF ctfVars
  <1>2. CASE CtfServer
    BY <1>2, CtfServerIsMatch
  <1>3. CASE CtfInterfere
    BY <1>3 DEF CtfInterfere, Next, Clients, Operators
  <1>4. CASE \E vote \in Votes : CtfVotePasses(vote)
    BY <1>4 DEF CtfVotePasses, Next, Operators
  <1>5. CASE CtfClients
    BY <1>3, <1>4, <1>5, CtfClientIsMatch DEF CtfClients
  <1> QED
    BY <1>1, <1>2, <1>5 DEF CtfNext

\* What happens to the flags never keeps a match from following Match's rules:
\* every behavior of capture the flag is one of Match, and all that holds of
\* Match's behaviors holds of it.
THEOREM CtfIsMatch == CtfSpec => Spec
  <1>1. CtfInit => Init
    BY DEF CtfInit
  <1> QED
    BY <1>1, CtfNextIsMatch, PTL DEF CtfSpec, Spec

-----------------------------------------------------------------------------
(* The operators on flags.                                                 *)

\* Flags whose carriers carry no more than before stay good.
LEMMA CarryLess ==
  ASSUME NEW f, Good(f), NEW h \in Flags,
         \A p \in Players : h.carried[p] \subseteq f.carried[p]
  PROVE  Good(h)
  BY DEF Good, OneEnemy

LEMMA SeeCarriedGood ==
  ASSUME NEW f, Good(f), NEW g, NEW p \in Players, NEW team \in Teams
  PROVE  Good(SeeCarried(f, g, p, team))
  <1>1. SeeCarried(f, g, p, team) \in Flags
    BY DEF SeeCarried, Good, Flags, FlagStates
  <1>2. SeeCarried(f, g, p, team).carried = f.carried
    BY DEF SeeCarried, Good, Flags
  <1> QED
    BY <1>1, <1>2, CarryLess

LEMMA SeeGood ==
  ASSUME NEW f, Good(f), NEW team \in Teams, NEW state \in FlagStates
  PROVE  Good(See(f, team, state))
  <1>1. See(f, team, state) \in Flags /\ See(f, team, state).carried = f.carried
    BY DEF See, Good, Flags
  <1> QED
    BY <1>1, CarryLess

LEMMA SeeRefreshGood ==
  ASSUME NEW f, Good(f), NEW g, NEW full \in BOOLEAN
  PROVE  Good(SeeRefresh(f, g, full))
  <1> DEFINE states == [t \in Teams |-> IF full THEN f.state[t] ELSE "home"]
             flaggers == [t \in Teams |->
                IF /\ full
                   /\ f.state[t] = "carried"
                   /\ f.flagger[t] # NoOne
                   /\ g.status[f.flagger[t]] \in {"spectator", "playing"}
                THEN f.flagger[t]
                ELSE NoOne]
             h == [f EXCEPT !.seenState = states, !.seenFlagger = flaggers]
  <1>1. SeeRefresh(f, g, full) = h
    BY DEF SeeRefresh
  <1>2. states \in [Teams -> FlagStates]
    BY DEF Good, Flags, FlagStates
  <1>3. flaggers \in [Teams -> Players \cup {NoOne}]
    BY DEF Good, Flags
  <1> HIDE DEF states, flaggers
  <1>4. h \in Flags /\ h.carried = f.carried
    BY <1>2, <1>3 DEF Good, Flags
  <1> HIDE DEF h
  <1> QED
    BY <1>1, <1>4, CarryLess

LEMMA SeeLeaveGood ==
  ASSUME NEW f, Good(f), NEW p PROVE Good(SeeLeave(f, p))
  <1>1. SeeLeave(f, p) \in Flags /\ SeeLeave(f, p).carried = f.carried
    BY DEF SeeLeave, Good, Flags, FlagStates
  <1> QED
    BY <1>1, CarryLess

LEMMA SpawnFlagGood ==
  ASSUME NEW f, Good(f), NEW team \in Teams PROVE Good(SpawnFlag(f, team))
  <1>1. SpawnFlag(f, team) \in Flags /\ SpawnFlag(f, team).carried = f.carried
    BY DEF SpawnFlag, Placed, Good, Flags, FlagStates
  <1> QED
    BY <1>1, CarryLess

\* A player takes his own flag, or an enemy flag while he carries no other.
LEMMA FlagGrabGood ==
  ASSUME NEW f, Good(f), NEW g, NEW p \in Players, NEW team \in Teams
  PROVE  Good(FlagGrab(f, g, p, team))
  <1> DEFINE h == [f EXCEPT !.carried[p] = @ \cup {team}, !.flagger[team] = p,
                            !.state[team] = "carried", !.timeout[team] = 0]
  <1>1. CASE team # TeamOf[p] /\ f.carried[p] \ {TeamOf[p]} # {}
    BY <1>1 DEF FlagGrab
  <1>2. CASE ~(team # TeamOf[p] /\ f.carried[p] \ {TeamOf[p]} # {})
    <2>1. h \in Flags
      <3>1. /\ [f.carried EXCEPT ![p] = @ \cup {team}] \in [Players -> SUBSET Teams]
            /\ [f.flagger EXCEPT ![team] = p] \in [Teams -> Players \cup {NoOne}]
            /\ [f.state EXCEPT ![team] = "carried"] \in [Teams -> FlagStates]
            /\ [f.timeout EXCEPT ![team] = 0] \in [Teams -> Nat]
        BY DEF Good, Flags, FlagStates
      <3> QED
        BY <3>1 DEF Good, Flags
    <2>2. h.carried = [f.carried EXCEPT ![p] = @ \cup {team}]
      BY DEF Good, Flags
    <2>3. OneEnemy(h)
      BY <1>2, <2>2 DEF Good, Flags, OneEnemy
    <2> HIDE DEF h
    <2>4. Good(SeeCarried(h, g, p, team))
      BY <2>1, <2>3, SeeCarriedGood DEF Good
    <2> QED
      BY <1>2, <2>4 DEF FlagGrab, h
  <1> QED
    BY <1>1, <1>2

LEMMA FlagReturnGood ==
  ASSUME NEW f, Good(f), NEW team \in Teams PROVE Good(FlagReturn(f, team))
  BY SpawnFlagGood, SeeGood DEF FlagReturn, FlagStates

LEMMA FlagTouchGood ==
  ASSUME NEW f, Good(f), NEW g, NEW p \in Players, NEW team \in Teams
  PROVE  Good(FlagTouch(f, g, p, team))
  BY FlagGrabGood, FlagReturnGood DEF FlagTouch

\* Flags a player no longer carries.
LEMMA WithoutGood ==
  ASSUME NEW f, Good(f), NEW p \in Players, NEW S
  PROVE  Good([f EXCEPT !.carried[p] = @ \ S])
  <1> DEFINE h == [f EXCEPT !.carried[p] = @ \ S]
  <1>1. h \in Flags /\ \A q \in Players : h.carried[q] \subseteq f.carried[q]
    BY DEF Good, Flags
  <1> QED
    BY <1>1, CarryLess

LEMMA ReturnOwnGood ==
  ASSUME NEW f, Good(f), NEW p \in Players PROVE Good(ReturnOwn(f, p))
  <1>1. TeamOf[p] \in Teams
    BY TeamsAssumption
  <1> QED
    BY <1>1, WithoutGood, FlagReturnGood DEF ReturnOwn

LEMMA FlagScoreGood ==
  ASSUME NEW f, Good(f), NEW g, NEW p \in Players, NEW team \in Teams
  PROVE  Good(FlagScore(f, g, p, team))
  <1> DEFINE told == SeeRefresh(See(f, team, "home"), g, FALSE)
  <1>1. Good(told)
    BY SeeGood, SeeRefreshGood DEF FlagStates
  <1> HIDE DEF told
  <1>2. Good([told EXCEPT !.carried[p] = @ \ {team}])
    BY <1>1, WithoutGood
  <1> QED
    BY <1>2, SpawnFlagGood DEF FlagScore, told

LEMMA SocketTouchGood ==
  ASSUME NEW f, Good(f), NEW g, NEW p \in Players
  PROVE  Good(SocketTouch(f, g, p))
  <1>1. Captured(f, p) \subseteq Teams
    BY DEF Captured, Good, Flags
  <1>2. Captured(f, p) # {} => The(Captured(f, p)) \in Teams
    BY <1>1, TheInSet
  <1> QED
    BY <1>2, ReturnOwnGood, FlagScoreGood DEF SocketTouch

LEMMA CheckFlagsGood ==
  ASSUME NEW f, Good(f), NEW g, NEW p \in Players, OptionsOK
  PROVE  Good(CheckFlags(f, g, p))
  <1> DEFINE drops == IF CanTickGameplay(g) THEN f.carried[p] ELSE {}
             In(old, new) == [t \in Teams |-> IF t \in drops THEN new ELSE old[t]]
             h == CheckFlags(f, g, p)
  <1>1. options.flagtimeout \in Nat
    BY OptionsAssumption DEF OptionsOK, Options
  <1>2. /\ In(f.state, "dropped") \in [Teams -> FlagStates]
        /\ In(f.flagger, NoOne) \in [Teams -> Players \cup {NoOne}]
        /\ In(f.timeout, options.flagtimeout) \in [Teams -> Nat]
        /\ In(f.seenState, "dropped") \in [Teams -> FlagStates]
        /\ In(f.seenFlagger, NoOne) \in [Teams -> Players \cup {NoOne}]
    BY <1>1 DEF Good, Flags, FlagStates
  <1>3. h = [f EXCEPT !.carried[p] = @ \ drops,
                      !.state = In(@, "dropped"),
                      !.flagger = In(@, NoOne),
                      !.timeout = In(@, options.flagtimeout),
                      !.seenState = In(@, "dropped"),
                      !.seenFlagger = In(@, NoOne)]
    BY DEF CheckFlags
  <1> HIDE DEF drops, In, h
  <1>4. h \in Flags
    BY <1>2, <1>3 DEF Good, Flags
  <1>5. \A q \in Players : h.carried[q] \subseteq f.carried[q]
    BY <1>3 DEF Good, Flags
  <1> QED
    BY <1>4, <1>5, CarryLess DEF h

LEMMA PlayerRebornGood ==
  ASSUME NEW f, Good(f), NEW p \in Players PROVE Good(PlayerReborn(f, p))
  <1> DEFINE h == PlayerReborn(f, p)
  <1>1. h \in Flags /\ \A q \in Players : h.carried[q] \subseteq f.carried[q]
    BY DEF PlayerReborn, Good, Flags
  <1> QED
    BY <1>1, CarryLess

LEMMA RunTicsGood ==
  ASSUME NEW f, Good(f), NEW g PROVE Good(RunTics(f, g))
  <1> DEFINE counts == {t \in Teams : f.state[t] = "dropped"}
             over == {t \in counts : f.timeout[t] = 0}
             Home(old, new) == [t \in Teams |-> IF t \in over THEN new ELSE old[t]]
             timeouts == [t \in Teams |->
                            IF t \in counts \ over THEN f.timeout[t] - 1 ELSE f.timeout[t]]
             h == [f EXCEPT !.state = Home(@, "home"),
                            !.timeout = timeouts,
                            !.seenState = Home(@, "home"),
                            !.seenFlagger = Home(@, NoOne)]
  <1>1. RunTics(f, g) = f \/ RunTics(f, g) = h
    BY DEF RunTics, Good, Flags
  <1>2. timeouts \in [Teams -> Nat]
    BY DEF Good, Flags
  <1>3. /\ Home(f.state, "home") \in [Teams -> FlagStates]
        /\ Home(f.seenState, "home") \in [Teams -> FlagStates]
        /\ Home(f.seenFlagger, NoOne) \in [Teams -> Players \cup {NoOne}]
    BY DEF Good, Flags, FlagStates
  <1> HIDE DEF timeouts, Home
  <1>4. h \in Flags /\ h.carried = f.carried
    BY <1>2, <1>3 DEF Good, Flags
  <1> HIDE DEF h
  <1> QED
    BY <1>1, <1>4, CarryLess

LEMMA ResetScoresGood ==
  ASSUME NEW f, Good(f), NEW g PROVE Good(ResetScores(f, g))
  <1> DEFINE h == AllHome(f)
  <1>1. h \in Flags
    BY DEF AllHome, Good, Flags, FlagStates
  <1>2. \A p \in Players : h.carried[p] = {}
    BY DEF AllHome, Good, Flags
  <1> HIDE DEF h
  <1>3. Good(h)
    BY <1>1, <1>2 DEF Good, OneEnemy
  <1> QED
    BY <1>3, SeeRefreshGood DEF ResetScores, h

-----------------------------------------------------------------------------
(* Where the flags are while a round is fought.                            *)

\* A flag that is carried is carried by the player it names, who is alive and in
\* the game; any other is carried by nobody.
Whole(f, g, d) ==
    \A t \in Teams :
        IF f.state[t] = "carried"
        THEN /\ f.flagger[t] \in Players
             /\ \A p \in Players : t \in f.carried[p] <=> p = f.flagger[t]
             /\ g.status[f.flagger[t]] \in {"playing", "left"}
             /\ f.flagger[t] \notin d
        ELSE f.flagger[t] = NoOne /\ \A p \in Players : t \notin f.carried[p]

\* The flags that may be away from home.
Loose(g, t) == t \in FlagTeams /\ (IsSidesGame => t = DefendingTeam(g))

\* A flag that may not be away from home is there.
Still(f, g) == \A t \in Teams : ~Loose(g, t) => f.state[t] = "home"

\* With two teams a client knows all but what those do who are about to go.
TwoTeams == cvars.teamsinplay = 2 /\ options.flagathometoscore = 1

\* The client's copy of flag t is right, or its carrier has just left the game.
Seen(f, g, t) ==
    \/ f.state[t] = "carried" /\ g.status[f.flagger[t]] = "left"
    \/ f.seenState[t] = f.state[t] /\ f.seenFlagger[t] = f.flagger[t]

\* What a client sees, in the games in which it is told all.
Shown(f, g) == TwoTeams => \A t \in Teams : Seen(f, g, t)

\* What holds of flags f in game g, with d the dead, while a round is fought.
Right(f, g, d) == f \in Flags /\ Whole(f, g, d) /\ Still(f, g) /\ Shown(f, g)

\* Games without flags have none to lose, whatever their rounds do.
Live(g) == Fighting(g) \/ cvars.gametype # "ctf"

\* The inductive invariant behind FlagsAreSomewhere, OnlyDefendersFlagMoves and
\* PairSeesFlags. Before a fight the flags may be anywhere: the reset puts them
\* right.
FlagInv == Live(game) => Right(flags, game, dead)

LEMMA NobodyElse == NoOne \notin Players
  BY SidesAssumption DEF Sides

LEMMA CarrierRight ==
  ASSUME NEW f, NEW g, NEW d, Right(f, g, d), NEW p \in Players, NEW t \in f.carried[p]
  PROVE  /\ t \in Teams /\ f.state[t] = "carried" /\ f.flagger[t] = p /\ p \notin d
         /\ g.status[p] \in {"playing", "left"} /\ Loose(g, t)
  <1>1. t \in Teams
    BY DEF Right, Flags
  <1>2. f.state[t] = "carried" /\ f.flagger[t] = p
    BY <1>1 DEF Right, Whole
  <1>3. Loose(g, t)
    BY <1>1, <1>2 DEF Right, Still
  <1> QED
    BY <1>1, <1>2, <1>3 DEF Right, Whole

LEMMA NoFlags ==
  ASSUME NEW f, NEW g, NEW d, Right(f, g, d), cvars.gametype # "ctf", NEW p \in Players
  PROVE  f.carried[p] = {}
  BY CarrierRight DEF Loose, FlagTeams

\* Nothing changes for those who carry flags.
LEMMA ElseRight ==
  ASSUME NEW f, NEW g, NEW d, Right(f, g, d), NEW h, NEW e,
         cvars.gametype = "ctf" => h.round = g.round,
         \A q \in Players : f.carried[q] # {} =>
             h.status[q] = g.status[q] /\ (q \in e => q \in d)
  PROVE  Right(f, h, e)
  <1>1. \A t \in Teams : Loose(h, t) <=> Loose(g, t)
    BY DEF Loose, FlagTeams, DefendingTeam
  <1>2. ASSUME NEW t \in Teams, f.state[t] = "carried"
        PROVE  /\ f.flagger[t] \in Players
               /\ h.status[f.flagger[t]] = g.status[f.flagger[t]]
               /\ f.flagger[t] \in e => f.flagger[t] \in d
    <2>1. f.flagger[t] \in Players /\ t \in f.carried[f.flagger[t]]
      BY <1>2 DEF Right, Whole
    <2> QED
      BY <2>1
  <1>3. Whole(f, h, e)
    BY <1>2 DEF Right, Whole
  <1>4. Still(f, h)
    BY <1>1 DEF Right, Still
  <1>5. Shown(f, h)
    BY <1>2 DEF Right, Shown, Seen
  <1> QED
    BY <1>3, <1>4, <1>5 DEF Right

\* Whoever dies or goes drops all his flags, while the gameplay runs.
LEMMA CheckRight ==
  ASSUME NEW f, NEW g, NEW d, Right(f, g, d), NEW p \in Players, NEW h, OptionsOK,
         CanTickGameplay(h) \/ f.carried[p] = {}
  PROVE  /\ Right(CheckFlags(f, h, p), g, d)
         /\ CheckFlags(f, h, p).carried = [f.carried EXCEPT ![p] = {}]
  <1> DEFINE drops == IF CanTickGameplay(h) THEN f.carried[p] ELSE {}
             In(old, new) == [t \in Teams |-> IF t \in drops THEN new ELSE old[t]]
             k == CheckFlags(f, h, p)
  <1>1. options.flagtimeout \in Nat /\ f \in Flags
    BY OptionsAssumption DEF OptionsOK, Options, Right
  <1>2. drops = f.carried[p]
    OBVIOUS
  <1>3. k = [f EXCEPT !.carried[p] = @ \ drops,
                      !.state = In(@, "dropped"),
                      !.flagger = In(@, NoOne),
                      !.timeout = In(@, options.flagtimeout),
                      !.seenState = In(@, "dropped"),
                      !.seenFlagger = In(@, NoOne)]
    BY DEF CheckFlags
  <1>4. /\ \A t \in Teams : In(f.state, "dropped")[t] = IF t \in drops THEN "dropped" ELSE f.state[t]
        /\ \A t \in Teams : In(f.seenState, "dropped")[t] =
                                IF t \in drops THEN "dropped" ELSE f.seenState[t]
        /\ \A t \in Teams : In(f.flagger, NoOne)[t] = IF t \in drops THEN NoOne ELSE f.flagger[t]
        /\ \A t \in Teams : In(f.seenFlagger, NoOne)[t] =
                                IF t \in drops THEN NoOne ELSE f.seenFlagger[t]
    OBVIOUS
  <1>5. /\ In(f.state, "dropped") \in [Teams -> FlagStates]
        /\ In(f.flagger, NoOne) \in [Teams -> Players \cup {NoOne}]
        /\ In(f.timeout, options.flagtimeout) \in [Teams -> Nat]
        /\ In(f.seenState, "dropped") \in [Teams -> FlagStates]
        /\ In(f.seenFlagger, NoOne) \in [Teams -> Players \cup {NoOne}]
    BY <1>1 DEF Flags, FlagStates
  <1> HIDE DEF In, drops, k
  <1>6. /\ k \in Flags
        /\ k.state = In(f.state, "dropped") /\ k.flagger = In(f.flagger, NoOne)
        /\ k.seenState = In(f.seenState, "dropped") /\ k.seenFlagger = In(f.seenFlagger, NoOne)
        /\ k.carried = [f.carried EXCEPT ![p] = {}]
    BY <1>1, <1>2, <1>3, <1>5 DEF Flags
  <1>7. \A q \in Players : k.carried[q] = IF q = p THEN {} ELSE f.carried[q]
    BY <1>1, <1>6 DEF Flags
  <1>8. \A t \in Teams : /\ k.state[t] = IF t \in drops THEN "dropped" ELSE f.state[t]
                         /\ k.seenState[t] = IF t \in drops THEN "dropped" ELSE f.seenState[t]
                         /\ k.flagger[t] = IF t \in drops THEN NoOne ELSE f.flagger[t]
                         /\ k.seenFlagger[t] = IF t \in drops THEN NoOne ELSE f.seenFlagger[t]
    BY <1>4, <1>6
  <1>9. \A t \in drops : f.state[t] = "carried" /\ f.flagger[t] = p /\ Loose(g, t)
    BY <1>2, CarrierRight
  <1>10. Whole(k, g, d)
    <2>1. SUFFICES ASSUME NEW t \in Teams
                   PROVE  IF k.state[t] = "carried"
                          THEN /\ k.flagger[t] \in Players
                               /\ \A q \in Players : t \in k.carried[q] <=> q = k.flagger[t]
                               /\ g.status[k.flagger[t]] \in {"playing", "left"}
                               /\ k.flagger[t] \notin d
                          ELSE k.flagger[t] = NoOne /\ \A q \in Players : t \notin k.carried[q]
      BY DEF Whole
    <2>2. CASE t \in drops
      BY <1>7, <1>8, <1>9, <2>2 DEF Right, Whole
    <2>3. CASE t \notin drops
      BY <1>2, <1>7, <1>8, <2>3 DEF Right, Whole
    <2> QED
      BY <2>2, <2>3
  <1>11. Still(k, g)
    BY <1>8, <1>9 DEF Right, Still
  <1>12. Shown(k, g)
    BY <1>8 DEF Right, Shown, Seen
  <1>13. Right(k, g, d) /\ k.carried = [f.carried EXCEPT ![p] = {}]
    BY <1>6, <1>10, <1>11, <1>12 DEF Right
  <1> QED
    BY <1>13 DEF k

\* A flag that nobody else carries goes home.
LEMMA HomeWhole ==
  ASSUME NEW f, NEW g, NEW d, Right(f, g, d), NEW p \in Players, NEW t \in Teams,
         f.state[t] # "carried" \/ f.flagger[t] = p,
         NEW h,
         h.carried = [f.carried EXCEPT ![p] = @ \ {t}],
         h.state = [f.state EXCEPT ![t] = "home"],
         h.flagger = [f.flagger EXCEPT ![t] = NoOne]
  PROVE  Whole(h, g, d) /\ Still(h, g)
  <1>0. f \in Flags
    BY DEF Right
  <1>1. \A u \in Teams : /\ h.state[u] = IF u = t THEN "home" ELSE f.state[u]
                         /\ h.flagger[u] = IF u = t THEN NoOne ELSE f.flagger[u]
    BY <1>0 DEF Flags
  <1>2. \A q \in Players : h.carried[q] = IF q = p THEN f.carried[q] \ {t} ELSE f.carried[q]
    BY <1>0 DEF Flags
  <1>3. \A q \in Players \ {p} : t \notin f.carried[q]
    BY DEF Right, Whole
  <1>4. Whole(h, g, d)
    <2>1. SUFFICES ASSUME NEW u \in Teams
                   PROVE  IF h.state[u] = "carried"
                          THEN /\ h.flagger[u] \in Players
                               /\ \A q \in Players : u \in h.carried[q] <=> q = h.flagger[u]
                               /\ g.status[h.flagger[u]] \in {"playing", "left"}
                               /\ h.flagger[u] \notin d
                          ELSE h.flagger[u] = NoOne /\ \A q \in Players : u \notin h.carried[q]
      BY DEF Whole
    <2>2. CASE u = t
      BY <1>1, <1>2, <1>3, <2>2
    <2>3. CASE u # t
      BY <1>1, <1>2, <2>3 DEF Right, Whole
    <2> QED
      BY <2>2, <2>3
  <1>5. Still(h, g)
    BY <1>1 DEF Right, Still
  <1> QED
    BY <1>4, <1>5

\* The clients are told of a return.
LEMMA HomeRight ==
  ASSUME NEW f, NEW g, NEW d, Right(f, g, d), NEW p \in Players, NEW t \in Teams,
         f.state[t] # "carried" \/ f.flagger[t] = p,
         NEW k \in Flags, k.state = f.state, k.flagger = f.flagger,
         k.seenState = f.seenState, k.seenFlagger = f.seenFlagger,
         k.carried = [f.carried EXCEPT ![p] = @ \ {t}]
  PROVE  Right(FlagReturn(k, t), g, d)
  <1> DEFINE h == FlagReturn(k, t)
  <1>0. f \in Flags
    BY DEF Right
  <1>1. /\ h \in Flags /\ h.carried = k.carried
        /\ h.state = [k.state EXCEPT ![t] = "home"]
        /\ h.flagger = [k.flagger EXCEPT ![t] = NoOne]
        /\ h.seenState = [k.seenState EXCEPT ![t] = "home"]
        /\ h.seenFlagger = [k.seenFlagger EXCEPT ![t] = NoOne]
    <2> DEFINE placed == SpawnFlag(k, t)
    <2>1. /\ placed \in Flags /\ placed.carried = k.carried
          /\ placed.state = [k.state EXCEPT ![t] = "home"]
          /\ placed.flagger = [k.flagger EXCEPT ![t] = NoOne]
          /\ placed.seenState = k.seenState /\ placed.seenFlagger = k.seenFlagger
      BY DEF SpawnFlag, Placed, Flags, FlagStates
    <2>2. h = See(placed, t, "home")
      BY DEF FlagReturn
    <2> HIDE DEF placed, h
    <2> QED
      BY <2>1, <2>2 DEF See, Flags, FlagStates
  <1> HIDE DEF h
  <1>2. Whole(h, g, d) /\ Still(h, g)
    BY <1>1, HomeWhole
  <1>3. \A u \in Teams : /\ h.state[u] = IF u = t THEN "home" ELSE f.state[u]
                         /\ h.flagger[u] = IF u = t THEN NoOne ELSE f.flagger[u]
                         /\ h.seenState[u] = IF u = t THEN "home" ELSE f.seenState[u]
                         /\ h.seenFlagger[u] = IF u = t THEN NoOne ELSE f.seenFlagger[u]
    BY <1>0, <1>1 DEF Flags
  <1>4. Shown(h, g)
    BY <1>3 DEF Right, Shown, Seen
  <1>5. Right(h, g, d)
    BY <1>1, <1>2, <1>4 DEF Right
  <1> QED
    BY <1>5 DEF h

\* A player who can take a flag takes it from where it lies.
LEMMA GrabRight ==
  ASSUME NEW f, NEW g, NEW d, Right(f, g, d), NEW p \in Players, p \notin d,
         g.status[p] \in {"playing", "left"}, NEW t \in Teams, Loose(g, t),
         f.state[t] # "carried"
  PROVE  Right(FlagGrab(f, g, p, t), g, d)
  <1> DEFINE h == [f EXCEPT !.carried[p] = @ \cup {t}, !.flagger[t] = p,
                            !.state[t] = "carried", !.timeout[t] = 0]
             k == SeeCarried(h, g, p, t)
  <1>0. f \in Flags
    BY DEF Right
  <1>1. \/ FlagGrab(f, g, p, t) = f
        \/ FlagGrab(f, g, p, t) = k
    BY DEF FlagGrab
  <1>2. /\ h \in Flags
        /\ h.carried = [f.carried EXCEPT ![p] = @ \cup {t}]
        /\ h.flagger = [f.flagger EXCEPT ![t] = p]
        /\ h.state = [f.state EXCEPT ![t] = "carried"]
        /\ h.seenState = f.seenState /\ h.seenFlagger = f.seenFlagger
    <2>1. /\ [f.carried EXCEPT ![p] = @ \cup {t}] \in [Players -> SUBSET Teams]
          /\ [f.flagger EXCEPT ![t] = p] \in [Teams -> Players \cup {NoOne}]
          /\ [f.state EXCEPT ![t] = "carried"] \in [Teams -> FlagStates]
          /\ [f.timeout EXCEPT ![t] = 0] \in [Teams -> Nat]
      BY <1>0 DEF Flags, FlagStates
    <2> QED
      BY <1>0, <2>1 DEF Flags
  <1> HIDE DEF h
  <1>3. /\ k \in Flags /\ k.carried = h.carried /\ k.flagger = h.flagger /\ k.state = h.state
        /\ g.status[p] = "playing" =>
              /\ k.seenState = [h.seenState EXCEPT ![t] = "carried"]
              /\ k.seenFlagger = [h.seenFlagger EXCEPT ![t] = p]
        /\ g.status[p] # "playing" =>
              k.seenState = h.seenState /\ k.seenFlagger = h.seenFlagger
    BY <1>2 DEF SeeCarried, Flags, FlagStates
  <1> HIDE DEF k
  <1>4. \A u \in Teams : /\ k.state[u] = IF u = t THEN "carried" ELSE f.state[u]
                         /\ k.flagger[u] = IF u = t THEN p ELSE f.flagger[u]
    BY <1>0, <1>2, <1>3 DEF Flags
  <1>5. \A u \in Teams \ {t} :
           k.seenState[u] = f.seenState[u] /\ k.seenFlagger[u] = f.seenFlagger[u]
    <2>1. CASE g.status[p] = "playing"
      <3>1. /\ k.seenState = [f.seenState EXCEPT ![t] = "carried"]
            /\ k.seenFlagger = [f.seenFlagger EXCEPT ![t] = p]
        BY <1>2, <1>3, <2>1
      <3> QED
        BY <1>0, <3>1 DEF Flags
    <2>2. CASE g.status[p] # "playing"
      BY <1>2, <1>3, <2>2
    <2> QED
      BY <2>1, <2>2
  <1>6. ASSUME g.status[p] = "playing" PROVE k.seenState[t] = "carried" /\ k.seenFlagger[t] = p
    <2>1. /\ k.seenState = [f.seenState EXCEPT ![t] = "carried"]
          /\ k.seenFlagger = [f.seenFlagger EXCEPT ![t] = p]
      BY <1>2, <1>3, <1>6
    <2> QED
      BY <1>0, <2>1 DEF Flags
  <1>7. \A q \in Players :
           k.carried[q] = IF q = p THEN f.carried[q] \cup {t} ELSE f.carried[q]
    <2>1. k.carried = [f.carried EXCEPT ![p] = @ \cup {t}]
      BY <1>2, <1>3
    <2> QED
      BY <1>0, <2>1 DEF Flags
  <1>8. \A q \in Players : t \notin f.carried[q]
    BY DEF Right, Whole
  <1>9. Whole(k, g, d)
    <2>1. SUFFICES ASSUME NEW u \in Teams
                   PROVE  IF k.state[u] = "carried"
                          THEN /\ k.flagger[u] \in Players
                               /\ \A q \in Players : u \in k.carried[q] <=> q = k.flagger[u]
                               /\ g.status[k.flagger[u]] \in {"playing", "left"}
                               /\ k.flagger[u] \notin d
                          ELSE k.flagger[u] = NoOne /\ \A q \in Players : u \notin k.carried[q]
      BY DEF Whole
    <2>2. CASE u = t
      BY <1>4, <1>7, <1>8, <2>2
    <2>3. CASE u # t
      <3>1. k.state[u] = f.state[u] /\ k.flagger[u] = f.flagger[u]
        BY <1>4, <2>3
      <3>2. \A q \in Players : u \in k.carried[q] <=> u \in f.carried[q]
        BY <1>7, <2>3
      <3>3. IF f.state[u] = "carried"
            THEN /\ f.flagger[u] \in Players
                 /\ \A q \in Players : u \in f.carried[q] <=> q = f.flagger[u]
                 /\ g.status[f.flagger[u]] \in {"playing", "left"}
                 /\ f.flagger[u] \notin d
            ELSE f.flagger[u] = NoOne /\ \A q \in Players : u \notin f.carried[q]
        BY <2>1 DEF Right, Whole
      <3> QED
        BY <3>1, <3>2, <3>3
    <2> QED
      BY <2>2, <2>3
  <1>10. Still(k, g)
    BY <1>4 DEF Right, Still
  <1>11. Shown(k, g)
    BY <1>4, <1>5, <1>6 DEF Right, Shown, Seen
  <1>12. Right(k, g, d)
    BY <1>3, <1>9, <1>10, <1>11 DEF Right
  <1> QED
    BY <1>1, <1>12

LEMMA TouchRight ==
  ASSUME NEW f, NEW g, NEW d, Right(f, g, d), NEW p \in Players, p \notin d,
         g.status[p] \in {"playing", "left"}, NEW t \in Teams, t \in FlagTeams,
         f.state[t] # "carried"
  PROVE  Right(FlagTouch(f, g, p, t), g, d)
  <1>1. CanPickupObjective(g, t) => Loose(g, t)
    BY DEF CanPickupObjective, Loose, IsSidesGame
  <1>2. CanPickupObjective(g, t) => Right(FlagGrab(f, g, p, t), g, d)
    BY <1>1, GrabRight
  <1>3. Right(FlagReturn(f, t), g, d)
    <2>1. f \in Flags /\ f.carried = [f.carried EXCEPT ![p] = @ \ {t}]
      <3>1. f \in Flags /\ t \notin f.carried[p]
        BY DEF Right, Whole
      <3>2. f.carried[p] \ {t} = f.carried[p]
        BY <3>1
      <3> QED
        BY <3>1, <3>2 DEF Flags
    <2> QED
      BY <2>1, HomeRight
  <1> QED
    BY <1>2, <1>3 DEF FlagTouch

LEMMA OwnRight ==
  ASSUME NEW f, NEW g, NEW d, Right(f, g, d), NEW p \in Players
  PROVE  /\ Right(ReturnOwn(f, p), g, d)
         /\ f.carried[p] \ {TeamOf[p]} \subseteq ReturnOwn(f, p).carried[p]
  <1> DEFINE own == TeamOf[p]
             k == [f EXCEPT !.carried[p] = @ \ {own}]
             h == FlagReturn(k, own)
  <1>0. f \in Flags /\ own \in Teams
    BY TeamsAssumption DEF Right
  <1>1. CASE own \notin f.carried[p]
    BY <1>1 DEF ReturnOwn
  <1>2. CASE own \in f.carried[p]
    <2>1. ReturnOwn(f, p) = h
      BY <1>2 DEF ReturnOwn
    <2>2. f.flagger[own] = p
      BY <1>2, CarrierRight
    <2> HIDE DEF own
    <2>3. /\ k \in Flags /\ k.state = f.state /\ k.flagger = f.flagger
          /\ k.seenState = f.seenState /\ k.seenFlagger = f.seenFlagger
          /\ k.carried = [f.carried EXCEPT ![p] = @ \ {own}]
      BY <1>0 DEF Flags
    <2> HIDE DEF k
    <2>4. Right(h, g, d)
      BY <1>0, <2>2, <2>3, HomeRight
    <2>5. h.carried = k.carried
      BY <1>0, <2>3 DEF FlagReturn, SpawnFlag, Placed, See, Flags, FlagStates
    <2> HIDE DEF h
    <2>6. h.carried[p] = f.carried[p] \ {own}
      BY <1>0, <2>3, <2>5 DEF Flags
    <2>7. ReturnOwn(f, p) = h /\ h.carried[p] = f.carried[p] \ {own} /\ own = TeamOf[p]
      BY <2>1, <2>6 DEF own
    <2> QED
      BY <2>4, <2>7
  <1> QED
    BY <1>1, <1>2

\* A capture: the flag goes home, and the refresh shows all flags at home, where
\* they are when two teams play and the flag must be at home to score.
LEMMA ScoreRight ==
  ASSUME Settled, NEW f, NEW g, NEW d, Right(f, g, d), NEW p \in Players,
         Captured(f, p) # {}
  PROVE  Right(FlagScore(ReturnOwn(f, p), g, p, The(Captured(f, p))), g, d)
  <1> DEFINE r == ReturnOwn(f, p)
             team == The(Captured(f, p))
             told == SeeRefresh(See(r, team, "home"), g, FALSE)
             k == [told EXCEPT !.carried[p] = @ \ {team}]
             h == SpawnFlag(k, team)
  <1>1. Right(r, g, d) /\ f.carried[p] \ {TeamOf[p]} \subseteq r.carried[p]
    BY OwnRight
  <1>2. team \in Captured(f, p)
    BY TheInSet
  <1>3. /\ team \in f.carried[p] \ {TeamOf[p]}
        /\ options.flagathometoscore = 1 => r.state[TeamOf[p]] = "home"
    BY <1>2 DEF Captured
  <1> HIDE DEF r, team
  <1>4. team \in r.carried[p]
    BY <1>1, <1>3
  <1>5. /\ team \in Teams /\ r.state[team] = "carried" /\ r.flagger[team] = p
        /\ Loose(g, team)
    BY <1>1, <1>4, CarrierRight
  <1>6. r \in Flags
    BY <1>1 DEF Right
  <1>7. /\ told \in Flags /\ told.carried = r.carried /\ told.state = r.state
        /\ told.flagger = r.flagger
        /\ told.seenState = [t \in Teams |-> "home"]
        /\ told.seenFlagger = [t \in Teams |-> NoOne]
    <2> DEFINE s == See(r, team, "home")
    <2>1. /\ s \in Flags /\ s.carried = r.carried /\ s.state = r.state
          /\ s.flagger = r.flagger
      BY <1>5, <1>6 DEF See, Flags, FlagStates
    <2>2. told = [s EXCEPT !.seenState = [t \in Teams |-> "home"],
                           !.seenFlagger = [t \in Teams |-> NoOne]]
      BY DEF SeeRefresh
    <2>3. /\ [t \in Teams |-> "home"] \in [Teams -> FlagStates]
          /\ [t \in Teams |-> NoOne] \in [Teams -> Players \cup {NoOne}]
      BY DEF FlagStates
    <2> HIDE DEF s, told
    <2> QED
      BY <2>1, <2>2, <2>3 DEF Flags
  <1> HIDE DEF told
  <1>8. /\ k \in Flags /\ k.carried = [r.carried EXCEPT ![p] = @ \ {team}]
        /\ k.state = r.state /\ k.flagger = r.flagger
        /\ k.seenState = [t \in Teams |-> "home"]
        /\ k.seenFlagger = [t \in Teams |-> NoOne]
    BY <1>6, <1>7 DEF Flags
  <1> HIDE DEF k
  <1>9. /\ h \in Flags /\ h.carried = [r.carried EXCEPT ![p] = @ \ {team}]
        /\ h.state = [r.state EXCEPT ![team] = "home"]
        /\ h.flagger = [r.flagger EXCEPT ![team] = NoOne]
        /\ h.seenState = [t \in Teams |-> "home"]
        /\ h.seenFlagger = [t \in Teams |-> NoOne]
    BY <1>5, <1>8 DEF SpawnFlag, Placed, Flags, FlagStates
  <1> HIDE DEF h
  <1>10. Whole(h, g, d) /\ Still(h, g)
    BY <1>1, <1>5, <1>9, HomeWhole
  <1>11. ASSUME TwoTeams, NEW t \in Teams PROVE h.state[t] = "home" /\ h.flagger[t] = NoOne
    <2>1. h.state[t] = "home"
      <3>1. CASE t = team
        BY <1>5, <1>6, <1>9, <3>1 DEF Flags
      <3>2. CASE ~Loose(g, t)
        BY <1>10, <3>2 DEF Still
      <3>3. CASE t = TeamOf[p] /\ t # team
        <4>1. r.state[t] = "home"
          BY <1>3, <1>11, <3>3 DEF TwoTeams
        <4> QED
          BY <1>5, <1>6, <1>9, <3>3, <4>1 DEF Flags
      <3>4. Loose(g, t) /\ t # team => t = TeamOf[p]
        <4>1. t \in {0, 1} \/ ~Loose(g, t)
          BY <1>11 DEF Loose, FlagTeams, TwoTeams
        <4>2. team \in {0, 1}
          BY <1>5, <1>11 DEF Loose, FlagTeams, TwoTeams
        <4>3. TeamOf[p] \in {0, 1}
          <5>1. cvars \in Settings
            BY DEF Settled
          <5>2. TeamOf[p] \in Nat /\ TeamOf[p] < cvars.teamsinplay
            BY <5>1, TeamsAssumption, TeamsInPlayAssumption DEF Teams
          <5> QED
            BY <1>11, <5>2 DEF TwoTeams
        <4> QED
          BY <1>3, <4>1, <4>2, <4>3
      <3> QED
        BY <3>1, <3>2, <3>3, <3>4
    <2>2. h.flagger[t] = NoOne
      BY <1>10, <2>1 DEF Whole
    <2> QED
      BY <2>1, <2>2
  <1>12. Shown(h, g)
    BY <1>9, <1>11 DEF Shown, Seen
  <1>13. Right(h, g, d)
    BY <1>9, <1>10, <1>12 DEF Right
  <1> QED
    BY <1>13 DEF FlagScore, h, k, told, r, team

LEMMA SocketRight ==
  ASSUME Settled, NEW f, NEW g, NEW d, Right(f, g, d), NEW p \in Players
  PROVE  Right(SocketTouch(f, g, p), g, d)
  BY OwnRight, ScoreRight DEF SocketTouch

\* Dropped flags are carried by nobody, and go home for everybody to see.
LEMMA TicsRight ==
  ASSUME NEW f, NEW g, NEW d, Right(f, g, d), NEW h PROVE Right(RunTics(f, h), g, d)
  <1> DEFINE counts == {t \in Teams : f.state[t] = "dropped"}
             over == {t \in counts : f.timeout[t] = 0}
             Home(old, new) == [t \in Teams |-> IF t \in over THEN new ELSE old[t]]
             timeouts == [t \in Teams |->
                            IF t \in counts \ over THEN f.timeout[t] - 1 ELSE f.timeout[t]]
             k == [f EXCEPT !.state = Home(@, "home"),
                            !.timeout = timeouts,
                            !.seenState = Home(@, "home"),
                            !.seenFlagger = Home(@, NoOne)]
  <1>0. f \in Flags
    BY DEF Right
  <1>1. RunTics(f, h) = f \/ RunTics(f, h) = k
    BY <1>0 DEF RunTics, Flags
  <1>2. timeouts \in [Teams -> Nat]
    BY <1>0 DEF Flags
  <1>3. /\ Home(f.state, "home") \in [Teams -> FlagStates]
        /\ Home(f.seenState, "home") \in [Teams -> FlagStates]
        /\ Home(f.seenFlagger, NoOne) \in [Teams -> Players \cup {NoOne}]
    BY <1>0 DEF Flags, FlagStates
  <1>4. \A t \in Teams :
           /\ Home(f.state, "home")[t] = IF t \in over THEN "home" ELSE f.state[t]
           /\ Home(f.seenState, "home")[t] = IF t \in over THEN "home" ELSE f.seenState[t]
           /\ Home(f.seenFlagger, NoOne)[t] = IF t \in over THEN NoOne ELSE f.seenFlagger[t]
    OBVIOUS
  <1>5. \A t \in over : f.state[t] = "dropped"
    OBVIOUS
  <1> HIDE DEF timeouts, Home, over
  <1>6. /\ k \in Flags /\ k.carried = f.carried /\ k.flagger = f.flagger
        /\ k.state = Home(f.state, "home")
        /\ k.seenState = Home(f.seenState, "home")
        /\ k.seenFlagger = Home(f.seenFlagger, NoOne)
    BY <1>0, <1>2, <1>3 DEF Flags
  <1> HIDE DEF k
  <1>7. Whole(k, g, d)
    BY <1>4, <1>5, <1>6 DEF Right, Whole
  <1>8. Still(k, g)
    BY <1>4, <1>6 DEF Right, Still
  <1>9. Shown(k, g)
    <2>1. SUFFICES ASSUME TwoTeams, NEW t \in Teams PROVE Seen(k, g, t)
      BY DEF Shown
    <2>2. Seen(f, g, t)
      BY <2>1 DEF Right, Shown
    <2>3. CASE t \in over
      BY <1>4, <1>5, <1>6, <2>3 DEF Right, Whole, Seen
    <2>4. CASE t \notin over
      BY <1>4, <1>6, <2>2, <2>4 DEF Seen
    <2> QED
      BY <2>3, <2>4
  <1>10. Right(k, g, d)
    BY <1>6, <1>7, <1>8, <1>9 DEF Right
  <1> QED
    BY <1>1, <1>10

\* A level that is reset has all its flags at home.
LEMMA ResetRight ==
  ASSUME NEW f \in Flags, NEW g, NEW h, NEW d PROVE Right(ResetScores(f, g), h, d)
  <1> DEFINE a == AllHome(f)
             k == ResetScores(f, g)
  <1>1. /\ a \in Flags
        /\ \A t \in Teams : a.state[t] = "home" /\ a.flagger[t] = NoOne
        /\ \A p \in Players : a.carried[p] = {}
    BY DEF AllHome, Flags, FlagStates
  <1>2. k = SeeRefresh(a, g, TRUE)
    BY DEF ResetScores
  <1> HIDE DEF a, k
  <1>3. k = [a EXCEPT !.seenState = [t \in Teams |-> a.state[t]],
                      !.seenFlagger = [t \in Teams |-> NoOne]]
    BY <1>1, <1>2 DEF SeeRefresh
  <1>4. /\ [t \in Teams |-> a.state[t]] \in [Teams -> FlagStates]
        /\ [t \in Teams |-> NoOne] \in [Teams -> Players \cup {NoOne}]
    BY <1>1 DEF FlagStates, Flags
  <1>5. /\ k \in Flags /\ k.state = a.state /\ k.flagger = a.flagger
        /\ k.carried = a.carried
        /\ k.seenState = [t \in Teams |-> a.state[t]]
        /\ k.seenFlagger = [t \in Teams |-> NoOne]
    BY <1>1, <1>3, <1>4 DEF Flags
  <1>6. Right(k, h, d)
    BY <1>1, <1>5 DEF Right, Whole, Still, Shown, Seen
  <1> QED
    BY <1>6 DEF k

\* A client forgets the flags of a player he has removed: a player in the game
\* carries them until the end of the frame, and nobody else has any.
LEMMA LeaveRight ==
  ASSUME NEW f, NEW g, NEW d, Right(f, g, d), NEW p \in Players, NEW h,
         cvars.gametype = "ctf" => h.round = g.round,
         \A q \in Players \ {p} : h.status[q] = g.status[q],
         f.carried[p] = {} \/ h.status[p] = "left"
  PROVE  Right(SeeLeave(f, p), h, d)
  <1> DEFINE lost == {t \in Teams : f.seenFlagger[t] = p}
             k == SeeLeave(f, p)
  <1>0. f \in Flags
    BY DEF Right
  <1>1. /\ k \in Flags /\ k.state = f.state /\ k.flagger = f.flagger
        /\ k.carried = f.carried
        /\ \A t \in Teams : k.seenState[t] = IF t \in lost THEN "home" ELSE f.seenState[t]
        /\ \A t \in Teams : k.seenFlagger[t] = IF t \in lost THEN NoOne ELSE f.seenFlagger[t]
    BY <1>0 DEF SeeLeave, Flags, FlagStates
  <1>2. \A t \in Teams : t \in lost <=> f.seenFlagger[t] = p
    OBVIOUS
  <1> HIDE DEF lost, k
  <1>3. \A t \in Teams : Loose(h, t) <=> Loose(g, t)
    BY DEF Loose, FlagTeams, DefendingTeam
  <1>4. ASSUME NEW t \in Teams, f.state[t] = "carried"
        PROVE  /\ f.flagger[t] \in Players
               /\ f.flagger[t] = p => h.status[p] = "left"
               /\ f.flagger[t] # p => h.status[f.flagger[t]] = g.status[f.flagger[t]]
    <2>1. f.flagger[t] \in Players /\ t \in f.carried[f.flagger[t]]
      BY <1>4 DEF Right, Whole
    <2> QED
      BY <2>1
  <1>5. Whole(k, h, d)
    BY <1>1, <1>4 DEF Right, Whole
  <1>6. Still(k, h)
    BY <1>1, <1>3 DEF Right, Still
  <1>7. Shown(k, h)
    <2>1. SUFFICES ASSUME TwoTeams, NEW t \in Teams PROVE Seen(k, h, t)
      BY DEF Shown
    <2>2. Seen(f, g, t)
      BY <2>1 DEF Right, Shown
    <2>3. CASE f.state[t] = "carried"
      BY <1>1, <1>2, <1>4, <2>2, <2>3 DEF Seen
    <2>4. CASE f.state[t] # "carried"
      <3>1. f.flagger[t] = NoOne /\ NoOne # p
        BY <2>4, NobodyElse DEF Right, Whole
      <3> QED
        BY <1>1, <1>2, <2>2, <2>4, <3>1 DEF Seen
    <2> QED
      BY <2>3, <2>4
  <1>8. Right(k, h, d)
    BY <1>1, <1>5, <1>6, <1>7 DEF Right
  <1> QED
    BY <1>8 DEF k

-----------------------------------------------------------------------------
(* The steps.                                                              *)

LEMMA JoinedGood ==
  ASSUME NEW f, Good(f), NEW p \in Players, OptionsOK PROVE Good(Joined(f, p))
  BY CheckFlagsGood, PlayerRebornGood DEF Joined

LEMMA SpectateGood ==
  ASSUME NEW f, Good(f), NEW p \in Players, OptionsOK PROVE Good(Spectate(f, p))
  BY CheckFlagsGood, PlayerRebornGood DEF Spectate

\* A step that keeps CtfIInv, as far as it is about flags.
CtfGoodStep == OptionsOK' /\ Good(flags') /\ dead' \in SUBSET Players

LEMMA CtfServerStep == ASSUME CtfIInv, CtfServer PROVE CtfGoodStep
  <1> USE DEF CtfIInv, CtfGoodStep, OptionsOK
  <1>1. CASE CtfGameTics
    BY <1>1, RunTicsGood DEF CtfGameTics
  <1>2. CASE CtfDoResetLevel \/ CtfDoNewGame
    BY <1>2, ResetScoresGood DEF CtfDoResetLevel, CtfDoNewGame
  <1>3. ASSUME NEW p \in Players, CtfBootLoser(p) PROVE CtfGoodStep
    BY <1>3, SpectateGood DEF CtfBootLoser
  <1>4. CASE CtfServeQueue
    <2> DEFINE served == {p \in queue.todo : game.position[p] > 0 /\ game'.position[p] = 0}
    <2>1. served \in SUBSET Players
      BY DEF IInv, TypeOK, Queues
    <2>2. /\ flags' = IF served = {} THEN flags ELSE Joined(flags, The(served))
          /\ dead' = dead \ served
          /\ options' = options
      BY <1>4 DEF CtfServeQueue
    <2> HIDE DEF served
    <2>3. served # {} => The(served) \in Players
      BY <2>1, TheInSet
    <2>4. Good(flags')
      BY <2>2, <2>3, JoinedGood
    <2> QED
      BY <2>2, <2>4
  <1>5. ASSUME NEW p \in Players, RemoveGone(p) PROVE CtfGoodStep
    BY <1>5, CheckFlagsGood, PlayerRebornGood DEF RemoveGone
  <1>6. ASSUME NEW p \in Players, CtfRemoveDisconnected(p) PROVE CtfGoodStep
    BY <1>6, CheckFlagsGood, PlayerRebornGood DEF CtfRemoveDisconnected
  <1>7. CASE CtfEndDrops \/ CtfRunFrame
    BY <1>7 DEF CtfEndDrops, CtfRunFrame
  <1> QED
    BY <1>1, <1>2, <1>3, <1>4, <1>5, <1>6, <1>7 DEF CtfServer

LEMMA FlagTeamsAreTeams == ASSUME IInv, NEW team \in FlagTeams PROVE team \in Teams
  <1>1. cvars \in Settings
    BY DEF IInv, TypeOK
  <1>2. cvars.gametype = "ctf" /\ team \in 0 .. (cvars.teamsinplay - 1)
    BY DEF FlagTeams
  <1>3. cvars.teamsinplay \in Nat
    BY <1>1, CvarTypes DEF Settled, Cvars
  <1>4. cvars.teamsinplay <= NumTeams
    BY <1>1, <1>2, CtfAssumption
  <1> QED
    BY <1>2, <1>3, <1>4, TeamsAssumption DEF Teams

LEMMA CtfClientStep == ASSUME CtfIInv, CtfClients PROVE CtfGoodStep
  <1> USE DEF CtfIInv, CtfGoodStep, OptionsOK
  <1>1. CASE CtfInterfere
    BY <1>1 DEF CtfInterfere
  <1>2. ASSUME NEW vote \in Votes, CtfVotePasses(vote) PROVE CtfGoodStep
    <2> DEFINE out == {p \in Players : Playing(p) /\ game'.status[p] = "spectator"}
    <2>1. /\ flags' = IF out = {} THEN flags ELSE Spectate(flags, The(out))
          /\ dead' = dead \ out
          /\ options' = options
      BY <1>2 DEF CtfVotePasses
    <2>2. out # {} => The(out) \in Players
      BY TheInSet
    <2> HIDE DEF out
    <2>3. Good(flags')
      BY <2>1, <2>2, SpectateGood
    <2> QED
      BY <2>1, <2>3
  <1>3. ASSUME NEW p \in Players, CtfConnect(p) \/ CtfDisconnect(p) PROVE CtfGoodStep
    BY <1>3, SeeLeaveGood DEF CtfConnect, CtfDisconnect
  <1>4. ASSUME NEW p \in Players, CtfJoinRequest(p) PROVE CtfGoodStep
    BY <1>4, JoinedGood DEF CtfJoinRequest
  <1>5. ASSUME NEW p \in Players, CtfSpectateRequest(p) PROVE CtfGoodStep
    BY <1>5, SpectateGood DEF CtfSpectateRequest
  <1>6. ASSUME NEW p \in Players, NEW killer, CtfKill(p, killer) PROVE CtfGoodStep
    BY <1>6, CheckFlagsGood DEF CtfKill
  <1>7. ASSUME NEW p \in Players, Reborn(p) PROVE CtfGoodStep
    BY <1>7, PlayerRebornGood DEF Reborn
  <1>8. ASSUME NEW p \in Players, NEW team \in FlagTeams, TouchFlag(p, team)
        PROVE  CtfGoodStep
    BY <1>8, FlagTeamsAreTeams, FlagTouchGood DEF TouchFlag
  <1>9. ASSUME NEW p \in Players, TouchSocket(p) PROVE CtfGoodStep
    BY <1>9, SocketTouchGood DEF TouchSocket
  <1> QED
    BY <1>1, <1>2, <1>3, <1>4, <1>5, <1>6, <1>7, <1>8, <1>9 DEF CtfClients

LEMMA CtfInitGood == ASSUME CtfInit PROVE CtfIInv
  <1>1. flags \in Flags
    BY DEF CtfInit, Flags, FlagStates
  <1>2. \A p \in Players : flags.carried[p] = {}
    BY DEF CtfInit
  <1> QED
    BY <1>1, <1>2, InitIInv DEF CtfInit, CtfIInv, OptionsOK, Good, OneEnemy

LEMMA CtfNextGood == ASSUME CtfIInv, [CtfNext]_ctfVars PROVE CtfIInv'
  <1>1. IInv'
    BY NextIInv, CtfNextIsMatch DEF CtfIInv
  <1>2. CtfGoodStep
    <2>1. CASE UNCHANGED ctfVars
      BY <2>1 DEF ctfVars, CtfIInv, CtfGoodStep, OptionsOK
    <2> QED
      BY <2>1, CtfServerStep, CtfClientStep DEF CtfNext
  <1> QED
    BY <1>1, <1>2 DEF CtfGoodStep, CtfIInv, OptionsOK, Good, OneEnemy

-----------------------------------------------------------------------------
(* The flags over the steps of a match.                                    *)

\* Most steps leave everybody where he is.
LEMMA Unmoved ==
  ASSUME IInv,
         \/ GameTics \/ EndVotes \/ DoCompleted \/ LosersBooted
         \/ RunWorld \/ RunIntermission \/ EndTicker \/ EndDrops
         \/ \E command \in Commands : Console(command)
         \/ \E p \in Players :
               \/ ReadyRequest(p) \/ Exit(p) \/ Capture(p)
               \/ \E killer \in InGame(game) \cup Left(game) \cup {NoOne} : Kill(p, killer)
  PROVE  game'.status = game.status
  <1>0. Settled /\ Sound(game) /\ game \in Games
    BY SoundState DEF Sound
  <1>1. CASE GameTics
    <2> DEFINE held == HoldTime(game)
               ticked == IF game.gamestate = "level" THEN TimeCheckEndGame(Tic(held)) ELSE game
    <2>1. Stays(game, held)
      BY <1>0, HoldTimeSound
    <2> HIDE DEF held
    <2>2. Keeps(held, Tic(held))
      BY <1>0, <2>1, TicSound DEF Stays
    <2>3. Keeps(held, TimeCheckEndGame(Tic(held)))
      BY <1>0, <2>2, TimeCheckSound, KeepsTransitive DEF Keeps
    <2>4. Sound(ticked) /\ ticked.status = game.status
      BY <1>0, <2>1, <2>3 DEF Stays, Keeps, Frame
    <2>5. game' = ticked \/ game' = RunDelays(ticked)
      BY <1>1 DEF GameTics, held
    <2> HIDE DEF ticked
    <2> QED
      BY <2>4, <2>5, RunDelaysSound DEF Keeps, Frame
  <1>2. CASE EndVotes
    BY <1>0, <1>2, RunDelaysSound DEF EndVotes, Keeps, Frame
  <1>3. CASE DoCompleted \/ EndTicker
    BY <1>0, <1>3 DEF DoCompleted, EndTicker, Games
  <1>4. CASE LosersBooted
    BY <1>0, <1>4, UpdateQueueSound DEF LosersBooted, Phases
  <1>5. CASE RunWorld \/ EndDrops
    BY <1>5 DEF RunWorld, EndDrops
  <1>6. CASE RunIntermission
    BY <1>0, <1>6 DEF RunIntermission, DeferedInitNew, Games
  <1>7. ASSUME NEW command \in Commands, Console(command) PROVE game'.status = game.status
    <2>1. command \in CommandKinds
      BY ChoicesAssumption
    <2>2. \/ game' = Restart(game) \/ game' = ForceStart(game)
          \/ game' = ExitLevel(game) \/ game' = DeferedInitNew(game)
      BY <1>7, <2>1 DEF Console, CommandKinds
    <2> QED
      BY <1>0, <2>2, RestartSound, ForceStartSound, ExitLevelSound, InitNewSound
         DEF Keeps, Frame
  <1>8. ASSUME NEW p \in Players, ReadyRequest(p) PROVE game'.status = game.status
    BY <1>0, <1>8, SetReadySound DEF ReadyRequest, Keeps, Frame
  <1>9. ASSUME NEW p \in Players, Exit(p) PROVE game'.status = game.status
    BY <1>0, <1>9, ExitLevelSound DEF Exit, Keeps, Frame
  <1>10. ASSUME NEW p \in Players, Capture(p) PROVE game'.status = game.status
    <2> DEFINE score == [game.score EXCEPT ![TeamOf[p]] = @ + 1]
               g == [game EXCEPT !.score = score]
    <2>1. score \in [Sides -> Int]
      BY <1>0, TeamsAssumption DEF Sides, Games
    <2>2. game' = ScoreCheckEndGame(g)
      BY <1>0, <1>10 DEF Capture, Games
    <2> HIDE DEF score
    <2>3. g \in Games /\ Keeps(game, g)
      <3>1. g \in Games
        BY <1>0, <2>1 DEF Games
      <3> QED
        BY <1>0, <3>1, SameRound DEF Keeps, Frame, Sound, Games
    <2> HIDE DEF g
    <2> QED
      BY <1>0, <2>2, <2>3, ScoreCheckSound DEF Keeps, Frame
  <1>11. ASSUME NEW p \in Players, NEW killer \in InGame(game) \cup Left(game) \cup {NoOne},
                Kill(p, killer)
         PROVE  game'.status = game.status
    <2>1. killer \in Players \cup {NoOne}
      BY DEF InGame, Left
    <2> QED
      BY <1>0, <1>11, <2>1, KillPlayerSound DEF Kill, Keeps, Frame
  <1> QED
    BY <1>1, <1>2, <1>3, <1>4, <1>5, <1>6, <1>7, <1>8, <1>9, <1>10, <1>11

\* Where a fight goes on after a step, it was on before, and its gameplay runs.
LEMMA Before ==
  ASSUME CtfIInv, FairInv, FlagInv, [Next]_vars, ~ActionDone, Live(game')
  PROVE  /\ Right(flags, game, dead)
         /\ cvars.gametype = "ctf" => game'.round = game.round
         /\ \A p \in Players : CanTickGameplay(game) \/ flags.carried[p] = {}
         /\ \A p \in Players : CanTickGameplay(game') \/ flags.carried[p] = {}
  <1>1. GoesOn(game, game')
    <2>1. CASE Next
      BY <2>1, NextFair DEF FairStep, CtfIInv
    <2>2. CASE UNCHANGED vars
      BY <2>2 DEF vars, GoesOn
    <2> QED
      BY <2>1, <2>2
  <1>2. CASE cvars.gametype # "ctf"
    <2>1. Right(flags, game, dead)
      BY <1>2 DEF FlagInv, Live
    <2> QED
      BY <1>2, <2>1, NoFlags
  <1>3. CASE cvars.gametype = "ctf"
    <2>1. Fighting(game')
      BY <1>3 DEF Live
    <2>2. game.state # "preround"
      BY <1>3 DEF CtfIInv, IInv, RoundOK, StartOfRoundState
    <2>3. Fighting(game) /\ game'.round = game.round
      BY <1>1, <2>1, <2>2 DEF GoesOn, Fighting
    <2> QED
      BY <2>1, <2>3 DEF FlagInv, Live, Fighting, CanTickGameplay
  <1> QED
    BY <1>2, <1>3

\* A player whose flags are dropped may go where he likes.
LEMMA DropRight ==
  ASSUME OptionsOK, NEW f, NEW g, NEW d, Right(f, g, d), NEW p \in Players, NEW h,
         CanTickGameplay(h) \/ f.carried[p] = {},
         NEW k, cvars.gametype = "ctf" => k.round = g.round,
         \A q \in Players \ {p} : k.status[q] = g.status[q],
         NEW e, \A q \in Players \ {p} : q \in e => q \in d
  PROVE  /\ Right(CheckFlags(f, h, p), k, e)
         /\ PlayerReborn(CheckFlags(f, h, p), p) = CheckFlags(f, h, p)
  <1> DEFINE c == CheckFlags(f, h, p)
  <1>1. Right(c, g, d) /\ c.carried = [f.carried EXCEPT ![p] = {}]
    BY CheckRight
  <1> HIDE DEF c
  <1>2. f \in Flags /\ c \in Flags
    BY <1>1 DEF Right
  <1>3. c.carried[p] = {}
    BY <1>1, <1>2 DEF Flags
  <1>4. Right(c, k, e)
    <2>1. \A q \in Players : c.carried[q] # {} =>
             k.status[q] = g.status[q] /\ (q \in e => q \in d)
      BY <1>3
    <2> QED
      BY <1>1, <2>1, ElseRight
  <1>5. PlayerReborn(c, p) = c
    BY <1>2, <1>3 DEF PlayerReborn, Flags
  <1> QED
    BY <1>4, <1>5 DEF c

LEMMA CtfKillRight ==
  ASSUME CtfIInv, FairInv, FlagInv, [Next]_vars, Live(game'), NEW p \in Players,
         NEW killer \in InGame(game) \cup Left(game) \cup {NoOne}, CtfKill(p, killer)
  PROVE  Right(flags', game', dead')
  <1>1. ~ActionDone
    BY DEF CtfKill, Kill, ActionDone
  <1>2. game'.status = game.status
    BY Unmoved DEF CtfKill, CtfIInv
  <1>3. Right(CheckFlags(flags, game, p), game', dead \cup {p})
    BY <1>1, <1>2, Before, DropRight DEF CtfIInv
  <1> QED
    BY <1>3 DEF CtfKill

LEMMA RebornRight ==
  ASSUME CtfIInv, FairInv, FlagInv, [Next]_vars, Live(game'), NEW p \in Players, Reborn(p)
  PROVE  Right(flags', game', dead')
  <1>1. game' = game /\ ~ActionDone
    BY DEF Reborn, vars, ActionDone
  <1>2. Right(flags, game, dead)
    BY <1>1, Before
  <1>3. flags.carried[p] = {}
    BY <1>2, CarrierRight DEF Reborn
  <1>4. PlayerReborn(flags, p) = flags
    BY <1>2, <1>3 DEF PlayerReborn, Right, Flags
  <1>5. Right(flags, game, dead \ {p})
    BY <1>2, ElseRight
  <1> QED
    BY <1>1, <1>4, <1>5 DEF Reborn

LEMMA TouchFlagRight ==
  ASSUME CtfIInv, FairInv, FlagInv, [Next]_vars, Live(game'), NEW p \in Players,
         NEW team \in FlagTeams, TouchFlag(p, team)
  PROVE  Right(flags', game', dead')
  <1>1. game' = game /\ dead' = dead /\ ~ActionDone
    BY DEF TouchFlag, vars, ActionDone
  <1>2. Right(flags, game, dead)
    BY <1>1, Before
  <1>3. team \in Teams
    BY FlagTeamsAreTeams DEF CtfIInv
  <1>4. p \notin dead /\ game.status[p] \in {"playing", "left"}
    BY DEF TouchFlag, Standing, Acting, InGame, Left
  <1>5. Right(FlagTouch(flags, game, p, team), game, dead)
    BY <1>2, <1>3, <1>4, TouchRight DEF TouchFlag
  <1> QED
    BY <1>1, <1>5 DEF TouchFlag

LEMMA TouchSocketRight ==
  ASSUME CtfIInv, FairInv, FlagInv, [Next]_vars, Live(game'), NEW p \in Players,
         TouchSocket(p)
  PROVE  Right(flags', game', dead')
  <1>1. dead' = dead /\ ~ActionDone
    BY DEF TouchSocket, Capture, vars, ActionDone
  <1>2. game'.status = game.status
    BY Unmoved DEF TouchSocket, vars, CtfIInv
  <1>3. Right(SocketTouch(flags, game, p), game, dead)
    BY <1>1, Before, SocketRight, SoundState DEF CtfIInv
  <1>4. Right(SocketTouch(flags, game, p), game', dead)
    BY <1>1, <1>2, <1>3, Before, ElseRight
  <1> QED
    BY <1>1, <1>4 DEF TouchSocket

LEMMA CtfJoinRight ==
  ASSUME CtfIInv, FairInv, FlagInv, [Next]_vars, Live(game'), NEW p \in Players,
         CtfJoinRequest(p)
  PROVE  Right(flags', game', dead')
  <1>1. ~ActionDone
    BY DEF CtfJoinRequest, JoinRequest, ActionDone
  <1>2. CASE CanJoinGame(game)
    <2>1. game'.status = [game.status EXCEPT ![p] = "playing"]
      BY <1>2, SoundState, JoinPlayerSound DEF CtfJoinRequest, JoinRequest, CtfIInv
    <2>2. \A q \in Players \ {p} : game'.status[q] = game.status[q]
      BY <2>1, SoundState DEF CtfIInv, Sound, Games
    <2>3. /\ Right(CheckFlags(flags, game, p), game', dead \ {p})
          /\ Joined(flags, p) = CheckFlags(flags, game, p)
      BY <1>1, <2>2, Before, DropRight DEF CtfIInv, Joined
    <2> QED
      BY <1>2, <2>3 DEF CtfJoinRequest
  <1>3. CASE ~CanJoinGame(game)
    <2> DEFINE g == [game EXCEPT !.position[p] = 255]
    <2>1. Sound(g) /\ g.status = game.status
      BY SoundState, PositionSound DEF CtfIInv
    <2>2. UpdateQueue(g, "join", {}, "packets")
      BY <1>3 DEF CtfJoinRequest, JoinRequest
    <2> HIDE DEF g
    <2>3. game'.status = game.status
      BY <2>1, <2>2, UpdateQueueSound DEF Phases
    <2>4. Right(flags, game', dead)
      BY <1>1, <2>3, Before, ElseRight
    <2> QED
      BY <1>3, <2>4 DEF CtfJoinRequest
  <1> QED
    BY <1>2, <1>3

\* Whoever is let in from the queue is the one who loses his place.
LEMMA ServedOne ==
  ASSUME IInv, ServeQueue
  PROVE  LET served == {p \in queue.todo : game.position[p] > 0 /\ game'.position[p] = 0} IN
         \/ served = {} /\ game'.status = game.status
         \/ \E p \in Players :
               /\ served = {p}
               /\ \A q \in Players \ {p} : game'.status[q] = game.status[q]
  <1> DEFINE served == {p \in queue.todo : game.position[p] > 0 /\ game'.position[p] = 0}
  <1>0. /\ Settled /\ Sound(game) /\ game \in Games
        /\ queue.todo \subseteq Queued /\ queue.todo \subseteq Players
        /\ queue.place \in Nat /\ queue.place > 0
    BY SoundState DEF Sound, ServeQueue, IInv, PlacesOK, TypeOK, Queues
  <1>1. PICK p \in queue.todo :
          \/ game' = JoinPlayer([game EXCEPT !.position[p] = 0], p)
          \/ game' = [game EXCEPT !.position[p] = queue.place]
    BY DEF ServeQueue
  <1>2. p \in Players
    BY <1>0
  <1>3. \A q \in queue.todo : game.position[q] > 0
    BY <1>0 DEF Queued
  <1>4. CASE game' = JoinPlayer([game EXCEPT !.position[p] = 0], p)
    <2> DEFINE g == [game EXCEPT !.position[p] = 0]
    <2>1. /\ Sound(g) /\ g.status = game.status
          /\ g.position = [game.position EXCEPT ![p] = 0]
      BY <1>0, <1>2, PositionSound DEF Games
    <2>2. game' = JoinPlayer(g, p)
      BY <1>4
    <2> HIDE DEF g
    <2>3. /\ game'.status = [game.status EXCEPT ![p] = "playing"]
          /\ game'.position = [game.position EXCEPT ![p] = 0]
      BY <1>0, <1>2, <2>1, <2>2, JoinPlayerSound
    <2>4. \A q \in Players \ {p} : /\ game'.status[q] = game.status[q]
                                   /\ game'.position[q] = game.position[q]
      BY <1>0, <2>3 DEF Games
    <2>5. game'.position[p] = 0
      BY <1>0, <1>2, <2>3 DEF Games
    <2>6. served = {p}
      BY <1>0, <1>1, <1>3, <2>4, <2>5
    <2> QED
      BY <1>2, <2>4, <2>6
  <1>5. CASE game' = [game EXCEPT !.position[p] = queue.place]
    <2>1. /\ game'.status = game.status
          /\ \A q \in Players \ {p} : game'.position[q] = game.position[q]
          /\ game'.position[p] = queue.place
      BY <1>0, <1>2, <1>5 DEF Games
    <2>2. \A q \in queue.todo : game'.position[q] # 0
      BY <1>0, <1>3, <2>1
    <2>3. served = {}
      BY <2>2
    <2> QED
      BY <2>1, <2>3
  <1> QED
    BY <1>1, <1>4, <1>5

LEMMA CtfServeRight ==
  ASSUME CtfIInv, FairInv, FlagInv, [Next]_vars, Live(game'), CtfServeQueue
  PROVE  Right(flags', game', dead')
  <1> DEFINE served == {p \in queue.todo : game.position[p] > 0 /\ game'.position[p] = 0}
  <1>1. ~ActionDone
    BY DEF CtfServeQueue, ServeQueue, ActionDone
  <1>2. \/ served = {} /\ game'.status = game.status
        \/ \E p \in Players :
              /\ served = {p}
              /\ \A q \in Players \ {p} : game'.status[q] = game.status[q]
    BY ServedOne DEF CtfServeQueue, CtfIInv
  <1>3. /\ flags' = IF served = {} THEN flags ELSE Joined(flags, The(served))
        /\ dead' = dead \ served
    BY DEF CtfServeQueue
  <1> HIDE DEF served
  <1>4. CASE served = {} /\ game'.status = game.status
    <2>1. Right(flags, game', dead)
      BY <1>1, <1>4, Before, ElseRight
    <2> QED
      BY <1>3, <1>4, <2>1
  <1>5. ASSUME NEW p \in Players, served = {p},
               \A q \in Players \ {p} : game'.status[q] = game.status[q]
        PROVE  Right(flags', game', dead')
    <2>1. The(served) = p
      BY <1>5, TheInSet
    <2>2. /\ Right(CheckFlags(flags, game, p), game', dead \ {p})
          /\ Joined(flags, p) = CheckFlags(flags, game, p)
      BY <1>1, <1>5, Before, DropRight DEF CtfIInv, Joined
    <2> QED
      BY <1>3, <1>5, <2>1, <2>2
  <1> QED
    BY <1>2, <1>4, <1>5

\* A player becomes a spectator.
LEMMA SpectateRight ==
  ASSUME CtfIInv, FairInv, FlagInv, [Next]_vars, Live(game'), ~ActionDone,
         NEW p \in Players, game'.status = [game.status EXCEPT ![p] = "spectator"],
         flags' = Spectate(flags, p), dead' = dead \ {p}
  PROVE  Right(flags', game', dead')
  <1>1. \A q \in Players \ {p} : game'.status[q] = game.status[q]
    BY SoundState DEF CtfIInv, Sound, Games
  <1>2. /\ Right(CheckFlags(flags, game, p), game', dead \ {p})
        /\ Spectate(flags, p) = CheckFlags(flags, game, p)
    BY <1>1, Before, DropRight DEF CtfIInv, Spectate
  <1> QED
    BY <1>2

LEMMA CtfSpectateRight ==
  ASSUME CtfIInv, FairInv, FlagInv, [Next]_vars, Live(game'), NEW p \in Players,
         CtfSpectateRequest(p)
  PROVE  Right(flags', game', dead')
  <1>1. ~ActionDone /\ dead' = dead \ {p}
    BY DEF CtfSpectateRequest, SpectateRequest, ActionDone
  <1>2. CASE Playing(p)
    <2>1. UpdateQueue(SpecPlayer(game, p), "join", {p}, "packets")
      BY <1>2 DEF CtfSpectateRequest, SpectateRequest, Playing, Spectating
    <2>2. game'.status = [game.status EXCEPT ![p] = "spectator"]
      BY <2>1, SoundState, SpecPlayerSound, UpdateQueueSound DEF Phases, CtfIInv
    <2> QED
      BY <1>1, <1>2, <2>2, SpectateRight DEF CtfSpectateRequest
  <1>3. CASE ~Playing(p)
    <2> DEFINE g == [game EXCEPT !.delay[p] = ReJoinDelay]
    <2>1. Keeps(game, g)
      BY SoundState, DelaySound, BoundsAssumption DEF CtfIInv
    <2>2. UpdateQueue(g, "join", {p}, "packets")
      BY <1>3 DEF CtfSpectateRequest, SpectateRequest
    <2> HIDE DEF g
    <2>3. game'.status = game.status
      BY <2>1, <2>2, UpdateQueueSound DEF Phases, Keeps, Frame
    <2>4. Right(flags, game', dead \ {p})
      BY <1>1, <2>3, Before, ElseRight
    <2> QED
      BY <1>1, <1>3, <2>4 DEF CtfSpectateRequest
  <1> QED
    BY <1>2, <1>3

LEMMA CtfVoteRight ==
  ASSUME CtfIInv, FairInv, FlagInv, [Next]_vars, Live(game'), NEW vote \in Votes,
         CtfVotePasses(vote)
  PROVE  Right(flags', game', dead')
  <1> DEFINE out == {p \in Players : Playing(p) /\ game'.status[p] = "spectator"}
  <1>0. ~ActionDone /\ VotePasses(vote) /\ Settled /\ Sound(game)
    BY SoundState DEF CtfVotePasses, VotePasses, ActionDone, CtfIInv
  <1>1. /\ flags' = IF out = {} THEN flags ELSE Spectate(flags, The(out))
        /\ dead' = dead \ out
    BY DEF CtfVotePasses
  <1>2. CASE vote # "forcespec"
    <2>1. vote \in VoteKinds
      BY ChoicesAssumption
    <2>2. PICK g : /\ game' = RunDelays(g)
                   /\ \/ g = Restart(Reset(game))
                      \/ g = ForceStart(game)
                      \/ g = DeferedInitNew(game)
      BY <1>0, <1>2, <2>1 DEF VotePasses, VoteKinds
    <2>3. Keeps(game, Restart(Reset(game)))
      BY <1>0, ResetSound, RestartSound, KeepsTransitive DEF Keeps
    <2>4. Keeps(game, g)
      BY <1>0, <2>2, <2>3, ForceStartSound, InitNewSound
    <2>5. game'.status = game.status
      BY <2>2, <2>4, RunDelaysSound DEF Keeps, Frame
    <2>6. out = {}
      BY <2>5 DEF Playing
    <2>7. Right(flags, game', dead)
      BY <1>0, <2>5, Before, ElseRight
    <2> HIDE DEF out
    <2> QED
      BY <1>1, <2>6, <2>7
  <1>3. CASE vote = "forcespec"
    <2>1. PICK p \in InGame(game) :
            UpdateQueue(RunDelays(SpecPlayer(game, p)), "join", {p}, "commands")
      BY <1>0, <1>3 DEF VotePasses
    <2>2. p \in Players /\ game.status[p] = "playing"
      BY DEF InGame
    <2> DEFINE s == SpecPlayer(game, p)
    <2>3. Sound(s) /\ s.status = [game.status EXCEPT ![p] = "spectator"]
      BY <1>0, <2>2, SpecPlayerSound
    <2>4. UpdateQueue(RunDelays(s), "join", {p}, "commands")
      BY <2>1
    <2> HIDE DEF s
    <2>5. game'.status = [game.status EXCEPT ![p] = "spectator"]
      BY <2>3, <2>4, RunDelaysSound, UpdateQueueSound DEF Phases, Keeps, Frame
    <2>6. out = {p}
      BY <1>0, <2>2, <2>5 DEF Playing, Sound, Games
    <2> HIDE DEF out
    <2>7. The(out) = p
      BY <2>6, TheInSet
    <2>8. flags' = Spectate(flags, p) /\ dead' = dead \ {p}
      BY <1>1, <2>6, <2>7
    <2> QED
      BY <1>0, <2>2, <2>5, <2>8, SpectateRight
  <1> QED
    BY <1>2, <1>3

LEMMA CtfBootRight ==
  ASSUME CtfIInv, FairInv, FlagInv, [Next]_vars, Live(game'), NEW p \in Players,
         CtfBootLoser(p)
  PROVE  Right(flags', game', dead')
  <1> DEFINE s == SpecPlayer(game, p)
             g == [s EXCEPT !.delay[p] = 0]
  <1>1. ~ActionDone /\ UpdateQueue(g, "join", {p}, "losers")
    BY DEF CtfBootLoser, BootLoser, ActionDone
  <1>2. Sound(s) /\ s.status = [game.status EXCEPT ![p] = "spectator"]
    BY SoundState, SpecPlayerSound DEF CtfIInv
  <1> HIDE DEF s
  <1>3. Keeps(s, g)
    BY <1>2, DelaySound
  <1> HIDE DEF g
  <1>4. game'.status = [game.status EXCEPT ![p] = "spectator"]
    BY <1>1, <1>2, <1>3, UpdateQueueSound DEF Phases, Keeps, Frame
  <1> QED
    BY <1>1, <1>4, SpectateRight DEF CtfBootLoser

LEMMA CtfConnectRight ==
  ASSUME CtfIInv, FairInv, FlagInv, [Next]_vars, Live(game'), NEW p \in Players,
         CtfConnect(p)
  PROVE  Right(flags', game', dead')
  <1> DEFINE g == [game EXCEPT !.status[p] = "spectator"]
  <1>1. /\ ~ActionDone /\ flags.carried[p] = {} /\ flags' = flags /\ dead' = dead
        /\ game' = ClearScores(g, {p}, {p}, TRUE)
    BY DEF CtfConnect, Connect, ActionDone
  <1>2. Sound(g) /\ g.status = [game.status EXCEPT ![p] = "spectator"]
    BY SoundState, StatusSound DEF Statuses, CtfIInv
  <1> HIDE DEF g
  <1>3. game'.status = [game.status EXCEPT ![p] = "spectator"]
    <2>1. Settled /\ TRUE \in BOOLEAN
      BY SoundState DEF CtfIInv
    <2>2. Keeps(g, ClearScores(g, {p}, {p}, TRUE))
      BY <1>2, <2>1, ClearScoresSound
    <2> QED
      BY <1>1, <1>2, <2>2 DEF Keeps, Frame
  <1>4. \A q \in Players \ {p} : game'.status[q] = game.status[q]
    BY <1>3, SoundState DEF CtfIInv, Sound, Games
  <1>5. Right(flags, game', dead)
    <2>1. \A q \in Players : flags.carried[q] # {} => game'.status[q] = game.status[q]
      BY <1>1, <1>4
    <2> QED
      BY <1>1, <2>1, Before, ElseRight
  <1> QED
    BY <1>1, <1>5

LEMMA CtfDisconnectRight ==
  ASSUME CtfIInv, FairInv, FlagInv, [Next]_vars, Live(game'), NEW p \in Players,
         CtfDisconnect(p)
  PROVE  Right(flags', game', dead')
  <1> DEFINE gone == [game EXCEPT !.status[p] = "left"]
             g == IF Playing(p) THEN gone ELSE Erase(game, p)
  <1>1. /\ ~ActionDone /\ flags' = SeeLeave(flags, p) /\ dead' = dead
        /\ UpdateQueue(g, "join", {p}, phase) /\ phase \in Phases \ {"queue"}
    BY DEF CtfDisconnect, Disconnect, ActionDone, Phases
  <1>2. Sound(gone) /\ gone.status = [game.status EXCEPT ![p] = "left"]
    BY SoundState, StatusSound DEF Statuses, CtfIInv
  <1>3. /\ Sound(Erase(game, p))
        /\ Erase(game, p).status = [game.status EXCEPT ![p] = "absent"]
    BY SoundState, EraseSound DEF CtfIInv
  <1>4. Sound(g) /\ g.status = [game.status EXCEPT
                                  ![p] = IF Playing(p) THEN "left" ELSE "absent"]
    BY <1>2, <1>3
  <1> HIDE DEF g
  <1>5. game'.status = [game.status EXCEPT ![p] = IF Playing(p) THEN "left" ELSE "absent"]
    BY <1>1, <1>4, UpdateQueueSound
  <1>6. /\ \A q \in Players \ {p} : game'.status[q] = game.status[q]
        /\ Playing(p) => game'.status[p] = "left"
    BY <1>5, SoundState DEF CtfIInv, Sound, Games
  <1>7. ~Playing(p) => flags.carried[p] = {}
    <2>1. ~Playing(p) => game.status[p] = "spectator"
      BY DEF CtfDisconnect, Disconnect, Spectating
    <2> QED
      BY <1>1, <2>1, Before, CarrierRight
  <1>8. Right(SeeLeave(flags, p), game', dead)
    BY <1>1, <1>6, <1>7, Before, LeaveRight
  <1> QED
    BY <1>1, <1>8

LEMMA CtfTicsRight ==
  ASSUME CtfIInv, FairInv, FlagInv, [Next]_vars, Live(game'), CtfGameTics
  PROVE  Right(flags', game', dead')
  <1>1. ~ActionDone /\ flags' = RunTics(flags, game) /\ dead' = dead
    BY DEF CtfGameTics, GameTics, ActionDone
  <1>2. game'.status = game.status
    BY Unmoved DEF CtfGameTics, CtfIInv
  <1>3. Right(RunTics(flags, game), game, dead)
    BY <1>1, Before, TicsRight
  <1>4. Right(RunTics(flags, game), game', dead)
    BY <1>1, <1>2, <1>3, Before, ElseRight
  <1> QED
    BY <1>1, <1>4

LEMMA CtfRemoveRight ==
  ASSUME CtfIInv, FairInv, FlagInv, [Next]_vars, Live(game'), NEW p \in Players,
         CtfRemoveDisconnected(p)
  PROVE  Right(flags', game', dead')
  <1> DEFINE e == Erase(game, p)
             g == AssertValidPlayerCount(e)
             back == IF Left(game) = {p} THEN "packets" ELSE "cleanup"
  <1>1. /\ ~ActionDone /\ UpdateQueue(g, "join", {p}, back) /\ dead' = dead \ {p}
        /\ flags' = PlayerReborn(CheckFlags(flags, game', p), p)
    BY DEF CtfRemoveDisconnected, RemoveDisconnected, ActionDone
  <1>2. Sound(e) /\ e.status = [game.status EXCEPT ![p] = "absent"]
    BY SoundState, EraseSound DEF CtfIInv
  <1>3. back \in Phases \ {"queue"}
    BY DEF Phases
  <1> HIDE DEF e, back
  <1>4. Sound(g) /\ g.status = e.status
    BY <1>2, SoundState, PlayerCountSound DEF Keeps, Frame, CtfIInv
  <1> HIDE DEF g
  <1>5. game'.status = [game.status EXCEPT ![p] = "absent"]
    BY <1>1, <1>2, <1>3, <1>4, UpdateQueueSound
  <1>6. \A q \in Players \ {p} : game'.status[q] = game.status[q]
    BY <1>5, SoundState DEF CtfIInv, Sound, Games
  <1>7. /\ Right(CheckFlags(flags, game', p), game', dead \ {p})
        /\ PlayerReborn(CheckFlags(flags, game', p), p) = CheckFlags(flags, game', p)
    BY <1>1, <1>6, Before, DropRight DEF CtfIInv
  <1> QED
    BY <1>1, <1>7

\* What leaves the flags alone leaves the players where they are.
LEMMA QuietRight ==
  ASSUME CtfIInv, FairInv, FlagInv, [Next]_vars, Live(game'),
         CtfEndDrops \/ CtfRunFrame \/ CtfInterfere
  PROVE  Right(flags', game', dead')
  <1>1. flags' = flags /\ dead' = dead /\ ~ActionDone
    BY DEF CtfEndDrops, EndDrops, CtfRunFrame, EndVotes, DoCompleted, LosersBooted, RunWorld,
           RunIntermission, EndTicker, CtfInterfere, ReadyRequest, Exit, Console, ActionDone
  <1>2. game'.status = game.status
    BY Unmoved DEF CtfIInv, CtfEndDrops, CtfRunFrame, CtfInterfere
  <1>3. Right(flags, game', dead)
    BY <1>1, <1>2, Before, ElseRight
  <1> QED
    BY <1>1, <1>3

LEMMA CtfServerRight ==
  ASSUME CtfIInv, FairInv, FlagInv, [Next]_vars, Live(game'), CtfServer
  PROVE  Right(flags', game', dead')
  <1>1. CASE CtfDoResetLevel \/ CtfDoNewGame
    BY <1>1, ResetRight DEF CtfDoResetLevel, CtfDoNewGame, CtfIInv, Good
  <1>2. ASSUME NEW p \in Players, RemoveGone(p) PROVE Right(flags', game', dead')
    <2>1. game' = game /\ ~ActionDone /\ p \in Gone
      BY <1>2 DEF RemoveGone, vars, ActionDone
    <2>2. flags.carried[p] = {}
      BY <2>1, Before, CarrierRight DEF Gone
    <2> QED
      BY <2>1, <2>2 DEF Gone
  <1> QED
    BY <1>1, <1>2, CtfTicsRight, CtfBootRight, CtfServeRight, CtfRemoveRight, QuietRight
       DEF CtfServer

LEMMA CtfClientRight ==
  ASSUME CtfIInv, FairInv, FlagInv, [Next]_vars, Live(game'), CtfClients
  PROVE  Right(flags', game', dead')
  BY QuietRight, CtfVoteRight, CtfConnectRight, CtfDisconnectRight, CtfJoinRight,
     CtfSpectateRight, CtfKillRight, RebornRight, TouchFlagRight, TouchSocketRight
     DEF CtfClients

\* The options and the cvars are fixed.
LEMMA RightAfter ==
  ASSUME cvars' = cvars, options' = options, Live(game') => Right(flags', game', dead')
  PROVE  FlagInv'
  <1>1. Live(game)' => Live(game')
    BY DEF Live, Fighting
  <1>2. \A t : Loose(game, t)' <=> Loose(game', t)
    <2>1. FlagTeams' = FlagTeams /\ IsSidesGame' = IsSidesGame
      BY DEF FlagTeams, IsSidesGame, IsTeamGame
    <2>2. DefendingTeam(game)' = DefendingTeam(game')
      BY DEF DefendingTeam
    <2> QED
      BY <2>1, <2>2 DEF Loose
  <1>3. Still(flags', game') => Still(flags, game)'
    BY <1>2 DEF Still
  <1>4. Shown(flags', game') => Shown(flags, game)'
    BY DEF Shown, Seen, TwoTeams
  <1>5. Right(flags', game', dead') => Right(flags, game, dead)'
    BY <1>3, <1>4 DEF Right, Whole
  <1> QED
    BY <1>1, <1>5 DEF FlagInv

LEMMA OptionsStay == ASSUME [CtfNext]_ctfVars PROVE options' = options
  BY DEF ctfVars, CtfNext, CtfServer, CtfGameTics, CtfDoResetLevel, CtfDoNewGame,
         CtfBootLoser, CtfServeQueue, RemoveGone, CtfEndDrops, CtfRemoveDisconnected,
         CtfRunFrame, CtfClients, CtfInterfere, CtfVotePasses, CtfConnect, CtfDisconnect,
         CtfJoinRequest, CtfSpectateRequest, CtfKill, Reborn, TouchFlag, TouchSocket

LEMMA NextFlagInv == ASSUME CtfIInv, FairInv, FlagInv, [CtfNext]_ctfVars PROVE FlagInv'
  <1>1. [Next]_vars /\ options' = options
    BY CtfNextIsMatch, OptionsStay
  <1>2. cvars' = cvars
    <2>1. CASE UNCHANGED vars
      BY <2>1 DEF vars
    <2>2. CASE Next
      BY <2>2, NextStep DEF CtfIInv, GoodStep, Leaves
    <2> QED
      BY <1>1, <2>1, <2>2
  <1>3. Live(game') => Right(flags', game', dead')
    <2>1. CASE UNCHANGED ctfVars
      BY <2>1 DEF ctfVars, vars, FlagInv
    <2> QED
      BY <1>1, <2>1, CtfServerRight, CtfClientRight DEF CtfNext
  <1> QED
    BY <1>1, <1>2, <1>3, RightAfter

LEMMA InitFlagInv == ASSUME CtfInit PROVE FlagInv
  <1>1. flags \in Flags
    BY DEF CtfInit, Flags, FlagStates
  <1>2. /\ \A t \in Teams : /\ flags.state[t] = "home" /\ flags.flagger[t] = NoOne
                            /\ flags.seenState[t] = "home" /\ flags.seenFlagger[t] = NoOne
        /\ \A p \in Players : flags.carried[p] = {}
    BY DEF CtfInit
  <1> QED
    BY <1>1, <1>2 DEF FlagInv, Right, Whole, Still, Shown, Seen

LEMMA FlagInvariance == CtfSpec => [](CtfIInv /\ FlagInv)
  <1>1. CtfInit => CtfIInv /\ FairInv /\ FlagInv
    BY CtfInitGood, InitFair, InitFlagInv DEF CtfInit
  <1>2. CtfIInv /\ FairInv /\ FlagInv /\ [CtfNext]_ctfVars => (CtfIInv /\ FairInv /\ FlagInv)'
    BY CtfNextGood, CtfNextIsMatch, NextFairInv, NextFlagInv DEF CtfIInv
  <1> QED
    BY <1>1, <1>2, PTL DEF CtfSpec

LEMMA FightRight == ASSUME FlagInv, Fighting(game) PROVE Right(flags, game, dead)
  BY DEF FlagInv, Live

-----------------------------------------------------------------------------
(* The theorems.                                                           *)

LEMMA CtfInvariance == CtfSpec => []CtfIInv
  BY CtfInitGood, CtfNextGood, PTL DEF CtfSpec

LEMMA NoTwo ==
  ASSUME NEW S, \A t, u \in S : t = u PROVE Cardinality(S) <= 1
  <1>1. CASE S = {}
    BY <1>1, FS_EmptySet
  <1>2. ASSUME NEW t \in S PROVE Cardinality(S) <= 1
    <2>1. S = {t}
      BY <1>2
    <2>2. Cardinality({t}) = 1
      BY FS_Singleton
    <2> QED
      BY <2>1, <2>2
  <1> QED
    BY <1>1, <1>2

\* The flags keep their type: no timeout runs below zero, and whatever a client
\* is told, it shows every flag in some state with some player or nobody.
THEOREM CtfTypeCorrect == CtfSpec => []CtfTypeOK
  <1>1. CtfIInv => CtfTypeOK
    BY DEF CtfIInv, CtfTypeOK, Good, OptionsOK
  <1> QED
    BY <1>1, CtfInvariance, PTL

\* Nobody ever carries two enemy flags, with any number of teams
\* (SV_FlagGrab, SV_SocketTouch).
THEOREM NoTwoEnemyFlags == CtfSpec => []OneEnemyFlag
  <1>1. CtfIInv => OneEnemyFlag
    BY NoTwo DEF CtfIInv, Good, OneEnemy, OneEnemyFlag
  <1> QED
    BY <1>1, CtfInvariance, PTL

\* While a round is fought every flag is where it says: carried by one player who
\* is in the game and alive, or by nobody.  No death, departure or change of
\* sides in whatever state ever loses one (CTF_CheckFlags, SV_FlagDrop,
\* TeamInfo_ResetScores).
THEOREM FlagsStaySomewhere == CtfSpec => []FlagsAreSomewhere
  <1>1. CtfIInv /\ FlagInv => FlagsAreSomewhere
    <2>1. SUFFICES ASSUME CtfIInv, FlagInv, Fighting(game), NEW t \in Teams
                   PROVE  LET carriers == {p \in Players : t \in flags.carried[p]} IN
                          IF flags.state[t] = "carried"
                          THEN /\ carriers = {flags.flagger[t]}
                               /\ game.status[flags.flagger[t]] \in {"playing", "left"}
                               /\ flags.flagger[t] \notin dead
                          ELSE carriers = {} /\ flags.flagger[t] = NoOne
      BY DEF FlagsAreSomewhere
    <2> QED
      BY <2>1, FightRight DEF Right, Whole
  <1> QED
    BY <1>1, FlagInvariance, PTL

\* Rounds on sides are fought for the defenders' flag alone, though the sides
\* change from round to round (G_CanPickupObjective, getDefendingTeam,
\* G_DoResetLevel).
THEOREM SidesHold == CtfSpec => []OnlyDefendersFlagMoves
  <1>1. CtfIInv /\ FlagInv => OnlyDefendersFlagMoves
    BY FightRight DEF OnlyDefendersFlagMoves, Right, Still, Loose
  <1> QED
    BY <1>1, FlagInvariance, PTL

\* What a client shows of the flags is what is, between the frames of a fight of
\* two teams: the refresh after a capture, which leaves the flags' states out,
\* comes when all of them are at home (SV_FlagScore, CL_CTFRefresh).
THEOREM PairSees == CtfSpec => []PairSeesFlags
  <1>1. CtfIInv /\ FlagInv => PairSeesFlags
    <2>1. SUFFICES ASSUME CtfIInv, FlagInv, TwoTeams, Fighting(game), Left(game) = {}
                   PROVE  flags.seenState = flags.state /\ flags.seenFlagger = flags.flagger
      BY DEF PairSeesFlags, TwoTeams
    <2>2. Right(flags, game, dead)
      BY <2>1, FightRight
    <2>3. ASSUME NEW t \in Teams
          PROVE  flags.seenState[t] = flags.state[t] /\ flags.seenFlagger[t] = flags.flagger[t]
      <3>1. flags.state[t] = "carried" => game.status[flags.flagger[t]] # "left"
        BY <2>1, <2>2 DEF Right, Whole, Left
      <3> QED
        BY <2>1, <2>2, <3>1 DEF Right, Shown, Seen
    <2> QED
      BY <2>2, <2>3 DEF Right, Flags
  <1> QED
    BY <1>1, FlagInvariance, PTL

=============================================================================
