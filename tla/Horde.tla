-------------------------------- MODULE Horde ---------------------------------
(***************************************************************************)
(* The director of the horde game mode (common/p_horde.cpp, p_hordespawn,  *)
(* p_hordedefine): it spawns monsters until the players have killed enough *)
(* of a wave, spawns the bosses of the wave, and starts the next wave when *)
(* they are dead.                                                          *)
(*                                                                         *)
(* A function of the source is an operator: it takes the director and the  *)
(* actors it knows as one record h and returns the record.  Time counts    *)
(* seconds, the interval the director runs at; places, items, powerups and *)
(* the extra lives of a new wave are left out, and sv_skill is hard.       *)
(***************************************************************************)
EXTENDS Integers, Sequences, FiniteSets, Functions

CONSTANTS
    MaxActors,      \* bound on the monsters and corpses in the level
    Types,          \* types of monsters
    Health,         \* the spawn health of each type
    Defines,        \* WAVE_DEFINES, the easiest first
    Waves,          \* g_horde_waves
    HeadStart,      \* seconds before the first monsters of a wave
    MaxWait,        \* longest time between two spawns, in seconds
    BossRoom,       \* bound: actors that normal monsters leave to the bosses
    MaxRaises,      \* bound on the corpses raised
    MaxCommands,    \* bound on the administrator's commands
    NoType, NoActor

Actors == 1 .. MaxActors

\* monConfig_t and hordeDefine_t; maxTotal and goal are the products that
\* maxTotalHealth and goalHealth compute.
Configs == [type : Types, min : Int, max : Int, limit : Int]
WaveDefines == [monsters : SUBSET Configs, bosses : SUBSET Configs,
                minGroup : Nat, maxGroup : Nat, minBoss : Nat, maxBoss : Nat,
                maxTotal : Nat, goal : Nat]

ASSUME HordeAssumption ==
    /\ {MaxActors, Waves, HeadStart, BossRoom, MaxRaises, MaxCommands} \subseteq Nat
    /\ MaxWait \in Nat \ {0}
    /\ Health \in [Types -> Nat \ {0}]
    /\ Defines \in Seq(WaveDefines) /\ Len(Defines) > 0
    /\ \A i \in DOMAIN Defines : Defines[i].monsters # {} /\ Defines[i].bosses # {}
    /\ NoType \notin Types /\ NoActor \notin Actors

VARIABLES
    horde,      \* HordeState and the actors with their oflags
    raises,     \* corpses raised so far
    commands    \* commands entered so far

vars == <<horde, raises, commands>>

States == {"starting", "pressure", "relax", "wantboss"}

\* hordeRecipe_t
Recipe(type, count, limit, totalCount) ==
    [type |-> type, count |-> count, limit |-> limit, totalCount |-> totalCount]
NoRecipe == Recipe(NoType, 0, 0, 0)
IsValid(recipe) == recipe.type # NoType /\ recipe.count > 0

NoMobj == [type |-> NoType, status |-> "none", oflags |-> {}]

Free(h) == {a \in Actors : h.mobj[a].status = "none"}
Living(h) == {a \in Actors : h.mobj[a].status = "alive"}
InPool(h) == {a \in Actors : "healthpool" \in h.mobj[a].oflags}

\* A bug to catch: a boss counts until its corpse is gone.
LivingBossesAndDead(h) == h.bosses

\* countLivingBosses
LivingBosses(h) == h.bosses \cap Living(h)

Define(h) == Defines[h.define]
AliveHealth(h) == h.spawnedHealth - h.killedHealth

Larger(m, n) == IF m >= n THEN m ELSE n

-----------------------------------------------------------------------------
(* The health pool and the corpses.                                        *)

\* A bug to catch: a corpse stays in the pool and is removed again with its actor.
RemoveHealthPoolTwice(h, a) ==
    IF a \notin InPool(h) THEN h
    ELSE [h EXCEPT !.monsterCounts[h.mobj[a].type] =
                       IF "bosspool" \in h.mobj[a].oflags THEN @ ELSE @ - 1,
                   !.killedHealth = @ + Health[h.mobj[a].type]]

\* "We only get one try."  Counts of bosses are not kept here: m_bossCounts is
\* empty whenever the recipe of the bosses is chosen.
RemoveHealthPool(h, a) ==
    IF a \notin InPool(h) THEN h
    ELSE [h EXCEPT !.mobj[a].oflags = @ \ {"healthpool"},
                   !.monsterCounts[h.mobj[a].type] =
                       IF "bosspool" \in h.mobj[a].oflags THEN @ ELSE @ - 1,
                   !.killedHealth = @ + Health[h.mobj[a].type]]

\* P_KillMobj
KillMobj(h, a) ==
    LET removed == RemoveHealthPool(h, a) IN
    [removed EXCEPT !.mobj[a].status = "corpse", !.corpses = Append(@, a)]

\* Every pointer to a destroyed actor becomes null.
Destroy(h, a) ==
    LET removed == RemoveHealthPool(h, a) IN
    [removed EXCEPT !.mobj[a] = NoMobj,
                    !.bosses = @ \ {a},
                    !.corpses = [i \in DOMAIN @ |-> IF @[i] = a THEN NoActor ELSE @[i]]]

\* One corpse of an earlier wave in each second.
RunCorpses(h) ==
    IF h.oldCorpses = 0 THEN h
    ELSE LET front == Head(h.corpses)
             kept  == IF front # NoActor /\ front \notin Living(h)
                      THEN Destroy(h, front) ELSE h
         IN  [kept EXCEPT !.corpses = Tail(@), !.oldCorpses = @ - 1]

-----------------------------------------------------------------------------
(* Waves.                                                                  *)

\* P_HordePickDefine: the waves share the definitions out in equal sections; in
\* endless mode the first wave is from the easier half.
PickDefine(wave) ==
    LET n == Len(Defines) IN
    {d \in 1 .. n :
        IF Waves > 0
        THEN d * Waves > (wave - 1) * n /\ (d - 1) * Waves < wave * n
        ELSE wave <= 1 => 2 * (d - 1) < n}

\* What nextWave, forceWave and reset set alike.
StartWave(h, wave, define) ==
    [h EXCEPT !.state = "starting", !.wave = wave, !.define = define,
              !.headStart = HeadStart, !.waveStartHealth = h.killedHealth,
              !.bosses = {}, !.bossesSize = 0, !.bossRecipe = NoRecipe,
              !.oldCorpses = Len(h.corpses)]

\* After the last wave all monsters explode and the game ends.
Massacre(h) ==
    LET kill[rest \in SUBSET Actors] ==
            IF rest = {} THEN h
            ELSE LET a == CHOOSE b \in rest : \A c \in rest : b <= c
                 IN  KillMobj(kill[rest \ {a}], a)
    IN  kill[InPool(h) \cap Living(h)]

NextWave(h) ==
    IF Waves > 0 /\ h.wave >= Waves
    THEN {[Massacre(h) EXCEPT !.playing = 0]}
    ELSE {StartWave(h, h.wave + 1, define) : define \in PickDefine(h.wave + 1)}

\* The level is loaded again or another one is, which destroys every actor, and in
\* its first tic the director is reset.
Reset(define) ==
    [state |-> "starting", wave |-> 1, define |-> define,
     spawnedHealth |-> 0, killedHealth |-> 0, waveStartHealth |-> 0,
     bosses |-> {}, bossesSize |-> 0, bossRecipe |-> NoRecipe,
     wait |-> 0, headStart |-> HeadStart,
     monsterCounts |-> [t \in Types |-> 0],
     mobj |-> [a \in Actors |-> NoMobj],
     corpses |-> <<>>, oldCorpses |-> 0, playing |-> 1]

\* The goal is reached, and the bosses have not been spawned or are too few.
WantsBoss(h) ==
    /\ h.killedHealth > Define(h).goal + h.waveStartHealth
    /\ h.bossesSize = 0 \/ Cardinality(LivingBosses(h)) < h.bossRecipe.limit

\* What has been spawned is compared with the first spawn's count.
BossesSpawned(h) == IsValid(h.bossRecipe) /\ h.bossesSize >= h.bossRecipe.count

\* changeState
ChangeState(h) ==
    LET next == CASE h.state = "starting" ->
                        IF h.headStart = 0 THEN "pressure" ELSE "starting"
                  [] h.state \in {"pressure", "relax"} ->
                        IF WantsBoss(h) THEN "wantboss" ELSE "pressure"
                  [] h.state = "wantboss" ->
                        IF BossesSpawned(h) THEN "pressure" ELSE "wantboss"
    IN  [h EXCEPT !.state = next]

-----------------------------------------------------------------------------
(* Spawns.                                                                 *)

Counts(lower, upper) == IF upper <= lower THEN {upper} ELSE lower .. upper

\* The recipes a configuration may give (the second half of P_HordeSpawnRecipe).
\* A limit caps the monsters of one spawn, the total is that of the whole wave.
RecipesOf(config, minHealth, maxHealth) ==
    LET most  == IF config.max >= 0 THEN config.max ELSE maxHealth
        least == IF config.min >= 0 THEN config.min ELSE minHealth
        one   == Health[config.type]
        limit == IF config.limit > 0 THEN config.limit ELSE 0
        capped == IF limit > 0 /\ limit * one < most THEN limit * one ELSE most
        lower == Larger(least \div one, 1)
    IN  {Recipe(config.type, count, limit, Larger(total, count)) :
            count \in Counts(lower, Larger(capped \div one, 1)),
            total \in Counts(lower, Larger(most \div one, 1))}

\* A monster is drawn five times at most, until it is one with room for more.
WithinLimit(h, config) ==
    config.limit <= 0 \/ h.monsterCounts[config.type] < config.limit

MonsterRecipes(h) ==
    UNION {RecipesOf(c, Define(h).minGroup, Define(h).maxGroup) :
              c \in {c \in Define(h).monsters : WithinLimit(h, c)}}

MayFindNone(h) == \E c \in Define(h).monsters : ~WithinLimit(h, c)

BossRecipes(h) ==
    UNION {RecipesOf(c, Define(h).minBoss, Define(h).maxBoss) : c \in Define(h).bosses}

\* A bug to catch: all that are missing are spawned, whatever the limit.
MissingBossesAtOnce(h) ==
    [h.bossRecipe EXCEPT !.count = Larger(h.bossRecipe.totalCount - h.bossesSize, 0)]

\* The recipe for the bosses that are still missing: not more at a time than the
\* limit.
MissingBosses(h) ==
    LET recipe  == h.bossRecipe
        missing == recipe.totalCount - h.bossesSize
        room    == recipe.limit - Cardinality(LivingBosses(h))
    IN  [recipe EXCEPT !.count =
            IF recipe.limit = 0 THEN missing
            ELSE IF missing <= 0 THEN 0
            ELSE IF room <= 0 THEN 0 ELSE IF room < missing THEN room ELSE missing]

\* Somewhere to put n more actors.
Places(h, n) == CHOOSE s \in SUBSET Free(h) :
                    Cardinality(s) = n /\ \A a \in s, b \in Free(h) \ s : a < b

\* P_HordeSpawn and ActivateMonsters: what has been placed joins the pool.
Spawn(h, recipe, n, isBoss) ==
    LET places == Places(h, n)
        flags  == IF isBoss THEN {"bosspool", "healthpool"} ELSE {"healthpool"}
    IN  [h EXCEPT !.mobj = [a \in Actors |->
                       IF a \in places
                       THEN [type |-> recipe.type, status |-> "alive", oflags |-> flags]
                       ELSE @[a]],
                  !.spawnedHealth = @ + n * Health[recipe.type],
                  !.monsterCounts[recipe.type] = IF isBoss THEN @ ELSE @ + n]

SpawnMonsters(h, recipe, n) == Spawn(h, recipe, n, FALSE)

SpawnBosses(h, recipe, n) ==
    [Spawn(h, recipe, n, TRUE) EXCEPT !.bosses = @ \cup Places(h, n),
                                      !.bossesSize = @ + n]

-----------------------------------------------------------------------------
(* The director, in a level that is being played and has a player alive in *)
(* it: it changes its state in every tic and does the rest once a second.  *)

Tic ==
    /\ horde.playing = 1
    /\ horde' = ChangeState(horde)
    /\ UNCHANGED <<raises, commands>>

\* A second has passed; the rest of tick() is one of the actions below.
Ticked ==
    [RunCorpses(ChangeState(horde)) EXCEPT !.headStart = IF @ > 0 THEN @ - 1 ELSE 0]

\* "Are the bosses taken care of?"
WaveBeaten(h) ==
    /\ h.state # "wantboss"
    /\ IsValid(h.bossRecipe)
    /\ LivingBosses(h) = {}
    /\ h.bossRecipe.limit <= 0

BeatWave ==
    /\ horde.playing = 1
    /\ WaveBeaten(Ticked)
    /\ horde' \in NextWave(Ticked)
    /\ UNCHANGED <<raises, commands>>

Due(h) == h.wait = 0 /\ AliveHealth(h) <= Define(h).maxTotal

\* No spawn is due yet.
Wait ==
    /\ horde.playing = 1
    /\ ~WaveBeaten(Ticked) /\ ~Due(Ticked)
    /\ horde' = [Ticked EXCEPT !.wait = IF @ > 0 THEN @ - 1 ELSE 0]
    /\ UNCHANGED <<raises, commands>>

\* A spawn is due: it is decided first when the next one is.
SpawnDue(h) ==
    /\ horde.playing = 1
    /\ ~WaveBeaten(Ticked) /\ Due(Ticked)
    /\ \E offset \in 1 .. MaxWait : h = [Ticked EXCEPT !.wait = offset - 1]
    /\ UNCHANGED <<raises, commands>>

\* Nothing is to be spawned, or no recipe is found for it.
SpawnNothing ==
    /\ SpawnDue(horde')
    /\ \/ Ticked.state \in {"starting", "relax"}
       \/ Ticked.state = "wantboss" /\ BossesSpawned(Ticked)
       \/ Ticked.state = "pressure" /\ MayFindNone(Ticked)

\* How many of a recipe may find a place: some may be blocked.
Placeable(recipe, room) == {n \in 0 .. recipe.count : n <= room}

Pressure ==
    /\ Ticked.state = "pressure"
    /\ \E h \in {[Ticked EXCEPT !.wait = offset - 1] : offset \in 1 .. MaxWait},
          recipe \in MonsterRecipes(Ticked) :
          /\ SpawnDue(h)
          /\ \E n \in Placeable(recipe, Cardinality(Free(h)) - BossRoom) :
                horde' = SpawnMonsters(h, recipe, n)

\* The first bosses of a wave are of a recipe that is kept for the others.
FirstBosses(h) ==
    \E recipe \in BossRecipes(h) :
       \E n \in Placeable(recipe, Cardinality(Free(h))) :
          horde' = SpawnBosses([h EXCEPT !.bossRecipe = recipe], recipe, n)

\* "Adjust the count based on how many bosses we've spawned and current boss
\* limit."
MoreBosses(h) ==
    LET recipe  == MissingBosses(h)
        limited == IF h.bossRecipe.totalCount <= h.bossesSize
                   THEN [h EXCEPT !.bossRecipe.limit = 0] ELSE h
    IN  \E n \in Placeable(recipe, Cardinality(Free(h))) :
           horde' = SpawnBosses(limited, recipe, n)

Bosses ==
    /\ Ticked.state = "wantboss" /\ ~BossesSpawned(Ticked)
    /\ \E h \in {[Ticked EXCEPT !.wait = offset - 1] : offset \in 1 .. MaxWait} :
          /\ SpawnDue(h)
          /\ IF IsValid(h.bossRecipe) THEN MoreBosses(h) ELSE FirstBosses(h)

Second == BeatWave \/ Wait \/ SpawnNothing \/ Pressure \/ Bosses

-----------------------------------------------------------------------------
(* The players, the monsters and the administrator.                        *)

Shoot(a) ==
    /\ a \in Living(horde)
    /\ horde' = KillMobj(horde, a)
    /\ UNCHANGED <<raises, commands>>

\* P_HealCorpse: an arch-vile raises a corpse, which does not join the pool again.
Raise(a) ==
    /\ raises < MaxRaises
    /\ horde.mobj[a].status = "corpse"
    /\ "bosspool" \notin horde.mobj[a].oflags
    /\ horde' = [horde EXCEPT !.mobj[a].status = "alive"]
    /\ raises' = raises + 1
    /\ UNCHANGED commands

\* hordenextwave, hordewave and hordeboss.
Command ==
    /\ commands < MaxCommands
    /\ commands' = commands + 1
    /\ \/ horde' \in NextWave(horde)
       \/ \E define \in 1 .. Len(Defines) : horde' = StartWave(horde, horde.wave, define)
       \/ horde.bossesSize = 0 /\ horde' = [horde EXCEPT !.state = "wantboss"]
    /\ UNCHANGED raises

\* The countdown at the end of the game is over.
NewLevel ==
    /\ horde.playing = 0
    /\ horde' \in {Reset(define) : define \in PickDefine(1)}
    /\ UNCHANGED <<raises, commands>>

Init ==
    /\ horde \in {Reset(define) : define \in PickDefine(1)}
    /\ raises = 0
    /\ commands = 0

Next ==
    \/ Tic
    \/ Second
    \/ \E a \in Actors : Shoot(a) \/ Raise(a)
    \/ Command
    \/ NewLevel

Spec == Init /\ [][Next]_vars

\* Time passes with somebody alive, the players shoot what is there and the bosses
\* among it, and a spawn that is tried again and again finds a place at last.
Fairness ==
    /\ WF_vars(Second)
    /\ WF_vars(\E a \in Actors : Shoot(a))
    /\ WF_vars(\E a \in horde.bosses : Shoot(a))
    /\ SF_vars(Pressure /\ Living(horde') # Living(horde))
    /\ SF_vars(Bosses /\ horde'.bossesSize > horde.bossesSize)

FairSpec == Spec /\ Fairness

-----------------------------------------------------------------------------
(* Properties.                                                             *)

\* The director's books agree with the level, however monsters come to their end
\* and whatever is raised or collected afterwards: the health of what lives in the
\* pool, how many monsters of a type do, and the bosses the wave waits for, unless a
\* command has gone on without them (P_AddHealthPool, P_RemoveHealthPool,
\* SpawnMonster, m_bosses).
BooksAreExact ==
    /\ AliveHealth(horde) =
          SumFunctionOnSet([a \in Actors |-> IF a \in InPool(horde)
                                             THEN Health[horde.mobj[a].type] ELSE 0],
                           Actors)
    /\ InPool(horde) \subseteq Living(horde)
    /\ \A t \in Types :
          horde.monsterCounts[t] =
              Cardinality({a \in InPool(horde) :
                              /\ horde.mobj[a].type = t
                              /\ "bosspool" \notin horde.mobj[a].oflags})
    /\ commands = 0 =>
          \A a \in Living(horde) :
              "bosspool" \in horde.mobj[a].oflags => a \in horde.bosses

\* A limit on bosses holds through partial and repeated spawns (m_bossRecipe).
BossLimitHolds ==
    horde.bossRecipe.limit > 0 =>
        Cardinality(LivingBosses(horde)) <= horde.bossRecipe.limit

\* Wave after wave is beaten until the game ends, when no command interferes and
\* the bosses of no wave have a limit.  With a limit no wave ends: m_bossRecipe.limit
\* would have to become 0, but no boss is spawned after the first spawn's count, and
\* there the limit is never looked at again (changeState, tick).
WavesEnd ==
    horde.playing = 1 ~>
        horde.playing = 0 \/ commands > 0 \/ horde.bossRecipe.limit > 0

=============================================================================
