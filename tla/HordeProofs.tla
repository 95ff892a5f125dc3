----------------------------- MODULE HordeProofs ------------------------------
(***************************************************************************)
(* The director's books of Horde.tla are exact and a limit on bosses holds *)
(* for all values of the constants.                                        *)
(*                                                                         *)
(* Each function of the director, an operator from a record h to another,  *)
(* has a lemma that it preserves DirectorOK(h): the sums by the lemmas of  *)
(* SumProofs, the massacre, a recursive function, by a smallest            *)
(* counterexample as there.  The steps combine them.                       *)
(***************************************************************************)
EXTENDS Horde, SumProofs, TLAPS

\* The actors, the recipes and the director are of these types.
Mobjs == [type : Types \cup {NoType}, status : {"none", "alive", "corpse"},
          oflags : SUBSET {"bosspool", "healthpool"}]
Recipes == [type : Types \cup {NoType}, count : Int, limit : Nat, totalCount : Int]
Directors ==
    [state : States, wave : Int, define : DOMAIN Defines,
     spawnedHealth : Int, killedHealth : Int, waveStartHealth : Int,
     bosses : SUBSET Actors, bossesSize : Int, bossRecipe : Recipes,
     wait : Int, headStart : Int, monsterCounts : [Types -> Int],
     mobj : [Actors -> Mobjs], corpses : Seq(Actors \cup {NoActor}),
     oldCorpses : Nat, playing : {0, 1}]

\* What each actor adds to the health of the pool.
PoolHealth(h) ==
    [a \in Actors |-> IF a \in InPool(h) THEN Health[h.mobj[a].type] ELSE 0]

\* The monsters of type t that m_monsterCounts counts: the bosses are not among
\* them.
Counted(h, t) ==
    {a \in InPool(h) : h.mobj[a].type = t /\ "bosspool" \notin h.mobj[a].oflags}

\* The books: the pool's health is what its actors add up to, who is in the pool
\* is alive, and the monsters of every type are counted.
Books(h) ==
    /\ h.spawnedHealth - h.killedHealth = SumFunctionOnSet(PoolHealth(h), Actors)
    /\ \A a \in InPool(h) : h.mobj[a].status = "alive" /\ h.mobj[a].type \in Types
    /\ \A t \in Types : h.monsterCounts[t] = Cardinality(Counted(h, t))

\* The corpses of earlier waves are the first of the corpses that are known.
Corpses(h) == h.oldCorpses <= Len(h.corpses)

\* The bosses the wave waits for: a destroyed actor is none of them, there are
\* none before there is a recipe, and the living ones keep its limit.
BossBooks(h) ==
    /\ \A a \in Actors : h.mobj[a].status = "none" => h.mobj[a].oflags = {}
    /\ \A a \in h.bosses : "bosspool" \in h.mobj[a].oflags
    /\ ~IsValid(h.bossRecipe) => h.bosses = {}
    /\ h.bossRecipe.limit > 0 => Cardinality(LivingBosses(h)) <= h.bossRecipe.limit

\* No living boss is forgotten by the director.
AllBosses(h) ==
    \A a \in Actors :
        h.mobj[a].status = "alive" /\ "bosspool" \in h.mobj[a].oflags => a \in h.bosses

\* What every function of the director preserves.
DirectorOK(h) == h \in Directors /\ Books(h) /\ Corpses(h) /\ BossBooks(h)

-----------------------------------------------------------------------------
\* There are finitely many actors.
LEMMA ActorsFinite == IsFiniteSet(Actors) /\ \A S \in SUBSET Actors : IsFiniteSet(S)
<1>1. IsFiniteSet(Actors)
    BY HordeAssumption, FS_Interval DEF Actors
<1> QED BY <1>1, FS_Subset

\* What an actor adds to the pool is an integer, so that the sums over the
\* actors can be split.
LEMMA PoolHealthInt ==
    ASSUME NEW h, Books(h)
    PROVE  \A a \in Actors : PoolHealth(h)[a] \in Int
BY HordeAssumption DEF Books, PoolHealth

\* The books depend on the actors, the counts and the two totals only.
LEMMA BooksSame ==
    ASSUME NEW h, NEW k, Books(h),
           k.mobj = h.mobj, k.monsterCounts = h.monsterCounts,
           k.spawnedHealth = h.spawnedHealth, k.killedHealth = h.killedHealth
    PROVE  Books(k)
<1>1. InPool(k) = InPool(h)
    BY DEF InPool
<1>2. PoolHealth(k) = PoolHealth(h)
    BY <1>1 DEF PoolHealth
<1>3. \A t \in Types : Counted(k, t) = Counted(h, t)
    BY <1>1 DEF Counted
<1> QED BY <1>1, <1>2, <1>3 DEF Books

\* The bosses' part depends on the actors, the bosses and the recipe only.
LEMMA BossBooksSame ==
    ASSUME NEW h, NEW k, BossBooks(h),
           k.mobj = h.mobj, k.bosses = h.bosses, k.bossRecipe = h.bossRecipe
    PROVE  BossBooks(k)
BY DEF BossBooks, LivingBosses, Living

\* Only the oflag of the pool may differ, and only at a.
Alike(h, k, a) ==
    /\ \A b \in Actors : /\ k.mobj[b].status = h.mobj[b].status
                         /\ k.mobj[b].type = h.mobj[b].type
                         /\ "bosspool" \in k.mobj[b].oflags <=> "bosspool" \in h.mobj[b].oflags
    /\ \A b \in Actors \ {a} : k.mobj[b] = h.mobj[b]
    /\ k.corpses = h.corpses /\ k.oldCorpses = h.oldCorpses
    /\ k.bosses = h.bosses /\ k.bossRecipe = h.bossRecipe

\* P_RemoveHealthPool takes an actor out of the pool and keeps the books: the
\* total and the count of his type step down with him.
LEMMA RemoveBooks ==
    ASSUME NEW h, h \in Directors, Books(h), NEW a \in InPool(h)
    PROVE  /\ RemoveHealthPool(h, a) \in Directors
           /\ Books(RemoveHealthPool(h, a))
           /\ Alike(h, RemoveHealthPool(h, a), a)
           /\ InPool(RemoveHealthPool(h, a)) = InPool(h) \ {a}
<1> DEFINE m == h.mobj[a]
           k == RemoveHealthPool(h, a)
<1>1. a \in Actors /\ m \in Mobjs /\ m.type \in Types /\ Health[m.type] \in Nat
    BY HordeAssumption DEF InPool, Books, Directors
<1>2. /\ k \in Directors
      /\ k.mobj = [h.mobj EXCEPT ![a].oflags = @ \ {"healthpool"}]
      /\ k.killedHealth = h.killedHealth + Health[m.type]
      /\ k.spawnedHealth = h.spawnedHealth
      /\ k.monsterCounts = [h.monsterCounts EXCEPT ![m.type] =
                                 IF "bosspool" \in m.oflags THEN @ ELSE @ - 1]
      /\ k.corpses = h.corpses /\ k.oldCorpses = h.oldCorpses
      /\ k.bosses = h.bosses /\ k.bossRecipe = h.bossRecipe
    <2> DEFINE mobj == [h.mobj EXCEPT ![a].oflags = @ \ {"healthpool"}]
               counts == [h.monsterCounts EXCEPT ![m.type] =
                              IF "bosspool" \in m.oflags THEN @ ELSE @ - 1]
               killed == h.killedHealth + Health[m.type]
    <2>1. k = [h EXCEPT !.mobj = mobj, !.monsterCounts = counts, !.killedHealth = killed]
        BY DEF RemoveHealthPool
    <2>2. mobj \in [Actors -> Mobjs]
        BY <1>1 DEF Directors, Mobjs
    <2>3. counts \in [Types -> Int]
        <3>1. h.monsterCounts \in [Types -> Int]
            BY DEF Directors
        <3> HIDE DEF m
        <3> QED BY <1>1, <3>1
    <2>4. killed \in Int
        BY <1>1 DEF Directors
    <2> HIDE DEF mobj, counts, killed, k
    <2>5. /\ k \in Directors
          /\ k.mobj = mobj /\ k.killedHealth = killed /\ k.spawnedHealth = h.spawnedHealth
          /\ k.monsterCounts = counts
          /\ k.corpses = h.corpses /\ k.oldCorpses = h.oldCorpses
          /\ k.bosses = h.bosses /\ k.bossRecipe = h.bossRecipe
        BY <2>1, <2>2, <2>3, <2>4 DEF Directors
    <2> QED BY <2>5 DEF mobj, counts, killed
<1> HIDE DEF k, m
<1>3. /\ \A b \in Actors \ {a} : k.mobj[b] = h.mobj[b]
      /\ k.mobj[a] = [m EXCEPT !.oflags = @ \ {"healthpool"}]
    BY <1>1, <1>2 DEF Directors, m
<1>4. k.mobj[a].type = m.type /\ k.mobj[a].status = m.status
      /\ k.mobj[a].oflags = m.oflags \ {"healthpool"}
    BY <1>1, <1>3 DEF Mobjs
<1>5. Alike(h, k, a)
    BY <1>1, <1>2, <1>3, <1>4 DEF Alike, m
<1>6. InPool(k) = InPool(h) \ {a}
    BY <1>1, <1>3, <1>4 DEF InPool
<1> DEFINE f == PoolHealth(h)
           g == PoolHealth(k)
<1>7. /\ \A b \in Actors : f[b] \in Int
      /\ f[a] = Health[m.type] /\ g[a] = 0
      /\ \A b \in Actors \ {a} : g[b] = f[b]
    BY <1>1, <1>3, <1>6, PoolHealthInt DEF PoolHealth, m
<1>8. SumFunctionOnSet(g, Actors) = SumFunctionOnSet(f, Actors) - Health[m.type]
    <2>1. \A b \in Actors : g[b] \in Int
        BY <1>7
    <2>2. SumFunctionOnSet(g, Actors) = SumFunctionOnSet(f, Actors) - f[a] + g[a]
        <3> HIDE DEF f, g
        <3> QED BY <1>1, <1>7, <2>1, ActorsFinite, SumChanges
    <2>3. SumFunctionOnSet(f, Actors) \in Int
        <3> HIDE DEF f
        <3> QED BY <1>7, ActorsFinite, SumIsInt
    <2> HIDE DEF f, g
    <2> QED BY <2>2, <2>3, <1>1, <1>7
<1>9. k.spawnedHealth - k.killedHealth = SumFunctionOnSet(g, Actors)
    <2>1. h.spawnedHealth - h.killedHealth = SumFunctionOnSet(f, Actors)
        BY DEF Books
    <2>2. h.spawnedHealth \in Int /\ h.killedHealth \in Int
        BY DEF Directors
    <2> HIDE DEF f, g
    <2> QED BY <1>1, <1>2, <1>8, <2>1, <2>2
<1>10. ASSUME NEW t \in Types
       PROVE  k.monsterCounts[t] = Cardinality(Counted(k, t))
    <2>1. h.monsterCounts[t] = Cardinality(Counted(h, t)) /\ h.monsterCounts[t] \in Int
        BY DEF Books, Directors
    <2>2. CASE t = m.type /\ "bosspool" \notin m.oflags
        <3>1. Counted(k, t) = Counted(h, t) \ {a} /\ a \in Counted(h, t)
            BY <1>1, <1>3, <1>4, <1>6, <2>2 DEF Counted, InPool, m
        <3>2. IsFiniteSet(Counted(h, t))
            BY ActorsFinite DEF Counted, InPool
        <3>3. Cardinality(Counted(h, t) \ {a}) = Cardinality(Counted(h, t)) - 1
            BY <3>1, <3>2, FS_RemoveElement
        <3>4. k.monsterCounts[t] = h.monsterCounts[t] - 1
            BY <1>2, <2>2 DEF Directors
        <3> QED BY <3>1, <3>3, <3>4, <2>1
    <2>3. CASE ~(t = m.type /\ "bosspool" \notin m.oflags)
        <3>1. Counted(k, t) = Counted(h, t)
            BY <1>1, <1>3, <1>4, <1>6, <2>3 DEF Counted, InPool, m
        <3>2. k.monsterCounts[t] = h.monsterCounts[t]
            BY <1>2, <2>3 DEF Directors
        <3> QED BY <3>1, <3>2, <2>1
    <2> QED BY <2>2, <2>3
<1>11. \A b \in InPool(k) : k.mobj[b].status = "alive" /\ k.mobj[b].type \in Types
    BY <1>3, <1>6 DEF Books, InPool
<1>12. Books(k)
    BY <1>9, <1>10, <1>11 DEF Books
<1> QED BY <1>2, <1>5, <1>6, <1>12 DEF k

\* A change of an actor outside the pool that leaves him outside does not touch
\* the books.
LEMMA BooksOutside ==
    ASSUME NEW h, h \in Directors, Books(h), NEW a \in Actors, a \notin InPool(h),
           NEW k, k \in Directors, "healthpool" \notin k.mobj[a].oflags,
           \A b \in Actors \ {a} : k.mobj[b] = h.mobj[b],
           k.monsterCounts = h.monsterCounts,
           k.spawnedHealth = h.spawnedHealth, k.killedHealth = h.killedHealth
    PROVE  Books(k) /\ InPool(k) = InPool(h)
<1>1. InPool(k) = InPool(h)
    BY DEF InPool
<1>2. \A b \in InPool(h) : k.mobj[b] = h.mobj[b]
    BY DEF InPool
<1>3. PoolHealth(k) = PoolHealth(h)
    BY <1>1, <1>2 DEF PoolHealth
<1>4. \A t \in Types : Counted(k, t) = Counted(h, t)
    BY <1>1, <1>2 DEF Counted
<1> QED BY <1>1, <1>2, <1>3, <1>4 DEF Books

\* P_RemoveHealthPool keeps the books for every actor: "we only get one try",
\* and one who is not in the pool is passed over.
LEMMA RemoveAny ==
    ASSUME NEW h, h \in Directors, Books(h), NEW a \in Actors
    PROVE  /\ RemoveHealthPool(h, a) \in Directors
           /\ Books(RemoveHealthPool(h, a))
           /\ Alike(h, RemoveHealthPool(h, a), a)
           /\ InPool(RemoveHealthPool(h, a)) = InPool(h) \ {a}
<1>1. CASE a \in InPool(h)
    BY <1>1, RemoveBooks
<1>2. CASE a \notin InPool(h)
    <2>1. RemoveHealthPool(h, a) = h
        BY <1>2 DEF RemoveHealthPool
    <2>2. Alike(h, h, a)
        BY DEF Alike
    <2>3. InPool(h) = InPool(h) \ {a}
        BY <1>2
    <2> QED BY <2>1, <2>2, <2>3, Zenon
<1> QED BY <1>1, <1>2

\* k is h with a killed.
Killed(h, k, a) ==
    /\ k.mobj[a].status = "corpse"
    /\ \A b \in Actors \ {a} : k.mobj[b] = h.mobj[b]
    /\ \A b \in Actors :
          "bosspool" \in k.mobj[b].oflags <=> "bosspool" \in h.mobj[b].oflags
    /\ k.corpses = Append(h.corpses, a) /\ k.oldCorpses = h.oldCorpses
    /\ k.bosses = h.bosses /\ k.bossRecipe = h.bossRecipe

\* P_KillMobj takes its victim out of the pool before he becomes a corpse, and
\* keeps the books.
LEMMA KillBooks ==
    ASSUME NEW h, h \in Directors, Books(h), NEW a \in Actors
    PROVE  /\ KillMobj(h, a) \in Directors
           /\ Books(KillMobj(h, a))
           /\ Killed(h, KillMobj(h, a), a)
<1> DEFINE r == RemoveHealthPool(h, a)
           k == KillMobj(h, a)
<1>1. r \in Directors /\ Books(r) /\ Alike(h, r, a) /\ InPool(r) = InPool(h) \ {a}
    BY RemoveAny
<1> DEFINE mobj == [r.mobj EXCEPT ![a].status = "corpse"]
           corpses == Append(r.corpses, a)
<1>2. k = [r EXCEPT !.mobj = mobj, !.corpses = corpses]
    BY DEF KillMobj
<1> HIDE DEF r, k
<1>3. mobj \in [Actors -> Mobjs] /\ corpses \in Seq(Actors \cup {NoActor})
    <2>1. r.mobj \in [Actors -> Mobjs] /\ r.corpses \in Seq(Actors \cup {NoActor})
        BY <1>1 DEF Directors
    <2>2. mobj \in [Actors -> Mobjs]
        BY <2>1 DEF Mobjs
    <2> QED BY <2>1, <2>2
<1>4. /\ mobj[a].status = "corpse" /\ mobj[a].oflags = r.mobj[a].oflags
      /\ \A b \in Actors \ {a} : mobj[b] = r.mobj[b]
    BY <1>1 DEF Directors, Mobjs
<1> HIDE DEF mobj, corpses
<1>5. /\ k \in Directors /\ k.mobj = mobj /\ k.corpses = corpses
      /\ k.oldCorpses = r.oldCorpses /\ k.bosses = r.bosses
      /\ k.bossRecipe = r.bossRecipe /\ k.monsterCounts = r.monsterCounts
      /\ k.spawnedHealth = r.spawnedHealth /\ k.killedHealth = r.killedHealth
    BY <1>1, <1>2, <1>3 DEF Directors
<1>6. Killed(h, k, a)
    BY <1>1, <1>4, <1>5 DEF Killed, Alike, corpses
<1>7. a \notin InPool(r) /\ "healthpool" \notin k.mobj[a].oflags
    BY <1>1, <1>4, <1>5 DEF InPool
<1>8. Books(k)
    BY <1>1, <1>4, <1>5, <1>7, BooksOutside
<1> QED BY <1>5, <1>6, <1>8 DEF k

\* A new corpse is appended, after those of earlier waves.
LEMMA KillCorpses ==
    ASSUME NEW h, h \in Directors, Corpses(h), NEW a \in Actors, NEW k, Killed(h, k, a)
    PROVE  Corpses(k)
<1>1. Len(k.corpses) = Len(h.corpses) + 1 /\ Len(h.corpses) \in Nat
    BY DEF Killed, Directors
<1> QED BY <1>1 DEF Corpses, Killed, Directors

\* A death only lowers the number of living bosses, and leaves the rest of them
\* in m_bosses.
LEMMA KillBosses ==
    ASSUME NEW h, h \in Directors, BossBooks(h), NEW a \in Actors, NEW k,
           k \in Directors, Killed(h, k, a)
    PROVE  BossBooks(k) /\ (AllBosses(h) => AllBosses(k))
<1>1. LivingBosses(k) \subseteq LivingBosses(h)
    BY DEF LivingBosses, Living, Killed
<1>2. IsFiniteSet(LivingBosses(h))
    BY ActorsFinite DEF LivingBosses, Living
<1>3. /\ Cardinality(LivingBosses(k)) <= Cardinality(LivingBosses(h))
      /\ Cardinality(LivingBosses(k)) \in Nat /\ Cardinality(LivingBosses(h)) \in Nat
    BY <1>1, <1>2, FS_Subset, FS_CardinalityType
<1>4. k.bossRecipe.limit > 0 => Cardinality(LivingBosses(k)) <= k.bossRecipe.limit
    <2>1. k.bossRecipe = h.bossRecipe /\ h.bossRecipe.limit \in Nat
        BY DEF Killed, Directors, Recipes
    <2>2. h.bossRecipe.limit > 0 => Cardinality(LivingBosses(h)) <= h.bossRecipe.limit
        BY DEF BossBooks
    <2> QED BY <1>3, <2>1, <2>2
<1>5. \A b \in Actors : k.mobj[b].status = "none" => k.mobj[b].oflags = {}
    BY DEF BossBooks, Killed
<1>6. \A b \in k.bosses : "bosspool" \in k.mobj[b].oflags
    BY DEF BossBooks, Killed, Directors
<1>7. ~IsValid(k.bossRecipe) => k.bosses = {}
    BY DEF BossBooks, Killed
<1>8. AllBosses(h) => AllBosses(k)
    BY DEF AllBosses, Killed
<1> QED BY <1>4, <1>5, <1>6, <1>7, <1>8 DEF BossBooks

\* P_KillMobj preserves all that is said of the director.
LEMMA KillOK ==
    ASSUME NEW h, DirectorOK(h), NEW a \in Actors
    PROVE  DirectorOK(KillMobj(h, a)) /\ (AllBosses(h) => AllBosses(KillMobj(h, a)))
<1>1. /\ KillMobj(h, a) \in Directors /\ Books(KillMobj(h, a))
      /\ Killed(h, KillMobj(h, a), a)
    BY KillBooks DEF DirectorOK
<1> QED BY <1>1, KillCorpses, KillBosses DEF DirectorOK

\* Destroying an actor, who may still be in the pool, preserves it too; what
\* pointed to him becomes null.
LEMMA DestroyOK ==
    ASSUME NEW h, DirectorOK(h), NEW a \in Actors
    PROVE  /\ DirectorOK(Destroy(h, a))
           /\ AllBosses(h) => AllBosses(Destroy(h, a))
           /\ Len(Destroy(h, a).corpses) = Len(h.corpses)
           /\ Destroy(h, a).oldCorpses = h.oldCorpses
<1> DEFINE r == RemoveHealthPool(h, a)
           k == Destroy(h, a)
<1>1. r \in Directors /\ Books(r) /\ Alike(h, r, a) /\ InPool(r) = InPool(h) \ {a}
    BY RemoveAny DEF DirectorOK
<1> DEFINE mobj == [r.mobj EXCEPT ![a] = NoMobj]
           bosses == r.bosses \ {a}
           corpses == [i \in DOMAIN r.corpses |->
                          IF r.corpses[i] = a THEN NoActor ELSE r.corpses[i]]
<1>2. k = [r EXCEPT !.mobj = mobj, !.bosses = bosses, !.corpses = corpses]
    BY DEF Destroy
<1> HIDE DEF r, k
<1>3. NoMobj \in Mobjs /\ NoMobj.status = "none" /\ NoMobj.oflags = {}
    BY DEF NoMobj, Mobjs
<1>4. /\ mobj \in [Actors -> Mobjs] /\ mobj[a] = NoMobj
      /\ \A b \in Actors \ {a} : mobj[b] = r.mobj[b]
    <2>1. r.mobj \in [Actors -> Mobjs]
        BY <1>1 DEF Directors
    <2> QED BY <1>3, <2>1
<1>5. bosses \in SUBSET Actors
    BY <1>1 DEF Directors
<1>6. corpses \in Seq(Actors \cup {NoActor}) /\ Len(corpses) = Len(r.corpses)
    <2>1. r.corpses \in Seq(Actors \cup {NoActor})
        BY <1>1 DEF Directors
    <2> QED BY <2>1
<1> HIDE DEF mobj, corpses
<1>7. /\ k \in Directors /\ k.mobj = mobj /\ k.corpses = corpses /\ k.bosses = bosses
      /\ k.oldCorpses = r.oldCorpses
      /\ k.bossRecipe = r.bossRecipe /\ k.monsterCounts = r.monsterCounts
      /\ k.spawnedHealth = r.spawnedHealth /\ k.killedHealth = r.killedHealth
    BY <1>1, <1>2, <1>4, <1>5, <1>6 DEF Directors
<1>8. Books(k)
    <2>1. a \notin InPool(r) /\ "healthpool" \notin k.mobj[a].oflags
        BY <1>1, <1>3, <1>4, <1>7 DEF InPool
    <2> QED BY <1>1, <1>4, <1>7, <2>1, BooksOutside
<1>9. Len(k.corpses) = Len(h.corpses) /\ k.oldCorpses = h.oldCorpses
    BY <1>1, <1>6, <1>7 DEF Alike
<1>10. LivingBosses(k) \subseteq LivingBosses(h)
    BY <1>1, <1>3, <1>4, <1>7 DEF LivingBosses, Living, Alike
<1>11. /\ Cardinality(LivingBosses(k)) <= Cardinality(LivingBosses(h))
       /\ Cardinality(LivingBosses(k)) \in Nat /\ Cardinality(LivingBosses(h)) \in Nat
    <2>1. IsFiniteSet(LivingBosses(h))
        BY ActorsFinite DEF LivingBosses, Living
    <2> QED BY <1>10, <2>1, FS_Subset, FS_CardinalityType
<1>12. k.bossRecipe.limit > 0 => Cardinality(LivingBosses(k)) <= k.bossRecipe.limit
    <2>1. k.bossRecipe = h.bossRecipe /\ h.bossRecipe.limit \in Nat
        BY <1>1, <1>7 DEF Alike, DirectorOK, Directors, Recipes
    <2>2. h.bossRecipe.limit > 0 => Cardinality(LivingBosses(h)) <= h.bossRecipe.limit
        BY DEF DirectorOK, BossBooks
    <2> QED BY <1>11, <2>1, <2>2
<1>13. BossBooks(k)
    <2>1. \A b \in Actors : k.mobj[b].status = "none" => k.mobj[b].oflags = {}
        BY <1>1, <1>3, <1>4, <1>7 DEF DirectorOK, BossBooks, Alike
    <2>2. \A b \in k.bosses : "bosspool" \in k.mobj[b].oflags
        BY <1>1, <1>4, <1>7 DEF DirectorOK, BossBooks, Alike, Directors
    <2>3. ~IsValid(k.bossRecipe) => k.bosses = {}
        BY <1>1, <1>7 DEF DirectorOK, BossBooks, Alike
    <2> QED BY <1>12, <2>1, <2>2, <2>3 DEF BossBooks
<1>14. AllBosses(h) => AllBosses(k)
    BY <1>1, <1>3, <1>4, <1>7 DEF AllBosses, Alike
<1>15. Corpses(k)
    BY <1>9 DEF DirectorOK, Corpses
<1> QED BY <1>7, <1>8, <1>9, <1>13, <1>14, <1>15 DEF DirectorOK, k

\* Removing one corpse of an earlier wave preserves it, also when the pointer to
\* it has become null meanwhile.
LEMMA RunCorpsesOK ==
    ASSUME NEW h, DirectorOK(h)
    PROVE  DirectorOK(RunCorpses(h)) /\ (AllBosses(h) => AllBosses(RunCorpses(h)))
<1>1. CASE h.oldCorpses = 0
    BY <1>1 DEF RunCorpses
<1>2. CASE h.oldCorpses # 0
    <2> DEFINE front == Head(h.corpses)
               kept == IF front # NoActor /\ front \notin Living(h)
                       THEN Destroy(h, front) ELSE h
               k == RunCorpses(h)
    <2>1. /\ h.corpses \in Seq(Actors \cup {NoActor}) /\ h.oldCorpses \in Nat
          /\ h.oldCorpses <= Len(h.corpses)
        BY DEF DirectorOK, Corpses, Directors
    <2>2. Len(h.corpses) \in Nat /\ Len(h.corpses) > 0
        BY <1>2, <2>1
    <2>3. front \in Actors \cup {NoActor}
        BY <2>1, <2>2
    <2>4. /\ DirectorOK(kept) /\ (AllBosses(h) => AllBosses(kept))
          /\ Len(kept.corpses) = Len(h.corpses) /\ kept.oldCorpses = h.oldCorpses
        BY <2>3, DestroyOK
    <2> DEFINE rest == Tail(kept.corpses)
               left == kept.oldCorpses - 1
    <2>5. k = [kept EXCEPT !.corpses = rest, !.oldCorpses = left]
        BY <1>2 DEF RunCorpses
    <2> HIDE DEF kept, k
    <2>6. kept \in Directors
        BY <2>4 DEF DirectorOK
    <2>7. /\ rest \in Seq(Actors \cup {NoActor}) /\ Len(rest) = Len(h.corpses) - 1
          /\ left \in Nat /\ left = h.oldCorpses - 1
        <3>1. kept.corpses \in Seq(Actors \cup {NoActor})
            BY <2>6 DEF Directors
        <3> QED BY <3>1, <1>2, <2>1, <2>2, <2>4
    <2> HIDE DEF rest, left
    <2>8. /\ k \in Directors /\ k.corpses = rest /\ k.oldCorpses = left
          /\ k.mobj = kept.mobj /\ k.bosses = kept.bosses
          /\ k.bossRecipe = kept.bossRecipe /\ k.monsterCounts = kept.monsterCounts
          /\ k.spawnedHealth = kept.spawnedHealth /\ k.killedHealth = kept.killedHealth
        BY <2>5, <2>6, <2>7 DEF Directors
    <2>9. Corpses(k)
        BY <2>1, <2>2, <2>7, <2>8 DEF Corpses
    <2>10. Books(k) /\ BossBooks(k)
        BY <2>4, <2>8, BooksSame, BossBooksSame DEF DirectorOK
    <2>11. AllBosses(h) => AllBosses(k)
        BY <2>4, <2>8 DEF AllBosses
    <2> QED BY <2>8, <2>9, <2>10, <2>11 DEF DirectorOK, k
<1> QED BY <1>1, <1>2

-----------------------------------------------------------------------------
(* The massacre kills one after the other.                                 *)

\* The actor the massacre kills next: the recursive function of Massacre by
\* name.
FirstOf(rest) == CHOOSE b \in rest : \A c \in rest : b <= c

\* g is the table of the directors after the massacre of each subset of T.
IsMassacre(g, h, T) ==
    g = [rest \in SUBSET T |->
            IF rest = {} THEN h ELSE KillMobj(g[rest \ {FirstOf(rest)}], FirstOf(rest))]

\* The massacre is the last entry of the table, whichever table is chosen.
LEMMA MassacreIsLast ==
    ASSUME NEW h
    PROVE  Massacre(h) = (CHOOSE g : IsMassacre(g, h, Actors))[InPool(h) \cap Living(h)]
BY DEF Massacre, IsMassacre, FirstOf

\* A set of actors that is not empty has a first one.
LEMMA FirstOfIs ==
    ASSUME NEW rest \in SUBSET Actors, rest # {}
    PROVE  FirstOf(rest) \in rest
<1>1. rest \in SUBSET Nat
    BY HordeAssumption DEF Actors
<1>2. \E b \in rest : \A c \in rest : b <= c
    BY <1>1, LeastNumber
<1> QED BY <1>2 DEF FirstOf

\* Two tables agree wherever both have an entry.
LEMMA MassacresAgree ==
    ASSUME NEW h, NEW T \in SUBSET Actors, NEW U \in SUBSET Actors,
           NEW g, IsMassacre(g, h, T), NEW k, IsMassacre(k, h, U)
    PROVE  \A s \in SUBSET (T \cap U) : g[s] = k[s]
<1> DEFINE D == {s \in SUBSET (T \cap U) : g[s] # k[s]}
<1>1. SUFFICES ASSUME D # {} PROVE FALSE
    OBVIOUS
<1>2. PICK s \in D : \A t \in D : t \subseteq s => t = s
    <2>1. D \in SUBSET (SUBSET Actors)
        OBVIOUS
    <2> HIDE DEF D
    <2> QED BY <1>1, <2>1, ActorsFinite, LeastSubset
<1>3. s \in SUBSET T /\ s \in SUBSET U /\ s \in SUBSET Actors /\ g[s] # k[s]
    BY <1>2
<1> DEFINE n == FirstOf(s)
<1>4. g[s] = IF s = {} THEN h ELSE KillMobj(g[s \ {n}], n)
    BY <1>3 DEF IsMassacre
<1>5. k[s] = IF s = {} THEN h ELSE KillMobj(k[s \ {n}], n)
    BY <1>3 DEF IsMassacre
<1>6. s # {}
    BY <1>3, <1>4, <1>5
<1>7. n \in s
    BY <1>3, <1>6, FirstOfIs
<1>8. g[s \ {n}] = k[s \ {n}]
    BY <1>2, <1>7
<1> HIDE DEF n
<1> QED BY <1>3, <1>4, <1>5, <1>6, <1>8, Zenon

\* There is a table for every set of actors, so that the CHOOSE in Massacre
\* picks one.
LEMMA MassacreExists ==
    ASSUME NEW h
    PROVE  \E g : IsMassacre(g, h, Actors)
<1> DEFINE D == {s \in SUBSET Actors : ~\E g : IsMassacre(g, h, s)}
<1>1. SUFFICES ASSUME D # {} PROVE FALSE
    OBVIOUS
<1>2. PICK s \in D : \A t \in D : t \subseteq s => t = s
    <2>1. D \in SUBSET (SUBSET Actors)
        OBVIOUS
    <2> HIDE DEF D
    <2> QED BY <1>1, <2>1, ActorsFinite, LeastSubset
<1> DEFINE Kills(t) == CHOOSE g : IsMassacre(g, h, t)
           Less(t) == t \ {FirstOf(t)}
           g == [t \in SUBSET s |->
                    IF t = {} THEN h ELSE KillMobj(Kills(Less(t))[Less(t)], FirstOf(t))]
<1>3. ASSUME NEW t \in SUBSET s, t # {}
      PROVE  /\ Less(t) \in SUBSET t /\ Less(t) \in SUBSET s /\ Less(t) \in SUBSET Actors
             /\ IsMassacre(Kills(Less(t)), h, Less(t))
    <2>1. t \in SUBSET Actors
        OBVIOUS
    <2>2. FirstOf(t) \in t
        BY <1>3, <2>1, FirstOfIs
    <2>3. Less(t) \in SUBSET s /\ Less(t) # s /\ Less(t) \in SUBSET Actors
        BY <2>2
    <2>4. \E k : IsMassacre(k, h, Less(t))
        BY <2>3, <1>2
    <2>5. IsMassacre(Kills(Less(t)), h, Less(t))
        BY <2>4
    <2> QED BY <2>3, <2>5
<1>4. ASSUME NEW t \in SUBSET s, t # {}
      PROVE  g[Less(t)] = Kills(Less(t))[Less(t)]
    <2> DEFINE u == Less(t)
    <2>1. u \in SUBSET s /\ u \in SUBSET Actors /\ IsMassacre(Kills(u), h, u)
        BY <1>3, <1>4
    <2>2. Kills(u)[u] = IF u = {} THEN h ELSE KillMobj(Kills(u)[Less(u)], FirstOf(u))
        <3> HIDE DEF Kills, u
        <3> QED BY <2>1 DEF IsMassacre
    <2>3. CASE u = {}
        <3> HIDE DEF Kills, u
        <3>1. g[u] = h
            BY <2>1, <2>3
        <3> QED BY <3>1, <2>2, <2>3 DEF u
    <2>4. CASE u # {}
        <3> DEFINE w == Less(u)
        <3>1. w \in SUBSET u /\ w \in SUBSET Actors /\ IsMassacre(Kills(w), h, w)
            <4> HIDE DEF Kills, u
            <4> QED BY <2>1, <2>4, <1>3
        <3>2. Kills(w)[w] = Kills(u)[w]
            <4> HIDE DEF Kills, u, w
            <4>1. \A x \in SUBSET (w \cap u) : Kills(w)[x] = Kills(u)[x]
                BY <2>1, <3>1, MassacresAgree
            <4>2. w \in SUBSET (w \cap u)
                BY <3>1
            <4> QED BY <4>1, <4>2
        <3>3. g[u] = KillMobj(Kills(w)[w], FirstOf(u))
            <4> HIDE DEF Kills, u, Less
            <4> QED BY <2>1, <2>4
        <3> HIDE DEF g, Kills
        <3> QED BY <3>2, <3>3, <2>2, <2>4
    <2> QED BY <2>3, <2>4
<1>5. IsMassacre(g, h, s)
    <2>1. g = [t \in SUBSET s |-> IF t = {} THEN h ELSE KillMobj(g[Less(t)], FirstOf(t))]
        <3> HIDE DEF Kills, Less
        <3>1. \A t \in SUBSET s :
                  g[t] = IF t = {} THEN h ELSE KillMobj(g[Less(t)], FirstOf(t))
            BY <1>4
        <3>2. g = [t \in SUBSET s |-> g[t]]
            OBVIOUS
        <3> HIDE DEF g
        <3> QED BY <3>1, <3>2
    <2> HIDE DEF g
    <2> QED BY <2>1 DEF IsMassacre
<1> QED BY <1>5, <1>2

\* At the end of the last wave all monsters explode, one after the other: the
\* books stay exact through all of it.
LEMMA MassacreOK ==
    ASSUME NEW h, DirectorOK(h)
    PROVE  DirectorOK(Massacre(h)) /\ (AllBosses(h) => AllBosses(Massacre(h)))
<1> DEFINE g == CHOOSE g : IsMassacre(g, h, Actors)
           Advanced(k) == DirectorOK(k) /\ (AllBosses(h) => AllBosses(k))
           D == {s \in SUBSET Actors : ~Advanced(g[s])}
<1>1. IsMassacre(g, h, Actors)
    BY MassacreExists
<1>2. Massacre(h) = g[InPool(h) \cap Living(h)]
    BY MassacreIsLast
<1>3. InPool(h) \cap Living(h) \in SUBSET Actors
    BY DEF InPool
<1> HIDE DEF g
<1>4. D = {}
    <2>1. SUFFICES ASSUME D # {} PROVE FALSE
        OBVIOUS
    <2>2. PICK s \in D : \A t \in D : t \subseteq s => t = s
        <3>1. D \in SUBSET (SUBSET Actors)
            OBVIOUS
        <3> HIDE DEF D
        <3> QED BY <2>1, <3>1, ActorsFinite, LeastSubset
    <2> DEFINE n == FirstOf(s)
    <2>3. g[s] = IF s = {} THEN h ELSE KillMobj(g[s \ {n}], n)
        BY <1>1 DEF IsMassacre
    <2>4. s # {}
        BY <2>2, <2>3
    <2>5. n \in s /\ n \in Actors
        BY <2>4, FirstOfIs
    <2>6. Advanced(g[s \ {n}])
        BY <2>2, <2>5
    <2>7. Advanced(KillMobj(g[s \ {n}], n))
        BY <2>5, <2>6, KillOK
    <2> HIDE DEF Advanced, n
    <2> QED BY <2>2, <2>3, <2>4, <2>7
<1> QED BY <1>2, <1>3, <1>4

-----------------------------------------------------------------------------
(* Spawns.                                                                 *)

\* Actors are numbers from 1 on.
LEMMA ActorsAre == MaxActors \in Nat /\ Actors \in SUBSET (Nat \ {0})
                   /\ \A a \in Actors : a <= MaxActors
<1>1. MaxActors \in Nat
    BY HordeAssumption
<1> QED BY <1>1 DEF Actors

\* Of any set of actors the n first can be taken, so that the CHOOSE in Places
\* picks n of them.
LEMMA PlacesExist ==
    ASSUME NEW S \in SUBSET Actors, NEW n \in Nat, n <= Cardinality(S)
    PROVE  \E s \in SUBSET S : Cardinality(s) = n /\ \A a \in s, b \in S \ s : a < b
<1> DEFINE low(m) == {a \in S : a <= m}
           D == {m \in Nat : n <= Cardinality(low(m))}
<1>0. \A a \in S : a \in Nat /\ a > 0 /\ a <= MaxActors
    BY ActorsAre
<1>1. \A m \in Nat : IsFiniteSet(low(m)) /\ Cardinality(low(m)) \in Nat
    <2>1. \A m \in Nat : IsFiniteSet(low(m))
        BY ActorsFinite
    <2> QED BY <2>1, FS_CardinalityType
<1>2. MaxActors \in D
    <2>1. low(MaxActors) = S /\ MaxActors \in Nat
        BY ActorsAre
    <2> QED BY <2>1
<1>3. PICK m \in D : \A k \in D : m <= k
    <2> HIDE DEF D
    <2>1. D \in SUBSET Nat
        BY DEF D
    <2> QED BY <1>2, <2>1, LeastNumber
<1>4. m \in Nat /\ n <= Cardinality(low(m))
    BY <1>3
<1>5. Cardinality(low(m)) <= n
    <2>1. CASE m = 0
        <3>1. low(m) = {}
            BY <2>1, <1>0
        <3> QED BY <3>1, FS_EmptySet
    <2>2. CASE m # 0
        <3>1. m - 1 \in Nat /\ m - 1 \notin D
            BY <1>3, <1>4, <2>2
        <3>2. Cardinality(low(m - 1)) < n
            BY <1>1, <3>1
        <3>3. low(m) \subseteq low(m - 1) \cup {m}
            BY <1>4, <1>0
        <3>4. /\ IsFiniteSet(low(m - 1) \cup {m})
              /\ Cardinality(low(m - 1) \cup {m}) <= Cardinality(low(m - 1)) + 1
            <4> DEFINE l == low(m - 1)
            <4>1. IsFiniteSet(l) /\ Cardinality(l) \in Nat
                BY <1>1, <3>1
            <4> HIDE DEF l
            <4>2. /\ IsFiniteSet(l \cup {m})
                  /\ Cardinality(l \cup {m}) =
                        IF m \in l THEN Cardinality(l) ELSE Cardinality(l) + 1
                BY <4>1, FS_AddElement
            <4>3. Cardinality(l \cup {m}) <= Cardinality(l) + 1
                BY <4>1, <4>2
            <4> QED BY <4>2, <4>3 DEF l
        <3>5. Cardinality(low(m)) <= Cardinality(low(m - 1) \cup {m})
            BY <3>3, <3>4, FS_Subset
        <3>6. Cardinality(low(m - 1) \cup {m}) \in Nat
            BY <3>4, FS_CardinalityType
        <3> DEFINE x == Cardinality(low(m))
                   y == Cardinality(low(m - 1))
                   z == Cardinality(low(m - 1) \cup {m})
        <3>7. x \in Nat /\ y \in Nat /\ z \in Nat /\ y < n /\ z <= y + 1 /\ x <= z
            BY <1>1, <1>4, <3>1, <3>2, <3>4, <3>5, <3>6
        <3> HIDE DEF x, y, z
        <3>8. x <= n
            BY <3>7
        <3> QED BY <3>8 DEF x
    <2> QED BY <2>1, <2>2
<1>6. Cardinality(low(m)) = n
    BY <1>1, <1>4, <1>5
<1>7. \A a \in low(m), b \in S \ low(m) : a < b
    BY <1>4, <1>0
<1> QED BY <1>6, <1>7

\* A spawn of n takes n actors that are free.
LEMMA PlacesAre ==
    ASSUME NEW h, NEW n \in Nat, n <= Cardinality(Free(h))
    PROVE  Places(h, n) \in SUBSET Free(h) /\ Cardinality(Places(h, n)) = n
<1>1. Free(h) \in SUBSET Actors
    BY DEF Free
<1>2. \E s \in SUBSET Free(h) :
          Cardinality(s) = n /\ \A a \in s, b \in Free(h) \ s : a < b
    BY <1>1, PlacesExist
<1> QED BY <1>2 DEF Places

\* What a spawn does to the actors.
Spawned(h, k, type, places, isBoss) ==
    /\ \A a \in places : k.mobj[a].status = "alive"
    /\ \A a \in places : "bosspool" \in k.mobj[a].oflags <=> isBoss
    /\ \A a \in Actors \ places : k.mobj[a] = h.mobj[a]
    /\ k.corpses = h.corpses /\ k.oldCorpses = h.oldCorpses
    /\ k.bosses = h.bosses /\ k.bossRecipe = h.bossRecipe /\ k.bossesSize = h.bossesSize

\* Spawning n monsters of one type adds n times its health to what was spawned,
\* and n to the count of the type unless they are bosses: the books stay exact.
LEMMA SpawnBooks ==
    ASSUME NEW h, h \in Directors, Books(h), NEW recipe, recipe.type \in Types,
           NEW n \in Nat, n <= Cardinality(Free(h)), NEW isBoss \in BOOLEAN
    PROVE  /\ Spawn(h, recipe, n, isBoss) \in Directors
           /\ Books(Spawn(h, recipe, n, isBoss))
           /\ Spawned(h, Spawn(h, recipe, n, isBoss), recipe.type, Places(h, n), isBoss)
<1> DEFINE places == Places(h, n)
           flags == IF isBoss THEN {"bosspool", "healthpool"} ELSE {"healthpool"}
           type == recipe.type
           k == Spawn(h, recipe, n, isBoss)
           new == [type |-> type, status |-> "alive", oflags |-> flags]
           mobj == [a \in Actors |-> IF a \in places THEN new ELSE h.mobj[a]]
           spawned == h.spawnedHealth + n * Health[type]
           counts == [h.monsterCounts EXCEPT ![type] = IF isBoss THEN @ ELSE @ + n]
<1>1. places \in SUBSET Free(h) /\ Cardinality(places) = n /\ places \in SUBSET Actors
    BY PlacesAre DEF Free
<1>2. k = [h EXCEPT !.mobj = mobj, !.spawnedHealth = spawned, !.monsterCounts = counts]
    BY DEF Spawn
<1> HIDE DEF k, places
<1>3. /\ flags \in SUBSET {"bosspool", "healthpool"} /\ "healthpool" \in flags
      /\ "bosspool" \in flags <=> isBoss
    OBVIOUS
<1>4. new \in Mobjs
    BY <1>3 DEF Mobjs
<1>5. new.type = type /\ new.status = "alive" /\ new.oflags = flags
    OBVIOUS
<1> HIDE DEF new, flags
<1>6. mobj \in [Actors -> Mobjs]
    BY <1>4 DEF Directors
<1>7. type \in Types /\ Health[type] \in Nat /\ n * Health[type] \in Nat
    BY HordeAssumption
<1>8. spawned \in Int
    BY <1>7 DEF Directors
<1>9. /\ counts \in [Types -> Int]
      /\ \A t \in Types \ {type} : counts[t] = h.monsterCounts[t]
      /\ counts[type] = IF isBoss THEN h.monsterCounts[type] ELSE h.monsterCounts[type] + n
    <2>1. h.monsterCounts \in [Types -> Int]
        BY DEF Directors
    <2> HIDE DEF type
    <2> QED BY <1>7, <2>1
<1>10. /\ \A a \in places : mobj[a] = new
       /\ \A a \in Actors \ places : mobj[a] = h.mobj[a]
    BY <1>1
<1> HIDE DEF mobj, spawned, counts, type
<1>11. /\ k \in Directors
       /\ k.mobj = mobj /\ k.spawnedHealth = spawned /\ k.monsterCounts = counts
       /\ k.killedHealth = h.killedHealth
       /\ k.corpses = h.corpses /\ k.oldCorpses = h.oldCorpses
       /\ k.bosses = h.bosses /\ k.bossRecipe = h.bossRecipe
       /\ k.bossesSize = h.bossesSize
    BY <1>2, <1>6, <1>8, <1>9 DEF Directors
<1>12. Spawned(h, k, type, places, isBoss)
    BY <1>3, <1>5, <1>10, <1>11 DEF Spawned
<1>13. InPool(k) = InPool(h) \cup places /\ places \cap InPool(h) = {}
    <2>1. \A a \in places : h.mobj[a].status = "none"
        BY <1>1 DEF Free
    <2>2. places \cap InPool(h) = {}
        BY <2>1 DEF Books
    <2> QED BY <2>2, <1>1, <1>3, <1>5, <1>10, <1>11 DEF InPool
<1> DEFINE f == PoolHealth(h)
           g == PoolHealth(k)
           one == Health[type]
<1>14. /\ \A a \in Actors : f[a] \in Int
       /\ \A a \in Actors : g[a] = IF a \in places THEN f[a] + one ELSE f[a]
    <2>1. \A a \in Actors : f[a] \in Int
        BY PoolHealthInt
    <2>2. ASSUME NEW a \in places PROVE f[a] = 0 /\ g[a] = one
        BY <1>1, <1>5, <1>10, <1>11, <1>13 DEF PoolHealth
    <2>3. ASSUME NEW a \in Actors \ places PROVE g[a] = f[a]
        BY <1>10, <1>11, <1>13 DEF PoolHealth
    <2>4. one \in Int
        BY <1>7
    <2> HIDE DEF f, g, one
    <2> QED BY <2>1, <2>2, <2>3, <2>4
<1>15. k.spawnedHealth - k.killedHealth = SumFunctionOnSet(g, Actors)
    <2>1. SumFunctionOnSet(g, Actors) = SumFunctionOnSet(f, Actors) + n * one
        <3>1. one \in Int
            BY <1>7
        <3> HIDE DEF f, g, one
        <3>2. SumFunctionOnSet(g, Actors) =
                  SumFunctionOnSet(f, Actors) + Cardinality(places) * one
            <4>1. IsFiniteSet(Actors) /\ places \in SUBSET Actors
                BY <1>1, ActorsFinite
            <4>2. Grown(f, g, Actors, places, one)
                BY <1>1, <1>14 DEF Grown
            <4> QED BY <3>1, <4>1, <4>2, SumGrows
        <3> QED BY <3>2, <1>1
    <2>2. h.spawnedHealth - h.killedHealth = SumFunctionOnSet(f, Actors)
        BY DEF Books
    <2>3. h.spawnedHealth \in Int /\ h.killedHealth \in Int
        BY DEF Directors
    <2>4. k.spawnedHealth = h.spawnedHealth + n * one /\ k.killedHealth = h.killedHealth
          /\ n * one \in Nat
        BY <1>7, <1>11 DEF spawned
    <2> HIDE DEF f, g, one
    <2> QED BY <2>1, <2>2, <2>3, <2>4
<1>16. ASSUME NEW t \in Types
       PROVE  k.monsterCounts[t] = Cardinality(Counted(k, t))
    <2>1. h.monsterCounts[t] = Cardinality(Counted(h, t)) /\ h.monsterCounts[t] \in Int
        BY DEF Books, Directors
    <2>2. CASE t = type /\ ~isBoss
        <3>1. /\ Counted(k, t) = Counted(h, t) \cup places
              /\ Counted(h, t) \cap places = {}
            BY <1>1, <1>3, <1>5, <1>10, <1>11, <1>13, <2>2 DEF Counted, InPool
        <3>2. IsFiniteSet(Counted(h, t)) /\ IsFiniteSet(places)
            BY <1>1, ActorsFinite DEF Counted, InPool
        <3>3. Cardinality(Counted(h, t) \cup places) =
                  Cardinality(Counted(h, t)) + n - Cardinality(Counted(h, t) \cap places)
            BY <1>1, <3>2, FS_Union
        <3>4. Cardinality(Counted(h, t) \cap places) = 0
            BY <3>1, FS_EmptySet
        <3>5. k.monsterCounts[t] = h.monsterCounts[t] + n
            BY <1>9, <1>11, <2>2
        <3> QED BY <3>1, <3>3, <3>4, <3>5, <2>1
    <2>3. CASE ~(t = type /\ ~isBoss)
        <3>1. Counted(k, t) = Counted(h, t)
            BY <1>1, <1>3, <1>5, <1>10, <1>11, <1>13, <2>3 DEF Counted, InPool
        <3>2. k.monsterCounts[t] = h.monsterCounts[t]
            BY <1>9, <1>11, <2>3
        <3> QED BY <3>1, <3>2, <2>1
    <2> QED BY <2>2, <2>3
<1>17. \A a \in InPool(k) : k.mobj[a].status = "alive" /\ k.mobj[a].type \in Types
    BY <1>5, <1>7, <1>10, <1>11, <1>13 DEF Books, InPool, type
<1>18. Books(k)
    BY <1>15, <1>16, <1>17 DEF Books
<1> QED BY <1>11, <1>12, <1>18 DEF k, places, type

\* A spawn of monsters preserves all that is said of the director: none of its
\* places is that of a boss.
LEMMA SpawnMonstersOK ==
    ASSUME NEW h, DirectorOK(h), NEW recipe, recipe.type \in Types,
           NEW n \in Nat, n <= Cardinality(Free(h))
    PROVE  /\ DirectorOK(SpawnMonsters(h, recipe, n))
           /\ AllBosses(h) => AllBosses(SpawnMonsters(h, recipe, n))
<1> DEFINE k == SpawnMonsters(h, recipe, n)
           places == Places(h, n)
<1>1. k \in Directors /\ Books(k) /\ Spawned(h, k, recipe.type, places, FALSE)
    <2>1. FALSE \in BOOLEAN
        OBVIOUS
    <2> QED BY <2>1, SpawnBooks DEF SpawnMonsters, DirectorOK
<1>2. places \in SUBSET Actors /\ \A a \in places : h.mobj[a].status = "none"
    BY PlacesAre DEF Free
<1> HIDE DEF k, places
<1>3. \A a \in places : a \notin h.bosses
    BY <1>2 DEF DirectorOK, BossBooks
<1>4. LivingBosses(k) = LivingBosses(h)
    BY <1>1, <1>2, <1>3 DEF LivingBosses, Living, Spawned
<1>5. BossBooks(k)
    <2>1. \A a \in Actors : k.mobj[a].status = "none" => k.mobj[a].oflags = {}
        BY <1>1, <1>2 DEF Spawned, DirectorOK, BossBooks
    <2>2. \A a \in k.bosses : "bosspool" \in k.mobj[a].oflags
        BY <1>1, <1>2, <1>3 DEF Spawned, DirectorOK, BossBooks, Directors
    <2> QED BY <1>1, <1>4, <2>1, <2>2 DEF Spawned, DirectorOK, BossBooks
<1>6. Corpses(k)
    BY <1>1 DEF DirectorOK, Corpses, Spawned
<1>7. AllBosses(h) => AllBosses(k)
    BY <1>1, <1>2 DEF AllBosses, Spawned
<1> QED BY <1>1, <1>5, <1>6, <1>7 DEF DirectorOK, k

\* What must hold before bosses are spawned: there is room for n more of them.
RoomForBosses(h, n) ==
    /\ h \in Directors /\ Books(h) /\ Corpses(h)
    /\ \A a \in Actors : h.mobj[a].status = "none" => h.mobj[a].oflags = {}
    /\ \A a \in h.bosses : "bosspool" \in h.mobj[a].oflags
    /\ IsValid(h.bossRecipe)
    /\ h.bossRecipe.limit > 0 =>
          Cardinality(LivingBosses(h)) + n <= h.bossRecipe.limit

\* A spawn of bosses preserves it when there was room for as many; all of the
\* new bosses are entered in m_bosses.
LEMMA SpawnBossesOK ==
    ASSUME NEW h, NEW recipe, recipe.type \in Types,
           NEW n \in Nat, n <= Cardinality(Free(h)), RoomForBosses(h, n)
    PROVE  /\ DirectorOK(SpawnBosses(h, recipe, n))
           /\ AllBosses(h) => AllBosses(SpawnBosses(h, recipe, n))
<1> DEFINE s == Spawn(h, recipe, n, TRUE)
           k == SpawnBosses(h, recipe, n)
           places == Places(h, n)
<1>1. s \in Directors /\ Books(s) /\ Spawned(h, s, recipe.type, places, TRUE)
    <2>1. TRUE \in BOOLEAN
        OBVIOUS
    <2> QED BY <2>1, SpawnBooks DEF RoomForBosses
<1>2. /\ places \in SUBSET Actors /\ Cardinality(places) = n
      /\ \A a \in places : h.mobj[a].status = "none"
    BY PlacesAre DEF Free
<1> DEFINE bosses == s.bosses \cup places
           size == s.bossesSize + n
<1>3. k = [s EXCEPT !.bosses = bosses, !.bossesSize = size]
    BY DEF SpawnBosses
<1> HIDE DEF s, k, places
<1>12. bosses \in SUBSET Actors /\ size \in Int /\ bosses = h.bosses \cup places
    BY <1>1, <1>2 DEF Directors, Spawned
<1> HIDE DEF bosses, size
<1>4. /\ k \in Directors /\ k.mobj = s.mobj /\ k.bosses = h.bosses \cup places
      /\ k.bossRecipe = h.bossRecipe /\ k.monsterCounts = s.monsterCounts
      /\ k.corpses = h.corpses /\ k.oldCorpses = h.oldCorpses
      /\ k.spawnedHealth = s.spawnedHealth /\ k.killedHealth = s.killedHealth
    <2>1. k \in Directors /\ k.mobj = s.mobj /\ k.bosses = bosses
          /\ k.bossRecipe = s.bossRecipe /\ k.monsterCounts = s.monsterCounts
          /\ k.corpses = s.corpses /\ k.oldCorpses = s.oldCorpses
          /\ k.spawnedHealth = s.spawnedHealth /\ k.killedHealth = s.killedHealth
        BY <1>1, <1>3, <1>12 DEF Directors
    <2> QED BY <1>1, <1>12, <2>1 DEF Spawned
<1>5. Books(k)
    BY <1>1, <1>4, BooksSame
<1>6. Corpses(k)
    BY <1>4 DEF RoomForBosses, Corpses
<1>7. \A a \in places : a \notin h.bosses
    BY <1>2 DEF RoomForBosses
<1>8. /\ LivingBosses(k) = LivingBosses(h) \cup places
      /\ LivingBosses(h) \cap places = {}
    BY <1>1, <1>2, <1>4, <1>7 DEF LivingBosses, Living, Spawned
<1>9. Cardinality(LivingBosses(k)) = Cardinality(LivingBosses(h)) + n
    <2>1. IsFiniteSet(LivingBosses(h)) /\ IsFiniteSet(places)
        BY <1>2, ActorsFinite DEF LivingBosses, Living
    <2>2. Cardinality(LivingBosses(h) \cup places) =
              Cardinality(LivingBosses(h)) + n - Cardinality(LivingBosses(h) \cap places)
        BY <1>2, <2>1, FS_Union
    <2>3. Cardinality(LivingBosses(h) \cap places) = 0
        BY <1>8, FS_EmptySet
    <2>4. Cardinality(LivingBosses(h)) \in Nat
        BY <2>1, FS_CardinalityType
    <2> QED BY <1>8, <2>2, <2>3, <2>4
<1>10. BossBooks(k)
    <2>1. \A a \in Actors : k.mobj[a].status = "none" => k.mobj[a].oflags = {}
        BY <1>1, <1>2, <1>4 DEF Spawned, RoomForBosses
    <2>2. \A a \in k.bosses : "bosspool" \in k.mobj[a].oflags
        <3>1. \A a \in places : "bosspool" \in k.mobj[a].oflags
            BY <1>1, <1>4 DEF Spawned
        <3>2. ASSUME NEW a \in h.bosses, a \notin places
              PROVE  "bosspool" \in k.mobj[a].oflags
            <4>1. a \in Actors /\ "bosspool" \in h.mobj[a].oflags
                BY DEF RoomForBosses, Directors
            <4>2. k.mobj[a] = h.mobj[a]
                BY <1>1, <1>4, <3>2, <4>1 DEF Spawned
            <4> QED BY <4>1, <4>2
        <3> QED BY <1>4, <3>1, <3>2
    <2>3. k.bossRecipe.limit > 0 => Cardinality(LivingBosses(k)) <= k.bossRecipe.limit
        BY <1>4, <1>9 DEF RoomForBosses
    <2> QED BY <1>4, <2>1, <2>2, <2>3 DEF RoomForBosses, BossBooks
<1>11. AllBosses(h) => AllBosses(k)
    BY <1>1, <1>2, <1>4 DEF AllBosses, Spawned
<1> QED BY <1>4, <1>5, <1>6, <1>10, <1>11 DEF DirectorOK, k

-----------------------------------------------------------------------------
(* Recipes.                                                                *)

\* A quotient is bounded when the dividend is: why a count of health divided by
\* the monsters' health keeps the limit.
LEMMA DivBound ==
    ASSUME NEW m \in Nat, NEW d \in Nat \ {0}, NEW q \in Nat, m <= q * d
    PROVE  m \div d \in Nat /\ m \div d <= q
OBVIOUS

\* A random count is not below 1 nor above its upper end.
LEMMA CountsAre ==
    ASSUME NEW lower \in Int, NEW upper \in Int, NEW c \in Counts(lower, upper)
    PROVE  c \in Int /\ c <= upper /\ (lower >= 1 /\ upper >= 1 => c >= 1)
BY DEF Counts

\* A recipe asks for at least one, and for no more than its limit.
RecipeOK(r) ==
    /\ r \in Recipes /\ r.type \in Types /\ r.count \in Nat \ {0}
    /\ r.limit > 0 => r.count <= r.limit

\* P_HordeSpawnRecipe asks for at least one monster and for no more at a time
\* than the limit of the configuration.
LEMMA RecipesOfOK ==
    ASSUME NEW config \in Configs, NEW minHealth \in Nat, NEW maxHealth \in Nat,
           NEW r \in RecipesOf(config, minHealth, maxHealth)
    PROVE  RecipeOK(r)
<1> DEFINE most  == IF config.max >= 0 THEN config.max ELSE maxHealth
           least == IF config.min >= 0 THEN config.min ELSE minHealth
           one   == Health[config.type]
           limit == IF config.limit > 0 THEN config.limit ELSE 0
           capped == IF limit > 0 /\ limit * one < most THEN limit * one ELSE most
           lower == Larger(least \div one, 1)
           upper == Larger(capped \div one, 1)
<1>1. /\ config.type \in Types /\ config.max \in Int /\ config.min \in Int
      /\ config.limit \in Int
    BY DEF Configs
<1>2. most \in Nat /\ least \in Nat /\ one \in Nat \ {0} /\ limit \in Nat
    BY <1>1, HordeAssumption
<1>3. PICK count \in Counts(lower, upper), total \in Counts(lower, Larger(most \div one, 1)) :
          r = Recipe(config.type, count, limit, Larger(total, count))
    BY DEF RecipesOf
<1> HIDE DEF most, least, one, limit
<1>4. capped \in Nat /\ (limit > 0 => capped <= limit * one)
    <2>1. limit * one \in Nat
        BY <1>2
    <2> QED BY <1>2, <2>1
<1> HIDE DEF capped
<1>5. capped \div one \in Int /\ (limit > 0 => capped \div one <= limit)
    <2>1. capped \div one \in Int
        BY <1>2, <1>4
    <2>2. limit > 0 => capped \div one <= limit
        BY <1>2, <1>4, DivBound
    <2> QED BY <2>1, <2>2
<1>6. upper \in Int /\ upper >= 1 /\ (limit > 0 => upper <= limit)
    BY <1>2, <1>5 DEF Larger
<1>7. lower \in Int /\ lower >= 1
    BY <1>2 DEF Larger
<1> HIDE DEF upper, lower
<1>8. count \in Int /\ count >= 1 /\ count <= upper
    BY <1>3, <1>6, <1>7, CountsAre
<1>9. Larger(most \div one, 1) \in Int
    BY <1>2 DEF Larger
<1>10. total \in Int
    BY <1>3, <1>7, <1>9, CountsAre
<1>11. Larger(total, count) \in Int
    BY <1>8, <1>10 DEF Larger
<1> QED BY <1>1, <1>2, <1>3, <1>6, <1>8, <1>11 DEF RecipeOK, Recipe, Recipes

\* The definition in use is one of WAVE_DEFINES.
LEMMA DefineIs ==
    ASSUME NEW h \in Directors
    PROVE  Define(h) \in WaveDefines
BY HordeAssumption DEF Define, Directors

\* Every recipe the director may draw is of that kind.
LEMMA RecipesAreOK ==
    ASSUME NEW h \in Directors
    PROVE  /\ \A r \in MonsterRecipes(h) : RecipeOK(r)
           /\ \A r \in BossRecipes(h) : RecipeOK(r)
<1> DEFINE d == Define(h)
<1>1. /\ d.monsters \subseteq Configs /\ d.bosses \subseteq Configs
      /\ d.minGroup \in Nat /\ d.maxGroup \in Nat /\ d.minBoss \in Nat /\ d.maxBoss \in Nat
    BY DefineIs DEF WaveDefines
<1>2. ASSUME NEW r \in MonsterRecipes(h)
      PROVE  RecipeOK(r)
    <2>1. PICK c \in d.monsters : r \in RecipesOf(c, d.minGroup, d.maxGroup)
        BY <1>2 DEF MonsterRecipes
    <2> HIDE DEF d
    <2> QED BY <1>1, <2>1, RecipesOfOK
<1>3. ASSUME NEW r \in BossRecipes(h)
      PROVE  RecipeOK(r)
    <2>1. PICK c \in d.bosses : r \in RecipesOf(c, d.minBoss, d.maxBoss)
        BY <1>3 DEF BossRecipes
    <2> HIDE DEF d
    <2> QED BY <1>1, <2>1, RecipesOfOK
<1> QED BY <1>2, <1>3

-----------------------------------------------------------------------------
(* What leaves the actors alone.                                           *)

\* The director's timers and its state may differ, the books may not.
Same(h, k) ==
    /\ k.mobj = h.mobj /\ k.monsterCounts = h.monsterCounts
    /\ k.spawnedHealth = h.spawnedHealth /\ k.killedHealth = h.killedHealth
    /\ k.corpses = h.corpses /\ k.oldCorpses = h.oldCorpses
    /\ k.bosses = h.bosses /\ k.bossRecipe = h.bossRecipe

\* What leaves the books alone preserves all that is said of the director.
LEMMA SameOK ==
    ASSUME NEW h, DirectorOK(h), NEW k, k \in Directors, Same(h, k)
    PROVE  DirectorOK(k) /\ (AllBosses(h) => AllBosses(k))
<1>1. Books(k)
    BY BooksSame DEF Same, DirectorOK
<1>2. BossBooks(k)
    BY BossBooksSame DEF Same, DirectorOK
<1>3. Corpses(k)
    BY DEF Same, DirectorOK, Corpses
<1>4. AllBosses(h) => AllBosses(k)
    BY DEF AllBosses, Same
<1> QED BY <1>1, <1>2, <1>3, <1>4 DEF DirectorOK

\* Changing the state does.
LEMMA ChangeStateOK ==
    ASSUME NEW h, DirectorOK(h)
    PROVE  DirectorOK(ChangeState(h)) /\ (AllBosses(h) => AllBosses(ChangeState(h)))
<1>1. \E s \in States : ChangeState(h) = [h EXCEPT !.state = s]
    <2>1. h.state \in States
        BY DEF DirectorOK, Directors
    <2>2. CASE h.state = "starting"
        BY <2>2 DEF ChangeState, States
    <2>3. CASE h.state \in {"pressure", "relax"}
        BY <2>3 DEF ChangeState, States
    <2>4. CASE h.state = "wantboss"
        BY <2>4 DEF ChangeState, States
    <2> QED BY <2>1, <2>2, <2>3, <2>4 DEF States
<1>2. PICK s \in States : ChangeState(h) = [h EXCEPT !.state = s]
    BY <1>1
<1>3. [h EXCEPT !.state = s] \in Directors /\ Same(h, [h EXCEPT !.state = s])
    BY DEF DirectorOK, Directors, Same
<1> QED BY <1>2, <1>3, SameOK

\* And so do the two timers.
LEMMA TimerOK ==
    ASSUME NEW h, DirectorOK(h), NEW i \in Int
    PROVE  /\ DirectorOK([h EXCEPT !.wait = i]) /\ DirectorOK([h EXCEPT !.headStart = i])
           /\ AllBosses(h) => /\ AllBosses([h EXCEPT !.wait = i])
                              /\ AllBosses([h EXCEPT !.headStart = i])
<1>1. [h EXCEPT !.wait = i] \in Directors /\ Same(h, [h EXCEPT !.wait = i])
    BY DEF DirectorOK, Directors, Same
<1>2. [h EXCEPT !.headStart = i] \in Directors /\ Same(h, [h EXCEPT !.headStart = i])
    BY DEF DirectorOK, Directors, Same
<1> QED BY <1>1, <1>2, SameOK

\* What the director does each second before it decides preserves it.
LEMMA TickedOK ==
    ASSUME DirectorOK(horde)
    PROVE  DirectorOK(Ticked) /\ (AllBosses(horde) => AllBosses(Ticked))
<1> DEFINE h == RunCorpses(ChangeState(horde))
           i == IF h.headStart > 0 THEN h.headStart - 1 ELSE 0
<1>1. DirectorOK(h) /\ (AllBosses(horde) => AllBosses(h))
    BY ChangeStateOK, RunCorpsesOK
<1>2. Ticked = [h EXCEPT !.headStart = i]
    BY DEF Ticked
<1>3. i \in Int
    <2> HIDE DEF h
    <2> QED BY <1>1 DEF DirectorOK, Directors
<1> HIDE DEF h, i
<1> QED BY <1>1, <1>2, <1>3, TimerOK

\* A new wave preserves it, and forgets no boss when none is alive: this is why
\* nextWave is to be called then only, and why the commands are excluded in the
\* last part of BooksAreExact.
LEMMA StartWaveOK ==
    ASSUME NEW h, DirectorOK(h), NEW wave \in Int, NEW define \in DOMAIN Defines
    PROVE  /\ DirectorOK(StartWave(h, wave, define))
           /\ AllBosses(h) /\ LivingBosses(h) = {} => AllBosses(StartWave(h, wave, define))
<1> DEFINE k == StartWave(h, wave, define)
<1>1. NoRecipe \in Recipes /\ NoRecipe.limit = 0 /\ ~IsValid(NoRecipe)
    BY DEF NoRecipe, Recipe, Recipes, IsValid
<1>2. Len(h.corpses) \in Nat /\ HeadStart \in Int /\ {} \in SUBSET Actors
    BY HordeAssumption DEF DirectorOK, Directors
<1>3. /\ k \in Directors /\ k.mobj = h.mobj /\ k.monsterCounts = h.monsterCounts
      /\ k.spawnedHealth = h.spawnedHealth /\ k.killedHealth = h.killedHealth
      /\ k.corpses = h.corpses /\ k.oldCorpses = Len(h.corpses)
      /\ k.bosses = {} /\ k.bossRecipe = NoRecipe
    <2>1. h \in Directors /\ "starting" \in States
        BY DEF DirectorOK, States
    <2> DEFINE killed == h.killedHealth
               old == Len(h.corpses)
    <2> HIDE DEF k
    <2>2. k = [h EXCEPT !.state = "starting", !.wave = wave, !.define = define,
                        !.headStart = HeadStart, !.waveStartHealth = killed,
                        !.bosses = {}, !.bossesSize = 0, !.bossRecipe = NoRecipe,
                        !.oldCorpses = old]
        BY DEF k, StartWave
    <2>3. killed \in Int /\ old \in Nat
        BY <1>2, <2>1 DEF Directors
    <2> HIDE DEF killed, old
    <2>4. k \in Directors
        <3> DEFINE l == [h EXCEPT !.state = "starting", !.wave = wave, !.define = define,
                                  !.headStart = HeadStart, !.waveStartHealth = killed]
        <3>1. l \in Directors
            BY <1>2, <2>1, <2>3 DEF Directors
        <3>2. k = [l EXCEPT !.bosses = {}, !.bossesSize = 0, !.bossRecipe = NoRecipe,
                            !.oldCorpses = old]
            BY <2>2
        <3>3. 0 \in Int /\ NoRecipe \in Recipes /\ {} \in SUBSET Actors
            BY <1>1
        <3> HIDE DEF l
        <3> QED BY <2>3, <3>1, <3>2, <3>3 DEF Directors
    <2>5. /\ k.mobj = h.mobj /\ k.monsterCounts = h.monsterCounts
          /\ k.spawnedHealth = h.spawnedHealth /\ k.killedHealth = h.killedHealth
          /\ k.corpses = h.corpses /\ k.oldCorpses = old
          /\ k.bosses = {} /\ k.bossRecipe = NoRecipe
        BY <2>1, <2>2 DEF Directors
    <2> QED BY <2>4, <2>5 DEF old
<1> HIDE DEF k
<1>4. Books(k)
    BY <1>3, BooksSame DEF DirectorOK
<1>5. Corpses(k)
    BY <1>2, <1>3 DEF Corpses
<1>6. BossBooks(k)
    BY <1>1, <1>3 DEF DirectorOK, BossBooks
<1>7. AllBosses(h) /\ LivingBosses(h) = {} => AllBosses(k)
    BY <1>3 DEF AllBosses, LivingBosses, Living
<1> QED BY <1>3, <1>4, <1>5, <1>6, <1>7 DEF DirectorOK, k

\* P_HordePickDefine gives one of WAVE_DEFINES.
LEMMA PickDefineIs == \A wave : PickDefine(wave) \subseteq DOMAIN Defines
BY HordeAssumption DEF PickDefine

\* The next wave, or the massacre after the last one, preserves it.
LEMMA NextWaveOK ==
    ASSUME NEW h, DirectorOK(h), NEW k \in NextWave(h)
    PROVE  DirectorOK(k) /\ (AllBosses(h) /\ LivingBosses(h) = {} => AllBosses(k))
<1>1. CASE Waves > 0 /\ h.wave >= Waves
    <2> DEFINE m == Massacre(h)
    <2>1. k = [m EXCEPT !.playing = 0]
        BY <1>1 DEF NextWave
    <2>2. DirectorOK(m) /\ (AllBosses(h) => AllBosses(m))
        BY MassacreOK
    <2> HIDE DEF m
    <2>3. k \in Directors /\ Same(m, k)
        BY <2>1, <2>2 DEF DirectorOK, Directors, Same
    <2> QED BY <2>2, <2>3, SameOK
<1>2. CASE ~(Waves > 0 /\ h.wave >= Waves)
    <2>1. PICK define \in PickDefine(h.wave + 1) : k = StartWave(h, h.wave + 1, define)
        BY <1>2 DEF NextWave
    <2>2. h.wave + 1 \in Int
        BY DEF DirectorOK, Directors
    <2>3. define \in DOMAIN Defines
        BY PickDefineIs
    <2> QED BY <2>1, <2>2, <2>3, StartWaveOK
<1> QED BY <1>1, <1>2

\* A new level starts with exact books.
LEMMA ResetOK ==
    ASSUME NEW define \in DOMAIN Defines
    PROVE  DirectorOK(Reset(define)) /\ AllBosses(Reset(define))
<1> DEFINE k == Reset(define)
<1>1. NoRecipe \in Recipes /\ NoRecipe.limit = 0 /\ ~IsValid(NoRecipe)
    BY DEF NoRecipe, Recipe, Recipes, IsValid
<1>2. NoMobj \in Mobjs /\ NoMobj.status = "none" /\ NoMobj.oflags = {}
    BY DEF NoMobj, Mobjs
<1>3. k \in Directors
    <2>1. HeadStart \in Int
        BY HordeAssumption
    <2>2. "starting" \in States
        BY DEF States
    <2>3. [t \in Types |-> 0] \in [Types -> Int] /\ [a \in Actors |-> NoMobj] \in [Actors -> Mobjs]
        BY <1>2
    <2>4. <<>> \in Seq(Actors \cup {NoActor})
        OBVIOUS
    <2> QED BY <1>1, <2>1, <2>2, <2>3, <2>4 DEF Reset, Directors
<1>4. /\ \A a \in Actors : k.mobj[a] = NoMobj
      /\ \A t \in Types : k.monsterCounts[t] = 0
      /\ k.spawnedHealth = 0 /\ k.killedHealth = 0 /\ k.oldCorpses = 0
      /\ k.corpses = <<>> /\ k.bosses = {} /\ k.bossRecipe = NoRecipe
    BY DEF Reset
<1> HIDE DEF k
<1>5. InPool(k) = {}
    BY <1>2, <1>4 DEF InPool
<1>6. Books(k)
    <2>1. \A a \in Actors : PoolHealth(k)[a] = 0
        BY <1>5 DEF PoolHealth
    <2>2. SumFunctionOnSet(PoolHealth(k), Actors) = 0
        BY <2>1, ActorsFinite, SumZero
    <2>3. \A t \in Types : Counted(k, t) = {}
        BY <1>5 DEF Counted
    <2> QED BY <1>4, <1>5, <2>2, <2>3, FS_EmptySet DEF Books
<1>7. BossBooks(k)
    BY <1>1, <1>2, <1>4 DEF BossBooks
<1>8. Corpses(k)
    BY <1>4 DEF Corpses
<1>9. AllBosses(k)
    BY <1>2, <1>4 DEF AllBosses
<1> QED BY <1>3, <1>6, <1>7, <1>8, <1>9 DEF DirectorOK, k

-----------------------------------------------------------------------------
(* The steps of the director and of the players.                           *)

\* Deciding when the next spawn is due preserves it.
LEMMA WaitingOK ==
    ASSUME DirectorOK(horde), NEW offset \in 1 .. MaxWait, NEW h,
           h = [Ticked EXCEPT !.wait = offset - 1]
    PROVE  /\ DirectorOK(h) /\ (AllBosses(horde) => AllBosses(h))
           /\ h.state = Ticked.state
<1>1. offset - 1 \in Int
    BY HordeAssumption
<1>2. DirectorOK(Ticked) /\ (AllBosses(horde) => AllBosses(Ticked))
    BY TickedOK
<1>3. h.state = Ticked.state
    BY <1>2 DEF DirectorOK, Directors
<1> QED BY <1>1, <1>2, <1>3, TimerOK

\* The director advances from horde to k.
Advanced(k) == DirectorOK(k) /\ (AllBosses(horde) => AllBosses(k))

\* The number of free actors is a number.
LEMMA FreeIsFinite ==
    \A h : IsFiniteSet(Free(h)) /\ Cardinality(Free(h)) \in Nat
<1>1. \A h : IsFiniteSet(Free(h))
    BY ActorsFinite DEF Free
<1> QED BY <1>1, FS_CardinalityType

\* A spawn under pressure preserves it, however many of the recipe find a place.
LEMMA PressureOK ==
    ASSUME DirectorOK(horde), Pressure
    PROVE  Advanced(horde')
<1>1. PICK offset \in 1 .. MaxWait, recipe \in MonsterRecipes(Ticked) :
          \E n \in Placeable(recipe,
                             Cardinality(Free([Ticked EXCEPT !.wait = offset - 1])) - BossRoom) :
             horde' = SpawnMonsters([Ticked EXCEPT !.wait = offset - 1], recipe, n)
    BY DEF Pressure
<1> DEFINE h == [Ticked EXCEPT !.wait = offset - 1]
<1>2. DirectorOK(h) /\ (AllBosses(horde) => AllBosses(h))
    BY WaitingOK
<1>3. PICK n \in Placeable(recipe, Cardinality(Free(h)) - BossRoom) :
          horde' = SpawnMonsters(h, recipe, n)
    BY <1>1
<1> HIDE DEF h
<1>4. RecipeOK(recipe)
    BY TickedOK, RecipesAreOK DEF DirectorOK
<1>5. n \in Nat /\ n <= Cardinality(Free(h)) /\ recipe.type \in Types
    <2>1. BossRoom \in Nat
        BY HordeAssumption
    <2>2. Cardinality(Free(h)) \in Nat
        BY FreeIsFinite
    <2>3. recipe.count \in Nat /\ recipe.type \in Types
        BY <1>4 DEF RecipeOK
    <2> QED BY <2>1, <2>2, <2>3 DEF Placeable
<1> QED BY <1>2, <1>3, <1>5, SpawnMonstersOK DEF Advanced

\* The first bosses of a wave keep the limit of their recipe, because a recipe
\* asks for no more than its limit at a time.
LEMMA FirstBossesOK ==
    ASSUME NEW h, DirectorOK(h), AllBosses(horde) => AllBosses(h),
           ~IsValid(h.bossRecipe), FirstBosses(h)
    PROVE  Advanced(horde')
<1>1. PICK recipe \in BossRecipes(h) :
          \E n \in Placeable(recipe, Cardinality(Free(h))) :
             horde' = SpawnBosses([h EXCEPT !.bossRecipe = recipe], recipe, n)
    BY DEF FirstBosses
<1>2. PICK n \in Placeable(recipe, Cardinality(Free(h))) :
          horde' = SpawnBosses([h EXCEPT !.bossRecipe = recipe], recipe, n)
    BY <1>1
<1> DEFINE k == [h EXCEPT !.bossRecipe = recipe]
<1>3. RecipeOK(recipe)
    BY RecipesAreOK DEF DirectorOK
<1>4. /\ k \in Directors /\ k.bossRecipe = recipe
      /\ k.mobj = h.mobj /\ k.monsterCounts = h.monsterCounts
      /\ k.spawnedHealth = h.spawnedHealth /\ k.killedHealth = h.killedHealth
      /\ k.corpses = h.corpses /\ k.oldCorpses = h.oldCorpses /\ k.bosses = h.bosses
    BY <1>3 DEF RecipeOK, DirectorOK, Directors
<1> HIDE DEF k
<1>5. n \in Nat /\ n <= recipe.count /\ n <= Cardinality(Free(k)) /\ recipe.type \in Types
    <2>1. recipe.count \in Nat /\ recipe.type \in Types
        BY <1>3 DEF RecipeOK
    <2>2. Free(k) = Free(h)
        BY <1>4 DEF Free
    <2> QED BY <2>1, <2>2 DEF Placeable
<1>6. LivingBosses(k) = {}
    BY <1>4 DEF DirectorOK, BossBooks, LivingBosses
<1>7. RoomForBosses(k, n)
    <2>1. Books(k) /\ Corpses(k)
        BY <1>4, BooksSame DEF DirectorOK, Corpses
    <2>2. IsValid(recipe)
        BY <1>3, HordeAssumption DEF RecipeOK, IsValid
    <2>3. recipe.limit > 0 => Cardinality(LivingBosses(k)) + n <= recipe.limit
        <3>1. Cardinality(LivingBosses(k)) = 0
            BY <1>6, FS_EmptySet
        <3>2. recipe.limit \in Nat /\ recipe.count \in Nat
              /\ (recipe.limit > 0 => recipe.count <= recipe.limit)
            BY <1>3 DEF RecipeOK, Recipes
        <3> QED BY <1>5, <3>1, <3>2
    <2> QED BY <1>4, <2>1, <2>2, <2>3 DEF RoomForBosses, DirectorOK, BossBooks
<1>8. AllBosses(h) => AllBosses(k)
    BY <1>4 DEF AllBosses
<1>9. horde' = SpawnBosses(k, recipe, n)
    BY <1>2 DEF k
<1> QED BY <1>5, <1>7, <1>8, <1>9, SpawnBossesOK DEF Advanced

\* The bosses that were missing keep it: no more are asked for than the limit
\* leaves room for.
LEMMA MoreBossesOK ==
    ASSUME NEW h, DirectorOK(h), AllBosses(horde) => AllBosses(h),
           IsValid(h.bossRecipe), MoreBosses(h)
    PROVE  Advanced(horde')
<1> DEFINE recipe == MissingBosses(h)
           r == h.bossRecipe
           k == IF r.totalCount <= h.bossesSize
                THEN [h EXCEPT !.bossRecipe.limit = 0] ELSE h
           living == Cardinality(LivingBosses(h))
           missing == r.totalCount - h.bossesSize
           room == r.limit - living
           count == IF r.limit = 0 THEN missing
                    ELSE IF missing <= 0 THEN 0
                    ELSE IF room <= 0 THEN 0 ELSE IF room < missing THEN room ELSE missing
<1>1. PICK n \in Placeable(recipe, Cardinality(Free(h))) : horde' = SpawnBosses(k, recipe, n)
    BY DEF MoreBosses
<1>2. r \in Recipes /\ h.bossesSize \in Int /\ h \in Directors
    BY DEF DirectorOK, Directors
<1>3. living \in Nat
    <2>1. IsFiniteSet(LivingBosses(h))
        BY ActorsFinite DEF LivingBosses, Living
    <2> QED BY <2>1, FS_CardinalityType
<1>4. recipe = [r EXCEPT !.count = count]
    BY DEF MissingBosses
<1>5. /\ r.type \in Types /\ r.limit \in Nat /\ r.totalCount \in Int
    BY <1>2 DEF Recipes, IsValid
<1>6. r.limit > 0 => living <= r.limit
    BY DEF DirectorOK, BossBooks
<1> HIDE DEF living
<1>7. count \in Int /\ missing \in Int
    BY <1>2, <1>3, <1>5
<1>8. recipe.type \in Types /\ recipe.count = count
    <2> HIDE DEF count, recipe, r
    <2> QED BY <1>2, <1>4, <1>5, <1>7 DEF Recipes
<1>9. /\ k \in Directors
      /\ k.bossRecipe.limit = IF missing <= 0 THEN 0 ELSE r.limit
      /\ IsValid(k.bossRecipe)
      /\ k.mobj = h.mobj /\ k.monsterCounts = h.monsterCounts
      /\ k.spawnedHealth = h.spawnedHealth /\ k.killedHealth = h.killedHealth
      /\ k.corpses = h.corpses /\ k.oldCorpses = h.oldCorpses /\ k.bosses = h.bosses
    <2>1. CASE missing <= 0
        <3> DEFINE l == [r EXCEPT !.limit = 0]
        <3>1. l \in Recipes /\ l.limit = 0 /\ l.type = r.type /\ l.count = r.count
            BY <1>2 DEF Recipes
        <3>2. r.totalCount <= h.bossesSize
            BY <2>1, <1>2, <1>5
        <3>3. k = [h EXCEPT !.bossRecipe = l]
            BY <3>2
        <3> HIDE DEF k, l
        <3>4. k \in Directors /\ k.bossRecipe = l
              /\ k.mobj = h.mobj /\ k.monsterCounts = h.monsterCounts
              /\ k.spawnedHealth = h.spawnedHealth /\ k.killedHealth = h.killedHealth
              /\ k.corpses = h.corpses /\ k.oldCorpses = h.oldCorpses
              /\ k.bosses = h.bosses
            BY <1>2, <3>1, <3>3 DEF Directors
        <3> QED BY <2>1, <3>1, <3>4 DEF IsValid
    <2>2. CASE ~(missing <= 0)
        <3>1. ~(r.totalCount <= h.bossesSize)
            BY <2>2, <1>2, <1>5
        <3> QED BY <1>2, <2>2, <3>1
    <2> QED BY <2>1, <2>2
<1> HIDE DEF k, recipe
<1>10. n \in Nat /\ n <= count /\ n <= Cardinality(Free(k))
    <2>1. Free(k) = Free(h)
        BY <1>9 DEF Free
    <2>2. n \in 0 .. count /\ n <= Cardinality(Free(h))
        BY <1>8 DEF Placeable
    <2> HIDE DEF count
    <2> QED BY <1>7, <2>1, <2>2
<1>11. k.bossRecipe.limit > 0 => Cardinality(LivingBosses(k)) + n <= k.bossRecipe.limit
    <2>1. Cardinality(LivingBosses(k)) = living
        BY <1>9 DEF LivingBosses, Living, living
    <2>2. SUFFICES ASSUME missing > 0, r.limit > 0
                   PROVE  living + n <= r.limit
        BY <1>5, <1>7, <1>9, <2>1
    <2>3. CASE room <= 0
        <3>1. count = 0
            BY <2>2, <2>3, <1>5
        <3> QED BY <1>3, <1>5, <1>6, <1>10, <2>2, <3>1
    <2>4. CASE room > 0
        <3>1. count <= room
            BY <2>2, <2>4, <1>3, <1>5, <1>7
        <3> QED BY <1>3, <1>5, <1>7, <1>10, <3>1
    <2> QED BY <1>3, <1>5, <2>3, <2>4
<1>12. RoomForBosses(k, n)
    <2>1. Books(k) /\ Corpses(k)
        BY <1>9, BooksSame DEF DirectorOK, Corpses
    <2> QED BY <1>9, <1>11, <2>1 DEF RoomForBosses, DirectorOK, BossBooks
<1>13. AllBosses(h) => AllBosses(k)
    BY <1>9 DEF AllBosses
<1> QED BY <1>1, <1>8, <1>10, <1>12, <1>13, SpawnBossesOK DEF Advanced

\* A corpse that an arch-vile raises is alive outside the pool, and the books
\* say so.
LEMMA RaiseOK ==
    ASSUME DirectorOK(horde), NEW a \in Actors, Raise(a)
    PROVE  Advanced(horde')
<1> DEFINE h == horde
           mobj == [h.mobj EXCEPT ![a].status = "alive"]
           k == horde'
<1>1. h \in Directors /\ k = [h EXCEPT !.mobj = mobj]
    BY DEF Raise, DirectorOK
<1>2. h.mobj[a].status = "corpse" /\ "bosspool" \notin h.mobj[a].oflags
    BY DEF Raise
<1>3. /\ mobj \in [Actors -> Mobjs] /\ mobj[a].status = "alive"
      /\ mobj[a].oflags = h.mobj[a].oflags
      /\ \A b \in Actors \ {a} : mobj[b] = h.mobj[b]
    BY <1>1 DEF Directors, Mobjs
<1> HIDE DEF mobj
<1>4. k \in Directors /\ k.mobj = mobj /\ k.monsterCounts = h.monsterCounts
      /\ k.spawnedHealth = h.spawnedHealth /\ k.killedHealth = h.killedHealth
      /\ k.corpses = h.corpses /\ k.oldCorpses = h.oldCorpses
      /\ k.bosses = h.bosses /\ k.bossRecipe = h.bossRecipe
    BY <1>1, <1>3 DEF Directors
<1> HIDE DEF k
<1>5. Books(k)
    <2>1. a \notin InPool(h)
        BY <1>2 DEF DirectorOK, Books
    <2>2. "healthpool" \notin k.mobj[a].oflags
        BY <1>3, <1>4, <2>1 DEF InPool
    <2>3. Books(h)
        BY DEF DirectorOK
    <2>4. \A b \in Actors \ {a} : k.mobj[b] = h.mobj[b]
        BY <1>3, <1>4
    <2> HIDE DEF h
    <2> QED BY <1>1, <1>4, <2>1, <2>2, <2>3, <2>4, BooksOutside
<1>6. a \notin h.bosses
    BY <1>2 DEF DirectorOK, BossBooks
<1>7. LivingBosses(k) = LivingBosses(h)
    BY <1>3, <1>4, <1>6 DEF LivingBosses, Living
<1>8. BossBooks(k)
    <2>1. \A b \in Actors : k.mobj[b].status = "none" => k.mobj[b].oflags = {}
        BY <1>3, <1>4 DEF DirectorOK, BossBooks
    <2>2. \A b \in k.bosses : "bosspool" \in k.mobj[b].oflags
        BY <1>1, <1>3, <1>4, <1>6 DEF DirectorOK, BossBooks, Directors
    <2> QED BY <1>4, <1>7, <2>1, <2>2 DEF DirectorOK, BossBooks
<1>9. Corpses(k)
    BY <1>4 DEF DirectorOK, Corpses
<1>10. AllBosses(h) => AllBosses(k)
    BY <1>2, <1>3, <1>4 DEF AllBosses
<1> QED BY <1>4, <1>5, <1>8, <1>9, <1>10 DEF Advanced, DirectorOK, k

\* An administrator's command preserves all but the bosses, which it may leave
\* behind.
LEMMA CommandOK ==
    ASSUME DirectorOK(horde), Command
    PROVE  DirectorOK(horde')
<1>1. CASE horde' \in NextWave(horde)
    BY <1>1, NextWaveOK
<1>2. CASE \E define \in 1 .. Len(Defines) : horde' = StartWave(horde, horde.wave, define)
    <2>1. PICK define \in 1 .. Len(Defines) : horde' = StartWave(horde, horde.wave, define)
        BY <1>2
    <2>2. define \in DOMAIN Defines
        BY HordeAssumption
    <2>3. horde.wave \in Int
        BY DEF DirectorOK, Directors
    <2> QED BY <2>1, <2>2, <2>3, StartWaveOK
<1>3. CASE horde.bossesSize = 0 /\ horde' = [horde EXCEPT !.state = "wantboss"]
    <2>1. "wantboss" \in States
        BY DEF States
    <2>2. horde' \in Directors /\ Same(horde, horde')
        BY <1>3, <2>1 DEF DirectorOK, Directors, Same
    <2> QED BY <2>2, SameOK
<1> QED BY <1>1, <1>2, <1>3 DEF Command

\* Everything the director does once a second preserves it.
LEMMA SecondOK ==
    ASSUME DirectorOK(horde), Second
    PROVE  Advanced(horde')
<1>1. CASE BeatWave
    <2>1. DirectorOK(Ticked) /\ (AllBosses(horde) => AllBosses(Ticked))
        BY TickedOK
    <2>2. LivingBosses(Ticked) = {} /\ horde' \in NextWave(Ticked)
        BY <1>1 DEF BeatWave, WaveBeaten
    <2> QED BY <2>1, <2>2, NextWaveOK DEF Advanced
<1>2. CASE Wait
    <2> DEFINE i == IF Ticked.wait > 0 THEN Ticked.wait - 1 ELSE 0
    <2>1. DirectorOK(Ticked) /\ (AllBosses(horde) => AllBosses(Ticked))
        BY TickedOK
    <2>2. horde' = [Ticked EXCEPT !.wait = i]
        BY <1>2 DEF Wait
    <2>3. i \in Int
        BY <2>1 DEF DirectorOK, Directors
    <2> HIDE DEF i
    <2> QED BY <2>1, <2>2, <2>3, TimerOK DEF Advanced
<1>3. CASE SpawnNothing
    <2>1. PICK offset \in 1 .. MaxWait : horde' = [Ticked EXCEPT !.wait = offset - 1]
        BY <1>3 DEF SpawnNothing, SpawnDue
    <2> QED BY <2>1, WaitingOK DEF Advanced
<1>4. CASE Pressure
    BY <1>4, PressureOK
<1>5. CASE Bosses
    <2>1. PICK offset \in 1 .. MaxWait :
              LET h == [Ticked EXCEPT !.wait = offset - 1]
              IN  IF IsValid(h.bossRecipe) THEN MoreBosses(h) ELSE FirstBosses(h)
        BY <1>5 DEF Bosses
    <2> DEFINE h == [Ticked EXCEPT !.wait = offset - 1]
    <2>2. DirectorOK(h) /\ (AllBosses(horde) => AllBosses(h))
        BY WaitingOK
    <2>3. IF IsValid(h.bossRecipe) THEN MoreBosses(h) ELSE FirstBosses(h)
        BY <2>1
    <2> HIDE DEF h
    <2> QED BY <2>2, <2>3, MoreBossesOK, FirstBossesOK
<1> QED BY <1>1, <1>2, <1>3, <1>4, <1>5 DEF Second

-----------------------------------------------------------------------------
(* The theorems.                                                           *)

\* The inductive invariant. BooksAreExact and BossLimitHolds are not inductive:
\* the pool needs that a free actor has no flags and no boss among it, the limit
\* that no bosses are left without a recipe, and the corpses that the old ones
\* are among them.
HordeInv == DirectorOK(horde) /\ commands \in Nat /\ (commands = 0 => AllBosses(horde))

\* The invariant holds of the first level.
LEMMA InitInv == Init => HordeInv
<1> SUFFICES ASSUME Init PROVE HordeInv
    OBVIOUS
<1>1. PICK define \in PickDefine(1) : horde = Reset(define)
    BY DEF Init
<1>2. define \in DOMAIN Defines
    BY PickDefineIs
<1>3. DirectorOK(horde) /\ AllBosses(horde)
    BY <1>1, <1>2, ResetOK
<1> QED BY <1>3 DEF Init, HordeInv

\* And every step keeps it.
LEMMA StepInv == HordeInv /\ [Next]_vars => HordeInv'
<1> SUFFICES ASSUME HordeInv, [Next]_vars PROVE HordeInv'
    OBVIOUS
<1>0. DirectorOK(horde) /\ commands \in Nat /\ (commands = 0 => AllBosses(horde))
    BY DEF HordeInv
<1>1. CASE Tic
    <2>1. Advanced(horde')
        BY <1>0, <1>1, ChangeStateOK DEF Tic, Advanced
    <2> QED BY <1>0, <1>1, <2>1 DEF Tic, Advanced, HordeInv
<1>2. CASE Second
    <2>1. Advanced(horde')
        BY <1>0, <1>2, SecondOK
    <2>2. UNCHANGED commands
        BY <1>2 DEF Second, BeatWave, Wait, SpawnNothing, SpawnDue, Pressure, Bosses
    <2> QED BY <1>0, <2>1, <2>2 DEF Advanced, HordeInv
<1>3. ASSUME NEW a \in Actors, Shoot(a)
      PROVE  HordeInv'
    <2>1. Advanced(horde')
        BY <1>0, <1>3, KillOK DEF Shoot, Advanced
    <2> QED BY <1>0, <1>3, <2>1 DEF Shoot, Advanced, HordeInv
<1>4. ASSUME NEW a \in Actors, Raise(a)
      PROVE  HordeInv'
    <2>1. Advanced(horde')
        BY <1>0, <1>4, RaiseOK
    <2> QED BY <1>0, <1>4, <2>1 DEF Raise, Advanced, HordeInv
<1>5. CASE Command
    <2>1. DirectorOK(horde')
        BY <1>0, <1>5, CommandOK
    <2>2. commands' \in Nat /\ commands' # 0
        BY <1>0, <1>5 DEF Command
    <2> QED BY <2>1, <2>2 DEF HordeInv
<1>6. CASE NewLevel
    <2>1. PICK define \in PickDefine(1) : horde' = Reset(define)
        BY <1>6 DEF NewLevel
    <2>2. define \in DOMAIN Defines
        BY PickDefineIs
    <2>3. DirectorOK(horde') /\ AllBosses(horde')
        BY <2>1, <2>2, ResetOK
    <2> QED BY <1>0, <1>6, <2>3 DEF NewLevel, HordeInv
<1>7. CASE UNCHANGED vars
    BY <1>0, <1>7 DEF vars, HordeInv
<1> QED BY <1>1, <1>2, <1>3, <1>4, <1>5, <1>6, <1>7 DEF Next

\* The director is of its type, its books are exact and the corpses and bosses
\* it knows are those of the level, in every reachable state of the horde.
THEOREM Invariance == Spec => []HordeInv
BY InitInv, StepInv, PTL DEF Spec

\* The director's books agree with the level, however monsters come to their
\* end, for every number of actors, every set of types and health and every list
\* of definitions (P_AddHealthPool, P_RemoveHealthPool, SpawnMonster, m_bosses).
THEOREM HordeBooks == Spec => []BooksAreExact
<1>1. HordeInv => BooksAreExact
    <2> SUFFICES ASSUME HordeInv PROVE BooksAreExact
        OBVIOUS
    <2>1. Books(horde) /\ horde \in Directors /\ (commands = 0 => AllBosses(horde))
        BY DEF HordeInv, DirectorOK
    <2>2. AliveHealth(horde) = SumFunctionOnSet(PoolHealth(horde), Actors)
        BY <2>1 DEF Books, AliveHealth
    <2>3. InPool(horde) \subseteq Living(horde)
        BY <2>1 DEF Books, InPool, Living
    <2> QED BY <2>1, <2>2, <2>3 DEF BooksAreExact, PoolHealth, Books, Counted, AllBosses, Living
<1> QED BY <1>1, Invariance, PTL

\* A limit on bosses holds through partial and repeated spawns, whatever the
\* definitions say (m_bossRecipe.limit).
THEOREM HordeBossLimit == Spec => []BossLimitHolds
<1>1. HordeInv => BossLimitHolds
    BY DEF HordeInv, DirectorOK, BossBooks, BossLimitHolds
<1> QED BY <1>1, Invariance, PTL

=============================================================================
