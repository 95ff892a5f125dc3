------------------------------ MODULE SumProofs ------------------------------
(***************************************************************************)
(* What the sums of the models are worth.  Horde.tla adds up the health    *)
(* the groups hold and counts the monsters of a boss, Match.tla adds up    *)
(* the players' rounds, both with SumFunctionOnSet of the community        *)
(* modules, a recursive function over the subsets of its domain.  The      *)
(* lemmas below say what a proof needs of it: it has a value, it is an     *)
(* integer, it splits at any element, and it changes by what one value     *)
(* changes.                                                                *)
(*                                                                         *)
(* They are inductions over finite sets.  The library's theorems of        *)
(* induction take an operator as a parameter, which the provers cannot     *)
(* instantiate; each proof here supposes a counterexample instead, takes   *)
(* one that contains no smaller (LeastSubset, from the library's           *)
(* first-order theorem WFMin on well-founded orders), and refutes it.      *)
(***************************************************************************)
EXTENDS Integers, FiniteSets, Functions, FiniteSetTheorems, WellFoundedInduction, TLAPS

\* The element a sum takes first: the choice MapThenFoldSet makes.
Pick(S) == CHOOSE x \in S : TRUE

\* g is the table of the sums of f over the subsets of S: the recursive function
\* by which the community modules define SumFunctionOnSet.
IsPartialSums(g, f, S) ==
    g = [s \in SUBSET S |-> IF s = {} THEN 0 ELSE f[Pick(s)] + g[s \ {Pick(s)}]]

\* SumFunctionOnSet is the last entry of the table of partial sums, whichever
\* table is chosen; that there is one is proved below.
LEMMA SumIsLast ==
    ASSUME NEW f, NEW S
    PROVE  SumFunctionOnSet(f, S) = (CHOOSE g : IsPartialSums(g, f, S))[S]
BY DEF SumFunctionOnSet, FoldFunctionOnSet, MapThenFoldSet, IsPartialSums, Pick

\* A set of numbers that is not empty has a least one: the form in which the
\* proofs of this project use induction over the numbers.
LEMMA LeastNumber ==
    ASSUME NEW N \in SUBSET Nat, N # {}
    PROVE  \E n \in N : \A m \in N : n <= m
<1> DEFINE R == {ss \in Nat \X Nat : ss[1] < ss[2]}
<1>1. IsWellFoundedOn(R, Nat)
    BY NatLessThanWellFounded DEF OpToRel
<1>2. \E n \in N : \A m \in N : <<m, n>> \notin R
    <2> HIDE DEF R
    <2> QED BY <1>1, WFMin
<1>3. PICK n \in N : \A m \in N : <<m, n>> \notin R
    BY <1>2
<1>4. ASSUME NEW m \in N
      PROVE  n <= m
    <2>1. SUFFICES ASSUME m < n PROVE FALSE
        OBVIOUS
    <2>2. <<m, n>> \in R
        BY <2>1
    <2> QED BY <2>2, <1>3
<1> QED BY <1>4

\* Among some subsets of a finite set there is one that contains no other of
\* them: the form in which these proofs use induction over finite sets, as the
\* search for a smallest counterexample.
LEMMA LeastSubset ==
    ASSUME NEW S, IsFiniteSet(S), NEW D \in SUBSET (SUBSET S), D # {}
    PROVE  \E s \in D : \A t \in D : t \subseteq s => t = s
<1> DEFINE R == StrictSubsetOrdering(S)
<1>1. IsWellFoundedOn(R, FiniteSubsetsOf(S))
    BY FS_StrictSubsetOrderingWellFounded
<1>2. FiniteSubsetsOf(S) = SUBSET S
    BY FS_FiniteSubsetsOfFinite
<1>3. \E s \in D : \A t \in D : <<t, s>> \notin R
    <2> HIDE DEF R
    <2> QED BY <1>1, <1>2, WFMin
<1>4. PICK s \in D : \A t \in D : <<t, s>> \notin R
    BY <1>3
<1>5. ASSUME NEW t \in D, t \subseteq s, t # s
      PROVE  FALSE
    <2>1. <<t, s>> \in R
        BY <1>5 DEF StrictSubsetOrdering
    <2> QED BY <2>1, <1>4
<1> QED BY <1>5

\* Two tables of partial sums of one function agree wherever both have an entry.
LEMMA PartialSumsAgree ==
    ASSUME NEW f, NEW S, IsFiniteSet(S), NEW T \in SUBSET S, NEW U \in SUBSET S,
           NEW g, IsPartialSums(g, f, T), NEW h, IsPartialSums(h, f, U)
    PROVE  \A s \in SUBSET (T \cap U) : g[s] = h[s]
<1> DEFINE D == {s \in SUBSET (T \cap U) : g[s] # h[s]}
<1>1. SUFFICES ASSUME D # {} PROVE FALSE
    OBVIOUS
<1>2. PICK s \in D : \A t \in D : t \subseteq s => t = s
    <2>1. D \in SUBSET (SUBSET S)
        OBVIOUS
    <2> HIDE DEF D
    <2> QED BY <1>1, <2>1, LeastSubset
<1>3. s \in SUBSET T /\ s \in SUBSET U /\ g[s] # h[s]
    BY <1>2
<1>4. g[s] = IF s = {} THEN 0 ELSE f[Pick(s)] + g[s \ {Pick(s)}]
    BY <1>3 DEF IsPartialSums
<1>5. h[s] = IF s = {} THEN 0 ELSE f[Pick(s)] + h[s \ {Pick(s)}]
    BY <1>3 DEF IsPartialSums
<1>6. s # {}
    BY <1>3, <1>4, <1>5
<1>7. Pick(s) \in s
    BY <1>6 DEF Pick
<1>8. g[s \ {Pick(s)}] = h[s \ {Pick(s)}]
    BY <1>2, <1>7
<1> QED BY <1>3, <1>4, <1>5, <1>8

\* There is a table of partial sums over every finite set, so that the CHOOSE in
\* the definition of the sum picks one.
LEMMA PartialSumsExist ==
    ASSUME NEW f, NEW S, IsFiniteSet(S)
    PROVE  \E g : IsPartialSums(g, f, S)
<1> DEFINE D == {s \in SUBSET S : ~\E g : IsPartialSums(g, f, s)}
<1>1. SUFFICES ASSUME D # {} PROVE FALSE
    OBVIOUS
<1>2. PICK s \in D : \A t \in D : t \subseteq s => t = s
    <2>1. D \in SUBSET (SUBSET S)
        OBVIOUS
    <2> HIDE DEF D
    <2> QED BY <1>1, <2>1, LeastSubset
<1> DEFINE Sums(t) == CHOOSE g : IsPartialSums(g, f, t)
           Less(t) == t \ {Pick(t)}
           g == [t \in SUBSET s |-> IF t = {} THEN 0
                                    ELSE f[Pick(t)] + Sums(Less(t))[Less(t)]]
<1>3. ASSUME NEW t \in SUBSET s, t # {}
      PROVE  /\ Pick(t) \in t /\ Less(t) \in SUBSET s /\ Less(t) # s
             /\ IsPartialSums(Sums(Less(t)), f, Less(t))
    <2>1. Pick(t) \in t
        BY <1>3 DEF Pick
    <2>2. Less(t) \in SUBSET s /\ Less(t) # s
        BY <2>1
    <2>3. \E h : IsPartialSums(h, f, Less(t))
        BY <2>2, <1>2
    <2>4. IsPartialSums(Sums(Less(t)), f, Less(t))
        BY <2>3
    <2> QED BY <2>1, <2>2, <2>4
<1>4. ASSUME NEW t \in SUBSET s, t # {}
      PROVE  g[Less(t)] = Sums(Less(t))[Less(t)]
    <2> DEFINE u == Less(t)
    <2>1. u \in SUBSET s /\ IsPartialSums(Sums(u), f, u)
        BY <1>3, <1>4
    <2>2. Sums(u)[u] = IF u = {} THEN 0 ELSE f[Pick(u)] + Sums(u)[Less(u)]
        <3> HIDE DEF Sums, u
        <3> QED BY <2>1 DEF IsPartialSums
    <2>3. CASE u = {}
        <3> HIDE DEF Sums, u
        <3>1. g[u] = 0
            BY <2>1, <2>3
        <3> QED BY <3>1, <2>2, <2>3 DEF u
    <2>4. CASE u # {}
        <3>1. /\ Less(u) \in SUBSET u
              /\ IsPartialSums(Sums(Less(u)), f, Less(u))
            <4> HIDE DEF Sums, u
            <4> QED BY <2>1, <2>4, <1>3
        <3>2. Sums(Less(u))[Less(u)] = Sums(u)[Less(u)]
            <4> HIDE DEF Sums
            <4> DEFINE w == Less(u)
            <4>1. w \in SUBSET S /\ u \in SUBSET S
                BY <2>1, <3>1
            <4>2. w \in SUBSET (w \cap u)
                BY <3>1
            <4>3. IsPartialSums(Sums(w), f, w) /\ IsPartialSums(Sums(u), f, u)
                BY <2>1, <3>1
            <4> HIDE DEF u, w
            <4>4. \A x \in SUBSET (w \cap u) : Sums(w)[x] = Sums(u)[x]
                BY <4>1, <4>3, PartialSumsAgree
            <4>5. Sums(w)[w] = Sums(u)[w]
                BY <4>2, <4>4
            <4> QED BY <4>5 DEF w
        <3>3. g[u] = f[Pick(u)] + Sums(Less(u))[Less(u)]
            <4> HIDE DEF Sums, Less, u
            <4> QED BY <2>1, <2>4
        <3> HIDE DEF g, Sums
        <3> QED BY <3>2, <3>3, <2>2, <2>4
    <2> QED BY <2>3, <2>4
<1>5. IsPartialSums(g, f, s)
    <2>1. g = [t \in SUBSET s |-> IF t = {} THEN 0 ELSE f[Pick(t)] + g[Less(t)]]
        <3> HIDE DEF Sums, Less
        <3>1. \A t \in SUBSET s : g[t] = IF t = {} THEN 0 ELSE f[Pick(t)] + g[Less(t)]
            BY <1>4
        <3>2. g = [t \in SUBSET s |-> g[t]]
            OBVIOUS
        <3> HIDE DEF g
        <3> QED BY <3>1, <3>2
    <2> HIDE DEF g
    <2> QED BY <2>1 DEF IsPartialSums
<1> QED BY <1>5, <1>2

\* The sum over nothing is 0, and every other sum is split at the picked
\* element.
LEMMA SumUnfolds ==
    ASSUME NEW f, NEW S, IsFiniteSet(S)
    PROVE  SumFunctionOnSet(f, S) =
              IF S = {} THEN 0
              ELSE f[Pick(S)] + SumFunctionOnSet(f, S \ {Pick(S)})
<1> DEFINE G(T) == CHOOSE g : IsPartialSums(g, f, T)
           R == S \ {Pick(S)}
<1>1. IsPartialSums(G(S), f, S)
    BY PartialSumsExist
<1>2. G(S)[S] = IF S = {} THEN 0 ELSE f[Pick(S)] + G(S)[R]
    <2> HIDE DEF G
    <2> QED BY <1>1 DEF IsPartialSums
<1>3. R \in SUBSET S /\ IsFiniteSet(R)
    BY FS_Subset
<1>4. IsPartialSums(G(R), f, R)
    BY <1>3, PartialSumsExist
<1>5. G(S)[R] = G(R)[R]
    <2>1. R \in SUBSET (S \cap R) /\ S \in SUBSET S
        OBVIOUS
    <2> HIDE DEF G, R
    <2>2. \A x \in SUBSET (S \cap R) : G(S)[x] = G(R)[x]
        BY <1>1, <1>3, <1>4, <2>1, PartialSumsAgree
    <2> QED BY <2>1, <2>2
<1>6. SumFunctionOnSet(f, S) = G(S)[S] /\ SumFunctionOnSet(f, R) = G(R)[R]
    BY SumIsLast
<1> HIDE DEF G, R
<1> QED BY <1>2, <1>5, <1>6 DEF R

\* A sum of integers is an integer.
LEMMA SumIsInt ==
    ASSUME NEW S, IsFiniteSet(S), NEW f, \A x \in S : f[x] \in Int
    PROVE  SumFunctionOnSet(f, S) \in Int
<1> DEFINE Q(T) == SumFunctionOnSet(f, T)
           D == {T \in SUBSET S : Q(T) \notin Int}
<1>1. SUFFICES ASSUME D # {} PROVE FALSE
    OBVIOUS
<1>2. PICK T \in D : \A U \in D : U \subseteq T => U = T
    <2>1. D \in SUBSET (SUBSET S)
        OBVIOUS
    <2> HIDE DEF D
    <2> QED BY <1>1, <2>1, LeastSubset
<1>3. IsFiniteSet(T)
    BY FS_Subset
<1>4. Q(T) = IF T = {} THEN 0 ELSE f[Pick(T)] + Q(T \ {Pick(T)})
    BY <1>3, SumUnfolds
<1> HIDE DEF Q
<1>5. T # {} /\ Pick(T) \in T
    BY <1>4 DEF Pick
<1>6. Q(T \ {Pick(T)}) \in Int
    BY <1>2, <1>5
<1>7. f[Pick(T)] \in Int
    BY <1>5
<1> QED BY <1>4, <1>5, <1>6, <1>7

\* A sum is split at any of its elements, whichever one the definition picks:
\* the order in which a loop of the code adds the values up does not matter.
LEMMA SumSplits ==
    ASSUME NEW S, IsFiniteSet(S), NEW f, \A x \in S : f[x] \in Int, NEW e \in S
    PROVE  SumFunctionOnSet(f, S) = f[e] + SumFunctionOnSet(f, S \ {e})
<1> DEFINE Q(T) == SumFunctionOnSet(f, T)
           D == {T \in SUBSET S : ~\A y \in T : Q(T) = f[y] + Q(T \ {y})}
<1>1. SUFFICES ASSUME D # {} PROVE FALSE
    <2>1. D = {}
        BY <1>1
    <2>2. S \notin D
        BY <2>1
    <2> QED BY <2>2
<1>2. PICK T \in D : \A U \in D : U \subseteq T => U = T
    <2>1. D \in SUBSET (SUBSET S)
        OBVIOUS
    <2> HIDE DEF D
    <2> QED BY <1>1, <2>1, LeastSubset
<1>3. PICK y \in T : Q(T) # f[y] + Q(T \ {y})
    BY <1>2
<1> DEFINE z == Pick(T)
<1>4. IsFiniteSet(T) /\ z \in T
    BY FS_Subset DEF Pick
<1>5. Q(T) = f[z] + Q(T \ {z})
    BY <1>4, SumUnfolds
<1>6. \A U \in SUBSET S : Q(U) \in Int
    BY FS_Subset, SumIsInt
<1> HIDE DEF Q, z
<1>7. y # z
    BY <1>3, <1>5
<1>8. T \ {z} \notin D /\ T \ {y} \notin D
    BY <1>2, <1>4
<1>9. Q(T \ {z}) = f[y] + Q((T \ {z}) \ {y})
    BY <1>7, <1>8
<1>10. Q(T \ {y}) = f[z] + Q((T \ {y}) \ {z})
    BY <1>4, <1>7, <1>8
<1>11. (T \ {y}) \ {z} = (T \ {z}) \ {y}
    OBVIOUS
<1>12. f[y] \in Int /\ f[z] \in Int /\ Q((T \ {z}) \ {y}) \in Int
    BY <1>4, <1>6
<1> DEFINE r == Q((T \ {z}) \ {y})
<1>13. f[z] + (f[y] + r) = f[y] + (f[z] + r)
    BY <1>12
<1> HIDE DEF r
<1>14. Q(T \ {z}) = f[y] + r /\ Q(T \ {y}) = f[z] + r
    BY <1>9, <1>10, <1>11 DEF r
<1> QED BY <1>3, <1>5, <1>13, <1>14, Zenon

\* Functions that agree on a set have the same sum over it.
LEMMA SumAgrees ==
    ASSUME NEW S, IsFiniteSet(S), NEW f, NEW h, \A x \in S : f[x] = h[x]
    PROVE  SumFunctionOnSet(f, S) = SumFunctionOnSet(h, S)
<1> DEFINE Q(T) == SumFunctionOnSet(f, T)
           P(T) == SumFunctionOnSet(h, T)
           D == {T \in SUBSET S : Q(T) # P(T)}
<1>1. SUFFICES ASSUME D # {} PROVE FALSE
    OBVIOUS
<1>2. PICK T \in D : \A U \in D : U \subseteq T => U = T
    <2>1. D \in SUBSET (SUBSET S)
        OBVIOUS
    <2> HIDE DEF D
    <2> QED BY <1>1, <2>1, LeastSubset
<1>3. IsFiniteSet(T)
    BY FS_Subset
<1>4. Q(T) = IF T = {} THEN 0 ELSE f[Pick(T)] + Q(T \ {Pick(T)})
    BY <1>3, SumUnfolds
<1>5. P(T) = IF T = {} THEN 0 ELSE h[Pick(T)] + P(T \ {Pick(T)})
    BY <1>3, SumUnfolds
<1> HIDE DEF Q, P
<1>6. T # {} /\ Pick(T) \in T
    BY <1>2, <1>4, <1>5 DEF Pick
<1>7. Q(T \ {Pick(T)}) = P(T \ {Pick(T)})
    BY <1>2, <1>6
<1> QED BY <1>2, <1>4, <1>5, <1>6, <1>7

\* When one value of a function changes, its sum changes by as much: a counter
\* of one group and the total of all groups step together.
LEMMA SumChanges ==
    ASSUME NEW S, IsFiniteSet(S),
           NEW f, \A x \in S : f[x] \in Int, NEW h, \A x \in S : h[x] \in Int,
           NEW e \in S, \A x \in S \ {e} : f[x] = h[x]
    PROVE  SumFunctionOnSet(h, S) = SumFunctionOnSet(f, S) - f[e] + h[e]
<1>1. SumFunctionOnSet(f, S) = f[e] + SumFunctionOnSet(f, S \ {e})
    BY SumSplits
<1>2. SumFunctionOnSet(h, S) = h[e] + SumFunctionOnSet(h, S \ {e})
    BY SumSplits
<1>3. IsFiniteSet(S \ {e})
    BY FS_Subset
<1>4. SumFunctionOnSet(f, S \ {e}) = SumFunctionOnSet(h, S \ {e})
    BY <1>3, SumAgrees
<1>5. SumFunctionOnSet(f, S \ {e}) \in Int
    BY <1>3, SumIsInt
<1>6. f[e] \in Int /\ h[e] \in Int
    OBVIOUS
<1> QED BY <1>1, <1>2, <1>4, <1>5, <1>6

\* h is f, but k greater on C.
Grown(f, h, S, C, k) ==
    /\ \A x \in S : f[x] \in Int
    /\ \A x \in C : h[x] = f[x] + k
    /\ \A x \in S \ C : h[x] = f[x]

\* When a function grows by k on C, its sum grows by k for each element of C.
LEMMA SumGrows ==
    ASSUME NEW S, IsFiniteSet(S), NEW C \in SUBSET S, NEW k \in Int,
           NEW f, NEW h, Grown(f, h, S, C, k)
    PROVE  SumFunctionOnSet(h, S) = SumFunctionOnSet(f, S) + Cardinality(C) * k
<1>0. /\ \A x \in S : f[x] \in Int
      /\ \A x \in S : h[x] = IF x \in C THEN f[x] + k ELSE f[x]
    BY DEF Grown
<1> DEFINE Q(T) == SumFunctionOnSet(f, T)
           P(T) == SumFunctionOnSet(h, T)
           D == {T \in SUBSET S : P(T) # Q(T) + Cardinality(T \cap C) * k}
<1>1. SUFFICES ASSUME D # {} PROVE FALSE
    <2>1. S \notin D
        BY <1>1
    <2>2. S \cap C = C
        OBVIOUS
    <2> QED BY <2>1, <2>2
<1>2. PICK T \in D : \A U \in D : U \subseteq T => U = T
    <2>1. D \in SUBSET (SUBSET S)
        OBVIOUS
    <2> HIDE DEF D
    <2> QED BY <1>1, <2>1, LeastSubset
<1> DEFINE z == Pick(T)
           U == T \ {z}
<1>3. IsFiniteSet(T) /\ IsFiniteSet(T \cap C) /\ IsFiniteSet(U \cap C)
    BY FS_Subset
<1>4. Q(T) = IF T = {} THEN 0 ELSE f[z] + Q(U)
    BY <1>3, SumUnfolds
<1>5. P(T) = IF T = {} THEN 0 ELSE h[z] + P(U)
    BY <1>3, SumUnfolds
<1>6. Q(U) \in Int
    BY <1>0, FS_Subset, SumIsInt
<1>7. T # {} => z \in T
    BY DEF Pick
<1>8. Cardinality(U \cap C) \in Nat
    BY <1>3, FS_CardinalityType
<1> HIDE DEF Q, P, z
<1>9. T # {}
    <2>1. SUFFICES ASSUME T = {} PROVE FALSE
        OBVIOUS
    <2>2. Cardinality(T \cap C) = 0
        BY <2>1, FS_EmptySet
    <2> QED BY <2>1, <2>2, <1>4, <1>5, <1>2
<1>10. P(U) = Q(U) + Cardinality(U \cap C) * k
    BY <1>2, <1>7, <1>9
<1>11. f[z] \in Int /\ h[z] = IF z \in C THEN f[z] + k ELSE f[z]
    BY <1>0, <1>7, <1>9
<1>12. Cardinality(T \cap C) = IF z \in C THEN Cardinality(U \cap C) + 1
                                           ELSE Cardinality(U \cap C)
    <2>1. CASE z \in C
        <3>1. U \cap C = (T \cap C) \ {z} /\ z \in T \cap C
            BY <2>1, <1>7, <1>9
        <3>2. Cardinality((T \cap C) \ {z}) = Cardinality(T \cap C) - 1
            BY <3>1, <1>3, FS_RemoveElement
        <3>3. Cardinality(T \cap C) \in Nat
            BY <1>3, FS_CardinalityType
        <3> DEFINE m == Cardinality(U \cap C)
                   n == Cardinality(T \cap C)
        <3>4. m = n - 1 /\ n \in Nat
            BY <3>1, <3>2, <3>3
        <3> HIDE DEF m, n
        <3>5. n = m + 1
            BY <3>4
        <3> QED BY <3>5, <2>1 DEF m, n
    <2>2. CASE z \notin C
        <3>1. U \cap C = T \cap C
            BY <2>2
        <3> QED BY <3>1, <2>2
    <2> QED BY <2>1, <2>2
<1> DEFINE m == Cardinality(U \cap C)
<1>13. m \in Nat /\ (m + 1) * k = m * k + k /\ m * k \in Int
    BY <1>8
<1>14. P(T) = Q(T) + Cardinality(T \cap C) * k
    <2>1. CASE z \in C
        BY <2>1, <1>4, <1>5, <1>6, <1>9, <1>10, <1>11, <1>12, <1>13
    <2>2. CASE z \notin C
        BY <2>2, <1>4, <1>5, <1>6, <1>9, <1>10, <1>11, <1>12, <1>13
    <2> QED BY <2>1, <2>2
<1> QED BY <1>14, <1>2

\* The sum of zeroes is zero.
LEMMA SumZero ==
    ASSUME NEW S, IsFiniteSet(S), NEW f, \A x \in S : f[x] = 0
    PROVE  SumFunctionOnSet(f, S) = 0
<1> DEFINE Q(T) == SumFunctionOnSet(f, T)
           D == {T \in SUBSET S : Q(T) # 0}
<1>1. SUFFICES ASSUME D # {} PROVE FALSE
    OBVIOUS
<1>2. PICK T \in D : \A U \in D : U \subseteq T => U = T
    <2>1. D \in SUBSET (SUBSET S)
        OBVIOUS
    <2> HIDE DEF D
    <2> QED BY <1>1, <2>1, LeastSubset
<1>3. IsFiniteSet(T)
    BY FS_Subset
<1>4. Q(T) = IF T = {} THEN 0 ELSE f[Pick(T)] + Q(T \ {Pick(T)})
    BY <1>3, SumUnfolds
<1> HIDE DEF Q
<1>5. T # {} /\ Pick(T) \in T
    BY <1>2, <1>4 DEF Pick
<1>6. Q(T \ {Pick(T)}) = 0 /\ f[Pick(T)] = 0
    BY <1>2, <1>5
<1> QED BY <1>2, <1>4, <1>5, <1>6

=============================================================================
