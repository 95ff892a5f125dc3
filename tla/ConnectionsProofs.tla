-------------------------- MODULE ConnectionsProofs ---------------------------
(***************************************************************************)
(* The ids of Connections.tla are conserved for all values of the          *)
(* constants.  Only the server's part of the state matters; the clients    *)
(* and the network may do what they like.  What the loops over the slots   *)
(* leave behind is proved by the induction over numbers of SumProofs.      *)
(***************************************************************************)
EXTENDS Connections, SumProofs, TLAPS

\* What a slot holds.
Slots == [address : Clients, id : Ids, last_sequence : {"none", "first", "later"},
          playerstate : {"CONTACT", "LIVE", "DISCONNECT"}]

\* No two slots have the same id.
Distinct(slots) == \A i, j \in DOMAIN slots : slots[i].id = slots[j].id => i = j

\* The inductive invariant. IdsAreConserved needs that there are never more
\* slots than sv_maxclients allows, and with distinct ids: only then does an
\* empty set of free ids mean that all of them are in use, and a new player
\* cannot come before one is given back.
IdsInv ==
    /\ players \in Seq(Slots) /\ freeids \in SUBSET Ids
    /\ maxclients \in Limits /\ Len(players) <= maxclients
    /\ recovered \in 0 .. 2
    /\ recovered < 2 => Distinct(players) /\ IdsOf(players) \cap freeids = {}
    /\ recovered = 0 => IdsOf(players) \cup freeids \in {{}, Ids}

-----------------------------------------------------------------------------

\* The ids of the slots are ids.
LEMMA IdsAre ==
    ASSUME NEW slots \in Seq(Slots)
    PROVE  /\ IdsOf(slots) = {slots[i].id : i \in DOMAIN slots}
           /\ IdsOf(slots) \in SUBSET Ids
           /\ \A i \in DOMAIN slots : slots[i] \in Slots /\ slots[i].id \in Ids
<1>1. \A i \in DOMAIN slots : slots[i] \in Slots
    OBVIOUS
<1>2. \A i \in DOMAIN slots : slots[i].id \in Ids
    BY <1>1 DEF Slots
<1>3. IdsOf(slots) = {slots[i].id : i \in DOMAIN slots}
    BY DEF IdsOf, ToSet
<1> QED BY <1>1, <1>2, <1>3

\* Distinct slots hold as many ids as there are slots.
LEMMA DistinctCount ==
    ASSUME NEW slots \in Seq(Slots), Distinct(slots)
    PROVE  Cardinality(IdsOf(slots)) = Len(slots)
<1> DEFINE N == 1 .. Len(slots)
           T == IdsOf(slots)
           f == [i \in N |-> slots[i].id]
<1>1. Len(slots) \in Nat /\ DOMAIN slots = N
    OBVIOUS
<1>2. T = {slots[i].id : i \in N}
    BY <1>1, IdsAre
<1>3. f \in [N -> T]
    BY <1>2
<1>4. \A i, j \in N : f[i] = f[j] => i = j
    BY <1>1 DEF Distinct
<1>5. \A t \in T : \E i \in N : f[i] = t
    BY <1>2
<1> HIDE DEF f, T
<1>6. f \in Bijection(N, T)
    <2>1. DOMAIN f = N
        BY <1>3
    <2>2. f \in Injection(N, T)
        BY <1>3, <1>4, <2>1 DEF Injection, IsInjective
    <2>3. f \in Surjection(N, T)
        BY <1>3, <1>5, <2>1 DEF Surjection
    <2> QED BY <2>2, <2>3 DEF Bijection
<1>7. IsFiniteSet(N) /\ Cardinality(N) = Len(slots)
    <2>1. IsFiniteSet(1 .. Len(slots)) /\ Cardinality(1 .. Len(slots)) =
              IF 1 > Len(slots) THEN 0 ELSE Len(slots) - 1 + 1
        BY <1>1, FS_Interval
    <2> QED BY <1>1, <2>1
<1> HIDE DEF N
<1>8. Cardinality(T) = Cardinality(N)
    BY <1>6, <1>7, FS_Bijection DEF ExistsBijection
<1> QED BY <1>7, <1>8 DEF T

\* When every id is in use by one slot, there are as many slots as ids.
LEMMA AllIdsUsed ==
    ASSUME NEW slots \in Seq(Slots), Distinct(slots), IdsOf(slots) = Ids
    PROVE  Len(slots) = NumIds
<1>1. Cardinality(Ids) = Len(slots)
    BY DistinctCount
<1>2. Cardinality(1 .. NumIds) = IF 1 > NumIds THEN 0 ELSE NumIds - 1 + 1
    BY IdsAssumption, FS_Interval
<1> QED BY <1>1, <1>2, IdsAssumption DEF Ids

\* SV_GetFreeClient always finds an id: the set of free ids is initialized when
\* it is empty.
LEMMA LowestIdIs ==
    ASSUME IdsInv
    PROVE  /\ InitializedIds \in SUBSET Ids /\ LowestId \in InitializedIds
<1>1. InitializedIds \in SUBSET Ids /\ InitializedIds # {} /\ Ids \in SUBSET Nat
    BY IdsAssumption DEF IdsInv, InitializedIds, Ids
<1>2. \E id \in InitializedIds : \A other \in InitializedIds : id <= other
    BY <1>1, LeastNumber
<1> QED BY <1>1, <1>2 DEF LowestId

\* SV_FindPlayerByAddr finds a slot.
LEMMA SlotOfIs ==
    ASSUME IdsInv, NEW c \in Clients, HasSlot(c)
    PROVE  SlotOf(c) \in DOMAIN players
<1> DEFINE I == {i \in 1 .. Len(players) : players[i].address = c}
<1>1. SlotOf(c) = IF I # {} THEN CHOOSE m \in I : \A i \in I : m <= i ELSE 0
    BY DEF SlotOf, SelectInSeq, Min
<1>2. I # {} /\ I \in SUBSET Nat
    BY <1>1 DEF HasSlot
<1>3. \E m \in I : \A i \in I : m <= i
    <2> HIDE DEF I
    <2> QED BY <1>2, LeastNumber
<1>4. SlotOf(c) \in I
    <2> HIDE DEF I
    <2> QED BY <1>1, <1>2, <1>3
<1> QED BY <1>4 DEF IdsInv

-----------------------------------------------------------------------------
(* The steps of the server.                                                *)

\* What changes a slot but not its id preserves the invariant.
LEMMA SameIdsOK ==
    ASSUME IdsInv, players' \in Seq(Slots), Len(players') = Len(players),
           \A i \in DOMAIN players : players'[i].id = players[i].id,
           UNCHANGED <<freeids, maxclients, recovered>>
    PROVE  IdsInv'
<1>1. players \in Seq(Slots)
    BY DEF IdsInv
<1>2. DOMAIN players' = DOMAIN players
    BY <1>1
<1>3. /\ IdsOf(players) = {players[i].id : i \in DOMAIN players}
      /\ IdsOf(players') = {players'[i].id : i \in DOMAIN players'}
    BY <1>1, IdsAre
<1>4. IdsOf(players') = IdsOf(players)
    BY <1>2, <1>3
<1>5. Distinct(players) => Distinct(players')
    BY <1>2 DEF Distinct
<1> QED BY <1>4, <1>5 DEF IdsInv

\* Sending a client on its way out does not touch its id: it is given back when
\* the slot is removed.
LEMMA WithStateOK ==
    ASSUME IdsInv, NEW c \in Clients, HasSlot(c), players' = WithState(c, "DISCONNECT"),
           UNCHANGED <<freeids, maxclients, recovered>>
    PROVE  IdsInv'
<1> DEFINE s == SlotOf(c)
<1>1. s \in DOMAIN players /\ players \in Seq(Slots)
    BY SlotOfIs DEF IdsInv
<1>2. players' = [players EXCEPT ![s] = [players[s] EXCEPT !.playerstate = "DISCONNECT"]]
    BY <1>1 DEF WithState
<1> HIDE DEF s
<1>3. players[s] \in Slots
    BY <1>1
<1> DEFINE new == [players[s] EXCEPT !.playerstate = "DISCONNECT"]
<1>4. new \in Slots /\ new.id = players[s].id
    <2>1. "DISCONNECT" \in {"CONTACT", "LIVE", "DISCONNECT"}
        OBVIOUS
    <2> QED BY <1>3, <2>1 DEF Slots
<1> HIDE DEF new
<1>5. players' = [players EXCEPT ![s] = new]
    BY <1>2 DEF new
<1>6. /\ players' \in Seq(Slots) /\ Len(players') = Len(players)
      /\ \A i \in DOMAIN players : players'[i].id = players[i].id
    BY <1>1, <1>4, <1>5
<1> QED BY <1>6, SameIdsOK

\* Whoever has a state has a slot.
LEMMA StateIs ==
    ASSUME NEW c, State(c) \in {"CONTACT", "LIVE"}
    PROVE  HasSlot(c)
BY DEF State

\* SV_DropClient preserves the invariant.
LEMMA DropClientOK ==
    ASSUME IdsInv, NEW c \in Clients, DropClient(c)
    PROVE  IdsInv'
BY StateIs, WithStateOK DEF DropClient

\* And SV_DisconnectClient does.
LEMMA DisconnectClientOK ==
    ASSUME IdsInv, NEW c \in Clients, DisconnectClient(c)
    PROVE  IdsInv'
BY StateIs, WithStateOK DEF DisconnectClient

\* An acknowledgement, of the first packet or of a later one, preserves it.
LEMMA AcknowledgeOK ==
    ASSUME IdsInv, NEW c \in Clients, AcknowledgeFirst(c) \/ AcknowledgeLater(c)
    PROVE  IdsInv'
<1> DEFINE s == SlotOf(c)
<1>1. s \in DOMAIN players /\ players \in Seq(Slots)
    BY StateIs, SlotOfIs DEF IdsInv, AcknowledgeFirst, AcknowledgeLater
<1>2. \/ players' = [players EXCEPT ![s].last_sequence = "first", ![s].playerstate = "LIVE"]
      \/ players' = [players EXCEPT ![s].last_sequence = "later"]
    BY DEF AcknowledgeFirst, AcknowledgeLater
<1> HIDE DEF s
<1>3. players[s] \in Slots
    BY <1>1
<1>4. PICK new \in Slots : new.id = players[s].id /\ players' = [players EXCEPT ![s] = new]
    <2>1. /\ "LIVE" \in {"CONTACT", "LIVE", "DISCONNECT"}
          /\ "first" \in {"none", "first", "later"} /\ "later" \in {"none", "first", "later"}
        OBVIOUS
    <2>2. CASE players' = [players EXCEPT ![s].last_sequence = "first",
                                          ![s].playerstate = "LIVE"]
        <3> DEFINE new == [players[s] EXCEPT !.last_sequence = "first",
                                             !.playerstate = "LIVE"]
        <3>1. new \in Slots /\ new.id = players[s].id
            BY <1>3, <2>1 DEF Slots
        <3>2. players' = [players EXCEPT ![s] = new]
            BY <1>1, <1>3, <2>2 DEF Slots
        <3> QED BY <3>1, <3>2
    <2>3. CASE players' = [players EXCEPT ![s].last_sequence = "later"]
        <3> DEFINE new == [players[s] EXCEPT !.last_sequence = "later"]
        <3>1. new \in Slots /\ new.id = players[s].id
            BY <1>3, <2>1 DEF Slots
        <3>2. players' = [players EXCEPT ![s] = new]
            BY <1>1, <1>3, <2>3 DEF Slots
        <3> QED BY <3>1, <3>2
    <2> QED BY <1>2, <2>2, <2>3
<1>5. /\ players' \in Seq(Slots) /\ Len(players') = Len(players)
      /\ \A i \in DOMAIN players : players'[i].id = players[i].id
    BY <1>1, <1>4
<1>6. UNCHANGED <<freeids, maxclients, recovered>>
    BY DEF AcknowledgeFirst, AcknowledgeLater
<1> QED BY <1>5, <1>6, SameIdsOK

\* The id that a new client gets is nobody else's: the free ids are initialized
\* with everybody's when they have run out, but that happens on an empty server
\* only, or after an error.
LEMMA ConnectClientOK ==
    ASSUME IdsInv, NEW c \in Clients, ConnectClient(c)
    PROVE  IdsInv'
<1> DEFINE new == [address |-> c, id |-> LowestId, last_sequence |-> "none",
                   playerstate |-> IF c \in Banned THEN "DISCONNECT" ELSE "CONTACT"]
<1>1. /\ players \in Seq(Slots) /\ freeids \in SUBSET Ids
      /\ maxclients \in Nat /\ Len(players) < maxclients /\ maxclients <= NumIds
    BY LimitsAssumption, IdsAssumption DEF IdsInv, ConnectClient
<1>2. InitializedIds \in SUBSET Ids /\ LowestId \in InitializedIds
    BY LowestIdIs
<1>3. new \in Slots /\ new.id = LowestId
    <2>1. /\ "none" \in {"none", "first", "later"}
          /\ "DISCONNECT" \in {"CONTACT", "LIVE", "DISCONNECT"}
          /\ "CONTACT" \in {"CONTACT", "LIVE", "DISCONNECT"}
        OBVIOUS
    <2> QED BY <1>2, <2>1 DEF Slots
<1>4. /\ players' = Append(players, new) /\ freeids' = InitializedIds \ {LowestId}
      /\ maxclients' = maxclients
      /\ recovered' = IF recovered = 1 /\ freeids = {} /\ players # << >>
                      THEN 2 ELSE recovered
    BY DEF ConnectClient
<1> HIDE DEF new
<1>5. /\ players' \in Seq(Slots) /\ Len(players') = Len(players) + 1
      /\ \A i \in DOMAIN players : players'[i] = players[i]
      /\ players'[Len(players) + 1] = new
      /\ DOMAIN players' = DOMAIN players \cup {Len(players) + 1}
    BY <1>1, <1>3, <1>4
<1>6. IdsOf(players') = IdsOf(players) \cup {LowestId}
    <2>1. /\ IdsOf(players') = {players'[i].id : i \in DOMAIN players'}
          /\ IdsOf(players) = {players[i].id : i \in DOMAIN players}
        BY <1>1, <1>5, IdsAre
    <2> QED BY <1>3, <1>5, <2>1
<1>7. ASSUME recovered' < 2
      PROVE  recovered < 2 /\ IdsOf(players) \cap InitializedIds = {}
    <2>1. recovered \in 0 .. 2 /\ recovered < 2
        BY <1>4, <1>7 DEF IdsInv
    <2>2. Distinct(players) /\ IdsOf(players) \cap freeids = {}
        BY <2>1 DEF IdsInv
    <2>3. CASE freeids # {}
        BY <2>1, <2>2, <2>3 DEF InitializedIds
    <2>4. CASE freeids = {} /\ players = << >>
        <3>1. IdsOf(players) = {}
            BY <2>4 DEF IdsOf, ToSet
        <3> QED BY <2>1, <3>1
    <2>5. CASE freeids = {} /\ players # << >>
        <3>1. recovered = 0
            BY <1>4, <1>7, <2>1, <2>5
        <3>2. IdsOf(players) \in {{}, Ids}
            BY <2>5, <3>1 DEF IdsInv
        <3>3. IdsOf(players) # {}
            <4>1. 1 \in DOMAIN players
                BY <1>1, <2>5
            <4>2. IdsOf(players) = {players[i].id : i \in DOMAIN players}
                BY <1>1, IdsAre
            <4>3. players[1].id \in IdsOf(players)
                BY <4>1, <4>2
            <4> QED BY <4>3
        <3>4. Len(players) = NumIds
            BY <1>1, <2>2, <3>2, <3>3, AllIdsUsed
        <3> QED BY <1>1, <3>4
    <2> QED BY <2>3, <2>4, <2>5
<1>8. ASSUME recovered' < 2
      PROVE  Distinct(players') /\ IdsOf(players') \cap freeids' = {}
    <2>1. Distinct(players) /\ IdsOf(players) \cap InitializedIds = {}
        BY <1>7, <1>8 DEF IdsInv
    <2>2. \A i \in DOMAIN players : players[i].id # LowestId
        BY <1>1, <1>2, <2>1, IdsAre
    <2>3. Distinct(players')
        BY <1>3, <1>5, <2>1, <2>2 DEF Distinct
    <2> QED BY <1>2, <1>4, <1>6, <2>1, <2>3
<1>9. ASSUME recovered' = 0
      PROVE  IdsOf(players') \cup freeids' \in {{}, Ids}
    <2>1. recovered = 0
        BY <1>4, <1>9
    <2>2. IdsOf(players) \cup InitializedIds = Ids
        <3>1. IdsOf(players) \cup freeids \in {{}, Ids}
            BY <2>1 DEF IdsInv
        <3>2. IdsOf(players) \in SUBSET Ids
            BY <1>1, IdsAre
        <3> QED BY <1>1, <3>1, <3>2 DEF InitializedIds
    <2> QED BY <1>2, <1>4, <1>6, <2>2
<1>10. recovered' \in 0 .. 2 /\ maxclients' \in Limits /\ freeids' \in SUBSET Ids
    BY <1>2, <1>4 DEF IdsInv
<1> QED BY <1>1, <1>4, <1>5, <1>8, <1>9, <1>10 DEF IdsInv

-----------------------------------------------------------------------------
(* The loop that removes slots.                                            *)

\* g is the table of what remains of the first slots: the recursive function of
\* Remaining by name.
IsRest(g, slots, n) ==
    g = [k \in 0 .. n |->
            IF k = 0 THEN << >>
            ELSE IF slots[k].playerstate = "DISCONNECT" THEN g[k - 1]
            ELSE Append(g[k - 1], slots[k])]

\* What remains is the last entry of the table, whichever table is chosen.
LEMMA RestIsLast ==
    ASSUME NEW slots
    PROVE  Remaining(slots) = (CHOOSE g : IsRest(g, slots, Len(slots)))[Len(slots)]
BY DEF Remaining, IsRest

\* There is a table for every number of slots, so that the CHOOSE in Remaining
\* picks one.
LEMMA RestExists ==
    ASSUME NEW slots, NEW n \in Nat
    PROVE  \E g : IsRest(g, slots, n)
<1> DEFINE D == {k \in Nat : ~\E g : IsRest(g, slots, k)}
<1>1. SUFFICES ASSUME D # {} PROVE FALSE
    OBVIOUS
<1>2. PICK k \in D : \A m \in D : k <= m
    <2>1. D \in SUBSET Nat
        OBVIOUS
    <2> HIDE DEF D
    <2> QED BY <1>1, <2>1, LeastNumber
<1>3. k \in Nat /\ ~\E g : IsRest(g, slots, k)
    BY <1>2
<1>4. CASE k = 0
    <2> DEFINE g == [m \in 0 .. k |-> << >>]
    <2>1. g = [m \in 0 .. k |->
                  IF m = 0 THEN << >>
                  ELSE IF slots[m].playerstate = "DISCONNECT" THEN g[m - 1]
                  ELSE Append(g[m - 1], slots[m])]
        BY <1>4
    <2> HIDE DEF g
    <2> QED BY <2>1, <1>3 DEF IsRest
<1>5. CASE k # 0
    <2>1. k - 1 \in Nat /\ k - 1 \notin D
        BY <1>2, <1>3, <1>5
    <2>2. PICK h : IsRest(h, slots, k - 1)
        BY <2>1
    <2> DEFINE last == IF slots[k].playerstate = "DISCONNECT" THEN h[k - 1]
                       ELSE Append(h[k - 1], slots[k])
               g == [m \in 0 .. k |-> IF m = k THEN last ELSE h[m]]
               next(m) == IF m = 0 THEN << >>
                          ELSE IF slots[m].playerstate = "DISCONNECT" THEN g[m - 1]
                          ELSE Append(g[m - 1], slots[m])
    <2>3. ASSUME NEW m \in 0 .. k
          PROVE  g[m] = next(m)
        <3>1. CASE m = k
            <4>1. g[m] = last /\ g[k - 1] = h[k - 1]
                BY <1>3, <1>5, <3>1
            <4> QED BY <4>1, <3>1, <1>5
        <3>2. CASE m # k
            <4>1. m \in 0 .. k - 1 /\ g[m] = h[m] /\ (m # 0 => g[m - 1] = h[m - 1])
                BY <1>3, <3>2
            <4>2. h[m] = IF m = 0 THEN << >>
                         ELSE IF slots[m].playerstate = "DISCONNECT" THEN h[m - 1]
                         ELSE Append(h[m - 1], slots[m])
                BY <2>2, <4>1 DEF IsRest
            <4> HIDE DEF g
            <4> QED BY <4>1, <4>2
        <3> QED BY <3>1, <3>2
    <2>4. g = [m \in 0 .. k |-> next(m)]
        <3>1. g = [m \in 0 .. k |-> g[m]]
            OBVIOUS
        <3> HIDE DEF g, next
        <3> QED BY <2>3, <3>1
    <2>5. IsRest(g, slots, k)
        <3> HIDE DEF g
        <3> QED BY <2>4 DEF IsRest
    <2> QED BY <2>5, <1>3
<1> QED BY <1>4, <1>5

\* r is what remains of the first k slots.
RestOf(r, slots, k) ==
    /\ r \in Seq(Slots) /\ Len(r) <= k
    /\ \A i \in DOMAIN r : \E j \in 1 .. k :
          r[i] = slots[j] /\ slots[j].playerstate # "DISCONNECT"
    /\ \A j \in 1 .. k : slots[j].playerstate # "DISCONNECT" =>
          \E i \in DOMAIN r : r[i] = slots[j]
    /\ Distinct(slots) => Distinct(r)

\* One turn of the loop at the end of SV_RunTics.
LEMMA RestStep ==
    ASSUME NEW slots \in Seq(Slots), NEW k \in 1 .. Len(slots), NEW r,
           RestOf(r, slots, k - 1)
    PROVE  IF slots[k].playerstate = "DISCONNECT" THEN RestOf(r, slots, k)
           ELSE RestOf(Append(r, slots[k]), slots, k)
<1>1. k - 1 \in Nat /\ 1 .. k = (1 .. k - 1) \cup {k} /\ slots[k] \in Slots
    OBVIOUS
<1>2. CASE slots[k].playerstate = "DISCONNECT"
    <2>1. r \in Seq(Slots) /\ Len(r) <= k
        BY <1>1 DEF RestOf
    <2> QED BY <1>1, <1>2, <2>1 DEF RestOf
<1>3. CASE slots[k].playerstate # "DISCONNECT"
    <2> DEFINE s == Append(r, slots[k])
    <2>1. /\ r \in Seq(Slots) /\ Len(r) <= k - 1 /\ Len(r) \in Nat
          /\ DOMAIN r = 1 .. Len(r)
        BY DEF RestOf
    <2>2. /\ s \in Seq(Slots) /\ Len(s) = Len(r) + 1
          /\ DOMAIN s = DOMAIN r \cup {Len(r) + 1}
          /\ \A i \in DOMAIN r : s[i] = r[i]
          /\ s[Len(r) + 1] = slots[k]
        BY <1>1, <2>1
    <2> HIDE DEF s
    <2>3. Len(s) <= k
        BY <1>1, <2>1, <2>2
    <2>4. \A i \in DOMAIN s : \E j \in 1 .. k :
              s[i] = slots[j] /\ slots[j].playerstate # "DISCONNECT"
        <3>1. \A i \in DOMAIN r : \E j \in 1 .. k - 1 :
                  r[i] = slots[j] /\ slots[j].playerstate # "DISCONNECT"
            BY DEF RestOf
        <3>2. \A i \in DOMAIN r : \E j \in 1 .. k :
                  s[i] = slots[j] /\ slots[j].playerstate # "DISCONNECT"
            BY <1>1, <2>2, <3>1
        <3>3. k \in 1 .. k
            BY <1>1
        <3> QED BY <1>3, <2>2, <3>2, <3>3
    <2>5. \A j \in 1 .. k : slots[j].playerstate # "DISCONNECT" =>
              \E i \in DOMAIN s : s[i] = slots[j]
        <3>1. Len(r) + 1 \in DOMAIN s
            BY <2>2
        <3> QED BY <1>1, <2>2, <3>1 DEF RestOf
    <2>6. ASSUME Distinct(slots) PROVE Distinct(s)
        <3>1. Distinct(r)
            BY <2>6 DEF RestOf
        <3>2. \A i \in DOMAIN r : \E j \in 1 .. k - 1 : r[i] = slots[j]
            BY DEF RestOf
        <3>3. \A j \in 1 .. k - 1 : slots[j].id # slots[k].id
            BY <1>1, <2>6 DEF Distinct
        <3>4. \A i \in DOMAIN r : r[i].id # slots[k].id
            BY <3>2, <3>3
        <3> QED BY <2>2, <3>1, <3>4 DEF Distinct
    <2>7. RestOf(s, slots, k)
        BY <2>2, <2>3, <2>4, <2>5, <2>6 DEF RestOf
    <2> QED BY <1>3, <2>7 DEF s
<1> QED BY <1>2, <1>3

\* The loop keeps exactly the slots that are not on their way out.
LEMMA RemainingIs ==
    ASSUME NEW slots \in Seq(Slots)
    PROVE  RestOf(Remaining(slots), slots, Len(slots))
<1> DEFINE N == Len(slots)
           g == CHOOSE h : IsRest(h, slots, N)
           D == {k \in 0 .. N : ~RestOf(g[k], slots, k)}
<1>0. N \in Nat
    OBVIOUS
<1>1. IsRest(g, slots, N)
    BY RestExists
<1>2. D = {}
    <2>1. SUFFICES ASSUME D # {} PROVE FALSE
        OBVIOUS
    <2>2. PICK k \in D : \A m \in D : k <= m
        <3>1. D \in SUBSET Nat
            OBVIOUS
        <3> HIDE DEF D
        <3> QED BY <2>1, <3>1, LeastNumber
    <2>3. k \in 0 .. N /\ ~RestOf(g[k], slots, k)
        BY <2>2
    <2> HIDE DEF g
    <2>4. g[k] = IF k = 0 THEN << >>
                 ELSE IF slots[k].playerstate = "DISCONNECT" THEN g[k - 1]
                 ELSE Append(g[k - 1], slots[k])
        BY <1>1, <2>3 DEF IsRest
    <2>5. CASE k = 0
        <3>1. RestOf(<< >>, slots, 0)
            BY DEF RestOf, Distinct
        <3> QED BY <2>3, <2>4, <2>5, <3>1
    <2>6. CASE k # 0
        <3>1. k - 1 \in 0 .. N /\ k - 1 \notin D /\ k \in 1 .. N
            BY <2>2, <2>3, <2>6
        <3>2. RestOf(g[k - 1], slots, k - 1)
            BY <3>1
        <3>3. RestOf(g[k], slots, k)
            BY <2>4, <2>6, <3>1, <3>2, RestStep
        <3> QED BY <2>3, <3>3
    <2> QED BY <2>5, <2>6
<1>3. N \in 0 .. N /\ N \notin D
    BY <1>0, <1>2
<1>4. RestOf(g[N], slots, N)
    BY <1>3
<1>5. Remaining(slots) = g[N]
    BY RestIsLast
<1> QED BY <1>4, <1>5

\* The slots that are removed give back their ids, and theirs only.
LEMMA RemoveDisconnectedOK ==
    ASSUME IdsInv, RemoveDisconnected
    PROVE  IdsInv'
<1> DEFINE r == Remaining(players)
           given == {players[i].id : i \in Leaving(players)}
<1>1. players \in Seq(Slots) /\ freeids \in SUBSET Ids
    BY DEF IdsInv
<1>2. RestOf(r, players, Len(players))
    BY <1>1, RemainingIs
<1>3. players' = r /\ freeids' = freeids \cup given /\ UNCHANGED <<maxclients, recovered>>
    BY DEF RemoveDisconnected
<1> HIDE DEF r, given
<1>4. DOMAIN players = 1 .. Len(players) /\ Len(players) \in Nat
    BY <1>1
<1>5. /\ IdsOf(players) = {players[i].id : i \in DOMAIN players}
      /\ IdsOf(players) \in SUBSET Ids
    BY <1>1, IdsAre
<1>6. r \in Seq(Slots) /\ Len(r) <= Len(players) /\ Len(r) \in Nat
    BY <1>2 DEF RestOf
<1>7. IdsOf(r) = {r[i].id : i \in DOMAIN r}
    BY <1>6, IdsAre
<1>8. Leaving(players) = {i \in DOMAIN players : players[i].playerstate = "DISCONNECT"}
    BY DEF Leaving
<1>9. /\ \A i \in DOMAIN r : \E j \in DOMAIN players :
            r[i] = players[j] /\ j \notin Leaving(players)
      /\ \A j \in DOMAIN players : j \notin Leaving(players) =>
            \E i \in DOMAIN r : r[i] = players[j]
    BY <1>2, <1>4, <1>8 DEF RestOf
<1>10. IdsOf(r) \cup given = IdsOf(players)
    <2>1. given = {players[j].id : j \in Leaving(players)}
        BY DEF given
    <2>2. IdsOf(r) \subseteq IdsOf(players) /\ given \subseteq IdsOf(players)
        BY <1>5, <1>7, <1>8, <1>9, <2>1
    <2>3. ASSUME NEW j \in DOMAIN players
          PROVE  players[j].id \in IdsOf(r) \cup given
        BY <1>7, <1>9, <2>1
    <2> QED BY <1>5, <2>2, <2>3
<1>11. ASSUME Distinct(players)
       PROVE  Distinct(r) /\ IdsOf(r) \cap given = {}
    <2>1. Distinct(r)
        BY <1>2, <1>11 DEF RestOf
    <2>2. \A i \in DOMAIN r, j \in Leaving(players) : r[i].id # players[j].id
        BY <1>8, <1>9, <1>11 DEF Distinct
    <2> QED BY <1>7, <2>1, <2>2 DEF given
<1>12. maxclients \in Limits /\ Len(players) <= maxclients /\ maxclients \in Nat
    BY LimitsAssumption, IdsAssumption DEF IdsInv
<1>13. Len(r) <= maxclients
    BY <1>4, <1>6, <1>12
<1>14. recovered < 2 => Distinct(r) /\ IdsOf(r) \cap (freeids \cup given) = {}
    <2> SUFFICES ASSUME recovered < 2
                 PROVE  Distinct(r) /\ IdsOf(r) \cap (freeids \cup given) = {}
        OBVIOUS
    <2>1. Distinct(players) /\ IdsOf(players) \cap freeids = {}
        BY DEF IdsInv
    <2> QED BY <1>10, <1>11, <2>1
<1>15. recovered = 0 => IdsOf(r) \cup (freeids \cup given) \in {{}, Ids}
    <2>1. IdsOf(r) \cup (freeids \cup given) = IdsOf(players) \cup freeids
        BY <1>10
    <2> QED BY <2>1 DEF IdsInv
<1>16. freeids \cup given \in SUBSET Ids
    BY <1>1, <1>5, <1>10
<1> QED BY <1>3, <1>6, <1>12, <1>13, <1>14, <1>15, <1>16 DEF IdsInv

\* The clients that a lower limit sends away give back their ids, and those who
\* stay keep theirs.
LEMMA SetMaxclientsOK ==
    ASSUME IdsInv, NEW limit \in Limits, SetMaxclients(limit)
    PROVE  IdsInv'
<1> DEFINE kept == IF Len(players) < limit THEN Len(players) ELSE limit
           r == SubSeq(players, 1, kept)
           dropped == SubSeq(players, kept + 1, Len(players))
<1>1. players \in Seq(Slots) /\ freeids \in SUBSET Ids /\ limit \in Nat
    BY LimitsAssumption, IdsAssumption DEF IdsInv
<1>2. /\ players' = r /\ freeids' = freeids \cup IdsOf(dropped)
      /\ maxclients' = limit /\ recovered' = recovered
    BY DEF SetMaxclients
<1>3. kept \in 0 .. Len(players) /\ kept <= limit /\ DOMAIN players = 1 .. Len(players)
    BY <1>1
<1> HIDE DEF kept
<1>4. /\ r \in Seq(Slots) /\ DOMAIN r = 1 .. kept /\ Len(r) = kept
      /\ \A i \in 1 .. kept : r[i] = players[i]
    BY <1>1, <1>3
<1>5. /\ dropped \in Seq(Slots) /\ DOMAIN dropped = 1 .. Len(players) - kept
      /\ \A i \in 1 .. Len(players) - kept : dropped[i] = players[kept + i]
    BY <1>1, <1>3
<1> HIDE DEF r, dropped
<1>6. /\ IdsOf(players) = {players[i].id : i \in DOMAIN players}
      /\ IdsOf(players) \in SUBSET Ids
      /\ IdsOf(r) = {r[i].id : i \in DOMAIN r}
      /\ IdsOf(dropped) = {dropped[i].id : i \in DOMAIN dropped}
    BY <1>1, <1>4, <1>5, IdsAre
<1>7. \A i \in DOMAIN dropped : kept + i \in DOMAIN players /\ kept + i > kept
    BY <1>1, <1>3, <1>5
<1>8. \A i \in DOMAIN r : i \in DOMAIN players /\ i <= kept
    BY <1>1, <1>3, <1>4
<1>9. IdsOf(r) \cup IdsOf(dropped) = IdsOf(players)
    <2>1. IdsOf(r) \subseteq IdsOf(players) /\ IdsOf(dropped) \subseteq IdsOf(players)
        BY <1>4, <1>5, <1>6, <1>7, <1>8
    <2>2. ASSUME NEW j \in DOMAIN players
          PROVE  players[j].id \in IdsOf(r) \cup IdsOf(dropped)
        <3>1. CASE j <= kept
            <4>1. j \in DOMAIN r /\ r[j] = players[j]
                BY <1>3, <1>4, <3>1
            <4> QED BY <1>6, <4>1
        <3>2. CASE ~(j <= kept)
            <4>1. j - kept \in DOMAIN dropped /\ dropped[j - kept] = players[j]
                BY <1>1, <1>3, <1>5, <3>2
            <4> QED BY <1>6, <4>1
        <3> QED BY <3>1, <3>2
    <2> QED BY <1>6, <2>1, <2>2
<1>10. ASSUME Distinct(players)
       PROVE  Distinct(r) /\ IdsOf(r) \cap IdsOf(dropped) = {}
    <2>1. Distinct(r)
        BY <1>4, <1>8, <1>10 DEF Distinct
    <2>2. ASSUME NEW i \in DOMAIN r, NEW j \in DOMAIN dropped
          PROVE  r[i].id # dropped[j].id
        <3>1. i \in DOMAIN players /\ kept + j \in DOMAIN players /\ i # kept + j
            BY <1>3, <1>7, <1>8
        <3>2. r[i] = players[i] /\ dropped[j] = players[kept + j]
            BY <1>4, <1>5
        <3> QED BY <1>10, <3>1, <3>2 DEF Distinct
    <2> QED BY <1>6, <2>1, <2>2
<1>11. recovered < 2 => Distinct(r) /\ IdsOf(r) \cap (freeids \cup IdsOf(dropped)) = {}
    BY <1>9, <1>10 DEF IdsInv
<1>12. recovered = 0 => IdsOf(r) \cup (freeids \cup IdsOf(dropped)) \in {{}, Ids}
    <2>1. IdsOf(r) \cup (freeids \cup IdsOf(dropped)) = IdsOf(players) \cup freeids
        BY <1>9
    <2> QED BY <2>1 DEF IdsInv
<1>13. freeids \cup IdsOf(dropped) \in SUBSET Ids
    BY <1>1, <1>6, <1>9
<1> QED BY <1>2, <1>3, <1>4, <1>11, <1>12, <1>13 DEF IdsInv

\* After a recoverable error no slot is left, and the ids of those who were
\* there are lost.
LEMMA RecoverFromErrorOK ==
    ASSUME IdsInv, RecoverFromError
    PROVE  IdsInv'
<1>1. /\ players' = << >> /\ UNCHANGED <<freeids, maxclients>>
      /\ recovered' = IF recovered = 0 THEN 1 ELSE recovered
    BY DEF RecoverFromError
<1>2. IdsOf(<< >>) = {} /\ Distinct(<< >>) /\ Len(<< >>) = 0 /\ << >> \in Seq(Slots)
    BY DEF IdsOf, ToSet, Distinct
<1>3. maxclients \in Nat /\ recovered \in 0 .. 2
    BY LimitsAssumption, IdsAssumption DEF IdsInv
<1> QED BY <1>1, <1>2, <1>3 DEF IdsInv

\* What happens on the clients and on the network does not touch the ids.
LEMMA ServerSame ==
    ASSUME IdsInv, UNCHANGED servervars
    PROVE  IdsInv'
BY DEF servervars, IdsInv, IdsOf, Distinct

\* Whatever datagram the server reads, the invariant is preserved.
LEMMA ServerReadsOK ==
    ASSUME IdsInv, NEW c \in Clients, NEW type, ServerReads(c, type)
    PROVE  IdsInv'
<1>1. CASE SendServerInfo(c)
    BY <1>1, ServerSame DEF SendServerInfo
<1>2. CASE RefuseFull(c)
    BY <1>2, ServerSame DEF RefuseFull
<1>3. CASE IgnoreDatagram(c, type)
    BY <1>3, ServerSame DEF IgnoreDatagram, servervars
<1> QED BY <1>1, <1>2, <1>3, ConnectClientOK, DropClientOK, DisconnectClientOK,
           AcknowledgeOK DEF ServerReads

-----------------------------------------------------------------------------
(* The theorems.                                                           *)

\* The invariant holds of a server that has just started.
LEMMA InitIds == Init => IdsInv
<1> SUFFICES ASSUME Init PROVE IdsInv
    OBVIOUS
<1>1. players = << >> /\ freeids = {} /\ maxclients \in Limits /\ recovered = 0
    BY DEF Init
<1>2. IdsOf(<< >>) = {} /\ Distinct(<< >>) /\ Len(<< >>) = 0 /\ << >> \in Seq(Slots)
    BY DEF IdsOf, ToSet, Distinct
<1>3. maxclients \in Nat
    BY <1>1, LimitsAssumption, IdsAssumption
<1> QED BY <1>1, <1>2, <1>3 DEF IdsInv

\* And every step preserves it.
LEMMA NextIds == IdsInv /\ [Next]_vars => IdsInv'
<1> SUFFICES ASSUME IdsInv, [Next]_vars PROVE IdsInv'
    OBVIOUS
<1>1. ASSUME NEW c \in Clients,
             \/ Connect(c) \/ Disconnect(c) \/ Reconnect(c) \/ Crash(c)
             \/ RequestConnectInfo(c) \/ SendPacket(c) \/ Lose(c)
             \/ \E type \in FromServer : ClientReads(c, type)
      PROVE  IdsInv'
    BY <1>1, ServerSame
    DEF Connect, Disconnect, Reconnect, Crash, RequestConnectInfo, SendPacket, Lose,
        ClientReads, servervars
<1>2. ASSUME NEW c \in Clients, NEW type, ServerReads(c, type)
      PROVE  IdsInv'
    BY <1>2, ServerReadsOK
<1>3. ASSUME NEW c \in Clients, CheckTimeouts(c)
      PROVE  IdsInv'
    BY <1>3, DropClientOK DEF CheckTimeouts
<1>4. CASE EndVote
    BY <1>4, ServerSame DEF EndVote
<1>5. CASE UNCHANGED vars
    BY <1>5, ServerSame DEF vars
<1> QED BY <1>1, <1>2, <1>3, <1>4, <1>5, RemoveDisconnectedOK, RecoverFromErrorOK,
           SetMaxclientsOK DEF Next

\* There are never more slots than the limit, and no id is held twice, in every
\* reachable state.
THEOREM IdsInvariant == Spec => []IdsInv
BY InitIds, NextIds, PTL DEF Spec

\* No id is given to two players and none is lost, for every number of clients,
\* of ids and of limits up to the number of ids, in whatever order clients come,
\* leave, are dropped or are sent away (SV_GetFreeClient,
\* SV_RemoveDisconnectedPlayer, sv_maxclients).
THEOREM IdsConserved == Spec => []IdsAreConserved
<1>1. IdsInv => IdsAreConserved
    BY DistinctCount DEF IdsInv, IdsAreConserved
<1> QED BY <1>1, IdsInvariant, PTL

=============================================================================
