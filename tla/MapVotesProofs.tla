---------------------------- MODULE MapVotesProofs ----------------------------
(***************************************************************************)
(* Theorems about MapVotes, for every list, every number of clients and    *)
(* every majority: the index stays on the map that was chosen, no vote     *)
(* passes in a later level, whoever is told that his list is good has the  *)
(* list of the server, and a vote for a map loads that map.                *)
(***************************************************************************)
EXTENDS MapVotes, SequenceTheorems, TLAPS

(***************************************************************************)
(* A vote that a new level has overtaken is in the first tic of the level, *)
(* where its own tic interrupts it.                                        *)
(***************************************************************************)
FirstTic == vote # NoVote /\ lastlevel => leveltime = 1 /\ gamestate = "LEVEL"

(* Frame decides an overtaken vote before the level gets older. *)
LEMMA FrameFirstTic ==
  ASSUME FirstTic, NEW exit \in BOOLEAN, Frame(exit)
  PROVE  FirstTic'
<1>1. CASE NewLevel(exit)
  BY <1>1 DEF NewLevel, FirstTic
<1>2. CASE LevelTic(exit) \/ IntermissionTic
  <2>1. lastlevel' = lastlevel
    BY <1>2 DEF LevelTic, IntermissionTic
  <2>2. CASE lastlevel /\ vote # NoVote
    <3>1. gamestate = "LEVEL" /\ leveltime = 1 BY <2>2 DEF FirstTic
    <3>2. VoteResult(vote) = "INTERRUPT" BY <3>1 DEF VoteResult
    <3>3. vote' = NoVote BY <2>2, <3>1, <3>2 DEF Frame, VoteRuntic
    <3> QED BY <3>3 DEF FirstTic
  <2>3. CASE ~lastlevel
    BY <2>1, <2>3 DEF FirstTic
  <2>4. CASE vote = NoVote
    <3>1. vote' = NoVote BY <2>4 DEF Frame, VoteRuntic
    <3> QED BY <3>1 DEF FirstTic
  <2> QED BY <2>2, <2>3, <2>4
<1> QED BY <1>1, <1>2 DEF Frame

(* Calling a vote begins a new one; nothing else but Frame moves the level. *)
LEMMA CallvoteFirstTic ==
  ASSUME FirstTic, NEW c, NEW kind, NEW arg, Callvote(c, kind, arg),
         UNCHANGED levelvars
  PROVE  FirstTic'
<1>1. lastlevel' = FALSE \/ UNCHANGED votevars
  BY DEF Callvote
<1> QED BY <1>1 DEF FirstTic, levelvars, votevars

LEMMA NextFirstTic == FirstTic /\ [Next]_vars => FirstTic'
<1> SUFFICES ASSUME FirstTic, [Next]_vars PROVE FirstTic'
  OBVIOUS
<1>1. ASSUME UNCHANGED votevars, UNCHANGED <<gamestate, leveltime>>
      PROVE  FirstTic'
  BY <1>1 DEF FirstTic, votevars
<1>2. ASSUME NEW c \in Clients, Connect(c) \/ TimeoutPasses(c) PROVE FirstTic'
  BY <1>1, <1>2 DEF Connect, TimeoutPasses, levelvars
<1>3. ASSUME NEW c \in Clients, Quit(c) PROVE FirstTic'
  <2>1. vote = NoVote => vote' = NoVote
    BY <1>3 DEF Quit, WithoutBallot
  <2> QED BY <1>3, <2>1 DEF Quit, FirstTic, levelvars
<1>4. ASSUME NEW c \in Clients, NEW kind \in Kinds, NEW arg, CallVote(c, kind, arg)
      PROVE  FirstTic'
  BY <1>4, CallvoteFirstTic DEF CallVote
<1>5. ASSUME NEW c \in Clients, NEW ballot, VoteCmd(c, ballot) PROVE FirstTic'
  BY <1>5 DEF VoteCmd, FirstTic, levelvars
<1>6. ASSUME NEW c \in Askers, ServerReads(c) PROVE FirstTic'
  <2>1. UNCHANGED levelvars BY <1>6 DEF ServerReads
  <2>2. UNCHANGED votevars \/ Callvote(c, "map", Head(requests[c]).index)
    BY <1>6, Zenon DEF ServerReads
  <2> QED BY <1>1, <2>1, <2>2, CallvoteFirstTic DEF levelvars
<1>7. ASSUME NEW c \in Askers,
             \/ \E question \in Questions \ {"nothing"} : Ask(c, question)
             \/ LoseRequest(c) \/ ClientReads(c) \/ TimeRunsOut(c) \/ ClientTic(c)
      PROVE  FirstTic'
  <2>1. UNCHANGED votevars /\ UNCHANGED levelvars
    BY <1>7, Zenon DEF Ask, LoseRequest, ClientReads, TimeRunsOut, ClientTic
  <2> QED BY <1>1, <2>1 DEF levelvars
<1>8. CASE \/ \E position \in 0 .. MaxMaps, map \in Maps : InsertMap(position, map)
           \/ \E i \in 0 .. MaxMaps - 1 : RemoveMap(i)
           \/ ClearMaplist \/ ShuffleMaplist \/ GotoMap
  <2>1. UNCHANGED votevars /\ UNCHANGED <<gamestate, leveltime>>
    BY <1>8, Zenon DEF InsertMap, RemoveMap, ClearMaplist, ShuffleMaplist, GotoMap,
                       Edited, levelvars
  <2> QED BY <1>1, <2>1
<1>9. ASSUME NEW exit \in BOOLEAN, Frame(exit) PROVE FirstTic'
  BY <1>9, FrameFirstTic
<1>10. CASE UNCHANGED vars
  BY <1>1, <1>10 DEF vars, levelvars
<1> QED BY <1>2, <1>3, <1>4, <1>5, <1>6, <1>7, <1>8, <1>9, <1>10 DEF Next

(***************************************************************************)
(* However levels end and begin, by exits, commands or other votes, and    *)
(* whoever comes and goes: no vote passes in a level younger than it.      *)
(***************************************************************************)
THEOREM OwnLevelOnly == Spec => []NoVoteAcrossLevels
<1>1. Init => FirstTic BY DEF Init, FirstTic
<1>2. FirstTic => NoVoteAcrossLevels
  <2> SUFFICES ASSUME FirstTic, VotePasses, lastlevel PROVE FALSE
    BY DEF NoVoteAcrossLevels
  <2>1. vote # NoVote /\ VoteResult(vote) = "YES" BY DEF VotePasses
  <2>2. leveltime = 1 BY <2>1 DEF FirstTic
  <2> QED BY <2>1, <2>2 DEF VoteResult
<1> QED BY <1>1, <1>2, NextFirstTic, PTL DEF Spec

-----------------------------------------------------------------------------
(* Sequences with an element put in or taken out.                          *)

(* The elements before the new one stay, those after it move up. *)
LEMMA PutIn ==
  ASSUME NEW S, NEW s \in Seq(S), NEW m \in S, NEW p \in Nat, p <= Len(s),
         NEW t, t = SubSeq(s, 1, p) \o <<m>> \o SubSeq(s, p + 1, Len(s))
  PROVE  /\ t \in Seq(S) /\ Len(t) = Len(s) + 1
         /\ \A i \in Nat : i < p => t[i + 1] = s[i + 1]
         /\ \A i \in Nat : i >= p /\ i < Len(s) => t[i + 2] = s[i + 1]
<1> DEFINE a == SubSeq(s, 1, p)  b == SubSeq(s, p + 1, Len(s))  u == a \o <<m>>
           v == u \o b
<1>1. a \in Seq(S) /\ Len(a) = p /\ \A i \in 1 .. p : a[i] = s[i]
  BY SubSeqProperties
<1>2. b \in Seq(S) /\ Len(b) = Len(s) - p /\ \A i \in 1 .. Len(s) - p : b[i] = s[p + i]
  BY SubSeqProperties
<1> HIDE DEF a, b
<1>3. u \in Seq(S) /\ Len(u) = p + 1 /\ \A i \in 1 .. p : u[i] = a[i]
  <2>1. <<m>> \in Seq(S) /\ Len(<<m>>) = 1 OBVIOUS
  <2> QED BY <1>1, <2>1, ConcatProperties
<1> HIDE DEF u
<1>4. /\ v \in Seq(S) /\ Len(v) = Len(u) + Len(b)
      /\ \A i \in 1 .. Len(u) + Len(b) :
           v[i] = IF i <= Len(u) THEN u[i] ELSE b[i - Len(u)]
  BY <1>2, <1>3, ConcatProperties
<1>5. t = v BY DEF a, b, u
<1> HIDE DEF v
<1>6. Len(s) \in Nat OBVIOUS
<1>7. v \in Seq(S) /\ Len(v) = Len(s) + 1 BY <1>2, <1>3, <1>4, <1>6
<1>8. ASSUME NEW i \in Nat, i < p PROVE v[i + 1] = s[i + 1]
  <2>1. i + 1 \in 1 .. p /\ i + 1 \in 1 .. Len(u) + Len(b) /\ i + 1 <= Len(u)
    BY <1>2, <1>3, <1>6, <1>8
  <2>2. v[i + 1] = u[i + 1] BY <1>4, <2>1
  <2> QED BY <1>1, <1>3, <2>1, <2>2
<1>9. ASSUME NEW i \in Nat, i >= p, i < Len(s) PROVE v[i + 2] = s[i + 1]
  <2>1. i + 2 \in 1 .. Len(u) + Len(b) /\ ~(i + 2 <= Len(u))
    BY <1>2, <1>3, <1>6, <1>9
  <2>2. v[i + 2] = b[(i + 2) - Len(u)] BY <1>4, <2>1
  <2>3. /\ (i + 2) - Len(u) \in 1 .. Len(s) - p
        /\ p + ((i + 2) - Len(u)) = i + 1
    BY <1>3, <1>6, <1>9
  <2> QED BY <1>2, <2>2, <2>3
<1> QED BY <1>5, <1>7, <1>8, <1>9, Zenon

\* Sequence s without its element number p, counted from 0.
TakenFrom(s, p) == SubSeq(s, 1, p) \o SubSeq(s, p + 2, Len(s))

(* The elements before the one taken out stay, those after it move down. *)
LEMMA TakenOut ==
  ASSUME NEW S, NEW s \in Seq(S), NEW p \in Nat, p < Len(s),
         NEW t, t = TakenFrom(s, p)
  PROVE  /\ t \in Seq(S) /\ Len(t) = Len(s) - 1
         /\ \A i \in Nat : i < p => t[i + 1] = s[i + 1]
         /\ \A i \in Nat : i > p /\ i < Len(s) => t[i] = s[i + 1]
<1> DEFINE a == SubSeq(s, 1, p)  b == SubSeq(s, p + 2, Len(s))
           v == a \o b
<1>0. Len(s) \in Nat OBVIOUS
<1>1. a \in Seq(S) /\ Len(a) = p /\ \A i \in 1 .. p : a[i] = s[i]
  BY SubSeqProperties
<1>2. /\ b \in Seq(S) /\ Len(b) = Len(s) - p - 1
      /\ \A i \in 1 .. Len(s) - p - 1 : b[i] = s[p + 1 + i]
  <2>1. \A i \in p + 2 .. Len(s) : s[i] \in S BY <1>0
  <2>2. /\ b \in Seq(S) /\ Len(b) = IF p + 2 <= Len(s) THEN Len(s) - (p + 2) + 1 ELSE 0
        /\ \A i \in 1 .. Len(s) - (p + 2) + 1 : b[i] = s[(p + 2) + i - 1]
    BY <1>0, <2>1, SubSeqProperties
  <2> HIDE DEF b
  <2> QED BY <1>0, <2>2
<1> HIDE DEF a, b
<1>3. /\ v \in Seq(S) /\ Len(v) = Len(a) + Len(b)
      /\ \A i \in 1 .. Len(a) + Len(b) :
           v[i] = IF i <= Len(a) THEN a[i] ELSE b[i - Len(a)]
  BY <1>1, <1>2, ConcatProperties
<1>4. t = v BY DEF a, b, TakenFrom
<1> HIDE DEF v
<1>5. v \in Seq(S) /\ Len(v) = Len(s) - 1 BY <1>0, <1>1, <1>2, <1>3
<1>6. ASSUME NEW i \in Nat, i < p PROVE v[i + 1] = s[i + 1]
  <2>1. i + 1 \in 1 .. p /\ i + 1 \in 1 .. Len(a) + Len(b) /\ i + 1 <= Len(a)
    BY <1>0, <1>1, <1>2, <1>6
  <2>2. v[i + 1] = a[i + 1] BY <1>3, <2>1
  <2> QED BY <1>1, <2>1, <2>2
<1>7. ASSUME NEW i \in Nat, i > p, i < Len(s) PROVE v[i] = s[i + 1]
  <2>1. i \in 1 .. Len(a) + Len(b) /\ ~(i <= Len(a)) BY <1>0, <1>1, <1>2, <1>7
  <2>2. v[i] = b[i - p] BY <1>1, <1>3, <2>1
  <2>3. i - p \in 1 .. Len(s) - p - 1 /\ p + 1 + (i - p) = i + 1 BY <1>0, <1>7
  <2> QED BY <1>2, <2>2, <2>3
<1> QED BY <1>4, <1>5, <1>6, <1>7, Zenon

-----------------------------------------------------------------------------
(* Every method of the list keeps it sound and its index on the same map.  *)

\* While the list is in use its index is that of the map chosen last.
IsCurrent(l, map) == l.in_maplist = 1 => MapAt(l, l.index) = map

(* What a shuffle may change. *)
SameMaps(l, m) ==
  /\ m.maplist = l.maplist /\ m.index = l.index /\ m.in_maplist = l.in_maplist
  /\ m.entered_once = l.entered_once /\ m.shuffled = l.shuffled

LEMMA ListFields ==
  ASSUME NEW l \in Lists
  PROVE  /\ l.maplist \in Seq(Maps) /\ l.index \in Nat /\ l.in_maplist \in {0, 1}
         /\ l.entered_once \in {0, 1} /\ l.shuffled \in {0, 1}
         /\ l.s_index \in Nat /\ l.s_maplist \in Seq(Nat)
         /\ l.version \in 0 .. VersionSize - 1 /\ Size(l) \in Nat
BY DEF Lists, Size

LEMMA EmptyMaplist ==
  ASSUME NEW l \in Lists, NEW empty \in Seq(Maps)
  PROVE  LET m == [l EXCEPT !.maplist = empty, !.in_maplist = 0, !.index = 0]
         IN  /\ m \in Lists /\ m.in_maplist = 0 /\ m.maplist = empty
             /\ m.version = l.version
BY DEF Lists

LEMMA NewVersionKeeps ==
  ASSUME NEW l \in Lists
  PROVE  /\ NewVersion(l) \in Lists /\ SameMaps(l, NewVersion(l))
         /\ NewVersion(l).s_maplist = l.s_maplist
         /\ NewVersion(l).version = (l.version + 1) % VersionSize
<1>1. l.version \in Nat BY VersionAssumption DEF Lists
<1>2. ((l.version + 1) % VersionSize) \in 0 .. VersionSize - 1
  BY <1>1, VersionAssumption
<1> QED BY <1>2 DEF NewVersion, Lists, SameMaps

LEMMA UpdateShuffleIndexKeeps ==
  ASSUME NEW l \in Lists
  PROVE  /\ UpdateShuffleIndex(l) \in Lists /\ SameMaps(l, UpdateShuffleIndex(l))
         /\ UpdateShuffleIndex(l).s_maplist = l.s_maplist
         /\ UpdateShuffleIndex(l).version = l.version
<1> DEFINE places == {i \in 1 .. Len(l.s_maplist) : l.s_maplist[i] = l.index}
<1>1. CASE l.shuffled = 1 /\ places # {}
  <2>1. (CHOOSE i \in places : TRUE) \in places BY <1>1
  <2>2. (CHOOSE i \in places : TRUE) - 1 \in Nat BY <2>1
  <2> DEFINE place == (CHOOSE i \in places : TRUE) - 1
  <2>3. UpdateShuffleIndex(l) = [l EXCEPT !.s_index = place]
    BY <1>1 DEF UpdateShuffleIndex
  <2>4. place \in Nat BY <2>2
  <2> HIDE DEF place
  <2> QED BY <2>3, <2>4 DEF Lists, SameMaps
<1>2. CASE ~(l.shuffled = 1 /\ places # {})
  BY <1>2 DEF UpdateShuffleIndex, SameMaps
<1> QED BY <1>1, <1>2

LEMMA ShuffleKeeps ==
  ASSUME NEW l \in Lists, NEW m \in Shuffle(l)
  PROVE  /\ m \in Lists /\ SameMaps(l, m) /\ m.version = l.version
         /\ Size(l) > 0 => Len(m.s_maplist) > 0
<1>1. CASE Size(l) = 0
  BY <1>1 DEF Shuffle, SameMaps
<1>2. CASE Size(l) # 0
  <2>1. PICK s \in Orders(Size(l)) :
           m = UpdateShuffleIndex([l EXCEPT !.s_maplist = s])
    BY <1>2 DEF Shuffle
  <2>2. s \in [1 .. Size(l) -> 0 .. Size(l) - 1] BY DEF Orders
  <2>3. s \in Seq(Nat) /\ Len(s) = Size(l)
    <3>1. Size(l) \in Nat BY ListFields
    <3>2. s \in [1 .. Size(l) -> Nat] BY <2>2, <3>1
    <3> QED BY <3>1, <3>2
  <2> DEFINE k == [l EXCEPT !.s_maplist = s]
  <2>4. k \in Lists /\ SameMaps(l, k) /\ k.s_maplist = s /\ k.version = l.version
    BY <2>3 DEF Lists, SameMaps
  <2> HIDE DEF k
  <2>5. m = UpdateShuffleIndex(k) BY <2>1 DEF k
  <2>6. m \in Lists /\ SameMaps(k, m) /\ m.s_maplist = s /\ m.version = k.version
    BY <2>4, <2>5, UpdateShuffleIndexKeeps
  <2> QED BY <2>3, <2>4, <2>6 DEF SameMaps
<1> QED BY <1>1, <1>2

LEMMA IfShuffledSound ==
  ASSUME NEW l \in Lists, NEW m \in IfShuffled(l)
  PROVE  /\ m \in Lists /\ SameMaps(l, m) /\ m.version = l.version
         /\ m.shuffled = 1 /\ Size(m) > 0 => Len(m.s_maplist) > 0
<1>1. CASE l.shuffled = 1
  <2>1. m \in Lists /\ SameMaps(l, m) /\ m.version = l.version /\ (Size(l) > 0 => Len(m.s_maplist) > 0)
    BY <1>1, ShuffleKeeps DEF IfShuffled
  <2> QED BY <2>1 DEF SameMaps, Size
<1>2. CASE l.shuffled # 1
  BY <1>2 DEF IfShuffled, SameMaps
<1> QED BY <1>1, <1>2

(* Maplist::insert: the index moves with the map it is at. *)
LEMMA InsertSound ==
  ASSUME NEW l, Sound(l), NEW map, IsCurrent(l, map),
         NEW position \in Nat, position <= Size(l), NEW new \in Maps,
         NEW m \in Insert(l, position, new)
  PROVE  /\ Sound(m) /\ IsCurrent(m, map)
         /\ m.version = (l.version + 1) % VersionSize
<1> DEFINE t == SubSeq(l.maplist, 1, position) \o <<new>>
                  \o SubSeq(l.maplist, position + 1, Len(l.maplist))
           x == IF l.entered_once = 1 /\ l.index >= position
                THEN l.index + 1 ELSE l.index
           k == [l EXCEPT !.maplist = t, !.index = x]
           n == NewVersion(k)
<1>1. l \in Lists BY DEF Sound
<1>2. /\ t \in Seq(Maps) /\ Len(t) = Size(l) + 1
      /\ \A i \in Nat : i < position => t[i + 1] = l.maplist[i + 1]
      /\ \A i \in Nat : i >= position /\ i < Size(l) => t[i + 2] = l.maplist[i + 1]
  <2>1. l.maplist \in Seq(Maps) /\ Len(l.maplist) = Size(l)
    BY <1>1, ListFields DEF Size
  <2> QED BY <2>1, PutIn
<1>3. x \in Nat BY <1>1, ListFields
<1>4. m \in IfShuffled(n)
  <2>1. k = [l EXCEPT !.maplist = SubSeq(@, 1, position) \o <<new>>
                            \o SubSeq(@, position + 1, Len(@)),
                      !.index = IF l.entered_once = 1 /\ @ >= position
                                THEN @ + 1 ELSE @]
    BY <1>1 DEF Lists
  <2> QED BY <2>1 DEF Insert
<1> HIDE DEF t, x
<1>5. /\ k \in Lists /\ k.maplist = t /\ k.index = x
      /\ k.in_maplist = l.in_maplist /\ k.entered_once = l.entered_once
      /\ k.version = l.version
  BY <1>1, <1>2, <1>3 DEF Lists
<1> HIDE DEF k
<1>6. n \in Lists /\ SameMaps(k, n) /\ n.version = (k.version + 1) % VersionSize
  BY <1>5, NewVersionKeeps
<1> HIDE DEF n
<1>7. /\ m \in Lists /\ SameMaps(n, m) /\ m.version = n.version
      /\ m.shuffled = 1 /\ Size(m) > 0 => Len(m.s_maplist) > 0
  BY <1>4, <1>6, IfShuffledSound
<1>8. /\ m.maplist = t /\ m.index = x /\ Size(m) = Size(l) + 1
      /\ m.in_maplist = l.in_maplist /\ m.entered_once = l.entered_once
  BY <1>2, <1>5, <1>6, <1>7 DEF SameMaps, Size
<1>9. ASSUME m.in_maplist = 1
      PROVE  m.entered_once = 1 /\ m.index < Size(m) /\ MapAt(m, m.index) = map
  <2>1. /\ l.in_maplist = 1 /\ l.entered_once = 1 /\ l.index < Size(l)
        /\ l.maplist[l.index + 1] = map /\ l.index \in Nat /\ Size(l) \in Nat
    BY <1>1, <1>8, <1>9, ListFields DEF Sound, IsCurrent, MapAt
  <2>2. CASE l.index >= position
    <3>1. x = l.index + 1 BY <2>1, <2>2 DEF x
    <3>2. t[l.index + 2] = map BY <1>2, <2>1, <2>2
    <3>3. m.index + 1 = l.index + 2 BY <3>1, <1>8, <2>1
    <3> QED BY <1>8, <2>1, <3>1, <3>2, <3>3 DEF MapAt
  <2>3. CASE l.index < position
    <3>1. x = l.index BY <2>1, <2>3 DEF x
    <3>2. t[l.index + 1] = map BY <1>2, <2>1, <2>3
    <3> QED BY <1>8, <2>1, <3>1, <3>2 DEF MapAt
  <2> QED BY <2>1, <2>2, <2>3
<1>10. m.version = (l.version + 1) % VersionSize
  BY <1>5, <1>6, <1>7
<1> QED BY <1>7, <1>9, <1>10 DEF Sound, IsCurrent

(* Maplist::remove: the index moves with its map, or has none any more. *)
LEMMA RemoveSound ==
  ASSUME NEW l, Sound(l), NEW map, IsCurrent(l, map),
         NEW i \in Nat, i < Size(l), NEW m \in Remove(l, i)
  PROVE  /\ Sound(m) /\ IsCurrent(m, map)
         /\ IF Size(l) = 1 THEN m.version = l.version /\ Size(m) = 0
            ELSE m.version = (l.version + 1) % VersionSize
<1>1. l \in Lists BY DEF Sound
<1>2. CASE Size(l) = 1
  <2>1. m = [l EXCEPT !.maplist = << >>, !.in_maplist = 0, !.index = 0]
    BY <1>2 DEF Remove
  <2>2. /\ m \in Lists /\ m.in_maplist = 0 /\ m.maplist = << >>
        /\ m.version = l.version
    <3>1. << >> \in Seq(Maps) OBVIOUS
    <3> QED BY <1>1, <2>1, <3>1, EmptyMaplist, Zenon
  <2> QED BY <1>2, <2>2 DEF Sound, IsCurrent, Size
<1>3. CASE Size(l) # 1
  <2> DEFINE t == SubSeq(l.maplist, 1, i) \o SubSeq(l.maplist, i + 2, Len(l.maplist))
             q == IF l.entered_once = 1 /\ l.index = i THEN 0 ELSE l.in_maplist
             x == IF l.entered_once = 1
                  THEN IndexWithout(l, i, Size(l) - 1) ELSE l.index
             k == [l EXCEPT !.maplist = t, !.in_maplist = q, !.index = x]
             n == NewVersion(k)
  <2>1. /\ t \in Seq(Maps) /\ Len(t) = Size(l) - 1
        /\ \A j \in Nat : j < i => t[j + 1] = l.maplist[j + 1]
        /\ \A j \in Nat : j > i /\ j < Size(l) => t[j] = l.maplist[j + 1]
    <3> DEFINE s == l.maplist
    <3>1. s \in Seq(Maps) /\ Len(s) = Size(l)
      BY <1>1, ListFields DEF Size
    <3>2. i < Len(s) /\ t = TakenFrom(s, i)
      BY <3>1 DEF TakenFrom
    <3> HIDE DEF s, t
    <3>3. /\ t \in Seq(Maps) /\ Len(t) = Len(s) - 1
          /\ \A j \in Nat : j < i => t[j + 1] = s[j + 1]
          /\ \A j \in Nat : j > i /\ j < Len(s) => t[j] = s[j + 1]
      BY <3>1, <3>2, TakenOut
    <3>4. /\ t \in Seq(Maps) /\ Len(t) = Size(l) - 1
          /\ \A j \in Nat : j < i => t[j + 1] = s[j + 1]
          /\ \A j \in Nat : j > i /\ j < Size(l) => t[j] = s[j + 1]
      BY <3>1, <3>3
    <3> QED BY <3>4 DEF s
  <2>2. x \in Nat /\ q \in {0, 1}
    <3>1. /\ l.index \in Nat /\ Size(l) - 1 - 1 \in Nat /\ l.in_maplist \in {0, 1}
      BY <1>1, <1>3, ListFields
    <3>2. IndexWithout(l, i, Size(l) - 1) \in Nat BY <3>1 DEF IndexWithout
    <3> QED BY <3>1, <3>2
  <2>3. m \in IfShuffled(n)
    <3>1. k = [l EXCEPT
                !.maplist = SubSeq(@, 1, i) \o SubSeq(@, i + 2, Len(@)),
                !.in_maplist =
                    IF l.entered_once = 1 /\ l.index = i THEN 0 ELSE @,
                !.index = IF l.entered_once = 1
                          THEN IndexWithout(l, i, Size(l) - 1) ELSE @]
      BY <1>1 DEF Lists
    <3> QED BY <1>3, <3>1 DEF Remove
  <2> HIDE DEF t, q, x
  <2>4. /\ k \in Lists /\ k.maplist = t /\ k.index = x
        /\ k.in_maplist = q /\ k.entered_once = l.entered_once
        /\ k.version = l.version
    BY <1>1, <2>1, <2>2 DEF Lists
  <2> HIDE DEF k
  <2>5. n \in Lists /\ SameMaps(k, n) /\ n.version = (k.version + 1) % VersionSize
    BY <2>4, NewVersionKeeps
  <2> HIDE DEF n
  <2>6. /\ m \in Lists /\ SameMaps(n, m) /\ m.version = n.version
        /\ m.shuffled = 1 /\ Size(m) > 0 => Len(m.s_maplist) > 0
    BY <2>3, <2>5, IfShuffledSound
  <2>7. /\ m.maplist = t /\ m.index = x /\ Size(m) = Size(l) - 1
        /\ m.in_maplist = q /\ m.entered_once = l.entered_once
    BY <2>1, <2>4, <2>5, <2>6 DEF SameMaps, Size
  <2>8. ASSUME m.in_maplist = 1
        PROVE  m.entered_once = 1 /\ m.index < Size(m) /\ MapAt(m, m.index) = map
    <3>1. l.in_maplist = 1 /\ ~(l.entered_once = 1 /\ l.index = i)
      BY <2>7, <2>8 DEF q
    <3>2. /\ l.entered_once = 1 /\ l.index # i /\ l.index < Size(l)
          /\ l.maplist[l.index + 1] = map /\ l.index \in Nat /\ Size(l) \in Nat
      BY <1>1, <3>1, ListFields DEF Sound, IsCurrent, MapAt
    <3>3. CASE l.index < i
      <4>1. x = l.index BY <3>2, <3>3 DEF x, IndexWithout
      <4>2. t[l.index + 1] = map BY <2>1, <3>2, <3>3
      <4> QED BY <2>7, <3>2, <3>3, <4>1, <4>2 DEF MapAt
    <3>4. CASE l.index > i
      <4>1. x = l.index - 1 BY <3>2, <3>4 DEF x, IndexWithout
      <4>2. t[l.index] = map BY <2>1, <3>2, <3>4
      <4>3. m.index + 1 = l.index BY <2>7, <3>2, <4>1
      <4> QED BY <2>7, <3>2, <3>4, <4>1, <4>2, <4>3 DEF MapAt
    <3> QED BY <3>2, <3>3, <3>4
  <2>9. m.version = (l.version + 1) % VersionSize
    BY <2>4, <2>5, <2>6
  <2> QED BY <1>3, <2>6, <2>8, <2>9 DEF Sound, IsCurrent
<1> QED BY <1>2, <1>3

LEMMA ClearSound ==
  ASSUME NEW l, Sound(l), NEW map
  PROVE  Size(l) > 0 => Sound(Clear(l)) /\ IsCurrent(Clear(l), map)
<1> DEFINE k == [l EXCEPT !.maplist = << >>, !.in_maplist = 0, !.index = 0]
<1> SUFFICES ASSUME Size(l) > 0
             PROVE  Sound(Clear(l)) /\ IsCurrent(Clear(l), map)
  OBVIOUS
<1>1. k \in Lists /\ k.in_maplist = 0 /\ k.maplist = << >>
  <2>1. << >> \in Seq(Maps) /\ l \in Lists BY DEF Sound
  <2> QED BY <2>1, EmptyMaplist, Zenon
<1>2. Clear(l) = NewVersion(k) BY DEF Clear
<1> HIDE DEF k
<1>3. Clear(l) \in Lists /\ SameMaps(k, Clear(l)) BY <1>1, <1>2, NewVersionKeeps
<1> QED BY <1>1, <1>3 DEF Sound, IsCurrent, SameMaps, Size

LEMMA SetShuffleSound ==
  ASSUME NEW l, Sound(l), NEW map, IsCurrent(l, map),
         NEW m \in SetShuffle(l, 1 - l.shuffled)
  PROVE  Sound(m) /\ IsCurrent(m, map)
<1>1. l \in Lists /\ l.shuffled \in {0, 1} BY ListFields DEF Sound
<1>2. CASE l.shuffled = 0
  <2>1. PICK s \in Shuffle(l) : m = [s EXCEPT !.shuffled = 1]
    BY <1>2 DEF SetShuffle
  <2>2. s \in Lists /\ SameMaps(l, s) /\ (Size(l) > 0 => Len(s.s_maplist) > 0)
    BY <1>1, ShuffleKeeps
  <2>3. /\ m \in Lists /\ m.maplist = l.maplist /\ m.index = l.index
        /\ m.in_maplist = l.in_maplist /\ m.entered_once = l.entered_once
        /\ m.s_maplist = s.s_maplist
    BY <2>1, <2>2 DEF Lists, SameMaps
  <2> QED BY <2>2, <2>3 DEF Sound, IsCurrent, MapAt, Size
<1>3. CASE l.shuffled = 1
  <2>1. m = [l EXCEPT !.shuffled = 0] BY <1>3 DEF SetShuffle
  <2>2. /\ m \in Lists /\ m.maplist = l.maplist /\ m.index = l.index
        /\ m.in_maplist = l.in_maplist /\ m.entered_once = l.entered_once
        /\ m.shuffled = 0
    BY <1>1, <2>1 DEF Lists
  <2> QED BY <2>2 DEF Sound, IsCurrent, MapAt, Size
<1> QED BY <1>1, <1>2, <1>3

LEMMA SetIndexSound ==
  ASSUME NEW l, Sound(l), NEW i \in Nat, i < Size(l)
  PROVE  Sound(SetIndex(l, i)) /\ IsCurrent(SetIndex(l, i), MapAt(l, i))
<1> DEFINE k == [l EXCEPT !.entered_once = 1, !.in_maplist = 1, !.index = i]
           m == UpdateShuffleIndex(k)
<1>1. /\ k \in Lists /\ k.maplist = l.maplist /\ k.index = i
      /\ k.in_maplist = 1 /\ k.entered_once = 1
      /\ k.shuffled = l.shuffled /\ k.s_maplist = l.s_maplist
  BY DEF Sound, Lists
<1>2. SetIndex(l, i) = m BY DEF SetIndex
<1> HIDE DEF k
<1>3. m \in Lists /\ SameMaps(k, m) /\ m.s_maplist = k.s_maplist
  BY <1>1, UpdateShuffleIndexKeeps
<1> HIDE DEF m
<1> QED BY <1>1, <1>2, <1>3 DEF Sound, IsCurrent, SameMaps, MapAt, Size

(* Maplist::get_next_index is an index, in the shuffled order or not. *)
LEMMA NextIndexType ==
  ASSUME NEW l, Sound(l), Size(l) > 0
  PROVE  NextIndex(l) \in Nat
<1>1. /\ l.index \in Nat /\ l.entered_once \in {0, 1} /\ l.s_index \in Nat
      /\ l.s_maplist \in Seq(Nat) /\ Size(l) \in Nat
  BY ListFields DEF Sound
<1>2. CASE l.shuffled = 1
  <2>1. Len(l.s_maplist) > 0 /\ Len(l.s_maplist) \in Nat BY <1>1, <1>2 DEF Sound
  <2>2. l.s_maplist[1] \in Nat BY <1>1, <2>1
  <2>3. ~(l.s_index + 1 >= Len(l.s_maplist)) =>
          l.s_index + l.entered_once + 1 \in 1 .. Len(l.s_maplist)
    BY <1>1, <2>1
  <2> QED BY <1>1, <1>2, <2>2, <2>3 DEF NextIndex
<1>3. CASE l.shuffled # 1
  BY <1>1, <1>3 DEF NextIndex
<1> QED BY <1>2, <1>3

-----------------------------------------------------------------------------
(* The list and what is chosen from it, together with the vote's index.    *)

ListOK == Sound(list) /\ IsCurrent(list, chosen)

\* A vote has an index, which Insert and Remove move with the list.
VoteOK == vote # NoVote => "arg" \in DOMAIN vote /\ vote.arg \in Nat

\* The inductive invariant behind IndexFollowsMap.
LInv   == ListOK /\ VoteOK

LEMMA ChangeToSound ==
  ASSUME ListOK, NEW i \in Nat, ChangeTo(i)
  PROVE  ListOK'
<1>1. CASE i < Size(list)
  BY <1>1, SetIndexSound DEF ChangeTo, ListOK
<1>2. CASE ~(i < Size(list))
  BY <1>2 DEF ChangeTo, ListOK
<1> QED BY <1>1, <1>2

LEMMA ChangeMapSound ==
  ASSUME ListOK, ChangeMap
  PROVE  ListOK'
<1>1. CASE Size(list) > 0
  BY <1>1, NextIndexType, ChangeToSound DEF ChangeMap, ListOK
<1>2. CASE ~(Size(list) > 0)
  BY <1>2 DEF ChangeMap, ListOK
<1> QED BY <1>1, <1>2

(* Insertions, removals, shuffles and the administrator's changes of the map. *)
LEMMA EditsSound ==
  ASSUME ListOK,
         \/ \E position \in 0 .. MaxMaps, map \in Maps : InsertMap(position, map)
         \/ \E i \in 0 .. MaxMaps - 1 : RemoveMap(i)
         \/ ClearMaplist \/ ShuffleMaplist \/ GotoMap
  PROVE  ListOK' /\ UNCHANGED vote
<1>0. MaxMaps \in Nat BY BoundsAssumption
<1>1. ASSUME NEW position \in 0 .. MaxMaps, NEW map \in Maps,
             InsertMap(position, map)
      PROVE  ListOK' /\ UNCHANGED vote
  <2>1. /\ position \in Nat /\ position <= Size(list)
        /\ list' \in Insert(list, position, map)
        /\ chosen' = chosen /\ vote' = vote
    BY <1>0, <1>1 DEF InsertMap, Edited, votevars
  <2> QED BY <2>1, InsertSound DEF ListOK
<1>2. ASSUME NEW i \in 0 .. MaxMaps - 1, RemoveMap(i)
      PROVE  ListOK' /\ UNCHANGED vote
  <2>1. /\ i \in Nat /\ i < Size(list) /\ list' \in Remove(list, i)
        /\ chosen' = chosen /\ vote' = vote
    BY <1>0, <1>2 DEF RemoveMap, Edited, votevars
  <2> QED BY <2>1, RemoveSound DEF ListOK
<1>3. CASE ClearMaplist
  <2>1. Size(list) > 0 /\ list' = Clear(list) /\ chosen' = chosen /\ vote' = vote
    BY <1>3 DEF ClearMaplist, Edited, votevars
  <2> QED BY <2>1, ClearSound DEF ListOK
<1>4. CASE ShuffleMaplist
  <2>1. /\ list' \in SetShuffle(list, 1 - list.shuffled)
        /\ chosen' = chosen /\ vote' = vote
    BY <1>4 DEF ShuffleMaplist, Edited, votevars
  <2> QED BY <2>1, SetShuffleSound DEF ListOK
<1>5. CASE GotoMap
  <2>1. ChangeMap \/ \E i \in Nat : ChangeTo(i)
    BY <1>0, <1>5 DEF GotoMap
  <2>2. vote' = vote BY <1>5 DEF GotoMap, votevars
  <2> QED BY <2>1, <2>2, ChangeToSound, ChangeMapSound
<1> QED BY <1>1, <1>2, <1>3, <1>4, <1>5

LEMMA FrameSound ==
  ASSUME LInv, NEW exit \in BOOLEAN, Frame(exit)
  PROVE  LInv'
<1>1. VoteRuntic BY DEF Frame
<1>2. ListOK'
  <2>1. CASE VotePasses
    <3>1. Exec(vote) /\ vote.arg \in Nat
      BY <1>1, <2>1 DEF VoteRuntic, VotePasses, LInv, VoteOK
    <3>2. ChangeMap \/ (\E i \in Nat : ChangeTo(i)) \/ UNCHANGED listvars
      BY <3>1, BoundsAssumption DEF Exec
    <3> QED BY <3>2, ChangeToSound, ChangeMapSound DEF LInv, ListOK, listvars
  <2>2. CASE ~VotePasses
    <3>1. ChangeMap \/ UNCHANGED listvars BY <1>1, <2>2 DEF VoteRuntic
    <3> QED BY <3>1, ChangeMapSound DEF LInv, ListOK, listvars
  <2> QED BY <2>1, <2>2
<1>3. VoteOK'
  <2>1. \/ vote' = NoVote \/ vote' = vote
        \/ vote # NoVote /\ vote' = [vote EXCEPT !.countdown = @ - 1]
    BY <1>1 DEF VoteRuntic
  <2> QED BY <2>1 DEF LInv, VoteOK
<1> QED BY <1>2, <1>3 DEF LInv

LEMMA CallvoteSound ==
  ASSUME VoteOK, NEW c, NEW kind, NEW arg, Callvote(c, kind, arg)
  PROVE  VoteOK'
<1>1. CASE gamestate # "INTERMISSION" /\ vote = NoVote /\ SetupPasses(kind, arg)
  <2>1. arg \in Nat BY <1>1 DEF SetupPasses
  <2>2. "arg" \in DOMAIN vote' /\ vote'.arg = arg
    BY <1>1 DEF Callvote
  <2> QED BY <2>1, <2>2 DEF VoteOK
<1>2. CASE ~(gamestate # "INTERMISSION" /\ vote = NoVote /\ SetupPasses(kind, arg))
  BY <1>2 DEF Callvote, votevars, VoteOK
<1> QED BY <1>1, <1>2

LEMMA NextSound == LInv /\ [Next]_vars => LInv'
<1> SUFFICES ASSUME LInv, [Next]_vars PROVE LInv'
  OBVIOUS
<1>1. ASSUME UNCHANGED listvars, VoteOK' PROVE LInv'
  BY <1>1 DEF LInv, ListOK, listvars
<1>2. ASSUME UNCHANGED vote PROVE VoteOK'
  BY <1>2 DEF LInv, VoteOK
<1>3. ASSUME NEW c \in Clients, Connect(c) \/ TimeoutPasses(c) PROVE LInv'
  BY <1>1, <1>2, <1>3 DEF Connect, TimeoutPasses, votevars
<1>4. ASSUME NEW c \in Clients, Quit(c) PROVE LInv'
  <2>1. \/ vote' = vote
        \/ /\ vote # NoVote
           /\ vote' = [vote EXCEPT !.tally = [i \in DOMAIN @ \ {c} |-> @[i]]]
    BY <1>4 DEF Quit, WithoutBallot
  <2>2. VoteOK' BY <2>1 DEF LInv, VoteOK
  <2> QED BY <1>1, <1>4, <2>2 DEF Quit
<1>5. ASSUME NEW c \in Clients, NEW kind \in Kinds, NEW arg, CallVote(c, kind, arg)
      PROVE  LInv'
  BY <1>1, <1>5, CallvoteSound DEF CallVote, LInv
<1>6. ASSUME NEW c \in Clients, NEW ballot, VoteCmd(c, ballot) PROVE LInv'
  <2>1. vote # NoVote /\ vote' = [vote EXCEPT !.tally[c] = ballot]
    BY <1>6 DEF VoteCmd
  <2>2. VoteOK' BY <2>1 DEF LInv, VoteOK
  <2> QED BY <1>1, <1>6, <2>2 DEF VoteCmd
<1>7. ASSUME NEW c \in Askers, ServerReads(c) PROVE LInv'
  <2>1. UNCHANGED listvars BY <1>7 DEF ServerReads
  <2>2. UNCHANGED votevars \/ Callvote(c, "map", Head(requests[c]).index)
    BY <1>7, Zenon DEF ServerReads
  <2> QED BY <1>1, <1>2, <2>1, <2>2, CallvoteSound DEF votevars, LInv
<1>8. ASSUME NEW c \in Askers,
             \/ \E question \in Questions \ {"nothing"} : Ask(c, question)
             \/ LoseRequest(c) \/ ClientReads(c) \/ TimeRunsOut(c) \/ ClientTic(c)
      PROVE  LInv'
  <2>1. UNCHANGED votevars /\ UNCHANGED listvars
    BY <1>8, Zenon DEF Ask, LoseRequest, ClientReads, TimeRunsOut, ClientTic
  <2> QED BY <1>1, <1>2, <2>1 DEF votevars
<1>9. CASE \/ \E position \in 0 .. MaxMaps, map \in Maps : InsertMap(position, map)
           \/ \E i \in 0 .. MaxMaps - 1 : RemoveMap(i)
           \/ ClearMaplist \/ ShuffleMaplist \/ GotoMap
  BY <1>2, <1>9, EditsSound DEF LInv
<1>10. ASSUME NEW exit \in BOOLEAN, Frame(exit) PROVE LInv'
  BY <1>10, FrameSound
<1>11. CASE UNCHANGED vars
  BY <1>1, <1>2, <1>11 DEF vars, votevars
<1> QED BY <1>3, <1>4, <1>5, <1>6, <1>7, <1>8, <1>9, <1>10, <1>11 DEF Next

(***************************************************************************)
(* Whatever is inserted, removed, cleared or shuffled between two levels,  *)
(* and whichever way the next one is chosen: while the list counts the map *)
(* as its own, its index is the place of the map chosen last.              *)
(***************************************************************************)
THEOREM IndexIsCurrent == Spec => []IndexFollowsMap
<1>1. Init => LInv
  BY ListsAssumption DEF Init, LInv, ListOK, VoteOK, IsCurrent
<1>2. LInv => IndexFollowsMap
  BY DEF LInv, ListOK, Sound, IsCurrent, IndexFollowsMap
<1> QED BY <1>1, <1>2, NextSound, PTL DEF Spec

-----------------------------------------------------------------------------
(***************************************************************************)
(* A vote for a map keeps an index and the version of the list.  While the *)
(* versions agree the index is that of the map the vote names, as long as  *)
(* the list is not edited so often that its version comes round.           *)
(***************************************************************************)
\* A version and the n-th after it.
Later(version, n) ==
    IF version + n < VersionSize THEN version + n ELSE version + n - VersionSize

\* Vote v is about list l, with so many edits to come.
Kept(v, l, edits) ==
    v # NoVote /\ v.kind = "map" =>
        /\ v.version \in 0 .. VersionSize - 1
        /\ \E n \in Nat :
              /\ n + edits < VersionSize
              /\ l.version = Later(v.version, n)
              /\ n = 0 => \/ Size(l) = 0
                          \/ v.arg < Size(l) /\ MapAt(l, v.arg) = v.named

\* A vote has the fields that it is decided by.
VoteShape == vote # NoVote => {"kind", "arg", "version", "named"} \subseteq DOMAIN vote

\* What a behavior has a budget of.
What == {"edits", "asks", "losses", "calls", "ballots", "exits"}

\* The inductive invariant behind MapVoteLoadsItsMap.
VoteInv ==
    /\ LInv /\ VoteShape
    /\ left \in [What -> Nat] /\ left["edits"] < VersionSize
    /\ Kept(vote, list, left["edits"])

(* A new version is the next one, and never the one it was. *)
LEMMA NextVersion ==
  ASSUME NEW x \in 0 .. VersionSize - 1, NEW n \in Nat, n + 1 < VersionSize
  PROVE  (Later(x, n) + 1) % VersionSize = Later(x, n + 1)
<1>1. VersionSize \in Nat /\ VersionSize > 1
  BY VersionAssumption
<1>2. ASSUME NEW y \in Nat, y < VersionSize PROVE y % VersionSize = y
  BY <1>1, <1>2
<1>3. VersionSize % VersionSize = 0
  BY <1>1
<1>4. Later(x, n) \in Nat /\ Later(x, n) < VersionSize
  BY <1>1 DEF Later
<1>5. CASE Later(x, n) + 1 < VersionSize
  <2>1. Later(x, n + 1) = Later(x, n) + 1 BY <1>1, <1>5 DEF Later
  <2> QED BY <1>2, <1>4, <1>5, <2>1
<1>6. CASE Later(x, n) + 1 >= VersionSize
  <2>1. Later(x, n) + 1 = VersionSize BY <1>1, <1>4, <1>6
  <2>2. Later(x, n + 1) = 0 BY <1>1, <2>1 DEF Later
  <2> QED BY <1>3, <2>1, <2>2
<1> QED BY <1>1, <1>4, <1>5, <1>6

LEMMA SameVersion ==
  ASSUME NEW x \in 0 .. VersionSize - 1, NEW n \in Nat, n < VersionSize,
         Later(x, n) = x
  PROVE  n = 0
BY VersionAssumption DEF Later

(* The list gets a new version, or keeps its version and its maps, or is left  *)
(* without maps.                                                               *)
LEMMA ListKeeps ==
  ASSUME NEW v, NEW l, NEW e \in Nat, Kept(v, l, e),
         NEW m, NEW f \in Nat, e < VersionSize,
         \/ f <= e /\ m.version = l.version
                   /\ (Size(m) = 0 \/ m.maplist = l.maplist)
         \/ f + 1 = e /\ m.version = (l.version + 1) % VersionSize
  PROVE  Kept(v, m, f) /\ f < VersionSize
<1>0. VersionSize \in Nat BY VersionAssumption
<1>1. f <= e BY <1>0
<1> SUFFICES ASSUME v # NoVote, v.kind = "map"
             PROVE  /\ v.version \in 0 .. VersionSize - 1
                    /\ \E n \in Nat :
                          /\ n + f < VersionSize
                          /\ m.version = Later(v.version, n)
                          /\ n = 0 => \/ Size(m) = 0
                                      \/ v.arg < Size(m) /\ MapAt(m, v.arg) = v.named
  BY <1>0, <1>1 DEF Kept
<1>2. v.version \in 0 .. VersionSize - 1
  BY DEF Kept
<1>3. PICK n \in Nat :
        /\ n + e < VersionSize
        /\ l.version = Later(v.version, n)
        /\ n = 0 => \/ Size(l) = 0
                    \/ v.arg < Size(l) /\ MapAt(l, v.arg) = v.named
  BY DEF Kept
<1>4. CASE f <= e /\ m.version = l.version /\ (Size(m) = 0 \/ m.maplist = l.maplist)
  <2>1. n + f < VersionSize BY <1>0, <1>3, <1>4
  <2>2. n = 0 => \/ Size(m) = 0
                 \/ v.arg < Size(m) /\ MapAt(m, v.arg) = v.named
    BY <1>3, <1>4 DEF Size, MapAt
  <2> QED BY <1>2, <1>3, <1>4, <2>1, <2>2
<1>5. CASE f + 1 = e /\ m.version = (l.version + 1) % VersionSize
  <2>1. n + 1 \in Nat /\ n + 1 + f < VersionSize /\ n + 1 < VersionSize /\ n + 1 # 0
    BY <1>0, <1>3, <1>5
  <2>2. m.version = Later(v.version, n + 1)
    BY <1>2, <1>3, <1>5, <2>1, NextVersion
  <2> QED BY <1>2, <2>1, <2>2
<1> QED BY <1>4, <1>5

(* Whoever changes to a map of the list edits nothing. *)
LEMMA ChangesKeepMaps ==
  ASSUME ListOK, \/ ChangeMap
                 \/ \E i \in Nat : ChangeTo(i)
                 \/ UNCHANGED listvars
  PROVE  list'.maplist = list.maplist /\ list'.version = list.version
<1>1. ASSUME NEW i \in Nat, ChangeTo(i)
      PROVE  list'.maplist = list.maplist /\ list'.version = list.version
  <2>1. CASE i < Size(list)
    <3> DEFINE k == [list EXCEPT !.entered_once = 1, !.in_maplist = 1, !.index = i]
    <3>1. k \in Lists /\ k.maplist = list.maplist /\ k.version = list.version
      BY DEF ListOK, Sound, Lists
    <3>2. list' = UpdateShuffleIndex(k) BY <1>1, <2>1 DEF ChangeTo, SetIndex
    <3> HIDE DEF k
    <3> QED BY <3>1, <3>2, UpdateShuffleIndexKeeps DEF SameMaps
  <2>2. CASE ~(i < Size(list)) BY <1>1, <2>2 DEF ChangeTo
  <2> QED BY <2>1, <2>2
<1>2. CASE ChangeMap
  <2>1. CASE Size(list) > 0
    <3>1. NextIndex(list) \in Nat BY <2>1, NextIndexType DEF ListOK
    <3> QED BY <1>1, <1>2, <2>1, <3>1 DEF ChangeMap
  <2>2. CASE ~(Size(list) > 0) BY <1>2, <2>2 DEF ChangeMap
  <2> QED BY <2>1, <2>2
<1> QED BY <1>1, <1>2 DEF listvars

(* The edits and the changes of the map, one of the budget each. *)
LEMMA EditsKeep ==
  ASSUME VoteInv,
         \/ \E position \in 0 .. MaxMaps, map \in Maps : InsertMap(position, map)
         \/ \E i \in 0 .. MaxMaps - 1 : RemoveMap(i)
         \/ ClearMaplist \/ ShuffleMaplist \/ GotoMap
  PROVE  /\ left' \in [What -> Nat] /\ left'["edits"] < VersionSize
         /\ Kept(vote, list', left'["edits"])
<1>0. /\ ListOK /\ Sound(list) /\ list \in Lists /\ IsCurrent(list, chosen)
      /\ MaxMaps \in Nat /\ left \in [What -> Nat] /\ left["edits"] \in Nat
      /\ left["edits"] < VersionSize /\ Kept(vote, list, left["edits"])
      /\ VersionSize \in Nat
  BY BoundsAssumption, VersionAssumption
     DEF VoteInv, LInv, ListOK, Sound, What
<1>1. Spend("edits")
  BY Zenon DEF InsertMap, RemoveMap, ClearMaplist, ShuffleMaplist, GotoMap
<1>2. /\ left' \in [What -> Nat] /\ left'["edits"] \in Nat
      /\ left'["edits"] + 1 = left["edits"]
  BY <1>0, <1>1 DEF Spend, What
<1>3. \/ list'.version = list.version
            /\ (Size(list') = 0 \/ list'.maplist = list.maplist)
      \/ list'.version = (list.version + 1) % VersionSize
  <2>1. ASSUME NEW position \in 0 .. MaxMaps, NEW map \in Maps,
               InsertMap(position, map)
        PROVE  list'.version = (list.version + 1) % VersionSize
    <3>1. /\ position \in Nat /\ position <= Size(list)
          /\ list' \in Insert(list, position, map)
      BY <1>0, <2>1 DEF InsertMap, Edited
    <3> QED BY <1>0, <3>1, InsertSound
  <2>2. ASSUME NEW i \in 0 .. MaxMaps - 1, RemoveMap(i)
        PROVE  \/ list'.version = list.version /\ Size(list') = 0
               \/ list'.version = (list.version + 1) % VersionSize
    <3>1. i \in Nat /\ i < Size(list) /\ list' \in Remove(list, i)
      BY <1>0, <2>2 DEF RemoveMap, Edited
    <3> QED BY <1>0, <3>1, RemoveSound
  <2>3. CASE ClearMaplist
    <3> DEFINE k == [list EXCEPT !.maplist = << >>, !.in_maplist = 0, !.index = 0]
    <3>1. list' = NewVersion(k) BY <2>3 DEF ClearMaplist, Edited, Clear
    <3>2. k \in Lists /\ k.version = list.version
      <4>1. << >> \in Seq(Maps) OBVIOUS
      <4> QED BY <1>0, <4>1, EmptyMaplist, Zenon
    <3> HIDE DEF k
    <3> QED BY <3>1, <3>2, NewVersionKeeps
  <2>4. CASE ShuffleMaplist
    <3>1. PICK s : /\ s = list \/ s \in Shuffle(list)
                   /\ list' = [s EXCEPT !.shuffled = 1 - list.shuffled]
      BY <2>4 DEF ShuffleMaplist, Edited, SetShuffle
    <3>2. s \in Lists /\ s.maplist = list.maplist /\ s.version = list.version
      BY <1>0, <3>1, ShuffleKeeps DEF SameMaps
    <3> QED BY <3>1, <3>2 DEF Lists
  <2>5. CASE GotoMap
    <3>1. ChangeMap \/ \E i \in Nat : ChangeTo(i) BY <1>0, <2>5 DEF GotoMap
    <3> QED BY <1>0, <3>1, ChangesKeepMaps
  <2> QED BY <2>1, <2>2, <2>3, <2>4, <2>5
<1> QED BY <1>0, <1>2, <1>3, ListKeeps

(* Vote_Runtic: the vote goes on, or is over; a change of map edits nothing. *)
LEMMA FrameKeeps ==
  ASSUME VoteInv, NEW exit \in BOOLEAN, Frame(exit)
  PROVE  /\ left' \in [What -> Nat] /\ left'["edits"] < VersionSize
         /\ VoteShape' /\ Kept(vote', list', left'["edits"])
<1>0. /\ ListOK /\ MaxMaps \in Nat /\ left \in [What -> Nat] /\ left["edits"] \in Nat
      /\ left["edits"] < VersionSize /\ Kept(vote, list, left["edits"])
      /\ VoteShape
  BY BoundsAssumption DEF VoteInv, LInv, What
<1>1. left' \in [What -> Nat] /\ left'["edits"] = left["edits"]
  <2>1. Spend("exits") \/ left' = left BY DEF Frame
  <2> QED BY <1>0, <2>1 DEF Spend, What
<1>2. ChangeMap \/ (\E i \in Nat : ChangeTo(i)) \/ UNCHANGED listvars
  <2>1. VoteRuntic BY DEF Frame
  <2>2. CASE VotePasses
    <3>1. Exec(vote) /\ vote.arg \in Nat
      BY <2>1, <2>2 DEF VoteRuntic, VotePasses, VoteInv, LInv, VoteOK
    <3> QED BY <1>0, <3>1 DEF Exec
  <2>3. CASE ~VotePasses
    BY <2>1, <2>3 DEF VoteRuntic, listvars
  <2> QED BY <2>2, <2>3
<1>3. list'.maplist = list.maplist /\ list'.version = list.version
  BY <1>0, <1>2, ChangesKeepMaps
<1>4. Kept(vote, list', left'["edits"])
  BY <1>0, <1>1, <1>3, ListKeeps
<1>5. \/ vote' = NoVote
      \/ vote' = vote
      \/ vote # NoVote /\ vote' = [vote EXCEPT !.countdown = @ - 1]
  BY DEF Frame, VoteRuntic
<1>6. CASE vote # NoVote /\ vote' = [vote EXCEPT !.countdown = @ - 1]
  <2>1. /\ vote'.kind = vote.kind /\ vote'.arg = vote.arg
        /\ vote'.version = vote.version /\ vote'.named = vote.named
        /\ DOMAIN vote' = DOMAIN vote
    BY <1>0, <1>6 DEF VoteShape
  <2> QED BY <1>0, <1>1, <1>4, <1>6, <2>1 DEF Kept, VoteShape
<1>7. CASE vote' = NoVote \/ vote' = vote
  BY <1>0, <1>1, <1>4, <1>7 DEF Kept, VoteShape
<1> QED BY <1>5, <1>6, <1>7

(* A vote that is called is about the list as it is. *)
LEMMA CallvoteKeeps ==
  ASSUME VoteInv, NEW c, NEW kind, NEW arg, Callvote(c, kind, arg)
  PROVE  VoteShape' /\ Kept(vote', list, left["edits"])
<1>0. /\ list \in Lists /\ left["edits"] < VersionSize /\ left["edits"] \in Nat
      /\ VersionSize \in Nat
  BY VersionAssumption DEF VoteInv, LInv, ListOK, Sound, What
<1>1. CASE gamestate # "INTERMISSION" /\ vote = NoVote /\ SetupPasses(kind, arg)
  <2>1. /\ {"kind", "arg", "version", "named"} \subseteq DOMAIN vote'
        /\ vote'.kind = kind /\ vote'.arg = arg /\ vote'.version = list.version
        /\ kind = "map" => vote'.named = MapAt(list, arg)
    BY <1>1 DEF Callvote
  <2>2. kind = "map" => arg < Size(list) BY <1>1 DEF SetupPasses
  <2>3. list.version \in 0 .. VersionSize - 1 BY <1>0 DEF Lists
  <2>4. 0 \in Nat /\ 0 + left["edits"] < VersionSize
        /\ list.version = Later(list.version, 0)
    BY <1>0, <2>3 DEF Later
  <2> QED BY <2>1, <2>2, <2>3, <2>4 DEF Kept, VoteShape
<1>2. CASE ~(gamestate # "INTERMISSION" /\ vote = NoVote /\ SetupPasses(kind, arg))
  BY <1>2 DEF Callvote, votevars, VoteInv, VoteShape
<1> QED BY <1>1, <1>2

LEMMA NextKeeps == VoteInv /\ [Next]_vars => VoteInv'
<1> SUFFICES ASSUME VoteInv, [Next]_vars PROVE VoteInv'
  OBVIOUS
<1>1. LInv' BY NextSound DEF VoteInv
<1>2. /\ left \in [What -> Nat] /\ left["edits"] < VersionSize /\ VoteShape
      /\ Kept(vote, list, left["edits"])
  BY DEF VoteInv
<1> SUFFICES /\ VoteShape'
             /\ left' \in [What -> Nat] /\ left'["edits"] < VersionSize
             /\ Kept(vote', list', left'["edits"])
  BY <1>1 DEF VoteInv
<1>3. ASSUME NEW w \in What \ {"edits"}, Spend(w)
      PROVE  left' \in [What -> Nat] /\ left'["edits"] = left["edits"]
  BY <1>2, <1>3 DEF Spend, What
<1>4. ASSUME NEW c \in Clients, Connect(c) PROVE VoteInv'
  <2>1. list' = list /\ vote' = vote /\ Spend("exits")
    BY <1>4 DEF Connect, listvars, votevars
  <2> QED BY <1>1, <1>2, <1>3, <2>1 DEF What, VoteInv, VoteShape
<1>5. ASSUME NEW c \in Clients, Quit(c) PROVE VoteInv'
  <2>1. list' = list /\ Spend("exits") /\ vote' = WithoutBallot(vote, c)
    BY <1>5 DEF Quit, listvars
  <2>2. CASE vote = NoVote
    <3>1. vote' = NoVote BY <2>1, <2>2 DEF WithoutBallot
    <3> QED BY <1>1, <1>2, <1>3, <2>1, <3>1 DEF What, VoteInv, VoteShape, Kept
  <2>3. CASE vote # NoVote
    <3>1. /\ vote'.kind = vote.kind /\ vote'.arg = vote.arg
          /\ vote'.version = vote.version /\ vote'.named = vote.named
          /\ DOMAIN vote' = DOMAIN vote
      BY <1>2, <2>1, <2>3 DEF VoteShape, WithoutBallot
    <3>2. VoteShape' /\ Kept(vote', list, left["edits"])
      BY <1>2, <2>3, <3>1 DEF VoteShape, Kept
    <3> QED BY <1>1, <1>2, <1>3, <2>1, <3>2 DEF What, VoteInv
  <2> QED BY <2>2, <2>3
<1>6. ASSUME NEW c, TimeoutPasses(c) PROVE VoteInv'
  BY <1>1, <1>2, <1>6 DEF TimeoutPasses, listvars, votevars, VoteInv, VoteShape
<1>7. ASSUME NEW c \in Clients, NEW kind, NEW arg, CallVote(c, kind, arg)
      PROVE  VoteInv'
  <2>1. VoteShape' /\ Kept(vote', list, left["edits"])
    BY <1>7, CallvoteKeeps DEF CallVote
  <2>2. list' = list /\ Spend("calls") BY <1>7 DEF CallVote, listvars
  <2> QED BY <1>1, <1>2, <1>3, <2>1, <2>2 DEF What, VoteInv
<1>8. ASSUME NEW c \in Clients, NEW ballot, VoteCmd(c, ballot) PROVE VoteInv'
  <2>1. /\ list' = list /\ Spend("ballots") /\ vote # NoVote
        /\ vote' = [vote EXCEPT !.tally[c] = ballot]
    BY <1>8 DEF VoteCmd, listvars
  <2>2. /\ vote'.kind = vote.kind /\ vote'.arg = vote.arg
        /\ vote'.version = vote.version /\ vote'.named = vote.named
        /\ DOMAIN vote' = DOMAIN vote
    BY <1>2, <2>1 DEF VoteShape
  <2>3. VoteShape' /\ Kept(vote', list, left["edits"])
    BY <1>2, <2>1, <2>2 DEF VoteShape, Kept
  <2> QED BY <1>1, <1>2, <1>3, <2>1, <2>3 DEF What, VoteInv
<1>9. ASSUME NEW c \in Askers, ServerReads(c) PROVE VoteInv'
  <2>1. list' = list /\ left' = left BY <1>9 DEF ServerReads, listvars
  <2>2. UNCHANGED votevars \/ Callvote(c, "map", Head(requests[c]).index)
    BY <1>9, Zenon DEF ServerReads
  <2>3. VoteShape' /\ Kept(vote', list, left["edits"])
    BY <1>2, <2>2, CallvoteKeeps DEF votevars, VoteShape
  <2> QED BY <1>1, <1>2, <2>1, <2>3 DEF VoteInv
<1>10. ASSUME NEW c \in Askers,
              \/ \E question \in Questions \ {"nothing"} : Ask(c, question)
              \/ LoseRequest(c) \/ ClientReads(c) \/ TimeRunsOut(c) \/ ClientTic(c)
       PROVE  VoteInv'
  <2>1. UNCHANGED votevars /\ UNCHANGED listvars
    BY <1>10, Zenon DEF Ask, LoseRequest, ClientReads, TimeRunsOut, ClientTic
  <2>2. Spend("asks") \/ Spend("losses") \/ left' = left
    BY <1>10, Zenon DEF Ask, LoseRequest, ClientReads, TimeRunsOut, ClientTic
  <2>3. left' \in [What -> Nat] /\ left'["edits"] = left["edits"]
    BY <1>2, <1>3, <2>2 DEF What
  <2> QED BY <1>1, <1>2, <2>1, <2>3 DEF votevars, listvars, VoteInv, VoteShape
<1>11. ASSUME \/ \E position \in 0 .. MaxMaps, map \in Maps : InsertMap(position, map)
              \/ \E i \in 0 .. MaxMaps - 1 : RemoveMap(i)
              \/ ClearMaplist \/ ShuffleMaplist \/ GotoMap
       PROVE  VoteInv'
  <2>1. vote' = vote BY <1>11, EditsSound DEF VoteInv, LInv
  <2>2. /\ left' \in [What -> Nat] /\ left'["edits"] < VersionSize
        /\ Kept(vote, list', left'["edits"])
    BY <1>11, EditsKeep
  <2> QED BY <1>1, <1>2, <2>1, <2>2 DEF VoteInv, VoteShape
<1>12. ASSUME NEW exit \in BOOLEAN, Frame(exit) PROVE VoteInv'
  BY <1>1, <1>12, FrameKeeps DEF VoteInv
<1>13. ASSUME UNCHANGED vars PROVE VoteInv'
  <2>1. list' = list /\ vote' = vote /\ left' = left
    BY <1>13 DEF vars, listvars, votevars
  <2> QED BY <1>1, <1>2, <2>1 DEF VoteInv, VoteShape
<1>14. VoteInv'
  BY <1>4, <1>5, <1>6, <1>7, <1>8, <1>9, <1>10, <1>11, <1>12, <1>13 DEF Next
<1> QED BY <1>14 DEF VoteInv

(***************************************************************************)
(* A vote for a map that passes loads the map it was called for, or none   *)
(* when the list is empty, wherever the map has got to in the meantime: if *)
(* there are fewer edits than versions.  With as many the version comes    *)
(* round under a vote, and the index may be that of another map.           *)
(***************************************************************************)
THEOREM VotedMapIsLoaded ==
  ASSUME \A b \in Budgets : b["edits"] < VersionSize
  PROVE  Spec => MapVoteLoadsItsMap
<1>1. Init => VoteInv
  <2> SUFFICES ASSUME Init PROVE VoteInv
    OBVIOUS
  <2>1. LInv
    BY ListsAssumption DEF Init, LInv, ListOK, VoteOK, IsCurrent
  <2>2. left \in [What -> Nat] /\ left["edits"] < VersionSize
    BY BoundsAssumption DEF Init, What
  <2> QED BY <2>1, <2>2 DEF Init, VoteInv, VoteShape, Kept
<1>2. ASSUME VoteInv, [Next]_vars,
             VotePasses, vote.kind = "map", vote' = NoVote
      PROVE  chosen' = vote.named \/ Size(list) = 0
  <2>1. /\ vote # NoVote /\ vote.version = list.version /\ "kind" \in DOMAIN vote
    BY <1>2 DEF VotePasses, VoteResult, VoteTic, VoteInv, VoteShape
  <2>2. Size(list) = 0 \/ (vote.arg < Size(list) /\ MapAt(list, vote.arg) = vote.named)
    <3>1. PICK n \in Nat :
            /\ n + left["edits"] < VersionSize
            /\ list.version = Later(vote.version, n)
            /\ n = 0 => \/ Size(list) = 0
                        \/ vote.arg < Size(list) /\ MapAt(list, vote.arg) = vote.named
      BY <1>2, <2>1 DEF VoteInv, Kept
    <3>2. vote.version \in 0 .. VersionSize - 1
      BY <1>2, <2>1 DEF VoteInv, Kept
    <3>3. n < VersionSize
      BY <1>2, <3>1, VersionAssumption DEF VoteInv, What
    <3>4. n = 0 BY <2>1, <3>1, <3>2, <3>3, SameVersion
    <3> QED BY <3>1, <3>4
  <2>3. ASSUME NEW exit \in BOOLEAN, Frame(exit) PROVE chosen' = vote.named \/ Size(list) = 0
    <3>1. Exec(vote) BY <1>2, <2>3 DEF Frame, VoteRuntic
    <3>2. ChangeTo(vote.arg) BY <1>2, <3>1 DEF Exec
    <3> QED BY <2>2, <3>2 DEF ChangeTo
  <2>4. ASSUME ~\E exit \in BOOLEAN : Frame(exit) PROVE vote' # NoVote
    <3>1. ASSUME vote' = vote PROVE vote' # NoVote BY <2>1, <3>1
    <3>2. ASSUME NEW c \in Clients, Quit(c) PROVE vote' # NoVote
      <4>1. vote'.kind = vote.kind
        BY <2>1, <3>2 DEF Quit, WithoutBallot
      <4> QED BY <1>2, <4>1 DEF NoVote
    <3>3. ASSUME NEW c \in Clients, NEW ballot, VoteCmd(c, ballot) PROVE vote' # NoVote
      <4>1. vote'.kind = vote.kind
        BY <2>1, <3>3 DEF VoteCmd
      <4> QED BY <1>2, <4>1 DEF NoVote
    <3>4. ASSUME NEW c, NEW kind, NEW arg, Callvote(c, kind, arg) PROVE vote' # NoVote
      BY <2>1, <3>4 DEF Callvote, votevars
    <3>5. ASSUME NEW c \in Clients, \/ Connect(c) \/ TimeoutPasses(c)
                                    \/ \E kind, arg : CallVote(c, kind, arg)
          PROVE  vote' # NoVote
      BY <3>1, <3>4, <3>5 DEF Connect, TimeoutPasses, CallVote, votevars
    <3>6. ASSUME NEW c \in Askers, ServerReads(c) PROVE vote' # NoVote
      <4>1. UNCHANGED votevars \/ Callvote(c, "map", Head(requests[c]).index)
        BY <3>6, Zenon DEF ServerReads
      <4> QED BY <3>1, <3>4, <4>1 DEF votevars
    <3>7. ASSUME NEW c \in Askers,
                 \/ \E question \in Questions \ {"nothing"} : Ask(c, question)
                 \/ LoseRequest(c) \/ ClientReads(c) \/ TimeRunsOut(c) \/ ClientTic(c)
          PROVE  vote' # NoVote
      <4>1. UNCHANGED votevars
        BY <3>7, Zenon DEF Ask, LoseRequest, ClientReads, TimeRunsOut, ClientTic
      <4> QED BY <3>1, <4>1 DEF votevars
    <3>8. ASSUME \/ \E position \in 0 .. MaxMaps, map \in Maps : InsertMap(position, map)
                 \/ \E i \in 0 .. MaxMaps - 1 : RemoveMap(i)
                 \/ ClearMaplist \/ ShuffleMaplist \/ GotoMap
          PROVE  vote' # NoVote
      <4>1. vote' = vote BY <1>2, <3>8, EditsSound DEF VoteInv, LInv
      <4> QED BY <3>1, <4>1
    <3>9. ASSUME UNCHANGED vars PROVE vote' # NoVote
      <4>1. vote' = vote BY <3>9 DEF vars, votevars
      <4> QED BY <3>1, <4>1
    <3> QED BY <1>2, <2>4, <3>2, <3>3, <3>5, <3>6, <3>7, <3>8, <3>9 DEF Next
  <2> QED BY <1>2, <2>3, <2>4
<1>3. VoteInv /\ [Next]_vars =>
        [(VotePasses /\ vote.kind = "map" /\ vote' = NoVote)
            => chosen' = vote.named \/ Size(list) = 0]_vars
  BY <1>2
<1> QED BY <1>1, <1>3, NextKeeps, PTL DEF Spec, MapVoteLoadsItsMap

-----------------------------------------------------------------------------
(***************************************************************************)
(* The map list on its way to a client who has given up no question: of    *)
(* what it asks one thing at a time is on its way, either the question or  *)
(* the answer, and no answer is about an older list than the server counts *)
(* on.                                                                     *)
(***************************************************************************)

\* What a client asks, and what the server answers.
Requests == [type : {"maplist"}, status : Statuses] \cup [type : {"update"}]
                \cup [type : {"callvote"}, index : Nat]
Messages == [type : {"status", "update"}, status : Statuses, list : Seq(Maps)]
                \cup [type : {"index"}, count : 0 .. 2]

\* The types of what the clients and the server keep and send.
ChannelsOK ==
    /\ timeouts \in [Clients -> Timeouts]
    /\ cache \in [Askers -> Caches]
    /\ requests \in [Askers -> Seq(Requests)]
    /\ answers \in [Askers -> Seq(Messages)]

\* The requests that are answered with the state of the list.
IsQuery(m) == m.type \in {"maplist", "update"}

\* The server that remembers to have sent a client its list sent these maps,
\* unless it has none now; a list without maps is not told to be good, and the
\* first map put into it makes the server forget.
Fits(l, timeout, maps) == timeout # "none" => Size(l) = 0 \/ maps = l.maplist

\* What is under way between the server and client c among ps: requests r,
\* answers a, and the cache k.
Orderly(c, ps, r, a, k) ==
    /\ \A i \in 1 .. Len(r) : IsQuery(r[i]) =>
          /\ c \in ps /\ k.question # "nothing" /\ a = << >>
          /\ k.status \in {"WAIT", "OUTDATED"}
          /\ \A j \in 1 .. Len(r) : IsQuery(r[j]) => j = i
    /\ a # << >> =>
          /\ c \in ps /\ k.question # "nothing"
          /\ k.status \in {"WAIT", "OUTDATED"}
    /\ \A i \in 1 .. Len(r) : r[i].type = "update" => k.status = "OUTDATED"
    /\ \A i \in 1 .. Len(a) : i < Len(a) => a[i].type = "index"

\* Whoever says or is told that the cache is good, and whoever is sent a list,
\* has or gets the list of the server.
Truthful(l, timeout, r, a, k) ==
    /\ \A i \in 1 .. Len(r) :
          r[i].type = "maplist" /\ r[i].status = "OK" => Fits(l, timeout, k.maplist)
    /\ \A i \in 1 .. Len(a) :
          /\ a[i].type = "status" /\ a[i].status = "OK" =>
                a[i].list = k.maplist /\ Fits(l, timeout, a[i].list)
          /\ a[i].type = "update" /\ a[i].status # "EMPTY" =>
                Fits(l, timeout, a[i].list)
    /\ k.status = "OK" => Fits(l, timeout, k.maplist)

\* The inductive invariant behind PatientOkIsTrue, for client c.
Honest(c) ==
    /\ Orderly(c, players, requests[c], answers[c], cache[c])
    /\ Truthful(list, timeouts[c], requests[c], answers[c], cache[c])

\* A client is late once it has given up a question.
AllHonest == \A c \in Askers \ late : Honest(c)
CacheInv  == LInv /\ ChannelsOK /\ AllHonest

(* A channel after its first message has been read. *)
LEMMA Tails ==
  ASSUME NEW S, NEW s \in Seq(S), s # << >>
  PROVE  /\ Tail(s) \in Seq(S) /\ Len(Tail(s)) = Len(s) - 1 /\ Len(s) \in Nat
         /\ Len(s) > 0 /\ Head(s) = s[1] /\ s[1] \in S
         /\ \A i \in 1 .. Len(s) - 1 : Tail(s)[i] = s[i + 1]
<1>1. Len(s) \in Nat /\ Len(s) > 0
  BY EmptySeq
<1> QED BY <1>1, HeadTailProperties

(* A channel after a message has been sent. *)
LEMMA Sent ==
  ASSUME NEW S, NEW s \in Seq(S), NEW m \in S
  PROVE  /\ s \o <<m>> \in Seq(S) /\ Len(s \o <<m>>) = Len(s) + 1 /\ Len(s) \in Nat
         /\ \A i \in 1 .. Len(s) : (s \o <<m>>)[i] = s[i]
         /\ (s \o <<m>>)[Len(s) + 1] = m
<1>1. <<m>> \in Seq(S) /\ Len(<<m>>) = 1 /\ <<m>>[1] = m
  OBVIOUS
<1> QED BY <1>1

(* Two messages, one after the other. *)
LEMMA TwoMessages ==
  ASSUME NEW x, NEW y
  PROVE  /\ <<x>> \o <<y>> = <<x, y>>
         /\ Len(<<x, y>>) = 2 /\ <<x, y>>[1] = x /\ <<x, y>>[2] = y
<1>1. /\ Len(<<x, y>>) = 2 /\ <<x, y>>[1] = x /\ <<x, y>>[2] = y
  OBVIOUS
<1>2. <<x>> \in Seq({x, y}) /\ <<y>> \in Seq({x, y}) /\ <<x, y>> \in Seq({x, y})
  OBVIOUS
<1>3. Len(<<x>>) = 1 /\ Len(<<y>>) = 1 /\ <<x>>[1] = x /\ <<y>>[1] = y
  OBVIOUS
<1>4. <<x>> \o <<y>> = <<x, y>>
  <2> DEFINE s == <<x>> \o <<y>>
             t == <<x, y>>
  <2>1. s \in Seq({x, y}) /\ Len(s) = 2 /\ s[1] = x /\ s[2] = y
    BY <1>2, <1>3, ConcatProperties
  <2>2. t \in Seq({x, y}) /\ Len(t) = 2 /\ t[1] = x /\ t[2] = y
    BY <1>1, <1>2
  <2> HIDE DEF s, t
  <2>3. \A i \in 1 .. Len(s) : s[i] = t[i]
    BY <2>1, <2>2
  <2>4. s = t
    BY <2>1, <2>2, <2>3, SeqEqual
  <2> QED BY <2>4 DEF s, t
<1> QED BY <1>1, <1>4

(* A request that is lost, or read by the server, leaves the others. *)
LEMMA OneLess ==
  ASSUME NEW c, NEW ps, NEW r \in Seq(Requests), r # << >>, NEW a, NEW k,
         NEW l, NEW t,
         Orderly(c, ps, r, a, k), Truthful(l, t, r, a, k)
  PROVE  /\ Orderly(c, ps, Tail(r), a, k)
         /\ Truthful(l, t, Tail(r), a, k)
<1>1. /\ Len(Tail(r)) = Len(r) - 1 /\ Len(r) \in Nat
      /\ \A i \in 1 .. Len(Tail(r)) : i + 1 \in 1 .. Len(r) /\ Tail(r)[i] = r[i + 1]
  BY Tails
<1>2. Orderly(c, ps, Tail(r), a, k)
  <2>1. ASSUME NEW i \in 1 .. Len(Tail(r)), IsQuery(Tail(r)[i])
        PROVE  /\ c \in ps /\ k.question # "nothing" /\ a = << >>
               /\ k.status \in {"WAIT", "OUTDATED"}
               /\ \A j \in 1 .. Len(Tail(r)) : IsQuery(Tail(r)[j]) => j = i
    <3>1. IsQuery(r[i + 1]) /\ i + 1 \in 1 .. Len(r) BY <1>1, <2>1
    <3>2. /\ c \in ps /\ k.question # "nothing" /\ a = << >>
          /\ k.status \in {"WAIT", "OUTDATED"}
          /\ \A j \in 1 .. Len(r) : IsQuery(r[j]) => j = i + 1
      BY <3>1 DEF Orderly
    <3>3. ASSUME NEW j \in 1 .. Len(Tail(r)), IsQuery(Tail(r)[j]) PROVE j = i
      <4>1. j + 1 = i + 1 BY <1>1, <3>2, <3>3
      <4> QED BY <4>1, <1>1
    <3> QED BY <3>2, <3>3
  <2>2. ASSUME NEW i \in 1 .. Len(Tail(r)), Tail(r)[i].type = "update"
        PROVE  k.status = "OUTDATED"
    BY <1>1, <2>2 DEF Orderly
  <2> QED BY <2>1, <2>2 DEF Orderly
<1>3. Truthful(l, t, Tail(r), a, k)
  BY <1>1 DEF Truthful
<1> QED BY <1>2, <1>3

(* The first request is a question: then it is the only one. *)
LEMMA OnlyQuery ==
  ASSUME NEW c, NEW ps, NEW r \in Seq(Requests), r # << >>, NEW a, NEW k,
         Orderly(c, ps, r, a, k), IsQuery(Head(r))
  PROVE  /\ c \in ps /\ k.question # "nothing" /\ a = << >>
         /\ k.status \in {"WAIT", "OUTDATED"}
         /\ \A i \in 1 .. Len(Tail(r)) : ~IsQuery(Tail(r)[i])
         /\ Head(r).type = "update" => k.status = "OUTDATED"
<1>1. /\ Len(Tail(r)) = Len(r) - 1 /\ Len(r) \in Nat /\ 1 \in 1 .. Len(r)
      /\ \A i \in 1 .. Len(Tail(r)) : i + 1 \in 1 .. Len(r) /\ Tail(r)[i] = r[i + 1]
      /\ Head(r) = r[1]
  BY Tails
<1>2. /\ c \in ps /\ k.question # "nothing" /\ a = << >>
      /\ k.status \in {"WAIT", "OUTDATED"}
      /\ \A j \in 1 .. Len(r) : IsQuery(r[j]) => j = 1
      /\ r[1].type = "update" => k.status = "OUTDATED"
  BY <1>1 DEF Orderly
<1>3. ASSUME NEW i \in 1 .. Len(Tail(r)) PROVE ~IsQuery(Tail(r)[i])
  <2>1. i + 1 # 1 BY <1>1
  <2> QED BY <1>1, <1>2, <2>1
<1> QED BY <1>1, <1>2, <1>3

(* SV_Maplist: only who has the list that was sent is told that it is good. *)
LEMMA MaplistHonest ==
  ASSUME NEW c, NEW ps, NEW r \in Seq(Requests), r # << >>, NEW a, NEW k,
         NEW l, NEW t, NEW s,
         Orderly(c, ps, r, a, k), Truthful(l, t, r, a, k),
         Head(r).type = "maplist", Head(r).status = s
  PROVE  /\ Orderly(c, ps, Tail(r), a \o Maplist(l, t, s), k)
         /\ Truthful(l, t, Tail(r), a \o Maplist(l, t, s), k)
<1> DEFINE b == Maplist(l, t, s)
<1>1. /\ c \in ps /\ k.question # "nothing" /\ a = << >>
      /\ k.status \in {"WAIT", "OUTDATED"}
      /\ \A i \in 1 .. Len(Tail(r)) : ~IsQuery(Tail(r)[i])
  <2>1. IsQuery(Head(r)) BY DEF IsQuery
  <2> QED BY <2>1, OnlyQuery
<1>2. Orderly(c, ps, Tail(r), a, k) /\ Truthful(l, t, Tail(r), a, k)
  BY OneLess
<1>3. /\ b = << >> \/ (\E m : b = <<m>>) \/ (\E m : b = <<IndexMessage(l), m>>)
      /\ IndexMessage(l).type = "index"
  BY DEF Maplist, IndexMessage
<1>4. a \o b = b
  BY <1>1, <1>3
<1>5. \A i \in 1 .. Len(b) : i < Len(b) => b[i].type = "index"
  <2>1. CASE b = << >> \/ \E m : b = <<m>>
    <3>1. Len(b) = 0 \/ Len(b) = 1 BY <2>1
    <3> HIDE DEF b
    <3>2. ASSUME NEW i \in 1 .. Len(b) PROVE ~(i < Len(b))
      <4>1. CASE Len(b) = 0 BY <4>1
      <4>2. CASE Len(b) = 1 BY <4>2
      <4> QED BY <3>1, <4>1, <4>2
    <3> QED BY <3>2
  <2>2. CASE \E m : b = <<IndexMessage(l), m>>
    <3>1. PICK m : b = <<IndexMessage(l), m>> BY <2>2
    <3>2. Len(b) = 2 /\ b[1] = IndexMessage(l) BY <3>1
    <3> HIDE DEF b
    <3> QED BY <1>3, <3>2
  <2> QED BY <1>3, <2>1, <2>2
<1>6. ASSUME NEW i \in 1 .. Len(b), b[i].type # "index"
      PROVE  /\ b[i].type = "status"
             /\ b[i].status = "OK" =>
                   b[i].list = l.maplist /\ s = "OK" /\ t # "none" /\ Size(l) # 0
  <2>1. CASE Size(l) = 0
    <3>1. b = <<StatusMessage(l, "EMPTY")>> BY <2>1 DEF Maplist
    <3> QED BY <1>6, <3>1 DEF StatusMessage
  <2>2. CASE Size(l) # 0 /\ ~PidCached(t)
    <3>1. b = <<StatusMessage(l, "OUTDATED")>> BY <2>2 DEF Maplist
    <3> QED BY <1>6, <3>1 DEF StatusMessage
  <2>3. CASE Size(l) # 0 /\ PidCached(t) /\ s = "OK"
    <3>1. b = <<IndexMessage(l), StatusMessage(l, "OK")>> BY <2>3 DEF Maplist
    <3>2. b[i] = StatusMessage(l, "OK") BY <1>3, <1>6, <3>1
    <3> QED BY <2>3, <3>2 DEF StatusMessage, PidCached
  <2>4. CASE Size(l) # 0 /\ PidCached(t) /\ s # "OK"
    <3>1. b = << >> \/ b = <<StatusMessage(l, "OUTDATED")>> BY <2>4 DEF Maplist
    <3> QED BY <1>6, <3>1 DEF StatusMessage
  <2> QED BY <2>1, <2>2, <2>3, <2>4
<1> HIDE DEF b
<1>7. s = "OK" => Fits(l, t, k.maplist)
  <2>1. Len(r) \in Nat /\ 1 \in 1 .. Len(r) /\ Head(r) = r[1] BY Tails
  <2> QED BY <2>1 DEF Truthful
<1>8. Orderly(c, ps, Tail(r), b, k)
  BY <1>1, <1>2, <1>5 DEF Orderly
<1>9. Truthful(l, t, Tail(r), b, k)
  <2>1. ASSUME NEW i \in 1 .. Len(b), b[i].type = "status", b[i].status = "OK"
        PROVE  b[i].list = k.maplist /\ Fits(l, t, b[i].list)
    <3>1. b[i].list = l.maplist /\ s = "OK" /\ t # "none" /\ Size(l) # 0
      BY <1>6, <2>1
    <3> QED BY <1>7, <3>1 DEF Fits
  <2>2. ASSUME NEW i \in 1 .. Len(b), b[i].type = "update"
        PROVE  FALSE
    BY <1>6, <2>2
  <2> QED BY <1>2, <2>1, <2>2 DEF Truthful
<1> QED BY <1>4, <1>8, <1>9 DEF b

(* SV_MaplistUpdate: what is sent is the list, and the server remembers it. *)
LEMMA UpdateHonest ==
  ASSUME NEW c, NEW ps, NEW r \in Seq(Requests), r # << >>, NEW a, NEW k,
         NEW l, NEW t, NEW t2,
         Orderly(c, ps, r, a, k), Truthful(l, t, r, a, k),
         Head(r).type = "update",
         t2 = IF UpdateIsSent(l, t) THEN "running" ELSE t
  PROVE  /\ Orderly(c, ps, Tail(r), a \o MaplistUpdate(l, t), k)
         /\ Truthful(l, t2, Tail(r), a \o MaplistUpdate(l, t), k)
<1> DEFINE b == MaplistUpdate(l, t)
<1>1. /\ c \in ps /\ k.question # "nothing" /\ a = << >> /\ k.status = "OUTDATED"
      /\ \A i \in 1 .. Len(Tail(r)) : ~IsQuery(Tail(r)[i])
  <2>1. IsQuery(Head(r)) BY DEF IsQuery
  <2> QED BY <2>1, OnlyQuery
<1>2. Orderly(c, ps, Tail(r), a, k)
  BY OneLess
<1>3. /\ \/ b = <<IndexMessage(l)>>
         \/ b = <<IndexMessage(l), UpdateMessage(l, "EMPTY")>>
         \/ b = <<IndexMessage(l), UpdateMessage(l, "OUTDATED")>>
      /\ IndexMessage(l).type = "index"
  <2>1. CASE Size(l) = 0
    <3>1. b = <<IndexMessage(l)>> \o <<UpdateMessage(l, "EMPTY")>>
      BY <2>1 DEF MaplistUpdate
    <3>2. b = <<IndexMessage(l), UpdateMessage(l, "EMPTY")>>
      BY <3>1, TwoMessages
    <3> HIDE DEF b
    <3> QED BY <3>2 DEF IndexMessage
  <2>2. CASE Size(l) # 0 /\ UpdateIsSent(l, t)
    <3>1. b = <<IndexMessage(l)>> \o <<UpdateMessage(l, "OUTDATED")>>
      BY <2>2 DEF MaplistUpdate
    <3>2. b = <<IndexMessage(l), UpdateMessage(l, "OUTDATED")>>
      BY <3>1, TwoMessages
    <3> HIDE DEF b
    <3> QED BY <3>2 DEF IndexMessage
  <2>3. CASE Size(l) # 0 /\ ~UpdateIsSent(l, t)
    <3>1. b = <<IndexMessage(l)>> \o << >> BY <2>3 DEF MaplistUpdate
    <3> QED BY <3>1 DEF IndexMessage
  <2> QED BY <2>1, <2>2, <2>3
<1>4. a \o b = b
  BY <1>1, <1>3
<1>5. \A i \in 1 .. Len(b) :
        /\ i < Len(b) => b[i].type = "index"
        /\ b[i].type \in {"index", "update"}
        /\ b[i].type = "update" => b[i].list = l.maplist
  <2>1. CASE b = <<IndexMessage(l)>>
    <3>1. Len(b) = 1 /\ b[1] = IndexMessage(l) BY <2>1
    <3> HIDE DEF b
    <3> QED BY <1>3, <3>1
  <2>2. ASSUME NEW s, b = <<IndexMessage(l), UpdateMessage(l, s)>>
        PROVE  \A i \in 1 .. Len(b) :
                 /\ i < Len(b) => b[i].type = "index"
                 /\ b[i].type \in {"index", "update"}
                 /\ b[i].type = "update" => b[i].list = l.maplist
    <3>1. Len(b) = 2 /\ b[1] = IndexMessage(l) /\ b[2] = UpdateMessage(l, s)
      BY <2>2
    <3>2. UpdateMessage(l, s).type = "update" /\ UpdateMessage(l, s).list = l.maplist
      BY DEF UpdateMessage
    <3> HIDE DEF b
    <3> QED BY <1>3, <3>1, <3>2
  <2> QED BY <1>3, <2>1, <2>2
<1> HIDE DEF b
<1>6. Orderly(c, ps, Tail(r), b, k)
  BY <1>1, <1>2, <1>5 DEF Orderly
<1>7. Truthful(l, t2, Tail(r), b, k)
  <2>1. ASSUME NEW i \in 1 .. Len(b)
        PROVE  /\ b[i].type # "status"
               /\ b[i].type = "update" => Fits(l, t2, b[i].list)
    <3>1. b[i].type \in {"index", "update"} BY <1>5
    <3>2. b[i].type = "update" => b[i].list = l.maplist BY <1>5
    <3> QED BY <3>1, <3>2 DEF Fits
  <2>2. ASSUME NEW i \in 1 .. Len(Tail(r)) PROVE Tail(r)[i].type # "maplist"
    BY <1>1 DEF IsQuery
  <2> QED BY <1>1, <2>1, <2>2 DEF Truthful
<1> QED BY <1>4, <1>6, <1>7 DEF b

(* MaplistCache::query: the question is the only one, and goes out with a      *)
(* status that is true of the cache.                                           *)
LEMMA AskHonest ==
  ASSUME NEW c, NEW ps, NEW r \in Seq(Requests), NEW a, NEW k \in Caches,
         NEW l, NEW t, NEW q,
         Orderly(c, ps, r, a, k), Truthful(l, t, r, a, k),
         c \in ps, k.question = "nothing", q # "nothing",
         NEW m \in Requests, m.type = "maplist", m.status = k.status
  PROVE  /\ Orderly(c, ps, r \o <<m>>, a, DeferQuery(k, q))
         /\ Truthful(l, t, r \o <<m>>, a, DeferQuery(k, q))
<1> DEFINE d == DeferQuery(k, q)
           s == r \o <<m>>
<1>1. d.status = "WAIT" /\ d.question = q /\ d.maplist = k.maplist
  BY DEF DeferQuery, Caches
<1>2. /\ Len(s) = Len(r) + 1 /\ Len(r) \in Nat /\ s[Len(r) + 1] = m
      /\ \A i \in 1 .. Len(r) : s[i] = r[i]
  BY Sent
<1>3. a = << >> /\ \A i \in 1 .. Len(r) : ~IsQuery(r[i])
  BY DEF Orderly
<1> HIDE DEF d, s
<1>4. \A i \in 1 .. Len(s) : \/ i = Len(r) + 1 /\ s[i] = m
                             \/ i # Len(r) + 1 /\ ~IsQuery(s[i])
  <2>1. ASSUME NEW i \in 1 .. Len(s)
        PROVE  \/ i = Len(r) + 1 /\ s[i] = m
               \/ i # Len(r) + 1 /\ ~IsQuery(s[i])
    <3>1. i = Len(r) + 1 \/ (i \in 1 .. Len(r) /\ i # Len(r) + 1) BY <1>2
    <3>2. i \in 1 .. Len(r) => s[i] = r[i] /\ ~IsQuery(r[i]) BY <1>2, <1>3
    <3> QED BY <1>2, <3>1, <3>2, Zenon
  <2> QED BY <2>1
<1>5. Orderly(c, ps, s, a, d)
  <2>1. ASSUME NEW i \in 1 .. Len(s), IsQuery(s[i])
        PROVE  \A j \in 1 .. Len(s) : IsQuery(s[j]) => j = i
    BY <1>4, <2>1, Zenon
  <2>2. ASSUME NEW i \in 1 .. Len(s) PROVE s[i].type # "update"
    <3>1. s[i] = m \/ ~IsQuery(s[i]) BY <1>4
    <3> QED BY <3>1 DEF IsQuery
  <2> QED BY <1>1, <1>3, <2>1, <2>2 DEF Orderly
<1>6. Truthful(l, t, s, a, d)
  <2>1. ASSUME NEW i \in 1 .. Len(s), s[i].type = "maplist", s[i].status = "OK"
        PROVE  Fits(l, t, d.maplist)
    <3>1. s[i] = m \/ ~IsQuery(s[i]) BY <1>4
    <3>2. k.status = "OK" BY <2>1, <3>1 DEF IsQuery
    <3> QED BY <1>1, <3>2 DEF Truthful
  <2>2. ASSUME NEW i \in 1 .. Len(a) PROVE FALSE
    BY <1>3, <2>2
  <2> QED BY <1>1, <2>1, <2>2 DEF Truthful
<1> QED BY <1>5, <1>6 DEF d, s

(* The first answer is read: no question is on its way, and the answers after  *)
(* an answer that is no index are none.                                        *)
LEMMA FirstAnswer ==
  ASSUME NEW c, NEW ps, NEW r \in Seq(Requests), NEW a \in Seq(Messages),
         a # << >>, NEW k, NEW l, NEW t,
         Orderly(c, ps, r, a, k), Truthful(l, t, r, a, k)
  PROVE  /\ c \in ps /\ k.question # "nothing" /\ k.status \in {"WAIT", "OUTDATED"}
         /\ \A i \in 1 .. Len(r) : ~IsQuery(r[i])
         /\ Head(a).type # "index" => Tail(a) = << >>
         /\ Head(a).type = "status" /\ Head(a).status = "OK" =>
               Head(a).list = k.maplist /\ Fits(l, t, k.maplist)
         /\ Head(a).type = "update" /\ Head(a).status # "EMPTY" =>
               Fits(l, t, Head(a).list)
<1>1. /\ Len(Tail(a)) = Len(a) - 1 /\ Len(a) \in Nat /\ Len(a) > 0
      /\ Head(a) = a[1] /\ Tail(a) \in Seq(Messages)
  BY Tails
<1>2. /\ c \in ps /\ k.question # "nothing" /\ k.status \in {"WAIT", "OUTDATED"}
      /\ \A i \in 1 .. Len(r) : ~IsQuery(r[i])
  BY DEF Orderly
<1>3. Head(a).type # "index" => Tail(a) = << >>
  <2>1. 1 \in 1 .. Len(a) BY <1>1
  <2>2. 1 < Len(a) => a[1].type = "index" BY <2>1 DEF Orderly
  <2>3. Head(a).type # "index" => Len(Tail(a)) = 0 BY <1>1, <2>2
  <2> QED BY <1>1, <2>3, EmptySeq
<1>4. /\ Head(a).type = "status" /\ Head(a).status = "OK" =>
            Head(a).list = k.maplist /\ Fits(l, t, Head(a).list)
      /\ Head(a).type = "update" /\ Head(a).status # "EMPTY" =>
            Fits(l, t, Head(a).list)
  <2>1. 1 \in 1 .. Len(a) BY <1>1
  <2> QED BY <1>1, <2>1 DEF Truthful
<1>5. Head(a).type = "status" /\ Head(a).status = "OK" =>
            Head(a).list = k.maplist /\ Fits(l, t, k.maplist)
  BY <1>4
<1> QED BY <1>2, <1>3, <1>4, <1>5

(* MaplistCache::status_handler; an outdated list is asked for.                *)
LEMMA StatusHonest ==
  ASSUME NEW c, NEW ps, NEW r \in Seq(Requests), NEW a \in Seq(Messages),
         a # << >>, NEW k \in Caches, NEW l, NEW t, NEW m \in Requests,
         Orderly(c, ps, r, a, k), Truthful(l, t, r, a, k),
         Head(a).type = "status", m.type = "update", NEW s,
         s = IF Head(a).status = "OUTDATED" THEN r \o <<m>> ELSE r
  PROVE  /\ Orderly(c, ps, s, Tail(a), StatusHandler(k, Head(a).status))
         /\ Truthful(l, t, s, Tail(a), StatusHandler(k, Head(a).status))
<1> DEFINE u == Head(a).status
           d == StatusHandler(k, u)
<1>1. /\ c \in ps /\ k.question # "nothing" /\ Tail(a) = << >>
      /\ \A i \in 1 .. Len(r) : ~IsQuery(r[i])
      /\ u = "OK" => Fits(l, t, k.maplist)
  BY FirstAnswer
<1>2. /\ d.question = k.question /\ d.status = u
      /\ u = "OK" => d.maplist = k.maplist
  BY DEF StatusHandler, Invalidate, Caches
<1> HIDE DEF d
<1>3. CASE u # "OUTDATED"
  <2>1. s = r BY <1>3
  <2>2. \A i \in 1 .. Len(r) : r[i].type \notin {"maplist", "update"}
    BY <1>1 DEF IsQuery
  <2>3. Orderly(c, ps, r, << >>, d) BY <1>1, <2>2 DEF Orderly, IsQuery
  <2>4. Truthful(l, t, r, << >>, d)
    <3>1. d.status = "OK" => Fits(l, t, d.maplist) BY <1>1, <1>2
    <3> QED BY <2>2, <3>1 DEF Truthful
  <2> QED BY <1>1, <2>1, <2>3, <2>4 DEF d
<1>4. CASE u = "OUTDATED"
  <2>1. s = r \o <<m>> BY <1>4
  <2>2. /\ Len(s) = Len(r) + 1 /\ Len(r) \in Nat /\ s[Len(r) + 1] = m
        /\ \A i \in 1 .. Len(r) : s[i] = r[i]
    BY <2>1, Sent
  <2>3. \A i \in 1 .. Len(s) : \/ i = Len(r) + 1 /\ s[i] = m
                               \/ i # Len(r) + 1 /\ ~IsQuery(s[i])
    <3>1. ASSUME NEW i \in 1 .. Len(s)
          PROVE  \/ i = Len(r) + 1 /\ s[i] = m
                 \/ i # Len(r) + 1 /\ ~IsQuery(s[i])
      <4>1. i = Len(r) + 1 \/ (i \in 1 .. Len(r) /\ i # Len(r) + 1) BY <2>2
      <4>2. i \in 1 .. Len(r) => s[i] = r[i] /\ ~IsQuery(r[i]) BY <1>1, <2>2
      <4> QED BY <2>2, <4>1, <4>2, Zenon
    <3> QED BY <3>1
  <2>4. Orderly(c, ps, s, << >>, d)
    <3>1. ASSUME NEW i \in 1 .. Len(s), IsQuery(s[i])
          PROVE  \A j \in 1 .. Len(s) : IsQuery(s[j]) => j = i
      BY <2>3, <3>1, Zenon
    <3> QED BY <1>1, <1>2, <1>4, <3>1 DEF Orderly
  <2>5. Truthful(l, t, s, << >>, d)
    <3>1. ASSUME NEW i \in 1 .. Len(s) PROVE s[i].type # "maplist"
      <4>1. s[i] = m \/ ~IsQuery(s[i]) BY <2>3
      <4> QED BY <4>1 DEF IsQuery
    <3>2. d.status # "OK" BY <1>2, <1>4
    <3> QED BY <3>1, <3>2 DEF Truthful
  <2> QED BY <1>1, <2>4, <2>5 DEF d
<1> QED BY <1>3, <1>4

(* CL_MaplistIndex touches neither the maps nor the status. *)
LEMMA IndexHonest ==
  ASSUME NEW c, NEW ps, NEW r \in Seq(Requests), NEW a \in Seq(Messages),
         a # << >>, NEW k \in Caches, NEW l, NEW t, NEW n,
         Orderly(c, ps, r, a, k), Truthful(l, t, r, a, k)
  PROVE  Head(a).type = "index" =>
           /\ Orderly(c, ps, r, Tail(a), IndexHandler(k, n))
           /\ Truthful(l, t, r, Tail(a), IndexHandler(k, n))
<1> DEFINE d == IndexHandler(k, n)
<1>1. /\ c \in ps /\ k.question # "nothing" /\ k.status \in {"WAIT", "OUTDATED"}
      /\ \A i \in 1 .. Len(r) : ~IsQuery(r[i])
  BY FirstAnswer
<1>2. d.question = k.question /\ d.status = k.status /\ d.maplist = k.maplist
  BY DEF IndexHandler, Caches
<1>3. /\ Len(Tail(a)) = Len(a) - 1 /\ Len(a) \in Nat
      /\ \A i \in 1 .. Len(Tail(a)) : i + 1 \in 1 .. Len(a) /\ Tail(a)[i] = a[i + 1]
  BY Tails
<1> HIDE DEF d
<1>4. Orderly(c, ps, r, Tail(a), d)
  <2>1. ASSUME NEW i \in 1 .. Len(Tail(a)), i < Len(Tail(a))
        PROVE  Tail(a)[i].type = "index"
    <3>1. i + 1 < Len(a) BY <1>3, <2>1
    <3> QED BY <1>3, <3>1 DEF Orderly
  <2>2. \A i \in 1 .. Len(r) : r[i].type # "update" BY <1>1 DEF IsQuery
  <2> QED BY <1>1, <1>2, <2>1, <2>2 DEF Orderly
<1>5. Truthful(l, t, r, Tail(a), d)
  BY <1>2, <1>3 DEF Truthful
<1> QED BY <1>4, <1>5 DEF d

(* CL_MaplistUpdate: the cache becomes the list that was sent, or stays. *)
LEMMA TakenHonest ==
  ASSUME NEW c, NEW ps, NEW r \in Seq(Requests), NEW a \in Seq(Messages),
         a # << >>, NEW k \in Caches, NEW l, NEW t,
         Orderly(c, ps, r, a, k), Truthful(l, t, r, a, k)
  PROVE  Head(a).type = "update" =>
           LET d == UpdateHandler(k, Head(a).status, Head(a).list) IN
             Orderly(c, ps, r, Tail(a), d) /\ Truthful(l, t, r, Tail(a), d)
<1> DEFINE d == UpdateHandler(k, Head(a).status, Head(a).list)
<1> SUFFICES ASSUME Head(a).type = "update"
             PROVE  Orderly(c, ps, r, Tail(a), d) /\ Truthful(l, t, r, Tail(a), d)
  OBVIOUS
<1>1. /\ c \in ps /\ k.question # "nothing" /\ Tail(a) = << >>
      /\ k.status \in {"WAIT", "OUTDATED"}
      /\ \A i \in 1 .. Len(r) : ~IsQuery(r[i])
      /\ Head(a).status # "EMPTY" => Fits(l, t, Head(a).list)
  BY FirstAnswer
<1>2. /\ d.question = k.question
      /\ d.status = "OK" => Head(a).status # "EMPTY" /\ d.maplist = Head(a).list
  BY <1>1 DEF UpdateHandler, Invalidate, Caches
<1> HIDE DEF d
<1>3. \A i \in 1 .. Len(r) : r[i].type \notin {"maplist", "update"}
  BY <1>1 DEF IsQuery
<1>4. Orderly(c, ps, r, << >>, d) BY <1>1, <1>3 DEF Orderly, IsQuery
<1>5. Truthful(l, t, r, << >>, d)
  <2>1. d.status = "OK" => Fits(l, t, d.maplist) BY <1>1, <1>2
  <2> QED BY <1>3, <2>1 DEF Truthful
<1> QED BY <1>1, <1>4, <1>5

(* MaplistCache::ev_tic, when the question is not given up; it may send a vote. *)
LEMMA TicHonest ==
  ASSUME NEW c, NEW ps, NEW r \in Seq(Requests), NEW a \in Seq(Messages),
         NEW k \in Caches, NEW l, NEW t, NEW s,
         Orderly(c, ps, r, a, k), Truthful(l, t, r, a, k),
         StatusAtTic(k, c \in ps) \notin {"WAIT", "OUTDATED", "TIMEOUT"},
         \/ s = r
         \/ \E m \in Requests : m.type = "callvote" /\ s = r \o <<m>>
  PROVE  /\ Orderly(c, ps, s, a, CacheTic(k, c \in ps))
         /\ Truthful(l, t, s, a, CacheTic(k, c \in ps))
<1> DEFINE d == CacheTic(k, c \in ps)
<1>1. a = << >> /\ \A i \in 1 .. Len(r) : ~IsQuery(r[i])
  <2>1. CASE c \in ps
    <3>1. k.status \notin {"WAIT", "OUTDATED"} BY <2>1 DEF StatusAtTic
    <3> QED BY <3>1 DEF Orderly
  <2>2. CASE c \notin ps
    BY <2>2 DEF Orderly
  <2> QED BY <2>1, <2>2
<1>2. d.status = "OK" => k.status = "OK" /\ d.maplist = k.maplist
  BY DEF CacheTic, StatusAtTic, Invalidate, Caches
<1> HIDE DEF d
<1>3. \A i \in 1 .. Len(s) : s[i].type \notin {"maplist", "update"}
  <2>1. CASE s = r
    BY <1>1, <2>1 DEF IsQuery
  <2>2. ASSUME NEW m \in Requests, m.type = "callvote", s = r \o <<m>>
        PROVE  \A i \in 1 .. Len(s) : s[i].type \notin {"maplist", "update"}
    <3>1. /\ Len(s) = Len(r) + 1 /\ Len(r) \in Nat /\ s[Len(r) + 1] = m
          /\ \A i \in 1 .. Len(r) : s[i] = r[i]
      BY <2>2, Sent
    <3>2. ASSUME NEW i \in 1 .. Len(s) PROVE s[i].type \notin {"maplist", "update"}
      <4>1. i = Len(r) + 1 \/ i \in 1 .. Len(r) BY <3>1
      <4>2. CASE i = Len(r) + 1 BY <2>2, <3>1, <4>2
      <4>3. CASE i \in 1 .. Len(r) BY <1>1, <3>1, <4>3 DEF IsQuery
      <4> QED BY <4>1, <4>2, <4>3
    <3> QED BY <3>2
  <2> QED BY <2>1, <2>2
<1>4. Orderly(c, ps, s, << >>, d) BY <1>3 DEF Orderly, IsQuery
<1>5. Truthful(l, t, s, << >>, d)
  <2>1. d.status = "OK" => Fits(l, t, d.maplist) BY <1>2 DEF Truthful
  <2> QED BY <1>3, <2>1 DEF Truthful
<1> QED BY <1>1, <1>4, <1>5 DEF d

(* What the server answers is made of messages. *)
LEMMA AnswersAreMessages ==
  ASSUME NEW l \in Lists, NEW t, NEW s
  PROVE  /\ Maplist(l, t, s) \in Seq(Messages)
         /\ MaplistUpdate(l, t) \in Seq(Messages)
<1>1. l.maplist \in Seq(Maps) /\ l.in_maplist \in {0, 1}
  BY ListFields
<1>2. IndexMessage(l) \in Messages
  <2>1. (IF Size(l) = 0 THEN 0 ELSE 1 + l.in_maplist) \in 0 .. 2 BY <1>1
  <2> QED BY <2>1 DEF IndexMessage, Messages
<1>3. ASSUME NEW x \in Statuses
      PROVE  StatusMessage(l, x) \in Messages /\ UpdateMessage(l, x) \in Messages
  BY <1>1, <1>3 DEF StatusMessage, UpdateMessage, Messages
<1>4. "EMPTY" \in Statuses /\ "OUTDATED" \in Statuses /\ "OK" \in Statuses
  BY DEF Statuses
<1>5. /\ StatusMessage(l, "EMPTY") \in Messages
      /\ StatusMessage(l, "OUTDATED") \in Messages
      /\ StatusMessage(l, "OK") \in Messages
      /\ UpdateMessage(l, "EMPTY") \in Messages
      /\ UpdateMessage(l, "OUTDATED") \in Messages
  BY <1>3, <1>4
<1>6. Maplist(l, t, s) \in Seq(Messages)
  BY <1>2, <1>5 DEF Maplist
<1>7. MaplistUpdate(l, t) \in Seq(Messages)
  <2> DEFINE u == IF Size(l) = 0 THEN <<UpdateMessage(l, "EMPTY")>>
                  ELSE IF UpdateIsSent(l, t) THEN <<UpdateMessage(l, "OUTDATED")>>
                  ELSE << >>
  <2>1. u \in Seq(Messages) /\ <<IndexMessage(l)>> \in Seq(Messages)
    BY <1>2, <1>5
  <2>2. MaplistUpdate(l, t) = <<IndexMessage(l)>> \o u BY DEF MaplistUpdate
  <2> HIDE DEF u
  <2> QED BY <2>1, <2>2, ConcatProperties
<1> QED BY <1>6, <1>7

(* The handlers of the client leave it a cache. *)
LEMMA CachesStay ==
  ASSUME NEW k \in Caches
  PROVE  /\ \A q \in Questions : DeferQuery(k, q) \in Caches
         /\ \A s \in Statuses : StatusHandler(k, s) \in Caches
         /\ \A n \in 0 .. 2 : IndexHandler(k, n) \in Caches
         /\ \A s, l : l \in Seq(Maps) => UpdateHandler(k, s, l) \in Caches
         /\ \A b : CacheTic(k, b) \in Caches
         /\ [k EXCEPT !.timeout = "over"] \in Caches
<1>0. /\ k.status \in Statuses /\ k.maplist \in Seq(Maps) /\ k.question \in Questions
      /\ k.valid_indexes \in 0 .. 2 /\ k.timeout \in {"running", "over"}
      /\ "WAIT" \in Statuses /\ "EMPTY" \in Statuses /\ "OK" \in Statuses
      /\ "TIMEOUT" \in Statuses /\ "nothing" \in Questions
      /\ << >> \in Seq(Maps)
  BY DEF Caches, Statuses, Questions
<1>1. ASSUME NEW q \in Questions PROVE DeferQuery(k, q) \in Caches
  BY <1>0 DEF DeferQuery, Caches
<1>2. Invalidate(k) \in Caches
  <2>1. ASSUME NEW e \in Seq(Maps)
        PROVE  [k EXCEPT !.maplist = e, !.valid_indexes = 0] \in Caches
    <3>1. 0 \in 0 .. 2 OBVIOUS
    <3> QED BY <3>1, Zenon DEF Caches
  <2> QED BY <1>0, <2>1, Zenon DEF Invalidate
<1>3. ASSUME NEW s \in Statuses PROVE StatusHandler(k, s) \in Caches
  <2>1. [Invalidate(k) EXCEPT !.status = s] \in Caches BY <1>2 DEF Caches
  <2>2. [k EXCEPT !.status = s] \in Caches BY DEF Caches
  <2> QED BY <2>1, <2>2 DEF StatusHandler
<1>4. ASSUME NEW n \in 0 .. 2 PROVE IndexHandler(k, n) \in Caches
  BY <1>0 DEF IndexHandler, Caches
<1>5. ASSUME NEW s, NEW l \in Seq(Maps) PROVE UpdateHandler(k, s, l) \in Caches
  <2>1. [Invalidate(k) EXCEPT !.status = "EMPTY"] \in Caches
    BY <1>0, <1>2 DEF Caches
  <2>2. [k EXCEPT !.maplist = l, !.status = IF k.valid_indexes > 0 THEN "OK" ELSE @]
          \in Caches
    BY <1>0 DEF Caches
  <2> QED BY <2>1, <2>2 DEF UpdateHandler, Caches
<1>6. ASSUME NEW b PROVE CacheTic(k, b) \in Caches
  <2> DEFINE s == StatusAtTic(k, b)
             m == IF b THEN k ELSE Invalidate(k)
  <2>1. s \in Statuses BY <1>0 DEF StatusAtTic
  <2>2. m \in Caches BY <1>2
  <2>3. CacheTic(k, b) = [m EXCEPT !.status = s,
            !.question = IF s \in {"WAIT", "OUTDATED"} THEN @ ELSE "nothing"]
    BY DEF CacheTic
  <2> HIDE DEF s, m
  <2> QED BY <1>0, <2>1, <2>2, <2>3 DEF Caches
<1>7. [k EXCEPT !.timeout = "over"] \in Caches
  BY <1>0 DEF Caches
<1> QED BY <1>1, <1>3, <1>4, <1>5, <1>6, <1>7

(* One client's channels and cache are replaced. *)
LEMMA OneChannel ==
  ASSUME NEW S, NEW f \in [Askers -> S], NEW c \in Askers, NEW v \in S
  PROVE  /\ [f EXCEPT ![c] = v] \in [Askers -> S]
         /\ [f EXCEPT ![c] = v][c] = v
         /\ \A d \in Askers : d # c => [f EXCEPT ![c] = v][d] = f[d]
  OBVIOUS

(* What a client's own step is to it: its channels and its cache, honest     *)
(* before, are honest after; those of the others stay.                       *)
Turn(c, r, a, k, t) ==
    /\ requests' = [requests EXCEPT ![c] = r] /\ answers' = [answers EXCEPT ![c] = a]
    /\ cache' = [cache EXCEPT ![c] = k] /\ timeouts' = [timeouts EXCEPT ![c] = t]
    /\ UNCHANGED <<listvars, players>> /\ late \subseteq late'
    /\ r \in Seq(Requests) /\ a \in Seq(Messages) /\ k \in Caches /\ t \in Timeouts
    /\ c \notin late' => /\ Orderly(c, players, r, a, k)
                         /\ Truthful(list, t, r, a, k)

LEMMA TurnHonest ==
  ASSUME ChannelsOK, AllHonest, NEW c \in Askers, NEW r, NEW a, NEW k, NEW t,
         Turn(c, r, a, k, t)
  PROVE  ChannelsOK' /\ AllHonest'
<1>1. /\ timeouts \in [Clients -> Timeouts] /\ cache \in [Askers -> Caches]
      /\ requests \in [Askers -> Seq(Requests)] /\ answers \in [Askers -> Seq(Messages)]
      /\ c \in Clients
  BY ClientsAssumption DEF ChannelsOK
<1>2. /\ requests' \in [Askers -> Seq(Requests)] /\ requests'[c] = r
      /\ \A d \in Askers : d # c => requests'[d] = requests[d]
  BY <1>1 DEF Turn
<1>3. /\ answers' \in [Askers -> Seq(Messages)] /\ answers'[c] = a
      /\ \A d \in Askers : d # c => answers'[d] = answers[d]
  BY <1>1 DEF Turn
<1>4. /\ cache' \in [Askers -> Caches] /\ cache'[c] = k
      /\ \A d \in Askers : d # c => cache'[d] = cache[d]
  BY <1>1 DEF Turn
<1>5. /\ timeouts' \in [Clients -> Timeouts] /\ timeouts'[c] = t
      /\ \A d \in Askers : d # c => timeouts'[d] = timeouts[d]
  BY <1>1, ClientsAssumption DEF Turn
<1>6. list' = list /\ players' = players
  BY DEF Turn, listvars
<1>7. ASSUME NEW d \in Askers \ late' PROVE Honest(d)'
  <2>1. CASE d = c
    <3>1. /\ Orderly(c, players, r, a, k) /\ Truthful(list, t, r, a, k)
      BY <1>7, <2>1 DEF Turn
    <3>2. /\ requests'[d] = r /\ answers'[d] = a /\ cache'[d] = k /\ timeouts'[d] = t
      BY <1>2, <1>3, <1>4, <1>5, <2>1
    <3>3. /\ Orderly(d, players', requests'[d], answers'[d], cache'[d])
          /\ Truthful(list', timeouts'[d], requests'[d], answers'[d], cache'[d])
      BY <1>6, <2>1, <3>1, <3>2
    <3> QED BY <3>3 DEF Honest
  <2>2. CASE d # c
    <3>1. Honest(d) BY <1>7 DEF AllHonest, Turn
    <3>2. /\ requests'[d] = requests[d] /\ answers'[d] = answers[d]
          /\ cache'[d] = cache[d] /\ timeouts'[d] = timeouts[d]
      BY <1>2, <1>3, <1>4, <1>5, <2>2
    <3>3. /\ Orderly(d, players', requests'[d], answers'[d], cache'[d])
          /\ Truthful(list', timeouts'[d], requests'[d], answers'[d], cache'[d])
      BY <1>6, <3>1, <3>2 DEF Honest
    <3> QED BY <3>3 DEF Honest
  <2> QED BY <2>1, <2>2
<1>8. ChannelsOK' BY <1>2, <1>3, <1>4, <1>5 DEF ChannelsOK
<1> QED BY <1>7, <1>8 DEF AllHonest

(* The steps of one client and of the server for it, turn by turn. *)
LEMMA AskTurn ==
  ASSUME CacheInv, NEW c \in Askers, NEW q \in Questions \ {"nothing"}, Ask(c, q)
  PROVE  ChannelsOK' /\ AllHonest'
<1> DEFINE m == [type |-> "maplist", status |-> cache[c].status]
           r == requests[c] \o <<m>>
           k == DeferQuery(cache[c], q)
<1>1. /\ cache[c] \in Caches /\ requests[c] \in Seq(Requests)
      /\ answers[c] \in Seq(Messages) /\ timeouts[c] \in Timeouts
      /\ ChannelsOK /\ AllHonest
  BY ClientsAssumption DEF CacheInv, ChannelsOK
<1>2. cache[c].status \in Statuses BY <1>1 DEF Caches
<1>3. m \in Requests BY <1>2 DEF Requests
<1>4. m.type = "maplist" /\ m.status = cache[c].status OBVIOUS
<1> HIDE DEF m
<1>5. r \in Seq(Requests) BY <1>1, <1>3, Sent
<1>6. k \in Caches BY <1>1, CachesStay
<1>7. c \notin late => /\ Orderly(c, players, r, answers[c], k)
                       /\ Truthful(list, timeouts[c], r, answers[c], k)
  <2> SUFFICES ASSUME c \notin late
               PROVE  /\ Orderly(c, players, r, answers[c], k)
                      /\ Truthful(list, timeouts[c], r, answers[c], k)
    OBVIOUS
  <2>1. /\ Orderly(c, players, requests[c], answers[c], cache[c])
        /\ Truthful(list, timeouts[c], requests[c], answers[c], cache[c])
    BY <1>1 DEF AllHonest, Honest
  <2>2. c \in players /\ cache[c].question = "nothing" /\ q # "nothing"
    BY DEF Ask
  <2> QED BY <1>1, <1>3, <1>4, <2>1, <2>2, AskHonest
<1>8. Turn(c, r, answers[c], k, timeouts[c])
  <2>1. /\ requests' = [requests EXCEPT ![c] = r] /\ cache' = [cache EXCEPT ![c] = k]
        /\ answers' = answers /\ timeouts' = timeouts /\ late' = late
        /\ UNCHANGED <<listvars, players>>
    BY DEF Ask, Send, m
  <2>2. /\ answers' = [answers EXCEPT ![c] = answers[c]]
        /\ timeouts' = [timeouts EXCEPT ![c] = timeouts[c]]
    BY <1>1, <2>1, ClientsAssumption DEF ChannelsOK
  <2> HIDE DEF r, k
  <2> QED BY <1>1, <1>5, <1>6, <1>7, <2>1, <2>2, Zenon DEF Turn
<1> HIDE DEF r, k
<1> QED BY <1>1, <1>8, TurnHonest

LEMMA LoseTurn ==
  ASSUME CacheInv, NEW c \in Askers, LoseRequest(c)
  PROVE  ChannelsOK' /\ AllHonest'
<1> DEFINE r == Tail(requests[c])
<1>1. /\ cache[c] \in Caches /\ requests[c] \in Seq(Requests)
      /\ answers[c] \in Seq(Messages) /\ timeouts[c] \in Timeouts
      /\ ChannelsOK /\ AllHonest /\ requests[c] # << >>
  BY ClientsAssumption DEF CacheInv, ChannelsOK, LoseRequest
<1>2. r \in Seq(Requests) BY <1>1, Tails
<1>3. c \notin late => /\ Orderly(c, players, r, answers[c], cache[c])
                       /\ Truthful(list, timeouts[c], r, answers[c], cache[c])
  BY <1>1, OneLess DEF AllHonest, Honest
<1>4. Turn(c, r, answers[c], cache[c], timeouts[c])
  <2>1. /\ requests' = [requests EXCEPT ![c] = r] /\ cache' = cache
        /\ answers' = answers /\ timeouts' = timeouts /\ late' = late
        /\ UNCHANGED <<listvars, players>>
    BY DEF LoseRequest
  <2>2. /\ answers' = [answers EXCEPT ![c] = answers[c]]
        /\ timeouts' = [timeouts EXCEPT ![c] = timeouts[c]]
        /\ cache' = [cache EXCEPT ![c] = cache[c]]
    BY <1>1, <2>1, ClientsAssumption DEF ChannelsOK
  <2> HIDE DEF r
  <2> QED BY <1>1, <1>2, <1>3, <2>1, <2>2, Zenon DEF Turn
<1> HIDE DEF r
<1> QED BY <1>1, <1>4, TurnHonest

LEMMA ServerTurn ==
  ASSUME CacheInv, NEW c \in Askers, ServerReads(c)
  PROVE  ChannelsOK' /\ AllHonest'
<1> DEFINE r == Tail(requests[c])
           m == Head(requests[c])
<1>1. /\ cache[c] \in Caches /\ requests[c] \in Seq(Requests)
      /\ answers[c] \in Seq(Messages) /\ timeouts[c] \in Timeouts
      /\ ChannelsOK /\ AllHonest /\ requests[c] # << >> /\ list \in Lists
  BY ClientsAssumption
     DEF CacheInv, ChannelsOK, ServerReads, LInv, ListOK, Sound
<1>2. r \in Seq(Requests) BY <1>1, Tails
<1>3. /\ requests' = [requests EXCEPT ![c] = r] /\ late' = late
      /\ UNCHANGED <<listvars, players>> /\ cache' = [cache EXCEPT ![c] = cache[c]]
  BY <1>1 DEF ServerReads, ChannelsOK
<1>4. c \notin late => /\ Orderly(c, players, requests[c], answers[c], cache[c])
                       /\ Truthful(list, timeouts[c], requests[c], answers[c], cache[c])
  BY <1>1 DEF AllHonest, Honest
<1>5. \/ /\ m.type = "maplist"
         /\ answers' = [answers EXCEPT ![c] = @ \o Maplist(list, timeouts[c], m.status)]
         /\ timeouts' = timeouts
      \/ /\ m.type = "update"
         /\ answers' = [answers EXCEPT ![c] = @ \o MaplistUpdate(list, timeouts[c])]
         /\ timeouts' = IF UpdateIsSent(list, timeouts[c])
                        THEN [timeouts EXCEPT ![c] = "running"] ELSE timeouts
      \/ m.type = "callvote" /\ answers' = answers /\ timeouts' = timeouts
  BY DEF ServerReads, Send
<1> HIDE DEF r, m
<1>6. ASSUME m.type = "maplist",
             answers' = [answers EXCEPT ![c] = @ \o Maplist(list, timeouts[c], m.status)],
             timeouts' = timeouts
      PROVE  ChannelsOK' /\ AllHonest'
  <2> DEFINE a == answers[c] \o Maplist(list, timeouts[c], m.status)
  <2>1. a \in Seq(Messages) BY <1>1, AnswersAreMessages, ConcatProperties
  <2>2. c \notin late => /\ Orderly(c, players, r, a, cache[c])
                         /\ Truthful(list, timeouts[c], r, a, cache[c])
    BY <1>1, <1>4, <1>6, MaplistHonest DEF r, m
  <2>3. /\ answers' = [answers EXCEPT ![c] = a]
        /\ timeouts' = [timeouts EXCEPT ![c] = timeouts[c]]
    BY <1>1, <1>6 DEF ChannelsOK
  <2> HIDE DEF a
  <2>4. Turn(c, r, a, cache[c], timeouts[c])
    BY <1>1, <1>2, <1>3, <2>1, <2>2, <2>3, Zenon DEF Turn
  <2> QED BY <1>1, <2>4, TurnHonest
<1>7. ASSUME m.type = "update",
             answers' = [answers EXCEPT ![c] = @ \o MaplistUpdate(list, timeouts[c])],
             timeouts' = IF UpdateIsSent(list, timeouts[c])
                         THEN [timeouts EXCEPT ![c] = "running"] ELSE timeouts
      PROVE  ChannelsOK' /\ AllHonest'
  <2> DEFINE a == answers[c] \o MaplistUpdate(list, timeouts[c])
             t == IF UpdateIsSent(list, timeouts[c]) THEN "running" ELSE timeouts[c]
  <2>1. a \in Seq(Messages) BY <1>1, AnswersAreMessages, ConcatProperties
  <2>2. c \notin late => /\ Orderly(c, players, r, a, cache[c])
                         /\ Truthful(list, t, r, a, cache[c])
    BY <1>1, <1>4, <1>7, UpdateHonest DEF r, m
  <2>3. t \in Timeouts BY <1>1 DEF Timeouts
  <2>4. /\ answers' = [answers EXCEPT ![c] = a]
        /\ timeouts' = [timeouts EXCEPT ![c] = t]
    BY <1>1, <1>7 DEF ChannelsOK
  <2> HIDE DEF a, t
  <2>5. Turn(c, r, a, cache[c], t)
    BY <1>1, <1>2, <1>3, <2>1, <2>2, <2>3, <2>4, Zenon DEF Turn
  <2> QED BY <1>1, <2>5, TurnHonest
<1>8. ASSUME answers' = answers, timeouts' = timeouts
      PROVE  ChannelsOK' /\ AllHonest'
  <2>1. c \notin late => /\ Orderly(c, players, r, answers[c], cache[c])
                         /\ Truthful(list, timeouts[c], r, answers[c], cache[c])
    BY <1>1, <1>4, OneLess DEF r
  <2>2. /\ answers' = [answers EXCEPT ![c] = answers[c]]
        /\ timeouts' = [timeouts EXCEPT ![c] = timeouts[c]]
    BY <1>1, <1>8 DEF ChannelsOK
  <2>3. Turn(c, r, answers[c], cache[c], timeouts[c])
    BY <1>1, <1>2, <1>3, <2>1, <2>2, Zenon DEF Turn
  <2> QED BY <1>1, <2>3, TurnHonest
<1> QED BY <1>5, <1>6, <1>7, <1>8

LEMMA ClientTurn ==
  ASSUME CacheInv, NEW c \in Askers, ClientReads(c)
  PROVE  ChannelsOK' /\ AllHonest'
<1> DEFINE a == Tail(answers[c])
           m == Head(answers[c])
           u == [type |-> "update"]
<1>1. /\ cache[c] \in Caches /\ requests[c] \in Seq(Requests)
      /\ answers[c] \in Seq(Messages) /\ timeouts[c] \in Timeouts
      /\ ChannelsOK /\ AllHonest /\ answers[c] # << >>
  BY ClientsAssumption DEF CacheInv, ChannelsOK, ClientReads
<1>2. a \in Seq(Messages) /\ m \in Messages BY <1>1, Tails
<1>3. /\ answers' = [answers EXCEPT ![c] = a] /\ late' = late
      /\ UNCHANGED <<listvars, players>>
      /\ timeouts' = [timeouts EXCEPT ![c] = timeouts[c]]
  BY <1>1, ClientsAssumption DEF ClientReads, ChannelsOK
<1>4. c \notin late => /\ Orderly(c, players, requests[c], answers[c], cache[c])
                       /\ Truthful(list, timeouts[c], requests[c], answers[c], cache[c])
  BY <1>1 DEF AllHonest, Honest
<1>5. \/ /\ m.type = "status"
         /\ cache' = [cache EXCEPT ![c] = StatusHandler(@, m.status)]
         /\ requests' = IF m.status = "OUTDATED"
                        THEN [requests EXCEPT ![c] = @ \o <<u>>] ELSE requests
      \/ /\ m.type = "index"
         /\ cache' = [cache EXCEPT ![c] = IndexHandler(@, m.count)]
         /\ requests' = requests
      \/ /\ m.type = "update"
         /\ cache' = [cache EXCEPT ![c] = UpdateHandler(@, m.status, m.list)]
         /\ requests' = requests
  BY DEF ClientReads, Send
<1>6. u \in Requests /\ u.type = "update" BY DEF Requests
<1>7. /\ m.type \in {"status", "update"} => m.status \in Statuses /\ m.list \in Seq(Maps)
      /\ m.type = "index" => m.count \in 0 .. 2
  BY <1>2 DEF Messages
<1> HIDE DEF a, m, u
<1>8. ASSUME m.type = "status",
             cache' = [cache EXCEPT ![c] = StatusHandler(@, m.status)],
             requests' = IF m.status = "OUTDATED"
                         THEN [requests EXCEPT ![c] = @ \o <<u>>] ELSE requests
      PROVE  ChannelsOK' /\ AllHonest'
  <2> DEFINE k == StatusHandler(cache[c], m.status)
             r == IF m.status = "OUTDATED" THEN requests[c] \o <<u>> ELSE requests[c]
  <2>1. k \in Caches BY <1>1, <1>7, <1>8, CachesStay
  <2>2. r \in Seq(Requests) BY <1>1, <1>6, Sent
  <2>3. c \notin late => /\ Orderly(c, players, r, a, k)
                         /\ Truthful(list, timeouts[c], r, a, k)
    BY <1>1, <1>4, <1>6, <1>8, StatusHonest DEF a, m
  <2>4. /\ requests' = [requests EXCEPT ![c] = r] /\ cache' = [cache EXCEPT ![c] = k]
    BY <1>1, <1>8 DEF ChannelsOK
  <2> HIDE DEF r, k
  <2>5. Turn(c, r, a, k, timeouts[c])
    BY <1>1, <1>2, <1>3, <2>1, <2>2, <2>3, <2>4, Zenon DEF Turn
  <2> QED BY <1>1, <2>5, TurnHonest
<1>9. ASSUME NEW k \in Caches, cache' = [cache EXCEPT ![c] = k], requests' = requests,
             c \notin late => /\ Orderly(c, players, requests[c], a, k)
                              /\ Truthful(list, timeouts[c], requests[c], a, k)
      PROVE  ChannelsOK' /\ AllHonest'
  <2>1. requests' = [requests EXCEPT ![c] = requests[c]]
    BY <1>1, <1>9 DEF ChannelsOK
  <2>2. Turn(c, requests[c], a, k, timeouts[c])
    BY <1>1, <1>2, <1>3, <1>9, <2>1, Zenon DEF Turn
  <2> QED BY <1>1, <2>2, TurnHonest
<1>10. ASSUME m.type = "index",
              cache' = [cache EXCEPT ![c] = IndexHandler(@, m.count)],
              requests' = requests
       PROVE  ChannelsOK' /\ AllHonest'
  <2> DEFINE k == IndexHandler(cache[c], m.count)
  <2>1. k \in Caches BY <1>1, <1>7, <1>10, CachesStay
  <2>2. c \notin late => /\ Orderly(c, players, requests[c], a, k)
                         /\ Truthful(list, timeouts[c], requests[c], a, k)
    BY <1>1, <1>4, <1>10, IndexHonest DEF a, m
  <2>3. cache' = [cache EXCEPT ![c] = k] BY <1>10
  <2> HIDE DEF k
  <2> QED BY <1>9, <1>10, <2>1, <2>2, <2>3
<1>11. ASSUME m.type = "update",
              cache' = [cache EXCEPT ![c] = UpdateHandler(@, m.status, m.list)],
              requests' = requests
       PROVE  ChannelsOK' /\ AllHonest'
  <2> DEFINE k == UpdateHandler(cache[c], m.status, m.list)
  <2>1. k \in Caches BY <1>1, <1>7, <1>11, CachesStay
  <2>2. c \notin late => /\ Orderly(c, players, requests[c], a, k)
                         /\ Truthful(list, timeouts[c], requests[c], a, k)
    BY <1>1, <1>4, <1>11, TakenHonest DEF a, m
  <2>3. cache' = [cache EXCEPT ![c] = k] BY <1>11
  <2> HIDE DEF k
  <2> QED BY <1>9, <1>11, <2>1, <2>2, <2>3
<1> QED BY <1>5, <1>8, <1>10, <1>11

LEMMA TicTurn ==
  ASSUME CacheInv, NEW c \in Askers, ClientTic(c)
  PROVE  ChannelsOK' /\ AllHonest'
<1> DEFINE k == CacheTic(cache[c], c \in players)
           status == StatusAtTic(cache[c], c \in players)
           found == Matches(c, cache[c].question)
           m == [type |-> "callvote", index |-> (CHOOSE i \in found : TRUE) - 1]
           r == requests[c] \o
                  IF status = "OK" /\ found # {} THEN <<m>> ELSE << >>
<1>1. /\ cache[c] \in Caches /\ requests[c] \in Seq(Requests)
      /\ answers[c] \in Seq(Messages) /\ timeouts[c] \in Timeouts
      /\ ChannelsOK /\ AllHonest
  BY ClientsAssumption DEF CacheInv, ChannelsOK
<1>2. /\ requests' = [requests EXCEPT ![c] = r] /\ cache' = [cache EXCEPT ![c] = k]
      /\ late' = IF status = "TIMEOUT" THEN late \cup {c} ELSE late
      /\ UNCHANGED <<listvars, players>>
      /\ answers' = [answers EXCEPT ![c] = answers[c]]
      /\ timeouts' = [timeouts EXCEPT ![c] = timeouts[c]]
      /\ status \notin {"WAIT", "OUTDATED"}
  <2>1. /\ requests' = [requests EXCEPT ![c] = r] /\ cache' = [cache EXCEPT ![c] = k]
        /\ late' = IF status = "TIMEOUT" THEN late \cup {c} ELSE late
        /\ UNCHANGED <<listvars, players>> /\ status \notin {"WAIT", "OUTDATED"}
        /\ answers' = answers /\ timeouts' = timeouts
    BY Zenon DEF ClientTic
  <2> QED BY <1>1, <2>1, ClientsAssumption DEF ChannelsOK
<1>3. found # {} => m \in Requests /\ m.type = "callvote"
  <2>1. found \subseteq 1 .. Len(cache[c].maplist)
    BY DEF Matches
  <2>2. found # {} => (CHOOSE i \in found : TRUE) \in found OBVIOUS
  <2> HIDE DEF found
  <2>3. Len(cache[c].maplist) \in Nat BY <1>1 DEF Caches
  <2>4. ASSUME NEW x \in found PROVE x - 1 \in Nat BY <2>1, <2>3
  <2>5. found # {} => (CHOOSE i \in found : TRUE) - 1 \in Nat BY <2>2, <2>4
  <2> QED BY <2>5 DEF Requests
<1> HIDE DEF found, m, status
<1>4. r = requests[c] \/ (found # {} /\ r = requests[c] \o <<m>>)
  BY <1>1, ConcatEmptySeq
<1>5. r \in Seq(Requests) BY <1>1, <1>3, <1>4, Sent
<1>6. k \in Caches BY <1>1, CachesStay
<1> HIDE DEF r
<1>7. c \notin late' => /\ Orderly(c, players, r, answers[c], k)
                        /\ Truthful(list, timeouts[c], r, answers[c], k)
  <2> SUFFICES ASSUME c \notin late'
               PROVE  /\ Orderly(c, players, r, answers[c], k)
                      /\ Truthful(list, timeouts[c], r, answers[c], k)
    OBVIOUS
  <2>1. c \notin late /\ status # "TIMEOUT" BY <1>2
  <2>2. /\ Orderly(c, players, requests[c], answers[c], cache[c])
        /\ Truthful(list, timeouts[c], requests[c], answers[c], cache[c])
    BY <1>1, <2>1 DEF AllHonest, Honest
  <2>3. StatusAtTic(cache[c], c \in players) \notin {"WAIT", "OUTDATED", "TIMEOUT"}
    BY <1>2, <2>1 DEF status
  <2>4. \/ r = requests[c]
        \/ \E x \in Requests : x.type = "callvote" /\ r = requests[c] \o <<x>>
    BY <1>3, <1>4
  <2> QED BY <1>1, <2>2, <2>3, <2>4, TicHonest
<1> HIDE DEF k
<1>8. late \subseteq late' BY <1>2
<1>9. Turn(c, r, answers[c], k, timeouts[c])
  BY <1>1, <1>2, <1>5, <1>6, <1>7, <1>8, Zenon DEF Turn
<1> QED BY <1>1, <1>9, TurnHonest

LEMMA ClockTurn ==
  ASSUME CacheInv, NEW c \in Askers, TimeRunsOut(c)
  PROVE  ChannelsOK' /\ AllHonest'
<1> DEFINE k == [cache[c] EXCEPT !.timeout = "over"]
<1>1. /\ cache[c] \in Caches /\ requests[c] \in Seq(Requests)
      /\ answers[c] \in Seq(Messages) /\ timeouts[c] \in Timeouts
      /\ ChannelsOK /\ AllHonest
  BY ClientsAssumption DEF CacheInv, ChannelsOK
<1>2. k \in Caches BY <1>1, CachesStay
<1>3. k.question = cache[c].question /\ k.status = cache[c].status
      /\ k.maplist = cache[c].maplist
  BY <1>1 DEF Caches
<1>4. /\ requests' = requests /\ answers' = answers /\ timeouts' = timeouts
      /\ cache' = [cache EXCEPT ![c] = k] /\ late' = late
      /\ UNCHANGED <<listvars, players>>
  BY DEF TimeRunsOut
<1> HIDE DEF k
<1>5. c \notin late => /\ Orderly(c, players, requests[c], answers[c], k)
                       /\ Truthful(list, timeouts[c], requests[c], answers[c], k)
  <2>1. c \notin late =>
          /\ Orderly(c, players, requests[c], answers[c], cache[c])
          /\ Truthful(list, timeouts[c], requests[c], answers[c], cache[c])
    BY <1>1 DEF AllHonest, Honest
  <2> QED BY <1>3, <2>1 DEF Orderly, Truthful
<1>6. /\ requests' = [requests EXCEPT ![c] = requests[c]]
      /\ answers' = [answers EXCEPT ![c] = answers[c]]
      /\ timeouts' = [timeouts EXCEPT ![c] = timeouts[c]]
  BY <1>1, <1>4, ClientsAssumption DEF ChannelsOK
<1>7. Turn(c, requests[c], answers[c], k, timeouts[c])
  BY <1>1, <1>2, <1>4, <1>5, <1>6, Zenon DEF Turn
<1> QED BY <1>1, <1>7, TurnHonest

(* A step that leaves channels and caches alone, forgets whom it has sent the *)
(* list or leaves them the maps, and takes nobody out.                        *)
LEMMA OthersHonest ==
  ASSUME ChannelsOK, AllHonest, UNCHANGED cachevars, players \subseteq players',
         timeouts' \in [Clients -> Timeouts],
         \A c \in Askers : \A maps :
            Fits(list, timeouts[c], maps) => Fits(list', timeouts'[c], maps)
  PROVE  ChannelsOK' /\ AllHonest'
<1>1. requests' = requests /\ answers' = answers /\ cache' = cache /\ late' = late
  BY DEF cachevars
<1>2. ASSUME NEW c \in Askers \ late' PROVE Honest(c)'
  <2>1. /\ Orderly(c, players, requests[c], answers[c], cache[c])
        /\ Truthful(list, timeouts[c], requests[c], answers[c], cache[c])
    BY <1>1, <1>2 DEF AllHonest, Honest
  <2>2. Orderly(c, players', requests[c], answers[c], cache[c])
    BY <2>1 DEF Orderly
  <2>3. \A maps : Fits(list, timeouts[c], maps) => Fits(list', timeouts'[c], maps)
    OBVIOUS
  <2>4. Truthful(list', timeouts'[c], requests[c], answers[c], cache[c])
    BY <2>1, <2>3 DEF Truthful
  <2>5. /\ Orderly(c, players', requests'[c], answers'[c], cache'[c])
        /\ Truthful(list', timeouts'[c], requests'[c], answers'[c], cache'[c])
    BY <1>1, <2>2, <2>4
  <2> QED BY <2>5 DEF Honest
<1> QED BY <1>1, <1>2 DEF ChannelsOK, AllHonest

(* The administrator's edits forget the clients, unless no map is left. *)
LEMMA EditsHonest ==
  ASSUME CacheInv,
         \/ \E position \in 0 .. MaxMaps, map \in Maps : InsertMap(position, map)
         \/ \E i \in 0 .. MaxMaps - 1 : RemoveMap(i)
         \/ ClearMaplist \/ ShuffleMaplist \/ GotoMap
  PROVE  ChannelsOK' /\ AllHonest'
<1>0. /\ ChannelsOK /\ AllHonest /\ ListOK /\ list \in Lists /\ Sound(list)
      /\ MaxMaps \in Nat /\ timeouts \in [Clients -> Timeouts]
  BY BoundsAssumption DEF CacheInv, LInv, ListOK, Sound, ChannelsOK
<1>1. UNCHANGED cachevars /\ players' = players
  BY Zenon DEF InsertMap, RemoveMap, ClearMaplist, ShuffleMaplist, GotoMap, Edited
<1>2. ASSUME NoTimeouts PROVE ChannelsOK' /\ AllHonest'
  <2>1. timeouts' \in [Clients -> Timeouts] BY <1>2 DEF NoTimeouts, Timeouts
  <2>2. \A c \in Askers : timeouts'[c] = "none"
    BY <1>2, ClientsAssumption DEF NoTimeouts
  <2>3. \A c \in Askers : \A maps :
          Fits(list, timeouts[c], maps) => Fits(list', timeouts'[c], maps)
    BY <2>2 DEF Fits
  <2> QED BY <1>0, <1>1, <2>1, <2>3, OthersHonest
<1>3. ASSUME UNCHANGED timeouts, Size(list') = 0 \/ list'.maplist = list.maplist
      PROVE  ChannelsOK' /\ AllHonest'
  <2>1. \A c \in Askers : \A maps :
          Fits(list, timeouts[c], maps) => Fits(list', timeouts'[c], maps)
    BY <1>3 DEF Fits, Size
  <2> QED BY <1>0, <1>1, <1>3, <2>1, OthersHonest
<1>4. ASSUME NEW position \in 0 .. MaxMaps, NEW map \in Maps,
             InsertMap(position, map)
      PROVE  NoTimeouts
  BY <1>4 DEF InsertMap
<1>5. ASSUME NEW i \in 0 .. MaxMaps - 1, RemoveMap(i)
      PROVE  NoTimeouts \/ (UNCHANGED timeouts /\ Size(list') = 0)
  <2>1. CASE Size(list) = 1
    <3>1. list' = [list EXCEPT !.maplist = << >>, !.in_maplist = 0, !.index = 0]
      BY <1>5, <2>1 DEF RemoveMap, Edited, Remove
    <3>2. << >> \in Seq(Maps) OBVIOUS
    <3>3. list'.maplist = << >> BY <1>0, <3>1, <3>2, EmptyMaplist, Zenon
    <3> QED BY <1>5, <2>1, <3>3 DEF RemoveMap, Size
  <2>2. CASE Size(list) # 1
    BY <1>5, <2>2 DEF RemoveMap
  <2> QED BY <2>1, <2>2
<1>6. CASE ClearMaplist
  <2> DEFINE k == [list EXCEPT !.maplist = << >>, !.in_maplist = 0, !.index = 0]
  <2>1. list' = NewVersion(k) /\ UNCHANGED timeouts
    BY <1>6 DEF ClearMaplist, Edited, Clear
  <2>2. k \in Lists /\ k.maplist = << >>
    <3>1. << >> \in Seq(Maps) OBVIOUS
    <3> QED BY <1>0, <3>1, EmptyMaplist, Zenon
  <2> HIDE DEF k
  <2>3. list'.maplist = << >> BY <2>1, <2>2, NewVersionKeeps DEF SameMaps
  <2>4. Size(list') = 0 BY <2>3 DEF Size
  <2> QED BY <1>3, <2>1, <2>4
<1>7. CASE ShuffleMaplist
  <2>1. UNCHANGED timeouts /\ list' \in SetShuffle(list, 1 - list.shuffled)
    BY <1>7 DEF ShuffleMaplist, Edited
  <2>2. PICK s : /\ s = list \/ s \in Shuffle(list)
                 /\ list' = [s EXCEPT !.shuffled = 1 - list.shuffled]
    BY <2>1 DEF SetShuffle
  <2>3. s \in Lists /\ s.maplist = list.maplist
    BY <1>0, <2>2, ShuffleKeeps DEF SameMaps
  <2>4. list'.maplist = list.maplist BY <2>2, <2>3 DEF Lists
  <2> QED BY <1>3, <2>1, <2>4
<1>8. CASE GotoMap
  <2>1. UNCHANGED timeouts BY <1>8 DEF GotoMap
  <2>2. ChangeMap \/ \E i \in Nat : ChangeTo(i) BY <1>0, <1>8 DEF GotoMap
  <2>3. list'.maplist = list.maplist BY <1>0, <2>2, ChangesKeepMaps
  <2> QED BY <1>3, <2>1, <2>3
<1> QED BY <1>2, <1>3, <1>4, <1>5, <1>6, <1>7, <1>8

LEMMA FrameHonest ==
  ASSUME CacheInv, NEW exit \in BOOLEAN, Frame(exit)
  PROVE  ChannelsOK' /\ AllHonest'
<1>1. /\ UNCHANGED cachevars /\ players' = players /\ timeouts' = timeouts
      /\ VoteRuntic
  BY DEF Frame
<1>2. ChannelsOK /\ AllHonest /\ ListOK /\ MaxMaps \in Nat
      /\ timeouts \in [Clients -> Timeouts]
  BY BoundsAssumption DEF CacheInv, LInv, ChannelsOK
<1>3. ChangeMap \/ (\E i \in Nat : ChangeTo(i)) \/ UNCHANGED listvars
  <2>1. CASE VotePasses
    <3>1. Exec(vote) /\ vote.arg \in Nat
      BY <1>1, <2>1 DEF VoteRuntic, VotePasses, CacheInv, LInv, VoteOK
    <3> QED BY <1>2, <3>1 DEF Exec
  <2>2. CASE ~VotePasses
    BY <1>1, <2>2 DEF VoteRuntic, listvars
  <2> QED BY <2>1, <2>2
<1>4. list'.maplist = list.maplist BY <1>2, <1>3, ChangesKeepMaps
<1>5. \A c \in Askers : \A maps :
        Fits(list, timeouts[c], maps) => Fits(list', timeouts'[c], maps)
  BY <1>1, <1>4 DEF Fits, Size
<1> QED BY <1>1, <1>2, <1>5, OthersHonest

LEMMA QuitHonest ==
  ASSUME CacheInv, NEW c \in Clients, Quit(c)
  PROVE  ChannelsOK' /\ AllHonest'
<1>1. /\ players' = players \ {c} /\ timeouts' = [timeouts EXCEPT ![c] = "none"]
      /\ requests' = Unread(requests, c) /\ answers' = Unread(answers, c)
      /\ late' = late \ {c} /\ list' = list /\ cache' = cache
  BY DEF Quit, listvars
<1>2. ChannelsOK /\ AllHonest
  BY DEF CacheInv
<1>3. /\ timeouts' \in [Clients -> Timeouts] /\ timeouts'[c] = "none"
      /\ \A d \in Askers : d # c => timeouts'[d] = timeouts[d]
  BY <1>1, <1>2, ClientsAssumption DEF ChannelsOK, Timeouts
<1>4. ASSUME NEW S, NEW f \in [Askers -> Seq(S)]
      PROVE  /\ Unread(f, c) \in [Askers -> Seq(S)]
             /\ c \in Askers => Unread(f, c)[c] = << >>
             /\ \A d \in Askers : d # c => Unread(f, c)[d] = f[d]
  <2>1. << >> \in Seq(S) OBVIOUS
  <2> QED BY <2>1 DEF Unread
<1>5. /\ requests' \in [Askers -> Seq(Requests)]
      /\ c \in Askers => requests'[c] = << >>
      /\ \A d \in Askers : d # c => requests'[d] = requests[d]
  BY <1>1, <1>2, <1>4 DEF ChannelsOK
<1>6. /\ answers' \in [Askers -> Seq(Messages)]
      /\ c \in Askers => answers'[c] = << >>
      /\ \A d \in Askers : d # c => answers'[d] = answers[d]
  BY <1>1, <1>2, <1>4 DEF ChannelsOK
<1>7. ASSUME NEW d \in Askers \ late' PROVE Honest(d)'
  <2>1. CASE d = c
    <3>1. /\ Orderly(d, players', << >>, << >>, cache'[d])
          /\ Truthful(list', "none", << >>, << >>, cache'[d])
      BY DEF Orderly, Truthful, Fits
    <3>2. requests'[d] = << >> /\ answers'[d] = << >> /\ timeouts'[d] = "none"
      BY <1>3, <1>5, <1>6, <2>1
    <3>3. /\ Orderly(d, players', requests'[d], answers'[d], cache'[d])
          /\ Truthful(list', timeouts'[d], requests'[d], answers'[d], cache'[d])
      BY <3>1, <3>2
    <3> QED BY <3>3 DEF Honest
  <2>2. CASE d # c
    <3>1. /\ Orderly(d, players, requests[d], answers[d], cache[d])
          /\ Truthful(list, timeouts[d], requests[d], answers[d], cache[d])
      BY <1>1, <1>2, <1>7, <2>2 DEF AllHonest, Honest
    <3>2. Orderly(d, players', requests[d], answers[d], cache[d])
      BY <1>1, <2>2, <3>1 DEF Orderly
    <3>3. /\ Orderly(d, players', requests'[d], answers'[d], cache'[d])
          /\ Truthful(list', timeouts'[d], requests'[d], answers'[d], cache'[d])
      BY <1>1, <1>3, <1>5, <1>6, <2>2, <3>1, <3>2
    <3> QED BY <3>3 DEF Honest
  <2> QED BY <2>1, <2>2
<1> QED BY <1>1, <1>2, <1>3, <1>5, <1>6, <1>7 DEF ChannelsOK, AllHonest

LEMMA NextHonest == CacheInv /\ [Next]_vars => CacheInv'
<1> SUFFICES ASSUME CacheInv, [Next]_vars PROVE CacheInv'
  OBVIOUS
<1>1. LInv' BY NextSound DEF CacheInv
<1> SUFFICES ChannelsOK' /\ AllHonest'
  BY <1>1 DEF CacheInv
<1>2. /\ ChannelsOK /\ AllHonest /\ timeouts \in [Clients -> Timeouts]
  BY DEF CacheInv, ChannelsOK
<1>3. ASSUME UNCHANGED cachevars, list' = list, timeouts' = timeouts,
             players \subseteq players'
      PROVE  ChannelsOK' /\ AllHonest'
  <2>1. \A c \in Askers : \A maps :
          Fits(list, timeouts[c], maps) => Fits(list', timeouts'[c], maps)
    BY <1>3
  <2> QED BY <1>2, <1>3, <2>1, OthersHonest
<1>4. ASSUME NEW c \in Clients, Connect(c) PROVE ChannelsOK' /\ AllHonest'
  BY <1>3, <1>4 DEF Connect, listvars
<1>5. ASSUME NEW c \in Clients, Quit(c) PROVE ChannelsOK' /\ AllHonest'
  BY <1>5, QuitHonest
<1>6. ASSUME NEW c \in Clients, TimeoutPasses(c) PROVE ChannelsOK' /\ AllHonest'
  <2>1. /\ UNCHANGED cachevars /\ list' = list /\ players' = players
        /\ timeouts[c] = "running" /\ timeouts' = [timeouts EXCEPT ![c] = "over"]
    BY <1>6 DEF TimeoutPasses, listvars
  <2>2. timeouts' \in [Clients -> Timeouts]
    BY <1>2, <2>1 DEF Timeouts
  <2>3. \A d \in Askers : timeouts'[d] # "none" => timeouts[d] # "none"
    BY <1>2, <2>1, ClientsAssumption
  <2>4. \A d \in Askers : \A maps :
          Fits(list, timeouts[d], maps) => Fits(list', timeouts'[d], maps)
    BY <2>1, <2>3 DEF Fits
  <2> QED BY <1>2, <2>1, <2>2, <2>4, OthersHonest
<1>7. ASSUME NEW c \in Clients, NEW kind, NEW arg, CallVote(c, kind, arg)
      PROVE  ChannelsOK' /\ AllHonest'
  BY <1>3, <1>7 DEF CallVote, listvars
<1>8. ASSUME NEW c \in Clients, NEW ballot, VoteCmd(c, ballot)
      PROVE  ChannelsOK' /\ AllHonest'
  BY <1>3, <1>8 DEF VoteCmd, listvars
<1>9. ASSUME NEW c \in Askers,
             \/ \E question \in Questions \ {"nothing"} : Ask(c, question)
             \/ LoseRequest(c) \/ ServerReads(c) \/ ClientReads(c)
             \/ TimeRunsOut(c) \/ ClientTic(c)
      PROVE  ChannelsOK' /\ AllHonest'
  BY <1>9, AskTurn, LoseTurn, ServerTurn, ClientTurn, ClockTurn, TicTurn
<1>10. CASE \/ \E position \in 0 .. MaxMaps, map \in Maps : InsertMap(position, map)
            \/ \E i \in 0 .. MaxMaps - 1 : RemoveMap(i)
            \/ ClearMaplist \/ ShuffleMaplist \/ GotoMap
  BY <1>10, EditsHonest
<1>11. ASSUME NEW exit \in BOOLEAN, Frame(exit) PROVE ChannelsOK' /\ AllHonest'
  BY <1>11, FrameHonest
<1>12. CASE UNCHANGED vars
  <2>1. /\ UNCHANGED cachevars /\ list' = list /\ timeouts' = timeouts
        /\ players' = players
    BY <1>12 DEF vars, listvars
  <2> QED BY <1>3, <2>1
<1> QED BY <1>4, <1>5, <1>6, <1>7, <1>8, <1>9, <1>10, <1>11, <1>12 DEF Next

(***************************************************************************)
(* Whatever the administrator does to the list, whatever is lost, and with  *)
(* any number of clients that come and go: who is told that his list is     *)
(* good, and has not given up a question since he came, has the list of the *)
(* server.                                                                  *)
(***************************************************************************)
THEOREM PatientsAreToldTheTruth == Spec => []PatientOkIsTrue
<1>1. Init => CacheInv
  <2> SUFFICES ASSUME Init PROVE CacheInv
    OBVIOUS
  <2>1. LInv
    BY ListsAssumption DEF Init, LInv, ListOK, VoteOK, IsCurrent
  <2>2. EmptyCache \in Caches
    <3>1. << >> \in Seq(Maps) /\ 0 \in 0 .. 2 /\ "EMPTY" \in Statuses
          /\ "nothing" \in Questions
      BY DEF Statuses, Questions
    <3> QED BY <3>1 DEF EmptyCache, Caches
  <2>3. ChannelsOK
    <3>1. << >> \in Seq(Requests) /\ << >> \in Seq(Messages) OBVIOUS
    <3> QED BY <2>2, <3>1 DEF Init, ChannelsOK, Timeouts
  <2>4. ASSUME NEW c \in Askers PROVE Honest(c)
    <3>1. requests[c] = << >> /\ answers[c] = << >> /\ timeouts[c] = "none"
      BY ClientsAssumption DEF Init
    <3>2. /\ Orderly(c, players, << >>, << >>, cache[c])
          /\ Truthful(list, "none", << >>, << >>, cache[c])
      BY DEF Orderly, Truthful, Fits
    <3> QED BY <3>1, <3>2 DEF Honest
  <2> QED BY <2>1, <2>3, <2>4 DEF CacheInv, AllHonest
<1>2. CacheInv => PatientOkIsTrue
  <2> SUFFICES ASSUME CacheInv, NEW c \in Askers \ late, answers[c] # << >>,
                      Head(answers[c]).type = "status",
                      Head(answers[c]).status = "OK"
               PROVE  cache[c].maplist = Head(answers[c]).list
    BY DEF PatientOkIsTrue
  <2>1. /\ Honest(c) /\ answers[c] \in Seq(Messages)
    BY DEF CacheInv, ChannelsOK, AllHonest
  <2>2. 1 \in 1 .. Len(answers[c]) /\ Head(answers[c]) = answers[c][1]
    BY <2>1, Tails
  <2> QED BY <2>1, <2>2 DEF Honest, Truthful
<1> QED BY <1>1, <1>2, NextHonest, PTL DEF Spec

===============================================================================
