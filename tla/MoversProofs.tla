------------------------------ MODULE MoversProofs ------------------------------
(***************************************************************************)
(* What holds of the movers of a sector for all heights around it, every   *)
(* delay and any number of activations: every variable keeps its type, no  *)
(* plane has two movers, every mover is listed, and a crusher goes up at   *)
(* its full speed.                                                         *)
(*                                                                         *)
(* A turn of a thinker changes heights and the thinker's own record, an    *)
(* activation makes a new record or changes the status of old ones, and    *)
(* the end of a tic forgets some.  One lemma each says what such a step    *)
(* has to show for the inductive invariant to be kept.                     *)
(*                                                                         *)
(* The second part is about the floor movers of a staircase: the links     *)
(* between its steps lead there and back while the steps are locked.       *)
(***************************************************************************)
EXTENDS Movers, Stairs, SequenceTheorems, FiniteSetTheorems, TLAPS

CeilingClasses == {"door", "ceiling", "pillar", "elevator"}
FloorClasses == {"plat", "floor", "pillar", "elevator"}

\* Movers that count down, or will when they are resumed.
CountsDown(m) ==
    \/ m.status = "waiting"
    \/ m.status = "in_stasis" /\ m.old = "waiting"
    \/ m.class = "door" /\ m.status = "init"

\* What the record of a mover must satisfy for the next steps to be defined: there is
\* something left to count down, only some doors wait, what is stopped knows what it was
\* doing, and a crusher on its way up, or stopped there, has its full speed.
Sound(m) ==
    /\ CountsDown(m) => m.count > 0
    /\ m.class = "door" /\ m.status = "waiting" =>
         m.type \in {"doorRaise", "genRaise", "closeWaitOpen"}
    /\ m.status = "in_stasis" => m.old \in Statuses \ {"in_stasis"}
    /\ m.class = "ceiling" =>
         /\ m.status \in {"up", "down", "in_stasis"}
         /\ m.status = "in_stasis" => m.old \in {"up", "down"}
         /\ m.type \in TurningCrushers =>
              /\ m.status = "up" => m.speed = FastSpeed
              /\ m.status = "in_stasis" /\ m.old = "up" => m.speed = FastSpeed

SoundMover == {m \in Mover : Sound(m)}

\* The sector's pointers lead to listed movers of the right kinds.
PointersLead ==
    /\ ceilingdata # NULL =>
         thinker[ceilingdata].class \in CeilingClasses /\ moving_ceiling
    /\ floordata # NULL =>
         /\ thinker[floordata].class \in FloorClasses
         /\ moving_floor \/ floordata = ceilingdata

\* The inductive invariant.
IInv ==
    /\ TypeOK
    /\ thinker \in [Ids -> SoundMover \cup {NoMover}]
    /\ EveryMoverOwnsItsPlane
    /\ PointersLead

-----------------------------------------------------------------------------
(* Heights *)

\* No step of a plane leaves the range of heights, wherever it is sent.
LEMMA MovesStay ==
  ASSUME NEW f \in Heights, NEW c \in Heights, NEW speed \in Heights, NEW dest \in Heights,
         NEW crush
  PROVE  /\ LowerFloor(f, c, speed, dest).height \in Heights
         /\ RaiseFloor(f, c, speed, dest, crush).height \in Heights
         /\ LowerCeiling(f, c, speed, dest, crush).height \in Heights
         /\ RaiseCeiling(f, c, speed, dest).height \in Heights
  <1>0. Top \in Nat
    BY MoversAssumption
  <1>1. LowerFloor(f, c, speed, dest).height \in Heights
    BY <1>0 DEF LowerFloor, Heights
  <1>2. RaiseFloor(f, c, speed, dest, crush).height \in Heights
    <2>1. Least(dest, c) \in Heights
      BY DEF Least
    <2> QED
      BY <1>0, <2>1 DEF RaiseFloor, Heights
  <1>3. LowerCeiling(f, c, speed, dest, crush).height \in Heights
    <2>1. Most(dest, f) \in Heights
      BY DEF Most
    <2> QED
      BY <1>0, <2>1 DEF LowerCeiling, Heights
  <1>4. RaiseCeiling(f, c, speed, dest).height \in Heights
    BY <1>0 DEF RaiseCeiling, Heights
  <1> QED
    BY <1>1, <1>2, <1>3, <1>4

LEMMA MoverFacts ==
  ASSUME NEW m \in Mover \cup {NoMover}
  PROVE  /\ m # NoMover <=> m.class # "none"
         /\ m # NoMover <=> m \in Mover
  BY DEF Mover, NoMover

-----------------------------------------------------------------------------
(* Turns of a thinker *)

\* Records change, and perhaps the heights, but no mover comes or goes.
LEMMA RecordsChange ==
  ASSUME IInv,
         thinker' \in [Ids -> SoundMover \cup {NoMover}],
         \A j \in Ids : thinker'[j].class = thinker[j].class,
         floorheight' \in Heights, ceilingheight' \in Heights, thing' \in BOOLEAN,
         ran' \subseteq Ids, uses' \in 0..MaxUses, enters' \in 0..MaxEnters,
         UNCHANGED <<co_boomphys, pointers>>
  PROVE  IInv'
  <1>1. \A j \in Ids : thinker'[j] # NoMover <=> thinker[j] # NoMover
    <2> TAKE j \in Ids
    <2>1. thinker[j] \in Mover \cup {NoMover} /\ thinker'[j] \in Mover \cup {NoMover}
      BY DEF IInv, TypeOK, SoundMover
    <2> QED
      BY <2>1, MoverFacts
  <1>2. TypeOK'
    BY DEF IInv, TypeOK, SoundMover, pointers
  <1>3. EveryMoverOwnsItsPlane'
    BY <1>1 DEF IInv, EveryMoverOwnsItsPlane, Live, pointers
  <1>4. PointersLead'
    BY DEF IInv, TypeOK, PointersLead, pointers, NULL
  <1> QED
    BY <1>2, <1>3, <1>4 DEF IInv

\* The record of one mover changes.
LEMMA RecordChanges ==
  ASSUME IInv, NEW i \in Ids, NEW m \in SoundMover,
         m.class = thinker[i].class,
         thinker' = [thinker EXCEPT ![i] = m],
         floorheight' \in Heights, ceilingheight' \in Heights, thing' \in BOOLEAN,
         ran' \subseteq Ids, uses' \in 0..MaxUses, enters' \in 0..MaxEnters,
         UNCHANGED <<co_boomphys, pointers>>
  PROVE  IInv'
  <1>1. \A j \in Ids : thinker'[j].class = thinker[j].class
    BY DEF IInv, TypeOK
  <1>2. thinker' \in [Ids -> SoundMover \cup {NoMover}]
    BY DEF IInv, TypeOK
  <1> QED
    BY <1>1, <1>2, RecordsChange

\* A mover that is gone is forgotten by the sector.
LEMMA MoverGoes ==
  ASSUME IInv, NEW i \in Ids, Destroyed(i),
         floorheight' \in Heights, ceilingheight' \in Heights,
         ran' \subseteq Ids,
         UNCHANGED <<co_boomphys, thing, moving_ceiling, moving_floor, bounds>>
  PROVE  IInv'
  <1>1. \A j \in Ids : thinker'[j] = IF j = i THEN NoMover ELSE thinker[j]
    BY DEF IInv, TypeOK, Destroyed
  <1>2. thinker' \in [Ids -> SoundMover \cup {NoMover}]
    BY DEF IInv, TypeOK, Destroyed
  <1>3. TypeOK'
    BY <1>2 DEF IInv, TypeOK, SoundMover, Destroyed, Forget, bounds, NULL
  <1>4. EveryMoverOwnsItsPlane'
    BY <1>1 DEF IInv, EveryMoverOwnsItsPlane, Live, Destroyed, Forget
  <1>5. PointersLead'
    BY <1>1 DEF IInv, TypeOK, PointersLead, Destroyed, Forget, NULL
  <1> QED
    BY <1>2, <1>3, <1>4, <1>5 DEF IInv

\* The record of a mover in its turn.
LEMMA MoverInTurn ==
  ASSUME IInv, NEW i \in Ids, NEW c \in CeilingClasses \cup FloorClasses, NEW s, Turn(i, c, s)
  PROVE  /\ thinker[i] \in SoundMover /\ thinker[i] \in Mover /\ Sound(thinker[i])
         /\ thinker[i] # NoMover
         /\ thinker[i].class = c
         /\ thinker[i].status \in s
         /\ ran' \subseteq Ids
         /\ UNCHANGED <<co_boomphys, thing, moving_ceiling, moving_floor, bounds>>
  <1>1. thinker[i].class = c /\ thinker[i].status \in s
    BY DEF Turn
  <1>2. c # "none"
    BY DEF CeilingClasses, FloorClasses
  <1>3. thinker[i] # NoMover
    BY <1>1, <1>2 DEF NoMover
  <1>4. thinker[i] \in SoundMover
    BY <1>3 DEF IInv
  <1> QED
    BY <1>1, <1>3, <1>4 DEF Turn, SoundMover, IInv, TypeOK

LEMMA Turns ==
  ASSUME IInv, NEW i \in Ids, NEW c \in CeilingClasses \cup FloorClasses, NEW s, Turn(i, c, s),
         NEW m \in Mover, Sound(m), m.class = c, Becomes(i, m),
         floorheight' \in Heights, ceilingheight' \in Heights
  PROVE  IInv'
  <1>1. /\ thinker[i] # NoMover
        /\ thinker[i].class = c
        /\ ran' \subseteq Ids
        /\ UNCHANGED <<co_boomphys, thing, moving_ceiling, moving_floor, bounds>>
    BY MoverInTurn
  <1>2. m \in SoundMover
    BY DEF SoundMover
  <1>3. uses' \in 0..MaxUses /\ enters' \in 0..MaxEnters /\ thing' \in BOOLEAN
    BY <1>1 DEF IInv, TypeOK, bounds
  <1> QED
    BY <1>1, <1>2, <1>3, RecordChanges DEF Becomes, pointers

LEMMA HeightsAre == ASSUME IInv PROVE floorheight \in Heights /\ ceilingheight \in Heights
  BY DEF IInv, TypeOK

\* A record of which the status changes, and one that begins to wait.
WithStatus(m, status) == [m EXCEPT !.status = status]
Waiting(m) == [m EXCEPT !.status = "waiting", !.count = Delay]

LEMMA StatusChanges ==
  ASSUME NEW m \in Mover, NEW status \in Statuses
  PROVE  /\ WithStatus(m, status) \in Mover
         /\ WithStatus(m, status).class = m.class
         /\ WithStatus(m, status).type = m.type
         /\ WithStatus(m, status).old = m.old
         /\ WithStatus(m, status).speed = m.speed
         /\ WithStatus(m, status).count = m.count
         /\ WithStatus(m, status).status = status
  BY DEF Mover, WithStatus

LEMMA WaitBegins ==
  ASSUME NEW m \in Mover
  PROVE  /\ Waiting(m) \in Mover
         /\ Waiting(m).class = m.class
         /\ Waiting(m).type = m.type
         /\ Waiting(m).old = m.old
         /\ Waiting(m).speed = m.speed
         /\ Waiting(m).count = Delay
         /\ Waiting(m).status = "waiting"
  <1>1. Delay \in 0..Delay
    BY MoversAssumption
  <1>2. "waiting" \in Statuses
    BY DEF Statuses
  <1>3. Waiting(m) \in Mover
    BY <1>1, <1>2 DEF Mover, Waiting
  <1> QED
    BY <1>1, <1>2, <1>3 DEF Mover, Waiting

LEMMA SoundDoor ==
  ASSUME NEW m \in Mover, m.class = "door",
         \/ m.status \in {"opening", "reopening", "closing", "finished", "destroy"}
         \/ /\ m.status = "waiting" /\ m.count = Delay
            /\ m.type \in {"doorRaise", "genRaise", "closeWaitOpen"}
  PROVE  Sound(m)
  BY MoversAssumption DEF Sound, CountsDown

LEMMA DoorTurns ==
  ASSUME IInv, NEW i \in Ids
  PROVE  /\ DoorWaits(i) => IInv'
         /\ DoorWaitsFirst(i) => IInv'
         /\ DoorFinishes(i) => IInv'
         /\ DoorCloses(i) => IInv'
         /\ DoorOpens(i) => IInv'
  <1> USE HeightsAre DEF CeilingClasses
  <1>0. Delay \in Nat \ {0}
    BY MoversAssumption
  <1>1. ASSUME DoorWaits(i) PROVE IInv'
    <2> DEFINE d == [thinker[i] EXCEPT !.count = @ - 1]
               m == IF d.count = 0 THEN DoorAfterWait(d) ELSE d
    <2>1. Turn(i, "door", {"waiting"}) /\ Becomes(i, m) /\ PlanesRest
      BY <1>1 DEF DoorWaits
    <2>2. /\ thinker[i] \in Mover /\ Sound(thinker[i])
          /\ thinker[i].class = "door" /\ thinker[i].status = "waiting"
      BY <2>1, MoverInTurn
    <2>3. thinker[i].count - 1 \in 0..Delay
      BY <1>0, <2>2 DEF Sound, CountsDown, Mover
    <2>4. d \in Mover /\ d.class = "door" /\ d.status = "waiting" /\ d.type = thinker[i].type
      BY <2>2, <2>3 DEF Mover
    <2>5. DoorAfterWait(d) \in Mover /\ Sound(DoorAfterWait(d)) /\ DoorAfterWait(d).class = "door"
      BY <2>2, <2>4 DEF DoorAfterWait, Sound, CountsDown, Mover, Statuses
    <2>6. d.count # 0 => Sound(d)
      BY <2>2, <2>3, <2>4 DEF Sound, CountsDown, Mover
    <2>7. m \in Mover /\ Sound(m) /\ m.class = "door"
      BY <2>4, <2>5, <2>6
    <2> QED
      BY <2>1, <2>7, Turns DEF PlanesRest
  <1>2. ASSUME DoorWaitsFirst(i) PROVE IInv'
    <2> DEFINE d == [thinker[i] EXCEPT !.count = @ - 1]
               m == IF d.count = 0 THEN [d EXCEPT !.type = "doorRaise", !.status = "opening"]
                    ELSE d
    <2>1. Turn(i, "door", {"init"}) /\ Becomes(i, m) /\ PlanesRest
      BY <1>2 DEF DoorWaitsFirst
    <2>2. /\ thinker[i] \in Mover /\ Sound(thinker[i])
          /\ thinker[i].class = "door" /\ thinker[i].status = "init"
      BY <2>1, MoverInTurn
    <2>3. thinker[i].count - 1 \in 0..Delay
      BY <1>0, <2>2 DEF Sound, CountsDown, Mover
    <2>4. d \in Mover /\ d.class = "door" /\ d.status = "init" /\ d.count = thinker[i].count - 1
      BY <2>2, <2>3 DEF Mover
    <2>5. CASE d.count = 0
      <3> DEFINE e == [d EXCEPT !.type = "doorRaise", !.status = "opening"]
      <3>0. "opening" \in Statuses /\ "doorRaise" \in MoverTypes
        BY DEF Statuses, MoverTypes, DoorTypes
      <3> HIDE DEF d
      <3>1. e \in Mover /\ e.class = "door" /\ e.status = "opening"
        BY <2>4, <3>0 DEF Mover
      <3>2. Sound(e)
        BY <3>1, SoundDoor
      <3> QED
        BY <2>1, <2>5, <3>1, <3>2, Turns DEF PlanesRest
    <2>6. CASE d.count # 0
      <3>1. Sound(d)
        <4>1. d.count \in 0..Delay
          BY <2>3, <2>4
        <4> HIDE DEF d
        <4>2. d.count > 0
          BY <1>0, <2>6, <4>1
        <4> QED
          BY <2>4, <4>2 DEF Sound, CountsDown
      <3> QED
        BY <2>1, <2>4, <2>6, <3>1, Turns DEF PlanesRest
    <2> QED
      BY <2>5, <2>6
  <1>3. ASSUME DoorFinishes(i) PROVE IInv'
    <2> DEFINE m == [thinker[i] EXCEPT !.status = "destroy"]
    <2>1. Turn(i, "door", {"finished", "destroy"}) /\ Becomes(i, m) /\ PlanesRest
      BY <1>3 DEF DoorFinishes
    <2>2. thinker[i] \in Mover /\ thinker[i].class = "door"
      BY <2>1, MoverInTurn
    <2>3. m \in Mover /\ Sound(m) /\ m.class = "door"
      BY <2>2 DEF Sound, CountsDown, Mover, Statuses
    <2> QED
      BY <2>1, <2>3, Turns DEF PlanesRest
  <1>4. ASSUME DoorCloses(i) PROVE IInv'
    <2> DEFINE d == thinker[i]
               to == LowerCeiling(floorheight, ceilingheight, d.speed, floorheight, FALSE)
               m == CASE to.res = "pastdest" /\ d.type = "closeWaitOpen" ->
                           [d EXCEPT !.status = "waiting", !.count = Delay]
                      [] to.res = "pastdest" /\ d.type \in {"doorRaise", "genRaise", "doorClose"} ->
                           [d EXCEPT !.status = "destroy"]
                      [] to.res = "crushed" /\ d.type # "doorClose" ->
                           [d EXCEPT !.status = "reopening"]
                      [] OTHER -> d
    <2>1. Turn(i, "door", {"closing"}) /\ Becomes(i, m) /\ CeilingMoves(to)
      BY <1>4 DEF DoorCloses
    <2>2. d \in Mover /\ Sound(d) /\ d.class = "door" /\ d.status = "closing"
      BY <2>1, MoverInTurn
    <2>3. to.height \in Heights
      BY <2>2, MovesStay DEF Mover
    <2> HIDE DEF to
    <2>4. m \in Mover /\ Sound(m) /\ m.class = "door"
      <3> DEFINE waits == Waiting(d)
                 ends == WithStatus(d, "destroy")
                 turns == WithStatus(d, "reopening")
      <3>0. /\ {"destroy", "reopening"} \subseteq Statuses
            /\ m = CASE to.res = "pastdest" /\ d.type = "closeWaitOpen" -> waits
                     [] to.res = "pastdest" /\ d.type \in {"doorRaise", "genRaise", "doorClose"} ->
                          ends
                     [] to.res = "crushed" /\ d.type # "doorClose" -> turns
                     [] OTHER -> d
        BY DEF Statuses, WithStatus, Waiting
      <3>1. waits \in Mover /\ waits.class = "door" /\ (d.type = "closeWaitOpen" => Sound(waits))
        BY <2>2, WaitBegins, SoundDoor
      <3>2. ends \in Mover /\ ends.class = "door" /\ Sound(ends)
        BY <2>2, <3>0, StatusChanges, SoundDoor
      <3>3. turns \in Mover /\ turns.class = "door" /\ Sound(turns)
        BY <2>2, <3>0, StatusChanges, SoundDoor
      <3> HIDE DEF waits, ends, turns, m
      <3> QED
        BY <2>2, <3>0, <3>1, <3>2, <3>3
    <2> QED
      BY <2>1, <2>3, <2>4, Turns DEF CeilingMoves
  <1>5. ASSUME DoorOpens(i) PROVE IInv'
    <2> DEFINE d == thinker[i]
               to == RaiseCeiling(floorheight, ceilingheight, d.speed, d.high)
               m == CASE to.res = "pastdest" /\ d.type \in {"doorRaise", "genRaise"} ->
                           [d EXCEPT !.status = "waiting", !.count = Delay]
                      [] to.res = "pastdest" /\ d.type \in {"doorOpen", "closeWaitOpen"} ->
                           [d EXCEPT !.status = "finished"]
                      [] OTHER -> d
    <2>1. Turn(i, "door", {"opening", "reopening"}) /\ Becomes(i, m) /\ CeilingMoves(to)
      BY <1>5 DEF DoorOpens
    <2>2. d \in Mover /\ Sound(d) /\ d.class = "door" /\ d.status \in {"opening", "reopening"}
      BY <2>1, MoverInTurn
    <2>3. to.height \in Heights
      BY <2>2, MovesStay DEF Mover
    <2> HIDE DEF to
    <2>4. m \in Mover /\ Sound(m) /\ m.class = "door"
      <3> DEFINE waits == Waiting(d)
                 ends == WithStatus(d, "finished")
      <3>0. /\ "finished" \in Statuses
            /\ m = CASE to.res = "pastdest" /\ d.type \in {"doorRaise", "genRaise"} -> waits
                     [] to.res = "pastdest" /\ d.type \in {"doorOpen", "closeWaitOpen"} -> ends
                     [] OTHER -> d
        BY DEF Statuses, WithStatus, Waiting
      <3>1. /\ waits \in Mover /\ waits.class = "door"
            /\ d.type \in {"doorRaise", "genRaise"} => Sound(waits)
        BY <2>2, WaitBegins, SoundDoor
      <3>2. ends \in Mover /\ ends.class = "door" /\ Sound(ends)
        BY <2>2, <3>0, StatusChanges, SoundDoor
      <3> HIDE DEF waits, ends, m
      <3> QED
        BY <2>2, <3>0, <3>1, <3>2
    <2> QED
      BY <2>1, <2>3, <2>4, Turns DEF CeilingMoves
  <1> QED
    BY <1>1, <1>2, <1>3, <1>4, <1>5

\* A record of a mover that is stopped.
Stop(m) == [m EXCEPT !.old = m.status, !.status = "in_stasis"]

LEMMA MoverStops ==
  ASSUME NEW m \in Mover
  PROVE  /\ Stop(m) \in Mover
         /\ Stop(m).class = m.class
         /\ Stop(m).type = m.type
         /\ Stop(m).old = m.status
         /\ Stop(m).speed = m.speed
         /\ Stop(m).count = m.count
         /\ Stop(m).status = "in_stasis"
  <1>1. "in_stasis" \in Statuses /\ m.status \in Statuses
    BY DEF Statuses, Mover
  <1>2. Stop(m) \in Mover
    BY <1>1 DEF Mover, Stop
  <1> QED
    BY <1>1, <1>2 DEF Mover, Stop

LEMMA SoundPlat ==
  ASSUME NEW m \in Mover, m.class = "plat",
         \/ m.status \in {"up", "down", "destroy"}
         \/ m.status = "waiting" /\ m.count > 0
         \/ /\ m.status = "in_stasis" /\ m.old \in Statuses \ {"in_stasis"}
            /\ m.old = "waiting" => m.count > 0
  PROVE  Sound(m)
  BY DEF Sound, CountsDown

\* A platform or a door that is done, and leaves its count set.
LEMMA PlatIsDone ==
  ASSUME NEW m \in Mover, NEW status \in {"destroy", "down"}
  PROVE  LET n == [m EXCEPT !.status = status, !.count = Delay]
         IN  n \in Mover /\ n.class = m.class /\ n.status = status
  <1> DEFINE n == [m EXCEPT !.status = status, !.count = Delay]
  <1>1. Delay \in 0..Delay
    BY MoversAssumption
  <1>2. status \in Statuses
    BY DEF Statuses
  <1>3. n \in Mover
    BY <1>1, <1>2 DEF Mover
  <1> QED
    BY <1>1, <1>2, <1>3 DEF Mover

LEMMA PlatArrives ==
  ASSUME NEW p \in Mover, p.class = "plat", p.status \in {"up", "down"}, NEW done
  PROVE  Arrived(p, done) \in Mover /\ Sound(Arrived(p, done)) /\ Arrived(p, done).class = "plat"
  <1> DEFINE e == [p EXCEPT !.status = "destroy", !.count = Delay]
  <1>1. /\ Stop(p) \in Mover /\ Stop(p).class = "plat"
        /\ Stop(p).status = "in_stasis" /\ Stop(p).old \in {"up", "down"}
    BY MoverStops
  <1>2. Sound(Stop(p))
    BY <1>1, SoundPlat DEF Statuses
  <1>3. e \in Mover /\ e.class = "plat" /\ e.status = "destroy"
    BY PlatIsDone
  <1>4. Sound(e)
    BY <1>3, SoundPlat
  <1>5. Waiting(p) \in Mover /\ Waiting(p).class = "plat"
    BY WaitBegins
  <1>6. Sound(Waiting(p))
    BY <1>5, WaitBegins, SoundPlat, MoversAssumption
  <1>7. Arrived(p, done) \in {Stop(p), e, Waiting(p)}
    BY DEF Arrived, Stop, Waiting
  <1> QED
    BY <1>1, <1>2, <1>3, <1>4, <1>5, <1>6, <1>7

LEMMA PlatTurns ==
  ASSUME IInv, NEW i \in Ids
  PROVE  /\ PlatRises(i) => IInv'
         /\ PlatFalls(i) => IInv'
         /\ PlatWaits(i) => IInv'
         /\ PlatRests(i) => IInv'
  <1> USE HeightsAre DEF FloorClasses
  <1>0. Delay \in Nat \ {0}
    BY MoversAssumption
  <1>1. ASSUME PlatRises(i) PROVE IInv'
    <2> DEFINE p == thinker[i]
               to == RaiseFloor(floorheight, ceilingheight, p.speed, p.high, FALSE)
               bounces == [p EXCEPT !.status = "down", !.count = Delay]
               m == CASE to.res = "crushed" -> bounces
                      [] to.res = "pastdest" -> Arrived(p, DoneAtTop)
                      [] OTHER -> p
    <2>1. Turn(i, "plat", {"up"}) /\ Becomes(i, m) /\ FloorMoves(to)
      BY <1>1 DEF PlatRises
    <2>2. p \in Mover /\ Sound(p) /\ p.class = "plat" /\ p.status = "up"
      BY <2>1, MoverInTurn
    <2>3. to.height \in Heights
      BY <2>2, MovesStay DEF Mover
    <2>4. bounces \in Mover /\ Sound(bounces) /\ bounces.class = "plat"
      BY <2>2, PlatIsDone, SoundPlat
    <2>5. /\ Arrived(p, DoneAtTop) \in Mover /\ Sound(Arrived(p, DoneAtTop))
          /\ Arrived(p, DoneAtTop).class = "plat"
      BY <2>2, PlatArrives
    <2> HIDE DEF to, bounces
    <2>6. m \in Mover /\ Sound(m) /\ m.class = "plat"
      BY <2>2, <2>4, <2>5
    <2> QED
      BY <2>1, <2>3, <2>6, Turns DEF FloorMoves
  <1>2. ASSUME PlatFalls(i) PROVE IInv'
    <2> DEFINE p == thinker[i]
               to == LowerFloor(floorheight, ceilingheight, p.speed, p.low)
               m == CASE p.type \in DoneGoingDown -> WithStatus(p, "destroy")
                      [] p.type \notin DoneGoingDown /\ to.res = "pastdest" ->
                            Arrived(p, DoneAtBottom)
                      [] OTHER -> p
    <2>1. Turn(i, "plat", {"down"}) /\ Becomes(i, m) /\ FloorMoves(to)
      BY <1>2 DEF PlatFalls, WithStatus
    <2>2. p \in Mover /\ Sound(p) /\ p.class = "plat" /\ p.status = "down"
      BY <2>1, MoverInTurn
    <2>3. to.height \in Heights
      BY <2>2, MovesStay DEF Mover
    <2>4. /\ WithStatus(p, "destroy") \in Mover /\ Sound(WithStatus(p, "destroy"))
          /\ WithStatus(p, "destroy").class = "plat"
      <3>1. "destroy" \in Statuses
        BY DEF Statuses
      <3> QED
        BY <2>2, <3>1, StatusChanges, SoundPlat
    <2>5. /\ Arrived(p, DoneAtBottom) \in Mover /\ Sound(Arrived(p, DoneAtBottom))
          /\ Arrived(p, DoneAtBottom).class = "plat"
      BY <2>2, PlatArrives
    <2> HIDE DEF to
    <2>6. m \in Mover /\ Sound(m) /\ m.class = "plat"
      BY <2>2, <2>4, <2>5
    <2> QED
      BY <2>1, <2>3, <2>6, Turns DEF FloorMoves
  <1>3. ASSUME PlatWaits(i) PROVE IInv'
    <2> DEFINE p == [thinker[i] EXCEPT !.count = @ - 1]
               status == IF floorheight <= p.low THEN "up" ELSE "down"
               m == IF p.count = 0 THEN WithStatus(p, status) ELSE p
    <2>1. Turn(i, "plat", {"waiting"}) /\ Becomes(i, m) /\ PlanesRest
      BY <1>3 DEF PlatWaits, WithStatus
    <2>2. /\ thinker[i] \in Mover /\ Sound(thinker[i])
          /\ thinker[i].class = "plat" /\ thinker[i].status = "waiting"
      BY <2>1, MoverInTurn
    <2>3. thinker[i].count - 1 \in 0..Delay
      BY <1>0, <2>2 DEF Sound, CountsDown, Mover
    <2>4. p \in Mover /\ p.class = "plat" /\ p.status = "waiting" /\ p.count \in 0..Delay
      BY <2>2, <2>3 DEF Mover
    <2> HIDE DEF p
    <2>5. status \in {"up", "down"} /\ status \in Statuses
      BY DEF Statuses
    <2>6. /\ WithStatus(p, status) \in Mover /\ WithStatus(p, status).class = "plat"
          /\ WithStatus(p, status).status = status
      BY <2>4, <2>5, StatusChanges
    <2>7. Sound(WithStatus(p, status))
      BY <2>5, <2>6, SoundPlat
    <2>8. p.count # 0 => Sound(p)
      BY <1>0, <2>4, SoundPlat
    <2>9. m \in Mover /\ Sound(m) /\ m.class = "plat"
      BY <2>4, <2>6, <2>7, <2>8
    <2> QED
      BY <2>1, <2>9, Turns DEF PlanesRest
  <1>4. ASSUME PlatRests(i) PROVE IInv'
    <2>1. Turn(i, "plat", {"in_stasis", "destroy"}) /\ Becomes(i, thinker[i]) /\ PlanesRest
      BY <1>4 DEF PlatRests, Becomes, IInv, TypeOK
    <2>2. thinker[i] \in Mover /\ Sound(thinker[i]) /\ thinker[i].class = "plat"
      BY <2>1, MoverInTurn
    <2> QED
      BY <2>1, <2>2, Turns DEF PlanesRest
  <1> QED
    BY <1>1, <1>2, <1>3, <1>4

LEMMA SoundCeiling ==
  ASSUME NEW m \in Mover, m.class = "ceiling",
         \/ m.status = "down"
         \/ m.status = "up" /\ (m.type \in TurningCrushers => m.speed = FastSpeed)
  PROVE  Sound(m)
  BY DEF Sound, CountsDown

\* Movers that never count down.
LEMMA SoundOther ==
  ASSUME NEW m \in Mover, m.class \in {"floor", "pillar", "elevator"},
         m.status \in {"init", "up", "down", "destroy"}
  PROVE  Sound(m)
  BY DEF Sound, CountsDown

\* A ceiling that turns at the bottom, or that is slowed down, with another speed.
LEMMA SpeedChanges ==
  ASSUME NEW m \in Mover, NEW status \in Statuses, NEW speed \in {FastSpeed, SlowSpeed}
  PROVE  LET n == [m EXCEPT !.status = status, !.speed = speed]
         IN  /\ n \in Mover
             /\ n.class = m.class
             /\ n.type = m.type
             /\ n.status = status
             /\ n.speed = speed
  <1> DEFINE n == [m EXCEPT !.status = status, !.speed = speed]
  <1>1. speed \in Heights
    BY MoversAssumption DEF Heights, FastSpeed, SlowSpeed
  <1>2. n \in Mover
    BY <1>1 DEF Mover
  <1> QED
    BY <1>1, <1>2 DEF Mover

LEMMA CeilingTurns ==
  ASSUME IInv, NEW i \in Ids
  PROVE  /\ CeilingRises(i) => IInv'
         /\ CeilingFalls(i) => IInv'
         /\ CeilingRests(i) => IInv'
  <1> USE HeightsAre DEF CeilingClasses
  <1>0. {"up", "down"} \subseteq Statuses
    BY DEF Statuses
  <1>1. ASSUME CeilingRises(i) PROVE IInv'
    <2> DEFINE c == thinker[i]
               to == RaiseCeiling(floorheight, ceilingheight, c.speed, c.high)
               m == IF to.res = "pastdest" THEN WithStatus(c, "down") ELSE c
    <2>1. /\ Turn(i, "ceiling", {"up"}) /\ CeilingMoves(to)
          /\ Destroyed(i) \/ Becomes(i, m)
      BY <1>1 DEF CeilingRises, WithStatus
    <2>2. /\ c \in Mover /\ Sound(c) /\ c.class = "ceiling"
          /\ ran' \subseteq Ids
          /\ UNCHANGED <<co_boomphys, thing, moving_ceiling, moving_floor, bounds>>
      BY <2>1, MoverInTurn
    <2>3. to.height \in Heights
      BY <2>2, MovesStay DEF Mover
    <2> HIDE DEF to
    <2>4. /\ WithStatus(c, "down") \in Mover /\ WithStatus(c, "down").class = "ceiling"
          /\ WithStatus(c, "down").status = "down"
      BY <1>0, <2>2, StatusChanges
    <2>5. Sound(WithStatus(c, "down"))
      BY <2>4, SoundCeiling
    <2>6. m \in Mover /\ Sound(m) /\ m.class = "ceiling"
      BY <2>2, <2>4, <2>5
    <2>7. floorheight' \in Heights /\ ceilingheight' \in Heights
      BY <2>1, <2>3 DEF CeilingMoves
    <2> HIDE DEF m
    <2>8. CASE Destroyed(i)
      BY <2>2, <2>7, <2>8, MoverGoes
    <2>9. CASE Becomes(i, m)
      BY <2>1, <2>6, <2>7, <2>9, Turns
    <2> QED
      BY <2>1, <2>8, <2>9
  <1>2. ASSUME CeilingFalls(i) PROVE IInv'
    <2> DEFINE c == thinker[i]
               to == LowerCeiling(floorheight, ceilingheight, c.speed, c.low,
                                  c.type \in Crushers)
               turns == [c EXCEPT !.status = "up", !.speed = FastSpeed]
               slows == [c EXCEPT !.speed = SlowSpeed]
               m == CASE to.res = "pastdest" -> turns
                      [] to.res = "crushed" /\ c.type \in SlowedCrushers -> slows
                      [] OTHER -> c
    <2>1. /\ Turn(i, "ceiling", {"down"}) /\ CeilingMoves(to)
          /\ Destroyed(i) \/ Becomes(i, m)
      BY <1>2 DEF CeilingFalls
    <2> HIDE DEF m, to
    <2>2. /\ c \in Mover /\ Sound(c) /\ c.class = "ceiling" /\ c.status = "down"
          /\ ran' \subseteq Ids
          /\ UNCHANGED <<co_boomphys, thing, moving_ceiling, moving_floor, bounds>>
      BY <2>1, MoverInTurn
    <2> USE DEF m, to
    <2>3. to.height \in Heights
      BY <2>2, MovesStay DEF Mover
    <2> HIDE DEF to
    <2>4. turns \in Mover /\ turns.class = "ceiling" /\ Sound(turns)
      BY <1>0, <2>2, SpeedChanges, SoundCeiling
    <2>5. slows = [c EXCEPT !.status = "down", !.speed = SlowSpeed]
      BY <2>2 DEF Mover
    <2>6. slows \in Mover /\ slows.class = "ceiling" /\ Sound(slows)
      <3> HIDE DEF c, turns, slows, m
      <3>1. "down" \in Statuses /\ SlowSpeed \in {FastSpeed, SlowSpeed}
        BY <1>0
      <3>2. slows \in Mover /\ slows.class = "ceiling" /\ slows.status = "down"
        BY <2>2, <2>5, <3>1, SpeedChanges
      <3> QED
        BY <3>2, SoundCeiling
    <2> HIDE DEF turns, slows
    <2>7. m \in Mover /\ Sound(m) /\ m.class = "ceiling"
      BY <2>2, <2>4, <2>6
    <2>8. floorheight' \in Heights /\ ceilingheight' \in Heights
      BY <2>1, <2>3 DEF CeilingMoves
    <2> HIDE DEF m
    <2>9. CASE Destroyed(i)
      BY <2>2, <2>8, <2>9, MoverGoes
    <2>10. CASE Becomes(i, m)
      BY <2>1, <2>7, <2>8, <2>10, Turns
    <2> QED
      BY <2>1, <2>9, <2>10
  <1>3. ASSUME CeilingRests(i) PROVE IInv'
    <2>1. Turn(i, "ceiling", {"in_stasis"}) /\ Becomes(i, thinker[i]) /\ PlanesRest
      BY <1>3 DEF CeilingRests, Becomes, IInv, TypeOK
    <2>2. thinker[i] \in Mover /\ Sound(thinker[i]) /\ thinker[i].class = "ceiling"
      BY <2>1, MoverInTurn
    <2> QED
      BY <2>1, <2>2, Turns DEF PlanesRest
  <1> QED
    BY <1>1, <1>2, <1>3

\* What may be done is destroyed, or goes on as it is.
LEMMA MayBeDone ==
  ASSUME NEW m \in Mover, m.class \in {"floor", "pillar", "elevator"},
         m.status \in {"init", "up", "down"}, NEW done
  PROVE  LET n == IF done THEN [m EXCEPT !.status = "destroy"] ELSE m
         IN  n \in Mover /\ Sound(n) /\ n.class = m.class
  <1> DEFINE e == WithStatus(m, "destroy")
  <1>1. "destroy" \in Statuses
    BY DEF Statuses
  <1>2. e \in Mover /\ e.class = m.class /\ e.status = "destroy"
    BY <1>1, StatusChanges
  <1>3. Sound(e) /\ Sound(m)
    BY <1>2, SoundOther
  <1> QED
    BY <1>2, <1>3 DEF WithStatus

LEMMA OtherTurns ==
  ASSUME IInv, NEW i \in Ids
  PROVE  /\ FloorRuns(i) => IInv'
         /\ PillarRuns(i) => IInv'
         /\ ElevatorGoesDown(i) => IInv'
         /\ ElevatorGoesUp(i) => IInv'
  <1> USE HeightsAre DEF FloorClasses
  <1>1. ASSUME FloorRuns(i) PROVE IInv'
    <2> DEFINE f == thinker[i]
               up == RaiseFloor(floorheight, ceilingheight, f.speed, f.high,
                                f.type = "raiseAndCrush")
               down == LowerFloor(floorheight, ceilingheight, f.speed, f.low)
               to == IF f.status = "up" THEN up ELSE down
               m == IF to.res = "pastdest" THEN [f EXCEPT !.status = "destroy"] ELSE f
    <2>1. Turn(i, "floor", {"up", "down"}) /\ FloorMoves(to) /\ Becomes(i, m)
      BY <1>1 DEF FloorRuns
    <2>2. f \in Mover /\ f.class = "floor" /\ f.status \in {"up", "down"}
      BY <2>1, MoverInTurn
    <2>3. up.height \in Heights /\ down.height \in Heights
      BY <2>2, MovesStay DEF Mover
    <2> HIDE DEF up, down
    <2>4. to.height \in Heights
      BY <2>3
    <2> HIDE DEF to
    <2>5. m \in Mover /\ Sound(m) /\ m.class = "floor"
      BY <2>2, MayBeDone
    <2> HIDE DEF m
    <2> QED
      BY <2>1, <2>4, <2>5, Turns DEF FloorMoves
  <1>2. ASSUME PillarRuns(i) PROVE IInv'
    <2> DEFINE p == thinker[i]
               r == IF p.type = "pillarBuild"
                    THEN RaiseFloor(floorheight, ceilingheight, p.speed, p.low, FALSE)
                    ELSE LowerFloor(floorheight, ceilingheight, p.speed, p.low)
               s == IF p.type = "pillarBuild"
                    THEN LowerCeiling(r.height, ceilingheight, p.other, p.high, FALSE)
                    ELSE RaiseCeiling(r.height, ceilingheight, p.other, p.high)
               done == r.res = "pastdest" /\ s.res = "pastdest"
               m == IF done THEN [p EXCEPT !.status = "destroy"] ELSE p
    <2>1. /\ Turn(i, "pillar", {"init"}) /\ Becomes(i, m)
          /\ floorheight' = r.height /\ ceilingheight' = s.height
      BY <1>2 DEF PillarRuns
    <2>2. p \in Mover /\ p.class = "pillar" /\ p.status = "init"
      BY <2>1, MoverInTurn
    <2>3. p.speed \in Heights /\ p.low \in Heights /\ p.other \in Heights /\ p.high \in Heights
      BY <2>2 DEF Mover
    <2>4. r.height \in Heights
      BY <2>3, MovesStay
    <2> HIDE DEF r
    <2>5. s.height \in Heights
      BY <2>3, <2>4, MovesStay
    <2> HIDE DEF s, done
    <2>6. m \in Mover /\ Sound(m) /\ m.class = "pillar"
      BY <2>2, MayBeDone
    <2> HIDE DEF m
    <2> QED
      BY <2>1, <2>4, <2>5, <2>6, Turns
  <1>3. ASSUME ElevatorGoesDown(i) PROVE IInv'
    <2> DEFINE e == thinker[i]
               c == LowerCeiling(floorheight, ceilingheight, e.speed, e.high, FALSE)
               f == LowerFloor(floorheight, c.height, e.speed, e.low)
               m == IF c.res = "pastdest" THEN [e EXCEPT !.status = "destroy"] ELSE e
    <2>1. /\ Turn(i, "elevator", {"down"}) /\ Becomes(i, m)
          /\ ceilingheight' = c.height
          /\ floorheight' = IF c.res = "crushed" THEN floorheight ELSE f.height
      BY <1>3 DEF ElevatorGoesDown
    <2>2. e \in Mover /\ e.class = "elevator" /\ e.status = "down"
      BY <2>1, MoverInTurn
    <2>3. e.speed \in Heights /\ e.low \in Heights /\ e.high \in Heights
      BY <2>2 DEF Mover
    <2>4. c.height \in Heights
      BY <2>3, MovesStay
    <2> HIDE DEF c
    <2>5. f.height \in Heights
      BY <2>3, <2>4, MovesStay
    <2> HIDE DEF f
    <2>6. m \in Mover /\ Sound(m) /\ m.class = "elevator"
      BY <2>2, MayBeDone
    <2> HIDE DEF m
    <2>7. floorheight' \in Heights
      BY <2>1, <2>5
    <2> QED
      BY <2>1, <2>4, <2>6, <2>7, Turns
  <1>4. ASSUME ElevatorGoesUp(i) PROVE IInv'
    <2> DEFINE e == thinker[i]
               f == RaiseFloor(floorheight, ceilingheight, e.speed, e.low, FALSE)
               c == RaiseCeiling(f.height, ceilingheight, e.speed, e.high)
               m == IF f.res = "pastdest" THEN [e EXCEPT !.status = "destroy"] ELSE e
    <2>1. /\ Turn(i, "elevator", {"up"}) /\ Becomes(i, m)
          /\ floorheight' = f.height
          /\ ceilingheight' = IF f.res = "crushed" THEN ceilingheight ELSE c.height
      BY <1>4 DEF ElevatorGoesUp
    <2> HIDE DEF m, c
    <2>2. e \in Mover /\ e.class = "elevator" /\ e.status = "up"
      BY <2>1, MoverInTurn
    <2>3. e.speed \in Heights /\ e.low \in Heights /\ e.high \in Heights
      BY <2>2 DEF Mover
    <2>4. f.height \in Heights
      BY <2>3, MovesStay
    <2> HIDE DEF f
    <2>5. c.height \in Heights
      BY <2>3, <2>4, MovesStay DEF c
    <2>6. m \in Mover /\ Sound(m) /\ m.class = "elevator"
      BY <2>2, MayBeDone DEF m
    <2>7. ceilingheight' \in Heights
      BY <2>1, <2>5
    <2> QED
      BY <2>1, <2>4, <2>6, <2>7, Turns
  <1> QED
    BY <1>1, <1>2, <1>3, <1>4

LEMMA ThinkersRun == ASSUME IInv, NEW i \in Ids, RunThink(i) PROVE IInv'
  BY DoorTurns, PlatTurns, CeilingTurns, OtherTurns DEF RunThink

-----------------------------------------------------------------------------
(* The end of a tic *)

\* What the list of moving sectors destroys is destroyed on both planes it had.
LEMMA TicEnds == ASSUME IInv, EndTic PROVE IInv'
  <1> DEFINE listed == moving_ceiling \/ moving_floor
             ceilinggone == listed /\ MovingCeilingCompleted
             floorgone == listed /\ (\/ MovingFloorCompleted
                                     \/ ceilinggone /\ floordata = ceilingdata)
             gone == {i \in Ids : (ceilinggone /\ i = ceilingdata)
                                    \/ (floorgone /\ i = floordata)}
  <1>1. /\ thinker' = [i \in Ids |-> IF i \in gone THEN NoMover ELSE thinker[i]]
        /\ ceilingdata' = IF ceilinggone THEN NULL ELSE ceilingdata
        /\ floordata' = IF floorgone THEN NULL ELSE floordata
        /\ moving_ceiling' = (moving_ceiling /\ ~ceilinggone)
        /\ moving_floor' = (moving_floor /\ ~floorgone)
        /\ ran' = {}
        /\ UNCHANGED <<co_boomphys, sector, bounds>>
    BY DEF EndTic
  <1>2. ceilingdata # NULL /\ ceilingdata = floordata => (floorgone => ceilinggone)
    BY DEF MovingFloorCompleted, IInv, PointersLead, CeilingClasses
  <1>3. ceilinggone \in BOOLEAN /\ floorgone \in BOOLEAN
    BY DEF IInv, TypeOK, MovingCeilingCompleted, MovingFloorCompleted
  <1>4. ceilinggone /\ floordata = ceilingdata => floorgone
    OBVIOUS
  <1> HIDE DEF ceilinggone, floorgone
  <1>5. thinker' \in [Ids -> SoundMover \cup {NoMover}]
    BY <1>1 DEF IInv, TypeOK
  <1>6. TypeOK'
    BY <1>1, <1>3, <1>5 DEF IInv, TypeOK, SoundMover, NULL, sector, bounds
  <1>7. EveryMoverOwnsItsPlane'
    BY <1>1, <1>2 DEF IInv, EveryMoverOwnsItsPlane, Live
  <1>8. PointersLead'
    <2>1. ASSUME ceilingdata' # NULL
          PROVE  thinker'[ceilingdata'].class \in CeilingClasses /\ moving_ceiling'
      <3>1. ~ceilinggone /\ ceilingdata' = ceilingdata
        BY <1>1, <2>1
      <3>2. ceilingdata \in Ids /\ ceilingdata \notin gone
        BY <1>2, <2>1, <3>1 DEF IInv, TypeOK
      <3> QED
        BY <1>1, <2>1, <3>1, <3>2 DEF IInv, PointersLead
    <2>2. ASSUME floordata' # NULL
          PROVE  /\ thinker'[floordata'].class \in FloorClasses
                 /\ moving_floor' \/ floordata' = ceilingdata'
      <3>1. ~floorgone /\ floordata' = floordata
        BY <1>1, <2>2
      <3>2. floordata \in Ids /\ floordata \notin gone
        BY <1>4, <2>2, <3>1 DEF IInv, TypeOK
      <3> QED
        BY <1>1, <1>4, <2>2, <3>1, <3>2 DEF IInv, PointersLead
    <2> QED
      BY <2>1, <2>2 DEF PointersLead
  <1> QED
    BY <1>5, <1>6, <1>7, <1>8 DEF IInv

-----------------------------------------------------------------------------
(* New movers *)

LEMMA FreshIsFree ==
  ASSUME FreshIds # {}
  PROVE  FreshId \in Ids /\ thinker[FreshId] = NoMover
  <1>1. FreshId \in FreshIds
    BY DEF FreshId
  <1> QED
    BY <1>1 DEF FreshIds, Live

\* What the pointers lead to lives, and so is not the name of the new thinker.
LEMMA PointedLive ==
  ASSUME IInv, FreshIds # {}
  PROVE  ceilingdata # FreshId /\ floordata # FreshId
  <1>1. thinker[FreshId].class = "none" /\ FreshId # NULL
    BY FreshIsFree, MoversAssumption DEF NoMover, NULL
  <1> QED
    BY <1>1 DEF IInv, PointersLead, CeilingClasses, FloorClasses

LEMMA SpawnFacts ==
  ASSUME IInv, NEW m \in SoundMover, NEW gone, Spawned(m, gone)
  PROVE  /\ thinker' \in [Ids -> SoundMover \cup {NoMover}]
         /\ FreshId \in Ids /\ FreshId # NULL
         /\ ceilingdata # FreshId /\ floordata # FreshId
         /\ thinker'[FreshId] = m
         /\ \A i \in Ids \ {FreshId} :
              thinker'[i] = IF i \in gone THEN NoMover ELSE thinker[i]
         /\ ran' \subseteq Ids
  <1>1. FreshIds # {} /\ thinker[FreshId] = NoMover /\ FreshId \in Ids
    BY FreshIsFree DEF Spawned
  <1>2. thinker' \in [Ids -> SoundMover \cup {NoMover}]
    BY DEF Spawned, IInv
  <1>3. FreshId # NULL
    BY <1>1, MoversAssumption DEF NULL
  <1> QED
    BY <1>1, <1>2, <1>3, PointedLive DEF Spawned, IInv, TypeOK

LEMMA CeilingSpawns ==
  ASSUME IInv, NEW m \in SoundMover, m.class \in {"door", "ceiling"}, NEW gone,
         ceilingdata \in gone \cup {NULL}, NULL \notin gone,
         SpawnedOnCeiling(m, gone),
         UNCHANGED <<co_boomphys, sector, enters>>, uses' \in 0..MaxUses
  PROVE  IInv'
  <1>1. Spawned(m, gone)
    BY DEF SpawnedOnCeiling
  <1>2. TypeOK'
    BY <1>1, SpawnFacts DEF SpawnedOnCeiling, IInv, TypeOK, SoundMover, sector
  <1>3. EveryMoverOwnsItsPlane'
    <2> SUFFICES ASSUME NEW i \in Ids, thinker'[i] # NoMover
                 PROVE  /\ thinker'[i].class \in CeilingClasses => ceilingdata' = i
                        /\ thinker'[i].class \in FloorClasses => floordata' = i
      BY DEF EveryMoverOwnsItsPlane, Live, CeilingClasses, FloorClasses
    <2>1. CASE i = FreshId
      BY <1>1, <2>1, SpawnFacts DEF SpawnedOnCeiling, FloorClasses
    <2>2. CASE i # FreshId
      <3>1. i \notin gone /\ thinker'[i] = thinker[i] /\ i # NULL
        BY <1>1, <2>2, SpawnFacts, MoversAssumption DEF NULL
      <3> QED
        BY <3>1 DEF IInv, EveryMoverOwnsItsPlane, Live, SpawnedOnCeiling, CeilingClasses,
             FloorClasses
    <2> QED
      BY <2>1, <2>2
  <1>4. PointersLead'
    <2>1. thinker'[ceilingdata'].class \in CeilingClasses /\ moving_ceiling'
      BY <1>1, SpawnFacts DEF SpawnedOnCeiling, CeilingClasses
    <2>2. ASSUME floordata' # NULL
          PROVE  thinker'[floordata'].class \in FloorClasses /\ moving_floor'
      <3>1. floordata' = floordata /\ floordata \notin gone /\ floordata \in Ids
        BY <2>2 DEF SpawnedOnCeiling, IInv, TypeOK
      <3>2. thinker'[floordata] = thinker[floordata]
        BY <1>1, <3>1, SpawnFacts
      <3>3. floordata # ceilingdata
        BY <2>2, <3>1
      <3> QED
        BY <2>2, <3>1, <3>2, <3>3 DEF IInv, PointersLead, SpawnedOnCeiling
    <2> QED
      BY <2>1, <2>2 DEF PointersLead
  <1> QED
    BY <1>1, <1>2, <1>3, <1>4, SpawnFacts DEF IInv

LEMMA FloorSpawns ==
  ASSUME IInv, NEW m \in SoundMover, m.class \in {"plat", "floor"}, floordata = NULL,
         SpawnedOnFloor(m),
         UNCHANGED <<co_boomphys, sector, enters>>, uses' \in 0..MaxUses
  PROVE  IInv'
  <1>1. Spawned(m, {})
    BY DEF SpawnedOnFloor
  <1>2. TypeOK'
    BY <1>1, SpawnFacts DEF SpawnedOnFloor, IInv, TypeOK, SoundMover, sector
  <1>3. EveryMoverOwnsItsPlane'
    <2> SUFFICES ASSUME NEW i \in Ids, thinker'[i] # NoMover
                 PROVE  /\ thinker'[i].class \in CeilingClasses => ceilingdata' = i
                        /\ thinker'[i].class \in FloorClasses => floordata' = i
      BY DEF EveryMoverOwnsItsPlane, Live, CeilingClasses, FloorClasses
    <2>1. CASE i = FreshId
      BY <1>1, <2>1, SpawnFacts DEF SpawnedOnFloor, CeilingClasses
    <2>2. CASE i # FreshId
      <3>1. thinker'[i] = thinker[i] /\ i # NULL
        BY <1>1, <2>2, SpawnFacts, MoversAssumption DEF NULL
      <3> QED
        BY <3>1 DEF IInv, EveryMoverOwnsItsPlane, Live, SpawnedOnFloor, CeilingClasses,
             FloorClasses
    <2> QED
      BY <2>1, <2>2
  <1>4. PointersLead'
    <2>1. thinker'[floordata'].class \in FloorClasses /\ moving_floor'
      BY <1>1, SpawnFacts DEF SpawnedOnFloor, FloorClasses
    <2>2. ASSUME ceilingdata' # NULL
          PROVE  thinker'[ceilingdata'].class \in CeilingClasses /\ moving_ceiling'
      <3>1. ceilingdata' = ceilingdata /\ ceilingdata \in Ids
        BY <2>2 DEF SpawnedOnFloor, IInv, TypeOK
      <3>2. thinker'[ceilingdata] = thinker[ceilingdata]
        BY <1>1, <3>1, SpawnFacts
      <3> QED
        BY <2>2, <3>1, <3>2 DEF IInv, PointersLead, SpawnedOnFloor
    <2> QED
      BY <2>1, <2>2 DEF PointersLead
  <1> QED
    BY <1>1, <1>2, <1>3, <1>4, SpawnFacts DEF IInv

LEMMA BothSpawn ==
  ASSUME IInv, NEW m \in SoundMover, m.class \in {"pillar", "elevator"}, NEW gone,
         {ceilingdata, floordata} \subseteq gone \cup {NULL}, NULL \notin gone,
         SpawnedOnBoth(m, gone),
         UNCHANGED <<co_boomphys, sector, enters>>, uses' \in 0..MaxUses
  PROVE  IInv'
  <1>1. Spawned(m, gone)
    BY DEF SpawnedOnBoth
  <1>2. TypeOK'
    BY <1>1, SpawnFacts DEF SpawnedOnBoth, IInv, TypeOK, SoundMover, sector
  <1>3. \A i \in Ids : thinker'[i] # NoMover => i = FreshId
    <2> SUFFICES ASSUME NEW i \in Ids, i # FreshId, thinker'[i] # NoMover
                 PROVE  FALSE
      OBVIOUS
    <2>1. i \notin gone /\ thinker[i] # NoMover /\ i # NULL
      BY <1>1, SpawnFacts, MoversAssumption DEF NULL
    <2>2. thinker[i].class \in CeilingClasses \cup FloorClasses
      BY <2>1 DEF IInv, TypeOK, Mover, CeilingClasses, FloorClasses
    <2> QED
      BY <2>1, <2>2 DEF IInv, EveryMoverOwnsItsPlane, Live, CeilingClasses, FloorClasses
  <1>4. EveryMoverOwnsItsPlane'
    BY <1>3 DEF EveryMoverOwnsItsPlane, Live, SpawnedOnBoth
  <1>5. PointersLead'
    BY <1>1, SpawnFacts DEF PointersLead, SpawnedOnBoth, CeilingClasses, FloorClasses
  <1> QED
    BY <1>1, <1>2, <1>4, <1>5, SpawnFacts DEF IInv

LEMMA UsesStay ==
  ASSUME IInv, NEW kind, Use(kind)
  PROVE  uses' \in 0..MaxUses /\ UNCHANGED <<co_boomphys, sector, enters>>
  BY MoversAssumption DEF Use, IInv, TypeOK

\* A new door, whatever it is for.
LEMMA NewDoorSound ==
  ASSUME IInv, NEW type \in DoorTypes
  PROVE  NewDoor(type) \in SoundMover /\ NewDoor(type).class = "door"
  <1>1. type \in MoverTypes /\ {"opening", "closing", "none"} \subseteq Statuses \cup {"none"}
    BY DEF MoverTypes, Statuses
  <1>2. 0 \in Heights /\ 1 \in Heights /\ 0 \in 0..Delay /\ LowCeiling \in Heights
    BY MoversAssumption DEF Heights
  <1>3. NewDoor(type) \in Mover
    BY <1>1, <1>2, HeightsAre DEF NewDoor, NoMover, Mover, Statuses
  <1>4. NewDoor(type).class = "door" /\ NewDoor(type).status \in {"opening", "closing"}
    BY DEF NewDoor, NoMover
  <1> QED
    BY <1>3, <1>4, SoundDoor DEF SoundMover

LEMMA DoorsStart ==
  ASSUME IInv
  PROVE  /\ \A type \in DoorTypes : EV_DoDoor(type) => IInv'
         /\ EV_DoGenLockedDoor => IInv'
         /\ \A type \in DoorTypes : PushNewDoor(type) => IInv'
         /\ \A player : PushMovingDoor(player) => IInv'
  <1>0. ceilingdata = NULL \/ ceilingdata # NULL
    OBVIOUS
  <1>1. ASSUME NEW type \in DoorTypes, EV_DoDoor(type) PROVE IInv'
    BY <1>1, NewDoorSound, UsesStay, CeilingSpawns DEF EV_DoDoor
  <1>2. ASSUME EV_DoGenLockedDoor PROVE IInv'
    <2>1. PICK type \in {"genRaise", "doorOpen"} : SpawnedOnCeiling(NewDoor(type), {})
      BY <1>2 DEF EV_DoGenLockedDoor
    <2>2. type \in DoorTypes
      BY DEF DoorTypes
    <2> QED
      BY <1>2, <2>1, <2>2, NewDoorSound, UsesStay, CeilingSpawns DEF EV_DoGenLockedDoor
  <1>3. ASSUME NEW type \in DoorTypes, PushNewDoor(type) PROVE IInv'
    <2> DEFINE gone == IF ceilingdata # NULL /\ MovingCeilingCompleted THEN {ceilingdata} ELSE {}
    <2>1. /\ Use("door") /\ MovingCeilingCompleted /\ floordata \in gone \cup {NULL}
          /\ SpawnedOnCeiling(NewDoor(type), gone)
      BY <1>3 DEF PushNewDoor
    <2>2. ceilingdata \in gone \cup {NULL} /\ NULL \notin gone
      BY <2>1
    <2> HIDE DEF gone
    <2> QED
      BY <2>1, <2>2, NewDoorSound, UsesStay, CeilingSpawns
  <1>4. ASSUME NEW player, PushMovingDoor(player) PROVE IInv'
    <2> DEFINE d == thinker[ceilingdata]
               status == IF d.status = "closing" THEN "reopening" ELSE "closing"
    <2>1. /\ ceilingdata # NULL /\ Use("door") /\ d.class = "door"
          /\ Becomes(ceilingdata, WithStatus(d, status))
          /\ UNCHANGED <<moving_ceiling, moving_floor, ran>>
      BY <1>4 DEF PushMovingDoor, WithStatus
    <2>2. ceilingdata \in Ids
      BY <2>1 DEF IInv, TypeOK
    <2>3. d \in Mover
      BY <2>1, <2>2 DEF IInv, SoundMover, NoMover
    <2>4. status \in Statuses /\ status \in {"reopening", "closing"}
      BY DEF Statuses
    <2> HIDE DEF status
    <2>5. /\ WithStatus(d, status) \in Mover /\ WithStatus(d, status).class = "door"
          /\ WithStatus(d, status).status = status
      BY <2>1, <2>3, <2>4, StatusChanges
    <2>6. WithStatus(d, status) \in SoundMover
      BY <2>4, <2>5, SoundDoor DEF SoundMover
    <2>7. /\ uses' \in 0..MaxUses /\ enters' \in 0..MaxEnters
          /\ floorheight' \in Heights /\ ceilingheight' \in Heights /\ thing' \in BOOLEAN
          /\ ran' \subseteq Ids
          /\ UNCHANGED <<co_boomphys, pointers>>
      BY <2>1, UsesStay DEF IInv, TypeOK, sector, pointers, Becomes
    <2>8. thinker' = [thinker EXCEPT ![ceilingdata] = WithStatus(d, status)]
      BY <2>1 DEF Becomes
    <2> QED
      BY <2>1, <2>2, <2>5, <2>6, <2>7, <2>8, RecordChanges
  <1> QED
    BY <1>1, <1>2, <1>3, <1>4

\* A new mover with two speeds at most and two heights to move between.
NewRecord(class, type, status, speed, low, high) ==
    [NoMover EXCEPT !.class = class, !.type = type, !.status = status, !.speed = speed,
       !.low = low, !.high = high]

LEMMA RecordIsMover ==
  ASSUME NEW class \in {"door", "plat", "ceiling", "floor", "pillar", "elevator"},
         NEW type \in MoverTypes, NEW status \in Statuses, NEW speed \in Heights,
         NEW low \in Heights, NEW high \in Heights
  PROVE  LET m == NewRecord(class, type, status, speed, low, high)
         IN  /\ m \in Mover
             /\ m.class = class
             /\ m.type = type
             /\ m.status = status
             /\ m.speed = speed
  <1>1. 0 \in Heights /\ 0 \in 0..Delay
    BY MoversAssumption DEF Heights
  <1> QED
    BY <1>1 DEF NewRecord, NoMover, Mover

LEMMA NewPlatSound ==
  ASSUME IInv, NEW type \in PlatTypes, NEW status \in {"up", "down"}
  PROVE  NewPlat(type, status) \in SoundMover /\ NewPlat(type, status).class = "plat"
  <1> DEFINE low == CASE type \in {"downWaitUpStay", "perpetual"} -> Least(LowFloor, floorheight)
                      [] type = "toggle" -> ceilingheight
                      [] OTHER -> floorheight
             high == IF type \in {"downWaitUpStay", "toggle"} THEN floorheight
                     ELSE Most(HighFloor, floorheight)
             speed == IF type = "toggle" THEN 0 ELSE 1
  <1>1. type \in MoverTypes /\ status \in Statuses
    BY DEF MoverTypes, Statuses
  <1>2. speed \in Heights /\ 0 \in Heights /\ 0 \in 0..Delay
    BY MoversAssumption DEF Heights
  <1>3. low \in Heights /\ high \in Heights
    <2>1. Least(LowFloor, floorheight) \in Heights /\ Most(HighFloor, floorheight) \in Heights
      BY HeightsAre, MoversAssumption DEF Least, Most, Heights
    <2> QED
      BY <2>1, HeightsAre DEF PlatTypes
  <1>4. NewPlat(type, status) = NewRecord("plat", type, status, speed, low, high)
    BY DEF NewPlat, NewRecord
  <1> HIDE DEF low, high, speed
  <1>5. NewPlat(type, status) \in Mover
    BY <1>1, <1>2, <1>3, <1>4, RecordIsMover
  <1>6. NewPlat(type, status).class = "plat" /\ NewPlat(type, status).status = status
    BY <1>1, <1>2, <1>3, <1>4, RecordIsMover
  <1> QED
    BY <1>5, <1>6, SoundPlat DEF SoundMover

\* Resuming and stopping.
LEMMA PlatResumes ==
  ASSUME NEW p \in SoundMover, p.class = "plat", p.status = "in_stasis"
  PROVE  Reactivated(p) \in SoundMover /\ Reactivated(p).class = "plat"
  <1> DEFINE status == IF p.type = "toggle" THEN IF p.old = "up" THEN "down" ELSE "up"
                       ELSE p.old
  <1>1. Reactivated(p) = WithStatus(p, status)
    BY DEF Reactivated, WithStatus
  <1>2. status \in Statuses \ {"in_stasis"}
    BY DEF SoundMover, Sound, Statuses
  <1>3. status = "waiting" => p.count > 0
    BY DEF SoundMover, Sound, CountsDown
  <1> HIDE DEF status
  <1>4. WithStatus(p, status) \in Mover /\ WithStatus(p, status).class = "plat"
    BY <1>2, StatusChanges DEF SoundMover
  <1>5. Sound(WithStatus(p, status))
    <2>1. WithStatus(p, status).status = status /\ WithStatus(p, status).count = p.count
      BY <1>2, StatusChanges DEF SoundMover
    <2> QED
      BY <1>2, <1>3, <1>4, <2>1 DEF Sound, CountsDown
  <1> QED
    BY <1>1, <1>4, <1>5 DEF SoundMover

LEMMA StopSound ==
  ASSUME NEW m \in SoundMover, m.class \in {"plat", "ceiling"}, m.status # "in_stasis"
  PROVE  Stop(m) \in SoundMover /\ Stop(m).class = m.class
  <1>1. m \in Mover /\ Sound(m)
    BY DEF SoundMover
  <1>2. m.status \in Statuses
    BY <1>1 DEF Mover
  <1>3. Sound(Stop(m))
    BY <1>1, <1>2, MoverStops DEF Sound, CountsDown
  <1> QED
    BY <1>1, <1>3, MoverStops DEF SoundMover

LEMMA PlatsStart ==
  ASSUME IInv
  PROVE  /\ \A type \in PlatTypes : EV_DoPlat(type) => IInv'
         /\ ReactivatePlats => IInv'
         /\ EV_StopPlat => IInv'
  <1>1. ASSUME NEW type \in PlatTypes, EV_DoPlat(type) PROVE IInv'
    <2>1. PICK status \in FirstStatuses(type) : SpawnedOnFloor(NewPlat(type, status))
      BY <1>1 DEF EV_DoPlat
    <2>2. status \in {"up", "down"}
      BY DEF FirstStatuses
    <2> QED
      BY <1>1, <2>1, <2>2, NewPlatSound, UsesStay, FloorSpawns DEF EV_DoPlat
  <1>2. ASSUME ReactivatePlats PROVE IInv'
    <2>1. /\ thinker' = [i \in Ids |-> IF i \in Stopped("plat") THEN Reactivated(thinker[i])
                                       ELSE thinker[i]]
          /\ UNCHANGED <<co_boomphys, sector, pointers, ran, bounds>>
      BY <1>2 DEF ReactivatePlats
    <2>2. \A i \in Stopped("plat") : /\ Reactivated(thinker[i]) \in SoundMover
                                     /\ Reactivated(thinker[i]).class = thinker[i].class
      <3> TAKE i \in Stopped("plat")
      <3>1. i \in Ids /\ thinker[i].class = "plat" /\ thinker[i].status = "in_stasis"
        BY DEF Stopped
      <3>2. thinker[i] \in SoundMover
        BY <3>1 DEF IInv, NoMover
      <3> QED
        BY <3>1, <3>2, PlatResumes
    <2> QED
      BY <2>1, <2>2, RecordsChange DEF IInv, TypeOK, sector, bounds
  <1>3. ASSUME EV_StopPlat PROVE IInv'
    <2> DEFINE stopped == {i \in Ids : thinker[i].class = "plat"} \ Stopped("plat")
    <2>1. /\ thinker' = [i \in Ids |-> IF i \in stopped THEN Stop(thinker[i]) ELSE thinker[i]]
          /\ Use("stop")
          /\ UNCHANGED <<pointers, ran>>
      BY <1>3 DEF EV_StopPlat, Stop
    <2>2. \A i \in stopped : /\ Stop(thinker[i]) \in SoundMover
                             /\ Stop(thinker[i]).class = thinker[i].class
      <3> TAKE i \in stopped
      <3>1. i \in Ids /\ thinker[i].class = "plat" /\ thinker[i].status # "in_stasis"
        BY DEF Stopped
      <3>2. thinker[i] \in SoundMover
        BY <3>1 DEF IInv, NoMover
      <3> QED
        BY <3>1, <3>2, StopSound
    <2> HIDE DEF stopped
    <2> QED
      BY <2>1, <2>2, UsesStay, RecordsChange DEF IInv, TypeOK, sector
  <1> QED
    BY <1>1, <1>2, <1>3

LEMMA NewCeilingSound ==
  ASSUME IInv, NEW type \in CeilingTypes, floorheight < Top
  PROVE  NewCeiling(type) \in SoundMover /\ NewCeiling(type).class = "ceiling"
  <1> DEFINE status == IF type = "raise" THEN "up" ELSE "down"
             low == IF type \in Crushers THEN floorheight + 1 ELSE floorheight
             high == IF type = "raise" THEN HighCeiling ELSE ceilingheight
             speed == IF type \in Crushers THEN FastSpeed ELSE 1
  <1>1. type \in MoverTypes /\ status \in Statuses
    BY DEF MoverTypes, Statuses
  <1>2. speed \in Heights /\ low \in Heights /\ high \in Heights
    BY HeightsAre, MoversAssumption DEF Heights, FastSpeed
  <1>3. NewCeiling(type) = NewRecord("ceiling", type, status, speed, low, high)
    BY DEF NewCeiling, NewRecord
  <1>4. type \in TurningCrushers => status = "down"
    BY DEF TurningCrushers, EndlessCrushers
  <1>5. status \in {"up", "down"}
    OBVIOUS
  <1> HIDE DEF status, low, high, speed
  <1>6. /\ NewCeiling(type) \in Mover /\ NewCeiling(type).class = "ceiling"
        /\ NewCeiling(type).status = status /\ NewCeiling(type).type = type
    BY <1>1, <1>2, <1>3, RecordIsMover
  <1>7. Sound(NewCeiling(type))
    BY <1>4, <1>5, <1>6, SoundCeiling
  <1> QED
    BY <1>6, <1>7 DEF SoundMover

LEMMA CeilingResumes ==
  ASSUME NEW c \in SoundMover, c.class = "ceiling", c.status = "in_stasis"
  PROVE  WithStatus(c, c.old) \in SoundMover /\ WithStatus(c, c.old).class = "ceiling"
  <1>1. c \in Mover /\ Sound(c) /\ c.old \in {"up", "down"} /\ c.old \in Statuses
    BY DEF SoundMover, Sound
  <1>2. /\ WithStatus(c, c.old) \in Mover /\ WithStatus(c, c.old).class = "ceiling"
        /\ WithStatus(c, c.old).status = c.old /\ WithStatus(c, c.old).type = c.type
        /\ WithStatus(c, c.old).speed = c.speed
    BY <1>1, StatusChanges
  <1>3. Sound(WithStatus(c, c.old))
    BY <1>1, <1>2, SoundCeiling DEF Sound
  <1> QED
    BY <1>2, <1>3 DEF SoundMover

LEMMA CeilingsStart ==
  ASSUME IInv
  PROVE  /\ \A type \in CeilingTypes : EV_DoCeiling(type) => IInv'
         /\ ReactivateCeilings => IInv'
         /\ EV_CeilingCrushStop => IInv'
  <1>1. ASSUME NEW type \in CeilingTypes, EV_DoCeiling(type) PROVE IInv'
    BY <1>1, NewCeilingSound, UsesStay, CeilingSpawns DEF EV_DoCeiling
  <1>2. ASSUME ReactivateCeilings PROVE IInv'
    <2>1. /\ thinker' = [i \in Ids |-> IF i \in Stopped("ceiling")
                                       THEN WithStatus(thinker[i], thinker[i].old)
                                       ELSE thinker[i]]
          /\ UNCHANGED <<co_boomphys, sector, pointers, ran, bounds>>
      BY <1>2 DEF ReactivateCeilings, WithStatus
    <2>2. \A i \in Stopped("ceiling") :
            /\ WithStatus(thinker[i], thinker[i].old) \in SoundMover
            /\ WithStatus(thinker[i], thinker[i].old).class = thinker[i].class
      <3> TAKE i \in Stopped("ceiling")
      <3>1. i \in Ids /\ thinker[i].class = "ceiling" /\ thinker[i].status = "in_stasis"
        BY DEF Stopped
      <3>2. thinker[i] \in SoundMover
        BY <3>1 DEF IInv, NoMover
      <3> QED
        BY <3>1, <3>2, CeilingResumes
    <2> QED
      BY <2>1, <2>2, RecordsChange DEF IInv, TypeOK, sector, bounds
  <1>3. ASSUME EV_CeilingCrushStop PROVE IInv'
    <2> DEFINE stopped == {i \in Ids : thinker[i].class = "ceiling"} \ Stopped("ceiling")
    <2>1. /\ thinker' = [i \in Ids |-> IF i \in stopped THEN Stop(thinker[i]) ELSE thinker[i]]
          /\ Use("stop")
          /\ UNCHANGED <<pointers, ran>>
      BY <1>3 DEF EV_CeilingCrushStop, Stop
    <2>2. \A i \in stopped : /\ Stop(thinker[i]) \in SoundMover
                             /\ Stop(thinker[i]).class = thinker[i].class
      <3> TAKE i \in stopped
      <3>1. i \in Ids /\ thinker[i].class = "ceiling" /\ thinker[i].status # "in_stasis"
        BY DEF Stopped
      <3>2. thinker[i] \in SoundMover
        BY <3>1 DEF IInv, NoMover
      <3> QED
        BY <3>1, <3>2, StopSound
    <2> HIDE DEF stopped
    <2> QED
      BY <2>1, <2>2, UsesStay, RecordsChange DEF IInv, TypeOK, sector
  <1> QED
    BY <1>1, <1>2, <1>3

LEMMA FloorsStart ==
  ASSUME IInv, NEW type \in FloorTypes, EV_DoFloor(type)
  PROVE  IInv'
  <1> DEFINE status == IF type = "lower" THEN "down" ELSE "up"
             high == IF type = "raiseAndCrush" THEN ceilingheight - 1 ELSE HighFloor
             m == NewRecord("floor", type, status, 1, LowFloor, high)
  <1>1. /\ Use("floor") /\ floordata = NULL /\ ceilingheight > 0
        /\ SpawnedOnFloor(m)
    BY DEF EV_DoFloor, NewRecord
  <1>2. type \in MoverTypes /\ status \in Statuses /\ status \in {"up", "down"}
    BY DEF MoverTypes, Statuses
  <1>3. 1 \in Heights /\ LowFloor \in Heights /\ high \in Heights
    BY <1>1, HeightsAre, MoversAssumption DEF Heights
  <1> HIDE DEF status, high
  <1>4. m \in Mover /\ m.class = "floor" /\ m.status = status
    BY <1>2, <1>3, RecordIsMover
  <1> HIDE DEF m
  <1>5. m \in SoundMover
    BY <1>2, <1>4, SoundOther DEF SoundMover
  <1> QED
    BY <1>1, <1>4, <1>5, UsesStay, FloorSpawns

LEMMA PillarSpeedsAre ==
  ASSUME NEW floordist \in Heights, NEW ceilingdist \in Heights
  PROVE  /\ PillarSpeeds(floordist, ceilingdist).floor \in Heights
         /\ PillarSpeeds(floordist, ceilingdist).ceiling \in Heights
  <1>1. Top \in Nat /\ 0 \in Heights /\ 1 \in Heights /\ Top \in Heights
    BY MoversAssumption DEF Heights
  <1>2. ASSUME floordist # 0 PROVE ceilingdist \div floordist \in Heights
    <2>1. floordist \in Nat \ {0} /\ ceilingdist \in Nat /\ ceilingdist <= Top
      BY <1>1, <1>2 DEF Heights
    <2>2. ceilingdist \div floordist \in Int
      BY <2>1
    <2>3. ceilingdist \div floordist >= 0 /\ ceilingdist \div floordist <= ceilingdist
      BY <2>1
    <2> QED
      BY <1>1, <2>1, <2>2, <2>3 DEF Heights
  <1> QED
    BY <1>1, <1>2 DEF PillarSpeeds

LEMMA NewPillarSound ==
  ASSUME IInv, NEW type \in PillarTypes, NEW low \in Heights, NEW high \in Heights,
         IF type = "pillarBuild" THEN floorheight <= low /\ high <= ceilingheight
         ELSE low <= floorheight /\ ceilingheight <= high
  PROVE  NewPillar(type, low, high) \in SoundMover /\ NewPillar(type, low, high).class = "pillar"
  <1> DEFINE speeds == IF type = "pillarBuild"
                       THEN PillarSpeeds(low - floorheight, ceilingheight - high)
                       ELSE PillarSpeeds(floorheight - low, high - ceilingheight)
             r == NewRecord("pillar", type, "init", speeds.floor, low, high)
  <1>1. speeds.floor \in Heights /\ speeds.ceiling \in Heights
    <2>1. CASE type = "pillarBuild"
      <3>1. low - floorheight \in Heights /\ ceilingheight - high \in Heights
        BY <2>1, HeightsAre, MoversAssumption DEF Heights
      <3> QED
        BY <2>1, <3>1, PillarSpeedsAre
    <2>2. CASE type # "pillarBuild"
      <3>1. floorheight - low \in Heights /\ high - ceilingheight \in Heights
        BY <2>2, HeightsAre, MoversAssumption DEF Heights
      <3> QED
        BY <2>2, <3>1, PillarSpeedsAre
    <2> QED
      BY <2>1, <2>2
  <1>2. type \in MoverTypes /\ "init" \in Statuses
    BY DEF MoverTypes, Statuses
  <1>3. NewPillar(type, low, high) = [r EXCEPT !.other = speeds.ceiling]
    BY DEF NewPillar, NewRecord, NoMover
  <1> HIDE DEF speeds
  <1>4. r \in Mover /\ r.class = "pillar" /\ r.status = "init"
    BY <1>1, <1>2, RecordIsMover
  <1> HIDE DEF r
  <1>5. /\ NewPillar(type, low, high) \in Mover
        /\ NewPillar(type, low, high).class = "pillar"
        /\ NewPillar(type, low, high).status = "init"
    BY <1>1, <1>3, <1>4 DEF Mover
  <1> QED
    BY <1>5, SoundOther DEF SoundMover

LEMMA BothStart ==
  ASSUME IInv
  PROVE  /\ \A type \in PillarTypes : EV_DoPillar(type) => IInv'
         /\ \A direction \in {"up", "down"} : EV_DoElevator(direction) => IInv'
  <1>1. ASSUME NEW type \in PillarTypes, EV_DoPillar(type) PROVE IInv'
    <2>1. PICK low \in Heights, high \in Heights :
            /\ IF type = "pillarBuild" THEN floorheight <= low /\ high <= ceilingheight
               ELSE low <= floorheight /\ ceilingheight <= high
            /\ SpawnedOnBoth(NewPillar(type, low, high), {})
      <3>1. CASE type = "pillarBuild"
        <4>1. PICK h \in {(floorheight + ceilingheight) \div 2, ceilingheight} :
                /\ floorheight < ceilingheight
                /\ SpawnedOnBoth(NewPillar(type, h, h), {})
          BY <1>1, <3>1 DEF EV_DoPillar
        <4>2. h \in Heights /\ floorheight <= h /\ h <= ceilingheight
          BY <4>1, HeightsAre, MoversAssumption DEF Heights
        <4> QED
          BY <3>1, <4>1, <4>2
      <3>2. CASE type # "pillarBuild"
        <4>1. /\ LowFloor <= floorheight /\ ceilingheight <= HighCeiling
              /\ SpawnedOnBoth(NewPillar(type, LowFloor, HighCeiling), {})
          BY <1>1, <3>2 DEF EV_DoPillar
        <4>2. LowFloor \in Heights /\ HighCeiling \in Heights
          BY MoversAssumption DEF Heights
        <4> QED
          BY <3>2, <4>1, <4>2
      <3> QED
        BY <3>1, <3>2
    <2>2. Use("pillar") /\ floordata = NULL /\ ceilingdata = NULL
      BY <1>1 DEF EV_DoPillar
    <2> QED
      BY <2>1, <2>2, NewPillarSound, UsesStay, BothSpawn
  <1>2. ASSUME NEW direction \in {"up", "down"}, EV_DoElevator(direction) PROVE IInv'
    <2> DEFINE gone == {i \in Ids : \/ i = ceilingdata /\ MovingCeilingCompleted
                                    \/ i = floordata /\ MovingFloorCompleted}
               dest == IF direction = "up" THEN Most(HighFloor, floorheight)
                       ELSE Least(LowFloor, floorheight)
               high == dest + ceilingheight - floorheight
               m == [NoMover EXCEPT !.class = "elevator", !.type = "elevator",
                       !.status = direction, !.low = dest, !.high = high, !.speed = 1]
    <2>1. /\ Use("elevator") /\ {ceilingdata, floordata} \subseteq gone \cup {NULL}
          /\ high \in Heights /\ SpawnedOnBoth(m, gone)
      BY <1>2 DEF EV_DoElevator
    <2>2. NULL \notin gone
      BY MoversAssumption DEF NULL
    <2>3. dest \in Heights /\ 1 \in Heights
      BY HeightsAre, MoversAssumption DEF Least, Most, Heights
    <2>4. "elevator" \in MoverTypes /\ direction \in Statuses
      BY DEF MoverTypes, Statuses
    <2>5. m = NewRecord("elevator", "elevator", direction, 1, dest, high)
      BY DEF NewRecord, NoMover
    <2> HIDE DEF gone, dest, high, m
    <2>6. m \in Mover /\ m.class = "elevator" /\ m.status = direction
      BY <2>1, <2>3, <2>4, <2>5, RecordIsMover
    <2>7. m \in SoundMover
      BY <2>6, SoundOther DEF SoundMover
    <2> QED
      BY <2>1, <2>2, <2>6, <2>7, UsesStay, BothSpawn
  <1> QED
    BY <1>1, <1>2

LEMMA Activations == ASSUME IInv, Activate PROVE IInv'
  BY DoorsStart, PlatsStart, CeilingsStart, FloorsStart, BothStart DEF Activate, DoorTypes

-----------------------------------------------------------------------------
(* The theorems *)

LEMMA ThingsMove ==
  ASSUME IInv, ThingEnters \/ ThingLeaves
  PROVE  IInv'
  <1>1. /\ thing' \in BOOLEAN /\ enters' \in 0..MaxEnters
        /\ UNCHANGED <<co_boomphys, floorheight, ceilingheight, thinker, pointers, ran, uses>>
    <2>1. CASE ThingEnters
      BY <2>1, MoversAssumption DEF ThingEnters, IInv, TypeOK
    <2>2. CASE ThingLeaves
      BY <2>2 DEF ThingLeaves, bounds, IInv, TypeOK
    <2> QED
      BY <2>1, <2>2
  <1>2. thinker' \in [Ids -> SoundMover \cup {NoMover}]
    BY <1>1 DEF IInv
  <1> QED
    BY <1>1, <1>2, RecordsChange DEF IInv, TypeOK

LEMMA Starts == ASSUME Init PROVE IInv
  <1> DEFINE late5 == [NoMover EXCEPT !.class = "door", !.type = "in5Mins", !.status = "init",
                         !.speed = 1, !.high = LowCeiling, !.count = Delay]
  <1>0. /\ FirstId \in Ids /\ FirstId # NULL
        /\ Top \in Nat /\ MaxUses \in Nat /\ MaxEnters \in Nat
        /\ Delay \in Nat \ {0} /\ 0 \in Heights /\ 1 \in Heights /\ LowCeiling \in Heights
    BY MoversAssumption DEF FirstId, NULL, Heights
  <1>1. late5 \in SoundMover /\ late5.class = "door"
    <2>1. "in5Mins" \in MoverTypes /\ "init" \in Statuses /\ Delay \in 0..Delay
      BY <1>0 DEF MoverTypes, Statuses
    <2>2. late5 \in Mover
      BY <1>0, <2>1 DEF NoMover, Mover
    <2>3. late5.class = "door" /\ late5.status = "init" /\ late5.count = Delay
      BY DEF NoMover
    <2> HIDE DEF late5
    <2> QED
      BY <1>0, <2>2, <2>3 DEF SoundMover, Sound, CountsDown
  <1>2. PICK late \in (Kinds \cap {"door"}) \cup {"none"} :
          /\ thinker = [i \in Ids |-> IF late = "door" /\ i = FirstId THEN late5 ELSE NoMover]
          /\ ceilingdata = IF late = "door" THEN FirstId ELSE NULL
          /\ moving_ceiling = (late = "door")
    BY DEF Init
  <1> HIDE DEF late5
  <1>3. floorheight \in Heights /\ ceilingheight \in Heights
    BY MoversAssumption DEF Init, Heights
  <1>4. thinker \in [Ids -> SoundMover \cup {NoMover}]
    BY <1>1, <1>2
  <1>5. TypeOK
    <2>1. thinker \in [Ids -> Mover \cup {NoMover}]
      BY <1>4 DEF SoundMover
    <2>2. ceilingdata \in Ids \cup {NULL} /\ floordata \in Ids \cup {NULL}
      BY <1>0, <1>2 DEF Init
    <2>3. /\ co_boomphys \in BOOLEAN /\ thing \in BOOLEAN
          /\ moving_ceiling \in BOOLEAN /\ moving_floor \in BOOLEAN
      BY <1>2 DEF Init
    <2>4. ran \subseteq Ids /\ uses \in 0..MaxUses /\ enters \in 0..MaxEnters
      BY <1>0 DEF Init
    <2> QED
      BY <1>3, <2>1, <2>2, <2>3, <2>4 DEF TypeOK
  <1>6. EveryMoverOwnsItsPlane
    BY <1>1, <1>2 DEF EveryMoverOwnsItsPlane, Live
  <1>7. PointersLead
    BY <1>0, <1>1, <1>2 DEF Init, PointersLead, CeilingClasses
  <1> QED
    BY <1>4, <1>5, <1>6, <1>7 DEF IInv

LEMMA Steps == ASSUME IInv, [Next]_vars PROVE IInv'
  <1>1. CASE Next
    BY <1>1, ThinkersRun, TicEnds, Activations, ThingsMove DEF Next
  <1>2. CASE UNCHANGED vars
    <2>1. /\ UNCHANGED <<co_boomphys, floorheight, ceilingheight, thing, thinker, ran, uses,
                         enters>>
          /\ UNCHANGED pointers
      BY <1>2 DEF vars, sector, bounds
    <2> QED
      BY <2>1, RecordsChange DEF IInv, TypeOK
  <1> QED
    BY <1>1, <1>2

LEMMA Inductive == Spec => []IInv
  BY Starts, Steps, PTL DEF Spec

\* Every variable keeps its type, whatever moves, stops and stands in the way: heights
\* stay in range and counts do not wrap.
THEOREM TypeCorrect == Spec => []TypeOK
  <1>1. IInv => TypeOK
    BY DEF IInv
  <1> QED
    BY <1>1, Inductive, PTL

\* The tests of the two pointers keep any two movers from the same plane.
THEOREM OwnPlanes == Spec => []EveryMoverOwnsItsPlane
  <1>1. IInv => EveryMoverOwnsItsPlane
    BY DEF IInv
  <1> QED
    BY <1>1, Inductive, PTL

\* The list of moving sectors has an entry for every mover the sector points at, and the
\* sector points at none that is gone.
THEOREM Listed == Spec => []MoversAreListed
  <1>1. ASSUME IInv PROVE MoversAreListed
    BY <1>1 DEF IInv, TypeOK, PointersLead, MoversAreListed, Live, NoMover, CeilingClasses,
         FloorClasses
  <1> QED
    BY <1>1, Inductive, PTL

\* A crusher is never left with its slow speed on the way up.
THEOREM Recovered == Spec => []CrushersRecover
  <1>1. ASSUME IInv PROVE CrushersRecover
    <2> SUFFICES ASSUME NEW i \in Ids, thinker[i].class = "ceiling",
                        thinker[i].type \in TurningCrushers,
                        "up" \in {thinker[i].status, thinker[i].old}
                 PROVE  thinker[i].speed = FastSpeed \/ thinker[i].status = "down"
      BY DEF CrushersRecover
    <2>1. Sound(thinker[i])
      BY <1>1 DEF IInv, SoundMover, NoMover
    <2> QED
      BY <2>1 DEF Sound
  <1> QED
    BY <1>1, Inductive, PTL

-----------------------------------------------------------------------------
(***************************************************************************)
(* Stairs                                                                  *)
(***************************************************************************)

\* Where a staircase can go from a sector.
Leads ==
    Lines \cup {<<Path[k], Path[k + 1]>> : k \in {j \in 1..Len(Path) - 1 : Path[1] \in BuildStarts}}

\* The first sector of EV_BuildStairs is neither locked nor are its links reset. It does
\* no harm where nothing else leads to it or begins there, it leads on to one sector only,
\* and no special between the first and the last can be busy.
FirstStepsApart ==
    /\ \A u \in BuildStarts : u \notin GenStarts /\ \A s \in Sectors : <<s, u>> \notin Leads
    /\ \A u \in BuildStarts : \A s, t \in Sectors : <<u, s>> \in Leads /\ <<u, t>> \in Leads => s = t
    /\ Path[1] \in BuildStarts => Len(Path) <= 2

\* The states of a lock.
Locks == {"building", "done", "free"}

\* The links of a locked sector lead there and back.
LinkedAt(s, lock, prev, next) ==
    /\ next[s] # Nobody => prev[next[s]] = s /\ lock[next[s]] # "free"
    /\ prev[s] # Nobody =>
         /\ next[prev[s]] = s
         /\ lock[prev[s]] # "free" \/ (prev[s] \in BuildStarts /\ <<prev[s], s>> \in Leads)

\* What holds of locks and links.
StairsOK(lock, prev, next) ==
    /\ lock \in [Sectors -> Locks]
    /\ prev \in [Sectors -> Sectors \cup {Nobody}]
    /\ next \in [Sectors -> Sectors \cup {Nobody}]
    /\ \A u \in BuildStarts : lock[u] = "free" /\ prev[u] = Nobody
    /\ \A s \in Sectors : lock[s] # "free" => LinkedAt(s, lock, prev, next)

StairsInv == StairsOK(stairlock, prevsec, nextsec)

-----------------------------------------------------------------------------
(* What can be reached.                                                    *)

\* What is reached is the smallest set that holds s and what its members lead to, and all
\* of it but s is led to.
LEMMA ReachIs ==
  ASSUME NEW step \in [Sectors -> Sectors], NEW s \in Sectors
  PROVE  /\ s \in Reach(step, s) /\ Reach(step, s) \in SUBSET Sectors
         /\ \A v \in Reach(step, s) : step[v] \in Reach(step, s)
         /\ \A S \in SUBSET Sectors :
               s \in S /\ (\A v \in S : step[v] \in S) => Reach(step, s) \subseteq S
         /\ \A t \in Reach(step, s) : t = s \/ (\E v \in Reach(step, s) : v # t /\ step[v] = t)
<1> DEFINE R == Reach(step, s)
           Closed(S) == \A v \in S : step[v] \in S
<1>1. \A t : t \in R <=> t \in Sectors /\ \A S \in SUBSET Sectors : Closed(S) /\ s \in S => t \in S
  BY DEF Reach
<1> HIDE DEF R
<1>2. s \in R /\ R \in SUBSET Sectors
  BY <1>1
<1>3. ASSUME NEW v \in R PROVE step[v] \in R
  <2>1. v \in Sectors /\ step[v] \in Sectors
    BY <1>2
  <2>2. \A S \in SUBSET Sectors : Closed(S) /\ s \in S => step[v] \in S
    BY <1>1
  <2> QED BY <1>1, <2>1, <2>2
<1>4. ASSUME NEW S \in SUBSET Sectors, s \in S, Closed(S) PROVE R \subseteq S
  BY <1>1, <1>4
<1>5. ASSUME NEW t \in R, t # s, ~ \E v \in R : v # t /\ step[v] = t PROVE FALSE
  <2>1. R \ {t} \in SUBSET Sectors /\ s \in R \ {t}
    BY <1>2, <1>5
  <2>2. Closed(R \ {t})
    BY <1>3, <1>5
  <2> QED BY <1>4, <1>5, <2>1, <2>2
<1> QED BY <1>2, <1>3, <1>4, <1>5 DEF R

\* A search stays where its links lead.
LEMMA SearchStays ==
  ASSUME NEW link \in [Sectors -> Sectors \cup {Nobody}], NEW locks, NEW s \in Sectors,
         NEW S \in SUBSET Sectors, s \in S,
         \A v \in S : link[v] # Nobody => link[v] \in S
  PROVE  Search(link, locks, s) \in S \cup {Nobody}
<1> DEFINE step == [t \in Sectors |-> IF link[t] = Nobody THEN t
                                     ELSE IF locks[link[t]] = "building" THEN t
                                     ELSE link[t]]
           ends == {t \in Reach(step, s) : step[t] = t}
<1>1. step \in [Sectors -> Sectors]
  OBVIOUS
<1>2. \A v \in S : step[v] \in S
  OBVIOUS
<1> HIDE DEF step
<1>3. Reach(step, s) \subseteq S
  BY <1>1, <1>2, ReachIs
<1>4. Search(link, locks, s) = IF ends = {} THEN Nobody ELSE CHOOSE t \in ends : TRUE
  BY DEF Search, step
<1> QED BY <1>3, <1>4

-----------------------------------------------------------------------------
(* Arriving.                                                               *)

\* Whoever clears the locks of a chain leaves no locked sector with a link into it.
LEMMA UnlockLinks ==
  ASSUME StairsInv, NEW s \in Sectors, stairlock[s] # "free", Unlock(s),
         UNCHANGED <<prevsec, nextsec>>
  PROVE  StairsInv'
<1> DEFINE locks == [stairlock EXCEPT ![s] = "done"]
           L == {t \in Sectors : stairlock[t] # "free"}
           step == [t \in Sectors |-> IF prevsec[t] = Nobody THEN t ELSE prevsec[t]]
<1>0. Nobody \notin Sectors /\ BuildStarts \subseteq Sectors
  BY StairsAssumption
<1>1. /\ stairlock \in [Sectors -> Locks]
      /\ prevsec \in [Sectors -> Sectors \cup {Nobody}]
      /\ nextsec \in [Sectors -> Sectors \cup {Nobody}]
      /\ \A u \in BuildStarts : stairlock[u] = "free" /\ prevsec[u] = Nobody
      /\ \A t \in L : LinkedAt(t, stairlock, prevsec, nextsec)
  BY DEF StairsInv, StairsOK
<1>13. ASSUME NEW t \in L, nextsec[t] # Nobody
       PROVE  nextsec[t] \in Sectors /\ prevsec[nextsec[t]] = t /\ nextsec[t] \in L
  <2>1. LinkedAt(t, stairlock, prevsec, nextsec)
    BY <1>1
  <2>2. nextsec[t] \in Sectors
    BY <1>1, <1>13
  <2> QED BY <1>13, <2>1, <2>2 DEF LinkedAt
<1>14. ASSUME NEW t \in L, prevsec[t] # Nobody
       PROVE  /\ prevsec[t] \in Sectors /\ nextsec[prevsec[t]] = t
              /\ \/ prevsec[t] \in L
                 \/ prevsec[t] \in BuildStarts /\ <<prevsec[t], t>> \in Leads
  <2>1. LinkedAt(t, stairlock, prevsec, nextsec)
    BY <1>1
  <2>2. prevsec[t] \in Sectors
    BY <1>1, <1>14
  <2> QED BY <1>14, <2>1, <2>2 DEF LinkedAt
<1>2. PICK first \in {Search(prevsec, locks, s)}, last \in {Search(nextsec, locks, s)} :
         LET noneBefore == first # Nobody /\ prevsec[first] = Nobody
             complete == noneBefore /\ last # Nobody /\ nextsec[last] = Nobody
             cleared == IF complete THEN Chain(last) ELSE {}
         IN  stairlock' = [t \in Sectors |-> IF t \in cleared THEN "free" ELSE locks[t]]
  BY DEF Unlock
<1> DEFINE complete == /\ first # Nobody /\ prevsec[first] = Nobody
                       /\ last # Nobody /\ nextsec[last] = Nobody
           R == IF complete THEN Chain(last) ELSE {}
<1>3. stairlock' = [t \in Sectors |-> IF t \in R THEN "free" ELSE locks[t]]
  BY <1>2
<1>4. complete => last \in L
  <2>1. \A v \in L : nextsec[v] # Nobody => nextsec[v] \in L
    BY <1>13
  <2>2. s \in L /\ L \in SUBSET Sectors
    OBVIOUS
  <2> HIDE DEF L, locks
  <2>3. Search(nextsec, locks, s) \in L \cup {Nobody}
    BY <1>1, <2>1, <2>2, SearchStays
  <2> QED BY <1>2, <2>3
<1>5. step \in [Sectors -> Sectors]
  BY <1>1
<1>6. complete =>
         /\ R \in SUBSET Sectors
         /\ R \subseteq L \cup BuildStarts
         /\ \A v \in R : step[v] \in R
         /\ \A t \in R : t = last \/ (\E v \in R : v # t /\ step[v] = t)
  <2> SUFFICES ASSUME complete
               PROVE  /\ R \in SUBSET Sectors
                      /\ R \subseteq L \cup BuildStarts
                      /\ \A v \in R : step[v] \in R
                      /\ \A t \in R : t = last \/ (\E v \in R : v # t /\ step[v] = t)
    OBVIOUS
  <2> DEFINE B == L \cup BuildStarts
  <2>1. R = Reach(step, last)
    BY DEF Chain
  <2>2. last \in L /\ last \in Sectors
    BY <1>4
  <2>3. \A v \in B : step[v] \in B
    <3>1. ASSUME NEW v \in L PROVE step[v] \in B
      BY <1>14
    <3>2. ASSUME NEW v \in BuildStarts PROVE step[v] \in B
      BY <1>0, <1>1
    <3> QED BY <3>1, <3>2
  <2>4. last \in B /\ B \in SUBSET Sectors
    BY <1>0, <2>2
  <2> HIDE DEF B, step, R, complete, L
  <2>5. R \subseteq B
    BY <1>5, <2>1, <2>2, <2>3, <2>4, ReachIs
  <2>6. R \in SUBSET Sectors /\ \A v \in R : step[v] \in R
    BY <1>5, <2>1, <2>2, ReachIs
  <2>7. \A t \in R : t = last \/ (\E v \in R : v # t /\ step[v] = t)
    BY <1>5, <2>1, <2>2, ReachIs
  <2> QED BY <2>5, <2>6, <2>7 DEF B
<1>7. stairlock' \in [Sectors -> Locks]
  <2>1. \A t \in Sectors : locks[t] \in Locks
    BY <1>1 DEF Locks
  <2>2. "free" \in Locks
    BY DEF Locks
  <2> HIDE DEF R, locks
  <2> QED BY <1>3, <2>1, <2>2
<1>8. \A t \in Sectors : stairlock'[t] # "free" <=> t \in L /\ t \notin R
  <2>1. \A t \in Sectors : locks[t] # "free" <=> t \in L
    BY <1>1
  <2> HIDE DEF R, locks
  <2> QED BY <1>3, <2>1
<1>9. \A v \in R : v \in L \cup BuildStarts /\ step[v] \in R
  BY <1>6
<1>10. complete \/ R = {}
  OBVIOUS
<1>11. \A u \in BuildStarts : stairlock'[u] = "free" /\ prevsec[u] = Nobody
  BY <1>0, <1>1, <1>8
<1> HIDE DEF R
<1>12. ASSUME NEW t \in Sectors, stairlock'[t] # "free"
       PROVE  LinkedAt(t, stairlock', prevsec, nextsec)
  <2>1. t \in L /\ t \notin R /\ LinkedAt(t, stairlock, prevsec, nextsec)
    BY <1>1, <1>8, <1>12
  <2>2. ASSUME nextsec[t] # Nobody
        PROVE  prevsec[nextsec[t]] = t /\ stairlock'[nextsec[t]] # "free"
    <3>1. /\ nextsec[t] \in Sectors /\ prevsec[nextsec[t]] = t
          /\ nextsec[t] \in L
      BY <1>1, <2>1, <2>2 DEF LinkedAt
    <3>2. step[nextsec[t]] = t
      BY <1>0, <3>1
    <3>3. nextsec[t] \notin R
      BY <1>9, <2>1, <3>2
    <3> QED BY <1>8, <3>1, <3>3
  <2>3. ASSUME prevsec[t] # Nobody
        PROVE  /\ nextsec[prevsec[t]] = t
               /\ \/ stairlock'[prevsec[t]] # "free"
                  \/ prevsec[t] \in BuildStarts /\ <<prevsec[t], t>> \in Leads
    <3> DEFINE u == prevsec[t]
    <3>1. u \in Sectors /\ nextsec[u] = t
      BY <1>1, <2>1, <2>3 DEF LinkedAt
    <3>2. CASE u \in BuildStarts /\ <<u, t>> \in Leads
      BY <3>1, <3>2
    <3>3. CASE u \in L
      <4>1. ASSUME u \in R PROVE FALSE
        <5>1. complete
          BY <1>10, <4>1
        <5>2. u # last
          BY <2>1, <3>1, <5>1, <1>0
        <5>3. PICK v \in R : v # u /\ step[v] = u
          BY <1>6, <4>1, <5>1, <5>2
        <5>4. v \in Sectors /\ prevsec[v] = u
          BY <1>6, <5>1, <5>3
        <5>5. v \in L
          BY <1>0, <1>1, <1>9, <3>1, <5>3, <5>4
        <5>6. nextsec[u] = v
          BY <1>0, <1>14, <3>1, <5>4, <5>5
        <5> QED BY <2>1, <3>1, <5>3, <5>6
      <4> QED BY <1>8, <3>1, <3>3, <4>1
    <3> QED BY <2>1, <2>3, <3>1, <3>2, <3>3 DEF LinkedAt
  <2> QED BY <2>2, <2>3 DEF LinkedAt
<1> QED BY <1>1, <1>7, <1>11, <1>12 DEF StairsInv, StairsOK

-----------------------------------------------------------------------------
(* Building.                                                               *)

\* Each later step comes after the one before it.
LEMMA PredecessorsAre ==
  ASSUME NEW n \in Nat, n >= 1, NEW c \in [1..n -> Sectors],
         \A j, k \in 1..n : c[j] = c[k] => j = k
  PROVE  /\ Len(c) = n /\ Range(c) = {c[k] : k \in 1..n}
         /\ DOMAIN Predecessors(c) = {c[k] : k \in 2..n}
         /\ \A k \in 2..n : Predecessors(c)[c[k]] = c[k - 1]
<1>1. c \in Seq(Sectors) /\ Len(c) = n /\ DOMAIN c = 1..n
  OBVIOUS
<1>2. Range(c) = {c[k] : k \in 1..n}
  BY <1>1 DEF Range
<1>3. Predecessors(c) = [t \in {c[k] : k \in 2..n} |-> c[(CHOOSE k \in 2..n : c[k] = t) - 1]]
  BY <1>1 DEF Predecessors
<1>4. ASSUME NEW k \in 2..n PROVE Predecessors(c)[c[k]] = c[k - 1]
  <2>1. (CHOOSE j \in 2..n : c[j] = c[k]) = k
    OBVIOUS
  <2>2. c[k] \in {c[j] : j \in 2..n}
    OBVIOUS
  <2> QED BY <1>3, <2>1, <2>2
<1> QED BY <1>1, <1>2, <1>3, <1>4

\* What a staircase is for the links: a chain of usable sectors that lead to each other.
Staircase(n, c) ==
    /\ n >= 1
    /\ \A j, k \in 1..n : c[j] = c[k] => j = k
    /\ \A k \in 1..n : Usable(c[k])
    /\ \A k \in 2..n : <<c[k - 1], c[k]>> \in Leads

\* What building a staircase does to locks and links.
Built(n, c, locked) ==
    /\ stairlock' \in [Sectors -> Locks]
    /\ prevsec' \in [Sectors -> Sectors \cup {Nobody}]
    /\ nextsec' \in [Sectors -> Sectors \cup {Nobody}]
    /\ \A k \in 2..n : stairlock'[c[k]] = "building" /\ prevsec'[c[k]] = c[k - 1]
    /\ \A k \in 1..n - 1 : nextsec'[c[k]] = c[k + 1]
    /\ n > 1 => nextsec'[c[n]] = Nobody
    /\ locked = {c[1]} => /\ stairlock'[c[1]] = "building" /\ prevsec'[c[1]] = Nobody
                          /\ n = 1 => nextsec'[c[1]] = Nobody
    /\ locked = {} => /\ stairlock'[c[1]] = stairlock[c[1]]
                      /\ prevsec'[c[1]] = prevsec[c[1]]
                      /\ n = 1 => nextsec'[c[1]] = nextsec[c[1]]
    /\ \A s \in Sectors \ {c[k] : k \in 1..n} :
          stairlock'[s] = stairlock[s] /\ prevsec'[s] = prevsec[s] /\ nextsec'[s] = nextsec[s]

\* A new staircase sets the locks and the links of its steps and of no other sector.
LEMMA BuildSets ==
  ASSUME StairsInv, NEW n \in Nat, NEW c \in [1..n -> Sectors], Staircase(n, c),
         NEW locked, locked \in {{}, {c[1]}}, NEW mover,
         Build(c, locked, Predecessors(c), mover)
  PROVE  Built(n, c, locked)
<1> DEFINE prev == Predecessors(c)
           later == DOMAIN prev
           next(s) == {t \in later : prev[t] = s}
<1>0. n >= 1 /\ \A j, k \in 1..n : c[j] = c[k] => j = k
  BY DEF Staircase
<1>1. /\ later = {c[k] : k \in 2..n}
      /\ \A k \in 2..n : prev[c[k]] = c[k - 1]
  BY <1>0, PredecessorsAre
<1>2. /\ stairlock \in [Sectors -> Locks]
      /\ prevsec \in [Sectors -> Sectors \cup {Nobody}]
      /\ nextsec \in [Sectors -> Sectors \cup {Nobody}]
  BY DEF StairsInv, StairsOK
<1>3. /\ stairlock' = [s \in Sectors |-> IF s \in later \cup locked THEN "building"
                                         ELSE stairlock[s]]
      /\ prevsec' = [s \in Sectors |-> IF s \in later THEN prev[s]
                                       ELSE IF s \in locked THEN Nobody ELSE prevsec[s]]
      /\ nextsec' = [s \in Sectors |-> IF next(s) # {} THEN CHOOSE t \in next(s) : TRUE
                                       ELSE IF s \in later \cup locked THEN Nobody
                                       ELSE nextsec[s]]
  BY Zenon DEF Build
<1> HIDE DEF prev, later
<1>4. ASSUME NEW k \in 1..n - 1 PROVE next(c[k]) = {c[k + 1]}
  <2>1. k + 1 \in 2..n /\ (k + 1) - 1 = k /\ k \in 1..n
    BY <1>0
  <2>2. c[k + 1] \in later /\ prev[c[k + 1]] = c[k]
    BY <1>1, <2>1
  <2>3. ASSUME NEW j \in 2..n, prev[c[j]] = c[k] PROVE c[j] = c[k + 1]
    <3>1. c[j - 1] = c[k] /\ j - 1 \in 1..n
      BY <1>0, <1>1, <2>3
    <3>2. j - 1 = k
      BY <1>0, <2>1, <3>1
    <3> QED BY <3>2
  <2> QED BY <1>1, <2>2, <2>3
<1>5. ASSUME NEW s \in Sectors, \A k \in 1..n - 1 : c[k] # s PROVE next(s) = {}
  <2>1. ASSUME NEW j \in 2..n PROVE prev[c[j]] # s
    <3>1. j - 1 \in 1..n - 1 /\ prev[c[j]] = c[j - 1]
      BY <1>0, <1>1
    <3> QED BY <1>5, <3>1
  <2> QED BY <1>1, <2>1
<1>6. \A k \in 1..n : c[k] \in Sectors
  OBVIOUS
<1>7. \A k \in 2..n : c[k] \in later /\ k \in 1..n /\ k - 1 \in 1..n
  BY <1>0, <1>1
<1>8. c[1] \notin later /\ c[1] \in Sectors
  BY <1>0, <1>1
<1>9. ASSUME NEW s \in Sectors, next(s) # {}
      PROVE  (CHOOSE t \in next(s) : TRUE) \in Sectors
  BY <1>1, <1>6, <1>7, <1>9
<1>10. \A s \in later : prev[s] \in Sectors
  BY <1>1, <1>6, <1>7
<1> HIDE DEF next
<1>11. /\ stairlock' \in [Sectors -> Locks]
       /\ prevsec' \in [Sectors -> Sectors \cup {Nobody}]
       /\ nextsec' \in [Sectors -> Sectors \cup {Nobody}]
  <2>1. stairlock' \in [Sectors -> Locks]
    BY <1>2, <1>3 DEF Locks
  <2>2. prevsec' \in [Sectors -> Sectors \cup {Nobody}]
    BY <1>2, <1>3, <1>10
  <2>3. nextsec' \in [Sectors -> Sectors \cup {Nobody}]
    BY <1>2, <1>3, <1>9
  <2> QED BY <2>1, <2>2, <2>3
<1>12. \A k \in 2..n : stairlock'[c[k]] = "building" /\ prevsec'[c[k]] = c[k - 1]
  BY <1>1, <1>3, <1>6, <1>7
<1>13. ASSUME NEW k \in 1..n - 1 PROVE nextsec'[c[k]] = c[k + 1]
  <2>1. k \in 1..n /\ next(c[k]) = {c[k + 1]}
    BY <1>0, <1>4
  <2> QED BY <1>3, <1>6, <2>1
<1>14. next(c[n]) = {}
  BY <1>0, <1>5, <1>6
<1>15. n > 1 => nextsec'[c[n]] = Nobody
  BY <1>0, <1>3, <1>6, <1>7, <1>14
<1>16. locked = {c[1]} => /\ stairlock'[c[1]] = "building" /\ prevsec'[c[1]] = Nobody
                          /\ n = 1 => nextsec'[c[1]] = Nobody
  BY <1>3, <1>8, <1>14
<1>17. locked = {} => /\ stairlock'[c[1]] = stairlock[c[1]] /\ prevsec'[c[1]] = prevsec[c[1]]
                      /\ n = 1 => nextsec'[c[1]] = nextsec[c[1]]
  BY <1>3, <1>8, <1>14
<1>18. ASSUME NEW s \in Sectors \ {c[k] : k \in 1..n}
       PROVE  stairlock'[s] = stairlock[s] /\ prevsec'[s] = prevsec[s] /\ nextsec'[s] = nextsec[s]
  <2>1. s \notin later /\ s \notin locked
    BY <1>0, <1>1, <1>18
  <2>2. next(s) = {}
    BY <1>0, <1>5, <1>18
  <2> QED BY <1>3, <2>1, <2>2
<1> QED BY <1>11, <1>12, <1>13, <1>15, <1>16, <1>17, <1>18 DEF Built

\* Locks and links are as they must be after it, where first steps are apart.
LEMMA BuildLinks ==
  ASSUME StairsInv, FirstStepsApart,
         NEW n \in Nat, NEW c \in [1..n -> Sectors], Staircase(n, c), NEW locked,
         \/ locked = {} /\ c[1] \in BuildStarts
         \/ locked = {c[1]} /\ c[1] \in GenStarts,
         NEW mover, Build(c, locked, Predecessors(c), mover)
  PROVE  StairsInv'
<1> DEFINE C == {c[k] : k \in 1..n}
<1>0. /\ Nobody \notin Sectors /\ BuildStarts \subseteq Sectors
      /\ n >= 1 /\ 1 \in 1..n /\ \A k \in 1..n : c[k] \in Sectors
      /\ \A k \in 2..n : k - 1 \in 1..n /\ k \in 1..n
      /\ \A k \in 1..n - 1 : k + 1 \in 2..n /\ k \in 1..n
  BY StairsAssumption DEF Staircase
<1>1. /\ stairlock \in [Sectors -> Locks]
      /\ prevsec \in [Sectors -> Sectors \cup {Nobody}]
      /\ nextsec \in [Sectors -> Sectors \cup {Nobody}]
      /\ \A u \in BuildStarts : stairlock[u] = "free" /\ prevsec[u] = Nobody
      /\ \A t \in Sectors : stairlock[t] # "free" => LinkedAt(t, stairlock, prevsec, nextsec)
  BY DEF StairsInv, StairsOK
<1>2. /\ \A k \in 1..n : stairlock[c[k]] = "free"
      /\ \A k \in 2..n : <<c[k - 1], c[k]>> \in Leads
  BY DEF Staircase, Usable
<1>3. /\ stairlock' \in [Sectors -> Locks]
      /\ prevsec' \in [Sectors -> Sectors \cup {Nobody}]
      /\ nextsec' \in [Sectors -> Sectors \cup {Nobody}]
      /\ \A k \in 2..n : stairlock'[c[k]] = "building" /\ prevsec'[c[k]] = c[k - 1]
      /\ \A k \in 1..n - 1 : nextsec'[c[k]] = c[k + 1]
      /\ n > 1 => nextsec'[c[n]] = Nobody
      /\ locked = {c[1]} => /\ stairlock'[c[1]] = "building" /\ prevsec'[c[1]] = Nobody
                            /\ n = 1 => nextsec'[c[1]] = Nobody
      /\ locked = {} => /\ stairlock'[c[1]] = stairlock[c[1]]
                        /\ prevsec'[c[1]] = prevsec[c[1]]
                        /\ n = 1 => nextsec'[c[1]] = nextsec[c[1]]
      /\ \A s \in Sectors \ C :
            stairlock'[s] = stairlock[s] /\ prevsec'[s] = prevsec[s] /\ nextsec'[s] = nextsec[s]
  <2>1. locked \in {{}, {c[1]}}
    OBVIOUS
  <2>2. Built(n, c, locked)
    BY <2>1, BuildSets
  <2> QED BY <2>2 DEF Built
<1>4. \A k \in 2..n : c[k] \notin BuildStarts
  BY <1>0, <1>2 DEF FirstStepsApart
<1>5. c[1] \in BuildStarts <=> locked = {}
  BY DEF FirstStepsApart
<1>6. ASSUME NEW u \in BuildStarts PROVE stairlock'[u] = "free" /\ prevsec'[u] = Nobody
  <2>1. CASE u \notin C
    BY <1>0, <1>1, <1>3, <2>1
  <2>2. CASE u \in C
    <3>1. PICK k \in 1..n : u = c[k]
      BY <2>2
    <3>2. k = 1
      BY <1>0, <1>4, <3>1
    <3> QED BY <1>1, <1>3, <1>5, <3>1, <3>2
  <2> QED BY <2>1, <2>2
<1>7. ASSUME NEW k \in 1..n, stairlock'[c[k]] # "free"
      PROVE  LinkedAt(c[k], stairlock', prevsec', nextsec')
  <2>1. ASSUME nextsec'[c[k]] # Nobody
        PROVE  /\ prevsec'[nextsec'[c[k]]] = c[k] /\ stairlock'[nextsec'[c[k]]] # "free"
    <3>1. k \in 1..n - 1
      <4>1. CASE n = 1
        <5>1. k = 1 /\ locked = {c[1]}
          BY <1>2, <1>3, <1>7, <4>1
        <5> QED BY <1>3, <2>1, <4>1, <5>1
      <4>2. CASE n > 1
        BY <1>0, <1>3, <2>1, <4>2
      <4> QED BY <1>0, <4>1, <4>2
    <3>2. nextsec'[c[k]] = c[k + 1] /\ k + 1 \in 2..n /\ (k + 1) - 1 = k
      BY <1>0, <1>3, <3>1
    <3> QED BY <1>3, <3>2
  <2>2. ASSUME prevsec'[c[k]] # Nobody
        PROVE  /\ nextsec'[prevsec'[c[k]]] = c[k]
               /\ \/ stairlock'[prevsec'[c[k]]] # "free"
                  \/ prevsec'[c[k]] \in BuildStarts /\ <<prevsec'[c[k]], c[k]>> \in Leads
    <3>1. k \in 2..n
      <4>1. k # 1
        BY <1>1, <1>2, <1>3, <1>5, <1>7, <2>2
      <4> QED BY <4>1
    <3>2. prevsec'[c[k]] = c[k - 1] /\ k - 1 \in 1..n - 1 /\ (k - 1) + 1 = k
      BY <1>0, <1>3, <3>1
    <3>3. nextsec'[c[k - 1]] = c[k]
      BY <1>3, <3>2
    <3>4. <<c[k - 1], c[k]>> \in Leads
      BY <1>2, <3>1
    <3>5. stairlock'[c[k - 1]] # "free" \/ c[k - 1] \in BuildStarts
      <4>1. CASE k - 1 \in 2..n
        BY <1>3, <4>1
      <4>2. CASE k - 1 = 1
        BY <1>3, <4>2, <1>5
      <4> QED BY <3>2, <4>1, <4>2
    <3> QED BY <3>2, <3>3, <3>4, <3>5
  <2> QED BY <2>1, <2>2 DEF LinkedAt
<1>8. ASSUME NEW s \in Sectors \ C, stairlock'[s] # "free"
      PROVE  LinkedAt(s, stairlock', prevsec', nextsec')
  <2>0. /\ stairlock[s] # "free" /\ LinkedAt(s, stairlock, prevsec, nextsec)
        /\ prevsec'[s] = prevsec[s] /\ nextsec'[s] = nextsec[s]
    BY <1>1, <1>3, <1>8
  <2>1. ASSUME nextsec[s] # Nobody
        PROVE  prevsec'[nextsec[s]] = s /\ stairlock'[nextsec[s]] # "free"
    <3>1. /\ nextsec[s] \in Sectors /\ prevsec[nextsec[s]] = s
          /\ stairlock[nextsec[s]] # "free"
      BY <1>1, <2>0, <2>1 DEF LinkedAt
    <3>2. nextsec[s] \notin C
      BY <1>2, <3>1
    <3> QED BY <1>3, <3>1, <3>2
  <2>2. ASSUME prevsec[s] # Nobody
        PROVE  /\ nextsec'[prevsec[s]] = s
               /\ \/ stairlock'[prevsec[s]] # "free"
                  \/ prevsec[s] \in BuildStarts /\ <<prevsec[s], s>> \in Leads
    <3> DEFINE u == prevsec[s]
    <3>1. /\ u \in Sectors /\ nextsec[u] = s
          /\ \/ stairlock[u] # "free"
             \/ u \in BuildStarts /\ <<u, s>> \in Leads
      BY <1>1, <2>0, <2>2 DEF LinkedAt
    <3>2. CASE u \notin C
      BY <1>3, <3>1, <3>2
    <3>3. CASE u \in C
      <4>1. PICK k \in 1..n : u = c[k]
        BY <3>3
      <4>2. u \in BuildStarts /\ <<u, s>> \in Leads
        BY <1>2, <3>1, <4>1
      <4>3. k = 1
        BY <1>0, <1>4, <4>1, <4>2
      <4>4. n = 1
        <5>1. SUFFICES ASSUME n > 1 PROVE FALSE
          BY <1>0
        <5>2. 2 \in 2..n /\ 2 - 1 = 1 /\ 2 \in 1..n
          BY <5>1
        <5>3. <<u, c[2]>> \in Leads /\ c[2] \in C
          BY <1>2, <4>1, <4>3, <5>2
        <5>4. s = c[2]
          BY <1>0, <4>2, <5>2, <5>3 DEF FirstStepsApart
        <5> QED BY <1>8, <5>3, <5>4
      <4>5. nextsec'[u] = nextsec[u]
        BY <1>3, <1>5, <4>1, <4>2, <4>3, <4>4
      <4> QED BY <3>1, <4>2, <4>5
    <3> QED BY <3>2, <3>3
  <2> QED BY <2>0, <2>1, <2>2 DEF LinkedAt
<1>9. ASSUME NEW s \in Sectors, stairlock'[s] # "free"
      PROVE  LinkedAt(s, stairlock', prevsec', nextsec')
  BY <1>7, <1>8, <1>9
<1> QED BY <1>3, <1>6, <1>9 DEF StairsInv, StairsOK

\* A staircase along lines is one.
LEMMA LineStairs ==
  ASSUME NEW start \in Sectors, Usable(start), NEW c \in Staircases(start)
  PROVE  \E n \in Nat : c \in [1..n -> Sectors] /\ Staircase(n, c) /\ c[1] = start
<1>1. PICK n \in 1..Cardinality(Sectors) : c \in [1..n -> {s \in Sectors : Usable(s)}]
  BY DEF Staircases
<1>2. /\ c[1] = start
      /\ \A k \in 2..Len(c) : c[k] \in Behind(c[k - 1], {c[j] : j \in 1..k - 1})
  BY DEF Staircases
<1>3. n \in Nat /\ n >= 1 /\ Len(c) = n
  <2>1. Cardinality(Sectors) \in Nat
    BY StairsAssumption, FS_CardinalityType
  <2>2. n \in Nat /\ n >= 1
    BY <2>1
  <2> QED BY <1>1, <2>2
<1>4. ASSUME NEW k \in 2..n
      PROVE  <<c[k - 1], c[k]>> \in Lines /\ \A j \in 1..k - 1 : c[j] # c[k]
  BY <1>2, <1>3 DEF Behind
<1>5. ASSUME NEW j \in 1..n, NEW k \in 1..n, c[j] = c[k] PROVE j = k
  <2>1. ~ (j < k)
    <3> SUFFICES ASSUME j < k PROVE FALSE
      OBVIOUS
    <3>1. k \in 2..n /\ j \in 1..k - 1
      BY <1>3
    <3> QED BY <1>4, <1>5, <3>1
  <2>2. ~ (k < j)
    <3> SUFFICES ASSUME k < j PROVE FALSE
      OBVIOUS
    <3>1. j \in 2..n /\ k \in 1..j - 1
      BY <1>3
    <3> QED BY <1>4, <1>5, <3>1
  <2> QED BY <1>3, <2>1, <2>2
<1>6. \A k \in 1..n : Usable(c[k]) /\ c[k] \in Sectors
  BY <1>1
<1>7. c \in [1..n -> Sectors]
  BY <1>1
<1>8. Staircase(n, c)
  BY <1>3, <1>4, <1>5, <1>6 DEF Staircase, Leads
<1> QED BY <1>2, <1>3, <1>7, <1>8

\* A staircase along the specials has one step or two.
LEMMA OneOrTwo == ASSUME NEW m \in Nat, m > 0, m <= 2 PROVE m \in {1, 2}
OBVIOUS

\* Of two specials the first is the first step, and the second, if it is usable, the other.
LEMMA PathStepsAre ==
  ASSUME Len(Path) <= 2, Usable(Path[1])
  PROVE  \E n \in {1, 2} : /\ n <= Len(Path) /\ PathSteps = [k \in 1..n |-> k]
                           /\ \A k \in 1..n : Usable(Path[k])
<1> DEFINE usable == {k \in 1..Len(Path) : Usable(Path[k])}
           Up(f) == \A j, k \in DOMAIN f : j < k => f[j] < f[k]
<1>1. Len(Path) \in {1, 2}
  <2>1. Path \in Seq(Sectors) /\ Len(Path) > 0
    BY StairsAssumption
  <2>2. Len(Path) \in Nat
    BY <2>1, LenProperties
  <2> QED BY <2>1, <2>2, OneOrTwo
<1>2. PICK n \in {1, 2} : usable = 1..n /\ n <= Len(Path)
  <2>1. usable = 1..1 \/ (usable = 1..2 /\ Len(Path) = 2)
    BY <1>1
  <2> QED BY <1>1, <2>1
<1>3. Cardinality(usable) = n
  <2> HIDE DEF usable
  <2>1. 1 \in Int /\ n \in Int /\ n - 1 + 1 = n /\ ~ (1 > n)
    OBVIOUS
  <2>2. Cardinality(1..n) = IF 1 > n THEN 0 ELSE n - 1 + 1
    BY <2>1, FS_Interval
  <2> QED BY <1>2, <2>1, <2>2
<1>4. \A k \in 1..n : Usable(Path[k])
  BY <1>2
<1>5. PathSteps = CHOOSE f \in [1..Cardinality(usable) -> usable] : Up(f)
  BY DEF PathSteps
<1> HIDE DEF usable
<1>6. PathSteps = CHOOSE f \in [1..n -> 1..n] : Up(f)
  BY <1>2, <1>3, <1>5
<1>7. PathSteps \in [1..n -> 1..n] /\ Up(PathSteps)
  <2>1. [k \in 1..n |-> k] \in [1..n -> 1..n] /\ Up([k \in 1..n |-> k])
    OBVIOUS
  <2> HIDE DEF Up
  <2> QED BY <1>6, <2>1
<1>8. \A k \in 1..n : PathSteps[k] = k
  <2>1. CASE n = 1
    BY <1>7, <2>1
  <2>2. CASE n = 2
    <3>1. PathSteps[1] < PathSteps[2] /\ PathSteps[1] \in 1..2 /\ PathSteps[2] \in 1..2
      BY <1>7, <2>2
    <3> QED BY <2>2, <3>1
  <2> QED BY <2>1, <2>2
<1>9. PathSteps = [k \in 1..n |-> k]
  BY <1>7, <1>8
<1> QED BY <1>2, <1>4, <1>9

\* The step at which c has t.
StepAt(c, t) == CHOOSE k \in 2..Len(c) : c[k] = t

\* The first n sectors of the specials, each linked to from the one before.
AlongSpecials(n, c, before) ==
    /\ c = [k \in 1..n |-> Path[k]]
    /\ before = [t \in {c[k] : k \in 2..Len(c)} |-> Path[StepAt(c, t) - 1]]

\* A staircase along two specials is one, too, and leads back from each step to where
\* it leads forward from.
LEMMA SpecialStairs ==
  ASSUME FirstStepsApart, Path[1] \in BuildStarts, NEW n \in {1, 2}, n <= Len(Path),
         \A k \in 1..n : Usable(Path[k]),
         NEW c, NEW before, AlongSpecials(n, c, before)
  PROVE  /\ before = Predecessors(c) /\ c[1] = Path[1]
         /\ c \in [1..n -> Sectors] /\ Staircase(n, c)
<1>1. /\ Path \in Seq(Sectors) /\ Len(Path) \in Nat /\ Len(Path) <= 2
      /\ \A k \in 1..n : k \in 1..Len(Path) /\ Path[k] \in Sectors
  BY StairsAssumption DEF FirstStepsApart
<1>2. /\ c \in [1..n -> Sectors] /\ Len(c) = n /\ c[1] = Path[1]
      /\ \A k \in 1..n : c[k] = Path[k]
  BY <1>1 DEF AlongSpecials
<1>3. n = 2 => c[2] \notin BuildStarts /\ <<c[1], c[2]>> \in Leads
  <2> SUFFICES ASSUME n = 2 PROVE c[2] \notin BuildStarts /\ <<c[1], c[2]>> \in Leads
    OBVIOUS
  <2>1. Len(Path) = 2 /\ c[1] = Path[1] /\ c[2] = Path[2] /\ c[1] \in Sectors
    BY <1>1, <1>2
  <2>2. 1 \in {j \in 1..Len(Path) - 1 : Path[1] \in BuildStarts}
    BY <2>1
  <2>3. <<Path[1], Path[1 + 1]>> \in Leads
    BY <2>2 DEF Leads
  <2>4. <<c[1], c[2]>> \in Leads
    BY <2>1, <2>3
  <2> QED BY <2>1, <2>4 DEF FirstStepsApart
<1>4. Staircase(n, c)
  <2>1. \A k \in 1..n : Usable(c[k])
    BY <1>2
  <2>2. c[1] \in BuildStarts
    BY <1>2
  <2>3. \A j, k \in 1..n : c[j] = c[k] => j = k
    BY <1>3, <2>2
  <2>4. ASSUME NEW k \in 2..n PROVE <<c[k - 1], c[k]>> \in Leads
    <3>1. k = 2 /\ n = 2 /\ k - 1 = 1
      OBVIOUS
    <3> QED BY <1>3, <3>1
  <2> QED BY <2>1, <2>3, <2>4 DEF Staircase
<1>5. before = Predecessors(c)
  <2> DEFINE later == {c[k] : k \in 2..Len(c)}
  <2>1. ASSUME NEW t \in later PROVE Path[StepAt(c, t) - 1] = c[StepAt(c, t) - 1]
    <3>1. StepAt(c, t) \in 2..n
      BY <1>2 DEF StepAt
    <3>2. StepAt(c, t) - 1 \in 1..n
      BY <3>1
    <3> QED BY <1>2, <3>2
  <2>2. before = [t \in later |-> Path[StepAt(c, t) - 1]]
    BY DEF AlongSpecials
  <2>3. Predecessors(c) = [t \in later |-> c[StepAt(c, t) - 1]]
    BY Zenon DEF Predecessors, StepAt
  <2> HIDE DEF later
  <2> QED BY <2>1, <2>2, <2>3, Zenon
<1> QED BY <1>2, <1>4, <1>5

-----------------------------------------------------------------------------
(* The theorem.                                                            *)

\* At the start no sector is locked.
LEMMA StairsStart == StairsInit => StairsInv
<1> SUFFICES ASSUME StairsInit PROVE StairsInv
  OBVIOUS
<1>1. "free" \in Locks
  BY DEF Locks
<1> QED BY <1>1, StairsAssumption DEF StairsInit, StairsInv, StairsOK, LinkedAt

\* Every step of the floors keeps the links of locked sectors.
LEMMA StairsStep == ASSUME FirstStepsApart, StairsInv, [StairsNext]_stairvars PROVE StairsInv'
<1>0. BuildStarts \subseteq Sectors /\ GenStarts \subseteq Sectors
  BY StairsAssumption
<1>1. ASSUME NEW start \in BuildStarts, EV_BuildStairs(start) PROVE StairsInv'
  <2>1. PICK c \in Staircases(start), reset \in Resets :
           Build(c, {}, Predecessors(c), MoverOf(reset))
    BY <1>1 DEF EV_BuildStairs
  <2>2. PICK n \in Nat : c \in [1..n -> Sectors] /\ Staircase(n, c) /\ c[1] = start
    BY <1>0, <1>1, LineStairs DEF EV_BuildStairs
  <2> QED BY <2>1, <2>2, BuildLinks
<1>2. ASSUME EV_BuildSpecialStairs PROVE StairsInv'
  <2> DEFINE c == [k \in DOMAIN PathSteps |-> Path[PathSteps[k]]]
             before == [t \in {c[k] : k \in 2..Len(c)} |->
                           Path[PathSteps[CHOOSE k \in 2..Len(c) : c[k] = t] - 1]]
  <2>1. /\ Usable(Path[1]) /\ Path[1] \in BuildStarts
        /\ \E reset \in Resets : Build(c, {}, before, MoverOf(reset))
    BY <1>2 DEF EV_BuildSpecialStairs
  <2>2. PICK reset \in Resets : Build(c, {}, before, MoverOf(reset))
    BY <2>1
  <2>3. PICK n \in {1, 2} : /\ n <= Len(Path) /\ PathSteps = [k \in 1..n |-> k]
                            /\ \A k \in 1..n : Usable(Path[k])
    BY <2>1, PathStepsAre DEF FirstStepsApart
  <2>4. c = [k \in 1..n |-> Path[k]] /\ Len(c) = n
    BY <2>3
  <2>5. AlongSpecials(n, c, before)
    <3> DEFINE later == {c[k] : k \in 2..Len(c)}
    <3>1. before = [t \in later |-> Path[PathSteps[StepAt(c, t)] - 1]]
      BY Zenon DEF StepAt
    <3>2. ASSUME NEW t \in later PROVE PathSteps[StepAt(c, t)] = StepAt(c, t)
      <4> HIDE DEF c, before
      <4>1. StepAt(c, t) \in 2..n
        BY <2>4 DEF StepAt
      <4>2. StepAt(c, t) \in 1..n
        BY <4>1
      <4> QED BY <2>3, <4>2
    <3> HIDE DEF c, before, later
    <3>3. before = [t \in later |-> Path[StepAt(c, t) - 1]]
      BY <3>1, <3>2, Zenon
    <3> QED BY <2>4, <3>3 DEF AlongSpecials, later
  <2> HIDE DEF before, c
  <2>6. /\ before = Predecessors(c) /\ c[1] = Path[1]
        /\ c \in [1..n -> Sectors] /\ Staircase(n, c)
    BY <2>1, <2>3, <2>4, <2>5, SpecialStairs
  <2>7. Build(c, {}, Predecessors(c), MoverOf(reset)) /\ n \in Nat
    BY <2>2, <2>6
  <2> QED BY <2>1, <2>6, <2>7, BuildLinks
<1>3. ASSUME NEW start \in GenStarts, EV_DoGenStairs(start) PROVE StairsInv'
  <2>1. PICK c \in Staircases(start) : Build(c, {start}, Predecessors(c), "stair")
    BY <1>3 DEF EV_DoGenStairs
  <2>2. PICK n \in Nat : c \in [1..n -> Sectors] /\ Staircase(n, c) /\ c[1] = start
    BY <1>0, <1>3, LineStairs DEF EV_DoGenStairs
  <2> QED BY <1>3, <2>1, <2>2, BuildLinks
<1>4. ASSUME UNCHANGED <<stairlock, prevsec, nextsec>> PROVE StairsInv'
  BY <1>4 DEF StairsInv
<1>5. ASSUME NEW s \in Sectors, Arrives(s) PROVE StairsInv'
  <2>1. UNCHANGED <<prevsec, nextsec>>
    BY <1>5 DEF Arrives
  <2>2. (stairlock[s] = "building" /\ Unlock(s)) \/ UNCHANGED stairlock
    BY <1>5 DEF Arrives
  <2> QED BY <1>4, <2>1, <2>2, UnlockLinks
<1> QED
  BY <1>1, <1>2, <1>3, <1>4, <1>5 DEF StairsNext, stairvars, DoPlainFloor, DestroyFinished

\* The links of a locked step lead there and back, however many staircases are begun,
\* again or at several of their sectors, and in whatever order their steps arrive
\* (DFloor::RunThink, EV_BuildStairs, EV_DoGenStairs). FirstStepsApart is needed since
\* EV_BuildStairs locks every step but the first: TLC finds a violation without any part.
THEOREM ChainLinked == ASSUME FirstStepsApart PROVE StairsSpec => []ChainIsLinked
<1>1. StairsInv => ChainIsLinked
  BY DEF StairsInv, StairsOK, LinkedAt, ChainIsLinked
<1>2. StairsInv /\ [StairsNext]_stairvars => StairsInv'
  BY StairsStep
<1> QED BY <1>1, <1>2, StairsStart, PTL DEF StairsSpec

=============================================================================
