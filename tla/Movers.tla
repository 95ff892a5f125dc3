-------------------------------- MODULE Movers --------------------------------
(***************************************************************************)
(* The moving floors and ceilings of one tagged sector on the server:      *)
(* doors, platforms, crushers, floors, pillars and elevators.  Each is a   *)
(* thinker that runs once in a tic; the sector points at the thinker of    *)
(* its floor and of its ceiling, and the list of moving sectors says what  *)
(* the clients are told and what is destroyed at the end of the tic.       *)
(* Lines, scripts and players start, turn, stop and resume movers between  *)
(* any two thinkers of a tic.  The heights around the sector stay.         *)
(***************************************************************************)
EXTENDS Integers, FiniteSets

CONSTANTS
    Ids,            \* names of thinkers
    Top,            \* heights are 0..Top
    LowFloor,       \* lowest floor around the sector
    HighFloor,      \* highest floor around it
    LowCeiling,     \* lowest ceiling around it, less the lip of a door
    HighCeiling,    \* highest ceiling around it
    ThingHeight,    \* height of what stands in the sector
    Delay,          \* m_TopWait and m_Wait
    Kinds,          \* the movers this instance starts
    MaxUses,        \* bound on activations
    MaxEnters,      \* bound on things that step into the sector
    InitPlanes      \* heights of floor and ceiling when the level starts

ASSUME MoversAssumption ==
    /\ Ids # {} /\ 0 \notin Ids
    /\ {LowFloor, HighFloor, LowCeiling, HighCeiling} \subseteq 0..Top
    /\ LowFloor <= HighFloor /\ LowCeiling <= HighCeiling
    /\ {Top, ThingHeight, Delay} \subseteq Nat \ {0} /\ Top > 1
    /\ {MaxUses, MaxEnters} \subseteq Nat
    /\ InitPlanes \subseteq (0..Top) \X (0..Top)

VARIABLES
    co_boomphys,      \* planes are kept from crossing, things do not block a lowering floor
    floorheight, ceilingheight,
    thing,            \* something solid stands in the sector
    thinker,          \* the movers
    ceilingdata, floordata,         \* the sector's pointers: an id, or NULL
    moving_ceiling, moving_floor,   \* the sector's entry of movingsectors
    ran,              \* thinkers that have run in this tic
    uses, enters

sector == <<floorheight, ceilingheight, thing>>
pointers == <<ceilingdata, floordata, moving_ceiling, moving_floor>>
bounds == <<uses, enters>>
vars == <<co_boomphys, sector, thinker, pointers, ran, bounds>>

NULL == 0

Heights == 0..Top

\* The types of movers, one of each kind of behavior.
DoorTypes ==
    {"doorRaise", "genRaise", "doorOpen", "doorClose", "closeWaitOpen", "waitRaise",
     "waitClose"}
PlatTypes == {"downWaitUpStay", "upWaitDownStay", "raiseAndStay", "perpetual", "toggle"}

\* The ceilings that crush, those that go on until they are stopped, those that turn at
\* the bottom, and those that an obstacle slows down.
Crushers == {"crushAndRaise", "fastCrushAndRaise", "crushRaiseAndStay", "lowerAndCrush"}
EndlessCrushers == {"crushAndRaise", "fastCrushAndRaise"}
TurningCrushers == EndlessCrushers \cup {"crushRaiseAndStay"}
SlowedCrushers == Crushers \ {"fastCrushAndRaise"}

CeilingTypes == Crushers \cup {"lower", "raise"}
FloorTypes == {"lower", "raise", "raiseAndCrush"}
PillarTypes == {"pillarBuild", "pillarOpen"}
MoverTypes == DoorTypes \cup PlatTypes \cup CeilingTypes \cup FloorTypes \cup PillarTypes
                \cup {"in5Mins", "elevator"}

\* A mover.  low and high are the heights it moves between or to: m_Low and m_High of a
\* platform, m_BottomHeight and m_TopHeight of a ceiling, the targets of the floor and
\* of the ceiling of a pillar or an elevator.  status is m_Status, or the direction of
\* those that have none; old is what a stopped one resumes.
NoMover ==
    [class |-> "none", type |-> "none", status |-> "none", old |-> "none", low |-> 0,
     high |-> 0, speed |-> 0, other |-> 0, count |-> 0]

Statuses ==
    {"init", "opening", "reopening", "waiting", "closing", "finished", "destroy",
     "up", "down", "in_stasis"}

Mover ==
    [class : {"door", "plat", "ceiling", "floor", "pillar", "elevator"},
     type : MoverTypes, status : Statuses, old : Statuses \cup {"none"}, low : Heights,
     high : Heights, speed : Heights, other : Heights, count : 0..Delay]

Live(i) == thinker[i] # NoMover

-----------------------------------------------------------------------------
(* MovePlane: the new height and the result of one step of a plane.  A step that leaves
   the thing no room is refused, unless a crusher takes it. *)

NoRoom(floor, ceiling) == thing /\ ceiling - floor < ThingHeight

Least(a, b) == IF a <= b THEN a ELSE b
Most(a, b) == IF a >= b THEN a ELSE b

\* A bug to catch: the last step goes past the destination.
LowerFloorPast(floor, ceiling, speed, dest) ==
    [height |-> IF NoRoom(floor - speed, ceiling) THEN floor ELSE floor - speed,
     res |-> IF floor - speed < dest THEN "pastdest" ELSE "ok"]

LowerFloor(floor, ceiling, speed, dest) ==
    IF floor - speed < dest
    THEN [height |-> IF NoRoom(dest, ceiling) THEN floor ELSE dest, res |-> "pastdest"]
    ELSE IF NoRoom(floor - speed, ceiling) /\ ~co_boomphys
         THEN [height |-> floor, res |-> "crushed"]
         ELSE [height |-> floor - speed, res |-> "ok"]

RaiseFloor(floor, ceiling, speed, target, crush) ==
    LET dest == IF co_boomphys THEN Least(target, ceiling) ELSE target IN
    IF floor + speed > dest
    THEN [height |-> IF NoRoom(dest, ceiling) THEN floor ELSE dest, res |-> "pastdest"]
    ELSE IF NoRoom(floor + speed, ceiling)
         THEN [height |-> IF crush /\ ~co_boomphys THEN floor + speed ELSE floor,
               res |-> "crushed"]
         ELSE [height |-> floor + speed, res |-> "ok"]

LowerCeiling(floor, ceiling, speed, target, crush) ==
    LET dest == IF co_boomphys THEN Most(target, floor) ELSE target IN
    IF ceiling - speed < dest
    THEN [height |-> IF NoRoom(floor, dest) THEN ceiling ELSE dest, res |-> "pastdest"]
    ELSE IF NoRoom(floor, ceiling - speed)
         THEN [height |-> IF crush THEN ceiling - speed ELSE ceiling, res |-> "crushed"]
         ELSE [height |-> ceiling - speed, res |-> "ok"]

RaiseCeiling(floor, ceiling, speed, dest) ==
    IF ceiling + speed > dest
    THEN [height |-> IF NoRoom(floor, dest) THEN ceiling ELSE dest, res |-> "pastdest"]
    ELSE [height |-> ceiling + speed, res |-> "ok"]

-----------------------------------------------------------------------------
(* Thinkers *)

\* The thinker i, of class c and with one of the statuses s, has its turn.
Turn(i, c, s) ==
    /\ i \notin ran
    /\ thinker[i].class = c
    /\ thinker[i].status \in s
    /\ ran' = ran \cup {i}
    /\ UNCHANGED <<co_boomphys, thing, moving_ceiling, moving_floor, bounds>>

\* The thinker goes on as m.
Becomes(i, m) ==
    /\ thinker' = [thinker EXCEPT ![i] = m]
    /\ UNCHANGED <<ceilingdata, floordata>>

\* DSectorEffect::Destroy: the sector forgets a destroyed mover.
Forget(i) ==
    /\ ceilingdata' = IF ceilingdata = i THEN NULL ELSE ceilingdata
    /\ floordata' = IF floordata = i THEN NULL ELSE floordata

Destroyed(i) ==
    /\ thinker' = [thinker EXCEPT ![i] = NoMover]
    /\ Forget(i)

CeilingMoves(to) == ceilingheight' = to.height /\ UNCHANGED floorheight
FloorMoves(to) == floorheight' = to.height /\ UNCHANGED ceilingheight
PlanesRest == UNCHANGED <<floorheight, ceilingheight>>

DoorAfterWait(d) ==
    CASE d.type \in {"doorRaise", "genRaise"} -> [d EXCEPT !.status = "closing"]
      [] d.type = "closeWaitOpen" -> [d EXCEPT !.status = "opening"]
      [] OTHER -> d

DoorWaits(i) ==
    LET d == [thinker[i] EXCEPT !.count = @ - 1] IN
    /\ Turn(i, "door", {"waiting"})
    /\ PlanesRest
    /\ Becomes(i, IF d.count = 0 THEN DoorAfterWait(d) ELSE d)

\* A door spawned with the level to open after five minutes.
DoorWaitsFirst(i) ==
    LET d == [thinker[i] EXCEPT !.count = @ - 1] IN
    /\ Turn(i, "door", {"init"})
    /\ PlanesRest
    /\ Becomes(i, IF d.count = 0
                  THEN [d EXCEPT !.type = "doorRaise", !.status = "opening"]
                  ELSE d)

DoorFinishes(i) ==
    /\ Turn(i, "door", {"finished", "destroy"})
    /\ PlanesRest
    /\ Becomes(i, [thinker[i] EXCEPT !.status = "destroy"])

DoorCloses(i) ==
    LET d == thinker[i]
        to == LowerCeiling(floorheight, ceilingheight, d.speed, floorheight, FALSE)
    IN  /\ Turn(i, "door", {"closing"})
        /\ CeilingMoves(to)
        /\ Becomes(i,
             CASE to.res = "pastdest" /\ d.type = "closeWaitOpen" ->
                    [d EXCEPT !.status = "waiting", !.count = Delay]
               [] to.res = "pastdest" /\ d.type \in {"doorRaise", "genRaise", "doorClose"} ->
                    [d EXCEPT !.status = "destroy"]
               [] to.res = "crushed" /\ d.type # "doorClose" ->
                    [d EXCEPT !.status = "reopening"]
               [] OTHER -> d)

DoorOpens(i) ==
    LET d == thinker[i]
        to == RaiseCeiling(floorheight, ceilingheight, d.speed, d.high)
    IN  /\ Turn(i, "door", {"opening", "reopening"})
        /\ CeilingMoves(to)
        /\ Becomes(i,
             CASE to.res = "pastdest" /\ d.type \in {"doorRaise", "genRaise"} ->
                    [d EXCEPT !.status = "waiting", !.count = Delay]
               [] to.res = "pastdest" /\ d.type \in {"doorOpen", "closeWaitOpen"} ->
                    [d EXCEPT !.status = "finished"]
               [] OTHER -> d)

\* The types that are done at the top, at the bottom, and once they go down for
\* whatever reason.
DoneAtTop == {"downWaitUpStay", "raiseAndStay"}
DoneAtBottom == {"upWaitDownStay"}
DoneGoingDown == {"raiseAndStay"}

\* A platform that got where it was going.  What is finished is destroyed in the same
\* turn; a toggle waits for the next activation.
Arrived(p, done) ==
    CASE p.type = "toggle" -> [p EXCEPT !.old = p.status, !.status = "in_stasis"]
      [] p.type # "toggle" /\ p.type \in done ->
            [p EXCEPT !.status = "destroy", !.count = Delay]
      [] OTHER -> [p EXCEPT !.status = "waiting", !.count = Delay]

PlatRises(i) ==
    LET p == thinker[i]
        to == RaiseFloor(floorheight, ceilingheight, p.speed, p.high, FALSE)
    IN  /\ Turn(i, "plat", {"up"})
        /\ FloorMoves(to)
        /\ Becomes(i, CASE to.res = "crushed" ->
                              [p EXCEPT !.status = "down", !.count = Delay]
                        [] to.res = "pastdest" -> Arrived(p, DoneAtTop)
                        [] OTHER -> p)

PlatFalls(i) ==
    LET p == thinker[i]
        to == LowerFloor(floorheight, ceilingheight, p.speed, p.low)
    IN  /\ Turn(i, "plat", {"down"})
        /\ FloorMoves(to)
        /\ Becomes(i, CASE p.type \in DoneGoingDown -> [p EXCEPT !.status = "destroy"]
                        [] p.type \notin DoneGoingDown /\ to.res = "pastdest" ->
                              Arrived(p, DoneAtBottom)
                        [] OTHER -> p)

PlatWaits(i) ==
    LET p == [thinker[i] EXCEPT !.count = @ - 1] IN
    /\ Turn(i, "plat", {"waiting"})
    /\ PlanesRest
    /\ Becomes(i, IF p.count = 0
                  THEN [p EXCEPT !.status = IF floorheight <= p.low THEN "up" ELSE "down"]
                  ELSE p)

\* A platform that was stopped, or that waits to be destroyed.
PlatRests(i) ==
    /\ Turn(i, "plat", {"in_stasis", "destroy"})
    /\ PlanesRest
    /\ UNCHANGED <<thinker, ceilingdata, floordata>>

FastSpeed == 2
SlowSpeed == 1

CeilingRises(i) ==
    LET c == thinker[i]
        to == RaiseCeiling(floorheight, ceilingheight, c.speed, c.high)
    IN  /\ Turn(i, "ceiling", {"up"})
        /\ CeilingMoves(to)
        /\ IF to.res = "pastdest" /\ c.type \notin EndlessCrushers
           THEN Destroyed(i)
           ELSE Becomes(i, IF to.res = "pastdest" THEN [c EXCEPT !.status = "down"] ELSE c)

\* A bug to catch: a crusher stays slow.
CeilingStaysSlow(i) ==
    LET c == thinker[i]
        to == LowerCeiling(floorheight, ceilingheight, c.speed, c.low, c.type \in Crushers)
    IN  /\ Turn(i, "ceiling", {"down"})
        /\ CeilingMoves(to)
        /\ IF to.res = "pastdest" /\ c.type \notin TurningCrushers
           THEN Destroyed(i)
           ELSE Becomes(i,
                  CASE to.res = "pastdest" -> [c EXCEPT !.status = "up"]
                    [] to.res = "crushed" /\ c.type \in SlowedCrushers ->
                          [c EXCEPT !.speed = SlowSpeed]
                    [] OTHER -> c)

\* A crusher slows down on what it crushes and gets its speed back at the bottom.
CeilingFalls(i) ==
    LET c == thinker[i]
        to == LowerCeiling(floorheight, ceilingheight, c.speed, c.low, c.type \in Crushers)
    IN  /\ Turn(i, "ceiling", {"down"})
        /\ CeilingMoves(to)
        /\ IF to.res = "pastdest" /\ c.type \notin TurningCrushers
           THEN Destroyed(i)
           ELSE Becomes(i,
                  CASE to.res = "pastdest" -> [c EXCEPT !.status = "up", !.speed = FastSpeed]
                    [] to.res = "crushed" /\ c.type \in SlowedCrushers ->
                          [c EXCEPT !.speed = SlowSpeed]
                    [] OTHER -> c)

CeilingRests(i) ==
    /\ Turn(i, "ceiling", {"in_stasis"})
    /\ PlanesRest
    /\ UNCHANGED <<thinker, ceilingdata, floordata>>

FloorRuns(i) ==
    LET f == thinker[i]
        to == IF f.status = "up"
              THEN RaiseFloor(floorheight, ceilingheight, f.speed, f.high,
                              f.type = "raiseAndCrush")
              ELSE LowerFloor(floorheight, ceilingheight, f.speed, f.low)
    IN  /\ Turn(i, "floor", {"up", "down"})
        /\ FloorMoves(to)
        /\ Becomes(i, IF to.res = "pastdest" THEN [f EXCEPT !.status = "destroy"] ELSE f)

\* Both planes of a pillar move in one turn, the floor first.  Its floor has the speed
\* speed and its ceiling the speed other.
PillarRuns(i) ==
    LET p == thinker[i]
        r == IF p.type = "pillarBuild"
             THEN RaiseFloor(floorheight, ceilingheight, p.speed, p.low, FALSE)
             ELSE LowerFloor(floorheight, ceilingheight, p.speed, p.low)
        s == IF p.type = "pillarBuild"
             THEN LowerCeiling(r.height, ceilingheight, p.other, p.high, FALSE)
             ELSE RaiseCeiling(r.height, ceilingheight, p.other, p.high)
    IN  /\ Turn(i, "pillar", {"init"})
        /\ floorheight' = r.height
        /\ ceilingheight' = s.height
        /\ Becomes(i, IF r.res = "pastdest" /\ s.res = "pastdest"
                      THEN [p EXCEPT !.status = "destroy"] ELSE p)

\* The plane that leads decides when an elevator has arrived; the other one follows
\* unless the first was stopped.
ElevatorGoesDown(i) ==
    LET e == thinker[i]
        c == LowerCeiling(floorheight, ceilingheight, e.speed, e.high, FALSE)
        f == LowerFloor(floorheight, c.height, e.speed, e.low)
    IN  /\ Turn(i, "elevator", {"down"})
        /\ ceilingheight' = c.height
        /\ floorheight' = IF c.res = "crushed" THEN floorheight ELSE f.height
        /\ Becomes(i, IF c.res = "pastdest" THEN [e EXCEPT !.status = "destroy"] ELSE e)

ElevatorGoesUp(i) ==
    LET e == thinker[i]
        f == RaiseFloor(floorheight, ceilingheight, e.speed, e.low, FALSE)
        c == RaiseCeiling(f.height, ceilingheight, e.speed, e.high)
    IN  /\ Turn(i, "elevator", {"up"})
        /\ floorheight' = f.height
        /\ ceilingheight' = IF f.res = "crushed" THEN ceilingheight ELSE c.height
        /\ Becomes(i, IF f.res = "pastdest" THEN [e EXCEPT !.status = "destroy"] ELSE e)

RunThink(i) ==
    \/ DoorWaits(i) \/ DoorWaitsFirst(i) \/ DoorFinishes(i) \/ DoorCloses(i) \/ DoorOpens(i)
    \/ PlatRises(i) \/ PlatFalls(i) \/ PlatWaits(i) \/ PlatRests(i)
    \/ CeilingRises(i) \/ CeilingFalls(i) \/ CeilingRests(i)
    \/ FloorRuns(i) \/ PillarRuns(i) \/ ElevatorGoesDown(i) \/ ElevatorGoesUp(i)

-----------------------------------------------------------------------------
(* SV_DestroyFinishedMovingSectors, at the end of the tic *)

\* P_MovingCeilingCompleted and P_MovingFloorCompleted.  The latter knows platforms and
\* floors only: a pillar or an elevator goes as the ceiling's.
MovingCeilingCompleted ==
    ceilingdata # NULL => thinker[ceilingdata].status = "destroy"

\* A bug to catch: platforms are forgotten.
MovingFloorOfFloor ==
    floordata # NULL => /\ thinker[floordata].class = "floor"
                        /\ thinker[floordata].status = "destroy"

MovingFloorCompleted ==
    floordata # NULL => /\ thinker[floordata].class \in {"plat", "floor"}
                        /\ thinker[floordata].status = "destroy"

\* A bug to catch: the whole entry goes with either plane.
EndTicErasing ==
    LET listed == moving_ceiling \/ moving_floor
        ceilinggone == listed /\ MovingCeilingCompleted
        floorgone == listed /\ (\/ MovingFloorCompleted
                                \/ ceilinggone /\ floordata = ceilingdata)
        gone == {i \in Ids : (ceilinggone /\ i = ceilingdata) \/ (floorgone /\ i = floordata)}
    IN  /\ ran # {}
        /\ \A i \in Ids : Live(i) => i \in ran
        /\ thinker' = [i \in Ids |-> IF i \in gone THEN NoMover ELSE thinker[i]]
        /\ ceilingdata' = IF ceilinggone THEN NULL ELSE ceilingdata
        /\ floordata' = IF floorgone THEN NULL ELSE floordata
        /\ moving_ceiling' = (moving_ceiling /\ ~ceilinggone /\ ~floorgone)
        /\ moving_floor' = (moving_floor /\ ~ceilinggone /\ ~floorgone)
        /\ ran' = {}
        /\ UNCHANGED <<co_boomphys, sector, bounds>>

EndTic ==
    LET listed == moving_ceiling \/ moving_floor
        ceilinggone == listed /\ MovingCeilingCompleted
        floorgone == listed /\ (\/ MovingFloorCompleted
                                \/ ceilinggone /\ floordata = ceilingdata)
        gone == {i \in Ids : (ceilinggone /\ i = ceilingdata) \/ (floorgone /\ i = floordata)}
    IN  /\ ran # {}
        /\ \A i \in Ids : Live(i) => i \in ran
        /\ thinker' = [i \in Ids |-> IF i \in gone THEN NoMover ELSE thinker[i]]
        /\ ceilingdata' = IF ceilinggone THEN NULL ELSE ceilingdata
        /\ floordata' = IF floorgone THEN NULL ELSE floordata
        /\ moving_ceiling' = (moving_ceiling /\ ~ceilinggone)
        /\ moving_floor' = (moving_floor /\ ~floorgone)
        /\ ran' = {}
        /\ UNCHANGED <<co_boomphys, sector, bounds>>

-----------------------------------------------------------------------------
(* Lines, switches and scripts that start, turn, stop and resume movers *)

Use(kind) ==
    /\ kind \in Kinds
    /\ uses < MaxUses
    /\ uses' = uses + 1
    /\ UNCHANGED <<co_boomphys, sector, enters>>

FreshIds == {i \in Ids : ~Live(i)}

FirstId == CHOOSE i \in Ids : TRUE

\* A free name.
FreshId == CHOOSE i \in FreshIds : TRUE

\* A new thinker, after the thinkers of gone were destroyed.  It still runs in this tic.
Spawned(m, gone) ==
    /\ FreshIds # {}
    /\ thinker' = [i \in Ids |-> IF i = FreshId THEN m
                                 ELSE IF i \in gone THEN NoMover ELSE thinker[i]]
    /\ ran' = ran \ gone

SpawnedOnCeiling(m, gone) ==
    /\ Spawned(m, gone)
    /\ ceilingdata' = FreshId
    /\ floordata' = IF floordata \in gone THEN NULL ELSE floordata
    /\ moving_ceiling' = TRUE
    /\ UNCHANGED moving_floor

SpawnedOnFloor(m) ==
    /\ Spawned(m, {})
    /\ floordata' = FreshId
    /\ moving_floor' = TRUE
    /\ UNCHANGED <<ceilingdata, moving_ceiling>>

\* Pillars and elevators own both planes and are listed as moving ceilings.
SpawnedOnBoth(m, gone) ==
    /\ Spawned(m, gone)
    /\ ceilingdata' = FreshId
    /\ floordata' = FreshId
    /\ moving_ceiling' = TRUE
    /\ UNCHANGED moving_floor

\* The constructors of DDoor.  A door that waits before it opens or closes is opening
\* from the start all the same.
NewDoor(type) ==
    [NoMover EXCEPT !.class = "door", !.type = type, !.speed = 1,
       !.status = IF type \in {"doorClose", "closeWaitOpen"} THEN "closing" ELSE "opening",
       !.high = IF type = "closeWaitOpen" THEN ceilingheight ELSE LowCeiling]

\* A door opened by a tag: a busy ceiling is left alone.
EV_DoDoor(type) ==
    /\ Use("door")
    /\ ceilingdata = NULL
    /\ SpawnedOnCeiling(NewDoor(type), {})

\* A locked generalized door wants both planes at rest.
EV_DoGenLockedDoor ==
    /\ Use("door")
    /\ ceilingdata = NULL /\ floordata = NULL
    /\ \E type \in {"genRaise", "doorOpen"} : SpawnedOnCeiling(NewDoor(type), {})

\* A door pushed by hand.  A finished mover is destroyed first; a door starts if the
\* sector is at rest, floor included.
PushNewDoor(type) ==
    LET gone == IF ceilingdata # NULL /\ MovingCeilingCompleted THEN {ceilingdata} ELSE {}
    IN  /\ Use("door")
        /\ MovingCeilingCompleted
        /\ floordata \in gone \cup {NULL}
        /\ SpawnedOnCeiling(NewDoor(type), gone)

\* Pushed again, a raising door turns around: it goes back up for anyone, and down for a
\* player only.
PushMovingDoor(player) ==
    LET d == thinker[ceilingdata] IN
    /\ ceilingdata # NULL
    /\ Use("door")
    /\ ~MovingCeilingCompleted
    /\ d.class = "door" /\ d.type = "doorRaise"
    /\ d.status = "closing" \/ player
    /\ Becomes(ceilingdata,
         [d EXCEPT !.status = IF d.status = "closing" THEN "reopening" ELSE "closing"])
    /\ UNCHANGED <<moving_ceiling, moving_floor, ran>>

\* The heights and the first status of a platform.
NewPlat(type, status) ==
    [NoMover EXCEPT !.class = "plat", !.type = type, !.status = status,
       !.speed = IF type = "toggle" THEN 0 ELSE 1,
       !.low = CASE type \in {"downWaitUpStay", "perpetual"} -> Least(LowFloor, floorheight)
                 [] type = "toggle" -> ceilingheight
                 [] OTHER -> floorheight,
       !.high = IF type \in {"downWaitUpStay", "toggle"} THEN floorheight
                ELSE Most(HighFloor, floorheight)]

FirstStatuses(type) ==
    CASE type \in {"downWaitUpStay", "toggle"} -> {"down"}
      [] type \in {"upWaitDownStay", "raiseAndStay"} -> {"up"}
      [] OTHER -> {"up", "down"}

Stopped(class) ==
    {i \in Ids : thinker[i].class = class /\ thinker[i].status = "in_stasis"}

\* DPlat::Reactivate.
Reactivated(p) ==
    [p EXCEPT !.status = IF p.type = "toggle"
                         THEN IF p.old = "up" THEN "down" ELSE "up"
                         ELSE p.old]

EV_DoPlat(type) ==
    /\ Use("plat")
    /\ floordata = NULL
    /\ \E status \in FirstStatuses(type) : SpawnedOnFloor(NewPlat(type, status))

\* P_ActivateInStasis, for the triggers of perpetual platforms and of toggles.  What was
\* stopped was started by another use.
ReactivatePlats ==
    /\ Stopped("plat") # {}
    /\ thinker' = [i \in Ids |-> IF i \in Stopped("plat") THEN Reactivated(thinker[i])
                                 ELSE thinker[i]]
    /\ UNCHANGED <<co_boomphys, sector, pointers, ran, bounds>>

\* EV_StopPlat takes every platform that is not stopped, one that is done included.
EV_StopPlat ==
    LET stopped == {i \in Ids : thinker[i].class = "plat"} \ Stopped("plat") IN
    /\ Use("stop")
    /\ stopped # {}
    /\ thinker' = [i \in Ids |->
                     IF i \in stopped
                     THEN [thinker[i] EXCEPT !.old = thinker[i].status, !.status = "in_stasis"]
                     ELSE thinker[i]]
    /\ UNCHANGED <<pointers, ran>>

NewCeiling(type) ==
    [NoMover EXCEPT !.class = "ceiling", !.type = type,
       !.status = IF type = "raise" THEN "up" ELSE "down",
       !.low = IF type \in Crushers THEN floorheight + 1 ELSE floorheight,
       !.high = IF type = "raise" THEN HighCeiling ELSE ceilingheight,
       !.speed = IF type \in Crushers THEN FastSpeed ELSE 1]

EV_DoCeiling(type) ==
    /\ Use("ceiling")
    /\ ceilingdata = NULL
    /\ floorheight < Top
    /\ SpawnedOnCeiling(NewCeiling(type), {})

\* P_ActivateInStasisCeiling, for the triggers of crushers.
ReactivateCeilings ==
    /\ Stopped("ceiling") # {}
    /\ thinker' = [i \in Ids |-> IF i \in Stopped("ceiling")
                                 THEN [thinker[i] EXCEPT !.status = thinker[i].old]
                                 ELSE thinker[i]]
    /\ UNCHANGED <<co_boomphys, sector, pointers, ran, bounds>>

EV_CeilingCrushStop ==
    LET stopped == {i \in Ids : thinker[i].class = "ceiling"} \ Stopped("ceiling") IN
    /\ Use("stop")
    /\ stopped # {}
    /\ thinker' = [i \in Ids |->
                     IF i \in stopped
                     THEN [thinker[i] EXCEPT !.old = thinker[i].status, !.status = "in_stasis"]
                     ELSE thinker[i]]
    /\ UNCHANGED <<pointers, ran>>

EV_DoFloor(type) ==
    /\ Use("floor")
    /\ floordata = NULL
    /\ ceilingheight > 0
    /\ SpawnedOnFloor(
         [NoMover EXCEPT !.class = "floor", !.type = type, !.speed = 1,
            !.status = IF type = "lower" THEN "down" ELSE "up",
            !.low = LowFloor,
            !.high = IF type = "raiseAndCrush" THEN ceilingheight - 1 ELSE HighFloor])

\* The two speeds of a pillar whose floor has floordist to go and whose ceiling
\* ceilingdist, at the nominal speed 1: a fraction of it is rounded up, and a division
\* by zero is the largest number.
PillarSpeeds(floordist, ceilingdist) ==
    IF floordist > ceilingdist
    THEN [floor |-> 1, ceiling |-> IF ceilingdist = 0 THEN 0 ELSE 1]
    ELSE [ceiling |-> 1, floor |-> IF floordist = 0 THEN Top ELSE ceilingdist \div floordist]

NewPillar(type, low, high) ==
    LET speeds == IF type = "pillarBuild"
                  THEN PillarSpeeds(low - floorheight, ceilingheight - high)
                  ELSE PillarSpeeds(floorheight - low, high - ceilingheight)
    IN  [NoMover EXCEPT !.class = "pillar", !.type = type, !.status = "init", !.low = low,
           !.high = high, !.speed = speeds.floor, !.other = speeds.ceiling]

\* A bug to catch: the floor may be busy.
EV_DoPillarOnBusyFloor(type) ==
    /\ Use("pillar")
    /\ ceilingdata = NULL
    /\ type = "pillarBuild"
    /\ floorheight < ceilingheight
    /\ SpawnedOnBoth(NewPillar(type, ceilingheight, ceilingheight), {})

\* A pillar is built where the planes are apart, halfway or up to the ceiling, and
\* opened where they meet.
EV_DoPillar(type) ==
    /\ Use("pillar")
    /\ floordata = NULL /\ ceilingdata = NULL
    /\ \/ /\ type = "pillarBuild"
          /\ floorheight < ceilingheight
          /\ \E h \in {(floorheight + ceilingheight) \div 2, ceilingheight} :
                SpawnedOnBoth(NewPillar(type, h, h), {})
       \/ /\ type = "pillarOpen"
          /\ floorheight = ceilingheight
          /\ LowFloor <= floorheight /\ ceilingheight <= HighCeiling
          /\ SpawnedOnBoth(NewPillar(type, LowFloor, HighCeiling), {})

\* An elevator destroys what is finished on either plane before it asks for both.
EV_DoElevator(direction) ==
    LET gone == {i \in Ids : \/ i = ceilingdata /\ MovingCeilingCompleted
                             \/ i = floordata /\ MovingFloorCompleted}
        dest == IF direction = "up" THEN Most(HighFloor, floorheight)
                ELSE Least(LowFloor, floorheight)
        high == dest + ceilingheight - floorheight
    IN  /\ Use("elevator")
        /\ {ceilingdata, floordata} \subseteq gone \cup {NULL}
        /\ high \in Heights
        /\ SpawnedOnBoth([NoMover EXCEPT !.class = "elevator", !.type = "elevator",
                            !.status = direction, !.low = dest, !.high = high, !.speed = 1],
                         gone)

-----------------------------------------------------------------------------
(* What stands in the sector *)

ThingEnters ==
    /\ enters < MaxEnters
    /\ ~thing
    /\ ceilingheight - floorheight >= ThingHeight
    /\ thing' = TRUE
    /\ enters' = enters + 1
    /\ UNCHANGED <<co_boomphys, floorheight, ceilingheight, thinker, pointers, ran, uses>>

\* It walks away or is crushed.
ThingLeaves ==
    /\ thing
    /\ thing' = FALSE
    /\ UNCHANGED <<co_boomphys, floorheight, ceilingheight, thinker, pointers, ran, bounds>>

-----------------------------------------------------------------------------
\* The level may start with a door that opens after five minutes.
Init ==
    /\ co_boomphys \in BOOLEAN
    /\ \E p \in InitPlanes : floorheight = p[1] /\ ceilingheight = p[2]
    /\ thing = FALSE
    /\ \E late \in (Kinds \cap {"door"}) \cup {"none"} :
         /\ thinker = [i \in Ids |->
               IF late = "door" /\ i = FirstId
               THEN [NoMover EXCEPT !.class = "door", !.type = "in5Mins", !.status = "init",
                       !.speed = 1, !.high = LowCeiling, !.count = Delay]
               ELSE NoMover]
         /\ ceilingdata = IF late = "door" THEN FirstId ELSE NULL
         /\ moving_ceiling = (late = "door")
    /\ floordata = NULL
    /\ moving_floor = FALSE
    /\ ran = {}
    /\ uses = 0
    /\ enters = 0

Activate ==
    \/ \E type \in DoorTypes : EV_DoDoor(type)
    \/ EV_DoGenLockedDoor
    \/ \E type \in {"doorRaise", "doorOpen", "closeWaitOpen"} : PushNewDoor(type)
    \/ \E player \in BOOLEAN : PushMovingDoor(player)
    \/ \E type \in PlatTypes : EV_DoPlat(type)
    \/ ReactivatePlats
    \/ EV_StopPlat
    \/ \E type \in CeilingTypes : EV_DoCeiling(type)
    \/ ReactivateCeilings
    \/ EV_CeilingCrushStop
    \/ \E type \in FloorTypes : EV_DoFloor(type)
    \/ \E type \in PillarTypes : EV_DoPillar(type)
    \/ \E direction \in {"up", "down"} : EV_DoElevator(direction)

Next ==
    \/ \E i \in Ids : RunThink(i)
    \/ EndTic
    \/ Activate
    \/ ThingEnters
    \/ ThingLeaves

Spec == Init /\ [][Next]_vars

\* The server runs its tics; nothing stands in a sector for ever.
Fairness ==
    /\ \A i \in Ids : WF_vars(RunThink(i))
    /\ WF_vars(EndTic)
    /\ WF_vars(ThingLeaves)

FairSpec == Spec /\ Fairness

-----------------------------------------------------------------------------
(* Properties *)

TypeOK ==
    /\ co_boomphys \in BOOLEAN
    /\ floorheight \in Heights /\ ceilingheight \in Heights
    /\ thing \in BOOLEAN
    /\ thinker \in [Ids -> Mover \cup {NoMover}]
    /\ ceilingdata \in Ids \cup {NULL} /\ floordata \in Ids \cup {NULL}
    /\ moving_ceiling \in BOOLEAN /\ moving_floor \in BOOLEAN
    /\ ran \subseteq Ids
    /\ uses \in 0..MaxUses /\ enters \in 0..MaxEnters

\* No two movers have the same plane: the sector points at every mover that lives, with
\* both pointers at one that moves both planes.
EveryMoverOwnsItsPlane ==
    \A i \in Ids : Live(i) =>
        /\ thinker[i].class \in {"door", "ceiling", "pillar", "elevator"} => ceilingdata = i
        /\ thinker[i].class \in {"plat", "floor", "pillar", "elevator"} => floordata = i

\* A sector that points at a mover is on the list of moving sectors for it, or nobody
\* would be told of it and nobody destroy it.
MoversAreListed ==
    /\ ceilingdata # NULL => Live(ceilingdata) /\ moving_ceiling
    /\ floordata # NULL => Live(floordata) /\ (moving_floor \/ floordata = ceilingdata)

\* A crusher that an obstacle slowed down goes up at its full speed again, stopped and
\* resumed in between or not.
CrushersRecover ==
    \A i \in Ids :
        /\ thinker[i].class = "ceiling" /\ thinker[i].type \in TurningCrushers
        /\ "up" \in {thinker[i].status, thinker[i].old}
        => thinker[i].speed = FastSpeed \/ thinker[i].status = "down"

\* Movers that have an end.
Ends(m) ==
    \/ m.class = "door" /\ m.type \notin {"waitRaise", "waitClose"}
    \/ m.class = "plat" /\ m.type \in DoneAtTop
    \/ m.class = "plat" /\ m.type \in DoneAtBottom /\ ~co_boomphys /\ m.low < m.high
    \/ m.class = "ceiling" /\ m.type \notin EndlessCrushers
    \/ m.class \in {"floor", "elevator"}
    \/ m.class = "pillar" /\ m.other # 0

\* Every mover that has an end gets there and is destroyed, whatever stands in its way
\* for a while and whoever turns it around, unless it was stopped.
MoversEnd ==
    \A i \in Ids : Live(i) /\ Ends(thinker[i]) ~>
                     ~Live(i) \/ thinker[i].status = "in_stasis"
=============================================================================
