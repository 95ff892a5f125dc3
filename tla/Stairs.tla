-------------------------------- MODULE Stairs --------------------------------
(***************************************************************************)
(* Building stairs.  A staircase is a chain of sectors found when it is    *)
(* triggered; each step gets a floor mover of its own.  The steps are      *)
(* locked (stairlock) so that none is used again before the whole          *)
(* staircase is built, and linked in both directions (prevsec, nextsec) so *)
(* that whichever step arrives last can clear the locks of all.            *)
(***************************************************************************)
EXTENDS Integers, FiniteSets, Sequences, Functions

CONSTANTS
    Sectors,        \* the sectors of the map
    Lines,          \* pairs of sectors: front and back of a two-sided line
    Path,           \* sectors with the specials of a staircase, in order
    BuildStarts,    \* sectors with the tag of a line of EV_BuildStairs
    GenStarts,      \* sectors with the tag of a line of EV_DoGenStairs
    PlainFloors,    \* sectors with the tag of a line of EV_DoFloor
    Resets,         \* whether stairs ask for a reset
    Nobody          \* -1: no such sector

ASSUME StairsAssumption ==
    /\ IsFiniteSet(Sectors) /\ Nobody \notin Sectors
    /\ Lines \subseteq Sectors \X Sectors
    /\ Path \in Seq(Sectors) /\ Len(Path) > 0
    /\ BuildStarts \cup GenStarts \cup PlainFloors \subseteq Sectors
    /\ Resets \subseteq BOOLEAN

VARIABLES
    floormover,  \* floordata, the floor mover of a sector: "none", "stair" (a step),
                 \* "resetting" (a step that is to go back later), "plain" or "finished"
    stairlock,   \* "building" for -2, "done" for -1, "free" for 0
    prevsec,     \* the step before
    nextsec,     \* the step after
    hung         \* a search along the links goes round for ever

stairvars == <<floormover, stairlock, prevsec, nextsec, hung>>

\* A bug to catch: the lockout is forgotten.
UnlockedIgnored(s) == floormover[s] = "none"

\* A step of a new staircase has no mover and no lock.
Usable(s) == floormover[s] = "none" /\ stairlock[s] = "free"

StairsInit ==
    /\ floormover = [s \in Sectors |-> "none"]
    /\ stairlock = [s \in Sectors |-> "free"]
    /\ prevsec = [s \in Sectors |-> Nobody]
    /\ nextsec = [s \in Sectors |-> Nobody]
    /\ hung = FALSE

-----------------------------------------------------------------------------
(* Finding the steps *)

\* Usable sectors behind the lines of s that are not steps yet.
Behind(s, steps) == {t \in Sectors : <<s, t>> \in Lines /\ Usable(t) /\ t \notin steps}

\* The staircases that can be found from a sector along its lines: each step leads to
\* the next, and the last one leads nowhere.
Staircases(start) ==
    {c \in UNION {[1..n -> {s \in Sectors : Usable(s)}] : n \in 1..Cardinality(Sectors)} :
        /\ c[1] = start
        /\ \A k \in 2..Len(c) : c[k] \in Behind(c[k - 1], {c[j] : j \in 1..k - 1})
        /\ Behind(c[Len(c)], Range(c)) = {}}

\* The step before each later step of c.
Predecessors(c) ==
    [t \in {c[k] : k \in 2..Len(c)} |-> c[(CHOOSE k \in 2..Len(c) : c[k] = t) - 1]]

\* The steps of c get movers, all but perhaps the first get locks, and the links are set.
\* before[t] is the sector whose nextsec is set to t.
Build(c, locked, before, mover) ==
    LET prev == Predecessors(c)
        later == DOMAIN prev
        next(s) == {t \in later : before[t] = s}
    IN  /\ floormover' = [s \in Sectors |-> IF s \in Range(c) THEN mover ELSE floormover[s]]
        /\ stairlock' = [s \in Sectors |-> IF s \in later \cup locked THEN "building"
                                           ELSE stairlock[s]]
        /\ prevsec' = [s \in Sectors |-> IF s \in later THEN prev[s]
                                         ELSE IF s \in locked THEN Nobody ELSE prevsec[s]]
        /\ nextsec' = [s \in Sectors |-> IF next(s) # {} THEN CHOOSE t \in next(s) : TRUE
                                         ELSE IF s \in later \cup locked THEN Nobody
                                         ELSE nextsec[s]]
        /\ UNCHANGED hung

MoverOf(reset) == IF reset THEN "resetting" ELSE "stair"

\* Stairs along lines.  The first sector is neither locked nor are its links reset.
EV_BuildStairs(start) ==
    /\ ~hung
    /\ Usable(start)
    /\ \E c \in Staircases(start), reset \in Resets :
          Build(c, {}, Predecessors(c), MoverOf(reset))

\* The positions of the usable sectors of the specials, in their order.
PathSteps ==
    LET usable == {k \in 1..Len(Path) : Usable(Path[k])}
    IN  CHOOSE f \in [1..Cardinality(usable) -> usable] :
           \A j, k \in DOMAIN f : j < k => f[j] < f[k]

\* Stairs along the specials.  A busy sector is passed over: the step after it is linked
\* back to the last step, but the link forward is set in the busy sector.
EV_BuildSpecialStairs ==
    LET at == PathSteps
        c == [k \in DOMAIN at |-> Path[at[k]]]
        before == [t \in {c[k] : k \in 2..Len(c)} |->
                      Path[at[CHOOSE k \in 2..Len(c) : c[k] = t] - 1]]
    IN  /\ ~hung
        /\ Usable(Path[1]) /\ Path[1] \in BuildStarts
        /\ \E reset \in Resets : Build(c, {}, before, MoverOf(reset))

\* Generalized stairs lock the first sector too, and reset its links.
EV_DoGenStairs(start) ==
    /\ ~hung
    /\ Usable(start)
    /\ \E c \in Staircases(start) : Build(c, {start}, Predecessors(c), "stair")

\* Any other floor mover (EV_DoFloor) looks at floordata only.
DoPlainFloor(s) ==
    /\ ~hung
    /\ floormover[s] = "none"
    /\ floormover' = [floormover EXCEPT ![s] = "plain"]
    /\ UNCHANGED <<stairlock, prevsec, nextsec, hung>>

-----------------------------------------------------------------------------
(* Arriving *)

\* All sectors that steps from s lead to, s included.
Reach(step, s) ==
    LET closed == {S \in SUBSET Sectors : \A v \in S : step[v] \in S}
    IN  {t \in Sectors : \A S \in closed : s \in S => t \in S}

\* Where a search along link from s stops: at the end of the chain, or before a step
\* that is still being built.  Nobody if it goes round.
Search(link, locks, s) ==
    LET step == [t \in Sectors |->
                   IF link[t] = Nobody THEN t
                   ELSE IF locks[link[t]] = "building" THEN t
                   ELSE link[t]]
        ends == {t \in Reach(step, s) : step[t] = t}
    IN  IF ends = {} THEN Nobody ELSE CHOOSE t \in ends : TRUE

\* All sectors from s back to the first of its chain.
Chain(s) == Reach([t \in Sectors |-> IF prevsec[t] = Nobody THEN t ELSE prevsec[t]], s)

\* A bug to catch: the steps ahead are not looked for.
UnlockBehind(s) ==
    LET locks == [stairlock EXCEPT ![s] = "done"]
    IN  \E first \in {Search(prevsec, locks, s)} :
          LET cleared == IF first # Nobody /\ prevsec[first] = Nobody THEN Chain(s) ELSE {}
          IN  /\ stairlock' = [t \in Sectors |-> IF t \in cleared THEN "free" ELSE locks[t]]
              /\ hung' = (first = Nobody)

\* A step that is still locked arrives.  If no step before it is being built and none
\* after it, the locks are cleared from the last step back to the first.
Unlock(s) ==
    LET locks == [stairlock EXCEPT ![s] = "done"]
    IN  \E first \in {Search(prevsec, locks, s)}, last \in {Search(nextsec, locks, s)} :
          LET noneBefore == first # Nobody /\ prevsec[first] = Nobody
              complete == noneBefore /\ last # Nobody /\ nextsec[last] = Nobody
              cleared == IF complete THEN Chain(last) ELSE {}
          IN  /\ stairlock' = [t \in Sectors |-> IF t \in cleared THEN "free" ELSE locks[t]]
              /\ hung' = \/ first = Nobody
                         \/ noneBefore /\ last = Nobody
                         \/ complete /\ Search(prevsec, [t \in Sectors |-> "free"], last) = Nobody

\* A floor gets where it was going.  A step whose reset is still to come keeps its lock.
Arrives(s) ==
    /\ ~hung
    /\ floormover[s] \in {"stair", "resetting", "plain"}
    /\ floormover' = [floormover EXCEPT ![s] = "finished"]
    /\ \E waits \in (IF floormover[s] = "resetting" THEN BOOLEAN ELSE {FALSE}) :
          IF stairlock[s] = "building" /\ ~waits
          THEN Unlock(s)
          ELSE UNCHANGED <<stairlock, hung>>
    /\ UNCHANGED <<prevsec, nextsec>>

\* Finished movers are destroyed at the end of the tic.
DestroyFinished ==
    /\ ~hung
    /\ \E s \in Sectors : floormover[s] = "finished"
    /\ floormover' = [s \in Sectors |-> IF floormover[s] = "finished" THEN "none"
                                       ELSE floormover[s]]
    /\ UNCHANGED <<stairlock, prevsec, nextsec, hung>>

StairsNext ==
    \/ \E s \in BuildStarts : EV_BuildStairs(s)
    \/ EV_BuildSpecialStairs
    \/ \E s \in GenStarts : EV_DoGenStairs(s)
    \/ \E s \in PlainFloors : DoPlainFloor(s)
    \/ \E s \in Sectors : Arrives(s)
    \/ DestroyFinished

StairsSpec == StairsInit /\ [][StairsNext]_stairvars

\* Floors move in every tic, and what stands in their way goes.
StairsFairSpec ==
    StairsSpec /\ WF_stairvars(DestroyFinished)
               /\ \A s \in Sectors : WF_stairvars(Arrives(s))

-----------------------------------------------------------------------------
(* Properties *)

\* The links of a locked step lead there and back, so that the search of any step that
\* arrives finds the others, and no step after it is usable yet (DFloor::RunThink).
ChainIsLinked ==
    \A s \in Sectors : stairlock[s] # "free" =>
        /\ nextsec[s] # Nobody =>
             prevsec[nextsec[s]] = s /\ stairlock[nextsec[s]] # "free"
        /\ prevsec[s] # Nobody => nextsec[prevsec[s]] = s

\* Every staircase is completed, whichever of its steps arrives last, and its sectors
\* can be used again (DFloor::RunThink).
StairsComplete == \A s \in Sectors : stairlock[s] # "free" ~> stairlock[s] = "free"
=============================================================================
