-------------------------------- MODULE MCCtf ---------------------------------
(***************************************************************************)
(* Settings and teams for the model-checked instances of CtfMatch.         *)
(***************************************************************************)
EXTENDS CtfMatch

CONSTANTS p1, p2, p3

TwoPlayers == {p1, p2}

OneEach == [p \in Players |-> IF p = p1 THEN 0 ELSE 1]

\* Two rounds of CTF.
Ctf ==
    [gametype |-> "ctf", rounds |-> 1, sides |-> 0, warmup |-> 0,
     preroundreset |-> 0, winnerstays |-> 0, allowexit |-> 0, lives |-> 0,
     jointimer |-> 0, roundlimit |-> 2, winlimit |-> 0, limit |-> 1,
     countdown |-> 1, preroundtime |-> 0, postroundtime |-> 1,
     timelimit |-> 0, maxplayers |-> 2, teamsinplay |-> 2, autostart |-> 100,
     intermission |-> 1]

\* A game of three flags that the winners stay in, rounds on sides, and a game the
\* players start when ready.
FlagSettings ==
    {[Ctf EXCEPT !.rounds = 0, !.teamsinplay = 3, !.winnerstays = 1],
     [Ctf EXCEPT !.sides = 1, !.timelimit = 2],
     [Ctf EXCEPT !.rounds = 0, !.warmup = 1]}

\* Flags that return by touch, by hand, or only by their timeout.
HomeOptions ==
    {[manualreturn |-> 0, notouchreturn |-> 0, flagathometoscore |-> 1,
      flagtimeout |-> 1],
     [manualreturn |-> 1, notouchreturn |-> 0, flagathometoscore |-> 1,
      flagtimeout |-> 0],
     [manualreturn |-> 0, notouchreturn |-> 1, flagathometoscore |-> 0,
      flagtimeout |-> 1]}

\* Flags without rounds or time limit, flags on sides in rounds with both, and
\* survival with a timer to join.
ProgressSettings ==
    {[Ctf EXCEPT !.rounds = 0],
     [Ctf EXCEPT !.sides = 1, !.preroundtime = 1, !.timelimit = 2],
     [Ctf EXCEPT !.gametype = "dm", !.rounds = 0, !.lives = 1, !.limit = 0,
                 !.jointimer = 1, !.timelimit = 1]}

DefaultOptions ==
    {[manualreturn |-> 0, notouchreturn |-> 0, flagathometoscore |-> 1,
      flagtimeout |-> 1]}

=============================================================================
