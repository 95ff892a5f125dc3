------------------------------ MODULE MCMapVotes ------------------------------
(***************************************************************************)
(* Instances of MapVotes for TLC.                                          *)
(***************************************************************************)
EXTENDS MapVotes

\* A server in the middle of its rotation: the second of two maps is played.
MCLists ==
    {[EmptyList EXCEPT !.maplist = <<"m1", "m2">>, !.index = 1,
                       !.in_maplist = 1, !.entered_once = 1]}

Budget(edits, asks, losses, calls, ballots, exits) ==
    [edits |-> edits, asks |-> asks, losses |-> losses, calls |-> calls,
     ballots |-> ballots, exits |-> exits]

\* Edits alone, edits with questions, edits with votes, and some of all.
MCBudgets == {Budget(3, 0, 0, 0, 0, 0),
              Budget(2, 1, 1, 0, 0, 0), Budget(1, 2, 1, 0, 0, 0),
              Budget(2, 0, 0, 1, 1, 0), Budget(1, 0, 0, 1, 2, 1),
              Budget(1, 1, 0, 0, 1, 2)}

=============================================================================
