-------------------------------- MODULE Votes ---------------------------------
(***************************************************************************)
(* The count of a vote (server/src/sv_vote.cpp, class Vote): the ballots,  *)
(* how many are needed, and when the result is a foregone conclusion.      *)
(*                                                                         *)
(* The majority (sv_vote_majority) is a ratio of naturals.  The code       *)
(* computes with floats and takes a product that is within 1/510 of a whole *)
(* number for that number, which is exact while the denominator is below   *)
(* 510.                                                                    *)
(***************************************************************************)
EXTENDS Integers, FiniteSets

CONSTANTS
    MajorityNum, MajorityDen,   \* sv_vote_majority
    CountAbs,                   \* sv_vote_countabs
    TimeLimit                   \* sv_vote_timelimit, in tics

ASSUME MajorityAssumption ==
    /\ MajorityDen \in Nat \ {0}
    /\ MajorityNum \in 0 .. MajorityDen
ASSUME VoteSettingsAssumption == CountAbs \in BOOLEAN /\ TimeLimit \in Nat

Ballots == {"undec", "yes", "no"}

Cast(tally, ballot) == Cardinality({p \in DOMAIN tally : tally[p] = ballot})

\* Vote::calc_yes: more than the majority of n.
CalcYes(n) == (n * MajorityNum) \div MajorityDen + 1

\* Vote::calc_no: so many that the yes cannot be reached any more.
CalcNo(n) == (n * (MajorityDen - MajorityNum) + MajorityDen - 1) \div MajorityDen

\* Vote::check.
Check(tally, countdown) ==
    LET yes == Cast(tally, "yes")
        no  == Cast(tally, "no")
        n   == Cardinality(DOMAIN tally)
    IN  IF n = 0 THEN "ABANDON"
        ELSE IF yes >= CalcYes(n) THEN "YES"
        ELSE IF no >= CalcNo(n) THEN "NO"
        ELSE IF yes + no = n THEN "NO"
        ELSE IF countdown > 0 THEN "UNDEC"
        ELSE IF ~CountAbs /\ yes >= CalcYes(yes + no) THEN "YES"
        ELSE "NO"

=============================================================================
