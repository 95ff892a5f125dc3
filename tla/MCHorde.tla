------------------------------- MODULE MCHorde --------------------------------
(***************************************************************************)
(* Definitions of waves for the model-checked instance of Horde.           *)
(***************************************************************************)
EXTENDS Horde

CONSTANTS grunt, baron

MCHealth == [t \in Types |-> IF t = grunt THEN 2 ELSE 3]

Config(type, limit) == [type |-> type, min |-> -1, max |-> -1, limit |-> limit]

Easy == [monsters |-> {Config(grunt, 1)}, bosses |-> {Config(baron, 0)},
         minGroup |-> 2, maxGroup |-> 2, minBoss |-> 3, maxBoss |-> 6,
         maxTotal |-> 4, goal |-> 1]

\* At most one of two bosses at a time.
Limited == [Easy EXCEPT !.bosses = {Config(baron, 1)}, !.minBoss = 6]

MCDefines == <<Easy, Limited>>

=============================================================================
