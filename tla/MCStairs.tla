------------------------------- MODULE MCStairs -------------------------------
(***************************************************************************)
(* Maps for the model-checked instances of Stairs.                         *)
(***************************************************************************)
EXTENDS Stairs

CONSTANTS s1, s2, s3, s4, s5

\* Three steps up from s1; the sectors of the specials have no lines between them.
ThreeSteps == {<<s1, s2>>, <<s2, s3>>}

SpecialSteps == <<s4, s5>>
=============================================================================
