------------------------------- MODULE MCMovers -------------------------------
(***************************************************************************)
(* Heights for the model-checked instances of Movers.                      *)
(***************************************************************************)
EXTENDS Movers

\* A closed sector and an open one.
MCPlanes == {<<1, 1>>, <<1, 3>>}
=============================================================================
