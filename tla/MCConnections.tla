---------------------------- MODULE MCConnections -----------------------------
(***************************************************************************)
(* Instances of Connections for TLC.                                       *)
(***************************************************************************)
EXTENDS Connections

CONSTANTS alice, crook

\* How often the users act, the limit changes, votes end, the server recovers
\* from an error, datagrams are lost or come twice.
Budget(first, second, limits, votes, errors, losses, dups) ==
    [users |-> (alice :> first @@ crook :> second), limits |-> limits,
     votes |-> votes, errors |-> errors, losses |-> losses, dups |-> dups]

\* Two losses; a copy; the end of a vote; a lower limit with a second
\* client on the server; an error, and enough clients after it to use up the ids.
MCBudgets == {
    Budget(2, 0, 0, 0, 0, 2, 0), Budget(2, 0, 0, 0, 0, 0, 1),
    Budget(1, 0, 0, 1, 0, 1, 0),
    Budget(1, 1, 1, 0, 0, 0, 0), Budget(1, 2, 0, 0, 1, 0, 0)}

=============================================================================
