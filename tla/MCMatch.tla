------------------------------- MODULE MCMatch --------------------------------
(***************************************************************************)
(* Settings and teams for the model-checked instances of Match.            *)
(***************************************************************************)
EXTENDS Match, TLC

CONSTANTS p1, p2, p3

TwoPlayers == {p1, p2}
ThreePlayers == {p1, p2, p3}

\* Two against one; a third team exists but is not in play.
TeamsOfPlayers == [p \in Players |-> IF p = p1 THEN 0 ELSE 1]

\* Two of the three players are in the same team and interchangeable: no action
\* chooses between players, but for the only one there is.
Alike == Permutations({p2, p3})

\* A duel in rounds: one frag wins a round.
Duel ==
    [gametype |-> "dm", rounds |-> 1, sides |-> 0, warmup |-> 0,
     preroundreset |-> 0, winnerstays |-> 0, allowexit |-> 0, lives |-> 0,
     jointimer |-> 0, roundlimit |-> 2, winlimit |-> 0, limit |-> 1,
     countdown |-> 1, preroundtime |-> 1, postroundtime |-> 1,
     timelimit |-> 0, maxplayers |-> 2, teamsinplay |-> 2, autostart |-> 100,
     intermission |-> 1]

\* Last man standing in rounds, with a queue for the third player and a timer to
\* join.
Survival == [Duel EXCEPT !.lives = 1, !.limit = 0, !.jointimer = 2]

\* Teams, two against one, and a third team that is not in play.
Teamplay ==
    [Duel EXCEPT !.gametype = "teamdm", !.maxplayers = 3, !.preroundtime = 0]

\* Cooperative survival with two attempts.
Coop ==
    [Duel EXCEPT !.gametype = "coop", !.lives = 1, !.limit = 0, !.jointimer = 2]

\* A deathmatch that starts when the players are ready.
Warmup == [Duel EXCEPT !.rounds = 0, !.warmup = 1, !.countdown = 2]

\* Every kind of game: a duel with all limits, survival in rounds and without,
\* CTF on sides without lives and with them, CTF with lives off sides, cooperative
\* survival and play.
RulesSettings ==
    {[Duel EXCEPT !.winnerstays = 1, !.winlimit = 2, !.timelimit = 3],
     Survival,
     [Survival EXCEPT !.rounds = 0, !.lives = 2, !.timelimit = 3,
                      !.winnerstays = 1],
     [Teamplay EXCEPT !.gametype = "ctf", !.sides = 1, !.timelimit = 2],
     [Teamplay EXCEPT !.gametype = "ctf", !.lives = 1, !.sides = 1,
                      !.winlimit = 1, !.winnerstays = 1],
     [Teamplay EXCEPT !.gametype = "ctf", !.lives = 1, !.limit = 0, !.winlimit = 3],
     Coop,
     [Coop EXCEPT !.lives = 0, !.timelimit = 2]}

\* Warmups, rounds and lives for an administrator who interferes.
AdminSettings ==
    {[Warmup EXCEPT !.autostart = 50, !.allowexit = 1],
     [Survival EXCEPT !.maxplayers = 1, !.winnerstays = 1]}

=============================================================================
