------------------------------- MODULE MapList --------------------------------
(***************************************************************************)
(* The rotation of maps on the server (server/src/sv_maplist.cpp, class    *)
(* Maplist) and the copy of it that a client keeps to answer the user's    *)
(* questions (client/src/cl_maplist.cpp, class MaplistCache).              *)
(*                                                                         *)
(* A method is an operator from the object before it to the object after   *)
(* it, or to the set of objects it may leave when it shuffles.  Indexes    *)
(* count from 0, as in the code.  MapVotes calls the operators.            *)
(***************************************************************************)
EXTENDS Naturals, Sequences

CONSTANTS
    Maps,           \* what a list may hold: a map with its WAD files
    VersionSize     \* the version is a byte: 256

ASSUME VersionAssumption == VersionSize \in Nat \ {0, 1}

Lists == [maplist : Seq(Maps), index : Nat, in_maplist : {0, 1},
          entered_once : {0, 1}, shuffled : {0, 1}, s_index : Nat,
          s_maplist : Seq(Nat), version : 0 .. VersionSize - 1]

EmptyList == [maplist |-> << >>, index |-> 0, in_maplist |-> 0,
              entered_once |-> 0, shuffled |-> 0, s_index |-> 0,
              s_maplist |-> << >>, version |-> 0]

Size(l) == Len(l.maplist)
MapAt(l, i) == l.maplist[i + 1]
NewVersion(l) == [l EXCEPT !.version = (@ + 1) % VersionSize]

\* A list whose indexes lead into it: the state a server begins with.
Sound(l) ==
    /\ l \in Lists
    /\ l.in_maplist = 1 => l.entered_once = 1 /\ l.index < Size(l)
    /\ l.shuffled = 1 /\ Size(l) > 0 => Len(l.s_maplist) > 0

-----------------------------------------------------------------------------
(* The server's list.                                                      *)

\* Nothing is found while the list is not shuffled, or when the index is not
\* in the list: then the place in the shuffled list stays.
UpdateShuffleIndex(l) ==
    LET places == {i \in 1 .. Len(l.s_maplist) : l.s_maplist[i] = l.index}
    IN  IF l.shuffled = 1 /\ places # {}
        THEN [l EXCEPT !.s_index = (CHOOSE i \in places : TRUE) - 1]
        ELSE l

Orders(n) == {s \in [1 .. n -> 0 .. n - 1] :
                \A i, j \in 1 .. n : s[i] = s[j] => i = j}

Shuffle(l) ==
    IF Size(l) = 0 THEN {l}
    ELSE {UpdateShuffleIndex([l EXCEPT !.s_maplist = s]) : s \in Orders(Size(l))}

IfShuffled(l) == IF l.shuffled = 1 THEN Shuffle(l) ELSE {l}

\* A bug to catch: the index stays when a map is put before it.
InsertForgetful(l, position, map) ==
    IfShuffled(NewVersion([l EXCEPT
        !.maplist = SubSeq(@, 1, position) \o <<map>>
                        \o SubSeq(@, position + 1, Len(@))]))

\* Maplist::insert; position is at most the size.
Insert(l, position, map) ==
    LET inserted == [l EXCEPT
            !.maplist = SubSeq(@, 1, position) \o <<map>>
                            \o SubSeq(@, position + 1, Len(@)),
            !.index = IF l.entered_once = 1 /\ @ >= position THEN @ + 1 ELSE @]
    IN  IfShuffled(NewVersion(inserted))

\* The index after the map at i is removed from a list that leaves n maps.
IndexWithout(l, i, n) ==
    IF l.index < i THEN l.index
    ELSE IF l.index = 0 THEN n - 1 ELSE l.index - 1

\* Maplist::remove; i is below the size.  The last map goes without a new
\* version and without a new order.
Remove(l, i) ==
    IF Size(l) = 1
    THEN {[l EXCEPT !.maplist = << >>, !.in_maplist = 0, !.index = 0]}
    ELSE LET removed == [l EXCEPT
                !.maplist = SubSeq(@, 1, i) \o SubSeq(@, i + 2, Len(@)),
                !.in_maplist =
                    IF l.entered_once = 1 /\ l.index = i THEN 0 ELSE @,
                !.index = IF l.entered_once = 1
                          THEN IndexWithout(l, i, Size(l) - 1) ELSE @]
         IN  IfShuffled(NewVersion(removed))

\* Maplist::clear.
Clear(l) ==
    IF Size(l) = 0 THEN l
    ELSE NewVersion([l EXCEPT !.maplist = << >>, !.in_maplist = 0, !.index = 0])

\* Maplist::get_next_index of a list that is not empty.
NextIndex(l) ==
    IF l.shuffled = 1
    THEN IF l.s_index + 1 >= Len(l.s_maplist) THEN l.s_maplist[1]
         ELSE l.s_maplist[l.s_index + l.entered_once + 1]
    ELSE IF l.index + 1 >= Size(l) THEN 0
         ELSE l.index + l.entered_once

\* Maplist::set_index; i is below the size.
SetIndex(l, i) ==
    UpdateShuffleIndex([l EXCEPT !.entered_once = 1, !.in_maplist = 1,
                                 !.index = i])

\* Maplist::set_shuffle.  The list is shuffled before it counts as shuffled,
\* so that its place in the new order is not looked up.
SetShuffle(l, setting) ==
    {[s EXCEPT !.shuffled = setting] :
        s \in IF l.shuffled = 0 /\ setting = 1 THEN Shuffle(l) ELSE {l}}

-----------------------------------------------------------------------------
(* What the server answers.  Maplist::timeout of a client is "none",       *)
(* "running" for the 60 seconds after the list was sent, and then "over".  *)

Timeouts == {"none", "running", "over"}

PidCached(timeout) == timeout # "none"

\* The comparison is that of the code: the time set is still to come.
PidTimeout(timeout) == timeout \in {"none", "running"}

Statuses == {"WAIT", "OUTDATED", "OK", "EMPTY", "TIMEOUT", "THROTTLED"}

\* A status comes with the list as it was when the server answered, which
\* the client does not see.
StatusMessage(l, status) ==
    [type |-> "status", status |-> status, list |-> l.maplist]
UpdateMessage(l, status) ==
    [type |-> "update", status |-> status, list |-> l.maplist]

\* SV_MaplistIndex: the next map and, when it is in the list, this one.
IndexMessage(l) ==
    [type |-> "index",
     count |-> IF Size(l) = 0 THEN 0 ELSE 1 + l.in_maplist]

\* A bug to catch: whoever says his list is good is told that it is.
MaplistTrusting(l, timeout, status) ==
    IF Size(l) = 0 THEN <<StatusMessage(l, "EMPTY")>>
    ELSE IF status = "OK" THEN <<IndexMessage(l), StatusMessage(l, "OK")>>
    ELSE IF PidTimeout(timeout) THEN <<StatusMessage(l, "OUTDATED")>>
    ELSE << >>

\* SV_Maplist.  THROTTLED is not among the statuses that are sent, and a client
\* that is itself waiting gets no answer.
Maplist(l, timeout, status) ==
    IF Size(l) = 0 THEN <<StatusMessage(l, "EMPTY")>>
    ELSE IF ~PidCached(timeout) THEN <<StatusMessage(l, "OUTDATED")>>
    ELSE IF status = "OK" THEN <<IndexMessage(l), StatusMessage(l, "OK")>>
    ELSE IF status \in {"EMPTY", "TIMEOUT", "THROTTLED"} /\ PidTimeout(timeout)
    THEN <<StatusMessage(l, "OUTDATED")>>
    ELSE << >>

\* SV_MaplistUpdate: whether the list is sent, and the messages.
UpdateIsSent(l, timeout) == Size(l) > 0 /\ PidTimeout(timeout)
MaplistUpdate(l, timeout) ==
    <<IndexMessage(l)>> \o
    IF Size(l) = 0 THEN <<UpdateMessage(l, "EMPTY")>>
    ELSE IF UpdateIsSent(l, timeout) THEN <<UpdateMessage(l, "OUTDATED")>>
    ELSE << >>

-----------------------------------------------------------------------------
(* The client's cache.  Of the questions that wait for it (deferred        *)
(* queries) one is kept: the whole list, or the index of a map to vote on. *)

Questions == {"nothing", "list"} \cup Maps

Caches == [status : Statuses, maplist : Seq(Maps), valid_indexes : 0 .. 2,
           question : Questions, timeout : {"running", "over"}]

EmptyCache == [status |-> "EMPTY", maplist |-> << >>, valid_indexes |-> 0,
               question |-> "nothing", timeout |-> "over"]

Invalidate(c) == [c EXCEPT !.maplist = << >>, !.valid_indexes = 0]

\* MaplistCache::defer_query, with the status that is sent being the old one.
DeferQuery(c, question) ==
    [c EXCEPT !.status = "WAIT", !.question = question, !.timeout = "running"]

\* MaplistCache::status_handler.
StatusHandler(c, status) ==
    IF status \in {"OUTDATED", "EMPTY", "THROTTLED"}
    THEN [Invalidate(c) EXCEPT !.status = status]
    ELSE [c EXCEPT !.status = status]

\* CL_MaplistIndex, with set_next_index, set_this_index and unset_this_index.
\* No list is complete by it: an outdated cache has been emptied.
IndexHandler(c, count) ==
    IF count = 0 \/ c.status = "EMPTY" THEN c
    ELSE [c EXCEPT !.valid_indexes = count]

\* CL_MaplistUpdate: a cache that is not outdated takes no maps.  The last map
\* completes it (check_complete).
UpdateHandler(c, status, list) ==
    IF status = "EMPTY" THEN [Invalidate(c) EXCEPT !.status = "EMPTY"]
    ELSE IF c.status # "OUTDATED" THEN c
    ELSE [c EXCEPT !.maplist = list,
                   !.status = IF c.valid_indexes > 0 THEN "OK" ELSE @]

\* A bug to catch: whoever has been promised a list waits for it.
StatusAtTicHopeful(c, connected) ==
    IF ~connected THEN "EMPTY"
    ELSE IF c.timeout = "over" /\ c.status # "OUTDATED" THEN "TIMEOUT"
    ELSE c.status

\* The status that the tic (MaplistCache::ev_tic) goes by, with a question
\* waiting.
StatusAtTic(c, connected) ==
    IF ~connected THEN "EMPTY"
    ELSE IF c.timeout = "over" THEN "TIMEOUT" ELSE c.status

\* MaplistCache::ev_tic: the question is answered or given up, or it waits.
CacheTic(c, connected) ==
    LET status == StatusAtTic(c, connected) IN
    [(IF connected THEN c ELSE Invalidate(c)) EXCEPT
        !.status = status,
        !.question = IF status \in {"WAIT", "OUTDATED"} THEN @ ELSE "nothing"]

=============================================================================
