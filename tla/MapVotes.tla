------------------------------- MODULE MapVotes -------------------------------
(***************************************************************************)
(* Votes on a server with a rotation of maps: the list, its copies on the  *)
(* clients, the vote in progress and the change of levels.                 *)
(*                                                                         *)
(* Frame is one SV_RunTics after the packets: the vote's tic, the pending  *)
(* game action, the game, the removal of those who have left.  Between     *)
(* frames packets are handled and the administrator enters commands.  What *)
(* the clients ask of their map list cache travels as messages; a ballot   *)
(* and a vote that needs no list act when the server reads them.           *)
(***************************************************************************)
EXTENDS MapList, Votes

CONSTANTS
    Clients,        \* the programs that connect
    Askers,         \* those among them whose users ask for the map list
    IntTime,        \* tics of an intermission
    NoMap,
    StartLists,     \* the lists a server starts with
    MaxMaps,        \* bound on the list
    Budgets         \* bounds on what the environment does

ASSUME ClientsAssumption == Askers \subseteq Clients
ASSUME ListsAssumption ==
    /\ \A l \in StartLists : Sound(l)
    /\ "list" \notin Maps /\ "nothing" \notin Maps /\ NoMap \notin Maps
ASSUME IntTimeAssumption == IntTime \in Nat \ {0, 1}
\* How often the administrator edits, a user asks, a request is lost, a vote is
\* called, a ballot is given, and a level ends or a client comes or goes.
ASSUME BoundsAssumption ==
    /\ MaxMaps \in Nat
    /\ Budgets \subseteq [{"edits", "asks", "losses", "calls", "ballots", "exits"}
                             -> Nat]

NoVote == [kind |-> "none"]
Kinds == {"map", "nextmap", "randmap", "other"}

VARIABLES
    list,           \* the server's list
    chosen,         \* history: the map that set_index was last called for
    gamestate, gameaction, mapchange,
    leveltime,      \* level.time: 1, or 2 for all later times
    players,        \* the clients that are connected
    vote,
    lastlevel,      \* history: a level has begun since the vote was called
    timeouts,       \* Maplist::timeout
    cache,          \* MaplistCache of each client
    requests,       \* what each client has sent, not read yet
    answers,        \* what each client has been sent, not read yet
    late,           \* history: clients who gave up a question
    left            \* what is left of the bounds

listvars   == <<list, chosen>>
levelvars  == <<gamestate, gameaction, mapchange, leveltime>>
votevars   == <<vote, lastlevel>>
cachevars  == <<cache, requests, answers, late>>
vars == <<listvars, levelvars, players, votevars, timeouts, cachevars, left>>

Init ==
    /\ list \in StartLists
    /\ chosen = IF list.in_maplist = 1 THEN MapAt(list, list.index) ELSE NoMap
    /\ gamestate = "LEVEL" /\ gameaction = "nothing" /\ mapchange = 0
    /\ leveltime = 2
    /\ players = Clients
    /\ vote = NoVote /\ lastlevel = FALSE
    /\ timeouts = [c \in Clients |-> "none"]
    /\ cache = [c \in Askers |-> EmptyCache]
    /\ requests = [c \in Askers |-> << >>]
    /\ answers = [c \in Askers |-> << >>]
    /\ late = {}
    /\ left \in Budgets

Spend(what) == left[what] > 0 /\ left' = [left EXCEPT ![what] = @ - 1]

-----------------------------------------------------------------------------
(* Clients come and go.                                                    *)

\* SV_ConnectClient; the client's tics since it quit have given up its question.
Connect(c) ==
    /\ c \notin players /\ Spend("exits")
    /\ c \in Askers => cache[c].question = "nothing"
    /\ players' = players \cup {c}
    /\ UNCHANGED <<listvars, levelvars, votevars, timeouts, cachevars>>

\* Vote_Disconnect: the ballot of who leaves does not count.
WithoutBallot(v, c) ==
    IF v = NoVote THEN v
    ELSE [v EXCEPT !.tally = [i \in DOMAIN @ \ {c} |-> @[i]]]

\* The messages to and from a client who has gone are not read.
Unread(channel, c) ==
    IF c \in Askers THEN [channel EXCEPT ![c] = << >>] ELSE channel

\* SV_DisconnectClient for a client who quits.
Quit(c) ==
    /\ c \in players /\ Spend("exits")
    /\ players' = players \ {c}
    /\ vote' = WithoutBallot(vote, c)
    /\ timeouts' = [timeouts EXCEPT ![c] = "none"]
    /\ requests' = Unread(requests, c)
    /\ answers' = Unread(answers, c)
    /\ late' = late \ {c}
    /\ UNCHANGED <<listvars, levelvars, lastlevel, cache>>

-----------------------------------------------------------------------------
(* The administrator changes the list, or the map.                         *)

Edited(l) ==
    /\ list' \in l
    /\ UNCHANGED <<chosen, levelvars, players, votevars, cachevars>>

\* insert and remove clear the timeouts of all; the last map goes without.
NoTimeouts == timeouts' = [c \in Clients |-> "none"]

InsertMap(position, map) ==
    /\ Spend("edits")
    /\ Size(list) < MaxMaps /\ position <= Size(list)
    /\ \A i \in 1 .. Size(list) : list.maplist[i] # map
    /\ Edited(Insert(list, position, map)) /\ NoTimeouts

RemoveMap(i) ==
    /\ Spend("edits")
    /\ i < Size(list)
    /\ Edited(Remove(list, i))
    /\ IF Size(list) = 1 THEN UNCHANGED timeouts ELSE NoTimeouts

ClearMaplist ==
    /\ Spend("edits") /\ Size(list) > 0
    /\ Edited({Clear(list)}) /\ UNCHANGED timeouts

ShuffleMaplist ==
    /\ Spend("edits")
    /\ Edited(SetShuffle(list, 1 - list.shuffled)) /\ UNCHANGED timeouts

\* G_ChangeMap(index).
ChangeTo(i) ==
    IF i < Size(list)
    THEN /\ list' = SetIndex(list, i)
         /\ chosen' = MapAt(list, i)
    ELSE UNCHANGED <<list, chosen>>

\* G_ChangeMap(): the next map of the list, or the next of the WAD.
ChangeMap ==
    IF Size(list) > 0 THEN ChangeTo(NextIndex(list))
    ELSE UNCHANGED <<list, chosen>>

\* gotomap, forcenextmap.
GotoMap ==
    /\ Spend("edits")
    /\ \/ \E i \in 0 .. MaxMaps - 1 : i < Size(list) /\ ChangeTo(i)
       \/ ChangeMap
    /\ gameaction' = "newgame"
    /\ UNCHANGED <<gamestate, mapchange, leveltime, players, votevars,
                   timeouts, cachevars>>

-----------------------------------------------------------------------------
(* A vote is called and voted on.  The waits between votes, and between two *)
(* ballots of a player, are left out: any time may pass between actions.   *)

\* The setup of the votes on a map and on a random map.
SetupPasses(kind, arg) ==
    /\ arg \in Nat
    /\ kind = "map" => arg < Size(list)
    /\ kind = "randmap" => Size(list) > 0

\* SV_Callvote with Vote::init.
Callvote(c, kind, arg) ==
    IF gamestate # "INTERMISSION" /\ vote = NoVote /\ SetupPasses(kind, arg)
    THEN /\ vote' = [kind |-> kind, arg |-> arg, version |-> list.version,
                     named |-> IF kind = "map" THEN MapAt(list, arg) ELSE NoMap,
                     countdown |-> TimeLimit,
                     tally |-> [i \in players |->
                                   IF i = c THEN "yes" ELSE "undec"]]
         /\ lastlevel' = FALSE
    ELSE UNCHANGED votevars

CallVote(c, kind, arg) ==
    /\ c \in players /\ Spend("calls")
    /\ gamestate # "INTERMISSION" /\ vote = NoVote /\ SetupPasses(kind, arg)
    /\ Callvote(c, kind, arg)
    /\ UNCHANGED <<listvars, levelvars, players, timeouts, cachevars>>

\* SV_VoteCmd with Vote::vote.
VoteCmd(c, ballot) ==
    /\ vote # NoVote /\ Spend("ballots")
    /\ c \in DOMAIN vote.tally /\ vote.tally[c] # ballot
    /\ vote' = [vote EXCEPT !.tally[c] = ballot]
    /\ UNCHANGED <<listvars, levelvars, players, lastlevel, timeouts, cachevars>>

-----------------------------------------------------------------------------
(* The map list on its way to a client.                                    *)

Send(channel, c, messages) == channel' = [channel EXCEPT ![c] = @ \o messages]

\* The user asks for the list, or for a vote on a map.
Ask(c, question) ==
    /\ c \in players /\ cache[c].question = "nothing" /\ Spend("asks")
    /\ Send(requests, c, <<[type |-> "maplist", status |-> cache[c].status]>>)
    /\ cache' = [cache EXCEPT ![c] = DeferQuery(@, question)]
    /\ UNCHANGED <<listvars, levelvars, players, votevars, timeouts, answers,
                   late>>

\* A datagram with a request is lost: nothing sends it again.
LoseRequest(c) ==
    /\ requests[c] # << >> /\ Spend("losses")
    /\ requests' = [requests EXCEPT ![c] = Tail(@)]
    /\ UNCHANGED <<listvars, levelvars, players, votevars, timeouts, cache,
                   answers, late>>

\* SV_ParseCommands of clc_maplist, clc_maplist_update and clc_callvote.
ServerReads(c) ==
    /\ requests[c] # << >>
    /\ requests' = [requests EXCEPT ![c] = Tail(@)]
    /\ LET m == Head(requests[c]) IN
        \/ /\ m.type = "maplist"
           /\ Send(answers, c, Maplist(list, timeouts[c], m.status))
           /\ UNCHANGED <<votevars, timeouts>>
        \/ /\ m.type = "update"
           /\ Send(answers, c, MaplistUpdate(list, timeouts[c]))
           /\ timeouts' = IF UpdateIsSent(list, timeouts[c])
                          THEN [timeouts EXCEPT ![c] = "running"]
                          ELSE timeouts
           /\ UNCHANGED votevars
        \/ /\ m.type = "callvote"
           /\ Callvote(c, "map", m.index)
           /\ UNCHANGED <<answers, timeouts>>
    /\ UNCHANGED <<listvars, levelvars, players, cache, late, left>>

\* CL_Maplist, CL_MaplistUpdate and CL_MaplistIndex.
ClientReads(c) ==
    /\ answers[c] # << >>
    /\ answers' = [answers EXCEPT ![c] = Tail(@)]
    /\ LET m == Head(answers[c]) IN
        \/ /\ m.type = "status"
           /\ cache' = [cache EXCEPT ![c] = StatusHandler(@, m.status)]
           /\ IF m.status = "OUTDATED"
              THEN Send(requests, c, <<[type |-> "update"]>>)
              ELSE UNCHANGED requests
        \/ /\ m.type = "index"
           /\ cache' = [cache EXCEPT ![c] = IndexHandler(@, m.count)]
           /\ UNCHANGED requests
        \/ /\ m.type = "update"
           /\ cache' = [cache EXCEPT ![c] = UpdateHandler(@, m.status, m.list)]
           /\ UNCHANGED requests
    /\ UNCHANGED <<listvars, levelvars, players, votevars, timeouts, late, left>>

\* Three seconds have passed since the question.
TimeRunsOut(c) ==
    /\ cache[c].question # "nothing" /\ cache[c].timeout = "running"
    /\ cache' = [cache EXCEPT ![c].timeout = "over"]
    /\ UNCHANGED <<listvars, levelvars, players, votevars, timeouts,
                   requests, answers, late, left>>

\* The indexes at which the cached list has the map.
Matches(c, map) ==
    {i \in 1 .. Len(cache[c].maplist) : cache[c].maplist[i] = map}

\* MaplistCache::ev_tic, with CMD_MapVoteCallback for a question about a map.
ClientTic(c) ==
    LET status == StatusAtTic(cache[c], c \in players) IN
    /\ cache[c].question # "nothing" /\ status \notin {"WAIT", "OUTDATED"}
    /\ cache' = [cache EXCEPT ![c] = CacheTic(@, c \in players)]
    /\ late' = IF status = "TIMEOUT" THEN late \cup {c} ELSE late
    /\ requests' = [requests EXCEPT ![c] = @ \o
            IF status = "OK" /\ Matches(c, cache[c].question) # {}
            THEN <<[type |-> "callvote", index |->
                       (CHOOSE i \in Matches(c, cache[c].question) : TRUE) - 1]>>
            ELSE << >>]
    /\ UNCHANGED <<listvars, levelvars, players, votevars, timeouts, answers,
                   left>>

\* Sixty seconds have passed since the list was sent.
TimeoutPasses(c) ==
    /\ timeouts[c] = "running"
    /\ timeouts' = [timeouts EXCEPT ![c] = "over"]
    /\ UNCHANGED <<listvars, levelvars, players, votevars, cachevars, left>>

-----------------------------------------------------------------------------
(* One frame.                                                              *)

\* A bug to catch: a map vote does not notice that the list has changed.
VoteTicTrusting(v) == v.kind = "randmap" => Size(list) > 0

\* The tic methods of the votes.
VoteTic(v) ==
    /\ v.kind = "map" => v.version = list.version
    /\ v.kind = "randmap" => Size(list) > 0

\* A bug to catch: a new level does not interrupt a vote.
VoteResultAnyLevel(v) ==
    IF ~VoteTic(v) THEN "INTERRUPT" ELSE Check(v.tally, v.countdown)

\* Vote::ev_tic.
VoteResult(v) ==
    IF leveltime = 1 \/ ~VoteTic(v) THEN "INTERRUPT"
    ELSE Check(v.tally, v.countdown)

\* What a vote that has passed does.
Exec(v) ==
    \/ v.kind = "map" /\ ChangeTo(v.arg)
    \/ v.kind = "nextmap" /\ ChangeMap
    \/ v.kind = "randmap" /\ \E i \in 0 .. MaxMaps - 1 :
                                i < Size(list) /\ ChangeTo(i)
    \/ v.kind = "other" /\ UNCHANGED listvars

\* Votes have their tic in a level only.
VotePasses == gamestate = "LEVEL" /\ vote # NoVote /\ VoteResult(vote) = "YES"

\* A vote on a map that is not in the list any more asks for no level.
AsksForLevel(v) ==
    \/ v.kind \in {"nextmap", "randmap"}
    \/ v.kind = "map" /\ v.arg < Size(list)

\* The game action after the vote's tic.
Pending ==
    IF VotePasses /\ AsksForLevel(vote) THEN "newgame" ELSE gameaction

\* The tics the intermission has left when the game's tic begins.
IntermissionCount ==
    IF Pending = "completed" THEN IntTime
    ELSE IF Pending = "nothing" /\ gamestate = "INTERMISSION" THEN mapchange
    ELSE 0

\* A bug to catch: a vote nobody decides is never over.
VoteRunticPatient ==
    /\ vote' = IF gamestate # "LEVEL" \/ vote = NoVote THEN vote
               ELSE IF VoteResult(vote) = "UNDEC" THEN vote
               ELSE NoVote
    /\ IF VotePasses THEN Exec(vote)
       ELSE IF IntermissionCount = 1 THEN ChangeMap
       ELSE UNCHANGED listvars

\* Vote_Runtic with Vote::parse.  A vote that passes, and an intermission that
\* ends, set the index of the list at once and ask for the level.
VoteRuntic ==
    /\ vote' = IF gamestate # "LEVEL" \/ vote = NoVote THEN vote
               ELSE IF VoteResult(vote) = "UNDEC"
               THEN [vote EXCEPT !.countdown = @ - 1]
               ELSE NoVote
    /\ IF VotePasses THEN Exec(vote)
       ELSE IF IntermissionCount = 1 THEN ChangeMap
       ELSE UNCHANGED listvars

\* G_Ticker: the game action, then a tic of the level or the intermission.  A
\* level may be finished in any of its tics (exit).
NewLevel(exit) ==
    /\ Pending = "newgame"
    /\ gamestate' = "LEVEL" /\ leveltime' = 1 /\ lastlevel' = TRUE
    /\ gameaction' = IF exit THEN "completed" ELSE "nothing"
    /\ UNCHANGED mapchange

LevelTic(exit) ==
    /\ Pending = "nothing" /\ gamestate = "LEVEL"
    /\ leveltime' = 2
    /\ gameaction' = IF exit THEN "completed" ELSE "nothing"
    /\ UNCHANGED <<gamestate, mapchange, lastlevel>>

IntermissionTic ==
    /\ IntermissionCount > 0
    /\ gamestate' = "INTERMISSION" /\ mapchange' = IntermissionCount - 1
    /\ gameaction' = IF mapchange' = 0 THEN "newgame" ELSE "nothing"
    /\ UNCHANGED <<leveltime, lastlevel>>

\* SV_GameTics with G_Ticker.
Frame(exit) ==
    /\ IF exit THEN Spend("exits") ELSE UNCHANGED left
    /\ VoteRuntic
    /\ NewLevel(exit) \/ LevelTic(exit) \/ (~exit /\ IntermissionTic)
    /\ UNCHANGED <<players, timeouts, cachevars>>

-----------------------------------------------------------------------------

Next ==
    \/ \E c \in Clients :
        \/ Connect(c) \/ Quit(c) \/ TimeoutPasses(c)
        \/ \E kind \in Kinds, arg \in 0 .. MaxMaps - 1 :
               (kind # "map" => arg = 0) /\ CallVote(c, kind, arg)
        \/ \E ballot \in {"yes", "no"} : VoteCmd(c, ballot)
    \/ \E c \in Askers :
        \/ \E question \in Questions \ {"nothing"} : Ask(c, question)
        \/ LoseRequest(c) \/ ServerReads(c) \/ ClientReads(c)
        \/ TimeRunsOut(c) \/ ClientTic(c)
    \/ \E position \in 0 .. MaxMaps, map \in Maps : InsertMap(position, map)
    \/ \E i \in 0 .. MaxMaps - 1 : RemoveMap(i)
    \/ ClearMaplist \/ ShuffleMaplist \/ GotoMap
    \/ \E exit \in BOOLEAN : Frame(exit)

\* The server and the clients run their tics, and the time of day passes.
Fairness ==
    /\ WF_vars(\E exit \in BOOLEAN : Frame(exit))
    /\ \A c \in Askers : WF_vars(TimeRunsOut(c)) /\ WF_vars(ClientTic(c))

Spec == Init /\ [][Next]_vars /\ Fairness

-----------------------------------------------------------------------------
(* What a team that runs such servers would want to be sure of.            *)

\* The current map of the list is the one that was changed to last, whatever
\* has been put before it, removed, shuffled or voted for since
\* (Maplist::insert, remove, clear and set_index keep the index in step).
IndexFollowsMap ==
    list.in_maplist = 1 =>
        /\ list.index < Size(list)
        /\ MapAt(list, list.index) = chosen

\* A client that is told its list is good has the list of the server as it was
\* when the server answered, if it has not given up a question before
\* (SV_Maplist: "They think their maplist is okay, and we haven't changed it").
PatientOkIsTrue ==
    \A c \in Askers \ late :
        answers[c] # << >> /\ Head(answers[c]).type = "status"
                          /\ Head(answers[c]).status = "OK"
            => cache[c].maplist = Head(answers[c]).list

\* A vote for a map that passes makes the server change to the map that the
\* vote was called for, although it keeps an index and the list may be edited
\* while the players vote (MapVote::tic compares versions); or the list has
\* become empty and nothing is changed.
MapVoteLoadsItsMap ==
    [][(VotePasses /\ vote.kind = "map" /\ vote' = NoVote)
            => chosen' = vote.named \/ Size(list) = 0]_vars

\* No vote passes in a level that began after it was called (Vote::ev_tic:
\* "interrupt if we're in intermission or on a new map").
NoVoteAcrossLevels == VotePasses => ~lastlevel

\* A vote comes to an end, though its countdown stands still in intermissions.
VotesEnd == vote # NoVote ~> vote = NoVote

\* Every question of a user is answered or given up, though requests get lost
\* and the server leaves some unanswered (MaplistCache::ev_tic).
QueriesEnd ==
    \A c \in Askers : cache[c].question # "nothing" ~> cache[c].question = "nothing"

=============================================================================
