----------------------------- MODULE Connections ------------------------------
(***************************************************************************)
(* How a client gets onto a server and off it again: the client's attempts *)
(* (client/src/cl_main.cpp, cl_game.cpp), the server's slots and ids       *)
(* (server/src/sv_main.cpp) and the datagrams between them.                *)
(*                                                                         *)
(* Of the packets of a connection the first is told apart, which the       *)
(* client takes for the server's consent, and the update that gives the    *)
(* client its place in the level; ReliableLink models packet numbers.  The *)
(* network loses, duplicates and reorders, within bounds, but a datagram   *)
(* does not take longer than the four seconds a client waits before it     *)
(* sends its request again.                                                *)
(***************************************************************************)
EXTENDS Integers, Sequences, FiniteSets, SequencesExt

CONSTANTS
    Clients,
    Banned,         \* clients the server refuses
    NumIds,         \* MAXPLAYERS - 1, the ids 1 .. 254
    Limits,         \* values of sv_maxclients
    Budgets         \* how often users act and things go wrong

ASSUME ClientsAssumption == Banned \subseteq Clients
ASSUME IdsAssumption == NumIds \in Nat \ {0}
\* (With sv_maxclients at its greatest value, 255, there is one id too few.)
ASSUME LimitsAssumption == Limits \subseteq 1 .. NumIds
ASSUME BudgetsAssumption ==
    \A budget \in Budgets :
        /\ budget.users \in [Clients -> Nat]
        /\ \A what \in {"limits", "votes", "errors", "losses", "dups"} :
               budget[what] \in Nat

Ids == 1 .. NumIds

\* What the client sends: a launcher's request, the request to connect, the
\* acknowledgement of the first or of a later packet, the good-bye.
Acks == {"ackfirst", "acklater"}
FromClient == {"launcher", "proto", "disconnect"} \cup Acks

\* What the server sends: server info, the first packet, a first packet that
\* refuses, the update, any other packet, a packet with svc_disconnect.
FromServer == {"info", "first", "refusal", "update", "later", "bye"}

VARIABLES
    \* the client
    gamestate,      \* "console", "connecting" or "connected"
    mo,             \* 1 if its player has an actor
    packetseq,      \* 0 if the first packet is entered among those received, else -1
    net_buffer,     \* acknowledgements that wait for CL_SendCmd
    \* the network
    toserver, toclient,
    \* the server
    players,        \* the slots, in order of arrival: the client's address, its id,
                    \* playerstate and last_sequence (the last packet acknowledged)
    freeids,        \* free_player_ids
    maxclients,     \* sv_maxclients
    recovered,      \* history: 1 once the server has recovered from an error, 2 once
                    \* it has then given out every id that was left
    left            \* what is left of the bounds

clientvars == <<gamestate, mo, packetseq, net_buffer>>
servervars == <<players, freeids, maxclients, recovered>>
vars == <<clientvars, toserver, toclient, servervars, left>>

Init ==
    /\ gamestate = [c \in Clients |-> "console"]
    /\ mo = [c \in Clients |-> 0] /\ packetseq = [c \in Clients |-> -1]
    /\ net_buffer = [c \in Clients |-> {}]
    /\ toserver = [c \in Clients |-> {}] /\ toclient = [c \in Clients |-> {}]
    /\ players = << >> /\ freeids = {}
    /\ maxclients \in Limits
    /\ recovered = 0 /\ left \in Budgets

Spend(what) == left[what] > 0 /\ left' = [left EXCEPT ![what] = @ - 1]
Act(c) == left.users[c] > 0 /\ left' = [left EXCEPT !.users[c] = @ - 1]

\* The network after some datagrams of a client have been sent.
SentToServer(c, types) == [toserver EXCEPT ![c] = @ \cup types]
SentToClient(c, types) == [toclient EXCEPT ![c] = @ \cup types]

-----------------------------------------------------------------------------
(* The client.                                                             *)

\* The connect command, from the console: connecttimeout is 0, and the next tic
\* sends the request (CL_RequestConnectInfo).
Connect(c) ==
    /\ gamestate[c] = "console" /\ Act(c)
    /\ gamestate' = [gamestate EXCEPT ![c] = "connecting"]
    /\ toserver' = SentToServer(c, {"launcher"})
    /\ UNCHANGED <<mo, packetseq, net_buffer, toclient, servervars>>

\* A client that is not connected keeps nothing of the connection it had.
Leave(c, next) ==
    /\ gamestate' = [gamestate EXCEPT ![c] = next]
    /\ mo' = [mo EXCEPT ![c] = 0]
    /\ packetseq' = [packetseq EXCEPT ![c] = -1]
    /\ net_buffer' = [net_buffer EXCEPT ![c] = {}]

\* CL_QuitNetGame2: only a connected client says good-bye.
GoodBye(c) == IF gamestate[c] = "connected" THEN {"disconnect"} ELSE {}

Disconnect(c) ==
    /\ gamestate[c] # "console" /\ Act(c)
    /\ Leave(c, "console")
    /\ toserver' = SentToServer(c, GoodBye(c))
    /\ UNCHANGED <<toclient, servervars>>

\* CL_Reconnect, and the request of the next tic.
Reconnect(c) ==
    /\ gamestate[c] = "connected" /\ Act(c)
    /\ Leave(c, "connecting")
    /\ toserver' = SentToServer(c, {"disconnect", "launcher"})
    /\ UNCHANGED <<toclient, servervars>>

\* The program ends without a word.
Crash(c) ==
    /\ gamestate[c] = "connected" /\ Act(c)
    /\ Leave(c, "console")
    /\ UNCHANGED <<toserver, toclient, servervars>>

\* connecttimeout has counted down without an answer, and the next request goes
\* out (CL_RequestConnectInfo).
RequestConnectInfo(c) ==
    /\ gamestate[c] = "connecting"
    /\ toserver[c] = {} /\ toclient[c] = {}
    /\ toserver' = SentToServer(c, {"launcher"})
    /\ UNCHANGED <<clientvars, toclient, servervars, left>>

\* A datagram is taken from the network, or a copy of it is.
Taken(network, c, type) ==
    \/ network' = [network EXCEPT ![c] = @ \ {type}] /\ UNCHANGED left
    \/ network' = network /\ Spend("dups")

\* A console client has no server it listens to.
Ignore(c, type) ==
    /\ gamestate[c] = "console"
    /\ UNCHANGED <<clientvars, toserver>>

\* CL_PrepareConnect and CL_TryToConnect.
ReadInfo(c, type) ==
    /\ gamestate[c] = "connecting" /\ type = "info"
    /\ toserver' = SentToServer(c, {"proto"})
    /\ UNCHANGED clientvars

\* CL_Connect acknowledges before it reads.
ReadFirst(c, type) ==
    /\ gamestate[c] = "connecting" /\ type = "first"
    /\ gamestate' = [gamestate EXCEPT ![c] = "connected"]
    /\ toserver' = SentToServer(c, {"ackfirst"})
    /\ UNCHANGED <<mo, packetseq, net_buffer>>

\* A bug to catch: the client that was refused tries again.
ReadRefusalRetry(c, type) ==
    /\ gamestate[c] = "connecting" /\ type = "refusal"
    /\ toserver' = SentToServer(c, {"ackfirst", "disconnect"})
    /\ UNCHANGED clientvars

\* CL_Connect, with the svc_disconnect that says why not.
ReadRefusal(c, type) ==
    /\ gamestate[c] = "connecting" /\ type = "refusal"
    /\ Leave(c, "console")
    /\ toserver' = SentToServer(c, {"ackfirst", "disconnect"})

\* "Got unknown challenge": a packet before the first.
ReadUnknown(c, type) ==
    /\ gamestate[c] = "connecting" /\ type \in {"update", "later", "bye"}
    /\ toserver' = SentToServer(c, {"disconnect"})
    /\ UNCHANGED clientvars

\* CL_ReadPacketHeader leaves the acknowledgement in net_buffer, and CL_SendCmd
\* sends nothing as long as the player has no actor.
Acknowledge(c, ack, actor) ==
    LET acks == net_buffer[c] \cup {ack} IN
    /\ mo' = [mo EXCEPT ![c] = actor]
    /\ net_buffer' = [net_buffer EXCEPT ![c] = IF actor = 1 THEN {} ELSE acks]
    /\ toserver' = SentToServer(c, IF actor = 1 THEN acks ELSE {})

\* CL_Connect has not entered the first packet among those received: it counts as
\* new when it comes again.
ReadAgain(c, type) ==
    /\ gamestate[c] = "connected" /\ type = "first" /\ packetseq[c] = -1
    /\ packetseq' = [packetseq EXCEPT ![c] = 0]
    /\ Acknowledge(c, "ackfirst", mo[c])
    /\ UNCHANGED gamestate

\* "Duplicate packet, burn it and return early."
ReadDuplicate(c, type) ==
    /\ gamestate[c] = "connected" /\ type = "first" /\ packetseq[c] = 0
    /\ UNCHANGED <<clientvars, toserver>>

\* CL_ParseCommands; the update spawns the player (CL_SpawnPlayer).
ReadLater(c, type) ==
    /\ gamestate[c] = "connected" /\ type \in {"update", "later"}
    /\ Acknowledge(c, "acklater", IF type = "update" THEN 1 ELSE mo[c])
    /\ UNCHANGED <<gamestate, packetseq>>

\* svc_disconnect, and the server info that a connected client takes for a packet
\* with flags it does not know.
ReadEnd(c, type) ==
    /\ gamestate[c] = "connected" /\ type \in {"bye", "refusal", "info"}
    /\ Leave(c, "console")
    /\ toserver' = SentToServer(c, {"disconnect"})

ClientReads(c, type) ==
    /\ type \in toclient[c]
    /\ \/ Ignore(c, type) \/ ReadInfo(c, type) \/ ReadFirst(c, type)
       \/ ReadRefusal(c, type) \/ ReadUnknown(c, type) \/ ReadAgain(c, type)
       \/ ReadDuplicate(c, type) \/ ReadLater(c, type) \/ ReadEnd(c, type)
    /\ Taken(toclient, c, type)
    /\ UNCHANGED servervars

-----------------------------------------------------------------------------
(* The server.                                                             *)

\* SV_FindPlayerByAddr.
SlotOf(c) == SelectInSeq(players, LAMBDA slot : slot.address = c)
HasSlot(c) == SlotOf(c) # 0
State(c) == IF HasSlot(c) THEN players[SlotOf(c)].playerstate ELSE "none"

WithState(c, state) == [players EXCEPT ![SlotOf(c)].playerstate = state]

\* SV_GetFreeClient: the set of free ids is initialized when it is empty.
InitializedIds == IF freeids = {} THEN Ids ELSE freeids

LowestId == CHOOSE id \in InitializedIds : \A other \in InitializedIds : id <= other

\* SV_SendServerInfo.  (A token lives for twenty seconds: an answer to it that
\* comes later is as good as lost.)
SendServerInfo(c) ==
    /\ ~HasSlot(c)
    /\ toclient' = SentToClient(c, {"info"})
    /\ UNCHANGED servervars

\* SV_ConnectClient with no slot left.
RefuseFull(c) ==
    /\ ~HasSlot(c) /\ Len(players) >= maxclients
    /\ toclient' = SentToClient(c, {"refusal"})
    /\ UNCHANGED servervars

\* SV_ConnectClient: the slot of a client that is refused is dropped at once.
ConnectClient(c) ==
    /\ ~HasSlot(c) /\ Len(players) < maxclients
    /\ players' = Append(players,
            [address |-> c, id |-> LowestId, last_sequence |-> "none",
             playerstate |-> IF c \in Banned THEN "DISCONNECT" ELSE "CONTACT"])
    /\ freeids' = InitializedIds \ {LowestId}
    /\ toclient' = SentToClient(c, {IF c \in Banned THEN "refusal" ELSE "first"})
    /\ recovered' = IF recovered = 1 /\ freeids = {} /\ players # << >>
                    THEN 2 ELSE recovered
    /\ UNCHANGED maxclients

\* SV_ParseCommands: a request from a known address is an unknown command, and
\* its sender is dropped (SV_DropClient).
DropClient(c) ==
    /\ State(c) \in {"CONTACT", "LIVE"}
    /\ players' = WithState(c, "DISCONNECT")
    /\ toclient' = SentToClient(c, {"bye"})
    /\ UNCHANGED <<freeids, maxclients, recovered>>

\* SV_DisconnectClient.
DisconnectClient(c) ==
    /\ State(c) \in {"CONTACT", "LIVE"}
    /\ players' = WithState(c, "DISCONNECT")
    /\ UNCHANGED <<freeids, maxclients, recovered, toclient>>

\* SV_AcknowledgePacket for the first packet, with SV_ConnectClient2.
AcknowledgeFirst(c) ==
    /\ State(c) \in {"CONTACT", "LIVE"}
    /\ players' = [players EXCEPT ![SlotOf(c)].last_sequence = "first",
                                  ![SlotOf(c)].playerstate = "LIVE"]
    /\ toclient' = SentToClient(c, {"update"})
    /\ UNCHANGED <<freeids, maxclients, recovered>>

\* SV_AcknowledgePacket for a later packet: those missed in between are sent
\* again, the first always, the update unless it is this one.
AcknowledgeLater(c) ==
    /\ State(c) \in {"CONTACT", "LIVE"}
    /\ players' = [players EXCEPT ![SlotOf(c)].last_sequence = "later"]
    /\ \/ toclient' = SentToClient(c, IF players[SlotOf(c)].last_sequence = "none"
                                      THEN {"first"} ELSE {})
       \/ /\ players[SlotOf(c)].last_sequence = "first"
          /\ toclient' = SentToClient(c, {"update"})
    /\ UNCHANGED <<freeids, maxclients, recovered>>

\* What is not for it, or from a client that is on its way out, is ignored.
IgnoreDatagram(c, type) ==
    /\ \/ State(c) = "none" /\ type \notin {"launcher", "proto"}
       \/ State(c) = "DISCONNECT"
    /\ UNCHANGED <<servervars, toclient>>

\* SV_GetPackets.
ServerReads(c, type) ==
    /\ type \in toserver[c]
    /\ \/ type = "launcher" /\ SendServerInfo(c)
       \/ type = "proto" /\ RefuseFull(c)
       \/ type = "proto" /\ ConnectClient(c)
       \/ type \in {"launcher", "proto"} /\ DropClient(c)
       \/ type = "disconnect" /\ DisconnectClient(c)
       \/ type = "ackfirst" /\ AcknowledgeFirst(c)
       \/ type = "acklater" /\ AcknowledgeLater(c)
       \/ IgnoreDatagram(c, type)
    /\ Taken(toserver, c, type)
    /\ UNCHANGED clientvars

\* SV_SendPackets: there is always something to send, if only the time that is
\* left.  One packet per client is under way.
SendPacket(c) ==
    /\ State(c) \in {"LIVE", "DISCONNECT"}
    /\ "later" \notin toclient[c] /\ "acklater" \notin toserver[c]
    /\ toclient' = SentToClient(c, {"later"})
    /\ UNCHANGED <<clientvars, toserver, servervars, left>>

\* Vote::parse sends to everybody, those included who have not acknowledged the
\* first packet.
EndVote ==
    /\ Spend("votes")
    /\ toclient' = [c \in Clients |->
                       IF HasSlot(c) THEN toclient[c] \cup {"later"} ELSE toclient[c]]
    /\ UNCHANGED <<clientvars, toserver, servervars>>

\* A client sends nothing when it is gone, when it has no actor, and, after 65
\* tics, when it hears nothing (noservermsgs).
Silent(c) ==
    /\ toserver[c] = {}
    /\ \/ gamestate[c] = "console"
       \/ gamestate[c] = "connected" /\ (mo[c] = 0 \/ State(c) = "CONTACT")

\* A bug to catch: only those who have entered are timed out.
CheckTimeoutsLive(c) ==
    /\ Silent(c) /\ State(c) = "LIVE" /\ DropClient(c)
    /\ UNCHANGED <<clientvars, toserver, left>>

\* SV_CheckTimeouts: a connected client goes on sending, and one that connects
\* tries again long before CLIENT_TIMEOUT.
CheckTimeouts(c) ==
    /\ Silent(c) /\ DropClient(c)
    /\ UNCHANGED <<clientvars, toserver, left>>

IdsOf(slots) == {slot.id : slot \in ToSet(slots)}

\* The loop at the end of SV_RunTics removes the slots on their way out.
Remaining(slots) ==
    LET rest[n \in 0 .. Len(slots)] ==
            IF n = 0 THEN << >>
            ELSE IF slots[n].playerstate = "DISCONNECT" THEN rest[n - 1]
            ELSE Append(rest[n - 1], slots[n])
    IN  rest[Len(slots)]

Leaving(slots) == {i \in DOMAIN slots : slots[i].playerstate = "DISCONNECT"}

\* SV_RemoveDisconnectedPlayer, for all of them.
RemoveDisconnected ==
    /\ Leaving(players) # {}
    /\ players' = Remaining(players)
    /\ freeids' = freeids \cup {players[i].id : i \in Leaving(players)}
    /\ UNCHANGED <<clientvars, toserver, toclient, maxclients, recovered, left>>

\* What is sent when slots are dropped without being asked.
Byes(slots) ==
    [c \in Clients |-> IF \E slot \in ToSet(slots) : slot.address = c
                       THEN toclient[c] \cup {"bye"} ELSE toclient[c]]

\* A bug to catch: who is sent away by a lower limit keeps his id.
SetMaxclientsForgetful(limit) ==
    /\ limit # maxclients /\ Spend("limits")
    /\ maxclients' = limit
    /\ LET kept == IF Len(players) < limit THEN Len(players) ELSE limit
           dropped == SubSeq(players, kept + 1, Len(players))
       IN  players' = SubSeq(players, 1, kept) /\ toclient' = Byes(dropped)
    /\ UNCHANGED <<clientvars, toserver, freeids, recovered>>

\* sv_maxclients: the last to come are dropped and removed at once.
SetMaxclients(limit) ==
    /\ limit # maxclients /\ Spend("limits")
    /\ maxclients' = limit
    /\ LET kept == IF Len(players) < limit THEN Len(players) ELSE limit
           dropped == SubSeq(players, kept + 1, Len(players))
       IN  /\ players' = SubSeq(players, 1, kept)
           /\ freeids' = freeids \cup IdsOf(dropped)
           /\ toclient' = Byes(dropped)
    /\ UNCHANGED <<clientvars, toserver, recovered>>

\* D_DoomLoop after a recoverable error (SV_SendDisconnectSignal): the slots are
\* cleared, and their ids are not given back.
RecoverFromError ==
    /\ Spend("errors")
    /\ players' = << >> /\ toclient' = Byes(players)
    /\ recovered' = IF recovered = 0 THEN 1 ELSE recovered
    /\ UNCHANGED <<clientvars, toserver, freeids, maxclients>>

-----------------------------------------------------------------------------

Lose(c) ==
    /\ Spend("losses")
    /\ \/ \E type \in toserver[c] :
              toserver' = [toserver EXCEPT ![c] = @ \ {type}] /\ UNCHANGED toclient
       \/ \E type \in toclient[c] :
              toclient' = [toclient EXCEPT ![c] = @ \ {type}] /\ UNCHANGED toserver
    /\ UNCHANGED <<clientvars, servervars>>

Next ==
    \/ \E c \in Clients :
        \/ Connect(c) \/ Disconnect(c) \/ Reconnect(c) \/ Crash(c)
        \/ RequestConnectInfo(c)
        \/ \E type \in FromServer : ClientReads(c, type)
        \/ \E type \in FromClient : ServerReads(c, type)
        \/ SendPacket(c) \/ CheckTimeouts(c) \/ Lose(c)
    \/ RemoveDisconnected \/ EndVote \/ RecoverFromError
    \/ \E limit \in Limits : SetMaxclients(limit)

\* Programs run, time passes, and a datagram that is not lost arrives in time.
Fairness ==
    /\ \A c \in Clients :
        /\ WF_vars(RequestConnectInfo(c))
        /\ WF_vars(\E type \in FromServer \ {"later"} : ClientReads(c, type))
        /\ WF_vars(ClientReads(c, "later"))
        /\ WF_vars(\E type \in FromClient \ {"acklater"} : ServerReads(c, type))
        /\ WF_vars(ServerReads(c, "acklater"))
        /\ WF_vars(SendPacket(c)) /\ WF_vars(CheckTimeouts(c))
    /\ WF_vars(RemoveDisconnected)

Spec == Init /\ [][Next]_vars
FairSpec == Spec /\ Fairness

-----------------------------------------------------------------------------
(* What the players and the administrator count on.                        *)

\* No id is given to two players, in whatever order clients come, leave, are dropped
\* or are sent away by a lower limit, and none is lost (SV_GetFreeClient,
\* SV_RemoveDisconnectedPlayer and the callback of sv_maxclients).  When the server
\* recovers from an error it does lose ids, and once it has given out those that were
\* left, all of them count as free, whoever has them.
IdsAreConserved ==
    LET used == IdsOf(players) IN
    /\ recovered < 2 => Cardinality(used) = Len(players) /\ used \cap freeids = {}
    /\ recovered = 0 => used \cup freeids \in {{}, Ids}

\* Whoever tries to connect gets onto the server or is sent back to the console:
\* nothing that is lost, comes twice or late leaves him waiting forever, although
\* the server first drops what an attempt before has left there
\* (CL_RequestConnectInfo, SV_ParseCommands, SV_RunTics).
AttemptsEnd ==
    \A c \in Clients : gamestate[c] = "connecting" ~> gamestate[c] # "connecting"

\* Client and server agree that the client is in the level.
InGame(c) == gamestate[c] = "connected" /\ mo[c] = 1 /\ State(c) = "LIVE"

\* A slot is used or freed: whatever gets lost on the way into the level, and
\* whether its client leaves with a good-bye or without, no slot stays taken for
\* nothing (SV_AcknowledgePacket, SV_CheckTimeouts, SV_RunTics).
SlotsAreUsed ==
    \A c \in Clients : HasSlot(c) /\ ~InGame(c) ~> ~HasSlot(c) \/ InGame(c)

=============================================================================
