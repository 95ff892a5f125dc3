---------------------------- MODULE ReliableLink ----------------------------
(***************************************************************************)
(* The sequenced datagram channel between the server and one client:       *)
(* server/src/sv_rproto.cpp (sending, acknowledging, retransmitting),      *)
(* MSG_WriteSVC and the buffers of common/i_net (overflow, early flush),   *)
(* and the client's packet header and acknowledgements in                  *)
(* client/src/cl_main.cpp and cl_game.cpp.                                 *)
(*                                                                         *)
(* The model starts where SV_ConnectClient ends: packet 0, which carries   *)
(* the console-player message, is on the wire and the client has not       *)
(* answered.  Reliable messages are numbered in the order they are         *)
(* written, so a set of them stands for a buffer; unreliable messages      *)
(* only matter for whether a packet is sent at all.                        *)
(***************************************************************************)
EXTENDS Integers, FiniteSets, Sequences

CONSTANTS
  Window,     \* slots of oldpackets and of packetseq (256 in the code)
  FlushAt,    \* messages that fill a packet (MAX_UDP_SIZE)
  Capacity,   \* messages that overflow a buffer (MAX_UDP_PACKET)
  Unreliable, \* whether unreliable messages are written at all
  MaxMsgs,    \* bound: reliable messages the game writes
  MaxSeq,     \* bound: packets the server numbers
  MaxLoss,    \* bound: datagrams the network loses
  MaxDup,     \* bound: datagrams the network duplicates
  Disconnect  \* the message svc_disconnect

ASSUME WindowAssumption   == Window \in Nat \ {0}
ASSUME BufferAssumption   == /\ FlushAt \in Nat \ {0} /\ Capacity \in Nat
                             /\ FlushAt <= Capacity
ASSUME BoundsAssumption   == /\ MaxMsgs \in Nat /\ MaxSeq \in Nat
                             /\ MaxLoss \in Nat /\ MaxDup \in Nat
                             /\ Unreliable \in BOOLEAN
ASSUME DisconnectNotANumber == Disconnect \notin Nat

VARIABLES
  \* the server's player_t and client_t
  playerstate,    \* "CONTACT" until packet 0 is acknowledged, then "INGAME",
                  \* "DISCONNECT" once dropped, "GONE" once erased
  reliablebuf,    \* reliable messages waiting (once overflowed: the space used)
  overflowed,     \* reliablebuf.overflowed
  netbuf,         \* whether unreliable messages are waiting
  sequence,       \* number of the next packet
  last_sequence,  \* the last acknowledgement processed
  oldpackets,     \* ring of reliable data kept for retransmission
  net_message,    \* commands of the datagram SV_ParseCommands is reading
  \* the network
  s2c, c2s,       \* datagrams in flight; a duplicate is one delivered twice
  losses, dups,
  \* the client
  cstate,         \* "CONNECTING", "CONNECTED" or "DISCONNECTED"
  packetseq,      \* ring of the sequence numbers received
  net_buffer,     \* commands waiting for the next CL_SendCmd
  \* history
  nextmsg,        \* number of the next reliable message
  sent,           \* the reliable data first sent under each sequence number
  received,       \* sequence numbers the client accepted
  applied,        \* messages the client applied
  reapplied       \* messages the client applied more than once

server  == <<playerstate, reliablebuf, overflowed, netbuf, sequence,
             last_sequence, oldpackets>>
client  == <<cstate, packetseq, net_buffer>>
history == <<received, applied, reapplied>>
vars    == <<server, net_message, s2c, c2s, losses, dups, client,
             nextmsg, sent, history>>

-----------------------------------------------------------------------------
ConsolePlayer == 0               \* the message SV_ConnectClient puts in packet 0
Slots         == 0 .. Window - 1
Slot(seq)     == seq % Window    \* seq & PACKET_OLD_MASK, seq & PACKET_SEQ_MASK
Messages      == Nat \cup {Disconnect}
Packet(seq, data)    == [seq |-> seq, data |-> data, copy |-> "first"]
OldPacket(seq, data) == [seq |-> seq, data |-> data, copy |-> "again"]
Ack(seq)          == [cmd |-> "ack", seq |-> seq]
Quit              == [cmd |-> "disconnect", seq |-> -1]

(***************************************************************************)
(* The network loses, duplicates and reorders, but no datagram outlives    *)
(* the sending of Window later ones (256 packets, about 7 s at 35 Hz).     *)
(***************************************************************************)
LifetimeHolds == \A p \in s2c : p.seq >= sequence + 1 - Window

Init ==
  /\ playerstate = "CONTACT"
  /\ reliablebuf = {} /\ overflowed = FALSE /\ netbuf = FALSE
  /\ sequence = 1 /\ last_sequence = -1
  /\ oldpackets = [i \in Slots |-> IF i = 0 THEN OldPacket(0, {ConsolePlayer})
                                            ELSE OldPacket(-1, {})]
  /\ net_message = <<>>
  /\ s2c = {Packet(0, {ConsolePlayer})} /\ c2s = {}
  /\ losses = 0 /\ dups = 0
  /\ cstate = "CONNECTING"
  /\ packetseq = [i \in Slots |-> -1] /\ net_buffer = <<>>
  /\ nextmsg = 1 /\ sent = [s \in {0} |-> {ConsolePlayer}]
  /\ received = {} /\ applied = {} /\ reapplied = {}

-----------------------------------------------------------------------------
(* The server *)

(* Mutants of Transmit: the number wraps with the ring; old.data not cleared. *)
TransmitWrapping(data) ==
  /\ sequence < MaxSeq /\ LifetimeHolds
  /\ sequence' = (sequence + 1) % Window
  /\ oldpackets' = [oldpackets EXCEPT ![Slot(sequence)] =
                      OldPacket(IF data = {} THEN -1 ELSE sequence, data)]
  /\ s2c' = s2c \cup {Packet(sequence, data)}
  /\ sent' = [s \in 0 .. sequence |-> IF s = sequence THEN data ELSE sent[s]]

TransmitAppending(data) ==
  /\ sequence < MaxSeq /\ LifetimeHolds
  /\ sequence' = sequence + 1
  /\ oldpackets' = [oldpackets EXCEPT ![Slot(sequence)] =
                      OldPacket(IF data = {} THEN -1 ELSE sequence, @.data \cup data)]
  /\ s2c' = s2c \cup {Packet(sequence, data)}
  /\ sent' = [s \in 0 .. sequence |-> IF s = sequence THEN data ELSE sent[s]]

(***************************************************************************)
(* The packet-building half of SV_SendPacket: the slot keeps the packet    *)
(* SendOldPacket would send, or -1 when there is no reliable data.         *)
(***************************************************************************)
Transmit(data) ==
  /\ sequence < MaxSeq /\ LifetimeHolds
  /\ sequence' = sequence + 1
  /\ oldpackets' = [oldpackets EXCEPT ![Slot(sequence)] =
                      OldPacket(IF data = {} THEN -1 ELSE sequence, data)]
  /\ s2c' = s2c \cup {Packet(sequence, data)}
  /\ sent' = [s \in 0 .. sequence |-> IF s = sequence THEN data ELSE sent[s]]

(***************************************************************************)
(* SV_SendPacket on an overflowed buffer discards what is buffered and     *)
(* drops the client: svc_disconnect goes out alone, and the broadcast of   *)
(* SV_DisconnectClient, made once per player, starts the buffer again.     *)
(***************************************************************************)
Farewell == IF playerstate = "DISCONNECT" THEN 0 ELSE 1

DropOverflowed(later) ==
  /\ Transmit({Disconnect})
  /\ reliablebuf' = nextmsg .. nextmsg + Farewell + later - 1
  /\ nextmsg' = nextmsg + Farewell + later
  /\ overflowed' = FALSE /\ netbuf' = FALSE

(* SV_SendPacket, called for every player from SV_SendPackets. *)
SendPacket ==
  /\ playerstate \in {"INGAME", "DISCONNECT"}
  /\ \/ /\ overflowed
        /\ DropOverflowed(0)
        /\ playerstate' = "DISCONNECT"
     \/ /\ ~overflowed
        /\ reliablebuf # {} \/ netbuf
        /\ Transmit(reliablebuf)
        /\ reliablebuf' = {} /\ netbuf' = FALSE
        /\ UNCHANGED <<playerstate, overflowed, nextmsg>>
  /\ UNCHANGED <<last_sequence, net_message, c2s, losses, dups, client, history>>

(***************************************************************************)
(* MSG_WriteSVC into reliablebuf.  When the message does not fit a packet, *)
(* SV_SendPackets runs first, which skips a player in state PST_CONTACT;   *)
(* SZ_GetSpace then empties a full buffer and marks it overflowed.         *)
(***************************************************************************)
Flushes(state) == Cardinality(reliablebuf) >= FlushAt /\ state # "CONTACT"
Fills          == Cardinality(reliablebuf) >= Capacity

(* Mutant of WriteSVC: the message that caused the flush is appended to what was sent. *)
WriteSVCKeeping(state) ==
  \/ /\ Flushes(state) /\ overflowed
     /\ DropOverflowed(1)
  \/ /\ Flushes(state) /\ ~overflowed
     /\ Transmit(reliablebuf)
     /\ reliablebuf' = reliablebuf \cup {nextmsg} /\ nextmsg' = nextmsg + 1
     /\ netbuf' = FALSE /\ UNCHANGED overflowed
  \/ /\ ~Flushes(state)
     /\ IF Fills
        THEN reliablebuf' = {nextmsg} /\ overflowed' = TRUE
        ELSE reliablebuf' = reliablebuf \cup {nextmsg} /\ UNCHANGED overflowed
     /\ nextmsg' = nextmsg + 1
     /\ UNCHANGED <<netbuf, sequence, oldpackets, s2c, sent>>

WriteSVC(state) ==
  \/ /\ Flushes(state) /\ overflowed
     /\ DropOverflowed(1)
  \/ /\ Flushes(state) /\ ~overflowed
     /\ Transmit(reliablebuf)
     /\ reliablebuf' = {nextmsg} /\ nextmsg' = nextmsg + 1
     /\ netbuf' = FALSE /\ UNCHANGED overflowed
  \/ /\ ~Flushes(state)
     /\ IF Fills
        THEN reliablebuf' = {nextmsg} /\ overflowed' = TRUE
        ELSE reliablebuf' = reliablebuf \cup {nextmsg} /\ UNCHANGED overflowed
     /\ nextmsg' = nextmsg + 1
     /\ UNCHANGED <<netbuf, sequence, oldpackets, s2c, sent>>

(* The game sends or broadcasts a reliable message that reaches this player. *)
WriteReliable ==
  /\ playerstate # "GONE" /\ nextmsg < MaxMsgs
  /\ WriteSVC(playerstate)
  /\ playerstate' = IF Flushes(playerstate) /\ overflowed THEN "DISCONNECT"
                                                           ELSE playerstate
  /\ UNCHANGED <<last_sequence, net_message, c2s, losses, dups, client, history>>

(* The game writes an unreliable message (positions, the gametic). *)
WriteUnreliable ==
  /\ Unreliable /\ playerstate # "GONE" /\ ~netbuf
  /\ netbuf' = TRUE
  /\ UNCHANGED <<playerstate, reliablebuf, overflowed, sequence, last_sequence,
                 oldpackets, net_message, s2c, c2s, losses, dups, client,
                 nextmsg, sent, history>>

(***************************************************************************)
(* SV_DropClient on a player still there: kicked, timed out, or caught     *)
(* with a datagram that does not parse, whose remainder is not read.  A    *)
(* buffer that would be flushed first is left to SendPacket.               *)
(***************************************************************************)
DropClient ==
  /\ playerstate \in {"CONTACT", "INGAME"}
  /\ \/ /\ overflowed \/ Fills
        /\ DropOverflowed(0)
     \/ /\ ~overflowed /\ ~Flushes(playerstate)
        /\ ~Fills
        /\ Transmit(reliablebuf \cup {Disconnect})
        /\ reliablebuf' = {nextmsg} /\ nextmsg' = nextmsg + 1
        /\ netbuf' = FALSE /\ UNCHANGED overflowed
  /\ playerstate' = "DISCONNECT" /\ net_message' = <<>>
  /\ UNCHANGED <<last_sequence, c2s, losses, dups, client, history>>

(* The end of SV_RunTics erases the disconnected players. *)
RemoveDisconnected ==
  /\ playerstate = "DISCONNECT" /\ net_message = <<>>
  /\ playerstate' = "GONE"
  /\ UNCHANGED <<reliablebuf, overflowed, netbuf, sequence, last_sequence,
                 oldpackets, net_message, s2c, c2s, losses, dups, client,
                 nextmsg, sent, history>>

(***************************************************************************)
(* SV_GetPackets: a datagram from a known, not yet disconnected player is  *)
(* handed to SV_ParseCommands; any other is dropped.  A datagram that      *)
(* stays in flight will be delivered a second time.                        *)
(***************************************************************************)
Delivered(d, flight, left) ==
  \/ left = flight \ {d} /\ UNCHANGED dups
  \/ left = flight /\ dups < MaxDup /\ dups' = dups + 1

GetPacket(d) ==
  /\ net_message = <<>> /\ d \in c2s
  /\ c2s' \in {c2s, c2s \ {d}} /\ Delivered(d, c2s, c2s')
  /\ net_message' = IF playerstate \in {"CONTACT", "INGAME"} THEN d ELSE <<>>
  /\ UNCHANGED <<server, s2c, losses, client, nextmsg, sent, history>>

Parse(cmd) == net_message # <<>> /\ Head(net_message).cmd = cmd

(***************************************************************************)
(* The gap between two acknowledgements, the part of it whose slots do not *)
(* hold it (reused, or sent without reliable data), and the part resent:   *)
(* SV_AcknowledgePacket gives up at the first packet it does not hold.     *)
(***************************************************************************)
Missed(seq) == last_sequence + 1 .. seq - 1
Unkept(seq) == {s \in Missed(seq) : oldpackets[Slot(s)].seq # s}
\* Mutant of Resent: the loop starts one packet late.
ResentLate(seq) == {s \in Missed(seq) \ {last_sequence + 1} :
                      \A u \in Unkept(seq) : s < u}
Resent(seq) == {s \in Missed(seq) : \A u \in Unkept(seq) : s < u}

AcknowledgePacket ==
  /\ Parse("ack")
  /\ LET seq == Head(net_message).seq
     IN /\ seq # 0
        /\ last_sequence' = seq
        /\ s2c' = s2c \cup {oldpackets[Slot(s)] : s \in Resent(seq)}
  /\ net_message' = Tail(net_message)
  /\ UNCHANGED <<playerstate, reliablebuf, overflowed, netbuf, sequence,
                 oldpackets, c2s, losses, dups, client, nextmsg, sent, history>>

(***************************************************************************)
(* SV_AcknowledgePacket of packet 0 ends in SV_ConnectClient2, whatever    *)
(* state the player is in.  The settings and level it writes are one       *)
(* message here; PST_ENTER is assigned after the settings, so also after a *)
(* drop caused by writing them.                                            *)
(***************************************************************************)
ConnectClient2 ==
  /\ Parse("ack") /\ Head(net_message).seq = 0
  /\ last_sequence' = 0
  /\ WriteSVC("INGAME")
  /\ playerstate' = "INGAME"
  /\ net_message' = Tail(net_message)
  /\ UNCHANGED <<c2s, losses, dups, client, history>>

(* clc_disconnect: SV_DisconnectClient, and the datagram is read no further. *)
DisconnectClient ==
  /\ Parse("disconnect")
  /\ net_message' = <<>>
  /\ IF playerstate = "DISCONNECT"
     THEN UNCHANGED <<playerstate, reliablebuf, overflowed, netbuf, sequence,
                      oldpackets, s2c, sent, nextmsg>>
     ELSE WriteSVC(playerstate) /\ playerstate' = "DISCONNECT"
  /\ UNCHANGED <<last_sequence, c2s, losses, dups, client, history>>

-----------------------------------------------------------------------------
(* The client *)

(***************************************************************************)
(* CL_ParseCommands on a packet's messages.  svc_disconnect, always the    *)
(* last of its packet, ends in CL_QuitNetGame, which answers the server.   *)
(***************************************************************************)
ParseCommands(p) ==
  /\ applied' = applied \cup p.data
  /\ reapplied' = reapplied \cup (p.data \cap applied)
  /\ received' = received \cup {p.seq}
  /\ cstate' = IF Disconnect \in p.data THEN "DISCONNECTED" ELSE "CONNECTED"

(* A packet reaches the client. *)
Arrives(p) ==
  /\ p \in s2c
  /\ s2c' \in {s2c, s2c \ {p}} /\ Delivered(p, s2c, s2c')
  /\ UNCHANGED <<playerstate, reliablebuf, overflowed, netbuf, sequence,
                 last_sequence, oldpackets, net_message, losses, nextmsg, sent>>

(***************************************************************************)
(* While connecting, a packet numbered 0 starts CL_Connect: the table of   *)
(* received packets is cleared and packet 0 acknowledged at once, outside  *)
(* CL_ReadPacketHeader.  Any other packet is answered with clc_disconnect. *)
(***************************************************************************)
Connect(p) ==
  /\ cstate = "CONNECTING" /\ p.seq = 0
  /\ Arrives(p)
  /\ packetseq' = [i \in Slots |-> -1]
  /\ c2s' = c2s \cup {<<Ack(0)>>} /\ net_buffer' = <<>>
  /\ ParseCommands(p)

UnknownChallenge(p) ==
  /\ cstate = "CONNECTING" /\ p.seq # 0
  /\ Arrives(p)
  /\ c2s' = c2s \cup {<<Quit>>}
  /\ UNCHANGED <<client, history>>

(* Mutant of ReadPacket: the packet is not entered in packetseq. *)
ReadPacketForgetting(p) ==
  /\ cstate = "CONNECTED"
  /\ Arrives(p)
  /\ IF packetseq[Slot(p.seq)] = p.seq
     THEN UNCHANGED <<c2s, client, history>>
     ELSE /\ ParseCommands(p) /\ UNCHANGED packetseq
          /\ IF Disconnect \in p.data
             THEN net_buffer' = <<>> /\ c2s' = c2s \cup {<<Quit>>}
             ELSE net_buffer' = Append(net_buffer, Ack(p.seq)) /\ UNCHANGED c2s

(* CL_ReadPacketHeader: duplicates are burned, the rest acknowledged. *)
ReadPacket(p) ==
  /\ cstate = "CONNECTED"
  /\ Arrives(p)
  /\ IF packetseq[Slot(p.seq)] = p.seq
     THEN UNCHANGED <<c2s, client, history>>
     ELSE /\ packetseq' = [packetseq EXCEPT ![Slot(p.seq)] = p.seq]
          /\ ParseCommands(p)
          /\ IF Disconnect \in p.data
             THEN net_buffer' = <<>> /\ c2s' = c2s \cup {<<Quit>>}
             ELSE net_buffer' = Append(net_buffer, Ack(p.seq)) /\ UNCHANGED c2s

(* A client that has quit reads nothing any more. *)
IgnorePacket(p) ==
  /\ cstate = "DISCONNECTED" /\ Arrives(p)
  /\ UNCHANGED <<c2s, client, history>>

(* CL_SendCmd sends what the tic has put in net_buffer. *)
SendCmd ==
  /\ cstate = "CONNECTED" /\ net_buffer # <<>>
  /\ c2s' = c2s \cup {net_buffer} /\ net_buffer' = <<>>
  /\ UNCHANGED <<server, net_message, s2c, losses, dups, cstate, packetseq,
                 nextmsg, sent, history>>

(* CL_QuitNetGame on the player's own initiative. *)
QuitNetGame ==
  /\ cstate = "CONNECTED" /\ cstate' = "DISCONNECTED"
  /\ c2s' = c2s \cup {<<Quit>>} /\ net_buffer' = <<>>
  /\ UNCHANGED <<server, net_message, s2c, losses, dups, packetseq,
                 nextmsg, sent, history>>

-----------------------------------------------------------------------------
(* The network loses datagrams. *)
Lose ==
  /\ losses < MaxLoss /\ losses' = losses + 1
  /\ \/ \E p \in s2c : s2c' = s2c \ {p} /\ UNCHANGED c2s
     \/ \E d \in c2s : c2s' = c2s \ {d} /\ UNCHANGED s2c
  /\ UNCHANGED <<server, net_message, dups, client, nextmsg, sent, history>>

ServerStep == \/ SendPacket \/ WriteReliable \/ WriteUnreliable \/ DropClient
              \/ RemoveDisconnected \/ AcknowledgePacket \/ ConnectClient2
              \/ DisconnectClient \/ \E d \in c2s : GetPacket(d)
ClientReads(p) == \/ Connect(p) \/ UnknownChallenge(p) \/ ReadPacket(p)
                  \/ IgnorePacket(p)
ClientStep == SendCmd \/ QuitNetGame \/ \E p \in s2c : ClientReads(p)

Next == ServerStep \/ ClientStep \/ Lose

Spec == Init /\ [][Next]_vars

(***************************************************************************)
(* Both programs read the datagrams that arrived, and send what they have  *)
(* buffered, in every tic of their loops.  Nothing obliges the game to     *)
(* write, the network to lose or anybody to leave.                         *)
(***************************************************************************)
Fairness == /\ WF_vars(\E d \in c2s : GetPacket(d))
            /\ WF_vars(AcknowledgePacket \/ ConnectClient2 \/ DisconnectClient)
            /\ WF_vars(SendPacket) /\ WF_vars(RemoveDisconnected)
            /\ WF_vars(\E p \in s2c : ClientReads(p))
            /\ WF_vars(SendCmd)

FairSpec == Spec /\ Fairness

-----------------------------------------------------------------------------
PlayerStates == {"CONTACT", "INGAME", "DISCONNECT", "GONE"}
ClientStates == {"CONNECTING", "CONNECTED", "DISCONNECTED"}
OldPackets   == [seq : Nat \cup {-1}, data : SUBSET Messages, copy : {"again"}]
Packets      == [seq : Nat, data : SUBSET Messages, copy : {"first", "again"}]
Command      == [cmd : {"ack"}, seq : Nat] \cup {Quit}

(* Every variable stays in the range the code gives it. *)
TypeOK ==
  /\ playerstate \in PlayerStates
  /\ reliablebuf \in SUBSET Nat /\ overflowed \in BOOLEAN /\ netbuf \in BOOLEAN
  /\ sequence \in Nat \ {0} /\ last_sequence \in Nat \cup {-1}
  /\ oldpackets \in [Slots -> OldPackets]
  /\ net_message \in Seq(Command)
  /\ s2c \in SUBSET Packets /\ c2s \in SUBSET Seq(Command)
  /\ losses \in Nat /\ dups \in Nat
  /\ cstate \in ClientStates
  /\ packetseq \in [Slots -> Nat \cup {-1}] /\ net_buffer \in Seq(Command)
  /\ nextmsg \in Nat \ {0}
  /\ sent \in [0 .. sequence - 1 -> SUBSET Messages]
  /\ received \in SUBSET Nat
  /\ applied \in SUBSET Messages /\ reapplied \in SUBSET Messages

(***************************************************************************)
(* Retransmission, duplication and reordering never make the client apply  *)
(* a message twice, except for the console-player message of packet 0,     *)
(* which CL_Connect does not enter in packetseq.                           *)
(***************************************************************************)
AppliedAtMostOnce == reapplied \subseteq {ConsolePlayer}

(***************************************************************************)
(* A packet that can still be applied carries exactly the reliable data    *)
(* first sent under its number: the slot SendOldPacket reads after the     *)
(* check of SV_AcknowledgePacket is never that of a later packet.          *)
(***************************************************************************)
FaithfulPackets == \A p \in s2c : p.seq \in DOMAIN sent /\ p.data = sent[p.seq]

(***************************************************************************)
(* The channel implements what it promises.  An overflowed buffer holds    *)
(* nothing any more, whatever SZ_GetSpace counts in it.                    *)
(***************************************************************************)
Delivery == INSTANCE ReliableDelivery WITH
  Greeting <- ConsolePlayer, written <- nextmsg,
  outbox <- IF overflowed THEN {} ELSE reliablebuf,
  packets <- sent, accepted <- received

ImplementsDelivery == Delivery!Spec

(***************************************************************************)
(* sv_rproto.cpp, SV_SendPacket: the reliable data "will be retransmited,  *)
(* if it's missed".  An acknowledgement that leaves a gap puts every       *)
(* packet of the gap that had reliable data, and did not arrive, back on   *)
(* the wire.                                                               *)
(***************************************************************************)
MissedIsRetransmitted ==
  [][AcknowledgePacket => \A s \in Missed(last_sequence') :
       sent[s] = {} \/ s \in received \/ OldPacket(s, sent[s]) \in s2c']_vars

(***************************************************************************)
(* With packets that all carry reliable data, and one datagram lost, a     *)
(* packet older than one that arrived arrives itself, unless somebody      *)
(* leaves: the acknowledgements make the server notice every gap.          *)
(***************************************************************************)
Overtaken(s) == s \in DOMAIN sent /\ \E t \in received : t > s
Left         == playerstate # "INGAME" \/ cstate = "DISCONNECTED"

MissedArrives == \A s \in 0 .. MaxSeq : Overtaken(s) ~> s \in received \/ Left
=============================================================================
