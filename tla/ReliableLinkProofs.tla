------------------------- MODULE ReliableLinkProofs -------------------------
(***************************************************************************)
(* Theorems about ReliableLink, for every size of the rings and buffers    *)
(* and every budget of losses and duplicates.                              *)
(***************************************************************************)
EXTENDS ReliableLink, FiniteSetTheorems, TLAPS

(* A set that gains an element stays a subset. *)
LEMMA SubsetAdd ==
  ASSUME NEW S, NEW A \in SUBSET S, NEW e \in S
  PROVE  A \cup {e} \in SUBSET S
OBVIOUS

(* The slot of a sequence number is one of the ring's. *)
LEMMA SlotInSlots == ASSUME NEW s \in Nat PROVE Slot(s) \in Slots
BY WindowAssumption DEF Slot, Slots

(* What a transmission does to the types of the variables it changes. *)
LEMMA TransmitType ==
  ASSUME TypeOK, NEW data \in SUBSET Messages, Transmit(data)
  PROVE  /\ sequence' \in Nat \ {0}
         /\ oldpackets' \in [Slots -> OldPackets]
         /\ s2c' \in SUBSET Packets
         /\ sent' \in [0 .. sequence' - 1 -> SUBSET Messages]
<1>1. sequence \in Nat /\ sequence' = sequence + 1 /\ sequence' - 1 = sequence
  BY DEF TypeOK, Transmit
<1>2. s2c' \in SUBSET Packets
  BY <1>1 DEF TypeOK, Transmit, Packet, Packets
<1>3. sent' \in [0 .. sequence -> SUBSET Messages]
  <2>1. \A s \in 0 .. sequence : s # sequence => s \in 0 .. sequence - 1
    BY <1>1
  <2> QED BY <2>1 DEF TypeOK, Transmit
<1>4. OldPacket(IF data = {} THEN -1 ELSE sequence, data)
        \in OldPackets
  BY <1>1 DEF OldPacket, OldPackets
<1>5. oldpackets' \in [Slots -> OldPackets]
  BY <1>4 DEF TypeOK, Transmit
<1> QED BY <1>1, <1>2, <1>3, <1>5

(* Disconnecting an overflowed client. *)
LEMMA DropOverflowedType ==
  ASSUME TypeOK, NEW later \in Nat, DropOverflowed(later)
  PROVE  /\ sequence' \in Nat \ {0}
         /\ oldpackets' \in [Slots -> OldPackets]
         /\ s2c' \in SUBSET Packets
         /\ sent' \in [0 .. sequence' - 1 -> SUBSET Messages]
         /\ reliablebuf' \in SUBSET Nat /\ nextmsg' \in Nat \ {0}
         /\ overflowed' \in BOOLEAN /\ netbuf' \in BOOLEAN
<1>1. {Disconnect} \in SUBSET Messages BY DEF Messages
<1>2. Transmit({Disconnect}) BY DEF DropOverflowed
<1>3. reliablebuf' \in SUBSET Nat /\ nextmsg' \in Nat \ {0}
  <2>1. nextmsg \in Nat \ {0} /\ Farewell \in Nat BY DEF TypeOK, Farewell
  <2>2. /\ reliablebuf' = nextmsg .. nextmsg + Farewell + later - 1
        /\ nextmsg' = nextmsg + Farewell + later
    BY DEF DropOverflowed
  <2> QED BY <2>1, <2>2
<1>4. overflowed' \in BOOLEAN /\ netbuf' \in BOOLEAN
  BY DEF DropOverflowed
<1> QED BY <1>1, <1>2, <1>3, <1>4, TransmitType

(* The datagrams of one command that the client sends. *)
LEMMA CommandType ==
  /\ Quit \in Command /\ <<Quit>> \in Seq(Command)
  /\ \A s \in Nat : Ack(s) \in Command /\ <<Ack(s)>> \in Seq(Command)
<1>1. Quit \in Command BY DEF Command
<1>2. \A s \in Nat : Ack(s) \in Command BY DEF Command, Ack
<1> QED BY <1>1, <1>2

(* Writing a reliable message. *)
LEMMA WriteSVCType ==
  ASSUME TypeOK, NEW state, WriteSVC(state)
  PROVE  /\ sequence' \in Nat \ {0}
         /\ oldpackets' \in [Slots -> OldPackets]
         /\ s2c' \in SUBSET Packets
         /\ sent' \in [0 .. sequence' - 1 -> SUBSET Messages]
         /\ reliablebuf' \in SUBSET Nat /\ nextmsg' \in Nat \ {0}
         /\ overflowed' \in BOOLEAN /\ netbuf' \in BOOLEAN
<1>1. CASE Flushes(state) /\ overflowed
  BY <1>1, DropOverflowedType DEF WriteSVC
<1>2. CASE Flushes(state) /\ ~overflowed
  <2>1. reliablebuf \in SUBSET Messages BY DEF TypeOK, Messages
  <2>2. Transmit(reliablebuf) BY <1>2 DEF WriteSVC
  <2>3. reliablebuf' \in SUBSET Nat /\ nextmsg' \in Nat \ {0}
    BY <1>2 DEF WriteSVC, TypeOK
  <2>4. overflowed' \in BOOLEAN /\ netbuf' \in BOOLEAN
    BY <1>2, Zenon DEF WriteSVC, TypeOK
  <2> QED BY <2>1, <2>2, <2>3, <2>4, TransmitType
<1>3. CASE ~Flushes(state)
  <2>0. /\ reliablebuf' = {nextmsg} \/ reliablebuf' = reliablebuf \cup {nextmsg}
        /\ nextmsg' = nextmsg + 1
    BY <1>3, Zenon DEF WriteSVC
  <2>1. reliablebuf' \in SUBSET Nat /\ nextmsg' \in Nat \ {0}
    <3>1. reliablebuf \in SUBSET Nat /\ nextmsg \in Nat \ {0}
      BY DEF TypeOK
    <3>2. {nextmsg} \in SUBSET Nat /\ reliablebuf \cup {nextmsg} \in SUBSET Nat
      BY <3>1, SubsetAdd
    <3>3. nextmsg + 1 \in Nat \ {0} BY <3>1
    <3> QED BY <2>0, <3>2, <3>3
  <2>2. overflowed' \in BOOLEAN /\ netbuf' \in BOOLEAN
    BY <1>3, Zenon DEF WriteSVC, TypeOK
  <2> QED BY <2>1, <2>2, <1>3 DEF WriteSVC, TypeOK
<1> QED BY <1>1, <1>2, <1>3

(* A packet that reaches the client changes the network only. *)
LEMMA ArrivesType ==
  ASSUME TypeOK, NEW p, Arrives(p)
  PROVE  /\ p \in Packets /\ s2c' \in SUBSET Packets /\ dups' \in Nat
         /\ playerstate' \in PlayerStates
         /\ reliablebuf' \in SUBSET Nat /\ overflowed' \in BOOLEAN
         /\ netbuf' \in BOOLEAN
         /\ sequence' \in Nat \ {0} /\ last_sequence' \in Nat \cup {-1}
         /\ oldpackets' \in [Slots -> OldPackets]
         /\ net_message' \in Seq(Command) /\ losses' \in Nat
         /\ nextmsg' \in Nat \ {0}
         /\ sent' \in [0 .. sequence' - 1 -> SUBSET Messages]
BY DEF TypeOK, Arrives, Delivered

(* The initial state is typed. *)
LEMMA InitType == Init => TypeOK
<1> SUFFICES ASSUME Init PROVE TypeOK
  OBVIOUS
<1>1. oldpackets \in [Slots -> OldPackets]
  BY DEF Init, OldPacket, OldPackets, Messages, ConsolePlayer
<1>2. s2c \in SUBSET Packets /\ c2s \in SUBSET Seq(Command)
  BY DEF Init, Packet, Packets, Messages, ConsolePlayer
<1>3. sent \in [0 .. sequence - 1 -> SUBSET Messages]
  BY DEF Init, Messages, ConsolePlayer
<1>4. overflowed \in BOOLEAN /\ netbuf \in BOOLEAN
  BY DEF Init
<1>5. net_message \in Seq(Command) /\ net_buffer \in Seq(Command)
  BY DEF Init
<1> QED BY <1>1, <1>2, <1>3, <1>4, <1>5 DEF Init, TypeOK, PlayerStates, ClientStates

(* Every step of either program, or of the network, preserves the types. *)
LEMMA NextType == TypeOK /\ [Next]_vars => TypeOK'
<1> SUFFICES ASSUME TypeOK, [Next]_vars PROVE TypeOK'
  OBVIOUS
<1>1. CASE SendPacket
  <2>1. CASE overflowed /\ DropOverflowed(0)
    BY <1>1, <2>1, DropOverflowedType
       DEF SendPacket, TypeOK, PlayerStates, client, history
  <2>2. CASE ~overflowed /\ Transmit(reliablebuf)
    <3>1. reliablebuf \in SUBSET Messages BY DEF TypeOK, Messages
    <3> QED BY <1>1, <2>2, <3>1, TransmitType
               DEF SendPacket, TypeOK, PlayerStates, client, history
  <2> QED BY <1>1, <2>1, <2>2 DEF SendPacket
<1>2. CASE WriteReliable
  BY <1>2, WriteSVCType DEF WriteReliable, TypeOK, PlayerStates, client, history
<1>3. CASE WriteUnreliable
  BY <1>3 DEF WriteUnreliable, TypeOK, client, history
<1>4. CASE DropClient
  <2>1. CASE DropOverflowed(0)
    BY <1>4, <2>1, DropOverflowedType
       DEF DropClient, TypeOK, PlayerStates, client, history
  <2>2. CASE ~overflowed /\ Transmit(reliablebuf \cup {Disconnect})
    <3>1. reliablebuf \cup {Disconnect} \in SUBSET Messages
      BY DEF TypeOK, Messages
    <3>2. CASE ~(overflowed \/ Fills)
      <4>1. /\ reliablebuf' = {nextmsg} /\ nextmsg' = nextmsg + 1
            /\ netbuf' = FALSE /\ overflowed' = overflowed
        BY <1>4, <3>2, Zenon DEF DropClient
      <4>2. /\ playerstate' \in PlayerStates /\ net_message' \in Seq(Command)
            /\ UNCHANGED <<last_sequence, c2s, losses, dups, cstate, packetseq,
                           net_buffer, received, applied, reapplied>>
        BY <1>4 DEF DropClient, PlayerStates, client, history
      <4>3. {nextmsg} \in SUBSET Nat /\ nextmsg + 1 \in Nat \ {0}
        BY DEF TypeOK
      <4> QED BY <2>2, <3>1, <4>1, <4>2, <4>3, TransmitType DEF TypeOK
    <3>3. CASE overflowed \/ Fills
      <4>1. DropOverflowed(0) BY <1>4, <3>3, Zenon DEF DropClient
      <4> QED BY <2>1, <4>1
    <3> QED BY <3>2, <3>3
  <2> QED BY <1>4, <2>1, <2>2 DEF DropClient
<1>5. CASE RemoveDisconnected
  BY <1>5 DEF RemoveDisconnected, TypeOK, PlayerStates, client, history
<1>6. CASE AcknowledgePacket
  <2>1. last_sequence' \in Nat \cup {-1} /\ net_message' \in Seq(Command)
    BY <1>6 DEF AcknowledgePacket, Parse, TypeOK, Command, Quit
  <2>2. s2c' \in SUBSET Packets
    <3>1. ASSUME NEW seq \in Nat, NEW s \in Resent(seq)
          PROVE  oldpackets[Slot(s)] \in Packets
      <4>1. s \in Nat /\ s \in Missed(seq) BY DEF Resent, Missed, TypeOK
      <4>2. oldpackets[Slot(s)] \in OldPackets BY <4>1, SlotInSlots DEF TypeOK
      <4>3. oldpackets[Slot(s)].seq = s BY <4>1 DEF Resent, Unkept
      <4> QED BY <4>1, <4>2, <4>3 DEF OldPackets, Packets
    <3>2. Head(net_message) \in Command /\ Head(net_message).cmd = "ack"
      BY <1>6 DEF AcknowledgePacket, Parse, TypeOK
    <3>3. Head(net_message).seq \in Nat BY <3>2 DEF Command, Quit
    <3> QED BY <1>6, <3>1, <3>3 DEF AcknowledgePacket, TypeOK
  <2> QED BY <1>6, <2>1, <2>2 DEF AcknowledgePacket, TypeOK, client, history
<1>7. CASE ConnectClient2
  <2>1. net_message' \in Seq(Command)
    BY <1>7 DEF ConnectClient2, Parse, TypeOK
  <2> QED BY <1>7, <2>1, WriteSVCType
             DEF ConnectClient2, TypeOK, PlayerStates, client, history
<1>8. CASE DisconnectClient
  <2>1. CASE playerstate = "DISCONNECT"
    <3>1. net_message' \in Seq(Command) BY <1>8 DEF DisconnectClient
    <3> QED BY <1>8, <2>1, <3>1 DEF DisconnectClient, TypeOK, client, history
  <2>2. CASE playerstate # "DISCONNECT"
    BY <1>8, <2>2, WriteSVCType
       DEF DisconnectClient, TypeOK, PlayerStates, client, history
  <2> QED BY <2>1, <2>2
<1>9. ASSUME NEW d \in c2s, GetPacket(d) PROVE TypeOK'
  BY <1>9 DEF GetPacket, Delivered, TypeOK, server, client, history
<1>10. CASE SendCmd
  BY <1>10 DEF SendCmd, TypeOK, server, history
<1>11. CASE QuitNetGame
  <2>1. c2s' \in SUBSET Seq(Command)
    BY <1>11, CommandType, SubsetAdd DEF QuitNetGame, TypeOK
  <2> QED BY <1>11, <2>1 DEF QuitNetGame, TypeOK, ClientStates, server, history
<1>12. ASSUME NEW p \in s2c, Connect(p) PROVE TypeOK'
  <2>1. Arrives(p) /\ ParseCommands(p) /\ p.seq = 0 BY <1>12 DEF Connect
  <2>2. p.data \in SUBSET Messages BY <2>1, ArrivesType DEF Packets
  <2>3. c2s' \in SUBSET Seq(Command) /\ net_buffer' \in Seq(Command)
    <3>1. c2s \in SUBSET Seq(Command) /\ <<Ack(0)>> \in Seq(Command)
      BY CommandType DEF TypeOK
    <3>2. c2s' = c2s \cup {<<Ack(0)>>} /\ net_buffer' = <<>>
      BY <1>12 DEF Connect
    <3>3. c2s \cup {<<Ack(0)>>} \in SUBSET Seq(Command)
      BY <3>1, SubsetAdd
    <3> QED BY <3>2, <3>3
  <2>4. /\ cstate' \in ClientStates /\ received' \in SUBSET Nat
        /\ applied' \in SUBSET Messages /\ reapplied' \in SUBSET Messages
    BY <2>1, <2>2 DEF ParseCommands, ClientStates, TypeOK
  <2>5. packetseq' \in [Slots -> Nat \cup {-1}] BY <1>12 DEF Connect
  <2> QED BY <2>1, <2>3, <2>4, <2>5, ArrivesType DEF TypeOK
<1>13. ASSUME NEW p \in s2c, UnknownChallenge(p) PROVE TypeOK'
  BY <1>13, ArrivesType, CommandType DEF UnknownChallenge, TypeOK, client, history
<1>14. ASSUME NEW p \in s2c, ReadPacket(p) PROVE TypeOK'
  <2>1. Arrives(p) BY <1>14 DEF ReadPacket
  <2>2. CASE packetseq[Slot(p.seq)] = p.seq
    BY <1>14, <2>1, <2>2, ArrivesType DEF ReadPacket, TypeOK, client, history
  <2>3. CASE packetseq[Slot(p.seq)] # p.seq
    <3>1. p.data \in SUBSET Messages
      BY <2>1, ArrivesType DEF Packets
    <3>2. p.seq \in Nat
      BY <2>1, ArrivesType DEF Packets
    <3>3. c2s' \in SUBSET Seq(Command) /\ net_buffer' \in Seq(Command)
      <4>1. c2s \in SUBSET Seq(Command) /\ net_buffer \in Seq(Command)
        BY DEF TypeOK
      <4>2. c2s \cup {<<Quit>>} \in SUBSET Seq(Command)
        BY <4>1, CommandType, SubsetAdd
      <4>3. Append(net_buffer, Ack(p.seq)) \in Seq(Command)
        BY <3>2, <4>1, CommandType
      <4>4. \/ net_buffer' = <<>> /\ c2s' = c2s \cup {<<Quit>>}
            \/ net_buffer' = Append(net_buffer, Ack(p.seq)) /\ c2s' = c2s
        BY <1>14, <2>3, Zenon DEF ReadPacket
      <4>5. CASE net_buffer' = <<>> /\ c2s' = c2s \cup {<<Quit>>}
        BY <4>2, <4>5
      <4>6. CASE net_buffer' = Append(net_buffer, Ack(p.seq)) /\ c2s' = c2s
        BY <4>1, <4>3, <4>6
      <4> QED BY <4>4, <4>5, <4>6
    <3>4. /\ cstate' \in ClientStates /\ received' \in SUBSET Nat
          /\ applied' \in SUBSET Messages /\ reapplied' \in SUBSET Messages
      BY <1>14, <2>3, <3>1, <3>2 DEF ReadPacket, ParseCommands, ClientStates, TypeOK
    <3>5. packetseq' \in [Slots -> Nat \cup {-1}]
      BY <1>14, <2>3, <3>2 DEF ReadPacket, TypeOK
    <3> QED BY <2>1, <3>3, <3>4, <3>5, ArrivesType DEF TypeOK
  <2> QED BY <2>2, <2>3
<1>15. ASSUME NEW p \in s2c, IgnorePacket(p) PROVE TypeOK'
  BY <1>15, ArrivesType DEF IgnorePacket, TypeOK, client, history
<1>16. CASE Lose
  BY <1>16 DEF Lose, TypeOK, server, client, history
<1>17. CASE UNCHANGED vars
  BY <1>17 DEF vars, server, client, history, TypeOK
<1> QED BY <1>1, <1>2, <1>3, <1>4, <1>5, <1>6, <1>7, <1>8, <1>9, <1>10,
           <1>11, <1>12, <1>13, <1>14, <1>15, <1>16, <1>17
        DEF Next, ServerStep, ClientStep, ClientReads

(***************************************************************************)
(* Every variable of the two programs and of the network keeps its type.   *)
(***************************************************************************)
THEOREM TypeCorrect == Spec => []TypeOK
BY InitType, NextType, PTL DEF Spec

-----------------------------------------------------------------------------
(* The rings: two sequence numbers less than Window apart have two slots. *)

LEMMA Division ==
  ASSUME NEW s \in Nat
  PROVE  /\ s \div Window \in Int
         /\ Slot(s) \in 0 .. Window - 1
         /\ s = (Window * (s \div Window)) + Slot(s)
BY WindowAssumption DEF Slot

LEMMA MultiplesApart ==
  ASSUME NEW q \in Int, NEW r \in Int, NEW d \in Nat,
         d < Window, Window * r = Window * q + d
  PROVE  d = 0
<1>1. Window * q \in Int /\ Window * r \in Int BY WindowAssumption
<1>2. CASE r <= q
  <2>1. Window * r <= Window * q BY WindowAssumption, <1>2
  <2> QED BY <2>1, <1>1
<1>3. CASE r >= q + 1
  <2>1. Window * r >= Window * (q + 1) BY WindowAssumption, <1>3
  <2>2. Window * (q + 1) = Window * q + Window BY WindowAssumption
  <2> QED BY <2>1, <2>2, <1>1, WindowAssumption
<1> QED BY <1>2, <1>3

LEMMA SlotInjective ==
  ASSUME NEW a \in Nat, NEW b \in Nat, Slot(a) = Slot(b),
         a < b + Window, b < a + Window
  PROVE  a = b
<1> DEFINE q == a \div Window  r == b \div Window
<1>1. q \in Int /\ r \in Int BY Division
<1>2. a = (Window * q) + Slot(a) /\ b = (Window * r) + Slot(a) BY Division
<1>3. Window * q \in Int /\ Window * r \in Int /\ Slot(a) \in Int
  BY <1>1, Division, WindowAssumption
<1> HIDE DEF q, r
<1>4. CASE a <= b
  <2>1. Window * r = Window * q + (b - a) BY <1>2, <1>3
  <2>2. b - a = 0 BY MultiplesApart, <1>1, <1>4, <2>1, WindowAssumption
  <2> QED BY <2>2
<1>5. CASE b <= a
  <2>1. Window * q = Window * r + (a - b) BY <1>2, <1>3
  <2>2. a - b = 0 BY MultiplesApart, <1>1, <1>5, <2>1, WindowAssumption
  <2> QED BY <2>2
<1> QED BY <1>4, <1>5

LEMMA SlotPeriodic ==
  ASSUME NEW s \in Nat
  PROVE  Slot(s + Window) = Slot(s)
<1> DEFINE q == s \div Window  r == (s + Window) \div Window
           x == Slot(s)        y == Slot(s + Window)
<1>1. q \in Int /\ r \in Int BY Division, WindowAssumption
<1>2. s = (Window * q) + x /\ s + Window = (Window * r) + y
  <2>1. s + Window \in Nat BY WindowAssumption
  <2> QED BY <2>1, Division
<1>3. /\ Window * q \in Int /\ Window * r \in Int
      /\ x \in 0 .. Window - 1 /\ y \in 0 .. Window - 1
  BY <1>1, Division, WindowAssumption
<1> HIDE DEF q, r, x, y
<1>4. Window * (q + 1) = Window * q + Window BY WindowAssumption, <1>1
<1>5. CASE y <= x
  <2>1. Window * r = Window * (q + 1) + (x - y)
    BY <1>2, <1>3, <1>4, WindowAssumption
  <2>2. x - y = 0 BY MultiplesApart, <2>1, <1>1, <1>3, <1>5, WindowAssumption
  <2> QED BY <2>2, <1>3 DEF x, y
<1>6. CASE x <= y
  <2>1. Window * (q + 1) = Window * r + (y - x)
    BY <1>2, <1>3, <1>4, WindowAssumption
  <2>2. y - x = 0 BY MultiplesApart, <2>1, <1>1, <1>3, <1>6, WindowAssumption
  <2> QED BY <2>2, <1>3 DEF x, y
<1> QED BY <1>3, <1>5, <1>6

-----------------------------------------------------------------------------
(***************************************************************************)
(* The inductive invariant.  A message is in the buffer or in one packet;  *)
(* the ring of the server and the network hold nothing older than Window   *)
(* packets; the ring of the client remembers what it received of those.    *)
(***************************************************************************)
Numbers == 0 .. sequence - 1

SentOK ==
  /\ sent[0] = {ConsolePlayer}
  /\ \A s \in Numbers : \A m \in sent[s] : m # Disconnect => m < nextmsg
  /\ \A s, t \in Numbers : \A m \in sent[s] :
       m \in sent[t] => s = t \/ m = Disconnect

BufferOK ==
  /\ \A m \in reliablebuf : m < nextmsg
  /\ ~overflowed => \A s \in Numbers : \A m \in reliablebuf : m \notin sent[s]

Holds(packet) == /\ packet.seq \in Numbers
                 /\ packet.data = sent[packet.seq]
                 /\ packet.seq >= sequence - Window

SlotsOK == \A i \in Slots : oldpackets[i].seq # -1 =>
             Slot(oldpackets[i].seq) = i /\ Holds(oldpackets[i])

FlightOK == \A p \in s2c : Holds(p)

ReceivedOK ==
  /\ received \subseteq Numbers
  /\ \A m \in applied : \E s \in received : m \in sent[s]
  /\ cstate = "CONNECTING" => received = {} /\ applied = {}
  /\ cstate = "CONNECTED" =>
       /\ Disconnect \notin applied
       /\ \A s \in received : s >= sequence - Window =>
            s = 0 \/ packetseq[Slot(s)] = s

Rings  == SlotsOK /\ FlightOK /\ ReceivedOK /\ AppliedAtMostOnce
Stable == SentOK /\ BufferOK /\ Rings
IInv   == TypeOK /\ Stable

LEMMA InitIInv == Init => IInv
<1> SUFFICES ASSUME Init PROVE IInv
  OBVIOUS
<1>1. TypeOK BY InitType
<1>2. Numbers = {0} BY DEF Init, Numbers
<1>3. SentOK /\ BufferOK
  BY <1>2 DEF Init, SentOK, BufferOK, ConsolePlayer
<1>4. Slot(0) = 0 /\ 0 \in Slots BY WindowAssumption DEF Slot, Slots
<1>5. SlotsOK
  <2> SUFFICES ASSUME NEW i \in Slots, oldpackets[i].seq # -1
               PROVE  Slot(oldpackets[i].seq) = i /\ Holds(oldpackets[i])
    BY DEF SlotsOK
  <2>1. i = 0 /\ oldpackets[i] = OldPacket(0, {ConsolePlayer})
    BY DEF Init, OldPacket
  <2> QED BY <2>1, <1>2, <1>4, WindowAssumption DEF Init, Holds, OldPacket
<1>6. FlightOK
  BY <1>2, WindowAssumption DEF Init, FlightOK, Holds, Packet
<1>7. ReceivedOK /\ AppliedAtMostOnce
  BY DEF Init, ReceivedOK, AppliedAtMostOnce
<1> QED BY <1>1, <1>3, <1>5, <1>6, <1>7 DEF IInv, Stable, Rings

(* The numbers and the data of the packets already sent. *)
LEMMA TransmitFacts ==
  ASSUME TypeOK, NEW data \in SUBSET Messages, Transmit(data)
  PROVE  /\ sequence \in Nat \ {0} /\ sequence' = sequence + 1
         /\ Numbers' = Numbers \cup {sequence} /\ sequence \notin Numbers
         /\ Numbers \subseteq Nat
         /\ \A s \in Numbers : sent'[s] = sent[s]
         /\ sent'[sequence] = data
         /\ \A p \in s2c : p.seq >= sequence + 1 - Window
         /\ s2c' = s2c \cup {Packet(sequence, data)}
BY DEF TypeOK, Transmit, Numbers, LifetimeHolds

(* A transmission of messages not sent before keeps every message in one packet. *)
LEMMA TransmitSent ==
  ASSUME TypeOK, SentOK, NEW data \in SUBSET Messages, Transmit(data),
         nextmsg' \in Nat, nextmsg' >= nextmsg,
         \A m \in data : m # Disconnect =>
           m < nextmsg /\ \A s \in Numbers : m \notin sent[s]
  PROVE  SentOK'
<1>1. sent'[0] = {ConsolePlayer}
  <2>1. 0 \in Numbers BY TransmitFacts DEF Numbers
  <2> QED BY <2>1, TransmitFacts DEF SentOK
<1>2. ASSUME NEW s \in Numbers', NEW m \in sent'[s], m # Disconnect
      PROVE  m < nextmsg'
  <2>1. m < nextmsg BY <1>2, TransmitFacts DEF SentOK
  <2>2. m \in Messages BY <1>2, TransmitFacts DEF TypeOK, Numbers
  <2> QED BY <1>2, <2>1, <2>2 DEF Messages, TypeOK
<1>3. ASSUME NEW s \in Numbers', NEW t \in Numbers',
             NEW m \in sent'[s], m \in sent'[t]
      PROVE  s = t \/ m = Disconnect
  BY <1>3, TransmitFacts DEF SentOK
<1> QED BY <1>1, <1>2, <1>3 DEF SentOK

(* A transmission overwrites the slot of the packet that is Window older. *)
LEMMA TransmitRings ==
  ASSUME IInv, NEW data \in SUBSET Messages, Transmit(data),
         UNCHANGED <<client, history>>
  PROVE  Rings'
<1> USE DEF IInv, Stable, Rings
<1>1. ASSUME NEW packet, Holds(packet), packet.seq >= sequence + 1 - Window
      PROVE  Holds(packet)'
  BY <1>1, TransmitFacts, WindowAssumption DEF Holds
<1>2. ASSUME NEW packet, packet.seq = sequence, packet.data = data
      PROVE  Holds(packet)'
  BY <1>2, TransmitFacts, WindowAssumption DEF Holds
<1>3. SlotsOK'
  <2> SUFFICES ASSUME NEW i \in Slots, oldpackets'[i].seq # -1
               PROVE  Slot(oldpackets'[i].seq) = i /\ Holds(oldpackets[i])'
    BY DEF SlotsOK
  <2>1. CASE i = Slot(sequence)
    <3>1. oldpackets'[i] = OldPacket(IF data = {} THEN -1 ELSE sequence, data)
      BY <2>1 DEF Transmit, TypeOK
    <3>2. oldpackets'[i].seq = sequence /\ oldpackets'[i].data = data
      BY <3>1 DEF OldPacket
    <3> QED BY <2>1, <3>2, <1>2
  <2>2. CASE i # Slot(sequence)
    <3>1. oldpackets'[i] = oldpackets[i]
      BY <2>2 DEF Transmit, TypeOK
    <3>2. Slot(oldpackets[i].seq) = i /\ Holds(oldpackets[i])
      BY <3>1 DEF SlotsOK
    <3>3. oldpackets[i].seq \in Nat /\ oldpackets[i].seq >= sequence - Window
      BY <3>2, TransmitFacts DEF Holds
    <3>4. oldpackets[i].seq + Window # sequence
      BY <2>2, <3>2, <3>3, SlotPeriodic
    <3>5. oldpackets[i].seq >= sequence + 1 - Window
      BY <3>3, <3>4, TransmitFacts, WindowAssumption
    <3> QED BY <3>1, <3>2, <3>5, <1>1
  <2> QED BY <2>1, <2>2
<1>4. FlightOK'
  <2> SUFFICES ASSUME NEW p \in s2c' PROVE Holds(p)'
    BY DEF FlightOK
  <2>1. CASE p \in s2c BY <2>1, <1>1, TransmitFacts DEF FlightOK
  <2>2. CASE p = Packet(sequence, data) BY <2>2, <1>2 DEF Packet
  <2> QED BY <2>1, <2>2, TransmitFacts
<1>5. ReceivedOK'
  <2>1. received' \subseteq Numbers' BY TransmitFacts DEF ReceivedOK, history
  <2>2. \A m \in applied' : \E s \in received' : m \in sent'[s]
    BY TransmitFacts DEF ReceivedOK, history
  <2>3. ASSUME cstate' = "CONNECTED", NEW s \in received', s >= sequence' - Window
        PROVE  s = 0 \/ packetseq'[Slot(s)] = s
    <3>1. s \in Nat /\ s \in received /\ s >= sequence - Window
      BY <2>3, TransmitFacts, WindowAssumption DEF ReceivedOK, history
    <3> QED BY <2>3, <3>1 DEF ReceivedOK, client
  <2> QED BY <2>1, <2>2, <2>3 DEF ReceivedOK, client, history
<1>6. AppliedAtMostOnce' BY DEF AppliedAtMostOnce, history
<1> QED BY <1>3, <1>4, <1>5, <1>6

(* Disconnecting an overflowed client writes only messages not written before. *)
LEMMA DropOverflowedStable ==
  ASSUME IInv, NEW later \in Nat, DropOverflowed(later),
         UNCHANGED <<client, history>>
  PROVE  Stable'
<1>1. /\ Transmit({Disconnect}) /\ overflowed' = FALSE
      /\ reliablebuf' = nextmsg .. nextmsg + Farewell + later - 1
      /\ nextmsg' = nextmsg + Farewell + later
  BY DEF DropOverflowed
<1>2. {Disconnect} \in SUBSET Messages BY DEF Messages
<1>3. Rings' BY <1>1, <1>2, TransmitRings
<1>4. nextmsg \in Nat /\ Farewell \in Nat BY DEF IInv, TypeOK, Farewell
<1>5. SentOK'
  <2>1. nextmsg' \in Nat /\ nextmsg' >= nextmsg BY <1>1, <1>4
  <2> QED BY <1>1, <1>2, <2>1, TransmitSent DEF IInv, Stable
<1>6. BufferOK'
  <2>1. \A m \in reliablebuf' : m \in Nat /\ m >= nextmsg /\ m < nextmsg'
    BY <1>1, <1>4
  <2>2. ASSUME NEW s \in Numbers', NEW m \in reliablebuf'
        PROVE  m \notin sent'[s]
    <3>1. CASE s \in Numbers
      <4>1. m # Disconnect BY <2>1, DisconnectNotANumber
      <4>2. sent'[s] = sent[s] BY <3>1, <1>1, <1>2, TransmitFacts DEF IInv
      <4> QED BY <2>1, <3>1, <4>1, <4>2, <1>4 DEF IInv, Stable, SentOK
    <3>2. CASE s = sequence
      <4>1. sent'[s] = {Disconnect}
        BY <3>2, <1>1, <1>2, TransmitFacts DEF IInv
      <4> QED BY <2>1, <4>1, DisconnectNotANumber
    <3> QED BY <3>1, <3>2, <1>1, <1>2, TransmitFacts DEF IInv
  <2> QED BY <2>1, <2>2 DEF BufferOK
<1> QED BY <1>3, <1>5, <1>6 DEF Stable

(* Sending the buffer empties it: what is left in it was not sent before. *)
LEMMA TransmitBufferStable ==
  ASSUME IInv, NEW data \in SUBSET Messages, Transmit(data), ~overflowed,
         data \subseteq reliablebuf \cup {Disconnect},
         \/ reliablebuf' = {} /\ nextmsg' = nextmsg
         \/ reliablebuf' = {nextmsg} /\ nextmsg' = nextmsg + 1,
         UNCHANGED <<client, history>>
  PROVE  Stable'
<1>1. Rings' BY TransmitRings
<1>2. nextmsg \in Nat BY DEF IInv, TypeOK
<1>3. nextmsg' \in Nat /\ nextmsg' >= nextmsg BY <1>2
<1>4. \A m \in data : m # Disconnect =>
        m < nextmsg /\ \A s \in Numbers : m \notin sent[s]
  BY DEF IInv, Stable, BufferOK
<1>5. SentOK' BY <1>3, <1>4, TransmitSent DEF IInv, Stable
<1>6. BufferOK'
  <2>1. \A m \in reliablebuf' : m = nextmsg /\ m < nextmsg'
    BY <1>2
  <2>2. ASSUME NEW s \in Numbers' PROVE nextmsg \notin sent'[s]
    <3>1. CASE s \in Numbers
      <4>1. sent'[s] = sent[s] BY <3>1, TransmitFacts DEF IInv
      <4> QED BY <3>1, <4>1, <1>2, DisconnectNotANumber DEF IInv, Stable, SentOK
    <3>2. CASE s = sequence
      <4>1. sent'[s] = data BY <3>2, TransmitFacts DEF IInv
      <4> QED BY <4>1, <1>2, <1>4, DisconnectNotANumber
    <3> QED BY <3>1, <3>2, TransmitFacts DEF IInv
  <2> QED BY <2>1, <2>2 DEF BufferOK
<1> QED BY <1>1, <1>5, <1>6 DEF Stable

(* Nothing depends on the variables left out of this list. *)
LEMMA UntouchedRings ==
  ASSUME IInv, UNCHANGED <<sequence, oldpackets, s2c, sent, client, history>>
  PROVE  Rings'
BY DEF IInv, Stable, Rings, SlotsOK, FlightOK, Holds, Numbers, ReceivedOK,
       AppliedAtMostOnce, client, history

LEMMA UntouchedStable ==
  ASSUME IInv, UNCHANGED <<sequence, oldpackets, s2c, sent, client, history>>,
         UNCHANGED <<reliablebuf, overflowed, nextmsg>>
  PROVE  Stable'
<1>1. SentOK' /\ BufferOK'
  BY DEF IInv, Stable, SentOK, BufferOK, Numbers
<1> QED BY <1>1, UntouchedRings DEF Stable

(* MSG_WriteSVC, with or without a flush or an overflow. *)
LEMMA WriteSVCStable ==
  ASSUME IInv, NEW state, WriteSVC(state), UNCHANGED <<client, history>>
  PROVE  Stable'
<1>1. CASE Flushes(state) /\ overflowed
  BY <1>1, DropOverflowedStable DEF WriteSVC
<1>2. CASE Flushes(state) /\ ~overflowed
  <2>1. reliablebuf \in SUBSET Messages BY DEF IInv, TypeOK, Messages
  <2>2. /\ Transmit(reliablebuf)
        /\ reliablebuf' = {nextmsg} /\ nextmsg' = nextmsg + 1
    BY <1>2, Zenon DEF WriteSVC
  <2> QED BY <1>2, <2>1, <2>2, TransmitBufferStable
<1>3. CASE ~Flushes(state)
  <2>1. /\ UNCHANGED <<sequence, oldpackets, s2c, sent>>
        /\ nextmsg' = nextmsg + 1
        /\ \/ reliablebuf' = {nextmsg} /\ overflowed'
           \/ reliablebuf' = reliablebuf \cup {nextmsg} /\ overflowed' = overflowed
    BY <1>3, Zenon DEF WriteSVC
  <2>2. Rings' BY <2>1, UntouchedRings
  <2>3. nextmsg \in Nat BY DEF IInv, TypeOK
  <2>4. Numbers' = Numbers BY <2>1 DEF Numbers
  <2>5. SentOK'
    <3>1. ASSUME NEW s \in Numbers, NEW m \in sent[s], m # Disconnect
          PROVE  m < nextmsg'
      <4>1. m \in Nat /\ m < nextmsg
        BY <3>1 DEF IInv, Stable, SentOK, TypeOK, Numbers, Messages
      <4> QED BY <4>1, <2>1, <2>3
    <3> QED BY <2>1, <2>4, <3>1 DEF IInv, Stable, SentOK
  <2>6. BufferOK'
    <3>1. \A m \in reliablebuf' : m < nextmsg'
      <4>1. \A m \in reliablebuf : m \in Nat /\ m < nextmsg
        BY DEF IInv, TypeOK, Stable, BufferOK
      <4> QED BY <2>1, <2>3, <4>1
    <3>2. \A s \in Numbers : nextmsg \notin sent[s]
      BY <2>3, DisconnectNotANumber DEF IInv, Stable, SentOK
    <3> QED BY <2>1, <2>4, <3>1, <3>2 DEF IInv, Stable, BufferOK
  <2> QED BY <2>2, <2>5, <2>6 DEF Stable
<1> QED BY <1>1, <1>2, <1>3

(* A packet read by the client leaves everything the server knows. *)
LEMMA ArrivesFacts ==
  ASSUME IInv, NEW p \in s2c, Arrives(p)
  PROVE  /\ SentOK' /\ BufferOK' /\ SlotsOK' /\ FlightOK'
         /\ Numbers' = Numbers /\ sequence' = sequence /\ sent' = sent
         /\ Holds(p) /\ p.seq \in Nat
<1>1. /\ s2c' \subseteq s2c
      /\ UNCHANGED <<sequence, oldpackets, sent, reliablebuf, overflowed, nextmsg>>
  BY DEF Arrives
<1>2. Numbers' = Numbers BY <1>1 DEF Numbers
<1>3. SentOK' /\ BufferOK'
  BY <1>1, <1>2 DEF IInv, Stable, SentOK, BufferOK
<1>4. \A packet : Holds(packet)' <=> Holds(packet)
  BY <1>1, <1>2 DEF Holds
<1>5. SlotsOK' /\ FlightOK' /\ Holds(p)
  BY <1>1, <1>4 DEF IInv, Stable, Rings, SlotsOK, FlightOK
<1>6. p.seq \in Nat BY DEF IInv, TypeOK, Packets
<1> QED BY <1>1, <1>2, <1>3, <1>5, <1>6

(* Packet 0 is the first thing a connecting client applies. *)
LEMMA ConnectStable ==
  ASSUME IInv, NEW p \in s2c, Connect(p)
  PROVE  Stable'
<1>1. Arrives(p) /\ ParseCommands(p) /\ p.seq = 0 /\ cstate = "CONNECTING"
  BY DEF Connect
<1>2. received = {} /\ applied = {}
  BY <1>1 DEF IInv, Stable, Rings, ReceivedOK
<1>3. p.data = {ConsolePlayer} /\ 0 \in Numbers /\ sent[0] = {ConsolePlayer}
  BY <1>1, ArrivesFacts DEF Holds, IInv, Stable, SentOK
<1>4. received' = {0} /\ applied' = {ConsolePlayer} /\ reapplied' = reapplied
  BY <1>1, <1>2, <1>3 DEF ParseCommands
<1>5. cstate' = "CONNECTED" /\ Disconnect \notin applied'
  BY <1>1, <1>3, <1>4, DisconnectNotANumber DEF ParseCommands, ConsolePlayer
<1>6. ReceivedOK' /\ AppliedAtMostOnce'
  BY <1>1, <1>3, <1>4, <1>5, ArrivesFacts
     DEF ReceivedOK, AppliedAtMostOnce, IInv, Stable, Rings
<1> QED BY <1>1, <1>6, ArrivesFacts DEF Stable, Rings

(***************************************************************************)
(* A packet that is not in packetseq, other than packet 0, was never       *)
(* received: its slot can only have been taken by a packet that is Window  *)
(* or more away, and those are no longer in flight.                        *)
(***************************************************************************)
LEMMA ReadPacketStable ==
  ASSUME IInv, NEW p \in s2c, ReadPacket(p)
  PROVE  Stable'
<1>1. Arrives(p) /\ cstate = "CONNECTED" BY DEF ReadPacket
<1>2. CASE packetseq[Slot(p.seq)] = p.seq
  <2>1. UNCHANGED <<client, history>> BY <1>2 DEF ReadPacket
  <2>2. ReceivedOK' /\ AppliedAtMostOnce'
    BY <1>1, <2>1, ArrivesFacts DEF ReceivedOK, AppliedAtMostOnce, IInv, Stable,
                                    Rings, client, history
  <2> QED BY <1>1, <2>2, ArrivesFacts DEF Stable, Rings
<1>3. CASE packetseq[Slot(p.seq)] # p.seq
  <2>1. /\ packetseq' = [packetseq EXCEPT ![Slot(p.seq)] = p.seq]
        /\ ParseCommands(p)
    BY <1>3 DEF ReadPacket
  <2>2. /\ p.seq \in Numbers /\ p.data = sent[p.seq]
        /\ p.seq >= sequence - Window /\ p.seq \in Nat
    BY <1>1, ArrivesFacts DEF Holds
  <2>3. /\ Disconnect \notin applied /\ received \subseteq Numbers
        /\ \A m \in applied : \E s \in received : m \in sent[s]
        /\ \A s \in received : s >= sequence - Window =>
             s = 0 \/ packetseq[Slot(s)] = s
    BY <1>1 DEF IInv, Stable, Rings, ReceivedOK
  <2>4. p.data \cap applied \subseteq {ConsolePlayer}
    <3>1. SUFFICES ASSUME NEW m \in p.data, m \in applied PROVE m = ConsolePlayer
      OBVIOUS
    <3>2. PICK s \in received : m \in sent[s] BY <3>1, <2>3
    <3>3. s = p.seq
      <4>1. m # Disconnect BY <3>1, <2>3
      <4> QED BY <3>1, <3>2, <4>1, <2>2, <2>3 DEF IInv, Stable, SentOK
    <3>4. p.seq = 0 BY <3>2, <3>3, <1>3, <2>2, <2>3
    <3> QED BY <3>1, <3>4, <2>2 DEF IInv, Stable, SentOK
  <2>5. AppliedAtMostOnce'
    BY <2>1, <2>4 DEF ParseCommands, AppliedAtMostOnce, IInv, Stable, Rings
  <2>6. /\ received' \subseteq Numbers'
        /\ \A m \in applied' : \E s \in received' : m \in sent'[s]
    BY <1>1, <2>1, <2>2, <2>3, ArrivesFacts DEF ParseCommands
  <2>7. cstate' # "CONNECTING" BY <2>1 DEF ParseCommands
  <2>8. ASSUME cstate' = "CONNECTED"
        PROVE  /\ Disconnect \notin applied'
               /\ \A s \in received' : s >= sequence' - Window =>
                    s = 0 \/ packetseq'[Slot(s)] = s
    <3>1. Disconnect \notin applied' BY <2>1, <2>3, <2>8 DEF ParseCommands
    <3>2. ASSUME NEW s \in received', s >= sequence' - Window, s # 0
          PROVE  packetseq'[Slot(s)] = s
      <4>1. sequence' = sequence /\ sequence \in Nat
        BY <1>1, ArrivesFacts DEF IInv, TypeOK
      <4>2. s \in Nat /\ s < sequence /\ p.seq < sequence
        BY <2>1, <2>2, <2>3, <4>1 DEF ParseCommands, Numbers
      <4>3. Slot(s) \in Slots /\ Slot(p.seq) \in Slots
        BY <4>2, <2>2, SlotInSlots
      <4>4. CASE s = p.seq BY <4>3, <4>4, <2>1 DEF IInv, TypeOK
      <4>5. CASE s # p.seq
        <5>1. packetseq[Slot(s)] = s
          BY <3>2, <4>1, <4>5, <2>1, <2>3 DEF ParseCommands
        <5>2. Slot(s) # Slot(p.seq)
          BY <3>2, <4>1, <4>2, <4>5, <2>2, SlotInjective, WindowAssumption
        <5> QED BY <4>3, <5>1, <5>2, <2>1 DEF IInv, TypeOK
      <4> QED BY <4>4, <4>5
    <3> QED BY <3>1, <3>2
  <2>9. ReceivedOK' BY <2>6, <2>7, <2>8 DEF ReceivedOK
  <2> QED BY <1>1, <2>5, <2>9, ArrivesFacts DEF Stable, Rings
<1> QED BY <1>2, <1>3

-----------------------------------------------------------------------------
(* Every step of either program, or of the network, preserves the invariant. *)
LEMMA NextStable == IInv /\ [Next]_vars => Stable'
<1> SUFFICES ASSUME IInv, [Next]_vars PROVE Stable'
  OBVIOUS
<1>1. CASE SendPacket
  <2>1. UNCHANGED <<client, history>> BY <1>1 DEF SendPacket
  <2>2. CASE DropOverflowed(0) BY <2>1, <2>2, DropOverflowedStable
  <2>3. CASE ~overflowed /\ Transmit(reliablebuf)
    <3>1. reliablebuf \in SUBSET Messages BY DEF IInv, TypeOK, Messages
    <3>2. reliablebuf' = {} /\ nextmsg' = nextmsg
      BY <1>1, <2>3, Zenon DEF SendPacket
    <3> QED BY <2>1, <2>3, <3>1, <3>2, TransmitBufferStable
  <2> QED BY <1>1, <2>2, <2>3, Zenon DEF SendPacket
<1>2. CASE WriteReliable
  BY <1>2, WriteSVCStable DEF WriteReliable
<1>3. CASE WriteUnreliable
  BY <1>3, UntouchedStable DEF WriteUnreliable
<1>4. CASE DropClient
  <2>1. UNCHANGED <<client, history>> BY <1>4 DEF DropClient
  <2>2. CASE DropOverflowed(0) BY <2>1, <2>2, DropOverflowedStable
  <2>3. CASE /\ ~overflowed /\ Transmit(reliablebuf \cup {Disconnect})
             /\ reliablebuf' = {nextmsg} /\ nextmsg' = nextmsg + 1
    <3>1. reliablebuf \cup {Disconnect} \in SUBSET Messages
      BY DEF IInv, TypeOK, Messages
    <3> QED BY <2>1, <2>3, <3>1, TransmitBufferStable
  <2> QED BY <1>4, <2>2, <2>3, Zenon DEF DropClient
<1>5. CASE RemoveDisconnected
  BY <1>5, UntouchedStable DEF RemoveDisconnected
<1>6. CASE AcknowledgePacket
  <2>1. UNCHANGED <<sequence, oldpackets, sent, client, history,
                    reliablebuf, overflowed, nextmsg>>
    BY <1>6 DEF AcknowledgePacket
  <2>2. Numbers' = Numbers /\ \A packet : Holds(packet)' <=> Holds(packet)
    BY <2>1 DEF Numbers, Holds
  <2>3. FlightOK'
    <3>1. ASSUME NEW seq, NEW s \in Resent(seq), s \in Nat
          PROVE  Holds(oldpackets[Slot(s)])
      <4>1. oldpackets[Slot(s)].seq = s BY <3>1 DEF Resent, Unkept
      <4> QED BY <3>1, <4>1, SlotInSlots DEF IInv, Stable, Rings, SlotsOK
    <3>2. \A seq : Resent(seq) \subseteq Nat
      BY DEF Resent, Missed, IInv, TypeOK
    <3>3. PICK seq : s2c' = s2c \cup {oldpackets[Slot(s)] : s \in Resent(seq)}
      BY <1>6 DEF AcknowledgePacket
    <3> QED BY <2>2, <3>1, <3>2, <3>3 DEF FlightOK, IInv, Stable, Rings
  <2>4. SentOK' /\ BufferOK' /\ SlotsOK' /\ ReceivedOK' /\ AppliedAtMostOnce'
    BY <2>1, <2>2 DEF IInv, Stable, Rings, SentOK, BufferOK, SlotsOK, ReceivedOK,
                      AppliedAtMostOnce, client, history
  <2> QED BY <2>3, <2>4 DEF Stable, Rings
<1>7. CASE ConnectClient2
  BY <1>7, WriteSVCStable DEF ConnectClient2
<1>8. CASE DisconnectClient
  <2>1. CASE playerstate = "DISCONNECT"
    BY <1>8, <2>1, UntouchedStable DEF DisconnectClient
  <2>2. CASE playerstate # "DISCONNECT"
    BY <1>8, <2>2, WriteSVCStable DEF DisconnectClient
  <2> QED BY <2>1, <2>2
<1>9. ASSUME NEW d \in c2s, GetPacket(d) PROVE Stable'
  BY <1>9, UntouchedStable DEF GetPacket, server
<1>10. CASE SendCmd \/ QuitNetGame
  <2>1. /\ UNCHANGED <<server, s2c, nextmsg, sent, packetseq, history>>
        /\ cstate' = cstate \/ cstate' = "DISCONNECTED"
    BY <1>10 DEF SendCmd, QuitNetGame
  <2>2. Numbers' = Numbers BY <2>1 DEF Numbers, server
  <2> QED BY <2>1, <2>2 DEF IInv, Stable, Rings, SentOK, BufferOK, SlotsOK, FlightOK,
             Holds, ReceivedOK, AppliedAtMostOnce, server, history
<1>11. ASSUME NEW p \in s2c, Connect(p) PROVE Stable'
  BY <1>11, ConnectStable
<1>12. ASSUME NEW p \in s2c, UnknownChallenge(p) \/ IgnorePacket(p) PROVE Stable'
  <2>1. Arrives(p) /\ UNCHANGED <<client, history>>
    BY <1>12 DEF UnknownChallenge, IgnorePacket
  <2>2. ReceivedOK' /\ AppliedAtMostOnce'
    BY <2>1, ArrivesFacts DEF ReceivedOK, AppliedAtMostOnce, IInv, Stable,
                              Rings, client, history
  <2> QED BY <2>1, <2>2, ArrivesFacts DEF Stable, Rings
<1>13. ASSUME NEW p \in s2c, ReadPacket(p) PROVE Stable'
  BY <1>13, ReadPacketStable
<1>14. CASE Lose
  <2>1. UNCHANGED <<server, nextmsg, sent, client, history>> /\ s2c' \subseteq s2c
    BY <1>14 DEF Lose
  <2>2. Numbers' = Numbers BY <2>1 DEF Numbers, server
  <2> QED BY <2>1, <2>2 DEF IInv, Stable, Rings, SentOK, BufferOK, SlotsOK, FlightOK,
             Holds, ReceivedOK, AppliedAtMostOnce, server, client, history
<1>15. CASE UNCHANGED vars
  BY <1>15, UntouchedStable DEF vars, server
<1> QED BY <1>1, <1>2, <1>3, <1>4, <1>5, <1>6, <1>7, <1>8, <1>9, <1>10,
           <1>11, <1>12, <1>13, <1>14, <1>15
        DEF Next, ServerStep, ClientStep, ClientReads

LEMMA Invariance == Spec => []IInv
<1>1. IInv /\ [Next]_vars => IInv'
  BY NextType, NextStable DEF IInv
<1> QED BY InitIInv, <1>1, PTL DEF Spec

(***************************************************************************)
(* However datagrams are lost, duplicated, delayed or overtaken, and       *)
(* whatever is retransmitted, the client applies no message twice but the  *)
(* console-player message of packet 0.                                     *)
(***************************************************************************)
THEOREM AtMostOnce == Spec => []AppliedAtMostOnce
<1>1. IInv => AppliedAtMostOnce BY DEF IInv, Stable, Rings
<1> QED BY Invariance, <1>1, PTL

(***************************************************************************)
(* Every packet in flight carries what was first sent under its number:    *)
(* SendOldPacket never sends a slot that has been used again.              *)
(***************************************************************************)
THEOREM Faithful == Spec => []FaithfulPackets
<1>1. IInv => FaithfulPackets
  BY DEF IInv, Stable, Rings, FlightOK, Holds, FaithfulPackets, TypeOK, Numbers
<1> QED BY Invariance, <1>1, PTL
-----------------------------------------------------------------------------
(***************************************************************************)
(* The refinement.  A transmission is the abstract Send, a message that is *)
(* only buffered the abstract Write, a packet the client has not received  *)
(* the abstract Accept; everything else leaves the promise untouched.      *)
(***************************************************************************)

Outbox == IF overflowed THEN {} ELSE reliablebuf

(* What the client has received it has applied: packet 0, read again, adds nothing. *)
Digested == \A s \in received : sent[s] \subseteq applied

LEMMA DomainOfSent ==
  ASSUME TypeOK
  PROVE  DOMAIN sent = Numbers /\ Cardinality(DOMAIN sent) = sequence
<1>1. sequence \in Nat \ {0} /\ DOMAIN sent = 0 .. sequence - 1 BY DEF TypeOK
<1>2. Cardinality(0 .. sequence - 1) = sequence
  <2>1. 0 \in Int /\ sequence - 1 \in Int BY <1>1
  <2>2. Cardinality(0 .. sequence - 1) =
          IF 0 > sequence - 1 THEN 0 ELSE (sequence - 1) - 0 + 1
    BY <2>1, FS_Interval
  <2> QED BY <2>2, <1>1
<1> QED BY <1>1, <1>2 DEF Numbers

LEMMA InitRefines == Init => Delivery!Init
BY DEF Init, Delivery!Init

LEMMA TransmitRefines ==
  ASSUME IInv, NEW data \in {Outbox, Outbox \cup {Disconnect}, {Disconnect}},
         Transmit(data), nextmsg' >= nextmsg, Outbox' \subseteq nextmsg .. nextmsg' - 1,
         UNCHANGED <<received, applied>>
  PROVE  Delivery!Send
<1>1. sent' = [i \in 0 .. Cardinality(DOMAIN sent) |->
                 IF i \in DOMAIN sent THEN sent[i] ELSE data]
  <2>1. sequence \in Nat /\ DOMAIN sent = 0 .. sequence - 1
        /\ Cardinality(DOMAIN sent) = sequence
    BY DomainOfSent DEF IInv, TypeOK, Numbers
  <2>2. sent' = [s \in 0 .. sequence |-> IF s = sequence THEN data ELSE sent[s]]
    BY DEF Transmit
  <2>3. \A s \in 0 .. sequence : s = sequence <=> ~(s \in DOMAIN sent) BY <2>1
  <2> QED BY <2>1, <2>2, <2>3
<1>2. Cardinality(DOMAIN sent) = Delivery!Cardinality(DOMAIN sent)
  BY DEF Cardinality, Delivery!Cardinality
<1> QED BY <1>1, <1>2 DEF Delivery!Send, Delivery!Fresh, Outbox

(* MSG_WriteSVC *)
LEMMA WriteSVCRefines ==
  ASSUME IInv, NEW state, WriteSVC(state), UNCHANGED <<client, history>>
  PROVE  Delivery!Next
<1>0. nextmsg \in Nat /\ UNCHANGED <<received, applied>>
  BY DEF IInv, TypeOK, history
<1>1. CASE Flushes(state) /\ overflowed
  <2>1. DropOverflowed(1) BY <1>1 DEF WriteSVC
  <2>2. /\ Transmit({Disconnect})
        /\ nextmsg' >= nextmsg /\ Outbox' \subseteq nextmsg .. nextmsg' - 1
    BY <2>1, <1>0 DEF DropOverflowed, Farewell, Outbox
  <2> QED BY <1>0, <2>2, TransmitRefines DEF Delivery!Next
<1>2. CASE Flushes(state) /\ ~overflowed
  <2>1. /\ Transmit(reliablebuf) /\ reliablebuf = Outbox
        /\ reliablebuf' = {nextmsg} /\ nextmsg' = nextmsg + 1
    BY <1>2, Zenon DEF WriteSVC, Outbox
  <2>2. nextmsg' >= nextmsg /\ Outbox' \subseteq nextmsg .. nextmsg' - 1
    BY <1>0, <2>1 DEF Outbox
  <2> QED BY <1>0, <2>1, <2>2, TransmitRefines DEF Delivery!Next
<1>3. CASE ~Flushes(state)
  <2>1. /\ sent' = sent /\ nextmsg' = nextmsg + 1
        /\ \/ reliablebuf' = {nextmsg} /\ overflowed'
           \/ reliablebuf' = reliablebuf \cup {nextmsg} /\ overflowed' = overflowed
    BY <1>3, Zenon DEF WriteSVC
  <2>2. Outbox' \subseteq Outbox \cup (nextmsg .. nextmsg' - 1)
    BY <1>0, <2>1 DEF Outbox
  <2>3. Delivery!Write
    BY <1>0, <2>1, <2>2 DEF Delivery!Write, Delivery!Fresh, Outbox
  <2> QED BY <2>3 DEF Delivery!Next
<1> QED BY <1>1, <1>2, <1>3

(* Steps that neither write, nor send, nor apply a message. *)
LEMMA OthersRefine ==
  ASSUME UNCHANGED <<reliablebuf, overflowed, nextmsg, sent, received, applied>>
  PROVE  UNCHANGED Delivery!vars
BY DEF Delivery!vars

(* A packet that was not received before is applied for the first time. *)
LEMMA ParseRefines ==
  ASSUME IInv, NEW p \in s2c, Arrives(p), ParseCommands(p),
         Disconnect \notin applied, p.seq \notin received
  PROVE  Delivery!Accept
<1>1. /\ p.seq \in DOMAIN sent /\ p.data = sent[p.seq]
  BY ArrivesFacts, DomainOfSent DEF Holds, IInv
<1>2. received' = received \cup {p.seq} /\ applied' = applied \cup sent[p.seq]
  BY <1>1 DEF ParseCommands
<1>3. UNCHANGED <<reliablebuf, overflowed, nextmsg, sent>> BY DEF Arrives
<1> QED BY <1>1, <1>2, <1>3 DEF Delivery!Accept

(* Reading a packet: burned, applied, or packet 0 a second time. *)
LEMMA ReadPacketRefines ==
  ASSUME IInv, Digested, NEW p \in s2c, ReadPacket(p)
  PROVE  [Delivery!Next]_Delivery!vars
<1>1. Arrives(p) /\ cstate = "CONNECTED" BY DEF ReadPacket
<1>2. UNCHANGED <<reliablebuf, overflowed, nextmsg, sent>>
  BY <1>1 DEF Arrives
<1>3. CASE packetseq[Slot(p.seq)] = p.seq
  <2>1. UNCHANGED <<received, applied>> BY <1>3 DEF ReadPacket, history
  <2> QED BY <1>2, <2>1, OthersRefine
<1>4. CASE packetseq[Slot(p.seq)] # p.seq
  <2>1. ParseCommands(p) BY <1>4 DEF ReadPacket
  <2>2. Disconnect \notin applied
    BY <1>1 DEF IInv, Stable, Rings, ReceivedOK
  <2>3. CASE p.seq \notin received
    BY <1>1, <2>1, <2>2, <2>3, ParseRefines DEF Delivery!Next
  <2>4. CASE p.seq \in received
    <3>1. p.data = sent[p.seq] BY <1>1, ArrivesFacts DEF Holds
    <3>2. received' = received /\ applied' = applied
      BY <2>1, <2>4, <3>1 DEF ParseCommands, Digested
    <3> QED BY <1>2, <3>2, OthersRefine
  <2> QED BY <2>3, <2>4
<1> QED BY <1>3, <1>4

(* The first packet of a connecting client. *)
LEMMA ConnectRefines ==
  ASSUME IInv, NEW p \in s2c, Connect(p)
  PROVE  Delivery!Next
<1>1. Arrives(p) /\ ParseCommands(p) /\ cstate = "CONNECTING" BY DEF Connect
<1>2. received = {} /\ applied = {}
  BY <1>1 DEF IInv, Stable, Rings, ReceivedOK
<1> QED BY <1>1, <1>2, ParseRefines DEF Delivery!Next

LEMMA NextDigested == IInv /\ Digested /\ [Next]_vars => Digested'
<1> SUFFICES ASSUME IInv, Digested, [Next]_vars PROVE Digested'
  OBVIOUS
<1>1. \A s \in received : s \in Numbers
  BY DEF IInv, Stable, Rings, ReceivedOK
<1>2. ASSUME \A s \in Numbers : sent'[s] = sent[s], UNCHANGED history
      PROVE  Digested'
  BY <1>1, <1>2 DEF Digested, history
<1>3. ASSUME NEW p \in s2c, Arrives(p), ParseCommands(p)
      PROVE  Digested'
  BY <1>3, ArrivesFacts DEF ParseCommands, Digested, Holds
<1>4. ASSUME NEW p \in s2c, Arrives(p), UNCHANGED history
      PROVE  Digested'
  BY <1>2, <1>4 DEF Arrives
<1>5. ASSUME UNCHANGED <<sent, history>> PROVE Digested'
  BY <1>5 DEF Digested, history
<1>6. ASSUME NEW data \in SUBSET Messages, Transmit(data), UNCHANGED history
      PROVE  Digested'
  BY <1>2, <1>6, TransmitFacts DEF IInv
<1>7. {Disconnect} \in SUBSET Messages /\ reliablebuf \in SUBSET Messages
      /\ reliablebuf \cup {Disconnect} \in SUBSET Messages
  BY DEF IInv, TypeOK, Messages
<1>8. ASSUME NEW state, WriteSVC(state), UNCHANGED history PROVE Digested'
  BY <1>5, <1>6, <1>7, <1>8, Zenon DEF WriteSVC, DropOverflowed
<1>9. CASE SendPacket
  BY <1>6, <1>7, <1>9, Zenon DEF SendPacket, DropOverflowed
<1>10. CASE WriteReliable BY <1>8, <1>10 DEF WriteReliable
<1>11. CASE DropClient
  BY <1>6, <1>7, <1>11, Zenon DEF DropClient, DropOverflowed
<1>12. CASE ConnectClient2 BY <1>8, <1>12 DEF ConnectClient2
<1>13. CASE DisconnectClient BY <1>5, <1>8, <1>13 DEF DisconnectClient
<1>14. CASE WriteUnreliable \/ RemoveDisconnected \/ AcknowledgePacket
            \/ SendCmd \/ QuitNetGame \/ Lose \/ UNCHANGED vars
            \/ \E d \in c2s : GetPacket(d)
  BY <1>5, <1>14 DEF WriteUnreliable, RemoveDisconnected, AcknowledgePacket,
       SendCmd, QuitNetGame, Lose, vars, GetPacket
<1>15. ASSUME NEW p \in s2c, ClientReads(p) PROVE Digested'
  BY <1>3, <1>4, <1>15 DEF ClientReads, Connect, UnknownChallenge, ReadPacket, IgnorePacket
<1> QED BY <1>9, <1>10, <1>11, <1>12, <1>13, <1>14, <1>15
        DEF Next, ServerStep, ClientStep

(* Every step is a step of the promise, or none. *)
LEMMA NextRefines ==
  IInv /\ Digested /\ [Next]_vars => [Delivery!Next]_Delivery!vars
<1> SUFFICES ASSUME IInv, Digested, [Next]_vars PROVE [Delivery!Next]_Delivery!vars
  OBVIOUS
<1>0. nextmsg \in Nat BY DEF IInv, TypeOK
<1>1. ASSUME DropOverflowed(0), UNCHANGED history PROVE Delivery!Next
  <2>1. /\ Transmit({Disconnect}) /\ UNCHANGED <<received, applied>>
        /\ nextmsg' >= nextmsg /\ Outbox' \subseteq nextmsg .. nextmsg' - 1
    BY <1>0, <1>1 DEF DropOverflowed, Farewell, Outbox, history
  <2> QED BY <2>1, TransmitRefines DEF Delivery!Next
<1>2. CASE SendPacket
  <2>1. UNCHANGED history BY <1>2 DEF SendPacket
  <2>2. CASE ~overflowed /\ Transmit(reliablebuf)
    <3>1. reliablebuf' = {} /\ nextmsg' = nextmsg
      BY <1>2, <2>2, Zenon DEF SendPacket
    <3>2. /\ Outbox = reliablebuf /\ UNCHANGED <<received, applied>>
          /\ nextmsg' >= nextmsg /\ Outbox' \subseteq nextmsg .. nextmsg' - 1
      BY <1>0, <2>1, <2>2, <3>1 DEF Outbox, history
    <3> QED BY <2>2, <3>2, TransmitRefines DEF Delivery!Next
  <2> QED BY <1>1, <1>2, <2>1, <2>2, Zenon DEF SendPacket
<1>3. CASE WriteReliable
  BY <1>3, WriteSVCRefines DEF WriteReliable
<1>4. CASE DropClient
  <2>1. UNCHANGED history BY <1>4 DEF DropClient
  <2>2. CASE /\ ~overflowed /\ Transmit(reliablebuf \cup {Disconnect})
             /\ reliablebuf' = {nextmsg} /\ nextmsg' = nextmsg + 1
    <3>1. /\ Outbox = reliablebuf /\ UNCHANGED <<received, applied>>
          /\ nextmsg' >= nextmsg /\ Outbox' \subseteq nextmsg .. nextmsg' - 1
      BY <1>0, <2>1, <2>2 DEF Outbox, history
    <3> QED BY <2>2, <3>1, TransmitRefines DEF Delivery!Next
  <2> QED BY <1>1, <1>4, <2>1, <2>2, Zenon DEF DropClient
<1>5. CASE ConnectClient2 BY <1>5, WriteSVCRefines DEF ConnectClient2
<1>6. CASE DisconnectClient
  <2>1. CASE playerstate = "DISCONNECT"
    BY <1>6, <2>1, OthersRefine DEF DisconnectClient, history
  <2>2. CASE playerstate # "DISCONNECT"
    BY <1>6, <2>2, WriteSVCRefines DEF DisconnectClient
  <2> QED BY <2>1, <2>2
<1>7. CASE WriteUnreliable \/ RemoveDisconnected \/ AcknowledgePacket
           \/ SendCmd \/ QuitNetGame \/ Lose \/ UNCHANGED vars
           \/ \E d \in c2s : GetPacket(d)
  BY <1>7, OthersRefine DEF WriteUnreliable, RemoveDisconnected, AcknowledgePacket,
       SendCmd, QuitNetGame, Lose, vars, GetPacket, server, history
<1>8. ASSUME NEW p \in s2c, ClientReads(p) PROVE [Delivery!Next]_Delivery!vars
  <2>1. CASE Connect(p) BY <2>1, ConnectRefines
  <2>2. CASE ReadPacket(p) BY <2>2, ReadPacketRefines
  <2>3. CASE UnknownChallenge(p) \/ IgnorePacket(p)
    BY <2>3, OthersRefine DEF UnknownChallenge, IgnorePacket, Arrives, history
  <2> QED BY <1>8, <2>1, <2>2, <2>3 DEF ClientReads
<1> QED BY <1>2, <1>3, <1>4, <1>5, <1>6, <1>7, <1>8
        DEF Next, ServerStep, ClientStep

(***************************************************************************)
(* Buffers, rings, acknowledgements and retransmissions together do no     *)
(* more than the promise of ReliableDelivery: each message goes into one   *)
(* packet at most, in the order of writing, and each packet is applied     *)
(* once, whole, before any disconnection.                                  *)
(***************************************************************************)
THEOREM Refines == Spec => ImplementsDelivery
<1>1. Init => Digested BY DEF Init, Digested
<1>2. Spec => []Digested
  BY Invariance, <1>1, NextDigested, PTL DEF Spec
<1> QED BY Invariance, <1>2, InitRefines, NextRefines, PTL
        DEF Spec, ImplementsDelivery, Delivery!Spec
=============================================================================
