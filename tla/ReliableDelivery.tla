-------------------------- MODULE ReliableDelivery --------------------------
(***************************************************************************)
(* What the channel from the server to one client promises, with no        *)
(* network, no acknowledgements and no rings: messages are put into        *)
(* packets in the order they are written, each into one packet at most,    *)
(* and the client applies every packet at most once, whole, in any order,  *)
(* until it has been told to disconnect.  Nothing promises that a message  *)
(* arrives: a full buffer is discarded and a packet may be lost for good.  *)
(***************************************************************************)
EXTENDS Naturals, FiniteSets

CONSTANTS Greeting,    \* the message of the first packet
          Disconnect   \* the message that ends the session

VARIABLES
  written,   \* number of the next message
  outbox,    \* messages written and not yet put into a packet
  packets,   \* the messages of each packet, by packet number
  accepted,  \* numbers of the packets the client applied
  applied    \* messages the client applied

vars == <<written, outbox, packets, accepted, applied>>

Init ==
  /\ written = 1 /\ outbox = {}
  /\ packets = [i \in {0} |-> {Greeting}]
  /\ accepted = {} /\ applied = {}

(* Messages written by this step, of which the outbox keeps some. *)
Fresh == written .. written' - 1

(* Messages are written; a full outbox may be discarded. *)
Write ==
  /\ written' >= written
  /\ outbox' \subseteq outbox \cup Fresh
  /\ UNCHANGED <<packets, accepted, applied>>

(* The whole outbox, or a farewell, or both, become the next packet. *)
Send ==
  /\ \E data \in {outbox, outbox \cup {Disconnect}, {Disconnect}} :
       packets' = [i \in 0 .. Cardinality(DOMAIN packets) |->
                     IF i \in DOMAIN packets THEN packets[i] ELSE data]
  /\ written' >= written /\ outbox' \subseteq Fresh
  /\ UNCHANGED <<accepted, applied>>

(* The client applies a packet it has not applied yet. *)
Accept ==
  /\ Disconnect \notin applied
  /\ \E i \in DOMAIN packets \ accepted :
       accepted' = accepted \cup {i} /\ applied' = applied \cup packets[i]
  /\ UNCHANGED <<written, outbox, packets>>

Next == Write \/ Send \/ Accept

Spec == Init /\ [][Next]_vars
=============================================================================
