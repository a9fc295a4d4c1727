---------------------------- MODULE EcaludpLink ----------------------------
(***************************************************************************)
(* Senders, a UDP network and one receiving socket.  Each message is sent  *)
(* by a call of send_to or async_send_to of its own; calls interleave.     *)
(* The network loses, duplicates and reorders datagrams and carries alien  *)
(* traffic.                                                                *)
(*                                                                         *)
(* What the sender's datagram builder makes of a message is given here in  *)
(* closed form: a message of one chunk is one non-fragmented datagram, a   *)
(* message of more is an info datagram and a fragment per chunk, numbered  *)
(* from 0.                                                                 *)
(***************************************************************************)
EXTENDS Socket

CONSTANTS
  Messages,
  SenderOf,       \* the endpoint a message is sent from
  Chunks,         \* the payload of a message, as the builder cuts it
  IdsAreUnique,   \* whether an endpoint never draws the same id twice
  MayFail,        \* whether the sending socket may report errors
  MaxLosses,      \* bound on lost datagrams
  MaxDuplicates,  \* bound on duplicated datagrams
  NoId            \* for a message for which no id has been drawn

MessageSize(m) == SumOfSizes(Chunks[m])

ASSUME MessagesAssumption ==
  /\ SenderOf \in [Messages -> Endpoints]
  /\ \A m \in Messages : /\ Chunks[m] \in Seq(View)
                         /\ Len(Chunks[m]) \in 1 .. UINT32_MAX
                         /\ MessageSize(m) \in UInt32

ASSUME IdAssumption == NoId \notin Ids /\ IdsAreUnique \in BOOLEAN /\ MayFail \in BOOLEAN

ASSUME BoundsAssumption == MaxLosses \in Nat /\ MaxDuplicates \in Nat

(* Everything else that reaches the port is recognisably not ecaludp's.    *)
ASSUME AlienAssumption ==
  \A d \in Datagrams : d.size < HeaderCommonSize \/ ~ HasMagic(d) \/ d.version # 5

VARIABLES
  status,      \* of each message's call: "new", "sending", "sent", "failed"
  id_of,       \* the id drawn for each message
  handed,      \* how many of a message's datagrams the OS has taken
  in_flight,   \* the datagrams in the network, as << message, number >>
  lost,        \* the datagrams the network has lost
  duplicates,  \* how many extra deliveries the network has made
  delivered    \* the messages the receiver has returned to its user

senderVars  == << status, id_of, handed >>
networkVars == << in_flight, lost, duplicates >>
linkVars    == << socketVars, senderVars, networkVars, delivered >>

-----------------------------------------------------------------------------
(* The datagrams of a message.                                             *)

IsFragmented(m) == Len(Chunks[m]) > 1

DatagramCount(m) == IF IsFragmented(m) THEN 1 + Len(Chunks[m]) ELSE 1

V5Datagram(type, id, num, len, payload, size) ==
  [magic |-> magic_header_bytes_, version |-> 5, type |-> type,
   id |-> id, num |-> num, len |-> len, payload |-> payload, size |-> size]

(* An info carries no payload; any token will do.                          *)
InfoDatagram(m) ==
  V5Datagram(datagram_type_fragmented_message_info, id_of[m], Len(Chunks[m]),
             MessageSize(m), Chunks[m][1].data, HeaderSize)

(* Fault: numbers from 1, as README.md:132 says.                           *)
FragmentDatagramFromOne(m, i) ==
  V5Datagram(datagram_type_fragment, id_of[m], i,
             Chunks[m][i].size, Chunks[m][i].data, HeaderSize + Chunks[m][i].size)

FragmentDatagram(m, i) ==
  V5Datagram(datagram_type_fragment, id_of[m], i - 1,
             Chunks[m][i].size, Chunks[m][i].data, HeaderSize + Chunks[m][i].size)

NonFragmentedDatagram(m) ==
  V5Datagram(datagram_type_non_fragmented_message, -1, 1,
             Chunks[m][1].size, Chunks[m][1].data, HeaderSize + Chunks[m][1].size)

(* The k-th datagram of message m's list, in the order of sending.         *)
DatagramOf(m, k) ==
  IF IsFragmented(m)
  THEN IF k = 1 THEN InfoDatagram(m) ELSE FragmentDatagram(m, k - 1)
  ELSE NonFragmentedDatagram(m)

-----------------------------------------------------------------------------

LinkInit == /\ SocketInit
            /\ status = [m \in Messages |-> "new"]
            /\ id_of = [m \in Messages |-> NoId]
            /\ handed = [m \in Messages |-> 0]
            /\ in_flight = {}
            /\ lost = {}
            /\ duplicates = 0
            /\ delivered = << >>

(* Fault: the draw does not look at earlier ids.                           *)
UsedIdsForgotten(endpoint) == {}

(* The ids an endpoint has used.                                           *)
UsedIds(endpoint) == {id_of[m] : m \in {m \in Messages : SenderOf[m] = endpoint}}

(* send_to and async_send_to first create the whole datagram list; for a   *)
(* message that needs fragments, the builder draws an id.                  *)
StartSending(m) ==
  /\ status[m] = "new"
  /\ \/ /\ IsFragmented(m)
        /\ \E id \in Ids : /\ IdsAreUnique => id \notin UsedIds(SenderOf[m])
                           /\ id_of' = [id_of EXCEPT ![m] = id]
     \/ /\ ~ IsFragmented(m)
        /\ UNCHANGED id_of
  /\ status' = [status EXCEPT ![m] = "sending"]
  /\ UNCHANGED << socketVars, handed, networkVars, delivered >>

(* One round of send_to's loop, or one link of async_send_to's chain.      *)
SendDatagram(m) ==
  /\ status[m] = "sending"
  /\ handed' = [handed EXCEPT ![m] = @ + 1]
  /\ in_flight' = in_flight \cup {<< m, handed[m] + 1 >>}
  /\ status' = [status EXCEPT ![m] = IF handed[m] + 1 = DatagramCount(m) THEN "sent" ELSE @]
  /\ UNCHANGED << socketVars, id_of, lost, duplicates, delivered >>

(* An error on one datagram ends the call; the rest is never sent.         *)
SendFails(m) ==
  /\ MayFail
  /\ status[m] = "sending"
  /\ status' = [status EXCEPT ![m] = "failed"]
  /\ UNCHANGED << socketVars, id_of, handed, networkVars, delivered >>

(* Fault: a receive completes although no message is complete.             *)
HandOverUnfinished(endpoint, d) ==
  /\ handle_datagram(endpoint, d)
  /\ delivered' = Append(delivered, [from |-> endpoint, message |-> returned'.message])
  /\ UNCHANGED senderVars

(* Fault: the sender's endpoint is read when it may have been overwritten. *)
HandOverFromAnyone(endpoint, d) ==
  /\ handle_datagram(endpoint, d)
  /\ \/ returned'.message = NoMessage /\ UNCHANGED delivered
     \/ /\ returned'.message # NoMessage
        /\ \E e \in Endpoints :
              delivered' = Append(delivered, [from |-> e, message |-> returned'.message])
  /\ UNCHANGED senderVars

(* The socket handles a datagram; a completed message goes to the user.    *)
HandOver(endpoint, d) ==
  /\ handle_datagram(endpoint, d)
  /\ delivered' = IF returned'.message = NoMessage
                  THEN delivered
                  ELSE Append(delivered, [from |-> endpoint, message |-> returned'.message])
  /\ UNCHANGED senderVars

Receive(m, k) ==
  /\ << m, k >> \in in_flight
  /\ in_flight' = in_flight \ {<< m, k >>}
  /\ HandOver(SenderOf[m], DatagramOf(m, k))
  /\ UNCHANGED << lost, duplicates >>

ReceiveCopy(m, k) ==
  /\ << m, k >> \in in_flight
  /\ duplicates < MaxDuplicates
  /\ duplicates' = duplicates + 1
  /\ HandOver(SenderOf[m], DatagramOf(m, k))
  /\ UNCHANGED << in_flight, lost >>

ReceiveAlien(endpoint, d) == HandOver(endpoint, d) /\ UNCHANGED networkVars

Lose(m, k) ==
  /\ << m, k >> \in in_flight
  /\ Cardinality(lost) < MaxLosses
  /\ in_flight' = in_flight \ {<< m, k >>}
  /\ lost' = lost \cup {<< m, k >>}
  /\ UNCHANGED << socketVars, senderVars, duplicates, delivered >>

(* The receiver's clock, and its user changing the age.                    *)
ReceiverStep == /\ SocketTick \/ \E age \in Ages : set_max_reassembly_age(age)
                /\ UNCHANGED << senderVars, networkVars, delivered >>

LinkNext ==
  \/ \E m \in Messages : StartSending(m) \/ SendDatagram(m) \/ SendFails(m)
  \/ \E packet \in in_flight : \/ Receive(packet[1], packet[2])
                               \/ ReceiveCopy(packet[1], packet[2])
                               \/ Lose(packet[1], packet[2])
  \/ \E endpoint \in Endpoints, d \in Datagrams : ReceiveAlien(endpoint, d)
  \/ ReceiverStep

LinkSpec == LinkInit /\ [][LinkNext]_linkVars

(* What tells a Receive from every other step of LinkNext.                 *)
SomethingIsReceived ==
  /\ alive
  /\ UNCHANGED lost
  /\ \E packet \in in_flight : in_flight' = in_flight \ {packet}

(* Calls that have started get on with sending, and datagrams that are not *)
(* lost arrive.  No user has to send, no clock to tick and no datagram to  *)
(* get lost.  Sends and receptions being finite in number, fairness to     *)
(* each of them as a whole is enough.                                      *)
LinkFairness ==
  /\ WF_linkVars(\E m \in Messages : SendDatagram(m))
  /\ WF_in_flight(SomethingIsReceived)

FairLinkSpec == LinkSpec /\ LinkFairness

-----------------------------------------------------------------------------
(* Correctness.                                                            *)

Content == [m \in Messages |-> [from |-> SenderOf[m], message |-> Chunks[m]]]

Sent == {m \in Messages : status[m] = "sent"}

Copies(m) == Cardinality({i \in DOMAIN delivered : delivered[i] = Content[m]})

(* The variables have their types: send calls with their progress, the     *)
(* network's datagrams and what the receiver's user has been given.        *)
LinkTypeOK ==
  /\ SocketTypeOK
  /\ status \in [Messages -> {"new", "sending", "sent", "failed"}]
  /\ id_of \in [Messages -> Ids \cup {NoId}]
  /\ handed \in [Messages -> Nat]
  /\ in_flight \subseteq Messages \X Nat
  /\ lost \subseteq Messages \X Nat
  /\ duplicates \in Nat
  /\ delivered \in Seq([from : Endpoints, message : Seq(View)])

(* Whatever the receiver returns is a message that was sent, by the        *)
(* endpoint it is said to come from, byte for byte, and none of whose      *)
(* datagrams is still unsent (reassemble_package, for every loss,          *)
(* duplication, order, expiry and failed call).                            *)
Integrity == \A i \in DOMAIN delivered : \E m \in Sent : delivered[i] = Content[m]

(* The receiver never dereferences a hole in a package it takes to be      *)
(* complete (the size check in handle_fragmented_package_if_complete;      *)
(* reassembly_v5.cpp:242: `We have a complete package').                   *)
CompletePackagesHaveNoHoles == alive

(* No datagram of a well-behaved sender is ever called malformed, and no   *)
(* reassembled message is: the only errors are duplicates.                 *)
HonestTrafficIsNotMalformed ==
  [][ \A packet \in in_flight :
        HandOver(SenderOf[packet[1]], DatagramOf(packet[1], packet[2])) =>
           returned'.error \notin Malformed ]_linkVars

(* Extra copies of a message come only from duplicates of all its          *)
(* datagrams: a package that has been completed or has expired leaves      *)
(* nothing behind that a late datagram could complete.                     *)
CopiesNeedDuplicates ==
  \A m \in Messages : Copies(m) >= 1 => (Copies(m) - 1) * DatagramCount(m) <= duplicates

(* The link implements the abstract channel.                               *)
Channel == INSTANCE MessageChannel WITH
             sent      <- Sent,
             MaxCopies <- [m \in Messages |-> 1 + MaxDuplicates \div DatagramCount(m)]

ImplementsChannel == Channel!ChannelSpec

(* A message whose call has succeeded and none of whose datagrams is lost  *)
(* is delivered, whatever happens to other messages (as long as the clock  *)
(* does not make its package expire).                                      *)
UndamagedMessagesArrive ==
  \A m \in Messages :
     m \in Sent ~> \/ \E i \in DOMAIN delivered : delivered[i] = Content[m]
                   \/ \E k \in 1 .. DatagramCount(m) : << m, k >> \in lost

=============================================================================
