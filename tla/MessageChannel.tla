--------------------------- MODULE MessageChannel ---------------------------
(***************************************************************************)
(* What ecaludp promises its users between a sender and a receiver: a      *)
(* message is delivered whole or not at all, only after all of it has been *)
(* sent, in any order, and more than once only if the network duplicates.  *)
(***************************************************************************)
EXTENDS Naturals, Sequences, FiniteSets

CONSTANTS
  Messages,
  Content,      \* what a user receives of a message: [Messages -> ...]
  MaxCopies     \* how often a message can be delivered: [Messages -> Nat]

VARIABLES
  sent,         \* the messages that have been sent completely
  delivered     \* what the receiver's user got, in this order

ChannelInit == sent = {} /\ delivered = << >>

Copies(m) == Cardinality({i \in DOMAIN delivered : delivered[i] = Content[m]})

Send(m) == /\ m \notin sent
           /\ sent' = sent \cup {m}
           /\ UNCHANGED delivered

Deliver(m) == /\ m \in sent
              /\ Copies(m) < MaxCopies[m]
              /\ delivered' = Append(delivered, Content[m])
              /\ UNCHANGED sent

ChannelNext == \E m \in Messages : Send(m) \/ Deliver(m)

ChannelSpec == ChannelInit /\ [][ChannelNext]_<< sent, delivered >>

=============================================================================
