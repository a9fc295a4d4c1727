---------------------------- MODULE RequestQueue ----------------------------
(***************************************************************************)
(* What AsyncUdpcapSocket promises to those who ask it for datagrams:      *)
(* requests are answered in the order in which they were made, each at     *)
(* most once, and none is passed over.  Only a socket that is closed may   *)
(* abandon a request, and only if it is the only one that is waiting.      *)
(***************************************************************************)
EXTENDS Naturals, Sequences

CONSTANT Requests

VARIABLES
  closed,    \* the socket is closed
  waiting,   \* the requests that wait for their answer, oldest first
  answered   \* the requests that were answered, in that order

requestVars == << closed, waiting, answered >>

RequestInit == closed = FALSE /\ waiting = << >> /\ answered = << >>

Ask == /\ \E request \in Requests : waiting' = Append(waiting, request)
       /\ UNCHANGED << closed, answered >>

Answer == /\ waiting # << >>
          /\ answered' = Append(answered, Head(waiting))
          /\ waiting' = Tail(waiting)
          /\ UNCHANGED closed

Abandon == /\ closed
           /\ Len(waiting) = 1
           /\ waiting' = << >>
           /\ UNCHANGED << closed, answered >>

OpenOrClose == closed' \in BOOLEAN /\ UNCHANGED << waiting, answered >>

RequestNext == Ask \/ Answer \/ Abandon \/ OpenOrClose

RequestSpec == RequestInit /\ [][RequestNext]_requestVars

=============================================================================
