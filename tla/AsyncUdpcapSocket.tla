------------------------- MODULE AsyncUdpcapSocket -------------------------
(***************************************************************************)
(* AsyncUdpcapSocket gives Udpcap's blocking socket an asynchronous        *)
(* receive: requests are queued, and a thread of the object's own, the     *)
(* wait thread, answers them.  Here are that thread, in the steps other    *)
(* threads can see, and those who use the object: an owner, who binds,     *)
(* closes and destroys it, a thread that receives synchronously, and       *)
(* anybody, the handlers on the wait thread included, who asks for data.   *)
(*                                                                         *)
(* Code under wait_thread_trigger_mutex_ is one step, unless the steps of  *)
(* others that need no mutex may come in between.                          *)
(***************************************************************************)
EXTENDS Integers, Sequences

CONSTANTS
  Packets,        \* what arrives from the network
  NoPacket,       \* what a failed receive returns
  UdpcapFailures, \* the errors Udpcap may return at any time
  Reopens,        \* whether a Udpcap socket can be bound again once it is closed
  MaxRequests,    \* bound: calls of asyncReceiveFrom
  MaxBinds,       \* bound: successful calls of bind
  MaxPackets      \* bound: packets that wait in Udpcap's socket

ASSUME PacketsAssumption == NoPacket \notin Packets

ASSUME UdpcapAssumption ==
  /\ UdpcapFailures \subseteq STRING \ {"OK"}
  /\ Reopens \in BOOLEAN

ASSUME AsyncBoundsAssumption == MaxRequests \in Nat /\ MaxBinds \in Nat /\ MaxPackets \in Nat

VARIABLES
  udpcap_socket_,    \* whether it is bound, whether closed, and what waits in it
  async_receive_from_parameters_queue_,  \* requests: the first call is request 1
  requests,          \* how many there were
  wait_thread_,      \* where the thread is in waitForData
  next_async_receive_from_parameters,    \* the request it works on
  result,            \* what receiveDatagram gave it
  answered,          \* the requests whose handlers were called, in that order
  closing,           \* who has closed udpcap_socket_ and is about to notify
  owner,             \* where the owner is in bind or in the destructor
  binds,             \* how often bind has succeeded
  receiving,         \* somebody is in receiveFrom
  received           \* what receiveFrom returned last

waitVars  == << wait_thread_, next_async_receive_from_parameters, result, answered >>
queueVars == << async_receive_from_parameters_queue_, requests >>
ownerVars == << closing, owner, binds >>
syncVars  == << receiving, received >>

asyncVars == << udpcap_socket_, queueVars, waitVars, ownerVars, syncVars >>

NoRequest == 0

EcaludpErrors == {"OK", "NPCAP_NOT_INITIALIZED", "NOT_BOUND", "SOCKET_CLOSED", "GENERIC_ERROR"}

(* Fault: passes on what it does not know.                                 *)
toEcaludpErrorAsIs(udpcap_error) == udpcap_error

toEcaludpError(udpcap_error) ==
  IF udpcap_error \in EcaludpErrors THEN udpcap_error ELSE "GENERIC_ERROR"

Results == [error : EcaludpErrors, packet : Packets \cup {NoPacket}]

Failure(error) == [error |-> error, packet |-> NoPacket]

AsyncInit ==
  /\ udpcap_socket_ = [bound |-> FALSE, closed |-> FALSE, inbox |-> << >>]
  /\ async_receive_from_parameters_queue_ = << >>
  /\ requests = 0
  /\ wait_thread_ = "none"
  /\ next_async_receive_from_parameters = NoRequest
  /\ result = Failure("GENERIC_ERROR")
  /\ answered = << >>
  /\ closing = {}
  /\ owner = "idle"
  /\ binds = 0
  /\ receiving = FALSE
  /\ received = Failure("GENERIC_ERROR")

(* The object exists and the program runs. *)
Usable == owner # "destroyed" /\ wait_thread_ # "crashed"

(* The wait thread has started and not ended. *)
Running == wait_thread_ \notin {"none", "ended"}

(* The wait thread lets go of the mutex when it waits, and when it has     *)
(* looked at the queue.                                                    *)
MutexIsFree == wait_thread_ # "popped"

isClosed == udpcap_socket_.closed

-----------------------------------------------------------------------------
(* Udpcap's socket, as this code uses it: receiveDatagram takes the oldest *)
(* packet, blocks as long as there is none, and fails, also when it was    *)
(* blocked, once the socket is closed.                                     *)

PacketArrives(packet) ==
  /\ Usable
  /\ udpcap_socket_.bound
  /\ Len(udpcap_socket_.inbox) < MaxPackets
  /\ udpcap_socket_' = [udpcap_socket_ EXCEPT !.inbox = Append(@, packet)]
  /\ UNCHANGED << queueVars, waitVars, ownerVars, syncVars >>

UdpcapCloses == [bound |-> FALSE, closed |-> TRUE, inbox |-> << >>]

(* receiveDatagram returns r and leaves the socket in state u. *)
receiveDatagram(r, u) ==
  \/ /\ udpcap_socket_.bound /\ udpcap_socket_.inbox # << >>
     /\ r = [error |-> "OK", packet |-> Head(udpcap_socket_.inbox)]
     /\ u = [udpcap_socket_ EXCEPT !.inbox = Tail(@)]
  \/ /\ isClosed
     /\ r = Failure(toEcaludpError("SOCKET_CLOSED"))
     /\ u = udpcap_socket_
  \/ /\ ~ isClosed /\ ~ udpcap_socket_.bound
     /\ r = Failure(toEcaludpError("NOT_BOUND"))
     /\ u = udpcap_socket_

receiveDatagramFails(r) == \E udpcap_error \in UdpcapFailures : r = Failure(toEcaludpError(udpcap_error))

-----------------------------------------------------------------------------
(* Fault: it notifies whether or not the thread waits for the condition.   *)
notify_none == wait_thread_

notify_one == IF wait_thread_ = "blocked" THEN "testing" ELSE wait_thread_

asyncReceiveFrom ==
  /\ Usable /\ MutexIsFree
  /\ requests < MaxRequests
  /\ requests' = requests + 1
  /\ async_receive_from_parameters_queue_' = Append(async_receive_from_parameters_queue_, requests + 1)
  /\ wait_thread_' = notify_one
  /\ UNCHANGED << udpcap_socket_, next_async_receive_from_parameters, result, answered, ownerVars, syncVars >>

receiveFrom ==
  /\ Usable /\ owner # "destroying"
  /\ ~ receiving
  /\ receiving' = TRUE
  /\ UNCHANGED << received, udpcap_socket_, queueVars, waitVars, ownerVars >>

receiveFromReturns ==
  /\ Usable
  /\ receiving
  /\ \/ receiveDatagram(received', udpcap_socket_')
     \/ receiveDatagramFails(received') /\ UNCHANGED udpcap_socket_
  /\ receiving' = FALSE
  /\ UNCHANGED << queueVars, waitVars, ownerVars >>

-----------------------------------------------------------------------------
(* close, of the owner or of a handler, has two parts: it closes Udpcap's  *)
(* socket, without the mutex, and then notifies the wait thread.           *)

MayClose(caller) == CASE caller = "owner"   -> owner = "idle"
                      [] caller = "handler" -> wait_thread_ = "handling"

close(caller) ==
  /\ Usable
  /\ MayClose(caller)
  /\ caller \notin closing
  /\ udpcap_socket_' = UdpcapCloses
  /\ closing' = closing \cup {caller}
  /\ UNCHANGED << owner, binds, queueVars, waitVars, syncVars >>

close_notifies(caller) ==
  /\ Usable /\ MutexIsFree
  /\ caller \in closing
  /\ closing' = closing \ {caller}
  /\ wait_thread_' = notify_one
  /\ UNCHANGED << udpcap_socket_, queueVars, next_async_receive_from_parameters, result, answered,
                  owner, binds, syncVars >>

OwnerIsFree == owner = "idle" /\ "owner" \notin closing

(* bind, when Udpcap's bind succeeds; otherwise it changes nothing.        *)
bind ==
  /\ Usable /\ OwnerIsFree
  /\ ~ udpcap_socket_.bound
  /\ isClosed => Reopens
  /\ binds < MaxBinds
  /\ udpcap_socket_' = [bound |-> TRUE, closed |-> FALSE, inbox |-> << >>]
  /\ binds' = binds + 1
  /\ owner' = "binding"
  /\ UNCHANGED << closing, queueVars, waitVars, syncVars >>

(* Fault: starts the thread without having joined the old one.             *)
bind_starts_at_once ==
  /\ Usable
  /\ owner = "binding"
  /\ wait_thread_' = "testing"
  /\ owner' = "idle"
  /\ UNCHANGED << udpcap_socket_, queueVars, next_async_receive_from_parameters, result, answered,
                  closing, binds, syncVars >>

(* The rest of bind: it joins the old thread, if there is one, and starts  *)
(* a new one.                                                              *)
bind_starts_thread ==
  /\ Usable
  /\ owner = "binding"
  /\ ~ Running
  /\ wait_thread_' = "testing"
  /\ owner' = "idle"
  /\ UNCHANGED << udpcap_socket_, queueVars, next_async_receive_from_parameters, result, answered,
                  closing, binds, syncVars >>

(* The destructor closes, notifies (close_notifies), and joins.  Nobody    *)
(* may still be in receiveFrom.                                            *)
destroy ==
  /\ Usable /\ OwnerIsFree
  /\ ~ receiving
  /\ udpcap_socket_' = UdpcapCloses
  /\ closing' = closing \cup {"owner"}
  /\ owner' = "destroying"
  /\ UNCHANGED << binds, queueVars, waitVars, syncVars >>

destroy_joins ==
  /\ Usable
  /\ owner = "destroying"
  /\ "owner" \notin closing
  /\ ~ Running
  /\ owner' = "destroyed"
  /\ UNCHANGED << closing, binds, udpcap_socket_, queueVars, waitVars, syncVars >>

-----------------------------------------------------------------------------
(* waitForData.                                                            *)

(* The predicate does not hold: the thread waits and lets go of the mutex. *)
wait_blocks ==
  /\ Usable
  /\ wait_thread_ = "testing"
  /\ ~ isClosed
  /\ async_receive_from_parameters_queue_ = << >>
  /\ wait_thread_' = "blocked"
  /\ UNCHANGED << udpcap_socket_, queueVars, next_async_receive_from_parameters, result, answered,
                  ownerVars, syncVars >>

(* A condition variable may wake up for no reason.                         *)
wait_wakes_spuriously ==
  /\ Usable
  /\ wait_thread_ = "blocked"
  /\ wait_thread_' = "testing"
  /\ UNCHANGED << udpcap_socket_, queueVars, next_async_receive_from_parameters, result, answered,
                  ownerVars, syncVars >>

(* The predicate holds: the thread takes the oldest request, if any.       *)
wait_pops ==
  LET queue == async_receive_from_parameters_queue_
  IN  /\ Usable
      /\ wait_thread_ = "testing"
      /\ isClosed \/ queue # << >>
      /\ next_async_receive_from_parameters' = IF queue # << >> THEN Head(queue) ELSE NoRequest
      /\ async_receive_from_parameters_queue_' = IF queue # << >> THEN Tail(queue) ELSE queue
      /\ wait_thread_' = "popped"
      /\ UNCHANGED << udpcap_socket_, requests, result, answered, ownerVars, syncVars >>

(* Fault: nobody looks at the queue any more once the socket is closed.    *)
NothingLeftWhenClosed == isClosed

(* Fault: a closed socket does not end the thread.                         *)
NothingLeftNever == FALSE

(* With the mutex still held the thread looks at both again.               *)
NothingLeft == async_receive_from_parameters_queue_ = << >> /\ isClosed

(* The thread returns; the request it has popped, if any, is forgotten.    *)
wait_returns ==
  /\ Usable
  /\ wait_thread_ = "popped"
  /\ NothingLeft
  /\ wait_thread_' = "ended"
  /\ next_async_receive_from_parameters' = NoRequest
  /\ UNCHANGED << udpcap_socket_, queueVars, result, answered, ownerVars, syncVars >>

wait_receives ==
  /\ Usable
  /\ wait_thread_ = "popped"
  /\ ~ NothingLeft
  /\ wait_thread_' = "receiving"
  /\ UNCHANGED << udpcap_socket_, queueVars, next_async_receive_from_parameters, result, answered,
                  ownerVars, syncVars >>

(* Calls the request's handler with result'; an empty handler throws       *)
(* std::bad_function_call, which ends the program.                         *)
CallHandler ==
  /\ IF next_async_receive_from_parameters = NoRequest
     THEN wait_thread_' = "crashed" /\ UNCHANGED answered
     ELSE /\ wait_thread_' = "handling"
          /\ answered' = Append(answered, next_async_receive_from_parameters)
  /\ UNCHANGED << queueVars, next_async_receive_from_parameters, ownerVars, syncVars >>

wait_answers ==
  /\ Usable
  /\ wait_thread_ = "receiving"
  /\ receiveDatagram(result', udpcap_socket_')
  /\ CallHandler

wait_answers_with_failure ==
  /\ Usable
  /\ wait_thread_ = "receiving"
  /\ receiveDatagramFails(result')
  /\ UNCHANGED udpcap_socket_
  /\ CallHandler

(* The handler, which has made calls of its own meanwhile, returns.        *)
handler_returns ==
  /\ Usable
  /\ wait_thread_ = "handling"
  /\ "handler" \notin closing
  /\ wait_thread_' = "testing"
  /\ next_async_receive_from_parameters' = NoRequest
  /\ UNCHANGED << udpcap_socket_, queueVars, result, answered, ownerVars, syncVars >>

-----------------------------------------------------------------------------
WaitThreadStep == \/ wait_pops
                  \/ wait_blocks
                  \/ wait_returns
                  \/ wait_receives
                  \/ wait_answers
                  \/ handler_returns

OwnerStep == bind_starts_thread \/ destroy_joins

AsyncNext == \/ WaitThreadStep
             \/ wait_wakes_spuriously
             \/ wait_answers_with_failure
             \/ OwnerStep
             \/ bind
             \/ destroy
             \/ \E caller \in {"owner", "handler"} : close(caller) \/ close_notifies(caller)
             \/ asyncReceiveFrom
             \/ receiveFrom
             \/ receiveFromReturns
             \/ \E packet \in Packets : PacketArrives(packet)

AsyncSpec == AsyncInit /\ [][AsyncNext]_asyncVars

(* Threads that can go on do so, and handlers, which do finitely many      *)
(* things, return.  Nobody need ask, close or destroy, no packet need      *)
(* arrive, and nothing need fail.                                          *)
AsyncFairSpec == /\ AsyncSpec
                 /\ WF_asyncVars(WaitThreadStep)
                 /\ SF_asyncVars(handler_returns)
                 /\ \A caller \in {"owner", "handler"} : WF_asyncVars(close_notifies(caller))
                 /\ WF_asyncVars(OwnerStep)

-----------------------------------------------------------------------------

(* The variables have their types; in particular, the queue holds requests *)
(* that were made, and results have errors of ecaludp's and not udpcap's   *)
(* (toEcaludpError).                                                       *)
AsyncTypeOK ==
  /\ udpcap_socket_ \in [bound : BOOLEAN, closed : BOOLEAN, inbox : Seq(Packets)]
  /\ requests \in Nat
  /\ async_receive_from_parameters_queue_ \in Seq(1 .. requests)
  /\ wait_thread_ \in {"none", "testing", "blocked", "popped", "receiving", "handling", "ended", "crashed"}
  /\ next_async_receive_from_parameters \in 0 .. requests
  /\ result \in Results /\ received \in Results
  /\ answered \in Seq(1 .. requests)
  /\ closing \subseteq {"owner", "handler"}
  /\ owner \in {"idle", "binding", "destroying", "destroyed"}
  /\ binds \in Nat
  /\ receiving \in BOOLEAN

(* No wake-up is lost: the wait thread is only blocked while it has        *)
(* nothing to do, or else somebody who has just closed the socket is about *)
(* to notify it, although close changes the condition without the mutex    *)
(* (AsyncUdpcapSocket::close).                                             *)
NoWakeUpIsLost ==
  wait_thread_ = "blocked" =>
     /\ async_receive_from_parameters_queue_ = << >>
     /\ isClosed => closing # {}

(* waitForData only gets to a request that is not there, and calls its     *)
(* empty handler, if the socket is bound again while the thread is between *)
(* its two looks at isClosed().                                            *)
EmptyHandlersNeedARebind == wait_thread_ = "crashed" => binds > 1

(* Requests the wait thread has popped or not.                             *)
Waiting == IF wait_thread_ \in {"popped", "receiving"} /\ next_async_receive_from_parameters # NoRequest
           THEN << next_async_receive_from_parameters >> \o async_receive_from_parameters_queue_
           ELSE async_receive_from_parameters_queue_

Queue == INSTANCE RequestQueue WITH Requests <- 1 .. MaxRequests, closed <- isClosed, waiting <- Waiting

(* Every request is answered at most once and in its turn, and the only    *)
(* one a socket may forget is the last, when it is closed: the wait        *)
(* thread, its queue and its second look at it implement RequestQueue.     *)
ImplementsRequestQueue == Queue!RequestSpec

(* A request that waits while the wait thread runs is taken up, unless the *)
(* thread is busy with an older one for which no packet has arrived        *)
(* (asyncReceiveFrom's and close's notifications).                         *)
RequestsAreTakenUp ==
  \A request \in 1 .. MaxRequests :
     LET queued == \E i \in DOMAIN async_receive_from_parameters_queue_ :
                      async_receive_from_parameters_queue_[i] = request
     IN  (queued /\ Running /\ Usable) ~>
            \/ ~ queued \/ ~ Usable
            \/ wait_thread_ = "receiving" /\ udpcap_socket_.bound /\ udpcap_socket_.inbox = << >>

(* The destructor returns: closing makes the wait thread end, wherever it  *)
(* is (unless it has crashed).                                             *)
DestructorReturns == (owner = "destroying") ~> (owner = "destroyed" \/ wait_thread_ = "crashed")

=============================================================================
