---------------------------- MODULE SocketNpcap ----------------------------
(***************************************************************************)
(* SocketNpcap: receive_from and async_receive_from, which read datagram   *)
(* after datagram until handle_datagram, the same as Socket's, returns a   *)
(* message.  It composes AsyncUdpcapSocket, whose wait thread runs the     *)
(* lambda of receive_next_datagram_from, with the reassembly, which that   *)
(* lambda uses, and has the user's calls, completion handlers and          *)
(* destruction of the socket around them.                                  *)
(*                                                                         *)
(* A user calls either receive_from, from one thread, or                   *)
(* async_receive_from: both use the reassembly without a lock.             *)
(***************************************************************************)
EXTENDS Socket, AsyncUdpcapSocket

CONSTANT MaxCalls  \* bound: calls of async_receive_from or of receive_from

ASSUME CallsAssumption == MaxCalls \in Nat

ASSUME NpcapPacketsAssumption == Packets \subseteq Endpoints \X Datagrams

VARIABLES
  calls,      \* how many calls of async_receive_from or receive_from there were
  call_of,    \* the call each request of asyncReceiveFrom was made for
  lambda,     \* where the request's lambda is on the wait thread
  loop,       \* where the call of receive_from is
  completed,  \* what the calls have given to their users, in that order
  members,    \* whether reassembly and buffer pool exist, do not, or were missed
  unfinished  \* calls that were not finished when the destruction began

callVars  == << calls, call_of, lambda, loop, completed >>
npcapVars == << socketVars, asyncVars, callVars, members, unfinished >>

NpcapInit == /\ SocketInit
             /\ AsyncInit
             /\ calls = 0
             /\ call_of = << >>
             /\ lambda = "none"
             /\ loop = "none"
             /\ completed = << >>
             /\ members = "alive"
             /\ unfinished = {}

CallInProgress == call_of[next_async_receive_from_parameters]

(* Fault: the sender's address is a member, which the next packet to       *)
(* arrive overwrites.                                                      *)
sender_endpoint_of_last_datagram(packet) ==
  IF udpcap_socket_.inbox # << >> THEN Head(udpcap_socket_.inbox)[1] ELSE packet[1]

(* Each datagram is received together with its sender's address.           *)
sender_endpoint_of_this_datagram(packet) == packet[1]

Completion(call, error, message, endpoint) ==
  [call |-> call, error |-> error, message |-> message, endpoint |-> endpoint]

(* The completion of a call whose last datagram was packet.                *)
CompletionWith(call, packet) ==
  Completion(call, "OK", returned'.message, sender_endpoint_of_this_datagram(packet))

(* A call that fails leaves the caller's endpoint as it is.                *)
NoEndpoint == << >>

(* SocketNpcap::handle_datagram is a copy of Socket's.                     *)
npcap_handle_datagram(packet) == handle_datagram(packet[1], packet[2])

-----------------------------------------------------------------------------
(* The members reassembly_v5_ and datagram_buffer_pool_ are gone once the  *)
(* destructor has begun.                                                   *)

MissMembers == /\ members = "destroyed"
               /\ members' = "missed"
               /\ UNCHANGED << socketVars, asyncVars, callVars, unfinished >>

(* receive_next_datagram_from: takes buffers from the pool and asks for a  *)
(* datagram.                                                               *)
receive_next_datagram_from(call) ==
  /\ members = "alive"
  /\ asyncReceiveFrom
  /\ call_of' = Append(call_of, call)
  /\ UNCHANGED << socketVars, loop, completed, members, unfinished >>

(* A call of a user's thread, or of a completion handler, which does not   *)
(* know whether the socket is being destroyed.                             *)
async_receive_from ==
  /\ calls < MaxCalls
  /\ call_of = << >> => calls = 0
  /\ \/ receive_next_datagram_from(calls + 1) /\ calls' = calls + 1 /\ UNCHANGED lambda
     \/ lambda = "completing" /\ Usable /\ MissMembers

-----------------------------------------------------------------------------
(* The lambda, which the wait thread calls with its result.                *)

LambdaIsCalled == lambda' = IF wait_thread_' = "handling" THEN "called" ELSE lambda

lambda_fails ==
  /\ Usable
  /\ lambda = "called"
  /\ result.error # "OK"
  /\ completed' = Append(completed, Completion(CallInProgress, result.error, NoMessage, NoEndpoint))
  /\ lambda' = "completing"
  /\ UNCHANGED << socketVars, asyncVars, calls, call_of, loop, members, unfinished >>

(* Fault: receives the next datagram whether or not there is a message.    *)
AfterTheDatagramReceiveOn == "incomplete"

AfterTheDatagram == IF returned'.message # NoMessage THEN "completing" ELSE "incomplete"

lambda_handles_datagram ==
  /\ Usable
  /\ lambda = "called"
  /\ result.error = "OK"
  /\ \/ /\ members = "alive"
        /\ npcap_handle_datagram(result.packet)
        /\ lambda' = AfterTheDatagram
        /\ completed' = IF returned'.message # NoMessage
                        THEN Append(completed, CompletionWith(CallInProgress, result.packet))
                        ELSE completed
        /\ UNCHANGED << asyncVars, calls, call_of, loop, members, unfinished >>
     \/ MissMembers

(* The message is not complete: receives the next datagram.                *)
lambda_receives_next ==
  /\ lambda = "incomplete"
  /\ \/ receive_next_datagram_from(CallInProgress) /\ lambda' = "done" /\ UNCHANGED calls
     \/ Usable /\ MissMembers

(* The user's completion handler, or the lambda behind it, returns.        *)
lambda_returns ==
  /\ lambda \in {"completing", "done"}
  /\ handler_returns
  /\ lambda' = "none"
  /\ UNCHANGED << socketVars, calls, call_of, loop, completed, members, unfinished >>

-----------------------------------------------------------------------------
(* receive_from, on a thread of the user's.                                *)

receive_from ==
  /\ members = "alive"
  /\ calls < MaxCalls
  /\ call_of = << >>
  /\ loop = "none"
  /\ receiveFrom
  /\ calls' = calls + 1
  /\ loop' = "receiving"
  /\ UNCHANGED << socketVars, call_of, lambda, completed, members, unfinished >>

receive_from_gets_result ==
  /\ receiveFromReturns
  /\ loop' = "handling"
  /\ UNCHANGED << socketVars, calls, call_of, lambda, completed, members, unfinished >>

receive_from_fails ==
  /\ Usable
  /\ loop = "handling"
  /\ received.error # "OK"
  /\ completed' = Append(completed, Completion(calls, received.error, NoMessage, NoEndpoint))
  /\ loop' = "none"
  /\ UNCHANGED << socketVars, asyncVars, calls, call_of, lambda, members, unfinished >>

(* Returns with the message, or goes round once more.                      *)
receive_from_handles_datagram ==
  /\ Usable
  /\ loop = "handling"
  /\ received.error = "OK"
  /\ npcap_handle_datagram(received.packet)
  /\ \/ /\ returned'.message # NoMessage
        /\ completed' = Append(completed, CompletionWith(calls, received.packet))
        /\ loop' = "none"
        /\ UNCHANGED asyncVars
     \/ /\ returned'.message = NoMessage
        /\ receiveFrom
        /\ loop' = "receiving"
        /\ UNCHANGED completed
  /\ UNCHANGED << calls, call_of, lambda, members, unfinished >>

-----------------------------------------------------------------------------
(* The owner, and the rest of the wait thread.                             *)

WithoutCalls(Action) == Action /\ UNCHANGED << socketVars, callVars, members, unfinished >>

npcap_bind == members = "alive" /\ WithoutCalls(bind)

npcap_close(caller) ==
  /\ caller = "owner"   => members = "alive"
  /\ caller = "handler" => lambda = "completing"
  /\ WithoutCalls(close(caller))

Finished(call) == /\ \E i \in DOMAIN completed : completed[i].call = call
                  /\ ~ (lambda = "completing" /\ CallInProgress = call)

(* The destructor destroys the members in the reverse order of their       *)
(* declaration: reassembly and pool first, the AsyncUdpcapSocket last.     *)
destroy_members ==
  /\ Usable /\ OwnerIsFree
  /\ members = "alive"
  /\ loop = "none"
  /\ members' = "destroyed"
  /\ unfinished' = {call \in 1 .. calls : ~ Finished(call)}
  /\ UNCHANGED << socketVars, asyncVars, callVars >>

destroy_socket == members = "destroyed" /\ WithoutCalls(destroy)

wait_thread_calls_lambda ==
  /\ wait_answers \/ wait_answers_with_failure
  /\ LambdaIsCalled
  /\ UNCHANGED << socketVars, calls, call_of, loop, completed, members, unfinished >>

NpcapThreadStep == \/ WithoutCalls(wait_pops \/ wait_blocks \/ wait_returns \/ wait_receives)
                   \/ wait_thread_calls_lambda
                   \/ lambda_fails
                   \/ lambda_handles_datagram
                   \/ lambda_receives_next
                   \/ lambda_returns

NpcapUserStep == \/ async_receive_from
                 \/ receive_from
                 \/ receive_from_gets_result
                 \/ receive_from_fails
                 \/ receive_from_handles_datagram

NpcapOwnerStep == \/ npcap_bind
                  \/ destroy_members
                  \/ destroy_socket
                  \/ WithoutCalls(bind_starts_thread)
                  \/ WithoutCalls(destroy_joins)
                  \/ \E caller \in {"owner", "handler"} : \/ npcap_close(caller)
                                                         \/ WithoutCalls(close_notifies(caller))

(* Using members that are gone, or a null pointer in the reassembly, ends  *)
(* the program.                                                            *)
NpcapNext ==
  /\ alive /\ members # "missed"
  /\ \/ NpcapThreadStep
     \/ NpcapUserStep
     \/ NpcapOwnerStep
     \/ WithoutCalls(\E packet \in Packets : PacketArrives(packet))

NpcapSpec == NpcapInit /\ [][NpcapNext]_npcapVars

-----------------------------------------------------------------------------

(* The requests that stand for a call that is not completed yet.           *)
RequestsInProgress ==
  {async_receive_from_parameters_queue_[i] : i \in DOMAIN async_receive_from_parameters_queue_}
    \cup (IF \/ wait_thread_ \in {"popped", "receiving"}
              \/ lambda \in {"called", "incomplete"}
          THEN {next_async_receive_from_parameters} \ {NoRequest}
          ELSE {})

(* On a socket that is bound once, or never again after a close, a call of *)
(* async_receive_from is carried on by one request at a time and completes *)
(* at most once; it only ceases to do either when the wait thread has      *)
(* ended (the chain of receive_next_datagram_from's lambdas).              *)
CallsHaveOneRequestOrResult ==
  call_of # << >> =>
     \A call \in 1 .. calls :
        LET pending == Cardinality({r \in RequestsInProgress : call_of[r] = call})
            results == Cardinality({i \in DOMAIN completed : completed[i].call = call})
        IN  /\ pending + results <= 1
            /\ pending + results = 0 => wait_thread_ = "ended"

(* A message is given to the user with the endpoint it came from, and is   *)
(* put together from that endpoint's datagrams only, although calls share  *)
(* the reassembly and the wait thread works on one call's datagram after   *)
(* the other's.                                                            *)
EndpointsBelongToMessages ==
  \A i \in DOMAIN completed :
     completed[i].error = "OK" =>
        \A j \in DOMAIN completed[i].message :
           \E packet \in Packets : /\ packet[1] = completed[i].endpoint
                                  /\ packet[2].payload = completed[i].message[j].data

(* If the wait thread misses the members that the destructor destroys      *)
(* before it joins that thread, then it works for a call that was not      *)
(* completed when the destruction began, or whose completion handler had   *)
(* not returned, whatever other calls there were: a lambda does not touch  *)
(* the socket behind the completion handler.                               *)
OnlyUnfinishedCallsMissMembers == members = "missed" => CallInProgress \in unfinished

=============================================================================
