-------------------------- MODULE SocketOperations --------------------------
(***************************************************************************)
(* The calls of ecaludp::Socket that take several datagrams: receive_from, *)
(* async_receive_from and async_send_to, on asio's socket, in threads of   *)
(* the user's and in the threads that run the io_context; and cancel,      *)
(* close, shutdown and the destruction of the socket in the midst of them. *)
(*                                                                         *)
(* A call is carried on by operations, one for each datagram.  An          *)
(* asynchronous one is pending in asio, then ready, then its lambda runs.  *)
(* handle_datagram is two steps, its beginning and its end: it works on    *)
(* the reassembly without a lock.                                          *)
(***************************************************************************)
EXTENDS Socket

CONSTANTS
  Packets,          \* what arrives: pairs of a sender's endpoint and a datagram
  DefaultEndpoint,  \* an endpoint that was not written since its construction
  EmptyDatagram,    \* a datagram of 0 bytes
  NoPacket,         \* for an operation that has received nothing
  ListLength,       \* how many datagrams a message is sent in
  Systems,          \* operating systems, of "Linux", "Windows" and "MacOS"
  IoThreads,        \* how many threads run the io_context
  MaxCalls,         \* bound: calls
  MaxPackets        \* bound: packets that wait in the operating system

ASSUME OperationsAssumption ==
  /\ Packets \subseteq Endpoints \X Datagrams
  /\ EmptyDatagram \in Datagrams /\ EmptyDatagram.size = 0
  /\ DefaultEndpoint \notin Endpoints
  /\ NoPacket \notin (Endpoints \cup {DefaultEndpoint}) \X Datagrams
  /\ Systems \subseteq {"Linux", "Windows", "MacOS"}
  /\ {ListLength, IoThreads, MaxCalls, MaxPackets} \subseteq Nat
  /\ ListLength > 0

VARIABLES
  system,      \* the operating system
  socket_,     \* "open", "closed" or, with the whole Socket, "destroyed"
  shut,        \* shutdown was called
  inbox,       \* packets that wait in the operating system
  calls,       \* how many calls there were
  operations,  \* the operations that are not finished, in the order of their start
  completed,   \* what calls have given to their users, in that order
  busy,        \* the calls that still needed the Socket when it was destroyed
  missed       \* the calls whose lambda has used the Socket after that

osVars         == << system, socket_, shut, inbox >>
operationsVars == << socketVars, osVars, calls, operations, completed, busy, missed >>

OperationsInit == /\ SocketInit
                  /\ system \in Systems
                  /\ socket_ = "open"
                  /\ shut = FALSE
                  /\ inbox = << >>
                  /\ calls = 0
                  /\ operations = << >>
                  /\ completed = << >>
                  /\ busy = {}
                  /\ missed = {}

(* Two threads in handle_datagram at once are a data race.                 *)
Racing == \E i, j \in DOMAIN operations :
             i # j /\ operations[i].at = "handling" /\ operations[j].at = "handling"

(* Nothing undefined has happened yet.                                     *)
Sound == alive /\ missed = {} /\ ~ Racing

Operation(kind, call, sent) ==
  [kind |-> kind, call |-> call, sent |-> sent, at |-> "pending", error |-> "none", packet |-> NoPacket]

(* An asynchronous operation of asio's; on a closed socket it fails.       *)
AsioOperation(kind, call, sent) ==
  IF socket_ = "open" THEN Operation(kind, call, sent)
  ELSE [Operation(kind, call, sent) EXCEPT !.at = "ready", !.error = "bad_descriptor"]

Moved(i, place) == [operations EXCEPT ![i].at = place]

Replaced(i, operation) == Append(RemoveAt(operations, i), operation)

Completion(operation, error, message, endpoint) ==
  [call |-> operation.call, kind |-> operation.kind,
   error |-> error, message |-> message, endpoint |-> endpoint]

Completes(operation, error) ==
  completed' = Append(completed, Completion(operation, error, NoMessage, DefaultEndpoint))

CompletesWithMessage(operation) ==
  completed' = Append(completed, Completion(operation, "none", returned'.message, operation.packet[1]))

-----------------------------------------------------------------------------
(* The user's calls.                                                       *)

StartCall(operation) ==
  /\ Sound
  /\ socket_ # "destroyed"
  /\ calls < MaxCalls
  /\ calls' = calls + 1
  /\ operations' = Append(operations, operation)
  /\ UNCHANGED << socketVars, osVars, completed, busy, missed >>

async_receive_from == StartCall(AsioOperation("receive", calls + 1, 0))

(* async_send_to makes the datagram list and starts with its first.        *)
async_send_to == StartCall(AsioOperation("send", calls + 1, 0))

receive_from == StartCall([Operation("sync", calls + 1, 0) EXCEPT !.at = "asking"])

(* Those that wait in asio end with an error.                              *)
Aborted(ops) ==
  [i \in DOMAIN ops |->
     IF ops[i].at = "pending" THEN [ops[i] EXCEPT !.at = "ready", !.error = "operation_aborted"]
                              ELSE ops[i]]

(* A blocked receive_from ends with an error on some systems.              *)
Unblocked(ops, systems) ==
  [i \in DOMAIN ops |->
     IF ops[i].at = "blocked" /\ system \in systems
     THEN [ops[i] EXCEPT !.at = "asked", !.error = "interrupted"]
     ELSE ops[i]]

cancel ==
  /\ Sound
  /\ socket_ = "open"
  /\ operations' = Unblocked(Aborted(operations), {"Windows"})
  /\ UNCHANGED << socketVars, osVars, calls, completed, busy, missed >>

close ==
  /\ Sound
  /\ socket_ = "open"
  /\ socket_' = "closed"
  /\ operations' = Unblocked(Aborted(operations), {"Windows", "MacOS"})
  /\ UNCHANGED << socketVars, system, shut, inbox, calls, completed, busy, missed >>

(* On Linux receiving returns 0 bytes from now on.                         *)
shutdown ==
  /\ Sound
  /\ socket_ = "open"
  /\ shut' = TRUE
  /\ UNCHANGED << socketVars, system, socket_, inbox, calls, operations, completed, busy, missed >>

AllSent(sent) == sent = ListLength

(* The lambda of the last datagram of a call of async_send_to has nothing  *)
(* more to send, and so does not use the Socket.                           *)
IsLastSent(operation) == operation.kind = "send" /\ AllSent(operation.sent + 1)

(* Calls for which asio has received or sent a datagram, and which their   *)
(* lambda, whether a thread has taken it or not, is yet to go on with.     *)
Busy == {operations[i].call : i \in {i \in DOMAIN operations :
                                       /\ operations[i].at \in {"ready", "running", "handling"}
                                       /\ operations[i].error = "none"
                                       /\ ~ IsLastSent(operations[i])}}

(* Not while a thread is in receive_from.                                  *)
destroy ==
  /\ Sound
  /\ socket_ # "destroyed"
  /\ \A i \in DOMAIN operations : operations[i].kind # "sync"
  /\ socket_' = "destroyed"
  /\ operations' = Aborted(operations)
  /\ busy' = Busy
  /\ UNCHANGED << socketVars, system, shut, inbox, calls, completed, missed >>

-----------------------------------------------------------------------------
(* asio and the operating system.                                          *)

PacketArrives(packet) ==
  /\ Sound
  /\ socket_ = "open"
  /\ Len(inbox) < MaxPackets
  /\ inbox' = Append(inbox, packet)
  /\ UNCHANGED << socketVars, system, socket_, shut, calls, operations, completed, busy, missed >>

(* The oldest receive that is pending gets the oldest packet.              *)
ReceiveIsReady(i) ==
  /\ Sound
  /\ operations[i].kind = "receive" /\ operations[i].at = "pending"
  /\ \A j \in 1 .. i - 1 : ~ (operations[j].kind = "receive" /\ operations[j].at = "pending")
  /\ inbox # << >>
  /\ operations' = [operations EXCEPT ![i].at = "ready", ![i].packet = Head(inbox)]
  /\ inbox' = Tail(inbox)
  /\ UNCHANGED << socketVars, system, socket_, shut, calls, completed, busy, missed >>

SendIsReady(i, error) ==
  /\ Sound
  /\ operations[i].kind = "send" /\ operations[i].at = "pending"
  /\ operations' = [operations EXCEPT ![i].at = "ready", ![i].error = error]
  /\ UNCHANGED << socketVars, osVars, calls, completed, busy, missed >>

OnIoThread == {i \in DOMAIN operations :
                 /\ operations[i].kind # "sync"
                 /\ operations[i].at \in {"running", "handling", "completing"}}

IoThreadTakes(i) ==
  /\ Sound
  /\ operations[i].at = "ready"
  /\ Cardinality(OnIoThread) < IoThreads
  /\ operations' = Moved(i, "running")
  /\ UNCHANGED << socketVars, osVars, calls, completed, busy, missed >>

-----------------------------------------------------------------------------
(* The lambdas of receive_next_datagram_from and of                        *)
(* async_send_datagram_list_to.                                            *)

(* Fault: resizes the buffer and so on before it looks at the error.       *)
LambdaAlwaysUsesSocket(operation) == TRUE

(* A lambda only uses the Socket if there was no error, and something is   *)
(* left to do.                                                             *)
LambdaUsesSocket(operation) == operation.error = "none" /\ ~ IsLastSent(operation)

Misses(operation) == socket_ = "destroyed" /\ LambdaUsesSocket(operation)

lambda_misses_socket(i) ==
  /\ Sound
  /\ operations[i].at \in {"running", "handling"}
  /\ Misses(operations[i])
  /\ missed' = missed \cup {operations[i].call}
  /\ UNCHANGED << socketVars, osVars, calls, operations, completed, busy >>

(* Fault: takes an error for a reason to try again.                        *)
lambda_fails_and_tries_again(i) ==
  /\ Sound
  /\ operations[i].at = "running"
  /\ operations[i].error # "none"
  /\ ~ Misses(operations[i])
  /\ operations' = Replaced(i, AsioOperation(operations[i].kind, operations[i].call, operations[i].sent))
  /\ UNCHANGED << socketVars, osVars, calls, completed, busy, missed >>

lambda_fails(i) ==
  /\ Sound
  /\ operations[i].at = "running"
  /\ operations[i].error # "none"
  /\ ~ Misses(operations[i])
  /\ Completes(operations[i], operations[i].error)
  /\ operations' = Moved(i, "completing")
  /\ UNCHANGED << socketVars, osVars, calls, busy, missed >>

(* Completes when start_it has reached the end, or sends the next one.     *)
lambda_sends_next(i) ==
  LET sent == operations[i].sent + 1
  IN  /\ Sound
      /\ operations[i].at = "running"
      /\ operations[i].kind = "send" /\ operations[i].error = "none"
      /\ ~ Misses(operations[i])
      /\ \/ /\ AllSent(sent)
            /\ Completes(operations[i], "none")
            /\ operations' = [Moved(i, "completing") EXCEPT ![i].sent = sent]
         \/ /\ ~ AllSent(sent)
            /\ operations' = Replaced(i, AsioOperation("send", operations[i].call, sent))
            /\ UNCHANGED completed
      /\ UNCHANGED << socketVars, osVars, calls, busy, missed >>

(* Fault: asks for the next datagram before it handles this one.           *)
lambda_receives_next_first(i) ==
  /\ Sound
  /\ operations[i].at = "running"
  /\ operations[i].kind = "receive" /\ operations[i].error = "none"
  /\ ~ Misses(operations[i])
  /\ operations' = Append(Moved(i, "handling"), AsioOperation("receive", operations[i].call, 0))
  /\ UNCHANGED << socketVars, osVars, calls, completed, busy, missed >>

lambda_begins_to_handle(i) ==
  /\ Sound
  /\ operations[i].at = "running"
  /\ operations[i].kind = "receive" /\ operations[i].error = "none"
  /\ ~ Misses(operations[i])
  /\ operations' = Moved(i, "handling")
  /\ UNCHANGED << socketVars, osVars, calls, completed, busy, missed >>

(* handle_datagram ends, and the lambda completes the call, or receives    *)
(* the next datagram.                                                      *)
lambda_handles_datagram(i) ==
  LET operation == operations[i]
  IN  /\ Sound
      /\ operation.at = "handling" /\ operation.kind = "receive"
      /\ ~ Misses(operation)
      /\ handle_datagram(operation.packet[1], operation.packet[2])
      /\ \/ /\ returned'.message # NoMessage
            /\ CompletesWithMessage(operation)
            /\ operations' = Moved(i, "completing")
         \/ /\ returned'.message = NoMessage
            /\ operations' = Replaced(i, AsioOperation("receive", operation.call, 0))
            /\ UNCHANGED completed
      /\ UNCHANGED << osVars, calls, busy, missed >>

(* The user's completion handler returns.                                  *)
handler_returns(i) ==
  /\ Sound
  /\ operations[i].at = "completing"
  /\ operations' = RemoveAt(operations, i)
  /\ UNCHANGED << socketVars, osVars, calls, completed, busy, missed >>

-----------------------------------------------------------------------------
(* receive_from: each round asks the operating system for a datagram, and  *)
(* has then asked.                                                         *)

Asks(i) ==
  /\ Sound
  /\ operations[i].at = "asking"
  /\ operations' = IF socket_ = "open" THEN Moved(i, "blocked")
                   ELSE [operations EXCEPT ![i].at = "asked", ![i].error = "bad_descriptor"]
  /\ UNCHANGED << socketVars, osVars, calls, completed, busy, missed >>

GetsPacket(i) ==
  /\ Sound
  /\ operations[i].at = "blocked"
  /\ inbox # << >>
  /\ operations' = [operations EXCEPT ![i].at = "asked", ![i].packet = Head(inbox)]
  /\ inbox' = Tail(inbox)
  /\ UNCHANGED << socketVars, system, socket_, shut, calls, completed, busy, missed >>

(* 0 bytes, no error, and nothing written to the endpoint.                 *)
GetsNothing(i) ==
  /\ Sound
  /\ operations[i].at = "blocked"
  /\ shut /\ system = "Linux"
  /\ inbox = << >>
  /\ operations' = [operations EXCEPT ![i].at = "asked", ![i].packet = << DefaultEndpoint, EmptyDatagram >>]
  /\ UNCHANGED << socketVars, osVars, calls, completed, busy, missed >>

receive_from_fails(i) ==
  /\ Sound
  /\ operations[i].at = "asked"
  /\ operations[i].error # "none"
  /\ Completes(operations[i], operations[i].error)
  /\ operations' = RemoveAt(operations, i)
  /\ UNCHANGED << socketVars, osVars, calls, busy, missed >>

(* Fault: takes an empty datagram for a shutdown.                          *)
WasShutDownByBytes(packet) == packet[2].size = 0

(* Fault: does without the workaround.                                     *)
WasShutDownNever(packet) == FALSE

(* 0 bytes from the default endpoint are how a shutdown shows on Linux.    *)
WasShutDown(packet) == packet[2].size = 0 /\ packet[1] = DefaultEndpoint

receive_from_was_shut_down(i) ==
  /\ Sound
  /\ operations[i].at = "asked"
  /\ operations[i].error = "none"
  /\ WasShutDown(operations[i].packet)
  /\ Completes(operations[i], "none")
  /\ operations' = RemoveAt(operations, i)
  /\ UNCHANGED << socketVars, osVars, calls, busy, missed >>

receive_from_begins_to_handle(i) ==
  /\ Sound
  /\ operations[i].at = "asked"
  /\ operations[i].error = "none"
  /\ ~ WasShutDown(operations[i].packet)
  /\ operations' = Moved(i, "handling")
  /\ UNCHANGED << socketVars, osVars, calls, completed, busy, missed >>

receive_from_handles_datagram(i) ==
  LET operation == operations[i]
  IN  /\ Sound
      /\ operation.at = "handling" /\ operation.kind = "sync"
      /\ handle_datagram(operation.packet[1], operation.packet[2])
      /\ \/ /\ returned'.message # NoMessage
            /\ CompletesWithMessage(operation)
            /\ operations' = RemoveAt(operations, i)
         \/ /\ returned'.message = NoMessage
            /\ operations' = [operations EXCEPT ![i].at = "asking", ![i].packet = NoPacket]
            /\ UNCHANGED completed
      /\ UNCHANGED << osVars, calls, busy, missed >>

-----------------------------------------------------------------------------
LambdaStep(i) == \/ IoThreadTakes(i)
                 \/ lambda_misses_socket(i)
                 \/ lambda_fails(i)
                 \/ lambda_sends_next(i)
                 \/ lambda_begins_to_handle(i)
                 \/ lambda_handles_datagram(i)
                 \/ handler_returns(i)

ReceiveFromStep(i) == \/ Asks(i)
                      \/ GetsPacket(i)
                      \/ GetsNothing(i)
                      \/ receive_from_fails(i)
                      \/ receive_from_was_shut_down(i)
                      \/ receive_from_begins_to_handle(i)
                      \/ receive_from_handles_datagram(i)

AsioStep(i) == ReceiveIsReady(i) \/ SendIsReady(i, "none") \/ SendIsReady(i, "failed")

UserStep == \/ async_receive_from \/ async_send_to \/ receive_from
            \/ cancel \/ close \/ shutdown \/ destroy

OperationsNext ==
  \/ \E i \in DOMAIN operations : LambdaStep(i) \/ ReceiveFromStep(i) \/ AsioStep(i)
  \/ \E packet \in Packets : PacketArrives(packet)
  \/ UserStep

OperationsSpec == OperationsInit /\ [][OperationsNext]_operationsVars

(* The threads that run the io_context, and those in receive_from, go on.  *)
OperationsFairSpec ==
  /\ OperationsSpec
  /\ WF_operationsVars(\E i \in DOMAIN operations : LambdaStep(i))
  /\ WF_operationsVars(\E i \in DOMAIN operations : ReceiveFromStep(i))

-----------------------------------------------------------------------------

(* Every call, of whatever kind, has exactly one operation or exactly one  *)
(* result, until undefined behaviour sets in: neither cancel, close nor    *)
(* the destruction of the Socket loses or doubles a completion, whatever   *)
(* the call's lambda is doing (the chains of receive_next_datagram_from    *)
(* and async_send_datagram_list_to).                                       *)
CallsAreInProgressOrCompleted ==
  \A call \in 1 .. calls :
     Cardinality({i \in DOMAIN operations : /\ operations[i].call = call
                                            /\ operations[i].at # "completing"})
       + Cardinality({i \in DOMAIN completed : completed[i].call = call}) = 1

(* handle_datagram has no lock; but two threads are only ever in it for    *)
(* two calls.  One call at a time is safe with any number of threads, as   *)
(* its next operation starts when handle_datagram has ended.               *)
RacesNeedTwoCalls ==
  \A i, j \in DOMAIN operations :
     /\ i # j
     /\ operations[i].at = "handling" /\ operations[j].at = "handling"
     => operations[i].call # operations[j].call

(* A lambda captures this, or the socket, and runs whether or not they     *)
(* exist.  Each call that misses the Socket is one for which asio had      *)
(* received or sent a datagram when the Socket was destroyed, with more to *)
(* do for the lambda.  A call that was waiting in asio then ends with an   *)
(* error, and one that was in its completion handler, or had sent all, is  *)
(* over, whatever other calls were busy.                                   *)
OnlyBusyCallsMissTheSocket == missed \subseteq busy

(* receive_from returns neither a message nor an error only after a        *)
(* shutdown, although it receives empty datagrams from others, too.        *)
NothingWithoutErrorMeansShutdown ==
  \A i \in DOMAIN completed :
     (/\ completed[i].kind = "sync"
      /\ completed[i].error = "none"
      /\ completed[i].message = NoMessage) => shut

InProgress(call) == \E i \in DOMAIN operations : operations[i].call = call

(* receive_from ends as the comments and the test say: on Linux after      *)
(* shutdown, which gives no error, once no packet waits any more, and      *)
(* elsewhere after close (socket.cpp:196, ecaludp_socket_test.cpp:280).    *)
ReceiveFromCanBeUnblocked ==
  \A call \in 1 .. MaxCalls :
     (/\ \E i \in DOMAIN operations : operations[i].call = call /\ operations[i].kind = "sync"
      /\ IF system = "Linux" THEN shut ELSE socket_ = "closed")
     ~> \/ ~ Sound
        \/ ~ InProgress(call)
        \/ system = "Linux" /\ inbox # << >>

(* Once the socket is closed or destroyed, every asynchronous call         *)
(* completes, and its handler returns; cancel does not promise that.       *)
ClosedSocketsCompleteTheirCalls ==
  \A call \in 1 .. MaxCalls :
     (/\ \E i \in DOMAIN operations : operations[i].call = call /\ operations[i].kind # "sync"
      /\ socket_ # "open")
     ~> ~ Sound \/ ~ InProgress(call)

=============================================================================
