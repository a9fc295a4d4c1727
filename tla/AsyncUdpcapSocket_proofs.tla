---------------------- MODULE AsyncUdpcapSocket_proofs ----------------------
(***************************************************************************)
(* Proofs about AsyncUdpcapSocket, for any number of requests, packets and *)
(* binds, and any errors of Udpcap: its types, that no wake-up is lost,    *)
(* when an empty handler can be called, and that the wait thread           *)
(* implements RequestQueue.                                                *)
(***************************************************************************)
EXTENDS AsyncUdpcapSocket, TLAPS

-----------------------------------------------------------------------------
(* Types.                                                                  *)

(* Whatever error Udpcap returns, the user gets one of ecaludp's.          *)
LEMMA ErrorsAreEcaludps == \A udpcap_error : toEcaludpError(udpcap_error) \in EcaludpErrors
BY DEF toEcaludpError, EcaludpErrors

(* What receiveDatagram returns is a result, and it leaves the socket as   *)
(* bound or closed as it was.                                              *)
LEMMA ReceiveDatagramTypes ==
  ASSUME AsyncTypeOK, NEW r, NEW u, receiveDatagram(r, u)
  PROVE  /\ r \in Results
         /\ u \in [bound : BOOLEAN, closed : BOOLEAN, inbox : Seq(Packets)]
         /\ u.closed = udpcap_socket_.closed
<1> USE ErrorsAreEcaludps DEF Failure, Results
<1>0. udpcap_socket_ \in [bound : BOOLEAN, closed : BOOLEAN, inbox : Seq(Packets)]
  BY DEF AsyncTypeOK
<1>1. CASE /\ udpcap_socket_.bound /\ udpcap_socket_.inbox # << >>
           /\ r = [error |-> "OK", packet |-> Head(udpcap_socket_.inbox)]
           /\ u = [udpcap_socket_ EXCEPT !.inbox = Tail(@)]
  <2>1. Head(udpcap_socket_.inbox) \in Packets /\ Tail(udpcap_socket_.inbox) \in Seq(Packets)
    BY <1>0, <1>1
  <2>2. r \in Results
    BY <1>1, <2>1 DEF EcaludpErrors
  <2>3. u \in [bound : BOOLEAN, closed : BOOLEAN, inbox : Seq(Packets)] /\ u.closed = udpcap_socket_.closed
    BY <1>0, <1>1, <2>1
  <2>4. QED BY <2>2, <2>3
<1>2. CASE r = Failure(toEcaludpError("SOCKET_CLOSED")) /\ u = udpcap_socket_
  BY <1>0, <1>2
<1>3. CASE r = Failure(toEcaludpError("NOT_BOUND")) /\ u = udpcap_socket_
  BY <1>0, <1>3
<1>4. QED BY <1>1, <1>2, <1>3 DEF receiveDatagram

(* A receive that fails for another reason has a result, too.              *)
LEMMA ReceiveDatagramFailsTypes ==
  ASSUME NEW r, receiveDatagramFails(r)
  PROVE  r \in Results
BY ErrorsAreEcaludps DEF receiveDatagramFails, Failure, Results

(* The variables have their types at first, and after every step.          *)
LEMMA InitTypes == AsyncInit => AsyncTypeOK
<1> SUFFICES ASSUME AsyncInit
             PROVE  AsyncTypeOK
  OBVIOUS
<1>1. udpcap_socket_ \in [bound : BOOLEAN, closed : BOOLEAN, inbox : Seq(Packets)]
  BY DEF AsyncInit
<1>2. result \in Results /\ received \in Results
  BY DEF AsyncInit, Results, Failure, EcaludpErrors
<1>3. /\ async_receive_from_parameters_queue_ \in Seq(1 .. requests)
      /\ answered \in Seq(1 .. requests)
  BY DEF AsyncInit
<1>4. /\ requests \in Nat /\ binds \in Nat
      /\ next_async_receive_from_parameters \in 0 .. requests
      /\ wait_thread_ = "none" /\ closing \subseteq {"owner", "handler"}
      /\ owner = "idle" /\ receiving = FALSE
  BY DEF AsyncInit, NoRequest
<1>5. QED BY <1>1, <1>2, <1>3, <1>4 DEF AsyncTypeOK

\* Every step keeps the types.
LEMMA StepTypes == AsyncTypeOK /\ [AsyncNext]_asyncVars => AsyncTypeOK'
<1> SUFFICES ASSUME AsyncTypeOK, [AsyncNext]_asyncVars
             PROVE  AsyncTypeOK'
  OBVIOUS
<1> USE DEF queueVars, waitVars, ownerVars, syncVars, notify_one
<1>1. CASE wait_pops
  <2>1. /\ next_async_receive_from_parameters' \in 0 .. requests
        /\ async_receive_from_parameters_queue_' \in Seq(1 .. requests)
    <3> DEFINE queue == async_receive_from_parameters_queue_
    <3>1. requests \in Nat /\ queue \in Seq(1 .. requests)
      BY DEF AsyncTypeOK
    <3>2. CASE queue = << >>
      BY <1>1, <3>1, <3>2 DEF wait_pops, NoRequest
    <3>3. CASE queue # << >>
      <4>1. Head(queue) \in 1 .. requests /\ Tail(queue) \in Seq(1 .. requests)
        BY <3>1, <3>3
      <4>2. QED BY <1>1, <3>1, <3>3, <4>1 DEF wait_pops
    <3>4. QED BY <3>2, <3>3
  <2>2. QED BY <1>1, <2>1 DEF AsyncTypeOK, wait_pops
<1>2. CASE wait_blocks
  BY <1>2 DEF AsyncTypeOK, wait_blocks
<1>3. CASE wait_returns
  BY <1>3 DEF AsyncTypeOK, wait_returns, NoRequest
<1>4. CASE wait_receives
  BY <1>4 DEF AsyncTypeOK, wait_receives
<1>5. CASE handler_returns
  BY <1>5 DEF AsyncTypeOK, handler_returns, NoRequest
<1>6. ASSUME CallHandler, result' \in Results,
             udpcap_socket_' \in [bound : BOOLEAN, closed : BOOLEAN, inbox : Seq(Packets)]
      PROVE  AsyncTypeOK'
  <2>1. answered' \in Seq(1 .. requests)
    <3>1. /\ requests \in Nat /\ answered \in Seq(1 .. requests)
          /\ next_async_receive_from_parameters \in 0 .. requests
      BY DEF AsyncTypeOK
    <3>2. CASE next_async_receive_from_parameters = NoRequest
      BY <1>6, <3>1, <3>2 DEF CallHandler
    <3>3. CASE next_async_receive_from_parameters # NoRequest
      <4>1. next_async_receive_from_parameters \in 1 .. requests
        BY <3>1, <3>3 DEF NoRequest
      <4>2. answered' = Append(answered, next_async_receive_from_parameters)
        BY <1>6, <3>3 DEF CallHandler
      <4>3. QED BY <3>1, <4>1, <4>2
    <3>4. QED BY <3>2, <3>3
  <2>2. wait_thread_' \in {"crashed", "handling"}
    BY <1>6 DEF CallHandler
  <2>3. QED BY <1>6, <2>1, <2>2 DEF AsyncTypeOK, CallHandler
<1>7. CASE wait_answers
  BY <1>6, <1>7, ReceiveDatagramTypes DEF wait_answers
<1>8. CASE wait_answers_with_failure
  BY <1>6, <1>8, ReceiveDatagramFailsTypes DEF wait_answers_with_failure, AsyncTypeOK
<1>9. CASE wait_wakes_spuriously
  BY <1>9 DEF AsyncTypeOK, wait_wakes_spuriously
<1>10. CASE bind_starts_thread
  BY <1>10 DEF AsyncTypeOK, bind_starts_thread
<1>11. CASE destroy_joins
  BY <1>11 DEF AsyncTypeOK, destroy_joins
<1>12. CASE bind
  <2>1. udpcap_socket_' \in [bound : BOOLEAN, closed : BOOLEAN, inbox : Seq(Packets)]
    BY <1>12 DEF bind
  <2>2. QED BY <1>12, <2>1 DEF AsyncTypeOK, bind
<1>13. UdpcapCloses \in [bound : BOOLEAN, closed : BOOLEAN, inbox : Seq(Packets)]
  BY DEF UdpcapCloses
<1>14. CASE destroy
  BY <1>13, <1>14 DEF AsyncTypeOK, destroy
<1>15. ASSUME NEW caller \in {"owner", "handler"}, close(caller)
       PROVE  AsyncTypeOK'
  BY <1>13, <1>15 DEF AsyncTypeOK, close
<1>16. ASSUME NEW caller \in {"owner", "handler"}, close_notifies(caller)
       PROVE  AsyncTypeOK'
  BY <1>16 DEF AsyncTypeOK, close_notifies
<1>17. CASE asyncReceiveFrom
  <2>1. requests' = requests + 1 /\ requests' \in Nat /\ 1 .. requests \subseteq 1 .. requests'
    BY <1>17 DEF AsyncTypeOK, asyncReceiveFrom
  <2>2. async_receive_from_parameters_queue_' \in Seq(1 .. requests') /\ answered' \in Seq(1 .. requests')
    <3>1. async_receive_from_parameters_queue_ \in Seq(1 .. requests') /\ answered \in Seq(1 .. requests')
      BY <2>1 DEF AsyncTypeOK
    <3>2. requests + 1 \in 1 .. requests'
      BY <2>1 DEF AsyncTypeOK
    <3>3. QED BY <1>17, <3>1, <3>2 DEF asyncReceiveFrom
  <2>3. next_async_receive_from_parameters' \in 0 .. requests'
    BY <1>17, <2>1 DEF AsyncTypeOK, asyncReceiveFrom
  <2>4. QED BY <1>17, <2>1, <2>2, <2>3 DEF AsyncTypeOK, asyncReceiveFrom
<1>18. CASE receiveFrom
  BY <1>18 DEF AsyncTypeOK, receiveFrom
<1>19. CASE receiveFromReturns
  <2>1. /\ received' \in Results
        /\ udpcap_socket_' \in [bound : BOOLEAN, closed : BOOLEAN, inbox : Seq(Packets)]
    BY <1>19, ReceiveDatagramTypes, ReceiveDatagramFailsTypes DEF receiveFromReturns, AsyncTypeOK
  <2>2. QED BY <1>19, <2>1 DEF AsyncTypeOK, receiveFromReturns
<1>20. ASSUME NEW packet \in Packets, PacketArrives(packet)
       PROVE  AsyncTypeOK'
  <2>1. udpcap_socket_' \in [bound : BOOLEAN, closed : BOOLEAN, inbox : Seq(Packets)]
    <3>1. udpcap_socket_ \in [bound : BOOLEAN, closed : BOOLEAN, inbox : Seq(Packets)]
      BY DEF AsyncTypeOK
    <3>2. Append(udpcap_socket_.inbox, packet) \in Seq(Packets)
      BY <3>1
    <3>3. QED BY <1>20, <3>1, <3>2 DEF PacketArrives
  <2>2. QED BY <1>20, <2>1 DEF AsyncTypeOK, PacketArrives
<1>21. CASE UNCHANGED asyncVars
  BY <1>21 DEF AsyncTypeOK, asyncVars
<1>22. QED
  BY <1>1, <1>2, <1>3, <1>4, <1>5, <1>7, <1>8, <1>9, <1>10, <1>11, <1>12, <1>14, <1>15, <1>16,
     <1>17, <1>18, <1>19, <1>20, <1>21 DEF AsyncNext, WaitThreadStep, OwnerStep

(* Every variable of an AsyncUdpcapSocket has its type.                    *)
THEOREM AsyncTypeCorrect == AsyncSpec => []AsyncTypeOK
BY InitTypes, StepTypes, PTL DEF AsyncSpec

-----------------------------------------------------------------------------
(* Wake-ups.  The property is inductive: who makes the predicate true      *)
(* notifies, and close, which changes it without the mutex, is noted in    *)
(* closing until it has.                                                   *)

LEMMA StepLosesNoWakeUp == AsyncTypeOK /\ NoWakeUpIsLost /\ [AsyncNext]_asyncVars => NoWakeUpIsLost'
<1> SUFFICES ASSUME AsyncTypeOK, NoWakeUpIsLost, [AsyncNext]_asyncVars, wait_thread_' = "blocked"
             PROVE  /\ async_receive_from_parameters_queue_' = << >>
                    /\ isClosed' => closing' # {}
  BY DEF NoWakeUpIsLost
<1> USE DEF NoWakeUpIsLost, queueVars, waitVars, ownerVars, syncVars, notify_one, isClosed
<1>1. CASE WaitThreadStep \/ wait_answers_with_failure
  <2>1. wait_blocks
    BY <1>1 DEF WaitThreadStep, wait_pops, wait_returns, wait_receives, wait_answers,
                wait_answers_with_failure, CallHandler, handler_returns
  <2>2. QED BY <2>1 DEF wait_blocks
<1>2. CASE wait_wakes_spuriously \/ OwnerStep
  BY <1>2 DEF wait_wakes_spuriously, OwnerStep, bind_starts_thread, destroy_joins
<1>3. CASE bind
  BY <1>3 DEF bind
<1>4. CASE destroy
  BY <1>4 DEF destroy
<1>5. ASSUME NEW caller \in {"owner", "handler"}, close(caller) \/ close_notifies(caller)
      PROVE  /\ async_receive_from_parameters_queue_' = << >>
             /\ isClosed' => closing' # {}
  BY <1>5 DEF close, close_notifies
<1>6. CASE asyncReceiveFrom
  BY <1>6 DEF asyncReceiveFrom
<1>7. CASE receiveFrom
  BY <1>7 DEF receiveFrom
<1>8. CASE receiveFromReturns
  <2>1. udpcap_socket_'.closed = udpcap_socket_.closed
    BY <1>8, ReceiveDatagramTypes DEF receiveFromReturns
  <2>2. QED BY <1>8, <2>1 DEF receiveFromReturns
<1>9. ASSUME NEW packet \in Packets, PacketArrives(packet)
      PROVE  /\ async_receive_from_parameters_queue_' = << >>
             /\ isClosed' => closing' # {}
  <2>1. udpcap_socket_'.closed = udpcap_socket_.closed
    BY <1>9 DEF PacketArrives, AsyncTypeOK
  <2>2. QED BY <1>9, <2>1 DEF PacketArrives
<1>10. CASE UNCHANGED asyncVars
  BY <1>10 DEF asyncVars
<1>11. QED
  BY <1>1, <1>2, <1>3, <1>4, <1>5, <1>6, <1>7, <1>8, <1>9, <1>10 DEF AsyncNext

(* The wait thread is never left blocked while there is something to do    *)
(* and nobody about to notify it.                                          *)
THEOREM WakeUpsAreNotLost == AsyncSpec => []NoWakeUpIsLost
<1>1. AsyncInit => NoWakeUpIsLost
  BY DEF AsyncInit, NoWakeUpIsLost
<1>2. QED BY <1>1, AsyncTypeCorrect, StepLosesNoWakeUp, PTL DEF AsyncSpec

-----------------------------------------------------------------------------
(* Empty handlers.  A thread that has found no request under the mutex has *)
(* found the socket closed, and nobody can add a request before its second *)
(* look, so only a second bind makes it go on.                             *)

EmptyInv ==
  /\ wait_thread_ # "none" \/ owner = "binding" => binds >= 1
  /\ wait_thread_ = "popped" /\ next_async_receive_from_parameters = NoRequest =>
        /\ async_receive_from_parameters_queue_ = << >>
        /\ isClosed \/ binds > 1
  /\ wait_thread_ = "receiving" /\ next_async_receive_from_parameters = NoRequest => binds > 1
  /\ wait_thread_ = "crashed" => binds > 1

\* Every step preserves EmptyInv, the reason why an empty handler is called
\* only after a rebind.
LEMMA StepKeepsEmptyInv == AsyncTypeOK /\ EmptyInv /\ [AsyncNext]_asyncVars => EmptyInv'
<1> SUFFICES ASSUME AsyncTypeOK, EmptyInv, [AsyncNext]_asyncVars
             PROVE  EmptyInv'
  OBVIOUS
<1> USE DEF EmptyInv, queueVars, waitVars, ownerVars, syncVars, notify_one, isClosed, MutexIsFree
<1>0. binds \in Nat
  BY DEF AsyncTypeOK
<1>1. CASE wait_pops
  <2>1. async_receive_from_parameters_queue_ # << >> => Head(async_receive_from_parameters_queue_) # NoRequest
    BY DEF AsyncTypeOK, NoRequest
  <2>2. QED BY <1>1, <2>1 DEF wait_pops
<1>2. CASE wait_receives
  BY <1>2 DEF wait_receives, NothingLeft
<1>3. CASE wait_blocks \/ wait_returns \/ handler_returns \/ wait_wakes_spuriously
  BY <1>3 DEF wait_blocks, wait_returns, handler_returns, wait_wakes_spuriously
<1>4. CASE wait_answers \/ wait_answers_with_failure
  BY <1>4 DEF wait_answers, wait_answers_with_failure, CallHandler
<1>5. CASE OwnerStep
  BY <1>5 DEF OwnerStep, bind_starts_thread, destroy_joins
<1>6. CASE bind
  BY <1>0, <1>6 DEF bind
<1>7. CASE destroy
  BY <1>7 DEF destroy, UdpcapCloses
<1>8. ASSUME NEW caller \in {"owner", "handler"}, close(caller) \/ close_notifies(caller)
      PROVE  EmptyInv'
  BY <1>8 DEF close, close_notifies, UdpcapCloses
<1>9. CASE asyncReceiveFrom
  BY <1>9 DEF asyncReceiveFrom
<1>10. CASE receiveFrom
  BY <1>10 DEF receiveFrom
<1>11. CASE receiveFromReturns
  <2>1. udpcap_socket_'.closed = udpcap_socket_.closed
    BY <1>11, ReceiveDatagramTypes DEF receiveFromReturns
  <2>2. QED BY <1>11, <2>1 DEF receiveFromReturns
<1>12. ASSUME NEW packet \in Packets, PacketArrives(packet)
       PROVE  EmptyInv'
  <2>1. udpcap_socket_'.closed = udpcap_socket_.closed
    BY <1>12 DEF PacketArrives, AsyncTypeOK
  <2>2. QED BY <1>12, <2>1 DEF PacketArrives
<1>13. CASE UNCHANGED asyncVars
  BY <1>13 DEF asyncVars
<1>14. QED
  BY <1>1, <1>2, <1>3, <1>4, <1>5, <1>6, <1>7, <1>8, <1>9, <1>10, <1>11, <1>12, <1>13
     DEF AsyncNext, WaitThreadStep

(* Whoever binds a socket only once never makes it call an empty handler.  *)
THEOREM NoEmptyHandlerWithoutRebind == AsyncSpec => []EmptyHandlersNeedARebind
<1>1. AsyncInit => EmptyInv
  BY DEF AsyncInit, EmptyInv
<1>2. EmptyInv => EmptyHandlersNeedARebind
  BY DEF EmptyInv, EmptyHandlersNeedARebind
<1>3. QED BY <1>1, <1>2, AsyncTypeCorrect, StepKeepsEmptyInv, PTL DEF AsyncSpec

-----------------------------------------------------------------------------
(* The refinement.  A request waits from asyncReceiveFrom until its        *)
(* handler is called or the thread returns with it; taking it off the      *)
(* queue is a stutter.                                                     *)

(* A step that leaves the requests and the answers alone opens the socket, *)
(* closes it, or neither.                                                  *)
LEMMA OtherStepsOpenOrClose ==
  ASSUME AsyncTypeOK', Waiting' = Waiting, answered' = answered
  PROVE  Queue!RequestNext
BY DEF Queue!RequestNext, Queue!OpenOrClose, AsyncTypeOK, isClosed

(* The wait thread's steps.                                                *)
LEMMA WaitThreadImplements ==
  ASSUME AsyncTypeOK, AsyncTypeOK',
         \/ WaitThreadStep \/ wait_answers_with_failure \/ wait_wakes_spuriously
  PROVE  Queue!RequestNext
<1> DEFINE queue == async_receive_from_parameters_queue_
           next  == next_async_receive_from_parameters
<1> USE DEF queueVars, waitVars, ownerVars, syncVars
<1>0. /\ requests \in Nat /\ queue \in Seq(1 .. requests) /\ next \in 0 .. requests
      /\ udpcap_socket_ \in [bound : BOOLEAN, closed : BOOLEAN, inbox : Seq(Packets)]
  BY DEF AsyncTypeOK
<1>1. CASE wait_pops
  <2>1. CASE queue = << >>
    <3>1. Waiting' = Waiting /\ answered' = answered
      BY <1>1, <2>1 DEF wait_pops, Waiting
    <3>2. QED BY <3>1, OtherStepsOpenOrClose
  <2>2. CASE queue # << >>
    <3>1. Head(queue) # NoRequest /\ << Head(queue) >> \o Tail(queue) = queue
      BY <1>0, <2>2 DEF NoRequest
    <3>2. Waiting = queue /\ Waiting' = << Head(queue) >> \o Tail(queue)
      BY <1>1, <2>2, <3>1 DEF wait_pops, Waiting
    <3>3. answered' = answered
      BY <1>1 DEF wait_pops
    <3>4. QED BY <3>1, <3>2, <3>3, OtherStepsOpenOrClose
  <2>3. QED BY <2>1, <2>2
<1>2. CASE wait_blocks \/ wait_receives \/ handler_returns \/ wait_wakes_spuriously
  <2>1. Waiting' = Waiting /\ answered' = answered
    BY <1>2 DEF wait_blocks, wait_receives, handler_returns, wait_wakes_spuriously, Waiting
  <2>2. QED BY <2>1, OtherStepsOpenOrClose
<1>3. CASE wait_returns
  <2>1. /\ queue = << >> /\ isClosed /\ isClosed' = isClosed
        /\ Waiting' = << >> /\ answered' = answered
    BY <1>3 DEF wait_returns, NothingLeft, isClosed, Waiting
  <2>2. CASE next = NoRequest
    <3>1. Waiting = << >>
      BY <1>3, <2>1, <2>2 DEF wait_returns, Waiting
    <3>2. QED BY <2>1, <3>1, OtherStepsOpenOrClose
  <2>3. CASE next # NoRequest
    <3>1. Waiting = << next >> \o << >>
      BY <1>3, <2>1, <2>3 DEF wait_returns, Waiting
    <3>2. Len(Waiting) = 1
      BY <3>1
    <3>3. QED BY <2>1, <3>2 DEF Queue!RequestNext, Queue!Abandon
  <2>4. QED BY <2>2, <2>3
<1>4. ASSUME wait_thread_ = "receiving", CallHandler, isClosed' = isClosed
      PROVE  Queue!RequestNext
  <2>1. CASE next = NoRequest
    <3>1. Waiting' = Waiting /\ answered' = answered
      BY <1>4, <2>1 DEF CallHandler, Waiting
    <3>2. QED BY <3>1, OtherStepsOpenOrClose
  <2>2. CASE next # NoRequest
    <3>1. Waiting = << next >> \o queue /\ Waiting' = queue /\ answered' = Append(answered, next)
      BY <1>4, <2>2 DEF CallHandler, Waiting
    <3>2. Waiting # << >> /\ Head(Waiting) = next /\ Tail(Waiting) = queue
      BY <1>0, <3>1
    <3>3. QED BY <1>4, <3>1, <3>2 DEF Queue!RequestNext, Queue!Answer
  <2>3. QED BY <2>1, <2>2
<1>5. CASE wait_answers
  <2>1. isClosed' = isClosed
    BY <1>5, ReceiveDatagramTypes DEF wait_answers, isClosed
  <2>2. QED BY <1>4, <1>5, <2>1 DEF wait_answers
<1>6. CASE wait_answers_with_failure
  BY <1>4, <1>6 DEF wait_answers_with_failure, isClosed
<1>7. QED BY <1>1, <1>2, <1>3, <1>5, <1>6 DEF WaitThreadStep

(* A new request is the youngest, also while the thread works on another.  *)
LEMMA AskingImplements ==
  ASSUME AsyncTypeOK, asyncReceiveFrom
  PROVE  Queue!RequestNext
<1> DEFINE queue == async_receive_from_parameters_queue_
           next  == next_async_receive_from_parameters
           new   == requests + 1
<1> USE DEF queueVars, waitVars, ownerVars, syncVars
<1>0. /\ requests \in Nat /\ queue \in Seq(1 .. requests) /\ next \in 0 .. requests
      /\ wait_thread_ # "popped"
      /\ queue' = Append(queue, new) /\ next' = next
      /\ isClosed' = isClosed /\ answered' = answered
  BY DEF AsyncTypeOK, asyncReceiveFrom, MutexIsFree, isClosed
<1>1. new \in 1 .. MaxRequests
  BY <1>0, AsyncBoundsAssumption DEF asyncReceiveFrom
<1>2. (wait_thread_' \in {"popped", "receiving"}) <=> (wait_thread_ \in {"popped", "receiving"})
  BY DEF asyncReceiveFrom, notify_one, AsyncTypeOK
<1>3. Waiting' = Append(Waiting, new)
  <2>1. CASE wait_thread_ \in {"popped", "receiving"} /\ next # NoRequest
    <3>1. Waiting = << next >> \o queue /\ Waiting' = << next >> \o Append(queue, new)
      BY <1>0, <1>2, <2>1 DEF Waiting
    <3>2. << next >> \o Append(queue, new) = Append(<< next >> \o queue, new)
      BY <1>0
    <3>3. QED BY <3>1, <3>2
  <2>2. CASE ~ (wait_thread_ \in {"popped", "receiving"} /\ next # NoRequest)
    BY <1>0, <1>2, <2>2 DEF Waiting
  <2>3. QED BY <2>1, <2>2
<1>4. QED BY <1>0, <1>1, <1>3 DEF Queue!RequestNext, Queue!Ask

\* Every step of the socket is a step of the abstract queue or leaves it as it
\* is.
LEMMA StepImplements ==
  ASSUME AsyncTypeOK, AsyncTypeOK', [AsyncNext]_asyncVars
  PROVE  [Queue!RequestNext]_(Queue!requestVars)
<1> USE DEF queueVars, waitVars, ownerVars, syncVars, notify_one
<1>1. CASE WaitThreadStep \/ wait_answers_with_failure \/ wait_wakes_spuriously
  BY <1>1, WaitThreadImplements
<1>2. CASE asyncReceiveFrom
  BY <1>2, AskingImplements
<1>3. ASSUME \/ OwnerStep \/ bind \/ destroy \/ receiveFrom \/ receiveFromReturns
             \/ \E caller \in {"owner", "handler"} : close(caller) \/ close_notifies(caller)
             \/ \E packet \in Packets : PacketArrives(packet)
      PROVE  Waiting' = Waiting /\ answered' = answered
  BY <1>3 DEF OwnerStep, bind_starts_thread, destroy_joins, bind, destroy, receiveFrom,
              receiveFromReturns, close, close_notifies, PacketArrives, Waiting, Running, AsyncTypeOK
<1>4. CASE UNCHANGED asyncVars
  BY <1>4 DEF asyncVars, Queue!requestVars, Waiting, isClosed
<1>5. QED
  BY <1>1, <1>2, <1>3, <1>4, OtherStepsOpenOrClose DEF AsyncNext

(* Requests are answered in their turn, each at most once, and a socket    *)
(* only ever forgets the last one, and only when it is closed.             *)
THEOREM AsyncImplementsRequestQueue == AsyncSpec => ImplementsRequestQueue
<1>1. AsyncInit => Queue!RequestInit
  BY DEF AsyncInit, Queue!RequestInit, Waiting, isClosed
<1>2. AsyncTypeOK /\ AsyncTypeOK' /\ [AsyncNext]_asyncVars => [Queue!RequestNext]_(Queue!requestVars)
  BY StepImplements
<1>3. QED BY <1>1, <1>2, AsyncTypeCorrect, PTL DEF AsyncSpec, ImplementsRequestQueue, Queue!RequestSpec

=============================================================================
