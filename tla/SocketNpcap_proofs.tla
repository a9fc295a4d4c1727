------------------------- MODULE SocketNpcap_proofs -------------------------
(***************************************************************************)
(* Proofs about SocketNpcap, for any number of calls, requests, packets    *)
(* and endpoints, and any errors of Udpcap: every call is carried on by    *)
(* one request until it has its one result, messages are given to the user *)
(* with the endpoint they came from, and only calls that are not finished  *)
(* miss the members that the destructor has destroyed.                     *)
(*                                                                         *)
(* The argument: no two requests in progress are for the same call, and    *)
(* none is for a call that has its result (AtMostOne).  A lambda gives its *)
(* call a result or hands it on to a new request, never both.              *)
(***************************************************************************)
EXTENDS SocketNpcap, AsyncUdpcapSocket_proofs, Socket_proofs

(* The socket is bound at most once: nobody does it twice, or Udpcap does  *)
(* not let him.                                                            *)
BoundOnce == MaxBinds <= 1 \/ ~ Reopens

Completions == [call : Nat, error : EcaludpErrors, message : Seq(View) \cup {NoMessage},
                endpoint : Endpoints \cup {NoEndpoint}]

NpcapTypeOK ==
  /\ SocketInv /\ AsyncTypeOK
  /\ calls \in Nat
  /\ call_of \in Seq(1 .. calls) /\ Len(call_of) = requests
  /\ lambda \in {"none", "called", "incomplete", "completing", "done"}
  /\ loop \in {"none", "receiving", "handling"}
  /\ completed \in Seq(Completions)
  /\ \A i \in DOMAIN completed : completed[i].call \in 1 .. calls
  /\ members \in {"alive", "destroyed", "missed"}
  /\ result.error = "OK" => result.packet \in Packets
  /\ received.error = "OK" => received.packet \in Packets

(* The wait thread is in a lambda when it handles a request, and a user is *)
(* either in receive_from or in async_receive_from.                        *)
Control ==
  /\ lambda = "none" <=> wait_thread_ # "handling"
  /\ wait_thread_ = "handling" => next_async_receive_from_parameters # NoRequest
  /\ loop # "none" => call_of = << >> /\ calls >= 1
  /\ receiving => loop = "receiving"

(* A socket that is bound once has one wait thread.                        *)
OneThread ==
  /\ owner = "binding" => wait_thread_ = "none" /\ binds >= 1
  /\ wait_thread_ # "none" => binds >= 1
  /\ binds >= 1 => udpcap_socket_.bound \/ isClosed

(* Requests are answered in the order in which they were made.             *)
InOrder ==
  LET queue == async_receive_from_parameters_queue_
  IN  /\ \A i \in DOMAIN queue : next_async_receive_from_parameters < queue[i]
      /\ \A i, j \in DOMAIN queue : i < j => queue[i] < queue[j]

(* No call has two requests in progress, two results, or one of each.      *)
AtMostOne ==
  /\ \A r, s \in RequestsInProgress : call_of[r] = call_of[s] => r = s
  /\ \A r \in RequestsInProgress, i \in DOMAIN completed : call_of[r] # completed[i].call
  /\ \A i, j \in DOMAIN completed : completed[i].call = completed[j].call => i = j

(* No call is forgotten while the wait thread goes on.                     *)
AtLeastOne ==
  wait_thread_ # "ended" =>
     \A call \in 1 .. calls : \/ \E r \in RequestsInProgress : call_of[r] = call
                              \/ \E i \in DOMAIN completed : completed[i].call = call

(* A call that was finished when the destruction began stays finished.     *)
UnfinishedInv ==
  /\ members # "alive" => \A call \in 1 .. calls : Finished(call) \/ call \in unfinished
  /\ members = "missed" => CallInProgress \in unfinished

(* A view holds what a packet from that endpoint brought.                  *)
CameFrom(endpoint, view) ==
  \E packet \in Packets : packet[1] = endpoint /\ packet[2].payload = view.data

(* The fragments of a package came from the endpoint of its key.           *)
PackageFrom(endpoint, package) ==
  \A i \in Filled(package.fragments) : CameFrom(endpoint, package.fragments[i])

Origins(pkgs) == \A key \in DOMAIN pkgs : PackageFrom(key[1], pkgs[key])

NpcapInv == /\ NpcapTypeOK
            /\ Control
            /\ InOrder
            /\ call_of # << >> => AtMostOne
            /\ UnfinishedInv
            /\ Origins(fragmented_packages_)
            /\ EndpointsBelongToMessages

(* Only of a socket that is bound once.                                    *)
CarriedOnInv == OneThread /\ (call_of # << >> => AtLeastOne)

-----------------------------------------------------------------------------
(* What the reassembly holds of an endpoint came from that endpoint.       *)

(* A vector that is resized holds nothing new.                             *)
LEMMA ResizeKeepsFrom ==
  ASSUME NEW endpoint, NEW package, PackageInv(package), PackageFrom(endpoint, package),
         NEW n \in Nat
  PROVE  LET new == Resize(package.fragments, n)
         IN  \A i \in Filled(new) : CameFrom(endpoint, new[i])
<1> DEFINE old == package.fragments
           new == Resize(old, n)
<1>1. old \in Seq(Slot) /\ DOMAIN old = 1 .. Len(old) /\ Len(old) \in Nat
  BY DEF PackageInv, Package, Slot
<1>2. DOMAIN new = 1 .. n /\ \A i \in 1 .. n : new[i] = IF i <= Len(old) THEN old[i] ELSE NoFragment
  BY DEF Resize
<1>3. \A i \in Filled(new) : i \in Filled(old) /\ new[i] = old[i]
  BY <1>1, <1>2 DEF Filled
<1>4. QED BY <1>3 DEF PackageFrom

(* Completing or storing a package of one endpoint.                        *)
LEMMA CompletionFrom ==
  ASSUME NEW pkgs, Origins(pkgs), NEW key, NEW package, PackageFrom(key[1], package),
         handle_fragmented_package_if_complete(pkgs, key, package)
  PROVE  /\ Origins(fragmented_packages_')
         /\ returned'.message # NoMessage =>
               \A j \in DOMAIN returned'.message : CameFrom(key[1], returned'.message[j])
<1>1. Origins(Store(pkgs, key, package)) /\ Origins(Erase(pkgs, key))
  BY DEF Origins, Store, Erase, Restrict
<1>2. Origins(fragmented_packages_')
  BY <1>1, Zenon DEF handle_fragmented_package_if_complete
<1>3. \/ returned'.message = NoMessage
      \/ returned'.message = package.fragments /\ ~ HasHole(package)
  BY DEF handle_fragmented_package_if_complete, Return
<1>4. ~ HasHole(package) =>
         \A j \in DOMAIN package.fragments : CameFrom(key[1], package.fragments[j])
  BY DEF HasHole, PackageFrom
<1>5. QED BY <1>2, <1>3, <1>4

(* A datagram leaves in the map, and returns, only what came from where    *)
(* it came from itself.                                                    *)
LEMMA HandlingKeepsOrigins ==
  ASSUME NEW pkgs, PackagesInv(pkgs), Origins(pkgs), now \in Nat,
         NEW packet \in Packets, DatagramOK(packet[2]),
         reassembly_handle_datagram(pkgs, packet[1], packet[2])
  PROVE  /\ Origins(fragmented_packages_')
         /\ returned'.message # NoMessage =>
               \A j \in DOMAIN returned'.message : CameFrom(packet[1], returned'.message[j])
<1> DEFINE d     == packet[2]
           key   == << packet[1], d.id >>
           found == PackageOf(pkgs, key)
           room  == WithRoomFor(found, d.num)
           Good  == /\ Origins(fragmented_packages_')
                    /\ returned'.message # NoMessage =>
                         \A j \in DOMAIN returned'.message : CameFrom(packet[1], returned'.message[j])
<1>1. PackageInv(found) /\ key[1] = packet[1] /\ d.num \in UInt32 /\ d.num \in Nat
  BY PackageOfInv, UInt32Assumption DEF DatagramOK, UInt32
<1>2. PackageFrom(packet[1], found)
  <2>1. PackageFrom(packet[1], NewPackage)
    BY DEF PackageFrom, NewPackage, Filled
  <2>2. QED BY <2>1 DEF PackageOf, Origins
<1> HIDE DEF d, key, found
<1>3. ASSUME fragmented_packages_' = pkgs, NEW error, Return(error, NoMessage)
      PROVE  Good
  BY <1>3 DEF Return
<1>4. CASE handle_datagram_fragmented_message_info(pkgs, packet[1], d)
  <2>1. CASE handle_fragmented_package_if_complete(pkgs, key, WithInfo(found, d))
    <3>1. WithInfo(found, d).fragments = Resize(found.fragments, d.num)
      BY <1>1 DEF WithInfo, PackageInv, Package
    <3>2. PackageFrom(packet[1], WithInfo(found, d))
      BY <1>1, <1>2, <3>1, ResizeKeepsFrom DEF PackageFrom
    <3>3. QED BY <1>1, <2>1, <3>2, CompletionFrom
  <2>2. CASE fragmented_packages_' = pkgs /\ Return("DUPLICATE_DATAGRAM", NoMessage)
    BY <1>3, <2>2
  <2>3. QED
    BY <1>4, <2>1, <2>2, Zenon DEF handle_datagram_fragmented_message_info, found, key
<1>5. CASE handle_datagram_fragment(pkgs, packet[1], d)
  <2>1. PackageInv(room)
    BY <1>1, WithRoomForInv
  <2>2. PackageFrom(packet[1], room)
    <3>1. CASE room = found
      BY <1>2, <3>1
    <3>2. CASE room = [found EXCEPT !.fragments = Resize(found.fragments, Inc32(d.num))]
      <4>1. room.fragments = Resize(found.fragments, Inc32(d.num))
        BY <1>1, <3>2 DEF PackageInv, Package
      <4>2. Inc32(d.num) \in Nat
        BY <1>1, UInt32Assumption DEF Inc32, UInt32
      <4> HIDE DEF room
      <4>3. QED BY <1>1, <1>2, <4>1, <4>2, ResizeKeepsFrom DEF PackageFrom
    <3>3. QED BY <3>1, <3>2 DEF WithRoomFor
  <2> HIDE DEF room
  <2>3. ASSUME NEW error, fragmented_packages_' = Store(pkgs, key, room), Return(error, NoMessage)
        PROVE  Good
    <3>1. Origins(fragmented_packages_')
      BY <1>1, <2>2, <2>3 DEF Origins, Store
    <3>2. QED BY <2>3, <3>1 DEF Return
  <2>4. CASE /\ d.num < Len(room.fragments)
             /\ handle_fragmented_package_if_complete(pkgs, key, WithFragment(room, d))
    <3>1. PackageFrom(packet[1], WithFragment(room, d))
      <4> DEFINE view == [data |-> d.payload, size |-> d.len]
                 new  == [room.fragments EXCEPT ![d.num + 1] = view]
      <4>1. WithFragment(room, d).fragments = new
        BY <2>1 DEF WithFragment, PackageInv, Package
      <4>2. CameFrom(packet[1], view)
        BY DEF CameFrom, d
      <4> HIDE DEF view
      <4>3. DOMAIN new = DOMAIN room.fragments
        OBVIOUS
      <4>4. \A i \in DOMAIN new : new[i] = IF i = d.num + 1 THEN view ELSE room.fragments[i]
        OBVIOUS
      <4>5. \A i \in Filled(new) : CameFrom(packet[1], new[i])
        BY <2>2, <4>2, <4>3, <4>4 DEF Filled, PackageFrom
      <4> HIDE DEF new
      <4>6. QED BY <4>1, <4>5, Zenon DEF PackageFrom
    <3>2. QED BY <1>1, <2>4, <3>1, CompletionFrom
  <2>5. QED
    BY <1>5, <2>3, <2>4, Zenon DEF handle_datagram_fragment, room, found, key
<1>6. CASE handle_datagram_non_fragmented_message(pkgs, d)
  <2>1. CASE fragmented_packages_' = pkgs /\ Return("MALFORMED_DATAGRAM", NoMessage)
    BY <1>3, <2>1
  <2>2. CASE /\ fragmented_packages_' = pkgs
             /\ Return("OK", << [data |-> d.payload, size |-> d.len] >>)
    <3>1. CameFrom(packet[1], [data |-> d.payload, size |-> d.len])
      BY DEF CameFrom, d
    <3>2. QED BY <2>2, <3>1 DEF Return
  <2>3. QED BY <1>6, <2>1, <2>2, Zenon DEF handle_datagram_non_fragmented_message
<1>7. QED
  BY <1>3, <1>4, <1>5, <1>6, Zenon DEF reassembly_handle_datagram, Handlers, d

-----------------------------------------------------------------------------
(* The parts.  A step of SocketNpcap is one of the Socket's and one of the *)
(* AsyncUdpcapSocket's, or leaves the part as it is.                       *)

LEMMA HandledPacket ==
  ASSUME SocketInv, Origins(fragmented_packages_), NEW packet \in Packets,
         npcap_handle_datagram(packet)
  PROVE  /\ SocketInv' /\ Origins(fragmented_packages_')
         /\ packet[1] \in Endpoints
         /\ returned'.message \in Seq(View) \cup {NoMessage}
         /\ returned'.message # NoMessage =>
               \A j \in DOMAIN returned'.message : CameFrom(packet[1], returned'.message[j])
<1>1. packet[1] \in Endpoints /\ packet[2] \in Datagrams
  BY NpcapPacketsAssumption
<1>2. handle_datagram(packet[1], packet[2])
  BY DEF npcap_handle_datagram
<1>3. SocketInv'
  BY <1>1, <1>2, HandledInv
<1>4. returned'.message \in Seq(View) \cup {NoMessage}
  BY <1>3 DEF SocketInv, StateInv, ReturnedOK
<1>5. PackagesInv(Cleaned) /\ now \in Nat
  BY RestrictInv DEF SocketInv, StateInv, Cleaned, WithoutOldPackages
<1>6. Origins(Cleaned)
  BY DEF Origins, Cleaned, WithoutOldPackages, Restrict
<1>7. CASE \E error \in ErrorCode : Dropped(error)
  BY <1>1, <1>3, <1>6, <1>7 DEF Dropped, Return
<1>8. CASE reassembly_handle_datagram(Cleaned, packet[1], packet[2])
  <2>1. DatagramOK(packet[2])
    BY <1>1, DatagramsAssumption DEF DatagramOK, Header
  <2>2. QED BY <1>1, <1>3, <1>4, <1>5, <1>6, <1>8, <2>1, HandlingKeepsOrigins
<1>9. QED BY <1>2, <1>7, <1>8, DroppedOrHandled

(* What the wait thread's lambda is given, and receiveFrom returns, holds  *)
(* a packet unless it is an error.                                         *)
LEMMA ReceivedPackets ==
  ASSUME AsyncTypeOK, NEW r, NEW u, receiveDatagram(r, u) \/ receiveDatagramFails(r)
  PROVE  r.error = "OK" => r.packet \in Packets
<1>1. udpcap_socket_.inbox \in Seq(Packets)
  BY DEF AsyncTypeOK
<1>2. \A udpcap_error \in UdpcapFailures : udpcap_error # "OK"
  BY UdpcapAssumption
<1>3. \A udpcap_error \in UdpcapFailures : Failure(toEcaludpError(udpcap_error)).error # "OK"
  BY <1>2 DEF Failure, toEcaludpError
<1>4. CASE receiveDatagramFails(r)
  BY <1>3, <1>4 DEF receiveDatagramFails
<1>5. CASE receiveDatagram(r, u)
  <2>1. CASE udpcap_socket_.inbox # << >> /\ r = [error |-> "OK", packet |-> Head(udpcap_socket_.inbox)]
    BY <1>1, <2>1
  <2>2. CASE r = Failure(toEcaludpError("SOCKET_CLOSED")) \/ r = Failure(toEcaludpError("NOT_BOUND"))
    BY <2>2 DEF Failure, toEcaludpError, EcaludpErrors
  <2>3. QED BY <1>5, <2>1, <2>2 DEF receiveDatagram
<1>6. QED BY <1>4, <1>5

(* The AsyncUdpcapSocket's part of a step.                                 *)
LEMMA StepIsAsyncStep == [NpcapNext]_npcapVars => [AsyncNext]_asyncVars
<1> SUFFICES ASSUME [NpcapNext]_npcapVars PROVE AsyncNext \/ UNCHANGED asyncVars
  OBVIOUS
<1>1. CASE NpcapThreadStep
  BY <1>1 DEF NpcapThreadStep, WithoutCalls, wait_thread_calls_lambda, lambda_fails,
              lambda_handles_datagram, lambda_receives_next, lambda_returns, MissMembers,
              receive_next_datagram_from, AsyncNext, WaitThreadStep
<1>2. CASE NpcapUserStep
  BY <1>2 DEF NpcapUserStep, async_receive_from, receive_from, receive_from_gets_result,
              receive_from_fails, receive_from_handles_datagram, MissMembers,
              receive_next_datagram_from, AsyncNext
<1>3. CASE NpcapOwnerStep
  BY <1>3 DEF NpcapOwnerStep, npcap_bind, npcap_close, destroy_members, destroy_socket,
              WithoutCalls, AsyncNext, OwnerStep
<1>4. CASE WithoutCalls(\E packet \in Packets : PacketArrives(packet))
  BY <1>4 DEF WithoutCalls, AsyncNext
<1>5. CASE UNCHANGED npcapVars
  BY <1>5 DEF npcapVars
<1>6. QED BY <1>1, <1>2, <1>3, <1>4, <1>5 DEF NpcapNext

(* If the socket is bound once, a wait thread that has ended is the last.  *)
LEMMA OneThreadNext ==
  ASSUME BoundOnce, AsyncTypeOK, OneThread, [AsyncNext]_asyncVars
  PROVE  OneThread'
<1> USE DEF OneThread, queueVars, waitVars, ownerVars, syncVars, notify_one, isClosed
<1>1. binds \in Nat /\ udpcap_socket_ \in [bound : BOOLEAN, closed : BOOLEAN, inbox : Seq(Packets)]
  BY DEF AsyncTypeOK
<1>2. ASSUME NEW r, NEW u, receiveDatagram(r, u)
      PROVE  u.bound = udpcap_socket_.bound /\ u.closed = udpcap_socket_.closed
  BY <1>1, <1>2 DEF receiveDatagram
<1>3. CASE wait_pops \/ wait_blocks \/ wait_returns \/ wait_receives \/ handler_returns
           \/ wait_wakes_spuriously
  BY <1>3 DEF wait_pops, wait_blocks, wait_returns, wait_receives, handler_returns,
              wait_wakes_spuriously
<1>4. CASE wait_answers \/ wait_answers_with_failure
  BY <1>2, <1>4 DEF wait_answers, wait_answers_with_failure, CallHandler
<1>5. CASE OwnerStep
  BY <1>5 DEF OwnerStep, bind_starts_thread, destroy_joins
<1>6. CASE bind
  <2>1. ~ (binds >= 1)
    <3>1. CASE MaxBinds <= 1
      BY <1>1, <1>6, <3>1, AsyncBoundsAssumption DEF bind
    <3>2. CASE ~ Reopens
      BY <1>6, <3>2 DEF bind
    <3>3. QED BY <3>1, <3>2 DEF BoundOnce
  <2>2. QED BY <1>1, <1>6, <2>1 DEF bind
<1>7. CASE destroy
  BY <1>7 DEF destroy, UdpcapCloses
<1>8. ASSUME NEW caller \in {"owner", "handler"}, close(caller) \/ close_notifies(caller)
      PROVE  OneThread'
  BY <1>8 DEF close, close_notifies, UdpcapCloses
<1>9. CASE asyncReceiveFrom \/ receiveFrom
  BY <1>9 DEF asyncReceiveFrom, receiveFrom
<1>10. CASE receiveFromReturns
  BY <1>2, <1>10 DEF receiveFromReturns
<1>11. ASSUME NEW packet \in Packets, PacketArrives(packet)
       PROVE  OneThread'
  BY <1>1, <1>11 DEF PacketArrives
<1>12. CASE UNCHANGED asyncVars
  BY <1>12 DEF asyncVars
<1>13. QED
  BY <1>3, <1>4, <1>5, <1>6, <1>7, <1>8, <1>9, <1>10, <1>11, <1>12 DEF AsyncNext, WaitThreadStep

(* Requests are taken from the front of the queue and added at its end.    *)
LEMMA InOrderNext ==
  ASSUME AsyncTypeOK, InOrder, [AsyncNext]_asyncVars
  PROVE  InOrder'
<1> DEFINE queue == async_receive_from_parameters_queue_
           next  == next_async_receive_from_parameters
<1> USE DEF queueVars, waitVars, ownerVars, syncVars
<1>1. /\ queue \in Seq(1 .. requests) /\ requests \in Nat /\ next \in 0 .. requests
      /\ \A i \in DOMAIN queue : queue[i] \in 1 .. requests
      /\ Len(queue) \in Nat /\ DOMAIN queue = 1 .. Len(queue)
  BY DEF AsyncTypeOK
<1>2. CASE wait_pops
  <2>1. CASE queue = << >>
    BY <1>2, <2>1 DEF wait_pops, InOrder
  <2>2. CASE queue # << >>
    <3>1. /\ queue' = Tail(queue) /\ next' = queue[1]
          /\ DOMAIN queue' = 1 .. Len(queue) - 1
          /\ \A i \in DOMAIN queue' : queue'[i] = queue[i + 1]
      BY <1>1, <1>2, <2>2 DEF wait_pops
    <3>2. \A i \in DOMAIN queue' : i + 1 \in DOMAIN queue /\ 1 \in DOMAIN queue /\ 1 < i + 1
      BY <1>1, <3>1
    <3>3. \A i, j \in DOMAIN queue' : i < j => i + 1 < j + 1
      BY <3>1
    <3>4. QED BY <3>1, <3>2, <3>3, Zenon DEF InOrder
  <2>3. QED BY <2>1, <2>2
<1>3. CASE wait_returns \/ handler_returns
  <2>1. queue' = queue /\ next' = 0
    BY <1>3 DEF wait_returns, handler_returns, NoRequest
  <2>2. \A i \in DOMAIN queue : 0 < queue[i]
    BY <1>1
  <2>3. QED BY <2>1, <2>2, Zenon DEF InOrder
<1>4. CASE asyncReceiveFrom
  <2>1. /\ queue' = Append(queue, requests + 1) /\ next' = next
    BY <1>4 DEF asyncReceiveFrom
  <2>2. /\ DOMAIN queue' = 1 .. Len(queue) + 1
        /\ \A i \in DOMAIN queue' : queue'[i] = IF i <= Len(queue) THEN queue[i] ELSE requests + 1
    BY <1>1, <2>1
  <2>3. QED BY <1>1, <2>1, <2>2 DEF InOrder
<1>5. CASE UNCHANGED << async_receive_from_parameters_queue_, next_async_receive_from_parameters >>
  BY <1>5 DEF InOrder
<1>6. QED
  BY <1>2, <1>3, <1>4, <1>5
     DEF AsyncNext, WaitThreadStep, OwnerStep, wait_blocks, wait_receives, wait_answers,
         wait_answers_with_failure, CallHandler, wait_wakes_spuriously, bind_starts_thread,
         destroy_joins, bind, destroy, close, close_notifies, receiveFrom, receiveFromReturns,
         PacketArrives, asyncVars

-----------------------------------------------------------------------------
(* The steps, by what they do to calls and requests.                       *)

(* A step that leaves what a lambda reads as it is.                        *)
Aside ==
  /\ UNCHANGED << socketVars, callVars, members, unfinished, queueVars,
                  next_async_receive_from_parameters, result, received >>
  /\ receiving' => receiving
  /\ \/ wait_thread_' = wait_thread_
     \/ /\ wait_thread_ # "handling" /\ wait_thread_' \notin {"handling", "ended"}
        /\ wait_thread_' \in {"popped", "receiving"} <=> wait_thread_ \in {"popped", "receiving"}

(* The lambda, or a completion handler, misses the members.                *)
LambdaMisses == Usable /\ MissMembers /\ lambda \in {"called", "incomplete", "completing"}

(* A lambda's datagram gives its call a result, or leaves it incomplete.   *)
LambdaHandles ==
  /\ Usable /\ lambda = "called" /\ result.error = "OK"
  /\ members = "alive"
  /\ npcap_handle_datagram(result.packet)
  /\ lambda' = AfterTheDatagram
  /\ completed' = IF returned'.message # NoMessage
                  THEN Append(completed, CompletionWith(CallInProgress, result.packet))
                  ELSE completed
  /\ UNCHANGED << asyncVars, calls, call_of, loop, members, unfinished >>

HandsOn == receive_next_datagram_from(CallInProgress) /\ lambda = "incomplete" /\ lambda' = "done" /\ UNCHANGED calls

NewCall ==
  /\ call_of = << >> => calls = 0
  /\ receive_next_datagram_from(calls + 1) /\ calls' = calls + 1 /\ UNCHANGED lambda

(* The steps of receive_from.                                              *)
SynchronousStep == \/ receive_from
                   \/ receive_from_gets_result
                   \/ receive_from_fails
                   \/ receive_from_handles_datagram

(* A step of the component is one of these.                                *)
LEMMA StepCases ==
  ASSUME NpcapTypeOK, [NpcapNext]_npcapVars
  PROVE  \/ Aside
         \/ WithoutCalls(wait_pops)
         \/ WithoutCalls(wait_returns)
         \/ wait_thread_calls_lambda
         \/ lambda_fails
         \/ LambdaHandles
         \/ LambdaMisses
         \/ HandsOn
         \/ lambda_returns
         \/ NewCall
         \/ SynchronousStep
         \/ destroy_members
<1> DEFINE kinds == \/ Aside \/ WithoutCalls(wait_pops) \/ WithoutCalls(wait_returns)
                    \/ wait_thread_calls_lambda \/ lambda_fails \/ LambdaHandles \/ LambdaMisses
                    \/ HandsOn \/ lambda_returns \/ NewCall \/ SynchronousStep \/ destroy_members
<1> SUFFICES kinds
  OBVIOUS
<1>1. ASSUME WithoutCalls(wait_blocks) \/ WithoutCalls(wait_receives) PROVE Aside
  BY <1>1 DEF WithoutCalls, wait_blocks, wait_receives, Aside, syncVars
<1>2. ASSUME WithoutCalls(bind_starts_thread) \/ WithoutCalls(destroy_joins) PROVE Aside
  BY <1>2 DEF WithoutCalls, bind_starts_thread, destroy_joins, Aside, Running, syncVars, waitVars
<1>3. ASSUME npcap_bind \/ destroy_socket PROVE Aside
  BY <1>3 DEF npcap_bind, destroy_socket, WithoutCalls, bind, destroy, Aside, syncVars, waitVars
<1>4. ASSUME NEW caller, npcap_close(caller) \/ WithoutCalls(close_notifies(caller)) PROVE Aside
  BY <1>4 DEF npcap_close, WithoutCalls, close, close_notifies, notify_one, Aside, syncVars, waitVars
<1>5. ASSUME WithoutCalls(\E packet \in Packets : PacketArrives(packet)) PROVE Aside
  BY <1>5 DEF WithoutCalls, PacketArrives, Aside, syncVars, waitVars
<1>6. ASSUME UNCHANGED npcapVars PROVE Aside
  BY <1>6 DEF npcapVars, asyncVars, Aside, syncVars, waitVars
<1> HIDE DEF kinds
<1>7. CASE NpcapThreadStep
  <2>1. CASE WithoutCalls(wait_pops \/ wait_blocks \/ wait_returns \/ wait_receives)
    BY <1>1, <2>1 DEF WithoutCalls, kinds
  <2>2. CASE lambda_handles_datagram
    BY <2>2, Zenon DEF lambda_handles_datagram, LambdaHandles, LambdaMisses, kinds
  <2>3. CASE lambda_receives_next
    BY <2>3, Zenon DEF lambda_receives_next, HandsOn, LambdaMisses, kinds
  <2>4. QED BY <1>7, <2>1, <2>2, <2>3, Zenon DEF NpcapThreadStep, kinds
<1>8. CASE NpcapUserStep
  <2>1. CASE async_receive_from
    BY <2>1, Zenon DEF async_receive_from, NewCall, LambdaMisses, kinds
  <2>2. QED BY <1>8, <2>1, Zenon DEF NpcapUserStep, SynchronousStep, kinds
<1>9. CASE NpcapOwnerStep
  BY <1>2, <1>3, <1>4, <1>9, Zenon DEF NpcapOwnerStep, kinds
<1>10. QED BY <1>5, <1>6, <1>7, <1>8, <1>9, Zenon DEF NpcapNext, kinds

-----------------------------------------------------------------------------
(* Types, control and origins.                                             *)

(* A step leaves the Socket's part as it is, or handles a datagram.        *)
LEMMA SocketPart ==
  ASSUME NpcapTypeOK, Origins(fragmented_packages_), [NpcapNext]_npcapVars
  PROVE  SocketInv' /\ Origins(fragmented_packages_')
<1>1. CASE UNCHANGED socketVars
  <2>1. SocketInv
    BY DEF NpcapTypeOK
  <2>2. /\ fragmented_packages_' = fragmented_packages_ /\ now' = now /\ alive' = alive
        /\ returned' = returned /\ max_reassembly_age_' = max_reassembly_age_
    BY <1>1 DEF socketVars, vars
  <2>3. SocketInv'
    BY <2>1, <2>2 DEF SocketInv, StateInv, ReturnedOK, ClockIsPastAges, OneAtTheEpoch
  <2>4. QED BY <2>2, <2>3, Zenon
<1>2. ASSUME NEW packet \in Packets, npcap_handle_datagram(packet)
      PROVE  SocketInv' /\ Origins(fragmented_packages_')
  BY <1>2, HandledPacket DEF NpcapTypeOK
<1>3. CASE LambdaHandles
  BY <1>2, <1>3 DEF LambdaHandles, NpcapTypeOK
<1>4. CASE SynchronousStep
  BY <1>1, <1>2, <1>4 DEF SynchronousStep, receive_from, receive_from_gets_result, receive_from_fails,
                          receive_from_handles_datagram, NpcapTypeOK
<1>5. QED
  BY <1>1, <1>3, <1>4, StepCases
     DEF Aside, WithoutCalls, wait_thread_calls_lambda, lambda_fails, LambdaMisses, MissMembers,
         HandsOn, NewCall, receive_next_datagram_from, lambda_returns, destroy_members

(* A call completes with an error, or with the message that its last       *)
(* datagram has made complete.                                             *)
LEMMA CompletesWithError ==
  ASSUME NpcapTypeOK, NEW call \in 1 .. calls, NEW r \in Results
  PROVE  Completion(call, r.error, NoMessage, NoEndpoint) \in Completions
BY DEF NpcapTypeOK, Completion, Completions, Results

(* A call that completes with a message names the endpoint it came from.   *)
LEMMA CompletesWithMessage ==
  ASSUME NpcapTypeOK, Origins(fragmented_packages_), NEW call \in 1 .. calls,
         NEW packet \in Packets, npcap_handle_datagram(packet), returned'.message # NoMessage
  PROVE  /\ CompletionWith(call, packet) \in Completions
         /\ CompletionWith(call, packet).call = call
         /\ \A j \in DOMAIN CompletionWith(call, packet).message :
               CameFrom(CompletionWith(call, packet).endpoint, CompletionWith(call, packet).message[j])
<1>1. /\ packet[1] \in Endpoints /\ returned'.message \in Seq(View) \cup {NoMessage}
      /\ \A j \in DOMAIN returned'.message : CameFrom(packet[1], returned'.message[j])
  BY HandledPacket DEF NpcapTypeOK
<1>2. "OK" \in EcaludpErrors /\ call \in Nat
  BY DEF EcaludpErrors, NpcapTypeOK
<1>3. QED
  BY <1>1, <1>2 DEF CompletionWith, Completion, Completions, sender_endpoint_of_this_datagram

(* A sequence's elements.                                                  *)
LEMMA SequenceElements ==
  ASSUME NEW S, NEW s \in Seq(S)
  PROVE  /\ Len(s) \in Nat /\ DOMAIN s = 1 .. Len(s)
         /\ \A i \in DOMAIN s : s[i] \in S
OBVIOUS

(* The call a lambda is of.                                                *)
LEMMA LambdaHasCall ==
  ASSUME NpcapTypeOK, Control, lambda # "none"
  PROVE  /\ next_async_receive_from_parameters \in 1 .. requests
         /\ next_async_receive_from_parameters \in DOMAIN call_of
         /\ CallInProgress \in 1 .. calls
         /\ call_of # << >>
         /\ wait_thread_ = "handling"
<1>1. /\ requests \in Nat /\ next_async_receive_from_parameters \in 0 .. requests
      /\ call_of \in Seq(1 .. calls) /\ Len(call_of) = requests
  BY DEF NpcapTypeOK, AsyncTypeOK
<1>2. wait_thread_ = "handling" /\ next_async_receive_from_parameters # 0
  BY DEF Control, NoRequest
<1>3. next_async_receive_from_parameters \in 1 .. requests
  BY <1>1, <1>2
<1>4. DOMAIN call_of = 1 .. requests /\ \A r \in DOMAIN call_of : call_of[r] \in 1 .. calls
  BY <1>1, SequenceElements
<1>5. call_of # << >>
  BY <1>1, <1>3
<1>6. QED BY <1>2, <1>3, <1>4, <1>5, Zenon DEF CallInProgress

(* The calls' part of the types.                                           *)
CallTypes ==
  /\ calls \in Nat
  /\ call_of \in Seq(1 .. calls) /\ Len(call_of) = requests
  /\ lambda \in {"none", "called", "incomplete", "completing", "done"}
  /\ loop \in {"none", "receiving", "handling"}
  /\ completed \in Seq(Completions)
  /\ \A i \in DOMAIN completed : completed[i].call \in 1 .. calls
  /\ members \in {"alive", "destroyed", "missed"}

(* One more completion.                                                    *)
LEMMA OneMoreCompletion ==
  ASSUME completed \in Seq(Completions), NEW c \in Completions, completed' = Append(completed, c)
  PROVE  /\ completed' \in Seq(Completions)
         /\ Len(completed) \in Nat /\ DOMAIN completed = 1 .. Len(completed)
         /\ DOMAIN completed' = 1 .. Len(completed) + 1
         /\ \A i \in DOMAIN completed' :
               completed'[i] = IF i \in DOMAIN completed THEN completed[i] ELSE c
         /\ completed'[Len(completed) + 1] = c
OBVIOUS

(* Every step keeps the types of the calls.                                *)
LEMMA CallTypesNext ==
  ASSUME NpcapTypeOK, Control, Origins(fragmented_packages_), [NpcapNext]_npcapVars
  PROVE  CallTypes'
<1> USE DEF queueVars
<1>1. CallTypes /\ requests \in Nat /\ result \in Results /\ received \in Results
  BY DEF NpcapTypeOK, AsyncTypeOK, CallTypes
<1>2. ASSUME NEW c \in Completions, c.call \in 1 .. calls, completed' = Append(completed, c)
      PROVE  completed' \in Seq(Completions) /\ \A i \in DOMAIN completed' : completed'[i].call \in 1 .. calls
  <2>1. completed \in Seq(Completions) /\ \A i \in DOMAIN completed : completed[i].call \in 1 .. calls
    BY <1>1 DEF CallTypes
  <2>2. /\ completed' \in Seq(Completions)
        /\ \A i \in DOMAIN completed' :
              completed'[i] = IF i \in DOMAIN completed THEN completed[i] ELSE c
    BY <1>2, <2>1, OneMoreCompletion
  <2>3. QED BY <1>2, <2>1, <2>2
<1>3. ASSUME UNCHANGED << calls, call_of, requests >>,
             lambda' \in {"none", "called", "incomplete", "completing", "done"},
             loop' \in {"none", "receiving", "handling"},
             members' \in {"alive", "destroyed", "missed"},
             \/ completed' = completed
             \/ \E c \in Completions : c.call \in 1 .. calls /\ completed' = Append(completed, c)
      PROVE  CallTypes'
  BY <1>1, <1>2, <1>3 DEF CallTypes
<1>4. CASE Aside \/ WithoutCalls(wait_pops) \/ WithoutCalls(wait_returns)
  BY <1>1, <1>3, <1>4 DEF Aside, WithoutCalls, wait_pops, wait_returns, callVars, CallTypes
<1>5. CASE wait_thread_calls_lambda
  BY <1>1, <1>3, <1>5 DEF wait_thread_calls_lambda, wait_answers, wait_answers_with_failure,
                          CallHandler, LambdaIsCalled, CallTypes
<1>6. CASE lambda_fails
  <2> DEFINE c == Completion(CallInProgress, result.error, NoMessage, NoEndpoint)
  <2>1. c \in Completions /\ c.call = CallInProgress /\ CallInProgress \in 1 .. calls
    BY <1>1, <1>6, CompletesWithError, LambdaHasCall DEF lambda_fails, Completion
  <2>2. QED BY <1>1, <1>3, <1>6, <2>1 DEF lambda_fails, CallTypes, asyncVars
<1>7. CASE LambdaHandles
  <2> DEFINE c == CompletionWith(CallInProgress, result.packet)
  <2>1. CallInProgress \in 1 .. calls /\ result.packet \in Packets
    BY <1>7, LambdaHasCall DEF LambdaHandles, NpcapTypeOK
  <2>2. returned'.message # NoMessage => c \in Completions /\ c.call = CallInProgress
    BY <1>7, <2>1, CompletesWithMessage DEF LambdaHandles
  <2>3. \/ completed' = completed
        \/ \E d \in Completions : d.call \in 1 .. calls /\ completed' = Append(completed, d)
    BY <1>7, <2>1, <2>2 DEF LambdaHandles
  <2>4. QED BY <1>1, <1>3, <1>7, <2>3 DEF LambdaHandles, AfterTheDatagram, CallTypes, asyncVars
<1>8. CASE LambdaMisses
  BY <1>1, <1>3, <1>8 DEF LambdaMisses, MissMembers, callVars, asyncVars, CallTypes
<1>9. CASE HandsOn
  <2>1. CallInProgress \in 1 .. calls
    BY <1>9, LambdaHasCall DEF HandsOn
  <2>2. call_of' \in Seq(1 .. calls) /\ Len(call_of') = requests'
    BY <1>1, <1>9, <2>1 DEF HandsOn, receive_next_datagram_from, asyncReceiveFrom, CallTypes
  <2>3. QED BY <1>1, <1>9, <2>2 DEF HandsOn, receive_next_datagram_from, CallTypes
<1>10. CASE lambda_returns
  BY <1>1, <1>3, <1>10 DEF lambda_returns, handler_returns, CallTypes
<1>11. CASE NewCall
  <2>1. /\ calls' = calls + 1 /\ call_of' = Append(call_of, calls + 1) /\ requests' = requests + 1
        /\ completed' = completed
    BY <1>11 DEF NewCall, receive_next_datagram_from, asyncReceiveFrom
  <2>2. call_of' \in Seq(1 .. calls') /\ Len(call_of') = requests'
    <3>1. calls \in Nat /\ call_of \in Seq(1 .. calls + 1) /\ Len(call_of) = requests
      BY <1>1 DEF CallTypes
    <3>2. QED BY <2>1, <3>1
  <2>3. \A i \in DOMAIN completed' : completed'[i].call \in 1 .. calls'
    BY <1>1, <2>1 DEF CallTypes
  <2>4. QED BY <1>1, <1>11, <2>1, <2>2, <2>3 DEF NewCall, receive_next_datagram_from, CallTypes
<1>12. CASE receive_from
  <2>1. call_of = << >> /\ call_of' = << >> /\ calls' = calls + 1 /\ completed' = completed /\ requests' = requests
    BY <1>12 DEF receive_from, receiveFrom
  <2>2. \A i \in DOMAIN completed' : completed'[i].call \in 1 .. calls'
    BY <1>1, <2>1 DEF CallTypes
  <2>3. QED BY <1>1, <1>12, <2>1, <2>2 DEF receive_from, CallTypes
<1>13. CASE receive_from_gets_result
  BY <1>1, <1>3, <1>13 DEF receive_from_gets_result, receiveFromReturns, CallTypes
<1>14. CASE receive_from_fails
  <2> DEFINE c == Completion(calls, received.error, NoMessage, NoEndpoint)
  <2>1. calls \in 1 .. calls
    BY <1>1, <1>14 DEF receive_from_fails, Control, CallTypes
  <2>2. c \in Completions /\ c.call = calls
    BY <1>1, <2>1, CompletesWithError DEF Completion
  <2>3. QED BY <1>1, <1>3, <1>14, <2>1, <2>2 DEF receive_from_fails, CallTypes, asyncVars
<1>15. CASE receive_from_handles_datagram
  <2> DEFINE c == CompletionWith(calls, received.packet)
  <2>1. calls \in 1 .. calls /\ received.packet \in Packets
    BY <1>1, <1>15 DEF receive_from_handles_datagram, Control, CallTypes, NpcapTypeOK
  <2>2. returned'.message # NoMessage => c \in Completions /\ c.call = calls
    BY <1>15, <2>1, CompletesWithMessage DEF receive_from_handles_datagram
  <2>3. \/ completed' = completed
        \/ \E d \in Completions : d.call \in 1 .. calls /\ completed' = Append(completed, d)
    BY <1>15, <2>1, <2>2 DEF receive_from_handles_datagram
  <2>4. QED BY <1>1, <1>3, <1>15, <2>3 DEF receive_from_handles_datagram, receiveFrom, CallTypes, asyncVars
<1>16. CASE destroy_members
  BY <1>1, <1>3, <1>16 DEF destroy_members, callVars, asyncVars, CallTypes
<1>17. QED
  BY <1>4, <1>5, <1>6, <1>7, <1>8, <1>9, <1>10, <1>11, <1>12, <1>13, <1>14, <1>15, <1>16, StepCases, Zenon
     DEF SynchronousStep

(* Every step keeps that a result without an error has a packet.           *)
LEMMA ResultsNext ==
  ASSUME NpcapTypeOK, [NpcapNext]_npcapVars
  PROVE  /\ result'.error = "OK" => result'.packet \in Packets
         /\ received'.error = "OK" => received'.packet \in Packets
<1>1. /\ result.error = "OK" => result.packet \in Packets
      /\ received.error = "OK" => received.packet \in Packets
      /\ AsyncTypeOK
  BY DEF NpcapTypeOK
<1>2. CASE wait_thread_calls_lambda
  <2>1. received' = received
    BY <1>2 DEF wait_thread_calls_lambda, wait_answers, wait_answers_with_failure, CallHandler, syncVars
  <2>2. result'.error = "OK" => result'.packet \in Packets
    BY <1>1, <1>2, ReceivedPackets DEF wait_thread_calls_lambda, wait_answers, wait_answers_with_failure
  <2>3. QED BY <1>1, <2>1, <2>2
<1>3. CASE receive_from_gets_result
  <2>1. result' = result
    BY <1>3 DEF receive_from_gets_result, receiveFromReturns, waitVars
  <2>2. received'.error = "OK" => received'.packet \in Packets
    BY <1>1, <1>3, ReceivedPackets DEF receive_from_gets_result, receiveFromReturns
  <2>3. QED BY <1>1, <2>1, <2>2
<1>4. CASE result' = result /\ received' = received
  BY <1>1, <1>4
<1>5. CASE SynchronousStep
  BY <1>3, <1>4, <1>5 DEF SynchronousStep, receive_from, receive_from_fails,
         receive_from_handles_datagram, receiveFrom, asyncVars, waitVars, syncVars
<1>6. QED
  BY <1>2, <1>4, <1>5, StepCases
     DEF Aside, WithoutCalls, lambda_fails, LambdaMisses, MissMembers, wait_pops, wait_returns,
         LambdaHandles, HandsOn, NewCall, receive_next_datagram_from, lambda_returns, destroy_members,
         asyncReceiveFrom, handler_returns, asyncVars, waitVars, syncVars

(* The types.                                                              *)
LEMMA NpcapTypesNext ==
  ASSUME NpcapTypeOK, Control, Origins(fragmented_packages_), [NpcapNext]_npcapVars
  PROVE  NpcapTypeOK'
<1>1. AsyncTypeOK'
  BY StepIsAsyncStep, StepTypes DEF NpcapTypeOK
<1>2. SocketInv'
  BY SocketPart
<1>3. CallTypes'
  BY CallTypesNext
<1>4. /\ result'.error = "OK" => result'.packet \in Packets
      /\ received'.error = "OK" => received'.packet \in Packets
  BY ResultsNext
<1>5. QED BY <1>1, <1>2, <1>3, <1>4, Zenon DEF NpcapTypeOK, CallTypes

(* Where the threads are.                                                  *)
LEMMA ControlNext ==
  ASSUME NpcapTypeOK, Control, [NpcapNext]_npcapVars
  PROVE  Control'
<1> USE DEF Control, notify_one
<1>1. CASE Aside
  BY <1>1 DEF Aside, callVars
<1>2. CASE WithoutCalls(wait_pops) \/ WithoutCalls(wait_returns)
  BY <1>2 DEF WithoutCalls, wait_pops, wait_returns, callVars, syncVars
<1>3. CASE wait_thread_calls_lambda
  BY <1>3 DEF wait_thread_calls_lambda, wait_answers, wait_answers_with_failure, CallHandler,
              LambdaIsCalled, syncVars
<1>4. CASE lambda_fails \/ LambdaHandles
  BY <1>4 DEF lambda_fails, LambdaHandles, AfterTheDatagram, asyncVars, waitVars, syncVars
<1>5. CASE LambdaMisses \/ destroy_members
  BY <1>5 DEF LambdaMisses, MissMembers, destroy_members, callVars, asyncVars, waitVars, syncVars
<1>6. CASE HandsOn
  BY <1>6, LambdaHasCall DEF HandsOn, receive_next_datagram_from, asyncReceiveFrom, syncVars
<1>7. CASE lambda_returns
  BY <1>7 DEF lambda_returns, handler_returns, syncVars
<1>8. CASE NewCall
  <2>1. calls \in Nat /\ loop' = loop
    BY <1>8 DEF NpcapTypeOK, NewCall, receive_next_datagram_from
  <2>2. loop = "none"
    BY <1>8, <2>1 DEF NewCall
  <2>3. QED BY <1>8, <2>1, <2>2 DEF NewCall, receive_next_datagram_from, asyncReceiveFrom, syncVars
<1>9. CASE SynchronousStep
  <2>1. calls \in Nat
    BY DEF NpcapTypeOK
  <2>2. QED
    BY <1>9, <2>1 DEF SynchronousStep, receive_from, receive_from_gets_result, receive_from_fails,
         receive_from_handles_datagram, receiveFrom, receiveFromReturns, asyncVars, waitVars, syncVars
<1>10. QED
  BY <1>1, <1>2, <1>3, <1>4, <1>5, <1>6, <1>7, <1>8, <1>9, StepCases, Zenon

(* What is given to the users came from the endpoint given with it.        *)
LEMMA MessagesNext ==
  ASSUME NpcapTypeOK, Control, Origins(fragmented_packages_), EndpointsBelongToMessages,
         [NpcapNext]_npcapVars
  PROVE  EndpointsBelongToMessages'
<1> DEFINE Good(c) == c.error = "OK" => \A j \in DOMAIN c.message : CameFrom(c.endpoint, c.message[j])
<1>1. \A i \in DOMAIN completed : Good(completed[i])
  BY DEF EndpointsBelongToMessages, CameFrom
<1>2. ASSUME \A i \in DOMAIN completed' : Good(completed'[i])
      PROVE  EndpointsBelongToMessages'
  BY <1>2 DEF EndpointsBelongToMessages, CameFrom
<1>3. ASSUME NEW c \in Completions, Good(c), completed' = Append(completed, c)
      PROVE  EndpointsBelongToMessages'
  <2> HIDE DEF Good
  <2>1. completed \in Seq(Completions)
    BY DEF NpcapTypeOK
  <2>2. \A i \in DOMAIN completed' : completed'[i] = IF i \in DOMAIN completed THEN completed[i] ELSE c
    BY <1>3, <2>1, OneMoreCompletion
  <2>3. QED BY <1>1, <1>2, <1>3, <2>2
<1>4. CASE completed' = completed
  BY <1>1, <1>2, <1>4
<1>5. ASSUME NEW call \in 1 .. calls, NEW r \in Results, r.error # "OK",
             completed' = Append(completed, Completion(call, r.error, NoMessage, NoEndpoint))
      PROVE  EndpointsBelongToMessages'
  <2>1. Good(Completion(call, r.error, NoMessage, NoEndpoint))
    BY <1>5 DEF Completion
  <2>2. QED BY <1>3, <1>5, <2>1, CompletesWithError
<1>6. ASSUME NEW call \in 1 .. calls, NEW packet \in Packets, npcap_handle_datagram(packet),
             returned'.message # NoMessage, completed' = Append(completed, CompletionWith(call, packet))
      PROVE  EndpointsBelongToMessages'
  BY <1>3, <1>6, CompletesWithMessage
<1> HIDE DEF Good
<1>7. CASE lambda_fails
  BY <1>5, <1>7, LambdaHasCall DEF lambda_fails, NpcapTypeOK, AsyncTypeOK
<1>8. CASE LambdaHandles
  BY <1>4, <1>6, <1>8, LambdaHasCall DEF LambdaHandles, NpcapTypeOK
<1>9. CASE receive_from_fails
  <2>1. calls \in 1 .. calls /\ received \in Results
    BY <1>9 DEF receive_from_fails, Control, NpcapTypeOK, AsyncTypeOK
  <2>2. QED BY <1>5, <1>9, <2>1 DEF receive_from_fails
<1>10. CASE receive_from_handles_datagram
  <2>1. calls \in 1 .. calls /\ received.packet \in Packets
    BY <1>10 DEF receive_from_handles_datagram, Control, NpcapTypeOK
  <2>2. QED BY <1>4, <1>6, <1>10, <2>1 DEF receive_from_handles_datagram
<1>11. QED
  BY <1>4, <1>7, <1>8, <1>9, <1>10, StepCases
     DEF Aside, WithoutCalls, wait_thread_calls_lambda, LambdaMisses, MissMembers,
         HandsOn, NewCall, receive_next_datagram_from, lambda_returns, destroy_members, callVars,
         SynchronousStep, receive_from, receive_from_gets_result

-----------------------------------------------------------------------------
(* What a step does to the requests in progress.                           *)

Elements(queue) == {queue[i] : i \in DOMAIN queue}

(* The elements of a sequence with one more at its end.                    *)
LEMMA ElementsOfAppend ==
  ASSUME NEW queue \in Seq(Nat), NEW r
  PROVE  Elements(Append(queue, r)) = Elements(queue) \cup {r}
<1>1. /\ Len(queue) \in Nat /\ DOMAIN queue = 1 .. Len(queue)
      /\ DOMAIN Append(queue, r) = 1 .. Len(queue) + 1
      /\ \A i \in 1 .. Len(queue) : Append(queue, r)[i] = queue[i]
      /\ Append(queue, r)[Len(queue) + 1] = r
  OBVIOUS
<1>2. QED BY <1>1 DEF Elements

(* The elements of a sequence without its first.                           *)
LEMMA ElementsOfTail ==
  ASSUME NEW queue \in Seq(Nat), queue # << >>
  PROVE  Elements(queue) = {Head(queue)} \cup Elements(Tail(queue))
<1>1. /\ Len(queue) \in Nat /\ DOMAIN queue = 1 .. Len(queue) /\ Len(queue) > 0
      /\ DOMAIN Tail(queue) = 1 .. Len(queue) - 1
      /\ \A i \in 1 .. Len(queue) - 1 : Tail(queue)[i] = queue[i + 1]
      /\ Head(queue) = queue[1]
  OBVIOUS
<1>2. \A i \in DOMAIN queue : i = 1 \/ (i - 1 \in DOMAIN Tail(queue) /\ queue[i] = Tail(queue)[i - 1])
  BY <1>1
<1>3. \A i \in DOMAIN Tail(queue) : i + 1 \in DOMAIN queue /\ Tail(queue)[i] = queue[i + 1]
  BY <1>1
<1>4. 1 \in DOMAIN queue
  BY <1>1
<1>5. \A i \in DOMAIN queue : queue[i] \in {Head(queue)} \cup Elements(Tail(queue))
  BY <1>1, <1>2 DEF Elements
<1>6. Head(queue) \in Elements(queue)
  BY <1>1, <1>4 DEF Elements
<1>7. \A i \in DOMAIN Tail(queue) : Tail(queue)[i] \in Elements(queue)
  BY <1>3, Zenon DEF Elements
<1>8. QED BY <1>5, <1>6, <1>7 DEF Elements

(* The thread, or the lambda that it runs, works on a call's request.      *)
Busy == wait_thread_ \in {"popped", "receiving"} \/ lambda \in {"called", "incomplete"}

(* A call is in progress until it has its result.                          *)
LEMMA InProgress ==
  RequestsInProgress =
    Elements(async_receive_from_parameters_queue_)
      \cup (IF Busy THEN {next_async_receive_from_parameters} \ {NoRequest} ELSE {})
BY DEF RequestsInProgress, Elements, Busy

(* Every request is a call's, and the queue does not hold the one that is  *)
(* worked on.                                                              *)
LEMMA RequestTypes ==
  ASSUME NpcapTypeOK, InOrder
  PROVE  /\ async_receive_from_parameters_queue_ \in Seq(Nat)
         /\ Elements(async_receive_from_parameters_queue_) \subseteq 1 .. requests
         /\ RequestsInProgress \subseteq 1 .. requests
         /\ DOMAIN call_of = 1 .. requests /\ requests \in Nat /\ calls \in Nat
         /\ \A r \in 1 .. requests : call_of[r] \in 1 .. calls
         /\ next_async_receive_from_parameters \notin Elements(async_receive_from_parameters_queue_)
<1> DEFINE queue == async_receive_from_parameters_queue_
           next  == next_async_receive_from_parameters
<1>1. /\ requests \in Nat /\ queue \in Seq(1 .. requests) /\ next \in 0 .. requests
      /\ call_of \in Seq(1 .. calls) /\ Len(call_of) = requests /\ calls \in Nat
  BY DEF NpcapTypeOK, AsyncTypeOK
<1>2. queue \in Seq(Nat) /\ \A i \in DOMAIN queue : queue[i] \in 1 .. requests
  BY <1>1, SequenceElements
<1>3. Elements(queue) \subseteq 1 .. requests
  BY <1>2 DEF Elements
<1>4. next \notin Elements(queue)
  <2>1. \A i \in DOMAIN queue : next < queue[i] /\ queue[i] \in Int /\ next \in Int
    BY <1>1, <1>2 DEF InOrder
  <2>2. \A i \in DOMAIN queue : next # queue[i]
    BY <2>1
  <2>3. QED BY <2>2 DEF Elements
<1>5. RequestsInProgress \subseteq 1 .. requests
  BY <1>1, <1>3, InProgress DEF NoRequest
<1>6. DOMAIN call_of = 1 .. requests /\ \A r \in DOMAIN call_of : call_of[r] \in 1 .. calls
  BY <1>1, SequenceElements
<1>7. QED BY <1>1, <1>2, <1>3, <1>4, <1>5, <1>6

(* The four things that may happen to the calls of async_receive_from.     *)
CallsStay ==
  /\ UNCHANGED << calls, call_of, completed >>
  /\ RequestsInProgress' \subseteq RequestsInProgress
  /\ wait_thread_' = "ended" \/ RequestsInProgress' = RequestsInProgress

CallCompletes ==
  /\ UNCHANGED << calls, call_of, wait_thread_ >>
  /\ next_async_receive_from_parameters \in RequestsInProgress
  /\ RequestsInProgress' = RequestsInProgress \ {next_async_receive_from_parameters}
  /\ \E c \in Completions : c.call = CallInProgress /\ completed' = Append(completed, c)

CallIsHandedOn ==
  /\ UNCHANGED << calls, completed, wait_thread_ >>
  /\ next_async_receive_from_parameters \in RequestsInProgress
  /\ RequestsInProgress' = (RequestsInProgress \ {next_async_receive_from_parameters}) \cup {requests + 1}
  /\ call_of' = Append(call_of, CallInProgress)

CallIsMade ==
  /\ call_of = << >> => calls = 0
  /\ UNCHANGED completed
  /\ wait_thread_' = "ended" => wait_thread_ = "ended"
  /\ RequestsInProgress' = RequestsInProgress \cup {requests + 1}
  /\ calls' = calls + 1
  /\ call_of' = Append(call_of, calls + 1)

(* What each step does to a call's requests and results.                   *)
LEMMA CallSteps ==
  ASSUME NpcapTypeOK, Control, InOrder, Origins(fragmented_packages_), [NpcapNext]_npcapVars
  PROVE  \/ CallsStay \/ CallCompletes \/ CallIsHandedOn \/ CallIsMade
         \/ (call_of = << >> /\ call_of' = << >>)
<1> DEFINE queue == async_receive_from_parameters_queue_
           next  == next_async_receive_from_parameters
<1> USE DEF queueVars
<1>1. /\ queue \in Seq(Nat) /\ next \notin Elements(queue)
      /\ Elements(queue) \subseteq 1 .. requests /\ requests \in Nat
  BY RequestTypes
<1>2. RequestsInProgress = Elements(queue) \cup (IF Busy THEN {next} \ {NoRequest} ELSE {})
  BY InProgress
<1>3. RequestsInProgress' = Elements(queue') \cup (IF Busy' THEN {next'} \ {NoRequest} ELSE {})
  BY DEF RequestsInProgress, Elements, Busy
<1>4. lambda = "none" <=> wait_thread_ # "handling"
  BY DEF Control
<1>5. ASSUME UNCHANGED << calls, call_of, completed >>, queue' = queue, next' = next, Busy' = Busy
      PROVE  CallsStay
  BY <1>2, <1>3, <1>5 DEF CallsStay
<1>6. CASE Aside
  <2>1. Busy' = Busy
    BY <1>4, <1>6 DEF Aside, Busy, callVars
  <2>2. QED BY <1>5, <1>6, <2>1 DEF Aside, callVars
<1>7. CASE WithoutCalls(wait_pops)
  <2>1. UNCHANGED << calls, call_of, completed >> /\ ~ Busy /\ Busy'
    BY <1>4, <1>7 DEF WithoutCalls, wait_pops, callVars, Busy
  <2>2. CASE queue = << >>
    <3>1. queue' = queue /\ next' = NoRequest
      BY <1>7, <2>2 DEF WithoutCalls, wait_pops
    <3>2. RequestsInProgress' = RequestsInProgress
      BY <1>2, <1>3, <2>1, <3>1
    <3>3. QED BY <2>1, <3>2 DEF CallsStay
  <2>3. CASE queue # << >>
    <3>1. queue' = Tail(queue) /\ next' = Head(queue)
      BY <1>7, <2>3 DEF WithoutCalls, wait_pops
    <3>2. Elements(queue) = {Head(queue)} \cup Elements(Tail(queue))
      BY <1>1, <2>3, ElementsOfTail
    <3>3. Head(queue) # NoRequest
      BY <1>1, <3>2 DEF NoRequest
    <3>4. RequestsInProgress' = RequestsInProgress
      BY <1>2, <1>3, <2>1, <3>1, <3>2, <3>3
    <3>5. QED BY <2>1, <3>4 DEF CallsStay
  <2>4. QED BY <2>2, <2>3
<1>8. CASE WithoutCalls(wait_returns)
  <2>1. UNCHANGED << calls, call_of, completed >> /\ wait_thread_' = "ended" /\ queue' = queue /\ next' = NoRequest
    BY <1>8 DEF WithoutCalls, wait_returns, callVars
  <2>2. QED BY <1>2, <1>3, <2>1 DEF CallsStay
<1>9. CASE wait_thread_calls_lambda
  <2>1. UNCHANGED << calls, call_of, completed >> /\ queue' = queue /\ next' = next /\ Busy
    BY <1>9 DEF wait_thread_calls_lambda, wait_answers, wait_answers_with_failure, CallHandler, Busy
  <2>2. next = NoRequest \/ Busy'
    BY <1>9 DEF wait_thread_calls_lambda, wait_answers, wait_answers_with_failure, CallHandler,
                LambdaIsCalled, Busy
  <2>3. RequestsInProgress' = RequestsInProgress
    BY <1>2, <1>3, <2>1, <2>2
  <2>4. QED BY <2>1, <2>3 DEF CallsStay
<1>10. ASSUME lambda = "called" \/ lambda = "incomplete"
       PROVE  Busy /\ next # NoRequest /\ next \in RequestsInProgress /\ CallInProgress \in 1 .. calls
              /\ wait_thread_ = "handling"
  <2>1. Busy /\ next # NoRequest /\ CallInProgress \in 1 .. calls /\ wait_thread_ = "handling"
    BY <1>10, LambdaHasCall DEF Busy, Control
  <2>2. QED BY <1>2, <2>1
<1>11. ASSUME lambda = "called", lambda' = "completing", UNCHANGED << asyncVars, calls, call_of >>,
              NEW c \in Completions, c.call = CallInProgress, completed' = Append(completed, c)
       PROVE  CallCompletes
  <2>1. queue' = queue /\ next' = next /\ wait_thread_' = wait_thread_
    BY <1>11 DEF asyncVars, waitVars
  <2>2. ~ Busy' /\ Busy /\ next \in RequestsInProgress
    BY <1>10, <1>11, <2>1 DEF Busy
  <2>3. RequestsInProgress' = RequestsInProgress \ {next}
    BY <1>1, <1>2, <1>3, <1>10, <1>11, <2>1, <2>2
  <2>4. QED BY <1>11, <2>1, <2>2, <2>3 DEF CallCompletes
<1>12. CASE lambda_fails
  <2>1. result \in Results
    BY DEF NpcapTypeOK, AsyncTypeOK
  <2>2. Completion(CallInProgress, result.error, NoMessage, NoEndpoint) \in Completions
    BY <1>10, <1>12, <2>1, CompletesWithError DEF lambda_fails
  <2>3. QED BY <1>11, <1>12, <2>2 DEF lambda_fails, Completion
<1>13. CASE LambdaHandles
  <2>1. CASE returned'.message = NoMessage
    <3>1. lambda = "called" /\ lambda' = "incomplete" /\ UNCHANGED << asyncVars, calls, call_of, completed >>
      BY <1>13, <2>1 DEF LambdaHandles, AfterTheDatagram
    <3>2. Busy' = Busy
      BY <3>1 DEF Busy
    <3>3. QED BY <1>5, <3>1, <3>2 DEF asyncVars, waitVars
  <2>2. CASE returned'.message # NoMessage
    <3>1. CallInProgress \in 1 .. calls /\ result.packet \in Packets
      BY <1>10, <1>13 DEF LambdaHandles, NpcapTypeOK
    <3>2. /\ CompletionWith(CallInProgress, result.packet) \in Completions
          /\ CompletionWith(CallInProgress, result.packet).call = CallInProgress
      BY <1>13, <2>2, <3>1, CompletesWithMessage DEF LambdaHandles
    <3>3. QED BY <1>11, <1>13, <2>2, <3>2 DEF LambdaHandles, AfterTheDatagram
  <2>3. QED BY <2>1, <2>2
<1>14. CASE LambdaMisses \/ destroy_members
  <2>1. Busy' = Busy
    BY <1>14 DEF LambdaMisses, MissMembers, destroy_members, callVars, asyncVars, waitVars, Busy
  <2>2. QED BY <1>5, <1>14, <2>1 DEF LambdaMisses, MissMembers, destroy_members, callVars, asyncVars, waitVars
<1>15. ASSUME NEW call, receive_next_datagram_from(call)
       PROVE  /\ next' = next /\ wait_thread_' = notify_one
              /\ Elements(queue') = Elements(queue) \cup {requests + 1}
              /\ completed' = completed /\ call_of' = Append(call_of, call)
  BY <1>1, <1>15, ElementsOfAppend DEF receive_next_datagram_from, asyncReceiveFrom
<1>16. CASE HandsOn
  <2>1. /\ next' = next /\ wait_thread_' = notify_one
        /\ Elements(queue') = Elements(queue) \cup {requests + 1}
        /\ completed' = completed /\ call_of' = Append(call_of, CallInProgress)
        /\ calls' = calls /\ lambda' = "done"
    BY <1>15, <1>16 DEF HandsOn
  <2>2. /\ Busy /\ next # NoRequest /\ next \in RequestsInProgress /\ wait_thread_ = "handling"
    BY <1>10, <1>16 DEF HandsOn
  <2>3. ~ Busy' /\ wait_thread_' = wait_thread_
    BY <2>1, <2>2 DEF Busy, notify_one
  <2>4. next # requests + 1
    BY DEF NpcapTypeOK, AsyncTypeOK
  <2>5. RequestsInProgress' = (RequestsInProgress \ {next}) \cup {requests + 1}
    BY <1>1, <1>2, <1>3, <2>1, <2>2, <2>3, <2>4
  <2>6. QED BY <2>1, <2>2, <2>3, <2>5 DEF CallIsHandedOn
<1>17. CASE lambda_returns
  <2>1. UNCHANGED << calls, call_of, completed >> /\ queue' = queue /\ ~ Busy'
    BY <1>17 DEF lambda_returns, handler_returns, Busy
  <2>2. ~ Busy
    BY <1>17 DEF lambda_returns, handler_returns, Busy
  <2>3. RequestsInProgress' = RequestsInProgress
    BY <1>2, <1>3, <2>1, <2>2
  <2>4. QED BY <2>1, <2>3 DEF CallsStay
<1>18. CASE NewCall
  <2>1. /\ next' = next /\ wait_thread_' = notify_one
        /\ Elements(queue') = Elements(queue) \cup {requests + 1}
        /\ completed' = completed /\ call_of' = Append(call_of, calls + 1)
        /\ calls' = calls + 1 /\ lambda' = lambda /\ (call_of = << >> => calls = 0)
    BY <1>15, <1>18 DEF NewCall
  <2>2. Busy' = Busy /\ (wait_thread_' = "ended" => wait_thread_ = "ended")
    BY <2>1 DEF Busy, notify_one
  <2>3. RequestsInProgress' = RequestsInProgress \cup {requests + 1}
    BY <1>2, <1>3, <2>1, <2>2
  <2>4. QED BY <2>1, <2>2, <2>3 DEF CallIsMade
<1>19. CASE SynchronousStep
  <2>1. call_of' = call_of
    BY <1>19 DEF SynchronousStep, receive_from, receive_from_gets_result, receive_from_fails,
                 receive_from_handles_datagram
  <2>2. call_of = << >>
    BY <1>19 DEF SynchronousStep, receive_from, receive_from_gets_result, receive_from_fails,
                 receive_from_handles_datagram, receiveFromReturns, Control
  <2>3. QED BY <2>1, <2>2
<1>20. QED
  BY <1>6, <1>7, <1>8, <1>9, <1>12, <1>13, <1>14, <1>16, <1>17, <1>18, <1>19, StepCases, Zenon

-----------------------------------------------------------------------------
(* One request or one result.                                              *)

(* Before the first call there is nothing.                                 *)
LEMMA NothingBeforeTheFirstCall ==
  ASSUME NpcapTypeOK, InOrder, call_of = << >>, calls = 0
  PROVE  RequestsInProgress = {} /\ DOMAIN completed = {} /\ requests = 0
<1>1. requests = 0
  BY DEF NpcapTypeOK
<1>2. RequestsInProgress = {}
  BY <1>1, RequestTypes
<1>3. \A i \in DOMAIN completed : completed[i].call \in 1 .. 0
  BY DEF NpcapTypeOK
<1>4. DOMAIN completed = {}
  <2>1. \A n : n \notin 1 .. 0
    OBVIOUS
  <2>2. QED BY <1>3, <2>1
<1>5. QED BY <1>1, <1>2, <1>4

(* What CallCompletes appends.                                             *)
LEMMA CompletedWithOneMore ==
  ASSUME NpcapTypeOK, CallCompletes
  PROVE  \E k : /\ k \notin DOMAIN completed /\ DOMAIN completed' = DOMAIN completed \cup {k}
                /\ \A i \in DOMAIN completed : completed'[i] = completed[i]
                /\ completed'[k].call = CallInProgress
<1>1. PICK c \in Completions : c.call = CallInProgress /\ completed' = Append(completed, c)
  BY DEF CallCompletes
<1>2. completed \in Seq(Completions)
  BY DEF NpcapTypeOK
<1>3. /\ Len(completed) \in Nat /\ DOMAIN completed = 1 .. Len(completed)
      /\ DOMAIN completed' = 1 .. Len(completed) + 1
      /\ \A i \in DOMAIN completed' : completed'[i] = IF i \in DOMAIN completed THEN completed[i] ELSE c
      /\ completed'[Len(completed) + 1] = c
  BY <1>1, <1>2, OneMoreCompletion
<1>4. Len(completed) + 1 \notin DOMAIN completed /\ DOMAIN completed' = DOMAIN completed \cup {Len(completed) + 1}
  BY <1>3
<1>5. \A i \in DOMAIN completed : completed'[i] = completed[i]
  BY <1>3
<1>6. QED BY <1>1, <1>3, <1>4, <1>5, Zenon

(* What the request that is added is for.                                  *)
LEMMA OneMoreRequest ==
  ASSUME NpcapTypeOK, InOrder, NEW call, call_of' = Append(call_of, call)
  PROVE  /\ requests + 1 \notin RequestsInProgress
         /\ \A r \in RequestsInProgress : call_of'[r] = call_of[r] /\ call_of[r] \in 1 .. calls
         /\ call_of'[requests + 1] = call
<1>1. call_of \in Seq(1 .. calls) /\ Len(call_of) = requests /\ requests \in Nat
  BY DEF NpcapTypeOK, AsyncTypeOK
<1>2. /\ \A r \in 1 .. requests : call_of'[r] = call_of[r]
      /\ call_of'[requests + 1] = call
  BY <1>1
<1>3. /\ RequestsInProgress \subseteq 1 .. requests
      /\ \A r \in 1 .. requests : call_of[r] \in 1 .. calls
  BY RequestTypes
<1>4. QED BY <1>1, <1>2, <1>3

(* No step gives a call a second request or result.                        *)
LEMMA AtMostOneNext ==
  ASSUME NpcapTypeOK, Control, InOrder, Origins(fragmented_packages_),
         call_of # << >> => AtMostOne, [NpcapNext]_npcapVars, call_of' # << >>
  PROVE  AtMostOne'
<1> DEFINE next == next_async_receive_from_parameters
           R    == RequestsInProgress
           new  == requests + 1
<1> HIDE DEF R
<1>1. CASE call_of = << >>
  <2>1. CallIsMade
    BY <1>1, CallSteps, RequestTypes, LambdaHasCall DEF CallsStay, CallCompletes, CallIsHandedOn
  <2>2. RequestsInProgress = {} /\ DOMAIN completed = {}
    BY <1>1, <2>1, NothingBeforeTheFirstCall DEF CallIsMade
  <2>3. RequestsInProgress' = {requests + 1} /\ completed' = completed
    BY <2>1, <2>2 DEF CallIsMade
  <2>4. QED BY <2>2, <2>3 DEF AtMostOne
<1>2. CASE call_of # << >>
  <2>0. /\ \A r, s \in R : call_of[r] = call_of[s] => r = s
        /\ \A r \in R, i \in DOMAIN completed : call_of[r] # completed[i].call
        /\ \A i, j \in DOMAIN completed : completed[i].call = completed[j].call => i = j
    BY <1>2, Zenon DEF AtMostOne, R
  <2>1. CASE CallsStay
    <3>1. R' \subseteq R /\ call_of' = call_of /\ completed' = completed
      BY <2>1 DEF CallsStay, R
    <3>2. QED BY <2>0, <3>1 DEF AtMostOne, R
  <2>2. CASE CallCompletes
    <3>1. next \in R /\ R' = R \ {next} /\ call_of' = call_of /\ CallInProgress = call_of[next]
      BY <2>2 DEF CallCompletes, R, CallInProgress
    <3>2. PICK k : /\ k \notin DOMAIN completed /\ DOMAIN completed' = DOMAIN completed \cup {k}
                   /\ \A i \in DOMAIN completed : completed'[i] = completed[i]
                   /\ completed'[k].call = call_of[next]
      BY <2>2, <3>1, CompletedWithOneMore
    <3> HIDE DEF next
    <3>3. \A r, s \in R' : call_of'[r] = call_of'[s] => r = s
      BY <2>0, <3>1
    <3>4. \A r \in R', i \in DOMAIN completed' : call_of'[r] # completed'[i].call
      BY <2>0, <3>1, <3>2
    <3>5. \A i, j \in DOMAIN completed' : completed'[i].call = completed'[j].call => i = j
      BY <2>0, <3>1, <3>2
    <3>6. QED BY <3>3, <3>4, <3>5, Zenon DEF AtMostOne, R
  <2>3. CASE CallIsHandedOn
    <3>1. next \in R /\ R' = (R \ {next}) \cup {new} /\ completed' = completed
      BY <2>3 DEF CallIsHandedOn, R
    <3>2. /\ \A r \in R : call_of'[r] = call_of[r]
          /\ call_of'[new] = call_of[next]
      BY <2>3, OneMoreRequest DEF R, CallIsHandedOn, CallInProgress
    <3> HIDE DEF next, new
    <3>3. \A r, s \in R' : call_of'[r] = call_of'[s] => r = s
      BY <2>0, <3>1, <3>2
    <3>4. \A r \in R', i \in DOMAIN completed' : call_of'[r] # completed'[i].call
      BY <2>0, <3>1, <3>2
    <3>5. QED BY <2>0, <3>1, <3>3, <3>4, Zenon DEF AtMostOne, R
  <2>4. CASE CallIsMade
    <3> DEFINE call == calls + 1
    <3>0. calls \in Nat /\ \A c \in 1 .. calls : c # call
      BY DEF NpcapTypeOK
    <3>1. R' = R \cup {new} /\ completed' = completed
      BY <2>4 DEF CallIsMade, R
    <3>2. /\ \A r \in R : call_of'[r] = call_of[r] /\ call_of[r] # call
          /\ call_of'[new] = call
      BY <2>4, <3>0, OneMoreRequest DEF R, CallIsMade
    <3>3. \A i \in DOMAIN completed : completed[i].call # call
      BY <3>0 DEF NpcapTypeOK
    <3> HIDE DEF call, new
    <3>4. \A r, s \in R' : call_of'[r] = call_of'[s] => r = s
      BY <2>0, <3>1, <3>2
    <3>5. \A r \in R', i \in DOMAIN completed' : call_of'[r] # completed'[i].call
      BY <2>0, <3>1, <3>2, <3>3
    <3>6. QED BY <2>0, <3>1, <3>4, <3>5, Zenon DEF AtMostOne, R
  <2>5. QED BY <1>2, <2>1, <2>2, <2>3, <2>4, CallSteps
<1>3. QED BY <1>1, <1>2

(* A wait thread that has ended is the last.                               *)
LEMMA EndedIsEnded ==
  ASSUME OneThread, [NpcapNext]_npcapVars, wait_thread_ = "ended"
  PROVE  wait_thread_' = "ended"
<1>1. CASE AsyncNext
  BY <1>1 DEF OneThread, AsyncNext, WaitThreadStep, OwnerStep, wait_blocks, wait_receives, wait_answers,
         wait_answers_with_failure, wait_wakes_spuriously, bind_starts_thread, wait_pops, wait_returns,
         handler_returns, asyncReceiveFrom, notify_one,
         destroy_joins, bind, destroy, close, close_notifies, receiveFrom, receiveFromReturns,
         PacketArrives, waitVars
<1>2. CASE UNCHANGED asyncVars
  BY <1>2 DEF asyncVars, waitVars
<1>3. QED BY <1>1, <1>2, StepIsAsyncStep

(* No step takes the only one a call has.                                  *)
LEMMA AtLeastOneNext ==
  ASSUME NpcapTypeOK, Control, InOrder, Origins(fragmented_packages_), OneThread,
         call_of # << >> => AtLeastOne, [NpcapNext]_npcapVars, call_of' # << >>
  PROVE  AtLeastOne'
<1> DEFINE next == next_async_receive_from_parameters
           R    == RequestsInProgress
           One(call) == \/ \E r \in R : call_of[r] = call
                        \/ \E i \in DOMAIN completed : completed[i].call = call
<1> SUFFICES ASSUME wait_thread_' # "ended", NEW call \in 1 .. calls'
             PROVE  One(call)'
  BY Zenon DEF AtLeastOne
<1>1. wait_thread_ # "ended"
  BY EndedIsEnded
<1> HIDE DEF R
<1>2. CASE call_of = << >>
  <2>1. CallIsMade
    BY <1>2, CallSteps, RequestTypes DEF CallsStay, CallCompletes, CallIsHandedOn
  <2>2. calls = 0 /\ requests = 0 /\ RequestsInProgress = {}
    BY <1>2, <2>1, NothingBeforeTheFirstCall DEF CallIsMade
  <2>3. call = 1 /\ R' = {1} /\ call_of' = Append(call_of, 1)
    BY <2>1, <2>2 DEF CallIsMade, R
  <2>4. call_of'[1] = 1
    BY <1>2, <2>3
  <2>5. QED BY <2>3, <2>4
<1>3. CASE call_of # << >>
  <2>0. call \in 1 .. calls => One(call)
    BY <1>1, <1>3, Zenon DEF AtLeastOne, R
  <2>1. CASE CallsStay
    <3>1. R' = R /\ call_of' = call_of /\ completed' = completed /\ calls' = calls
      BY <2>1 DEF CallsStay, R
    <3>2. QED BY <2>0, <3>1
  <2>2. CASE CallCompletes
    <3>1. /\ next \in R /\ R' = R \ {next} /\ call_of' = call_of /\ CallInProgress = call_of[next]
          /\ calls' = calls
      BY <2>2 DEF CallCompletes, R, CallInProgress
    <3>2. PICK k : /\ k \notin DOMAIN completed /\ DOMAIN completed' = DOMAIN completed \cup {k}
                   /\ \A i \in DOMAIN completed : completed'[i] = completed[i]
                   /\ completed'[k].call = call_of[next]
      BY <2>2, <3>1, CompletedWithOneMore
    <3> HIDE DEF next
    <3>3. QED BY <2>0, <3>1, <3>2
  <2>3. CASE CallIsHandedOn
    <3>1. /\ next \in R /\ R' = (R \ {next}) \cup {requests + 1} /\ completed' = completed
          /\ call_of' = Append(call_of, call_of[next]) /\ calls' = calls
      BY <2>3 DEF CallIsHandedOn, R, CallInProgress
    <3>2. /\ \A r \in R : call_of'[r] = call_of[r]
          /\ call_of'[requests + 1] = call_of[next]
      BY <3>1, OneMoreRequest DEF R
    <3> HIDE DEF next
    <3>3. QED BY <2>0, <3>1, <3>2
  <2>4. CASE CallIsMade
    <3>1. /\ R' = R \cup {requests + 1} /\ completed' = completed
          /\ call_of' = Append(call_of, calls + 1) /\ calls' = calls + 1 /\ calls \in Nat
      BY <2>4 DEF CallIsMade, R, NpcapTypeOK
    <3>2. /\ \A r \in R : call_of'[r] = call_of[r]
          /\ call_of'[requests + 1] = calls + 1
      BY <3>1, OneMoreRequest DEF R
    <3>3. call \in 1 .. calls \/ call = calls + 1
      BY <3>1
    <3>4. QED BY <2>0, <3>1, <3>2, <3>3
  <2>5. QED BY <1>3, <2>1, <2>2, <2>3, <2>4, CallSteps
<1>4. QED BY <1>2, <1>3

-----------------------------------------------------------------------------
(* Who misses the members.                                                 *)

(* What has been finished stays finished, once no call can be handed on.   *)
LEMMA FinishedStays ==
  ASSUME NpcapTypeOK, Control, InOrder, Origins(fragmented_packages_),
         call_of # << >> => AtMostOne, [NpcapNext]_npcapVars,
         members # "alive", NEW call, Finished(call)
  PROVE  Finished(call)'
<1>1. PICK i \in DOMAIN completed : completed[i].call = call
  BY DEF Finished
<1>2. ~ (lambda = "completing" /\ CallInProgress = call)
  BY DEF Finished
<1>3. CASE lambda_fails
  <2> DEFINE c == Completion(CallInProgress, result.error, NoMessage, NoEndpoint)
  <2>1. /\ CallInProgress \in 1 .. calls /\ call_of # << >>
        /\ next_async_receive_from_parameters # NoRequest
    BY <1>3, LambdaHasCall DEF lambda_fails, Control
  <2>2. c \in Completions /\ completed' = Append(completed, c)
    BY <1>3, <2>1, CompletesWithError DEF lambda_fails, NpcapTypeOK, AsyncTypeOK
  <2>3. i \in DOMAIN completed' /\ completed'[i].call = call
    BY <1>1, <2>2, OneMoreCompletion DEF NpcapTypeOK
  <2>4. next_async_receive_from_parameters \in RequestsInProgress
    BY <1>3, <2>1 DEF lambda_fails, RequestsInProgress
  <2>5. CallInProgress # call
    BY <1>1, <2>1, <2>4, Zenon DEF AtMostOne, CallInProgress
  <2>6. CallInProgress' = CallInProgress
    BY <1>3 DEF lambda_fails, asyncVars, waitVars, CallInProgress
  <2>7. QED BY <2>3, <2>5, <2>6 DEF Finished
<1>4. ASSUME completed' = completed, ~ (lambda' = "completing" /\ CallInProgress' = call)
      PROVE  Finished(call)'
  BY <1>1, <1>4 DEF Finished
<1>5. CASE Aside \/ LambdaMisses \/ destroy_members
  <2>1. completed' = completed /\ lambda' = lambda /\ CallInProgress' = CallInProgress
    BY <1>5 DEF Aside, LambdaMisses, MissMembers, destroy_members, callVars, asyncVars, waitVars,
                CallInProgress
  <2>2. QED BY <1>2, <1>4, <2>1
<1>6. CASE WithoutCalls(wait_pops) \/ WithoutCalls(wait_returns)
  BY <1>4, <1>6 DEF WithoutCalls, wait_pops, wait_returns, callVars, Control
<1>7. CASE wait_thread_calls_lambda
  BY <1>4, <1>7 DEF wait_thread_calls_lambda, LambdaIsCalled, wait_answers, wait_answers_with_failure, Control
<1>8. CASE lambda_returns
  BY <1>4, <1>8 DEF lambda_returns
<1>9. CASE LambdaHandles \/ HandsOn \/ NewCall
  BY <1>9 DEF LambdaHandles, HandsOn, NewCall, receive_next_datagram_from
<1>10. CASE SynchronousStep
  <2>1. lambda = "none"
    BY <1>10, LambdaHasCall DEF SynchronousStep, receive_from, receive_from_gets_result, receive_from_fails,
         receive_from_handles_datagram, receiveFromReturns, Control
  <2>2. lambda' = lambda
    BY <1>10 DEF SynchronousStep, receive_from, receive_from_gets_result, receive_from_fails,
         receive_from_handles_datagram
  <2>3. ASSUME NEW c \in Completions, completed' = Append(completed, c)
        PROVE  i \in DOMAIN completed' /\ completed'[i].call = call
    BY <1>1, <2>3, OneMoreCompletion DEF NpcapTypeOK
  <2>4. calls \in 1 .. calls \/ loop = "none"
    BY DEF Control, NpcapTypeOK
  <2>5. i \in DOMAIN completed' /\ completed'[i].call = call
    <3>1. CASE receive_from_fails
      <4>1. Completion(calls, received.error, NoMessage, NoEndpoint) \in Completions
        BY <2>4, <3>1, CompletesWithError DEF receive_from_fails, NpcapTypeOK, AsyncTypeOK
      <4>2. QED BY <2>3, <3>1, <4>1 DEF receive_from_fails
    <3>2. CASE receive_from_handles_datagram
      <4>1. calls \in 1 .. calls /\ received.packet \in Packets
        BY <2>4, <3>2 DEF receive_from_handles_datagram, NpcapTypeOK
      <4>2. CASE returned'.message # NoMessage
        <5>1. CompletionWith(calls, received.packet) \in Completions
          BY <3>2, <4>1, <4>2, CompletesWithMessage DEF receive_from_handles_datagram
        <5>2. QED BY <2>3, <3>2, <4>2, <5>1 DEF receive_from_handles_datagram
      <4>3. CASE returned'.message = NoMessage
        BY <1>1, <3>2, <4>3 DEF receive_from_handles_datagram
      <4>4. QED BY <4>2, <4>3
    <3>3. CASE receive_from \/ receive_from_gets_result
      BY <1>1, <3>3 DEF receive_from, receive_from_gets_result
    <3>4. QED BY <1>10, <3>1, <3>2, <3>3 DEF SynchronousStep
  <2>6. QED BY <2>1, <2>2, <2>5 DEF Finished
<1>11. QED
  BY <1>3, <1>5, <1>6, <1>7, <1>8, <1>9, <1>10, StepCases, Zenon

(* Who misses the members works for a call that is not finished.           *)
LEMMA UnfinishedNext ==
  ASSUME NpcapTypeOK, Control, InOrder, Origins(fragmented_packages_),
         call_of # << >> => AtMostOne, UnfinishedInv, [NpcapNext]_npcapVars
  PROVE  UnfinishedInv'
<1>1. CASE destroy_members
  <2>1. /\ members' = "destroyed" /\ calls' = calls
        /\ unfinished' = {call \in 1 .. calls : ~ Finished(call)}
    BY <1>1 DEF destroy_members, callVars
  <2>2. \A call : Finished(call)' <=> Finished(call)
    BY <1>1 DEF destroy_members, callVars, asyncVars, waitVars, Finished, CallInProgress
  <2>3. QED BY <2>1, <2>2 DEF UnfinishedInv
<1>2. CASE LambdaMisses
  <2>1. members = "destroyed" /\ members' = "missed" /\ unfinished' = unfinished /\ calls' = calls
    BY <1>2 DEF LambdaMisses, MissMembers, callVars
  <2>2. /\ CallInProgress \in 1 .. calls /\ call_of # << >>
        /\ next_async_receive_from_parameters # NoRequest
    BY <1>2, LambdaHasCall DEF LambdaMisses, Control
  <2>3. ~ Finished(CallInProgress)
    <3>1. CASE lambda = "completing"
      BY <3>1 DEF Finished
    <3>2. CASE lambda \in {"called", "incomplete"}
      <4>1. next_async_receive_from_parameters \in RequestsInProgress
        BY <2>2, <3>2 DEF RequestsInProgress
      <4>2. \A i \in DOMAIN completed : completed[i].call # CallInProgress
        BY <2>2, <4>1 DEF AtMostOne, CallInProgress
      <4>3. QED BY <4>2 DEF Finished
    <3>3. QED BY <1>2, <3>1, <3>2 DEF LambdaMisses
  <2>4. CallInProgress \in unfinished
    BY <2>1, <2>2, <2>3, Zenon DEF UnfinishedInv
  <2>5. \A call \in 1 .. calls' : Finished(call)' \/ call \in unfinished'
    BY <2>1, FinishedStays DEF UnfinishedInv
  <2>6. CallInProgress' = CallInProgress
    BY <1>2 DEF LambdaMisses, MissMembers, CallInProgress, asyncVars, waitVars, callVars
  <2>7. QED BY <2>1, <2>4, <2>5, <2>6 DEF UnfinishedInv
<1>3. CASE members' = "alive"
  BY <1>3 DEF UnfinishedInv
<1>4. CASE members' = members /\ unfinished' = unfinished /\ (members # "alive" => calls' = calls)
  <2>1. members # "alive" => \A call \in 1 .. calls : Finished(call)' \/ call \in unfinished'
    BY <1>4, FinishedStays DEF UnfinishedInv
  <2>2. members = "missed" => CallInProgress' = CallInProgress
    BY DEF NpcapNext, npcapVars, CallInProgress, asyncVars, waitVars, callVars
  <2>3. QED BY <1>4, <2>1, <2>2 DEF UnfinishedInv
<1>5. \/ members' = members /\ unfinished' = unfinished /\ (members # "alive" => calls' = calls)
      \/ destroy_members \/ LambdaMisses
  BY StepCases
     DEF Aside, WithoutCalls, wait_thread_calls_lambda, lambda_fails, LambdaHandles, HandsOn, NewCall,
         receive_next_datagram_from, lambda_returns, callVars,
         SynchronousStep, receive_from, receive_from_gets_result, receive_from_fails,
         receive_from_handles_datagram
<1>6. QED BY <1>1, <1>2, <1>4, <1>5

-----------------------------------------------------------------------------
(* The theorems.                                                           *)

LEMMA NpcapInvInit == NpcapInit => NpcapInv
<1> SUFFICES ASSUME NpcapInit PROVE NpcapInv
  OBVIOUS
<1>1. SocketInv /\ AsyncTypeOK
  BY SocketInvInit, InitTypes DEF NpcapInit
<1>2. /\ DOMAIN fragmented_packages_ = {}
      /\ requests = 0 /\ async_receive_from_parameters_queue_ = << >>
      /\ wait_thread_ = "none" /\ ~ receiving
      /\ result.error = "GENERIC_ERROR" /\ received.error = "GENERIC_ERROR"
  BY DEF NpcapInit, SocketInit, Init, AsyncInit, Failure
<1>3. NpcapTypeOK
  BY <1>1, <1>2 DEF NpcapTypeOK, NpcapInit
<1>4. Control /\ InOrder /\ UnfinishedInv
  BY <1>2 DEF Control, InOrder, UnfinishedInv, NpcapInit
<1>5. Origins(fragmented_packages_)
  BY <1>2 DEF Origins
<1>6. EndpointsBelongToMessages
  BY DEF EndpointsBelongToMessages, NpcapInit
<1>7. call_of = << >>
  BY DEF NpcapInit
<1>8. QED BY <1>3, <1>4, <1>5, <1>6, <1>7 DEF NpcapInv

(* Every step keeps it.                                                    *)
LEMMA NpcapInvNext == NpcapInv /\ [NpcapNext]_npcapVars => NpcapInv'
<1> SUFFICES ASSUME NpcapInv, [NpcapNext]_npcapVars PROVE NpcapInv'
  OBVIOUS
<1>1. /\ NpcapTypeOK /\ Control /\ InOrder /\ (call_of # << >> => AtMostOne) /\ UnfinishedInv
      /\ Origins(fragmented_packages_) /\ EndpointsBelongToMessages
  BY DEF NpcapInv
<1>2. NpcapTypeOK' /\ Control'
  BY <1>1, NpcapTypesNext, ControlNext
<1>3. InOrder'
  BY <1>1, StepIsAsyncStep, InOrderNext DEF NpcapTypeOK
<1>4. call_of' # << >> => AtMostOne'
  BY <1>1, AtMostOneNext
<1>5. UnfinishedInv'
  BY <1>1, UnfinishedNext
<1>6. Origins(fragmented_packages_')
  BY <1>1, SocketPart
<1>7. EndpointsBelongToMessages'
  BY <1>1, MessagesNext
<1>8. QED BY <1>2, <1>3, <1>4, <1>5, <1>6, <1>7, Zenon DEF NpcapInv

(* So it always holds.                                                     *)
LEMMA NpcapInvariantHolds == NpcapSpec => []NpcapInv
BY NpcapInvInit, NpcapInvNext, PTL DEF NpcapSpec

(* A user is given a message with the endpoint it came from, and a message *)
(* of that endpoint's datagrams only.                                      *)
THEOREM MessagesComeFromTheirEndpoint == NpcapSpec => []EndpointsBelongToMessages
<1>1. NpcapInv => EndpointsBelongToMessages
  BY DEF NpcapInv
<1>2. QED BY <1>1, NpcapInvariantHolds, PTL

(* Whenever the wait thread misses the members that the destructor         *)
(* destroys first, it works for a call that the user did not wait for,     *)
(* with its handler (the order of SocketNpcap's members).                  *)
THEOREM FinishedCallsMissNothing == NpcapSpec => []OnlyUnfinishedCallsMissMembers
<1>1. NpcapInv => OnlyUnfinishedCallsMissMembers
  BY DEF NpcapInv, UnfinishedInv, OnlyUnfinishedCallsMissMembers
<1>2. QED BY <1>1, NpcapInvariantHolds, PTL

(* However often a socket is bound, no call is carried on by two requests, *)
(* none completes twice, and none goes on once it has completed.           *)
THEOREM CallsNeverDouble == NpcapSpec => [](call_of # << >> => AtMostOne)
<1>1. NpcapInv => (call_of # << >> => AtMostOne)
  BY DEF NpcapInv
<1>2. QED BY <1>1, NpcapInvariantHolds, PTL

(* A socket that is bound once keeps CarriedOnInv.                         *)
LEMMA CarriedOnNext ==
  ASSUME BoundOnce
  PROVE  NpcapInv /\ CarriedOnInv /\ [NpcapNext]_npcapVars => CarriedOnInv'
<1> SUFFICES ASSUME NpcapInv, CarriedOnInv, [NpcapNext]_npcapVars PROVE CarriedOnInv'
  OBVIOUS
<1>1. /\ NpcapTypeOK /\ Control /\ InOrder /\ Origins(fragmented_packages_)
      /\ OneThread /\ (call_of # << >> => AtLeastOne)
  BY DEF NpcapInv, CarriedOnInv
<1>2. OneThread'
  BY <1>1, StepIsAsyncStep, OneThreadNext DEF NpcapTypeOK
<1>3. call_of' # << >> => AtLeastOne'
  BY <1>1, AtLeastOneNext
<1>4. QED BY <1>2, <1>3 DEF CarriedOnInv

(* A set none of whose elements differ has one at most.                    *)
LEMMA OneAtMost ==
  ASSUME NEW S, \A x, y \in S : x = y
  PROVE  (S = {} /\ Cardinality(S) = 0) \/ (S # {} /\ Cardinality(S) = 1)
<1>1. CASE S = {}
  BY <1>1, FS_EmptySet
<1>2. CASE S # {}
  <2>1. PICK x : x \in S
    BY <1>2
  <2>2. S = {x}
    BY <2>1
  <2>3. Cardinality({x}) = 1
    BY FS_Singleton
  <2>4. QED BY <1>2, <2>2, <2>3
<1>3. QED BY <1>1, <1>2

(* The invariant gives what the property counts.                           *)
LEMMA OneRequestOrResult ==
  ASSUME call_of # << >> => AtMostOne /\ AtLeastOne
  PROVE  CallsHaveOneRequestOrResult
<1> SUFFICES ASSUME call_of # << >>, NEW call \in 1 .. calls
             PROVE  LET pending == Cardinality({r \in RequestsInProgress : call_of[r] = call})
                        results == Cardinality({i \in DOMAIN completed : completed[i].call = call})
                    IN  /\ pending + results <= 1
                        /\ pending + results = 0 => wait_thread_ = "ended"
  BY Zenon DEF CallsHaveOneRequestOrResult
<1> DEFINE Pending == {r \in RequestsInProgress : call_of[r] = call}
           Given   == {i \in DOMAIN completed : completed[i].call = call}
<1>1. \/ Pending = {} /\ Cardinality(Pending) = 0
      \/ Pending # {} /\ Cardinality(Pending) = 1
  <2>1. \A r, s \in Pending : r = s
    BY DEF AtMostOne
  <2> HIDE DEF Pending
  <2>2. QED BY <2>1, OneAtMost
<1>2. \/ Given = {} /\ Cardinality(Given) = 0
      \/ Given # {} /\ Cardinality(Given) = 1
  <2>1. \A i, j \in Given : i = j
    BY DEF AtMostOne
  <2> HIDE DEF Given
  <2>2. QED BY <2>1, OneAtMost
<1>3. Pending = {} \/ Given = {}
  BY DEF AtMostOne
<1>4. Pending = {} /\ Given = {} => wait_thread_ = "ended"
  BY DEF AtLeastOne
<1> HIDE DEF Pending, Given
<1>5. /\ Cardinality(Pending) + Cardinality(Given) <= 1
      /\ Cardinality(Pending) + Cardinality(Given) = 0 => wait_thread_ = "ended"
  BY <1>1, <1>2, <1>3, <1>4
<1>6. QED BY <1>5 DEF Pending, Given

(* A call of async_receive_from has one request in progress, or one        *)
(* result, until the wait thread ends: of a socket that is bound once, for *)
(* the thread that a second bind starts finds the calls that the first     *)
(* thread has forgotten.                                                   *)
THEOREM CallsAreCarriedOnOnce ==
  ASSUME BoundOnce
  PROVE  NpcapSpec => []CallsHaveOneRequestOrResult
<1>1. NpcapInit => CarriedOnInv
  BY DEF NpcapInit, AsyncInit, CarriedOnInv, OneThread
<1>2. NpcapInv /\ CarriedOnInv => CallsHaveOneRequestOrResult
  BY OneRequestOrResult DEF NpcapInv, CarriedOnInv
<1>3. NpcapInv /\ CarriedOnInv /\ [NpcapNext]_npcapVars => CarriedOnInv'
  BY CarriedOnNext
<1>4. QED BY <1>1, <1>2, <1>3, NpcapInvariantHolds, PTL DEF NpcapSpec

=============================================================================
