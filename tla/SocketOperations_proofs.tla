---------------------- MODULE SocketOperations_proofs ----------------------
(***************************************************************************)
(* Proofs about the calls of several datagrams, for any number of calls,   *)
(* threads and packets, every length of the datagram list and every        *)
(* operating system: a call is carried on by one operation or has one      *)
(* result, so that its operations never race with each other; who misses   *)
(* the Socket; and what an empty result of receive_from means.             *)
(*                                                                         *)
(* The argument: a step takes the operation of one call to its next one or *)
(* to its result (CallsInv), and what an operation has received depends on *)
(* where it is (OperationOK).                                              *)
(***************************************************************************)
EXTENDS SocketOperations, Socket_proofs

Places == {"pending", "ready", "running", "handling", "completing", "asking", "blocked", "asked"}

Errors == {"none", "failed", "bad_descriptor", "operation_aborted", "interrupted"}

Operations == [kind : {"receive", "send", "sync"}, call : Nat, sent : Nat, at : Places,
               error : Errors, packet : ((Endpoints \cup {DefaultEndpoint}) \X Datagrams) \cup {NoPacket}]

Completions == [call : Nat, kind : {"receive", "send", "sync"}, error : Errors,
                message : Seq(View) \cup {NoMessage}, endpoint : Endpoints \cup {DefaultEndpoint}]

(* What a shutdown looks like on Linux.                                    *)
ShutdownPacket == << DefaultEndpoint, EmptyDatagram >>

(* Once the Socket is gone, nothing waits in asio, and an operation whose  *)
(* lambda is yet to use the Socket is one of a call that was busy then.    *)
Orphaned(operation) ==
  /\ operation.kind # "sync"
  /\ operation.at # "pending"
  /\ (/\ operation.at \in {"ready", "running", "handling"}
      /\ operation.error = "none"
      /\ ~ IsLastSent(operation)) => operation.call \in busy

(* Where an operation can be, and what it has then.                        *)
OperationOK(operation) ==
  /\ operation \in Operations
  /\ operation.kind = "receive" => operation.at \in {"pending", "ready", "running", "handling", "completing"}
  /\ operation.kind = "send"    => operation.at \in {"pending", "ready", "running", "completing"}
  /\ operation.kind = "sync"    => operation.at \in {"asking", "blocked", "asked", "handling"}
  /\ operation.at = "handling" => operation.packet \in Packets /\ operation.error = "none"
  /\ operation.kind = "receive" /\ operation.at \in {"ready", "running"} /\ operation.error = "none" =>
        operation.packet \in Packets
  /\ operation.at = "asked" /\ operation.error = "none" =>
        operation.packet \in Packets \/ (operation.packet = ShutdownPacket /\ shut)
  /\ socket_ = "destroyed" => Orphaned(operation)

OperationsOK ==
  /\ operations \in Seq(Operations)
  /\ \A i \in DOMAIN operations : OperationOK(operations[i])

(* The operation that carries on its call: not one that has completed it.  *)
Live(operation) == operation.at # "completing"

(* Every call from 1 to n has one live operation among ops or one result   *)
(* in done.                                                                *)
CallsInv(ops, done, n) ==
  /\ \A i \in DOMAIN ops : ops[i].call \in 1 .. n
  /\ \A i, j \in DOMAIN ops : i # j /\ Live(ops[i]) /\ Live(ops[j]) => ops[i].call # ops[j].call
  /\ \A i \in DOMAIN ops, j \in DOMAIN done : Live(ops[i]) => ops[i].call # done[j].call
  /\ \A i \in DOMAIN done : done[i].call \in 1 .. n
  /\ \A i, j \in DOMAIN done : i # j => done[i].call # done[j].call
  /\ \A call \in 1 .. n : \/ \E i \in DOMAIN ops : ops[i].call = call /\ Live(ops[i])
                          \/ \E i \in DOMAIN done : done[i].call = call

(* The operations and their calls are as they should be.                   *)
CarriedOn == OperationsOK /\ CallsInv(operations, completed, calls)

OperationsInv ==
  /\ SocketInv
  /\ inbox \in Seq(Packets)
  /\ calls \in Nat
  /\ completed \in Seq(Completions)
  /\ CarriedOn
  /\ OnlyBusyCallsMissTheSocket
  /\ NothingWithoutErrorMeansShutdown

-----------------------------------------------------------------------------
(* Sequences of operations.                                                *)

(* Where the j-th element was before the i-th was removed.                 *)
Before(i, j) == IF j < i THEN j ELSE j + 1

(* The elements of the second part of a concatenation.                     *)
LEMMA ConcatenationEndsWith ==
  ASSUME NEW S, NEW front \in Seq(S), NEW back \in Seq(S), NEW k \in 1 .. Len(back)
  PROVE  (front \o back)[Len(front) + k] = back[k]
<1>1. /\ Len(front) \in Nat /\ Len(back) \in Nat
      /\ Len(front) + k \in Len(front) + 1 .. Len(front) + Len(back)
      /\ (Len(front) + k) - Len(front) = k
  OBVIOUS
<1> DEFINE j == Len(front) + k
<1>2. (front \o back)[j] = back[j - Len(front)]
  <2>1. j \in Len(front) + 1 .. Len(front) + Len(back)
    BY <1>1
  <2> HIDE DEF j
  <2>2. QED BY <2>1
<1>3. QED BY <1>1, <1>2

(* RemoveAt keeps all elements but one, in their order.                    *)
LEMMA RemoveAtKeeps ==
  ASSUME NEW S, NEW s \in Seq(S), NEW i \in DOMAIN s
  PROVE  /\ RemoveAt(s, i) \in Seq(S)
         /\ DOMAIN RemoveAt(s, i) = 1 .. Len(s) - 1
         /\ Len(RemoveAt(s, i)) = Len(s) - 1
         /\ \A j \in 1 .. Len(s) - 1 : RemoveAt(s, i)[j] = s[Before(i, j)]
<1> DEFINE front == SubSeq(s, 1, i - 1)
           back  == SubSeq(s, i + 1, Len(s))
<1>1. i \in 1 .. Len(s) /\ Len(s) \in Nat
  OBVIOUS
<1>2. front \in Seq(S) /\ Len(front) = i - 1 /\ \A j \in 1 .. i - 1 : front[j] = s[j]
  BY <1>1
<1>3. back \in Seq(S) /\ Len(back) = Len(s) - i /\ \A j \in 1 .. Len(s) - i : back[j] = s[i + j]
  BY <1>1
<1> HIDE DEF front, back
<1>4. front \o back \in Seq(S) /\ Len(front \o back) = Len(s) - 1
  BY <1>1, <1>2, <1>3
<1>5. ASSUME NEW j \in 1 .. Len(s) - 1
      PROVE  (front \o back)[j] = s[Before(i, j)]
  <2>1. CASE j < i
    <3>1. j \in 1 .. Len(front) /\ j \in 1 .. i - 1
      BY <1>1, <1>2, <2>1
    <3>2. (front \o back)[j] = front[j]
      BY <1>2, <1>3, <3>1
    <3>3. QED BY <1>2, <2>1, <3>1, <3>2 DEF Before
  <2>2. CASE ~ (j < i)
    <3> DEFINE k == j - (i - 1)
    <3>1. /\ k \in 1 .. Len(s) - i
          /\ Len(front) + k = j
          /\ i + k = j + 1
      BY <1>1, <1>2, <2>2
    <3> HIDE DEF k
    <3>2. k \in 1 .. Len(back)
      BY <1>3, <3>1
    <3>3. (front \o back)[Len(front) + k] = back[k]
      BY <1>2, <1>3, <3>2, ConcatenationEndsWith
    <3>4. back[k] = s[i + k]
      BY <1>3, <3>1
    <3>5. Before(i, j) = j + 1
      BY <2>2 DEF Before
    <3>6. QED BY <3>1, <3>3, <3>4, <3>5
  <2>3. QED BY <2>1, <2>2
<1>6. RemoveAt(s, i) = front \o back
  BY DEF RemoveAt, front, back
<1>7. DOMAIN (front \o back) = 1 .. Len(s) - 1
  BY <1>1, <1>4
<1>8. QED BY <1>4, <1>5, <1>6, <1>7

(* Every index but the removed one has a place after the removal.          *)
LEMMA BeforeIsOntoTheRest ==
  ASSUME NEW n \in Nat, NEW i \in 1 .. n
  PROVE  /\ \A j \in 1 .. n - 1 : Before(i, j) \in 1 .. n /\ Before(i, j) # i
         /\ \A j, k \in 1 .. n - 1 : j # k => Before(i, j) # Before(i, k)
         /\ \A k \in 1 .. n : k # i => \E j \in 1 .. n - 1 : Before(i, j) = k
<1>1. ASSUME NEW k \in 1 .. n, k # i
      PROVE  \E j \in 1 .. n - 1 : Before(i, j) = k
  <2>1. CASE k < i
    <3>1. k \in 1 .. n - 1 /\ Before(i, k) = k
      BY <2>1 DEF Before
    <3>2. QED BY <3>1
  <2>2. CASE k > i
    <3>1. k - 1 \in 1 .. n - 1 /\ Before(i, k - 1) = k
      BY <2>2 DEF Before
    <3>2. QED BY <3>1
  <2>3. QED BY <1>1, <2>1, <2>2
<1>2. QED BY <1>1 DEF Before

(* What is left after a removal was there before.                          *)
LEMMA RemovedAreFromBefore ==
  ASSUME NEW S, NEW s \in Seq(S), NEW i \in DOMAIN s
  PROVE  /\ RemoveAt(s, i) \in Seq(S)
         /\ \A j \in DOMAIN RemoveAt(s, i) : \E k \in DOMAIN s : RemoveAt(s, i)[j] = s[k]
<1> DEFINE rest == RemoveAt(s, i)
           m    == Len(s)
<1>1. m \in Nat /\ DOMAIN s = 1 .. m /\ i \in 1 .. m
  OBVIOUS
<1>2. /\ rest \in Seq(S)
      /\ DOMAIN rest = 1 .. m - 1
      /\ \A j \in 1 .. m - 1 : rest[j] = s[Before(i, j)]
  BY RemoveAtKeeps
<1> HIDE DEF rest, m
<1>3. \A j \in 1 .. m - 1 : Before(i, j) \in 1 .. m
  BY <1>1, BeforeIsOntoTheRest
<1>4. rest \in Seq(S) /\ \A j \in DOMAIN rest : \E k \in DOMAIN s : rest[j] = s[k]
  BY <1>1, <1>2, <1>3
<1>5. QED BY <1>4 DEF rest

-----------------------------------------------------------------------------
(* Calls and their operations.                                             *)

(* Operations that move, or fail, carry on their calls.                    *)
LEMMA MovingKeepsCalls ==
  ASSUME NEW ops, NEW done, NEW n, CallsInv(ops, done, n),
         NEW ops2, DOMAIN ops2 = DOMAIN ops,
         \A i \in DOMAIN ops : ops2[i].call = ops[i].call /\ (Live(ops2[i]) <=> Live(ops[i]))
  PROVE  CallsInv(ops2, done, n)
BY DEF CallsInv

(* A new call has a number and an operation of its own.                    *)
LEMMA StartingKeepsCalls ==
  ASSUME NEW ops \in Seq(Operations), NEW done, NEW n \in Nat, CallsInv(ops, done, n),
         NEW operation \in Operations, operation.call = n + 1, Live(operation)
  PROVE  CallsInv(Append(ops, operation), done, n + 1)
<1> DEFINE ops2 == Append(ops, operation)
<1>1. /\ DOMAIN ops2 = DOMAIN ops \cup {Len(ops) + 1}
      /\ Len(ops) + 1 \notin DOMAIN ops
      /\ ops2[Len(ops) + 1] = operation
      /\ \A i \in DOMAIN ops : ops2[i] = ops[i]
  OBVIOUS
<1> HIDE DEF ops2
<1>2. /\ \A i \in DOMAIN ops : ops[i].call \in 1 .. n
      /\ \A i \in DOMAIN done : done[i].call \in 1 .. n
  BY DEF CallsInv
<1>3. \A call \in 1 .. n + 1 : call \in 1 .. n \/ call = n + 1
  OBVIOUS
<1>4. n + 1 \notin 1 .. n /\ 1 .. n \subseteq 1 .. n + 1
  OBVIOUS
<1>5. CallsInv(ops2, done, n + 1)
  BY <1>1, <1>2, <1>3, <1>4 DEF CallsInv
<1>6. QED BY <1>5 DEF ops2

(* The result of a call takes the place of its operation.                  *)
LEMMA CompletingKeepsCalls ==
  ASSUME NEW ops, NEW done \in Seq(Completions), NEW n, CallsInv(ops, done, n),
         NEW i \in DOMAIN ops, Live(ops[i]),
         NEW completion, completion.call = ops[i].call,
         NEW ops2, DOMAIN ops2 = DOMAIN ops, ~ Live(ops2[i]),
         \A j \in DOMAIN ops : /\ ops2[j].call = ops[j].call
                               /\ j # i => (Live(ops2[j]) <=> Live(ops[j]))
  PROVE  CallsInv(ops2, Append(done, completion), n)
<1> DEFINE done2 == Append(done, completion)
<1>1. /\ DOMAIN done2 = DOMAIN done \cup {Len(done) + 1}
      /\ Len(done) + 1 \notin DOMAIN done
      /\ done2[Len(done) + 1] = completion
      /\ \A j \in DOMAIN done : done2[j] = done[j]
  OBVIOUS
<1> HIDE DEF done2
<1>2. CallsInv(ops2, done2, n)
  BY <1>1 DEF CallsInv
<1>3. QED BY <1>2 DEF done2

(* A completed operation can go.                                           *)
LEMMA RemovingKeepsCalls ==
  ASSUME NEW ops \in Seq(Operations), NEW done, NEW n, CallsInv(ops, done, n),
         NEW i \in DOMAIN ops, ~ Live(ops[i])
  PROVE  CallsInv(RemoveAt(ops, i), done, n)
<1> DEFINE ops2 == RemoveAt(ops, i)
<1>1. Len(ops) \in Nat /\ DOMAIN ops = 1 .. Len(ops) /\ i \in 1 .. Len(ops)
  OBVIOUS
<1>2. /\ DOMAIN ops2 = 1 .. Len(ops) - 1
      /\ \A j \in 1 .. Len(ops) - 1 : ops2[j] = ops[Before(i, j)]
  BY RemoveAtKeeps
<1> HIDE DEF ops2
<1> DEFINE m == Len(ops)
<1>3. /\ \A j \in 1 .. m - 1 : Before(i, j) \in 1 .. m /\ Before(i, j) # i
      /\ \A j, k \in 1 .. m - 1 : j # k => Before(i, j) # Before(i, k)
      /\ \A k \in 1 .. m : k # i => \E j \in 1 .. m - 1 : Before(i, j) = k
  <2>1. m \in Nat /\ i \in 1 .. m
    BY <1>1
  <2> HIDE DEF m
  <2>2. QED BY <2>1, BeforeIsOntoTheRest
<1>4. /\ \A j \in DOMAIN ops2 : Before(i, j) \in DOMAIN ops /\ Before(i, j) # i
      /\ \A j, k \in DOMAIN ops2 : j # k => Before(i, j) # Before(i, k)
      /\ \A k \in DOMAIN ops : k # i => \E j \in DOMAIN ops2 : Before(i, j) = k
  BY <1>1, <1>2, <1>3
<1>5. \A j \in DOMAIN ops2 : ops2[j] = ops[Before(i, j)]
  BY <1>2
<1>6. \A j \in DOMAIN ops2 : ops2[j].call \in 1 .. n
  BY <1>4, <1>5 DEF CallsInv
<1>7. \A j, k \in DOMAIN ops2 :
         j # k /\ Live(ops2[j]) /\ Live(ops2[k]) => ops2[j].call # ops2[k].call
  <2> TAKE j, k \in DOMAIN ops2
  <2>1. /\ ops2[j] = ops[Before(i, j)] /\ Before(i, j) \in DOMAIN ops
        /\ ops2[k] = ops[Before(i, k)] /\ Before(i, k) \in DOMAIN ops
        /\ j # k => Before(i, j) # Before(i, k)
    BY <1>4, <1>5
  <2>2. QED BY <2>1 DEF CallsInv
<1>8. \A j \in DOMAIN ops2, k \in DOMAIN done : Live(ops2[j]) => ops2[j].call # done[k].call
  BY <1>4, <1>5 DEF CallsInv
<1>9. ASSUME NEW call \in 1 .. n
      PROVE  \/ \E j \in DOMAIN ops2 : ops2[j].call = call /\ Live(ops2[j])
             \/ \E k \in DOMAIN done : done[k].call = call
  <2>1. CASE \E k \in DOMAIN ops : ops[k].call = call /\ Live(ops[k])
    <3>1. PICK k \in DOMAIN ops : ops[k].call = call /\ Live(ops[k])
      BY <2>1
    <3>2. PICK j \in DOMAIN ops2 : Before(i, j) = k
      BY <1>4, <3>1
    <3>3. ops2[j].call = call /\ Live(ops2[j])
      BY <1>5, <3>1, <3>2
    <3>4. QED BY <3>3
  <2>2. QED BY <2>1 DEF CallsInv
<1>10. CallsInv(ops2, done, n)
  BY <1>6, <1>7, <1>8, <1>9 DEF CallsInv
<1>11. QED BY <1>10 DEF ops2

(* An operation can be carried on by another one.                          *)
LEMMA ReplacingKeepsCalls ==
  ASSUME NEW ops \in Seq(Operations), NEW done, NEW n, CallsInv(ops, done, n),
         NEW i \in DOMAIN ops, Live(ops[i]),
         NEW operation \in Operations, operation.call = ops[i].call, Live(operation)
  PROVE  CallsInv(Append(RemoveAt(ops, i), operation), done, n)
<1> DEFINE rest == RemoveAt(ops, i)
           ops2 == Append(rest, operation)
           m    == Len(ops)
           b(j) == IF j = m THEN i ELSE Before(i, j)
<1>1. m \in Nat /\ DOMAIN ops = 1 .. m /\ i \in 1 .. m
  OBVIOUS
<1>2. /\ rest \in Seq(Operations) /\ Len(rest) = m - 1
      /\ \A j \in 1 .. m - 1 : rest[j] = ops[Before(i, j)]
  BY RemoveAtKeeps
<1> HIDE DEF rest
<1>3. /\ DOMAIN ops2 = 1 .. m
      /\ ops2[m] = operation
      /\ \A j \in 1 .. m : j # m => ops2[j] = rest[j] /\ j \in 1 .. m - 1
  <2> DEFINE l == Len(rest)
  <2>1. /\ l \in Nat
        /\ DOMAIN ops2 = 1 .. l + 1
        /\ ops2[l + 1] = operation
        /\ \A j \in 1 .. l : ops2[j] = rest[j]
    BY <1>2
  <2>2. l + 1 = m
    BY <1>1, <1>2
  <2> HIDE DEF ops2, l, m
  <2>3. \A j \in 1 .. m : j # m => j \in 1 .. l
    BY <1>1, <2>1, <2>2
  <2>4. \A j \in 1 .. m : j # m => j \in 1 .. m - 1
    BY <1>1
  <2>5. QED BY <2>1, <2>2, <2>3, <2>4
<1> HIDE DEF ops2, m
<1>4. /\ \A j \in 1 .. m - 1 : Before(i, j) \in 1 .. m /\ Before(i, j) # i
      /\ \A j, k \in 1 .. m - 1 : j # k => Before(i, j) # Before(i, k)
      /\ \A k \in 1 .. m : k # i => \E j \in 1 .. m - 1 : Before(i, j) = k
  BY <1>1, BeforeIsOntoTheRest
<1>5. /\ \A j \in DOMAIN ops2 : b(j) \in DOMAIN ops
      /\ \A j, k \in DOMAIN ops2 : j # k => b(j) # b(k)
  BY <1>1, <1>3, <1>4
<1>6. \A k \in DOMAIN ops : \E j \in DOMAIN ops2 : b(j) = k
  <2> TAKE k \in DOMAIN ops
  <2>1. CASE k = i
    <3>1. m \in DOMAIN ops2
      BY <1>1, <1>3
    <3>2. QED BY <2>1, <3>1
  <2>2. CASE k # i
    <3>1. PICK j \in 1 .. m - 1 : Before(i, j) = k
      BY <1>1, <1>4, <2>2
    <3>2. j \in 1 .. m /\ j # m
      BY <1>1
    <3>3. QED BY <1>3, <3>1, <3>2
  <2>3. QED BY <2>1, <2>2
<1>7. \A j \in DOMAIN ops2 : ops2[j].call = ops[b(j)].call /\ (Live(ops2[j]) <=> Live(ops[b(j)]))
  BY <1>2, <1>3
<1> HIDE DEF b
<1>8. \A j \in DOMAIN ops2 : ops2[j].call \in 1 .. n
  BY <1>5, <1>7 DEF CallsInv
<1>9. \A j, k \in DOMAIN ops2 :
         j # k /\ Live(ops2[j]) /\ Live(ops2[k]) => ops2[j].call # ops2[k].call
  <2> TAKE j, k \in DOMAIN ops2
  <2>1. b(j) \in DOMAIN ops /\ b(k) \in DOMAIN ops /\ (j # k => b(j) # b(k))
    BY <1>5
  <2>2. QED BY <1>7, <2>1 DEF CallsInv
<1>10. \A j \in DOMAIN ops2, k \in DOMAIN done : Live(ops2[j]) => ops2[j].call # done[k].call
  BY <1>5, <1>7 DEF CallsInv
<1>11. ASSUME NEW call \in 1 .. n
       PROVE  \/ \E j \in DOMAIN ops2 : ops2[j].call = call /\ Live(ops2[j])
              \/ \E k \in DOMAIN done : done[k].call = call
  <2>1. CASE \E k \in DOMAIN ops : ops[k].call = call /\ Live(ops[k])
    <3>1. PICK k \in DOMAIN ops : ops[k].call = call /\ Live(ops[k])
      BY <2>1
    <3>2. PICK j \in DOMAIN ops2 : b(j) = k
      BY <1>6, <3>1
    <3>3. ops2[j].call = call /\ Live(ops2[j])
      BY <1>7, <3>1, <3>2
    <3>4. QED BY <3>3
  <2>2. QED BY <2>1 DEF CallsInv
<1>12. CallsInv(ops2, done, n)
  BY <1>8, <1>9, <1>10, <1>11 DEF CallsInv
<1>13. QED BY <1>12 DEF ops2, rest

-----------------------------------------------------------------------------
(* What the steps do to the operations and the results.                    *)

(* An operation changes, and its call goes on.                             *)
LEMMA OperationMoves ==
  ASSUME CarriedOn, UNCHANGED << shut, socket_, busy, calls, completed >>,
         NEW i \in DOMAIN operations, NEW operation, OperationOK(operation),
         operation.call = operations[i].call, Live(operation) <=> Live(operations[i]),
         operations' = [operations EXCEPT ![i] = operation]
  PROVE  CarriedOn'
<1>1. operations \in Seq(Operations) /\ operation \in Operations
  BY DEF CarriedOn, OperationsOK, OperationOK
<1>2. /\ operations' \in Seq(Operations)
      /\ DOMAIN operations' = DOMAIN operations
      /\ operations'[i] = operation
      /\ \A j \in DOMAIN operations : j # i => operations'[j] = operations[j]
  BY <1>1
<1>3. OperationsOK'
  BY <1>2 DEF CarriedOn, OperationsOK, OperationOK, Orphaned
<1>4. CallsInv(operations', completed, calls)
  BY <1>2, MovingKeepsCalls DEF CarriedOn
<1>5. QED BY <1>3, <1>4 DEF CarriedOn, CallsInv

(* The call of an operation completes; its handler will return.            *)
LEMMA OperationCompletes ==
  ASSUME CarriedOn, completed \in Seq(Completions), UNCHANGED << shut, socket_, busy, calls >>,
         NEW i \in DOMAIN operations, Live(operations[i]),
         NEW operation, OperationOK(operation),
         operation.call = operations[i].call, ~ Live(operation),
         operations' = [operations EXCEPT ![i] = operation],
         NEW completion, completion.call = operations[i].call,
         completed' = Append(completed, completion)
  PROVE  CarriedOn'
<1>1. operations \in Seq(Operations) /\ operation \in Operations
  BY DEF CarriedOn, OperationsOK, OperationOK
<1>2. /\ operations' \in Seq(Operations)
      /\ DOMAIN operations' = DOMAIN operations
      /\ operations'[i] = operation
      /\ \A j \in DOMAIN operations : j # i => operations'[j] = operations[j]
  BY <1>1
<1>3. OperationsOK'
  BY <1>2 DEF CarriedOn, OperationsOK, OperationOK, Orphaned
<1>4. CallsInv(operations', Append(completed, completion), calls)
  BY <1>2, CompletingKeepsCalls DEF CarriedOn
<1>5. QED BY <1>3, <1>4 DEF CarriedOn, CallsInv

(* An operation that has completed its call goes.                          *)
LEMMA OperationGoes ==
  ASSUME CarriedOn, UNCHANGED << shut, socket_, busy, calls, completed >>,
         NEW i \in DOMAIN operations, ~ Live(operations[i]),
         operations' = RemoveAt(operations, i)
  PROVE  CarriedOn'
<1>1. operations \in Seq(Operations)
  BY DEF CarriedOn, OperationsOK
<1>2. operations' \in Seq(Operations) /\ \A j \in DOMAIN operations' : \E k \in DOMAIN operations : operations'[j] = operations[k]
  BY <1>1, RemovedAreFromBefore
<1>3. OperationsOK'
  BY <1>2 DEF CarriedOn, OperationsOK, OperationOK, Orphaned
<1>4. CallsInv(operations', completed, calls)
  BY <1>1, RemovingKeepsCalls DEF CarriedOn
<1>5. QED BY <1>3, <1>4 DEF CarriedOn, CallsInv

(* receive_from returns: its operation goes as its result comes.           *)
LEMMA OperationReturns ==
  ASSUME CarriedOn, completed \in Seq(Completions), UNCHANGED << shut, socket_, busy, calls >>,
         NEW i \in DOMAIN operations, Live(operations[i]),
         operations' = RemoveAt(operations, i),
         NEW completion, completion.call = operations[i].call,
         completed' = Append(completed, completion)
  PROVE  CarriedOn'
<1> DEFINE done  == [operations[i] EXCEPT !.at = "completing"]
           after == [operations EXCEPT ![i] = done]
           m     == Len(operations)
<1>1. operations \in Seq(Operations) /\ operations[i] \in Operations
  BY DEF CarriedOn, OperationsOK
<1>2. done \in Operations /\ done.call = operations[i].call /\ ~ Live(done)
  BY <1>1 DEF Operations, Places, Live
<1> HIDE DEF done
<1>3. /\ after \in Seq(Operations)
      /\ DOMAIN after = DOMAIN operations
      /\ Len(after) = m
      /\ after[i] = done
      /\ \A j \in DOMAIN operations : j # i => after[j] = operations[j]
  BY <1>1, <1>2
<1> HIDE DEF after
<1>4. CallsInv(after, Append(completed, completion), calls)
  BY <1>2, <1>3, CompletingKeepsCalls DEF CarriedOn
<1>5. CallsInv(RemoveAt(after, i), Append(completed, completion), calls)
  BY <1>2, <1>3, <1>4, RemovingKeepsCalls
<1>6. /\ DOMAIN RemoveAt(after, i) = DOMAIN operations'
      /\ \A j \in DOMAIN operations' : RemoveAt(after, i)[j] = operations'[j]
  <2>1. m \in Nat /\ DOMAIN operations = 1 .. m /\ i \in 1 .. m
    BY <1>1
  <2>2. /\ DOMAIN operations' = 1 .. m - 1
        /\ \A j \in 1 .. m - 1 : operations'[j] = operations[Before(i, j)]
    BY <1>1, RemoveAtKeeps
  <2>3. /\ DOMAIN RemoveAt(after, i) = 1 .. m - 1
        /\ \A j \in 1 .. m - 1 : RemoveAt(after, i)[j] = after[Before(i, j)]
    <3>1. /\ DOMAIN RemoveAt(after, i) = 1 .. Len(after) - 1
          /\ \A j \in 1 .. Len(after) - 1 : RemoveAt(after, i)[j] = after[Before(i, j)]
      BY <1>3, RemoveAtKeeps
    <3>2. QED BY <1>3, <3>1
  <2> HIDE DEF m
  <2>4. \A j \in 1 .. m - 1 : Before(i, j) \in 1 .. m /\ Before(i, j) # i
    BY <2>1, BeforeIsOntoTheRest
  <2>5. QED BY <1>3, <2>1, <2>2, <2>3, <2>4
<1>7. CallsInv(operations', Append(completed, completion), calls)
  BY <1>5, <1>6, MovingKeepsCalls
<1>8. operations' \in Seq(Operations) /\ \A j \in DOMAIN operations' : \E k \in DOMAIN operations : operations'[j] = operations[k]
  BY <1>1, RemovedAreFromBefore
<1>9. OperationsOK'
  BY <1>8 DEF CarriedOn, OperationsOK, OperationOK, Orphaned
<1>10. QED BY <1>7, <1>9 DEF CarriedOn, CallsInv

(* The next operation of a call takes the place of the one before.         *)
LEMMA OperationIsReplaced ==
  ASSUME CarriedOn, UNCHANGED << shut, socket_, busy, calls, completed >>,
         NEW i \in DOMAIN operations, Live(operations[i]),
         NEW operation, OperationOK(operation),
         operation.call = operations[i].call, Live(operation),
         operations' = Replaced(i, operation)
  PROVE  CarriedOn'
<1> DEFINE rest == RemoveAt(operations, i)
<1>1. operations \in Seq(Operations) /\ operation \in Operations
  BY DEF CarriedOn, OperationsOK, OperationOK
<1>2. CallsInv(Append(rest, operation), completed, calls)
  BY <1>1, ReplacingKeepsCalls DEF CarriedOn
<1>3. rest \in Seq(Operations) /\ \A j \in DOMAIN rest : \E k \in DOMAIN operations : rest[j] = operations[k]
  BY <1>1, RemovedAreFromBefore
<1>4. operations' = Append(rest, operation)
  BY DEF Replaced
<1> HIDE DEF rest
<1>5. /\ operations' \in Seq(Operations)
      /\ \A j \in DOMAIN operations' : \/ operations'[j] = operation
                                       \/ \E k \in DOMAIN rest : operations'[j] = rest[k]
  BY <1>1, <1>3, <1>4
<1>6. \A j \in DOMAIN operations' : \/ operations'[j] = operation
                                    \/ \E k \in DOMAIN operations : operations'[j] = operations[k]
  BY <1>3, <1>5
<1>7. OperationsOK'
  BY <1>5, <1>6 DEF CarriedOn, OperationsOK, OperationOK, Orphaned
<1>8. QED BY <1>2, <1>4, <1>7 DEF CarriedOn, CallsInv

(* A call starts.                                                          *)
LEMMA OperationStarts ==
  ASSUME CarriedOn, calls \in Nat, UNCHANGED << shut, socket_, busy, completed >>,
         NEW operation, OperationOK(operation),
         operation.call = calls + 1, Live(operation),
         calls' = calls + 1,
         operations' = Append(operations, operation)
  PROVE  CarriedOn'
<1>1. operations \in Seq(Operations) /\ operation \in Operations
  BY DEF CarriedOn, OperationsOK, OperationOK
<1>2. CallsInv(Append(operations, operation), completed, calls + 1)
  BY <1>1, StartingKeepsCalls DEF CarriedOn
<1>3. /\ operations' \in Seq(Operations)
      /\ \A j \in DOMAIN operations' : \/ operations'[j] = operation
                                       \/ \E k \in DOMAIN operations : operations'[j] = operations[k]
  BY <1>1
<1>4. OperationsOK'
  BY <1>3 DEF CarriedOn, OperationsOK, OperationOK, Orphaned
<1>5. QED BY <1>2, <1>4 DEF CarriedOn, CallsInv

(* All operations may change at once, as they end with errors.             *)
LEMMA OperationsFail ==
  ASSUME CarriedOn, UNCHANGED << calls, completed >>,
         operations' \in Seq(Operations),
         DOMAIN operations' = DOMAIN operations,
         \A i \in DOMAIN operations :
            /\ OperationOK(operations[i])'
            /\ operations'[i].call = operations[i].call
            /\ Live(operations'[i]) <=> Live(operations[i])
  PROVE  CarriedOn'
<1>1. OperationsOK'
  BY DEF OperationsOK
<1>2. CallsInv(operations', completed, calls)
  BY MovingKeepsCalls DEF CarriedOn
<1>3. QED BY <1>1, <1>2 DEF CarriedOn, CallsInv

-----------------------------------------------------------------------------
(* The invariant, step by step.                                            *)

(* What an asynchronous operation starts as, whether or not the socket is  *)
(* still open.                                                             *)
LEMMA AsioOperationIsOK ==
  ASSUME NEW kind \in {"receive", "send"}, NEW call \in Nat, NEW sent \in Nat
  PROVE  /\ OperationOK(AsioOperation(kind, call, sent))
         /\ AsioOperation(kind, call, sent).call = call
         /\ Live(AsioOperation(kind, call, sent))
<1>1. CASE socket_ = "open"
  <2> DEFINE operation == Operation(kind, call, sent)
  <2>1. /\ operation \in Operations
        /\ operation.kind = kind /\ operation.call = call /\ operation.at = "pending"
    BY DEF Operation, Operations, Places, Errors
  <2>2. AsioOperation(kind, call, sent) = operation
    BY <1>1 DEF AsioOperation
  <2> HIDE DEF operation
  <2>3. QED BY <1>1, <2>1, <2>2 DEF OperationOK, Live
<1>2. CASE socket_ # "open"
  <2> DEFINE operation == [Operation(kind, call, sent) EXCEPT !.at = "ready", !.error = "bad_descriptor"]
  <2>1. /\ operation \in Operations
        /\ operation.kind = kind /\ operation.call = call
        /\ operation.at = "ready" /\ operation.error = "bad_descriptor"
    BY DEF Operation, Operations, Places, Errors
  <2>2. AsioOperation(kind, call, sent) = operation
    BY <1>2 DEF AsioOperation
  <2> HIDE DEF operation
  <2>3. QED BY <2>1, <2>2 DEF OperationOK, Orphaned, Live
<1>3. QED BY <1>1, <1>2

(* A result without a message keeps what is said of results, if it is      *)
(* not receive_from's or has an error, or the Socket was shut down.        *)
LEMMA ResultIsFine ==
  ASSUME OperationsInv, NEW operation \in Operations, NEW error \in Errors,
         Completes(operation, error), UNCHANGED shut,
         operation.kind # "sync" \/ error # "none" \/ shut
  PROVE  /\ completed' \in Seq(Completions)
         /\ NothingWithoutErrorMeansShutdown'
         /\ Completion(operation, error, NoMessage, DefaultEndpoint).call = operation.call
         /\ completed' = Append(completed, Completion(operation, error, NoMessage, DefaultEndpoint))
<1> DEFINE completion == Completion(operation, error, NoMessage, DefaultEndpoint)
<1>1. /\ completion \in Completions
      /\ completion.call = operation.call
      /\ completion.kind = operation.kind /\ completion.error = error
  BY DEF Completion, Completions, Errors, Operations
<1>2. completed' = Append(completed, completion)
  BY DEF Completes
<1> HIDE DEF completion
<1>3. completed \in Seq(Completions)
  BY DEF OperationsInv
<1>4. /\ completed' \in Seq(Completions)
      /\ \A j \in DOMAIN completed' : \/ completed'[j] = completion
                                      \/ j \in DOMAIN completed /\ completed'[j] = completed[j]
  BY <1>1, <1>2, <1>3
<1>5. NothingWithoutErrorMeansShutdown'
  BY <1>1, <1>4 DEF OperationsInv, NothingWithoutErrorMeansShutdown
<1>6. QED BY <1>1, <1>2, <1>4, <1>5 DEF completion

(* So does a result with a message.                                        *)
LEMMA MessageIsFine ==
  ASSUME OperationsInv, SocketInv', NEW operation \in Operations, operation.packet \in Packets,
         returned'.message # NoMessage, CompletesWithMessage(operation), UNCHANGED shut
  PROVE  /\ completed' \in Seq(Completions)
         /\ NothingWithoutErrorMeansShutdown'
         /\ Completion(operation, "none", returned'.message, operation.packet[1]).call = operation.call
         /\ completed' = Append(completed, Completion(operation, "none", returned'.message, operation.packet[1]))
<1> DEFINE completion == Completion(operation, "none", returned'.message, operation.packet[1])
<1>1. operation.packet[1] \in Endpoints
  BY OperationsAssumption
<1>2. returned'.message \in Seq(View) \cup {NoMessage}
  BY DEF SocketInv, StateInv, ReturnedOK
<1>3. /\ completion \in Completions
      /\ completion.call = operation.call
      /\ completion.message # NoMessage
  <2> DEFINE message  == returned'.message
             endpoint == operation.packet[1]
  <2>1. message \in Seq(View) \cup {NoMessage} /\ message # NoMessage
    BY <1>2
  <2>2. endpoint \in Endpoints \cup {DefaultEndpoint}
    BY <1>1
  <2>3. operation.call \in Nat /\ operation.kind \in {"receive", "send", "sync"}
    BY DEF Operations
  <2> HIDE DEF message, endpoint
  <2>4. /\ Completion(operation, "none", message, endpoint) \in Completions
        /\ Completion(operation, "none", message, endpoint).call = operation.call
        /\ Completion(operation, "none", message, endpoint).message = message
    BY <2>1, <2>2, <2>3 DEF Completion, Completions, Errors
  <2>5. QED BY <2>1, <2>4 DEF message, endpoint
<1>4. completed' = Append(completed, completion)
  BY DEF CompletesWithMessage
<1> HIDE DEF completion
<1>5. completed \in Seq(Completions)
  BY DEF OperationsInv
<1>6. /\ completed' \in Seq(Completions)
      /\ \A j \in DOMAIN completed' : \/ completed'[j] = completion
                                      \/ j \in DOMAIN completed /\ completed'[j] = completed[j]
  BY <1>3, <1>4, <1>5
<1>7. NothingWithoutErrorMeansShutdown'
  BY <1>3, <1>6 DEF OperationsInv, NothingWithoutErrorMeansShutdown
<1>8. QED BY <1>3, <1>4, <1>6, <1>7 DEF completion

(* The Socket's own members stay as they are.                              *)
LEMMA SocketStays ==
  ASSUME OperationsInv, UNCHANGED socketVars
  PROVE  SocketInv'
BY SocketInvNext DEF OperationsInv

(* A datagram that an operation has taken is one that handle_datagram may  *)
(* be given.                                                               *)
LEMMA SocketHandles ==
  ASSUME OperationsInv, NEW operation, operation.packet \in Packets,
         handle_datagram(operation.packet[1], operation.packet[2])
  PROVE  SocketInv'
<1>1. operation.packet[1] \in Endpoints /\ operation.packet[2] \in Datagrams
  BY OperationsAssumption
<1>2. QED BY <1>1, HandledInv DEF OperationsInv

(* Most steps concern one operation, and leave the socket and its Socket   *)
(* alone.                                                                  *)
LEMMA OnlyOperationsChange ==
  ASSUME OperationsInv, Sound, UNCHANGED << socketVars, shut, calls, completed, missed >>,
         inbox' \in Seq(Packets), CarriedOn'
  PROVE  OperationsInv'
BY SocketStays DEF OperationsInv, Sound, OnlyBusyCallsMissTheSocket, NothingWithoutErrorMeansShutdown

(* The steps of the lambdas but for the end of handle_datagram.            *)
LEMMA LambdaKeepsInv ==
  ASSUME OperationsInv, NEW i \in DOMAIN operations,
         \/ IoThreadTakes(i)
         \/ lambda_misses_socket(i)
         \/ lambda_fails(i)
         \/ lambda_sends_next(i)
         \/ lambda_begins_to_handle(i)
         \/ handler_returns(i)
  PROVE  OperationsInv'
<1> DEFINE operation == operations[i]
<1>1. operations \in Seq(Operations) /\ operation \in Operations /\ OperationOK(operation) /\ CarriedOn
  BY DEF OperationsInv, CarriedOn, OperationsOK
<1>2. inbox \in Seq(Packets) /\ completed \in Seq(Completions)
  BY DEF OperationsInv
<1>3. CASE IoThreadTakes(i)
  <2> DEFINE next == [operation EXCEPT !.at = "running"]
  <2>1. OperationOK(next) /\ next.call = operation.call /\ (Live(next) <=> Live(operation))
    BY <1>1, <1>3 DEF IoThreadTakes, OperationOK, Orphaned, IsLastSent, Operations, Places, Live
  <2>2. operations' = [operations EXCEPT ![i] = next]
    BY <1>3 DEF IoThreadTakes, Moved
  <2>3. CarriedOn'
    BY <1>1, <1>3, <2>1, <2>2, OperationMoves DEF IoThreadTakes, osVars
  <2>4. QED BY <1>2, <1>3, <2>3, OnlyOperationsChange DEF IoThreadTakes, osVars
<1>4. CASE lambda_misses_socket(i)
  <2>1. operation.call \in busy
    BY <1>1, <1>4 DEF lambda_misses_socket, Misses, LambdaUsesSocket, OperationOK, Orphaned
  <2>2. SocketInv'
    BY <1>4, SocketStays DEF lambda_misses_socket
  <2>3. CarriedOn'
    BY <1>1, <1>4 DEF lambda_misses_socket, osVars, CarriedOn, CallsInv, OperationsOK, OperationOK, Orphaned
  <2>4. QED BY <1>2, <1>4, <2>1, <2>2, <2>3
            DEF lambda_misses_socket, osVars, OperationsInv, OnlyBusyCallsMissTheSocket, NothingWithoutErrorMeansShutdown
<1>5. CASE lambda_fails(i)
  <2> DEFINE next == [operation EXCEPT !.at = "completing"]
  <2>1. /\ OperationOK(next) /\ next.call = operation.call
        /\ Live(operation) /\ ~ Live(next)
        /\ operation.kind # "sync" /\ operation.error \in Errors
    BY <1>1, <1>5 DEF lambda_fails, OperationOK, Orphaned, Operations, Places, Live
  <2>2. operations' = [operations EXCEPT ![i] = next]
    BY <1>5 DEF lambda_fails, Moved
  <2>3. Completes(operation, operation.error) /\ UNCHANGED << shut, socket_, busy, calls, inbox, missed, socketVars >>
    BY <1>5 DEF lambda_fails, osVars
  <2> HIDE DEF next
  <2>4. CarriedOn' /\ completed' \in Seq(Completions) /\ NothingWithoutErrorMeansShutdown'
    <3> DEFINE completion == Completion(operation, operation.error, NoMessage, DefaultEndpoint)
    <3>1. /\ completed' \in Seq(Completions) /\ NothingWithoutErrorMeansShutdown'
          /\ completion.call = operation.call /\ completed' = Append(completed, completion)
      BY <1>1, <2>1, <2>3, ResultIsFine
    <3> HIDE DEF completion
    <3>2. CarriedOn'
      BY <1>1, <1>2, <2>1, <2>2, <2>3, <3>1, OperationCompletes
    <3>3. QED BY <3>1, <3>2
  <2>5. QED BY <1>2, <2>3, <2>4, SocketStays DEF OperationsInv, OnlyBusyCallsMissTheSocket
<1>6. CASE lambda_sends_next(i)
  <2> DEFINE sent == operation.sent + 1
             next == [operation EXCEPT !.at = "completing", !.sent = sent]
             more == AsioOperation("send", operation.call, sent)
  <2>1. /\ operation.at = "running" /\ operation.kind = "send" /\ operation.error = "none"
        /\ Live(operation) /\ operation.call \in Nat /\ sent \in Nat
    BY <1>1, <1>6 DEF lambda_sends_next, Operations, Live
  <2>2. Sound /\ UNCHANGED << shut, socket_, busy, calls, inbox, missed, socketVars >>
    BY <1>6 DEF lambda_sends_next, osVars
  <2>3. CASE AllSent(sent)
    <3>1. OperationOK(next) /\ next.call = operation.call /\ ~ Live(next)
      BY <1>1, <2>1 DEF OperationOK, Orphaned, Operations, Places, Live
    <3>2. Completes(operation, "none") /\ operations' = [Moved(i, "completing") EXCEPT ![i].sent = sent]
      BY <1>6, <2>3 DEF lambda_sends_next
    <3>3. operations' = [operations EXCEPT ![i] = next]
      BY <1>1, <3>2 DEF Moved
    <3> HIDE DEF next
    <3> DEFINE completion == Completion(operation, "none", NoMessage, DefaultEndpoint)
    <3>4. /\ completed' \in Seq(Completions) /\ NothingWithoutErrorMeansShutdown'
          /\ completion.call = operation.call /\ completed' = Append(completed, completion)
      BY <1>1, <2>1, <2>2, <3>2, ResultIsFine DEF Errors
    <3> HIDE DEF completion
    <3>5. CarriedOn'
      BY <1>1, <1>2, <2>1, <2>2, <3>1, <3>3, <3>4, OperationCompletes
    <3>6. QED BY <1>2, <2>2, <3>4, <3>5, SocketStays DEF OperationsInv, OnlyBusyCallsMissTheSocket
  <2>4. CASE ~ AllSent(sent)
    <3>1. OperationOK(more) /\ more.call = operation.call /\ Live(more)
      BY <2>1, AsioOperationIsOK
    <3>2. operations' = Replaced(i, more) /\ UNCHANGED completed
      BY <1>6, <2>4 DEF lambda_sends_next
    <3> HIDE DEF more
    <3>3. CarriedOn'
      BY <1>1, <2>1, <2>2, <3>1, <3>2, OperationIsReplaced
    <3>4. QED BY <1>2, <2>2, <3>2, <3>3, OnlyOperationsChange
  <2>5. QED BY <2>3, <2>4
<1>7. CASE lambda_begins_to_handle(i)
  <2> DEFINE next == [operation EXCEPT !.at = "handling"]
  <2>1. OperationOK(next) /\ next.call = operation.call /\ (Live(next) <=> Live(operation))
    BY <1>1, <1>7 DEF lambda_begins_to_handle, OperationOK, Orphaned, IsLastSent, Operations, Places, Live
  <2>2. operations' = [operations EXCEPT ![i] = next]
    BY <1>7 DEF lambda_begins_to_handle, Moved
  <2>3. CarriedOn'
    BY <1>1, <1>7, <2>1, <2>2, OperationMoves DEF lambda_begins_to_handle, osVars
  <2>4. QED BY <1>2, <1>7, <2>3, OnlyOperationsChange DEF lambda_begins_to_handle, osVars
<1>8. CASE handler_returns(i)
  <2>1. CarriedOn'
    BY <1>1, <1>8, OperationGoes DEF handler_returns, osVars, Live
  <2>2. QED BY <1>2, <1>8, <2>1, OnlyOperationsChange DEF handler_returns, osVars
<1>9. QED BY <1>3, <1>4, <1>5, <1>6, <1>7, <1>8

(* The end of handle_datagram in a lambda: the message, or the next        *)
(* datagram.                                                               *)
LEMMA HandlingKeepsInv ==
  ASSUME OperationsInv, NEW i \in DOMAIN operations, lambda_handles_datagram(i)
  PROVE  OperationsInv'
<1> DEFINE operation  == operations[i]
           next       == [operation EXCEPT !.at = "completing"]
           more       == AsioOperation("receive", operation.call, 0)
           completion == Completion(operation, "none", returned'.message, operation.packet[1])
<1>1. operations \in Seq(Operations) /\ operation \in Operations /\ OperationOK(operation) /\ CarriedOn
  BY DEF OperationsInv, CarriedOn, OperationsOK
<1>2. inbox \in Seq(Packets) /\ completed \in Seq(Completions)
  BY DEF OperationsInv
<1>3. Sound /\ UNCHANGED << shut, socket_, busy, calls, inbox, missed >>
  BY DEF lambda_handles_datagram, osVars
<1>4. /\ operation.at = "handling" /\ operation.kind = "receive" /\ Live(operation)
      /\ operation.packet \in Packets /\ operation.call \in Nat
  BY <1>1 DEF lambda_handles_datagram, OperationOK, Operations, Live
<1>5. SocketInv'
  BY <1>4, SocketHandles DEF lambda_handles_datagram
<1>6. CASE returned'.message # NoMessage
  <2>1. CompletesWithMessage(operation) /\ operations' = [operations EXCEPT ![i] = next]
    BY <1>6 DEF lambda_handles_datagram, Moved
  <2>2. OperationOK(next) /\ next.call = operation.call /\ ~ Live(next)
    BY <1>1, <1>4 DEF OperationOK, Orphaned, Operations, Places, Live
  <2>3. /\ completed' \in Seq(Completions) /\ NothingWithoutErrorMeansShutdown'
        /\ completion.call = operation.call /\ completed' = Append(completed, completion)
    BY <1>1, <1>3, <1>4, <1>5, <1>6, <2>1, MessageIsFine
  <2> HIDE DEF next, completion
  <2>4. CarriedOn'
    BY <1>1, <1>2, <1>3, <1>4, <2>1, <2>2, <2>3, OperationCompletes
  <2>5. QED BY <1>2, <1>3, <1>5, <2>3, <2>4 DEF OperationsInv, OnlyBusyCallsMissTheSocket
<1>7. CASE returned'.message = NoMessage
  <2>1. operations' = Replaced(i, more) /\ UNCHANGED completed
    BY <1>7 DEF lambda_handles_datagram
  <2>2. OperationOK(more) /\ more.call = operation.call /\ Live(more)
    BY <1>4, AsioOperationIsOK
  <2> HIDE DEF more
  <2>3. CarriedOn'
    BY <1>1, <1>3, <1>4, <2>1, <2>2, OperationIsReplaced
  <2>4. QED BY <1>2, <1>3, <1>5, <2>1, <2>3
            DEF OperationsInv, OnlyBusyCallsMissTheSocket, NothingWithoutErrorMeansShutdown
<1>8. QED BY <1>6, <1>7

(* receive_from.                                                           *)
LEMMA ReceiveFromKeepsInv ==
  ASSUME OperationsInv, NEW i \in DOMAIN operations, ReceiveFromStep(i)
  PROVE  OperationsInv'
<1> DEFINE operation == operations[i]
<1>1. operations \in Seq(Operations) /\ operation \in Operations /\ OperationOK(operation) /\ CarriedOn
  BY DEF OperationsInv, CarriedOn, OperationsOK
<1>2. inbox \in Seq(Packets) /\ completed \in Seq(Completions)
  BY DEF OperationsInv
<1>3. CASE Asks(i)
  <2> DEFINE next == IF socket_ = "open" THEN [operation EXCEPT !.at = "blocked"]
                     ELSE [operation EXCEPT !.at = "asked", !.error = "bad_descriptor"]
  <2>1. OperationOK(next) /\ next.call = operation.call /\ (Live(next) <=> Live(operation))
    BY <1>1, <1>3 DEF Asks, OperationOK, Orphaned, Operations, Places, Errors, Live
  <2>2. operations' = [operations EXCEPT ![i] = next]
    BY <1>1, <1>3 DEF Asks, Moved
  <2> HIDE DEF next
  <2>3. CarriedOn'
    BY <1>1, <1>3, <2>1, <2>2, OperationMoves DEF Asks, osVars
  <2>4. QED BY <1>2, <1>3, <2>3, OnlyOperationsChange DEF Asks, osVars
<1>4. CASE GetsPacket(i)
  <2> DEFINE packet == Head(inbox)
             next   == [operation EXCEPT !.at = "asked", !.packet = packet]
  <2>1. packet \in Packets /\ Tail(inbox) \in Seq(Packets)
    BY <1>2, <1>4 DEF GetsPacket
  <2>2. packet \in (Endpoints \cup {DefaultEndpoint}) \X Datagrams
    BY <2>1, OperationsAssumption
  <2>3. OperationOK(next) /\ next.call = operation.call /\ (Live(next) <=> Live(operation))
    <3> HIDE DEF packet
    <3>1. operation.at = "blocked" /\ operation.kind = "sync" /\ socket_ # "destroyed"
      BY <1>1, <1>4 DEF GetsPacket, OperationOK, Orphaned, Operations
    <3>2. /\ next \in Operations
          /\ next.at = "asked" /\ next.kind = "sync" /\ next.packet = packet
          /\ next.call = operation.call
      BY <1>1, <2>2, <3>1 DEF Operations, Places
    <3> HIDE DEF next
    <3>3. packet \in Packets
      BY <2>1
    <3>4. OperationOK(next)
      BY <3>1, <3>2, <3>3 DEF OperationOK
    <3>5. Live(next) /\ Live(operation)
      BY <3>1, <3>2 DEF Live
    <3>6. QED BY <3>2, <3>4, <3>5
  <2>4. operations' = [operations EXCEPT ![i] = next]
    BY <1>1, <1>4 DEF GetsPacket
  <2> HIDE DEF next
  <2>5. CarriedOn'
    BY <1>1, <1>4, <2>3, <2>4, OperationMoves DEF GetsPacket
  <2>6. QED BY <1>4, <2>1, <2>5, OnlyOperationsChange DEF GetsPacket
<1>5. CASE GetsNothing(i)
  <2> DEFINE next == [operation EXCEPT !.at = "asked", !.packet = ShutdownPacket]
  <2>1. ShutdownPacket \in {DefaultEndpoint} \X Datagrams
    BY OperationsAssumption DEF ShutdownPacket
  <2>2. OperationOK(next) /\ next.call = operation.call /\ (Live(next) <=> Live(operation))
    <3> HIDE DEF ShutdownPacket
    <3>1. ShutdownPacket \in (Endpoints \cup {DefaultEndpoint}) \X Datagrams
      BY <2>1
    <3>2. QED BY <1>1, <1>5, <3>1 DEF GetsNothing, OperationOK, Orphaned, Operations, Places, Live
  <2>3. operations' = [operations EXCEPT ![i] = next]
    BY <1>1, <1>5 DEF GetsNothing, ShutdownPacket
  <2> HIDE DEF next
  <2>4. CarriedOn'
    BY <1>1, <1>5, <2>2, <2>3, OperationMoves DEF GetsNothing, osVars
  <2>5. QED BY <1>2, <1>5, <2>4, OnlyOperationsChange DEF GetsNothing, osVars
<1>6. CASE receive_from_fails(i)
  <2>1. /\ Completes(operation, operation.error) /\ operations' = RemoveAt(operations, i)
        /\ Live(operation) /\ operation.error # "none" /\ operation.error \in Errors
        /\ UNCHANGED << shut, socket_, busy, calls, inbox, missed, socketVars >>
    BY <1>1, <1>6 DEF receive_from_fails, osVars, Live, Operations
  <2> DEFINE completion == Completion(operation, operation.error, NoMessage, DefaultEndpoint)
  <2>2. /\ completed' \in Seq(Completions) /\ NothingWithoutErrorMeansShutdown'
        /\ completion.call = operation.call /\ completed' = Append(completed, completion)
    BY <1>1, <2>1, ResultIsFine
  <2> HIDE DEF completion
  <2>3. CarriedOn'
    BY <1>1, <1>2, <2>1, <2>2, OperationReturns
  <2>4. QED BY <1>2, <2>1, <2>2, <2>3, SocketStays DEF OperationsInv, OnlyBusyCallsMissTheSocket
<1>7. CASE receive_from_was_shut_down(i)
  <2>1. /\ Completes(operation, "none") /\ operations' = RemoveAt(operations, i)
        /\ Live(operation) /\ "none" \in Errors
        /\ UNCHANGED << shut, socket_, busy, calls, inbox, missed, socketVars >>
    BY <1>7 DEF receive_from_was_shut_down, osVars, Live, Errors
  <2>2. shut
    <3>1. operation.packet \notin Packets
      BY <1>7, OperationsAssumption DEF receive_from_was_shut_down, WasShutDown
    <3>2. QED BY <1>1, <1>7, <3>1 DEF receive_from_was_shut_down, OperationOK
  <2> DEFINE completion == Completion(operation, "none", NoMessage, DefaultEndpoint)
  <2>3. /\ completed' \in Seq(Completions) /\ NothingWithoutErrorMeansShutdown'
        /\ completion.call = operation.call /\ completed' = Append(completed, completion)
    BY <1>1, <2>1, <2>2, ResultIsFine
  <2> HIDE DEF completion
  <2>4. CarriedOn'
    BY <1>1, <1>2, <2>1, <2>3, OperationReturns
  <2>5. QED BY <1>2, <2>1, <2>3, <2>4, SocketStays DEF OperationsInv, OnlyBusyCallsMissTheSocket
<1>8. CASE receive_from_begins_to_handle(i)
  <2> DEFINE next == [operation EXCEPT !.at = "handling"]
  <2>1. operation.packet \in Packets
    BY <1>1, <1>8, OperationsAssumption
       DEF receive_from_begins_to_handle, OperationOK, WasShutDown, ShutdownPacket
  <2>2. OperationOK(next) /\ next.call = operation.call /\ (Live(next) <=> Live(operation))
    BY <1>1, <1>8, <2>1 DEF receive_from_begins_to_handle, OperationOK, Orphaned, Operations, Places, Live
  <2>3. operations' = [operations EXCEPT ![i] = next]
    BY <1>8 DEF receive_from_begins_to_handle, Moved
  <2> HIDE DEF next
  <2>4. CarriedOn'
    BY <1>1, <1>8, <2>2, <2>3, OperationMoves DEF receive_from_begins_to_handle, osVars
  <2>5. QED BY <1>2, <1>8, <2>4, OnlyOperationsChange DEF receive_from_begins_to_handle, osVars
<1>9. CASE receive_from_handles_datagram(i)
  <2> DEFINE again      == [operation EXCEPT !.at = "asking", !.packet = NoPacket]
             completion == Completion(operation, "none", returned'.message, operation.packet[1])
  <2>1. Sound /\ UNCHANGED << shut, socket_, busy, calls, inbox, missed >>
    BY <1>9 DEF receive_from_handles_datagram, osVars
  <2>2. operation.at = "handling" /\ operation.kind = "sync" /\ operation.packet \in Packets /\ Live(operation)
    BY <1>1, <1>9 DEF receive_from_handles_datagram, OperationOK, Live
  <2>3. SocketInv'
    BY <1>9, <2>2, SocketHandles DEF receive_from_handles_datagram
  <2>4. CASE returned'.message # NoMessage
    <3>1. CompletesWithMessage(operation) /\ operations' = RemoveAt(operations, i)
      BY <1>9, <2>4 DEF receive_from_handles_datagram
    <3>2. /\ completed' \in Seq(Completions) /\ NothingWithoutErrorMeansShutdown'
          /\ completion.call = operation.call /\ completed' = Append(completed, completion)
      BY <1>1, <2>1, <2>2, <2>3, <2>4, <3>1, MessageIsFine
    <3> HIDE DEF completion
    <3>3. CarriedOn'
      BY <1>1, <1>2, <2>1, <2>2, <3>1, <3>2, OperationReturns
    <3>4. QED BY <1>2, <2>1, <2>3, <3>2, <3>3 DEF OperationsInv, OnlyBusyCallsMissTheSocket
  <2>5. CASE returned'.message = NoMessage
    <3>1. operations' = [operations EXCEPT ![i] = again] /\ UNCHANGED completed
      BY <1>1, <1>9, <2>5 DEF receive_from_handles_datagram
    <3>2. OperationOK(again) /\ again.call = operation.call /\ (Live(again) <=> Live(operation))
      BY <1>1, <2>2 DEF OperationOK, Orphaned, Operations, Places, Live
    <3> HIDE DEF again
    <3>3. CarriedOn'
      BY <1>1, <2>1, <3>1, <3>2, OperationMoves
    <3>4. QED BY <1>2, <2>1, <2>3, <3>1, <3>3
              DEF OperationsInv, OnlyBusyCallsMissTheSocket, NothingWithoutErrorMeansShutdown
  <2>6. QED BY <2>4, <2>5
<1>10. QED BY <1>3, <1>4, <1>5, <1>6, <1>7, <1>8, <1>9 DEF ReceiveFromStep

(* asio's operations become ready.                                         *)
LEMMA AsioKeepsInv ==
  ASSUME OperationsInv, NEW i \in DOMAIN operations, AsioStep(i)
  PROVE  OperationsInv'
<1> DEFINE operation == operations[i]
<1>1. operations \in Seq(Operations) /\ operation \in Operations /\ OperationOK(operation) /\ CarriedOn
  BY DEF OperationsInv, CarriedOn, OperationsOK
<1>2. inbox \in Seq(Packets)
  BY DEF OperationsInv
<1>3. CASE ReceiveIsReady(i)
  <2> DEFINE packet == Head(inbox)
             next   == [operation EXCEPT !.at = "ready", !.packet = packet]
  <2>1. packet \in Packets /\ Tail(inbox) \in Seq(Packets)
    BY <1>2, <1>3 DEF ReceiveIsReady
  <2>2. packet \in (Endpoints \cup {DefaultEndpoint}) \X Datagrams
    BY <2>1, OperationsAssumption
  <2>3. OperationOK(next) /\ next.call = operation.call /\ (Live(next) <=> Live(operation))
    <3> HIDE DEF packet
    <3>1. QED BY <1>1, <1>3, <2>1, <2>2 DEF ReceiveIsReady, OperationOK, Orphaned, Operations, Places, Live
  <2>4. operations' = [operations EXCEPT ![i] = next]
    BY <1>1, <1>3 DEF ReceiveIsReady
  <2> HIDE DEF next
  <2>5. CarriedOn'
    BY <1>1, <1>3, <2>3, <2>4, OperationMoves DEF ReceiveIsReady
  <2>6. QED BY <1>3, <2>1, <2>5, OnlyOperationsChange DEF ReceiveIsReady
<1>4. ASSUME NEW error \in {"none", "failed"}, SendIsReady(i, error)
      PROVE  OperationsInv'
  <2> DEFINE next == [operation EXCEPT !.at = "ready", !.error = error]
  <2>1. OperationOK(next) /\ next.call = operation.call /\ (Live(next) <=> Live(operation))
    BY <1>1, <1>4 DEF SendIsReady, OperationOK, Orphaned, Operations, Places, Errors, Live
  <2>2. operations' = [operations EXCEPT ![i] = next]
    BY <1>1, <1>4 DEF SendIsReady
  <2> HIDE DEF next
  <2>3. CarriedOn'
    BY <1>1, <1>4, <2>1, <2>2, OperationMoves DEF SendIsReady, osVars
  <2>4. QED BY <1>2, <1>4, <2>3, OnlyOperationsChange DEF SendIsReady, osVars
<1>5. QED BY <1>3, <1>4 DEF AsioStep

(* A call is started.                                                      *)
LEMMA StartKeepsInv ==
  ASSUME OperationsInv, NEW operation, StartCall(operation),
         OperationOK(operation), operation.call = calls + 1, Live(operation)
  PROVE  OperationsInv'
<1>1. /\ calls \in Nat /\ CarriedOn /\ calls' = calls + 1
      /\ operations' = Append(operations, operation)
      /\ UNCHANGED << shut, socket_, busy, completed, inbox, missed, socketVars >>
  BY DEF OperationsInv, StartCall, osVars
<1>2. CarriedOn'
  BY <1>1, OperationStarts
<1>3. calls' \in Nat
  BY <1>1
<1>4. QED BY <1>1, <1>2, <1>3, SocketStays
          DEF OperationsInv, OnlyBusyCallsMissTheSocket, NothingWithoutErrorMeansShutdown

(* An operation that waits in asio ends with an error, another one stays   *)
(* as it is.                                                               *)
LEMMA AbortedOrNot ==
  ASSUME NEW ops \in Seq(Operations)
  PROVE  /\ Aborted(ops) \in Seq(Operations) /\ DOMAIN Aborted(ops) = DOMAIN ops
         /\ \A i \in DOMAIN ops :
               \/ ops[i].at # "pending" /\ Aborted(ops)[i] = ops[i]
               \/ /\ ops[i].at = "pending"
                  /\ Aborted(ops)[i] = [ops[i] EXCEPT !.at = "ready", !.error = "operation_aborted"]
<1>1. \A i \in DOMAIN ops : ops[i] \in Operations
  OBVIOUS
<1>2. \A i \in DOMAIN ops : [ops[i] EXCEPT !.at = "ready", !.error = "operation_aborted"] \in Operations
  BY <1>1 DEF Operations, Places, Errors
<1>3. DOMAIN Aborted(ops) = DOMAIN ops /\ \A i \in DOMAIN ops : Aborted(ops)[i] \in Operations
  BY <1>1, <1>2 DEF Aborted
<1>4. Aborted(ops) \in Seq(Operations)
  <2>1. Len(ops) \in Nat /\ DOMAIN ops = 1 .. Len(ops)
    OBVIOUS
  <2>2. Aborted(ops) \in [1 .. Len(ops) -> Operations]
    BY <1>1, <1>2, <2>1 DEF Aborted
  <2>3. QED BY <2>1, <2>2
<1>5. QED BY <1>3, <1>4 DEF Aborted

(* The same of a receive_from that is blocked.                             *)
LEMMA UnblockedOrNot ==
  ASSUME NEW ops \in Seq(Operations), NEW systems
  PROVE  /\ Unblocked(ops, systems) \in Seq(Operations) /\ DOMAIN Unblocked(ops, systems) = DOMAIN ops
         /\ \A i \in DOMAIN ops :
               \/ Unblocked(ops, systems)[i] = ops[i]
               \/ /\ ops[i].at = "blocked"
                  /\ Unblocked(ops, systems)[i] = [ops[i] EXCEPT !.at = "asked", !.error = "interrupted"]
<1>1. \A i \in DOMAIN ops : ops[i] \in Operations
  OBVIOUS
<1>2. \A i \in DOMAIN ops : [ops[i] EXCEPT !.at = "asked", !.error = "interrupted"] \in Operations
  BY <1>1 DEF Operations, Places, Errors
<1>3. DOMAIN Unblocked(ops, systems) = DOMAIN ops
  BY DEF Unblocked
<1>4. Unblocked(ops, systems) \in Seq(Operations)
  <2>1. Len(ops) \in Nat /\ DOMAIN ops = 1 .. Len(ops)
    OBVIOUS
  <2>2. Unblocked(ops, systems) \in [1 .. Len(ops) -> Operations]
    BY <1>1, <1>2, <2>1 DEF Unblocked
  <2>3. QED BY <2>1, <2>2
<1>5. QED BY <1>3, <1>4 DEF Unblocked

(* An operation that ends with an error is as it should be, as long as the *)
(* Socket exists.                                                          *)
LEMMA FailedIsOK ==
  ASSUME NEW operation, OperationOK(operation), shut' = shut, socket_' # "destroyed",
         NEW next,
         \/ next = operation
         \/ /\ operation.at = "pending"
            /\ next = [operation EXCEPT !.at = "ready", !.error = "operation_aborted"]
         \/ /\ operation.at = "blocked"
            /\ next = [operation EXCEPT !.at = "asked", !.error = "interrupted"]
  PROVE  /\ OperationOK(next)'
         /\ next.call = operation.call
         /\ Live(next) <=> Live(operation)
BY DEF OperationOK, Operations, Places, Errors, Live

(* cancel and close end what waits with errors.                            *)
LEMMA ErrorsKeepCalls ==
  ASSUME CarriedOn, NEW systems, operations' = Unblocked(Aborted(operations), systems),
         socket_' # "destroyed", UNCHANGED << shut, calls, completed >>
  PROVE  CarriedOn'
<1> DEFINE aborted == Aborted(operations)
<1>1. operations \in Seq(Operations) /\ \A i \in DOMAIN operations : OperationOK(operations[i])
  BY DEF CarriedOn, OperationsOK
<1>2. /\ aborted \in Seq(Operations) /\ DOMAIN aborted = DOMAIN operations
      /\ \A i \in DOMAIN operations :
            \/ operations[i].at # "pending" /\ aborted[i] = operations[i]
            \/ /\ operations[i].at = "pending"
               /\ aborted[i] = [operations[i] EXCEPT !.at = "ready", !.error = "operation_aborted"]
  BY <1>1, AbortedOrNot
<1>3. operations' = Unblocked(aborted, systems)
  OBVIOUS
<1> HIDE DEF aborted
<1>4. /\ operations' \in Seq(Operations) /\ DOMAIN operations' = DOMAIN operations
      /\ \A i \in DOMAIN operations :
            \/ operations'[i] = aborted[i]
            \/ /\ aborted[i].at = "blocked"
               /\ operations'[i] = [aborted[i] EXCEPT !.at = "asked", !.error = "interrupted"]
  <2> DEFINE unblocked == Unblocked(aborted, systems)
  <2>1. /\ unblocked \in Seq(Operations) /\ DOMAIN unblocked = DOMAIN aborted
        /\ \A i \in DOMAIN aborted :
              \/ unblocked[i] = aborted[i]
              \/ /\ aborted[i].at = "blocked"
                 /\ unblocked[i] = [aborted[i] EXCEPT !.at = "asked", !.error = "interrupted"]
    <3>1. aborted \in Seq(Operations)
      BY <1>2
    <3>2. QED BY <3>1, UnblockedOrNot, Zenon
  <2>2. operations' = unblocked
    BY <1>3
  <2> HIDE DEF unblocked
  <2>3. QED BY <1>2, <2>1, <2>2
<1>5. ASSUME NEW i \in DOMAIN operations
      PROVE  /\ OperationOK(operations[i])'
             /\ operations'[i].call = operations[i].call
             /\ Live(operations'[i]) <=> Live(operations[i])
  <2>1. operations[i] \in Operations
    BY <1>1
  <2>2. \/ operations'[i] = operations[i]
        \/ /\ operations[i].at = "pending"
           /\ operations'[i] = [operations[i] EXCEPT !.at = "ready", !.error = "operation_aborted"]
        \/ /\ operations[i].at = "blocked"
           /\ operations'[i] = [operations[i] EXCEPT !.at = "asked", !.error = "interrupted"]
    BY <1>2, <1>4, <2>1 DEF Operations
  <2>3. QED BY <1>1, <2>2, FailedIsOK
<1>6. QED BY <1>4, <1>5, OperationsFail

(* The Socket is destroyed: what waits in asio ends with an error.         *)
LEMMA DestroyKeepsInv == ASSUME OperationsInv, destroy PROVE OperationsInv'
<1>1. operations \in Seq(Operations) /\ CarriedOn /\ \A i \in DOMAIN operations : OperationOK(operations[i])
  BY DEF OperationsInv, CarriedOn, OperationsOK
<1>2. /\ operations' \in Seq(Operations) /\ DOMAIN operations' = DOMAIN operations
      /\ \A i \in DOMAIN operations :
            \/ operations[i].at # "pending" /\ operations'[i] = operations[i]
            \/ /\ operations[i].at = "pending"
               /\ operations'[i] = [operations[i] EXCEPT !.at = "ready", !.error = "operation_aborted"]
  BY <1>1, AbortedOrNot DEF destroy
<1>3. ASSUME NEW i \in DOMAIN operations
      PROVE  /\ OperationOK(operations[i])'
             /\ operations'[i].call = operations[i].call
             /\ Live(operations'[i]) <=> Live(operations[i])
  <2> DEFINE operation == operations[i]
             next      == operations'[i]
  <2>1. operation \in Operations /\ OperationOK(operation) /\ operation.kind # "sync" /\ UNCHANGED shut
    BY <1>1 DEF destroy
  <2>2. CASE operation.at # "pending"
    <3>1. next = operation
      BY <1>2, <2>2
    <3>2. (/\ operation.at \in {"ready", "running", "handling"}
           /\ operation.error = "none"
           /\ ~ IsLastSent(operation)) => operation.call \in busy'
      <4>1. SUFFICES ASSUME operation.at \in {"ready", "running", "handling"}, operation.error = "none",
                            ~ IsLastSent(operation)
                     PROVE  operation.call \in Busy
        BY DEF destroy
      <4>2. QED BY <4>1 DEF Busy
    <3>3. Orphaned(operations[i])'
      BY <2>1, <2>2, <3>1, <3>2 DEF Orphaned
    <3>4. OperationOK(operations[i])'
      BY <2>1, <3>1, <3>3 DEF OperationOK
    <3>5. QED BY <3>1, <3>4
  <2>3. CASE operation.at = "pending"
    <3>1. /\ next \in Operations
          /\ next.at = "ready" /\ next.error = "operation_aborted"
          /\ next.kind = operation.kind /\ next.call = operation.call
      BY <1>2, <2>1, <2>3 DEF Operations, Places, Errors
    <3>2. OperationOK(operations[i])'
      BY <2>1, <2>3, <3>1 DEF OperationOK, Orphaned
    <3>3. QED BY <2>3, <3>1, <3>2 DEF Live
  <2>4. QED BY <2>2, <2>3
<1>4. CarriedOn'
  BY <1>1, <1>2, <1>3, OperationsFail DEF destroy
<1>5. QED BY <1>4, SocketStays
          DEF OperationsInv, destroy, Sound, OnlyBusyCallsMissTheSocket, NothingWithoutErrorMeansShutdown

(* The user's calls.                                                       *)
LEMMA UserKeepsInv == ASSUME OperationsInv, UserStep PROVE OperationsInv'
<1>1. calls \in Nat /\ CarriedOn /\ inbox \in Seq(Packets)
  BY DEF OperationsInv
<1>2. CASE async_receive_from
  <2>1. /\ OperationOK(AsioOperation("receive", calls + 1, 0))
        /\ AsioOperation("receive", calls + 1, 0).call = calls + 1
        /\ Live(AsioOperation("receive", calls + 1, 0))
    BY <1>1, AsioOperationIsOK
  <2>2. QED BY <1>2, <2>1, StartKeepsInv DEF async_receive_from
<1>3. CASE async_send_to
  <2>1. /\ OperationOK(AsioOperation("send", calls + 1, 0))
        /\ AsioOperation("send", calls + 1, 0).call = calls + 1
        /\ Live(AsioOperation("send", calls + 1, 0))
    BY <1>1, AsioOperationIsOK
  <2>2. QED BY <1>3, <2>1, StartKeepsInv DEF async_send_to
<1>4. CASE receive_from
  <2> DEFINE operation == [Operation("sync", calls + 1, 0) EXCEPT !.at = "asking"]
  <2>1. StartCall(operation)
    BY <1>4 DEF receive_from
  <2>2. /\ operation \in Operations
        /\ operation.at = "asking" /\ operation.kind = "sync" /\ operation.call = calls + 1
    BY <1>1 DEF Operation, Operations, Places, Errors
  <2> HIDE DEF operation
  <2>3. OperationOK(operation) /\ Live(operation)
    BY <2>1, <2>2 DEF StartCall, OperationOK, Live
  <2>4. QED BY <2>1, <2>2, <2>3, StartKeepsInv
<1>5. CASE cancel
  <2>1. CarriedOn'
    BY <1>1, <1>5, ErrorsKeepCalls DEF cancel, osVars
  <2>2. QED BY <1>1, <1>5, <2>1, OnlyOperationsChange DEF cancel, osVars
<1>6. CASE close
  <2>1. CarriedOn'
    BY <1>1, <1>6, ErrorsKeepCalls DEF close
  <2>2. QED BY <1>1, <1>6, <2>1, OnlyOperationsChange DEF close
<1>7. CASE shutdown
  <2>1. CarriedOn'
    BY <1>1, <1>7 DEF shutdown, CarriedOn, CallsInv, OperationsOK, OperationOK, Orphaned
  <2>2. QED BY <1>1, <1>7, <2>1, SocketStays
            DEF shutdown, OperationsInv, OnlyBusyCallsMissTheSocket, NothingWithoutErrorMeansShutdown
<1>8. CASE destroy
  BY <1>8, DestroyKeepsInv
<1>9. QED BY <1>2, <1>3, <1>4, <1>5, <1>6, <1>7, <1>8 DEF UserStep

(* A packet arrives.                                                       *)
LEMMA ArrivalKeepsInv ==
  ASSUME OperationsInv, NEW packet \in Packets, PacketArrives(packet)
  PROVE  OperationsInv'
<1>1. inbox' \in Seq(Packets)
  BY DEF OperationsInv, PacketArrives
<1>2. CarriedOn'
  BY DEF PacketArrives, OperationsInv, CarriedOn, CallsInv, OperationsOK, OperationOK, Orphaned
<1>3. QED BY <1>1, <1>2, OnlyOperationsChange DEF PacketArrives

(* No call yet.                                                            *)
LEMMA OperationsInvInit == OperationsInit => OperationsInv
<1> SUFFICES ASSUME OperationsInit PROVE OperationsInv
  OBVIOUS
<1>1. SocketInv
  BY SocketInvInit DEF OperationsInit
<1>2. /\ operations = << >> /\ completed = << >> /\ calls = 0 /\ inbox = << >>
      /\ missed = {}
  BY DEF OperationsInit
<1>3. DOMAIN << >> = {} /\ 1 .. 0 = {}
  OBVIOUS
<1>4. OperationsOK
  BY <1>2, <1>3 DEF OperationsOK
<1>5. CallsInv(operations, completed, calls)
  BY <1>2, <1>3 DEF CallsInv
<1>6. QED BY <1>1, <1>2, <1>3, <1>4, <1>5
          DEF OperationsInv, CarriedOn, OnlyBusyCallsMissTheSocket, NothingWithoutErrorMeansShutdown

(* Every step keeps the invariant.                                         *)
LEMMA OperationsInvNext == OperationsInv /\ [OperationsNext]_operationsVars => OperationsInv'
<1> SUFFICES ASSUME OperationsInv, [OperationsNext]_operationsVars PROVE OperationsInv'
  OBVIOUS
<1>1. ASSUME NEW i \in DOMAIN operations, LambdaStep(i)
      PROVE  OperationsInv'
  BY <1>1, LambdaKeepsInv, HandlingKeepsInv DEF LambdaStep
<1>2. ASSUME NEW i \in DOMAIN operations, ReceiveFromStep(i)
      PROVE  OperationsInv'
  BY <1>2, ReceiveFromKeepsInv
<1>3. ASSUME NEW i \in DOMAIN operations, AsioStep(i)
      PROVE  OperationsInv'
  BY <1>3, AsioKeepsInv
<1>4. ASSUME NEW packet \in Packets, PacketArrives(packet)
      PROVE  OperationsInv'
  BY <1>4, ArrivalKeepsInv
<1>5. CASE UserStep
  BY <1>5, UserKeepsInv
<1>6. CASE UNCHANGED operationsVars
  <2>1. UNCHANGED << socketVars, inbox, calls, completed, operations, busy, missed, shut, socket_ >>
    BY <1>6 DEF operationsVars, osVars
  <2>2. SocketInv'
    BY <2>1, SocketStays
  <2>3. QED BY <2>1, <2>2
            DEF OperationsInv, CarriedOn, CallsInv, OperationsOK, OperationOK, Orphaned,
                OnlyBusyCallsMissTheSocket, NothingWithoutErrorMeansShutdown
<1>7. QED BY <1>1, <1>2, <1>3, <1>4, <1>5, <1>6 DEF OperationsNext

(* The invariant holds in every state.                                     *)
LEMMA OperationsInvHolds == OperationsSpec => []OperationsInv
BY OperationsInvInit, OperationsInvNext, PTL DEF OperationsSpec

-----------------------------------------------------------------------------
(* What follows from the invariant.                                        *)

(* Of two sets, one has a single member and the other has none.            *)
LEMMA OneOrNone ==
  ASSUME NEW A, NEW a, NEW B, (A = {a} /\ B = {}) \/ (A = {} /\ B = {a})
  PROVE  Cardinality(A) + Cardinality(B) = 1
<1>1. Cardinality({a}) = 1
  BY FS_Singleton
<1>2. Cardinality({}) = 0
  BY FS_EmptySet
<1>3. QED BY <1>1, <1>2

(* No call is lost, and none is completed twice: a call has exactly one    *)
(* operation in progress or exactly one result, for any number of calls    *)
(* and threads, whenever the socket is cancelled, closed, shut down or     *)
(* destroyed (the chains of receive_next_datagram_from and of              *)
(* async_send_datagram_list_to, and the loop of receive_from).             *)
THEOREM EveryCallHasOneResult == OperationsSpec => []CallsAreInProgressOrCompleted
<1>1. OperationsInv => CallsAreInProgressOrCompleted
  <2> SUFFICES ASSUME OperationsInv, NEW call \in 1 .. calls
               PROVE  Cardinality({i \in DOMAIN operations : /\ operations[i].call = call
                                                            /\ operations[i].at # "completing"})
                        + Cardinality({i \in DOMAIN completed : completed[i].call = call}) = 1
    BY DEF CallsAreInProgressOrCompleted
  <2> DEFINE ongoing == {i \in DOMAIN operations : operations[i].call = call /\ operations[i].at # "completing"}
             results == {i \in DOMAIN completed : completed[i].call = call}
  <2>1. CallsInv(operations, completed, calls)
    BY DEF OperationsInv, CarriedOn
  <2>2. CASE \E i \in DOMAIN operations : operations[i].call = call /\ Live(operations[i])
    <3>1. PICK i \in DOMAIN operations : operations[i].call = call /\ Live(operations[i])
      BY <2>2
    <3>2. ongoing = {i}
      BY <2>1, <3>1 DEF CallsInv, Live
    <3>3. results = {}
      BY <2>1, <3>1 DEF CallsInv
    <3> HIDE DEF ongoing, results
    <3>4. Cardinality(ongoing) + Cardinality(results) = 1
      BY <3>2, <3>3, OneOrNone
    <3>5. QED BY <3>4 DEF ongoing, results
  <2>3. CASE ~ \E i \in DOMAIN operations : operations[i].call = call /\ Live(operations[i])
    <3>1. PICK i \in DOMAIN completed : completed[i].call = call
      <4>1. \E i \in DOMAIN completed : completed[i].call = call
        BY <2>1, <2>3 DEF CallsInv
      <4>2. QED BY <4>1
    <3>2. ongoing = {}
      BY <2>3 DEF Live
    <3>3. results = {i}
      BY <2>1, <3>1 DEF CallsInv
    <3> HIDE DEF ongoing, results
    <3>4. Cardinality(ongoing) + Cardinality(results) = 1
      BY <3>2, <3>3, OneOrNone
    <3>5. QED BY <3>4 DEF ongoing, results
  <2>4. QED BY <2>2, <2>3
<1>2. QED BY <1>1, OperationsInvHolds, PTL

(* handle_datagram takes no lock, and yet one call never races with        *)
(* itself, however many threads run the io_context: two threads in it are  *)
(* there for two calls (receive_next_datagram_from asks for the next       *)
(* datagram only after handle_datagram).                                   *)
THEOREM OneCallNeverRaces == OperationsSpec => []RacesNeedTwoCalls
<1>1. OperationsInv => RacesNeedTwoCalls
  BY DEF OperationsInv, CarriedOn, CallsInv, Live, RacesNeedTwoCalls
<1>2. QED BY <1>1, OperationsInvHolds, PTL

(* Every call whose lambda uses a Socket that is gone is one for which     *)
(* asio had received or sent a datagram when the Socket was destroyed,     *)
(* with more to do for the lambda; no call that was waiting in asio ever   *)
(* is, for any number of calls and threads.  What waits ends with an       *)
(* error, and a lambda with an error leaves the Socket alone               *)
(* (receive_next_datagram_from, async_send_datagram_list_to).              *)
THEOREM WaitingCallsSurviveDestruction == OperationsSpec => []OnlyBusyCallsMissTheSocket
<1>1. OperationsInv => OnlyBusyCallsMissTheSocket
  BY DEF OperationsInv
<1>2. QED BY <1>1, OperationsInvHolds, PTL

(* receive_from returns neither a message nor an error only after a        *)
(* shutdown: an empty datagram from anyone has an endpoint (the workaround *)
(* for Linux in Socket::receive_from).                                     *)
THEOREM EmptyResultsMeanShutdown == OperationsSpec => []NothingWithoutErrorMeansShutdown
<1>1. OperationsInv => NothingWithoutErrorMeansShutdown
  BY DEF OperationsInv
<1>2. QED BY <1>1, OperationsInvHolds, PTL

=============================================================================
