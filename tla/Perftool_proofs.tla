---------------------------- MODULE Perftool_proofs ----------------------------
(***************************************************************************)
(* For every number of messages: the perftool reports each message once,   *)
(* and its workers end before what they use is destroyed.                  *)
(***************************************************************************)
EXTENDS Perftool, TLAPS

(* What the two invariants need to be inductive: the counters are numbers, *)
(* nothing is waiting to be printed unless the thread is printing, and     *)
(* is_stopped_ is set by the base class's destructor only.                 *)
PerftoolInv ==
  /\ messages_ \in Nat /\ swapped \in Nat /\ printed \in Nat /\ handled \in Nat
  /\ is_stopped_ \in BOOLEAN
  /\ statistics = "waiting" => swapped = 0
  /\ is_stopped_ = TRUE => destructor \in {"stopping", "done"}
  /\ destructor \in {"base", "stopping", "done"} => worker = "ended"
  /\ MessagesAreReportedOnce

(* A new object has counted nothing and nobody destroys it.                *)
LEMMA InitHasInv == Init => PerftoolInv
<1> SUFFICES ASSUME Init PROVE PerftoolInv
  OBVIOUS
<1>1. is_stopped_ \in BOOLEAN /\ is_stopped_ # TRUE
  BY Zenon DEF Init
<1>2. QED BY <1>1 DEF Init, PerftoolInv, MessagesAreReportedOnce

(* Counting a message adds it to the counter that is not printed yet.      *)
LEMMA CountKeepsSum ==
  ASSUME PerftoolInv, Count
  PROVE  /\ messages_' \in Nat /\ swapped' \in Nat /\ printed' \in Nat /\ handled' \in Nat
         /\ handled' = printed' + swapped' + messages_'
BY DEF PerftoolInv, Count, MessagesAreReportedOnce

(* A worker that does something has not ended, so that nobody is in the    *)
(* base class's destructor.                                                *)
LEMMA WorkersKeepInv == PerftoolInv /\ WorkerStep => PerftoolInv'
<1> SUFFICES ASSUME PerftoolInv, WorkerStep PROVE PerftoolInv'
  OBVIOUS
<1> USE DEF MessagesAreReportedOnce
<1>1. CASE send_loop
  <2>1. CASE Count
    BY <1>1, <2>1, CountKeepsSum DEF send_loop, PerftoolInv, Count
  <2>2. CASE UNCHANGED tallies
    BY <1>1, <2>2 DEF send_loop, PerftoolInv, tallies
  <2>3. QED BY <1>1, <2>1, <2>2 DEF send_loop
<1>2. CASE Handler
  <2>1. CASE Count
    BY <1>2, <2>1, CountKeepsSum DEF Handler, PerftoolInv, Count
  <2>2. CASE UNCHANGED tallies
    BY <1>2, <2>2 DEF Handler, PerftoolInv, tallies
  <2>3. QED BY <1>2, <2>1, <2>2 DEF Handler
<1>3. CASE SenderAsync_send_message
  BY <1>2, <1>3 DEF SenderAsync_send_message, PerftoolInv, tallies
<1>4. CASE ReceiverAsync_receive_message
  BY <1>2, <1>4 DEF ReceiverAsync_receive_message
<1>5. CASE ReceiverNpcapAsync_receive_message
  <2>1. CASE Handler
    BY <1>2, <2>1
  <2>2. CASE ~ Handler
    <3>1. /\ worker = "succeeded"
          /\ Count
          /\ UNCHANGED <<kind, is_stopped_, statistics, destructor>>
      BY <1>5, <2>2 DEF ReceiverNpcapAsync_receive_message
    <3>2. QED BY <3>1, CountKeepsSum DEF PerftoolInv, Count
  <2>3. QED BY <2>1, <2>2
<1>6. CASE closed_socket_answers
  BY <1>6 DEF closed_socket_answers, PerftoolInv, tallies
<1>7. QED BY <1>1, <1>3, <1>4, <1>5, <1>6 DEF WorkerStep

(* The statistics thread moves the count from one place to the next.       *)
LEMMA StatisticsKeepInv == PerftoolInv /\ StatisticsStep => PerftoolInv'
<1> SUFFICES ASSUME PerftoolInv, StatisticsStep PROVE PerftoolInv'
  OBVIOUS
<1> USE DEF PerftoolInv, StatisticsStep, MessagesAreReportedOnce
<1>1. CASE take_counters
  BY <1>1 DEF take_counters
<1>2. CASE print_counters
  BY <1>2 DEF print_counters
<1>3. QED BY <1>1, <1>2

(* Each derived destructor goes on to the base class's only with a worker  *)
(* that has ended.                                                         *)
LEMMA DestructorsKeepInv == PerftoolInv /\ DestructorStep => PerftoolInv'
<1> SUFFICES ASSUME PerftoolInv, DestructorStep PROVE PerftoolInv'
  OBVIOUS
<1> USE DEF PerftoolInv, MessagesAreReportedOnce, tallies
<1>1. CASE DerivedDestructor
  <2>1. CASE SenderSync_destructor
    BY <1>1, <2>1 DEF DerivedDestructor, SenderSync_destructor
  <2>2. CASE SenderAsync_destructor
    BY <1>1, <2>2 DEF DerivedDestructor, SenderAsync_destructor, Cancel
  <2>3. CASE ReceiverAsync_destructor
    BY <1>1, <2>3 DEF DerivedDestructor, ReceiverAsync_destructor, Cancel
  <2>4. CASE ReceiverNpcapAsync_destructor
    BY <1>1, <2>4 DEF DerivedDestructor, ReceiverNpcapAsync_destructor
  <2>5. QED BY <1>1, <2>1, <2>2, <2>3, <2>4 DEF DerivedDestructor
<1>2. CASE base_destructor
  BY <1>2 DEF base_destructor
<1>3. QED BY <1>1, <1>2 DEF DestructorStep

(* Every step preserves the invariant.                                     *)
LEMMA StepKeepsInv == PerftoolInv /\ [Next]_vars => PerftoolInv'
<1> SUFFICES ASSUME PerftoolInv, [Next]_vars PROVE PerftoolInv'
  OBVIOUS
<1> USE DEF MessagesAreReportedOnce, tallies
<1>1. CASE start
  BY <1>1 DEF start, PerftoolInv
<1>2. CASE operation_ends
  BY <1>2 DEF operation_ends, PerftoolInv
<1>3. CASE UNCHANGED vars
  BY <1>3 DEF vars, PerftoolInv
<1>4. QED
  BY <1>1, <1>2, <1>3, WorkersKeepInv, StatisticsKeepInv, DestructorsKeepInv DEF Next

(* The invariant holds of every execution. *)
LEMMA PerftoolInvHolds == Spec => []PerftoolInv
BY InitHasInv, StepKeepsInv, PTL DEF Spec

(* However many messages there are, what is counted is printed, about to   *)
(* be printed, or counted, and never twice.                                *)
THEOREM MessagesReportedOnce == Spec => []MessagesAreReportedOnce
BY PerftoolInvHolds, PTL DEF PerftoolInv

(* No worker is left when the base class's destructor runs.                *)
THEOREM WorkersEndFirst == Spec => []WorkersEndBeforeTheirBase
<1>1. PerftoolInv => WorkersEndBeforeTheirBase
  <2> SUFFICES ASSUME PerftoolInv PROVE WorkersEndBeforeTheirBase
    OBVIOUS
  <2>1. is_stopped_ => is_stopped_ = TRUE
    BY Zenon DEF PerftoolInv
  <2>2. is_stopped_ => worker = "ended"
    <3>1. is_stopped_ = TRUE => worker = "ended"
      BY DEF PerftoolInv
    <3>2. QED BY <2>1, <3>1, Zenon
  <2>3. QED BY <2>2 DEF PerftoolInv, WorkersEndBeforeTheirBase
<1>2. QED BY <1>1, PerftoolInvHolds, PTL

=============================================================================
