------------------------------- MODULE Perftool -------------------------------
(***************************************************************************)
(* One Sender or Receiver of the performance tool (ecaludp_perftool): the  *)
(* thread that sends or receives, the thread of the base class that prints *)
(* statistics, and the thread that constructs, starts and destroys the     *)
(* object.  The socket is what Socket and SocketNpcap promise of it: an    *)
(* operation succeeds or fails.  The program's main never destroys the     *)
(* object; the destructors are modelled as what a user of the classes gets *)
(* to see.  A socket that cannot be created ends the program and is left   *)
(* out.                                                                    *)
(***************************************************************************)
EXTENDS Naturals

CONSTANT
  MaxMessages       \* bound: operations that succeed

ASSUME MaxMessagesAssumption == MaxMessages \in Nat

\* The implementations whose worker is a loop of blocking calls, and all: the
\* others have handlers, on an io_context or on the wait thread of SocketNpcap.
Loops == {"SenderSync", "ReceiverSync", "ReceiverNpcapSync"}
Kinds == Loops \cup {"SenderAsync", "ReceiverAsync", "ReceiverNpcapAsync"}

VARIABLES
  kind,             \* the implementation chosen on the command line
  worker,           \* the worker's operation, or the worker itself if none
  is_stopped_,
  messages_,        \* messages_sent_ or messages_received_
  statistics,       \* the statistics thread
  swapped,          \* the local counter of print_statistics
  printed,          \* history: the sum of the counts printed
  handled,          \* history: the messages the worker has counted
  destructor        \* how far the destruction of the object is

tallies == <<messages_, swapped, printed, handled>>
vars == <<kind, worker, is_stopped_, statistics, tallies, destructor>>

\* The object as main makes it; the base class starts the statistics thread.
Init ==
  /\ kind \in Kinds
  /\ worker = "none"
  /\ is_stopped_ = FALSE
  /\ messages_ = 0
  /\ statistics = "waiting"
  /\ swapped = 0
  /\ printed = 0
  /\ handled = 0
  /\ destructor = "none"

-----------------------------------------------------------------------------
\* The worker.

\* start(): main calls it once, right after the construction.  It begins the
\* first operation: on the thread it starts, or itself.
start ==
  /\ worker = "none"
  /\ worker' = "operating"
  /\ UNCHANGED <<kind, is_stopped_, statistics, tallies, destructor>>

\* The socket's part: the operation under way completes, with or without an
\* error.  Whether and when it does is not in the hands of the program.
\* A SocketNpcap that is closed has its own answers, below.
operation_ends ==
  /\ worker = "operating"
  /\ kind = "ReceiverNpcapAsync" => destructor = "none"
  /\ worker' \in IF handled < MaxMessages THEN {"succeeded", "failed"}
                                          ELSE {"failed"}
  /\ UNCHANGED <<kind, is_stopped_, statistics, tallies, destructor>>

\* What every worker does with a message, under the statistics mutex.
Count ==
  /\ messages_' = messages_ + 1
  /\ handled' = handled + 1
  /\ UNCHANGED <<swapped, printed>>

\* One turn of send_loop or receive_loop after its operation: an error, or
\* is_stopped_ seen under the mutex, leaves the loop; socket and thread end.
send_loop ==
  /\ kind \in Loops
  /\ worker \in {"succeeded", "failed"}
  /\ IF worker = "failed" \/ is_stopped_
       THEN worker' = "ended" /\ UNCHANGED tallies
       ELSE worker' = "operating" /\ Count
  /\ UNCHANGED <<kind, is_stopped_, statistics, destructor>>

\* The handler of an asynchronous operation: an error closes the socket and
\* starts nothing new; a message is counted and the next operation started,
\* without a look at is_stopped_.
Handler ==
  /\ worker \in {"succeeded", "failed"}
  /\ IF worker = "failed"
       THEN worker' = "idle" /\ UNCHANGED tallies
       ELSE worker' = "operating" /\ Count
  /\ UNCHANGED <<kind, is_stopped_, statistics, destructor>>

\* run() of the sender returns as soon as no operation is pending.
SenderAsync_send_message ==
  /\ kind = "SenderAsync"
  /\ \/ Handler
     \/ /\ worker = "idle"
        /\ worker' = "ended"
        /\ UNCHANGED <<kind, is_stopped_, statistics, tallies, destructor>>

ReceiverAsync_receive_message ==
  /\ kind = "ReceiverAsync"
  /\ Handler

\* A handler that asks for the next message while socket_ is being destroyed
\* uses an object that is gone.
ReceiverNpcapAsync_receive_message ==
  /\ kind = "ReceiverNpcapAsync"
  /\ IF worker = "succeeded" /\ destructor = "joining"
       THEN /\ worker' = "missed"
            /\ Count
            /\ UNCHANGED <<kind, is_stopped_, statistics, destructor>>
       ELSE Handler

-----------------------------------------------------------------------------
\* The statistics thread.

\* Fault: the counter is read but not set back.
take_counters_without_reset ==
  /\ statistics = "waiting"
  /\ ~is_stopped_
  /\ statistics' = "printing"
  /\ swapped' = messages_
  /\ UNCHANGED <<messages_, printed>>

\* It wakes up, by time or because it is told to; under the mutex it ends if
\* is_stopped_, or else swaps the counters with zeros of its own.
take_counters ==
  /\ statistics = "waiting"
  /\ IF is_stopped_
       THEN statistics' = "ended" /\ UNCHANGED <<swapped, messages_>>
       ELSE /\ statistics' = "printing"
            /\ swapped' = messages_
            /\ messages_' = 0
  /\ UNCHANGED printed

print_counters ==
  /\ statistics = "printing"
  /\ statistics' = "waiting"
  /\ printed' = printed + swapped
  /\ swapped' = 0
  /\ UNCHANGED messages_

StatisticsStep ==
  /\ take_counters \/ print_counters
  /\ UNCHANGED <<kind, worker, is_stopped_, handled, destructor>>

-----------------------------------------------------------------------------
\* The destructors: the implementation's, its members', then the base class's.

\* Fault: the thread is left to itself.
SenderSync_destructor_without_join ==
  /\ kind \in Loops
  /\ destructor = "none"
  /\ destructor' = "base"
  /\ UNCHANGED worker

\* ~SenderSync, ~ReceiverSync, ~ReceiverNpcapSync: nothing asks the loop to
\* end, is_stopped_ is set by the base class and so later; join.
SenderSync_destructor ==
  /\ kind \in Loops
  /\ \/ /\ destructor = "none"
        /\ destructor' = "joining"
     \/ /\ destructor = "joining"
        /\ worker = "ended"
        /\ destructor' = "base"
  /\ UNCHANGED worker

\* cancel() makes a pending operation fail; it finds none if the worker is
\* inside a handler or the operation's completion is already queued.
Cancel ==
  worker' \in IF worker = "operating" THEN {"operating", "failed"} ELSE {worker}

\* ~SenderAsync: cancel and join.
SenderAsync_destructor ==
  /\ kind = "SenderAsync"
  /\ \/ /\ destructor = "none"
        /\ destructor' = "joining"
        /\ Cancel
     \/ /\ destructor = "joining"
        /\ worker = "ended"
        /\ destructor' = "base"
        /\ UNCHANGED worker

\* Fault: work_ is not reset, and run() does not return.
ReceiverAsync_destructor_keeps_work ==
  /\ kind = "ReceiverAsync"
  /\ destructor = "none"
  /\ destructor' = "joining"
  /\ Cancel

\* The receiver's io_context is kept running by work_, which is reset after
\* cancel(): from then on run() returns when nothing is pending.
ReceiverAsync_destructor ==
  /\ kind = "ReceiverAsync"
  /\ \/ /\ destructor = "none"
        /\ destructor' = "joining"
        /\ Cancel
     \/ /\ destructor = "joining"
        /\ worker = "idle"
        /\ worker' = "ended"
        /\ destructor' = "base"

\* close(), while a handler may be running.  Then the member socket_ is
\* destroyed, whose destructor joins the wait thread.
ReceiverNpcapAsync_destructor ==
  /\ kind = "ReceiverNpcapAsync"
  /\ \/ /\ destructor = "none"
        /\ destructor' = "closed"
        /\ UNCHANGED worker
     \/ /\ destructor = "closed"
        /\ destructor' = "joining"
        /\ UNCHANGED worker
     \/ /\ destructor = "joining"
        /\ worker = "idle"
        /\ worker' = "ended"
        /\ destructor' = "base"

\* A request that a closed SocketNpcap still has, or is given, is answered with
\* an error or, if the wait thread has just taken it or is gone, not at all.
closed_socket_answers ==
  /\ kind = "ReceiverNpcapAsync"
  /\ worker = "operating"
  /\ destructor \in {"closed", "joining"}
  /\ worker' \in {"failed", "idle"}
  /\ UNCHANGED <<kind, is_stopped_, statistics, tallies, destructor>>

\* main constructs and starts in one go: no implementation is destroyed before
\* its worker runs.
DerivedDestructor ==
  /\ worker # "none"
  /\ \/ SenderSync_destructor
     \/ SenderAsync_destructor
     \/ ReceiverAsync_destructor
     \/ ReceiverNpcapAsync_destructor
  /\ UNCHANGED <<kind, is_stopped_, statistics, tallies>>

\* ~Sender and ~Receiver: is_stopped_ under the mutex, then join the
\* statistics thread.
base_destructor ==
  /\ \/ /\ destructor = "base"
        /\ destructor' = "stopping"
        /\ is_stopped_' = TRUE
     \/ /\ destructor = "stopping"
        /\ statistics = "ended"
        /\ destructor' = "done"
        /\ UNCHANGED is_stopped_
  /\ UNCHANGED <<kind, worker, statistics, tallies>>

-----------------------------------------------------------------------------
WorkerStep ==
  \/ send_loop
  \/ SenderAsync_send_message
  \/ ReceiverAsync_receive_message
  \/ ReceiverNpcapAsync_receive_message
  \/ closed_socket_answers

DestructorStep == DerivedDestructor \/ base_destructor

\* Nothing is said of an object whose worker has missed its socket.
Next ==
  /\ worker # "missed"
  /\ \/ start
     \/ operation_ends
     \/ WorkerStep
     \/ StatisticsStep
     \/ DestructorStep

\* The three threads are scheduled and the one second of the statistics
\* passes.  Nobody has to begin a destruction, and no operation has to end.
Fairness ==
  /\ WF_vars(WorkerStep)
  /\ WF_vars(StatisticsStep /\ worker # "missed")
  /\ WF_vars(DestructorStep /\ destructor # "none" /\ worker # "missed")

Spec == Init /\ [][Next]_vars /\ Fairness

-----------------------------------------------------------------------------
\* Every message a worker counted is in exactly one place: printed, about to
\* be printed, or in the counter.  The worker counts and the statistics
\* thread swaps at any moment; at the end of the object the counter's rest is
\* the only thing not printed.
MessagesAreReportedOnce == handled = printed + swapped + messages_

\* The members a worker uses, the mutex and the counters of the base class,
\* are not destroyed before the worker has ended.  The price: is_stopped_ is
\* set when no worker is left to see it, so that it never ends a loop and a
\* destructor waits for an operation to fail.
WorkersEndBeforeTheirBase ==
  /\ destructor \in {"base", "stopping", "done"} => worker = "ended"
  /\ is_stopped_ => worker = "ended"

\* Once an operation has failed, and with SocketNpcap in any case, a destructor
\* that waits comes to its end: the handler or the loop gives up, whatever
\* keeps the thread running is taken from it, and the statistics thread sees
\* is_stopped_; or a handler of SocketNpcap misses the socket.
FailedWorkersLetTheDestructorEnd ==
  (/\ destructor = "joining"
   /\ \/ worker \in {"failed", "idle", "ended"}
      \/ kind = "ReceiverNpcapAsync")
    ~> (destructor = "done" \/ worker = "missed")

=============================================================================
