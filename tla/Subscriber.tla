----------------------------- MODULE Subscriber -----------------------------
(***************************************************************************)
(* One _Subscriber of a DataSet.  The main thread inserts rows, and each   *)
(* insert fires a trigger that calls _cache_data_to_queue; the subscriber  *)
(* thread polls _queue_length and hands what has come to the user's        *)
(* callback.  Completing the run makes the main thread call the callback   *)
(* itself; unsubscribing joins the thread.  The rows are inserted by the   *)
(* main thread: on the connection of the writer thread the trigger fails   *)
(* (DataSetWriter).                                                        *)
(*                                                                         *)
(* The n-th inserted row is the number n.  No lock protects the three      *)
(* fields both threads use, so every access of theirs is a step.           *)
(***************************************************************************)
EXTENDS Integers, Sequences

CONSTANTS MaxRows,           \* bound: rows inserted
          min_queue_length,  \* min_count of DataSet.subscribe
          MaxRaises          \* bound: callbacks that raise

ASSUME SubscriberAssumption == /\ MaxRows \in Nat
                               /\ min_queue_length \in Nat
                               /\ MaxRaises \in Nat

VARIABLES
  inserted,      \* rows in the results table
  data_queue,
  data_set_len,  \* _data_set_len
  queue_length,  \* _queue_length
  stop_signal,   \* _stop_signal
  completed,     \* of the DataSet
  main,          \* where the main thread is
  subscriber,    \* where the subscriber thread is
  read,          \* what the main thread has read from _queue_length
  held,          \* result_list of each thread that drains the queue
  delivered,     \* rows the callback has been given, in this order
  reported,      \* the length it was told with them
  raises         \* how often it has raised

fields == <<data_queue, data_set_len, queue_length, stop_signal>>
vars == <<inserted, fields, completed, main, subscriber, read, held, delivered,
          reported, raises>>

Threads == {"main", "subscriber"}

Rows == 1..MaxRows

TypeOK ==
  /\ inserted \in 0..MaxRows
  /\ data_queue \in Seq(Rows)
  /\ data_set_len \in 0..MaxRows
  /\ queue_length \in 0..MaxRows
  /\ stop_signal \in BOOLEAN
  /\ completed \in BOOLEAN
  /\ main \in {"idle", "put", "counted", "read", "drain", "mark", "join",
              "gone"}
  /\ subscriber \in {"poll", "drain", "call", "reset", "check", "last",
                    "last_call", "ended"}
  /\ read \in 0..MaxRows
  /\ held \in [Threads -> Seq(Rows)]
  /\ delivered \in Seq(Rows)
  /\ reported \in 0..MaxRows
  /\ raises \in 0..MaxRaises

Init ==
  /\ inserted = 0
  /\ data_queue = <<>>
  /\ data_set_len = 0
  /\ queue_length = 0
  /\ stop_signal = FALSE
  /\ completed = FALSE
  /\ main = "idle"
  /\ subscriber = "poll"
  /\ read = 0
  /\ held = [t \in Threads |-> <<>>]
  /\ delivered = <<>>
  /\ reported = 0
  /\ raises = 0

(* One turn of _exhaust_queue: get an item that is there.                  *)
Get(t) ==
  /\ data_queue # <<>>
  /\ held' = [held EXCEPT ![t] = Append(@, Head(data_queue))]
  /\ data_queue' = Tail(data_queue)

(* A slip: what a thread has drained stays with it.                        *)
CallKeeps(t) ==
  /\ delivered' = delivered \o held[t]
  /\ reported' = data_set_len
  /\ held' = held

(* A slip: min_count is applied to what was drained, also by the last call *)
(* of the callback.                                                        *)
CallIfEnough(t) ==
  /\ delivered' = IF Len(held[t]) >= min_queue_length
                    THEN delivered \o held[t] ELSE delivered
  /\ reported' = data_set_len
  /\ held' = [held EXCEPT ![t] = <<>>]

(* The callback is given the rows and the length.                          *)
Call(t) ==
  /\ delivered' = delivered \o held[t]
  /\ reported' = data_set_len
  /\ held' = [held EXCEPT ![t] = <<>>]

(* It raises after it has taken them.                                      *)
Raise == raises < MaxRaises /\ raises' = raises + 1

-----------------------------------------------------------------------------
(* The main thread.                                                        *)

(* An insert: the trigger puts the row on the queue and counts it twice.   *)
InsertRow ==
  /\ main = "idle"
  /\ ~completed
  /\ inserted < MaxRows
  /\ inserted' = inserted + 1
  /\ data_queue' = Append(data_queue, inserted + 1)
  /\ main' = "put"
  /\ UNCHANGED <<data_set_len, queue_length, stop_signal, completed,
                 subscriber, read, held, delivered, reported, raises>>

CountRow ==
  /\ main = "put"
  /\ data_set_len' = data_set_len + 1
  /\ main' = "counted"
  /\ UNCHANGED <<inserted, data_queue, queue_length, stop_signal, completed,
                 subscriber, read, held, delivered, reported, raises>>

(* _queue_length += 1 reads the field and then writes it.                  *)
ReadQueueLength ==
  /\ main = "counted"
  /\ read' = queue_length
  /\ main' = "read"
  /\ UNCHANGED <<inserted, fields, completed, subscriber, held, delivered,
                 reported, raises>>

CountQueue ==
  /\ main = "read"
  /\ queue_length' = read + 1
  /\ main' = "idle"
  /\ UNCHANGED <<inserted, data_queue, data_set_len, stop_signal, completed,
                 subscriber, read, held, delivered, reported, raises>>

(* mark_completed: done_callback, then the completed setter.               *)
MarkCompleted ==
  /\ main = "idle"
  /\ ~completed
  /\ main' = "drain"
  /\ UNCHANGED <<inserted, fields, completed, subscriber, read, held,
                 delivered, reported, raises>>

DrainByMain ==
  /\ main = "drain"
  /\ Get("main")
  /\ UNCHANGED <<inserted, data_set_len, queue_length, stop_signal, completed,
                 main, subscriber, read, delivered, reported, raises>>

(* A callback that raises leaves mark_completed: the run is not completed. *)
DoneCallback ==
  /\ main = "drain"
  /\ data_queue = <<>>
  /\ Call("main")
  /\ \/ main' = "mark" /\ UNCHANGED raises
     \/ main' = "idle" /\ Raise
  /\ UNCHANGED <<inserted, fields, completed, subscriber, read>>

SetCompleted ==
  /\ main = "mark"
  /\ completed' = TRUE
  /\ main' = "idle"
  /\ UNCHANGED <<inserted, fields, subscriber, read, held, delivered,
                 reported, raises>>

(* unsubscribe, and unsubscribe_all: the trigger is dropped, the thread is *)
(* told to stop and joined.                                                *)
ScheduleStop ==
  /\ main = "idle"
  /\ stop_signal' = TRUE
  /\ main' = "join"
  /\ UNCHANGED <<inserted, data_queue, data_set_len, queue_length, completed,
                 subscriber, read, held, delivered, reported, raises>>

(* A slip: the thread is not waited for.                                   *)
NotJoined == TRUE

Joined == subscriber = "ended"

Join ==
  /\ main = "join"
  /\ Joined
  /\ main' = "gone"
  /\ UNCHANGED <<inserted, fields, completed, subscriber, read, held,
                 delivered, reported, raises>>

-----------------------------------------------------------------------------
(* The subscriber thread: one turn of _loop.                               *)

(* A slip: the stop signal is not looked at.                               *)
PollForRows ==
  /\ subscriber = "poll"
  /\ subscriber' = IF queue_length >= min_queue_length THEN "drain"
                                                       ELSE "check"
  /\ UNCHANGED <<inserted, fields, completed, main, read, held, delivered,
                 reported, raises>>

Poll ==
  /\ subscriber = "poll"
  /\ subscriber' = CASE stop_signal -> "ended"
                     [] ~stop_signal /\ queue_length >= min_queue_length
                          -> "drain"
                     [] OTHER -> "check"
  /\ UNCHANGED <<inserted, fields, completed, main, read, held, delivered,
                 reported, raises>>

Drain ==
  /\ subscriber \in {"drain", "last"}
  /\ Get("subscriber")
  /\ UNCHANGED <<inserted, data_set_len, queue_length, stop_signal, completed,
                 main, subscriber, read, delivered, reported, raises>>

(* The queue is found empty; rows may come before the callback is called.  *)
Emptied ==
  /\ subscriber \in {"drain", "last"}
  /\ data_queue = <<>>
  /\ subscriber' = IF subscriber = "drain" THEN "call" ELSE "last_call"
  /\ UNCHANGED <<inserted, fields, completed, main, read, held, delivered,
                 reported, raises>>

(* A callback that raises ends the thread.                                 *)
Callback ==
  /\ subscriber \in {"call", "last_call"}
  /\ Call("subscriber")
  /\ \/ /\ subscriber' = IF subscriber = "call" THEN "reset" ELSE "ended"
        /\ UNCHANGED raises
     \/ subscriber' = "ended" /\ Raise
  /\ UNCHANGED <<inserted, fields, completed, main, read>>

ResetQueueLength ==
  /\ subscriber = "reset"
  /\ queue_length' = 0
  /\ subscriber' = "check"
  /\ UNCHANGED <<inserted, data_queue, data_set_len, stop_signal, completed,
                 main, read, held, delivered, reported, raises>>

CheckCompleted ==
  /\ subscriber = "check"
  /\ subscriber' = IF completed THEN "last" ELSE "poll"
  /\ UNCHANGED <<inserted, fields, completed, main, read, held, delivered,
                 reported, raises>>

-----------------------------------------------------------------------------
(* What remains of a call the main thread has begun.                       *)
MainStep ==
  \/ CountRow
  \/ ReadQueueLength
  \/ CountQueue
  \/ DrainByMain
  \/ DoneCallback
  \/ SetCompleted
  \/ Join

SubscriberStep ==
  \/ Poll
  \/ Drain
  \/ Emptied
  \/ Callback
  \/ ResetQueueLength
  \/ CheckCompleted

Next ==
  \/ InsertRow
  \/ MarkCompleted
  \/ ScheduleStop
  \/ MainStep
  \/ SubscriberStep

Spec == Init /\ [][Next]_vars

(* Both threads run.  The user need not call anything.                     *)
FairSpec == Spec /\ WF_vars(MainStep) /\ WF_vars(SubscriberStep)
-----------------------------------------------------------------------------
(* What must hold.                                                         *)

Elements(s) == {s[i] : i \in DOMAIN s}

(* While two threads drain the queue, every inserted row is in exactly one *)
(* place: no callback gets a row twice, and no row falls between them.     *)
RowsConserved ==
  LET parts == <<data_queue, held["main"], held["subscriber"], delivered>>
  IN /\ Elements(parts[1]) \cup Elements(parts[2]) \cup Elements(parts[3])
          \cup Elements(parts[4]) = 1..inserted
     /\ Len(parts[1]) + Len(parts[2]) + Len(parts[3]) + Len(parts[4])
          = inserted

(* Until mark_completed calls the callback as well, rows arrive in the     *)
(* order of their insertion; the length told with them, counted after a    *)
(* row is put on the queue, misses at most the last row given so far.      *)
DeliveredInOrder ==
  /\ ~completed /\ main \notin {"drain", "mark"} /\ raises = 0 =>
       \A i \in 1..Len(delivered) : delivered[i] = i
  /\ Len(delivered) <= reported + 1

(* Once unsubscribe has returned, the callback is never called again.      *)
SilentOnceUnsubscribed ==
  [][main = "gone" => UNCHANGED <<delivered, reported, raises>>]_vars

(* Whatever the two threads race for: every row of a run that has been     *)
(* completed reaches the callback.                                         *)
CompletionDelivers ==
  completed /\ ~stop_signal ~> \/ Elements(delivered) = 1..inserted
                               \/ stop_signal

(* unsubscribe returns: the thread ends once it is told to, or once the    *)
(* run is completed.                                                       *)
UnsubscribeReturns == main = "join" ~> main = "gone"

=============================================================================
