---------------------- MODULE DataSetWriterInvariants ----------------------
(***************************************************************************)
(* The inductive invariant behind RowsInOrder, in named parts.  It holds   *)
(* as long as nobody presses Ctrl-C, whatever else fails.                  *)
(***************************************************************************)
EXTENDS DataSetWriter

Item(i)  == data_write_queue[i]
First(i) == Item(i).rows[1]
After(i) == Item(i).rows[1] + Len(Item(i).rows)  \* the number after the last

(* The first result of run d that was not yet handed to a thread.          *)
Front(d) == measured[d] - Len(results[d]) + 1

(* Consecutive results, beginning with number n.                           *)
Stretch(rows, n) == \A k \in 1..Len(rows) : rows[k] = n + k - 1

DataItems(d) == {i \in DOMAIN data_write_queue :
                   Item(i).keys = "data" /\ Item(i).run = d}

(* A batch was got from the queue and not written: the writer thread died. *)
Lost == unfinished_tasks > Len(data_write_queue)

(* Queue.unfinished_tasks counts at least the items still in the queue:    *)
(* task_done never finds it at zero.                                       *)
UnfinishedCounts == unfinished_tasks >= Len(data_write_queue)

(* _results is the end of what was measured, and is not in the table yet.  *)
BuffersInOrder ==
  \A d \in Runs :
    /\ Len(results[d]) <= measured[d]
    /\ Stretch(results[d], Front(d))
    /\ Len(table[d]) < Front(d)

(* Each batch in the queue is a stretch of results; the batches of a run   *)
(* follow one another, after the table and before _results.                *)
BatchesInOrder ==
  \A d \in Runs : \A i \in DataItems(d) :
    /\ Item(i).rows # <<>>
    /\ Stretch(Item(i).rows, First(i))
    /\ Len(table[d]) < First(i)
    /\ After(i) <= Front(d)
    /\ \A j \in DataItems(d) : i < j => After(i) <= First(j)

(* Unless a batch was lost, no result is missing in between.               *)
NoHole ==
  ~Lost =>
    \A d \in Runs :
      /\ \A i \in DataItems(d) :
           \/ First(i) = Len(table[d]) + 1
           \/ \E k \in DataItems(d) : k < i /\ After(k) = First(i)
      /\ \/ is_completed[d]
         \/ Front(d) = Len(table[d]) + 1
         \/ \E k \in DataItems(d) : After(k) = Front(d)

ItemRuns ==
  \A i \in DOMAIN data_write_queue :
    Item(i).keys \in {"data", "finalize"} => Item(i).run \in Runs

(* Who writes: the thread while the mode is "bg", and the main thread only *)
(* when the queue has been emptied and the thread is gone.                 *)
WriterPhase ==
  /\ Lost => bg_writer = "dead"
  /\ write_in_background = "bg" =>
       bg_writer \in {"running", "dead"} /\ pc.at # "await_stop"
  /\ write_in_background # "bg" /\ pc.at # "await_stop" =>
       bg_writer = "none" /\ data_write_queue = <<>> /\ unfinished_tasks = 0
  /\ write_in_background = "bg" /\ active_datasets = {} =>
       /\ pc.at = "await_finalize"
       /\ bg_writer = "running"
       /\ data_write_queue = <<>>

(* While a finalize of an active run is queued, the main thread waits for  *)
(* it, and it is the last item.                                            *)
FinalizePhase ==
  \A i \in DOMAIN data_write_queue :
    /\ Item(i).keys = "finalize" =>
         /\ started[Item(i).run]
         /\ Item(i).run \in active_datasets =>
              /\ pc.at = "await_finalize"
              /\ pc.run = Item(i).run
              /\ i = Len(data_write_queue)
    /\ Item(i).keys = "stop" => pc.at = "await_stop"

(* What a handle and the main thread's place say of a run.                 *)
RunPhase ==
  /\ \A d \in Runs :
       /\ started[d] => handle[d] # "none"
       /\ handle[d] # "none" => d \in created
       /\ handle[d] # "none" /\ is_completed[d] => completed[d]
       /\ is_completed[d] => d \in created
  /\ pc.at # "idle" => handle[pc.run] # "none"
  /\ pc.at \in {"created", "starting"} => ~started[pc.run]
  /\ pc.at \in {"await_queue", "completing", "await_finalize", "await_stop",
                "sealing"} => started[pc.run]

Rows   == RowsInOrder /\ BuffersInOrder /\ BatchesInOrder /\ NoHole
Phases == ItemRuns /\ WriterPhase /\ FinalizePhase /\ RunPhase

OrderInv == Rows /\ Phases
-----------------------------------------------------------------------------
(* With the order: what the end of a run leaves behind.                    *)

(* The mode lasts as long as some run is active.                           *)
ModePhase ==
  /\ write_in_background = "none" => active_datasets = {}
  /\ write_in_background = "main" /\ active_datasets = {} =>
       pc.at = "await_finalize"

(* A blocking flush waits for rows that have left _results.                *)
AwaitPhase ==
  pc.at = "await_queue" => results[pc.run] = <<>> /\ ~completed[pc.run]

WithinBounds == \A d \in Runs : measured[d] <= MaxPoints

-----------------------------------------------------------------------------
(* The inductive invariant behind SealedIsFinal, however often a Ctrl-C    *)
(* breaks off a wait or a flush and whatever fails, unless a run is taken  *)
(* up by a new process.                                                    *)

(* The end of run d has been reached or begun: what is queued for it from  *)
(* now on makes it late.                                                   *)
Closing(d) ==
  \/ handle[d] = "interrupted"
  \/ completed[d]
  \/ pc.run = d /\ pc.at \in {"await_finalize", "await_stop", "sealing"}

(* Late runs apart, batches are queued for active runs only, and for the   *)
(* writer thread.                                                          *)
QueuedIsActive ==
  \A i \in DOMAIN data_write_queue :
    Item(i).keys = "data" /\ Item(i).run \notin late =>
      Item(i).run \in active_datasets /\ write_in_background = "bg"

(* No batch of a run that is not late is queued behind its finalize.       *)
FinalizeIsLast ==
  \A i \in DOMAIN data_write_queue : Item(i).keys = "finalize" =>
    /\ Closing(Item(i).run)
    /\ Item(i).run \notin late =>
         \A j \in DataItems(Item(i).run) : j < i

(* An active run is not completed, and a started one leaves the active     *)
(* runs only when it is closed.                                            *)
ActiveIsOpen ==
  \A d \in Runs :
    /\ d \in active_datasets => run_timestamp[d] /\ ~is_completed[d]
    /\ started[d] /\ d \notin active_datasets => Closing(d)

(* What is in the file and what its handle knows.                          *)
HandleTruth ==
  \A d \in Runs :
    /\ started[d] => run_timestamp[d]
    /\ completed[d] => started[d] /\ handle[d] # "runner"
    /\ is_completed[d] => run_timestamp[d]
    /\ run_timestamp[d] => d \in created
    /\ is_completed[d] /\ handle[d] # "none" => completed[d]
    /\ handle[d] = "none" => ~started[d] /\ d \notin active_datasets
    /\ handle[d] # "none" \/ d \in late => d \in created

(* What the main thread's place says of its run.                           *)
PlaceTruth ==
  /\ pc.at = "idle" => pc.run = NoRun
  /\ pc.at # "idle" => handle[pc.run] # "none"
  /\ pc.at \in {"created", "starting"} =>
       ~started[pc.run] /\ handle[pc.run] # "interrupted"
  /\ pc.at \in {"await_queue", "completing", "await_finalize", "await_stop",
                "sealing"} => started[pc.run] /\ ~completed[pc.run]
  /\ pc.at = "await_queue" => handle[pc.run] = "runner"
  /\ pc.at = "completing" /\ pc.flag => handle[pc.run] = "runner"
  /\ pc.at \in {"await_stop", "sealing"} => pc.run \notin active_datasets
  /\ pc.at = "await_stop" => write_in_background = "none"

ClosedInv ==
  /\ QueuedIsActive /\ FinalizeIsLast /\ ActiveIsOpen
  /\ HandleTruth /\ PlaceTruth

-----------------------------------------------------------------------------
(* With the closing: the inductive invariant behind CompletedIsDurable,    *)
(* as long as no transaction raises.                                       *)

InRows(rows, n) == \E i \in DOMAIN rows : rows[i] = n

(* A batch of run d was dropped by a thread that died: no completion of    *)
(* the run will get past it.                                               *)
Dropped(d) == /\ d \in active_datasets
              /\ write_in_background = "bg"
              /\ bg_writer = "dead"

(* Result n of run d has left _results, and is not forgotten.              *)
Landed(d, n) == InRows(table[d], n) \/ Queued(d, n) \/ Dropped(d)

AllKept ==
  \A d \in Runs \ late : handle[d] # "none" \/ is_completed[d] =>
    \A n \in 1..measured[d] : InRows(results[d], n) \/ Landed(d, n)

(* _results is emptied before the main thread waits for the run.           *)
BufferedIsOpen ==
  \A d \in Runs : results[d] # <<>> => handle[d] = "runner" /\ pc.run # d

Untouched ==
  \A d \in Runs :
    /\ d \notin created =>
         handle[d] = "none" /\ measured[d] = 0 /\ table[d] = <<>>
    /\ d \in live_triggers => d \in created
    /\ d \in dead_triggers => d \in created /\ handle[d] = "none"

KeptInv == AllKept /\ BufferedIsOpen /\ Untouched
=============================================================================
