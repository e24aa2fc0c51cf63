---------------------------- MODULE DataSetWriter ----------------------------
(***************************************************************************)
(* How the rows of a run reach the SQLite file: the DataSet handles of one *)
(* Python process, the DataSaver buffers of its Runners, and the one       *)
(* _BackgroundWriter thread that every run of the same database file       *)
(* shares through _WRITERS[path].                                          *)
(*                                                                         *)
(* Two threads act.  The main thread runs the user's program: it calls one *)
(* operation at a time, and an operation that waits for the other thread   *)
(* (Queue.join, the active_datasets poll, Thread.join) is split where it   *)
(* waits.  The writer thread gets one queue item at a time.  A crash loses *)
(* everything but the database.                                            *)
(*                                                                         *)
(* The n-th result handed over for a run is the number n, so a results     *)
(* table is a sequence of numbers and a lost, duplicated or reordered row  *)
(* shows in it.                                                            *)
(***************************************************************************)
EXTENDS Integers, Sequences, FiniteSets

CONSTANTS
  Runs,       \* the run ids create_run may hand out, on one database file
  NoRun,      \* no run: the operand of an operation that has none
  Faults,     \* what may go wrong, a subset of FaultKinds
  MaxPoints,  \* bound: results handed over for one run
  MaxStarts,  \* bound: mark_started calls on one run
  MaxInterrupts  \* bound: Ctrl-C while the main thread waits or flushes

(* "write": a transaction raises (disk full, locked file).  "subscribe":   *)
(* subscribers are attached.  "crash": the process is killed.  "resume": a *)
(* run found in the file is opened with load_by_id and written to.         *)
(* "cache": the cache of a run is read before the run is started.  "exit": *)
(* an exit action of the Measurement raises.                               *)
FaultKinds == {"write", "subscribe", "crash", "resume", "cache", "exit"}

ASSUME RunsAssumption   == NoRun \notin Runs
ASSUME FaultsAssumption == Faults \subseteq FaultKinds
ASSUME BoundsAssumption == /\ MaxPoints \in Nat
                           /\ MaxStarts \in Nat
                           /\ MaxInterrupts \in Nat

VARIABLES
  \* the database file
  created,         \* runs with a row in the runs table
  parameters,      \* times the run's parameters were written
  run_timestamp,   \* run_timestamp IS NOT NULL
  is_completed,
  table,           \* results table of each run
  live_triggers,   \* runs with a trigger whose function this process defined
  dead_triggers,   \* runs with a trigger left behind by a dead process
  \* the DataSet objects, at most one per run
  handle,          \* one of HandleKinds
  started,         \* _started
  completed,       \* _completed
  results,         \* _results, enqueued and not yet flushed
  measured,        \* results handed over so far
  \* _WRITERS[path]
  write_in_background,  \* None, True, False: "none", "bg", "main"
  active_datasets,
  data_write_queue,
  unfinished_tasks,     \* of the queue: put and not yet task_done
  bg_writer,            \* None; the thread alive; past its last item; dead
  \* the main thread
  pc,
  interrupts,      \* Ctrl-C so far
  late             \* runs that were given results for the writer thread
                   \* after a Ctrl-C had broken off their completion

db      == <<created, parameters, run_timestamp, is_completed, table,
             live_triggers, dead_triggers>>
handles == <<handle, started, completed, results, measured>>
queue   == <<data_write_queue, unfinished_tasks>>
writer  == <<write_in_background, active_datasets, bg_writer>>
main    == <<pc, interrupts, late>>
vars    == <<db, handles, queue, writer, main>>

DataItem(d, rows) == [keys |-> "data", run |-> d, rows |-> rows]
FinalizeItem(d)   == [keys |-> "finalize", run |-> d, rows |-> <<>>]
StopItem          == [keys |-> "stop", run |-> NoRun, rows |-> <<>>]

Items == [keys : {"data", "finalize", "stop"}, run : Runs \cup {NoRun},
          rows : Seq(Nat)]

(* No handle; inside Measurement.run; a DataSet in the user's hands; one    *)
(* whose completion a Ctrl-C broke off.  The last is no different to the    *)
(* code: results are taken as before, and it may be completed once more.   *)
HandleKinds == {"none", "runner", "dataset", "interrupted"}

UserHandles == {"dataset", "interrupted"}

(* Where the main thread is: "idle" between operations; in __enter__ of a  *)
(* Runner with its run created; in mark_started after the parameters are   *)
(* written; in flush(block=True) before the queue is joined; in            *)
(* mark_completed before the finalize, waiting for it, waiting for the     *)
(* thread to stop, before is_completed is written.                         *)
Places == {"idle", "created", "starting", "await_queue", "completing",
           "await_finalize", "await_stop", "sealing"}

At(place, d, flag) == [at |-> place, run |-> d, flag |-> flag]
Idle == At("idle", NoRun, FALSE)

DbTypes ==
  /\ created \subseteq Runs
  /\ parameters \in [Runs -> Nat]
  /\ run_timestamp \in [Runs -> BOOLEAN]
  /\ is_completed \in [Runs -> BOOLEAN]
  /\ table \in [Runs -> Seq(Nat)]
  /\ live_triggers \subseteq Runs
  /\ dead_triggers \subseteq Runs

HandleTypes ==
  /\ handle \in [Runs -> HandleKinds]
  /\ started \in [Runs -> BOOLEAN]
  /\ completed \in [Runs -> BOOLEAN]
  /\ results \in [Runs -> Seq(Nat)]
  /\ measured \in [Runs -> Nat]

QueueTypes ==
  /\ data_write_queue \in Seq(Items)
  /\ unfinished_tasks \in Nat

WriterTypes ==
  /\ write_in_background \in {"none", "bg", "main"}
  /\ active_datasets \subseteq Runs
  /\ bg_writer \in {"none", "running", "stopping", "dead"}

MainTypes ==
  /\ pc \in [at : Places, run : Runs \cup {NoRun}, flag : BOOLEAN]
  /\ pc.at # "idle" => pc.run \in Runs
  /\ interrupts \in Nat
  /\ late \subseteq Runs

TypeOK == DbTypes /\ HandleTypes /\ QueueTypes /\ WriterTypes /\ MainTypes

Init ==
  /\ created = {}
  /\ parameters = [d \in Runs |-> 0]
  /\ run_timestamp = [d \in Runs |-> FALSE]
  /\ is_completed = [d \in Runs |-> FALSE]
  /\ table = [d \in Runs |-> <<>>]
  /\ live_triggers = {}
  /\ dead_triggers = {}
  /\ handle = [d \in Runs |-> "none"]
  /\ started = [d \in Runs |-> FALSE]
  /\ completed = [d \in Runs |-> FALSE]
  /\ results = [d \in Runs |-> <<>>]
  /\ measured = [d \in Runs |-> 0]
  /\ write_in_background = "none"
  /\ active_datasets = {}
  /\ data_write_queue = <<>>
  /\ unfinished_tasks = 0
  /\ bg_writer = "none"
  /\ pc = Idle
  /\ interrupts = 0
  /\ late = {}

-----------------------------------------------------------------------------
(* Helpers.  A definition introduced as a slip is used nowhere: it is a    *)
(* bug that the runs must notice when it takes the place of the definition *)
(* after it.                                                               *)

IsAlive == bg_writer \in {"running", "stopping"}

(* A slip: the newest item is served first.                                *)
PutFirst(item) == /\ data_write_queue' = <<item>> \o data_write_queue
                  /\ unfinished_tasks' = unfinished_tasks + 1

Put(item) == /\ data_write_queue' = Append(data_write_queue, item)
             /\ unfinished_tasks' = unfinished_tasks + 1

(* The main thread's own insert.  A trigger of a dead process calls a      *)
(* function nobody defines any more, and the insert raises.                *)
InsertFails(d) == \/ "write" \in Faults
                  \/ d \in dead_triggers

(* DataSet.add_results on a writable run: the batch is queued for the      *)
(* writer thread, or inserted here in one transaction.                     *)
AddResultsTo(d, rows) ==
  \/ /\ write_in_background = "bg"
     /\ Put(DataItem(d, rows))
     /\ UNCHANGED db
  \/ /\ write_in_background # "bg"
     /\ d \notin dead_triggers
     /\ table' = [table EXCEPT ![d] = @ \o rows]
     /\ UNCHANGED <<created, parameters, run_timestamp, is_completed,
                    live_triggers, dead_triggers, queue>>

(* A slip: _results survives a successful flush.                           *)
KeepResults(d) == results' = results

ClearResults(d) == results' = [results EXCEPT ![d] = <<>>]

(* _flush_data_to_database with rows in _results: a failing insert is      *)
(* logged, the rows stay in _results and the caller is told nothing.       *)
Flush(d, rows) ==
  \/ /\ rows = <<>>
     /\ ClearResults(d)
     /\ UNCHANGED <<db, queue>>
  \/ /\ rows # <<>>
     /\ AddResultsTo(d, rows)
     /\ ClearResults(d)
  \/ /\ rows # <<>>
     /\ write_in_background # "bg"
     /\ InsertFails(d)
     /\ results' = [results EXCEPT ![d] = rows]
     /\ UNCHANGED <<db, queue>>

-----------------------------------------------------------------------------
(* The main thread: operations.                                            *)

(* A new run in the file.                                                  *)
Create(d, how) ==
  /\ pc = Idle
  /\ d \notin created
  /\ created' = created \cup {d}
  /\ handle' = [handle EXCEPT ![d] = how]
  /\ UNCHANGED <<parameters, run_timestamp, is_completed, table,
                 live_triggers, dead_triggers, started, completed, results,
                 measured, queue, writer, interrupts, late>>

(* new_data_set, called by the user.                                       *)
NewDataSet(d) == Create(d, "dataset") /\ UNCHANGED pc

(* Runner.__enter__ creates the run and goes on to prepare it.             *)
RunnerEnter(d, write_in_bg) ==
  /\ Create(d, "runner")
  /\ pc' = At("created", d, write_in_bg)

(* load_by_id: what the handle knows is read from the file.                *)
Load(d) ==
  /\ "resume" \in Faults
  /\ pc = Idle
  /\ d \in created
  /\ handle[d] = "none"
  /\ handle' = [handle EXCEPT ![d] = "dataset"]
  /\ started' = [started EXCEPT ![d] = run_timestamp[d]]
  /\ completed' = [completed EXCEPT ![d] = is_completed[d]]
  /\ UNCHANGED <<db, results, measured, queue, writer, main>>

(* mark_started, first half: add_parameter and the run description, each   *)
(* in a transaction of its own that is committed before the next one.      *)
WriteParameters(d, start_bg_writer) ==
  /\ parameters' = [parameters EXCEPT ![d] = @ + 1]
  /\ pc' = At("starting", d, start_bg_writer)
  /\ UNCHANGED <<created, run_timestamp, is_completed, table, live_triggers,
                 dead_triggers, handles, queue, writer, interrupts, late>>

MarkStarted(d, start_bg_writer) ==
  /\ pc = Idle
  /\ handle[d] = "dataset"
  /\ ~started[d]
  /\ parameters[d] < MaxStarts
  /\ WriteParameters(d, start_bg_writer)

(* DataSet.prepare, called in Runner.__enter__.                            *)
Prepare ==
  /\ pc.at = "created"
  /\ WriteParameters(pc.run, pc.flag)

(* mark_started raises: the with statement of a Runner is never entered    *)
(* and the dataset is left to the user.                                    *)
StartRaises(d) ==
  /\ pc' = Idle
  /\ handle' = [handle EXCEPT ![d] = "dataset"]
  /\ UNCHANGED <<created, parameters, is_completed, table, live_triggers,
                 dead_triggers, started, completed, results, measured, queue,
                 interrupts, late>>

Mode(start_bg_writer) == IF start_bg_writer THEN "bg" ELSE "main"

(* A slip: the mode of the other active runs is not looked at.             *)
MayAlwaysMix(mode) == FALSE

MayNotMix(mode) == write_in_background \notin {"none", mode}

Register(d, mode) ==
  /\ write_in_background' = mode
  /\ bg_writer' = IF mode = "bg" /\ ~IsAlive THEN "running" ELSE bg_writer
  /\ active_datasets' = active_datasets \cup {d}

(* mark_started, second half.  The timestamp is committed before the mode  *)
(* is looked at; a Thread object that has ended cannot be started again;   *)
(* a cache that is not empty is noticed last.                              *)
PerformStartActions ==
  LET d == pc.run
      mode == Mode(pc.flag)
      stamp == run_timestamp' = [run_timestamp EXCEPT ![d] = TRUE]
      proper == ~run_timestamp[d] /\ ~MayNotMix(mode)
  IN /\ pc.at = "starting"
     /\ \/ /\ "write" \in Faults
           /\ stamp \/ UNCHANGED run_timestamp
           /\ StartRaises(d)
           /\ UNCHANGED writer
        \/ /\ run_timestamp[d] \/ MayNotMix(mode)
           /\ stamp
           /\ StartRaises(d)
           /\ UNCHANGED writer
        \/ /\ proper
           /\ mode = "bg" /\ bg_writer = "dead"
           /\ stamp
           /\ write_in_background' = mode
           /\ StartRaises(d)
           /\ UNCHANGED <<active_datasets, bg_writer>>
        \/ /\ proper
           /\ mode = "main" \/ bg_writer # "dead"
           /\ "cache" \in Faults /\ handle[d] = "dataset"
           /\ stamp
           /\ Register(d, mode)
           /\ StartRaises(d)
        \/ /\ proper
           /\ mode = "main" \/ bg_writer # "dead"
           /\ stamp
           /\ Register(d, mode)
           /\ started' = [started EXCEPT ![d] = TRUE]
           /\ pc' = Idle
           /\ UNCHANGED <<created, parameters, is_completed, table,
                          live_triggers, dead_triggers, handle, completed,
                          results, measured, queue, interrupts, late>>

(* A slip: a completed run still counts as writable.                       *)
EverWritable(d) == started[d]

Writable(d) == started[d] /\ ~completed[d]

(* DataSaver.add_result: the result joins _results; a flush follows when   *)
(* write_period has passed since the last one.                             *)
AddResult(d) ==
  LET rows == Append(results[d], measured[d] + 1)
  IN /\ pc = Idle
     /\ handle[d] = "runner"
     /\ Writable(d)
     /\ measured[d] < MaxPoints
     /\ measured' = [measured EXCEPT ![d] = @ + 1]
     /\ \/ /\ results' = [results EXCEPT ![d] = rows]
           /\ UNCHANGED <<db, queue>>
        \/ Flush(d, rows)
     /\ UNCHANGED <<handle, started, completed, writer, main>>

(* DataSaver.flush_data_to_database; block waits for the writer thread.    *)
FlushData(d, block) ==
  /\ pc = Idle
  /\ handle[d] = "runner"
  /\ Writable(d)
  /\ Flush(d, results[d])
  /\ pc' = IF write_in_background = "bg" /\ block
             THEN At("await_queue", d, FALSE) ELSE Idle
  /\ UNCHANGED <<handle, started, completed, measured, writer, interrupts,
                 late>>

(* A Ctrl-C after add_results took the rows and before _results = [].      *)
FlushInterrupted(d) ==
  /\ interrupts < MaxInterrupts
  /\ interrupts' = interrupts + 1
  /\ pc = Idle
  /\ handle[d] = "runner"
  /\ Writable(d)
  /\ results[d] # <<>>
  /\ AddResultsTo(d, results[d])
  /\ UNCHANGED <<handles, writer, pc, late>>

(* DataSet.add_results called by the user: a failing insert raises and the *)
(* row is still the user's.  After a completion that was broken off it     *)
(* works as before, whether or not the run is still an active one.         *)
AddResults(d) ==
  /\ pc = Idle
  /\ handle[d] \in UserHandles
  /\ Writable(d)
  /\ results[d] = <<>>
  /\ measured[d] < MaxPoints
  /\ measured' = [measured EXCEPT ![d] = @ + 1]
  /\ AddResultsTo(d, <<measured[d] + 1>>)
  /\ late' = IF handle[d] = "interrupted" /\ write_in_background = "bg"
               THEN late \cup {d} ELSE late
  /\ UNCHANGED <<handle, started, completed, results, writer, pc,
                 interrupts>>

(* _Subscriber.__init__ and start, _Subscriber's removal: the trigger is   *)
(* in the file, the function it calls is on this DataSet's connection.     *)
Subscribe(d) ==
  /\ "subscribe" \in Faults
  /\ pc = Idle
  /\ handle[d] # "none"
  /\ live_triggers' = live_triggers \cup {d}
  /\ UNCHANGED <<created, parameters, run_timestamp, is_completed, table,
                 dead_triggers, handles, queue, writer, main>>

Unsubscribe(d) ==
  /\ pc = Idle
  /\ d \in live_triggers
  /\ live_triggers' = live_triggers \ {d}
  /\ UNCHANGED <<created, parameters, run_timestamp, is_completed, table,
                 dead_triggers, handles, queue, writer, main>>

(* Runner.__exit__ up to the end of flush_data_to_database(block=True).    *)
RunnerExit(d) ==
  /\ pc = Idle
  /\ handle[d] = "runner"
  /\ Writable(d)
  /\ Flush(d, results[d])
  /\ pc' = At(IF write_in_background = "bg" THEN "await_queue"
                                            ELSE "completing", d, TRUE)
  /\ UNCHANGED <<handle, started, completed, measured, writer, interrupts,
                 late>>

(* Queue.join at the end of a blocking flush.                              *)
AwaitQueue ==
  /\ pc.at = "await_queue"
  /\ unfinished_tasks = 0
  /\ pc' = IF pc.flag THEN At("completing", pc.run, TRUE) ELSE Idle
  /\ UNCHANGED <<db, handles, queue, writer, interrupts, late>>

(* A teardown function raises, or the exception of the measurement cannot  *)
(* be stored as metadata: Runner.__exit__ ends before mark_completed and   *)
(* the dataset is left to the user.                                        *)
ExitRaises ==
  /\ "exit" \in Faults
  /\ pc.at = "completing"
  /\ pc.flag
  /\ handle' = [handle EXCEPT ![pc.run] = "dataset"]
  /\ pc' = Idle
  /\ UNCHANGED <<db, started, completed, results, measured, queue, writer,
                 interrupts, late>>

(* DataSet.mark_completed called by the user.                              *)
MarkCompleted(d) ==
  /\ pc = Idle
  /\ handle[d] \in UserHandles
  /\ Writable(d)
  /\ pc' = At("completing", d, FALSE)
  /\ UNCHANGED <<db, handles, queue, writer, interrupts, late>>

(* _ensure_dataset_written before its wait.                                *)
EnsureDatasetWritten ==
  LET d == pc.run
  IN /\ pc.at = "completing"
     /\ \/ /\ write_in_background = "bg"
           /\ Put(FinalizeItem(d))
           /\ UNCHANGED active_datasets
        \/ /\ write_in_background # "bg"
           /\ active_datasets' = active_datasets \ {d}
           /\ UNCHANGED queue
     /\ pc' = At("await_finalize", d, pc.flag)
     /\ UNCHANGED <<db, handles, write_in_background, bg_writer, interrupts,
                    late>>

(* A slip: the wait for the finalize item is left out.                     *)
WrittenAtOnce(d) == TRUE

Written(d) == d \notin active_datasets

(* A slip: the run being completed is counted among the active ones.       *)
LastRunOffByOne == Cardinality(active_datasets) <= 1

LastRun == active_datasets = {}

(* _ensure_dataset_written once the run is no longer active: the last run  *)
(* shuts the writer down, if the thread is alive.                          *)
ReleaseWriter ==
  LET d == pc.run
  IN /\ pc.at = "await_finalize"
     /\ Written(d)
     /\ \/ /\ ~LastRun
           /\ pc' = At("sealing", d, pc.flag)
           /\ UNCHANGED <<write_in_background, bg_writer, queue>>
        \/ /\ LastRun
           /\ IsAlive
           /\ write_in_background' = "none"
           /\ Put(StopItem)
           /\ pc' = At("await_stop", d, pc.flag)
           /\ UNCHANGED bg_writer
        \/ /\ LastRun
           /\ ~IsAlive
           /\ write_in_background' = "none"
           /\ bg_writer' = "none"
           /\ pc' = At("sealing", d, pc.flag)
           /\ UNCHANGED queue
     /\ UNCHANGED <<db, handles, active_datasets, interrupts, late>>

(* Queue.join and Thread.join of _BackgroundWriter.shutdown.               *)
AwaitStop ==
  /\ pc.at = "await_stop"
  /\ unfinished_tasks = 0
  /\ bg_writer = "dead"
  /\ bg_writer' = "none"
  /\ pc' = At("sealing", pc.run, pc.flag)
  /\ UNCHANGED <<db, handles, queue, write_in_background, active_datasets,
                 interrupts, late>>

(* The completed setter, then the rest of Runner.__exit__: unsubscribe_all *)
(* drops every trigger of the file.  _completed is set before the file is. *)
Seal ==
  LET d == pc.run
  IN /\ pc.at = "sealing"
     /\ completed' = [completed EXCEPT ![d] = TRUE]
     /\ is_completed' = [is_completed EXCEPT ![d] = TRUE]
     /\ handle' = [handle EXCEPT ![d] = "dataset"]
     /\ live_triggers' = IF pc.flag THEN {} ELSE live_triggers
     /\ dead_triggers' = IF pc.flag THEN {} ELSE dead_triggers
     /\ pc' = Idle
     /\ UNCHANGED <<created, parameters, run_timestamp, table, started,
                    results, measured, queue, writer, interrupts, late>>

SealFails ==
  LET d == pc.run
  IN /\ pc.at = "sealing"
     /\ "write" \in Faults
     /\ completed' = [completed EXCEPT ![d] = TRUE]
     /\ handle' = [handle EXCEPT ![d] = "dataset"]
     /\ pc' = Idle
     /\ UNCHANGED <<db, started, results, measured, queue, writer, interrupts,
                    late>>

-----------------------------------------------------------------------------
(* The writer thread.  An item is got, handled and marked done in one      *)
(* step: the thread touches nothing of the main thread's in between.       *)

GetItem(keys) ==
  /\ bg_writer = "running"
  /\ data_write_queue # <<>>
  /\ Head(data_write_queue).keys = keys
  /\ data_write_queue' = Tail(data_write_queue)

(* A slip: task_done is forgotten.                                         *)
TaskNotDone == unfinished_tasks' = unfinished_tasks

TaskDone == unfinished_tasks' = unfinished_tasks - 1

(* insert_many_values of one batch on the thread's own connection, which   *)
(* defines none of the functions that triggers call.                       *)
WriteItem ==
  LET item == Head(data_write_queue)
  IN /\ GetItem("data")
     /\ item.run \notin live_triggers \cup dead_triggers
     /\ table' = [table EXCEPT ![item.run] = @ \o item.rows]
     /\ TaskDone
     /\ UNCHANGED <<created, parameters, run_timestamp, is_completed,
                    live_triggers, dead_triggers, handles, writer, main>>

(* A slip: task_done is called although the item was not written.          *)
WriterDiesDone ==
  /\ bg_writer' = "dead"
  /\ TaskDone
  /\ UNCHANGED <<db, handles, write_in_background, active_datasets, main>>

(* An exception leaves run(): the item is neither written nor marked done  *)
(* and the thread is gone.                                                 *)
WriterDies ==
  /\ bg_writer' = "dead"
  /\ UNCHANGED <<db, handles, unfinished_tasks, write_in_background,
                 active_datasets, main>>

WriteFails ==
  /\ GetItem("data")
  /\ \/ "write" \in Faults
     \/ Head(data_write_queue).run \in live_triggers \cup dead_triggers
  /\ WriterDies

FinalizeRun ==
  LET d == Head(data_write_queue).run
  IN /\ GetItem("finalize")
     /\ d \in active_datasets
     /\ active_datasets' = active_datasets \ {d}
     /\ TaskDone
     /\ UNCHANGED <<db, handles, write_in_background, bg_writer, main>>

(* set.remove of a run that is not active raises KeyError.                 *)
FinalizeUnknown ==
  /\ GetItem("finalize")
  /\ Head(data_write_queue).run \notin active_datasets
  /\ WriterDies

StopWriting ==
  /\ GetItem("stop")
  /\ bg_writer' = "stopping"
  /\ TaskDone
  /\ UNCHANGED <<db, handles, write_in_background, active_datasets, main>>

WriterExit ==
  /\ bg_writer = "stopping"
  /\ bg_writer' = "dead"
  /\ UNCHANGED <<db, handles, queue, write_in_background, active_datasets, main>>

-----------------------------------------------------------------------------
(* The environment.                                                        *)

(* KeyboardInterrupt leaves a wait; inside Runner.__exit__ it takes the    *)
(* second Ctrl-C.  A with statement that was being left is over, and the   *)
(* dataset is the user's.                                                  *)
KeyboardInterrupt ==
  /\ interrupts < MaxInterrupts
  /\ interrupts' = interrupts + 1
  /\ \/ /\ pc.at \in {"await_finalize", "await_stop"}
        /\ handle' = [handle EXCEPT ![pc.run] = "interrupted"]
     \/ /\ pc.at = "await_queue" /\ pc.flag
        /\ handle' = [handle EXCEPT ![pc.run] = "dataset"]
     \/ /\ pc.at = "await_queue" /\ ~pc.flag
        /\ UNCHANGED handle
  /\ pc' = Idle
  /\ UNCHANGED <<db, started, completed, results, measured, queue, writer,
                 late>>

(* The process dies and a new one starts: SQLite keeps what was committed. *)
(* Of an unfinished run the results that were not written are forgotten.   *)
Crash ==
  /\ "crash" \in Faults
  /\ handle' = [d \in Runs |-> "none"]
  /\ started' = [d \in Runs |-> FALSE]
  /\ completed' = [d \in Runs |-> FALSE]
  /\ results' = [d \in Runs |-> <<>>]
  /\ measured' = [d \in Runs |-> IF is_completed[d] THEN measured[d]
                                                    ELSE Len(table[d])]
  /\ write_in_background' = "none"
  /\ active_datasets' = {}
  /\ data_write_queue' = <<>>
  /\ unfinished_tasks' = 0
  /\ bg_writer' = "none"
  /\ live_triggers' = {}
  /\ dead_triggers' = dead_triggers \cup live_triggers
  /\ pc' = Idle
  /\ UNCHANGED <<created, parameters, run_timestamp, is_completed, table,
                 interrupts, late>>

-----------------------------------------------------------------------------
UserOperation ==
  \E d \in Runs :
    \/ NewDataSet(d)
    \/ \E bg \in BOOLEAN : RunnerEnter(d, bg)
    \/ Load(d)
    \/ \E bg \in BOOLEAN : MarkStarted(d, bg)
    \/ AddResult(d)
    \/ \E block \in BOOLEAN : FlushData(d, block)
    \/ FlushInterrupted(d)
    \/ AddResults(d)
    \/ Subscribe(d)
    \/ Unsubscribe(d)
    \/ RunnerExit(d)
    \/ MarkCompleted(d)

(* What remains of an operation that has begun.                            *)
Continue ==
  \/ Prepare
  \/ PerformStartActions
  \/ AwaitQueue
  \/ ExitRaises
  \/ EnsureDatasetWritten
  \/ ReleaseWriter
  \/ AwaitStop
  \/ Seal
  \/ SealFails

WriterStep ==
  \/ WriteItem
  \/ WriteFails
  \/ FinalizeRun
  \/ FinalizeUnknown
  \/ StopWriting
  \/ WriterExit

Next ==
  \/ UserOperation
  \/ Continue
  \/ WriterStep
  \/ KeyboardInterrupt
  \/ Crash

Spec == Init /\ [][Next]_vars

(* Both threads run: neither a begun operation nor the writer thread is    *)
(* suspended for ever.  The user need not call anything.                   *)
Fairness == WF_vars(Continue) /\ WF_vars(WriterStep)

FairSpec == Spec /\ Fairness
-----------------------------------------------------------------------------
(* What must hold.                                                         *)

(* No row is lost, duplicated or reordered on its way through _results and *)
(* the queue: the table holds results 1, 2, ..., whoever wrote them.       *)
RowsInOrder == \A d \in Runs : \A i \in 1..Len(table[d]) : table[d][i] = i

(* What mark_completed waits for: when is_completed is in the file, so is  *)
(* every result handed over for the run.  Results queued after a Ctrl-C    *)
(* had broken off the completion are nobody's: the second mark_completed   *)
(* of a run that is not active any more waits for nothing.                 *)
CompletedIsDurable ==
  \A d \in Runs \ late : is_completed[d] =>
    \A n \in 1..measured[d] : \E i \in 1..Len(table[d]) : table[d][i] = n

(* flush_data_to_database(block=True) never returns with rows of the run   *)
(* still to be written, even if the writer thread has failed.              *)
JoinIsDurable ==
  pc.at = "await_queue" /\ unfinished_tasks = 0 =>
    Len(table[pc.run]) = measured[pc.run]

(* A completed DataSet is not modified: its results table is final, again  *)
(* unless results were queued after its completion had been broken off.    *)
SealedIsFinal ==
  [][\A d \in Runs \ late : is_completed[d] => table'[d] = table[d]]_vars

(* The writer thread and the mode last exactly as long as some run is      *)
(* active: the last mark_completed leaves neither behind, so the next      *)
(* measurement may choose its mode.                                        *)
WriterReleased ==
  pc = Idle =>
    /\ active_datasets = {} <=> write_in_background = "none"
    /\ bg_writer # "none" <=> write_in_background = "bg"

(* "You cannot mix": when the main thread inserts rows itself there is no  *)
(* writer thread and nothing is queued for one.                            *)
MainWritesAlone ==
  [][table' # table /\ data_write_queue' = data_write_queue =>
       bg_writer = "none" /\ data_write_queue = <<>>]_vars

(* Every call returns: none of the three waits of the main thread lasts    *)
(* for ever.                                                               *)
MainReturns == pc # Idle ~> pc = Idle

(* Leaving the context of a Measurement run completes the run in the file. *)
ExitCompletes ==
  \A d \in Runs :
    (pc.run = d /\ pc.flag /\ pc.at \notin {"created", "starting"})
    ~> is_completed[d]

Queued(d, n) ==
  \E i \in DOMAIN data_write_queue :
    /\ data_write_queue[i].keys = "data"
    /\ data_write_queue[i].run = d
    /\ \E j \in DOMAIN data_write_queue[i].rows :
         data_write_queue[i].rows[j] = n

(* A result queued for the writer thread is written eventually, also when  *)
(* another run is completed, or shuts the thread down, in the meantime.    *)
RowsReachTable ==
  \A d \in Runs, n \in 1..MaxPoints : Queued(d, n) ~> Len(table[d]) >= n

(* The file alone, seen as a log per run, behaves as RunLog says.          *)
Status(d) == CASE is_completed[d]   -> "completed"
               [] ~is_completed[d] /\ run_timestamp[d] -> "started"
               [] ~is_completed[d] /\ ~run_timestamp[d] /\ d \in created
                                    -> "created"
               [] OTHER             -> "absent"

RL == INSTANCE RunLog WITH status <- [d \in Runs |-> Status(d)], log <- table

ImplementsRunLog == RL!Spec
=============================================================================
