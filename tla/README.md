# Verification of QCoDeS

QCoDeS runs measurements: instrument drivers give parameters, a `Measurement`
collects their values, and a `DataSet` stores them in a SQLite file that other
programs read while the measurement goes on.  A measurement may take days and
cannot be repeated, so what matters most is that **no measured value is lost,
duplicated or moved** on its way from the instrument to the file and to those
who watch it.  This project models that way: the instruments and their registry, the
parameters and their caches, the scan that sets and measures them, the writing of
results, the file that several processes share, and the readers.  It checks
the models with TLC and proves their central invariants with TLAPS.

All source paths below are relative to `src/src/qcodes/`.

## 1. Inventory

| Part | State | Operations | What is hard |
|---|---|---|---|
| dataset writing, `dataset/data_set.py` | `_started`, `_completed`, `_results`; per database file `_WRITERS[path]`: `write_in_background`, `active_datasets`, `data_write_queue`, `bg_writer` | `mark_started`, `add_results`, `_flush_data_to_database`, `mark_completed`, the thread's `run` | two threads, one queue for all runs of a file, three unbounded waits, failures in the thread |
| `Measurement`, `Runner`, `DataSaver`, `dataset/measurements.py` | the last flush time | `__enter__`, `add_result`, `flush_data_to_database`, `__exit__` | exit after an exception, Ctrl-C, failing exit actions |
| `_Subscriber`, `dataset/subscriber.py` | `data_queue`, `_data_set_len`, `_queue_length`, `_stop_signal` | trigger callback, thread loop, `done_callback`, `schedule_stop` | fields shared by two threads without a lock |
| cache, `dataset/data_set_cache.py` | `_data`, `_read_status`, `_write_status`, `live`, `_loaded_from_completed_ds` | `add_data`, `load_data_from_db` | reads between commits, shapes that do not fit, loads that fail |
| transactions, `dataset/sqlite/connection.py`, `utils/delaykeyboardinterrupt.py` | the transaction, `isolation_level`, `atomic_in_progress`, the SIGINT handler | `atomic`, `DelayedKeyboardInterrupt` | nesting, failing commits, signals between any two steps |
| queries, `dataset/sqlite/queries.py`, `query_helpers.py` | the file | `create_run`, `insert_many_values`, `mark_run_complete`, reading trees | counters read and written, batches |
| schema upgrades, `sqlite/db_upgrades/`, `database.py`; run extraction, `database_extract_runs.py`; experiments | `user_version`, tables and columns, `run_counter`; an open transaction per process | `connect`, `do_upgrade`, `new_experiment`, `create_run`, `extract_runs_into_db` | several processes, of several versions, failing or killed between two transactions |
| parameters, `parameters/` | cached values; the instrument | `get`, `set`, ramps, groups, delegates | stale values, ramps that stop half-way |
| parameter callers, `dataset/threading.py` | threads, a pool | `call_params_threaded`, `ThreadPoolParamsCaller` | two threads on one instrument, exceptions while others run |
| scans, `dataset/dond/` | the position in the grid, open datasets | `do0d`, `do1d`, `do2d`, `dond` | what must be set again, several datasets in step, exceptions and Ctrl-C anywhere |
| instruments, `instrument/`; station, `station.py` | registry and `_instances` (weak references), components | construct, record, close, find, load, reconnect | namesakes, garbage collection, drivers that raise half-way |
| monitor, `monitor/monitor.py` | event loop, thread, `Monitor.running` | start, stop | what it refers to stays alive; timeouts |
| run descriptions | dependency graphs | validate, subset | pure algorithms with many cases; not modelled |
| drivers, export, plotting, validators, configuration, logging, utilities | | | device commands or conversions; not modelled |

How they meet: a `Station` makes instruments, whose parameters `dond` sets and
hands to a parameter caller; what comes back goes to one `DataSaver` per dataset.
`Runner.__enter__` creates a run and calls `prepare`;
`DataSaver.add_result` hands a result to `_enqueue_results`, which appends it to
`_results` and to the cache; a flush inserts `_results`, or queues it for the
writer thread; every insert fires the triggers of the subscribers, on the
thread that inserts; `Runner.__exit__` flushes, waits for the queue, completes
the run and drops all triggers.  Readers open the run by its id over a
connection of their own and know the writer only through the file.  Every
write goes through `atomic`.

What makes each part correct: the file holds the results of a run in order,
once each, and all of them when the run is completed; a completed run does not
change; the writer thread and its mode last as long as there are active runs;
every call returns; a subscriber gets each row once; a cache is a prefix of its
run; a transaction is written as a whole or not at all, and a Ctrl-C is neither
lost nor obeyed too early; the version of a file never claims more than its tables
have, runs are numbered without gaps, an extraction is there as a whole or not at all;
a cache of a parameter has what the instrument has, one thread talks to an
instrument at a time, and a set changes what it names only; a row states where
the instruments stood; an instrument is found exactly while it is usable, and no open
connection is lost.

## 2. Modules

| Module | Models | Uses |
|---|---|---|
| `DataSetWriter` | `data_set.py`, `Runner` and `DataSaver`, the writer thread, several runs in one file, crash and restart | refines `RunLog` |
| `RunLog` | abstract: what the file promises of a run | |
| `DataSetWriterInvariants` | its inductive invariants, in named parts | `DataSetWriter` |
| `DataSetWriterProofs` | theorems: types, order of rows, one writer at a time, what the end of a run leaves behind; the file is a `RunLog` | `DataSetWriterInvariants` |
| `Subscriber` | one `_Subscriber`, its thread and the main thread | |
| `SubscriberProofs` | theorems: rows conserved, in order, silence after unsubscribing | `Subscriber` |
| `DataSetCache` | the caches of one run, in the measuring process and in a reader's | |
| `DataSetCacheProofs` | theorems: caches are prefixes, only grow, agree, miss nothing | `DataSetCache` |
| `AtomicConnection` | `atomic` and `DelayedKeyboardInterrupt`, nested, in the main thread | |
| `AtomicConnectionProofs` | theorems: all or nothing, durable, ready when idle, Ctrl-C waits | `AtomicConnection` |
| `DatabaseFile` | processes that upgrade one file, create runs in it and extract runs into it | |
| `DatabaseFileProofs` | theorems: version and schema, numbering, whole extractions | `DatabaseFile` |
| `Parameters` | parameters with their caches and instruments, the callers that measure them on threads | |
| `ParametersProofs` | theorems: types, one thread per instrument, true caches, siblings stay, fresh and complete results | `Parameters` |
| `Dond` | scans: the sweeper, the order of setting, measuring and recording, the contexts of the datasets | |
| `DondProofs` | theorems: types, true rows, datasets in step, partial ones marked, unmarked ones whole, none left running | `Dond` |
| `Instruments` | the registry of instruments, a station with its monitor, garbage collection | |
| `InstrumentsProofs` | theorems: types, exact registry, no lost connection | `Instruments` |
| `MC...` | values of the constants for TLC | |

In each module a definition introduced in a comment as a *slip* is not part of
the model: it is a plausible bug.  Put in the place of the definition that
follows it, it must break a property; that is how each property is known to
say something about the code.

### 2.1 `DataSetWriter`

The main thread performs one operation at a time; `pc` says where it is inside
one that waits.  The splits are where the code waits or where another thread's
progress makes a difference:

| Code | Actions |
|---|---|
| `new_data_set`, `Runner.__enter__` | `NewDataSet`, `RunnerEnter`, `Prepare` |
| `load_by_id` | `Load` |
| `mark_started` | `MarkStarted` (parameters committed), `PerformStartActions` (timestamp, mode, thread, `active_datasets`, cache; six outcomes in the order of the code) |
| `DataSaver.add_result`, flush | `AddResult`, `FlushData`, `AwaitQueue` |
| `DataSet.add_results` | `AddResults` |
| `Runner.__exit__` | `RunnerExit`, `AwaitQueue`, `ExitRaises`, then as `mark_completed` |
| `mark_completed` | `MarkCompleted`, `EnsureDatasetWritten`, `ReleaseWriter`, `AwaitStop`, `Seal`, `SealFails` |
| `_BackgroundWriter.run` | `WriteItem`, `WriteFails`, `FinalizeRun`, `FinalizeUnknown`, `StopWriting`, `WriterExit` |
| killed process | `Crash`: all but the file is gone |
| Ctrl-C | `KeyboardInterrupt` in a wait, `FlushInterrupted` in a flush |

The n-th result of a run is the number n.  `unfinished_tasks` is kept apart
from the queue because `Queue.join` waits for `task_done`, which a writer thread
that dies never calls.  `handle` says in whose hands a run is; "interrupted" stands for a
`DataSet` whose completion a Ctrl-C broke off after its finalize item was queued.  The code makes
no difference there: `add_results` looks at `started` and `completed` only
(`data_set.py:721`, `736-743`), and so do `AddResults` and `MarkCompleted`.  `late` is a history variable
for the properties: the runs that were given results for the writer thread in that state.  There is at most
one `DataSet` object per run in the process; `write_period` is the choice to
flush or not after a result.  The constant `Faults` names what may go wrong.

The writer thread's own fault, an insert that raises, is not recovered by the
code; so liveness is stated without faults, and safety with them.

### 2.2 `Subscriber`

Every access to a field that both threads use is a step: `queue.put`, the two
counters (`_queue_length += 1` is a read and a write), each `queue.get`, the
call of the callback, `_queue_length = 0`, and the flags.  Rows are numbered,
`delivered` is what the callback was given.

### 2.3 `DataSetCache`

Two handles of one run: `own`, in the measuring process, and `reader`, opened by
id.  A point is its number within its parameter tree; a tree may have a shape.
A load is split before the first query (is_completed), and once per tree;
`Commit` may fall between.  Merging is translated case by case: appended without
a shape, filled in place with one, flattened when the shape is too small, refused
when the first chunk already is too large.  An array that was flattened before all its
places were filled has `Overflowed`: its points are not where they belong any more,
and the properties except it (section 3).

### 2.4 `AtomicConnection`

The open contexts are a stack of frames with the locals of `atomic` and the
attributes of `DelayedKeyboardInterrupt`.  SQLite is modelled by how the code
uses it: a transaction is open or not, and outside one a statement is committed
at once when the isolation level is `None` and opens a transaction otherwise
(statements are inserts and updates).

One `atomic` is `EnterAtomic` (the handler is in place), `Refuse` or `Open` (the
`RuntimeError`, or `atomic_in_progress` assigned), `EnterTry`, `Begin`, its statements,
`Commit`, `CommitFails` or `ExceptClause`, then one action for each assignment of the finally
clause (`FinallyLevel`, `FinallyProgress`), and `Leave`, the `__exit__` of
`DelayedKeyboardInterrupt`; `Unwind` is an exception that passes.  `EnterExit` is the context
of `Runner.__exit__`.  Ctrl-C may come at any step inside a context.  The first is held back
(`SigintDelayed`); a second raises on the spot (`SigintForced`): it skips the rest of a
finally clause, and in `__enter__` or `__exit__` it leaves the handler of the context where it
is.  `cut` records which of these happened: "level" when an outmost finally clause was broken
before `isolation_level` was back, "handler" when the handler stayed.

### 2.5 `DatabaseFile`

`file` is what is committed: `user_version`, the columns and tables that the
upgrades 0, 1, 2, ... have made (0 is `init_db`), experiments and runs.  Each
process is at one step of its session, and `tx` has, for one with an open
transaction, the file as it was at its first read and its own view of it;
SQLite refuses the commit if the file has changed since (`Commit`).

| Code | Actions |
|---|---|
| `connect` | `Connect` (version read, too new is refused), `InitDb` |
| `perform_db_upgrade`, `do_upgrade` | `PerformDbUpgrade`, `SkipStep`, `TakeStep`, `UpgradeFunction`, `SetUserVersion`: version, function and new version are three transactions |
| `new_experiment` | `NewExperiment` |
| `create_run` | `BeginRun`, `InsertRun`, `CommitRun`, `FailRun` |
| `extract_runs_into_db` | `CreateExpIfNeeded`, `ExtractRun`, `CommitExtract` |
| an exception, a closed connection, a killed process | `Leave` |

### 2.6 `Parameters`

`device` is what the instruments have, `cache` what the parameters' caches have.
An exchange with an instrument and the assignment of the cache are two steps, in a
thread (`Ask`, `CacheAnswer`, `Deliver`) as in the main thread (`Set`, `Update`,
`CacheUpdate`, `Write`, `CacheWrite`, the latter two once per step of a ramp).
`ProcessParamsMeas` begins a call of `SequentialParamsCaller`,
`call_params_threaded` or the pool; `Start`, `Join`, `AsCompleted`, `Return` and
`ExitPool` are its threads and how it waits for them.  `Turn` is somebody at the
front panel.  An exchange that fails may have been executed.

`doubted`, `seen` and `stray` record what the properties except: registers that
changed behind the cache's back, the values a register had during a call, and that
`call_params_threaded` has raised while threads of it were still running.

An executor (`_ParamCaller`) is known by the position of its first parameter in what is
measured, and has a set of positions, its `Share`; it gets them in ascending order.  An entry
of an output carries the position it is for, which the code does not have: it tells two
gets of one parameter apart.  `ParametersAssumption` has of groups what `Group.__init__`
establishes for parameters given to one group each: all of a group are of one instrument
(`group_parameter.py:176-181`; groups made with `single_instrument=False` are left out).

### 2.7 `Dond`

One scan, from the choice of the call (`scan`) to its return.  `Enter` puts the
datasets on the `ExitStack`, `NextPoint` computes the set events of a point from
the index as `_Sweeper.__getitem__` does (`do1d` and `do2d` as their loops do),
`SetEvent` sets and reads back, `Measure` calls the parameters, `Record` adds the
row to one dataset per step, `Break` is the break condition, and `Unwind` leaves one
context.  `BodyRaises`, `EnterBreaksOff` and `LeaveBreaksOff` raise an error or a
Ctrl-C at each of these places.  A measured value is the position of all
parameters when it was measured, so that a row can be compared with what it claims.

### 2.8 `Instruments`

`state`, `connected` and `held` describe the Python objects; `all_instruments`,
`own_record` and `instances` are the registry, with the class attributes `_type` and
`_instances` that a subclass inherits until it records its first instance.
`Create` is `InstrumentMeta.__call__`; `CloseInstrument`, `CloseAll` and
`FindInstrument` are the calls of the same names; `Drop` and `Collect` are the end
of the last reference and the finalizer.  `AddComponent`, `RemoveComponent`,
`Snapshot`, `CloseAndRemoveInstrument` are calls of the station, and
`LoadInstrument`, `LoadConstruct`, `LoadSetup`, `LoadAdd`, `LoadMonitor` one call of
`load_instrument`, which may be broken off between any two of them.  The station's list of
monitored parameters and the running monitor keep instruments alive; this is all that
the model has of the monitor.  A monitor that comes up only after its `Monitor(...)` has
raised serves on, and nothing stops it: what it refers to is `adrift`.

`Collect` is `__del__`, which calls `close` and swallows what it raises.  Then the object is
"gone" and its connection is open still.  Such an object is not made anew in the model: its
name is free, the instrument it talked to may be busy for good.

## 3. Runs

Runs that must pass:

| Run | Question | Bounds |
|---|---|---|
| `writer_safety` | Every fault but Ctrl-C, runs of a dead process continued: rows stay in order, the inductive invariant of the proof holds, a blocking flush is right, the two connections never compete, thread and mode last as long as they should | 2 runs, 3 results, 2 starts |
| `writer_interrupt` | Ctrl-C in waits and flushes, crashes, failing exit actions, results added and runs completed again after a Ctrl-C: completed runs are durable and final, except the late ones named below | 2 runs, 2 results, 3 Ctrl-C, 2 starts |
| `writer_live` | Without faults every call returns, measurements complete, queued rows are written, and the file implements `RunLog` | 2 runs, 3 results, 2 starts |
| `subscriber_races` | Two threads drain one queue and the callback may raise: each row goes to one of them, in order; completion delivers all; unsubscribing returns, and silence after it | 4 rows, min_count 2, 2 exceptions |
| `cache_whole` | Caches are prefixes of the run and only grow; they agree in the end and get there, unless a load failed or a result was refused | 2 trees, shape 2 for one, none or 1 for the other; 2 points each, chunks of 2 |
| `atomic_safety` | Nested transactions with failing statements and commits, Ctrl-C at any step, of `finally` and of the handler's context too: all or nothing, durable when done, no Ctrl-C lost, handler and connection as they were, each with the exceptions named below | 3 blocks, 3 levels, 2 statements, 3 Ctrl-C |
| `file_shared` | Processes of different versions upgrade, number and extract at the same time | 2 processes knowing versions 2 and 3, 2 experiments, 3 runs, two batches that share a run, one with an incomplete run |
| `callers_safe` | A group, a parameter with a step and a delegate bound to its source's instrument are measured and set | 4 parameters of 2 instruments, 1 call of any caller and any number of sets, 2 workers, 1 turned knob, 1 failing exchange |
| `dond` | Every entry point, broken off anywhere | 8 scans: of up to 9 points, 3 parameters, 3 datasets |
| `instruments` | Namesakes are made, found, closed, collected, loaded and monitored while drivers fail, also in a finalizer | 3 objects, 2 names, 2 classes |

Runs whose counterexample is a behaviour of the code that contradicts what the
repository says of it (`PROJECT.json` quotes the places):

| Run | Behaviour |
|---|---|
| `writer_subscriber` | A subscriber on a run written in background: the trigger's function is missing on the thread's connection, the thread dies and `Runner.__exit__` waits for ever |
| `callers_delegate` | A delegate on another instrument than its source's is measured together with the source: two threads talk to the one instrument |

The models show more of this kind; each is the reason for a restriction in the
runs above, and lifting it shows the behaviour.  In writing:

- with one Ctrl-C, `RowsInOrder` fails: between the commit of a flush and
  `_results = []` (`data_set.py:1395`) the rows stay in the buffer and
  `Runner.__exit__` writes them again;
- a Ctrl-C in the wait of `mark_completed` (`data_set.py:751`) leaves the finalize item in the
  queue and the run writable.  `add_results` then queues rows behind it, and when the
  thread has taken the run out of `active_datasets`, a second `mark_completed` waits for nothing:
  the run is marked completed and its rows are written afterwards, if another run keeps the
  thread alive, or never (the second finalize item kills the thread).  `mark_completed` promises "complete and
  thus read only" (line 686).  `CompletedIsDurable` and `SealedIsFinal` hold for every run
  that is not `late`, and fail for those that are;
- the last flush, in `Runner.__exit__`, logs and swallows a failing insert
  (`data_set.py:1401`): the run is completed without these rows;
- with "resume" among the faults, `SealedIsFinal` and `ImplementsRunLog` fail: a run
  opened by id is not in `active_datasets`, so that completing it waits for nothing;
- a run whose cache was read before its start is active for ever and never started
  (`data_set.py:682`), and `mark_started` tried again after "You cannot mix" writes the
  parameters twice;
- `_queue_length = 0` (`subscriber.py:114`) forgets a row that came during the
  callback, which is then not noticed until the next one; a callback can be told a length
  one below the number of rows it has been given (`DeliveredInOrder` allows it).

In reading and in transactions:

- with failing loads, `LastLoadIsWhole` needs its exception: `_loaded_from_completed_ds`
  is set before the load (`data_set_cache.py:521`), and nothing tries again;
- an array that gets more points than its shape has while it is partly filled is extended
  behind its unfilled places (`data_set_cache.py:427`), but the write status counts
  points only (line 421), so that the next load inserts *before* the end (line 431) and
  overwrites points: with a shape of 3 places, a load of one point, then one of three
  and one of one leave 1, -, -, 2, 5, 4, while the docstring (line 502) says that a load
  appends.  `CacheIsPrefix`, `CacheOnlyGrows` and `LiveEqualsLoaded` except arrays that
  `Overflowed`; this needs three points of a tree and so more than the run has, but the
  proofs cover it;
- a commit that raises is not rolled back (`connection.py:121`), and every later
  block is refused; a second Ctrl-C before `try` (`connection.py:107`) leaves
  `atomic_in_progress` set, and later blocks never commit: the exceptions in
  `DoneIsDurable` and `IdleIsReady`;
- a second Ctrl-C after `commit` and before `isolation_level` is put back
  (`connection.py:124`) leaves it `None` and `atomic_in_progress` true: later blocks take
  themselves for nested ones, each statement is committed at once, and of a block that fails
  a part stays in the file.  `AllOrNothing` ends there ("level" in `cut`);
- a second Ctrl-C in `__enter__` after the handler was set
  (`delaykeyboardinterrupt.py:50`), or in `__exit__` before line 112, leaves the handler of
  the context in place for the rest of the process; as it is not the default one, no later
  context delays anything.  `IdleIsReady` excepts it ("handler" in `cut`).

In the file:

- killed between an upgrade function that adds columns without looking and
  `set_user_version` (`db_upgrades/__init__.py:114`), a process leaves a file that no
  later `connect` can upgrade;
- processes that upgrade at the same time can set `user_version` back, so that
  `connect` returns with a file that is not up to date;
- `load_or_create_experiment` of two processes can make two experiments of one name.

In measuring:

- `call_params_threaded` raises while its other threads go on, and they may talk to an
  instrument that the main thread then uses: every property of `Parameters` excepts
  what follows (`stray`);
- plain functions among what is measured are dropped by the threaded callers
  (`threading.py:54`) and called by the sequential one.

In the registry:

- a forced reconnect does not close an instrument that is not a component
  (`station.py:561`): the constructor then finds the name taken;
- a component that was closed by hand makes the next `load_instrument` of its name
  raise after the new instrument was made;
- a finalizer whose `close` raises (`instrument.py:149`) leaves a connection open that no
  instrument has: the third case of `ConnectionOwned`;
- a monitor that does not come up in time raises (`monitor.py:180`) and comes up later: it is
  not `Monitor.running`, holds its port and keeps its instruments alive;
- a setting that raises after its parameter was put on the monitor's list keeps the
  instrument, of which nobody has a name, alive and open;
- `close_and_remove_instrument` of an old handle removes the component of the same
  name, which may be its successor.

Why the bounds are enough: two runs let one be started, completed or fail while
the other is in any phase, and the thread be stopped and built again in between; with
three results rows are in the table, in the thread's hands, in the queue and in
`_results` at once.  Shapes of 1 and 2 with chunks of up to 2 make chunks end before,
at and after the end of an array, in one tree and not in the other.  Three levels are
the deepest nesting of `atomic` below `Runner.__exit__`.  Two processes are what every
hazard of the file needs; a third run makes numbering meet extraction and
creation in one experiment.  One call and any number of sets make every caller meet
ramps and groups; the knob and the failure fall at any step.  The scans have
dimensions that start over, repeat a value and are swept together, and a parameter
that rounds; three datasets have a first, a last and one between.  Three objects give a
name to two of them and leave one to be closed beside it.  For the properties listed
in section 4 the proofs remove the bounds altogether.

Symmetry is used in runs without liveness only; runs are interchangeable there.

Deadlock is not checked: the user may stop calling anything at any time, and
every bound on the number of results, starts, rows or Ctrl-C ends behaviours.
Where stopping would be an error, a liveness property says so.

### Fairness

- `DataSetWriter`: weak fairness of `Continue`, the rest of an operation that
  the main thread has begun, and of `WriterStep`.  Both are running threads; an
  operation that waits is enabled when what it waits for has happened.  The user
  need not call anything.
- `Subscriber`: weak fairness of each thread's begun work, as above.
- `DataSetCache`: weak fairness of the reader's load: the property is about a
  user who reads again and again.
- `Parameters`: weak fairness of each thread, and of the main thread in a call or a
  set that it has begun.

The other modules state no liveness and so no fairness: what they promise holds at
whatever step the program stops.

## 4. Proofs

Each theorem holds for every value of the constants that satisfies the `ASSUME` of its
module, so the bounds of section 3 (results, runs, rows, points, levels, Ctrl-C) are gone;
an assumption beyond that is named.  Each safety theorem follows from an
inductive invariant that TLC has checked first on the instances of section 3, with one
lemma per action or kind of effect.

### Writing

`DataSetWriterProofs` proves `TypeCorrect`: `Spec => []TypeOK`, for any runs,
faults and bounds.  Its invariant `TypeInv` adds that sequences in the state are
sequences of results and that a place of the main thread names a run.  It also proves,
under `MaxInterrupts = 0`,

- `RowsStayInOrder`: `Spec => []RowsInOrder`,
- `MainThreadWritesAlone`: `Spec => MainWritesAlone`,

from `OrderInvariant`, `Spec => []OrderInv`.  The assumption is needed:
`RowsInOrder` fails with one Ctrl-C (section 3).  `RowsInOrder` alone is not inductive; the
invariant `OrderInv` consists of

- `Rows`: the table, the batches in the queue and `_results` are consecutive
  stretches of what was measured (`BuffersInOrder`, `BatchesInOrder`), and nothing
  is missing between them unless the writer thread died with a batch in hand
  (`NoHole`);
- `Phases`: why the two threads never insert side by side.  `WriterPhase`: while
  the mode is not "bg" the queue is empty and there is no thread, except
  during a shutdown; a lost batch means a dead thread, which nothing
  revives.  `FinalizePhase`: a queued finalize of an active run is the last item and the main
  thread is waiting for it, so that the set of active runs becomes empty only
  when all rows are written.  `RunPhase` ties `started`, `completed`, `handle` and
  the place of the main thread together.

The proof has one lemma per effect an action can have on the rows (`RowsBuffered`,
`RowsQueued`, `RowsWritten`, `RowsInserted`, `RowsDropped`, `RowsForgotten`,
`RowsLeftAlone`), each action is one of these, and one lemma per part of `Phases`.
`writer_safety` checks the same invariant with TLC.

What the end of a run leaves behind:

| Theorem | States | Assumes |
|---|---|---|
| `ReleasedAfterTheLast` | `Spec => []WriterReleased` | no Ctrl-C |
| `JoinedIsWritten` | `Spec => []JoinIsDurable` | no Ctrl-C |
| `SealedRunsAreFinal` | `Spec => SealedIsFinal` (of runs that are not `late`) | no run taken up by a second handle |
| `CompletedRunsAreWhole` | `Spec => []CompletedIsDurable` (likewise) | the same, and no failing transaction |
| `FileIsRunLog` | `Spec => ImplementsRunLog` | no Ctrl-C, no second handle |

The assumptions are exactly the faults with which the property fails, named in
section 3: a blocking flush and the release of the writer lean on the order of rows; a run that
is opened by id is not in `active_datasets` ("resume"); and the last flush swallows
an insert that raises ("write").  `SealedRunsAreFinal` and `CompletedRunsAreWhole`
hold with any number of Ctrl-C in the waits and flushes, so they cannot use `OrderInv`; of
the runs in `late` they say nothing, for which both properties fail (section 3).  But late rows
stand in the same queue as those of other runs, and the second completion of a late run may
kill the thread they share: the theorems say that no other run suffers from it.  They
rest on two invariants of their own.  `ClosedInv`: once the end of a run has been begun
(`Closing`), whatever is queued for it makes it late; the batches of all other runs are queued
for active runs only and never behind the finalize of their run, and a run leaves the
active ones only when closed.  `KeptInv`: each result that has left `_results`, of a run that
is not late, is in the table, in a queued batch, or in a batch that a dying thread took with
it, and then no completion of that run gets past its wait.  Without Ctrl-C no run is late
(`Undisturbed`), and `FileIsRunLog` is the refinement, step by step: every
action either is one action of `RunLog` on what is in the file or leaves that alone; the
case that matters is a write, which must extend the log by the next numbers, and so uses
`OrderInv`, and must not come after the completion, which uses `ClosedInv` and `Undisturbed`.

### Transactions

`AtomicConnectionProofs` proves, for any blocks, statements, depth and number of Ctrl-C,
`TypeCorrect`, `WholeOrNone` (`Spec => []AllOrNothing`), `LeftIsDurable`
(`[]DoneIsDurable`), `IdleReady` (`[]IdleIsReady`) and `FirstWaits`
(`FirstSigintWaits`).  None of these is inductive: what a block may do next is
in the frames of the stack.  `StackInv` says what a stack can look like (everything below
the top is in its body, `Runner.__exit__` is at the bottom, an outmost `atomic` has no
other below, and none is open without `atomic_in_progress`), `HandlerInv` that only the
bottom frame holds a SIGINT back, and none after a handler was left behind, `LevelInv` that
`isolation_level` is `None` only within an outmost `atomic`,
`DataInv` and `TransactionInv` that what the connection sees beyond the file is the block
that is open, and `CalmInv` what holds while no commit has failed and no second Ctrl-C has
come.  The last four hold up to the Ctrl-C that puts "level" in `cut`; `UndisturbedIsWhole`
says that this is a second one.

### Subscribers

`SubscriberProofs` proves, for any number of rows, any `min_count` and queue
length, and any callback that raises, `TypeCorrect`, `NoneLostNorDoubled`
(`[]RowsConserved`), `InOrderUntilCompleted` (`[]DeliveredInOrder`) and
`SilentAfterUnsubscribe` (`SilentOnceUnsubscribed`).  `RowsConserved` needs little more than
the types; the order needs `InOrder`, that delivered rows, rows in the thread's hands
and rows on the queue are one stretch of numbers while nobody else drains the queue.

### Caches

`DataSetCacheProofs` proves, for any trees, shapes, chunks and failing loads,
`TypeCorrect`, `HoldsWhatItKnows` (`[]CacheIsPrefix`), `NothingMissedForGood`
(`[]LastLoadIsWhole`), `PointsStayPut` (`CacheOnlyGrows`) and `SameFromFile`
(`[]LiveEqualsLoaded`).  The lemmas about `Merged` (`MergedFaithful`, `MergedShaped`,
`MergedStays`, `FilledInPlace`) do the work once for both ways into a cache: merging the
points k+1..k+n into an array that holds the points 1..k gives one that holds 1..k+n,
whichever of the four cases applies.  Around them the invariant says

- `Counts`, `Completion`: rows are committed in order, and a completed run has nothing pending;
- `Reads`: what a load has read continues what was read before, up to the end of the run if the
  run was completed when the load began;
- `Filling`: only the measuring process fills a cache live, and from its first result;
- `Arrays`: each array is `Shaped` (how long it is, given its shape and its status)
  and `Faithful` (it has the points it counts);
- `NothingBehind`: behind what is counted there is nothing, or a load has failed half way
  and *will fail again* (`Stuck`), because the tree that did not fit has more rows than its
  shape for good.  Without this last clause the invariant is not inductive: the
  arrays that were filled in place before the failing tree hold points they do not count.

### Scans

`DondProofs` proves, for any set of scans of `do0d`, `do1d`, `do2d` and `dond`, any number
of datasets and anything raised, `RowsTrue` (`[]RowsAreTrue`), `InStep`
(`[]GroupsInStep`), `PartialMarked` (`[]PartialIsMarked`) and `NoneRunning`
(`[]NoneLeftRunning`).  `RowsInv` says that the first m datasets have the row of the current
point and the others do not; `Nested`, which contexts are open.  The heart is `PointInv`: at
every place between two points each parameter *is* where the point has it, or the
events still to do *lead* there (`Leads`): the last of them that sets it sets it to that
value.  That holds although `should_set` leaves events out, because what is left out has not
changed since the point before; the lemmas on `Setpoint` prove this for one and two
dimensions and for `dond`'s index arithmetic in any number.

`TypeCorrect` (`[]TypeOK`) has the bound `k <= Points`, and `WholeOrMarked` says what a
reader relies on: a completed dataset without `measurement_exception` *is* the grid, a row
per point, none missing and none twice.  Both need `WithinGrid` (a point is worked on only
if the grid has it) and that the number of points, a product over the dimensions, is a
natural number (`PointsAreNat`).  The latter is an induction over the dimensions, done here
without the library's induction theorems: `EveryFold` takes the least cardinality for which
the product would not exist and `OneMore` shows that it does.

The assumption `ScansAssumption` states what the entry points take: `do1d` and `do2d` sweep evenly spaced values, `do2d` two
different parameters, and a parameter that rounds is read back: without
`get_after_set` the rows name the value that was asked for, as its documentation says
(`dond/sweeps.py:85`).

### The file

`DatabaseFileProofs` proves, for any number of processes of any versions and any
batches,

- `SchemaOfVersion`: `Spec => []VersionHasSchema`,
- `RunsAreNumbered`: `Spec => []RunsNumbered`,
- `ExtractionsAreWhole`: `Spec => []ExtractIsWhole`.

The invariant `IInv` has the types, `TxInv` (a view differs from the file it began with in
experiments and runs only), `UpgradeInv` (what a process at each step of an upgrade
knows of the columns; it stays true because nobody takes columns away) and
`NumberedInv` (the file *and every view* are numbered: a commit puts a view in the place
of the file).  `RunNumbered` is the arithmetic of one more run, on
`Cardinality` and `Max`.  For extractions, `WholeInv` adds that guids are unique and that
a process in the middle of a batch has in its view the runs of the file it began
with and those it has copied so far, so that the commit, which finds that same file,
adds exactly a batch.

### Instruments

`InstrumentsProofs` proves, for any instruments, names and classes (one level of
subclassing below the common base) and any failures, `TypeCorrect`, `RegistryExact`
(`Spec => []Registered`) and `NoConnectionLost` (`Spec => []ConnectionOwned`).
Needed besides `Registered` itself: the types, that a connected instrument is new or
live (`ConnectedAlive`) or, where `close` may fail, gone, and that `load_instrument` constructs
what was not born yet (`ConstructsUnborn`).

### Parameters

`ParametersProofs` proves, for any parameters, instruments and groups, any sequences to
measure, any number of workers and calls, and any failing exchange,

| Theorem | States | Assumes |
|---|---|---|
| `TypeCorrect` | `Spec => []TypeInv` | |
| `OneThread` | `Spec => []OneThreadPerInstrument` | `DelegatesAtHome` |
| `CacheIsTrue` | `Spec => []CacheTrue` | the same |
| `NoSiblingMoves` | `Spec => MovesAsAsked` | the same |
| `OutputFresh` | `Spec => []OutputIsFresh` | the same |

`DelegatesAtHome` says that a delegate is bound to the instrument of its source.  It is needed:
`callers_delegate` is the counterexample without it.  None of the four is inductive.  The
invariant is built in four layers, each resting on those before it; all but the first speak of
states in which no call has left threads behind (`stray`):

- `TypeInv` (`ThreadReady`, `SetReady`): an answer covers the whole group of the
  parameter that is asked for, until it is delivered; what is not to be set in a command was
  known when the command was begun, and a known value never becomes unknown;
- `CallInv`: threads exist only during a call and are of that call (`Alone`); each has
  its share of what is measured, and no executor is missing (`Shares`).  Two executors have
  different leaders in `First`, so different underlying instruments (`OneOfInstrument`), and
  with `DelegatesAtHome` their current registers and the groups of these are disjoint
  (`ThreadsApart`, `AnswersApart`);
- `FluxInv`: a value on its way, in a thread or in a set, is that of the instrument unless it
  is doubted, and is what the cache has once it is stored.  `CacheTrue` alone is not
  inductive: a delivery ends the exception it makes for values on their way.  A ramp goes on
  from the cached value, so that a step of it is a step of the instrument;
- `ToldInv`: outputs tell each position that is not still to be done, once (`Tells`), with a
  value in `seen`; what is collected tells the union of the shares, which are disjoint
  (`SharesApart`) and in the end cover all (`SharesCover`).

`MovesAsAsked` then follows for each step: at a write nothing is on its way and the cache is
known and true, so the other values of a command are those that the instrument has.

### Checked with TLC only

All liveness (`MainReturns`, `ExitCompletes`, `RowsReachTable`, `ReaderCatchesUp`,
`CompletionDelivers`, `UnsubscribeReturns`, `CallReturns`): TLAPS 1.4.5 has no reasoning about ENABLED.
Every safety property of the runs is proved.

## 5. Not modelled

Two `DataSet` objects of the same run in one process; Ctrl-C outside of waits and
flushes in `DataSetWriter` (`AtomicConnection` has it at any step of a
transaction); metadata, snapshots and export; ragged and string arrays in the
cache; the split of an insert into batches.  Of the file: what each upgrade function
changes besides columns, the repair of run descriptions, layouts and
dependencies.  Of parameters: `max_val_age`, validators, `val_mapping`, scale and
offset, `set_to` and `restore_at_exit`.  Of scans: `dond_into`, `LinSweeper` and
`datasaver_builder`, additional setpoints (read once, before the first point), the actions between loops, plotting.  Of instruments:
submodules and channels, reading YAML, what the monitor sends; the monitor's thread calls
`get` while the main thread measures, which `Parameters` does not have.  The parts listed in section 1 without a
module are either planned (below) or have no protocol of their own: drivers send
commands to hardware that is not in the repository; export, plotting,
validators and configuration are conversions covered by unit tests.

## 6. Plan

The runs are kept to a dozen questions and the properties to forty, so that all of
them can be repeated at every change: a new module brings one run, two at
most, and takes the place of a run that asks less.

1. Done: `DataSetWriter`, `Subscriber`, `DataSetCache`, `AtomicConnection`; types, order
   of rows and the single writer proved.
2. Done: `DatabaseFile` (counters, upgrades, extraction), `Parameters` with its callers,
   `Dond`, `Instruments` with station and monitor; version, numbering, extraction, registry
   and connections proved.
3. Composition: subscribers fed by inserts that are rolled back and repeated;
   subscribers of two runs and `unsubscribe_all`; the monitor's thread beside a
   measurement.
4. Pure algorithms: `InterDependencies_` (validation, subsets, inferred parameters), the
   batches of `insert_many_values`, `dond_into` and `LinSweeper`.
5. Done: proofs of what completion, joins and releases of `DataSetWriter` promise, of the
   refinement of `RunLog`, and of all safety properties of `Subscriber`, `DataSetCache`,
   `AtomicConnection`, `Dond` and `Parameters`.
