---------------------------- MODULE DatabaseFile ----------------------------
(***************************************************************************)
(* Several processes share one database file: each connects to it, which   *)
(* upgrades its schema step by step, then adds experiments and runs to it, *)
(* or copies completed runs of another file into it.                       *)
(*                                                                         *)
(* A transaction of SQLite works on the file as it was at its first read   *)
(* and cannot commit once somebody else has; a single statement is a       *)
(* transaction of its own.  A process may fail or be killed at any step.   *)
(***************************************************************************)
EXTENDS Integers, Sequences, FiniteSets, FiniteSetsExt

CONSTANTS Process,
          supports,       \* the latest schema version that a process knows
          Alters,         \* upgrades that add a column without looking first
          Inserted,       \* upgrades whose columns create_run fills
          Batches,        \* what is extracted: sequences of completed and
                          \* incomplete runs of another file
          MaxExperiments, \* bound: experiments in the file
          MaxRuns         \* bound: runs in the file

Version == Nat
SourceRuns == UNION {{b[i] : i \in DOMAIN b} : b \in Batches}

ASSUME FileAssumption ==
  /\ supports \in [Process -> Version]
  /\ Alters \subseteq Version \ {0}
  /\ Inserted \subseteq Version
  /\ \A b \in Batches : b \in Seq(SourceRuns) /\ b # <<>>
  /\ \A r \in SourceRuns : /\ r.completed \in BOOLEAN
                           /\ r.captured_counter \in Nat
                           /\ r.guid # "new"
  /\ MaxExperiments \in Nat
  /\ MaxRuns \in Nat

VARIABLES file,    \* user_version, schema, and the tables of the database
          pc,      \* where each process is
          target,  \* the upgrade it is at
          job,     \* the batch it extracts, <<>> for an ordinary session
          left,    \* what of that is still to be extracted
          exp_id,  \* the experiment it writes to
          tx       \* its open transaction: the file it began with, its view

vars == <<file, pc, target, job, left, exp_id, tx>>

NoTx == [base |-> <<>>, view |-> <<>>]
NoGuid == "new"    \* a guid made by generate_guid, like no other

Empty == [version |-> 0, columns |-> {}, experiments |-> <<>>, runs |-> <<>>]

Init == /\ file = Empty
        /\ pc = [p \in Process |-> "closed"]
        /\ target = [p \in Process |-> 0]
        /\ job = [p \in Process |-> <<>>]
        /\ left = [p \in Process |-> <<>>]
        /\ exp_id = [p \in Process |-> 0]
        /\ tx = [p \in Process |-> NoTx]

Goto(p, step) == pc' = [pc EXCEPT ![p] = step]
-----------------------------------------------------------------------------
(* connect: the version is read before init_db makes the first tables,     *)
(* which upgrade 0 stands for.  A file that is too new is refused.         *)
Connect(p, b) ==
  /\ pc[p] = "closed"
  /\ file.version <= supports[p]
  /\ job' = [job EXCEPT ![p] = b]
  /\ left' = [left EXCEPT ![p] = b]
  /\ Goto(p, "init_db")
  /\ UNCHANGED <<file, target, exp_id, tx>>

InitDb(p) ==
  /\ pc[p] = "init_db"
  /\ file' = [file EXCEPT !.columns = @ \union {0}]
  /\ Goto(p, "perform_db_upgrade")
  /\ UNCHANGED <<target, job, left, exp_id, tx>>

(* perform_db_upgrade compares the versions once ...                       *)
PerformDbUpgrade(p) ==
  /\ pc[p] = "perform_db_upgrade"
  /\ target' = [target EXCEPT ![p] = 1]
  /\ Goto(p, IF file.version < supports[p] THEN "do_upgrade" ELSE "open")
  /\ UNCHANGED <<file, job, left, exp_id, tx>>

(* ... and do_upgrade again before each step, in a transaction of its own. *)
AfterStep(p) ==
  /\ target' = [target EXCEPT ![p] = @ + 1]
  /\ Goto(p, IF target[p] < supports[p] THEN "do_upgrade" ELSE "open")

SkipStep(p) ==
  /\ pc[p] = "do_upgrade"
  /\ file.version # target[p] - 1
  /\ AfterStep(p)
  /\ UNCHANGED <<file, job, left, exp_id, tx>>

TakeStep(p) ==
  /\ pc[p] = "do_upgrade"
  /\ file.version = target[p] - 1
  /\ Goto(p, "function")
  /\ UNCHANGED <<file, target, job, left, exp_id, tx>>

(* A slip: an upgrade that fails is rolled back but does not raise.        *)
UpgradeFunctionSwallows(p) ==
  /\ pc[p] = "function"
  /\ \/ file' = [file EXCEPT !.columns = @ \union {target[p]}]
     \/ UNCHANGED file
  /\ Goto(p, "set_user_version")
  /\ UNCHANGED <<target, job, left, exp_id, tx>>

(* The upgrade function, all of it one transaction.  ALTER TABLE raises if *)
(* the column is there: connect fails then (Leave).                        *)
UpgradeFunction(p) ==
  /\ pc[p] = "function"
  /\ ~ (target[p] \in Alters /\ target[p] \in file.columns)
  /\ file' = [file EXCEPT !.columns = @ \union {target[p]}]
  /\ Goto(p, "set_user_version")
  /\ UNCHANGED <<target, job, left, exp_id, tx>>

SetUserVersion(p) ==
  /\ pc[p] = "set_user_version"
  /\ file' = [file EXCEPT !.version = target[p]]
  /\ AfterStep(p)
  /\ UNCHANGED <<job, left, exp_id, tx>>
-----------------------------------------------------------------------------
(* A new experiment is one INSERT; nothing stops a second one of the name. *)
WithExperiment(f, start_time) ==
  [f EXCEPT !.experiments =
     Append(@, [start_time |-> start_time, run_counter |-> 0])]

NewExperiment(p) ==
  /\ pc[p] = "open" /\ job[p] = <<>>
  /\ Len(file.experiments) < MaxExperiments
  /\ file' = WithExperiment(file, "now")
  /\ UNCHANGED <<pc, target, job, left, exp_id, tx>>

RunsOf(f, e) == {i \in DOMAIN f.runs : f.runs[i].exp_id = e}
Counters(f, e) == {f.runs[i].result_counter : i \in RunsOf(f, e)}

(* create_run on the view f of a transaction.  The counter of the run is   *)
(* that of the experiment plus one; captured_counter is found by another   *)
(* query, unless the run was captured in another file.                     *)
CapturedCounter(f, e, captured_counter) ==
  IF captured_counter # 0 THEN captured_counter
  ELSE IF Counters(f, e) # {} THEN Max(Counters(f, e)) + 1
  ELSE f.experiments[e].run_counter + 1

RunRow(f, e, guid, captured_counter) ==
  [exp_id |-> e,
   guid |-> guid,
   result_counter |-> f.experiments[e].run_counter + 1,
   captured_counter |-> CapturedCounter(f, e, captured_counter)]

CountRun(experiments, e) ==
  [experiments EXCEPT ![e].run_counter = @ + 1]

WithRun(f, e, guid, captured_counter) ==
  [f EXCEPT
     !.runs = Append(@, RunRow(f, e, guid, captured_counter)),
     !.experiments = CountRun(@, e)]

Storable(p, f) == \A k \in Inserted : k <= supports[p] => k \in f.columns

Begin(p, view) == tx' = [tx EXCEPT ![p] = [base |-> file, view |-> view]]
Commit(p) == /\ tx[p].base = file
             /\ file' = tx[p].view
             /\ tx' = [tx EXCEPT ![p] = NoTx]
Rollback(p) == tx' = [tx EXCEPT ![p] = NoTx] /\ UNCHANGED file

BeginRun(p, e) ==
  /\ pc[p] = "open" /\ job[p] = <<>>
  /\ e \in DOMAIN file.experiments
  /\ Begin(p, file)
  /\ exp_id' = [exp_id EXCEPT ![p] = e]
  /\ Goto(p, "insert_run")
  /\ UNCHANGED <<file, target, job, left>>

InsertRun(p) ==
  /\ pc[p] = "insert_run"
  /\ Storable(p, tx[p].view)
  /\ Len(tx[p].view.runs) < MaxRuns
  /\ tx' = [tx EXCEPT ![p].view = WithRun(@, exp_id[p], NoGuid, 0)]
  /\ Goto(p, "commit_run")
  /\ UNCHANGED <<file, target, job, left, exp_id>>

(* A slip: without the outer atomic, what was read before is stale.        *)
CommitRunAlone(p) ==
  LET e == exp_id[p]
      view == tx[p].view
  IN /\ pc[p] = "commit_run"
     /\ file' = [file EXCEPT
                   !.runs = Append(@, view.runs[Len(view.runs)]),
                   !.experiments[e].run_counter =
                      view.experiments[e].run_counter]
     /\ tx' = [tx EXCEPT ![p] = NoTx]
     /\ Goto(p, "open")
     /\ UNCHANGED <<target, job, left, exp_id>>

CommitRun(p) ==
  /\ pc[p] = "commit_run"
  /\ Commit(p)
  /\ Goto(p, "open")
  /\ UNCHANGED <<target, job, left, exp_id>>

(* A statement or the commit raises: the session goes on without the run.  *)
FailRun(p) ==
  /\ pc[p] \in {"insert_run", "commit_run"}
  /\ Rollback(p)
  /\ Goto(p, "open")
  /\ UNCHANGED <<target, job, left, exp_id>>
-----------------------------------------------------------------------------
(* extract_runs_into_db, in one transaction of the target file: find or    *)
(* make the experiment, matched by its start time, then copy run by run.   *)
Matching(f) == {e \in DOMAIN f.experiments :
                  f.experiments[e].start_time = "source"}

CreateExpIfNeeded(p) ==
  /\ pc[p] = "open" /\ job[p] # <<>>
  /\ IF Matching(file) # {}
       THEN /\ Begin(p, file)
            /\ exp_id' = [exp_id EXCEPT ![p] = Min(Matching(file))]
       ELSE /\ Len(file.experiments) < MaxExperiments
            /\ Begin(p, WithExperiment(file, "source"))
            /\ exp_id' = [exp_id EXCEPT ![p] = Len(file.experiments) + 1]
  /\ Goto(p, "extract")
  /\ UNCHANGED <<file, target, job, left>>

Present(f, guid) == \E i \in DOMAIN f.runs : f.runs[i].guid = guid

(* A slip: an incomplete run is passed over.                               *)
ExtractRunIfComplete(p) ==
  /\ pc[p] = "extract" /\ left[p] # <<>>
  /\ LET run == Head(left[p]) IN
       \/ /\ Present(tx[p].view, run.guid) \/ ~ run.completed
          /\ UNCHANGED tx
       \/ /\ ~ Present(tx[p].view, run.guid) /\ run.completed
          /\ Storable(p, tx[p].view)
          /\ Len(tx[p].view.runs) < MaxRuns
          /\ tx' = [tx EXCEPT ![p].view =
                      WithRun(@, exp_id[p], run.guid, run.captured_counter)]
  /\ left' = [left EXCEPT ![p] = Tail(@)]
  /\ UNCHANGED <<file, pc, target, job, exp_id>>

(* An incomplete run raises (Leave); one that is there already is skipped. *)
ExtractRun(p) ==
  /\ pc[p] = "extract" /\ left[p] # <<>>
  /\ LET run == Head(left[p]) IN
       /\ run.completed
       /\ \/ /\ Present(tx[p].view, run.guid)
             /\ UNCHANGED tx
          \/ /\ ~ Present(tx[p].view, run.guid)
             /\ Storable(p, tx[p].view)
             /\ Len(tx[p].view.runs) < MaxRuns
             /\ tx' = [tx EXCEPT ![p].view =
                         WithRun(@, exp_id[p], run.guid, run.captured_counter)]
  /\ left' = [left EXCEPT ![p] = Tail(@)]
  /\ UNCHANGED <<file, pc, target, job, exp_id>>

CommitExtract(p) ==
  /\ pc[p] = "extract" /\ left[p] = <<>>
  /\ Commit(p)
  /\ Goto(p, "closed")
  /\ UNCHANGED <<target, job, left, exp_id>>

(* The connection ends: it is closed, connect or the extraction raises, or *)
(* the process is killed.  SQLite drops what was not committed.            *)
Leave(p) ==
  /\ pc[p] # "closed"
  /\ Rollback(p)
  /\ Goto(p, "closed")
  /\ UNCHANGED <<target, job, left, exp_id>>
-----------------------------------------------------------------------------
Next == \E p \in Process :
          \/ \E b \in Batches \union {<<>>} : Connect(p, b)
          \/ InitDb(p) \/ PerformDbUpgrade(p)
          \/ SkipStep(p) \/ TakeStep(p) \/ UpgradeFunction(p)
          \/ SetUserVersion(p)
          \/ NewExperiment(p)
          \/ \E e \in 1..MaxExperiments : BeginRun(p, e)
          \/ InsertRun(p) \/ CommitRun(p) \/ FailRun(p)
          \/ CreateExpIfNeeded(p) \/ ExtractRun(p) \/ CommitExtract(p)
          \/ Leave(p)

Spec == Init /\ [][Next]_vars
-----------------------------------------------------------------------------
(* A version that the file claims has all of its schema, whoever upgraded  *)
(* it, however many at a time, and wherever one was killed: set_user_version *)
(* follows the upgrade function, and schema is never taken away.           *)
VersionHasSchema ==
  file.version > 0 => \A k \in 0..file.version : k \in file.columns

(* The runs of an experiment are numbered 1, 2, ... up to its run_counter, *)
(* so that no two share a results table, and a run created here has the    *)
(* captured_counter that _insert_run warns about if it differs.            *)
RunsNumbered ==
  \A e \in DOMAIN file.experiments :
    /\ Counters(file, e) = 1..file.experiments[e].run_counter
    /\ Cardinality(RunsOf(file, e)) = file.experiments[e].run_counter
    /\ \A i \in RunsOf(file, e) : file.runs[i].guid = NoGuid =>
         file.runs[i].captured_counter = file.runs[i].result_counter

(* What was extracted is whole batches: an extraction that failed half-way *)
(* left nothing, an incomplete run is never there, and a run that several  *)
(* processes extracted is there once.                                      *)
Guids(f) == {f.runs[i].guid : i \in DOMAIN f.runs} \ {NoGuid}
ExtractIsWhole ==
  /\ \E done \in SUBSET Batches :
       /\ \A b \in done : \A i \in DOMAIN b : b[i].completed
       /\ Guids(file) = {r.guid : r \in
                           UNION {{b[i] : i \in DOMAIN b} : b \in done}}
  /\ \A i, j \in DOMAIN file.runs :
       file.runs[i].guid = file.runs[j].guid /\ i # j
         => file.runs[i].guid = NoGuid
=============================================================================
