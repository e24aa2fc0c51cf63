------------------------- MODULE DatabaseFileProofs -------------------------
(* Any number of processes, of any versions, that share a database file    *)
(* leave it with the schema its version claims, its runs numbered, and     *)
(* whole batches extracted.                                                *)
EXTENDS DatabaseFile, FiniteSetTheorems, SequenceTheorems,
        WellFoundedInduction, TLAPS

Steps == {"closed", "init_db", "perform_db_upgrade", "do_upgrade",
          "function", "set_user_version", "open", "insert_run",
          "commit_run", "extract"}
InTx  == {"insert_run", "commit_run", "extract"}

Experiment == [start_time : {"now", "source"}, run_counter : Nat]
SomeGuid   == {NoGuid} \union {r.guid : r \in SourceRuns}
Run        == [exp_id : Nat, guid : SomeGuid,
               result_counter : Nat, captured_counter : Nat]
Files == [version : Nat, columns : SUBSET Nat,
          experiments : Seq(Experiment), runs : Seq(Run)]

TypesInv ==
  /\ file \in Files
  /\ pc \in [Process -> Steps]
  /\ target \in [Process -> Nat]
  /\ job \in [Process -> Batches \union {<<>>}]
  /\ left \in [Process -> Seq(SourceRuns)]
  /\ exp_id \in [Process -> Nat]
  /\ tx \in [Process -> [base : Files \union {<<>>},
                         view : Files \union {<<>>}]]

(* A transaction works on a file like the one it began with.               *)
TxInv ==
  \A p \in Process : pc[p] \in InTx =>
    /\ tx[p].base \in Files /\ tx[p].view \in Files
    /\ tx[p].view.version = tx[p].base.version
    /\ tx[p].view.columns = tx[p].base.columns
    /\ exp_id[p] \in DOMAIN tx[p].view.experiments

(* What a process that upgrades has made sure of.                          *)
UpTo(n) == {k \in Nat : k <= n}
UpgradeInv ==
  /\ file.version > 0 => UpTo(file.version) \subseteq file.columns
  /\ \A p \in Process :
       /\ pc[p] \notin {"closed", "init_db"} => 0 \in file.columns
       /\ pc[p] \in {"do_upgrade", "function", "set_user_version"}
            => target[p] > 0
       /\ pc[p] = "function" => UpTo(target[p] - 1) \subseteq file.columns
       /\ pc[p] = "set_user_version"
            => UpTo(target[p]) \subseteq file.columns

(* The numbering of the runs, of the file and of every view of it.         *)
Numbered(f) ==
  /\ \A i \in DOMAIN f.runs : f.runs[i].exp_id \in DOMAIN f.experiments
  /\ \A e \in DOMAIN f.experiments :
       /\ Counters(f, e) = 1..f.experiments[e].run_counter
       /\ Cardinality(RunsOf(f, e)) = f.experiments[e].run_counter
       /\ \A i \in RunsOf(f, e) : f.runs[i].guid = NoGuid =>
            f.runs[i].captured_counter = f.runs[i].result_counter
NumberedInv ==
  /\ Numbered(file)
  /\ \A p \in Process : pc[p] \in InTx => Numbered(tx[p].view)

-----------------------------------------------------------------------------
(* What create_run, new_experiment and the copy of a run do to a file.     *)

LEMMA FileTyped ==
  ASSUME NEW f \in Files
  PROVE  /\ f.version \in Nat /\ f.columns \in SUBSET Nat
         /\ f.experiments \in Seq(Experiment) /\ f.runs \in Seq(Run)
         /\ Len(f.runs) \in Nat /\ DOMAIN f.runs = 1..Len(f.runs)
         /\ Len(f.experiments) \in Nat
         /\ DOMAIN f.experiments = 1..Len(f.experiments)
         /\ \A e \in DOMAIN f.experiments :
              f.experiments[e] \in Experiment /\ f.experiments[e].run_counter \in Nat
<1>1. f.experiments \in Seq(Experiment) /\ f.runs \in Seq(Run)
      /\ f.version \in Nat /\ f.columns \in SUBSET Nat
  BY DEF Files
<1>2. \A e \in DOMAIN f.experiments : f.experiments[e] \in Experiment
  BY <1>1, ElementOfSeq, LenProperties
<1> QED
  BY <1>1, <1>2, LenProperties DEF Experiment

LEMMA EmptyFile == Empty \in Files /\ Numbered(Empty)
<1>1. Empty \in Files
  BY DEF Empty, Files
<1> QED
  BY <1>1 DEF Empty, Numbered

LEMMA RunAdded ==
  ASSUME NEW f \in Files, NEW e \in DOMAIN f.experiments,
         NEW guid \in SomeGuid, NEW c \in Nat,
         CapturedCounter(f, e, c) \in Nat
  PROVE  LET g == WithRun(f, e, guid, c) IN
           /\ g \in Files
           /\ g.version = f.version /\ g.columns = f.columns
           /\ g.experiments = CountRun(f.experiments, e)
           /\ g.runs = Append(f.runs, RunRow(f, e, guid, c))
<1> DEFINE g == WithRun(f, e, guid, c)
           x == f.experiments
<1>1. f.experiments \in Seq(Experiment) /\ f.runs \in Seq(Run)
  BY DEF Files
<1>2. e \in Nat /\ x[e] \in Experiment
  BY <1>1
<1>3. RunRow(f, e, guid, c) \in Run
  BY <1>2 DEF RunRow, Run, Experiment
<1>4. CountRun(x, e) \in Seq(Experiment)
  <2>1. [x[e] EXCEPT !.run_counter = @ + 1] \in Experiment
    BY <1>2 DEF Experiment
  <2>2. CountRun(x, e) = [x EXCEPT ![e] = [x[e] EXCEPT !.run_counter = @ + 1]]
    BY <1>1 DEF CountRun
  <2> QED
    BY <1>1, <2>1, <2>2, ExceptSeq
<1>5. Append(f.runs, RunRow(f, e, guid, c)) \in Seq(Run)
  BY <1>1, <1>3
<1>6. g \in Files
  BY <1>4, <1>5 DEF Files, WithRun
<1>7. /\ g.version = f.version /\ g.columns = f.columns
      /\ g.experiments = CountRun(x, e)
      /\ g.runs = Append(f.runs, RunRow(f, e, guid, c))
  BY DEF Files, WithRun
<1> QED
  BY <1>6, <1>7

(* The counter that create_run finds is that of the experiment.            *)
LEMMA Captured ==
  ASSUME NEW f \in Files, Numbered(f), NEW e \in DOMAIN f.experiments,
         NEW c \in Nat
  PROVE  CapturedCounter(f, e, c)
           = IF c # 0 THEN c ELSE f.experiments[e].run_counter + 1
<1> DEFINE n == f.experiments[e].run_counter
<1>1. n \in Nat /\ Counters(f, e) = 1..n
  BY FileTyped DEF Numbered
<1> HIDE DEF n
<1>2. CASE n = 0
  BY <1>1, <1>2 DEF CapturedCounter, n
<1>3. CASE n # 0
  <2>1. n \in 1..n /\ \A y \in 1..n : n >= y
    BY <1>1, <1>3
  <2>2. Max(1..n) = n
    BY <1>1, <2>1 DEF Max
  <2> QED
    BY <1>1, <2>1, <2>2 DEF CapturedCounter, n
<1> QED
  BY <1>2, <1>3

LEMMA RunsFinite ==
  ASSUME NEW f \in Files, NEW e
  PROVE  IsFiniteSet(RunsOf(f, e))
<1>1. Len(f.runs) \in Nat /\ DOMAIN f.runs = 1..Len(f.runs)
  BY DEF Files
<1>2. IsFiniteSet(1..Len(f.runs)) /\ RunsOf(f, e) \subseteq 1..Len(f.runs)
  BY <1>1, FS_Interval DEF RunsOf
<1> QED
  BY <1>2, FS_Subset

(* A run that is added takes the next number of its experiment.            *)
LEMMA RunNumbered ==
  ASSUME NEW f \in Files, Numbered(f), NEW e \in DOMAIN f.experiments,
         NEW guid \in SomeGuid, NEW c \in Nat, guid = NoGuid => c = 0
  PROVE  Numbered(WithRun(f, e, guid, c))
<1> DEFINE g == WithRun(f, e, guid, c)
           row == RunRow(f, e, guid, c)
           n == f.experiments[e].run_counter
           last == Len(f.runs) + 1
<1>1. /\ f.experiments \in Seq(Experiment) /\ f.runs \in Seq(Run)
      /\ Len(f.runs) \in Nat /\ n \in Nat
      /\ DOMAIN f.runs = 1..Len(f.runs)
  BY FileTyped
<1>2. CapturedCounter(f, e, c) = IF c # 0 THEN c ELSE n + 1
  BY Captured
<1>3. /\ g.experiments = CountRun(f.experiments, e)
      /\ g.runs = Append(f.runs, row)
  BY <1>1, <1>2, RunAdded
<1>4. /\ row.exp_id = e /\ row.guid = guid /\ row.result_counter = n + 1
      /\ row.captured_counter = IF c # 0 THEN c ELSE n + 1
  BY <1>2 DEF RunRow
<1>5. /\ DOMAIN g.experiments = DOMAIN f.experiments
      /\ g.experiments[e].run_counter = n + 1
      /\ \A d \in DOMAIN f.experiments \ {e} :
           g.experiments[d] = f.experiments[d]
  BY <1>1, <1>3 DEF CountRun, Experiment
<1> HIDE DEF g, row
<1>6. /\ DOMAIN g.runs = 1..last
      /\ g.runs[last] = row
      /\ \A i \in 1..Len(f.runs) : g.runs[i] = f.runs[i]
  BY <1>1, <1>3, AppendProperties
<1> HIDE DEF n, last
<1>7. \A i \in DOMAIN g.runs : g.runs[i].exp_id \in DOMAIN g.experiments
  <2>1. \A i \in DOMAIN g.runs : i \in DOMAIN f.runs \/ i = last
    BY <1>1, <1>6 DEF last
  <2> QED
    BY <1>1, <1>4, <1>5, <1>6, <2>1 DEF Numbered
<1>8. \A d \in DOMAIN f.experiments \ {e} : RunsOf(g, d) = RunsOf(f, d)
  BY <1>1, <1>4, <1>6 DEF RunsOf, last
<1>9. RunsOf(g, e) = RunsOf(f, e) \union {last} /\ last \notin RunsOf(f, e)
  BY <1>1, <1>4, <1>6 DEF RunsOf, last
<1>10. ASSUME NEW d \in DOMAIN g.experiments, d # e
       PROVE  /\ Counters(g, d) = 1..g.experiments[d].run_counter
              /\ Cardinality(RunsOf(g, d)) = g.experiments[d].run_counter
              /\ \A i \in RunsOf(g, d) : g.runs[i].guid = NoGuid =>
                   g.runs[i].captured_counter = g.runs[i].result_counter
  <2>1. RunsOf(g, d) = RunsOf(f, d) /\ g.experiments[d] = f.experiments[d]
    BY <1>5, <1>8, <1>10
  <2>2. \A i \in RunsOf(g, d) : i \in DOMAIN f.runs /\ g.runs[i] = f.runs[i]
    BY <1>1, <1>6, <2>1 DEF RunsOf
  <2>3. Counters(g, d) = Counters(f, d)
    BY <2>1, <2>2 DEF Counters
  <2> QED
    BY <1>5, <1>10, <2>1, <2>2, <2>3 DEF Numbered
<1>11. Counters(g, e) = 1..g.experiments[e].run_counter
  <2>1. \A i \in RunsOf(f, e) : g.runs[i] = f.runs[i]
    BY <1>1, <1>6 DEF RunsOf
  <2>2. Counters(g, e) = Counters(f, e) \union {n + 1}
    BY <1>4, <1>6, <1>9, <2>1 DEF Counters
  <2>3. Counters(f, e) = 1..n
    BY DEF Numbered, n
  <2> QED
    BY <1>1, <1>5, <2>3, <2>2
<1>12. Cardinality(RunsOf(g, e)) = g.experiments[e].run_counter
  <2>1. Cardinality(RunsOf(f, e)) = n
    BY DEF Numbered, n
  <2> QED
    BY <1>5, <1>9, <2>1, RunsFinite, FS_AddElement
<1>13. \A i \in RunsOf(g, e) : g.runs[i].guid = NoGuid =>
         g.runs[i].captured_counter = g.runs[i].result_counter
  BY <1>1, <1>4, <1>6, <1>9 DEF Numbered, RunsOf, last
<1> QED
  BY <1>5, <1>7, <1>10, <1>11, <1>12, <1>13 DEF Numbered, g

LEMMA RunWritten ==
  ASSUME NEW f \in Files, Numbered(f), NEW e \in DOMAIN f.experiments,
         NEW guid \in SomeGuid, NEW c \in Nat, guid = NoGuid => c = 0
  PROVE  LET g == WithRun(f, e, guid, c) IN
           /\ g \in Files /\ Numbered(g)
           /\ g.version = f.version /\ g.columns = f.columns
           /\ DOMAIN g.experiments = DOMAIN f.experiments
           /\ g.runs = Append(f.runs, RunRow(f, e, guid, c))
           /\ RunRow(f, e, guid, c) \in Run
           /\ RunRow(f, e, guid, c).guid = guid
<1>1. /\ CapturedCounter(f, e, c) \in Nat /\ e \in Nat
      /\ f.experiments[e].run_counter \in Nat
  BY FileTyped, Captured
<1>2. DOMAIN CountRun(f.experiments, e) = DOMAIN f.experiments
  BY DEF CountRun
<1>3. RunRow(f, e, guid, c).guid = guid /\ RunRow(f, e, guid, c) \in Run
  BY <1>1 DEF RunRow, Run
<1> QED
  BY <1>1, <1>2, <1>3, RunAdded, RunNumbered

(* A new experiment has no runs yet.                                       *)
LEMMA ExperimentAdded ==
  ASSUME NEW f \in Files, Numbered(f), NEW t \in {"now", "source"}
  PROVE  LET g == WithExperiment(f, t) IN
           /\ g \in Files /\ Numbered(g)
           /\ g.version = f.version /\ g.columns = f.columns
           /\ g.runs = f.runs
           /\ DOMAIN g.experiments = 1..(Len(f.experiments) + 1)
<1> DEFINE g == WithExperiment(f, t)
           x == f.experiments
           new == [start_time |-> t, run_counter |-> 0]
<1>1. x \in Seq(Experiment) /\ f.runs \in Seq(Run) /\ new \in Experiment
  BY FileTyped DEF Experiment
<1>2. g \in Files
  <2>1. Append(x, new) \in Seq(Experiment)
    BY <1>1, AppendProperties
  <2> QED
    BY <2>1 DEF WithExperiment, Files
<1>3. /\ g.version = f.version /\ g.columns = f.columns
      /\ g.runs = f.runs /\ g.experiments = Append(x, new)
  BY DEF WithExperiment, Files
<1> HIDE DEF g
<1>4. /\ Len(x) \in Nat /\ DOMAIN x = 1..Len(x)
      /\ DOMAIN g.experiments = 1..(Len(x) + 1)
      /\ g.experiments[Len(x) + 1].run_counter = 0
      /\ \A e \in DOMAIN x : g.experiments[e] = x[e]
  BY <1>1, <1>3, AppendProperties
<1>5. \A e : RunsOf(g, e) = RunsOf(f, e) /\ Counters(g, e) = Counters(f, e)
  BY <1>3 DEF RunsOf, Counters
<1>6. RunsOf(f, Len(x) + 1) = {} /\ Counters(f, Len(x) + 1) = {}
  BY <1>4 DEF Numbered, RunsOf, Counters
<1>7. Cardinality({}) = 0
  BY FS_EmptySet
<1>8. Numbered(g)
  <2>1. ASSUME NEW e \in DOMAIN g.experiments, e # Len(x) + 1
        PROVE  /\ e \in DOMAIN x
               /\ g.experiments[e] = x[e]
    BY <1>4, <2>1
  <2>2. /\ Counters(g, Len(x) + 1) = 1..g.experiments[Len(x) + 1].run_counter
        /\ Cardinality(RunsOf(g, Len(x) + 1))
             = g.experiments[Len(x) + 1].run_counter
    <3>1. Counters(g, Len(x) + 1) = {} /\ RunsOf(g, Len(x) + 1) = {}
      BY <1>5, <1>6
    <3>2. 1..0 = {}
      OBVIOUS
    <3> QED
      BY <1>4, <1>7, <3>1, <3>2
  <2>3. \A i \in DOMAIN g.runs : g.runs[i].exp_id \in DOMAIN g.experiments
    BY <1>3, <1>4 DEF Numbered
  <2> QED
    BY <1>3, <1>5, <1>6, <2>1, <2>2, <2>3 DEF Numbered
<1> QED
  BY <1>2, <1>3, <1>4, <1>8 DEF g

LEMMA LeastOf ==
  ASSUME NEW S \in SUBSET Nat, S # {}
  PROVE  \E m \in S : \A n \in S : m <= n
<1> DEFINE less == OpToRel(<, Nat)
<1>1. \A x, y \in Nat : <<y, x>> \in less <=> y < x
  BY DEF OpToRel
<1>2. IsWellFoundedOn(less, Nat)
  BY NatLessThanWellFounded
<1> HIDE DEF less
<1>3. PICK m \in S : \A n \in S : ~ (<<n, m>> \in less)
  BY <1>2, WFMin
<1>4. \A n \in S : n \in Nat /\ m \in Nat /\ ~ (n < m)
  BY <1>1, <1>3
<1>5. \A n \in S : m <= n
  BY <1>4
<1> QED
  BY <1>5

-----------------------------------------------------------------------------
IInv == TypesInv /\ TxInv /\ UpgradeInv /\ NumberedInv

LEMMA InitIInv == Init => IInv
<1> SUFFICES ASSUME Init PROVE IInv
  OBVIOUS
<1>1. NoTx \in [base : Files \union {<<>>}, view : Files \union {<<>>}]
      /\ <<>> \in Seq(SourceRuns)
  BY DEF NoTx
<1>2. TypesInv
  BY <1>1, EmptyFile DEF Init, TypesInv, Steps
<1>3. TxInv /\ NumberedInv
  BY EmptyFile DEF Init, TxInv, NumberedInv, InTx
<1>4. UpgradeInv
  BY DEF Init, UpgradeInv, Empty
<1> QED
  BY <1>2, <1>3, <1>4 DEF IInv

(* The steps that leave the transactions alone.                            *)
Upgrading(p) ==
  \/ InitDb(p) \/ PerformDbUpgrade(p) \/ SkipStep(p) \/ TakeStep(p)
  \/ UpgradeFunction(p) \/ SetUserVersion(p)

LEMMA UpgradingTypes ==
  ASSUME IInv, NEW p \in Process, Upgrading(p)
  PROVE  /\ TypesInv'
         /\ pc'[p] \notin InTx
         /\ \A q \in Process \ {p} : pc'[q] = pc[q]
         /\ UNCHANGED <<job, left, exp_id, tx>>
         /\ file'.experiments = file.experiments /\ file'.runs = file.runs
         /\ file.columns \subseteq file'.columns
<1> USE DEF IInv, TypesInv
<1>1. /\ pc' \in [Process -> Steps] /\ pc'[p] \notin InTx
      /\ \A q \in Process \ {p} : pc'[q] = pc[q]
  BY DEF Upgrading, InitDb, PerformDbUpgrade, SkipStep, TakeStep,
         UpgradeFunction, SetUserVersion, AfterStep, Goto, Steps, InTx
<1>2. target' \in [Process -> Nat] /\ UNCHANGED <<job, left, exp_id, tx>>
  <2>1. ASSUME AfterStep(p) PROVE target' \in [Process -> Nat]
    BY <2>1 DEF AfterStep
  <2> QED
    BY <2>1 DEF Upgrading, InitDb, PerformDbUpgrade, SkipStep, TakeStep,
                UpgradeFunction, SetUserVersion
<1>3. /\ file' \in Files
      /\ file'.experiments = file.experiments /\ file'.runs = file.runs
      /\ file.columns \subseteq file'.columns
  <2>1. CASE InitDb(p)
    <3>1. file.columns \union {0} \in SUBSET Nat
      BY DEF Files
    <3> QED
      BY <2>1, <3>1 DEF InitDb, Files
  <2>2. CASE UpgradeFunction(p)
    <3>1. file.columns \union {target[p]} \in SUBSET Nat
      BY DEF Files
    <3> QED
      BY <2>2, <3>1 DEF UpgradeFunction, Files
  <2>3. CASE SetUserVersion(p)
    BY <2>3 DEF SetUserVersion, Files
  <2> QED
    BY <2>1, <2>2, <2>3 DEF Upgrading, PerformDbUpgrade, SkipStep, TakeStep
<1> QED
  BY <1>1, <1>2, <1>3

LEMMA UpgradingUpgrades ==
  ASSUME IInv, NEW p \in Process, Upgrading(p)
  PROVE  UpgradeInv'
<1> USE DEF IInv, TypesInv, UpgradeInv
<1>0. \A n \in Nat : UpTo(n) \in SUBSET Nat /\ UpTo(0) = {0}
      /\ (n > 0 => UpTo(n) = UpTo(n - 1) \union {n})
  BY DEF UpTo
<1>1. CASE InitDb(p)
  BY <1>1 DEF InitDb, Goto, Files
<1>2. CASE PerformDbUpgrade(p)
  BY <1>2 DEF PerformDbUpgrade, Goto
<1>3. CASE SkipStep(p)
  <2>1. /\ pc[p] = "do_upgrade" /\ pc'[p] \in {"do_upgrade", "open"}
        /\ target'[p] > 0 /\ UNCHANGED file
        /\ \A q \in Process \ {p} : pc'[q] = pc[q] /\ target'[q] = target[q]
    BY <1>3 DEF SkipStep, AfterStep, Goto
  <2> QED
    BY <2>1
<1>4. CASE TakeStep(p)
  BY <1>0, <1>4 DEF TakeStep, Goto, Files
<1>5. CASE UpgradeFunction(p)
  BY <1>0, <1>5 DEF UpgradeFunction, Goto, Files
<1>6. CASE SetUserVersion(p)
  BY <1>6 DEF SetUserVersion, AfterStep, Goto, Files
<1> QED
  BY <1>1, <1>2, <1>3, <1>4, <1>5, <1>6 DEF Upgrading

(* A step that leaves the schema alone.                                    *)
LEMMA SchemaKept ==
  ASSUME IInv, NEW p \in Process,
         file'.version = file.version, file'.columns = file.columns,
         target' = target,
         \A q \in Process \ {p} : pc'[q] = pc[q],
         \/ pc'[p] \in {"closed", "init_db"}
         \/ /\ pc[p] \in {"open"} \union InTx
            /\ pc'[p] \in {"open"} \union InTx
  PROVE  UpgradeInv'
BY DEF IInv, UpgradeInv, InTx

LEMMA ConnectKeeps ==
  ASSUME IInv, NEW p \in Process, NEW b \in Batches \union {<<>>},
         Connect(p, b)
  PROVE  IInv'
<1> USE DEF IInv, TypesInv
<1>1. b \in Seq(SourceRuns)
  <2>1. <<>> \in Seq(SourceRuns)
    OBVIOUS
  <2> QED
    BY <2>1, FileAssumption
<1>2. /\ pc' \in [Process -> Steps] /\ pc'[p] = "init_db"
      /\ \A q \in Process \ {p} : pc'[q] = pc[q]
  BY DEF Connect, Goto, Steps
<1>3. TypesInv'
  BY <1>1, <1>2 DEF Connect
<1>4. UpgradeInv'
  BY <1>2, SchemaKept DEF Connect
<1>5. TxInv' /\ NumberedInv'
  BY <1>2 DEF Connect, TxInv, NumberedInv, InTx
<1> QED
  BY <1>3, <1>4, <1>5

LEMMA NewExperimentKeeps ==
  ASSUME IInv, NEW p \in Process, NewExperiment(p)
  PROVE  IInv'
<1> USE DEF IInv, TypesInv
<1>1. /\ file' \in Files /\ Numbered(file')
      /\ file'.version = file.version /\ file'.columns = file.columns
  BY ExperimentAdded DEF NewExperiment, NumberedInv
<1>2. TypesInv' /\ TxInv' /\ NumberedInv'
  BY <1>1 DEF NewExperiment, TxInv, NumberedInv
<1>3. UpgradeInv'
  BY <1>1, SchemaKept DEF NewExperiment
<1> QED
  BY <1>2, <1>3

(* A transaction begins, on a view like the file.                          *)
LEMMA BeginKeeps ==
  ASSUME IInv, NEW p \in Process, NEW view \in Files, NEW step \in InTx,
         Numbered(view), view.version = file.version,
         view.columns = file.columns,
         pc[p] = "open", Goto(p, step), Begin(p, view),
         exp_id' \in [Process -> Nat],
         exp_id'[p] \in DOMAIN view.experiments,
         \A q \in Process \ {p} : exp_id'[q] = exp_id[q],
         UNCHANGED <<file, target, job, left>>
  PROVE  IInv'
<1> USE DEF IInv, TypesInv
<1>1. /\ pc' \in [Process -> Steps] /\ pc'[p] = step
      /\ \A q \in Process \ {p} : pc'[q] = pc[q]
  BY DEF Goto, Steps, InTx
<1>2. /\ tx' \in [Process -> [base : Files \union {<<>>},
                              view : Files \union {<<>>}]]
      /\ tx'[p].base = file /\ tx'[p].view = view
      /\ \A q \in Process \ {p} : tx'[q] = tx[q]
  BY DEF Begin
<1>3. TypesInv'
  BY <1>1, <1>2
<1>4. UpgradeInv'
  BY <1>1, SchemaKept
<1>5. TxInv' /\ NumberedInv'
  BY <1>1, <1>2 DEF TxInv, NumberedInv
<1> QED
  BY <1>3, <1>4, <1>5

(* A run is added to the view of a transaction.                            *)
LEMMA WriteKeeps ==
  ASSUME IInv, NEW p \in Process, pc[p] \in InTx,
         NEW guid \in SomeGuid, NEW c \in Nat, guid = NoGuid => c = 0,
         tx' = [tx EXCEPT ![p].view = WithRun(@, exp_id[p], guid, c)],
         pc' \in [Process -> Steps], pc'[p] \in InTx,
         \A q \in Process \ {p} : pc'[q] = pc[q],
         left' \in [Process -> Seq(SourceRuns)],
         UNCHANGED <<file, target, job, exp_id>>
  PROVE  IInv'
<1> USE DEF IInv, TypesInv
<1> DEFINE f == tx[p].view
           g == WithRun(f, exp_id[p], guid, c)
<1>1. f \in Files /\ Numbered(f) /\ exp_id[p] \in DOMAIN f.experiments
  BY DEF TxInv, NumberedInv
<1>2. /\ g \in Files /\ Numbered(g)
      /\ g.version = f.version /\ g.columns = f.columns
      /\ DOMAIN g.experiments = DOMAIN f.experiments
  BY <1>1, RunWritten
<1>3. /\ tx'[p].base = tx[p].base /\ tx'[p].view = g
      /\ \A q \in Process \ {p} : tx'[q] = tx[q]
  OBVIOUS
<1> HIDE DEF g
<1>4. tx' \in [Process -> [base : Files \union {<<>>},
                          view : Files \union {<<>>}]]
  BY <1>2 DEF g
<1>5. TypesInv'
  BY <1>4
<1>6. UpgradeInv'
  BY SchemaKept
<1>7. TxInv' /\ NumberedInv'
  BY <1>1, <1>2, <1>3 DEF TxInv, NumberedInv
<1> QED
  BY <1>5, <1>6, <1>7

(* A transaction ends, with its view in the file or with nothing.          *)
LEMMA EndKeeps ==
  ASSUME IInv, NEW p \in Process, NEW step \in {"open", "closed"},
         Goto(p, step),
         step = "open" => pc[p] \in InTx,
         \/ Commit(p) /\ pc[p] \in InTx
         \/ Rollback(p),
         UNCHANGED <<target, job, left, exp_id>>
  PROVE  IInv'
<1> USE DEF IInv, TypesInv
<1>1. /\ pc' \in [Process -> Steps] /\ pc'[p] = step
      /\ \A q \in Process \ {p} : pc'[q] = pc[q]
  BY DEF Goto, Steps
<1>2. /\ tx' \in [Process -> [base : Files \union {<<>>},
                              view : Files \union {<<>>}]]
      /\ \A q \in Process \ {p} : tx'[q] = tx[q]
  <2>1. NoTx \in [base : Files \union {<<>>}, view : Files \union {<<>>}]
    BY DEF NoTx
  <2>2. tx' = [tx EXCEPT ![p] = NoTx]
    BY DEF Commit, Rollback
  <2> QED
    BY <2>1, <2>2
<1>3. /\ file' \in Files /\ Numbered(file')
      /\ file'.version = file.version /\ file'.columns = file.columns
  BY DEF Commit, Rollback, TxInv, NumberedInv
<1>4. TypesInv'
  BY <1>1, <1>2, <1>3
<1>5. UpgradeInv'
  BY <1>1, <1>3, SchemaKept
<1>6. TxInv' /\ NumberedInv'
  BY <1>1, <1>2, <1>3 DEF TxInv, NumberedInv, InTx
<1> QED
  BY <1>4, <1>5, <1>6

-----------------------------------------------------------------------------
LEMMA NextIInv == IInv /\ [Next]_vars => IInv'
<1> SUFFICES ASSUME IInv, [Next]_vars PROVE IInv'
  OBVIOUS
<1>0. NoGuid \in SomeGuid /\ 0 \in Nat
  BY DEF SomeGuid
<1>1. ASSUME NEW p \in Process, Upgrading(p)
      PROVE  IInv'
  <2>1. TypesInv' /\ UpgradeInv'
    BY <1>1, UpgradingTypes, UpgradingUpgrades
  <2>2. TxInv'
    BY <1>1, UpgradingTypes DEF IInv, TxInv
  <2>3. NumberedInv'
    <3>1. Numbered(file) => Numbered(file')
      BY <1>1, UpgradingTypes DEF Numbered, Counters, RunsOf
    <3> QED
      BY <1>1, <3>1, UpgradingTypes DEF IInv, NumberedInv
  <2> QED
    BY <2>1, <2>2, <2>3 DEF IInv
<1>2. ASSUME NEW p \in Process, NEW b \in Batches \union {<<>>}, Connect(p, b)
      PROVE  IInv'
  BY <1>2, ConnectKeeps
<1>3. ASSUME NEW p \in Process, NewExperiment(p)
      PROVE  IInv'
  BY <1>3, NewExperimentKeeps
<1>4. ASSUME NEW p \in Process, NEW e \in 1..MaxExperiments, BeginRun(p, e)
      PROVE  IInv'
  <2>1. /\ file \in Files /\ Numbered(file) /\ e \in Nat
        /\ exp_id \in [Process -> Nat]
    BY FileAssumption DEF IInv, TypesInv, NumberedInv
  <2>2. /\ exp_id' \in [Process -> Nat] /\ exp_id'[p] = e
        /\ \A q \in Process \ {p} : exp_id'[q] = exp_id[q]
    BY <1>4, <2>1 DEF BeginRun
  <2>3. "insert_run" \in InTx
    BY DEF InTx
  <2> QED
    BY <1>4, <2>1, <2>2, <2>3, BeginKeeps DEF BeginRun
<1>5. ASSUME NEW p \in Process, InsertRun(p)
      PROVE  IInv'
  <2>1. /\ pc' \in [Process -> Steps] /\ pc[p] \in InTx /\ pc'[p] \in InTx
        /\ \A q \in Process \ {p} : pc'[q] = pc[q]
        /\ left' \in [Process -> Seq(SourceRuns)]
    BY <1>5 DEF InsertRun, Goto, Steps, InTx, IInv, TypesInv
  <2> QED
    BY <1>0, <1>5, <2>1, WriteKeeps DEF InsertRun
<1>6. ASSUME NEW p \in Process, CommitRun(p) \/ FailRun(p)
      PROVE  IInv'
  <2>1. pc[p] \in InTx
    BY <1>6 DEF CommitRun, FailRun, InTx
  <2> QED
    BY <1>6, <2>1, EndKeeps DEF CommitRun, FailRun
<1>7. ASSUME NEW p \in Process, CreateExpIfNeeded(p)
      PROVE  IInv'
  <2> DEFINE f == WithExperiment(file, "source")
  <2>1. /\ file \in Files /\ Numbered(file) /\ exp_id \in [Process -> Nat]
        /\ f \in Files /\ Numbered(f) /\ f.version = file.version
        /\ f.columns = file.columns
        /\ DOMAIN f.experiments = 1..(Len(file.experiments) + 1)
    BY ExperimentAdded DEF IInv, TypesInv, NumberedInv
  <2>2. /\ Len(file.experiments) \in Nat
        /\ DOMAIN file.experiments = 1..Len(file.experiments)
    BY <2>1, FileTyped
  <2> HIDE DEF f
  <2>3. "extract" \in InTx
    BY DEF InTx
  <2>4. CASE Matching(file) # {}
    <3>1. Min(Matching(file)) \in DOMAIN file.experiments
      <4>1. Matching(file) \subseteq DOMAIN file.experiments
        BY DEF Matching
      <4>2. \E m \in Matching(file) : \A n \in Matching(file) : m <= n
        BY <2>2, <2>4, <4>1, LeastOf
      <4> QED
        BY <4>1, <4>2 DEF Min
    <3>2. /\ exp_id' \in [Process -> Nat]
          /\ exp_id'[p] \in DOMAIN file.experiments
          /\ \A q \in Process \ {p} : exp_id'[q] = exp_id[q]
      BY <1>7, <2>1, <2>2, <2>4, <3>1 DEF CreateExpIfNeeded
    <3> QED
      BY <1>7, <2>1, <2>3, <2>4, <3>2, BeginKeeps DEF CreateExpIfNeeded
  <2>5. CASE Matching(file) = {}
    <3>1. /\ exp_id' \in [Process -> Nat]
          /\ exp_id'[p] \in DOMAIN f.experiments
          /\ \A q \in Process \ {p} : exp_id'[q] = exp_id[q]
      BY <1>7, <2>1, <2>2, <2>5 DEF CreateExpIfNeeded
    <3> QED
      BY <1>7, <2>1, <2>3, <2>5, <3>1, BeginKeeps DEF CreateExpIfNeeded, f
  <2> QED
    BY <2>4, <2>5
<1>8. ASSUME NEW p \in Process, ExtractRun(p)
      PROVE  IInv'
  <2> DEFINE run == Head(left[p])
  <2>1. /\ pc[p] \in InTx /\ pc' = pc /\ left[p] \in Seq(SourceRuns)
        /\ run \in SourceRuns
    BY <1>8 DEF ExtractRun, InTx, IInv, TypesInv
  <2>2. left' \in [Process -> Seq(SourceRuns)]
    BY <1>8, <2>1 DEF ExtractRun, IInv, TypesInv
  <2>3. /\ run.guid \in SomeGuid /\ run.guid # NoGuid
        /\ run.captured_counter \in Nat
    BY <2>1, FileAssumption DEF SomeGuid, NoGuid
  <2>4. CASE UNCHANGED tx
    BY <1>8, <2>1, <2>2, <2>4
       DEF ExtractRun, IInv, TypesInv, TxInv, UpgradeInv, NumberedInv
  <2>5. CASE tx' = [tx EXCEPT ![p].view =
                      WithRun(@, exp_id[p], run.guid, run.captured_counter)]
    <3>1. pc \in [Process -> Steps]
      BY DEF IInv, TypesInv
    <3> HIDE DEF run
    <3> QED
      BY <1>8, <2>1, <2>2, <2>3, <2>5, <3>1, WriteKeeps DEF ExtractRun
  <2> QED
    BY <1>8, <2>4, <2>5 DEF ExtractRun
<1>9. ASSUME NEW p \in Process, CommitExtract(p) \/ Leave(p)
      PROVE  IInv'
  BY <1>9, EndKeeps DEF CommitExtract, Leave, InTx
<1>10. CASE UNCHANGED vars
  BY <1>10 DEF vars, IInv, TypesInv, TxInv, UpgradeInv, NumberedInv
<1> QED
  BY <1>1, <1>2, <1>3, <1>4, <1>5, <1>6, <1>7, <1>8, <1>9, <1>10
     DEF Next, Upgrading

-----------------------------------------------------------------------------
LEMMA Inductive == Spec => []IInv
BY InitIInv, NextIInv, PTL DEF Spec

(* Whatever processes upgrade the file, and wherever they are killed, the  *)
(* version it claims has all of its schema.                                *)
THEOREM SchemaOfVersion == Spec => []VersionHasSchema
<1>1. IInv => VersionHasSchema
  <2> SUFFICES ASSUME IInv, file.version > 0, NEW k \in 0..file.version
               PROVE  k \in file.columns
    BY DEF VersionHasSchema
  <2>1. file.version \in Nat
    BY DEF IInv, TypesInv, Files
  <2>2. k \in UpTo(file.version)
    BY <2>1 DEF UpTo
  <2> QED
    BY <2>2 DEF IInv, UpgradeInv
<1> QED
  BY <1>1, Inductive, PTL

(* The runs of every experiment are numbered from 1 without a gap, by      *)
(* however many processes they were created, copied or given up.           *)
THEOREM RunsAreNumbered == Spec => []RunsNumbered
<1>1. IInv => RunsNumbered
  BY DEF IInv, NumberedInv, Numbered, RunsNumbered
<1> QED
  BY <1>1, Inductive, PTL

-----------------------------------------------------------------------------
(* Extraction.  A process has copied what it has taken from its batch, and *)
(* the file holds whole batches.                                           *)

Unique(f) ==
  \A i, j \in DOMAIN f.runs :
    f.runs[i].guid = f.runs[j].guid /\ i # j => f.runs[i].guid = NoGuid

GuidsOf(b) == {b[i].guid : i \in DOMAIN b}
Whole(guids) ==
  \E done \in SUBSET Batches :
    /\ \A b \in done : \A i \in DOMAIN b : b[i].completed
    /\ guids = {r.guid : r \in UNION {{b[i] : i \in DOMAIN b} : b \in done}}

Taken(p) == {i \in DOMAIN job[p] : i <= Len(job[p]) - Len(left[p])}
Extraction(p) ==
  /\ pc[p] \notin {"closed", "extract"} => left[p] = job[p]
  /\ pc[p] \in {"insert_run", "commit_run"} =>
       Unique(tx[p].view) /\ Guids(tx[p].view) = Guids(tx[p].base)
  /\ pc[p] = "extract" =>
       /\ job[p] \in Batches /\ Unique(tx[p].view)
       /\ Len(left[p]) <= Len(job[p])
       /\ \A i \in 1..Len(left[p]) :
            left[p][i] = job[p][Len(job[p]) - Len(left[p]) + i]
       /\ \A i \in Taken(p) : job[p][i].completed
       /\ Guids(tx[p].view)
            = Guids(tx[p].base) \union {job[p][i].guid : i \in Taken(p)}

WholeInv == /\ Unique(file) /\ Whole(Guids(file))
            /\ \A p \in Process : Extraction(p)

LEMMA RunAppended ==
  ASSUME NEW f \in Files, NEW g \in Files, NEW row,
         g.runs = Append(f.runs, row), row \in Run
  PROVE  /\ Guids(g) = Guids(f) \union ({row.guid} \ {NoGuid})
         /\ Unique(f) /\ (row.guid = NoGuid \/ ~ Present(f, row.guid))
              => Unique(g)
<1>1. /\ f.runs \in Seq(Run) /\ Len(f.runs) \in Nat
      /\ DOMAIN f.runs = 1..Len(f.runs)
  BY FileTyped
<1>2. /\ DOMAIN g.runs = 1..(Len(f.runs) + 1)
      /\ g.runs[Len(f.runs) + 1] = row
      /\ \A i \in 1..Len(f.runs) : g.runs[i] = f.runs[i]
  BY <1>1, AppendProperties
<1>3. \A i \in DOMAIN g.runs : i \in DOMAIN f.runs \/ i = Len(f.runs) + 1
  BY <1>1, <1>2
<1>4. DOMAIN f.runs \subseteq DOMAIN g.runs /\ Len(f.runs) + 1 \in DOMAIN g.runs
  BY <1>1, <1>2
<1>5. Guids(g) = Guids(f) \union ({row.guid} \ {NoGuid})
  BY <1>1, <1>2, <1>3, <1>4 DEF Guids
<1>6. Unique(f) /\ (row.guid = NoGuid \/ ~ Present(f, row.guid)) => Unique(g)
  BY <1>1, <1>2, <1>3 DEF Unique, Present
<1> QED
  BY <1>5, <1>6

LEMMA RunJoins ==
  ASSUME NEW f \in Files, Numbered(f), NEW e \in DOMAIN f.experiments,
         NEW guid \in SomeGuid, NEW c \in Nat, guid = NoGuid => c = 0,
         Unique(f), guid = NoGuid \/ ~ Present(f, guid)
  PROVE  /\ Unique(WithRun(f, e, guid, c))
         /\ Guids(WithRun(f, e, guid, c)) = Guids(f) \union ({guid} \ {NoGuid})
<1> DEFINE g == WithRun(f, e, guid, c)
           row == RunRow(f, e, guid, c)
<1>1. /\ g \in Files /\ g.runs = Append(f.runs, row) /\ row \in Run
      /\ row.guid = guid
  BY RunWritten
<1> HIDE DEF g, row
<1> QED
  BY <1>1, RunAppended DEF g

LEMMA BatchAdded ==
  ASSUME NEW guids, Whole(guids), NEW b \in Batches,
         \A i \in DOMAIN b : b[i].completed
  PROVE  Whole(guids \union GuidsOf(b))
<1>1. PICK done \in SUBSET Batches :
        /\ \A d \in done : \A i \in DOMAIN d : d[i].completed
        /\ guids = {r.guid : r \in UNION {{d[i] : i \in DOMAIN d} : d \in done}}
  BY DEF Whole
<1>2. guids \union GuidsOf(b)
        = {r.guid : r \in UNION {{d[i] : i \in DOMAIN d} : d \in done \union {b}}}
  BY <1>1 DEF GuidsOf
<1> QED
  BY <1>1, <1>2 DEF Whole

LEMMA InitWhole == Init => WholeInv
<1> SUFFICES ASSUME Init PROVE WholeInv
  OBVIOUS
<1>1. file.runs = <<>>
  BY DEF Init, Empty
<1>2. Unique(file) /\ Guids(file) = {}
  BY <1>1 DEF Unique, Guids
<1>3. Whole({})
  <2>1. {r.guid : r \in UNION {{b[i] : i \in DOMAIN b} : b \in {}}} = {}
    OBVIOUS
  <2> QED
    BY <2>1 DEF Whole
<1> QED
  BY <1>2, <1>3 DEF Init, WholeInv, Extraction

LEMMA SameExtraction ==
  ASSUME NEW q, pc'[q] = pc[q], job'[q] = job[q], left'[q] = left[q],
         tx'[q] = tx[q], Extraction(q)
  PROVE  Extraction(q)'
<1>1. Taken(q)' = Taken(q)
  BY DEF Taken
<1>2. {job'[q][i].guid : i \in Taken(q)'} = {job[q][i].guid : i \in Taken(q)}
  BY <1>1
<1>3. /\ Unique(tx'[q].view) <=> Unique(tx[q].view)
      /\ Guids(tx'[q].view) = Guids(tx[q].view)
      /\ Guids(tx'[q].base) = Guids(tx[q].base)
  OBVIOUS
<1> QED
  BY <1>1, <1>2, <1>3 DEF Extraction

(* The others are not disturbed.                                           *)
LEMMA OthersExtract ==
  ASSUME NEW p \in Process, WholeInv,
         \A q \in Process \ {p} : /\ pc'[q] = pc[q] /\ job'[q] = job[q]
                                  /\ left'[q] = left[q] /\ tx'[q] = tx[q],
         Unique(file'), Whole(Guids(file')), Extraction(p)'
  PROVE  WholeInv'
<1>1. ASSUME NEW q \in Process, q # p
      PROVE  Extraction(q)'
  BY <1>1, SameExtraction DEF WholeInv
<1> QED
  BY <1>1 DEF WholeInv

(* The next run of the batch is in the view.                               *)
LEMMA TakeOne ==
  ASSUME IInv, NEW p \in Process, Extraction(p),
         pc[p] = "extract", left[p] # <<>>,
         Head(left[p]).completed,
         UNCHANGED <<pc, job>>,
         left' = [left EXCEPT ![p] = Tail(@)],
         tx'[p].base = tx[p].base, Unique(tx'[p].view),
         Guids(tx'[p].view) = Guids(tx[p].view) \union {Head(left[p]).guid}
  PROVE  Extraction(p)'
<1> DEFINE m == Len(job[p])
           n == Len(left[p])
           next == m - n + 1
<1>1. /\ left[p] \in Seq(SourceRuns) /\ job[p] \in Seq(SourceRuns)
      /\ m \in Nat /\ n \in Nat /\ n > 0 /\ n <= m
      /\ DOMAIN job[p] = 1..m
  <2>1. job[p] \in Batches /\ left[p] \in Seq(SourceRuns) /\ n <= m
    BY DEF IInv, TypesInv, Extraction
  <2>2. job[p] \in Seq(SourceRuns)
    BY <2>1, FileAssumption
  <2> QED
    BY <2>1, <2>2
<1>2. /\ left'[p] = Tail(left[p]) /\ Len(left'[p]) = n - 1
      /\ \A i \in 1..(n - 1) : left'[p][i] = left[p][i + 1]
  BY <1>1 DEF IInv, TypesInv
<1>9. \A i \in 1..n : left[p][i] = job[p][m - n + i]
  BY DEF Extraction
<1>3. Head(left[p]) = job[p][next]
  <2>1. 1 \in 1..n /\ Head(left[p]) = left[p][1]
    BY <1>1
  <2> HIDE DEF n, m
  <2> QED
    BY <1>9, <2>1
<1>4. Taken(p)' = Taken(p) \union {next} /\ next \in DOMAIN job[p]
  <2>1. Taken(p)' = {i \in 1..m : i <= m - (n - 1)}
    BY <1>1, <1>2 DEF Taken
  <2>2. Taken(p) = {i \in 1..m : i <= m - n}
    BY <1>1 DEF Taken
  <2> HIDE DEF n, m
  <2> QED
    BY <1>1, <2>1, <2>2
<1>5. \A i \in 1..Len(left'[p]) :
        left'[p][i] = job[p][Len(job[p]) - Len(left'[p]) + i]
  <2> SUFFICES ASSUME NEW i \in 1..(n - 1)
               PROVE  left'[p][i] = job[p][m - (n - 1) + i]
    BY <1>2
  <2>1. left'[p][i] = left[p][i + 1] /\ i + 1 \in 1..n
    BY <1>1, <1>2
  <2> HIDE DEF n, m
  <2>2. m - n + (i + 1) = m - (n - 1) + i
    BY <1>1
  <2> QED
    BY <1>9, <2>1, <2>2
<1> HIDE DEF next, n, m
<1>6. \A i \in Taken(p)' : job[p][i].completed
  BY <1>3, <1>4 DEF Extraction
<1>7. Guids(tx'[p].view)
        = Guids(tx'[p].base) \union {job[p][i].guid : i \in Taken(p)'}
  BY <1>3, <1>4 DEF Extraction
<1>8. Len(left'[p]) <= Len(job[p])
  BY <1>1, <1>2 DEF n, m
<1> QED
  BY <1>5, <1>6, <1>7, <1>8 DEF Extraction

LEMMA NextWhole == IInv /\ WholeInv /\ [Next]_vars => WholeInv'
<1> SUFFICES ASSUME IInv, WholeInv, [Next]_vars PROVE WholeInv'
  OBVIOUS
<1> USE DEF IInv, TypesInv
<1>0. \A f, g : f.runs = g.runs => /\ Guids(f) = Guids(g)
                                  /\ Unique(f) <=> Unique(g)
  BY DEF Guids, Unique
<1>1. ASSUME NEW p \in Process, Upgrading(p)
      PROVE  WholeInv'
  <2>1. pc[p] \notin {"closed"} \union InTx
    BY <1>1 DEF Upgrading, InitDb, PerformDbUpgrade, SkipStep, TakeStep,
                UpgradeFunction, SetUserVersion, InTx
  <2>2. Extraction(p)'
    BY <1>1, <2>1, UpgradingTypes DEF WholeInv, Extraction, InTx
  <2>3. Guids(file') = Guids(file) /\ Unique(file')
    BY <1>0, <1>1, UpgradingTypes DEF WholeInv
  <2> QED
    BY <1>1, <2>2, <2>3, OthersExtract, UpgradingTypes DEF WholeInv
<1>2. ASSUME NEW p \in Process, NEW b \in Batches \union {<<>>}, Connect(p, b)
      PROVE  WholeInv'
  <2>1. Extraction(p)'
    BY <1>2 DEF Connect, Goto, Extraction
  <2> QED
    BY <1>2, <2>1, OthersExtract DEF Connect, Goto, WholeInv
<1>3. ASSUME NEW p \in Process, NewExperiment(p)
      PROVE  WholeInv'
  <2>1. Guids(file') = Guids(file) /\ Unique(file')
    BY <1>0, <1>3, ExperimentAdded DEF NewExperiment, NumberedInv, WholeInv
  <2>2. Extraction(p)'
    BY <1>3 DEF NewExperiment, WholeInv, Extraction, Taken
  <2> QED
    BY <1>3, <2>1, <2>2, OthersExtract DEF NewExperiment, WholeInv
<1>4. ASSUME NEW p \in Process, NEW e \in 1..MaxExperiments, BeginRun(p, e)
      PROVE  WholeInv'
  <2>1. tx'[p].base = file /\ tx'[p].view = file /\ pc'[p] = "insert_run"
    BY <1>4 DEF BeginRun, Begin, Goto
  <2>2. left'[p] = job'[p]
    BY <1>4 DEF BeginRun, WholeInv, Extraction
  <2>3. Extraction(p)'
    BY <1>4, <2>1, <2>2 DEF BeginRun, WholeInv, Extraction
  <2> QED
    BY <1>4, <2>3, OthersExtract DEF BeginRun, Begin, Goto, WholeInv
<1>5. ASSUME NEW p \in Process, InsertRun(p)
      PROVE  WholeInv'
  <2> DEFINE f == tx[p].view
             g == WithRun(f, exp_id[p], NoGuid, 0)
  <2>1. /\ f \in Files /\ Numbered(f) /\ exp_id[p] \in DOMAIN f.experiments
        /\ Unique(f) /\ Guids(f) = Guids(tx[p].base)
        /\ NoGuid \in SomeGuid
    BY <1>5 DEF InsertRun, TxInv, NumberedInv, InTx, WholeInv, Extraction,
                SomeGuid
  <2>2. Unique(g) /\ Guids(g) = Guids(f)
    <3>1. PICK c \in Nat : c = 0
      OBVIOUS
    <3> HIDE DEF f
    <3>2. /\ Unique(WithRun(f, exp_id[p], NoGuid, c))
          /\ Guids(WithRun(f, exp_id[p], NoGuid, c))
               = Guids(f) \union ({NoGuid} \ {NoGuid})
      <4>1. \A guid \in SomeGuid :
              guid = NoGuid =>
                /\ Unique(WithRun(f, exp_id[p], guid, c))
                /\ Guids(WithRun(f, exp_id[p], guid, c))
                     = Guids(f) \union ({guid} \ {NoGuid})
        BY <2>1, <3>1, RunJoins
      <4> QED
        BY <2>1, <4>1
    <3> QED
      BY <3>1, <3>2 DEF g
  <2>3. /\ tx'[p].base = tx[p].base /\ tx'[p].view = g
        /\ pc'[p] = "commit_run"
    BY <1>5 DEF InsertRun, Goto
  <2>5. left'[p] = job'[p]
    BY <1>5 DEF InsertRun, WholeInv, Extraction
  <2> HIDE DEF f, g
  <2>4. Extraction(p)'
    BY <2>1, <2>2, <2>3, <2>5 DEF Extraction
  <2> QED
    BY <1>5, <2>4, OthersExtract DEF InsertRun, Goto, WholeInv
<1>6. ASSUME NEW p \in Process, CommitRun(p) \/ FailRun(p)
      PROVE  WholeInv'
  <2>1. /\ pc[p] \in {"insert_run", "commit_run"}
        /\ pc'[p] = "open" /\ left'[p] = job'[p]
    BY <1>6 DEF CommitRun, FailRun, Goto, WholeInv, Extraction
  <2>2. Extraction(p)'
    BY <2>1 DEF Extraction
  <2>3. Unique(file') /\ Guids(file') = Guids(file)
    BY <1>6, <2>1 DEF CommitRun, FailRun, Commit, Rollback, WholeInv, Extraction
  <2> QED
    BY <1>6, <2>2, <2>3, OthersExtract
       DEF CommitRun, FailRun, Commit, Rollback, Goto, WholeInv
<1>7. ASSUME NEW p \in Process, CreateExpIfNeeded(p)
      PROVE  WholeInv'
  <2>1. /\ tx'[p].base = file /\ tx'[p].view.runs = file.runs
        /\ pc'[p] = "extract"
    BY <1>7, ExperimentAdded DEF CreateExpIfNeeded, Begin, Goto, NumberedInv
  <2>2. /\ job'[p] = job[p] /\ left'[p] = job[p] /\ job[p] \in Batches
    BY <1>7 DEF CreateExpIfNeeded, WholeInv, Extraction
  <2>3. Len(job[p]) \in Nat /\ DOMAIN job[p] = 1..Len(job[p])
    BY <2>2, FileAssumption
  <2>4. Taken(p)' = {}
    BY <2>2, <2>3 DEF Taken
  <2>5. /\ Len(left'[p]) <= Len(job'[p])
        /\ \A i \in 1..Len(left'[p]) :
             left'[p][i] = job'[p][Len(job'[p]) - Len(left'[p]) + i]
    BY <2>2, <2>3
  <2>6. Unique(tx'[p].view) /\ Guids(tx'[p].view) = Guids(tx'[p].base)
    BY <1>0, <2>1 DEF WholeInv
  <2>7. Extraction(p)'
    BY <2>1, <2>2, <2>4, <2>5, <2>6 DEF Extraction
  <2> QED
    BY <1>7, <2>7, OthersExtract DEF CreateExpIfNeeded, Begin, Goto, WholeInv
<1>8. ASSUME NEW p \in Process, ExtractRun(p)
      PROVE  WholeInv'
  <2> DEFINE f == tx[p].view
             run == Head(left[p])
             g == WithRun(f, exp_id[p], run.guid, run.captured_counter)
  <2>1. /\ f \in Files /\ Numbered(f) /\ exp_id[p] \in DOMAIN f.experiments
        /\ Unique(f) /\ left[p] \in Seq(SourceRuns) /\ run \in SourceRuns
    BY <1>8 DEF ExtractRun, TxInv, NumberedInv, InTx, WholeInv, Extraction
  <2>2. /\ run.guid \in SomeGuid /\ run.guid # NoGuid
        /\ run.captured_counter \in Nat
    BY <2>1, FileAssumption DEF SomeGuid, NoGuid
  <2>3. /\ tx'[p].base = tx[p].base /\ Unique(tx'[p].view)
        /\ Guids(tx'[p].view) = Guids(f) \union {run.guid}
        /\ \A q \in Process \ {p} : tx'[q] = tx[q]
    <3>1. CASE Present(f, run.guid) /\ UNCHANGED tx
      BY <2>1, <2>2, <3>1 DEF Present, Guids
    <3>2. CASE /\ ~ Present(f, run.guid)
               /\ tx' = [tx EXCEPT ![p].view =
                    WithRun(@, exp_id[p], run.guid, run.captured_counter)]
      <4>1. Unique(g) /\ Guids(g) = Guids(f) \union {run.guid}
        <5> HIDE DEF f, run
        <5> QED
          BY <2>1, <2>2, <3>2, RunJoins DEF g
      <4>2. /\ tx'[p].base = tx[p].base /\ tx'[p].view = g
            /\ \A q \in Process \ {p} : tx'[q] = tx[q]
        BY <3>2
      <4> HIDE DEF f, g, run
      <4> QED
        BY <4>1, <4>2
    <3> QED
      BY <1>8, <3>1, <3>2 DEF ExtractRun
  <2>4. Extraction(p)'
    BY <1>8, <2>3, TakeOne DEF ExtractRun, WholeInv
  <2> QED
    BY <1>8, <2>3, <2>4, OthersExtract DEF ExtractRun, WholeInv
<1>9. ASSUME NEW p \in Process, CommitExtract(p)
      PROVE  WholeInv'
  <2>1. /\ pc[p] = "extract" /\ left[p] = <<>> /\ job[p] \in Batches
        /\ file' = tx[p].view /\ tx[p].base = file
    BY <1>9 DEF CommitExtract, Commit, WholeInv, Extraction
  <2>2. Taken(p) = DOMAIN job[p]
    <3>1. /\ Len(job[p]) \in Nat /\ DOMAIN job[p] = 1..Len(job[p])
          /\ Len(left[p]) = 0
      BY <2>1, FileAssumption
    <3> QED
      BY <3>1 DEF Taken
  <2>3. /\ Guids(file') = Guids(file) \union GuidsOf(job[p])
        /\ Unique(file') /\ \A i \in DOMAIN job[p] : job[p][i].completed
    BY <2>1, <2>2 DEF WholeInv, Extraction, GuidsOf
  <2>4. Whole(Guids(file'))
    <3>1. Whole(Guids(file) \union GuidsOf(job[p]))
      BY <2>1, <2>3, BatchAdded DEF WholeInv
    <3> QED
      BY <2>3, <3>1
  <2>5. Extraction(p)'
    BY <1>9 DEF CommitExtract, Goto, Extraction
  <2> QED
    BY <1>9, <2>3, <2>4, <2>5, OthersExtract DEF CommitExtract, Commit, Goto
<1>10. ASSUME NEW p \in Process, Leave(p)
       PROVE  WholeInv'
  <2>1. Extraction(p)'
    BY <1>10 DEF Leave, Goto, Extraction
  <2> QED
    BY <1>10, <2>1, OthersExtract DEF Leave, Rollback, Goto, WholeInv
<1>11. CASE UNCHANGED vars
  BY <1>11, SameExtraction DEF vars, WholeInv
<1> QED
  BY <1>1, <1>2, <1>3, <1>4, <1>5, <1>6, <1>7, <1>8, <1>9, <1>10, <1>11
     DEF Next, Upgrading

(* Extractions leave whole batches of completed runs, each run once,       *)
(* however many run at a time and whatever fails.                          *)
THEOREM ExtractionsAreWhole == Spec => []ExtractIsWhole
<1>1. WholeInv => ExtractIsWhole
  BY DEF WholeInv, Whole, Unique, ExtractIsWhole
<1>2. Init => IInv /\ WholeInv
  BY InitIInv, InitWhole
<1>3. (IInv /\ WholeInv) /\ [Next]_vars => (IInv /\ WholeInv)'
  BY NextIInv, NextWhole
<1> QED
  BY <1>1, <1>2, <1>3, PTL DEF Spec
=============================================================================
