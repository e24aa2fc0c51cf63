-------------------------------- MODULE Dond --------------------------------
(***************************************************************************)
(* Scans: do0d, do1d, do2d and dond (src/qcodes/dataset/dond).             *)
(*                                                                         *)
(* A scan goes through the product of its sweeps, the last dimension       *)
(* fastest, sets what has to be set, measures, and adds a row to one       *)
(* dataset per group of measured parameters.  What is measured is taken to *)
(* tell in which state the instruments were.                               *)
(***************************************************************************)
EXTENDS Integers, Sequences, SequencesExt, FiniteSets

CONSTANTS
  Scans,   \* the calls: [entry, sweeps, before, get, groups]
  Params,  \* the parameters that are swept
  Coarse,  \* those whose instrument rounds what it is set to
  Unset,   \* the value of a parameter before it is set
  Raised   \* subset of {"error", "interrupt"}: what may be raised

(* A sweep is [param, dim, values]; those of one dim make a TogetherSweep. *)
(* do1d and do2d sweep linearly: their values are evenly spaced.           *)
(* before is set_before_sweep of do2d, get the parameters swept with       *)
(* get_after_set.                                                          *)
ASSUME ScansAssumption ==
  /\ \A s \in Scans :
       /\ s.entry \in {"do0d", "do1d", "do2d", "dond"}
       /\ s.sweeps \in Seq([param : Params, dim : Nat, values : Seq(Int)])
       /\ s.entry = "do0d" => Len(s.sweeps) = 0
       /\ s.entry = "do1d" => Len(s.sweeps) = 1
       /\ s.entry = "do2d" =>  \* the outer dimension and the inner one
            /\ Len(s.sweeps) = 2
            /\ s.sweeps[1].dim = 1 /\ s.sweeps[2].dim = 2
            /\ s.sweeps[1].param # s.sweeps[2].param
       /\ s.get \subseteq Params
       /\ s.groups \in Nat \ {0}
       /\ s.entry # "dond" =>
            /\ s.groups = 1 /\ s.get = {}
            /\ \A i \in DOMAIN s.sweeps :
                 LET v == s.sweeps[i].values IN
                 \A j \in 2..Len(v) : v[j] = v[1] + (j - 1) * (v[2] - v[1])
       /\ Coarse \cap {s.sweeps[i].param : i \in DOMAIN s.sweeps}
            \subseteq s.get
  /\ Raised \subseteq {"error", "interrupt"}

VARIABLES
  scan,      \* the call
  knob,      \* what each parameter is at its instrument
  k,         \* _iter_index
  todo,      \* set events of this point still to be processed
  results,   \* the setpoints of this point as they will be recorded
  measured,  \* what call_params_meas has returned
  rows,      \* the rows added to each dataset
  status,    \* of each dataset: "absent", "running", "completed"
  marked,    \* datasets with the metadata measurement_exception
  broken,    \* datasets whose __enter__ or __exit__ was broken off
  stack,     \* the ExitStack: groups whose context was entered
  exc,       \* the exception on its way: "none", "break", "error", "interrupt"
  pc

data == <<rows, status, marked, broken>>
vars == <<scan, knob, k, todo, results, measured, data, stack, exc, pc>>

-----------------------------------------------------------------------------
(* _Sweeper                                                                *)

Sweeps == scan.sweeps
Swept  == {Sweeps[i].param : i \in DOMAIN Sweeps}
Dims   == {Sweeps[i].dim : i \in DOMAIN Sweeps}
Sweep(p) == Sweeps[CHOOSE i \in DOMAIN Sweeps : Sweeps[i].param = p]

NumPoints(d) ==
  Len(Sweeps[CHOOSE i \in DOMAIN Sweeps : Sweeps[i].dim = d].values)
PointsOf(D) == FoldFunctionOnSet(LAMBDA a, b : a * b, 1,
                                 [d \in Dims |-> NumPoints(d)], D)
Points == PointsOf(Dims)

(* _make_setpoints_tuples: the entry at an index of itertools.product.     *)
Index(i, d) == (i \div PointsOf({e \in Dims : e > d})) % NumPoints(d)
Setpoint(i) == [p \in Swept |-> Sweep(p).values[1 + Index(i, Sweep(p).dim)]]

(* A slip: a dimension that starts over is not set.                        *)
ShouldSetUnlessFirst(i, p) ==
  i = 0 \/ (Index(i, Sweep(p).dim) # 0 /\ Setpoint(i)[p] # Setpoint(i - 1)[p])

(* _Sweeper.__getitem__: only what changes is set.                         *)
ShouldSet(i, p) == i = 0 \/ Setpoint(i)[p] # Setpoint(i - 1)[p]

Event(p, v, set) == [param |-> p, value |-> v, set |-> set]

DondEvents(i) ==
  [j \in DOMAIN Sweeps |->
     LET p == Sweeps[j].param IN Event(p, Setpoint(i)[p], ShouldSet(i, p))]

(* do2d: with set_before_sweep the inner parameter goes to its start       *)
(* before the outer one is set, and is not set there again.                *)
Do2dEvents(i) ==
  LET outer == Sweeps[1].param
      inner == Sweeps[2].param
      start == Sweeps[2].values[1]
      v     == Setpoint(i)[inner] IN
  (IF i % NumPoints(2) # 0 THEN <<>>
   ELSE (IF scan.before THEN <<Event(inner, start, TRUE)>> ELSE <<>>)
        \o <<Event(outer, Setpoint(i)[outer], TRUE)>>)
  \o <<Event(inner, v, ~(v = start /\ scan.before))>>

Events(i) ==
  CASE scan.entry = "do0d" -> <<>>
    [] scan.entry = "do1d" ->
         <<Event(Sweeps[1].param, Setpoint(i)[Sweeps[1].param], TRUE)>>
    [] scan.entry = "do2d" -> Do2dEvents(i)
    [] scan.entry = "dond" -> DondEvents(i)

(* What an instrument makes of a value.                                    *)
Actual(p, v) == IF p \in Coarse THEN v - (v % 2) ELSE v

-----------------------------------------------------------------------------
Groups == 1..scan.groups

Init ==
  /\ scan \in Scans
  /\ knob = [p \in Params |-> Unset]
  /\ k = 0 /\ todo = <<>>
  /\ results = <<>> /\ measured = <<>>
  /\ rows = [g \in Groups |-> <<>>]
  /\ status = [g \in Groups |-> "absent"]
  /\ marked = {} /\ broken = {}
  /\ stack = <<>> /\ exc = "none"
  /\ pc = "enter"

(* stack.enter_context(group.measurement_cxt.run()), in order              *)
Enter ==
  LET g == Len(stack) + 1 IN
  /\ pc = "enter"
  /\ status' = [status EXCEPT ![g] = "running"]
  /\ stack' = Append(stack, g)
  /\ pc' = IF g = scan.groups THEN "point" ELSE "enter"
  /\ UNCHANGED <<scan, knob, k, todo, results, measured, rows, marked, broken,
                 exc>>

(* An enter action raises before the dataset exists, or __enter__ is       *)
(* broken off after: the group is not on the stack.                        *)
EnterBreaksOff ==
  LET g == Len(stack) + 1 IN
  /\ pc = "enter"
  /\ exc' \in Raised
  /\ \/ UNCHANGED <<status, broken>>
     \/ status' = [status EXCEPT ![g] = "running"] /\ broken' = broken \cup {g}
  /\ pc' = "leave"
  /\ UNCHANGED <<scan, knob, k, todo, results, measured, rows, marked, stack>>

NextPoint ==
  /\ pc = "point"
  /\ IF k < Points
       THEN todo' = Events(k) /\ results' = Setpoint(k) /\ pc' = "set"
       ELSE pc' = "leave" /\ UNCHANGED <<todo, results>>
  /\ UNCHANGED <<scan, knob, k, measured, data, stack, exc>>

(* results[set_event.parameter]                                            *)
Recorded(e) ==
  IF e.param \in scan.get
    THEN [results EXCEPT ![e.param] = knob'[e.param]] ELSE results

SetEvent ==
  /\ pc = "set" /\ todo # <<>>
  /\ LET e == Head(todo) IN
       /\ knob' = IF e.set
                    THEN [knob EXCEPT ![e.param] = Actual(e.param, e.value)]
                    ELSE knob
       /\ results' = Recorded(e)
  /\ todo' = Tail(todo)
  /\ UNCHANGED <<scan, k, measured, data, stack, exc, pc>>

Measure ==
  /\ pc = "set" /\ todo = <<>>
  /\ measured' = [p \in Swept |-> knob[p]]
  /\ pc' = "record"
  /\ UNCHANGED <<scan, knob, k, todo, results, data, stack, exc>>

(* Datasets that have got their row of this point.                         *)
Served == {g \in Groups : Len(rows[g]) > k}

(* A slip: the break condition is asked after each dataset.                *)
AddResultAsksFirst(g) ==
  /\ pc = "record" /\ g \notin Served /\ \A h \in 1..(g - 1) : h \in Served
  /\ rows' = [rows EXCEPT ![g] =
       Append(@, [setpoints |-> results, values |-> measured])]
  /\ pc' \in {"asked", "record"}

(* datasaver.add_result, one group after the other                         *)
AddResult(g) ==
  /\ pc = "record" /\ g \notin Served /\ \A h \in 1..(g - 1) : h \in Served
  /\ rows' = [rows EXCEPT ![g] =
       Append(@, [setpoints |-> results, values |-> measured])]
  /\ pc' = IF g = scan.groups THEN "asked" ELSE "record"

Record ==
  /\ \E g \in Groups : AddResult(g)
  /\ UNCHANGED <<scan, knob, k, todo, results, measured, status, marked, broken,
                 stack, exc>>

(* break_condition(); do0d has none                                        *)
Break ==
  /\ pc = "asked" /\ scan.entry # "do0d"
  /\ exc' = "break" /\ pc' = "leave"
  /\ UNCHANGED <<scan, knob, k, todo, results, measured, data, stack>>

GoOn ==
  /\ pc = "asked"
  /\ k' = k + 1 /\ pc' = "point"
  /\ UNCHANGED <<scan, knob, todo, results, measured, data, stack, exc>>

(* Setting, measuring or adding a result raises, or Ctrl-C comes.          *)
BodyRaises ==
  /\ pc \in {"point", "set", "record", "asked"}
  /\ exc' \in Raised /\ pc' = "leave"
  /\ UNCHANGED <<scan, knob, k, todo, results, measured, data, stack>>

(* A slip: catch_interrupts is entered inside the datasets' contexts.      *)
LeaveSwallowing(g) ==
  /\ marked' = IF exc \in {"none", "break"} THEN marked ELSE marked \cup {g}
  /\ status' = [status EXCEPT ![g] = "completed"]
  /\ exc' \in {exc} \cup (Raised \cap {"interrupt"})
  /\ UNCHANGED broken

(* Runner.__exit__ of group g.  A Ctrl-C meanwhile is held back to its end *)
(* and then takes the place of the exception.                              *)
Leave(g) ==
  /\ marked' = IF exc = "none" THEN marked ELSE marked \cup {g}
  /\ status' = [status EXCEPT ![g] = "completed"]
  /\ exc' \in {exc} \cup (Raised \cap {"interrupt"})
  /\ UNCHANGED broken

(* An exit action raises: neither the metadata nor mark_completed.         *)
LeaveBreaksOff(g) ==
  /\ "error" \in Raised
  /\ broken' = broken \cup {g} /\ exc' = "error"
  /\ UNCHANGED <<marked, status>>

(* A slip: the contexts that are left after one that raises are forgotten. *)
UnwindUntilError ==
  LET g == Last(stack) IN
  /\ pc = "leave" /\ stack # <<>>
  /\ \/ Leave(g) /\ stack' = Front(stack)
     \/ LeaveBreaksOff(g) /\ stack' = <<>>
  /\ UNCHANGED <<scan, knob, k, todo, results, measured, rows, pc>>

(* ExitStack.__exit__: the last one entered first; each is told the        *)
(* exception that is on its way by then.                                   *)
Unwind ==
  LET g == Last(stack) IN
  /\ pc = "leave" /\ stack # <<>>
  /\ Leave(g) \/ LeaveBreaksOff(g)
  /\ stack' = Front(stack)
  /\ UNCHANGED <<scan, knob, k, todo, results, measured, rows, pc>>

(* catch_interrupts: BreakConditionInterrupt ends here.                    *)
End ==
  /\ pc = "leave" /\ stack = <<>>
  /\ pc' = IF exc \in {"none", "break"} THEN "returned" ELSE "raised"
  /\ UNCHANGED <<scan, knob, k, todo, results, measured, data, stack, exc>>

Next ==
  \/ Enter \/ EnterBreaksOff \/ NextPoint \/ SetEvent \/ Measure \/ Record
  \/ Break \/ GoOn \/ BodyRaises \/ Unwind \/ End

Spec == Init /\ [][Next]_vars

-----------------------------------------------------------------------------
TypeOK ==
  /\ scan \in Scans /\ k \in 0..Points
  /\ DOMAIN rows = Groups
  /\ status \in [Groups -> {"absent", "running", "completed"}]
  /\ marked \cup broken \cup Range(stack) \subseteq Groups
  /\ exc \in {"none", "break", "error", "interrupt"}
  /\ pc \in {"enter", "point", "set", "record", "asked", "leave", "returned",
             "raised"}

(* Although only what changes is set, every row states the point its       *)
(* values were measured at: the setpoints recorded are where the           *)
(* instruments stood, also where a dimension starts over, repeats a value, *)
(* is set together with another or is rounded and read back.               *)
RowsAreTrue ==
  \A g \in Groups : \A i \in DOMAIN rows[g] :
    rows[g][i].setpoints = rows[g][i].values

(* The datasets of one dond stay in step, whatever is raised: row i of     *)
(* each is point i of the grid, a later group is at most the row of the    *)
(* current point behind, and none when the break condition ended the scan. *)
GroupsInStep ==
  /\ \A g \in Groups : \A i \in DOMAIN rows[g] : \A p \in Swept :
       rows[g][i].setpoints[p] = Actual(p, Setpoint(i - 1)[p])
  /\ \A g, h \in Groups : g < h =>
       Len(rows[g]) - Len(rows[h]) \in (IF exc = "break" THEN {0} ELSE {0, 1})

(* Who opens a completed dataset can tell a scan that was cut short: it    *)
(* has the metadata measurement_exception.                                 *)
PartialIsMarked ==
  \A g \in Groups :
    status[g] = "completed" /\ Len(rows[g]) < Points => g \in marked

(* However a scan ends, no dataset is left running but one whose own       *)
(* __enter__ or exit action was broken off, and a scan that returns has    *)
(* completed them all.                                                     *)
NoneLeftRunning ==
  /\ pc \in {"returned", "raised"} =>
       \A g \in Groups : status[g] = "running" => g \in broken
  /\ pc = "returned" => \A g \in Groups : status[g] = "completed"
=============================================================================
