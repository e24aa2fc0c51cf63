------------------------------- MODULE RunLog -------------------------------
(***************************************************************************)
(* What the database promises of a run, whatever thread writes it and      *)
(* however often the process dies: a run is created, started, and          *)
(* completed, in this order; its results table is a log that grows by      *)
(* consecutive results while the run is started, and never changes again   *)
(* once the run is completed.                                              *)
(***************************************************************************)
EXTENDS Integers, Sequences

CONSTANTS Runs,
          MaxPoints  \* bound: results of one run

VARIABLES status, log

vars == <<status, log>>

Init == /\ status = [d \in Runs |-> "absent"]
        /\ log = [d \in Runs |-> <<>>]

Step(d, from, to) == /\ status[d] = from
                     /\ status' = [status EXCEPT ![d] = to]
                     /\ UNCHANGED log

Create(d)   == Step(d, "absent", "created")
Start(d)    == Step(d, "created", "started")
Complete(d) == Step(d, "started", "completed")

(* Results Len(log[d]) + 1 .. n become durable together.                   *)
Extend(d, n) ==
  /\ status[d] = "started"
  /\ log' = [log EXCEPT ![d] = @ \o [i \in 1..(n - Len(@)) |-> Len(@) + i]]
  /\ UNCHANGED status

Next == \E d \in Runs : \/ Create(d)
                        \/ Start(d)
                        \/ \E n \in (Len(log[d]) + 1)..MaxPoints : Extend(d, n)
                        \/ Complete(d)

Spec == Init /\ [][Next]_vars
=============================================================================
