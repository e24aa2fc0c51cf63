--------------------------- MODULE MCDatabaseFile ---------------------------
(* A small instance of DatabaseFile for TLC.                               *)
EXTENDS DatabaseFile

\* upgrade 1 repeats badly, 2 creates an index, 3 looks before it adds
CONSTANTS p1, p2
TwoProcesses == {p1, p2}
OneIsOlder   == [p \in TwoProcesses |-> IF p = p1 THEN 2 ELSE 3]
FirstAlters  == {1}
Columns      == {1, 3}

Run(guid, completed) ==
  [guid |-> guid, completed |-> completed, captured_counter |-> 7]
Overlapping == {<<Run("g1", TRUE), Run("g2", TRUE)>>,
                <<Run("g2", TRUE), Run("g3", FALSE)>>}
=============================================================================
