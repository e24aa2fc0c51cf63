-------------------------- MODULE MCDataSetWriter --------------------------
(* Small instances of DataSetWriter for TLC.                               *)
EXTENDS DataSetWriterInvariants, TLC

CONSTANTS d1, d2

OneRun  == {d1}
TwoRuns == {d1, d2}

TwoRunsAlike == Permutations(TwoRuns)

NoFaults           == {}
SubscribeOnly      == {"subscribe"}
SubscribeCrashExit == {"subscribe", "crash", "exit"}
AllFaults          == FaultKinds
=============================================================================
