------------------------- MODULE MCAtomicConnection -------------------------
(* Small instances of AtomicConnection for TLC.                            *)
EXTENDS AtomicConnection

AllFaults  == {"statement", "commit"}
=============================================================================
