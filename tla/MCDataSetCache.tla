--------------------------- MODULE MCDataSetCache ---------------------------
(* A small instance of DataSetCache for TLC.                               *)
EXTENDS DataSetCache

TwoTrees == <<"v1", "v2">>

\* one tree with room for every point, and one without a shape or with one
\* that overflows
WideOrTight == {[t \in {"v1", "v2"} |-> IF t = "v1" THEN 2 ELSE n] :
                  n \in {0, 1}}
=============================================================================
