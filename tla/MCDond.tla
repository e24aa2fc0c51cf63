------------------------------- MODULE MCDond -------------------------------
(* Small scans for TLC: every entry point, and dond with repeated values,  *)
(* a TogetherSweep, a rounded parameter read back and two datasets.        *)
EXTENDS Dond

CONSTANTS x, y, z

AllParams == {x, y, z}
OnlyZ     == {z}
AllRaised == {"error", "interrupt"}

S(p, d, v) == [param |-> p, dim |-> d, values |-> v]
Call(entry, sweeps, before, get, groups) ==
  [entry |-> entry, sweeps |-> sweeps, before |-> before, get |-> get,
   groups |-> groups]

Xs == S(x, 1, <<1, 2, 2>>)
Ys == S(y, 2, <<1, 3, 1>>)   \* an ArraySweep
Lin(p, d) == S(p, d, <<3, 2, 1>>)

TheScans ==
  { Call("do0d", <<>>, FALSE, {}, 1),
    Call("do1d", <<Lin(x, 1)>>, FALSE, {}, 1),
    Call("do2d", <<Lin(x, 1), Lin(y, 2)>>, FALSE, {}, 1),
    Call("do2d", <<Lin(x, 1), Lin(y, 2)>>, TRUE, {}, 1),
    Call("do2d", <<Lin(x, 1), S(y, 2, <<1, 1>>)>>, TRUE, {}, 1),
    Call("dond", <<Xs, Ys>>, FALSE, {}, 3),
    Call("dond", <<S(z, 1, <<1, 2, 3>>), Ys>>, FALSE, {z}, 2),
    Call("dond", <<Xs, S(z, 1, <<5, 4, 5>>), S(y, 2, <<0, 1>>)>>,
         FALSE, {z, x}, 2) }
=============================================================================
