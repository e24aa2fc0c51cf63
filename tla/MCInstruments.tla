--------------------------- MODULE MCInstruments ---------------------------
(* A small instance of Instruments for TLC: two instruments of one name,   *)
(* of a class and of its subclass, and one of another name.                *)
EXTENDS Instruments, TLC

CONSTANTS i1, i2, j1, dac, lockin, Dac, FastDac

Objects   == {i1, i2, j1}
TheNames  == {dac, lockin}
TheClasses == {Dac, FastDac}
TheNameOf == [o \in Objects |-> IF o = j1 THEN lockin ELSE dac]
TheClassOf == [o \in Objects |-> IF o = i2 THEN FastDac ELSE Dac]
TheSuperOf == [c \in TheClasses |-> Dac]
Loadable  == {i1, i2}
Reconnected == {dac}
AllFailures == FailureKinds
=============================================================================
