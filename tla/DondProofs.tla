----------------------------- MODULE DondProofs -----------------------------
(* For every grid, however many datasets and whatever is raised: the rows  *)
(* of each dataset are the first points of the grid, each as it was        *)
(* measured, and never more than it has; no two datasets are more than a   *)
(* row apart, and no dataset is left running or taken for whole.           *)
EXTENDS Dond, SequenceTheorems, FiniteSetTheorems, TLAPS

Body == {"point", "set", "record", "asked"}
Over == {"leave", "returned", "raised"}

(* Where the instruments stand at point i, and the rows that say so.       *)
At(i)   == [p \in Swept |-> Actual(p, Setpoint(i)[p])]
Row(i)  == [setpoints |-> At(i), values |-> At(i)]
Grid(n) == [i \in 1..n |-> Row(i - 1)]

(* The first m datasets have the row of point i.                           *)
Filled(m, i) == [g \in Groups |-> Grid(IF g <= m THEN i + 1 ELSE i)]

RowsInv ==
  \E m \in 0..scan.groups :
    /\ rows = Filled(m, k)
    /\ pc \in {"enter", "point", "set"} => m = 0
    /\ pc = "enter" => k = 0
    /\ pc = "asked" => m = scan.groups
    /\ pc \in Over /\ exc = "break" => m = scan.groups
    /\ pc \in Over /\ exc = "none" => m = 0 /\ ~(k < Points)

(* The contexts that are open: the first d, which are left last first.     *)
Nested ==
  \E d \in 0..scan.groups :
    /\ stack = [i \in 1..d |-> i]
    /\ pc = "enter" => d < scan.groups
    /\ pc \in Body => d = scan.groups
    /\ pc \in {"returned", "raised"} => d = 0
    /\ \A g \in Groups :
         /\ g <= d => status[g] = "running"
         /\ g > d /\ pc = "enter" => status[g] = "absent"
         /\ g > d /\ pc \in Over /\ exc \in {"none", "break"} =>
              status[g] = "completed"
         /\ g > d /\ status[g] = "running" => g \in broken

Outcome ==
  /\ exc \in {"none", "break"} \cup Raised
  /\ pc \notin Over => exc = "none"
  /\ pc = "returned" => exc \in {"none", "break"}

-----------------------------------------------------------------------------
(* Where the instruments stand.                                            *)

EventSet(i) ==
  [param : Swept, set : BOOLEAN,
   value : {Setpoint(i)[p] : p \in Swept} \cup
           {Sweeps[j].values[1] : j \in DOMAIN Sweeps}]

EventsOf(p, t) == {j \in DOMAIN t : t[j].param = p}

(* An event that sets p, if at all, to where point i has it.               *)
Harmless(i, e) == e.set => e.value = Setpoint(i)[e.param]

(* The events t lead p, which is at f[p], to point i: it is there and      *)
(* stays, or one of them sets it and no later one does otherwise.          *)
Leads(p, i, t, f) ==
  \/ /\ f[p] = At(i)[p]
     /\ \A j \in EventsOf(p, t) : Harmless(i, t[j])
  \/ \E j \in EventsOf(p, t) :
       /\ t[j].set /\ t[j].value = Setpoint(i)[p]
       /\ \A h \in EventsOf(p, t) : h > j => Harmless(i, t[h])

(* What will be recorded of p: r[p], read back where get_after_set says so.*)
Records(p, i, t, f, r) ==
  IF p \in scan.get THEN EventsOf(p, t) # {} \/ r[p] = f[p]
                    ELSE r[p] = Setpoint(i)[p]

Underway(i, t, f, r) ==
  /\ t \in Seq(EventSet(i))
  /\ r = [p \in Swept |-> r[p]]
  /\ \A p \in Swept : Leads(p, i, t, f) /\ Records(p, i, t, f, r)

Reached(i, f) == \A p \in Swept : f[p] = At(i)[p]

(* At a point every parameter is where the point has it, or on its way.    *)
PointInv ==
  /\ pc = "point" /\ k > 0 => Reached(k - 1, knob)
  /\ pc = "set" => k < Points /\ Underway(k, todo, knob, results)
  /\ pc = "record" => results = At(k) /\ measured = At(k)
  /\ pc \in {"record", "asked"} => Reached(k, knob)

Formed ==
  /\ scan \in Scans /\ k \in Nat
  /\ knob = [p \in Params |-> knob[p]]
  /\ status \in [Groups -> {"absent", "running", "completed"}]
  /\ pc \in {"enter"} \cup Body \cup Over

IInv == Formed /\ RowsInv /\ Nested /\ Outcome /\ PartialIsMarked /\ PointInv

-----------------------------------------------------------------------------
(* Folds: the points of one dimension and of two.                          *)

(* One unfolding of PointsOf.                                              *)
Times(D, f) ==
  [s \in SUBSET D |->
     IF s = {} THEN 1
     ELSE LET x == CHOOSE x \in s : TRUE
          IN  [d \in Dims |-> NumPoints(d)][x] * f[s \ {x}]]

LEMMA Folded ==
  ASSUME NEW D, NEW f, f = Times(D, f)
  PROVE  \E g : g = Times(D, g) /\ PointsOf(D) = g[D]
<1> DEFINE g == CHOOSE h : h = Times(D, h)
<1>1. g = Times(D, g)
  OBVIOUS
<1>2. PointsOf(D) = g[D]
  BY DEF PointsOf, FoldFunctionOnSet, MapThenFoldSet, Times
<1> QED BY <1>1, <1>2

LEMMA NoDimension == PointsOf({}) = 1
BY DEF PointsOf, FoldFunctionOnSet, MapThenFoldSet

LEMMA OneDimension ==
  ASSUME NEW a \in Dims, NumPoints(a) \in Nat
  PROVE  PointsOf({a}) = NumPoints(a)
<1> DEFINE c(s) == CHOOSE x \in s : TRUE
           f == [s \in SUBSET {a} |-> IF s = {} THEN 1 ELSE NumPoints(a)]
<1>1. f = Times({a}, f)
  <2>1. \A s \in SUBSET {a} :
          s # {} => s = {a} /\ (CHOOSE x \in s : TRUE) = a /\ s \ {a} = {}
    OBVIOUS
  <2> QED BY <2>1 DEF Times
<1>2. PICK g : g = Times({a}, g) /\ PointsOf({a}) = g[{a}]
  BY <1>1, Folded
<1>3. g[{}] = 1
  BY <1>2 DEF Times
<1>4. g[{a}] = NumPoints(a) * g[{}]
  <2>1. \A s \in SUBSET {a} : s # {} =>
          g[s] = [d \in Dims |-> NumPoints(d)][c(s)] * g[s \ {c(s)}]
    BY <1>2 DEF Times
  <2>2. c({a}) = a /\ {a} \ {a} = {} /\ {a} # {}
    OBVIOUS
  <2> HIDE DEF c
  <2>3. g[{a}] = [d \in Dims |-> NumPoints(d)][a] * g[{}]
    BY <2>1, <2>2
  <2> QED BY <2>3
<1> QED BY <1>2, <1>3, <1>4

LEMMA TwoDimensions ==
  ASSUME NEW a, NEW b, a # b, Dims = {a, b},
         NumPoints(a) \in Nat, NumPoints(b) \in Nat
  PROVE  PointsOf({a, b}) = NumPoints(a) * NumPoints(b)
<1> DEFINE c(s) == CHOOSE x \in s : TRUE
           f == [s \in SUBSET {a, b} |->
                   IF s = {} THEN 1
                   ELSE IF s = {a} THEN NumPoints(a)
                   ELSE IF s = {b} THEN NumPoints(b)
                   ELSE NumPoints(a) * NumPoints(b)]
<1>1. NumPoints(a) * NumPoints(b) = NumPoints(b) * NumPoints(a)
  OBVIOUS
<1>2. /\ SUBSET {a, b} = {{}, {a}, {b}, {a, b}}
      /\ c({a}) = a /\ c({b}) = b /\ c({a, b}) \in {a, b}
  OBVIOUS
<1>3. /\ {a} \ {a} = {} /\ {b} \ {b} = {}
      /\ {a, b} \ {a} = {b} /\ {a, b} \ {b} = {a}
      /\ {a} # {} /\ {b} # {} /\ {a, b} # {}
      /\ {a} # {b} /\ {a, b} # {a} /\ {a, b} # {b}
  OBVIOUS
<1>4. /\ f[{}] = 1 /\ f[{a}] = NumPoints(a) /\ f[{b}] = NumPoints(b)
      /\ f[{a, b}] = NumPoints(a) * NumPoints(b)
  BY <1>2, <1>3
<1>5. f = Times({a, b}, f)
  <2> DEFINE t(s) == IF s = {} THEN 1
                     ELSE [d \in Dims |-> NumPoints(d)][c(s)] * f[s \ {c(s)}]
  <2>1. t({}) = f[{}]
    BY <1>4
  <2>2. t({a}) = f[{a}] /\ t({b}) = f[{b}]
    BY <1>2, <1>3, <1>4
  <2>3. t({a, b}) = f[{a, b}]
    <3> HIDE DEF c, f
    <3>1. CASE c({a, b}) = a
      BY <1>2, <1>3, <1>4, <3>1
    <3>2. CASE c({a, b}) = b
      BY <1>1, <1>2, <1>3, <1>4, <3>2
    <3> QED BY <1>2, <3>1, <3>2
  <2>4. \A s \in SUBSET {a, b} : f[s] = t(s)
    <3> HIDE DEF f, t
    <3> QED BY <1>2, <2>1, <2>2, <2>3
  <2>5. Times({a, b}, f) = [s \in SUBSET {a, b} |-> t(s)]
    BY DEF Times
  <2> QED BY <2>4, <2>5
<1>6. PICK g : g = Times({a, b}, g) /\ PointsOf({a, b}) = g[{a, b}]
  BY <1>5, Folded
<1>7. /\ g[{}] = 1
      /\ \A s \in SUBSET {a, b} : s # {} =>
           g[s] = [d \in Dims |-> NumPoints(d)][c(s)] * g[s \ {c(s)}]
  BY <1>6 DEF Times
<1> HIDE DEF c
<1>8. g[{a}] = NumPoints(a) /\ g[{b}] = NumPoints(b)
  <2>1. g[{a}] = [d \in Dims |-> NumPoints(d)][a] * g[{}]
    BY <1>2, <1>3, <1>7
  <2>2. g[{b}] = [d \in Dims |-> NumPoints(d)][b] * g[{}]
    BY <1>2, <1>3, <1>7
  <2> QED BY <1>7, <2>1, <2>2
<1>9. g[{a, b}] = NumPoints(c({a, b})) * g[{a, b} \ {c({a, b})}]
  BY <1>2, <1>3, <1>7
<1>10. CASE c({a, b}) = a
  BY <1>3, <1>6, <1>8, <1>9, <1>10
<1>11. CASE c({a, b}) = b
  BY <1>1, <1>3, <1>6, <1>8, <1>9, <1>11
<1> QED BY <1>2, <1>10, <1>11

-----------------------------------------------------------------------------
(* The odometer of a grid: a digit that is not 0 leaves the one before it. *)

LEMMA DivMod ==
  ASSUME NEW i \in Nat, NEW n \in Nat, n > 0
  PROVE  \E q \in Nat, r \in 0..(n - 1) :
            q = i \div n /\ r = i % n /\ n * q + r - i = 0
<1>1. PICK q \in Int : q = i \div n
  OBVIOUS
<1>2. PICK r \in 0..(n - 1) : r = i % n
  OBVIOUS
<1>3. r = i - q * n
  BY <1>1, <1>2
<1>4. q * n = n * q /\ n * q \in Int
  OBVIOUS
<1>5. n * q + r - i = 0
  BY <1>3, <1>4
<1>6. ~(q < 0)
  <2>1. SUFFICES ASSUME q <= -1 PROVE FALSE
    OBVIOUS
  <2>2. n * q <= -n
    BY <2>1
  <2> QED BY <1>4, <1>5, <2>2
<1> QED BY <1>1, <1>2, <1>5, <1>6

LEMMA Apart ==
  ASSUME NEW n \in Nat, NEW a \in Nat, NEW b \in Nat, a < b
  PROVE  n * a + n <= n * b
<1>1. PICK c \in Nat : b = a + 1 + c
  <2>1. b - a - 1 \in Nat /\ b = a + 1 + (b - a - 1)
    OBVIOUS
  <2> QED BY <2>1
<1>2. n * b = n * a + n + n * c
  BY <1>1
<1>3. n * c \in Nat /\ n * a \in Nat
  OBVIOUS
<1> QED BY <1>2, <1>3

LEMMA Odometer ==
  ASSUME NEW i \in Nat, NEW n \in Nat, n > 0, i % n # 0
  PROVE  i > 0 /\ (i - 1) \div n = i \div n
<1>1. PICK q \in Nat, r \in 0..(n - 1) :
        q = i \div n /\ r = i % n /\ n * q + r - i = 0
  BY DivMod
<1>2. r # 0
  BY <1>1
<1>3. n * q \in Nat
  OBVIOUS
<1>4. i > 0
  BY <1>1, <1>2, <1>3
<1>5. PICK q1 \in Nat, r1 \in 0..(n - 1) :
        /\ q1 = (i - 1) \div n /\ r1 = (i - 1) % n
        /\ n * q1 + r1 - (i - 1) = 0
  <2>1. i - 1 \in Nat
    BY <1>4
  <2> QED BY <2>1, DivMod
<1>6. ~(q1 < q)
  BY <1>1, <1>2, <1>5, Apart
<1>7. ~(q < q1)
  BY <1>1, <1>5, Apart
<1> QED BY <1>1, <1>4, <1>5, <1>6, <1>7

-----------------------------------------------------------------------------
(* The grid does not change while it is gone through.                      *)

LEMMA SamePoints ==
  ASSUME scan' = scan
  PROVE  /\ Points' = Points /\ Swept' = Swept /\ Sweeps' = Sweeps
         /\ Groups' = Groups
         /\ \A i : Setpoint(i)' = Setpoint(i)
<1>1. Sweeps' = Sweeps /\ Dims' = Dims /\ Swept' = Swept /\ Groups' = Groups
  BY DEF Sweeps, Dims, Swept, Groups
<1>2. \A d : NumPoints(d)' = NumPoints(d)
  BY DEF NumPoints, Sweeps
<1>3. ASSUME NEW D
      PROVE  PointsOf(D)' = PointsOf(D)
  BY <1>1, <1>2 DEF PointsOf, FoldFunctionOnSet, MapThenFoldSet, NumPoints,
                    Dims, Sweeps
<1>4. Points' = Points
  BY <1>1, <1>2 DEF Points, PointsOf, FoldFunctionOnSet, MapThenFoldSet,
                    NumPoints, Dims, Sweeps
<1>5. ASSUME NEW p
      PROVE  Sweep(p)' = Sweep(p)
  BY DEF Sweep, Sweeps
<1>6. ASSUME NEW i, NEW d
      PROVE  Index(i, d)' = Index(i, d)
  <2>1. {e \in Dims : e > d}' = {e \in Dims : e > d}
    BY <1>1
  <2>2. PointsOf({e \in Dims : e > d})' = PointsOf({e \in Dims : e > d})
    BY <1>1, <1>2 DEF PointsOf, FoldFunctionOnSet, MapThenFoldSet, NumPoints,
                      Dims, Sweeps
  <2> QED BY <1>2, <2>2 DEF Index
<1>7. ASSUME NEW i
      PROVE  Setpoint(i)' = Setpoint(i)
  BY <1>1, <1>5, <1>6 DEF Setpoint
<1> QED BY <1>1, <1>4, <1>7

LEMMA SameGrid ==
  ASSUME scan' = scan
  PROVE  /\ \A i : At(i)' = At(i) /\ EventSet(i)' = EventSet(i)
         /\ \A n : Grid(n)' = Grid(n)
         /\ \A m, i : Filled(m, i)' = Filled(m, i)
<1>1. /\ Swept' = Swept /\ Sweeps' = Sweeps /\ Groups' = Groups
      /\ \A i : Setpoint(i)' = Setpoint(i)
  BY SamePoints
<1>2. ASSUME NEW i
      PROVE  At(i)' = At(i) /\ EventSet(i)' = EventSet(i)
  BY <1>1 DEF At, EventSet
<1>3. ASSUME NEW n
      PROVE  Grid(n)' = Grid(n)
  BY <1>2 DEF Grid, Row
<1>4. ASSUME NEW m, NEW i
      PROVE  Filled(m, i)' = Filled(m, i)
  BY <1>1, <1>3 DEF Filled
<1> QED BY <1>2, <1>3, <1>4

LEMMA SameWay ==
  ASSUME scan' = scan, NEW i, NEW t, NEW f, NEW r
  PROVE  /\ Reached(i, f)' <=> Reached(i, f)
         /\ Underway(i, t, f, r)' <=> Underway(i, t, f, r)
<1>1. /\ Swept' = Swept /\ Setpoint(i)' = Setpoint(i) /\ At(i)' = At(i)
      /\ EventSet(i)' = EventSet(i)
  BY SamePoints, SameGrid
<1>2. Reached(i, f)' <=> Reached(i, f)
  BY <1>1 DEF Reached
<1>3. ASSUME NEW p
      PROVE  (Leads(p, i, t, f) /\ Records(p, i, t, f, r))'
               <=> Leads(p, i, t, f) /\ Records(p, i, t, f, r)
  BY <1>1 DEF Leads, Records, Harmless, EventsOf
<1>4. Underway(i, t, f, r)' <=> Underway(i, t, f, r)
  BY <1>1, <1>3 DEF Underway
<1> QED BY <1>2, <1>4

-----------------------------------------------------------------------------
(* The rows of a dataset.                                                  *)

LEMMA Appended ==
  ASSUME NEW S, NEW s \in Seq(S), NEW e \in S
  PROVE  Append(s, e) = [i \in 1..(Len(s) + 1) |->
                           IF i <= Len(s) THEN s[i] ELSE e]
<1> DEFINE a == Append(s, e)
<1>1. a \in Seq(S) /\ Len(a) = Len(s) + 1
  OBVIOUS
<1>2. \A i \in 1..(Len(s) + 1) : a[i] = IF i <= Len(s) THEN s[i] ELSE e
  OBVIOUS
<1> HIDE DEF a
<1>3. a = [i \in 1..(Len(s) + 1) |-> a[i]]
  BY <1>1
<1> QED BY <1>2, <1>3 DEF a

LEMMA GridGrows ==
  ASSUME NEW n \in Nat
  PROVE  /\ Len(Grid(n)) = n /\ DOMAIN Grid(n) = 1..n
         /\ Append(Grid(n), Row(n)) = Grid(n + 1)
<1>1. Grid(n) \in Seq({Row(i) : i \in Int}) /\ Len(Grid(n)) = n
  BY DEF Grid
<1>2. Append(Grid(n), Row(n)) = [i \in 1..(n + 1) |->
                                   IF i <= n THEN Grid(n)[i] ELSE Row(n)]
  <2>1. Row(n) \in {Row(i) : i \in Int}
    OBVIOUS
  <2> QED BY <1>1, <2>1, Appended
<1>3. \A i \in 1..n : Grid(n)[i] = Row(i - 1)
  BY DEF Grid
<1>4. ASSUME NEW i \in 1..(n + 1), ~(i <= n)
      PROVE  Row(n) = Row(i - 1)
  <2>1. i - 1 = n
    BY <1>4
  <2> QED BY <2>1
<1>5. Append(Grid(n), Row(n)) = Grid(n + 1)
  BY <1>2, <1>3, <1>4 DEF Grid
<1> QED BY <1>1, <1>5 DEF Grid

LEMMA Rows ==
  ASSUME scan.groups \in Nat, NEW i \in Nat, NEW m \in 0..scan.groups,
         rows = Filled(m, i), NEW g \in Groups
  PROVE  /\ rows[g] = Grid(IF g <= m THEN i + 1 ELSE i)
         /\ Len(rows[g]) = IF g <= m THEN i + 1 ELSE i
         /\ DOMAIN rows[g] = 1..Len(rows[g])
<1>1. g \in Nat /\ rows[g] = Grid(IF g <= m THEN i + 1 ELSE i)
  BY DEF Filled, Groups
<1>2. CASE g <= m
  BY <1>1, <1>2, GridGrows
<1>3. CASE ~(g <= m)
  BY <1>1, <1>3, GridGrows
<1> QED BY <1>2, <1>3

-----------------------------------------------------------------------------
(* The events of a point lead there.                                       *)

LEMMA CallOfScan ==
  ASSUME scan \in Scans
  PROVE  /\ Sweeps \in Seq([param : Params, dim : Nat, values : Seq(Int)])
         /\ DOMAIN Sweeps = 1..Len(Sweeps) /\ Len(Sweeps) \in Nat
         /\ \A j \in DOMAIN Sweeps :
              /\ Sweeps[j] \in [param : Params, dim : Nat, values : Seq(Int)]
              /\ Sweeps[j].param \in Swept /\ Sweeps[j].dim \in Dims
         /\ Swept \subseteq Params
         /\ scan.groups \in Nat /\ scan.groups > 0
         /\ \A p \in Swept : p \notin scan.get => p \notin Coarse
<1>1. Sweeps \in Seq([param : Params, dim : Nat, values : Seq(Int)])
  BY ScansAssumption DEF Sweeps
<1>2. DOMAIN Sweeps = 1..Len(Sweeps) /\ Len(Sweeps) \in Nat
  BY <1>1, LenProperties
<1>3. ASSUME NEW j \in DOMAIN Sweeps
      PROVE  Sweeps[j] \in [param : Params, dim : Nat, values : Seq(Int)]
  BY <1>1, <1>2, ElementOfSeq
<1>4. Swept \subseteq Params
  BY <1>3 DEF Swept
<1>5. \A p \in Swept : p \notin scan.get => p \notin Coarse
  BY ScansAssumption DEF Swept, Sweeps
<1>6. scan.groups \in Nat /\ scan.groups > 0
  BY ScansAssumption
<1>7. \A j \in DOMAIN Sweeps : Sweeps[j].param \in Swept /\ Sweeps[j].dim \in Dims
  BY DEF Swept, Dims
<1> QED BY <1>1, <1>2, <1>3, <1>4, <1>5, <1>6, <1>7

LEMMA InDond ==
  ASSUME scan \in Scans, scan.entry = "dond", NEW i \in Nat, NEW f,
         i > 0 => Reached(i - 1, f)
  PROVE  Underway(i, Events(i), f, Setpoint(i))
<1> DEFINE t == DondEvents(i)
<1>1. Events(i) = t
  BY DEF Events
<1>2. /\ DOMAIN t = DOMAIN Sweeps
      /\ \A j \in DOMAIN t :
           /\ t[j].param = Sweeps[j].param /\ t[j].param \in Swept
           /\ t[j].value = Setpoint(i)[t[j].param]
           /\ t[j].set = ShouldSet(i, t[j].param)
           /\ t[j] = [param |-> t[j].param, value |-> t[j].value,
                      set |-> t[j].set]
  BY CallOfScan DEF DondEvents, Event
<1>3. \A p : ShouldSet(i, p) \in BOOLEAN
  BY DEF ShouldSet
<1>4. t \in Seq(EventSet(i))
  <2>1. ASSUME NEW j \in 1..Len(Sweeps)
        PROVE  t[j] \in EventSet(i)
    <3> HIDE DEF t
    <3>1. /\ t[j].param \in Swept /\ t[j].set \in BOOLEAN
          /\ t[j].value \in {Setpoint(i)[p] : p \in Swept}
      BY <1>2, <1>3, CallOfScan
    <3>2. t[j] = [param |-> t[j].param, value |-> t[j].value, set |-> t[j].set]
      BY <1>2, CallOfScan
    <3> QED BY <3>1, <3>2 DEF EventSet
  <2>2. t = [j \in 1..Len(Sweeps) |-> t[j]]
    BY CallOfScan DEF DondEvents
  <2> HIDE DEF t
  <2> QED BY <2>1, <2>2, CallOfScan
<1>5. Setpoint(i) = [p \in Swept |-> Setpoint(i)[p]]
  BY DEF Setpoint
<1> HIDE DEF t
<1>6. ASSUME NEW p \in Swept
      PROVE  Leads(p, i, t, f) /\ Records(p, i, t, f, Setpoint(i))
  <2>1. EventsOf(p, t) # {}
    BY <1>2 DEF EventsOf, Swept
  <2>2. \A j \in EventsOf(p, t) : Harmless(i, t[j]) /\ t[j].param = p
    BY <1>2 DEF EventsOf, Harmless
  <2>3. CASE ShouldSet(i, p)
    BY <1>2, <2>1, <2>2, <2>3 DEF Leads, Records, EventsOf
  <2>4. CASE ~ShouldSet(i, p)
    <3>1. f[p] = At(i)[p]
      BY <2>4 DEF ShouldSet, Reached, At
    <3> QED BY <2>1, <2>2, <3>1 DEF Leads, Records
  <2> QED BY <2>3, <2>4
<1> QED BY <1>1, <1>4, <1>5, <1>6 DEF Underway

LEMMA InDo1d ==
  ASSUME scan \in Scans, scan.entry \in {"do0d", "do1d"}, NEW i \in Nat, NEW f
  PROVE  Underway(i, Events(i), f, Setpoint(i))
<1>1. Setpoint(i) = [p \in Swept |-> Setpoint(i)[p]]
  BY DEF Setpoint
<1>2. CASE scan.entry = "do0d"
  <2>1. Len(Sweeps) = 0
    BY <1>2, ScansAssumption DEF Sweeps
  <2>3. DOMAIN Sweeps = {}
    BY <2>1, CallOfScan
  <2>4. Swept = {}
    BY <2>3 DEF Swept
  <2>2. Events(i) = <<>>
    BY <1>2 DEF Events
  <2> QED BY <1>1, <2>2, <2>4 DEF Underway
<1>3. CASE scan.entry = "do1d"
  <2> DEFINE p == Sweeps[1].param
             e == Event(p, Setpoint(i)[p], TRUE)
  <2>1. Len(Sweeps) = 1 /\ scan.get = {}
    BY <1>3, ScansAssumption DEF Sweeps
  <2>2. p \in Swept /\ Swept = {p}
    BY <2>1, CallOfScan DEF Swept
  <2>3. Events(i) = <<e>>
    BY <1>3 DEF Events
  <2>4. e \in EventSet(i)
    BY <2>2 DEF EventSet, Event
  <2>5. e.param = p /\ e.set /\ e.value = Setpoint(i)[p]
    BY DEF Event
  <2> HIDE DEF e, p
  <2>6. <<e>> \in Seq(EventSet(i)) /\ DOMAIN <<e>> = {1} /\ <<e>>[1] = e
    BY <2>4
  <2>7. EventsOf(p, <<e>>) = {1}
    BY <2>5, <2>6 DEF EventsOf
  <2>8. Leads(p, i, <<e>>, f) /\ Records(p, i, <<e>>, f, Setpoint(i))
    BY <2>1, <2>5, <2>6, <2>7 DEF Leads, Records
  <2> QED BY <1>1, <2>2, <2>3, <2>6, <2>8 DEF Underway
<1> QED BY <1>2, <1>3

(* The two dimensions of do2d: the inner one goes around first.            *)
LEMMA TwoSweeps ==
  ASSUME scan \in Scans, scan.entry = "do2d"
  PROVE  /\ Len(Sweeps) = 2 /\ DOMAIN Sweeps = {1, 2} /\ scan.get = {}
         /\ Sweeps[1].param # Sweeps[2].param
         /\ Swept = {Sweeps[1].param, Sweeps[2].param}
         /\ Sweep(Sweeps[1].param) = Sweeps[1] /\ Sweeps[1].dim = 1
         /\ Sweep(Sweeps[2].param) = Sweeps[2] /\ Sweeps[2].dim = 2
         /\ Dims = {1, 2}
         /\ Sweeps[1].values \in Seq(Int) /\ Sweeps[2].values \in Seq(Int)
         /\ NumPoints(1) = Len(Sweeps[1].values) /\ NumPoints(1) \in Nat
         /\ NumPoints(2) = Len(Sweeps[2].values) /\ NumPoints(2) \in Nat
<1>1. /\ Len(Sweeps) = 2 /\ scan.get = {}
      /\ Sweeps[1].dim = 1 /\ Sweeps[2].dim = 2
      /\ Sweeps[1].param # Sweeps[2].param
  BY ScansAssumption DEF Sweeps
<1>2. DOMAIN Sweeps = {1, 2}
  BY <1>1, CallOfScan
<1>3. Swept = {Sweeps[1].param, Sweeps[2].param} /\ Dims = {1, 2}
  BY <1>1, <1>2 DEF Swept, Dims
<1>4. /\ Sweep(Sweeps[1].param) = Sweeps[1]
      /\ Sweep(Sweeps[2].param) = Sweeps[2]
  BY <1>1, <1>2 DEF Sweep
<1>5. /\ Sweeps[1].values \in Seq(Int) /\ Sweeps[2].values \in Seq(Int)
  BY <1>2, CallOfScan
<1>6. /\ NumPoints(1) = Len(Sweeps[1].values)
      /\ NumPoints(2) = Len(Sweeps[2].values)
  BY <1>1, <1>2 DEF NumPoints
<1>7. Len(Sweeps[1].values) \in Nat /\ Len(Sweeps[2].values) \in Nat
  BY <1>5, LenProperties
<1> QED BY <1>1, <1>2, <1>3, <1>4, <1>5, <1>6, <1>7

LEMMA InnerAndOuter ==
  ASSUME scan \in Scans, scan.entry = "do2d", NEW i \in Nat
  PROVE  /\ Points = NumPoints(1) * NumPoints(2)
         /\ Setpoint(i)[Sweeps[1].param] =
              Sweeps[1].values[1 + ((i \div NumPoints(2)) % NumPoints(1))]
         /\ Setpoint(i)[Sweeps[2].param] =
              Sweeps[2].values[1 + (i % NumPoints(2))]
<1>1. Points = NumPoints(1) * NumPoints(2)
  BY TwoSweeps, TwoDimensions DEF Points
<1>2. {e \in Dims : e > 1} = {2} /\ {e \in Dims : e > 2} = {}
  BY TwoSweeps
<1>3. PointsOf({2}) = NumPoints(2) /\ PointsOf({}) = 1
  <2>1. 2 \in Dims /\ NumPoints(2) \in Nat
    BY TwoSweeps
  <2> QED BY <2>1, OneDimension, NoDimension
<1>4. i \div 1 = i
  OBVIOUS
<1>5. /\ Index(i, 1) = (i \div NumPoints(2)) % NumPoints(1)
      /\ Index(i, 2) = i % NumPoints(2)
  BY <1>2, <1>3, <1>4 DEF Index
<1>6. \A p \in Swept :
        Setpoint(i)[p] = Sweep(p).values[1 + Index(i, Sweep(p).dim)]
  BY DEF Setpoint
<1>7. /\ Setpoint(i)[Sweeps[1].param] = Sweeps[1].values[1 + Index(i, 1)]
      /\ Setpoint(i)[Sweeps[2].param] = Sweeps[2].values[1 + Index(i, 2)]
  BY <1>6, TwoSweeps
<1>8. /\ Sweeps[1].values[1 + Index(i, 1)] =
           Sweeps[1].values[1 + ((i \div NumPoints(2)) % NumPoints(1))]
      /\ Sweeps[2].values[1 + Index(i, 2)] =
           Sweeps[2].values[1 + (i % NumPoints(2))]
  BY <1>5, Zenon
<1> QED BY <1>1, <1>7, <1>8, Zenon

(* A linear sweep that comes back to its start has not moved.              *)
LEMMA Linear ==
  ASSUME NEW v \in Seq(Int), NEW r \in Nat, r > 0, r < Len(v),
         \A j \in 2..Len(v) : v[j] = v[1] + (j - 1) * (v[2] - v[1]),
         v[1 + r] = v[1], NEW j \in 1..Len(v)
  PROVE  v[j] = v[1]
<1>1. Len(v) \in Nat /\ v[1] \in Int /\ v[2] \in Int
  <2>1. Len(v) \in Nat
    BY LenProperties
  <2>2. 1 \in 1..Len(v) /\ 2 \in 1..Len(v)
    BY <2>1
  <2> QED BY <2>1, <2>2, ElementOfSeq
<1>2. v[1] = v[1] + r * (v[2] - v[1])
  <2>1. 1 + r \in 2..Len(v) /\ (1 + r) - 1 = r
    BY <1>1
  <2> QED BY <2>1
<1>3. PICK d \in Int : d = v[2] - v[1]
  BY <1>1
<1>4. r * d = 0
  <2>1. r * d \in Int
    OBVIOUS
  <2>2. v[1] = v[1] + r * d
    BY <1>2, <1>3, Zenon
  <2> QED BY <1>1, <2>1, <2>2
<1>5. d = 0
  <2>1. d > 0 => r * d > 0
    OBVIOUS
  <2>2. d < 0 => r * d < 0
    OBVIOUS
  <2> QED BY <1>4, <2>1, <2>2
<1>6. CASE j = 1
  BY <1>6
<1>7. CASE j # 1
  <2>1. j \in 2..Len(v)
    BY <1>1, <1>7
  <2>2. v[j] = v[1] + (j - 1) * d
    BY <1>3, <2>1
  <2> QED BY <1>1, <1>5, <2>1, <2>2
<1> QED BY <1>6, <1>7

(* Within a line of do2d the outer parameter stays, and the inner one is   *)
(* at its start only if it never leaves it.                                *)
LEMMA WithinLine ==
  ASSUME scan \in Scans, scan.entry = "do2d", NEW i \in Nat, i < Points,
         i % NumPoints(2) # 0
  PROVE  /\ i > 0 /\ i - 1 \in Nat
         /\ Setpoint(i - 1)[Sweeps[1].param] = Setpoint(i)[Sweeps[1].param]
         /\ Setpoint(i)[Sweeps[2].param] = Sweeps[2].values[1] =>
              Setpoint(i - 1)[Sweeps[2].param] = Sweeps[2].values[1]
<1> DEFINE v == Sweeps[2].values
           n == NumPoints(2)
<1>1. n \in Nat /\ NumPoints(1) \in Nat /\ n = Len(v) /\ v \in Seq(Int)
  BY TwoSweeps
<1>2. n > 0
  <2>1. Points = NumPoints(1) * n
    BY InnerAndOuter
  <2>2. n = 0 => Points = 0
    BY <1>1, <2>1
  <2> QED BY <1>1, <2>2
<1>3. i > 0 /\ (i - 1) \div n = i \div n
  BY <1>1, <1>2, Odometer
<1>4. i - 1 \in Nat
  BY <1>3
<1>5. Setpoint(i - 1)[Sweeps[1].param] = Setpoint(i)[Sweeps[1].param]
  BY <1>3, <1>4, InnerAndOuter
<1>6. PICK r \in 0..(n - 1) : r = i % n
  BY <1>1, <1>2
<1>7. PICK r1 \in 0..(n - 1) : r1 = (i - 1) % n
  BY <1>1, <1>2, <1>4
<1>8. /\ Setpoint(i)[Sweeps[2].param] = v[1 + r]
      /\ Setpoint(i - 1)[Sweeps[2].param] = v[1 + r1]
  <2>1. /\ Setpoint(i)[Sweeps[2].param] = v[1 + (i % n)]
        /\ Setpoint(i - 1)[Sweeps[2].param] = v[1 + ((i - 1) % n)]
    BY <1>4, InnerAndOuter, Zenon
  <2> HIDE DEF v, n
  <2> QED BY <1>6, <1>7, <2>1, Zenon
<1>9. \A j \in 2..Len(v) : v[j] = v[1] + (j - 1) * (v[2] - v[1])
  BY ScansAssumption, TwoSweeps DEF Sweeps
<1>10. ASSUME v[1 + r] = v[1]
       PROVE  v[1 + r1] = v[1]
  <2>1. r \in Nat /\ r > 0 /\ r < Len(v) /\ 1 + r1 \in 1..Len(v)
    BY <1>1, <1>2, <1>6, <1>7
  <2> QED BY <1>1, <1>9, <1>10, <2>1, Linear
<1> QED BY <1>3, <1>4, <1>5, <1>8, <1>10

(* The events of do2d: the pair of the two parameters, with the start of   *)
(* the inner one set before where a line begins.                           *)
LEMMA Line ==
  ASSUME NEW i, NEW f, NEW a, NEW b, NEW eo, NEW es, NEW ei, NEW t,
         {eo, es, ei} \subseteq EventSet(i),
         Swept = {a, b}, a # b, scan.get = {},
         At(i)[a] = Setpoint(i)[a], At(i)[b] = Setpoint(i)[b],
         eo.param = a, eo.set, eo.value = Setpoint(i)[a],
         es.param = b, es.set,
         ei.param = b, ei.value = Setpoint(i)[b],
         \/ /\ t = <<ei>>
            /\ f[a] = Setpoint(i)[a]
            /\ ei.set \/ f[b] = Setpoint(i)[b]
         \/ /\ t = <<es, eo, ei>>
            /\ ei.set \/ es.value = Setpoint(i)[b]
         \/ /\ t = <<eo, ei>>
            /\ ei.set
  PROVE  Underway(i, t, f, Setpoint(i))
<1>1. Setpoint(i) = [p \in Swept |-> Setpoint(i)[p]]
  BY DEF Setpoint
<1>2. Harmless(i, eo) /\ Harmless(i, ei)
  BY DEF Harmless
<1>3. SUFFICES /\ t \in Seq(EventSet(i))
               /\ Leads(a, i, t, f) /\ Leads(b, i, t, f)
  BY <1>1 DEF Underway, Records
<1>4. CASE /\ t = <<ei>>
           /\ f[a] = Setpoint(i)[a]
           /\ ei.set \/ f[b] = Setpoint(i)[b]
  <2>1. t \in Seq(EventSet(i)) /\ DOMAIN t = {1} /\ t[1] = ei
    BY <1>4
  <2>2. EventsOf(a, t) = {} /\ EventsOf(b, t) = {1}
    BY <2>1 DEF EventsOf
  <2> QED BY <1>2, <1>4, <2>1, <2>2 DEF Leads
<1>5. CASE /\ t = <<es, eo, ei>>
           /\ ei.set \/ es.value = Setpoint(i)[b]
  <2>1. /\ t \in Seq(EventSet(i)) /\ DOMAIN t = 1..3
        /\ t[1] = es /\ t[2] = eo /\ t[3] = ei
    BY <1>5
  <2>2. EventsOf(a, t) = {2} /\ EventsOf(b, t) = {1, 3}
    <3>1. DOMAIN t = {1, 2, 3}
      BY <2>1
    <3> QED BY <2>1, <3>1 DEF EventsOf
  <2>3. Leads(a, i, t, f)
    BY <2>1, <2>2 DEF Leads
  <2>4. Leads(b, i, t, f)
    BY <1>2, <1>5, <2>1, <2>2 DEF Leads
  <2> QED BY <2>1, <2>3, <2>4
<1>6. CASE t = <<eo, ei>> /\ ei.set
  <2>1. /\ t \in Seq(EventSet(i)) /\ DOMAIN t = {1, 2}
        /\ t[1] = eo /\ t[2] = ei
    BY <1>6
  <2>2. EventsOf(a, t) = {1} /\ EventsOf(b, t) = {2}
    BY <2>1 DEF EventsOf
  <2> QED BY <1>6, <2>1, <2>2 DEF Leads
<1> QED BY <1>4, <1>5, <1>6

LEMMA Joined ==
  ASSUME NEW x, NEW y, NEW z
  PROVE  /\ <<>> \o <<z>> = <<z>>
         /\ (<<>> \o <<y>>) \o <<z>> = <<y, z>>
         /\ (<<x>> \o <<y>>) \o <<z>> = <<x, y, z>>
<1>1. /\ <<x>> \in Seq({x, y, z}) /\ <<y>> \in Seq({x, y, z})
      /\ <<z>> \in Seq({x, y, z})
  OBVIOUS
<1>2. <<>> \o <<z>> = <<z>> /\ <<>> \o <<y>> = <<y>>
  BY <1>1, ConcatEmptySeq
<1>3. /\ Len(<<x>>) = 1 /\ Len(<<y>>) = 1 /\ Len(<<z>>) = 1
      /\ Len(<<y, z>>) = 2 /\ Len(<<x, y, z>>) = 3
      /\ <<x>>[1] = x /\ <<y>>[1] = y /\ <<z>>[1] = z
      /\ <<y, z>>[1] = y /\ <<y, z>>[2] = z
      /\ <<x, y, z>>[1] = x /\ <<x, y, z>>[2] = y /\ <<x, y, z>>[3] = z
      /\ <<y, z>> \in Seq({x, y, z}) /\ <<x, y, z>> \in Seq({x, y, z})
  OBVIOUS
<1>4. /\ <<y>> \o <<z>> \in Seq({x, y, z}) /\ Len(<<y>> \o <<z>>) = 2
      /\ (<<y>> \o <<z>>)[1] = y /\ (<<y>> \o <<z>>)[2] = z
  BY <1>1, <1>3, ConcatProperties
<1>5. /\ <<x>> \o <<y>> \in Seq({x, y, z}) /\ Len(<<x>> \o <<y>>) = 2
      /\ (<<x>> \o <<y>>)[1] = x /\ (<<x>> \o <<y>>)[2] = y
  BY <1>1, <1>3, ConcatProperties
<1> DEFINE u == <<y>> \o <<z>>
           w == (<<x>> \o <<y>>) \o <<z>>
<1>6. w \in Seq({x, y, z}) /\ Len(w) = 3 /\ w[1] = x /\ w[2] = y /\ w[3] = z
  BY <1>1, <1>3, <1>5, ConcatProperties
<1>7. u \in Seq({x, y, z}) /\ Len(u) = 2 /\ u[1] = y /\ u[2] = z
  BY <1>4
<1> HIDE DEF u, w
<1>8. u = <<y, z>>
  <2>1. \A i \in 1..2 : i = 1 \/ i = 2
    OBVIOUS
  <2> QED BY <1>3, <1>7, <2>1, SeqEqual
<1>9. w = <<x, y, z>>
  <2>1. \A i \in 1..3 : i = 1 \/ i = 2 \/ i = 3
    OBVIOUS
  <2> QED BY <1>3, <1>6, <2>1, SeqEqual
<1> QED BY <1>2, <1>8, <1>9 DEF u, w

LEMMA InDo2d ==
  ASSUME scan \in Scans, scan.entry = "do2d", NEW i \in Nat, i < Points, NEW f,
         i > 0 => Reached(i - 1, f)
  PROVE  Underway(i, Events(i), f, Setpoint(i))
<1> DEFINE a == Sweeps[1].param
           b == Sweeps[2].param
           start == Sweeps[2].values[1]
           u == Setpoint(i)[a]
           v == Setpoint(i)[b]
           eo == Event(a, u, TRUE)
           es == Event(b, start, TRUE)
           ei == Event(b, v, ~(v = start /\ scan.before))
           t == Events(i)
           begins == i % NumPoints(2) = 0
<1>1. /\ a # b /\ Swept = {a, b} /\ scan.get = {} /\ DOMAIN Sweeps = {1, 2}
      /\ a \notin Coarse /\ b \notin Coarse
  BY TwoSweeps, CallOfScan
<1>2. /\ eo.param = a /\ eo.set /\ eo.value = u
      /\ es.param = b /\ es.set /\ es.value = start
      /\ ei.param = b /\ ei.value = v /\ (ei.set <=> ~(v = start /\ scan.before))
  BY DEF Event
<1>3. {eo, es, ei} \subseteq EventSet(i)
  BY <1>1 DEF EventSet, Event
<1>4. t = Do2dEvents(i)
  BY DEF Events
<1>5. At(i)[a] = u /\ At(i)[b] = v
  BY <1>1 DEF At, Actual
<1>6. CASE ~begins
  <2>1. t = <<>> \o <<ei>>
    BY <1>4, <1>6 DEF Do2dEvents
  <2>2. f[a] = At(i - 1)[a] /\ f[b] = At(i - 1)[b]
    BY <1>1, <1>6, WithinLine DEF Reached
  <2>3. At(i - 1)[a] = Setpoint(i - 1)[a] /\ At(i - 1)[b] = Setpoint(i - 1)[b]
    BY <1>1 DEF At, Actual
  <2>4. f[a] = u /\ (v = start => f[b] = v)
    BY <1>6, <2>2, <2>3, WithinLine
  <2> HIDE DEF a, b, u, v, eo, es, ei, t, start
  <2>5. t = <<ei>>
    BY <2>1, Joined
  <2>6. ei.set \/ f[b] = v
    BY <1>2, <2>4
  <2> QED BY <1>1, <1>2, <1>3, <1>5, <2>4, <2>5, <2>6, Line DEF u, v, t
<1>7. CASE begins /\ scan.before
  <2>1. t = (<<es>> \o <<eo>>) \o <<ei>>
    BY <1>4, <1>7 DEF Do2dEvents
  <2> HIDE DEF a, b, u, v, eo, es, ei, t, start
  <2>2. t = <<es, eo, ei>>
    BY <2>1, Joined
  <2>3. ei.set \/ es.value = v
    BY <1>2
  <2> QED BY <1>1, <1>2, <1>3, <1>5, <2>2, <2>3, Line DEF u, v, t
<1>8. CASE begins /\ ~scan.before
  <2>1. t = (<<>> \o <<eo>>) \o <<ei>>
    BY <1>4, <1>8 DEF Do2dEvents
  <2> HIDE DEF a, b, u, v, eo, es, ei, t, start
  <2>2. t = <<eo, ei>>
    BY <2>1, Joined
  <2>3. ei.set
    BY <1>2, <1>8
  <2> QED BY <1>1, <1>2, <1>3, <1>5, <2>2, <2>3, Line DEF u, v, t
<1> QED BY <1>6, <1>7, <1>8

(* Whatever the call, the events of a point lead there from the one before.*)
LEMMA Led ==
  ASSUME scan \in Scans, NEW i \in Nat, i < Points, NEW f,
         i > 0 => Reached(i - 1, f)
  PROVE  Underway(i, Events(i), f, Setpoint(i))
<1>1. scan.entry \in {"do0d", "do1d", "do2d", "dond"}
  BY ScansAssumption
<1> QED BY <1>1, InDo1d, InDo2d, InDond

(* One event more.                                                         *)
LEMMA Moved ==
  ASSUME scan \in Scans, NEW i, NEW t, NEW f, NEW r, t # <<>>,
         Underway(i, t, f, r), f = [p \in Params |-> f[p]],
         NEW f1, NEW r1,
         f1 = IF Head(t).set
                THEN [f EXCEPT ![Head(t).param] =
                        Actual(Head(t).param, Head(t).value)]
                ELSE f,
         r1 = IF Head(t).param \in scan.get
                THEN [r EXCEPT ![Head(t).param] = f1[Head(t).param]] ELSE r
  PROVE  Underway(i, Tail(t), f1, r1) /\ f1 = [p \in Params |-> f1[p]]
<1> DEFINE e == Head(t)
           t1 == Tail(t)
<1>1. /\ t \in Seq(EventSet(i)) /\ r = [p \in Swept |-> r[p]]
      /\ \A p \in Swept : Leads(p, i, t, f) /\ Records(p, i, t, f, r)
  BY DEF Underway
<1>2. /\ t1 \in Seq(EventSet(i)) /\ e \in EventSet(i) /\ e = t[1]
      /\ Len(t) \in Nat /\ Len(t) > 0 /\ Len(t1) = Len(t) - 1
      /\ DOMAIN t = 1..Len(t) /\ DOMAIN t1 = 1..(Len(t) - 1)
      /\ \A j \in 1..(Len(t) - 1) : t1[j] = t[j + 1]
  BY <1>1, HeadTailProperties, EmptySeq, LenProperties
<1>3. e.param \in Swept /\ e.param \in Params
  BY <1>2, CallOfScan DEF EventSet
<1>4. f1 = [p \in Params |->
              IF p = e.param /\ e.set THEN Actual(e.param, e.value) ELSE f[p]]
  BY <1>3
<1>5. r1 = [p \in Swept |->
              IF p = e.param /\ p \in scan.get THEN f1[p] ELSE r[p]]
  BY <1>1, <1>3
<1> HIDE DEF e, t1
<1>6. ASSUME NEW p \in Swept
      PROVE  Leads(p, i, t1, f1)
  <2>0. p \in Params
    BY CallOfScan
  <2>1. \A j \in EventsOf(p, t1) : j + 1 \in EventsOf(p, t) /\ t1[j] = t[j + 1]
    BY <1>2 DEF EventsOf
  <2>2. \A j \in EventsOf(p, t) :
          j # 1 => j - 1 \in EventsOf(p, t1) /\ t1[j - 1] = t[j]
    BY <1>2 DEF EventsOf
  <2>3. EventsOf(p, t) \subseteq Int /\ EventsOf(p, t1) \subseteq Int
    BY <1>2 DEF EventsOf
  <2>4. CASE /\ f[p] = At(i)[p]
             /\ \A j \in EventsOf(p, t) : Harmless(i, t[j])
    <3>1. \A j \in EventsOf(p, t1) : Harmless(i, t1[j])
      BY <2>1, <2>4
    <3>2. f1[p] = At(i)[p]
      <4>1. CASE p = e.param /\ e.set
        <5>1. 1 \in EventsOf(p, t)
          BY <1>2, <4>1 DEF EventsOf
        <5>2. e.value = Setpoint(i)[p]
          BY <1>2, <2>4, <4>1, <5>1 DEF Harmless
        <5> QED BY <1>4, <2>0, <4>1, <5>2 DEF At
      <4>2. CASE ~(p = e.param /\ e.set)
        BY <1>4, <2>0, <2>4, <4>2
      <4> QED BY <4>1, <4>2
    <3> QED BY <3>1, <3>2 DEF Leads
  <2>5. ASSUME NEW j \in EventsOf(p, t),
               t[j].set, t[j].value = Setpoint(i)[p],
               \A h \in EventsOf(p, t) : h > j => Harmless(i, t[h])
        PROVE  Leads(p, i, t1, f1)
    <3>1. CASE j = 1
      <4>1. e.param = p /\ e.set /\ e.value = Setpoint(i)[p]
        BY <1>2, <2>5, <3>1 DEF EventsOf
      <4>2. f1[p] = At(i)[p]
        BY <1>4, <2>0, <4>1 DEF At
      <4>3. ASSUME NEW h \in EventsOf(p, t1)
            PROVE  Harmless(i, t1[h])
        <5>1. h + 1 \in EventsOf(p, t) /\ h + 1 > j /\ t1[h] = t[h + 1]
          BY <1>2, <2>1, <3>1 DEF EventsOf
        <5> QED BY <2>5, <5>1
      <4> QED BY <4>2, <4>3 DEF Leads
    <3>2. CASE j # 1
      <4>1. j - 1 \in EventsOf(p, t1) /\ t1[j - 1] = t[j]
        BY <2>2, <3>2
      <4>2. ASSUME NEW h \in EventsOf(p, t1), h > j - 1
            PROVE  Harmless(i, t1[h])
        <5>1. h + 1 \in EventsOf(p, t) /\ h + 1 > j /\ t1[h] = t[h + 1]
          BY <2>1, <2>3, <4>2
        <5> QED BY <2>5, <5>1
      <4> QED BY <2>5, <4>1, <4>2 DEF Leads
    <3> QED BY <3>1, <3>2
  <2>6. Leads(p, i, t, f)
    BY <1>1
  <2> QED BY <2>4, <2>5, <2>6 DEF Leads
<1>7. ASSUME NEW p \in Swept
      PROVE  Records(p, i, t1, f1, r1)
  <2>0. p \in Params
    BY CallOfScan
  <2>1. Records(p, i, t, f, r)
    BY <1>1
  <2>2. CASE p \notin scan.get
    BY <1>5, <2>1, <2>2 DEF Records
  <2>3. CASE p \in scan.get /\ p = e.param
    BY <1>5, <2>3 DEF Records
  <2>4. CASE p \in scan.get /\ p # e.param
    <3>1. r1[p] = r[p] /\ f1[p] = f[p]
      BY <1>4, <1>5, <2>0, <2>4
    <3>2. EventsOf(p, t) # {} => EventsOf(p, t1) # {}
      <4>1. ASSUME NEW j \in EventsOf(p, t)
            PROVE  j - 1 \in EventsOf(p, t1)
        <5>1. j \in 1..Len(t) /\ t[j].param = p /\ j # 1
          BY <1>2, <2>4 DEF EventsOf
        <5>2. j - 1 \in 1..(Len(t) - 1) /\ t1[j - 1] = t[j]
          BY <1>2, <5>1
        <5> QED BY <1>2, <5>1, <5>2 DEF EventsOf
      <4> QED BY <4>1
    <3> QED BY <2>1, <2>4, <3>1, <3>2 DEF Records
  <2> QED BY <2>2, <2>3, <2>4
<1>8. r1 = [p \in Swept |-> r1[p]] /\ f1 = [p \in Params |-> f1[p]]
  BY <1>4, <1>5
<1> QED BY <1>2, <1>6, <1>7, <1>8 DEF Underway, t1

-----------------------------------------------------------------------------
(* What a step leaves alone.                                               *)

LEMMA RowsKept ==
  ASSUME scan' = scan, k' = k, rows' = rows, RowsInv,
         pc' \in {"enter", "point", "set"} => pc \in {"enter", "point", "set"},
         pc' = "enter" => pc = "enter",
         pc' = "asked" => pc = "asked",
         pc' \in Over /\ exc' \in {"none", "break"} => pc \in Over /\ exc = exc'
  PROVE  RowsInv'
<1>1. PICK m \in 0..scan.groups :
        /\ rows = Filled(m, k)
        /\ pc \in {"enter", "point", "set"} => m = 0
        /\ pc = "enter" => k = 0
        /\ pc = "asked" => m = scan.groups
        /\ pc \in Over /\ exc = "break" => m = scan.groups
        /\ pc \in Over /\ exc = "none" => m = 0 /\ ~(k < Points)
  BY DEF RowsInv
<1>2. /\ Points' = Points
      /\ Filled(m, k)' = Filled(m, k)
  BY SamePoints, SameGrid
<1> QED BY <1>1, <1>2 DEF RowsInv

LEMMA MarksKept ==
  ASSUME scan' = scan, rows' = rows, status' = status, marked' = marked,
         PartialIsMarked
  PROVE  PartialIsMarked'
BY SamePoints DEF PartialIsMarked

(* While the scan goes on every context is open and nothing is completed.  *)
LEMMA AllOpen ==
  ASSUME Nested, pc \in Body, scan.groups \in Nat
  PROVE  /\ \A g \in Groups : status[g] = "running"
         /\ stack = [i \in 1..scan.groups |-> i]
BY DEF Nested, Body, Groups, Over

(* A step of the body keeps the contexts as they are.                      *)
LEMMA BodyKept ==
  ASSUME scan' = scan, status' = status, stack' = stack, broken' = broken,
         scan.groups \in Nat, Nested, pc \in Body,
         pc' \in Body \cup {"leave"}
  PROVE  Nested'
<1>1. Groups' = Groups
  BY SamePoints
<1>2. \A g \in Groups : status[g] = "running" /\ g <= scan.groups /\ g \in Nat
  BY AllOpen DEF Groups
<1>3. stack = [i \in 1..scan.groups |-> i]
  BY AllOpen
<1>4. scan.groups \in 0..scan.groups
  OBVIOUS
<1>5. pc' \notin {"enter", "returned", "raised"}
  BY DEF Body
<1>6. \A g \in Groups : ~(g > scan.groups)
  BY <1>2
<1> QED BY <1>1, <1>2, <1>3, <1>4, <1>5, <1>6 DEF Nested

-----------------------------------------------------------------------------
(* Every step preserves the invariant.                                     *)

LEMMA Start == Init => IInv
<1> SUFFICES ASSUME Init PROVE IInv
  OBVIOUS
<1>1. scan.groups \in Nat /\ scan.groups > 0 /\ 0 \in 0..scan.groups
  BY CallOfScan DEF Init
<1>2. Formed
  BY DEF Init, Formed
<1>3. RowsInv
  <2>1. \A g \in Groups : ~(g <= 0)
    BY <1>1 DEF Groups
  <2>2. Grid(0) = <<>>
    BY DEF Grid
  <2>3. rows = Filled(0, k)
    BY <2>1, <2>2 DEF Init, Filled
  <2> QED BY <1>1, <2>3 DEF Init, RowsInv, Over
<1>4. Nested
  <2>1. stack = [i \in 1..0 |-> i]
    BY DEF Init
  <2>2. \A g \in Groups : ~(g <= 0) /\ status[g] = "absent"
    BY <1>1 DEF Init, Groups
  <2> QED BY <1>1, <2>1, <2>2 DEF Init, Nested, Body, Over
<1>5. Outcome /\ PointInv
  BY DEF Init, Outcome, PointInv, Over
<1>6. PartialIsMarked
  BY DEF Init, PartialIsMarked
<1> QED BY <1>2, <1>3, <1>4, <1>5, <1>6 DEF IInv

LEMMA EnterStep ==
  ASSUME IInv, Enter
  PROVE  IInv'
<1>1. /\ pc = "enter" /\ scan' = scan /\ knob' = knob /\ k' = k /\ rows' = rows
      /\ marked' = marked /\ broken' = broken /\ exc' = exc
      /\ status' = [status EXCEPT ![Len(stack) + 1] = "running"]
      /\ stack' = Append(stack, Len(stack) + 1)
      /\ pc' = IF Len(stack) + 1 = scan.groups THEN "point" ELSE "enter"
  BY DEF Enter
<1>2. Groups' = Groups /\ scan.groups \in Nat /\ scan.groups > 0
  BY <1>1, SamePoints, CallOfScan DEF IInv, Formed
<1>3. PICK d \in 0..scan.groups :
        /\ stack = [i \in 1..d |-> i] /\ d < scan.groups
        /\ \A g \in Groups : /\ g <= d => status[g] = "running"
                             /\ g > d => status[g] = "absent"
  BY <1>1 DEF IInv, Nested
<1>4. /\ stack \in Seq(Nat) /\ Len(stack) = d /\ d + 1 \in Nat
      /\ d + 1 \in Groups /\ d + 1 \in 0..scan.groups
  BY <1>2, <1>3 DEF Groups
<1>5. Formed'
  BY <1>1, <1>2, <1>4 DEF IInv, Formed, Body
<1>6. RowsInv'
  BY <1>1, RowsKept DEF IInv, Over
<1>7. Nested'
  <2>1. stack' = [i \in 1..(d + 1) |-> i]
    <3>1. stack' = [i \in 1..(d + 1) |-> IF i <= d THEN stack[i] ELSE d + 1]
      BY <1>1, <1>4, Appended
    <3>2. \A i \in 1..(d + 1) : (IF i <= d THEN stack[i] ELSE d + 1) = i
      BY <1>3
    <3> QED BY <3>1, <3>2
  <2>2. pc' = "enter" => d + 1 < scan.groups
    BY <1>1, <1>2, <1>3, <1>4
  <2>3. pc' \in Body => d + 1 = scan.groups
    BY <1>1, <1>4 DEF Body
  <2>4. ASSUME NEW g \in Groups
        PROVE  /\ g <= d + 1 => status'[g] = "running"
               /\ g > d + 1 => status'[g] = "absent"
    BY <1>1, <1>2, <1>3, <1>4 DEF IInv, Formed, Groups
  <2>5. pc' \notin Over
    BY <1>1 DEF Over
  <2> QED BY <1>1, <1>2, <1>4, <2>1, <2>2, <2>3, <2>4, <2>5 DEF Nested, Over
<1>8. Outcome'
  BY <1>1 DEF IInv, Outcome, Over
<1>9. PartialIsMarked'
  <2>1. \A g \in Groups : status'[g] # "completed"
    BY <1>1, <1>2, <1>3, <1>4 DEF IInv, Formed, Groups
  <2> QED BY <1>2, <2>1 DEF PartialIsMarked
<1>10. PointInv'
  <2>1. k' = 0
    BY <1>1 DEF IInv, RowsInv
  <2> QED BY <1>1, <2>1 DEF PointInv
<1> QED BY <1>5, <1>6, <1>7, <1>8, <1>9, <1>10 DEF IInv

LEMMA EnterBreaksOffStep ==
  ASSUME IInv, EnterBreaksOff
  PROVE  IInv'
<1>1. /\ pc = "enter" /\ pc' = "leave" /\ exc' \in Raised
      /\ scan' = scan /\ knob' = knob /\ k' = k /\ rows' = rows
      /\ marked' = marked /\ stack' = stack
      /\ \/ status' = status /\ broken' = broken
         \/ /\ status' = [status EXCEPT ![Len(stack) + 1] = "running"]
            /\ broken' = broken \cup {Len(stack) + 1}
  BY DEF EnterBreaksOff
<1>2. Groups' = Groups /\ scan.groups \in Nat /\ scan.groups > 0
  BY <1>1, SamePoints, CallOfScan DEF IInv, Formed
<1>3. PICK d \in 0..scan.groups :
        /\ stack = [i \in 1..d |-> i] /\ d < scan.groups
        /\ \A g \in Groups : /\ g <= d => status[g] = "running"
                             /\ g > d => status[g] = "absent"
  BY <1>1 DEF IInv, Nested
<1>4. Len(stack) = d /\ d + 1 \in Groups
  BY <1>2, <1>3 DEF Groups
<1>5. exc' \notin {"none", "break"}
  BY <1>1, ScansAssumption
<1>6. Formed'
  BY <1>1, <1>2, <1>4 DEF IInv, Formed, Over
<1>7. RowsInv'
  BY <1>1, <1>5, RowsKept DEF IInv, Over
<1>8. Nested'
  <2>1. ASSUME NEW g \in Groups
        PROVE  /\ g <= d => status'[g] = "running"
               /\ g > d /\ status'[g] = "running" => g \in broken'
    BY <1>1, <1>2, <1>3, <1>4 DEF IInv, Formed, Groups
  <2> QED BY <1>1, <1>2, <1>3, <1>5, <2>1 DEF Nested, Body
<1>9. Outcome'
  BY <1>1 DEF Outcome, Over
<1>10. PartialIsMarked'
  <2>1. \A g \in Groups : status[g] # "completed"
    BY <1>2, <1>3 DEF Groups
  <2>2. \A g \in Groups : status'[g] \in {status[g], "running"}
    BY <1>1 DEF IInv, Formed
  <2> QED BY <1>2, <2>1, <2>2 DEF PartialIsMarked
<1>11. PointInv'
  BY <1>1 DEF PointInv
<1> QED BY <1>6, <1>7, <1>8, <1>9, <1>10, <1>11 DEF IInv

LEMMA NextPointStep ==
  ASSUME IInv, NextPoint
  PROVE  IInv'
<1>1. /\ pc = "point" /\ scan' = scan /\ knob' = knob /\ k' = k
      /\ rows' = rows /\ status' = status /\ marked' = marked
      /\ broken' = broken /\ stack' = stack /\ exc' = exc
      /\ \/ /\ k < Points /\ pc' = "set"
            /\ todo' = Events(k) /\ results' = Setpoint(k)
         \/ ~(k < Points) /\ pc' = "leave"
  BY DEF NextPoint, data
<1>2. scan.groups \in Nat /\ exc = "none"
  BY <1>1, CallOfScan DEF IInv, Formed, Outcome, Over
<1>3. Formed'
  BY <1>1, SamePoints DEF IInv, Formed, Body, Over
<1>4. RowsInv'
  <2>1. CASE pc' = "set"
    BY <1>1, <2>1, RowsKept DEF IInv, Over
  <2>2. CASE pc' = "leave"
    <3>1. rows = Filled(0, k) /\ 0 \in 0..scan.groups
      BY <1>1, <1>2 DEF IInv, RowsInv
    <3>2. Points' = Points /\ Filled(0, k)' = Filled(0, k)
      BY <1>1, SamePoints, SameGrid
    <3> QED BY <1>1, <1>2, <2>2, <3>1, <3>2 DEF RowsInv
  <2> QED BY <1>1, <2>1, <2>2
<1>5. Nested'
  BY <1>1, <1>2, BodyKept DEF IInv, Body
<1>6. Outcome'
  BY <1>1 DEF IInv, Outcome, Over
<1>7. PartialIsMarked'
  BY <1>1, MarksKept DEF IInv
<1>8. PointInv'
  <2>1. CASE pc' = "set"
    <3>1. Underway(k, Events(k), knob, Setpoint(k))
      BY <1>1, <2>1, Led DEF IInv, Formed, PointInv
    <3>2. Underway(k, todo, knob, results)'
      BY <1>1, <2>1, <3>1, SameWay
    <3> QED BY <1>1, <2>1, <3>2, SamePoints DEF PointInv
  <2>2. CASE pc' = "leave"
    BY <2>2 DEF PointInv
  <2> QED BY <1>1, <2>1, <2>2
<1> QED BY <1>3, <1>4, <1>5, <1>6, <1>7, <1>8 DEF IInv

LEMMA SetEventStep ==
  ASSUME IInv, SetEvent
  PROVE  IInv'
<1>1. /\ pc = "set" /\ pc' = pc /\ todo # <<>> /\ todo' = Tail(todo)
      /\ scan' = scan /\ k' = k /\ rows' = rows /\ status' = status
      /\ marked' = marked /\ broken' = broken /\ stack' = stack /\ exc' = exc
      /\ knob' = IF Head(todo).set
                   THEN [knob EXCEPT ![Head(todo).param] =
                           Actual(Head(todo).param, Head(todo).value)]
                   ELSE knob
      /\ results' = IF Head(todo).param \in scan.get
                      THEN [results EXCEPT ![Head(todo).param] =
                              knob'[Head(todo).param]]
                      ELSE results
  BY DEF SetEvent, data, Recorded
<1>2. scan.groups \in Nat
  BY CallOfScan DEF IInv, Formed
<1>3. Underway(k, todo, knob, results) /\ k < Points
  BY <1>1 DEF IInv, PointInv
<1>4. /\ Underway(k, Tail(todo), knob', results')
      /\ knob' = [p \in Params |-> knob'[p]]
  BY <1>1, <1>3, Moved DEF IInv, Formed
<1>5. Formed'
  BY <1>1, <1>4, SamePoints DEF IInv, Formed
<1>6. RowsInv'
  BY <1>1, RowsKept DEF IInv, Over
<1>7. Nested'
  BY <1>1, <1>2, BodyKept DEF IInv, Body
<1>8. Outcome' /\ PartialIsMarked'
  BY <1>1, MarksKept DEF IInv, Outcome, Over
<1>9. PointInv'
  <2>1. Underway(k, todo, knob, results)'
    BY <1>1, <1>4, SameWay
  <2> QED BY <1>1, <1>3, <2>1, SamePoints DEF PointInv
<1> QED BY <1>5, <1>6, <1>7, <1>8, <1>9 DEF IInv

LEMMA MeasureStep ==
  ASSUME IInv, Measure
  PROVE  IInv'
<1>1. /\ pc = "set" /\ pc' = "record" /\ todo = <<>>
      /\ measured' = [p \in Swept |-> knob[p]]
      /\ scan' = scan /\ k' = k /\ rows' = rows /\ status' = status
      /\ marked' = marked /\ broken' = broken /\ stack' = stack /\ exc' = exc
      /\ knob' = knob /\ results' = results
  BY DEF Measure, data
<1>2. scan.groups \in Nat
  BY CallOfScan DEF IInv, Formed
<1>3. Underway(k, todo, knob, results)
  BY <1>1 DEF IInv, PointInv
<1>4. ASSUME NEW p \in Swept
      PROVE  knob[p] = At(k)[p] /\ results[p] = At(k)[p]
  <2>1. EventsOf(p, todo) = {}
    BY <1>1 DEF EventsOf
  <2>2. knob[p] = At(k)[p]
    BY <1>3, <2>1 DEF Underway, Leads
  <2>3. p \notin scan.get => At(k)[p] = Setpoint(k)[p]
    BY CallOfScan DEF IInv, Formed, At, Actual
  <2> QED BY <1>3, <2>1, <2>2, <2>3 DEF Underway, Records
<1>5. results = At(k) /\ measured' = At(k) /\ Reached(k, knob)
  <2>1. At(k) = [p \in Swept |-> At(k)[p]]
    BY DEF At
  <2>2. results = [p \in Swept |-> results[p]]
    BY <1>3 DEF Underway
  <2> HIDE DEF Swept
  <2> QED BY <1>1, <1>4, <2>1, <2>2 DEF Reached
<1>6. Formed'
  BY <1>1, SamePoints DEF IInv, Formed, Body
<1>7. RowsInv'
  BY <1>1, RowsKept DEF IInv, Over
<1>8. Nested'
  BY <1>1, <1>2, BodyKept DEF IInv, Body
<1>9. Outcome' /\ PartialIsMarked'
  BY <1>1, MarksKept DEF IInv, Outcome, Over
<1>10. PointInv'
  <2>1. At(k)' = At(k) /\ Reached(k, knob)'
    BY <1>1, <1>5, SameGrid, SameWay
  <2> QED BY <1>1, <1>5, <2>1 DEF PointInv
<1> QED BY <1>6, <1>7, <1>8, <1>9, <1>10 DEF IInv

LEMMA RecordStep ==
  ASSUME IInv, Record
  PROVE  IInv'
<1>1. PICK g \in Groups : AddResult(g)
  BY DEF Record
<1>2. /\ pc = "record" /\ g \notin Served /\ \A h \in 1..(g - 1) : h \in Served
      /\ rows' = [rows EXCEPT ![g] =
           Append(@, [setpoints |-> results, values |-> measured])]
      /\ pc' = IF g = scan.groups THEN "asked" ELSE "record"
  BY <1>1 DEF AddResult
<1>3. /\ scan' = scan /\ k' = k /\ status' = status /\ marked' = marked
      /\ broken' = broken /\ stack' = stack /\ exc' = exc /\ knob' = knob
      /\ results' = results /\ measured' = measured
  BY DEF Record
<1>4. scan.groups \in Nat /\ k \in Nat
  BY CallOfScan DEF IInv, Formed
<1>5. PICK m \in 0..scan.groups : rows = Filled(m, k)
  BY DEF IInv, RowsInv
<1>6. \A h \in Groups : h \in Served <=> h <= m
  <2>1. \A h \in Groups : Len(rows[h]) = IF h <= m THEN k + 1 ELSE k
    BY <1>4, <1>5, Rows
  <2> QED BY <1>4, <2>1 DEF Served
<1>7. g = m + 1
  <2>1. ~(g <= m) /\ g \in Nat /\ g > 0 /\ g <= scan.groups
    BY <1>2, <1>6 DEF Groups
  <2>2. g # 1 => g - 1 \in Groups /\ g - 1 \in 1..(g - 1)
    BY <1>4, <2>1 DEF Groups
  <2>3. g # 1 => g - 1 <= m
    BY <1>2, <1>6, <2>2
  <2> QED BY <2>1, <2>3
<1>8. results = At(k) /\ measured = At(k) /\ Reached(k, knob)
  BY <1>2 DEF IInv, PointInv
<1>9. rows' = Filled(g, k)
  <2>1. rows[g] = Grid(k)
    BY <1>4, <1>5, <1>7 DEF Filled
  <2>2. rows'[g] = Grid(k + 1) /\ DOMAIN rows' = Groups
    BY <1>2, <1>4, <1>5, <1>8, <2>1, GridGrows DEF Row, Filled
  <2>3. ASSUME NEW h \in Groups
        PROVE  rows'[h] = Grid(IF h <= g THEN k + 1 ELSE k)
    <3>1. CASE h = g
      BY <2>2, <3>1 DEF Groups
    <3>2. CASE h # g
      <4>1. rows'[h] = rows[h] /\ (h <= g <=> h <= m)
        BY <1>2, <1>5, <1>7, <3>2 DEF Filled, Groups
      <4> QED BY <1>5, <4>1 DEF Filled
    <3> QED BY <3>1, <3>2
  <2>4. rows' = [h \in Groups |-> rows'[h]]
    BY <1>2, <1>5 DEF Filled
  <2> QED BY <2>3, <2>4 DEF Filled
<1>10. RowsInv'
  <2>1. Filled(g, k)' = Filled(g, k) /\ g \in 0..scan.groups
    BY <1>3, SameGrid DEF Groups
  <2> QED BY <1>2, <1>3, <1>9, <2>1 DEF RowsInv, Over
<1>11. Formed'
  BY <1>2, <1>3, SamePoints DEF IInv, Formed, Body
<1>12. Nested'
  BY <1>2, <1>3, <1>4, BodyKept DEF IInv, Body
<1>13. Outcome'
  BY <1>2, <1>3 DEF IInv, Outcome, Over
<1>14. PartialIsMarked'
  <2>1. \A h \in Groups : status'[h] # "completed"
    BY <1>2, <1>3, <1>4, AllOpen DEF IInv, Body
  <2> QED BY <1>3, <2>1, SamePoints DEF PartialIsMarked
<1>15. PointInv'
  <2>1. At(k)' = At(k) /\ Reached(k, knob)'
    BY <1>3, <1>8, SameGrid, SameWay
  <2> QED BY <1>2, <1>3, <1>8, <2>1 DEF PointInv
<1> QED BY <1>10, <1>11, <1>12, <1>13, <1>14, <1>15 DEF IInv

LEMMA BreakStep ==
  ASSUME IInv, Break
  PROVE  IInv'
<1>1. /\ pc = "asked" /\ exc' = "break" /\ pc' = "leave"
      /\ scan' = scan /\ k' = k /\ rows' = rows /\ status' = status
      /\ marked' = marked /\ broken' = broken /\ stack' = stack /\ knob' = knob
  BY DEF Break, data
<1>2. scan.groups \in Nat
  BY CallOfScan DEF IInv, Formed
<1>3. Formed'
  BY <1>1, SamePoints DEF IInv, Formed, Over
<1>4. RowsInv'
  <2>1. rows = Filled(scan.groups, k) /\ scan.groups \in 0..scan.groups
    BY <1>1, <1>2 DEF IInv, RowsInv
  <2>2. Filled(scan.groups, k)' = Filled(scan.groups, k)
    BY <1>1, SameGrid
  <2> QED BY <1>1, <2>1, <2>2 DEF RowsInv
<1>5. Nested'
  BY <1>1, <1>2, BodyKept DEF IInv, Body
<1>6. Outcome' /\ PartialIsMarked'
  BY <1>1, MarksKept DEF IInv, Outcome, Over
<1>7. PointInv'
  BY <1>1 DEF PointInv
<1> QED BY <1>3, <1>4, <1>5, <1>6, <1>7 DEF IInv

LEMMA GoOnStep ==
  ASSUME IInv, GoOn
  PROVE  IInv'
<1>1. /\ pc = "asked" /\ k' = k + 1 /\ pc' = "point"
      /\ scan' = scan /\ rows' = rows /\ status' = status /\ exc' = exc
      /\ marked' = marked /\ broken' = broken /\ stack' = stack /\ knob' = knob
  BY DEF GoOn, data
<1>2. scan.groups \in Nat /\ k \in Nat
  BY CallOfScan DEF IInv, Formed
<1>3. Formed'
  BY <1>1, <1>2, SamePoints DEF IInv, Formed, Body
<1>4. RowsInv'
  <2>1. rows = Filled(scan.groups, k) /\ 0 \in 0..scan.groups
    BY <1>1, <1>2 DEF IInv, RowsInv
  <2>2. \A g \in Groups : g <= scan.groups /\ ~(g <= 0)
    BY <1>2 DEF Groups
  <2>3. Filled(scan.groups, k) = Filled(0, k + 1)
    BY <2>2 DEF Filled
  <2>4. Filled(0, k)' = Filled(0, k')
    BY <1>1, SameGrid
  <2> QED BY <1>1, <2>1, <2>3, <2>4 DEF RowsInv, Over
<1>5. Nested'
  BY <1>1, <1>2, BodyKept DEF IInv, Body
<1>6. Outcome' /\ PartialIsMarked'
  BY <1>1, MarksKept DEF IInv, Outcome, Over
<1>7. PointInv'
  <2>1. Reached(k, knob)
    BY <1>1 DEF IInv, PointInv
  <2>2. k' - 1 = k
    BY <1>1, <1>2
  <2>3. \A i : At(i)' = At(i)
    BY <1>1, SameGrid
  <2>4. Reached(k - 1, knob)'
    BY <1>1, <2>1, <2>2, <2>3, SamePoints DEF Reached
  <2> QED BY <1>1, <2>4 DEF PointInv
<1> QED BY <1>3, <1>4, <1>5, <1>6, <1>7 DEF IInv

LEMMA BodyRaisesStep ==
  ASSUME IInv, BodyRaises
  PROVE  IInv'
<1>1. /\ pc \in Body /\ exc' \in Raised /\ pc' = "leave"
      /\ scan' = scan /\ k' = k /\ rows' = rows /\ status' = status
      /\ marked' = marked /\ broken' = broken /\ stack' = stack /\ knob' = knob
  BY DEF BodyRaises, data, Body
<1>2. scan.groups \in Nat /\ exc' \notin {"none", "break"}
  BY <1>1, CallOfScan, ScansAssumption DEF IInv, Formed
<1>3. Formed'
  BY <1>1, SamePoints DEF IInv, Formed, Over
<1>4. RowsInv'
  BY <1>1, <1>2, RowsKept DEF IInv
<1>5. Nested'
  BY <1>1, <1>2, BodyKept DEF IInv
<1>6. Outcome' /\ PartialIsMarked'
  BY <1>1, MarksKept DEF IInv, Outcome, Over
<1>7. PointInv'
  BY <1>1 DEF PointInv
<1> QED BY <1>3, <1>4, <1>5, <1>6, <1>7 DEF IInv

LEMMA UnwindStep ==
  ASSUME IInv, Unwind
  PROVE  IInv'
<1> DEFINE g == Last(stack)
<1>1. /\ pc = "leave" /\ pc' = pc /\ stack # <<>> /\ stack' = Front(stack)
      /\ Leave(g) \/ LeaveBreaksOff(g)
      /\ scan' = scan /\ knob' = knob /\ k' = k /\ rows' = rows
  BY DEF Unwind
<1>2. Groups' = Groups /\ scan.groups \in Nat /\ k \in Nat
  BY <1>1, SamePoints, CallOfScan DEF IInv, Formed
<1>3. PICK d \in 0..scan.groups :
        /\ stack = [i \in 1..d |-> i]
        /\ \A h \in Groups :
             /\ h <= d => status[h] = "running"
             /\ h > d /\ exc \in {"none", "break"} => status[h] = "completed"
             /\ h > d /\ status[h] = "running" => h \in broken
  BY <1>1 DEF IInv, Nested, Over
<1>4. /\ d # 0 /\ g = d /\ d \in Groups /\ d - 1 \in 0..scan.groups
      /\ stack' = [i \in 1..(d - 1) |-> i]
  <2>1. d # 0
    BY <1>1, <1>3
  <2>2. Len(stack) = d /\ stack[d] = d /\ d \in 1..d
    BY <1>2, <1>3, <2>1
  <2>3. stack' = [i \in 1..(d - 1) |-> i]
    <3>1. stack' = [i \in 1..(d - 1) |-> stack[i]]
      BY <1>1, <1>2, <1>3, <2>1, <2>2 DEF Front
    <3> QED BY <1>3, <3>1
  <2> QED BY <1>2, <2>1, <2>2, <2>3 DEF Last, Groups
<1> HIDE DEF g
<1>5. /\ exc' \in {exc, "interrupt", "error"}
      /\ exc' \in {"none", "break"} \cup Raised
      /\ exc' \in {"none", "break"} => exc' = exc /\ status'[d] = "completed"
      /\ status' \in [Groups -> {"absent", "running", "completed"}]
      /\ \A h \in Groups : h # d => status'[h] = status[h]
      /\ status'[d] = "running" => d \in broken'
      /\ status'[d] = "completed" /\ status[d] = "running" /\ exc # "none" =>
           d \in marked'
      /\ broken \subseteq broken' /\ marked \subseteq marked'
  <2>1. CASE Leave(g)
    BY <1>3, <1>4, <2>1 DEF Leave, IInv, Formed, Outcome
  <2>2. CASE LeaveBreaksOff(g)
    BY <1>3, <1>4, <2>2 DEF LeaveBreaksOff, IInv, Formed, Outcome
  <2> QED BY <1>1, <2>1, <2>2
<1>6. Formed'
  BY <1>1, <1>2, <1>5 DEF IInv, Formed, Over
<1>7. RowsInv'
  BY <1>1, <1>5, RowsKept DEF IInv, Over
<1>8. Nested'
  <2>1. ASSUME NEW h \in Groups
        PROVE  /\ h <= d - 1 => status'[h] = "running"
               /\ h > d - 1 /\ exc' \in {"none", "break"} =>
                    status'[h] = "completed"
               /\ h > d - 1 /\ status'[h] = "running" => h \in broken'
    <3>1. CASE h = d
      BY <1>2, <1>4, <1>5, <3>1 DEF Groups
    <3>2. CASE h # d
      <4>1. /\ h <= d - 1 => h <= d
            /\ h > d - 1 => h > d
        BY <1>2, <1>4, <3>2 DEF Groups
      <4> QED BY <1>3, <1>5, <3>2, <4>1
    <3> QED BY <3>1, <3>2
  <2> QED BY <1>1, <1>2, <1>4, <2>1 DEF Nested, Body
<1>9. Outcome'
  BY <1>1, <1>5 DEF Outcome, Over
<1>10. PartialIsMarked'
  <2>1. ASSUME NEW h \in Groups, status'[h] = "completed", Len(rows[h]) < Points
        PROVE  h \in marked'
    <3>1. CASE h = d
      <4>1. exc = "none" => Len(rows[d]) = k /\ ~(k < Points)
        <5>1. SUFFICES ASSUME exc = "none"
                       PROVE  Len(rows[d]) = k /\ ~(k < Points)
          OBVIOUS
        <5>2. rows = Filled(0, k) /\ ~(k < Points) /\ 0 \in 0..scan.groups
          BY <1>1, <1>2, <5>1 DEF IInv, RowsInv, Over
        <5>3. ~(d <= 0)
          BY <1>4 DEF Groups
        <5> QED BY <1>2, <1>4, <5>2, <5>3, Rows
      <4>2. status[d] = "running"
        BY <1>2, <1>3, <1>4 DEF Groups
      <4> QED BY <1>5, <2>1, <3>1, <4>1, <4>2
    <3>2. CASE h # d
      BY <1>5, <2>1, <3>2 DEF IInv, PartialIsMarked
    <3> QED BY <3>1, <3>2
  <2> QED BY <1>1, <1>2, <2>1, SamePoints DEF PartialIsMarked
<1>11. PointInv'
  BY <1>1 DEF PointInv
<1> QED BY <1>6, <1>7, <1>8, <1>9, <1>10, <1>11 DEF IInv

LEMMA EndStep ==
  ASSUME IInv, End
  PROVE  IInv'
<1>1. /\ pc = "leave" /\ stack = <<>> /\ stack' = stack /\ exc' = exc
      /\ pc' = IF exc \in {"none", "break"} THEN "returned" ELSE "raised"
      /\ scan' = scan /\ k' = k /\ rows' = rows /\ status' = status
      /\ marked' = marked /\ broken' = broken /\ knob' = knob
  BY DEF End, data
<1>2. Groups' = Groups /\ scan.groups \in Nat
  BY <1>1, SamePoints, CallOfScan DEF IInv, Formed
<1>3. Formed'
  BY <1>1, <1>2 DEF IInv, Formed, Over
<1>4. RowsInv'
  BY <1>1, RowsKept DEF IInv, Over
<1>5. Nested'
  <2>1. PICK d \in 0..scan.groups :
          /\ stack = [i \in 1..d |-> i]
          /\ \A g \in Groups :
               /\ g <= d => status[g] = "running"
               /\ g > d /\ exc \in {"none", "break"} => status[g] = "completed"
               /\ g > d /\ status[g] = "running" => g \in broken
    BY <1>1 DEF IInv, Nested, Over
  <2>2. d = 0
    <3>1. d # 0 => 1 \in DOMAIN stack
      BY <1>2, <2>1
    <3> QED BY <1>1, <3>1
  <2> QED BY <1>1, <1>2, <2>1, <2>2 DEF Nested, Body
<1>6. Outcome' /\ PartialIsMarked'
  BY <1>1, MarksKept DEF IInv, Outcome, Over
<1>7. PointInv'
  BY <1>1 DEF PointInv
<1> QED BY <1>3, <1>4, <1>5, <1>6, <1>7 DEF IInv

LEMMA StutterStep ==
  ASSUME IInv, UNCHANGED vars
  PROVE  IInv'
<1>1. /\ scan' = scan /\ knob' = knob /\ k' = k /\ todo' = todo
      /\ results' = results /\ measured' = measured /\ rows' = rows
      /\ status' = status /\ marked' = marked /\ broken' = broken
      /\ stack' = stack /\ exc' = exc /\ pc' = pc
  BY DEF vars, data
<1>2. Formed' /\ Outcome' /\ PartialIsMarked' /\ Nested'
  BY <1>1, SamePoints DEF IInv, Formed, Outcome, PartialIsMarked, Nested
<1>3. RowsInv'
  BY <1>1, RowsKept DEF IInv
<1>4. PointInv'
  <2>1. /\ Reached(k - 1, knob)' <=> Reached(k - 1, knob)
        /\ Reached(k, knob)' <=> Reached(k, knob)
        /\ Underway(k, todo, knob, results)' <=> Underway(k, todo, knob, results)
        /\ At(k)' = At(k) /\ Points' = Points
    BY <1>1, SameWay, SameGrid, SamePoints
  <2> QED BY <1>1, <2>1 DEF IInv, PointInv
<1> QED BY <1>2, <1>3, <1>4 DEF IInv

LEMMA Inductive == IInv /\ [Next]_vars => IInv'
<1> SUFFICES ASSUME IInv, [Next]_vars PROVE IInv'
  OBVIOUS
<1> QED BY EnterStep, EnterBreaksOffStep, NextPointStep, SetEventStep,
           MeasureStep, RecordStep, BreakStep, GoOnStep, BodyRaisesStep,
           UnwindStep, EndStep, StutterStep DEF Next

-----------------------------------------------------------------------------
(* The invariant says what the runs check, and more.                       *)

LEMMA Consequences ==
  ASSUME IInv
  PROVE  RowsAreTrue /\ GroupsInStep /\ NoneLeftRunning
<1>1. scan.groups \in Nat /\ k \in Nat
  BY CallOfScan DEF IInv, Formed
<1>2. PICK m \in 0..scan.groups :
        /\ rows = Filled(m, k)
        /\ pc \in Over /\ exc = "break" => m = scan.groups
  BY DEF IInv, RowsInv
<1>3. ASSUME NEW g \in Groups, NEW i \in DOMAIN rows[g]
      PROVE  rows[g][i].setpoints = At(i - 1) /\ rows[g][i].values = At(i - 1)
  <2>1. PICK n \in Nat : rows[g] = Grid(n)
    BY <1>1, <1>2, Rows
  <2>2. i \in 1..n /\ rows[g][i] = Row(i - 1)
    BY <1>3, <2>1 DEF Grid
  <2> QED BY <2>2 DEF Row
<1>4. RowsAreTrue
  BY <1>3 DEF RowsAreTrue
<1>5. GroupsInStep
  <2>1. \A g \in Groups : \A i \in DOMAIN rows[g] : \A p \in Swept :
          rows[g][i].setpoints[p] = Actual(p, Setpoint(i - 1)[p])
    <3>1. ASSUME NEW i, NEW p \in Swept
          PROVE  At(i - 1)[p] = Actual(p, Setpoint(i - 1)[p])
      BY DEF At
    <3> QED BY <1>3, <3>1
  <2>2. ASSUME NEW g \in Groups, NEW h \in Groups, g < h
        PROVE  Len(rows[g]) - Len(rows[h]) \in
                 (IF exc = "break" THEN {0} ELSE {0, 1})
    <3>1. /\ Len(rows[g]) = IF g <= m THEN k + 1 ELSE k
          /\ Len(rows[h]) = IF h <= m THEN k + 1 ELSE k
      BY <1>1, <1>2, Rows
    <3>2. exc = "break" => m = scan.groups
      BY <1>2 DEF IInv, Outcome
    <3>3. g \in Nat /\ h \in Nat /\ g <= scan.groups /\ h <= scan.groups
      BY DEF Groups
    <3>4. Len(rows[g]) - Len(rows[h]) \in {0, 1}
      BY <1>1, <2>2, <3>1, <3>3
    <3>5. exc = "break" => Len(rows[g]) - Len(rows[h]) = 0
      BY <1>1, <3>1, <3>2, <3>3
    <3> QED BY <3>4, <3>5
  <2> QED BY <2>1, <2>2 DEF GroupsInStep
<1>6. NoneLeftRunning
  <2>1. ASSUME pc \in {"returned", "raised"}
        PROVE  \A g \in Groups :
                 /\ status[g] = "running" => g \in broken
                 /\ exc \in {"none", "break"} => status[g] = "completed"
    <3>1. \A g \in Groups : g > 0
      BY <1>1 DEF Groups
    <3> QED BY <2>1, <3>1 DEF IInv, Nested, Over
  <2>2. pc = "returned" => exc \in {"none", "break"}
    BY DEF IInv, Outcome
  <2> QED BY <2>1, <2>2 DEF NoneLeftRunning
<1> QED BY <1>4, <1>5, <1>6

(* What holds in every state of every scan.                                *)
THEOREM Invariance == Spec => []IInv
<1>1. Init => IInv
  BY Start
<1> QED BY <1>1, Inductive, PTL DEF Spec

(* Every row a scan adds states the point its values were measured at,     *)
(* although only what changes is set.                                      *)
THEOREM RowsTrue == Spec => []RowsAreTrue
<1>1. IInv => RowsAreTrue
  BY Consequences
<1> QED BY <1>1, Invariance, PTL

(* Row i of every dataset is point i of the grid, and no dataset is more   *)
(* than a row behind another, none when a break condition ended the scan.  *)
THEOREM InStep == Spec => []GroupsInStep
<1>1. IInv => GroupsInStep
  BY Consequences
<1> QED BY <1>1, Invariance, PTL

(* A completed dataset that lacks a point has measurement_exception.       *)
THEOREM PartialMarked == Spec => []PartialIsMarked
<1>1. IInv => PartialIsMarked
  BY DEF IInv
<1> QED BY <1>1, Invariance, PTL

(* However a scan ends, only a dataset whose own __enter__ or exit action  *)
(* was broken off is left running.                                         *)
THEOREM NoneRunning == Spec => []NoneLeftRunning
<1>1. IInv => NoneLeftRunning
  BY Consequences
<1> QED BY <1>1, Invariance, PTL

-----------------------------------------------------------------------------
(* The number of points is a natural number, whatever the sweeps.          *)

LEMMA LeastOf ==
  ASSUME NEW S \in SUBSET Nat, S # {}
  PROVE  \E m \in S : \A n \in S : m <= n
<1> DEFINE less == OpToRel(<, Nat)
<1>1. \A a, b \in Nat : <<b, a>> \in less <=> b < a
  BY DEF OpToRel
<1>2. IsWellFoundedOn(less, Nat)
  BY NatLessThanWellFounded
<1> HIDE DEF less
<1>3. PICK m \in S : \A n \in S : ~ (<<n, m>> \in less)
  BY <1>2, WFMin
<1>4. \A n \in S : n \in Nat /\ m \in Nat /\ ~ (n < m)
  BY <1>1, <1>3
<1> QED BY <1>4

LEMMA FiniteGrid ==
  ASSUME scan \in Scans
  PROVE  /\ IsFiniteSet(Dims)
         /\ \A d \in Dims : NumPoints(d) \in Nat
<1>1. Len(Sweeps) \in Nat /\ DOMAIN Sweeps = 1..Len(Sweeps)
  BY CallOfScan
<1>2. IsFiniteSet(DOMAIN Sweeps)
  BY <1>1, FS_Interval
<1>3. IsFiniteSet(Dims)
  <2> DEFINE f == [i \in DOMAIN Sweeps |-> Sweeps[i].dim]
  <2>1. f \in Surjection(DOMAIN Sweeps, Dims)
    BY DEF Surjection, Dims
  <2> QED BY <1>2, <2>1, FS_Surjection
<1>4. ASSUME NEW d \in Dims
      PROVE  NumPoints(d) \in Nat
  <2> DEFINE i == CHOOSE i \in DOMAIN Sweeps : Sweeps[i].dim = d
  <2>1. i \in DOMAIN Sweeps
    BY DEF Dims
  <2>2. Sweeps[i].values \in Seq(Int)
    BY <2>1, CallOfScan
  <2> HIDE DEF i
  <2>3. Len(Sweeps[i].values) \in Nat
    BY <2>2
  <2> QED BY <2>3 DEF NumPoints, i
<1> QED BY <1>3, <1>4

(* f is PointsOf of every set of at most n dimensions.                     *)
UpTo(n) == {s \in SUBSET Dims : Cardinality(s) <= n}
Picked(s) == CHOOSE d \in s : TRUE
Unfolds(n, f) ==
  \A s \in UpTo(n) :
    f[s] = IF s = {} THEN 1 ELSE NumPoints(Picked(s)) * f[s \ {Picked(s)}]

LEMMA SmallSets ==
  ASSUME IsFiniteSet(Dims), NEW s \in SUBSET Dims
  PROVE  /\ IsFiniteSet(s) /\ Cardinality(s) \in Nat
         /\ Cardinality(s) <= Cardinality(Dims) /\ Cardinality(Dims) \in Nat
         /\ Cardinality(s) = 0 => s = {}
         /\ s # {} => /\ Picked(s) \in s
                      /\ s \ {Picked(s)} \in SUBSET Dims
                      /\ Cardinality(s \ {Picked(s)}) = Cardinality(s) - 1
                      /\ Cardinality(s) > 0
<1>1. /\ IsFiniteSet(s) /\ Cardinality(s) \in Nat
      /\ Cardinality(s) <= Cardinality(Dims) /\ Cardinality(Dims) \in Nat
  BY FS_Subset, FS_CardinalityType
<1>2. Cardinality(s) = 0 <=> s = {}
  BY <1>1, FS_EmptySet
<1>3. ASSUME s # {}
      PROVE  /\ Picked(s) \in s
             /\ s \ {Picked(s)} \in SUBSET Dims
             /\ Cardinality(s \ {Picked(s)}) = Cardinality(s) - 1
  <2>1. Picked(s) \in s
    BY <1>3 DEF Picked
  <2> QED BY <1>1, <2>1, FS_RemoveElement
<1> QED BY <1>1, <1>2, <1>3

LEMMA OneMore ==
  ASSUME scan \in Scans, NEW n \in Nat,
         NEW f \in [UpTo(n) -> Nat], Unfolds(n, f)
  PROVE  \E g \in [UpTo(n + 1) -> Nat] : Unfolds(n + 1, g)
<1> DEFINE more(s) == NumPoints(Picked(s)) * f[s \ {Picked(s)}]
           g == [s \in UpTo(n + 1) |->
                   IF Cardinality(s) <= n THEN f[s] ELSE more(s)]
<1>1. IsFiniteSet(Dims) /\ \A d \in Dims : NumPoints(d) \in Nat
  BY FiniteGrid
<1>2. ASSUME NEW s \in UpTo(n + 1)
      PROVE  /\ Cardinality(s) <= n => s \in UpTo(n)
             /\ ~(Cardinality(s) <= n) => s # {}
             /\ s # {} => /\ s \ {Picked(s)} \in UpTo(n)
                          /\ s \ {Picked(s)} \in UpTo(n + 1)
                          /\ Cardinality(s \ {Picked(s)}) <= n
                          /\ Picked(s) \in Dims
  <2>1. s \in SUBSET Dims /\ Cardinality(s) <= n + 1
    BY DEF UpTo
  <2>2. Cardinality(s) \in Nat /\ (s = {} => Cardinality(s) = 0)
    BY <1>1, <2>1, SmallSets, FS_EmptySet
  <2>3. Cardinality(s) <= n => s \in UpTo(n)
    BY <2>1 DEF UpTo
  <2>4. ASSUME s # {}
        PROVE  /\ s \ {Picked(s)} \in UpTo(n)
               /\ s \ {Picked(s)} \in UpTo(n + 1)
               /\ Cardinality(s \ {Picked(s)}) <= n
               /\ Picked(s) \in Dims
    <3>1. /\ Picked(s) \in s /\ s \ {Picked(s)} \in SUBSET Dims
          /\ Cardinality(s \ {Picked(s)}) = Cardinality(s) - 1
      BY <1>1, <2>1, <2>4, SmallSets
    <3>2. /\ Cardinality(s \ {Picked(s)}) <= n
          /\ Cardinality(s \ {Picked(s)}) <= n + 1
      BY <2>1, <2>2, <3>1
    <3> QED BY <2>1, <3>1, <3>2 DEF UpTo
  <2> QED BY <2>2, <2>3, <2>4
<1>3. ASSUME NEW s \in UpTo(n + 1)
      PROVE  g[s] \in Nat
  <2>1. CASE Cardinality(s) <= n
    BY <1>2, <2>1
  <2>2. CASE ~(Cardinality(s) <= n)
    <3>1. f[s \ {Picked(s)}] \in Nat /\ NumPoints(Picked(s)) \in Nat
      BY <1>1, <1>2, <2>2
    <3>2. more(s) \in Nat
      BY <3>1
    <3> QED BY <2>2, <3>2
  <2> QED BY <2>1, <2>2
<1>4. ASSUME NEW s \in UpTo(n + 1)
      PROVE  g[s] = IF s = {} THEN 1
                    ELSE NumPoints(Picked(s)) * g[s \ {Picked(s)}]
  <2>1. s # {} => g[s \ {Picked(s)}] = f[s \ {Picked(s)}]
    BY <1>2
  <2>2. CASE Cardinality(s) <= n
    <3>1. g[s] = f[s] /\ s \in UpTo(n)
      BY <1>2, <2>2
    <3>2. f[s] = IF s = {} THEN 1 ELSE more(s)
      BY <3>1 DEF Unfolds
    <3> QED BY <2>1, <3>1, <3>2
  <2>3. CASE ~(Cardinality(s) <= n)
    BY <1>2, <2>1, <2>3
  <2> QED BY <2>2, <2>3
<1> HIDE DEF g
<1>5. g \in [UpTo(n + 1) -> Nat]
  <2>1. g = [s \in UpTo(n + 1) |-> g[s]]
    BY DEF g
  <2> QED BY <1>3, <2>1
<1> QED BY <1>4, <1>5 DEF Unfolds

LEMMA EveryFold ==
  ASSUME scan \in Scans, NEW n \in Nat
  PROVE  \E f \in [UpTo(n) -> Nat] : Unfolds(n, f)
<1> DEFINE Lacking == {m \in Nat : ~ \E f \in [UpTo(m) -> Nat] : Unfolds(m, f)}
<1> SUFFICES ASSUME Lacking # {} PROVE FALSE
  OBVIOUS
<1>1. PICK m \in Lacking : \A o \in Lacking : m <= o
  <2>1. Lacking \in SUBSET Nat
    OBVIOUS
  <2> HIDE DEF Lacking
  <2> QED BY <2>1, LeastOf
<1>2. m \in Nat /\ ~ \E f \in [UpTo(m) -> Nat] : Unfolds(m, f)
  OBVIOUS
<1>3. CASE m = 0
  <2> DEFINE f == [s \in UpTo(0) |-> 1]
  <2>1. ASSUME NEW s \in UpTo(0)
        PROVE  s = {}
    <3>1. s \in SUBSET Dims /\ Cardinality(s) <= 0
      BY DEF UpTo
    <3>2. Cardinality(s) \in Nat /\ (Cardinality(s) = 0 => s = {})
      BY <3>1, FiniteGrid, SmallSets
    <3> QED BY <3>1, <3>2
  <2>2. f \in [UpTo(0) -> Nat] /\ Unfolds(0, f)
    BY <2>1 DEF Unfolds
  <2> QED BY <1>2, <1>3, <2>2
<1>4. CASE m # 0
  <2>1. m - 1 \in Nat /\ (m - 1) + 1 = m /\ ~(m <= m - 1)
    BY <1>2, <1>4
  <2>2. PICK f \in [UpTo(m - 1) -> Nat] : Unfolds(m - 1, f)
    <3>1. m - 1 \notin Lacking
      BY <1>1, <2>1
    <3> QED BY <2>1, <3>1
  <2>3. \E g \in [UpTo((m - 1) + 1) -> Nat] : Unfolds((m - 1) + 1, g)
    BY <2>1, <2>2, OneMore
  <2> QED BY <1>2, <2>1, <2>3
<1> QED BY <1>3, <1>4

LEMMA PointsAreNat ==
  ASSUME scan \in Scans
  PROVE  Points \in Nat
<1>1. IsFiniteSet(Dims) /\ \A d \in Dims : NumPoints(d) \in Nat
  BY FiniteGrid
<1>2. PICK f : f = Times(Dims, f)
  <2> DEFINE n == Cardinality(Dims)
  <2>1. n \in Nat /\ UpTo(n) = SUBSET Dims
    BY <1>1, SmallSets, FS_CardinalityType DEF UpTo
  <2>2. PICK f \in [SUBSET Dims -> Nat] : Unfolds(n, f)
    <3> HIDE DEF n
    <3>1. \E f \in [UpTo(n) -> Nat] : Unfolds(n, f)
      BY <2>1, EveryFold
    <3> QED BY <2>1, <3>1
  <2>3. \A s \in SUBSET Dims : s # {} => Picked(s) \in Dims
    BY DEF Picked
  <2>4. \A s \in SUBSET Dims :
          f[s] = IF s = {} THEN 1
                 ELSE [d \in Dims |-> NumPoints(d)][Picked(s)]
                        * f[s \ {Picked(s)}]
    BY <2>1, <2>2, <2>3 DEF Unfolds
  <2>5. f = [s \in SUBSET Dims |-> f[s]]
    BY <2>2
  <2>6. f = Times(Dims, f)
    BY <2>4, <2>5 DEF Times, Picked
  <2> QED BY <2>6
<1>3. PICK g : g = Times(Dims, g) /\ PointsOf(Dims) = g[Dims]
  BY <1>2, Folded
<1>4. \A s \in SUBSET Dims :
        g[s] = IF s = {} THEN 1
               ELSE [d \in Dims |-> NumPoints(d)][Picked(s)]
                      * g[s \ {Picked(s)}]
  BY <1>3 DEF Times, Picked
<1> DEFINE Wrong == {n \in Nat : \E s \in SUBSET Dims :
                                   Cardinality(s) = n /\ g[s] \notin Nat}
<1>5. Wrong = {}
  <2> SUFFICES ASSUME Wrong # {} PROVE FALSE
    OBVIOUS
  <2>1. PICK n \in Wrong : \A o \in Wrong : n <= o
    <3>1. Wrong \in SUBSET Nat
      OBVIOUS
    <3> HIDE DEF Wrong
    <3> QED BY <3>1, LeastOf
  <2>2. PICK s \in SUBSET Dims : Cardinality(s) = n /\ g[s] \notin Nat
    OBVIOUS
  <2>3. s # {}
    <3>1. g[{}] = 1
      BY <1>4
    <3> QED BY <2>2, <3>1
  <2>4. /\ Picked(s) \in Dims /\ s \ {Picked(s)} \in SUBSET Dims
        /\ Cardinality(s \ {Picked(s)}) = n - 1 /\ n - 1 \in Nat
    <3> HIDE DEF Wrong
    <3> QED BY <1>1, <2>2, <2>3, SmallSets
  <2>5. g[s \ {Picked(s)}] \in Nat
    <3>1. n - 1 \notin Wrong
      BY <2>1, <2>4
    <3> QED BY <2>4, <3>1
  <2>6. g[s] = NumPoints(Picked(s)) * g[s \ {Picked(s)}]
    BY <1>4, <2>3, <2>4
  <2> QED BY <1>1, <2>2, <2>4, <2>5, <2>6
<1>6. Cardinality(Dims) \in Nat
  BY <1>1, FS_CardinalityType
<1>7. g[Dims] \in Nat
  BY <1>5, <1>6
<1> QED BY <1>3, <1>7 DEF Points

-----------------------------------------------------------------------------
(* No step leaves the grid.                                                *)

(* A point is worked on only if the grid has it, and a dataset has a row   *)
(* for each point at most.                                                 *)
WithinGrid ==
  /\ k <= Points
  /\ pc \in {"set", "record", "asked"} => k < Points
  /\ \A g \in Groups : Len(rows[g]) <= Points

LEMMA StaysWithin ==
  ASSUME WithinGrid, scan' = scan, k' = k, rows' = rows,
         pc' \in {"set", "record", "asked"} => k < Points
  PROVE  WithinGrid'
BY SamePoints DEF WithinGrid

LEMMA WithinStart == Init => WithinGrid
<1> SUFFICES ASSUME Init PROVE WithinGrid
  OBVIOUS
<1>1. Points \in Nat /\ k = 0 /\ pc = "enter"
  BY PointsAreNat DEF Init
<1>2. \A g \in Groups : Len(rows[g]) = 0
  BY DEF Init
<1> QED BY <1>1, <1>2 DEF WithinGrid

LEMMA WithinRecord ==
  ASSUME IInv, WithinGrid, Record
  PROVE  WithinGrid'
<1>1. PICK g \in Groups : AddResult(g)
  BY DEF Record
<1>2. /\ pc = "record" /\ g \notin Served
      /\ rows' = [rows EXCEPT ![g] =
           Append(@, [setpoints |-> results, values |-> measured])]
      /\ scan' = scan /\ k' = k
  BY <1>1 DEF AddResult, Record
<1>3. Points \in Nat /\ k \in Nat /\ scan.groups \in Nat /\ k < Points
  BY <1>2, PointsAreNat, CallOfScan DEF IInv, Formed, WithinGrid
<1>4. PICK m \in 0..scan.groups : rows = Filled(m, k)
  BY DEF IInv, RowsInv
<1>5. Points' = Points /\ Groups' = Groups
  BY <1>2, SamePoints
<1>6. rows[g] = Grid(k) /\ rows' = [rows EXCEPT ![g] = Append(Grid(k), Row(k))]
  <2>1. results = At(k) /\ measured = At(k)
    BY <1>2 DEF IInv, PointInv
  <2>2. ~(Len(rows[g]) > k)
    BY <1>2 DEF Served
  <2>3. /\ rows[g] = Grid(IF g <= m THEN k + 1 ELSE k)
        /\ Len(rows[g]) = IF g <= m THEN k + 1 ELSE k
    BY <1>3, <1>4, Rows
  <2>4. ~(g <= m)
    BY <1>3, <2>2, <2>3
  <2> QED BY <1>2, <2>1, <2>3, <2>4 DEF Row
<1>7. Len(rows'[g]) = k + 1
  <2>1. g \in DOMAIN rows
    BY <1>4 DEF Filled
  <2>2. rows'[g] = Grid(k + 1)
    BY <1>3, <1>6, <2>1, GridGrows
  <2> QED BY <1>3, <2>2, GridGrows
<1>8. \A h \in Groups : h # g => rows'[h] = rows[h]
  BY <1>4, <1>6 DEF Filled
<1>9. \A h \in Groups : Len(rows'[h]) <= Points
  BY <1>3, <1>7, <1>8 DEF WithinGrid
<1> QED BY <1>2, <1>3, <1>5, <1>9 DEF WithinGrid

LEMMA WithinStep ==
  ASSUME IInv, WithinGrid, [Next]_vars
  PROVE  WithinGrid'
<1>1. Points \in Nat /\ k \in Nat
  BY PointsAreNat DEF IInv, Formed
<1>2. CASE Enter \/ EnterBreaksOff
  BY <1>2, StaysWithin DEF Enter, EnterBreaksOff
<1>3. CASE NextPoint
  BY <1>3, StaysWithin DEF NextPoint, data
<1>4. CASE SetEvent \/ Measure
  BY <1>4, StaysWithin DEF SetEvent, Measure, data, WithinGrid
<1>5. CASE Record
  BY <1>5, WithinRecord
<1>6. CASE Break \/ BodyRaises
  BY <1>6, StaysWithin DEF Break, BodyRaises, data
<1>7. CASE GoOn
  <2>1. pc = "asked" /\ k' = k + 1 /\ pc' = "point" /\ scan' = scan /\ rows' = rows
    BY <1>7 DEF GoOn, data
  <2>2. Points' = Points /\ Groups' = Groups
    BY <2>1, SamePoints
  <2>3. k' <= Points
    BY <1>1, <2>1 DEF WithinGrid
  <2> QED BY <2>1, <2>2, <2>3 DEF WithinGrid
<1>8. CASE Unwind \/ End
  BY <1>8, StaysWithin DEF Unwind, End, data
<1>9. CASE UNCHANGED vars
  BY <1>9, StaysWithin DEF vars, data, WithinGrid
<1> QED BY <1>2, <1>3, <1>4, <1>5, <1>6, <1>7, <1>8, <1>9 DEF Next

(* The datasets that are told of an exception are those of the scan.       *)
OfTheScan == marked \cup broken \subseteq Groups

LEMMA OfTheScanStep ==
  ASSUME IInv, OfTheScan, [Next]_vars
  PROVE  OfTheScan'
<1>1. Groups' = Groups
  <2>1. scan' = scan
    BY DEF Next, Enter, EnterBreaksOff, NextPoint, SetEvent, Measure, Record,
           Break, GoOn, BodyRaises, Unwind, End, vars, data
  <2> QED BY <2>1, SamePoints
<1>2. scan.groups \in Nat
  BY CallOfScan DEF IInv, Formed
<1>3. PICK d \in 0..scan.groups :
        stack = [i \in 1..d |-> i] /\ (pc = "enter" => d < scan.groups)
  BY DEF IInv, Nested
<1>4. Len(stack) = d /\ d \in Nat
  BY <1>3
<1>5. CASE EnterBreaksOff
  <2>1. Len(stack) + 1 \in Groups
    BY <1>2, <1>3, <1>4, <1>5 DEF EnterBreaksOff, Groups
  <2> QED BY <1>1, <1>5, <2>1 DEF EnterBreaksOff, OfTheScan
<1>6. CASE Unwind
  <2>1. stack # <<>>
    BY <1>6 DEF Unwind
  <2>2. d # 0
    BY <1>3, <2>1
  <2>3. Last(stack) \in Groups
    BY <1>2, <1>3, <1>4, <2>2 DEF Last, Groups
  <2> QED BY <1>1, <1>6, <2>3
          DEF Unwind, Leave, LeaveBreaksOff, OfTheScan
<1>7. CASE /\ marked' = marked /\ broken' = broken
  BY <1>1, <1>7 DEF OfTheScan
<1> QED BY <1>5, <1>6, <1>7
        DEF Next, Enter, NextPoint, SetEvent, Measure, Record, Break, GoOn,
            BodyRaises, End, vars, data

(* What a reader of a completed dataset relies on.                         *)
WholeUnlessMarked ==
  \A g \in Groups :
    status[g] = "completed" /\ g \notin marked => rows[g] = Grid(Points)

LEMMA Types ==
  ASSUME IInv, WithinGrid, OfTheScan
  PROVE  TypeOK
<1>1. scan \in Scans /\ k \in Nat /\ Points \in Nat /\ scan.groups \in Nat
  BY PointsAreNat, CallOfScan DEF IInv, Formed
<1>2. k \in 0..Points
  BY <1>1 DEF WithinGrid
<1>3. DOMAIN rows = Groups
  BY DEF IInv, RowsInv, Filled
<1>4. marked \cup broken \subseteq Groups
  BY DEF OfTheScan
<1>5. Range(stack) \subseteq Groups
  BY <1>1 DEF IInv, Nested, Range, Groups
<1>6. exc \in {"none", "break", "error", "interrupt"}
  BY ScansAssumption DEF IInv, Outcome
<1> QED BY <1>1, <1>2, <1>3, <1>4, <1>5, <1>6
        DEF TypeOK, IInv, Formed, Body, Over

LEMMA Whole ==
  ASSUME IInv, WithinGrid
  PROVE  WholeUnlessMarked
<1> SUFFICES ASSUME NEW g \in Groups, status[g] = "completed", g \notin marked
             PROVE  rows[g] = Grid(Points)
  BY DEF WholeUnlessMarked
<1>1. Points \in Nat /\ k \in Nat /\ scan.groups \in Nat
  BY PointsAreNat, CallOfScan DEF IInv, Formed
<1>2. PICK n \in Nat : rows[g] = Grid(n)
  <2>1. PICK m \in 0..scan.groups : rows = Filled(m, k)
    BY DEF IInv, RowsInv
  <2> QED BY <1>1, <2>1, Rows
<1>3. Len(rows[g]) = n
  BY <1>2, GridGrows
<1>4. ~(n < Points) /\ n <= Points
  BY <1>3 DEF IInv, PartialIsMarked, WithinGrid
<1>5. n = Points
  BY <1>1, <1>4
<1> QED BY <1>2, <1>5

(* The scan never leaves its grid, whatever the sweeps.                    *)
THEOREM GridKept == Spec => [](WithinGrid /\ OfTheScan)
<1>1. Init => WithinGrid /\ OfTheScan
  BY WithinStart DEF Init, OfTheScan
<1>2. /\ IInv /\ WithinGrid /\ OfTheScan /\ [Next]_vars
      => WithinGrid' /\ OfTheScan'
  BY WithinStep, OfTheScanStep
<1> QED BY <1>1, <1>2, Invariance, PTL DEF Spec

(* Every variable has its type; the index never passes the last point.     *)
THEOREM TypeCorrect == Spec => []TypeOK
<1>1. IInv /\ WithinGrid /\ OfTheScan => TypeOK
  BY Types
<1> QED BY <1>1, Invariance, GridKept, PTL

(* A completed dataset without measurement_exception is the grid: a row    *)
(* per point, in order, none missing and none twice.                       *)
THEOREM WholeOrMarked == Spec => []WholeUnlessMarked
<1>1. IInv /\ WithinGrid => WholeUnlessMarked
  BY Whole
<1> QED BY <1>1, Invariance, GridKept, PTL
=============================================================================
