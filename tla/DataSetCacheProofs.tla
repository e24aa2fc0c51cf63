------------------------- MODULE DataSetCacheProofs -------------------------
(***************************************************************************)
(* Proofs about DataSetCache: for any trees, any shapes and any bounds.    *)
(***************************************************************************)
EXTENDS DataSetCache, TLAPS, SequenceTheorems

(* Points are handed over, committed and counted in this order.            *)
Counts ==
  /\ \A t \in Trees : rows[t] <= measured[t]
  /\ \A i \in DOMAIN pending, t \in Trees :
       rows[t] <= pending[i][t] /\ pending[i][t] <= measured[t]
  /\ \A i, j \in DOMAIN pending, t \in Trees :
       i <= j => pending[i][t] <= pending[j][t]
  /\ IF pending = <<>> THEN rows = measured
                       ELSE pending[Len(pending)] = measured

(* Nothing is added to a completed run, and only such a run is taken for   *)
(* one.                                                                    *)
Completion ==
  /\ is_completed = completed["own"]
  /\ is_completed => pending = <<>>
  /\ \A h \in Handles : completed[h] \/ loaded[h] => is_completed

(* The load under way has asked for the tree.                              *)
Asked(h, t) == \E i \in DOMAIN non_dependencies :
                 non_dependencies[i] = t /\ i < at[h]

(* How far a load under way will have read the tree.                       *)
ReadTo(h, t) == read_status[h][t] + Len(new_data[h][t])

(* What a load has read continues what was read before, and a load of a    *)
(* completed run reads all there is.                                       *)
Reads ==
  \A h \in Handles, t \in Trees :
    /\ new_data[h][t] = Upto(read_status[h][t], ReadTo(h, t))
    /\ ReadTo(h, t) <= rows[t]
    /\ ~Asked(h, t) => new_data[h][t] = <<>>
    /\ loaded[h] /\ h \notin failed /\ (at[h] = 0 \/ Asked(h, t))
         => ReadTo(h, t) = measured[t]

(* Who fills a cache.                                                      *)
Filling ==
  /\ live["reader"] # "live"
  /\ live["own"] = "live" => in_memory_cache /\ at["own"] = 0
  /\ \A h \in Handles, t \in Trees :
       live[h] = "none" => data[h][t] = <<>> /\ read_status[h][t] = 0
  /\ in_memory_cache /\ live["own"] = "none" /\ "own" \notin failed
       => \A t \in Trees : measured[t] = 0

-----------------------------------------------------------------------------
(* One array d of a tree whose shape has size points, with write status s; *)
(* k points of the tree are known.                                         *)

Holed(d, size) == \E i \in DOMAIN d : i <= size /\ d[i] = Hole

(* How long the array is.                                                  *)
Shaped(d, s, size) ==
  size # 0 /\ d # <<>> =>
    /\ s > 0
    /\ s <= size => Len(d) = size
    /\ s > size => Len(d) = s \/ (Len(d) > s /\ Holed(d, size))

(* Behind what is counted there is nothing.                                *)
Unfilled(d, s, size) ==
  size # 0 /\ d # <<>> /\ s <= size => \A i \in DOMAIN d : i > s => d[i] = Hole

(* Each point is in its place.                                             *)
InPlace(d, k) ==
  \A i \in DOMAIN d : IF i <= k THEN d[i] = i ELSE d[i] \in {i, Hole}

(* The array holds the k points, unless it overflowed.                     *)
Faithful(d, s, k, size) ==
  /\ (d = <<>>) <=> (k = 0)
  /\ size = 0 => Len(d) = k
  /\ size # 0 /\ d # <<>> => s = k
  /\ \/ size # 0 /\ k > size /\ Holed(d, size)
     \/ InPlace(d, k)

(* A load that raised will raise again: one tree has more points than its  *)
(* first chunk may have.                                                   *)
Stuck(h) ==
  \E t \in Trees :
    /\ data[h][t] = <<>>
    /\ shapes[t] # 0
    /\ rows[t] - read_status[h][t] > shapes[t]
    /\ Asked(h, t) => Len(new_data[h][t]) > shapes[t]

Refused(h) == live[h] = "live" /\ h \in failed

Arrays ==
  \A h \in Handles, t \in Trees :
    /\ Shaped(data[h][t], write_status[h][t], shapes[t])
    /\ write_status[h][t] <= Known(h, t)
    /\ ~Refused(h) =>
         Faithful(data[h][t], write_status[h][t], Known(h, t), shapes[t])

NothingBehind ==
  \A h \in Handles :
    \/ \A t \in Trees : Unfilled(data[h][t], write_status[h][t], shapes[t])
    \/ live[h] # "live" /\ h \in failed /\ Stuck(h)

IInv == TypeOK /\ Counts /\ Completion /\ Reads /\ Filling /\ Arrays
          /\ NothingBehind

-----------------------------------------------------------------------------
(* Merging of new points into an array.                                    *)

(* The numbers from + 1 .. to, in their order.                             *)
LEMMA UptoFacts ==
  ASSUME NEW from \in Nat, NEW n \in Nat
  PROVE  /\ Upto(from, from + n) \in Seq(1..(from + n))
         /\ Len(Upto(from, from + n)) = n
         /\ DOMAIN Upto(from, from + n) = 1..n
         /\ \A i \in 1..n : Upto(from, from + n)[i] = from + i
         /\ (Upto(from, from + n) = <<>>) <=> (n = 0)
<1> DEFINE u == Upto(from, from + n)
<1>1. u = [i \in 1..n |-> from + i]
  BY (from + n) - from = n DEF Upto
<1>2. u \in Seq(1..(from + n))
  <2>1. \A i \in 1..n : from + i \in 1..(from + n)
    OBVIOUS
  <2> QED BY <1>1, <2>1, IsASeq
<1>3. Len(u) = n /\ DOMAIN u = 1..n
  BY <1>1, <1>2
<1>4. (u = <<>>) <=> (n = 0)
  BY <1>2, <1>3, EmptySeq
<1> QED BY <1>1, <1>2, <1>3, <1>4

(* Two sequences, one after the other.                                     *)
LEMMA Appended ==
  ASSUME NEW S, NEW old \in Seq(S), NEW new \in Seq(S)
  PROVE  /\ old \o new \in Seq(S)
         /\ Len(old \o new) = Len(old) + Len(new)
         /\ DOMAIN (old \o new) = 1..(Len(old) + Len(new))
         /\ \A i \in 1..Len(old) : (old \o new)[i] = old[i]
         /\ \A i \in 1..(Len(old) + Len(new)) :
              i > Len(old) => (old \o new)[i] = new[i - Len(old)]
         /\ old # <<>> => old \o new # <<>>
<1>1. Len(old) \in Nat /\ Len(new) \in Nat
  OBVIOUS
<1> DEFINE cat == old \o new
<1>2. /\ cat \in Seq(S)
      /\ Len(cat) = Len(old) + Len(new)
      /\ \A i \in 1..(Len(old) + Len(new)) :
           cat[i] = IF i <= Len(old) THEN old[i] ELSE new[i - Len(old)]
  BY ConcatProperties
<1>3. old # <<>> => cat # <<>>
  BY ConcatEqualIffEmpty
<1> HIDE DEF cat
<1>4. DOMAIN cat = 1..(Len(old) + Len(new))
  BY <1>2, LenProperties
<1>5. \A i \in 1..Len(old) : cat[i] = old[i]
  BY <1>1, <1>2
<1>6. \A i \in 1..(Len(old) + Len(new)) :
        i > Len(old) => cat[i] = new[i - Len(old)]
  BY <1>1, <1>2
<1> QED BY <1>2, <1>3, <1>4, <1>5, <1>6 DEF cat

(* What happens to the array when it takes in no points, some as its       *)
(* first, some at its end, or some in place.                               *)
LEMMA MergedCases ==
  ASSUME NEW S, NEW old \in Seq(S), NEW new \in Seq(S), NEW status,
         NEW size \in Nat, Hole \in S,
         Shaped(old, status, size), Fits(old, new, size),
         size # 0 /\ old # <<>> => status \in Nat
  PROVE  \/ new = <<>> /\ Merged(old, status, new, size).data = old
              /\ (old # <<>> => Merged(old, status, new, size).status = status)
         \/ /\ old = <<>> /\ new # <<>> /\ size = 0
            /\ Merged(old, status, new, size) =
                 [data |-> new, status |-> Len(new)]
         \/ /\ old = <<>> /\ new # <<>> /\ size # 0 /\ Len(new) <= size
            /\ Merged(old, status, new, size) =
                 [data |-> [i \in 1..size |-> IF i <= Len(new) THEN new[i]
                                                               ELSE Hole],
                  status |-> Len(new)]
         \/ /\ old # <<>> /\ new # <<>> /\ size = 0
            /\ Merged(old, status, new, size) =
                 [data |-> old \o new, status |-> NoStatus]
         \/ /\ old # <<>> /\ new # <<>> /\ size # 0
            /\ status + Len(new) > Len(old)
            /\ Merged(old, status, new, size) =
                 [data |-> old \o new, status |-> status + Len(new)]
         \/ /\ old # <<>> /\ new # <<>> /\ size # 0
            /\ status + Len(new) <= Len(old)
            /\ Merged(old, status, new, size) =
                 [data |-> [i \in DOMAIN old |->
                              IF i \in (status + 1)..(status + Len(new))
                                THEN new[i - status] ELSE old[i]],
                  status |-> status + Len(new)]
<1>1. CASE old = <<>> /\ new = <<>>
  <2>1. Merged(old, status, new, size) = Created(new, size)
    BY <1>1 DEF Merged
  <2> QED BY <1>1, <2>1 DEF Created
<1>2. CASE old = <<>> /\ new # <<>> /\ size = 0
  BY <1>2 DEF Merged, Created
<1>3. CASE old = <<>> /\ new # <<>> /\ size # 0
  BY <1>3 DEF Merged, Created, Fits
<1>4. CASE old # <<>> /\ new = <<>>
  BY <1>4 DEF Merged
<1>5. CASE old # <<>> /\ new # <<>> /\ size = 0
  BY <1>5 DEF Merged, Inserted
<1>6. CASE old # <<>> /\ new # <<>> /\ size # 0
  <2>1. status # NoStatus /\ status \in Nat
    BY <1>6 DEF NoStatus
  <2>2. Merged(old, status, new, size) = Inserted(old, status, new)
    BY <1>6 DEF Merged
  <2>3. CASE status + Len(new) > Len(old)
    BY <1>6, <2>1, <2>2, <2>3 DEF Inserted
  <2>4. CASE ~(status + Len(new) > Len(old))
    <3>1. status + Len(new) <= Len(old)
      BY <2>1, <2>4
    <3> QED BY <1>6, <2>1, <2>2, <2>4, <3>1 DEF Inserted
  <2> QED BY <2>3, <2>4
<1> QED BY <1>1, <1>2, <1>3, <1>4, <1>5, <1>6

(* The new points of Upto(k, k + n), n of them, come where they belong.    *)
LEMMA MergedFaithful ==
  ASSUME NEW P \in Nat, NEW old \in Seq(0..P), NEW k \in Nat, NEW n \in Nat,
         NEW status, NEW size \in Nat, k + n <= P,
         size # 0 /\ old # <<>> => status \in Nat,
         Shaped(old, status, size), Unfilled(old, status, size),
         Faithful(old, status, k, size), Fits(old, Upto(k, k + n), size)
  PROVE  LET merged == Merged(old, status, Upto(k, k + n), size)
         IN Faithful(merged.data, merged.status, k + n, size)
<1> DEFINE new == Upto(k, k + n)
           merged == Merged(old, status, new, size)
<1>1. /\ new \in Seq(0..P) /\ Len(new) = n /\ DOMAIN new = 1..n
      /\ \A i \in 1..n : new[i] = k + i
      /\ (new = <<>>) <=> (n = 0)
  <2>1. Seq(1..(k + n)) \subseteq Seq(0..P)
    BY SeqMonotonic
  <2> QED BY <2>1, UptoFacts
<1>2. Hole \in 0..P /\ Hole = 0
  BY DEF Hole
<1>3. Len(old) \in Nat /\ DOMAIN old = 1..Len(old) /\ (old = <<>> <=> Len(old) = 0)
  BY EmptySeq
<1>4. (k = 0) <=> (old = <<>>)
  BY DEF Faithful
<1> HIDE DEF new
<1> SUFFICES Faithful(merged.data, merged.status, k + n, size)
  BY DEF new
<1>5. CASE new = <<>>
  <2>1. n = 0 /\ k + n = k /\ merged.data = old /\ (old # <<>> => merged.status = status)
    BY <1>1, <1>2, <1>5, MergedCases DEF new
  <2> QED BY <2>1 DEF Faithful
<1>6. CASE old = <<>> /\ new # <<>> /\ size = 0
  <2>1. merged = [data |-> new, status |-> Len(new)]
    BY <1>6 DEF Merged, Created
  <2>2. k = 0 /\ n > 0 /\ k + n = n
    BY <1>1, <1>4, <1>6
  <2>3. InPlace(new, n)
    BY <1>1, <2>2 DEF InPlace
  <2> QED BY <1>1, <1>6, <2>1, <2>2, <2>3 DEF Faithful
<1>7. CASE old = <<>> /\ new # <<>> /\ size # 0
  <2> DEFINE d == [i \in 1..size |-> IF i <= Len(new) THEN new[i] ELSE Hole]
  <2>1. merged = [data |-> d, status |-> Len(new)] /\ Len(new) <= size
    BY <1>7 DEF Merged, Created, Fits, new
  <2>2. k = 0 /\ n > 0 /\ k + n = n
    BY <1>1, <1>4, <1>7
  <2>3. d \in Seq(0..P) /\ DOMAIN d = 1..size /\ Len(d) = size
    <3>1. \A i \in 1..size : (IF i <= Len(new) THEN new[i] ELSE Hole) \in 0..P
      BY <1>1, <1>2, ElementOfSeq
    <3> QED BY <3>1, IsASeq
  <2>4. InPlace(d, n)
    BY <1>1, <2>2, <2>3 DEF InPlace
  <2>5. d # <<>>
    BY <1>7, <2>3
  <2> QED BY <1>1, <1>7, <2>1, <2>2, <2>4, <2>5 DEF Faithful
<1> DEFINE cat == old \o new
<1>10. /\ Len(cat) = Len(old) + n /\ DOMAIN cat = 1..(Len(old) + n)
       /\ \A i \in 1..Len(old) : cat[i] = old[i]
       /\ \A i \in 1..(Len(old) + n) : i > Len(old) => cat[i] = new[i - Len(old)]
       /\ old # <<>> => cat # <<>>
  <2>1. /\ Len(cat) = Len(old) + Len(new)
        /\ DOMAIN cat = 1..(Len(old) + Len(new))
        /\ \A i \in 1..Len(old) : cat[i] = old[i]
        /\ \A i \in 1..(Len(old) + Len(new)) :
             i > Len(old) => cat[i] = new[i - Len(old)]
        /\ old # <<>> => cat # <<>>
    <3>1. new \in Seq(0..P)
      BY <1>1
    <3>2. old \in Seq(0..P)
      BY <1>1
    <3> HIDE DEF new
    <3> QED BY <3>1, <3>2, Appended, Zenon DEF cat
  <2>2. Len(new) = n
    BY <1>1
  <2> HIDE DEF cat
  <2> QED BY <2>1, <2>2
<1>11. Len(old) = k /\ InPlace(old, k) => InPlace(cat, k + n)
  <2> SUFFICES ASSUME Len(old) = k, InPlace(old, k), NEW i \in 1..(k + n)
               PROVE  cat[i] = i
    BY <1>10 DEF InPlace
  <2> HIDE DEF cat
  <2>1. CASE i <= k
    <3>1. i \in 1..Len(old) /\ i \in DOMAIN old
      BY <1>3, <2>1
    <3> QED BY <1>10, <2>1, <3>1 DEF InPlace
  <2>2. CASE ~(i <= k)
    <3>1. i - k \in 1..n /\ i > Len(old) /\ i \in 1..(Len(old) + n)
      BY <2>2
    <3>2. cat[i] = new[i - k]
      BY <1>10, <3>1
    <3>3. new[i - k] = k + (i - k)
      BY <1>1, <3>1
    <3> QED BY <3>2, <3>3
  <2> QED BY <2>1, <2>2
<1>8. CASE old # <<>> /\ new # <<>> /\ size = 0
  <2>1. merged = [data |-> cat, status |-> NoStatus]
    BY <1>8 DEF Merged, Inserted
  <2> HIDE DEF cat
  <2>2. Len(old) = k /\ InPlace(old, k)
    BY <1>8 DEF Faithful
  <2>3. cat # <<>> /\ k + n # 0 /\ Len(cat) = k + n
    BY <1>3, <1>8, <1>10, <2>2
  <2> QED BY <1>8, <1>11, <2>1, <2>2, <2>3 DEF Faithful
<1>9. CASE old # <<>> /\ new # <<>> /\ size # 0
  <2>1. status = k /\ k > 0 /\ n > 0 /\ k + n # 0
    BY <1>1, <1>4, <1>9 DEF Faithful
  <2>0. status # NoStatus
    BY <2>1 DEF NoStatus
  <2>2. CASE k + n > Len(old)
    <3>1. merged = [data |-> cat, status |-> k + n]
      BY <1>1, <1>9, <2>0, <2>1, <2>2 DEF Merged, Inserted
    <3> HIDE DEF cat
    <3>2. cat # <<>>
      BY <1>9, <1>10
    <3>3. CASE Holed(old, size) /\ k + n > size
      <4>1. PICK i \in DOMAIN old : i <= size /\ old[i] = Hole
        BY <3>3 DEF Holed
      <4>2. i \in DOMAIN cat /\ cat[i] = Hole
        BY <1>3, <1>10, <4>1
      <4>3. Holed(cat, size)
        BY <4>1, <4>2 DEF Holed
      <4> QED BY <1>9, <2>1, <3>1, <3>2, <3>3, <4>3 DEF Faithful
    <3>4. CASE k < size
      <4>1. Len(old) = size
        BY <1>9, <2>1, <3>4 DEF Shaped
      <4>2. k + 1 \in DOMAIN old /\ k + 1 > k
        BY <1>3, <3>4, <4>1
      <4>3. old[k + 1] = Hole
        BY <1>9, <2>1, <3>4, <4>2 DEF Unfilled
      <4>4. Holed(old, size) /\ k + n > size
        BY <2>2, <3>4, <4>1, <4>2, <4>3 DEF Holed
      <4> QED BY <3>3, <4>4
    <3>5. CASE k >= size /\ ~Holed(old, size)
      <4>1. Len(old) = k
        BY <1>9, <2>1, <3>5 DEF Shaped
      <4>2. InPlace(old, k)
        BY <3>5 DEF Faithful
      <4> QED BY <1>9, <1>11, <2>1, <3>1, <3>2, <4>1, <4>2 DEF Faithful
    <3> QED BY <2>1, <2>2, <3>3, <3>4, <3>5
  <2>3. CASE ~(k + n > Len(old))
    <3> DEFINE d == [i \in DOMAIN old |->
                       IF i \in (k + 1)..(k + n) THEN new[i - k] ELSE old[i]]
    <3>1. k + n <= Len(old)
      BY <1>3, <2>3
    <3>2. merged = [data |-> d, status |-> k + n]
      BY <1>1, <1>9, <2>0, <2>1, <2>3 DEF Merged, Inserted
    <3>3. DOMAIN d = DOMAIN old /\ d # <<>>
      BY <1>3, <1>9
    <3>4. CASE size # 0 /\ k > size /\ Holed(old, size)
      <4>1. Holed(d, size) /\ k + n > size
        BY <1>3, <3>3, <3>4 DEF Holed
      <4> QED BY <1>9, <2>1, <3>2, <3>3, <4>1 DEF Faithful
    <3>5. CASE InPlace(old, k)
      <4>1. \A i \in DOMAIN d :
              IF i <= k + n THEN d[i] = i ELSE d[i] \in {i, Hole}
        <5> SUFFICES ASSUME NEW i \in DOMAIN d
                     PROVE  IF i <= k + n THEN d[i] = i ELSE d[i] \in {i, Hole}
          OBVIOUS
        <5>0. i \in Nat /\ i >= 1
          BY <1>3, <3>3
        <5>1. CASE i <= k
          BY <3>3, <3>5, <5>0, <5>1 DEF InPlace
        <5>2. CASE k < i /\ i <= k + n
          <6>1. i - k \in 1..n /\ i \in (k + 1)..(k + n)
            BY <5>0, <5>2
          <6>2. d[i] = new[i - k]
            BY <3>3, <6>1
          <6> QED BY <1>1, <5>0, <5>2, <6>1, <6>2
        <5>3. CASE i > k + n
          BY <3>3, <3>5, <5>0, <5>3 DEF InPlace
        <5> QED BY <5>0, <5>1, <5>2, <5>3
      <4>2. InPlace(d, k + n)
        BY <4>1 DEF InPlace
      <4> QED BY <1>9, <2>1, <3>2, <3>3, <4>2 DEF Faithful
    <3> QED BY <3>4, <3>5 DEF Faithful
  <2> QED BY <2>2, <2>3
<1> QED BY <1>5, <1>6, <1>7, <1>8, <1>9

(* Merging leaves an array as long as it must be, and unfilled behind the  *)
(* points that are counted; what is counted grows.                         *)
LEMMA MergedShaped ==
  ASSUME NEW S, Hole \in S, NEW old \in Seq(S), NEW new \in Seq(S),
         NEW status, NEW size \in Nat,
         size # 0 /\ old # <<>> => status \in Nat,
         Shaped(old, status, size), Unfilled(old, status, size),
         Fits(old, new, size)
  PROVE  LET merged == Merged(old, status, new, size)
         IN /\ Shaped(merged.data, merged.status, size)
            /\ Unfilled(merged.data, merged.status, size)
<1> DEFINE merged == Merged(old, status, new, size)
           n == Len(new)
           m == Len(old)
<1>0. n = Len(new)
  OBVIOUS
<1>1. n \in Nat /\ DOMAIN new = 1..n /\ (new = <<>> <=> n = 0)
  BY EmptySeq
<1> HIDE DEF n
<1>2. m = Len(old)
  OBVIOUS
<1>3. m \in Nat /\ DOMAIN old = 1..m /\ (old = <<>> <=> m = 0)
  BY EmptySeq
<1> HIDE DEF m
<1> SUFFICES Shaped(merged.data, merged.status, size)
               /\ Unfilled(merged.data, merged.status, size)
  OBVIOUS
<1>4. CASE size = 0
  BY <1>4 DEF Shaped, Unfilled
<1>5. CASE new = <<>> /\ size # 0
  <2>1. merged.data = old /\ (old # <<>> => merged.status = status)
    BY <1>5 DEF Merged, Created
  <2> QED BY <2>1 DEF Shaped, Unfilled
<1>6. CASE old = <<>> /\ new # <<>> /\ size # 0
  <2> DEFINE d == [i \in 1..size |-> IF i <= n THEN new[i] ELSE Hole]
  <2>1. merged = [data |-> d, status |-> n] /\ n <= size
    BY <1>0, <1>6 DEF Merged, Created, Fits
  <2>2. n > 0
    BY <1>1, <1>6
  <2>3. d \in Seq(S) /\ DOMAIN d = 1..size /\ Len(d) = size
    <3>1. \A i \in 1..size : (IF i <= n THEN new[i] ELSE Hole) \in S
      BY <1>0, <1>1, ElementOfSeq
    <3> QED BY <3>1, IsASeq
  <2>4. \A i \in DOMAIN d : i > n => d[i] = Hole
    BY <1>1, <2>3
  <2> QED BY <1>1, <2>1, <2>2, <2>3, <2>4 DEF Shaped, Unfilled
<1>7. CASE old # <<>> /\ new # <<>> /\ size # 0
  <2>1. status > 0 /\ status \in Nat /\ n > 0 /\ status # NoStatus
    BY <1>1, <1>7 DEF Shaped, NoStatus
  <2>4. /\ status <= size => m = size
        /\ status > size => m = status \/ (m > status /\ Holed(old, size))
    BY <1>2, <1>7 DEF Shaped
  <2>5. status <= size => \A i \in 1..m : i > status => old[i] = Hole
    BY <1>3, <1>7 DEF Unfilled
  <2>2. CASE status + n > m
    <3> DEFINE cat == old \o new
    <3>1. merged = [data |-> cat, status |-> status + n]
      BY <1>7, <2>1, <2>2 DEF Merged, Inserted, n, m
    <3>2. /\ Len(cat) = m + n /\ DOMAIN cat = 1..(m + n)
          /\ \A i \in 1..m : cat[i] = old[i]
          /\ cat # <<>>
      BY <1>0, <1>2, <1>3, <1>7, Appended
    <3> HIDE DEF cat
    <3>3. status + n > size
      BY <1>1, <1>3, <2>1, <2>2, <2>4
    <3>4. Len(cat) = status + n \/ (Len(cat) > status + n /\ Holed(cat, size))
      <4>0. ASSUME Holed(old, size) PROVE Holed(cat, size)
        <5>1. PICK i \in DOMAIN old : i <= size /\ old[i] = Hole
          BY <4>0 DEF Holed
        <5>2. i \in DOMAIN cat /\ cat[i] = Hole
          BY <1>1, <1>3, <3>2, <5>1
        <5> QED BY <5>1, <5>2 DEF Holed
      <4>1. CASE m = status
        BY <1>1, <3>2, <4>1
      <4>2. CASE status < size
        <5>1. m = size /\ status + 1 \in DOMAIN old /\ status + 1 > status
          BY <1>3, <2>1, <2>4, <4>2
        <5>2. old[status + 1] = Hole
          BY <1>3, <2>1, <2>5, <4>2, <5>1
        <5>3. status + 1 <= size
          BY <2>1, <4>2
        <5>4. Holed(old, size)
          BY <5>1, <5>2, <5>3 DEF Holed
        <5> QED BY <1>1, <1>3, <2>1, <3>2, <4>0, <4>2, <5>1, <5>4
      <4>3. CASE m # status /\ status >= size
        <5>1. m > status /\ Holed(old, size)
          BY <2>1, <2>4, <4>3
        <5> QED BY <1>1, <1>3, <2>1, <3>2, <4>0, <5>1
      <4> QED BY <2>1, <4>1, <4>2, <4>3
    <3>5. ~(status + n <= size)
      BY <1>1, <2>1, <3>3
    <3> QED BY <1>1, <2>1, <3>1, <3>3, <3>4, <3>5 DEF Shaped, Unfilled
  <2>3. CASE ~(status + n > m)
    <3> DEFINE d == [i \in DOMAIN old |->
                       IF i \in (status + 1)..(status + n) THEN new[i - status]
                                                           ELSE old[i]]
    <3>1. merged = [data |-> d, status |-> status + n]
      BY <1>7, <2>1, <2>3 DEF Merged, Inserted, n, m
    <3>2. DOMAIN d = 1..m /\ status + n <= m /\ d # <<>>
      <4>1. DOMAIN d = DOMAIN old /\ 1 \in DOMAIN old
        BY <1>3, <1>7
      <4>2. d # <<>>
        BY <4>1
      <4>3. status + n <= m
        BY <1>1, <1>3, <2>1, <2>3
      <4> HIDE DEF d
      <4> QED BY <1>3, <4>1, <4>2, <4>3
    <3>3. Len(d) = m
      <4>1. \A i \in 1..m :
              (IF i \in (status + 1)..(status + n) THEN new[i - status]
                                                   ELSE old[i]) \in S
        <5> SUFFICES ASSUME NEW i \in 1..m
                     PROVE  /\ i \in (status + 1)..(status + n)
                                 => new[i - status] \in S
                            /\ old[i] \in S
          OBVIOUS
        <5>1. i \in (status + 1)..(status + n) => i - status \in 1..n
          BY <1>1, <2>1
        <5> QED BY <1>0, <1>2, <5>1, ElementOfSeq
      <4>2. d \in Seq(S)
        BY <1>3, <4>1, IsASeq
      <4> QED BY <1>2, <1>3, <3>2, <4>2, LenProperties
    <3> HIDE DEF d
    <3>4. \A i \in DOMAIN old : i <= status \/ i > status + n => d[i] = old[i]
      BY <1>1, <1>3, <2>1 DEF d
    <3>5. CASE status <= size
      <4>1. m = size
        BY <2>4, <3>5
      <4>2. \A i \in DOMAIN d : i > status + n => d[i] = Hole
        <5> SUFFICES ASSUME NEW i \in DOMAIN d, i > status + n PROVE d[i] = Hole
          OBVIOUS
        <5>1. i \in DOMAIN old /\ i > status
          BY <1>1, <1>3, <2>1, <3>2
        <5>2. old[i] = Hole
          BY <1>3, <2>5, <3>5, <5>1
        <5> QED BY <3>4, <5>1, <5>2
      <4> QED BY <1>1, <2>1, <3>1, <3>2, <3>3, <4>1, <4>2 DEF Shaped, Unfilled
    <3>6. CASE ~(status <= size)
      <4>1. m > status /\ Holed(old, size)
        BY <1>1, <2>1, <2>4, <3>2, <3>6
      <4>2. PICK i \in DOMAIN old : i <= size /\ old[i] = Hole
        BY <4>1 DEF Holed
      <4>3. i \in DOMAIN d /\ d[i] = Hole
        BY <1>3, <2>1, <3>2, <3>4, <3>6, <4>2
      <4>4. Holed(d, size)
        BY <4>2, <4>3 DEF Holed
      <4>5. status + n > size /\ ~(status + n <= size) /\ status + n > 0
        BY <1>1, <2>1, <3>6
      <4>6. Len(d) = status + n \/ Len(d) > status + n
        BY <1>1, <1>3, <2>1, <3>2, <3>3
      <4> QED BY <3>1, <4>4, <4>5, <4>6 DEF Shaped, Unfilled
    <3> QED BY <3>5, <3>6
  <2> QED BY <2>2, <2>3
<1> QED BY <1>4, <1>5, <1>6, <1>7

(* Points of the array old are in the array d, at the same places.         *)
Stays(old, d) ==
  \A i \in DOMAIN old : old[i] # Hole => i \in DOMAIN d /\ d[i] = old[i]

(* Merging moves no point, unless the array overflowed.                    *)
LEMMA MergedStays ==
  ASSUME NEW S, Hole \in S, NEW old \in Seq(S), NEW new \in Seq(S),
         NEW status, NEW size \in Nat,
         size # 0 /\ old # <<>> => status \in Nat,
         Shaped(old, status, size), Unfilled(old, status, size),
         ~(size # 0 /\ status > size /\ Holed(old, size))
  PROVE  Stays(old, Merged(old, status, new, size).data)
<1> DEFINE merged == Merged(old, status, new, size)
           n == Len(new)
           m == Len(old)
<1>1. n = Len(new) /\ m = Len(old)
  OBVIOUS
<1>2. n \in Nat /\ (new = <<>> <=> n = 0)
  BY EmptySeq
<1>3. m \in Nat /\ DOMAIN old = 1..m /\ (old = <<>> <=> m = 0)
  BY EmptySeq
<1> HIDE DEF n, m
<1>4. CASE new = <<>> \/ old = <<>>
  BY <1>4 DEF Stays, Merged, Created
<1>5. Stays(old, old \o new)
  <2> DEFINE cat == old \o new
  <2>1. DOMAIN cat = 1..(m + n) /\ \A i \in 1..m : cat[i] = old[i]
    BY <1>1, Appended
  <2> HIDE DEF cat
  <2>2. Stays(old, cat)
    BY <1>2, <1>3, <2>1 DEF Stays
  <2> QED BY <2>2 DEF cat
<1>6. CASE old # <<>> /\ new # <<>> /\ size = 0
  <2>1. merged.data = old \o new
    BY <1>6 DEF Merged, Inserted
  <2> QED BY <1>5, <2>1
<1>7. CASE old # <<>> /\ new # <<>> /\ size # 0
  <2>1. status > 0 /\ status \in Nat /\ n > 0 /\ status # NoStatus
    BY <1>2, <1>7 DEF Shaped, NoStatus
  <2>2. status > size => m = status
    BY <1>1, <1>7, <2>1 DEF Shaped
  <2>3. status <= size => \A i \in 1..m : i > status => old[i] = Hole
    BY <1>3, <1>7 DEF Unfilled
  <2>4. CASE status + n > m
    <3>1. merged.data = old \o new
      BY <1>1, <1>7, <2>1, <2>4 DEF Merged, Inserted
    <3> QED BY <1>5, <3>1
  <2>5. CASE ~(status + n > m)
    <3> DEFINE d == [i \in DOMAIN old |->
                       IF i \in (status + 1)..(status + n) THEN new[i - status]
                                                           ELSE old[i]]
    <3>1. merged.data = d
      BY <1>1, <1>7, <2>1, <2>5 DEF Merged, Inserted
    <3>2. status <= size
      BY <1>2, <1>3, <2>1, <2>2, <2>5
    <3>3. \A i \in DOMAIN old : old[i] # Hole => d[i] = old[i]
      <4> SUFFICES ASSUME NEW i \in DOMAIN old, old[i] # Hole PROVE d[i] = old[i]
        OBVIOUS
      <4>1. ~(i > status)
        BY <1>3, <2>3, <3>2
      <4>2. i \notin (status + 1)..(status + n)
        BY <1>2, <1>3, <2>1, <4>1
      <4> QED BY <4>2
    <3>4. DOMAIN d = DOMAIN old
      OBVIOUS
    <3> HIDE DEF d
    <3>5. Stays(old, d)
      BY <3>3, <3>4 DEF Stays
    <3> QED BY <3>1, <3>5
  <2> QED BY <2>4, <2>5
<1> QED BY <1>4, <1>6, <1>7

(* What a load that raises leaves in an array: new points in their places, *)
(* which are not counted.                                                  *)
LEMMA FilledInPlace ==
  ASSUME NEW P \in Nat, NEW old \in Seq(0..P), NEW k \in Nat, NEW n \in Nat,
         NEW status, NEW size \in Nat, k + n <= P,
         size # 0 /\ old # <<>> => status \in Nat,
         Shaped(old, status, size), Faithful(old, status, k, size),
         Fits(old, Upto(k, k + n), size),
         NEW d, d = Merged(old, status, Upto(k, k + n), size).data,
         Len(d) = Len(old)
  PROVE  /\ Shaped(d, status, size)
         /\ Faithful(d, status, k, size)
         /\ ~(size # 0 /\ k > size /\ Holed(old, size)) => Stays(old, d)
<1> DEFINE new == Upto(k, k + n)
           m == Len(old)
<1>1. /\ new \in Seq(0..P) /\ Len(new) = n /\ DOMAIN new = 1..n
      /\ \A i \in 1..n : new[i] = k + i
      /\ (new = <<>>) <=> (n = 0)
  <2>1. Seq(1..(k + n)) \subseteq Seq(0..P)
    BY SeqMonotonic
  <2> QED BY <2>1, UptoFacts
<1>2. Hole = 0 /\ Hole \in 0..P
  BY DEF Hole
<1>3. m \in Nat /\ DOMAIN old = 1..m /\ (old = <<>> <=> m = 0)
  BY EmptySeq
<1>4. m = Len(old) /\ Len(d) = m
  OBVIOUS
<1> HIDE DEF new, m
<1>5. CASE d = old
  BY <1>5 DEF Stays
<1>6. CASE new = <<>>
  <2>1. d = old
    BY <1>6 DEF Merged, Created, new
  <2> QED BY <1>5, <2>1
<1>7. CASE old = <<>> /\ new # <<>>
  <2>1. m = 0 /\ n > 0
    BY <1>1, <1>3, <1>7
  <2>2. CASE size = 0
    <3>1. d = new
      BY <1>7, <2>2 DEF Merged, Created, new
    <3> QED BY <1>1, <1>4, <2>1, <3>1
  <2>3. CASE size # 0
    <3> DEFINE c == [i \in 1..size |-> IF i <= n THEN new[i] ELSE Hole]
    <3>1. d = c
      BY <1>1, <1>7, <2>3 DEF Merged, Created, new
    <3>2. c \in Seq(0..P) /\ DOMAIN c = 1..size
      <4>1. \A i \in 1..size : (IF i <= n THEN new[i] ELSE Hole) \in 0..P
        BY <1>1, <1>2, ElementOfSeq
      <4> QED BY <4>1, IsASeq
    <3>3. Len(c) = size
      BY <3>2
    <3> HIDE DEF c
    <3> QED BY <1>4, <2>1, <2>3, <3>1, <3>3
  <2> QED BY <2>2, <2>3
<1>8. CASE old # <<>> /\ new # <<>>
  <2>0. n > 0
    BY <1>1, <1>8
  <2>1. ASSUME d = old \o new PROVE FALSE
    <3>1. Len(old \o new) = Len(old) + Len(new)
      <4>1. new \in Seq(0..P)
        BY <1>1
      <4> QED BY <4>1, Appended, Zenon
    <3>2. m = m + n
      BY <1>1, <1>4, <2>1, <3>1
    <3> QED BY <1>3, <2>0, <3>2
  <2>2. CASE size = 0
    <3>1. d = old \o new
      BY <1>8, <2>2 DEF Merged, Inserted, new
    <3> QED BY <2>1, <3>1
  <2>3. CASE size # 0
    <3>1. status = k /\ k > 0 /\ status # NoStatus
      BY <1>8, <2>3 DEF Faithful, NoStatus
    <3>2. d = [i \in DOMAIN old |-> IF i \in (k + 1)..(k + n) THEN new[i - k]
                                                             ELSE old[i]]
      <4>1. CASE k + n > m
        <5>1. d = old \o new
          BY <1>1, <1>4, <1>8, <2>3, <3>1, <4>1 DEF Merged, Inserted, new
        <5> QED BY <2>1, <5>1
      <4>2. CASE ~(k + n > m)
        BY <1>1, <1>4, <1>8, <2>3, <3>1, <4>2 DEF Merged, Inserted, new
      <4> QED BY <4>1, <4>2
    <3>3. DOMAIN d = 1..m /\ d # <<>>
      BY <1>3, <1>8, <3>2
    <3>4. \A i \in 1..m : d[i] = IF i \in (k + 1)..(k + n) THEN i ELSE old[i]
      <4> SUFFICES ASSUME NEW i \in 1..m
                   PROVE  d[i] = IF i \in (k + 1)..(k + n) THEN i ELSE old[i]
        OBVIOUS
      <4>1. i \in (k + 1)..(k + n) => i - k \in 1..n /\ k + (i - k) = i
        OBVIOUS
      <4>2. i \in (k + 1)..(k + n) => d[i] = new[i - k]
        BY <1>3, <3>2
      <4>3. i \notin (k + 1)..(k + n) => d[i] = old[i]
        BY <1>3, <3>2
      <4> QED BY <1>1, <4>1, <4>2, <4>3
    <3>5. Holed(old, size) /\ k > size => Holed(d, size)
      <4> SUFFICES ASSUME k > size,
                          NEW i \in DOMAIN old, i <= size, old[i] = Hole
                   PROVE  Holed(d, size)
        BY DEF Holed
      <4>1. i \in 1..m /\ i \notin (k + 1)..(k + n)
        BY <1>3
      <4> QED BY <3>3, <3>4, <4>1 DEF Holed
    <3>6. Shaped(d, status, size)
      <4>1. /\ status <= size => m = size
            /\ status > size => m = status \/ (m > status /\ Holed(old, size))
        BY <1>4, <1>8, <2>3 DEF Shaped
      <4> QED BY <1>4, <3>1, <3>5, <4>1 DEF Shaped
    <3>7. InPlace(old, k) => InPlace(d, k)
      <4> SUFFICES ASSUME InPlace(old, k), NEW i \in 1..m
                   PROVE  IF i <= k THEN d[i] = i ELSE d[i] \in {i, Hole}
        BY <3>3 DEF InPlace
      <4>1. IF i <= k THEN old[i] = i ELSE old[i] \in {i, Hole}
        BY <1>3 DEF InPlace
      <4> QED BY <3>4, <4>1
    <3>8. Faithful(d, status, k, size)
      <4>1. (size # 0 /\ k > size /\ Holed(old, size)) \/ InPlace(old, k)
        BY DEF Faithful
      <4> QED BY <2>3, <3>1, <3>3, <3>5, <3>7, <4>1 DEF Faithful
    <3>9. InPlace(old, k) => Stays(old, d)
      <4> SUFFICES ASSUME InPlace(old, k), NEW i \in 1..m, old[i] # Hole
                   PROVE  d[i] = old[i]
        BY <1>3, <3>3 DEF Stays
      <4>1. old[i] = i
        BY <1>3 DEF InPlace
      <4> QED BY <3>4, <4>1
    <3> QED BY <3>6, <3>8, <3>9 DEF Faithful
  <2> QED BY <2>2, <2>3
<1> QED BY <1>6, <1>7, <1>8

-----------------------------------------------------------------------------
(* Types.                                                                  *)

LEMMA TreeNames ==
  /\ \A i \in DOMAIN non_dependencies : non_dependencies[i] \in Trees
  /\ \A t \in Trees : \E i \in DOMAIN non_dependencies : non_dependencies[i] = t
  /\ DOMAIN non_dependencies = 1..Len(non_dependencies)
  /\ Len(non_dependencies) \in Nat
<1>1. \A i \in DOMAIN non_dependencies : non_dependencies[i] \in Trees
  BY DEF Trees
<1>2. \A t \in Trees : \E i \in DOMAIN non_dependencies : non_dependencies[i] = t
  BY DEF Trees
<1>3. non_dependencies \in Seq(Trees)
  BY CacheAssumption
<1> QED BY <1>1, <1>2, <1>3, LenProperties

(* Merged points are points, and the status is a number or None.           *)
LEMMA MergedType ==
  ASSUME NEW P \in Nat, NEW old \in Seq(0..P), NEW new \in Seq(0..P),
         NEW status \in Nat \cup {NoStatus}, NEW size \in Nat
  PROVE  /\ Merged(old, status, new, size).data \in Seq(0..P)
         /\ Merged(old, status, new, size).status \in Nat \cup {NoStatus}
<1> DEFINE n == Len(new)
           m == Len(old)
<1>1. n \in Nat /\ DOMAIN new = 1..n /\ \A i \in 1..n : new[i] \in 0..P
  BY LenProperties, ElementOfSeq
<1>2. m \in Nat /\ DOMAIN old = 1..m /\ \A i \in 1..m : old[i] \in 0..P
  BY LenProperties, ElementOfSeq
<1>3. old \o new \in Seq(0..P)
  BY Appended
<1>4. n = Len(new) /\ m = Len(old)
  OBVIOUS
<1> HIDE DEF n, m
<1>5. CASE old = <<>>
  <2> DEFINE d == [i \in 1..size |-> IF i <= n THEN new[i] ELSE Hole]
  <2>1. d \in Seq(0..P)
    <3>1. \A i \in 1..size : (IF i <= n THEN new[i] ELSE Hole) \in 0..P
      BY <1>1 DEF Hole
    <3> QED BY <3>1, IsASeq
  <2>2. /\ Merged(old, status, new, size).data \in {new, d}
        /\ Merged(old, status, new, size).status = n
    BY <1>4, <1>5 DEF Merged, Created
  <2> HIDE DEF d
  <2>3. CASE Merged(old, status, new, size).data = new
    BY <1>1, <2>2, <2>3
  <2>4. CASE Merged(old, status, new, size).data = d
    BY <1>1, <2>1, <2>2, <2>4
  <2> QED BY <2>2, <2>3, <2>4
<1>6. CASE old # <<>> /\ new = <<>>
  BY <1>6 DEF Merged
<1>7. CASE old # <<>> /\ new # <<>> /\ (size = 0 \/ status = NoStatus)
  <2>1. Merged(old, status, new, size) = [data |-> old \o new, status |-> NoStatus]
    BY <1>7 DEF Merged, Inserted
  <2> QED BY <1>3, <2>1
<1>8. CASE old # <<>> /\ new # <<>> /\ size # 0 /\ status # NoStatus
  <2> DEFINE d == [i \in DOMAIN old |->
                     IF i \in (status + 1)..(status + n) THEN new[i - status]
                                                         ELSE old[i]]
  <2>1. status \in Nat
    BY <1>8
  <2>2. Merged(old, status, new, size) =
          [data |-> IF status + n > m THEN old \o new ELSE d,
           status |-> status + n]
    BY <1>4, <1>8 DEF Merged, Inserted
  <2>3. d \in Seq(0..P)
    <3> DEFINE e(i) == IF i \in (status + 1)..(status + n) THEN new[i - status]
                                                           ELSE old[i]
    <3>1. \A i \in 1..m : e(i) \in 0..P
      <4> SUFFICES ASSUME NEW i \in 1..m PROVE e(i) \in 0..P
        OBVIOUS
      <4>1. i \in (status + 1)..(status + n) => i - status \in 1..n
        BY <1>1, <2>1
      <4> QED BY <1>1, <1>2, <4>1
    <3>2. d = [i \in 1..m |-> e(i)]
      BY <1>2
    <3> HIDE DEF d, e
    <3> QED BY <1>2, <3>1, <3>2, IsASeq
  <2>4. status + n \in Nat
    BY <1>1, <2>1
  <2> HIDE DEF d
  <2>5. CASE status + n > m
    BY <1>3, <2>2, <2>4, <2>5
  <2>6. CASE ~(status + n > m)
    BY <2>2, <2>3, <2>4, <2>6
  <2> QED BY <2>5, <2>6
<1> QED BY <1>5, <1>6, <1>7, <1>8

LEMMA Constants ==
  /\ MaxPoints \in Nat /\ MaxChunk \in Nat
  /\ Shapes \subseteq [Trees -> Nat]
  /\ LoadsMayFail \in BOOLEAN
BY CacheAssumption

(* The new points of a result are points.                                  *)
LEMMA ResultType ==
  ASSUME TypeOK, NEW t \in Trees, NEW n \in 1..MaxChunk,
         measured[t] + n <= MaxPoints
  PROVE  /\ measured[t] \in Nat /\ n \in Nat
         /\ Upto(measured[t], measured[t] + n) \in Seq(0..MaxPoints)
<1>1. measured[t] \in Nat /\ n \in Nat
  BY Constants DEF TypeOK
<1>2. Upto(measured[t], measured[t] + n) \in Seq(1..(measured[t] + n))
  BY <1>1, UptoFacts
<1>3. Seq(1..(measured[t] + n)) \subseteq Seq(0..MaxPoints)
  <2>1. 1..(measured[t] + n) \subseteq 0..MaxPoints
    BY <1>1, Constants
  <2> QED BY <2>1, SeqMonotonic
<1> QED BY <1>1, <1>2, <1>3

(* What a query returns.                                                   *)
LEMMA NewRowsFacts ==
  ASSUME TypeOK, Reads, NEW h \in Handles, NEW t \in Trees
  PROVE  /\ NewRows(h, t) = Upto(read_status[h][t],
                                 read_status[h][t] + Len(NewRows(h, t)))
         /\ read_status[h][t] + Len(NewRows(h, t)) = rows[t]
         /\ NewRows(h, t) \in Seq(1..MaxPoints)
         /\ Len(NewRows(h, t)) \in Nat
<1> DEFINE r == read_status[h][t]
           n == rows[t] - r
<1>1. r \in Nat /\ rows[t] \in Nat /\ rows[t] <= MaxPoints
  BY Constants DEF TypeOK
<1>2. r <= rows[t]
  <2>1. Len(new_data[h][t]) \in Nat
    <3>1. new_data[h][t] \in Seq(1..MaxPoints)
      BY DEF TypeOK
    <3> QED BY <3>1, LenProperties
  <2>2. r + Len(new_data[h][t]) <= rows[t]
    BY DEF Reads, ReadTo
  <2> QED BY <1>1, <2>1, <2>2
<1>3. n \in Nat /\ r + n = rows[t]
  BY <1>1, <1>2
<1>4. NewRows(h, t) = Upto(r, r + n)
  BY <1>3 DEF NewRows
<1> HIDE DEF n, r
<1>5. Len(Upto(r, r + n)) = n /\ Upto(r, r + n) \in Seq(1..(r + n))
  BY <1>1, <1>3, UptoFacts
<1>6. Seq(1..(r + n)) \subseteq Seq(1..MaxPoints)
  <2>1. 1..(r + n) \subseteq 1..MaxPoints
    BY <1>1, <1>3, Constants
  <2> QED BY <2>1, SeqMonotonic
<1>7. Len(NewRows(h, t)) = n
  BY <1>4, <1>5
<1> QED BY <1>3, <1>4, <1>5, <1>6, <1>7 DEF r

(* What a load brings is points, and merging it gives arrays.              *)
LEMMA LoadType ==
  ASSUME TypeOK, Reads, NEW h \in Handles, NEW t \in Trees
  PROVE  /\ new_data[h][t] \in Seq(0..MaxPoints)
         /\ Len(new_data[h][t]) \in Nat
         /\ read_status[h][t] \in Nat
         /\ read_status[h][t] + Len(new_data[h][t]) \in 0..MaxPoints
         /\ data[h][t] \in Seq(0..MaxPoints)
         /\ shapes[t] \in Nat
         /\ write_status[h][t] \in Nat \cup {NoStatus}
         /\ MergedTree(h, t).data \in Seq(0..MaxPoints)
         /\ MergedTree(h, t).status \in Nat \cup {NoStatus}
<1>1. /\ new_data[h][t] \in Seq(1..MaxPoints) /\ data[h][t] \in Seq(0..MaxPoints)
      /\ read_status[h][t] \in 0..MaxPoints /\ rows[t] \in 0..MaxPoints
      /\ write_status[h][t] \in Nat \cup {NoStatus}
  BY DEF TypeOK
<1>2. shapes[t] \in Nat
  BY Constants DEF TypeOK
<1>3. new_data[h][t] \in Seq(0..MaxPoints) /\ Len(new_data[h][t]) \in Nat
  <2>1. Seq(1..MaxPoints) \subseteq Seq(0..MaxPoints)
    <3>1. 1..MaxPoints \subseteq 0..MaxPoints
      BY Constants
    <3> QED BY <3>1, SeqMonotonic
  <2> QED BY <1>1, <2>1, LenProperties
<1>4. read_status[h][t] + Len(new_data[h][t]) <= rows[t]
  BY DEF Reads, ReadTo
<1>5. read_status[h][t] + Len(new_data[h][t]) \in 0..MaxPoints
  <2> DEFINE l == Len(new_data[h][t])
             r == read_status[h][t]
             R == rows[t]
  <2>1. l \in Nat /\ r \in Nat /\ R \in 0..MaxPoints /\ r + l <= R
    BY <1>1, <1>3, <1>4
  <2> HIDE DEF l, r, R
  <2>2. r + l \in 0..MaxPoints
    BY <2>1, Constants
  <2> QED BY <2>2 DEF l, r
<1>6. read_status[h][t] \in Nat
  BY <1>1, Constants
<1>7. /\ MergedTree(h, t).data \in Seq(0..MaxPoints)
      /\ MergedTree(h, t).status \in Nat \cup {NoStatus}
  BY <1>1, <1>2, <1>3, MergedType, Constants DEF MergedTree
<1> QED BY <1>1, <1>2, <1>3, <1>5, <1>6, <1>7

(* Every action keeps the types.                                           *)
LEMMA TypeKept ==
  ASSUME TypeOK, Reads, Next
  PROVE  TypeOK'
<1>0. Hole = 0 /\ NoStatus = -1 /\ "own" \in Handles
  BY DEF Hole, NoStatus, Handles
<1>1. ASSUME NEW t \in Trees, NEW n \in 1..MaxChunk, AddResult(t, n)
      PROVE  TypeOK'
  <2>1. /\ measured[t] + n <= MaxPoints
        /\ measured' = [measured EXCEPT ![t] = measured[t] + n]
        /\ pending' = Append(pending, measured')
        /\ UNCHANGED <<in_memory_cache, shapes, rows, is_completed, completed,
                       loaded, at, new_data>>
    BY <1>1 DEF AddResult
  <2>2. measured' \in [Trees -> 0..MaxPoints]
    <3>1. measured[t] + n \in 0..MaxPoints
      BY <2>1, ResultType, Constants DEF TypeOK
    <3> QED BY <2>1, <3>1 DEF TypeOK
  <2>3. pending' \in Seq([Trees -> 0..MaxPoints])
    BY <2>1, <2>2, AppendProperties DEF TypeOK
  <2>4. /\ data' \in [Handles -> [Trees -> Seq(0..MaxPoints)]]
        /\ write_status' \in [Handles -> [Trees -> Nat \cup {NoStatus}]]
        /\ read_status' \in [Handles -> [Trees -> 0..MaxPoints]]
        /\ live' \in [Handles -> {"none", "live", "disk"}]
        /\ failed' \subseteq Handles
    <3> DEFINE new == Upto(measured[t], measured[t] + n)
               merged == Merged(data["own"][t], write_status["own"][t], new,
                                shapes[t])
    <3>1. merged.data \in Seq(0..MaxPoints) /\ merged.status \in Nat \cup {NoStatus}
      <4>1. /\ data["own"][t] \in Seq(0..MaxPoints)
            /\ write_status["own"][t] \in Nat \cup {NoStatus}
            /\ shapes[t] \in Nat
        BY <1>0, Constants DEF TypeOK
      <4>2. new \in Seq(0..MaxPoints)
        BY <2>1, ResultType
      <4> HIDE DEF new
      <4> QED BY <4>1, <4>2, MergedType, Constants
    <3>2. CASE UNCHANGED <<data, write_status, read_status, live>>
                 /\ failed' \in {failed, failed \cup {"own"}}
      BY <1>0, <3>2 DEF TypeOK
    <3>3. CASE /\ data' = [data EXCEPT !["own"][t] = merged.data]
               /\ write_status' = [write_status EXCEPT !["own"][t] = merged.status]
               /\ live' \in {live, [live EXCEPT !["own"] = "live"]}
               /\ UNCHANGED <<read_status, failed>>
      <4> HIDE DEF merged
      <4> QED BY <1>0, <3>1, <3>3 DEF TypeOK
    <3> QED
      <4>1. CASE in_memory_cache /\ AddData(t, new)
        <5>1. CASE failed' = failed \cup {"own"} /\ UNCHANGED cache
          BY <3>2, <5>1 DEF cache
        <5>2. CASE /\ data' = [data EXCEPT !["own"][t] = merged.data]
                   /\ write_status' = [write_status EXCEPT !["own"][t] = merged.status]
                   /\ live' = [live EXCEPT !["own"] =
                        IF \A s \in Trees : write_status'["own"][s] = NoStatus
                          THEN live["own"] ELSE "live"]
                   /\ UNCHANGED <<read_status, failed>>
          <6>1. live' \in {live, [live EXCEPT !["own"] = "live"]}
            BY <5>2 DEF TypeOK
          <6> QED BY <3>3, <5>2, <6>1
        <5> QED BY <4>1, <5>1, <5>2 DEF AddData
      <4>2. CASE UNCHANGED <<cache, failed>>
        BY <3>2, <4>2 DEF cache
      <4> QED BY <1>1, <4>1, <4>2 DEF AddResult
  <2> QED BY <2>1, <2>2, <2>3, <2>4 DEF TypeOK
<1>2. ASSUME NEW i \in Nat, Commit(i)
      PROVE  TypeOK'
  <2>1. /\ i \in DOMAIN pending /\ rows' = pending[i]
        /\ pending' = SubSeq(pending, i + 1, Len(pending))
        /\ UNCHANGED <<in_memory_cache, shapes, measured, is_completed, completed,
                       cache, loaded, at, new_data, failed>>
    BY <1>2 DEF Commit
  <2>2. pending \in Seq([Trees -> 0..MaxPoints])
    BY DEF TypeOK
  <2>3. rows' \in [Trees -> 0..MaxPoints]
    BY <2>1, <2>2
  <2>4. pending' \in Seq([Trees -> 0..MaxPoints])
    <3>1. i \in 1..Len(pending) /\ Len(pending) \in Nat
      BY <2>1, <2>2
    <3>2. \A j \in (i + 1)..Len(pending) : pending[j] \in [Trees -> 0..MaxPoints]
      BY <2>2, <3>1
    <3> QED BY <2>1, <2>2, <3>1, <3>2, SubSeqProperties
  <2> QED BY <2>1, <2>3, <2>4 DEF TypeOK, cache
<1>3. CASE MarkCompleted
  BY <1>0, <1>3 DEF MarkCompleted, TypeOK, cache
<1>4. ASSUME NEW h \in Handles, LoadBegin(h)
      PROVE  TypeOK'
  <2>1. 1 \in 0..(Len(non_dependencies) + 1)
    BY TreeNames
  <2> QED BY <1>4, <2>1 DEF LoadBegin, TypeOK, cache, run
<1>5. ASSUME NEW h \in Handles, LoadTree(h)
      PROVE  TypeOK'
  <2> DEFINE t == non_dependencies[at[h]]
  <2>1. /\ at[h] \in DOMAIN non_dependencies
        /\ new_data' = [new_data EXCEPT ![h][t] = NewRows(h, t)]
        /\ at' = [at EXCEPT ![h] = at[h] + 1]
        /\ UNCHANGED <<run, completed, cache, loaded, failed>>
    BY <1>5 DEF LoadTree
  <2>2. t \in Trees /\ at[h] + 1 \in 0..(Len(non_dependencies) + 1)
    BY <2>1, TreeNames
  <2>3. NewRows(h, t) \in Seq(1..MaxPoints)
    BY <2>2, NewRowsFacts
  <2> HIDE DEF t
  <2>4. new_data' \in [Handles -> [Trees -> Seq(1..MaxPoints)]]
    BY <2>1, <2>2, <2>3 DEF TypeOK
  <2>5. at' \in [Handles -> 0..(Len(non_dependencies) + 1)]
    BY <2>1, <2>2 DEF TypeOK
  <2> QED BY <2>1, <2>4, <2>5 DEF TypeOK, cache, run
<1>6. ASSUME NEW h \in Handles, LoadOver(h)
      PROVE  /\ at' \in [Handles -> 0..(Len(non_dependencies) + 1)]
             /\ new_data' \in [Handles -> [Trees -> Seq(1..MaxPoints)]]
  <2>1. 0 \in 0..(Len(non_dependencies) + 1)
    BY TreeNames
  <2>2. EachTree(<<>>) \in [Trees -> Seq(1..MaxPoints)]
    BY DEF EachTree
  <2> QED BY <1>6, <2>1, <2>2 DEF LoadOver, TypeOK
<1>7. ASSUME NEW h \in Handles, LoadFails(h)
      PROVE  TypeOK'
  <2>1. LoadOver(h) /\ failed' = failed \cup {h} /\ UNCHANGED cache
    BY <1>7 DEF LoadFails
  <2> QED BY <1>6, <2>1 DEF LoadOver, TypeOK, cache, run
<1>8. ASSUME NEW h \in Handles, LoadEnd(h)
      PROVE  TypeOK'
  <2>1. /\ data' = [data EXCEPT ![h] = [t \in Trees |-> MergedTree(h, t).data]]
        /\ write_status' = [write_status EXCEPT ![h] =
                              [t \in Trees |-> MergedTree(h, t).status]]
        /\ read_status' = [read_status EXCEPT ![h] =
             [t \in Trees |-> read_status[h][t] + Len(new_data[h][t])]]
        /\ live' \in {live, [live EXCEPT ![h] = "disk"]}
        /\ LoadOver(h) /\ UNCHANGED failed
    <3>1. live' \in {live, [live EXCEPT ![h] = "disk"]}
      <4>1. live' = [live EXCEPT ![h] = live[h]] \/ live' = [live EXCEPT ![h] = "disk"]
        BY <1>8 DEF LoadEnd
      <4> QED BY <4>1 DEF TypeOK
    <3> QED BY <1>8, <3>1 DEF LoadEnd
  <2>2. [t \in Trees |-> MergedTree(h, t).data] \in [Trees -> Seq(0..MaxPoints)]
    BY LoadType
  <2>3. [t \in Trees |-> MergedTree(h, t).status] \in [Trees -> Nat \cup {NoStatus}]
    BY LoadType
  <2>4. [t \in Trees |-> read_status[h][t] + Len(new_data[h][t])]
          \in [Trees -> 0..MaxPoints]
    BY LoadType
  <2>5. data' \in [Handles -> [Trees -> Seq(0..MaxPoints)]]
    BY <2>1, <2>2 DEF TypeOK
  <2>6. write_status' \in [Handles -> [Trees -> Nat \cup {NoStatus}]]
    BY <2>1, <2>3 DEF TypeOK
  <2>7. read_status' \in [Handles -> [Trees -> 0..MaxPoints]]
    BY <2>1, <2>4 DEF TypeOK
  <2>8. live' \in [Handles -> {"none", "live", "disk"}]
    BY <2>1 DEF TypeOK
  <2> QED BY <1>6, <2>1, <2>5, <2>6, <2>7, <2>8 DEF LoadOver, TypeOK, run
<1>9. ASSUME NEW h \in Handles, LoadRaises(h)
      PROVE  TypeOK'
  <2>1. PICK filled \in SUBSET Trees :
          data' = [data EXCEPT ![h] =
                     [t \in Trees |-> IF t \in filled THEN MergedTree(h, t).data
                                                      ELSE data[h][t]]]
    BY <1>9 DEF LoadRaises
  <2>2. /\ LoadOver(h) /\ failed' = failed \cup {h}
        /\ UNCHANGED <<read_status, write_status, live>>
    BY <1>9 DEF LoadRaises
  <2>3. [t \in Trees |-> IF t \in filled THEN MergedTree(h, t).data
                                         ELSE data[h][t]]
          \in [Trees -> Seq(0..MaxPoints)]
    BY LoadType
  <2>4. data' \in [Handles -> [Trees -> Seq(0..MaxPoints)]]
    BY <2>1, <2>3 DEF TypeOK
  <2> QED BY <1>6, <2>2, <2>4 DEF LoadOver, TypeOK, run
<1> QED BY <1>1, <1>2, <1>3, <1>4, <1>5, <1>7, <1>8, <1>9 DEF Next, Load

-----------------------------------------------------------------------------
(* Counts and completion.                                                  *)

LEMMA CountsKept ==
  ASSUME TypeOK, Counts, Next
  PROVE  Counts'
<1>0. /\ pending \in Seq([Trees -> 0..MaxPoints])
      /\ measured \in [Trees -> 0..MaxPoints] /\ rows \in [Trees -> 0..MaxPoints]
      /\ Len(pending) \in Nat /\ DOMAIN pending = 1..Len(pending)
      /\ (pending = <<>> <=> Len(pending) = 0)
  BY EmptySeq DEF TypeOK
<1> DEFINE l == Len(pending)
<1>1. ASSUME NEW t \in Trees, NEW n \in 1..MaxChunk, AddResult(t, n)
      PROVE  Counts'
  <2>1. /\ measured[t] + n <= MaxPoints
        /\ measured' = [measured EXCEPT ![t] = measured[t] + n]
        /\ pending' = Append(pending, measured')
        /\ UNCHANGED rows
    BY <1>1 DEF AddResult
  <2>2. measured' \in [Trees -> 0..MaxPoints]
    <3>1. measured[t] + n \in 0..MaxPoints
      BY <2>1, ResultType, Constants DEF TypeOK
    <3> QED BY <2>1, <1>0, <3>1
  <2>3. \A s \in Trees : measured[s] <= measured'[s]
    BY <1>0, <2>1, Constants
  <2>4. /\ Len(pending') = l + 1
        /\ \A i \in 1..l : pending'[i] = pending[i]
        /\ pending'[l + 1] = measured'
        /\ DOMAIN pending' = 1..(l + 1)
        /\ pending' # <<>>
    <3> DEFINE T == [Trees -> 0..MaxPoints]
    <3>0. pending \in Seq(T) /\ measured' \in T
      BY <1>0, <2>2
    <3> HIDE DEF T
    <3>3. /\ pending' \in Seq(T)
          /\ Len(pending') = l + 1
          /\ \A i \in 1..l : pending'[i] = pending[i]
          /\ pending'[l + 1] = measured'
          /\ pending' # <<>>
      BY <2>1, <3>0, AppendProperties
    <3>1. /\ pending' \in Seq([Trees -> 0..MaxPoints])
          /\ Len(pending') = l + 1
          /\ \A i \in 1..l : pending'[i] = pending[i]
          /\ pending'[l + 1] = measured'
          /\ pending' # <<>>
      BY <3>3 DEF T
    <3>2. DOMAIN pending' = 1..Len(pending')
      BY <3>1, LenProperties
    <3> HIDE DEF l
    <3> QED BY <3>1, <3>2
  <2>5. /\ l \in Nat
        /\ \A i \in 1..l : pending[i] \in [Trees -> 0..MaxPoints]
    BY <1>0
  <2> HIDE DEF l
  <2>6. \A i \in 1..l, s \in Trees :
          rows[s] <= pending[i][s] /\ pending[i][s] <= measured[s]
    BY <1>0 DEF Counts, l
  <2>7. \A i, j \in 1..l, s \in Trees : i <= j => pending[i][s] <= pending[j][s]
    BY <1>0 DEF Counts, l
  <2>8. \A s \in Trees : rows[s] <= measured'[s]
    BY <1>0, <2>2, <2>3, Constants DEF Counts
  <2>9. \A i \in 1..l, s \in Trees : pending[i][s] <= measured'[s]
    <3> SUFFICES ASSUME NEW i \in 1..l, NEW s \in Trees
                 PROVE  pending[i][s] <= measured'[s]
      OBVIOUS
    <3>1. pending[i][s] <= measured[s] /\ measured[s] <= measured'[s]
      BY <2>3, <2>6
    <3>2. pending[i][s] \in Nat /\ measured[s] \in Nat /\ measured'[s] \in Nat
      BY <1>0, <2>2, <2>5
    <3> QED BY <3>1, <3>2
  <2>10. \A i \in 1..(l + 1), s \in Trees :
           rows[s] <= pending'[i][s] /\ pending'[i][s] <= measured'[s]
    <3> SUFFICES ASSUME NEW i \in 1..(l + 1), NEW s \in Trees
                 PROVE  rows[s] <= pending'[i][s] /\ pending'[i][s] <= measured'[s]
      OBVIOUS
    <3>1. CASE i \in 1..l
      BY <2>4, <2>6, <2>9, <3>1
    <3>2. CASE i = l + 1
      BY <2>2, <2>4, <2>8, <3>2
    <3> QED BY <2>5, <3>1, <3>2
  <2>11. \A i, j \in 1..(l + 1), s \in Trees :
           i <= j => pending'[i][s] <= pending'[j][s]
    <3> SUFFICES ASSUME NEW i \in 1..(l + 1), NEW j \in 1..(l + 1),
                        NEW s \in Trees, i <= j
                 PROVE  pending'[i][s] <= pending'[j][s]
      OBVIOUS
    <3>1. CASE j \in 1..l
      <4>1. i \in 1..l
        BY <2>5, <3>1
      <4> QED BY <2>4, <2>7, <3>1, <4>1
    <3>2. CASE j = l + 1
      BY <2>4, <2>10, <3>2
    <3> QED BY <2>5, <3>1, <3>2
  <2> QED BY <2>1, <2>4, <2>8, <2>10, <2>11 DEF Counts
<1>2. ASSUME NEW c \in Nat, Commit(c)
      PROVE  Counts'
  <2>1. /\ c \in 1..l /\ rows' = pending[c]
        /\ pending' = SubSeq(pending, c + 1, l)
        /\ UNCHANGED measured
    BY <1>0, <1>2 DEF Commit
  <2>2. /\ Len(pending') = l - c /\ pending' \in Seq([Trees -> 0..MaxPoints])
        /\ \A i \in 1..(l - c) : pending'[i] = pending[c + i]
    <3>1. \A j \in (c + 1)..l : pending[j] \in [Trees -> 0..MaxPoints]
      BY <1>0, <2>1
    <3>2. /\ SubSeq(pending, c + 1, l) \in Seq([Trees -> 0..MaxPoints])
          /\ Len(SubSeq(pending, c + 1, l)) =
               IF c + 1 <= l THEN l - (c + 1) + 1 ELSE 0
          /\ \A i \in 1..(l - (c + 1) + 1) :
               SubSeq(pending, c + 1, l)[i] = pending[c + 1 + i - 1]
      BY <1>0, <2>1, <3>1, SubSeqProperties
    <3>3. l \in Nat /\ c \in Nat /\ c <= l
      BY <1>0, <2>1
    <3> HIDE DEF l
    <3>4. l - (c + 1) + 1 = l - c /\ (~(c + 1 <= l) => l - c = 0)
          /\ \A i \in 1..(l - c) : c + 1 + i - 1 = c + i
      BY <3>3
    <3> QED BY <2>1, <3>2, <3>4
  <2>3. l \in Nat /\ c \in Nat /\ c <= l
    BY <1>0, <2>1
  <2>4. DOMAIN pending' = 1..(l - c) /\ (pending' = <<>> <=> l - c = 0)
    BY <2>2, EmptySeq
  <2>5. \A i \in 1..l, s \in Trees : pending[i][s] <= measured[s]
    BY <1>0 DEF Counts
  <2>6. \A i, j \in 1..l, s \in Trees : i <= j => pending[i][s] <= pending[j][s]
    BY <1>0 DEF Counts
  <2>7. pending # <<>> /\ pending[l] = measured
    <3>1. pending # <<>>
      BY <1>0, <2>1
    <3> QED BY <3>1 DEF Counts
  <2> HIDE DEF l
  <2>8. \A i \in 1..(l - c) : c + i \in 1..l /\ c <= c + i
    BY <2>3
  <2>9. \A i \in 1..(l - c), s \in Trees :
          rows'[s] <= pending'[i][s] /\ pending'[i][s] <= measured'[s]
    BY <2>1, <2>2, <2>5, <2>6, <2>8
  <2>10. \A i, j \in 1..(l - c), s \in Trees :
           i <= j => pending'[i][s] <= pending'[j][s]
    <3> SUFFICES ASSUME NEW i \in 1..(l - c), NEW j \in 1..(l - c),
                        NEW s \in Trees, i <= j
                 PROVE  pending'[i][s] <= pending'[j][s]
      OBVIOUS
    <3>1. c + i <= c + j
      BY <2>3
    <3> QED BY <2>2, <2>6, <2>8, <3>1
  <2>11. IF pending' = <<>> THEN rows' = measured'
                            ELSE pending'[Len(pending')] = measured'
    <3>1. CASE l = c
      BY <2>1, <2>3, <2>4, <2>7, <3>1
    <3>2. CASE l # c
      <4>1. l - c \in 1..(l - c) /\ l - c # 0 /\ c + (l - c) = l
        BY <2>3, <3>2
      <4> QED BY <2>1, <2>2, <2>4, <2>7, <4>1
    <3> QED BY <3>1, <3>2
  <2>12. \A s \in Trees : rows'[s] <= measured'[s]
    BY <2>1, <2>5
  <2> QED BY <2>4, <2>9, <2>10, <2>11, <2>12 DEF Counts
<1>3. CASE UNCHANGED run
  BY <1>3 DEF Counts, run
<1>4. ASSUME MarkCompleted PROVE Counts'
  BY <1>4 DEF MarkCompleted, Counts
<1>5. ASSUME NEW h \in Handles, Load(h) PROVE UNCHANGED run
  BY <1>5 DEF Load, LoadBegin, LoadTree, LoadFails, LoadEnd, LoadRaises, LoadOver
<1> QED BY <1>1, <1>2, <1>3, <1>4, <1>5 DEF Next

LEMMA CompletionKept ==
  ASSUME TypeOK, Completion, Next
  PROVE  Completion'
<1>0. "own" \in Handles
  BY DEF Handles
<1>1. ASSUME NEW t \in Trees, NEW n \in 1..MaxChunk, AddResult(t, n)
      PROVE  Completion'
  BY <1>1 DEF AddResult, Completion
<1>2. ASSUME NEW c \in Nat, Commit(c)
      PROVE  Completion'
  <2>1. is_completed => FALSE
    BY <1>2 DEF Commit, Completion
  <2> QED BY <1>2, <2>1 DEF Commit, Completion
<1>3. ASSUME MarkCompleted PROVE Completion'
  BY <1>0, <1>3 DEF MarkCompleted, Completion, TypeOK
<1>4. ASSUME NEW h \in Handles, LoadBegin(h) PROVE Completion'
  BY <1>0, <1>4 DEF LoadBegin, Completion, TypeOK, run
<1>5. ASSUME NEW h \in Handles, LoadTree(h) PROVE Completion'
  BY <1>5 DEF LoadTree, Completion, run
<1>6. ASSUME NEW h \in Handles, LoadOver(h) PROVE Completion'
  BY <1>6 DEF LoadOver, Completion, run
<1> QED BY <1>1, <1>2, <1>3, <1>4, <1>5, <1>6
     DEF Next, Load, LoadFails, LoadEnd, LoadRaises

-----------------------------------------------------------------------------
(* What loads read, and who fills a cache.                                 *)

ReadsOf(h, t) ==
  /\ new_data[h][t] = Upto(read_status[h][t], ReadTo(h, t))
  /\ ReadTo(h, t) <= rows[t]
  /\ ~Asked(h, t) => new_data[h][t] = <<>>
  /\ loaded[h] /\ h \notin failed /\ (at[h] = 0 \/ Asked(h, t))
       => ReadTo(h, t) = measured[t]

LEMMA ReadsKept ==
  ASSUME TypeOK, Counts, Completion, Reads, Next
  PROVE  Reads'
<1>0. \A h \in Handles, t \in Trees :
        /\ ReadsOf(h, t)
        /\ read_status[h][t] \in Nat /\ rows[t] \in Nat
        /\ Len(new_data[h][t]) \in Nat
  BY LoadType, Constants DEF Reads, ReadsOf, TypeOK
<1>1. \A h \in Handles : loaded[h] => is_completed /\ pending = <<>>
                                        /\ completed["own"] /\ rows = measured
  BY DEF Completion, Counts
<1>2. ASSUME NEW h \in Handles, NEW t \in Trees,
             UNCHANGED <<new_data[h][t], read_status[h][t], at[h]>>,
             rows'[t] \in Nat, rows'[t] >= rows[t],
             ~loaded'[h] \/ (UNCHANGED <<loaded[h], measured[t]>>
                               /\ (h \notin failed' => h \notin failed))
      PROVE  ReadsOf(h, t)'
  <2>1. ReadTo(h, t)' = ReadTo(h, t) /\ (Asked(h, t)' <=> Asked(h, t))
    BY <1>2 DEF ReadTo, Asked
  <2>2. ReadTo(h, t) \in Nat
    BY <1>0 DEF ReadTo
  <2>3. ReadTo(h, t) <= rows'[t]
    BY <1>0, <1>2, <2>2 DEF ReadsOf
  <2> QED BY <1>0, <1>2, <2>1, <2>3 DEF ReadsOf
<1>3. SUFFICES ASSUME NEW h \in Handles, NEW t \in Trees
               PROVE  ReadsOf(h, t)'
  BY DEF Reads, ReadsOf
<1>4. rows[t] >= rows[t]
  BY <1>0
<1>5. ASSUME NEW s \in Trees, NEW n \in 1..MaxChunk, AddResult(s, n)
      PROVE  ReadsOf(h, t)'
  <2>1. UNCHANGED <<new_data, at, loaded, rows>> /\ ~completed["own"]
    BY <1>5 DEF AddResult
  <2>2. UNCHANGED read_status
    BY <1>5 DEF AddResult, AddData, cache
  <2>3. ~loaded'[h]
    BY <1>1, <2>1
  <2> QED BY <1>0, <1>2, <1>4, <2>1, <2>2, <2>3
<1>6. ASSUME NEW c \in Nat, Commit(c)
      PROVE  ReadsOf(h, t)'
  <2>1. /\ UNCHANGED <<new_data, at, loaded, read_status>>
        /\ c \in DOMAIN pending /\ rows' = pending[c]
    BY <1>6 DEF Commit, cache
  <2>2. ~loaded'[h]
    <3>1. pending # <<>>
      BY <2>1 DEF TypeOK
    <3> QED BY <1>1, <2>1, <3>1
  <2>3. rows'[t] \in Nat /\ rows'[t] >= rows[t]
    <3>1. rows'[t] \in 0..MaxPoints
      BY <2>1 DEF TypeOK
    <3>2. rows[t] <= rows'[t]
      BY <2>1 DEF Counts
    <3> QED BY <1>0, <3>1, <3>2, Constants
  <2> QED BY <1>2, <2>1, <2>2, <2>3
<1>7. ASSUME MarkCompleted PROVE ReadsOf(h, t)'
  <2>1. UNCHANGED <<new_data, at, loaded, read_status, rows, measured, failed>>
    BY <1>7 DEF MarkCompleted, cache
  <2> QED BY <1>0, <1>2, <1>4, <2>1
<1>8. ASSUME NEW g \in Handles, Load(g), g # h
      PROVE  ReadsOf(h, t)'
  <2>1. UNCHANGED <<new_data[h][t], read_status[h][t], at[h], loaded[h], rows,
                    measured>>
    <3>1. CASE LoadBegin(g)
      BY <1>8, <3>1 DEF LoadBegin, run, cache, TypeOK
    <3>2. CASE LoadTree(g)
      BY <1>8, <3>2 DEF LoadTree, run, cache, TypeOK
    <3>3. CASE LoadFails(g)
      BY <1>8, <3>3 DEF LoadFails, LoadOver, run, cache, TypeOK
    <3>4. CASE LoadEnd(g)
      BY <1>8, <3>4 DEF LoadEnd, LoadOver, run, TypeOK
    <3>5. CASE LoadRaises(g)
      BY <1>8, <3>5 DEF LoadRaises, LoadOver, run, TypeOK
    <3> QED BY <1>8, <3>1, <3>2, <3>3, <3>4, <3>5 DEF Load
  <2>2. h \notin failed' => h \notin failed
    BY <1>8 DEF Load, LoadBegin, LoadTree, LoadFails, LoadEnd, LoadRaises
  <2> QED BY <1>0, <1>2, <1>4, <2>1, <2>2
<1>9. ASSUME LoadBegin(h) PROVE ReadsOf(h, t)'
  <2>1. /\ at[h] = 0 /\ at'[h] = 1
        /\ UNCHANGED <<new_data, read_status, rows>>
    BY <1>9 DEF LoadBegin, cache, run, TypeOK
  <2>2. ~Asked(h, t) /\ ~Asked(h, t)' /\ at'[h] # 0
    BY <2>1, TreeNames DEF Asked
  <2>3. ReadTo(h, t)' = ReadTo(h, t)
    BY <2>1 DEF ReadTo
  <2> QED BY <1>0, <2>1, <2>2, <2>3 DEF ReadsOf
<1>10. ASSUME LoadTree(h) PROVE ReadsOf(h, t)'
  <2> DEFINE s == non_dependencies[at[h]]
  <2>1. /\ at[h] \in 1..Len(non_dependencies) /\ s \in Trees
        /\ new_data' = [new_data EXCEPT ![h][s] = NewRows(h, s)]
        /\ at'[h] = at[h] + 1
        /\ UNCHANGED <<read_status, rows, loaded, measured, failed>>
    BY <1>10, TreeNames DEF LoadTree, cache, run, TypeOK
  <2>2. CASE t = s
    <3>1. new_data'[h][t] = NewRows(h, t)
      BY <2>1, <2>2 DEF TypeOK
    <3>2. ReadTo(h, t)' = read_status[h][t] + Len(NewRows(h, t))
      BY <2>1, <3>1 DEF ReadTo
    <3>3. ReadTo(h, t)' = rows[t]
      BY <3>2, NewRowsFacts
    <3>4. NewRows(h, t) = Upto(read_status[h][t], rows[t])
      BY NewRowsFacts
    <3>5. Asked(h, t)'
      BY <2>1, <2>2, TreeNames DEF Asked
    <3>6. loaded'[h] => rows[t] = measured[t]
      BY <1>1, <2>1
    <3> QED BY <1>4, <2>1, <3>1, <3>3, <3>4, <3>5, <3>6 DEF ReadsOf
  <2>3. CASE t # s
    <3>1. new_data'[h][t] = new_data[h][t]
      BY <2>1, <2>3 DEF TypeOK
    <3>2. ReadTo(h, t)' = ReadTo(h, t)
      BY <2>1, <3>1 DEF ReadTo
    <3>3. Asked(h, t)' <=> Asked(h, t)
      <4>1. \A i \in DOMAIN non_dependencies :
              non_dependencies[i] = t => (i < at'[h] <=> i < at[h])
        BY <2>1, <2>3, TreeNames
      <4> QED BY <4>1 DEF Asked
    <3>4. at[h] # 0 /\ at'[h] # 0
      BY <2>1, TreeNames
    <3> QED BY <1>0, <2>1, <3>1, <3>2, <3>3, <3>4 DEF ReadsOf
  <2> QED BY <2>2, <2>3
<1>11. ASSUME LoadOver(h)
       PROVE  /\ new_data'[h][t] = <<>> /\ at'[h] = 0 /\ ~Asked(h, t)'
              /\ UNCHANGED <<rows, loaded, measured>>
  <2>1. at'[h] = 0 /\ new_data'[h][t] = <<>> /\ UNCHANGED <<rows, loaded, measured>>
    BY <1>11 DEF LoadOver, EachTree, run, TypeOK
  <2> QED BY <2>1, TreeNames DEF Asked
<1>12. ASSUME NEW r \in Nat, LoadOver(h), read_status'[h][t] = r, r <= rows[t],
              loaded[h] /\ h \notin failed' => r = measured[t]
       PROVE  ReadsOf(h, t)'
  <2>1. ReadTo(h, t)' = r
    BY <1>11, <1>12 DEF ReadTo
  <2>2. Upto(r, r) = <<>>
    <3>1. Upto(r, r + 0) = <<>>
      BY UptoFacts
    <3> QED BY <3>1
  <2> QED BY <1>11, <1>12, <2>1, <2>2 DEF ReadsOf
<1>13. ReadTo(h, t) \in Nat /\ read_status[h][t] <= ReadTo(h, t)
         /\ ReadTo(h, t) <= rows[t] /\ read_status[h][t] <= rows[t]
  <2>1. ReadTo(h, t) \in Nat /\ read_status[h][t] <= ReadTo(h, t)
    <3> DEFINE l == Len(new_data[h][t])
    <3>1. l \in Nat /\ read_status[h][t] \in Nat
      BY <1>0
    <3> HIDE DEF l
    <3>2. read_status[h][t] + l \in Nat /\ read_status[h][t] <= read_status[h][t] + l
      BY <3>1
    <3> QED BY <3>2 DEF ReadTo, l
  <2> QED BY <1>0, <2>1 DEF ReadsOf
<1>14. ASSUME LoadFails(h) \/ LoadRaises(h) PROVE ReadsOf(h, t)'
  <2>1. LoadOver(h) /\ h \in failed' /\ UNCHANGED read_status
    BY <1>14 DEF LoadFails, LoadRaises, cache
  <2> QED BY <1>0, <1>12, <1>13, <2>1
<1>15. ASSUME LoadEnd(h) PROVE ReadsOf(h, t)'
  <2>1. /\ at[h] = Len(non_dependencies) + 1
        /\ LoadOver(h) /\ UNCHANGED failed
        /\ read_status'[h][t] = ReadTo(h, t)
    BY <1>15 DEF LoadEnd, ReadTo, TypeOK
  <2>2. Asked(h, t)
    <3>1. PICK i \in DOMAIN non_dependencies : non_dependencies[i] = t
      BY TreeNames
    <3>2. i < at[h]
      BY <2>1, TreeNames
    <3> QED BY <3>1, <3>2 DEF Asked
  <2>3. loaded[h] /\ h \notin failed' => ReadTo(h, t) = measured[t]
    BY <1>0, <2>1, <2>2 DEF ReadsOf
  <2> QED BY <1>12, <1>13, <2>1, <2>3
<1> QED BY <1>5, <1>6, <1>7, <1>8, <1>9, <1>10, <1>14, <1>15 DEF Next, Load

(* A load that raises fills some arrays in place, never the first that     *)
(* does not fit.                                                           *)
LEMMA RaisesFacts ==
  ASSUME TypeOK, NEW h \in Handles, LoadRaises(h)
  PROVE  \E filled \in SUBSET Trees :
           /\ data' = [data EXCEPT ![h] =
                         [t \in Trees |-> IF t \in filled THEN MergedTree(h, t).data
                                                          ELSE data[h][t]]]
           /\ \A t \in filled : Len(MergedTree(h, t).data) = Len(data[h][t])
                                  /\ TreeFits(h, t)
           /\ \E t \in Trees : ~TreeFits(h, t)
<1> DEFINE bad == {i \in DOMAIN non_dependencies :
                     ~TreeFits(h, non_dependencies[i])}
           filled == {t \in Trees :
                       /\ Len(MergedTree(h, t).data) = Len(data[h][t])
                       /\ \E i \in DOMAIN non_dependencies :
                            /\ non_dependencies[i] = t
                            /\ \A j \in bad : i < j}
<1>1. /\ bad # {}
      /\ data' = [data EXCEPT ![h] =
                    [t \in Trees |-> IF t \in filled THEN MergedTree(h, t).data
                                                     ELSE data[h][t]]]
  BY DEF LoadRaises
<1>2. \A t \in filled : Len(MergedTree(h, t).data) = Len(data[h][t])
  OBVIOUS
<1>3. \A t \in filled : TreeFits(h, t)
  <2> SUFFICES ASSUME NEW i \in DOMAIN non_dependencies, \A j \in bad : i < j
               PROVE  TreeFits(h, non_dependencies[i])
    OBVIOUS
  <2>1. ~(i < i)
    BY TreeNames
  <2> QED BY <2>1
<1>4. \E t \in Trees : ~TreeFits(h, t)
  BY <1>1, TreeNames
<1>5. filled \in SUBSET Trees
  OBVIOUS
<1> HIDE DEF filled, bad
<1> QED BY <1>1, <1>2, <1>3, <1>4, <1>5

LEMMA FillingKept ==
  ASSUME TypeOK, Reads, Filling, Next
  PROVE  Filling'
<1>0. "own" \in Handles /\ "reader" \in Handles /\ "own" # "reader"
      /\ \A h \in Handles : h = "own" \/ h = "reader"
  BY DEF Handles
<1>1. ASSUME NEW t \in Trees, NEW n \in 1..MaxChunk, AddResult(t, n)
      PROVE  Filling'
  <2> DEFINE new == Upto(measured[t], measured[t] + n)
             merged == Merged(data["own"][t], write_status["own"][t], new, shapes[t])
  <2>1. /\ at["own"] = 0
        /\ measured' = [measured EXCEPT ![t] = measured[t] + n]
        /\ UNCHANGED <<in_memory_cache, at>>
    BY <1>1 DEF AddResult
  <2>2. CASE ~in_memory_cache /\ UNCHANGED <<cache, failed>>
    BY <2>1, <2>2 DEF Filling, cache
  <2>3. CASE failed' = failed \cup {"own"} /\ UNCHANGED cache
    BY <2>1, <2>3 DEF Filling, cache
  <2>4. CASE /\ in_memory_cache /\ live["own"] # "disk"
             /\ data' = [data EXCEPT !["own"][t] = merged.data]
             /\ write_status' = [write_status EXCEPT !["own"][t] = merged.status]
             /\ live' = [live EXCEPT !["own"] =
                  IF \A s \in Trees : write_status'["own"][s] = NoStatus
                    THEN live["own"] ELSE "live"]
             /\ UNCHANGED <<read_status, failed>>
    <3>1. live'["own"] = "live"
      <4>1. CASE live["own"] = "live"
        BY <1>0, <2>4, <4>1 DEF TypeOK
      <4>2. CASE live["own"] # "live"
        <5>1. live["own"] = "none"
          BY <1>0, <2>4, <4>2 DEF TypeOK
        <5>2. data["own"][t] = <<>>
          BY <1>0, <5>1 DEF Filling
        <5>3. merged.status = Len(new)
          BY <5>2 DEF Merged, Created
        <5>4. Len(new) = n /\ n > 0
          <6>1. measured[t] \in Nat /\ n \in Nat /\ n > 0
            BY Constants DEF TypeOK
          <6> QED BY <6>1, UptoFacts
        <5>5. write_status'["own"][t] = merged.status
          <6> HIDE DEF merged
          <6> QED BY <1>0, <2>4 DEF TypeOK
        <5>6. write_status'["own"][t] # NoStatus
          <6> HIDE DEF merged, new
          <6> QED BY <5>3, <5>4, <5>5 DEF NoStatus
        <5> QED BY <1>0, <2>4, <5>6 DEF TypeOK
      <4> QED BY <4>1, <4>2
    <3>2. live'["reader"] = live["reader"]
      BY <1>0, <2>4 DEF TypeOK
    <3>3. \A s \in Trees : data'["reader"][s] = data["reader"][s]
      <4> HIDE DEF merged
      <4> QED BY <1>0, <2>4 DEF TypeOK
    <3> HIDE DEF merged
    <3> QED BY <1>0, <2>1, <2>4, <3>1, <3>2, <3>3 DEF Filling
  <2> QED
    <3>1. (in_memory_cache /\ AddData(t, new))
            \/ (~in_memory_cache /\ UNCHANGED <<cache, failed>>)
      BY <1>1 DEF AddResult
    <3> QED BY <2>2, <2>3, <2>4, <3>1 DEF AddData
<1>2. CASE UNCHANGED <<in_memory_cache, measured, cache, at, failed>>
  BY <1>2 DEF Filling, cache
<1>3. ASSUME NEW c \in Nat, Commit(c) PROVE Filling'
  BY <1>2, <1>3 DEF Commit
<1>4. CASE MarkCompleted
  BY <1>2, <1>4 DEF MarkCompleted
<1>5. ASSUME NEW h \in Handles, LoadBegin(h) PROVE Filling'
  <2>1. live["own"] = "live" => h # "own"
    BY <1>5 DEF LoadBegin
  <2>2. live["own"] = "live" => at'["own"] = 0
    BY <1>0, <1>5, <2>1 DEF LoadBegin, Filling, TypeOK
  <2> QED BY <1>5, <2>2 DEF LoadBegin, Filling, cache, run
<1>6. ASSUME NEW h \in Handles, LoadTree(h) PROVE Filling'
  <2>1. at[h] # 0
    BY <1>6, TreeNames DEF LoadTree
  <2>2. live["own"] = "live" => at'["own"] = 0
    BY <1>0, <1>6, <2>1 DEF LoadTree, Filling, TypeOK
  <2> QED BY <1>6, <2>2 DEF LoadTree, Filling, cache, run
<1>7. ASSUME NEW h \in Handles, LoadOver(h)
      PROVE  /\ live["own"] = "live" => at'["own"] = 0
             /\ UNCHANGED <<in_memory_cache, measured>>
  BY <1>0, <1>7 DEF LoadOver, Filling, TypeOK, run
<1>8. ASSUME NEW h \in Handles, LoadFails(h) PROVE Filling'
  <2>1. LoadOver(h) /\ failed' = failed \cup {h} /\ UNCHANGED cache
    BY <1>8 DEF LoadFails
  <2> QED BY <1>7, <2>1 DEF Filling, cache
<1>9. ASSUME NEW h \in Handles, LoadEnd(h) PROVE Filling'
  <2>1. /\ data' = [data EXCEPT ![h] = [t \in Trees |-> MergedTree(h, t).data]]
        /\ write_status' = [write_status EXCEPT ![h] =
                              [t \in Trees |-> MergedTree(h, t).status]]
        /\ read_status' = [read_status EXCEPT ![h] =
             [t \in Trees |-> read_status[h][t] + Len(new_data[h][t])]]
        /\ live' = [live EXCEPT ![h] =
             IF \A t \in Trees : write_status'[h][t] \in {0, NoStatus}
               THEN live[h] ELSE "disk"]
        /\ LoadOver(h) /\ UNCHANGED failed
        /\ at[h] # 0
    BY <1>9, TreeNames DEF LoadEnd
  <2>2. live[h] # "live"
    BY <1>0, <2>1 DEF Filling
  <2>3. live'[h] \in {live[h], "disk"} /\ \A g \in Handles : g # h => live'[g] = live[g]
    BY <2>1 DEF TypeOK
  <2>4. ASSUME live'[h] = "none", NEW t \in Trees
        PROVE  data'[h][t] = <<>> /\ read_status'[h][t] = 0
    <3>1. live[h] = "none" /\ write_status'[h][t] \in {0, NoStatus}
      BY <2>1, <2>3, <2>4 DEF TypeOK
    <3>2. data[h][t] = <<>> /\ read_status[h][t] = 0
      BY <3>1 DEF Filling
    <3>3. MergedTree(h, t) = Created(new_data[h][t], shapes[t])
      BY <3>2 DEF MergedTree, Merged
    <3>4. Len(new_data[h][t]) = 0
      <4>1. write_status'[h][t] = MergedTree(h, t).status
        BY <2>1 DEF TypeOK
      <4>2. MergedTree(h, t).status = Len(new_data[h][t])
        BY <3>3 DEF Created
      <4>3. Len(new_data[h][t]) \in Nat
        BY LoadType
      <4> HIDE DEF MergedTree
      <4> QED BY <3>1, <4>1, <4>2, <4>3 DEF NoStatus
    <3>5. new_data[h][t] = <<>>
      BY <3>4, LoadType, EmptySeq
    <3>6. MergedTree(h, t).data = <<>>
      BY <3>3, <3>5 DEF Created
    <3> QED BY <2>1, <3>2, <3>4, <3>6 DEF TypeOK
  <2>5. \A g \in Handles, t \in Trees : g # h =>
          data'[g][t] = data[g][t] /\ read_status'[g][t] = read_status[g][t]
    BY <2>1 DEF TypeOK
  <2>6. \A g \in Handles, t \in Trees :
          live'[g] = "none" => data'[g][t] = <<>> /\ read_status'[g][t] = 0
    BY <2>3, <2>4, <2>5 DEF Filling
  <2>7. /\ in_memory_cache' = in_memory_cache /\ measured' = measured
        /\ live["own"] = "live" => at'["own"] = 0
    BY <1>7, <2>1
  <2>8. live'["reader"] # "live" /\ (live'["own"] = "live" => live["own"] = "live")
        /\ (live'["own"] = "none" => live["own"] = "none")
    BY <1>0, <2>2, <2>3 DEF Filling
  <2> QED BY <2>1, <2>6, <2>7, <2>8 DEF Filling
<1>10. ASSUME NEW h \in Handles, LoadRaises(h) PROVE Filling'
  <2>1. /\ LoadOver(h) /\ failed' = failed \cup {h}
        /\ UNCHANGED <<read_status, write_status, live>>
    BY <1>10 DEF LoadRaises
  <2>2. PICK filled \in SUBSET Trees :
          /\ data' = [data EXCEPT ![h] =
                        [t \in Trees |-> IF t \in filled THEN MergedTree(h, t).data
                                                         ELSE data[h][t]]]
          /\ \A t \in filled : Len(MergedTree(h, t).data) = Len(data[h][t])
    BY <1>10, RaisesFacts
  <2>3. \A g \in Handles, t \in Trees : live[g] = "none" => data'[g][t] = <<>>
    <3> SUFFICES ASSUME NEW g \in Handles, NEW t \in Trees, live[g] = "none"
                 PROVE  data'[g][t] = <<>>
      OBVIOUS
    <3>1. data[g][t] = <<>>
      BY DEF Filling
    <3>2. CASE g = h /\ t \in filled
      <4>1. data'[g][t] = MergedTree(h, t).data
        BY <2>2, <3>2 DEF TypeOK
      <4>2. Len(MergedTree(h, t).data) = 0
        BY <2>2, <3>1, <3>2
      <4>3. MergedTree(h, t).data = <<>>
        BY <4>2, LoadType, EmptySeq
      <4> QED BY <4>1, <4>3
    <3>3. CASE ~(g = h /\ t \in filled)
      BY <2>2, <3>1, <3>3 DEF TypeOK
    <3> QED BY <3>2, <3>3
  <2> QED BY <1>7, <2>1, <2>3 DEF Filling
<1> QED BY <1>1, <1>3, <1>4, <1>5, <1>6, <1>8, <1>9, <1>10 DEF Next, Load

-----------------------------------------------------------------------------
(* Arrays.                                                                 *)

(* The array of a tree of which k points are known takes in n more.        *)
LEMMA MergedArray ==
  ASSUME NEW P \in Nat, NEW old \in Seq(0..P), NEW k \in Nat, NEW n \in Nat,
         NEW status \in Nat \cup {NoStatus}, NEW size \in Nat,
         k + n <= P, status <= k,
         Shaped(old, status, size), Unfilled(old, status, size),
         Fits(old, Upto(k, k + n), size),
         NEW merged, merged = Merged(old, status, Upto(k, k + n), size)
  PROVE  /\ Shaped(merged.data, merged.status, size)
         /\ Unfilled(merged.data, merged.status, size)
         /\ merged.status <= k + n
         /\ Faithful(old, status, k, size)
              => Faithful(merged.data, merged.status, k + n, size)
         /\ ~(size # 0 /\ k > size /\ Holed(old, size))
              => Stays(old, merged.data)
<1> DEFINE new == Upto(k, k + n)
<1>1. new \in Seq(0..P) /\ Len(new) = n /\ (new = <<>> <=> n = 0)
  <2>1. Seq(1..(k + n)) \subseteq Seq(0..P)
    <3>1. 1..(k + n) \subseteq 0..P
      OBVIOUS
    <3> QED BY <3>1, SeqMonotonic
  <2> QED BY <2>1, UptoFacts
<1>2. size # 0 /\ old # <<>> => status \in Nat
  BY DEF Shaped, NoStatus
<1>3. Hole \in 0..P
  BY DEF Hole
<1>4. /\ Shaped(merged.data, merged.status, size)
      /\ Unfilled(merged.data, merged.status, size)
  <2> HIDE DEF new
  <2>1. merged = Merged(old, status, new, size) /\ Fits(old, new, size)
    BY DEF new
  <2> QED BY <1>1, <1>2, <1>3, <2>1, MergedShaped
<1>5. merged.status <= k + n
  <2>1. CASE old = <<>>
    <3>1. merged.status = Len(new)
      BY <2>1 DEF Merged, Created
    <3> QED BY <1>1, <3>1
  <2>2. CASE old # <<>> /\ new = <<>>
    <3>1. merged.status = status /\ n = 0
      BY <1>1, <2>2 DEF Merged
    <3> QED BY <3>1
  <2>3. CASE old # <<>> /\ new # <<>> /\ (size = 0 \/ status = NoStatus)
    <3>1. merged.status = NoStatus
      BY <2>3 DEF Merged, Inserted
    <3> QED BY <3>1 DEF NoStatus
  <2>4. CASE old # <<>> /\ new # <<>> /\ size # 0 /\ status # NoStatus
    <3>1. merged.status = status + Len(new)
      BY <2>4 DEF Merged, Inserted
    <3>2. merged.status = status + n /\ status \in Nat
      BY <1>1, <2>4, <3>1
    <3> QED BY <3>2
  <2> QED BY <2>1, <2>2, <2>3, <2>4
<1>6. Faithful(old, status, k, size)
        => Faithful(merged.data, merged.status, k + n, size)
  BY <1>2, MergedFaithful
<1>7. ASSUME ~(size # 0 /\ k > size /\ Holed(old, size))
      PROVE  Stays(old, merged.data)
  <2>1. ~(size # 0 /\ status > size /\ Holed(old, size))
    BY <1>7 DEF NoStatus
  <2> HIDE DEF new
  <2>2. merged = Merged(old, status, new, size)
    BY DEF new
  <2> QED BY <1>1, <1>2, <1>3, <2>1, <2>2, MergedStays
<1> QED BY <1>4, <1>5, <1>6, <1>7

(* The same of one tree in a load, and of the arrays of a load that raised. *)
LEMMA LoadedArray ==
  ASSUME TypeOK, Reads, Arrays, NEW h \in Handles, NEW t \in Trees,
         live[h] # "live", TreeFits(h, t)
  PROVE  /\ Unfilled(data[h][t], write_status[h][t], shapes[t]) =>
              /\ Shaped(MergedTree(h, t).data, MergedTree(h, t).status, shapes[t])
              /\ Unfilled(MergedTree(h, t).data, MergedTree(h, t).status, shapes[t])
              /\ MergedTree(h, t).status <= ReadTo(h, t)
              /\ Faithful(MergedTree(h, t).data, MergedTree(h, t).status,
                          ReadTo(h, t), shapes[t])
              /\ ~Overflowed(h, t) => Stays(data[h][t], MergedTree(h, t).data)
         /\ Len(MergedTree(h, t).data) = Len(data[h][t]) =>
              /\ Shaped(MergedTree(h, t).data, write_status[h][t], shapes[t])
              /\ Faithful(MergedTree(h, t).data, write_status[h][t],
                          read_status[h][t], shapes[t])
              /\ ~Overflowed(h, t) => Stays(data[h][t], MergedTree(h, t).data)
<1> DEFINE k == read_status[h][t]
           n == Len(new_data[h][t])
           status == write_status[h][t]
           size == shapes[t]
           old == data[h][t]
           merged == MergedTree(h, t)
<1>1. /\ k \in Nat /\ n \in Nat /\ k + n \in 0..MaxPoints
      /\ old \in Seq(0..MaxPoints) /\ size \in Nat
      /\ status \in Nat \cup {NoStatus}
  BY LoadType
<1>2. new_data[h][t] = Upto(k, k + n) /\ ReadTo(h, t) = k + n
  BY DEF Reads, ReadTo
<1>3. Shaped(old, status, size) /\ Faithful(old, status, k, size) /\ status <= k
  BY DEF Arrays, Known, Refused
<1>4. ~Overflowed(h, t) => ~(size # 0 /\ k > size /\ Holed(old, size))
  BY DEF Overflowed, Holed, Known
<1>5. merged = Merged(old, status, Upto(k, k + n), size)
        /\ Fits(old, Upto(k, k + n), size)
  BY <1>2 DEF MergedTree, TreeFits
<1>6. k + n <= MaxPoints /\ MaxPoints \in Nat
  BY <1>1, Constants
<1>7. size # 0 /\ old # <<>> => status \in Nat
  BY <1>1, <1>3 DEF Shaped, NoStatus
<1> HIDE DEF k, n, status, size, old, merged
<1>8. Unfilled(old, status, size) =>
        /\ Shaped(merged.data, merged.status, size)
        /\ Unfilled(merged.data, merged.status, size)
        /\ merged.status <= k + n
        /\ Faithful(merged.data, merged.status, k + n, size)
        /\ ~(size # 0 /\ k > size /\ Holed(old, size)) => Stays(old, merged.data)
  BY <1>1, <1>3, <1>5, <1>6, MergedArray
<1>9. Len(merged.data) = Len(old) =>
        /\ Shaped(merged.data, status, size)
        /\ Faithful(merged.data, status, k, size)
        /\ ~(size # 0 /\ k > size /\ Holed(old, size)) => Stays(old, merged.data)
  <2>1. merged.data = Merged(old, status, Upto(k, k + n), size).data
    BY <1>5
  <2> DEFINE d == merged.data
  <2> HIDE DEF d
  <2>2. d = Merged(old, status, Upto(k, k + n), size).data
    BY <2>1 DEF d
  <2>3. Len(d) = Len(old) =>
          /\ Shaped(d, status, size)
          /\ Faithful(d, status, k, size)
          /\ ~(size # 0 /\ k > size /\ Holed(old, size)) => Stays(old, d)
    BY <1>1, <1>3, <1>5, <1>6, <1>7, <2>2, FilledInPlace
  <2> QED BY <2>3 DEF d
<1> QED BY <1>2, <1>4, <1>8, <1>9 DEF k, n, status, size, old, merged

ArrayOf(h, t) ==
  /\ Shaped(data[h][t], write_status[h][t], shapes[t])
  /\ write_status[h][t] <= Known(h, t)
  /\ ~Refused(h) =>
       Faithful(data[h][t], write_status[h][t], Known(h, t), shapes[t])

BehindOf(h) ==
  \/ \A t \in Trees : Unfilled(data[h][t], write_status[h][t], shapes[t])
  \/ live[h] # "live" /\ h \in failed /\ Stuck(h)

StaysOf(h, t) == ~Overflowed(h, t) => PointsStay(h, t)

(* A handle whose cache is left alone.                                     *)
LEMMA CacheLeftAlone ==
  ASSUME TypeOK, NEW h \in Handles,
         \A t \in Trees : ArrayOf(h, t), BehindOf(h),
         \A t \in Trees : UNCHANGED <<data[h][t], write_status[h][t],
                                      read_status[h][t], shapes[t]>>,
         UNCHANGED live[h],
         h \in failed => h \in failed',
         \A t \in Trees : measured'[t] \in Nat /\ measured[t] <= measured'[t],
         live[h] = "live" /\ (\E t \in Trees : measured[t] # measured'[t])
           => h \in failed',
         live[h] # "live" /\ h \in failed /\ Stuck(h) => Stuck(h)'
  PROVE  /\ \A t \in Trees : ArrayOf(h, t)'
         /\ BehindOf(h)'
         /\ \A t \in Trees : StaysOf(h, t)
<1>1. ASSUME NEW t \in Trees PROVE ArrayOf(h, t)'
  <2>0. /\ write_status[h][t] \in Nat \cup {NoStatus} /\ measured[t] \in Nat
        /\ measured'[t] \in Nat /\ measured[t] <= measured'[t]
    BY Constants DEF TypeOK
  <2>1. CASE live[h] # "live"
    BY <2>1 DEF ArrayOf, Known, Refused
  <2>2. CASE live[h] = "live"
    <3>1. write_status'[h][t] <= measured'[t]
      <4>1. write_status[h][t] <= measured[t]
        BY <2>2 DEF ArrayOf, Known
      <4>2. write_status'[h][t] = write_status[h][t]
        OBVIOUS
      <4> QED BY <2>0, <4>1, <4>2 DEF NoStatus
    <3>2. ASSUME ~Refused(h)' PROVE measured'[t] = measured[t] /\ ~Refused(h)
      BY <2>2, <3>2 DEF Refused
    <3> QED BY <2>2, <3>1, <3>2 DEF ArrayOf, Known
  <2> QED BY <2>1, <2>2
<1>2. BehindOf(h)'
  <2>1. CASE \A t \in Trees : Unfilled(data[h][t], write_status[h][t], shapes[t])
    BY <2>1 DEF BehindOf
  <2>2. CASE live[h] # "live" /\ h \in failed /\ Stuck(h)
    BY <2>2 DEF BehindOf
  <2> QED BY <2>1, <2>2 DEF BehindOf
<1>3. \A t \in Trees : StaysOf(h, t)
  BY DEF StaysOf, PointsStay
<1> QED BY <1>1, <1>2, <1>3

LEMMA ArraysKept ==
  ASSUME TypeOK, TypeOK', Counts, Completion, Reads, Filling, Arrays,
         NothingBehind, Next
  PROVE  /\ Arrays' /\ NothingBehind'
         /\ \A h \in Handles, t \in Trees : StaysOf(h, t)
<1>0. "own" \in Handles /\ "reader" \in Handles /\ "own" # "reader"
      /\ \A h \in Handles : h = "own" \/ h = "reader"
  BY DEF Handles
<1> DEFINE Kept(h) == /\ \A t \in Trees : ArrayOf(h, t)'
                      /\ BehindOf(h)'
                      /\ \A t \in Trees : StaysOf(h, t)
<1>1. SUFFICES ASSUME NEW h \in Handles PROVE Kept(h)
  <2>1. \A h \in Handles : \A t \in Trees : ArrayOf(h, t)'
    BY <1>1
  <2>2. \A h \in Handles : BehindOf(h)'
    BY <1>1
  <2>3. \A h \in Handles, t \in Trees : StaysOf(h, t)
    BY <1>1
  <2> QED BY <2>1, <2>2, <2>3 DEF Arrays, NothingBehind, ArrayOf, BehindOf
<1>2. (\A t \in Trees : ArrayOf(h, t)) /\ BehindOf(h)
  BY DEF Arrays, NothingBehind, ArrayOf, BehindOf
<1>3. \A t \in Trees : /\ measured[t] \in Nat /\ rows[t] \in Nat
                       /\ read_status[h][t] \in Nat /\ shapes[t] \in Nat
                       /\ measured'[t] \in Nat /\ rows'[t] \in Nat
                       /\ write_status[h][t] \in Nat \cup {NoStatus}
  BY Constants DEF TypeOK
<1>4. ASSUME NEW s \in Trees, NEW n \in 1..MaxChunk, AddResult(s, n)
      PROVE  Kept(h)
  <2> DEFINE m == measured[s]
             new == Upto(m, m + n)
             old == data["own"][s]
             status == write_status["own"][s]
             size == shapes[s]
             merged == Merged(old, status, new, size)
  <2>1. /\ at["own"] = 0 /\ m + n <= MaxPoints
        /\ measured' = [measured EXCEPT ![s] = measured[s] + n]
        /\ UNCHANGED <<in_memory_cache, shapes, rows, at, new_data, read_status>>
    BY <1>4 DEF AddResult, AddData, cache
  <2>2. /\ m \in Nat /\ n \in Nat /\ measured'[s] = m + n
        /\ \A t \in Trees : t # s => measured'[t] = measured[t]
        /\ \A t \in Trees : measured[t] <= measured'[t]
    <3>1. n \in Nat /\ \A t \in Trees : measured[t] \in Nat
      BY <1>3, Constants
    <3>2. measured'[s] = measured[s] + n
            /\ \A t \in Trees : t # s => measured'[t] = measured[t]
      BY <2>1 DEF TypeOK
    <3>3. measured[s] <= measured'[s] /\ \A t \in Trees : measured[t] <= measured[t]
      BY <3>1, <3>2
    <3>4. \A t \in Trees : measured[t] <= measured'[t]
      BY <3>2, <3>3
    <3> QED BY <3>1, <3>2, <3>4
  <2>3. UNCHANGED data => (Stuck(h) => Stuck(h)')
    BY <2>1 DEF Stuck, Asked
  <2>4. CASE /\ UNCHANGED cache
             /\ failed' \in {failed, failed \cup {"own"}}
             /\ in_memory_cache => failed' = failed \cup {"own"}
    <3>1. live[h] = "live" => h \in failed'
      BY <1>0, <2>4 DEF Filling
    <3>2. UNCHANGED <<data, write_status, read_status, live>>
      BY <2>4 DEF cache
    <3> QED BY <1>2, <1>3, <2>1, <2>2, <2>3, <2>4, <3>1, <3>2, CacheLeftAlone
  <2>5. CASE /\ in_memory_cache /\ live["own"] # "disk" /\ Fits(old, new, size)
             /\ data' = [data EXCEPT !["own"][s] = merged.data]
             /\ write_status' = [write_status EXCEPT !["own"][s] = merged.status]
             /\ live' = [live EXCEPT !["own"] =
                  IF \A t \in Trees : write_status'["own"][t] = NoStatus
                    THEN live["own"] ELSE "live"]
             /\ UNCHANGED failed
    <3> HIDE DEF merged
    <3>1. CASE h # "own"
      <4>1. \A t \in Trees : UNCHANGED <<data[h][t], write_status[h][t]>>
        BY <2>5, <3>1 DEF TypeOK
      <4>2. live'[h] = live[h] /\ live[h] # "live"
        BY <1>0, <2>5, <3>1 DEF TypeOK, Filling
      <4>3. Stuck(h) => Stuck(h)'
        BY <2>1, <4>1 DEF Stuck, Asked
      <4> QED BY <1>2, <1>3, <2>1, <2>2, <2>5, <4>1, <4>2, <4>3, CacheLeftAlone
    <3>2. CASE h = "own"
      <4>1. \A t \in Trees :
              Unfilled(data["own"][t], write_status["own"][t], shapes[t])
        <5>1. CASE live["own"] = "none"
          BY <1>0, <5>1 DEF Filling, Unfilled
        <5>2. CASE live["own"] = "live"
          BY <1>2, <3>2, <5>2 DEF BehindOf
        <5> QED BY <1>0, <2>5, <5>1, <5>2 DEF TypeOK
      <4>2. \A t \in Trees : write_status["own"][t] <= measured[t]
        <5> SUFFICES ASSUME NEW t \in Trees
                     PROVE  write_status["own"][t] <= measured[t]
          OBVIOUS
        <5>1. CASE live["own"] = "none"
          <6>1. write_status["own"][t] <= read_status["own"][t]
            BY <1>2, <3>2, <5>1 DEF ArrayOf, Known
          <6>2. read_status["own"][t] = 0
            BY <1>0, <5>1 DEF Filling
          <6> QED BY <1>3, <3>2, <6>1, <6>2 DEF NoStatus
        <5>2. CASE live["own"] = "live"
          BY <1>2, <3>2, <5>2 DEF ArrayOf, Known
        <5> QED BY <1>0, <2>5, <5>1, <5>2 DEF TypeOK
      <4>3. \A t \in Trees : "own" \notin failed =>
              Faithful(data["own"][t], write_status["own"][t], measured[t], shapes[t])
        <5> SUFFICES ASSUME NEW t \in Trees, "own" \notin failed
                     PROVE  Faithful(data["own"][t], write_status["own"][t],
                                     measured[t], shapes[t])
          OBVIOUS
        <5>1. CASE live["own"] = "none"
          <6>1. data["own"][t] = <<>> /\ measured[t] = 0
            BY <1>0, <2>5, <5>1 DEF Filling
          <6> QED BY <6>1 DEF Faithful, InPlace
        <5>2. CASE live["own"] = "live"
          BY <1>2, <3>2, <5>2 DEF ArrayOf, Known, Refused
        <5> QED BY <1>0, <2>5, <5>1, <5>2 DEF TypeOK
      <4>4. Shaped(old, status, size)
        BY <1>2, <3>2 DEF ArrayOf
      <4>5. /\ Shaped(merged.data, merged.status, size)
            /\ Unfilled(merged.data, merged.status, size)
            /\ merged.status <= m + n
            /\ Faithful(old, status, m, size)
                 => Faithful(merged.data, merged.status, m + n, size)
            /\ ~(size # 0 /\ m > size /\ Holed(old, size))
                 => Stays(old, merged.data)
        <5>1. old \in Seq(0..MaxPoints) /\ size \in Nat
              /\ status \in Nat \cup {NoStatus} /\ status <= m
          BY <1>0, <1>3, <3>2, <4>2 DEF TypeOK
        <5>2. Unfilled(old, status, size)
          BY <4>1
        <5> HIDE DEF old, status, size, m
        <5> QED BY <2>1, <2>2, <2>5, <4>4, <5>1, <5>2, MergedArray, Constants DEF merged
      <4>6. live'["own"] = "live"
        <5>3. CASE live["own"] = "live"
          BY <1>0, <2>5, <5>3 DEF TypeOK
        <5>4. CASE live["own"] # "live"
          <6>1. live["own"] = "none"
            BY <1>0, <2>5, <5>4 DEF TypeOK
          <6>2. old = <<>>
            BY <1>0, <6>1 DEF Filling
          <6>3. merged.status = Len(new)
            BY <6>2 DEF Merged, Created, merged
          <6>4. Len(new) = n /\ n > 0
            <7>1. n > 0
              BY Constants
            <7> QED BY <2>2, <7>1, UptoFacts
          <6>5. write_status'["own"][s] # NoStatus
            <7> HIDE DEF new
            <7>1. write_status'["own"][s] = merged.status
              BY <1>0, <2>5 DEF TypeOK
            <7> QED BY <6>3, <6>4, <7>1 DEF NoStatus
          <6>6. ~(\A t \in Trees : write_status'["own"][t] = NoStatus)
            BY <6>5
          <6>7. live' = [live EXCEPT !["own"] = "live"]
            BY <2>5, <6>6
          <6> QED BY <1>0, <6>7 DEF TypeOK
        <5> QED BY <5>3, <5>4
      <4>7. /\ data'["own"][s] = merged.data /\ write_status'["own"][s] = merged.status
            /\ \A t \in Trees : t # s =>
                 /\ data'["own"][t] = data["own"][t]
                 /\ write_status'["own"][t] = write_status["own"][t]
        <5>1. /\ data' = [data EXCEPT !["own"][s] = merged.data]
              /\ write_status' = [write_status EXCEPT !["own"][s] = merged.status]
          BY <2>5
        <5> DEFINE md == merged.data  ms == merged.status
        <5>2. data' = [data EXCEPT !["own"][s] = md]
          BY <5>1
        <5>3. write_status' = [write_status EXCEPT !["own"][s] = ms]
          BY <5>1
        <5> HIDE DEF md, ms
        <5>4. /\ data'["own"][s] = md
              /\ \A t \in Trees : t # s => data'["own"][t] = data["own"][t]
          <6>1. /\ "own" \in DOMAIN data /\ DOMAIN data["own"] = Trees
            BY <1>0 DEF TypeOK, Handles
          <6> QED BY <5>2, <6>1
        <5>5. /\ write_status'["own"][s] = ms
              /\ \A t \in Trees : t # s => write_status'["own"][t] = write_status["own"][t]
          <6>1. /\ "own" \in DOMAIN write_status /\ DOMAIN write_status["own"] = Trees
            BY <1>0 DEF TypeOK, Handles
          <6> QED BY <5>3, <6>1
        <5> QED BY <5>4, <5>5 DEF md, ms
      <4>8. ASSUME NEW t \in Trees PROVE ArrayOf(h, t)'
        <5>1. Known(h, t)' = measured'[t] /\ (~Refused(h)' => "own" \notin failed)
          BY <2>5, <3>2, <4>6 DEF Known, Refused
        <5>2. CASE t = s
          BY <2>1, <2>2, <3>2, <4>3, <4>5, <4>7, <5>1, <5>2 DEF ArrayOf
        <5>3. CASE t # s
          <6>1. Shaped(data["own"][t], write_status["own"][t], shapes[t])
            BY <1>2, <3>2 DEF ArrayOf
          <6> QED BY <2>1, <2>2, <3>2, <4>2, <4>3, <4>7, <5>1, <5>3, <6>1 DEF ArrayOf
        <5> QED BY <5>2, <5>3
      <4>9. BehindOf(h)'
        BY <2>1, <3>2, <4>1, <4>5, <4>7 DEF BehindOf
      <4>10. ASSUME NEW t \in Trees PROVE StaysOf(h, t)
        <5>1. CASE t = s
          <6>1. ~Overflowed(h, t) => ~(size # 0 /\ m > size /\ Holed(old, size))
            <7>1. CASE live["own"] = "live"
              BY <3>2, <5>1, <7>1 DEF Overflowed, Known, Holed
            <7>2. CASE live["own"] = "none"
              BY <1>0, <7>2 DEF Filling, Holed
            <7> QED BY <1>0, <2>5, <7>1, <7>2 DEF TypeOK
          <6> QED BY <3>2, <4>5, <4>7, <5>1, <6>1 DEF StaysOf, PointsStay, Stays
        <5>2. CASE t # s
          BY <3>2, <4>7, <5>2 DEF StaysOf, PointsStay
        <5> QED BY <5>1, <5>2
      <4> QED BY <4>8, <4>9, <4>10
    <3> QED BY <3>1, <3>2
  <2> QED
    <3>1. (in_memory_cache /\ AddData(s, new))
            \/ (~in_memory_cache /\ UNCHANGED <<cache, failed>>)
      BY <1>4 DEF AddResult
    <3> QED BY <2>4, <2>5, <3>1 DEF AddData
<1>5. ASSUME UNCHANGED <<data, write_status, read_status, shapes, live, measured>>,
             failed \subseteq failed',
             live[h] # "live" /\ h \in failed /\ Stuck(h) => Stuck(h)'
      PROVE  Kept(h)
  <2>1. \A t \in Trees : measured'[t] \in Nat /\ measured[t] <= measured'[t]
    BY <1>3, <1>5
  <2> QED BY <1>2, <1>5, <2>1, CacheLeftAlone
<1>6. ASSUME NEW c \in Nat, Commit(c) PROVE Kept(h)
  <2>1. /\ UNCHANGED <<data, write_status, read_status, shapes, live, measured,
                       at, new_data, failed>>
        /\ c \in DOMAIN pending /\ rows' = pending[c]
    BY <1>6 DEF Commit, cache
  <2>2. \A t \in Trees : rows[t] <= rows'[t]
    BY <2>1 DEF Counts
  <2>3. ASSUME Stuck(h) PROVE Stuck(h)'
    <3>1. PICK t \in Trees :
            /\ data[h][t] = <<>>
            /\ shapes[t] # 0
            /\ rows[t] - read_status[h][t] > shapes[t]
            /\ Asked(h, t) => Len(new_data[h][t]) > shapes[t]
      BY <2>3 DEF Stuck
    <3>2. rows'[t] - read_status[h][t] > shapes[t]
      BY <1>3, <2>2, <3>1
    <3>3. Asked(h, t)' <=> Asked(h, t)
      BY <2>1 DEF Asked
    <3> QED BY <2>1, <3>1, <3>2, <3>3 DEF Stuck
  <2> QED BY <1>5, <2>1, <2>3
<1>7. ASSUME MarkCompleted PROVE Kept(h)
  <2>1. UNCHANGED <<data, write_status, read_status, shapes, live, measured,
                    at, new_data, failed, rows>>
    BY <1>7 DEF MarkCompleted, cache
  <2>2. Stuck(h) => Stuck(h)'
    BY <2>1 DEF Stuck, Asked
  <2> QED BY <1>5, <2>1, <2>2
<1>8. ASSUME NEW g \in Handles, g # h, Load(g) PROVE Kept(h)
  <2>1. /\ \A t \in Trees : UNCHANGED <<data[h][t], write_status[h][t],
                                         read_status[h][t], new_data[h][t]>>
        /\ UNCHANGED <<live[h], at[h], shapes, measured, rows>>
    <3>1. CASE LoadBegin(g)
      BY <1>8, <3>1 DEF LoadBegin, run, cache, TypeOK
    <3>2. CASE LoadTree(g)
      BY <1>8, <3>2 DEF LoadTree, run, cache, TypeOK
    <3>3. CASE LoadFails(g)
      BY <1>8, <3>3 DEF LoadFails, LoadOver, run, cache, TypeOK
    <3>4. CASE LoadEnd(g)
      BY <1>8, <3>4 DEF LoadEnd, LoadOver, run, TypeOK
    <3>5. CASE LoadRaises(g)
      BY <1>8, <3>5 DEF LoadRaises, LoadOver, run, TypeOK
    <3> QED BY <1>8, <3>1, <3>2, <3>3, <3>4, <3>5 DEF Load
  <2>2. failed \subseteq failed'
    BY <1>8 DEF Load, LoadBegin, LoadTree, LoadFails, LoadEnd, LoadRaises
  <2>3. Stuck(h) => Stuck(h)'
    BY <2>1 DEF Stuck, Asked
  <2>4. \A t \in Trees : measured'[t] \in Nat /\ measured[t] <= measured'[t]
    BY <1>3, <2>1
  <2> QED BY <1>2, <2>1, <2>2, <2>3, <2>4, CacheLeftAlone
<1>9. ASSUME LoadBegin(h) PROVE Kept(h)
  <2>1. /\ UNCHANGED <<data, write_status, read_status, shapes, live, measured,
                       new_data, failed, rows>>
        /\ at'[h] = 1
    BY <1>9 DEF LoadBegin, cache, run, TypeOK
  <2>2. \A t \in Trees : ~Asked(h, t)'
    BY <2>1, TreeNames DEF Asked
  <2>3. Stuck(h) => Stuck(h)'
    BY <2>1, <2>2 DEF Stuck
  <2> QED BY <1>5, <2>1, <2>3
<1>10. ASSUME LoadTree(h) PROVE Kept(h)
  <2> DEFINE s == non_dependencies[at[h]]
  <2>1. /\ at[h] \in 1..Len(non_dependencies) /\ s \in Trees
        /\ new_data' = [new_data EXCEPT ![h][s] = NewRows(h, s)]
        /\ at'[h] = at[h] + 1
        /\ UNCHANGED <<data, write_status, read_status, shapes, live, measured,
                       failed, rows>>
    BY <1>10, TreeNames DEF LoadTree, cache, run, TypeOK
  <2>2. ASSUME Stuck(h) PROVE Stuck(h)'
    <3>1. PICK t \in Trees :
            /\ data[h][t] = <<>>
            /\ shapes[t] # 0
            /\ rows[t] - read_status[h][t] > shapes[t]
            /\ Asked(h, t) => Len(new_data[h][t]) > shapes[t]
      BY <2>2 DEF Stuck
    <3>2. Asked(h, t)' => Len(new_data'[h][t]) > shapes[t]
      <4>1. CASE t = s
        <5>1. new_data'[h][t] = NewRows(h, t)
          BY <2>1, <4>1 DEF TypeOK
        <5>2. read_status[h][t] + Len(NewRows(h, t)) = rows[t]
                /\ Len(NewRows(h, t)) \in Nat
          BY NewRowsFacts
        <5>3. Len(NewRows(h, t)) > shapes[t]
          BY <1>3, <3>1, <5>2
        <5> QED BY <5>1, <5>3
      <4>2. CASE t # s
        <5>1. new_data'[h][t] = new_data[h][t]
          BY <2>1, <4>2 DEF TypeOK
        <5>2. Asked(h, t)' => Asked(h, t)
          <6>1. \A i \in DOMAIN non_dependencies :
                  non_dependencies[i] = t => (i < at'[h] <=> i < at[h])
            BY <2>1, <4>2, TreeNames
          <6> QED BY <6>1 DEF Asked
        <5> QED BY <3>1, <5>1, <5>2
      <4> QED BY <4>1, <4>2
    <3> HIDE DEF s
    <3> QED BY <2>1, <3>1, <3>2 DEF Stuck
  <2> HIDE DEF s
  <2> QED BY <1>5, <2>1, <2>2
<1>11. ASSUME LoadOver(h)
       PROVE  /\ \A t \in Trees : ~Asked(h, t)'
              /\ UNCHANGED <<rows, shapes, measured>>
  <2>1. at'[h] = 0 /\ UNCHANGED <<rows, shapes, measured>>
    BY <1>11 DEF LoadOver, run, TypeOK
  <2> QED BY <2>1, TreeNames DEF Asked
<1>12. ASSUME LoadFails(h) PROVE Kept(h)
  <2>1. /\ LoadOver(h) /\ failed \subseteq failed'
        /\ UNCHANGED <<data, write_status, read_status, live>>
    BY <1>12 DEF LoadFails, cache
  <2>2. Stuck(h) => Stuck(h)'
    BY <1>11, <2>1 DEF Stuck
  <2> QED BY <1>5, <1>11, <2>1, <2>2
<1>13. at[h] # 0 => live[h] # "live"
  BY <1>0 DEF Filling
<1>14. ASSUME LoadEnd(h) PROVE Kept(h)
  <2>1. /\ at[h] = Len(non_dependencies) + 1
        /\ \A t \in Trees : TreeFits(h, t)
        /\ data' = [data EXCEPT ![h] = [t \in Trees |-> MergedTree(h, t).data]]
        /\ write_status' = [write_status EXCEPT ![h] =
                              [t \in Trees |-> MergedTree(h, t).status]]
        /\ read_status' = [read_status EXCEPT ![h] =
             [t \in Trees |-> read_status[h][t] + Len(new_data[h][t])]]
        /\ live' = [live EXCEPT ![h] =
             IF \A t \in Trees : write_status'[h][t] \in {0, NoStatus}
               THEN live[h] ELSE "disk"]
        /\ LoadOver(h)
    BY <1>14 DEF LoadEnd
  <2>2. live[h] # "live" /\ live'[h] # "live"
    <3>1. at[h] # 0
      BY <2>1, TreeNames
    <3> QED BY <1>13, <2>1, <3>1 DEF TypeOK
  <2>3. \A t \in Trees : /\ data'[h][t] = MergedTree(h, t).data
                         /\ write_status'[h][t] = MergedTree(h, t).status
                         /\ read_status'[h][t] = ReadTo(h, t)
    BY <2>1 DEF TypeOK, ReadTo
  <2>4. ~Stuck(h)
    <3> SUFFICES ASSUME NEW t \in Trees, data[h][t] = <<>>, shapes[t] # 0,
                        Asked(h, t) => Len(new_data[h][t]) > shapes[t]
                 PROVE  FALSE
      BY DEF Stuck
    <3>1. Asked(h, t)
      <4>1. PICK i \in DOMAIN non_dependencies : non_dependencies[i] = t
        BY TreeNames
      <4>2. i < at[h]
        BY <2>1, TreeNames
      <4> QED BY <4>1, <4>2 DEF Asked
    <3>2. Len(new_data[h][t]) <= shapes[t]
      BY <2>1 DEF TreeFits, Fits
    <3>3. Len(new_data[h][t]) \in Nat
      BY LoadType
    <3> QED BY <1>3, <3>1, <3>2, <3>3
  <2>5. \A t \in Trees : Unfilled(data[h][t], write_status[h][t], shapes[t])
    BY <1>2, <2>4 DEF BehindOf
  <2>6. \A t \in Trees :
          /\ Shaped(MergedTree(h, t).data, MergedTree(h, t).status, shapes[t])
          /\ Unfilled(MergedTree(h, t).data, MergedTree(h, t).status, shapes[t])
          /\ MergedTree(h, t).status <= ReadTo(h, t)
          /\ Faithful(MergedTree(h, t).data, MergedTree(h, t).status,
                      ReadTo(h, t), shapes[t])
          /\ ~Overflowed(h, t) => Stays(data[h][t], MergedTree(h, t).data)
    BY <2>1, <2>2, <2>5, LoadedArray
  <2>7. ASSUME NEW t \in Trees PROVE ArrayOf(h, t)'
    <3>1. Known(h, t)' = ReadTo(h, t)
      BY <2>2, <2>3 DEF Known
    <3> QED BY <1>11, <2>1, <2>3, <2>6, <3>1 DEF ArrayOf
  <2>8. BehindOf(h)'
    BY <1>11, <2>1, <2>3, <2>6 DEF BehindOf
  <2>9. ASSUME NEW t \in Trees PROVE StaysOf(h, t)
    BY <2>3, <2>6 DEF StaysOf, PointsStay, Stays
  <2> QED BY <2>7, <2>8, <2>9
<1>15. ASSUME LoadRaises(h) PROVE Kept(h)
  <2>1. /\ at[h] = Len(non_dependencies) + 1
        /\ LoadOver(h) /\ failed' = failed \cup {h}
        /\ UNCHANGED <<read_status, write_status, live>>
    BY <1>15 DEF LoadRaises
  <2>2. live[h] # "live" /\ live'[h] # "live"
    <3>1. at[h] # 0
      BY <2>1, TreeNames
    <3> QED BY <1>13, <2>1, <3>1
  <2>3. PICK filled \in SUBSET Trees :
          /\ data' = [data EXCEPT ![h] =
                        [t \in Trees |-> IF t \in filled THEN MergedTree(h, t).data
                                                         ELSE data[h][t]]]
          /\ \A t \in filled : Len(MergedTree(h, t).data) = Len(data[h][t])
                                 /\ TreeFits(h, t)
          /\ \E t \in Trees : ~TreeFits(h, t)
    BY <1>15, RaisesFacts
  <2>4. \A t \in Trees : data'[h][t] = IF t \in filled THEN MergedTree(h, t).data
                                                      ELSE data[h][t]
    BY <2>3 DEF TypeOK
  <2>5. ASSUME NEW t \in Trees PROVE ArrayOf(h, t)' /\ StaysOf(h, t)
    <3>1. /\ Shaped(data[h][t], write_status[h][t], shapes[t])
          /\ write_status[h][t] <= read_status[h][t]
          /\ Faithful(data[h][t], write_status[h][t], read_status[h][t], shapes[t])
      BY <1>2, <2>2 DEF ArrayOf, Known, Refused
    <3>2. Known(h, t)' = read_status[h][t] /\ shapes'[t] = shapes[t]
      BY <1>11, <2>1, <2>2 DEF Known
    <3>3. CASE t \in filled
      <4>1. data'[h][t] = MergedTree(h, t).data
        BY <2>4, <3>3
      <4>2. /\ Shaped(MergedTree(h, t).data, write_status[h][t], shapes[t])
            /\ Faithful(MergedTree(h, t).data, write_status[h][t],
                        read_status[h][t], shapes[t])
            /\ ~Overflowed(h, t) => Stays(data[h][t], MergedTree(h, t).data)
        BY <2>2, <2>3, <3>3, LoadedArray
      <4>3. ArrayOf(h, t)'
        BY <2>1, <3>1, <3>2, <4>1, <4>2 DEF ArrayOf
      <4>4. StaysOf(h, t)
        BY <4>1, <4>2 DEF StaysOf, PointsStay, Stays
      <4> QED BY <4>3, <4>4
    <3>4. CASE t \notin filled
      <4>1. data'[h][t] = data[h][t]
        BY <2>4, <3>4
      <4>2. ArrayOf(h, t)'
        BY <2>1, <3>1, <3>2, <4>1 DEF ArrayOf
      <4>3. StaysOf(h, t)
        BY <4>1 DEF StaysOf, PointsStay
      <4> QED BY <4>2, <4>3
    <3> QED BY <3>3, <3>4
  <2>6. Stuck(h)'
    <3>1. PICK t \in Trees : ~TreeFits(h, t)
      BY <2>3
    <3>2. /\ data[h][t] = <<>> /\ shapes[t] # 0
          /\ ~(Len(new_data[h][t]) <= shapes[t])
      BY <3>1 DEF TreeFits, Fits
    <3>3. data'[h][t] = <<>>
      BY <2>3, <2>4, <3>1, <3>2
    <3>4. rows[t] - read_status[h][t] > shapes[t]
      <4> DEFINE l == Len(new_data[h][t])
      <4>1. l \in Nat /\ ~(l <= shapes[t]) /\ read_status[h][t] + l <= rows[t]
        BY <3>2, LoadType DEF Reads, ReadTo
      <4> HIDE DEF l
      <4> QED BY <1>3, <4>1
    <3> QED BY <1>11, <2>1, <3>2, <3>3, <3>4 DEF Stuck
  <2>7. BehindOf(h)'
    BY <2>1, <2>2, <2>6 DEF BehindOf
  <2> QED BY <2>5, <2>7
<1>16. ASSUME Load(h) PROVE Kept(h)
  BY <1>9, <1>10, <1>12, <1>14, <1>15, <1>16 DEF Load
<1> HIDE DEF Kept
<1> QED BY <1>4, <1>6, <1>7, <1>8, <1>16 DEF Next
(* In the beginning nothing is known of any tree.                          *)
LEMMA InitInvariant ==
  ASSUME Init
  PROVE  IInv
<1>0. /\ Hole = 0 /\ NoStatus = -1
      /\ 0 \in 0..MaxPoints
      /\ 0 \in 0..(Len(non_dependencies) + 1)
  BY Constants, TreeNames DEF Hole, NoStatus
<1>1. \A h \in Handles, t \in Trees :
        /\ measured[t] = 0 /\ rows[t] = 0 /\ read_status[h][t] = 0
        /\ data[h][t] = <<>> /\ new_data[h][t] = <<>>
        /\ write_status[h][t] = NoStatus
        /\ live[h] = "none" /\ at[h] = 0 /\ ~loaded[h] /\ ~completed[h]
        /\ shapes[t] \in Nat
  BY Constants DEF Init, ForEach, EachTree
<1>2. TypeOK
  <2>1. /\ in_memory_cache \in BOOLEAN /\ shapes \in Shapes
        /\ is_completed \in BOOLEAN /\ failed \subseteq Handles
        /\ completed \in [Handles -> BOOLEAN]
        /\ loaded \in [Handles -> BOOLEAN]
        /\ live \in [Handles -> {"none", "live", "disk"}]
    BY DEF Init, ForEach
  <2>2. /\ measured \in [Trees -> 0..MaxPoints]
        /\ rows \in [Trees -> 0..MaxPoints]
        /\ read_status \in [Handles -> [Trees -> 0..MaxPoints]]
        /\ at \in [Handles -> 0..(Len(non_dependencies) + 1)]
    BY <1>0 DEF Init, ForEach, EachTree
  <2>3. write_status \in [Handles -> [Trees -> Nat \cup {NoStatus}]]
    BY DEF Init, ForEach, EachTree
  <2>4. pending \in Seq([Trees -> 0..MaxPoints])
    BY EmptySeq DEF Init
  <2>5. data \in [Handles -> [Trees -> Seq(0..MaxPoints)]]
    <3>1. <<>> \in Seq(0..MaxPoints)
      BY EmptySeq
    <3> QED BY <3>1 DEF Init, ForEach, EachTree
  <2>6. new_data \in [Handles -> [Trees -> Seq(1..MaxPoints)]]
    <3>1. <<>> \in Seq(1..MaxPoints)
      BY EmptySeq
    <3> QED BY <3>1 DEF Init, ForEach, EachTree
  <2> QED BY <2>1, <2>2, <2>3, <2>4, <2>5, <2>6 DEF TypeOK
<1>3. Counts
  <2>1. pending = <<>> /\ DOMAIN pending = {} /\ rows = measured
    BY DEF Init
  <2> QED BY <1>1, <2>1 DEF Counts, Handles
<1>4. Completion
  BY DEF Init, Completion, ForEach, Handles
<1>5. Reads
  <2>1. ASSUME NEW h \in Handles, NEW t \in Trees PROVE ReadsOf(h, t)
    <3>1. Len(new_data[h][t]) = 0
      BY <1>1, EmptySeq
    <3>2. ReadTo(h, t) = 0
      BY <1>1, <3>1 DEF ReadTo
    <3>3. Upto(0, 0) = <<>>
      BY DEF Upto
    <3> QED BY <1>1, <3>2, <3>3 DEF ReadsOf
  <2> QED BY <2>1 DEF Reads, ReadsOf
<1>6. Filling
  <2>1. "own" \in Handles /\ "reader" \in Handles
    BY DEF Handles
  <2>2. live["own"] = "none" /\ live["reader"] = "none"
    BY <2>1 DEF Init, ForEach
  <2>3. \A t \in Trees : measured[t] = 0
    BY <1>1, <2>1
  <2> QED BY <1>1, <2>2, <2>3 DEF Filling
<1>7. Arrays
  BY <1>0, <1>1 DEF Arrays, Shaped, Known, Faithful, InPlace
<1>8. NothingBehind
  BY <1>1 DEF NothingBehind, Unfilled
<1> QED BY <1>2, <1>3, <1>4, <1>5, <1>6, <1>7, <1>8 DEF IInv

(* A step keeps the invariant, and points where they are.                  *)
LEMMA InvariantKept ==
  ASSUME IInv, [Next]_vars
  PROVE  IInv' /\ \A h \in Handles, t \in Trees : StaysOf(h, t)
<1>1. CASE Next
  <2>1. TypeOK'
    BY <1>1, TypeKept DEF IInv
  <2>2. Counts' /\ Completion' /\ Reads' /\ Filling'
    BY <1>1, CountsKept, CompletionKept, ReadsKept, FillingKept DEF IInv
  <2>3. /\ Arrays' /\ NothingBehind'
        /\ \A h \in Handles, t \in Trees : StaysOf(h, t)
    BY <1>1, <2>1, ArraysKept DEF IInv
  <2> QED BY <2>1, <2>2, <2>3 DEF IInv
<1>2. CASE UNCHANGED vars
  <2>1. TypeOK' /\ Counts' /\ Completion'
    BY <1>2 DEF vars, run, cache, IInv, TypeOK, Counts, Completion
  <2>2. Reads' /\ Filling'
    BY <1>2 DEF vars, run, cache, IInv, Reads, ReadTo, Asked, Filling
  <2>3. Arrays'
    BY <1>2 DEF vars, run, cache, IInv, Arrays, Known, Refused
  <2>4. NothingBehind'
    BY <1>2 DEF vars, run, cache, IInv, NothingBehind, Stuck, Asked
  <2>5. \A h \in Handles, t \in Trees : StaysOf(h, t)
    BY <1>2 DEF vars, cache, StaysOf, PointsStay
  <2> QED BY <2>1, <2>2, <2>3, <2>4, <2>5 DEF IInv
<1> QED BY <1>1, <1>2

-----------------------------------------------------------------------------
(* The theorems.                                                           *)

(* The inductive invariant holds in every behaviour.                       *)
THEOREM Invariance == Spec => []IInv
<1>1. Init => IInv
  BY InitInvariant
<1>2. IInv /\ [Next]_vars => IInv'
  BY InvariantKept
<1> QED BY <1>1, <1>2, PTL DEF Spec

(* Every variable keeps its type: an array never holds anything but points *)
(* of the run and unfilled places.                                         *)
THEOREM TypeCorrect == Spec => []TypeOK
<1>1. IInv => TypeOK
  BY DEF IInv
<1> QED BY <1>1, Invariance, PTL

(* What the invariant says of an array that has not overflowed.            *)
LEMMA ArrayFacts ==
  ASSUME IInv, NEW h \in Handles, NEW t \in Trees,
         ~Refused(h), ~Overflowed(h, t)
  PROVE  /\ Known(h, t) \in Nat /\ shapes[t] \in Nat
         /\ Len(data[h][t]) \in Nat
         /\ DOMAIN data[h][t] = 1..Len(data[h][t])
         /\ Len(data[h][t]) = 0 <=> data[h][t] = <<>>
         /\ InPlace(data[h][t], Known(h, t))
         /\ Known(h, t) = 0 => Len(data[h][t]) = 0
         /\ Known(h, t) # 0 =>
              Len(data[h][t]) = IF Known(h, t) <= shapes[t] THEN shapes[t]
                                                          ELSE Known(h, t)
         /\ shapes[t] # 0 /\ data[h][t] # <<>> => write_status[h][t] = Known(h, t)
<1> DEFINE d == data[h][t]
           s == write_status[h][t]
           k == Known(h, t)
           size == shapes[t]
           n == Len(d)
<1>1. /\ k \in Nat /\ size \in Nat
      /\ d \in Seq(0..MaxPoints)
  BY Constants DEF IInv, TypeOK, Known
<1>2. n \in Nat /\ DOMAIN d = 1..n /\ (n = 0 <=> d = <<>>)
  BY <1>1, EmptySeq
<1>3. Shaped(d, s, size) /\ Faithful(d, s, k, size)
  BY DEF IInv, Arrays
<1>4. ~(size # 0 /\ k > size /\ Holed(d, size))
  BY DEF Overflowed, Holed
<1>5. InPlace(d, k)
  BY <1>3, <1>4 DEF Faithful
<1>6. size # 0 /\ d # <<>> => s = k
  BY <1>3 DEF Faithful
<1>7. k = 0 => n = 0
  BY <1>2, <1>3 DEF Faithful
<1>8. ASSUME k # 0 PROVE n = IF k <= size THEN size ELSE k
  <2>1. d # <<>>
    BY <1>3, <1>8 DEF Faithful
  <2>2. CASE size = 0
    <3>1. n = k
      BY <1>3, <2>2 DEF Faithful
    <3> HIDE DEF n, k
    <3> QED BY <1>1, <1>8, <2>2, <3>1
  <2>3. CASE size # 0
    <3>1. /\ k <= size => n = size
          /\ k > size => n = k \/ Holed(d, size)
      BY <1>3, <1>6, <2>1, <2>3 DEF Shaped
    <3>2. k > size => n = k
      BY <1>4, <2>3, <3>1
    <3> HIDE DEF n, k, size
    <3> QED BY <1>1, <3>1, <3>2
  <2> QED BY <2>2, <2>3
<1> QED BY <1>1, <1>2, <1>5, <1>6, <1>7, <1>8

(* A cache between loads holds the first points of every tree, each in its *)
(* place, whatever the chunks, the commits between the queries of a load   *)
(* and the loads that failed: add_data, load_data_from_db and              *)
(* _merge_data agree on where a point belongs.                             *)
THEOREM HoldsWhatItKnows == Spec => []CacheIsPrefix
<1>1. ASSUME IInv PROVE CacheIsPrefix
  <2>1. SUFFICES ASSUME NEW h \in Handles, NEW t \in Trees,
                        ~Refused(h), ~Overflowed(h, t)
                 PROVE  HoldsPrefix(h, t)
    BY <2>1 DEF CacheIsPrefix, Refused
  <2> DEFINE k == Known(h, t)
             n == Len(data[h][t])
  <2>2. /\ k \in Nat /\ shapes[t] \in Nat /\ n \in Nat
        /\ k = 0 => n = 0
        /\ k # 0 => n = IF k <= shapes[t] THEN shapes[t] ELSE k
        /\ InPlace(data[h][t], k)
    BY <1>1, <2>1, ArrayFacts
  <2>3. n >= k
    <3> HIDE DEF n, k
    <3> QED BY <2>2
  <2>4. \A i \in DOMAIN data[h][t] :
          data[h][t][i] \in IF i <= k THEN {i} ELSE {i, Hole}
    BY <2>2 DEF InPlace
  <2> QED BY <2>3, <2>4 DEF HoldsPrefix
<1> QED BY <1>1, Invariance, PTL

(* A cache that _loaded_from_completed_ds keeps from being loaded again    *)
(* has read all points of the run, although load_data_from_db asks whether *)
(* the run is completed before it reads the trees one by one.              *)
THEOREM NothingMissedForGood == Spec => []LastLoadIsWhole
<1>1. ASSUME IInv PROVE LastLoadIsWhole
  <2>1. SUFFICES ASSUME NEW h \in Handles \ failed, NEW t \in Trees,
                        loaded[h], at[h] = 0
                 PROVE  read_status[h][t] = measured[t]
    BY DEF LastLoadIsWhole
  <2>2. read_status[h][t] \in Nat
    BY <1>1, Constants DEF IInv, TypeOK
  <2>3. ~Asked(h, t)
    BY <2>1, TreeNames DEF Asked
  <2>4. new_data[h][t] = <<>> /\ ReadTo(h, t) = measured[t]
    BY <1>1, <2>1, <2>3 DEF IInv, Reads
  <2>5. Len(new_data[h][t]) = 0
    BY <2>4
  <2> QED BY <2>2, <2>4, <2>5 DEF ReadTo
<1> QED BY <1>1, Invariance, PTL

(* No load and no result moves or removes a point that is already in a     *)
(* cache, unless the array has overflowed.                                 *)
THEOREM PointsStayPut == Spec => CacheOnlyGrows
<1> DEFINE Stay == \A h \in Handles, t \in Trees :
                     ~Overflowed(h, t) => PointsStay(h, t)
<1>1. IInv /\ [Next]_vars => [Stay]_vars
  BY InvariantKept DEF StaysOf
<1> QED BY <1>1, Invariance, PTL DEF Spec, CacheOnlyGrows

(* The cache that add_data fills while measuring and the one a reader      *)
(* loads from the completed run are the same, however different the chunks *)
(* in which each got its points, unless an array overflowed.               *)
THEOREM SameFromFile == Spec => []LiveEqualsLoaded
<1>1. ASSUME IInv PROVE LiveEqualsLoaded
  <2>1. SUFFICES ASSUME live["own"] = "live", loaded["reader"],
                        at["reader"] = 0, failed = {}, NEW t \in Trees,
                        ~Overflowed("own", t), ~Overflowed("reader", t)
                 PROVE  data["own"][t] = data["reader"][t]
    BY DEF LiveEqualsLoaded, Handles
  <2>2. "own" \in Handles /\ "reader" \in Handles
    BY DEF Handles
  <2> DEFINE k == measured[t]
             size == shapes[t]
             o == data["own"][t]
             r == data["reader"][t]
             n == Len(o)
             l == Len(r)
  <2>3. Known("own", t) = k /\ Known("reader", t) = k
    <3>1. ~Asked("reader", t)
      BY <2>1, TreeNames DEF Asked
    <3>2. new_data["reader"][t] = <<>> /\ ReadTo("reader", t) = k
      BY <1>1, <2>1, <2>2, <3>1 DEF IInv, Reads
    <3>3. Len(new_data["reader"][t]) = 0 /\ read_status["reader"][t] \in Nat
      BY <1>1, <2>2, <3>2, Constants DEF IInv, TypeOK
    <3>4. read_status["reader"][t] = k
      BY <3>2, <3>3 DEF ReadTo
    <3>5. live["reader"] # "live"
      BY <1>1 DEF IInv, Filling
    <3> QED BY <2>1, <3>4, <3>5 DEF Known
  <2>4. ~Refused("own") /\ ~Refused("reader")
    BY <2>1 DEF Refused
  <2>5. /\ k \in Nat /\ size \in Nat
        /\ n \in Nat /\ DOMAIN o = 1..n /\ (n = 0 <=> o = <<>>)
        /\ k = 0 => n = 0
        /\ k # 0 => n = IF k <= size THEN size ELSE k
        /\ InPlace(o, k)
        /\ size # 0 /\ o # <<>> => write_status["own"][t] = k
    BY <1>1, <2>1, <2>2, <2>3, <2>4, ArrayFacts
  <2>6. /\ l \in Nat /\ DOMAIN r = 1..l /\ (l = 0 <=> r = <<>>)
        /\ k = 0 => l = 0
        /\ k # 0 => l = IF k <= size THEN size ELSE k
        /\ InPlace(r, k)
        /\ size # 0 /\ r # <<>> => write_status["reader"][t] = k
    BY <1>1, <2>1, <2>2, <2>3, <2>4, ArrayFacts
  <2>7. l = n
    BY <2>5, <2>6
  <2>8. /\ Unfilled(o, write_status["own"][t], size)
        /\ Unfilled(r, write_status["reader"][t], size)
    BY <1>1, <2>1, <2>2 DEF IInv, NothingBehind
  <2>9. ASSUME NEW i \in 1..n PROVE o[i] = r[i]
    <3>1. CASE i <= k
      BY <2>5, <2>6, <2>7, <2>9, <3>1 DEF InPlace
    <3>2. CASE i > k
      <4>1. o # <<>> /\ r # <<>> /\ k # 0
        BY <2>5, <2>6, <2>7, <2>9
      <4>2. size # 0 /\ k <= size
        <5>1. n = IF k <= size THEN size ELSE k
          BY <2>5, <4>1
        <5> HIDE DEF n, k, size
        <5> QED BY <2>5, <2>9, <3>2, <4>1, <5>1
      <4>3. /\ write_status["own"][t] = k
            /\ write_status["reader"][t] = k
        BY <2>5, <2>6, <4>1, <4>2
      <4>4. o[i] = Hole /\ r[i] = Hole
        BY <2>5, <2>6, <2>7, <2>8, <2>9, <3>2, <4>1, <4>2, <4>3 DEF Unfilled
      <4> QED BY <4>4
    <3> QED BY <2>5, <2>9, <3>1, <3>2
  <2>10. o \in Seq(0..MaxPoints) /\ r \in Seq(0..MaxPoints)
    BY <1>1, <2>2 DEF IInv, TypeOK
  <2>11. o = r
    <3>1. Len(o) = Len(r)
      BY <2>7
    <3>2. \A i \in 1..Len(o) : o[i] = r[i]
      BY <2>9
    <3> HIDE DEF o, r
    <3> QED BY <2>10, <3>1, <3>2, SeqEqual
  <2> QED BY <2>11
<1> QED BY <1>1, Invariance, PTL
=============================================================================
