---------------------------- MODULE DataSetCache ----------------------------
(***************************************************************************)
(* The caches of one run: the one of the DataSet that measures it, which   *)
(* is filled as results are added (in_memory_cache) or read from the file, *)
(* and the one of a DataSet opened elsewhere with load_by_id, which reads  *)
(* the file while it is being written.                                     *)
(*                                                                         *)
(* Results are stored per parameter tree; the n-th point of a tree is the  *)
(* number n.  Every tree is read by a query of its own, so a read is split *)
(* there and the writer may commit in between.  A completed run has all    *)
(* its results in the file (CompletedIsDurable of DataSetWriter).          *)
(***************************************************************************)
EXTENDS Integers, Sequences

CONSTANTS
  non_dependencies,  \* the trees, a sequence of names
  Shapes,            \* what shapes a run may have
  LoadsMayFail,      \* may a query raise (locked file)?
  MaxPoints,         \* bound: points of one tree
  MaxChunk           \* bound: points of a tree in one result

Trees == {non_dependencies[i] : i \in DOMAIN non_dependencies}

ASSUME CacheAssumption ==
  /\ non_dependencies \in Seq(Trees)
  /\ \A i, j \in DOMAIN non_dependencies :
       non_dependencies[i] = non_dependencies[j] => i = j
  /\ Shapes \subseteq [Trees -> Nat]
  /\ LoadsMayFail \in BOOLEAN
  /\ MaxPoints \in Nat
  /\ MaxChunk \in Nat

VARIABLES
  in_memory_cache,  \* of Measurement.run
  shapes,        \* of each tree: its size in points, 0 if it has none
  measured,      \* points handed over, per tree
  pending,       \* what measured was after each result not yet committed
  rows,          \* points in the results table, per tree
  is_completed,  \* in the file
  \* per handle of the run
  completed,     \* _completed
  data,          \* _data
  read_status,
  write_status,
  live,
  loaded,        \* _loaded_from_completed_ds
  at,            \* 0, or the tree load_data_from_db reads next
  new_data,      \* what it has read so far
  failed         \* handles whose cache refused a result or failed to load

run   == <<in_memory_cache, shapes, measured, pending, rows, is_completed>>
cache == <<data, read_status, write_status, live>>
vars  == <<run, completed, cache, loaded, at, new_data, failed>>

Handles == {"own", "reader"}

Hole == 0       \* NaN, or zero, where a shaped array is not filled
NoStatus == -1  \* None

TypeOK ==
  /\ in_memory_cache \in BOOLEAN
  /\ shapes \in Shapes
  /\ measured \in [Trees -> 0..MaxPoints]
  /\ pending \in Seq([Trees -> 0..MaxPoints])
  /\ rows \in [Trees -> 0..MaxPoints]
  /\ is_completed \in BOOLEAN
  /\ completed \in [Handles -> BOOLEAN]
  /\ data \in [Handles -> [Trees -> Seq(0..MaxPoints)]]
  /\ read_status \in [Handles -> [Trees -> 0..MaxPoints]]
  /\ write_status \in [Handles -> [Trees -> Nat \cup {NoStatus}]]
  /\ live \in [Handles -> {"none", "live", "disk"}]
  /\ loaded \in [Handles -> BOOLEAN]
  /\ at \in [Handles -> 0..(Len(non_dependencies) + 1)]
  /\ new_data \in [Handles -> [Trees -> Seq(1..MaxPoints)]]
  /\ failed \subseteq Handles

ForEach(x) == [h \in Handles |-> x]
EachTree(x) == [t \in Trees |-> x]

Init ==
  /\ in_memory_cache \in BOOLEAN
  /\ shapes \in Shapes
  /\ measured = EachTree(0)
  /\ pending = <<>>
  /\ rows = EachTree(0)
  /\ is_completed = FALSE
  /\ completed = ForEach(FALSE)
  /\ data = ForEach(EachTree(<<>>))
  /\ read_status = ForEach(EachTree(0))
  /\ write_status = ForEach(EachTree(NoStatus))
  /\ live = ForEach("none")
  /\ loaded = ForEach(FALSE)
  /\ at = ForEach(0)
  /\ new_data = ForEach(EachTree(<<>>))
  /\ failed = {}

-----------------------------------------------------------------------------
(* One tree: an array takes in new points.                                 *)

Upto(from, to) == [i \in 1..(to - from) |-> from + i]

(* _create_new_data_dict; numpy cannot put more points than the shape has  *)
(* into the array.                                                         *)
Fits(old, new, size) == old # <<>> \/ size = 0 \/ Len(new) <= size

Created(new, size) ==
  [data |-> IF size = 0 \/ new = <<>> THEN new
              ELSE [i \in 1..size |-> IF i <= Len(new) THEN new[i] ELSE Hole],
   status |-> Len(new)]

(* A slip: the new points go where the array ends, not where it is filled. *)
InsertedAtEnd(old, status, new) == [data |-> old \o new, status |-> NoStatus]

(* A slip: the first new point goes on top of the last one.                *)
InsertedFromStatus(old, status, new) ==
  LET end == status + Len(new)
  IN IF status = NoStatus
       THEN [data |-> old \o new, status |-> NoStatus]
       ELSE [data |-> IF end > Len(old) THEN old \o new
                      ELSE [i \in DOMAIN old |->
                              IF i \in status..(end - 1)
                                THEN new[i - status + 1] ELSE old[i]],
             status |-> end]

(* _insert_into_data_dict: appended without a shape; a shaped array is     *)
(* filled in place, and one that is too small is flattened and extended.   *)
Inserted(old, status, new) ==
  LET end == status + Len(new)
  IN IF status = NoStatus
       THEN [data |-> old \o new, status |-> NoStatus]
       ELSE [data |-> IF end > Len(old) THEN old \o new
                      ELSE [i \in DOMAIN old |->
                              IF i \in (status + 1)..end THEN new[i - status]
                                                         ELSE old[i]],
             status |-> end]

Merged(old, status, new, size) ==
  IF old = <<>> THEN Created(new, size)
  ELSE IF new = <<>> THEN [data |-> old, status |-> status]
  ELSE Inserted(old, IF size = 0 THEN NoStatus ELSE status, new)

-----------------------------------------------------------------------------
(* The measuring process.                                                  *)

(* DataSetCache.add_data.  It is called last in _enqueue_results: if it    *)
(* raises, the result is on its way to the file all the same.              *)
AddData(t, new) ==
  LET old == data["own"][t]
      merged == Merged(old, write_status["own"][t], new, shapes[t])
  IN \/ /\ live["own"] = "disk" \/ ~Fits(old, new, shapes[t])
        /\ failed' = failed \cup {"own"}
        /\ UNCHANGED cache
     \/ /\ live["own"] # "disk"
        /\ Fits(old, new, shapes[t])
        /\ data' = [data EXCEPT !["own"][t] = merged.data]
        /\ write_status' = [write_status EXCEPT !["own"][t] = merged.status]
        /\ live' = [live EXCEPT !["own"] =
                      IF \A s \in Trees : write_status'["own"][s] = NoStatus
                        THEN @ ELSE "live"]
        /\ UNCHANGED <<read_status, failed>>

(* DataSet._enqueue_results with a result of n points of one tree.         *)
AddResult(t, n) ==
  /\ at["own"] = 0
  /\ ~completed["own"]
  /\ measured[t] + n <= MaxPoints
  /\ measured' = [measured EXCEPT ![t] = @ + n]
  /\ pending' = Append(pending, measured')
  /\ \/ in_memory_cache /\ AddData(t, Upto(measured[t], measured[t] + n))
     \/ ~in_memory_cache /\ UNCHANGED <<cache, failed>>
  /\ UNCHANGED <<in_memory_cache, shapes, rows, is_completed, completed, loaded,
                 at, new_data>>

(* A flush, or the writer thread: the next i results are committed.        *)
Commit(i) ==
  /\ i \in DOMAIN pending
  /\ rows' = pending[i]
  /\ pending' = SubSeq(pending, i + 1, Len(pending))
  /\ UNCHANGED <<in_memory_cache, shapes, measured, is_completed, completed,
                 cache, loaded, at, new_data, failed>>

MarkCompleted ==
  /\ at["own"] = 0
  /\ ~completed["own"]
  /\ pending = <<>>
  /\ is_completed' = TRUE
  /\ completed' = [completed EXCEPT !["own"] = TRUE]
  /\ UNCHANGED <<in_memory_cache, shapes, measured, pending, rows, cache,
                 loaded, at, new_data, failed>>

-----------------------------------------------------------------------------
(* load_data_from_db.                                                      *)

(* A slip: any load is taken for one of a completed run.                   *)
LoadBeginLast(h) ==
  /\ at[h] = 0
  /\ live[h] # "live"
  /\ ~loaded[h]
  /\ completed' = [completed EXCEPT ![h] = is_completed]
  /\ loaded' = [loaded EXCEPT ![h] = TRUE]
  /\ at' = [at EXCEPT ![h] = 1]
  /\ UNCHANGED <<run, cache, new_data, failed>>

LoadBegin(h) ==
  /\ at[h] = 0
  /\ live[h] # "live"
  /\ ~loaded[h]
  /\ completed' = [completed EXCEPT ![h] = is_completed]
  /\ loaded' = [loaded EXCEPT ![h] = is_completed]
  /\ at' = [at EXCEPT ![h] = 1]
  /\ UNCHANGED <<run, cache, new_data, failed>>

(* A slip: the first row is read again.                                    *)
NewRowsFromLast(h, t) ==
  LET start == read_status[h][t]
  IN Upto(IF start = 0 THEN 0 ELSE start - 1, rows[t])

NewRows(h, t) == Upto(read_status[h][t], rows[t])

LoadTree(h) ==
  /\ at[h] \in DOMAIN non_dependencies
  /\ LET t == non_dependencies[at[h]]
     IN new_data' = [new_data EXCEPT ![h][t] = NewRows(h, t)]
  /\ at' = [at EXCEPT ![h] = @ + 1]
  /\ UNCHANGED <<run, completed, cache, loaded, failed>>

LoadOver(h) ==
  /\ at' = [at EXCEPT ![h] = 0]
  /\ new_data' = [new_data EXCEPT ![h] = EachTree(<<>>)]
  /\ UNCHANGED <<run, completed, loaded>>

LoadFails(h) ==
  /\ LoadsMayFail
  /\ at[h] \in DOMAIN non_dependencies
  /\ LoadOver(h)
  /\ failed' = failed \cup {h}
  /\ UNCHANGED cache

MergedTree(h, t) ==
  Merged(data[h][t], write_status[h][t], new_data[h][t], shapes[t])

TreeFits(h, t) == Fits(data[h][t], new_data[h][t], shapes[t])

LoadEnd(h) ==
  /\ at[h] = Len(non_dependencies) + 1
  /\ \A t \in Trees : TreeFits(h, t)
  /\ data' = [data EXCEPT ![h] = [t \in Trees |-> MergedTree(h, t).data]]
  /\ write_status' = [write_status EXCEPT ![h] =
                        [t \in Trees |-> MergedTree(h, t).status]]
  /\ read_status' = [read_status EXCEPT ![h] =
                       [t \in Trees |-> @[t] + Len(new_data[h][t])]]
  /\ live' = [live EXCEPT ![h] =
                IF \A t \in Trees : write_status'[h][t] \in {0, NoStatus}
                  THEN @ ELSE "disk"]
  /\ LoadOver(h)
  /\ UNCHANGED failed

(* The merge raises: nothing is assigned, but arrays of the trees before   *)
(* the one that does not fit have been filled in place.                    *)
LoadRaises(h) ==
  LET bad == {i \in DOMAIN non_dependencies : ~TreeFits(h, non_dependencies[i])}
      filled == {t \in Trees :
                   /\ Len(MergedTree(h, t).data) = Len(data[h][t])
                   /\ \E i \in DOMAIN non_dependencies :
                        /\ non_dependencies[i] = t
                        /\ \A j \in bad : i < j}
  IN /\ at[h] = Len(non_dependencies) + 1
     /\ bad # {}
     /\ data' = [data EXCEPT ![h] =
                   [t \in Trees |-> IF t \in filled THEN MergedTree(h, t).data
                                                    ELSE @[t]]]
     /\ LoadOver(h)
     /\ failed' = failed \cup {h}
     /\ UNCHANGED <<read_status, write_status, live>>

-----------------------------------------------------------------------------
Load(h) ==
  \/ LoadBegin(h)
  \/ LoadTree(h)
  \/ LoadFails(h)
  \/ LoadEnd(h)
  \/ LoadRaises(h)

Next ==
  \/ \E t \in Trees, n \in 1..MaxChunk : AddResult(t, n)
  \/ \E i \in 1..(MaxPoints * Len(non_dependencies)) : Commit(i)
  \/ MarkCompleted
  \/ \E h \in Handles : Load(h)

Spec == Init /\ [][Next]_vars

(* Whoever opened the run elsewhere reads its cache again and again.       *)
FairSpec == Spec /\ WF_vars(Load("reader"))
-----------------------------------------------------------------------------
(* What must hold.                                                         *)

(* How far a cache knows a tree.                                           *)
Known(h, t) == IF live[h] = "live" THEN measured[t] ELSE read_status[h][t]

HoldsPrefix(h, t) ==
  /\ Len(data[h][t]) >= Known(h, t)
  /\ \A i \in DOMAIN data[h][t] :
       data[h][t][i] \in IF i <= Known(h, t) THEN {i} ELSE {i, Hole}

(* More points than the shape has came while the array was partly filled:  *)
(* its unfilled places stay where they are, in the middle.  The status     *)
(* counts points only, so that it lags behind the end of the array, and    *)
(* the next points are put on top of some already there.                   *)
Overflowed(h, t) ==
  /\ shapes[t] # 0
  /\ Known(h, t) > shapes[t]
  /\ \E i \in DOMAIN data[h][t] : i <= shapes[t] /\ data[h][t][i] = Hole

(* A cache between loads holds the first points of each tree, each in its  *)
(* place, however results were cut into chunks and commits fell between    *)
(* the queries of a load, also after loads that failed half way and where  *)
(* a full array is extended; what it does not yet count is unfilled, or    *)
(* was filled in place by a load that failed later.  Only a cache that is  *)
(* filled while measuring and refused a result has a gap, and only an      *)
(* array that overflowed has its points elsewhere.                         *)
CacheIsPrefix ==
  \A h \in Handles, t \in Trees :
    at[h] = 0 /\ ~(live[h] = "live" /\ h \in failed) /\ ~Overflowed(h, t)
      => HoldsPrefix(h, t)

(* A cache that will never be loaded again holds every point of the run,   *)
(* although is_completed and the trees are read one after the other,       *)
(* unless a load failed.                                                   *)
LastLoadIsWhole ==
  \A h \in Handles \ failed, t \in Trees :
    loaded[h] /\ at[h] = 0 => read_status[h][t] = measured[t]

(* The cache built while measuring and the one read from the file are the  *)
(* same once the run is completed, unfilled places included, but where     *)
(* either array overflowed.                                                *)
LiveEqualsLoaded ==
  live["own"] = "live" /\ loaded["reader"] /\ at["reader"] = 0 /\ failed = {} =>
    \A t \in Trees : \/ data["own"][t] = data["reader"][t]
                      \/ \E h \in Handles : Overflowed(h, t)

(* A point in tree t of a cache stays where it is.                         *)
PointsStay(h, t) ==
  \A i \in DOMAIN data[h][t] :
    data[h][t][i] # Hole => /\ i \in DOMAIN data'[h][t]
                            /\ data'[h][t][i] = data[h][t][i]

(* A point a user has seen in a cache stays where it is, unless the array  *)
(* has overflowed.                                                         *)
CacheOnlyGrows ==
  [][\A h \in Handles, t \in Trees : ~Overflowed(h, t) => PointsStay(h, t)]_vars

(* Who keeps reading a completed run gets all of it, or an exception.      *)
ReaderCatchesUp ==
  is_completed ~> \/ "reader" \in failed
                  \/ \A t \in Trees : read_status["reader"][t] = measured[t]
=============================================================================
