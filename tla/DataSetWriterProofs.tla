------------------------ MODULE DataSetWriterProofs ------------------------
(* Theorems about DataSetWriter, for any set of runs, any faults and any   *)
(* bounds.                                                                 *)
EXTENDS DataSetWriterInvariants, TLAPS

-----------------------------------------------------------------------------
(* Types.                                                                  *)

LEMMA ItemTypes ==
  /\ \A d \in Runs, rows \in Seq(Nat) : DataItem(d, rows) \in Items
  /\ \A d \in Runs : FinalizeItem(d) \in Items
  /\ StopItem \in Items
BY DEF Items, DataItem, FinalizeItem, StopItem

LEMMA PutTypes ==
  ASSUME QueueTypes, NEW item \in Items, Put(item)
  PROVE  QueueTypes'
BY DEF QueueTypes, Put

LEMMA PlaceTypes ==
  /\ Idle \in [at : Places, run : Runs \cup {NoRun}, flag : BOOLEAN]
  /\ Idle.at = "idle"
  /\ \A place \in Places, d \in Runs, flag \in BOOLEAN :
       /\ At(place, d, flag) \in [at : Places, run : Runs \cup {NoRun},
                                  flag : BOOLEAN]
       /\ At(place, d, flag).run = d
BY DEF Idle, At, Places

(* The main thread goes to a place of an operation on a run, or is idle.   *)
LEMMA GoTypes ==
  ASSUME MainTypes, UNCHANGED <<interrupts, late>>,
         pc' = Idle \/ \E place \in Places, d \in Runs, flag \in BOOLEAN :
                         pc' = At(place, d, flag)
  PROVE  MainTypes'
BY PlaceTypes DEF MainTypes

(* A batch of rows leaves well-typed tables and queues behind.             *)
LEMMA AddResultsToTypes ==
  ASSUME DbTypes, QueueTypes, NEW d \in Runs, NEW rows \in Seq(Nat),
         AddResultsTo(d, rows)
  PROVE  DbTypes' /\ QueueTypes'
<1>1. CASE write_in_background = "bg"
  <2>1. Put(DataItem(d, rows)) /\ UNCHANGED db
    BY <1>1 DEF AddResultsTo
  <2>2. DataItem(d, rows) \in Items
    BY ItemTypes
  <2>3. QueueTypes'
    BY <2>1, <2>2, PutTypes
  <2> QED
    BY <2>1, <2>3 DEF DbTypes, db
<1>2. CASE write_in_background # "bg"
  <2>1. /\ table' = [table EXCEPT ![d] = @ \o rows]
        /\ UNCHANGED <<created, parameters, run_timestamp, is_completed,
                       live_triggers, dead_triggers, queue>>
    BY <1>2 DEF AddResultsTo
  <2>2. table[d] \o rows \in Seq(Nat)
    BY DEF DbTypes
  <2> QED
    BY <2>1, <2>2 DEF DbTypes, QueueTypes, queue
<1> QED
  BY <1>1, <1>2

LEMMA FlushTypes ==
  ASSUME DbTypes, QueueTypes, results \in [Runs -> Seq(Nat)],
         NEW d \in Runs, NEW rows \in Seq(Nat), Flush(d, rows)
  PROVE  DbTypes' /\ QueueTypes' /\ results' \in [Runs -> Seq(Nat)]
<1>1. CASE UNCHANGED <<db, queue>> /\ ClearResults(d)
  BY <1>1 DEF ClearResults, DbTypes, QueueTypes, db, queue
<1>2. CASE AddResultsTo(d, rows) /\ ClearResults(d)
  BY <1>2, AddResultsToTypes DEF ClearResults
<1>3. CASE /\ UNCHANGED <<db, queue>>
           /\ results' = [results EXCEPT ![d] = rows]
  BY <1>3 DEF DbTypes, QueueTypes, db, queue
<1> QED
  BY <1>1, <1>2, <1>3 DEF Flush

LEMMA GetItemTypes ==
  ASSUME QueueTypes, NEW k, GetItem(k)
  PROVE  /\ data_write_queue # <<>>
         /\ Head(data_write_queue).run \in Runs \cup {NoRun}
         /\ Head(data_write_queue).rows \in Seq(Nat)
         /\ data_write_queue' \in Seq(Items)
         /\ Len(data_write_queue') = Len(data_write_queue) - 1
<1>1. data_write_queue \in Seq(Items) /\ data_write_queue # <<>>
  BY DEF QueueTypes, GetItem
<1>2. /\ Head(data_write_queue) \in Items
      /\ Tail(data_write_queue) \in Seq(Items)
      /\ Len(Tail(data_write_queue)) = Len(data_write_queue) - 1
  BY <1>1
<1> QED
  BY <1>1, <1>2 DEF GetItem, Items

TypeInv == TypeOK /\ UnfinishedCounts

LEMMA PutCounts ==
  ASSUME QueueTypes, UnfinishedCounts, NEW item \in Items, Put(item)
  PROVE  UnfinishedCounts'
BY DEF QueueTypes, UnfinishedCounts, Put

LEMMA AddResultsToCounts ==
  ASSUME QueueTypes, UnfinishedCounts, NEW d \in Runs,
         NEW rows \in Seq(Nat), AddResultsTo(d, rows)
  PROVE  UnfinishedCounts'
<1>1. CASE Put(DataItem(d, rows))
  BY <1>1, ItemTypes, PutCounts
<1>2. CASE UNCHANGED queue
  BY <1>2 DEF UnfinishedCounts, queue
<1> QED
  BY <1>1, <1>2 DEF AddResultsTo, queue

LEMMA FlushCounts ==
  ASSUME QueueTypes, UnfinishedCounts, NEW d \in Runs,
         NEW rows \in Seq(Nat), Flush(d, rows)
  PROVE  UnfinishedCounts'
<1>1. CASE UNCHANGED queue
  BY <1>1 DEF UnfinishedCounts, queue
<1>2. CASE AddResultsTo(d, rows)
  BY <1>2, AddResultsToCounts
<1> QED
  BY <1>1, <1>2 DEF Flush

LEMMA TypeInvInit == Init => TypeInv
<1> SUFFICES ASSUME Init PROVE TypeInv
  OBVIOUS
<1>1. DbTypes /\ QueueTypes /\ WriterTypes /\ UnfinishedCounts
  BY DEF Init, DbTypes, QueueTypes, WriterTypes, UnfinishedCounts
<1>2. HandleTypes /\ MainTypes
  BY PlaceTypes DEF Init, HandleTypes, HandleKinds, MainTypes
<1> QED
  BY <1>1, <1>2 DEF TypeInv, TypeOK

-----------------------------------------------------------------------------
LEMMA WriteParametersTypes ==
  ASSUME TypeInv, NEW d \in Runs, NEW bg \in BOOLEAN, WriteParameters(d, bg)
  PROVE  TypeInv'
<1> USE DEF TypeInv, TypeOK
<1>1. DbTypes'
  BY DEF WriteParameters, DbTypes
<1>2. MainTypes'
  <2>1. "starting" \in Places
    BY DEF Places
  <2> QED
    BY <2>1, GoTypes DEF WriteParameters
<1> QED
  BY <1>1, <1>2
  DEF WriteParameters, HandleTypes, QueueTypes, WriterTypes, UnfinishedCounts,
      handles, queue, writer

LEMMA UserOperationKeepsTypes ==
  ASSUME TypeInv, UserOperation
  PROVE  TypeInv'
<1> USE DEF TypeInv, TypeOK
<1> PICK d \in Runs :
      \/ NewDataSet(d)
      \/ \E bg \in BOOLEAN : RunnerEnter(d, bg)
      \/ Load(d)
      \/ \E bg \in BOOLEAN : MarkStarted(d, bg)
      \/ AddResult(d)
      \/ \E block \in BOOLEAN : FlushData(d, block)
      \/ FlushInterrupted(d)
      \/ AddResults(d)
      \/ Subscribe(d)
      \/ Unsubscribe(d)
      \/ RunnerExit(d)
      \/ MarkCompleted(d)
  BY DEF UserOperation
<1>1. results[d] \in Seq(Nat) /\ measured[d] \in Nat
  BY DEF HandleTypes
<1>2. CASE NewDataSet(d) \/ \E bg \in BOOLEAN : RunnerEnter(d, bg)
  <2>1. Create(d, "dataset") \/ Create(d, "runner")
    BY <1>2 DEF NewDataSet, RunnerEnter
  <2>2. DbTypes' /\ HandleTypes'
    BY <2>1 DEF Create, DbTypes, HandleTypes, HandleKinds
  <2>3. MainTypes'
    <3>1. "created" \in Places
      BY DEF Places
    <3>2. CASE UNCHANGED pc
      BY <2>1, <3>2 DEF Create, MainTypes
    <3>3. CASE \E bg \in BOOLEAN : RunnerEnter(d, bg)
      BY <2>1, <3>1, <3>3, GoTypes DEF RunnerEnter, Create
    <3> QED
      BY <1>2, <3>2, <3>3 DEF NewDataSet
  <2>4. UNCHANGED <<queue, writer>>
    BY <2>1 DEF Create
  <2> QED
    BY <2>2, <2>3, <2>4
    DEF QueueTypes, WriterTypes, UnfinishedCounts, queue, writer
<1>10. CASE Load(d)
  <2>1. DbTypes' /\ HandleTypes'
    BY <1>10 DEF Load, HandleTypes, HandleKinds, DbTypes, db
  <2> QED
    BY <1>10, <2>1
    DEF Load, QueueTypes, WriterTypes, MainTypes, UnfinishedCounts, queue,
        writer, main
<1>3. CASE \E bg \in BOOLEAN : MarkStarted(d, bg)
  BY <1>3, WriteParametersTypes DEF MarkStarted
<1>4. CASE AddResult(d)
  <2> DEFINE rows == Append(results[d], measured[d] + 1)
  <2>1. rows \in Seq(Nat)
    BY <1>1
  <2>2. /\ DbTypes' /\ QueueTypes' /\ UnfinishedCounts'
        /\ results' \in [Runs -> Seq(Nat)]
    <3>1. CASE Flush(d, rows)
      BY <2>1, <3>1, FlushTypes, FlushCounts DEF HandleTypes
    <3>2. CASE /\ results' = [results EXCEPT ![d] = rows]
               /\ UNCHANGED <<db, queue>>
      BY <2>1, <3>2
      DEF HandleTypes, DbTypes, QueueTypes, UnfinishedCounts, db, queue
    <3> QED
      BY <1>4, <3>1, <3>2 DEF AddResult
  <2>3. HandleTypes'
    <3>1. /\ measured' = [measured EXCEPT ![d] = @ + 1]
          /\ UNCHANGED <<handle, started, completed>>
      BY <1>4 DEF AddResult
    <3> QED
      BY <1>1, <2>2, <3>1 DEF HandleTypes
  <2>4. UNCHANGED <<writer, main>>
    BY <1>4 DEF AddResult
  <2> QED
    BY <2>2, <2>3, <2>4 DEF WriterTypes, MainTypes, writer, main
<1>5. CASE (\E block \in BOOLEAN : FlushData(d, block)) \/ RunnerExit(d)
  <2>1. Flush(d, results[d])
    BY <1>5 DEF FlushData, RunnerExit
  <2>2. /\ DbTypes' /\ QueueTypes' /\ UnfinishedCounts'
        /\ results' \in [Runs -> Seq(Nat)]
    BY <1>1, <2>1, FlushTypes, FlushCounts DEF HandleTypes
  <2>3. UNCHANGED <<handle, started, completed, measured, writer, interrupts,
                    late>>
    BY <1>5 DEF FlushData, RunnerExit
  <2>4. MainTypes'
    <3>1. {"await_queue", "completing"} \subseteq Places
      BY DEF Places
    <3>2. pc' = Idle \/ \E place \in Places, flag \in BOOLEAN :
                           pc' = At(place, d, flag)
      BY <1>5, <3>1 DEF FlushData, RunnerExit
    <3> QED
      BY <2>3, <3>2, GoTypes
  <2> QED
    BY <2>2, <2>3, <2>4 DEF HandleTypes, WriterTypes, writer
<1>6. CASE FlushInterrupted(d)
  <2>1. DbTypes' /\ QueueTypes' /\ UnfinishedCounts'
    BY <1>1, <1>6, AddResultsToTypes, AddResultsToCounts DEF FlushInterrupted
  <2> QED
    BY <1>6, <2>1
    DEF FlushInterrupted, HandleTypes, WriterTypes, MainTypes, handles, writer
<1>7. CASE AddResults(d)
  <2>1. <<measured[d] + 1>> \in Seq(Nat)
    BY <1>1
  <2>2. DbTypes' /\ QueueTypes' /\ UnfinishedCounts'
    BY <1>7, <2>1, AddResultsToTypes, AddResultsToCounts DEF AddResults
  <2>3. HandleTypes'
    BY <1>1, <1>7 DEF AddResults, HandleTypes
  <2> QED
    BY <1>7, <2>2, <2>3 DEF AddResults, WriterTypes, MainTypes, writer, main
<1>8. CASE Subscribe(d) \/ Unsubscribe(d)
  BY <1>8
  DEF Subscribe, Unsubscribe, DbTypes, HandleTypes, QueueTypes, WriterTypes,
      MainTypes, UnfinishedCounts, handles, queue, writer, main
<1>9. CASE MarkCompleted(d)
  <2>1. MainTypes'
    <3>1. "completing" \in Places
      BY DEF Places
    <3> QED
      BY <1>9, <3>1, GoTypes DEF MarkCompleted
  <2> QED
    BY <1>9, <2>1
    DEF MarkCompleted, DbTypes, HandleTypes, QueueTypes, WriterTypes,
        UnfinishedCounts, db, handles, queue, writer
<1> QED
  BY <1>2, <1>3, <1>4, <1>5, <1>6, <1>7, <1>8, <1>9, <1>10

LEMMA ContinueKeepsTypes ==
  ASSUME TypeInv, Continue
  PROVE  TypeInv'
<1> USE DEF TypeInv, TypeOK
<1>1. pc.run \in Runs /\ pc.flag \in BOOLEAN
  BY DEF Continue, Prepare, PerformStartActions, AwaitQueue, ExitRaises,
         EnsureDatasetWritten, ReleaseWriter, AwaitStop, Seal, SealFails,
         MainTypes
<1>2. {"completing", "await_finalize", "await_stop", "sealing"} \subseteq Places
  BY DEF Places
<1>3. CASE PerformStartActions
  <2>1. pc' = Idle /\ UNCHANGED <<interrupts, late>>
    BY <1>3 DEF PerformStartActions, StartRaises
  <2>2. MainTypes'
    BY <2>1, GoTypes
  <2>3. UNCHANGED queue
    BY <1>3 DEF PerformStartActions, StartRaises
  <2>4. DbTypes'
    BY <1>1, <1>3 DEF PerformStartActions, StartRaises, DbTypes
  <2>5. HandleTypes'
    BY <1>1, <1>3 DEF PerformStartActions, StartRaises, HandleTypes,
                      HandleKinds
  <2>6. WriterTypes'
    BY <1>1, <1>3 DEF PerformStartActions, Register, WriterTypes, Mode, writer
  <2> QED
    BY <2>2, <2>3, <2>4, <2>5, <2>6 DEF QueueTypes, UnfinishedCounts, queue
<1>4. CASE AwaitQueue
  <2>1. MainTypes'
    BY <1>1, <1>2, <1>4, GoTypes DEF AwaitQueue
  <2> QED
    BY <1>4, <2>1
    DEF AwaitQueue, DbTypes, HandleTypes, QueueTypes, WriterTypes,
        UnfinishedCounts, db, handles, queue, writer
<1>5. CASE EnsureDatasetWritten
  <2>1. MainTypes'
    BY <1>1, <1>2, <1>5, GoTypes DEF EnsureDatasetWritten
  <2>2. QueueTypes' /\ UnfinishedCounts'
    BY <1>1, <1>5, ItemTypes, PutTypes, PutCounts
    DEF EnsureDatasetWritten, QueueTypes, UnfinishedCounts, queue
  <2>3. WriterTypes'
    BY <1>5 DEF EnsureDatasetWritten, WriterTypes
  <2> QED
    BY <1>5, <2>1, <2>2, <2>3
    DEF EnsureDatasetWritten, DbTypes, HandleTypes, db, handles
<1>6. CASE ReleaseWriter
  <2>1. MainTypes'
    BY <1>1, <1>2, <1>6, GoTypes DEF ReleaseWriter
  <2>2. QueueTypes' /\ UnfinishedCounts'
    BY <1>6, ItemTypes, PutTypes, PutCounts
    DEF ReleaseWriter, QueueTypes, UnfinishedCounts, queue
  <2>3. WriterTypes'
    BY <1>6 DEF ReleaseWriter, WriterTypes
  <2> QED
    BY <1>6, <2>1, <2>2, <2>3
    DEF ReleaseWriter, DbTypes, HandleTypes, db, handles
<1>7. CASE AwaitStop
  <2>1. MainTypes'
    BY <1>1, <1>2, <1>7, GoTypes DEF AwaitStop
  <2> QED
    BY <1>7, <2>1
    DEF AwaitStop, DbTypes, HandleTypes, QueueTypes, WriterTypes,
        UnfinishedCounts, db, handles, queue
<1>8. CASE Seal \/ SealFails \/ ExitRaises
  <2>1. MainTypes'
    BY <1>8, GoTypes DEF Seal, SealFails, ExitRaises
  <2>2. DbTypes'
    BY <1>1, <1>8 DEF Seal, SealFails, ExitRaises, DbTypes, db
  <2>3. HandleTypes'
    BY <1>1, <1>8 DEF Seal, SealFails, ExitRaises, HandleTypes, HandleKinds
  <2> QED
    BY <1>8, <2>1, <2>2, <2>3
    DEF Seal, SealFails, ExitRaises, QueueTypes, WriterTypes, UnfinishedCounts, queue,
        writer
<1>9. CASE Prepare
  BY <1>1, <1>9, WriteParametersTypes DEF Prepare
<1> QED
  BY <1>3, <1>4, <1>5, <1>6, <1>7, <1>8, <1>9 DEF Continue

LEMMA WriterKeepsTypes ==
  ASSUME TypeInv, WriterStep
  PROVE  TypeInv'
<1> USE DEF TypeInv, TypeOK
<1>1. CASE WriterExit
  BY <1>1
  DEF WriterExit, DbTypes, HandleTypes, QueueTypes, WriterTypes, MainTypes,
      UnfinishedCounts, db, handles, queue, main
<1>2. CASE WriterStep /\ ~WriterExit
  <2>1. PICK k : GetItem(k)
    BY <1>2 DEF WriterStep, WriteItem, WriteFails, FinalizeRun,
                FinalizeUnknown, StopWriting
  <2>2. UNCHANGED <<handles, main>>
    BY <1>2 DEF WriterStep, WriteItem, WriteFails, FinalizeRun,
                FinalizeUnknown, StopWriting, WriterDies
  <2>3. HandleTypes' /\ MainTypes'
    BY <2>2 DEF HandleTypes, MainTypes, handles, main
  <2>4. QueueTypes' /\ UnfinishedCounts'
    <3>1. TaskDone \/ UNCHANGED unfinished_tasks
      BY <1>2 DEF WriterStep, WriteItem, WriteFails, FinalizeRun,
                  FinalizeUnknown, StopWriting, WriterDies
    <3>2. /\ data_write_queue' \in Seq(Items)
          /\ Len(data_write_queue') = Len(data_write_queue) - 1
          /\ Len(data_write_queue) \in Nat \ {0}
      BY <2>1, GetItemTypes DEF QueueTypes
    <3> QED
      BY <3>1, <3>2 DEF TaskDone, QueueTypes, UnfinishedCounts
  <2>5. WriterTypes'
    BY <1>2 DEF WriterStep, WriteItem, WriteFails, FinalizeRun,
                FinalizeUnknown, StopWriting, WriterDies, WriterTypes, writer
  <2>6. DbTypes'
    <3>1. CASE UNCHANGED db
      BY <3>1 DEF DbTypes, db
    <3>2. CASE WriteItem
      <4> DEFINE item == Head(data_write_queue)
      <4>1. item.rows \in Seq(Nat)
        BY <2>1, GetItemTypes
      <4>2. \A d \in Runs : table[d] \o item.rows \in Seq(Nat)
        BY <4>1 DEF DbTypes
      <4>3. table' = [table EXCEPT ![item.run] = @ \o item.rows]
        BY <3>2 DEF WriteItem
      <4>4. table' \in [Runs -> Seq(Nat)]
        BY <4>2, <4>3 DEF DbTypes
      <4> QED
        BY <3>2, <4>4 DEF WriteItem, DbTypes
    <3> QED
      BY <1>2, <3>1, <3>2
      DEF WriterStep, WriteFails, FinalizeRun, FinalizeUnknown, StopWriting,
          WriterDies
  <2> QED
    BY <2>3, <2>4, <2>5, <2>6
<1> QED
  BY <1>1, <1>2

LEMMA EnvironmentKeepsTypes ==
  ASSUME TypeInv, KeyboardInterrupt \/ Crash
  PROVE  TypeInv'
<1> USE DEF TypeInv, TypeOK
<1>1. CASE KeyboardInterrupt
  <2>1. MainTypes'
    BY <1>1, PlaceTypes DEF KeyboardInterrupt, MainTypes
  <2>2. HandleTypes'
    <3>1. \/ UNCHANGED handle
          \/ handle' = [handle EXCEPT ![pc.run] = "interrupted"]
          \/ handle' = [handle EXCEPT ![pc.run] = "dataset"]
      BY <1>1 DEF KeyboardInterrupt
    <3> QED
      BY <1>1, <3>1 DEF KeyboardInterrupt, HandleTypes, HandleKinds
  <2> QED
    BY <1>1, <2>1, <2>2
    DEF KeyboardInterrupt, DbTypes, QueueTypes, WriterTypes, UnfinishedCounts,
        db, queue, writer
<1>2. CASE Crash
  <2>1. DbTypes' /\ QueueTypes' /\ WriterTypes' /\ UnfinishedCounts'
    BY <1>2 DEF Crash, DbTypes, QueueTypes, WriterTypes, UnfinishedCounts
  <2>2. MainTypes'
    BY <1>2, PlaceTypes DEF Crash, MainTypes
  <2>3. HandleTypes'
    BY <1>2 DEF Crash, HandleTypes, HandleKinds, DbTypes
  <2> QED
    BY <2>1, <2>2, <2>3
<1> QED
  BY <1>1, <1>2

LEMMA TypeInvStep == TypeInv /\ [Next]_vars => TypeInv'
<1> SUFFICES ASSUME TypeInv, [Next]_vars PROVE TypeInv'
  OBVIOUS
<1>1. CASE Next
  BY <1>1, UserOperationKeepsTypes, ContinueKeepsTypes, WriterKeepsTypes,
     EnvironmentKeepsTypes DEF Next
<1>2. CASE UNCHANGED vars
  BY <1>2
  DEF TypeInv, TypeOK, DbTypes, HandleTypes, QueueTypes, WriterTypes,
      MainTypes, UnfinishedCounts, vars, db, handles, queue, writer, main
<1> QED
  BY <1>1, <1>2

(* The type invariant, with the accounting of the queue that it needs.     *)
THEOREM TypeInvariant == Spec => []TypeInv
BY TypeInvInit, TypeInvStep, PTL DEF Spec

(* The variables keep their types under every operation, fault and crash;  *)
(* in particular the number of unfinished tasks stays a natural number:    *)
(* Queue.task_done, which raises ValueError at zero, never kills the       *)
(* writer thread.                                                          *)
THEOREM TypeCorrect == Spec => []TypeOK
BY TypeInvariant, PTL DEF TypeInv

-----------------------------------------------------------------------------
(* The order of the rows, for any set of runs, any faults and any bounds on *)
(* results and starts, as long as nobody presses Ctrl-C.                   *)

Inv == TypeInv /\ OrderInv

-----------------------------------------------------------------------------
(* The queue as a sequence.                                                *)

LEMMA QueueHead ==
  ASSUME QueueTypes, data_write_queue # <<>>
  PROVE  /\ Head(data_write_queue) = Item(1)
         /\ 1 \in DOMAIN data_write_queue
         /\ Item(1) \in Items
BY DEF QueueTypes, Item

LEMMA QueueTail ==
  ASSUME QueueTypes, data_write_queue # <<>>,
         data_write_queue' = Tail(data_write_queue)
  PROVE  /\ Len(data_write_queue') = Len(data_write_queue) - 1
         /\ \A i \in DOMAIN data_write_queue' :
              /\ i \in Nat \ {0}
              /\ i + 1 \in DOMAIN data_write_queue
              /\ Item(i)' = Item(i + 1)
         /\ \A i \in DOMAIN data_write_queue :
              i # 1 => i - 1 \in DOMAIN data_write_queue'
BY DEF QueueTypes, Item

LEMMA QueuePut ==
  ASSUME QueueTypes, NEW item \in Items, Put(item)
  PROVE  /\ DOMAIN data_write_queue = 1..Len(data_write_queue)
         /\ Len(data_write_queue') = Len(data_write_queue) + 1
         /\ DOMAIN data_write_queue' = 1..(Len(data_write_queue) + 1)
         /\ \A i \in DOMAIN data_write_queue : Item(i)' = Item(i)
         /\ data_write_queue'[Len(data_write_queue) + 1] = item
<1>1. data_write_queue' = Append(data_write_queue, item)
  BY DEF Put
<1>2. /\ data_write_queue \in Seq(Items)
      /\ Len(data_write_queue) \in Nat
  BY DEF QueueTypes
<1> QED
  BY <1>1, <1>2 DEF Item

LEMMA QueueItems ==
  ASSUME QueueTypes, NEW i \in DOMAIN data_write_queue
  PROVE  /\ Item(i) \in Items
         /\ Item(i).rows \in Seq(Nat)
         /\ Item(i).run \in Runs \cup {NoRun}
         /\ i \in 1..Len(data_write_queue)
         /\ Item(i).rows # <<>> => First(i) \in Nat /\ After(i) \in Nat
<1>1. Item(i) \in Items /\ i \in 1..Len(data_write_queue)
  BY DEF QueueTypes, Item
<1>2. Item(i).rows \in Seq(Nat) /\ Item(i).run \in Runs \cup {NoRun}
  BY <1>1 DEF Items
<1> QED
  BY <1>1, <1>2 DEF First, After

LEMMA TailItems ==
  ASSUME QueueTypes, data_write_queue # <<>>,
         data_write_queue' = Tail(data_write_queue), NEW d \in Runs
  PROVE  /\ \A i \in DataItems(d)' :
              /\ i \in Nat /\ i + 1 \in DataItems(d)
              /\ Item(i)' = Item(i + 1) /\ First(i)' = First(i + 1)
              /\ After(i)' = After(i + 1)
         /\ \A i \in DataItems(d) :
              i \in Nat /\ (i # 1 => i - 1 \in DataItems(d)')
<1>1. /\ \A i \in DOMAIN data_write_queue' :
           /\ i \in Nat \ {0}
           /\ i + 1 \in DOMAIN data_write_queue
           /\ Item(i)' = Item(i + 1)
      /\ \A i \in DOMAIN data_write_queue :
           i # 1 => i - 1 \in DOMAIN data_write_queue'
  BY QueueTail
<1>2. \A i \in DataItems(d)' :
        /\ i \in Nat /\ i + 1 \in DataItems(d)
        /\ Item(i)' = Item(i + 1)
  BY <1>1 DEF DataItems
<1>3. \A i \in DataItems(d)' : First(i)' = First(i + 1) /\ After(i)' = After(i + 1)
  BY <1>2 DEF First, After
<1>4. ASSUME NEW i \in DataItems(d)
      PROVE  i \in Nat /\ (i # 1 => i - 1 \in DataItems(d)')
  <2>1. i \in DOMAIN data_write_queue /\ i \in Nat
    BY DEF DataItems, QueueTypes
  <2>2. CASE i # 1
    <3>1. i - 1 \in DOMAIN data_write_queue'
      BY <1>1, <2>1, <2>2
    <3>2. Item(i - 1)' = Item(i)
      BY <1>1, <2>1, <3>1
    <3> QED
      BY <2>1, <3>1, <3>2 DEF DataItems, Item
  <2> QED
    BY <2>1, <2>2
<1> QED
  BY <1>2, <1>3, <1>4

LEMMA FrontType ==
  ASSUME HandleTypes, NEW d \in Runs
  PROVE  /\ results[d] \in Seq(Nat) /\ measured[d] \in Nat
         /\ Front(d) \in Int
BY DEF HandleTypes, Front

LEMMA StretchJoined ==
  ASSUME NEW s \in Seq(Nat), NEW t \in Seq(Nat), NEW n \in Nat,
         Stretch(s, n), Stretch(t, n + Len(s))
  PROVE  Stretch(s \o t, n)
BY DEF Stretch

LEMMA StretchExtended ==
  ASSUME NEW s \in Seq(Nat), NEW n \in Int, NEW m \in Nat,
         Stretch(s, n), m = n + Len(s)
  PROVE  Stretch(Append(s, m), n)
<1>1. /\ Len(Append(s, m)) = Len(s) + 1 /\ Len(s) \in Nat
      /\ \A k \in 1..Len(s) : Append(s, m)[k] = s[k]
      /\ Append(s, m)[Len(s) + 1] = m
  OBVIOUS
<1> QED
  BY <1>1 DEF Stretch

-----------------------------------------------------------------------------
(* What may happen to the rows of a run on their way.                      *)

(* Results are added to _results or given back to it.                      *)
LEMMA RowsBuffered ==
  ASSUME TypeInv, Rows, UNCHANGED <<table, queue>>,
         \A d \in Runs : /\ is_completed[d] => is_completed'[d]
                         /\ Len(results'[d]) <= measured'[d]
                         /\ Stretch(results'[d], Front(d)')
                         /\ Front(d)' = Front(d)
  PROVE  Rows'
<1>1. RowsInOrder' /\ BuffersInOrder'
  BY DEF Rows, RowsInOrder, BuffersInOrder
<1>2. /\ \A i : /\ Item(i)' = Item(i)
                /\ First(i)' = First(i)
                /\ After(i)' = After(i)
      /\ \A d : DataItems(d)' = DataItems(d)
      /\ Lost' = Lost
  BY DEF queue, Item, First, After, DataItems, Lost
<1>3. BatchesInOrder'
  BY <1>2 DEF Rows, BatchesInOrder
<1>4. NoHole'
  BY <1>2 DEF Rows, NoHole
<1> QED
  BY <1>1, <1>3, <1>4 DEF Rows

(* Neither rows nor results change.                                        *)
LEMMA RowsLeftAlone ==
  ASSUME TypeInv, Rows, UNCHANGED <<table, results, measured, queue>>,
         \A d \in Runs : is_completed[d] => is_completed'[d]
  PROVE  Rows'
<1>1. \A d : Front(d)' = Front(d)
  BY DEF Front
<1>2. \A d \in Runs : /\ Len(results'[d]) <= measured'[d]
                      /\ Stretch(results'[d], Front(d)')
                      /\ Front(d)' = Front(d)
  BY <1>1 DEF Rows, BuffersInOrder
<1> QED
  BY <1>2, RowsBuffered

(* A finalize or a stop is queued.                                         *)
LEMMA RowsPut ==
  ASSUME TypeInv, Rows, NEW item \in Items, item.keys # "data", Put(item),
         UNCHANGED <<table, results, measured, is_completed>>
  PROVE  Rows'
<1> DEFINE n == Len(data_write_queue)
<1>1. /\ DOMAIN data_write_queue = 1..n
      /\ DOMAIN data_write_queue' = 1..(n + 1)
      /\ Len(data_write_queue') = n + 1
      /\ n \in Nat
      /\ \A i \in 1..n : Item(i)' = Item(i)
      /\ data_write_queue'[n + 1] = item
  BY QueuePut DEF TypeInv, TypeOK, QueueTypes
<1>2. \A d \in Runs : DataItems(d)' = DataItems(d)
  BY <1>1 DEF DataItems, Item
<1>3. \A d \in Runs : \A i \in DataItems(d) :
         /\ Item(i)' = Item(i) /\ First(i)' = First(i) /\ After(i)' = After(i)
  BY <1>1 DEF DataItems, First, After
<1>4. Lost' = Lost
  BY <1>1 DEF Lost, Put, TypeInv, TypeOK, QueueTypes
<1>5. \A d : Front(d)' = Front(d)
  BY DEF Front
<1>6. RowsInOrder' /\ BuffersInOrder'
  BY <1>5 DEF Rows, RowsInOrder, BuffersInOrder
<1>7. BatchesInOrder'
  BY <1>2, <1>3, <1>5 DEF Rows, BatchesInOrder
<1>8. NoHole'
  BY <1>2, <1>3, <1>4, <1>5 DEF Rows, NoHole
<1> QED
  BY <1>6, <1>7, <1>8 DEF Rows

(* The rows are the next ones of the run, and leave _results.              *)
NextRows(d, rows) ==
  /\ rows \in Seq(Nat) \ {<<>>}
  /\ Stretch(rows, Front(d))
  /\ \A e \in Runs : /\ Len(results'[e]) <= measured'[e]
                     /\ Stretch(results'[e], Front(e)')
                     /\ e # d => Front(e)' = Front(e)
  /\ Front(d)' = Front(d) + Len(rows)

(* They are queued for the writer thread.                                  *)
LEMMA RowsQueued ==
  ASSUME TypeInv, Rows, NEW d \in Runs, NEW rows \in Seq(Nat),
         NextRows(d, rows), Put(DataItem(d, rows)),
         ~is_completed[d], UNCHANGED <<table, is_completed>>
  PROVE  Rows'
<1> DEFINE n == Len(data_write_queue)
           item == DataItem(d, rows)
<1>0. item \in Items /\ item.keys = "data" /\ item.run = d /\ item.rows = rows
  BY ItemTypes DEF DataItem
<1>1. /\ DOMAIN data_write_queue = 1..n
      /\ DOMAIN data_write_queue' = 1..(n + 1)
      /\ Len(data_write_queue') = n + 1
      /\ n \in Nat
      /\ \A i \in 1..n : Item(i)' = Item(i)
      /\ data_write_queue'[n + 1] = item
  BY <1>0, QueuePut DEF TypeInv, TypeOK, QueueTypes
<1>2. /\ DataItems(d)' = DataItems(d) \cup {n + 1}
      /\ \A e \in Runs : e # d => DataItems(e)' = DataItems(e)
  BY <1>0, <1>1 DEF DataItems, Item
<1>3. /\ \A e \in Runs : \A i \in DataItems(e) :
           /\ i \in 1..n
           /\ Item(i)' = Item(i) /\ First(i)' = First(i) /\ After(i)' = After(i)
           /\ First(i) \in Nat /\ After(i) \in Nat
  <2>1. \A e \in Runs : \A i \in DataItems(e) : i \in 1..n /\ Item(i).rows # <<>>
    BY <1>1 DEF DataItems, Rows, BatchesInOrder
  <2> QED
    BY <1>1, <2>1, QueueItems DEF First, After, TypeInv, TypeOK
<1>4. Lost' = Lost
  BY <1>1 DEF Lost, Put, TypeInv, TypeOK, QueueTypes
<1>5. /\ \A e \in Runs : Front(e) \in Int
      /\ \A e \in Runs : Len(table[e]) < Front(e) /\ Len(table[e]) \in Nat
      /\ Len(rows) \in Nat \ {0}
      /\ Front(d)' = Front(d) + Len(rows)
      /\ \A e \in Runs : e # d => Front(e)' = Front(e)
      /\ rows[1] = Front(d)
  <2>1. \A e \in Runs : Front(e) \in Int
    BY FrontType DEF TypeInv, TypeOK
  <2>2. \A e \in Runs : Len(table[e]) < Front(e) /\ Len(table[e]) \in Nat
    BY DEF TypeInv, TypeOK, DbTypes, Rows, BuffersInOrder
  <2>3. Len(rows) \in Nat \ {0} /\ Stretch(rows, Front(d))
    BY DEF NextRows
  <2>4. rows[1] = Front(d)
    BY <2>1, <2>3 DEF Stretch
  <2> QED
    BY <2>1, <2>2, <2>3, <2>4 DEF NextRows
<1>6. /\ data_write_queue'[n + 1].rows = rows
      /\ data_write_queue'[n + 1].rows[1] = Front(d)
  BY <1>0, <1>1, <1>5
<1>7. RowsInOrder'
  BY DEF Rows, RowsInOrder
<1>8. BuffersInOrder'
  BY <1>5 DEF BuffersInOrder, NextRows
<1>9. BatchesInOrder'
  <2> SUFFICES ASSUME NEW e \in Runs, NEW i \in DataItems(e)'
               PROVE  /\ Item(i)'.rows # <<>>
                      /\ Stretch(Item(i)'.rows, First(i)')
                      /\ Len(table[e]) < First(i)'
                      /\ After(i)' <= Front(e)'
                      /\ \A j \in DataItems(e)' :
                            i < j => After(i)' <= First(j)'
    BY DEF BatchesInOrder
  <2>2. CASE i \in DataItems(e)
    <3>1. /\ Item(i)'.rows # <<>>
          /\ Stretch(Item(i)'.rows, First(i)')
          /\ Len(table[e]) < First(i)'
          /\ After(i)' <= Front(e)
          /\ \A j \in DataItems(e) : i < j => After(i)' <= First(j)'
      BY <1>3, <2>2 DEF Rows, BatchesInOrder
    <3>2. Front(e) <= Front(e)'
      BY <1>5
    <3>3. ASSUME NEW j \in DataItems(e)', i < j PROVE After(i)' <= First(j)'
      <4>1. CASE j \in DataItems(e)
        BY <3>1, <3>3, <4>1
      <4>2. CASE j = n + 1 /\ e = d
        <5>1. First(j)' = Front(d)
          BY <1>6, <4>2 DEF First, Item
        <5> QED
          BY <3>1, <4>2, <5>1
      <4> QED
        BY <1>2, <4>1, <4>2
    <3>4. After(i)' \in Nat /\ Front(e)' \in Int
      BY <1>3, <1>5, <2>2
    <3> QED
      BY <1>5, <3>1, <3>2, <3>3, <3>4
  <2>3. CASE i = n + 1 /\ e = d
    <3>1. Item(i)'.rows = rows /\ First(i)' = Front(d)
      BY <1>6, <2>3 DEF First, Item
    <3>2. After(i)' = Front(d) + Len(rows)
      BY <1>6, <2>3, <3>1 DEF After, Item
    <3>3. \A j \in DataItems(e)' : ~(i < j)
      BY <1>1, <2>3 DEF DataItems
    <3> QED
      BY <1>5, <2>3, <3>1, <3>2, <3>3 DEF NextRows
  <2> QED
    BY <1>2, <2>2, <2>3
<1>10. NoHole'
  <2> SUFFICES ASSUME ~Lost, NEW e \in Runs
               PROVE  /\ \A i \in DataItems(e)' :
                           \/ First(i)' = Len(table[e]) + 1
                           \/ \E k \in DataItems(e)' :
                                k < i /\ After(k)' = First(i)'
                      /\ \/ is_completed[e]
                         \/ Front(e)' = Len(table[e]) + 1
                         \/ \E k \in DataItems(e)' : After(k)' = Front(e)'
    BY <1>4 DEF NoHole
  <2>1. /\ \A i \in DataItems(e) :
             \/ First(i) = Len(table[e]) + 1
             \/ \E k \in DataItems(e) : k < i /\ After(k) = First(i)
        /\ \/ is_completed[e]
           \/ Front(e) = Len(table[e]) + 1
           \/ \E k \in DataItems(e) : After(k) = Front(e)
    BY DEF Rows, NoHole
  <2>2. CASE e # d
    BY <1>2, <1>3, <1>5, <2>1, <2>2
  <2>3. CASE e = d
    <3>2. \A i \in DataItems(d) :
             \/ First(i)' = Len(table[d]) + 1
             \/ \E k \in DataItems(d) : k < i /\ After(k)' = First(i)'
      BY <1>3, <2>1, <2>3
    <3>3. ASSUME NEW i, i = n + 1
          PROVE  /\ \/ First(i)' = Len(table[d]) + 1
                    \/ \E k \in DataItems(d) : k < i /\ After(k)' = First(i)'
                 /\ After(i)' = Front(d)'
      <4>1. Item(i)'.rows = rows /\ First(i)' = Front(d)
        BY <1>6, <3>3 DEF First, Item
      <4>2. After(i)' = Front(d)'
        BY <1>5, <1>6, <3>3, <4>1 DEF After, Item
      <4>3. \A k \in DataItems(d) : k < i /\ After(k)' = After(k)
        BY <1>3, <1>1, <3>3
      <4> QED
        BY <2>1, <2>3, <4>1, <4>2, <4>3
    <3> QED
      BY <1>2, <2>3, <3>2, <3>3
  <2> QED
    BY <2>2, <2>3
<1> QED
  BY <1>7, <1>8, <1>9, <1>10 DEF Rows

(* They are inserted by the main thread.                                   *)
LEMMA RowsInserted ==
  ASSUME TypeInv, Rows, NEW d \in Runs, NEW rows \in Seq(Nat),
         NextRows(d, rows), table' = [table EXCEPT ![d] = @ \o rows],
         ~is_completed[d], data_write_queue = <<>>, unfinished_tasks = 0,
         UNCHANGED <<queue, is_completed>>
  PROVE  Rows'
<1>1. /\ table \in [Runs -> Seq(Nat)]
      /\ \A e \in Runs : DataItems(e) = {} /\ DataItems(e)' = {}
      /\ ~Lost
  BY DEF TypeInv, TypeOK, DbTypes, DataItems, queue, Lost
<1>2. Front(d) = Len(table[d]) + 1
  BY <1>1 DEF Rows, NoHole
<1>3. /\ Len(rows) \in Nat
      /\ Len(table'[d]) = Len(table[d]) + Len(rows)
      /\ \A e \in Runs : e # d => table'[e] = table[e]
      /\ \A e \in Runs : Len(table[e]) \in Nat
  BY <1>1
<1>4. Front(d)' = Len(table'[d]) + 1
  BY <1>2, <1>3 DEF NextRows
<1>5. RowsInOrder'
  <2> SUFFICES ASSUME NEW e \in Runs, NEW i \in 1..Len(table'[e])
               PROVE  table'[e][i] = i
    BY DEF RowsInOrder
  <2>1. table[e][i] = i \/ i \notin 1..Len(table[e])
    BY DEF Rows, RowsInOrder
  <2>2. CASE e # d
    BY <1>3, <2>1, <2>2
  <2>3. CASE e = d
    <3>1. table'[d] = table[d] \o rows /\ table[d] \in Seq(Nat)
      BY <1>1
    <3>2. Stretch(table[d], 1)
      BY <3>1 DEF Rows, RowsInOrder, Stretch
    <3>3. 1 + Len(table[d]) = Front(d) /\ Stretch(rows, Front(d))
      BY <1>2, <3>1 DEF NextRows
    <3>4. Stretch(table[d] \o rows, 1)
      BY <3>1, <3>2, <3>3, StretchJoined
    <3> QED
      BY <2>3, <3>1, <3>4 DEF Stretch
  <2> QED
    BY <2>2, <2>3
<1>6. BuffersInOrder'
  BY <1>3, <1>4 DEF BuffersInOrder, NextRows, Rows
<1>7. BatchesInOrder'
  BY <1>1 DEF BatchesInOrder
<1>8. NoHole'
  <2>1. Lost' = Lost
    BY DEF Lost, queue
  <2> QED
    BY <1>1, <1>3, <1>4, <2>1 DEF NoHole, Rows, NextRows
<1> QED
  BY <1>5, <1>6, <1>7, <1>8 DEF Rows

(* The writer thread takes a finalize or a stop.                           *)
LEMMA RowsSkipped ==
  ASSUME TypeInv, Rows, data_write_queue # <<>>,
         Item(1).keys # "data",
         data_write_queue' = Tail(data_write_queue),
         TaskDone \/ UNCHANGED unfinished_tasks,
         UNCHANGED <<table, results, measured, is_completed>>
  PROVE  Rows'
<1>1. /\ Len(data_write_queue') = Len(data_write_queue) - 1
      /\ Len(data_write_queue) \in Nat
  BY QueueTail DEF TypeInv, TypeOK, QueueTypes
<1>2. \A d \in Runs :
        /\ \A i \in DataItems(d)' :
              /\ i \in Nat /\ i + 1 \in DataItems(d)
              /\ Item(i)' = Item(i + 1) /\ First(i)' = First(i + 1)
              /\ After(i)' = After(i + 1)
        /\ \A i \in DataItems(d) : i \in Nat /\ i - 1 \in DataItems(d)'
  <2>1. \A d \in Runs : 1 \notin DataItems(d)
    BY DEF DataItems
  <2> QED
    BY <2>1, TailItems DEF TypeInv, TypeOK
<1>3. Lost => Lost'
  BY <1>1 DEF Lost, TaskDone, TypeInv, TypeOK, QueueTypes
<1>4. \A d : Front(d)' = Front(d)
  BY DEF Front
<1>5. RowsInOrder' /\ BuffersInOrder'
  BY <1>4 DEF Rows, RowsInOrder, BuffersInOrder
<1>6. BatchesInOrder'
  <2> SUFFICES ASSUME NEW d \in Runs, NEW i \in DataItems(d)'
               PROVE  /\ Item(i)'.rows # <<>>
                      /\ Stretch(Item(i)'.rows, First(i)')
                      /\ Len(table[d]) < First(i)'
                      /\ After(i)' <= Front(d)
                      /\ \A j \in DataItems(d)' :
                            i < j => After(i)' <= First(j)'
    BY <1>4 DEF BatchesInOrder
  <2>1. \A j \in DataItems(d)' : i < j => i + 1 < j + 1
    BY <1>2
  <2> QED
    BY <1>2, <2>1 DEF Rows, BatchesInOrder
<1>7. NoHole'
  <2> SUFFICES ASSUME ~Lost, NEW d \in Runs
               PROVE  /\ \A i \in DataItems(d)' :
                           \/ First(i)' = Len(table[d]) + 1
                           \/ \E k \in DataItems(d)' :
                                k < i /\ After(k)' = First(i)'
                      /\ \/ is_completed[d]
                         \/ Front(d) = Len(table[d]) + 1
                         \/ \E k \in DataItems(d)' : After(k)' = Front(d)
    BY <1>3, <1>4 DEF NoHole
  <2>1. \A k \in DataItems(d) : /\ k \in Nat /\ k - 1 \in DataItems(d)'
                                /\ After(k - 1)' = After(k)
    BY <1>2
  <2>2. ASSUME NEW i \in DataItems(d)'
        PROVE  \/ First(i)' = Len(table[d]) + 1
               \/ \E k \in DataItems(d)' : k < i /\ After(k)' = First(i)'
    <3>1. \/ First(i + 1) = Len(table[d]) + 1
          \/ \E k \in DataItems(d) : k < i + 1 /\ After(k) = First(i + 1)
      BY <1>2, <2>2 DEF Rows, NoHole
    <3>2. First(i)' = First(i + 1) /\ i \in Nat
      BY <1>2, <2>2
    <3>3. \A k \in DataItems(d) : k < i + 1 => k - 1 < i
      BY <2>1, <3>2
    <3> QED
      BY <2>1, <3>1, <3>2, <3>3
  <2>3. \/ is_completed[d]
        \/ Front(d) = Len(table[d]) + 1
        \/ \E k \in DataItems(d) : After(k) = Front(d)
    BY DEF Rows, NoHole
  <2> QED
    BY <2>1, <2>2, <2>3
<1> QED
  BY <1>5, <1>6, <1>7 DEF Rows

(* The writer thread takes a batch and dies: from now on a result may be   *)
(* missing, and the thread writes nothing more.                            *)
LEMMA RowsDropped ==
  ASSUME TypeInv, Rows, data_write_queue # <<>>,
         data_write_queue' = Tail(data_write_queue),
         UNCHANGED <<table, results, measured, is_completed, unfinished_tasks>>
  PROVE  Rows'
<1>1. Lost'
  BY QueueTail
  DEF Lost, TypeInv, TypeOK, QueueTypes, UnfinishedCounts
<1>2. \A d : Front(d)' = Front(d)
  BY DEF Front
<1>3. RowsInOrder' /\ BuffersInOrder'
  BY <1>2 DEF Rows, RowsInOrder, BuffersInOrder
<1>4. BatchesInOrder'
  <2> SUFFICES ASSUME NEW d \in Runs, NEW i \in DataItems(d)'
               PROVE  /\ Item(i)'.rows # <<>>
                      /\ Stretch(Item(i)'.rows, First(i)')
                      /\ Len(table[d]) < First(i)'
                      /\ After(i)' <= Front(d)
                      /\ \A j \in DataItems(d)' :
                            i < j => After(i)' <= First(j)'
    BY <1>2 DEF BatchesInOrder
  <2>1. /\ i + 1 \in DataItems(d)
        /\ Item(i)' = Item(i + 1) /\ First(i)' = First(i + 1)
        /\ After(i)' = After(i + 1)
        /\ \A j \in DataItems(d)' : /\ j + 1 \in DataItems(d)
                                    /\ First(j)' = First(j + 1)
                                    /\ i < j => i + 1 < j + 1
    BY TailItems DEF TypeInv, TypeOK
  <2> QED
    BY <2>1 DEF Rows, BatchesInOrder
<1>5. NoHole'
  BY <1>1 DEF NoHole
<1> QED
  BY <1>3, <1>4, <1>5 DEF Rows

(* The writer thread inserts the batch at the head of the queue.           *)
LEMMA RowsWritten ==
  ASSUME TypeInv, Rows, ~Lost, data_write_queue # <<>>,
         NEW d \in Runs, NEW rows \in Seq(Nat), Item(1) = DataItem(d, rows),
         data_write_queue' = Tail(data_write_queue), TaskDone,
         table' = [table EXCEPT ![d] = @ \o rows],
         UNCHANGED <<results, measured, is_completed>>
  PROVE  Rows'
<1>1. /\ 1 \in DataItems(d)
      /\ Item(1).run = d /\ Item(1).rows = rows
      /\ \A i \in DOMAIN data_write_queue : i \in Nat /\ i >= 1
  BY QueueHead DEF DataItem, DataItems, TypeInv, TypeOK, QueueTypes
<1>2. /\ rows \in Seq(Nat) \ {<<>>}
      /\ Stretch(rows, First(1))
      /\ First(1) = Len(table[d]) + 1
      /\ After(1) = Len(table[d]) + 1 + Len(rows)
  <2>1. rows \in Seq(Nat) \ {<<>>} /\ Stretch(rows, First(1))
    BY <1>1 DEF Rows, BatchesInOrder
  <2>2. ~ \E k \in DataItems(d) : k < 1
    BY <1>1 DEF DataItems
  <2>3. First(1) = Len(table[d]) + 1
    BY <1>1, <2>2 DEF Rows, NoHole
  <2> QED
    BY <1>1, <2>1, <2>3 DEF First, After
<1>3. /\ \A e \in Runs : Len(table[e]) \in Nat /\ table[e] \in Seq(Nat)
      /\ table'[d] = table[d] \o rows
      /\ Len(table'[d]) = Len(table[d]) + Len(rows)
      /\ Len(rows) \in Nat
      /\ \A e \in Runs : e # d => table'[e] = table[e]
  BY DEF TypeInv, TypeOK, DbTypes
<1>4. Len(table'[d]) + 1 = After(1)
  BY <1>2, <1>3
<1>5. \A e : Front(e)' = Front(e)
  BY DEF Front
<1>6. RowsInOrder'
  <2> SUFFICES ASSUME NEW e \in Runs PROVE Stretch(table'[e], 1)
    BY <1>3 DEF RowsInOrder, Stretch
  <2>1. Stretch(table[e], 1)
    BY <1>3 DEF Rows, RowsInOrder, Stretch
  <2>2. Stretch(table[d] \o rows, 1)
    <3>1. Stretch(table[d], 1)
      BY <1>1, <1>3 DEF Rows, RowsInOrder, Stretch
    <3>2. First(1) = 1 + Len(table[d])
      BY <1>1, <1>2, <1>3
    <3> QED
      BY <1>1, <1>2, <1>3, <3>1, <3>2, StretchJoined
  <2> QED
    BY <1>3, <2>1, <2>2
<1>7. BuffersInOrder'
  <2>1. After(1) <= Front(d)
    BY <1>1 DEF Rows, BatchesInOrder
  <2>2. Front(d) \in Int
    BY <1>1, FrontType DEF TypeInv, TypeOK
  <2>3. \A e \in Runs : Len(table'[e]) < Front(e)
    BY <1>1, <1>3, <1>4, <2>1, <2>2 DEF Rows, BuffersInOrder
  <2> QED
    BY <1>5, <2>3 DEF Rows, BuffersInOrder
<1>8. \A e \in Runs :
        /\ \A i \in DataItems(e)' :
              /\ i \in Nat /\ i >= 1 /\ i + 1 \in DataItems(e)
              /\ Item(i)' = Item(i + 1) /\ First(i)' = First(i + 1)
              /\ After(i)' = After(i + 1)
        /\ \A i \in DataItems(e) :
              i \in Nat /\ (i # 1 => i - 1 \in DataItems(e)')
  <2>1. \A e \in Runs : \A i \in DataItems(e)' : i >= 1
    BY QueueTail DEF DataItems, TypeInv, TypeOK
  <2> QED
    BY <2>1, TailItems DEF TypeInv, TypeOK
<1>9. BatchesInOrder'
  <2> SUFFICES ASSUME NEW e \in Runs, NEW i \in DataItems(e)'
               PROVE  /\ Item(i)'.rows # <<>>
                      /\ Stretch(Item(i)'.rows, First(i)')
                      /\ Len(table'[e]) < First(i)'
                      /\ After(i)' <= Front(e)
                      /\ \A j \in DataItems(e)' :
                            i < j => After(i)' <= First(j)'
    BY <1>5 DEF BatchesInOrder
  <2>1. /\ i + 1 \in DataItems(e) /\ i \in Nat /\ 1 < i + 1
        /\ Item(i)' = Item(i + 1) /\ First(i)' = First(i + 1)
        /\ After(i)' = After(i + 1)
        /\ \A j \in DataItems(e)' : /\ j + 1 \in DataItems(e)
                                    /\ First(j)' = First(j + 1)
                                    /\ i < j => i + 1 < j + 1
    BY <1>8
  <2>2. /\ Item(i)'.rows # <<>>
        /\ Stretch(Item(i)'.rows, First(i)')
        /\ Len(table[e]) < First(i + 1)
        /\ After(i)' <= Front(e)
        /\ \A j \in DataItems(e)' : i < j => After(i)' <= First(j)'
    BY <2>1 DEF Rows, BatchesInOrder
  <2>3. e = d => After(1) <= First(i + 1)
    BY <1>1, <2>1 DEF Rows, BatchesInOrder
  <2>4. First(i + 1) \in Nat
    BY <2>1, <2>2, QueueItems DEF DataItems, TypeInv, TypeOK
  <2> QED
    BY <1>3, <1>4, <2>1, <2>2, <2>3, <2>4
<1>10. NoHole'
  <2> SUFFICES ASSUME NEW e \in Runs
               PROVE  /\ \A i \in DataItems(e)' :
                           \/ First(i)' = Len(table'[e]) + 1
                           \/ \E k \in DataItems(e)' :
                                k < i /\ After(k)' = First(i)'
                      /\ \/ is_completed[e]
                         \/ Front(e) = Len(table'[e]) + 1
                         \/ \E k \in DataItems(e)' : After(k)' = Front(e)
    BY <1>5 DEF NoHole
  <2>1. \A k \in DataItems(e) :
          k # 1 => /\ k \in Nat /\ k - 1 \in DataItems(e)'
                   /\ After(k - 1)' = After(k)
    BY <1>8
  <2>2. ASSUME NEW i \in DataItems(e)'
        PROVE  \/ First(i)' = Len(table'[e]) + 1
               \/ \E k \in DataItems(e)' : k < i /\ After(k)' = First(i)'
    <3>1. \/ First(i + 1) = Len(table[e]) + 1
          \/ \E k \in DataItems(e) : k < i + 1 /\ After(k) = First(i + 1)
      BY <1>8, <2>2 DEF Rows, NoHole
    <3>2. First(i)' = First(i + 1) /\ i \in Nat /\ i + 1 \in DataItems(e)
      BY <1>8, <2>2
    <3>3. e = d => After(1) <= First(i + 1)
      BY <1>1, <1>8, <2>2 DEF Rows, BatchesInOrder
    <3>4. CASE First(i + 1) = Len(table[e]) + 1
      <4>1. e # d
        BY <1>2, <1>3, <1>4, <3>3, <3>4
      <4> QED
        BY <1>3, <3>2, <3>4, <4>1
    <3>5. CASE \E k \in DataItems(e) : k < i + 1 /\ After(k) = First(i + 1)
      <4> PICK k \in DataItems(e) : k < i + 1 /\ After(k) = First(i + 1)
        BY <3>5
      <4>1. CASE k # 1
        BY <2>1, <3>2, <4>1
      <4>2. CASE k = 1
        <5>1. e = d
          BY <1>1, <4>2 DEF DataItems
        <5> QED
          BY <1>4, <3>2, <4>2, <5>1
      <4> QED
        BY <4>1, <4>2
    <3> QED
      BY <3>1, <3>4, <3>5
  <2>3. \/ is_completed[e]
        \/ Front(e) = Len(table[e]) + 1
        \/ \E k \in DataItems(e) : After(k) = Front(e)
    BY DEF Rows, NoHole
  <2>4. CASE Front(e) = Len(table[e]) + 1
    <3>1. e = d => After(1) <= Front(e)
      BY <1>1 DEF Rows, BatchesInOrder
    <3>2. e # d
      BY <1>2, <1>3, <1>4, <2>4, <3>1
    <3> QED
      BY <1>3, <2>2, <2>4, <3>2
  <2>5. CASE \E k \in DataItems(e) : After(k) = Front(e)
    <3> PICK k \in DataItems(e) : After(k) = Front(e)
      BY <2>5
    <3>1. CASE k # 1
      BY <2>1, <2>2, <3>1
    <3>2. CASE k = 1
      <4>1. e = d
        BY <1>1, <3>2 DEF DataItems
      <4> QED
        BY <1>4, <2>2, <3>2, <4>1
    <3> QED
      BY <3>1, <3>2
  <2> QED
    BY <2>2, <2>3, <2>4, <2>5
<1> QED
  BY <1>6, <1>7, <1>9, <1>10 DEF Rows

(* The process dies.                                                       *)
LEMMA RowsForgotten ==
  ASSUME TypeInv, Rows, Crash
  PROVE  Rows'
<1>1. /\ \A d \in Runs : DataItems(d)' = {}
      /\ \A d \in Runs : results'[d] = <<>>
      /\ \A d \in Runs : measured'[d] = IF is_completed[d]
                                          THEN measured[d] ELSE Len(table[d])
      /\ UNCHANGED <<table, is_completed>>
  BY DEF Crash, DataItems
<1>2. \A d \in Runs : /\ measured'[d] \in Nat /\ Len(table[d]) \in Nat
                      /\ Len(table[d]) <= measured'[d]
  <2> SUFFICES ASSUME NEW d \in Runs
               PROVE  /\ measured'[d] \in Nat /\ Len(table[d]) \in Nat
                      /\ Len(table[d]) <= measured'[d]
    OBVIOUS
  <2>1. /\ measured[d] \in Nat /\ Len(results[d]) \in Nat
        /\ Len(table[d]) \in Nat
    BY DEF TypeInv, TypeOK, DbTypes, HandleTypes
  <2>2. Len(table[d]) < measured[d] - Len(results[d]) + 1
    BY DEF Rows, BuffersInOrder, Front
  <2> QED
    BY <1>1, <2>1, <2>2
<1>3. \A d \in Runs : Front(d)' = measured'[d] + 1
  BY <1>1, <1>2 DEF Front
<1>4. RowsInOrder'
  BY <1>1 DEF Rows, RowsInOrder
<1>5. BuffersInOrder'
  BY <1>1, <1>2, <1>3 DEF BuffersInOrder, Stretch
<1>6. BatchesInOrder'
  BY <1>1 DEF BatchesInOrder
<1>7. NoHole'
  BY <1>1, <1>2, <1>3 DEF NoHole
<1> QED
  BY <1>4, <1>5, <1>6, <1>7 DEF Rows

-----------------------------------------------------------------------------
(* The rows under each action.                                             *)

LEMMA AddResultsToKeepsRows ==
  ASSUME Inv, NEW d \in Runs, NEW rows \in Seq(Nat), NextRows(d, rows),
         AddResultsTo(d, rows), ~is_completed[d], pc = Idle
  PROVE  Rows'
<1>0. TypeInv /\ Rows /\ WriterPhase
  BY DEF Inv, OrderInv, Phases
<1>1. CASE write_in_background = "bg"
  <2>1. Put(DataItem(d, rows)) /\ UNCHANGED <<table, is_completed>>
    BY <1>1 DEF AddResultsTo, db
  <2> QED
    BY <1>0, <2>1, RowsQueued
<1>2. CASE write_in_background # "bg"
  <2>1. data_write_queue = <<>> /\ unfinished_tasks = 0
    BY <1>0, <1>2 DEF WriterPhase, Idle, At
  <2>2. table' = [table EXCEPT ![d] = @ \o rows] /\ UNCHANGED <<queue, is_completed>>
    BY <1>2 DEF AddResultsTo
  <2> QED
    BY <1>0, <2>1, <2>2, RowsInserted
<1> QED
  BY <1>1, <1>2

(* A run that may be written to through its handle is not completed.       *)
LEMMA WritableIsOpen ==
  ASSUME RunPhase, NEW d \in Runs, Writable(d), handle[d] # "none"
  PROVE  ~is_completed[d]
BY DEF RunPhase, Writable

(* _results with what add_result appended is flushed or kept.              *)
LEMMA FlushKeepsRows ==
  ASSUME Inv, NEW d \in Runs, NEW rows \in Seq(Nat), Flush(d, rows),
         Writable(d), handle[d] # "none", pc = Idle,
         \/ rows = results[d] /\ UNCHANGED measured
         \/ /\ rows = Append(results[d], measured[d] + 1)
            /\ measured' = [measured EXCEPT ![d] = @ + 1]
  PROVE  Rows'
<1>0. TypeInv /\ Rows /\ ~is_completed[d] /\ HandleTypes
  BY WritableIsOpen DEF Inv, OrderInv, Phases, TypeInv, TypeOK
<1>1. /\ results[d] \in Seq(Nat) /\ Len(results[d]) \in Nat
      /\ Len(results[d]) <= measured[d] /\ measured[d] \in Nat
      /\ Front(d) = measured[d] - Len(results[d]) + 1
      /\ Stretch(results[d], Front(d))
  BY <1>0 DEF HandleTypes, Rows, BuffersInOrder, Front
<1>2. /\ Stretch(rows, Front(d))
      /\ Front(d) = measured'[d] - Len(rows) + 1
      /\ Len(rows) <= measured'[d]
      /\ Len(rows) \in Nat /\ measured'[d] \in Nat
      /\ \A e \in Runs : e # d => measured'[e] = measured[e]
  <2>1. CASE rows = results[d] /\ UNCHANGED measured
    BY <1>1, <2>1
  <2>2. CASE /\ rows = Append(results[d], measured[d] + 1)
             /\ measured' = [measured EXCEPT ![d] = @ + 1]
    <3>1. Len(rows) = Len(results[d]) + 1 /\ measured'[d] = measured[d] + 1
      BY <1>0, <1>1, <2>2 DEF HandleTypes
    <3>2. measured[d] + 1 = Front(d) + Len(results[d]) /\ Front(d) \in Int
      BY <1>1
    <3>3. Stretch(rows, Front(d))
      BY <1>1, <2>2, <3>2, StretchExtended
    <3> QED
      BY <1>0, <1>1, <2>2, <3>1, <3>3 DEF HandleTypes
  <2> QED
    BY <2>1, <2>2
<1>3. \A e \in Runs : e # d => /\ Len(results[e]) <= measured[e]
                               /\ Stretch(results[e], Front(e))
  BY <1>0 DEF Rows, BuffersInOrder
<1>4. ASSUME results' = [results EXCEPT ![d] = rows], UNCHANGED <<db, queue>>
      PROVE  Rows'
  <2>1. results'[d] = rows /\ \A e \in Runs : e # d => results'[e] = results[e]
    BY <1>0, <1>4 DEF HandleTypes
  <2>2. \A e \in Runs : Front(e)' = Front(e)
    BY <1>2, <2>1 DEF Front
  <2>3. UNCHANGED <<table, is_completed>>
    BY <1>4 DEF db
  <2> QED
    BY <1>0, <1>2, <1>3, <1>4, <2>1, <2>2, <2>3, RowsBuffered
<1>5. ASSUME ClearResults(d), rows # <<>>, AddResultsTo(d, rows)
      PROVE  Rows'
  <2>1. results'[d] = <<>> /\ \A e \in Runs : e # d => results'[e] = results[e]
    BY <1>0, <1>5 DEF HandleTypes, ClearResults
  <2>2. \A e \in Runs : e # d => Front(e)' = Front(e)
    BY <1>2, <2>1 DEF Front
  <2>3. Front(d)' = Front(d) + Len(rows)
    BY <1>1, <1>2, <2>1 DEF Front
  <2>4. Len(results'[d]) <= measured'[d] /\ Stretch(results'[d], Front(d)')
    BY <1>2, <2>1 DEF Stretch
  <2>5. NextRows(d, rows)
    BY <1>2, <1>3, <1>5, <2>1, <2>2, <2>3, <2>4 DEF NextRows
  <2> QED
    BY <1>0, <1>5, <2>5, AddResultsToKeepsRows
<1>6. ASSUME ClearResults(d), rows = <<>>, UNCHANGED <<db, queue>>
      PROVE  Rows'
  BY <1>4, <1>6 DEF ClearResults
<1> QED
  BY <1>4, <1>5, <1>6 DEF Flush

LEMMA UserOperationKeepsRows ==
  ASSUME Inv, UserOperation, MaxInterrupts = 0
  PROVE  Rows'
<1>0. TypeInv /\ Rows /\ HandleTypes /\ interrupts \in Nat
  BY DEF Inv, OrderInv, TypeInv, TypeOK, MainTypes
<1> PICK d \in Runs :
      \/ NewDataSet(d)
      \/ \E bg \in BOOLEAN : RunnerEnter(d, bg)
      \/ Load(d)
      \/ \E bg \in BOOLEAN : MarkStarted(d, bg)
      \/ AddResult(d)
      \/ \E block \in BOOLEAN : FlushData(d, block)
      \/ FlushInterrupted(d)
      \/ AddResults(d)
      \/ Subscribe(d)
      \/ Unsubscribe(d)
      \/ RunnerExit(d)
      \/ MarkCompleted(d)
  BY DEF UserOperation
<1>1. CASE \/ NewDataSet(d) \/ \E bg \in BOOLEAN : RunnerEnter(d, bg)
           \/ Load(d) \/ \E bg \in BOOLEAN : MarkStarted(d, bg)
           \/ Subscribe(d) \/ Unsubscribe(d) \/ MarkCompleted(d)
  <2>1. UNCHANGED <<table, results, measured, queue, is_completed>>
    BY <1>1 DEF NewDataSet, RunnerEnter, Create, Load, MarkStarted,
                WriteParameters, Subscribe, Unsubscribe, MarkCompleted, db,
                handles
  <2> QED
    BY <1>0, <2>1, RowsLeftAlone
<1>2. CASE AddResult(d)
  <2> DEFINE rows == Append(results[d], measured[d] + 1)
  <2>1. /\ rows \in Seq(Nat)
        /\ pc = Idle /\ handle[d] # "none" /\ Writable(d)
        /\ measured' = [measured EXCEPT ![d] = @ + 1]
    BY <1>0, <1>2 DEF AddResult, HandleTypes
  <2>2. CASE Flush(d, rows)
    BY <2>1, <2>2, FlushKeepsRows
  <2>3. CASE results' = [results EXCEPT ![d] = rows] /\ UNCHANGED <<db, queue>>
    <3>1. /\ measured'[d] = measured[d] + 1 /\ measured[d] \in Nat
          /\ results'[d] = rows /\ results[d] \in Seq(Nat)
          /\ Len(rows) = Len(results[d]) + 1 /\ Len(results[d]) \in Nat
          /\ \A e \in Runs : e # d => /\ measured'[e] = measured[e]
                                      /\ results'[e] = results[e]
      BY <1>0, <2>1, <2>3 DEF HandleTypes
    <3>2. \A e \in Runs : Front(e)' = Front(e)
      <4>1. \A e \in Runs : e # d => Front(e)' = Front(e)
        BY <3>1 DEF Front
      <4>2. Front(d)' = Front(d)
        BY <3>1 DEF Front
      <4> QED
        BY <4>1, <4>2
    <3>3. /\ Len(results[d]) <= measured[d]
          /\ Stretch(results[d], Front(d))
          /\ measured[d] + 1 = Front(d) + Len(results[d])
          /\ Front(d) \in Int
      BY <1>0, <3>1 DEF Rows, BuffersInOrder, Front
    <3>4. Stretch(rows, Front(d))
      BY <3>1, <3>3, StretchExtended
    <3>5. \A e \in Runs : /\ Len(results'[e]) <= measured'[e]
                          /\ Stretch(results'[e], Front(e))
      <4>1. \A e \in Runs : e # d => /\ Len(results'[e]) <= measured'[e]
                                     /\ Stretch(results'[e], Front(e))
        BY <1>0, <3>1 DEF Rows, BuffersInOrder
      <4>2. Len(results'[d]) <= measured'[d]
        BY <3>1, <3>3
      <4> QED
        BY <3>1, <3>4, <4>1, <4>2
    <3>6. UNCHANGED <<table, is_completed, queue>>
      BY <2>3 DEF db
    <3> QED
      BY <1>0, <3>2, <3>5, <3>6, RowsBuffered
  <2> QED
    BY <1>2, <2>2, <2>3 DEF AddResult
<1>3. CASE (\E block \in BOOLEAN : FlushData(d, block)) \/ RunnerExit(d)
  <2>1. /\ Flush(d, results[d]) /\ UNCHANGED measured
        /\ pc = Idle /\ handle[d] # "none" /\ Writable(d)
        /\ results[d] \in Seq(Nat)
    BY <1>0, <1>3 DEF FlushData, RunnerExit, HandleTypes
  <2> QED
    BY <2>1, FlushKeepsRows
<1>4. CASE FlushInterrupted(d)
  BY <1>0, <1>4 DEF FlushInterrupted
<1>5. CASE AddResults(d)
  <2> DEFINE rows == <<measured[d] + 1>>
  <2>1. /\ AddResultsTo(d, rows)
        /\ pc = Idle /\ handle[d] # "none" /\ Writable(d)
        /\ results[d] = <<>> /\ UNCHANGED results
        /\ measured' = [measured EXCEPT ![d] = @ + 1]
        /\ rows \in Seq(Nat) \ {<<>>}
        /\ measured[d] \in Nat
    BY <1>0, <1>5 DEF AddResults, UserHandles, HandleTypes
  <2>2. /\ measured'[d] = measured[d] + 1
        /\ \A e \in Runs : e # d => measured'[e] = measured[e]
    BY <1>0, <2>1 DEF HandleTypes
  <2>3. Front(d) = measured[d] + 1 /\ Front(d)' = measured[d] + 2
    BY <2>1, <2>2 DEF Front
  <2>4. \A e \in Runs : e # d => Front(e)' = Front(e)
    BY <2>1, <2>2 DEF Front
  <2>5. Len(results'[d]) <= measured'[d] /\ Stretch(results'[d], Front(d)')
    BY <2>1, <2>2 DEF Stretch
  <2>6. \A e \in Runs : e # d => /\ Len(results'[e]) <= measured'[e]
                                 /\ Stretch(results'[e], Front(e)')
    BY <1>0, <2>1, <2>2, <2>4 DEF Rows, BuffersInOrder
  <2>7. Stretch(rows, Front(d)) /\ Len(rows) = 1
    BY <2>1, <2>3 DEF Stretch
  <2>8. NextRows(d, rows)
    BY <2>1, <2>3, <2>4, <2>5, <2>6, <2>7 DEF NextRows
  <2>9. ~is_completed[d]
    BY <2>1, WritableIsOpen DEF Inv, OrderInv, Phases
  <2> QED
    BY <2>1, <2>8, <2>9, AddResultsToKeepsRows
<1> QED
  BY <1>1, <1>2, <1>3, <1>4, <1>5

LEMMA ContinueKeepsRows ==
  ASSUME Inv, Continue
  PROVE  Rows'
<1>0. TypeInv /\ Rows
  BY DEF Inv, OrderInv
<1>1. CASE Prepare \/ PerformStartActions \/ AwaitQueue \/ AwaitStop \/ SealFails
           \/ ExitRaises
  <2>1. UNCHANGED <<table, results, measured, queue, is_completed>>
    BY <1>1 DEF Prepare, WriteParameters, PerformStartActions, StartRaises,
                AwaitQueue, AwaitStop, SealFails, ExitRaises, db, handles
  <2> QED
    BY <1>0, <2>1, RowsLeftAlone
<1>2. CASE Seal
  <2>1. /\ UNCHANGED <<table, results, measured, queue>>
        /\ is_completed' = [is_completed EXCEPT ![pc.run] = TRUE]
    BY <1>2 DEF Seal
  <2>2. \A d \in Runs : is_completed[d] => is_completed'[d]
    BY <1>0, <2>1 DEF TypeInv, TypeOK, DbTypes
  <2> QED
    BY <1>0, <2>1, <2>2, RowsLeftAlone
<1>3. CASE EnsureDatasetWritten \/ ReleaseWriter
  <2>1. UNCHANGED <<table, results, measured, is_completed>>
    BY <1>3 DEF EnsureDatasetWritten, ReleaseWriter, db, handles
  <2>2. CASE UNCHANGED queue
    BY <1>0, <2>1, <2>2, RowsLeftAlone
  <2>3. CASE \E item \in {FinalizeItem(pc.run), StopItem} : Put(item)
    <3> PICK item \in {FinalizeItem(pc.run), StopItem} : Put(item)
      BY <2>3
    <3>1. pc.run \in Runs
      BY <1>0, <1>3 DEF EnsureDatasetWritten, ReleaseWriter, TypeInv, TypeOK,
                        MainTypes
    <3>2. item \in Items /\ item.keys # "data"
      BY <3>1, ItemTypes DEF FinalizeItem, StopItem
    <3> QED
      BY <1>0, <2>1, <3>2, RowsPut
  <2> QED
    BY <1>3, <2>2, <2>3 DEF EnsureDatasetWritten, ReleaseWriter
<1> QED
  BY <1>1, <1>2, <1>3 DEF Continue

LEMMA WriterKeepsRows ==
  ASSUME Inv, WriterStep
  PROVE  Rows'
<1>0. TypeInv /\ Rows /\ QueueTypes /\ ItemRuns /\ WriterPhase
  BY DEF Inv, OrderInv, Phases, TypeInv, TypeOK
<1>1. CASE WriterExit
  <2>1. UNCHANGED <<table, results, measured, queue, is_completed>>
    BY <1>1 DEF WriterExit, db, handles
  <2> QED
    BY <1>0, <2>1, RowsLeftAlone
<1>2. CASE WriteItem
  <2> DEFINE d == Item(1).run
             rows == Item(1).rows
  <2>1. /\ data_write_queue # <<>> /\ data_write_queue' = Tail(data_write_queue)
        /\ bg_writer = "running"
        /\ Head(data_write_queue).keys = "data"
    BY <1>2 DEF WriteItem, GetItem
  <2>2. /\ Head(data_write_queue) = Item(1) /\ 1 \in DOMAIN data_write_queue
        /\ Item(1) \in Items
    BY <1>0, <2>1, QueueHead
  <2>3. d \in Runs /\ rows \in Seq(Nat)
    BY <1>0, <2>1, <2>2 DEF ItemRuns, Items
  <2>4. Item(1) = DataItem(d, rows)
    BY <2>1, <2>2 DEF Items, DataItem
  <2>5. ~Lost
    BY <1>0, <2>1 DEF WriterPhase
  <2>6. /\ table' = [table EXCEPT ![d] = @ \o rows] /\ TaskDone
        /\ UNCHANGED <<results, measured, is_completed>>
    BY <1>2, <2>2 DEF WriteItem, handles
  <2> QED
    BY <1>0, <2>1, <2>3, <2>4, <2>5, <2>6, RowsWritten
<1>3. CASE WriteFails \/ FinalizeUnknown
  <2>1. /\ data_write_queue # <<>> /\ data_write_queue' = Tail(data_write_queue)
        /\ UNCHANGED <<table, results, measured, is_completed, unfinished_tasks>>
    BY <1>3 DEF WriteFails, FinalizeUnknown, GetItem, WriterDies, db, handles
  <2> QED
    BY <1>0, <2>1, RowsDropped
<1>4. CASE FinalizeRun \/ StopWriting
  <2>1. /\ data_write_queue # <<>> /\ data_write_queue' = Tail(data_write_queue)
        /\ Head(data_write_queue).keys # "data"
        /\ TaskDone
        /\ UNCHANGED <<table, results, measured, is_completed>>
    BY <1>4 DEF FinalizeRun, StopWriting, GetItem, db, handles
  <2>2. Head(data_write_queue) = Item(1)
    BY <1>0, <2>1, QueueHead
  <2> QED
    BY <1>0, <2>1, <2>2, RowsSkipped
<1> QED
  BY <1>1, <1>2, <1>3, <1>4 DEF WriterStep

-----------------------------------------------------------------------------
(* The phases under each action.                                           *)

LEMMA PutItemRuns ==
  ASSUME TypeInv, ItemRuns, NEW item \in Items, Put(item),
         item.keys = "stop" \/ item.run \in Runs
  PROVE  ItemRuns'
<1>1. /\ DOMAIN data_write_queue = 1..Len(data_write_queue)
      /\ DOMAIN data_write_queue' = 1..(Len(data_write_queue) + 1)
      /\ \A i \in DOMAIN data_write_queue : Item(i)' = Item(i)
      /\ data_write_queue'[Len(data_write_queue) + 1] = item
      /\ Len(data_write_queue) \in Nat
  BY QueuePut DEF TypeInv, TypeOK, QueueTypes
<1>2. \A i \in DOMAIN data_write_queue' :
         i \in DOMAIN data_write_queue \/ i = Len(data_write_queue) + 1
  BY <1>1
<1> QED
  BY <1>1, <1>2 DEF ItemRuns, Item

(* An operation of the user changes neither the writer thread nor the      *)
(* mode, and queues at most a batch.                                       *)
LEMMA UserOperationEffect ==
  ASSUME TypeInv, UserOperation
  PROVE  /\ pc = Idle /\ UNCHANGED writer
         /\ pc'.at \in {"idle", "created", "starting", "await_queue",
                        "completing"}
         /\ \/ UNCHANGED queue
            \/ /\ write_in_background = "bg"
               /\ \E d \in Runs, rows \in Seq(Nat) : Put(DataItem(d, rows))
<1> PICK d \in Runs :
      \/ NewDataSet(d) \/ \E bg \in BOOLEAN : RunnerEnter(d, bg)
      \/ Load(d) \/ \E bg \in BOOLEAN : MarkStarted(d, bg)
      \/ AddResult(d)
      \/ \E block \in BOOLEAN : FlushData(d, block)
      \/ FlushInterrupted(d)
      \/ AddResults(d)
      \/ Subscribe(d) \/ Unsubscribe(d)
      \/ RunnerExit(d)
      \/ MarkCompleted(d)
  BY DEF UserOperation
<1>1. /\ results[d] \in Seq(Nat) /\ measured[d] \in Nat
      /\ Append(results[d], measured[d] + 1) \in Seq(Nat)
      /\ <<measured[d] + 1>> \in Seq(Nat)
  BY DEF TypeInv, TypeOK, HandleTypes
<1>2. CASE \/ NewDataSet(d) \/ \E bg \in BOOLEAN : RunnerEnter(d, bg)
           \/ Load(d) \/ \E bg \in BOOLEAN : MarkStarted(d, bg)
           \/ Subscribe(d) \/ Unsubscribe(d) \/ MarkCompleted(d)
  BY <1>2 DEF NewDataSet, RunnerEnter, Create, Load, MarkStarted,
              WriteParameters, Subscribe, Unsubscribe, MarkCompleted, main,
              Idle, At
<1>3. CASE \/ AddResult(d) \/ RunnerExit(d) \/ FlushInterrupted(d)
           \/ AddResults(d) \/ \E block \in BOOLEAN : FlushData(d, block)
  <2>1. \/ UNCHANGED queue
        \/ \E rows \in Seq(Nat) : Flush(d, rows)
        \/ \E rows \in Seq(Nat) : AddResultsTo(d, rows)
    BY <1>1, <1>3 DEF AddResult, RunnerExit, FlushData, FlushInterrupted,
                      AddResults
  <2>2. \/ UNCHANGED queue
        \/ \E rows \in Seq(Nat) : AddResultsTo(d, rows)
    BY <2>1 DEF Flush
  <2>3. \/ UNCHANGED queue
        \/ /\ write_in_background = "bg"
           /\ \E rows \in Seq(Nat) : Put(DataItem(d, rows))
    BY <2>2 DEF AddResultsTo
  <2>4. pc = Idle /\ UNCHANGED writer
    BY <1>3 DEF AddResult, RunnerExit, FlushData, FlushInterrupted, AddResults
  <2>5. pc'.at \in {"idle", "await_queue", "completing"}
    BY <1>3 DEF AddResult, RunnerExit, FlushData, FlushInterrupted, AddResults,
                main, Idle, At
  <2> QED
    BY <2>3, <2>4, <2>5
<1> QED
  BY <1>2, <1>3

LEMMA ItemRunsKept ==
  ASSUME TypeInv, ItemRuns, Next
  PROVE  ItemRuns'
<1>0. QueueTypes
  BY DEF TypeInv, TypeOK
<1>1. CASE UNCHANGED data_write_queue \/ data_write_queue' = <<>>
  BY <1>0, <1>1 DEF ItemRuns, Item
<1>2. CASE WriterStep /\ ~WriterExit
  <2>1. data_write_queue # <<>> /\ data_write_queue' = Tail(data_write_queue)
    BY <1>2 DEF WriterStep, WriteItem, WriteFails, FinalizeRun,
                FinalizeUnknown, StopWriting, GetItem
  <2> QED
    BY <1>0, <2>1, QueueTail DEF ItemRuns
<1>3. ASSUME NEW d \in Runs, NEW rows \in Seq(Nat), Put(DataItem(d, rows))
      PROVE  ItemRuns'
  <2>1. DataItem(d, rows) \in Items /\ DataItem(d, rows).run = d
    BY ItemTypes DEF DataItem
  <2> QED
    BY <1>0, <1>3, <2>1, PutItemRuns
<1>4. CASE UserOperation
  BY <1>0, <1>1, <1>3, <1>4, UserOperationEffect DEF queue
<1>5. CASE Continue
  <2>1. CASE EnsureDatasetWritten \/ ReleaseWriter
    <3>1. pc.run \in Runs
      BY <1>0, <2>1 DEF EnsureDatasetWritten, ReleaseWriter, TypeInv, TypeOK,
                        MainTypes
    <3>2. /\ UNCHANGED queue \/ Put(FinalizeItem(pc.run)) \/ Put(StopItem)
      BY <2>1 DEF EnsureDatasetWritten, ReleaseWriter
    <3>3. /\ FinalizeItem(pc.run) \in Items /\ StopItem \in Items
          /\ FinalizeItem(pc.run).run = pc.run /\ StopItem.keys = "stop"
      BY <3>1, ItemTypes DEF FinalizeItem, StopItem
    <3> QED
      BY <1>0, <1>1, <3>1, <3>2, <3>3, PutItemRuns DEF queue
  <2>2. CASE Continue /\ ~EnsureDatasetWritten /\ ~ReleaseWriter
    BY <1>1, <2>2 DEF Continue, Prepare, WriteParameters, PerformStartActions,
       StartRaises, AwaitQueue, AwaitStop, Seal, SealFails, ExitRaises, queue
  <2> QED
    BY <1>5, <2>1, <2>2
<1> QED
  BY <1>1, <1>2, <1>4, <1>5
  DEF Next, WriterStep, WriterExit, KeyboardInterrupt, Crash, queue

LEMMA WriterPhaseKept ==
  ASSUME Inv, Next, MaxInterrupts = 0
  PROVE  WriterPhase'
<1>0. /\ TypeInv /\ WriterPhase /\ FinalizePhase
      /\ unfinished_tasks \in Nat /\ Len(data_write_queue) \in Nat
      /\ unfinished_tasks >= Len(data_write_queue)
      /\ interrupts \in Nat /\ active_datasets \subseteq Runs
  BY DEF Inv, OrderInv, Phases, TypeInv, TypeOK, QueueTypes, MainTypes,
         UnfinishedCounts, WriterTypes
<1>1. ASSUME NEW item \in Items, Put(item)
      PROVE  /\ Lost' = Lost
             /\ write_in_background' = "bg" => data_write_queue' # <<>>
  BY <1>0, <1>1, QueuePut DEF Lost, Put, TypeInv, TypeOK, QueueTypes
<1>2. UNCHANGED queue => Lost' = Lost
  BY DEF queue, Lost
<1>3. CASE UserOperation
  <2>1. /\ pc.at = "idle" /\ UNCHANGED writer
        /\ pc'.at # "await_stop"
        /\ UNCHANGED queue \/ write_in_background = "bg"
    BY <1>0, <1>3, UserOperationEffect DEF Idle, At
  <2>2. Lost' = Lost
    BY <1>0, <1>1, <1>2, <1>3, ItemTypes, UserOperationEffect
  <2> QED
    BY <1>0, <2>1, <2>2 DEF WriterPhase, writer, queue
<1>4. CASE Prepare \/ AwaitQueue \/ Seal \/ SealFails \/ ExitRaises
  <2>1. /\ UNCHANGED <<queue, writer>>
        /\ pc.at \notin {"await_stop", "await_finalize"}
        /\ pc'.at \notin {"await_stop", "await_finalize"}
    BY <1>4 DEF Prepare, WriteParameters, AwaitQueue, Seal, SealFails,
                ExitRaises, Idle, At
  <2> QED
    BY <1>0, <1>2, <2>1 DEF WriterPhase, writer, queue
<1>5. CASE PerformStartActions
  <2>1. pc.at = "starting" /\ pc' = Idle /\ UNCHANGED queue /\ pc.run \in Runs
    BY <1>0, <1>5 DEF PerformStartActions, StartRaises, TypeInv, TypeOK,
                      MainTypes
  <2>2. \/ UNCHANGED writer
        \/ /\ bg_writer = "dead"
           /\ write_in_background' = "bg"
           /\ ~MayNotMix("bg")
           /\ UNCHANGED <<active_datasets, bg_writer>>
        \/ /\ ~MayNotMix(Mode(pc.flag)) /\ Register(pc.run, Mode(pc.flag))
           /\ pc.flag => bg_writer # "dead"
    BY <1>5 DEF PerformStartActions, Mode, writer
  <2>3. pc'.at = "idle" /\ Lost' = Lost
    BY <1>2, <2>1 DEF Idle, At
  <2>4. CASE UNCHANGED writer
    BY <1>0, <2>1, <2>3, <2>4 DEF WriterPhase, writer, queue
  <2>5. CASE /\ bg_writer = "dead"
             /\ write_in_background' = "bg"
             /\ ~MayNotMix("bg")
             /\ UNCHANGED <<active_datasets, bg_writer>>
    <3>1. UNCHANGED writer
      BY <1>0, <2>1, <2>5 DEF WriterPhase, writer
    <3> QED
      BY <2>4, <3>1
  <2>6. CASE /\ ~MayNotMix(Mode(pc.flag)) /\ Register(pc.run, Mode(pc.flag))
             /\ pc.flag => bg_writer # "dead"
    <3>1. active_datasets' # {}
      BY <2>1, <2>6 DEF Register
    <3>2. CASE pc.flag
      BY <1>0, <2>1, <2>3, <2>6, <3>1, <3>2
      DEF WriterPhase, Register, MayNotMix, Mode, IsAlive, queue
    <3>3. CASE ~pc.flag
      BY <1>0, <2>1, <2>3, <2>6, <3>1, <3>3
      DEF WriterPhase, Register, MayNotMix, Mode, IsAlive, queue
    <3> QED
      BY <3>2, <3>3
  <2> QED
    BY <2>2, <2>4, <2>5, <2>6
<1>6. CASE EnsureDatasetWritten
  <2>1. /\ pc.at = "completing" /\ pc'.at = "await_finalize"
        /\ UNCHANGED <<write_in_background, bg_writer>>
    BY <1>6 DEF EnsureDatasetWritten, At
  <2>2. CASE /\ write_in_background = "bg" /\ Put(FinalizeItem(pc.run))
             /\ UNCHANGED active_datasets
    <3>1. pc.run \in Runs
      BY <1>0, <2>1 DEF TypeInv, TypeOK, MainTypes
    <3> QED
      BY <1>0, <1>1, <2>1, <2>2, <3>1, ItemTypes DEF WriterPhase
  <2>3. CASE write_in_background # "bg" /\ UNCHANGED queue
    BY <1>0, <1>2, <2>1, <2>3 DEF WriterPhase, queue
  <2> QED
    BY <1>6, <2>2, <2>3 DEF EnsureDatasetWritten
<1>7. CASE ReleaseWriter
  <2>1. pc.at = "await_finalize" /\ UNCHANGED active_datasets
    BY <1>7 DEF ReleaseWriter
  <2>2. CASE /\ ~LastRun /\ pc' = At("sealing", pc.run, pc.flag)
             /\ UNCHANGED <<write_in_background, bg_writer, queue>>
    BY <1>0, <1>2, <2>1, <2>2 DEF WriterPhase, LastRun, At, queue
  <2>3. CASE /\ LastRun /\ IsAlive /\ write_in_background' = "none"
             /\ Put(StopItem) /\ pc' = At("await_stop", pc.run, pc.flag)
             /\ UNCHANGED bg_writer
    BY <1>0, <1>1, <2>1, <2>3, ItemTypes DEF WriterPhase, LastRun, IsAlive, At
  <2>4. CASE /\ LastRun /\ ~IsAlive /\ write_in_background' = "none"
             /\ bg_writer' = "none" /\ pc' = At("sealing", pc.run, pc.flag)
             /\ UNCHANGED queue
    BY <1>0, <1>2, <2>1, <2>4 DEF WriterPhase, LastRun, IsAlive, At, queue,
                                  Lost
  <2> QED
    BY <1>7, <2>2, <2>3, <2>4 DEF ReleaseWriter
<1>8. CASE AwaitStop
  <2>1. data_write_queue = <<>> /\ unfinished_tasks = 0 /\ UNCHANGED queue
    BY <1>0, <1>8 DEF AwaitStop, TypeInv, TypeOK, QueueTypes
  <2> QED
    BY <1>0, <1>2, <1>8, <2>1 DEF AwaitStop, WriterPhase, At, queue, Lost
<1>9. CASE WriterExit
  <2>1. /\ UNCHANGED <<queue, write_in_background, active_datasets, pc>>
        /\ bg_writer = "stopping" /\ bg_writer' = "dead"
    BY <1>9 DEF WriterExit, main
  <2> QED
    BY <1>0, <1>2, <2>1 DEF WriterPhase, queue
<1>10. CASE WriterStep /\ ~WriterExit
  <2>1. /\ data_write_queue # <<>> /\ bg_writer = "running"
        /\ data_write_queue' = Tail(data_write_queue)
        /\ UNCHANGED <<write_in_background, pc>>
    BY <1>10 DEF WriterStep, WriteItem, WriteFails, FinalizeRun,
                 FinalizeUnknown, StopWriting, GetItem, WriterDies, main, writer
  <2>2. /\ ~Lost
        /\ write_in_background = "bg" => pc.at # "await_stop"
        /\ write_in_background # "bg" => pc.at = "await_stop"
        /\ write_in_background = "bg" => active_datasets # {}
    BY <1>0, <2>1 DEF WriterPhase
  <2>3. TaskDone => ~Lost'
    BY <1>0, <2>1, <2>2, QueueTail DEF TaskDone, Lost, TypeInv, TypeOK
  <2>4. CASE WriteItem
    <3>1. UNCHANGED writer /\ TaskDone
      BY <2>4 DEF WriteItem
    <3> QED
      BY <2>1, <2>2, <2>3, <3>1 DEF WriterPhase, writer
  <2>5. CASE WriteFails \/ FinalizeUnknown
    <3>1. bg_writer' = "dead" /\ UNCHANGED active_datasets
      BY <2>5 DEF WriteFails, FinalizeUnknown, WriterDies
    <3> QED
      BY <2>1, <2>2, <3>1 DEF WriterPhase
  <2>6. CASE StopWriting
    <3>1. /\ bg_writer' = "stopping" /\ UNCHANGED active_datasets /\ TaskDone
          /\ Head(data_write_queue).keys = "stop"
      BY <2>6 DEF StopWriting, GetItem
    <3>2. pc.at = "await_stop"
      BY <1>0, <2>1, <3>1, QueueHead DEF FinalizePhase, TypeInv, TypeOK
    <3> QED
      BY <2>1, <2>2, <2>3, <3>1, <3>2 DEF WriterPhase
  <2>7. CASE FinalizeRun
    <3>1. /\ UNCHANGED bg_writer /\ TaskDone
          /\ Head(data_write_queue).keys = "finalize"
          /\ Head(data_write_queue).run \in active_datasets
      BY <2>7 DEF FinalizeRun, GetItem
    <3>2. pc.at = "await_finalize" /\ 1 = Len(data_write_queue)
      BY <1>0, <2>1, <3>1, QueueHead DEF FinalizePhase, TypeInv, TypeOK
    <3>3. data_write_queue' = <<>>
      <4>1. data_write_queue \in Seq(Items) /\ data_write_queue # <<>>
        BY <1>0, <2>1 DEF TypeInv, TypeOK, QueueTypes
      <4>2. Tail(data_write_queue) \in Seq(Items)
        BY <4>1
      <4>3. Len(Tail(data_write_queue)) = 0
        BY <3>2, <4>1
      <4> QED
        BY <2>1, <4>2, <4>3
    <3> QED
      BY <2>1, <2>2, <2>3, <3>1, <3>2, <3>3 DEF WriterPhase
  <2> QED
    BY <1>10, <2>4, <2>5, <2>6, <2>7 DEF WriterStep
<1>11. CASE Crash
  BY <1>11 DEF Crash, WriterPhase, Lost, Idle, At
<1>12. CASE KeyboardInterrupt
  BY <1>0, <1>12 DEF KeyboardInterrupt
<1> QED
  BY <1>3, <1>4, <1>5, <1>6, <1>7, <1>8, <1>9, <1>10, <1>11, <1>12
  DEF Next, Continue

LEMMA FinalizePhaseKept ==
  ASSUME Inv, Next, MaxInterrupts = 0
  PROVE  FinalizePhase'
<1>0. /\ TypeInv /\ FinalizePhase /\ RunPhase /\ WriterPhase /\ QueueTypes
      /\ HandleTypes /\ interrupts \in Nat /\ Len(data_write_queue) \in Nat
  BY DEF Inv, OrderInv, Phases, TypeInv, TypeOK, QueueTypes, MainTypes
<1>1. ASSUME NEW d \in Runs, NEW rows \in Seq(Nat), Put(DataItem(d, rows)),
             UNCHANGED active_datasets,
             \A e \in Runs : started[e] => started'[e],
             pc.at \notin {"await_finalize", "await_stop"}
      PROVE  FinalizePhase'
  <2>1. /\ DataItem(d, rows) \in Items
        /\ DataItem(d, rows).keys = "data"
    BY ItemTypes DEF DataItem
  <2>2. /\ \A i \in DOMAIN data_write_queue' :
             i \in DOMAIN data_write_queue \/ Item(i)'.keys = "data"
        /\ \A i \in DOMAIN data_write_queue : Item(i)' = Item(i)
    BY <1>0, <1>1, <2>1, QueuePut DEF Item
  <2>3. \A i \in DOMAIN data_write_queue :
           Item(i).keys = "finalize" => Item(i).run \in Runs
    BY DEF Inv, OrderInv, Phases, ItemRuns
  <2> QED
    BY <1>0, <1>1, <2>2, <2>3 DEF FinalizePhase
<1>2. ASSUME UNCHANGED <<data_write_queue, active_datasets>>,
             pc.at \notin {"await_finalize", "await_stop"},
             \A e \in Runs : started[e] => started'[e]
      PROVE  FinalizePhase'
  <2>1. \A i \in DOMAIN data_write_queue :
           Item(i).keys = "finalize" => Item(i).run \in Runs
    BY DEF Inv, OrderInv, Phases, ItemRuns
  <2> QED
    BY <1>0, <1>2, <2>1 DEF FinalizePhase, Item
<1>3. ASSUME data_write_queue' = <<>> PROVE FinalizePhase'
  BY <1>3 DEF FinalizePhase
<1>4. CASE UserOperation
  <2>1. \A e \in Runs : started[e] => started'[e]
    <3>1. \/ UNCHANGED started
          \/ \E d \in Runs : /\ handle[d] = "none"
                             /\ \E v : started' = [started EXCEPT ![d] = v]
      BY <1>4 DEF UserOperation, NewDataSet, RunnerEnter, Create, Load,
         MarkStarted, WriteParameters, AddResult, FlushData, FlushInterrupted,
         AddResults, Subscribe, Unsubscribe, RunnerExit, MarkCompleted, handles
    <3> QED
      BY <1>0, <3>1 DEF RunPhase, HandleTypes
  <2>2. pc.at = "idle" /\ UNCHANGED active_datasets
    BY <1>0, <1>4, UserOperationEffect DEF writer, Idle, At
  <2> QED
    BY <1>0, <1>1, <1>2, <1>4, <2>1, <2>2, UserOperationEffect DEF queue
<1>5. CASE Prepare \/ AwaitQueue \/ Seal \/ SealFails \/ ExitRaises
  <2>1. /\ UNCHANGED <<data_write_queue, active_datasets, started>>
        /\ pc.at \notin {"await_stop", "await_finalize"}
    BY <1>5 DEF Prepare, WriteParameters, AwaitQueue, Seal, SealFails,
                ExitRaises, handles, queue, writer
  <2> QED
    BY <1>2, <2>1
<1>6. CASE PerformStartActions
  <2>1. /\ pc.at = "starting" /\ UNCHANGED queue /\ pc.run \in Runs
        /\ active_datasets' \subseteq active_datasets \cup {pc.run}
        /\ UNCHANGED started \/ started' = [started EXCEPT ![pc.run] = TRUE]
    BY <1>0, <1>6 DEF PerformStartActions, StartRaises, Register, TypeInv,
                      TypeOK, MainTypes, writer
  <2>2. \A e \in Runs : started[e] => started'[e]
    BY <1>0, <2>1 DEF HandleTypes
  <2>3. ~started[pc.run]
    BY <1>0, <2>1 DEF RunPhase
  <2>4. \A i \in DOMAIN data_write_queue :
           Item(i).keys = "finalize" => Item(i).run \in Runs
    BY DEF Inv, OrderInv, Phases, ItemRuns
  <2> QED
    BY <1>0, <2>1, <2>2, <2>3, <2>4 DEF FinalizePhase, queue, Item
<1>7. CASE EnsureDatasetWritten
  <2> DEFINE d == pc.run
  <2>1. /\ pc.at = "completing" /\ d \in Runs /\ started[d]
        /\ pc'.at = "await_finalize" /\ pc'.run = d
        /\ UNCHANGED started
    BY <1>0, <1>7 DEF EnsureDatasetWritten, At, RunPhase, TypeInv, TypeOK,
                      MainTypes, handles
  <2>2. CASE write_in_background # "bg" /\ UNCHANGED queue
    <3>1. data_write_queue' = <<>>
      BY <1>0, <2>1, <2>2 DEF WriterPhase, queue
    <3> QED
      BY <1>3, <3>1
  <2>3. CASE Put(FinalizeItem(d)) /\ UNCHANGED active_datasets
    <3>1. /\ FinalizeItem(d) \in Items
          /\ FinalizeItem(d).keys = "finalize" /\ FinalizeItem(d).run = d
      BY <2>1, ItemTypes DEF FinalizeItem
    <3>2. /\ \A i \in DOMAIN data_write_queue' :
               \/ i \in DOMAIN data_write_queue
               \/ i = Len(data_write_queue') /\ Item(i)' = FinalizeItem(d)
          /\ \A i \in DOMAIN data_write_queue : Item(i)' = Item(i)
      BY <1>0, <2>3, <3>1, QueuePut DEF Item
    <3> QED
      BY <1>0, <2>1, <2>3, <3>1, <3>2 DEF FinalizePhase
  <2> QED
    BY <1>7, <2>2, <2>3 DEF EnsureDatasetWritten
<1>8. CASE ReleaseWriter
  <2> DEFINE d == pc.run
  <2>1. /\ pc.at = "await_finalize" /\ d \notin active_datasets
        /\ UNCHANGED <<started, active_datasets>>
    BY <1>8 DEF ReleaseWriter, Written, handles
  <2>2. \A i \in DOMAIN data_write_queue :
          /\ Item(i).keys = "finalize" =>
               started[Item(i).run] /\ Item(i).run \notin active_datasets
          /\ Item(i).keys # "stop"
    BY <1>0, <2>1 DEF FinalizePhase
  <2>3. CASE UNCHANGED queue
    BY <2>1, <2>2, <2>3 DEF FinalizePhase, queue, Item
  <2>4. CASE Put(StopItem) /\ pc' = At("await_stop", d, pc.flag)
    <3>1. /\ \A i \in DOMAIN data_write_queue' :
               i \in DOMAIN data_write_queue \/ Item(i)'.keys = "stop"
          /\ \A i \in DOMAIN data_write_queue : Item(i)' = Item(i)
      BY <1>0, <2>4, ItemTypes, QueuePut DEF Item, StopItem
    <3> QED
      BY <2>1, <2>2, <2>4, <3>1 DEF FinalizePhase, At
  <2> QED
    BY <1>8, <2>3, <2>4 DEF ReleaseWriter
<1>9. CASE AwaitStop
  <2>1. data_write_queue' = <<>>
    BY <1>0, <1>9 DEF AwaitStop, queue, TypeInv, UnfinishedCounts, QueueTypes
  <2> QED
    BY <1>3, <2>1
<1>10. CASE WriterExit
  <2>1. UNCHANGED <<data_write_queue, active_datasets, started, pc>>
    BY <1>10 DEF WriterExit, queue, handles, main
  <2> QED
    BY <1>0, <2>1 DEF FinalizePhase, Item
<1>11. CASE WriterStep /\ ~WriterExit
  <2>1. /\ data_write_queue # <<>>
        /\ data_write_queue' = Tail(data_write_queue)
        /\ UNCHANGED <<started, pc>>
        /\ active_datasets' \subseteq active_datasets
    BY <1>11 DEF WriterStep, WriteItem, WriteFails, FinalizeRun,
                 FinalizeUnknown, StopWriting, GetItem, WriterDies, main,
                 writer, handles
  <2>2. /\ Len(data_write_queue') = Len(data_write_queue) - 1
        /\ \A i \in DOMAIN data_write_queue' :
              /\ i \in Nat \ {0}
              /\ i + 1 \in DOMAIN data_write_queue
              /\ Item(i)' = Item(i + 1)
    BY <1>0, <2>1, QueueTail
  <2>3. \A i \in DOMAIN data_write_queue' :
          i + 1 = Len(data_write_queue) => i = Len(data_write_queue')
    BY <1>0, <2>2
  <2> QED
    BY <1>0, <2>1, <2>2, <2>3 DEF FinalizePhase
<1>12. CASE Crash
  BY <1>3, <1>12 DEF Crash
<1>13. CASE KeyboardInterrupt
  BY <1>0, <1>13 DEF KeyboardInterrupt
<1> QED
  BY <1>4, <1>5, <1>6, <1>7, <1>8, <1>9, <1>10, <1>11, <1>12, <1>13
  DEF Next, Continue

LEMMA RunPhaseKept ==
  ASSUME Inv, Next, MaxInterrupts = 0
  PROVE  RunPhase'
<1>0. /\ TypeInv /\ RunPhase /\ HandleTypes /\ DbTypes /\ MainTypes
      /\ interrupts \in Nat
  BY DEF Inv, OrderInv, Phases, TypeInv, TypeOK, MainTypes
<1>1. ASSUME UNCHANGED <<started, handle, created, completed, is_completed>>,
             \/ pc'.at = "idle"
             \/ pc'.run \in Runs /\ handle[pc'.run] # "none"
                /\ \/ /\ pc'.at \in {"created", "starting"}
                      /\ ~started[pc'.run]
                   \/ /\ pc'.at \notin {"created", "starting"}
                      /\ started[pc'.run]
      PROVE  RunPhase'
  BY <1>0, <1>1 DEF RunPhase
<1>2. CASE UserOperation
  <2> PICK d \in Runs :
        \/ NewDataSet(d) \/ \E bg \in BOOLEAN : RunnerEnter(d, bg)
        \/ Load(d) \/ \E bg \in BOOLEAN : MarkStarted(d, bg)
        \/ AddResult(d)
        \/ \E block \in BOOLEAN : FlushData(d, block)
        \/ FlushInterrupted(d)
        \/ AddResults(d)
        \/ Subscribe(d) \/ Unsubscribe(d)
        \/ RunnerExit(d)
        \/ MarkCompleted(d)
    BY <1>2 DEF UserOperation
  <2>1. pc.at = "idle"
    BY <1>0, <1>2, UserOperationEffect DEF Idle, At
  <2>2. CASE NewDataSet(d) \/ \E bg \in BOOLEAN : RunnerEnter(d, bg)
    <3>1. /\ d \notin created /\ created' = created \cup {d}
          /\ UNCHANGED <<started, completed, is_completed>>
          /\ \E how \in {"dataset", "runner"} :
                handle' = [handle EXCEPT ![d] = how]
          /\ \/ pc' = pc
             \/ pc'.at = "created" /\ pc'.run = d
      BY <2>2 DEF NewDataSet, RunnerEnter, Create, At
    <3>2. handle'[d] # "none" /\ \A e \in Runs : e # d => handle'[e] = handle[e]
      BY <1>0, <3>1 DEF HandleTypes
    <3> QED
      BY <1>0, <2>1, <3>1, <3>2 DEF RunPhase
  <2>3. CASE Load(d)
    <3>1. /\ d \in created /\ handle[d] = "none" /\ pc' = pc
          /\ UNCHANGED <<created, is_completed>>
          /\ handle'[d] = "dataset" /\ completed'[d] = is_completed[d]
          /\ \A e \in Runs : e # d => /\ handle'[e] = handle[e]
                                      /\ started'[e] = started[e]
                                      /\ completed'[e] = completed[e]
      BY <1>0, <2>3 DEF Load, HandleTypes, db, main
    <3> QED
      BY <1>0, <2>1, <3>1 DEF RunPhase
  <2>4. CASE ~NewDataSet(d) /\ ~Load(d) /\ ~\E bg \in BOOLEAN : RunnerEnter(d, bg)
    <3>1. UNCHANGED <<started, handle, created, completed, is_completed>>
      BY <2>4 DEF MarkStarted, WriteParameters, AddResult, FlushData, Flush,
         FlushInterrupted, AddResults, AddResultsTo, Subscribe, Unsubscribe,
         RunnerExit, MarkCompleted, ClearResults, db, handles
    <3>2. \/ pc' = pc \/ pc' = Idle
          \/ /\ pc'.at = "starting" /\ pc'.run = d
             /\ handle[d] = "dataset" /\ ~started[d]
          \/ /\ pc'.at \in {"await_queue", "completing"} /\ pc'.run = d
             /\ handle[d] # "none" /\ started[d]
      BY <2>4 DEF MarkStarted, WriteParameters, AddResult, FlushData,
         FlushInterrupted, AddResults, Subscribe, Unsubscribe, RunnerExit,
         MarkCompleted, UserHandles, Writable, main, At
    <3> QED
      BY <1>1, <2>1, <3>1, <3>2 DEF Idle, At
  <2> QED
    BY <2>2, <2>3, <2>4
<1>3. CASE Prepare \/ AwaitQueue \/ EnsureDatasetWritten \/ ReleaseWriter
           \/ AwaitStop
  <2>1. UNCHANGED <<started, handle, created, completed, is_completed>>
    BY <1>3 DEF Prepare, WriteParameters, AwaitQueue, EnsureDatasetWritten,
                ReleaseWriter, AwaitStop, db, handles
  <2>2. /\ pc.at \in {"created", "await_queue", "completing", "await_finalize",
                      "await_stop"}
        /\ \/ pc'.at = "idle"
           \/ /\ pc'.run = pc.run
              /\ \/ pc.at = "created" /\ pc'.at = "starting"
                 \/ /\ pc.at # "created"
                    /\ pc'.at \in {"completing", "await_finalize",
                                   "await_stop", "sealing"}
    BY <1>3 DEF Prepare, WriteParameters, AwaitQueue, EnsureDatasetWritten,
                ReleaseWriter, AwaitStop, At, Idle
  <2>3. pc.run \in Runs
    BY <1>0, <2>2 DEF MainTypes
  <2> QED
    BY <1>0, <1>1, <2>1, <2>2, <2>3 DEF RunPhase
<1>4. CASE PerformStartActions
  <2>1. /\ pc.at = "starting" /\ pc.run \in Runs /\ pc'.at = "idle"
        /\ UNCHANGED <<created, completed, is_completed>>
        /\ UNCHANGED handle \/ handle' = [handle EXCEPT ![pc.run] = "dataset"]
        /\ UNCHANGED started \/ started' = [started EXCEPT ![pc.run] = TRUE]
    BY <1>0, <1>4 DEF PerformStartActions, StartRaises, MainTypes, Idle, At
  <2>2. \A e \in Runs : handle'[e] # "none" <=> handle[e] # "none"
    BY <1>0, <2>1 DEF HandleTypes, RunPhase
  <2>3. \A e \in Runs : started'[e] => started[e] \/ e = pc.run
    BY <1>0, <2>1 DEF HandleTypes
  <2> QED
    BY <1>0, <2>1, <2>2, <2>3 DEF RunPhase
<1>5. CASE Seal \/ SealFails
  <2>1. /\ pc.at = "sealing" /\ pc.run \in Runs /\ pc'.at = "idle"
        /\ UNCHANGED <<created, started>>
        /\ handle'[pc.run] = "dataset" /\ completed'[pc.run] = TRUE
        /\ \A e \in Runs : e # pc.run => /\ handle'[e] = handle[e]
                                         /\ completed'[e] = completed[e]
                                         /\ is_completed'[e] = is_completed[e]
    BY <1>0, <1>5 DEF Seal, SealFails, HandleTypes, DbTypes, MainTypes, Idle,
                      At, db
  <2> QED
    BY <1>0, <2>1 DEF RunPhase
<1>9. CASE ExitRaises
  <2>1. /\ pc.at = "completing" /\ pc.run \in Runs /\ pc'.at = "idle"
        /\ UNCHANGED <<created, started, completed, is_completed>>
        /\ handle'[pc.run] = "dataset"
        /\ \A e \in Runs : e # pc.run => handle'[e] = handle[e]
    BY <1>0, <1>9 DEF ExitRaises, HandleTypes, MainTypes, Idle, At, db
  <2> QED
    BY <1>0, <2>1 DEF RunPhase
<1>6. CASE WriterStep
  <2>1. UNCHANGED <<started, handle, created, completed, is_completed, pc>>
    BY <1>6 DEF WriterStep, WriteItem, WriteFails, FinalizeRun,
                FinalizeUnknown, StopWriting, WriterExit, WriterDies, db,
                handles, main
  <2> QED
    BY <1>0, <2>1 DEF RunPhase
<1>7. CASE Crash
  <2>1. /\ pc'.at = "idle" /\ UNCHANGED <<created, is_completed>>
        /\ \A d \in Runs : handle'[d] = "none" /\ started'[d] = FALSE
    BY <1>7 DEF Crash, Idle, At
  <2> QED
    BY <1>0, <2>1 DEF RunPhase
<1>8. CASE KeyboardInterrupt
  BY <1>0, <1>8 DEF KeyboardInterrupt
<1> QED
  BY <1>2, <1>3, <1>4, <1>5, <1>6, <1>7, <1>8, <1>9 DEF Next, Continue

-----------------------------------------------------------------------------
LEMMA OrderInvInit == Init => OrderInv
<1> SUFFICES ASSUME Init PROVE OrderInv
  OBVIOUS
<1>1. Rows
  BY DEF Init, Rows, RowsInOrder, BuffersInOrder, BatchesInOrder, NoHole,
         Stretch, Front, DataItems
<1>2. Phases
  BY DEF Init, Phases, ItemRuns, WriterPhase, FinalizePhase, RunPhase, Lost,
         Idle, At
<1> QED
  BY <1>1, <1>2 DEF OrderInv

LEMMA OrderInvKept ==
  ASSUME Inv, Next, MaxInterrupts = 0
  PROVE  OrderInv'
<1>1. Rows'
  <2>1. CASE Crash
    BY <2>1, RowsForgotten DEF Inv, OrderInv
  <2>2. CASE KeyboardInterrupt
    BY <2>2 DEF KeyboardInterrupt, Inv, TypeInv, TypeOK, MainTypes
  <2> QED
    BY <2>1, <2>2, UserOperationKeepsRows, ContinueKeepsRows, WriterKeepsRows
    DEF Next
<1>2. Phases'
  BY ItemRunsKept, WriterPhaseKept, FinalizePhaseKept, RunPhaseKept
  DEF Phases, Inv, OrderInv
<1> QED
  BY <1>1, <1>2 DEF OrderInv

LEMMA OrderInvStutters ==
  ASSUME Inv, UNCHANGED vars
  PROVE  OrderInv'
<1>0. TypeInv /\ Rows /\ Phases
  BY DEF Inv, OrderInv
<1>1. Rows'
  BY <1>0, RowsLeftAlone DEF vars, db, handles
<1>2. Phases'
  BY <1>0 DEF Phases, ItemRuns, WriterPhase, FinalizePhase, RunPhase, Lost,
    Item, vars, db, handles, queue, writer, main
<1> QED
  BY <1>1, <1>2 DEF OrderInv

LEMMA Inductive ==
  ASSUME MaxInterrupts = 0
  PROVE  Spec => []Inv
<1>1. Init => Inv
  BY TypeInvInit, OrderInvInit DEF Inv
<1>2. Inv /\ [Next]_vars => Inv'
  <2>1. TypeInv /\ [Next]_vars => TypeInv'
    BY TypeInvStep
  <2> QED
    BY <2>1, OrderInvKept, OrderInvStutters DEF Inv
<1> QED
  BY <1>1, <1>2, PTL DEF Spec

(* What is in a table, in the hands of the writer thread, in the queue and *)
(* in _results is, in this order, what was measured, and the main thread   *)
(* never inserts while the writer thread may.                              *)
THEOREM OrderInvariant ==
  ASSUME MaxInterrupts = 0
  PROVE  Spec => []OrderInv
<1>1. Inv => OrderInv
  BY DEF Inv
<1> QED
  BY <1>1, Inductive, PTL

(* However many runs share the writer thread, whichever inserts fail,      *)
(* whether the thread dies or the process is killed and runs are taken up  *)
(* again: each results table holds the first results of its run, in the    *)
(* order in which they were handed over, each of them once.                *)
THEOREM RowsStayInOrder ==
  ASSUME MaxInterrupts = 0
  PROVE  Spec => []RowsInOrder
<1>1. Inv => RowsInOrder
  BY DEF Inv, OrderInv, Rows
<1> QED
  BY <1>1, Inductive, PTL

(* The two threads never insert rows side by side: a step in which the     *)
(* main thread inserts rows finds no writer thread and nothing queued.     *)
THEOREM MainThreadWritesAlone ==
  ASSUME MaxInterrupts = 0
  PROVE  Spec => MainWritesAlone
<1>1. Inv /\ [Next]_vars =>
        (table' # table /\ data_write_queue' = data_write_queue =>
           bg_writer = "none" /\ data_write_queue = <<>>)
  <2> SUFFICES ASSUME Inv, [Next]_vars, table' # table,
                      data_write_queue' = data_write_queue
               PROVE  bg_writer = "none" /\ data_write_queue = <<>>
    OBVIOUS
  <2>1. TypeInv /\ WriterPhase /\ QueueTypes
    BY DEF Inv, OrderInv, Phases, TypeInv, TypeOK
  <2>2. ~WriteItem
    <3> SUFFICES ASSUME WriteItem PROVE FALSE
      OBVIOUS
    <3>1. data_write_queue # <<>> /\ data_write_queue' = Tail(data_write_queue)
      BY DEF WriteItem, GetItem
    <3>2. Len(data_write_queue') = Len(data_write_queue) - 1
      BY <2>1, <3>1, QueueTail
    <3> QED
      BY <2>1, <3>2 DEF QueueTypes
  <2>3. CASE UserOperation
    <3>1. PICK d \in Runs :
            \/ NewDataSet(d) \/ \E bg \in BOOLEAN : RunnerEnter(d, bg)
            \/ Load(d) \/ \E bg \in BOOLEAN : MarkStarted(d, bg)
            \/ AddResult(d)
            \/ \E block \in BOOLEAN : FlushData(d, block)
            \/ FlushInterrupted(d)
            \/ AddResults(d)
            \/ Subscribe(d) \/ Unsubscribe(d)
            \/ RunnerExit(d)
            \/ MarkCompleted(d)
      BY <2>3 DEF UserOperation
    <3>2. \/ \E rows : Flush(d, rows)
          \/ \E rows : AddResultsTo(d, rows)
      BY <3>1 DEF NewDataSet, RunnerEnter, Create, Load, MarkStarted,
         WriteParameters, AddResult, FlushData, FlushInterrupted, AddResults,
         Subscribe, Unsubscribe, RunnerExit, MarkCompleted, db
    <3>3. \E rows : AddResultsTo(d, rows)
      BY <3>2 DEF Flush, db
    <3>4. write_in_background # "bg"
      BY <3>3 DEF AddResultsTo, db
    <3>5. pc.at = "idle"
      BY <2>1, <2>3, UserOperationEffect DEF Idle, At
    <3> QED
      BY <2>1, <3>4, <3>5 DEF WriterPhase
  <2>4. CASE ~UserOperation
    BY <2>2, <2>4
    DEF Next, Continue, WriterStep, Prepare, WriteParameters,
        PerformStartActions, StartRaises, AwaitQueue, EnsureDatasetWritten,
        ReleaseWriter, AwaitStop, Seal, SealFails, ExitRaises, WriteFails, FinalizeRun,
        FinalizeUnknown, StopWriting, WriterExit, WriterDies,
        KeyboardInterrupt, Crash, vars, db
  <2> QED
    BY <2>3, <2>4
<1> QED
  BY <1>1, Inductive, PTL DEF Spec, MainWritesAlone
-----------------------------------------------------------------------------
(* What the end of a run leaves behind, for any set of runs and any bounds *)
(* on results and starts: first without Ctrl-C, with the order of the rows *)
(* as proved above, then with any number of them.                          *)

(* The mode of the writer, and the blocking flush.                         *)

LEMMA ModePhaseKept ==
  ASSUME Inv, ModePhase, Next, MaxInterrupts = 0
  PROVE  ModePhase'
<1>0. /\ TypeInv /\ WriterPhase /\ FinalizePhase /\ interrupts \in Nat
      /\ active_datasets \subseteq Runs
  BY DEF Inv, OrderInv, Phases, TypeInv, TypeOK, MainTypes, WriterTypes
<1>1. CASE UserOperation
  <2>1. pc.at = "idle" /\ UNCHANGED writer
    BY <1>0, <1>1, UserOperationEffect DEF Idle, At
  <2> QED
    BY <2>1 DEF ModePhase, writer
<1>2. CASE Prepare \/ AwaitQueue \/ Seal \/ SealFails \/ ExitRaises
  <2>1. UNCHANGED writer /\ pc.at # "await_finalize"
    BY <1>2 DEF Prepare, WriteParameters, AwaitQueue, Seal, SealFails,
                ExitRaises
  <2> QED
    BY <2>1 DEF ModePhase, writer
<1>3. CASE PerformStartActions
  <2>1. pc.at = "starting"
    BY <1>3 DEF PerformStartActions
  <2>2. \/ UNCHANGED writer
        \/ /\ bg_writer = "dead" /\ write_in_background' = "bg"
           /\ UNCHANGED active_datasets
        \/ Register(pc.run, Mode(pc.flag))
    BY <1>3 DEF PerformStartActions, Mode, writer
  <2> QED
    BY <2>1, <2>2 DEF ModePhase, Register, Mode, writer
<1>4. CASE EnsureDatasetWritten
  <2>1. /\ pc'.at = "await_finalize" /\ UNCHANGED write_in_background
        /\ UNCHANGED active_datasets
             \/ active_datasets' = active_datasets \ {pc.run}
    BY <1>4 DEF EnsureDatasetWritten, At
  <2> QED
    BY <2>1 DEF ModePhase
<1>5. CASE ReleaseWriter
  BY <1>5 DEF ReleaseWriter, LastRun, ModePhase
<1>6. CASE AwaitStop
  <2>1. /\ pc.at = "await_stop"
        /\ UNCHANGED <<write_in_background, active_datasets>>
    BY <1>6 DEF AwaitStop
  <2> QED
    BY <2>1 DEF ModePhase
<1>7. CASE WriterStep
  <2>1. UNCHANGED <<write_in_background, pc>>
    BY <1>7 DEF WriterStep, WriteItem, WriteFails, FinalizeRun,
                FinalizeUnknown, StopWriting, WriterExit, WriterDies, main,
                writer
  <2>2. UNCHANGED active_datasets \/ FinalizeRun
    BY <1>7 DEF WriterStep, WriteItem, WriteFails, FinalizeUnknown,
                StopWriting, WriterExit, WriterDies, writer
  <2>3. FinalizeRun => pc.at = "await_finalize"
    <3> SUFFICES ASSUME FinalizeRun PROVE pc.at = "await_finalize"
      OBVIOUS
    <3>1. /\ data_write_queue # <<>>
          /\ Head(data_write_queue).keys = "finalize"
          /\ Head(data_write_queue).run \in active_datasets
      BY DEF FinalizeRun, GetItem
    <3> QED
      BY <1>0, <3>1, QueueHead DEF FinalizePhase, TypeInv, TypeOK
  <2>4. FinalizeRun => active_datasets' \subseteq active_datasets
    BY DEF FinalizeRun
  <2> QED
    BY <2>1, <2>2, <2>3, <2>4 DEF ModePhase
<1>8. CASE Crash
  BY <1>8 DEF Crash, ModePhase
<1>9. CASE KeyboardInterrupt
  BY <1>0, <1>9 DEF KeyboardInterrupt
<1> QED
  BY <1>1, <1>2, <1>3, <1>4, <1>5, <1>6, <1>7, <1>8, <1>9 DEF Next, Continue

LEMMA AwaitPhaseKept ==
  ASSUME Inv, AwaitPhase, Next, MaxInterrupts = 0
  PROVE  AwaitPhase'
<1>0. TypeInv /\ HandleTypes /\ interrupts \in Nat
  BY DEF Inv, TypeInv, TypeOK, MainTypes
<1>1. CASE UserOperation
  <2> PICK d \in Runs :
        \/ NewDataSet(d) \/ \E bg \in BOOLEAN : RunnerEnter(d, bg)
        \/ Load(d) \/ \E bg \in BOOLEAN : MarkStarted(d, bg)
        \/ AddResult(d)
        \/ \E block \in BOOLEAN : FlushData(d, block)
        \/ FlushInterrupted(d)
        \/ AddResults(d)
        \/ Subscribe(d) \/ Unsubscribe(d)
        \/ RunnerExit(d)
        \/ MarkCompleted(d)
    BY <1>1 DEF UserOperation
  <2>1. CASE (\E block \in BOOLEAN : FlushData(d, block)) \/ RunnerExit(d)
    <3>1. /\ Flush(d, results[d]) /\ ~completed[d] /\ UNCHANGED completed
          /\ pc'.at = "await_queue" =>
               pc'.run = d /\ write_in_background = "bg"
      BY <2>1 DEF FlushData, RunnerExit, Writable, At, Idle
    <3>2. write_in_background = "bg" => results'[d] = <<>>
      BY <1>0, <3>1 DEF Flush, ClearResults, HandleTypes
    <3> QED
      BY <3>1, <3>2 DEF AwaitPhase
  <2>2. CASE ~(\E block \in BOOLEAN : FlushData(d, block)) /\ ~RunnerExit(d)
    <3>1. pc'.at # "await_queue"
      BY <2>2 DEF NewDataSet, RunnerEnter, Create, Load, MarkStarted,
         WriteParameters, AddResult, FlushInterrupted, AddResults, Subscribe,
         Unsubscribe, MarkCompleted, main, Idle, At
    <3> QED
      BY <3>1 DEF AwaitPhase
  <2> QED
    BY <2>1, <2>2
<1>2. CASE Continue
  <2>1. pc'.at # "await_queue"
    BY <1>2 DEF Continue, Prepare, WriteParameters, PerformStartActions,
       StartRaises, AwaitQueue, ExitRaises, EnsureDatasetWritten,
       ReleaseWriter, AwaitStop, Seal, SealFails, Idle, At
  <2> QED
    BY <2>1 DEF AwaitPhase
<1>3. CASE WriterStep
  <2>1. UNCHANGED <<handles, pc>>
    BY <1>3 DEF WriterStep, WriteItem, WriteFails, FinalizeRun,
                FinalizeUnknown, StopWriting, WriterExit, WriterDies, main
  <2> QED
    BY <2>1 DEF AwaitPhase, handles
<1>4. CASE Crash
  BY <1>4 DEF Crash, AwaitPhase, Idle, At
<1>5. CASE KeyboardInterrupt
  BY <1>0, <1>5 DEF KeyboardInterrupt
<1> QED
  BY <1>1, <1>2, <1>3, <1>4, <1>5 DEF Next

CalmInv == Inv /\ ModePhase /\ AwaitPhase

LEMMA CalmInvariance ==
  ASSUME MaxInterrupts = 0
  PROVE  Spec => []CalmInv
<1>1. Init => ModePhase /\ AwaitPhase
  BY DEF Init, ModePhase, AwaitPhase, Idle, At
<1>2. Inv /\ ModePhase /\ AwaitPhase /\ [Next]_vars
        => ModePhase' /\ AwaitPhase'
  <2>1. ASSUME UNCHANGED vars, ModePhase, AwaitPhase
        PROVE  ModePhase' /\ AwaitPhase'
    BY <2>1 DEF ModePhase, AwaitPhase, vars, writer, handles, main
  <2> QED
    BY <2>1, ModePhaseKept, AwaitPhaseKept
<1> QED
  BY <1>1, <1>2, Inductive, PTL DEF Spec, CalmInv

(* Between two operations of the user the writer thread and the mode exist *)
(* exactly if some run is active: after the last mark_completed the next   *)
(* measurement may choose its mode, however many runs shared the thread,   *)
(* whatever failed in them, and also if runs were taken up again.          *)
THEOREM ReleasedAfterTheLast ==
  ASSUME MaxInterrupts = 0
  PROVE  Spec => []WriterReleased
<1>1. CalmInv => WriterReleased
  <2> SUFFICES ASSUME CalmInv, pc = Idle
               PROVE  /\ active_datasets = {} <=> write_in_background = "none"
                      /\ bg_writer # "none" <=> write_in_background = "bg"
    BY DEF WriterReleased
  <2>1. /\ WriterPhase /\ ModePhase /\ pc.at = "idle"
        /\ write_in_background \in {"none", "bg", "main"}
    BY DEF CalmInv, Inv, OrderInv, Phases, TypeInv, TypeOK, WriterTypes, Idle,
           At
  <2> QED
    BY <2>1 DEF WriterPhase, ModePhase
<1> QED
  BY <1>1, CalmInvariance, PTL

(* When the queue has been joined in flush_data_to_database(block=True),   *)
(* all that was measured for the run is in its table: a writer thread that *)
(* died with a batch never lets the join end.                              *)
THEOREM JoinedIsWritten ==
  ASSUME MaxInterrupts = 0
  PROVE  Spec => []JoinIsDurable
<1>1. CalmInv => JoinIsDurable
  <2> SUFFICES ASSUME CalmInv, pc.at = "await_queue", unfinished_tasks = 0
               PROVE  Len(table[pc.run]) = measured[pc.run]
    BY DEF JoinIsDurable
  <2> DEFINE d == pc.run
  <2>1. /\ NoHole /\ RunPhase /\ AwaitPhase /\ UnfinishedCounts
        /\ data_write_queue \in Seq(Items) /\ d \in Runs
        /\ measured[d] \in Nat /\ table[d] \in Seq(Nat)
    BY DEF CalmInv, Inv, OrderInv, Rows, Phases, TypeInv, TypeOK, DbTypes,
           HandleTypes, QueueTypes, MainTypes
  <2>2. Len(data_write_queue) = 0
    BY <2>1 DEF UnfinishedCounts
  <2>3. ~Lost /\ DataItems(d) = {}
    BY <2>1, <2>2 DEF Lost, DataItems
  <2>4. results[d] = <<>> /\ ~completed[d] /\ ~is_completed[d]
    BY <2>1 DEF AwaitPhase, RunPhase
  <2>5. Front(d) = Len(table[d]) + 1
    BY <2>1, <2>3, <2>4 DEF NoHole
  <2>6. Front(d) = measured[d] + 1
    BY <2>1, <2>4 DEF Front
  <2> QED
    BY <2>1, <2>5, <2>6
<1> QED
  BY <1>1, CalmInvariance, PTL

-----------------------------------------------------------------------------
(* The end of a run, however often Ctrl-C is pressed.                      *)

(* Only results given by the user make a run late, for good; and a run is *)
(* in the file for good.                                                   *)
LEMMA LateKept ==
  ASSUME Next
  PROVE  /\ late \subseteq late' /\ created \subseteq created'
         /\ UNCHANGED late \/ UserOperation
         /\ \A d \in late' : d \in late \/ handle[d] = "interrupted"
<1>1. CASE UserOperation
  <2>1. \A d \in Runs : AddResults(d) =>
          /\ late \subseteq late'
          /\ \A e \in late' : e \in late \/ handle[e] = "interrupted"
          /\ UNCHANGED created
    BY DEF AddResults, AddResultsTo, db
  <2>2. \/ UNCHANGED late /\ created \subseteq created'
        \/ \E d \in Runs : AddResults(d)
    BY <1>1
    DEF UserOperation, NewDataSet, RunnerEnter, Create, Load, MarkStarted,
        WriteParameters, AddResult, FlushData, FlushInterrupted, Flush,
        AddResultsTo, Subscribe, Unsubscribe, RunnerExit, MarkCompleted, db,
        main
  <2> QED
    BY <1>1, <2>1, <2>2
<1>2. CASE Continue \/ WriterStep \/ KeyboardInterrupt \/ Crash
  BY <1>2
  DEF Continue, Prepare, WriteParameters, PerformStartActions, StartRaises,
      AwaitQueue, ExitRaises, EnsureDatasetWritten, ReleaseWriter, AwaitStop,
      Seal, SealFails, WriterStep, WriteItem, WriteFails, FinalizeRun,
      FinalizeUnknown, StopWriting, WriterExit, WriterDies,
      KeyboardInterrupt, Crash, db, main
<1> QED
  BY <1>1, <1>2 DEF Next

LEMMA BatchQueued ==
  ASSUME TypeInv, UserOperation
  PROVE  \/ UNCHANGED queue
         \/ /\ write_in_background = "bg"
            /\ \E d \in Runs, rows \in Seq(Nat) :
                 /\ Put(DataItem(d, rows)) /\ Writable(d)
                 /\ handle[d] \in {"runner", "dataset"} \/ d \in late'
<1> PICK d \in Runs :
      \/ NewDataSet(d) \/ \E bg \in BOOLEAN : RunnerEnter(d, bg)
      \/ Load(d) \/ \E bg \in BOOLEAN : MarkStarted(d, bg)
      \/ AddResult(d)
      \/ \E block \in BOOLEAN : FlushData(d, block)
      \/ FlushInterrupted(d)
      \/ AddResults(d)
      \/ Subscribe(d) \/ Unsubscribe(d)
      \/ RunnerExit(d)
      \/ MarkCompleted(d)
  BY DEF UserOperation
<1>1. /\ results[d] \in Seq(Nat) /\ measured[d] \in Nat
      /\ Append(results[d], measured[d] + 1) \in Seq(Nat)
      /\ <<measured[d] + 1>> \in Seq(Nat)
  BY DEF TypeInv, TypeOK, HandleTypes
<1>2. CASE \/ NewDataSet(d) \/ \E bg \in BOOLEAN : RunnerEnter(d, bg)
           \/ Load(d) \/ \E bg \in BOOLEAN : MarkStarted(d, bg)
           \/ Subscribe(d) \/ Unsubscribe(d) \/ MarkCompleted(d)
  BY <1>2 DEF NewDataSet, RunnerEnter, Create, Load, MarkStarted,
              WriteParameters, Subscribe, Unsubscribe, MarkCompleted
<1>3. CASE \/ AddResult(d) \/ RunnerExit(d) \/ FlushInterrupted(d)
           \/ AddResults(d) \/ \E block \in BOOLEAN : FlushData(d, block)
  <2>1. \/ UNCHANGED queue
        \/ \E rows \in Seq(Nat) : Flush(d, rows)
        \/ \E rows \in Seq(Nat) : AddResultsTo(d, rows)
    BY <1>1, <1>3 DEF AddResult, RunnerExit, FlushData, FlushInterrupted,
                      AddResults
  <2>2. \/ UNCHANGED queue
        \/ \E rows \in Seq(Nat) : AddResultsTo(d, rows)
    BY <2>1 DEF Flush
  <2>3. /\ Writable(d)
        /\ \/ handle[d] \in {"runner", "dataset"}
           \/ write_in_background = "bg" => d \in late'
    BY <1>3 DEF AddResult, RunnerExit, FlushData, FlushInterrupted, AddResults,
                UserHandles
  <2> QED
    BY <2>2, <2>3 DEF AddResultsTo
<1> QED
  BY <1>2, <1>3

(* What an operation of the user does to the handles: it makes a new one,  *)
(* or leaves them alone and begins something with a run it may.            *)
LEMMA UserOperationHandles ==
  ASSUME TypeInv, UserOperation, "resume" \notin Faults
  PROVE  /\ UNCHANGED <<started, completed, is_completed, run_timestamp,
                        writer>>
         /\ pc = Idle
         /\ \E d \in Runs :
              \/ /\ d \notin created /\ created' = created \cup {d}
                 /\ \/ /\ handle' = [handle EXCEPT ![d] = "dataset"]
                       /\ UNCHANGED pc
                    \/ /\ handle' = [handle EXCEPT ![d] = "runner"]
                       /\ \E flag \in BOOLEAN : pc' = At("created", d, flag)
              \/ /\ UNCHANGED <<created, handle>>
                 /\ \/ pc' = Idle
                    \/ /\ handle[d] = "dataset" /\ ~started[d]
                       /\ \E flag \in BOOLEAN : pc' = At("starting", d, flag)
                    \/ /\ handle[d] = "runner" /\ Writable(d)
                       /\ \/ \E flag \in BOOLEAN :
                               pc' = At("await_queue", d, flag)
                          \/ pc' = At("completing", d, TRUE)
                    \/ /\ handle[d] \in UserHandles /\ Writable(d)
                       /\ pc' = At("completing", d, FALSE)
<1> PICK d \in Runs :
      \/ NewDataSet(d) \/ \E bg \in BOOLEAN : RunnerEnter(d, bg)
      \/ Load(d) \/ \E bg \in BOOLEAN : MarkStarted(d, bg)
      \/ AddResult(d)
      \/ \E block \in BOOLEAN : FlushData(d, block)
      \/ FlushInterrupted(d)
      \/ AddResults(d)
      \/ Subscribe(d) \/ Unsubscribe(d)
      \/ RunnerExit(d)
      \/ MarkCompleted(d)
  BY DEF UserOperation
<1>1. CASE NewDataSet(d) \/ \E bg \in BOOLEAN : RunnerEnter(d, bg)
  BY <1>1 DEF NewDataSet, RunnerEnter, Create
<1>2. CASE \E bg \in BOOLEAN : MarkStarted(d, bg)
  BY <1>2 DEF MarkStarted, WriteParameters, handles
<1>3. CASE AddResult(d) \/ AddResults(d) \/ FlushInterrupted(d)
           \/ Subscribe(d) \/ Unsubscribe(d)
  BY <1>3 DEF AddResult, AddResults, FlushInterrupted, Subscribe, Unsubscribe,
              Flush, AddResultsTo, handles, db, main
<1>4. CASE \E block \in BOOLEAN : FlushData(d, block)
  BY <1>4 DEF FlushData, Flush, AddResultsTo, db
<1>5. CASE RunnerExit(d)
  BY <1>5 DEF RunnerExit, Flush, AddResultsTo, db
<1>6. CASE MarkCompleted(d)
  BY <1>6 DEF MarkCompleted, handles, db
<1>7. CASE Load(d)
  BY <1>7 DEF Load
<1> QED
  BY <1>1, <1>2, <1>3, <1>4, <1>5, <1>6, <1>7

(* A run that is closed stays closed as long as the process lives.         *)
LEMMA ClosingKept ==
  ASSUME TypeInv, HandleTruth, PlaceTruth, Next, ~Crash,
         "resume" \notin Faults, NEW d \in Runs, Closing(d)
  PROVE  Closing(d)'
<1>0. /\ handle \in [Runs -> HandleKinds] /\ completed \in [Runs -> BOOLEAN]
      /\ pc.at # "idle" => pc.run \in Runs
      /\ handle[d] # "none" => d \in created
      /\ NoRun # d
  BY RunsAssumption DEF TypeInv, TypeOK, HandleTypes, MainTypes, HandleTruth
<1>1. CASE UserOperation
  <2>1. UNCHANGED completed /\ pc.at = "idle"
    BY <1>1, UserOperationHandles DEF Idle, At
  <2>2. handle[d] = "interrupted" => handle'[d] = "interrupted"
    BY <1>0, <1>1, UserOperationHandles
  <2> QED
    BY <2>1, <2>2 DEF Closing
<1>2. CASE Prepare \/ AwaitQueue \/ EnsureDatasetWritten
  <2>1. /\ UNCHANGED handles
        /\ pc.at \in {"created", "await_queue", "completing"}
    BY <1>2 DEF Prepare, WriteParameters, AwaitQueue, EnsureDatasetWritten
  <2> QED
    BY <2>1 DEF Closing, handles
<1>3. CASE PerformStartActions
  <2>1. /\ pc.at = "starting" /\ UNCHANGED completed
        /\ UNCHANGED handle \/ handle' = [handle EXCEPT ![pc.run] = "dataset"]
    BY <1>3 DEF PerformStartActions, StartRaises
  <2>2. handle[pc.run] # "interrupted"
    BY <2>1 DEF PlaceTruth
  <2> QED
    BY <1>0, <2>1, <2>2 DEF Closing
<1>4. CASE ExitRaises
  <2>1. /\ pc.at = "completing" /\ pc.flag /\ UNCHANGED completed
        /\ handle' = [handle EXCEPT ![pc.run] = "dataset"]
    BY <1>4 DEF ExitRaises
  <2>2. handle[pc.run] # "interrupted"
    BY <2>1 DEF PlaceTruth
  <2> QED
    BY <1>0, <2>1, <2>2 DEF Closing
<1>5. CASE ReleaseWriter \/ AwaitStop
  <2>1. /\ UNCHANGED handles
        /\ pc'.at \in {"await_stop", "sealing"} /\ pc'.run = pc.run
    BY <1>5 DEF ReleaseWriter, AwaitStop, At
  <2> QED
    BY <2>1 DEF Closing, handles
<1>6. CASE Seal \/ SealFails
  <2>1. /\ pc.at = "sealing"
        /\ completed' = [completed EXCEPT ![pc.run] = TRUE]
        /\ handle' = [handle EXCEPT ![pc.run] = "dataset"]
    BY <1>6 DEF Seal, SealFails
  <2> QED
    BY <1>0, <2>1 DEF Closing
<1>7. CASE WriterStep
  <2>1. UNCHANGED <<handles, pc>>
    BY <1>7 DEF WriterStep, WriteItem, WriteFails, FinalizeRun,
                FinalizeUnknown, StopWriting, WriterExit, WriterDies, main
  <2> QED
    BY <2>1 DEF Closing, handles
<1>8. CASE KeyboardInterrupt
  <2>1. /\ UNCHANGED completed
        /\ pc.at \in {"await_queue", "await_finalize", "await_stop"}
        /\ \/ handle' = [handle EXCEPT ![pc.run] = "interrupted"]
           \/ /\ pc.at = "await_queue"
              /\ \/ UNCHANGED handle
                 \/ handle' = [handle EXCEPT ![pc.run] = "dataset"]
    BY <1>8 DEF KeyboardInterrupt
  <2>2. pc.at = "await_queue" => handle[pc.run] = "runner"
    BY DEF PlaceTruth
  <2> QED
    BY <1>0, <2>1, <2>2 DEF Closing
<1> QED
  BY <1>1, <1>2, <1>3, <1>4, <1>5, <1>6, <1>7, <1>8 DEF Next, Continue

LEMMA HandleTruthKept ==
  ASSUME TypeInv, HandleTruth, PlaceTruth, Next, "resume" \notin Faults
  PROVE  HandleTruth'
<1>0. /\ handle \in [Runs -> HandleKinds] /\ completed \in [Runs -> BOOLEAN]
      /\ started \in [Runs -> BOOLEAN] /\ is_completed \in [Runs -> BOOLEAN]
      /\ run_timestamp \in [Runs -> BOOLEAN]
      /\ pc.at # "idle" => pc.run \in Runs
      /\ \A d \in Runs : d \in late' => d \in created'
  BY LateKept DEF TypeInv, TypeOK, HandleTypes, DbTypes, MainTypes, HandleTruth
<1>1. CASE UserOperation
  <2>1. /\ UNCHANGED <<started, completed, is_completed, run_timestamp,
                       active_datasets>>
    BY <1>1, UserOperationHandles DEF writer
  <2>2. PICK d \in Runs :
          \/ UNCHANGED <<created, handle>>
          \/ /\ d \notin created /\ created' = created \cup {d}
             /\ \E how \in {"dataset", "runner"} :
                   handle' = [handle EXCEPT ![d] = how]
    BY <1>1, UserOperationHandles
  <2>3. CASE UNCHANGED <<created, handle>>
    BY <1>0, <2>1, <2>3 DEF HandleTruth
  <2>4. CASE /\ d \notin created /\ created' = created \cup {d}
             /\ \E how \in {"dataset", "runner"} :
                   handle' = [handle EXCEPT ![d] = how]
    <3>1. ~started[d] /\ ~completed[d] /\ ~is_completed[d]
      BY <1>0, <2>4 DEF HandleTruth
    <3>2. handle'[d] # "none" /\ d \in created'
      BY <1>0, <2>4
    <3>3. \A e \in Runs : e # d => handle'[e] = handle[e]
      BY <1>0, <2>4
    <3> QED
      BY <1>0, <2>1, <2>4, <3>1, <3>2, <3>3 DEF HandleTruth
  <2> QED
    BY <2>2, <2>3, <2>4
<1>2. CASE Prepare \/ AwaitQueue \/ EnsureDatasetWritten \/ ReleaseWriter
           \/ AwaitStop
  <2>1. /\ UNCHANGED <<started, completed, is_completed, run_timestamp, handle,
                       created>>
        /\ active_datasets' \subseteq active_datasets
    BY <1>2 DEF Prepare, WriteParameters, AwaitQueue, EnsureDatasetWritten,
                ReleaseWriter, AwaitStop, db, handles, writer
  <2> QED
    BY <1>0, <2>1 DEF HandleTruth
<1>3. CASE PerformStartActions
  <2>1. /\ pc.at = "starting" /\ pc.run \in Runs /\ ~started[pc.run]
        /\ handle[pc.run] # "none"
    BY <1>0, <1>3 DEF PerformStartActions, PlaceTruth
  <2>2. /\ UNCHANGED <<completed, is_completed, created>>
        /\ \/ UNCHANGED run_timestamp
           \/ run_timestamp' = [run_timestamp EXCEPT ![pc.run] = TRUE]
        /\ \/ UNCHANGED handle
           \/ handle' = [handle EXCEPT ![pc.run] = "dataset"]
        /\ \/ UNCHANGED started
           \/ /\ started' = [started EXCEPT ![pc.run] = TRUE]
              /\ run_timestamp' = [run_timestamp EXCEPT ![pc.run] = TRUE]
        /\ active_datasets' \subseteq active_datasets \cup {pc.run}
    BY <1>3 DEF PerformStartActions, StartRaises, Register, writer
  <2>3. \A e \in Runs :
          /\ run_timestamp[e] => run_timestamp'[e]
          /\ started[e] => started'[e]
          /\ started'[e] => started[e] \/ run_timestamp'[e]
          /\ e # pc.run => started'[e] = started[e] /\ handle'[e] = handle[e]
    BY <1>0, <2>1, <2>2
  <2>4. handle'[pc.run] # "none" /\ (handle[pc.run] # "runner" => handle'[pc.run] # "runner")
    BY <1>0, <2>1, <2>2
  <2>5. \A e \in Runs : run_timestamp'[e] => e \in created
    BY <1>0, <2>1, <2>2 DEF HandleTruth
  <2>6. active_datasets' \subseteq active_datasets \cup {pc.run}
    BY <2>2
  <2> QED
    BY <1>0, <2>1, <2>2, <2>3, <2>4, <2>5, <2>6 DEF HandleTruth
<1>4. CASE ExitRaises
  <2>1. /\ pc.at = "completing"
        /\ UNCHANGED <<started, completed, is_completed, run_timestamp,
                       created, active_datasets>>
        /\ handle' = [handle EXCEPT ![pc.run] = "dataset"]
    BY <1>4 DEF ExitRaises, db, writer
  <2>2. pc.run \in Runs /\ handle[pc.run] # "none"
    BY <1>0, <2>1 DEF PlaceTruth
  <2> QED
    BY <1>0, <2>1, <2>2 DEF HandleTruth
<1>5. CASE Seal \/ SealFails
  <2>1. /\ pc.at = "sealing"
        /\ UNCHANGED <<started, run_timestamp, created, active_datasets>>
        /\ completed' = [completed EXCEPT ![pc.run] = TRUE]
        /\ \/ UNCHANGED is_completed
           \/ is_completed' = [is_completed EXCEPT ![pc.run] = TRUE]
        /\ handle' = [handle EXCEPT ![pc.run] = "dataset"]
    BY <1>5 DEF Seal, SealFails, db, writer
  <2>2. pc.run \in Runs /\ handle[pc.run] # "none" /\ started[pc.run]
    BY <1>0, <2>1 DEF PlaceTruth
  <2> QED
    BY <1>0, <2>1, <2>2 DEF HandleTruth
<1>6. CASE WriterStep
  <2>1. /\ UNCHANGED <<started, completed, is_completed, run_timestamp, handle,
                       created>>
        /\ active_datasets' \subseteq active_datasets
    BY <1>6 DEF WriterStep, WriteItem, WriteFails, FinalizeRun,
                FinalizeUnknown, StopWriting, WriterExit, WriterDies, db,
                handles, writer
  <2> QED
    BY <1>0, <2>1 DEF HandleTruth
<1>7. CASE KeyboardInterrupt
  <2>1. /\ pc.at \in {"await_queue", "await_finalize", "await_stop"}
        /\ UNCHANGED <<started, completed, is_completed, run_timestamp,
                       created, active_datasets>>
        /\ \/ UNCHANGED handle
           \/ \E how \in {"interrupted", "dataset"} :
                handle' = [handle EXCEPT ![pc.run] = how]
    BY <1>7 DEF KeyboardInterrupt, db, writer
  <2>2. pc.run \in Runs /\ handle[pc.run] # "none"
    BY <1>0, <2>1 DEF PlaceTruth
  <2> QED
    BY <1>0, <2>1, <2>2 DEF HandleTruth
<1>8. CASE Crash
  <2>1. /\ UNCHANGED <<created, run_timestamp, is_completed>>
        /\ active_datasets' = {}
        /\ \A d \in Runs : handle'[d] = "none" /\ ~started'[d] /\ ~completed'[d]
    BY <1>8 DEF Crash
  <2> QED
    BY <1>0, <2>1 DEF HandleTruth
<1> QED
  BY <1>1, <1>2, <1>3, <1>4, <1>5, <1>6, <1>7, <1>8 DEF Next, Continue

LEMMA PlaceTruthKept ==
  ASSUME TypeInv, HandleTruth, PlaceTruth, Next, "resume" \notin Faults
  PROVE  PlaceTruth'
<1>0. /\ handle \in [Runs -> HandleKinds] /\ completed \in [Runs -> BOOLEAN]
      /\ started \in [Runs -> BOOLEAN]
      /\ pc.at # "idle" => pc.run \in Runs
  BY DEF TypeInv, TypeOK, HandleTypes, DbTypes, MainTypes
<1>1. ASSUME pc'.at = "idle", pc'.run = NoRun
      PROVE  PlaceTruth'
  BY <1>1 DEF PlaceTruth
<1>2. CASE UserOperation
  <2>1. UNCHANGED <<started, completed>> /\ pc = Idle
    BY <1>2, UserOperationHandles
  <2>2. PICK d \in Runs :
              \/ /\ d \notin created
                 /\ \/ UNCHANGED pc
                    \/ /\ handle' = [handle EXCEPT ![d] = "runner"]
                       /\ \E flag \in BOOLEAN : pc' = At("created", d, flag)
              \/ /\ UNCHANGED handle
                 /\ \/ pc' = Idle
                    \/ /\ handle[d] = "dataset" /\ ~started[d]
                       /\ \E flag \in BOOLEAN : pc' = At("starting", d, flag)
                    \/ /\ handle[d] = "runner" /\ Writable(d)
                       /\ \/ \E flag \in BOOLEAN :
                               pc' = At("await_queue", d, flag)
                          \/ pc' = At("completing", d, TRUE)
                    \/ /\ handle[d] \in UserHandles /\ Writable(d)
                       /\ pc' = At("completing", d, FALSE)
    BY <1>2, UserOperationHandles
  <2>3. CASE pc' = Idle \/ UNCHANGED pc
    BY <1>1, <2>1, <2>3 DEF Idle, At
  <2>4. CASE /\ d \notin created
             /\ handle' = [handle EXCEPT ![d] = "runner"]
             /\ \E flag \in BOOLEAN : pc' = At("created", d, flag)
    <3>1. ~started[d] /\ handle'[d] = "runner"
      BY <1>0, <2>4 DEF HandleTruth
    <3> QED
      BY <2>1, <2>4, <3>1 DEF PlaceTruth, At
  <2>5. CASE /\ UNCHANGED handle
             /\ handle[d] = "dataset" /\ ~started[d]
             /\ \E flag \in BOOLEAN : pc' = At("starting", d, flag)
    BY <2>1, <2>5 DEF PlaceTruth, At
  <2>6. CASE /\ UNCHANGED handle
             /\ handle[d] = "runner" /\ Writable(d)
             /\ \/ \E flag \in BOOLEAN : pc' = At("await_queue", d, flag)
                \/ pc' = At("completing", d, TRUE)
    BY <2>1, <2>6 DEF PlaceTruth, At, Writable
  <2>7. CASE /\ UNCHANGED handle
             /\ handle[d] \in UserHandles /\ Writable(d)
             /\ pc' = At("completing", d, FALSE)
    BY <2>1, <2>7 DEF PlaceTruth, At, Writable, UserHandles
  <2> QED
    BY <2>2, <2>3, <2>4, <2>5, <2>6, <2>7
<1>3. CASE Prepare
  <2>1. /\ pc.at = "created" /\ UNCHANGED handles
        /\ pc' = At("starting", pc.run, pc.flag)
    BY <1>3 DEF Prepare, WriteParameters
  <2> QED
    BY <2>1 DEF PlaceTruth, At, handles
<1>4. CASE PerformStartActions \/ ExitRaises \/ Seal \/ SealFails
           \/ KeyboardInterrupt \/ Crash
  <2>1. pc' = Idle
    BY <1>4 DEF PerformStartActions, StartRaises, ExitRaises, Seal, SealFails,
                KeyboardInterrupt, Crash
  <2> QED
    BY <1>1, <2>1 DEF Idle, At
<1>5. CASE AwaitQueue
  <2>1. /\ pc.at = "await_queue" /\ UNCHANGED handles
        /\ pc' = Idle \/ pc' = At("completing", pc.run, TRUE)
    BY <1>5 DEF AwaitQueue
  <2>2. CASE pc' = Idle
    BY <1>1, <2>2 DEF Idle, At
  <2>3. CASE pc' = At("completing", pc.run, TRUE)
    BY <2>1, <2>3 DEF PlaceTruth, At, handles
  <2> QED
    BY <2>1, <2>2, <2>3
<1>6. CASE EnsureDatasetWritten
  <2>1. /\ pc.at = "completing" /\ UNCHANGED handles
        /\ pc' = At("await_finalize", pc.run, pc.flag)
    BY <1>6 DEF EnsureDatasetWritten
  <2> QED
    BY <2>1 DEF PlaceTruth, At, handles
<1>7. CASE ReleaseWriter
  <2>1. /\ pc.at = "await_finalize" /\ UNCHANGED <<handles, active_datasets>>
        /\ pc.run \notin active_datasets
        /\ \/ pc' = At("sealing", pc.run, pc.flag)
           \/ /\ pc' = At("await_stop", pc.run, pc.flag)
              /\ write_in_background' = "none"
    BY <1>7 DEF ReleaseWriter, Written
  <2> QED
    BY <2>1 DEF PlaceTruth, At, handles
<1>8. CASE AwaitStop
  <2>1. /\ pc.at = "await_stop" /\ UNCHANGED <<handles, active_datasets>>
        /\ pc' = At("sealing", pc.run, pc.flag)
    BY <1>8 DEF AwaitStop
  <2> QED
    BY <2>1 DEF PlaceTruth, At, handles
<1>9. CASE WriterStep
  <2>1. /\ UNCHANGED <<handles, pc, write_in_background>>
        /\ active_datasets' \subseteq active_datasets
    BY <1>9 DEF WriterStep, WriteItem, WriteFails, FinalizeRun,
                FinalizeUnknown, StopWriting, WriterExit, WriterDies, main,
                writer
  <2> QED
    BY <2>1 DEF PlaceTruth, handles
<1> QED
  BY <1>2, <1>3, <1>4, <1>5, <1>6, <1>7, <1>8, <1>9 DEF Next, Continue

LEMMA QueuedIsActiveKept ==
  ASSUME TypeInv, ClosedInv, Next, "resume" \notin Faults
  PROVE  QueuedIsActive'
<1>0. /\ QueuedIsActive /\ FinalizeIsLast /\ ActiveIsOpen /\ QueueTypes
      /\ write_in_background = "bg" \/ write_in_background # "bg"
      /\ late \subseteq late'
  BY LateKept DEF ClosedInv, TypeInv, TypeOK
<1>1. ASSUME UNCHANGED data_write_queue,
             active_datasets \subseteq active_datasets',
             write_in_background = "bg" => write_in_background' = "bg"
      PROVE  QueuedIsActive'
  BY <1>0, <1>1 DEF QueuedIsActive, Item
<1>2. ASSUME NEW item \in Items, Put(item),
             item.keys = "data" /\ item.run \notin late' =>
               item.run \in active_datasets' /\ write_in_background' = "bg",
             \A i \in DOMAIN data_write_queue :
               Item(i).keys = "data" /\ Item(i).run \notin late' =>
                 /\ Item(i).run \in active_datasets'
                 /\ write_in_background' = "bg"
      PROVE  QueuedIsActive'
  <2>1. \A i \in DOMAIN data_write_queue' :
          \/ i \in DOMAIN data_write_queue /\ Item(i)' = Item(i)
          \/ Item(i)' = item
    BY <1>0, <1>2, QueuePut DEF Item, QueueTypes
  <2> QED
    BY <1>2, <2>1 DEF QueuedIsActive
<1>3. CASE UserOperation
  <2>1. UNCHANGED writer /\ pc = Idle
    BY <1>3, UserOperationHandles
  <2>2. CASE UNCHANGED queue
    BY <1>1, <2>1, <2>2 DEF writer, queue
  <2>3. ASSUME write_in_background = "bg", NEW d \in Runs,
               NEW rows \in Seq(Nat), Put(DataItem(d, rows)), Writable(d),
               handle[d] \in {"runner", "dataset"} \/ d \in late'
        PROVE  QueuedIsActive'
    <3>1. ~Closing(d) \/ d \in late'
      BY <2>1, <2>3 DEF Closing, Writable, Idle, At
    <3>2. d \in active_datasets \/ d \in late'
      BY <1>0, <2>3, <3>1 DEF ActiveIsOpen, Writable
    <3>3. DataItem(d, rows) \in Items /\ DataItem(d, rows).run = d
      BY ItemTypes DEF DataItem
    <3> QED
      BY <1>0, <1>2, <2>1, <2>3, <3>2, <3>3 DEF writer, QueuedIsActive
  <2> QED
    BY <1>3, <2>2, <2>3, BatchQueued
<1>4. CASE Prepare \/ AwaitQueue \/ ExitRaises \/ Seal \/ SealFails
           \/ KeyboardInterrupt \/ AwaitStop
  BY <1>1, <1>4 DEF Prepare, WriteParameters, AwaitQueue, ExitRaises, Seal,
     SealFails, KeyboardInterrupt, AwaitStop, queue, writer
<1>5. CASE PerformStartActions
  BY <1>1, <1>5 DEF PerformStartActions, StartRaises, Register, MayNotMix,
     Mode, queue, writer
<1>6. CASE EnsureDatasetWritten
  <2>1. CASE write_in_background = "bg"
    <3>1. /\ Put(FinalizeItem(pc.run)) /\ pc.run \in Runs
          /\ UNCHANGED <<active_datasets, write_in_background>>
      BY <1>6, <2>1 DEF EnsureDatasetWritten, TypeInv, TypeOK, MainTypes
    <3>2. /\ FinalizeItem(pc.run) \in Items
          /\ FinalizeItem(pc.run).keys # "data"
      BY <3>1, ItemTypes DEF FinalizeItem
    <3> QED
      BY <1>0, <1>2, <3>1, <3>2 DEF QueuedIsActive
  <2>2. CASE write_in_background # "bg"
    BY <1>0, <1>6, <2>2 DEF EnsureDatasetWritten, QueuedIsActive, queue, Item
  <2> QED
    BY <2>1, <2>2
<1>7. CASE ReleaseWriter
  <2>1. CASE LastRun
    <3>1. \A i \in DOMAIN data_write_queue :
            Item(i).keys # "data" \/ Item(i).run \in late
      BY <1>0, <2>1 DEF LastRun, QueuedIsActive
    <3>2. UNCHANGED queue \/ Put(StopItem)
      BY <1>7, <2>1 DEF ReleaseWriter
    <3>3. StopItem \in Items /\ StopItem.keys # "data"
      BY ItemTypes DEF StopItem
    <3>4. UNCHANGED queue => QueuedIsActive'
      BY <1>0, <3>1 DEF QueuedIsActive, queue, Item
    <3> QED
      BY <1>0, <1>2, <3>1, <3>2, <3>3, <3>4
  <2>2. CASE ~LastRun
    BY <1>1, <1>7, <2>2 DEF ReleaseWriter, queue
  <2> QED
    BY <2>1, <2>2
<1>8. CASE WriterExit
  BY <1>1, <1>8 DEF WriterExit, queue
<1>9. CASE WriterStep /\ ~WriterExit
  <2>1. /\ data_write_queue # <<>>
        /\ data_write_queue' = Tail(data_write_queue)
        /\ UNCHANGED write_in_background
    BY <1>9 DEF WriterStep, WriteItem, WriteFails, FinalizeRun,
                FinalizeUnknown, StopWriting, GetItem, WriterDies, writer
  <2>2. \A i \in DOMAIN data_write_queue' :
          /\ i \in Nat \ {0} /\ i + 1 \in DOMAIN data_write_queue
          /\ Item(i)' = Item(i + 1)
    BY <1>0, <2>1, QueueTail
  <2>3. \/ UNCHANGED active_datasets
        \/ /\ Head(data_write_queue).keys = "finalize"
           /\ active_datasets'
                = active_datasets \ {Head(data_write_queue).run}
    BY <1>9 DEF WriterStep, WriteItem, WriteFails, FinalizeRun,
                FinalizeUnknown, StopWriting, GetItem, WriterDies, writer
  <2>4. CASE UNCHANGED active_datasets
    BY <1>0, <2>1, <2>2, <2>4 DEF QueuedIsActive
  <2>5. CASE /\ Head(data_write_queue).keys = "finalize"
             /\ active_datasets'
                  = active_datasets \ {Head(data_write_queue).run}
    <3>1. Item(1) = Head(data_write_queue) /\ 1 \in DOMAIN data_write_queue
      BY <1>0, <2>1, QueueHead
    <3>2. Item(1).run \in late \/ \A j \in DataItems(Item(1).run) : j < 1
      BY <1>0, <2>5, <3>1 DEF FinalizeIsLast
    <3>3. ASSUME NEW i \in DOMAIN data_write_queue', Item(i)'.keys = "data",
                 Item(i)'.run \notin late'
          PROVE  Item(i)'.run # Item(1).run
      <4>1. i + 1 \in DOMAIN data_write_queue /\ ~(i + 1 < 1)
        BY <2>2
      <4> QED
        BY <1>0, <2>2, <3>2, <3>3, <4>1 DEF DataItems
    <3> QED
      BY <1>0, <2>1, <2>2, <2>5, <3>1, <3>3 DEF QueuedIsActive
  <2> QED
    BY <2>3, <2>4, <2>5
<1>10. CASE Crash
  BY <1>10 DEF Crash, QueuedIsActive
<1> QED
  BY <1>3, <1>4, <1>5, <1>6, <1>7, <1>8, <1>9, <1>10 DEF Next, Continue

(* FinalizeIsLast of the next state, run by run.                           *)
LEMMA FinalizeIsLastNext ==
  ASSUME ItemRuns',
         \A d \in Runs : \A i \in DOMAIN data_write_queue' :
           Item(i)'.keys = "finalize" /\ Item(i)'.run = d =>
             /\ Closing(d)'
             /\ d \in late' \/ \A j \in DataItems(d)' : j < i
  PROVE  FinalizeIsLast'
<1> SUFFICES ASSUME NEW i \in DOMAIN data_write_queue',
                    Item(i)'.keys = "finalize"
             PROVE  /\ Closing(Item(i).run)'
                    /\ \/ Item(i)'.run \in late'
                       \/ \A j \in DataItems(Item(i).run)' : j < i
  BY DEF FinalizeIsLast
<1>1. PICK d \in Runs : Item(i)'.run = d
  BY DEF ItemRuns
<1>2. /\ Closing(d)'
      /\ d \in late' \/ \A j \in DataItems(d)' : j < i
  BY <1>1
<1>3. Closing(Item(i).run)'
  BY <1>1, <1>2 DEF Closing
<1>4. DataItems(Item(i).run)' = DataItems(d)'
  BY <1>1 DEF DataItems
<1> QED
  BY <1>1, <1>2, <1>3, <1>4

LEMMA FinalizeIsLastKept ==
  ASSUME TypeInv, ItemRuns, ClosedInv, Next, "resume" \notin Faults
  PROVE  FinalizeIsLast'
<1>0. /\ FinalizeIsLast /\ ActiveIsOpen /\ HandleTruth /\ PlaceTruth
      /\ QueueTypes /\ ItemRuns' /\ late \subseteq late'
  BY ItemRunsKept, LateKept DEF ClosedInv, TypeInv, TypeOK
<1>1. CASE Crash
  BY <1>1 DEF Crash, FinalizeIsLast
<1>2. ~Crash => \A d \in Runs : Closing(d) => Closing(d)'
  BY <1>0, ClosingKept
<1>3. \A d \in Runs : \A i \in DOMAIN data_write_queue :
        Item(i).keys = "finalize" /\ Item(i).run = d =>
          /\ Closing(d)
          /\ d \in late \/ \A j \in DataItems(d) : j < i
  BY <1>0 DEF FinalizeIsLast
<1>4. ASSUME ~Crash, UNCHANGED data_write_queue
      PROVE  FinalizeIsLast'
  <2>1. /\ \A d : DataItems(d)' = DataItems(d)
        /\ \A i : Item(i)' = Item(i)
    BY <1>4 DEF DataItems, Item
  <2> QED
    BY <1>0, <1>2, <1>3, <1>4, <2>1, FinalizeIsLastNext
<1>5. ASSUME ~Crash, NEW item \in Items, Put(item),
             item.keys = "data" =>
               /\ item.run \in Runs
               /\ ~Closing(item.run) \/ item.run \in late',
             item.keys = "finalize" =>
               \A d \in Runs : item.run = d => Closing(d)'
      PROVE  FinalizeIsLast'
  <2> DEFINE n == Len(data_write_queue)
  <2>1. /\ DOMAIN data_write_queue = 1..n
        /\ DOMAIN data_write_queue' = 1..(n + 1)
        /\ \A i \in 1..n : Item(i)' = Item(i)
        /\ data_write_queue'[n + 1] = item
        /\ n \in Nat
    BY <1>0, <1>5, QueuePut DEF Item, QueueTypes
  <2>2. \A d \in Runs : \A j \in DataItems(d)' :
          \/ j \in DataItems(d)
          \/ j = n + 1 /\ item.keys = "data" /\ item.run = d
    BY <2>1 DEF DataItems, Item
  <2>3. \A d \in Runs : \A j \in DataItems(d) : j \in 1..n
    BY <2>1 DEF DataItems
  <2> HIDE DEF n
  <2>4. ASSUME NEW d \in Runs, NEW i \in DOMAIN data_write_queue',
               Item(i)'.keys = "finalize", Item(i)'.run = d
        PROVE  /\ Closing(d)'
               /\ d \in late' \/ \A j \in DataItems(d)' : j < i
    <3>1. CASE i \in 1..n
      <4>1. Item(i).keys = "finalize" /\ Item(i).run = d
        BY <2>1, <2>4, <3>1
      <4>2. /\ Closing(d)
            /\ d \in late \/ \A j \in DataItems(d) : j < i
        BY <1>3, <2>1, <3>1, <4>1
      <4>3. item.keys = "data" /\ item.run = d => d \in late'
        BY <1>5, <4>2
      <4> QED
        BY <1>0, <1>2, <1>5, <2>2, <4>2, <4>3
    <3>2. CASE i = n + 1
      <4>1. item.keys = "finalize" /\ item.run = d
        BY <2>1, <2>4, <3>2 DEF Item
      <4>2. \A j \in DataItems(d)' : j \in 1..n
        BY <2>2, <2>3, <4>1
      <4>3. \A j \in 1..n : j < n + 1
        BY <2>1
      <4> QED
        BY <1>5, <3>2, <4>1, <4>2, <4>3
    <3> QED
      BY <2>1, <3>1, <3>2
  <2> QED
    BY <1>0, <2>4, FinalizeIsLastNext
<1>6. CASE UserOperation
  <2>0. ~Crash \/ data_write_queue' = <<>>
    BY DEF Crash
  <2>1. pc = Idle
    BY <1>6, UserOperationHandles
  <2>2. ASSUME NEW d \in Runs, NEW rows \in Seq(Nat), Put(DataItem(d, rows)),
               Writable(d),
               handle[d] \in {"runner", "dataset"} \/ d \in late'
        PROVE  FinalizeIsLast'
    <3>1. ~Closing(d) \/ d \in late'
      BY <2>1, <2>2 DEF Closing, Writable, Idle, At
    <3>2. /\ DataItem(d, rows) \in Items /\ DataItem(d, rows).run = d
          /\ DataItem(d, rows).keys = "data"
      BY ItemTypes DEF DataItem
    <3> QED
      BY <1>1, <1>5, <2>2, <3>1, <3>2
  <2> QED
    BY <1>1, <1>4, <1>6, <2>2, BatchQueued DEF queue
<1>7. CASE Prepare \/ AwaitQueue \/ ExitRaises \/ Seal \/ SealFails
           \/ KeyboardInterrupt \/ AwaitStop \/ PerformStartActions
           \/ WriterExit
  <2>1. UNCHANGED data_write_queue
    BY <1>7 DEF Prepare, WriteParameters, AwaitQueue, ExitRaises, Seal,
       SealFails, KeyboardInterrupt, AwaitStop, PerformStartActions,
       StartRaises, WriterExit, queue
  <2> QED
    BY <1>1, <1>4, <2>1
<1>8. CASE EnsureDatasetWritten
  <2>1. /\ pc.run \in Runs
        /\ UNCHANGED queue \/ Put(FinalizeItem(pc.run))
        /\ pc'.at = "await_finalize" /\ pc'.run = pc.run
    BY <1>8 DEF EnsureDatasetWritten, TypeInv, TypeOK, MainTypes, At
  <2>2. /\ FinalizeItem(pc.run) \in Items
        /\ FinalizeItem(pc.run).run = pc.run
        /\ FinalizeItem(pc.run).keys = "finalize"
    BY <2>1, ItemTypes DEF FinalizeItem
  <2>3. \A d \in Runs : pc.run = d => Closing(d)'
    BY <2>1 DEF Closing
  <2> QED
    BY <1>1, <1>4, <1>5, <2>1, <2>2, <2>3 DEF queue
<1>9. CASE ReleaseWriter
  <2>1. UNCHANGED queue \/ Put(StopItem)
    BY <1>9 DEF ReleaseWriter
  <2>2. StopItem \in Items /\ StopItem.keys = "stop"
    BY ItemTypes DEF StopItem
  <2> QED
    BY <1>1, <1>4, <1>5, <2>1, <2>2 DEF queue
<1>10. CASE WriterStep /\ ~WriterExit
  <2>1. /\ data_write_queue # <<>>
        /\ data_write_queue' = Tail(data_write_queue)
    BY <1>10 DEF WriterStep, WriteItem, WriteFails, FinalizeRun,
                 FinalizeUnknown, StopWriting, GetItem
  <2>2. \A i \in DOMAIN data_write_queue' :
          /\ i \in Nat \ {0} /\ i + 1 \in DOMAIN data_write_queue
          /\ Item(i)' = Item(i + 1)
    BY <1>0, <2>1, QueueTail
  <2>3. \A d \in Runs : \A j \in DataItems(d)' :
          j \in Nat /\ j + 1 \in DataItems(d)
    BY <1>0, <2>1, TailItems
  <2>4. ASSUME NEW d \in Runs, NEW i \in DOMAIN data_write_queue',
               Item(i)'.keys = "finalize", Item(i)'.run = d, ~Crash
        PROVE  /\ Closing(d)'
               /\ d \in late' \/ \A j \in DataItems(d)' : j < i
    <3>1. /\ Closing(d)
          /\ d \in late \/ \A j \in DataItems(d) : j < i + 1
      BY <1>3, <2>2, <2>4
    <3>2. i \in Nat
      BY <2>2
    <3> QED
      BY <1>0, <1>2, <2>3, <2>4, <3>1, <3>2
  <2> QED
    BY <1>0, <1>1, <2>4, FinalizeIsLastNext
<1> QED
  BY <1>1, <1>6, <1>7, <1>8, <1>9, <1>10 DEF Next, Continue, WriterStep

LEMMA ActiveIsOpenKept ==
  ASSUME TypeInv, ItemRuns, ClosedInv, Next, "resume" \notin Faults
  PROVE  ActiveIsOpen'
<1>0. /\ FinalizeIsLast /\ ActiveIsOpen /\ HandleTruth /\ PlaceTruth
      /\ QueueTypes
      /\ started \in [Runs -> BOOLEAN] /\ is_completed \in [Runs -> BOOLEAN]
      /\ run_timestamp \in [Runs -> BOOLEAN] /\ active_datasets \subseteq Runs
      /\ pc.at # "idle" => pc.run \in Runs
  BY DEF ClosedInv, TypeInv, TypeOK, HandleTypes, DbTypes, WriterTypes,
         MainTypes
<1>1. CASE Crash
  BY <1>1 DEF Crash, ActiveIsOpen
<1>2. ~Crash => \A d \in Runs : Closing(d) => Closing(d)'
  BY <1>0, ClosingKept
<1>3. ASSUME ~Crash, UNCHANGED <<run_timestamp, is_completed, started>>,
             active_datasets' \subseteq active_datasets,
             \A d \in active_datasets : d \in active_datasets' \/ Closing(d)'
      PROVE  ActiveIsOpen'
  BY <1>0, <1>2, <1>3 DEF ActiveIsOpen
<1>4. CASE UserOperation
  BY <1>1, <1>3, <1>4, UserOperationHandles DEF writer
<1>5. CASE Prepare \/ AwaitQueue \/ ExitRaises \/ ReleaseWriter \/ AwaitStop
           \/ KeyboardInterrupt
  <2>1. UNCHANGED <<run_timestamp, is_completed, started, active_datasets>>
    BY <1>5 DEF Prepare, WriteParameters, AwaitQueue, ExitRaises,
       ReleaseWriter, AwaitStop, KeyboardInterrupt, db, handles, writer
  <2> QED
    BY <1>1, <1>3, <2>1
<1>6. CASE PerformStartActions
  <2>1. pc.at = "starting" /\ pc.run \in Runs
    BY <1>0, <1>6 DEF PerformStartActions
  <2>2. /\ UNCHANGED is_completed
        /\ \/ /\ UNCHANGED <<active_datasets, started>>
              /\ \/ UNCHANGED run_timestamp
                 \/ run_timestamp' = [run_timestamp EXCEPT ![pc.run] = TRUE]
           \/ /\ active_datasets' = active_datasets \cup {pc.run}
              /\ ~run_timestamp[pc.run]
              /\ run_timestamp' = [run_timestamp EXCEPT ![pc.run] = TRUE]
              /\ \/ UNCHANGED started
                 \/ started' = [started EXCEPT ![pc.run] = TRUE]
    BY <1>6 DEF PerformStartActions, StartRaises, Register, writer
  <2>3. \A d \in Runs : run_timestamp[d] => run_timestamp'[d]
    BY <1>0, <2>1, <2>2
  <2>4. CASE UNCHANGED <<active_datasets, started>>
    BY <1>0, <1>1, <1>2, <2>2, <2>3, <2>4 DEF ActiveIsOpen
  <2>5. CASE /\ active_datasets' = active_datasets \cup {pc.run}
             /\ ~run_timestamp[pc.run]
             /\ run_timestamp' = [run_timestamp EXCEPT ![pc.run] = TRUE]
             /\ \/ UNCHANGED started
                \/ started' = [started EXCEPT ![pc.run] = TRUE]
    <3>1. ~is_completed[pc.run] /\ run_timestamp'[pc.run]
      BY <1>0, <2>1, <2>5 DEF HandleTruth
    <3>2. \A d \in Runs : d # pc.run => started'[d] = started[d]
      BY <1>0, <2>5
    <3> QED
      BY <1>0, <1>1, <1>2, <2>1, <2>2, <2>3, <2>5, <3>1, <3>2 DEF ActiveIsOpen
  <2> QED
    BY <2>2, <2>4, <2>5
<1>7. CASE EnsureDatasetWritten
  <2>1. /\ UNCHANGED <<run_timestamp, is_completed, started>>
        /\ \/ UNCHANGED active_datasets
           \/ active_datasets' = active_datasets \ {pc.run}
        /\ pc'.at = "await_finalize" /\ pc'.run = pc.run
    BY <1>7 DEF EnsureDatasetWritten, db, handles, At
  <2>2. \A d \in Runs : d = pc.run => Closing(d)'
    BY <2>1 DEF Closing
  <2> QED
    BY <1>0, <1>1, <1>3, <2>1, <2>2
<1>8. CASE Seal \/ SealFails
  <2>1. /\ pc.at = "sealing" /\ UNCHANGED <<run_timestamp, started,
                                            active_datasets>>
        /\ \/ UNCHANGED is_completed
           \/ is_completed' = [is_completed EXCEPT ![pc.run] = TRUE]
    BY <1>8 DEF Seal, SealFails, db, writer
  <2>2. pc.run \notin active_datasets
    BY <1>0, <2>1 DEF PlaceTruth
  <2>3. \A d \in active_datasets : is_completed'[d] = is_completed[d]
    BY <1>0, <2>1, <2>2
  <2> QED
    BY <1>0, <1>1, <1>2, <2>1, <2>3 DEF ActiveIsOpen
<1>9. CASE WriterStep
  <2>1. /\ UNCHANGED <<run_timestamp, is_completed, started>>
        /\ \/ UNCHANGED active_datasets
           \/ /\ data_write_queue # <<>>
              /\ Head(data_write_queue).keys = "finalize"
              /\ active_datasets'
                   = active_datasets \ {Head(data_write_queue).run}
    BY <1>9 DEF WriterStep, WriteItem, WriteFails, FinalizeRun,
       FinalizeUnknown, StopWriting, WriterExit, GetItem, WriterDies, db,
       handles, writer
  <2>2. CASE UNCHANGED active_datasets
    BY <1>1, <1>3, <2>1, <2>2
  <2>3. CASE /\ data_write_queue # <<>>
             /\ Head(data_write_queue).keys = "finalize"
             /\ active_datasets'
                  = active_datasets \ {Head(data_write_queue).run}
    <3>1. Item(1) = Head(data_write_queue) /\ 1 \in DOMAIN data_write_queue
      BY <1>0, <2>3, QueueHead
    <3>2. Closing(Head(data_write_queue).run)
      BY <1>0, <2>3, <3>1 DEF FinalizeIsLast
    <3> QED
      BY <1>0, <1>1, <1>2, <1>3, <2>1, <2>3, <3>2
  <2> QED
    BY <2>1, <2>2, <2>3
<1> QED
  BY <1>1, <1>4, <1>5, <1>6, <1>7, <1>8, <1>9 DEF Next, Continue

ShutInv == TypeInv /\ ItemRuns /\ ClosedInv

LEMMA ShutInvStep ==
  ASSUME ShutInv, [Next]_vars, "resume" \notin Faults
  PROVE  ShutInv'
<1>1. TypeInv'
  BY TypeInvStep DEF ShutInv
<1>2. CASE Next
  BY <1>1, <1>2, ItemRunsKept, QueuedIsActiveKept, FinalizeIsLastKept,
     ActiveIsOpenKept, HandleTruthKept, PlaceTruthKept DEF ShutInv, ClosedInv
<1>3. CASE UNCHANGED vars
  BY <1>1, <1>3
  DEF ShutInv, ClosedInv, ItemRuns, QueuedIsActive, FinalizeIsLast,
      ActiveIsOpen, HandleTruth, PlaceTruth, Closing, DataItems, Item, vars,
      db, handles, queue, writer, main
<1> QED
  BY <1>2, <1>3

LEMMA ShutInvariance ==
  ASSUME "resume" \notin Faults
  PROVE  Spec => []ShutInv
<1>1. Init => ShutInv
  <2>1. Init => ClosedInv /\ ItemRuns
    BY DEF Init, ClosedInv, ItemRuns, QueuedIsActive, FinalizeIsLast,
       ActiveIsOpen, HandleTruth, PlaceTruth, Closing, Idle, At
  <2> QED
    BY <2>1, TypeInvInit DEF ShutInv
<1> QED
  BY <1>1, ShutInvStep, PTL DEF Spec

(* Unless a run is taken up by a second handle, or was given results after *)
(* a Ctrl-C had broken off its completion, a run that is marked completed  *)
(* is not modified any more: not by batches still in the queue, also not   *)
(* those of late runs, nor after a completion that was broken off and made *)
(* again, nor by a failing transaction, a dying thread or a crash.         *)
THEOREM SealedRunsAreFinal ==
  ASSUME "resume" \notin Faults
  PROVE  Spec => SealedIsFinal
<1>1. ShutInv /\ [Next]_vars =>
        \A d \in Runs \ late : is_completed[d] => table'[d] = table[d]
  <2> SUFFICES ASSUME ShutInv, Next, NEW d \in Runs \ late, is_completed[d],
                      table'[d] # table[d]
               PROVE  FALSE
    BY DEF vars, db
  <2>1. /\ TypeInv /\ QueuedIsActive /\ ActiveIsOpen /\ HandleTruth
        /\ QueueTypes /\ table \in [Runs -> Seq(Nat)]
    BY DEF ShutInv, ClosedInv, TypeInv, TypeOK, DbTypes
  <2>2. CASE UserOperation
    <3>1. PICK e \in Runs :
            \/ NewDataSet(e) \/ \E bg \in BOOLEAN : RunnerEnter(e, bg)
            \/ Load(e) \/ \E bg \in BOOLEAN : MarkStarted(e, bg)
            \/ AddResult(e)
            \/ \E block \in BOOLEAN : FlushData(e, block)
            \/ FlushInterrupted(e)
            \/ AddResults(e)
            \/ Subscribe(e) \/ Unsubscribe(e)
            \/ RunnerExit(e)
            \/ MarkCompleted(e)
      BY <2>2 DEF UserOperation
    <3>2. /\ \E rows : Flush(e, rows) \/ AddResultsTo(e, rows)
          /\ Writable(e) /\ handle[e] # "none"
      BY <3>1 DEF NewDataSet, RunnerEnter, Create, Load, MarkStarted,
         WriteParameters, AddResult, FlushData, FlushInterrupted, AddResults,
         UserHandles, Subscribe, Unsubscribe, RunnerExit, MarkCompleted, db
    <3>3. UNCHANGED table \/ \E rows : table' = [table EXCEPT ![e] = @ \o rows]
      BY <3>2 DEF Flush, AddResultsTo, db
    <3>4. e = d
      BY <2>1, <3>3
    <3> QED
      BY <2>1, <3>2, <3>4 DEF HandleTruth, Writable
  <2>3. CASE WriteItem
    <3>1. /\ data_write_queue # <<>> /\ Head(data_write_queue).keys = "data"
          /\ \E rows : table' = [table EXCEPT ![Head(data_write_queue).run]
                                   = @ \o rows]
      BY <2>3 DEF WriteItem, GetItem
    <3>2. Head(data_write_queue).run = d
      BY <2>1, <3>1
    <3>3. d \in active_datasets
      BY <2>1, <3>1, <3>2, QueueHead DEF QueuedIsActive
    <3> QED
      BY <2>1, <3>3 DEF ActiveIsOpen
  <2> QED
    BY <2>2, <2>3
    DEF Next, Continue, WriterStep, Prepare, WriteParameters,
        PerformStartActions, StartRaises, AwaitQueue, EnsureDatasetWritten,
        ReleaseWriter, AwaitStop, Seal, SealFails, ExitRaises, WriteFails,
        FinalizeRun, FinalizeUnknown, StopWriting, WriterExit, WriterDies,
        KeyboardInterrupt, Crash, db
<1> QED
  BY <1>1, ShutInvariance, PTL DEF Spec, SealedIsFinal

-----------------------------------------------------------------------------
(* What was measured is in the file when the run is completed.             *)

LEMMA InRowsOfConcat ==
  ASSUME NEW s \in Seq(Nat), NEW t \in Seq(Nat), NEW n
  PROVE  InRows(s \o t, n) <=> InRows(s, n) \/ InRows(t, n)
<1>1. /\ Len(s) \in Nat /\ Len(t) \in Nat
      /\ DOMAIN s = 1..Len(s) /\ DOMAIN t = 1..Len(t)
      /\ DOMAIN (s \o t) = 1..(Len(s) + Len(t))
      /\ \A i \in 1..Len(s) : (s \o t)[i] = s[i]
      /\ \A i \in 1..Len(t) : (s \o t)[Len(s) + i] = t[i]
  OBVIOUS
<1>2. ASSUME InRows(s \o t, n) PROVE InRows(s, n) \/ InRows(t, n)
  <2>1. PICK i \in 1..(Len(s) + Len(t)) : (s \o t)[i] = n
    BY <1>1, <1>2 DEF InRows
  <2>2. CASE i \in 1..Len(s)
    BY <1>1, <2>1, <2>2 DEF InRows
  <2>3. CASE i \notin 1..Len(s)
    <3>1. i - Len(s) \in 1..Len(t) /\ Len(s) + (i - Len(s)) = i
      BY <1>1, <2>3
    <3> QED
      BY <1>1, <2>1, <3>1 DEF InRows
  <2> QED
    BY <2>2, <2>3
<1>3. ASSUME InRows(s, n) PROVE InRows(s \o t, n)
  <2>1. PICK i \in 1..Len(s) : s[i] = n
    BY <1>1, <1>3 DEF InRows
  <2>2. i \in 1..(Len(s) + Len(t))
    BY <1>1
  <2> QED
    BY <1>1, <2>1, <2>2 DEF InRows
<1>4. ASSUME InRows(t, n) PROVE InRows(s \o t, n)
  <2>1. PICK i \in 1..Len(t) : t[i] = n
    BY <1>1, <1>4 DEF InRows
  <2>2. Len(s) + i \in 1..(Len(s) + Len(t))
    BY <1>1
  <2> QED
    BY <1>1, <2>1, <2>2 DEF InRows
<1> QED
  BY <1>2, <1>3, <1>4

LEMMA InRowsOfAppend ==
  ASSUME NEW s \in Seq(Nat), NEW m \in Nat, NEW n
  PROVE  /\ Append(s, m) \in Seq(Nat)
         /\ InRows(Append(s, m), n) <=> InRows(s, n) \/ n = m
<1>1. /\ Len(s) \in Nat /\ DOMAIN s = 1..Len(s)
      /\ Append(s, m) \in Seq(Nat)
      /\ DOMAIN Append(s, m) = 1..(Len(s) + 1)
      /\ \A i \in 1..Len(s) : Append(s, m)[i] = s[i]
      /\ Append(s, m)[Len(s) + 1] = m
  OBVIOUS
<1>2. 1..(Len(s) + 1) = 1..Len(s) \cup {Len(s) + 1}
  BY <1>1
<1> QED
  BY <1>1, <1>2 DEF InRows

LEMMA InItem ==
  ASSUME NEW d, NEW n
  PROVE  Queued(d, n) <=> \E i \in DataItems(d) : InRows(Item(i).rows, n)
BY DEF Queued, DataItems, InRows, Item

LEMMA PutQueued ==
  ASSUME QueueTypes, NEW item \in Items, Put(item), NEW d, NEW n
  PROVE  /\ Queued(d, n) => Queued(d, n)'
         /\ item.keys = "data" /\ item.run = d /\ InRows(item.rows, n)
              => Queued(d, n)'
<1> DEFINE m == Len(data_write_queue)
<1>1. /\ DOMAIN data_write_queue = 1..m
      /\ DOMAIN data_write_queue' = 1..(m + 1)
      /\ m + 1 \in DOMAIN data_write_queue'
      /\ \A i \in DOMAIN data_write_queue :
           i \in DOMAIN data_write_queue'
           /\ data_write_queue'[i] = data_write_queue[i]
      /\ data_write_queue'[m + 1] = item
  BY QueuePut DEF Item, QueueTypes
<1> HIDE DEF m
<1>2. Queued(d, n) => Queued(d, n)'
  BY <1>1 DEF Queued
<1>3. item.keys = "data" /\ item.run = d /\ InRows(item.rows, n)
        => Queued(d, n)'
  BY <1>1 DEF Queued, InRows
<1> QED
  BY <1>2, <1>3

LEMMA TailQueued ==
  ASSUME QueueTypes, data_write_queue # <<>>,
         data_write_queue' = Tail(data_write_queue), NEW d, NEW n,
         Queued(d, n)
  PROVE  \/ Queued(d, n)'
         \/ /\ Head(data_write_queue).keys = "data"
            /\ Head(data_write_queue).run = d
            /\ InRows(Head(data_write_queue).rows, n)
<1>1. PICK i \in DOMAIN data_write_queue :
        /\ Item(i).keys = "data" /\ Item(i).run = d
        /\ InRows(Item(i).rows, n)
  BY DEF Queued, InRows, Item
<1>2. CASE i = 1
  BY <1>1, <1>2, QueueHead
<1>3. CASE i # 1
  <2>1. /\ i - 1 \in DOMAIN data_write_queue'
        /\ Item(i - 1)' = Item((i - 1) + 1)
    BY <1>3, QueueTail
  <2>2. (i - 1) + 1 = i
    BY DEF QueueTypes
  <2>3. data_write_queue'[i - 1] = Item(i)
    BY <2>1, <2>2 DEF Item
  <2> QED
    BY <1>1, <2>1, <2>3 DEF Queued, InRows
<1> QED
  BY <1>2, <1>3

(* A batch lands in the table or in the queue.                             *)
LEMMA AddResultsToLands ==
  ASSUME TypeInv, UNCHANGED writer, NEW d \in Runs, NEW rows \in Seq(Nat),
         AddResultsTo(d, rows), NEW n
  PROVE  /\ \A e \in Runs : Landed(e, n) => Landed(e, n)'
         /\ InRows(rows, n) => Landed(d, n)'
<1>0. QueueTypes /\ table \in [Runs -> Seq(Nat)]
  BY DEF TypeInv, TypeOK, DbTypes
<1>1. \A e : Dropped(e)' = Dropped(e)
  BY DEF Dropped, writer
<1>2. CASE write_in_background = "bg"
  <2>1. Put(DataItem(d, rows)) /\ UNCHANGED table
    BY <1>2 DEF AddResultsTo, db
  <2>2. /\ DataItem(d, rows) \in Items
        /\ DataItem(d, rows).keys = "data" /\ DataItem(d, rows).run = d
        /\ DataItem(d, rows).rows = rows
    BY ItemTypes DEF DataItem
  <2>3. /\ \A e : Queued(e, n) => Queued(e, n)'
        /\ InRows(rows, n) => Queued(d, n)'
    BY <1>0, <2>1, <2>2, PutQueued
  <2>4. \A e : InRows(table[e], n)' = InRows(table[e], n)
    BY <2>1 DEF InRows
  <2> QED
    BY <1>1, <2>3, <2>4 DEF Landed
<1>3. CASE write_in_background # "bg"
  <2>1. /\ table' = [table EXCEPT ![d] = @ \o rows]
        /\ UNCHANGED data_write_queue
    BY <1>3 DEF AddResultsTo, queue
  <2>2. \A e : Queued(e, n)' = Queued(e, n)
    BY <2>1 DEF Queued
  <2>3. /\ table'[d] = table[d] \o rows /\ table[d] \in Seq(Nat)
        /\ \A e \in Runs : e # d => table'[e] = table[e]
    BY <1>0, <2>1
  <2>4. InRows(table'[d], n) <=> InRows(table[d], n) \/ InRows(rows, n)
    BY <2>3, InRowsOfConcat
  <2>5. \A e \in Runs : InRows(table[e], n) => InRows(table'[e], n)
    BY <2>3, <2>4
  <2>6. \A e : InRows(table[e], n)' = InRows(table'[e], n)
    BY DEF InRows
  <2> QED
    BY <1>1, <2>2, <2>4, <2>5, <2>6 DEF Landed
<1> QED
  BY <1>2, <1>3

(* The table of a run changes only if it has a handle or is active.        *)
LEMMA UntouchedKept ==
  ASSUME TypeInv, ClosedInv, Untouched, Next, "resume" \notin Faults
  PROVE  Untouched'
<1>0. /\ HandleTruth /\ PlaceTruth /\ QueuedIsActive /\ QueueTypes
      /\ handle \in [Runs -> HandleKinds]
      /\ measured \in [Runs -> Nat] /\ table \in [Runs -> Seq(Nat)]
      /\ pc.at # "idle" => pc.run \in Runs
  BY DEF ClosedInv, TypeInv, TypeOK, HandleTypes, DbTypes, MainTypes
<1>1. ASSUME created \subseteq created',
             live_triggers' \subseteq live_triggers,
             dead_triggers' \subseteq dead_triggers,
             \A d \in Runs : handle[d] = "none" =>
               /\ d \notin created' => measured'[d] = measured[d]
               /\ d \notin created' => table'[d] = table[d]
               /\ d \notin created' \/ d \in dead_triggers'
                    => handle'[d] = "none"
      PROVE  Untouched'
  BY <1>0, <1>1 DEF Untouched
<1>2. CASE UserOperation
  <2> PICK d \in Runs :
        \/ NewDataSet(d) \/ \E bg \in BOOLEAN : RunnerEnter(d, bg)
        \/ Load(d) \/ \E bg \in BOOLEAN : MarkStarted(d, bg)
        \/ AddResult(d)
        \/ \E block \in BOOLEAN : FlushData(d, block)
        \/ FlushInterrupted(d)
        \/ AddResults(d)
        \/ Subscribe(d) \/ Unsubscribe(d)
        \/ RunnerExit(d)
        \/ MarkCompleted(d)
    BY <1>2 DEF UserOperation
  <2>1. CASE NewDataSet(d) \/ \E bg \in BOOLEAN : RunnerEnter(d, bg)
    <3>1. /\ d \notin created /\ created' = created \cup {d}
          /\ UNCHANGED <<measured, table, live_triggers, dead_triggers>>
          /\ \E how \in {"dataset", "runner"} :
                handle' = [handle EXCEPT ![d] = how]
      BY <2>1 DEF NewDataSet, RunnerEnter, Create
    <3>2. d \notin dead_triggers
      BY <3>1 DEF Untouched
    <3>3. \A e \in Runs : e # d => handle'[e] = handle[e]
      BY <1>0, <3>1
    <3> QED
      BY <1>1, <3>1, <3>2, <3>3
  <2>2. CASE (\E bg \in BOOLEAN : MarkStarted(d, bg)) \/ MarkCompleted(d)
             \/ Unsubscribe(d)
    <3>1. /\ UNCHANGED <<created, measured, table, dead_triggers, handle>>
          /\ live_triggers' \subseteq live_triggers
      BY <2>2 DEF MarkStarted, WriteParameters, MarkCompleted, Unsubscribe, db,
                  handles
    <3> QED
      BY <1>1, <3>1
  <2>3. CASE Subscribe(d)
    <3>1. /\ UNCHANGED <<created, measured, table, dead_triggers, handle>>
          /\ live_triggers' = live_triggers \cup {d} /\ handle[d] # "none"
      BY <2>3 DEF Subscribe, handles
    <3> QED
      BY <1>0, <3>1 DEF Untouched, HandleTruth
  <2>4. CASE \/ AddResult(d) \/ RunnerExit(d) \/ FlushInterrupted(d)
             \/ AddResults(d) \/ \E block \in BOOLEAN : FlushData(d, block)
    <3>1. /\ handle[d] # "none" /\ UNCHANGED handle
          /\ UNCHANGED measured \/ measured' = [measured EXCEPT ![d] = @ + 1]
      BY <2>4 DEF AddResult, RunnerExit, FlushInterrupted, AddResults,
                  UserHandles, FlushData, handles
    <3>2. UNCHANGED db \/ \E rows : Flush(d, rows) \/ AddResultsTo(d, rows)
      BY <2>4 DEF AddResult, RunnerExit, FlushInterrupted, AddResults,
                  FlushData
    <3>3. /\ UNCHANGED <<created, live_triggers, dead_triggers>>
          /\ UNCHANGED table
               \/ \E rows : table' = [table EXCEPT ![d] = @ \o rows]
      BY <3>2 DEF Flush, AddResultsTo, db
    <3>4. \A e \in Runs : e # d => /\ table'[e] = table[e]
                                   /\ measured'[e] = measured[e]
      BY <1>0, <3>1, <3>3
    <3> QED
      BY <1>1, <3>1, <3>3, <3>4
  <2>5. ~Load(d)
    BY DEF Load
  <2> QED
    BY <2>1, <2>2, <2>3, <2>4, <2>5
<1>3. CASE Continue \/ KeyboardInterrupt
  <2>1. /\ pc.at # "idle"
        /\ UNCHANGED <<created, measured, table>>
        /\ live_triggers' \subseteq live_triggers
        /\ dead_triggers' \subseteq dead_triggers
        /\ \/ UNCHANGED handle
           \/ \E how : handle' = [handle EXCEPT ![pc.run] = how]
    BY <1>3 DEF Continue, Prepare, WriteParameters, PerformStartActions,
       StartRaises, AwaitQueue, ExitRaises, EnsureDatasetWritten,
       ReleaseWriter, AwaitStop, Seal, SealFails, KeyboardInterrupt, db,
       handles
  <2>2. pc.run \in Runs /\ handle[pc.run] # "none"
    BY <1>0, <2>1 DEF PlaceTruth
  <2>3. \A e \in Runs : handle[e] = "none" => handle'[e] = "none"
    BY <1>0, <2>1, <2>2
  <2> QED
    BY <1>1, <2>1, <2>3
<1>4. CASE WriterStep
  <2>1. /\ UNCHANGED <<created, live_triggers, dead_triggers, measured, handle>>
        /\ \/ UNCHANGED table
           \/ /\ data_write_queue # <<>> /\ Head(data_write_queue).keys = "data"
              /\ \E rows : table' = [table EXCEPT ![Head(data_write_queue).run]
                                       = @ \o rows]
    BY <1>4 DEF WriterStep, WriteItem, WriteFails, FinalizeRun,
                FinalizeUnknown, StopWriting, WriterExit, WriterDies, GetItem,
                db, handles
  <2>2. data_write_queue # <<>> /\ Head(data_write_queue).keys = "data"
          => Head(data_write_queue).run \in active_datasets \cup late
    BY <1>0, QueueHead DEF QueuedIsActive
  <2>3. \A e \in Runs :
          handle[e] = "none" /\ e \notin created => table'[e] = table[e]
    BY <1>0, <2>1, <2>2 DEF HandleTruth
  <2> QED
    BY <1>1, <2>1, <2>3
<1>5. CASE Crash
  <2>1. /\ UNCHANGED <<created, table>>
        /\ live_triggers' = {}
        /\ dead_triggers' = dead_triggers \cup live_triggers
        /\ \A d \in Runs : handle'[d] = "none"
        /\ \A d \in Runs : ~is_completed[d] => measured'[d] = Len(table[d])
    BY <1>5 DEF Crash
  <2> QED
    BY <1>0, <2>1 DEF Untouched, HandleTruth
<1> QED
  BY <1>2, <1>3, <1>4, <1>5 DEF Next

(* Without failing transactions the main thread's flush empties _results:  *)
(* a trigger of a dead process is on no run that has a handle.             *)
LEMMA FlushEmpties ==
  ASSUME TypeInv, Untouched, "write" \notin Faults, NEW d \in Runs,
         handle[d] # "none", NEW rows \in Seq(Nat), Flush(d, rows)
  PROVE  /\ results' = [results EXCEPT ![d] = <<>>]
         /\ \/ rows = <<>> /\ UNCHANGED <<db, queue>>
            \/ AddResultsTo(d, rows)
BY DEF Flush, ClearResults, InsertFails, Untouched

LEMMA BufferedIsOpenKept ==
  ASSUME TypeInv, ClosedInv, KeptInv, Next,
         "resume" \notin Faults, "write" \notin Faults
  PROVE  BufferedIsOpen'
<1>0. /\ HandleTruth /\ PlaceTruth /\ Untouched /\ BufferedIsOpen
      /\ handle \in [Runs -> HandleKinds]
      /\ results \in [Runs -> Seq(Nat)] /\ measured \in [Runs -> Nat]
      /\ pc.at # "idle" => pc.run \in Runs
      /\ NoRun \notin Runs
  BY RunsAssumption DEF ClosedInv, KeptInv, TypeInv, TypeOK, HandleTypes,
                        MainTypes
<1>1. CASE UserOperation
  <2> PICK d \in Runs :
        \/ NewDataSet(d) \/ \E bg \in BOOLEAN : RunnerEnter(d, bg)
        \/ Load(d) \/ \E bg \in BOOLEAN : MarkStarted(d, bg)
        \/ AddResult(d)
        \/ \E block \in BOOLEAN : FlushData(d, block)
        \/ FlushInterrupted(d)
        \/ AddResults(d)
        \/ Subscribe(d) \/ Unsubscribe(d)
        \/ RunnerExit(d)
        \/ MarkCompleted(d)
    BY <1>1 DEF UserOperation
  <2>1. CASE NewDataSet(d) \/ \E bg \in BOOLEAN : RunnerEnter(d, bg)
    <3>1. /\ d \notin created /\ UNCHANGED results /\ pc = Idle
          /\ UNCHANGED pc \/ pc'.run = d
          /\ \E how : handle' = [handle EXCEPT ![d] = how]
      BY <2>1 DEF NewDataSet, RunnerEnter, Create, At
    <3>2. results[d] = <<>>
      BY <1>0, <3>1 DEF Untouched, BufferedIsOpen
    <3>3. \A e \in Runs : e # d => handle'[e] = handle[e]
      BY <1>0, <3>1
    <3> QED
      BY <1>0, <3>1, <3>2, <3>3 DEF BufferedIsOpen
  <2>2. CASE (\E bg \in BOOLEAN : MarkStarted(d, bg)) \/ MarkCompleted(d)
    <3>1. /\ UNCHANGED <<results, handle>> /\ handle[d] # "runner"
          /\ pc'.run = d
      BY <2>2 DEF MarkStarted, WriteParameters, MarkCompleted, UserHandles,
                  handles, At
    <3> QED
      BY <1>0, <3>1 DEF BufferedIsOpen
  <2>3. CASE Subscribe(d) \/ Unsubscribe(d) \/ AddResults(d)
             \/ FlushInterrupted(d)
    <3>1. UNCHANGED <<results, handle, pc>>
      BY <2>3 DEF Subscribe, Unsubscribe, AddResults, FlushInterrupted,
                  handles, main
    <3> QED
      BY <1>0, <3>1 DEF BufferedIsOpen
  <2>4. CASE AddResult(d)
    <3>1. /\ handle[d] = "runner" /\ pc = Idle /\ UNCHANGED <<handle, pc>>
          /\ \E rows : results' = [results EXCEPT ![d] = rows]
      BY <2>4 DEF AddResult, Flush, ClearResults, main
    <3>2. \A e \in Runs : e # d => results'[e] = results[e]
      BY <1>0, <3>1
    <3>3. pc.run = NoRun
      BY <3>1 DEF Idle, At
    <3> QED
      BY <1>0, <3>1, <3>2, <3>3 DEF BufferedIsOpen
  <2>5. CASE (\E block \in BOOLEAN : FlushData(d, block)) \/ RunnerExit(d)
    <3>1. /\ handle[d] = "runner" /\ UNCHANGED handle
          /\ Flush(d, results[d]) /\ pc = Idle
          /\ pc'.run \in {d, NoRun}
      BY <2>5 DEF FlushData, RunnerExit, Idle, At
    <3>2. results' = [results EXCEPT ![d] = <<>>]
      BY <1>0, <3>1, FlushEmpties
    <3>3. /\ results'[d] = <<>>
          /\ \A e \in Runs : e # d => results'[e] = results[e]
      BY <1>0, <3>2
    <3> QED
      BY <1>0, <3>1, <3>3 DEF BufferedIsOpen
  <2>6. ~Load(d)
    BY DEF Load
  <2> QED
    BY <2>1, <2>2, <2>3, <2>4, <2>5, <2>6
<1>2. CASE Continue \/ KeyboardInterrupt
  <2>1. /\ pc.at # "idle" /\ UNCHANGED results
        /\ pc'.run \in {pc.run, NoRun}
        /\ \/ UNCHANGED handle
           \/ \E how : handle' = [handle EXCEPT ![pc.run] = how]
    BY <1>2 DEF Continue, Prepare, WriteParameters, PerformStartActions,
       StartRaises, AwaitQueue, ExitRaises, EnsureDatasetWritten,
       ReleaseWriter, AwaitStop, Seal, SealFails, KeyboardInterrupt,
       handles, Idle, At
  <2>2. \A e \in Runs : e # pc.run => handle'[e] = handle[e]
    BY <1>0, <2>1
  <2> QED
    BY <1>0, <2>1, <2>2 DEF BufferedIsOpen
<1>3. CASE WriterStep
  <2>1. UNCHANGED <<handles, pc>>
    BY <1>3 DEF WriterStep, WriteItem, WriteFails, FinalizeRun,
                FinalizeUnknown, StopWriting, WriterExit, WriterDies, main
  <2> QED
    BY <1>0, <2>1 DEF BufferedIsOpen, handles
<1>4. CASE Crash
  BY <1>4 DEF Crash, BufferedIsOpen
<1> QED
  BY <1>1, <1>2, <1>3, <1>4 DEF Next

(* The same results, buffers and queue, as far as run d is concerned.      *)
LEMMA LandedStill ==
  ASSUME NEW d, NEW n, UNCHANGED <<table, data_write_queue>>,
         Dropped(d) => Dropped(d)', Landed(d, n)
  PROVE  Landed(d, n)'
<1>1. Queued(d, n)' = Queued(d, n)
  BY DEF Queued
<1>2. InRows(table[d], n)' = InRows(table[d], n)
  BY DEF InRows
<1> QED
  BY <1>1, <1>2 DEF Landed

(* Everything measured for a run that has no handle any more and is        *)
(* completed is in its table.                                              *)
LEMMA CompletedIsInTable ==
  ASSUME ClosedInv, KeptInv, NEW d \in Runs \ late, is_completed[d],
         NEW n \in 1..measured[d]
  PROVE  InRows(table[d], n)
<1>0. /\ HandleTruth /\ QueuedIsActive /\ ActiveIsOpen
      /\ AllKept /\ BufferedIsOpen
  BY DEF ClosedInv, KeptInv
<1>1. InRows(results[d], n) \/ Landed(d, n)
  BY <1>0 DEF AllKept
<1>2. results[d] = <<>>
  BY <1>0 DEF BufferedIsOpen, HandleTruth
<1>3. d \notin active_datasets
  BY <1>0 DEF ActiveIsOpen
<1>4. ~Queued(d, n)
  BY <1>0, <1>3 DEF Queued, QueuedIsActive, Item
<1>5. ~InRows(results[d], n)
  BY <1>2 DEF InRows
<1> QED
  BY <1>1, <1>3, <1>4, <1>5 DEF Landed, Dropped

LEMMA UserOperationKeepsAll ==
  ASSUME TypeInv, ClosedInv, KeptInv, UserOperation,
         "resume" \notin Faults, "write" \notin Faults
  PROVE  AllKept'
<1>0. /\ HandleTruth /\ Untouched /\ AllKept
      /\ handle \in [Runs -> HandleKinds]
      /\ results \in [Runs -> Seq(Nat)] /\ measured \in [Runs -> Nat]
  BY DEF ClosedInv, KeptInv, TypeInv, TypeOK, HandleTypes
<1>1. UNCHANGED <<is_completed, writer>> /\ late \subseteq late'
  BY UserOperationHandles, LateKept DEF Next
<1>2. \A d : Dropped(d)' = Dropped(d)
  BY <1>1 DEF Dropped, writer
<1>3. ASSUME UNCHANGED <<table, data_write_queue, results>>,
             NEW d \in Runs \ late, measured'[d] = measured[d],
             handle'[d] # "none" => handle[d] # "none",
             handle'[d] # "none" \/ is_completed[d], NEW n \in 1..measured[d]
      PROVE  InRows(results'[d], n) \/ Landed(d, n)'
  BY <1>0, <1>2, <1>3, LandedStill DEF AllKept
<1>4. ASSUME UNCHANGED <<table, data_write_queue, results, measured, handle>>
      PROVE  AllKept'
  BY <1>1, <1>3, <1>4 DEF AllKept, InRows
<1> PICK d \in Runs :
      \/ NewDataSet(d) \/ \E bg \in BOOLEAN : RunnerEnter(d, bg)
      \/ Load(d) \/ \E bg \in BOOLEAN : MarkStarted(d, bg)
      \/ AddResult(d)
      \/ \E block \in BOOLEAN : FlushData(d, block)
      \/ FlushInterrupted(d)
      \/ AddResults(d)
      \/ Subscribe(d) \/ Unsubscribe(d)
      \/ RunnerExit(d)
      \/ MarkCompleted(d)
  BY DEF UserOperation
<1>5. /\ results[d] \in Seq(Nat) /\ measured[d] \in Nat
      /\ Append(results[d], measured[d] + 1) \in Seq(Nat)
      /\ \A n : InRows(Append(results[d], measured[d] + 1), n)
                  <=> InRows(results[d], n) \/ n = measured[d] + 1
  BY <1>0, InRowsOfAppend
<1>6. CASE NewDataSet(d) \/ \E bg \in BOOLEAN : RunnerEnter(d, bg)
  <2>1. /\ d \notin created
        /\ UNCHANGED <<table, data_write_queue, results, measured>>
        /\ \E how : handle' = [handle EXCEPT ![d] = how]
    BY <1>6 DEF NewDataSet, RunnerEnter, Create, queue
  <2>2. measured[d] = 0
    BY <1>0, <2>1 DEF Untouched
  <2>3. \A e \in Runs : e # d => handle'[e] = handle[e]
    BY <1>0, <2>1
  <2>4. 1..0 = {}
    OBVIOUS
  <2> QED
    BY <1>1, <1>3, <2>1, <2>2, <2>3, <2>4 DEF AllKept, InRows
<1>7. CASE (\E bg \in BOOLEAN : MarkStarted(d, bg)) \/ MarkCompleted(d)
           \/ Subscribe(d) \/ Unsubscribe(d)
  <2>1. UNCHANGED <<table, data_write_queue, results, measured, handle>>
    BY <1>7 DEF MarkStarted, WriteParameters, MarkCompleted, Subscribe,
                Unsubscribe, queue, handles, db
  <2> QED
    BY <1>4, <2>1
(* rows join _results or land, nothing else happens to the other runs.     *)
<1>8. ASSUME NEW rows \in Seq(Nat), UNCHANGED handle, handle[d] # "none",
             \/ /\ UNCHANGED <<table, data_write_queue>>
                /\ results' = [results EXCEPT ![d] = rows]
             \/ /\ AddResultsTo(d, rows)
                /\ results' \in {results, [results EXCEPT ![d] = <<>>]},
             \A e \in Runs : e # d => measured'[e] = measured[e],
             \A n \in 1..measured'[d] :
                \/ n \in 1..measured[d] \/ InRows(rows, n),
             \A n : InRows(results[d], n) => InRows(rows, n)
      PROVE  AllKept'
  <2>1. ASSUME NEW e \in Runs \ late, e # d,
               handle[e] # "none" \/ is_completed[e], NEW n \in 1..measured[e]
        PROVE  InRows(results'[e], n) \/ Landed(e, n)'
    <3>1. results'[e] = results[e]
      BY <1>0, <1>8, <2>1
    <3>2. InRows(results[e], n) \/ Landed(e, n)
      BY <1>0, <2>1 DEF AllKept
    <3>3. Landed(e, n) => Landed(e, n)'
      <4>1. CASE UNCHANGED <<table, data_write_queue>>
        BY <1>2, <4>1, LandedStill
      <4>2. CASE AddResultsTo(d, rows)
        BY <1>1, <1>8, <4>2, AddResultsToLands
      <4> QED
        BY <1>8, <4>1, <4>2
    <3> QED
      BY <3>1, <3>2, <3>3
  <2>2. ASSUME NEW n \in 1..measured'[d], d \notin late
        PROVE  InRows(results'[d], n) \/ Landed(d, n)'
    <3>1. InRows(rows, n) \/ Landed(d, n)
      BY <1>0, <1>8, <2>2 DEF AllKept
    <3>2. CASE /\ UNCHANGED <<table, data_write_queue>>
               /\ results' = [results EXCEPT ![d] = rows]
      <4>1. results'[d] = rows
        BY <1>0, <3>2
      <4> QED
        BY <1>2, <3>1, <3>2, <4>1, LandedStill
    <3>3. CASE AddResultsTo(d, rows)
      BY <1>1, <1>8, <3>1, <3>3, AddResultsToLands
    <3> QED
      BY <1>8, <3>2, <3>3
  <2>3. \A e, n : InRows(results[e], n)' <=> InRows(results'[e], n)
    BY DEF InRows
  <2> QED
    BY <1>1, <1>8, <2>1, <2>2, <2>3 DEF AllKept
<1>9. CASE AddResult(d)
  <2> DEFINE rows == Append(results[d], measured[d] + 1)
  <2>1. /\ handle[d] = "runner" /\ UNCHANGED handle
        /\ measured' = [measured EXCEPT ![d] = @ + 1]
        /\ \/ results' = [results EXCEPT ![d] = rows] /\ UNCHANGED <<db, queue>>
           \/ Flush(d, rows)
    BY <1>9 DEF AddResult
  <2>2. /\ measured'[d] = measured[d] + 1
        /\ \A e \in Runs : e # d => measured'[e] = measured[e]
    BY <1>0, <2>1
  <2>3. 1..measured'[d] = 1..measured[d] \cup {measured[d] + 1}
    BY <1>5, <2>2
  <2>4. rows \in Seq(Nat)
        /\ \A n : InRows(rows, n) <=> InRows(results[d], n)
                                      \/ n = measured[d] + 1
    BY <1>5
  <2> HIDE DEF rows
  <2>5. \/ /\ UNCHANGED <<table, data_write_queue>>
           /\ results' = [results EXCEPT ![d] = rows]
        \/ /\ AddResultsTo(d, rows)
           /\ results' \in {results, [results EXCEPT ![d] = <<>>]}
    <3>1. CASE Flush(d, rows)
      <4>1. /\ results' = [results EXCEPT ![d] = <<>>]
            /\ \/ rows = <<>> /\ UNCHANGED <<db, queue>>
               \/ AddResultsTo(d, rows)
        BY <1>0, <2>1, <2>4, <3>1, FlushEmpties
      <4> QED
        BY <4>1 DEF db, queue
    <3>2. CASE UNCHANGED <<db, queue>>
      BY <2>1, <3>1, <3>2 DEF db, queue
    <3> QED
      BY <2>1, <3>1, <3>2
  <2> QED
    BY <1>8, <2>1, <2>2, <2>3, <2>4, <2>5
<1>10. CASE (\E block \in BOOLEAN : FlushData(d, block)) \/ RunnerExit(d)
  <2>1. /\ handle[d] = "runner" /\ UNCHANGED <<handle, measured>>
        /\ Flush(d, results[d])
    BY <1>10 DEF FlushData, RunnerExit
  <2>2. /\ results' = [results EXCEPT ![d] = <<>>]
        /\ \/ results[d] = <<>> /\ UNCHANGED <<db, queue>>
           \/ AddResultsTo(d, results[d])
    BY <1>0, <1>5, <2>1, FlushEmpties
  <2>3. \/ /\ UNCHANGED <<table, data_write_queue>>
           /\ results' = [results EXCEPT ![d] = results[d]]
        \/ /\ AddResultsTo(d, results[d])
           /\ results' \in {results, [results EXCEPT ![d] = <<>>]}
    BY <2>2 DEF db, queue
  <2> QED
    BY <1>5, <1>8, <2>1, <2>3
<1>11. CASE FlushInterrupted(d)
  <2>1. /\ handle[d] = "runner" /\ UNCHANGED <<handle, measured, results>>
        /\ AddResultsTo(d, results[d])
    BY <1>11 DEF FlushInterrupted, handles
  <2> QED
    BY <1>5, <1>8, <2>1
<1>12. CASE AddResults(d)
  <2> DEFINE rows == <<measured[d] + 1>>
  <2>1. /\ handle[d] # "none" /\ UNCHANGED <<handle, results>>
        /\ measured' = [measured EXCEPT ![d] = @ + 1]
        /\ results[d] = <<>>
        /\ AddResultsTo(d, rows)
    BY <1>12 DEF AddResults, UserHandles
  <2>2. /\ measured'[d] = measured[d] + 1
        /\ \A e \in Runs : e # d => measured'[e] = measured[e]
    BY <1>0, <2>1
  <2>3. 1..measured'[d] = 1..measured[d] \cup {measured[d] + 1}
    BY <1>5, <2>2
  <2>4. rows \in Seq(Nat) /\ InRows(rows, measured[d] + 1)
    BY <1>5 DEF InRows
  <2>5. \A n : ~InRows(results[d], n)
    BY <2>1 DEF InRows
  <2> HIDE DEF rows
  <2> QED
    BY <1>8, <2>1, <2>2, <2>3, <2>4, <2>5
<1>13. ~Load(d)
  BY DEF Load
<1> QED
  BY <1>6, <1>7, <1>9, <1>10, <1>11, <1>12, <1>13

LEMMA AllKeptKept ==
  ASSUME TypeInv, ClosedInv, KeptInv, Next,
         "resume" \notin Faults, "write" \notin Faults
  PROVE  AllKept'
<1>0. /\ HandleTruth /\ PlaceTruth /\ QueuedIsActive /\ AllKept
      /\ handle \in [Runs -> HandleKinds] /\ QueueTypes
      /\ is_completed \in [Runs -> BOOLEAN] /\ table \in [Runs -> Seq(Nat)]
      /\ pc.at # "idle" => pc.run \in Runs
      /\ late \subseteq late'
  BY LateKept DEF ClosedInv, KeptInv, TypeInv, TypeOK, HandleTypes, DbTypes, MainTypes
<1>1. ASSUME UNCHANGED <<results, measured>>,
             \A d \in Runs \ late, n \in Nat : Landed(d, n) => Landed(d, n)',
             \A d \in Runs : handle'[d] # "none" => handle[d] # "none",
             \A d \in Runs : is_completed'[d] =>
                is_completed[d] \/ handle[d] # "none"
      PROVE  AllKept'
  <2>1. \A d, n : InRows(results[d], n)' <=> InRows(results[d], n)
    BY <1>1 DEF InRows
  <2>2. \A d \in Runs : 1..measured[d] \subseteq Nat
    BY DEF TypeInv, TypeOK, HandleTypes
  <2> QED
    BY <1>0, <1>1, <2>1, <2>2 DEF AllKept
<1>2. CASE Continue \/ KeyboardInterrupt
  <2>1. /\ pc.at # "idle" /\ UNCHANGED <<results, measured, table>>
        /\ \/ UNCHANGED handle
           \/ \E how : handle' = [handle EXCEPT ![pc.run] = how]
        /\ \/ UNCHANGED is_completed
           \/ is_completed' = [is_completed EXCEPT ![pc.run] = TRUE]
        /\ \/ UNCHANGED queue \/ Put(StopItem) \/ Put(FinalizeItem(pc.run))
    BY <1>2 DEF Continue, Prepare, WriteParameters, PerformStartActions,
       StartRaises, AwaitQueue, ExitRaises, EnsureDatasetWritten,
       ReleaseWriter, AwaitStop, Seal, SealFails, KeyboardInterrupt,
       handles, db
  <2>2. pc.run \in Runs /\ handle[pc.run] # "none"
    BY <1>0, <2>1 DEF PlaceTruth
  <2>3. \A d \in Runs : /\ handle'[d] # "none" => handle[d] # "none"
                        /\ is_completed'[d] =>
                             is_completed[d] \/ handle[d] # "none"
    BY <1>0, <2>1, <2>2
  <2>4. \A d \in Runs, n \in Nat : Queued(d, n) => Queued(d, n)'
    <3>1. UNCHANGED queue => \A d, n : Queued(d, n) => Queued(d, n)'
      BY DEF Queued, queue
    <3>2. StopItem \in Items /\ FinalizeItem(pc.run) \in Items
      BY <2>2, ItemTypes
    <3> QED
      BY <1>0, <2>1, <3>1, <3>2, PutQueued
  <2>5. \A d : Dropped(d) => Dropped(d)'
    <3>1. CASE PerformStartActions
      BY <3>1 DEF PerformStartActions, StartRaises, Register, MayNotMix, Mode,
                  IsAlive, Dropped, writer
    <3>2. CASE AwaitStop
      <4>1. write_in_background = "none"
        BY <1>0, <3>2 DEF AwaitStop, PlaceTruth
      <4> QED
        BY <4>1 DEF Dropped
    <3>3. CASE ReleaseWriter
      BY <3>3 DEF ReleaseWriter, LastRun, Dropped
    <3>4. CASE EnsureDatasetWritten
      BY <3>4 DEF EnsureDatasetWritten, Dropped
    <3>5. CASE Prepare \/ AwaitQueue \/ ExitRaises \/ Seal \/ SealFails
               \/ KeyboardInterrupt
      <4>1. UNCHANGED writer
        BY <3>5 DEF Prepare, WriteParameters, AwaitQueue, ExitRaises, Seal,
                    SealFails, KeyboardInterrupt
      <4> QED
        BY <4>1 DEF Dropped, writer
    <3> QED
      BY <1>2, <3>1, <3>2, <3>3, <3>4, <3>5 DEF Continue
  <2>6. \A d, n : InRows(table[d], n)' <=> InRows(table[d], n)
    BY <2>1 DEF InRows
  <2> QED
    BY <1>1, <2>1, <2>3, <2>4, <2>5, <2>6 DEF Landed
<1>3. CASE WriterStep
  <2>1. UNCHANGED <<handles, is_completed, write_in_background>>
    BY <1>3 DEF WriterStep, WriteItem, WriteFails, FinalizeRun,
                FinalizeUnknown, StopWriting, WriterExit, WriterDies, db,
                writer
  <2>2. ASSUME NEW d \in Runs \ late, NEW n \in Nat, Landed(d, n)
        PROVE  Landed(d, n)'
    <3>1. CASE WriterExit
      <4>1. /\ UNCHANGED <<table, data_write_queue>>
            /\ bg_writer = "stopping"
        BY <3>1 DEF WriterExit, db, queue
      <4> QED
        BY <2>2, <4>1, LandedStill DEF Dropped
    <3>2. CASE WriterStep /\ ~WriterExit
      <4>1. /\ data_write_queue # <<>> /\ bg_writer = "running"
            /\ data_write_queue' = Tail(data_write_queue)
        BY <3>2 DEF WriterStep, WriteItem, WriteFails, FinalizeRun,
                    FinalizeUnknown, StopWriting, GetItem
      <4>2. ~Dropped(d)
        BY <4>1 DEF Dropped
      <4>3. InRows(table[d], n) => InRows(table[d], n)'
        <5>1. CASE UNCHANGED table
          BY <5>1 DEF InRows
        <5>2. CASE WriteItem
          <6> DEFINE e == Head(data_write_queue).run
                     rows == Head(data_write_queue).rows
          <6>1. /\ table' = [table EXCEPT ![e] = @ \o rows]
                /\ rows \in Seq(Nat) /\ table[d] \in Seq(Nat)
            BY <1>0, <4>1, <5>2, GetItemTypes DEF WriteItem
          <6> HIDE DEF e, rows
          <6>2. table'[d] = table[d] \/ table'[d] = table[d] \o rows
            BY <1>0, <6>1
          <6> QED
            BY <6>1, <6>2, InRowsOfConcat
        <5> QED
          BY <3>2, <5>1, <5>2
          DEF WriterStep, WriteFails, FinalizeRun, FinalizeUnknown,
              StopWriting, WriterDies, db
      <4>4. Queued(d, n) =>
              \/ Queued(d, n)'
              \/ /\ Head(data_write_queue).keys = "data"
                 /\ Head(data_write_queue).run = d
                 /\ InRows(Head(data_write_queue).rows, n)
        BY <1>0, <4>1, TailQueued
      <4>5. ASSUME /\ Head(data_write_queue).keys = "data"
                   /\ Head(data_write_queue).run = d
                   /\ InRows(Head(data_write_queue).rows, n)
            PROVE  Landed(d, n)'
        <5>1. CASE WriteItem
          <6> DEFINE rows == Head(data_write_queue).rows
          <6>1. /\ table' = [table EXCEPT ![d] = @ \o rows]
                /\ rows \in Seq(Nat) /\ table[d] \in Seq(Nat)
            BY <1>0, <4>1, <4>5, <5>1, GetItemTypes DEF WriteItem
          <6>2. InRows(rows, n)
            BY <4>5
          <6> HIDE DEF rows
          <6>3. table'[d] = table[d] \o rows
            BY <1>0, <6>1
          <6>4. InRows(table'[d], n)
            BY <6>1, <6>2, <6>3, InRowsOfConcat
          <6> QED
            BY <6>4 DEF Landed
        <5>2. CASE WriteFails
          <6>1. d \in active_datasets /\ write_in_background = "bg"
            BY <1>0, <4>1, <4>5, QueueHead DEF QueuedIsActive
          <6> QED
            BY <2>1, <5>2, <6>1 DEF WriteFails, WriterDies, Landed, Dropped
        <5> QED
          BY <3>2, <4>5, <5>1, <5>2
          DEF WriterStep, FinalizeRun, FinalizeUnknown, StopWriting, GetItem
      <4> QED
        BY <2>2, <4>2, <4>3, <4>4, <4>5 DEF Landed
    <3> QED
      BY <1>3, <3>1, <3>2
  <2> QED
    BY <1>1, <2>1, <2>2 DEF handles
<1>4. CASE Crash
  <2>1. /\ UNCHANGED <<table, is_completed>>
        /\ \A d \in Runs : /\ handle'[d] = "none"
                           /\ is_completed[d] => measured'[d] = measured[d]
    BY <1>4 DEF Crash
  <2>2. \A d \in Runs \ late : is_completed[d] =>
          \A n \in 1..measured[d] : InRows(table[d], n)'
    BY <2>1, CompletedIsInTable DEF InRows
  <2> QED
    BY <1>0, <2>1, <2>2 DEF AllKept, Landed
<1> QED
  BY <1>2, <1>3, <1>4, UserOperationKeepsAll DEF Next

LEMMA KeptInvStep ==
  ASSUME ShutInv, KeptInv, [Next]_vars,
         "resume" \notin Faults, "write" \notin Faults
  PROVE  KeptInv'
<1>1. CASE Next
  BY <1>1, UntouchedKept, BufferedIsOpenKept, AllKeptKept DEF ShutInv, KeptInv
<1>2. CASE UNCHANGED vars
  BY <1>2
  DEF KeptInv, AllKept, BufferedIsOpen, Untouched, Landed, Dropped, Queued,
      InRows, vars, db, handles, queue, writer, main
<1> QED
  BY <1>1, <1>2

(* Unless a run is taken up by a second handle, was given results after a  *)
(* Ctrl-C had broken off its completion, or transactions raise: when       *)
(* is_completed is in the file, so is every result that was handed over,   *)
(* whoever wrote it, however many runs share the writer thread, and also   *)
(* if the completion was broken off and made again, or the thread died of  *)
(* a subscriber's trigger or of another run's second completion.           *)
THEOREM CompletedRunsAreWhole ==
  ASSUME "resume" \notin Faults, "write" \notin Faults
  PROVE  Spec => []CompletedIsDurable
<1>1. Init => KeptInv
  BY DEF Init, KeptInv, AllKept, BufferedIsOpen, Untouched
<1>2. ShutInv /\ KeptInv /\ [Next]_vars => KeptInv'
  BY KeptInvStep
<1>3. ShutInv /\ KeptInv => CompletedIsDurable
  <2> SUFFICES ASSUME ShutInv, KeptInv, NEW d \in Runs \ late, is_completed[d],
                      NEW n \in 1..measured[d]
               PROVE  \E i \in 1..Len(table[d]) : table[d][i] = n
    BY DEF CompletedIsDurable
  <2>1. InRows(table[d], n)
    BY CompletedIsInTable DEF ShutInv
  <2>2. DOMAIN table[d] = 1..Len(table[d])
    BY DEF ShutInv, TypeInv, TypeOK, DbTypes
  <2> QED
    BY <2>1, <2>2 DEF InRows
<1> QED
  BY <1>1, <1>2, <1>3, ShutInvariance, PTL DEF Spec

-----------------------------------------------------------------------------
(* The file behaves as RunLog says.                                        *)

LEMMA WithinBoundsKept ==
  ASSUME Inv, WithinBounds, [Next]_vars
  PROVE  WithinBounds'
<1>0. /\ measured \in [Runs -> Nat] /\ MaxPoints \in Nat
      /\ results \in [Runs -> Seq(Nat)] /\ table \in [Runs -> Seq(Nat)]
      /\ BuffersInOrder
  BY BoundsAssumption DEF Inv, OrderInv, Rows, TypeInv, TypeOK, HandleTypes,
                          DbTypes
<1>1. CASE UserOperation
  <2> PICK d \in Runs :
        \/ NewDataSet(d) \/ \E bg \in BOOLEAN : RunnerEnter(d, bg)
        \/ Load(d) \/ \E bg \in BOOLEAN : MarkStarted(d, bg)
        \/ AddResult(d)
        \/ \E block \in BOOLEAN : FlushData(d, block)
        \/ FlushInterrupted(d)
        \/ AddResults(d)
        \/ Subscribe(d) \/ Unsubscribe(d)
        \/ RunnerExit(d)
        \/ MarkCompleted(d)
    BY <1>1 DEF UserOperation
  <2>1. \/ UNCHANGED measured
        \/ /\ measured[d] < MaxPoints
           /\ measured' = [measured EXCEPT ![d] = @ + 1]
    BY DEF NewDataSet, RunnerEnter, Create, Load, MarkStarted,
       WriteParameters, AddResult, FlushData, FlushInterrupted, AddResults,
       Subscribe, Unsubscribe, RunnerExit, MarkCompleted, handles
  <2>2. \A e \in Runs :
          measured'[e] = measured[e] \/ measured'[e] <= MaxPoints
    <3>1. /\ measured[d] \in Nat
          /\ measured[d] < MaxPoints => measured[d] + 1 <= MaxPoints
      BY <1>0
    <3> QED
      BY <1>0, <2>1, <3>1
  <2> QED
    BY <2>2 DEF WithinBounds
<1>2. CASE Crash
  <2>1. \A d \in Runs : measured'[d] \in {measured[d], Len(table[d])}
    BY <1>2 DEF Crash
  <2>2. \A d \in Runs : measured'[d] <= MaxPoints
    <3> SUFFICES ASSUME NEW d \in Runs PROVE measured'[d] <= MaxPoints
      OBVIOUS
    <3>1. /\ measured[d] \in Nat /\ Len(results[d]) \in Nat
          /\ Len(table[d]) \in Nat
      BY <1>0
    <3>2. Len(table[d]) < measured[d] - Len(results[d]) + 1
      BY <1>0 DEF BuffersInOrder, Front
    <3>3. measured[d] <= MaxPoints
      BY DEF WithinBounds
    <3>4. Len(table[d]) <= measured[d] /\ MaxPoints \in Nat
      BY <1>0, <3>1, <3>2
    <3>5. measured'[d] = measured[d] \/ measured'[d] = Len(table[d])
      BY <2>1
    <3>6. measured[d] <= MaxPoints /\ Len(table[d]) <= MaxPoints
      BY <3>1, <3>3, <3>4
    <3> QED
      BY <3>5, <3>6
  <2> QED
    BY <2>2 DEF WithinBounds
<1>3. CASE ~UserOperation /\ ~Crash
  <2>1. UNCHANGED measured
    BY <1>3
    DEF Next, Continue, WriterStep, Prepare, WriteParameters,
        PerformStartActions, StartRaises, AwaitQueue, EnsureDatasetWritten,
        ReleaseWriter, AwaitStop, Seal, SealFails, ExitRaises, WriteItem,
        WriteFails, FinalizeRun, FinalizeUnknown, StopWriting, WriterExit,
        WriterDies, KeyboardInterrupt, vars, handles
  <2> QED
    BY <2>1 DEF WithinBounds
<1> QED
  BY <1>1, <1>2, <1>3

LEMMA StatusIs ==
  \A d \in Runs :
    /\ is_completed[d] => Status(d) = "completed"
    /\ ~is_completed[d] /\ run_timestamp[d] => Status(d) = "started"
    /\ ~is_completed[d] /\ ~run_timestamp[d] /\ d \in created
         => Status(d) = "created"
    /\ ~is_completed[d] /\ ~run_timestamp[d] /\ d \notin created
         => Status(d) = "absent"
BY DEF Status

LEMMA StatusOf ==
  ASSUME NEW d \in Runs, is_completed'[d] = is_completed[d],
         run_timestamp'[d] = run_timestamp[d],
         d \in created' <=> d \in created
  PROVE  Status(d)' = Status(d)
BY DEF Status

(* One run goes on to its next status.                                     *)
LEMMA StepOf ==
  ASSUME NEW d \in Runs, NEW from, NEW to, Status(d) = from, Status(d)' = to,
         \A e \in Runs : e # d => Status(e)' = Status(e),
         UNCHANGED table
  PROVE  RL!Step(d, from, to)
BY DEF RL!Step

LEMMA Stutters ==
  ASSUME UNCHANGED table, \A d \in Runs : Status(d)' = Status(d)
  PROVE  UNCHANGED RL!vars
BY DEF RL!vars

(* Without Ctrl-C no completion is broken off, and no run is late.         *)
Undisturbed == late = {} /\ \A d \in Runs : handle[d] # "interrupted"

LEMMA UndisturbedKept ==
  ASSUME TypeInv, Undisturbed, [Next]_vars, MaxInterrupts = 0
  PROVE  Undisturbed'
<1>0. handle \in [Runs -> HandleKinds] /\ interrupts \in Nat
  BY DEF TypeInv, TypeOK, HandleTypes, MainTypes
<1>1. CASE UserOperation
  <2>1. \A d \in Runs : AddResults(d) => UNCHANGED late
    BY DEF AddResults, Undisturbed
  <2>2. UNCHANGED late
    BY <1>1, <2>1
    DEF UserOperation, NewDataSet, RunnerEnter, Create, Load, MarkStarted,
        WriteParameters, AddResult, FlushData, FlushInterrupted, Subscribe,
        Unsubscribe, RunnerExit, MarkCompleted, main
  <2>3. \/ UNCHANGED handle
        \/ \E how \in {"dataset", "runner"}, d \in Runs :
             handle' = [handle EXCEPT ![d] = how]
    BY <1>1
    DEF UserOperation, NewDataSet, RunnerEnter, Create, Load, MarkStarted,
        WriteParameters, AddResult, FlushData, FlushInterrupted, AddResults,
        Subscribe, Unsubscribe, RunnerExit, MarkCompleted, handles
  <2> QED
    BY <1>0, <2>2, <2>3 DEF Undisturbed
<1>2. CASE Continue
  <2>1. \/ UNCHANGED handle
        \/ handle' = [handle EXCEPT ![pc.run] = "dataset"]
    BY <1>2
    DEF Continue, Prepare, WriteParameters, PerformStartActions, StartRaises,
        AwaitQueue, ExitRaises, EnsureDatasetWritten, ReleaseWriter,
        AwaitStop, Seal, SealFails, handles
  <2>2. UNCHANGED late
    BY <1>2
    DEF Continue, Prepare, WriteParameters, PerformStartActions, StartRaises,
        AwaitQueue, ExitRaises, EnsureDatasetWritten, ReleaseWriter,
        AwaitStop, Seal, SealFails
  <2> QED
    BY <1>0, <2>1, <2>2 DEF Undisturbed
<1>3. CASE WriterStep \/ Crash \/ UNCHANGED vars
  <2>1. /\ UNCHANGED late
        /\ UNCHANGED handle \/ \A d \in Runs : handle'[d] = "none"
    BY <1>3
    DEF WriterStep, WriteItem, WriteFails, FinalizeRun, FinalizeUnknown,
        StopWriting, WriterExit, WriterDies, Crash, vars, handles, main
  <2> QED
    BY <2>1 DEF Undisturbed
<1>4. ~KeyboardInterrupt
  BY <1>0 DEF KeyboardInterrupt
<1> QED
  BY <1>1, <1>2, <1>3, <1>4 DEF Next

(* What a step may do to the columns of the runs table and to the results. *)
LEMMA FileStep ==
  ASSUME ShutInv, Next, late = {}, "resume" \notin Faults
  PROVE  \/ UNCHANGED <<created, run_timestamp, is_completed, table>>
         \/ \E d \in Runs :
              \/ /\ d \notin created /\ created' = created \cup {d}
                 /\ UNCHANGED <<run_timestamp, is_completed, table>>
              \/ /\ d \in created
                 /\ run_timestamp' = [run_timestamp EXCEPT ![d] = TRUE]
                 /\ UNCHANGED <<created, is_completed, table>>
              \/ /\ run_timestamp[d]
                 /\ is_completed' = [is_completed EXCEPT ![d] = TRUE]
                 /\ UNCHANGED <<created, run_timestamp, table>>
              \/ /\ run_timestamp[d] /\ ~is_completed[d]
                 /\ \E rows \in Seq(Nat) :
                      table' = [table EXCEPT ![d] = @ \o rows]
                 /\ UNCHANGED <<created, run_timestamp, is_completed>>
<1>0. /\ HandleTruth /\ PlaceTruth /\ QueuedIsActive /\ ActiveIsOpen
      /\ QueueTypes /\ ItemRuns
      /\ pc.at # "idle" => pc.run \in Runs
      /\ results \in [Runs -> Seq(Nat)] /\ measured \in [Runs -> Nat]
  BY DEF ShutInv, ClosedInv, TypeInv, TypeOK, MainTypes, HandleTypes
<1>1. CASE UserOperation
  <2> PICK d \in Runs :
        \/ NewDataSet(d) \/ \E bg \in BOOLEAN : RunnerEnter(d, bg)
        \/ Load(d) \/ \E bg \in BOOLEAN : MarkStarted(d, bg)
        \/ AddResult(d)
        \/ \E block \in BOOLEAN : FlushData(d, block)
        \/ FlushInterrupted(d)
        \/ AddResults(d)
        \/ Subscribe(d) \/ Unsubscribe(d)
        \/ RunnerExit(d)
        \/ MarkCompleted(d)
    BY <1>1 DEF UserOperation
  <2>1. CASE NewDataSet(d) \/ \E bg \in BOOLEAN : RunnerEnter(d, bg)
    BY <2>1 DEF NewDataSet, RunnerEnter, Create
  <2>2. CASE (\E bg \in BOOLEAN : MarkStarted(d, bg)) \/ MarkCompleted(d)
             \/ Subscribe(d) \/ Unsubscribe(d)
    BY <2>2 DEF MarkStarted, WriteParameters, MarkCompleted, Subscribe,
                Unsubscribe, db
  <2>3. CASE \/ AddResult(d) \/ RunnerExit(d) \/ FlushInterrupted(d)
             \/ AddResults(d) \/ \E block \in BOOLEAN : FlushData(d, block)
    <3>1. /\ results[d] \in Seq(Nat)
          /\ Append(results[d], measured[d] + 1) \in Seq(Nat)
          /\ <<measured[d] + 1>> \in Seq(Nat)
      BY <1>0, InRowsOfAppend
    <3>2. /\ \/ UNCHANGED db
             \/ \E rows \in Seq(Nat) : Flush(d, rows)
             \/ \E rows \in Seq(Nat) : AddResultsTo(d, rows)
          /\ Writable(d) /\ handle[d] # "none"
      BY <2>3, <3>1 DEF AddResult, RunnerExit, FlushInterrupted, AddResults,
                        UserHandles, FlushData
    <3>3. \/ UNCHANGED db
          \/ \E rows \in Seq(Nat) : AddResultsTo(d, rows)
      BY <3>2 DEF Flush
    <3>4. run_timestamp[d] /\ ~is_completed[d]
      BY <1>0, <3>2 DEF Writable, HandleTruth
    <3> QED
      BY <3>3, <3>4 DEF AddResultsTo, db
  <2>4. ~Load(d)
    BY DEF Load
  <2> QED
    BY <2>1, <2>2, <2>3, <2>4
<1>2. CASE PerformStartActions
  <2>1. /\ pc.at = "starting"
        /\ UNCHANGED <<created, is_completed, table>>
        /\ \/ UNCHANGED run_timestamp
           \/ run_timestamp' = [run_timestamp EXCEPT ![pc.run] = TRUE]
    BY <1>2 DEF PerformStartActions, StartRaises
  <2>2. pc.run \in Runs /\ pc.run \in created
    BY <1>0, <2>1 DEF PlaceTruth, HandleTruth
  <2> QED
    BY <2>1, <2>2
<1>3. CASE Seal
  <2>1. /\ pc.at = "sealing"
        /\ UNCHANGED <<created, run_timestamp, table>>
        /\ is_completed' = [is_completed EXCEPT ![pc.run] = TRUE]
    BY <1>3 DEF Seal
  <2>2. pc.run \in Runs /\ run_timestamp[pc.run]
    BY <1>0, <2>1 DEF PlaceTruth, HandleTruth
  <2> QED
    BY <2>1, <2>2
<1>4. CASE WriteItem
  <2> DEFINE d == Head(data_write_queue).run
             rows == Head(data_write_queue).rows
  <2>1. /\ data_write_queue # <<>> /\ Head(data_write_queue).keys = "data"
        /\ UNCHANGED <<created, run_timestamp, is_completed>>
        /\ table' = [table EXCEPT ![d] = @ \o rows]
        /\ rows \in Seq(Nat)
    BY <1>0, <1>4, GetItemTypes DEF WriteItem, GetItem
  <2>2. d \in active_datasets /\ d \in Runs
    BY <1>0, <2>1, QueueHead DEF QueuedIsActive, ItemRuns
  <2>3. run_timestamp[d] /\ ~is_completed[d]
    BY <1>0, <2>2 DEF ActiveIsOpen
  <2> HIDE DEF d, rows
  <2> QED
    BY <2>1, <2>2, <2>3
<1>5. CASE Prepare \/ AwaitQueue \/ ExitRaises \/ EnsureDatasetWritten
           \/ ReleaseWriter \/ AwaitStop \/ SealFails \/ KeyboardInterrupt
           \/ Crash \/ (WriterStep /\ ~WriteItem)
  BY <1>5
  DEF Prepare, WriteParameters, AwaitQueue, ExitRaises, EnsureDatasetWritten,
      ReleaseWriter, AwaitStop, SealFails, KeyboardInterrupt, Crash,
      WriterStep, WriteFails, FinalizeRun, FinalizeUnknown, StopWriting,
      WriterExit, WriterDies, db
<1> QED
  BY <1>1, <1>2, <1>3, <1>4, <1>5 DEF Next, Continue

(* Rows joined to a table that stays in order are the next results.        *)
LEMMA ExtendsLog ==
  ASSUME TypeInv, WithinBounds', HandleTypes', RowsInOrder', BuffersInOrder',
         NEW d \in Runs, NEW rows \in Seq(Nat), rows # <<>>,
         table' = [table EXCEPT ![d] = @ \o rows],
         Status(d) = "started", \A e \in Runs : Status(e)' = Status(e)
  PROVE  \E n \in (Len(table[d]) + 1)..MaxPoints : RL!Extend(d, n)
<1> DEFINE m == Len(table[d])
           n == Len(table[d]) + Len(rows)
<1>1. /\ table \in [Runs -> Seq(Nat)] /\ table[d] \in Seq(Nat)
      /\ Len(table[d]) \in Nat /\ Len(rows) \in Nat \ {0}
      /\ table'[d] = table[d] \o rows
      /\ Len(table[d] \o rows) = n
      /\ \A i \in 1..Len(rows) : (table[d] \o rows)[m + i] = rows[i]
      /\ DOMAIN rows = 1..Len(rows)
  BY DEF TypeInv, TypeOK, DbTypes
<1>2. n \in (m + 1)..MaxPoints
  <2>1. Len(table'[d]) < measured'[d] - Len(results'[d]) + 1
    BY DEF BuffersInOrder, Front
  <2>2. measured'[d] <= MaxPoints /\ measured'[d] \in Nat
        /\ Len(results'[d]) \in Nat
    BY DEF WithinBounds, HandleTypes
  <2>3. MaxPoints \in Nat
    BY BoundsAssumption
  <2> QED
    BY <1>1, <2>1, <2>2, <2>3
<1>3. rows = [i \in 1..(n - m) |-> m + i]
  <2>1. n - m = Len(rows)
    BY <1>1
  <2>2. \A i \in 1..Len(rows) : m + i \in 1..n
    BY <1>1
  <2>3. \A i \in 1..Len(rows) : rows[i] = m + i
    BY <1>1, <2>2 DEF RowsInOrder
  <2>4. \A k : k = Len(rows) => rows = [i \in 1..k |-> m + i]
    BY <1>1, <2>3
  <2> QED
    BY <2>1, <2>4
<1>4. RL!Extend(d, n)
  <2>1. [e \in Runs |-> Status(e)][d] = "started"
    OBVIOUS
  <2>2. UNCHANGED [e \in Runs |-> Status(e)]
    OBVIOUS
  <2>3. table' = [table EXCEPT ![d] = @ \o [i \in 1..(n - Len(@)) |->
                                               Len(@) + i]]
    BY <1>1, <1>3
  <2> QED
    BY <2>1, <2>2, <2>3 DEF RL!Extend
<1> QED
  BY <1>2, <1>4

LEMMA StepImplements ==
  ASSUME Inv, Inv', ShutInv, Undisturbed, WithinBounds', [Next]_vars,
         "resume" \notin Faults
  PROVE  [RL!Next]_RL!vars
<1>0. /\ TypeInv /\ HandleTruth
      /\ HandleTypes' /\ RowsInOrder' /\ BuffersInOrder'
      /\ created \subseteq Runs /\ table \in [Runs -> Seq(Nat)]
      /\ run_timestamp \in [Runs -> BOOLEAN]
      /\ is_completed \in [Runs -> BOOLEAN]
  BY DEF ShutInv, ClosedInv, Inv, OrderInv, Rows, TypeInv, TypeOK, DbTypes
<1>1. CASE UNCHANGED <<created, run_timestamp, is_completed, table>>
  <2>1. \A d \in Runs : Status(d)' = Status(d)
    BY <1>1, StatusOf
  <2> QED
    BY <1>1, <2>1, Stutters
<1>2. ASSUME NEW d \in Runs, d \notin created, created' = created \cup {d},
             UNCHANGED <<run_timestamp, is_completed, table>>
      PROVE  RL!Next
  <2>1. ~run_timestamp[d] /\ ~is_completed[d]
    BY <1>0, <1>2 DEF HandleTruth
  <2>2. Status(d) = "absent" /\ Status(d)' = "created"
    BY <1>2, <2>1, StatusIs DEF Status
  <2>3. \A e \in Runs : e # d => Status(e)' = Status(e)
    BY <1>2, StatusOf
  <2>4. RL!Create(d)
    BY <1>2, <2>2, <2>3, StepOf DEF RL!Create
  <2> QED
    BY <2>4 DEF RL!Next
<1>3. ASSUME NEW d \in Runs, d \in created,
             run_timestamp' = [run_timestamp EXCEPT ![d] = TRUE],
             UNCHANGED <<created, is_completed, table>>
      PROVE  RL!Next \/ UNCHANGED RL!vars
  <2>1. \A e \in Runs : e # d => run_timestamp'[e] = run_timestamp[e]
    BY <1>0, <1>3
  <2>2. \A e \in Runs : e # d => Status(e)' = Status(e)
    BY <1>3, <2>1, StatusOf
  <2>3. CASE run_timestamp[d]
    <3>1. run_timestamp'[d] = run_timestamp[d]
      BY <1>0, <1>3, <2>3
    <3>2. Status(d)' = Status(d)
      BY <1>3, <3>1, StatusOf
    <3> QED
      BY <1>3, <2>2, <3>2, Stutters
  <2>4. CASE ~run_timestamp[d]
    <3>1. ~is_completed[d] /\ run_timestamp'[d] /\ ~is_completed'[d]
      BY <1>0, <1>3, <2>4 DEF HandleTruth
    <3>2. Status(d) = "created" /\ Status(d)' = "started"
      BY <1>3, <2>4, <3>1, StatusIs DEF Status
    <3>3. RL!Start(d)
      BY <1>3, <2>2, <3>2, StepOf DEF RL!Start
    <3> QED
      BY <3>3 DEF RL!Next
  <2> QED
    BY <2>3, <2>4
<1>4. ASSUME NEW d \in Runs, run_timestamp[d],
             is_completed' = [is_completed EXCEPT ![d] = TRUE],
             UNCHANGED <<created, run_timestamp, table>>
      PROVE  RL!Next \/ UNCHANGED RL!vars
  <2>1. \A e \in Runs : e # d => is_completed'[e] = is_completed[e]
    BY <1>0, <1>4
  <2>2. \A e \in Runs : e # d => Status(e)' = Status(e)
    BY <1>4, <2>1, StatusOf
  <2>3. CASE is_completed[d]
    <3>1. is_completed'[d] = is_completed[d]
      BY <1>0, <1>4, <2>3
    <3>2. Status(d)' = Status(d)
      BY <1>4, <3>1, StatusOf
    <3> QED
      BY <1>4, <2>2, <3>2, Stutters
  <2>4. CASE ~is_completed[d]
    <3>1. is_completed'[d]
      BY <1>0, <1>4
    <3>2. Status(d) = "started" /\ Status(d)' = "completed"
      BY <1>4, <2>4, <3>1, StatusIs DEF Status
    <3>3. RL!Complete(d)
      BY <1>4, <2>2, <3>2, StepOf DEF RL!Complete
    <3> QED
      BY <3>3 DEF RL!Next
  <2> QED
    BY <2>3, <2>4
<1>5. ASSUME NEW d \in Runs, run_timestamp[d], ~is_completed[d],
             NEW rows \in Seq(Nat), table' = [table EXCEPT ![d] = @ \o rows],
             UNCHANGED <<created, run_timestamp, is_completed>>
      PROVE  RL!Next \/ UNCHANGED RL!vars
  <2>1. \A e \in Runs : Status(e)' = Status(e)
    BY <1>5, StatusOf
  <2>2. CASE rows = <<>>
    <3>1. table[d] \o rows = table[d]
      BY <1>0, <2>2
    <3>2. UNCHANGED table
      BY <1>0, <1>5, <3>1
    <3> QED
      BY <2>1, <3>2, Stutters
  <2>3. CASE rows # <<>>
    <3>1. Status(d) = "started"
      BY <1>5, StatusIs
    <3>2. \E n \in (Len(table[d]) + 1)..MaxPoints : RL!Extend(d, n)
      BY <1>0, <1>5, <2>1, <2>3, <3>1, ExtendsLog
    <3> QED
      BY <3>2 DEF RL!Next
  <2> QED
    BY <2>2, <2>3
<1>6. CASE UNCHANGED vars
  BY <1>1, <1>6 DEF vars, db
<1> QED
  BY <1>1, <1>2, <1>3, <1>4, <1>5, <1>6, FileStep DEF Undisturbed

(* Without Ctrl-C and second handles the file, whatever fails, behaves as  *)
(* the log per run of RunLog: created, started, completed in this order,   *)
(* and in between extended by consecutive results.                         *)
THEOREM FileIsRunLog ==
  ASSUME MaxInterrupts = 0, "resume" \notin Faults
  PROVE  Spec => ImplementsRunLog
<1>1. Init => RL!Init
  <2> SUFFICES ASSUME Init PROVE RL!Init
    OBVIOUS
  <2>1. \A d \in Runs : Status(d) = "absent"
    BY StatusIs DEF Init
  <2> QED
    BY <2>1 DEF Init, RL!Init
<1>2. Init => WithinBounds
  BY BoundsAssumption DEF Init, WithinBounds
<1>3. Inv /\ WithinBounds /\ [Next]_vars => WithinBounds'
  BY WithinBoundsKept
<1>4. Inv /\ Inv' /\ ShutInv /\ Undisturbed /\ WithinBounds' /\ [Next]_vars
        => [RL!Next]_RL!vars
  BY StepImplements
<1>5. Init => Undisturbed
  BY DEF Init, Undisturbed
<1>6. Inv /\ Undisturbed /\ [Next]_vars => Undisturbed'
  BY UndisturbedKept DEF Inv
<1> QED
  BY <1>1, <1>2, <1>3, <1>4, <1>5, <1>6, Inductive, ShutInvariance, PTL
  DEF Spec, ImplementsRunLog, RL!Spec

=============================================================================
