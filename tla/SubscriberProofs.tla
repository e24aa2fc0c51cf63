-------------------------- MODULE SubscriberProofs --------------------------
(* For any number of rows, any queue length and any callback that raises:  *)
(* no row is lost or delivered twice between the two threads, rows arrive  *)
(* in order until the run is being completed, and nothing is delivered     *)
(* once unsubscribe has returned.                                          *)
EXTENDS Subscriber, SequenceTheorems, TLAPS

(* An insert is under way: its row is on the queue, and not counted in     *)
(* _queue_length yet.                                                      *)
Inserting == main \in {"put", "counted", "read"}

(* The two counters, of which one is right at most and the other late.     *)
Counts ==
  /\ Inserting => inserted >= 1
  /\ data_set_len = IF main = "put" THEN inserted - 1 ELSE inserted
  /\ queue_length <= IF Inserting THEN inserted - 1 ELSE inserted
  /\ main = "read" => read <= inserted - 1

(* Nobody but the subscriber thread has drained the queue.                 *)
Undisturbed == ~completed /\ main \notin {"drain", "mark"} /\ raises = 0

(* What was delivered, what the thread holds, and what is on the queue are *)
(* the rows in the order of their insertion.                               *)
InOrder ==
  Undisturbed =>
    /\ held["main"] = <<>>
    /\ \A i \in 1..Len(delivered) : delivered[i] = i
    /\ \A i \in 1..Len(held["subscriber"]) :
         held["subscriber"][i] = Len(delivered) + i
    /\ \A i \in 1..Len(data_queue) :
         data_queue[i] = Len(delivered) + Len(held["subscriber"]) + i

Told == Len(delivered) <= reported + 1

GoneIsEnded == main = "gone" => subscriber = "ended"

IInv == TypeOK /\ Counts /\ RowsConserved /\ InOrder /\ Told /\ GoneIsEnded

-----------------------------------------------------------------------------
(* The elements of a sequence.                                             *)

LEMMA ElementsOfEmpty == Elements(<<>>) = {}
BY DEF Elements

LEMMA ElementsOfAppend ==
  ASSUME NEW S, NEW s \in Seq(S), NEW e \in S
  PROVE  Elements(Append(s, e)) = Elements(s) \cup {e}
<1>1. /\ Append(s, e) \in Seq(S) /\ Len(Append(s, e)) = Len(s) + 1
      /\ \A i \in 1..Len(s) : Append(s, e)[i] = s[i]
      /\ Append(s, e)[Len(s) + 1] = e
  OBVIOUS
<1>2. Len(s) \in Nat /\ DOMAIN s = 1..Len(s)
      /\ DOMAIN Append(s, e) = 1..(Len(s) + 1)
  BY <1>1, LenProperties
<1> QED BY <1>1, <1>2 DEF Elements

LEMMA ElementsOfConcat ==
  ASSUME NEW S, NEW s \in Seq(S), NEW t \in Seq(S)
  PROVE  Elements(s \o t) = Elements(s) \cup Elements(t)
<1>1. /\ s \o t \in Seq(S) /\ Len(s \o t) = Len(s) + Len(t)
      /\ \A i \in 1..(Len(s) + Len(t)) :
           (s \o t)[i] = IF i <= Len(s) THEN s[i] ELSE t[i - Len(s)]
  BY ConcatProperties
<1>2. /\ Len(s) \in Nat /\ DOMAIN s = 1..Len(s)
      /\ Len(t) \in Nat /\ DOMAIN t = 1..Len(t)
      /\ DOMAIN (s \o t) = 1..(Len(s) + Len(t))
  BY <1>1, LenProperties
<1>3. ASSUME NEW x \in Elements(s \o t)
      PROVE  x \in Elements(s) \cup Elements(t)
  <2>1. PICK i \in 1..(Len(s) + Len(t)) : x = (s \o t)[i]
    BY <1>2 DEF Elements
  <2>2. CASE i <= Len(s)
    BY <1>1, <1>2, <2>1, <2>2 DEF Elements
  <2>3. CASE ~(i <= Len(s))
    <3>1. i - Len(s) \in 1..Len(t) /\ x = t[i - Len(s)]
      BY <1>1, <1>2, <2>1, <2>3
    <3> QED BY <1>2, <3>1 DEF Elements
  <2> QED BY <2>2, <2>3
<1>4. ASSUME NEW i \in 1..Len(s) PROVE s[i] \in Elements(s \o t)
  <2>1. i \in 1..(Len(s) + Len(t)) /\ (s \o t)[i] = s[i]
    BY <1>1, <1>2
  <2> QED BY <1>2, <2>1 DEF Elements
<1>5. ASSUME NEW i \in 1..Len(t) PROVE t[i] \in Elements(s \o t)
  <2>1. /\ Len(s) + i \in 1..(Len(s) + Len(t)) /\ ~(Len(s) + i <= Len(s))
        /\ Len(s) + i - Len(s) = i
    BY <1>2
  <2>2. (s \o t)[Len(s) + i] = t[i]
    BY <1>1, <2>1
  <2> QED BY <1>2, <2>1, <2>2 DEF Elements
<1>6. \A x \in Elements(s) \cup Elements(t) : x \in Elements(s \o t)
  BY <1>2, <1>4, <1>5 DEF Elements
<1> QED BY <1>3, <1>6

LEMMA ElementsOfHeadTail ==
  ASSUME NEW S, NEW s \in Seq(S), s # <<>>
  PROVE  Elements(s) = {Head(s)} \cup Elements(Tail(s))
<1>1. /\ Tail(s) \in Seq(S) /\ Len(Tail(s)) = Len(s) - 1
      /\ \A i \in 1..Len(Tail(s)) : Tail(s)[i] = s[i + 1]
  BY HeadTailProperties
<1>2. /\ Len(s) \in Nat \ {0} /\ DOMAIN s = 1..Len(s)
      /\ DOMAIN Tail(s) = 1..(Len(s) - 1) /\ Head(s) = s[1]
  BY <1>1, LenProperties, EmptySeq
<1>3. ASSUME NEW i \in 1..Len(s) PROVE s[i] \in {Head(s)} \cup Elements(Tail(s))
  <2>1. CASE i = 1
    BY <1>2, <2>1
  <2>2. CASE i # 1
    <3>1. i - 1 \in 1..(Len(s) - 1) /\ i - 1 + 1 = i
      BY <1>2, <2>2
    <3>2. Tail(s)[i - 1] = s[i]
      BY <1>1, <3>1
    <3> QED BY <1>2, <3>1, <3>2 DEF Elements
  <2> QED BY <2>1, <2>2
<1>4. ASSUME NEW i \in 1..(Len(s) - 1) PROVE Tail(s)[i] \in Elements(s)
  <2>1. i + 1 \in 1..Len(s) /\ Tail(s)[i] = s[i + 1]
    BY <1>1, <1>2
  <2> QED BY <1>2, <2>1 DEF Elements
<1>5. Head(s) \in Elements(s)
  BY <1>2 DEF Elements
<1>6. Elements(s) \subseteq {Head(s)} \cup Elements(Tail(s))
  BY <1>2, <1>3 DEF Elements
<1>7. Elements(Tail(s)) \subseteq Elements(s)
  BY <1>2, <1>4 DEF Elements
<1> QED BY <1>5, <1>6, <1>7

-----------------------------------------------------------------------------
(* What the threads do with the rows.                                      *)

(* The first row of the queue becomes the last of what the thread holds.   *)
LEMMA Got ==
  ASSUME TypeOK, NEW t \in Threads, Get(t)
  PROVE  /\ data_queue' \in Seq(Rows)
         /\ held' \in [Threads -> Seq(Rows)]
         /\ Len(data_queue) >= 1
         /\ Len(data_queue') = Len(data_queue) - 1
         /\ \A i \in 1..Len(data_queue') : data_queue'[i] = data_queue[i + 1]
         /\ Len(held'[t]) = Len(held[t]) + 1
         /\ \A i \in 1..Len(held[t]) : held'[t][i] = held[t][i]
         /\ held'[t][Len(held[t]) + 1] = data_queue[1]
         /\ \A u \in Threads : u # t => held'[u] = held[u]
         /\ Elements(data_queue') \cup Elements(held'[t])
              = Elements(data_queue) \cup Elements(held[t])
<1> DEFINE e == Head(data_queue)
<1>1. data_queue \in Seq(Rows) /\ data_queue # <<>> /\ held[t] \in Seq(Rows)
  BY DEF TypeOK, Get
<1>2. /\ e \in Rows /\ e = data_queue[1] /\ data_queue' = Tail(data_queue)
      /\ data_queue' \in Seq(Rows)
      /\ Len(data_queue) >= 1
      /\ Len(data_queue') = Len(data_queue) - 1
      /\ \A i \in 1..Len(data_queue') : data_queue'[i] = data_queue[i + 1]
  BY <1>1, HeadTailProperties, EmptySeq DEF Get
<1>3. held'[t] = Append(held[t], e) /\ \A u \in Threads : u # t => held'[u] = held[u]
  BY DEF Get, TypeOK
<1> HIDE DEF e
<1>4. /\ held'[t] \in Seq(Rows)
      /\ Len(held'[t]) = Len(held[t]) + 1
      /\ \A i \in 1..Len(held[t]) : held'[t][i] = held[t][i]
      /\ held'[t][Len(held[t]) + 1] = e
  BY <1>1, <1>2, <1>3
<1>5. held' \in [Threads -> Seq(Rows)]
  BY <1>3, <1>4 DEF Get, TypeOK
<1>6. /\ Elements(data_queue) = {e} \cup Elements(data_queue')
      /\ Elements(held'[t]) = Elements(held[t]) \cup {e}
  BY <1>1, <1>2, <1>3, ElementsOfHeadTail, ElementsOfAppend DEF e
<1> QED BY <1>2, <1>3, <1>4, <1>5, <1>6

(* What the thread holds has been delivered, after what was before.        *)
LEMMA Called ==
  ASSUME TypeOK, NEW t \in Threads, Call(t)
  PROVE  /\ delivered' \in Seq(Rows)
         /\ held' \in [Threads -> Seq(Rows)]
         /\ held'[t] = <<>>
         /\ \A u \in Threads : u # t => held'[u] = held[u]
         /\ Len(delivered') = Len(delivered) + Len(held[t])
         /\ \A i \in 1..Len(delivered') :
              delivered'[i] = IF i <= Len(delivered) THEN delivered[i]
                                ELSE held[t][i - Len(delivered)]
         /\ Elements(delivered') = Elements(delivered) \cup Elements(held[t])
<1>1. held[t] \in Seq(Rows) /\ delivered \in Seq(Rows)
      /\ delivered' = delivered \o held[t]
  BY DEF TypeOK, Call
<1>2. /\ delivered' \in Seq(Rows)
      /\ Len(delivered') = Len(delivered) + Len(held[t])
      /\ \A i \in 1..Len(delivered') :
           delivered'[i] = IF i <= Len(delivered) THEN delivered[i]
                             ELSE held[t][i - Len(delivered)]
  BY <1>1, ConcatProperties
<1>3. held'[t] = <<>> /\ \A u \in Threads : u # t => held'[u] = held[u]
  BY DEF Call, TypeOK
<1>4. held' \in [Threads -> Seq(Rows)]
  <2>1. <<>> \in Seq(Rows)
    BY EmptySeq
  <2> QED BY <2>1 DEF Call, TypeOK
<1>5. Elements(delivered') = Elements(delivered) \cup Elements(held[t])
  BY <1>1, ElementsOfConcat
<1> QED BY <1>2, <1>3, <1>4, <1>5

-----------------------------------------------------------------------------
(* Types and counters.                                                     *)

LEMMA InitCounts == ASSUME Init PROVE TypeOK /\ Counts
<1>1. <<>> \in Seq(Rows)
  BY EmptySeq
<1>2. 0 \in 0..MaxRows /\ 0 \in 0..MaxRaises
  BY SubscriberAssumption
<1>3. TypeOK
  BY <1>1, <1>2 DEF Init, TypeOK
<1>4. Counts
  BY DEF Init, Counts, Inserting
<1> QED BY <1>3, <1>4

LEMMA CountsStep == ASSUME TypeOK, Counts, Next PROVE TypeOK' /\ Counts'
<1> USE SubscriberAssumption DEF Counts, Inserting
<1>1. CASE InsertRow
  <2>1. inserted + 1 \in Rows /\ inserted + 1 \in 0..MaxRows
    BY <1>1 DEF InsertRow, TypeOK, Rows
  <2>2. Append(data_queue, inserted + 1) \in Seq(Rows)
    BY <2>1 DEF TypeOK
  <2> QED BY <1>1, <2>1, <2>2 DEF InsertRow, TypeOK
<1>2. CASE CountRow
  BY <1>2 DEF CountRow, TypeOK
<1>3. CASE ReadQueueLength
  BY <1>3 DEF ReadQueueLength, TypeOK, fields
<1>4. CASE CountQueue
  BY <1>4 DEF CountQueue, TypeOK
<1>5. CASE MarkCompleted \/ ScheduleStop \/ SetCompleted \/ Join
  BY <1>5 DEF MarkCompleted, ScheduleStop, SetCompleted, Join, TypeOK, fields
<1>6. CASE DrainByMain
  <2>1. /\ data_queue' \in Seq(Rows) /\ held' \in [Threads -> Seq(Rows)]
    BY <1>6, Got DEF DrainByMain, Threads
  <2> QED BY <1>6, <2>1 DEF DrainByMain, TypeOK
<1>7. CASE DoneCallback
  <2>1. /\ delivered' \in Seq(Rows) /\ held' \in [Threads -> Seq(Rows)]
    BY <1>7, Called DEF DoneCallback, Threads
  <2>2. reported' \in 0..MaxRows /\ raises' \in 0..MaxRaises
    BY <1>7 DEF DoneCallback, Call, Raise, TypeOK
  <2> QED BY <1>7, <2>1, <2>2 DEF DoneCallback, TypeOK, fields
<1>8. CASE Drain
  <2>1. /\ data_queue' \in Seq(Rows) /\ held' \in [Threads -> Seq(Rows)]
    BY <1>8, Got DEF Drain, Threads
  <2> QED BY <1>8, <2>1 DEF Drain, TypeOK
<1>9. CASE Callback
  <2>1. /\ delivered' \in Seq(Rows) /\ held' \in [Threads -> Seq(Rows)]
    BY <1>9, Called DEF Callback, Threads
  <2>2. reported' \in 0..MaxRows /\ raises' \in 0..MaxRaises
    BY <1>9 DEF Callback, Call, Raise, TypeOK
  <2> QED BY <1>9, <2>1, <2>2 DEF Callback, TypeOK, fields
<1>10. CASE Poll \/ Emptied \/ CheckCompleted
  BY <1>10 DEF Poll, Emptied, CheckCompleted, TypeOK, fields
<1>11. CASE ResetQueueLength
  BY <1>11 DEF ResetQueueLength, TypeOK
<1> QED BY <1>1, <1>2, <1>3, <1>4, <1>5, <1>6, <1>7, <1>8, <1>9, <1>10, <1>11
        DEF Next, MainStep, SubscriberStep

-----------------------------------------------------------------------------
(* Rows are neither lost nor doubled.                                      *)

(* RowsConserved with the places named.                                    *)
Conserved ==
  /\ Elements(data_queue) \cup Elements(held["main"])
       \cup Elements(held["subscriber"]) \cup Elements(delivered) = 1..inserted
  /\ Len(data_queue) + Len(held["main"]) + Len(held["subscriber"])
       + Len(delivered) = inserted

LEMMA ConservedIs == RowsConserved <=> Conserved
BY DEF RowsConserved, Conserved

LEMMA Lengths ==
  ASSUME TypeOK
  PROVE  /\ Len(data_queue) \in Nat /\ Len(delivered) \in Nat
         /\ \A t \in Threads : held[t] \in Seq(Rows) /\ Len(held[t]) \in Nat
         /\ "main" \in Threads /\ "subscriber" \in Threads
BY DEF TypeOK, Threads

LEMMA InitConserved == ASSUME Init PROVE Conserved
<1>1. Len(<<>>) = 0 /\ Elements(<<>>) = {}
  BY ElementsOfEmpty
<1>2. held["main"] = <<>> /\ held["subscriber"] = <<>>
  BY DEF Init, Threads
<1>3. 1..inserted = {} /\ inserted = 0
      /\ data_queue = <<>> /\ delivered = <<>>
  BY DEF Init
<1> QED BY <1>1, <1>2, <1>3 DEF Conserved

LEMMA GetConserves ==
  ASSUME TypeOK, Conserved, NEW t \in Threads, Get(t),
         UNCHANGED <<inserted, delivered>>
  PROVE  Conserved'
<1>1. PICK u \in Threads : u # t /\ Threads = {t, u}
  BY DEF Threads
<1>2. /\ Len(data_queue') = Len(data_queue) - 1
      /\ Len(held'[t]) = Len(held[t]) + 1
      /\ held'[u] = held[u]
      /\ Elements(data_queue') \cup Elements(held'[t])
           = Elements(data_queue) \cup Elements(held[t])
  BY <1>1, Got
<1>3. \/ t = "main" /\ u = "subscriber"
      \/ t = "subscriber" /\ u = "main"
  BY <1>1 DEF Threads
<1>4. Elements(data_queue') \cup Elements(held'["main"])
        \cup Elements(held'["subscriber"]) \cup Elements(delivered')
      = Elements(data_queue) \cup Elements(held["main"])
          \cup Elements(held["subscriber"]) \cup Elements(delivered)
  BY <1>2, <1>3
<1>5. Len(data_queue') + Len(held'["main"]) + Len(held'["subscriber"])
        + Len(delivered') = inserted'
  <2> DEFINE q == Len(data_queue)  m == Len(held["main"])
             s == Len(held["subscriber"])  d == Len(delivered)
             q1 == Len(data_queue')  m1 == Len(held'["main"])
             s1 == Len(held'["subscriber"])  d1 == Len(delivered')
  <2>1. q \in Nat /\ m \in Nat /\ s \in Nat /\ d \in Nat
    BY Lengths
  <2>2. q + m + s + d = inserted
    BY DEF Conserved
  <2>3. q1 = q - 1 /\ d1 = d
    BY <1>2
  <2>4. (m1 = m + 1 /\ s1 = s) \/ (m1 = m /\ s1 = s + 1)
    BY <1>2, <1>3
  <2> HIDE DEF q, m, s, d, q1, m1, s1, d1
  <2>5. q1 + m1 + s1 + d1 = inserted'
    BY <2>1, <2>2, <2>3, <2>4
  <2> QED BY <2>5 DEF q1, m1, s1, d1
<1>6. inserted' = inserted
  OBVIOUS
<1> QED BY <1>4, <1>5, <1>6 DEF Conserved

LEMMA CallConserves ==
  ASSUME TypeOK, Conserved, NEW t \in Threads, Call(t),
         UNCHANGED <<inserted, data_queue>>
  PROVE  Conserved'
<1>1. PICK u \in Threads : u # t /\ Threads = {t, u}
  BY DEF Threads
<1>2. /\ Len(delivered') = Len(delivered) + Len(held[t])
      /\ held'[t] = <<>> /\ held'[u] = held[u]
      /\ Elements(delivered') = Elements(delivered) \cup Elements(held[t])
  BY <1>1, Called
<1>3. \/ t = "main" /\ u = "subscriber"
      \/ t = "subscriber" /\ u = "main"
  BY <1>1 DEF Threads
<1>4. Elements(held'[t]) = {} /\ Len(held'[t]) = 0
  BY <1>2, ElementsOfEmpty
<1>5. Elements(data_queue') \cup Elements(held'["main"])
        \cup Elements(held'["subscriber"]) \cup Elements(delivered')
      = Elements(data_queue) \cup Elements(held["main"])
          \cup Elements(held["subscriber"]) \cup Elements(delivered)
  BY <1>2, <1>3, <1>4
<1>6. Len(data_queue') + Len(held'["main"]) + Len(held'["subscriber"])
        + Len(delivered') = inserted'
  <2> DEFINE q == Len(data_queue)  m == Len(held["main"])
             s == Len(held["subscriber"])  d == Len(delivered)
             q1 == Len(data_queue')  m1 == Len(held'["main"])
             s1 == Len(held'["subscriber"])  d1 == Len(delivered')
  <2>1. q \in Nat /\ m \in Nat /\ s \in Nat /\ d \in Nat
    BY Lengths
  <2>2. q + m + s + d = inserted
    BY DEF Conserved
  <2>3. q1 = q
    OBVIOUS
  <2>4. \/ d1 = d + m /\ m1 = 0 /\ s1 = s
        \/ d1 = d + s /\ s1 = 0 /\ m1 = m
    BY <1>2, <1>3, <1>4
  <2> HIDE DEF q, m, s, d, q1, m1, s1, d1
  <2>5. q1 + m1 + s1 + d1 = inserted'
    BY <2>1, <2>2, <2>3, <2>4
  <2> QED BY <2>5 DEF q1, m1, s1, d1
<1>7. inserted' = inserted
  OBVIOUS
<1> QED BY <1>5, <1>6, <1>7 DEF Conserved

LEMMA ConservedStep == ASSUME TypeOK, Conserved, [Next]_vars PROVE Conserved'
<1>1. CASE InsertRow
  <2>1. /\ inserted \in Nat /\ inserted' = inserted + 1
        /\ data_queue' = Append(data_queue, inserted + 1)
        /\ UNCHANGED <<held, delivered>>
        /\ inserted + 1 \in Rows /\ data_queue \in Seq(Rows)
    BY <1>1, SubscriberAssumption DEF InsertRow, TypeOK, Rows
  <2>2. /\ Len(data_queue') = Len(data_queue) + 1
        /\ Elements(data_queue') = Elements(data_queue) \cup {inserted + 1}
    BY <2>1, ElementsOfAppend
  <2>3. 1..inserted' = (1..inserted) \cup {inserted + 1}
    BY <2>1
  <2>4. Len(data_queue') + Len(held'["main"]) + Len(held'["subscriber"])
          + Len(delivered') = inserted'
    <3> DEFINE q == Len(data_queue)  m == Len(held["main"])
               s == Len(held["subscriber"])  d == Len(delivered)
               q1 == Len(data_queue')  m1 == Len(held'["main"])
               s1 == Len(held'["subscriber"])  d1 == Len(delivered')
    <3>1. q \in Nat /\ m \in Nat /\ s \in Nat /\ d \in Nat
      BY Lengths
    <3>2. q + m + s + d = inserted
      BY DEF Conserved
    <3>3. q1 = q + 1 /\ m1 = m /\ s1 = s /\ d1 = d
      BY <2>1, <2>2
    <3> HIDE DEF q, m, s, d, q1, m1, s1, d1
    <3>4. q1 + m1 + s1 + d1 = inserted'
      BY <2>1, <3>1, <3>2, <3>3
    <3> QED BY <3>4 DEF q1, m1, s1, d1
  <2>5. Elements(data_queue') \cup Elements(held'["main"])
          \cup Elements(held'["subscriber"]) \cup Elements(delivered')
        = 1..inserted'
    BY <2>1, <2>2, <2>3 DEF Conserved
  <2> QED BY <2>4, <2>5 DEF Conserved
<1>2. CASE DrainByMain
  BY <1>2, GetConserves DEF DrainByMain, Threads
<1>3. CASE Drain
  BY <1>3, GetConserves DEF Drain, Threads
<1>4. CASE DoneCallback
  BY <1>4, CallConserves DEF DoneCallback, Threads, fields
<1>5. CASE Callback
  BY <1>5, CallConserves DEF Callback, Threads, fields
<1>6. ASSUME UNCHANGED <<inserted, data_queue, held, delivered>>
      PROVE  Conserved'
  BY <1>6 DEF Conserved
<1> QED
  BY <1>1, <1>2, <1>3, <1>4, <1>5, <1>6
     DEF Next, MainStep, SubscriberStep, CountRow, ReadQueueLength, CountQueue,
         MarkCompleted, ScheduleStop, SetCompleted, Join, Poll, Emptied,
         ResetQueueLength, CheckCompleted, vars, fields

-----------------------------------------------------------------------------
(* The order of delivery, and what is told with it.                        *)

(* A run that is being completed or has a callback that raised stays so.   *)
LEMMA Disturbed ==
  ASSUME TypeOK, Next, Undisturbed'
  PROVE  Undisturbed /\ ~MarkCompleted /\ ~SetCompleted /\ ~DoneCallback
         /\ ~DrainByMain
<1>1. ~MarkCompleted /\ ~SetCompleted /\ ~DrainByMain
  BY DEF Undisturbed, MarkCompleted, SetCompleted, DrainByMain
<1>2. ~DoneCallback
  BY DEF Undisturbed, DoneCallback, Raise, TypeOK
<1>3. raises = 0
  <2>1. raises' = raises \/ raises' = raises + 1
    BY DEF Next, InsertRow, MarkCompleted, ScheduleStop, MainStep, CountRow,
           ReadQueueLength, CountQueue, DrainByMain, DoneCallback, SetCompleted,
           Join, SubscriberStep, Poll, Drain, Emptied, Callback, Raise,
           ResetQueueLength, CheckCompleted
  <2> QED BY <2>1 DEF Undisturbed, TypeOK
<1>4. ~completed
  BY <1>1 DEF Undisturbed, Next, InsertRow, MarkCompleted, ScheduleStop, MainStep,
           CountRow, ReadQueueLength, CountQueue, DrainByMain, DoneCallback,
           Join, SubscriberStep, Poll, Drain, Emptied, Callback, Raise,
           ResetQueueLength, CheckCompleted
<1>5. main \notin {"drain", "mark"}
  <2>1. CASE InsertRow \/ CountRow \/ ReadQueueLength \/ CountQueue
              \/ ScheduleStop \/ Join
    BY <2>1 DEF InsertRow, CountRow, ReadQueueLength, CountQueue, ScheduleStop, Join
  <2>2. CASE SubscriberStep
    BY <2>2 DEF Undisturbed, SubscriberStep, Poll, Drain, Emptied, Callback,
                ResetQueueLength, CheckCompleted
  <2> QED BY <1>1, <1>2, <2>1, <2>2 DEF Next, MainStep
<1> QED BY <1>1, <1>2, <1>3, <1>4, <1>5 DEF Undisturbed

LEMMA InOrderStep ==
  ASSUME TypeOK, Conserved, InOrder, Next PROVE InOrder'
<1> SUFFICES ASSUME Undisturbed' PROVE InOrder'
  BY DEF InOrder
<1> DEFINE q == Len(data_queue)  s == Len(held["subscriber"])
           d == Len(delivered)
<1>1. Undisturbed /\ ~MarkCompleted /\ ~SetCompleted /\ ~DoneCallback
      /\ ~DrainByMain
  BY Disturbed
<1>2. /\ held["main"] = <<>>
      /\ \A i \in 1..d : delivered[i] = i
      /\ \A i \in 1..s : held["subscriber"][i] = d + i
      /\ \A i \in 1..q : data_queue[i] = d + s + i
  BY <1>1 DEF InOrder
<1>3. /\ q \in Nat /\ s \in Nat /\ d \in Nat
      /\ data_queue \in Seq(Rows) /\ "subscriber" \in Threads
      /\ "main" \in Threads
  BY Lengths DEF TypeOK
<1>4. inserted = d + s + q
  <2> DEFINE m == Len(held["main"])
  <2>1. q + m + s + d = inserted
    BY DEF Conserved
  <2>2. m = 0
    BY <1>2
  <2> HIDE DEF q, s, d, m
  <2> QED BY <1>3, <2>1, <2>2
<1>5. CASE InsertRow
  <2>1. /\ data_queue' = Append(data_queue, inserted + 1)
        /\ held' = held /\ delivered' = delivered
        /\ inserted + 1 \in Rows
    BY <1>5, SubscriberAssumption DEF InsertRow, TypeOK, Rows
  <2>2. /\ Len(data_queue') = q + 1
        /\ \A i \in 1..q : data_queue'[i] = data_queue[i]
        /\ data_queue'[q + 1] = inserted + 1
    BY <1>3, <2>1
  <2> HIDE DEF q, s, d
  <2>3. \A i \in 1..(q + 1) : data_queue'[i] = d + s + i
    <3> TAKE i \in 1..(q + 1)
    <3>1. CASE i \in 1..q
      BY <1>2, <2>2, <3>1
    <3>2. CASE i = q + 1
      BY <1>3, <1>4, <2>2, <3>2
    <3> QED BY <1>3, <3>1, <3>2
  <2> QED BY <1>2, <2>1, <2>2, <2>3 DEF InOrder, s, d
<1>6. CASE Drain
  <2>1. Get("subscriber") /\ delivered' = delivered
    BY <1>6 DEF Drain
  <2> DEFINE q1 == Len(data_queue')  s1 == Len(held'["subscriber"])
  <2>2. /\ q >= 1 /\ q1 = q - 1 /\ s1 = s + 1
        /\ \A i \in 1..q1 : data_queue'[i] = data_queue[i + 1]
        /\ \A i \in 1..s : held'["subscriber"][i] = held["subscriber"][i]
        /\ held'["subscriber"][s + 1] = data_queue[1]
        /\ held'["main"] = held["main"]
    BY <1>3, <2>1, Got
  <2> HIDE DEF q, s, d, q1, s1
  <2>3. \A i \in 1..s1 : held'["subscriber"][i] = d + i
    <3> TAKE i \in 1..s1
    <3>1. CASE i \in 1..s
      BY <1>2, <2>2, <3>1
    <3>2. CASE i = s + 1
      <4>1. 1 \in 1..q /\ d + s + 1 = d + i
        BY <1>3, <2>2, <3>2
      <4> QED BY <1>2, <2>2, <3>2, <4>1
    <3> QED BY <1>3, <2>2, <3>1, <3>2
  <2>4. \A i \in 1..q1 : data_queue'[i] = d + s1 + i
    <3> TAKE i \in 1..q1
    <3>1. i + 1 \in 1..q /\ d + s + (i + 1) = d + s1 + i
      BY <1>3, <2>2
    <3> QED BY <1>2, <2>2, <3>1
  <2> QED BY <1>2, <2>1, <2>2, <2>3, <2>4 DEF InOrder, q1, s1, d
<1>7. CASE Callback
  <2>1. Call("subscriber") /\ data_queue' = data_queue
    BY <1>7 DEF Callback, fields
  <2> DEFINE d1 == Len(delivered')  s1 == Len(held'["subscriber"])
  <2>2. /\ held'["subscriber"] = <<>> /\ held'["main"] = held["main"]
        /\ d1 = d + s
        /\ \A i \in 1..d1 :
             delivered'[i] = IF i <= d THEN delivered[i]
                               ELSE held["subscriber"][i - d]
    BY <1>3, <2>1, Called
  <2>3. s1 = 0
    BY <2>2
  <2> HIDE DEF q, s, d, d1, s1
  <2>4. \A i \in 1..d1 : delivered'[i] = i
    <3> TAKE i \in 1..d1
    <3>1. CASE i <= d
      BY <1>2, <1>3, <2>2, <3>1
    <3>2. CASE ~(i <= d)
      <4>1. i - d \in 1..s /\ d + (i - d) = i
        BY <1>3, <2>2, <3>2
      <4> QED BY <1>2, <2>2, <3>2, <4>1
    <3> QED BY <3>1, <3>2
  <2>5. \A i \in 1..q : data_queue'[i] = d1 + s1 + i
    <3> TAKE i \in 1..q
    <3>1. d1 + s1 + i = d + s + i
      BY <1>3, <2>2, <2>3
    <3> QED BY <1>2, <2>1, <3>1
  <2>6. \A i \in 1..s1 : held'["subscriber"][i] = d1 + i
    BY <2>3
  <2> QED BY <1>2, <2>1, <2>2, <2>4, <2>5, <2>6 DEF InOrder, q, d1, s1
<1>8. ASSUME UNCHANGED <<data_queue, held, delivered>> PROVE InOrder'
  BY <1>1, <1>8 DEF InOrder
<1> QED
  BY <1>1, <1>5, <1>6, <1>7, <1>8
     DEF Next, MainStep, SubscriberStep, CountRow, ReadQueueLength, CountQueue,
         ScheduleStop, Join, Poll, Emptied, ResetQueueLength, CheckCompleted,
         fields

(* The callback is told of all rows but the one that is being inserted.    *)
LEMMA ToldStep ==
  ASSUME TypeOK, Counts, Conserved, Told, Next PROVE Told'
<1>1. ASSUME NEW t \in Threads, Call(t) PROVE Told'
  <2> DEFINE q == Len(data_queue)  m == Len(held["main"])
             s == Len(held["subscriber"])  d == Len(delivered)
             d1 == Len(delivered')
  <2>1. q \in Nat /\ m \in Nat /\ s \in Nat /\ d \in Nat
    BY Lengths
  <2>2. q + m + s + d = inserted
    BY DEF Conserved
  <2>3. d1 = d + m \/ d1 = d + s
    BY <1>1, Called DEF Threads
  <2>4. reported' = data_set_len /\ inserted <= data_set_len + 1
        /\ data_set_len \in Int /\ inserted \in Int
    BY <1>1 DEF Call, Counts, TypeOK
  <2> HIDE DEF q, m, s, d, d1
  <2>5. d1 <= reported' + 1
    BY <2>1, <2>2, <2>3, <2>4
  <2> QED BY <2>5 DEF d1, Told
<1>2. ASSUME UNCHANGED <<delivered, reported>> PROVE Told'
  BY <1>2 DEF Told
<1> QED
  BY <1>1, <1>2
     DEF Next, InsertRow, MarkCompleted, ScheduleStop, MainStep, CountRow,
         ReadQueueLength, CountQueue, DrainByMain, DoneCallback, SetCompleted,
         Join, SubscriberStep, Poll, Drain, Emptied, Callback,
         ResetQueueLength, CheckCompleted, Threads

LEMMA GoneStep == ASSUME TypeOK, GoneIsEnded, Next PROVE GoneIsEnded'
BY DEF GoneIsEnded, Next, InsertRow, MarkCompleted, ScheduleStop, MainStep,
       CountRow, ReadQueueLength, CountQueue, DrainByMain, DoneCallback,
       SetCompleted, Join, Joined, SubscriberStep, Poll, Drain, Emptied,
       Callback, ResetQueueLength, CheckCompleted

-----------------------------------------------------------------------------
(* The invariant, and what it gives.                                       *)

LEMMA InitHolds == ASSUME Init PROVE IInv
<1>1. InOrder
  <2>1. Len(<<>>) = 0 /\ \A t \in Threads : held[t] = <<>>
    BY DEF Init
  <2> QED BY <2>1 DEF Init, InOrder, Threads
<1>2. Told /\ GoneIsEnded
  BY DEF Init, Told, GoneIsEnded
<1> QED BY <1>1, <1>2, InitCounts, InitConserved, ConservedIs DEF IInv

LEMMA Inductive == ASSUME IInv, [Next]_vars PROVE IInv'
<1>1. RowsConserved' <=> Conserved'
  BY DEF RowsConserved, Conserved
<1>2. TypeOK /\ Counts /\ Conserved /\ InOrder /\ Told /\ GoneIsEnded
  BY ConservedIs DEF IInv
<1>3. Conserved'
  BY <1>2, ConservedStep
<1>4. CASE Next
  BY <1>1, <1>2, <1>3, <1>4, CountsStep, InOrderStep, ToldStep, GoneStep
     DEF IInv
<1>5. CASE UNCHANGED vars
  <2>1. TypeOK' /\ Counts' /\ GoneIsEnded' /\ Told'
    BY <1>2, <1>5 DEF TypeOK, Counts, Inserting, Told, GoneIsEnded, vars, fields
  <2>2. InOrder'
    BY <1>2, <1>5 DEF InOrder, Undisturbed, vars, fields
  <2> QED BY <1>1, <1>3, <2>1, <2>2 DEF IInv
<1> QED BY <1>4, <1>5

(* What is known of every state the two threads reach.                     *)
THEOREM Invariance == Spec => []IInv
<1>1. Init => IInv
  BY InitHolds
<1>2. IInv /\ [Next]_vars => IInv'
  BY Inductive
<1> QED BY <1>1, <1>2, PTL DEF Spec

(* The counters and queues that the two threads share keep their types,    *)
(* although _queue_length is read and written in two steps.                *)
THEOREM TypeCorrect == Spec => []TypeOK
<1>1. IInv => TypeOK
  BY DEF IInv
<1> QED BY <1>1, Invariance, PTL

(* For any number of rows, any min_count and any callback that raises,     *)
(* with the main thread and the subscriber thread draining one queue:      *)
(* every row is in exactly one place, and so reaches a callback once at    *)
(* most and is never lost.                                                 *)
THEOREM NoneLostNorDoubled == Spec => []RowsConserved
<1>1. IInv => RowsConserved
  BY DEF IInv
<1> QED BY <1>1, Invariance, PTL

(* Rows arrive in the order of their insertion until mark_completed lets   *)
(* the main thread drain the queue too, and the length told with them is   *)
(* short of them by one at most.                                           *)
THEOREM InOrderUntilCompleted == Spec => []DeliveredInOrder
<1>1. IInv => DeliveredInOrder
  BY DEF IInv, InOrder, Undisturbed, Told, DeliveredInOrder
<1> QED BY <1>1, Invariance, PTL

(* Once unsubscribe has returned, neither thread calls the callback.       *)
THEOREM SilentAfterUnsubscribe == Spec => SilentOnceUnsubscribed
<1>1. ASSUME IInv, [Next]_vars, main = "gone"
      PROVE  UNCHANGED <<delivered, reported, raises>>
  BY <1>1 DEF IInv, GoneIsEnded, Next, InsertRow, MarkCompleted, ScheduleStop,
              MainStep, CountRow, ReadQueueLength, CountQueue, DrainByMain,
              DoneCallback, SetCompleted, Join, SubscriberStep, Poll, Drain,
              Emptied, Callback, ResetQueueLength, CheckCompleted, vars
<1>2. IInv /\ [Next]_vars =>
        [main = "gone" => UNCHANGED <<delivered, reported, raises>>]_vars
  BY <1>1
<1> QED BY <1>2, Invariance, PTL DEF Spec, SilentOnceUnsubscribed

=============================================================================
