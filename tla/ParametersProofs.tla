-------------------------- MODULE ParametersProofs --------------------------
(* Theorems about Parameters, for any instruments, parameters and groups,  *)
(* any sequences to measure and any bounds.                                *)
EXTENDS Parameters, TLAPS, SequenceTheorems, WellFoundedInduction

(* A delegate is bound to the instrument that its source is part of.       *)
DelegatesAtHome == \A p \in Parameter : root_instrument[source[p]] = root_instrument[p]

Calling == {"collect", "raise"}
Setters == {"update", "cache_update", "write", "cache_write"}
Active == {"ready", "running", "asked", "stored"}
Entry == [at : Positions, param : Parameter, value : Nat]
Values == UNION {[S -> Nat] : S \in SUBSET Register}
Lists == Measured \union {<<>>}
ThreadType == [state : Active \union {"none", "done", "failed"},
               params : Lists, todo : SUBSET Positions,
               answer : Values, output : Seq(Entry)]

DeviceTypes ==
  /\ device \in [Register -> Nat]
  /\ cache \in [Register -> Nat \union {Unknown}]
  /\ doubted \subseteq Register
  /\ seen \in [Register -> SUBSET Nat]
MainTypes ==
  /\ main \in {"idle"} \union Calling \union Setters
  /\ op \in [param : Register \union {""}, target : Nat,
             at : Nat \union {Unknown}]
  /\ held \in Values
CallTypes ==
  /\ call \in 0..MaxCalls /\ caller \in Caller /\ meas \in Lists
  /\ collected \subseteq Executor
  /\ output \in Seq(Entry) /\ returned \in Seq(Entry)
  /\ stray \in BOOLEAN
  /\ knobs \in 0..MaxKnobs /\ failures \in 0..MaxFailures
TypeOK == /\ DeviceTypes /\ MainTypes /\ CallTypes
          /\ thread \in [Executor -> ThreadType]

(* A thread that has not ended has a parameter to get, and an answer for   *)
(* all of its group while that is on the way.                              *)
ThreadReady(x) ==
  /\ thread[x].state \in Active =>
       thread[x].todo \subseteq DOMAIN thread[x].params /\ thread[x].todo # {}
  /\ IF thread[x].state \in {"asked", "stored"}
       THEN DOMAIN thread[x].answer = group[source[Current(x)]]
       ELSE DOMAIN thread[x].answer = {}
  /\ thread[x].state = "stored" =>
       \A q \in DOMAIN thread[x].answer : cache[q] # Unknown

(* What a command is made of is known when it is sent.                     *)
SetReady ==
  /\ main \in Setters => op.param \in Register
  /\ IF main \in {"cache_update", "cache_write"}
       THEN DOMAIN held = group[op.param]
       ELSE DOMAIN held = {}
  /\ main \in {"write", "cache_write"} =>
       /\ group[op.param] # {op.param} =>
            \A q \in group[op.param] : cache[q] # Unknown
       /\ op.param \in ramped => op.at # Unknown

TypeInv == TypeOK /\ (\A x \in Executor : ThreadReady(x)) /\ SetReady

(* Threads are those of the call in progress, and exist only during one.   *)
Alone ==
  /\ main \notin Calling =>
       collected = {} /\ output = <<>> /\ \A x \in Executor : thread[x].state = "none"
  /\ main \in Calling =>
       meas \in Measured /\ returned = <<>> /\ call \in 1..MaxCalls
  /\ \A x \in collected : thread[x].state = "done"
  /\ \A x \in Executor : thread[x].state # "none" => x[1] = call

(* Each has its share of what is measured, and none is missing.            *)
Shares ==
  /\ \A x \in Executor : thread[x].state # "none" =>
       /\ x[2] \in Executors(caller, meas)
       /\ thread[x].params = meas
       /\ thread[x].todo \subseteq Share(caller, meas, x[2])
  /\ main \in Calling =>
       \A i \in Executors(caller, meas) : thread[<<call, i>>].state # "none"

(* A value on its way is that of the instrument, unless that is doubted.   *)
TrueValue(values, q) == values[q] = device[q] \/ q \in doubted
FluxTrue ==
  /\ \A x \in Executor : \A q \in DOMAIN thread[x].answer :
       /\ TrueValue(thread[x].answer, q)
       /\ thread[x].state = "stored" => cache[q] = thread[x].answer[q]
  /\ \A q \in DOMAIN held : TrueValue(held, q)
  /\ main = "write" /\ op.param \in ramped => op.at = cache[op.param]
CacheHolds(r) ==
  cache[r] \in {Unknown, device[r]} \/ r \in doubted \/ InFlux(r)

(* out has one entry for each of the positions in places, with a value     *)
(* that the register had.                                                  *)
Tells(out, places, m, had) ==
  /\ \A i \in places : \E j \in DOMAIN out : out[j].at = i
  /\ \A j, k \in DOMAIN out : out[j].at = out[k].at => j = k
  /\ \A j \in DOMAIN out :
       /\ out[j].at \in places
       /\ out[j].param = m[out[j].at]
       /\ out[j].value \in had[source[out[j].param]]

Covered == UNION {Share(caller, meas, x[2]) : x \in collected}
SeenAll ==
  /\ main \in Calling => \A r \in Register : device[r] \in seen[r]
  /\ \A x \in Executor : \A q \in DOMAIN thread[x].answer :
       thread[x].answer[q] \in seen[q]
Told ==
  /\ \A x \in Executor : thread[x].state # "none" =>
       Tells(thread[x].output, Share(caller, meas, x[2]) \ thread[x].todo,
             meas, seen)
  /\ \A x \in Executor : thread[x].state = "done" => thread[x].todo = {}
  /\ main \in Calling => Tells(output, Covered, meas, seen)
  /\ returned # <<>> =>
       main = "idle" /\ Tells(returned, DOMAIN meas, meas, seen)

CallInv == ~ stray => Alone /\ Shares
FluxInv == ~ stray => FluxTrue /\ \A r \in Register : CacheHolds(r)
ToldInv == ~ stray => SeenAll /\ Told

-----------------------------------------------------------------------------
(* Helpers.                                                                *)

LEMMA LeastOf ==
  ASSUME NEW S \in SUBSET Nat, S # {}
  PROVE  \E m \in S : \A n \in S : m <= n
<1> DEFINE less == OpToRel(<, Nat)
<1>1. \A x, y \in Nat : <<y, x>> \in less <=> y < x
  BY DEF OpToRel
<1>2. IsWellFoundedOn(less, Nat)
  BY NatLessThanWellFounded
<1> HIDE DEF less
<1>3. PICK m \in S : \A n \in S : ~ (<<n, m>> \in less)
  BY <1>2, WFMin
<1>4. \A n \in S : n \in Nat /\ m \in Nat /\ ~ (n < m)
  BY <1>1, <1>3
<1>5. \A n \in S : m <= n
  BY <1>4
<1> QED
  BY <1>5

LEMMA PositionsAreNat == Positions \subseteq Nat
<1> SUFFICES ASSUME NEW m \in Measured PROVE DOMAIN m \subseteq Nat
  BY DEF Positions
<1>1. m \in Seq(Parameter)
  BY ParametersAssumption
<1> QED
  BY <1>1

(* What the assumptions say of registers and groups.                       *)
LEMMA Registers ==
  /\ \A p \in Parameter : source[p] \in Register
  /\ \A r \in Register : r \in Parameter /\ source[r] = r
  /\ \A r \in Register : r \in group[r] /\ group[r] \subseteq Register
  /\ \A r \in Register : \A q \in group[r] :
       group[q] = group[r] /\ root_instrument[q] = root_instrument[r]
BY ParametersAssumption DEF Register

LEMMA ListOf ==
  ASSUME NEW m \in Measured
  PROVE  /\ \A i \in DOMAIN m : m[i] \in Parameter /\ i \in Positions /\ i \in Nat
         /\ 1 \in DOMAIN m /\ DOMAIN m = 1..Len(m) /\ Len(m) \in Nat
<1>1. m \in Seq(Parameter) /\ m # <<>>
  BY ParametersAssumption
<1>2. DOMAIN m \subseteq Positions
  BY DEF Positions
<1> QED
  BY <1>1, <1>2

(* The parameter that a thread is to get, or is getting.                   *)
LEMMA CurrentIs ==
  ASSUME TypeOK, NEW x \in Executor, ThreadReady(x), thread[x].state \in Active
  PROVE  /\ thread[x].params \in Measured
         /\ Place(x) \in thread[x].todo /\ Place(x) \in DOMAIN thread[x].params
         /\ Current(x) \in Parameter /\ source[Current(x)] \in Register
<1>1. thread[x] \in ThreadType
  BY DEF TypeOK
<1>2. /\ thread[x].todo \subseteq DOMAIN thread[x].params
      /\ thread[x].todo # {} /\ thread[x].todo \in SUBSET Nat
      /\ thread[x].params \in Lists
  BY <1>1, PositionsAreNat DEF ThreadReady, ThreadType
<1>3. thread[x].params \in Measured
  BY <1>2 DEF Lists
<1>4. \E i \in thread[x].todo : \A j \in thread[x].todo : i <= j
  BY <1>2, LeastOf
<1>5. Place(x) \in thread[x].todo
  BY <1>4 DEF Place
<1>6. Current(x) \in Parameter
  BY <1>2, <1>3, <1>5, ListOf DEF Current
<1> QED
  BY <1>2, <1>3, <1>5, <1>6, Registers

(* Maps from registers to values.                                          *)
LEMMA ValuesAre ==
  /\ \A v : v \in Values <=>
       /\ v = [q \in DOMAIN v |-> v[q]] /\ DOMAIN v \subseteq Register
       /\ \A q \in DOMAIN v : v[q] \in Nat
  /\ NoAnswer \in Values /\ DOMAIN NoAnswer = {}
<1>1. ASSUME NEW v, v \in Values
      PROVE  /\ v = [q \in DOMAIN v |-> v[q]] /\ DOMAIN v \subseteq Register
             /\ \A q \in DOMAIN v : v[q] \in Nat
  BY <1>1 DEF Values
<1>2. ASSUME NEW v, v = [q \in DOMAIN v |-> v[q]], DOMAIN v \subseteq Register,
             \A q \in DOMAIN v : v[q] \in Nat
      PROVE  v \in Values
  <2>1. v \in [DOMAIN v -> Nat]
    BY <1>2
  <2> QED
    BY <1>2, <2>1 DEF Values
<1>3. NoAnswer \in [{} -> Nat] /\ DOMAIN NoAnswer = {}
  BY DEF NoAnswer
<1> QED
  BY <1>1, <1>2, <1>3 DEF Values

LEMMA AnswerIs ==
  ASSUME TypeOK, NEW r \in Register
  PROVE  /\ Answer(r) \in Values /\ DOMAIN Answer(r) = group[r]
         /\ \A q \in group[r] : Answer(r)[q] = device[q]
<1>1. /\ DOMAIN Answer(r) = group[r] /\ group[r] \subseteq Register
      /\ \A q \in group[r] : Answer(r)[q] = device[q] /\ device[q] \in Nat
      /\ Answer(r) = [q \in DOMAIN Answer(r) |-> Answer(r)[q]]
  BY Registers DEF Answer, TypeOK, DeviceTypes
<1> QED
  BY <1>1, ValuesAre

LEMMA StoredIs ==
  ASSUME TypeOK, NEW v \in Values
  PROVE  /\ Stored(v) \in [Register -> Nat \union {Unknown}]
         /\ \A q \in Register : q \in DOMAIN v => Stored(v)[q] = v[q] /\ v[q] \in Nat
         /\ \A q \in Register : q \notin DOMAIN v => Stored(v)[q] = cache[q]
<1>1. \A q \in DOMAIN v : v[q] \in Nat
  BY ValuesAre
<1> QED
  BY <1>1 DEF Stored, TypeOK, DeviceTypes

-----------------------------------------------------------------------------
(* What the steps of a thread do to it.                                    *)

OnlyThread(x) ==
  /\ thread' \in [Executor -> ThreadType]
  /\ \A y \in Executor : y # x => thread'[y] = thread[y]

LEMMA SamePlace ==
  ASSUME NEW x \in Executor, thread'[x].todo = thread[x].todo,
         thread'[x].params = thread[x].params
  PROVE  Place(x)' = Place(x) /\ Current(x)' = Current(x)
<1>1. Place(x)' = Place(x)
  BY Zenon DEF Place
<1> QED
  BY <1>1, Zenon DEF Current

LEMMA StartDoes ==
  ASSUME TypeOK, NEW x \in Executor, Start(x)
  PROVE  /\ OnlyThread(x) /\ thread[x].state = "ready"
         /\ thread'[x].state = "running"
         /\ thread'[x].params = thread[x].params
         /\ thread'[x].todo = thread[x].todo
         /\ thread'[x].answer = thread[x].answer
         /\ thread'[x].output = thread[x].output
<1>1. thread \in [Executor -> ThreadType] /\ thread[x] \in ThreadType
  BY DEF TypeOK
<1>2. /\ thread' = [thread EXCEPT ![x] = [thread[x] EXCEPT !.state = "running"]]
      /\ thread[x].state = "ready"
  BY DEF Start
<1> DEFINE t == [thread[x] EXCEPT !.state = "running"]
<1>3. /\ t \in ThreadType /\ t.state = "running" /\ t.params = thread[x].params
      /\ t.todo = thread[x].todo /\ t.answer = thread[x].answer
      /\ t.output = thread[x].output
  BY <1>1 DEF ThreadType, Active
<1> HIDE DEF t
<1>4. thread' = [thread EXCEPT ![x] = t]
  BY <1>2 DEF t
<1>5. thread'[x] = t
  BY <1>1, <1>4
<1>6. OnlyThread(x)
  BY <1>1, <1>3, <1>4 DEF OnlyThread
<1> QED
  BY <1>2, <1>3, <1>5, <1>6

LEMMA AskDoes ==
  ASSUME TypeOK, NEW x \in Executor, ThreadReady(x), Ask(x)
  PROVE  /\ OnlyThread(x) /\ thread[x].state = "running"
         /\ source[Current(x)] \in Register
         /\ thread'[x].params = thread[x].params
         /\ thread'[x].todo = thread[x].todo
         /\ thread'[x].output = thread[x].output
         /\ \/ /\ thread'[x].state = "asked"
               /\ thread'[x].answer = Answer(source[Current(x)])
               /\ doubted' = doubted \ group[source[Current(x)]]
               /\ failures' = failures
            \/ /\ thread'[x].state = "failed"
               /\ thread'[x].answer = thread[x].answer
               /\ doubted' = doubted
               /\ failures' \in 0..MaxFailures
<1> DEFINE r == source[Current(x)]
<1>1. /\ thread \in [Executor -> ThreadType] /\ thread[x] \in ThreadType
      /\ failures \in 0..MaxFailures /\ MaxFailures \in Nat
  BY ParametersAssumption DEF TypeOK, CallTypes
<1>2. thread[x].state = "running"
  BY DEF Ask
<1>3. r \in Register
  BY <1>2, CurrentIs DEF Active
<1>4. Answer(r) \in Values
  BY <1>3, AnswerIs
<1> HIDE DEF r
<1>5. \/ /\ thread' = [thread EXCEPT ![x].state = "asked", ![x].answer = Answer(r)]
         /\ doubted' = doubted \ group[r]
         /\ failures' = failures
      \/ /\ Fails
         /\ thread' = [thread EXCEPT ![x].state = "failed"]
         /\ doubted' = doubted
  BY DEF Ask, r
<1>6. CASE /\ thread' = [thread EXCEPT ![x].state = "asked", ![x].answer = Answer(r)]
           /\ doubted' = doubted \ group[r]
           /\ failures' = failures
  <2> DEFINE v == Answer(r)
  <2> DEFINE t == [thread[x] EXCEPT !.state = "asked", !.answer = v]
  <2> HIDE DEF v
  <2>1. /\ t \in ThreadType /\ t.state = "asked" /\ t.params = thread[x].params
        /\ t.todo = thread[x].todo /\ t.answer = v
        /\ t.output = thread[x].output
    BY <1>1, <1>4 DEF ThreadType, Active, v
  <2>2. thread' = [thread EXCEPT ![x] = t]
    BY <1>1, <1>6 DEF v
  <2> HIDE DEF t
  <2>3. thread'[x] = t
    BY <1>1, <2>2
  <2>4. OnlyThread(x)
    BY <1>1, <2>1, <2>2 DEF OnlyThread
  <2> QED
    BY <1>2, <1>3, <1>6, <2>1, <2>3, <2>4 DEF v, r
<1>7. CASE /\ Fails
           /\ thread' = [thread EXCEPT ![x].state = "failed"]
           /\ doubted' = doubted
  <2> DEFINE t == [thread[x] EXCEPT !.state = "failed"]
  <2>1. /\ t \in ThreadType /\ t.state = "failed" /\ t.params = thread[x].params
        /\ t.todo = thread[x].todo /\ t.answer = thread[x].answer
        /\ t.output = thread[x].output
    BY <1>1 DEF ThreadType, Active
  <2>2. thread' = [thread EXCEPT ![x] = t]
    BY <1>7
  <2> HIDE DEF t
  <2>3. thread'[x] = t
    BY <1>1, <2>2
  <2>4. OnlyThread(x)
    BY <1>1, <2>1, <2>2 DEF OnlyThread
  <2>5. failures' \in 0..MaxFailures
    BY <1>1, <1>7 DEF Fails
  <2> QED
    BY <1>2, <1>3, <1>7, <2>1, <2>3, <2>4, <2>5 DEF r
<1> QED
  BY <1>5, <1>6, <1>7

LEMMA CacheAnswerDoes ==
  ASSUME TypeOK, NEW x \in Executor, CacheAnswer(x)
  PROVE  /\ OnlyThread(x) /\ thread[x].state = "asked"
         /\ cache' = Stored(thread[x].answer) /\ thread[x].answer \in Values
         /\ thread'[x].state = "stored"
         /\ thread'[x].params = thread[x].params
         /\ thread'[x].todo = thread[x].todo
         /\ thread'[x].answer = thread[x].answer
         /\ thread'[x].output = thread[x].output
<1>1. thread \in [Executor -> ThreadType] /\ thread[x] \in ThreadType
  BY DEF TypeOK
<1> DEFINE t == [thread[x] EXCEPT !.state = "stored"]
<1>2. /\ thread' = [thread EXCEPT ![x] = t] /\ cache' = Stored(thread[x].answer)
      /\ thread[x].state = "asked"
  BY <1>1 DEF CacheAnswer
<1>3. /\ t \in ThreadType /\ t.state = "stored" /\ t.params = thread[x].params
      /\ t.todo = thread[x].todo /\ t.answer = thread[x].answer
      /\ t.output = thread[x].output
  BY <1>1 DEF ThreadType, Active
<1> HIDE DEF t
<1>4. thread'[x] = t
  BY <1>1, <1>2
<1>5. OnlyThread(x)
  BY <1>1, <1>2, <1>3 DEF OnlyThread
<1>6. thread[x].answer \in Values
  BY <1>1 DEF ThreadType
<1> QED
  BY <1>2, <1>3, <1>4, <1>5, <1>6

(* The value that is delivered is known, and is the cached one of a group. *)
Delivered(x) == IF group[source[Current(x)]] # {source[Current(x)]}
                  THEN cache[source[Current(x)]]
                  ELSE thread[x].answer[source[Current(x)]]
Remaining(x) == thread[x].todo \ {Place(x)}

LEMMA DeliverDoes ==
  ASSUME TypeOK, NEW x \in Executor, ThreadReady(x), Deliver(x)
  PROVE  /\ OnlyThread(x) /\ thread[x].state = "stored"
         /\ source[Current(x)] \in Register
         /\ Delivered(x) \in Nat
         /\ cache' = [cache EXCEPT ![source[Current(x)]] = Delivered(x)]
         /\ thread'[x].state =
              IF Remaining(x) = {} THEN "done" ELSE "running"
         /\ thread'[x].params = thread[x].params
         /\ thread'[x].todo = Remaining(x)
         /\ DOMAIN thread'[x].answer = {}
         /\ thread'[x].output =
              Append(thread[x].output, [at |-> Place(x), param |-> Current(x),
                                        value |-> Delivered(x)])
<1> DEFINE r == source[Current(x)]
<1>1. thread \in [Executor -> ThreadType] /\ thread[x] \in ThreadType
  BY DEF TypeOK
<1>2. thread[x].state = "stored"
  BY DEF Deliver
<1>3. /\ r \in Register /\ Current(x) \in Parameter
      /\ Place(x) \in thread[x].todo
  BY <1>2, CurrentIs DEF Active
<1>4. /\ DOMAIN thread[x].answer = group[r] /\ r \in group[r]
      /\ \A q \in DOMAIN thread[x].answer : cache[q] # Unknown
      /\ thread[x].answer \in Values
  BY <1>1, <1>2, <1>3, Registers DEF ThreadReady, ThreadType
<1> HIDE DEF r
<1>5. thread[x].answer[r] \in Nat /\ cache[r] \in Nat
  BY <1>3, <1>4, ValuesAre DEF TypeOK, DeviceTypes
<1>6. Delivered(x) \in Nat
  BY <1>5 DEF Delivered, r
<1> DEFINE e == [at |-> Place(x), param |-> Current(x), value |-> Delivered(x)]
           s == IF Remaining(x) = {} THEN "done" ELSE "running"
           out == Append(thread[x].output, e)
           t == [thread[x] EXCEPT !.state = s, !.todo = Remaining(x),
                                  !.answer = NoAnswer, !.output = out]
<1>7. e \in Entry
  BY <1>1, <1>3, <1>6 DEF Entry, ThreadType
<1> HIDE DEF e
<1>8. out \in Seq(Entry)
  BY <1>1, <1>7 DEF ThreadType
<1>9. s \in {"done", "running"} /\ Remaining(x) \in SUBSET Positions
  BY <1>1 DEF Remaining, ThreadType
<1>10. NoAnswer \in Values /\ DOMAIN NoAnswer = {}
  BY ValuesAre
<1>11. /\ thread' = [thread EXCEPT
             ![x].state = s, ![x].todo = Remaining(x), ![x].answer = NoAnswer,
             ![x].output = Append(@, e)]
       /\ cache' = [cache EXCEPT ![r] = Delivered(x)]
  BY Zenon DEF Deliver, e, s, Remaining, Delivered, r
<1> HIDE DEF s, out
<1>12. /\ t \in ThreadType /\ t.state = s /\ t.params = thread[x].params
       /\ t.todo = Remaining(x) /\ t.answer = NoAnswer /\ t.output = out
  BY <1>1, <1>8, <1>9, <1>10 DEF ThreadType, Active
<1>13. thread' = [thread EXCEPT ![x] = t]
  BY <1>1, <1>11 DEF out
<1> HIDE DEF t
<1>14. thread'[x] = t
  BY <1>1, <1>13
<1>15. OnlyThread(x)
  BY <1>1, <1>12, <1>13 DEF OnlyThread
<1> QED
  BY <1>2, <1>3, <1>6, <1>10, <1>11, <1>12, <1>14, <1>15, Zenon DEF s, out, e, r

-----------------------------------------------------------------------------
(* Types, step by step.                                                    *)

LEMMA IdleIs ==
  /\ Idle \in ThreadType /\ Idle.state = "none" /\ Idle.todo = {}
  /\ DOMAIN Idle.answer = {} /\ Idle.output = <<>>
BY ValuesAre DEF Idle, ThreadType, Lists

LEMMA ReadyKept ==
  ASSUME TypeOK, NEW x \in Executor, ThreadReady(x), thread'[x] = thread[x],
         \A q \in Register : cache[q] # Unknown => cache'[q] # Unknown
  PROVE  ThreadReady(x)'
<1>1. Current(x)' = Current(x)
  BY SamePlace
<1>2. DOMAIN thread[x].answer \subseteq Register
  BY ValuesAre DEF TypeOK, ThreadType
<1> QED
  BY <1>1, <1>2 DEF ThreadReady

LEMMA AllReadyKept ==
  ASSUME TypeInv, thread' = thread,
         \A q \in Register : cache[q] # Unknown => cache'[q] # Unknown
  PROVE  \A x \in Executor : ThreadReady(x)'
BY ReadyKept DEF TypeInv

LEMMA InitTypes == Init => TypeInv
<1> SUFFICES ASSUME Init PROVE TypeInv
  OBVIOUS
<1>1. TypeOK
  <2>1. DeviceTypes
    BY DEF Init, DeviceTypes
  <2>2. MainTypes
    BY ValuesAre DEF Init, MainTypes
  <2>3. CallTypes
    <3>1. /\ MaxCalls \in Nat /\ MaxKnobs \in Nat /\ MaxFailures \in Nat
          /\ <<>> \in Seq(Entry)
      BY ParametersAssumption
    <3> QED
      <4>1. stray \in BOOLEAN
        BY Zenon DEF Init
      <4>2. /\ call = 0 /\ caller = "sequential" /\ meas = <<>>
            /\ collected = {} /\ output = <<>> /\ returned = <<>>
            /\ knobs = 0 /\ failures = 0
        BY Zenon DEF Init
      <4>3. 0 \in 0..MaxCalls /\ 0 \in 0..MaxKnobs /\ 0 \in 0..MaxFailures
        BY <3>1
      <4> QED
        BY <3>1, <4>1, <4>2, <4>3 DEF CallTypes, Caller, Lists
  <2>4. thread \in [Executor -> ThreadType]
    BY IdleIs DEF Init
  <2> QED
    BY <2>1, <2>2, <2>3, <2>4 DEF TypeOK
<1>2. ASSUME NEW x \in Executor PROVE ThreadReady(x)
  <2>1. thread[x] = Idle
    BY DEF Init
  <2> QED
    BY <2>1, IdleIs DEF ThreadReady, Active
<1>3. SetReady
  BY ValuesAre DEF Init, SetReady, Setters
<1> QED
  BY <1>1, <1>2, <1>3 DEF TypeInv

LEMMA ProcessTypes ==
  ASSUME TypeInv, NEW c \in Caller, NEW m \in Measured, ProcessParamsMeas(c, m)
  PROVE  TypeInv'
<1> DEFINE new(x) == [Idle EXCEPT !.state = "ready", !.params = m,
                                  !.todo = Share(c, m, x[2])]
<1>1. ASSUME NEW x \in Executor, x[2] \in Executors(c, m)
      PROVE  /\ new(x) \in ThreadType /\ new(x).state = "ready"
             /\ new(x).params = m /\ new(x).todo \subseteq DOMAIN m
             /\ new(x).todo # {} /\ DOMAIN new(x).answer = {}
  <2>1. x[2] \in Share(c, m, x[2])
    BY <1>1, ListOf DEF Share, Executors, First
  <2>2. Share(c, m, x[2]) \subseteq DOMAIN m /\ m \in Lists
    BY DEF Share, Lists
  <2>3. Share(c, m, x[2]) \in SUBSET Positions
    BY <2>2, ListOf
  <2> DEFINE s == Share(c, m, x[2])
  <2> HIDE DEF s
  <2>4. s \in SUBSET Positions /\ s \subseteq DOMAIN m /\ s # {} /\ m \in Lists
    BY <2>1, <2>2, <2>3 DEF s
  <2>5. /\ new(x) = [Idle EXCEPT !.state = "ready", !.params = m, !.todo = s]
    BY DEF s
  <2> HIDE DEF new
  <2> QED
    <3> DEFINE t == [state |-> "ready", params |-> m, todo |-> s,
                     answer |-> NoAnswer, output |-> <<>>]
    <3>1. new(x) = t
      BY <2>5 DEF Idle
    <3>2. NoAnswer \in Values /\ DOMAIN NoAnswer = {} /\ <<>> \in Seq(Entry)
      BY ValuesAre
    <3>3. t \in ThreadType
      BY <2>4, <3>2 DEF ThreadType, Active
    <3> QED
      BY <2>4, <3>1, <3>2, <3>3
<1> HIDE DEF new
<1>2. /\ thread' = [x \in Executor |->
                      IF x[1] = call + 1 /\ x[2] \in Executors(c, m)
                        THEN new(x) ELSE thread[x]]
      /\ UNCHANGED <<device, cache, op, held, collected, output,
                     doubted, stray, knobs, failures>>
      /\ main = "idle" /\ main' = "collect" /\ returned' = <<>>
      /\ call' = call + 1 /\ call < MaxCalls /\ caller' = c /\ meas' = m
      /\ seen' = [r \in Register |-> {device[r]}]
  BY Zenon DEF ProcessParamsMeas, new
<1>3. TypeOK'
  <2>1. DeviceTypes'
    BY <1>2 DEF TypeInv, TypeOK, DeviceTypes
  <2>2. MainTypes'
    BY <1>2 DEF TypeInv, TypeOK, MainTypes, Calling
  <2>3. CallTypes'
    BY <1>2, ParametersAssumption DEF TypeInv, TypeOK, CallTypes, Lists
  <2>4. thread' \in [Executor -> ThreadType]
    BY <1>1, <1>2 DEF TypeInv, TypeOK
  <2> QED
    BY <2>1, <2>2, <2>3, <2>4 DEF TypeOK
<1>4. ASSUME NEW x \in Executor PROVE ThreadReady(x)'
  <2>1. CASE x[1] = call + 1 /\ x[2] \in Executors(c, m)
    <3>1. thread'[x] = new(x)
      BY <1>2, <2>1
    <3> QED
      BY <1>1, <2>1, <3>1 DEF ThreadReady, Active
  <2>2. CASE ~ (x[1] = call + 1 /\ x[2] \in Executors(c, m))
    <3>1. thread'[x] = thread[x] /\ cache' = cache
      BY <1>2, <2>2
    <3> QED
      BY <3>1, ReadyKept DEF TypeInv
  <2> QED
    BY <2>1, <2>2
<1>5. SetReady'
  BY <1>2 DEF TypeInv, SetReady, Setters
<1> QED
  BY <1>3, <1>4, <1>5 DEF TypeInv

LEMMA ThreadTypes ==
  ASSUME TypeInv, NEW x \in Executor, Thread(x)
  PROVE  TypeInv'
<1>0. TypeOK /\ ThreadReady(x) /\ SetReady
  BY DEF TypeInv
<1>1. /\ OnlyThread(x)
      /\ cache' \in [Register -> Nat \union {Unknown}]
      /\ \A q \in Register : cache[q] # Unknown => cache'[q] # Unknown
      /\ UNCHANGED <<device, mainvars, callvars, seen, stray, knobs>>
      /\ doubted' \subseteq Register /\ failures' \in 0..MaxFailures
      /\ ThreadReady(x)'
  <2>1. CASE Start(x)
    <3>1. UNCHANGED <<device, cache, mainvars, callvars, history>>
      BY <2>1 DEF Start
    <3>2. ThreadReady(x)'
      BY <1>0, <2>1, <3>1, StartDoes, SamePlace DEF ThreadReady, Active
    <3> QED
      BY <1>0, <2>1, <3>1, <3>2, StartDoes
      DEF TypeOK, DeviceTypes, CallTypes, history
  <2>2. CASE Ask(x)
    <3>1. UNCHANGED <<device, cache, mainvars, callvars, seen, stray, knobs>>
      BY <2>2 DEF Ask
    <3>2. /\ OnlyThread(x) /\ thread[x].state = "running"
          /\ source[Current(x)] \in Register
          /\ thread'[x].params = thread[x].params
          /\ thread'[x].todo = thread[x].todo
          /\ \/ /\ thread'[x].state = "asked"
                /\ DOMAIN thread'[x].answer = group[source[Current(x)]]
                /\ doubted' \subseteq doubted /\ failures' = failures
             \/ /\ thread'[x].state = "failed"
                /\ thread'[x].answer = thread[x].answer
                /\ doubted' = doubted /\ failures' \in 0..MaxFailures
      BY <1>0, <2>2, AskDoes, AnswerIs
    <3>3. ThreadReady(x)'
      BY <1>0, <3>2, SamePlace DEF ThreadReady, Active
    <3> QED
      BY <1>0, <3>1, <3>2, <3>3 DEF TypeOK, DeviceTypes, CallTypes
  <2>3. CASE CacheAnswer(x)
    <3>1. UNCHANGED <<device, mainvars, callvars, history>>
      BY <2>3 DEF CacheAnswer
    <3> DEFINE v == thread[x].answer
    <3>2. /\ OnlyThread(x) /\ thread[x].state = "asked"
          /\ cache' = Stored(v) /\ v \in Values /\ thread'[x].state = "stored"
          /\ thread'[x].params = thread[x].params
          /\ thread'[x].todo = thread[x].todo /\ thread'[x].answer = v
      BY <1>0, <2>3, CacheAnswerDoes
    <3>3. DOMAIN v \subseteq Register
      BY <3>2, ValuesAre
    <3> HIDE DEF v
    <3>4. /\ cache' \in [Register -> Nat \union {Unknown}]
          /\ \A q \in DOMAIN v : cache'[q] \in Nat
          /\ \A q \in Register : q \notin DOMAIN v => cache'[q] = cache[q]
      BY <1>0, <3>2, <3>3, StoredIs
    <3>5. ThreadReady(x)'
      <4>1. Current(x)' = Current(x) /\ DOMAIN v = group[source[Current(x)]]
        BY <1>0, <3>2, SamePlace DEF ThreadReady, v
      <4> QED
        BY <1>0, <3>2, <3>4, <4>1 DEF ThreadReady, Active, Unknown
    <3>6. \A q \in Register : cache[q] # Unknown => cache'[q] # Unknown
      BY <3>4 DEF Unknown
    <3> QED
      BY <1>0, <3>1, <3>2, <3>4, <3>5, <3>6
      DEF TypeOK, DeviceTypes, CallTypes, history
  <2>4. CASE Deliver(x)
    <3>1. UNCHANGED <<device, mainvars, callvars, history>>
      BY <2>4 DEF Deliver
    <3> DEFINE r == source[Current(x)]
               v == Delivered(x)
    <3>2. /\ OnlyThread(x) /\ thread[x].state = "stored"
          /\ r \in Register /\ v \in Nat /\ cache' = [cache EXCEPT ![r] = v]
          /\ thread'[x].state = IF Remaining(x) = {} THEN "done" ELSE "running"
          /\ thread'[x].params = thread[x].params
          /\ thread'[x].todo = Remaining(x)
          /\ DOMAIN thread'[x].answer = {}
      BY <1>0, <2>4, DeliverDoes
    <3> HIDE DEF r, v
    <3>3. cache' \in [Register -> Nat \union {Unknown}]
      BY <1>0, <3>2 DEF TypeOK, DeviceTypes
    <3>4. \A q \in Register : cache[q] # Unknown => cache'[q] # Unknown
      BY <1>0, <3>2 DEF TypeOK, DeviceTypes, Unknown
    <3>5. ThreadReady(x)'
      BY <1>0, <3>2 DEF ThreadReady, Active, Remaining
    <3> QED
      BY <1>0, <3>1, <3>2, <3>3, <3>4, <3>5
      DEF TypeOK, DeviceTypes, CallTypes, history
  <2> QED
    BY <2>1, <2>2, <2>3, <2>4 DEF Thread
<1>2. TypeOK'
  BY <1>0, <1>1 DEF TypeOK, DeviceTypes, MainTypes, CallTypes, mainvars,
                    callvars, OnlyThread
<1>3. ASSUME NEW y \in Executor PROVE ThreadReady(y)'
  BY <1>0, <1>1, ReadyKept DEF OnlyThread, TypeInv
<1>4. SetReady'
  <2>1. \A q \in Register : group[q] \subseteq Register
    BY Registers
  <2> QED
    BY <1>0, <1>1, <2>1 DEF SetReady, mainvars, Setters
<1> QED
  BY <1>2, <1>3, <1>4 DEF TypeInv

LEMMA EndCallTypes ==
  ASSUME TypeInv, NEW result \in Seq(Entry), EndCall(result), main \in Calling,
         UNCHANGED <<device, cache, op, held, doubted, seen, knobs, failures>>,
         stray' \in BOOLEAN
  PROVE  TypeInv'
<1>1. /\ main' = "idle" /\ returned' = result /\ collected' = {}
      /\ output' = <<>> /\ UNCHANGED <<call, caller, meas>>
      /\ thread' = [x \in Executor |-> IF Over(x) THEN Idle ELSE thread[x]]
  BY DEF EndCall
<1>2. <<>> \in Seq(Entry)
  OBVIOUS
<1>3. TypeOK'
  <2>1. DeviceTypes' /\ MainTypes'
    BY <1>1 DEF TypeInv, TypeOK, DeviceTypes, MainTypes
  <2>2. CallTypes'
    BY <1>1, <1>2 DEF TypeInv, TypeOK, CallTypes
  <2>3. thread' \in [Executor -> ThreadType]
    BY <1>1, IdleIs DEF TypeInv, TypeOK
  <2> QED
    BY <2>1, <2>2, <2>3 DEF TypeOK
<1>4. ASSUME NEW x \in Executor PROVE ThreadReady(x)'
  <2>1. CASE thread'[x] = Idle
    BY <2>1, IdleIs DEF ThreadReady, Active
  <2>2. CASE thread'[x] = thread[x]
    BY <2>2, ReadyKept DEF TypeInv
  <2> QED
    BY <1>1, <2>1, <2>2
<1>5. SetReady'
  BY <1>1 DEF TypeInv, SetReady, Setters, Calling
<1> QED
  BY <1>3, <1>4, <1>5 DEF TypeInv

LEMMA TakesTypes ==
  ASSUME TypeInv, NEW x \in Executor, Takes(x), main \in Calling,
         UNCHANGED <<device, cache, op, held, history>>
  PROVE  TypeInv'
<1>1. /\ collected' = collected \union {x}
      /\ output' = output \o thread[x].output
      /\ UNCHANGED <<main, call, caller, meas, returned, thread>>
  BY DEF Takes
<1>2. output' \in Seq(Entry)
  <2>1. output \in Seq(Entry) /\ thread[x].output \in Seq(Entry)
    BY DEF TypeInv, TypeOK, CallTypes, ThreadType
  <2> QED
    BY <1>1, <2>1
<1>3. TypeOK'
  BY <1>1, <1>2
  DEF TypeInv, TypeOK, DeviceTypes, MainTypes, CallTypes, history
<1>4. \A y \in Executor : ThreadReady(y)'
  BY <1>1, AllReadyKept
<1>5. SetReady'
  BY <1>1 DEF TypeInv, SetReady
<1> QED
  BY <1>3, <1>4, <1>5 DEF TypeInv

LEMMA CollectTypes ==
  ASSUME TypeInv, Collect
  PROVE  TypeInv'
<1>0. /\ <<>> \in Seq(Entry) /\ output \in Seq(Entry) /\ stray \in BOOLEAN
  BY DEF TypeInv, TypeOK, CallTypes
<1>1. ASSUME NEW x \in Executor, Join(x) PROVE TypeInv'
  <2>1. /\ main = "collect"
        /\ UNCHANGED <<device, cache, op, held, doubted, seen, knobs, failures>>
        /\ \/ EndCall(<<>>) /\ stray' = (stray \/ \E y \in Mine : ~ Over(y))
           \/ Takes(x) /\ UNCHANGED stray
    BY <1>1 DEF Join
  <2>2. CASE EndCall(<<>>) /\ stray' = (stray \/ \E y \in Mine : ~ Over(y))
    <3>1. stray' \in BOOLEAN
      BY <2>2, Zenon
    <3> QED
      BY <1>0, <2>1, <2>2, <3>1, EndCallTypes DEF Calling
  <2>3. CASE Takes(x) /\ UNCHANGED stray
    BY <2>1, <2>3, TakesTypes DEF Calling, history
  <2> QED
    BY <2>1, <2>2, <2>3
<1>2. ASSUME NEW x \in Executor, AsCompleted(x) PROVE TypeInv'
  <2>1. /\ main = "collect" /\ UNCHANGED <<device, cache, op, held, history>>
        /\ \/ main' = "raise" /\ UNCHANGED <<callvars, thread>>
           \/ Takes(x)
    BY <1>2 DEF AsCompleted
  <2>2. CASE main' = "raise" /\ UNCHANGED <<callvars, thread>>
    <3>1. TypeOK'
      BY <2>1, <2>2 DEF TypeInv, TypeOK, DeviceTypes, MainTypes, CallTypes,
                        callvars, history, Calling
    <3>2. \A y \in Executor : ThreadReady(y)'
      BY <2>1, <2>2, AllReadyKept
    <3>3. SetReady'
      BY <2>1, <2>2 DEF TypeInv, SetReady, Setters
    <3> QED
      BY <3>1, <3>2, <3>3 DEF TypeInv
  <2>3. CASE Takes(x)
    BY <2>1, <2>3, TakesTypes DEF Calling
  <2> QED
    BY <2>1, <2>2, <2>3
<1>3. CASE Return \/ ExitPool
  <2>1. /\ main \in Calling /\ UNCHANGED <<device, cache, op, held, history>>
        /\ EndCall(output) \/ EndCall(<<>>)
    BY <1>3 DEF Return, ExitPool, Calling
  <2> QED
    BY <1>0, <2>1, EndCallTypes DEF history
<1> QED
  BY <1>1, <1>2, <1>3 DEF Collect

LEMMA SetTypes ==
  ASSUME TypeInv, NEW p \in Parameter, NEW value \in Value(source[p]),
         Set(p, value)
  PROVE  TypeInv'
<1> DEFINE r == source[p]
<1>0. TypeOK /\ SetReady /\ r \in Register
  BY Registers DEF TypeInv
<1>1. value \in Nat
  BY ParametersAssumption DEF Value
<1> HIDE DEF r
<1>2. /\ main = "idle" /\ op' = [param |-> r, target |-> value, at |-> cache[r]]
      /\ main' = IF NeedsUpdate(r) THEN "update" ELSE "write"
      /\ returned' = <<>> /\ meas' = <<>> /\ seen' = [q \in Register |-> {}]
      /\ UNCHANGED <<device, cache, held, call, caller, collected, output,
                     thread, doubted, stray, knobs, failures>>
  BY Zenon DEF Set, r
<1>3. TypeOK'
  <2>1. DeviceTypes'
    BY <1>0, <1>2 DEF TypeOK, DeviceTypes
  <2>2. op' \in [param : Register \union {""}, target : Nat,
                 at : Nat \union {Unknown}]
    BY <1>0, <1>1, <1>2 DEF TypeOK, DeviceTypes
  <2>3. MainTypes'
    BY <1>0, <1>2, <2>2 DEF TypeOK, MainTypes, Setters
  <2>4. CallTypes'
    BY <1>0, <1>2 DEF TypeOK, CallTypes, Lists
  <2> QED
    BY <1>0, <1>2, <2>1, <2>3, <2>4 DEF TypeOK
<1>4. \A x \in Executor : ThreadReady(x)'
  BY <1>2, AllReadyKept
<1>5. SetReady'
  <2>1. op'.param = r /\ op'.at = cache[r]
    BY <1>2
  <2> QED
    BY <1>0, <1>2, <2>1 DEF SetReady, Setters, NeedsUpdate
<1> QED
  BY <1>3, <1>4, <1>5 DEF TypeInv

LEMMA UpdateTypes ==
  ASSUME TypeInv, Update
  PROVE  TypeInv'
<1> DEFINE r == op.param
<1>0. TypeOK /\ SetReady /\ r \in Register /\ failures \in Nat /\ MaxFailures \in Nat
  BY ParametersAssumption
  DEF TypeInv, TypeOK, CallTypes, SetReady, Update, Setters
<1>1. Answer(r) \in Values /\ DOMAIN Answer(r) = group[r]
  BY <1>0, AnswerIs
<1> HIDE DEF r
<1>2. /\ main = "update"
      /\ \/ /\ held' = Answer(r) /\ doubted' = doubted \ group[r]
            /\ main' = "cache_update" /\ failures' = failures
         \/ /\ failures < MaxFailures /\ failures' = failures + 1
            /\ main' = "idle" /\ held' = held /\ doubted' = doubted
      /\ UNCHANGED <<device, cache, op, callvars, thread, seen, stray, knobs>>
  BY DEF Update, Fails, r
<1>3. TypeOK'
  <2>1. DeviceTypes'
    BY <1>0, <1>2 DEF TypeOK, DeviceTypes
  <2>2. MainTypes'
    BY <1>0, <1>1, <1>2 DEF TypeOK, MainTypes, Setters
  <2>3. failures' \in 0..MaxFailures
    BY <1>0, <1>2 DEF TypeOK, CallTypes
  <2>4. CallTypes'
    BY <1>0, <1>2, <2>3 DEF TypeOK, CallTypes, callvars
  <2> QED
    BY <1>0, <1>2, <2>1, <2>2, <2>4 DEF TypeOK
<1>4. \A x \in Executor : ThreadReady(x)'
  BY <1>2, AllReadyKept
<1>5. SetReady'
  BY <1>0, <1>1, <1>2 DEF SetReady, Setters, r
<1> QED
  BY <1>3, <1>4, <1>5 DEF TypeInv

(* Storing values knows no less than before.                               *)
LEMMA StoredKnows ==
  ASSUME TypeOK, NEW v \in Values, cache' = Stored(v)
  PROVE  /\ cache' \in [Register -> Nat \union {Unknown}]
         /\ \A q \in Register : cache[q] # Unknown => cache'[q] # Unknown
         /\ \A q \in DOMAIN v : cache'[q] = v[q] /\ cache'[q] # Unknown
<1>1. DOMAIN v \subseteq Register
  BY ValuesAre
<1> QED
  BY <1>1, StoredIs DEF Unknown

LEMMA CacheUpdateTypes ==
  ASSUME TypeInv, CacheUpdate
  PROVE  TypeInv'
<1> DEFINE r == op.param
<1>0. TypeOK /\ SetReady /\ r \in Register /\ held \in Values
  BY DEF TypeInv, TypeOK, MainTypes, SetReady, CacheUpdate, Setters
<1>1. DOMAIN held = group[r] /\ r \in group[r] /\ group[r] \subseteq Register
  BY <1>0, Registers DEF SetReady, CacheUpdate
<1>2. /\ main = "cache_update" /\ cache' = Stored(held)
      /\ op' = [op EXCEPT !.at = cache'[r]] /\ held' = NoAnswer
      /\ main' = "write" /\ UNCHANGED <<device, callvars, thread, history>>
  BY DEF CacheUpdate
<1>3. /\ cache' \in [Register -> Nat \union {Unknown}]
      /\ \A q \in Register : cache[q] # Unknown => cache'[q] # Unknown
      /\ \A q \in group[r] : cache'[q] # Unknown
  BY <1>0, <1>1, <1>2, StoredKnows
<1>4. /\ op' \in [param : Register \union {""}, target : Nat,
                  at : Nat \union {Unknown}]
      /\ op'.param = r /\ op'.at = cache'[r]
  BY <1>0, <1>2, <1>3 DEF TypeOK, MainTypes
<1>5. TypeOK'
  <2>1. DeviceTypes'
    BY <1>0, <1>2, <1>3 DEF TypeOK, DeviceTypes, history
  <2>2. MainTypes'
    BY <1>2, <1>4, ValuesAre DEF MainTypes, Setters
  <2>3. CallTypes'
    BY <1>0, <1>2 DEF TypeOK, CallTypes, callvars, history
  <2> QED
    BY <1>0, <1>2, <2>1, <2>2, <2>3 DEF TypeOK
<1>6. \A x \in Executor : ThreadReady(x)'
  BY <1>2, <1>3, AllReadyKept
<1>7. SetReady'
  BY <1>0, <1>1, <1>2, <1>3, <1>4, ValuesAre DEF SetReady
<1> QED
  BY <1>5, <1>6, <1>7 DEF TypeInv

(* The command that Write sends.                                           *)
LEMMA CommandIs ==
  ASSUME TypeInv, main = "write"
  PROVE  /\ op.param \in Register /\ op.target \in Nat
         /\ Step \in Nat
         /\ Command \in Values /\ DOMAIN Command = group[op.param]
         /\ Command[op.param] = Step
         /\ \A q \in group[op.param] : q # op.param =>
              Command[q] = cache[q] /\ cache[q] # Unknown
<1> DEFINE r == op.param
<1>0. /\ r \in Register /\ op.target \in Nat /\ op.at \in Nat \union {Unknown}
  BY DEF TypeInv, TypeOK, MainTypes, SetReady, Setters
<1>1. r \in group[r] /\ group[r] \subseteq Register
  BY <1>0, Registers
<1>2. Step \in Nat
  <2> DEFINE a == op.at
             g == op.target
  <2>1. a \in Nat \union {-1} /\ g \in Nat
    BY <1>0 DEF Unknown
  <2>2. Step = IF r \notin ramped \/ a \in {g, -1} THEN g
               ELSE IF a < g THEN a + 1 ELSE a - 1
    BY Zenon DEF Step, Unknown
  <2> HIDE DEF a, g
  <2> QED
    BY <2>1, <2>2
<1>3. \A q \in group[r] : q # r => cache[q] # Unknown
  BY <1>1 DEF TypeInv, SetReady
<1>4. \A q \in group[r] : q # r => cache[q] \in Nat
  BY <1>1, <1>3 DEF TypeInv, TypeOK, DeviceTypes
<1> DEFINE s == Step
<1>5. Command = [q \in group[r] |-> IF q = r THEN s ELSE cache[q]]
  BY DEF Command
<1> HIDE DEF s
<1>6. /\ Command = [q \in DOMAIN Command |-> Command[q]]
      /\ DOMAIN Command = group[r]
      /\ \A q \in group[r] : Command[q] = IF q = r THEN s ELSE cache[q]
  BY <1>5
<1>7. \A q \in group[r] : Command[q] \in Nat
  BY <1>2, <1>4, <1>6 DEF s
<1> QED
  BY <1>0, <1>1, <1>2, <1>3, <1>6, <1>7, ValuesAre DEF s

LEMMA WriteTypes ==
  ASSUME TypeInv, Write
  PROVE  TypeInv'
<1> DEFINE r == op.param
           v == Command
<1>0. /\ TypeOK /\ SetReady /\ r \in Register /\ main = "write"
      /\ failures \in Nat /\ MaxFailures \in Nat
      /\ v \in Values /\ DOMAIN v = group[r] /\ group[r] \subseteq Register
      /\ DOMAIN held = {}
  BY CommandIs, Registers, ParametersAssumption
  DEF TypeInv, TypeOK, CallTypes, Write, SetReady
<1>1. /\ \/ /\ Written /\ held' = v
            /\ doubted' = doubted \ group[r]
            /\ main' = "cache_write" /\ failures' = failures
         \/ /\ Fails /\ main' = "idle" /\ held' = held
            /\ \/ device' = device /\ doubted' = doubted
               \/ Written /\ doubted' = doubted \union group[r]
      /\ UNCHANGED <<cache, op, callvars, thread, seen, stray, knobs>>
  BY DEF Write
<1>2. Written => device' \in [Register -> Nat]
  <2>1. Written => device' = [q \in Register |->
                                IF q \in DOMAIN v THEN v[q] ELSE device[q]]
    BY DEF Written
  <2>2. \A q \in DOMAIN v : v[q] \in Nat
    BY <1>0, ValuesAre
  <2> HIDE DEF v
  <2> QED
    BY <1>0, <2>1, <2>2 DEF TypeOK, DeviceTypes
<1> HIDE DEF r, v
<1>3. failures' \in 0..MaxFailures
  BY <1>0, <1>1 DEF TypeOK, CallTypes, Fails
<1>4. TypeOK'
  <2>1. DeviceTypes'
    BY <1>0, <1>1, <1>2 DEF TypeOK, DeviceTypes
  <2>2. MainTypes'
    BY <1>0, <1>1 DEF TypeOK, MainTypes, Setters
  <2>3. CallTypes'
    BY <1>0, <1>1, <1>3 DEF TypeOK, CallTypes, callvars
  <2> QED
    BY <1>0, <1>1, <2>1, <2>2, <2>3 DEF TypeOK
<1>5. \A x \in Executor : ThreadReady(x)'
  BY <1>1, AllReadyKept
<1>6. SetReady'
  BY <1>0, <1>1 DEF SetReady, Setters, r
<1> QED
  BY <1>4, <1>5, <1>6 DEF TypeInv

LEMMA CacheWriteTypes ==
  ASSUME TypeInv, CacheWrite
  PROVE  TypeInv'
<1> DEFINE r == op.param
           a == held[r]
<1>0. /\ TypeOK /\ SetReady /\ r \in Register /\ held \in Values
      /\ main = "cache_write"
  BY DEF TypeInv, TypeOK, MainTypes, SetReady, CacheWrite, Setters
<1>1. DOMAIN held = group[r] /\ r \in group[r] /\ group[r] \subseteq Register
  BY <1>0, Registers DEF SetReady
<1>2. a \in Nat
  BY <1>0, <1>1, ValuesAre
<1>3. /\ cache' = Stored(held) /\ op' = [op EXCEPT !.at = a]
      /\ held' = NoAnswer /\ main' \in {"write", "idle"}
      /\ UNCHANGED <<device, callvars, thread, history>>
  BY DEF CacheWrite
<1> HIDE DEF a
<1>4. /\ cache' \in [Register -> Nat \union {Unknown}]
      /\ \A q \in Register : cache[q] # Unknown => cache'[q] # Unknown
      /\ \A q \in group[r] : cache'[q] # Unknown
  BY <1>0, <1>1, <1>3, StoredKnows
<1>5. /\ op' \in [param : Register \union {""}, target : Nat,
                  at : Nat \union {Unknown}]
      /\ op'.param = r /\ op'.at = a
  BY <1>0, <1>2, <1>3 DEF TypeOK, MainTypes
<1>6. TypeOK'
  <2>1. DeviceTypes'
    BY <1>0, <1>3, <1>4 DEF TypeOK, DeviceTypes, history
  <2>2. MainTypes'
    BY <1>3, <1>5, ValuesAre DEF MainTypes, Setters
  <2>3. CallTypes'
    BY <1>0, <1>3 DEF TypeOK, CallTypes, callvars, history
  <2> QED
    BY <1>0, <1>3, <2>1, <2>2, <2>3 DEF TypeOK
<1>7. \A x \in Executor : ThreadReady(x)'
  BY <1>3, <1>4, AllReadyKept
<1>8. SetReady'
  <2>1. /\ op'.param = r /\ op'.at # Unknown /\ main' \in {"write", "idle"}
        /\ \A q \in group[r] : cache'[q] # Unknown
        /\ DOMAIN held' = {}
    <3>1. op'.at # Unknown
      <4>1. op'.at = a /\ a # Unknown
        <5>1. a # Unknown
          BY <1>2 DEF Unknown
        <5>2. op'.at = a
          BY <1>5
        <5> QED
          BY <5>1, <5>2
      <4> QED
        BY <4>1, Zenon
    <3>2. DOMAIN held' = {}
      BY <1>3, ValuesAre
    <3> QED
      BY <1>3, <1>4, <1>5, <3>1, <3>2
  <2> HIDE DEF r
  <2> QED
    BY <1>0, <2>1 DEF SetReady, Setters
<1> QED
  BY <1>6, <1>7, <1>8 DEF TypeInv

LEMMA TurnTypes ==
  ASSUME TypeInv, NEW r \in Register, NEW value \in Value(r), Turn(r, value)
  PROVE  TypeInv'
<1>0. /\ TypeOK /\ SetReady /\ value \in Nat
      /\ knobs \in Nat /\ MaxKnobs \in Nat
  BY ParametersAssumption DEF TypeInv, Value, TypeOK, CallTypes
<1>1. /\ knobs < MaxKnobs /\ knobs' = knobs + 1
      /\ device' = [device EXCEPT ![r] = value]
      /\ doubted' = doubted \union {r}
      /\ seen' = [seen EXCEPT ![r] = IF main \in {"collect", "raise"}
                                       THEN @ \union {value} ELSE @]
      /\ UNCHANGED <<cache, mainvars, callvars, thread, stray, failures>>
  BY DEF Turn
<1>2. seen' \in [Register -> SUBSET Nat]
  <2> DEFINE s == IF main \in {"collect", "raise"} THEN seen[r] \union {value}
                  ELSE seen[r]
  <2>1. seen \in [Register -> SUBSET Nat] /\ s \in SUBSET Nat
    BY <1>0 DEF TypeOK, DeviceTypes
  <2>2. seen' = [seen EXCEPT ![r] = s]
    BY <1>1
  <2> HIDE DEF s
  <2> QED
    BY <2>1, <2>2
<1>3. TypeOK'
  <2>1. DeviceTypes'
    BY <1>0, <1>1, <1>2 DEF TypeOK, DeviceTypes
  <2>2. MainTypes'
    BY <1>0, <1>1 DEF TypeOK, MainTypes, mainvars
  <2>3. CallTypes'
    BY <1>0, <1>1 DEF TypeOK, CallTypes, callvars
  <2> QED
    BY <1>0, <1>1, <2>1, <2>2, <2>3 DEF TypeOK
<1>4. \A x \in Executor : ThreadReady(x)'
  BY <1>1, AllReadyKept
<1>5. SetReady'
  BY <1>0, <1>1 DEF SetReady, mainvars
<1> QED
  BY <1>3, <1>4, <1>5 DEF TypeInv

LEMMA NextTypes == TypeInv /\ [Next]_vars => TypeInv'
<1> SUFFICES ASSUME TypeInv, [Next]_vars PROVE TypeInv'
  OBVIOUS
<1>1. ASSUME NEW c \in Caller, NEW m \in Measured, ProcessParamsMeas(c, m)
      PROVE  TypeInv'
  BY <1>1, ProcessTypes
<1>2. ASSUME NEW x \in Executor, Thread(x) PROVE TypeInv'
  BY <1>2, ThreadTypes
<1>3. CASE Collect
  BY <1>3, CollectTypes
<1>4. ASSUME NEW p \in Parameter, NEW value \in Value(source[p]), Set(p, value)
      PROVE  TypeInv'
  BY <1>4, SetTypes
<1>5. CASE SetStep
  BY <1>5, UpdateTypes, CacheUpdateTypes, WriteTypes, CacheWriteTypes
  DEF SetStep
<1>6. ASSUME NEW r \in Register, NEW value \in Value(r), Turn(r, value)
      PROVE  TypeInv'
  BY <1>6, TurnTypes
<1>7. CASE UNCHANGED vars
  <2>1. /\ UNCHANGED <<device, cache, main, op, held, call, caller, meas,
                       collected, output, returned, thread, doubted, seen,
                       stray, knobs, failures>>
    BY <1>7 DEF vars, mainvars, callvars, history
  <2>2. TypeOK'
    BY <2>1 DEF TypeInv, TypeOK, DeviceTypes, MainTypes, CallTypes
  <2>3. \A x \in Executor : ThreadReady(x)'
    BY <2>1, AllReadyKept
  <2>4. SetReady'
    BY <2>1 DEF TypeInv, SetReady
  <2> QED
    BY <2>2, <2>3, <2>4 DEF TypeInv
<1> QED
  BY <1>1, <1>2, <1>3, <1>4, <1>5, <1>6, <1>7 DEF Next

(* Whatever fails, also when a call has left threads behind: a thread that *)
(* is at work has a parameter to get, an answer covers its whole group,    *)
(* and a command is made of known values (group_parameter.py:268-274).     *)
THEOREM TypeCorrect == Spec => []TypeInv
BY InitTypes, NextTypes, PTL DEF Spec

-----------------------------------------------------------------------------
(* Calls and their threads.                                                *)

LEMMA InitCall == Init => CallInv
<1> SUFFICES ASSUME Init PROVE Alone /\ Shares
  BY DEF CallInv
<1>1. /\ main \notin Calling /\ collected = {} /\ output = <<>>
      /\ thread = [x \in Executor |-> Idle]
  BY Zenon DEF Init, Calling
<1>2. \A x \in Executor : thread[x].state = "none"
  BY <1>1, IdleIs
<1> QED
  BY <1>1, <1>2 DEF Alone, Shares

LEMMA ProcessCall ==
  ASSUME TypeInv, Alone, Shares, NEW c \in Caller, NEW m \in Measured,
         ProcessParamsMeas(c, m)
  PROVE  Alone' /\ Shares'
<1> DEFINE new(x) == [Idle EXCEPT !.state = "ready", !.params = m,
                                  !.todo = Share(c, m, x[2])]
<1>1. \A x : /\ new(x).state = "ready" /\ new(x).params = m
             /\ new(x).todo = Share(c, m, x[2])
  BY DEF Idle
<1>2. /\ thread' = [x \in Executor |->
                      IF x[1] = call + 1 /\ x[2] \in Executors(c, m)
                        THEN new(x) ELSE thread[x]]
      /\ main = "idle" /\ main' = "collect" /\ returned' = <<>>
      /\ UNCHANGED collected
      /\ call' = call + 1 /\ call < MaxCalls /\ caller' = c /\ meas' = m
  BY Zenon DEF ProcessParamsMeas, new
<1> HIDE DEF new
<1>3. /\ call \in Nat /\ MaxCalls \in Nat
  BY ParametersAssumption DEF TypeInv, TypeOK, CallTypes
<1>4. main \notin Calling /\ main' \in Calling /\ collected' = {}
  BY <1>2 DEF Calling, Alone
<1>5. \A x \in Executor :
        IF x[1] = call + 1 /\ x[2] \in Executors(c, m)
          THEN thread'[x] = new(x) ELSE thread'[x].state = "none"
  BY <1>2, <1>4 DEF Alone
<1>6. Alone'
  BY <1>2, <1>3, <1>4, <1>5 DEF Alone
<1>7. ASSUME NEW i \in Executors(c, m)
      PROVE  thread'[<<call + 1, i>>].state # "none"
  <2>1. i \in Positions
    BY ListOf DEF Executors, First
  <2>2. <<call + 1, i>> \in Executor
    BY <1>2, <1>3, <2>1 DEF Executor
  <2> QED
    BY <1>1, <1>5, <2>2
<1>8. Shares'
  BY <1>1, <1>2, <1>5, <1>7 DEF Shares
<1> QED
  BY <1>6, <1>8

LEMMA ThreadCall ==
  ASSUME TypeInv, Alone, Shares, NEW x \in Executor, Thread(x)
  PROVE  /\ Alone' /\ Shares' /\ main \in Calling
         /\ thread[x].state \in Active /\ x[1] = call
<1>0. TypeOK /\ ThreadReady(x)
  BY DEF TypeInv
<1>1. /\ OnlyThread(x) /\ thread[x].state \in Active
      /\ thread'[x].state # "none"
      /\ thread'[x].params = thread[x].params
      /\ thread'[x].todo \subseteq thread[x].todo
      /\ UNCHANGED <<main, callvars>>
  <2>1. CASE Start(x)
    BY <1>0, <2>1, StartDoes DEF Start, Active, mainvars
  <2>2. CASE Ask(x)
    BY <1>0, <2>2, AskDoes DEF Ask, Active, mainvars
  <2>3. CASE CacheAnswer(x)
    BY <1>0, <2>3, CacheAnswerDoes DEF CacheAnswer, Active, mainvars
  <2>4. CASE Deliver(x)
    <3>1. /\ OnlyThread(x) /\ thread[x].state = "stored"
          /\ thread'[x].state \in {"done", "running"}
          /\ thread'[x].params = thread[x].params
          /\ thread'[x].todo = Remaining(x)
      BY <1>0, <2>4, DeliverDoes
    <3>2. UNCHANGED <<mainvars, callvars>>
      BY <2>4 DEF Deliver
    <3> QED
      BY <3>1, <3>2 DEF Active, mainvars, Remaining
  <2> QED
    BY <2>1, <2>2, <2>3, <2>4 DEF Thread
<1>2. /\ thread[x].state # "none" /\ thread[x].state # "done"
      /\ x \notin collected /\ main \in Calling /\ x[1] = call
  BY <1>1 DEF Active, Alone
<1>3. UNCHANGED <<call, caller, meas, collected, output, returned>>
  BY <1>1 DEF callvars
<1>4. \A y \in Executor : y # x => thread'[y] = thread[y]
  BY <1>1 DEF OnlyThread
<1>5. collected \subseteq Executor
  BY <1>0 DEF TypeOK, CallTypes
<1>6. Alone'
  BY <1>1, <1>2, <1>3, <1>4, <1>5 DEF Alone
<1>7. Shares'
  <2>1. \A y \in Executor : /\ thread[y].state = "none" <=> thread'[y].state = "none"
                            /\ thread'[y].params = thread[y].params
                            /\ thread'[y].todo \subseteq thread[y].todo
    BY <1>1, <1>2, <1>4
  <2>2. ASSUME NEW i \in Executors(caller, meas)
        PROVE  thread'[<<call, i>>].state # "none"
    <3>1. thread[<<call, i>>].state # "none"
      BY <1>2 DEF Shares
    <3>2. meas \in Measured /\ call \in 1..MaxCalls
      BY <1>2 DEF Alone
    <3>3. <<call, i>> \in Executor
      BY <3>2, ListOf DEF Executors, First, Executor
    <3> QED
      BY <2>1, <3>1, <3>3
  <2> QED
    BY <1>1, <1>3, <2>1, <2>2 DEF Shares
<1> QED
  BY <1>1, <1>2, <1>6, <1>7

LEMMA EndCallAlone ==
  ASSUME TypeInv, Alone, NEW result, EndCall(result), \A y \in Mine : Over(y)
  PROVE  Alone' /\ Shares' /\ \A y \in Executor : thread'[y].state = "none"
<1>1. /\ main' = "idle" /\ collected' = {} /\ output' = <<>>
      /\ UNCHANGED <<call, caller, meas>>
      /\ thread' = [x \in Executor |-> IF Over(x) THEN Idle ELSE thread[x]]
  BY DEF EndCall
<1>2. ASSUME NEW y \in Executor PROVE thread'[y].state = "none"
  BY <1>1, IdleIs DEF Alone, Mine
<1> QED
  BY <1>1, <1>2 DEF Alone, Shares, Calling

LEMMA TakesCall ==
  ASSUME TypeInv, Alone, Shares, NEW x \in Executor, Takes(x), main \in Calling
  PROVE  Alone' /\ Shares'
<1>1. /\ thread[x].state = "done" /\ collected' = collected \union {x}
      /\ UNCHANGED <<main, call, caller, meas, returned, thread>>
  BY DEF Takes
<1>2. Alone'
  BY <1>1 DEF Alone
<1>3. Shares'
  BY <1>1 DEF Shares
<1> QED
  BY <1>2, <1>3

(* Join raises at once; whether that leaves threads behind is what stray   *)
(* tells.                                                                  *)
LEMMA JoinCases ==
  ASSUME TypeInv, NEW x \in Executor, Join(x), ~ stray'
  PROVE  /\ ~ stray /\ main = "collect" /\ x \in Mine \ collected
         /\ UNCHANGED <<device, cache, op, held, doubted, seen, knobs, failures>>
         /\ \/ EndCall(<<>>) /\ \A y \in Mine : Over(y)
            \/ Takes(x)
<1>1. stray' => stray' = TRUE
  BY DEF Join, TypeInv, TypeOK, CallTypes
<1>2. CASE EndCall(<<>>) /\ stray' = (stray \/ \E y \in Mine : ~ Over(y))
  <2>1. ~ (stray \/ \E y \in Mine : ~ Over(y))
    BY <1>2, Zenon
  <2> QED
    BY <1>2, <2>1, Zenon DEF Join
<1>3. CASE Takes(x) /\ UNCHANGED stray
  BY <1>3, Zenon DEF Join
<1> QED
  BY <1>2, <1>3, Zenon DEF Join

LEMMA CollectCall ==
  ASSUME TypeInv, Alone, Shares, Collect, ~ stray'
  PROVE  Alone' /\ Shares'
<1>1. ASSUME NEW x \in Executor, Join(x) PROVE Alone' /\ Shares'
  BY <1>1, JoinCases, EndCallAlone, TakesCall DEF Calling
<1>2. ASSUME NEW x \in Executor, AsCompleted(x) PROVE Alone' /\ Shares'
  <2>1. CASE main' = "raise" /\ UNCHANGED <<callvars, thread>>
    BY <1>2, <2>1 DEF AsCompleted, Alone, Shares, callvars, Calling
  <2>2. CASE Takes(x)
    BY <1>2, <2>2, TakesCall DEF AsCompleted, Calling
  <2> QED
    BY <1>2, <2>1, <2>2 DEF AsCompleted
<1>3. CASE Return
  <2>1. \A y \in Mine : Over(y)
    BY <1>3 DEF Return, Alone, Over
  <2> QED
    BY <1>3, <2>1, EndCallAlone DEF Return
<1>4. CASE ExitPool
  BY <1>4, EndCallAlone DEF ExitPool
<1> QED
  BY <1>1, <1>2, <1>3, <1>4 DEF Collect

LEMMA SettersCall ==
  ASSUME TypeInv, Alone, Shares,
         \/ SetStep
         \/ \E p \in Parameter : \E value \in Value(source[p]) : Set(p, value)
  PROVE  Alone' /\ Shares' /\ main \notin Calling
<1>1. /\ main \notin Calling /\ main' \notin Calling
      /\ UNCHANGED <<call, collected, output, thread>>
  BY DEF SetStep, Set, Update, CacheUpdate, Write, CacheWrite, callvars,
         Calling
<1> QED
  BY <1>1 DEF Alone, Shares

LEMMA CollectStray ==
  ASSUME TypeInv, Collect, ~ stray'
  PROVE  ~ stray
<1>1. ASSUME NEW x \in Executor, Join(x) PROVE ~ stray
  BY <1>1, JoinCases
<1>2. ASSUME Return \/ ExitPool \/ \E x \in Executor : AsCompleted(x)
      PROVE  ~ stray
  <2>1. UNCHANGED history
    BY <1>2, Zenon DEF Return, ExitPool, AsCompleted
  <2>2. UNCHANGED stray
    BY <2>1 DEF history
  <2> QED
    BY <2>2, Zenon
<1> QED
  BY <1>1, <1>2, Zenon DEF Collect

LEMMA NextCall == TypeInv /\ CallInv /\ [Next]_vars => CallInv'
<1> SUFFICES ASSUME TypeInv, CallInv, [Next]_vars, ~ stray'
             PROVE  Alone' /\ Shares'
  BY DEF CallInv
<1>1. ASSUME UNCHANGED stray PROVE Alone /\ Shares
  BY <1>1, Zenon DEF CallInv
<1>2. ASSUME NEW c \in Caller, NEW m \in Measured, ProcessParamsMeas(c, m)
      PROVE  Alone' /\ Shares'
  BY <1>1, <1>2, ProcessCall DEF ProcessParamsMeas
<1>3. ASSUME NEW x \in Executor, Thread(x) PROVE Alone' /\ Shares'
  <2>1. UNCHANGED stray
    BY <1>3 DEF Thread, Start, Ask, CacheAnswer, Deliver, history
  <2> QED
    BY <1>1, <1>3, <2>1, ThreadCall
<1>4. CASE Collect
  <2>1. ~ stray
    BY <1>4, CollectStray
  <2> QED
    BY <1>4, <2>1, CollectCall DEF CallInv
<1>5. CASE \/ SetStep
           \/ \E p \in Parameter : \E value \in Value(source[p]) : Set(p, value)
  <2>1. UNCHANGED stray
    BY <1>5 DEF SetStep, Set, Update, CacheUpdate, Write, CacheWrite, history
  <2> QED
    BY <1>1, <1>5, <2>1, SettersCall
<1>6. CASE \/ UNCHANGED vars
           \/ \E r \in Register : \E value \in Value(r) : Turn(r, value)
  <2>1. UNCHANGED <<main, callvars, thread, stray>>
    BY <1>6 DEF vars, mainvars, history, Turn
  <2> QED
    BY <1>1, <2>1 DEF Alone, Shares, callvars
<1> QED
  BY <1>2, <1>3, <1>4, <1>5, <1>6 DEF Next

(* Executors of one call have parameters of different instruments.         *)
LEMMA OneOfInstrument ==
  ASSUME NEW c, NEW m \in Measured, NEW i \in Executors(c, m),
         NEW j \in Executors(c, m), NEW a \in Share(c, m, i),
         NEW b \in Share(c, m, j),
         i = j \/ root_instrument[m[a]] = root_instrument[m[b]]
  PROVE  i = j
<1>1. CASE c = "sequential"
  BY <1>1 DEF Executors
<1>2. CASE c # "sequential"
  <2>1. /\ i \in First(m) /\ j \in First(m)
        /\ root_instrument[m[a]] = root_instrument[m[i]]
        /\ root_instrument[m[b]] = root_instrument[m[j]]
    BY <1>2 DEF Executors, Share, underlying_instrument
  <2>2. i = j \/ root_instrument[m[i]] = root_instrument[m[j]]
    BY <2>1
  <2>3. /\ i \in Nat /\ j \in Nat /\ DOMAIN m = 1..Len(m)
        /\ i \in DOMAIN m /\ j \in DOMAIN m
    BY <2>1, ListOf DEF First
  <2>4. /\ j < i => j \in 1..i - 1
        /\ i < j => i \in 1..j - 1
    BY <2>3
  <2>5. ~ (j < i) \/ i = j
    BY <2>1, <2>2, <2>4 DEF First, underlying_instrument
  <2>6. ~ (i < j) \/ i = j
    BY <2>1, <2>2, <2>4 DEF First, underlying_instrument
  <2> QED
    BY <2>3, <2>5, <2>6
<1> QED
  BY <1>1, <1>2

(* So no two threads are at registers of one instrument, nor share a group *)
(* of registers.                                                           *)
LEMMA ThreadsApart ==
  ASSUME DelegatesAtHome, TypeInv, Alone, Shares, NEW x \in Executor, NEW y \in Executor,
         thread[x].state \in Active, thread[y].state \in Active,
         root_instrument[source[Current(x)]] = root_instrument[source[Current(y)]]
  PROVE  x = y
<1>1. ASSUME NEW z \in Executor, thread[z].state \in Active
      PROVE  /\ z[1] = call /\ z[2] \in Executors(caller, meas)
             /\ Place(z) \in Share(caller, meas, z[2])
             /\ root_instrument[source[Current(z)]] = root_instrument[meas[Place(z)]]
             /\ meas \in Measured /\ z = <<z[1], z[2]>>
  <2>1. thread[z].state # "none" /\ TypeOK /\ ThreadReady(z)
    BY <1>1 DEF Active, TypeInv
  <2>2. /\ Place(z) \in thread[z].todo /\ Current(z) \in Parameter
        /\ thread[z].params \in Measured
    BY <1>1, <2>1, CurrentIs
  <2>3. Current(z) = meas[Place(z)]
    BY <2>1 DEF Current, Shares
  <2>4. root_instrument[source[Current(z)]] = root_instrument[meas[Place(z)]]
    BY <2>2, <2>3 DEF DelegatesAtHome
  <2>5. z = <<z[1], z[2]>>
    BY DEF Executor
  <2> QED
    BY <2>1, <2>2, <2>4, <2>5 DEF Shares, Alone
<1>2. x[2] = y[2]
  BY <1>1, OneOfInstrument
<1> QED
  BY <1>1, <1>2

LEMMA AnswersApart ==
  ASSUME DelegatesAtHome, TypeInv, Alone, Shares, NEW x \in Executor, NEW y \in Executor,
         thread[x].state \in Active,
         NEW q \in group[source[Current(x)]], q \in DOMAIN thread[y].answer
  PROVE  x = y
<1>1. /\ thread[y].state \in {"asked", "stored"}
      /\ q \in group[source[Current(y)]]
  BY DEF TypeInv, ThreadReady
<1>2. thread[y].state \in Active
  BY <1>1 DEF Active
<1>3. source[Current(x)] \in Register /\ source[Current(y)] \in Register
  BY <1>2, CurrentIs DEF TypeInv
<1>4. root_instrument[source[Current(x)]] = root_instrument[source[Current(y)]]
  BY <1>1, <1>3, Registers
<1> QED
  BY <1>2, <1>4, ThreadsApart

LEMMA CallInductive == Spec => []CallInv
BY InitTypes, NextTypes, InitCall, NextCall, PTL DEF Spec

LEMMA OneThreadHolds ==
  ASSUME DelegatesAtHome, TypeInv, CallInv
  PROVE  OneThreadPerInstrument
<1> SUFFICES ASSUME ~ stray, NEW x \in Executor,
                    NEW i \in {root_instrument[p] : p \in Parameter},
                    Using(x, i)
             PROVE  ~ Setting(i) /\ \A y \in Executor : Using(y, i) => x = y
  BY DEF OneThreadPerInstrument
<1>1. Alone /\ Shares
  BY DEF CallInv
<1>2. ASSUME NEW y \in Executor, Using(y, i)
      PROVE  thread[y].state \in Active /\ root_instrument[source[Current(y)]] = i
  BY <1>2 DEF Using, Busy, Active
<1>3. ~ Setting(i)
  BY <1>1, <1>2 DEF Alone, Active, Setting, Calling
<1>4. ASSUME NEW y \in Executor, Using(y, i) PROVE x = y
  BY <1>1, <1>2, <1>4, ThreadsApart
<1> QED
  BY <1>3, <1>4

(* If every delegate is bound to the instrument of its source: however     *)
(* many calls, executors and workers, parameters measured in order, on     *)
(* threads or in a pool, and exchanges that fail, two threads never talk   *)
(* to one instrument, nor a thread and a set, as long as no call on        *)
(* threads has raised over threads that still run (threading.py:49-93,     *)
(* 199-225).                                                               *)
THEOREM OneThread ==
  ASSUME DelegatesAtHome
  PROVE  Spec => []OneThreadPerInstrument
<1>1. TypeInv /\ CallInv => OneThreadPerInstrument
  BY OneThreadHolds
<1> QED
  BY <1>1, TypeCorrect, CallInductive, PTL

-----------------------------------------------------------------------------
(* What the cache has, and what is on its way there.                       *)

CachesHold == \A r \in Register : CacheHolds(r)

LEMMA InitFlux == Init => FluxInv
<1> SUFFICES ASSUME Init PROVE FluxTrue /\ CachesHold
  BY DEF FluxInv, CachesHold
<1>1. \A x \in Executor : DOMAIN thread[x].answer = {}
  BY IdleIs DEF Init
<1>2. DOMAIN held = {} /\ main # "write"
  BY ValuesAre DEF Init
<1>3. \A r \in Register : cache[r] = Unknown
  BY DEF Init
<1> QED
  BY <1>1, <1>2, <1>3 DEF FluxTrue, CachesHold, CacheHolds

(* When no thread has an answer before or after the step.                  *)
LEMMA FluxQuiet ==
  ASSUME FluxTrue, CachesHold,
         UNCHANGED <<device, cache, held, doubted>>,
         main' = "write" => main = "write" /\ op' = op,
         \A x \in Executor : \/ DOMAIN thread[x].answer = {}
                                /\ DOMAIN thread'[x].answer = {}
                             \/ /\ thread'[x].answer = thread[x].answer
                                /\ thread'[x].state = thread[x].state
  PROVE  FluxTrue' /\ CachesHold'
<1>1. \A x \in Executor : DOMAIN thread'[x].answer = DOMAIN thread[x].answer
  OBVIOUS
<1>2. \A r \in Register : InFlux(r) => InFlux(r)'
  BY <1>1 DEF InFlux
<1>3. CachesHold'
  BY <1>2 DEF CachesHold, CacheHolds
<1>4. FluxTrue'
  BY DEF FluxTrue, TrueValue
<1> QED
  BY <1>3, <1>4

LEMMA NoAnswers ==
  ASSUME TypeInv, NEW x \in Executor,
         thread[x].state \notin {"asked", "stored"}
  PROVE  DOMAIN thread[x].answer = {}
BY DEF TypeInv, ThreadReady

LEMMA StartFlux ==
  ASSUME TypeInv, FluxTrue, CachesHold, NEW x \in Executor, Start(x)
  PROVE  FluxTrue' /\ CachesHold'
<1>1. /\ thread[x].state = "ready" /\ thread'[x].answer = thread[x].answer
      /\ OnlyThread(x)
  BY StartDoes DEF TypeInv
<1>2. DOMAIN thread[x].answer = {}
  BY <1>1, NoAnswers
<1>3. UNCHANGED <<device, cache, main, op, held, doubted>>
  BY DEF Start, mainvars, history
<1> QED
  BY <1>1, <1>2, <1>3, FluxQuiet DEF OnlyThread

LEMMA AskFlux ==
  ASSUME DelegatesAtHome, TypeInv, Alone, Shares, FluxTrue, CachesHold,
         NEW x \in Executor, Ask(x)
  PROVE  FluxTrue' /\ CachesHold'
<1> DEFINE g == group[source[Current(x)]]
<1>0. /\ OnlyThread(x) /\ thread[x].state = "running"
      /\ DOMAIN thread[x].answer = {}
      /\ UNCHANGED <<device, cache, main, op, held>>
  BY AskDoes, NoAnswers DEF TypeInv, Ask, mainvars
<1>1. CASE /\ thread'[x].state = "asked"
           /\ thread'[x].answer = Answer(source[Current(x)])
           /\ doubted' = doubted \ g
  <2> DEFINE v == Answer(source[Current(x)])
  <2>1. DOMAIN v = g /\ \A q \in g : v[q] = device[q]
    BY AskDoes, AnswerIs DEF TypeInv
  <2>2. DOMAIN held = {} /\ main # "write"
    BY <1>0, ThreadCall DEF Thread, TypeInv, SetReady, Calling
  <2>3. \A y \in Executor : y # x =>
          /\ thread'[y] = thread[y]
          /\ \A q \in DOMAIN thread[y].answer : q \notin g
    BY <1>0, AnswersApart DEF OnlyThread, Active
  <2> HIDE DEF g, v
  <2>4. thread'[x].answer = v /\ thread'[x].state = "asked"
    BY <1>1 DEF v
  <2>5. FluxTrue'
    <3>1. ASSUME NEW y \in Executor, NEW q \in DOMAIN thread'[y].answer
          PROVE  /\ thread'[y].answer[q] = device'[q] \/ q \in doubted'
                 /\ thread'[y].state = "stored" =>
                      cache'[q] = thread'[y].answer[q]
      <4>1. CASE y = x
        BY <1>0, <2>1, <2>4, <4>1
      <4>2. CASE y # x
        BY <1>0, <1>1, <2>3, <3>1, <4>2 DEF FluxTrue, TrueValue
      <4> QED
        BY <4>1, <4>2
    <3> QED
      BY <1>0, <2>2, <3>1 DEF FluxTrue, TrueValue
  <2>6. ASSUME NEW r \in Register PROVE CacheHolds(r)'
    <3>1. CASE r \in g
      BY <2>1, <2>4, <3>1 DEF CacheHolds, InFlux
    <3>2. CASE r \notin g
      <4>1. InFlux(r) => InFlux(r)'
        BY <1>0, <2>3 DEF InFlux
      <4> QED
        BY <1>0, <1>1, <3>2, <4>1 DEF CachesHold, CacheHolds
    <3> QED
      BY <3>1, <3>2
  <2> QED
    BY <2>5, <2>6 DEF CachesHold
<1>2. CASE /\ thread'[x].state = "failed" /\ thread'[x].answer = thread[x].answer
           /\ doubted' = doubted
  BY <1>0, <1>2, FluxQuiet DEF OnlyThread
<1> QED
  BY <1>1, <1>2, AskDoes DEF TypeInv

LEMMA CacheAnswerFlux ==
  ASSUME DelegatesAtHome, TypeInv, Alone, Shares, FluxTrue, CachesHold,
         NEW x \in Executor, CacheAnswer(x)
  PROVE  FluxTrue' /\ CachesHold'
<1> DEFINE v == thread[x].answer
<1>0. /\ OnlyThread(x) /\ thread[x].state = "asked"
      /\ cache' = Stored(v) /\ v \in Values
      /\ thread'[x].state = "stored" /\ thread'[x].answer = v
      /\ UNCHANGED <<device, main, op, held, doubted>>
  BY CacheAnswerDoes DEF TypeInv, CacheAnswer, mainvars, history
<1>1. DOMAIN held = {} /\ main # "write"
  BY <1>0, ThreadCall DEF Thread, TypeInv, SetReady, Calling
<1>2. /\ \A q \in Register : q \in DOMAIN v => cache'[q] = v[q]
      /\ \A q \in Register : q \notin DOMAIN v => cache'[q] = cache[q]
      /\ DOMAIN v \subseteq Register
  BY <1>0, StoredIs, ValuesAre DEF TypeInv
<1>3. ASSUME NEW y \in Executor, y # x
      PROVE  /\ thread'[y] = thread[y]
             /\ \A q \in DOMAIN thread[y].answer : q \notin DOMAIN v /\ q \in Register
  <2>1. DOMAIN v = group[source[Current(x)]]
    BY <1>0 DEF TypeInv, ThreadReady
  <2>2. \A q \in DOMAIN thread[y].answer : q \notin DOMAIN v
    BY <1>0, <1>3, <2>1, AnswersApart DEF Active
  <2>3. DOMAIN thread[y].answer \subseteq Register
    BY ValuesAre DEF TypeInv, TypeOK, ThreadType
  <2> QED
    BY <1>0, <1>3, <2>2, <2>3 DEF OnlyThread
<1>4. \A q \in DOMAIN v : TrueValue(v, q)
  BY DEF FluxTrue
<1> HIDE DEF v
<1>5. FluxTrue'
  <2>1. ASSUME NEW y \in Executor, NEW q \in DOMAIN thread'[y].answer
        PROVE  /\ thread'[y].answer[q] = device'[q] \/ q \in doubted'
               /\ thread'[y].state = "stored" =>
                    cache'[q] = thread'[y].answer[q]
    <3>1. CASE y = x
      BY <1>0, <1>2, <1>4, <2>1, <3>1 DEF TrueValue
    <3>2. CASE y # x
      BY <1>0, <1>2, <1>3, <2>1, <3>2 DEF FluxTrue, TrueValue
    <3> QED
      BY <3>1, <3>2
  <2> QED
    BY <1>0, <1>1, <2>1 DEF FluxTrue, TrueValue
<1>6. ASSUME NEW r \in Register PROVE CacheHolds(r)'
  <2>1. CASE r \in DOMAIN v
    BY <1>0, <2>1 DEF CacheHolds, InFlux
  <2>2. CASE r \notin DOMAIN v
    <3>1. InFlux(r) => InFlux(r)'
      BY <1>0, <1>3, <2>2 DEF InFlux, v
    <3> QED
      BY <1>0, <1>2, <2>2, <3>1 DEF CachesHold, CacheHolds
  <2> QED
    BY <2>1, <2>2
<1> QED
  BY <1>5, <1>6 DEF CachesHold

(* The value that is delivered is the one that was cached.                 *)
LEMMA DeliveredIs ==
  ASSUME TypeInv, FluxTrue, NEW x \in Executor, Deliver(x)
  PROVE  /\ source[Current(x)] \in Register
         /\ source[Current(x)] \in DOMAIN thread[x].answer
         /\ Delivered(x) = cache[source[Current(x)]]
         /\ Delivered(x) = thread[x].answer[source[Current(x)]]
         /\ cache' = cache
<1> DEFINE r == source[Current(x)]
<1>1. /\ thread[x].state = "stored" /\ r \in Register
      /\ cache' = [cache EXCEPT ![r] = Delivered(x)]
  BY DeliverDoes DEF TypeInv
<1>2. r \in DOMAIN thread[x].answer
  BY <1>1, Registers DEF TypeInv, ThreadReady
<1>3. cache[r] = thread[x].answer[r]
  BY <1>1, <1>2 DEF FluxTrue
<1>4. Delivered(x) = cache[r]
  BY <1>3 DEF Delivered
<1>5. cache' = cache
  BY <1>1, <1>4 DEF TypeInv, TypeOK, DeviceTypes
<1> QED
  BY <1>1, <1>2, <1>3, <1>4, <1>5

LEMMA DeliverFlux ==
  ASSUME TypeInv, Alone, Shares, FluxTrue, CachesHold,
         NEW x \in Executor, Deliver(x)
  PROVE  FluxTrue' /\ CachesHold'
<1>0. /\ OnlyThread(x) /\ thread[x].state = "stored"
      /\ DOMAIN thread'[x].answer = {} /\ cache' = cache
      /\ UNCHANGED <<device, main, op, held, doubted>>
  BY DeliverDoes, DeliveredIs DEF TypeInv, Deliver, mainvars, history
<1>1. DOMAIN held = {} /\ main # "write"
  BY <1>0, ThreadCall DEF Thread, TypeInv, SetReady, Calling
<1>2. \A y \in Executor : y # x => thread'[y] = thread[y]
  BY <1>0 DEF OnlyThread
<1>3. FluxTrue'
  BY <1>0, <1>1, <1>2 DEF FluxTrue, TrueValue
<1>4. ASSUME NEW r \in Register PROVE CacheHolds(r)'
  <2>1. CASE r \in DOMAIN thread[x].answer
    BY <1>0, <2>1 DEF FluxTrue, TrueValue, CacheHolds
  <2>2. CASE r \notin DOMAIN thread[x].answer
    <3>1. InFlux(r) => InFlux(r)'
      BY <1>0, <1>2, <2>2 DEF InFlux
    <3> QED
      BY <1>0, <3>1 DEF CachesHold, CacheHolds
  <2> QED
    BY <2>1, <2>2
<1> QED
  BY <1>3, <1>4 DEF CachesHold

LEMMA CollectFlux ==
  ASSUME TypeInv, FluxTrue, CachesHold, Collect
  PROVE  FluxTrue' /\ CachesHold'
<1>1. UNCHANGED <<device, cache, held, doubted>> /\ main' # "write"
  BY DEF Collect, Join, AsCompleted, Return, ExitPool, EndCall, Takes, history
<1>2. \/ UNCHANGED thread
      \/ thread' = [x \in Executor |-> IF Over(x) THEN Idle ELSE thread[x]]
  BY DEF Collect, Join, AsCompleted, Return, ExitPool, EndCall, Takes
<1>3. ASSUME NEW x \in Executor
      PROVE  \/ DOMAIN thread[x].answer = {} /\ DOMAIN thread'[x].answer = {}
             \/ /\ thread'[x].answer = thread[x].answer
                /\ thread'[x].state = thread[x].state
  <2>1. CASE thread'[x] = thread[x]
    BY <2>1
  <2>2. CASE thread'[x] = Idle /\ Over(x)
    BY <2>2, IdleIs, NoAnswers DEF Over
  <2> QED
    BY <1>2, <2>1, <2>2
<1> QED
  BY <1>1, <1>3, FluxQuiet

LEMMA CallSetFlux ==
  ASSUME TypeInv, Alone, FluxTrue, CachesHold,
         \/ \E c \in Caller, m \in Measured : ProcessParamsMeas(c, m)
         \/ \E p \in Parameter : \E value \in Value(source[p]) : Set(p, value)
  PROVE  FluxTrue' /\ CachesHold'
<1>0. DOMAIN held = {} /\ main = "idle"
      /\ \A x \in Executor : DOMAIN thread[x].answer = {}
  BY NoAnswers DEF ProcessParamsMeas, Set, TypeInv, SetReady, Alone, Calling
<1>1. ASSUME NEW c \in Caller, NEW m \in Measured, ProcessParamsMeas(c, m)
      PROVE  FluxTrue' /\ CachesHold'
  <2>1. /\ UNCHANGED <<device, cache, held, doubted>> /\ main' # "write"
        /\ thread' = [x \in Executor |->
             IF x[1] = call + 1 /\ x[2] \in Executors(c, m)
               THEN [Idle EXCEPT !.state = "ready", !.params = m,
                                 !.todo = Share(c, m, x[2])]
               ELSE thread[x]]
    BY <1>1 DEF ProcessParamsMeas
  <2>2. \A x \in Executor : DOMAIN thread'[x].answer = {}
    BY <1>0, <2>1, ValuesAre DEF Idle
  <2> QED
    BY <1>0, <2>1, <2>2, FluxQuiet
<1>2. ASSUME NEW p \in Parameter, NEW value \in Value(source[p]), Set(p, value)
      PROVE  FluxTrue' /\ CachesHold'
  <2>1. /\ UNCHANGED <<device, cache, held, doubted, thread>>
        /\ op'.param = source[p] /\ op'.at = cache[source[p]]
    BY <1>2 DEF Set
  <2>2. \A r \in Register : InFlux(r)' <=> InFlux(r)
    BY <2>1 DEF InFlux
  <2>3. CachesHold'
    BY <2>1, <2>2 DEF CachesHold, CacheHolds
  <2>4. FluxTrue'
    BY <1>0, <2>1 DEF FluxTrue, TrueValue
  <2> QED
    BY <2>3, <2>4
<1> QED
  BY <1>1, <1>2

(* The steps of a set are alone with the cache.                            *)
LEMMA SetAlone ==
  ASSUME TypeInv, Alone, SetStep
  PROVE  /\ \A x \in Executor : DOMAIN thread[x].answer = {}
         /\ op.param \in Register /\ op.param \in group[op.param]
         /\ group[op.param] \subseteq Register
         /\ thread' = thread /\ held \in Values
         /\ main \in {"update", "write"} => DOMAIN held = {}
         /\ main \in {"cache_update", "cache_write"} =>
              DOMAIN held = group[op.param]
<1>1. main \in Setters /\ thread' = thread
  BY DEF SetStep, Update, CacheUpdate, Write, CacheWrite, Setters
<1>2. \A x \in Executor : DOMAIN thread[x].answer = {}
  BY <1>1, NoAnswers DEF Alone, Calling, Setters
<1>3. op.param \in Register /\ held \in Values
  BY <1>1 DEF TypeInv, SetReady, TypeOK, MainTypes
<1> QED
  BY <1>1, <1>2, <1>3, Registers DEF TypeInv, SetReady

LEMMA UpdateFlux ==
  ASSUME TypeInv, Alone, FluxTrue, CachesHold, Update
  PROVE  FluxTrue' /\ CachesHold'
<1> DEFINE r == op.param
<1>0. /\ \A x \in Executor : DOMAIN thread[x].answer = {}
      /\ r \in Register /\ thread' = thread /\ DOMAIN held = {}
  BY SetAlone DEF SetStep, Update
<1>1. UNCHANGED <<device, cache, op>> /\ main' # "write"
  BY DEF Update
<1>2. CASE held' = Answer(r) /\ doubted' = doubted \ group[r]
  <2>1. DOMAIN held' = group[r] /\ \A q \in group[r] : held'[q] = device[q]
    BY <1>0, <1>2, AnswerIs DEF TypeInv
  <2>2. FluxTrue'
    BY <1>0, <1>1, <2>1 DEF FluxTrue, TrueValue
  <2>3. ASSUME NEW q \in Register PROVE CacheHolds(q)'
    <3>1. InFlux(q) => InFlux(q)'
      BY <1>0 DEF InFlux
    <3>2. q \in group[r] => InFlux(q)'
      BY <2>1 DEF InFlux
    <3> QED
      BY <1>1, <1>2, <3>1, <3>2 DEF CachesHold, CacheHolds
  <2> QED
    BY <2>2, <2>3 DEF CachesHold
<1>3. CASE held' = held /\ doubted' = doubted
  BY <1>0, <1>1, <1>3, FluxQuiet
<1> QED
  BY <1>2, <1>3 DEF Update

(* Held values go into the caches.                                         *)
LEMMA StoreFlux ==
  ASSUME TypeInv, Alone, FluxTrue, CachesHold, SetStep,
         main \in {"cache_update", "cache_write"},
         cache' = Stored(held), held' = NoAnswer, UNCHANGED <<device, doubted>>,
         op'.param = op.param, op'.at = cache'[op.param]
  PROVE  FluxTrue' /\ CachesHold'
<1>0. /\ \A x \in Executor : DOMAIN thread[x].answer = {}
      /\ thread' = thread /\ held \in Values
      /\ DOMAIN held' = {}
  BY SetAlone, ValuesAre
<1>1. /\ \A q \in Register : q \in DOMAIN held => cache'[q] = held[q]
      /\ \A q \in Register : q \notin DOMAIN held => cache'[q] = cache[q]
  BY <1>0, StoredIs DEF TypeInv
<1>2. \A q \in DOMAIN held : held[q] = device[q] \/ q \in doubted
  BY DEF FluxTrue, TrueValue
<1>3. ASSUME NEW r \in Register PROVE CacheHolds(r)'
  <2>1. InFlux(r) => r \in DOMAIN held
    BY <1>0 DEF InFlux
  <2> QED
    BY <1>1, <1>2, <2>1 DEF CachesHold, CacheHolds
<1>4. FluxTrue'
  BY <1>0 DEF FluxTrue
<1> QED
  BY <1>3, <1>4 DEF CachesHold

LEMMA CacheStepsFlux ==
  ASSUME TypeInv, Alone, FluxTrue, CachesHold, CacheUpdate \/ CacheWrite
  PROVE  FluxTrue' /\ CachesHold'
<1>0. /\ SetStep /\ main \in {"cache_update", "cache_write"}
      /\ cache' = Stored(held) /\ held' = NoAnswer
      /\ UNCHANGED <<device, doubted>>
  BY DEF SetStep, CacheUpdate, CacheWrite, history
<1>1. /\ op.param \in Register /\ op.param \in DOMAIN held /\ held \in Values
      /\ op \in [param : Register \union {""}, target : Nat,
                 at : Nat \union {Unknown}]
  BY <1>0, SetAlone DEF TypeInv, TypeOK, MainTypes
<1>2. cache'[op.param] = held[op.param]
  BY <1>0, <1>1, StoredIs DEF TypeInv
<1>3. op' = [op EXCEPT !.at = cache'[op.param]]
  BY <1>2 DEF CacheUpdate, CacheWrite
<1>4. op'.param = op.param /\ op'.at = cache'[op.param]
  BY <1>1, <1>3
<1> QED
  BY <1>0, <1>4, StoreFlux

LEMMA WriteFlux ==
  ASSUME TypeInv, Alone, FluxTrue, CachesHold, Write
  PROVE  FluxTrue' /\ CachesHold'
<1> DEFINE g == group[op.param]
           v == Command
<1>0. /\ \A x \in Executor : DOMAIN thread[x].answer = {}
      /\ thread' = thread /\ DOMAIN held = {} /\ g \subseteq Register
  BY SetAlone DEF SetStep, Write
<1>1. /\ UNCHANGED <<cache, op>> /\ main' # "write"
  BY DEF Write
<1>2. DOMAIN v = g
  BY CommandIs DEF Write
<1>3. Written => /\ \A q \in g : device'[q] = v[q]
                 /\ \A q \in Register : q \notin g => device'[q] = device[q]
  BY <1>0, <1>2 DEF Written
<1> HIDE DEF v, g
<1>4. CASE Written /\ held' = v /\ doubted' = doubted \ g
  <2>1. FluxTrue'
    BY <1>0, <1>1, <1>2, <1>3, <1>4 DEF FluxTrue, TrueValue
  <2>2. ASSUME NEW r \in Register PROVE CacheHolds(r)'
    <3>1. r \in g => InFlux(r)'
      BY <1>2, <1>4 DEF InFlux
    <3>2. InFlux(r) => InFlux(r)'
      BY <1>0 DEF InFlux
    <3> QED
      BY <1>1, <1>3, <1>4, <3>1, <3>2 DEF CachesHold, CacheHolds
  <2> QED
    BY <2>1, <2>2 DEF CachesHold
<1>5. CASE held' = held /\ device' = device /\ doubted' = doubted
  BY <1>0, <1>1, <1>5, FluxQuiet
<1>6. CASE held' = held /\ Written /\ doubted' = doubted \union g
  <2>1. FluxTrue'
    BY <1>0, <1>1, <1>6 DEF FluxTrue
  <2>2. ASSUME NEW r \in Register PROVE CacheHolds(r)'
    <3>1. InFlux(r) => InFlux(r)'
      BY <1>0, <1>6 DEF InFlux
    <3> QED
      BY <1>1, <1>3, <1>6, <3>1 DEF CachesHold, CacheHolds
  <2> QED
    BY <2>1, <2>2 DEF CachesHold
<1> QED
  BY <1>4, <1>5, <1>6 DEF Write, v, g

LEMMA TurnFlux ==
  ASSUME TypeInv, FluxTrue, CachesHold, NEW r \in Register, NEW value,
         Turn(r, value)
  PROVE  FluxTrue' /\ CachesHold'
<1>1. /\ device' = [device EXCEPT ![r] = value] /\ doubted' = doubted \union {r}
      /\ UNCHANGED <<cache, main, op, held, thread>>
  BY DEF Turn, mainvars
<1>2. /\ \A q \in Register : q # r => device'[q] = device[q]
      /\ DOMAIN held \subseteq Register
      /\ \A x \in Executor : DOMAIN thread[x].answer \subseteq Register
  BY <1>1, ValuesAre
  DEF TypeInv, TypeOK, DeviceTypes, MainTypes, ThreadType
<1>3. \A q \in Register : InFlux(q) <=> InFlux(q)'
  BY <1>1 DEF InFlux
<1>4. FluxTrue'
  BY <1>1, <1>2 DEF FluxTrue, TrueValue
<1>5. CachesHold'
  BY <1>1, <1>2, <1>3 DEF CachesHold, CacheHolds
<1> QED
  BY <1>4, <1>5

LEMMA NextFlux ==
  ASSUME DelegatesAtHome
  PROVE  TypeInv /\ CallInv /\ FluxInv /\ [Next]_vars => FluxInv'
<1> SUFFICES ASSUME TypeInv, CallInv, FluxInv, [Next]_vars, ~ stray'
             PROVE  FluxTrue' /\ CachesHold'
  BY DEF FluxInv, CachesHold
<1>1. ASSUME UNCHANGED stray
      PROVE  Alone /\ Shares /\ FluxTrue /\ CachesHold
  BY <1>1, Zenon DEF CallInv, FluxInv, CachesHold
<1>2. ASSUME \/ \E c \in Caller, m \in Measured : ProcessParamsMeas(c, m)
             \/ \E p \in Parameter : \E value \in Value(source[p]) : Set(p, value)
      PROVE  FluxTrue' /\ CachesHold'
  <2>1. UNCHANGED stray
    BY <1>2 DEF ProcessParamsMeas, Set
  <2> QED
    BY <1>1, <1>2, <2>1, CallSetFlux
<1>3. ASSUME NEW x \in Executor, Thread(x) PROVE FluxTrue' /\ CachesHold'
  <2>1. UNCHANGED stray
    BY <1>3 DEF Thread, Start, Ask, CacheAnswer, Deliver, history
  <2> QED
    BY <1>1, <1>3, <2>1, StartFlux, AskFlux, CacheAnswerFlux, DeliverFlux
    DEF Thread
<1>4. CASE Collect
  <2>1. ~ stray
    BY <1>4, CollectStray
  <2> QED
    BY <1>4, <2>1, CollectFlux DEF FluxInv, CachesHold
<1>5. CASE SetStep
  <2>1. UNCHANGED stray
    BY <1>5 DEF SetStep, Update, CacheUpdate, Write, CacheWrite, history
  <2> QED
    BY <1>1, <1>5, <2>1, UpdateFlux, CacheStepsFlux, WriteFlux DEF SetStep
<1>6. ASSUME NEW r \in Register, NEW value \in Value(r), Turn(r, value)
      PROVE  FluxTrue' /\ CachesHold'
  <2>1. UNCHANGED stray
    BY <1>6 DEF Turn
  <2> QED
    BY <1>1, <1>6, <2>1, TurnFlux
<1>7. CASE UNCHANGED vars
  <2>1. UNCHANGED <<device, cache, main, op, held, doubted, thread, stray>>
    BY <1>7 DEF vars, mainvars, history
  <2> QED
    BY <1>1, <2>1, FluxQuiet
<1> QED
  BY <1>2, <1>3, <1>4, <1>5, <1>6, <1>7 DEF Next

LEMMA FluxInductive ==
  ASSUME DelegatesAtHome
  PROVE  Spec => []FluxInv
<1>1. TypeInv /\ CallInv /\ FluxInv /\ [Next]_vars => FluxInv'
  BY NextFlux
<1> QED
  BY <1>1, InitFlux, TypeCorrect, CallInductive, PTL DEF Spec

(* As long as no call on threads has raised over threads that still run,   *)
(* and if every delegate is bound to its source's instrument, the cache of *)
(* every parameter is empty or has what the instrument has, through        *)
(* measurements of whole groups on threads, sets, ramps and failures at    *)
(* any point, but for knobs turned and commands that got through although  *)
(* they raised (group_parameter.py:268-310, parameter_base.py:678-753).    *)
THEOREM CacheIsTrue ==
  ASSUME DelegatesAtHome
  PROVE  Spec => []CacheTrue
<1>1. FluxInv => CacheTrue
  BY DEF FluxInv, CacheTrue, CacheHolds
<1> QED
  BY <1>1, FluxInductive, PTL

(* A write that nobody doubts changes the register that was to be set, by  *)
(* no more than its step.                                                  *)
LEMMA WriteMoves ==
  ASSUME TypeInv, CallInv, FluxInv, [Next]_vars,
         main = "write", main' # "write", ~ stray,
         NEW r \in Register, r \notin doubted, device'[r] # device[r]
  PROVE  /\ r = op.param
         /\ r \in ramped => device'[r] - device[r] \in {-1, 1}
<1>0. Alone /\ FluxTrue /\ CacheHolds(r)
  BY DEF CallInv, FluxInv
<1>1. \A x \in Executor : DOMAIN thread[x].answer = {} /\ ~ Thread(x)
  <2>1. \A x \in Executor : thread[x].state = "none"
    BY <1>0 DEF Alone, Calling
  <2> QED
    BY <2>1, NoAnswers DEF Thread, Start, Ask, CacheAnswer, Deliver
<1>2. Write
  <2>1. main' # main
    OBVIOUS
  <2>2. ~ UNCHANGED vars
    BY <2>1 DEF vars, mainvars
  <2>3. ~ SetStep => FALSE
    BY <1>1, <2>2 DEF Next, ProcessParamsMeas, Collect, Join, AsCompleted,
                      Return, ExitPool, Set, Turn, mainvars
  <2> QED
    BY <2>3 DEF SetStep, Update, CacheUpdate, CacheWrite
<1>3. Written
  BY <1>2 DEF Write
<1>4. /\ op.param \in Register /\ op.target \in Nat /\ DOMAIN Command = group[op.param]
      /\ Command[op.param] = Step
      /\ \A q \in group[op.param] : q # op.param =>
           Command[q] = cache[q] /\ cache[q] # Unknown
  BY CommandIs
<1>5. r \in group[op.param] /\ device'[r] = Command[r]
  BY <1>3, <1>4 DEF Written
<1>6. cache[r] \in {Unknown, device[r]}
  <2>1. DOMAIN held = {}
    BY DEF TypeInv, SetReady
  <2> QED
    BY <1>0, <1>1, <2>1 DEF CacheHolds, InFlux
<1>7. r = op.param
  BY <1>4, <1>5, <1>6
<1>8. ASSUME r \in ramped PROVE device'[r] - device[r] \in {-1, 1}
  <2>1. op.at = cache[r] /\ op.at # Unknown
    BY <1>0, <1>7, <1>8 DEF FluxTrue, TypeInv, SetReady
  <2>2. op.at = device[r] /\ device[r] \in Nat
    BY <1>6, <2>1 DEF TypeInv, TypeOK, DeviceTypes
  <2> DEFINE a == op.at
             g == op.target
             d == device'[r]
  <2>3. d = IF a = g THEN g ELSE IF a < g THEN a + 1 ELSE a - 1
    <3>1. r = op.param /\ op.param \in ramped
      BY <1>7, <1>8
    <3>2. d = Step
      BY <1>4, <1>5, <1>7
    <3> QED
      BY <2>1, <3>1, <3>2 DEF Step
  <2>4. a \in Nat /\ g \in Nat /\ d # a
    BY <1>4, <2>2
  <2> HIDE DEF a, g, d
  <2>5. d - a \in {-1, 1}
    BY <2>3, <2>4
  <2> QED
    BY <2>2, <2>5 DEF a, d
<1> QED
  BY <1>7, <1>8

(* Under the same conditions a command changes no other register than the  *)
(* one that is set, although it names the whole group, and a parameter     *)
(* with a step moves by no more than that (group_parameter.py:271-274,     *)
(* parameter_base.py:761-801).                                             *)
THEOREM NoSiblingMoves ==
  ASSUME DelegatesAtHome
  PROVE  Spec => MovesAsAsked
<1>1. TypeInv /\ CallInv /\ FluxInv /\ [Next]_vars =>
        [ main = "write" /\ main' # "write" /\ ~ stray =>
            \A r \in Register \ doubted :
              device'[r] # device[r] =>
                /\ r = op.param
                /\ r \in ramped => device'[r] - device[r] \in {-1, 1} ]_vars
  BY WriteMoves
<1> QED
  BY <1>1, TypeCorrect, CallInductive, FluxInductive, PTL
  DEF Spec, MovesAsAsked

-----------------------------------------------------------------------------
(* What outputs tell.                                                      *)

LEMMA TellsNothing ==
  ASSUME NEW m, NEW had
  PROVE  Tells(<<>>, {}, m, had)
BY DEF Tells

LEMMA TellsStill ==
  ASSUME NEW out \in Seq(Entry), NEW places, NEW m, NEW had, NEW had2,
         Tells(out, places, m, had),
         \A r \in Register : had[r] \subseteq had2[r]
  PROVE  Tells(out, places, m, had2)
<1>1. ASSUME NEW j \in DOMAIN out PROVE source[out[j].param] \in Register
  <2>1. out[j] \in Entry
    OBVIOUS
  <2>2. out[j].param \in Parameter
    BY <2>1 DEF Entry
  <2> QED
    BY <2>2, Registers
<1> QED
  BY <1>1 DEF Tells

LEMMA TellsOneMore ==
  ASSUME NEW out \in Seq(Entry), NEW places, NEW m, NEW had, NEW e \in Entry,
         Tells(out, places, m, had), e.at \notin places,
         e.param = m[e.at], e.value \in had[source[e.param]]
  PROVE  Tells(Append(out, e), places \union {e.at}, m, had)
<1> DEFINE new == Append(out, e)
           n == Len(out)
<1>1. /\ n \in Nat /\ DOMAIN out = 1..n /\ DOMAIN new = 1..(n + 1)
      /\ \A j \in 1..n : new[j] = out[j]
      /\ new[n + 1] = e
  OBVIOUS
<1> HIDE DEF new, n
<1>2. \A j \in DOMAIN new : j \in DOMAIN out \/ j = n + 1
  BY <1>1
<1>3. /\ \A j \in DOMAIN out : j \in DOMAIN new /\ new[j] = out[j]
      /\ n + 1 \in DOMAIN new
  BY <1>1
<1>4. \A i \in places \union {e.at} : \E j \in DOMAIN new : new[j].at = i
  BY <1>1, <1>3 DEF Tells
<1>5. \A j, k \in DOMAIN new : new[j].at = new[k].at => j = k
  BY <1>1, <1>2, <1>3 DEF Tells
<1>6. ASSUME NEW j \in DOMAIN new
      PROVE  /\ new[j].at \in places \union {e.at}
             /\ new[j].param = m[new[j].at]
             /\ new[j].value \in had[source[new[j].param]]
  <2>1. CASE j \in DOMAIN out
    BY <1>3, <2>1 DEF Tells
  <2>2. CASE j = n + 1
    BY <1>1, <2>2
  <2> QED
    BY <1>2, <2>1, <2>2
<1>7. Tells(new, places \union {e.at}, m, had)
  BY <1>4, <1>5, <1>6 DEF Tells
<1> QED
  BY <1>7 DEF new

LEMMA TellsBoth ==
  ASSUME NEW a \in Seq(Entry), NEW b \in Seq(Entry), NEW P, NEW Q, NEW m, NEW had,
         Tells(a, P, m, had), Tells(b, Q, m, had), P \cap Q = {}
  PROVE  Tells(a \o b, P \union Q, m, had)
<1> DEFINE c == a \o b
           n == Len(a)
           l == Len(b)
<1>1. /\ n \in Nat /\ l \in Nat
      /\ DOMAIN a = 1..n /\ DOMAIN b = 1..l /\ DOMAIN c = 1..(n + l)
      /\ \A j \in 1..n : c[j] = a[j]
      /\ \A j \in n + 1..n + l : c[j] = b[j - n]
  OBVIOUS
<1> HIDE DEF c, n, l
<1>2. ASSUME NEW j \in DOMAIN c
      PROVE  \/ j \in DOMAIN a /\ c[j] = a[j]
             \/ j - n \in DOMAIN b /\ c[j] = b[j - n]
  BY <1>1
<1>3. /\ \A j \in DOMAIN a : j \in DOMAIN c /\ c[j] = a[j]
      /\ \A j \in DOMAIN b : n + j \in DOMAIN c /\ c[n + j] = b[j]
  BY <1>1
<1>4. /\ \A j \in DOMAIN a : a[j].at \in P
      /\ \A j \in DOMAIN b : b[j].at \in Q
  BY DEF Tells
<1>5. \A i \in P \union Q : \E j \in DOMAIN c : c[j].at = i
  BY <1>3 DEF Tells
<1>6. ASSUME NEW j \in DOMAIN c, NEW k \in DOMAIN c, c[j].at = c[k].at
      PROVE  j = k
  <2>1. CASE j \in DOMAIN a /\ c[j] = a[j] /\ k \in DOMAIN a /\ c[k] = a[k]
    BY <1>6, <2>1 DEF Tells
  <2>2. CASE j - n \in DOMAIN b /\ c[j] = b[j - n] /\ k - n \in DOMAIN b /\ c[k] = b[k - n]
    <3>1. j - n = k - n
      BY <1>6, <2>2 DEF Tells
    <3> QED
      BY <1>1, <3>1
  <2>3. ~ (j \in DOMAIN a /\ c[j] = a[j] /\ k - n \in DOMAIN b /\ c[k] = b[k - n])
    BY <1>4, <1>6
  <2>4. ~ (k \in DOMAIN a /\ c[k] = a[k] /\ j - n \in DOMAIN b /\ c[j] = b[j - n])
    BY <1>4, <1>6
  <2> QED
    BY <1>2, <2>1, <2>2, <2>3, <2>4
<1>7. ASSUME NEW j \in DOMAIN c
      PROVE  /\ c[j].at \in P \union Q
             /\ c[j].param = m[c[j].at]
             /\ c[j].value \in had[source[c[j].param]]
  <2>1. CASE j \in DOMAIN a /\ c[j] = a[j]
    BY <2>1 DEF Tells
  <2>2. CASE j - n \in DOMAIN b /\ c[j] = b[j - n]
    BY <2>2 DEF Tells
  <2> QED
    BY <1>2, <2>1, <2>2
<1>8. Tells(c, P \union Q, m, had)
  BY <1>5, <1>6, <1>7 DEF Tells
<1> QED
  BY <1>8 DEF c

(* Every position is in the share of an executor.                          *)
LEMMA SharesCover ==
  ASSUME NEW c, NEW m \in Measured, NEW i \in DOMAIN m
  PROVE  \E k \in Executors(c, m) : i \in Share(c, m, k)
<1>1. CASE c = "sequential"
  BY <1>1 DEF Executors, Share
<1>2. CASE c # "sequential"
  <2> DEFINE S == {j \in DOMAIN m : underlying_instrument(m[j])
                                    = underlying_instrument(m[i])}
  <2>1. S \in SUBSET Nat /\ i \in S /\ DOMAIN m = 1..Len(m) /\ Len(m) \in Nat
    BY ListOf
  <2>2. PICK k \in S : \A n \in S : k <= n
    BY <2>1, LeastOf
  <2>3. ASSUME NEW j \in 1..k - 1
        PROVE  underlying_instrument(m[j]) # underlying_instrument(m[k])
    <3>1. j \in DOMAIN m /\ ~ (k <= j)
      BY <2>1, <2>2
    <3>2. j \notin S
      BY <2>2, <3>1
    <3> QED
      BY <2>2, <3>1, <3>2
  <2>4. k \in First(m)
    BY <2>2, <2>3 DEF First
  <2>5. i \in Share(c, m, k)
    BY <2>2 DEF Share
  <2> QED
    BY <1>2, <2>4, <2>5 DEF Executors
<1> QED
  BY <1>1, <1>2

(* Different threads have different positions.                             *)
LEMMA SharesApart ==
  ASSUME TypeInv, Alone, Shares, main \in Calling,
         NEW x \in Executor, NEW y \in Executor, x # y,
         thread[x].state # "none", thread[y].state # "none"
  PROVE  Share(caller, meas, x[2]) \cap Share(caller, meas, y[2]) = {}
<1>1. /\ x[1] = call /\ y[1] = call /\ meas \in Measured
      /\ x[2] \in Executors(caller, meas) /\ y[2] \in Executors(caller, meas)
  BY DEF Alone, Shares
<1>2. x = <<x[1], x[2]>> /\ y = <<y[1], y[2]>>
  BY DEF Executor
<1>3. x[2] # y[2]
  BY <1>1, <1>2
<1> SUFFICES ASSUME NEW a \in Share(caller, meas, x[2]),
                    a \in Share(caller, meas, y[2])
             PROVE  FALSE
  OBVIOUS
<1> QED
  BY <1>1, <1>3, OneOfInstrument

LEMMA InitTold == Init => ToldInv
<1> SUFFICES ASSUME Init PROVE SeenAll /\ Told
  BY DEF ToldInv
<1>1. \A x \in Executor : thread[x].state = "none" /\ DOMAIN thread[x].answer = {}
  BY IdleIs DEF Init
<1>2. main \notin Calling /\ returned = <<>>
  BY DEF Init, Calling
<1> QED
  BY <1>1, <1>2 DEF SeenAll, Told

(* When outputs, calls and threads stay, and what was seen is not lost.    *)
LEMMA ToldQuiet ==
  ASSUME TypeInv, SeenAll, Told,
         UNCHANGED <<main, caller, meas, collected, output, returned>>,
         \A r \in Register : seen[r] \subseteq seen'[r],
         main \in Calling => \A r \in Register : device'[r] \in seen'[r],
         \A x \in Executor :
           /\ thread'[x].output = thread[x].output
           /\ thread'[x].todo = thread[x].todo
           /\ thread[x].state = "none" => thread'[x].state = "none"
           /\ thread'[x].state = "done" => thread[x].state = "done"
           /\ \A q \in DOMAIN thread'[x].answer :
                q \in Register /\ thread'[x].answer[q] \in seen'[q]
  PROVE  SeenAll' /\ Told'
<1>1. SeenAll'
  BY DEF SeenAll
<1>2. ASSUME NEW out \in Seq(Entry), NEW places, Tells(out, places, meas, seen)
      PROVE  Tells(out, places, meas, seen')
  BY <1>2, TellsStill
<1>3. ASSUME NEW x \in Executor, thread'[x].state # "none"
      PROVE  Tells(thread'[x].output,
                   Share(caller, meas, x[2]) \ thread'[x].todo, meas, seen')
  <2>1. thread[x].output \in Seq(Entry)
    BY DEF TypeInv, TypeOK, ThreadType
  <2> QED
    BY <1>2, <1>3, <2>1 DEF Told
<1>4. Covered' = Covered
  BY DEF Covered
<1>5. main' \in Calling => Tells(output', Covered', meas', seen')
  BY <1>2, <1>4 DEF Told, TypeInv, TypeOK, CallTypes
<1>6. returned' # <<>> =>
        main' = "idle" /\ Tells(returned', DOMAIN meas, meas, seen')
  BY <1>2 DEF Told, TypeInv, TypeOK, CallTypes
<1>7. \A x \in Executor : thread'[x].state = "done" => thread'[x].todo = {}
  BY DEF Told
<1> QED
  BY <1>1, <1>3, <1>5, <1>6, <1>7 DEF Told

LEMMA AnswersIn ==
  ASSUME TypeInv, NEW x \in Executor
  PROVE  DOMAIN thread[x].answer \subseteq Register
BY ValuesAre DEF TypeInv, TypeOK, ThreadType

LEMMA ProcessTold ==
  ASSUME TypeInv, Alone, NEW c \in Caller, NEW m \in Measured,
         ProcessParamsMeas(c, m)
  PROVE  SeenAll' /\ Told'
<1> DEFINE new(x) == [Idle EXCEPT !.state = "ready", !.params = m,
                                  !.todo = Share(c, m, x[2])]
<1>1. \A x : /\ new(x).state = "ready" /\ new(x).output = <<>>
             /\ new(x).todo = Share(c, m, x[2]) /\ DOMAIN new(x).answer = {}
  BY ValuesAre DEF Idle
<1>2. /\ thread' = [x \in Executor |->
                      IF x[1] = call + 1 /\ x[2] \in Executors(c, m)
                        THEN new(x) ELSE thread[x]]
      /\ main = "idle" /\ main' = "collect" /\ returned' = <<>>
      /\ UNCHANGED <<device, collected, output>> /\ caller' = c /\ meas' = m
      /\ seen' = [r \in Register |-> {device[r]}]
  BY Zenon DEF ProcessParamsMeas, new
<1> HIDE DEF new
<1>3. collected = {} /\ output = <<>> /\ \A x \in Executor : thread[x].state = "none"
  BY <1>2 DEF Alone, Calling
<1>4. \A x \in Executor :
        /\ DOMAIN thread'[x].answer = {}
        /\ thread'[x].state # "none" =>
             /\ thread'[x].state = "ready" /\ thread'[x].output = <<>>
             /\ thread'[x].todo = Share(c, m, x[2])
  BY <1>1, <1>2, <1>3, NoAnswers
<1>5. SeenAll'
  BY <1>2, <1>4 DEF SeenAll
<1>6. ASSUME NEW x \in Executor, thread'[x].state # "none"
      PROVE  Tells(thread'[x].output, Share(c, m, x[2]) \ thread'[x].todo, m, seen')
  <2>1. Share(c, m, x[2]) \ thread'[x].todo = {}
    BY <1>4, <1>6
  <2> QED
    BY <1>4, <1>6, <2>1, TellsNothing
<1>7. Tells(output', Covered', m, seen')
  <2>1. Covered' = {}
    BY <1>2, <1>3 DEF Covered
  <2> QED
    BY <1>2, <1>3, <2>1, TellsNothing
<1>8. \A x \in Executor : thread'[x].state # "done"
  BY <1>4
<1> QED
  BY <1>2, <1>5, <1>6, <1>7, <1>8 DEF Told

LEMMA ThreadTold ==
  ASSUME DelegatesAtHome, TypeInv, Alone, Shares, FluxTrue, SeenAll, Told,
         NEW x \in Executor, Thread(x)
  PROVE  SeenAll' /\ Told'
<1>0. /\ main \in Calling /\ thread[x].state \in Active
      /\ x[1] = call /\ thread[x].state # "none"
      /\ UNCHANGED <<device, main, caller, meas, collected, output, returned, seen>>
  BY ThreadCall DEF Thread, Start, Ask, CacheAnswer, Deliver, Active,
                    mainvars, callvars, history
<1>1. CASE Start(x) \/ Ask(x) \/ CacheAnswer(x)
  <2>1. /\ OnlyThread(x) /\ thread'[x].state \notin {"none", "done"}
        /\ thread'[x].todo = thread[x].todo
        /\ thread'[x].output = thread[x].output
        /\ \/ thread'[x].answer = thread[x].answer
           \/ /\ source[Current(x)] \in Register
              /\ thread'[x].answer = Answer(source[Current(x)])
    BY <1>1, StartDoes, AskDoes, CacheAnswerDoes DEF TypeInv
  <2>2. \A q \in DOMAIN thread'[x].answer :
          q \in Register /\ thread'[x].answer[q] \in seen[q]
    <3>1. CASE thread'[x].answer = thread[x].answer
      BY <3>1, AnswersIn DEF SeenAll
    <3>2. CASE /\ source[Current(x)] \in Register
               /\ thread'[x].answer = Answer(source[Current(x)])
      BY <1>0, <3>2, AnswerIs, Registers DEF SeenAll, TypeInv
    <3> QED
      BY <2>1, <3>1, <3>2
  <2>3. ASSUME NEW y \in Executor
        PROVE  /\ thread'[y].output = thread[y].output
               /\ thread'[y].todo = thread[y].todo
               /\ thread[y].state = "none" => thread'[y].state = "none"
               /\ thread'[y].state = "done" => thread[y].state = "done"
               /\ \A q \in DOMAIN thread'[y].answer :
                    q \in Register /\ thread'[y].answer[q] \in seen'[q]
    <3>1. CASE y = x
      BY <1>0, <2>1, <2>2, <3>1
    <3>2. CASE y # x
      BY <1>0, <2>1, <3>2, AnswersIn DEF OnlyThread, SeenAll
    <3> QED
      BY <3>1, <3>2
  <2> QED
    BY <1>0, <2>3, ToldQuiet DEF SeenAll
<1>2. CASE Deliver(x)
  <2> DEFINE e == [at |-> Place(x), param |-> Current(x), value |-> Delivered(x)]
             done == Share(caller, meas, x[2]) \ thread[x].todo
             now == Share(caller, meas, x[2]) \ thread'[x].todo
  <2>1. /\ OnlyThread(x) /\ Delivered(x) \in Nat
        /\ thread'[x].todo = Remaining(x) /\ DOMAIN thread'[x].answer = {}
        /\ thread'[x].state = IF Remaining(x) = {} THEN "done" ELSE "running"
        /\ thread'[x].output = Append(thread[x].output, e)
    BY <1>2, DeliverDoes DEF TypeInv
  <2>2. /\ Place(x) \in thread[x].todo /\ Current(x) \in Parameter
        /\ Current(x) = meas[Place(x)]
        /\ thread[x].todo \subseteq Share(caller, meas, x[2])
    BY <1>0, CurrentIs DEF TypeInv, Shares, Current
  <2>3. Delivered(x) \in seen[source[Current(x)]]
    BY <1>2, DeliveredIs DEF SeenAll
  <2>4. e \in Entry /\ thread[x].output \in Seq(Entry)
    BY <2>1, <2>2 DEF Entry, TypeInv, TypeOK, ThreadType
  <2>5. /\ e.at = Place(x) /\ e.param = meas[e.at]
        /\ e.value \in seen[source[e.param]]
    BY <2>2, <2>3
  <2>6. Place(x) \notin done /\ now = done \union {Place(x)}
    BY <2>1, <2>2 DEF Remaining
  <2> HIDE DEF e
  <2>7. Tells(thread'[x].output, now, meas, seen)
    <3>1. Tells(thread[x].output, done, meas, seen)
      BY <1>0 DEF Told
    <3>2. Tells(Append(thread[x].output, e), done \union {e.at}, meas, seen)
      BY <2>4, <2>5, <2>6, <3>1, TellsOneMore
    <3> QED
      BY <2>1, <2>5, <2>6, <3>2
  <2>8. \A y \in Executor : y # x => thread'[y] = thread[y]
    BY <2>1 DEF OnlyThread
  <2>9. SeenAll'
    BY <1>0, <2>1, <2>8 DEF SeenAll
  <2>10. ASSUME NEW y \in Executor, thread'[y].state # "none"
         PROVE  Tells(thread'[y].output,
                      Share(caller, meas, y[2]) \ thread'[y].todo, meas, seen)
    BY <2>7, <2>8, <2>10 DEF Told
  <2>11. \A y \in Executor : thread'[y].state = "done" => thread'[y].todo = {}
    BY <2>1, <2>8 DEF Told
  <2>12. Covered' = Covered
    BY <1>0 DEF Covered
  <2>13. /\ main' \in Calling => Tells(output', Covered', meas', seen')
         /\ returned' # <<>> =>
              main' = "idle" /\ Tells(returned', DOMAIN meas', meas', seen')
    BY <1>0, <2>12 DEF Told
  <2> QED
    BY <1>0, <2>9, <2>10, <2>11, <2>13 DEF Told
<1> QED
  BY <1>1, <1>2 DEF Thread

LEMMA TakesTold ==
  ASSUME TypeInv, Alone, Shares, SeenAll, Told, main \in Calling,
         NEW x \in Mine \ collected, Takes(x),
         UNCHANGED <<device, seen>>
  PROVE  SeenAll' /\ Told'
<1>0. /\ x \in Executor /\ x \notin collected /\ thread[x].state = "done"
      /\ collected' = collected \union {x}
      /\ output' = output \o thread[x].output
      /\ UNCHANGED <<main, call, caller, meas, returned, thread>>
  BY DEF Mine, Takes
<1> DEFINE own == Share(caller, meas, x[2])
<1>1. Tells(thread[x].output, own, meas, seen)
  <2>1. own \ thread[x].todo = own
    BY <1>0 DEF Told
  <2> QED
    BY <1>0, <2>1 DEF Told
<1>2. Covered' = Covered \union own
  BY <1>0 DEF Covered
<1>3. ASSUME NEW a \in Covered, a \in own PROVE FALSE
  <2>1. PICK y \in collected : a \in Share(caller, meas, y[2])
    BY DEF Covered
  <2>2. y \in Executor /\ y # x /\ thread[y].state # "none"
    BY <1>0, <2>1 DEF Alone, TypeInv, TypeOK, CallTypes
  <2> QED
    BY <1>0, <1>3, <2>1, <2>2, SharesApart
<1>4. Tells(output', Covered', meas, seen)
  <2>1. output \in Seq(Entry) /\ thread[x].output \in Seq(Entry)
    BY <1>0 DEF TypeInv, TypeOK, CallTypes, ThreadType
  <2>2. Covered \cap own = {} /\ Tells(output, Covered, meas, seen)
    BY <1>3 DEF Told
  <2> QED
    BY <1>0, <1>1, <1>2, <2>1, <2>2, TellsBoth
<1>5. SeenAll'
  BY <1>0 DEF SeenAll
<1> QED
  BY <1>0, <1>4, <1>5 DEF Told, Alone, Calling

(* A call ends with nothing, or with all that was measured.                *)
LEMMA EndCallTold ==
  ASSUME TypeInv, Alone, Shares, SeenAll, main \in Calling,
         NEW result, EndCall(result), \A y \in Mine : Over(y),
         result = <<>> \/ Tells(result, DOMAIN meas, meas, seen),
         UNCHANGED <<device, seen>>
  PROVE  SeenAll' /\ Told'
<1>1. /\ \A y \in Executor : thread'[y].state = "none"
      /\ main' = "idle" /\ returned' = result /\ UNCHANGED meas
      /\ thread' = [y \in Executor |-> IF Over(y) THEN Idle ELSE thread[y]]
  BY EndCallAlone DEF EndCall
<1>2. \A y \in Executor : DOMAIN thread'[y].answer = {}
  BY <1>1, IdleIs, NoAnswers
<1>3. SeenAll'
  BY <1>1, <1>2 DEF SeenAll, Calling
<1>4. Told'
  BY <1>1 DEF Told, Calling
<1> QED
  BY <1>3, <1>4

LEMMA CollectTold ==
  ASSUME TypeInv, Alone, Shares, SeenAll, Told, Collect, ~ stray'
  PROVE  SeenAll' /\ Told'
<1>1. ASSUME NEW x \in Executor, Join(x) PROVE SeenAll' /\ Told'
  BY <1>1, JoinCases, TakesTold, EndCallTold DEF Calling
<1>2. ASSUME NEW x \in Executor, AsCompleted(x) PROVE SeenAll' /\ Told'
  <2>1. /\ main \in Calling /\ x \in Mine \ collected
        /\ UNCHANGED <<device, seen>>
    BY <1>2 DEF AsCompleted, Calling, history
  <2>2. CASE main' = "raise" /\ UNCHANGED <<callvars, thread>>
    <3>1. UNCHANGED <<caller, meas, collected, output, returned, thread>>
      BY <2>2 DEF callvars
    <3>2. returned = <<>> /\ main' \in Calling
      BY <2>1, <2>2 DEF Alone, Calling
    <3>3. Covered' = Covered
      BY <3>1 DEF Covered
    <3> QED
      BY <2>1, <3>1, <3>2, <3>3 DEF SeenAll, Told
  <2>3. CASE Takes(x)
    BY <2>1, <2>3, TakesTold
  <2> QED
    BY <1>2, <2>2, <2>3 DEF AsCompleted
<1>3. CASE Return
  <2>1. /\ main \in Calling /\ collected = Mine /\ EndCall(output)
        /\ UNCHANGED <<device, seen>> /\ meas \in Measured /\ call \in 1..MaxCalls
    BY <1>3 DEF Return, Calling, history, Alone
  <2>2. \A y \in Mine : Over(y)
    BY <2>1 DEF Alone, Over
  <2>3. Covered = DOMAIN meas
    <3>1. ASSUME NEW i \in DOMAIN meas PROVE i \in Covered
      <4>1. PICK k \in Executors(caller, meas) : i \in Share(caller, meas, k)
        BY <2>1, SharesCover
      <4> DEFINE x == <<call, k>>
      <4>2. x \in Executor /\ x[1] = call /\ x[2] = k
        BY <2>1, <4>1, ListOf DEF Executors, First, Executor
      <4>3. thread[x].state # "none"
        BY <2>1, <4>1 DEF Shares
      <4>4. x \in collected
        BY <2>1, <4>2, <4>3 DEF Mine
      <4> QED
        BY <4>1, <4>2, <4>4 DEF Covered
    <3>2. Covered \subseteq DOMAIN meas
      BY DEF Covered, Share
    <3> QED
      BY <3>1, <3>2
  <2>4. Tells(output, DOMAIN meas, meas, seen)
    BY <2>1, <2>3 DEF Told
  <2> QED
    BY <2>1, <2>2, <2>4, EndCallTold
<1>4. CASE ExitPool
  BY <1>4, EndCallTold DEF ExitPool, Calling, history
<1> QED
  BY <1>1, <1>2, <1>3, <1>4 DEF Collect

LEMMA SettersTold ==
  ASSUME TypeInv, Alone, Shares, SeenAll, Told,
         \/ SetStep
         \/ \E p \in Parameter : \E value \in Value(source[p]) : Set(p, value)
  PROVE  SeenAll' /\ Told'
<1>1. main \notin Calling /\ main' \notin Calling /\ UNCHANGED thread
  BY DEF SetStep, Set, Update, CacheUpdate, Write, CacheWrite, Calling
<1>2. \A x \in Executor : thread[x].state = "none" /\ DOMAIN thread[x].answer = {}
  BY <1>1, NoAnswers DEF Alone
<1>3. returned' = <<>>
  <2>1. CASE SetStep
    <3>1. main # "idle" /\ UNCHANGED callvars
      BY <2>1 DEF SetStep, Update, CacheUpdate, Write, CacheWrite
    <3> QED
      BY <3>1 DEF Told, callvars
  <2>2. ASSUME NEW p \in Parameter, NEW value \in Value(source[p]), Set(p, value)
        PROVE  returned' = <<>>
    BY <2>2 DEF Set
  <2> QED
    BY <2>1, <2>2
<1> QED
  BY <1>1, <1>2, <1>3 DEF SeenAll, Told

LEMMA TurnTold ==
  ASSUME TypeInv, SeenAll, Told, NEW r \in Register, NEW value, Turn(r, value)
  PROVE  SeenAll' /\ Told'
<1>1. /\ device' = [device EXCEPT ![r] = value]
      /\ UNCHANGED <<main, caller, meas, collected, output, returned, thread>>
      /\ seen' = [seen EXCEPT ![r] = IF main \in {"collect", "raise"}
                                       THEN @ \union {value} ELSE @]
  BY DEF Turn, mainvars, callvars
<1>2. seen \in [Register -> SUBSET Nat] /\ device \in [Register -> Nat]
  BY DEF TypeInv, TypeOK, DeviceTypes
<1>3. \A q \in Register : seen[q] \subseteq seen'[q]
  BY <1>1, <1>2
<1>4. main \in Calling => \A q \in Register : device'[q] \in seen'[q]
  BY <1>1, <1>2 DEF SeenAll, Calling
<1>5. \A x \in Executor : \A q \in DOMAIN thread'[x].answer :
        q \in Register /\ thread'[x].answer[q] \in seen'[q]
  BY <1>1, <1>3, AnswersIn DEF SeenAll
<1> QED
  BY <1>1, <1>3, <1>4, <1>5, ToldQuiet

LEMMA NextTold ==
  ASSUME DelegatesAtHome
  PROVE  TypeInv /\ CallInv /\ FluxInv /\ ToldInv /\ [Next]_vars => ToldInv'
<1> SUFFICES ASSUME TypeInv, CallInv, FluxInv, ToldInv, [Next]_vars, ~ stray'
             PROVE  SeenAll' /\ Told'
  BY DEF ToldInv
<1>0. ASSUME ~ stray PROVE Alone /\ Shares /\ FluxTrue /\ SeenAll /\ Told
  BY <1>0, Zenon DEF CallInv, FluxInv, ToldInv
<1>1. ASSUME UNCHANGED stray PROVE ~ stray
  BY <1>1, Zenon
<1>2. ASSUME NEW c \in Caller, NEW m \in Measured, ProcessParamsMeas(c, m)
      PROVE  SeenAll' /\ Told'
  <2>1. UNCHANGED stray
    BY <1>2 DEF ProcessParamsMeas
  <2> QED
    BY <1>0, <1>1, <1>2, <2>1, ProcessTold
<1>3. ASSUME NEW x \in Executor, Thread(x) PROVE SeenAll' /\ Told'
  <2>1. UNCHANGED stray
    BY <1>3 DEF Thread, Start, Ask, CacheAnswer, Deliver, history
  <2> QED
    BY <1>0, <1>1, <1>3, <2>1, ThreadTold
<1>4. CASE Collect
  <2>1. ~ stray
    BY <1>4, CollectStray
  <2> QED
    BY <1>0, <1>4, <2>1, CollectTold
<1>5. CASE \/ SetStep
           \/ \E p \in Parameter : \E value \in Value(source[p]) : Set(p, value)
  <2>1. UNCHANGED stray
    BY <1>5 DEF SetStep, Set, Update, CacheUpdate, Write, CacheWrite, history
  <2> QED
    BY <1>0, <1>1, <1>5, <2>1, SettersTold
<1>6. ASSUME NEW r \in Register, NEW value \in Value(r), Turn(r, value)
      PROVE  SeenAll' /\ Told'
  <2>1. UNCHANGED stray
    BY <1>6 DEF Turn
  <2> QED
    BY <1>0, <1>1, <1>6, <2>1, TurnTold
<1>7. CASE UNCHANGED vars
  <2>1. UNCHANGED <<device, main, caller, meas, collected, output, returned,
                    thread, seen, stray>>
    BY <1>7 DEF vars, mainvars, callvars, history
  <2> QED
    BY <1>0, <1>1, <2>1, ToldQuiet, AnswersIn DEF SeenAll
<1> QED
  BY <1>2, <1>3, <1>4, <1>5, <1>6, <1>7 DEF Next

LEMMA ToldInductive ==
  ASSUME DelegatesAtHome
  PROVE  Spec => []ToldInv
<1>1. TypeInv /\ CallInv /\ FluxInv /\ ToldInv /\ [Next]_vars => ToldInv'
  BY NextTold
<1> QED
  BY <1>1, InitTold, TypeCorrect, CallInductive, FluxInductive, PTL DEF Spec

(* Under the same conditions a call that returns, of whatever caller, has  *)
(* an entry for every position of what it was to measure, exactly one, and *)
(* nothing else; and its value is one that the register of the parameter   *)
(* had while the call went on (threading.py:33-93, 199-225).               *)
THEOREM OutputFresh ==
  ASSUME DelegatesAtHome
  PROVE  Spec => []OutputIsFresh
<1>1. ToldInv => OutputIsFresh
  <2> SUFFICES ASSUME Tells(returned, DOMAIN meas, meas, seen)
               PROVE  OutputIsFresh
    BY DEF ToldInv, Told, OutputIsFresh
  <2>1. ASSUME NEW i \in DOMAIN meas
        PROVE  \E j \in DOMAIN returned :
                 /\ returned[j].at = i
                 /\ \A k \in DOMAIN returned : returned[k].at = i => k = j
    <3>1. PICK j \in DOMAIN returned : returned[j].at = i
      BY DEF Tells
    <3> QED
      BY <3>1 DEF Tells
  <2>2. \A j \in DOMAIN returned :
          /\ returned[j].at \in DOMAIN meas
          /\ returned[j].param = meas[returned[j].at]
          /\ returned[j].value \in seen[source[returned[j].param]]
    BY DEF Tells
  <2> QED
    BY <2>1, <2>2 DEF OutputIsFresh
<1> QED
  BY <1>1, ToldInductive, PTL
=============================================================================
