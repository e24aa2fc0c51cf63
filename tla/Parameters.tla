----------------------------- MODULE Parameters -----------------------------
(***************************************************************************)
(* Parameters of instruments, their caches, and the callers that measure   *)
(* several of them at once: in order, on one thread per instrument, or in  *)
(* a thread pool.  A register is what one parameter stands for in the      *)
(* instrument; a DelegateParameter has the register and the cache of its   *)
(* source.  Registers of a group are read and written by one command.      *)
(*                                                                         *)
(* The main thread measures and sets; somebody may turn a knob on the      *)
(* instrument, and any exchange with it may fail.                          *)
(***************************************************************************)
EXTENDS Integers, Sequences, FiniteSets

CONSTANTS Parameter,
          source,          \* of a delegate; any other parameter is its own
          root_instrument, \* the instrument a parameter is part of
          group,           \* of a register: all that share its command
          ramped,          \* registers whose parameter has a step, of 1
          Measured,        \* the sequences of parameters to measure
          max_workers,     \* of a thread pool
          MaxValue,        \* bound: the values of a register with a step
          MaxCalls,        \* bound: calls of a caller
          MaxKnobs,        \* bound: changes on the instrument itself
          MaxFailures      \* bound: exchanges that fail

Register == {source[p] : p \in Parameter}
Value(r) == IF r \in ramped THEN 0..MaxValue ELSE 0..1
Unknown == -1              \* None in the cache
Caller == {"sequential", "threads", "pool"}
Positions == UNION {DOMAIN m : m \in Measured}
\* of a call, and known by the position of its first parameter
Executor == (1..MaxCalls) \X Positions

(* A Group refuses parameters of several instruments, and gives itself to  *)
(* each of its parameters, which have no other.                            *)
ASSUME ParametersAssumption ==
  /\ source \in [Parameter -> Parameter]
  /\ \A r \in Register : source[r] = r
  /\ group \in [Register -> SUBSET Register]
  /\ \A r \in Register : r \in group[r]
  /\ \A r \in Register : \A q \in group[r] :
       group[q] = group[r] /\ root_instrument[q] = root_instrument[r]
  /\ \A r \in Register : group[r] # {r} => r \notin ramped
  /\ Measured \subseteq Seq(Parameter) \ {<<>>}
  /\ max_workers \in Nat \ {0}
  /\ MaxValue \in Nat /\ MaxCalls \in Nat
  /\ MaxKnobs \in Nat /\ MaxFailures \in Nat

VARIABLES
  device,    \* the instruments: the value in each register
  cache,     \* raw_value of each register's parameter
  \* the main thread
  main,      \* what it is about to do
  op,        \* the set in progress
  held,      \* the values it has read or written, not yet in the cache
  call,      \* the calls of a caller so far
  caller,    \* and the one in progress:
  meas,      \*   what it measures
  collected, \*   executors whose output it has,
  output,    \*   and that output
  returned,  \* what the last call returned, <<>> if it raised
  thread,    \* the executors of all calls
  \* what has happened
  doubted,   \* registers that changed behind the cache's back
  seen,      \* values each register had during the call
  stray,     \* a call has raised while threads of it were running
  knobs, failures

mainvars == <<main, op, held>>
callvars == <<call, caller, meas, collected, output, returned>>
history  == <<doubted, seen, stray, knobs, failures>>
vars == <<device, cache, mainvars, callvars, thread, history>>

NoAnswer == [r \in {} |-> 0]
Idle == [state |-> "none", params |-> <<>>, todo |-> {},
         answer |-> NoAnswer, output |-> <<>>]

Init ==
  /\ device = [r \in Register |-> 0]
  /\ cache = [r \in Register |-> Unknown]
  /\ main = "idle" /\ op = [param |-> "", target |-> 0, at |-> Unknown]
  /\ held = NoAnswer
  /\ call = 0 /\ caller = "sequential" /\ meas = <<>>
  /\ collected = {} /\ output = <<>> /\ returned = <<>>
  /\ thread = [x \in Executor |-> Idle]
  /\ doubted = {} /\ seen = [r \in Register |-> {}]
  /\ stray = FALSE /\ knobs = 0 /\ failures = 0

Answer(r) == [q \in group[r] |-> device[q]]
Stored(values) == [q \in Register |->
                     IF q \in DOMAIN values THEN values[q] ELSE cache[q]]
Fails == failures < MaxFailures /\ failures' = failures + 1
-----------------------------------------------------------------------------
(* _instrument_to_param: one _ParamCaller per underlying instrument, in    *)
(* order of their first parameters.  A DelegateParameter does not override *)
(* underlying_instrument, so that its own root instrument counts.          *)
underlying_instrument(p) == root_instrument[p]

First(m) == {i \in DOMAIN m : \A j \in 1..i - 1 :
               underlying_instrument(m[j]) # underlying_instrument(m[i])}

Executors(c, m) == IF c = "sequential" THEN {1} ELSE First(m)

(* A slip: a parameter takes the place of another of its instrument.       *)
ShareOfLast(c, m, i) ==
  {j \in DOMAIN m :
     \/ c = "sequential"
     \/ /\ underlying_instrument(m[j]) = underlying_instrument(m[i])
        /\ \A k \in j + 1..Len(m) :
             underlying_instrument(m[k]) # underlying_instrument(m[i])}

(* The positions in m that the executor known by i has.                    *)
Share(c, m, i) ==
  {j \in DOMAIN m :
     \/ c = "sequential"
     \/ underlying_instrument(m[j]) = underlying_instrument(m[i])}

Mine == {x \in Executor : x[1] = call /\ thread[x].state # "none"}
Busy(x) == thread[x].state \in {"running", "asked", "stored"}
Over(x) == thread[x].state \in {"done", "failed"}

(* process_params_meas, or a call of the pool in its `with` statement.     *)
ProcessParamsMeas(c, m) ==
  /\ main = "idle" /\ call < MaxCalls
  /\ call' = call + 1
  /\ caller' = c /\ meas' = m
  /\ thread' = [x \in Executor |->
       IF x[1] = call + 1 /\ x[2] \in Executors(c, m)
         THEN [Idle EXCEPT !.state = "ready", !.params = m,
                           !.todo = Share(c, m, x[2])]
         ELSE thread[x]]
  /\ returned' = <<>>
  /\ seen' = [r \in Register |-> {device[r]}]
  /\ main' = "collect"
  /\ UNCHANGED <<device, cache, op, held, collected, output,
                 doubted, stray, knobs, failures>>

(* A thread of its own starts at once, a task of the pool when a worker is *)
(* free, in the order of submission.                                       *)
Start(x) ==
  /\ thread[x].state = "ready"
  /\ caller = "pool" /\ x[1] = call =>
       /\ Cardinality({y \in Mine : Busy(y)}) < max_workers
       /\ \A y \in Mine : y[2] < x[2] => thread[y].state # "ready"
  /\ thread' = [thread EXCEPT ![x].state = "running"]
  /\ UNCHANGED <<device, cache, mainvars, callvars, history>>

Place(x) == CHOOSE i \in thread[x].todo : \A j \in thread[x].todo : i <= j
Current(x) == thread[x].params[Place(x)]

(* param.get() of the next parameter: the exchange with the instrument ... *)
Ask(x) ==
  LET r == source[Current(x)]
  IN /\ thread[x].state = "running"
     /\ \/ /\ thread' = [thread EXCEPT ![x].state = "asked",
                                       ![x].answer = Answer(r)]
           /\ doubted' = doubted \ group[r]
           /\ UNCHANGED failures
        \/ /\ Fails
           /\ thread' = [thread EXCEPT ![x].state = "failed"]
           /\ UNCHANGED doubted
     /\ UNCHANGED <<device, cache, mainvars, callvars, seen, stray, knobs>>

(* ... the caches, of the whole group for a GroupParameter ...             *)
CacheAnswer(x) ==
  /\ thread[x].state = "asked"
  /\ cache' = Stored(thread[x].answer)
  /\ thread' = [thread EXCEPT ![x].state = "stored"]
  /\ UNCHANGED <<device, mainvars, callvars, history>>

(* ... and the result, which a GroupParameter takes from its cache.        *)
Deliver(x) ==
  LET p == Current(x)
      r == source[p]
      value == IF group[r] # {r} THEN cache[r] ELSE thread[x].answer[r]
      rest == thread[x].todo \ {Place(x)}
  IN /\ thread[x].state = "stored"
     /\ cache' = [cache EXCEPT ![r] = value]
     /\ thread' = [thread EXCEPT
          ![x].state = IF rest = {} THEN "done" ELSE "running",
          ![x].todo = rest,
          ![x].answer = NoAnswer,
          ![x].output =
            Append(@, [at |-> Place(x), param |-> p, value |-> value])]
     /\ UNCHANGED <<device, mainvars, callvars, history>>
-----------------------------------------------------------------------------
(* The call is over: main is idle, and the threads that ended are gone.    *)
EndCall(result) ==
  /\ main' = "idle"
  /\ returned' = result
  /\ collected' = {} /\ output' = <<>>
  /\ thread' = [x \in Executor |-> IF Over(x) THEN Idle ELSE thread[x]]
  /\ UNCHANGED <<call, caller, meas>>

Takes(x) ==
  /\ thread[x].state = "done"
  /\ collected' = collected \union {x}
  /\ output' = output \o thread[x].output
  /\ UNCHANGED <<main, call, caller, meas, returned, thread>>

(* call_params_threaded joins the threads in order of their start; the     *)
(* first exception is raised at once, the threads behind it still run.     *)
Join(x) ==
  /\ main = "collect" /\ caller # "pool"
  /\ x \in Mine \ collected
  /\ \A y \in Mine : y[2] < x[2] => y \in collected
  /\ \/ /\ thread[x].state = "failed"
        /\ EndCall(<<>>)
        /\ stray' = (stray \/ \E y \in Mine : ~ Over(y))
     \/ Takes(x) /\ UNCHANGED stray
  /\ UNCHANGED <<device, cache, op, held, doubted, seen, knobs, failures>>

(* as_completed gives the tasks of the pool in the order they end; after   *)
(* an exception only the end of the `with` statement is left.              *)
AsCompleted(x) ==
  /\ main = "collect" /\ caller = "pool"
  /\ x \in Mine \ collected
  /\ \/ /\ thread[x].state = "failed"
        /\ main' = "raise"
        /\ UNCHANGED <<callvars, thread>>
     \/ Takes(x)
  /\ UNCHANGED <<device, cache, op, held, history>>

Return ==
  /\ main = "collect" /\ collected = Mine
  /\ EndCall(output)
  /\ UNCHANGED <<device, cache, op, held, history>>

(* Slips: the pool is left without waiting, or waits for what has failed.  *)
ExitPoolAtOnce ==
  /\ main = "raise"
  /\ EndCall(<<>>)
  /\ UNCHANGED <<device, cache, op, held, history>>
ExitPoolIfDone ==
  /\ main = "raise" /\ \A x \in Mine : thread[x].state = "done"
  /\ EndCall(<<>>)
  /\ UNCHANGED <<device, cache, op, held, history>>

(* ThreadPoolExecutor.__exit__ waits for every task.                       *)
ExitPool ==
  /\ main = "raise" /\ \A x \in Mine : Over(x)
  /\ EndCall(<<>>)
  /\ UNCHANGED <<device, cache, op, held, history>>
-----------------------------------------------------------------------------
(* A slip: a ramp starts from what the cache has, be it nothing.           *)
NeedsUpdateInGroup(r) == \E q \in group[r] \ {r} : cache[q] = Unknown

(* set of a parameter.  A group needs all of its values, a ramp the one it *)
(* starts from: what was never captured is read first.                     *)
NeedsUpdate(r) == \/ group[r] # {r} /\ \E q \in group[r] : cache[q] = Unknown
                  \/ r \in ramped /\ cache[r] = Unknown

Set(p, value) ==
  LET r == source[p]
  IN /\ main = "idle"
     /\ op' = [param |-> r, target |-> value, at |-> cache[r]]
     /\ main' = IF NeedsUpdate(r) THEN "update" ELSE "write"
     /\ returned' = <<>> /\ meas' = <<>>
     /\ seen' = [q \in Register |-> {}]
     /\ UNCHANGED <<device, cache, held, call, caller, collected, output,
                    thread, doubted, stray, knobs, failures>>

Update ==
  /\ main = "update"
  /\ \/ /\ held' = Answer(op.param)
        /\ doubted' = doubted \ group[op.param]
        /\ main' = "cache_update"
        /\ UNCHANGED failures
     \/ /\ Fails
        /\ main' = "idle"
        /\ UNCHANGED <<held, doubted>>
  /\ UNCHANGED <<device, cache, op, callvars, thread, seen, stray, knobs>>

CacheUpdate ==
  /\ main = "cache_update"
  /\ cache' = Stored(held)
  /\ op' = [op EXCEPT !.at = cache'[op.param]]
  /\ held' = NoAnswer
  /\ main' = "write"
  /\ UNCHANGED <<device, callvars, thread, history>>

(* get_ramp_values: one step on the way from the value that the cache had; *)
(* from an unknown one it jumps.                                           *)
Step == IF op.param \notin ramped \/ op.at \in {op.target, Unknown} THEN op.target
        ELSE IF op.at < op.target THEN op.at + 1 ELSE op.at - 1

(* The command names every member of the group, with cached values for the *)
(* others.                                                                 *)
Command == [q \in group[op.param] |->
              IF q = op.param THEN Step ELSE cache[q]]

Written == device' = [q \in Register |->
             IF q \in DOMAIN Command THEN Command[q] ELSE device[q]]

(* The command is executed; or refused, or executed although the call that *)
(* sent it raises.                                                         *)
Write ==
  /\ main = "write"
  /\ \/ /\ Written
        /\ held' = Command
        /\ doubted' = doubted \ group[op.param]
        /\ main' = "cache_write"
        /\ UNCHANGED failures
     \/ /\ Fails
        /\ main' = "idle"
        /\ \/ UNCHANGED <<device, doubted>>
           \/ Written /\ doubted' = doubted \union group[op.param]
        /\ UNCHANGED held
  /\ UNCHANGED <<cache, op, callvars, thread, seen, stray, knobs>>

(* A slip: the cache is written when the ramp has ended.                   *)
CacheWriteAtEnd ==
  /\ main = "cache_write"
  /\ op' = [op EXCEPT !.at = held[op.param]]
  /\ IF op.param \in ramped /\ held[op.param] # op.target
       THEN main' = "write" /\ UNCHANGED cache
       ELSE main' = "idle" /\ cache' = Stored(held)
  /\ held' = NoAnswer
  /\ UNCHANGED <<device, callvars, thread, history>>

(* The caches take every step, then comes the next one.                    *)
CacheWrite ==
  /\ main = "cache_write"
  /\ cache' = Stored(held)
  /\ op' = [op EXCEPT !.at = held[op.param]]
  /\ main' = IF op.param \in ramped /\ held[op.param] # op.target
               THEN "write" ELSE "idle"
  /\ held' = NoAnswer
  /\ UNCHANGED <<device, callvars, thread, history>>

(* A knob on the front panel.                                              *)
Turn(r, value) ==
  /\ knobs < MaxKnobs
  /\ value # device[r]
  /\ device' = [device EXCEPT ![r] = value]
  /\ doubted' = doubted \union {r}
  /\ seen' = [seen EXCEPT ![r] = IF main \in {"collect", "raise"}
                                  THEN @ \union {value} ELSE @]
  /\ knobs' = knobs + 1
  /\ UNCHANGED <<cache, mainvars, callvars, thread, stray, failures>>
-----------------------------------------------------------------------------
Thread(x) == Start(x) \/ Ask(x) \/ CacheAnswer(x) \/ Deliver(x)
Collect == (\E x \in Executor : Join(x) \/ AsCompleted(x)) \/ Return \/ ExitPool
SetStep == Update \/ CacheUpdate \/ Write \/ CacheWrite

Next == \/ \E c \in Caller, m \in Measured : ProcessParamsMeas(c, m)
        \/ \E x \in Executor : Thread(x)
        \/ Collect
        \/ \E p \in Parameter : \E value \in Value(source[p]) : Set(p, value)
        \/ SetStep
        \/ \E r \in Register : \E value \in Value(r) : Turn(r, value)

Spec == Init /\ [][Next]_vars
(* Threads run, and the main thread goes on with what it has begun.        *)
FairSpec == Spec /\ WF_vars(Collect) /\ WF_vars(SetStep)
                 /\ \A x \in Executor : WF_vars(Thread(x))
-----------------------------------------------------------------------------
Using(x, i) == Busy(x) /\ root_instrument[source[Current(x)]] = i

Setting(i) == /\ main \in {"update", "cache_update", "write", "cache_write"}
              /\ root_instrument[op.param] = i

(* No two threads talk to an instrument at a time: parameters are grouped  *)
(* by the instrument that answers, and a call that returns, or leaves its  *)
(* pool, leaves no thread behind.  Only call_params_threaded does, when it *)
(* raises.                                                                 *)
OneThreadPerInstrument ==
  ~ stray => \A x \in Executor, i \in {root_instrument[p] : p \in Parameter} :
               Using(x, i) => /\ ~ Setting(i)
                              /\ \A y \in Executor : Using(y, i) => x = y

(* A value on its way from the instrument into the cache or back.          *)
InFlux(r) == \/ r \in DOMAIN held
             \/ \E x \in Executor : r \in DOMAIN thread[x].answer

(* The cache has what the instrument has, also in the middle of a ramp     *)
(* that fails and after any measurement, unless somebody turned a knob or  *)
(* a command got through although it seemed to fail.                       *)
CacheTrue ==
  ~ stray => \A r \in Register :
               \/ cache[r] \in {Unknown, device[r]}
               \/ r \in doubted \/ InFlux(r)

(* What the program writes changes the one register that was to be set,    *)
(* and no sibling, and moves a parameter that has a step by no more        *)
(* than that: commands are made of cached values, which are known to be    *)
(* right, or doubted for a reason named above.                             *)
MovesAsAsked ==
  [][ main = "write" /\ main' # "write" /\ ~ stray =>
        \A r \in Register \ doubted :
          device'[r] # device[r] =>
            /\ r = op.param
            /\ r \in ramped => device'[r] - device[r] \in {-1, 1} ]_vars

(* A call that returns has measured each of its parameters, once for every *)
(* time that it was given, and nothing else, and each value is one that    *)
(* the register had while the call went on.                                *)
OutputIsFresh ==
  ~ stray /\ returned # <<>> =>
    /\ \A i \in DOMAIN meas : \E j \in DOMAIN returned :
         /\ returned[j].at = i
         /\ \A k \in DOMAIN returned : returned[k].at = i => k = j
    /\ \A j \in DOMAIN returned :
         /\ returned[j].at \in DOMAIN meas
         /\ returned[j].param = meas[returned[j].at]
         /\ returned[j].value \in seen[source[returned[j].param]]

(* Every measurement and every set ends, whatever fails.                   *)
CallReturns == main # "idle" ~> main = "idle"
=============================================================================
