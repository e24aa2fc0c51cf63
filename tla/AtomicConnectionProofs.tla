----------------------- MODULE AtomicConnectionProofs -----------------------
(* For any number of blocks, statements, nested contexts and Ctrl-C, and   *)
(* whatever raises: blocks are written as a whole or not at all, blocks    *)
(* that were left without an exception are durable, the connection and the *)
(* handler are as they were, and the first Ctrl-C waits.                   *)
EXTENDS AtomicConnection, SequenceTheorems, TLAPS

Levels == 1..Len(stack)

(* The frames that have an atomic in progress.                             *)
Atomics == {i \in Levels : stack[i].step \in
              {"opened", "begin", "body", "done", "restored"}}

(* Past the commit or the rollback.                                        *)
Ended == {"done", "restored", "leaving"}

(* Below the top every context is in its body; Runner.__exit__ (block 0)   *)
(* is the bottom; all atomics belong to the same block, and an outmost one *)
(* has nothing but Runner.__exit__ below.                                  *)
StackInv ==
  /\ Atomics # {} => atomic_in_progress
  /\ \A i \in Levels :
       /\ i < Len(stack) => stack[i].step \in {"exit", "body"}
       /\ stack[i].step = "exit" => stack[i].block = 0
       /\ stack[i].block = 0 => /\ i = 1 /\ ~stack[i].is_outmost
                                /\ stack[i].step \in {"exit", "leaving"}
       /\ stack[i].block # 0 => /\ stack[i].block = block /\ block \in Blocks
                                /\ stack[i].old_atomic_in_progress
                                     = ~stack[i].is_outmost
       /\ raised = "Exception"
            => stack[i].step \notin {"entered", "opened", "begin"}
       /\ stack[i].step = "entered" => stack[i].is_outmost = ~atomic_in_progress
       /\ stack[i].is_outmost => \A j \in 1..(i - 1) : stack[j].step = "exit"

(* isolation_level tells what is on the stack.                             *)
LevelInv ==
  /\ isolation_level = "none" =>
       \E i \in Levels : stack[i].is_outmost /\ stack[i].step \in {"body", "done"}
  /\ \A i \in Levels : stack[i].is_outmost => stack[i].old_level = "default"

(* Only the bottom holds back a SIGINT, and knows it; nobody does once a   *)
(* handler was left behind.                                                *)
HandlerInv ==
  /\ stack # <<>> => handler # "default"
  /\ stack = <<>> /\ "handler" \notin cut => handler = "default"
  /\ "handler" \in cut => handler = "forceful"
  /\ \A i \in Levels :
       /\ stack[i].old_handler = (i = 1 /\ "handler" \notin cut)
       /\ stack[i].signal_received => i = 1
  /\ handler = "forceful" => sigints >= 1
  /\ cut # {} => sigints >= 2
  /\ owed => stack # <<>> /\ stack[1].signal_received
  /\ raised = "KeyboardInterrupt" /\ sigints <= 1 => stack = <<>>

(* Nothing is seen that was not executed.                                  *)
SeenInv == \A b \in Blocks : file[b] <= executed[b] /\ view[b] <= executed[b]

(* What the connection sees beside the file is the block that is open.     *)
DataInv ==
  /\ \A b \in Blocks : /\ file[b] # 0 => file[b] = executed[b]
                       /\ b > block => executed[b] = 0
  /\ ~in_transaction => view = file
  /\ \A i \in Levels :
       stack[i].step \in {"entered", "opened", "begin", "body"}
         => file[stack[i].block] = 0
  /\ \A b \in over : b <= block /\ \A i \in Levels : stack[i].block # b

(* The transaction of an outmost atomic.                                   *)
TransactionInv ==
  \A i \in Levels : stack[i].is_outmost =>
    /\ stack[i].step \in {"opened", "begin", "body", "done", "restored"} =>
         \A b \in Blocks : b # block => view[b] = file[b]
    /\ stack[i].step \in {"entered", "opened", "begin"} => executed[block] = 0
    /\ stack[i].step \in {"opened", "begin"} => ~in_transaction
    /\ stack[i].step = "body" /\ raised = "none" =>
         in_transaction /\ view[block] = executed[block]

(* As long as nothing disturbs it, an atomic is refused never, and not     *)
(* taken for a nested one; when it is done, it is.                         *)
CalmInv ==
  Undisturbed =>
    /\ in_transaction \/ atomic_in_progress
         => \E i \in Atomics : stack[i].is_outmost
    /\ \A i \in Levels : stack[i].is_outmost /\ stack[i].step \in Ended =>
         /\ ~in_transaction
         /\ raised = "none" => file[block] = executed[block]
    /\ \A i \in Levels : stack[i].step = "leaving" /\ stack[i].block # 0 =>
         atomic_in_progress = ~stack[i].is_outmost
    /\ \A b \in over : file[b] = executed[b]

(* With isolation_level lost, the data are.                                *)
WholeInv ==
  "level" \notin cut => LevelInv /\ DataInv /\ TransactionInv /\ CalmInv

IInv == TypeOK /\ SeenInv /\ StackInv /\ HandlerInv /\ WholeInv

-----------------------------------------------------------------------------
(* The four ways in which the stack changes.                               *)

(* Entering a context adds a frame and leaves the others.                  *)
LEMMA Pushed ==
  ASSUME stack \in Seq(Frames), NEW f \in Frames, stack' = Append(stack, f)
  PROVE  /\ stack' \in Seq(Frames)
         /\ Len(stack') = Len(stack) + 1
         /\ \A i \in Levels : stack'[i] = stack[i]
         /\ stack'[Len(stack) + 1] = f
         /\ stack' # <<>>
BY DEF Levels

(* Leaving a context takes the top frame and leaves the others.            *)
LEMMA Popped ==
  ASSUME stack \in Seq(Frames), stack # <<>>, stack' = Under
  PROVE  /\ stack' \in Seq(Frames)
         /\ Len(stack) >= 1
         /\ Len(stack') = Len(stack) - 1
         /\ \A i \in 1..(Len(stack) - 1) : stack'[i] = stack[i]
         /\ stack' = <<>> <=> Len(stack) = 1
<1>1. Len(stack) \in Nat \ {0}
  BY EmptySeq
<1>2. \A i \in 1..(Len(stack) - 1) : stack[i] \in Frames
  BY <1>1, ElementOfSeq
<1> DEFINE n == Len(stack) - 1
<1>3. /\ stack' \in Seq(Frames)
      /\ Len(stack') = IF 1 <= n THEN n - 1 + 1 ELSE 0
      /\ \A i \in 1..(n - 1 + 1) : stack'[i] = stack[1 + i - 1]
  BY <1>1, <1>2, SubSeqProperties DEF Under
<1>4. stack' = <<>> <=> Len(stack') = 0
  BY <1>3, EmptySeq
<1>5. Len(stack') = n
  <2>1. Len(stack) - 1 \in Nat
    BY <1>1
  <2>2. \A k \in Nat : (1 <= k \/ k = 0) /\ k - 1 + 1 = k
    OBVIOUS
  <2> QED BY <1>3, <2>1, <2>2
<1>6. \A i \in 1..n : i \in 1..(n - 1 + 1) /\ 1 + i - 1 = i
  BY <1>1
<1>7. \A i \in 1..n : stack'[i] = stack[i]
  BY <1>3, <1>6
<1> QED BY <1>1, <1>3, <1>4, <1>5, <1>7

(* The two frames differ in their step and in signal_received at most.     *)
SameContext(f, g) ==
  /\ f.is_outmost = g.is_outmost
  /\ f.block = g.block
  /\ f.old_level = g.old_level
  /\ f.old_atomic_in_progress = g.old_atomic_in_progress
  /\ f.old_handler = g.old_handler

(* Nothing but the step of the top frame changes, to s.                    *)
Relabels(s) ==
  /\ stack # <<>> /\ stack' # <<>> /\ stack' \in Seq(Frames)
  /\ Len(stack) \in Nat /\ Len(stack) >= 1 /\ Len(stack') = Len(stack)
  /\ Levels' = Levels /\ Len(stack) \in Levels /\ Top = stack[Len(stack)]
  /\ \A i \in Levels :
       /\ SameContext(stack'[i], stack[i])
       /\ stack'[i].signal_received = stack[i].signal_received
       /\ i # Len(stack) => stack'[i].step = stack[i].step
  /\ stack'[Len(stack)].step = s

(* What is on a stack that is not empty.                                   *)
LEMMA OfTop ==
  ASSUME stack \in Seq(Frames), stack # <<>>
  PROVE  /\ Len(stack) \in Nat /\ Len(stack) >= 1
         /\ Len(stack) \in Levels
         /\ Top = stack[Len(stack)]
         /\ Top \in Frames
BY EmptySeq, ElementOfSeq DEF Top, Levels

(* A step of the top frame leaves all else.                                *)
LEMMA Stepped ==
  ASSUME stack \in Seq(Frames), stack # <<>>, NEW s \in Steps, Goto(s)
  PROVE  Relabels(s)
<1>1. Len(stack) \in Nat /\ Len(stack) >= 1 /\ Len(stack) \in Levels
      /\ Top \in Frames /\ Top = stack[Len(stack)]
  BY OfTop
<1>2. [Top EXCEPT !.step = s] \in Frames
  BY <1>1 DEF Frames
<1>3. stack' = [stack EXCEPT ![Len(stack)] = [Top EXCEPT !.step = s]]
  BY DEF Goto, Top
<1>4. /\ stack' \in Seq(Frames)
      /\ Len(stack') = Len(stack)
      /\ \A j \in Levels : stack'[j] = IF j = Len(stack)
                                         THEN [Top EXCEPT !.step = s] ELSE stack[j]
  BY <1>1, <1>2, <1>3, ExceptSeq DEF Levels
<1>5. stack' # <<>>
  BY <1>1, <1>4, EmptySeq
<1>6. stack'[Len(stack)].step = s
  BY <1>1, <1>4 DEF Frames
<1>7. \A i \in Levels : stack[i] \in Frames
  BY ElementOfSeq DEF Levels
<1>8. ASSUME NEW i \in Levels
      PROVE  /\ SameContext(stack'[i], stack[i])
             /\ stack'[i].signal_received = stack[i].signal_received
             /\ i # Len(stack) => stack'[i].step = stack[i].step
  <2>1. CASE i = Len(stack)
    BY <1>1, <1>4, <2>1 DEF Frames, SameContext
  <2>2. CASE i # Len(stack)
    BY <1>4, <2>2 DEF SameContext
  <2> QED BY <2>1, <2>2
<1>9. Levels' = Levels
  BY <1>4 DEF Levels
<1> QED BY <1>1, <1>4, <1>5, <1>6, <1>8, <1>9 DEF Relabels

(* A SIGINT that is held back changes no frame but in signal_received.     *)
LEMMA Signalled ==
  ASSUME stack \in Seq(Frames),
         stack' = [i \in DOMAIN stack |->
                     [stack[i] EXCEPT !.signal_received =
                                        @ \/ stack[i].old_handler]]
  PROVE  /\ stack' \in Seq(Frames)
         /\ Len(stack') = Len(stack)
         /\ stack' = <<>> <=> stack = <<>>
         /\ \A i \in Levels :
              /\ SameContext(stack'[i], stack[i])
              /\ stack'[i].step = stack[i].step
              /\ stack'[i].signal_received
                   <=> stack[i].signal_received \/ stack[i].old_handler
<1>1. Len(stack) \in Nat /\ DOMAIN stack = 1..Len(stack)
  BY LenProperties
<1>2. ASSUME NEW i \in Levels
      PROVE  /\ stack'[i] \in Frames
             /\ SameContext(stack'[i], stack[i])
             /\ stack'[i].step = stack[i].step
             /\ stack'[i].signal_received
                  <=> stack[i].signal_received \/ stack[i].old_handler
  <2> DEFINE v == stack[i].signal_received \/ stack[i].old_handler
  <2>1. stack[i] \in Frames
    BY ElementOfSeq DEF Levels
  <2>2. stack'[i] = [stack[i] EXCEPT !.signal_received = v]
    BY <1>1 DEF Levels
  <2>3. v \in BOOLEAN
    OBVIOUS
  <2> HIDE DEF v
  <2>4. [stack[i] EXCEPT !.signal_received = v] \in Frames
    BY <2>1, <2>3 DEF Frames
  <2>5. stack'[i].signal_received = v
    BY <2>1, <2>2 DEF Frames
  <2>6. stack'[i].step = stack[i].step
    BY <2>1, <2>2 DEF Frames
  <2>7. SameContext(stack'[i], stack[i])
    <3> DEFINE f == stack[i]  g == [f EXCEPT !.signal_received = v]
    <3>1. f \in Frames
      BY <2>1
    <3> HIDE DEF f
    <3>2. SameContext(g, f)
      BY <3>1 DEF Frames, SameContext
    <3> QED BY <2>2, <3>2 DEF f
  <2> QED BY <2>2, <2>4, <2>5, <2>6, <2>7 DEF v
<1>3. stack' \in [1..Len(stack) -> Frames]
  BY <1>1, <1>2 DEF Levels
<1>4. stack' \in Seq(Frames)
  BY <1>1, <1>3, SeqDef
<1>5. Len(stack') = Len(stack)
  BY <1>1, <1>3, <1>4, LenProperties
<1> QED BY <1>1, <1>2, <1>4, <1>5, EmptySeq

-----------------------------------------------------------------------------
(* Each action preserves the invariant.                                    *)

(* What a context knows when it is entered: h tells whether the SIGINT     *)
(* handler is the default one.                                             *)
Entered(f, s, o, b, h) ==
  /\ f \in Frames
  /\ f.step = s /\ f.is_outmost = o /\ f.block = b
  /\ f.old_level = isolation_level
  /\ f.old_atomic_in_progress = atomic_in_progress
  /\ f.old_handler = h /\ f.signal_received = FALSE

LEMMA Framed ==
  ASSUME TypeOK, NEW s \in Steps, NEW o \in BOOLEAN, NEW b \in 0..MaxBlocks,
         NEW h \in BOOLEAN
  PROVE  Entered([Frame(s, o, b) EXCEPT !.old_handler = h], s, o, b, h)
<1> SUFFICES ASSUME NEW f, f = [Frame(s, o, b) EXCEPT !.old_handler = h]
             PROVE  Entered(f, s, o, b, h)
  OBVIOUS
<1>1. f = [step |-> s, is_outmost |-> o, block |-> b,
           old_level |-> isolation_level,
           old_atomic_in_progress |-> atomic_in_progress,
           old_handler |-> h, signal_received |-> FALSE]
  BY DEF Frame
<1>2. isolation_level \in {"default", "none"} /\ atomic_in_progress \in BOOLEAN
  BY DEF TypeOK
<1>3. \A l \in {"default", "none"}, a \in BOOLEAN :
        [step |-> s, is_outmost |-> o, block |-> b, old_level |-> l,
         old_atomic_in_progress |-> a, old_handler |-> h,
         signal_received |-> FALSE] \in Frames
  BY DEF Frames
<1>4. /\ f.step = s /\ f.block = b /\ f.old_level = isolation_level
  BY <1>1
<1>5. /\ f.is_outmost = o /\ f.old_handler = h /\ f.signal_received = FALSE
      /\ f.old_atomic_in_progress = atomic_in_progress
  BY <1>1
<1>6. f \in Frames
  BY <1>1, <1>2, <1>3
<1> QED BY <1>4, <1>5, <1>6 DEF Entered

LEMMA InitHolds == ASSUME Init PROVE IInv
<1>1. Len(stack) = 0 /\ Levels = {} /\ Atomics = {}
  BY DEF Init, Levels, Atomics
<1>2. TypeOK
  <2>1. <<>> \in Seq(Frames)
    BY EmptySeq
  <2>2. 0 \in 0..MaxStatements /\ 0 \in 0..MaxBlocks /\ 0 \in 0..MaxSigints
    BY AtomicAssumption
  <2> QED BY <2>1, <2>2 DEF Init, TypeOK
<1>3. SeenInv /\ StackInv /\ LevelInv /\ TransactionInv
  BY <1>1 DEF Init, SeenInv, StackInv, LevelInv, TransactionInv
<1>4. HandlerInv /\ CalmInv
  BY <1>1 DEF Init, HandlerInv, CalmInv
<1>5. DataInv
  BY <1>1, AtomicAssumption DEF Init, DataInv, Blocks
<1> QED BY <1>2, <1>3, <1>4, <1>5 DEF IInv, WholeInv

(* A step of the top frame, seen from the whole stack and from the handler. *)
LEMMA StackRelabelled ==
  ASSUME TypeOK, StackInv, NEW s \in Steps \ {"exit", "entered"}, Relabels(s),
         Top.block = 0 => s = "leaving",
         block' = block,
         raised' = "Exception" => s \notin {"opened", "begin"},
         Atomics' # {} => atomic_in_progress'
  PROVE  StackInv'
<1> SUFFICES ASSUME NEW i \in Levels
             PROVE
       /\ i < Len(stack) => stack'[i].step \in {"exit", "body"}
       /\ stack'[i].step = "exit" => stack'[i].block = 0
       /\ stack'[i].block = 0 => /\ i = 1 /\ ~stack'[i].is_outmost
                                 /\ stack'[i].step \in {"exit", "leaving"}
       /\ stack'[i].block # 0 => /\ stack'[i].block = block /\ block \in Blocks
                                 /\ stack'[i].old_atomic_in_progress
                                      = ~stack'[i].is_outmost
       /\ raised' = "Exception"
            => stack'[i].step \notin {"entered", "opened", "begin"}
       /\ stack'[i].step # "entered"
       /\ stack'[i].is_outmost => \A j \in 1..(i - 1) : stack'[j].step = "exit"
  BY DEF StackInv, Relabels
<1>1. SameContext(stack'[i], stack[i])
  BY DEF Relabels
<1>2. CASE i = Len(stack)
  <2>1. stack'[i].step = s /\ Top = stack[i]
    BY <1>2 DEF Relabels
  <2>2. \A j \in 1..(i - 1) : stack'[j].step = stack[j].step
    BY <1>2 DEF Relabels, Levels
  <2> QED BY <1>1, <1>2, <2>1, <2>2 DEF StackInv, SameContext
<1>3. CASE i # Len(stack)
  <2>1. stack'[i].step = stack[i].step /\ stack[i].step \in {"exit", "body"}
        /\ i < Len(stack)
    BY <1>3 DEF Relabels, StackInv, Levels
  <2>2. \A j \in 1..(i - 1) : stack'[j].step = stack[j].step
    BY <1>3 DEF Relabels, Levels
  <2> QED BY <1>1, <2>1, <2>2 DEF StackInv, SameContext
<1> QED BY <1>2, <1>3

LEMMA HandlerRelabelled ==
  ASSUME HandlerInv, NEW s \in Steps, Relabels(s),
         UNCHANGED <<handler, sigints, cut, owed>>,
         raised' = "KeyboardInterrupt" => raised = "KeyboardInterrupt"
  PROVE  HandlerInv'
BY DEF HandlerInv, Relabels, SameContext, Levels

(* ... and from the atomics: below the top they stay what they were.       *)
LEMMA AtomicsRelabelled ==
  ASSUME StackInv, NEW s \in Steps, Relabels(s)
  PROVE  /\ Atomics' \subseteq Levels /\ Atomics \subseteq Levels
         /\ \A i \in Levels : i # Len(stack) => i < Len(stack)
         /\ Len(stack) \in Atomics
              <=> Top.step \in {"opened", "begin", "body", "done", "restored"}
         /\ Len(stack) \in Atomics'
              <=> s \in {"opened", "begin", "body", "done", "restored"}
         /\ \A i \in Levels : i # Len(stack) => (i \in Atomics' <=> i \in Atomics)
         /\ \A i \in Levels : i # Len(stack) => stack[i].step \in {"exit", "body"}
         /\ \A i \in Levels : stack'[i].is_outmost = stack[i].is_outmost
BY DEF Relabels, SameContext, Atomics, StackInv, Levels

LEMMA EnterTryStep == ASSUME IInv, EnterTry PROVE IInv'
<1> USE DEF IInv
<1>1. stack # <<>> /\ stack \in Seq(Frames) /\ Top.step = "opened"
      /\ raised = "none" /\ raised' = "none" /\ Goto("begin")
  BY DEF EnterTry, TopAt, TypeOK
<1>2. Relabels("begin")
  BY <1>1, Stepped DEF Steps
<1>3. TypeOK' /\ SeenInv'
  BY <1>1, <1>2 DEF TypeOK, SeenInv, EnterTry, Relabels, connection, history
<1>4. StackInv'
  <2>1. Atomics' # {} => atomic_in_progress'
    BY <1>1, <1>2, AtomicsRelabelled DEF EnterTry, StackInv, Steps
  <2>2. Top.block # 0
    BY <1>1, <1>2 DEF StackInv, Relabels
  <2> QED BY <1>1, <1>2, <2>1, <2>2, StackRelabelled DEF EnterTry, history, Steps
<1>5. HandlerInv'
  BY <1>1, <1>2, HandlerRelabelled DEF EnterTry, history, Steps
<1> SUFFICES ASSUME LevelInv, DataInv, TransactionInv, CalmInv
               PROVE  LevelInv' /\ DataInv' /\ TransactionInv' /\ CalmInv'
  BY <1>3, <1>4, <1>5 DEF WholeInv, EnterTry, history
<1>7. LevelInv'
  BY <1>1, <1>2 DEF LevelInv, Relabels, SameContext, EnterTry
<1>8. DataInv'
  BY <1>1, <1>2
     DEF DataInv, Relabels, SameContext, EnterTry, connection, history
<1>9. TransactionInv'
  BY <1>1, <1>2
     DEF TransactionInv, Relabels, SameContext, EnterTry, connection, history
<1>10. CalmInv'
  BY <1>1, <1>2 DEF CalmInv, Undisturbed, Relabels, SameContext, EnterTry,
                    connection, history, Atomics, Ended
<1> QED BY <1>7, <1>8, <1>9, <1>10

(* Refused: only the step and the exception change.                        *)
LEMMA RefuseStep == ASSUME IInv, Refuse PROVE IInv'
<1> USE DEF IInv
<1>1. stack # <<>> /\ stack \in Seq(Frames) /\ Top.step = "entered"
      /\ raised = "none" /\ raised' = "Exception" /\ Goto("leaving")
      /\ Top.is_outmost /\ in_transaction
  BY DEF Refuse, TopAt, TypeOK
<1>2. Relabels("leaving")
  BY <1>1, Stepped DEF Steps
<1>3. TypeOK' /\ SeenInv'
  BY <1>1, <1>2 DEF TypeOK, SeenInv, Refuse, Relabels, connection, history
<1>4. StackInv'
  <2>1. Atomics' # {} => atomic_in_progress'
    BY <1>1, <1>2, AtomicsRelabelled DEF Refuse, StackInv, Steps
  <2> QED BY <1>1, <1>2, <2>1, StackRelabelled DEF Refuse, history, Steps
<1>5. HandlerInv'
  BY <1>1, <1>2, HandlerRelabelled DEF Refuse, history, Steps
<1> SUFFICES ASSUME LevelInv, DataInv, TransactionInv, CalmInv
             PROVE  LevelInv' /\ DataInv' /\ TransactionInv' /\ CalmInv'
  BY <1>3, <1>4, <1>5 DEF WholeInv, Refuse, history
<1>7. LevelInv'
  BY <1>1, <1>2 DEF LevelInv, Relabels, SameContext, Refuse
<1>8. DataInv'
  BY <1>1, <1>2 DEF DataInv, Relabels, SameContext, Refuse, connection, history
<1>9. TransactionInv'
  BY <1>1, <1>2
     DEF TransactionInv, Relabels, SameContext, Refuse, connection, history
<1>10. CalmInv'
  <2> SUFFICES ASSUME Undisturbed PROVE FALSE
    BY DEF CalmInv, Undisturbed, Refuse, history
  <2>1. PICK i \in Atomics : stack[i].is_outmost
    BY <1>1 DEF CalmInv
  <2>2. /\ i \in Levels /\ i # Len(stack) /\ i < Len(stack)
        /\ stack[i].step = "body"
    BY <1>1, <1>2 DEF Atomics, Relabels, StackInv, Levels
  <2>3. \A j \in 1..(Len(stack) - 1) : stack[j].step = "exit"
    BY <1>1, <1>2 DEF StackInv, Relabels
  <2> QED BY <2>2, <2>3, <1>2 DEF Relabels, Levels
<1> QED BY <1>7, <1>8, <1>9, <1>10

LEMMA OpenStep == ASSUME IInv, Open PROVE IInv'
<1> USE DEF IInv
<1>1. stack # <<>> /\ stack \in Seq(Frames) /\ Top.step = "entered"
      /\ raised = "none" /\ raised' = "none" /\ Goto("opened")
      /\ ~(Top.is_outmost /\ in_transaction) /\ atomic_in_progress' = TRUE
  BY DEF Open, TopAt, TypeOK
<1>2. Relabels("opened")
  BY <1>1, Stepped DEF Steps
<1>3. TypeOK' /\ SeenInv'
  BY <1>1, <1>2 DEF TypeOK, SeenInv, Open, Relabels, connection, history
<1>4. StackInv'
  <2>1. Top.block # 0
    BY <1>1, <1>2 DEF StackInv, Relabels
  <2> QED BY <1>1, <1>2, <2>1, StackRelabelled DEF Open, history, Steps
<1>5. HandlerInv'
  BY <1>1, <1>2, HandlerRelabelled DEF Open, history, Steps
<1> SUFFICES ASSUME LevelInv, DataInv, TransactionInv, CalmInv
             PROVE  LevelInv' /\ DataInv' /\ TransactionInv' /\ CalmInv'
  BY <1>3, <1>4, <1>5 DEF WholeInv, Open, history
<1>7. LevelInv'
  BY <1>1, <1>2 DEF LevelInv, Relabels, SameContext, Open
<1>8. DataInv'
  BY <1>1, <1>2 DEF DataInv, Relabels, SameContext, Open, connection, history
<1>9. TransactionInv'
  <2> SUFFICES ASSUME NEW i \in Levels, stack[i].is_outmost
               PROVE
        /\ stack'[i].step \in {"opened", "begin", "body", "done", "restored"} =>
             \A b \in Blocks : b # block => view[b] = file[b]
        /\ stack'[i].step \in {"entered", "opened", "begin"}
             => executed[block] = 0
        /\ stack'[i].step \in {"opened", "begin"} => ~in_transaction
        /\ stack'[i].step = "body" /\ raised' = "none" =>
             in_transaction /\ view[block] = executed[block]
    BY <1>2 DEF TransactionInv, Relabels, SameContext, Open, connection, history
  <2>1. CASE i = Len(stack)
    <3>1. ~in_transaction /\ view = file /\ executed[block] = 0
      BY <1>1, <1>2, <2>1 DEF Relabels, DataInv, TransactionInv
    <3> QED BY <1>2, <2>1, <3>1 DEF Relabels
  <2>2. CASE i # Len(stack)
    BY <1>1, <1>2, <2>2 DEF TransactionInv, Relabels
  <2> QED BY <2>1, <2>2
<1>10. CalmInv'
  <2> SUFFICES ASSUME Undisturbed PROVE CalmInv'
    BY DEF CalmInv, Undisturbed, Open, history
  <2>1. Len(stack) \in Atomics' /\ Atomics \subseteq Atomics'
    BY <1>1, <1>2, AtomicsRelabelled DEF Steps, Atomics
  <2>2. \E i \in Atomics' : stack'[i].is_outmost
    <3>1. CASE Top.is_outmost
      BY <1>2, <2>1, <3>1 DEF Relabels, SameContext
    <3>2. CASE ~Top.is_outmost
      <4>1. atomic_in_progress
        BY <1>1, <1>2, <3>2 DEF StackInv, Relabels, TypeOK
      <4>2. PICK i \in Atomics : stack[i].is_outmost
        BY <4>1 DEF CalmInv
      <4> QED BY <1>2, <2>1, <4>2 DEF Relabels, SameContext, Atomics
    <3> QED BY <3>1, <3>2
  <2>3. \A i \in Levels : stack'[i].step \notin Ended
    BY <1>2 DEF Relabels, StackInv, Levels, Ended
  <2>4. \A i \in Levels : stack'[i].step # "leaving"
    BY <2>3 DEF Ended
  <2>5. \A b \in over' : file'[b] = executed'[b]
    BY DEF CalmInv, Open, connection, history
  <2>6. Levels' = Levels
    BY <1>2 DEF Relabels
  <2> QED BY <2>2, <2>3, <2>4, <2>5, <2>6 DEF CalmInv
<1> QED BY <1>7, <1>8, <1>9, <1>10

LEMMA BeginStep == ASSUME IInv, Begin PROVE IInv'
<1> USE DEF IInv
<1>1. stack # <<>> /\ stack \in Seq(Frames) /\ Top.step = "begin"
      /\ raised = "none" /\ Goto("body")
  BY DEF Begin, TopAt, TypeOK
<1>2. Relabels("body")
  BY <1>1, Stepped DEF Steps
<1>3. /\ UNCHANGED <<file, view, executed, over, block, sigints, commit_failed,
                     cut, atomic_in_progress>>
      /\ raised' \in {"none", "Exception"}
  BY <1>1 DEF Begin, history
<1>4. /\ in_transaction => in_transaction'
      /\ in_transaction' => in_transaction \/ Top.is_outmost
      /\ raised' = "none" /\ Top.is_outmost => in_transaction'
  <2>1. CASE in_transaction' = (Top.is_outmost \/ in_transaction)
    BY <2>1
  <2>2. CASE in_transaction' = in_transaction /\ raised' = "Exception"
    BY <2>2
  <2> QED BY <2>1, <2>2 DEF Begin
<1>5. TypeOK' /\ SeenInv'
  BY <1>1, <1>2 DEF TypeOK, SeenInv, Begin, Relabels, connection, history
<1>6. StackInv'
  <2>1. Atomics' # {} => atomic_in_progress'
    BY <1>1, <1>2, <1>3, AtomicsRelabelled DEF StackInv, Steps
  <2>2. Top.block # 0
    BY <1>1, <1>2 DEF StackInv, Relabels
  <2> QED BY <1>1, <1>2, <1>3, <2>1, <2>2, StackRelabelled DEF Steps
<1>7. HandlerInv'
  BY <1>1, <1>2, <1>3, HandlerRelabelled DEF Begin, history, Steps
<1> SUFFICES ASSUME LevelInv, DataInv, TransactionInv, CalmInv
             PROVE  LevelInv' /\ DataInv' /\ TransactionInv' /\ CalmInv'
  BY <1>3, <1>5, <1>6, <1>7 DEF WholeInv
<1>8. LevelInv'
  BY <1>1, <1>2 DEF LevelInv, Relabels, SameContext, Begin
<1>9. DataInv'
  <2>1. ~in_transaction' => view' = file'
    BY <1>3, <1>4 DEF DataInv
  <2>2. \A i \in Levels' :
          /\ stack'[i].block = stack[i].block
          /\ stack'[i].step \in {"entered", "opened", "begin", "body"}
               => stack[i].step \in {"entered", "opened", "begin", "body"}
    BY <1>1, <1>2 DEF Relabels, SameContext
  <2> QED BY <1>2, <1>3, <1>4, <2>1, <2>2 DEF DataInv, Relabels
<1>10. TransactionInv'
  <2> SUFFICES ASSUME NEW i \in Levels, stack[i].is_outmost
               PROVE
        /\ stack'[i].step \in {"opened", "begin", "body", "done", "restored"} =>
             \A b \in Blocks : b # block => view[b] = file[b]
        /\ stack'[i].step \in {"entered", "opened", "begin"}
             => executed[block] = 0
        /\ stack'[i].step \in {"opened", "begin"} => ~in_transaction'
        /\ stack'[i].step = "body" /\ raised' = "none" =>
             in_transaction' /\ view[block] = executed[block]
    BY <1>2, <1>3 DEF TransactionInv, Relabels, SameContext
  <2>1. CASE i = Len(stack)
    <3>1. stack[i].step = "begin" /\ executed[block] = 0
          /\ \A b \in Blocks : b # block => view[b] = file[b]
      BY <1>1, <1>2, <2>1 DEF TransactionInv, Relabels
    <3>2. block \in Blocks /\ view[block] = 0
      BY <1>1, <1>2, <2>1, <3>1 DEF StackInv, SeenInv, Relabels, TypeOK
    <3> QED BY <1>2, <1>3, <1>4, <2>1, <3>1, <3>2 DEF Relabels
  <2>2. CASE i # Len(stack)
    <3>1. stack[i].step = stack'[i].step /\ stack'[i].step \in {"exit", "body"}
      BY <1>2, <2>2 DEF StackInv, Relabels, Levels
    <3> QED BY <1>1, <1>3, <1>4, <3>1 DEF TransactionInv
  <2> QED BY <2>1, <2>2
<1>11. CalmInv'
  <2> SUFFICES ASSUME Undisturbed PROVE CalmInv'
    BY <1>3 DEF CalmInv, Undisturbed
  <2>1. Len(stack) \in Atomics /\ Atomics' = Atomics /\ Atomics \subseteq Levels
    <3>1. Len(stack) \in Atomics /\ Len(stack) \in Atomics'
          /\ Atomics \subseteq Levels /\ Atomics' \subseteq Levels
      BY <1>1, <1>2, AtomicsRelabelled DEF Steps
    <3>2. \A i \in Levels : i # Len(stack) => (i \in Atomics' <=> i \in Atomics)
      BY <1>1, <1>2, AtomicsRelabelled DEF Steps
    <3> QED BY <3>1, <3>2
  <2>2. in_transaction' \/ atomic_in_progress' => \E i \in Atomics : stack[i].is_outmost
    BY <1>2, <1>3, <1>4, <2>1 DEF CalmInv, Relabels
  <2>3. \A i \in Levels : stack'[i].step \notin Ended /\ stack'[i].step # "leaving"
    BY <1>2 DEF Relabels, StackInv, Levels, Ended
  <2>4. \A b \in over' : file'[b] = executed'[b]
    BY <1>3 DEF CalmInv
  <2>5. Levels' = Levels
        /\ \A i \in Levels : stack'[i].is_outmost = stack[i].is_outmost
    BY <1>2 DEF Relabels, SameContext
  <2> QED BY <2>1, <2>2, <2>3, <2>4, <2>5 DEF CalmInv
<1> QED BY <1>8, <1>9, <1>10, <1>11

LEMMA CommitStep == ASSUME IInv, Commit PROVE IInv'
<1> USE DEF IInv
<1>1. stack # <<>> /\ stack \in Seq(Frames) /\ Top.step = "body"
      /\ raised = "none" /\ raised' = "none" /\ Goto("done")
  BY DEF Commit, TopAt, TypeOK
<1>2. Relabels("done")
  BY <1>1, Stepped DEF Steps
<1>3. UNCHANGED <<view, isolation_level, atomic_in_progress, handler, block,
                  executed, over, sigints, commit_failed, cut, owed>>
  BY DEF Commit, history
<1>4. TypeOK' /\ SeenInv'
  BY <1>1, <1>2 DEF TypeOK, SeenInv, Commit, Relabels, connection, history
<1>5. StackInv'
  <2>1. Atomics' # {} => atomic_in_progress'
    BY <1>1, <1>2, <1>3, AtomicsRelabelled DEF StackInv, Steps
  <2>2. Top.block # 0
    BY <1>1, <1>2 DEF StackInv, Relabels
  <2> QED BY <1>1, <1>2, <1>3, <2>1, <2>2, StackRelabelled DEF Steps
<1>6. HandlerInv'
  BY <1>1, <1>2, <1>3, HandlerRelabelled DEF Steps
<1> SUFFICES ASSUME LevelInv, DataInv, TransactionInv, CalmInv
             PROVE  LevelInv' /\ DataInv' /\ TransactionInv' /\ CalmInv'
  BY <1>3, <1>4, <1>5, <1>6 DEF WholeInv
<1>7. /\ Top.is_outmost => /\ file' = view
                           /\ in_transaction' = FALSE
                           /\ view[block] = executed[block]
                           /\ \A b \in Blocks : b # block => view[b] = file[b]
                           /\ \A j \in 1..(Len(stack) - 1) : stack[j].step = "exit"
      /\ ~Top.is_outmost => UNCHANGED <<file, in_transaction>>
  BY <1>1, <1>2
     DEF Commit, CommitsHere, TransactionInv, StackInv, Relabels
<1>8. LevelInv'
  BY <1>1, <1>2, <1>3 DEF LevelInv, Relabels, SameContext
<1>9. DataInv'
  <2>1. \A b \in Blocks : file'[b] # 0 => file'[b] = executed[b]
    BY <1>7 DEF DataInv, SeenInv
  <2>2. ~in_transaction' => view' = file'
    BY <1>3, <1>7 DEF DataInv
  <2>3. ASSUME NEW i \in Levels,
               stack'[i].step \in {"entered", "opened", "begin", "body"}
        PROVE  file'[stack'[i].block] = 0
    <3>1. /\ i \in 1..(Len(stack) - 1) /\ stack[i].step = stack'[i].step
          /\ stack'[i].block = stack[i].block
      BY <1>2, <2>3 DEF Relabels, SameContext, Levels
    <3>2. ~Top.is_outmost
      BY <1>7, <2>3, <3>1
    <3> QED BY <1>7, <2>3, <3>1, <3>2 DEF DataInv
  <2>4. \A b \in over : b <= block /\ \A i \in Levels : stack'[i].block # b
    BY <1>2 DEF DataInv, Relabels, SameContext
  <2>5. Levels' = Levels
    BY <1>2 DEF Relabels
  <2> QED BY <1>3, <2>1, <2>2, <2>3, <2>4, <2>5 DEF DataInv
<1>10. TransactionInv'
  <2> SUFFICES ASSUME NEW i \in Levels, stack[i].is_outmost
               PROVE
        /\ stack'[i].step \in {"opened", "begin", "body", "done", "restored"} =>
             \A b \in Blocks : b # block => view[b] = file'[b]
        /\ stack'[i].step \in {"entered", "opened", "begin"}
             => executed[block] = 0
        /\ stack'[i].step \in {"opened", "begin"} => ~in_transaction'
        /\ stack'[i].step = "body" /\ raised' = "none" =>
             in_transaction' /\ view[block] = executed[block]
    BY <1>2, <1>3 DEF TransactionInv, Relabels, SameContext
  <2>1. CASE i = Len(stack)
    BY <1>2, <1>7, <2>1 DEF Relabels
  <2>2. CASE i # Len(stack)
    <3>1. stack'[i].step = stack[i].step /\ i \in 1..(Len(stack) - 1)
          /\ stack[i].step \in {"exit", "body"}
      BY <1>2, <2>2 DEF Relabels, StackInv, Levels
    <3>2. stack[i].step # "exit"
      BY DEF StackInv
    <3>3. UNCHANGED <<file, in_transaction>>
      BY <1>7, <3>1, <3>2
    <3> QED BY <1>1, <3>1, <3>3 DEF TransactionInv
  <2> QED BY <2>1, <2>2
<1>11. CalmInv'
  <2> SUFFICES ASSUME Undisturbed PROVE CalmInv'
    BY <1>3 DEF CalmInv, Undisturbed
  <2>1. Levels' = Levels /\ Atomics' = Atomics /\ Atomics \subseteq Levels
        /\ \A i \in Levels : stack'[i].is_outmost = stack[i].is_outmost
    BY <1>1, <1>2 DEF Atomics, Relabels, SameContext
  <2>2. \A i \in Levels' : stack'[i].step # "leaving"
    BY <1>2, <2>1 DEF StackInv, Relabels, Levels
  <2>3. in_transaction' \/ atomic_in_progress'
          => \E i \in Atomics' : stack'[i].is_outmost
    BY <1>3, <1>7, <2>1 DEF CalmInv
  <2>4. \A i \in Levels : stack'[i].step \in Ended => i = Len(stack)
    BY <1>2 DEF StackInv, Relabels, Levels, Ended
  <2>5. \A i \in Levels' : stack'[i].is_outmost /\ stack'[i].step \in Ended
          => ~in_transaction' /\ file'[block'] = executed'[block']
    BY <1>2, <1>3, <1>7, <2>1, <2>4 DEF Relabels
  <2>6. \A b \in over : b # block /\ b \in Blocks
    <3>1. Len(stack) \in Levels /\ stack[Len(stack)].block = block
      BY <1>1, <1>2 DEF StackInv, Relabels
    <3> QED BY <3>1 DEF DataInv, TypeOK
  <2>7. \A b \in over' : file'[b] = executed'[b]
    BY <1>3, <1>7, <2>6 DEF CalmInv
  <2> QED BY <2>2, <2>3, <2>5, <2>7 DEF CalmInv
<1> QED BY <1>8, <1>9, <1>10, <1>11

LEMMA CommitFailsStep == ASSUME IInv, CommitFails PROVE IInv'
<1> USE DEF IInv
<1>1. stack # <<>> /\ stack \in Seq(Frames) /\ Top.step = "body"
      /\ raised = "none" /\ raised' = "Exception" /\ Goto("done")
  BY DEF CommitFails, TopAt, TypeOK
<1>2. Relabels("done")
  BY <1>1, Stepped DEF Steps
<1>3. UNCHANGED <<connection, isolation_level, atomic_in_progress, handler,
                  block, executed, over, sigints, cut, owed>>
  BY DEF CommitFails
<1>4. TypeOK' /\ SeenInv'
  BY <1>1, <1>2 DEF TypeOK, SeenInv, CommitFails, Relabels, connection
<1>5. StackInv'
  <2>1. Atomics' # {} => atomic_in_progress'
    BY <1>1, <1>2, <1>3, AtomicsRelabelled DEF StackInv, Steps
  <2>2. Top.block # 0
    BY <1>1, <1>2 DEF StackInv, Relabels
  <2> QED BY <1>1, <1>2, <1>3, <2>1, <2>2, StackRelabelled DEF Steps
<1>6. HandlerInv'
  BY <1>1, <1>2, <1>3, HandlerRelabelled DEF Steps
<1> SUFFICES ASSUME LevelInv, DataInv, TransactionInv, CalmInv
             PROVE  LevelInv' /\ DataInv' /\ TransactionInv' /\ CalmInv'
  BY <1>3, <1>4, <1>5, <1>6 DEF WholeInv
<1>7. LevelInv'
  BY <1>1, <1>2, <1>3 DEF LevelInv, Relabels, SameContext
<1>8. DataInv'
  BY <1>1, <1>2, <1>3 DEF DataInv, Relabels, SameContext, connection
<1>9. TransactionInv'
  BY <1>1, <1>2, <1>3 DEF TransactionInv, Relabels, SameContext, connection
<1>10. CalmInv'
  BY DEF CalmInv, Undisturbed, CommitFails
<1> QED BY <1>7, <1>8, <1>9, <1>10

LEMMA ExceptClauseStep == ASSUME IInv, ExceptClause PROVE IInv'
<1> USE DEF IInv
<1>1. /\ stack # <<>> /\ stack \in Seq(Frames) /\ Top.step = "body"
      /\ raised = "Exception" /\ raised' = "Exception" /\ Goto("done")
  BY OfTop DEF ExceptClause, TopAt, TypeOK, StackInv
<1>2. Relabels("done")
  BY <1>1, Stepped DEF Steps
<1>3. UNCHANGED <<file, isolation_level, atomic_in_progress, handler, block,
                  executed, over, sigints, commit_failed, cut, owed>>
  BY DEF ExceptClause, Rollback, history
<1>4. view' = file /\ in_transaction' = FALSE
  BY DEF ExceptClause, Rollback
<1>5. TypeOK' /\ SeenInv'
  BY <1>1, <1>2, <1>3, <1>4 DEF TypeOK, SeenInv, Relabels
<1>6. StackInv'
  <2>1. Atomics' # {} => atomic_in_progress'
    BY <1>1, <1>2, <1>3, AtomicsRelabelled DEF StackInv, Steps
  <2>2. Top.block # 0
    BY <1>1, <1>2 DEF StackInv, Relabels
  <2> QED BY <1>1, <1>2, <1>3, <2>1, <2>2, StackRelabelled DEF Steps
<1>7. HandlerInv'
  BY <1>1, <1>2, <1>3, HandlerRelabelled DEF Steps
<1> SUFFICES ASSUME LevelInv, DataInv, TransactionInv, CalmInv
             PROVE  LevelInv' /\ DataInv' /\ TransactionInv' /\ CalmInv'
  BY <1>3, <1>5, <1>6, <1>7 DEF WholeInv
<1>8. LevelInv'
  BY <1>1, <1>2, <1>3 DEF LevelInv, Relabels, SameContext
<1>9. DataInv'
  BY <1>1, <1>2, <1>3, <1>4 DEF DataInv, Relabels, SameContext
<1>10. TransactionInv'
  <2>1. \A i \in Levels :
          stack'[i].step \notin {"entered", "opened", "begin"}
    BY <1>2 DEF Relabels, StackInv, Levels
  <2> QED BY <1>1, <1>2, <1>3, <1>4, <2>1 DEF TransactionInv, Relabels
<1>11. CalmInv'
  <2> SUFFICES ASSUME Undisturbed PROVE CalmInv'
    BY <1>3 DEF CalmInv, Undisturbed
  <2>1. Levels' = Levels /\ Atomics' = Atomics /\ Atomics \subseteq Levels
        /\ \A i \in Levels : stack'[i].is_outmost = stack[i].is_outmost
    BY <1>1, <1>2 DEF Atomics, Relabels, SameContext
  <2>2. \A i \in Levels' : stack'[i].step # "leaving"
    BY <1>2, <2>1 DEF StackInv, Relabels, Levels
  <2> QED BY <1>1, <1>3, <1>4, <2>1, <2>2 DEF CalmInv
<1> QED BY <1>8, <1>9, <1>10, <1>11

(* A context that is left early: the connection is as it was.              *)
LEMMA UnwindStep == ASSUME IInv, Unwind PROVE IInv'
<1> USE DEF IInv
<1>1. PICK s \in {"done", "leaving"} :
        /\ stack # <<>> /\ stack \in Seq(Frames) /\ Goto(s)
        /\ s = "done" => Top.step \in {"begin", "body"}
                         /\ raised = "KeyboardInterrupt"
        /\ s = "leaving" => \/ Top.step = "exit"
                            \/ Top.step \in {"entered", "opened"} /\ raised # "none"
  BY DEF Unwind, TopAt, TypeOK
<1>2. Relabels(s)
  BY <1>1, Stepped DEF Steps
<1>3. UNCHANGED <<connection, isolation_level, atomic_in_progress, handler,
                  raised, block, executed, over, sigints, commit_failed, cut,
                  owed>>
  BY DEF Unwind, history
<1>4. TypeOK' /\ SeenInv'
  BY <1>2, <1>3 DEF TypeOK, SeenInv, Relabels, connection
<1>5. StackInv'
  <2>1. Atomics' # {} => atomic_in_progress'
    BY <1>1, <1>2, <1>3, AtomicsRelabelled DEF StackInv, Steps
  <2>2. Top.block = 0 => s = "leaving"
    BY <1>1, <1>2 DEF StackInv, Relabels
  <2>3. s \in Steps \ {"exit", "entered"} /\ s \notin {"opened", "begin"}
    BY DEF Steps
  <2> QED BY <1>2, <1>3, <2>1, <2>2, <2>3, StackRelabelled
<1>6. HandlerInv'
  BY <1>2, <1>3, HandlerRelabelled DEF Steps
<1> SUFFICES ASSUME LevelInv, DataInv, TransactionInv, CalmInv
             PROVE  LevelInv' /\ DataInv' /\ TransactionInv' /\ CalmInv'
  BY <1>3, <1>4, <1>5, <1>6 DEF WholeInv
<1>7. LevelInv'
  BY <1>1, <1>2, <1>3 DEF LevelInv, Relabels, SameContext
<1>8. DataInv'
  BY <1>1, <1>2, <1>3 DEF DataInv, Relabels, SameContext, connection
<1>9. TransactionInv'
  BY <1>1, <1>2, <1>3 DEF TransactionInv, Relabels, SameContext, connection
<1>10. CalmInv'
  <2> SUFFICES ASSUME Undisturbed PROVE CalmInv'
    BY <1>3 DEF CalmInv, Undisturbed
  <2>1. raised # "KeyboardInterrupt"
    BY <1>1 DEF HandlerInv, Undisturbed
  <2>2. s = "leaving" /\ Top.step = "exit"
    BY <1>1, <1>2, <2>1 DEF StackInv, Relabels, TypeOK
  <2>3. Top.block = 0 /\ ~Top.is_outmost
    BY <1>2, <2>2 DEF StackInv, Relabels
  <2>4. /\ Levels' = Levels /\ Atomics' = Atomics /\ Atomics \subseteq Levels
        /\ \A i \in Levels : SameContext(stack'[i], stack[i])
        /\ \A i \in Levels : \/ stack'[i].step = stack[i].step
                             \/ stack[i].block = 0 /\ ~stack[i].is_outmost
    <3>1. Levels' = Levels /\ \A i \in Levels : SameContext(stack'[i], stack[i])
      BY <1>2 DEF Relabels
    <3>2. Atomics' = Atomics /\ Atomics \subseteq Levels
      BY <1>2, <2>2, AtomicsRelabelled DEF Steps
    <3>3. \A i \in Levels : \/ stack'[i].step = stack[i].step
                            \/ stack[i].block = 0 /\ ~stack[i].is_outmost
      <4>1. stack[Len(stack)].block = 0 /\ ~stack[Len(stack)].is_outmost
        BY <1>2, <2>3 DEF Relabels
      <4>2. \A i \in Levels : i # Len(stack) => stack'[i].step = stack[i].step
        BY <1>2 DEF Relabels
      <4> QED BY <4>1, <4>2
    <3> QED BY <3>1, <3>2, <3>3
  <2> QED BY <1>3, <2>4 DEF CalmInv, SameContext, connection
<1> QED BY <1>7, <1>8, <1>9, <1>10

LEMMA FinallyLevelStep == ASSUME IInv, FinallyLevel PROVE IInv'
<1> USE DEF IInv
<1>1. stack # <<>> /\ stack \in Seq(Frames) /\ Top.step = "done"
      /\ Goto("restored")
      /\ isolation_level' = IF Top.is_outmost THEN Top.old_level
                                              ELSE isolation_level
  BY DEF FinallyLevel, TopAt, TypeOK
<1>2. Relabels("restored") /\ Top \in Frames
  BY <1>1, Stepped, OfTop DEF Steps
<1>3. UNCHANGED <<connection, atomic_in_progress, handler, raised, block,
                  executed, over, sigints, commit_failed, cut, owed>>
  BY DEF FinallyLevel, history
<1>4. TypeOK' /\ SeenInv'
  BY <1>1, <1>2, <1>3 DEF TypeOK, SeenInv, Relabels, connection, Frames
<1>5. StackInv'
  <2>1. Atomics' # {} => atomic_in_progress'
    BY <1>1, <1>2, <1>3, AtomicsRelabelled DEF StackInv, Steps
  <2>2. Top.block # 0
    BY <1>1, <1>2 DEF StackInv, Relabels
  <2> QED BY <1>1, <1>2, <1>3, <2>1, <2>2, StackRelabelled DEF Steps
<1>6. HandlerInv'
  BY <1>1, <1>2, <1>3, HandlerRelabelled DEF Steps
<1> SUFFICES ASSUME LevelInv, DataInv, TransactionInv, CalmInv
             PROVE  LevelInv' /\ DataInv' /\ TransactionInv' /\ CalmInv'
  BY <1>3, <1>4, <1>5, <1>6 DEF WholeInv
<1>7. LevelInv'
  <2>1. \A i \in Levels' : stack'[i].is_outmost => stack'[i].old_level = "default"
    BY <1>2 DEF LevelInv, Relabels, SameContext
  <2>2. CASE Top.is_outmost
    <3>1. isolation_level' = "default"
      BY <1>1, <1>2, <2>2 DEF LevelInv, Relabels
    <3> QED BY <2>1, <3>1 DEF LevelInv
  <2>3. CASE ~Top.is_outmost
    BY <1>1, <1>2, <2>1, <2>3 DEF LevelInv, Relabels, SameContext
  <2> QED BY <2>2, <2>3
<1>8. DataInv'
  BY <1>1, <1>2, <1>3 DEF DataInv, Relabels, SameContext, connection
<1>9. TransactionInv'
  BY <1>1, <1>2, <1>3 DEF TransactionInv, Relabels, SameContext, connection
<1>10. CalmInv'
  BY <1>1, <1>2, <1>3 DEF CalmInv, Undisturbed, Relabels, SameContext,
                          connection, Atomics, Ended
<1> QED BY <1>7, <1>8, <1>9, <1>10

LEMMA FinallyProgressStep == ASSUME IInv, FinallyProgress PROVE IInv'
<1> USE DEF IInv
<1>1. stack # <<>> /\ stack \in Seq(Frames) /\ Top.step = "restored"
      /\ Goto("leaving") /\ atomic_in_progress' = Top.old_atomic_in_progress
  BY DEF FinallyProgress, FoundInProgress, TopAt, TypeOK
<1>2. Relabels("leaving") /\ Top \in Frames
  BY <1>1, Stepped, OfTop DEF Steps
<1>3. UNCHANGED <<connection, isolation_level, handler, raised, block,
                  executed, over, sigints, commit_failed, cut, owed>>
  BY DEF FinallyProgress, history
<1>4. /\ Top.block # 0 /\ atomic_in_progress' = ~Top.is_outmost
      /\ Len(stack) \in Atomics /\ atomic_in_progress
      /\ Top.is_outmost => \A i \in Levels : i # Len(stack) => stack[i].step = "exit"
  BY <1>1, <1>2 DEF StackInv, Relabels, Atomics, Levels
<1>5. /\ Atomics' \subseteq Atomics
      /\ \A i \in Atomics : i \in Atomics' \/ i = Len(stack)
      /\ Len(stack) \notin Atomics' /\ Atomics \subseteq Levels
      /\ Atomics' # {} => ~Top.is_outmost
  BY <1>1, <1>2, <1>4 DEF Atomics, Relabels
<1>6. TypeOK' /\ SeenInv'
  BY <1>1, <1>2, <1>3 DEF TypeOK, SeenInv, Relabels, connection, Frames
<1>7. StackInv'
  BY <1>2, <1>3, <1>4, <1>5, StackRelabelled DEF Steps
<1>8. HandlerInv'
  BY <1>1, <1>2, <1>3, HandlerRelabelled DEF Steps
<1> SUFFICES ASSUME LevelInv, DataInv, TransactionInv, CalmInv
             PROVE  LevelInv' /\ DataInv' /\ TransactionInv' /\ CalmInv'
  BY <1>3, <1>6, <1>7, <1>8 DEF WholeInv
<1>9. LevelInv'
  BY <1>1, <1>2, <1>3 DEF LevelInv, Relabels, SameContext
<1>10. DataInv'
  BY <1>1, <1>2, <1>3 DEF DataInv, Relabels, SameContext, connection
<1>11. TransactionInv'
  BY <1>1, <1>2, <1>3 DEF TransactionInv, Relabels, SameContext, connection
<1>12. CalmInv'
  <2> SUFFICES ASSUME Undisturbed PROVE CalmInv'
    BY <1>3 DEF CalmInv, Undisturbed
  <2>1. /\ Levels' = Levels
        /\ \A i \in Levels : SameContext(stack'[i], stack[i])
        /\ \A i \in Levels : i # Len(stack) => stack[i].step \in {"exit", "body"}
        /\ \A i \in Levels : i # Len(stack) => stack'[i].step = stack[i].step
        /\ Top = stack[Len(stack)] /\ Len(stack) \in Levels
    BY <1>2 DEF Relabels, StackInv, Levels
  <2>2. \A i \in Levels : i # Len(stack) => stack'[i].step \notin Ended
    BY <2>1 DEF Ended
  <2>3. PICK k \in Atomics : stack[k].is_outmost
    BY <1>4 DEF CalmInv
  <2>4. in_transaction' \/ atomic_in_progress'
          => \E i \in Atomics' : stack'[i].is_outmost
    <3>1. CASE Top.is_outmost
      BY <1>1, <1>3, <1>4, <2>1, <3>1 DEF CalmInv, Ended, connection
    <3>2. CASE ~Top.is_outmost
      BY <1>5, <2>1, <2>3, <3>2 DEF SameContext
    <3> QED BY <3>1, <3>2
  <2>5. Top.is_outmost => ~in_transaction
                          /\ (raised = "none" => file[block] = executed[block])
    BY <1>1, <2>1 DEF CalmInv, Ended
  <2>6. \A i \in Levels' : stack'[i].is_outmost /\ stack'[i].step \in Ended =>
          /\ ~in_transaction'
          /\ raised' = "none" => file'[block'] = executed'[block']
    BY <1>3, <2>1, <2>2, <2>5 DEF SameContext, connection
  <2>7. \A i \in Levels' : stack'[i].step = "leaving" /\ stack'[i].block # 0 =>
          atomic_in_progress' = ~stack'[i].is_outmost
    BY <1>4, <2>1 DEF SameContext
  <2>8. \A b \in over' : file'[b] = executed'[b]
    BY <1>3 DEF CalmInv, connection
  <2> QED BY <2>4, <2>6, <2>7, <2>8 DEF CalmInv
<1> QED BY <1>9, <1>10, <1>11, <1>12

LEMMA ExecuteFailsStep == ASSUME IInv, ExecuteFails PROVE IInv'
<1> USE DEF IInv
<1>1. /\ stack # <<>> /\ stack \in Seq(Frames) /\ Top.step = "body"
      /\ raised = "none" /\ raised' = "Exception"
      /\ Len(stack) >= 1 /\ Len(stack) \in Levels /\ Top = stack[Len(stack)]
  BY OfTop DEF ExecuteFails, TopAt, TypeOK
<1>2. UNCHANGED <<connection, isolation_level, atomic_in_progress, stack,
                  handler, history, cut, owed>>
  BY DEF ExecuteFails, history
<1>3. Levels' = Levels /\ Atomics' = Atomics
  BY <1>2 DEF Levels, Atomics
<1>4. \A i \in Levels : stack[i].step \in {"exit", "body"}
  BY <1>1 DEF StackInv, Levels
<1>5. TypeOK' /\ SeenInv'
  BY <1>1, <1>2 DEF TypeOK, SeenInv, connection, history
<1>6. StackInv'
  BY <1>1, <1>2, <1>3, <1>4 DEF StackInv, history
<1>7. HandlerInv'
  BY <1>1, <1>2, <1>3 DEF HandlerInv, history
<1> SUFFICES ASSUME LevelInv, DataInv, TransactionInv, CalmInv
             PROVE  LevelInv' /\ DataInv' /\ TransactionInv' /\ CalmInv'
  BY <1>2, <1>5, <1>6, <1>7 DEF WholeInv
<1>8. LevelInv'
  BY <1>2, <1>3 DEF LevelInv
<1>9. DataInv'
  BY <1>2, <1>3 DEF DataInv, connection, history
<1>10. TransactionInv'
  BY <1>1, <1>2, <1>3 DEF TransactionInv, connection, history
<1>11. CalmInv'
  BY <1>1, <1>2, <1>3, <1>4 DEF CalmInv, Undisturbed, connection, history
<1> QED BY <1>8, <1>9, <1>10, <1>11

(* Below an outmost atomic that is in its body nothing has its step.       *)
LEMMA ExecuteStep == ASSUME IInv, Execute PROVE IInv'
<1> USE DEF IInv
<1>1. /\ stack # <<>> /\ stack \in Seq(Frames) /\ Top.step = "body"
      /\ raised = "none" /\ raised' = "none"
      /\ Len(stack) >= 1 /\ Len(stack) \in Levels /\ Top = stack[Len(stack)]
  BY OfTop DEF Execute, TopAt, TypeOK
<1>2. UNCHANGED <<isolation_level, atomic_in_progress, stack, handler, raised,
                  block, over, sigints, commit_failed, cut, owed>>
  BY DEF Execute
<1>3. Levels' = Levels /\ Atomics' = Atomics /\ Len(stack) \in Atomics
      /\ Atomics \subseteq Levels
  BY <1>1, <1>2 DEF Levels, Atomics
<1>4. \A i \in Levels : stack[i].step \in {"exit", "body"}
  BY <1>1 DEF StackInv, Levels
<1>5. Top.block = block /\ block \in Blocks
  BY <1>1 DEF StackInv
<1>6. /\ executed[block] < MaxStatements
      /\ executed' = [executed EXCEPT ![block] = @ + 1]
      /\ view' = [view EXCEPT ![block] = @ + 1]
      /\ file' = IF in_transaction' THEN file ELSE view'
      /\ in_transaction' \in BOOLEAN
  BY <1>1, <1>5 DEF Execute, TypeOK
<1>7. \A b \in Blocks :
        /\ executed[b] \in 0..MaxStatements /\ view[b] \in 0..MaxStatements
        /\ file[b] \in 0..MaxStatements
        /\ file[b] <= executed[b] /\ view[b] <= executed[b]
        /\ executed'[b] = IF b = block THEN executed[b] + 1 ELSE executed[b]
        /\ view'[b] = IF b = block THEN view[b] + 1 ELSE view[b]
  BY <1>5, <1>6 DEF TypeOK, SeenInv
<1>8. TypeOK' /\ SeenInv'
  <2>1. executed' \in [Blocks -> 0..MaxStatements]
    BY <1>5, <1>6, AtomicAssumption DEF TypeOK
  <2>2. view' \in [Blocks -> 0..MaxStatements]
    BY <1>5, <1>6, <1>7, AtomicAssumption DEF TypeOK
  <2>3. file' \in [Blocks -> 0..MaxStatements]
    BY <1>6, <2>2 DEF TypeOK
  <2>4. TypeOK'
    BY <1>1, <1>2, <1>6, <2>1, <2>2, <2>3 DEF TypeOK
  <2>5. SeenInv'
    BY <1>6, <1>7, AtomicAssumption DEF SeenInv
  <2> QED BY <2>4, <2>5
<1>9. StackInv' /\ HandlerInv'
  BY <1>2, <1>3 DEF StackInv, HandlerInv
<1> SUFFICES ASSUME LevelInv, DataInv, TransactionInv, CalmInv
             PROVE  LevelInv' /\ DataInv' /\ TransactionInv' /\ CalmInv'
  BY <1>2, <1>8, <1>9 DEF WholeInv
<1>10. in_transaction' /\ file' = file /\ file[block] = 0
  <2>1. CASE isolation_level = "default"
    BY <1>1, <1>5, <2>1 DEF Execute, DataInv
  <2>2. CASE isolation_level # "default"
    <3>1. isolation_level = "none"
      BY <2>2 DEF TypeOK
    <3>2. PICK i \in Levels : stack[i].is_outmost /\ stack[i].step = "body"
      BY <1>4, <3>1 DEF LevelInv
    <3>3. in_transaction
      BY <1>1, <3>2 DEF TransactionInv
    <3> QED BY <1>1, <1>5, <3>3 DEF Execute, DataInv
  <2> QED BY <2>1, <2>2
<1>11. LevelInv'
  BY <1>2, <1>3 DEF LevelInv
<1>12. DataInv'
  <2>1. \A b \in Blocks : /\ file[b] # 0 => file[b] = executed'[b]
                          /\ b > block => executed'[b] = 0
    BY <1>5, <1>7, <1>10 DEF DataInv, TypeOK, Blocks
  <2> QED BY <1>2, <1>3, <1>10, <2>1 DEF DataInv
<1>13. TransactionInv'
  <2> SUFFICES ASSUME NEW i \in Levels, stack[i].is_outmost
               PROVE  /\ \A b \in Blocks : b # block => view'[b] = file[b]
                      /\ view'[block] = executed'[block]
    BY <1>2, <1>3, <1>4, <1>10 DEF TransactionInv
  <2>1. stack[i].step = "body"
    BY <1>4 DEF StackInv
  <2> QED BY <1>1, <1>5, <1>7, <2>1 DEF TransactionInv
<1>14. CalmInv'
  <2> SUFFICES ASSUME Undisturbed PROVE CalmInv'
    BY <1>2 DEF CalmInv, Undisturbed
  <2>1. \A b \in over : b \in Blocks /\ b # block
    BY <1>1, <1>5 DEF DataInv, TypeOK
  <2>2. \A b \in over' : file'[b] = executed'[b]
    BY <1>2, <1>7, <1>10, <2>1 DEF CalmInv
  <2>3. \E i \in Atomics' : stack'[i].is_outmost
    <3>1. atomic_in_progress
      BY <1>3 DEF StackInv
    <3> QED BY <1>2, <1>3, <3>1 DEF CalmInv
  <2>4. \A i \in Levels' : stack'[i].step \notin Ended /\ stack'[i].step # "leaving"
    BY <1>2, <1>3, <1>4 DEF Ended
  <2> QED BY <2>2, <2>3, <2>4 DEF CalmInv
<1> QED BY <1>11, <1>12, <1>13, <1>14

LEMMA CaughtStep == ASSUME IInv, Caught PROVE IInv'
<1> USE DEF IInv
<1>1. UNCHANGED <<connection, isolation_level, atomic_in_progress, stack,
                  handler, history, owed>> /\ raised' = "none"
  BY DEF Caught
<1>2. Levels' = Levels /\ Atomics' = Atomics /\ Levels = 1..Len(stack)
      /\ stack \in Seq(Frames)
  BY <1>1 DEF Levels, Atomics, TypeOK
<1>3. \A i \in Levels : stack[i].step = "exit"
  <2>1. CASE stack = <<>>
    BY <1>2, <2>1
  <2>2. CASE stack # <<>> /\ Top.step = "exit"
    <3>1. Len(stack) \in Levels /\ Top = stack[Len(stack)]
      BY <2>2, <1>2, OfTop
    <3>2. Len(stack) = 1
      BY <2>2, <3>1 DEF StackInv
    <3> QED BY <1>2, <2>2, <3>1, <3>2
  <2> QED BY <2>1, <2>2 DEF Caught, TopAt
<1>4. TypeOK' /\ SeenInv'
  BY <1>1 DEF TypeOK, SeenInv, connection, history
<1>5. StackInv' /\ HandlerInv'
  BY <1>1, <1>2, <1>3 DEF StackInv, HandlerInv, history
<1> SUFFICES ASSUME LevelInv, DataInv, TransactionInv, CalmInv
             PROVE  LevelInv' /\ DataInv' /\ TransactionInv' /\ CalmInv'
  BY <1>1, <1>4, <1>5 DEF WholeInv, history
<1>6. LevelInv'
  BY <1>1, <1>2 DEF LevelInv
<1>7. DataInv'
  BY <1>1, <1>2 DEF DataInv, connection, history
<1>8. TransactionInv'
  BY <1>2, <1>3, <1>1 DEF TransactionInv, StackInv
<1>9. CalmInv'
  BY <1>1, <1>2, <1>3 DEF CalmInv, Undisturbed, connection, history, Ended
<1> QED BY <1>6, <1>7, <1>8, <1>9

LEMMA EnterExitStep == ASSUME IInv, EnterExit PROVE IInv'
<1> USE DEF IInv
<1> DEFINE h == handler = "default"
           f == [Frame("exit", FALSE, 0) EXCEPT !.old_handler = h]
<1>1. /\ stack = <<>> /\ stack \in Seq(Frames) /\ raised = "none"
      /\ h = ("handler" \notin cut) /\ h \in BOOLEAN
  BY DEF EnterExit, TypeOK, HandlerInv
<1>2. Entered(f, "exit", FALSE, 0, h)
  <2>1. "exit" \in Steps /\ FALSE \in BOOLEAN /\ 0 \in 0..MaxBlocks /\ TypeOK
    BY AtomicAssumption DEF Steps
  <2> HIDE DEF h
  <2> QED BY <1>1, <2>1, Framed, Zenon
<1>3. UNCHANGED <<connection, isolation_level, atomic_in_progress, raised, block,
                  executed, over, sigints, commit_failed, cut, owed>>
  BY DEF EnterExit, history
<1>4. stack' = Append(stack, f) /\ handler' = IF h THEN "handler" ELSE handler
  BY DEF EnterExit, Delay
<1> HIDE DEF f
<1>5. stack' \in Seq(Frames) /\ Len(stack') = 1 /\ stack'[1] = f /\ stack' # <<>>
  BY <1>1, <1>2, <1>4, Pushed DEF Entered
<1>6. Levels = {} /\ Levels' = {1} /\ Atomics = {} /\ Atomics' = {}
  BY <1>1, <1>2, <1>5 DEF Levels, Atomics, Entered
<1>7. TypeOK' /\ SeenInv'
  BY <1>3, <1>4, <1>5 DEF TypeOK, SeenInv, connection
<1>8. StackInv'
  BY <1>2, <1>5, <1>6 DEF StackInv, Entered
<1>9. HandlerInv'
  <2>1. handler' # "default" /\ (handler' = "forceful" => handler = "forceful")
    BY <1>4
  <2>2. stack'[1].old_handler = ("handler" \notin cut')
        /\ stack'[1].signal_received = FALSE
    BY <1>1, <1>2, <1>3, <1>5 DEF Entered
  <2>3. "handler" \in cut' => handler' = "forceful"
    BY <1>1, <1>3, <1>4 DEF HandlerInv
  <2>4. ~owed'
    BY <1>1, <1>3 DEF HandlerInv
  <2> QED BY <1>1, <1>3, <1>5, <1>6, <2>1, <2>2, <2>3, <2>4 DEF HandlerInv
<1> SUFFICES ASSUME LevelInv, DataInv, TransactionInv, CalmInv
             PROVE  LevelInv' /\ DataInv' /\ TransactionInv' /\ CalmInv'
  BY <1>3, <1>7, <1>8, <1>9 DEF WholeInv
<1>10. LevelInv'
  BY <1>2, <1>3, <1>5, <1>6 DEF LevelInv, Entered
<1>11. DataInv'
  <2>1. 0 \notin Blocks
    BY DEF Blocks
  <2>2. \A b \in over : b # 0
    BY <2>1 DEF TypeOK
  <2> QED BY <1>2, <1>3, <1>5, <1>6, <2>2 DEF DataInv, Entered, connection
<1>12. TransactionInv' /\ CalmInv'
  BY <1>2, <1>3, <1>5, <1>6
     DEF TransactionInv, CalmInv, Undisturbed, Entered, connection, Ended
<1> QED BY <1>10, <1>11, <1>12

(* An outmost atomic begins a new block, a nested one is of the block that *)
(* is open.                                                                *)
LEMMA EnterAtomicStep == ASSUME IInv, EnterAtomic PROVE IInv'
<1> USE DEF IInv
<1> DEFINE o == ~atomic_in_progress
           b == IF o \/ stack = <<>> \/ Top.step = "exit"
                  THEN block + 1 ELSE Top.block
           h == handler = "default"
           f == [Frame("entered", o, b) EXCEPT !.old_handler = h]
           n == Len(stack) + 1
<1>1. /\ raised = "none" /\ stack \in Seq(Frames) /\ Len(stack) \in Nat
      /\ stack = <<>> <=> Len(stack) = 0
      /\ b \in Blocks /\ block \in 0..MaxBlocks
  BY EmptySeq, LenProperties DEF EnterAtomic, TypeOK
<1>2. \A i \in Levels : stack[i].step \in {"exit", "body"}
  <2>1. CASE stack = <<>>
    BY <1>1, <2>1 DEF Levels
  <2>2. CASE stack # <<>>
    BY <1>1, <2>2, OfTop DEF EnterAtomic, TopAt, StackInv, Levels
  <2> QED BY <2>1, <2>2
<1>3. \/ b = block + 1 /\ \A i \in Levels : stack[i].step = "exit"
      \/ /\ b = block /\ ~o /\ stack # <<>>
         /\ Len(stack) \in Levels /\ stack[Len(stack)].step = "body"
  <2>1. CASE stack = <<>>
    BY <1>1, <2>1 DEF Levels
  <2>2. CASE stack # <<>> /\ Top.step = "exit"
    <3>1. Len(stack) \in Levels /\ Top = stack[Len(stack)]
      BY <1>1, <2>2, OfTop
    <3>2. Len(stack) = 1
      BY <2>2, <3>1 DEF StackInv
    <3> QED BY <2>2, <3>1, <3>2 DEF Levels
  <2>3. CASE stack # <<>> /\ Top.step # "exit"
    <3>1. /\ Len(stack) \in Levels /\ Top = stack[Len(stack)]
          /\ Top.step = "body" /\ Top.block = block
      BY <1>1, <1>2, <2>3, OfTop DEF StackInv
    <3>2. atomic_in_progress
      BY <3>1 DEF StackInv, Atomics
    <3> QED BY <2>3, <3>1, <3>2
  <2> QED BY <2>1, <2>2, <2>3
<1>4. /\ block' = b
      /\ UNCHANGED <<connection, isolation_level, atomic_in_progress, raised,
                     executed, over, sigints, commit_failed, cut, owed>>
  BY <1>1, <1>3 DEF EnterAtomic
<1>5. /\ stack' = Append(stack, f)
      /\ handler' = IF h THEN "handler" ELSE handler
  BY DEF EnterAtomic, Delay
<1>6. Entered(f, "entered", o, b, h)
  <2>1. "entered" \in Steps /\ o \in BOOLEAN /\ h \in BOOLEAN /\ b \in 0..MaxBlocks
    BY <1>1 DEF Steps, Blocks
  <2> HIDE DEF o, b, h
  <2> QED BY <2>1, Framed, Zenon
<1> HIDE DEF f
<1>7. /\ stack' \in Seq(Frames) /\ Len(stack') = n /\ stack' # <<>>
      /\ \A i \in Levels : stack'[i] = stack[i]
      /\ stack'[n] = f
  BY <1>1, <1>5, <1>6, Pushed DEF Entered
<1>8. /\ Levels' = Levels \cup {n} /\ n \notin Levels
      /\ \A i \in Levels : i < n /\ i \in Nat
      /\ n \in Nat
  BY <1>1, <1>7 DEF Levels
<1>9. Atomics \subseteq Levels /\ Atomics' = Atomics
  <2>1. f.step = "entered"
    BY <1>6 DEF Entered
  <2> QED BY <1>7, <1>8, <2>1 DEF Atomics
<1> HIDE DEF b, n
<1>10. o => \A i \in Levels : stack[i].step = "exit"
  BY <1>3
<1>11. TypeOK' /\ SeenInv'
  <2>1. block' \in 0..MaxBlocks
    BY <1>1, <1>4 DEF Blocks
  <2> QED BY <1>4, <1>5, <1>7, <2>1 DEF TypeOK, SeenInv, connection
<1>12. StackInv'
  <2>1. ASSUME NEW i \in Levels
        PROVE  /\ i # n /\ i < n /\ stack'[i] = stack[i]
               /\ \A j \in 1..(i - 1) : stack'[j] = stack[j]
               /\ stack[i].step \in {"exit", "body"}
               /\ stack[i].block # 0 => stack[i].block = block'
    <3>1. \A j \in 1..(i - 1) : j \in Levels
      BY <1>1 DEF Levels
    <3>2. stack[i].block # 0 => b = block
      BY <1>3 DEF StackInv
    <3> QED BY <1>2, <1>4, <1>7, <1>8, <3>1, <3>2 DEF StackInv
  <2>2. /\ f.step = "entered" /\ f.is_outmost = o /\ f.block = block'
        /\ block' \in Blocks /\ block' # 0
        /\ f.old_atomic_in_progress = ~f.is_outmost
        /\ f.is_outmost = ~atomic_in_progress'
    <3>1. /\ atomic_in_progress = ~o /\ atomic_in_progress' = ~o
          /\ o = ~atomic_in_progress'
      BY <1>4 DEF TypeOK
    <3>2. block' \in Blocks /\ block' # 0
      BY <1>1, <1>4 DEF Blocks
    <3> HIDE DEF o
    <3> QED BY <1>4, <1>6, <3>1, <3>2 DEF Entered
  <2>3. o => \A j \in 1..(n - 1) : stack'[j].step = "exit"
    <3>1. \A j \in 1..(n - 1) : j \in Levels
      BY <1>1 DEF Levels, n
    <3> QED BY <1>7, <1>10, <3>1
  <2> HIDE DEF o
  <2> SUFFICES ASSUME NEW i \in Levels'
               PROVE
       /\ i < Len(stack') => stack'[i].step \in {"exit", "body"}
       /\ stack'[i].step = "exit" => stack'[i].block = 0
       /\ stack'[i].block = 0 => /\ i = 1 /\ ~stack'[i].is_outmost
                                 /\ stack'[i].step \in {"exit", "leaving"}
       /\ stack'[i].block # 0 => /\ stack'[i].block = block' /\ block' \in Blocks
                                 /\ stack'[i].old_atomic_in_progress
                                      = ~stack'[i].is_outmost
       /\ raised' = "Exception"
            => stack'[i].step \notin {"entered", "opened", "begin"}
       /\ stack'[i].step = "entered"
            => stack'[i].is_outmost = ~atomic_in_progress'
       /\ stack'[i].is_outmost => \A j \in 1..(i - 1) : stack'[j].step = "exit"
    BY <1>4, <1>9 DEF StackInv
  <2>4. CASE i \in Levels
    BY <2>1, <2>2, <2>4 DEF StackInv
  <2>5. CASE i = n
    BY <1>1, <1>4, <1>7, <2>2, <2>3, <2>5
  <2> QED BY <1>8, <2>4, <2>5
<1>13. HandlerInv'
  <2>1. handler' # "default" /\ (handler' = "forceful" => handler = "forceful")
    BY <1>5
  <2>2. h = (n = 1 /\ "handler" \notin cut)
    BY <1>1 DEF HandlerInv, n
  <2>3. n # 1 => 1 \in Levels
    BY <1>1 DEF Levels, n
  <2>4. "handler" \in cut => handler' = "forceful"
    BY <1>5 DEF HandlerInv
  <2>5. f.old_handler = h /\ f.signal_received = FALSE
    BY <1>6 DEF Entered
  <2>6. \A i \in Levels' : /\ stack'[i].old_handler = (i = 1 /\ "handler" \notin cut)
                           /\ stack'[i].signal_received => i = 1
    BY <1>7, <1>8, <2>2, <2>5 DEF HandlerInv
  <2>7. owed' => stack'[1].signal_received
    BY <1>1, <1>4, <1>7, <2>3 DEF HandlerInv, n
  <2> QED BY <1>1, <1>4, <1>7, <2>1, <2>4, <2>6, <2>7 DEF HandlerInv
<1> SUFFICES ASSUME LevelInv, DataInv, TransactionInv, CalmInv
             PROVE  LevelInv' /\ DataInv' /\ TransactionInv' /\ CalmInv'
  BY <1>4, <1>11, <1>12, <1>13 DEF WholeInv
<1>14. LevelInv'
  <2>1. isolation_level = "default" \/ ~o
    <3>1. \A i \in Levels : stack[i].is_outmost => stack[i].step # "exit"
      BY DEF StackInv
    <3> QED BY <1>10, <3>1 DEF LevelInv, TypeOK
  <2>2. f.is_outmost => f.old_level = "default"
    BY <1>6, <2>1 DEF Entered
  <2> QED BY <1>4, <1>7, <1>8, <2>2 DEF LevelInv
<1>15. DataInv'
  <2>1. /\ \A c \in Blocks : /\ file[c] # 0 => file[c] = executed[c]
                             /\ c > b => executed[c] = 0
        /\ ~in_transaction => view = file
    BY <1>1, <1>3 DEF DataInv, Blocks
  <2>2. file[b] = 0
    <3>1. CASE b = block + 1
      BY <1>1, <3>1 DEF DataInv, TypeOK, Blocks
    <3>2. CASE /\ b = block /\ Len(stack) \in Levels
               /\ stack[Len(stack)].step = "body"
      BY <3>2 DEF DataInv, StackInv
    <3> QED BY <1>3, <3>1, <3>2
  <2>3. \A c \in over : c <= b /\ c # b /\ c \in Blocks
    <3>1. CASE b = block + 1
      BY <1>1, <3>1 DEF DataInv, TypeOK, Blocks
    <3>2. CASE /\ b = block /\ Len(stack) \in Levels
               /\ stack[Len(stack)].step = "body"
      BY <3>2 DEF DataInv, StackInv, TypeOK
    <3> QED BY <1>3, <3>1, <3>2
  <2>4. \A i \in Levels' :
          \/ i \in Levels /\ stack'[i] = stack[i]
          \/ stack'[i].block = b
    BY <1>6, <1>7, <1>8 DEF Entered
  <2> QED BY <1>4, <2>1, <2>2, <2>3, <2>4 DEF DataInv, connection
<1>16. TransactionInv'
  <2> SUFFICES ASSUME NEW i \in Levels', stack'[i].is_outmost
               PROVE
        /\ stack'[i].step \in {"opened", "begin", "body", "done", "restored"} =>
             \A c \in Blocks : c # block' => view[c] = file[c]
        /\ stack'[i].step \in {"entered", "opened", "begin"}
             => executed[block'] = 0
        /\ stack'[i].step \in {"opened", "begin"} => ~in_transaction
        /\ stack'[i].step = "body" /\ raised' = "none" =>
             in_transaction /\ view[block'] = executed[block']
    BY <1>4 DEF TransactionInv, connection
  <2>1. CASE i \in Levels
    <3>1. stack'[i] = stack[i] /\ stack[i].step # "exit"
      BY <1>7, <2>1 DEF StackInv
    <3>2. block' = block
      BY <1>3, <1>4, <2>1, <3>1
    <3> QED BY <1>4, <2>1, <3>1, <3>2 DEF TransactionInv
  <2>2. CASE i = n
    <3>1. o /\ stack'[i].step = "entered"
      BY <1>6, <1>7, <2>2 DEF Entered
    <3>2. executed[block'] = 0
      BY <1>1, <1>3, <1>4, <3>1 DEF DataInv, Blocks
    <3> QED BY <3>1, <3>2
  <2> QED BY <1>8, <2>1, <2>2
<1>17. CalmInv'
  <2>1. f.step = "entered"
    BY <1>6 DEF Entered
  <2>2. \A i \in Levels' : stack'[i].step \notin Ended /\ stack'[i].step # "leaving"
    BY <1>2, <1>7, <1>8, <2>1 DEF Ended
  <2>3. \A i \in Atomics : stack'[i] = stack[i]
    BY <1>7, <1>9
  <2> QED BY <1>4, <1>9, <2>2, <2>3 DEF CalmInv, Undisturbed, connection
<1> QED BY <1>14, <1>15, <1>16, <1>17

(* When the top frame goes, all below are in their body.                   *)
LEMMA StackPopped ==
  ASSUME TypeOK, StackInv, stack # <<>>, stack' = Under,
         UNCHANGED <<block, atomic_in_progress>>
  PROVE  /\ stack' \in Seq(Frames)
         /\ Len(stack) \in Levels /\ Top = stack[Len(stack)] /\ Top \in Frames
         /\ stack' = <<>> <=> Len(stack) = 1
         /\ stack' # <<>> => 1 \in Levels'
         /\ Levels = Levels' \cup {Len(stack)} /\ Len(stack) \notin Levels'
         /\ \A i \in Levels' : /\ stack'[i] = stack[i]
                               /\ stack[i].step \in {"exit", "body"}
         /\ Atomics' = Atomics \ {Len(stack)}
         /\ StackInv'
<1> DEFINE n == Len(stack)
<1>1. /\ stack \in Seq(Frames) /\ n \in Nat /\ n >= 1 /\ n \in Levels
      /\ Top = stack[n] /\ Top \in Frames
  BY OfTop DEF TypeOK
<1>2. /\ stack' \in Seq(Frames) /\ Len(stack') = n - 1
      /\ stack' = <<>> <=> n = 1
      /\ \A i \in 1..(n - 1) : stack'[i] = stack[i]
  BY <1>1, Popped
<1>3. /\ Levels' = 1..(n - 1) /\ Levels = Levels' \cup {n} /\ n \notin Levels'
      /\ \A i \in Levels' : /\ stack'[i] = stack[i]
                            /\ stack[i].step \in {"exit", "body"}
      /\ n # 1 => 1 \in Levels'
  <2>1. Levels' = 1..(n - 1) /\ Levels = 1..n
    BY <1>2 DEF Levels
  <2>2. \A m \in Nat : m >= 1 =>
          /\ 1..m = (1..(m - 1)) \cup {m} /\ m \notin 1..(m - 1)
          /\ m # 1 => 1 \in 1..(m - 1)
    OBVIOUS
  <2>3. \A i \in 1..(n - 1) : i \in Levels /\ i < n
    BY <1>1, <2>1
  <2>4. \A i \in 1..(n - 1) : stack[i].step \in {"exit", "body"}
    BY <2>3 DEF StackInv
  <2> QED BY <1>1, <1>2, <2>1, <2>2, <2>4
<1>4. Atomics' = Atomics \ {n}
  BY <1>3 DEF Atomics
<1>5. StackInv'
  <2>1. \A i \in Levels' : \A j \in 1..(i - 1) : stack'[j] = stack[j]
    BY <1>1, <1>2, <1>3
  <2>2. \A i \in Levels' : i \in Levels /\ stack'[i] = stack[i]
                           /\ stack[i].step \in {"exit", "body"}
    BY <1>3
  <2> QED BY <1>4, <2>1, <2>2 DEF StackInv
<1> QED BY <1>1, <1>2, <1>3, <1>4, <1>5

(* Leaving a nested atomic leaves the outmost one as it is.                *)
LEMMA LeaveStep == ASSUME IInv, Leave PROVE IInv'
<1> USE DEF IInv
<1>1. /\ stack # <<>> /\ stack' = Under /\ Top.step = "leaving"
      /\ handler' = IF Top.old_handler THEN "default" ELSE handler
      /\ raised' = IF Top.signal_received THEN "KeyboardInterrupt" ELSE raised
      /\ owed' = (owed /\ raised' # "KeyboardInterrupt")
  BY DEF Leave, TopAt, Restored, RaisedAtLast
<1>2. UNCHANGED <<connection, isolation_level, atomic_in_progress, block,
                  executed, sigints, commit_failed, cut>>
  BY DEF Leave
<1> DEFINE n == Len(stack)
<1>3. /\ stack' \in Seq(Frames)
      /\ n \in Levels /\ Top = stack[n] /\ Top \in Frames
      /\ stack' = <<>> <=> n = 1
      /\ stack' # <<>> => 1 \in Levels'
      /\ Levels = Levels' \cup {n} /\ n \notin Levels'
      /\ \A i \in Levels' : /\ stack'[i] = stack[i]
                            /\ stack[i].step \in {"exit", "body"}
      /\ Atomics' = Atomics \ {n}
      /\ StackInv'
  BY <1>1, <1>2, StackPopped
<1>4. \/ over' = over
      \/ /\ over' = over \cup {block} /\ raised = "none"
         /\ block \in Blocks /\ Top.block = block /\ Top.block # 0
         /\ \A i \in Levels' : stack[i].block # block
  <2>1. over' # over => /\ over' = over \cup {Top.block}
                        /\ raised = "none" /\ Top.block \in Blocks
                        /\ \A i \in Levels' : stack'[i].block # Top.block
    BY <1>1 DEF Leave, Levels
  <2>2. Top.block \in Blocks => Top.block = block /\ Top.block # 0
    BY <1>3 DEF StackInv, Blocks
  <2> QED BY <1>3, <2>1, <2>2
<1> HIDE DEF n
<1>5. TypeOK' /\ SeenInv'
  <2>1. over' \subseteq Blocks
    BY <1>4 DEF TypeOK
  <2>2. /\ handler' \in {"default", "handler", "forceful"}
        /\ raised' \in {"none", "Exception", "KeyboardInterrupt"}
        /\ owed' \in BOOLEAN
    BY <1>1 DEF TypeOK
  <2> QED BY <1>2, <1>3, <2>1, <2>2 DEF TypeOK, SeenInv, connection
<1>6. HandlerInv'
  <2>1. Top.old_handler = (n = 1 /\ "handler" \notin cut)
        /\ (Top.signal_received => n = 1)
    BY <1>3 DEF HandlerInv
  <2>2. stack' # <<>> => handler' # "default"
    BY <1>1, <1>3, <2>1 DEF HandlerInv
  <2>3. stack' = <<>> /\ "handler" \notin cut => handler' = "default"
    BY <1>1, <1>3, <2>1
  <2>4. "handler" \in cut => handler' = "forceful"
    BY <1>1, <2>1 DEF HandlerInv
  <2>5. owed' => stack' # <<>> /\ stack'[1].signal_received
    BY <1>1, <1>3 DEF HandlerInv
  <2>6. raised' = "KeyboardInterrupt" /\ sigints <= 1 => stack' = <<>>
    BY <1>1, <1>3, <2>1 DEF HandlerInv
  <2>7. handler' = "forceful" => sigints >= 1
    BY <1>1 DEF HandlerInv
  <2>8. \A i \in Levels' :
          /\ stack'[i].old_handler = (i = 1 /\ "handler" \notin cut)
          /\ stack'[i].signal_received => i = 1
    BY <1>3 DEF HandlerInv
  <2>9. cut # {} => sigints >= 2
    BY DEF HandlerInv
  <2> QED BY <1>2, <2>2, <2>3, <2>4, <2>5, <2>6, <2>7, <2>8, <2>9 DEF HandlerInv
<1> SUFFICES ASSUME LevelInv, DataInv, TransactionInv, CalmInv
             PROVE  LevelInv' /\ DataInv' /\ TransactionInv' /\ CalmInv'
  BY <1>2, <1>3, <1>5, <1>6 DEF WholeInv
<1>7. LevelInv'
  BY <1>1, <1>2, <1>3 DEF LevelInv
<1>8. DataInv'
  <2>1. \A b \in over : b <= block /\ \A i \in Levels' : stack[i].block # b
    BY <1>3 DEF DataInv
  <2>2. \A b \in over' : b <= block /\ \A i \in Levels' : stack[i].block # b
    BY <1>4, <2>1 DEF Blocks
  <2> QED BY <1>2, <1>3, <2>2 DEF DataInv, connection
<1>9. TransactionInv'
  BY <1>1, <1>2, <1>3 DEF TransactionInv, connection
<1>10. CalmInv'
  <2> SUFFICES ASSUME Undisturbed PROVE CalmInv'
    BY <1>2 DEF CalmInv, Undisturbed
  <2>1. n \notin Atomics
    BY <1>1, <1>3 DEF Atomics
  <2>2. in_transaction' \/ atomic_in_progress'
          => \E i \in Atomics' : stack'[i].is_outmost
    <3>1. \A i \in Atomics' : i \in Levels' /\ stack'[i] = stack[i]
      BY <1>3 DEF Atomics
    <3> QED BY <1>2, <1>3, <2>1, <3>1 DEF CalmInv, connection
  <2>3. \A i \in Levels' : stack'[i].step \notin Ended /\ stack'[i].step # "leaving"
    BY <1>3 DEF Ended
  <2>4. \A b \in over' : file'[b] = executed'[b]
    <3> SUFFICES ASSUME over' # over PROVE file[block] = executed[block]
      BY <1>2, <1>4 DEF CalmInv, connection
    <3>1. CASE Top.is_outmost
      BY <1>1, <1>3, <1>4, <3>1 DEF CalmInv, Ended
    <3>2. CASE ~Top.is_outmost
      <4>1. atomic_in_progress
        BY <1>1, <1>3, <1>4, <3>2 DEF CalmInv, TypeOK
      <4>2. PICK i \in Atomics : stack[i].is_outmost
        BY <4>1 DEF CalmInv
      <4>3. i \in Levels' /\ stack[i].block = block
        BY <1>3, <2>1, <4>2 DEF Atomics, StackInv
      <4> QED BY <1>4, <4>3
    <3> QED BY <3>1, <3>2
  <2> QED BY <2>2, <2>3, <2>4 DEF CalmInv
<1> QED BY <1>7, <1>8, <1>9, <1>10

(* A SIGINT that is held back.                                             *)
LEMMA SigintDelayedStep ==
  ASSUME IInv, SigintDelayed, stack # <<>>,
         sigints' = sigints + 1, sigints < MaxSigints,
         UNCHANGED <<connection, isolation_level, atomic_in_progress, block,
                     executed, over, commit_failed>>
  PROVE  IInv'
<1> USE DEF IInv
<1>1. /\ sigints \in Nat /\ sigints' \in 0..MaxSigints /\ sigints' >= 1
      /\ stack \in Seq(Frames) /\ 1 \in Levels
  BY OfTop, AtomicAssumption DEF TypeOK, Levels
<1>2. /\ handler = "handler" /\ handler' = "forceful" /\ owed' = TRUE
      /\ UNCHANGED <<raised, cut>>
  BY DEF SigintDelayed
<1>3. /\ stack' \in Seq(Frames) /\ Len(stack') = Len(stack) /\ stack' # <<>>
      /\ \A i \in Levels :
           /\ SameContext(stack'[i], stack[i])
           /\ stack'[i].step = stack[i].step
           /\ stack'[i].signal_received
                <=> stack[i].signal_received \/ stack[i].old_handler
  BY <1>1, Signalled DEF SigintDelayed
<1>4. Levels' = Levels /\ Atomics' = Atomics /\ Atomics \subseteq Levels
  BY <1>3 DEF Levels, Atomics
<1>5. TypeOK' /\ SeenInv'
  BY <1>1, <1>2, <1>3 DEF TypeOK, SeenInv, connection
<1>6. StackInv'
  BY <1>2, <1>3, <1>4 DEF StackInv, SameContext, Levels
<1>7. HandlerInv'
  <2>1. "handler" \notin cut
    BY <1>2 DEF HandlerInv
  <2>2. ASSUME NEW i \in Levels
        PROVE  /\ stack'[i].old_handler = (i = 1 /\ "handler" \notin cut)
               /\ stack'[i].signal_received => i = 1
    <3>1. /\ stack[i].old_handler = (i = 1 /\ "handler" \notin cut)
          /\ stack[i].signal_received => i = 1
      BY DEF HandlerInv
    <3>2. stack'[i].old_handler = stack[i].old_handler
      BY <1>3 DEF SameContext
    <3> QED BY <1>3, <3>1, <3>2
  <2>3. stack'[1].signal_received
    BY <1>1, <1>3, <2>1 DEF HandlerInv
  <2>4. raised' = "KeyboardInterrupt" => ~(sigints' <= 1)
    BY <1>1, <1>2 DEF HandlerInv
  <2>5. cut # {} => sigints' >= 2
    BY <1>1 DEF HandlerInv
  <2> QED BY <1>1, <1>2, <1>3, <1>4, <2>1, <2>2, <2>3, <2>4, <2>5 DEF HandlerInv
<1> SUFFICES ASSUME LevelInv, DataInv, TransactionInv, CalmInv
             PROVE  LevelInv' /\ DataInv' /\ TransactionInv' /\ CalmInv'
  BY <1>2, <1>5, <1>6, <1>7 DEF WholeInv
<1>8. LevelInv'
  BY <1>3, <1>4 DEF LevelInv, SameContext
<1>9. DataInv'
  BY <1>3, <1>4 DEF DataInv, SameContext, connection
<1>10. TransactionInv'
  BY <1>2, <1>3, <1>4 DEF TransactionInv, SameContext, connection
<1>11. CalmInv'
  <2> SUFFICES ASSUME Undisturbed PROVE CalmInv'
    BY <1>1 DEF CalmInv, Undisturbed
  <2>1. \A i \in Levels : /\ stack'[i].step = stack[i].step
                          /\ stack'[i].is_outmost = stack[i].is_outmost
                          /\ stack'[i].block = stack[i].block
    BY <1>3 DEF SameContext
  <2>2. in_transaction' \/ atomic_in_progress'
          => \E i \in Atomics' : stack'[i].is_outmost
    BY <1>4, <2>1 DEF CalmInv, connection
  <2>3. /\ \A i \in Levels' : stack'[i].is_outmost /\ stack'[i].step \in Ended =>
             /\ ~in_transaction'
             /\ raised' = "none" => file'[block'] = executed'[block']
        /\ \A b \in over' : file'[b] = executed'[b]
    BY <1>2, <1>4, <2>1 DEF CalmInv, connection
  <2>4. \A i \in Levels' : stack'[i].step = "leaving" /\ stack'[i].block # 0 =>
          atomic_in_progress' = ~stack'[i].is_outmost
    BY <1>4, <2>1 DEF CalmInv
  <2> QED BY <2>2, <2>3, <2>4 DEF CalmInv
<1> QED BY <1>8, <1>9, <1>10, <1>11

(* A SIGINT that is raised at once.                                        *)
LEMMA SigintForcedStep ==
  ASSUME IInv, SigintForced, stack # <<>>,
         sigints' = sigints + 1, sigints < MaxSigints,
         UNCHANGED <<connection, isolation_level, atomic_in_progress, block,
                     executed, over, commit_failed>>
  PROVE  IInv'
<1> USE DEF IInv
<1>1. /\ handler = "forceful" /\ handler' = "forceful" /\ owed' = FALSE
      /\ raised' = "KeyboardInterrupt"
  BY DEF SigintForced, HandlerInv, TypeOK
<1>2. sigints \in Nat /\ sigints' \in 0..MaxSigints /\ sigints' >= 2
      /\ stack \in Seq(Frames)
  BY <1>1, AtomicAssumption DEF TypeOK, HandlerInv
<1>3. SeenInv' /\ CalmInv'
  BY <1>2 DEF SeenInv, CalmInv, Undisturbed, connection
<1>4. CASE UNCHANGED <<stack, cut>>
  <2>1. Levels' = Levels /\ Atomics' = Atomics
    BY <1>4 DEF Levels, Atomics
  <2>2. TypeOK' /\ StackInv' /\ HandlerInv'
    <3>1. TypeOK'
      BY <1>1, <1>2, <1>4 DEF TypeOK, connection
    <3>2. StackInv'
      BY <1>1, <1>4, <2>1 DEF StackInv
    <3>3. HandlerInv'
      BY <1>1, <1>2, <1>4, <2>1 DEF HandlerInv
    <3> QED BY <3>1, <3>2, <3>3
  <2>3. LevelInv /\ DataInv /\ TransactionInv
          => LevelInv' /\ DataInv' /\ TransactionInv'
    BY <1>1, <1>4, <2>1 DEF LevelInv, DataInv, TransactionInv, connection
  <2> QED BY <1>3, <1>4, <2>2, <2>3 DEF WholeInv
<1>5. CASE /\ TopAt({"done", "restored"})
           /\ Goto("leaving")
           /\ cut' = IF TopAt({"done"}) /\ Top.is_outmost THEN cut \cup {"level"}
                                                          ELSE cut
  <2>1. Relabels("leaving") /\ Top.step \in {"done", "restored"}
    BY <1>2, <1>5, Stepped DEF Steps, TopAt
  <2>2. TypeOK'
    BY <1>1, <1>2, <1>5, <2>1 DEF TypeOK, Relabels, connection
  <2>3. StackInv'
    <3>1. Atomics' # {} => atomic_in_progress'
      BY <2>1, AtomicsRelabelled DEF StackInv, Steps
    <3> QED BY <1>1, <2>1, <3>1, StackRelabelled DEF Steps
  <2>4. HandlerInv'
    <3>1. "handler" \in cut' <=> "handler" \in cut
      BY <1>5
    <3> QED BY <1>1, <1>2, <2>1, <3>1 DEF HandlerInv, Relabels, SameContext
  <2>5. ASSUME "level" \notin cut'
        PROVE  LevelInv' /\ DataInv' /\ TransactionInv'
    <3>1. LevelInv /\ DataInv /\ TransactionInv
          /\ ~(Top.step = "done" /\ Top.is_outmost)
      BY <1>5, <2>5 DEF WholeInv, TopAt
    <3>2. LevelInv'
      BY <2>1, <3>1 DEF LevelInv, Relabels, SameContext
    <3>3. DataInv'
      BY <2>1, <3>1 DEF DataInv, Relabels, SameContext, connection
    <3>4. TransactionInv'
      BY <1>1, <2>1, <3>1 DEF TransactionInv, Relabels, SameContext, connection
    <3> QED BY <3>2, <3>3, <3>4
  <2> QED BY <1>3, <2>2, <2>3, <2>4, <2>5 DEF WholeInv
<1>6. CASE /\ TopAt({"exit", "entered", "leaving"})
           /\ stack' = Under
           /\ cut' = IF Top.old_handler THEN cut \cup {"handler"} ELSE cut
  <2> DEFINE n == Len(stack)
  <2>1. /\ stack' \in Seq(Frames)
        /\ n \in Levels /\ Top = stack[n]
        /\ stack' = <<>> <=> n = 1
        /\ Levels = Levels' \cup {n} /\ n \notin Levels'
        /\ \A i \in Levels' : stack'[i] = stack[i]
        /\ StackInv'
    BY <1>6, StackPopped
  <2> HIDE DEF n
  <2>2. TypeOK'
    BY <1>1, <1>2, <1>6, <2>1 DEF TypeOK, connection
  <2>3. HandlerInv'
    <3>1. Top.old_handler = (n = 1 /\ "handler" \notin cut)
      BY <2>1 DEF HandlerInv
    <3>2. stack' # <<>> => cut' = cut
      BY <1>6, <2>1, <3>1
    <3>3. stack' = <<>> => "handler" \in cut' /\ Levels' = {}
      <4>1. n = 1 => "handler" \in cut'
        BY <1>6, <3>1
      <4>2. stack' = <<>> => Levels' = {}
        BY DEF Levels
      <4> QED BY <2>1, <4>1, <4>2
    <3>4. CASE stack' = <<>>
      BY <1>1, <1>2, <3>3, <3>4 DEF HandlerInv
    <3>5. CASE stack' # <<>>
      BY <1>1, <1>2, <2>1, <3>2, <3>5 DEF HandlerInv
    <3> QED BY <3>4, <3>5
  <2>4. ASSUME "level" \notin cut'
        PROVE  LevelInv' /\ DataInv' /\ TransactionInv'
    <3>1. LevelInv /\ DataInv /\ TransactionInv
          /\ Top.step \notin {"body", "done"}
      BY <1>6, <2>4 DEF WholeInv, TopAt
    <3>2. LevelInv'
      BY <2>1, <3>1 DEF LevelInv
    <3>3. DataInv'
      BY <2>1, <3>1 DEF DataInv, connection
    <3>4. TransactionInv'
      BY <1>1, <2>1, <3>1 DEF TransactionInv, connection
    <3> QED BY <3>2, <3>3, <3>4
  <2> QED BY <1>3, <2>1, <2>2, <2>3, <2>4 DEF WholeInv
<1> QED BY <1>4, <1>5, <1>6 DEF SigintForced

LEMMA SigintStep == ASSUME IInv, Sigint PROVE IInv'
<1>1. /\ stack # <<>> /\ sigints' = sigints + 1 /\ sigints < MaxSigints
      /\ UNCHANGED <<connection, isolation_level, atomic_in_progress, block,
                     executed, over, commit_failed>>
  BY DEF Sigint
<1>2. CASE SigintDelayed
  BY <1>1, <1>2, SigintDelayedStep
<1>3. CASE SigintForced
  BY <1>1, <1>3, SigintForcedStep
<1> QED BY <1>2, <1>3 DEF Sigint

-----------------------------------------------------------------------------
(* Every step preserves the invariant, and so does doing nothing.          *)
LEMMA Inductive == ASSUME IInv, [Next]_vars PROVE IInv'
<1>1. CASE EnterExit       BY <1>1, EnterExitStep
<1>2. CASE EnterAtomic     BY <1>2, EnterAtomicStep
<1>3. CASE Refuse          BY <1>3, RefuseStep
<1>4. CASE Open            BY <1>4, OpenStep
<1>5. CASE EnterTry        BY <1>5, EnterTryStep
<1>6. CASE Begin           BY <1>6, BeginStep
<1>7. CASE Execute         BY <1>7, ExecuteStep
<1>8. CASE ExecuteFails    BY <1>8, ExecuteFailsStep
<1>9. CASE Commit          BY <1>9, CommitStep
<1>10. CASE CommitFails    BY <1>10, CommitFailsStep
<1>11. CASE ExceptClause   BY <1>11, ExceptClauseStep
<1>12. CASE Unwind         BY <1>12, UnwindStep
<1>13. CASE FinallyLevel   BY <1>13, FinallyLevelStep
<1>14. CASE FinallyProgress BY <1>14, FinallyProgressStep
<1>15. CASE Leave          BY <1>15, LeaveStep
<1>16. CASE Caught         BY <1>16, CaughtStep
<1>17. CASE Sigint         BY <1>17, SigintStep
<1>18. CASE UNCHANGED vars
  <2>1. UNCHANGED <<file, view, in_transaction, isolation_level,
                    atomic_in_progress, stack, handler, raised, block,
                    executed, over, sigints, commit_failed, cut, owed>>
    BY <1>18 DEF vars, connection, history
  <2>2. Levels' = Levels /\ Atomics' = Atomics
    BY <2>1 DEF Levels, Atomics
  <2>3. TypeOK' /\ SeenInv' /\ StackInv' /\ HandlerInv'
    BY <2>1, <2>2 DEF IInv, TypeOK, SeenInv, StackInv, HandlerInv
  <2>4. WholeInv'
    BY <2>1, <2>2 DEF IInv, WholeInv, LevelInv, DataInv, TransactionInv,
                      CalmInv, Undisturbed
  <2> QED BY <2>3, <2>4 DEF IInv
<1> QED
  BY <1>1, <1>2, <1>3, <1>4, <1>5, <1>6, <1>7, <1>8, <1>9, <1>10, <1>11,
     <1>12, <1>13, <1>14, <1>15, <1>16, <1>17, <1>18 DEF Next

(* What is known of every state that nested contexts reach.                *)
THEOREM Invariance == Spec => []IInv
<1>1. Init => IInv
  BY InitHolds
<1>2. IInv /\ [Next]_vars => IInv'
  BY Inductive
<1> QED BY <1>1, <1>2, PTL DEF Spec

(* Every variable of the connection, the stack of contexts and the handler *)
(* keeps its type.                                                         *)
THEOREM TypeCorrect == Spec => []TypeOK
<1>1. IInv => TypeOK
  BY DEF IInv
<1> QED BY <1>1, Invariance, PTL

(* For any nesting, any statement that fails, any Ctrl-C and any commit    *)
(* that raises: the file has all of a block or nothing, and nothing of a   *)
(* block that is still being written, until a second Ctrl-C breaks an      *)
(* outmost finally clause before it has put isolation_level back.          *)
THEOREM WholeOrNone == Spec => []AllOrNothing
<1>1. IInv => AllOrNothing
  <2> SUFFICES ASSUME IInv, "level" \notin cut, NEW b \in Blocks, file[b] # 0
               PROVE  /\ file[b] = executed[b]
                      /\ \A i \in Levels : stack[i].block = b =>
                           stack[i].step \in {"done", "restored", "leaving"}
    BY LenProperties DEF AllOrNothing, IInv, TypeOK, Levels
  <2>1. b # 0 /\ DataInv
    BY DEF Blocks, IInv, WholeInv
  <2>2. ASSUME NEW i \in Levels, stack[i].block = b
        PROVE  stack[i].step \in {"done", "restored", "leaving"}
    <3>1. stack[i].step \notin {"exit", "entered", "opened", "begin", "body"}
      BY <2>1, <2>2 DEF IInv, StackInv, DataInv
    <3>2. stack[i].step \in Steps
      <4>1. stack[i] \in Frames
        BY ElementOfSeq DEF IInv, TypeOK, Levels
      <4> QED BY <4>1 DEF Frames
    <3> QED BY <3>1, <3>2 DEF Steps
  <2> QED BY <2>1, <2>2 DEF DataInv
<1> QED BY <1>1, Invariance, PTL

(* Only a second Ctrl-C breaks off what is cut.                            *)
LEMMA UndisturbedIsWhole ==
  ASSUME IInv, Undisturbed
  PROVE  LevelInv /\ DataInv /\ TransactionInv /\ CalmInv
BY DEF IInv, Undisturbed, HandlerInv, WholeInv, TypeOK

(* A block whose context was left without an exception is in the file as   *)
(* long as there was no second Ctrl-C and no failing COMMIT.               *)
THEOREM LeftIsDurable == Spec => []DoneIsDurable
<1>1. IInv => DoneIsDurable
  BY UndisturbedIsWhole DEF CalmInv, DoneIsDurable
<1> QED BY <1>1, Invariance, PTL

(* When no context is open no SIGINT is owed, the default SIGINT handler   *)
(* is back unless a second Ctrl-C broke off __enter__ or __exit__ of the   *)
(* outermost context, and, unless something disturbed it, the connection   *)
(* is ready for the next block.                                            *)
THEOREM IdleReady == Spec => []IdleIsReady
<1>1. IInv => IdleIsReady
  <2> SUFFICES ASSUME IInv, stack = <<>>
               PROVE  /\ ~owed
                      /\ handler = "default" \/ "handler" \in cut
                      /\ Undisturbed => Ready
    BY DEF IdleIsReady
  <2>1. Levels = {} /\ Atomics = {}
    BY DEF Levels, Atomics
  <2>2. ~owed /\ (handler = "default" \/ "handler" \in cut)
    BY DEF IInv, HandlerInv
  <2>3. ASSUME Undisturbed PROVE Ready
    <3>1. LevelInv /\ DataInv /\ CalmInv
      BY <2>3, UndisturbedIsWhole
    <3>2. isolation_level = "default"
      BY <2>1, <3>1 DEF IInv, LevelInv, TypeOK
    <3>3. ~in_transaction /\ ~atomic_in_progress
      BY <2>1, <2>3, <3>1 DEF CalmInv
    <3>4. view = file
      BY <3>1, <3>3 DEF DataInv
    <3> QED BY <3>2, <3>3, <3>4 DEF Ready
  <2> QED BY <2>2, <2>3
<1> QED BY <1>1, Invariance, PTL

(* The step with which the first Ctrl-C is raised leaves the outermost     *)
(* context: a frame that holds back a SIGINT is the bottom of the stack,   *)
(* and a SIGINT is raised at once only by the handler that the first one   *)
(* has put in place.                                                       *)
THEOREM FirstWaits == Spec => FirstSigintWaits
<1>1. ASSUME IInv, [Next]_vars, raised # "KeyboardInterrupt",
             raised' = "KeyboardInterrupt", sigints' = 1
      PROVE  stack' = <<>>
  <2>1. CASE Leave
    <3>1. stack # <<>> /\ stack \in Seq(Frames) /\ stack' = Under
          /\ Top.signal_received
      BY <1>1, <2>1 DEF Leave, RaisedAtLast, TopAt, IInv, TypeOK
    <3>2. Len(stack) \in Levels /\ Top = stack[Len(stack)]
      BY <3>1, OfTop
    <3>3. Len(stack) = 1
      BY <1>1, <3>1, <3>2 DEF IInv, HandlerInv
    <3> QED BY <3>1, <3>3, Popped
  <2>2. CASE Sigint
    <3>1. sigints' = sigints + 1 /\ sigints \in Nat /\ stack # <<>>
      BY <2>2, <1>1, AtomicAssumption DEF Sigint, IInv, TypeOK
    <3>2. handler = "forceful"
      BY <1>1, <2>2, <3>1
         DEF Sigint, SigintDelayed, SigintForced, IInv, TypeOK, HandlerInv
    <3> QED BY <1>1, <3>1, <3>2 DEF IInv, HandlerInv
  <2>3. ~Leave /\ ~Sigint => raised' # "KeyboardInterrupt"
    BY <1>1 DEF Next, EnterExit, EnterAtomic, Refuse, Open, EnterTry, Begin,
                Execute, ExecuteFails, Commit, CommitFails, ExceptClause, Unwind,
                FinallyLevel, FinallyProgress, Caught, vars
  <2> QED BY <1>1, <2>1, <2>2, <2>3
<1>2. IInv /\ [Next]_vars =>
        [raised # "KeyboardInterrupt" /\ raised' = "KeyboardInterrupt"
           /\ sigints' = 1 => stack' = <<>>]_vars
  BY <1>1
<1> QED BY <1>2, Invariance, PTL DEF Spec, FirstSigintWaits

=============================================================================
