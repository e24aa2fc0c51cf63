-------------------------- MODULE AtomicConnection --------------------------
(***************************************************************************)
(* The `atomic` context manager on one SQLite connection, nested in itself *)
(* and in the DelayedKeyboardInterrupt of Runner.__exit__, as the main     *)
(* thread runs it while Ctrl-C arrive between any two steps.               *)
(*                                                                         *)
(* The contexts that are open form a stack.  An outmost atomic opens block *)
(* 1, 2, ...; a statement is known by the block it belongs to.             *)
(***************************************************************************)
EXTENDS Integers, Sequences

CONSTANTS Faults,        \* what may raise: subset of {"statement", "commit"}
          MaxBlocks,     \* bound: outmost atomic contexts
          MaxStatements, \* bound: statements of one block
          MaxDepth,      \* bound: open contexts
          MaxSigints     \* bound: Ctrl-C

ASSUME AtomicAssumption == /\ Faults \subseteq {"statement", "commit"}
                           /\ MaxBlocks \in Nat
                           /\ MaxStatements \in Nat
                           /\ MaxDepth \in Nat
                           /\ MaxSigints \in Nat

VARIABLES
  file,                \* statements in the file, per block
  view,                \* statements the connection sees, per block
  in_transaction,
  isolation_level,     \* "default", or "none": no implicit BEGIN
  atomic_in_progress,
  stack,               \* open contexts, the innermost last
  handler,             \* of SIGINT: default_int_handler, handler, forceful
  raised,              \* the exception on its way up
  \* what has happened
  block,               \* the blocks opened so far
  executed,            \* statements executed, per block
  over,                \* blocks whose context was left without an exception
  sigints,
  commit_failed,       \* a COMMIT has raised
  cut,                 \* what a second Ctrl-C has broken off: "level", a
                       \* finally clause before isolation_level was back;
                       \* "handler", the context manager of the handler
  owed                 \* a SIGINT was held back and not yet raised

connection == <<file, view, in_transaction>>
history == <<block, executed, over, sigints, commit_failed, cut>>
vars == <<connection, isolation_level, atomic_in_progress, stack, handler,
          raised, history, owed>>

Blocks == 1..MaxBlocks

(* Runner.__exit__ in its body; an atomic that has only put the handler in *)
(* place; one that has set atomic_in_progress but not entered its try;     *)
(* before BEGIN; in its body; past the commit or the rollback; with        *)
(* isolation_level put back; and, of both, with nothing left to do but     *)
(* DelayedKeyboardInterrupt.__exit__.                                      *)
Steps == {"exit", "entered", "opened", "begin", "body", "done", "restored",
          "leaving"}

Frames == [step : Steps,
           is_outmost : BOOLEAN,
           block : 0..MaxBlocks,
           old_level : {"default", "none"},
           old_atomic_in_progress : BOOLEAN,
           old_handler : BOOLEAN,      \* is there one to restore?
           signal_received : BOOLEAN]

TypeOK ==
  /\ file \in [Blocks -> 0..MaxStatements]
  /\ view \in [Blocks -> 0..MaxStatements]
  /\ in_transaction \in BOOLEAN
  /\ isolation_level \in {"default", "none"}
  /\ atomic_in_progress \in BOOLEAN
  /\ stack \in Seq(Frames)
  /\ handler \in {"default", "handler", "forceful"}
  /\ raised \in {"none", "Exception", "KeyboardInterrupt"}
  /\ block \in 0..MaxBlocks
  /\ executed \in [Blocks -> 0..MaxStatements]
  /\ over \subseteq Blocks
  /\ sigints \in 0..MaxSigints
  /\ commit_failed \in BOOLEAN
  /\ cut \subseteq {"level", "handler"}
  /\ owed \in BOOLEAN

Init ==
  /\ file = [b \in Blocks |-> 0]
  /\ view = [b \in Blocks |-> 0]
  /\ in_transaction = FALSE
  /\ isolation_level = "default"
  /\ atomic_in_progress = FALSE
  /\ stack = <<>>
  /\ handler = "default"
  /\ raised = "none"
  /\ block = 0
  /\ executed = [b \in Blocks |-> 0]
  /\ over = {}
  /\ sigints = 0
  /\ commit_failed = FALSE
  /\ cut = {}
  /\ owed = FALSE

-----------------------------------------------------------------------------
Top == stack[Len(stack)]
Under == SubSeq(stack, 1, Len(stack) - 1)

TopAt(steps) == stack # <<>> /\ Top.step \in steps

Goto(step) == stack' = [stack EXCEPT ![Len(stack)].step = step]

(* A slip: every context puts a handler in place.                          *)
DelayEverywhere(frame) ==
  /\ stack' = Append(stack, [frame EXCEPT !.old_handler = TRUE])
  /\ handler' = "handler"

(* DelayedKeyboardInterrupt.__enter__: only in place of the default        *)
(* handler, so the outermost context alone holds a SIGINT back.            *)
Delay(frame) ==
  /\ stack' = Append(stack, [frame EXCEPT !.old_handler = handler = "default"])
  /\ handler' = IF handler = "default" THEN "handler" ELSE handler

Frame(step, is_outmost, b) ==
  [step |-> step, is_outmost |-> is_outmost, block |-> b,
   old_level |-> isolation_level,
   old_atomic_in_progress |-> atomic_in_progress,
   old_handler |-> FALSE, signal_received |-> FALSE]

(* Runner.__exit__, the one other place that nests atomic contexts.        *)
EnterExit ==
  /\ raised = "none"
  /\ stack = <<>>
  /\ Delay(Frame("exit", FALSE, 0))
  /\ UNCHANGED <<connection, isolation_level, atomic_in_progress, raised,
                 history, owed>>

(* atomic, up to its first line.                                           *)
EnterAtomic ==
  LET is_outmost == ~atomic_in_progress
      b == IF is_outmost \/ stack = <<>> \/ Top.step = "exit"
             THEN block + 1 ELSE Top.block
  IN /\ raised = "none"
     /\ stack = <<>> \/ TopAt({"exit", "body"})
     /\ Len(stack) < MaxDepth
     /\ b \in Blocks
     /\ block' = IF b > block THEN b ELSE block
     /\ Delay(Frame("entered", is_outmost, b))
     /\ UNCHANGED <<connection, isolation_level, atomic_in_progress, raised,
                    executed, over, sigints, commit_failed, cut, owed>>

(* Up to the try statement: an outmost atomic is refused, with a           *)
(* RuntimeError, while a transaction is open.                              *)
Refuse ==
  /\ raised = "none"
  /\ TopAt({"entered"}) /\ Top.is_outmost /\ in_transaction
  /\ raised' = "Exception"
  /\ Goto("leaving")
  /\ UNCHANGED <<connection, isolation_level, atomic_in_progress, handler,
                 history, owed>>

Open ==
  /\ raised = "none"
  /\ TopAt({"entered"}) /\ ~(Top.is_outmost /\ in_transaction)
  /\ atomic_in_progress' = TRUE
  /\ Goto("opened")
  /\ UNCHANGED <<connection, isolation_level, handler, raised, history, owed>>

EnterTry ==
  /\ raised = "none"
  /\ TopAt({"opened"})
  /\ Goto("begin")
  /\ UNCHANGED <<connection, isolation_level, atomic_in_progress, handler,
                 raised, history, owed>>

Begin ==
  /\ raised = "none"
  /\ TopAt({"begin"})
  /\ Goto("body")
  /\ isolation_level' = IF Top.is_outmost THEN "none" ELSE isolation_level
  /\ \/ /\ in_transaction' = (Top.is_outmost \/ in_transaction)
        /\ UNCHANGED raised
     \/ /\ Top.is_outmost /\ "statement" \in Faults
        /\ raised' = "Exception"
        /\ UNCHANGED in_transaction
  /\ UNCHANGED <<file, view, atomic_in_progress, handler, history, owed>>

(* A statement in the body.  Without a transaction SQLite begins one by    *)
(* itself, or, with isolation level None, commits the statement at once.   *)
Execute ==
  LET b == Top.block
  IN /\ raised = "none"
     /\ TopAt({"body"})
     /\ executed[b] < MaxStatements
     /\ executed' = [executed EXCEPT ![b] = @ + 1]
     /\ view' = [view EXCEPT ![b] = @ + 1]
     /\ in_transaction' = (in_transaction \/ isolation_level = "default")
     /\ file' = IF in_transaction' THEN file ELSE view'
     /\ UNCHANGED <<isolation_level, atomic_in_progress, stack, handler,
                    raised, block, over, sigints, commit_failed, cut, owed>>

ExecuteFails ==
  /\ raised = "none"
  /\ TopAt({"body"})
  /\ "statement" \in Faults
  /\ raised' = "Exception"
  /\ UNCHANGED <<connection, isolation_level, atomic_in_progress, stack,
                 handler, history, owed>>

(* A slip: every atomic commits, not only the outmost.                     *)
Commits(frame) == TRUE

CommitsHere(frame) == frame.is_outmost

(* The else clause.                                                        *)
Commit ==
  /\ raised = "none"
  /\ TopAt({"body"})
  /\ Goto("done")
  /\ IF CommitsHere(Top) THEN file' = view /\ in_transaction' = FALSE
                         ELSE UNCHANGED <<file, in_transaction>>
  /\ UNCHANGED <<view, isolation_level, atomic_in_progress, handler, raised,
                 history, owed>>

(* COMMIT raises (a reader keeps the file busy): the transaction stays     *)
(* open, and the except clause does not guard the else clause.             *)
CommitFails ==
  /\ raised = "none"
  /\ TopAt({"body"})
  /\ Top.is_outmost
  /\ "commit" \in Faults
  /\ raised' = "Exception"
  /\ commit_failed' = TRUE
  /\ Goto("done")
  /\ UNCHANGED <<connection, isolation_level, atomic_in_progress, handler,
                 block, executed, over, sigints, cut, owed>>

Rollback ==
  /\ view' = file
  /\ in_transaction' = FALSE
  /\ UNCHANGED file

(* The except clause, for an Exception and not for a KeyboardInterrupt.    *)
ExceptClause ==
  /\ raised = "Exception"
  /\ TopAt({"begin", "body"})
  /\ Goto("done")
  /\ Rollback
  /\ UNCHANGED <<isolation_level, atomic_in_progress, handler, raised, history,
                 owed>>

(* A context is left early: a KeyboardInterrupt passes the except clause;  *)
(* before the try statement there is no finally clause; Runner.__exit__    *)
(* ends with or without an exception.                                      *)
Unwind ==
  /\ \/ TopAt({"begin", "body"}) /\ raised = "KeyboardInterrupt" /\ Goto("done")
     \/ TopAt({"entered", "opened"}) /\ raised # "none" /\ Goto("leaving")
     \/ TopAt({"exit"}) /\ Goto("leaving")
  /\ UNCHANGED <<connection, isolation_level, atomic_in_progress, handler,
                 raised, history, owed>>

(* The finally clause, of every frame that has entered its try.            *)
FinallyLevel ==
  /\ TopAt({"done"})
  /\ Goto("restored")
  /\ isolation_level' = IF Top.is_outmost THEN Top.old_level ELSE isolation_level
  /\ UNCHANGED <<connection, atomic_in_progress, handler, raised, history, owed>>

(* A slip: atomic_in_progress is not put back.                             *)
StaysInProgress(frame) == TRUE

FoundInProgress(frame) == frame.old_atomic_in_progress

FinallyProgress ==
  /\ TopAt({"restored"})
  /\ Goto("leaving")
  /\ atomic_in_progress' = FoundInProgress(Top)
  /\ UNCHANGED <<connection, isolation_level, handler, raised, history, owed>>

Restored == IF Top.old_handler THEN "default" ELSE handler

(* A slip: a SIGINT held back is forgotten when another exception is       *)
(* raised.                                                                 *)
ForgottenByException ==
  IF raised = "none" /\ Top.signal_received THEN "KeyboardInterrupt" ELSE raised

(* DelayedKeyboardInterrupt.__exit__ calls the old handler.                *)
RaisedAtLast == IF Top.signal_received THEN "KeyboardInterrupt" ELSE raised

(* DelayedKeyboardInterrupt.__exit__, from the line on that puts the old   *)
(* handler back: a later SIGINT is one outside of the outermost context.   *)
Leave ==
  /\ TopAt({"leaving"})
  /\ handler' = Restored
  /\ raised' = RaisedAtLast
  /\ owed' = (owed /\ raised' # "KeyboardInterrupt")
  /\ over' = IF raised = "none" /\ Top.block \in Blocks
                  /\ \A i \in 1..Len(Under) : Under[i].block # Top.block
               THEN over \cup {Top.block} ELSE over
  /\ stack' = Under
  /\ UNCHANGED <<connection, isolation_level, atomic_in_progress, block,
                 executed, sigints, commit_failed, cut>>

(* The user's program goes on after an exception, and a flush in           *)
(* Runner.__exit__ after one that is no KeyboardInterrupt.                 *)
Caught ==
  /\ \/ stack = <<>> /\ raised # "none"
     \/ TopAt({"exit"}) /\ raised = "Exception"
  /\ raised' = "none"
  /\ UNCHANGED <<connection, isolation_level, atomic_in_progress, stack,
                 handler, history, owed>>

(* Ctrl-C inside the outermost context: the first is held back.            *)
SigintDelayed ==
  /\ handler = "handler"
  /\ handler' = "forceful"
  /\ stack' = [i \in DOMAIN stack |->
                 [stack[i] EXCEPT !.signal_received =
                                    @ \/ stack[i].old_handler]]
  /\ owed' = TRUE
  /\ UNCHANGED <<raised, cut>>

(* The second raises where the main thread is: where except and finally    *)
(* clauses follow; in the finally clause, of which the rest is skipped; or *)
(* in __enter__ (the handler is in place, old_handler not yet assigned) or *)
(* __exit__ (the handler is still in place), which do not run again.       *)
SigintForced ==
  /\ handler # "handler"                    \* "forceful"
  /\ raised' = "KeyboardInterrupt"
  /\ owed' = FALSE
  /\ \/ /\ ~TopAt({"restored", "leaving"})
        /\ UNCHANGED <<stack, cut>>
     \/ /\ TopAt({"done", "restored"})
        /\ Goto("leaving")
        /\ cut' = IF TopAt({"done"}) /\ Top.is_outmost THEN cut \cup {"level"}
                                                       ELSE cut
     \/ /\ TopAt({"exit", "entered", "leaving"})
        /\ stack' = Under
        /\ cut' = IF Top.old_handler THEN cut \cup {"handler"} ELSE cut
  /\ UNCHANGED handler

Sigint ==
  /\ stack # <<>>
  /\ sigints < MaxSigints
  /\ sigints' = sigints + 1
  /\ SigintDelayed \/ SigintForced
  /\ UNCHANGED <<connection, isolation_level, atomic_in_progress, block,
                 executed, over, commit_failed>>

-----------------------------------------------------------------------------
Next ==
  \/ EnterExit
  \/ EnterAtomic
  \/ Refuse
  \/ Open
  \/ EnterTry
  \/ Begin
  \/ Execute
  \/ ExecuteFails
  \/ Commit
  \/ CommitFails
  \/ ExceptClause
  \/ Unwind
  \/ FinallyLevel
  \/ FinallyProgress
  \/ Leave
  \/ Caught
  \/ Sigint

Spec == Init /\ [][Next]_vars
-----------------------------------------------------------------------------
(* What must hold.                                                         *)

(* Of a block the file has every statement or none, also if an inner       *)
(* atomic fails, a Ctrl-C breaks it, or the commit raises; while the block *)
(* is being written the file has none.  This ends for good when a second   *)
(* Ctrl-C breaks an outmost finally clause before isolation_level is back: *)
(* every later block is taken for a nested one, and written at once.       *)
AllOrNothing ==
  "level" \notin cut =>
    \A b \in Blocks :
      file[b] # 0 => /\ file[b] = executed[b]
                     /\ \A i \in DOMAIN stack : stack[i].block = b =>
                          stack[i].step \in {"done", "restored", "leaving"}

(* No second Ctrl-C and no failing commit has left the connection in the   *)
(* middle of a block.                                                      *)
Undisturbed == sigints <= 1 /\ ~commit_failed

(* "committed if there are no exceptions": a block that was left without   *)
(* one is in the file, whatever happened to the blocks before it.          *)
DoneIsDurable ==
  Undisturbed => \A b \in over : file[b] = executed[b]

(* The connection is ready for the next block: nothing of the last one is  *)
(* still open.                                                             *)
Ready == /\ ~in_transaction
         /\ ~atomic_in_progress
         /\ isolation_level = "default"
         /\ view = file

(* However contexts are nested and whatever they raise, once they are left *)
(* a SIGINT held back has been raised, the connection is ready, and the    *)
(* SIGINT handler found on entry is back, unless a second Ctrl-C came in   *)
(* the few lines of __enter__ or __exit__ while the handler was in place.  *)
IdleIsReady ==
  stack = <<>> => /\ ~owed
                  /\ handler = "default" \/ "handler" \in cut
                  /\ Undisturbed => Ready

(* The first Ctrl-C interrupts nothing: it is raised when no context is    *)
(* left.                                                                   *)
FirstSigintWaits ==
  [][raised # "KeyboardInterrupt" /\ raised' = "KeyboardInterrupt"
       /\ sigints' = 1 => stack' = <<>>]_vars
=============================================================================
