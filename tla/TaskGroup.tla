------------------------------ MODULE TaskGroup ------------------------------
(***************************************************************************)
(* async.TaskGroup (src/pkg/async/async.go): a named sync.WaitGroup that   *)
(* starts fire-once tasks (Run) and repeat-until-stopped tasks (Loop) in   *)
(* goroutines, and lets any number of goroutines block in Wait until the   *)
(* counter of tracked goroutines drops to zero.                            *)
(*                                                                         *)
(* Every task id in Tasks is one call of Run or Loop, made at most once,   *)
(* under one shared parent context (as in the package's tests and in       *)
(* examples/async_task).  The runner is opaque: a call of r.Run returns    *)
(* nil, a real error, or -- once the context is canceled -- the context's  *)
(* cancellation error.  Tracing spans and the log line are abstracted to   *)
(* the set of tasks that reported an error.                                *)
(***************************************************************************)
EXTENDS Naturals, FiniteSets

CONSTANTS
  Tasks,    \* calls of TaskGroup.Run / TaskGroup.Loop
  Waiters   \* goroutines calling TaskGroup.Wait

ASSUME TasksAssumption == IsFiniteSet(Tasks)
ASSUME WaitersAssumption == IsFiniteSet(Waiters)

VARIABLES
  ctxErr,   \* ctx.Err() != nil: the parent context was canceled
  counter,  \* the embedded WaitGroup's counter
  kind,     \* kind[t]: which call started task t ("none" before the call)
  pc,       \* pc[t]: where the goroutine of task t is
  logged,   \* tasks whose runner error was reported through log.Error
  wpc,      \* wpc[w]: where waiter w is in WaitGroup.Wait
  snap      \* snap[w]: tasks already added when w's Wait began

vars == <<ctxErr, counter, kind, pc, logged, wpc, snap>>

Kinds == {"none", "run", "loop"}
PCs == {"new", "check", "running", "done"}
WPCs == {"idle", "blocked", "woken", "returned"}

\* What one call of r.Run(ctx2) can return: a cancellation error only once
\* the context was canceled.
Results == {"nil", "err", "canceled"}
PossibleResults == IF ctxErr THEN Results ELSE {"nil", "err"}

\* The tasks whose goroutine was started (Add(1) already done).
Started == {t \in Tasks : pc[t] # "new"}

Init ==
  /\ ctxErr = FALSE
  /\ counter = 0
  /\ kind = [t \in Tasks |-> "none"]
  /\ pc = [t \in Tasks |-> "new"]
  /\ logged = {}
  /\ wpc = [w \in Waiters |-> "idle"]
  /\ snap = [w \in Waiters |-> {}]

\* Mutant: every Done wakes the waiters, which do not re-check the counter.
Done_WakeEveryTime ==
  /\ counter' = counter - 1
  /\ wpc' = [w \in Waiters |-> IF wpc[w] = "blocked" THEN "woken" ELSE wpc[w]]

(***************************************************************************)
(* WaitGroup.Done: decrement the counter; the Done that brings it to zero  *)
(* releases every goroutine blocked in Wait (they still have to be        *)
(* scheduled to return).                                                   *)
(***************************************************************************)
Done ==
  /\ counter' = counter - 1
  /\ wpc' = IF counter - 1 = 0
              THEN [w \in Waiters |-> IF wpc[w] = "blocked" THEN "woken" ELSE wpc[w]]
              ELSE wpc

\* Mutant: the goroutine is started without Add(1).
Run_NoAdd(t) ==
  /\ pc[t] = "new"
  /\ kind' = [kind EXCEPT ![t] = "run"]
  /\ pc' = [pc EXCEPT ![t] = "running"]
  /\ UNCHANGED <<ctxErr, counter, logged, wpc, snap>>

\* TaskGroup.Run: Add(1) in the caller, then the goroutine runs r.
Run(t) ==
  /\ pc[t] = "new"
  /\ counter' = counter + 1
  /\ kind' = [kind EXCEPT ![t] = "run"]
  /\ pc' = [pc EXCEPT ![t] = "running"]
  /\ UNCHANGED <<ctxErr, logged, wpc, snap>>

\* The runner of a Run task returns; a non-cancellation error is logged and
\* swallowed; the deferred Done follows.
RunReturn(t, res) ==
  /\ pc[t] = "running"
  /\ kind[t] = "run"
  /\ pc' = [pc EXCEPT ![t] = "done"]
  /\ logged' = IF res = "err" THEN logged \cup {t} ELSE logged
  /\ Done
  /\ UNCHANGED <<ctxErr, kind, snap>>

\* TaskGroup.Loop: one Add(1) for the whole loop, then the goroutine starts.
Loop(t) ==
  /\ pc[t] = "new"
  /\ counter' = counter + 1
  /\ kind' = [kind EXCEPT ![t] = "loop"]
  /\ pc' = [pc EXCEPT ![t] = "check"]
  /\ UNCHANGED <<ctxErr, logged, wpc, snap>>

\* Mutant: a loop that never looks at its context.
LoopCheck_IgnoreCtx(t) ==
  /\ pc[t] = "check"
  /\ pc' = [pc EXCEPT ![t] = "running"]
  /\ UNCHANGED <<ctxErr, counter, wpc, kind, logged, snap>>

\* The loop condition ctx.Err() == nil: run once more, or leave the loop
\* and run the deferred Done.
LoopCheck(t) ==
  /\ pc[t] = "check"
  /\ IF ctxErr
       THEN /\ pc' = [pc EXCEPT ![t] = "done"]
            /\ Done
       ELSE /\ pc' = [pc EXCEPT ![t] = "running"]
            /\ UNCHANGED <<counter, wpc>>
  /\ UNCHANGED <<ctxErr, kind, logged, snap>>

\* Mutant: run() returning true (break) when the runner returned nil.
LoopReturn_BreakOnNil(t, res) ==
  /\ pc[t] = "running"
  /\ kind[t] = "loop"
  /\ IF res # "canceled"
       THEN /\ pc' = [pc EXCEPT ![t] = "done"]
            /\ logged' = IF res = "err" THEN logged \cup {t} ELSE logged
            /\ Done
       ELSE /\ pc' = [pc EXCEPT ![t] = "check"]
            /\ UNCHANGED <<counter, wpc, logged>>
  /\ UNCHANGED <<ctxErr, kind, snap>>

\* One iteration's runner returns: a non-cancellation error is logged and
\* breaks the loop (then Done); nil or a cancellation error loops again.
LoopReturn(t, res) ==
  /\ pc[t] = "running"
  /\ kind[t] = "loop"
  /\ IF res = "err"
       THEN /\ pc' = [pc EXCEPT ![t] = "done"]
            /\ logged' = logged \cup {t}
            /\ Done
       ELSE /\ pc' = [pc EXCEPT ![t] = "check"]
            /\ UNCHANGED <<counter, wpc, logged>>
  /\ UNCHANGED <<ctxErr, kind, snap>>

\* WaitGroup.Wait: return at once on a zero counter, else block.  A waiter
\* that returned may call Wait again (the group is long-lived).
WaitStart(w) ==
  /\ wpc[w] \in {"idle", "returned"}
  /\ wpc' = [wpc EXCEPT ![w] = IF counter = 0 THEN "returned" ELSE "blocked"]
  /\ snap' = [snap EXCEPT ![w] = Started]
  /\ UNCHANGED <<ctxErr, counter, kind, pc, logged>>

\* A waiter released by the last Done is scheduled and returns.
WaitReturn(w) ==
  /\ wpc[w] = "woken"
  /\ wpc' = [wpc EXCEPT ![w] = "returned"]
  /\ UNCHANGED <<ctxErr, counter, kind, pc, logged, snap>>

\* The owner of the parent context cancels it.
Cancel ==
  /\ ~ctxErr
  /\ ctxErr' = TRUE
  /\ UNCHANGED <<counter, kind, pc, logged, wpc, snap>>

RunnerReturns(t) ==
  \E res \in PossibleResults : RunReturn(t, res) \/ LoopReturn(t, res)

Next ==
  \/ Cancel
  \/ \E t \in Tasks :
       \/ Run(t)
       \/ Loop(t)
       \/ LoopCheck(t)
       \/ \E res \in PossibleResults : RunReturn(t, res)
       \/ \E res \in PossibleResults : LoopReturn(t, res)
  \/ \E w \in Waiters : WaitStart(w) \/ WaitReturn(w)

(***************************************************************************)
(* Fairness.  Started goroutines and woken waiters are scheduled (weak     *)
(* fairness of the loop check and of Wait's return).  A runner is only     *)
(* assumed to return once its context is canceled: cancellation is         *)
(* cooperative, and the runners of this repository block on ctx.Done().    *)
(* Callers of Run, Loop and Wait, and the canceler, are not forced to act. *)
(***************************************************************************)
Fairness ==
  /\ \A t \in Tasks : WF_vars(LoopCheck(t))
  /\ \A t \in Tasks : WF_vars(ctxErr /\ RunnerReturns(t))
  /\ \A w \in Waiters : WF_vars(WaitReturn(w))

Spec == Init /\ [][Next]_vars
FairSpec == Spec /\ Fairness

-----------------------------------------------------------------------------
TypeOK ==
  /\ ctxErr \in BOOLEAN
  /\ counter \in Nat
  /\ kind \in [Tasks -> Kinds]
  /\ pc \in [Tasks -> PCs]
  /\ logged \subseteq Tasks
  /\ wpc \in [Waiters -> WPCs]
  /\ snap \in [Waiters -> SUBSET Tasks]

\* P1, "Wait never returns while an increment is outstanding": a goroutine
\* returned from Wait only once every Run/Loop goroutine that had been added
\* when its Wait began has finished, even when new tasks start meanwhile.
WaitSound ==
  \A w \in Waiters :
    wpc[w] = "returned" => \A t \in snap[w] : pc[t] = "done"

\* Loop stops only for the two reasons async.go gives: the runner returned
\* a non-cancellation error (which was logged) or the context was canceled.
LoopExitReason ==
  \A t \in Tasks :
    (kind[t] = "loop" /\ pc[t] = "done") => (t \in logged \/ ctxErr)

\* Once the parent context is canceled, every goroutine blocked in Wait
\* eventually returns: Loop notices cancellation and every Done is run.
WaitReturnsAfterCancel ==
  \A w \in Waiters : (ctxErr /\ wpc[w] = "blocked") ~> (wpc[w] = "returned")
=============================================================================
