------------------------------ MODULE AsyncTask ------------------------------
(***************************************************************************)
(* examples/async_task AsyncTask.Run (src/unnamed/part_008 21-53): the     *)
(* composition of a Shutdown with a TaskGroup.                             *)
(*                                                                         *)
(* Run derives ctx2 from the parent context, starts a goroutine that runs  *)
(* shutdown.Run(ctx2) and calls cancel() when it returns an error, starts  *)
(* `replicas` Loops of the task on ctx2 (the task's error is swallowed     *)
(* after a pause, so the runner always returns nil), waits for the group,  *)
(* and closes the shutdown.  Both components are instantiated; they share *)
(* ctx2, which is the TaskGroup's context and the Shutdown's.              *)
(***************************************************************************)
EXTENDS Naturals, FiniteSets

CONSTANTS
  Replicas,    \* the Loop calls, one per replica
  Main,        \* the goroutine calling AsyncTask.Run, the group's waiter
  MaxSignals   \* signals sent to the process

\* replicas is an int: finitely many Loop calls; signals are counted.
ASSUME ReplicasAssumption == IsFiniteSet(Replicas)
ASSUME MaxSignalsAssumption == MaxSignals \in Nat

VARIABLES
  parentDone, ctx2Done, atpc, sg,
  counter, kind, pc, logged, wpc, snap,
  doneClosed, spc, sresult, trapped, sigBuf, runs, sigs, killed

tgOnly == <<counter, kind, pc, logged, wpc, snap>>
sdOnly == <<doneClosed, spc, sresult, trapped, sigBuf, runs, sigs, killed>>
vars == <<parentDone, ctx2Done, atpc, sg, tgOnly, sdOnly>>

TG == INSTANCE TaskGroup WITH Tasks <- Replicas, Waiters <- {Main},
                              ctxErr <- ctx2Done
SD == INSTANCE Shutdown WITH MaxRuns <- 1, ctxDone <- ctx2Done

ATPCs == {"looping", "waiting", "returned"}

\* The go statement and the ctx2 derivation have happened: the shutdown
\* goroutine exists and has not yet called shutdown.Run.
Init ==
  /\ parentDone = FALSE
  /\ atpc = "looping"
  /\ sg = "running"
  /\ TG!Init
  /\ SD!SInit

\* One iteration of the for loop: at.Loop(ctx2, ...).
StartLoop(t) ==
  /\ atpc = "looping"
  /\ TG!Loop(t)
  /\ UNCHANGED <<parentDone, atpc, sg>>
  /\ UNCHANGED sdOnly

\* After the loop: at.Wait().
StartWait ==
  /\ atpc = "looping"
  /\ \A t \in Replicas : pc[t] # "new"
  /\ TG!WaitStart(Main)
  /\ atpc' = "waiting"
  /\ UNCHANGED <<parentDone, ctx2Done, sg>>
  /\ UNCHANGED sdOnly

\* Wait returned: shutdown.Close(ctx), then Run returns.
CloseShutdown ==
  /\ atpc = "waiting"
  /\ wpc[Main] = "returned"
  /\ SD!Close
  /\ atpc' = "returned"
  /\ UNCHANGED <<parentDone, sg>>
  /\ UNCHANGED tgOnly

\* A step of replica t's goroutine: the loop check, or the task returning
\* nil (f's error is swallowed).
LoopStep(t) ==
  /\ TG!LoopCheck(t) \/ TG!LoopReturn(t, "nil")
  /\ UNCHANGED <<parentDone, atpc, sg>>
  /\ UNCHANGED sdOnly

\* The waiter released by the last Done is scheduled.
WaitWake ==
  /\ TG!WaitReturn(Main)
  /\ UNCHANGED <<parentDone, atpc, sg>>
  /\ UNCHANGED sdOnly

\* Steps of shutdown.Run in the shutdown goroutine, and signals.
ShutdownStep ==
  /\ sg = "running"
  /\ SD!RunStart \/ SD!Select
  /\ UNCHANGED <<parentDone, atpc, sg>>
  /\ UNCHANGED tgOnly

SignalStep ==
  /\ SD!Signal
  /\ UNCHANGED <<parentDone, atpc, sg>>
  /\ UNCHANGED tgOnly

\* Mutant: the goroutine cancels ctx2 only when shutdown.Run returned nil.
ShutdownExit_Inverted ==
  /\ sg = "running"
  /\ spc = "returned"
  /\ sg' = "exited"
  /\ ctx2Done' = (ctx2Done \/ sresult = "nil")
  /\ UNCHANGED <<parentDone, atpc>>
  /\ UNCHANGED tgOnly
  /\ UNCHANGED sdOnly

\* shutdown.Run returned: if err != nil { cancel() }.
ShutdownExit ==
  /\ sg = "running"
  /\ spc = "returned"
  /\ sg' = "exited"
  /\ ctx2Done' = (ctx2Done \/ sresult # "nil")
  /\ UNCHANGED <<parentDone, atpc>>
  /\ UNCHANGED tgOnly
  /\ UNCHANGED sdOnly

\* The parent context is canceled; ctx2 with it.
ParentCancel ==
  /\ ~parentDone
  /\ parentDone' = TRUE
  /\ ctx2Done' = TRUE
  /\ UNCHANGED <<atpc, sg>>
  /\ UNCHANGED tgOnly
  /\ UNCHANGED sdOnly

\* A signal's default action ends the process: nothing happens after it.
Next ==
  /\ ~killed
  /\ \/ \E t \in Replicas : StartLoop(t)
     \/ \E t \in Replicas : LoopStep(t)
     \/ StartWait \/ CloseShutdown \/ WaitWake
     \/ ShutdownStep \/ SignalStep \/ ShutdownExit \/ ParentCancel

(***************************************************************************)
(* Fairness: both goroutines of Run and the group's goroutines are         *)
(* scheduled, and the task f returns (its pause is finite).  Signals and   *)
(* the parent's cancellation are the environment's.                        *)
(***************************************************************************)
Fairness ==
  /\ \A t \in Replicas : WF_vars(StartLoop(t))
  /\ \A t \in Replicas : WF_vars(LoopStep(t))
  /\ WF_vars(StartWait) /\ WF_vars(CloseShutdown) /\ WF_vars(WaitWake)
  /\ WF_vars(ShutdownStep) /\ WF_vars(ShutdownExit)

Spec == Init /\ [][Next]_vars
FairSpec == Spec /\ Fairness

-----------------------------------------------------------------------------
TypeOK ==
  /\ parentDone \in BOOLEAN
  /\ atpc \in ATPCs
  /\ sg \in {"running", "exited"}
  /\ TG!TypeOK
  /\ SD!STypeOK

\* The doc comment of AsyncTask.Run: it "blocks until a shutdown signal is
\* triggered, or the parent context is canceled".
ReturnsOnlyOnStop ==
  atpc = "returned" => (parentDone \/ sresult = "signal")

\* A received shutdown signal, or the parent's cancellation, ends Run: the
\* shutdown goroutine cancels ctx2, every Loop notices, Wait returns and the
\* shutdown is closed (unless a signal's default action ended the process).
StopsOnSignal ==
  (parentDone \/ sresult = "signal") ~> (atpc = "returned" \/ killed)
=============================================================================
