------------------------------- MODULE CronJob -------------------------------
(***************************************************************************)
(* cronjob.ServiceActivity (src/pkg/serviceactivities/cronjob/cronjob.go): *)
(* one call of Run, concurrent with at most one call of Close and with the *)
(* cancellation of Run's context.                                          *)
(*                                                                         *)
(* Run creates the job, registers a tick closure with a robfig/cron        *)
(* scheduler, starts a watcher goroutine that stops the scheduler on       *)
(* ctx.Done(), starts the scheduler, and blocks in a select on ctx.Done(), *)
(* the done channel closed by Close, and errCh (capacity 1).  It then      *)
(* stops the scheduler, waits on the context returned by Stop (done when   *)
(* every started tick returned), and calls RunClose on the job.            *)
(*                                                                         *)
(* The scheduler (robfig/cron v3, as used here without job wrappers) runs  *)
(* every firing in a goroutine of its own, counted by its jobWaiter.  Tick *)
(* goroutines are anonymous, so they are counted: `inJob` are inside       *)
(* job.Run, `sending` returned an error and are on the send errCh <- err.  *)
(* Time is abstracted away: a firing may happen whenever the scheduler     *)
(* runs, which is what a job slower than its period produces.  MaxTicks    *)
(* bounds the number of firings.                                           *)
(***************************************************************************)
EXTENDS Naturals

CONSTANTS MaxTicks

ASSUME MaxTicksAssumption == MaxTicks \in Nat \ {0}

\* make(chan error, 1)
ErrChCap == 1

VARIABLES
  ctxDone,     \* Run's context is done
  doneClosed,  \* close(sa.done) was executed by Close
  rpc,         \* where Run's goroutine is
  selErr,      \* the err chosen by Run's select
  result,      \* what Run returned
  watcher,     \* the ctx watcher goroutine: "none", "waiting", "exited"
  cronRunning, \* the scheduler's running flag
  fired,       \* firings so far (bounded by MaxTicks)
  inJob,       \* tick goroutines inside job.Run
  sending,     \* tick goroutines blocked on errCh <- err
  errBuf,      \* errors buffered in errCh
  jobClosed    \* RunClose(ctx, job) was executed

vars == <<ctxDone, doneClosed, rpc, selErr, result, watcher, cronRunning,
          fired, inJob, sending, errBuf, jobClosed>>

RPCs == {"start", "starting", "select", "stopping", "draining", "returned"}
Errs == {"none", "nil", "ctx", "jobErr", "closeErr", "addErr"}

\* The error values the job's Close (through RunClose) can return.
CloseResults == {"nil", "closeErr"}

Init ==
  /\ ctxDone = FALSE
  /\ doneClosed = FALSE
  /\ rpc = "start"
  /\ selErr = "none"
  /\ result = "none"
  /\ watcher = "none"
  /\ cronRunning = FALSE
  /\ fired = 0
  /\ inJob = 0
  /\ sending = 0
  /\ errBuf = 0
  /\ jobClosed = FALSE

(***************************************************************************)
(* job := NewJob(); AddJob(frequency, runner).  AddJob fails only on a bad *)
(* schedule expression: then Run returns that error at once.  Otherwise    *)
(* the watcher goroutine is started.                                       *)
(***************************************************************************)
RunStart ==
  /\ rpc = "start"
  /\ \/ /\ rpc' = "returned"
        /\ result' = "addErr"
        /\ UNCHANGED watcher
     \/ /\ rpc' = "starting"
        /\ watcher' = "waiting"
        /\ UNCHANGED result
  /\ UNCHANGED <<ctxDone, doneClosed, selErr, cronRunning, fired, inJob,
                 sending, errBuf, jobClosed>>

\* sa.cron.Start(): sets running (a no-op when already running).
CronStart ==
  /\ rpc = "starting"
  /\ rpc' = "select"
  /\ cronRunning' = TRUE
  /\ UNCHANGED <<ctxDone, doneClosed, selErr, result, watcher, fired, inJob,
                 sending, errBuf, jobClosed>>

\* The watcher: <-ctx.Done(); sa.cron.Stop().
WatcherStop ==
  /\ watcher = "waiting"
  /\ ctxDone
  /\ watcher' = "exited"
  /\ cronRunning' = FALSE
  /\ UNCHANGED <<ctxDone, doneClosed, rpc, selErr, result, fired, inJob,
                 sending, errBuf, jobClosed>>

\* The running scheduler fires the job in a new goroutine (jobWaiter.Add).
Tick ==
  /\ cronRunning
  /\ fired < MaxTicks
  /\ fired' = fired + 1
  /\ inJob' = inJob + 1
  /\ UNCHANGED <<ctxDone, doneClosed, rpc, selErr, result, watcher,
                 cronRunning, sending, errBuf, jobClosed>>

(***************************************************************************)
(* job.Run(ctx) returns in one tick goroutine: nil ends the goroutine      *)
(* (jobWaiter.Done); an error -- including the context's own error once it *)
(* is canceled -- goes on to the send into errCh.                          *)
(***************************************************************************)
JobReturn ==
  /\ inJob > 0
  /\ inJob' = inJob - 1
  /\ \/ UNCHANGED sending
     \/ sending' = sending + 1
  /\ UNCHANGED <<ctxDone, doneClosed, rpc, selErr, result, watcher,
                 cronRunning, fired, errBuf, jobClosed>>

\* Mutant: the send does not wait for room in the buffer.
Send_NoWait ==
  /\ sending > 0
  /\ sending' = sending - 1
  /\ errBuf' = errBuf + 1
  /\ UNCHANGED <<ctxDone, doneClosed, rpc, selErr, result, watcher,
                 cronRunning, fired, inJob, jobClosed>>

\* errCh <- err completes when the buffer has room; the goroutine ends.
Send ==
  /\ sending > 0
  /\ errBuf < ErrChCap
  /\ sending' = sending - 1
  /\ errBuf' = errBuf + 1
  /\ UNCHANGED <<ctxDone, doneClosed, rpc, selErr, result, watcher,
                 cronRunning, fired, inJob, jobClosed>>

\* Mutant: a select without the errCh case.
Select_NoErrCh ==
  /\ rpc = "select"
  /\ rpc' = "stopping"
  /\ \/ /\ ctxDone
        /\ selErr' = "ctx"
     \/ /\ doneClosed
        /\ selErr' = "nil"
  /\ UNCHANGED <<ctxDone, doneClosed, result, watcher, cronRunning, fired,
                 inJob, sending, errBuf, jobClosed>>

(***************************************************************************)
(* Run's select: any ready case may be chosen.  ctx.Done() gives           *)
(* ctx.Err(), <-sa.done gives nil, <-errCh takes the buffered job error.   *)
(***************************************************************************)
Select ==
  /\ rpc = "select"
  /\ rpc' = "stopping"
  /\ \/ /\ ctxDone
        /\ selErr' = "ctx"
        /\ UNCHANGED errBuf
     \/ /\ doneClosed
        /\ selErr' = "nil"
        /\ UNCHANGED errBuf
     \/ /\ errBuf > 0
        /\ selErr' = "jobErr"
        /\ errBuf' = errBuf - 1
  /\ UNCHANGED <<ctxDone, doneClosed, result, watcher, cronRunning, fired,
                 inJob, sending, jobClosed>>

\* ctx2 := sa.cron.Stop(): no firing after this.
Stop ==
  /\ rpc = "stopping"
  /\ rpc' = "draining"
  /\ cronRunning' = FALSE
  /\ UNCHANGED <<ctxDone, doneClosed, selErr, result, watcher, fired, inJob,
                 sending, errBuf, jobClosed>>

\* Mutant: the job is closed without waiting on the context Stop returned.
DrainAndClose_NoWait ==
  /\ rpc = "draining"
  /\ \E err2 \in CloseResults :
       result' = IF selErr = "nil" THEN err2 ELSE selErr
  /\ jobClosed' = TRUE
  /\ rpc' = "returned"
  /\ UNCHANGED <<ctxDone, doneClosed, selErr, watcher, cronRunning, fired,
                 inJob, sending, errBuf>>

(***************************************************************************)
(* <-ctx2.Done() returns once every started tick goroutine ended; then     *)
(* err2 := RunClose(ctx, job), and err2 is returned only when err is nil.  *)
(***************************************************************************)
DrainAndClose ==
  /\ rpc = "draining"
  /\ inJob = 0
  /\ sending = 0
  /\ \E err2 \in CloseResults :
       result' = IF selErr = "nil" THEN err2 ELSE selErr
  /\ jobClosed' = TRUE
  /\ rpc' = "returned"
  /\ UNCHANGED <<ctxDone, doneClosed, selErr, watcher, cronRunning, fired,
                 inJob, sending, errBuf>>

\* ServiceActivity.Close: close(sa.done).  A second Close would panic; the
\* caller here calls it once.
Close ==
  /\ ~doneClosed
  /\ doneClosed' = TRUE
  /\ UNCHANGED <<ctxDone, rpc, selErr, result, watcher, cronRunning, fired,
                 inJob, sending, errBuf, jobClosed>>

\* Run's caller cancels its context (another service failed or stopped).
CancelCtx ==
  /\ ~ctxDone
  /\ ctxDone' = TRUE
  /\ UNCHANGED <<doneClosed, rpc, selErr, result, watcher, cronRunning,
                 fired, inJob, sending, errBuf, jobClosed>>

Next ==
  \/ RunStart \/ CronStart \/ WatcherStop
  \/ Tick \/ JobReturn \/ Send
  \/ Select \/ Stop \/ DrainAndClose
  \/ Close \/ CancelCtx

(***************************************************************************)
(* Fairness: every goroutine that can run does (Run's goroutine, the       *)
(* watcher, tick goroutines whose job returns and whose send has room).    *)
(* Firings (time), Close and cancellation are not forced.                  *)
(***************************************************************************)
Fairness ==
  /\ WF_vars(RunStart) /\ WF_vars(CronStart) /\ WF_vars(WatcherStop)
  /\ WF_vars(JobReturn) /\ WF_vars(Send)
  /\ WF_vars(Select) /\ WF_vars(Stop) /\ WF_vars(DrainAndClose)

Spec == Init /\ [][Next]_vars
FairSpec == Spec /\ Fairness

-----------------------------------------------------------------------------
TypeOK ==
  /\ ctxDone \in BOOLEAN /\ doneClosed \in BOOLEAN /\ jobClosed \in BOOLEAN
  /\ rpc \in RPCs
  /\ selErr \in Errs /\ result \in Errs
  /\ watcher \in {"none", "waiting", "exited"}
  /\ cronRunning \in BOOLEAN
  /\ fired \in 0..MaxTicks
  /\ inJob \in 0..MaxTicks /\ sending \in 0..MaxTicks
  /\ errBuf \in 0..ErrChCap

\* "Drain before close" (spec 4.6): when Run closes the job, the scheduler
\* is stopped and no tick goroutine is still inside job.Run or still holding
\* an error it has not delivered, so Close never overlaps a tick and no
\* tick can start afterwards.
DrainBeforeClose ==
  jobClosed => (~cronRunning /\ inJob = 0 /\ sending = 0)

\* A job error makes the activity stop: once a tick's job.Run returned an
\* error, the scheduler is eventually stopped, whatever Close and the
\* context do meanwhile (Run's select takes errCh, or has already left).
JobErrorStopsScheduler ==
  (sending > 0 \/ errBuf > 0) ~> ~cronRunning

\* Spec P4, "no overlapping ticks": at most one execution of the job runs
\* at any time.  The scheduler starts every firing in a goroutine of its
\* own, so this is checked to find out whether it holds.
NoOverlappingTicks ==
  inJob <= 1

\* Spec 4.6: Run ended by Close returns nil "unless a captured job error
\* exists".  Here: Run never returns through the done case of its select
\* while a job error captured in errCh is left unread.
ClosedRunReportsCapturedError ==
  (rpc = "returned" /\ selErr = "nil") => errBuf = 0

\* Spec 4.6 and 5: after Close or the cancellation of its context, Run
\* stops the scheduler, drains the in-flight ticks and returns.
RunReturnsAfterStop ==
  (ctxDone \/ doneClosed) ~> (rpc = "returned")
=============================================================================
