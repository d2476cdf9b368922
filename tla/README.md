# Formal models of gobox's concurrency core

This directory holds TLA+ models of the concurrent parts of gobox, of the
CLI's log-file hook and of the env configuration readers. Each part
is checked with TLC on small instances, and the most important invariants
are proved with TLAPS for every instance. Everything here was written from
the Go source under `src/`. `PROJECT.json` maps each definition to the lines
it models, and lists every run, mutant, finding, hazard and theorem.

## 1. The system and its parts

gobox is a library. Its concurrent core is `src/pkg/async/async.go`, and the
service activities are built on top of it.

| Part | Source | State | Operations | Concurrency |
|---|---|---|---|---|
| TaskGroup | async.go 61-130 | WaitGroup counter, the group's goroutines | `Run`, `Loop`, `Wait` (plus package-level `Run`/`Loop` on `Default`) | goroutines started by `Run`/`Loop`; any number of waiters; one parent context |
| RunClose | async.go 121-130 | none | `RunClose(ctx, r)`: `r.Run`, then `Close(ctx)` or `io.Closer.Close()` | none of its own |
| RunGroup | async.go 132-157 | an errgroup | `RunGroup(rs).Run(ctx)` | one goroutine per member; the first error cancels the group context |
| MutexWithContext | async.go 183-207 | `semaphore.Weighted(1)`: count and FIFO waiter list | `Lock(ctx)`, `Unlock()` | callers block in a select between `ready` and `ctx.Done()` |
| Sleep / SleepUntil | async.go 167-181 | none | timer wrappers | none |
| Shutdown | part_006 64-105 | `done` channel, signal registration | `Run(ctx)`, `Close(ctx)` | a select over signal, ctx and done |
| CronJob activity | cronjob.go 18-95 | `done`, a cron scheduler, `errCh` (capacity 1) | `Run(ctx)`, `Close(ctx)` | a tick goroutine per firing, a ctx goroutine, Run's select |
| LogLevelSwitcher | loglevelswitcher.go 35-73 | `done`, the current log level | `Run(ctx)`, `Close(ctx)` | a signal loop with ctx and done exits |
| AsyncTask example | part_008 | a Shutdown and a TaskGroup | `Run(ctx)`: `replicas` Loops, then Wait | composes Shutdown with TaskGroup |
| WorkerPool | not under src/ (test only, part_006 13-60) | | | modelled later from the spec |
| logfile.Hook | cli/logfile/logfile_unix.go 28-221 | the log file, a pty, raw mode of stdin, a recorder, a signal channel of capacity 1 | `Hook()`: run self as a child, record its output, exit with its status | main goroutine, a pty copier goroutine, a signal forwarder goroutine, the child process, signals from the OS |
| env test overrides | env/readers.go 20-59, 107-154 | a map of config file names to fakes, under a mutex | `FakeTestConfig(WithError)`, its cleanup, `testReader` | parallel tests (`t.Parallel`) |
| env dev reader | env/readers.go 61-105 | none (reads files) | `devReader(fallback)(fileName)` | none |

The rest of the repository is sequential glue: app metadata, the telefork
client, trace wrappers, logging adapters, shuffler, orerr and events. It is
listed in `PROJECT.json` as not modelled.

The parts interact in these ways:
- `AsyncTask.Run` starts `Shutdown.Run` and N `Loop`s on one TaskGroup,
  then waits.
- `RunGroup` runs `RunClose` for every member.
- `CronJob.Run` calls `RunClose` on its job after draining the scheduler.
- A service activity is closed only by the deferred `RunClose` of its own
  `RunGroup` goroutine, once; `AsyncTask.Run` closes its Shutdown once,
  after Wait. No caller in the repository calls a `Close` twice, which would
  panic on the closed `done` channel.
- `logfile.Hook` is called by a CLI's main before anything else; `env`'s
  readers are installed as `cfg`'s default reader by `ApplyOverrides`
  (test and dev build tags).

## 2. Modules

### TaskGroup.tla (async.TaskGroup)

Each task in `Tasks` is one call of `Run` or `Loop` under a shared
cancelable context. Each waiter in `Waiters` is a goroutine that calls
`Wait` repeatedly.

State:
- `counter` is the WaitGroup counter.
- `pc[t]` is where task t's goroutine is.
- `wpc[w]` is where waiter w is inside `Wait`: blocked, woken by the Done
  that reached zero but not yet scheduled, or returned.
- `snap[w]` is a history variable: the tasks already added when w's Wait
  began.
- `logged` is the set of tasks whose error went to the log.

Actions:
- `Run` and `Loop` do `Add(1)`.
- `RunReturn` and `LoopReturn` model the runner returning, including the
  deferred `Done`.
- `LoopCheck` is the `for ctx.Err() == nil` test.
- `WaitStart` and `WaitReturn` model `Wait`.
- `Cancel` models the context's owner.

A runner returns nil or an error. It returns a cancellation error only after
the context was canceled.

### MutexWithContext.tla (async.MutexWithContext)

The model follows the algorithm of `golang.org/x/sync/semaphore.Weighted`
with size 1, because that is what `Lock` and `Unlock` call.

State:
- `cur` is the semaphore's count.
- `waiters` is the FIFO list.
- `pc[p]` is one of idle, queued, granted (the `ready` channel was closed
  but p has not yet run), or holding.
- `canceled[p]` says whether the context of p's current `Lock` call is done.

Each action is one critical section of the semaphore's internal mutex:
- `Lock` is Acquire's early `ctx.Done` check, then the fast path or enqueue.
- `AbortQueued` is the done arm of the select while still queued. It removes
  the waiter, and notifies others if it was at the front.
- `GrantedCanceled` covers both arms when `ready` and done are both ready.
  The token is put back, then `notifyWaiters` runs.
- `Acquired` is the ready arm.
- `Unlock` is `Release(1)`, called by the goroutine whose Lock returned
  nil, as every caller in the repository does. An Unlock by another
  goroutine would free the holder's token silently: `Release` panics only
  when the count would go negative. That misuse is listed as a hazard.

### RunGroup.tla (async.RunGroup, async.go 132-151)

This module models one call of the returned Runner's `Run` over `N`
members.

State:
- `next` is the member the loop of `g.Go` calls has reached.
- `wg` is errgroup's counter.
- `mpc[m]` is one of idle, running, closing (its `Run` returned and the
  deferred `RunClose` runs), closed, or done (errgroup saw the error and ran
  `Done`).
- `rerr[m]` is what member m's `Run` returned.
- `firstErr` is the member whose error `errOnce` kept.

Actions:
- `GoNext`: `Add(1)`, then the goroutine starts.
- `MemberReturn`, `MemberClose` and `MemberExit` are the member goroutine's
  steps. `MemberExit` records the first error, cancels the group context,
  then runs `Done`.
- `Wait`: wait for zero, cancel, and return the kept error.
- `ParentCancel`.

### CronJob.tla (cronjob.ServiceActivity, cronjob.go)

This module models one `Run` racing `Close` and the cancellation of its
context. robfig/cron v3 runs every firing in a goroutine of its own, so tick
goroutines are counted rather than named:
- `inJob` counts tick goroutines inside `job.Run`.
- `sending` counts tick goroutines blocked on `errCh <- err`.
- `errBuf` is the number of errors buffered in `errCh`, which has capacity 1.

Time is abstracted away: a firing may happen whenever the scheduler runs,
which is what a job slower than its period produces. `MaxTicks` bounds the
number of firings.

Actions:
- `RunStart`, which includes `AddJob`'s failure path.
- `CronStart`.
- `WatcherStop`: the goroutine that stops the scheduler on `ctx.Done()`.
- `Tick`, `JobReturn` and `Send`.
- `Select`: Run's three-way select.
- `Stop`.
- `DrainAndClose`: wait on Stop's context, `RunClose`, and the error
  precedence between the select's error and the close error.
- `Close` and `CancelCtx`.

### Shutdown.tla (async.Shutdown, part_006 63-105)

State:
- `trapped`: the three signals are registered with `signal.Notify`.
- `sigBuf`: the buffer of the current call's channel.
- `killed`: a signal arrived with nothing registered, and its default action
  ended the process.

`Run` may be called again (spec scenario C), so `runs` counts its calls.
`Select` is the three-way select; only its signal arm calls `signal.Reset`.
`Signal` is the runtime's delivery: into the registered channel (dropped
when its buffer is full), or by the default action.

### LogLevelSwitcher.tla (loglevelswitcher.go)

This module models the same signal-registration pattern with a toggle loop:
- each received signal picks Debug or Info from `debugLevelOn`, flips the
  flag and sets the logger's level (one step: the loop is one goroutine);
- the ctx and done arms return.

### AsyncTask.tla (examples/async_task, part_008 21-53)

This module composes the two components:
- `TG == INSTANCE TaskGroup WITH Tasks <- Replicas, Waiters <- {Main},
  ctxErr <- ctx2Done`;
- `SD == INSTANCE Shutdown WITH MaxRuns <- 1, ctxDone <- ctx2Done`.

They share `ctx2`. The module adds Run's own steps:
- the replica loop;
- `Wait`, then `shutdown.Close`;
- the shutdown goroutine's `if err != nil { cancel() }`;
- the parent's cancellation.

A runner's error is swallowed in the example, so `LoopStep` returns nil.
The constants assume finitely many replicas, since `replicas` is an int,
and a natural number `MaxSignals`.

### LogFile.tla (logfile.Hook, logfile_unix.go)

`Hook` re-runs the CLI as a child, records the child's output in a log file
named `..._inprog` until the end, and exits with the child's status. The
module has one variable per actor:
- `hpc` is where Hook's main goroutine is. `Setup` (lines 31-75) is the
  env-var check, the terminal test, the log directory, `os.Create` and the
  trace socket; each fallible step may return the error. On a terminal,
  `PtyStart`, `Attach` (stdin in raw mode, or its error), `GetSize` (the
  copier goroutine and the recorder start, or the error leaves stdin raw),
  `Notify` (signal.Notify and the forwarder), `SendWinch`, `Wait`,
  `ClosePty` and `AwaitExited` follow. Without one, `RunStart` and
  `RunWait` are `cmd.Run`. Both paths end in `RecShutdown` (plain path
  only), `CloseLog` and `Rename`, which either returns the rename error or
  calls `os.Exit(ExitCode(childRes) % 256)`.
- `copier` is the pty copier goroutine. `CopierFinish` runs once the child
  is gone and the pty hits EOF: it restores the terminal, shuts the
  recorder down and closes `exited`.
- `fwd` is the forwarder goroutine: `FwdStop` takes `<-exited`, calls
  `signal.Stop` and returns; `FwdHandle` takes a signal from `c` and
  forwards it (a resize, or a TERM that may kill the child).
- `c` is the signal channel, a sequence of length at most `ChanCap = 1`.
  `Deliver(s)` is the OS: while the signal is trapped it is a non-blocking
  send into `c` (dropped when `c` is full, as `signal.Notify` does);
  otherwise a TERM kills the CLI by the default action.
- `child`, `childRes`: `ChildExit` ends the child with success, failure or
  death by a signal; `Wait`/`RunWait` reap it.

`ExitCode` models lines 121-133: 0 for success, the exit status for a
failure (2 stands for any non-zero status), `-1` for a child killed by a
signal (`exec.ExitError.ExitCode()`), and the fallback 1 when the child
never ran. `% 256` is what the kernel keeps of `os.Exit`'s argument.

### TestOverrides.tla (env test overrides, readers.go)

Tests running in parallel are the processes. `data` is `overrides.data`,
a function whose domain is the set of keys present, as a Go map; every
method of `testOverrides` holds the mutex for its whole body, so each is
one step. `Fake(t, k)` is `FakeTestConfig` / `FakeTestConfigWithError`
with `addWithError`: on a key already present it either panics (ending
the test binary) or the test fails and its deferred cleanups delete the
keys it holds. `Cleanup(t, k)` is the returned cleanup func, and
`Read(t, k)` is `testReader`: the override if present, else the fallback
reader. A fake's value is abstracted to the test that made it. This
module has no run; its two properties are proved for every set of tests
and keys, in EnvProofs (section 5).

### DevReader.tla (env dev reader, readers.go 61-105)

A call of the reader looks the file up in the five `lookupPaths`, in
order. A path is its position; `readable` is the set of positions
`os.ReadFile` succeeds on, chosen by `Call`, which may also end with the
error of `user.Current` or `os.Getwd`. `LookupStep` is one iteration of the
loop (append an error and continue, or reset `errors` to nil and break),
`LookupEnd` the end of the range, `Check` lines 99-103. This module has no
run; `FirstReadableWins` is proved in EnvProofs (section 5).

## 3. Runs

Pass runs:

| Run | MC / cfg | Instance | Checks | States |
|---|---|---|---|---|
| taskgroup | MC_TaskGroup / TaskGroup.cfg | 3 tasks, 2 waiters | TypeOK, WaitSound, LoopExitReason, WaitReturnsAfterCancel | 77,826 |
| mutex | MC_MutexWithContext / MutexWithContext.cfg | 3 goroutines | TypeOK, MutualExclusion, PermitAccounting, NoStrandedWaiter, LockResolves | 788 |
| cronjob | MC_CronJob / CronJob.cfg | MaxTicks = 3 | TypeOK, DrainBeforeClose, JobErrorStopsScheduler | 1,060 |
| rungroup | MC_RunGroup / RunGroup.cfg | N = 3 | TypeOK, EveryMemberClosed, NoErrorLost, FailureStopsGroup | 1,890 |
| asynctask | MC_AsyncTask / AsyncTask.cfg | 2 replicas, 2 signals | TypeOK, ReturnsOnlyOnStop, StopsOnSignal | 650 |
| loglevel | MC_LogLevelSwitcher / LogLevelSwitcher.cfg | 4 signals | TypeOK, SwitcherStops | 113 |
| logfile | MC_LogFile / LogFile.cfg | MaxSignals = 2 | TypeOK, LogClosedAfterFlush, TerminalRestoredAtExit, ExitStatusPropagated | 649 |

Violation runs. Each checks one property that the spec or a doc comment
states, and TLC finds it violated:

| Run | cfg | Property |
|---|---|---|
| cron_overlap | CronOverlap.cfg | NoOverlappingTicks (spec P4) |
| cron_dropped_error | CronDroppedError.cfg | ClosedRunReportsCapturedError (spec 4.6) |
| cron_stuck_drain | CronStuckDrain.cfg | RunReturnsAfterStop (spec 4.6, 5) |
| shutdown_signals | ShutdownSignals.cfg | SignalsRestoredAfterRun (spec 7) |
| logfile_stuck_resize | LogFileStuckResize.cfg | InitialResizeDelivered (the comment "Initial resize of the PTY") |

What each property says:
- `WaitSound`: a goroutine returns from Wait only after every goroutine
  added before its Wait began has finished. This holds even when new tasks
  are added meanwhile, which is spec P1.
- `LoopExitReason`: a Loop ends only on a logged error or on cancellation.
- `WaitReturnsAfterCancel`: once the context is canceled, every blocked Wait
  returns.
- `MutualExclusion` is spec P2.
- `PermitAccounting`: the count is 1 exactly when one goroutine owns the
  token. This keeps the token from being lost when cancellation races the
  hand-off.
- `NoStrandedWaiter`: nobody is queued while the token is free.
- `LockResolves`: every blocked Lock eventually holds the mutex or fails.
- `DrainBeforeClose`: the job is closed only when the scheduler is stopped
  and no tick goroutine is inside `job.Run` or blocked on `errCh`.
- `JobErrorStopsScheduler`: a job error always ends with the scheduler
  stopped.
- `EveryMemberClosed`: every member's `RunClose` ran before the group
  returns (spec 4.2).
- `NoErrorLost`: the group returns nil iff every member returned nil, and
  otherwise returns one of their errors.
- `FailureStopsGroup`: one member's error brings the group's `Run` back
  (spec scenario B).
- `ReturnsOnlyOnStop`: AsyncTask's doc comment, "blocks until a shutdown
  signal ... or the parent context is canceled".
- `StopsOnSignal`: after a signal or the parent's cancellation, Run returns,
  unless a later signal ended the process.
- `SwitcherStops`: the switcher returns after cancellation or Close, even
  while signals keep arriving.
- `LogClosedAfterFlush`: the log file is closed (and renamed) only after
  the recorder was shut down, so the flushed logs and traces are in it. On
  the pty path this rests on `<-exited` waiting for the copier.
- `TerminalRestoredAtExit`: when Hook calls `os.Exit`, which runs no
  defers, stdin is no longer in raw mode.
- `ExitStatusPropagated`: Hook's exit status is 0 exactly when the child
  succeeded, for a child killed by a forwarded signal (`-1`, status 255)
  and for one that never ran (1) too.
- `InitialResizeDelivered` (violation run): Hook never waits on its
  initial `c <- SIGWINCH` once the forwarder has stopped.

`ReturnsOnlyOnStop` is checked with two replicas. With `replicas = 0` no
Loop is added, Wait returns at once and `AsyncTask.Run` returns without a
signal or cancellation, against its doc comment; `NewAsyncTask` accepts any
int. This edge is listed as a hazard.

Why the bounds are enough:
- Three tasks let a Run and a Loop interleave with a task added after a Wait
  began.
- Two waiters exercise the wake-up of several waiters by one Done, and a
  re-entered Wait.
- Three goroutines on the mutex give a queue of two behind a holder. That is
  the smallest queue in which an abort from the middle and an abort from the
  front of the list behave differently.
- Three firings for CronJob are enough for one buffered error plus a second
  failing tick blocked on the full `errCh` while a third is still in the
  job: the stuck drain needs two errors and the overlap needs two ticks.
- Three RunGroup members give a failing member with one sibling running and
  one not yet started.
- Two calls of `Shutdown.Run` and two signals exercise scenario C and a
  signal after a return.
- Two AsyncTask replicas give two Loops noticing the same cancellation.
- Two signals for logfile: one to fill `c` while the initial SIGWINCH
  waits, one more to be dropped or to kill the child. Every fallible step
  fails in some behaviour, and both the pty and the plain path are taken.

Fairness:
- Only goroutines that are runnable are assumed to be scheduled: woken
  waiters, granted or aborting lockers, loop checks, member and tick
  goroutines whose next step is enabled, Run's own goroutine, and the
  watcher.
- A holder eventually calls Unlock.
- A runner is assumed to return only once its context is canceled. This is
  cooperative cancellation, and every runner in the repository honours it.
- The environment is never forced to act: calls of Lock, Run, Loop and
  Wait, cancellation, Close, signals, and cron firings (time) may all simply
  not happen.

Every property of a passing run has a mutant in `PROJECT.json`. A mutant is
a plausible bug in the mapped code that TLC shows breaks that property, for
example:
- a missing `Add`, or a Done that wakes waiters without checking the
  counter;
- a loop that ignores its context;
- an off-by-one fit test, a LIFO queue, a token leaked or released twice on
  cancellation, or a Release without notify;
- a send that ignores `errCh`'s capacity, a select without the `errCh` arm,
  or a close without the drain;
- an errgroup that overwrites the first error or does not cancel;
- an inverted `err != nil` in AsyncTask's shutdown goroutine;
- a switcher loop without its ctx arm;
- a SIGWINCH send that ignores the channel's capacity, a Hook that closes
  the log without waiting for `exited`, a copier that does not restore the
  terminal, and an exit code without the fallback for a child that never
  ran.

LogFile's specification has no fairness and its runs do not check
deadlock: Hook ends in `os.Exit` or a returned error, and the one blocking
step the properties care about is shown by the violation run.

## 4. Findings

Each finding is a violation run. `PROJECT.json` has the details.

- **Ticks overlap** (cronjob.go 53). The job is added without a
  SkipIfStillRunning wrapper, and cron starts each firing in its own
  goroutine. Spec P4 says the job never runs concurrently with itself.
- **A captured job error can be dropped** (cronjob.go 65). When Close and a
  buffered job error are both ready, Go's select may choose done, and Run
  returns nil.
- **Run can hang in its drain** (cronjob.go 49). `errCh` has capacity 1 and
  is read at most once. A second failing tick blocks forever on its send,
  the scheduler's job waiter never reaches zero, and Run blocks on
  `<-ctx2.Done()` after Close or cancellation.
- **Signal handling is not restored** (part_006 94). Only the signal arm of
  `Shutdown.Run` calls `signal.Reset`. After a return through ctx or Close,
  SIGINT, SIGTERM and SIGHUP are swallowed by a channel nobody reads. The
  log level switcher has the same pattern.
- **Hook can hang on its initial resize** (logfile_unix.go 163).
  `forwardSignals` starts the forwarder and then sends SIGWINCH on `c`,
  whose one slot a signal may already fill. TLC's trace: the child exits at
  once, the copier finishes and closes `exited`, a SIGWINCH arrives and
  fills `c`, the forwarder's select takes `<-exited` and returns, and Hook
  blocks on the send forever. It never renames the log or exits.

## 5. Proofs (TLAPS)

The proofs are in eight modules:
- `MutexWithContextProofs`, `TaskGroupProofs`, `RunGroupProofs` and
  `LogFileProofs` each extend their component and TLAPS.
- `ServiceActivityProofs` extends CronJob and proves LogLevelSwitcher
  through an INSTANCE with its own context and done channel. Both are
  service activities of `src/pkg/serviceactivities`.
- `AsyncTaskProofs` extends AsyncTask. It reuses TaskGroupProofs through an
  INSTANCE on the replicas and the shared context.
- `EnvProofs` proves both env models through INSTANCE, since the two share
  no state.
- `Counting` holds the lemmas on the WaitGroup counter.

`Counting.tla`: the counters of `sync.WaitGroup`. The WaitGroup properties
rest on "the counter is the number of live goroutines". The installed
provers do not reason about `Cardinality`. The library's cardinality
theorems (FiniteSetTheorems) reach a RECURSIVE operator through Functions
and Folds, so no proof module may use them. Induction over the naturals
(NaturalsInduction) takes an operator parameter, which the provers cannot
instantiate.

Counting therefore states the fact directly: `Counts(n, S)` holds when some
function from `1..n` onto `S` is one-to-one. Four lemmas are proved
without induction, each by giving the new enumeration explicitly:
- `CountsEmpty`: `Counts(0, {})`.
- `CountsZero`: `Counts(0, S)` means `S = {}`.
- `CountsAdd`: `Add(1)` for a new element.
- `CountsRemove`: `Done` for a counted element. The counter was positive,
  and the last position fills the gap.

`MutexWithContextProofs.tla`, for every non-empty set of goroutines:
- `TypeCorrect`: `Spec => []TypeOK`.
- `MutualExclusionHolds`: `Spec => [](MutualExclusion /\ PermitAccounting)`.
- `NoStrandedWaiterHolds`: `Spec => []NoStrandedWaiter`.
None of these invariants is inductive alone. The inductive invariant is
`IInv == TypeOK /\ Core`, where `Core` says:
- the count is 0 or 1;
- the waiter list has no duplicates;
- a goroutine is queued exactly when it is in the list;
- `PermitAccounting` and `NoStrandedWaiter` hold.

The queue facts are needed because `AbortQueued` removes a waiter by
position, and `notifyWaiters` grants the head.

The proof rests on these lemmas:
- `AppendLemma`, `TailLemma` and `RemoveLemma`: list facts.
- `CoreFrame`: steps that leave cur, waiters and pc alone preserve Core.
- `ReleaseLemma`: a release followed by notifyWaiters preserves IInv.

`ServiceActivityProofs.tla`, CronJob part, for every `MaxTicks`:
- `TypeCorrect`.
- `DrainBeforeCloseHolds`.

The strengthening has three parts:
- `inJob + sending <= fired`, which bounds the tick goroutines;
- the scheduler is not running outside Run's select and stop phases, so no
  Tick follows the close;
- the job is closed only after Run returned, with no tick goroutine left.

`ServiceActivityProofs.tla`, LogLevelSwitcher part, for every `MaxSignals`
in Nat (a hypothesis of each statement, since the module is not run):
- `LLTypeCorrect`: c's buffer never holds more than its one slot.

The type invariant is inductive by itself. Its Boolean part is proved by
Zenon, the rest by SMT.

`TaskGroupProofs.tla`, for all sets of tasks and waiters:
- `LoopExitReasonHolds`. It is inductive together with the shape of the
  state: kinds are set once, the context stays canceled, and the log only
  grows.
- `TypeCorrect` (the counter never goes negative) and `WaitSoundHolds`.
  These rest on `WaitCore`, whose parts are:
  - `counter` counts `Live`, the goroutines in `check` or `running`;
  - a waiter remembers only started tasks;
  - a blocked waiter sees a non-zero counter;
  - a woken or returned waiter's snapshot is all done.

  The Done that reaches zero therefore finds every live goroutine gone
  (`CountsZero`); `Run` and `Loop` use `CountsAdd`, and `Done` uses
  `CountsRemove`.
`RunGroupProofs.tla`, for every number `N` of members:
- `TypeCorrect`, `EveryMemberClosedHolds` and `NoErrorLostHolds`.

The invariant says:
- `wg` counts the live members;
- members start in slice order, and `rerr` is set exactly when a member
  has returned;
- `firstErr` names a done member with a non-nil error, and every such
  member made errOnce keep one;
- once Wait returned, every member is done, and `result` is nil or the
  kept error.

`AsyncTaskProofs.tla`, for any replicas and any `MaxSignals`:
- `TypeCorrect`.
- `ReturnsOnlyOnStopHolds`, under the hypothesis `Replicas # {}`. With no
  replica the claim is false (section 3).

`StepTG` shows that every step of Run is a step of its TaskGroup or leaves
it alone. Either ctx2 is newly canceled (TaskGroup's `Cancel`) or it is
unchanged. So TaskGroupProofs' `WInv` holds of the instance, once its
ASSUMEs hold. That needs `ReplicasAssumption`, finiteness, which the int
`replicas` justifies, and `{Main}` being finite.

`RunShape` then adds the composition's facts:
- the runner logs no error;
- every started replica is a Loop;
- Wait began after every replica started, so it remembers all of them;
- Shutdown.Run is called once;
- the shutdown goroutine cancels ctx2 only when ctx2 was already done
  (only the parent does that before Run returns) or Run returned the
  signal.

When Run returns, Wait returned, so some replica's Loop is done. Its
context was canceled, because nothing was logged, and so the parent was
canceled or a signal came.

`LogFileProofs.tla`, for every `MaxSignals`:
- `TypeCorrect`, `LogClosedAfterFlushHolds`, `TerminalRestoredAtExitHolds`
  and `ExitStatusPropagatedHolds`.

The inductive invariant `IInv` splits the type invariant into its Boolean
part (proved by Zenon) and the rest (SMT), and adds `Phases`: what Hook's
earlier steps leave behind. Stdin is raw only between Attach and the
copier's end; once the copier is done the terminal is restored and the
recorder shut for good; the child is reaped before ptmx is closed; the
child's result is fixed once it exited; and on exit the status is
`ExitCode(childRes) % 256`. `NextIInv` has one step per action, and
Rename's step splits into its two outcomes.

`EnvProofs.tla`, on the instance of TestOverrides, for any sets of tests
and file names:
- `OverrideIsolationHolds`: while a test holds a fake of a key, the map
  holds that test's value. It is inductive with TypeOK: each held key maps
  to its holder, so the keys of two tests are disjoint and a failing
  test's deletions never touch another test's override.
- `ReadsOwnFakeHolds`: the action property that a read of a key the test
  faked returns its own value, from the same invariant.

`EnvProofs.tla`, on the instance of DevReader, for every set of readable
paths:
- `FirstReadableWinsHolds`, with the loop invariant that every path before
  `i` failed and `errors` holds one error for each.

Only TLC checks these:
- Liveness: `LockResolves`, `WaitReturnsAfterCancel`,
  `JobErrorStopsScheduler`, `FailureStopsGroup`, `StopsOnSignal` and
  `SwitcherStops`. The prover does not handle fairness or ENABLED here.

The proofs state "the counter is the number of live goroutines" in the
enumeration form `Counts` (a bijection from `1..counter`), not with
`Cardinality`: the two agree on finite sets only by an induction the
provers cannot instantiate.

## 6. Not modelled, and what remains

- Sleep and SleepUntil are timer wrappers with no state.
- WorkerPool's code is not under `src/`. It is to be modelled from the
  spec.
- app.go: `info()` reads environment variables and build info once,
  under a mutex; the marshalers format it. No concurrency beyond the mutex.
- telefork/client.go: a buffer of events posted as one JSON request by
  Close; sequential HTTP with no caller in the repository.
- trace/roundtripper.go: span wrappers around HTTP calls; the tracer is
  not under `src/`.
- The `ApplyOverrides` variants only install a reader.
- Formatting and test utilities: logging adapters, shuffler, orerr,
  events. The logfile tracer (part_004) is abstracted to LogFile's
  recorder state.
- The second `Close` of a service activity or Shutdown, and an `Unlock`
  by a non-holder, are caller misuse that no caller in the repository
  commits; they are listed as hazards with that note.
- Still to do:
  - WorkerPool;
  - proofs of the Shutdown and RunGroup safety properties that need no
    counting;
  - RunGroup's composition with a CronJob member.
