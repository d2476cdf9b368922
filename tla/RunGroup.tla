------------------------------ MODULE RunGroup ------------------------------
(***************************************************************************)
(* async.RunGroup (src/pkg/async/async.go 132-151): one call of the        *)
(* returned Runner's Run over N members, on golang.org/x/sync/errgroup.    *)
(*                                                                         *)
(* errgroup.WithContext derives a cancelable group context.  The caller's  *)
(* goroutine calls g.Go for the members in slice order (Add(1), then a     *)
(* goroutine) and then g.Wait().  A member's goroutine runs r.Run(ctx),    *)
(* then its deferred RunClose(ctx, r) (an error is only logged), and only  *)
(* then does errgroup see the member's error: the first non-nil one is     *)
(* kept (errOnce) and cancels the group context.  Wait waits for the      *)
(* counter to reach zero, cancels the context and returns the kept error.  *)
(*                                                                         *)
(* A member's Run returns nil or an error at any time, and a cancellation  *)
(* error only after the group context is done.                             *)
(***************************************************************************)
EXTENDS Naturals

CONSTANTS N   \* len(rg)

ASSUME NAssumption == N \in Nat \ {0}

Members == 1..N

VARIABLES
  parentDone, \* the caller's context is canceled
  gctxDone,   \* the group context is canceled
  next,       \* the index the loop of g.Go calls is at
  gpc,        \* the caller's goroutine: "starting", "returned"
  result,     \* the error RunGroup's Run returned
  wg,         \* errgroup's WaitGroup counter
  mpc,        \* mpc[m]: where member m's goroutine is
  rerr,       \* rerr[m]: what r.Run(ctx) of member m returned
  firstErr    \* the member whose error errOnce kept (0: none)

vars == <<parentDone, gctxDone, next, gpc, result, wg, mpc, rerr, firstErr>>

MPCs == {"idle", "running", "closing", "closed", "done"}
Errs == {"none", "nil", "err", "canceled"}

\* What one call of r.Run(ctx) can return.
RunResults == IF gctxDone THEN {"nil", "err", "canceled"} ELSE {"nil", "err"}

Init ==
  /\ parentDone = FALSE
  /\ gctxDone = FALSE
  /\ next = 1
  /\ gpc = "starting"
  /\ result = "none"
  /\ wg = 0
  /\ mpc = [m \in Members |-> "idle"]
  /\ rerr = [m \in Members |-> "none"]
  /\ firstErr = 0

\* Mutant: g.Go starts the goroutine without wg.Add(1).
GoNext_NoAdd ==
  /\ gpc = "starting"
  /\ next <= N
  /\ mpc' = [mpc EXCEPT ![next] = "running"]
  /\ next' = next + 1
  /\ UNCHANGED <<parentDone, gctxDone, gpc, result, wg, rerr, firstErr>>

\* One iteration of the loop: g.Go(...) for rg[next]: Add(1), go func.
GoNext ==
  /\ gpc = "starting"
  /\ next <= N
  /\ wg' = wg + 1
  /\ mpc' = [mpc EXCEPT ![next] = "running"]
  /\ next' = next + 1
  /\ UNCHANGED <<parentDone, gctxDone, gpc, result, rerr, firstErr>>

\* r.Run(ctx) returns in member m's goroutine; the deferred close follows.
MemberReturn(m, res) ==
  /\ mpc[m] = "running"
  /\ mpc' = [mpc EXCEPT ![m] = "closing"]
  /\ rerr' = [rerr EXCEPT ![m] = res]
  /\ UNCHANGED <<parentDone, gctxDone, next, gpc, result, wg, firstErr>>

\* The deferred RunClose(ctx, r); a close error is only logged.
MemberClose(m) ==
  /\ mpc[m] = "closing"
  /\ mpc' = [mpc EXCEPT ![m] = "closed"]
  /\ UNCHANGED <<parentDone, gctxDone, next, gpc, result, wg, rerr, firstErr>>

\* Mutant: the error is stored on every return, without errOnce and without
\* the err != nil test.
MemberExit_Overwrite(m) ==
  /\ mpc[m] = "closed"
  /\ mpc' = [mpc EXCEPT ![m] = "done"]
  /\ wg' = wg - 1
  /\ firstErr' = m
  /\ gctxDone' = (gctxDone \/ rerr[m] # "nil")
  /\ UNCHANGED <<parentDone, next, gpc, result, rerr>>

\* Mutant: the first error is kept but the group context is not canceled.
MemberExit_NoCancel(m) ==
  /\ mpc[m] = "closed"
  /\ mpc' = [mpc EXCEPT ![m] = "done"]
  /\ wg' = wg - 1
  /\ firstErr' = IF rerr[m] # "nil" /\ firstErr = 0 THEN m ELSE firstErr
  /\ UNCHANGED <<parentDone, gctxDone, next, gpc, result, rerr>>

(***************************************************************************)
(* The errgroup wrapper of member m: f() returned; a non-nil error is kept *)
(* if it is the first (errOnce) and cancels the group context; then the    *)
(* deferred g.done() (wg.Done).                                            *)
(***************************************************************************)
MemberExit(m) ==
  /\ mpc[m] = "closed"
  /\ mpc' = [mpc EXCEPT ![m] = "done"]
  /\ wg' = wg - 1
  /\ IF rerr[m] # "nil" /\ firstErr = 0
       THEN /\ firstErr' = m
            /\ gctxDone' = TRUE
       ELSE UNCHANGED <<firstErr, gctxDone>>
  /\ UNCHANGED <<parentDone, next, gpc, result, rerr>>

\* Mutant: Wait returns without waiting for the counter.
Wait_NoWait ==
  /\ gpc = "starting"
  /\ next > N
  /\ gctxDone' = TRUE
  /\ gpc' = "returned"
  /\ result' = IF firstErr = 0 THEN "nil" ELSE rerr[firstErr]
  /\ UNCHANGED <<parentDone, next, wg, mpc, rerr, firstErr>>

\* g.Wait(): once the counter is zero, cancel the context and return the
\* kept error.
Wait ==
  /\ gpc = "starting"
  /\ next > N
  /\ wg = 0
  /\ gctxDone' = TRUE
  /\ gpc' = "returned"
  /\ result' = IF firstErr = 0 THEN "nil" ELSE rerr[firstErr]
  /\ UNCHANGED <<parentDone, next, wg, mpc, rerr, firstErr>>

\* The caller's context is canceled, and with it the derived one.
ParentCancel ==
  /\ ~parentDone
  /\ parentDone' = TRUE
  /\ gctxDone' = TRUE
  /\ UNCHANGED <<next, gpc, result, wg, mpc, rerr, firstErr>>

Next ==
  \/ GoNext \/ Wait \/ ParentCancel
  \/ \E m \in Members :
       \/ \E res \in RunResults : MemberReturn(m, res)
       \/ MemberClose(m)
       \/ MemberExit(m)

(***************************************************************************)
(* Fairness: runnable goroutines run.  A member's Run is only assumed to   *)
(* return once the group context is done (cooperative cancellation, as    *)
(* the members of this repository, the service activities, implement it). *)
(***************************************************************************)
Fairness ==
  /\ WF_vars(GoNext) /\ WF_vars(Wait)
  /\ \A m \in Members :
       /\ WF_vars(gctxDone /\ \E res \in RunResults : MemberReturn(m, res))
       /\ WF_vars(MemberClose(m))
       /\ WF_vars(MemberExit(m))

Spec == Init /\ [][Next]_vars
FairSpec == Spec /\ Fairness

-----------------------------------------------------------------------------
TypeOK ==
  /\ parentDone \in BOOLEAN /\ gctxDone \in BOOLEAN
  /\ next \in 1..(N + 1)
  /\ gpc \in {"starting", "returned"}
  /\ result \in Errs
  /\ wg \in Nat
  /\ mpc \in [Members -> MPCs]
  /\ rerr \in [Members -> Errs]
  /\ firstErr \in 0..N

\* Spec 4.2: "regardless of success or failure, each Runner's Close is
\* invoked" -- and before the group's Run returns.
EveryMemberClosed ==
  gpc = "returned" => \A m \in Members : mpc[m] \in {"closed", "done"}

\* No member error is lost: the group's Run returns nil exactly when every
\* member's Run returned nil, and otherwise one of the members' errors.
NoErrorLost ==
  gpc = "returned" =>
    /\ (result = "nil") <=> (\A m \in Members : rerr[m] = "nil")
    /\ result # "nil" => \E m \in Members : rerr[m] = result

\* Spec 4.2 and scenario B: one member's failure stops the whole group --
\* the siblings see the canceled context, and the group's Run returns.
FailureStopsGroup ==
  (\E m \in Members : rerr[m] = "err") ~> (gpc = "returned")
=============================================================================
