-------------------------- MODULE MutexWithContext --------------------------
(***************************************************************************)
(* async.MutexWithContext (src/pkg/async/async.go): a lock whose Lock can  *)
(* fail on cancellation, built on golang.org/x/sync/semaphore.Weighted of  *)
(* size 1.  Lock is sem.Acquire(ctx, 1) and Unlock is sem.Release(1), so   *)
(* the model follows the semaphore's algorithm: a count `cur` and a FIFO   *)
(* queue of waiters, both guarded by the semaphore's internal mutex (each  *)
(* action below is one critical section of that mutex), a per-waiter      *)
(* `ready` channel closed by notifyWaiters, and a select between `ready`   *)
(* and ctx.Done() in the blocked caller.                                   *)
(*                                                                         *)
(* Every process in Procs is a goroutine that repeatedly calls Lock with a *)
(* fresh context and, when Lock succeeded, Unlock.                         *)
(***************************************************************************)
EXTENDS Naturals, Sequences

CONSTANTS Procs

ASSUME ProcsAssumption == Procs # {}

\* NewMutexWithContext: semaphore.NewWeighted(1); every call uses weight 1.
Size == 1

VARIABLES
  cur,       \* the semaphore's count of held tokens
  waiters,   \* the semaphore's FIFO list of blocked Acquire calls
  pc,        \* pc[p]: where goroutine p is
  canceled,  \* canceled[p]: the context of p's current Lock call is done
  result     \* result[p]: what p's last Lock call returned

vars == <<cur, waiters, pc, canceled, result>>

(***************************************************************************)
(* pc values: "idle" (not in Lock), "queued" (in waiters, blocked in the   *)
(* select), "granted" (ready was closed by notifyWaiters, p not yet        *)
(* scheduled), "holding" (Lock returned nil).                              *)
(***************************************************************************)
PCs == {"idle", "queued", "granted", "holding"}
Results == {"none", "ok", "canceled"}

\* The goroutines that own the token: granted or holding.
Owners == {p \in Procs : pc[p] \in {"granted", "holding"}}

Init ==
  /\ cur = 0
  /\ waiters = <<>>
  /\ pc = [p \in Procs |-> "idle"]
  /\ canceled = [p \in Procs |-> FALSE]
  /\ result = [p \in Procs |-> "none"]

\* Mutant: the free count is tested with >= 0 instead of >= n.
Fits_OffByOne(c) == Size - c >= 0

\* s.size-s.cur >= n: a weight-1 request fits when the count is c.
Fits(c) == Size - c >= 1

\* Mutant: a new waiter is pushed at the front of the list.
Enqueue_Front(q, p) == <<p>> \o q

\* s.waiters.PushBack(w).
Enqueue(q, p) == Append(q, p)

(***************************************************************************)
(* notifyWaiters, after the count became c: while the front waiter's       *)
(* weight fits, grant it (count + 1, pop it, close its ready channel).     *)
(* With size 1 and weight 1 at most one waiter fits.  `me` leaves the      *)
(* critical section in state `mine`.                                       *)
(***************************************************************************)
NotifyWaiters(c, q, me, mine) ==
  IF q # <<>> /\ Fits(c)
    THEN /\ cur' = c + 1
         /\ waiters' = Tail(q)
         /\ pc' = [pc EXCEPT ![me] = mine, ![Head(q)] = "granted"]
    ELSE /\ cur' = c
         /\ waiters' = q
         /\ pc' = [pc EXCEPT ![me] = mine]

(***************************************************************************)
(* Lock(ctx) = Acquire(ctx, 1), first critical section.  The caller's      *)
(* context may already be done (c): then Acquire fails even if the token   *)
(* is free.  Otherwise the fast path takes the token when it fits and      *)
(* nobody waits; else the call is pushed at the back of the queue.         *)
(***************************************************************************)
Lock(p) ==
  /\ pc[p] = "idle"
  /\ \/ /\ canceled' = [canceled EXCEPT ![p] = TRUE]
        /\ result' = [result EXCEPT ![p] = "canceled"]
        /\ UNCHANGED <<cur, waiters, pc>>
     \/ /\ canceled' = [canceled EXCEPT ![p] = FALSE]
        /\ IF Fits(cur) /\ waiters = <<>>
             THEN /\ cur' = cur + 1
                  /\ pc' = [pc EXCEPT ![p] = "holding"]
                  /\ result' = [result EXCEPT ![p] = "ok"]
                  /\ UNCHANGED waiters
             ELSE /\ waiters' = Enqueue(waiters, p)
                  /\ pc' = [pc EXCEPT ![p] = "queued"]
                  /\ UNCHANGED <<cur, result>>

\* The context of a blocked Lock call is canceled or its deadline passes.
Cancel(p) ==
  /\ pc[p] \in {"queued", "granted"}
  /\ ~canceled[p]
  /\ canceled' = [canceled EXCEPT ![p] = TRUE]
  /\ UNCHANGED <<cur, waiters, pc, result>>

\* The position of p in the queue.
IndexOf(q, p) == CHOOSE i \in 1..Len(q) : q[i] = p

\* The queue without p.
Remove(q, p) ==
  [i \in 1..(Len(q) - 1) |-> IF i < IndexOf(q, p) THEN q[i] ELSE q[i + 1]]

(***************************************************************************)
(* ctx.Done() wins the select while ready is still open: under the mutex,  *)
(* remove the waiter; if it was at the front and tokens are left, notify   *)
(* the others.  Lock returns ctx.Err().                                    *)
(***************************************************************************)
AbortQueued(p) ==
  /\ pc[p] = "queued"
  /\ canceled[p]
  /\ result' = [result EXCEPT ![p] = "canceled"]
  /\ LET q == Remove(waiters, p) IN
       IF Head(waiters) = p /\ Size > cur
         THEN NotifyWaiters(cur, q, p, "idle")
         ELSE /\ waiters' = q
              /\ pc' = [pc EXCEPT ![p] = "idle"]
              /\ UNCHANGED cur
  /\ UNCHANGED canceled

\* Mutant: the token granted after cancellation is not put back.
GrantedCanceled_Leak(p) ==
  /\ pc[p] = "granted"
  /\ canceled[p]
  /\ pc' = [pc EXCEPT ![p] = "idle"]
  /\ result' = [result EXCEPT ![p] = "canceled"]
  /\ UNCHANGED <<cur, waiters, canceled>>

\* Mutant: both arms of the select give the token back.
GrantedCanceled_DoubleRelease(p) ==
  /\ pc[p] = "granted"
  /\ canceled[p]
  /\ result' = [result EXCEPT ![p] = "canceled"]
  /\ NotifyWaiters(cur - 2, waiters, p, "idle")
  /\ UNCHANGED canceled

(***************************************************************************)
(* ready was closed but the context is done too.  Both arms of the select  *)
(* do the same: the done arm finds ready closed and puts the token back    *)
(* (cur -= n; notifyWaiters); the ready arm re-checks done and calls       *)
(* Release(n).  Lock returns ctx.Err().                                    *)
(***************************************************************************)
GrantedCanceled(p) ==
  /\ pc[p] = "granted"
  /\ canceled[p]
  /\ result' = [result EXCEPT ![p] = "canceled"]
  /\ NotifyWaiters(cur - 1, waiters, p, "idle")
  /\ UNCHANGED canceled

\* The ready arm with ctx not done: Lock returns nil.
Acquired(p) ==
  /\ pc[p] = "granted"
  /\ ~canceled[p]
  /\ pc' = [pc EXCEPT ![p] = "holding"]
  /\ result' = [result EXCEPT ![p] = "ok"]
  /\ UNCHANGED <<cur, waiters, canceled>>

\* Mutant: Release lowers the count but does not notify the waiters.
Unlock_NoNotify(p) ==
  /\ pc[p] = "holding"
  /\ cur' = cur - 1
  /\ pc' = [pc EXCEPT ![p] = "idle"]
  /\ result' = [result EXCEPT ![p] = "none"]
  /\ UNCHANGED <<waiters, canceled>>

\* Unlock = Release(1) by the holder: count - 1, then notifyWaiters.
Unlock(p) ==
  /\ pc[p] = "holding"
  /\ result' = [result EXCEPT ![p] = "none"]
  /\ NotifyWaiters(cur - 1, waiters, p, "idle")
  /\ UNCHANGED canceled

Next ==
  \E p \in Procs :
    \/ Lock(p)
    \/ Cancel(p)
    \/ AbortQueued(p)
    \/ GrantedCanceled(p)
    \/ Acquired(p)
    \/ Unlock(p)

(***************************************************************************)
(* Fairness: a scheduled goroutine runs (weak fairness of the steps that   *)
(* follow a wake-up), and a holder eventually calls Unlock (the critical   *)
(* sections of the callers are finite).  Calling Lock and canceling are    *)
(* the environment's choice.                                               *)
(***************************************************************************)
Fairness ==
  \A p \in Procs :
    /\ WF_vars(AbortQueued(p))
    /\ WF_vars(GrantedCanceled(p))
    /\ WF_vars(Acquired(p))
    /\ WF_vars(Unlock(p))

Spec == Init /\ [][Next]_vars
FairSpec == Spec /\ Fairness

-----------------------------------------------------------------------------
TypeOK ==
  /\ cur \in Nat
  /\ waiters \in Seq(Procs)
  /\ pc \in [Procs -> PCs]
  /\ canceled \in [Procs -> BOOLEAN]
  /\ result \in [Procs -> Results]

\* P2: at no time do two goroutines hold the mutex.
MutualExclusion ==
  \A p, q \in Procs : (pc[p] = "holding" /\ pc[q] = "holding") => p = q

\* No token is ever lost or duplicated, also when a cancellation races the
\* grant of the token: the count is held exactly by the one owner.
PermitAccounting ==
  /\ cur = 1 <=> Owners # {}
  /\ \A p, q \in Owners : p = q

\* No waiter is stranded: whenever a Lock call is queued the token is held,
\* so some later Release or abort will hand it on.
NoStrandedWaiter ==
  waiters # <<>> => cur = Size

\* A blocked Lock call always finishes: it acquires the mutex or, once its
\* context is done, fails (FIFO hand-off, no starvation).
LockResolves ==
  \A p \in Procs : (pc[p] = "queued") ~> (pc[p] \in {"holding", "idle"})
=============================================================================
