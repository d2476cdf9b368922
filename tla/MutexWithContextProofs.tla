----------------------- MODULE MutexWithContextProofs -----------------------
(***************************************************************************)
(* Proofs about MutexWithContext: the type invariant, and mutual exclusion *)
(* with exact token accounting for every number of goroutines.             *)
(***************************************************************************)
EXTENDS MutexWithContext, TLAPS

\* A queue in which every goroutine appears at most once.
Injective(q) == \A i, j \in 1..Len(q) : q[i] = q[j] => i = j

\* x is somewhere in the queue q.
InSeq(q, x) == \E i \in 1..Len(q) : q[i] = x

(***************************************************************************)
(* The inductive invariant.  Mutual exclusion alone is not inductive: a    *)
(* Release hands the token to the head of the queue, so the proof must     *)
(* know that the count is 1 exactly when one goroutine owns the token,     *)
(* that the queue holds exactly the queued goroutines, each once, and that *)
(* nobody is queued while the token is free.                               *)
(***************************************************************************)
Core ==
  /\ cur \in 0..1
  /\ Injective(waiters)
  /\ \A p \in Procs : pc[p] = "queued" <=> InSeq(waiters, p)
  /\ PermitAccounting
  /\ NoStrandedWaiter

IInv == TypeOK /\ Core

-----------------------------------------------------------------------------
(* Lemmas on the three queue operations the semaphore uses. *)

\* PushBack of a goroutine not yet queued.
LEMMA AppendLemma ==
  ASSUME NEW S, NEW q \in Seq(S), Injective(q), NEW x \in S, ~InSeq(q, x)
  PROVE  /\ Append(q, x) \in Seq(S)
         /\ Injective(Append(q, x))
         /\ \A y : InSeq(Append(q, x), y) <=> (InSeq(q, y) \/ y = x)
  BY DEF Injective, InSeq

\* Popping the front waiter in notifyWaiters.
LEMMA TailLemma ==
  ASSUME NEW S, NEW q \in Seq(S), Injective(q), q # <<>>
  PROVE  /\ Tail(q) \in Seq(S)
         /\ Injective(Tail(q))
         /\ Head(q) \in S
         /\ InSeq(q, Head(q))
         /\ \A y : InSeq(Tail(q), y) <=> (InSeq(q, y) /\ y # Head(q))
  <1>1. Len(q) \in Nat /\ Len(q) >= 1
    OBVIOUS
  <1>2. /\ Tail(q) \in Seq(S) /\ Len(Tail(q)) = Len(q) - 1
        /\ \A i \in 1..Len(Tail(q)) : Tail(q)[i] = q[i + 1]
    BY <1>1
  <1>3. Head(q) = q[1] /\ Head(q) \in S /\ InSeq(q, Head(q))
    BY <1>1 DEF InSeq
  <1>4. Injective(Tail(q))
    BY <1>1, <1>2 DEF Injective
  <1>5. ASSUME NEW y
        PROVE  InSeq(Tail(q), y) <=> (InSeq(q, y) /\ y # Head(q))
    <2>1. InSeq(Tail(q), y) => (InSeq(q, y) /\ y # Head(q))
      BY <1>1, <1>2, <1>3 DEF InSeq, Injective
    <2>2. (InSeq(q, y) /\ y # Head(q)) => InSeq(Tail(q), y)
      <3> SUFFICES ASSUME NEW j \in 1..Len(q), q[j] = y, y # Head(q)
                   PROVE  InSeq(Tail(q), y)
        BY DEF InSeq
      <3>1. j # 1 /\ j - 1 \in 1..Len(Tail(q)) /\ Tail(q)[j - 1] = y
        BY <1>1, <1>2, <1>3
      <3>2. QED
        BY <3>1 DEF InSeq
    <2>3. QED
      BY <2>1, <2>2
  <1>6. QED
    BY <1>2, <1>3, <1>4, <1>5

\* Removing an aborted waiter from the middle of the queue.
LEMMA RemoveLemma ==
  ASSUME NEW S, NEW q \in Seq(S), Injective(q), NEW x, InSeq(q, x)
  PROVE  /\ Remove(q, x) \in Seq(S)
         /\ Injective(Remove(q, x))
         /\ \A y : InSeq(Remove(q, x), y) <=> (InSeq(q, y) /\ y # x)
  <1> DEFINE k == IndexOf(q, x)
  <1>1. k \in 1..Len(q) /\ q[k] = x
    BY DEF IndexOf, InSeq
  <1>2. Remove(q, x) = [i \in 1..(Len(q) - 1) |-> IF i < k THEN q[i] ELSE q[i + 1]]
    BY DEF Remove
  <1>3. Remove(q, x) \in Seq(S)
    BY <1>1, <1>2
  <1>4. Injective(Remove(q, x))
    BY <1>1, <1>2 DEF Injective
  <1>5. \A y : InSeq(Remove(q, x), y) <=> (InSeq(q, y) /\ y # x)
    <2> SUFFICES ASSUME NEW y
                 PROVE  InSeq(Remove(q, x), y) <=> (InSeq(q, y) /\ y # x)
      OBVIOUS
    <2>1. InSeq(Remove(q, x), y) => (InSeq(q, y) /\ y # x)
      BY <1>1, <1>2 DEF InSeq, Injective
    <2>2. (InSeq(q, y) /\ y # x) => InSeq(Remove(q, x), y)
      <3> SUFFICES ASSUME NEW j \in 1..Len(q), q[j] = y, y # x
                   PROVE  InSeq(Remove(q, x), y)
        BY DEF InSeq
      <3>1. CASE j < k
        BY <1>1, <1>2, <3>1 DEF InSeq
      <3>2. CASE j > k
        <4>1. j - 1 \in 1..(Len(q) - 1) /\ ~(j - 1 < k)
          BY <1>1, <3>2
        <4>2. Remove(q, x)[j - 1] = y
          BY <1>2, <4>1
        <4>3. QED
          BY <4>1, <4>2, <1>2 DEF InSeq
      <3>3. QED
        BY <1>1, <3>1, <3>2
    <2>3. QED
      BY <2>1, <2>2
  <1>6. QED
    BY <1>3, <1>4, <1>5

-----------------------------------------------------------------------------
(* The invariant holds initially and is preserved by every action. *)

\* Steps that leave the count, the queue and the pcs alone keep Core.
LEMMA CoreFrame ==
  ASSUME Core, cur' = cur, waiters' = waiters, pc' = pc
  PROVE  Core'
  BY DEF Core, Injective, InSeq, PermitAccounting, Owners, NoStrandedWaiter

LEMMA InitIInv == Init => IInv
  BY DEF Init, IInv, Core, TypeOK, Injective, InSeq, PermitAccounting,
         NoStrandedWaiter, Owners, PCs, Results

(***************************************************************************)
(* Release path shared by Unlock and GrantedCanceled: the owner of the     *)
(* token gives it back (count 1 -> 0) and notifyWaiters hands it to the    *)
(* head of the queue, if any.                                              *)
(***************************************************************************)
LEMMA ReleaseLemma ==
  ASSUME IInv, NEW p \in Procs, pc[p] \in {"granted", "holding"},
         NotifyWaiters(cur - 1, waiters, p, "idle"),
         UNCHANGED canceled, result' \in [Procs -> Results]
  PROVE  IInv'
  <1>1. cur = 1 /\ \A r \in Procs : pc[r] \in {"granted", "holding"} => r = p
    BY DEF IInv, Core, PermitAccounting, Owners
  <1>2. ~InSeq(waiters, p)
    BY DEF IInv, Core
  <1>3. CASE waiters # <<>>
    <2> DEFINE h == Head(waiters)
    <2>1. /\ Tail(waiters) \in Seq(Procs) /\ Injective(Tail(waiters))
          /\ h \in Procs /\ InSeq(waiters, h)
          /\ \A y : InSeq(Tail(waiters), y) <=> (InSeq(waiters, y) /\ y # h)
      BY <1>3, TailLemma DEF IInv, Core, TypeOK
    <2>2. pc[h] = "queued" /\ h # p
      BY <2>1, <1>2 DEF IInv, Core
    <2>3. /\ cur' = 1 /\ waiters' = Tail(waiters)
          /\ pc' = [pc EXCEPT ![p] = "idle", ![h] = "granted"]
      BY <1>1, <1>3 DEF NotifyWaiters, Fits, Size
    <2>4. \A r \in Procs : pc'[r] \in {"granted", "holding"} <=> r = h
      BY <1>1, <2>2, <2>3 DEF IInv, Core, TypeOK
    <2>5. TypeOK'
      BY <2>1, <2>3 DEF IInv, TypeOK, PCs
    <2>6. \A r \in Procs : pc'[r] = "queued" <=> InSeq(waiters', r)
      BY <1>2, <2>1, <2>2, <2>3 DEF IInv, Core, TypeOK
    <2>7. Owners' = {h}
      BY <2>1, <2>4 DEF Owners
    <2>8. PermitAccounting' /\ NoStrandedWaiter'
      BY <2>3, <2>7 DEF PermitAccounting, NoStrandedWaiter, Size
    <2>9. Core'
      <3>1. cur' \in 0..1 /\ Injective(waiters')
        BY <2>1, <2>3 DEF Injective
      <3>2. QED
        BY <2>6, <2>8, <3>1 DEF Core
    <2>10. QED
      BY <2>5, <2>9 DEF IInv
  <1>4. CASE waiters = <<>>
    <2>1. /\ cur' = 0 /\ waiters' = waiters /\ pc' = [pc EXCEPT ![p] = "idle"]
      BY <1>1, <1>4 DEF NotifyWaiters
    <2>2. \A r \in Procs : pc'[r] \notin {"granted", "holding"}
      BY <1>1, <2>1 DEF IInv, Core, TypeOK
    <2>3. QED
      BY <1>4, <2>1, <2>2
         DEF IInv, Core, TypeOK, PCs, Injective, InSeq, PermitAccounting, Owners,
             NoStrandedWaiter
  <1>5. QED
    BY <1>3, <1>4

LEMMA NextIInv == IInv /\ [Next]_vars => IInv'
  <1> SUFFICES ASSUME IInv, [Next]_vars PROVE IInv'
    OBVIOUS
  <1>1. ASSUME NEW p \in Procs, Lock(p) PROVE IInv'
    <2>0. pc[p] = "idle" /\ ~InSeq(waiters, p)
      BY <1>1 DEF Lock, IInv, Core
    <2>1. CASE /\ canceled' = [canceled EXCEPT ![p] = TRUE]
               /\ result' = [result EXCEPT ![p] = "canceled"]
               /\ UNCHANGED <<cur, waiters, pc>>
      <3>1. TypeOK'
        BY <2>1 DEF IInv, TypeOK, Results
      <3>2. QED
        BY <2>1, <3>1, CoreFrame DEF IInv
    <2>2. CASE /\ canceled' = [canceled EXCEPT ![p] = FALSE]
               /\ Fits(cur) /\ waiters = <<>>
               /\ cur' = cur + 1
               /\ pc' = [pc EXCEPT ![p] = "holding"]
               /\ result' = [result EXCEPT ![p] = "ok"]
               /\ UNCHANGED waiters
      <3>1. cur = 0 /\ Owners = {}
        BY <2>2 DEF Fits, Size, IInv, Core, PermitAccounting
      <3>2. \A r \in Procs : pc'[r] \in {"granted", "holding"} <=> r = p
        BY <2>2, <3>1 DEF Owners, IInv, TypeOK
      <3>3. QED
        BY <2>2, <3>1, <3>2 DEF IInv, Core, TypeOK, PCs, Results, Injective, InSeq,
                                PermitAccounting, Owners, NoStrandedWaiter
    <2>3. CASE /\ canceled' = [canceled EXCEPT ![p] = FALSE]
               /\ ~(Fits(cur) /\ waiters = <<>>)
               /\ waiters' = Enqueue(waiters, p)
               /\ pc' = [pc EXCEPT ![p] = "queued"]
               /\ UNCHANGED <<cur, result>>
      <3>1. /\ Append(waiters, p) \in Seq(Procs) /\ Injective(Append(waiters, p))
            /\ \A y : InSeq(Append(waiters, p), y) <=> (InSeq(waiters, y) \/ y = p)
        BY <2>0, AppendLemma DEF IInv, Core, TypeOK
      <3>2. cur = 1
        BY <2>3 DEF IInv, Core, Fits, Size, NoStrandedWaiter
      <3>3. waiters' = Append(waiters, p) /\ cur' = cur
        BY <2>3 DEF Enqueue
      <3>4. TypeOK'
        BY <2>3, <3>1, <3>3 DEF IInv, TypeOK, PCs
      <3>5. (\A r \in Procs : pc[r] = "queued" <=> InSeq(waiters, r))'
        BY <2>0, <2>3, <3>1, <3>3 DEF IInv, Core, TypeOK
      <3>6. Owners' = Owners
        BY <2>0, <2>3 DEF Owners, IInv, TypeOK
      <3>7. QED
        BY <3>1, <3>2, <3>3, <3>4, <3>5, <3>6
           DEF IInv, Core, PermitAccounting, NoStrandedWaiter, Size
    <2>4. QED
      BY <1>1, <2>1, <2>2, <2>3 DEF Lock
  <1>2. ASSUME NEW p \in Procs, Cancel(p) PROVE IInv'
    <2>1. TypeOK'
      BY <1>2 DEF Cancel, IInv, Core, TypeOK
    <2>2. QED
      BY <1>2, <2>1, CoreFrame DEF Cancel, IInv
  <1>3. ASSUME NEW p \in Procs, AbortQueued(p) PROVE IInv'
    <2>1. pc[p] = "queued" /\ InSeq(waiters, p)
      BY <1>3 DEF AbortQueued, IInv, Core
    <2>2. waiters # <<>> /\ cur = 1
      BY <2>1 DEF InSeq, IInv, Core, NoStrandedWaiter, Size
    <2>3. /\ waiters' = Remove(waiters, p) /\ pc' = [pc EXCEPT ![p] = "idle"]
          /\ cur' = cur /\ canceled' = canceled
          /\ result' = [result EXCEPT ![p] = "canceled"]
      BY <1>3, <2>1, <2>2 DEF AbortQueued, Size
    <2>4. /\ Remove(waiters, p) \in Seq(Procs) /\ Injective(Remove(waiters, p))
          /\ \A y : InSeq(Remove(waiters, p), y) <=> (InSeq(waiters, y) /\ y # p)
      BY <2>1, RemoveLemma DEF IInv, Core, TypeOK
    <2>5. TypeOK'
      BY <2>3, <2>4 DEF IInv, TypeOK, PCs, Results
    <2>6. (\A r \in Procs : pc[r] = "queued" <=> InSeq(waiters, r))'
      BY <2>1, <2>3, <2>4 DEF IInv, Core, TypeOK
    <2>7. Owners' = Owners
      BY <2>1, <2>3 DEF Owners, IInv, TypeOK
    <2>8. QED
      BY <2>2, <2>3, <2>4, <2>5, <2>6, <2>7
         DEF IInv, Core, PermitAccounting, NoStrandedWaiter, Size
  <1>4. ASSUME NEW p \in Procs, GrantedCanceled(p) PROVE IInv'
    <2>1. result' \in [Procs -> Results]
      BY <1>4 DEF GrantedCanceled, IInv, Core, TypeOK, Results
    <2>2. QED
      BY <1>4, <2>1, ReleaseLemma DEF GrantedCanceled
  <1>5. ASSUME NEW p \in Procs, Acquired(p) PROVE IInv'
    BY <1>5 DEF Acquired, IInv, Core, TypeOK, PCs, Results, InSeq, PermitAccounting,
                Owners, NoStrandedWaiter
  <1>6. ASSUME NEW p \in Procs, Unlock(p) PROVE IInv'
    <2>1. result' \in [Procs -> Results]
      BY <1>6 DEF Unlock, IInv, Core, TypeOK, Results
    <2>2. QED
      BY <1>6, <2>1, ReleaseLemma DEF Unlock
  <1>7. CASE UNCHANGED vars
    <2>1. TypeOK'
      BY <1>7 DEF vars, IInv, Core, TypeOK
    <2>2. QED
      BY <1>7, <2>1, CoreFrame DEF vars, IInv
  <1>8. QED
    BY <1>1, <1>2, <1>3, <1>4, <1>5, <1>6, <1>7 DEF Next

-----------------------------------------------------------------------------
(* The theorems. *)

\* The type invariant of the mutex model holds in every reachable state.
THEOREM TypeCorrect == Spec => []TypeOK
  <1>1. IInv => TypeOK
    BY DEF IInv, Core
  <1>2. QED
    BY InitIInv, NextIInv, <1>1, PTL DEF Spec

\* P2 for every number of goroutines: no two goroutines hold the mutex at
\* once, and the semaphore's count always matches the single owner, however
\* cancellations race the hand-off in Acquire and Release.
THEOREM MutualExclusionHolds == Spec => [](MutualExclusion /\ PermitAccounting)
  <1>1. IInv => MutualExclusion /\ PermitAccounting
    BY DEF IInv, Core, MutualExclusion, PermitAccounting, Owners
  <1>2. QED
    BY InitIInv, NextIInv, <1>1, PTL DEF Spec

\* The semaphore's count is always held by exactly the token's one owner:
\* no permit is lost or duplicated when a cancellation races the grant.
THEOREM PermitAccountingHolds == Spec => []PermitAccounting
  <1>1. IInv => PermitAccounting
    BY DEF IInv, Core
  <1>2. QED
    BY InitIInv, NextIInv, <1>1, PTL DEF Spec

\* Nobody is ever queued while the token is free.
THEOREM NoStrandedWaiterHolds == Spec => []NoStrandedWaiter
  <1>1. IInv => NoStrandedWaiter
    BY DEF IInv, Core
  <1>2. QED
    BY InitIInv, NextIInv, <1>1, PTL DEF Spec
=============================================================================
