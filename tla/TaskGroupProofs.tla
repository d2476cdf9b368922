--------------------------- MODULE TaskGroupProofs ---------------------------
(***************************************************************************)
(* Proofs about TaskGroup for every set of tasks and waiters: why a Loop   *)
(* goroutine ends.                                                         *)
(*                                                                         *)
(* Then the WaitGroup properties, TypeOK (the counter never goes           *)
(* negative) and WaitSound, from the fact that the counter counts the live *)
(* goroutines, stated with the enumerations of module Counting instead of *)
(* Cardinality.                                                            *)
(***************************************************************************)
EXTENDS TaskGroup, Counting, TLAPS

\* TypeOK without the counter.
ShapeOK ==
  /\ ctxErr \in BOOLEAN
  /\ kind \in [Tasks -> Kinds]
  /\ pc \in [Tasks -> PCs]
  /\ logged \subseteq Tasks
  /\ wpc \in [Waiters -> WPCs]
  /\ snap \in [Waiters -> SUBSET Tasks]

(***************************************************************************)
(* The inductive invariant.  LoopExitReason is inductive together with the *)
(* shape of the state: the kind of a task is set once, by the call that    *)
(* moves it out of "new"; the context stays canceled and the log only      *)
(* grows; the only steps that end a loop goroutine are the loop check of a *)
(* canceled context and an iteration whose runner returned a logged error. *)
(***************************************************************************)
IInv == ShapeOK /\ LoopExitReason

LEMMA InitIInv == Init => IInv
  <1> SUFFICES ASSUME Init PROVE IInv
    OBVIOUS
  <1>1. ctxErr \in BOOLEAN
    BY Zenon DEF Init
  <1>2. /\ kind \in [Tasks -> Kinds] /\ pc \in [Tasks -> PCs]
        /\ logged \subseteq Tasks
        /\ wpc \in [Waiters -> WPCs] /\ snap \in [Waiters -> SUBSET Tasks]
    BY DEF Init, Kinds, PCs, WPCs
  <1>3. LoopExitReason
    BY DEF Init, LoopExitReason
  <1>4. QED
    BY <1>1, <1>2, <1>3 DEF IInv, ShapeOK

\* Done keeps every waiter in one of Wait's states.
LEMMA DoneShape ==
  ASSUME ShapeOK, Done
  PROVE  wpc' \in [Waiters -> WPCs]
  BY DEF ShapeOK, Done, WPCs

LEMMA NextIInv == IInv /\ [Next]_vars => IInv'
  <1> SUFFICES ASSUME IInv, [Next]_vars PROVE IInv'
    OBVIOUS
  <1>1. CASE Cancel
    BY <1>1 DEF Cancel, IInv, ShapeOK, LoopExitReason
  <1>2. ASSUME NEW t \in Tasks, Run(t) PROVE IInv'
    BY <1>2 DEF Run, IInv, ShapeOK, LoopExitReason, Kinds, PCs
  <1>3. ASSUME NEW t \in Tasks, Loop(t) PROVE IInv'
    BY <1>3 DEF Loop, IInv, ShapeOK, LoopExitReason, Kinds, PCs
  <1>4. ASSUME NEW t \in Tasks, LoopCheck(t) PROVE IInv'
    <2>1. CASE ctxErr
      \* The loop ends because the context is canceled.
      <3>1. pc' = [pc EXCEPT ![t] = "done"] /\ Done
        BY <1>4, <2>1 DEF LoopCheck
      <3>2. wpc' \in [Waiters -> WPCs]
        BY <3>1, DoneShape DEF IInv
      <3>3. QED
        BY <1>4, <2>1, <3>1, <3>2 DEF LoopCheck, IInv, ShapeOK, LoopExitReason, PCs
    <2>2. CASE ~ctxErr
      BY <1>4, <2>2 DEF LoopCheck, IInv, ShapeOK, LoopExitReason, PCs
    <2>3. QED
      BY <2>1, <2>2
  <1>5. ASSUME NEW t \in Tasks, NEW res \in PossibleResults, RunReturn(t, res)
        PROVE  IInv'
    \* A Run task is not a Loop task: its kind stays "run".
    <2>1. wpc' \in [Waiters -> WPCs]
      BY <1>5, DoneShape DEF RunReturn, IInv
    <2>2. QED
      BY <1>5, <2>1 DEF RunReturn, IInv, ShapeOK, LoopExitReason, PCs
  <1>6. ASSUME NEW t \in Tasks, NEW res \in PossibleResults, LoopReturn(t, res)
        PROVE  IInv'
    <2>1. CASE res = "err"
      \* The loop ends on a runner error, which is logged.
      <3>1. wpc' \in [Waiters -> WPCs]
        BY <1>6, <2>1, DoneShape DEF LoopReturn, IInv
      <3>2. QED
        BY <1>6, <2>1, <3>1 DEF LoopReturn, IInv, ShapeOK, LoopExitReason, PCs
    <2>2. CASE res # "err"
      BY <1>6, <2>2 DEF LoopReturn, IInv, ShapeOK, LoopExitReason, PCs
    <2>3. QED
      BY <2>1, <2>2
  <1>7. ASSUME NEW w \in Waiters, WaitStart(w) PROVE IInv'
    BY <1>7 DEF WaitStart, IInv, ShapeOK, LoopExitReason, WPCs, Started
  <1>8. ASSUME NEW w \in Waiters, WaitReturn(w) PROVE IInv'
    BY <1>8 DEF WaitReturn, IInv, ShapeOK, LoopExitReason, WPCs
  <1>9. CASE UNCHANGED vars
    BY <1>9 DEF vars, IInv, ShapeOK, LoopExitReason
  <1>10. QED
    BY <1>1, <1>2, <1>3, <1>4, <1>5, <1>6, <1>7, <1>8, <1>9 DEF Next

\* Loop's goroutine ends only because its runner returned an error other
\* than the context's own (and that error was logged), or because the
\* context was canceled -- for any number of tasks and waiters.
THEOREM LoopExitReasonHolds == Spec => []LoopExitReason
  <1>1. IInv => LoopExitReason
    BY DEF IInv
  <1>2. QED
    BY InitIInv, NextIInv, <1>1, PTL DEF Spec

-----------------------------------------------------------------------------
\* The goroutines added to the WaitGroup and not yet done.
Live == {t \in Tasks : pc[t] \in {"check", "running"}}

(***************************************************************************)
(* The inductive core of WaitSound.  The counter counts the live           *)
(* goroutines, so the Done that brings it to zero, and a Wait that finds   *)
(* it zero, see every started goroutine done; a waiter only remembers     *)
(* started goroutines, and a done goroutine stays done.  A waiter is       *)
(* blocked only while the counter is not zero: the Done that reaches zero *)
(* wakes every blocked waiter.                                             *)
(***************************************************************************)
WaitCore ==
  /\ counter \in Nat
  /\ Counts(counter, Live)
  /\ \A w \in Waiters : snap[w] \subseteq Started
  /\ \A w \in Waiters : wpc[w] = "blocked" => counter # 0
  /\ \A w \in Waiters :
       wpc[w] \in {"woken", "returned"} => \A t \in snap[w] : pc[t] = "done"

WInv == IInv /\ WaitCore

LEMMA InitWaitCore == Init => WaitCore
  <1> SUFFICES ASSUME Init PROVE WaitCore
    OBVIOUS
  <1>1. Live = {}
    BY DEF Init, Live
  <1>2. QED
    BY <1>1, CountsEmpty DEF Init, WaitCore, Started

(***************************************************************************)
(* The deferred Done of a live goroutine t that has just ended keeps       *)
(* WaitCore: the counter drops with the set of live goroutines, and when  *)
(* it reaches zero no started goroutine is left running for the waiters   *)
(* it wakes.                                                               *)
(***************************************************************************)
LEMMA DoneKeepsWaitCore ==
  ASSUME IInv, WaitCore, NEW t \in Tasks, pc[t] \in {"check", "running"},
         pc' = [pc EXCEPT ![t] = "done"], Done, snap' = snap
  PROVE  WaitCore'
  <1> USE DEF IInv, ShapeOK, PCs, WPCs
  <1>1. t \in Live /\ Live' = Live \ {t}
    BY DEF Live
  <1>2. counter >= 1 /\ Counts(counter - 1, Live \ {t})
    BY <1>1, CountsRemove DEF WaitCore
  <1>3. counter' \in Nat /\ Counts(counter', Live')
    <2>1. counter' = counter - 1 /\ counter - 1 \in Nat
      BY <1>2 DEF Done, WaitCore
    <2>2. QED
      BY <1>1, <1>2, <2>1, Zenon
  <1>4. Started' = Started
    BY DEF Started
  <1>5. \A w \in Waiters : snap'[w] \subseteq Started'
    BY <1>4 DEF WaitCore
  <1>6. CASE counter - 1 = 0
    <2>1. Live' = {}
      BY <1>3, <1>6, CountsZero DEF Done
    <2>2. \A u \in Started' : pc'[u] = "done"
      BY <2>1 DEF Started, Live
    <2>3. \A w \in Waiters : wpc'[w] # "blocked"
      BY <1>6 DEF Done
    <2>4. QED
      BY <1>3, <1>5, <2>2, <2>3 DEF WaitCore
  <1>7. CASE counter - 1 # 0
    <2>1. wpc' = wpc
      BY <1>7 DEF Done
    <2>2. \A u \in Tasks : pc[u] = "done" => pc'[u] = "done"
      OBVIOUS
    <2>3. QED
      BY <1>3, <1>5, <1>7, <2>1, <2>2 DEF WaitCore, Done
  <1>8. QED
    BY <1>6, <1>7

LEMMA NextWaitCore == WInv /\ [Next]_vars => WaitCore'
  <1> SUFFICES ASSUME IInv, WaitCore, [Next]_vars PROVE WaitCore'
    BY DEF WInv
  <1> USE DEF IInv, ShapeOK, PCs, WPCs
  <1>1. CASE Cancel
    BY <1>1 DEF Cancel, WaitCore, Live, Started
  <1>2. ASSUME NEW t \in Tasks, Run(t) \/ Loop(t) PROVE WaitCore'
    \* Add(1) for a goroutine that was not live.
    <2>1. pc[t] = "new" /\ counter' = counter + 1 /\ UNCHANGED <<wpc, snap>>
      BY <1>2 DEF Run, Loop
    <2>2. pc'[t] \in {"check", "running"} /\ \A u \in Tasks \ {t} : pc'[u] = pc[u]
      BY <1>2 DEF Run, Loop
    <2>3. t \notin Live /\ Live' = Live \cup {t}
      BY <2>1, <2>2 DEF Live
    <2>4. Counts(counter', Live')
      BY <2>1, <2>3, CountsAdd DEF WaitCore
    <2>5. \A w \in Waiters : t \notin snap[w]
      BY <2>1 DEF WaitCore, Started
    <2>6. QED
      BY <2>1, <2>2, <2>4, <2>5 DEF WaitCore, Started
  <1>3. ASSUME NEW t \in Tasks, LoopCheck(t) PROVE WaitCore'
    <2>1. CASE ctxErr
      BY <1>3, <2>1, DoneKeepsWaitCore DEF LoopCheck
    <2>2. CASE ~ctxErr
      <3>1. Live' = Live /\ Started' = Started
        BY <1>3, <2>2 DEF LoopCheck, Live, Started
      <3>2. QED
        BY <1>3, <2>2, <3>1 DEF LoopCheck, WaitCore
    <2>3. QED
      BY <2>1, <2>2
  <1>4. ASSUME NEW t \in Tasks, NEW res \in PossibleResults, RunReturn(t, res)
        PROVE  WaitCore'
    BY <1>4, DoneKeepsWaitCore DEF RunReturn
  <1>5. ASSUME NEW t \in Tasks, NEW res \in PossibleResults, LoopReturn(t, res)
        PROVE  WaitCore'
    <2>1. CASE res = "err"
      BY <1>5, <2>1, DoneKeepsWaitCore DEF LoopReturn
    <2>2. CASE res # "err"
      <3>1. Live' = Live /\ Started' = Started
        BY <1>5, <2>2 DEF LoopReturn, Live, Started
      <3>2. QED
        BY <1>5, <2>2, <3>1 DEF LoopReturn, WaitCore
    <2>3. QED
      BY <2>1, <2>2
  <1>6. ASSUME NEW w \in Waiters, WaitStart(w) PROVE WaitCore'
    \* A zero counter means that every started goroutine is done.
    <2>1. counter = 0 => \A u \in Started : pc[u] = "done"
      <3>1. counter = 0 => Live = {}
        BY CountsZero DEF WaitCore
      <3>2. QED
        BY <3>1 DEF Live, Started
    <2>2. QED
      BY <1>6, <2>1 DEF WaitStart, WaitCore, Live, Started
  <1>7. ASSUME NEW w \in Waiters, WaitReturn(w) PROVE WaitCore'
    BY <1>7 DEF WaitReturn, WaitCore, Live, Started
  <1>8. CASE UNCHANGED vars
    BY <1>8 DEF vars, WaitCore, Live, Started
  <1>9. QED
    BY <1>1, <1>2, <1>3, <1>4, <1>5, <1>6, <1>7, <1>8 DEF Next

LEMMA NextWInv == WInv /\ [Next]_vars => WInv'
  BY NextIInv, NextWaitCore DEF WInv

\* Every reachable state of the task group is well typed; in particular the
\* WaitGroup counter never goes negative (a negative counter panics).
THEOREM TypeCorrect == Spec => []TypeOK
  <1>1. WInv => TypeOK
    BY DEF WInv, IInv, ShapeOK, WaitCore, TypeOK
  <1>2. QED
    BY InitIInv, InitWaitCore, NextWInv, <1>1, PTL DEF Spec, WInv

\* P1: a goroutine returns from Wait only after every Run/Loop goroutine
\* added before its Wait began has finished, for any tasks and waiters.
THEOREM WaitSoundHolds == Spec => []WaitSound
  <1>1. WInv => WaitSound
    BY DEF WInv, WaitCore, WaitSound
  <1>2. QED
    BY InitIInv, InitWaitCore, NextWInv, <1>1, PTL DEF Spec, WInv
=============================================================================
