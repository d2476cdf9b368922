------------------------- MODULE ServiceActivityProofs -------------------------
(***************************************************************************)
(* Proofs about the two service activities of src/pkg/serviceactivities.  *)
(* CronJob, for every bound MaxTicks: the type invariant, and that the job *)
(* is closed only after the scheduler stopped and every tick goroutine it  *)
(* started has ended.  LogLevelSwitcher, for every number of signals:     *)
(* the type invariant.  The two activities share no state: the switcher    *)
(* is an instance with its own context and done channel.                   *)
(***************************************************************************)
EXTENDS CronJob, TLAPS

(***************************************************************************)
(* The inductive invariant.  TypeOK alone is not inductive: the bounds on  *)
(* inJob and sending need that every tick goroutine was started by a       *)
(* firing.  DrainBeforeClose alone is not inductive either: it needs that  *)
(* the scheduler is not running outside the select and stop phases of Run  *)
(* (so that no Tick can follow the close), and that the job is closed only *)
(* once Run has returned.                                                  *)
(***************************************************************************)
\* The Boolean part of TypeOK, and the rest: the SMT backend proves the
\* second, Zenon the first.
BoolOK ==
  /\ ctxDone \in BOOLEAN /\ doneClosed \in BOOLEAN /\ jobClosed \in BOOLEAN
  /\ cronRunning \in BOOLEAN

DataOK ==
  /\ rpc \in RPCs
  /\ selErr \in Errs /\ result \in Errs
  /\ watcher \in {"none", "waiting", "exited"}
  /\ fired \in 0..MaxTicks
  /\ inJob \in 0..MaxTicks /\ sending \in 0..MaxTicks
  /\ errBuf \in 0..ErrChCap

IInv ==
  /\ BoolOK
  /\ DataOK
  /\ inJob + sending <= fired
  /\ rpc \in {"start", "starting", "draining", "returned"} => ~cronRunning
  /\ jobClosed => (rpc = "returned" /\ inJob = 0 /\ sending = 0)

LEMMA TypeSplit == TypeOK <=> BoolOK /\ DataOK
  BY Zenon DEF TypeOK, BoolOK, DataOK

LEMMA InitIInv == Init => IInv
  <1> SUFFICES ASSUME Init PROVE IInv
    OBVIOUS
  <1>1. BoolOK
    BY Zenon DEF Init, BoolOK
  <1>2. DataOK
    BY MaxTicksAssumption DEF Init, DataOK, RPCs, Errs, ErrChCap
  <1>3. QED
    BY <1>1, <1>2 DEF Init, IInv

\* Booleans are preserved by every step: each action assigns TRUE or FALSE
\* or leaves the variable alone.
LEMMA NextBoolOK == BoolOK /\ [Next]_vars => BoolOK'
  BY Zenon DEF BoolOK, Next, vars, RunStart, CronStart, WatcherStop, Tick,
              JobReturn, Send, Select, Stop, DrainAndClose, Close, CancelCtx

LEMMA NextIInv == IInv /\ [Next]_vars => IInv'
  <1> SUFFICES ASSUME IInv, [Next]_vars PROVE IInv'
    OBVIOUS
  <1>0. BoolOK'
    BY NextBoolOK DEF IInv
  <1> USE <1>0, MaxTicksAssumption DEF IInv, DataOK, RPCs, Errs, ErrChCap
  <1>1. CASE RunStart
    BY <1>1 DEF RunStart
  <1>2. CASE CronStart
    BY <1>2 DEF CronStart
  <1>3. CASE WatcherStop
    BY <1>3 DEF WatcherStop
  <1>4. CASE Tick
    \* The scheduler runs, so Run is in its select or stop phase and the
    \* job is not closed.
    BY <1>4 DEF Tick
  <1>5. CASE JobReturn
    BY <1>5 DEF JobReturn
  <1>6. CASE Send
    BY <1>6 DEF Send
  <1>7. CASE Select
    BY <1>7 DEF Select
  <1>8. CASE Stop
    BY <1>8 DEF Stop
  <1>9. CASE DrainAndClose
    <2>1. PICK err2 \in CloseResults :
            result' = IF selErr = "nil" THEN err2 ELSE selErr
      BY <1>9 DEF DrainAndClose
    <2>2. result' \in Errs
      BY <2>1 DEF CloseResults
    <2>3. QED
      BY <1>9, <2>2 DEF DrainAndClose
  <1>10. CASE Close
    BY <1>10 DEF Close
  <1>11. CASE CancelCtx
    BY <1>11 DEF CancelCtx
  <1>12. CASE UNCHANGED vars
    BY <1>12 DEF vars
  <1>13. QED
    BY <1>1, <1>2, <1>3, <1>4, <1>5, <1>6, <1>7, <1>8, <1>9, <1>10, <1>11,
       <1>12 DEF Next

\* Every reachable state of Run, its scheduler and its tick goroutines is
\* well typed: in particular errCh never holds more than its capacity and
\* at most MaxTicks tick goroutines are alive.
THEOREM TypeCorrect == Spec => []TypeOK
  <1>1. IInv => TypeOK
    BY TypeSplit DEF IInv
  <1>2. QED
    BY InitIInv, NextIInv, <1>1, PTL DEF Spec

\* Drain before close: when Run calls RunClose on the job, the scheduler is
\* stopped and no tick goroutine is inside job.Run or blocked on errCh, for
\* every bound on the number of firings.
THEOREM DrainBeforeCloseHolds == Spec => []DrainBeforeClose
  <1>1. IInv => DrainBeforeClose
    BY DEF IInv, DrainBeforeClose
  <1>2. QED
    BY InitIInv, NextIInv, <1>1, PTL DEF Spec

-----------------------------------------------------------------------------
(***************************************************************************)
(* loglevelswitcher.ServiceActivity.                                       *)
(***************************************************************************)
CONSTANT MaxSignals

VARIABLES llCtxDone, llDoneClosed, lpc, debugLevelOn, level, trapped, sigBuf,
          sigs, killed

LL == INSTANCE LogLevelSwitcher WITH ctxDone <- llCtxDone,
                                     doneClosed <- llDoneClosed

\* The Boolean part of the switcher's TypeOK, and the rest.
LLBoolOK ==
  /\ llCtxDone \in BOOLEAN /\ llDoneClosed \in BOOLEAN
  /\ debugLevelOn \in BOOLEAN /\ trapped \in BOOLEAN /\ killed \in BOOLEAN

LLDataOK ==
  /\ lpc \in {"idle", "loop", "returned"}
  /\ level \in {"info", "debug"}
  /\ sigBuf \in 0..1 /\ sigs \in 0..MaxSignals

\* TypeOK is inductive by itself.
LLInv == LLBoolOK /\ LLDataOK

LEMMA LLInitInv ==
  ASSUME MaxSignals \in Nat
  PROVE  LL!Init => LLInv
  <1> SUFFICES ASSUME LL!Init PROVE LLInv
    OBVIOUS
  <1>1. LLBoolOK
    BY Zenon DEF LL!Init, LLBoolOK
  <1>2. LLDataOK
    BY DEF LL!Init, LLDataOK
  <1>3. QED
    BY <1>1, <1>2 DEF LLInv

\* Every step keeps the five flags Boolean.
LEMMA LLNextBoolOK == LLBoolOK /\ [LL!Next]_LL!vars => LLBoolOK'
  BY Zenon DEF LLBoolOK, LL!Next, LL!vars, LL!RunStart, LL!Toggle, LL!Exit,
               LL!Close, LL!Signal, LL!CancelCtx

LEMMA LLNextInv ==
  ASSUME MaxSignals \in Nat
  PROVE  LLInv /\ [LL!Next]_LL!vars => LLInv'
  <1> SUFFICES ASSUME LLInv, [LL!Next]_LL!vars PROVE LLInv'
    OBVIOUS
  <1>1. LLBoolOK'
    BY LLNextBoolOK DEF LLInv
  <1>2. LLDataOK'
    BY DEF LLInv, LLDataOK, LL!Next, LL!vars, LL!RunStart, LL!Toggle,
           LL!Exit, LL!Close, LL!Signal, LL!CancelCtx
  <1>3. QED
    BY <1>1, <1>2 DEF LLInv

\* For every number of signals, the switcher's state is well typed: c's
\* buffer never holds more than its one slot.
THEOREM LLTypeCorrect ==
  ASSUME MaxSignals \in Nat
  PROVE  LL!Spec => []LL!TypeOK
  <1>1. LLInv => LL!TypeOK
    BY DEF LLInv, LLBoolOK, LLDataOK, LL!TypeOK
  <1>2. QED
    BY LLInitInv, LLNextInv, <1>1, PTL DEF LL!Spec
=============================================================================
