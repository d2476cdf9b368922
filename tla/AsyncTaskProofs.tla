--------------------------- MODULE AsyncTaskProofs ---------------------------
(***************************************************************************)
(* Proofs about AsyncTask.Run for every set of replicas and every number   *)
(* of signals: the composition is well typed, and with at least one       *)
(* replica Run returns only after a shutdown signal or the parent's        *)
(* cancellation.  The TaskGroup half of the argument is TaskGroupProofs,   *)
(* instantiated on the replicas and the shared context ctx2.               *)
(***************************************************************************)
EXTENDS AsyncTask, Sequences, TLAPS

TGP == INSTANCE TaskGroupProofs WITH Tasks <- Replicas, Waiters <- {Main},
                                     ctxErr <- ctx2Done

\* The Boolean variables outside the TaskGroup, and the other ones.
BoolOK ==
  /\ parentDone \in BOOLEAN /\ doneClosed \in BOOLEAN
  /\ trapped \in BOOLEAN /\ killed \in BOOLEAN

DataOK ==
  /\ atpc \in ATPCs
  /\ sg \in {"running", "exited"}
  /\ spc \in {"idle", "select", "returned"}
  /\ sresult \in SD!SResults
  /\ sigBuf \in 0..1
  /\ runs \in 0..1 /\ sigs \in 0..MaxSignals

(***************************************************************************)
(* How the two halves fit.  The runner swallows the task's error, so no    *)
(* Loop logs one, and every started replica is a Loop.  Run's Wait began  *)
(* after every replica had started, so it remembers all of them.  Shutdown *)
(* Run is called once: it returns exactly one result, and the goroutine    *)
(* cancels ctx2 only after a signal or because ctx2 was already done,      *)
(* which (before Run returns) only the parent's cancellation does.         *)
(***************************************************************************)
RunShape ==
  /\ logged = {}
  /\ \A t \in Replicas : pc[t] # "new" => kind[t] = "loop"
  /\ atpc = "looping" => wpc[Main] = "idle"
  /\ atpc # "looping" => snap[Main] = Replicas
  /\ atpc = "returned" => wpc[Main] = "returned"
  /\ (spc = "idle") <=> (runs = 0)
  /\ (spc = "returned") <=> (sresult # "none")
  /\ sresult = "ctx" => ctx2Done
  /\ ctx2Done => parentDone \/ sresult = "signal"

AInv == TGP!WInv /\ BoolOK /\ DataOK /\ RunShape

\* TaskGroup's assumptions hold of the replicas and of the one waiter.
LEMMA TGAssumptions == TGP!TasksAssumption /\ TGP!WaitersAssumption
  <1>1. IsFiniteSet({Main})
    \* The sequence <<Main>> lists the set.
    <2>1. /\ <<Main>> \in Seq({Main})
          /\ \A s \in {Main} : \E n \in 1..Len(<<Main>>) : <<Main>>[n] = s
      OBVIOUS
    <2>2. QED
      BY <2>1 DEF IsFiniteSet
  <1>2. TGP!TasksAssumption
    BY ReplicasAssumption DEF IsFiniteSet, TGP!IsFiniteSet, TGP!TasksAssumption
  <1>3. TGP!WaitersAssumption
    BY <1>1 DEF IsFiniteSet, TGP!IsFiniteSet, TGP!WaitersAssumption
  <1>4. QED
    BY <1>2, <1>3

\* Every step of Run is a step of its TaskGroup, or leaves it alone.
LEMMA StepTG == ctx2Done \in BOOLEAN /\ [Next]_vars => [TGP!Next]_TGP!vars
  <1> SUFFICES ASSUME ctx2Done \in BOOLEAN, [Next]_vars PROVE [TGP!Next]_TGP!vars
    OBVIOUS
  <1>1. ASSUME NEW t \in Replicas, StartLoop(t) PROVE TGP!Next
    BY <1>1 DEF StartLoop, TG!Loop, TGP!Next, TGP!Loop
  <1>2. ASSUME NEW t \in Replicas, LoopStep(t) PROVE TGP!Next
    <2>1. "nil" \in TGP!PossibleResults
      BY DEF TGP!PossibleResults, TGP!Results
    <2>2. QED
      BY <1>2, <2>1 DEF LoopStep, TG!LoopCheck, TG!LoopReturn, TG!Done,
                        TGP!Next, TGP!LoopCheck, TGP!LoopReturn, TGP!Done
  <1>3. CASE StartWait
    BY <1>3 DEF StartWait, TG!WaitStart, TG!Started, TGP!Next, TGP!WaitStart,
                TGP!Started
  <1>4. CASE WaitWake
    BY <1>4 DEF WaitWake, TG!WaitReturn, TGP!Next, TGP!WaitReturn
  <1>5. CASE CloseShutdown \/ ShutdownStep \/ SignalStep
    BY <1>5 DEF CloseShutdown, ShutdownStep, SignalStep, SD!Close, SD!RunStart,
                SD!Select, SD!Signal, tgOnly, TGP!vars
  <1>6. CASE ShutdownExit \/ ParentCancel
    \* ctx2 becomes done (the TaskGroup's Cancel) or stays as it was.
    <2>1. CASE ctx2Done' = ctx2Done
      BY <1>6, <2>1 DEF ShutdownExit, ParentCancel, tgOnly, TGP!vars
    <2>2. CASE ctx2Done' # ctx2Done
      <3>1. ~ctx2Done /\ ctx2Done'
        BY <1>6, <2>2, Zenon DEF ShutdownExit, ParentCancel
      <3>2. QED
        BY <1>6, <3>1 DEF ShutdownExit, ParentCancel, tgOnly, TGP!Next,
                          TGP!Cancel
    <2>3. QED
      BY <2>1, <2>2
  <1>7. CASE UNCHANGED vars
    BY <1>7 DEF vars, tgOnly, TGP!vars
  <1>8. QED
    BY <1>1, <1>2, <1>3, <1>4, <1>5, <1>6, <1>7 DEF Next

LEMMA InitAInv == Init => AInv
  <1> SUFFICES ASSUME Init PROVE AInv
    OBVIOUS
  <1>1. TGP!Init
    BY DEF Init, TG!Init, TGP!Init
  <1>2. TGP!WInv
    BY <1>1, TGAssumptions, TGP!InitIInv, TGP!InitWaitCore DEF TGP!WInv
  <1>3. BoolOK
    BY Zenon DEF Init, SD!SInit, BoolOK
  <1>4. DataOK
    BY MaxSignalsAssumption DEF Init, SD!SInit, DataOK, ATPCs, SD!SResults
  <1>5. RunShape
    BY DEF Init, TG!Init, SD!SInit, RunShape
  <1>6. QED
    BY <1>2, <1>3, <1>4, <1>5 DEF AInv

\* Every step keeps the four flags Boolean.
LEMMA NextBoolOK == BoolOK /\ [Next]_vars => BoolOK'
  BY Zenon DEF BoolOK, Next, vars, sdOnly, StartLoop, LoopStep, StartWait,
               CloseShutdown, WaitWake, ShutdownStep, SignalStep,
               ShutdownExit, ParentCancel, SD!Close, SD!RunStart, SD!Select,
               SD!Signal

LEMMA NextAInv == AInv /\ [Next]_vars => AInv'
  <1> SUFFICES ASSUME AInv, [Next]_vars PROVE AInv'
    OBVIOUS
  <1>0. ctx2Done \in BOOLEAN /\ wpc \in [{Main} -> TGP!WPCs]
    BY DEF AInv, TGP!WInv, TGP!IInv, TGP!ShapeOK
  <1>1. TGP!WInv'
    BY <1>0, StepTG, TGAssumptions, TGP!NextWInv DEF AInv
  <1>2. BoolOK'
    BY NextBoolOK DEF AInv
  <1>3. DataOK' /\ RunShape'
    <2> USE <1>0, MaxSignalsAssumption DEF AInv, BoolOK, DataOK, RunShape,
            ATPCs, SD!SResults, TGP!WPCs, TGP!WInv, TGP!IInv, TGP!ShapeOK
    <2>1. ASSUME NEW t \in Replicas, StartLoop(t) PROVE DataOK' /\ RunShape'
      BY <2>1 DEF StartLoop, TG!Loop, sdOnly
    <2>2. ASSUME NEW t \in Replicas, LoopStep(t) PROVE DataOK' /\ RunShape'
      BY <2>2 DEF LoopStep, TG!LoopCheck, TG!LoopReturn, TG!Done, sdOnly
    <2>3. CASE StartWait
      BY <2>3 DEF StartWait, TG!WaitStart, TG!Started, sdOnly
    <2>4. CASE WaitWake
      BY <2>4 DEF WaitWake, TG!WaitReturn, sdOnly
    <2>5. CASE CloseShutdown
      BY <2>5 DEF CloseShutdown, SD!Close, tgOnly
    <2>6. CASE ShutdownStep
      BY <2>6 DEF ShutdownStep, SD!RunStart, SD!Select, tgOnly
    <2>7. CASE SignalStep
      BY <2>7 DEF SignalStep, SD!Signal, tgOnly
    <2>8. CASE ShutdownExit
      BY <2>8 DEF ShutdownExit, tgOnly, sdOnly
    <2>9. CASE ParentCancel
      BY <2>9 DEF ParentCancel, tgOnly, sdOnly
    <2>10. CASE UNCHANGED vars
      BY <2>10 DEF vars, tgOnly, sdOnly
    <2>11. QED
      BY <2>1, <2>2, <2>3, <2>4, <2>5, <2>6, <2>7, <2>8, <2>9, <2>10 DEF Next
  <1>4. QED
    BY <1>1, <1>2, <1>3 DEF AInv

\* Every reachable state of Run, its TaskGroup and its Shutdown is well
\* typed, for any replicas and any number of signals.
THEOREM TypeCorrect == Spec => []TypeOK
  <1>1. AInv => TypeOK
    BY DEF AInv, BoolOK, DataOK, TypeOK, TGP!WInv, TGP!IInv, TGP!ShapeOK,
           TGP!WaitCore, TG!TypeOK, SD!STypeOK, TG!Kinds, TG!PCs, TG!WPCs,
           TGP!Kinds, TGP!PCs, TGP!WPCs
  <1>2. QED
    BY InitAInv, NextAInv, <1>1, PTL DEF Spec

(***************************************************************************)
(* The doc comment of AsyncTask.Run: with at least one replica, Run        *)
(* returns only after a shutdown signal or the parent's cancellation.      *)
(* Wait returned, so every replica's Loop ended; a Loop ends on a logged   *)
(* error or on ctx2's cancellation; the runner logs no error, and ctx2 is  *)
(* canceled only by the parent or after shutdown.Run returned the signal. *)
(* With no replica Wait returns at once and the claim fails (a hazard the *)
(* run with two replicas does not reach), hence the hypothesis.            *)
(***************************************************************************)
THEOREM ReturnsOnlyOnStopHolds ==
  ASSUME Replicas # {}
  PROVE  Spec => []ReturnsOnlyOnStop
  <1>1. AInv => ReturnsOnlyOnStop
    <2> SUFFICES ASSUME AInv, atpc = "returned"
                 PROVE  parentDone \/ sresult = "signal"
      BY DEF ReturnsOnlyOnStop
    <2>1. PICK t \in Replicas : TRUE
      OBVIOUS
    <2>2. pc[t] = "done"
      BY <2>1 DEF AInv, RunShape, TGP!WInv, TGP!WaitCore
    <2>3. t \in logged \/ ctx2Done
      BY <2>1, <2>2 DEF AInv, RunShape, TGP!WInv, TGP!IInv,
                        TGP!LoopExitReason
    <2>4. ctx2Done
      BY <2>3 DEF AInv, RunShape
    <2>5. QED
      BY <2>4 DEF AInv, RunShape
  <1>2. QED
    BY InitAInv, NextAInv, <1>1, PTL DEF Spec
=============================================================================
