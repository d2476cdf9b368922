---------------------------- MODULE RunGroupProofs ----------------------------
(***************************************************************************)
(* Proofs about async.RunGroup for every number N of members: the type     *)
(* invariant, that every member is closed before the group's Run returns, *)
(* and that no member's error is lost.                                     *)
(***************************************************************************)
EXTENDS RunGroup, Counting, TLAPS

\* The members added to errgroup's WaitGroup and not yet done.
Live == {m \in Members : mpc[m] \in {"running", "closing", "closed"}}

\* The Boolean part of TypeOK, and the rest.
BoolOK == parentDone \in BOOLEAN /\ gctxDone \in BOOLEAN

DataOK ==
  /\ next \in 1..(N + 1)
  /\ gpc \in {"starting", "returned"}
  /\ result \in Errs
  /\ wg \in Nat
  /\ mpc \in [Members -> MPCs]
  /\ rerr \in [Members -> Errs]
  /\ firstErr \in 0..N

(***************************************************************************)
(* The inductive invariant.  The WaitGroup counter counts the live members *)
(* (Counting), so Wait's wg = 0 means that every member started by the     *)
(* loop of g.Go is done, closed included.  Members start in slice order.   *)
(* errOnce keeps the error of a member that is done, and every done member *)
(* with a non-nil error has made errOnce keep one.                         *)
(***************************************************************************)
Shape ==
  /\ \A m \in Members : mpc[m] = "idle" <=> m >= next
  /\ \A m \in Members : rerr[m] = "none" <=> mpc[m] \in {"idle", "running"}
  /\ firstErr # 0 =>
       /\ mpc[firstErr] = "done"
       /\ rerr[firstErr] \in {"err", "canceled"}
       /\ gctxDone
  /\ \A m \in Members : mpc[m] = "done" /\ rerr[m] # "nil" => firstErr # 0
  /\ gpc = "starting" => result = "none"
  /\ gpc = "returned" =>
       /\ next = N + 1
       /\ \A m \in Members : mpc[m] = "done"
       /\ result = IF firstErr = 0 THEN "nil" ELSE rerr[firstErr]

IInv == BoolOK /\ DataOK /\ Counts(wg, Live) /\ Shape

LEMMA TypeSplit == TypeOK <=> BoolOK /\ DataOK
  BY Zenon DEF TypeOK, BoolOK, DataOK

LEMMA InitIInv == Init => IInv
  <1> SUFFICES ASSUME Init PROVE IInv
    OBVIOUS
  <1>1. BoolOK
    BY Zenon DEF Init, BoolOK
  <1>2. DataOK
    BY NAssumption DEF Init, DataOK, Members, MPCs, Errs
  <1>3. Live = {}
    BY DEF Init, Live
  <1>4. Counts(wg, Live)
    BY <1>3, CountsEmpty DEF Init
  <1>5. Shape
    BY NAssumption DEF Init, Shape, Members
  <1>6. QED
    BY <1>1, <1>2, <1>4, <1>5 DEF IInv

\* Every step keeps the two flags Boolean.
LEMMA NextBoolOK == BoolOK /\ [Next]_vars => BoolOK'
  BY Zenon DEF BoolOK, Next, vars, GoNext, Wait, ParentCancel, MemberReturn,
               MemberClose, MemberExit

LEMMA NextIInv == IInv /\ [Next]_vars => IInv'
  <1> SUFFICES ASSUME IInv, [Next]_vars PROVE IInv'
    OBVIOUS
  <1>0. BoolOK'
    BY NextBoolOK DEF IInv
  <1> USE <1>0, NAssumption DEF IInv, BoolOK, DataOK, Shape, Members, MPCs, Errs
  <1>1. CASE GoNext
    \* Add(1) for rg[next], which is idle and so not live.
    <2>1. next \notin Live /\ next \in Members
      BY <1>1 DEF GoNext, Live
    <2>2. Live' = Live \cup {next}
      BY <1>1 DEF GoNext, Live
    <2>3. Counts(wg', Live')
      BY <1>1, <2>1, <2>2, CountsAdd DEF GoNext
    <2>4. QED
      BY <1>1, <2>3 DEF GoNext
  <1>2. CASE Wait
    \* wg = 0: nobody is live, and every member was started.
    <2>1. Live = {}
      BY <1>2, CountsZero DEF Wait
    <2>2. \A m \in Members : mpc[m] = "done"
      BY <1>2, <2>1 DEF Wait, Live
    <2>3. Live' = Live
      BY <1>2 DEF Wait, Live
    <2>4. QED
      BY <1>2, <2>1, <2>2, <2>3 DEF Wait
  <1>3. CASE ParentCancel
    <2>1. Live' = Live
      BY <1>3 DEF ParentCancel, Live
    <2>2. QED
      BY <1>3, <2>1 DEF ParentCancel
  <1>4. ASSUME NEW m \in Members, NEW res \in RunResults, MemberReturn(m, res)
        PROVE IInv'
    <2>1. Live' = Live
      BY <1>4 DEF MemberReturn, Live
    <2>2. res \in {"nil", "err", "canceled"}
      BY DEF RunResults
    <2>3. QED
      BY <1>4, <2>1, <2>2 DEF MemberReturn
  <1>5. ASSUME NEW m \in Members, MemberClose(m) PROVE IInv'
    <2>1. Live' = Live
      BY <1>5 DEF MemberClose, Live
    <2>2. QED
      BY <1>5, <2>1 DEF MemberClose
  <1>6. ASSUME NEW m \in Members, MemberExit(m) PROVE IInv'
    \* Done for a live member.
    <2>1. m \in Live
      BY <1>6 DEF MemberExit, Live
    <2>2. Live' = Live \ {m}
      BY <1>6 DEF MemberExit, Live
    <2>3. wg >= 1 /\ Counts(wg - 1, Live \ {m})
      BY <2>1, CountsRemove
    <2>4. Counts(wg', Live')
      BY <1>6, <2>2, <2>3 DEF MemberExit
    <2>5. DataOK'
      BY <1>6, <2>3 DEF MemberExit
    <2>6. Shape'
      BY <1>6 DEF MemberExit
    <2>7. QED
      BY <2>4, <2>5, <2>6
  <1>7. CASE UNCHANGED vars
    <2>1. Live' = Live
      BY <1>7 DEF vars, Live
    <2>2. QED
      BY <1>7, <2>1 DEF vars
  <1>8. QED
    BY <1>1, <1>2, <1>3, <1>4, <1>5, <1>6, <1>7 DEF Next

\* Every reachable state of the group is well typed; in particular the
\* WaitGroup counter never goes negative.
THEOREM TypeCorrect == Spec => []TypeOK
  <1>1. IInv => TypeOK
    BY TypeSplit DEF IInv
  <1>2. QED
    BY InitIInv, NextIInv, <1>1, PTL DEF Spec

\* Spec 4.2: every member's deferred RunClose has run when the group's Run
\* returns, whatever the members return and however they interleave.
THEOREM EveryMemberClosedHolds == Spec => []EveryMemberClosed
  <1>1. IInv => EveryMemberClosed
    BY DEF IInv, Shape, EveryMemberClosed
  <1>2. QED
    BY InitIInv, NextIInv, <1>1, PTL DEF Spec

\* The group's Run returns nil exactly when every member returned nil, and
\* otherwise the error of one of them.
THEOREM NoErrorLostHolds == Spec => []NoErrorLost
  <1>1. IInv => NoErrorLost
    <2> SUFFICES ASSUME IInv, gpc = "returned" PROVE NoErrorLost
      BY DEF NoErrorLost
    <2>1. \A m \in Members : mpc[m] = "done"
      BY DEF IInv, Shape
    <2>2. QED
      BY <2>1, NAssumption DEF IInv, Shape, DataOK, NoErrorLost, Members
  <1>2. QED
    BY InitIInv, NextIInv, <1>1, PTL DEF Spec
=============================================================================
