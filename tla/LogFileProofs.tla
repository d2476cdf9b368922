---------------------------- MODULE LogFileProofs ----------------------------
(***************************************************************************)
(* Proofs about logfile.Hook for every bound on the delivered signals: the *)
(* type invariant, and that Hook's os.Exit comes after the recorder's      *)
(* flush, with the terminal restored and the child's status.               *)
(***************************************************************************)
EXTENDS LogFile, TLAPS

\* The Boolean part of TypeOK, and the rest: Zenon proves the first, the
\* SMT backend the second.
BoolOK ==
  /\ isTerminal \in BOOLEAN /\ ptyOpen \in BOOLEAN
  /\ raw \in BOOLEAN /\ trapped \in BOOLEAN

DataOK ==
  /\ hpc \in HPCs
  /\ logFile \in {"none", "inprog", "closed", "renamed"}
  /\ child \in {"none", "running", "exited", "reaped"}
  /\ childRes \in ChildResults \cup {"none"}
  /\ copier \in {"none", "copying", "done"}
  /\ rec \in {"none", "running", "shut"}
  /\ fwd \in {"none", "loop", "stopped"}
  /\ c \in Seq(Sig) /\ Len(c) <= ChanCap
  /\ sigs \in 0..MaxSignals
  /\ exitStatus \in -1..255

\* The phases of Hook before the copier goroutine is started.
Before == {"start", "ptyStart", "attach", "getSize", "runStart", "runWait",
           "recShutdown"}

(***************************************************************************)
(* The inductive invariant.  The properties are about the last phases of   *)
(* Hook; they hold because of what the earlier phases leave behind: stdin  *)
(* is made raw only before the copier starts, and once the copier is done  *)
(* the terminal is restored and the recorder shut for good; the child is   *)
(* reaped before ptmx is closed; the child's result is fixed once it has   *)
(* exited.                                                                 *)
(***************************************************************************)
Phases ==
  /\ hpc \in Before => copier = "none"
  /\ hpc \in Before \ {"getSize"} => ~raw
  /\ hpc \in {"start", "ptyStart", "runStart"} => child = "none"
  /\ copier = "done" => ~raw /\ rec = "shut"
  /\ hpc \in {"closePty", "awaitExited"} => child = "reaped"
  /\ hpc = "recShutdown" => child \in {"none", "reaped"}
  /\ hpc \in {"closeLog", "rename", "exited"} =>
       rec = "shut" /\ ~raw /\ child \in {"none", "reaped"}
  /\ logFile \in {"closed", "renamed"} =>
       rec = "shut" /\ hpc \in {"rename", "exited", "returned", "killed"}
  /\ child \in {"none", "running"} => childRes = "none"
  /\ child \in {"exited", "reaped"} => childRes \in ChildResults
  /\ hpc = "exited" => exitStatus = ExitCode(childRes) % 256

IInv == BoolOK /\ DataOK /\ Phases

LEMMA TypeSplit == TypeOK <=> BoolOK /\ DataOK
  BY Zenon DEF TypeOK, BoolOK, DataOK

LEMMA InitIInv == Init => IInv
  <1> SUFFICES ASSUME Init PROVE IInv
    OBVIOUS
  <1>1. BoolOK
    BY Zenon DEF Init, BoolOK
  <1>2. DataOK
    BY MaxSignalsAssumption DEF Init, DataOK, HPCs, ChanCap
  <1>3. Phases
    BY DEF Init, Phases, Before
  <1>4. QED
    BY <1>1, <1>2, <1>3 DEF IInv

\* Every step assigns the Booleans TRUE, FALSE, an element of BOOLEAN, or
\* leaves them alone.
LEMMA NextBoolOK == BoolOK /\ [Next]_vars => BoolOK'
  BY Zenon DEF BoolOK, Next, vars, Setup, PtyStart, Attach, GetSize,
              CopierFinish, Notify, SendWinch, FwdStop, FwdHandle, Wait,
              ClosePty, AwaitExited, RunStart, RunWait, RecShutdown, CloseLog,
              Rename, ChildExit, Deliver

LEMMA NextIInv == IInv /\ [Next]_vars => IInv'
  <1> SUFFICES ASSUME IInv, [Next]_vars PROVE IInv'
    OBVIOUS
  <1>0. BoolOK'
    BY NextBoolOK DEF IInv
  <1> USE <1>0, MaxSignalsAssumption
      DEF IInv, BoolOK, DataOK, Phases, Before, HPCs, ChanCap, Sig,
          ChildResults, Gone
  <1>1. CASE Setup
    BY <1>1 DEF Setup
  <1>2. CASE PtyStart
    BY <1>2 DEF PtyStart
  <1>3. CASE Attach
    BY <1>3 DEF Attach
  <1>4. CASE GetSize
    BY <1>4 DEF GetSize
  <1>5. CASE CopierFinish
    BY <1>5 DEF CopierFinish
  <1>6. CASE Notify
    BY <1>6 DEF Notify
  <1>7. CASE SendWinch
    BY <1>7 DEF SendWinch
  <1>8. CASE FwdStop
    BY <1>8 DEF FwdStop
  <1>9. CASE FwdHandle
    BY <1>9 DEF FwdHandle
  <1>10. CASE Wait
    BY <1>10 DEF Wait
  <1>11. CASE ClosePty
    BY <1>11 DEF ClosePty
  <1>12. CASE AwaitExited
    BY <1>12 DEF AwaitExited
  <1>13. CASE RunStart
    BY <1>13 DEF RunStart
  <1>14. CASE RunWait
    BY <1>14 DEF RunWait
  <1>15. CASE RecShutdown
    BY <1>15 DEF RecShutdown
  <1>16. CASE CloseLog
    BY <1>16 DEF CloseLog
  <1>17. CASE Rename
    <2>1. CASE hpc' = "returned" /\ UNCHANGED <<logFile, exitStatus>>
      BY <1>17, <2>1 DEF Rename
    <2>2. CASE /\ hpc' = "exited" /\ logFile' = "renamed"
               /\ exitStatus' = ExitCode(childRes) % 256
      \* The exit status is computed from the child's final result.
      <3>1. childRes \in ChildResults \cup {"none"}
        OBVIOUS
      <3>2. exitStatus' \in -1..255
        BY <2>2, <3>1 DEF ExitCode
      <3>3. Phases'
        BY <1>17, <2>2 DEF Rename
      <3>4. DataOK'
        BY <1>17, <2>2, <3>2 DEF Rename
      <3>5. QED
        BY <3>3, <3>4
    <2>3. QED
      BY <1>17, <2>1, <2>2 DEF Rename
  <1>18. CASE ChildExit
    BY <1>18 DEF ChildExit
  <1>19. ASSUME NEW s \in Sig, Deliver(s) PROVE IInv'
    BY <1>19 DEF Deliver
  <1>20. CASE UNCHANGED vars
    BY <1>20 DEF vars
  <1>21. QED
    BY <1>1, <1>2, <1>3, <1>4, <1>5, <1>6, <1>7, <1>8, <1>9, <1>10, <1>11,
       <1>12, <1>13, <1>14, <1>15, <1>16, <1>17, <1>18, <1>19, <1>20 DEF Next

\* Every reachable state of Hook, its goroutines and the child is well
\* typed; in particular channel c never holds more than its one slot.
THEOREM TypeCorrect == Spec => []TypeOK
  <1>1. IInv => TypeOK
    BY TypeSplit DEF IInv
  <1>2. QED
    BY InitIInv, NextIInv, <1>1, PTL DEF Spec

\* The log file is closed and renamed only after the recorder has been
\* shut down, on the pty path and on the plain path alike.
THEOREM LogClosedAfterFlushHolds == Spec => []LogClosedAfterFlush
  <1>1. IInv => LogClosedAfterFlush
    BY DEF IInv, Phases, LogClosedAfterFlush
  <1>2. QED
    BY InitIInv, NextIInv, <1>1, PTL DEF Spec

\* When Hook calls os.Exit, the terminal is out of raw mode.
THEOREM TerminalRestoredAtExitHolds == Spec => []TerminalRestoredAtExit
  <1>1. IInv => TerminalRestoredAtExit
    BY DEF IInv, Phases, TerminalRestoredAtExit
  <1>2. QED
    BY InitIInv, NextIInv, <1>1, PTL DEF Spec

\* Hook exits with status 0 exactly when the child succeeded.
THEOREM ExitStatusPropagatedHolds == Spec => []ExitStatusPropagated
  <1>1. IInv => ExitStatusPropagated
    <2> SUFFICES ASSUME IInv, hpc = "exited"
                 PROVE  exitStatus = 0 <=> childRes = "ok"
      BY DEF ExitStatusPropagated
    <2>1. exitStatus = ExitCode(childRes) % 256
      BY DEF IInv, Phases
    <2>2. childRes \in ChildResults \cup {"none"}
      BY DEF IInv, DataOK
    <2>3. QED
      BY <2>1, <2>2 DEF ExitCode, ChildResults
  <1>2. QED
    BY InitIInv, NextIInv, <1>1, PTL DEF Spec
=============================================================================
