--------------------------- MODULE LogLevelSwitcher ---------------------------
(***************************************************************************)
(* loglevelswitcher.ServiceActivity                                        *)
(* (src/pkg/serviceactivities/loglevelswitcher/loglevelswitcher.go): Run  *)
(* registers a channel of capacity 1 for one signal with signal.Notify and *)
(* loops on a select: a received signal flips debugLevelOn and sets the    *)
(* logger to Debug or Info; ctx.Done() returns ctx.Err(); the done channel *)
(* closed by Close returns nil.  The registration is never stopped.  The   *)
(* logger is logrus.New(), whose level starts at Info.  Signals are sent   *)
(* by the operating system, at most MaxSignals of them.                    *)
(***************************************************************************)
EXTENDS Naturals

CONSTANTS MaxSignals

VARIABLES
  ctxDone,      \* Run's context is done
  doneClosed,   \* close(sa.done) was executed
  lpc,          \* Run's goroutine: "idle", "loop", "returned"
  debugLevelOn, \* sa.debugLevelOn
  level,        \* the logger's level
  trapped,      \* the signal is registered with signal.Notify
  sigBuf,       \* signals buffered in c
  sigs,         \* signals sent so far
  killed        \* the signal's default action terminated the process

vars == <<ctxDone, doneClosed, lpc, debugLevelOn, level, trapped, sigBuf,
          sigs, killed>>

\* New: debugLevelOn false; the logger at its default level.
Init ==
  /\ ctxDone = FALSE
  /\ doneClosed = FALSE
  /\ lpc = "idle"
  /\ debugLevelOn = FALSE
  /\ level = "info"
  /\ trapped = FALSE
  /\ sigBuf = 0
  /\ sigs = 0
  /\ killed = FALSE

\* Run: c := make(chan os.Signal, 1); signal.Notify(c, sa.signal).
RunStart ==
  /\ lpc = "idle"
  /\ lpc' = "loop"
  /\ trapped' = TRUE
  /\ UNCHANGED <<ctxDone, doneClosed, debugLevelOn, level, sigBuf, sigs,
                 killed>>

\* The case <-c: choose Debug when debugLevelOn was off (else Info), flip
\* debugLevelOn, then SetLevel.
Toggle ==
  /\ lpc = "loop"
  /\ sigBuf > 0
  /\ sigBuf' = 0
  /\ debugLevelOn' = ~debugLevelOn
  /\ level' = IF ~debugLevelOn THEN "debug" ELSE "info"
  /\ UNCHANGED <<ctxDone, doneClosed, lpc, trapped, sigs, killed>>

\* Mutant: a loop without the ctx.Done() case.
Exit_NoCtx ==
  /\ lpc = "loop"
  /\ doneClosed
  /\ lpc' = "returned"
  /\ UNCHANGED <<ctxDone, doneClosed, debugLevelOn, level, trapped, sigBuf,
                 sigs, killed>>

\* The cases <-ctx.Done() and <-sa.done: Run returns; c stays registered.
Exit ==
  /\ lpc = "loop"
  /\ ctxDone \/ doneClosed
  /\ lpc' = "returned"
  /\ UNCHANGED <<ctxDone, doneClosed, debugLevelOn, level, trapped, sigBuf,
                 sigs, killed>>

\* Close: close(s.done), called once.
Close ==
  /\ ~doneClosed
  /\ doneClosed' = TRUE
  /\ UNCHANGED <<ctxDone, lpc, debugLevelOn, level, trapped, sigBuf, sigs,
                 killed>>

\* Mutant: a signal is queued in c even when its buffer is full.
Signal_NoDrop ==
  /\ sigs < MaxSignals
  /\ sigs' = sigs + 1
  /\ IF trapped
       THEN /\ sigBuf' = sigBuf + 1
            /\ UNCHANGED killed
       ELSE /\ killed' = TRUE
            /\ UNCHANGED sigBuf
  /\ UNCHANGED <<ctxDone, doneClosed, lpc, debugLevelOn, level, trapped>>

\* The signal is delivered to c (dropped when its buffer is full) or, when
\* nothing is registered, its default action terminates the process.
Signal ==
  /\ sigs < MaxSignals
  /\ sigs' = sigs + 1
  /\ IF trapped
       THEN /\ sigBuf' = 1
            /\ UNCHANGED killed
       ELSE /\ killed' = TRUE
            /\ UNCHANGED sigBuf
  /\ UNCHANGED <<ctxDone, doneClosed, lpc, debugLevelOn, level, trapped>>

CancelCtx ==
  /\ ~ctxDone
  /\ ctxDone' = TRUE
  /\ UNCHANGED <<doneClosed, lpc, debugLevelOn, level, trapped, sigBuf, sigs,
                 killed>>

Next ==
  /\ ~killed
  /\ \/ RunStart \/ Toggle \/ Exit \/ Close \/ Signal \/ CancelCtx

\* Run's goroutine is scheduled whenever a case of its select is ready.
Fairness == WF_vars(RunStart) /\ WF_vars(Toggle) /\ WF_vars(Exit)

Spec == Init /\ [][Next]_vars
FairSpec == Spec /\ Fairness

-----------------------------------------------------------------------------
TypeOK ==
  /\ ctxDone \in BOOLEAN /\ doneClosed \in BOOLEAN
  /\ lpc \in {"idle", "loop", "returned"}
  /\ debugLevelOn \in BOOLEAN /\ trapped \in BOOLEAN /\ killed \in BOOLEAN
  /\ level \in {"info", "debug"}
  /\ sigBuf \in 0..1 /\ sigs \in 0..MaxSignals

\* Run returns once its context is canceled or Close was called, also
\* while signals keep arriving.
SwitcherStops ==
  (ctxDone \/ doneClosed) ~> (lpc = "returned" \/ killed)
=============================================================================
