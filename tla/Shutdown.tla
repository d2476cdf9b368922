------------------------------ MODULE Shutdown ------------------------------
(***************************************************************************)
(* async.Shutdown (src/unnamed/part_006 63-105): a Runner/Closer that      *)
(* blocks until SIGINT/SIGTERM/SIGHUP, the cancellation of its context, or *)
(* Close.                                                                  *)
(*                                                                         *)
(* Run makes a channel c of capacity 1 and registers it with               *)
(* signal.Notify for the three signals, then selects on c, ctx.Done() and  *)
(* s.done.  Only the signal case calls signal.Reset; no path calls         *)
(* signal.Stop(c).  While some channel is registered for a signal the      *)
(* runtime delivers the signal to it (dropping it when the buffer is full) *)
(* instead of terminating the process; with no registration the signal     *)
(* terminates the process.  The three signals are one abstract signal.     *)
(*                                                                         *)
(* Run may be called again on the same Shutdown (spec scenario C); each    *)
(* call registers a fresh channel.  `sigBuf` is the buffer of the channel  *)
(* of the current call; channels of returned calls stay registered and     *)
(* absorb signals.                                                         *)
(***************************************************************************)
EXTENDS Naturals

CONSTANTS
  MaxRuns,     \* calls of Shutdown.Run
  MaxSignals   \* signals sent to the process

VARIABLES
  ctxDone,    \* the context passed to Run is done
  doneClosed, \* close(s.done) was executed
  spc,        \* Run's goroutine: "idle", "select", "returned"
  sresult,    \* what the last Run returned
  trapped,    \* the signals are registered with signal.Notify
  sigBuf,     \* signals buffered in the current call's channel c
  runs,       \* calls of Run so far
  sigs,       \* signals sent so far
  killed      \* a signal terminated the process (default handling)

svars == <<ctxDone, doneClosed, spc, sresult, trapped, sigBuf, runs, sigs,
           killed>>

SResults == {"none", "signal", "ctx", "nil"}

SInit ==
  /\ ctxDone = FALSE
  /\ doneClosed = FALSE
  /\ spc = "idle"
  /\ sresult = "none"
  /\ trapped = FALSE
  /\ sigBuf = 0
  /\ runs = 0
  /\ sigs = 0
  /\ killed = FALSE

\* Shutdown.Run, first part: c := make(chan os.Signal, 1); signal.Notify.
RunStart ==
  /\ spc \in {"idle", "returned"}
  /\ runs < MaxRuns
  /\ spc' = "select"
  /\ trapped' = TRUE
  /\ sigBuf' = 0
  /\ runs' = runs + 1
  /\ UNCHANGED <<ctxDone, doneClosed, sresult, sigs, killed>>

(***************************************************************************)
(* Run's select: any ready case.  A received signal resets the handling of *)
(* the three signals to the default and returns "signal <sig>"; ctx.Done() *)
(* returns ctx.Err(); s.done returns nil.  The last two leave the          *)
(* registration in place.                                                  *)
(***************************************************************************)
Select ==
  /\ spc = "select"
  /\ spc' = "returned"
  /\ \/ /\ sigBuf > 0
        /\ sresult' = "signal"
        /\ sigBuf' = 0
        /\ trapped' = FALSE
     \/ /\ ctxDone
        /\ sresult' = "ctx"
        /\ UNCHANGED <<sigBuf, trapped>>
     \/ /\ doneClosed
        /\ sresult' = "nil"
        /\ UNCHANGED <<sigBuf, trapped>>
  /\ UNCHANGED <<ctxDone, doneClosed, runs, sigs, killed>>

\* Shutdown.Close: close(s.done).  A second Close panics; callers call it
\* once.
Close ==
  /\ ~doneClosed
  /\ doneClosed' = TRUE
  /\ UNCHANGED <<ctxDone, spc, sresult, trapped, sigBuf, runs, sigs, killed>>

\* Mutant: a signal is queued in c even when its buffer is full.
Signal_NoDrop ==
  /\ sigs < MaxSignals
  /\ sigs' = sigs + 1
  /\ IF trapped
       THEN /\ sigBuf' = sigBuf + 1
            /\ UNCHANGED killed
       ELSE /\ killed' = TRUE
            /\ UNCHANGED sigBuf
  /\ UNCHANGED <<ctxDone, doneClosed, spc, sresult, trapped, runs>>

(***************************************************************************)
(* The operating system delivers a signal: to the registered channels      *)
(* (kept in c's buffer when it has room) or, with none registered, by the  *)
(* default action, which terminates the process.                           *)
(***************************************************************************)
Signal ==
  /\ sigs < MaxSignals
  /\ sigs' = sigs + 1
  /\ IF trapped
       THEN /\ sigBuf' = 1
            /\ UNCHANGED killed
       ELSE /\ killed' = TRUE
            /\ UNCHANGED sigBuf
  /\ UNCHANGED <<ctxDone, doneClosed, spc, sresult, trapped, runs>>

\* The owner of Run's context cancels it.
CancelCtx ==
  /\ ~ctxDone
  /\ ctxDone' = TRUE
  /\ UNCHANGED <<doneClosed, spc, sresult, trapped, sigBuf, runs, sigs,
                 killed>>

\* Nothing happens in a terminated process.
SNext ==
  /\ ~killed
  /\ \/ RunStart \/ Select \/ Close \/ Signal \/ CancelCtx

SSpec == SInit /\ [][SNext]_svars

-----------------------------------------------------------------------------
STypeOK ==
  /\ ctxDone \in BOOLEAN /\ doneClosed \in BOOLEAN
  /\ spc \in {"idle", "select", "returned"}
  /\ sresult \in SResults
  /\ trapped \in BOOLEAN /\ killed \in BOOLEAN
  /\ sigBuf \in 0..1
  /\ runs \in 0..MaxRuns /\ sigs \in 0..MaxSignals

\* Spec 7: signal trapping is undone when the shutdown is over, so that a
\* graceful shutdown that hangs can still be ended by a further signal:
\* once no call of Run is waiting, no signal is swallowed by a channel
\* nobody reads.
SignalsRestoredAfterRun ==
  spc = "returned" => ~trapped
=============================================================================
