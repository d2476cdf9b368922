------------------------------- MODULE LogFile -------------------------------
(***************************************************************************)
(* logfile.Hook (src/pkg/cli/logfile/logfile_unix.go): the CLI re-runs     *)
(* itself as a child process, records the child's output in a log file     *)
(* and exits with the child's status.  On a terminal the child gets a pty: *)
(* ptyOutputHook puts stdin in raw mode and starts a copier goroutine      *)
(* that copies the pty to stdout and the recorder, then restores the       *)
(* terminal, shuts the recorder down and closes the "exited" channel;      *)
(* forwardSignals registers a channel of capacity 1 for SIGINT, SIGTERM,   *)
(* SIGHUP and SIGWINCH, starts a forwarder goroutine and sends an initial  *)
(* SIGWINCH on that channel.  Without a terminal, cmd.Run runs the child   *)
(* with its output teed to the recorder.                                   *)
(*                                                                         *)
(* Processes: Hook's main goroutine (hpc), the copier goroutine, the       *)
(* forwarder goroutine, the child process, and the OS delivering signals   *)
(* to the parent.  Data is abstracted: the recorder is "running" or        *)
(* "shut" (its Shutdown flushes logs and traces), the log file is a        *)
(* phase, a signal is "WINCH" or "TERM" (any of SIGINT, SIGTERM, SIGHUP,   *)
(* which all are forwarded to the child and all kill an untrapped parent). *)
(* The goroutine copying stdin into the pty never ends and changes no      *)
(* state the properties read; it is left out.                              *)
(***************************************************************************)
EXTENDS Integers, Sequences

CONSTANTS
  MaxSignals   \* bound on the signals the OS delivers to the parent

ASSUME MaxSignalsAssumption == MaxSignals \in Nat

Sig == {"WINCH", "TERM"}

\* make(chan os.Signal, 1), line 141.
ChanCap == 1

\* What the child's run ends with: exit status 0, a non-zero exit status,
\* or death by a signal, for which exec.ExitError.ExitCode() is -1.
ChildResults == {"ok", "fail", "killed"}

\* The process is gone: os.Exit was called or an untrapped signal killed it.
Gone == {"exited", "killed"}

VARIABLES
  hpc,         \* Hook's main goroutine
  isTerminal,  \* stdin and stdout are terminals (line 37)
  logFile,     \* "none", "inprog", "closed", "renamed"
  child,       \* "none", "running", "exited" (not yet waited for), "reaped"
  childRes,    \* how the child's run ended, "none" before
  ptyOpen,     \* ptmx is open
  raw,         \* stdin is in raw mode
  copier,      \* the goroutine of ptyOutputHook: "none", "copying", "done"
  rec,         \* the recorder: "none", "running", "shut"
  fwd,         \* the goroutine of forwardSignals: "none", "loop", "stopped"
  trapped,     \* signal.Notify(c, ...) is in force
  c,           \* the signals buffered in channel c
  sigs,        \* signals delivered so far
  exitStatus   \* the status the parent exits with, -1 before os.Exit

vars == <<hpc, isTerminal, logFile, child, childRes, ptyOpen, raw, copier,
          rec, fwd, trapped, c, sigs, exitStatus>>

HPCs == {"start", "ptyStart", "attach", "getSize", "notify", "sendWinch",
         "wait", "closePty", "awaitExited", "runStart", "runWait", "recShutdown",
         "closeLog", "rename", "returned", "exited", "killed"}

TypeOK ==
  /\ hpc \in HPCs
  /\ isTerminal \in BOOLEAN
  /\ logFile \in {"none", "inprog", "closed", "renamed"}
  /\ child \in {"none", "running", "exited", "reaped"}
  /\ childRes \in ChildResults \cup {"none"}
  /\ ptyOpen \in BOOLEAN /\ raw \in BOOLEAN /\ trapped \in BOOLEAN
  /\ copier \in {"none", "copying", "done"}
  /\ rec \in {"none", "running", "shut"}
  /\ fwd \in {"none", "loop", "stopped"}
  /\ c \in Seq(Sig) /\ Len(c) <= ChanCap
  /\ sigs \in 0..MaxSignals
  /\ exitStatus \in -1..255

Init ==
  /\ hpc = "start" /\ isTerminal = FALSE
  /\ logFile = "none" /\ child = "none" /\ childRes = "none"
  /\ ptyOpen = FALSE /\ raw = FALSE
  /\ copier = "none" /\ rec = "none" /\ fwd = "none"
  /\ trapped = FALSE /\ c = <<>> /\ sigs = 0 /\ exitStatus = -1

(***************************************************************************)
(* Hook, lines 31-75: the child (the environment variable is set) returns  *)
(* at once; HomeDir, MkdirAll or os.Create failing returns before any file *)
(* exists; net.Listen failing returns with the _inprog file created and    *)
(* left behind; otherwise the branch on isTerminal is taken.               *)
(***************************************************************************)
Setup ==
  /\ hpc = "start"
  /\ \/ /\ hpc' = "returned"
        /\ UNCHANGED <<isTerminal, logFile>>
     \/ /\ logFile' = "inprog"
        /\ \/ /\ hpc' = "returned"
              /\ UNCHANGED isTerminal
           \/ /\ isTerminal' \in BOOLEAN
              /\ hpc' = IF isTerminal' THEN "ptyStart" ELSE "runStart"
  /\ UNCHANGED <<child, childRes, ptyOpen, raw, copier, rec, fwd, trapped,
                 c, sigs, exitStatus>>

\* Lines 77-81: pty.Start starts the child on a new pty, or fails.
PtyStart ==
  /\ hpc = "ptyStart"
  /\ \/ /\ hpc' = "returned"
        /\ UNCHANGED <<child, ptyOpen>>
     \/ /\ hpc' = "attach"
        /\ child' = "running" /\ ptyOpen' = TRUE
  /\ UNCHANGED <<isTerminal, logFile, childRes, raw, copier, rec, fwd,
                 trapped, c, sigs, exitStatus>>

(***************************************************************************)
(* ptyOutputHook's call of attachStdinToPty, lines 168-192: stdin is a     *)
(* terminal on this branch, so term.MakeRaw runs; when it fails Hook       *)
(* returns the error with the child already running on the pty.            *)
(***************************************************************************)
Attach ==
  /\ hpc = "attach"
  /\ \/ /\ hpc' = "returned"
        /\ UNCHANGED raw
     \/ /\ hpc' = "getSize"
        /\ raw' = TRUE
  /\ UNCHANGED <<isTerminal, logFile, child, childRes, ptyOpen, copier, rec,
                 fwd, trapped, c, sigs, exitStatus>>

(***************************************************************************)
(* Lines 194-221: term.GetSize failing returns the error without calling   *)
(* detachStdin (the terminal stays raw, the child keeps running); else the *)
(* recorder is created and the copier goroutine started.                   *)
(***************************************************************************)
GetSize ==
  /\ hpc = "getSize"
  /\ \/ /\ hpc' = "returned"
        /\ UNCHANGED <<copier, rec>>
     \/ /\ hpc' = "notify"
        /\ copier' = "copying" /\ rec' = "running"
  /\ UNCHANGED <<isTerminal, logFile, child, childRes, ptyOpen, raw, fwd,
                 trapped, c, sigs, exitStatus>>

\* Mutant: the copier goroutine forgets detachStdin().
CopierFinish_NoDetach ==
  /\ copier = "copying"
  /\ hpc \notin Gone
  /\ child \in {"exited", "reaped"} \/ ~ptyOpen
  /\ copier' = "done" /\ rec' = "shut"
  /\ UNCHANGED <<hpc, isTerminal, logFile, child, childRes, ptyOpen, raw, fwd,
                 trapped, c, sigs, exitStatus>>

(***************************************************************************)
(* The copier goroutine, lines 208-218: io.Copy from ptmx returns once a   *)
(* read fails, that is once the child has exited (its end of the pty is    *)
(* closed) or Hook has closed ptmx; then detachStdin restores the          *)
(* terminal, rec.Shutdown flushes, and finishedChan ("exited") is closed.  *)
(***************************************************************************)
CopierFinish ==
  /\ copier = "copying"
  /\ hpc \notin Gone
  /\ child \in {"exited", "reaped"} \/ ~ptyOpen
  /\ copier' = "done" /\ raw' = FALSE /\ rec' = "shut"
  /\ UNCHANGED <<hpc, isTerminal, logFile, child, childRes, ptyOpen, fwd,
                 trapped, c, sigs, exitStatus>>

\* forwardSignals, lines 140-160: make(chan os.Signal, 1), signal.Notify
\* and the start of the forwarder goroutine.
Notify ==
  /\ hpc = "notify"
  /\ hpc' = "sendWinch"
  /\ trapped' = TRUE /\ fwd' = "loop"
  /\ UNCHANGED <<isTerminal, logFile, child, childRes, ptyOpen, raw, copier,
                 rec, c, sigs, exitStatus>>

\* Mutant: the send does not wait for room in c.
SendWinch_NoWait ==
  /\ hpc = "sendWinch"
  /\ c' = Append(c, "WINCH") /\ hpc' = "wait"
  /\ UNCHANGED <<isTerminal, logFile, child, childRes, ptyOpen, raw, copier,
                 rec, fwd, trapped, sigs, exitStatus>>

\* Line 163: c <- syscall.SIGWINCH blocks while the buffer of c is full.
SendWinch ==
  /\ hpc = "sendWinch"
  /\ Len(c) < ChanCap
  /\ c' = Append(c, "WINCH") /\ hpc' = "wait"
  /\ UNCHANGED <<isTerminal, logFile, child, childRes, ptyOpen, raw, copier,
                 rec, fwd, trapped, sigs, exitStatus>>

(***************************************************************************)
(* The forwarder's select, lines 144-159: with "exited" closed it may stop *)
(* (signal.Stop(c) and return); with a signal in c it may take it.  When   *)
(* both are ready, Go picks either.  A SIGWINCH resizes the pty; any other *)
(* signal goes to the child, which may die of it or handle it.             *)
(***************************************************************************)
FwdStop ==
  /\ fwd = "loop" /\ copier = "done"
  /\ hpc \notin Gone
  /\ fwd' = "stopped" /\ trapped' = FALSE
  /\ UNCHANGED <<hpc, isTerminal, logFile, child, childRes, ptyOpen, raw,
                 copier, rec, c, sigs, exitStatus>>

FwdHandle ==
  /\ fwd = "loop" /\ c # <<>>
  /\ hpc \notin Gone
  /\ c' = Tail(c)
  /\ \/ UNCHANGED <<child, childRes>>
     \/ /\ Head(c) = "TERM" /\ child = "running"
        /\ child' = "exited" /\ childRes' = "killed"
  /\ UNCHANGED <<hpc, isTerminal, logFile, ptyOpen, raw, copier, rec, fwd,
                 trapped, sigs, exitStatus>>

\* Lines 93-94: cmd.Wait returns once the child has exited.
Wait ==
  /\ hpc = "wait" /\ child = "exited"
  /\ hpc' = "closePty" /\ child' = "reaped"
  /\ UNCHANGED <<isTerminal, logFile, childRes, ptyOpen, raw, copier, rec,
                 fwd, trapped, c, sigs, exitStatus>>

\* Lines 96-98: ptmx.Close(), best effort.
ClosePty ==
  /\ hpc = "closePty"
  /\ hpc' = "awaitExited" /\ ptyOpen' = FALSE
  /\ UNCHANGED <<isTerminal, logFile, child, childRes, raw, copier, rec, fwd,
                 trapped, c, sigs, exitStatus>>

\* Mutant: Hook goes on without <-exited.
AwaitExited_NoWait ==
  /\ hpc = "awaitExited"
  /\ hpc' = "closeLog"
  /\ UNCHANGED <<isTerminal, logFile, child, childRes, ptyOpen, raw, copier,
                 rec, fwd, trapped, c, sigs, exitStatus>>

\* Line 99: <-exited waits for the copier goroutine to flush.
AwaitExited ==
  /\ hpc = "awaitExited" /\ copier = "done"
  /\ hpc' = "closeLog"
  /\ UNCHANGED <<isTerminal, logFile, child, childRes, ptyOpen, raw, copier,
                 rec, fwd, trapped, c, sigs, exitStatus>>

(***************************************************************************)
(* Lines 100-106, no terminal: newRecorder, then cmd.Run starts the child  *)
(* (or fails to start it: cmdErr is not an exec.ExitError) and waits.      *)
(***************************************************************************)
RunStart ==
  /\ hpc = "runStart"
  /\ rec' = "running"
  /\ \/ /\ hpc' = "recShutdown"
        /\ UNCHANGED child
     \/ /\ hpc' = "runWait"
        /\ child' = "running"
  /\ UNCHANGED <<isTerminal, logFile, childRes, ptyOpen, raw, copier, fwd,
                 trapped, c, sigs, exitStatus>>

\* Line 106: cmd.Run returns once the child has exited.
RunWait ==
  /\ hpc = "runWait" /\ child = "exited"
  /\ hpc' = "recShutdown" /\ child' = "reaped"
  /\ UNCHANGED <<isTerminal, logFile, childRes, ptyOpen, raw, copier, rec,
                 fwd, trapped, c, sigs, exitStatus>>

\* Lines 108-109: rec.Shutdown().
RecShutdown ==
  /\ hpc = "recShutdown"
  /\ hpc' = "closeLog" /\ rec' = "shut"
  /\ UNCHANGED <<isTerminal, logFile, child, childRes, ptyOpen, raw, copier,
                 fwd, trapped, c, sigs, exitStatus>>

\* Lines 112-113: logFile.Close().
CloseLog ==
  /\ hpc = "closeLog"
  /\ hpc' = "rename" /\ logFile' = "closed"
  /\ UNCHANGED <<isTerminal, child, childRes, ptyOpen, raw, copier, rec, fwd,
                 trapped, c, sigs, exitStatus>>

\* Mutant: no os.Exit(1) fallback; an error that is not an ExitError
\* falls through to os.Exit(0).
ExitCode_NoFallback(res) ==
  IF res = "ok" THEN 0
  ELSE IF res = "fail" THEN 2
  ELSE IF res = "killed" THEN -1
  ELSE 0

(***************************************************************************)
(* The exit status of os.Exit(code), lines 121-133: cmdErr nil gives 0; an *)
(* exec.ExitError gives its ExitCode(), which is -1 for a child killed by  *)
(* a signal; any other error (the child never started) gives 1.  The OS    *)
(* keeps the low 8 bits of the code.                                       *)
(***************************************************************************)
ExitCode(res) ==
  IF res = "ok" THEN 0
  ELSE IF res = "fail" THEN 2
  ELSE IF res = "killed" THEN -1
  ELSE 1

\* Lines 115-133: os.Rename to the final name; on failure the error is
\* returned, else the process exits with the child's status.
Rename ==
  /\ hpc = "rename"
  /\ \/ /\ hpc' = "returned"
        /\ UNCHANGED <<logFile, exitStatus>>
     \/ /\ hpc' = "exited" /\ logFile' = "renamed"
        /\ exitStatus' = ExitCode(childRes) % 256
  /\ UNCHANGED <<isTerminal, child, childRes, ptyOpen, raw, copier, rec, fwd,
                 trapped, c, sigs>>

\* The child process runs to completion on its own.
ChildExit ==
  /\ child = "running"
  /\ child' = "exited"
  /\ childRes' \in {"ok", "fail"}
  /\ UNCHANGED <<hpc, isTerminal, logFile, ptyOpen, raw, copier, rec, fwd,
                 trapped, c, sigs, exitStatus>>

(***************************************************************************)
(* The OS delivers a signal to the parent.  While signal.Notify is in      *)
(* force the runtime sends it on c without blocking, and drops it when c   *)
(* is full; otherwise SIGWINCH is ignored and SIGINT, SIGTERM and SIGHUP   *)
(* kill the parent.                                                        *)
(***************************************************************************)
Deliver(s) ==
  /\ sigs < MaxSignals
  /\ hpc \notin Gone
  /\ sigs' = sigs + 1
  /\ IF trapped
       THEN /\ c' = IF Len(c) < ChanCap THEN Append(c, s) ELSE c
            /\ UNCHANGED hpc
       ELSE /\ hpc' = IF s = "TERM" THEN "killed" ELSE hpc
            /\ UNCHANGED c
  /\ UNCHANGED <<isTerminal, logFile, child, childRes, ptyOpen, raw, copier,
                 rec, fwd, trapped, exitStatus>>

Next ==
  \/ Setup \/ PtyStart \/ Attach \/ GetSize \/ CopierFinish
  \/ Notify \/ SendWinch \/ FwdStop \/ FwdHandle
  \/ Wait \/ ClosePty \/ AwaitExited
  \/ RunStart \/ RunWait \/ RecShutdown
  \/ CloseLog \/ Rename \/ ChildExit
  \/ \E s \in Sig : Deliver(s)

Spec == Init /\ [][Next]_vars

-----------------------------------------------------------------------------
(***************************************************************************)
(* Logs flushed before the file is closed: Hook closes (and renames) the   *)
(* log file only after the recorder was shut down -- on the pty path that  *)
(* is the copier goroutine's rec.Shutdown, which Hook waits for on         *)
(* <-exited at line 99 after cmd.Wait and ptmx.Close.                      *)
(***************************************************************************)
LogClosedAfterFlush ==
  logFile \in {"closed", "renamed"} => rec = "shut"

(***************************************************************************)
(* The terminal is restored before the process exits: when Hook calls      *)
(* os.Exit, stdin is no longer in raw mode, because the copier goroutine   *)
(* runs detachStdin before it closes "exited".                             *)
(***************************************************************************)
TerminalRestoredAtExit ==
  hpc = "exited" => ~raw

(***************************************************************************)
(* The parent's exit status tells success from failure: Hook exits with    *)
(* status 0 exactly when the child it ran exited with status 0 (lines      *)
(* 121-133), whether the child failed, was killed by a forwarded signal    *)
(* (ExitCode() = -1) or never started.                                     *)
(***************************************************************************)
ExitStatusPropagated ==
  hpc = "exited" => (exitStatus = 0 <=> childRes = "ok")

(***************************************************************************)
(* The initial resize is delivered: the send c <- SIGWINCH at line 163,    *)
(* which the comment calls the initial resize of the pty, only ever waits  *)
(* while the forwarder goroutine is still there to receive from c.  If a   *)
(* delivered signal fills c after the child has already exited, the        *)
(* forwarder may take the closed "exited" and stop, and Hook then blocks   *)
(* on this send forever.                                                   *)
(***************************************************************************)
InitialResizeDelivered ==
  (hpc = "sendWinch" /\ Len(c) = ChanCap) => fwd = "loop"
=============================================================================
