------------------------------ MODULE DevReader ------------------------------
(***************************************************************************)
(* The dev-build configuration reader of package env, devReader            *)
(* (src/pkg/env/readers.go lines 61-105, installed by devenv.go): a config *)
(* file is looked up in five places in a fixed order, the first one that   *)
(* can be read wins, and only when none can does the fallback reader       *)
(* answer.  The loop over lookupPaths keeps a slice of the read errors,    *)
(* reset to nil when a file is found; the fallback is taken when that     *)
(* slice is not empty.                                                     *)
(*                                                                         *)
(* A path is its position in lookupPaths; the file system is the set of    *)
(* positions os.ReadFile succeeds on during the call.  The paths are built *)
(* from the home directory, the working directory and app.Info().Name, and *)
(* user.Current or os.Getwd failing ends the call with their error.        *)
(***************************************************************************)
EXTENDS Integers

\* lookupPaths, lines 75-82: ~/.gobox/<app>/f, ~/.gobox/f, ./<app>/f, ./f,
\* ./config/f.
NumPaths == 5
Paths == 1..NumPaths

\* The answers that are not a lookup path: the fallback reader's, the error
\* of user.Current or os.Getwd, and none yet.
Fallback == 0
Err == -1
None == -2

VARIABLES
  rpc,       \* "idle", "lookup" (in the for loop), "check" (after it), "done"
  readable,  \* the lookup paths os.ReadFile succeeds on
  i,         \* the position the loop reads next
  errs,      \* len(errors)
  b,         \* the position whose contents b holds, 0 for none
  result     \* the answer: a position, Fallback, Err or None

vars == <<rpc, readable, i, errs, b, result>>

TypeOK ==
  /\ rpc \in {"idle", "lookup", "check", "done"}
  /\ readable \subseteq Paths
  /\ i \in 1..NumPaths + 1
  /\ errs \in 0..NumPaths
  /\ b \in 0..NumPaths
  /\ result \in Paths \cup {Fallback, Err, None}

Init ==
  /\ rpc = "idle" /\ readable = {}
  /\ i = 1 /\ errs = 0 /\ b = 0 /\ result = None

\* Lines 63-85: a call of the reader; user.Current and os.Getwd may fail.
Call ==
  /\ rpc = "idle"
  /\ readable' \in SUBSET Paths
  /\ \/ /\ rpc' = "done" /\ result' = Err
     \/ /\ rpc' = "lookup" /\ UNCHANGED result
  /\ i' = 1 /\ errs' = 0 /\ b' = 0

(***************************************************************************)
(* One iteration of the loop, lines 86-98: a failed read appends its error *)
(* and continues; a successful one sets errors to nil and breaks.          *)
(***************************************************************************)
LookupStep ==
  /\ rpc = "lookup" /\ i <= NumPaths
  /\ IF i \in readable
       THEN /\ b' = i /\ errs' = 0 /\ rpc' = "check"
            /\ UNCHANGED i
       ELSE /\ b' = 0 /\ errs' = errs + 1 /\ i' = i + 1
            /\ UNCHANGED rpc
  /\ UNCHANGED <<readable, result>>

\* The range over lookupPaths ends without a break.
LookupEnd ==
  /\ rpc = "lookup" /\ i = NumPaths + 1
  /\ rpc' = "check"
  /\ UNCHANGED <<readable, i, errs, b, result>>

\* Lines 99-103: fallback(fileName) when errors is not empty, else b.
Check ==
  /\ rpc = "check"
  /\ rpc' = "done"
  /\ result' = IF errs # 0 THEN Fallback ELSE b
  /\ UNCHANGED <<readable, i, errs, b>>

\* The caller reads another config file.
Again ==
  /\ rpc = "done"
  /\ rpc' = "idle" /\ result' = None
  /\ UNCHANGED <<readable, i, errs, b>>

Next == Call \/ LookupStep \/ LookupEnd \/ Check \/ Again

Spec == Init /\ [][Next]_vars

-----------------------------------------------------------------------------
(***************************************************************************)
(* The reader answers with the first readable config in lookup order:      *)
(* when a call returns without error, it returned the contents of the      *)
(* readable lookup path that comes first, and the fallback reader's answer *)
(* only when no lookup path could be read.                                 *)
(***************************************************************************)
FirstReadableWins ==
  rpc = "done" /\ result # Err =>
    IF readable = {}
      THEN result = Fallback
      ELSE /\ result \in readable
           /\ \A p \in readable : result <= p

-----------------------------------------------------------------------------
(***************************************************************************)
(* The inductive invariant (proved in EnvProofs), for every set of        *)
(* readable paths.  The loop invariant: inside the                         *)
(* loop every path before i failed and errors holds one error for each of  *)
(* them; after the loop either b is the first readable path and errors is *)
(* nil, or every path failed and errors holds NumPaths errors.            *)
(***************************************************************************)
LoopInv ==
  /\ rpc = "lookup" =>
       /\ errs = i - 1
       /\ \A j \in 1..i - 1 : j \notin readable
  /\ rpc = "check" =>
       \/ /\ errs = 0 /\ b \in readable
          /\ \A j \in 1..b - 1 : j \notin readable
       \/ /\ errs = NumPaths
          /\ \A j \in Paths : j \notin readable

IInv == TypeOK /\ LoopInv /\ FirstReadableWins

=============================================================================
