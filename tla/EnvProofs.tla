------------------------------ MODULE EnvProofs ------------------------------
(***************************************************************************)
(* Proofs about package env's config readers (src/pkg/env/readers.go):     *)
(* the test overrides of parallel tests are isolated and read back by      *)
(* their own test, for any sets of tests and file names; the dev reader    *)
(* answers with the first readable lookup path, for any files.  The two    *)
(* models share no state; each is an instance with its own variables.     *)
(***************************************************************************)
EXTENDS TLAPS

CONSTANTS Tests, Keys

VARIABLES data, held, failed, panicked, got,
          rpc, readable, i, errs, b, result

TO == INSTANCE TestOverrides
DR == INSTANCE DevReader

-----------------------------------------------------------------------------
\* testOverrides: TypeOK /\ OverrideIsolation is inductive.

LEMMA TOInit == TO!Init => TO!IInv
  BY DEF TO!Init, TO!IInv, TO!TypeOK, TO!OverrideIsolation, TO!Fallback

LEMMA TONext == TO!IInv /\ [TO!Next]_TO!vars => TO!IInv'
  <1> SUFFICES ASSUME TO!IInv, [TO!Next]_TO!vars PROVE TO!IInv'
    OBVIOUS
  <1> USE DEF TO!IInv, TO!TypeOK, TO!OverrideIsolation
  <1>1. ASSUME NEW t \in Tests, NEW k \in Keys, TO!Fake(t, k) PROVE TO!IInv'
    <2>1. CASE k \in DOMAIN data /\ panicked' = TRUE
                 /\ UNCHANGED <<data, held, failed>>
      BY <1>1, <2>1 DEF TO!Fake
    <2>2. CASE k \in DOMAIN data
                 /\ data' = [x \in DOMAIN data \ held[t] |-> data[x]]
                 /\ held' = [held EXCEPT ![t] = {}]
                 /\ failed' = failed \cup {t} /\ UNCHANGED panicked
      \* A key held by another test u maps to u, so it is not one of t's.
      <3>1. \A u \in Tests \ {t} : \A j \in held[u] : j \notin held[t]
        OBVIOUS
      <3>2. QED
        BY <1>1, <2>2, <3>1 DEF TO!Fake
    <2>3. CASE k \notin DOMAIN data
                 /\ data' = TO!Put(data, k, t)
                 /\ held' = [held EXCEPT ![t] = @ \cup {k}]
                 /\ UNCHANGED <<failed, panicked>>
      BY <1>1, <2>3 DEF TO!Fake, TO!Put
    <2>4. QED
      BY <1>1, <2>1, <2>2, <2>3 DEF TO!Fake
  <1>2. ASSUME NEW t \in Tests, NEW k \in Keys, TO!Cleanup(t, k) PROVE TO!IInv'
    <2>1. \A u \in Tests \ {t} : k \notin held[u]
      BY <1>2 DEF TO!Cleanup
    <2>2. QED
      BY <1>2, <2>1 DEF TO!Cleanup, TO!Del
  <1>3. ASSUME NEW t \in Tests, NEW k \in Keys, TO!Read(t, k) PROVE TO!IInv'
    BY <1>3 DEF TO!Read, TO!Fallback
  <1>4. CASE UNCHANGED TO!vars
    BY <1>4 DEF TO!vars
  <1>5. QED
    BY <1>1, <1>2, <1>3, <1>4 DEF TO!Next

\* Parallel tests never see each other's overrides: while a test holds a
\* fake of a config file, the override map holds that test's value.
THEOREM OverrideIsolationHolds == TO!Spec => []TO!OverrideIsolation
  <1>1. TO!IInv => TO!OverrideIsolation
    BY DEF TO!IInv
  <1>2. QED
    BY TOInit, TONext, <1>1, PTL DEF TO!Spec

\* testReader answers a test's read of a file it faked with its own value.
THEOREM ReadsOwnFakeHolds == TO!Spec => TO!ReadsOwnFake
  <1>1. TO!IInv /\ [TO!Next]_TO!vars =>
          [\A t \in Tests, k \in Keys :
              TO!Read(t, k) /\ k \in held[t] => got'[t] = t]_TO!vars
    BY DEF TO!IInv, TO!OverrideIsolation, TO!Read, TO!TypeOK
  <1>2. QED
    BY TOInit, TONext, <1>1, PTL DEF TO!Spec, TO!ReadsOwnFake

-----------------------------------------------------------------------------
\* devReader: TypeOK /\ LoopInv /\ FirstReadableWins is inductive.

LEMMA DRInit == DR!Init => DR!IInv
  BY DEF DR!Init, DR!IInv, DR!TypeOK, DR!LoopInv, DR!FirstReadableWins,
         DR!Paths, DR!NumPaths, DR!None, DR!Err, DR!Fallback

LEMMA DRNext == DR!IInv /\ [DR!Next]_DR!vars => DR!IInv'
  <1> SUFFICES ASSUME DR!IInv, [DR!Next]_DR!vars PROVE DR!IInv'
    OBVIOUS
  <1> USE DEF DR!IInv, DR!TypeOK, DR!LoopInv, DR!FirstReadableWins, DR!Paths,
              DR!NumPaths, DR!None, DR!Err, DR!Fallback
  <1>1. CASE DR!Call
    BY <1>1 DEF DR!Call
  <1>2. CASE DR!LookupStep
    BY <1>2 DEF DR!LookupStep
  <1>3. CASE DR!LookupEnd
    BY <1>3 DEF DR!LookupEnd
  <1>4. CASE DR!Check
    \* b is the least readable path, or no path is readable.
    <2>1. CASE errs # 0
      BY <1>4, <2>1 DEF DR!Check
    <2>2. CASE errs = 0
      BY <1>4, <2>2 DEF DR!Check
    <2>3. QED
      BY <2>1, <2>2
  <1>5. CASE DR!Again
    BY <1>5 DEF DR!Again
  <1>6. CASE UNCHANGED DR!vars
    BY <1>6 DEF DR!vars
  <1>7. QED
    BY <1>1, <1>2, <1>3, <1>4, <1>5, <1>6 DEF DR!Next

\* devReader returns the first readable lookup path's contents, and the
\* fallback's only when no lookup path can be read, whatever the files.
THEOREM FirstReadableWinsHolds == DR!Spec => []DR!FirstReadableWins
  <1>1. DR!IInv => DR!FirstReadableWins
    BY DEF DR!IInv
  <1>2. QED
    BY DRInit, DRNext, <1>1, PTL DEF DR!Spec
=============================================================================
