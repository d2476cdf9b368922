---------------------------- MODULE TestOverrides ----------------------------
(***************************************************************************)
(* The test-build configuration overrides of package env                   *)
(* (src/pkg/env/readers.go, testenv.go): a map from config file names to  *)
(* values guarded by a mutex, FakeTestConfig / FakeTestConfigWithError     *)
(* adding an override and handing back a cleanup func that deletes it, and *)
(* testReader, installed as the default config reader, answering a read    *)
(* from the map or from the fallback reader.                               *)
(*                                                                         *)
(* Tests run in parallel (t.Parallel), each one a process.  Every method   *)
(* of testOverrides holds the mutex for its whole body and does not block  *)
(* inside it, so each is one atomic step.  The value a test fakes is       *)
(* abstracted to the test itself; the map is a TLA+ function whose domain  *)
(* is the set of keys present, as a Go map.                                *)
(***************************************************************************)

CONSTANTS
  Tests,   \* the tests running in parallel
  Keys     \* config file names

VARIABLES
  data,    \* overrides.data
  held,    \* held[t]: the keys t faked and has not cleaned up
  failed,  \* the tests that failed on FakeTestConfigWithError's error
  panicked, \* FakeTestConfig panicked: the test binary is gone
  got      \* got[t]: what the last config read of t returned

vars == <<data, held, failed, panicked, got>>

\* A read answered by the fallback reader (the default cfg reader).
Fallback == "fallback"

TypeOK ==
  /\ DOMAIN data \subseteq Keys
  /\ \A k \in DOMAIN data : data[k] \in Tests
  /\ held \in [Tests -> SUBSET Keys]
  /\ failed \subseteq Tests
  /\ panicked \in BOOLEAN
  /\ got \in [Tests -> Tests \cup {Fallback, "none"}]

\* overrides = testOverrides{data: make(map[string]interface{})}, line 57.
Init ==
  /\ data = [k \in {} |-> Fallback]
  /\ held = [t \in Tests |-> {}]
  /\ failed = {}
  /\ panicked = FALSE
  /\ got = [t \in Tests |-> "none"]

\* to.data[k] = v, and delete(to.data, k).
Put(m, k, v) == [x \in DOMAIN m \cup {k} |-> IF x = k THEN v ELSE m[x]]
Del(m, k) == [x \in DOMAIN m \ {k} |-> m[x]]

(***************************************************************************)
(* FakeTestConfig(k, ptr), lines 125-147 with addWithError, lines 26-36:   *)
(* when k is already in the map, addWithError returns an error: either     *)
(* FakeTestConfig panics, which ends the test binary, or the test got it   *)
(* from FakeTestConfigWithError and fails (t.Fatal), its deferred cleanups *)
(* deleting every key it still holds.  Otherwise the override is stored    *)
(* and t holds k.                                                          *)
(***************************************************************************)
Fake(t, k) ==
  /\ ~panicked /\ t \notin failed /\ k \notin held[t]
  /\ IF k \in DOMAIN data
       THEN \/ /\ panicked' = TRUE
               /\ UNCHANGED <<data, held, failed>>
            \/ /\ data' = [x \in DOMAIN data \ held[t] |-> data[x]]
               /\ held' = [held EXCEPT ![t] = {}]
               /\ failed' = failed \cup {t}
               /\ UNCHANGED panicked
       ELSE /\ data' = Put(data, k, t)
            /\ held' = [held EXCEPT ![t] = @ \cup {k}]
            /\ UNCHANGED <<failed, panicked>>
  /\ UNCHANGED got

\* The cleanup func returned at lines 144-146: overrides.delete(fName),
\* lines 49-54.  A test calls it once, with defer.
Cleanup(t, k) ==
  /\ ~panicked /\ t \notin failed /\ k \in held[t]
  /\ data' = Del(data, k)
  /\ held' = [held EXCEPT ![t] = @ \ {k}]
  /\ UNCHANGED <<failed, panicked, got>>

\* testReader, lines 107-114: overrider.load(fileName) (lines 38-47), and
\* the override if present, else the fallback reader.
Read(t, k) ==
  /\ ~panicked /\ t \notin failed
  /\ got' = [got EXCEPT ![t] = IF k \in DOMAIN data THEN data[k] ELSE Fallback]
  /\ UNCHANGED <<data, held, failed, panicked>>

Next ==
  \E t \in Tests, k \in Keys : Fake(t, k) \/ Cleanup(t, k) \/ Read(t, k)

Spec == Init /\ [][Next]_vars

-----------------------------------------------------------------------------
(***************************************************************************)
(* Overrides are isolated between parallel tests: while a test holds an    *)
(* override of k (between FakeTestConfig and its cleanup) the map holds    *)
(* that test's value for k -- a second test's FakeTestConfig of k is       *)
(* refused, and a failing test only deletes the keys it added itself.      *)
(***************************************************************************)
OverrideIsolation ==
  \A t \in Tests : \A k \in held[t] : k \in DOMAIN data /\ data[k] = t

(***************************************************************************)
(* A test reads its own fake: a config read through testReader of a file   *)
(* name the reading test has faked returns that test's value, never        *)
(* another test's override or the fallback's file.                         *)
(***************************************************************************)
ReadsOwnFake ==
  [][\A t \in Tests, k \in Keys : Read(t, k) /\ k \in held[t] => got'[t] = t]_vars

-----------------------------------------------------------------------------
(***************************************************************************)
(* The inductive invariant, for any sets of tests and of file names       *)
(* (proved in EnvProofs).  OverrideIsolation is                            *)
(* inductive together with TypeOK: it makes the keys held by two tests     *)
(* disjoint (each held key maps to its holder), so a test's cleanup or the *)
(* deletions of a failing test never touch another test's override, and   *)
(* a successful add only stores a key that nobody holds.                  *)
(***************************************************************************)
IInv == TypeOK /\ OverrideIsolation

=============================================================================
