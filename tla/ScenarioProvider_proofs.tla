----------------------- MODULE ScenarioProvider_proofs -----------------------
(***************************************************************************)
(* The provider cache keeps one provider per scenario, for any number of   *)
(* threads, scenarios and requests.  The invariant needs to know why the   *)
(* second look is enough: between it and the load the lock is held, so the *)
(* entry a loading thread found missing is still missing.                  *)
(***************************************************************************)
EXTENDS ScenarioProvider, TLAPS

\* A thread that serves or is about to holds the one provider; a thread that
\* loads still finds none; a kept provider is the one that was loaded.
CacheInv ==
    /\ \A s \in Scenarios : cache[s] = loads[s] /\ loads[s] <= 1
    /\ \A t \in Threads :
        /\ phase[t] # "idle" => wanted[t] \in Scenarios
        /\ phase[t] = "loading" => cache[wanted[t]] = 0
        /\ phase[t] \in {"leaving", "serving"} => seen[t] = 1
    /\ \A u \in used : u[2] = 1

IInv == TypeOK /\ CacheInv

LEMMA InitIInv == Init => IInv
BY ProviderAssumption DEF Init, IInv, TypeOK, CacheInv, Phases

LEMMA NextIInv == IInv /\ [Next]_vars => IInv'
<1> SUFFICES ASSUME IInv, [Next]_vars PROVE IInv'
  OBVIOUS
<1> USE ProviderAssumption DEF IInv, TypeOK, CacheInv, Phases, Goto
<1>1. ASSUME NEW t \in Threads, NEW s \in Scenarios, Request(t, s) PROVE IInv'
  BY <1>1 DEF Request
<1>2. ASSUME NEW t \in Threads, Look(t) PROVE IInv'
  <2>1. wanted[t] \in Scenarios
    BY <1>2 DEF Look
  <2> QED
    BY <1>2, <2>1 DEF Look
<1>3. ASSUME NEW t \in Threads, Acquire(t) PROVE IInv'
  BY <1>3 DEF Acquire
<1>4. ASSUME NEW t \in Threads, LookAgain(t) PROVE IInv'
  <2>1. wanted[t] \in Scenarios
    BY <1>4 DEF LookAgain
  <2> QED
    BY <1>4, <2>1 DEF LookAgain, MustLoad
<1>5. ASSUME NEW t \in Threads, Load(t) PROVE IInv'
  <2>1. wanted[t] \in Scenarios /\ loads[wanted[t]] = 0
    BY <1>5 DEF Load
  <2>2. \A u \in Threads : u # t => phase[u] \notin {"locked", "loading", "leaving"}
    BY <1>5 DEF Load
  <2>3. TypeOK'
    BY <1>5, <2>1, <2>2 DEF Load
  <2>4. CacheInv'
    BY <1>5, <2>1, <2>2 DEF Load
  <2> QED
    BY <2>3, <2>4
<1>6. ASSUME NEW t \in Threads, LoadFails(t) PROVE IInv'
  BY <1>6 DEF LoadFails, Unlocks
<1>7. ASSUME NEW t \in Threads, Release(t) PROVE IInv'
  BY <1>7 DEF Release
<1>8. ASSUME NEW t \in Threads, Serve(t) PROVE IInv'
  BY <1>8 DEF Serve
<1>9. CASE UNCHANGED vars
  BY <1>9 DEF vars
<1> QED
  BY <1>1, <1>2, <1>3, <1>4, <1>5, <1>6, <1>7, <1>8, <1>9 DEF Next, Step

\* Types hold, and the lock is held exactly between acquisition and release.
THEOREM TypeCorrect == Spec => []TypeOK
<1>1. IInv => TypeOK
  BY DEF IInv
<1> QED
  BY <1>1, InitIInv, NextIInv, PTL DEF Spec

\* One load per scenario succeeds, and every request is served by its result.
THEOREM OneProvider == Spec => []OneProviderPerScenario
<1>1. IInv => OneProviderPerScenario
  BY DEF IInv, CacheInv, OneProviderPerScenario
<1> QED
  BY <1>1, InitIInv, NextIInv, PTL DEF Spec
=============================================================================
