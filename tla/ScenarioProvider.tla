-------------------------- MODULE ScenarioProvider --------------------------
(***************************************************************************)
(* The one piece of shared mutable state of the reference service: the     *)
(* cache of enterprise fact providers, filled on first use by whichever    *)
(* request thread comes first.  It is read once without the lock and once  *)
(* with it.  The loader may raise; the lock is a context manager.          *)
(***************************************************************************)
EXTENDS Naturals

CONSTANTS
    Threads,     \* threads serving requests
    Scenarios,   \* enterprise scenarios, by digest
    None,
    MaxRequests  \* bound on the requests served

ASSUME ProviderAssumption == None \notin Scenarios \cup Threads

VARIABLES
    cache,     \* scenario -> number of the provider kept for it, 0 if none
    loads,     \* how often each scenario's loader returned
    holder,    \* the thread in the lock, or None
    phase,     \* where each thread is
    wanted,    \* the scenario each thread resolves
    seen,      \* the provider each thread has, 0 if none
    used,      \* <<scenario, provider>> pairs that served a request
    requests

vars == <<cache, loads, holder, phase, wanted, seen, used, requests>>

Init ==
    /\ cache = [s \in Scenarios |-> 0] /\ loads = [s \in Scenarios |-> 0]
    /\ holder = None
    /\ phase = [t \in Threads |-> "idle"]
    /\ wanted = [t \in Threads |-> None]
    /\ seen = [t \in Threads |-> 0]
    /\ used = {} /\ requests = 0

Goto(t, where) == phase' = [phase EXCEPT ![t] = where]

Request(t, s) ==
    /\ phase[t] = "idle" /\ requests < MaxRequests
    /\ requests' = requests + 1
    /\ wanted' = [wanted EXCEPT ![t] = s]
    /\ Goto(t, "resolving")
    /\ UNCHANGED <<cache, loads, holder, seen, used>>

\* The first look, without the lock.
Look(t) ==
    /\ phase[t] = "resolving"
    /\ seen' = [seen EXCEPT ![t] = cache[wanted[t]]]
    /\ Goto(t, IF cache[wanted[t]] # 0 THEN "serving" ELSE "locking")
    /\ UNCHANGED <<cache, loads, holder, wanted, used, requests>>

Acquire(t) ==
    /\ phase[t] = "locking" /\ holder = None
    /\ holder' = t
    /\ Goto(t, "locked")
    /\ UNCHANGED <<cache, loads, seen, wanted, used, requests>>

\* Fault: the second look is forgotten.
MustLoadAnyway(t) == TRUE

MustLoad(t) == cache[wanted[t]] = 0

\* The second look, with the lock.
LookAgain(t) ==
    /\ phase[t] = "locked"
    /\ seen' = [seen EXCEPT ![t] = cache[wanted[t]]]
    /\ Goto(t, IF MustLoad(t) THEN "loading" ELSE "leaving")
    /\ UNCHANGED <<cache, loads, holder, wanted, used, requests>>

\* The loader returns a new provider, and it is kept.
Load(t) ==
    /\ phase[t] = "loading"
    /\ loads' = [loads EXCEPT ![wanted[t]] = @ + 1]
    /\ seen' = [seen EXCEPT ![t] = loads'[wanted[t]]]
    /\ cache' = [cache EXCEPT ![wanted[t]] = loads'[wanted[t]]]
    /\ Goto(t, "leaving")
    /\ UNCHANGED <<holder, wanted, used, requests>>

\* Fault: a failed load leaves with the lock.
LeavesWithLock(t) == holder' = holder

Unlocks(t) == holder' = None

\* The loader raises: the lock is released and the request fails.
LoadFails(t) ==
    /\ phase[t] = "loading"
    /\ Unlocks(t)
    /\ wanted' = [wanted EXCEPT ![t] = None]
    /\ Goto(t, "idle")
    /\ UNCHANGED <<cache, loads, seen, used, requests>>

Release(t) ==
    /\ phase[t] = "leaving"
    /\ holder' = None
    /\ Goto(t, "serving")
    /\ UNCHANGED <<cache, loads, seen, wanted, used, requests>>

\* The provider found is asked for the facts.
Serve(t) ==
    /\ phase[t] = "serving"
    /\ used' = used \cup {<<wanted[t], seen[t]>>}
    /\ seen' = [seen EXCEPT ![t] = 0]
    /\ wanted' = [wanted EXCEPT ![t] = None]
    /\ Goto(t, "idle")
    /\ UNCHANGED <<cache, loads, holder, requests>>

Step(t) ==
    \/ Look(t) \/ Acquire(t) \/ LookAgain(t)
    \/ Load(t) \/ LoadFails(t) \/ Release(t) \/ Serve(t)

Next == \E t \in Threads : Step(t) \/ \E s \in Scenarios : Request(t, s)

\* A thread in the middle of a request is scheduled, and the loader, which
\* reads packaged files, ends.  A lock is not promised to one waiter in
\* particular: weak fairness is enough.
Spec == Init /\ [][Next]_vars /\ \A t \in Threads : WF_vars(Step(t))

-----------------------------------------------------------------------------
Phases == {"idle", "resolving", "locking", "locked", "loading", "leaving", "serving"}

\* Types, and the lock is held exactly from its acquisition to its release.
TypeOK ==
    /\ cache \in [Scenarios -> Nat] /\ loads \in [Scenarios -> Nat]
    /\ phase \in [Threads -> Phases]
    /\ wanted \in [Threads -> Scenarios \cup {None}]
    /\ seen \in [Threads -> Nat] /\ holder \in Threads \cup {None}
    /\ \A t \in Threads : phase[t] \in {"locked", "loading", "leaving"} <=> holder = t

\* However requests interleave and however often the loader fails, one load per
\* scenario succeeds and every request served got the provider it returned
\* (reference_service.py, _enterprise_provider).
OneProviderPerScenario ==
    /\ \A s \in Scenarios : loads[s] <= 1
    /\ \A u \in used : u[2] = 1

\* Every request ends, with facts or with the loader's exception: no failure of
\* the loader leaves the lock taken.
RequestsEnd == \A t \in Threads : phase[t] # "idle" ~> phase[t] = "idle"
=============================================================================
