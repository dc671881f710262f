------------------------------- MODULE Ledger -------------------------------
(***************************************************************************)
(* The SQLite event ledger: connections that append hash-chained events    *)
(* under one write lock, transactions that commit or roll back as a whole, *)
(* processes that die at any point, and the verification of the whole      *)
(* chain that every process start depends on.                              *)
(*                                                                         *)
(* An event hash covers the payload and the previous hash, and SHA-256 is  *)
(* injective, so the hash of an event is modelled as the sequence of all   *)
(* payloads up to it: Hash appends a payload to the previous hash.         *)
(* SQLite's journal is external: a transaction cut short leaves nothing.   *)
(*                                                                         *)
(* A definition marked "Fault" is not part of the model: it is a plausible *)
(* bug, put in place of the definition that follows it to see which        *)
(* property notices.                                                       *)
(***************************************************************************)
EXTENDS Naturals, Sequences

CONSTANTS
    Connections,  \* concurrent users of the ledger file, one transaction each
    Payloads,     \* what the handlers append
    MaxBatch,     \* events of one transaction (approve appends up to three)
    MaxEvents,    \* bound on the table, for model checking only
    NoOne         \* nobody holds the write lock

ASSUME LedgerAssumption ==
    /\ MaxBatch \in Nat /\ MaxEvents \in Nat
    /\ NoOne \notin Connections

VARIABLES
    events,  \* the committed rows, in order
    writer,  \* the connection inside BEGIN IMMEDIATE ... COMMIT
    phase,   \* where each transaction() context is
    todo,    \* payloads the handler body has still to append
    pending  \* rows of the transaction that are not committed yet

vars == <<events, writer, phase, todo, pending>>

Genesis == <<>>
Hash(previous, payload) == Append(previous, payload)

Init ==
    /\ events = <<>>
    /\ writer = NoOne
    /\ phase = [c \in Connections |-> "closed"]
    /\ todo = [c \in Connections |-> <<>>]
    /\ pending = [c \in Connections |-> <<>>]

-----------------------------------------------------------------------------
Batches == UNION {[1..n -> Payloads] : n \in 0..MaxBatch}

\* sqlite3.connect, and a handler whose body will append a batch; an empty
\* batch is a reader (pending, events, verify), which takes the same lock.
Connect(c, batch) ==
    /\ phase[c] = "closed"
    /\ Len(events) + Len(batch) <= MaxEvents
    /\ phase' = [phase EXCEPT ![c] = "waiting"]
    /\ todo' = [todo EXCEPT ![c] = batch]
    /\ UNCHANGED <<events, writer, pending>>

\* Fault: a deferred BEGIN takes no lock, so two bodies may run at once.
MayBeginDeferred(c) == phase[c] = "waiting"

\* BEGIN IMMEDIATE succeeds for one connection at a time.
MayBegin(c) == phase[c] = "waiting" /\ writer = NoOne

Begin(c) ==
    /\ MayBegin(c)
    /\ writer' = c
    /\ phase' = [phase EXCEPT ![c] = "open"]
    /\ UNCHANGED <<events, todo, pending>>

\* Fault: the connection waits for the lock without a timeout.
NeverTimesOut(c) == FALSE

\* The busy handler gives up while somebody else has the lock.
TimesOut(c) == phase[c] = "waiting" /\ writer # NoOne

\* The 15 s busy timeout: OperationalError, the connection is closed.
Busy(c) ==
    /\ TimesOut(c)
    /\ phase' = [phase EXCEPT ![c] = "closed"]
    /\ todo' = [todo EXCEPT ![c] = <<>>]
    /\ UNCHANGED <<events, writer, pending>>

\* Fault: the previous hash is read from the committed rows only.
TailCommitted(c) == IF events = <<>> THEN Genesis ELSE events[Len(events)].hash

\* The last row this transaction sees, its own included.
LastHash(c) ==
    LET rows == events \o pending[c]
    IN  IF rows = <<>> THEN Genesis ELSE rows[Len(rows)].hash

AppendEvent(c) ==
    /\ phase[c] = "open"
    /\ todo[c] # <<>>
    /\ pending' = [pending EXCEPT ![c] = Append(@,
         [payload |-> Head(todo[c]), previous |-> LastHash(c),
          hash |-> Hash(LastHash(c), Head(todo[c]))])]
    /\ todo' = [todo EXCEPT ![c] = Tail(@)]
    /\ UNCHANGED <<events, writer, phase>>

\* Fault: an exception skips rollback and close, so the lock is kept.
ReleaseNothing(c) == UNCHANGED <<writer, phase>>

\* The connection is closed, which ends its transaction.
Release(c) ==
    /\ writer' = IF writer = c THEN NoOne ELSE writer
    /\ phase' = [phase EXCEPT ![c] = "closed"]

Forget(c) ==
    /\ todo' = [todo EXCEPT ![c] = <<>>]
    /\ pending' = [pending EXCEPT ![c] = <<>>]

Commit(c) ==
    /\ phase[c] = "open"
    /\ todo[c] = <<>>
    /\ events' = events \o pending[c]
    /\ Release(c)
    /\ Forget(c)

\* Fault: rows already appended stay when the body raises.
KeptOnFailure(c) == pending[c]

\* Rows that survive a body that raises: none.
SurvivesFailure(c) == <<>>

\* The body raises anything but DemoDenied, or the process is killed: the
\* transaction is rolled back, by this connection or by the next one to open
\* the file.
Fail(c) ==
    /\ phase[c] = "open"
    /\ events' = events \o SurvivesFailure(c)
    /\ Release(c)
    /\ Forget(c)

Next ==
    \E c \in Connections :
        \/ \E batch \in Batches : Connect(c, batch)
        \/ Begin(c)
        \/ Busy(c)
        \/ AppendEvent(c)
        \/ Commit(c)
        \/ Fail(c)

Spec == Init /\ [][Next]_vars

\* A handler body is straight-line code and SQLite's busy handler gives up
\* after its timeout; nothing is assumed of who wins the lock, of who connects
\* or of whether a transaction commits.
Fairness ==
    \A c \in Connections :
        /\ WF_vars(AppendEvent(c) \/ Commit(c) \/ Fail(c))
        /\ WF_vars(Begin(c) \/ Busy(c))

FairSpec == Spec /\ Fairness

-----------------------------------------------------------------------------
(* Safety *)

\* verify(): every row's previous hash is the hash of the row before it, and
\* its own hash covers its payload.  It holds at every instant, so a process
\* can always be started again on the file, wherever the last one died.
ChainVerifies ==
    \A i \in DOMAIN events :
        /\ events[i].previous = IF i = 1 THEN Genesis ELSE events[i - 1].hash
        /\ events[i].hash = Hash(events[i].previous, events[i].payload)

\* Transactions are whole: what a step adds to the table is all that one body
\* had to append, and rows already there never change.
AppendsWholeBodies ==
    [][\E c \in Connections : todo[c] = <<>> /\ events' = events \o pending[c]]_events

\* What a handler decides on is what it writes after: from BEGIN on, the rows it
\* finds are those of the table until it adds its own and is done.  This is why a
\* handler that reads, decides and appends is one step of DemoEngine.
ReadsStayCurrent ==
    [][\A c \in Connections : phase[c] = "open" /\ events' # events =>
            todo[c] = <<>> /\ events' = events \o pending[c] /\ phase'[c] = "closed"]_vars

-----------------------------------------------------------------------------
(* What is promised to the handlers *)

PayloadsOf(rows) == [i \in DOMAIN rows |-> rows[i].payload]
Calling == {c \in Connections : phase[c] # "closed"}
Wanted == [c \in Connections |-> PayloadsOf(pending[c]) \o todo[c]]

Atomic == INSTANCE AtomicLedger WITH
    log <- PayloadsOf(events), calling <- Calling, wanted <- Wanted

\* A transaction is one step to everybody else: although rows are appended one
\* at a time, connections wait and time out, bodies raise and processes die, what
\* readers find is the whole batches of some calls one after the other, each
\* written at one instant of its call (ledger.py, transaction and append).
ImplementsAtomicLedger == Atomic!Spec

-----------------------------------------------------------------------------
(* Liveness *)

\* Nobody keeps the write lock: no failing handler shuts the ledger for the
\* middleware's threads, the operator's command and every later process.
LockIsReleased == \A c \in Connections : writer = c ~> writer # c

\* Every transaction() context that is entered is left.
CallsEnd == \A c \in Connections : phase[c] # "closed" ~> phase[c] = "closed"
=============================================================================
