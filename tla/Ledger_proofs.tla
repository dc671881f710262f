---------------------------- MODULE Ledger_proofs ----------------------------
(***************************************************************************)
(* The ledger's chain verifies at every instant and grows by whole bodies, *)
(* for any connections, payloads and sizes, with processes that die and    *)
(* bodies that fail at any point.  The chain is checked against what the   *)
(* writing connection sees, the committed rows and its own; the lock makes *)
(* sure that these are still the committed rows when it commits.           *)
(***************************************************************************)
EXTENDS Ledger, SequenceTheorems, TLAPS

Rows == [payload : Payloads, previous : Seq(Payloads), hash : Seq(Payloads)]

TypeInv ==
    /\ events \in Seq(Rows)
    /\ writer \in Connections \cup {NoOne}
    /\ phase \in [Connections -> {"closed", "waiting", "open"}]
    /\ todo \in [Connections -> Seq(Payloads)]
    /\ pending \in [Connections -> Seq(Rows)]

\* Who writes has the lock, and nobody else has rows that are not committed.
LockInv ==
    \A c \in Connections :
        /\ phase[c] = "open" <=> writer = c
        /\ phase[c] # "open" => pending[c] = <<>>

Chained(rows) ==
    \A i \in DOMAIN rows :
        /\ rows[i].previous = IF i = 1 THEN Genesis ELSE rows[i - 1].hash
        /\ rows[i].hash = Hash(rows[i].previous, rows[i].payload)

ChainInv == \A c \in Connections : Chained(events \o pending[c])

LedgerInv == TypeInv /\ LockInv /\ ChainInv /\ ChainVerifies

-----------------------------------------------------------------------------
(* Rows *)

LEMMA ConcatNothing == ASSUME NEW S, NEW rows \in Seq(S) PROVE rows \o <<>> = rows
OBVIOUS

LEMMA ConcatAppend ==
    ASSUME NEW S, NEW front \in Seq(S), NEW back \in Seq(S), NEW x \in S
    PROVE  front \o Append(back, x) = Append(front \o back, x)
<1> DEFINE left == front \o Append(back, x)
           right == Append(front \o back, x)
<1>1. /\ left \in Seq(S) /\ right \in Seq(S)
      /\ Len(left) = Len(right) /\ Len(left) = Len(front) + Len(back) + 1
  OBVIOUS
<1>2. ASSUME NEW i \in 1 .. Len(front) + Len(back) + 1 PROVE left[i] = right[i]
  <2>1. CASE i <= Len(front)
    BY <2>1
  <2>2. CASE i > Len(front) /\ i <= Len(front) + Len(back)
    <3>1. Append(back, x)[i - Len(front)] = back[i - Len(front)]
      BY <2>2
    <3>2. left[i] = Append(back, x)[i - Len(front)]
      BY <2>2
    <3>3. right[i] = (front \o back)[i]
      BY <2>2
    <3> QED
      BY <2>2, <3>1, <3>2, <3>3
  <2>3. CASE i = Len(front) + Len(back) + 1
    BY <2>3
  <2> QED
    BY <2>1, <2>2, <2>3
<1> HIDE DEF left, right
<1>3. left = right
  BY <1>1, <1>2, SeqEqual
<1> QED
  BY <1>3 DEF left, right

LEMMA LastHashType ==
    ASSUME TypeInv, NEW c \in Connections
    PROVE  LastHash(c) \in Seq(Payloads)
<1> DEFINE rows == events \o pending[c]
<1>1. rows \in Seq(Rows)
  BY DEF TypeInv
<1> HIDE DEF rows
<1>2. rows # <<>> => rows[Len(rows)] \in Rows
  BY <1>1
<1>3. LastHash(c) = IF rows = <<>> THEN <<>> ELSE rows[Len(rows)].hash
  BY DEF LastHash, Genesis, rows
<1> QED
  BY <1>2, <1>3 DEF Rows

\* A row made of the last hash prolongs a chain.
LEMMA ChainGrows ==
    ASSUME NEW rows \in Seq(Rows), Chained(rows), NEW row \in Rows,
           row.previous = IF rows = <<>> THEN Genesis ELSE rows[Len(rows)].hash,
           row.hash = Hash(row.previous, row.payload)
    PROVE  Chained(Append(rows, row))
<1> DEFINE all == Append(rows, row)
<1>1. DOMAIN all = 1 .. Len(rows) + 1 /\ Len(rows) \in Nat
  OBVIOUS
<1>2. all[Len(rows) + 1] = row /\ \A i \in 1 .. Len(rows) : all[i] = rows[i]
  OBVIOUS
<1> HIDE DEF all
<1> SUFFICES ASSUME NEW i \in 1 .. Len(rows) + 1
             PROVE  /\ all[i].previous = IF i = 1 THEN Genesis ELSE all[i - 1].hash
                    /\ all[i].hash = Hash(all[i].previous, all[i].payload)
  BY <1>1 DEF Chained, all
<1>3. CASE i \in 1 .. Len(rows)
  <2>1. i \in DOMAIN rows /\ (i # 1 => i - 1 \in 1 .. Len(rows))
    BY <1>3
  <2> QED
    BY <1>2, <1>3, <2>1 DEF Chained
<1>4. CASE i = Len(rows) + 1
  <2>1. CASE rows = <<>>
    BY <1>2, <1>4, <2>1
  <2>2. CASE rows # <<>>
    <3>1. i # 1 /\ i - 1 = Len(rows) /\ Len(rows) \in 1 .. Len(rows)
      BY <1>4, <2>2
    <3> QED
      BY <1>2, <1>4, <2>2, <3>1
  <2> QED
    BY <2>1, <2>2
<1> QED
  BY <1>1, <1>3, <1>4

-----------------------------------------------------------------------------
(* The invariant *)

LEMMA InitLedgerInv == Init => LedgerInv
<1> SUFFICES ASSUME Init PROVE LedgerInv
  OBVIOUS
<1>1. TypeInv
  BY DEF Init, TypeInv
<1>2. LockInv
  BY LedgerAssumption DEF Init, LockInv
<1>3. \A c \in Connections : events \o pending[c] = <<>>
  <2>1. <<>> \o <<>> = <<>>
    <3>1. <<>> \in Seq(Rows)
      OBVIOUS
    <3> QED
      BY <3>1, ConcatNothing
  <2> QED
    BY <2>1 DEF Init
<1>4. Chained(<<>>)
  BY DEF Chained
<1>5. ChainInv
  BY <1>3, <1>4 DEF ChainInv
<1>6. ChainVerifies
  BY DEF Init, ChainVerifies
<1> QED
  BY <1>1, <1>2, <1>5, <1>6 DEF LedgerInv

\* A transaction that ends leaves its rows, or none, and gives the lock back.
LEMMA EndKeeps ==
    ASSUME LedgerInv, NEW c \in Connections, phase[c] = "open",
           events' = events \o pending[c] \/ events' = events,
           Release(c), Forget(c)
    PROVE  LedgerInv'
<1>1. writer = c /\ c # NoOne
  BY LedgerAssumption DEF LedgerInv, LockInv
<1>2. TypeInv'
  <2>1. pending[c] \in Seq(Rows) /\ events \in Seq(Rows)
    BY DEF LedgerInv, TypeInv
  <2>2. events \o pending[c] \in Seq(Rows)
    BY <2>1, ConcatProperties
  <2>3. events' \in Seq(Rows)
    BY <2>1, <2>2
  <2> QED
    BY <2>3 DEF LedgerInv, TypeInv, Release, Forget
<1>3. LockInv'
  BY <1>1, LedgerAssumption DEF LedgerInv, TypeInv, LockInv, Release, Forget
<1>4. \A d \in Connections : pending'[d] = <<>>
  BY <1>1 DEF LedgerInv, TypeInv, LockInv, Forget
<1>5. Chained(events')
  <2>1. Chained(events \o pending[c])
    BY DEF LedgerInv, ChainInv
  <2>2. Chained(events)
    BY DEF LedgerInv, ChainVerifies, Chained
  <2>3. CASE events' = events \o pending[c]
    BY <2>1, <2>3
  <2>4. CASE events' = events
    BY <2>2, <2>4 DEF Chained
  <2> QED
    BY <2>3, <2>4
<1>6. ChainInv'
  <2> SUFFICES ASSUME NEW d \in Connections PROVE Chained((events \o pending[d])')
    BY DEF ChainInv, Chained
  <2>1. (events \o pending[d])' = events'
    BY <1>2, <1>4 DEF TypeInv
  <2> QED
    BY <1>5, <2>1
<1>7. ChainVerifies'
  BY <1>5 DEF ChainVerifies, Chained
<1> QED
  BY <1>2, <1>3, <1>6, <1>7 DEF LedgerInv

LEMMA AppendKeeps ==
    ASSUME LedgerInv, NEW c \in Connections, AppendEvent(c)
    PROVE  LedgerInv'
<1> DEFINE row == [payload |-> Head(todo[c]), previous |-> LastHash(c),
                   hash |-> Hash(LastHash(c), Head(todo[c]))]
<1>1. /\ phase[c] = "open" /\ todo[c] # <<>>
      /\ pending' = [pending EXCEPT ![c] = Append(@, row)]
      /\ todo' = [todo EXCEPT ![c] = Tail(@)]
      /\ UNCHANGED <<events, writer, phase>>
  BY DEF AppendEvent
<1>2. todo[c] \in Seq(Payloads) /\ pending[c] \in Seq(Rows) /\ events \in Seq(Rows)
  BY DEF LedgerInv, TypeInv
<1>3. Head(todo[c]) \in Payloads /\ Tail(todo[c]) \in Seq(Payloads)
  BY <1>1, <1>2
<1>4. LastHash(c) \in Seq(Payloads)
  BY LastHashType DEF LedgerInv
<1>5. row \in Rows /\ row.previous = LastHash(c) /\ row.hash = Hash(row.previous, row.payload)
  BY <1>3, <1>4 DEF Rows, Hash
<1> HIDE DEF row
<1>6. TypeInv'
  BY <1>1, <1>2, <1>3, <1>5 DEF LedgerInv, TypeInv
<1>7. LockInv'
  BY <1>1 DEF LedgerInv, TypeInv, LockInv
<1>8. ChainInv'
  <2> SUFFICES ASSUME NEW d \in Connections PROVE Chained((events \o pending[d])')
    BY DEF ChainInv, Chained
  <2>1. CASE d = c
    <3>1. (events \o pending[d])' = Append(events \o pending[c], row)
      <4>1. pending'[d] = Append(pending[c], row)
        BY <1>1, <2>1 DEF LedgerInv, TypeInv
      <4>2. events \o Append(pending[c], row) = Append(events \o pending[c], row)
        BY <1>2, <1>5, ConcatAppend
      <4>3. events' = events
        BY <1>1
      <4> QED
        BY <4>1, <4>2, <4>3
    <3>2. events \o pending[c] \in Seq(Rows) /\ Chained(events \o pending[c])
      BY <1>2 DEF LedgerInv, ChainInv
    <3>3. row.previous = LET rows == events \o pending[c]
                         IN  IF rows = <<>> THEN Genesis ELSE rows[Len(rows)].hash
      BY <1>5 DEF LastHash
    <3> QED
      BY <1>5, <3>1, <3>2, <3>3, ChainGrows
  <2>2. CASE d # c
    <3>1. (events \o pending[d])' = events \o pending[d]
      BY <1>1, <2>2 DEF LedgerInv, TypeInv
    <3> QED
      BY <3>1 DEF LedgerInv, ChainInv
  <2> QED
    BY <2>1, <2>2
<1>9. ChainVerifies'
  BY <1>1 DEF LedgerInv, ChainVerifies
<1> QED
  BY <1>6, <1>7, <1>8, <1>9 DEF LedgerInv

\* What comes before the transaction does not touch a row.
LEMMA LeaveRows ==
    ASSUME LedgerInv, TypeInv', LockInv', UNCHANGED <<events, pending>>
    PROVE  LedgerInv'
<1>1. ChainInv' /\ ChainVerifies'
  BY DEF LedgerInv, ChainInv, ChainVerifies, Chained
<1> QED
  BY <1>1 DEF LedgerInv

LEMMA NextLedgerInv == LedgerInv /\ [Next]_vars => LedgerInv'
<1> SUFFICES ASSUME LedgerInv, [Next]_vars PROVE LedgerInv'
  OBVIOUS
<1>1. ASSUME NEW c \in Connections, NEW batch \in Batches, Connect(c, batch) PROVE LedgerInv'
  <2>1. batch \in Seq(Payloads)
    BY LedgerAssumption DEF Batches
  <2>2. TypeInv' /\ LockInv' /\ UNCHANGED <<events, pending>>
    BY <1>1, <2>1 DEF Connect, LedgerInv, TypeInv, LockInv
  <2> QED
    BY <2>2, LeaveRows
<1>2. ASSUME NEW c \in Connections, Begin(c) PROVE LedgerInv'
  <2>1. TypeInv' /\ UNCHANGED <<events, pending>>
    BY <1>2 DEF Begin, LedgerInv, TypeInv
  <2>2. LockInv'
    BY <1>2, LedgerAssumption DEF Begin, MayBegin, LedgerInv, TypeInv, LockInv
  <2> QED
    BY <2>1, <2>2, LeaveRows
<1>3. ASSUME NEW c \in Connections, Busy(c) PROVE LedgerInv'
  <2>1. TypeInv' /\ LockInv' /\ UNCHANGED <<events, pending>>
    BY <1>3 DEF Busy, TimesOut, LedgerInv, TypeInv, LockInv
  <2> QED
    BY <2>1, LeaveRows
<1>4. ASSUME NEW c \in Connections, AppendEvent(c) PROVE LedgerInv'
  BY <1>4, AppendKeeps
<1>5. ASSUME NEW c \in Connections, Commit(c) PROVE LedgerInv'
  BY <1>5, EndKeeps DEF Commit
<1>6. ASSUME NEW c \in Connections, Fail(c) PROVE LedgerInv'
  <2>1. events' = events
    BY <1>6, ConcatNothing DEF Fail, SurvivesFailure, LedgerInv, TypeInv
  <2> QED
    BY <1>6, <2>1, EndKeeps DEF Fail
<1>7. CASE UNCHANGED vars
  BY <1>7 DEF vars, LedgerInv, TypeInv, LockInv, ChainInv, Chained, ChainVerifies
<1> QED
  BY <1>1, <1>2, <1>3, <1>4, <1>5, <1>6, <1>7 DEF Next

LEMMA AlwaysLedgerInv == Spec => []LedgerInv
BY InitLedgerInv, NextLedgerInv, PTL DEF Spec

-----------------------------------------------------------------------------
(* The properties *)

\* The chain verifies at every instant, wherever a process dies.
THEOREM ChainAlwaysVerifies == Spec => []ChainVerifies
<1>1. LedgerInv => ChainVerifies
  BY DEF LedgerInv
<1> QED
  BY <1>1, AlwaysLedgerInv, PTL

\* The table changes only by all that one body had to append.
THEOREM BodiesAreWhole == Spec => AppendsWholeBodies
<1>1. LedgerInv /\ [Next]_vars =>
        [\E c \in Connections : todo[c] = <<>> /\ events' = events \o pending[c]]_events
  <2> SUFFICES ASSUME LedgerInv, [Next]_vars, events' # events
               PROVE  \E c \in Connections : todo[c] = <<>> /\ events' = events \o pending[c]
    OBVIOUS
  <2>1. \A c \in Connections : ~ Fail(c)
    BY ConcatNothing DEF Fail, SurvivesFailure, LedgerInv, TypeInv
  <2>2. PICK c \in Connections : Commit(c)
    BY <2>1 DEF Next, vars, Connect, Begin, Busy, AppendEvent
  <2> QED
    BY <2>2 DEF Commit
<1> QED
  BY <1>1, AlwaysLedgerInv, PTL DEF Spec, AppendsWholeBodies

\* What a body read when it began is what it adds its rows to: only the holder
\* of the lock writes, and writing ends its transaction.
THEOREM BodiesAreIsolated == Spec => ReadsStayCurrent
<1>1. LedgerInv /\ [Next]_vars =>
        [\A c \in Connections : phase[c] = "open" /\ events' # events =>
            todo[c] = <<>> /\ events' = events \o pending[c] /\ phase'[c] = "closed"]_vars
  <2> SUFFICES ASSUME LedgerInv, [Next]_vars, NEW c \in Connections, phase[c] = "open",
                      events' # events
               PROVE  todo[c] = <<>> /\ events' = events \o pending[c] /\ phase'[c] = "closed"
    OBVIOUS
  <2>1. \A b \in Connections : ~ Fail(b)
    BY ConcatNothing DEF Fail, SurvivesFailure, LedgerInv, TypeInv
  <2>2. PICK b \in Connections : Commit(b)
    BY <2>1 DEF Next, vars, Connect, Begin, Busy, AppendEvent
  <2>3. b = c
    <3>1. phase[b] = "open"
      BY <2>2 DEF Commit
    <3> QED
      BY <3>1 DEF LedgerInv, LockInv
  <2>4. phase'[c] = "closed"
    BY <2>2, <2>3 DEF Commit, Release, LedgerInv, TypeInv
  <2> QED
    BY <2>2, <2>3, <2>4 DEF Commit
<1> QED
  BY <1>1, AlwaysLedgerInv, PTL DEF Spec, ReadsStayCurrent

-----------------------------------------------------------------------------
(* One step to everybody else *)

LEMMA PayloadsType ==
    ASSUME NEW rows \in Seq(Rows)
    PROVE  /\ PayloadsOf(rows) \in Seq(Payloads) /\ Len(PayloadsOf(rows)) = Len(rows)
           /\ \A i \in 1 .. Len(rows) : PayloadsOf(rows)[i] = rows[i].payload
<1>1. Len(rows) \in Nat /\ DOMAIN rows = 1 .. Len(rows)
  OBVIOUS
<1>2. \A i \in 1 .. Len(rows) : rows[i].payload \in Payloads
  <2>1. \A i \in 1 .. Len(rows) : rows[i] \in Rows
    OBVIOUS
  <2> QED
    BY <2>1 DEF Rows
<1>3. PayloadsOf(rows) = [i \in 1 .. Len(rows) |-> rows[i].payload]
  BY <1>1 DEF PayloadsOf
<1> QED
  BY <1>1, <1>2, <1>3

LEMMA PayloadsConcat ==
    ASSUME NEW front \in Seq(Rows), NEW back \in Seq(Rows)
    PROVE  PayloadsOf(front \o back) = PayloadsOf(front) \o PayloadsOf(back)
<1> DEFINE left == PayloadsOf(front \o back)
           right == PayloadsOf(front) \o PayloadsOf(back)
<1>1. front \o back \in Seq(Rows) /\ Len(front \o back) = Len(front) + Len(back)
  BY ConcatProperties
<1>2. /\ left \in Seq(Payloads) /\ right \in Seq(Payloads)
      /\ Len(left) = Len(front) + Len(back) /\ Len(right) = Len(front) + Len(back)
  <2>1. left \in Seq(Payloads) /\ Len(left) = Len(front) + Len(back)
    BY <1>1, PayloadsType
  <2>2. /\ PayloadsOf(front) \in Seq(Payloads) /\ PayloadsOf(back) \in Seq(Payloads)
        /\ Len(PayloadsOf(front)) = Len(front) /\ Len(PayloadsOf(back)) = Len(back)
    BY PayloadsType
  <2>3. \A p, q \in Seq(Payloads) : p \o q \in Seq(Payloads) /\ Len(p \o q) = Len(p) + Len(q)
    OBVIOUS
  <2>4. right \in Seq(Payloads) /\ Len(right) = Len(front) + Len(back)
    BY <2>2, <2>3
  <2> QED
    BY <2>1, <2>4
<1>3. ASSUME NEW i \in 1 .. Len(front) + Len(back) PROVE left[i] = right[i]
  <2>1. left[i] = (front \o back)[i].payload
    BY <1>1, PayloadsType
  <2>2. CASE i <= Len(front)
    <3>1. i \in 1 .. Len(front) /\ (front \o back)[i] = front[i]
      BY <2>2
    <3>2. right[i] = PayloadsOf(front)[i]
      BY <3>1, PayloadsType, ConcatProperties
    <3> QED
      BY <2>1, <3>1, <3>2, PayloadsType
  <2>3. CASE i > Len(front)
    <3>1. i - Len(front) \in 1 .. Len(back) /\ (front \o back)[i] = back[i - Len(front)]
      BY <2>3
    <3>2. right[i] = PayloadsOf(back)[i - Len(front)]
      BY <2>3, PayloadsType, ConcatProperties
    <3> QED
      BY <2>1, <3>1, <3>2, PayloadsType
  <2>4. Len(front) \in Nat /\ i \in Nat
    OBVIOUS
  <2> HIDE DEF left, right
  <2> QED
    BY <2>2, <2>3, <2>4
<1> HIDE DEF left, right
<1>4. left = right
  BY <1>2, <1>3, SeqEqual
<1> QED
  BY <1>4 DEF left, right

LEMMA PayloadsAppend ==
    ASSUME NEW rows \in Seq(Rows), NEW row \in Rows
    PROVE  PayloadsOf(Append(rows, row)) = Append(PayloadsOf(rows), row.payload)
<1> DEFINE left == PayloadsOf(Append(rows, row))
           right == Append(PayloadsOf(rows), row.payload)
<1>1. Append(rows, row) \in Seq(Rows) /\ Len(Append(rows, row)) = Len(rows) + 1
  OBVIOUS
<1>2. /\ left \in Seq(Payloads) /\ right \in Seq(Payloads)
      /\ Len(left) = Len(rows) + 1 /\ Len(right) = Len(rows) + 1
  <2>1. row.payload \in Payloads
    BY DEF Rows
  <2>2. left \in Seq(Payloads) /\ Len(left) = Len(rows) + 1
    BY <1>1, PayloadsType
  <2>3. PayloadsOf(rows) \in Seq(Payloads) /\ Len(PayloadsOf(rows)) = Len(rows)
    BY PayloadsType
  <2> HIDE DEF left
  <2> QED
    BY <2>1, <2>2, <2>3
<1>3. ASSUME NEW i \in 1 .. Len(rows) + 1 PROVE left[i] = right[i]
  <2>1. left[i] = Append(rows, row)[i].payload
    BY <1>1, PayloadsType
  <2>2. PayloadsOf(rows) \in Seq(Payloads) /\ Len(PayloadsOf(rows)) = Len(rows)
    BY PayloadsType
  <2>3. CASE i = Len(rows) + 1
    BY <2>1, <2>2, <2>3
  <2>4. CASE i \in 1 .. Len(rows)
    <3>1. Append(rows, row)[i] = rows[i] /\ right[i] = PayloadsOf(rows)[i]
      BY <2>2, <2>4
    <3> QED
      BY <2>1, <2>4, <3>1, PayloadsType
  <2> QED
    <3>1. i \in 1 .. Len(rows) \/ i = Len(rows) + 1
      OBVIOUS
    <3> HIDE DEF left, right
    <3> QED
      BY <2>3, <2>4, <3>1
<1> HIDE DEF left, right
<1>4. left = right
  BY <1>2, <1>3, SeqEqual
<1> QED
  BY <1>4 DEF left, right

\* What is appended of a batch and what is left of it are the batch.
LEMMA BatchIsKept ==
    ASSUME NEW S, NEW done \in Seq(S), NEW left \in Seq(S), left # <<>>
    PROVE  Append(done, Head(left)) \o Tail(left) = done \o left
<1> DEFINE a == Append(done, Head(left)) \o Tail(left)
           b == done \o left
<1>1. /\ Append(done, Head(left)) \in Seq(S) /\ Tail(left) \in Seq(S)
      /\ Len(Append(done, Head(left))) = Len(done) + 1 /\ Len(Tail(left)) = Len(left) - 1
      /\ Len(left) \in Nat \ {0} /\ Len(done) \in Nat
  OBVIOUS
<1>2. /\ a \in Seq(S) /\ b \in Seq(S)
      /\ Len(a) = Len(done) + Len(left) /\ Len(b) = Len(done) + Len(left)
  BY <1>1, ConcatProperties
<1>3. ASSUME NEW i \in 1 .. Len(done) + Len(left) PROVE a[i] = b[i]
  <2>1. CASE i <= Len(done)
    <3>1. a[i] = Append(done, Head(left))[i] /\ b[i] = done[i]
      BY <1>1, <2>1, ConcatProperties
    <3> QED
      BY <1>1, <2>1, <3>1
  <2>2. CASE i = Len(done) + 1
    <3>1. a[i] = Append(done, Head(left))[i] /\ b[i] = left[1]
      BY <1>1, <2>2, ConcatProperties
    <3> QED
      BY <1>1, <2>2, <3>1
  <2>3. CASE i > Len(done) + 1
    <3>1. a[i] = Tail(left)[i - Len(done) - 1] /\ b[i] = left[i - Len(done)]
      BY <1>1, <2>3, ConcatProperties
    <3> QED
      BY <1>1, <2>3, <3>1
  <2> QED
    BY <1>1, <2>1, <2>2, <2>3
<1> HIDE DEF a, b
<1>4. a = b
  BY <1>2, <1>3, SeqEqual
<1> QED
  BY <1>4 DEF a, b

LEMMA NothingConcat == ASSUME NEW S, NEW q \in Seq(S) PROVE <<>> \o q = q
OBVIOUS

\* A call that has not begun or has ended asks for nothing it has appended.
LEMMA NoRowsOutside ==
    ASSUME LedgerInv, NEW c \in Connections, phase[c] # "open"
    PROVE  Wanted[c] = todo[c]
<1>1. pending[c] = <<>> /\ todo[c] \in Seq(Payloads)
  BY DEF LedgerInv, TypeInv, LockInv
<1>2. PayloadsOf(<<>>) = <<>>
  BY DEF PayloadsOf
<1> QED
  BY <1>1, <1>2, NothingConcat DEF Wanted

\* A transaction that ends is a call that leaves.
LEMMA EndIsLeave ==
    ASSUME LedgerInv, NEW c \in Connections, phase[c] # "closed",
           phase' = [phase EXCEPT ![c] = "closed"], 
           todo' = [todo EXCEPT ![c] = <<>>],
           pending' = [pending EXCEPT ![c] = <<>>]
    PROVE  Atomic!Leave(c)
<1>1. c \in Calling /\ Calling' = Calling \ {c}
  BY DEF Calling, LedgerInv, TypeInv
<1>2. <<>> \o <<>> = <<>> /\ PayloadsOf(<<>>) = <<>>
  <2>1. <<>> \in Seq(Payloads)
    OBVIOUS
  <2> QED
    BY <2>1, NothingConcat DEF PayloadsOf
<1>3. Wanted' = [Wanted EXCEPT ![c] = <<>>]
  <2>1. \A d \in Connections : Wanted'[d] = PayloadsOf(pending'[d]) \o todo'[d]
    BY DEF Wanted, PayloadsOf
  <2>2. Wanted'[c] = <<>>
    BY <1>2, <2>1 DEF LedgerInv, TypeInv
  <2>3. \A d \in Connections \ {c} : Wanted'[d] = Wanted[d]
    BY <2>1 DEF Wanted, LedgerInv, TypeInv
  <2> QED
    BY <2>2, <2>3 DEF Wanted
<1> QED
  BY <1>1, <1>3 DEF Atomic!Leave

LEMMA StepIsAtomic == LedgerInv /\ [Next]_vars => [Atomic!Next]_(Atomic!atomicVars)
<1> SUFFICES ASSUME LedgerInv, [Next]_vars PROVE [Atomic!Next]_(Atomic!atomicVars)
  OBVIOUS
<1> USE DEF Atomic!atomicVars
<1>1. ASSUME NEW c \in Connections, NEW batch \in Batches, Connect(c, batch)
      PROVE  Atomic!Ask(c, batch)
  <2>1. c \notin Calling /\ Calling' = Calling \cup {c}
    BY <1>1 DEF Connect, Calling, LedgerInv, TypeInv
  <2>2. pending[c] = <<>> /\ PayloadsOf(<<>>) = <<>> /\ batch \in Seq(Payloads)
    BY <1>1, LedgerAssumption DEF Connect, LedgerInv, LockInv, PayloadsOf, Batches
  <2>3. \A d \in Connections : Wanted'[d] = PayloadsOf(pending[d]) \o todo'[d]
    BY <1>1 DEF Connect, Wanted
  <2>4. Wanted'[c] = batch
    BY <1>1, <2>2, <2>3, NothingConcat DEF Connect, LedgerInv, TypeInv
  <2>5. \A d \in Connections \ {c} : Wanted'[d] = Wanted[d]
    BY <1>1, <2>3 DEF Connect, Wanted, LedgerInv, TypeInv
  <2>6. Wanted' = [Wanted EXCEPT ![c] = batch]
    BY <2>4, <2>5 DEF Wanted
  <2>7. PayloadsOf(events)' = PayloadsOf(events)
    BY <1>1 DEF Connect, PayloadsOf
  <2> QED
    BY <2>1, <2>6, <2>7 DEF Atomic!Ask
<1>2. ASSUME NEW c \in Connections, Begin(c) PROVE UNCHANGED <<PayloadsOf(events), Calling, Wanted>>
  BY <1>2 DEF Begin, MayBegin, Calling, Wanted, PayloadsOf, LedgerInv, TypeInv
<1>3. ASSUME NEW c \in Connections, Busy(c) PROVE Atomic!GiveUp(c)
  <2>1. pending' = [pending EXCEPT ![c] = <<>>] /\ phase[c] # "closed"
    BY <1>3 DEF Busy, TimesOut, LedgerInv, TypeInv, LockInv
  <2>2. Atomic!Leave(c)
    BY <1>3, <2>1, EndIsLeave DEF Busy
  <2> QED
    BY <1>3, <2>2 DEF Busy, Atomic!GiveUp, PayloadsOf
<1>4. ASSUME NEW c \in Connections, AppendEvent(c)
      PROVE  UNCHANGED <<PayloadsOf(events), Calling, Wanted>>
  <2> DEFINE row == [payload |-> Head(todo[c]), previous |-> LastHash(c),
                     hash |-> Hash(LastHash(c), Head(todo[c]))]
  <2>1. /\ todo[c] # <<>> /\ pending' = [pending EXCEPT ![c] = Append(@, row)]
        /\ todo' = [todo EXCEPT ![c] = Tail(@)] /\ UNCHANGED <<events, writer, phase>>
    BY <1>4 DEF AppendEvent
  <2>2. todo[c] \in Seq(Payloads) /\ pending[c] \in Seq(Rows)
    BY DEF LedgerInv, TypeInv
  <2>3. row \in Rows /\ row.payload = Head(todo[c])
    <3>1. Head(todo[c]) \in Payloads
      BY <2>1, <2>2
    <3>2. LastHash(c) \in Seq(Payloads)
      BY LastHashType DEF LedgerInv
    <3> QED
      BY <3>1, <3>2 DEF Rows, Hash
  <2> HIDE DEF row
  <2>4. \A d \in Connections : Wanted'[d] = PayloadsOf(pending'[d]) \o todo'[d]
    BY DEF Wanted, PayloadsOf
  <2>5. Wanted'[c] = Wanted[c]
    <3>1. Wanted'[c] = PayloadsOf(Append(pending[c], row)) \o Tail(todo[c])
      BY <2>1, <2>4 DEF LedgerInv, TypeInv
    <3>2. PayloadsOf(Append(pending[c], row)) = Append(PayloadsOf(pending[c]), Head(todo[c]))
      BY <2>2, <2>3, PayloadsAppend
    <3>3. PayloadsOf(pending[c]) \in Seq(Payloads)
      BY <2>2, PayloadsType
    <3>4. Append(PayloadsOf(pending[c]), Head(todo[c])) \o Tail(todo[c])
            = PayloadsOf(pending[c]) \o todo[c]
      BY <2>1, <2>2, <3>3, BatchIsKept
    <3> QED
      BY <3>1, <3>2, <3>4 DEF Wanted
  <2>6. \A d \in Connections \ {c} : Wanted'[d] = Wanted[d]
    BY <2>1, <2>4 DEF Wanted, LedgerInv, TypeInv
  <2>7. Wanted' = Wanted
    BY <2>5, <2>6 DEF Wanted
  <2> QED
    BY <2>1, <2>7 DEF PayloadsOf, Calling
<1>5. ASSUME NEW c \in Connections, Commit(c) PROVE Atomic!Write(c)
  <2>1. /\ phase[c] = "open" /\ todo[c] = <<>> /\ events' = events \o pending[c]
        /\ phase' = [phase EXCEPT ![c] = "closed"] /\ todo' = [todo EXCEPT ![c] = <<>>]
        /\ pending' = [pending EXCEPT ![c] = <<>>]
    BY <1>5 DEF Commit, Release, Forget
  <2>2. Atomic!Leave(c)
    BY <2>1, EndIsLeave
  <2>3. events \in Seq(Rows) /\ pending[c] \in Seq(Rows)
    BY DEF LedgerInv, TypeInv
  <2>4. Wanted[c] = PayloadsOf(pending[c])
    <3>1. PayloadsOf(pending[c]) \in Seq(Payloads)
      BY <2>3, PayloadsType
    <3> QED
      BY <2>1, <3>1, ConcatNothing DEF Wanted
  <2>5. PayloadsOf(events') = PayloadsOf(events) \o Wanted[c]
    BY <2>1, <2>3, <2>4, PayloadsConcat
  <2>6. PayloadsOf(events)' = PayloadsOf(events')
    BY DEF PayloadsOf
  <2> QED
    BY <2>2, <2>5, <2>6 DEF Atomic!Write
<1>6. ASSUME NEW c \in Connections, Fail(c) PROVE Atomic!GiveUp(c)
  <2>1. events' = events
    BY <1>6, ConcatNothing DEF Fail, SurvivesFailure, LedgerInv, TypeInv
  <2>2. Atomic!Leave(c)
    BY <1>6, EndIsLeave DEF Fail, Release, Forget
  <2> QED
    BY <2>1, <2>2 DEF Atomic!GiveUp, PayloadsOf
<1>7. CASE UNCHANGED vars
  BY <1>7 DEF vars, PayloadsOf, Calling, Wanted
<1> QED
  BY <1>1, <1>2, <1>3, <1>4, <1>5, <1>6, <1>7 DEF Next, Atomic!Next

\* Transactions are one step to everybody else: whatever is interleaved, fails
\* or dies, the log is the whole batches of some calls, each written at one
\* instant of its call.
THEOREM LedgerIsAtomic == Spec => ImplementsAtomicLedger
<1>1. Init => Atomic!Init
  <2> SUFFICES ASSUME Init PROVE Atomic!Init
    OBVIOUS
  <2>1. PayloadsOf(<<>>) = <<>>
    BY DEF PayloadsOf
  <2>2. <<>> \o <<>> = <<>>
    <3>1. <<>> \in Seq(Payloads)
      OBVIOUS
    <3> QED
      BY <3>1, NothingConcat
  <2> QED
    BY <2>1, <2>2 DEF Init, Atomic!Init, Calling, Wanted
<1> QED
  BY <1>1, StepIsAtomic, AlwaysLedgerInv, PTL DEF Spec, ImplementsAtomicLedger, Atomic!Spec
=============================================================================
