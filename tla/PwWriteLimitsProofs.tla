------------------------- MODULE PwWriteLimitsProofs -------------------------
(* The limits of PwWriteLimits, for any number of transactions, readers,      *)
(* sessions and intents, any limits, bursts, caps and periods, and any clock. *)
(*                                                                            *)
(* What a transaction counted is still worth what it was at its COMMIT        *)
(* because of the lock it holds: no one else inserts an intent of its reader, *)
(* answers a status of its intent or is charged on its buckets (LockInv).     *)
(* The bucket it was charged on has no row after the instant of the count     *)
(* (Checked), so that any window with the new row ends after that instant and *)
(* holds no more than what was counted.                                       *)
EXTENDS PwWriteLimits, FoldTheorems, SequenceTheorems

Past == {"bucket", "charge", "commit"}

(* A transaction past its first lock has what it read there.                  *)
JobOK(p) ==
  /\ pc[p] = "idle" => job[p] = Idle
  /\ pc[p] # "idle" => job[p].reader \in Readers
  /\ pc[p] = "reader" => job[p].kind = "prepare"
  /\ pc[p] = "budget" => job[p].kind = "status"
  /\ pc[p] \notin Past => job[p].charged = <<>>
  /\ pc[p] \in {"bucket", "charge"} => Len(job[p].charged) < Len(Bill(p))
  /\ pc[p] = "commit" => Len(job[p].charged) = Len(Bill(p))
  /\ job[p].kind \in {"prepare", "status"} => job[p].intent \in Intents
  /\ job[p].kind = "prepare" => intents[job[p].intent] = NoIntent
  /\ job[p].kind = "status" =>
       /\ intents[job[p].intent] # NoIntent
       /\ Owner[intents[job[p].intent].session] = job[p].reader
  /\ job[p].kind = "prepare" /\ pc[p] \in Past =>
       job[p].row \in IntentRows /\ Owner[job[p].row.session] = job[p].reader
  /\ job[p].kind = "status" /\ pc[p] \in Past => job[p].budget \in Budgets
  /\ job[p].began <= now
  /\ \A n \in 1..Len(job[p].charged) : job[p].charged[n] <= now

(* The locks exclude, and an intent is prepared by one transaction.           *)
Excludes(p, q) ==
  /\ job[p].kind = "prepare" /\ job[q].kind = "prepare" =>
       job[p].intent # job[q].intent
  /\ /\ job[p].kind = "prepare" /\ job[q].kind = "prepare"
     /\ pc[p] \in Past /\ pc[q] \in Past
     => job[p].reader # job[q].reader
  /\ /\ job[p].kind = "status" /\ job[q].kind = "status"
     /\ pc[p] \in Past /\ pc[q] \in Past
     => job[p].intent # job[q].intent
  /\ \A b \in Buckets : ~(HoldsBucket(p, b) /\ HoldsBucket(q, b))

(* The caps hold with the row that is still in a transaction's buffer.        *)
With(p) == [intents EXCEPT ![job[p].intent] = job[p].row]
CapOK(p) ==
  job[p].kind = "prepare" /\ pc[p] \in Past =>
    /\ Cardinality(OfReader(With(p), now, job[p].reader)) <= ReaderCap
    /\ Cardinality(OfSession(With(p), now, job[p].row.session)) <= SessionCap

(* The budget in a transaction's buffer follows the one in the table.         *)
Spacing(b) == IF b.last < b.first + Initial THEN Fast ELSE Slow
Follows(b, old) ==
  /\ b.first <= b.last /\ b.initial \in 1..MaxInitial
  /\ old = NoIntent => b.last = b.first
  /\ old # NoIntent => b.first = old.first /\ b.last - old.last >= Spacing(b)
PaceOK(p) ==
  job[p].kind = "status" /\ pc[p] \in Past =>
    Follows(job[p].budget, budgets[job[p].intent])

(* What the count of a bucket at T established, while nobody is charged.      *)
Checked(b, T) ==
  /\ \A t \in Time : t > T => ledger[b][t] = 0
  /\ Rows(b, (T - Window + 1)..T) < Limits[b[1]]
  /\ \A s \in Time : T - Window < s /\ s <= T =>
       Rows(b, s..T) * Window + Window
         <= Bursts[b[1]] * Window + (T - s) * Limits[b[1]]
CheckOK(p) ==
  /\ \A n \in 1..Len(job[p].charged) :
       \E T \in Time : T <= job[p].charged[n] /\ Checked(Bill(p)[n], T)
  /\ pc[p] = "charge" => \E T \in Time : T <= now /\ Checked(Asked(p), T)

(* A budget tells the first and the last read of its intent.                  *)
ReadInv ==
  \A i \in Intents :
    /\ intents[i] = NoIntent => reads[i] = <<>>
    /\ budgets[i] = NoIntent <=> reads[i] = <<>>
    /\ budgets[i] # NoIntent => /\ budgets[i].first = reads[i][1]
                                /\ budgets[i].last = reads[i][Len(reads[i])]
NoneLater == \A b \in Buckets, t \in Time : t > now => ledger[b][t] = 0
JobInv ==
  \A p \in Processes : JobOK(p) /\ CapOK(p) /\ PaceOK(p) /\ CheckOK(p)
LockInv == \A p, q \in Processes : p # q => Excludes(p, q)

Core == TypeOK /\ ReadInv /\ NoneLater /\ JobInv /\ LockInv

Statements == Waiting \cup {"idle", "charge", "commit"}
-----------------------------------------------------------------------------
\* What a transaction is charged: distinct buckets, two for an admission.
LEMMA Billed ==
  ASSUME NEW k \in Kinds, NEW r \in Readers
  PROVE  /\ Charges(k, r) \in Seq(Buckets)
         /\ Len(Charges(k, r)) = IF k = "admission" THEN 2 ELSE 1
         /\ \A m, n \in 1..Len(Charges(k, r)) :
              Charges(k, r)[m] = Charges(k, r)[n] => m = n
<1>1. CASE k = "admission"
  BY <1>1 DEF Charges, Buckets, Classes
<1>2. CASE k # "admission"
  <2>1. PICK c \in Classes \ {"workspace"} : Charges(k, r) = <<<<c, r>>>>
    BY <1>2 DEF Charges, Classes, Kinds
  <2>2. <<c, r>> \in Buckets
    BY DEF Buckets
  <2> QED BY <1>2, <2>1, <2>2
<1> QED BY <1>1, <1>2

\* A process at rest buffers nothing.
LEMMA IdleJob == Idle \in Jobs /\ Idle.kind = "attempt" /\ Idle.charged = <<>>
                 /\ Idle.began = 0
  BY LimitsAssumption DEF Idle, Jobs, Kinds, Time

(* A statement that changes nothing but where its transaction is and what it  *)
(* buffers.                                                                   *)
LEMMA ExcludesSym ==
  ASSUME NEW p \in Processes, NEW q \in Processes, Excludes(p, q)
  PROVE  Excludes(q, p)
  BY DEF Excludes

\* The rows of a bucket in a set of instants are a sum.
LEMMA RowsSum ==
  /\ \A b, S : Rows(b, S) = SumOf(ledger[b], S \cap Time)
  /\ \A b, S : Rows(b, S)' = SumOf(ledger'[b], S \cap Time)
  BY DEF Rows, SumOf, FoldFunctionOnSet, MapThenFoldSet

\* What a check was worth depends on the ledger alone.
LEMMA CheckedStays ==
  ASSUME UNCHANGED ledger
  PROVE  /\ \A b, S : Rows(b, S)' = Rows(b, S)
         /\ \A b, T : Checked(b, T)' <=> Checked(b, T)
<1>1. \A b, S : Rows(b, S)' = Rows(b, S)
  <2> TAKE b, S
  <2>1. ledger'[b] = ledger[b]
    OBVIOUS
  <2> QED BY <2>1, RowsSum
<1>2. ASSUME NEW b, NEW T PROVE Checked(b, T)' <=> Checked(b, T)
  <2>1. Rows(b, (T - Window + 1)..T)' = Rows(b, (T - Window + 1)..T)
    BY <1>1
  <2>2. \A s \in Time : Rows(b, s..T)' = Rows(b, s..T)
    BY <1>1
  <2> QED BY <2>1, <2>2 DEF Checked
<1> QED BY <1>1, <1>2

\* A transaction that goes on with what its next statement needs keeps the invariant.
LEMMA GotoFrame ==
  ASSUME Core, NEW p \in Processes, NEW st \in Statements, NEW j \in Jobs,
         Goto(p, st, j), JobOK(p)', CapOK(p)', PaceOK(p)', CheckOK(p)',
         \A q \in Processes : q # p => Excludes(p, q)'
  PROVE  Core'
<1>1. /\ pc' = [pc EXCEPT ![p] = st] /\ job' = [job EXCEPT ![p] = j]
      /\ UNCHANGED <<now, ledger, intents, budgets, reads, admitted>>
  BY DEF Goto, tables, history
<1>2. /\ pc \in [Processes -> Statements] /\ job \in [Processes -> Jobs]
  BY DEF Core, TypeOK, Statements
<1>3. TypeOK'
  <2>1. pc' \in [Processes -> Statements] /\ job' \in [Processes -> Jobs]
    BY <1>1, <1>2
  <2> QED BY <1>1, <2>1 DEF Core, TypeOK, Statements
<1>4. ReadInv' /\ NoneLater'
  BY <1>1 DEF Core, ReadInv, NoneLater
<1>5. ASSUME NEW q \in Processes, q # p
      PROVE  pc'[q] = pc[q] /\ job'[q] = job[q]
  BY <1>1, <1>2, <1>5
<1>6. JobInv'
  <2> SUFFICES ASSUME NEW q \in Processes
               PROVE  JobOK(q)' /\ CapOK(q)' /\ PaceOK(q)' /\ CheckOK(q)'
    BY DEF JobInv
  <2>1. CASE q = p
    BY <2>1
  <2>2. CASE q # p
    <3>1. pc'[q] = pc[q] /\ job'[q] = job[q]
      BY <1>5, <2>2
    <3>2. JobOK(q) /\ CapOK(q) /\ PaceOK(q) /\ CheckOK(q)
      BY DEF Core, JobInv
    <3>3. JobOK(q)'
      BY <1>1, <3>1, <3>2 DEF JobOK, Bill
    <3>4. CapOK(q)'
      BY <1>1, <3>1, <3>2 DEF CapOK, With, OfReader, OfSession, Live
    <3>5. PaceOK(q)'
      BY <1>1, <3>1, <3>2 DEF PaceOK
    <3>6. CheckOK(q)'
      <4>1. \A b, T : Checked(b, T)' <=> Checked(b, T)
        BY <1>1, CheckedStays
      <4>2. Bill(q)' = Bill(q) /\ Asked(q)' = Asked(q)
        BY <3>1 DEF Bill, Asked
      <4> QED BY <1>1, <3>1, <3>2, <4>1, <4>2 DEF CheckOK
    <3> QED BY <3>3, <3>4, <3>5, <3>6
  <2> QED BY <2>1, <2>2
<1>7. LockInv'
  <2> SUFFICES ASSUME NEW q \in Processes, NEW r \in Processes, q # r
               PROVE  Excludes(q, r)'
    BY DEF LockInv
  <2>1. CASE q = p
    BY <2>1
  <2>2. CASE r = p
    BY <2>2 DEF Excludes
  <2>3. CASE q # p /\ r # p
    <3>1. /\ pc'[q] = pc[q] /\ job'[q] = job[q]
          /\ pc'[r] = pc[r] /\ job'[r] = job[r]
      BY <1>5, <2>3
    <3>2. Excludes(q, r)
      BY DEF Core, LockInv
    <3> QED BY <3>1, <3>2 DEF Excludes, HoldsBucket, Asked, Bill
  <2> QED BY <2>1, <2>2, <2>3
<1> QED BY <1>3, <1>4, <1>6, <1>7 DEF Core

\* It changes its own place and job only.
LEMMA GotoValues ==
  ASSUME TypeOK, NEW p \in Processes, NEW st, NEW j, Goto(p, st, j)
  PROVE  /\ pc'[p] = st /\ job'[p] = j
         /\ \A q \in Processes : q # p => pc'[q] = pc[q] /\ job'[q] = job[q]
         /\ \A q \in Processes : q # p =>
              \A b : HoldsBucket(q, b)' <=> HoldsBucket(q, b)
         /\ UNCHANGED <<now, ledger, intents, budgets, reads, admitted>>
<1>1. /\ pc'[p] = st /\ job'[p] = j
      /\ \A q \in Processes : q # p => pc'[q] = pc[q] /\ job'[q] = job[q]
      /\ UNCHANGED <<now, ledger, intents, budgets, reads, admitted>>
  BY DEF Goto, TypeOK, tables, history
<1> QED BY <1>1 DEF HoldsBucket, Bill, Asked

\* A transaction rolled back keeps the invariant.
LEMMA RollBackStep ==
  ASSUME Core, NEW p \in Processes, RollBack(p)
  PROVE  Core'
<1>1. Goto(p, "idle", Idle) /\ TypeOK
  BY DEF RollBack, Core
<1>2. pc'[p] = "idle" /\ job'[p] = Idle /\ now' = now /\ now \in Time
  BY <1>1, GotoValues DEF TypeOK
<1>3. JobOK(p)'
  BY <1>2, IdleJob DEF JobOK, Past, Time
<1>4. CapOK(p)' /\ PaceOK(p)' /\ CheckOK(p)'
  BY <1>2, IdleJob DEF CapOK, PaceOK, CheckOK
<1>5. \A q \in Processes : q # p => Excludes(p, q)'
  BY <1>2, IdleJob DEF Excludes, HoldsBucket
<1> QED BY <1>1, <1>3, <1>4, <1>5, IdleJob, GotoFrame DEF Statements

(* A transaction begins: its locks are not asked yet.                         *)
LEMMA BeginStep ==
  ASSUME Core, NEW p \in Processes, NEW k \in Kinds, NEW r \in Readers,
         NEW i \in Intents \cup {NoIntent}, Begin(p, k, r, i),
         k = "prepare" => /\ i \in Intents /\ intents[i] = NoIntent
                          /\ \A q \in Processes : job[q].intent # i,
         k = "status" => /\ i \in Intents /\ intents[i] # NoIntent
                         /\ r = Owner[intents[i].session]
  PROVE  Core'
<1> DEFINE j == [Idle EXCEPT !.kind = k, !.reader = r, !.intent = i,
                             !.began = IF k = "prepare" THEN now ELSE 0]
<1>1. Goto(p, First(k), j) /\ TypeOK /\ now \in Time /\ now \in Nat
  BY DEF Begin, Goto, Core, TypeOK, Time
<1>2. /\ j \in Jobs /\ j.charged = <<>> /\ j.kind = k /\ j.reader = r
      /\ j.intent = i /\ j.began <= now
  <2>1. PICK b \in Time : b = IF k = "prepare" THEN now ELSE 0
    BY <1>1, LimitsAssumption DEF Time
  <2>2. j = [kind |-> k, reader |-> r, intent |-> i, began |-> b,
             row |-> NoIntent, budget |-> NoIntent, charged |-> <<>>]
    <3>1. j = [Idle EXCEPT !.kind = k, !.reader = r, !.intent = i, !.began = b]
      BY <2>1
    <3> HIDE DEF j
    <3> QED BY <3>1 DEF Idle
  <2> HIDE DEF j
  <2>3. <<>> \in Seq(Time)
    OBVIOUS
  <2>4. j \in Jobs
    BY <2>2, <2>3 DEF Jobs
  <2>5. b <= now
    BY <1>1, <2>1
  <2> QED BY <2>2, <2>4, <2>5
<1> HIDE DEF j
<1>3. /\ pc'[p] = First(k) /\ job'[p] = j
      /\ UNCHANGED <<now, ledger, intents, budgets, reads, admitted>>
      /\ \A q \in Processes : q # p => pc'[q] = pc[q] /\ job'[q] = job[q]
  BY <1>1, GotoValues
<1>4. /\ First(k) \in Statements /\ First(k) \notin {"idle", "charge", "commit"}
      /\ First(k) = "reader" => k = "prepare"
      /\ First(k) = "budget" => k = "status"
      /\ First(k) = "bucket" => k \in {"attempt", "admission"}
  BY DEF First, Statements, Waiting, Kinds
<1>5. Len(Bill(p)') > 0
  <2>1. Bill(p)' = Charges(k, r)
    BY <1>2, <1>3 DEF Bill
  <2>2. Len(Charges(k, r)) = IF k = "admission" THEN 2 ELSE 1
    BY Billed
  <2> QED BY <2>1, <2>2
<1>6. JobOK(p)'
  BY <1>2, <1>3, <1>4, <1>5 DEF JobOK, Past
<1>7. CapOK(p)' /\ PaceOK(p)' /\ CheckOK(p)'
  BY <1>2, <1>3, <1>4 DEF CapOK, PaceOK, CheckOK, Past
<1>8. ASSUME NEW q \in Processes, q # p PROVE Excludes(p, q)'
  <2>1. ~(k \in {"prepare", "status"} /\ First(k) \in Past)
    BY <1>4 DEF Past
  <2>2. \A b : ~HoldsBucket(p, b)'
    BY <1>2, <1>3, <1>4 DEF HoldsBucket
  <2>3. k = "prepare" => job[q].intent # i
    OBVIOUS
  <2> QED BY <1>2, <1>3, <1>8, <2>1, <2>2, <2>3 DEF Excludes
<1> QED BY <1>1, <1>2, <1>4, <1>6, <1>7, <1>8, GotoFrame

(* Fewer intents are live the later they are counted.                         *)
LEMMA LiveLater ==
  ASSUME NEW rows \in [Intents -> IntentRows \cup {NoIntent}],
         NEW a \in Nat, NEW b \in Nat, a <= b, NEW r, NEW s
  PROVE  /\ IsFiniteSet(OfReader(rows, a, r))
         /\ IsFiniteSet(OfSession(rows, a, s))
         /\ Cardinality(OfReader(rows, a, r)) \in Nat
         /\ Cardinality(OfSession(rows, a, s)) \in Nat
         /\ Cardinality(OfReader(rows, b, r)) \in Nat
         /\ Cardinality(OfSession(rows, b, s)) \in Nat
         /\ Cardinality(OfReader(rows, b, r))
              <= Cardinality(OfReader(rows, a, r))
         /\ Cardinality(OfSession(rows, b, s))
              <= Cardinality(OfSession(rows, a, s))
<1>1. /\ OfReader(rows, a, r) \subseteq Intents
      /\ OfSession(rows, a, s) \subseteq Intents
  BY DEF OfReader, OfSession, Live
<1>2. /\ IsFiniteSet(OfReader(rows, a, r)) /\ IsFiniteSet(OfSession(rows, a, s))
  BY <1>1, FS_Subset, NamesAssumption
<1>3. Live(rows, b) \subseteq Live(rows, a)
  BY DEF Live, IntentRows
<1>4. /\ OfReader(rows, b, r) \subseteq OfReader(rows, a, r)
      /\ OfSession(rows, b, s) \subseteq OfSession(rows, a, s)
  BY <1>3 DEF OfReader, OfSession
<1> QED BY <1>2, <1>4, FS_Subset, FS_CardinalityType

\* The insertion of an intent, counted under the reader's lock, keeps it.
LEMMA InsertStep ==
  ASSUME Core, NEW p \in Processes, NEW s \in Sessions, NEW life \in 1..TTL,
         InsertIntent(p, s, life)
  PROVE  Core'
<1> DEFINE row == [session |-> s, expires |-> now + life, pending |-> TRUE]
           rows == [intents EXCEPT ![job[p].intent] = row]
           j == [job[p] EXCEPT !.row = row]
<1>1. CASE RollBack(p)
  BY <1>1, RollBackStep
<1>2. CASE /\ Goto(p, "bucket", j)
           /\ Cardinality(OfSession(rows, job[p].began, s)) <= SessionCap
           /\ Cardinality(OfReader(rows, job[p].began, Owner[s])) <= ReaderCap
  <2>1. /\ TypeOK /\ JobOK(p) /\ job[p] \in Jobs /\ now \in Nat /\ row \in IntentRows
        /\ pc[p] = "reader" /\ Owner[s] = job[p].reader
        /\ ReaderFree(job[p].reader)
    <3>1. life \in Nat
      BY LimitsAssumption
    <3> QED BY <3>1 DEF InsertIntent, Core, TypeOK, JobInv, Time, IntentRows
  <2>2. /\ job[p].kind = "prepare" /\ job[p].charged = <<>>
        /\ job[p].intent \in Intents /\ intents[job[p].intent] = NoIntent
        /\ job[p].began <= now /\ job[p].began \in Nat
        /\ job[p].reader \in Readers
    BY <2>1 DEF JobOK, Past, Jobs, Time
  <2>3. /\ j \in Jobs /\ j.row = row /\ j.kind = "prepare" /\ j.charged = <<>>
        /\ j.intent = job[p].intent /\ j.reader = job[p].reader
        /\ j.began = job[p].began
    BY <2>1, <2>2 DEF Jobs
  <2>4. rows \in [Intents -> IntentRows \cup {NoIntent}]
    BY <2>1 DEF TypeOK
  <2>5. row.session = s
    OBVIOUS
  <2> HIDE DEF row, j
  <2>6. /\ pc'[p] = "bucket" /\ job'[p] = j
        /\ UNCHANGED <<now, ledger, intents, budgets, reads, admitted>>
        /\ \A q \in Processes : q # p => pc'[q] = pc[q] /\ job'[q] = job[q]
        /\ \A q \in Processes : q # p =>
              \A b : HoldsBucket(q, b)' <=> HoldsBucket(q, b)
    BY <1>2, <2>1, GotoValues
  <2>7. Len(Bill(p)') > 0
    <3>1. Bill(p)' = Charges("prepare", job[p].reader)
      BY <2>3, <2>6 DEF Bill
    <3>2. Len(Charges("prepare", job[p].reader)) = 1
      BY <2>2, Billed DEF Kinds
    <3>3. Len(Bill(p)') = 1
      BY <3>1, <3>2, Zenon
    <3> HIDE DEF rows
    <3> QED BY <3>3
  <2>8. JobOK(p)'
    BY <2>1, <2>2, <2>3, <2>5, <2>6, <2>7 DEF JobOK, Past
  <2>9. CapOK(p)'
    <3>1. With(p)' = rows
      BY <2>3, <2>6 DEF With
    <3>2. /\ Cardinality(OfReader(rows, now, Owner[s]))
               <= Cardinality(OfReader(rows, job[p].began, Owner[s]))
          /\ Cardinality(OfSession(rows, now, s))
               <= Cardinality(OfSession(rows, job[p].began, s))
          /\ Cardinality(OfReader(rows, now, Owner[s])) \in Nat
          /\ Cardinality(OfSession(rows, now, s)) \in Nat
          /\ Cardinality(OfReader(rows, job[p].began, Owner[s])) \in Nat
          /\ Cardinality(OfSession(rows, job[p].began, s)) \in Nat
      <4> HIDE DEF rows
      <4> QED BY <2>1, <2>2, <2>4, LiveLater
    <3> HIDE DEF rows
    <3>3. /\ Cardinality(OfReader(rows, now, Owner[s])) <= ReaderCap
          /\ Cardinality(OfSession(rows, now, s)) <= SessionCap
      BY <1>2, <3>2, LimitsAssumption
    <3> QED BY <2>1, <2>3, <2>5, <2>6, <3>1, <3>3 DEF CapOK, OfReader, OfSession, Live
  <2>10. PaceOK(p)' /\ CheckOK(p)'
    BY <2>3, <2>6 DEF PaceOK, CheckOK
  <2>11. ASSUME NEW q \in Processes, q # p PROVE Excludes(p, q)'
    <3>1. \A b : ~HoldsBucket(p, b)'
      BY <2>3, <2>6 DEF HoldsBucket
    <3>2. Excludes(p, q)
      BY <2>11 DEF Core, LockInv
    <3>3. job[q].kind = "prepare" /\ pc[q] \in Past =>
            job[q].reader # job[p].reader
      BY <2>1 DEF ReaderFree, HoldsReader, Past
    <3> QED BY <2>2, <2>3, <2>6, <2>11, <3>1, <3>2, <3>3 DEF Excludes
  <2> QED BY <1>2, <2>3, <2>8, <2>9, <2>10, <2>11, GotoFrame DEF Statements, Waiting
<1>3. \/ RollBack(p)
      \/ /\ Goto(p, "bucket", j)
         /\ ~(Cardinality(OfSession(rows, job[p].began, s)) > SessionCap)
         /\ ~(Cardinality(OfReader(rows, job[p].began, Owner[s])) > ReaderCap)
  <2>1. IF \/ Cardinality(OfSession(rows, job[p].began, s)) > SessionCap
           \/ Cardinality(OfReader(rows, job[p].began, Owner[s])) > ReaderCap
        THEN RollBack(p) ELSE Goto(p, "bucket", j)
    BY Zenon DEF InsertIntent
  <2> HIDE DEF rows, row, j
  <2> QED BY <2>1
<1>4. /\ Cardinality(OfSession(rows, job[p].began, s)) \in Nat
      /\ Cardinality(OfReader(rows, job[p].began, Owner[s])) \in Nat
  <2>1. /\ OfSession(rows, job[p].began, s) \subseteq Intents
        /\ OfReader(rows, job[p].began, Owner[s]) \subseteq Intents
    BY DEF OfReader, OfSession, Live
  <2> QED BY <2>1, FS_Subset, FS_CardinalityType, NamesAssumption
<1>5. CASE ~RollBack(p)
  <2> HIDE DEF rows, row, j
  <2>1. /\ Cardinality(OfSession(rows, job[p].began, s)) <= SessionCap
        /\ Cardinality(OfReader(rows, job[p].began, Owner[s])) <= ReaderCap
    BY <1>3, <1>4, <1>5, LimitsAssumption
  <2> QED BY <1>2, <1>3, <1>5, <2>1
<1> QED BY <1>1, <1>5

\* The read of a status budget under the intent's lock keeps it.
LEMMA ReadBudgetStep ==
  ASSUME Core, NEW p \in Processes, ReadBudget(p)
  PROVE  Core'
<1> DEFINE i == job[p].intent
           old == budgets[i]
           j == [job[p] EXCEPT !.budget = Budgeted(old)]
<1>1. CASE RollBack(p)
  BY <1>1, RollBackStep
<1>2. CASE ~RollBack(p)
  <2>1. /\ Goto(p, "bucket", j) /\ (old = NoIntent \/ Paced(old))
        /\ pc[p] = "budget" /\ BudgetFree(i)
    BY <1>2 DEF ReadBudget
  <2>2. /\ TypeOK /\ JobOK(p) /\ job[p] \in Jobs /\ now \in Time /\ now \in Nat
    BY DEF Core, TypeOK, JobInv, Time
  <2>3. /\ job[p].kind = "status" /\ job[p].charged = <<>> /\ i \in Intents
        /\ intents[i] # NoIntent /\ Owner[intents[i].session] = job[p].reader
        /\ job[p].began <= now /\ job[p].reader \in Readers
    BY <2>1, <2>2 DEF JobOK, Past
  <2>4. /\ Budgeted(old) \in Budgets /\ Follows(Budgeted(old), old)
    <3>1. CASE old = NoIntent
      BY <2>2, <3>1, LimitsAssumption DEF Budgeted, Budgets, Follows
    <3>2. CASE old # NoIntent
      <4>1. /\ old \in Budgets /\ old.first <= old.last
            /\ old.initial \in 1..MaxInitial
        BY <2>2, <2>3, <3>2 DEF TypeOK
      <4>2. /\ old.first \in Nat /\ old.last \in Nat /\ old.initial \in Nat
            /\ old.first \in Time
        BY <4>1 DEF Budgets, Time
      <4>3. Paced(old)
        BY <2>1, <3>2
      <4>4. PICK n \in Nat : n = IF InFirst(old) THEN old.initial + 1
                                 ELSE old.initial
        BY <4>2
      <4>5. Budgeted(old) = [old EXCEPT !.last = now, !.initial = n]
        BY <3>2, <4>4 DEF Budgeted
      <4>6. Budgeted(old) = [first |-> old.first, last |-> now, initial |-> n]
        BY <4>1, <4>5 DEF Budgets
      <4>7. Budgeted(old) \in Budgets
        BY <2>2, <4>2, <4>6 DEF Budgets
      <4>8. old.last <= now
        BY <2>2, <4>2, <4>3, LimitsAssumption DEF Paced
      <4>9. n \in 1..MaxInitial
        BY <4>1, <4>2, <4>3, <4>4, LimitsAssumption DEF Paced
      <4>10. now - old.last >= IF now < old.first + Initial THEN Fast ELSE Slow
        BY <2>2, <4>2, <4>3, LimitsAssumption DEF Paced, InFirst
      <4> QED BY <2>2, <3>2, <4>1, <4>2, <4>6, <4>7, <4>8, <4>9, <4>10
             DEF Follows, Spacing
    <3> QED BY <3>1, <3>2
  <2>5. /\ j \in Jobs /\ j.budget = Budgeted(old) /\ j.kind = "status"
        /\ j.charged = <<>> /\ j.intent = i /\ j.reader = job[p].reader
        /\ j.began = job[p].began
    BY <2>2, <2>3, <2>4 DEF Jobs
  <2> HIDE DEF j
  <2>6. /\ pc'[p] = "bucket" /\ job'[p] = j
        /\ UNCHANGED <<now, ledger, intents, budgets, reads, admitted>>
        /\ \A q \in Processes : q # p => pc'[q] = pc[q] /\ job'[q] = job[q]
    BY <2>1, <2>2, GotoValues
  <2>7. Len(Bill(p)') > 0
    <3>1. Bill(p)' = Charges("status", job[p].reader)
      BY <2>5, <2>6 DEF Bill
    <3>2. Len(Charges("status", job[p].reader)) = 1
      BY <2>3, Billed DEF Kinds
    <3> QED BY <3>1, <3>2
  <2>8. JobOK(p)'
    BY <2>3, <2>4, <2>5, <2>6, <2>7 DEF JobOK, Past
  <2>9. CapOK(p)' /\ CheckOK(p)'
    BY <2>5, <2>6 DEF CapOK, CheckOK
  <2>10. PaceOK(p)'
    BY <2>4, <2>5, <2>6 DEF PaceOK, Follows, Spacing
  <2>11. ASSUME NEW q \in Processes, q # p PROVE Excludes(p, q)'
    <3>1. \A b : ~HoldsBucket(p, b)'
      BY <2>5, <2>6 DEF HoldsBucket
    <3>2. job[q].kind = "status" /\ pc[q] \in Past => job[q].intent # i
      BY <2>1 DEF BudgetFree, HoldsBudget, Past
    <3> QED BY <2>3, <2>5, <2>6, <2>11, <3>1, <3>2 DEF Excludes
  <2> QED BY <2>1, <2>5, <2>8, <2>9, <2>10, <2>11, GotoFrame DEF Statements, Waiting
<1> QED BY <1>1, <1>2
-----------------------------------------------------------------------------
(* Rows and tokens of a bucket.                                               *)
LEMMA Bucketed ==
  ASSUME NEW b \in Buckets
  PROVE  /\ Limits[b[1]] \in Nat \ {0} /\ Bursts[b[1]] \in Nat \ {0}
         /\ Window \in Nat \ {0} /\ IsFiniteSet(Time)
<1>1. b[1] \in Classes
  BY DEF Buckets, Classes
<1>2. IsFiniteSet(Time)
  BY FS_Interval, LimitsAssumption DEF Time
<1> QED BY <1>1, <1>2, LimitsAssumption

\* Rows are counted in numbers.
LEMMA RowsType ==
  ASSUME TypeOK, NEW b \in Buckets
  PROVE  /\ \A t \in Time : ledger[b][t] \in Nat
         /\ \A S : IsFiniteSet(S \cap Time) /\ Rows(b, S) \in Nat
<1>1. \A t \in Time : ledger[b][t] \in Nat
  BY DEF TypeOK
<1>2. ASSUME NEW S PROVE IsFiniteSet(S \cap Time) /\ Rows(b, S) \in Nat
  <2>1. IsFiniteSet(S \cap Time)
    BY Bucketed, FS_Subset
  <2>2. SumOf(ledger[b], S \cap Time) \in Nat
    BY <1>1, <2>1, SumType
  <2> QED BY <2>1, <2>2, RowsSum
<1> QED BY <1>1, <1>2

(* The rows of no instant, of a longer interval, of a part of a set.          *)
LEMMA RowsNone ==
  ASSUME NEW b, NEW S, S \cap Time = {}
  PROVE  Rows(b, S) = 0
  BY RowsSum, SumEmpty

\* The rows up to an instant, and those of the instant.
LEMMA RowsNext ==
  ASSUME TypeOK, NEW b \in Buckets, NEW s \in Int, NEW e \in Time, s <= e
  PROVE  Rows(b, s..e) = ledger[b][e] + Rows(b, s..(e - 1))
<1>1. (s..e) \cap Time = ((s..(e - 1)) \cap Time) \cup {e}
  BY DEF Time
<1>2. e \notin (s..(e - 1)) \cap Time
  BY DEF Time
<1>3. SumOf(ledger[b], ((s..(e - 1)) \cap Time) \cup {e})
        = ledger[b][e] + SumOf(ledger[b], (s..(e - 1)) \cap Time)
  <2> DEFINE S == (s..(e - 1)) \cap Time
             f == ledger[b]
  <2>1. IsFiniteSet(S) /\ e \notin S /\ \A x \in S \cup {e} : f[x] \in Nat
    BY <1>2, RowsType
  <2> HIDE DEF S, f
  <2>2. SumOf(f, S \cup {e}) = f[e] + SumOf(f, S)
    BY <2>1, SumAdd
  <2> QED BY <2>2 DEF S, f
<1> QED BY <1>1, <1>3, RowsSum

\* Fewer instants have no more rows.
LEMMA RowsPart ==
  ASSUME TypeOK, NEW b \in Buckets, NEW S, NEW T,
         \A t \in Time : t \in S /\ ledger[b][t] # 0 => t \in T
  PROVE  Rows(b, S) <= Rows(b, T)
<1> DEFINE A == S \cap Time
           B == T \cap Time
           f == ledger[b]
<1>1. IsFiniteSet(A) /\ IsFiniteSet(B) /\ \A t \in Time : f[t] \in Nat
  BY RowsType
<1>2. A \in SUBSET Time /\ B \in SUBSET Time
  OBVIOUS
<1>3. \A x \in A : f[x] # 0 => x \in B
  OBVIOUS
<1>4. Rows(b, S) = SumOf(f, A) /\ Rows(b, T) = SumOf(f, B)
  BY RowsSum
<1> HIDE DEF A, B, f
<1> DEFINE C == {U \in SUBSET A : SumOf(f, U) = SumOf(f, U \cap B)}
<1>5. {} \in C
  <2>1. {} \cap B = {}
    OBVIOUS
  <2> QED BY <2>1
<1>6. ASSUME NEW U \in SUBSET A, NEW y \in A \ U, U \in C PROVE U \cup {y} \in C
  <2>1. /\ IsFiniteSet(U) /\ IsFiniteSet(U \cap B)
        /\ \A x \in U \cup {y} : f[x] \in Nat
        /\ \A x \in (U \cap B) \cup {y} : f[x] \in Nat
    BY <1>1, <1>2, FS_Subset
  <2>2. SumOf(f, U \cup {y}) = f[y] + SumOf(f, U)
    BY <2>1, SumAdd
  <2>3. SumOf(f, U) = SumOf(f, U \cap B) /\ U \cup {y} \in SUBSET A
    BY <1>6
  <2>4. CASE y \in B
    <3>1. (U \cup {y}) \cap B = (U \cap B) \cup {y}
      BY <2>4
    <3>2. SumOf(f, (U \cap B) \cup {y}) = f[y] + SumOf(f, U \cap B)
      BY <2>1, SumAdd
    <3> QED BY <2>2, <2>3, <3>1, <3>2
  <2>5. CASE y \notin B
    <3>1. (U \cup {y}) \cap B = U \cap B
      BY <2>5
    <3>2. f[y] = 0
      BY <1>3, <2>5
    <3>3. SumOf(f, U) \in Nat
      BY <2>1, SumType
    <3> QED BY <2>2, <2>3, <3>1, <3>2, <3>3
  <2> QED BY <2>4, <2>5
<1>7. A \in C
  <2> HIDE DEF C
  <2>1. \A U \in SUBSET A : \A y \in A \ U : U \in C => U \cup {y} \in C
    BY <1>6
  <2>2. \A U \in SUBSET A : U \in C
    BY <1>1, <1>5, <2>1, SetInduct
  <2> QED BY <2>2
<1>8. SumOf(f, A) = SumOf(f, A \cap B)
  BY <1>7
<1>9. SumOf(f, A \cap B) <= SumOf(f, B)
  <2>1. A \cap B \in SUBSET B /\ \A x \in B : f[x] \in Nat
    BY <1>1, <1>2
  <2> QED BY <1>1, <2>1, SumSubset
<1> QED BY <1>4, <1>8, <1>9

(* The replay of a bucket: the function Tokens defines exists, and the tokens *)
(* left never exceed a full bucket, refilled since s, less the rows since s.  *)
Full(b) == Bursts[b[1]] * Window
Held(b, h, t) ==
  IF t <= now - Window THEN Full(b)
  ELSE Least(Full(b), h[t - 1] + Limits[b[1]])
         - (IF t \in Time THEN ledger[b][t] * Window ELSE 0)
Replay == (now - Window)..now

\* The tokens of a bucket are what its replay holds at the present instant.
LEMMA TokensHeld ==
  ASSUME NEW b
  PROVE  Tokens(b) = (CHOOSE h : h = [t \in Replay |-> Held(b, h, t)])[now]
  BY DEF Tokens, Held, Full, Replay

\* The function that replays a bucket exists.
LEMMA HeldExists ==
  ASSUME now \in Time, NEW b \in Buckets
  PROVE  \E h : h = [t \in Replay |-> Held(b, h, t)]
<1>0. now \in Int /\ Window \in Nat
  BY LimitsAssumption DEF Time
<1> DEFINE N == {n \in Nat : \E h : \A t \in Replay :
                   t <= now - Window + n => h[t] = Held(b, h, t)}
<1>1. 0 \in N
  <2> DEFINE h == [t \in Replay |-> Full(b)]
  <2>1. ASSUME NEW t \in Replay, t <= now - Window + 0 PROVE h[t] = Held(b, h, t)
    BY <1>0, <2>1 DEF Held
  <2> HIDE DEF h
  <2> QED BY <2>1
<1>2. ASSUME NEW n \in N PROVE n + 1 \in N
  <2>1. PICK g : \A t \in Replay :
                   t <= now - Window + n => g[t] = Held(b, g, t)
    OBVIOUS
  <2> DEFINE h == [t \in Replay |-> Held(b, g, t)]
  <2>2. ASSUME NEW t \in Replay, t <= now - Window + (n + 1)
        PROVE  h[t] = Held(b, h, t)
    <3>1. h[t] = Held(b, g, t)
      OBVIOUS
    <3>2. CASE t <= now - Window
      BY <3>1, <3>2 DEF Held
    <3>3. CASE ~(t <= now - Window)
      <4>1. t - 1 \in Replay /\ t - 1 <= now - Window + n
        BY <1>0, <2>2, <3>3 DEF Replay
      <4>2. h[t - 1] = g[t - 1]
        BY <2>1, <4>1
      <4> HIDE DEF h
      <4> QED BY <3>1, <3>3, <4>2 DEF Held
    <3> QED BY <3>2, <3>3
  <2>3. \E k : \A t \in Replay :
          t <= now - Window + (n + 1) => k[t] = Held(b, k, t)
    <3> HIDE DEF h
    <3> QED BY <2>2
  <2> QED BY <2>3
<1>3. N = Nat
  <2> HIDE DEF N
  <2>1. N \subseteq Nat
    BY DEF N
  <2> QED BY <1>1, <1>2, <2>1, NatInduct
<1>4. PICK g : \A t \in Replay :
                 t <= now - Window + Window => g[t] = Held(b, g, t)
  BY <1>0, <1>3
<1> DEFINE h == [t \in Replay |-> g[t]]
<1>5. ASSUME NEW t \in Replay PROVE h[t] = Held(b, h, t)
  <2>1. t <= now - Window + Window
    BY <1>0 DEF Replay
  <2>2. h[t] = Held(b, g, t)
    BY <1>4, <2>1
  <2>3. CASE t <= now - Window
    BY <2>2, <2>3 DEF Held
  <2>4. CASE ~(t <= now - Window)
    <3>1. t - 1 \in Replay
      BY <1>0, <2>4 DEF Replay
    <3>2. h[t - 1] = g[t - 1]
      BY <3>1
    <3> HIDE DEF h
    <3> QED BY <2>2, <2>4, <3>2 DEF Held
  <2> QED BY <2>3, <2>4
<1>6. h = [t \in Replay |-> Held(b, h, t)]
  <2>1. h = [t \in Replay |-> h[t]]
    OBVIOUS
  <2> HIDE DEF h
  <2> QED BY <1>5, <2>1
<1> QED BY <1>6

\* It holds numbers.
LEMMA HeldType ==
  ASSUME TypeOK, NEW b \in Buckets, NEW h,
         \A t \in Replay : h[t] = Held(b, h, t)
  PROVE  \A t \in Replay : h[t] \in Int
<1>0. now \in Int /\ Window \in Nat /\ Full(b) \in Nat /\ Limits[b[1]] \in Nat
      /\ \A t \in Time : ledger[b][t] * Window \in Nat
  BY RowsType, Bucketed DEF TypeOK, Time, Full
<1> DEFINE N == {n \in Nat : \A t \in Replay :
                               t <= now - Window + n => h[t] \in Int}
<1>1. 0 \in N
  <2> SUFFICES ASSUME NEW t \in Replay, t <= now - Window + 0
               PROVE  h[t] \in Int
    OBVIOUS
  <2> QED BY <1>0 DEF Held
<1>2. ASSUME NEW n \in N PROVE n + 1 \in N
  <2> SUFFICES ASSUME NEW t \in Replay, t <= now - Window + (n + 1)
               PROVE  h[t] \in Int
    OBVIOUS
  <2>1. CASE t <= now - Window
    BY <1>0, <2>1 DEF Held
  <2>2. CASE ~(t <= now - Window)
    <3>1. t - 1 \in Replay /\ t - 1 <= now - Window + n
      BY <1>0, <2>2 DEF Replay
    <3>2. h[t - 1] \in Int
      BY <3>1
    <3>3. h[t] = Least(Full(b), h[t - 1] + Limits[b[1]])
                   - (IF t \in Time THEN ledger[b][t] * Window ELSE 0)
      BY <2>2 DEF Held
    <3>4. (IF t \in Time THEN ledger[b][t] * Window ELSE 0) \in Nat
      BY <1>0
    <3>5. Least(Full(b), h[t - 1] + Limits[b[1]]) \in Int
      BY <1>0, <3>2 DEF Least
    <3> QED BY <3>3, <3>4, <3>5
  <2> QED BY <2>1, <2>2
<1>3. N = Nat
  <2> HIDE DEF N
  <2>1. N \subseteq Nat
    BY DEF N
  <2> QED BY <1>1, <1>2, <2>1, NatInduct
<1> TAKE t \in Replay
<1>4. t <= now - Window + Window
  BY <1>0 DEF Replay
<1>5. Window \in N
  BY <1>0, <1>3
<1> QED BY <1>4, <1>5

\* The replay bounds every window that ends now: what was charged since an instant and
\* what is left are within the burst and the refill, although older rows are forgotten.
LEMMA TokensBound ==
  ASSUME TypeOK, NEW b \in Buckets
  PROVE  /\ Tokens(b) \in Int
         /\ \A s \in Time : now - Window < s /\ s <= now =>
              Rows(b, s..now) * Window + Tokens(b)
                <= Full(b) + (now - s) * Limits[b[1]]
<1> DEFINE h == CHOOSE k : k = [t \in Replay |-> Held(b, k, t)]
           L == Limits[b[1]]
<1>0. /\ now \in Int /\ now \in Time /\ Window \in Nat \ {0} /\ Full(b) \in Nat
      /\ L \in Nat
      /\ \A t \in Time : ledger[b][t] \in Nat /\ ledger[b][t] * Window \in Nat
      /\ \A S : Rows(b, S) \in Nat
  <2>1. /\ now \in Int /\ now \in Time /\ Window \in Nat \ {0} /\ Full(b) \in Nat
        /\ L \in Nat
    BY Bucketed DEF TypeOK, Time, Full
  <2>2. \A t \in Time : ledger[b][t] \in Nat /\ ledger[b][t] * Window \in Nat
    BY <2>1, RowsType
  <2> QED BY <2>1, <2>2, RowsType
<1>1. h = [t \in Replay |-> Held(b, h, t)]
  BY <1>0, HeldExists
<1>2. Tokens(b) = h[now]
  BY TokensHeld
<1> HIDE DEF h, L
<1>3. \A t \in Replay : h[t] = Held(b, h, t)
  BY <1>1
<1>4. \A t \in Replay : h[t] \in Int
  BY <1>3, HeldType
<1>5. now \in Replay
  BY <1>0 DEF Replay
<1>6. ASSUME NEW s \in Time, now - Window < s, s <= now
      PROVE  Rows(b, s..now) * Window + h[now] <= Full(b) + (now - s) * L
  <2> DEFINE N == {n \in Nat : s + n <= now =>
                     Rows(b, s..(s + n)) * Window + h[s + n] <= Full(b) + n * L}
  <2>0. s \in Nat /\ \A t \in Int : s <= t /\ t <= now => t \in Time
    BY <1>0, LimitsAssumption DEF Time
  <2>1. ASSUME NEW t \in Time, s <= t, t <= now
        PROVE  /\ t - 1 \in Replay /\ h[t - 1] \in Int /\ h[t] \in Int
               /\ h[t] <= h[t - 1] + L - ledger[b][t] * Window
               /\ h[t] <= Full(b) - ledger[b][t] * Window
    <3>1. /\ t \in Replay /\ t - 1 \in Replay /\ ~(t <= now - Window)
          /\ t \in Int
      BY <1>0, <1>6, <2>0, <2>1 DEF Replay, Time
    <3>2. h[t] = Least(Full(b), h[t - 1] + L) - ledger[b][t] * Window
      BY <1>3, <3>1 DEF Held, L
    <3>3. h[t - 1] \in Int /\ h[t] \in Int
      BY <1>4, <3>1
    <3>4. /\ Least(Full(b), h[t - 1] + L) <= Full(b)
          /\ Least(Full(b), h[t - 1] + L) <= h[t - 1] + L
          /\ Least(Full(b), h[t - 1] + L) \in Int
      BY <1>0, <3>3 DEF Least
    <3>5. ledger[b][t] * Window \in Int
      BY <1>0
    <3> QED BY <1>0, <3>1, <3>2, <3>3, <3>4, <3>5
  <2>2. 0 \in N
    <3>1. s + 0 = s /\ s..s = s..(s + 0)
      BY <2>0
    <3>2. Rows(b, s..s) = ledger[b][s]
      <4>1. Rows(b, s..s) = ledger[b][s] + Rows(b, s..(s - 1))
        <5>1. s \in Int /\ s \in Time /\ s <= s
          BY <2>0
        <5> QED BY <5>1, RowsNext
      <4>2. (s..(s - 1)) \cap Time = {}
        BY <2>0
      <4>3. Rows(b, s..(s - 1)) = 0
        BY <4>2, RowsNone
      <4> QED BY <1>0, <4>1, <4>3
    <3>3. h[s] <= Full(b) - ledger[b][s] * Window /\ h[s] \in Int
      BY <1>6, <2>0, <2>1
    <3>4. ledger[b][s] * Window \in Int /\ 0 * L = 0
      BY <1>0
    <3> QED BY <1>0, <3>1, <3>2, <3>3, <3>4
  <2>3. ASSUME NEW n \in N PROVE n + 1 \in N
    <3> SUFFICES ASSUME s + (n + 1) <= now
                 PROVE  Rows(b, s..(s + (n + 1))) * Window + h[s + (n + 1)]
                          <= Full(b) + (n + 1) * L
      OBVIOUS
    <3> DEFINE t == s + (n + 1)
               R == Rows(b, s..(s + n))
    <3>1. t \in Time /\ s <= t /\ t <= now /\ t - 1 = s + n
      BY <1>0, <2>0
    <3>2. R * Window + h[s + n] <= Full(b) + n * L
      BY <1>0, <2>0
    <3>3. Rows(b, s..t) = ledger[b][t] + R
      <4>1. Rows(b, s..t) = ledger[b][t] + Rows(b, s..(t - 1))
        BY <2>0, <3>1, RowsNext
      <4> QED BY <3>1, <4>1
    <3>4. /\ h[s + n] \in Int /\ h[t] \in Int
          /\ h[t] <= h[s + n] + L - ledger[b][t] * Window
      BY <2>1, <3>1
    <3>5. R \in Nat /\ ledger[b][t] \in Nat /\ ledger[b][t] * Window \in Nat
          /\ n \in Nat
      BY <1>0, <3>1
    <3> HIDE DEF R, t
    <3>6. Rows(b, s..t) * Window = ledger[b][t] * Window + R * Window
      BY <1>0, <3>3, <3>5
    <3>7. (n + 1) * L = n * L + L /\ n * L \in Int /\ R * Window \in Int
      BY <1>0, <3>5
    <3>8. Rows(b, s..t) * Window + h[t] <= Full(b) + (n + 1) * L
      <4> DEFINE a == h[t]
                 c == h[s + n]
                 F == Full(b)
                 x == Rows(b, s..t) * Window
                 y == R * Window
                 z == ledger[b][t] * Window
                 v == n * L
      <4>1. /\ x = z + y /\ y \in Int /\ z \in Int /\ v \in Int
            /\ y + c <= F + v /\ a <= c + L - z
            /\ a \in Int /\ c \in Int /\ F \in Int /\ L \in Int
        BY <1>0, <3>2, <3>4, <3>5, <3>6, <3>7
      <4>2. (n + 1) * L = v + L
        BY <3>7
      <4> HIDE DEF x, y, z, v, a, c, F
      <4>3. x + a <= F + (v + L)
        BY <4>1
      <4> QED BY <4>2, <4>3 DEF x, a, F
    <3> QED BY <3>8 DEF t
  <2>4. N = Nat
    <3> HIDE DEF N
    <3>1. N \subseteq Nat
      BY DEF N
    <3> QED BY <2>2, <2>3, <3>1, NatInduct
  <2>5. now - s \in N /\ s + (now - s) = now
    <3> HIDE DEF N
    <3> QED BY <1>0, <1>6, <2>0, <2>4
  <2> QED BY <1>0, <2>5
<1> QED BY <1>2, <1>4, <1>5, <1>6 DEF L

\* A bucket found open has room now.
LEMMA CheckedNow ==
  ASSUME TypeOK, NoneLater, NEW b \in Buckets, Open(b)
  PROVE  Checked(b, now)
<1>0. /\ now \in Int /\ now \in Time /\ Window \in Nat \ {0}
      /\ Limits[b[1]] \in Nat
  BY Bucketed DEF TypeOK, Time
<1>1. \A t \in Time : t > now => ledger[b][t] = 0
  BY DEF NoneLater
<1>2. Rows(b, (now - Window + 1)..now) < Limits[b[1]]
  <2>1. Used(b) = SumOf(ledger[b], {t \in Time : Recent(t)})
    BY DEF Used, SumOf, FoldFunctionOnSet, MapThenFoldSet
  <2>2. {t \in Time : Recent(t)} = ((now - Window + 1)..now) \cap Time
    BY <1>0 DEF Recent, Time
  <2> QED BY <2>1, <2>2, RowsSum DEF Open
<1>3. ASSUME NEW s \in Time, now - Window < s, s <= now
      PROVE  Rows(b, s..now) * Window + Window
               <= Bursts[b[1]] * Window + (now - s) * Limits[b[1]]
  <2> DEFINE x == Rows(b, s..now) * Window
             y == Bursts[b[1]] * Window
             z == (now - s) * Limits[b[1]]
  <2>1. /\ x + Tokens(b) <= y + z /\ Tokens(b) \in Int /\ Tokens(b) >= Window
    BY <1>3, TokensBound DEF Full, Open
  <2>2. x \in Int /\ y \in Int /\ z \in Int
    <3>1. Rows(b, s..now) \in Int /\ Bursts[b[1]] \in Int
      <4>1. Bursts[b[1]] \in Nat
        BY Bucketed
      <4>2. Rows(b, s..now) \in Nat
        BY RowsType
      <4> QED BY <4>1, <4>2
    <3>2. now - s \in Int
      BY <1>0 DEF Time
    <3>3. \A u, v \in Int : u * v \in Int
      OBVIOUS
    <3> QED BY <1>0, <3>1, <3>2, <3>3
  <2> HIDE DEF x, y, z
  <2>3. x + Window <= y + z
    BY <1>0, <2>1, <2>2
  <2> QED BY <2>3 DEF x, y, z
<1> QED BY <1>1, <1>2, <1>3 DEF Checked
-----------------------------------------------------------------------------
(* What a transaction is to be charged.                                       *)
LEMMA BillIs ==
  ASSUME TypeOK, NEW p \in Processes, JobOK(p), pc[p] # "idle"
  PROVE  /\ Bill(p) \in Seq(Buckets) /\ Len(Bill(p)) \in {1, 2}
         /\ \A m, n \in 1..Len(Bill(p)) : Bill(p)[m] = Bill(p)[n] => m = n
         /\ job[p].charged \in Seq(Time)
         /\ Len(job[p].charged) \in Nat
<1>1. job[p].kind \in Kinds /\ job[p].reader \in Readers
      /\ job[p].charged \in Seq(Time)
  BY DEF TypeOK, Jobs, JobOK
<1>2. Len(Bill(p)) = IF job[p].kind = "admission" THEN 2 ELSE 1
  BY <1>1, Billed DEF Bill
<1>3. /\ Bill(p) \in Seq(Buckets)
      /\ \A m, n \in 1..Len(Bill(p)) : Bill(p)[m] = Bill(p)[n] => m = n
  BY <1>1, Billed DEF Bill
<1> QED BY <1>1, <1>2, <1>3

\* A transaction asks for a bucket.
LEMMA AskedIs ==
  ASSUME TypeOK, NEW p \in Processes, JobOK(p), pc[p] \in {"bucket", "charge"}
  PROVE  Asked(p) \in Buckets
<1>1. Len(job[p].charged) + 1 \in 1..Len(Bill(p)) /\ Bill(p) \in Seq(Buckets)
  BY BillIs DEF JobOK
<1> QED BY <1>1 DEF Asked

\* The check of a bucket under its lock keeps the invariant.
LEMMA CheckStep ==
  ASSUME Core, NEW p \in Processes, CheckBucket(p)
  PROVE  Core'
<1>1. CASE RollBack(p)
  BY <1>1, RollBackStep
<1>2. CASE ~RollBack(p)
  <2>1. /\ Goto(p, "charge", job[p]) /\ Open(Asked(p)) /\ pc[p] = "bucket"
        /\ BucketFree(Asked(p))
    BY <1>2 DEF CheckBucket
  <2>2. /\ TypeOK /\ NoneLater /\ JobOK(p) /\ CapOK(p) /\ PaceOK(p) /\ CheckOK(p)
        /\ job[p] \in Jobs /\ now \in Time /\ now \in Nat
    BY DEF Core, TypeOK, JobInv, Time
  <2>3. /\ pc'[p] = "charge" /\ job'[p] = job[p]
        /\ UNCHANGED <<now, ledger, intents, budgets, reads, admitted>>
        /\ \A q \in Processes : q # p => pc'[q] = pc[q] /\ job'[q] = job[q]
        /\ \A q \in Processes : q # p =>
              \A b : HoldsBucket(q, b)' <=> HoldsBucket(q, b)
    BY <2>1, <2>2, GotoValues
  <2>4. Bill(p)' = Bill(p) /\ Asked(p)' = Asked(p)
    BY <2>3 DEF Bill, Asked
  <2>5. JobOK(p)'
    BY <2>1, <2>2, <2>3, <2>4 DEF JobOK, Past
  <2>6. CapOK(p)'
    BY <2>1, <2>2, <2>3 DEF CapOK, With, OfReader, OfSession, Live, Past
  <2>7. PaceOK(p)'
    BY <2>1, <2>2, <2>3 DEF PaceOK, Past
  <2>8. CheckOK(p)'
    <3>1. \A b, T : Checked(b, T)' <=> Checked(b, T)
      BY <2>3, CheckedStays
    <3>2. Checked(Asked(p), now)
      BY <2>1, <2>2, AskedIs, CheckedNow
    <3> QED BY <2>2, <2>3, <2>4, <3>1, <3>2 DEF CheckOK
  <2>9. ASSUME NEW q \in Processes, q # p PROVE Excludes(p, q)'
    <3>1. Excludes(p, q)
      BY <2>9 DEF Core, LockInv
    <3>2. \A b : HoldsBucket(p, b)' => HoldsBucket(p, b) \/ b = Asked(p)
      BY <2>1, <2>3, <2>4 DEF HoldsBucket
    <3>3. ~HoldsBucket(q, Asked(p))
      BY <2>1 DEF BucketFree
    <3>4. \A b \in Buckets : ~(HoldsBucket(p, b)' /\ HoldsBucket(q, b)')
      BY <2>3, <2>9, <3>1, <3>2, <3>3 DEF Excludes
    <3> QED BY <2>1, <2>3, <2>9, <3>1, <3>4 DEF Excludes, Past
  <2> QED BY <2>1, <2>2, <2>5, <2>6, <2>7, <2>8, <2>9, GotoFrame DEF Statements
<1> QED BY <1>1, <1>2

\* The row it buffers keeps it.
LEMMA ChargeStep ==
  ASSUME Core, NEW p \in Processes, Charge(p)
  PROVE  Core'
<1> DEFINE c == Append(job[p].charged, now)
           j == [job[p] EXCEPT !.charged = c]
           st == IF Len(c) = Len(Bill(p)) THEN "commit" ELSE "bucket"
<1>1. pc[p] = "charge" /\ Goto(p, st, j)
  BY DEF Charge
<1>2. /\ TypeOK /\ NoneLater /\ JobOK(p) /\ CapOK(p) /\ PaceOK(p) /\ CheckOK(p)
      /\ job[p] \in Jobs /\ now \in Time /\ now \in Nat
  BY DEF Core, TypeOK, JobInv, Time
<1>3. /\ Len(Bill(p)) \in Nat /\ job[p].charged \in Seq(Time)
      /\ Len(job[p].charged) < Len(Bill(p))
  BY <1>1, <1>2, BillIs DEF JobOK
<1>4. /\ c \in Seq(Time) /\ Len(c) = Len(job[p].charged) + 1
      /\ c[Len(c)] = now
      /\ \A n \in 1..Len(c) : n # Len(c) =>
           n \in 1..Len(job[p].charged) /\ c[n] = job[p].charged[n]
  BY <1>2, <1>3
<1>5. /\ j \in Jobs /\ j.charged = c /\ j.kind = job[p].kind
      /\ j.reader = job[p].reader /\ j.intent = job[p].intent
      /\ j.began = job[p].began /\ j.row = job[p].row
      /\ j.budget = job[p].budget
  BY <1>2, <1>4 DEF Jobs
<1>6. st \in {"commit", "bucket"} /\ st \in Statements /\ st # "charge"
      /\ (st = "commit" => Len(c) = Len(Bill(p)))
      /\ (st = "bucket" => Len(c) < Len(Bill(p)))
  BY <1>3, <1>4 DEF Statements, Waiting
<1> HIDE DEF c, j, st
<1>7. /\ pc'[p] = st /\ job'[p] = j
      /\ UNCHANGED <<now, ledger, intents, budgets, reads, admitted>>
      /\ \A q \in Processes : q # p => pc'[q] = pc[q] /\ job'[q] = job[q]
      /\ \A q \in Processes : q # p =>
            \A b : HoldsBucket(q, b)' <=> HoldsBucket(q, b)
  BY <1>1, <1>2, GotoValues
<1>8. Bill(p)' = Bill(p) /\ Asked(p) = Bill(p)[Len(c)]
  BY <1>4, <1>5, <1>7 DEF Bill, Asked
<1>9. JobOK(p)'
  <2>1. \A n \in 1..Len(c) : c[n] <= now
    BY <1>2, <1>4 DEF JobOK
  <2> QED BY <1>1, <1>2, <1>5, <1>6, <1>7, <1>8, <2>1 DEF JobOK, Past
<1>10. CapOK(p)'
  <2>1. With(p)' = With(p)
    BY <1>5, <1>7 DEF With
  <2> QED BY <1>1, <1>2, <1>5, <1>6, <1>7, <2>1
        DEF CapOK, OfReader, OfSession, Live, Past
<1>11. PaceOK(p)'
  BY <1>1, <1>2, <1>5, <1>6, <1>7 DEF PaceOK, Past
<1>12. CheckOK(p)'
  <2>1. \A b, T : Checked(b, T)' <=> Checked(b, T)
    BY <1>7, CheckedStays
  <2>2. ASSUME NEW n \in 1..Len(c)
        PROVE  \E T \in Time : T <= c[n] /\ Checked(Bill(p)[n], T)
    <3>1. CASE n = Len(c)
      BY <1>1, <1>2, <1>4, <1>8, <3>1 DEF CheckOK
    <3>2. CASE n # Len(c)
      BY <1>2, <1>4, <3>2 DEF CheckOK
    <3> QED BY <3>1, <3>2
  <2> QED BY <1>5, <1>6, <1>7, <1>8, <2>1, <2>2 DEF CheckOK
<1>13. ASSUME NEW q \in Processes, q # p PROVE Excludes(p, q)'
  <2>1. Excludes(p, q)
    BY <1>13 DEF Core, LockInv
  <2>2. \A b : HoldsBucket(p, b)' => HoldsBucket(p, b)
    BY <1>1, <1>4, <1>5, <1>6, <1>7, <1>8 DEF HoldsBucket
  <2>3. \A b \in Buckets : ~(HoldsBucket(p, b)' /\ HoldsBucket(q, b)')
    BY <1>7, <1>13, <2>1, <2>2 DEF Excludes
  <2> QED BY <1>1, <1>5, <1>6, <1>7, <1>13, <2>1, <2>3 DEF Excludes, Past
<1> QED BY <1>1, <1>5, <1>6, <1>9, <1>10, <1>11, <1>12, <1>13, GotoFrame
-----------------------------------------------------------------------------
(* COMMIT: each bucket of the bill gains one row, no other changes.           *)
LEMMA CommitLedger ==
  ASSUME Core, NEW p \in Processes, Commit(p), NEW b \in Buckets
  PROVE  \/ /\ \E n \in 1..Len(Bill(p)) :
                 /\ Bill(p)[n] = b /\ job[p].charged[n] \in Time
                 /\ ledger'[b] = [ledger[b] EXCEPT ![job[p].charged[n]] = @ + 1]
                 /\ HoldsBucket(p, b)
         \/ /\ \A n \in 1..Len(Bill(p)) : Bill(p)[n] # b
            /\ ledger'[b] = ledger[b]
<1> DEFINE c == job[p].charged
           At(t) == {n \in 1..Len(Bill(p)) : Bill(p)[n] = b /\ c[n] = t}
<1>1. TypeOK /\ JobOK(p) /\ pc[p] = "commit" /\ ledger' = Charged(p)
  BY DEF Core, JobInv, Commit
<1>2. /\ Bill(p) \in Seq(Buckets) /\ c \in Seq(Time) /\ Len(c) = Len(Bill(p))
      /\ \A m, n \in 1..Len(Bill(p)) : Bill(p)[m] = Bill(p)[n] => m = n
  BY <1>1, BillIs DEF JobOK
<1>3. ledger'[b] = [t \in Time |-> ledger[b][t] + Cardinality(At(t))]
  BY <1>1 DEF Charged
<1>4. ledger[b] \in [Time -> Nat]
  BY <1>1 DEF TypeOK
<1>5. CASE \A n \in 1..Len(Bill(p)) : Bill(p)[n] # b
  <2>1. \A t \in Time : Cardinality(At(t)) = 0
    <3> TAKE t \in Time
    <3>1. At(t) = {}
      BY <1>5
    <3> QED BY <3>1, FS_EmptySet
  <2> HIDE DEF At
  <2>2. ledger'[b] = ledger[b]
    BY <1>3, <1>4, <2>1
  <2> QED BY <1>5, <2>2
<1>6. ASSUME NEW n \in 1..Len(Bill(p)), Bill(p)[n] = b
      PROVE  /\ c[n] \in Time
             /\ ledger'[b] = [ledger[b] EXCEPT ![c[n]] = @ + 1]
             /\ HoldsBucket(p, b)
  <2>1. c[n] \in Time
    BY <1>2
  <2>2. \A t \in Time : Cardinality(At(t)) = IF t = c[n] THEN 1 ELSE 0
    <3> TAKE t \in Time
    <3>1. At(t) = IF t = c[n] THEN {n} ELSE {}
      BY <1>2, <1>6
    <3> QED BY <3>1, FS_EmptySet, FS_Singleton
  <2>3. HoldsBucket(p, b)
    BY <1>1, <1>2, <1>6 DEF HoldsBucket
  <2> HIDE DEF At
  <2>4. ledger'[b] = [ledger[b] EXCEPT ![c[n]] = @ + 1]
    BY <1>3, <1>4, <2>1, <2>2
  <2> QED BY <2>1, <2>3, <2>4
<1> QED BY <1>5, <1>6

(* The rows a COMMIT adds to a set of instants.                               *)
LEMMA CommitRows ==
  ASSUME Core, NEW b \in Buckets, NEW t \in Time, NEW S,
         ledger'[b] = [ledger[b] EXCEPT ![t] = @ + 1]
  PROVE  Rows(b, S)' = Rows(b, S) + IF t \in S THEN 1 ELSE 0
<1> DEFINE f == ledger[b]
           g == ledger'[b]
           A == S \cap Time
<1>1. TypeOK
  BY DEF Core
<1>2. f \in [Time -> Nat]
  BY <1>1 DEF TypeOK
<1>3. /\ IsFiniteSet(A) /\ \A x \in A : f[x] \in Nat
      /\ Rows(b, S) = SumOf(f, A) /\ Rows(b, S)' = SumOf(g, A)
      /\ SumOf(f, A) \in Nat
  BY <1>1, RowsType, RowsSum
<1>4. /\ \A x \in A : x # t => g[x] = f[x]
      /\ g[t] = f[t] + 1
  BY <1>2
<1>5. t \in A <=> t \in S
  OBVIOUS
<1> HIDE DEF f, g, A
<1>6. CASE t \in A
  <2>1. SumOf(g, A) = SumOf(f, A) + 1
    BY <1>3, <1>4, <1>6, SumMore
  <2> QED BY <1>3, <1>5, <1>6, <2>1
<1>7. CASE t \notin A
  <2>1. SumOf(g, A) = SumOf(f, A)
    BY <1>3, <1>4, <1>7, SumSame
  <2> QED BY <1>3, <1>5, <1>7, <2>1
<1> QED BY <1>6, <1>7

(* What a COMMIT changes of the other tables.                                 *)
LEMMA CommitValues ==
  ASSUME Core, NEW p \in Processes, Commit(p)
  PROVE  /\ TypeOK /\ JobOK(p) /\ CapOK(p) /\ PaceOK(p) /\ CheckOK(p)
         /\ job[p] \in Jobs /\ now \in Time /\ now \in Nat /\ now' = now
         /\ pc[p] = "commit" /\ pc'[p] = "idle" /\ job'[p] = Idle
         /\ pc' \in [Processes -> Statements] /\ job' \in [Processes -> Jobs]
         /\ \A q \in Processes : q # p => pc'[q] = pc[q] /\ job'[q] = job[q]
         /\ \A q \in Processes : q # p =>
              \A b : HoldsBucket(q, b)' <=> HoldsBucket(q, b)
         /\ job[p].kind = "prepare" =>
              /\ job[p].intent \in Intents /\ job[p].row \in IntentRows
              /\ intents[job[p].intent] = NoIntent
              /\ Owner[job[p].row.session] = job[p].reader
              /\ intents' = [intents EXCEPT ![job[p].intent] = job[p].row]
         /\ job[p].kind # "prepare" => intents' = intents
         /\ job[p].kind = "status" =>
              /\ job[p].intent \in Intents /\ job[p].budget \in Budgets
              /\ intents[job[p].intent] # NoIntent
              /\ Owner[intents[job[p].intent].session] = job[p].reader
              /\ budgets' = [budgets EXCEPT ![job[p].intent] = job[p].budget]
              /\ reads' = [reads EXCEPT ![job[p].intent] =
                             Append(@, job[p].budget.last)]
         /\ job[p].kind # "status" => budgets' = budgets /\ reads' = reads
         /\ job[p].kind = "admission" =>
              admitted' = [admitted EXCEPT ![job[p].reader] = @ + 1]
         /\ job[p].kind # "admission" => admitted' = admitted
         /\ job[p].reader \in Readers
<1>1. /\ TypeOK /\ JobOK(p) /\ CapOK(p) /\ PaceOK(p) /\ CheckOK(p)
      /\ job[p] \in Jobs /\ now \in Time /\ now \in Nat
  BY DEF Core, TypeOK, JobInv, Time
<1>2. /\ pc[p] = "commit" /\ pc' = [pc EXCEPT ![p] = "idle"] /\ now' = now
      /\ job' = [job EXCEPT ![p] = Idle]
  BY DEF Commit
<1>3. /\ pc'[p] = "idle" /\ job'[p] = Idle
      /\ pc' \in [Processes -> Statements] /\ job' \in [Processes -> Jobs]
      /\ \A q \in Processes : q # p => pc'[q] = pc[q] /\ job'[q] = job[q]
  BY <1>1, <1>2, IdleJob DEF TypeOK, Statements
<1>4. \A q \in Processes : q # p =>
        \A b : HoldsBucket(q, b)' <=> HoldsBucket(q, b)
  BY <1>3 DEF HoldsBucket, Bill, Asked
<1>5. /\ job[p].kind = "prepare" =>
           /\ job[p].intent \in Intents /\ job[p].row \in IntentRows
           /\ intents[job[p].intent] = NoIntent
           /\ Owner[job[p].row.session] = job[p].reader
      /\ job[p].kind = "status" =>
           /\ job[p].intent \in Intents /\ job[p].budget \in Budgets
           /\ intents[job[p].intent] # NoIntent
           /\ Owner[intents[job[p].intent].session] = job[p].reader
      /\ job[p].reader \in Readers
  BY <1>1, <1>2 DEF JobOK, Past
<1>6. /\ job[p].kind = "prepare" =>
              intents' = [intents EXCEPT ![job[p].intent] = job[p].row]
      /\ job[p].kind # "prepare" => intents' = intents
      /\ job[p].kind = "status" =>
              /\ budgets' = [budgets EXCEPT ![job[p].intent] = job[p].budget]
              /\ reads' = [reads EXCEPT ![job[p].intent] =
                             Append(@, job[p].budget.last)]
      /\ job[p].kind # "status" => budgets' = budgets /\ reads' = reads
      /\ job[p].kind = "admission" =>
              admitted' = [admitted EXCEPT ![job[p].reader] = @ + 1]
      /\ job[p].kind # "admission" => admitted' = admitted
  BY DEF Commit
<1> QED BY <1>1, <1>2, <1>3, <1>4, <1>5, <1>6

\* A COMMIT keeps the types.
LEMMA CommitTypes ==
  ASSUME Core, NEW p \in Processes, Commit(p)
  PROVE  TypeOK'
<1> DEFINE j == job[p]
<1>1. ledger' \in [Buckets -> [Time -> Nat]]
  <2>1. ASSUME NEW b \in Buckets PROVE ledger'[b] \in [Time -> Nat]
    <3>1. ledger[b] \in [Time -> Nat]
      BY DEF Core, TypeOK
    <3>2. \/ \E t \in Time : ledger'[b] = [ledger[b] EXCEPT ![t] = @ + 1]
          \/ ledger'[b] = ledger[b]
      BY CommitLedger
    <3>3. CASE ledger'[b] = ledger[b]
      BY <3>1, <3>3
    <3>4. ASSUME NEW t \in Time, ledger'[b] = [ledger[b] EXCEPT ![t] = @ + 1]
          PROVE  ledger'[b] \in [Time -> Nat]
      <4>1. ledger[b][t] + 1 \in Nat
        BY <3>1
      <4> QED BY <3>1, <3>4, <4>1
    <3> QED BY <3>2, <3>3, <3>4
  <2>2. ledger' = [b \in Buckets |-> ledger'[b]]
    BY DEF Commit, Charged
  <2> QED BY <2>1, <2>2
<1>2. intents' \in [Intents -> IntentRows \cup {NoIntent}]
  BY CommitValues DEF TypeOK
<1>3. budgets' \in [Intents -> Budgets \cup {NoIntent}]
  BY CommitValues DEF TypeOK
<1>4. ASSUME NEW i \in Intents, budgets'[i] # NoIntent
      PROVE  /\ budgets'[i].first <= budgets'[i].last
             /\ budgets'[i].initial \in 1..MaxInitial
  <2>1. CASE j.kind = "status" /\ i = j.intent
    <3>1. budgets'[i] = j.budget
      BY <2>1, CommitValues DEF TypeOK
    <3>2. Follows(j.budget, budgets[i])
      BY <2>1, CommitValues DEF PaceOK, Past
    <3> QED BY <3>1, <3>2 DEF Follows
  <2>2. CASE ~(j.kind = "status" /\ i = j.intent)
    <3>1. budgets'[i] = budgets[i]
      BY <2>2, CommitValues DEF TypeOK
    <3> QED BY <1>4, <3>1 DEF Core, TypeOK
  <2> QED BY <2>1, <2>2
<1>5. reads' \in [Intents -> Seq(Time)]
  <2>1. CASE j.kind = "status"
    <3>1. j.budget.last \in Time /\ j.intent \in Intents
      BY <2>1, CommitValues DEF Budgets
    <3>2. Append(reads[j.intent], j.budget.last) \in Seq(Time)
      BY <3>1 DEF Core, TypeOK
    <3> QED BY <2>1, <3>2, CommitValues DEF TypeOK
  <2>2. CASE j.kind # "status"
    BY <2>2, CommitValues DEF TypeOK
  <2> QED BY <2>1, <2>2
<1>6. admitted' \in [Readers -> Nat]
  <2>1. admitted \in [Readers -> Nat] /\ j.reader \in Readers
    BY CommitValues DEF TypeOK
  <2>2. \/ admitted' = [admitted EXCEPT ![j.reader] = @ + 1]
        \/ admitted' = admitted
    BY CommitValues
  <2> QED BY <2>1, <2>2
<1>7. now' \in Time /\ pc' \in [Processes -> Statements]
      /\ job' \in [Processes -> Jobs]
  BY CommitValues
<1> QED BY <1>1, <1>2, <1>3, <1>4, <1>5, <1>6, <1>7 DEF TypeOK, Statements

\* A COMMIT keeps the invariant: the locks kept what was read worth until then.
LEMMA CommitStep ==
  ASSUME Core, NEW p \in Processes, Commit(p)
  PROVE  Core'
<1> DEFINE j == job[p]
<1>1. TypeOK'
  BY CommitTypes
<1>2. ReadInv'
  <2> SUFFICES ASSUME NEW i \in Intents
               PROVE  /\ intents'[i] = NoIntent => reads'[i] = <<>>
                      /\ budgets'[i] = NoIntent <=> reads'[i] = <<>>
                      /\ budgets'[i] # NoIntent =>
                           /\ budgets'[i].first = reads'[i][1]
                           /\ budgets'[i].last = reads'[i][Len(reads'[i])]
    BY DEF ReadInv
  <2>1. /\ intents[i] = NoIntent => reads[i] = <<>>
        /\ budgets[i] = NoIntent <=> reads[i] = <<>>
        /\ budgets[i] # NoIntent => /\ budgets[i].first = reads[i][1]
                                    /\ budgets[i].last = reads[i][Len(reads[i])]
    BY DEF Core, ReadInv
  <2>2. CASE j.kind = "status" /\ i = j.intent
    <3>1. /\ budgets'[i] = j.budget /\ reads'[i] = Append(reads[i], j.budget.last)
          /\ intents' = intents /\ intents[i] # NoIntent
          /\ j.budget \in Budgets /\ j.budget # NoIntent
      BY <2>2, CommitValues, NamesAssumption DEF TypeOK
    <3>2. Follows(j.budget, budgets[i])
      BY <2>2, CommitValues DEF PaceOK, Past
    <3>3. reads[i] \in Seq(Time) /\ j.budget.last \in Time
      BY <3>1 DEF Core, TypeOK, Budgets
    <3>4. /\ reads'[i] # <<>> /\ reads'[i][Len(reads'[i])] = j.budget.last
          /\ reads[i] = <<>> => reads'[i][1] = j.budget.last
          /\ reads[i] # <<>> => reads'[i][1] = reads[i][1]
      BY <3>1, <3>3
    <3> QED BY <2>1, <3>1, <3>2, <3>4 DEF Follows
  <2>3. CASE ~(j.kind = "status" /\ i = j.intent)
    <3>1. budgets'[i] = budgets[i] /\ reads'[i] = reads[i]
      BY <2>3, CommitValues DEF TypeOK
    <3>2. intents'[i] = NoIntent => intents[i] = NoIntent
      BY CommitValues, NamesAssumption DEF TypeOK
    <3> QED BY <2>1, <3>1, <3>2
  <2> QED BY <2>2, <2>3
<1>3. NoneLater'
  <2> SUFFICES ASSUME NEW b \in Buckets, NEW t \in Time, t > now
               PROVE  ledger'[b][t] = 0
    BY CommitValues DEF NoneLater
  <2>1. ledger[b][t] = 0 /\ ledger[b] \in [Time -> Nat]
    BY DEF Core, NoneLater, TypeOK
  <2>2. CASE ledger'[b] = ledger[b]
    BY <2>1, <2>2
  <2>3. ASSUME NEW n \in 1..Len(Bill(p)), job[p].charged[n] \in Time,
               ledger'[b] = [ledger[b] EXCEPT ![job[p].charged[n]] = @ + 1]
        PROVE  ledger'[b][t] = 0
    <3>1. n \in 1..Len(job[p].charged)
      BY CommitValues DEF JobOK
    <3>2. job[p].charged[n] <= now
      BY <3>1, CommitValues DEF JobOK
    <3>3. job[p].charged[n] # t
      BY <2>3, <3>2, CommitValues DEF Time
    <3> QED BY <2>1, <2>3, <3>3
  <2> QED BY <2>2, <2>3, CommitLedger
<1>4. ASSUME NEW q \in Processes
      PROVE  JobOK(q)' /\ CapOK(q)' /\ PaceOK(q)' /\ CheckOK(q)'
  <2>1. CASE q = p
    <3>1. JobOK(p)'
      BY CommitValues, IdleJob DEF JobOK, Past
    <3>2. CapOK(p)' /\ PaceOK(p)' /\ CheckOK(p)'
      BY CommitValues, IdleJob DEF CapOK, PaceOK, CheckOK
    <3> QED BY <2>1, <3>1, <3>2
  <2>2. CASE q # p
    <3>1. /\ pc'[q] = pc[q] /\ job'[q] = job[q] /\ Bill(q)' = Bill(q)
          /\ Asked(q)' = Asked(q) /\ now' = now
      BY <2>2, CommitValues DEF Bill, Asked
    <3>2. /\ JobOK(q) /\ CapOK(q) /\ PaceOK(q) /\ CheckOK(q) /\ Excludes(p, q)
          /\ job[q] \in Jobs
      BY <2>2 DEF Core, JobInv, LockInv, TypeOK
    <3>3. JobOK(q)'
      <4>1. job[q].kind = "prepare" => intents'[job[q].intent] = NoIntent
        BY <3>2, CommitValues DEF JobOK, Excludes, TypeOK
      <4>2. job[q].kind = "status" =>
              /\ intents'[job[q].intent] # NoIntent
              /\ Owner[intents'[job[q].intent].session] = job[q].reader
        BY <3>2, CommitValues DEF JobOK, TypeOK
      <4> QED BY <3>1, <3>2, <4>1, <4>2 DEF JobOK
    <3>4. PaceOK(q)'
      <4>1. job[q].kind = "status" /\ pc[q] \in Past =>
              budgets'[job[q].intent] = budgets[job[q].intent]
        BY <3>2, CommitValues DEF JobOK, Excludes, TypeOK, Past
      <4> QED BY <3>1, <3>2, <4>1 DEF PaceOK
    <3>5. CheckOK(q)'
      <4>1. ASSUME NEW b \in Buckets, HoldsBucket(q, b), NEW T \in Time, Checked(b, T)
            PROVE  Checked(b, T)'
        <5>1. ~HoldsBucket(p, b)
          BY <3>2, <4>1 DEF Excludes
        <5>2. ledger'[b] = ledger[b]
          BY <5>1, CommitLedger
        <5>3. \A S : Rows(b, S)' = Rows(b, S)
          BY <5>2, RowsSum
        <5> QED BY <4>1, <5>2, <5>3 DEF Checked
      <4>2. CASE pc[q] = "idle"
        BY <3>1, <3>2, <4>2, IdleJob DEF CheckOK, JobOK
      <4>3. CASE pc[q] # "idle"
        <5>1. \A n \in 1..Len(job[q].charged) : n \in 1..Len(Bill(q))
          BY <3>2, <4>3, BillIs, CommitValues DEF JobOK, Past, TypeOK, Statements, Waiting
        <5>2. \A n \in 1..Len(job[q].charged) :
                 Bill(q)[n] \in Buckets /\ HoldsBucket(q, Bill(q)[n])
          BY <3>2, <4>3, <5>1, BillIs, CommitValues DEF HoldsBucket
        <5>3. pc[q] = "charge" => Asked(q) \in Buckets /\ HoldsBucket(q, Asked(q))
          BY <3>2, AskedIs, CommitValues DEF HoldsBucket
        <5> QED BY <3>1, <3>2, <4>1, <5>2, <5>3 DEF CheckOK
      <4> QED BY <4>2, <4>3
    <3>6. CapOK(q)'
      <4> SUFFICES ASSUME job[q].kind = "prepare", pc[q] \in Past
                   PROVE  CapOK(q)'
        BY <3>1 DEF CapOK
      <4> DEFINE i == job[q].intent
                 r == job[q].reader
                 s == job[q].row.session
      <4>1. /\ i \in Intents /\ intents[i] = NoIntent /\ Owner[s] = r
            /\ job[q].row \in IntentRows /\ job[q].row # NoIntent
        BY <3>2, NamesAssumption DEF JobOK
      <4>2. CASE j.kind # "prepare"
        <5>1. With(q)' = With(q) /\ intents' = intents
          BY <3>1, <4>2, CommitValues DEF With
        <5> QED BY <3>1, <3>2, <5>1 DEF CapOK, OfReader, OfSession, Live
      <4>3. CASE j.kind = "prepare"
        <5>1. /\ j.intent # i /\ j.reader # r
              /\ intents' = [intents EXCEPT ![j.intent] = j.row]
              /\ intents[j.intent] = NoIntent /\ Owner[j.row.session] = j.reader
              /\ j.intent \in Intents
          BY <3>2, <4>3, CommitValues DEF Excludes, Past
        <5>2. With(q)' = [With(q) EXCEPT ![j.intent] = j.row]
          BY <3>1, <4>1, <5>1 DEF With, Core, TypeOK
        <5>3. With(q)[j.intent] = NoIntent /\ With(q) \in [Intents -> IntentRows \cup {NoIntent}]
          BY <4>1, <5>1 DEF With, Core, TypeOK
        <5>4. /\ OfReader(With(q)', now, r) = OfReader(With(q), now, r)
              /\ OfSession(With(q)', now, s) = OfSession(With(q), now, s)
          <6> HIDE DEF i
          <6>1. \A k \in Intents : k # j.intent => With(q)'[k] = With(q)[k]
            BY <5>2, <5>3
          <6>2. With(q)'[j.intent] = j.row
            BY <5>1, <5>2, <5>3
          <6>3. j.row.session # s
            BY <4>1, <5>1
          <6> QED BY <5>1, <5>3, <6>1, <6>2, <6>3 DEF OfReader, OfSession, Live
        <5> QED BY <3>1, <3>2, <5>4 DEF CapOK, OfReader, OfSession, Live
      <4> QED BY <4>2, <4>3
    <3> QED BY <3>3, <3>4, <3>5, <3>6
  <2> QED BY <2>1, <2>2
<1>5. ASSUME NEW q \in Processes, NEW r \in Processes, q # r
      PROVE  Excludes(q, r)'
  <2>1. CASE q = p
    BY <2>1, CommitValues, IdleJob DEF Excludes, HoldsBucket
  <2>2. CASE r = p
    BY <2>2, CommitValues, IdleJob DEF Excludes, HoldsBucket
  <2>3. CASE q # p /\ r # p
    <3>1. Excludes(q, r)
      BY <1>5 DEF Core, LockInv
    <3> QED BY <2>3, <3>1, CommitValues DEF Excludes
  <2> QED BY <2>1, <2>2, <2>3
<1> QED BY <1>1, <1>2, <1>3, <1>4, <1>5 DEF Core, JobInv, LockInv
-----------------------------------------------------------------------------
(* An intent that is no longer pending is counted no more.                    *)
LEMMA SettledFewer ==
  ASSUME NEW rows \in [Intents -> IntentRows \cup {NoIntent}],
         NEW i \in Intents, rows[i] # NoIntent, NEW at, NEW r, NEW s
  PROVE  LET less == [rows EXCEPT ![i].pending = FALSE]
         IN /\ less \in [Intents -> IntentRows \cup {NoIntent}]
            /\ less[i] # NoIntent /\ less[i].session = rows[i].session
            /\ \A k \in Intents : k # i => less[k] = rows[k]
            /\ Cardinality(OfReader(rows, at, r)) \in Nat
            /\ Cardinality(OfSession(rows, at, s)) \in Nat
            /\ Cardinality(OfReader(less, at, r)) \in Nat
            /\ Cardinality(OfSession(less, at, s)) \in Nat
            /\ Cardinality(OfReader(less, at, r))
                 <= Cardinality(OfReader(rows, at, r))
            /\ Cardinality(OfSession(less, at, s))
                 <= Cardinality(OfSession(rows, at, s))
<1> DEFINE less == [rows EXCEPT ![i].pending = FALSE]
<1>1. rows[i] \in IntentRows
  OBVIOUS
<1>2. less[i] = [rows[i] EXCEPT !.pending = FALSE]
  OBVIOUS
<1>3. /\ less[i] \in IntentRows /\ less[i].session = rows[i].session
      /\ ~less[i].pending /\ less[i] # NoIntent
  BY <1>1, <1>2, NamesAssumption DEF IntentRows
<1>4. \A k \in Intents : k # i => less[k] = rows[k]
  OBVIOUS
<1>5. less \in [Intents -> IntentRows \cup {NoIntent}]
  BY <1>1, <1>3
<1> HIDE DEF less
<1>6. Live(less, at) \subseteq Live(rows, at) /\ i \notin Live(less, at)
  BY <1>3, <1>4 DEF Live
<1>7. /\ OfReader(less, at, r) \subseteq OfReader(rows, at, r)
      /\ OfSession(less, at, s) \subseteq OfSession(rows, at, s)
  BY <1>4, <1>6 DEF OfReader, OfSession, Live
<1>8. /\ IsFiniteSet(OfReader(rows, at, r)) /\ IsFiniteSet(OfSession(rows, at, s))
  <2>1. /\ OfReader(rows, at, r) \subseteq Intents
        /\ OfSession(rows, at, s) \subseteq Intents
    BY DEF OfReader, OfSession, Live
  <2> QED BY <2>1, FS_Subset, NamesAssumption
<1>9. /\ Cardinality(OfReader(rows, at, r)) \in Nat
      /\ Cardinality(OfSession(rows, at, s)) \in Nat
      /\ Cardinality(OfReader(less, at, r)) \in Nat
      /\ Cardinality(OfSession(less, at, s)) \in Nat
      /\ Cardinality(OfReader(less, at, r)) <= Cardinality(OfReader(rows, at, r))
      /\ Cardinality(OfSession(less, at, s)) <= Cardinality(OfSession(rows, at, s))
  BY <1>7, <1>8, FS_Subset, FS_CardinalityType
<1> QED BY <1>3, <1>4, <1>5, <1>9 DEF less

\* An intent settled keeps it.
LEMMA SettleStep ==
  ASSUME Core, NEW i \in Intents, Settle(i)
  PROVE  Core'
<1>0. /\ intents[i] # NoIntent /\ intents \in [Intents -> IntentRows \cup {NoIntent}]
      /\ intents' = [intents EXCEPT ![i].pending = FALSE]
      /\ UNCHANGED <<now, ledger, budgets, reads, admitted, pc, job>>
  BY DEF Settle, Core, TypeOK, history
<1>1. /\ intents' \in [Intents -> IntentRows \cup {NoIntent}]
      /\ intents'[i] # NoIntent /\ intents'[i].session = intents[i].session
      /\ \A k \in Intents : k # i => intents'[k] = intents[k]
  BY <1>0, SettledFewer
<1>2. TypeOK'
  BY <1>0, <1>1 DEF Core, TypeOK
<1>3. ReadInv' /\ NoneLater'
  BY <1>0, <1>1 DEF Core, ReadInv, NoneLater
<1>4. ASSUME NEW q \in Processes
      PROVE  JobOK(q)' /\ CapOK(q)' /\ PaceOK(q)' /\ CheckOK(q)'
  <2>1. JobOK(q) /\ CapOK(q) /\ PaceOK(q) /\ CheckOK(q)
    BY DEF Core, JobInv
  <2>2. JobOK(q)'
    <3>1. /\ pc'[q] = pc[q] /\ job'[q] = job[q] /\ now' = now
          /\ Bill(q)' = Bill(q)
      BY <1>0 DEF Bill
    <3>2. job[q].kind = "prepare" => intents'[job[q].intent] = NoIntent
      BY <1>0, <1>1, <2>1 DEF JobOK
    <3>3. job[q].kind = "status" =>
            /\ intents'[job[q].intent] # NoIntent
            /\ Owner[intents'[job[q].intent].session] = job[q].reader
      BY <1>0, <1>1, <2>1 DEF JobOK
    <3> QED BY <2>1, <3>1, <3>2, <3>3 DEF JobOK
  <2>3. CapOK(q)'
    <3> SUFFICES ASSUME job[q].kind = "prepare", pc[q] \in Past
                 PROVE  CapOK(q)'
      BY <1>0 DEF CapOK
    <3> DEFINE k == job[q].intent
               r == job[q].reader
               s == job[q].row.session
    <3>1. /\ k \in Intents /\ k # i /\ job[q].row \in IntentRows
      BY <1>0, <2>1 DEF JobOK
    <3>2. /\ With(q) \in [Intents -> IntentRows \cup {NoIntent}]
          /\ With(q)[i] # NoIntent
          /\ With(q)' = [With(q) EXCEPT ![i].pending = FALSE]
      BY <1>0, <3>1 DEF With
    <3>3. /\ Cardinality(OfReader(With(q)', now, r)) \in Nat
          /\ Cardinality(OfSession(With(q)', now, s)) \in Nat
          /\ Cardinality(OfReader(With(q), now, r)) \in Nat
          /\ Cardinality(OfSession(With(q), now, s)) \in Nat
          /\ Cardinality(OfReader(With(q)', now, r))
               <= Cardinality(OfReader(With(q), now, r))
          /\ Cardinality(OfSession(With(q)', now, s))
               <= Cardinality(OfSession(With(q), now, s))
      BY <3>2, SettledFewer
    <3>4. /\ Cardinality(OfReader(With(q), now, r)) <= ReaderCap
          /\ Cardinality(OfSession(With(q), now, s)) <= SessionCap
      BY <2>1 DEF CapOK
    <3>5. /\ Cardinality(OfReader(With(q)', now, r)) <= ReaderCap
          /\ Cardinality(OfSession(With(q)', now, s)) <= SessionCap
      BY <3>3, <3>4, LimitsAssumption
    <3> QED BY <1>0, <3>5 DEF CapOK, OfReader, OfSession, Live
  <2>4. PaceOK(q)'
    BY <1>0, <2>1 DEF PaceOK
  <2>5. CheckOK(q)'
    <3>1. \A b, T : Checked(b, T)' <=> Checked(b, T)
      BY <1>0, CheckedStays
    <3>2. /\ pc'[q] = pc[q] /\ job'[q] = job[q] /\ now' = now
          /\ Bill(q)' = Bill(q) /\ Asked(q)' = Asked(q)
      BY <1>0 DEF Bill, Asked
    <3> QED BY <2>1, <3>1, <3>2 DEF CheckOK
  <2> QED BY <2>2, <2>3, <2>4, <2>5
<1>5. LockInv'
  BY <1>0 DEF Core, LockInv, Excludes, HoldsBucket, Bill, Asked
<1> QED BY <1>2, <1>3, <1>4, <1>5 DEF Core, JobInv

\* The clock keeps it.
LEMMA TickStep ==
  ASSUME Core, Tick
  PROVE  Core'
<1>0. /\ now \in Nat /\ now' = now + 1 /\ now' \in Time
      /\ UNCHANGED <<ledger, intents, budgets, reads, admitted, pc, job>>
  BY LimitsAssumption DEF Tick, Core, TypeOK, Time, tables, history
<1>1. TypeOK'
  BY <1>0 DEF Core, TypeOK
<1>2. ReadInv'
  BY <1>0 DEF Core, ReadInv
<1>3. NoneLater'
  BY <1>0 DEF Core, NoneLater, Time
<1>4. ASSUME NEW q \in Processes
      PROVE  JobOK(q)' /\ CapOK(q)' /\ PaceOK(q)' /\ CheckOK(q)'
  <2>0. /\ pc'[q] = pc[q] /\ job'[q] = job[q]
        /\ Bill(q)' = Bill(q) /\ Asked(q)' = Asked(q) /\ With(q)' = With(q)
    BY <1>0 DEF Bill, Asked, With
  <2>1. JobOK(q) /\ CapOK(q) /\ PaceOK(q) /\ CheckOK(q) /\ job[q] \in Jobs
    BY DEF Core, JobInv, TypeOK
  <2>2. JobOK(q)'
    <3>1. job[q].began <= now' /\ \A n \in 1..Len(job[q].charged) :
            job[q].charged[n] <= now'
      <4>1. job[q].began \in Nat /\ job[q].charged \in Seq(Time)
        BY <2>1 DEF Jobs, Time
      <4>2. \A n \in 1..Len(job[q].charged) : job[q].charged[n] \in Nat
        <5>1. \A n \in 1..Len(job[q].charged) : job[q].charged[n] \in Time
          BY <4>1
        <5> QED BY <5>1 DEF Time
      <4> QED BY <1>0, <2>1, <4>1, <4>2 DEF JobOK
    <3> QED BY <1>0, <2>0, <2>1, <3>1 DEF JobOK
  <2>3. CapOK(q)'
    <3> SUFFICES ASSUME job[q].kind = "prepare", pc[q] \in Past
                 PROVE  CapOK(q)'
      BY <2>0 DEF CapOK
    <3> DEFINE r == job[q].reader
               s == job[q].row.session
    <3>1. With(q) \in [Intents -> IntentRows \cup {NoIntent}]
      BY <2>1 DEF With, JobOK, Core, TypeOK
    <3>2. /\ Cardinality(OfReader(With(q), now, r)) <= ReaderCap
          /\ Cardinality(OfSession(With(q), now, s)) <= SessionCap
      BY <2>1 DEF CapOK
    <3>3. now <= now' /\ now' \in Nat
      BY <1>0
    <3>4. /\ Cardinality(OfReader(With(q), now', r)) <= ReaderCap
          /\ Cardinality(OfSession(With(q), now', s)) <= SessionCap
      <4>1. /\ Cardinality(OfReader(With(q), now, r)) \in Nat
            /\ Cardinality(OfSession(With(q), now, s)) \in Nat
            /\ Cardinality(OfReader(With(q), now', r)) \in Nat
            /\ Cardinality(OfSession(With(q), now', s)) \in Nat
            /\ Cardinality(OfReader(With(q), now', r))
                 <= Cardinality(OfReader(With(q), now, r))
            /\ Cardinality(OfSession(With(q), now', s))
                 <= Cardinality(OfSession(With(q), now, s))
        BY <1>0, <3>1, <3>3, LiveLater
      <4> QED BY <3>2, <4>1, LimitsAssumption
    <3> QED BY <2>0, <3>4 DEF CapOK, OfReader, OfSession, Live
  <2>4. PaceOK(q)'
    BY <1>0, <2>1 DEF PaceOK
  <2>5. CheckOK(q)'
    <3>1. \A b, T : Checked(b, T)' <=> Checked(b, T)
      BY <1>0, CheckedStays
    <3>2. \A T \in Time : T <= now => T <= now'
      BY <1>0 DEF Time
    <3> QED BY <2>0, <2>1, <3>1, <3>2 DEF CheckOK
  <2> QED BY <2>2, <2>3, <2>4, <2>5
<1>5. LockInv'
  BY <1>0 DEF Core, LockInv, Excludes, HoldsBucket, Bill, Asked
<1> QED BY <1>1, <1>2, <1>3, <1>4, <1>5 DEF Core, JobInv
-----------------------------------------------------------------------------
\* The initial states satisfy it.
LEMMA CoreInit == Init => Core
<1> SUFFICES ASSUME Init PROVE Core
  OBVIOUS
<1>0. 0 \in Time
  BY LimitsAssumption DEF Time
<1>1. /\ now = 0 /\ \A b \in Buckets : ledger[b] = NoRows
      /\ \A i \in Intents :
           intents[i] = NoIntent /\ budgets[i] = NoIntent /\ reads[i] = <<>>
      /\ \A p \in Processes : pc[p] = "idle" /\ job[p] = Idle
  BY DEF Init
<1>2. NoRows \in [Time -> Nat]
  BY DEF NoRows
<1>3. TypeOK
  <2>1. ledger \in [Buckets -> [Time -> Nat]]
    BY <1>2 DEF Init
  <2>2. job \in [Processes -> Jobs]
    BY IdleJob DEF Init
  <2>3. pc \in [Processes -> Statements]
    BY DEF Init, Statements, Waiting
  <2>4. /\ intents \in [Intents -> IntentRows \cup {NoIntent}]
        /\ budgets \in [Intents -> Budgets \cup {NoIntent}]
        /\ reads \in [Intents -> Seq(Time)]
        /\ admitted \in [Readers -> Nat]
    BY DEF Init
  <2> QED BY <1>0, <1>1, <2>1, <2>2, <2>3, <2>4 DEF TypeOK, Statements
<1>4. ReadInv /\ NoneLater
  BY <1>1 DEF ReadInv, NoneLater, NoRows
<1>5. JobInv
  <2> SUFFICES ASSUME NEW p \in Processes
               PROVE  JobOK(p) /\ CapOK(p) /\ PaceOK(p) /\ CheckOK(p)
    BY DEF JobInv
  <2>1. JobOK(p)
    BY <1>1, IdleJob DEF JobOK, Past
  <2>2. CapOK(p) /\ PaceOK(p) /\ CheckOK(p)
    BY <1>1, IdleJob DEF CapOK, PaceOK, CheckOK
  <2> QED BY <2>1, <2>2
<1>6. LockInv
  BY <1>1, IdleJob DEF LockInv, Excludes, HoldsBucket
<1> QED BY <1>3, <1>4, <1>5, <1>6 DEF Core

\* A transaction that begins keeps it.
LEMMA BeginsStep ==
  ASSUME Core, NEW p \in Processes,
         BeginCharge(p) \/ BeginPrepare(p) \/ BeginStatus(p)
  PROVE  Core'
<1>1. CASE BeginCharge(p)
  BY <1>1, BeginStep DEF BeginCharge, Kinds
<1>2. CASE BeginPrepare(p)
  BY <1>2, BeginStep DEF BeginPrepare, Kinds
<1>3. CASE BeginStatus(p)
  <2>1. PICK i \in Intents :
          intents[i] # NoIntent /\ Begin(p, "status", Owner[intents[i].session], i)
    BY <1>3 DEF BeginStatus
  <2>2. intents[i] \in IntentRows
    BY <2>1 DEF Core, TypeOK
  <2>3. Owner[intents[i].session] \in Readers
    BY <2>2, NamesAssumption DEF IntentRows
  <2> QED BY <2>1, <2>3, BeginStep DEF Kinds
<1> QED BY <1>1, <1>2, <1>3

(* The inductive invariant, for any transactions and any constants.           *)
THEOREM LimitsInvariance == Spec => []Core
<1>1. ASSUME Core, [Next]_vars PROVE Core'
  <2>1. CASE UNCHANGED vars
    <3>1. UNCHANGED <<now, ledger, intents, budgets, reads, admitted, pc, job>>
      BY <2>1 DEF vars, tables, history
    <3>2. TypeOK' /\ ReadInv' /\ NoneLater'
      BY <1>1, <3>1 DEF Core, TypeOK, ReadInv, NoneLater
    <3>3. LockInv'
      BY <1>1, <3>1 DEF Core, LockInv, Excludes, HoldsBucket, Bill, Asked
    <3>4. ASSUME NEW q \in Processes
          PROVE  JobOK(q)' /\ CapOK(q)' /\ PaceOK(q)' /\ CheckOK(q)'
      <4>1. JobOK(q) /\ CapOK(q) /\ PaceOK(q) /\ CheckOK(q)
        BY <1>1 DEF Core, JobInv
      <4>2. JobOK(q)'
        BY <3>1, <4>1 DEF JobOK, Bill
      <4>3. CapOK(q)' /\ PaceOK(q)'
        BY <3>1, <4>1 DEF CapOK, PaceOK, With, OfReader, OfSession, Live
      <4>4. CheckOK(q)'
        <5>1. \A b, T : Checked(b, T)' <=> Checked(b, T)
          BY <3>1, CheckedStays
        <5>2. Bill(q)' = Bill(q) /\ Asked(q)' = Asked(q)
          BY <3>1 DEF Bill, Asked
        <5> QED BY <3>1, <4>1, <5>1, <5>2 DEF CheckOK
      <4> QED BY <4>2, <4>3, <4>4
    <3> QED BY <3>2, <3>3, <3>4 DEF Core, JobInv
  <2>2. ASSUME NEW p \in Processes,
               BeginCharge(p) \/ BeginPrepare(p) \/ BeginStatus(p)
        PROVE  Core'
    BY <1>1, <2>2, BeginsStep
  <2>3. ASSUME NEW p \in Processes, Step(p) PROVE Core'
    BY <1>1, <2>3, InsertStep, ReadBudgetStep, CheckStep, ChargeStep, CommitStep
       DEF Step
  <2>4. ASSUME NEW p \in Processes, Abort(p) PROVE Core'
    BY <1>1, <2>4, RollBackStep DEF Abort
  <2>5. ASSUME NEW i \in Intents, Settle(i) PROVE Core'
    BY <1>1, <2>5, SettleStep
  <2>6. CASE Tick
    BY <1>1, <2>6, TickStep
  <2> QED BY <1>1, <2>1, <2>2, <2>3, <2>4, <2>5, <2>6 DEF Next
<1> QED BY <1>1, CoreInit, PTL DEF Spec

\* The type invariant of the limits, for any readers, sessions, intents and windows.
THEOREM LimitsTypes == Spec => []TypeOK
<1>1. Core => TypeOK
  BY DEF Core
<1> QED BY <1>1, LimitsInvariance, PTL
-----------------------------------------------------------------------------
(* Only a COMMIT writes the ledger and the reads.                             *)
LEMMA OnlyCommit ==
  ASSUME Core, [Next]_vars
  PROVE  \/ /\ UNCHANGED <<ledger, reads, admitted>>
            /\ intents' = intents \/ \E i \in Intents : Settle(i)
            /\ now' = now \/ Tick
         \/ \E p \in Processes : Commit(p)
<1>1. CASE UNCHANGED vars
  BY <1>1 DEF vars, tables, history
<1>2. ASSUME NEW p \in Processes,
             BeginCharge(p) \/ BeginPrepare(p) \/ BeginStatus(p)
      PROVE  UNCHANGED <<ledger, reads, admitted, intents, now>>
  BY <1>2 DEF BeginCharge, BeginPrepare, BeginStatus, Begin, tables, history
<1>3. ASSUME NEW p \in Processes, Step(p), ~Commit(p)
      PROVE  UNCHANGED <<ledger, reads, admitted, intents, now>>
  <2>1. ASSUME NEW s \in Sessions, NEW life \in 1..TTL, InsertIntent(p, s, life)
        PROVE  UNCHANGED <<ledger, reads, admitted, intents, now>>
    <3>1. \/ RollBack(p) \/ \E j : Goto(p, "bucket", j)
      BY <2>1 DEF InsertIntent
    <3> QED BY <3>1 DEF RollBack, Goto, tables, history
  <2>2. CASE ReadBudget(p)
    BY <2>2 DEF ReadBudget, RollBack, Goto, tables, history
  <2>3. CASE CheckBucket(p)
    BY <2>3 DEF CheckBucket, RollBack, Goto, tables, history
  <2>4. CASE Charge(p)
    BY <2>4 DEF Charge, Goto, tables, history
  <2> QED BY <1>3, <2>1, <2>2, <2>3, <2>4 DEF Step
<1>4. ASSUME NEW p \in Processes, Abort(p)
      PROVE  UNCHANGED <<ledger, reads, admitted, intents, now>>
  BY <1>4 DEF Abort, RollBack, Goto, tables, history
<1>5. ASSUME NEW i \in Intents, Settle(i)
      PROVE  UNCHANGED <<ledger, reads, admitted, now>>
  BY <1>5 DEF Settle, history
<1>6. CASE Tick
  BY <1>6 DEF Tick, tables, history
<1> QED BY <1>1, <1>2, <1>3, <1>4, <1>5, <1>6 DEF Next

(* The row a COMMIT adds to a bucket, and what its check established.         *)
LEMMA CommitChecked ==
  ASSUME Core, NEW p \in Processes, Commit(p), NEW b \in Buckets
  PROVE  \/ ledger'[b] = ledger[b]
         \/ \E t, T \in Time :
              /\ ledger'[b] = [ledger[b] EXCEPT ![t] = @ + 1]
              /\ T <= t /\ Checked(b, T)
<1>1. ASSUME NEW n \in 1..Len(Bill(p)), Bill(p)[n] = b
      PROVE  \E T \in Time : T <= job[p].charged[n] /\ Checked(b, T)
  BY <1>1, CommitValues DEF CheckOK, JobOK
<1>2. CASE \E n \in 1..Len(Bill(p)) :
             /\ Bill(p)[n] = b /\ job[p].charged[n] \in Time
             /\ ledger'[b] = [ledger[b] EXCEPT ![job[p].charged[n]] = @ + 1]
             /\ HoldsBucket(p, b)
  <2>1. PICK n \in 1..Len(Bill(p)) :
               /\ Bill(p)[n] = b /\ job[p].charged[n] \in Time
               /\ ledger'[b] = [ledger[b] EXCEPT ![job[p].charged[n]] = @ + 1]
    BY <1>2
  <2>2. PICK T \in Time : T <= job[p].charged[n] /\ Checked(b, T)
    BY <1>1, <2>1
  <2> QED BY <2>1, <2>2, Zenon
<1>3. CASE /\ \A n \in 1..Len(Bill(p)) : Bill(p)[n] # b
           /\ ledger'[b] = ledger[b]
  BY <1>3
<1> QED BY <1>2, <1>3, CommitLedger, Zenon

(* A window with the new row ends after the check and holds only rows that    *)
(* it counted.                                                                *)
LEMMA WindowStep ==
  ASSUME Core, WindowKept, [Next]_vars
  PROVE  WindowKept'
<1>1. CASE UNCHANGED ledger
  <2>1. \A b, S : Rows(b, S)' = Rows(b, S)
    BY <1>1, CheckedStays
  <2> QED BY <2>1 DEF WindowKept
<1>2. ASSUME NEW p \in Processes, Commit(p) PROVE WindowKept'
  <2> SUFFICES ASSUME NEW b \in Buckets, NEW t \in Time
               PROVE  Rows(b, (t - Window + 1)..t)' <= Limits[b[1]]
    BY DEF WindowKept
  <2> DEFINE S == (t - Window + 1)..t
  <2>0. /\ TypeOK /\ Rows(b, S) \in Nat /\ Rows(b, S) <= Limits[b[1]]
        /\ Limits[b[1]] \in Nat /\ Window \in Nat /\ t \in Nat
    <3>1. TypeOK /\ Rows(b, S) <= Limits[b[1]] /\ t \in Nat
      BY DEF Core, WindowKept, Time
    <3>2. Limits[b[1]] \in Nat /\ Window \in Nat
      BY Bucketed
    <3> HIDE DEF S
    <3> QED BY <3>1, <3>2, RowsType
  <2>1. CASE ledger'[b] = ledger[b]
    BY <2>0, <2>1, RowsSum
  <2>2. ASSUME NEW c \in Time, NEW T \in Time, T <= c, Checked(b, T),
               ledger'[b] = [ledger[b] EXCEPT ![c] = @ + 1]
        PROVE  Rows(b, S)' <= Limits[b[1]]
    <3>1. Rows(b, S)' = Rows(b, S) + IF c \in S THEN 1 ELSE 0
      BY <2>2, CommitRows
    <3>2. CASE c \notin S
      BY <2>0, <3>1, <3>2
    <3>3. CASE c \in S
      <4>1. Rows(b, S) <= Rows(b, (T - Window + 1)..T)
        <5>1. \A u \in Time : u \in S /\ ledger[b][u] # 0 =>
                u \in (T - Window + 1)..T
          <6> TAKE u \in Time
          <6>1. ledger[b][u] # 0 => ~(u > T)
            BY <2>2 DEF Checked
          <6> QED BY <2>0, <2>2, <3>3, <6>1 DEF Time
        <5> HIDE DEF S
        <5> QED BY <2>0, <5>1, RowsPart
      <4>2. Rows(b, (T - Window + 1)..T) < Limits[b[1]]
        BY <2>2 DEF Checked
      <4>3. Rows(b, (T - Window + 1)..T) \in Nat
        BY <2>0, RowsType
      <4> HIDE DEF S
      <4> QED BY <2>0, <3>1, <3>3, <4>1, <4>2, <4>3
    <3> QED BY <3>2, <3>3
  <2> QED BY <1>2, <2>1, <2>2, CommitChecked
<1> QED BY <1>1, <1>2, OnlyCommit

(* The quotas are kept by any number of transactions (reservePwQuota).        *)
THEOREM WindowTheorem == Spec => []WindowKept
<1>1. Init => WindowKept
  <2> SUFFICES ASSUME Init, NEW b \in Buckets, NEW t \in Time
               PROVE  Rows(b, (t - Window + 1)..t) <= Limits[b[1]]
    BY DEF WindowKept
  <2>1. TypeOK /\ \A u \in Time : ledger[b][u] = 0
    BY CoreInit DEF Core, Init, NoRows
  <2>2. Rows(b, (t - Window + 1)..t) <= Rows(b, {})
    BY <2>1, RowsPart
  <2>3. Rows(b, {}) = 0 /\ Rows(b, (t - Window + 1)..t) \in Nat
    BY <2>1, RowsNone, RowsType
  <2> QED BY <2>2, <2>3, Bucketed
<1>2. Core /\ WindowKept /\ [Next]_vars => WindowKept'
  BY WindowStep
<1> QED BY <1>1, <1>2, LimitsInvariance, PTL DEF Spec

(* Of the rows since s, those after the check are none, and those before were *)
(* replayed by it.                                                            *)
LEMMA BurstStep ==
  ASSUME Core, BurstKept, [Next]_vars
  PROVE  BurstKept'
<1>1. CASE UNCHANGED ledger
  <2>1. \A b, S : Rows(b, S)' = Rows(b, S)
    BY <1>1, CheckedStays
  <2> QED BY <2>1 DEF BurstKept
<1>2. ASSUME NEW p \in Processes, Commit(p) PROVE BurstKept'
  <2> SUFFICES ASSUME NEW b \in Buckets, NEW s \in Time, NEW e \in Time,
                      s <= e, e < s + Window
               PROVE  Rows(b, s..e)' * Window
                        <= Bursts[b[1]] * Window + (e - s) * Limits[b[1]]
    BY DEF BurstKept
  <2> DEFINE S == s..e
             B == Bursts[b[1]]
             L == Limits[b[1]]
  <2>0. /\ TypeOK /\ S = s..e /\ s \in Nat /\ e \in Nat
        /\ Window \in Nat /\ B \in Nat /\ B >= 1 /\ L \in Nat
    BY Bucketed DEF Core, Time
  <2>1. Rows(b, S) \in Nat /\ Rows(b, S) * Window <= B * Window + (e - s) * L
    BY <2>0, RowsType DEF BurstKept
  <2>2. CASE ledger'[b] = ledger[b]
    <3>1. Rows(b, S)' = Rows(b, S)
      BY <2>2, RowsSum
    <3> QED BY <2>1, <3>1
  <2>3. ASSUME NEW c \in Time, NEW T \in Time, T <= c, Checked(b, T),
               ledger'[b] = [ledger[b] EXCEPT ![c] = @ + 1]
        PROVE  Rows(b, S)' * Window <= B * Window + (e - s) * L
    <3>1. Rows(b, S)' = Rows(b, S) + IF c \in S THEN 1 ELSE 0
      BY <2>3, CommitRows
    <3>2. CASE c \notin S
      <4>1. Rows(b, S)' = Rows(b, S)
        BY <2>1, <3>1, <3>2
      <4> QED BY <2>1, <4>1
    <3>3. CASE c \in S
      <4>0. /\ T \in Nat /\ c \in Nat /\ s <= c /\ c <= e
            /\ \A u \in Time : ledger[b][u] # 0 => ~(u > T)
        BY <2>0, <2>3, <3>3 DEF Checked, Time
      <4>1. Rows(b, S)' = Rows(b, S) + 1
        BY <3>1, <3>3
      <4>2. CASE T < s
        <5>1. \A u \in Time : u \in S /\ ledger[b][u] # 0 => u \in {}
          <6> TAKE u \in Time
          <6> QED BY <2>0, <4>0, <4>2 DEF Time
        <5>2. Rows(b, S) <= Rows(b, {})
          <6> HIDE DEF S
          <6> QED BY <2>0, <5>1, RowsPart
        <5>3. Rows(b, S) = 0
          BY <2>1, <5>2, RowsNone
        <5>4. Rows(b, S)' * Window = Window
          BY <2>0, <4>1, <5>3
        <5>5. B * Window >= Window
          BY <2>0
        <5>6. (e - s) * L \in Nat /\ B * Window \in Nat
          <6>1. e - s \in Nat
            BY <2>0
          <6> HIDE DEF B, L
          <6> QED BY <2>0, <6>1
        <5> HIDE DEF S, B, L
        <5> QED BY <2>0, <5>4, <5>5, <5>6
      <4>3. CASE s <= T
        <5>1. Rows(b, S) <= Rows(b, s..T)
          <6>1. \A u \in Time : u \in S /\ ledger[b][u] # 0 => u \in s..T
            <7> TAKE u \in Time
            <7> QED BY <2>0, <4>0, <4>3 DEF Time
          <6> HIDE DEF S
          <6> QED BY <2>0, <6>1, RowsPart
        <5>2. Rows(b, s..T) * Window + Window <= B * Window + (T - s) * L
          <6>1. T - Window < s
            BY <2>0, <2>3, <4>0
          <6> QED BY <2>3, <4>3, <6>1 DEF Checked
        <5> DEFINE R == Rows(b, s..T)
                   Q == Rows(b, S)
        <5>3. R \in Nat /\ Q \in Nat /\ Q <= R
          BY <2>0, <2>1, <5>1, RowsType
        <5>4. (Q + 1) * Window <= R * Window + Window
          <6> HIDE DEF R, Q
          <6>1. (Q + 1) * Window = Q * Window + Window
            BY <2>0, <5>3
          <6>2. Q * Window <= R * Window
            BY <2>0, <5>3
          <6>3. Q * Window \in Nat /\ R * Window \in Nat
            BY <2>0, <5>3
          <6> QED BY <2>0, <6>1, <6>2, <6>3
        <5>5. (T - s) * L <= (e - s) * L
          <6>1. T - s \in Nat /\ e - s \in Nat /\ T - s <= e - s
            BY <2>0, <2>3, <4>0, <4>3
          <6> HIDE DEF L
          <6> QED BY <2>0, <6>1
        <5> DEFINE x == (Q + 1) * Window
                   y == R * Window
                   z == B * Window
                   v == (T - s) * L
                   w == (e - s) * L
        <5>6. x \in Int /\ y \in Int /\ z \in Int /\ v \in Int /\ w \in Int
          <6>1. /\ Q + 1 \in Int /\ R \in Int /\ B \in Int /\ T - s \in Int
                /\ e - s \in Int /\ L \in Int /\ Window \in Int
            BY <2>0, <4>0, <5>3
          <6>2. \A m, n \in Int : m * n \in Int
            OBVIOUS
          <6> HIDE DEF Q, R, B, L
          <6> QED BY <6>1, <6>2
        <5>7. x <= z + w
          <6>1. x <= y + Window /\ y + Window <= z + v /\ v <= w
            BY <5>2, <5>4, <5>5
          <6> HIDE DEF x, y, z, v, w
          <6> QED BY <2>0, <5>6, <6>1
        <5> QED BY <4>1, <5>7
      <4> QED BY <2>0, <4>0, <4>2, <4>3
    <3> QED BY <3>2, <3>3
  <2> QED BY <1>2, <2>2, <2>3, CommitChecked
<1> QED BY <1>1, <1>2, OnlyCommit

(* A bucket gives its burst and its refill, no more (reservePwQuota).         *)
THEOREM BurstTheorem == Spec => []BurstKept
<1>1. Init => BurstKept
  <2> SUFFICES ASSUME Init, NEW b \in Buckets, NEW s \in Time, NEW e \in Time,
                      s <= e
               PROVE  Rows(b, s..e) * Window
                        <= Bursts[b[1]] * Window + (e - s) * Limits[b[1]]
    BY DEF BurstKept
  <2>1. TypeOK /\ \A u \in Time : ledger[b][u] = 0
    BY CoreInit DEF Core, Init, NoRows
  <2>2. Rows(b, s..e) <= Rows(b, {})
    BY <2>1, RowsPart
  <2>3. Rows(b, s..e) = 0
    <3>1. Rows(b, {}) = 0 /\ Rows(b, s..e) \in Nat
      BY <2>1, RowsNone, RowsType
    <3> QED BY <2>2, <3>1
  <2>4. /\ Window \in Nat /\ Bursts[b[1]] \in Nat /\ Limits[b[1]] \in Nat
        /\ e - s \in Nat
    BY Bucketed DEF Time
  <2>5. \A m, n \in Nat : m * n \in Nat
    OBVIOUS
  <2>6. Bursts[b[1]] * Window \in Nat /\ (e - s) * Limits[b[1]] \in Nat
    BY <2>4, <2>5
  <2>7. Rows(b, s..e) * Window = 0
    BY <2>3, <2>4
  <2> QED BY <2>6, <2>7
<1>2. Core /\ BurstKept /\ [Next]_vars => BurstKept'
  BY BurstStep
<1> QED BY <1>1, <1>2, LimitsInvariance, PTL DEF Spec
-----------------------------------------------------------------------------
(* The caps: only a COMMIT adds an intent, under the lock of its reader.      *)
LEMMA CapsStep ==
  ASSUME Core, CapsKept, [Next]_vars
  PROVE  CapsKept'
<1> SUFFICES ASSUME NEW r \in Readers, NEW s \in Sessions
             PROVE  /\ Cardinality(OfReader(intents, now, r))' <= ReaderCap
                    /\ Cardinality(OfSession(intents, now, s))' <= SessionCap
  <2>1. Readers = {} => \A s \in Sessions : FALSE
    BY NamesAssumption
  <2>2. CASE Sessions = {}
    <3>1. \A r \in Readers : OfReader(intents, now, r) = {}
            /\ OfReader(intents, now, r)' = {}
      <4>1. Core /\ IntentRows = {}
        BY <2>2 DEF IntentRows
      <4>2. \A i \in Intents : intents[i] = NoIntent
        BY <4>1 DEF Core, TypeOK
      <4>3. \A i \in Intents : intents'[i] = NoIntent
        <5>1. CASE \E p \in Processes : Commit(p)
          BY <4>1, <4>2, <5>1, CommitTypes DEF TypeOK
        <5>2. CASE ~\E p \in Processes : Commit(p)
          BY <4>2, <5>2, OnlyCommit DEF Settle
        <5> QED BY <5>1, <5>2
      <4> QED BY <4>2, <4>3 DEF OfReader, Live
    <3> QED BY <2>2, <3>1, FS_EmptySet, LimitsAssumption DEF CapsKept
  <2> QED BY <2>1, <2>2 DEF CapsKept
<1>0. /\ now \in Nat /\ intents \in [Intents -> IntentRows \cup {NoIntent}]
      /\ Cardinality(OfReader(intents, now, r)) <= ReaderCap
      /\ Cardinality(OfSession(intents, now, s)) <= SessionCap
  BY DEF Core, TypeOK, Time, CapsKept
<1>1. CASE intents' = intents /\ now' = now
  BY <1>0, <1>1 DEF OfReader, OfSession, Live
<1>2. CASE Tick
  <2>1. /\ intents' = intents /\ now' = now + 1
    BY <1>2 DEF Tick, tables
  <2>2. /\ Cardinality(OfReader(intents, now + 1, r)) <= ReaderCap
        /\ Cardinality(OfSession(intents, now + 1, s)) <= SessionCap
    <3>1. now + 1 \in Nat /\ now <= now + 1
      BY <1>0
    <3>2. /\ Cardinality(OfReader(intents, now, r)) \in Nat
          /\ Cardinality(OfSession(intents, now, s)) \in Nat
          /\ Cardinality(OfReader(intents, now + 1, r)) \in Nat
          /\ Cardinality(OfSession(intents, now + 1, s)) \in Nat
          /\ Cardinality(OfReader(intents, now + 1, r))
               <= Cardinality(OfReader(intents, now, r))
          /\ Cardinality(OfSession(intents, now + 1, s))
               <= Cardinality(OfSession(intents, now, s))
      BY <1>0, <3>1, LiveLater
    <3> QED BY <1>0, <3>2, LimitsAssumption
  <2> QED BY <2>1, <2>2 DEF OfReader, OfSession, Live
<1>3. ASSUME NEW i \in Intents, Settle(i)
      PROVE  /\ Cardinality(OfReader(intents, now, r))' <= ReaderCap
             /\ Cardinality(OfSession(intents, now, s))' <= SessionCap
  <2>1. /\ intents[i] # NoIntent /\ now' = now
        /\ intents' = [intents EXCEPT ![i].pending = FALSE]
    BY <1>3 DEF Settle
  <2>2. /\ Cardinality(OfReader(intents, now, r)) \in Nat
        /\ Cardinality(OfSession(intents, now, s)) \in Nat
        /\ Cardinality(OfReader(intents', now, r)) \in Nat
        /\ Cardinality(OfSession(intents', now, s)) \in Nat
        /\ Cardinality(OfReader(intents', now, r))
             <= Cardinality(OfReader(intents, now, r))
        /\ Cardinality(OfSession(intents', now, s))
             <= Cardinality(OfSession(intents, now, s))
    BY <1>0, <2>1, SettledFewer
  <2>3. /\ Cardinality(OfReader(intents', now, r)) <= ReaderCap
        /\ Cardinality(OfSession(intents', now, s)) <= SessionCap
    BY <1>0, <2>2, LimitsAssumption
  <2> QED BY <2>1, <2>3 DEF OfReader, OfSession, Live
<1>4. ASSUME NEW p \in Processes, Commit(p)
      PROVE  /\ Cardinality(OfReader(intents, now, r))' <= ReaderCap
             /\ Cardinality(OfSession(intents, now, s))' <= SessionCap
  <2> DEFINE j == job[p]
  <2>0. now' = now
    BY <1>4, CommitValues
  <2>1. CASE j.kind # "prepare"
    BY <1>1, <1>4, <2>0, <2>1, CommitValues
  <2>2. CASE j.kind = "prepare"
    <3>1. /\ intents' = With(p) /\ j.intent \in Intents /\ j.row \in IntentRows
          /\ intents[j.intent] = NoIntent /\ Owner[j.row.session] = j.reader
          /\ Cardinality(OfReader(With(p), now, j.reader)) <= ReaderCap
          /\ Cardinality(OfSession(With(p), now, j.row.session)) <= SessionCap
      BY <1>4, <2>2, CommitValues DEF With, CapOK, Past
    <3>2. /\ With(p)[j.intent] = j.row
          /\ \A k \in Intents : k # j.intent => With(p)[k] = intents[k]
      BY <1>0, <3>1 DEF With
    <3>3. r # j.reader => OfReader(With(p), now, r) = OfReader(intents, now, r)
      BY <3>1, <3>2 DEF OfReader, Live
    <3>4. s # j.row.session =>
            OfSession(With(p), now, s) = OfSession(intents, now, s)
      BY <3>1, <3>2 DEF OfSession, Live
    <3>5. /\ Cardinality(OfReader(With(p), now, r)) <= ReaderCap
          /\ Cardinality(OfSession(With(p), now, s)) <= SessionCap
      BY <1>0, <3>1, <3>3, <3>4
    <3> QED BY <2>0, <3>1, <3>5 DEF OfReader, OfSession, Live
  <2> QED BY <2>1, <2>2
<1>5. CASE UNCHANGED vars
  BY <1>1, <1>5 DEF vars, tables
<1> QED BY <1>1, <1>2, <1>3, <1>4, <1>5, OnlyCommit

(* The pending caps (preparePwWriteIntentInTx).                               *)
THEOREM CapsTheorem == Spec => []CapsKept
<1>1. Init => CapsKept
  <2> SUFFICES ASSUME Init PROVE CapsKept
    OBVIOUS
  <2>1. /\ \A r \in Readers : OfReader(intents, now, r) = {}
        /\ \A s \in Sessions : OfSession(intents, now, s) = {}
    BY DEF Init, OfReader, OfSession, Live
  <2> QED BY <2>1, FS_EmptySet, LimitsAssumption DEF CapsKept
<1>2. Core /\ CapsKept /\ [Next]_vars => CapsKept'
  BY CapsStep
<1> QED BY <1>1, <1>2, LimitsInvariance, PTL DEF Spec

(* The reads: the new one is spaced from the last the budget tells.           *)
LEMMA PacedStep ==
  ASSUME Core, StatusPaced, [Next]_vars
  PROVE  StatusPaced'
<1>1. CASE UNCHANGED reads
  BY <1>1 DEF StatusPaced
<1>2. ASSUME NEW p \in Processes, Commit(p) PROVE StatusPaced'
  <2> DEFINE j == job[p]
  <2> SUFFICES ASSUME NEW i \in Intents, NEW n \in 2..Len(reads'[i])
               PROVE  reads'[i][n] - reads'[i][n - 1] >=
                        IF reads'[i][n] < reads'[i][1] + Initial THEN Fast
                        ELSE Slow
    BY DEF StatusPaced
  <2>1. CASE ~(j.kind = "status" /\ i = j.intent)
    <3>1. reads'[i] = reads[i]
      BY <1>2, <2>1, CommitValues DEF TypeOK
    <3> QED BY <3>1 DEF StatusPaced
  <2>2. CASE j.kind = "status" /\ i = j.intent
    <3> DEFINE b == j.budget
               old == reads[i]
    <3>1. /\ reads'[i] = Append(old, b.last) /\ old \in Seq(Time)
          /\ b \in Budgets /\ Follows(b, budgets[i])
      BY <1>2, <2>2, CommitValues DEF TypeOK, PaceOK, Past
    <3>2. b.last \in Time /\ Len(old) \in Nat
      BY <3>1 DEF Budgets
    <3>3. /\ Len(reads'[i]) = Len(old) + 1 /\ reads'[i][Len(old) + 1] = b.last
          /\ \A m \in 1..Len(old) : reads'[i][m] = old[m]
      BY <3>1, <3>2
    <3> HIDE DEF b
    <3>4. CASE n <= Len(old)
      <4>1. n \in 1..Len(old) /\ n - 1 \in 1..Len(old) /\ 1 \in 1..Len(old)
            /\ n \in 2..Len(old)
        BY <3>2, <3>4
      <4> QED BY <3>3, <4>1 DEF StatusPaced
    <3>5. CASE ~(n <= Len(old))
      <4>1. n = Len(old) + 1 /\ Len(old) >= 1 /\ n - 1 = Len(old)
        BY <3>2, <3>3, <3>5
      <4>2. old # <<>>
        BY <4>1
      <4>3. /\ budgets[i] # NoIntent /\ budgets[i].first = old[1]
            /\ budgets[i].last = old[Len(old)]
        BY <4>2 DEF Core, ReadInv
      <4>4. /\ b.first = old[1]
            /\ b.last - old[Len(old)] >= Spacing(b)
        BY <3>1, <4>3 DEF Follows
      <4>5. /\ reads'[i][n] = b.last /\ reads'[i][n - 1] = old[Len(old)]
            /\ reads'[i][1] = b.first
        <5>1. n - 1 \in 1..Len(old) /\ 1 \in 1..Len(old)
          BY <3>2, <4>1
        <5> QED BY <3>3, <4>1, <4>4, <5>1
      <4> QED BY <4>4, <4>5 DEF Spacing
    <3> QED BY <3>4, <3>5
  <2> QED BY <2>1, <2>2
<1> QED BY <1>1, <1>2, OnlyCommit

(* The pace of the status reads (reservePwIntentStatus).                      *)
THEOREM PacedTheorem == Spec => []StatusPaced
<1>1. Init => StatusPaced
  BY DEF Init, StatusPaced
<1>2. Core /\ StatusPaced /\ [Next]_vars => StatusPaced'
  BY PacedStep
<1> QED BY <1>1, <1>2, LimitsInvariance, PTL DEF Spec
-----------------------------------------------------------------------------
(* What is charged is what was done.                                          *)
Owed(bill, b) == \E n \in 1..Len(bill) : bill[n] = b

\* Who owes a row in which bucket.
LEMMA Billing ==
  ASSUME NEW k \in Kinds, NEW r \in Readers, NEW c \in Classes, NEW x
  PROVE  Owed(Charges(k, r), <<c, x>>)
           <=> \/ k = "admission" /\ c = "reader" /\ x = r
               \/ k = "admission" /\ c = "workspace" /\ x = Shared
               \/ k = c /\ c \notin {"reader", "workspace"} /\ x = r
<1>1. CASE k = "admission"
  BY <1>1 DEF Charges, Classes, Owed
<1>2. CASE k = "attempt"
  BY <1>2 DEF Charges, Classes, Owed
<1>3. CASE k = "prepare"
  BY <1>3 DEF Charges, Classes, Owed
<1>4. CASE k = "status"
  BY <1>4 DEF Charges, Classes, Owed
<1> QED BY <1>1, <1>2, <1>3, <1>4 DEF Kinds

\* A COMMIT adds one row to each bucket the transaction owes, and none elsewhere.
LEMMA CommitCharges ==
  ASSUME Core, NEW p \in Processes, Commit(p), NEW b \in Buckets
  PROVE  Rows(b, Time)' = Rows(b, Time)
           + IF Owed(Bill(p), b) THEN 1 ELSE 0
<1> USE DEF Owed
<1>1. CASE \E n \in 1..Len(Bill(p)) : Bill(p)[n] = b
  <2>1. PICK t \in Time : ledger'[b] = [ledger[b] EXCEPT ![t] = @ + 1]
    BY <1>1, CommitLedger
  <2> QED BY <1>1, <2>1, CommitRows
<1>2. CASE ~\E n \in 1..Len(Bill(p)) : Bill(p)[n] = b
  <2>1. ledger'[b] = ledger[b]
    BY <1>2, CommitLedger
  <2>2. Rows(b, Time)' = Rows(b, Time) /\ Rows(b, Time) \in Nat
    BY <2>1, RowsSum, RowsType DEF Core
  <2> QED BY <1>2, <2>2
<1> QED BY <1>1, <1>2

Lengths == [i \in Intents |-> Len(reads[i])]

\* The accounting, with sums in the place of quantifiers over rows.
LEMMA ChargedSums ==
  /\ ChargedOnce <=>
       /\ \A r \in Readers :
            /\ Rows(<<"reader", r>>, Time) = admitted[r]
            /\ Rows(<<"prepare", r>>, Time) = Cardinality(IntentsOf(r))
            /\ Rows(<<"status", r>>, Time) = SumOf(Lengths, IntentsOf(r))
       /\ Rows(<<"workspace", Shared>>, Time) = SumOf(admitted, Readers)
  /\ ChargedOnce' <=>
       /\ \A r \in Readers :
            /\ Rows(<<"reader", r>>, Time)' = admitted'[r]
            /\ Rows(<<"prepare", r>>, Time)' = Cardinality(IntentsOf(r)')
            /\ Rows(<<"status", r>>, Time)' = SumOf(Lengths', IntentsOf(r)')
       /\ Rows(<<"workspace", Shared>>, Time)' = SumOf(admitted', Readers)
  BY DEF ChargedOnce, Lengths, SumOf, FoldFunctionOnSet, MapThenFoldSet

\* The reads of an intent are counted in numbers.
LEMMA LengthsType ==
  ASSUME Core
  PROVE  /\ \A i \in Intents : Lengths[i] = Len(reads[i]) /\ Lengths[i] \in Nat
         /\ \A r : IsFiniteSet(IntentsOf(r)) /\ IntentsOf(r) \subseteq Intents
<1>1. \A i \in Intents : Lengths[i] = Len(reads[i]) /\ Lengths[i] \in Nat
  BY DEF Core, TypeOK, Lengths
<1>2. \A r : IntentsOf(r) \subseteq Intents
  BY DEF IntentsOf
<1> QED BY <1>1, <1>2, FS_Subset, NamesAssumption

\* A COMMIT keeps the accounting.
LEMMA ChargedCommit ==
  ASSUME Core, ChargedOnce, NEW p \in Processes, Commit(p)
  PROVE  ChargedOnce'
<1> DEFINE j == job[p]
           k == job[p].kind
           a == job[p].reader
           i == job[p].intent
<1>0. /\ TypeOK /\ Core' /\ k \in Kinds /\ a \in Readers /\ Bill(p) = Charges(k, a)
  BY CommitValues, CommitStep DEF Jobs, Bill
<1>1. ASSUME NEW c \in Classes, NEW x, <<c, x>> \in Buckets
      PROVE  Rows(<<c, x>>, Time)' = Rows(<<c, x>>, Time)
               + IF \/ k = "admission" /\ c = "reader" /\ x = a
                    \/ k = "admission" /\ c = "workspace" /\ x = Shared
                    \/ k = c /\ c \notin {"reader", "workspace"} /\ x = a
                 THEN 1 ELSE 0
  <2>1. Owed(Bill(p), <<c, x>>)
          <=> \/ k = "admission" /\ c = "reader" /\ x = a
              \/ k = "admission" /\ c = "workspace" /\ x = Shared
              \/ k = c /\ c \notin {"reader", "workspace"} /\ x = a
    BY <1>0, Billing
  <2>2. Rows(<<c, x>>, Time)' = Rows(<<c, x>>, Time)
          + IF Owed(Bill(p), <<c, x>>) THEN 1 ELSE 0
    BY <1>1, CommitCharges
  <2> QED BY <2>1, <2>2
<1>2. /\ \A r \in Readers :
           /\ Rows(<<"reader", r>>, Time) = admitted[r]
           /\ Rows(<<"prepare", r>>, Time) = Cardinality(IntentsOf(r))
           /\ Rows(<<"status", r>>, Time) = SumOf(Lengths, IntentsOf(r))
      /\ Rows(<<"workspace", Shared>>, Time) = SumOf(admitted, Readers)
  BY ChargedSums
<1>3. /\ \A r \in Readers : /\ <<"reader", r>> \in Buckets
                            /\ <<"prepare", r>> \in Buckets
                            /\ <<"status", r>> \in Buckets
      /\ <<"workspace", Shared>> \in Buckets
      /\ {"reader", "prepare", "status", "workspace"} \subseteq Classes
  BY DEF Buckets, Classes
<1>4. ASSUME NEW r \in Readers
      PROVE  /\ Rows(<<"reader", r>>, Time)' = Rows(<<"reader", r>>, Time)
                  + IF k = "admission" /\ r = a THEN 1 ELSE 0
             /\ Rows(<<"prepare", r>>, Time)' = Rows(<<"prepare", r>>, Time)
                  + IF k = "prepare" /\ r = a THEN 1 ELSE 0
             /\ Rows(<<"status", r>>, Time)' = Rows(<<"status", r>>, Time)
                  + IF k = "status" /\ r = a THEN 1 ELSE 0
  BY <1>1, <1>3
<1>5. Rows(<<"workspace", Shared>>, Time)' = Rows(<<"workspace", Shared>>, Time)
        + IF k = "admission" THEN 1 ELSE 0
  BY <1>1, <1>3
<1>6. ASSUME NEW r \in Readers
      PROVE  Rows(<<"reader", r>>, Time)' = admitted'[r]
  <2>1. admitted[r] \in Nat
    BY <1>0 DEF TypeOK
  <2>2. admitted'[r] = admitted[r] + IF k = "admission" /\ r = a THEN 1 ELSE 0
    BY <1>0, <2>1, CommitValues DEF TypeOK
  <2> QED BY <1>2, <1>4, <2>2
<1>7. Rows(<<"workspace", Shared>>, Time)' = SumOf(admitted', Readers)
  <2>1. \A r \in Readers : admitted[r] \in Nat
    BY <1>0 DEF TypeOK
  <2>2. CASE k = "admission"
    <3>1. /\ admitted'[a] = admitted[a] + 1
          /\ \A r \in Readers \ {a} : admitted'[r] = admitted[r]
      BY <1>0, <2>2, CommitValues DEF TypeOK
    <3>2. SumOf(admitted', Readers) = SumOf(admitted, Readers) + 1
      BY <1>0, <2>1, <3>1, SumMore, NamesAssumption
    <3> QED BY <1>2, <1>5, <2>2, <3>2
  <2>3. CASE k # "admission"
    <3>1. admitted' = admitted
      BY <2>3, CommitValues
    <3>2. SumOf(admitted, Readers) \in Nat
      BY <2>1, SumType, NamesAssumption
    <3> QED BY <1>2, <1>5, <2>3, <3>1, <3>2
  <2> QED BY <2>2, <2>3
<1>8. ASSUME NEW r \in Readers
      PROVE  /\ Rows(<<"prepare", r>>, Time)' = Cardinality(IntentsOf(r)')
             /\ Rows(<<"status", r>>, Time)' = SumOf(Lengths', IntentsOf(r)')
  <2> DEFINE A == IntentsOf(r)
             B == IntentsOf(r)'
             f == Lengths
             g == Lengths'
  <2>1. /\ A \subseteq Intents /\ B \subseteq Intents
        /\ IsFiniteSet(A) /\ IsFiniteSet(B)
        /\ \A m \in Intents : f[m] = Len(reads[m]) /\ f[m] \in Nat
        /\ Cardinality(A) \in Nat /\ SumOf(f, A) \in Nat
    <3>1. /\ A \subseteq Intents /\ IsFiniteSet(A)
          /\ \A m \in Intents : f[m] = Len(reads[m]) /\ f[m] \in Nat
      BY LengthsType
    <3>2. B \subseteq Intents /\ IsFiniteSet(B)
      <4>1. B \subseteq Intents
        BY DEF IntentsOf
      <4> QED BY <4>1, FS_Subset, NamesAssumption
    <3>3. Cardinality(A) \in Nat
      BY <3>1, FS_CardinalityType
    <3>4. SumOf(f, A) \in Nat
      <4>1. \A x \in A : f[x] \in Nat
        BY <3>1
      <4> HIDE DEF f, A
      <4> QED BY <3>1, <4>1, SumType
    <3> QED BY <3>1, <3>2, <3>3, <3>4
  <2>2. \A m \in Intents : g[m] = Len(reads'[m])
    BY DEF Lengths
  <2>3. CASE k = "prepare"
    <3>1. /\ i \in Intents /\ intents[i] = NoIntent /\ reads' = reads
          /\ intents' = [intents EXCEPT ![i] = j.row] /\ j.row # NoIntent
          /\ Owner[j.row.session] = a
      BY <2>3, CommitValues, NamesAssumption
    <3>2. /\ B = IF r = a THEN A \cup {i} ELSE A
          /\ i \notin A
      BY <1>0, <3>1 DEF IntentsOf, TypeOK
    <3>3. f[i] = 0 /\ \A m \in Intents : g[m] = f[m]
      <4>1. reads[i] = <<>>
        BY <3>1 DEF Core, ReadInv
      <4> QED BY <2>1, <2>2, <3>1, <4>1
    <3> HIDE DEF A, B, f, g
    <3>4. CASE r = a
      <4>1. Cardinality(B) = Cardinality(A) + 1
        BY <2>1, <3>2, <3>4, FS_AddElement
      <4>2. SumOf(g, B) = SumOf(f, A)
        <5>1. SumOf(f, A \cup {i}) = f[i] + SumOf(f, A)
          <6>1. \A x \in A \cup {i} : f[x] \in Nat
            BY <2>1, <3>1
          <6> QED BY <2>1, <3>2, <6>1, SumAdd
        <5>2. SumOf(g, B) = SumOf(f, B)
          <6>1. \A x \in B : f[x] \in Nat /\ g[x] = f[x]
            BY <2>1, <3>3
          <6> QED BY <2>1, <6>1, SumSame
        <5> QED BY <2>1, <3>2, <3>3, <3>4, <5>1, <5>2
      <4>3. /\ Rows(<<"prepare", r>>, Time)' = Cardinality(A) + 1
            /\ Rows(<<"status", r>>, Time)' = SumOf(f, A)
        <5>1. /\ Rows(<<"prepare", r>>, Time) = Cardinality(A)
              /\ Rows(<<"status", r>>, Time) = SumOf(f, A)
          BY <1>2 DEF A, f
        <5>2. /\ Rows(<<"prepare", r>>, Time)'
                   = Rows(<<"prepare", r>>, Time) + 1
              /\ Rows(<<"status", r>>, Time)' = Rows(<<"status", r>>, Time) + 0
          BY <1>4, <2>3, <3>4
        <5> QED BY <2>1, <5>1, <5>2
      <4> QED BY <4>1, <4>2, <4>3 DEF B, g
    <3>5. CASE r # a
      <4>1. SumOf(g, A) = SumOf(f, A)
        <5>1. \A x \in A : f[x] \in Nat /\ g[x] = f[x]
          BY <2>1, <3>3
        <5> QED BY <2>1, <5>1, SumSame
      <4>2. /\ Rows(<<"prepare", r>>, Time)' = Cardinality(A)
            /\ Rows(<<"status", r>>, Time)' = SumOf(f, A)
        <5>1. /\ Rows(<<"prepare", r>>, Time) = Cardinality(A)
              /\ Rows(<<"status", r>>, Time) = SumOf(f, A)
          BY <1>2 DEF A, f
        <5>2. /\ Rows(<<"prepare", r>>, Time)'
                   = Rows(<<"prepare", r>>, Time) + 0
              /\ Rows(<<"status", r>>, Time)' = Rows(<<"status", r>>, Time) + 0
          BY <1>4, <2>3, <3>5
        <5> QED BY <2>1, <5>1, <5>2
      <4> QED BY <3>2, <3>5, <4>1, <4>2 DEF B, g
    <3> QED BY <3>4, <3>5
  <2>4. CASE k # "prepare"
    <3>1. intents' = intents
      BY <2>4, CommitValues
    <3>2. B = A
      BY <3>1 DEF IntentsOf
    <3>3. SumOf(g, A) = SumOf(f, A) + IF k = "status" /\ r = a THEN 1 ELSE 0
      <4>1. CASE k = "status"
        <5>1. /\ i \in Intents /\ intents[i] # NoIntent
              /\ Owner[intents[i].session] = a /\ j.budget.last \in Time
              /\ reads' = [reads EXCEPT ![i] = Append(@, j.budget.last)]
          BY <4>1, CommitValues DEF Budgets
        <5>2. i \in A <=> r = a
          BY <5>1 DEF IntentsOf
        <5>3. /\ \A m \in Intents : m # i => g[m] = f[m]
              /\ g[i] = f[i] + 1
          <6>1. reads[i] \in Seq(Time) /\ reads \in [Intents -> Seq(Time)]
            BY <1>0, <5>1 DEF TypeOK
          <6>2. /\ \A m \in Intents : m # i => reads'[m] = reads[m]
                /\ Len(reads'[i]) = Len(reads[i]) + 1
            BY <5>1, <6>1
          <6> QED BY <2>1, <2>2, <5>1, <6>2
        <5> HIDE DEF A, B, f, g
        <5>4. CASE r = a
          <6>1. /\ i \in A /\ \A x \in A : f[x] \in Nat
                /\ \A x \in A \ {i} : g[x] = f[x]
            BY <2>1, <5>2, <5>3, <5>4
          <6>2. SumOf(g, A) = SumOf(f, A) + 1
            BY <2>1, <5>3, <6>1, SumMore
          <6> QED BY <4>1, <5>4, <6>2
        <5>5. CASE r # a
          <6>1. \A x \in A : f[x] \in Nat /\ g[x] = f[x]
            BY <2>1, <5>2, <5>3, <5>5
          <6>2. SumOf(g, A) = SumOf(f, A)
            BY <2>1, <6>1, SumSame
          <6> QED BY <2>1, <5>5, <6>2
        <5> QED BY <5>4, <5>5
      <4>2. CASE k # "status"
        <5>1. reads' = reads
          BY <4>2, CommitValues
        <5>2. g = f
          BY <5>1 DEF Lengths
        <5> HIDE DEF f, g
        <5> QED BY <2>1, <4>2, <5>2
      <4> QED BY <4>1, <4>2
    <3> HIDE DEF A, B, f, g
    <3>4. /\ Rows(<<"prepare", r>>, Time) = Cardinality(A)
          /\ Rows(<<"status", r>>, Time) = SumOf(f, A)
      BY <1>2 DEF A, f
    <3>5. /\ Rows(<<"prepare", r>>, Time)' = Cardinality(B)
          /\ Rows(<<"status", r>>, Time)' = SumOf(g, B)
      <4>1. /\ Rows(<<"prepare", r>>, Time)' = Rows(<<"prepare", r>>, Time) + 0
            /\ Rows(<<"status", r>>, Time)' = Rows(<<"status", r>>, Time)
                 + IF k = "status" /\ r = a THEN 1 ELSE 0
        BY <1>4, <2>4
      <4> QED BY <2>1, <3>2, <3>3, <3>4, <4>1
    <3> QED BY <3>5 DEF B, g
  <2> QED BY <2>3, <2>4
<1> QED BY <1>6, <1>7, <1>8, ChargedSums

\* Every step keeps it.
LEMMA ChargedStep ==
  ASSUME Core, ChargedOnce, [Next]_vars
  PROVE  ChargedOnce'
<1>1. ASSUME UNCHANGED <<ledger, reads, admitted>>,
             intents' = intents \/ \E i \in Intents : Settle(i)
      PROVE  ChargedOnce'
  <2>1. \A r : IntentsOf(r)' = IntentsOf(r)
    <3>1. CASE intents' = intents
      BY <3>1 DEF IntentsOf
    <3>2. ASSUME NEW i \in Intents, Settle(i)
          PROVE  \A r : IntentsOf(r)' = IntentsOf(r)
      <4>1. /\ intents \in [Intents -> IntentRows \cup {NoIntent}]
            /\ intents[i] # NoIntent
            /\ intents' = [intents EXCEPT ![i].pending = FALSE]
        BY <3>2 DEF Settle, Core, TypeOK
      <4>2. /\ intents'[i] # NoIntent /\ intents'[i].session = intents[i].session
            /\ \A k \in Intents : k # i => intents'[k] = intents[k]
        BY <4>1, SettledFewer
      <4> QED BY <4>1, <4>2 DEF IntentsOf
    <3> QED BY <1>1, <3>1, <3>2
  <2>2. Lengths' = Lengths /\ \A b, S : Rows(b, S)' = Rows(b, S)
    BY <1>1, CheckedStays DEF Lengths
  <2> QED BY <1>1, <2>1, <2>2, ChargedSums
<1>2. ASSUME NEW p \in Processes, Commit(p) PROVE ChargedOnce'
  BY <1>2, ChargedCommit
<1> QED BY <1>1, <1>2, OnlyCommit

(* What is charged is what was done, and only once.                           *)
THEOREM ChargedTheorem == Spec => []ChargedOnce
<1>1. Init => ChargedOnce
  <2> SUFFICES ASSUME Init PROVE ChargedOnce
    OBVIOUS
  <2>1. Core /\ TypeOK
    BY CoreInit DEF Core
  <2>2. \A b \in Buckets : \A u \in Time : ledger[b][u] = 0
    BY DEF Init, NoRows
  <2>3. ASSUME NEW b \in Buckets PROVE Rows(b, Time) = 0
    <3>1. Rows(b, Time) <= Rows(b, {})
      BY <2>1, <2>2, RowsPart
    <3>2. Rows(b, {}) = 0 /\ Rows(b, Time) \in Nat
      BY <2>1, RowsNone, RowsType
    <3> QED BY <3>1, <3>2
  <2>4. \A r \in Readers : IntentsOf(r) = {} /\ admitted[r] = 0
    BY DEF Init, IntentsOf
  <2>5. SumOf(admitted, Readers) = 0
    <3> DEFINE C == {T \in SUBSET Readers : SumOf(admitted, T) = 0}
    <3>1. {} \in C
      BY SumEmpty
    <3>2. ASSUME NEW T \in SUBSET Readers, NEW x \in Readers \ T, T \in C
          PROVE  T \cup {x} \in C
      <4>1. /\ IsFiniteSet(T) /\ x \notin T
            /\ \A y \in T \cup {x} : admitted[y] \in Nat /\ admitted[y] = 0
        BY <2>4, FS_Subset, NamesAssumption
      <4>2. SumOf(admitted, T \cup {x}) = admitted[x] + SumOf(admitted, T)
        BY <4>1, SumAdd
      <4> QED BY <3>2, <4>1, <4>2
    <3>3. \A T \in SUBSET Readers : T \in C
      <4> HIDE DEF C
      <4> QED BY <3>1, <3>2, SetInduct, NamesAssumption
    <3> QED BY <3>3
  <2>6. \A r \in Readers : /\ Rows(<<"reader", r>>, Time) = 0
                           /\ Rows(<<"prepare", r>>, Time) = 0
                           /\ Rows(<<"status", r>>, Time) = 0
    BY <2>3 DEF Buckets, Classes
  <2>7. Rows(<<"workspace", Shared>>, Time) = 0
    BY <2>3 DEF Buckets
  <2> QED BY <2>4, <2>5, <2>6, <2>7, ChargedSums, FS_EmptySet, SumEmpty
<1>2. Core /\ ChargedOnce /\ [Next]_vars => ChargedOnce'
  BY ChargedStep
<1> QED BY <1>1, <1>2, LimitsInvariance, PTL DEF Spec
==============================================================================
