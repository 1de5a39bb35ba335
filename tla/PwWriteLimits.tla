----------------------------- MODULE PwWriteLimits -----------------------------
(* The limits of the confirmed signal writes: the quota ledger of             *)
(* pw-write-quotas.ts, the caps on pending intents of pw-write-prepare.ts and *)
(* the pace of status reads of pw-write-status-budget.ts, under transactions  *)
(* that wait for one another's locks while the clock moves.                   *)
(*                                                                            *)
(* A server transaction is a process, of one of four kinds.  Rows it inserts  *)
(* are buffered in its job and published at COMMIT, where its locks end.      *)
(* A bucket's tokens are counted in fractions: Window of them make a request. *)
EXTENDS Integers, Sequences, FiniteSets, Functions

CONSTANTS
  Processes,     \* transactions the servers run at a time
  Readers,       \* readers of one workspace, each (actor, workspace)
  Sessions,      \* page sessions
  Owner,         \* [Sessions -> Readers]
  Intents,       \* identifiers of intents, and of their command keys
  NoIntent,      \* no intent, or no row
  Shared,        \* the bucket of the workspace
  Limits,        \* PW_QUOTA_LIMITS: [Classes -> requests in a window]
  Bursts,        \* [Classes -> tokens of a full bucket]
  Window,        \* windowSecs, in clock units
  SessionCap,    \* MAX_PENDING_PER_SESSION
  ReaderCap,     \* MAX_PENDING_PER_READER
  Initial,       \* first period of a status budget: 120 s
  MaxInitial,    \* reads of the first period: 60
  Fast, Slow,    \* spacing of reads in the first period and after: 2 s, 30 s
  TTL,           \* longest life of an intent
  MaxClock       \* bound on the clock

(* One limit per kind of request, and two for an admission.                   *)
Classes == {"attempt", "reader", "workspace", "prepare", "status"}
Kinds == {"attempt", "admission", "prepare", "status"}
Buckets == {<<c, r>> : c \in Classes \ {"workspace"}, r \in Readers}
             \cup {<<"workspace", Shared>>}

Time == 0..MaxClock
IntentRows == [session: Sessions, expires: Nat, pending: BOOLEAN]
Budgets == [first: Time, last: Time, initial: Nat]

ASSUME LimitsAssumption ==
  /\ Limits \in [Classes -> Nat \ {0}] /\ Bursts \in [Classes -> Nat \ {0}]
  /\ \A c \in Classes : Bursts[c] <= Limits[c]
  /\ Window \in Nat \ {0} /\ SessionCap \in Nat /\ ReaderCap \in Nat
  /\ Initial \in Nat /\ MaxInitial \in Nat \ {0}
  /\ TTL \in Nat /\ MaxClock \in Nat
  /\ Fast \in Nat \ {0} /\ Slow \in Nat /\ Fast <= Slow
ASSUME NamesAssumption ==
  /\ Owner \in [Sessions -> Readers]
  /\ NoIntent \notin Intents \cup IntentRows \cup Budgets
  /\ Shared \notin Readers
  /\ IsFiniteSet(Intents) /\ IsFiniteSet(Readers)

VARIABLES
  now,       \* the clock of PostgreSQL and of the servers
  ledger,    \* pw_write_quota_ledger: [Buckets -> [instant -> rows]]
  intents,   \* pw_write_intents, what the caps read: [Intents -> row]
  budgets,   \* pw_write_status_budgets: [Intents -> row]
  reads,     \* status reads answered: [Intents -> their instants]
  admitted,  \* admissions committed: [Readers -> how many]
  pc,        \* [Processes -> next statement]
  job        \* [Processes -> what its transaction is about, and its buffer]

tables == <<ledger, intents, budgets>>
history == <<reads, admitted>>
vars == <<now, tables, history, pc, job>>

NoRows == [t \in Time |-> 0]
Idle ==
  [kind |-> "attempt", reader |-> Shared, intent |-> NoIntent, began |-> 0,
   row |-> NoIntent, budget |-> NoIntent, charged |-> <<>>]

(* The buckets a transaction is charged on, in the order it locks them.       *)
Charges(k, r) ==
  CASE k = "admission" -> <<<<"reader", r>>, <<"workspace", Shared>>>>
    [] k = "attempt" -> <<<<"attempt", r>>>>
    [] k = "prepare" -> <<<<"prepare", r>>>>
    [] k = "status" -> <<<<"status", r>>>>
Bill(p) == Charges(job[p].kind, job[p].reader)
(* The bucket it is about to lock, once its pc says so.                       *)
Asked(p) == Bill(p)[Len(job[p].charged) + 1]

(* Locks, held to the end of the transaction: the reader's preparations, the  *)
(* budget of an intent's page, the buckets.                                   *)
Waiting == {"reader", "budget", "bucket"}
HoldsReader(p, r) ==
  /\ job[p].kind = "prepare" /\ job[p].reader = r
  /\ pc[p] \notin {"idle", "reader"}
HoldsBudget(p, i) ==
  /\ job[p].kind = "status" /\ job[p].intent = i
  /\ pc[p] \notin {"idle", "budget"}
HoldsBucket(p, b) ==
  /\ pc[p] # "idle"
  /\ \/ \E n \in 1..Len(job[p].charged) : Bill(p)[n] = b
     \/ pc[p] = "charge" /\ Asked(p) = b
(* Mutants: a lock nobody takes.                                              *)
ReaderUnlocked(r) == TRUE
BudgetUnlocked(i) == TRUE
BucketUnlocked(b) == TRUE
ReaderFree(r) == \A p \in Processes : ~HoldsReader(p, r)
BudgetFree(i) == \A p \in Processes : ~HoldsBudget(p, i)
BucketFree(b) == \A p \in Processes : ~HoldsBucket(p, b)
-----------------------------------------------------------------------------
(* Rows of a bucket in the window that ends now.                              *)
Recent(t) == t > now - Window /\ t <= now
Used(b) == FoldFunctionOnSet(+, 0, ledger[b], {t \in Time : Recent(t)})

Least(a, b) == IF a <= b THEN a ELSE b
(* Mutant: a bucket that keeps filling while nobody draws from it.            *)
TokensUncapped(b) ==
  LET held[t \in (now - Window)..now] ==
        IF t <= now - Window THEN Bursts[b[1]] * Window
        ELSE held[t - 1] + Limits[b[1]]
               - (IF t \in Time THEN ledger[b][t] * Window ELSE 0)
  IN held[now]
(* reservePwQuota replays the rows of the window from a full bucket, which    *)
(* refills by Limit in a Window and never beyond its burst.                   *)
Tokens(b) ==
  LET full == Bursts[b[1]] * Window
      held[t \in (now - Window)..now] ==
        IF t <= now - Window THEN full
        ELSE Least(full, held[t - 1] + Limits[b[1]])
               - (IF t \in Time THEN ledger[b][t] * Window ELSE 0)
  IN held[now]

Open(b) == Used(b) < Limits[b[1]] /\ Tokens(b) >= Window

(* countPwPending: pending, not revoked, and not expired when the counting    *)
(* transaction began.                                                         *)
Live(rows, at) == {i \in Intents : rows[i] # NoIntent /\ rows[i].pending
                                     /\ rows[i].expires > at}
OfReader(rows, at, r) == {i \in Live(rows, at) : Owner[rows[i].session] = r}
OfSession(rows, at, s) == {i \in Live(rows, at) : rows[i].session = s}
-----------------------------------------------------------------------------
Init ==
  /\ now = 0
  /\ ledger = [b \in Buckets |-> NoRows]
  /\ intents = [i \in Intents |-> NoIntent]
  /\ budgets = [i \in Intents |-> NoIntent]
  /\ reads = [i \in Intents |-> <<>>]
  /\ admitted = [r \in Readers |-> 0]
  /\ pc = [p \in Processes |-> "idle"]
  /\ job = [p \in Processes |-> Idle]

(* The statement a transaction of each kind issues first.                     *)
First(k) == IF k = "prepare" THEN "reader"
            ELSE IF k = "status" THEN "budget" ELSE "bucket"

Begin(p, k, r, i) ==
  /\ pc[p] = "idle"
  /\ pc' = [pc EXCEPT ![p] = First(k)]
  /\ job' = [job EXCEPT ![p] =
       [Idle EXCEPT !.kind = k, !.reader = r, !.intent = i,
                    !.began = IF k = "prepare" THEN now ELSE 0]]
  /\ UNCHANGED <<now, tables, history>>

(* An attempt, and an admission within the transaction of the write.          *)
BeginCharge(p) ==
  \E k \in {"attempt", "admission"}, r \in Readers : Begin(p, k, r, NoIntent)
(* A preparation with a new command key; a key already reserved returns its   *)
(* intent and writes nothing.                                                 *)
BeginPrepare(p) ==
  \E r \in Readers, i \in Intents :
    /\ intents[i] = NoIntent
    /\ \A q \in Processes : job[q].intent # i
    /\ Begin(p, "prepare", r, i)
(* A status read, by the page that prepared the intent.                       *)
BeginStatus(p) ==
  \E i \in Intents :
    /\ intents[i] # NoIntent
    /\ Begin(p, "status", Owner[intents[i].session], i)

Goto(p, statement, j) ==
  /\ pc' = [pc EXCEPT ![p] = statement]
  /\ job' = [job EXCEPT ![p] = j]
  /\ UNCHANGED <<now, tables, history>>
(* A refusal, a timeout, a failure or a crash: nothing of it stays.           *)
RollBack(p) == Goto(p, "idle", Idle)

(* Under the reader's lock: the intent is inserted, then the caps counted     *)
(* with it.                                                                   *)
InsertIntent(p, s, life) ==
  /\ pc[p] = "reader" /\ ReaderFree(job[p].reader)
  /\ Owner[s] = job[p].reader
  /\ LET row == [session |-> s, expires |-> now + life, pending |-> TRUE]
         rows == [intents EXCEPT ![job[p].intent] = row]
     IN IF \/ Cardinality(OfSession(rows, job[p].began, s)) > SessionCap
           \/ Cardinality(OfReader(rows, job[p].began, Owner[s])) > ReaderCap
        THEN RollBack(p)
        ELSE Goto(p, "bucket", [job[p] EXCEPT !.row = row])

(* reservePwIntentStatus: the first period counts its reads, and has its own  *)
(* spacing.                                                                   *)
InFirst(old) == now < old.first + Initial
Paced(old) ==
  IF InFirst(old) THEN now - old.last >= Fast /\ old.initial < MaxInitial
  ELSE now - old.last >= Slow
(* Mutant: every read counts among those of the first period.                 *)
BudgetedAlways(old) ==
  IF old = NoIntent THEN [first |-> now, last |-> now, initial |-> 1]
  ELSE [old EXCEPT !.last = now, !.initial = @ + 1]
Budgeted(old) ==
  IF old = NoIntent THEN [first |-> now, last |-> now, initial |-> 1]
  ELSE [old EXCEPT !.last = now,
                   !.initial = IF InFirst(old) THEN @ + 1 ELSE @]

ReadBudget(p) ==
  /\ pc[p] = "budget" /\ BudgetFree(job[p].intent)
  /\ LET old == budgets[job[p].intent] IN
     IF old # NoIntent /\ ~Paced(old) THEN RollBack(p)
     ELSE Goto(p, "bucket", [job[p] EXCEPT !.budget = Budgeted(old)])

(* Under a bucket's lock: counted and replayed, then the row is inserted,     *)
(* stamped by a later reading of the clock.                                   *)
CheckBucket(p) ==
  /\ pc[p] = "bucket" /\ BucketFree(Asked(p))
  /\ IF Open(Asked(p)) THEN Goto(p, "charge", job[p]) ELSE RollBack(p)

Charge(p) ==
  /\ pc[p] = "charge"
  /\ LET charged == Append(job[p].charged, now) IN
     Goto(p, IF Len(charged) = Len(Bill(p)) THEN "commit" ELSE "bucket",
          [job[p] EXCEPT !.charged = charged])

(* Mutant: the rows of the first bucket only.                                 *)
LedgerFirst(p) ==
  [ledger EXCEPT ![Bill(p)[1]][job[p].charged[1]] = @ + 1]
Charged(p) ==
  [b \in Buckets |-> [t \in Time |-> ledger[b][t]
     + Cardinality({n \in 1..Len(Bill(p)) :
                      Bill(p)[n] = b /\ job[p].charged[n] = t})]]

Commit(p) ==
  /\ pc[p] = "commit"
  /\ ledger' = Charged(p)
  /\ intents' = IF job[p].kind = "prepare"
                THEN [intents EXCEPT ![job[p].intent] = job[p].row] ELSE intents
  /\ IF job[p].kind = "status"
     THEN /\ budgets' = [budgets EXCEPT ![job[p].intent] = job[p].budget]
          /\ reads' = [reads EXCEPT ![job[p].intent] =
                         Append(@, job[p].budget.last)]
     ELSE UNCHANGED <<budgets, reads>>
  /\ admitted' = IF job[p].kind = "admission"
                 THEN [admitted EXCEPT ![job[p].reader] = @ + 1] ELSE admitted
  /\ pc' = [pc EXCEPT ![p] = "idle"]
  /\ job' = [job EXCEPT ![p] = Idle]
  /\ UNCHANGED now

Abort(p) == pc[p] # "idle" /\ RollBack(p)

(* An intent is committed, rejected or revoked.                               *)
Settle(i) ==
  /\ intents[i] # NoIntent /\ intents[i].pending
  /\ intents' = [intents EXCEPT ![i].pending = FALSE]
  /\ UNCHANGED <<now, ledger, budgets, history, pc, job>>

Tick ==
  /\ now < MaxClock
  /\ now' = now + 1
  /\ UNCHANGED <<tables, history, pc, job>>

Step(p) ==
  \/ \E s \in Sessions, life \in 1..TTL : InsertIntent(p, s, life)
  \/ ReadBudget(p) \/ CheckBucket(p) \/ Charge(p) \/ Commit(p)
Next ==
  \/ \E p \in Processes :
       \/ BeginCharge(p) \/ BeginPrepare(p) \/ BeginStatus(p)
       \/ Step(p) \/ Abort(p)
  \/ \E i \in Intents : Settle(i)
  \/ Tick

Spec == Init /\ [][Next]_vars
-------------------------------------------------------------------------------
Rows(b, S) == FoldFunctionOnSet(+, 0, ledger[b], S \cap Time)
Jobs ==
  [kind: Kinds, reader: Readers \cup {Shared}, intent: Intents \cup {NoIntent},
   began: Time, row: IntentRows \cup {NoIntent},
   budget: Budgets \cup {NoIntent}, charged: Seq(Time)]

(* Every row and buffer has its type: a budget's last read is not before its  *)
(* first and no more than MaxInitial reads are of its first period, as the    *)
(* table's checks demand.                                                     *)
TypeOK ==
  /\ now \in Time
  /\ ledger \in [Buckets -> [Time -> Nat]]
  /\ intents \in [Intents -> IntentRows \cup {NoIntent}]
  /\ budgets \in [Intents -> Budgets \cup {NoIntent}]
  /\ \A i \in Intents : budgets[i] # NoIntent =>
       /\ budgets[i].first <= budgets[i].last
       /\ budgets[i].initial \in 1..MaxInitial
  /\ reads \in [Intents -> Seq(Time)]
  /\ admitted \in [Readers -> Nat]
  /\ pc \in [Processes -> Waiting \cup {"idle", "charge", "commit"}]
  /\ job \in [Processes -> Jobs]

(* No window of Window instants, wherever it begins, holds more rows of a     *)
(* bucket than its limit, however long their transactions waited between the  *)
(* count and the insertion (reservePwQuota).                                  *)
WindowKept ==
  \A b \in Buckets, t \in Time : Rows(b, (t - Window + 1)..t) <= Limits[b[1]]

(* Within a window a bucket never gives more than its burst and what it       *)
(* refilled since, though the replay forgets the older rows and starts full.  *)
BurstKept ==
  \A b \in Buckets, s, e \in Time : s <= e /\ e < s + Window =>
    Rows(b, s..e) * Window <= Bursts[b[1]] * Window + (e - s) * Limits[b[1]]

(* A reader never has more intents to confirm than her cap, nor a page        *)
(* session, though preparations overlap and intents expire meanwhile          *)
(* (preparePwWriteIntentInTx).                                                *)
CapsKept ==
  /\ \A r \in Readers : Cardinality(OfReader(intents, now, r)) <= ReaderCap
  /\ \A s \in Sessions : Cardinality(OfSession(intents, now, s)) <= SessionCap

(* Two tabs of a page share one pace: reads of a status are Fast apart in the *)
(* first period, Slow apart after it (reservePwIntentStatus).                 *)
StatusPaced ==
  \A i \in Intents : \A n \in 2..Len(reads[i]) :
    reads[i][n] - reads[i][n - 1] >=
      IF reads[i][n] < reads[i][1] + Initial THEN Fast ELSE Slow

(* What is charged is what was done: each admission committed is one row of   *)
(* its reader's bucket and one of the workspace's, each status answered and   *)
(* each intent prepared one row of theirs; what was refused or rolled back    *)
(* after a charge costs nothing.                                              *)
IntentsOf(r) ==
  {i \in Intents : intents[i] # NoIntent /\ Owner[intents[i].session] = r}
ChargedOnce ==
  /\ \A r \in Readers :
       /\ Rows(<<"reader", r>>, Time) = admitted[r]
       /\ Rows(<<"prepare", r>>, Time) = Cardinality(IntentsOf(r))
       /\ Rows(<<"status", r>>, Time) =
            FoldFunctionOnSet(+, 0, [i \in Intents |-> Len(reads[i])],
                              IntentsOf(r))
  /\ Rows(<<"workspace", Shared>>, Time) =
       FoldFunctionOnSet(+, 0, admitted, Readers)
===============================================================================
