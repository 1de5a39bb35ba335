# Formal models of radar-immobilier

TLA+ models of the parts of radar-immobilier where correctness depends on the order in which
several actors act: the confirmed signal write and its limits, the scoped classification of
signals, its activation, the coherent reads of that classification, the scheduled refresh of the
city graphs, and accounts, their admission from another deployment and workspace memberships. TLC
checks small instances; the proof modules hold theorems for every value of the constants, checked
by TLAPS.

Paths below are relative to the repository root; `facets/` stands for
`src/api/src/services/facets/`, `services/` for `src/api/src/services/`.

## 1. The system and its parts

radar-immobilier reads municipal documents, projects them into a graph per city, and lets members
of workspaces classify the signals they are shown. PostgreSQL holds what must be transactional, an
object store holds documents and run states, and published pages ("artifacts") may prepare a write
that the reader confirms in the application.

| Component | State | Operations | Interacts through | What is hard | Correct when |
|---|---|---|---|---|---|
| Signal write transaction (`facets/signal-write-admission.ts`, `pw-write-confirm.ts`, `pw-write-admission-durable.ts`, `pw-write-rejection.ts`) | intents, receipts, audit, outbox | confirm: attempt, lock, reserve, admit, execute, commit, or reject | one transaction under authority fences, intent row, workspace, key and city locks | retries, lost acknowledgement, expiry, revocation, crash between statements | one execution per key; what was answered stays true; what was checked holds at COMMIT |
| Intent persistence and fences (`pw-write-store.ts`, `pw-write-prepare.ts`, `pw-write-fences.ts`, migration 0027) | `pw_write_*` tables with guards | prepare, revoke, revoke an authority, status | row locks, shared/exclusive advisory fences | a revocation racing a confirmation; a status derived from the clock | statuses follow one order; no statement the guards refuse |
| Write quotas and status budgets (`pw-write-quotas.ts`, `pw-write-status-budget.ts`) | ledger rows, pending intents, status budgets | reserve, count, read a status | advisory locks of buckets, readers and intents | windows that end while a transaction waits, two preparations at once | no window, burst, cap or pace exceeded; nobody pays twice |
| Scoped classification streams (`scoped-writer.ts`, `scoped-transition.ts`, `workspace-writer.ts`, migration 0018) | events, bindings, heads, receipts, contexts | select, deselect, discard (with withdrawals), restore, common archive, recovery of old receipts | workspace, key and city advisory locks | two tabs on one head, one key in two workspaces, half a composite command, refresh in between | one chain per stream; no blind event; whole commands; stable answers |
| Projection revisions (`projection-revisions.ts`, `projection-scope.ts`, `classification-projection.ts`) | personal, common, source and membership revisions | bump, sample, coherent read with retries | read by every page; moved by writers, refreshes, member commands | parts fetched by separate transactions | an answer is one snapshot; no false instability |
| Unscoped writer and scoped cutover (`writer.ts`, `attachment.ts`, `activation*.ts`, migration 0018) | attachments, barrier, epoch, inventory, contexts | attach, raise the barrier, drain, bind, read back, open | table locks, deferred triggers, advisory locks | interruption between transactions, lock order, late attachments | nothing left behind, nothing written on an unbound history; it opens, and opens whole |
| Workspaces and memberships (`services/workspaces/`) | memberships with revisions, audit | add, revoke, grant, withdraw, initialize | workspace lock, expected revision, accounts held FOR SHARE | managers who revoke each other, administrators who decide meanwhile, stale commands | the author still stands at COMMIT; the membership changed is the one seen; the audit replays |
| Accounts (`routes/auth.ts`, `routes/admin.ts`) and their admission (`src/api/src/admission/`) | accounts, invitations, status events; staged entries, last stamps | log in, link, approve, reject, suspend, invite; emit, ingest | statements that commit alone; a network | a decision between two statements of a login; envelopes lost, repeated, reordered, two keys | decisions stand; nothing goes back to an older stamp |
| Graph refresh (`services/graph/refresh-*.ts`, `canonical-graph-writer.ts`, `graphify-34-snapshot.ts`, `scripts/refresh-pv.ts`) and acquisition (`services/sources/`) | cursor, guard, journal, ledger, run states, archives, canonical graph, projection | sweep, visit, acquire, plan, extract, publish, project, cover | the object store, PostgreSQL | death between any two writes, resumption, other writers, budgets | nothing published is lost, nothing covered is missing, calls are reserved and paid once, every city is visited |
| Graph store (`services/graph/graph-store.ts`) | nodes, edges, source revision | project a city | city lock | a refresh under a reader or a writer | the revision moves with what is shown |
| Artifacts host and preview (`src/packages/artifacts-host/`, `src/api/src/artifacts/preview-*.ts`) | idempotency records, activation pointer, tickets, sessions | commit, activate, exchange, renew | PostgreSQL with timeouts | attempts that outlive their caller, single use | one effect per key; a ticket used once |
| Lots, pipeline jobs, H2A journal, chat bus, write outbox, prospect marks | events, documents, chains, buffers, rows | import, save, append, publish, deliver, mark | object store, tables or memory | read-modify-write, replay and live frames crossing | no lost update; no gap after replay |
| Parsers, scoring, geo, schemas, MCP tools, UI, deployment | none between calls | pure or I/O | — | volume of data, not order | covered by tests |

`PROJECT.json` lists the same components with their files and status, and the hazards at their
lines: those with properties are covered by the models below, those with a note say why not.

## 2. The modules

```
Classification ──────────────┐ (abstract registers, revisions, rights)
   ▲ implemented by          ▲ extended by
FacetStreams             CoherentRead            PwWrite ──implements──▶ PwWriteTables
   ▲                         ▲                      ▲
FacetStreamsProofs       CoherentReadProofs      PwWriteProofs
MCFacetStreams           MCCoherentRead          MCPwWrite
MCFacetLayouts                                   MCPwWriteLayouts

Accounts (extended by both)       RefreshCoverage
   ▲                ▲                ▲
Admission       Memberships       GraphRefresh        FacetActivation         PwWriteLimits
   ▲                ▲                ▲                   ▲                       ▲
AccountsProofs (of both)          GraphRefreshProofs  FacetActivationProofs   PwWriteLimitsProofs
MCAccounts                        MCGraphRefresh      MCFacetActivation       MCPwWriteLimits

FoldTheorems (induction and finite sums): used by AccountsProofs, GraphRefreshProofs and
PwWriteLimitsProofs
```

### PwWrite and PwWriteTables

`PwWrite` is the confirmed write. An intent is prepared once (`Prepare`), then confirmed by any
number of requests. A request is a process whose `pc` names the statement it is about to issue, in
the order of `admitSignalWriteInTx`: attempt quota, authority fences one by one (`TakeFence`), the
intent row (`LockIntent`), the workspace and the rights (`LockWorkspace`), the reservation and the
receipt (`Reserve`), the city, the token and the window (`Admit`), the writer (`Execute`), the
final window, COMMIT. A refusal rolls back and reaches the catch branch of `confirmPwSignalWrite`,
where a terminal conflict is recorded in a second transaction (`RecordRejection`) unless another
verdict came first (`PassRejection`), and the result is audited. `Commit` may lose its
acknowledgement: the request then audits `unknown` on a committed intent. Around it: revocation,
closure of an authority, status reads, another BASE route writing under the same key
(`DirectWrite`), the scope moving, rights changing, the clock, lock timeouts, any statement
failing, the server dying at any step.

`PwWriteTables` is what the triggers of migration 0027 accept, read from the SQL alone: a row's
state leaves `pending` once, append-only tables stay so, keys refer to intents. The service
implements it, hence never meets one of its exceptions.

Abstractions: one clock for all servers; the projection token is one revision that only grows and
a prepared command expects a revision of its past; a lock's holder is a function of the `pc`s,
because PostgreSQL holds it to the end of the transaction; what a transaction writes appears at
COMMIT; token buckets are a nondeterministic refusal here (`PwWriteLimits` models them); one actor, one page session, one workspace
and one city per instance, since different ones share no lock.

### Classification and FacetStreams

`Classification` says what the scoped facets of a signal promise: each stream is a register; a
command replaces at once the registers it names, on the version of the signal now stored and with
rights its author has now, and moves one revision of those who see them; a refresh records a
digest; a change of rights moves the membership revision.

`FacetStreams` is the writers that implement it. A request is one transaction: lock the workspace
and check rights and history, lock the key and look for a receipt, lock the city and compare the
version displayed, compare the heads displayed and look the reason up, then append, register the
heads, move the revision and write the receipt at COMMIT. The three families are the personal
writer, the common archive, and the recovery of receipts from before the cutover; receipts of that
time carry digests of two older kinds. `Refresh` waits for the city lock, `Grant` for the
workspace lock, any transaction may abort. A client displays any heads and any version it may have
been shown, so stale tabs, retries and foreign keys are all among the inputs.

Abstractions: one signal of one city; an event is named by its place in its stream; the advisory
locks of streams are always free under the workspace lock and have no step; a stream row without
event is no row; account approval is one of the rights; the two payloads older than the displayed
version are one kind; a stored receipt with neither event nor context is an unresolved one; the
reason is looked up once for the command, which is the same because a reason already stored was
once listed; identifiers are compared in one case; a member command that grants several
capabilities is several grants; workspaces are already open to scoped facets.

### CoherentRead

`CoherentRead` is `readCoherentProjection` and the retry loop of `readClassificationProjection`,
over the registers of `Classification`. A request samples the revisions, fetches the archive, the
selection and the signals in the order of its route (`Following`), samples again, and for the
search and state routes reads the catalog before and after and samples a third time. Every one of
these is its own transaction that resolves rights again; between two of them any step of the scope
may come, nothing is locked. Equal samples answer; drift is another attempt, three in all.

Abstractions: the epoch gate and `personal_history_unresolved` are not modelled; a catalog read
that fails for another reason than rights is an `unavailable` version, chosen freely; the search's
first authority check is part of reading the catalog; card enrichment and profiles of the heads
read (immutable) are not parts of the snapshot, the token does not cover the former.

### PwWriteLimits

The quota ledger, the caps and the status budget that the confirmed writes are subject to. A
process is one transaction of four kinds (attempt, admission, preparation, status); its `pc` names
the lock it waits for or the row it is about to insert, its `job` buffers what it will publish at
COMMIT. `Tokens` replays the rows of the window from a full bucket as `reservePwQuota` does;
`InsertIntent` counts the pending intents with the one just inserted; `Budgeted` is the row of
`pw_write_status_budget` after a read. A transaction may be refused, aborted or wait while the
clock moves.

Abstractions: one workspace; one clock for the servers and the database; windows and limits are
scaled down; the replay of a bucket and its count are one step under its lock; caps count with the
instant the transaction began; a preparation whose key is already reserved writes nothing.

### FacetActivation

The change of authority over personal classifications, one workspace at a time. `log` is
`facet_events` with, for each row, the stream that holds it and the regime it was written under;
`attach`, `epoch`, `barrier`, `inventory` and `contexts` are the tables of migration 0018. An
operator (`op`) runs `runPersonalAttachmentActivation`: the barrier (`Activate`), the wait for the
transactions begun before it (`Enter`; `traffic` records which), the table locks (`LockEvents`),
the binding and the switch (`CutOver`), then the script's read-back (`Check`, `Readback`) and the
opening (`Open`); `Resume` starts at the stage the tables show. Writers of both regimes begin,
write, commit or roll back in between; the deferred triggers (`Admitted`, `Fenced`) refuse what
they refuse. Members are revoked and reinstated, accounts are attached late, any process dies, and
PostgreSQL may choose any transaction of a lock cycle as its victim (`Deadlock`).

Observed while modelling, and left as the code has them:
- an account attached to `w1` that classifies in an already open `w2` has events bound to `w2`:
  the read-back of `w1` then fails, and `w1` stays closed for ever;
- an account attached after the cutover of its workspace, with unbound events, keeps the workspace
  closed: the cutover, which alone binds, does not run again;
- one chain that cannot be qualified closes the whole workspace, not its author only;
- an activation without attachments leaves the barrier up, and it fences every workspace;
- the opening does not check again that bound events are in the right workspace (harmless: nothing
  moves them).

`Opens` is therefore conditional: the workspace opens if from some point on nothing a check refuses
remains (`<>[]Movable(w)`).

Abstractions: all signals are in one city, so the city lock admits one writing transaction; a
command makes one transition; losing an approval is losing a membership.

### RefreshCoverage and GraphRefresh

`RefreshCoverage` is `refresh-coverage.ts`: pure operators that return the next ledger.
`GraphRefresh` is the job that calls them. `pc` is what the job does next; `job` and `visit` are
its memory, lost when it dies; every other variable is an object of the store, PostgreSQL, or a
history variable. A sweep moves its cursor, then visits: baseline, index of the source, one attempt
per document with its journal line, manifest, guard of known addresses, coverage ledger; then one
owed document is extracted (reservation before each call, chunk, candidate), published (archive of
the baseline, plan, conditional replacement, receipt), projected and marked covered, or failed.
Documents are published and withdrawn, other writers edit or put back the canonical graph, an
object store call fails, a signal or a deadline stops the job, the process dies.

Abstractions: a version of a graph is a number and the set of documents it holds; publications and
withdrawals are placed before an index is read; a process is killed by documents only while it
fetches or calls; the deadline stops a sweep after at least one visit.

Observed, and left as the code has them: a death between the archive and the plan makes every
later attempt of that run fail (`ArchiveIdAlreadyUsed`) until the document is abandoned; a pending
document that is no longer listed and whose link is dead makes each visit fail as
`REFRESH_NO_ACQUISITION`; an abort before the publication counts as a failure of the document; an
unreadable ledger primes its city again (`blind` in `NewDocuments`); chunks paid against a baseline
that moved are paid again; a failed write of the journal leaves attempts open without a death.

### Accounts, Admission and Memberships

`Accounts` is the login callback, the just-in-time link and the administrators' routes. None opens
a transaction, so each statement is a step of its own (`Visitors` and `Admins` have a `pc`), and a
request may be cut anywhere. `Admission` adds the other deployment: its decisions, emissions that
read the rows before they are stamped, the network and the ingestion, one at a time under its lock.
`Memberships` adds one workspace: a command names the revision its author saw, takes the workspace
lock, holds the accounts it depends on FOR SHARE, and writes memberships and audit at COMMIT; the
initialization does the same for several accounts. `Sharers` is how the accounts module knows who
holds rows: an administrator's update waits for them (`Unshared`).

Abstractions: administrators are actors, their own rows and `requireAdmin` are left out; the
status `invited` is never written and has no value; e-mails are compared normalised; the other
deployment is its winning entry per e-mail; applying a snapshot is one step; the workspace lock and
the checks under it are one step; one workspace, since workspaces share nothing but accounts.

Observed, and left as the code has them: an invitation is accepted or revoked by id whatever its
status has become, and two logins may consume the same one; a death after the consumption loses
it; a status event may be missing after a death, or name a stale previous status; a staged approval
read just before a full snapshot rejects it creates an approved account that later snapshots do not
take back (`jit.ts:104`, `ingest.ts:143-148`); the rows of a snapshot are read before it is stamped,
so a decision in between waits for the next one; no rule keeps a last manager.

## 3. What the runs check

| Run | Instance | Properties | What it shows |
|---|---|---|---|
| `pwrite` | 2 requests; one intent with 2 fences of which one may close, clock and revision to 1, and 2 intents with 2 keys | ExactlyOnce, AnswersHold, AdmittedAtCommit, StatusMonotone, TablesAccept | one bundle per intent, true answers, an admission still valid at COMMIT, ordered statuses, no refused statement |
| `pwrite_live` | 2 requests, 1 intent; the clock, the source, the rights or a fence moves; fairness | ConfirmAnswered | every received confirmation is answered, or its server died |
| `pwrite_refusal` | 2 requests, 1 intent | RefusalSticks (violated) | section 5 |
| `pwrite_limits` | 2 transactions, 2 readers, 3 sessions, 3 intents, clock to 6, window 3 | TypeOK, WindowKept, BurstKept, CapsKept, StatusPaced, ChargedOnce | no limit is exceeded by transactions that overlap, and what is charged is what was done |
| `facet_streams` | 3 requests, 2 members, 3 keys on a still signal; 2 requests, 2 versions, 1 refresh and 1 grant each | OneLine, AuthorSaw, WholeCommand, AnswersStay, Implements | stale tabs, retries, composite discards; the version and the rights are those of the COMMIT |
| `facet_keys` | 2 requests, 1 key, 2 workspaces, 5 old receipts, 1 refresh and 1 grant, fairness | NoCollision, Answered | one key across workspaces, families and the cutover; the lock order closes no circle |
| `facet_activation` | 2 workspaces, 2 operators, 1 writing tab, 3 beginnings, 3 writes, 1 revocation, 1 death, fairness | NothingLeftBehind, NothingUnderneath, ReceiptsFollow, OpensWhole, Opens | the activation stopped and resumed anywhere against late writers |
| `coherent_read` | 1 reader with 1 member and 2 versions, each revision moving once; 1 reader beside another member | NoFalseAlarm, CoherentAnswer | an answer is one snapshot, and only the viewer's own moves make a read unstable |
| `graph_refresh` | 2 cities, 2 documents, 5 scenarios of faults, edits, killers and bare cities, fairness | TypeOK, NothingDestroyed, CoveredShown, CallsReserved, SetAsideEarned, NewDocuments, PaidOnce, CityVisited, PendingSettled | the sweep over faults and other writers |
| `refresh_lost` | 1 document, 2 faults | CollectedOwed (violated) | section 5 |
| `accounts` | 2 subjects, 2 e-mails, 1 invitation, 2 logins, 1 administrator; 2 envelopes, 2 ingestions, 2 keys; 2 member commands on an empty workspace or between two managers | AuditReplays, DecisionsStand, NeverOlder, AuthorStands, SeenApplied | every statement of logins, administrators, ingestions and member commands interleaved |
| `accounts_reactivated` | the logins of the above | NeverReactivated (violated) | section 5 |

Several runs hold more than one instance: a variable of the MC module that never changes
(`layout`, `world`, `cut`) names the instance, and `Within` forbids the steps that leave it. Cutting
steps off removes behaviours and adds none, so a safety property found to hold holds of each
instance as a run of its own would show. Of the runs with a liveness property, only `pwrite_live`
is cut: of the clock, the source, the rights and the fences at most one moves (`AlmostStill`). None
of these is asked to move by fairness, and no step of a request moves one, so nothing fair is
blocked.

Types. The type invariants of `PwWrite`, `FacetStreams`, `CoherentRead`, `FacetActivation`,
`Admission` and `Memberships` are proved (section 4) and not checked again by a run; those of
`PwWriteLimits` and `GraphRefresh` are both proved and checked.

Bounds. Two requests on one intent are the race the row lock decides; a third only repeats it,
and the theorems lift the bound. `MaxClock`, `MaxRevision`, `MaxRefresh`, `MaxGrants` and
`MaxWrites` stop the counters: one move between check and use is enough to break a snapshot or an
admission, and three attempts can be used up because personal, source, digest and membership may
each move. Three requests let a chain have three events, so that a replaced event has a
predecessor and a successor. For the limits, a window of three instants lets a row leave it, a
burst of two is below a limit of three, and a clock of six sees both periods of a status budget.
For the activation, three writes put one event before the barrier, one behind it and one after the
opening; one death at each point and one revocation are what a stage may find on resumption. For
the refresh, one chunk and a budget of two calls let a call be lost and made again, two faults
reach the death of an attempt twice (which sets a document aside), and `MaxVersion` is above what
edits and publications can create. For accounts, revisions of members sum to
three at most from an empty workspace and to six from two managers (four to begin with, so that
one may dismiss the other, who answers), commands have one of five shapes and of the three that
dismiss or bring back, and the emitter's clock goes to two: an envelope older than the one
applied exists. Symmetry is over names no definition mentions, and is never used with fairness.

`CHECK_DEADLOCK FALSE`, except for `graph_refresh`, whose scheduler always starts another sweep:
each request is handled once and the bounded counters stop, so an instance ends in a state where
nothing more happens. That nobody waits for ever before that is what the liveness properties check.

Fairness. `PwWrite!FairSpec` and `FacetStreams!FairSpec` require weak fairness of each request's
next statement: Node schedules every pending promise and PostgreSQL grants a lock once it is free.
Nothing is asked of other writers, revocations, the clock or crashes. Waits of the BASE transaction
are cut by `lock_timeout` (one second); the rejection's row lock has none, which is why
`ConfirmAnswered` has something to say. A weakly fair request is enough because requests are
finitely many: a lock cannot be taken from a waiter for ever. `FacetActivation!FairSpec` asks
strong fairness of a transaction's and an operator's next statement, because PostgreSQL queues
lock requests and a waiter is served though the lock comes and goes, and weak fairness of the
operator's decisions to activate and to resume: an activation nobody resumes stays where it is.
`GraphRefresh!FairSpec` asks weak fairness of the job's own steps, the CronJob's start of a sweep
among them; nothing of sources, other writers or faults, and a document may kill the process at
every visit.

Every property has a mutant in `PROJECT.json`: a change to one definition that a plausible bug
would make, and that the run finds.

## 4. What is proved

For every number of requests, intents, keys, members, workspaces, baskets, contents, readers,
writers, operators, accounts and envelopes, and every value of the bounds:

| Module | Theorem | Statement |
|---|---|---|
| `PwWriteProofs` | `TypeCorrect`, `OnceTheorem`, `AnswersTheorem`, `AdmissionTheorem`, `StatusTheorem` | types and the safety properties of `pwrite` |
| | `TablesTheorem` | `PwWrite` implements `PwWriteTables` |
| `PwWriteLimitsProofs` | `LimitsTypes`, `WindowTheorem`, `BurstTheorem`, `CapsTheorem`, `PacedTheorem`, `ChargedTheorem` | types, windows, bursts, caps, pace of status reads, accounting of charges |
| `FacetStreamsProofs` | `TypeTheorem`, `OneLineTheorem`, `NoCollisionTheorem` | types, chains, key exclusion |
| | `AuthorSawTheorem`, `WholeCommandTheorem`, `AnswersTheorem` | events, receipts and answers |
| | `ImplementsTheorem` | `FacetStreams` implements `Classification` |
| `CoherentReadProofs` | `ReadTypes`, `CoherentTheorem`, `AlarmTheorem` | snapshots and no false alarm |
| `FacetActivationProofs` | `TypeCorrect`, `NothingLeftBehindHolds`, `NothingUnderneathHolds`, `ReceiptsFollowHolds`, `OpensWholeHolds` | the safety of the activation |
| `GraphRefreshProofs` | `RefreshTypes`, `DestroyedTheorem`, `CoveredTheorem`, `NewTheorem` | types; nothing published is lost, nothing covered is missing |
| | `ReservedTheorem`, `PaidTheorem`, `AsideTheorem` | calls reserved and paid once, documents set aside for a reason |
| `AccountsProofs` | `MembersTypes`, `AuthorTheorem`, `SeenTheorem`, `ReplayTheorem` | member commands and their audit |
| | `AdmissionTypes`, `OlderTheorem`, `DecisionsTheorem` | order of snapshots, links against decisions |
| `FoldTheorems` | `NatInduct`, `SetInduct`, `SumMore`, `SumAdd` | induction stated of sets; sums over finite sets |

With these, every invariant and every action property that a passing run checks is a theorem.

Assumptions: the named ASSUMEs of the modules. They say that names of absence (`NoRow`, `NoIntent`,
`NoRun`, `Missing`) name nothing else; that bounds are numbers, and limits, bursts, the window, the
reads of a budget's first period and their spacing positive, as the service's own constants are;
that a burst is within its limit; that orders have the shape the routes accept, and receipts from before the cutover old
digests; that a history from before the activation is unbound and its receipts answer events of
their own account; and that intents and readers, cities and documents, and workspaces are finitely
many. `FacetStreams` needs its requests finitely many too. Each module with an ASSUME is extended
by the module of a run, so TLC evaluates them. `MembersSpec` and `AdmissionSpec` start without
accounts, as a deployment does; the member cut of the run starts with approved accounts, a state
they reach.

Induction over data. The replay of an audit, the replay of a token bucket and the sums over a
ledger are folds, of any length. Each is the value of a recursive function, and the theorems first
show that this function exists: `NatInduct` (a set of naturals with 0 and every successor is all
of them) and `SetInduct` (the same for the subsets of a finite set) are facts about sets, where an
induction rule would take a predicate. Unfolding the function once (`ReplayedRow`, `SumAdd`,
`HeldExists`) is then an ordinary lemma.

Arguments.

- *PwWrite.* No property is inductive alone: that a commit is admitted depends on checks made
  statements earlier. `IInv` adds, for each `pc`, what the checks passed so far are still worth
  while their locks are held (`CheckInv`), that locks exclude (`LockInv`), that row, reservation
  and verdict agree (`RowInv`), and for each answer code the fact that makes it true for ever
  (`Holds`): a conflict of revisions because revisions only grow, an expiry because the clock does
  and nobody past the window is left. `Stays` proves that no step takes such a fact away.
- *FacetStreams.* `Core` says what a request has established at each `pc` (`Staged`) thanks to the
  locks (`Locked`), and that each stream is one chain. On top of it, rows and receipts are only
  added to (`Grows`), so what is true of an event or of a receipt when written stays true
  (`ReceiptsStand`, `Recorded`). For the refinement, the registers are the heads; a COMMIT that
  appends is one `Classify`, with the version and the rights `Staged` kept; a COMMIT that appends
  nothing, and every other step of a request, is a stutter.
- *PwWriteLimits.* `Core` is types, `ReadInv`, `NoneLater`, `JobInv` and `LockInv`. A transaction
  reads under an advisory lock and writes statements later, at COMMIT: `JobInv` says that what it
  read (rows of a bucket, pending intents, a budget) is still worth then, because the lock excludes
  whoever would publish in the same bucket, reader or intent (`LockInv`), and because time only
  makes rows leave the window. `TokensBound` bounds, for each instant, what was charged since plus
  what the replay leaves by the burst and the refill, although the replay starts from a full bucket
  at the edge of the window: a burst is within its limit, so nothing is gained by forgetting older
  rows. `WindowKept` and `BurstKept` of any window follow from what each charge was checked
  against. For `CapsKept`, the intents pending at COMMIT are among those counted: the reader's
  lock keeps others out, and time only expires them. `ChargedOnce` is an equality of sums, raised by one in the same places by
  each COMMIT (`CommitCharges`).
- *CoherentRead.* A double collect: the revisions of a token only grow, and their sum (`Clock`)
  grows with every change of what the viewer is shown (`ScopeMoves`). A sample is never ahead of
  the scope, and while it is not behind, the parts fetched since are current (`Held`). The digest
  counts in the clock because a first digest leaves the revision at 0. `Counted` charges one move
  of the clock to each failed attempt.

- *FacetActivation.* `Core` is inductive: types, shape, `Scoped`, `Fence`, `Exclusive`,
  `Receipts`, and the two properties themselves. `Scoped`: a scoped transaction under way began after some workspace was switched
  (`Dropped`) and when its author had no unbound event; an event carries a workspace of writing
  only after `Dropped`. No unbound event appears after that: the deferred trigger (`Admitted`)
  refuses the commit of every unscoped transaction, and a binding is never undone. Before it, the
  switch that makes `Dropped` true holds `facet_events` and lists what it leaves unbound, hence
  `NothingLeftBehind`. `NothingUnderneath` follows: nobody writes under the new regime above a
  history still loose. `Fence`: a workspace of the old epoch has its barrier up, so no cutover
  opens by itself, and an operator past the barrier finds its epoch. `OpensWhole` follows from the
  guard of the opening, evaluated in the transaction that opens. `ReceiptsFollow` needs to know who
  may decide of a receipt: between the table locks and the switch of a workspace there is one
  operator (`Exclusive`), contexts begin with the first switch, and a context that stands for an
  event left unbound comes from the cutover of the account's only destination, which is over
  (`Receipts`): no later cutover binds that event, so a receipt once settled stays settled where
  its event is.
- *Memberships.* Under the workspace lock one command runs (`Alone`), so what it judged is what is
  stored; the accounts it holds FOR SHARE keep their status until it ends (`HeldRowsStand`), which
  is where administrators' updates and logins must wait; revisions only grow and an equal revision
  is an equal record (`Grows`), so the record named by its revision is the one that was seen.
  `AuditReplays` holds because a command's rows replay to its result (`AuditedReplays`), the last
  row being replayed on what the rows before it give, and because membership and rows are written
  by one COMMIT (`CommitReplays`).
- *Admission.* One ingestion at a time holds the lock (`OneIngest`); the envelope it read as fresh
  stays so because stamps applied are only moved by it (`FreshHeld`); and every staged entry is no
  newer than the last stamp applied under some key (`Covered`), so an envelope fresh against all
  keys moves no entry back. `DecisionsTheorem` needs no more than that the adoption's UPDATE has
  the condition `pending` in its WHERE, statement by statement over every other one.

- *GraphRefresh.* `Core` is a conjunction of five parts, each inductive given the first, and of
  `NothingDestroyed`. `Places`: types, and what the visit holds at each of its steps; a document in
  work is owed by the ledger of its own city. `Counted`: an unclosed attempt that the journal shows
  is an end it never learnt of, or one whose end is still in memory; hence `SetAsideEarned`.
  `Listings`: only a document its source has published is collected or in a ledger, and a late one
  found its city primed; hence `NewDocuments`. `Payments`: a reservation precedes its call, and an
  extraction runs on a document neither projected nor published as its baseline; hence
  `CallsReserved` and `PaidOnce`. `Contents`: versions are numbered before they are used, a
  candidate holds its baseline and its document (`Traced`), so what is published on the way holds
  all that had reached PostgreSQL (`Carried`), unless another writer put an older graph back; hence
  `CoveredShown`. `NothingDestroyed` holds because the conditional replacement only takes the place
  of the version archived by its own run, whose archive is written once.

As `FacetStreams` implements `Classification` and `CoherentRead` extends it, readers are proved
coherent beside the writers as they are.

Only model-checked: the liveness properties `ConfirmAnswered`, `Answered`, `Opens`, `CityVisited`
and `PendingSettled`, because liveness under fairness is outside what the prover handles.
`RefusalSticks`, `CollectedOwed` and `NeverReactivated` are refuted by a run each.

## 5. Disagreements between documents, comments and the code

`docs/spec/PW_D_PERSISTENCE.md:52-54` says of a terminal conflict that "Later confirmation and
status return the same refusal, including after a lost response." `revokePwIntent`
(`facets/pw-write-fences.ts:54-78`) accepts the revocation of a rejected intent, and
`pwIntentStatus` (line 91) and the reservation read the revocation first: after it, status says
`revoked` and a confirmation `write_intent_revoked`. Run `pwrite_refusal` finds the trace. Nothing
is written because of it (`AnswersHold`), only the reason given changes; `StatusMonotone` states
the order that does hold.

`services/graph/refresh-coverage.ts:23-27` says: "A document seen once is `pending` until its
signals reach Postgres. Passing on it … leaves it pending, and the next sweep finds it again even
though RECUEIL now reports it as `seen`". The guard of known addresses is saved by the acquisition
(`services/sources/live-scrape.ts:523-536`), the ledger by its caller afterwards
(`refresh-run.ts:369`). A job stopped between the two has a document in the guard and in no ledger;
the next acquisition skips it and no visit plans it again. Run `refresh_lost` finds the trace.

`routes/auth.ts:407-409` says: "A `suspended`/`rejected` account is NEVER reactivated by an
invitation: only an explicit admin status change reactivates it". The login reads the account
(353-357), then accepts the invitation by an UPDATE of the account with no condition on its status
(426-429): a rejection or a suspension that commits in between is overwritten. Run
`accounts_reactivated` finds the trace.

## 6. Plan

Done: the modules above, their runs and proofs. Next, most important first:

1. `ArtifactsHost`: idempotency records, attempts that outlive their callers, commit and
   activation; then `PreviewTickets`.
2. `LotCutover`, `ProjectionEvents` (the invalidation stream against the revisions), `JobsIndex`,
   `StreamBus`, as far as they add something new.
3. Further theorems: an abstract publication of graphs (a register whose every value is kept) that
   `GraphRefresh` implements, and an abstract ledger of charges that `PwWriteLimits` implements.

Runs stay one per question; several of the small components would share one.

## 7. Not modelled

Parsers, scoring, geographic matching and consistency calculations are sequential functions of
large data with tests of their own; they and the Svelte interface make up most of the source, so
the share of it the models cover is small by nature. Schemas, MCP tool definitions and deployment
have no protocol. OIDC, signatures, object storage and PostgreSQL are external: their guarantees
(advisory and row locks to the end of a transaction, atomic COMMIT, statement snapshots under READ
COMMITTED, conditional puts) are assumed as the models state them. The reader's consent, challenge
MACs, cookies and pages of the write intent surface are checked outside the transaction and are not
part of `PwWrite`. Sessions are signed cookies without server state. The write outbox has no
exporter yet. Lots, pipeline jobs, the H2A journal, the artifacts host and preview, the chat bus and
prospect marks are in the plan or left for later, as `PROJECT.json` says of each.

## 8. Running

```
tlc -workers 2 -config FacetStreams.cfg MCFacetLayouts
tlc -workers 2 -config GraphRefresh.cfg MCGraphRefresh
tlapm FacetStreamsProofs.tla
```

Every configuration ends within three minutes on two workers; the proof modules take between half
a minute and a few minutes each.
