---------------------------- MODULE GraphRefresh ----------------------------
(* The scheduled refresh of the city graphs: refresh-pv.ts runs a sweep       *)
(* (refresh-sweep.ts) over the cities, and each visit acquires the documents  *)
(* its source lists (live-scrape.ts, recueil.ts), folds them into the city's  *)
(* coverage ledger, and extracts and publishes one of those it owes           *)
(* (refresh-run.ts, refresh-state.ts, graphify-34-snapshot.ts).               *)
(*                                                                            *)
(* One job runs at a time (the CronJob forbids concurrency), but it may be    *)
(* told to stop, killed between any two writes, and restarted: what is in the *)
(* object store and in PostgreSQL is durable, the rest is in `job' and        *)
(* `visit' and is lost.  Every write to the object store may fail.  Other     *)
(* writers publish the canonical graph through the same guarded writer.       *)
EXTENDS RefreshCoverage

CONSTANTS
  Cities,        \* the configured cities
  FirstCity,     \* the first of the deterministic list
  Succ,          \* [Cities -> the next one, wrapping around]
  Scenarios,     \* where documents are published, and what may go wrong
  NoCity, NoDoc, \* none
  NoVersion,     \* no object, no version
  Partial,       \* an archive whose receipt is not written
  NoRun,         \* no durable run state
  Chunks,        \* chunks of a document
  Budget,        \* REFRESH_BUDGET_LIMIT, in reservations
  MaxVersion     \* bound on the versions of canonical graphs

ASSUME CitiesAssumption ==
  /\ IsFiniteSet(Cities) /\ NoCity \notin Cities
  /\ FirstCity \in Cities /\ Succ \in [Cities -> Cities]
ASSUME BoundsAssumption ==
  Chunks \in Nat /\ Budget \in Nat /\ MaxVersion \in Nat
Versions == 0..MaxVersion
(* The durable states of the extraction of a document from a baseline.        *)
Runs ==
  [reserved: 0..Budget, stored: 0..Chunks, snap: Versions \cup {NoVersion},
   published: BOOLEAN, projected: {"no", "failed", "completed"},
   archive: Versions \cup {NoVersion, Partial}, plan: BOOLEAN]
ASSUME NamesAssumption ==
  /\ NoDoc \notin Docs /\ NoVersion \notin Versions
  /\ Partial \notin Versions \cup {NoVersion}
  /\ NoRun \notin Runs
(* home: the city a document belongs to.  docs: those that get published.     *)
(* killers: cities whose documents may kill the process, again and again.     *)
(* bare: cities without canonical graph yet.  faults, edits: bounds on        *)
(* deaths, signals and failed reads and writes, and on manual runs and other  *)
(* writers' publications.                                                     *)
ASSUME ScenarioAssumption ==
  Scenarios \subseteq
    [home: [Docs -> Cities], docs: SUBSET Docs, killers: SUBSET Cities,
     bare: SUBSET Cities, faults: Nat, edits: Nat]

VARIABLES
  scenario,      \* one of the scenarios
  listed,        \* [Docs -> "unborn", "listed" by its source, "gone" from it]
  cursor,        \* refresh/018/sweep/cursor.json
  guard,         \* collected-urls.jsonl: documents never requested again
  attempts,      \* acquisition-state.jsonl: [Docs -> unclosed attempts]
  deferred,      \* the same: [Docs -> reason it is not requested again]
  ledger,        \* coverage.json: [Cities -> ledger]
  canonical,     \* graph/<city>/latest.json: [Cities -> version]
  runs,          \* [Docs -> [baseline version -> durable run state]]
  pg,            \* [Cities -> version PostgreSQL projects]
  holds,         \* [Versions -> documents whose signals are in the version]
  fresh,         \* next version
  pc,            \* what the job does next
  job,           \* the job in memory
  visit,         \* the visit of one city in memory
  faults, edits, \* counters of the bounded steps
  calls,         \* history: model calls sent, by document and baseline
  lost,          \* history: attempts whose closure never reached the store
  canonized,     \* history: versions that were canonical, by city
  copies,        \* history: versions other writers archived, by city
  reached,       \* history: documents whose signals reached PostgreSQL
  late,          \* history: documents published after their city's priming
  blind,         \* history: cities whose ledger could not be read once
  restored       \* history: cities where an older version was put back

source == <<scenario, listed, late>>
collected == <<guard, attempts, deferred, lost>>
books == <<cursor, ledger, blind>>
graphs == <<canonical, pg, holds, fresh, canonized, copies, reached, restored>>
paid == <<runs, calls>>
bounds == <<faults, edits>>
vars == <<source, collected, books, graphs, paid, bounds, pc, job, visit>>

NoJob == [mode |-> "none", at |-> NoCity, pos |-> NoCity, left |-> 0,
          stopping |-> FALSE, extract |-> FALSE]
NoVisit == [base |-> NoVersion, todo |-> {}, got |-> {}, closed |-> {}, aside |-> {},
            known |-> FALSE, missed |-> FALSE, doc |-> NoDoc, from |-> NoVersion,
            copied |-> NoVersion, resume |-> FALSE]
NewRun == [reserved |-> 0, stored |-> 0, snap |-> NoVersion, published |-> FALSE,
           projected |-> "no", archive |-> NoVersion, plan |-> FALSE]

city == job.at
doc == visit.doc
run == runs[visit.doc][visit.from]
DocsOf(c) == {d \in Docs : scenario.home[d] = c}
UpdateRun(r) == runs' = [runs EXCEPT ![doc][visit.from] = r]

Init ==
  /\ scenario \in Scenarios
  /\ listed = [d \in Docs |-> "unborn"] /\ late = {}
  /\ guard = {} /\ attempts = [d \in Docs |-> 0]
  /\ deferred = [d \in Docs |-> "no"] /\ lost = [d \in Docs |-> 0]
  /\ cursor = FirstCity /\ ledger = [c \in Cities |-> EmptyLedger] /\ blind = {}
  /\ canonical = [c \in Cities |-> IF c \in scenario.bare THEN NoVersion ELSE 0]
  /\ pg = canonical /\ holds = [v \in Versions |-> {}] /\ fresh = 1
  /\ canonized = [c \in Cities |-> {canonical[c]} \ {NoVersion}]
  /\ copies = [c \in Cities |-> {}] /\ reached = {} /\ restored = {}
  /\ runs = [d \in Docs |-> [v \in Versions |-> NoRun]]
  /\ calls = [d \in Docs |-> [v \in Versions |-> 0]]
  /\ faults = 0 /\ edits = 0 /\ pc = "idle" /\ job = NoJob /\ visit = NoVisit

(* A fault is a step that uses up one of the faults.                          *)
Fault == faults < scenario.faults /\ faults' = faults + 1 /\ UNCHANGED edits
NoFault == UNCHANGED bounds

(* The visit is over, by success or by a throw the sweep counts.              *)
Leave ==
  /\ pc' = IF job.mode = "sweep" THEN "next" ELSE "idle"
  /\ job' = IF job.mode = "sweep" THEN job ELSE NoJob
  /\ visit' = NoVisit
Go(label) == pc' = label /\ UNCHANGED <<job, visit>>
-----------------------------------------------------------------------------
(* The sweep: runRefreshSweep, and the single-city mode of refresh-pv.ts.     *)

(* The CronJob starts a sweep where the cursor says.                          *)
StartSweep ==
  /\ pc = "idle"
  /\ job' = [mode |-> "sweep", at |-> NoCity, pos |-> cursor,
             left |-> Cardinality(Cities), stopping |-> FALSE, extract |-> TRUE]
  /\ pc' = "next"
  /\ UNCHANGED <<source, collected, books, graphs, paid, bounds, visit>>

(* An operator refreshes one city, without priming it.                        *)
StartCity(c) ==
  /\ pc = "idle" /\ edits < scenario.edits
  /\ edits' = edits + 1
  /\ job' = [mode |-> "city", at |-> c, pos |-> c, left |-> 0,
             stopping |-> FALSE, extract |-> TRUE]
  /\ pc' = "baseline"
  /\ UNCHANGED <<source, collected, books, graphs, paid, faults, visit>>

(* The cursor moves on before the city is worked on; the write may fail.      *)
(* Mutant: the sweep always restarts at the head of the list.                 *)
MovePinned(next) == cursor' = FirstCity
Move(next) == cursor' = next
EnterCity ==
  /\ pc = "next" /\ job.left > 0 /\ ~job.stopping
  /\ pc' = "baseline"
  /\ job' = [job EXCEPT !.at = job.pos, !.pos = Succ[job.pos], !.left = @ - 1]
  /\ \/ Move(Succ[job.pos]) /\ NoFault
     \/ Fault /\ UNCHANGED cursor
  /\ UNCHANGED <<source, collected, ledger, blind, graphs, paid, visit>>

(* The list is done, the job is told to stop, or the time left does not cover *)
(* another city: the first city always has time.                              *)
StopSweep ==
  /\ pc = "next"
  /\ job.left = 0 \/ job.stopping \/ job.left < Cardinality(Cities)
  /\ pc' = "idle" /\ job' = NoJob
  /\ UNCHANGED <<source, collected, books, graphs, paid, bounds, visit>>

(* The submission budget is spent or the fallback seat is dry: cities are     *)
(* still visited, nothing more is extracted in this sweep.                    *)
HaltExtraction ==
  /\ pc = "next" /\ job.extract /\ Fault
  /\ job' = [job EXCEPT !.extract = FALSE]
  /\ UNCHANGED <<source, collected, books, graphs, paid, pc, visit>>
-----------------------------------------------------------------------------
(* What the job does not decide.                                              *)

(* A source publishes a document, and later drops it from its index: what it  *)
(* did since its last visit, by the time its index is read.                   *)
Publish(d) ==
  /\ pc = "index" /\ city = scenario.home[d]
  /\ d \in scenario.docs /\ listed[d] = "unborn"
  /\ listed' = [listed EXCEPT ![d] = "listed"]
  /\ late' = IF ledger[scenario.home[d]].primed THEN late \cup {d} ELSE late
  /\ UNCHANGED <<scenario, collected, books, graphs, paid, bounds, pc, job, visit>>
Withdraw(d) ==
  /\ pc = "index" /\ city = scenario.home[d] /\ listed[d] = "listed" /\ d \in guard
  /\ listed' = [listed EXCEPT ![d] = "gone"]
  /\ UNCHANGED <<scenario, late, collected, books, graphs, paid, bounds, pc, job, visit>>

(* SIGTERM, or the job's own deadline: the abort signal is raised.            *)
Sigterm ==
  /\ pc # "idle" /\ ~job.stopping /\ Fault
  /\ job' = [job EXCEPT !.stopping = TRUE]
  /\ UNCHANGED <<source, collected, books, graphs, paid, pc, visit>>

(* The attempts whose end the store does not know yet.                        *)
Unsettled == visit.closed \cup (IF pc = "fetching" THEN {doc} ELSE {})
Drop == lost' = [d \in Docs |-> IF d \in Unsettled /\ lost[d] < 2 THEN lost[d] + 1 ELSE lost[d]]
(* The process dies: out of memory, evicted, killed.                          *)
Die ==
  /\ pc # "idle"
  /\ \/ Fault
     \/ city \in scenario.killers /\ pc \in {"fetching", "call"} /\ NoFault
  /\ Drop
  /\ pc' = "idle" /\ job' = NoJob /\ visit' = NoVisit
  /\ UNCHANGED <<source, guard, attempts, deferred, books, graphs, paid>>

(* Another writer publishes a city's graph through writeCanonicalCityGraph,   *)
(* which archives what it replaces: a graph of its own, or an archive put     *)
(* back.  It may project it.                                                  *)
Replace(c, v) ==
  /\ canonical' = [canonical EXCEPT ![c] = v]
  /\ canonized' = [canonized EXCEPT ![c] = @ \cup {v}]
  /\ copies' = [copies EXCEPT ![c] = @ \cup ({canonical[c]} \ {NoVersion})]
  /\ pg' \in {pg, [pg EXCEPT ![c] = v]}
Edit(c) ==
  /\ edits < scenario.edits /\ edits' = edits + 1 /\ fresh <= MaxVersion
  /\ Replace(c, fresh)
  /\ fresh' = fresh + 1
  /\ holds' = [holds EXCEPT ![fresh] =
                 IF canonical[c] = NoVersion THEN {} ELSE holds[canonical[c]]]
  /\ UNCHANGED <<source, collected, books, reached, restored, paid, faults, pc, job, visit>>
PutBack(c, v) ==
  /\ edits < scenario.edits /\ edits' = edits + 1
  /\ v \in canonized[c] \ {canonical[c]}
  /\ Replace(c, v)
  /\ restored' = restored \cup {c}
  /\ UNCHANGED <<source, collected, books, holds, fresh, reached, paid, faults, pc, job, visit>>
-----------------------------------------------------------------------------
(* Acquisition: acquireRefreshPdfCandidates, scrapeOneCity and runRecueil.    *)

(* A city without canonical graph is refused before its index is read.        *)
ReadBaseline ==
  /\ pc = "baseline"
  /\ IF job.stopping \/ canonical[city] = NoVersion
     THEN Leave
     ELSE /\ pc' = "index" /\ visit' = [visit EXCEPT !.base = canonical[city]]
          /\ UNCHANGED job
  /\ UNCHANGED <<source, collected, books, graphs, paid, bounds>>

(* The index, less the documents the known-URL guard has; or no answer, or an *)
(* acquisition state that cannot be read.                                     *)
ListIndex ==
  LET offered == {d \in DocsOf(city) : listed[d] = "listed"}
  IN /\ pc = "index"
     /\ \/ Leave
        \/ /\ ~job.stopping /\ pc' = "recueil" /\ UNCHANGED job
           /\ visit' = [visit EXCEPT !.todo = offered \ guard,
                                     !.known = offered \cap guard # {}]
     /\ UNCHANGED <<source, collected, books, graphs, paid, bounds>>

(* acquisitionJournal.setAside: deferred by an earlier run, or found twice    *)
(* interrupted now.  Mutant: one attempt more.                                *)
InterruptedLate(d) == deferred[d] = "no" /\ attempts[d] > 2
Interrupted(d) == deferred[d] = "no" /\ attempts[d] >= 2
SetAside(d) ==
  /\ pc = "recueil" /\ d \in visit.todo /\ ~job.stopping
  /\ deferred[d] # "no" \/ Interrupted(d)
  /\ visit' = [visit EXCEPT !.todo = @ \ {d},
                            !.aside = IF Interrupted(d)
                                      THEN @ \cup {<<d, "interrupted">>} ELSE @]
  /\ UNCHANGED <<source, collected, books, graphs, paid, bounds, pc, job>>

(* The journal in memory, written whole: closed attempts leave it, documents  *)
(* set aside enter it, and the attempts of `opened' count one more.           *)
Settled == visit.closed \cup {mark[1] : mark \in visit.aside}
WriteJournal(opened) ==
  /\ attempts' = [d \in Docs |-> IF d \in Settled THEN 0
                                 ELSE IF d \in opened THEN attempts[d] + 1 ELSE attempts[d]]
  /\ deferred' = [d \in Docs |->
                    IF \E mark \in visit.aside : mark[1] = d
                    THEN (CHOOSE mark \in visit.aside : mark[1] = d)[2] ELSE deferred[d]]

(* open: the attempt is written before the request; the write may fail.       *)
OpenAttempt(d) ==
  /\ pc = "recueil" /\ d \in visit.todo /\ ~job.stopping
  /\ deferred[d] = "no" /\ ~Interrupted(d)
  /\ pc' = "fetching"
  /\ \/ /\ WriteJournal({d}) /\ NoFault
        /\ visit' = [visit EXCEPT !.todo = @ \ {d}, !.doc = d, !.closed = {}, !.aside = {}]
     \/ /\ Fault /\ UNCHANGED <<attempts, deferred>>
        /\ visit' = [visit EXCEPT !.todo = @ \ {d}, !.doc = d]
  /\ UNCHANGED <<source, guard, lost, books, graphs, paid, job>>

(* The document is stored, could not be had, or is too large to be had.       *)
(* Mutant: an attempt that failed is not closed.                              *)
Collected == [visit EXCEPT !.got = @ \cup {doc}, !.closed = @ \cup {doc}, !.doc = NoDoc]
RefusedOpen == [visit EXCEPT !.missed = TRUE, !.doc = NoDoc]
Refused == [visit EXCEPT !.missed = TRUE, !.closed = @ \cup {doc}, !.doc = NoDoc]
Oversize == [visit EXCEPT !.aside = @ \cup {<<doc, "oversize">>},
                          !.closed = @ \cup {doc}, !.doc = NoDoc]
Fetched ==
  /\ pc = "fetching"
  /\ pc' = "recueil" /\ visit' \in {Collected, Refused, Oversize}
  /\ UNCHANGED <<source, collected, books, graphs, paid, bounds, job>>

(* The listing ends, breaks off, or is told to stop.  The run manifest comes  *)
(* first: if it cannot be written, the visit ends and the journal is not      *)
(* saved.  The save may fail and is swallowed.  A visit that got nothing,     *)
(* missed something and had nothing is a failure.                             *)
Listed ==
  IF visit.got = {} /\ visit.missed /\ ~visit.known
  THEN Leave
  ELSE /\ pc' = "guard" /\ UNCHANGED job
       /\ visit' = [visit EXCEPT !.closed = {}, !.aside = {}, !.todo = {},
                                 !.missed = FALSE, !.known = FALSE]
CloseList ==
  /\ pc = "recueil"
  /\ visit.todo = {} \/ visit.got # {} \/ job.stopping
  /\ \/ WriteJournal({}) /\ NoFault /\ UNCHANGED lost /\ Listed
     \/ Fault /\ Drop /\ UNCHANGED <<attempts, deferred>> /\ (Listed \/ Leave)
  /\ UNCHANGED <<source, guard, books, graphs, paid>>

(* saveCollectedUrls swallows a failed write; then the abort signal is read.  *)
SaveGuard ==
  /\ pc = "guard"
  /\ \/ guard' = guard \cup visit.got /\ NoFault
     \/ Fault /\ UNCHANGED guard
  /\ IF job.stopping THEN Leave ELSE Go("ledger")
  /\ UNCHANGED <<source, attempts, deferred, lost, books, graphs, paid>>
-----------------------------------------------------------------------------
(* The ledger: what the city owes.                                            *)

(* A ledger that cannot be read counts as none.  The plan is written only if  *)
(* it changed, and the visit ends there when nothing is owed or the sweep     *)
(* does not extract.                                                          *)
PlanCoverage ==
  /\ pc = "ledger"
  /\ \E unreadable \in BOOLEAN :
       LET l0 == IF unreadable THEN EmptyLedger ELSE ledger[city]
           l1 == Plan(l0, visit.got, job.mode = "sweep")
       IN /\ IF unreadable THEN Fault /\ blind' = blind \cup {city}
                           ELSE NoFault /\ UNCHANGED blind
          /\ ledger' = IF l1 = l0 THEN ledger ELSE [ledger EXCEPT ![city] = l1]
          /\ IF Owed(l1) = {} \/ ~job.extract
             THEN Leave
             ELSE /\ pc' = "states" /\ UNCHANGED job
                  /\ visit' = [visit EXCEPT !.doc = First(l1, visit.got), !.got = {}]
  /\ UNCHANGED <<source, collected, cursor, graphs, paid>>

(* A read or a write of the object store throws: the visit is over.           *)
StoreThrows ==
  /\ pc \in {"baseline", "ledger", "states", "known"} /\ Fault
  /\ Leave
  /\ UNCHANGED <<source, collected, books, graphs, paid>>
-----------------------------------------------------------------------------
(* Extraction: the paid work on one document.  Whatever throws here is a      *)
(* failure of the document, counted before the visit ends.                    *)

Extraction == {"chunk", "call", "store", "publish", "archive", "plan",
               "write", "receipt", "project", "projected", "cover"}
Advance(label) == Go(label) /\ NoFault
Break == Advance("failing")
BreakOff ==
  /\ pc \in Extraction /\ Fault
  /\ Go("failing")
  /\ UNCHANGED <<source, collected, books, graphs, paid>>

(* What the durable states know of the document: projected already, whatever  *)
(* the baseline; its bytes published and still canonical; or work to do, from *)
(* this baseline.  Mutant: the published bytes are not asked about.           *)
Known(d) == \E v \in Versions : runs[d][v] # NoRun /\ runs[d][v].projected = "completed"
OwnBytes(d, base) ==
  {v \in Versions : runs[d][v] # NoRun /\ runs[d][v].published /\ runs[d][v].snap = base}
NoOwnBytes(d, base) == {}
Resumable(d, base) == OwnBytes(d, base)
Resume(v, label) == pc' = label /\ UNCHANGED job /\ visit' = [visit EXCEPT !.from = v]
MatchStates ==
  /\ pc = "states"
  /\ IF Known(doc)
     THEN Go("known") /\ UNCHANGED runs
     ELSE IF Resumable(doc, visit.base) # {}
     THEN Resume(CHOOSE v \in Resumable(doc, visit.base) : TRUE, "publish") /\ UNCHANGED runs
     ELSE /\ Resume(visit.base, "chunk")
          /\ runs' = [runs EXCEPT ![doc][visit.base] = IF @ = NoRun THEN NewRun ELSE @]
  /\ UNCHANGED <<source, collected, books, graphs, calls, bounds>>

(* The calls of a chunk are reserved, and the reservation written, before the *)
(* first one is sent.  Mutant: the reservation stays in memory.               *)
ReserveInMemory(r) == r
Reserved(r) == [r EXCEPT !.reserved = @ + 1]
Reserve ==
  /\ pc = "chunk" /\ run.stored < Chunks
  /\ IF run.reserved = Budget
     THEN Break /\ UNCHANGED runs
     ELSE UpdateRun(Reserved(run)) /\ Advance("call")
  /\ UNCHANGED <<source, collected, books, graphs, calls>>
Call ==
  /\ pc = "call"
  /\ calls' = [calls EXCEPT ![doc][visit.from] = @ + 1]
  /\ Advance("store") \/ Break
  /\ UNCHANGED <<source, collected, books, graphs, runs>>
Store ==
  /\ pc = "store"
  /\ UpdateRun([run EXCEPT !.stored = @ + 1]) /\ Advance("chunk")
  /\ UNCHANGED <<source, collected, books, graphs, calls>>

(* Chunks already stored are read back; the candidate is the baseline and the *)
(* document, the same each time.  Mutant: the candidate is the document.      *)
Alone(base) == {doc}
Merged(base) == holds[base] \cup {doc}
Candidate ==
  /\ pc = "chunk" /\ run.stored = Chunks
  /\ IF run.snap # NoVersion
     THEN UNCHANGED <<runs, holds, fresh>>
     ELSE /\ fresh <= MaxVersion /\ fresh' = fresh + 1
          /\ holds' = [holds EXCEPT ![fresh] = Merged(visit.from)]
          /\ UpdateRun([run EXCEPT !.snap = fresh])
  /\ Advance("publish")
  /\ UNCHANGED <<source, collected, books, canonical, pg, canonized, copies, reached,
                 restored, calls>>
-----------------------------------------------------------------------------
(* Publication: publishSnapshot and applyGraphify34Snapshots, under a backup  *)
(* id that is the identity of the run.                                        *)

(* With a plan, the interrupted publication is resumed; without, the archive  *)
(* must not exist: an archive begun and not planned refuses the run for good. *)
BeginPublish ==
  /\ pc = "publish"
  /\ IF job.stopping
     THEN Break /\ UNCHANGED runs
     ELSE IF run.plan
     THEN /\ pc' = "write" /\ visit' = [visit EXCEPT !.resume = TRUE]
          /\ UNCHANGED <<job, runs>> /\ NoFault
     ELSE IF run.archive # NoVersion
     THEN Break /\ UNCHANGED runs
     ELSE /\ pc' = "archive" /\ visit' = [visit EXCEPT !.copied = canonical[city]]
          /\ UpdateRun([run EXCEPT !.archive = Partial]) /\ UNCHANGED job /\ NoFault
  /\ UNCHANGED <<source, collected, books, graphs, calls>>
SealArchive ==
  /\ pc = "archive"
  /\ UpdateRun([run EXCEPT !.archive = visit.copied]) /\ Advance("plan")
  /\ UNCHANGED <<source, collected, books, graphs, calls>>
WritePlan ==
  /\ pc = "plan"
  /\ UpdateRun([run EXCEPT !.plan = TRUE]) /\ Advance("write")
  /\ UNCHANGED <<source, collected, books, graphs, calls>>

(* writeCanonicalCityGraph: nobody published since the baseline was read, and *)
(* the archive is of that version; or the bytes are already there.            *)
(* Mutant: what was published meanwhile is not looked at.                     *)
ArchiveOnly == run.archive = visit.base
Writable == canonical[city] = visit.base /\ run.archive = visit.base
WriteCanonical ==
  /\ pc = "write"
  /\ \/ /\ visit.resume /\ canonical[city] = run.snap
        /\ Advance("receipt") /\ UNCHANGED <<canonical, canonized>>
     \/ /\ ~(visit.resume /\ canonical[city] = run.snap) /\ Writable
        /\ canonical' = [canonical EXCEPT ![city] = run.snap]
        /\ canonized' = [canonized EXCEPT ![city] = @ \cup {run.snap}]
        /\ Advance("receipt")
     \/ /\ ~(visit.resume /\ canonical[city] = run.snap) /\ ~Writable
        /\ Break /\ UNCHANGED <<canonical, canonized>>
  /\ UNCHANGED <<source, collected, books, pg, holds, fresh, copies, reached, restored, paid>>
WriteReceipt ==
  /\ pc = "receipt"
  /\ UpdateRun([run EXCEPT !.published = TRUE]) /\ Advance("project")
  /\ UNCHANGED <<source, collected, books, graphs, calls>>

(* upsertGraphAtomic is one transaction, and may refuse a regression.         *)
ProjectionFails == UpdateRun([run EXCEPT !.projected = "failed"]) /\ Break
Project ==
  /\ pc = "project"
  /\ \/ /\ ~job.stopping
        /\ pg' = [pg EXCEPT ![city] = run.snap] /\ reached' = reached \cup {doc}
        /\ UNCHANGED runs /\ Advance("projected")
     \/ ProjectionFails /\ UNCHANGED <<pg, reached>>
  /\ UNCHANGED <<source, collected, books, canonical, holds, fresh, canonized, copies,
                 restored, calls>>
MarkProjected ==
  /\ pc = "projected"
  /\ IF job.stopping
     THEN ProjectionFails
     ELSE UpdateRun([run EXCEPT !.projected = "completed"]) /\ Advance("cover")
  /\ UNCHANGED <<source, collected, books, graphs, calls>>

(* A document just projected that cannot be recorded as covered has failed    *)
(* (BreakOff); one projected earlier has not (StoreThrows).                   *)
CoverDocument ==
  /\ pc \in {"cover", "known"}
  /\ ledger' = [ledger EXCEPT ![city] = Cover(@, doc)]
  /\ Leave /\ NoFault
  /\ UNCHANGED <<source, collected, cursor, blind, graphs, paid>>
FailDocument ==
  /\ pc = "failing"
  /\ \/ ledger' = [ledger EXCEPT ![city] = Fail(@, doc)] /\ NoFault
     \/ Fault /\ UNCHANGED ledger
  /\ Leave
  /\ UNCHANGED <<source, collected, cursor, blind, graphs, paid>>
-----------------------------------------------------------------------------
Step ==
  \/ StartSweep \/ EnterCity \/ StopSweep
  \/ ReadBaseline \/ ListIndex \/ (\E d \in Docs : SetAside(d) \/ OpenAttempt(d))
  \/ Fetched \/ CloseList \/ SaveGuard \/ PlanCoverage \/ MatchStates
  \/ Reserve \/ Call \/ Store \/ Candidate
  \/ BeginPublish \/ SealArchive \/ WritePlan \/ WriteCanonical \/ WriteReceipt
  \/ Project \/ MarkProjected \/ CoverDocument \/ FailDocument
Disturbance ==
  \/ HaltExtraction \/ Sigterm \/ Die \/ StoreThrows \/ BreakOff
  \/ (\E d \in Docs : Publish(d) \/ Withdraw(d))
  \/ (\E c \in Cities : StartCity(c) \/ Edit(c) \/ \E v \in Versions : PutBack(c, v))
Next == Step \/ Disturbance

Spec == Init /\ [][Next]_vars
(* The scheduler starts a sweep whenever none runs, and a process that is not *)
(* killed goes on.  Nothing is fair about the rest: a source may never answer,*)
(* a killer city may kill every time.                                         *)
FairSpec == Spec /\ WF_vars(Step)
-----------------------------------------------------------------------------
(* Types, and where the job is when it is nowhere.                            *)
TypeOK ==
  /\ listed \in [Docs -> {"unborn", "listed", "gone"}]
  /\ late \subseteq Docs /\ guard \subseteq Docs /\ cursor \in Cities
  /\ attempts \in [Docs -> 0..2] /\ lost \in [Docs -> 0..2]
  /\ deferred \in [Docs -> {"no", "interrupted", "oversize"}]
  /\ ledger \in [Cities -> Ledgers]
  /\ canonical \in [Cities -> Versions \cup {NoVersion}]
  /\ pg \in [Cities -> Versions \cup {NoVersion}]
  /\ runs \in [Docs -> [Versions -> Runs \cup {NoRun}]]
  /\ pc = "idle" <=> job = NoJob
  /\ pc \in {"idle", "next"} => visit = NoVisit
  /\ visit.aside \subseteq Docs \X {"interrupted", "oversize"}

(* No version of a canonical graph is destroyed: each is still canonical, or  *)
(* archived by whoever replaced it.  An archive is taken well before the      *)
(* write, and a publication may be resumed by another process.                *)
NothingDestroyed ==
  \A c \in Cities : \A v \in canonized[c] :
    \/ v = canonical[c] \/ v \in copies[c]
    \/ \E d \in DocsOf(c), b \in Versions : runs[d][b] # NoRun /\ runs[d][b].archive = v

(* What the ledger calls covered is in PostgreSQL, and what the projection    *)
(* shows holds its signals: later documents, resumed publications and other   *)
(* writers' graphs do not lose them, unless an older graph was put back.      *)
CoveredShown ==
  \A d \in Docs :
    LET c == scenario.home[d]
    IN ledger[c].state[d] = "covered" =>
         d \in reached /\ (c \in restored \/ (pg[c] # NoVersion /\ d \in holds[pg[c]]))

(* Every model call was paid from a durable reservation, and the budget of    *)
(* the run bounds them all, whatever dies and resumes.                        *)
CallsReserved ==
  \A d \in Docs, v \in Versions :
    calls[d][v] <= IF runs[d][v] = NoRun THEN 0 ELSE runs[d][v].reserved

(* A document set aside as interrupted cost the acquisition two ends that its *)
(* journal never learnt of: the close of a refused attempt is kept in memory  *)
(* and must not count against the document.                                   *)
SetAsideEarned == \A d \in Docs : deferred[d] = "interrupted" => lost[d] >= 2

(* A document published after its city was primed is never taken as covered   *)
(* without extraction, unless the ledger could not be read once.              *)
NewDocuments ==
  \A d \in late :
    ledger[scenario.home[d]].state[d] = "primed" => scenario.home[d] \in blind

(* No call is sent for a document that was projected, or whose published      *)
(* bytes the visit read as its baseline: a crash or a refusal after the       *)
(* publication does not have the extraction paid again.                       *)
PaidOnce ==
  [][calls' # calls => ~Known(doc) /\ OwnBytes(doc, visit.base) = {}]_vars

(* Every city is visited again and again, even behind one that kills the job  *)
(* at each visit: the cursor moves on before the city is worked on.           *)
CityVisited == \A c \in Cities : []<>(city = c)

(* What a city owes is settled if its acquisitions keep succeeding: projected *)
(* or set aside, a document does not hide the ones behind it for ever, not    *)
(* even one that kills the process at each call, since its budget is spent.   *)
PendingSettled ==
  \A d \in Docs :
    LET owed == ledger[scenario.home[d]].state[d] = "pending"
    IN []<>(pc = "ledger" /\ city = scenario.home[d] /\ job.extract)
         => (owed ~> ~owed)

(* What refresh-coverage.ts says of it: "A document seen once is `pending`    *)
(* until its signals reach Postgres".  A collected document is never          *)
(* requested again, so between two jobs the ledger must know it.              *)
CollectedOwed ==
  pc = "idle" => \A d \in guard : ledger[scenario.home[d]].state[d] # "none"
=============================================================================
