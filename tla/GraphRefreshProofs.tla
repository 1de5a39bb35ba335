------------------------- MODULE GraphRefreshProofs -------------------------
(* What the refresh of the city graphs keeps, for every set of cities and of  *)
(* documents, every budget and every number of deaths, failures and other     *)
(* writers: the inductive invariant is in five parts, and each part is        *)
(* preserved by every step given the parts before it.                         *)
EXTENDS GraphRefresh, FoldTheorems

(* Where the job is: in the visit of a city, and at work on one document.     *)
Working == {"states", "known", "failing"} \cup Extraction
Visiting == {"index", "recueil", "fetching", "guard", "ledger"} \cup Working
Publishing == {"publish", "archive", "plan", "write", "receipt", "project",
               "projected", "cover"}
Labels == {"idle", "next", "baseline"} \cup Visiting

Jobs ==
  [mode: {"none", "sweep", "city"}, at: Cities \cup {NoCity}, pos: Cities \cup {NoCity},
   left: Nat, stopping: BOOLEAN, extract: BOOLEAN]
Marks == Docs \X {"interrupted", "oversize"}
Visits ==
  [base: Versions \cup {NoVersion}, todo: SUBSET Docs, got: SUBSET Docs,
   closed: SUBSET Docs, aside: SUBSET Marks, known: BOOLEAN, missed: BOOLEAN,
   doc: Docs \cup {NoDoc}, from: Versions \cup {NoVersion},
   copied: Versions \cup {NoVersion}, resume: BOOLEAN]

(* Types of what the module's type invariant leaves out.                      *)
SourceTypes ==
  /\ scenario \in Scenarios
  /\ listed \in [Docs -> {"unborn", "listed", "gone"}] /\ late \subseteq Docs
CollectedTypes ==
  /\ guard \subseteq Docs
  /\ attempts \in [Docs -> 0..2] /\ lost \in [Docs -> 0..2]
  /\ deferred \in [Docs -> {"no", "interrupted", "oversize"}]
BooksTypes ==
  /\ cursor \in Cities /\ blind \subseteq Cities /\ ledger \in [Cities -> Ledgers]
GraphTypes ==
  /\ canonical \in [Cities -> Versions \cup {NoVersion}]
  /\ pg \in [Cities -> Versions \cup {NoVersion}]
  /\ holds \in [Versions -> SUBSET Docs]
  /\ fresh \in 0..MaxVersion + 1
  /\ canonized \in [Cities -> SUBSET Versions] /\ copies \in [Cities -> SUBSET Versions]
  /\ reached \subseteq Docs /\ restored \subseteq Cities
PaidTypes ==
  /\ runs \in [Docs -> [Versions -> Runs \cup {NoRun}]]
  /\ calls \in [Docs -> [Versions -> Nat]]
BoundsTypes == faults \in Nat /\ edits \in Nat
JobTypes ==
  /\ pc \in Labels /\ job \in Jobs /\ visit \in Visits
  /\ pc = "idle" => job = NoJob
  /\ pc # "idle" => job.mode # "none" /\ job.pos \in Cities
  /\ pc = "next" => job.mode = "sweep"
  /\ pc \notin {"idle", "next"} => city \in Cities
Types ==
  /\ SourceTypes /\ CollectedTypes /\ BooksTypes /\ GraphTypes /\ PaidTypes
  /\ BoundsTypes /\ JobTypes

(* What the visit holds at each of its steps: the documents are of the city,  *)
(* and while one is worked on the ledger owes it and its run is durable.      *)
AtVisit ==
  /\ pc \in {"idle", "next", "baseline"} => visit = NoVisit
  /\ pc \in Visiting => visit.base \in Versions
  /\ visit.todo \subseteq DocsOf(city) /\ visit.got \subseteq DocsOf(city)
  /\ pc \notin {"recueil", "fetching"} => visit.closed = {} /\ visit.aside = {}
  /\ pc \in {"fetching"} \cup Working => visit.doc \in DocsOf(city)
  /\ pc \in Working => visit.doc \in Owed(ledger[city])
  /\ pc \in Extraction => visit.from \in Versions /\ run # NoRun
  /\ pc \in {"call", "store"} => run.stored < Chunks
  /\ pc \in Publishing => run.snap \in Versions
  /\ pc = "archive" => run.archive = Partial
(* A document is in no ledger but its own city's.                             *)
Homed ==
  \A c \in Cities, d \in Docs : ledger[c].state[d] # "none" => d \in DocsOf(c)
Places == Types /\ AtVisit /\ Homed

(* An unclosed attempt the store counts is one whose end it never learnt of,  *)
(* or the one whose end is still in memory.                                   *)
Counted ==
  /\ \A d \in Docs : attempts[d] <= lost[d] + (IF d \in Unsettled THEN 1 ELSE 0)
  /\ visit.todo \cap Unsettled = {}
  /\ \A d \in Docs : <<d, "interrupted">> \in visit.aside => lost[d] >= 2
  /\ SetAsideEarned

(* Only a document its source has published is collected or in a ledger, and  *)
(* a late one found its city primed.                                          *)
Listings ==
  /\ \A d \in visit.todo \cup visit.got : listed[d] # "unborn"
  /\ pc \in {"fetching"} \cup Working => listed[doc] # "unborn"
  /\ \A c \in Cities, d \in Docs :
       ledger[c].state[d] # "none" => listed[d] # "unborn"
  /\ \A d \in late : ledger[scenario.home[d]].primed \/ scenario.home[d] \in blind
  /\ NewDocuments

(* A reservation precedes its call, and the extraction runs on a document     *)
(* that was neither projected nor published as this baseline.                 *)
Payments ==
  /\ CallsReserved
  /\ pc = "call" => calls[doc][visit.from] < run.reserved
  /\ pc \in {"chunk", "call", "store"} => ~Known(doc) /\ OwnBytes(doc, visit.base) = {}

(* Versions are numbered before they are used, a candidate holds its baseline *)
(* and its document, and a city's graphs hold all that reached PostgreSQL,    *)
(* unless an older one was put back.                                          *)
Used == {v \in Versions : v < fresh}
ReachedOf(c) == reached \cap DocsOf(c)
Shows(c, v, S) == c \in restored \/ \A d \in S : v # NoVersion /\ d \in holds[v]
Numbered ==
  /\ \A c \in Cities :
       /\ canonical[c] \in Used \cup {NoVersion} /\ pg[c] \in Used \cup {NoVersion}
       /\ canonized[c] \subseteq Used
  /\ visit.base \in Used \cup {NoVersion} /\ visit.from \in Used \cup {NoVersion}
Traced ==
  \A d \in Docs, v \in Versions : runs[d][v] # NoRun =>
    /\ v \in Used /\ runs[d][v].snap \in Used \cup {NoVersion}
    /\ runs[d][v].snap # NoVersion => holds[v] \cup {d} \subseteq holds[runs[d][v].snap]
    /\ runs[d][v].projected = "completed" => d \in reached
Shown ==
  \A c \in Cities :
    Shows(c, canonical[c], ReachedOf(c)) /\ Shows(c, pg[c], ReachedOf(c))
(* What is published on the way is the baseline and the document, or the      *)
(* published bytes themselves.                                                *)
Carried ==
  /\ pc \in Extraction => visit.from = visit.base \/ run.snap = visit.base
  /\ pc \in {"receipt", "project"} =>
       /\ Shows(city, canonical[city], ReachedOf(city) \cup {doc})
       /\ Shows(city, run.snap, ReachedOf(city) \cup {doc})
  /\ pc \in {"projected", "cover", "known"} => doc \in reached
CoveredReached ==
  \A c \in Cities, d \in Docs : ledger[c].state[d] = "covered" => d \in reached
Contents == Numbered /\ Traced /\ Shown /\ Carried /\ CoveredReached

Core == Places /\ Counted /\ Listings /\ Payments /\ Contents /\ NothingDestroyed
-----------------------------------------------------------------------------
(* Who changes what.                                                          *)
LEMMA SourceFrame ==
  ASSUME Next
  PROVE  UNCHANGED source \/ \E d \in Docs : Publish(d) \/ Withdraw(d)
BY DEF Next, Step, Disturbance, source, StartSweep, EnterCity, StopSweep, ReadBaseline,
       ListIndex, SetAside, OpenAttempt, Fetched, CloseList, SaveGuard, PlanCoverage,
       MatchStates, Reserve, Call, Store, Candidate, BeginPublish, SealArchive, WritePlan,
       WriteCanonical, WriteReceipt, Project, MarkProjected, CoverDocument, FailDocument,
       HaltExtraction, Sigterm, Die, StoreThrows, BreakOff, StartCity, Edit, PutBack

\* The steps that write the journal, the guard or the manifests.
LEMMA CollectedFrame ==
  ASSUME Next
  PROVE  \/ UNCHANGED collected \/ \E d \in Docs : OpenAttempt(d)
         \/ CloseList \/ SaveGuard \/ Die
BY DEF Next, Step, Disturbance, collected, StartSweep, EnterCity, StopSweep, ReadBaseline,
       ListIndex, SetAside, Fetched, PlanCoverage,
       MatchStates, Reserve, Call, Store, Candidate, BeginPublish, SealArchive, WritePlan,
       WriteCanonical, WriteReceipt, Project, MarkProjected, CoverDocument, FailDocument,
       HaltExtraction, Sigterm, StoreThrows, BreakOff, StartCity, Edit, PutBack,
       Publish, Withdraw

\* The steps that write a coverage ledger.
LEMMA BooksFrame ==
  ASSUME Next
  PROVE  \/ UNCHANGED books \/ EnterCity \/ PlanCoverage \/ CoverDocument \/ FailDocument
BY DEF Next, Step, Disturbance, books, StartSweep, StopSweep, ReadBaseline,
       ListIndex, SetAside, OpenAttempt, Fetched, CloseList, SaveGuard,
       MatchStates, Reserve, Call, Store, Candidate, BeginPublish, SealArchive, WritePlan,
       WriteCanonical, WriteReceipt, Project, MarkProjected,
       HaltExtraction, Sigterm, Die, StoreThrows, BreakOff, StartCity, Edit, PutBack,
       Publish, Withdraw

\* The steps that write a graph or its projection.
LEMMA GraphFrame ==
  ASSUME Next
  PROVE  \/ UNCHANGED graphs \/ Candidate \/ WriteCanonical \/ Project
         \/ \E c \in Cities : Edit(c) \/ \E v \in Versions : PutBack(c, v)
BY DEF Next, Step, Disturbance, graphs, StartSweep, EnterCity, StopSweep, ReadBaseline,
       ListIndex, SetAside, OpenAttempt, Fetched, CloseList, SaveGuard, PlanCoverage,
       MatchStates, Reserve, Call, Store, BeginPublish, SealArchive, WritePlan,
       WriteReceipt, MarkProjected, CoverDocument, FailDocument,
       HaltExtraction, Sigterm, Die, StoreThrows, BreakOff, StartCity,
       Publish, Withdraw

(* The durable runs and the calls change in the extraction only.              *)
Durable ==
  \/ MatchStates \/ Reserve \/ Call \/ Store \/ Candidate \/ BeginPublish \/ SealArchive
  \/ WritePlan \/ WriteReceipt \/ Project \/ MarkProjected
\* The steps that write a run state or send a call.
LEMMA PaidFrame ==
  ASSUME Next
  PROVE  UNCHANGED paid \/ Durable
BY DEF Next, Step, Disturbance, paid, Durable, StartSweep, EnterCity, StopSweep, ReadBaseline,
       ListIndex, SetAside, OpenAttempt, Fetched, CloseList, SaveGuard, PlanCoverage,
       WriteCanonical, CoverDocument, FailDocument,
       HaltExtraction, Sigterm, Die, StoreThrows, BreakOff, StartCity, Edit, PutBack,
       Publish, Withdraw
-----------------------------------------------------------------------------
(* The ledger.                                                                *)

(* A finite set of numbers that is not empty has a greatest element.          *)
LEMMA Greatest ==
  ASSUME NEW S, IsFiniteSet(S), S \subseteq Nat
  PROVE  \A T \in SUBSET S : T # {} => \E m \in T : \A n \in T : m >= n
<1> DEFINE C == {T \in SUBSET S : T # {} => \E m \in T : \A n \in T : m >= n}
<1>1. {} \in C
  OBVIOUS
<1>2. ASSUME NEW T \in SUBSET S, NEW x \in S \ T, T \in C PROVE T \cup {x} \in C
  <2>1. CASE T = {}
    BY <2>1
  <2>2. CASE T # {}
    <3>1. PICK m \in T : \A n \in T : m >= n
      BY <1>2, <2>2
    <3>2. CASE x >= m
      BY <3>1, <3>2
    <3>3. CASE ~(x >= m)
      BY <3>1, <3>3
    <3> QED BY <3>2, <3>3
  <2> QED BY <2>1, <2>2
<1> HIDE DEF C
<1>3. \A T \in SUBSET S : T \in C
  BY <1>1, <1>2, SetInduct
<1> QED
  BY <1>3 DEF C

\* The ledger of a city never visited is one.
LEMMA EmptyLedgerType == EmptyLedger \in Ledgers
BY LedgerAssumption DEF EmptyLedger, Ledgers, EntryStates

(* What folding a visit in does: no document leaves the ledger, no failure is *)
(* counted, and a document that enters it is primed or owed.                  *)
LEMMA PlanFacts ==
  ASSUME NEW l \in Ledgers, NEW got \in SUBSET Docs, NEW prime \in BOOLEAN
  PROVE  LET p == Plan(l, got, prime)
         IN /\ p \in Ledgers /\ p.primed = (l.primed \/ prime) /\ p.failures = l.failures
            /\ \A d \in Docs :
                 \/ p.state[d] = l.state[d]
                 \/ /\ d \in got /\ l.state[d] = "none"
                    /\ p.state[d] = IF prime /\ ~l.primed THEN "primed" ELSE "pending"
<1> DEFINE st == [d \in Docs |->
               IF d \in got /\ l.state[d] = "none"
               THEN IF prime /\ ~l.primed THEN "primed" ELSE "pending"
               ELSE l.state[d]]
           r == [primed |-> l.primed \/ prime, state |-> st, failures |-> l.failures]
<1>1. l = [primed |-> l.primed, state |-> l.state, failures |-> l.failures]
      /\ l.primed \in BOOLEAN /\ l.state \in [Docs -> EntryStates]
      /\ l.failures \in [Docs -> 0..MaxFailures]
  BY DEF Ledgers
<1>2. Plan(l, got, prime) = r
  <2>1. Plan(l, got, prime) = [l EXCEPT !.primed = l.primed \/ prime, !.state = st]
    BY DEF Plan, Ledgers
  <2> HIDE DEF st
  <2>2. PICK p \in BOOLEAN : p = (l.primed \/ prime)
    OBVIOUS
  <2>3. [l EXCEPT !.primed = p, !.state = st]
        = [primed |-> p, state |-> st, failures |-> l.failures]
    <3> DEFINE l1 == [l EXCEPT !.primed = p]
    <3>1. l1 = [primed |-> p, state |-> l.state, failures |-> l.failures]
      BY DEF Ledgers
    <3>2. [l EXCEPT !.primed = p, !.state = st] = [l1 EXCEPT !.state = st]
      BY Zenon
    <3> HIDE DEF l1
    <3> QED BY <3>1, <3>2
  <2> QED BY <2>1, <2>2, <2>3
<1>3. st \in [Docs -> EntryStates]
  BY <1>1 DEF EntryStates
<1>4. r \in Ledgers
  BY <1>1, <1>3 DEF Ledgers
<1> QED
  BY <1>2, <1>4

(* The document chosen is one the ledger owes.                                *)
LEMMA FirstOwed ==
  ASSUME NEW l, Owed(l) # {}, NEW got
  PROVE  First(l, got) \in Owed(l)
<1> DEFINE here == Owed(l) \cap got
           queue == IF here # {} THEN here ELSE Owed(l)
<1>1. queue \subseteq Owed(l) /\ queue # {} /\ queue \in SUBSET Docs
  BY DEF Owed
<1>2. \E m \in queue : \A n \in queue : m >= n
  BY <1>1, Greatest, LedgerAssumption
<1>3. First(l, got) = CHOOSE d \in queue : \A e \in queue : d >= e
  BY DEF First
<1> HIDE DEF queue
<1> QED
  BY <1>1, <1>2, <1>3

\* Covering a document changes its state and no other.
LEMMA CoverFacts ==
  ASSUME NEW l \in Ledgers, NEW d \in Docs
  PROVE  /\ Cover(l, d) \in Ledgers /\ Cover(l, d).primed = l.primed
         /\ Cover(l, d).failures = l.failures
         /\ \A e \in Docs : Cover(l, d).state[e] = IF e = d THEN "covered" ELSE l.state[e]
<1> DEFINE r == [primed |-> l.primed, state |-> [l.state EXCEPT ![d] = "covered"],
                 failures |-> l.failures]
<1>1. l.primed \in BOOLEAN /\ l.state \in [Docs -> EntryStates]
      /\ l.failures \in [Docs -> 0..MaxFailures]
  BY DEF Ledgers
<1>2. Cover(l, d) = r
  BY DEF Cover, Ledgers
<1>3. r.state \in [Docs -> EntryStates]
  BY <1>1 DEF EntryStates
<1>4. r \in Ledgers
  BY <1>1, <1>3 DEF Ledgers
<1> QED
  BY <1>1, <1>2, <1>4

\* A failure leaves an owed document pending or abandoned, and no other changed.
LEMMA FailFacts ==
  ASSUME NEW l \in Ledgers, NEW d \in Owed(l)
  PROVE  /\ Fail(l, d) \in Ledgers /\ Fail(l, d).primed = l.primed
         /\ Fail(l, d).state[d] \in {"pending", "abandoned"}
         /\ \A e \in Docs \ {d} : Fail(l, d).state[e] = l.state[e]
<1> DEFINE n == l.failures[d] + 1
           s == IF n >= MaxFailures THEN "abandoned" ELSE "pending"
           r == [primed |-> l.primed, state |-> [l.state EXCEPT ![d] = s],
                 failures |-> [l.failures EXCEPT ![d] = n]]
<1>1. l.primed \in BOOLEAN /\ l.state \in [Docs -> EntryStates]
      /\ l.failures \in [Docs -> 0..MaxFailures] /\ d \in Docs
      /\ l.failures[d] < MaxFailures
  BY DEF Ledgers, Owed
<1>2. n \in 0..MaxFailures
  BY <1>1, LedgerAssumption
<1>3. Fail(l, d) = r
  <2>1. Fail(l, d) = [l EXCEPT !.state[d] = s, !.failures = [l.failures EXCEPT ![d] = n]]
    BY DEF Fail, Ledgers
  <2> HIDE DEF s, n
  <2>2. [l EXCEPT !.state[d] = s, !.failures = [l.failures EXCEPT ![d] = n]] = r
    <3> DEFINE l1 == [l EXCEPT !.state[d] = s]
    <3>1. l1 = [primed |-> l.primed, state |-> [l.state EXCEPT ![d] = s],
                failures |-> l.failures]
      BY DEF Ledgers
    <3>2. [l EXCEPT !.state[d] = s, !.failures = [l.failures EXCEPT ![d] = n]]
          = [l1 EXCEPT !.failures = [l.failures EXCEPT ![d] = n]]
      BY Zenon
    <3> HIDE DEF l1
    <3> QED BY <3>1, <3>2
  <2> QED BY <2>1, <2>2
<1>4. r.state \in [Docs -> EntryStates] /\ r.failures \in [Docs -> 0..MaxFailures]
  BY <1>1, <1>2 DEF EntryStates
<1> HIDE DEF n
<1>5. r \in Ledgers
  BY <1>1, <1>4 DEF Ledgers
<1> QED
  BY <1>1, <1>3, <1>5
-----------------------------------------------------------------------------
(* The records of the state: a field set to a value of its type.              *)
LEMMA RunSet ==
  ASSUME NEW r \in Runs
  PROVE  /\ \A n \in 0..Budget : [r EXCEPT !.reserved = n] \in Runs
         /\ \A n \in 0..Chunks : [r EXCEPT !.stored = n] \in Runs
         /\ \A v \in Versions : [r EXCEPT !.snap = v] \in Runs
         /\ \A v \in Versions \cup {NoVersion, Partial} : [r EXCEPT !.archive = v] \in Runs
         /\ [r EXCEPT !.plan = TRUE] \in Runs
         /\ [r EXCEPT !.published = TRUE] \in Runs
         /\ \A p \in {"failed", "completed"} : [r EXCEPT !.projected = p] \in Runs
<1>1. \A n \in 0..Budget : [r EXCEPT !.reserved = n] \in Runs
  BY DEF Runs
<1>2. \A n \in 0..Chunks : [r EXCEPT !.stored = n] \in Runs
  BY DEF Runs
<1>3. \A v \in Versions : [r EXCEPT !.snap = v] \in Runs
  BY DEF Runs
<1>4. \A v \in Versions \cup {NoVersion, Partial} : [r EXCEPT !.archive = v] \in Runs
  BY DEF Runs
<1>5. [r EXCEPT !.plan = TRUE] \in Runs
  BY DEF Runs
<1>6. [r EXCEPT !.published = TRUE] \in Runs
  BY DEF Runs
<1>7. \A p \in {"failed", "completed"} : [r EXCEPT !.projected = p] \in Runs
  BY DEF Runs
<1> QED
  BY <1>1, <1>2, <1>3, <1>4, <1>5, <1>6, <1>7

\* The state of a run that begins is one.
LEMMA NewRunType == NewRun \in Runs
BY BoundsAssumption DEF NewRun, Runs

(* A write of the document's run is a write of that one.                      *)
LEMMA RunWritten ==
  ASSUME PaidTypes, doc \in Docs, visit.from \in Versions, NEW r \in Runs, UpdateRun(r)
  PROVE  /\ runs' \in [Docs -> [Versions -> Runs \cup {NoRun}]]
         /\ runs'[doc][visit.from] = r
         /\ \A d \in Docs, v \in Versions :
              <<d, v>> # <<doc, visit.from>> => runs'[d][v] = runs[d][v]
BY DEF PaidTypes, UpdateRun

\* The memory of the job, whatever is assigned of it.
LEMMA JobSet ==
  ASSUME NEW j \in Jobs
  PROVE  /\ [j EXCEPT !.stopping = TRUE] \in Jobs /\ [j EXCEPT !.extract = FALSE] \in Jobs
         /\ \A c, n \in Cities, k \in Nat :
              [j EXCEPT !.at = c, !.pos = n, !.left = k] \in Jobs
<1>1. [j EXCEPT !.stopping = TRUE] \in Jobs
  BY DEF Jobs
<1>2. [j EXCEPT !.extract = FALSE] \in Jobs
  BY DEF Jobs
<1>3. ASSUME NEW c \in Cities, NEW n \in Cities, NEW k \in Nat
      PROVE  [j EXCEPT !.at = c, !.pos = n, !.left = k] \in Jobs
  BY DEF Jobs
<1> QED
  BY <1>1, <1>2, <1>3

\* So is an empty memory.
LEMMA NoneTyped == NoJob \in Jobs /\ NoVisit \in Visits
BY DEF NoJob, NoVisit, Jobs, Visits

(* A visit that ends leaves nothing behind in memory.                         *)
LEMMA LeaveTypes ==
  ASSUME JobTypes, pc # "idle", Leave
  PROVE  JobTypes'
<1>1. CASE job.mode = "sweep"
  BY <1>1, NoneTyped DEF JobTypes, Leave, Labels
<1>2. CASE job.mode # "sweep"
  BY <1>2, NoneTyped DEF JobTypes, Leave, Labels
<1> QED
  BY <1>1, <1>2
\* Between visits nothing is in memory.
LEMMA LeavePlaces ==
  ASSUME Leave
  PROVE  AtVisit'
BY DEF Leave, AtVisit, NoVisit, Visiting, Working, Extraction, Publishing
\* A visit that goes on keeps the types of the memory.
LEMMA GoTypes ==
  ASSUME JobTypes, pc \notin {"idle", "next"},
         NEW label \in Visiting, pc' = label, job' = job, visit' \in Visits
  PROVE  JobTypes'
BY DEF JobTypes, Labels, Visiting, Working, Extraction, city
\* A step of another actor keeps them.
LEMMA StayTypes ==
  ASSUME JobTypes, UNCHANGED <<pc, job, visit>>
  PROVE  JobTypes'
BY DEF JobTypes, city
\* A run resumed from another baseline does.
LEMMA ResumeTypes ==
  ASSUME JobTypes, NEW v \in Versions, visit' = [visit EXCEPT !.from = v]
  PROVE  visit' \in Visits
BY DEF JobTypes, Visits

(* The job and the visit in memory keep their types, the books those of the   *)
(* sweep.                                                                     *)
LEMMA SweepTypes ==
  ASSUME Types, AtVisit,
         \/ StartSweep \/ EnterCity \/ StopSweep \/ HaltExtraction \/ Sigterm \/ Die
         \/ \E c \in Cities : StartCity(c)
  PROVE  JobTypes'
<1> USE DEF Types
<1>1. CASE StartSweep
  <2>1. job' \in Jobs
    BY <1>1, CitiesAssumption, FS_CardinalityType DEF StartSweep, BooksTypes, Jobs
  <2> QED BY <1>1, <2>1 DEF StartSweep, BooksTypes, JobTypes, Labels
<1>2. CASE EnterCity
  <2>1. job.left - 1 \in Nat /\ job.pos \in Cities /\ Succ[job.pos] \in Cities /\ job \in Jobs
    BY <1>2, CitiesAssumption DEF EnterCity, JobTypes, Jobs
  <2>2. job' = [job EXCEPT !.at = job.pos, !.pos = Succ[job.pos], !.left = job.left - 1]
    BY <1>2 DEF EnterCity
  <2>3. job' \in Jobs
    BY <2>1, <2>2, JobSet
  <2>4. job'.at \in Cities /\ job'.pos \in Cities /\ job'.mode = job.mode
    BY <2>1, <2>2 DEF Jobs
  <2> QED BY <1>2, <2>3, <2>4 DEF EnterCity, JobTypes, Labels, city
<1>3. CASE StopSweep
  BY <1>3, NoneTyped DEF StopSweep, JobTypes, Labels
<1>4. CASE HaltExtraction
  <2>1. job \in Jobs /\ job' = [job EXCEPT !.extract = FALSE] /\ pc = "next"
    BY <1>4 DEF HaltExtraction, JobTypes
  <2>2. job' \in Jobs /\ job'.mode = job.mode /\ job'.pos = job.pos
    BY <2>1, JobSet DEF Jobs
  <2> QED BY <1>4, <2>1, <2>2 DEF HaltExtraction, JobTypes
<1>5. CASE Sigterm
  <2>1. job \in Jobs /\ job' = [job EXCEPT !.stopping = TRUE] /\ pc # "idle"
    BY <1>5 DEF Sigterm, JobTypes
  <2>2. job' \in Jobs /\ job'.mode = job.mode /\ job'.pos = job.pos /\ job'.at = job.at
    BY <2>1, JobSet DEF Jobs
  <2> QED BY <1>5, <2>1, <2>2 DEF Sigterm, JobTypes, city
<1>6. CASE Die
  BY <1>6, NoneTyped DEF Die, JobTypes, Labels
<1>7. CASE \E c \in Cities : StartCity(c)
  <2>1. PICK c \in Cities : StartCity(c)
    BY <1>7
  <2>2. job' \in Jobs /\ job'.mode = "city" /\ job'.at = c /\ job'.pos = c
    BY <2>1 DEF StartCity, Jobs
  <2>3. pc' = "baseline" /\ visit' = visit
    BY <2>1 DEF StartCity
  <2> QED BY <2>2, <2>3 DEF JobTypes, Labels, city
<1> QED
  BY <1>1, <1>2, <1>3, <1>4, <1>5, <1>6, <1>7

\* The steps of the acquisition keep them.
LEMMA AcquisitionTypes ==
  ASSUME Types, AtVisit,
         \/ ReadBaseline \/ ListIndex \/ (\E d \in Docs : SetAside(d) \/ OpenAttempt(d))
         \/ Fetched \/ CloseList \/ SaveGuard \/ PlanCoverage \/ StoreThrows
  PROVE  JobTypes'
<1> USE DEF Types
<1>0. visit \in Visits /\ Visits = Visits'
  BY DEF JobTypes, Visits
<1>a. {"index", "recueil", "fetching", "guard", "ledger", "states"} \subseteq Visiting
  BY DEF Visiting, Working
<1>1. CASE ReadBaseline
  <2>1. CASE Leave
    BY <1>1, <2>1, LeaveTypes DEF ReadBaseline
  <2>2. CASE ~Leave
    <3>1. pc = "baseline" /\ pc' = "index" /\ job' = job /\ city \in Cities
          /\ visit' = [visit EXCEPT !.base = canonical[city]]
      BY <1>1, <2>2 DEF ReadBaseline, JobTypes
    <3>2. visit' \in Visits
      BY <1>0, <3>1 DEF Visits, GraphTypes
    <3> QED BY <1>a, <3>1, <3>2, GoTypes
  <2> QED BY <2>1, <2>2
<1>2. CASE ListIndex
  <2>1. CASE Leave
    BY <1>2, <2>1, LeaveTypes DEF ListIndex
  <2>2. CASE ~Leave
    <3>1. PICK offered \in SUBSET Docs :
            visit' = [visit EXCEPT !.todo = offered \ guard,
                                   !.known = (offered \cap guard # {})]
      BY <1>2, <2>2 DEF ListIndex, DocsOf
    <3>2. pc = "index" /\ pc' = "recueil" /\ job' = job
      BY <1>2, <2>2 DEF ListIndex
    <3>3. visit' \in Visits
      BY <1>0, <3>1 DEF Visits
    <3> QED BY <1>a, <3>2, <3>3, GoTypes
  <2> QED BY <2>1, <2>2
<1>3. ASSUME NEW d \in Docs, SetAside(d) PROVE JobTypes'
  <2>1. visit' \in Visits
    <3>1. PICK a \in SUBSET Marks : visit' = [visit EXCEPT !.todo = visit.todo \ {d},
                                                         !.aside = a]
      <4> DEFINE a == IF Interrupted(d)
                      THEN visit.aside \cup {<<d, "interrupted">>} ELSE visit.aside
      <4>1. visit' = [visit EXCEPT !.todo = visit.todo \ {d}, !.aside = a]
        BY <1>0, <1>3 DEF SetAside, Visits
      <4>2. a \in SUBSET Marks
        BY <1>0, <1>3 DEF Visits, Marks
      <4> HIDE DEF a
      <4> QED BY <4>1, <4>2
    <3> QED BY <1>0, <3>1 DEF Visits
  <2> QED BY <1>a, <1>3, <2>1, GoTypes DEF SetAside
<1>4. ASSUME NEW d \in Docs, OpenAttempt(d) PROVE JobTypes'
  <2>1. visit' \in Visits
    BY <1>0, <1>4 DEF OpenAttempt, Visits
  <2> QED BY <1>a, <1>4, <2>1, GoTypes DEF OpenAttempt
<1>5. CASE Fetched
  <2>1. doc \in Docs /\ pc = "fetching" /\ pc' = "recueil" /\ job' = job
    BY <1>5 DEF Fetched, AtVisit, DocsOf, doc
  <2>2. visit' \in Visits
    <3>1. <<doc, "oversize">> \in Marks
      BY <2>1 DEF Marks
    <3> HIDE DEF doc
    <3>2. Collected \in Visits
      BY <1>0, <2>1 DEF Collected, Visits
    <3>3. Refused \in Visits
      BY <1>0, <2>1 DEF Refused, Visits
    <3>4. Oversize \in Visits
      BY <1>0, <2>1, <3>1 DEF Oversize, Visits
    <3> QED BY <1>5, <3>2, <3>3, <3>4 DEF Fetched
  <2> QED BY <1>a, <2>1, <2>2, GoTypes
<1>6. CASE CloseList
  <2>1. pc = "recueil" /\ (Leave \/ Listed)
    BY <1>6 DEF CloseList
  <2>2. CASE Leave
    BY <2>1, <2>2, LeaveTypes
  <2>3. CASE ~Leave
    <3>1. pc' = "guard" /\ job' = job
      BY <2>1, <2>3 DEF Listed
    <3>2. visit' \in Visits
      BY <1>0, <2>1, <2>3 DEF Listed, Visits
    <3> QED BY <1>a, <2>1, <3>1, <3>2, GoTypes
  <2> QED BY <2>2, <2>3
<1>7. CASE SaveGuard
  <2>1. CASE Leave
    BY <1>7, <2>1, LeaveTypes DEF SaveGuard
  <2>2. CASE ~Leave
    BY <1>0, <1>a, <1>7, <2>2, GoTypes DEF SaveGuard, Go
  <2> QED BY <2>1, <2>2
<1>8. CASE PlanCoverage
  <2>1. CASE Leave
    BY <1>8, <2>1, LeaveTypes DEF PlanCoverage
  <2>2. CASE ~Leave
    <3>1. PICK l : /\ pc = "ledger" /\ pc' = "states" /\ job' = job /\ Owed(l) # {}
                   /\ visit' = [visit EXCEPT !.doc = First(l, visit.got), !.got = {}]
      BY <1>8, <2>2 DEF PlanCoverage
    <3>2. First(l, visit.got) \in Docs
      BY <3>1, FirstOwed DEF Owed
    <3>3. visit' \in Visits
      BY <1>0, <3>1, <3>2 DEF Visits
    <3> QED BY <1>a, <3>1, <3>3, GoTypes
  <2> QED BY <2>1, <2>2
<1>9. CASE StoreThrows
  BY <1>9, LeaveTypes DEF StoreThrows
<1> QED
  BY <1>1, <1>2, <1>3, <1>4, <1>5, <1>6, <1>7, <1>8, <1>9
\* The steps of the extraction and the publication keep them.
LEMMA ExtractionTypes ==
  ASSUME Types, AtVisit,
         \/ Durable \/ BreakOff \/ WriteCanonical \/ CoverDocument \/ FailDocument
  PROVE  JobTypes'
<1> USE DEF Types
<1>0. visit \in Visits /\ Visits = Visits'
  BY DEF JobTypes, Visits
<1>a. Working \cup Extraction \subseteq Visiting
  BY DEF Visiting, Working
<1>b. {"failing", "known"} \subseteq Working /\ Extraction \subseteq Working
  BY DEF Working
<1>c. {"chunk", "call", "store", "publish", "archive", "plan",
       "write", "receipt", "project", "projected", "cover"} = Extraction
  BY DEF Extraction
<1>1. CASE CoverDocument \/ FailDocument
  BY <1>1, LeaveTypes DEF CoverDocument, FailDocument
<1>2. CASE MatchStates
  <2>0. pc = "states" /\ doc \in Docs
    BY <1>2 DEF MatchStates, AtVisit, Working, DocsOf, doc
  <2>1. CASE Go("known")
    BY <1>0, <1>a, <1>b, <2>0, <2>1, GoTypes DEF Go
  <2>2. ASSUME NEW v, v \in OwnBytes(doc, visit.base) \cup {visit.base},
               NEW label \in {"chunk", "publish"}, Resume(v, label)
        PROVE JobTypes'
    <3>1. v \in Versions
      BY <1>2, <2>2 DEF OwnBytes, MatchStates, AtVisit, Visiting, Working
    <3>2. visit' \in Visits
      BY <2>2, <3>1, ResumeTypes DEF Resume
    <3>3. pc' = label /\ job' = job /\ label \in Visiting
      BY <1>a, <1>c, <2>2 DEF Resume
    <3> QED BY <2>0, <3>2, <3>3, GoTypes
  <2>3. CASE ~Known(doc) /\ Resumable(doc, visit.base) # {}
    <3>1. (CHOOSE v \in Resumable(doc, visit.base) : TRUE) \in OwnBytes(doc, visit.base)
      BY <2>3 DEF Resumable
    <3> QED BY <1>2, <2>2, <2>3, <3>1 DEF MatchStates
  <2>4. CASE ~Known(doc) /\ Resumable(doc, visit.base) = {}
    BY <1>2, <2>2, <2>4 DEF MatchStates
  <2> QED BY <1>2, <2>1, <2>3, <2>4 DEF MatchStates
<1>3. CASE /\ Reserve \/ Call \/ Store \/ Candidate \/ SealArchive \/ WritePlan
              \/ WriteCanonical \/ WriteReceipt \/ Project \/ MarkProjected \/ BreakOff
  <2>1. pc \in Extraction /\ job' = job /\ visit' = visit
    BY <1>3, <1>c DEF Reserve, Call, Store, Candidate, SealArchive, WritePlan, WriteCanonical,
          WriteReceipt, Project, MarkProjected, BreakOff, Advance, Break, Go, ProjectionFails
  <2>2. pc' \in Extraction \cup {"failing"}
    BY <1>3, <1>c DEF Reserve, Call, Store, Candidate, SealArchive, WritePlan, WriteCanonical,
          WriteReceipt, Project, MarkProjected, BreakOff, Advance, Break, Go, ProjectionFails
  <2>3. pc \notin {"idle", "next"}
    BY <2>1 DEF Extraction
  <2> QED BY <1>0, <1>a, <1>b, <2>1, <2>2, <2>3, GoTypes
<1>4. CASE BeginPublish
  <2>1. visit' \in Visits
    <3>1. canonical[city] \in Versions \cup {NoVersion}
      BY <1>4 DEF BeginPublish, GraphTypes, JobTypes
    <3>2. \/ visit' = visit \/ visit' = [visit EXCEPT !.resume = TRUE]
          \/ visit' = [visit EXCEPT !.copied = canonical[city]]
      BY <1>4 DEF BeginPublish, Break, Advance, Go
    <3> QED BY <1>0, <3>1, <3>2 DEF Visits
  <2>2. pc = "publish" /\ job' = job /\ pc' \in {"failing", "write", "archive"}
    BY <1>4 DEF BeginPublish, Break, Advance, Go
  <2> QED BY <1>a, <1>b, <1>c, <2>1, <2>2, GoTypes
<1> QED
  BY <1>1, <1>2, <1>3, <1>4 DEF Durable

\* Every step keeps them.
LEMMA JobTypesStep ==
  ASSUME Types, AtVisit, Next
  PROVE  JobTypes'
<1>1. CASE \/ (\E d \in Docs : Publish(d) \/ Withdraw(d))
           \/ \E c \in Cities : Edit(c) \/ \E v \in Versions : PutBack(c, v)
  BY <1>1, StayTypes DEF Types, Publish, Withdraw, Edit, PutBack
<1> QED
  BY <1>1, SweepTypes, AcquisitionTypes, ExtractionTypes DEF Next, Step, Disturbance, Durable
-----------------------------------------------------------------------------
(* What is durable keeps its types.                                           *)
LEMMA SourceTypesStep ==
  ASSUME Types, Next
  PROVE  SourceTypes'
<1>1. CASE UNCHANGED source
  BY <1>1 DEF source, Types, SourceTypes
<1>2. CASE \E d \in Docs : Publish(d) \/ Withdraw(d)
  <2>1. PICK d \in Docs : Publish(d) \/ Withdraw(d)
    BY <1>2
  <2> QED BY <2>1 DEF Types, SourceTypes, Publish, Withdraw
<1> QED
  BY <1>1, <1>2, SourceFrame

\* An end the journal does not learn of counts against the attempts left open.
LEMMA DropTypes ==
  ASSUME CollectedTypes, Drop
  PROVE  lost' \in [Docs -> 0..2] /\ \A d \in Docs :
           lost'[d] = IF d \in Unsettled /\ lost[d] < 2 THEN lost[d] + 1 ELSE lost[d]
BY DEF CollectedTypes, Drop

\* What a journal line says of attempts: settled ones are forgotten, opened ones count.
LEMMA JournalTypes ==
  ASSUME CollectedTypes, visit \in Visits, NEW opened,
         \A d \in opened \cap Docs : attempts[d] < 2, WriteJournal(opened)
  PROVE  /\ attempts' \in [Docs -> 0..2]
         /\ deferred' \in [Docs -> {"no", "interrupted", "oversize"}]
         /\ \A d \in Docs : attempts'[d] = IF d \in Settled THEN 0
                                           ELSE IF d \in opened THEN attempts[d] + 1
                                           ELSE attempts[d]
         /\ \A d \in Docs : deferred'[d] = deferred[d] \/ <<d, deferred'[d]>> \in visit.aside
<1>1. attempts' \in [Docs -> 0..2]
  BY DEF CollectedTypes, WriteJournal
<1>2. ASSUME NEW d \in Docs, \E mark \in visit.aside : mark[1] = d
      PROVE  /\ deferred'[d] \in {"interrupted", "oversize"}
             /\ <<d, deferred'[d]>> \in visit.aside
  <2>1. PICK mark : mark = CHOOSE m \in visit.aside : m[1] = d
    OBVIOUS
  <2>2. mark \in visit.aside /\ mark[1] = d
    BY <1>2, <2>1
  <2>3. mark \in Docs \X {"interrupted", "oversize"}
    BY <2>2 DEF Visits, Marks
  <2>4. deferred'[d] = mark[2]
    BY <1>2, <2>1 DEF WriteJournal
  <2>5. mark = <<d, mark[2]>> /\ mark[2] \in {"interrupted", "oversize"}
    BY <2>2, <2>3
  <2> QED BY <2>2, <2>4, <2>5
<1>3. ASSUME NEW d \in Docs, ~\E mark \in visit.aside : mark[1] = d
      PROVE  deferred'[d] = deferred[d]
  BY <1>3 DEF WriteJournal
<1>4. \E f : deferred' = [d \in Docs |-> f[d]]
  <2>1. deferred' = [d \in Docs |-> deferred'[d]]
    BY DEF WriteJournal
  <2> QED BY <2>1
<1>5. deferred' \in [Docs -> {"no", "interrupted", "oversize"}]
  BY <1>2, <1>3, <1>4 DEF CollectedTypes
<1>6. \A d \in Docs : attempts'[d] = IF d \in Settled THEN 0
                                     ELSE IF d \in opened THEN attempts[d] + 1
                                     ELSE attempts[d]
  BY DEF WriteJournal
<1> QED
  BY <1>1, <1>2, <1>3, <1>5, <1>6

\* Every step keeps the types of what the acquisition stores.
LEMMA CollectedTypesStep ==
  ASSUME Types, Next
  PROVE  CollectedTypes'
<1> USE DEF Types
<1>0. visit \in Visits
  BY DEF JobTypes
<1>1. CASE UNCHANGED collected
  BY <1>1 DEF collected, CollectedTypes
<1>2. ASSUME NEW d \in Docs, OpenAttempt(d) PROVE CollectedTypes'
  <2>1. CASE WriteJournal({d})
    <3>1. attempts[d] < 2
      BY <1>2 DEF OpenAttempt, Interrupted, CollectedTypes
    <3>2. attempts' \in [Docs -> 0..2] /\ deferred' \in [Docs -> {"no", "interrupted", "oversize"}]
      BY <1>0, <2>1, <3>1, JournalTypes
    <3> QED BY <1>2, <3>2 DEF OpenAttempt, CollectedTypes
  <2>2. CASE UNCHANGED <<attempts, deferred>>
    BY <1>2, <2>2 DEF OpenAttempt, CollectedTypes
  <2> QED BY <1>2, <2>1, <2>2 DEF OpenAttempt
<1>3. CASE CloseList
  <2>1. CASE WriteJournal({}) /\ UNCHANGED lost
    <3>1. attempts' \in [Docs -> 0..2] /\ deferred' \in [Docs -> {"no", "interrupted", "oversize"}]
      BY <1>0, <2>1, JournalTypes
    <3> QED BY <1>3, <2>1, <3>1 DEF CloseList, CollectedTypes
  <2>2. CASE Drop /\ UNCHANGED <<attempts, deferred>>
    BY <1>3, <2>2, DropTypes DEF CloseList, CollectedTypes
  <2> QED BY <1>3, <2>1, <2>2 DEF CloseList
<1>4. CASE SaveGuard
  BY <1>0, <1>4 DEF SaveGuard, CollectedTypes, Visits
<1>5. CASE Die
  BY <1>5, DropTypes DEF Die, CollectedTypes
<1> QED
  BY <1>1, <1>2, <1>3, <1>4, <1>5, CollectedFrame

\* Every step keeps those of the ledgers.
LEMMA BooksTypesStep ==
  ASSUME Types, AtVisit, Next
  PROVE  BooksTypes'
<1> USE DEF Types
<1>1. CASE UNCHANGED books
  BY <1>1 DEF books, BooksTypes
<1>2. CASE EnterCity
  <2>1. Succ[job.pos] \in Cities
    BY <1>2, CitiesAssumption DEF EnterCity, JobTypes
  <2> QED BY <1>2, <2>1 DEF EnterCity, Move, BooksTypes
<1>3. CASE PlanCoverage
  <2>0. city \in Cities /\ visit \in Visits /\ visit.got \in SUBSET Docs
    BY <1>3 DEF PlanCoverage, JobTypes, Visits
  <2>1. PICK l0 \in Ledgers : ledger' = ledger \/ ledger' =
                  [ledger EXCEPT ![city] = Plan(l0, visit.got, job.mode = "sweep")]
    BY <1>3, <2>0, EmptyLedgerType DEF PlanCoverage, BooksTypes
  <2>2. Plan(l0, visit.got, job.mode = "sweep") \in Ledgers
    BY <2>0, PlanFacts
  <2>3. blind' \subseteq Cities /\ cursor' = cursor
    BY <1>3, <2>0 DEF PlanCoverage, BooksTypes
  <2> QED BY <2>0, <2>1, <2>2, <2>3 DEF BooksTypes
<1>4. CASE CoverDocument \/ FailDocument
  <2>0. city \in Cities /\ doc \in Docs /\ doc \in Owed(ledger[city])
    BY <1>4 DEF CoverDocument, FailDocument, JobTypes, AtVisit, Working, Extraction, Owed, doc
  <2>1. ledger[city] \in Ledgers
    BY <2>0 DEF BooksTypes
  <2>2. Cover(ledger[city], doc) \in Ledgers /\ Fail(ledger[city], doc) \in Ledgers
    BY <2>0, <2>1, CoverFacts, FailFacts
  <2> QED BY <1>4, <2>0, <2>2 DEF CoverDocument, FailDocument, BooksTypes
<1> QED
  BY <1>1, <1>2, <1>3, <1>4, BooksFrame
\* Every step keeps those of graphs and projections.
LEMMA GraphTypesStep ==
  ASSUME Types, AtVisit, Next
  PROVE  GraphTypes'
<1> USE DEF Types
<1>1. CASE UNCHANGED graphs
  BY <1>1 DEF graphs, GraphTypes
<1>2. CASE Candidate
  <2>0. doc \in Docs /\ visit.from \in Versions
    BY <1>2 DEF Candidate, AtVisit, Working, Extraction, DocsOf, doc
  <2>1. CASE UNCHANGED <<holds, fresh>>
    BY <1>2, <2>1 DEF Candidate, GraphTypes
  <2>2. CASE ~UNCHANGED <<holds, fresh>>
    <3>1. fresh \in Versions /\ fresh' = fresh + 1 /\ fresh' \in 0..MaxVersion + 1
      BY <1>2, <2>2, BoundsAssumption DEF Candidate, GraphTypes, Versions
    <3>2. Merged(visit.from) \in SUBSET Docs
      BY <2>0 DEF Merged, GraphTypes
    <3>3. holds' = [holds EXCEPT ![fresh] = Merged(visit.from)]
      BY <1>2, <2>2 DEF Candidate
    <3>4. holds' \in [Versions -> SUBSET Docs]
      BY <3>1, <3>2, <3>3 DEF GraphTypes
    <3> QED BY <1>2, <3>1, <3>4 DEF Candidate, GraphTypes
  <2> QED BY <2>1, <2>2
<1>3. CASE WriteCanonical
  <2>1. city \in Cities /\ run.snap \in Versions
    BY <1>3 DEF WriteCanonical, AtVisit, Publishing, JobTypes
  <2>2. \/ UNCHANGED <<canonical, canonized>>
        \/ /\ canonical' = [canonical EXCEPT ![city] = run.snap]
           /\ canonized' = [canonized EXCEPT ![city] = canonized[city] \cup {run.snap}]
    BY <1>3 DEF WriteCanonical
  <2>3. UNCHANGED <<pg, holds, fresh, copies, reached, restored>>
    BY <1>3 DEF WriteCanonical
  <2> HIDE DEF run, city
  <2> QED BY <2>1, <2>2, <2>3 DEF GraphTypes
<1>4. CASE Project
  <2>1. city \in Cities /\ run.snap \in Versions /\ doc \in Docs
    BY <1>4 DEF Project, AtVisit, Publishing, JobTypes, Working, Extraction, DocsOf, doc
  <2> HIDE DEF run, city
  <2> QED BY <1>4, <2>1 DEF GraphTypes, Project
<1>5. ASSUME NEW c \in Cities, NEW v \in Versions, Replace(c, v)
      PROVE  /\ canonical' \in [Cities -> Versions \cup {NoVersion}]
             /\ pg' \in [Cities -> Versions \cup {NoVersion}]
             /\ canonized' \in [Cities -> SUBSET Versions]
             /\ copies' \in [Cities -> SUBSET Versions]
  BY <1>5 DEF Replace, GraphTypes
<1>6. ASSUME NEW c \in Cities, Edit(c) PROVE GraphTypes'
  <2>1. fresh \in Versions /\ fresh' = fresh + 1 /\ fresh' \in 0..MaxVersion + 1
    BY <1>6, BoundsAssumption DEF Edit, GraphTypes, Versions
  <2>2. PICK h \in SUBSET Docs : holds' = [holds EXCEPT ![fresh] = h]
    BY <1>6 DEF Edit, GraphTypes
  <2>3. holds' \in [Versions -> SUBSET Docs]
    BY <2>1, <2>2 DEF GraphTypes
  <2> QED BY <1>5, <1>6, <2>1, <2>3 DEF Edit, GraphTypes
<1>7. ASSUME NEW c \in Cities, NEW v \in Versions, PutBack(c, v) PROVE GraphTypes'
  BY <1>5, <1>7 DEF PutBack, GraphTypes
<1> QED
  BY <1>1, <1>2, <1>3, <1>4, <1>6, <1>7, GraphFrame

(* What each step of the extraction makes of the run: a write of its type,    *)
(* and none but to the document's own.                                        *)
Writes(r) ==
  \/ run.reserved # Budget /\ r = Reserved(run) /\ Reserve
  \/ r = [run EXCEPT !.stored = @ + 1] /\ Store
  \/ r = [run EXCEPT !.snap = fresh] /\ run.snap = NoVersion /\ Candidate
  \/ r = [run EXCEPT !.archive = Partial] /\ run.archive = NoVersion /\ BeginPublish
  \/ r = [run EXCEPT !.archive = visit.copied] /\ SealArchive
  \/ r = [run EXCEPT !.plan = TRUE] /\ WritePlan
  \/ r = [run EXCEPT !.published = TRUE] /\ WriteReceipt
  \/ r = [run EXCEPT !.projected = "failed"] /\ (Project \/ MarkProjected)
  \/ r = [run EXCEPT !.projected = "completed"] /\ MarkProjected
\* A durable write changes the run of the visit and no other.
LEMMA DurableWrites ==
  ASSUME Types, AtVisit,
         Reserve \/ Store \/ Candidate \/ BeginPublish \/ SealArchive \/ WritePlan
         \/ WriteReceipt \/ Project \/ MarkProjected
  PROVE  /\ doc \in Docs /\ visit.from \in Versions /\ run \in Runs /\ calls' = calls
         /\ runs' = runs \/ \E r \in Runs : UpdateRun(r) /\ Writes(r)
<1> USE DEF Types
<1>1. pc \in Extraction
  BY DEF Reserve, Store, Candidate, BeginPublish, SealArchive, WritePlan, WriteReceipt,
         Project, MarkProjected, Extraction
<1>2. doc \in Docs /\ visit.from \in Versions /\ run \in Runs
  BY <1>1 DEF AtVisit, Working, DocsOf, doc, run, PaidTypes
<1>3. calls' = calls
  BY DEF Reserve, Store, Candidate, BeginPublish, SealArchive, WritePlan, WriteReceipt,
         Project, MarkProjected, ProjectionFails
<1> DEFINE Goal == runs' = runs \/ \E r \in Runs : UpdateRun(r) /\ Writes(r)
<1>4. ASSUME Reserve PROVE Goal
  <2>1. CASE run.reserved = Budget
    BY <1>4, <2>1 DEF Reserve, Writes
  <2>2. CASE run.reserved # Budget
    <3>1. run.reserved + 1 \in 0..Budget
      BY <1>2, <2>2, BoundsAssumption DEF Runs
    <3>2. Reserved(run) \in Runs
      BY <1>2, <3>1, RunSet DEF Reserved
    <3> QED BY <1>4, <2>2, <3>2 DEF Reserve, Writes
  <2> QED BY <2>1, <2>2
<1>5. ASSUME Store PROVE Goal
  <2>1. run.stored + 1 \in 0..Chunks
    BY <1>2, <1>5, BoundsAssumption DEF Store, AtVisit, Runs
  <2>2. [run EXCEPT !.stored = @ + 1] \in Runs
    BY <1>2, <2>1, RunSet
  <2> QED BY <1>5, <2>2 DEF Store, Writes
<1>6. ASSUME Candidate PROVE Goal
  <2>1. CASE runs' = runs
    BY <2>1
  <2>2. CASE runs' # runs
    <3>1. fresh \in Versions
      BY <1>6, <2>2, BoundsAssumption DEF Candidate, GraphTypes, Versions
    <3>2. [run EXCEPT !.snap = fresh] \in Runs
      BY <1>2, <3>1, RunSet
    <3> QED BY <1>6, <2>2, <3>2 DEF Candidate, Writes
  <2> QED BY <2>1, <2>2
<1>7. ASSUME BeginPublish PROVE Goal
  <2>1. [run EXCEPT !.archive = Partial] \in Runs
    BY <1>2, RunSet
  <2> QED BY <1>7, <2>1 DEF BeginPublish, Writes
<1>8. ASSUME SealArchive PROVE Goal
  <2>1. visit.copied \in Versions \cup {NoVersion, Partial}
    BY DEF JobTypes, Visits
  <2>2. [run EXCEPT !.archive = visit.copied] \in Runs
    BY <1>2, <2>1, RunSet
  <2> QED BY <1>8, <2>2 DEF SealArchive, Writes
<1>9. ASSUME WritePlan PROVE Goal
  <2>1. [run EXCEPT !.plan = TRUE] \in Runs
    BY <1>2, RunSet
  <2> QED BY <1>9, <2>1 DEF WritePlan, Writes
<1>10. ASSUME WriteReceipt PROVE Goal
  <2>1. [run EXCEPT !.published = TRUE] \in Runs
    BY <1>2, RunSet
  <2> QED BY <1>10, <2>1 DEF WriteReceipt, Writes
<1>11. ASSUME Project \/ MarkProjected PROVE Goal
  <2>1. [run EXCEPT !.projected = "failed"] \in Runs
        /\ [run EXCEPT !.projected = "completed"] \in Runs
    BY <1>2, RunSet
  <2> QED BY <1>11, <2>1 DEF Project, MarkProjected, ProjectionFails, Writes
<1>12. Goal
  BY <1>4, <1>5, <1>6, <1>7, <1>8, <1>9, <1>10, <1>11
<1> QED
  BY <1>2, <1>3, <1>12

(* The state of the run is read or begun as the visit chooses its work.       *)
LEMMA MatchWrites ==
  ASSUME Types, AtVisit, MatchStates
  PROVE  /\ doc \in Docs /\ visit.base \in Versions /\ calls' = calls
         /\ visit'.doc = doc /\ visit'.base = visit.base
         /\ \/ pc' = "known" /\ Known(doc) /\ runs' = runs /\ visit' = visit
            \/ /\ pc' = "publish" /\ runs' = runs /\ visit'.from \in OwnBytes(doc, visit.base)
            \/ /\ pc' = "chunk" /\ visit'.from = visit.base
               /\ ~Known(doc) /\ OwnBytes(doc, visit.base) = {}
               /\ runs' = IF runs[doc][visit.base] = NoRun
                          THEN [runs EXCEPT ![doc][visit.base] = NewRun] ELSE runs
<1> USE DEF Types
<1>1. doc \in Docs /\ visit.base \in Versions /\ calls' = calls /\ visit \in Visits
  BY DEF MatchStates, AtVisit, Visiting, Working, DocsOf, doc, JobTypes
<1>2. CASE Known(doc)
  BY <1>1, <1>2 DEF MatchStates, Go, doc
<1>3. CASE ~Known(doc) /\ Resumable(doc, visit.base) # {}
  <2>1. PICK v \in OwnBytes(doc, visit.base) : Resume(v, "publish")
    BY <1>3 DEF MatchStates, Resumable
  <2>2. visit'.doc = doc /\ visit'.base = visit.base /\ visit'.from = v
    BY <1>1, <2>1 DEF Resume, Visits, doc
  <2> QED BY <1>1, <1>3, <2>1, <2>2 DEF MatchStates, Resume
<1>4. CASE ~Known(doc) /\ Resumable(doc, visit.base) = {}
  <2>1. visit'.doc = doc /\ visit'.base = visit.base /\ visit'.from = visit.base
    BY <1>1, <1>4 DEF MatchStates, Resume, Visits, doc
  <2>2. runs' = [runs EXCEPT ![doc][visit.base] =
                   IF runs[doc][visit.base] = NoRun THEN NewRun ELSE runs[doc][visit.base]]
    BY <1>1, <1>4 DEF MatchStates, PaidTypes
  <2>3. runs' = IF runs[doc][visit.base] = NoRun
                THEN [runs EXCEPT ![doc][visit.base] = NewRun] ELSE runs
    BY <1>1, <2>2 DEF PaidTypes
  <2>4. pc' = "chunk" /\ OwnBytes(doc, visit.base) = {}
    BY <1>4 DEF MatchStates, Resume, Resumable
  <2> QED BY <1>1, <1>4, <2>1, <2>3, <2>4
<1> QED
  BY <1>2, <1>3, <1>4
\* Every step keeps the types of the runs.
LEMMA PaidTypesStep ==
  ASSUME Types, AtVisit, Next
  PROVE  PaidTypes'
<1>0. PaidTypes
  BY DEF Types
<1>1. CASE UNCHANGED paid
  BY <1>0, <1>1 DEF paid, PaidTypes
<1>2. CASE MatchStates
  BY <1>0, <1>2, MatchWrites, NewRunType DEF PaidTypes
<1>3. CASE Call
  <2>1. doc \in Docs /\ visit.from \in Versions /\ runs' = runs
    BY <1>3 DEF Call, AtVisit, Working, Extraction, DocsOf, doc
  <2>2. calls' = [calls EXCEPT ![doc][visit.from] = calls[doc][visit.from] + 1]
    BY <1>0, <1>3 DEF Call, PaidTypes
  <2> QED BY <1>0, <2>1, <2>2 DEF PaidTypes
<1>4. CASE Reserve \/ Store \/ Candidate \/ BeginPublish \/ SealArchive \/ WritePlan
           \/ WriteReceipt \/ Project \/ MarkProjected
  BY <1>0, <1>4, DurableWrites, RunWritten DEF PaidTypes
<1> QED
  BY <1>1, <1>2, <1>3, <1>4, PaidFrame DEF Durable

\* Every step keeps the counters within their bounds.
LEMMA BoundsTypesStep ==
  ASSUME Types, Next
  PROVE  BoundsTypes'
<1>1. \/ UNCHANGED bounds
      \/ faults' = faults + 1 /\ edits' = edits
      \/ faults' = faults /\ edits' = edits + 1
  BY DEF Next, Step, Disturbance, bounds, StartSweep, EnterCity, StopSweep, ReadBaseline,
       ListIndex, SetAside, OpenAttempt, Fetched, CloseList, SaveGuard, PlanCoverage,
       MatchStates, Reserve, Call, Store, Candidate, BeginPublish, SealArchive, WritePlan,
       WriteCanonical, WriteReceipt, Project, MarkProjected, CoverDocument, FailDocument,
       HaltExtraction, Sigterm, Die, StoreThrows, BreakOff, StartCity, Edit, PutBack,
       Publish, Withdraw, Fault, NoFault, Advance, Break, ProjectionFails
<1> QED
  BY <1>1 DEF Types, BoundsTypes, bounds

\* Every step keeps every type.
LEMMA TypesStep ==
  ASSUME Types, AtVisit, Next
  PROVE  Types'
BY SourceTypesStep, CollectedTypesStep, BooksTypesStep, GraphTypesStep, PaidTypesStep,
   BoundsTypesStep, JobTypesStep DEF Types
-----------------------------------------------------------------------------
(* Where the visit is.                                                        *)
LEMMA IdlePlaces ==
  ASSUME pc' \in {"idle", "next", "baseline"}, visit' = NoVisit
  PROVE  AtVisit'
BY DEF AtVisit, NoVisit, Visiting, Working, Extraction, Publishing

\* Where the visit is does not depend on the other objects.
LEMMA KeptPlaces ==
  ASSUME AtVisit, UNCHANGED <<scenario, pc, visit, ledger, runs>>, job'.at = job.at
  PROVE  AtVisit'
BY DEF AtVisit, DocsOf, city, run

\* The sweep and the other actors keep the visit where it is.
LEMMA SweepPlaces ==
  ASSUME Types, AtVisit,
         \/ StartSweep \/ EnterCity \/ StopSweep \/ HaltExtraction \/ Sigterm \/ Die
         \/ (\E c \in Cities : StartCity(c))
         \/ (\E d \in Docs : Publish(d) \/ Withdraw(d))
         \/ (\E c \in Cities : Edit(c) \/ \E v \in Versions : PutBack(c, v))
  PROVE  AtVisit'
<1>1. CASE StartSweep \/ EnterCity \/ StopSweep \/ Die \/ \E c \in Cities : StartCity(c)
  BY <1>1, IdlePlaces DEF StartSweep, EnterCity, StopSweep, Die, StartCity, AtVisit
<1>2. CASE HaltExtraction \/ Sigterm
  <2>1. job \in Jobs
    BY DEF Types, JobTypes
  <2>2. job'.at = job.at
    BY <1>2, <2>1 DEF HaltExtraction, Sigterm, Jobs
  <2> QED BY <1>2, <2>2, KeptPlaces DEF HaltExtraction, Sigterm, source, books, paid
<1>3. CASE \/ (\E d \in Docs : Publish(d) \/ Withdraw(d))
           \/ (\E c \in Cities : Edit(c) \/ \E v \in Versions : PutBack(c, v))
  BY <1>3, KeptPlaces DEF Publish, Withdraw, Edit, PutBack, source, books, paid
<1> QED
  BY <1>1, <1>2, <1>3

(* The steps of the acquisition, which works on documents of the city.        *)
LEMMA AcquisitionPlaces ==
  ASSUME Types, AtVisit,
         \/ ReadBaseline \/ ListIndex \/ (\E d \in Docs : SetAside(d) \/ OpenAttempt(d))
         \/ Fetched \/ CloseList \/ SaveGuard \/ StoreThrows
  PROVE  AtVisit'
<1>0. visit \in Visits
  BY DEF Types, JobTypes
<1> DEFINE Acq == {"index", "recueil", "fetching", "guard", "ledger"}
<1>a. /\ \A l \in Acq : l \in Visiting /\ l \notin Working /\ l \notin Extraction
                        /\ l \notin Publishing
  BY DEF Visiting, Working, Extraction, Publishing
<1>1. CASE Leave
  BY <1>1, LeavePlaces
<1>2. CASE ~Leave
  <2>1. job' = job /\ scenario' = scenario
    BY <1>2 DEF ReadBaseline, ListIndex, SetAside, OpenAttempt, Fetched, CloseList, Listed,
          SaveGuard, StoreThrows, Go, source
  <2>2. pc' \in Acq
    BY <1>2 DEF ReadBaseline, ListIndex, SetAside, OpenAttempt, Fetched, CloseList, Listed,
          SaveGuard, StoreThrows, Go
  <2>3. visit'.base \in Versions
    <3>1. CASE ReadBaseline
      <4>1. canonical[city] \in Versions /\ visit' = [visit EXCEPT !.base = canonical[city]]
        BY <1>2, <3>1 DEF ReadBaseline, Types, JobTypes, GraphTypes
      <4> QED BY <1>0, <4>1 DEF Visits
    <3>2. CASE ~ReadBaseline
      <4>1. visit.base \in Versions
        BY <1>2, <3>2, <1>a DEF ListIndex, SetAside, OpenAttempt, Fetched, CloseList,
              SaveGuard, StoreThrows, AtVisit
      <4>2. visit'.base = visit.base
        BY <1>0, <1>2, <3>2 DEF ListIndex, SetAside, OpenAttempt, Fetched, CloseList, Listed,
              SaveGuard, StoreThrows, Go, Collected, Refused, Oversize, Visits
      <4> QED BY <4>1, <4>2
    <3> QED BY <3>1, <3>2
  <2> DEFINE Here == /\ visit'.todo \subseteq DocsOf(city) /\ visit'.got \subseteq DocsOf(city)
                     /\ pc' \notin {"recueil", "fetching"} =>
                          visit'.closed = {} /\ visit'.aside = {}
                     /\ pc' = "fetching" => visit'.doc \in DocsOf(city)
  <2>v. /\ visit.todo \subseteq DocsOf(city) /\ visit.got \subseteq DocsOf(city)
        /\ pc \notin {"recueil", "fetching"} => visit.closed = {} /\ visit.aside = {}
        /\ pc = "fetching" => doc \in DocsOf(city)
    BY DEF AtVisit, doc
  <2>4. ASSUME ReadBaseline PROVE Here
    BY <1>0, <1>2, <2>4, <2>v DEF ReadBaseline, Visits
  <2>5. ASSUME ListIndex PROVE Here
    <3>1. PICK offered \in SUBSET DocsOf(city) :
            visit' = [visit EXCEPT !.todo = offered \ guard,
                                   !.known = (offered \cap guard # {})]
      BY <1>2, <2>5 DEF ListIndex
    <3>2. visit'.todo = offered \ guard /\ visit'.got = visit.got /\ pc' = "recueil"
      BY <1>0, <1>2, <2>5, <3>1 DEF ListIndex, Visits
    <3> QED BY <2>v, <3>1, <3>2
  <2>6. ASSUME \E d \in Docs : SetAside(d) \/ OpenAttempt(d) PROVE Here
    <3>1. PICK d \in Docs : SetAside(d) \/ OpenAttempt(d)
      BY <2>6
    <3>2. visit'.todo = visit.todo \ {d} /\ visit'.got = visit.got /\ d \in visit.todo
      BY <1>0, <3>1 DEF SetAside, OpenAttempt, Visits
    <3>3. pc' = "recueil" \/ (pc' = "fetching" /\ visit'.doc = d)
      BY <1>0, <3>1 DEF SetAside, OpenAttempt, Visits
    <3> QED BY <2>v, <3>2, <3>3
  <2>7. ASSUME Fetched PROVE Here
    <3>1. visit'.todo = visit.todo /\ visit'.got \subseteq visit.got \cup {doc}
          /\ pc = "fetching" /\ pc' = "recueil"
      BY <1>0, <2>7 DEF Fetched, Collected, Refused, Oversize, Visits, doc
    <3> QED BY <2>v, <3>1
  <2>9. ASSUME CloseList PROVE Here
    <3>1. Listed
      BY <1>2, <2>9 DEF CloseList
    <3>2. visit'.todo = {} /\ visit'.got = visit.got /\ visit'.closed = {}
          /\ visit'.aside = {} /\ pc' = "guard"
      BY <1>0, <1>2, <3>1 DEF Listed, Visits
    <3> QED BY <2>v, <3>2
  <2>10. ASSUME SaveGuard PROVE Here
    BY <1>2, <2>10, <2>v DEF SaveGuard, Go
  <2>11. Here
    BY <1>2, <2>4, <2>5, <2>6, <2>7, <2>9, <2>10 DEF StoreThrows
  <2>8. DocsOf(city)' = DocsOf(city)
    BY <2>1 DEF DocsOf, city
  <2> HIDE DEF Acq
  <2> QED
    BY <1>a, <2>2, <2>3, <2>11, <2>8 DEF AtVisit, Acq
<1> QED
  BY <1>1, <1>2
-----------------------------------------------------------------------------
(* The plan of a visit is the city's ledger from then on.                     *)
LEMMA PlanWritten ==
  ASSUME Types, PlanCoverage
  PROVE  /\ city \in Cities /\ visit.got \subseteq Docs
         /\ \E l0 \in Ledgers :
              LET l1 == Plan(l0, visit.got, job.mode = "sweep")
              IN /\ \/ l0 = ledger[city] /\ blind' = blind
                    \/ l0 = EmptyLedger /\ blind' = blind \cup {city}
                 /\ \/ ledger' = [ledger EXCEPT ![city] = l1]
                    \/ ledger' = ledger /\ l1 = l0
                 /\ \/ Leave
                    \/ /\ Owed(l1) # {} /\ pc' = "states" /\ job' = job
                       /\ visit' = [visit EXCEPT !.doc = First(l1, visit.got), !.got = {}]
                       /\ ledger' = [ledger EXCEPT ![city] = l1]
<1> DEFINE P(l) == Plan(l, visit.got, job.mode = "sweep")
<1>1. city \in Cities /\ visit.got \subseteq Docs /\ ledger \in [Cities -> Ledgers]
  BY DEF Types, PlanCoverage, JobTypes, Visits, BooksTypes
<1>2. PICK l0 :
        /\ \/ l0 = ledger[city] /\ blind' = blind
           \/ l0 = EmptyLedger /\ blind' = blind \cup {city}
        /\ ledger' = IF P(l0) = l0 THEN ledger ELSE [ledger EXCEPT ![city] = P(l0)]
        /\ IF Owed(P(l0)) = {} \/ ~job.extract
           THEN Leave
           ELSE /\ pc' = "states" /\ job' = job
                /\ visit' = [visit EXCEPT !.doc = First(P(l0), visit.got), !.got = {}]
  <2>1. PICK unreadable \in BOOLEAN :
       LET l0 == IF unreadable THEN EmptyLedger ELSE ledger[city]
           l1 == Plan(l0, visit.got, job.mode = "sweep")
       IN /\ IF unreadable THEN Fault /\ blind' = blind \cup {city}
                           ELSE NoFault /\ UNCHANGED blind
          /\ ledger' = IF l1 = l0 THEN ledger ELSE [ledger EXCEPT ![city] = l1]
          /\ IF Owed(l1) = {} \/ ~job.extract
             THEN Leave
             ELSE /\ pc' = "states" /\ UNCHANGED job
                  /\ visit' = [visit EXCEPT !.doc = First(l1, visit.got), !.got = {}]
    BY DEF PlanCoverage
  <2> DEFINE k == IF unreadable THEN EmptyLedger ELSE ledger[city]
  <2> QED BY <2>1
<1>3. l0 \in Ledgers
  BY <1>1, <1>2, EmptyLedgerType
<1>4. P(l0) = l0 /\ l0 = EmptyLedger => Owed(P(l0)) = {}
  BY DEF Owed, EmptyLedger
<1>5. P(l0) = l0 /\ l0 = ledger[city] => ledger = [ledger EXCEPT ![city] = P(l0)]
  BY <1>1
<1> HIDE DEF P
<1>6. CASE P(l0) = l0
  <2>1. ledger' = ledger
    BY <1>2, <1>6
  <2>2. CASE Leave
    BY <1>1, <1>2, <1>3, <1>6, <2>1, <2>2 DEF P
  <2>3. CASE ~Leave
    BY <1>1, <1>2, <1>3, <1>4, <1>5, <1>6, <2>1, <2>3 DEF P
  <2> QED BY <2>2, <2>3
<1>7. CASE P(l0) # l0
  BY <1>1, <1>2, <1>3, <1>7 DEF P
<1> QED
  BY <1>6, <1>7

\* The plan of a visit owes documents of its city only.
LEMMA PlanPlaces ==
  ASSUME Types, AtVisit, Homed, PlanCoverage
  PROVE  AtVisit' /\ Homed'
<1>1. PICK l0 \in Ledgers :
        LET l1 == Plan(l0, visit.got, job.mode = "sweep")
        IN /\ l0 = ledger[city] \/ l0 = EmptyLedger
           /\ \/ ledger' = [ledger EXCEPT ![city] = l1]
              \/ ledger' = ledger /\ l1 = l0
           /\ \/ Leave
              \/ /\ Owed(l1) # {} /\ pc' = "states" /\ job' = job
                 /\ visit' = [visit EXCEPT !.doc = First(l1, visit.got), !.got = {}]
                 /\ ledger' = [ledger EXCEPT ![city] = l1]
  BY PlanWritten
<1> DEFINE l1 == Plan(l0, visit.got, job.mode = "sweep")
<1>2. city \in Cities /\ visit.got \subseteq Docs /\ visit \in Visits
      /\ ledger \in [Cities -> Ledgers]
  BY PlanWritten DEF Types, JobTypes, BooksTypes
<1>3. /\ l1 \in Ledgers
      /\ \A d \in Docs : l1.state[d] # l0.state[d] => d \in visit.got
  <2>1. PICK prime \in BOOLEAN : prime = (job.mode = "sweep")
    OBVIOUS
  <2> HIDE DEF l1
  <2>2. l1 = Plan(l0, visit.got, prime)
    BY <2>1 DEF l1
  <2> QED BY <1>2, <2>2, PlanFacts
<1>4. \A d \in Docs : l0.state[d] # "none" => d \in DocsOf(city)
  BY <1>1, <1>2 DEF Homed, EmptyLedger
<1>5. \A d \in Docs : l1.state[d] # "none" => d \in DocsOf(city)
  BY <1>3, <1>4 DEF AtVisit
<1>6. scenario' = scenario /\ pc = "ledger"
  BY DEF PlanCoverage, source
<1> HIDE DEF l1
<1>7. ledger' = [ledger EXCEPT ![city] = l1] \/ ledger' = ledger
  BY <1>1 DEF l1
<1>8. Homed'
  BY <1>2, <1>5, <1>6, <1>7 DEF Homed, DocsOf
<1>9. CASE Leave
  BY <1>8, <1>9, LeavePlaces
<1>10. CASE ~Leave
  <2>1. /\ Owed(l1) # {} /\ pc' = "states" /\ job' = job
        /\ visit' = [visit EXCEPT !.doc = First(l1, visit.got), !.got = {}]
        /\ ledger' = [ledger EXCEPT ![city] = l1]
    BY <1>1, <1>10 DEF l1
  <2>2. First(l1, visit.got) \in Owed(l1)
    BY <2>1, FirstOwed
  <2>3. First(l1, visit.got) \in DocsOf(city)
    BY <1>5, <2>2 DEF Owed
  <2>4. /\ visit'.doc = First(l1, visit.got) /\ visit'.got = {} /\ visit'.base = visit.base
        /\ visit'.todo = visit.todo /\ visit'.closed = visit.closed
        /\ visit'.aside = visit.aside
    BY <1>2, <2>1 DEF Visits
  <2>5. ledger'[city] = l1 /\ city' = city /\ DocsOf(city)' = DocsOf(city)
    BY <1>2, <1>6, <2>1 DEF city, DocsOf
  <2>6. Owed(ledger[city])' = Owed(l1)
    BY <2>5 DEF Owed
  <2> QED
    BY <1>6, <1>8, <2>1, <2>2, <2>3, <2>4, <2>5, <2>6
    DEF AtVisit, Visiting, Working, Extraction, Publishing
<1> QED
  BY <1>9, <1>10
\* Every step keeps documents in the ledger of their city.
LEMMA HomedStep ==
  ASSUME Types, AtVisit, Homed, Next
  PROVE  Homed'
<1>2. scenario' = scenario
  BY SourceFrame DEF source, Publish, Withdraw
<1>3. CASE UNCHANGED books \/ EnterCity
  BY <1>2, <1>3 DEF books, EnterCity, Homed, DocsOf
<1>4. CASE PlanCoverage
  BY <1>4, PlanPlaces
<1>5. CASE CoverDocument \/ FailDocument
  <2>1. doc \in DocsOf(city) /\ city \in Cities /\ ledger \in [Cities -> Ledgers]
        /\ doc \in Owed(ledger[city])
    BY <1>5 DEF CoverDocument, FailDocument, AtVisit, Working, Extraction, Types, JobTypes,
          BooksTypes, doc
  <2>2. PICK l \in Ledgers :
          /\ ledger' = ledger \/ ledger' = [ledger EXCEPT ![city] = l]
          /\ \A e \in Docs \ {doc} : l.state[e] = ledger[city].state[e]
    <3>1. Cover(ledger[city], doc) \in Ledgers /\ Fail(ledger[city], doc) \in Ledgers
          /\ \A e \in Docs \ {doc} :
               /\ Cover(ledger[city], doc).state[e] = ledger[city].state[e]
               /\ Fail(ledger[city], doc).state[e] = ledger[city].state[e]
      BY <2>1, CoverFacts, FailFacts DEF Owed
    <3> QED BY <1>5, <2>1, <3>1 DEF CoverDocument, FailDocument
  <2>3. \A c \in Cities, d \in Docs : ledger'[c].state[d] # "none" => d \in DocsOf(c)
    BY <2>1, <2>2 DEF Homed
  <2> QED BY <1>2, <2>3 DEF Homed, DocsOf
<1> QED
  BY <1>3, <1>4, <1>5, BooksFrame

\* An extraction keeps to its document and its run.
LEMMA ExtractionPlaces ==
  ASSUME Types, AtVisit,
         \/ Durable \/ BreakOff \/ WriteCanonical \/ CoverDocument \/ FailDocument
  PROVE  AtVisit'
<1>0. (ledger' = ledger /\ scenario' = scenario) \/ CoverDocument \/ FailDocument
  BY DEF Types, JobTypes, Durable, MatchStates, Reserve, Call, Store, Candidate, BeginPublish,
         SealArchive, WritePlan, WriteReceipt, Project, MarkProjected, BreakOff,
         WriteCanonical, books, source
<1>1. CASE CoverDocument \/ FailDocument
  BY <1>1, LeavePlaces DEF CoverDocument, FailDocument
(* The place that does not depend on the run.                                 *)
<1> DEFINE Place == /\ job' = job /\ visit'.doc = visit.doc /\ visit'.base = visit.base
                    /\ visit'.todo = visit.todo /\ visit'.got = visit.got
                    /\ visit'.closed = visit.closed /\ visit'.aside = visit.aside
                    /\ pc \in Working
           Runned == /\ pc' \in Extraction => visit'.from \in Versions /\ run' # NoRun
                     /\ pc' \in {"call", "store"} => run'.stored < Chunks
                     /\ pc' \in Publishing => run'.snap \in Versions
                     /\ pc' = "archive" => run'.archive = Partial
<1>2. ASSUME Place, Runned, pc' \in Working, ~(CoverDocument \/ FailDocument)
      PROVE  AtVisit'
  <2>1. DocsOf(city)' = DocsOf(city) /\ Owed(ledger[city])' = Owed(ledger[city])
    BY <1>0, <1>2 DEF DocsOf, city
  <2>2. pc \in Visiting /\ pc \notin {"idle", "next", "baseline", "recueil", "fetching"}
        /\ pc' \in Visiting /\ pc' \notin {"idle", "next", "baseline", "recueil", "fetching"}
    BY <1>2 DEF Visiting, Working, Extraction
  <2>3. /\ visit.base \in Versions
        /\ visit.todo \subseteq DocsOf(city) /\ visit.got \subseteq DocsOf(city)
        /\ visit.closed = {} /\ visit.aside = {} /\ visit.doc \in DocsOf(city)
        /\ visit.doc \in Owed(ledger[city])
    BY <1>2, <2>2 DEF AtVisit
  <2> QED BY <1>2, <2>1, <2>2, <2>3 DEF AtVisit
<1>3. ASSUME MatchStates PROVE Place /\ Runned /\ pc' \in Working
  <2>0. pc = "states" /\ job' = job /\ visit \in Visits
    BY <1>3 DEF MatchStates, Go, Resume, Types, JobTypes
  <2>1. Place
    <3>1. visit' = visit \/ \E v : visit' = [visit EXCEPT !.from = v]
      BY <1>3 DEF MatchStates, Go, Resume
    <3> QED BY <2>0, <3>1 DEF Visits, Working
  <2>2. runs \in [Docs -> [Versions -> Runs \cup {NoRun}]]
    BY DEF Types, PaidTypes
  <2>3. Runned /\ pc' \in Working
    <3>1. CASE pc' = "known"
      BY <3>1 DEF Extraction, Publishing, Working
    <3>2. CASE /\ pc' = "publish" /\ runs' = runs
               /\ visit'.from \in OwnBytes(doc, visit.base)
      BY <1>3, <2>1, <3>2, MatchWrites DEF OwnBytes, run, doc, Working, Extraction
    <3>3. CASE /\ pc' = "chunk" /\ visit'.from = visit.base
               /\ runs' = IF runs[doc][visit.base] = NoRun
                          THEN [runs EXCEPT ![doc][visit.base] = NewRun] ELSE runs
      <4>1. NewRun # NoRun
        BY NewRunType, NamesAssumption
      <4>2. doc \in Docs /\ visit.base \in Versions /\ visit'.doc = doc
        BY <1>3, MatchWrites
      <4>3. run' # NoRun
        BY <2>2, <3>3, <4>1, <4>2 DEF run, doc
      <4> QED BY <3>3, <4>2, <4>3 DEF Publishing, Working, Extraction
    <3> QED BY <1>3, <3>1, <3>2, <3>3, MatchWrites
  <2> QED BY <2>1, <2>3
<1>4. ASSUME Reserve \/ Store \/ Candidate \/ BeginPublish \/ SealArchive \/ WritePlan
             \/ WriteReceipt \/ Project \/ MarkProjected
      PROVE  Place /\ Runned /\ pc' \in Working
  <2>0. visit \in Visits
    BY DEF Types, JobTypes
  <2>1. Place /\ visit'.from = visit.from
    BY <1>4, <2>0 DEF Reserve, Store, Candidate, BeginPublish, SealArchive, WritePlan, WriteReceipt,
          Project, MarkProjected, Advance, Break, Go, ProjectionFails, Working, Extraction, Visits
  <2>2. pc' \in Working
    BY <1>4 DEF Reserve, Store, Candidate, BeginPublish, SealArchive, WritePlan, WriteReceipt,
          Project, MarkProjected, Advance, Break, Go, ProjectionFails, Working, Extraction
  <2>3. run' = runs'[doc][visit.from] /\ visit.from \in Versions
    BY <1>4, <2>1, DurableWrites DEF run, doc
  <2>4. run \in Runs /\ run # NoRun
    BY <1>4, DurableWrites, NamesAssumption
  <2>5. run' = run \/ \E r \in Runs : run' = r /\ UpdateRun(r) /\ Writes(r)
    BY <1>4, <2>3, DurableWrites, RunWritten DEF run, doc, Types
  <2>6. pc' = "failing" \/ Runned
    <3>1. run' # NoRun
      BY <2>4, <2>5, NamesAssumption
    <3>2. ASSUME Reserve PROVE pc' = "failing" \/ Runned
      <4>1. CASE run.reserved = Budget
        BY <3>2, <4>1 DEF Reserve, Break, Advance, Go
      <4>2. CASE run.reserved # Budget
        <5>1. UpdateRun(Reserved(run)) /\ pc' = "call" /\ run.stored < Chunks
          BY <3>2, <4>2 DEF Reserve, Advance, Go
        <5>2. run' = Reserved(run)
          BY <2>3, <5>1, <1>4, DurableWrites DEF UpdateRun, Types, PaidTypes, doc, run
        <5>3. run'.stored = run.stored
          BY <2>4, <5>2 DEF Reserved, Runs
        <5> QED BY <2>1, <2>3, <3>1, <5>1, <5>3 DEF Publishing
      <4> QED BY <4>1, <4>2
    <3>3. ASSUME Store PROVE Runned
      BY <2>1, <2>3, <3>1, <3>3 DEF Store, Advance, Go, Publishing
    <3>4. ASSUME Candidate PROVE Runned
      <4>1. pc' = "publish"
        BY <3>4 DEF Candidate, Advance, Go
      <4>2. CASE run.snap # NoVersion
        <5>1. run' = run
          BY <2>3, <3>4, <4>2 DEF Candidate, run, doc
        <5>2. run.snap \in Versions
          BY <2>4, <4>2 DEF Runs
        <5> QED BY <2>1, <2>3, <3>1, <4>1, <5>1, <5>2
      <4>3. CASE run.snap = NoVersion
        <5>1. UpdateRun([run EXCEPT !.snap = fresh]) /\ fresh \in Versions
          BY <3>4, <4>3, BoundsAssumption DEF Candidate, Types, GraphTypes, Versions
        <5>2. run' = [run EXCEPT !.snap = fresh]
          BY <2>3, <5>1, <1>4, DurableWrites DEF UpdateRun, Types, PaidTypes, doc, run
        <5>3. run'.snap = fresh
          BY <2>4, <5>2 DEF Runs
        <5> QED BY <2>1, <2>3, <3>1, <4>1, <5>1, <5>3
      <4> QED BY <4>2, <4>3
    <3>5. ASSUME BeginPublish \/ SealArchive \/ WritePlan \/ WriteReceipt
                 \/ Project \/ MarkProjected
          PROVE  pc' = "failing" \/ Runned
      <4>1. run.snap \in Versions
        BY <3>5 DEF BeginPublish, SealArchive, WritePlan, WriteReceipt, Project, MarkProjected,
              AtVisit, Publishing
      <4>2. run'.snap = run.snap
        BY <2>4, <2>5, <3>5 DEF BeginPublish, SealArchive, WritePlan, WriteReceipt,
              Project, MarkProjected, Reserve, Store, Candidate, Writes, Runs
      <4>3. pc' \notin {"call", "store"}
        BY <3>5 DEF BeginPublish, SealArchive, WritePlan, WriteReceipt, Project, MarkProjected,
              Advance, Break, Go, ProjectionFails
      <4>4. ASSUME pc' = "archive" PROVE run'.archive = Partial
        <5>1. UpdateRun([run EXCEPT !.archive = Partial])
          BY <3>5, <4>4 DEF BeginPublish, SealArchive, WritePlan, WriteReceipt, Project,
                MarkProjected, Advance, Break, Go, ProjectionFails
        <5>2. run' = [run EXCEPT !.archive = Partial]
          BY <2>3, <5>1, <1>4, DurableWrites DEF UpdateRun, Types, PaidTypes, doc, run
        <5> QED BY <2>4, <5>2 DEF Runs
      <4> QED BY <2>1, <2>3, <3>1, <4>1, <4>2, <4>3, <4>4
    <3> QED BY <1>4, <3>2, <3>3, <3>4, <3>5
  <2>7. pc' = "failing" => Runned
    BY DEF Extraction, Publishing
  <2> QED BY <2>1, <2>2, <2>6, <2>7
<1>5. ASSUME Call PROVE Place /\ Runned /\ pc' \in Working
  BY <1>5 DEF Call, Advance, Break, Go, Working, Extraction, Publishing, AtVisit, run, doc
<1>6. ASSUME BreakOff PROVE Place /\ Runned /\ pc' \in Working
  BY <1>6 DEF BreakOff, Go, Working, Extraction, Publishing
<1>7. ASSUME WriteCanonical PROVE Place /\ Runned /\ pc' \in Working
  BY <1>7 DEF WriteCanonical, Advance, Break, Go, Working, Extraction, Publishing, AtVisit,
        paid, run, doc
<1> HIDE DEF Place, Runned
<1> QED
  BY <1>1, <1>2, <1>3, <1>4, <1>5, <1>6, <1>7 DEF Durable

\* Every step keeps every place.
LEMMA PlacesStep ==
  ASSUME Places, Next
  PROVE  Places'
<1>1. Types /\ AtVisit /\ Homed
  BY DEF Places
<1>2. AtVisit'
  BY <1>1, SweepPlaces, AcquisitionPlaces, PlanPlaces, ExtractionPlaces
  DEF Next, Step, Disturbance, Durable
<1> QED
  BY <1>1, <1>2, TypesStep, HomedStep DEF Places
-----------------------------------------------------------------------------
(* Attempts.                                                                  *)
LEMMA CountedKept ==
  ASSUME Counted, UNCHANGED collected, Unsettled' = Unsettled,
         visit'.todo \cap Unsettled = {}, visit'.aside \subseteq visit.aside
  PROVE  Counted'
BY DEF Counted, collected, SetAsideEarned

(* Out of the listing every attempt the journal knows of is settled.          *)
LEMMA Settledness ==
  ASSUME AtVisit, pc \notin {"recueil", "fetching"}
  PROVE  Unsettled = {} /\ visit.aside = {}
BY DEF AtVisit, Unsettled

(* The failed save: each end that stays unknown to the store is counted.      *)
LEMMA CountedDrop ==
  ASSUME CollectedTypes, Counted, Drop, UNCHANGED <<attempts, deferred>>,
         Unsettled' = {}, visit'.todo \cap Unsettled' = {},
         visit'.aside \subseteq visit.aside
  PROVE  Counted'
<1>1. \A d \in Docs : /\ lost[d] \in 0..2 /\ attempts[d] \in 0..2 /\ lost'[d] \in 0..2
                      /\ lost'[d] = IF d \in Unsettled /\ lost[d] < 2
                                    THEN lost[d] + 1 ELSE lost[d]
  BY DropTypes DEF CollectedTypes
<1>2. ASSUME NEW d \in Docs
      PROVE  /\ attempts'[d] <= lost'[d] + (IF d \in Unsettled' THEN 1 ELSE 0)
             /\ lost'[d] >= lost[d]
  <2>1. attempts[d] <= lost[d] + (IF d \in Unsettled THEN 1 ELSE 0)
    BY DEF Counted
  <2> QED BY <1>1, <2>1
<1>3. ASSUME NEW d \in Docs, <<d, "interrupted">> \in visit'.aside
      PROVE  lost'[d] >= 2
  <2>1. lost[d] >= 2
    BY <1>3 DEF Counted
  <2> QED BY <1>1, <1>2, <2>1
<1>4. ASSUME NEW d \in Docs, deferred'[d] = "interrupted"
      PROVE  lost'[d] >= 2
  <2>1. lost[d] >= 2
    BY <1>4 DEF Counted, SetAsideEarned
  <2> QED BY <1>1, <1>2, <2>1
<1> QED
  BY <1>2, <1>3, <1>4 DEF Counted, SetAsideEarned

(* The save that succeeds: what is settled leaves the journal, and what is    *)
(* opened counts one more.                                                    *)
LEMMA CountedWrite ==
  ASSUME CollectedTypes, visit \in Visits, Counted, pc = "recueil",
         NEW opened \in SUBSET Docs,
         \A d \in opened : attempts[d] < 2,
         WriteJournal(opened), UNCHANGED lost,
         opened \subseteq Unsettled', visit'.todo \cap Unsettled' = {}, visit'.aside = {}
  PROVE  Counted'
<1>1. /\ \A d \in Docs : attempts'[d] = IF d \in Settled THEN 0
                                        ELSE IF d \in opened THEN attempts[d] + 1
                                        ELSE attempts[d]
      /\ \A d \in Docs : deferred'[d] = deferred[d] \/ <<d, deferred'[d]>> \in visit.aside
  BY JournalTypes
<1>2. ASSUME NEW d \in Docs
      PROVE  attempts'[d] <= lost'[d] + (IF d \in Unsettled' THEN 1 ELSE 0)
  <2>1. attempts[d] <= lost[d] + (IF d \in Unsettled THEN 1 ELSE 0)
        /\ attempts[d] \in 0..2 /\ lost[d] \in 0..2 /\ lost'[d] = lost[d]
    BY DEF Counted, CollectedTypes
  <2>2. d \in Unsettled => d \in Settled
    BY DEF Unsettled, Settled
  <2>3. attempts'[d] = IF d \in Settled THEN 0
                       ELSE IF d \in opened THEN attempts[d] + 1 ELSE attempts[d]
    BY <1>1
  <2>4. d \in opened => d \in Unsettled'
    OBVIOUS
  <2> QED BY <2>1, <2>2, <2>3, <2>4
<1>3. ASSUME NEW d \in Docs, deferred'[d] = "interrupted"
      PROVE  lost'[d] >= 2
  BY <1>1, <1>3 DEF Counted, SetAsideEarned
<1> QED
  BY <1>2, <1>3 DEF Counted, SetAsideEarned

\* Every step keeps attempts counted: those open beyond the ends lost are in memory.
LEMMA CountedStep ==
  ASSUME Places, Counted, Next
  PROVE  Counted'
<1>0. Types /\ AtVisit /\ visit \in Visits /\ CollectedTypes
  BY DEF Places, Types, JobTypes
<1>1. CASE ListIndex
  <2>1. pc = "index" /\ pc' \in {"recueil", "next", "idle"} /\ UNCHANGED collected
    BY <1>1 DEF ListIndex, Leave
  <2>2. Unsettled = {} /\ visit.aside = {} /\ visit.closed = {}
    BY <1>0, <2>1, Settledness DEF AtVisit
  <2>3. visit'.closed = {} /\ visit'.aside = {}
    <3>1. CASE Leave
      BY <3>1 DEF Leave, NoVisit
    <3>2. CASE ~Leave
      BY <1>0, <1>1, <2>2, <3>2 DEF ListIndex, Visits
    <3> QED BY <3>1, <3>2
  <2>4. Unsettled' = {}
    BY <2>1, <2>3 DEF Unsettled
  <2> QED BY <2>1, <2>2, <2>3, <2>4, CountedKept
<1>2. ASSUME NEW d \in Docs, SetAside(d) PROVE Counted'
  <2>1. /\ pc = "recueil" /\ pc' = "recueil" /\ d \in visit.todo /\ UNCHANGED collected
        /\ visit' = [visit EXCEPT !.todo = @ \ {d},
                            !.aside = IF Interrupted(d)
                                      THEN @ \cup {<<d, "interrupted">>} ELSE @]
    BY <1>2 DEF SetAside
  <2>2. /\ visit'.todo = visit.todo \ {d} /\ visit'.closed = visit.closed
        /\ visit'.aside = IF Interrupted(d) THEN visit.aside \cup {<<d, "interrupted">>}
                                            ELSE visit.aside
    BY <1>0, <2>1 DEF Visits
  <2>3. Unsettled' = Unsettled
    BY <2>1, <2>2 DEF Unsettled
  <2>4. Interrupted(d) => lost[d] >= 2
    <3>1. d \notin Unsettled
      BY <2>1 DEF Counted
    <3>2. attempts[d] <= lost[d] + 0
      BY <3>1 DEF Counted
    <3> QED BY <1>0, <3>2 DEF Interrupted, CollectedTypes
  <2>5. ASSUME NEW e \in Docs, <<e, "interrupted">> \in visit'.aside PROVE lost[e] >= 2
    <3>1. CASE <<e, "interrupted">> \in visit.aside
      BY <3>1 DEF Counted
    <3>2. CASE Interrupted(d) /\ <<e, "interrupted">> = <<d, "interrupted">>
      BY <2>4, <3>2
    <3> QED BY <2>2, <2>5, <3>1, <3>2
  <2> QED BY <2>1, <2>2, <2>3, <2>5 DEF Counted, collected, SetAsideEarned
<1>3. ASSUME NEW d \in Docs, OpenAttempt(d) PROVE Counted'
  <2>1. /\ pc = "recueil" /\ pc' = "fetching" /\ d \in visit.todo /\ deferred[d] = "no"
        /\ attempts[d] < 2 /\ lost' = lost
    BY <1>0, <1>3 DEF OpenAttempt, Interrupted, CollectedTypes
  <2>2. Unsettled = visit.closed
    BY <2>1 DEF Unsettled
  <2>3. CASE WriteJournal({d}) /\
             visit' = [visit EXCEPT !.todo = @ \ {d}, !.doc = d, !.closed = {}, !.aside = {}]
    <3>1. visit'.todo = visit.todo \ {d} /\ visit'.doc = d /\ visit'.closed = {}
          /\ visit'.aside = {}
      BY <1>0, <2>3 DEF Visits
    <3>2. Unsettled' = {d}
      BY <2>1, <3>1 DEF Unsettled, doc
    <3> QED BY <1>0, <2>1, <2>3, <3>1, <3>2, CountedWrite
  <2>4. CASE UNCHANGED <<attempts, deferred>> /\
             visit' = [visit EXCEPT !.todo = @ \ {d}, !.doc = d]
    <3>1. visit'.todo = visit.todo \ {d} /\ visit'.doc = d /\ visit'.closed = visit.closed
          /\ visit'.aside = visit.aside
      BY <1>0, <2>4 DEF Visits
    <3>2. Unsettled' = Unsettled \cup {d}
      BY <2>1, <2>2, <3>1 DEF Unsettled, doc
    <3>3. \A e \in Docs : attempts[e] <= lost[e] + (IF e \in Unsettled' THEN 1 ELSE 0)
      <4> SUFFICES ASSUME NEW e \in Docs
                   PROVE  attempts[e] <= lost[e] + (IF e \in Unsettled' THEN 1 ELSE 0)
        OBVIOUS
      <4>1. attempts[e] <= lost[e] + (IF e \in Unsettled THEN 1 ELSE 0)
            /\ attempts[e] \in 0..2 /\ lost[e] \in 0..2
        BY <1>0 DEF Counted, CollectedTypes
      <4> QED BY <3>2, <4>1
    <3> QED BY <2>1, <2>4, <3>1, <3>2, <3>3 DEF Counted, SetAsideEarned
  <2> QED BY <1>3, <2>3, <2>4 DEF OpenAttempt
<1>4. CASE Fetched
  <2>1. /\ pc = "fetching" /\ pc' = "recueil" /\ UNCHANGED collected
        /\ visit' \in {Collected, Refused, Oversize}
    BY <1>4 DEF Fetched
  <2>2. /\ visit'.closed = visit.closed \cup {doc} /\ visit'.todo = visit.todo
        /\ visit'.aside \subseteq visit.aside \cup {<<doc, "oversize">>}
    BY <1>0, <2>1 DEF Collected, Refused, Oversize, Visits, doc
  <2>3. Unsettled' = Unsettled
    BY <2>1, <2>2 DEF Unsettled
  <2>4. \A e \in Docs : <<e, "interrupted">> \in visit'.aside
                          => <<e, "interrupted">> \in visit.aside
    BY <2>2
  <2> QED BY <2>1, <2>2, <2>3, <2>4 DEF Counted, collected, SetAsideEarned
<1>5. CASE CloseList
  <2>1. pc = "recueil" /\ (Leave \/ Listed)
    BY <1>5 DEF CloseList
  <2>2. /\ visit'.closed = {} /\ visit'.aside = {} /\ visit'.todo = {}
        /\ pc' \in {"next", "idle", "guard"}
    <3>1. CASE Leave
      BY <3>1 DEF Leave, NoVisit
    <3>2. CASE ~Leave
      BY <1>0, <2>1, <3>2 DEF Listed, Visits
    <3> QED BY <3>1, <3>2
  <2>3. Unsettled' = {}
    BY <2>2 DEF Unsettled
  <2>4. CASE WriteJournal({}) /\ UNCHANGED lost
    BY <1>0, <2>1, <2>2, <2>3, <2>4, CountedWrite
  <2>5. CASE Drop /\ UNCHANGED <<attempts, deferred>>
    BY <1>0, <2>2, <2>3, <2>5, CountedDrop
  <2> QED BY <1>5, <2>4, <2>5 DEF CloseList
<1>6. CASE Die
  <2>1. visit' = NoVisit /\ pc' = "idle" /\ Drop /\ UNCHANGED <<attempts, deferred>>
    BY <1>6 DEF Die
  <2>2. Unsettled' = {} /\ visit'.todo = {} /\ visit'.aside = {}
    BY <2>1 DEF NoVisit, Unsettled
  <2> QED BY <1>0, <2>1, <2>2, CountedDrop
<1>7. CASE SaveGuard
  <2>1. pc = "guard" /\ UNCHANGED <<attempts, deferred, lost>> /\ (Leave \/ Go("ledger"))
    BY <1>7 DEF SaveGuard
  <2>2. Unsettled = {} /\ visit.aside = {} /\ visit.closed = {}
    BY <1>0, <2>1, Settledness DEF AtVisit
  <2>3. visit'.closed = {} /\ visit'.aside = {} /\ pc' # "fetching"
    BY <2>1, <2>2 DEF Leave, Go, NoVisit
  <2>4. Unsettled' = {}
    BY <2>3 DEF Unsettled
  <2> QED BY <2>1, <2>2, <2>3, <2>4 DEF Counted, SetAsideEarned
<1>8. CASE /\ ~ListIndex /\ ~CloseList /\ ~Fetched /\ ~Die /\ ~SaveGuard
           /\ ~ \E d \in Docs : SetAside(d) \/ OpenAttempt(d)
  <2>1. UNCHANGED collected
    BY <1>8, CollectedFrame
  <2>2. CASE UNCHANGED <<pc, visit>>
    <3>1. Unsettled' = Unsettled
      BY <2>2 DEF Unsettled, doc
    <3> QED BY <2>1, <2>2, <3>1, CountedKept DEF Counted
  <2>3. CASE ~UNCHANGED <<pc, visit>>
    <3>1. pc \notin {"recueil", "fetching"}
      BY <1>8, <2>3 DEF Next, Step, Disturbance, StartSweep, EnterCity, StopSweep,
       ReadBaseline, PlanCoverage,
       MatchStates, Reserve, Call, Store, Candidate, BeginPublish, SealArchive, WritePlan,
       WriteCanonical, WriteReceipt, Project, MarkProjected, CoverDocument, FailDocument,
       HaltExtraction, Sigterm, StoreThrows, BreakOff, StartCity, Edit, PutBack,
       Publish, Withdraw, Extraction
    <3>2. pc' \notin {"recueil", "fetching"}
      BY <1>8, <2>3, <3>1 DEF Next, Step, Disturbance, StartSweep, EnterCity, StopSweep,
       ReadBaseline, PlanCoverage, Leave, Go, Advance, Break, Resume, ProjectionFails,
       MatchStates, Reserve, Call, Store, Candidate, BeginPublish, SealArchive, WritePlan,
       WriteCanonical, WriteReceipt, Project, MarkProjected, CoverDocument, FailDocument,
       HaltExtraction, Sigterm, StoreThrows, BreakOff, StartCity, Edit, PutBack,
       Publish, Withdraw, Extraction
    <3>3. Unsettled = {} /\ visit.aside = {}
      BY <1>0, <3>1, Settledness
    <3>4. AtVisit'
      BY PlacesStep DEF Places
    <3>5. Unsettled' = {} /\ visit'.aside = {}
      BY <3>2, <3>4 DEF AtVisit, Unsettled
    <3> QED BY <2>1, <3>3, <3>5, CountedKept
  <2> QED BY <2>2, <2>3
<1> QED
  BY <1>1, <1>2, <1>3, <1>4, <1>5, <1>6, <1>7, <1>8
-----------------------------------------------------------------------------
(* Listings.                                                                  *)

(* A document is unborn until its source publishes it, in the visit of its    *)
(* city, and never again.                                                     *)
LEMMA Births ==
  ASSUME Types, Next
  PROVE  /\ \A d \in Docs : listed[d] # "unborn" => listed'[d] # "unborn"
         /\ scenario' = scenario
         /\ \/ late' = late
            \/ \E d \in Docs : /\ late' = late \cup {d} /\ ledger[scenario.home[d]].primed
                               /\ listed[d] = "unborn"
<1>1. CASE UNCHANGED source
  BY <1>1 DEF source
<1>2. CASE \E d \in Docs : Publish(d) \/ Withdraw(d)
  <2>1. PICK d \in Docs : Publish(d) \/ Withdraw(d)
    BY <1>2
  <2>2. listed' = [listed EXCEPT ![d] = "listed"] \/ listed' = [listed EXCEPT ![d] = "gone"]
    BY <2>1 DEF Publish, Withdraw
  <2>3. \A e \in Docs : listed[e] # "unborn" => listed'[e] # "unborn"
    BY <2>2 DEF Types, SourceTypes
  <2> QED BY <2>1, <2>3 DEF Publish, Withdraw
<1> QED
  BY <1>1, <1>2, SourceFrame

(* How the ledgers change: an entry appears only for a document the visit     *)
(* collected, as owed, or as covered at the priming of its city; and a city   *)
(* stays primed unless its ledger could not be read.                          *)
LEMMA Entries ==
  ASSUME Places, Next
  PROVE  /\ blind \subseteq blind'
         /\ \A c \in Cities, d \in Docs :
              \/ ledger'[c].state[d] = ledger[c].state[d]
              \/ ledger'[c].state[d] = "none" /\ c \in blind'
              \/ /\ c = city /\ d \in visit.got
                 /\ \/ ledger'[c].state[d] = "pending"
                    \/ /\ ledger'[c].state[d] = "primed"
                       /\ ~ledger[c].primed \/ c \in blind'
              \/ /\ c = city /\ d = doc /\ pc \in Working
                 /\ ledger'[c].state[d] \in {"covered", "pending", "abandoned"}
                 /\ ledger'[c].state[d] = "covered" => pc \in {"cover", "known"}
         /\ \A c \in Cities : ledger[c].primed => ledger'[c].primed \/ c \in blind'
<1>0. Types /\ AtVisit /\ Homed /\ ledger \in [Cities -> Ledgers]
  BY DEF Places, Types, BooksTypes
<1>1. CASE UNCHANGED books \/ EnterCity
  BY <1>1 DEF books, EnterCity
<1>2. CASE PlanCoverage
  <2>1. PICK l0 \in Ledgers :
          LET l1 == Plan(l0, visit.got, job.mode = "sweep")
          IN /\ \/ l0 = ledger[city] /\ blind' = blind
                \/ l0 = EmptyLedger /\ blind' = blind \cup {city}
             /\ \/ ledger' = [ledger EXCEPT ![city] = l1]
                \/ ledger' = ledger /\ l1 = l0
    BY <1>0, <1>2, PlanWritten
  <2> DEFINE l1 == Plan(l0, visit.got, job.mode = "sweep")
  <2>2. PICK prime \in BOOLEAN : prime = (job.mode = "sweep")
    OBVIOUS
  <2>3. city \in Cities /\ visit.got \in SUBSET Docs
    BY <1>0, <1>2, PlanWritten
  <2>4. /\ l1.primed = (l0.primed \/ prime)
        /\ \A d \in Docs :
             \/ l1.state[d] = l0.state[d]
             \/ /\ d \in visit.got
                /\ l1.state[d] = IF prime /\ ~l0.primed THEN "primed" ELSE "pending"
    <3> HIDE DEF l1
    <3>1. l1 = Plan(l0, visit.got, prime)
      BY <2>2 DEF l1
    <3> QED BY <2>3, <3>1, PlanFacts
  <2>5. CASE ledger' = ledger
    BY <2>1, <2>5
  <2> HIDE DEF l1
  <2>6. CASE ledger' = [ledger EXCEPT ![city] = l1]
    <3>1. ledger'[city] = l1 /\ \A c \in Cities \ {city} : ledger'[c] = ledger[c]
      BY <1>0, <2>3, <2>6
    <3>2. CASE l0 = ledger[city] /\ blind' = blind
      <4>1. l0.primed => l1.primed
        BY <2>4
      <4>2. \A d \in Docs :
              \/ l1.state[d] = ledger[city].state[d]
              \/ /\ d \in visit.got
                 /\ \/ l1.state[d] = "pending"
                    \/ l1.state[d] = "primed" /\ ~ledger[city].primed
        BY <2>4, <3>2
      <4> QED BY <3>1, <3>2, <4>1, <4>2
    <3>3. CASE l0 = EmptyLedger /\ blind' = blind \cup {city}
      <4>1. \A d \in Docs : l0.state[d] = "none"
        BY <3>3 DEF EmptyLedger
      <4>2. \A d \in Docs :
              \/ l1.state[d] = "none"
              \/ d \in visit.got /\ l1.state[d] \in {"pending", "primed"}
        BY <2>4, <4>1
      <4>3. city \in blind' /\ blind \subseteq blind'
        BY <3>3
      <4> QED BY <3>1, <4>2, <4>3
    <3> QED BY <2>1, <3>2, <3>3
  <2> QED BY <2>1, <2>5, <2>6 DEF l1
<1>3. CASE CoverDocument \/ FailDocument
  <2>1. doc \in DocsOf(city) /\ city \in Cities /\ doc \in Owed(ledger[city]) /\ pc \in Working
    BY <1>0, <1>3 DEF CoverDocument, FailDocument, AtVisit, Working, Extraction, Types,
          JobTypes, doc
  <2>2. blind' = blind
    BY <1>3 DEF CoverDocument, FailDocument
  <2>3. CASE ledger' = ledger
    BY <2>2, <2>3
  <2>4. ASSUME NEW l \in Ledgers, ledger' = [ledger EXCEPT ![city] = l],
               l.primed = ledger[city].primed,
               \A e \in Docs \ {doc} : l.state[e] = ledger[city].state[e],
               \/ l.state[doc] \in {"pending", "abandoned"}
               \/ l.state[doc] = "covered" /\ pc \in {"cover", "known"}
        PROVE  /\ \A c \in Cities, d \in Docs :
                    \/ ledger'[c].state[d] = ledger[c].state[d]
                    \/ /\ c = city /\ d = doc /\ pc \in Working
                       /\ ledger'[c].state[d] \in {"covered", "pending", "abandoned"}
                       /\ ledger'[c].state[d] = "covered" => pc \in {"cover", "known"}
               /\ \A c \in Cities : ledger[c].primed => ledger'[c].primed
    <3>1. ledger'[city] = l /\ \A c \in Cities \ {city} : ledger'[c] = ledger[c]
      BY <1>0, <2>1, <2>4
    <3> QED BY <2>1, <2>4, <3>1
  <2>5. CASE ledger' = [ledger EXCEPT ![city] = Cover(@, doc)] /\ pc \in {"cover", "known"}
    <3>1. ledger' = [ledger EXCEPT ![city] = Cover(ledger[city], doc)]
      BY <1>0, <2>1, <2>5
    <3>2. /\ Cover(ledger[city], doc) \in Ledgers
          /\ Cover(ledger[city], doc).primed = ledger[city].primed
          /\ \A e \in Docs : Cover(ledger[city], doc).state[e] =
                               IF e = doc THEN "covered" ELSE ledger[city].state[e]
      BY <1>0, <2>1, CoverFacts DEF Owed
    <3> HIDE DEF Cover
    <3> QED BY <2>1, <2>2, <2>4, <2>5, <3>1, <3>2 DEF Owed
  <2>6. CASE ledger' = [ledger EXCEPT ![city] = Fail(@, doc)]
    <3>1. ledger' = [ledger EXCEPT ![city] = Fail(ledger[city], doc)]
      BY <1>0, <2>1, <2>6
    <3>2. /\ Fail(ledger[city], doc) \in Ledgers
          /\ Fail(ledger[city], doc).primed = ledger[city].primed
          /\ Fail(ledger[city], doc).state[doc] \in {"pending", "abandoned"}
          /\ \A e \in Docs \ {doc} :
               Fail(ledger[city], doc).state[e] = ledger[city].state[e]
      BY <1>0, <2>1, FailFacts DEF Owed
    <3> QED BY <2>1, <2>2, <2>4, <3>1, <3>2
  <2> QED BY <1>3, <2>3, <2>5, <2>6 DEF CoverDocument, FailDocument
<1> QED
  BY <1>1, <1>2, <1>3, BooksFrame

(* What the visit holds in memory comes from its listing or its ledger.       *)
LEMMA VisitFrame ==
  ASSUME Next
  PROVE  \/ visit' = visit \/ visit' = NoVisit
         \/ ReadBaseline \/ ListIndex \/ (\E d \in Docs : SetAside(d) \/ OpenAttempt(d))
         \/ Fetched \/ CloseList \/ PlanCoverage \/ MatchStates \/ BeginPublish
BY DEF Next, Step, Disturbance, StartSweep, EnterCity, StopSweep, SaveGuard,
       Reserve, Call, Store, Candidate, SealArchive, WritePlan, Leave, Go, Advance, Break,
       ProjectionFails,
       WriteCanonical, WriteReceipt, Project, MarkProjected, CoverDocument, FailDocument,
       HaltExtraction, Sigterm, Die, StoreThrows, BreakOff, StartCity, Edit, PutBack,
       Publish, Withdraw
\* Who may begin to work on a document.
LEMMA DocFrame ==
  ASSUME Next, pc' \in {"fetching"} \cup Working
  PROVE  \/ pc \in {"fetching"} \cup Working
         \/ PlanCoverage \/ \E d \in Docs : OpenAttempt(d)
BY DEF Next, Step, Disturbance, StartSweep, EnterCity, StopSweep, ReadBaseline,
       ListIndex, SetAside, Fetched, CloseList, Listed, SaveGuard,
       MatchStates, Reserve, Call, Store, Candidate, BeginPublish, SealArchive, WritePlan,
       WriteCanonical, WriteReceipt, Project, MarkProjected, CoverDocument, FailDocument,
       HaltExtraction, Sigterm, Die, StoreThrows, BreakOff, StartCity, Edit, PutBack,
       Publish, Withdraw, Leave, Go, Working, Extraction

(* What the visit holds is what its source has published.                     *)
LEMMA HeldBorn ==
  ASSUME Places, Listings, Next
  PROVE  /\ \A d \in visit'.todo \cup visit'.got : listed[d] # "unborn"
         /\ pc' \in {"fetching"} \cup Working => listed[visit'.doc] # "unborn"
<1>0. Types /\ AtVisit /\ visit \in Visits
  BY DEF Places, Types, JobTypes
<1>a. /\ \A d \in visit.todo \cup visit.got : listed[d] # "unborn"
      /\ pc \in {"fetching"} \cup Working => listed[visit.doc] # "unborn"
  BY DEF Listings, doc
<1>1. CASE visit' = NoVisit
  <2>1. visit'.todo = {} /\ visit'.got = {}
    BY <1>1 DEF NoVisit
  <2>2. AtVisit' /\ SourceTypes'
    BY PlacesStep DEF Places, Types
  <2>3. pc' \notin {"fetching"} \cup Working
    <3>1. visit'.doc = NoDoc
      BY <1>1 DEF NoVisit
    <3> QED BY <2>2, <3>1, NamesAssumption DEF AtVisit, DocsOf
  <2> QED BY <2>1, <2>3
<1>2. CASE visit' = visit /\ ~PlanCoverage /\ ~ \E d \in Docs : OpenAttempt(d)
  BY <1>a, <1>2, DocFrame
<1>3. CASE ReadBaseline /\ visit' # NoVisit
  BY <1>0, <1>3, <1>a DEF ReadBaseline, Leave, Visits, Working, Extraction
<1>4. CASE ListIndex /\ visit' # NoVisit
  <2>1. PICK offered \in SUBSET Docs :
          /\ \A d \in offered : listed[d] = "listed"
          /\ visit' = [visit EXCEPT !.todo = offered \ guard,
                                    !.known = (offered \cap guard # {})]
    BY <1>4 DEF ListIndex, Leave, DocsOf
  <2>2. visit'.todo \subseteq offered /\ visit'.got = visit.got
    BY <1>0, <2>1 DEF Visits
  <2>3. pc' = "recueil"
    BY <1>4 DEF ListIndex, Leave
  <2> QED BY <1>a, <2>1, <2>2, <2>3 DEF Working, Extraction
<1>5. ASSUME NEW d \in Docs, SetAside(d) \/ OpenAttempt(d)
      PROVE  /\ \A e \in visit'.todo \cup visit'.got : listed[e] # "unborn"
             /\ pc' \in {"fetching"} \cup Working => listed[visit'.doc] # "unborn"
  <2>1. visit'.todo = visit.todo \ {d} /\ visit'.got = visit.got /\ d \in visit.todo
    BY <1>0, <1>5 DEF SetAside, OpenAttempt, Visits
  <2>2. pc' = "recueil" \/ (pc' = "fetching" /\ visit'.doc = d)
    BY <1>0, <1>5 DEF SetAside, OpenAttempt, Visits
  <2> QED BY <1>a, <2>1, <2>2 DEF Working, Extraction
<1>6. CASE Fetched
  <2>1. visit'.todo = visit.todo /\ visit'.got \subseteq visit.got \cup {visit.doc}
        /\ pc = "fetching" /\ pc' = "recueil"
    BY <1>0, <1>6 DEF Fetched, Collected, Refused, Oversize, Visits, doc
  <2> QED BY <1>a, <2>1 DEF Working, Extraction
<1>7. CASE CloseList /\ visit' # NoVisit
  <2>1. Listed /\ ~Leave
    BY <1>7 DEF CloseList, Leave
  <2>2. visit'.todo = {} /\ visit'.got = visit.got /\ pc' = "guard"
    BY <1>0, <2>1 DEF Listed, Visits
  <2> QED BY <1>a, <2>2 DEF Working, Extraction
<1>8. CASE PlanCoverage /\ visit' # NoVisit
  <2>1. PICK l0 \in Ledgers :
          LET l1 == Plan(l0, visit.got, job.mode = "sweep")
          IN /\ l0 = ledger[city] \/ l0 = EmptyLedger
             /\ Owed(l1) # {} /\ pc' = "states"
             /\ visit' = [visit EXCEPT !.doc = First(l1, visit.got), !.got = {}]
    <3>1. ~Leave
      BY <1>8 DEF Leave
    <3> QED BY <1>0, <1>8, <3>1, PlanWritten
  <2> DEFINE l1 == Plan(l0, visit.got, job.mode = "sweep")
  <2>2. PICK prime \in BOOLEAN : prime = (job.mode = "sweep")
    OBVIOUS
  <2>3. city \in Cities /\ visit.got \in SUBSET Docs
    BY <1>0, <1>8, PlanWritten
  <2> HIDE DEF l1
  <2>4. \A d \in Docs : l1.state[d] = l0.state[d] \/ d \in visit.got
    <3>1. l1 = Plan(l0, visit.got, prime)
      BY <2>2 DEF l1
    <3> QED BY <2>3, <3>1, PlanFacts
  <2>5. First(l1, visit.got) \in Owed(l1)
    BY <2>1, FirstOwed DEF l1
  <2>6. listed[First(l1, visit.got)] # "unborn"
    <3>1. CASE First(l1, visit.got) \in visit.got
      BY <1>a, <3>1
    <3>2. CASE First(l1, visit.got) \notin visit.got
      <4>1. l0.state[First(l1, visit.got)] # "none" /\ First(l1, visit.got) \in Docs
        BY <2>4, <2>5, <3>2 DEF Owed
      <4>2. l0 = ledger[city]
        BY <2>1, <4>1 DEF EmptyLedger
      <4> QED BY <2>3, <4>1, <4>2 DEF Listings
    <3> QED BY <3>1, <3>2
  <2>7. visit'.doc = First(l1, visit.got) /\ visit'.got = {} /\ visit'.todo = visit.todo
    BY <1>0, <2>1 DEF Visits, l1
  <2> QED BY <1>a, <2>6, <2>7
<1>9. CASE MatchStates \/ BeginPublish
  <2>1. visit'.todo = visit.todo /\ visit'.got = visit.got /\ visit'.doc = visit.doc
    BY <1>0, <1>9 DEF MatchStates, BeginPublish, Go, Resume, Break, Advance, Visits
  <2>2. pc \in Working
    BY <1>9 DEF MatchStates, BeginPublish, Working, Extraction
  <2> QED BY <1>a, <2>1, <2>2
<1> QED
  BY <1>1, <1>2, <1>3, <1>4, <1>5, <1>6, <1>7, <1>8, <1>9, VisitFrame

\* Every step keeps what listings, guard and ledger say of late documents.
LEMMA ListingsStep ==
  ASSUME Places, Listings, Next
  PROVE  Listings'
<1>0. Types /\ AtVisit /\ Types' /\ Homed
  BY PlacesStep DEF Places
<1>a. scenario' = scenario /\ \A d \in Docs : scenario.home[d] \in Cities
  BY <1>0, Births, ScenarioAssumption DEF Types, SourceTypes
<1>b. /\ visit.got \subseteq Docs /\ visit.todo \subseteq Docs
      /\ pc \in {"fetching"} \cup Working => doc \in DocsOf(city)
      /\ visit.got \subseteq DocsOf(city)
  BY <1>0 DEF Types, JobTypes, Visits, AtVisit, doc
<1>1. /\ \A d \in visit'.todo \cup visit'.got : listed'[d] # "unborn"
      /\ pc' \in {"fetching"} \cup Working => listed'[visit'.doc] # "unborn"
  <2>1. visit'.todo \cup visit'.got \subseteq Docs
    BY <1>0 DEF Types, JobTypes, Visits
  <2>2. pc' \in {"fetching"} \cup Working => visit'.doc \in Docs
    <3>1. AtVisit'
      BY PlacesStep DEF Places
    <3> QED BY <3>1 DEF AtVisit, DocsOf
  <2> QED BY <1>0, <2>1, <2>2, HeldBorn, Births
<1>2. ASSUME NEW c \in Cities, NEW d \in Docs, ledger'[c].state[d] # "none"
      PROVE  listed'[d] # "unborn"
  <2>1. \/ ledger[c].state[d] # "none"
        \/ d \in visit.got \/ (d = doc /\ pc \in Working)
    BY <1>2, Entries
  <2>2. listed[d] # "unborn"
    BY <2>1 DEF Listings
  <2> QED BY <1>0, <2>2, Births
<1>3. ASSUME NEW d \in late'
      PROVE  ledger'[scenario.home[d]].primed \/ scenario.home[d] \in blind'
  <2>1. d \in Docs
    BY <1>0 DEF Types, SourceTypes
  <2>2. ledger[scenario.home[d]].primed \/ scenario.home[d] \in blind
    BY <1>0, <1>3, Births DEF Listings
  <2> QED BY <1>a, <2>1, <2>2, Entries
<1>4. ASSUME NEW d \in late', ledger'[scenario.home[d]].state[d] = "primed"
      PROVE  scenario.home[d] \in blind'
  <2> DEFINE c == scenario.home[d]
  <2>1. d \in Docs /\ c \in Cities
    BY <1>0, <1>a DEF Types, SourceTypes
  <2>2. \/ ledger[c].state[d] = "primed"
        \/ d \in visit.got /\ (~ledger[c].primed \/ c \in blind')
    BY <1>4, <2>1, Entries
  <2>3. CASE d \in late
    <3>1. ledger[c].primed \/ c \in blind
      BY <2>3 DEF Listings
    <3>2. ledger[c].state[d] = "primed" => c \in blind
      BY <2>3 DEF Listings, NewDocuments
    <3>3. blind \subseteq blind'
      BY Entries
    <3> QED BY <2>2, <3>1, <3>2, <3>3
  <2>4. CASE d \notin late
    <3>1. listed[d] = "unborn"
      BY <1>0, <2>4, Births
    <3> QED BY <2>1, <2>2, <3>1 DEF Listings
  <2> QED BY <2>3, <2>4
<1> QED
  BY <1>a, <1>1, <1>2, <1>3, <1>4 DEF Listings, NewDocuments, doc
-----------------------------------------------------------------------------
(* Payments.                                                                  *)
LEMMA PaidPlaces ==
  ASSUME Next, pc' \in {"chunk", "call", "store"}, ~Durable
  PROVE  UNCHANGED <<pc, visit>>
BY DEF Next, Step, Disturbance, Durable, StartSweep, EnterCity, StopSweep, ReadBaseline,
       ListIndex, SetAside, OpenAttempt, Fetched, CloseList, Listed, SaveGuard, PlanCoverage,
       WriteCanonical, CoverDocument, FailDocument, Leave, Go, Advance, Break,
       HaltExtraction, Sigterm, Die, StoreThrows, BreakOff, StartCity, Edit, PutBack,
       Publish, Withdraw

\* Every step keeps calls within what was reserved.
LEMMA PaymentsStep ==
  ASSUME Places, Payments, Next
  PROVE  Payments'
<1>0. /\ Types /\ AtVisit /\ visit \in Visits
      /\ runs \in [Docs -> [Versions -> Runs \cup {NoRun}]]
      /\ calls \in [Docs -> [Versions -> Nat]]
  BY DEF Places, Types, JobTypes, PaidTypes
<1>1. CASE ~Durable
  <2>1. runs' = runs /\ calls' = calls
    BY <1>1, PaidFrame DEF paid
  <2>2. CASE pc' \in {"chunk", "call", "store"}
    <3>1. pc' = pc /\ visit' = visit
      BY <1>1, <2>2, PaidPlaces
    <3> QED BY <2>1, <3>1 DEF Payments, CallsReserved, Known, OwnBytes, doc, run
  <2>3. CASE pc' \notin {"chunk", "call", "store"}
    BY <2>1, <2>3 DEF Payments, CallsReserved
  <2> QED BY <2>2, <2>3
<1>2. CASE MatchStates
  <2>1. /\ doc \in Docs /\ visit.base \in Versions /\ calls' = calls
        /\ visit'.doc = doc /\ visit'.base = visit.base
        /\ \/ pc' \in {"known", "publish"} /\ runs' = runs
           \/ /\ pc' = "chunk" /\ visit'.from = visit.base
              /\ ~Known(doc) /\ OwnBytes(doc, visit.base) = {}
              /\ runs' = IF runs[doc][visit.base] = NoRun
                         THEN [runs EXCEPT ![doc][visit.base] = NewRun] ELSE runs
    BY <1>0, <1>2, MatchWrites
  <2>2. CASE runs' = runs
    BY <2>1, <2>2 DEF Payments, CallsReserved, Known, OwnBytes, doc
  <2>3. CASE runs' # runs
    <3>1. /\ runs[doc][visit.base] = NoRun /\ pc' = "chunk"
          /\ runs' = [runs EXCEPT ![doc][visit.base] = NewRun]
      BY <2>1, <2>3
    <3>2. NewRun.reserved = 0 /\ ~NewRun.published /\ NewRun.projected # "completed"
      BY DEF NewRun
    <3>3. /\ runs'[doc][visit.base] = NewRun
          /\ \A d \in Docs, v \in Versions :
               <<d, v>> # <<doc, visit.base>> => runs'[d][v] = runs[d][v]
      BY <1>0, <2>1, <3>1
    <3>4. CallsReserved'
      <4> SUFFICES ASSUME NEW d \in Docs, NEW v \in Versions
                   PROVE  calls[d][v] <= IF runs'[d][v] = NoRun THEN 0 ELSE runs'[d][v].reserved
        BY <2>1 DEF CallsReserved
      <4>1. calls[d][v] <= IF runs[d][v] = NoRun THEN 0 ELSE runs[d][v].reserved
        BY DEF Payments, CallsReserved
      <4>2. CASE <<d, v>> = <<doc, visit.base>>
        BY <3>1, <3>2, <3>3, <4>1, <4>2
      <4>3. CASE <<d, v>> # <<doc, visit.base>>
        BY <3>3, <4>1, <4>3
      <4> QED BY <4>2, <4>3
    <3>5. ~Known(doc)'
      BY <2>1, <3>1, <3>2, <3>3 DEF Known, doc
    <3>6. OwnBytes(doc, visit.base)' = {}
      BY <2>1, <3>1, <3>2, <3>3 DEF OwnBytes, doc
    <3> QED BY <3>1, <3>4, <3>5, <3>6 DEF Payments
  <2> QED BY <2>2, <2>3
<1>3. CASE Call
  <2>1. /\ pc = "call" /\ pc' \in {"store", "failing"} /\ visit' = visit /\ runs' = runs
        /\ calls' = [calls EXCEPT ![doc][visit.from] = calls[doc][visit.from] + 1]
    BY <1>0, <1>3 DEF Call, Advance, Break, Go
  <2>2. doc \in Docs /\ visit.from \in Versions /\ run # NoRun
    BY <1>0, <2>1 DEF AtVisit, Working, Extraction, DocsOf, doc
  <2>3. calls[doc][visit.from] < run.reserved
    BY <2>1 DEF Payments
  <2>4. CallsReserved'
    <3> SUFFICES ASSUME NEW d \in Docs, NEW v \in Versions
                 PROVE  calls'[d][v] <= IF runs[d][v] = NoRun THEN 0 ELSE runs[d][v].reserved
      BY <2>1 DEF CallsReserved
    <3>1. calls[d][v] <= IF runs[d][v] = NoRun THEN 0 ELSE runs[d][v].reserved
      BY DEF Payments, CallsReserved
    <3>2. CASE d = doc /\ v = visit.from
      <4>1. calls'[d][v] = calls[d][v] + 1 /\ calls[d][v] \in Nat /\ run.reserved \in Int
        BY <1>0, <2>1, <2>2, <3>2 DEF run, Runs, doc
      <4> QED BY <2>2, <2>3, <3>2, <4>1 DEF run, doc
    <3>3. CASE ~(d = doc /\ v = visit.from)
      BY <1>0, <2>1, <2>2, <3>1, <3>3
    <3> QED BY <3>2, <3>3
  <2> QED BY <2>1, <2>4 DEF Payments, Known, OwnBytes, doc
<1>4. ASSUME Reserve \/ Store \/ Candidate \/ BeginPublish \/ SealArchive \/ WritePlan
             \/ WriteReceipt \/ Project \/ MarkProjected
      PROVE  Payments'
  <2>1. /\ doc \in Docs /\ visit.from \in Versions /\ run \in Runs /\ calls' = calls
        /\ runs' = runs \/ \E r \in Runs : UpdateRun(r) /\ Writes(r)
    BY <1>0, <1>4, DurableWrites
  <2>2. CASE pc' \notin {"chunk", "call"} /\ runs' = runs
    <3>1. pc' # "store"
      BY <1>4 DEF Reserve, Store, Candidate, BeginPublish, SealArchive, WritePlan,
            WriteReceipt, Project, MarkProjected, Advance, Break, Go, ProjectionFails
    <3> QED BY <2>1, <2>2, <3>1 DEF Payments, CallsReserved
  <2>3. ASSUME NEW r \in Runs, UpdateRun(r), Writes(r) PROVE Payments'
    <3>1. /\ runs'[doc][visit.from] = r
          /\ \A d \in Docs, v \in Versions :
               <<d, v>> # <<doc, visit.from>> => runs'[d][v] = runs[d][v]
      BY <1>0, <2>1, <2>3, RunWritten DEF Types
    <3>2. r # NoRun /\ run # NoRun
      BY <2>1, NamesAssumption
    <3>3. r.reserved >= run.reserved
      BY <2>1, <2>3 DEF Writes, Reserved, Runs
    <3>4. CallsReserved'
      <4> SUFFICES ASSUME NEW d \in Docs, NEW v \in Versions
                   PROVE  calls[d][v] <= IF runs'[d][v] = NoRun THEN 0 ELSE runs'[d][v].reserved
        BY <2>1 DEF CallsReserved
      <4>1. calls[d][v] <= IF runs[d][v] = NoRun THEN 0 ELSE runs[d][v].reserved
        BY DEF Payments, CallsReserved
      <4>2. CASE d = doc /\ v = visit.from
        <5>1. calls[d][v] \in Nat /\ run.reserved \in Int /\ r.reserved \in Int
          BY <1>0, <2>1 DEF Runs
        <5> QED BY <3>1, <3>2, <3>3, <4>1, <4>2, <5>1 DEF run, doc
      <4>3. CASE ~(d = doc /\ v = visit.from)
        BY <3>1, <4>1, <4>3
      <4> QED BY <4>2, <4>3
    <3>5. CASE pc' \notin {"chunk", "call", "store"}
      BY <3>4, <3>5 DEF Payments
    <3>6. CASE pc' \in {"chunk", "call", "store"}
      <4>1. visit' = visit /\ (Reserve \/ Store)
        BY <1>4, <3>6 DEF Reserve, Store, Candidate, BeginPublish, SealArchive, WritePlan,
            WriteReceipt, Project, MarkProjected, Advance, Break, Go, ProjectionFails
      <4>2. pc \in {"chunk", "store"} /\ (pc' = "call" => Reserve)
        BY <4>1 DEF Reserve, Store, Advance, Break, Go
      <4>3. /\ r.published = run.published /\ r.snap = run.snap /\ r.projected = run.projected
            /\ Reserve => r.reserved = run.reserved + 1
        BY <2>1, <2>3, <4>1 DEF Writes, Reserved, Runs, Reserve, Store, Candidate, BeginPublish,
              SealArchive, WritePlan, WriteReceipt, Project, MarkProjected
      <4>4. ~Known(doc)'
        BY <2>1, <3>1, <3>2, <4>1, <4>2, <4>3 DEF Payments, Known, run, doc
      <4>5. OwnBytes(doc, visit.base)' = {}
        BY <2>1, <3>1, <3>2, <4>1, <4>2, <4>3 DEF Payments, OwnBytes, run, doc
      <4>6. pc' = "call" => calls'[doc][visit.from] < r.reserved
        <5>1. calls[doc][visit.from] <= run.reserved
          BY <2>1, <3>2 DEF Payments, CallsReserved, run, doc
        <5>2. calls[doc][visit.from] \in Nat /\ run.reserved \in Int
          BY <1>0, <2>1 DEF Runs
        <5> QED BY <2>1, <4>2, <4>3, <5>1, <5>2
      <4>7. run' = r /\ doc' = doc /\ visit' = visit
        BY <3>1, <4>1 DEF run, doc
      <4> QED BY <3>4, <4>4, <4>5, <4>6, <4>7 DEF Payments
    <3> QED BY <3>5, <3>6
  <2>4. runs' = runs => pc' \notin {"chunk", "call"}
    <3> SUFFICES ASSUME runs' = runs, pc' \in {"chunk", "call"} PROVE FALSE
      OBVIOUS
    <3>1. CASE Reserve
      <4>1. pc' = "call" /\ UpdateRun(Reserved(run))
        BY <3>1 DEF Reserve, Break, Advance, Go
      <4>2. runs'[doc][visit.from] = Reserved(run)
        BY <1>0, <2>1, <4>1 DEF UpdateRun
      <4>3. Reserved(run).reserved = run.reserved + 1 /\ run.reserved \in Int
        BY <2>1 DEF Reserved, Runs
      <4>4. run = Reserved(run)
        BY <4>2 DEF run, doc
      <4>5. run.reserved = Reserved(run).reserved
        BY <4>4
      <4> QED BY <4>3, <4>5
    <3>2. CASE Store
      <4>1. UpdateRun([run EXCEPT !.stored = @ + 1])
        BY <3>2 DEF Store
      <4>2. runs'[doc][visit.from] = [run EXCEPT !.stored = @ + 1]
        BY <1>0, <2>1, <4>1 DEF UpdateRun
      <4>3. [run EXCEPT !.stored = @ + 1].stored = run.stored + 1 /\ run.stored \in Int
        BY <2>1 DEF Runs
      <4>4. run = [run EXCEPT !.stored = @ + 1]
        BY <4>2 DEF run, doc
      <4>5. run.stored = [run EXCEPT !.stored = @ + 1].stored
        BY <4>4, Zenon
      <4> QED BY <4>3, <4>5
    <3>3. CASE ~Reserve /\ ~Store
      BY <1>4, <3>3 DEF Candidate, BeginPublish, SealArchive, WritePlan,
            WriteReceipt, Project, MarkProjected, Advance, Break, Go, ProjectionFails
    <3> QED BY <3>1, <3>2, <3>3
  <2> QED BY <2>1, <2>2, <2>3, <2>4
<1> QED
  BY <1>1, <1>2, <1>3, <1>4 DEF Durable

(* The extraction is paid where it is owed.                                   *)
LEMMA PaidOnceStep ==
  ASSUME Places, Payments, Next
  PROVE  calls' # calls => ~Known(doc) /\ OwnBytes(doc, visit.base) = {}
<1>1. CASE ~Durable
  BY <1>1, PaidFrame DEF paid
<1>2. CASE Call
  BY <1>2 DEF Call, Payments
<1>3. CASE Durable /\ ~Call
  BY <1>3 DEF Durable, MatchStates, Reserve, Store, Candidate, BeginPublish, SealArchive,
       WritePlan, WriteReceipt, Project, MarkProjected, ProjectionFails
<1> QED
  BY <1>1, <1>2, <1>3
-----------------------------------------------------------------------------
(* Contents.                                                                  *)

(* Versions in use keep what they hold, and what was reached stays so.        *)
LEMMA Freshness ==
  ASSUME Places, Next
  PROVE  /\ Used \subseteq Used' /\ \A v \in Used : holds'[v] = holds[v]
         /\ reached \subseteq reached' /\ restored \subseteq restored'
         /\ \/ UNCHANGED <<holds, fresh>>
            \/ /\ fresh \in Versions /\ fresh \notin Used /\ fresh \in Used'
               /\ Candidate \/ \E c \in Cities : Edit(c)
<1>0. holds \in [Versions -> SUBSET Docs] /\ fresh \in 0..MaxVersion + 1
  BY DEF Places, Types, GraphTypes
<1>1. CASE UNCHANGED <<holds, fresh>>
  BY <1>1, GraphFrame DEF graphs, Candidate, WriteCanonical, Project, Edit, PutBack, Used
<1>2. CASE ~UNCHANGED <<holds, fresh>>
  <2>1. Candidate \/ \E c \in Cities : Edit(c)
    BY <1>2, GraphFrame DEF graphs, WriteCanonical, Project, PutBack
  <2>2. PICK h : /\ holds' = [holds EXCEPT ![fresh] = h] /\ fresh' = fresh + 1
                 /\ fresh <= MaxVersion
    BY <1>2, <2>1 DEF Candidate, Edit
  <2>3. fresh \in Versions /\ fresh \notin Used /\ fresh \in Used' /\ Used \subseteq Used'
    BY <1>0, <2>2, BoundsAssumption DEF Versions, Used
  <2>4. \A v \in Used : holds'[v] = holds[v]
    BY <1>0, <2>2, <2>3 DEF Used
  <2>5. reached' = reached /\ restored' = restored
    BY <2>1 DEF Candidate, Edit
  <2> QED BY <2>1, <2>3, <2>4, <2>5
<1> QED
  BY <1>1, <1>2

\* The absence of a graph is no version.
LEMMA NoVersionUsed == NoVersion \notin Used /\ NoVersion \notin Versions
BY NamesAssumption DEF Used

\* Every step numbers new versions after those in use.
LEMMA NumberedStep ==
  ASSUME Places, Contents, Next
  PROVE  Numbered'
<1>0. Types /\ AtVisit /\ GraphTypes /\ visit \in Visits /\ Used \subseteq Used'
  BY Freshness DEF Places, Types, JobTypes
<1>a. /\ \A c \in Cities :
           /\ canonical[c] \in Used \cup {NoVersion} /\ pg[c] \in Used \cup {NoVersion}
           /\ canonized[c] \subseteq Used
      /\ visit.base \in Used \cup {NoVersion} /\ visit.from \in Used \cup {NoVersion}
  BY DEF Contents, Numbered
(* A run's candidate is numbered.                                             *)
<1>b. ASSUME WriteCanonical \/ Project
      PROVE  city \in Cities /\ run.snap \in Used /\ doc \in Docs
  <2>1. city \in Cities /\ run.snap \in Versions /\ doc \in Docs /\ visit.from \in Versions
        /\ run # NoRun
    BY <1>0, <1>b DEF WriteCanonical, Project, AtVisit, Publishing, Types, JobTypes, Working,
          Extraction, DocsOf, doc
  <2>2. run.snap \in Used \cup {NoVersion}
    BY <2>1 DEF Contents, Traced, run, doc
  <2> QED BY <2>1, <2>2, NoVersionUsed
<1> DEFINE Graphs == \A c \in Cities :
           /\ canonical'[c] \in Used' \cup {NoVersion} /\ pg'[c] \in Used' \cup {NoVersion}
           /\ canonized'[c] \subseteq Used'
<1>1. Graphs
  <2>1. CASE UNCHANGED graphs \/ Candidate
    BY <1>0, <1>a, <2>1 DEF graphs, Candidate
  <2>2. CASE WriteCanonical
    BY <1>0, <1>a, <1>b, <2>2 DEF WriteCanonical, GraphTypes
  <2>3. CASE Project
    <3>1. canonical' = canonical /\ canonized' = canonized
          /\ (pg' = pg \/ pg' = [pg EXCEPT ![city] = run.snap])
      BY <2>3 DEF Project
    <3> QED BY <1>0, <1>a, <1>b, <2>3, <3>1 DEF GraphTypes
  <2>4. ASSUME NEW c \in Cities, NEW v \in Used', Replace(c, v) PROVE Graphs
    <3>1. /\ canonical' = [canonical EXCEPT ![c] = v]
          /\ canonized' = [canonized EXCEPT ![c] = canonized[c] \cup {v}]
          /\ pg' = pg \/ pg' = [pg EXCEPT ![c] = v]
      BY <1>0, <2>4 DEF Replace, GraphTypes
    <3> QED BY <1>0, <1>a, <2>4, <3>1 DEF GraphTypes
  <2>5. ASSUME NEW c \in Cities, Edit(c) PROVE Graphs
    <3>1. fresh \in Used'
      <4>1. fresh' = fresh + 1 /\ fresh <= MaxVersion
        BY <2>5 DEF Edit
      <4> QED BY <1>0, <4>1, BoundsAssumption DEF GraphTypes, Used, Versions
    <3> QED BY <2>4, <2>5, <3>1 DEF Edit
  <2>6. ASSUME NEW c \in Cities, NEW v \in Versions, PutBack(c, v) PROVE Graphs
    BY <1>0, <1>a, <2>4, <2>6 DEF PutBack
  <2> QED BY <2>1, <2>2, <2>3, <2>5, <2>6, GraphFrame
<1>2. visit'.base \in Used' \cup {NoVersion} /\ visit'.from \in Used' \cup {NoVersion}
  <2>1. CASE visit' = visit \/ visit' = NoVisit
    BY <1>0, <1>a, <2>1 DEF NoVisit
  <2>2. CASE ReadBaseline /\ visit' # NoVisit
    <3>1. visit' = [visit EXCEPT !.base = canonical[city]] /\ pc = "baseline"
      BY <2>2 DEF ReadBaseline, Leave
    <3>2. visit'.base = canonical[city] /\ visit'.from = visit.from /\ city \in Cities
      BY <1>0, <3>1 DEF Visits, Types, JobTypes
    <3> QED BY <1>0, <1>a, <3>2
  <2>3. CASE /\ visit' # NoVisit
             /\ ListIndex \/ (\E d \in Docs : SetAside(d) \/ OpenAttempt(d))
                \/ Fetched \/ CloseList \/ PlanCoverage \/ BeginPublish
    <3>1. visit'.base = visit.base /\ visit'.from = visit.from
      <4>1. CASE ListIndex
        BY <1>0, <2>3, <4>1 DEF ListIndex, Leave, Visits
      <4>2. CASE \E d \in Docs : SetAside(d) \/ OpenAttempt(d)
        BY <1>0, <4>2 DEF SetAside, OpenAttempt, Visits
      <4>3. CASE Fetched
        BY <1>0, <4>3 DEF Fetched, Collected, Refused, Oversize, Visits
      <4>4. CASE CloseList
        <5>1. Listed /\ ~Leave
          BY <2>3, <4>4 DEF CloseList, Leave
        <5> QED BY <1>0, <5>1 DEF Listed, Visits
      <4>5. CASE PlanCoverage
        <5>1. ~Leave
          BY <2>3 DEF Leave
        <5>2. \E x : visit' = [visit EXCEPT !.doc = x, !.got = {}]
          BY <1>0, <4>5, <5>1, PlanWritten
        <5> QED BY <1>0, <5>2 DEF Visits
      <4>6. CASE BeginPublish
        BY <1>0, <4>6 DEF BeginPublish, Break, Advance, Go, Visits
      <4> QED BY <2>3, <4>1, <4>2, <4>3, <4>4, <4>5, <4>6
    <3> QED BY <1>0, <1>a, <3>1
  <2>4. CASE MatchStates
    <3>1. /\ doc \in Docs /\ visit'.base = visit.base
          /\ \/ visit' = visit \/ visit'.from = visit.base
             \/ visit'.from \in OwnBytes(doc, visit.base)
      BY <1>0, <2>4, MatchWrites
    <3>2. OwnBytes(doc, visit.base) \subseteq Used
      BY <3>1 DEF OwnBytes, Contents, Traced
    <3> QED BY <1>0, <1>a, <3>1, <3>2
  <2> QED BY <2>1, <2>2, <2>3, <2>4, VisitFrame
<1> QED
  BY <1>1, <1>2 DEF Numbered

(* A run that stands: what it holds and reached does not come undone.         *)
LEMMA TracedKept ==
  ASSUME Places, Contents, Next, NEW d \in Docs, NEW v \in Versions,
         NEW r, r = runs[d][v], r # NoRun
  PROVE  /\ v \in Used' /\ r.snap \in Used' \cup {NoVersion}
         /\ r.snap # NoVersion => holds'[v] \cup {d} \subseteq holds'[r.snap]
         /\ r.projected = "completed" => d \in reached'
<1>1. /\ v \in Used /\ r.snap \in Used \cup {NoVersion}
      /\ r.snap # NoVersion => holds[v] \cup {d} \subseteq holds[r.snap]
      /\ r.projected = "completed" => d \in reached
  BY DEF Contents, Traced
<1>2. /\ Used \subseteq Used' /\ \A w \in Used : holds'[w] = holds[w]
      /\ reached \subseteq reached'
  BY Freshness
<1> QED
  BY <1>1, <1>2

\* Every step keeps in a candidate its baseline and its document, and a run marked projected true.
LEMMA TracedStep ==
  ASSUME Places, Contents, Next
  PROVE  Traced'
<1>0. /\ Types /\ AtVisit /\ runs \in [Docs -> [Versions -> Runs \cup {NoRun}]]
  BY DEF Places, Types, PaidTypes
<1> SUFFICES ASSUME NEW d \in Docs, NEW v \in Versions, runs'[d][v] # NoRun
             PROVE  /\ v \in Used' /\ runs'[d][v].snap \in Used' \cup {NoVersion}
                    /\ runs'[d][v].snap # NoVersion =>
                         holds'[v] \cup {d} \subseteq holds'[runs'[d][v].snap]
                    /\ runs'[d][v].projected = "completed" => d \in reached'
  BY DEF Traced
<1>1. CASE runs'[d][v] = runs[d][v]
  BY <1>1, TracedKept
<1>2. CASE runs'[d][v] # runs[d][v]
  <2>1. Durable
    BY <1>2, PaidFrame DEF paid
  <2>2. CASE MatchStates
    <3>1. /\ doc \in Docs /\ visit.base \in Versions
          /\ runs' = [runs EXCEPT ![doc][visit.base] = NewRun]
      BY <1>0, <1>2, <2>2, MatchWrites
    <3>2. d = doc /\ v = visit.base /\ runs'[d][v] = NewRun
      BY <1>0, <1>2, <3>1
    <3>3. v \in Used
      BY <3>1, <3>2, NoVersionUsed DEF Contents, Numbered
    <3> QED BY <3>2, <3>3, Freshness DEF NewRun
  <2>3. CASE Call
    BY <1>2, <2>3 DEF Call
  <2>4. CASE Reserve \/ Store \/ Candidate \/ BeginPublish \/ SealArchive \/ WritePlan
             \/ WriteReceipt \/ Project \/ MarkProjected
    <3>1. doc \in Docs /\ visit.from \in Versions /\ run \in Runs
      BY <1>0, <2>4, DurableWrites
    <3>2. PICK r \in Runs : UpdateRun(r) /\ Writes(r)
      BY <1>0, <1>2, <2>4, DurableWrites
    <3>3. d = doc /\ v = visit.from /\ runs'[d][v] = r /\ run = runs[d][v]
      BY <1>0, <1>2, <3>1, <3>2, RunWritten DEF Types, run, doc
    <3>4. run # NoRun
      BY <3>1, NamesAssumption
    <3>5. /\ v \in Used' /\ run.snap \in Used' \cup {NoVersion}
          /\ run.snap # NoVersion => holds'[v] \cup {d} \subseteq holds'[run.snap]
          /\ run.projected = "completed" => d \in reached'
      BY <3>3, <3>4, TracedKept
    <3>6. CASE r.snap = run.snap /\ (r.projected = "completed" => d \in reached')
      BY <3>3, <3>5, <3>6
    <3>7. CASE r = [run EXCEPT !.snap = fresh] /\ Candidate /\ run.snap = NoVersion
      <4>1. r.snap = fresh /\ r.projected = run.projected
        BY <3>1, <3>7 DEF Runs
      <4>2. holds' = [holds EXCEPT ![fresh] = Merged(visit.from)] /\ fresh' = fresh + 1
            /\ fresh <= MaxVersion
        BY <3>7 DEF Candidate
      <4>3. fresh \in Versions /\ fresh \in Used' /\ fresh \notin Used
        BY <1>0, <4>2, BoundsAssumption DEF Types, GraphTypes, Versions, Used
      <4>4. holds'[fresh] = holds[v] \cup {d}
        BY <1>0, <3>3, <4>2, <4>3 DEF Merged, Types, GraphTypes, doc
      <4>5. v \in Used
        BY <3>3, <3>4 DEF Contents, Traced
      <4>6. holds'[v] = holds[v]
        BY <4>5, Freshness
      <4> QED BY <3>3, <3>5, <4>1, <4>3, <4>4, <4>6
    <3>8. CASE r = [run EXCEPT !.projected = "completed"] /\ MarkProjected
      <4>1. r.snap = run.snap /\ d \in reached
        BY <3>1, <3>3, <3>8 DEF Runs, MarkProjected, Contents, Carried
      <4>2. d \in reached'
        BY <4>1, Freshness
      <4> QED BY <3>3, <3>5, <4>1, <4>2
    <3>9. CASE \/ r = Reserved(run) \/ r = [run EXCEPT !.stored = @ + 1]
               \/ r = [run EXCEPT !.archive = Partial]
               \/ r = [run EXCEPT !.archive = visit.copied]
               \/ r = [run EXCEPT !.plan = TRUE] \/ r = [run EXCEPT !.published = TRUE]
               \/ r = [run EXCEPT !.projected = "failed"]
      <4>1. r.snap = run.snap /\ r.projected \in {run.projected, "failed"}
        BY <3>1, <3>9 DEF Runs, Reserved
      <4> QED BY <3>3, <3>5, <4>1
    <3> QED BY <3>2, <3>7, <3>8, <3>9 DEF Writes
  <2> QED BY <2>1, <2>2, <2>3, <2>4 DEF Durable
<1> QED
  BY <1>1, <1>2
(* What another writer does to a city keeps what its graphs show.             *)
LEMMA ShowsKept ==
  ASSUME Places, Contents, Next, NEW c, NEW S, NEW v \in Used \cup {NoVersion},
         Shows(c, v, S)
  PROVE  Shows(c, v, S)'
BY Freshness, NoVersionUsed DEF Shows

\* Another writer's edit keeps what it edits, or puts an older graph back.
LEMMA EditShows ==
  ASSUME Places, Contents, NEW c \in Cities, Edit(c), Next,
         NEW S, Shows(c, canonical[c], S)
  PROVE  canonical'[c] = fresh /\ (c \in restored' \/ \A d \in S : fresh # NoVersion /\ d \in holds'[fresh])
<1>0. GraphTypes /\ fresh \in Versions
  BY BoundsAssumption DEF Places, Types, Edit, GraphTypes, Versions
<1>1. canonical'[c] = fresh /\ restored' = restored
  BY <1>0 DEF Edit, Replace, GraphTypes
<1>2. holds'[fresh] = IF canonical[c] = NoVersion THEN {} ELSE holds[canonical[c]]
  BY <1>0 DEF Edit, GraphTypes
<1> QED
  BY <1>0, <1>1, <1>2, NoVersionUsed DEF Shows

(* The candidate about to be written holds all that was reached.              *)
LEMMA WriteShows ==
  ASSUME Places, Contents, WriteCanonical
  PROVE  /\ city \in Cities /\ doc \in Docs /\ run.snap \in Used
         /\ pc' = "receipt" =>
              /\ canonical'[city] = run.snap
              /\ Shows(city, run.snap, ReachedOf(city) \cup {doc})
<1>0. Types /\ AtVisit /\ GraphTypes
  BY DEF Places, Types
<1>1. /\ pc = "write" /\ city \in Cities /\ doc \in Docs /\ visit.from \in Versions
      /\ run # NoRun /\ run.snap \in Versions /\ visit.base \in Versions
  BY <1>0 DEF WriteCanonical, AtVisit, Publishing, Visiting, Types, JobTypes, Working,
        Extraction, DocsOf, doc
<1>2. run.snap \in Used /\ holds[visit.from] \cup {doc} \subseteq holds[run.snap]
  BY <1>1, NoVersionUsed DEF Contents, Traced, run, doc
<1>3. Shows(city, canonical[city], ReachedOf(city))
  BY <1>1 DEF Contents, Shown
<1>4. ASSUME pc' = "receipt"
      PROVE  /\ canonical'[city] = run.snap
             /\ Shows(city, run.snap, ReachedOf(city) \cup {doc})
  <2>1. CASE canonical[city] = run.snap /\ canonical' = canonical
    BY <1>2, <1>3, <2>1, <1>1, NoVersionUsed DEF Shows
  <2>2. CASE canonical[city] = visit.base /\ canonical' = [canonical EXCEPT ![city] = run.snap]
    <3>1. canonical'[city] = run.snap
      BY <1>0, <1>1, <2>2 DEF GraphTypes
    <3>2. visit.from = visit.base \/ run.snap = visit.base
      BY <1>1 DEF Contents, Carried, Extraction
    <3>3. CASE visit.from = visit.base
      BY <1>1, <1>2, <1>3, <2>2, <3>1, <3>3, NoVersionUsed DEF Shows
    <3>4. CASE run.snap = visit.base
      BY <1>1, <1>2, <1>3, <2>2, <3>1, <3>4, NoVersionUsed DEF Shows
    <3> QED BY <3>2, <3>3, <3>4
  <2> QED BY <1>4, <2>1, <2>2 DEF WriteCanonical, Writable, Break, Advance, Go
<1> QED
  BY <1>1, <1>2, <1>4

\* Every step keeps covered documents in the canonical graph and its projection.
LEMMA ShownStep ==
  ASSUME Places, Contents, Next
  PROVE  Shown'
<1>0. Types /\ AtVisit /\ GraphTypes /\ scenario' = scenario /\ SourceTypes
  BY Births DEF Places, Types
<1> SUFFICES ASSUME NEW c \in Cities
             PROVE  Shows(c, canonical[c], ReachedOf(c))' /\ Shows(c, pg[c], ReachedOf(c))'
  BY DEF Shown
<1>1. /\ Shows(c, canonical[c], ReachedOf(c)) /\ Shows(c, pg[c], ReachedOf(c))
      /\ canonical[c] \in Used \cup {NoVersion} /\ pg[c] \in Used \cup {NoVersion}
  BY DEF Contents, Shown, Numbered
<1>2. /\ Used \subseteq Used' /\ \A v \in Used : holds'[v] = holds[v]
      /\ restored \subseteq restored'
  BY Freshness
<1> DEFINE Good(v, S) == c \in restored' \/ \A d \in S : v # NoVersion /\ d \in holds'[v]
<1>3. \A v \in Used \cup {NoVersion} : \A S : Shows(c, v, S) => Good(v, S)
  BY <1>2, NoVersionUsed DEF Shows
<1>p. reached' = reached \/ (Project /\ pg' # pg) \/ (Project /\ reached' = reached \cup {doc})
  BY GraphFrame DEF graphs, Candidate, WriteCanonical, Edit, PutBack, Project
<1>4. CASE ~Project \/ (reached' = reached /\ pg' = pg)
  <2>1. ReachedOf(c)' = ReachedOf(c)
    BY <1>0, <1>4, <1>p DEF ReachedOf, DocsOf
  <2>2. Good(canonical'[c], ReachedOf(c)) /\ Good(pg'[c], ReachedOf(c))
    <3>1. CASE canonical'[c] = canonical[c] /\ pg'[c] = pg[c]
      BY <1>1, <1>3, <3>1
    <3>2. CASE WriteCanonical
      <4>1. pg' = pg
        BY <3>2 DEF WriteCanonical
      <4>2. CASE canonical'[c] = canonical[c]
        BY <1>1, <1>3, <4>1, <4>2
      <4>3. CASE canonical'[c] # canonical[c]
        <5>1. c = city /\ pc' = "receipt"
          BY <1>0, <3>2, <4>3 DEF WriteCanonical, Advance, Go, GraphTypes
        <5>2. canonical'[c] = run.snap /\ run.snap \in Used
              /\ Shows(c, run.snap, ReachedOf(c) \cup {doc})
          BY <3>2, <5>1, WriteShows
        <5>3. Shows(c, run.snap, ReachedOf(c))
          BY <5>2 DEF Shows
        <5> QED BY <1>1, <1>3, <4>1, <5>2, <5>3
      <4> QED BY <4>2, <4>3
    <3>3. CASE Candidate \/ Project
      BY <1>4, <3>3, <3>1 DEF Candidate, Project
    <3>4. ASSUME NEW e \in Cities, Edit(e)
          PROVE  Good(canonical'[c], ReachedOf(c)) /\ Good(pg'[c], ReachedOf(c))
      <4>1. CASE c = e
        <5>1. canonical'[c] = fresh /\ Good(fresh, ReachedOf(c))
          BY <1>1, <3>4, <4>1, EditShows
        <5>2. pg'[c] = pg[c] \/ pg'[c] = fresh
          BY <1>0, <3>4, <4>1 DEF Edit, Replace, GraphTypes
        <5> QED BY <1>1, <1>3, <5>1, <5>2
      <4>2. CASE c # e
        <5>1. canonical'[c] = canonical[c] /\ pg'[c] = pg[c]
          BY <1>0, <3>4, <4>2 DEF Edit, Replace, GraphTypes
        <5> QED BY <1>1, <1>3, <5>1
      <4> QED BY <4>1, <4>2
    <3>5. ASSUME NEW e \in Cities, NEW v \in Versions, PutBack(e, v)
          PROVE  Good(canonical'[c], ReachedOf(c)) /\ Good(pg'[c], ReachedOf(c))
      <4>1. CASE c = e
        BY <3>5, <4>1 DEF PutBack
      <4>2. CASE c # e
        <5>1. canonical'[c] = canonical[c] /\ pg'[c] = pg[c]
          BY <1>0, <3>5, <4>2 DEF PutBack, Replace, GraphTypes
        <5> QED BY <1>1, <1>3, <5>1
      <4> QED BY <4>1, <4>2
    <3>6. CASE UNCHANGED graphs
      BY <1>1, <1>3, <3>6 DEF graphs
    <3> QED BY <3>2, <3>3, <3>4, <3>5, <3>6, GraphFrame
  <2> QED BY <2>1, <2>2 DEF Shows
<1>5. CASE Project /\ ~(reached' = reached /\ pg' = pg)
  <2>1. Project /\ reached' = reached \cup {doc} /\ pg' = [pg EXCEPT ![city] = run.snap]
        /\ canonical' = canonical
    BY <1>5 DEF Project
  <2>2. doc \in DocsOf(city) /\ city \in Cities /\ run.snap \in Versions
        /\ visit.from \in Versions /\ run # NoRun /\ pc = "project"
    BY <1>0, <2>1 DEF Project, AtVisit, Working, Extraction, Publishing, Types, JobTypes, doc
  <2>3. run.snap \in Used
    BY <2>2, NoVersionUsed DEF Contents, Traced, run, doc, DocsOf
  <2>4. CASE c = city
    <3>1. ReachedOf(c)' = ReachedOf(c) \cup {doc}
      BY <1>0, <2>1, <2>2, <2>4 DEF ReachedOf, DocsOf
    <3>2. /\ Shows(c, canonical[c], ReachedOf(c) \cup {doc})
          /\ Shows(c, run.snap, ReachedOf(c) \cup {doc})
      BY <2>2, <2>4 DEF Contents, Carried
    <3>3. pg'[c] = run.snap
      BY <1>0, <2>1, <2>4 DEF GraphTypes
    <3> QED BY <1>1, <1>3, <2>1, <2>3, <3>1, <3>2, <3>3 DEF Shows
  <2>5. CASE c # city
    <3>1. ReachedOf(c)' = ReachedOf(c)
      BY <1>0, <2>1, <2>2, <2>5 DEF ReachedOf, DocsOf
    <3>2. pg'[c] = pg[c]
      BY <1>0, <2>1, <2>5 DEF GraphTypes
    <3> QED BY <1>1, <1>3, <2>1, <3>1, <3>2 DEF Shows
  <2> QED BY <2>4, <2>5
<1> QED
  BY <1>4, <1>5
(* Who comes to the steps of a publication, and of what was reached.          *)
LEMMA CarriedFrame ==
  ASSUME Next
  PROVE  /\ pc' \in Extraction =>
              \/ Durable \/ WriteCanonical \/ UNCHANGED <<pc, visit, paid>>
         /\ pc' \in {"receipt", "project"} =>
              \/ UNCHANGED <<pc, visit, paid>> \/ WriteCanonical \/ WriteReceipt
         /\ pc' \in {"projected", "cover", "known"} =>
              \/ UNCHANGED <<pc, visit, paid>> \/ Project \/ MarkProjected \/ MatchStates
BY DEF Next, Step, Disturbance, Durable, StartSweep, EnterCity, StopSweep, ReadBaseline,
       ListIndex, SetAside, OpenAttempt, Fetched, CloseList, Listed, SaveGuard, PlanCoverage,
       MatchStates, Reserve, Call, Store, Candidate, BeginPublish, SealArchive, WritePlan,
       WriteCanonical, WriteReceipt, Project, MarkProjected, ProjectionFails, Resume,
       CoverDocument, FailDocument, Leave, Go, Advance, Break,
       HaltExtraction, Sigterm, Die, StoreThrows, BreakOff, StartCity, Edit, PutBack,
       Publish, Withdraw, Extraction

\* The city does not change while a document is worked on.
LEMMA CityFrame ==
  ASSUME Places, Next, pc \in Working, pc' \in Working
  PROVE  city' = city
<1>0. job \in Jobs
  BY DEF Places, Types, JobTypes
<1>1. job' = job \/ job' = [job EXCEPT !.stopping = TRUE]
  BY DEF Next, Step, Disturbance, StartSweep, EnterCity, StopSweep, ReadBaseline,
       ListIndex, SetAside, OpenAttempt, Fetched, CloseList, Listed, SaveGuard, PlanCoverage,
       MatchStates, Reserve, Call, Store, Candidate, BeginPublish, SealArchive, WritePlan,
       WriteCanonical, WriteReceipt, Project, MarkProjected, ProjectionFails, Resume,
       CoverDocument, FailDocument, Leave, Go, Advance, Break,
       HaltExtraction, Sigterm, Die, StoreThrows, BreakOff, StartCity, Edit, PutBack,
       Publish, Withdraw, Working, Extraction
<1> QED
  BY <1>0, <1>1 DEF Jobs, city

\* Every step keeps what is published on the way holding all that reached PostgreSQL.
LEMMA CarriedStep ==
  ASSUME Places, Contents, Next
  PROVE  Carried'
<1>0. Types /\ AtVisit /\ GraphTypes /\ scenario' = scenario /\ visit \in Visits
      /\ runs \in [Docs -> [Versions -> Runs \cup {NoRun}]]
  BY Births DEF Places, Types, JobTypes, PaidTypes
<1>a. /\ pc \in Extraction => visit.from = visit.base \/ run.snap = visit.base
      /\ pc \in {"receipt", "project"} =>
           /\ Shows(city, canonical[city], ReachedOf(city) \cup {doc})
           /\ Shows(city, run.snap, ReachedOf(city) \cup {doc})
      /\ pc \in {"projected", "cover", "known"} => doc \in reached
  BY DEF Contents, Carried
<1>b. reached \subseteq reached'
  BY Freshness
<1>1. ASSUME pc' \in Extraction
      PROVE  visit'.from = visit'.base \/ run'.snap = visit'.base
  <2>1. CASE UNCHANGED <<pc, visit, paid>>
    BY <1>a, <1>1, <2>1 DEF paid, run, doc
  <2>2. CASE WriteCanonical
    BY <1>a, <2>2 DEF WriteCanonical, Advance, Break, Go, Extraction, paid, run, doc
  <2>3. CASE Call
    BY <1>a, <2>3 DEF Call, Advance, Break, Go, Extraction, run, doc
  <2>4. CASE MatchStates
    <3>1. \/ visit'.from = visit'.base \/ pc' = "known"
          \/ /\ runs' = runs /\ visit'.from \in OwnBytes(doc, visit.base)
             /\ visit'.doc = doc /\ visit'.base = visit.base
      BY <1>0, <2>4, MatchWrites
    <3> QED BY <1>1, <3>1 DEF OwnBytes, run, doc, Extraction
  <2>5. CASE Reserve \/ Store \/ Candidate \/ BeginPublish \/ SealArchive \/ WritePlan
             \/ WriteReceipt \/ Project \/ MarkProjected
    <3>1. /\ doc \in Docs /\ visit.from \in Versions /\ run \in Runs
          /\ runs' = runs \/ \E r \in Runs : UpdateRun(r) /\ Writes(r)
      BY <1>0, <2>5, DurableWrites
    <3>2. pc \in Extraction
      BY <2>5 DEF Reserve, Store, Candidate, BeginPublish, SealArchive, WritePlan,
            WriteReceipt, Project, MarkProjected, Extraction
    <3>3. visit'.from = visit.from /\ visit'.base = visit.base /\ visit'.doc = visit.doc
      BY <1>0, <2>5 DEF Reserve, Store, Candidate, BeginPublish, SealArchive, WritePlan,
            WriteReceipt, Project, MarkProjected, ProjectionFails, Advance, Break, Go, Visits
    <3>4. visit.base \in Versions
      BY <1>0, <3>2 DEF AtVisit, Visiting, Working
    <3>5. CASE runs' = runs
      BY <1>a, <3>2, <3>3, <3>5 DEF run, doc
    <3>6. ASSUME NEW r \in Runs, UpdateRun(r), Writes(r)
          PROVE  visit'.from = visit'.base \/ run'.snap = visit'.base
      <4>1. run' = r
        BY <1>0, <3>1, <3>3, <3>6, RunWritten DEF Types, run, doc
      <4>2. r.snap = run.snap \/ run.snap = NoVersion
        BY <3>1, <3>6 DEF Writes, Reserved, Runs
      <4> QED BY <1>a, <3>2, <3>3, <3>4, <4>1, <4>2, NoVersionUsed
    <3> QED BY <3>1, <3>5, <3>6
  <2> QED BY <1>1, <2>1, <2>2, <2>3, <2>4, <2>5, CarriedFrame DEF Durable
<1>2. ASSUME pc' \in {"receipt", "project"}
      PROVE  /\ Shows(city, canonical[city], ReachedOf(city) \cup {doc})'
             /\ Shows(city, run.snap, ReachedOf(city) \cup {doc})'
  <2>1. CASE WriteCanonical
    <3>1. pc' = "receipt" /\ visit' = visit /\ runs' = runs /\ job' = job
          /\ UNCHANGED <<holds, reached, restored>>
      BY <1>2, <2>1 DEF WriteCanonical, Advance, Break, Go, paid
    <3>2. canonical'[city] = run.snap /\ Shows(city, run.snap, ReachedOf(city) \cup {doc})
      BY <2>1, <3>1, WriteShows
    <3> QED BY <1>0, <3>1, <3>2 DEF Shows, ReachedOf, DocsOf, city, run, doc
  <2>2. ASSUME pc \in {"receipt", "project"}, visit' = visit, run' = run
        PROVE  /\ Shows(city, canonical[city], ReachedOf(city) \cup {doc})'
               /\ Shows(city, run.snap, ReachedOf(city) \cup {doc})'
    <3>1. city \in Cities /\ run.snap \in Versions /\ doc \in Docs /\ visit.from \in Versions
          /\ run # NoRun
      BY <1>0, <2>2 DEF AtVisit, Publishing, Types, JobTypes, Working, Extraction, DocsOf, doc
    <3>2. run.snap \in Used
      BY <3>1, NoVersionUsed DEF Contents, Traced, run, doc
    <3>3. city' = city /\ doc' = doc
      BY <1>2, <2>2, CityFrame DEF Working, Extraction, doc
    <3>4. reached' = reached /\ ~Project
      <4>1. ~Project
        BY <1>2 DEF Project, Advance, Break, Go, ProjectionFails
      <4> QED BY <4>1, GraphFrame DEF graphs, Candidate, WriteCanonical, Edit, PutBack
    <3>5. ReachedOf(city)' = ReachedOf(city)
      BY <1>0, <3>3, <3>4 DEF ReachedOf, DocsOf
    <3> DEFINE S == ReachedOf(city) \cup {doc}
    <3>6. Shows(city, canonical[city], S) /\ Shows(city, run.snap, S)
      BY <1>a, <2>2
    <3>7. canonical[city] \in Used \cup {NoVersion}
      BY <3>1 DEF Contents, Numbered
    <3> HIDE DEF S
    <3>8. \A v \in Used \cup {NoVersion} :
            Shows(city, v, S) => city \in restored' \/ \A d \in S : v # NoVersion /\ d \in holds'[v]
      BY Freshness, NoVersionUsed DEF Shows
    <3>9. city \in restored' \/ \A d \in S : canonical'[city] # NoVersion
                                             /\ d \in holds'[canonical'[city]]
      <4>1. CASE canonical'[city] = canonical[city]
        BY <3>6, <3>7, <3>8, <4>1
      <4>2. ASSUME NEW e \in Cities, Edit(e), canonical'[city] # canonical[city]
            PROVE  city \in restored' \/ \A d \in S : canonical'[city] # NoVersion
                                             /\ d \in holds'[canonical'[city]]
        <5>1. e = city
          BY <1>0, <4>2 DEF Edit, Replace, GraphTypes
        <5> QED BY <3>6, <4>2, <5>1, EditShows
      <4>3. ASSUME NEW e \in Cities, NEW v \in Versions, PutBack(e, v),
                   canonical'[city] # canonical[city]
            PROVE  city \in restored'
        BY <1>0, <4>3 DEF PutBack, Replace, GraphTypes
      <4>4. CASE WriteCanonical
        BY <2>2, <4>4 DEF WriteCanonical
      <4> QED BY <3>4, <4>1, <4>2, <4>3, <4>4, GraphFrame DEF graphs, Candidate
    <3>10. city \in restored' \/ \A d \in S : run.snap # NoVersion /\ d \in holds'[run.snap]
      BY <3>2, <3>6, <3>8
    <3> QED BY <2>2, <3>3, <3>5, <3>9, <3>10 DEF Shows, S
  <2>3. CASE UNCHANGED <<pc, visit, paid>>
    <3>1. run' = run
      BY <2>3 DEF paid, run, doc
    <3> QED BY <1>2, <2>2, <2>3, <3>1
  <2>4. CASE WriteReceipt
    <3>1. pc = "receipt" /\ visit' = visit /\ UpdateRun([run EXCEPT !.published = TRUE])
          /\ UNCHANGED graphs /\ job' = job
      BY <2>4 DEF WriteReceipt, Advance, Go
    <3>2. doc \in Docs /\ visit.from \in Versions /\ run \in Runs
      BY <1>0, <2>4, DurableWrites
    <3>3. run' = [run EXCEPT !.published = TRUE]
      BY <1>0, <3>1, <3>2, RunSet, RunWritten DEF Types, run, doc
    <3>4. run'.snap = run.snap
      BY <3>2, <3>3 DEF Runs
    <3> QED BY <1>0, <1>a, <3>1, <3>4 DEF Shows, ReachedOf, DocsOf, city, doc, graphs
  <2> QED BY <1>2, <2>1, <2>3, <2>4, CarriedFrame
<1>3. ASSUME pc' \in {"projected", "cover", "known"}
      PROVE  doc' \in reached'
  <2>1. CASE UNCHANGED <<pc, visit, paid>>
    BY <1>3, <1>a, <1>b, <2>1 DEF doc
  <2>2. CASE Project
    BY <1>3, <2>2 DEF Project, Advance, Break, Go, ProjectionFails, doc
  <2>3. CASE MarkProjected
    BY <1>3, <1>a, <1>b, <2>3 DEF MarkProjected, Advance, Break, Go, ProjectionFails, doc
  <2>4. CASE MatchStates
    <3>1. Known(doc) /\ doc \in Docs /\ doc' = doc
      BY <1>0, <1>3, <2>4, MatchWrites DEF doc
    <3>2. doc \in reached
      BY <3>1 DEF Known, Contents, Traced
    <3> QED BY <1>b, <3>1, <3>2
  <2> QED BY <1>3, <2>1, <2>2, <2>3, <2>4, CarriedFrame
<1> QED
  BY <1>1, <1>2, <1>3 DEF Carried

\* Every step covers only documents that reached PostgreSQL.
LEMMA CoveredStep ==
  ASSUME Places, Contents, Next
  PROVE  CoveredReached'
<1> SUFFICES ASSUME NEW c \in Cities, NEW d \in Docs, ledger'[c].state[d] = "covered"
             PROVE  d \in reached'
  BY DEF CoveredReached
<1>1. \/ ledger[c].state[d] = "covered"
      \/ d = doc /\ pc \in {"cover", "known"}
  BY Entries
<1>2. d \in reached
  BY <1>1 DEF Contents, CoveredReached, Carried
<1> QED
  BY <1>2, Freshness

\* Every step keeps what the versions hold.
LEMMA ContentsStep ==
  ASSUME Places, Contents, Next
  PROVE  Contents'
BY NumberedStep, TracedStep, ShownStep, CarriedStep, CoveredStep DEF Contents

(* The archive of a publication is taken once, and outlives it.               *)
LEMMA ArchivesStep ==
  ASSUME Places, NothingDestroyed, Next
  PROVE  NothingDestroyed'
<1>0. Types /\ AtVisit /\ GraphTypes /\ scenario' = scenario
      /\ runs \in [Docs -> [Versions -> Runs \cup {NoRun}]]
  BY Births DEF Places, Types, PaidTypes
<1>1. ASSUME NEW d \in Docs, NEW b \in Versions, runs[d][b] # NoRun,
             runs[d][b].archive \in Versions
      PROVE  runs'[d][b] # NoRun /\ runs'[d][b].archive = runs[d][b].archive
  <2>1. CASE runs'[d][b] = runs[d][b]
    BY <1>1, <2>1
  <2>2. CASE runs'[d][b] # runs[d][b]
    <3>1. Durable
      BY <2>2, PaidFrame DEF paid
    <3>2. ~MatchStates
      <4> SUFFICES ASSUME MatchStates PROVE FALSE
        OBVIOUS
      <4>1. /\ doc \in Docs /\ visit.base \in Versions
            /\ runs' = runs \/ /\ runs[doc][visit.base] = NoRun
                               /\ runs' = [runs EXCEPT ![doc][visit.base] = NewRun]
        BY <1>0, MatchWrites
      <4> QED BY <1>0, <1>1, <2>2, <4>1
    <3>3. ~Call
      BY <2>2 DEF Call
    <3>4. Reserve \/ Store \/ Candidate \/ BeginPublish \/ SealArchive \/ WritePlan
             \/ WriteReceipt \/ Project \/ MarkProjected
      BY <3>1, <3>2, <3>3 DEF Durable
    <3>5. doc \in Docs /\ visit.from \in Versions /\ run \in Runs
      BY <1>0, <3>4, DurableWrites
    <3>6. PICK r \in Runs : UpdateRun(r) /\ Writes(r)
      BY <1>0, <2>2, <3>4, DurableWrites
    <3>7. d = doc /\ b = visit.from /\ runs'[d][b] = r /\ run = runs[d][b]
      BY <1>0, <2>2, <3>5, <3>6, RunWritten DEF Types, run, doc
    <3>8. run.archive # Partial /\ run.archive # NoVersion
      BY <1>1, <3>7, NamesAssumption
    <3>9. ~SealArchive
      BY <1>0, <3>8 DEF SealArchive, AtVisit
    <3>10. r.archive = run.archive
      BY <3>5, <3>6, <3>8, <3>9 DEF Writes, Reserved, Runs
    <3> QED BY <3>6, <3>7, <3>10, NamesAssumption
  <2> QED BY <2>1, <2>2
<1>2. ASSUME NEW c \in Cities, NEW v \in canonized[c]
      PROVE  \/ v = canonical[c] \/ v \in copies[c]
             \/ \E d \in DocsOf(c), b \in Versions :
                  runs'[d][b] # NoRun /\ runs'[d][b].archive = v
  <2>1. CASE v = canonical[c] \/ v \in copies[c]
    BY <2>1
  <2>2. ASSUME NEW d \in DocsOf(c), NEW b \in Versions,
               runs[d][b] # NoRun, runs[d][b].archive = v
        PROVE  runs'[d][b] # NoRun /\ runs'[d][b].archive = v
    <3>1. v \in Versions /\ d \in Docs
      BY <1>0 DEF GraphTypes, DocsOf
    <3> QED BY <1>1, <2>2, <3>1
  <2> QED BY <2>1, <2>2 DEF NothingDestroyed
<1> SUFFICES ASSUME NEW c \in Cities, NEW v \in canonized'[c]
             PROVE  \/ v = canonical'[c] \/ v \in copies'[c]
                    \/ \E d \in DocsOf(c), b \in Versions :
                         runs'[d][b] # NoRun /\ runs'[d][b].archive = v
  BY <1>0 DEF NothingDestroyed, DocsOf
<1>3. CASE UNCHANGED <<canonical, canonized, copies>>
  BY <1>2, <1>3
<1>4. CASE WriteCanonical /\ ~UNCHANGED <<canonical, canonized, copies>>
  <2>1. /\ canonical' = [canonical EXCEPT ![city] = run.snap]
        /\ canonized' = [canonized EXCEPT ![city] = canonized[city] \cup {run.snap}]
        /\ copies' = copies /\ runs' = runs /\ Writable /\ pc = "write"
    BY <1>4 DEF WriteCanonical, paid
  <2>2. city \in Cities /\ visit.doc \in DocsOf(city) /\ visit.from \in Versions /\ run # NoRun
    BY <1>0, <2>1 DEF AtVisit, Types, JobTypes, Working, Extraction
  <2>3. CASE c # city
    <3>1. v \in canonized[c] /\ canonical'[c] = canonical[c]
      BY <1>0, <2>1, <2>2, <2>3 DEF GraphTypes
    <3> QED BY <1>2, <2>1, <3>1
  <2>4. CASE c = city
    <3>1. canonical'[c] = run.snap /\ (v = run.snap \/ v \in canonized[c])
      BY <1>0, <2>1, <2>2, <2>4 DEF GraphTypes
    <3>2. CASE v = run.snap
      BY <3>1, <3>2
    <3>3. CASE v \in canonized[c] /\ v = canonical[c]
      <4>1. run.archive = v
        BY <2>1, <2>4, <3>3 DEF Writable
      <4>2. runs'[visit.doc][visit.from] # NoRun /\ runs'[visit.doc][visit.from].archive = v
        BY <2>1, <2>2, <4>1 DEF run
      <4> QED BY <2>2, <2>4, <4>2
    <3>4. CASE v \in canonized[c] /\ v # canonical[c]
      BY <1>2, <2>1, <3>4
    <3> QED BY <3>1, <3>2, <3>3, <3>4
  <2> QED BY <2>3, <2>4
<1>5. ASSUME NEW e \in Cities, NEW w, Replace(e, w), w \in Versions
      PROVE  \/ v = canonical'[c] \/ v \in copies'[c]
             \/ \E d \in DocsOf(c), b \in Versions :
                  runs'[d][b] # NoRun /\ runs'[d][b].archive = v
  <2>1. /\ canonical' = [canonical EXCEPT ![e] = w]
        /\ canonized' = [canonized EXCEPT ![e] = canonized[e] \cup {w}]
        /\ copies' = [copies EXCEPT ![e] = copies[e] \cup ({canonical[e]} \ {NoVersion})]
    BY <1>0, <1>5 DEF Replace, GraphTypes
  <2>2. CASE c # e
    <3>1. v \in canonized[c] /\ canonical'[c] = canonical[c] /\ copies'[c] = copies[c]
      BY <1>0, <2>1, <2>2 DEF GraphTypes
    <3> QED BY <1>2, <3>1
  <2>3. CASE c = e
    <3>1. /\ canonical'[c] = w /\ (v = w \/ v \in canonized[c])
          /\ copies'[c] = copies[c] \cup ({canonical[c]} \ {NoVersion})
      BY <1>0, <2>1, <2>3 DEF GraphTypes
    <3>2. v \in canonized[c] => v # NoVersion
      BY <1>0, NamesAssumption DEF GraphTypes
    <3> QED BY <1>2, <3>1, <3>2
  <2> QED BY <2>2, <2>3
<1>6. ASSUME NEW e \in Cities, Edit(e)
      PROVE  \/ v = canonical'[c] \/ v \in copies'[c]
             \/ \E d \in DocsOf(c), b \in Versions :
                  runs'[d][b] # NoRun /\ runs'[d][b].archive = v
  <2>1. fresh \in Versions /\ Replace(e, fresh)
    BY <1>0, <1>6, BoundsAssumption DEF Edit, GraphTypes, Versions
  <2> QED BY <1>5, <2>1
<1>7. ASSUME NEW e \in Cities, NEW w \in Versions, PutBack(e, w)
      PROVE  \/ v = canonical'[c] \/ v \in copies'[c]
             \/ \E d \in DocsOf(c), b \in Versions :
                  runs'[d][b] # NoRun /\ runs'[d][b].archive = v
  BY <1>5, <1>7 DEF PutBack
<1> QED
  BY <1>3, <1>4, <1>6, <1>7, GraphFrame DEF graphs, Candidate, Project
-----------------------------------------------------------------------------
(* The initial state.                                                         *)
LEMMA InitPlaces ==
  ASSUME Init
  PROVE  Places /\ Counted
<1>1. SourceTypes /\ CollectedTypes /\ BoundsTypes
  BY DEF Init, SourceTypes, CollectedTypes, BoundsTypes
<1>2. BooksTypes
  BY EmptyLedgerType, CitiesAssumption DEF Init, BooksTypes
<1>3. GraphTypes
  BY BoundsAssumption DEF Init, GraphTypes, Versions
<1>4. PaidTypes
  BY DEF Init, PaidTypes
<1>5. JobTypes
  BY NoneTyped DEF Init, JobTypes, Labels
<1>6. AtVisit
  BY DEF Init, AtVisit, NoVisit, Visiting, Working, Extraction, Publishing
<1>7. Homed
  BY DEF Init, Homed, EmptyLedger
<1>8. Unsettled = {} /\ visit.aside = {}
  BY DEF Init, Unsettled, NoVisit
<1>9. Counted
  BY <1>8 DEF Init, Counted, SetAsideEarned
<1> QED
  BY <1>1, <1>2, <1>3, <1>4, <1>5, <1>6, <1>7, <1>9 DEF Places, Types

\* The initial states satisfy the invariant.
LEMMA InitCore ==
  ASSUME Init
  PROVE  Core
<1>1. Listings
  BY DEF Init, Listings, NoVisit, Working, Extraction, EmptyLedger, NewDocuments
<1>2. Payments
  BY DEF Init, Payments, CallsReserved
<1>3. 0 \in Used /\ \A c \in Cities : canonical[c] \in {0, NoVersion}
  BY BoundsAssumption DEF Init, Used, Versions
<1>4. Numbered
  <2>1. \A c \in Cities : canonized[c] \subseteq {0}
    BY <1>3 DEF Init
  <2> QED BY <1>3, <2>1 DEF Init, Numbered, NoVisit
<1>5. Traced /\ Shown /\ Carried /\ CoveredReached
  BY DEF Init, Traced, Shown, Shows, ReachedOf, Carried, CoveredReached, EmptyLedger,
         Extraction
<1>6. NothingDestroyed
  BY DEF Init, NothingDestroyed
<1> QED
  BY <1>1, <1>2, <1>4, <1>5, <1>6, InitPlaces DEF Core, Contents
-----------------------------------------------------------------------------
(* A step that changes nothing.                                               *)
LEMMA CoreStutter ==
  ASSUME Core, UNCHANGED vars
  PROVE  Core'
<1>1. UNCHANGED <<source, collected, books, graphs, paid, bounds, pc, job, visit>>
  BY DEF vars
<1>2. Places'
  <2>1. UNCHANGED <<source, collected, books, graphs, paid, bounds, pc, job, visit>>
    BY <1>1
  <2> QED BY <2>1 DEF Core, Places, Types, SourceTypes, CollectedTypes, BooksTypes,
       GraphTypes, PaidTypes, BoundsTypes, JobTypes, AtVisit, Homed, DocsOf, city, run,
       source, collected, books, graphs, paid, bounds
<1>3. Counted'
  BY <1>1 DEF Core, Counted, Unsettled, SetAsideEarned, doc, collected
<1>4. Listings'
  BY <1>1 DEF Core, Listings, NewDocuments, doc, source, books
<1>5. Payments'
  BY <1>1 DEF Core, Payments, CallsReserved, Known, OwnBytes, doc, run, paid
<1>6. Contents'
  BY <1>1 DEF Core, Contents, Numbered, Traced, Shown, Carried, CoveredReached, Shows,
     ReachedOf, DocsOf, Used, doc, run, city, source, books, graphs, paid
<1>7. NothingDestroyed'
  BY <1>1 DEF Core, NothingDestroyed, DocsOf, source, graphs, paid
<1> QED
  BY <1>2, <1>3, <1>4, <1>5, <1>6, <1>7 DEF Core

\* Every step keeps it.
LEMMA CoreStep ==
  ASSUME Core, [Next]_vars
  PROVE  Core'
<1>1. CASE Next
  BY <1>1, PlacesStep, CountedStep, ListingsStep, PaymentsStep, ContentsStep, ArchivesStep
  DEF Core
<1>2. CASE UNCHANGED vars
  BY <1>2, CoreStutter
<1> QED
  BY <1>1, <1>2
-----------------------------------------------------------------------------
(* The refresh is always in a state of the inductive invariant, for every     *)
(* layout of cities and documents and whatever dies, fails or publishes.      *)
THEOREM RefreshInvariance == Spec => []Core
<1>1. Init => Core
  BY InitCore
<1>2. Core /\ [Next]_vars => Core'
  BY CoreStep
<1> QED
  BY <1>1, <1>2, PTL DEF Spec

(* Types, and where the job is when it is nowhere.                            *)
THEOREM RefreshTypes == Spec => []TypeOK
<1>1. Core => TypeOK
  <2> SUFFICES ASSUME Core PROVE TypeOK
    OBVIOUS
  <2>1. Types /\ AtVisit
    BY DEF Core, Places
  <2>2. pc = "idle" <=> job = NoJob
    BY <2>1 DEF Types, JobTypes, NoJob
  <2>3. visit.aside \subseteq Docs \X {"interrupted", "oversize"}
    BY <2>1 DEF Types, JobTypes, Visits, Marks
  <2> QED
    BY <2>1, <2>2, <2>3 DEF TypeOK, Types, SourceTypes, CollectedTypes, BooksTypes,
       GraphTypes, PaidTypes, AtVisit
<1> QED
  BY <1>1, RefreshInvariance, PTL

(* No version of a canonical graph is destroyed: an archive taken well before *)
(* the write, by a process that may have died since, is still there.          *)
THEOREM DestroyedTheorem == Spec => []NothingDestroyed
<1>1. Core => NothingDestroyed
  BY DEF Core
<1> QED
  BY <1>1, RefreshInvariance, PTL

(* What a ledger calls covered is in PostgreSQL, in a graph that holds it.    *)
THEOREM CoveredTheorem == Spec => []CoveredShown
<1>1. Core => CoveredShown
  <2> SUFFICES ASSUME Core, NEW d \in Docs, ledger[scenario.home[d]].state[d] = "covered"
               PROVE  LET c == scenario.home[d]
                      IN d \in reached
                         /\ (c \in restored \/ (pg[c] # NoVersion /\ d \in holds[pg[c]]))
    BY DEF CoveredShown
  <2>1. scenario.home[d] \in Cities
    BY ScenarioAssumption DEF Core, Places, Types, SourceTypes
  <2>2. d \in reached /\ d \in DocsOf(scenario.home[d])
    BY <2>1 DEF Core, Contents, CoveredReached, DocsOf
  <2>3. Shows(scenario.home[d], pg[scenario.home[d]], ReachedOf(scenario.home[d]))
    BY <2>1 DEF Core, Contents, Shown
  <2> QED BY <2>2, <2>3 DEF Shows, ReachedOf
<1> QED
  BY <1>1, RefreshInvariance, PTL

(* Every model call was paid from a durable reservation.                      *)
THEOREM ReservedTheorem == Spec => []CallsReserved
<1>1. Core => CallsReserved
  BY DEF Core, Payments
<1> QED
  BY <1>1, RefreshInvariance, PTL

(* Only a document whose attempts were lost twice is set aside for it.        *)
THEOREM AsideTheorem == Spec => []SetAsideEarned
<1>1. Core => SetAsideEarned
  BY DEF Core, Counted
<1> QED
  BY <1>1, RefreshInvariance, PTL

(* A document published after its city's priming is never taken as covered.   *)
THEOREM NewTheorem == Spec => []NewDocuments
<1>1. Core => NewDocuments
  BY DEF Core, Listings
<1> QED
  BY <1>1, RefreshInvariance, PTL

(* No call is sent for what was projected or published already.               *)
THEOREM PaidTheorem == Spec => PaidOnce
<1>1. Core /\ [Next]_vars
        => [calls' # calls => ~Known(doc) /\ OwnBytes(doc, visit.base) = {}]_vars
  BY PaidOnceStep DEF Core
<1> QED
  BY <1>1, RefreshInvariance, PTL DEF Spec, PaidOnce
==============================================================================
