---------------------------- MODULE CoherentRead ----------------------------
(* The coherent readers: readCoherentProjection of projection-revisions.ts    *)
(* and readClassificationProjection of classification-projection.ts, over the *)
(* registers of Classification, which the writers implement (FacetStreams).   *)
(*                                                                            *)
(* A request samples the revisions, fetches the parts of its payload in       *)
(* transactions of their own, and samples again.  Nothing is locked from one  *)
(* transaction to the next: every step of the scope may come in between.      *)
EXTENDS Classification

CONSTANTS
  Readers,       \* requests, each handled once
  NoAsk,         \* a request not received yet
  MaxWrites,     \* bound on the revisions classifications move
  MaxRefresh,    \* bound on the source revision
  MaxGrants      \* bound on each membership revision

VARIABLES
  ask,           \* [Readers -> [by, ws, kind] or NoAsk]
  pc,            \* [Readers -> next transaction]
  attempt,       \* [Readers -> attempts begun]
  catalog,       \* [Readers -> version of the reason catalog first read]
  before,        \* [Readers -> token first sampled]
  payload,       \* [Readers -> part -> what was fetched]
  answer,        \* [Readers -> what the client is answered]
  started        \* history: revisions of the scope when the request came

reads == <<ask, pc, attempt, catalog, before, payload, answer, started>>
vars == <<facts, reads>>

(* Parts of the payload, and the order in which each route fetches them.      *)
Parts == {"archive", "selection", "signals"}
Kinds == {"city", "search", "state"}
ASSUME AskAssumption == NoAsk \notin [by: Members, ws: Workspaces, kind: Kinds]

Following ==
  [city   |-> [before |-> "archive", archive |-> "selection",
               selection |-> "signals", signals |-> "after"],
   search |-> [before |-> "signals", signals |-> "selection",
               selection |-> "archive", archive |-> "after"],
   state  |-> [before |-> "selection", selection |-> "archive",
               archive |-> "signals", signals |-> "after"]]

(* catalogVersion: a read that fails for another reason than the rights is an *)
(* unavailable catalog.                                                       *)
Versions == {"open", "unavailable"}

(* projectionToken.  Mutants: without the digest of the source; with what     *)
(* every member classified.                                                   *)
TokenUndigested(m, w) ==
  [by |-> m, ws |-> w, personal |-> personal[w][m], common |-> common[w],
   source |-> source.revision, membership |-> rights[w][m]]
TokenOfAll(m, w) ==
  [by |-> m, ws |-> w, personal |-> personal[w], common |-> common[w],
   source |-> source, membership |-> rights[w][m]]
Token(m, w) ==
  [by |-> m, ws |-> w, personal |-> personal[w][m], common |-> common[w],
   source |-> source, membership |-> rights[w][m]]

(* What a viewer is shown of a stream, and of the scope, part by part.        *)
Shown(s) ==
  [entry |-> current[s], available |-> content # Gone,
   changed |-> /\ current[s] # NoEntry /\ content # Gone
               /\ s.facet = "archive" /\ current[s].state = "active"
               /\ current[s].seen # content]
Archives(m, w) ==
  {s \in Streams : s.ws = w /\ s.owner \in {m, Shared} /\ s.facet = "archive"}
Own(m, w) == {s \in Streams : s.ws = w /\ s.owner = m}
View(part, m, w) ==
  CASE part = "archive"   -> [streams |-> [s \in Archives(m, w) |-> Shown(s)],
                              moderates |-> rights[w][m].role = "moderator"]
    [] part = "selection" -> [s \in Own(m, w) |-> Shown(s)]
    [] part = "signals"   -> content

(* Sum of the revisions a viewer's token is made of: it moves with the token. *)
Clock(m, w) ==
  personal[w][m] + common[w] + source.revision + rights[w][m].revision
    + (IF source.digest = NoDigest THEN 0 ELSE 1)

Nothing == [part \in Parts |-> NoAsk]
ReadersIdle ==
  /\ ask = [r \in Readers |-> NoAsk]
  /\ pc = [r \in Readers |-> "idle"]
  /\ attempt = [r \in Readers |-> 0]
  /\ catalog = [r \in Readers |-> "open"]
  /\ before = [r \in Readers |-> NoAsk]
  /\ payload = [r \in Readers |-> Nothing]
  /\ answer = [r \in Readers |-> "none"]
  /\ started = [r \in Readers |-> 0]

First(kind) == IF kind = "city" THEN "before" ELSE "catalog"
Receive(r) ==
  /\ pc[r] = "idle"
  /\ \E m \in Members, w \in Workspaces, kind \in Kinds :
       /\ ask' = [ask EXCEPT ![r] = [by |-> m, ws |-> w, kind |-> kind]]
       /\ pc' = [pc EXCEPT ![r] = First(kind)]
       /\ started' = [started EXCEPT ![r] = Clock(m, w)]
  /\ attempt' = [attempt EXCEPT ![r] = 1]
  /\ UNCHANGED <<facts, catalog, before, payload, answer>>

Goto(r, next) ==
  /\ pc' = [pc EXCEPT ![r] = next]
  /\ UNCHANGED <<ask, attempt, answer, started>>

Answer(r, code) ==
  /\ pc' = [pc EXCEPT ![r] = "done"]
  /\ answer' = [answer EXCEPT ![r] = code]
  /\ UNCHANGED <<ask, attempt, started>>

(* What an attempt has read is local to it.                                   *)
Keep == UNCHANGED <<catalog, before, payload>>
Forget(r) ==
  /\ catalog' = [catalog EXCEPT ![r] = "open"]
  /\ before' = [before EXCEPT ![r] = NoAsk]
  /\ payload' = [payload EXCEPT ![r] = Nothing]

(* Drift between two samples: another attempt, up to three in all.            *)
Attempts == 3
Retry(r) ==
  /\ Forget(r)
  /\ IF attempt[r] < Attempts
     THEN /\ pc' = [pc EXCEPT ![r] = First(ask[r].kind)]
          /\ attempt' = [attempt EXCEPT ![r] = @ + 1]
          /\ UNCHANGED <<ask, answer, started>>
     ELSE Answer(r, "projection_revision_unstable")

(* Each transaction resolves the rights of the reader again.                  *)
Authorized(r) == rights[ask[r].ws][ask[r].by].role # "none"
Forbid(r) == Forget(r) /\ Answer(r, "workspace_membership_required")

ReadCatalog(r) ==
  /\ pc[r] = "catalog" /\ UNCHANGED facts
  /\ IF ~Authorized(r) THEN Forbid(r)
     ELSE /\ \E v \in Versions : catalog' = [catalog EXCEPT ![r] = v]
          /\ Goto(r, "before") /\ UNCHANGED <<before, payload>>

SampleBefore(r) ==
  /\ pc[r] = "before" /\ UNCHANGED facts
  /\ IF ~Authorized(r) THEN Forbid(r)
     ELSE /\ before' = [before EXCEPT ![r] = Token(ask[r].by, ask[r].ws)]
          /\ Goto(r, Following[ask[r].kind]["before"])
          /\ UNCHANGED <<catalog, payload>>

(* The signals are read by city, without a viewer.                            *)
Fetch(r, part) ==
  /\ pc[r] = part /\ UNCHANGED facts
  /\ IF part # "signals" /\ ~Authorized(r) THEN Forbid(r)
     ELSE /\ payload' = [payload EXCEPT
               ![r][part] = View(part, ask[r].by, ask[r].ws)]
          /\ Goto(r, Following[ask[r].kind][part])
          /\ UNCHANGED <<catalog, before>>

Steady(r) == before[r] = Token(ask[r].by, ask[r].ws)
SampleAfter(r) ==
  /\ pc[r] = "after" /\ UNCHANGED facts
  /\ IF ~Authorized(r) THEN Forbid(r)
     ELSE IF ~Steady(r) THEN Retry(r)
     ELSE IF ask[r].kind = "city" THEN Answer(r, "ok") /\ Keep
     ELSE Goto(r, "again") /\ Keep

(* The catalog once more, then a last sample of the revisions.                *)
ReadAgain(r) ==
  /\ pc[r] = "again" /\ UNCHANGED facts
  /\ IF ~Authorized(r) THEN Forbid(r)
     ELSE /\ \E v \in Versions :
               Goto(r, IF v = catalog[r] THEN "final" ELSE "drifted")
          /\ Keep

SampleFinal(r) ==
  /\ pc[r] \in {"final", "drifted"} /\ UNCHANGED facts
  /\ IF ~Authorized(r) THEN Forbid(r)
     ELSE IF pc[r] = "drifted" \/ ~Steady(r) THEN Retry(r)
     ELSE Answer(r, "ok") /\ Keep

Step(r) ==
  \/ Receive(r) \/ ReadCatalog(r) \/ SampleBefore(r)
  \/ \E part \in Parts : Fetch(r, part)
  \/ SampleAfter(r) \/ ReadAgain(r) \/ SampleFinal(r)

(* The scope moves: new states for some streams of one owner.                 *)
Says == [state: {"active", "inactive"}, reason: Reasons \cup {NoReason}]
Write(m, w, o) ==
  /\ personal[w][m] + common[w] < MaxWrites
  /\ \E S \in SUBSET {s \in Streams : s.ws = w /\ s.owner = o} :
       \E new \in [S -> Says] :
         current' = [s \in Streams |->
           IF s \in S THEN [state |-> new[s].state, reason |-> new[s].reason,
                            seen |-> content, by |-> m]
           ELSE current[s]]
  /\ Classify(m, w, o)
  /\ UNCHANGED reads

ScopeStep ==
  \/ \E m \in Members, w \in Workspaces, o \in Members \cup {Shared} :
       Write(m, w, o)
  \/ \E c \in Contents \cup {Gone} :
       source.revision < MaxRefresh /\ Refresh(c) /\ UNCHANGED reads
  \/ \E w \in Workspaces, m \in Members, role \in Roles :
       rights[w][m].revision < MaxGrants /\ Grant(w, m, role)
         /\ UNCHANGED reads

ReadInit == Init /\ ReadersIdle
ReadNext == ScopeStep \/ \E r \in Readers : Step(r)
ReadSpec == ReadInit /\ [][ReadNext]_vars
-----------------------------------------------------------------------------
Pcs == Parts \cup {"idle", "catalog", "before", "after", "again", "final",
                   "drifted", "done"}
Codes == {"none", "ok", "workspace_membership_required",
          "projection_revision_unstable"}

(* Every request has its type and never begins a fourth attempt.              *)
ReadTypeOK ==
  /\ FactsOK
  /\ ask \in [Readers ->
       [by: Members, ws: Workspaces, kind: Kinds] \cup {NoAsk}]
  /\ pc \in [Readers -> Pcs]
  /\ \A r \in Readers : pc[r] = "idle" <=> ask[r] = NoAsk
  /\ attempt \in [Readers -> 0..3]
  /\ catalog \in [Readers -> Versions]
  /\ answer \in [Readers -> Codes]
  /\ started \in [Readers -> Nat]

(* A payload answered is one snapshot: every part of it, fetched by its own   *)
(* transaction, is what the viewer is shown at the instant of the last        *)
(* sample, with the token of that instant and with rights held then; a target *)
(* refused as unknown or hidden is so at that instant.                        *)
CoherentAnswer ==
  [][\A r \in Readers : answer[r] = "none" /\ answer'[r] = "ok" =>
       LET m == ask[r].by
           w == ask[r].ws
       IN /\ before[r] = Token(m, w) /\ rights[w][m].role # "none"
          /\ \A part \in Parts :
               payload[r][part] = View(part, m, w)]_vars

(* A city read gives up only when the revisions of its viewer moved during    *)
(* each of three attempts: what other members classify for themselves, and    *)
(* refreshes that change nothing, never make it unstable.                     *)
NoFalseAlarm ==
  \A r \in Readers :
    ask[r] # NoAsk /\ ask[r].kind = "city"
      /\ answer[r] = "projection_revision_unstable" =>
        Clock(ask[r].by, ask[r].ws) >= started[r] + 3
=============================================================================
