------------------------------- MODULE PwWrite -------------------------------
(* The confirmed signal write: an intent is prepared on a page, confirmed by  *)
(* requests of the application, each running the one BASE transaction of      *)
(* signal-write-admission.ts with the durable admission port of               *)
(* pw-write-admission-durable.ts, while intents are revoked, authority is     *)
(* closed, rights and scope change, other BASE routes write, and the clock    *)
(* passes the intents' expiry.                                                *)
(*                                                                            *)
(* A request is a process.  Its pc names the statement it is about to issue;  *)
(* its PostgreSQL locks last from the statement that takes them to the end of *)
(* the transaction, so who holds a lock is a function of the pcs.  What a     *)
(* transaction writes is visible at its COMMIT, hence written there.          *)
EXTENDS Integers, FiniteSets

CONSTANTS
  Requests,      \* confirm requests, each handled once
  Intents,       \* intent identifiers
  Keys,          \* (actor, command key) pairs of the reader
  NoIntent,      \* no row
  Direct,        \* the receipt of a command sent to another BASE route
  Fences,        \* number of authority kinds in PW_FENCE_ORDER, of one page
  MaxPending,    \* MAX_PENDING_PER_SESSION
  TTL,           \* longest life of an intent, in clock units
  MaxClock,      \* bound on the clock
  MaxRevision    \* bound on the projection revision

ASSUME BoundsAssumption ==
  /\ Fences \in Nat /\ MaxPending \in Nat /\ TTL \in Nat
  /\ MaxClock \in Nat /\ MaxRevision \in Nat
ASSUME NamesAssumption ==
  NoIntent \notin Intents /\ Direct \notin Intents /\ Direct # NoIntent

VARIABLES
  now,         \* the clock every server samples
  revision,    \* the projection token's revision: it only grows
  rights,      \* the actor is approved, member and capable in the workspace
  closed,      \* authority kinds whose fence is recorded
  command,     \* [Intents -> the immutable part of the row, or NoIntent]
  execution,   \* [Intents -> execution_state], "absent" before INSERT
  challenge,   \* [Intents -> challenge_state]
  revoked,     \* [Intents -> a tombstone exists]
  reserved,    \* pw_write_key_reservations
  linked,      \* pw_write_receipt_links
  rejection,   \* pw_write_rejections
  receipt,     \* facet_commands: [Keys -> who wrote the receipt]
  effects,     \* [Keys -> number of BASE executions committed under the key]
  outbox,      \* pw_write_outbox: [Intents -> [kind -> rows appended]]
  pc,          \* [Requests -> next statement]
  target,      \* [Requests -> intent it confirms]
  fence,       \* [Requests -> authority fences share-locked so far]
  code,        \* [Requests -> error caught]
  audit,       \* pw_write_audit: [Requests -> results appended]
  answer,      \* [Requests -> what its client was told]
  told,        \* [Intents -> what the last revocation answered]
  seen         \* [Intents -> last status disclosed]

world == <<now, revision, rights, closed>>
rows == <<command, execution, challenge, revoked, reserved, linked, rejection>>
base == <<receipt, effects>>
request == <<pc, target, fence, code, audit, answer>>
vars == <<world, rows, base, outbox, request, told, seen>>

Terminal == {"projection_revision_conflict", "facet_head_conflict"}
Refusals == Terminal \cup
  {"write_rate_limited", "write_authority_unavailable",
   "workspace_not_authorized", "challenge_consumed", "write_intent_revoked",
   "challenge_expired", "command_context_unresolved",
   "idempotency_key_conflict", "write_fence_unavailable"}
Codes == Refusals \cup {"unknown"}
OutboxKinds == {"write_committed", "write_revoked", "write_rejected"}
Fates == {"moves", "keeps", "facet_head_conflict"}

Pcs == {"idle", "attempt", "fences", "workspace", "reserve", "city", "execute",
        "window", "commit", "caught", "audit", "done", "dead"}

(* Statements of the BASE transaction, after each lock it takes.              *)
PastIntentLock == {"workspace", "reserve", "city", "execute", "window", "commit"}
PastWorkspaceLock == PastIntentLock \ {"workspace"}
PastReserve == PastWorkspaceLock \ {"reserve"}
PastAdmission == PastReserve \ {"city"}
InBase == PastIntentLock \cup {"fences"}

Prepared(i) == execution[i] # "absent"
HoldsIntent(p, i) == pc[p] \in PastIntentLock /\ target[p] = i
HoldsWorkspace(p) == pc[p] \in PastWorkspaceLock
HoldsKey(p, k) == pc[p] \in PastReserve /\ command[target[p]].key = k
HoldsCity(p) == pc[p] \in PastAdmission

(* Mutants: an intent, a key or a city nobody locks.                          *)
IntentUnlocked(i) == TRUE
KeyUnlocked(k) == TRUE
CityUnlocked == TRUE

IntentFree(i) == \A q \in Requests : ~HoldsIntent(q, i)
WorkspaceFree == \A q \in Requests : ~HoldsWorkspace(q)
KeyFree(k) == \A q \in Requests : ~HoldsKey(q, k)
CityFree == \A q \in Requests : ~HoldsCity(q)

Expired(i) == now >= command[i].expires

(* Mutant: expiry derived before the verdict is read.                         *)
StatusByClock(i) ==
  IF revoked[i] THEN "revoked" ELSE IF Expired(i) THEN "expired"
  ELSE IF execution[i] \in {"committed", "rejected"} THEN execution[i]
  ELSE "pending"

(* pwIntentStatus: revocation masks the verdict, expiry is derived.           *)
Status(i) ==
  IF revoked[i] THEN "revoked"
  ELSE IF execution[i] \in {"committed", "rejected"} THEN execution[i]
  ELSE IF Expired(i) THEN "expired" ELSE "pending"

(* Rows countPwPending counts against the caps.                               *)
PendingIntents == {i \in Intents :
  execution[i] = "pending" /\ ~revoked[i] /\ ~Expired(i)}

Init ==
  /\ now = 0 /\ revision = 0 /\ rights = TRUE /\ closed = {}
  /\ command = [i \in Intents |-> NoIntent]
  /\ execution = [i \in Intents |-> "absent"]
  /\ challenge = [i \in Intents |-> "pending"]
  /\ revoked = [i \in Intents |-> FALSE]
  /\ reserved = [k \in Keys |-> NoIntent]
  /\ linked = [i \in Intents |-> FALSE]
  /\ rejection = [i \in Intents |-> "none"]
  /\ receipt = [k \in Keys |-> NoIntent]
  /\ effects = [k \in Keys |-> 0]
  /\ outbox = [i \in Intents |-> [kind \in OutboxKinds |-> 0]]
  /\ pc = [p \in Requests |-> "idle"]
  /\ target = [p \in Requests |-> NoIntent]
  /\ fence = [p \in Requests |-> 0]
  /\ code = [p \in Requests |-> "none"]
  /\ audit = [p \in Requests |-> {}]
  /\ answer = [p \in Requests |-> "none"]
  /\ told = [i \in Intents |-> "none"]
  /\ seen = [i \in Intents |-> "none"]

-----------------------------------------------------------------------------
(* Preparation: one transaction under the workspace lock.  A key already      *)
(* reserved returns its intent (or refuses) and writes nothing: no step.      *)
Prepare(i, k, expects, life, fate) ==
  /\ execution[i] = "absent" /\ reserved[k] = NoIntent
  /\ closed = {} /\ WorkspaceFree /\ rights
  /\ Cardinality(PendingIntents) < MaxPending
  /\ command' = [command EXCEPT ![i] =
       [key |-> k, expects |-> expects, expires |-> now + life, fate |-> fate]]
  /\ execution' = [execution EXCEPT ![i] = "pending"]
  /\ reserved' = [reserved EXCEPT ![k] = i]
  /\ UNCHANGED <<world, challenge, revoked, linked, rejection, base, outbox,
                 request, told, seen>>

-----------------------------------------------------------------------------
(* The confirming request.                                                    *)
Goto(p, statement) ==
  /\ pc' = [pc EXCEPT ![p] = statement]
  /\ UNCHANGED <<world, rows, base, outbox, target, fence, code, audit, answer,
                 told, seen>>

(* An error rolls the transaction back, releases its locks and is caught.     *)
Deny(p, refusal) ==
  /\ pc' = [pc EXCEPT ![p] = "caught"]
  /\ code' = [code EXCEPT ![p] = refusal]
  /\ fence' = [fence EXCEPT ![p] = 0]
  /\ UNCHANGED <<world, rows, base, outbox, target, audit, answer, told, seen>>

Receive(p, i) ==
  /\ pc[p] = "idle" /\ Prepared(i)
  /\ pc' = [pc EXCEPT ![p] = "attempt"]
  /\ target' = [target EXCEPT ![p] = i]
  /\ UNCHANGED <<world, rows, base, outbox, fence, code, audit, answer, told,
                 seen>>

(* reservePwAttempt commits on its own; an exhausted bucket refuses.          *)
ReserveAttempt(p) ==
  /\ pc[p] = "attempt"
  /\ Goto(p, "fences") \/ Deny(p, "write_rate_limited")

(* Fences are taken in PW_FENCE_ORDER; each is read once its lock is held.    *)
TakeFence(p) ==
  /\ pc[p] = "fences" /\ fence[p] < Fences
  /\ IF fence[p] + 1 \in closed
     THEN Deny(p, "write_authority_unavailable")
     ELSE /\ fence' = [fence EXCEPT ![p] = @ + 1]
          /\ UNCHANGED <<world, rows, base, outbox, pc, target, code, audit,
                         answer, told, seen>>

LockIntent(p) ==
  /\ pc[p] = "fences" /\ fence[p] = Fences /\ IntentFree(target[p])
  /\ Goto(p, "workspace")

LockWorkspace(p) ==
  /\ pc[p] = "workspace" /\ WorkspaceFree
  /\ IF rights THEN Goto(p, "reserve") ELSE Deny(p, "workspace_not_authorized")

(* admission.reserve, then the receipt another BASE route may have left.      *)
ReserveRefusal(i) ==
  IF challenge[i] = "consumed" THEN "challenge_consumed"
  ELSE IF revoked[i] THEN "write_intent_revoked"
  ELSE IF execution[i] = "rejected" THEN rejection[i]
  ELSE IF execution[i] # "pending" THEN "challenge_expired"
  ELSE IF reserved[command[i].key] # i THEN "idempotency_key_conflict"
  ELSE IF receipt[command[i].key] # NoIntent THEN "command_context_unresolved"
  ELSE "none"

Reserve(p) ==
  /\ pc[p] = "reserve"
  /\ LET refusal == ReserveRefusal(target[p]) IN
     IF refusal = "none" THEN Goto(p, "city") ELSE Deny(p, refusal)

(* The city lock, the token, the window, then admission.consume.              *)
AdmissionRefusal(i) ==
  IF command[i].expects # revision THEN "projection_revision_conflict"
  ELSE IF Expired(i) THEN "challenge_expired"
  ELSE "none"

Admit(p) ==
  /\ pc[p] = "city"
  /\ LET refusal == AdmissionRefusal(target[p]) IN
     \/ refusal = "none" /\ Goto(p, "execute")
     \/ refusal # "none" /\ Deny(p, refusal)
     \/ refusal = "none" /\ Deny(p, "write_rate_limited")

(* The BASE writer and recordCommit, buffered until COMMIT.                   *)
Execute(p) ==
  /\ pc[p] = "execute"
  /\ IF command[target[p]].fate = "facet_head_conflict"
     THEN Deny(p, "facet_head_conflict") ELSE Goto(p, "window")

FinalWindow(p) ==
  /\ pc[p] = "window"
  /\ IF Expired(target[p]) THEN Deny(p, "challenge_expired")
     ELSE Goto(p, "commit")

(* COMMIT publishes the whole bundle; its acknowledgement may be lost, and   *)
(* the caller then catches an error of unknown kind.                         *)
Commit(p) ==
  /\ pc[p] = "commit"
  /\ LET i == target[p]
         k == command[i].key
     IN /\ execution' = [execution EXCEPT ![i] = "committed"]
        /\ challenge' = [challenge EXCEPT ![i] = "consumed"]
        /\ linked' = [linked EXCEPT ![i] = TRUE]
        /\ receipt' = [receipt EXCEPT ![k] = i]
        /\ effects' = [effects EXCEPT ![k] = @ + 1]
        /\ outbox' = [outbox EXCEPT ![i]["write_committed"] = @ + 1]
        /\ revision' = IF command[i].fate = "moves" THEN revision + 1 ELSE revision
  /\ audit' = [audit EXCEPT ![p] = @ \cup {"committed"}]
  /\ fence' = [fence EXCEPT ![p] = 0]
  /\ \/ /\ pc' = [pc EXCEPT ![p] = "done"]
        /\ answer' = [answer EXCEPT ![p] = "committed"]
        /\ code' = code
     \/ /\ pc' = [pc EXCEPT ![p] = "caught"]
        /\ code' = [code EXCEPT ![p] = "unknown"]
        /\ answer' = answer
  /\ UNCHANGED <<now, rights, closed, command, revoked, reserved, rejection,
                 target, told, seen>>

(* lock_timeout, one second: a wait of BASE becomes 503 (55P03).             *)
LockTimeout(p) ==
  /\ \/ pc[p] = "fences" /\ fence[p] = Fences /\ ~IntentFree(target[p])
     \/ pc[p] = "workspace" /\ ~WorkspaceFree
  /\ Deny(p, "write_fence_unavailable")

(* Any other failure of a statement before COMMIT: a known refusal the model *)
(* does not track (the session's expiry, the five-second budget) or a raw    *)
(* SQL error.                                                                *)
Fail(p) ==
  /\ pc[p] \in InBase \cup {"attempt"}
  /\ Deny(p, "write_fence_unavailable") \/ Deny(p, "unknown")

(* Mutant: a refusal recorded over another one.                              *)
RejectableTwice(i) == ~revoked[i]

(* The catch branch of confirmPwSignalWrite.  A terminal conflict rejects    *)
(* the intent, in a transaction of its own, unless another verdict or a      *)
(* revocation came first; its FOR UPDATE has no lock_timeout.                *)
Rejectable(i) == execution[i] = "pending" /\ ~revoked[i]

RecordRejection(p) ==
  /\ pc[p] = "caught" /\ code[p] \in Terminal
  /\ IntentFree(target[p]) /\ Rejectable(target[p])
  /\ LET i == target[p]
     IN /\ execution' = [execution EXCEPT ![i] = "rejected"]
        /\ rejection' = [rejection EXCEPT ![i] = code[p]]
        /\ outbox' = [outbox EXCEPT ![i]["write_rejected"] = @ + 1]
  /\ audit' = [audit EXCEPT ![p] = @ \cup {"denied"}]
  /\ answer' = [answer EXCEPT ![p] = code[p]]
  /\ pc' = [pc EXCEPT ![p] = "done"]
  /\ UNCHANGED <<world, command, challenge, revoked, reserved, linked, base,
                 target, fence, code, told, seen>>

(* Mutant: a conflict already recorded is not passed on.                     *)
PassOthers(p) ==
  /\ pc[p] = "caught" /\ code[p] \notin Terminal
  /\ Goto(p, "audit")

PassRejection(p) ==
  /\ pc[p] = "caught"
  /\ code[p] \in Terminal =>
       IntentFree(target[p]) /\ ~Rejectable(target[p])
  /\ Goto(p, "audit")

AuditResult(refusal) ==
  IF refusal = "unknown" THEN "unknown"
  ELSE IF refusal = "challenge_consumed" THEN "replay_denied" ELSE "denied"

AppendAudit(p) ==
  /\ pc[p] = "audit"
  /\ audit' = [audit EXCEPT ![p] = @ \cup {AuditResult(code[p])}]
  /\ answer' = [answer EXCEPT ![p] = code[p]]
  /\ pc' = [pc EXCEPT ![p] = "done"]
  /\ UNCHANGED <<world, rows, base, outbox, target, fence, code, told, seen>>

(* The server of the request dies: its transaction rolls back, its locks go. *)
(* The catch branch's own transaction failing looks the same: no verdict.     *)
Crash(p) ==
  /\ pc[p] \notin {"idle", "done", "dead"}
  /\ pc' = [pc EXCEPT ![p] = "dead"]
  /\ fence' = [fence EXCEPT ![p] = 0]
  /\ UNCHANGED <<world, rows, base, outbox, target, code, audit, answer, told,
                 seen>>

-----------------------------------------------------------------------------
(* Everybody else.                                                           *)

(* revokePwIntent, under the intent's exclusive lock.  A second revocation   *)
(* only answers.                                                             *)
Revoke(i) ==
  /\ Prepared(i) /\ IntentFree(i)
  /\ told' = [told EXCEPT ![i] =
       IF execution[i] = "committed" THEN "committed" ELSE "not_committed"]
  /\ revoked' = [revoked EXCEPT ![i] = TRUE]
  /\ outbox' = IF revoked[i] THEN outbox
               ELSE [outbox EXCEPT ![i]["write_revoked"] = @ + 1]
  /\ UNCHANGED <<world, command, execution, challenge, reserved, linked,
                 rejection, base, request, seen>>

(* revokePwAuthority: the exclusive fence lock waits for every share.        *)
CloseAuthority(kind) ==
  /\ kind \notin closed
  /\ \A p \in Requests : fence[p] < kind
  /\ closed' = closed \cup {kind}
  /\ UNCHANGED <<now, revision, rights, rows, base, outbox, request, told, seen>>

(* readPwWriteStatus, under a shared lock of the intent.                     *)
ReadStatus(i) ==
  /\ Prepared(i) /\ IntentFree(i)
  /\ seen' = [seen EXCEPT ![i] = Status(i)]
  /\ UNCHANGED <<world, rows, base, outbox, request, told>>

(* A command of the same actor and key through another BASE route, in this   *)
(* workspace or, under that workspace's lock, in another one.  An existing   *)
(* receipt is replayed or refused: no step.                                  *)
DirectWrite(k) ==
  /\ receipt[k] = NoIntent /\ KeyFree(k)
  /\ receipt' = [receipt EXCEPT ![k] = Direct]
  /\ effects' = [effects EXCEPT ![k] = @ + 1]
  /\ \/ UNCHANGED revision
     \/ /\ WorkspaceFree /\ rights /\ revision < MaxRevision
        /\ revision' = revision + 1
  /\ UNCHANGED <<now, rights, closed, rows, outbox, request, told, seen>>

(* Another writer moves what the token covers: a graph refresh under the     *)
(* city lock, a classification or a member change under the workspace lock   *)
(* (free only when the city lock is).                                        *)
MoveScope ==
  /\ CityFree /\ revision < MaxRevision
  /\ revision' = revision + 1
  /\ UNCHANGED <<now, rights, closed, rows, base, outbox, request, told, seen>>

(* Membership, capability or approval of the actor: the workspace lock, or   *)
(* the account row the transaction share-locks.                              *)
ChangeRights ==
  /\ WorkspaceFree
  /\ rights' = ~rights
  /\ \/ UNCHANGED revision
     \/ revision < MaxRevision /\ revision' = revision + 1
  /\ UNCHANGED <<now, closed, rows, base, outbox, request, told, seen>>

Tick ==
  /\ now < MaxClock /\ now' = now + 1
  /\ UNCHANGED <<revision, rights, closed, rows, base, outbox, request, told, seen>>

-----------------------------------------------------------------------------
Advance(p) ==
  \/ ReserveAttempt(p) \/ TakeFence(p) \/ LockIntent(p) \/ LockWorkspace(p)
  \/ Reserve(p) \/ Admit(p) \/ Execute(p) \/ FinalWindow(p) \/ Commit(p)
  \/ LockTimeout(p) \/ RecordRejection(p) \/ PassRejection(p) \/ AppendAudit(p)

Serve ==
  \/ \E i \in Intents, k \in Keys, expects \in 0 .. revision, life \in 1 .. TTL,
       fate \in Fates : Prepare(i, k, expects, life, fate)
  \/ \E p \in Requests, i \in Intents : Receive(p, i)
  \/ \E p \in Requests : Advance(p)
  \/ \E p \in Requests : Fail(p)
  \/ \E p \in Requests : Crash(p)
  \/ \E i \in Intents : Revoke(i)
  \/ \E i \in Intents : ReadStatus(i)
  \/ \E k \in Keys : DirectWrite(k)

(* What moves without anybody asking this service.                           *)
World ==
  \/ \E kind \in 1 .. Fences : CloseAuthority(kind)
  \/ MoveScope
  \/ ChangeRights
  \/ Tick

Next == Serve \/ World

Spec == Init /\ [][Next]_vars

(* The runtime schedules every request and PostgreSQL ends every lock wait;  *)
(* nothing else is promised.                                                 *)
FairSpec == Spec /\ \A p \in Requests : WF_vars(Advance(p))
-----------------------------------------------------------------------------

(* Properties.                                                               *)

Commands == [key : Keys, expects : Nat, expires : Nat, fate : Fates]
Verdicts == {"pending", "committed", "rejected", "expired", "revoked"}

(* Every variable keeps its type.                                            *)
TypeOK ==
  /\ now \in Nat /\ revision \in Nat /\ rights \in BOOLEAN
  /\ closed \subseteq 1 .. Fences
  /\ command \in [Intents -> Commands \cup {NoIntent}]
  /\ execution \in [Intents -> {"absent", "pending", "committed", "rejected"}]
  /\ challenge \in [Intents -> {"pending", "consumed"}]
  /\ revoked \in [Intents -> BOOLEAN]
  /\ reserved \in [Keys -> Intents \cup {NoIntent}]
  /\ linked \in [Intents -> BOOLEAN]
  /\ rejection \in [Intents -> Terminal \cup {"none"}]
  /\ receipt \in [Keys -> Intents \cup {NoIntent, Direct}]
  /\ effects \in [Keys -> Nat]
  /\ outbox \in [Intents -> [OutboxKinds -> Nat]]
  /\ pc \in [Requests -> Pcs]
  /\ target \in [Requests -> Intents \cup {NoIntent}]
  /\ fence \in [Requests -> 0 .. Fences]
  /\ code \in [Requests -> Codes \cup {"none"}]
  /\ audit \in [Requests -> SUBSET {"committed", "denied", "replay_denied",
                                    "unknown"}]
  /\ answer \in [Requests -> Codes \cup {"none", "committed"}]
  /\ told \in [Intents -> {"none", "committed", "not_committed"}]
  /\ seen \in [Intents -> Verdicts \cup {"none"}]

(* The requests whose transaction committed the intent.                      *)
Winners(i) == {p \in Requests : target[p] = i /\ "committed" \in audit[p]}

Bundle(i) ==
  LET committed == execution[i] = "committed"
  IN /\ committed <=> challenge[i] = "consumed"
     /\ committed <=> linked[i]
     /\ committed => receipt[command[i].key] = i
     /\ \A k \in Keys : receipt[k] = i => committed
     /\ outbox[i]["write_committed"] = IF committed THEN 1 ELSE 0
     /\ committed <=> Winners(i) # {}
     /\ \A p, q \in Winners(i) : p = q
     /\ (rejection[i] # "none") <=> (execution[i] = "rejected")

(* However many requests confirm an intent, crash, retry or lose their       *)
(* acknowledgement, a key has at most one BASE execution; an intent is       *)
(* committed exactly when that execution is its own, its challenge consumed, *)
(* its receipt linked, one write_committed row queued and one request        *)
(* audited as the winner; a rejected intent has none of them.                *)
ExactlyOnce ==
  /\ \A k \in Keys : effects[k] = IF receipt[k] = NoIntent THEN 0 ELSE 1
  /\ \A i \in Intents : Bundle(i)

(* What a client was told stays true: "committed" and "challenge_consumed"   *)
(* mean the write is there; a terminal conflict, a revocation or an expiry   *)
(* means it never will be, whichever request for the same intent comes next; *)
(* a revocation answered "not_committed", or a status answered "expired",    *)
(* is never followed by a commit.                                            *)
AnswersHold ==
  /\ \A p \in Requests :
       /\ answer[p] \in {"committed", "challenge_consumed"} =>
            execution[target[p]] = "committed"
       /\ answer[p] \in Terminal \cup {"write_intent_revoked",
                                       "challenge_expired",
                                       "command_context_unresolved"} =>
            execution[target[p]] # "committed"
       /\ audit[p] \cap {"denied", "replay_denied"} # {} =>
            "committed" \notin audit[p]
  /\ \A i \in Intents :
       /\ told[i] = "committed" => execution[i] = "committed"
       /\ told[i] = "not_committed" => execution[i] # "committed"
       /\ seen[i] = "expired" => execution[i] # "committed"
       /\ seen[i] \in {"committed", "rejected"} => execution[i] = seen[i]

(* At the very COMMIT of an intent its authority is open, it is not revoked, *)
(* the actor has the rights, and the scope is the one the page displayed,    *)
(* although all of them were checked in earlier statements.                  *)
AdmittedAtCommit ==
  [][\A i \in Intents :
       execution[i] # "committed" /\ execution'[i] = "committed" =>
         /\ closed = {} /\ ~revoked[i] /\ rights
         /\ command[i].expects = revision
         /\ execution[i] = "pending"]_vars

(* The statuses a reader is given follow the order the page relies on when   *)
(* it stops polling: nothing comes back to pending, a verdict is only ever   *)
(* masked by a revocation, an expired intent is never seen committed.        *)
Successors(status) ==
  CASE status = "none" -> Verdicts \cup {"none"}
    [] status = "pending" -> Verdicts
    [] status = "expired" -> {"expired", "rejected", "revoked"}
    [] status = "revoked" -> {"revoked"}
    [] OTHER -> {status, "revoked"}

StatusMonotone == [][\A i \in Intents : seen'[i] \in Successors(seen[i])]_vars

(* The service never issues a statement the table guards refuse.             *)
Tables == INSTANCE PwWriteTables WITH Codes <- Terminal
TablesAccept == Tables!Spec

(* Every received confirmation is answered, or its server died.              *)
ConfirmAnswered ==
  \A p \in Requests : pc[p] = "attempt" ~> pc[p] \in {"done", "dead"}

(* docs/spec/PW_D_PERSISTENCE.md:53 "Later confirmation and status return    *)
(* the same refusal": a status once answered "rejected" stays so.  The code  *)
(* lets the owner revoke a rejected intent, which masks the refusal.         *)
RefusalSticks ==
  [][\A i \in Intents : seen[i] = "rejected" => seen'[i] = "rejected"]_vars
=============================================================================
