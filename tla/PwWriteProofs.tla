---------------------------- MODULE PwWriteProofs ----------------------------
(* Proofs about PwWrite, for any number of requests, intents, keys, fences    *)
(* and any bounds.  IInv is the inductive invariant: the typing, who may be   *)
(* where in the transaction, what each statement's check is still worth       *)
(* while its lock is held, the bundle, and why each answer stays true.        *)
EXTENDS PwWrite, TLAPS

(* A request past idle has a prepared intent; its fences are those of its pc. *)
PcInv ==
  \A p \in Requests :
    /\ pc[p] = "idle" <=> target[p] = NoIntent
    /\ pc[p] # "idle" => execution[target[p]] # "absent"
    /\ pc[p] \in PastIntentLock => fence[p] = Fences
    /\ pc[p] \notin InBase => fence[p] = 0
    /\ pc[p] \in InBase \cup {"idle", "attempt"} => audit[p] = {}
    /\ pc[p] \in {"caught", "audit"} => code[p] # "none"

(* The exclusive locks exclude.                                               *)
LockInv ==
  \A p, q \in Requests :
    p # q => /\ pc[p] \in PastIntentLock => ~HoldsIntent(q, target[p])
             /\ HoldsWorkspace(p) => ~HoldsWorkspace(q)

(* An intent row, its reservation and its verdict agree.                      *)
RowInv ==
  /\ \A i \in Intents :
       /\ execution[i] = "absent" =>
            command[i] = NoIntent /\ ~revoked[i] /\ told[i] = "none" /\ seen[i] = "none"
       /\ execution[i] # "absent" =>
            /\ command[i] \in Commands /\ reserved[command[i].key] = i
            /\ command[i].expects <= revision
       /\ rejection[i] = "projection_revision_conflict" =>
            command[i].expects < revision
       /\ rejection[i] = "facet_head_conflict" =>
            command[i].fate = "facet_head_conflict"
  /\ \A k \in Keys : reserved[k] \in Intents =>
       execution[reserved[k]] # "absent" /\ command[reserved[k]].key = k

(* What a transaction has checked still holds at every later statement.       *)
CheckInv ==
  /\ \A p \in Requests :
       /\ pc[p] \in PastWorkspaceLock => rights
       /\ pc[p] \in PastReserve =>
            /\ execution[target[p]] = "pending" /\ ~revoked[target[p]]
            /\ receipt[command[target[p]].key] = NoIntent
       /\ pc[p] \in PastAdmission => command[target[p]].expects = revision
       /\ pc[p] \in {"window", "commit"} =>
            command[target[p]].fate # "facet_head_conflict"
  /\ \A p \in Requests, kind \in closed : fence[p] < kind

(* Intent i can never commit any more.                                        *)
ExpiredForGood(i) ==
  /\ Expired(i) /\ execution[i] # "committed"
  /\ \A q \in Requests : target[q] = i => pc[q] # "commit"

(* What an answer of code c says of intent i, and why it stays true.          *)
Holds(c, i) ==
  /\ c = "challenge_consumed" => execution[i] = "committed"
  /\ c = "projection_revision_conflict" =>
       command[i].expects < revision /\ execution[i] # "committed"
  /\ c = "facet_head_conflict" =>
       command[i].fate = "facet_head_conflict" /\ execution[i] # "committed"
  /\ c = "write_intent_revoked" => revoked[i] /\ execution[i] # "committed"
  /\ c = "challenge_expired" => ExpiredForGood(i)
  /\ c = "command_context_unresolved" =>
       receipt[command[i].key] # NoIntent /\ execution[i] # "committed"

Refused(p) == audit[p] \cap {"denied", "replay_denied"} # {}

RequestAnswer(p) ==
  /\ pc[p] \in InBase \cup {"idle", "attempt"} => code[p] = "none"
  /\ code[p] # "none" => Holds(code[p], target[p])
  /\ "committed" \in audit[p] => code[p] \in {"none", "unknown"}
  /\ answer[p] # "none" => pc[p] = "done"
  /\ answer[p] \in {"none", code[p], "committed"}
  /\ answer[p] = "committed" => Holds("challenge_consumed", target[p])
  /\ Refused(p) => pc[p] = "done" /\ "committed" \notin audit[p]

IntentAnswer(i) ==
  /\ told[i] = "committed" => Holds("challenge_consumed", i)
  /\ told[i] = "not_committed" => Holds("write_intent_revoked", i)
  /\ seen[i] = "expired" => Holds("challenge_expired", i)
  /\ seen[i] = "committed" => Holds("challenge_consumed", i)
  /\ seen[i] = "rejected" => execution[i] = "rejected"
  /\ seen[i] = "revoked" => revoked[i]

AnswerInv ==
  /\ \A p \in Requests : RequestAnswer(p)
  /\ \A i \in Intents : IntentAnswer(i)

IInv == /\ TypeOK /\ PcInv /\ LockInv /\ RowInv /\ CheckInv /\ ExactlyOnce
        /\ AnswerInv

-----------------------------------------------------------------------------
(* Typing: every step keeps every variable's type.                            *)
LEMMA InitTypeOK == Init => TypeOK
  BY BoundsAssumption DEF Init, TypeOK, Pcs, OutboxKinds

USE DEF world, rows, base, request
\* Going on to a statement keeps the types.
LEMMA GotoType ==
  ASSUME TypeOK, NEW p \in Requests, NEW s \in Pcs, Goto(p, s)
  PROVE  TypeOK'
  BY DEF TypeOK, Goto

\* A refusal keeps them.
LEMMA DenyType ==
  ASSUME TypeOK, NEW p \in Requests, NEW c \in Codes, Deny(p, c)
  PROVE  TypeOK'
<1>1. "caught" \in Pcs /\ 0 \in 0 .. Fences
  BY BoundsAssumption DEF Pcs
<1> QED
  BY <1>1 DEF TypeOK, Deny

(* A request past idle confirms a prepared intent, whose row is a command.    *)
LEMMA TargetType ==
  ASSUME TypeOK, PcInv, NEW p \in Requests, pc[p] # "idle"
  PROVE  target[p] \in Intents /\ execution[target[p]] # "absent"
  BY DEF TypeOK, PcInv

\* Every step keeps them.
LEMMA TypeStep == TypeOK /\ PcInv /\ RowInv /\ ExactlyOnce /\ [Next]_vars => TypeOK'
<1> SUFFICES ASSUME TypeOK, PcInv, RowInv, ExactlyOnce, [Next]_vars PROVE TypeOK'
  OBVIOUS
<1>1. ASSUME NEW i \in Intents, NEW k \in Keys, NEW expects \in 0 .. revision,
              NEW life \in 1 .. TTL, NEW fate \in Fates,
              Prepare(i, k, expects, life, fate)
      PROVE  TypeOK'
  BY <1>1 DEF TypeOK, Prepare, Commands
<1>2. ASSUME NEW p \in Requests, NEW i \in Intents, Receive(p, i)
      PROVE  TypeOK'
  BY <1>2, BoundsAssumption DEF TypeOK, Receive, Pcs, Codes, Refusals
<1>3. ASSUME NEW p \in Requests, ReserveAttempt(p)
      PROVE  TypeOK'
  BY <1>3, GotoType, DenyType DEF ReserveAttempt, Pcs, Codes, Refusals
<1>4. ASSUME NEW p \in Requests, TakeFence(p)
      PROVE  TypeOK'
  <2>1. CASE fence[p] + 1 \in closed
    <3>1. Deny(p, "write_authority_unavailable")
      BY <1>4, <2>1 DEF TakeFence
    <3> QED
      BY <3>1, DenyType DEF Codes, Refusals
  <2>2. CASE fence[p] + 1 \notin closed
    <3>1. fence[p] + 1 \in 0 .. Fences
      BY <1>4, BoundsAssumption DEF TypeOK, TakeFence
    <3>2. /\ fence' = [fence EXCEPT ![p] = fence[p] + 1]
          /\ UNCHANGED <<world, rows, base, outbox, pc, target, code, audit,
                         answer, told, seen>>
      BY <1>4, <2>2 DEF TakeFence
    <3>3. fence' \in [Requests -> 0 .. Fences]
      BY <3>1, <3>2 DEF TypeOK
    <3> QED
      BY <3>2, <3>3 DEF TypeOK
  <2> QED
    BY <2>1, <2>2
<1>5. ASSUME NEW p \in Requests, LockIntent(p)
      PROVE  TypeOK'
  BY <1>5, GotoType, DenyType DEF LockIntent, Pcs, Codes, Refusals
<1>6. ASSUME NEW p \in Requests, LockWorkspace(p)
      PROVE  TypeOK'
  BY <1>6, GotoType, DenyType DEF LockWorkspace, Pcs, Codes, Refusals
<1>7. ASSUME NEW p \in Requests, Reserve(p)
      PROVE  TypeOK'
  <2>1. target[p] \in Intents => ReserveRefusal(target[p]) \in Codes \cup {"none"}
    BY DEF TypeOK, ExactlyOnce, Bundle, ReserveRefusal, Codes, Refusals, Terminal
  <2>2. target[p] \in Intents
    BY <1>7, TargetType DEF Reserve
  <2> QED
    BY <1>7, <2>1, <2>2, GotoType, DenyType DEF Reserve, Pcs
<1>8. ASSUME NEW p \in Requests, Admit(p)
      PROVE  TypeOK'
  BY <1>8, GotoType, DenyType DEF Admit, AdmissionRefusal, Pcs, Codes, Refusals,
     Terminal
<1>9. ASSUME NEW p \in Requests, Execute(p)
      PROVE  TypeOK'
  BY <1>9, GotoType, DenyType DEF Execute, Pcs, Codes, Refusals, Terminal
<1>10. ASSUME NEW p \in Requests, FinalWindow(p)
      PROVE  TypeOK'
  BY <1>10, GotoType, DenyType DEF FinalWindow, Pcs, Codes, Refusals
<1>11. ASSUME NEW p \in Requests, Commit(p)
      PROVE  TypeOK'
  <2> DEFINE i == target[p]
             k == command[i].key
  <2>1. i \in Intents /\ k \in Keys
    BY <1>11, TargetType DEF Commit, RowInv, Commands
  <2>2. /\ execution' \in [Intents -> {"absent", "pending", "committed", "rejected"}]
        /\ challenge' \in [Intents -> {"pending", "consumed"}]
        /\ linked' \in [Intents -> BOOLEAN]
        /\ receipt' \in [Keys -> Intents \cup {NoIntent, Direct}]
        /\ effects' \in [Keys -> Nat]
        /\ revision' \in Nat
    BY <1>11, <2>1 DEF Commit, TypeOK
  <2>3. outbox' \in [Intents -> [OutboxKinds -> Nat]]
    BY <1>11, <2>1 DEF Commit, TypeOK, OutboxKinds
  <2>4. /\ pc' \in [Requests -> Pcs]
        /\ code' \in [Requests -> Codes \cup {"none"}]
        /\ answer' \in [Requests -> Codes \cup {"none", "committed"}]
    <3>1. "done" \in Pcs /\ "caught" \in Pcs /\ "unknown" \in Codes
      BY DEF Pcs, Codes
    <3>2. \/ /\ pc' = [pc EXCEPT ![p] = "done"]
             /\ answer' = [answer EXCEPT ![p] = "committed"]
             /\ code' = code
          \/ /\ pc' = [pc EXCEPT ![p] = "caught"]
             /\ code' = [code EXCEPT ![p] = "unknown"]
             /\ answer' = answer
      BY <1>11 DEF Commit
    <3>3. /\ pc \in [Requests -> Pcs]
          /\ code \in [Requests -> Codes \cup {"none"}]
          /\ answer \in [Requests -> Codes \cup {"none", "committed"}]
      BY DEF TypeOK
    <3> QED
      BY <3>1, <3>2, <3>3
  <2>6. fence' \in [Requests -> 0 .. Fences]
    BY <1>11, BoundsAssumption DEF Commit, TypeOK
  <2>5. audit' \in [Requests -> SUBSET {"committed", "denied", "replay_denied", "unknown"}]
    BY <1>11 DEF Commit, TypeOK
  <2> QED
    BY <1>11, <2>2, <2>3, <2>4, <2>5, <2>6 DEF Commit, TypeOK
<1>12. ASSUME NEW p \in Requests, LockTimeout(p)
      PROVE  TypeOK'
  BY <1>12, GotoType, DenyType DEF LockTimeout, Pcs, Codes, Refusals
<1>13. ASSUME NEW p \in Requests, RecordRejection(p)
      PROVE  TypeOK'
  <2>1. target[p] \in Intents
    BY <1>13, TargetType DEF RecordRejection
  <2>2. outbox' \in [Intents -> [OutboxKinds -> Nat]]
    BY <1>13, <2>1 DEF RecordRejection, TypeOK, OutboxKinds
  <2> QED
    BY <1>13, <2>1, <2>2 DEF TypeOK, RecordRejection, Pcs, Codes, Refusals
<1>14. ASSUME NEW p \in Requests, PassRejection(p)
      PROVE  TypeOK'
  BY <1>14, GotoType, DenyType DEF PassRejection, Pcs, Codes, Refusals
<1>15. ASSUME NEW p \in Requests, AppendAudit(p)
      PROVE  TypeOK'
  BY <1>15, BoundsAssumption DEF TypeOK, AppendAudit, AuditResult, Pcs, Codes, Refusals
<1>16. ASSUME NEW p \in Requests, Fail(p)
      PROVE  TypeOK'
  BY <1>16, GotoType, DenyType DEF Fail, Pcs, Codes, Refusals
<1>17. ASSUME NEW p \in Requests, Crash(p)
      PROVE  TypeOK'
  BY <1>17, BoundsAssumption DEF TypeOK, Crash, Pcs, Codes, Refusals
<1>18. ASSUME NEW i \in Intents, Revoke(i)
      PROVE  TypeOK'
  BY <1>18 DEF TypeOK, Revoke, OutboxKinds
<1>19. ASSUME NEW kind \in 1 .. Fences, CloseAuthority(kind)
      PROVE  TypeOK'
  BY <1>19, BoundsAssumption DEF TypeOK, CloseAuthority, Pcs, Codes, Refusals
<1>20. ASSUME NEW i \in Intents, ReadStatus(i)
      PROVE  TypeOK'
  BY <1>20 DEF TypeOK, ReadStatus, Status, Verdicts
<1>21. ASSUME NEW k \in Keys, DirectWrite(k)
      PROVE  TypeOK'
  BY <1>21, BoundsAssumption DEF TypeOK, DirectWrite, Pcs, Codes, Refusals
<1>22. CASE MoveScope
  BY <1>22, BoundsAssumption DEF TypeOK, MoveScope, Pcs, Codes, Refusals
<1>23. CASE ChangeRights
  BY <1>23, BoundsAssumption DEF TypeOK, ChangeRights, Pcs, Codes, Refusals
<1>24. CASE Tick
  BY <1>24, BoundsAssumption DEF TypeOK, Tick, Pcs, Codes, Refusals
<1>25. CASE UNCHANGED vars
  BY <1>25 DEF TypeOK, vars
<1> QED
  BY <1>1, <1>2, <1>3, <1>4, <1>5, <1>6, <1>7, <1>8, <1>9, <1>10, <1>11, <1>12, <1>13,
     <1>14, <1>15, <1>16, <1>17, <1>18, <1>19, <1>20, <1>21, <1>22, <1>23, <1>24,
     <1>25 DEF Next, Serve, World, Advance

-----------------------------------------------------------------------------
(* Where each request may be.                                                 *)
LEMMA PcStep == TypeOK /\ PcInv /\ [Next]_vars => PcInv'
<1> SUFFICES ASSUME TypeOK, PcInv, [Next]_vars PROVE PcInv'
  OBVIOUS
<1>1. ASSUME NEW i \in Intents, NEW k \in Keys, NEW expects \in 0 .. revision,
              NEW life \in 1 .. TTL, NEW fate \in Fates,
              Prepare(i, k, expects, life, fate)
      PROVE  PcInv'
  BY <1>1, NamesAssumption DEF TypeOK, PcInv, PastIntentLock, InBase, Prepare
<1>2. ASSUME NEW p \in Requests, NEW i \in Intents, Receive(p, i)
      PROVE  PcInv'
  BY <1>2, NamesAssumption DEF TypeOK, PcInv, PastIntentLock, InBase, Receive, Prepared
<1>3. ASSUME NEW p \in Requests, ReserveAttempt(p)
      PROVE  PcInv'
  BY <1>3, NamesAssumption DEF TypeOK, PcInv, PastIntentLock, InBase, ReserveAttempt,
     Goto, Deny
<1>4. ASSUME NEW p \in Requests, TakeFence(p)
      PROVE  PcInv'
  BY <1>4, NamesAssumption DEF TypeOK, PcInv, PastIntentLock, InBase, TakeFence, Deny
<1>5. ASSUME NEW p \in Requests, LockIntent(p)
      PROVE  PcInv'
  BY <1>5, NamesAssumption DEF TypeOK, PcInv, PastIntentLock, InBase, LockIntent, Goto
<1>6. ASSUME NEW p \in Requests, LockWorkspace(p)
      PROVE  PcInv'
  BY <1>6, NamesAssumption DEF TypeOK, PcInv, PastIntentLock, InBase, LockWorkspace,
     Goto, Deny
<1>7. ASSUME NEW p \in Requests, Reserve(p)
      PROVE  PcInv'
  BY <1>7, NamesAssumption DEF TypeOK, PcInv, PastIntentLock, InBase, Reserve, Goto,
     Deny
<1>8. ASSUME NEW p \in Requests, Admit(p)
      PROVE  PcInv'
  BY <1>8, NamesAssumption DEF TypeOK, PcInv, PastIntentLock, InBase, Admit,
     AdmissionRefusal, Goto, Deny
<1>9. ASSUME NEW p \in Requests, Execute(p)
      PROVE  PcInv'
  BY <1>9, NamesAssumption DEF TypeOK, PcInv, PastIntentLock, InBase, Execute, Goto,
     Deny
<1>10. ASSUME NEW p \in Requests, FinalWindow(p)
      PROVE  PcInv'
  BY <1>10, NamesAssumption DEF TypeOK, PcInv, PastIntentLock, InBase, FinalWindow,
     Goto, Deny
<1>11. ASSUME NEW p \in Requests, Commit(p)
      PROVE  PcInv'
  BY <1>11, NamesAssumption DEF TypeOK, PcInv, PastIntentLock, InBase, Commit
<1>12. ASSUME NEW p \in Requests, LockTimeout(p)
      PROVE  PcInv'
  BY <1>12, NamesAssumption DEF TypeOK, PcInv, PastIntentLock, InBase, LockTimeout, Deny
<1>13. ASSUME NEW p \in Requests, RecordRejection(p)
      PROVE  PcInv'
  BY <1>13, NamesAssumption DEF TypeOK, PcInv, PastIntentLock, InBase, RecordRejection
<1>14. ASSUME NEW p \in Requests, PassRejection(p)
      PROVE  PcInv'
  BY <1>14, NamesAssumption DEF TypeOK, PcInv, PastIntentLock, InBase, PassRejection,
     Goto
<1>15. ASSUME NEW p \in Requests, AppendAudit(p)
      PROVE  PcInv'
  BY <1>15, NamesAssumption DEF TypeOK, PcInv, PastIntentLock, InBase, AppendAudit,
     AuditResult
<1>16. ASSUME NEW p \in Requests, Fail(p)
      PROVE  PcInv'
  BY <1>16, NamesAssumption DEF TypeOK, PcInv, PastIntentLock, InBase, Fail, Deny
<1>17. ASSUME NEW p \in Requests, Crash(p)
      PROVE  PcInv'
  BY <1>17, NamesAssumption DEF TypeOK, PcInv, PastIntentLock, InBase, Crash
<1>18. ASSUME NEW i \in Intents, Revoke(i)
      PROVE  PcInv'
  BY <1>18, NamesAssumption DEF TypeOK, PcInv, PastIntentLock, InBase, Revoke
<1>19. ASSUME NEW kind \in 1 .. Fences, CloseAuthority(kind)
      PROVE  PcInv'
  BY <1>19, NamesAssumption DEF TypeOK, PcInv, PastIntentLock, InBase, CloseAuthority
<1>20. ASSUME NEW i \in Intents, ReadStatus(i)
      PROVE  PcInv'
  BY <1>20, NamesAssumption DEF TypeOK, PcInv, PastIntentLock, InBase, ReadStatus,
     Status
<1>21. ASSUME NEW k \in Keys, DirectWrite(k)
      PROVE  PcInv'
  BY <1>21, NamesAssumption DEF TypeOK, PcInv, PastIntentLock, InBase, DirectWrite
<1>22. CASE MoveScope
  BY <1>22, NamesAssumption DEF TypeOK, PcInv, PastIntentLock, InBase, MoveScope
<1>23. CASE ChangeRights
  BY <1>23, NamesAssumption DEF TypeOK, PcInv, PastIntentLock, InBase, ChangeRights
<1>24. CASE Tick
  BY <1>24, NamesAssumption DEF TypeOK, PcInv, PastIntentLock, InBase, Tick
<1>25. CASE UNCHANGED vars
  BY <1>25 DEF TypeOK, PcInv, PastIntentLock, InBase, vars
<1> QED
  BY <1>1, <1>2, <1>3, <1>4, <1>5, <1>6, <1>7, <1>8, <1>9, <1>10, <1>11, <1>12, <1>13,
     <1>14, <1>15, <1>16, <1>17, <1>18, <1>19, <1>20, <1>21, <1>22, <1>23, <1>24,
     <1>25 DEF Next, Serve, World, Advance

(* The locks a statement takes exclude.                                        *)
LEMMA LockStep == TypeOK /\ PcInv /\ LockInv /\ [Next]_vars => LockInv'
<1> SUFFICES ASSUME TypeOK, PcInv, LockInv, [Next]_vars PROVE LockInv'
  OBVIOUS
<1>1. ASSUME NEW i \in Intents, NEW k \in Keys, NEW expects \in 0 .. revision,
              NEW life \in 1 .. TTL, NEW fate \in Fates,
              Prepare(i, k, expects, life, fate)
      PROVE  LockInv'
  BY <1>1 DEF TypeOK, LockInv, HoldsIntent, HoldsWorkspace, PastIntentLock,
     PastWorkspaceLock, Prepare
<1>2. ASSUME NEW p \in Requests, NEW i \in Intents, Receive(p, i)
      PROVE  LockInv'
  BY <1>2 DEF TypeOK, LockInv, HoldsIntent, HoldsWorkspace, PastIntentLock,
     PastWorkspaceLock, Receive
<1>3. ASSUME NEW p \in Requests, ReserveAttempt(p)
      PROVE  LockInv'
  BY <1>3 DEF TypeOK, LockInv, HoldsIntent, HoldsWorkspace, PastIntentLock,
     PastWorkspaceLock, ReserveAttempt, Goto, Deny
<1>4. ASSUME NEW p \in Requests, TakeFence(p)
      PROVE  LockInv'
  BY <1>4 DEF TypeOK, LockInv, HoldsIntent, HoldsWorkspace, PastIntentLock,
     PastWorkspaceLock, TakeFence, Deny
<1>5. ASSUME NEW p \in Requests, LockIntent(p)
      PROVE  LockInv'
  BY <1>5 DEF TypeOK, LockInv, HoldsIntent, HoldsWorkspace, PastIntentLock,
     PastWorkspaceLock, LockIntent, IntentFree, Goto
<1>6. ASSUME NEW p \in Requests, LockWorkspace(p)
      PROVE  LockInv'
  BY <1>6 DEF TypeOK, LockInv, HoldsIntent, HoldsWorkspace, PastIntentLock,
     PastWorkspaceLock, LockWorkspace, WorkspaceFree, Goto, Deny
<1>7. ASSUME NEW p \in Requests, Reserve(p)
      PROVE  LockInv'
  BY <1>7 DEF TypeOK, LockInv, HoldsIntent, HoldsWorkspace, PastIntentLock,
     PastWorkspaceLock, Reserve, Goto, Deny
<1>8. ASSUME NEW p \in Requests, Admit(p)
      PROVE  LockInv'
  BY <1>8 DEF TypeOK, LockInv, HoldsIntent, HoldsWorkspace, PastIntentLock,
     PastWorkspaceLock, Admit, AdmissionRefusal, Goto, Deny
<1>9. ASSUME NEW p \in Requests, Execute(p)
      PROVE  LockInv'
  BY <1>9 DEF TypeOK, LockInv, HoldsIntent, HoldsWorkspace, PastIntentLock,
     PastWorkspaceLock, Execute, Goto, Deny
<1>10. ASSUME NEW p \in Requests, FinalWindow(p)
      PROVE  LockInv'
  BY <1>10 DEF TypeOK, LockInv, HoldsIntent, HoldsWorkspace, PastIntentLock,
     PastWorkspaceLock, FinalWindow, Goto, Deny
<1>11. ASSUME NEW p \in Requests, Commit(p)
      PROVE  LockInv'
  BY <1>11 DEF TypeOK, LockInv, HoldsIntent, HoldsWorkspace, PastIntentLock,
     PastWorkspaceLock, Commit
<1>12. ASSUME NEW p \in Requests, LockTimeout(p)
      PROVE  LockInv'
  BY <1>12 DEF TypeOK, LockInv, HoldsIntent, HoldsWorkspace, PastIntentLock,
     PastWorkspaceLock, LockTimeout, Deny
<1>13. ASSUME NEW p \in Requests, RecordRejection(p)
      PROVE  LockInv'
  BY <1>13 DEF TypeOK, LockInv, HoldsIntent, HoldsWorkspace, PastIntentLock,
     PastWorkspaceLock, RecordRejection
<1>14. ASSUME NEW p \in Requests, PassRejection(p)
      PROVE  LockInv'
  BY <1>14 DEF TypeOK, LockInv, HoldsIntent, HoldsWorkspace, PastIntentLock,
     PastWorkspaceLock, PassRejection, Goto
<1>15. ASSUME NEW p \in Requests, AppendAudit(p)
      PROVE  LockInv'
  BY <1>15 DEF TypeOK, LockInv, HoldsIntent, HoldsWorkspace, PastIntentLock,
     PastWorkspaceLock, AppendAudit, AuditResult
<1>16. ASSUME NEW p \in Requests, Fail(p)
      PROVE  LockInv'
  BY <1>16 DEF TypeOK, LockInv, HoldsIntent, HoldsWorkspace, PastIntentLock,
     PastWorkspaceLock, Fail, Deny
<1>17. ASSUME NEW p \in Requests, Crash(p)
      PROVE  LockInv'
  BY <1>17 DEF TypeOK, LockInv, HoldsIntent, HoldsWorkspace, PastIntentLock,
     PastWorkspaceLock, Crash
<1>18. ASSUME NEW i \in Intents, Revoke(i)
      PROVE  LockInv'
  BY <1>18 DEF TypeOK, LockInv, HoldsIntent, HoldsWorkspace, PastIntentLock,
     PastWorkspaceLock, Revoke
<1>19. ASSUME NEW kind \in 1 .. Fences, CloseAuthority(kind)
      PROVE  LockInv'
  BY <1>19 DEF TypeOK, LockInv, HoldsIntent, HoldsWorkspace, PastIntentLock,
     PastWorkspaceLock, CloseAuthority
<1>20. ASSUME NEW i \in Intents, ReadStatus(i)
      PROVE  LockInv'
  BY <1>20 DEF TypeOK, LockInv, HoldsIntent, HoldsWorkspace, PastIntentLock,
     PastWorkspaceLock, ReadStatus, Status
<1>21. ASSUME NEW k \in Keys, DirectWrite(k)
      PROVE  LockInv'
  BY <1>21 DEF TypeOK, LockInv, HoldsIntent, HoldsWorkspace, PastIntentLock,
     PastWorkspaceLock, DirectWrite
<1>22. CASE MoveScope
  BY <1>22 DEF TypeOK, LockInv, HoldsIntent, HoldsWorkspace, PastIntentLock,
     PastWorkspaceLock, MoveScope
<1>23. CASE ChangeRights
  BY <1>23 DEF TypeOK, LockInv, HoldsIntent, HoldsWorkspace, PastIntentLock,
     PastWorkspaceLock, ChangeRights
<1>24. CASE Tick
  BY <1>24 DEF TypeOK, LockInv, HoldsIntent, HoldsWorkspace, PastIntentLock,
     PastWorkspaceLock, Tick
<1>25. CASE UNCHANGED vars
  BY <1>25 DEF TypeOK, LockInv, HoldsIntent, HoldsWorkspace, PastIntentLock,
     PastWorkspaceLock, vars
<1> QED
  BY <1>1, <1>2, <1>3, <1>4, <1>5, <1>6, <1>7, <1>8, <1>9, <1>10, <1>11, <1>12, <1>13,
     <1>14, <1>15, <1>16, <1>17, <1>18, <1>19, <1>20, <1>21, <1>22, <1>23, <1>24,
     <1>25 DEF Next, Serve, World, Advance

(* A step that leaves the rows alone and never lowers the revision.            *)
LEMMA RowFrame ==
  ASSUME TypeOK, RowInv, ExactlyOnce, revision' \in Nat, revision <= revision',
         UNCHANGED <<command, reserved, rejection>>,
         \A i \in Intents : execution'[i] = "absent" <=> execution[i] = "absent",
         \A i \in Intents : execution[i] = "absent" =>
           revoked'[i] = revoked[i] /\ told'[i] = told[i] /\ seen'[i] = seen[i]
  PROVE  RowInv'
<1>1. \A i \in Intents : execution[i] # "absent" => command[i].expects \in Nat
  BY DEF RowInv, Commands
<1>2. \A i \in Intents : rejection[i] = "projection_revision_conflict" =>
        command'[i].expects < revision'
  <2>1. \A i \in Intents : rejection[i] # "none" => execution[i] # "absent"
    BY DEF ExactlyOnce, Bundle
  <2> QED
    BY <1>1, <2>1 DEF RowInv, TypeOK
<1> QED
  BY <1>1, <1>2 DEF RowInv, TypeOK

(* Intent rows, reservations and verdicts keep agreeing.                       *)
LEMMA RowStep ==
  TypeOK /\ PcInv /\ RowInv /\ CheckInv /\ ExactlyOnce /\ AnswerInv /\ [Next]_vars =>
  RowInv'
<1> SUFFICES ASSUME TypeOK, PcInv, RowInv, CheckInv, ExactlyOnce, AnswerInv,
                    [Next]_vars
             PROVE  RowInv'
  OBVIOUS
<1>1. ASSUME NEW i \in Intents, NEW k \in Keys, NEW expects \in 0 .. revision,
              NEW life \in 1 .. TTL, NEW fate \in Fates,
              Prepare(i, k, expects, life, fate)
      PROVE  RowInv'
  <2> DEFINE c == [key |-> k, expects |-> expects, expires |-> now + life, fate |-> fate]
  <2>1. c \in Commands /\ c.key = k /\ c.expects <= revision
    BY DEF TypeOK, Commands
  <2>2. /\ execution[i] = "absent" /\ reserved[k] = NoIntent
        /\ command' = [command EXCEPT ![i] = c]
        /\ execution' = [execution EXCEPT ![i] = "pending"]
        /\ reserved' = [reserved EXCEPT ![k] = i]
        /\ UNCHANGED <<revision, rejection, revoked, told, seen>>
    BY <1>1 DEF Prepare
  <2>3. rejection[i] = "none"
    BY <2>2 DEF ExactlyOnce, Bundle, TypeOK
  <2>4. command'[i] = c /\ \A j \in Intents \ {i} : command'[j] = command[j]
    BY <2>2 DEF TypeOK
  <2>5. execution'[i] = "pending" /\ \A j \in Intents \ {i} : execution'[j] = execution[j]
    BY <2>2 DEF TypeOK
  <2>6. reserved'[k] = i /\ \A h \in Keys \ {k} : reserved'[h] = reserved[h]
    BY <2>2 DEF TypeOK
  <2>7. \A h \in Keys \ {k} : reserved[h] # i
    BY <2>2 DEF RowInv
  <2>8. \A j \in Intents \ {i} : execution[j] # "absent" => command[j].key \in Keys \ {k}
    BY <2>2, NamesAssumption DEF RowInv, Commands
  <2> HIDE DEF c
  <2>9. \A j \in Intents :
         /\ execution'[j] = "absent" =>
              command'[j] = NoIntent /\ ~revoked'[j] /\ told'[j] = "none" /\ seen'[j] = "none"
         /\ execution'[j] # "absent" =>
              /\ command'[j] \in Commands /\ reserved'[command'[j].key] = j
              /\ command'[j].expects <= revision'
    BY <2>1, <2>2, <2>4, <2>5, <2>6, <2>8 DEF RowInv
  <2>10. \A j \in Intents :
          /\ rejection'[j] = "projection_revision_conflict" =>
               command'[j].expects < revision'
          /\ rejection'[j] = "facet_head_conflict" =>
               command'[j].fate = "facet_head_conflict"
    BY <2>2, <2>3, <2>4 DEF RowInv
  <2>11. \A h \in Keys : reserved'[h] \in Intents =>
           execution'[reserved'[h]] # "absent" /\ command'[reserved'[h]].key = h
    BY <2>1, <2>4, <2>5, <2>6, <2>7 DEF RowInv
  <2> QED
    BY <2>9, <2>10, <2>11 DEF RowInv
<1>2. ASSUME NEW p \in Requests, NEW i \in Intents, Receive(p, i)
      PROVE  RowInv'
  BY <1>2, RowFrame, TargetType DEF TypeOK, Receive
<1>3. ASSUME NEW p \in Requests, ReserveAttempt(p)
      PROVE  RowInv'
  BY <1>3, RowFrame, TargetType DEF TypeOK, ReserveAttempt, Goto, Deny
<1>4. ASSUME NEW p \in Requests, TakeFence(p)
      PROVE  RowInv'
  BY <1>4, RowFrame, TargetType DEF TypeOK, TakeFence, Deny
<1>5. ASSUME NEW p \in Requests, LockIntent(p)
      PROVE  RowInv'
  BY <1>5, RowFrame, TargetType DEF TypeOK, LockIntent, Goto
<1>6. ASSUME NEW p \in Requests, LockWorkspace(p)
      PROVE  RowInv'
  BY <1>6, RowFrame, TargetType DEF TypeOK, LockWorkspace, Goto, Deny
<1>7. ASSUME NEW p \in Requests, Reserve(p)
      PROVE  RowInv'
  BY <1>7, RowFrame, TargetType DEF TypeOK, Reserve, Goto, Deny
<1>8. ASSUME NEW p \in Requests, Admit(p)
      PROVE  RowInv'
  BY <1>8, RowFrame, TargetType DEF TypeOK, Admit, Goto, Deny
<1>9. ASSUME NEW p \in Requests, Execute(p)
      PROVE  RowInv'
  BY <1>9, RowFrame, TargetType DEF TypeOK, Execute, Goto, Deny
<1>10. ASSUME NEW p \in Requests, FinalWindow(p)
      PROVE  RowInv'
  BY <1>10, RowFrame, TargetType DEF TypeOK, FinalWindow, Goto, Deny
<1>11. ASSUME NEW p \in Requests, Commit(p)
      PROVE  RowInv'
  BY <1>11, RowFrame, TargetType DEF TypeOK, Commit
<1>12. ASSUME NEW p \in Requests, LockTimeout(p)
      PROVE  RowInv'
  BY <1>12, RowFrame, TargetType DEF TypeOK, LockTimeout, Deny
<1>13. ASSUME NEW p \in Requests, RecordRejection(p)
      PROVE  RowInv'
  <2> DEFINE i == target[p]
  <2>1. i \in Intents /\ execution[i] # "absent"
    BY <1>13, TargetType DEF RecordRejection
  <2>2. /\ code[p] = "projection_revision_conflict" => command[i].expects < revision
        /\ code[p] = "facet_head_conflict" => command[i].fate = "facet_head_conflict"
    BY <1>13 DEF RecordRejection, AnswerInv, RequestAnswer, Holds, Terminal
  <2>3. /\ rejection' = [rejection EXCEPT ![i] = code[p]]
        /\ execution' = [execution EXCEPT ![i] = "rejected"]
        /\ UNCHANGED <<command, revoked, reserved, revision, told, seen>>
    BY <1>13 DEF RecordRejection
  <2>4. \A j \in Intents : execution'[j] = "absent" <=> execution[j] = "absent"
    BY <2>1, <2>3 DEF TypeOK
  <2> HIDE DEF i
  <2> QED
    BY <2>1, <2>2, <2>3, <2>4 DEF RowInv, TypeOK
<1>14. ASSUME NEW p \in Requests, PassRejection(p)
      PROVE  RowInv'
  BY <1>14, RowFrame, TargetType DEF TypeOK, PassRejection, Goto
<1>15. ASSUME NEW p \in Requests, AppendAudit(p)
      PROVE  RowInv'
  BY <1>15, RowFrame, TargetType DEF TypeOK, AppendAudit, AuditResult
<1>16. ASSUME NEW p \in Requests, Fail(p)
      PROVE  RowInv'
  BY <1>16, RowFrame, TargetType DEF TypeOK, Fail, Deny
<1>17. ASSUME NEW p \in Requests, Crash(p)
      PROVE  RowInv'
  BY <1>17, RowFrame, TargetType DEF TypeOK, Crash
<1>18. ASSUME NEW i \in Intents, Revoke(i)
      PROVE  RowInv'
  <2>1. /\ revoked' = [revoked EXCEPT ![i] = TRUE]
        /\ told' = [told EXCEPT ![i] =
             IF execution[i] = "committed" THEN "committed" ELSE "not_committed"]
        /\ UNCHANGED <<command, reserved, rejection, execution, revision, seen>>
        /\ execution[i] # "absent"
    BY <1>18 DEF Revoke, Prepared
  <2>2. \A j \in Intents : execution[j] = "absent" =>
          revoked'[j] = revoked[j] /\ told'[j] = told[j] /\ seen'[j] = seen[j]
    BY <2>1 DEF TypeOK
  <2>3. revision' \in Nat /\ revision <= revision'
    BY <2>1 DEF TypeOK
  <2> QED
    BY <2>1, <2>2, <2>3, RowFrame
<1>19. ASSUME NEW kind \in 1 .. Fences, CloseAuthority(kind)
      PROVE  RowInv'
  BY <1>19, RowFrame, TargetType DEF TypeOK, CloseAuthority
<1>20. ASSUME NEW i \in Intents, ReadStatus(i)
      PROVE  RowInv'
  BY <1>20, RowFrame, TargetType DEF TypeOK, ReadStatus, Prepared
<1>21. ASSUME NEW k \in Keys, DirectWrite(k)
      PROVE  RowInv'
  BY <1>21, RowFrame, TargetType DEF TypeOK, DirectWrite
<1>22. CASE MoveScope
  BY <1>22, RowFrame, TargetType DEF TypeOK, MoveScope
<1>23. CASE ChangeRights
  BY <1>23, RowFrame, TargetType DEF TypeOK, ChangeRights
<1>24. CASE Tick
  BY <1>24, RowFrame, TargetType DEF TypeOK, Tick
<1>25. CASE UNCHANGED vars
  BY <1>25 DEF TypeOK, RowInv, Commands, vars
<1> QED
  BY <1>1, <1>2, <1>3, <1>4, <1>5, <1>6, <1>7, <1>8, <1>9, <1>10, <1>11, <1>12, <1>13,
     <1>14, <1>15, <1>16, <1>17, <1>18, <1>19, <1>20, <1>21, <1>22, <1>23, <1>24,
     <1>25 DEF Next, Serve, World, Advance

\* A refusal leaves every check of the others worth what it was.
LEMMA DenyCheck ==
  ASSUME TypeOK, CheckInv, NEW p \in Requests, NEW c, Deny(p, c)
  PROVE  CheckInv'
<1>1. /\ pc' = [pc EXCEPT ![p] = "caught"] /\ fence' = [fence EXCEPT ![p] = 0]
      /\ UNCHANGED <<rights, execution, target, revoked, receipt, command, revision, closed>>
  BY DEF Deny
<1>2. \A kind \in closed : kind \in Nat /\ 0 < kind
  BY BoundsAssumption DEF TypeOK
<1> QED
  BY <1>1, <1>2 DEF TypeOK, CheckInv, PastIntentLock, PastWorkspaceLock, PastReserve,
                    PastAdmission

\* Going on with what the next statement relies on keeps what checks are worth.
LEMMA GotoCheck ==
  ASSUME TypeOK, CheckInv, NEW p \in Requests, NEW s, Goto(p, s),
         s \in PastWorkspaceLock => rights,
         s \in PastReserve => /\ execution[target[p]] = "pending"
                              /\ ~revoked[target[p]]
                              /\ receipt[command[target[p]].key] = NoIntent,
         s \in PastAdmission => command[target[p]].expects = revision,
         s \in {"window", "commit"} =>
           command[target[p]].fate # "facet_head_conflict"
  PROVE  CheckInv'
<1>1. /\ pc' = [pc EXCEPT ![p] = s]
      /\ UNCHANGED <<rights, execution, target, revoked, receipt, command, revision,
                     closed, fence>>
  BY DEF Goto
<1> QED
  BY <1>1 DEF TypeOK, CheckInv

(* A check made under a lock is still true while the lock is held.             *)
LEMMA CheckStep ==
  TypeOK /\ PcInv /\ LockInv /\ RowInv /\ CheckInv /\ ExactlyOnce /\ [Next]_vars =>
  CheckInv'
<1> SUFFICES ASSUME TypeOK, PcInv, LockInv, RowInv, CheckInv, ExactlyOnce, [Next]_vars
             PROVE  CheckInv'
  OBVIOUS
<1>1. ASSUME NEW i \in Intents, NEW k \in Keys, NEW expects \in 0 .. revision,
              NEW life \in 1 .. TTL, NEW fate \in Fates,
              Prepare(i, k, expects, life, fate)
      PROVE  CheckInv'
  BY <1>1, TargetType, BoundsAssumption DEF TypeOK, CheckInv, PastIntentLock,
     PastWorkspaceLock, PastReserve, PastAdmission, Prepare, PcInv
<1>2. ASSUME NEW p \in Requests, NEW i \in Intents, Receive(p, i)
      PROVE  CheckInv'
  BY <1>2, TargetType, BoundsAssumption DEF TypeOK, CheckInv, PastIntentLock,
     PastWorkspaceLock, PastReserve, PastAdmission, Receive
<1>3. ASSUME NEW p \in Requests, ReserveAttempt(p)
      PROVE  CheckInv'
  BY <1>3, DenyCheck, GotoCheck DEF CheckInv, ReserveAttempt, PastIntentLock,
     PastWorkspaceLock, PastReserve, PastAdmission
<1>4. ASSUME NEW p \in Requests, TakeFence(p)
      PROVE  CheckInv'
  <2>1. CASE fence[p] + 1 \in closed
    BY <1>4, <2>1, DenyCheck DEF TakeFence
  <2>2. CASE fence[p] + 1 \notin closed
    <3>1. /\ pc[p] = "fences" /\ fence' = [fence EXCEPT ![p] = fence[p] + 1]
          /\ UNCHANGED <<rights, execution, target, revoked, receipt, command, revision,
                         closed, pc>>
      BY <1>4, <2>2 DEF TakeFence
    <3>2. \A kind \in closed : fence'[p] < kind
      <4>1. \A kind \in closed : kind \in Nat /\ kind # fence[p] + 1 /\ fence[p] < kind
        BY <2>2, BoundsAssumption DEF TypeOK, CheckInv
      <4>2. fence[p] \in Nat /\ fence'[p] = fence[p] + 1
        BY <3>1, BoundsAssumption DEF TypeOK
      <4> QED
        BY <4>1, <4>2
    <3> QED
      BY <3>1, <3>2 DEF TypeOK, CheckInv
  <2> QED
    BY <2>1, <2>2
<1>5. ASSUME NEW p \in Requests, LockIntent(p)
      PROVE  CheckInv'
  BY <1>5, DenyCheck, GotoCheck DEF CheckInv, LockIntent, PastIntentLock,
     PastWorkspaceLock, PastReserve, PastAdmission
<1>6. ASSUME NEW p \in Requests, LockWorkspace(p)
      PROVE  CheckInv'
  BY <1>6, DenyCheck, GotoCheck DEF CheckInv, LockWorkspace, PastIntentLock,
     PastWorkspaceLock, PastReserve, PastAdmission
<1>7. ASSUME NEW p \in Requests, Reserve(p)
      PROVE  CheckInv'
  <2> DEFINE i == target[p]
  <2>1. i \in Intents
    BY <1>7, TargetType DEF Reserve
  <2>2. ReserveRefusal(i) = "none" => /\ execution[i] = "pending" /\ ~revoked[i]
                                    /\ receipt[command[i].key] = NoIntent
    BY <2>1 DEF ReserveRefusal, ExactlyOnce, Bundle, TypeOK
  <2>3. rights
    BY <1>7 DEF Reserve, CheckInv, PastWorkspaceLock, PastIntentLock
  <2>4. \/ ReserveRefusal(i) = "none" /\ Goto(p, "city")
        \/ Deny(p, ReserveRefusal(i))
    BY <1>7 DEF Reserve
  <2>5. "city" \notin PastAdmission \cup {"window", "commit"}
    BY DEF PastAdmission
  <2> QED
    BY <2>2, <2>3, <2>4, <2>5, DenyCheck, GotoCheck
<1>8. ASSUME NEW p \in Requests, Admit(p)
      PROVE  CheckInv'
  BY <1>8, DenyCheck, GotoCheck DEF CheckInv, Admit, AdmissionRefusal, PastIntentLock,
     PastWorkspaceLock, PastReserve, PastAdmission
<1>9. ASSUME NEW p \in Requests, Execute(p)
      PROVE  CheckInv'
  BY <1>9, DenyCheck, GotoCheck DEF CheckInv, Execute, PastIntentLock,
     PastWorkspaceLock, PastReserve, PastAdmission
<1>10. ASSUME NEW p \in Requests, FinalWindow(p)
      PROVE  CheckInv'
  BY <1>10, DenyCheck, GotoCheck DEF CheckInv, FinalWindow, PastIntentLock,
     PastWorkspaceLock, PastReserve, PastAdmission
<1>11. ASSUME NEW p \in Requests, Commit(p)
      PROVE  CheckInv'
  BY <1>11, TargetType, BoundsAssumption DEF TypeOK, CheckInv, PastIntentLock,
     PastWorkspaceLock, PastReserve, PastAdmission, Commit, LockInv, HoldsWorkspace,
     HoldsIntent
<1>12. ASSUME NEW p \in Requests, LockTimeout(p)
      PROVE  CheckInv'
  BY <1>12, DenyCheck, GotoCheck DEF CheckInv, LockTimeout, PastIntentLock,
     PastWorkspaceLock, PastReserve, PastAdmission
<1>13. ASSUME NEW p \in Requests, RecordRejection(p)
      PROVE  CheckInv'
  BY <1>13, TargetType, BoundsAssumption DEF TypeOK, CheckInv, PastIntentLock,
     PastWorkspaceLock, PastReserve, PastAdmission, RecordRejection, IntentFree,
     HoldsIntent
<1>14. ASSUME NEW p \in Requests, PassRejection(p)
      PROVE  CheckInv'
  BY <1>14, DenyCheck, GotoCheck DEF CheckInv, PassRejection, PastIntentLock,
     PastWorkspaceLock, PastReserve, PastAdmission
<1>15. ASSUME NEW p \in Requests, AppendAudit(p)
      PROVE  CheckInv'
  BY <1>15, TargetType, BoundsAssumption DEF TypeOK, CheckInv, PastIntentLock,
     PastWorkspaceLock, PastReserve, PastAdmission, AppendAudit, AuditResult
<1>16. ASSUME NEW p \in Requests, Fail(p)
      PROVE  CheckInv'
  BY <1>16, DenyCheck, GotoCheck DEF CheckInv, Fail, PastIntentLock,
     PastWorkspaceLock, PastReserve, PastAdmission
<1>17. ASSUME NEW p \in Requests, Crash(p)
      PROVE  CheckInv'
  BY <1>17, TargetType, BoundsAssumption DEF TypeOK, CheckInv, PastIntentLock,
     PastWorkspaceLock, PastReserve, PastAdmission, Crash
<1>18. ASSUME NEW i \in Intents, Revoke(i)
      PROVE  CheckInv'
  BY <1>18, TargetType, BoundsAssumption DEF TypeOK, CheckInv, PastIntentLock,
     PastWorkspaceLock, PastReserve, PastAdmission, Revoke, IntentFree, HoldsIntent
<1>19. ASSUME NEW kind \in 1 .. Fences, CloseAuthority(kind)
      PROVE  CheckInv'
  BY <1>19, TargetType, BoundsAssumption DEF TypeOK, CheckInv, PastIntentLock,
     PastWorkspaceLock, PastReserve, PastAdmission, CloseAuthority
<1>20. ASSUME NEW i \in Intents, ReadStatus(i)
      PROVE  CheckInv'
  BY <1>20, TargetType, BoundsAssumption DEF TypeOK, CheckInv, PastIntentLock,
     PastWorkspaceLock, PastReserve, PastAdmission, ReadStatus, Status
<1>21. ASSUME NEW k \in Keys, DirectWrite(k)
      PROVE  CheckInv'
  <2>1. /\ receipt' = [receipt EXCEPT ![k] = Direct] /\ KeyFree(k)
        /\ revision' = revision \/ WorkspaceFree
        /\ UNCHANGED <<rights, execution, target, revoked, command, closed, fence, pc>>
    BY <1>21 DEF DirectWrite
  <2>2. \A p \in Requests : pc[p] \in PastReserve => command[target[p]].key # k
    BY <2>1 DEF KeyFree, HoldsKey
  <2>3. \A p \in Requests : pc[p] \in PastReserve =>
          receipt'[command[target[p]].key] = NoIntent
    BY <2>1, <2>2 DEF CheckInv, TypeOK
  <2>4. \A p \in Requests : pc[p] \in PastAdmission => revision' = revision
    BY <2>1 DEF WorkspaceFree, HoldsWorkspace, PastAdmission, PastReserve
  <2> QED
    BY <2>1, <2>3, <2>4 DEF CheckInv
<1>22. CASE MoveScope
  BY <1>22, TargetType, BoundsAssumption DEF TypeOK, CheckInv, PastIntentLock,
     PastWorkspaceLock, PastReserve, PastAdmission, MoveScope, CityFree, HoldsCity
<1>23. CASE ChangeRights
  BY <1>23, TargetType, BoundsAssumption DEF TypeOK, CheckInv, PastIntentLock,
     PastWorkspaceLock, PastReserve, PastAdmission, ChangeRights, WorkspaceFree,
     HoldsWorkspace
<1>24. CASE Tick
  BY <1>24, TargetType, BoundsAssumption DEF TypeOK, CheckInv, PastIntentLock,
     PastWorkspaceLock, PastReserve, PastAdmission, Tick
<1>25. CASE UNCHANGED vars
  BY <1>25 DEF TypeOK, CheckInv, PastIntentLock, PastWorkspaceLock, PastReserve,
     PastAdmission, vars
<1> QED
  BY <1>1, <1>2, <1>3, <1>4, <1>5, <1>6, <1>7, <1>8, <1>9, <1>10, <1>11, <1>12, <1>13,
     <1>14, <1>15, <1>16, <1>17, <1>18, <1>19, <1>20, <1>21, <1>22, <1>23, <1>24,
     <1>25 DEF Next, Serve, World, Advance

(* The bundle.                                                                 *)
LEMMA OnceFrame ==
  ASSUME ExactlyOnce,
         UNCHANGED <<effects, receipt, execution, challenge, linked, rejection, command>>,
         \A i \in Intents : outbox'[i]["write_committed"] = outbox[i]["write_committed"],
         \A i \in Intents : Winners(i)' = Winners(i)
  PROVE  ExactlyOnce'
  BY DEF ExactlyOnce, Bundle

\* Who won an intent is read from targets and audit alone.
LEMMA WinnersFrame ==
  ASSUME NEW i, UNCHANGED <<target, audit>>
  PROVE  Winners(i)' = Winners(i)
  BY DEF Winners

(* Every step keeps the bundle whole.                                          *)
LEMMA OnceStep ==
  TypeOK /\ PcInv /\ LockInv /\ RowInv /\ CheckInv /\ ExactlyOnce /\ AnswerInv /\
  [Next]_vars => ExactlyOnce'
<1> SUFFICES ASSUME TypeOK, PcInv, LockInv, RowInv, CheckInv, ExactlyOnce, AnswerInv,
                    [Next]_vars
             PROVE  ExactlyOnce'
  OBVIOUS
<1>1. ASSUME NEW i \in Intents, NEW k \in Keys, NEW expects \in 0 .. revision,
              NEW life \in 1 .. TTL, NEW fate \in Fates,
              Prepare(i, k, expects, life, fate)
      PROVE  ExactlyOnce'
  <2>1. /\ execution[i] = "absent" /\ execution' = [execution EXCEPT ![i] = "pending"]
        /\ \A j \in Intents \ {i} : command'[j] = command[j]
        /\ UNCHANGED <<effects, receipt, challenge, linked, rejection, outbox, target, audit>>
    BY <1>1 DEF Prepare, TypeOK
  <2>2. \A j \in Intents : Winners(j)' = Winners(j)
    BY <2>1 DEF Winners
  <2>3. \A j \in Intents :
          /\ execution'[j] = "committed" <=> execution[j] = "committed"
          /\ execution'[j] = "rejected" <=> execution[j] = "rejected"
          /\ execution'[j] = "committed" => command'[j] = command[j]
    BY <2>1 DEF TypeOK
  <2> QED
    BY <2>1, <2>2, <2>3 DEF ExactlyOnce, Bundle
<1>2. ASSUME NEW p \in Requests, NEW i \in Intents, Receive(p, i)
      PROVE  ExactlyOnce'
  <2>1. \A j \in Intents : Winners(j)' = Winners(j)
    BY <1>2 DEF Receive, Winners, PcInv, TypeOK
  <2> QED
    BY <1>2, <2>1, OnceFrame DEF Receive
<1>3. ASSUME NEW p \in Requests, ReserveAttempt(p)
      PROVE  ExactlyOnce'
  BY <1>3, OnceFrame, WinnersFrame DEF ReserveAttempt, Goto, Deny
<1>4. ASSUME NEW p \in Requests, TakeFence(p)
      PROVE  ExactlyOnce'
  BY <1>4, OnceFrame, WinnersFrame DEF TakeFence, Deny
<1>5. ASSUME NEW p \in Requests, LockIntent(p)
      PROVE  ExactlyOnce'
  BY <1>5, OnceFrame, WinnersFrame DEF LockIntent, Goto
<1>6. ASSUME NEW p \in Requests, LockWorkspace(p)
      PROVE  ExactlyOnce'
  BY <1>6, OnceFrame, WinnersFrame DEF LockWorkspace, Goto, Deny
<1>7. ASSUME NEW p \in Requests, Reserve(p)
      PROVE  ExactlyOnce'
  BY <1>7, OnceFrame, WinnersFrame DEF Reserve, Goto, Deny
<1>8. ASSUME NEW p \in Requests, Admit(p)
      PROVE  ExactlyOnce'
  BY <1>8, OnceFrame, WinnersFrame DEF Admit, Goto, Deny
<1>9. ASSUME NEW p \in Requests, Execute(p)
      PROVE  ExactlyOnce'
  BY <1>9, OnceFrame, WinnersFrame DEF Execute, Goto, Deny
<1>10. ASSUME NEW p \in Requests, FinalWindow(p)
      PROVE  ExactlyOnce'
  BY <1>10, OnceFrame, WinnersFrame DEF FinalWindow, Goto, Deny
<1>11. ASSUME NEW p \in Requests, Commit(p)
      PROVE  ExactlyOnce'
  <2> DEFINE i == target[p]
             k == command[i].key
  <2>1. /\ i \in Intents /\ k \in Keys /\ receipt[k] = NoIntent /\ execution[i] = "pending"
        /\ reserved[k] = i
    BY <1>11, TargetType DEF Commit, RowInv, Commands, CheckInv, PastReserve,
       PastWorkspaceLock,
                         PastIntentLock
  <2>2. /\ execution' = [execution EXCEPT ![i] = "committed"]
        /\ challenge' = [challenge EXCEPT ![i] = "consumed"]
        /\ linked' = [linked EXCEPT ![i] = TRUE]
        /\ receipt' = [receipt EXCEPT ![k] = i]
        /\ effects' = [effects EXCEPT ![k] = effects[k] + 1]
        /\ outbox' = [outbox EXCEPT ![i]["write_committed"] = outbox[i]["write_committed"] + 1]
        /\ audit' = [audit EXCEPT ![p] = audit[p] \cup {"committed"}]
        /\ UNCHANGED <<command, rejection, target>>
    BY <1>11 DEF Commit
  <2>3. \A h \in Keys : effects'[h] = IF receipt'[h] = NoIntent THEN 0 ELSE 1
    BY <2>1, <2>2, NamesAssumption DEF ExactlyOnce, TypeOK
  <2>4. \A j \in Intents : outbox'[j]["write_committed"] =
          IF j = i THEN outbox[j]["write_committed"] + 1 ELSE outbox[j]["write_committed"]
    BY <2>1, <2>2 DEF TypeOK, OutboxKinds
  <2>5. Winners(i) = {} /\ p \in Requests
    BY <2>1 DEF ExactlyOnce, Bundle
  <2>6. \A j \in Intents : j = i => Winners(j)' = {p}
    BY <2>2, <2>5 DEF Winners, TypeOK
  <2>7. \A j \in Intents \ {i} : Winners(j)' = Winners(j)
    BY <2>2 DEF Winners, TypeOK
  <2>8. \A j \in Intents : execution[j] = "committed" =>
          command[j].key \in Keys /\ command[j].key # k
    BY <2>1, NamesAssumption DEF RowInv, Commands
  <2> HIDE DEF i, k
  <2>9. /\ execution'[i] = "committed" /\ challenge'[i] = "consumed" /\ linked'[i]
        /\ receipt'[k] = i /\ \A h \in Keys \ {k} : receipt'[h] = receipt[h]
    BY <2>1, <2>2 DEF TypeOK
  <2>10. outbox'[i]["write_committed"] = 1
    BY <2>1, <2>4 DEF ExactlyOnce, Bundle
  <2>11. rejection'[i] = "none"
    BY <2>1, <2>2 DEF ExactlyOnce, Bundle
  <2>12. \A j \in Intents \ {i} :
          /\ execution'[j] = execution[j] /\ challenge'[j] = challenge[j]
          /\ linked'[j] = linked[j] /\ rejection'[j] = rejection[j] /\ command'[j] = command[j]
          /\ outbox'[j]["write_committed"] = outbox[j]["write_committed"]
          /\ Winners(j)' = Winners(j)
          /\ \A h \in Keys : receipt'[h] = j <=> receipt[h] = j /\ h # k
    BY <2>1, <2>2, <2>4, <2>7, <2>9 DEF TypeOK
  <2>13. command'[i].key = k /\ \A h \in Keys : receipt[h] # i
    BY <2>1, <2>2 DEF ExactlyOnce, Bundle, i, k
  <2>14. \A j \in Intents \ {i} : Bundle(j)'
    BY <2>1, <2>8, <2>12 DEF ExactlyOnce, Bundle
  <2>15. \A j \in Intents : j = i => Bundle(j)'
    BY <2>1, <2>6, <2>9, <2>10, <2>11, <2>13 DEF Bundle
  <2> QED
    BY <2>3, <2>14, <2>15 DEF ExactlyOnce
<1>12. ASSUME NEW p \in Requests, LockTimeout(p)
      PROVE  ExactlyOnce'
  BY <1>12, OnceFrame, WinnersFrame DEF LockTimeout, Deny
<1>13. ASSUME NEW p \in Requests, RecordRejection(p)
      PROVE  ExactlyOnce'
  <2> DEFINE i == target[p]
  <2>1. i \in Intents /\ execution[i] = "pending" /\ code[p] \in Terminal
    BY <1>13, TargetType DEF RecordRejection, Rejectable
  <2>2. /\ execution' = [execution EXCEPT ![i] = "rejected"]
        /\ rejection' = [rejection EXCEPT ![i] = code[p]]
        /\ outbox' = [outbox EXCEPT ![i]["write_rejected"] = outbox[i]["write_rejected"] + 1]
        /\ audit' = [audit EXCEPT ![p] = audit[p] \cup {"denied"}]
        /\ UNCHANGED <<effects, receipt, challenge, linked, command, target>>
    BY <1>13 DEF RecordRejection
  <2>3. \A j \in Intents : outbox'[j]["write_committed"] = outbox[j]["write_committed"]
    BY <2>1, <2>2 DEF TypeOK, OutboxKinds
  <2>4. \A q \in Requests : "committed" \in audit'[q] <=> "committed" \in audit[q]
    BY <2>2 DEF TypeOK
  <2>5. \A j \in Intents : Winners(j)' = Winners(j)
    BY <2>2, <2>4 DEF Winners
  <2>6. \A j \in Intents :
          /\ execution'[j] = "committed" <=> execution[j] = "committed"
          /\ (rejection'[j] # "none") <=> (execution'[j] = "rejected")
    <3>1. execution'[i] = "rejected" /\ rejection'[i] = code[p] /\ code[p] # "none"
      BY <2>1, <2>2 DEF TypeOK, Terminal
    <3>2. \A j \in Intents \ {i} :
            execution'[j] = execution[j] /\ rejection'[j] = rejection[j]
      BY <2>1, <2>2 DEF TypeOK
    <3>3. \A j \in Intents : (rejection[j] # "none") <=> (execution[j] = "rejected")
      BY DEF ExactlyOnce, Bundle
    <3> QED
      BY <2>1, <3>1, <3>2, <3>3
  <2> HIDE DEF i
  <2>7. \A h \in Keys : effects'[h] = IF receipt'[h] = NoIntent THEN 0 ELSE 1
    BY <2>2 DEF ExactlyOnce
  <2>8. \A j \in Intents : Bundle(j)'
    BY <2>2, <2>3, <2>5, <2>6 DEF ExactlyOnce, Bundle
  <2> QED
    BY <2>7, <2>8 DEF ExactlyOnce
<1>14. ASSUME NEW p \in Requests, PassRejection(p)
      PROVE  ExactlyOnce'
  BY <1>14, OnceFrame, WinnersFrame DEF PassRejection, Goto
<1>15. ASSUME NEW p \in Requests, AppendAudit(p)
      PROVE  ExactlyOnce'
  <2>1. \A q \in Requests : "committed" \in audit'[q] <=> "committed" \in audit[q]
    BY <1>15 DEF AppendAudit, AuditResult, TypeOK
  <2>2. \A j \in Intents : Winners(j)' = Winners(j)
    BY <1>15, <2>1 DEF AppendAudit, Winners
  <2> QED
    BY <1>15, <2>2, OnceFrame DEF AppendAudit
<1>16. ASSUME NEW p \in Requests, Fail(p)
      PROVE  ExactlyOnce'
  BY <1>16, OnceFrame, WinnersFrame DEF Fail, Deny
<1>17. ASSUME NEW p \in Requests, Crash(p)
      PROVE  ExactlyOnce'
  BY <1>17, OnceFrame, WinnersFrame DEF Crash
<1>18. ASSUME NEW i \in Intents, Revoke(i)
      PROVE  ExactlyOnce'
  <2>1. \A j \in Intents : outbox'[j]["write_committed"] = outbox[j]["write_committed"]
    BY <1>18 DEF Revoke, TypeOK, OutboxKinds
  <2> QED
    BY <1>18, <2>1, OnceFrame, WinnersFrame DEF Revoke
<1>19. ASSUME NEW kind \in 1 .. Fences, CloseAuthority(kind)
      PROVE  ExactlyOnce'
  BY <1>19, OnceFrame, WinnersFrame DEF CloseAuthority
<1>20. ASSUME NEW i \in Intents, ReadStatus(i)
      PROVE  ExactlyOnce'
  BY <1>20, OnceFrame, WinnersFrame DEF ReadStatus, Status
<1>21. ASSUME NEW k \in Keys, DirectWrite(k)
      PROVE  ExactlyOnce'
  <2>1. /\ receipt[k] = NoIntent /\ receipt' = [receipt EXCEPT ![k] = Direct]
        /\ effects' = [effects EXCEPT ![k] = effects[k] + 1]
        /\ UNCHANGED <<execution, challenge, linked, rejection, outbox, command, target, audit>>
    BY <1>21 DEF DirectWrite
  <2>2. \A h \in Keys : effects'[h] = IF receipt'[h] = NoIntent THEN 0 ELSE 1
    BY <2>1, NamesAssumption DEF ExactlyOnce, TypeOK
  <2>3. \A j \in Intents, h \in Keys : receipt'[h] = j <=> receipt[h] = j
    BY <2>1, NamesAssumption DEF TypeOK
  <2>4. \A j \in Intents : execution[j] = "committed" => command[j].key \in Keys
    BY DEF RowInv, Commands
  <2>5. \A j \in Intents : Winners(j)' = Winners(j)
    BY <2>1 DEF Winners
  <2>6. \A j \in Intents : Bundle(j)'
    BY <2>1, <2>3, <2>4, <2>5 DEF ExactlyOnce, Bundle
  <2> QED
    BY <2>2, <2>6 DEF ExactlyOnce
<1>22. CASE MoveScope
  BY <1>22, OnceFrame, WinnersFrame DEF MoveScope
<1>23. CASE ChangeRights
  BY <1>23, OnceFrame, WinnersFrame DEF ChangeRights
<1>24. CASE Tick
  BY <1>24, OnceFrame, WinnersFrame DEF Tick
<1>25. CASE UNCHANGED vars
  BY <1>25, OnceFrame, WinnersFrame DEF vars
<1> QED
  BY <1>1, <1>2, <1>3, <1>4, <1>5, <1>6, <1>7, <1>8, <1>9, <1>10, <1>11, <1>12, <1>13,
     <1>14, <1>15, <1>16, <1>17, <1>18, <1>19, <1>20, <1>21, <1>22, <1>23, <1>24,
     <1>25 DEF Next, Serve, World, Advance

------------------------------------------------------------------------------
(* Why what a client was told stays true, and the theorems.                   *)


(* Whatever an answer rests on is still there after the step.                 *)
Stays == \A i \in Intents, c \in Codes :
           execution[i] # "absent" /\ Holds(c, i) => Holds(c, i)'

(* A step that commits nobody, takes nothing back, and lets no expired intent *)
(* reach its COMMIT.                                                          *)
LEMMA HoldsFrame ==
  ASSUME TypeOK, RowInv, NEW i \in Intents, execution[i] # "absent",
         NEW c, Holds(c, i),
         command'[i] = command[i], revision' \in Nat, revision <= revision',
         now' \in Nat, now <= now', revoked[i] => revoked'[i],
         execution'[i] = "committed" <=> execution[i] = "committed",
         \A k \in Keys : receipt[k] # NoIntent => receipt'[k] # NoIntent,
         \A q \in Requests : target'[q] = i /\ pc'[q] = "commit" =>
           (target[q] = i /\ pc[q] = "commit") \/ ~Expired(i)
  PROVE  Holds(c, i)'
<1>1. /\ command[i].key \in Keys /\ command[i].expects \in Nat
      /\ command[i].expires \in Nat
  BY DEF RowInv, Commands
<1>2. ExpiredForGood(i) => ExpiredForGood(i)'
  BY <1>1 DEF ExpiredForGood, Expired, TypeOK
<1> QED
  BY <1>1, <1>2 DEF Holds, TypeOK


(* The same for every intent at once.                                         *)
LEMMA StaysFrame ==
  ASSUME TypeOK, RowInv,
         \A i \in Intents : execution[i] # "absent" =>
           /\ command'[i] = command[i]
           /\ revoked[i] => revoked'[i]
           /\ execution'[i] = "committed" <=> execution[i] = "committed",
         revision' \in Nat, revision <= revision', now' \in Nat, now <= now',
         \A k \in Keys : receipt[k] # NoIntent => receipt'[k] # NoIntent,
         \A q \in Requests : pc'[q] = "commit" =>
           target'[q] = target[q] /\ (pc[q] = "commit" \/ ~Expired(target[q]))
  PROVE  Stays
<1> SUFFICES ASSUME NEW i \in Intents, NEW c \in Codes, execution[i] # "absent", Holds(c, i)
             PROVE  Holds(c, i)'
  BY DEF Stays
<1>1. \A q \in Requests : target'[q] = i /\ pc'[q] = "commit" =>
        (target[q] = i /\ pc[q] = "commit") \/ ~Expired(i)
  OBVIOUS
<1> QED
  BY <1>1, HoldsFrame

\* A request that goes on takes no fact of an answer away.
LEMMA GotoStays ==
  ASSUME TypeOK, RowInv, NEW p \in Requests, NEW s \in Pcs, Goto(p, s),
         s # "commit" \/ ~Expired(target[p])
  PROVE  Stays
<1>1. \A q \in Requests : pc'[q] = "commit" =>
        target'[q] = target[q] /\ (pc[q] = "commit" \/ ~Expired(target[q]))
  BY DEF Goto, TypeOK
<1> QED
  BY <1>1, StaysFrame DEF Goto, TypeOK

\* Nor does one that is refused.
LEMMA DenyStays ==
  ASSUME TypeOK, RowInv, NEW p \in Requests, NEW c, Deny(p, c)
  PROVE  Stays
<1>1. \A q \in Requests : pc'[q] = "commit" =>
        target'[q] = target[q] /\ (pc[q] = "commit" \/ ~Expired(target[q]))
  BY DEF Deny, TypeOK
<1> QED
  BY <1>1, StaysFrame DEF Deny, TypeOK

(* Every step keeps what every answer rests on.                                *)
LEMMA StaysStep ==
  TypeOK /\ PcInv /\ RowInv /\ CheckInv /\ ExactlyOnce /\ [Next]_vars => Stays
<1> SUFFICES ASSUME TypeOK, PcInv, RowInv, CheckInv, ExactlyOnce, [Next]_vars
             PROVE  Stays
  OBVIOUS
<1>1. ASSUME NEW i \in Intents, NEW k \in Keys, NEW expects \in 0 .. revision,
              NEW life \in 1 .. TTL, NEW fate \in Fates,
              Prepare(i, k, expects, life, fate)
      PROVE  Stays
  BY <1>1, StaysFrame DEF TypeOK, Prepare
<1>2. ASSUME NEW p \in Requests, NEW i \in Intents, Receive(p, i)
      PROVE  Stays
  <2>1. \A q \in Requests : pc'[q] = "commit" => pc[q] = "commit" /\ target'[q] = target[q]
    BY <1>2 DEF Receive, TypeOK
  <2> QED
    BY <1>2, <2>1, StaysFrame DEF Receive, TypeOK
<1>3. ASSUME NEW p \in Requests, ReserveAttempt(p)
      PROVE  Stays
  BY <1>3, GotoStays, DenyStays DEF ReserveAttempt, Pcs
<1>4. ASSUME NEW p \in Requests, TakeFence(p)
      PROVE  Stays
  <2>1. CASE Deny(p, "write_authority_unavailable")
    BY <2>1, DenyStays
  <2>2. CASE UNCHANGED <<world, rows, base, pc, target>>
    BY <2>2, StaysFrame DEF TypeOK
  <2> QED
    BY <1>4, <2>1, <2>2 DEF TakeFence
<1>5. ASSUME NEW p \in Requests, LockIntent(p)
      PROVE  Stays
  BY <1>5, GotoStays, DenyStays DEF LockIntent, Pcs
<1>6. ASSUME NEW p \in Requests, LockWorkspace(p)
      PROVE  Stays
  BY <1>6, GotoStays, DenyStays DEF LockWorkspace, Pcs
<1>7. ASSUME NEW p \in Requests, Reserve(p)
      PROVE  Stays
  BY <1>7, GotoStays, DenyStays DEF Reserve, Pcs
<1>8. ASSUME NEW p \in Requests, Admit(p)
      PROVE  Stays
  BY <1>8, GotoStays, DenyStays DEF Admit, Pcs
<1>9. ASSUME NEW p \in Requests, Execute(p)
      PROVE  Stays
  BY <1>9, GotoStays, DenyStays DEF Execute, Pcs
<1>10. ASSUME NEW p \in Requests, FinalWindow(p)
      PROVE  Stays
  BY <1>10, GotoStays, DenyStays DEF FinalWindow, Pcs
<1>11. ASSUME NEW p \in Requests, Commit(p)
      PROVE  Stays
  <2> SUFFICES ASSUME NEW i \in Intents, NEW c \in Codes, execution[i] # "absent", Holds(c, i)
               PROVE  Holds(c, i)'
    BY DEF Stays
  <2>0. /\ target[p] \in Intents
        /\ execution' = [execution EXCEPT ![target[p]] = "committed"]
        /\ receipt' = [receipt EXCEPT ![command[target[p]].key] = target[p]]
        /\ revision' \in {revision, revision + 1}
        /\ \A q \in Requests : pc'[q] = "commit" => pc[q] = "commit"
        /\ pc[p] = "commit"
        /\ UNCHANGED <<now, command, revoked, target>>
    BY <1>11, TargetType DEF Commit, TypeOK
  <2>1. CASE target[p] = i
    <3>1. /\ execution[i] = "pending" /\ ~revoked[i]
          /\ receipt[command[i].key] = NoIntent /\ command[i].expects = revision
          /\ command[i].fate # "facet_head_conflict"
      BY <2>0, <2>1 DEF CheckInv, PastAdmission, PastReserve, PastWorkspaceLock,
         PastIntentLock
    <3>2. c \in {"challenge_consumed"} \cup (Codes \ {"projection_revision_conflict",
            "facet_head_conflict", "write_intent_revoked", "challenge_expired",
            "command_context_unresolved"})
      BY <2>0, <2>1, <3>1 DEF Holds, ExpiredForGood, TypeOK
    <3>3. execution'[i] = "committed"
      BY <2>0, <2>1 DEF TypeOK
    <3> QED
      BY <3>2, <3>3 DEF Holds
  <2>2. CASE target[p] # i
    <3>1. \A k \in Keys : receipt[k] # NoIntent => receipt'[k] # NoIntent
      BY <2>0, NamesAssumption DEF TypeOK
    <3>2. execution'[i] = execution[i] /\ revision' \in Nat /\ revision <= revision'
      BY <2>0, <2>2 DEF TypeOK
    <3>3. \A q \in Requests : target'[q] = i /\ pc'[q] = "commit" =>
            (target[q] = i /\ pc[q] = "commit") \/ ~Expired(i)
      BY <2>0
    <3> QED
      BY <2>0, <3>1, <3>2, <3>3, HoldsFrame DEF TypeOK
  <2> QED
    BY <2>1, <2>2
<1>12. ASSUME NEW p \in Requests, LockTimeout(p)
      PROVE  Stays
  BY <1>12, GotoStays, DenyStays DEF LockTimeout, Pcs
<1>13. ASSUME NEW p \in Requests, RecordRejection(p)
      PROVE  Stays
  <2>1. \A q \in Requests : pc'[q] = "commit" => pc[q] = "commit" /\ target'[q] = target[q]
    BY <1>13 DEF RecordRejection, TypeOK
  <2>2. \A i \in Intents : execution'[i] = "committed" <=> execution[i] = "committed"
    BY <1>13, TargetType DEF RecordRejection, Rejectable, TypeOK
  <2> QED
    BY <1>13, <2>1, <2>2, StaysFrame DEF RecordRejection, TypeOK
<1>14. ASSUME NEW p \in Requests, PassRejection(p)
      PROVE  Stays
  BY <1>14, GotoStays, DenyStays DEF PassRejection, Pcs
<1>15. ASSUME NEW p \in Requests, AppendAudit(p)
      PROVE  Stays
  <2>1. \A q \in Requests : pc'[q] = "commit" => pc[q] = "commit" /\ target'[q] = target[q]
    BY <1>15 DEF AppendAudit, TypeOK
  <2> QED
    BY <1>15, <2>1, StaysFrame DEF AppendAudit, TypeOK
<1>16. ASSUME NEW p \in Requests, Fail(p)
      PROVE  Stays
  BY <1>16, GotoStays, DenyStays DEF Fail, Pcs
<1>17. ASSUME NEW p \in Requests, Crash(p)
      PROVE  Stays
  <2>1. \A q \in Requests : pc'[q] = "commit" => pc[q] = "commit" /\ target'[q] = target[q]
    BY <1>17 DEF Crash, TypeOK
  <2> QED
    BY <1>17, <2>1, StaysFrame DEF Crash, TypeOK
<1>18. ASSUME NEW i \in Intents, Revoke(i)
      PROVE  Stays
  BY <1>18, StaysFrame DEF TypeOK, Revoke
<1>19. ASSUME NEW kind \in 1 .. Fences, CloseAuthority(kind)
      PROVE  Stays
  BY <1>19, StaysFrame DEF TypeOK, CloseAuthority
<1>20. ASSUME NEW i \in Intents, ReadStatus(i)
      PROVE  Stays
  BY <1>20, StaysFrame DEF TypeOK, ReadStatus, Status
<1>21. ASSUME NEW k \in Keys, DirectWrite(k)
      PROVE  Stays
  <2>1. \A h \in Keys : receipt[h] # NoIntent => receipt'[h] # NoIntent
    BY <1>21 DEF DirectWrite, TypeOK
  <2>2. revision' \in {revision, revision + 1}
    BY <1>21 DEF DirectWrite
  <2>3. UNCHANGED <<now, rows, pc, target>>
    BY <1>21 DEF DirectWrite
  <2> QED
    BY <2>1, <2>2, <2>3, StaysFrame DEF TypeOK
<1>22. CASE MoveScope
  BY <1>22, StaysFrame DEF TypeOK, MoveScope
<1>23. CASE ChangeRights
  <2>1. revision' \in {revision, revision + 1} /\ UNCHANGED <<now, rows, base, pc, target>>
    BY <1>23 DEF ChangeRights
  <2> QED
    BY <2>1, StaysFrame DEF TypeOK
<1>24. CASE Tick
  BY <1>24, StaysFrame DEF TypeOK, Tick
<1>25. CASE UNCHANGED vars
  BY <1>25, StaysFrame DEF TypeOK, vars
<1> QED
  BY <1>1, <1>2, <1>3, <1>4, <1>5, <1>6, <1>7, <1>8, <1>9, <1>10, <1>11, <1>12, <1>13,
     <1>14, <1>15, <1>16, <1>17, <1>18, <1>19, <1>20, <1>21, <1>22, <1>23, <1>24,
     <1>25 DEF Next, Serve, World, Advance

(* Requests and intents the step does not touch keep their answers.           *)
LEMMA RequestFrame ==
  ASSUME TypeOK, PcInv, AnswerInv, Stays, NEW q \in Requests,
         UNCHANGED <<pc[q], target[q], code[q], audit[q], answer[q]>>
  PROVE  RequestAnswer(q)'
<1>1. pc[q] = "idle" => code[q] = "none" /\ answer[q] = "none"
  BY DEF AnswerInv, RequestAnswer, PcInv
<1>2. pc[q] # "idle" => target[q] \in Intents /\ execution[target[q]] # "absent"
  BY TargetType
<1>3. code[q] \in Codes \cup {"none"} /\ "challenge_consumed" \in Codes
  BY DEF TypeOK, Codes, Refusals
<1>4. code[q] # "none" => Holds(code[q], target[q])'
  BY <1>1, <1>2, <1>3 DEF Stays, AnswerInv, RequestAnswer
<1>5. answer[q] = "committed" => Holds("challenge_consumed", target[q])'
  BY <1>1, <1>2, <1>3 DEF Stays, AnswerInv, RequestAnswer
<1> QED
  BY <1>4, <1>5 DEF AnswerInv, RequestAnswer, Refused

\* The answers about an intent hold while its verdict stands.
LEMMA IntentFrame ==
  ASSUME RowInv, AnswerInv, Stays, NEW i \in Intents,
         UNCHANGED <<told[i], seen[i]>>,
         execution[i] = "rejected" => execution'[i] = "rejected",
         revoked[i] => revoked'[i]
  PROVE  IntentAnswer(i)'
<1>1. CASE execution[i] = "absent"
  BY <1>1 DEF RowInv, IntentAnswer
<1>2. CASE execution[i] # "absent"
  <2>1. {"challenge_consumed", "write_intent_revoked", "challenge_expired"} \subseteq Codes
    BY DEF Codes, Refusals
  <2> QED
    BY <1>2, <2>1 DEF AnswerInv, IntentAnswer, Stays
<1> QED
  BY <1>1, <1>2

(* A step on one request, which answers no one about an intent.               *)
LEMMA AnswerFrame ==
  ASSUME TypeOK, PcInv, RowInv, AnswerInv, Stays, NEW p \in Requests, RequestAnswer(p)',
         \A q \in Requests \ {p} :
           UNCHANGED <<pc[q], target[q], code[q], audit[q], answer[q]>>,
         UNCHANGED <<told, seen>>,
         \A i \in Intents : /\ execution[i] = "rejected" => execution'[i] = "rejected"
                            /\ revoked[i] => revoked'[i]
  PROVE  AnswerInv'
<1>1. \A q \in Requests : RequestAnswer(q)'
  BY RequestFrame
<1>2. \A i \in Intents : IntentAnswer(i)'
  BY IntentFrame
<1> QED
  BY <1>1, <1>2 DEF AnswerInv

(* A step of no request.                                                      *)
LEMMA WorldFrame ==
  ASSUME TypeOK, PcInv, RowInv, AnswerInv, Stays,
         UNCHANGED request, UNCHANGED <<told, seen>>,
         \A i \in Intents : /\ execution[i] = "rejected" => execution'[i] = "rejected"
                            /\ revoked[i] => revoked'[i]
  PROVE  AnswerInv'
<1>1. \A q \in Requests : RequestAnswer(q)'
  BY RequestFrame
<1>2. \A i \in Intents : IntentAnswer(i)'
  BY IntentFrame
<1> QED
  BY <1>1, <1>2 DEF AnswerInv

\* A request that goes on gives no answer.
LEMMA GotoAnswer ==
  ASSUME TypeOK, PcInv, RowInv, AnswerInv, Stays, NEW p \in Requests, NEW s \in Pcs,
         Goto(p, s), pc[p] \in InBase \cup {"attempt", "caught"},
         s \in InBase \/ (pc[p] = "caught" /\ s = "audit"),
         s \in InBase => pc[p] # "caught"
  PROVE  AnswerInv'
<1>1. /\ pc' = [pc EXCEPT ![p] = s] /\ pc'[p] = s
      /\ UNCHANGED <<rows, target, code, audit, answer, told, seen>>
  BY DEF Goto, TypeOK
<1>2. /\ s # "idle" /\ pc[p] # "idle" /\ pc[p] # "done"
      /\ target[p] \in Intents /\ execution[target[p]] # "absent"
  BY TargetType DEF InBase, PastIntentLock
<1>3. code[p] # "none" => Holds(code[p], target[p])'
  BY <1>1, <1>2 DEF Stays, TypeOK, AnswerInv, RequestAnswer
<1>4. RequestAnswer(p)'
  BY <1>1, <1>2, <1>3 DEF AnswerInv, RequestAnswer, Refused, InBase, PastIntentLock
<1>5. \A q \in Requests \ {p} : pc'[q] = pc[q]
  BY <1>1 DEF TypeOK
<1> QED
  BY <1>1, <1>4, <1>5, AnswerFrame

\* So it is between the statements of the BASE transaction.
LEMMA NextStatement ==
  ASSUME TypeOK, PcInv, RowInv, AnswerInv, Stays, NEW p \in Requests,
         NEW s \in InBase, Goto(p, s), pc[p] \in InBase \cup {"attempt"}
  PROVE  AnswerInv'
<1>1. /\ s \in Pcs /\ pc[p] \in InBase \cup {"attempt", "caught"}
      /\ s \in InBase \/ (pc[p] = "caught" /\ s = "audit")
      /\ s \in InBase => pc[p] # "caught"
  BY DEF InBase, PastIntentLock, Pcs
<1> QED
  BY <1>1, GotoAnswer

(* A refusal is true when it is caught.                                       *)
LEMMA DenyAnswer ==
  ASSUME TypeOK, PcInv, RowInv, AnswerInv, Stays, NEW p \in Requests, NEW c \in Codes,
         Deny(p, c), pc[p] \in InBase \cup {"attempt"}, Holds(c, target[p])
  PROVE  AnswerInv'
<1>1. /\ pc'[p] = "caught" /\ code'[p] = c /\ audit'[p] = {} /\ answer'[p] = "none"
      /\ \A q \in Requests \ {p} : pc'[q] = pc[q] /\ code'[q] = code[q]
      /\ UNCHANGED <<rows, target, audit, answer, told, seen>>
  BY DEF Deny, TypeOK, PcInv, AnswerInv, RequestAnswer, InBase, PastIntentLock
<1>2. target[p] \in Intents /\ execution[target[p]] # "absent"
  BY TargetType DEF InBase, PastIntentLock
<1>3. Holds(c, target[p])'
  BY <1>1, <1>2 DEF Stays
<1>4. Holds(code[p], target[p])'
  BY <1>1, <1>3
<1>5. RequestAnswer(p)'
  BY <1>1, <1>4 DEF RequestAnswer, Refused, InBase, PastIntentLock
<1> QED
  BY <1>1, <1>5, AnswerFrame

(* Every answer given is true, and every answer stays true.                   *)
LEMMA AnswerStep ==
  TypeOK /\ PcInv /\ LockInv /\ RowInv /\ CheckInv /\ ExactlyOnce /\ AnswerInv /\
  Stays /\ [Next]_vars => AnswerInv'
<1> SUFFICES ASSUME TypeOK, PcInv, LockInv, RowInv, CheckInv, ExactlyOnce, AnswerInv,
                    Stays, [Next]_vars
             PROVE  AnswerInv'
  OBVIOUS
<1>1. ASSUME NEW i \in Intents, NEW k \in Keys, NEW expects \in 0 .. revision,
              NEW life \in 1 .. TTL, NEW fate \in Fates,
              Prepare(i, k, expects, life, fate)
      PROVE  AnswerInv'
  <2>1. /\ execution[i] = "absent" /\ execution' = [execution EXCEPT ![i] = "pending"]
        /\ UNCHANGED <<revoked, request, told, seen>>
    BY <1>1 DEF Prepare
  <2> QED
    BY <2>1, WorldFrame DEF TypeOK
<1>2. ASSUME NEW p \in Requests, NEW i \in Intents, Receive(p, i)
      PROVE  AnswerInv'
  <2>1. /\ pc[p] = "idle" /\ pc' = [pc EXCEPT ![p] = "attempt"]
        /\ target' = [target EXCEPT ![p] = i]
        /\ UNCHANGED <<rows, code, audit, answer, told, seen>>
    BY <1>2 DEF Receive
  <2>2. code[p] = "none" /\ answer[p] = "none" /\ audit[p] = {}
    BY <2>1 DEF AnswerInv, RequestAnswer, PcInv
  <2>3. RequestAnswer(p)'
    BY <2>1, <2>2 DEF RequestAnswer, Refused, TypeOK
  <2> QED
    BY <2>1, <2>3, AnswerFrame DEF TypeOK
<1>3. ASSUME NEW p \in Requests, ReserveAttempt(p)
      PROVE  AnswerInv'
  <2>1. pc[p] \in InBase \cup {"attempt"} /\ "fences" \in InBase
    BY <1>3 DEF ReserveAttempt, InBase, PastIntentLock
  <2>2. "write_rate_limited" \in Codes /\ Holds("write_rate_limited", target[p])
    BY DEF Holds, Codes, Refusals, Terminal
  <2>3. Goto(p, "fences") \/ Deny(p, "write_rate_limited")
    BY <1>3 DEF ReserveAttempt
  <2> QED
    BY <2>1, <2>2, <2>3, NextStatement, DenyAnswer
<1>4. ASSUME NEW p \in Requests, TakeFence(p)
      PROVE  AnswerInv'
  <2>1. CASE Deny(p, "write_authority_unavailable")
    <3>1. pc[p] \in InBase /\ "write_authority_unavailable" \in Codes
      BY <1>4 DEF TakeFence, InBase, Codes, Refusals
    <3> QED
      BY <2>1, <3>1, DenyAnswer DEF Holds
  <2>2. CASE UNCHANGED <<world, rows, base, outbox, pc, target, code, audit, answer,
                         told, seen>>
    <3>1. \A q \in Requests : RequestAnswer(q)'
      BY <2>2, RequestFrame
    <3>2. \A i \in Intents : IntentAnswer(i)'
      BY <2>2, IntentFrame
    <3> QED
      BY <3>1, <3>2 DEF AnswerInv
  <2> QED
    BY <1>4, <2>1, <2>2 DEF TakeFence
<1>5. ASSUME NEW p \in Requests, LockIntent(p)
      PROVE  AnswerInv'
  <2>1. pc[p] \in InBase \cup {"attempt"} /\ "workspace" \in InBase
    BY <1>5 DEF LockIntent, InBase, PastIntentLock
  <2>2. "unknown" \in Codes /\ Holds("unknown", target[p])
    BY DEF Holds, Codes, Refusals, Terminal
  <2>3. Goto(p, "workspace") \/ Deny(p, "unknown")
    BY <1>5 DEF LockIntent
  <2> QED
    BY <2>1, <2>2, <2>3, NextStatement, DenyAnswer
<1>6. ASSUME NEW p \in Requests, LockWorkspace(p)
      PROVE  AnswerInv'
  <2>1. pc[p] \in InBase \cup {"attempt"} /\ "reserve" \in InBase
    BY <1>6 DEF LockWorkspace, InBase, PastIntentLock
  <2>2. "workspace_not_authorized" \in Codes /\ Holds("workspace_not_authorized", target[p])
    BY DEF Holds, Codes, Refusals, Terminal
  <2>3. Goto(p, "reserve") \/ Deny(p, "workspace_not_authorized")
    BY <1>6 DEF LockWorkspace
  <2> QED
    BY <2>1, <2>2, <2>3, NextStatement, DenyAnswer
<1>7. ASSUME NEW p \in Requests, Reserve(p)
      PROVE  AnswerInv'
  <2> DEFINE i == target[p]
             refusal == ReserveRefusal(i)
  <2>1. pc[p] = "reserve" /\ i \in Intents /\ execution[i] # "absent"
    BY <1>7, TargetType DEF Reserve
  <2>2. /\ challenge[i] = "consumed" <=> execution[i] = "committed"
        /\ reserved[command[i].key] = i
        /\ execution[i] = "rejected" => rejection[i] \in Terminal /\ Holds(rejection[i], i)
    BY <2>1 DEF ExactlyOnce, Bundle, RowInv, TypeOK, Holds, Terminal
  <2>3. refusal # "none" => refusal \in Codes /\ Holds(refusal, i)
    BY <2>1, <2>2 DEF ReserveRefusal, Holds, TypeOK, Codes, Refusals, Terminal
  <2>4. IF refusal = "none" THEN Goto(p, "city") ELSE Deny(p, refusal)
    BY <1>7 DEF Reserve
  <2> HIDE DEF refusal
  <2> QED
    BY <2>1, <2>3, <2>4, NextStatement, DenyAnswer DEF InBase, PastIntentLock
<1>8. ASSUME NEW p \in Requests, Admit(p)
      PROVE  AnswerInv'
  <2> DEFINE i == target[p]
             refusal == AdmissionRefusal(i)
  <2>1. pc[p] = "city" /\ i \in Intents /\ execution[i] = "pending"
    BY <1>8, TargetType DEF Admit, CheckInv, PastReserve, PastWorkspaceLock,
       PastIntentLock
  <2>2. \A q \in Requests : target[q] = i => pc[q] # "commit"
    BY <2>1 DEF LockInv, HoldsIntent, PastIntentLock
  <2>3. /\ command[i].expects \in Nat /\ command[i].expects <= revision
        /\ revision \in Nat
    BY <2>1 DEF RowInv, Commands, TypeOK
  <2>4. refusal # "none" => refusal \in Codes /\ Holds(refusal, i)
    BY <2>1, <2>2, <2>3 DEF AdmissionRefusal, Holds, ExpiredForGood, Codes, Refusals,
       Terminal
  <2>5. \/ Goto(p, "execute")
        \/ refusal # "none" /\ Deny(p, refusal)
        \/ Deny(p, "write_rate_limited")
    BY <1>8 DEF Admit
  <2>6. "write_rate_limited" \in Codes /\ Holds("write_rate_limited", i)
    BY DEF Holds, Codes, Refusals
  <2> HIDE DEF refusal
  <2> QED
    BY <2>1, <2>4, <2>5, <2>6, NextStatement, DenyAnswer DEF InBase, PastIntentLock
<1>9. ASSUME NEW p \in Requests, Execute(p)
      PROVE  AnswerInv'
  <2> DEFINE i == target[p]
  <2>1. pc[p] = "execute" /\ i \in Intents /\ execution[i] = "pending"
    BY <1>9, TargetType DEF Execute, CheckInv, PastReserve, PastWorkspaceLock,
       PastIntentLock
  <2>2. \/ command[i].fate = "facet_head_conflict" /\ Deny(p, "facet_head_conflict")
        \/ Goto(p, "window")
    BY <1>9 DEF Execute
  <2>3. command[i].fate = "facet_head_conflict" =>
          "facet_head_conflict" \in Codes /\ Holds("facet_head_conflict", i)
    BY <2>1 DEF Holds, Codes, Refusals, Terminal
  <2> QED
    BY <2>1, <2>2, <2>3, NextStatement, DenyAnswer DEF InBase, PastIntentLock
<1>10. ASSUME NEW p \in Requests, FinalWindow(p)
      PROVE  AnswerInv'
  <2> DEFINE i == target[p]
  <2>1. pc[p] = "window" /\ i \in Intents /\ execution[i] = "pending"
    BY <1>10, TargetType DEF FinalWindow, CheckInv, PastReserve, PastWorkspaceLock,
       PastIntentLock
  <2>2. \A q \in Requests : target[q] = i => pc[q] # "commit"
    BY <2>1 DEF LockInv, HoldsIntent, PastIntentLock
  <2>3. \/ Expired(i) /\ Deny(p, "challenge_expired")
        \/ Goto(p, "commit")
    BY <1>10 DEF FinalWindow
  <2>4. Expired(i) => "challenge_expired" \in Codes /\ Holds("challenge_expired", i)
    BY <2>1, <2>2 DEF Holds, ExpiredForGood, Codes, Refusals
  <2> QED
    BY <2>1, <2>3, <2>4, NextStatement, DenyAnswer DEF InBase, PastIntentLock
<1>11. ASSUME NEW p \in Requests, Commit(p)
      PROVE  AnswerInv'
  <2> DEFINE i == target[p]
  <2>1. /\ pc[p] = "commit" /\ i \in Intents /\ execution[i] = "pending"
        /\ audit[p] = {} /\ code[p] = "none" /\ answer[p] = "none"
    BY <1>11, TargetType DEF Commit, CheckInv, PcInv, AnswerInv, RequestAnswer,
                       InBase, PastReserve, PastWorkspaceLock, PastIntentLock
  <2>2. /\ execution' = [execution EXCEPT ![i] = "committed"]
        /\ audit' = [audit EXCEPT ![p] = audit[p] \cup {"committed"}]
        /\ \/ /\ pc' = [pc EXCEPT ![p] = "done"]
              /\ answer' = [answer EXCEPT ![p] = "committed"]
              /\ code' = code
           \/ /\ pc' = [pc EXCEPT ![p] = "caught"]
              /\ code' = [code EXCEPT ![p] = "unknown"]
              /\ answer' = answer
        /\ UNCHANGED <<revoked, target, told, seen>>
    BY <1>11 DEF Commit
  <2>3. /\ audit'[p] = {"committed"} /\ execution'[i] = "committed"
        /\ pc'[p] \in {"done", "caught"} /\ code'[p] \in {"none", "unknown"}
        /\ answer'[p] \in {"none", "committed"} /\ (answer'[p] # "none" => pc'[p] = "done")
    BY <2>1, <2>2 DEF TypeOK
  <2>4. \A q \in Requests \ {p} :
          UNCHANGED <<pc[q], target[q], code[q], audit[q], answer[q]>>
    BY <2>2 DEF TypeOK
  <2>5. RequestAnswer(p)'
    BY <2>2, <2>3 DEF RequestAnswer, Refused, Holds, InBase, PastIntentLock
  <2>6. \A j \in Intents : execution[j] = "rejected" => execution'[j] = "rejected"
    BY <2>1, <2>2 DEF TypeOK
  <2> QED
    BY <2>2, <2>4, <2>5, <2>6, AnswerFrame
<1>12. ASSUME NEW p \in Requests, LockTimeout(p)
      PROVE  AnswerInv'
  <2>1. pc[p] \in InBase \cup {"attempt"}
    BY <1>12 DEF LockTimeout, InBase, PastIntentLock
  <2>2. \A c \in {"write_fence_unavailable"} : c \in Codes /\ Holds(c, target[p])
    BY DEF Holds, Codes, Refusals, Terminal
  <2> QED
    BY <1>12, <2>1, <2>2, GotoAnswer, DenyAnswer DEF LockTimeout, Pcs, InBase,
       PastIntentLock
<1>13. ASSUME NEW p \in Requests, RecordRejection(p)
      PROVE  AnswerInv'
  <2> DEFINE i == target[p]
  <2>1. /\ pc[p] = "caught" /\ i \in Intents /\ execution[i] = "pending"
        /\ code[p] \in Terminal /\ code[p] \in Codes /\ Holds(code[p], i)
        /\ "committed" \notin audit[p] /\ answer[p] = "none"
    BY <1>13, TargetType DEF RecordRejection, Rejectable, AnswerInv, RequestAnswer,
                       Terminal, Codes, Refusals
  <2>2. /\ execution' = [execution EXCEPT ![i] = "rejected"]
        /\ audit' = [audit EXCEPT ![p] = audit[p] \cup {"denied"}]
        /\ answer' = [answer EXCEPT ![p] = code[p]]
        /\ pc' = [pc EXCEPT ![p] = "done"]
        /\ UNCHANGED <<revoked, target, code, told, seen>>
    BY <1>13 DEF RecordRejection
  <2>3. /\ pc'[p] = "done" /\ answer'[p] = code[p]
        /\ "committed" \notin audit'[p]
    BY <2>1, <2>2 DEF TypeOK
  <2>4. Holds(code[p], target[p])'
    BY <2>1, <2>2 DEF Stays
  <2>5. \A q \in Requests \ {p} :
          UNCHANGED <<pc[q], target[q], code[q], audit[q], answer[q]>>
    BY <2>2 DEF TypeOK
  <2>6. RequestAnswer(p)'
    BY <2>1, <2>2, <2>3, <2>4 DEF RequestAnswer, Refused, InBase, PastIntentLock,
       Terminal
  <2>7. \A j \in Intents : execution[j] = "rejected" => execution'[j] = "rejected"
    BY <2>1, <2>2 DEF TypeOK
  <2> QED
    BY <2>2, <2>5, <2>6, <2>7, AnswerFrame
<1>14. ASSUME NEW p \in Requests, PassRejection(p)
      PROVE  AnswerInv'
  <2>1. pc[p] = "caught" /\ Goto(p, "audit")
    BY <1>14 DEF PassRejection
  <2> QED
    BY <2>1, GotoAnswer DEF Pcs, InBase, PastIntentLock
<1>15. ASSUME NEW p \in Requests, AppendAudit(p)
      PROVE  AnswerInv'
  <2> DEFINE i == target[p]
  <2>1. /\ pc[p] = "audit" /\ i \in Intents /\ execution[i] # "absent"
        /\ code[p] # "none" /\ code[p] \in Codes /\ Holds(code[p], i) /\ ~Refused(p)
        /\ "committed" \in audit[p] => code[p] = "unknown"
    BY <1>15, TargetType DEF AppendAudit, AnswerInv, RequestAnswer, PcInv, TypeOK
  <2>2. /\ audit' = [audit EXCEPT ![p] = audit[p] \cup {AuditResult(code[p])}]
        /\ answer' = [answer EXCEPT ![p] = code[p]]
        /\ pc' = [pc EXCEPT ![p] = "done"]
        /\ UNCHANGED <<rows, target, code, told, seen>>
    BY <1>15 DEF AppendAudit
  <2>3. /\ pc'[p] = "done" /\ answer'[p] = code[p]
        /\ "committed" \in audit'[p] <=> "committed" \in audit[p]
        /\ Refused(p)' => code[p] # "unknown"
    BY <2>1, <2>2 DEF TypeOK, AuditResult, Refused
  <2>4. Holds(code[p], target[p])'
    BY <2>1, <2>2 DEF Stays
  <2>5. RequestAnswer(p)'
    BY <2>1, <2>2, <2>3, <2>4 DEF RequestAnswer, InBase, PastIntentLock, Codes,
       Refusals, Terminal
  <2> QED
    BY <2>2, <2>5, AnswerFrame DEF TypeOK
<1>16. ASSUME NEW p \in Requests, Fail(p)
      PROVE  AnswerInv'
  <2>1. pc[p] \in InBase \cup {"attempt"}
    BY <1>16 DEF Fail, InBase, PastIntentLock
  <2>2. \A c \in {"write_fence_unavailable", "unknown"} : c \in Codes /\ Holds(c, target[p])
    BY DEF Holds, Codes, Refusals, Terminal
  <2> QED
    BY <1>16, <2>1, <2>2, GotoAnswer, DenyAnswer DEF Fail, Pcs, InBase, PastIntentLock
<1>17. ASSUME NEW p \in Requests, Crash(p)
      PROVE  AnswerInv'
  <2>1. /\ pc[p] \notin {"idle", "done"} /\ pc' = [pc EXCEPT ![p] = "dead"]
        /\ UNCHANGED <<rows, target, code, audit, answer, told, seen>>
    BY <1>17 DEF Crash
  <2>2. target[p] \in Intents /\ execution[target[p]] # "absent"
    BY <2>1, TargetType
  <2>3. code[p] # "none" => Holds(code[p], target[p])'
    BY <2>1, <2>2 DEF Stays, TypeOK, AnswerInv, RequestAnswer
  <2>4. RequestAnswer(p)'
    BY <2>1, <2>3 DEF AnswerInv, RequestAnswer, Refused, TypeOK, InBase, PastIntentLock
  <2> QED
    BY <2>1, <2>4, AnswerFrame DEF TypeOK
<1>18. ASSUME NEW i \in Intents, Revoke(i)
      PROVE  AnswerInv'
  <2>1. /\ execution[i] # "absent"
        /\ told' = [told EXCEPT ![i] =
             IF execution[i] = "committed" THEN "committed" ELSE "not_committed"]
        /\ revoked' = [revoked EXCEPT ![i] = TRUE]
        /\ UNCHANGED <<execution, request, seen>>
    BY <1>18 DEF Revoke, Prepared
  <2>2. \A q \in Requests : RequestAnswer(q)'
    BY <2>1, RequestFrame
  <2>3. \A j \in Intents \ {i} : IntentAnswer(j)'
    BY <2>1, IntentFrame DEF TypeOK
  <2>4. IntentAnswer(i)'
    <3>1. /\ revoked'[i] /\ seen'[i] = seen[i] /\ execution'[i] = execution[i]
          /\ told'[i] = IF execution[i] = "committed" THEN "committed" ELSE "not_committed"
      BY <2>1 DEF TypeOK
    <3>2. /\ seen[i] = "expired" => Holds("challenge_expired", i)'
          /\ seen[i] = "committed" => Holds("challenge_consumed", i)'
      BY <2>1 DEF Stays, AnswerInv, IntentAnswer, Codes, Refusals
    <3> QED
      BY <3>1, <3>2 DEF IntentAnswer, AnswerInv, Holds
  <2> QED
    BY <2>2, <2>3, <2>4 DEF AnswerInv
<1>19. ASSUME NEW kind \in 1 .. Fences, CloseAuthority(kind)
      PROVE  AnswerInv'
  BY <1>19, WorldFrame DEF CloseAuthority
<1>20. ASSUME NEW i \in Intents, ReadStatus(i)
      PROVE  AnswerInv'
  <2>1. /\ execution[i] # "absent" /\ IntentFree(i)
        /\ seen' = [seen EXCEPT ![i] = Status(i)]
        /\ UNCHANGED <<world, rows, base, request, told>>
    BY <1>20 DEF ReadStatus, Prepared
  <2>2. \A q \in Requests : RequestAnswer(q)'
    BY <2>1, RequestFrame
  <2>3. \A j \in Intents \ {i} : IntentAnswer(j)'
    BY <2>1, IntentFrame DEF TypeOK
  <2>4. IntentAnswer(i)'
    <3>1. seen'[i] = Status(i) /\ \A q \in Requests : target[q] = i => pc[q] # "commit"
      BY <2>1 DEF TypeOK, IntentFree, HoldsIntent, PastIntentLock
    <3>2. /\ Status(i) = "revoked" => revoked[i]
          /\ Status(i) \in {"committed", "rejected"} => execution[i] = Status(i)
          /\ Status(i) = "expired" => Holds("challenge_expired", i)
      BY <3>1 DEF Status, Holds, ExpiredForGood
    <3>3. /\ Status(i) = "expired" => Holds("challenge_expired", i)'
          /\ told[i] = "committed" => Holds("challenge_consumed", i)'
          /\ told[i] = "not_committed" => Holds("write_intent_revoked", i)'
      BY <2>1, <3>2 DEF Stays, AnswerInv, IntentAnswer, Codes, Refusals
    <3> HIDE DEF Status
    <3> QED
      BY <2>1, <3>1, <3>2, <3>3 DEF IntentAnswer, Holds
  <2> QED
    BY <2>2, <2>3, <2>4 DEF AnswerInv
<1>21. ASSUME NEW k \in Keys, DirectWrite(k)
      PROVE  AnswerInv'
  BY <1>21, WorldFrame DEF DirectWrite
<1>22. CASE MoveScope
  BY <1>22, WorldFrame DEF MoveScope
<1>23. CASE ChangeRights
  BY <1>23, WorldFrame DEF ChangeRights
<1>24. CASE Tick
  BY <1>24, WorldFrame DEF Tick
<1>25. CASE UNCHANGED vars
  BY <1>25, WorldFrame DEF vars
<1> QED
  BY <1>1, <1>2, <1>3, <1>4, <1>5, <1>6, <1>7, <1>8, <1>9, <1>10, <1>11, <1>12, <1>13,
     <1>14, <1>15, <1>16, <1>17, <1>18, <1>19, <1>20, <1>21, <1>22, <1>23, <1>24,
     <1>25 DEF Next, Serve, World, Advance

-----------------------------------------------------------------------------
(* The invariant holds initially, and every step keeps it.                    *)
LEMMA InitIInv == Init => IInv
<1> SUFFICES ASSUME Init PROVE IInv
  OBVIOUS
<1>1. TypeOK
  BY InitTypeOK
<1>2. PcInv /\ LockInv
  BY DEF Init, PcInv, LockInv, HoldsIntent, HoldsWorkspace, PastIntentLock,
         PastWorkspaceLock, InBase
<1>3. RowInv
  BY NamesAssumption DEF Init, RowInv
<1>4. CheckInv
  BY DEF Init, CheckInv, PastAdmission, PastReserve, PastWorkspaceLock, PastIntentLock
<1>5. ExactlyOnce
  BY NamesAssumption DEF Init, ExactlyOnce, Bundle, Winners, OutboxKinds
<1>6. AnswerInv
  BY DEF Init, AnswerInv, RequestAnswer, IntentAnswer, Refused, InBase
<1> QED
  BY <1>1, <1>2, <1>3, <1>4, <1>5, <1>6 DEF IInv

\* Every step keeps the invariant.
LEMMA IInvStep == IInv /\ [Next]_vars => IInv'
<1> SUFFICES ASSUME TypeOK, PcInv, LockInv, RowInv, CheckInv, ExactlyOnce, AnswerInv,
                    [Next]_vars
             PROVE  IInv'
  BY DEF IInv
<1>1. TypeOK' /\ PcInv' /\ LockInv'
  BY TypeStep, PcStep, LockStep
<1>2. RowInv' /\ CheckInv' /\ ExactlyOnce'
  BY RowStep, CheckStep, OnceStep
<1>3. AnswerInv'
  BY StaysStep, AnswerStep
<1> QED
  BY <1>1, <1>2, <1>3 DEF IInv

(* The invariant holds in every reachable state.                              *)
THEOREM Invariance == Spec => []IInv
  BY InitIInv, IInvStep, PTL DEF Spec

(* Every variable keeps its type, whatever the requests do.                   *)
THEOREM TypeCorrect == Spec => []TypeOK
<1>1. IInv => TypeOK
  BY DEF IInv
<1> QED
  BY <1>1, Invariance, PTL

(* However many requests confirm an intent, a key has at most one BASE        *)
(* execution and a committed intent has its whole bundle.                     *)
THEOREM OnceTheorem == Spec => []ExactlyOnce
<1>1. IInv => ExactlyOnce
  BY DEF IInv
<1> QED
  BY <1>1, Invariance, PTL

(* What a client was told of a write, by a confirmation, a revocation or a    *)
(* status, stays true.                                                        *)
THEOREM AnswersTheorem == Spec => []AnswersHold
<1>1. IInv => AnswersHold
  <2> SUFFICES ASSUME IInv PROVE AnswersHold
    OBVIOUS
  <2>1. \A p \in Requests :
          /\ answer[p] \in {"none", code[p], "committed"}
          /\ code[p] # "none" => Holds(code[p], target[p])
          /\ answer[p] = "committed" => execution[target[p]] = "committed"
          /\ Refused(p) => "committed" \notin audit[p]
    BY DEF IInv, AnswerInv, RequestAnswer, Holds
  <2>2. \A p \in Requests :
          answer[p] = "challenge_consumed" => execution[target[p]] = "committed"
    BY <2>1 DEF Holds
  <2>3. \A p \in Requests :
          answer[p] \in Terminal \cup {"write_intent_revoked", "challenge_expired",
                                       "command_context_unresolved"} =>
            execution[target[p]] # "committed"
    BY <2>1 DEF Holds, ExpiredForGood, Terminal
  <2>4. \A i \in Intents :
          /\ told[i] = "committed" => execution[i] = "committed"
          /\ told[i] = "not_committed" => execution[i] # "committed"
          /\ seen[i] = "expired" => execution[i] # "committed"
          /\ seen[i] \in {"committed", "rejected"} => execution[i] = seen[i]
    BY DEF IInv, AnswerInv, IntentAnswer, Holds, ExpiredForGood
  <2> QED
    BY <2>1, <2>2, <2>3, <2>4 DEF AnswersHold, Refused
<1> QED
  BY <1>1, Invariance, PTL

(* An execution state changes to "committed" in no step but Commit.           *)
LEMMA OnlyCommit ==
  ASSUME TypeOK, [Next]_vars, NEW i \in Intents,
         execution[i] # "committed", execution'[i] = "committed"
  PROVE  \E p \in Requests : Commit(p) /\ (target[p] \in Intents => target[p] = i)
<1>1. CASE \E j \in Intents, k \in Keys, expects \in 0 .. revision, life \in 1 .. TTL,
            fate \in Fates : Prepare(j, k, expects, life, fate)
  BY <1>1 DEF Prepare, TypeOK
<1>2. CASE \E p \in Requests : RecordRejection(p)
  BY <1>2 DEF RecordRejection, TypeOK
<1>3. CASE \E p \in Requests : Commit(p)
  <2>1. PICK p \in Requests : Commit(p)
    BY <1>3
  <2>2. execution' = [execution EXCEPT ![target[p]] = "committed"]
    BY <2>1 DEF Commit
  <2>3. target[p] \in Intents => target[p] = i
    BY <2>2 DEF TypeOK
  <2> QED
    BY <2>1, <2>3
<1>4. CASE UNCHANGED execution
  BY <1>4
<1>5. ASSUME NEW p \in Requests, Advance(p), ~RecordRejection(p), ~Commit(p)
      PROVE  UNCHANGED execution
  BY <1>5 DEF Advance, ReserveAttempt, TakeFence, LockIntent, LockWorkspace, Reserve,
     Admit, Execute, FinalWindow, LockTimeout, PassRejection, AppendAudit, Goto, Deny
<1>6. ASSUME NEW p \in Requests, Fail(p) \/ Crash(p) \/ \E j \in Intents : Receive(p, j)
      PROVE  UNCHANGED execution
  BY <1>6 DEF Fail, Crash, Receive, Deny
<1>7. ASSUME \/ \E j \in Intents : Revoke(j) \/ ReadStatus(j)
             \/ \E kind \in 1 .. Fences : CloseAuthority(kind)
             \/ \E k \in Keys : DirectWrite(k)
             \/ MoveScope \/ ChangeRights \/ Tick \/ UNCHANGED vars
      PROVE  UNCHANGED execution
  BY <1>7 DEF Revoke, ReadStatus, CloseAuthority, DirectWrite, MoveScope, ChangeRights,
     Tick, vars
<1> QED
  BY <1>1, <1>2, <1>3, <1>4, <1>5, <1>6, <1>7 DEF Next, Serve, World

(* At its COMMIT an intent's authority is open, it is not revoked, its actor  *)
(* has the rights and its scope is the one displayed.                         *)
THEOREM AdmissionTheorem == Spec => AdmittedAtCommit
<1>1. ASSUME IInv, [Next]_vars, NEW i \in Intents,
             execution[i] # "committed", execution'[i] = "committed"
      PROVE  /\ closed = {} /\ ~revoked[i] /\ rights
             /\ command[i].expects = revision
             /\ execution[i] = "pending"
  <2>1. TypeOK /\ PcInv /\ CheckInv
    BY <1>1 DEF IInv
  <2>2. PICK p \in Requests : Commit(p) /\ (target[p] \in Intents => target[p] = i)
    BY <1>1, <2>1, OnlyCommit
  <2>3. pc[p] = "commit" /\ target[p] = i
    BY <2>1, <2>2, TargetType DEF Commit
  <2>4. fence[p] = Fences
    BY <2>1, <2>3 DEF PcInv, PastIntentLock
  <2>5. closed = {}
    BY <2>1, <2>4, BoundsAssumption DEF CheckInv, TypeOK
  <2> QED
    BY <2>1, <2>3, <2>5 DEF CheckInv, PastAdmission, PastReserve, PastWorkspaceLock,
                            PastIntentLock
<1>2. IInv /\ [Next]_vars =>
        [\A i \in Intents :
           execution[i] # "committed" /\ execution'[i] = "committed" =>
             /\ closed = {} /\ ~revoked[i] /\ rights
             /\ command[i].expects = revision
             /\ execution[i] = "pending"]_vars
  BY <1>1
<1> QED
  BY <1>2, Invariance, PTL DEF AdmittedAtCommit, Spec

(* A status given never contradicts the next one given.                       *)
THEOREM StatusTheorem == Spec => StatusMonotone
<1>1. ASSUME IInv, [Next]_vars, NEW i \in Intents
      PROVE  seen'[i] \in Successors(seen[i])
  <2>1. seen[i] \in Verdicts \cup {"none"} /\ IntentAnswer(i)
    BY <1>1 DEF IInv, TypeOK, AnswerInv
  <2>2. CASE seen'[i] = seen[i]
    BY <2>1, <2>2 DEF Successors, Verdicts
  <2>3. CASE ReadStatus(i)
    <3>1. seen'[i] = Status(i)
      BY <1>1, <2>3 DEF ReadStatus, IInv, TypeOK
    <3>2. /\ seen[i] = "expired" => Expired(i) /\ execution[i] # "committed"
          /\ seen[i] = "committed" => execution[i] = "committed"
          /\ seen[i] = "rejected" => execution[i] = "rejected"
          /\ seen[i] = "revoked" => revoked[i]
      BY <2>1 DEF IntentAnswer, Holds, ExpiredForGood
    <3> QED
      BY <2>1, <3>1, <3>2 DEF Status, Successors, Verdicts
  <2>4. seen'[i] = seen[i] \/ ReadStatus(i)
    <3>1. ASSUME NEW p \in Requests, Advance(p) PROVE UNCHANGED seen
      BY <3>1 DEF Advance, ReserveAttempt, TakeFence, LockIntent, LockWorkspace,
         Reserve,
         Admit, Execute, FinalWindow, Commit, LockTimeout, RecordRejection, PassRejection,
         AppendAudit, Goto, Deny
    <3>2. ASSUME NEW j \in Intents, ReadStatus(j), j # i PROVE seen'[i] = seen[i]
      BY <1>1, <3>2 DEF ReadStatus, IInv, TypeOK
    <3>3. ASSUME NEW p \in Requests, Fail(p) \/ Crash(p) \/ \E j \in Intents : Receive(p, j)
          PROVE  UNCHANGED seen
      BY <3>3 DEF Fail, Crash, Receive, Deny
    <3>4. ASSUME \/ \E j \in Intents : Revoke(j)
                 \/ \E j \in Intents, k \in Keys, expects \in 0 .. revision,
                      life \in 1 .. TTL, fate \in Fates : Prepare(j, k, expects, life, fate)
                 \/ \E kind \in 1 .. Fences : CloseAuthority(kind)
                 \/ \E k \in Keys : DirectWrite(k)
                 \/ MoveScope \/ ChangeRights \/ Tick \/ UNCHANGED vars
          PROVE  UNCHANGED seen
      BY <3>4 DEF Revoke, Prepare, CloseAuthority, DirectWrite, MoveScope, ChangeRights,
         Tick, vars
    <3> QED
      BY <1>1, <3>1, <3>2, <3>3, <3>4 DEF Next, Serve, World
  <2> QED
    BY <2>2, <2>3, <2>4
<1>2. IInv /\ [Next]_vars => [\A i \in Intents : seen'[i] \in Successors(seen[i])]_vars
  BY <1>1
<1> QED
  BY <1>2, Invariance, PTL DEF StatusMonotone, Spec

(* The service implements the tables: its statements are the ones the         *)
(* triggers, checks and keys of the database accept.                          *)
THEOREM TablesTheorem == Spec => TablesAccept
<1>1. Init => Tables!Init
  BY DEF Init, Tables!Init
<1>2. ASSUME IInv, [Next]_vars
      PROVE  Tables!Statement \/ UNCHANGED Tables!tables
  <2>1. TypeOK /\ PcInv /\ RowInv /\ CheckInv /\ ExactlyOnce /\ AnswerInv
    BY <1>2 DEF IInv
  <2>2. TypeOK' /\ RowInv' /\ ExactlyOnce'
    BY <1>2, IInvStep DEF IInv
  <2>3. Tables!References
    <3>1. \A j \in Intents : rejection'[j] \in Terminal \cup {"none"}
      BY <2>2 DEF TypeOK
    <3>2. \A j \in Intents :
            linked'[j] \/ rejection'[j] # "none" => execution'[j] # "absent"
      BY <2>2 DEF ExactlyOnce, Bundle
    <3>3. \A k \in Keys : reserved'[k] \in Intents => execution'[reserved'[k]] # "absent"
      BY <2>2 DEF RowInv
    <3>4. \A k, l \in Keys : reserved'[k] = reserved'[l] /\ reserved'[k] \in Intents => k = l
      BY <2>2 DEF RowInv
    <3> QED
      BY <3>1, <3>2, <3>3, <3>4 DEF Tables!References
  <2>4. CASE \E i \in Intents, k \in Keys, expects \in 0 .. revision, life \in 1 .. TTL,
              fate \in Fates : Prepare(i, k, expects, life, fate)
    <3>1. PICK i \in Intents, k \in Keys :
            /\ execution[i] = "absent" /\ reserved[k] = NoIntent
            /\ execution' = [execution EXCEPT ![i] = "pending"]
            /\ reserved' = [reserved EXCEPT ![k] = i]
            /\ UNCHANGED <<challenge, revoked, linked, rejection>>
      BY <2>4 DEF Prepare
    <3>2. \A j \in Intents : Tables!RowGuard(j)
      BY <2>1, <3>1 DEF Tables!RowGuard, TypeOK
    <3>3. Tables!AppendOnly
      BY <2>1, <3>1 DEF Tables!AppendOnly, TypeOK
    <3> QED
      BY <2>3, <3>2, <3>3 DEF Tables!Statement
  <2>5. CASE \E p \in Requests : Commit(p)
    <3>1. PICK p \in Requests : Commit(p)
      BY <2>5
    <3>2. /\ target[p] \in Intents /\ execution[target[p]] = "pending"
          /\ execution' = [execution EXCEPT ![target[p]] = "committed"]
          /\ challenge' = [challenge EXCEPT ![target[p]] = "consumed"]
          /\ linked' = [linked EXCEPT ![target[p]] = TRUE]
          /\ UNCHANGED <<revoked, reserved, rejection>>
      BY <2>1, <3>1, TargetType DEF Commit, CheckInv, PastReserve, PastWorkspaceLock,
         PastIntentLock
    <3>3. \A j \in Intents : Tables!RowGuard(j)
      BY <2>1, <3>2 DEF Tables!RowGuard, TypeOK
    <3>4. Tables!AppendOnly
      BY <2>1, <3>2 DEF Tables!AppendOnly, TypeOK
    <3> QED
      BY <2>3, <3>3, <3>4 DEF Tables!Statement
  <2>6. CASE \E p \in Requests : RecordRejection(p)
    <3>1. PICK p \in Requests : RecordRejection(p)
      BY <2>6
    <3>2. /\ target[p] \in Intents /\ execution[target[p]] = "pending"
          /\ rejection[target[p]] = "none"
          /\ execution' = [execution EXCEPT ![target[p]] = "rejected"]
          /\ rejection' = [rejection EXCEPT ![target[p]] = code[p]]
          /\ UNCHANGED <<challenge, revoked, linked, reserved>>
      BY <2>1, <3>1, TargetType DEF RecordRejection, Rejectable, ExactlyOnce, Bundle
    <3>3. \A j \in Intents : Tables!RowGuard(j)
      BY <2>1, <3>2 DEF Tables!RowGuard, TypeOK
    <3>4. Tables!AppendOnly
      BY <2>1, <3>2 DEF Tables!AppendOnly, TypeOK
    <3> QED
      BY <2>3, <3>3, <3>4 DEF Tables!Statement
  <2>7. CASE \E i \in Intents : Revoke(i)
    <3>1. PICK i \in Intents :
            /\ revoked' = [revoked EXCEPT ![i] = TRUE]
            /\ UNCHANGED <<execution, challenge, linked, reserved, rejection>>
      BY <2>7 DEF Revoke
    <3>2. \A j \in Intents : Tables!RowGuard(j)
      BY <2>1, <3>1 DEF Tables!RowGuard, TypeOK
    <3>3. Tables!AppendOnly
      BY <3>1 DEF Tables!AppendOnly
    <3> QED
      BY <2>3, <3>2, <3>3 DEF Tables!Statement
  <2>8. CASE UNCHANGED rows
    BY <2>8 DEF Tables!tables
  <2>9. ASSUME NEW p \in Requests, Advance(p)
        PROVE  Commit(p) \/ RecordRejection(p) \/ UNCHANGED rows
    BY <2>9 DEF Advance, ReserveAttempt, TakeFence, LockIntent, LockWorkspace, Reserve,
       Admit, Execute, FinalWindow, LockTimeout, PassRejection, AppendAudit, Goto, Deny
  <2>10. ASSUME NEW p \in Requests, Fail(p) \/ Crash(p) \/ \E j \in Intents : Receive(p, j)
         PROVE  UNCHANGED rows
    BY <2>10 DEF Fail, Crash, Receive, Deny
  <2>11. ASSUME \/ \E j \in Intents : ReadStatus(j)
                \/ \E kind \in 1 .. Fences : CloseAuthority(kind)
                \/ \E k \in Keys : DirectWrite(k)
                \/ MoveScope \/ ChangeRights \/ Tick \/ UNCHANGED vars
         PROVE  UNCHANGED rows
    BY <2>11 DEF ReadStatus, CloseAuthority, DirectWrite, MoveScope, ChangeRights,
       Tick, vars
  <2> QED
    BY <1>2, <2>4, <2>5, <2>6, <2>7, <2>8, <2>9, <2>10, <2>11 DEF Next, Serve, World
<1>3. IInv /\ [Next]_vars => [Tables!Statement]_Tables!tables
  BY <1>2
<1> QED
  BY <1>1, <1>3, Invariance, PTL DEF TablesAccept, Tables!Spec, Spec
==============================================================================
