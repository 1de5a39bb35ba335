------------------------------ MODULE Admission ------------------------------
(* The accounts admitted by another deployment (src/api/src/admission): its   *)
(* emitter reads its accounts, stamps and signs an envelope, and pushes it;   *)
(* this deployment applies the envelopes to its staging table and to the      *)
(* accounts already linked to an admission.  The network loses, repeats and   *)
(* reorders envelopes; two signing keys are accepted during a rotation.       *)
(*                                                                            *)
(* The other deployment is its winning entry per e-mail, as                   *)
(* buildAdmissionSnapshot keeps one of several.  Signatures are external: an  *)
(* envelope in the network is one the emitter signed.                         *)
EXTENDS Accounts, Integers

CONSTANTS
  Emitters,     \* emissions of the other deployment
  Ingests,      \* requests of the ingestion route and of the ingestion job
  Kids,         \* accepted signing keys
  NoEnvelope

VARIABLES
  prod,         \* what the other deployment decided, by e-mail
  emission,     \* what each emission has read
  clock,        \* the emitter's clock
  network,      \* envelopes signed so far
  synced,       \* admission_sync_state: last stamp applied, by key
  ingest        \* the envelope each ingestion is applying under the lock

admissionVars ==
  <<accountVars, prod, emission, clock, network, synced, ingest>>
otherVars == <<prod, emission, clock, network, synced, ingest>>

NoEmission == [pc |-> "idle"]

Unsynced ==
  /\ prod = [e \in Emails |-> "none"]
  /\ emission = [m \in Emitters |-> NoEmission]
  /\ clock = 0
  /\ network = {}
  /\ synced = [k \in Kids |-> 0]
  /\ ingest = [x \in Ingests |-> NoEnvelope]
AdmissionInit == AccountsInit /\ Unsynced

(* The other deployment decides; "none" is an account deleted, or moved to    *)
(* another e-mail.                                                            *)
ProdDecides ==
  /\ \E e \in Emails, to \in Statuses \cup {"none"} :
       prod[e] # to /\ prod' = [prod EXCEPT ![e] = to]
  /\ UNCHANGED <<accountVars, emission, clock, network, synced, ingest>>

(* The rows are read first: all of them by the periodic job, one account by   *)
(* the push of a decision, which stops when there is nothing to mail.         *)
ReadRows(m) ==
  /\ emission[m].pc = "idle"
  /\ \E read \in {[full |-> TRUE, of |-> Emails]} \cup
                 {[full |-> FALSE, of |-> {e}] : e \in Emails} :
       LET listed == {e \in read.of : prod[e] # "none"}
       IN /\ read.full \/ listed # {}
          /\ emission' = [emission EXCEPT ![m] =
               [pc |-> "stamp", full |-> read.full,
                entries |-> [e \in listed |-> prod[e]]]]
  /\ UNCHANGED <<accountVars, prod, clock, network, synced, ingest>>

(* Then the envelope is stamped, possibly in the same millisecond as the      *)
(* last one, signed with one of the keys and sent.                            *)
Stamp(m) ==
  /\ emission[m].pc = "stamp"
  /\ \E now \in {clock, clock + 1} \ {0}, k \in Kids :
       /\ clock' = now
       /\ network' = network \cup
            {[kid |-> k, issuedAt |-> now, full |-> emission[m].full,
              entries |-> emission[m].entries]}
  /\ emission' = [emission EXCEPT ![m] = NoEmission]
  /\ UNCHANGED <<accountVars, prod, synced, ingest>>

StopEmission(m) ==
  /\ emission[m].pc # "idle"
  /\ emission' = [emission EXCEPT ![m] = NoEmission]
  /\ UNCHANGED <<accountVars, prod, clock, network, synced, ingest>>

(* The advisory lock of the ingestion, then the guard read under it: nothing  *)
(* older than, or as old as, what any key had applied.                        *)
IngestFree == \A x \in Ingests : ingest[x] = NoEnvelope
FreshForKey(env) == synced[env.kid] < env.issuedAt
Fresh(env) == \A k \in Kids : synced[k] < env.issuedAt
BeginIngest(x) ==
  /\ ingest[x] = NoEnvelope
  /\ IngestFree
  /\ \E env \in network :
       Fresh(env) /\ ingest' = [ingest EXCEPT ![x] = env]
  /\ UNCHANGED <<accountVars, prod, emission, clock, network, synced>>

(* An e-mail the full snapshot no longer names is staged as rejected, unless  *)
(* it is already.                                                             *)
Absent(env, e) ==
  /\ env.full
  /\ e \notin DOMAIN env.entries
  /\ staged[e].status \notin {"none", "rejected"}
Decided(env, e) ==
  IF e \in DOMAIN env.entries THEN env.entries[e] ELSE "rejected"
Touched(env) ==
  {e \in Emails : e \in DOMAIN env.entries \/ Absent(env, e)}

(* Staging and linked accounts follow in the same transaction.                *)
Mirrors(env, s) == /\ rows[s] # NoRow
                   /\ rows[s].source = "prod_sync"
                   /\ rows[s].email \in Touched(env)
Apply(x) ==
  /\ ingest[x] # NoEnvelope
  /\ LET env == ingest[x] IN
       /\ \A s \in Subs : Mirrors(env, s) => Unshared(s)
       /\ staged' = [e \in Emails |->
            IF e \in Touched(env)
              THEN [status |-> Decided(env, e), at |-> env.issuedAt]
              ELSE staged[e]]
       /\ rows' = [s \in Subs |->
            IF Mirrors(env, s)
              THEN [rows[s] EXCEPT !.status = Decided(env, rows[s].email)]
              ELSE rows[s]]
       /\ synced' = [synced EXCEPT ![env.kid] = env.issuedAt]
  /\ ingest' = [ingest EXCEPT ![x] = NoEnvelope]
  /\ UNCHANGED <<invitations, shared, visit, change, events, prod, emission,
                 clock, network>>

(* A failure inside the transaction rolls all of it back.                     *)
RollBack(x) ==
  /\ ingest[x] # NoEnvelope
  /\ ingest' = [ingest EXCEPT ![x] = NoEnvelope]
  /\ UNCHANGED <<accountVars, prod, emission, clock, network, synced>>

AdmissionNext ==
  \/ AccountsNext /\ UNCHANGED otherVars
  \/ ProdDecides
  \/ \E m \in Emitters : ReadRows(m) \/ Stamp(m) \/ StopEmission(m)
  \/ \E x \in Ingests : BeginIngest(x) \/ Apply(x) \/ RollBack(x)
AdmissionSpec == AdmissionInit /\ [][AdmissionNext]_admissionVars
------------------------------------------------------------------------------
(* Types.                                                                     *)
Entries == UNION {[D -> Statuses] : D \in SUBSET Emails}
Envelopes == [kid : Kids, issuedAt : Nat, full : BOOLEAN, entries : Entries]
Reading == [pc : {"stamp"}, full : BOOLEAN, entries : Entries]

AdmissionTypeOK ==
  /\ AccountsTypeOK
  /\ prod \in [Emails -> Statuses \cup {"none"}]
  /\ emission \in [Emitters -> Reading \cup {NoEmission}]
  /\ clock \in Nat
  /\ network \subseteq Envelopes
  /\ synced \in [Kids -> Nat]
  /\ ingest \in [Ingests -> Envelopes \cup {NoEnvelope}]

(* "a delayed snapshot signed with the old key must never overwrite a newer   *)
(* revocation signed with the new key" (admission/ingest.ts): whatever the    *)
(* order of arrival, no staged entry goes back to an older stamp.             *)
NeverOlder ==
  [][\A e \in Emails : staged[e].at <= staged'[e].at]_admissionVars
==============================================================================
