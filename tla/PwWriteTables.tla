---------------------------- MODULE PwWriteTables ----------------------------
(* What the PW-D tables themselves accept, read from the triggers of         *)
(* api/drizzle/0027_pw_write_persistence.sql: an intent row is inserted once *)
(* and never deleted, its execution state leaves "pending" once, its         *)
(* challenge and its revocation never come back, and the reservation,        *)
(* receipt-link and rejection tables are append-only.  A statement outside   *)
(* Statement raises an exception in the database.  PwWrite, the service, is  *)
(* shown to issue no such statement (PwWrite!Tables!Spec).                   *)
CONSTANTS Intents,    \* rows of pw_write_intents
          Keys,       \* (actor, command key) pairs
          NoIntent,   \* "no row" in a table keyed by Keys
          Codes       \* the refusal codes a rejection row may carry

VARIABLES execution,  \* [Intents -> execution_state], "absent" before INSERT
          challenge,  \* [Intents -> challenge_state]
          revoked,    \* [Intents -> revoked_at IS NOT NULL]
          reserved,   \* pw_write_key_reservations: [Keys -> intent_id]
          linked,     \* pw_write_receipt_links: [Intents -> BOOLEAN]
          rejection   \* pw_write_rejections: [Intents -> code], "none": no row

tables == <<execution, challenge, revoked, reserved, linked, rejection>>

Init == /\ execution = [i \in Intents |-> "absent"]
        /\ challenge = [i \in Intents |-> "pending"]
        /\ revoked = [i \in Intents |-> FALSE]
        /\ reserved = [k \in Keys |-> NoIntent]
        /\ linked = [i \in Intents |-> FALSE]
        /\ rejection = [i \in Intents |-> "none"]

(* guard_pw_write_intent: the row i may go from its old to its new content. *)
RowGuard(i) ==
  /\ execution[i] = "absent" => execution'[i] \in {"absent", "pending"}
  /\ execution[i] = "pending" =>
       execution'[i] \in {"pending", "committed", "rejected", "expired"}
  /\ execution[i] \in {"committed", "rejected", "expired"} =>
       execution'[i] = execution[i]
  /\ challenge[i] = "consumed" => challenge'[i] = "consumed"
  /\ revoked[i] => revoked'[i]

(* guard_pw_write_append_only and the primary keys of the three tables. *)
AppendOnly ==
  /\ \A k \in Keys : reserved[k] # NoIntent => reserved'[k] = reserved[k]
  /\ \A i \in Intents : linked[i] => linked'[i]
  /\ \A i \in Intents : rejection[i] # "none" => rejection'[i] = rejection[i]

(* Checks and keys: a rejection code of the list, a reservation, a link or a *)
(* rejection only for an intent that exists, one reservation per intent.     *)
References ==
  /\ \A i \in Intents : rejection'[i] \in Codes \cup {"none"}
  /\ \A i \in Intents :
       linked'[i] \/ rejection'[i] # "none" => execution'[i] # "absent"
  /\ \A k \in Keys : reserved'[k] \in Intents =>
       execution'[reserved'[k]] # "absent"
  /\ \A k, l \in Keys : reserved'[k] = reserved'[l] /\ reserved'[k] \in Intents =>
       k = l

Statement == (\A i \in Intents : RowGuard(i)) /\ AppendOnly /\ References

Spec == Init /\ [][Statement]_tables
=============================================================================
