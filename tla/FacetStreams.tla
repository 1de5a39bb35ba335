---------------------------- MODULE FacetStreams ----------------------------
(* The writers of the scoped facets of one signal: scoped-writer.ts (personal *)
(* selections and archive, composite discard, recovery of old receipts) and   *)
(* workspace-writer.ts (common archive), with the tables of                   *)
(* 0018_facet_scope_bindings.sql, beside graph refreshes and membership       *)
(* changes.                                                                   *)
(*                                                                            *)
(* A request is one transaction.  Its pc names the lock it is about to take   *)
(* or the statements it is about to issue; locks last to the end of the       *)
(* transaction, so their holder is a function of the pcs, and what it writes  *)
(* is written at COMMIT.  The locks of streams, taken under that of their     *)
(* workspace, are always free and have no step.                               *)
EXTENDS Integers, Sequences, FiniteSets

CONSTANTS
  Requests,      \* requests, each handled once; a retry is another request
  Members, Workspaces, Baskets, Reasons, NoReason, Contents, Gone, Shared,
  NoEntry, NoDigest,            \* of Classification
  Keys,          \* command keys a client draws
  NoWorkspace,   \* a receipt whose context is not resolved
  Codebook,      \* facet_reason_codes: <<facet, reason>> pairs
  Unresolved,    \* members with events no stream holds yet
  Orders,        \* commands a client may send, but for what it displays
  OldReceipts,   \* tables of receipts the cutover may leave behind
  NoReceipt,     \* no row
  NoCommand,     \* a request not sent yet
  MaxRefresh,    \* bound on the graph source revision
  MaxGrants      \* bound on each membership revision

Actions == {"select", "deselect", "discard", "restore"}
Families == {"personal", "workspace", "historical"}

(* Commands, events and receipts.                                             *)
Facets == Baskets \cup {"archive"}
Expectations == [Baskets -> Nat]     \* 0 for a basket not deselected
Commands ==
  [family: Families, by: Members, ws: Workspaces, key: Keys, action: Actions,
   basket: Facets, reason: Reasons \cup {NoReason}, deselect: SUBSET Baskets,
   expected: Nat, also: Expectations, shown: Contents]
Events == [state: {"active", "inactive"}, reason: Reasons \cup {NoReason},
           seen: Contents, by: Members, key: Keys,
           supersedes: Nat, supersededBy: Nat]
Bodies ==
  [action: Actions, basket: Facets, reason: Reasons \cup {NoReason},
   deselect: SUBSET Baskets, expected: Nat, also: Expectations,
   shown: Contents \cup {Gone}]
Digests == [kind: Families \cup {"v1", "v2"},
            ws: Workspaces \cup {NoWorkspace}, body: Bodies]
Receipts ==
  [digest: Digests, ws: Workspaces \cup {NoWorkspace}, event: Nat]
ReceiptTables == [Members -> [Keys -> Receipts \cup {NoReceipt}]]

ASSUME OrdersAssumption ==
  \A o \in Orders :
    /\ o.family \in Families /\ o.by \in Members /\ o.ws \in Workspaces
    /\ o.key \in Keys /\ o.action \in Actions /\ o.basket \in Facets
    /\ o.reason \in Reasons \cup {NoReason} /\ o.deselect \in SUBSET Baskets
    /\ o.action \in {"select", "deselect"} <=> o.basket # "archive"
    /\ o.deselect # {} => o.action = "discard"
    /\ o.family = "workspace" =>
         /\ o.basket = "archive" /\ o.deselect = {}
         /\ o.action = "discard" <=> o.reason # NoReason
(* Receipts from before the cutover carry the digests of that time.           *)
ASSUME OldAssumption ==
  \A old \in OldReceipts :
    /\ old \in ReceiptTables
    /\ \A m \in Members, k \in Keys :
         old[m][k] # NoReceipt => old[m][k].digest.kind \in {"v1", "v2"}
ASSUME NamesAssumption ==
  /\ Shared \notin Members /\ "archive" \notin Baskets
  /\ NoReason \notin Reasons /\ Gone \notin Contents
  /\ NoEntry \notin [state: {"active", "inactive"},
                     reason: Reasons \cup {NoReason}, seen: Contents,
                     by: Members]
  /\ NoCommand \notin Commands /\ NoReceipt \notin Receipts
  /\ NoWorkspace \notin Workspaces /\ Unresolved \subseteq Members
  /\ IsFiniteSet(Requests)

VARIABLES
  rows,          \* facet_events bound to each stream, in the order written
  head,          \* facet_heads: [Streams -> place in rows, 0 for none]
  receipts,      \* facet_commands with facet_command_contexts
  content, source, personal, common, rights,      \* of Classification
  pc,            \* [Requests -> next step]
  cmd,           \* [Requests -> the command sent]
  outcome,       \* [Requests -> what the client is answered]
  result         \* [Requests -> place of the event answered, 0 for null]

tables == <<rows, head, receipts>>
scope == <<content, source, personal, common, rights>>
request == <<pc, cmd, outcome, result>>
vars == <<tables, scope, request>>

(* The head of a stream, as its readers see it.                               *)
Current(s) ==
  IF head[s] = 0 THEN NoEntry
  ELSE LET e == rows[s][head[s]]
       IN [state |-> e.state, reason |-> e.reason, seen |-> e.seen, by |-> e.by]

(* One stream per identity of facet_streams.                                  *)
Streams == {s \in [ws: Workspaces, owner: Members \cup {Shared},
                   facet: Baskets \cup {"archive"}] :
              s.owner = Shared => s.facet = "archive"}

Classified == INSTANCE Classification WITH
  current <- [s \in Streams |-> Current(s)]
Roles == Classified!Roles

Pcs == {"idle", "workspace", "key", "city", "compare", "commit", "done"}
PastWorkspace == {"key", "city", "compare", "commit"}
PastKey == PastWorkspace \ {"key"}
PastCity == PastKey \ {"city"}
Refusals ==
  {"workspace_not_authorized", "personal_history_unresolved",
   "command_context_unresolved", "idempotency_key_conflict",
   "invalid_facet_command", "signal_not_found", "target_version_conflict",
   "facet_head_conflict", "invalid_reason_code", "unavailable"}

(* Streams a command names: its own first, then the selections it discards.   *)
Main(c) ==
  [ws |-> c.ws, facet |-> c.basket,
   owner |-> IF c.family = "workspace" THEN Shared ELSE c.by]
Touched(c) ==
  {Main(c)} \cup {[Main(c) EXCEPT !.facet = b] : b \in c.deselect}
Active(c) == c.action \in {"select", "discard"}
Wanted(c, s) ==
  IF s = Main(c) /\ Active(c) THEN [state |-> "active", reason |-> c.reason]
  ELSE [state |-> "inactive", reason |-> NoReason]
Displayed(c, s) == IF s = Main(c) THEN c.expected ELSE c.also[s.facet]

(* Mutant: the heads of the discarded selections are not compared.            *)
DisplayedMain(c) == {Main(c)}
Compared(c) == Touched(c)
Conflicting(c) == \E s \in Compared(c) : head[s] # Displayed(c, s)

(* What the digest of a command covers, and the digest of its family; an old  *)
(* payload has no displayed version.                                          *)
Body(c) == [action |-> c.action, basket |-> c.basket, reason |-> c.reason,
            deselect |-> c.deselect, expected |-> c.expected, also |-> c.also,
            shown |-> IF c.family = "historical" THEN Gone ELSE c.shown]
Digest(kind, w, c) == [kind |-> kind, ws |-> w, body |-> Body(c)]
OwnDigest(c) ==
  IF c.family = "historical" THEN Digest("v1", NoWorkspace, c)
  ELSE Digest(c.family, c.ws, c)
(* A personal command also recovers the receipt it had before the cutover.    *)
Accepted(c) ==
  {OwnDigest(c)} \cup
  (IF c.family = "personal" THEN {Digest("v2", NoWorkspace, c)} ELSE {})

Receipt(c) == receipts[c.by][c.key]
(* Mutant: a key already used is answered whatever command it was for.        *)
ForeignWorkspace(c) == Receipt(c).ws # c.ws
Foreign(c) == Receipt(c).ws # c.ws \/ Receipt(c).digest \notin Accepted(c)

WorkspaceFree(w) == \A q \in Requests : ~(pc[q] \in PastWorkspace /\ cmd[q].ws = w)
(* Mutants: a key nobody locks, a city lock nobody takes, a city lock that    *)
(* outlives its transaction.                                                  *)
KeyUnlocked(m, k) == TRUE
CityUnlocked == TRUE
CityKept == \A q \in Requests : pc[q] \notin PastCity \cup {"done"}
KeyFree(m, k) ==
  \A q \in Requests : ~(pc[q] \in PastKey /\ cmd[q].by = m /\ cmd[q].key = k)
CityFree == \A q \in Requests : pc[q] \notin PastCity

Init ==
  /\ rows = [s \in Streams |-> <<>>]
  /\ head = [s \in Streams |-> 0]
  /\ receipts \in OldReceipts
  /\ Classified!Init
  /\ pc = [p \in Requests |-> "idle"]
  /\ cmd = [p \in Requests |-> NoCommand]
  /\ outcome = [p \in Requests |-> "none"]
  /\ result = [p \in Requests |-> 0]

(* A client sends a command with the heads and the version it displays: any   *)
(* it may have been shown.                                                    *)
Send(p) ==
  /\ pc[p] = "idle"
  /\ \E o \in Orders, shown \in Contents :
       \E expected \in 0..Len(rows[Main(o)]),
          also \in [Baskets -> 0..Cardinality(Requests)] :
         /\ \A b \in Baskets :
              also[b] <= IF b \in o.deselect
                         THEN Len(rows[[Main(o) EXCEPT !.facet = b]]) ELSE 0
         /\ cmd' = [cmd EXCEPT ![p] =
              [family |-> o.family, by |-> o.by, ws |-> o.ws, key |-> o.key,
               action |-> o.action, basket |-> o.basket, reason |-> o.reason,
               deselect |-> o.deselect, expected |-> expected, also |-> also,
               shown |-> shown]]
  /\ pc' = [pc EXCEPT ![p] = "workspace"]
  /\ UNCHANGED <<tables, scope, outcome, result>>

Goto(p, next) ==
  /\ pc' = [pc EXCEPT ![p] = next]
  /\ UNCHANGED <<tables, scope, cmd, outcome, result>>

Answer(p, code, at) ==
  /\ pc' = [pc EXCEPT ![p] = "done"]
  /\ outcome' = [outcome EXCEPT ![p] = code]
  /\ result' = [result EXCEPT ![p] = at]
  /\ UNCHANGED <<scope, cmd>>

Refuse(p, code) == Answer(p, code, 0) /\ UNCHANGED tables

(* lockWorkspace, then approval, membership, capability and the history.      *)
Allowed(c) ==
  LET role == rights[c.ws][c.by].role
  IN IF c.family = "workspace" THEN role = "moderator" ELSE role # "none"

LockWorkspace(p) ==
  /\ pc[p] = "workspace" /\ WorkspaceFree(cmd[p].ws)
  /\ IF ~Allowed(cmd[p]) THEN Refuse(p, "workspace_not_authorized")
     ELSE IF cmd[p].family # "workspace" /\ cmd[p].by \in Unresolved
     THEN Refuse(p, "personal_history_unresolved")
     ELSE Goto(p, "key")

(* The lock of the command key, then the receipt and its context.             *)
LockKey(p) ==
  /\ pc[p] = "key" /\ KeyFree(cmd[p].by, cmd[p].key)
  /\ IF Receipt(cmd[p]) # NoReceipt
     THEN IF Receipt(cmd[p]).ws = NoWorkspace
          THEN Refuse(p, "command_context_unresolved")
          ELSE IF Foreign(cmd[p]) THEN Refuse(p, "idempotency_key_conflict")
          ELSE Answer(p, "ok", Receipt(cmd[p]).event) /\ UNCHANGED tables
     ELSE IF cmd[p].family = "historical"
     THEN Refuse(p, "invalid_facet_command")
     ELSE Goto(p, "city")

(* lockCityGraph, then the version displayed against the one stored.          *)
LockCity(p) ==
  /\ pc[p] = "city" /\ CityFree
  /\ IF content = Gone THEN Refuse(p, "signal_not_found")
     ELSE IF content # cmd[p].shown THEN Refuse(p, "target_version_conflict")
     ELSE Goto(p, "compare")

(* The heads displayed against the registered ones, then the reason.          *)
Unlisted(c) ==
  \/ c.action = "discard" /\ c.reason = NoReason
  \/ Active(c) /\ c.reason # NoReason /\ <<c.basket, c.reason>> \notin Codebook

Compare(p) ==
  /\ pc[p] = "compare"
  /\ IF Conflicting(cmd[p]) THEN Refuse(p, "facet_head_conflict")
     ELSE IF Unlisted(cmd[p]) THEN Refuse(p, "invalid_reason_code")
     ELSE Goto(p, "commit")

(* appendScopedTransition, appendWorkspaceTransition: nothing is appended for *)
(* the state a stream is in, nor to leave a state it never was in.            *)
Says(e, want) == e.state = want.state /\ e.reason = want.reason
(* Mutant: a composite discard leaves its selections.                         *)
AppendedMain(c) ==
  {s \in {Main(c)} :
     IF head[s] = 0 THEN Wanted(c, s).state = "active"
     ELSE ~Says(rows[s][head[s]], Wanted(c, s))}
Appended(c) ==
  {s \in Touched(c) :
     IF head[s] = 0 THEN Wanted(c, s).state = "active"
     ELSE ~Says(rows[s][head[s]], Wanted(c, s))}

Row(c, s) ==
  [state |-> Wanted(c, s).state, reason |-> Wanted(c, s).reason,
   seen |-> c.shown, by |-> c.by, key |-> c.key,
   supersedes |-> head[s], supersededBy |-> 0]

(* Mutant: the event replaced is not updated.                                 *)
NotSuperseded(s) == rows[s]
Superseded(s) ==
  IF head[s] = 0 THEN rows[s]
  ELSE [rows[s] EXCEPT ![head[s]].supersededBy = Len(rows[s]) + 1]

NewRows(c) ==
  [s \in Streams |->
     IF s \in Appended(c) THEN Append(Superseded(s), Row(c, s)) ELSE rows[s]]
NewHead(c) ==
  [s \in Streams |-> IF s \in Appended(c) THEN Len(rows[s]) + 1 ELSE head[s]]

(* The revision moves when some head is no longer the one displayed.          *)
Moved(c) == \E s \in Touched(c) : NewHead(c)[s] # Displayed(c, s)

(* The appends, the revision, the receipt and its context, whose primary key  *)
(* refuses one that another transaction has written.                          *)
Commit(p) ==
  LET c == cmd[p] IN
  /\ pc[p] = "commit"
  /\ IF Receipt(c) # NoReceipt THEN Refuse(p, "unavailable")
     ELSE
       /\ rows' = NewRows(c) /\ head' = NewHead(c)
       /\ receipts' = [receipts EXCEPT ![c.by][c.key] =
            [digest |-> OwnDigest(c), ws |-> c.ws,
             event |-> NewHead(c)[Main(c)]]]
       /\ personal' = IF Moved(c) /\ c.family = "personal"
                      THEN [personal EXCEPT ![c.ws][c.by] = @ + 1] ELSE personal
       /\ common' = IF Moved(c) /\ c.family = "workspace"
                    THEN [common EXCEPT ![c.ws] = @ + 1] ELSE common
       /\ pc' = [pc EXCEPT ![p] = "done"]
       /\ outcome' = [outcome EXCEPT ![p] = "ok"]
       /\ result' = [result EXCEPT ![p] = NewHead(c)[Main(c)]]
       /\ UNCHANGED <<content, source, rights, cmd>>

(* The server stops or PostgreSQL ends the transaction: nothing of it stays.  *)
Abort(p) ==
  /\ pc[p] \in PastWorkspace \cup {"workspace"}
  /\ Refuse(p, "unavailable")

Refresh ==
  /\ CityFree /\ source.revision < MaxRefresh
  /\ UNCHANGED <<tables, request>>
  /\ \E c \in Contents \cup {Gone} : Classified!Refresh(c)

Grant ==
  /\ UNCHANGED <<tables, request>>
  /\ \E w \in Workspaces, m \in Members, role \in Roles :
       /\ WorkspaceFree(w) /\ rights[w][m].revision < MaxGrants
       /\ Classified!Grant(w, m, role)

Advance(p) ==
  LockWorkspace(p) \/ LockKey(p) \/ LockCity(p) \/ Compare(p) \/ Commit(p)

Next ==
  \/ \E p \in Requests : Send(p) \/ Advance(p) \/ Abort(p)
  \/ Refresh
  \/ Grant

Spec == Init /\ [][Next]_vars
FairSpec == Spec /\ \A p \in Requests : WF_vars(Advance(p))
-----------------------------------------------------------------------------
Outcomes == Refusals \cup {"none", "ok"}

(* Every row, receipt and answer has its type, and a head is an event.        *)
TypeOK ==
  /\ rows \in [Streams -> Seq(Events)]
  /\ head \in [Streams -> Nat]
  /\ \A s \in Streams : head[s] <= Len(rows[s])
  /\ receipts \in ReceiptTables
  /\ Classified!FactsOK
  /\ pc \in [Requests -> Pcs]
  /\ cmd \in [Requests -> Commands \cup {NoCommand}]
  /\ \A p \in Requests : pc[p] = "idle" <=> cmd[p] = NoCommand
  /\ outcome \in [Requests -> Outcomes] /\ result \in [Requests -> Nat]

(* check_facet_stream: a stream is one complete reciprocal chain, with one    *)
(* terminal, which its head registers.  The deferred triggers of the tables   *)
(* would refuse the COMMIT of anything else.                                  *)
OneLine ==
  \A s \in Streams :
    /\ head[s] = Len(rows[s])
    /\ \A i \in 1..Len(rows[s]) :
         /\ rows[s][i].supersedes = i - 1
         /\ rows[s][i].supersededBy = (IF i = Len(rows[s]) THEN 0 ELSE i + 1)

(* Nothing is classified blindly: each event replaced the very head, and saw  *)
(* the very version, that the command of its receipt displayed, also when it  *)
(* was one of the selections of a composite discard.  Two tabs showing the    *)
(* same head cannot both write.                                               *)
AuthorSaw ==
  \A s \in Streams : \A i \in 1..Len(rows[s]) :
    LET e == rows[s][i]
        r == receipts[e.by][e.key]
    IN /\ r # NoReceipt
       /\ r.ws = s.ws /\ r.digest.body.shown = e.seen
       /\ e.supersedes = IF s.facet = r.digest.body.basket
                         THEN r.digest.body.expected
                         ELSE r.digest.body.also[s.facet]

(* A receipt stands for the whole of its command: every stream it named moved *)
(* on from the head displayed to what was asked, unless it was there already. *)
Order(m, r) ==
  [family |-> r.digest.kind, by |-> m, ws |-> r.ws,
   action |-> r.digest.body.action, basket |-> r.digest.body.basket,
   reason |-> r.digest.body.reason, deselect |-> r.digest.body.deselect,
   expected |-> r.digest.body.expected, also |-> r.digest.body.also]
WholeCommand ==
  \A m \in Members, k \in Keys :
    receipts[m][k] # NoReceipt
      /\ receipts[m][k].digest.kind \in {"personal", "workspace"} =>
    LET c == Order(m, receipts[m][k]) IN
    \A s \in Touched(c) :
      LET d == Displayed(c, s)
          want == Wanted(c, s)
      IN \/ d = 0 /\ want.state = "inactive"
         \/ d \in 1..Len(rows[s]) /\ Says(rows[s][d], want)
         \/ /\ d + 1 \in 1..Len(rows[s]) /\ Says(rows[s][d + 1], want)
            /\ rows[s][d + 1].by = m /\ rows[s][d + 1].key = k

(* What a client was answered stays true and is the same for every retry: its *)
(* receipt is of that command in that workspace, holds that event, and the    *)
(* event says what was asked.                                                 *)
AnswersStay ==
  \A p \in Requests : outcome[p] = "ok" =>
    LET c == cmd[p] IN
    /\ Receipt(c) # NoReceipt
    /\ Receipt(c).ws = c.ws /\ Receipt(c).digest \in Accepted(c)
    /\ Receipt(c).event = result[p]
    /\ Receipt(c).digest.kind \in {"personal", "workspace"} =>
         IF result[p] = 0 THEN ~Active(c)
         ELSE /\ result[p] \in 1..Len(rows[Main(c)])
              /\ Says(rows[Main(c)][result[p]], Wanted(c, Main(c)))

(* Commands with one key serialize on its lock, in one workspace or in two,   *)
(* instead of colliding on the receipt's primary key.                         *)
NoCollision ==
  \A p \in Requests : pc[p] = "commit" => Receipt(cmd[p]) = NoReceipt

(* The streams implement the registers of Classification: one command is one  *)
(* change, on the version stored and with rights held at its COMMIT, and it   *)
(* moves the revision of those who see it.                                    *)
Implements == Classified!Spec

(* Every command sent is answered: the locks of two workspaces, of a key and  *)
(* of a city are taken in an order nobody can close into a circle.            *)
Answered == \A p \in Requests : pc[p] = "workspace" ~> outcome[p] # "none"
=============================================================================
