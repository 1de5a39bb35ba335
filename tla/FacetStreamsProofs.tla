------------------------- MODULE FacetStreamsProofs -------------------------
(* The invariants of FacetStreams, for any number of requests, members,       *)
(* workspaces, baskets and keys.                                              *)
(*                                                                            *)
(* What a request has checked stays true to its COMMIT because of the locks   *)
(* it holds (Staged, by Locked): its rights by that of the workspace, which a *)
(* change of rights takes too; the absence of a receipt by that of the key;   *)
(* the version by that of the city; the heads by that of the workspace.       *)
EXTENDS FacetStreams, SequenceTheorems, FiniteSetTheorems, TLAPS

(* What the routes let a client send.                                         *)
Ordered(c) ==
  /\ c.action \in {"select", "deselect"} <=> c.basket # "archive"
  /\ c.deselect # {} => c.action = "discard"
  /\ c.family = "workspace" => c.basket = "archive" /\ c.deselect = {}

Locked(p, q) ==
  p # q =>
    /\ pc[p] \in PastWorkspace /\ pc[q] \in PastWorkspace =>
         cmd[p].ws # cmd[q].ws
    /\ pc[p] \in PastKey /\ pc[q] \in PastKey =>
         ~(cmd[p].by = cmd[q].by /\ cmd[p].key = cmd[q].key)
    /\ ~(pc[p] \in PastCity /\ pc[q] \in PastCity)

Staged(p) ==
  /\ pc[p] # "idle" => cmd[p] \in Commands /\ Ordered(cmd[p])
  /\ pc[p] \in PastWorkspace => Allowed(cmd[p])
  /\ pc[p] \in PastKey =>
       Receipt(cmd[p]) = NoReceipt /\ cmd[p].family # "historical"
  /\ pc[p] \in PastCity => content = cmd[p].shown
  /\ pc[p] = "commit" => ~Conflicting(cmd[p])
  /\ outcome[p] = "none" <=> pc[p] # "done"

Typed ==
  /\ rows \in [Streams -> Seq(Events)]
  /\ head \in [Streams -> Nat]
  /\ receipts \in ReceiptTables
  /\ content \in Contents \cup {Gone}
  /\ source \in [revision: Nat, digest: Contents \cup {Gone, NoDigest}]
  /\ personal \in [Workspaces -> [Members -> Nat]]
  /\ common \in [Workspaces -> Nat]
  /\ rights \in [Workspaces -> [Members -> [role: Roles, revision: Nat]]]
  /\ pc \in [Requests -> Pcs]
  /\ cmd \in [Requests -> Commands \cup {NoCommand}]
  /\ \A p \in Requests : pc[p] = "idle" <=> cmd[p] = NoCommand
  /\ outcome \in [Requests -> Outcomes] /\ result \in [Requests -> Nat]

Core ==
  /\ Typed /\ OneLine
  /\ \A p \in Requests : Staged(p)
  /\ \A p, q \in Requests : Locked(p, q)

-----------------------------------------------------------------------------
(* The streams of a command.                                                  *)
LEMMA StreamOf ==
  ASSUME NEW c \in Commands, Ordered(c)
  PROVE  /\ Main(c) \in Streams /\ Main(c) \in Touched(c)
         /\ \A s \in Touched(c) :
              /\ s \in Streams /\ s.ws = c.ws /\ s.owner = Main(c).owner
              /\ s.facet = c.basket <=> s = Main(c)
              /\ s # Main(c) => s.facet \in c.deselect
<1>1. /\ c.ws \in Workspaces /\ c.by \in Members /\ c.basket \in Facets
      /\ c.deselect \in SUBSET Baskets
      /\ c.family = "workspace" => c.basket = "archive" /\ c.deselect = {}
      /\ c.deselect # {} => c.basket = "archive"
  BY DEF Commands, Ordered, Actions
<1>2. Main(c) \in [ws: Workspaces, owner: Members \cup {Shared}, facet: Facets]
  BY <1>1 DEF Main
<1>3. Main(c) \in Streams
  BY <1>1, <1>2, NamesAssumption DEF Streams, Main, Facets
<1>4. Main(c).ws = c.ws /\ Main(c).facet = c.basket
      /\ (c.deselect # {} => Main(c).owner # Shared)
  BY <1>1, NamesAssumption DEF Main
<1>5. ASSUME NEW b \in c.deselect
      PROVE  LET s == [Main(c) EXCEPT !.facet = b] IN
               /\ s \in Streams /\ s.ws = c.ws /\ s.owner = Main(c).owner
               /\ s.facet = b /\ s.facet # c.basket /\ s # Main(c)
  <2>1. b \in Baskets /\ c.basket = "archive" /\ b # "archive"
    BY <1>1, <1>5, NamesAssumption
  <2> QED BY <1>2, <1>4, <1>5, <2>1 DEF Streams, Facets
<1>6. ASSUME NEW s \in Touched(c)
      PROVE  /\ s \in Streams /\ s.ws = c.ws /\ s.owner = Main(c).owner
             /\ s.facet = c.basket <=> s = Main(c)
             /\ s # Main(c) => s.facet \in c.deselect
  <2>1. CASE s = Main(c)
    BY <1>3, <1>4, <2>1
  <2>2. CASE \E b \in c.deselect : s = [Main(c) EXCEPT !.facet = b]
    <3>1. PICK b \in c.deselect : s = [Main(c) EXCEPT !.facet = b]
      BY <2>2
    <3> HIDE DEF Main
    <3> QED BY <1>5, <3>1
  <2> QED BY <2>1, <2>2 DEF Touched
<1> QED BY <1>3, <1>6 DEF Touched

\* A command appends to streams it touches.
LEMMA AppendedIn ==
  ASSUME NEW c \in Commands, Ordered(c)
  PROVE  Appended(c) \subseteq Touched(c) /\ Appended(c) \subseteq Streams
BY StreamOf DEF Appended

(* What the appends of a command make of one stream.                          *)
LEMMA Appending ==
  ASSUME NEW c \in Commands, Ordered(c), Typed, OneLine, NEW s \in Streams
  PROVE  /\ NewRows(c)[s] \in Seq(Events)
         /\ s \notin Appended(c) => NewRows(c)[s] = rows[s]
         /\ s \in Appended(c) =>
              /\ Len(NewRows(c)[s]) = Len(rows[s]) + 1
              /\ NewRows(c)[s][Len(rows[s]) + 1] = Row(c, s)
              /\ \A i \in 1..Len(rows[s]) :
                   NewRows(c)[s][i] =
                     [rows[s][i] EXCEPT !.supersededBy =
                        IF i = Len(rows[s]) THEN Len(rows[s]) + 1 ELSE @]
<1>1. rows[s] \in Seq(Events) /\ head[s] = Len(rows[s]) /\ Len(rows[s]) \in Nat
  BY DEF Typed, OneLine
<1>2. CASE s \notin Appended(c)
  BY <1>1, <1>2 DEF NewRows
<1>3. CASE s \in Appended(c)
  <2>1. Row(c, s) \in Events
    BY <1>1 DEF Row, Wanted, Events, Commands
  <2>2. /\ Superseded(s) \in Seq(Events) /\ Len(Superseded(s)) = Len(rows[s])
        /\ \A i \in 1..Len(rows[s]) :
             Superseded(s)[i] =
               [rows[s][i] EXCEPT !.supersededBy =
                  IF i = Len(rows[s]) THEN Len(rows[s]) + 1 ELSE @]
    <3>1. CASE Len(rows[s]) = 0
      BY <1>1, <3>1 DEF Superseded
    <3>2. CASE Len(rows[s]) # 0
      <4> DEFINE n == Len(rows[s])
                 e == [rows[s][n] EXCEPT !.supersededBy = n + 1]
      <4>1. n \in 1..Len(rows[s]) /\ rows[s][n] \in Events
        BY <1>1, <3>2, ElementOfSeq
      <4>2. e \in Events
        BY <1>1, <4>1 DEF Events
      <4>3. Superseded(s) = [rows[s] EXCEPT ![n] = e]
        BY <1>1, <3>2 DEF Superseded
      <4>4. Superseded(s) \in Seq(Events) /\ Len(Superseded(s)) = Len(rows[s])
        BY <1>1, <4>1, <4>2, <4>3, ExceptSeq
      <4>5. ASSUME NEW i \in 1..Len(rows[s])
            PROVE  Superseded(s)[i] =
                     [rows[s][i] EXCEPT !.supersededBy =
                        IF i = Len(rows[s]) THEN Len(rows[s]) + 1 ELSE @]
        <5>1. rows[s][i] \in Events
          BY <1>1, ElementOfSeq
        <5>2. Superseded(s)[i] = IF i = n THEN e ELSE rows[s][i]
          BY <1>1, <4>1, <4>2, <4>3, ExceptSeq
        <5> QED BY <5>1, <5>2 DEF Events
      <4> QED BY <4>4, <4>5
    <3> QED BY <3>1, <3>2
  <2>3. NewRows(c)[s] = Append(Superseded(s), Row(c, s))
    BY <1>3 DEF NewRows
  <2> HIDE DEF Row
  <2> QED BY <1>1, <1>3, <2>1, <2>2, <2>3, AppendProperties
<1> QED BY <1>2, <1>3
-----------------------------------------------------------------------------
(* A step that answers, or goes on, and writes nothing.                       *)
Moves(p, at, code, n) ==
  /\ UNCHANGED <<tables, scope, cmd>>
  /\ pc[p] \notin {"idle", "done"}
  /\ at \in Pcs \ {"idle"} /\ code \in Outcomes /\ n \in Nat
  /\ code = "none" <=> at # "done"
  /\ pc' = [pc EXCEPT ![p] = at]
  /\ outcome' = [outcome EXCEPT ![p] = code]
  /\ result' = [result EXCEPT ![p] = n]

(* What a request must have found to be where it goes.                        *)
Ready(p, at) ==
  LET c == cmd[p] IN
  /\ at \in PastWorkspace => Allowed(c) /\ (pc[p] \in PastWorkspace \/ WorkspaceFree(c.ws))
  /\ at \in PastKey => /\ Receipt(c) = NoReceipt /\ c.family # "historical"
                       /\ pc[p] \in PastKey \/ KeyFree(c.by, c.key)
  /\ at \in PastCity => /\ content = c.shown
                        /\ pc[p] \in PastCity \/ CityFree
  /\ at = "commit" => ~Conflicting(c)

\* A request that moves on with what its next statement needs keeps the invariant.
LEMMA MovesKeeps ==
  ASSUME Core, NEW p \in Requests, NEW at, NEW code, NEW n,
         Moves(p, at, code, n), Ready(p, at)
  PROVE  Core'
<1>1. /\ pc' \in [Requests -> Pcs] /\ pc'[p] = at /\ outcome'[p] = code
      /\ outcome' \in [Requests -> Outcomes] /\ result' \in [Requests -> Nat]
      /\ \A q \in Requests \ {p} : pc'[q] = pc[q] /\ outcome'[q] = outcome[q]
      /\ UNCHANGED <<rows, head, receipts, content, source, personal, common,
                     rights, cmd>>
      /\ pc[p] # "idle" /\ pc'[p] # "idle"
  BY DEF Moves, Core, Typed, tables, scope
<1>2. Typed' /\ OneLine'
  BY <1>1 DEF Core, Typed, OneLine, Streams, Events, ReceiptTables, Receipts,
              Digests, Bodies, Commands, Roles, Classified!Roles
<1>3. ASSUME NEW q \in Requests PROVE Staged(q)'
  <2>1. /\ Staged(q) /\ Allowed(cmd[q])' = Allowed(cmd[q])
        /\ Receipt(cmd[q])' = Receipt(cmd[q])
        /\ Conflicting(cmd[q])' = Conflicting(cmd[q])
    BY <1>1 DEF Core, Allowed, Receipt, Conflicting, Compared, Touched, Main,
                Displayed
  <2>2. CASE q = p
    BY <1>1, <2>1, <2>2 DEF Staged, Ready, Moves, PastWorkspace, PastKey, PastCity
  <2>3. CASE q # p
    BY <1>1, <2>1, <2>3 DEF Staged
  <2> QED BY <2>2, <2>3
<1>4. ASSUME NEW q \in Requests \ {p} PROVE Locked(p, q)' /\ Locked(q, p)'
  <2>1. Locked(p, q) /\ Locked(q, p)
    BY DEF Core
  <2> QED BY <1>1, <1>4, <2>1
          DEF Locked, Ready, WorkspaceFree, KeyFree, CityFree, PastWorkspace,
              PastKey, PastCity
<1>5. ASSUME NEW q \in Requests, NEW r \in Requests PROVE Locked(q, r)'
  <2>1. CASE q = p \/ r = p
    BY <1>4, <2>1 DEF Locked
  <2>2. CASE q # p /\ r # p
    BY <1>1, <2>2 DEF Core, Locked
  <2> QED BY <2>1, <2>2
<1> QED BY <1>2, <1>3, <1>5 DEF Core

\* Going on is such a move.
LEMMA GotoMoves ==
  ASSUME Core, NEW p \in Requests, NEW at \in Pcs \ {"idle", "done"},
         pc[p] \notin {"idle", "done"}, Goto(p, at)
  PROVE  Moves(p, at, "none", result[p])
<1>1. /\ outcome' = [outcome EXCEPT ![p] = "none"]
      /\ result' = [result EXCEPT ![p] = result[p]]
      /\ result[p] \in Nat
  BY DEF Core, Typed, Staged, Goto
<1> QED BY <1>1 DEF Moves, Goto, Outcomes

\* So is an answer.
LEMMA AnswerMoves ==
  ASSUME NEW p \in Requests, NEW code \in Outcomes \ {"none"}, NEW n \in Nat,
         pc[p] \notin {"idle", "done"}, Answer(p, code, n), UNCHANGED tables
  PROVE  Moves(p, "done", code, n) /\ Ready(p, "done")
BY DEF Moves, Answer, Pcs, Ready, PastWorkspace, PastKey, PastCity

\* So is a refusal.
LEMMA RefuseMoves ==
  ASSUME NEW p \in Requests, NEW code \in Refusals,
         pc[p] \notin {"idle", "done"}, Refuse(p, code)
  PROVE  Moves(p, "done", code, 0) /\ Ready(p, "done") /\ code # "ok"
<1>1. code \in Outcomes \ {"none"} /\ code # "ok"
  BY DEF Refusals, Outcomes
<1> QED BY <1>1, AnswerMoves DEF Refuse

(* The steps of a request but for its COMMIT: it goes on, is refused, or is   *)
(* answered what its receipt holds.                                           *)
Replayed(p) ==
  LET c == cmd[p] IN
  /\ pc[p] = "key" /\ Receipt(c) # NoReceipt
  /\ Receipt(c).ws = c.ws /\ Receipt(c).digest \in Accepted(c)
Outcome(p) ==
  \E at, code, n :
    /\ Moves(p, at, code, n) /\ Ready(p, at)
    /\ code = "ok" => Replayed(p) /\ n = Receipt(cmd[p]).event

\* A refusal is an outcome of a statement.
LEMMA Refused ==
  ASSUME NEW p \in Requests, NEW code \in Refusals,
         pc[p] \notin {"idle", "done"}, Refuse(p, code)
  PROVE  Outcome(p)
BY RefuseMoves DEF Outcome

\* Going on with what the next statement needs is one.
LEMMA WentOn ==
  ASSUME Core, NEW p \in Requests, NEW at \in Pcs \ {"idle", "done"},
         pc[p] \notin {"idle", "done"}, Goto(p, at), Ready(p, at)
  PROVE  Outcome(p)
BY GotoMoves DEF Outcome

\* Each statement that writes nothing has such an outcome.
LEMMA Outcomes1 ==
  ASSUME Core, NEW p \in Requests,
         \/ LockWorkspace(p) \/ LockKey(p) \/ LockCity(p) \/ Compare(p)
         \/ Abort(p) \/ (Commit(p) /\ Receipt(cmd[p]) # NoReceipt)
  PROVE  Outcome(p)
<1>0. Staged(p)
  BY DEF Core
<1>1. CASE LockWorkspace(p)
  <2>1. CASE Allowed(cmd[p]) /\ Goto(p, "key")
    <3>1. Ready(p, "key")
      BY <1>1, <2>1 DEF LockWorkspace, Ready, PastWorkspace, PastKey, PastCity
    <3> QED BY <1>1, <2>1, <3>1, WentOn DEF LockWorkspace, Pcs
  <2>2. CASE \E code \in Refusals : Refuse(p, code)
    BY <1>1, <2>2, Refused DEF LockWorkspace
  <2> QED BY <1>1, <2>1, <2>2 DEF LockWorkspace, Refusals
<1>2. CASE LockKey(p)
  <2>1. CASE /\ Receipt(cmd[p]) = NoReceipt /\ cmd[p].family # "historical"
             /\ Goto(p, "city")
    <3>1. Ready(p, "city")
      BY <1>0, <1>2, <2>1
         DEF LockKey, Ready, Staged, PastWorkspace, PastKey, PastCity
    <3> QED BY <1>2, <2>1, <3>1, WentOn DEF LockKey, Pcs
  <2>2. CASE \E code \in Refusals : Refuse(p, code)
    BY <1>2, <2>2, Refused DEF LockKey
  <2>3. CASE /\ Receipt(cmd[p]) # NoReceipt /\ ~Foreign(cmd[p])
             /\ Answer(p, "ok", Receipt(cmd[p]).event) /\ UNCHANGED tables
    <3>1. cmd[p] \in Commands
      BY <1>0, <1>2 DEF LockKey, Staged
    <3>2. Receipt(cmd[p]).event \in Nat
      BY <2>3, <3>1
         DEF Receipt, Core, Typed, ReceiptTables, Receipts, Commands
    <3>3. Moves(p, "done", "ok", Receipt(cmd[p]).event) /\ Ready(p, "done")
      BY <1>2, <2>3, <3>2, AnswerMoves DEF LockKey, Outcomes, Refusals
    <3> QED BY <1>2, <2>3, <3>3 DEF Outcome, Replayed, Foreign, LockKey
  <2> QED BY <1>2, <2>1, <2>2, <2>3 DEF LockKey, Refusals
<1>3. CASE LockCity(p)
  <2>1. CASE content = cmd[p].shown /\ Goto(p, "compare")
    <3>1. Ready(p, "compare")
      BY <1>0, <1>3, <2>1
         DEF LockCity, Ready, Staged, PastWorkspace, PastKey, PastCity
    <3> QED BY <1>3, <2>1, <3>1, WentOn DEF LockCity, Pcs
  <2>2. CASE \E code \in Refusals : Refuse(p, code)
    BY <1>3, <2>2, Refused DEF LockCity
  <2> QED BY <1>3, <2>1, <2>2 DEF LockCity, Refusals
<1>4. CASE Compare(p)
  <2>1. CASE ~Conflicting(cmd[p]) /\ Goto(p, "commit")
    <3>1. Ready(p, "commit")
      BY <1>0, <1>4, <2>1
         DEF Compare, Ready, Staged, PastWorkspace, PastKey, PastCity
    <3> QED BY <1>4, <2>1, <3>1, WentOn DEF Compare, Pcs
  <2>2. CASE \E code \in Refusals : Refuse(p, code)
    BY <1>4, <2>2, Refused DEF Compare
  <2> QED BY <1>4, <2>1, <2>2 DEF Compare, Refusals
<1>5. CASE Abort(p)
  BY <1>5, Refused DEF Abort, PastWorkspace, Refusals
<1>6. CASE Commit(p) /\ Receipt(cmd[p]) # NoReceipt
  BY <1>6, Refused DEF Commit, Refusals
<1> QED BY <1>1, <1>2, <1>3, <1>4, <1>5, <1>6
-----------------------------------------------------------------------------
(* The COMMIT that writes.                                                    *)
Writes(p) == Commit(p) /\ Receipt(cmd[p]) = NoReceipt

(* What the registers, the receipt and the revisions become at that COMMIT.   *)
LEMMA Writing ==
  ASSUME Core, NEW p \in Requests, Writes(p), NEW c, c = cmd[p]
  PROVE  /\ c \in Commands /\ Ordered(c) /\ pc[p] = "commit"
         /\ Allowed(c) /\ content = c.shown /\ ~Conflicting(c)
         /\ receipts[c.by][c.key] = NoReceipt
         /\ c.family \in {"personal", "workspace"}
         /\ rows' = NewRows(c) /\ head' = NewHead(c)
         /\ receipts' = [receipts EXCEPT ![c.by][c.key] =
              [digest |-> Digest(c.family, c.ws, c), ws |-> c.ws,
               event |-> NewHead(c)[Main(c)]]]
         /\ personal' = IF Moved(c) /\ c.family = "personal"
                        THEN [personal EXCEPT ![c.ws][c.by] = @ + 1]
                        ELSE personal
         /\ common' = IF Moved(c) /\ c.family = "workspace"
                      THEN [common EXCEPT ![c.ws] = @ + 1] ELSE common
         /\ pc' = [pc EXCEPT ![p] = "done"]
         /\ outcome' = [outcome EXCEPT ![p] = "ok"]
         /\ result' = [result EXCEPT ![p] = NewHead(c)[Main(c)]]
         /\ UNCHANGED <<content, source, rights, cmd>>
<1>1. Staged(p) /\ pc[p] = "commit"
  BY DEF Core, Writes, Commit
<1>2. /\ c \in Commands /\ Ordered(c) /\ Allowed(c) /\ content = c.shown
      /\ ~Conflicting(c) /\ c.family # "historical"
  BY <1>1 DEF Staged, PastWorkspace, PastKey, PastCity
<1>3. c.family \in {"personal", "workspace"}
  BY <1>2 DEF Commands, Families
<1>4. OwnDigest(c) = Digest(c.family, c.ws, c)
  BY <1>2 DEF OwnDigest
<1> QED BY <1>1, <1>2, <1>3, <1>4 DEF Writes, Commit, Receipt

\* A COMMIT that appends keeps the invariant.
LEMMA WritesKeeps ==
  ASSUME Core, NEW p \in Requests, Writes(p)
  PROVE  Core'
<1> DEFINE c == cmd[p]
<1>1. /\ c \in Commands /\ Ordered(c) /\ pc[p] = "commit"
      /\ receipts[c.by][c.key] = NoReceipt
      /\ c.family \in {"personal", "workspace"}
      /\ rows' = NewRows(c) /\ head' = NewHead(c)
      /\ receipts' = [receipts EXCEPT ![c.by][c.key] =
           [digest |-> Digest(c.family, c.ws, c), ws |-> c.ws,
            event |-> NewHead(c)[Main(c)]]]
      /\ personal' = IF Moved(c) /\ c.family = "personal"
                     THEN [personal EXCEPT ![c.ws][c.by] = @ + 1]
                     ELSE personal
      /\ common' = IF Moved(c) /\ c.family = "workspace"
                   THEN [common EXCEPT ![c.ws] = @ + 1] ELSE common
      /\ pc' = [pc EXCEPT ![p] = "done"]
      /\ outcome' = [outcome EXCEPT ![p] = "ok"]
      /\ result' = [result EXCEPT ![p] = NewHead(c)[Main(c)]]
      /\ UNCHANGED <<content, source, rights, cmd>>
  BY Writing
<1>2. /\ c.by \in Members /\ c.key \in Keys /\ c.ws \in Workspaces
      /\ Main(c) \in Streams
  BY <1>1, StreamOf DEF Commands
<1>3. Typed /\ OneLine
  BY DEF Core
<1>4. /\ rows' \in [Streams -> Seq(Events)]
      /\ head' \in [Streams -> Nat] /\ OneLine'
  <2>1. ASSUME NEW s \in Streams
        PROVE  /\ rows'[s] \in Seq(Events) /\ head'[s] \in Nat
               /\ head'[s] = Len(rows'[s])
               /\ \A i \in 1..Len(rows'[s]) :
                    /\ rows'[s][i].supersedes = i - 1
                    /\ rows'[s][i].supersededBy =
                         (IF i = Len(rows'[s]) THEN 0 ELSE i + 1)
    <3>1. /\ rows'[s] = NewRows(c)[s]
          /\ head'[s] = IF s \in Appended(c) THEN Len(rows[s]) + 1 ELSE head[s]
          /\ rows[s] \in Seq(Events) /\ Len(rows[s]) \in Nat
          /\ head[s] = Len(rows[s])
      BY <1>1, <1>3 DEF NewHead, Typed, OneLine
    <3>2. CASE s \notin Appended(c)
      BY <1>1, <1>3, <3>1, <3>2, Appending DEF OneLine
    <3>3. CASE s \in Appended(c)
      <4>1. /\ Len(rows'[s]) = Len(rows[s]) + 1 /\ rows'[s] \in Seq(Events)
            /\ rows'[s][Len(rows[s]) + 1] = Row(c, s)
            /\ \A i \in 1..Len(rows[s]) :
                 rows'[s][i] =
                   [rows[s][i] EXCEPT !.supersededBy =
                      IF i = Len(rows[s]) THEN Len(rows[s]) + 1 ELSE @]
        BY <1>1, <1>3, <3>1, <3>3, Appending
      <4>2. ASSUME NEW i \in 1..Len(rows'[s])
            PROVE  /\ rows'[s][i].supersedes = i - 1
                   /\ rows'[s][i].supersededBy =
                        (IF i = Len(rows'[s]) THEN 0 ELSE i + 1)
        <5>1. CASE i = Len(rows[s]) + 1
          BY <3>1, <4>1, <5>1 DEF Row
        <5>2. CASE i \in 1..Len(rows[s])
          <6>1. /\ rows[s][i] \in Events /\ rows[s][i].supersedes = i - 1
                /\ rows[s][i].supersededBy =
                     (IF i = Len(rows[s]) THEN 0 ELSE i + 1)
            BY <1>3, <3>1, <5>2, ElementOfSeq DEF OneLine
          <6>2. rows'[s][i] = [rows[s][i] EXCEPT !.supersededBy =
                                 IF i = Len(rows[s]) THEN Len(rows[s]) + 1 ELSE @]
            BY <4>1, <5>2
          <6>3. /\ rows'[s][i].supersedes = rows[s][i].supersedes
                /\ rows'[s][i].supersededBy =
                     IF i = Len(rows[s]) THEN Len(rows[s]) + 1
                     ELSE rows[s][i].supersededBy
            BY <6>1, <6>2 DEF Events
          <6>4. i # Len(rows'[s]) /\ Len(rows[s]) \in Nat
            BY <3>1, <4>1, <5>2
          <6> QED BY <5>2, <6>1, <6>3, <6>4
        <5> QED BY <3>1, <4>1, <5>1, <5>2
      <4> QED BY <3>1, <3>3, <4>1, <4>2
    <3> QED BY <3>2, <3>3
  <2>2. rows' = [s \in Streams |-> rows'[s]] /\ head' = [s \in Streams |-> head'[s]]
    BY <1>1 DEF NewRows, NewHead
  <2> HIDE DEF c
  <2>3. rows' \in [Streams -> Seq(Events)] /\ head' \in [Streams -> Nat]
    BY <2>1, <2>2
  <2> QED BY <2>1, <2>3 DEF OneLine, Streams
<1>5. Typed'
  <2>1. receipts' \in ReceiptTables
    <3>1. head'[Main(c)] \in Nat
      BY <1>2, <1>4
    <3>2. Body(c) \in Bodies
      BY <1>1 DEF Body, Bodies, Commands
    <3>3. [digest |-> Digest(c.family, c.ws, c), ws |-> c.ws,
           event |-> NewHead(c)[Main(c)]] \in Receipts
      BY <1>1, <1>2, <3>1, <3>2 DEF Receipts, Digests, Digest, Families
    <3> QED BY <1>1, <1>2, <1>3, <3>3 DEF Typed, ReceiptTables
  <2>2. personal' \in [Workspaces -> [Members -> Nat]] /\ common' \in [Workspaces -> Nat]
    <3>1. /\ personal \in [Workspaces -> [Members -> Nat]]
          /\ common \in [Workspaces -> Nat]
      BY <1>3 DEF Typed
    <3> HIDE DEF c
    <3>2. /\ [personal EXCEPT ![c.ws][c.by] = @ + 1] \in
               [Workspaces -> [Members -> Nat]]
          /\ [common EXCEPT ![c.ws] = @ + 1] \in [Workspaces -> Nat]
      BY <1>2, <3>1
    <3> QED BY <1>1, <3>1, <3>2
  <2>3. result' \in [Requests -> Nat] /\ outcome' \in [Requests -> Outcomes]
        /\ pc' \in [Requests -> Pcs]
    BY <1>1, <1>2, <1>3, <1>4 DEF Typed, Outcomes, Pcs
  <2>4. \A q \in Requests : pc'[q] = "idle" <=> cmd'[q] = NoCommand
    BY <1>1, <1>3 DEF Typed
  <2>5. /\ content' \in Contents \cup {Gone}
        /\ source' \in [revision: Nat, digest: Contents \cup {Gone, NoDigest}]
        /\ rights' \in [Workspaces -> [Members -> [role: Roles, revision: Nat]]]
        /\ cmd' \in [Requests -> Commands \cup {NoCommand}]
    BY <1>1, <1>3 DEF Typed
  <2> QED BY <1>4, <2>1, <2>2, <2>3, <2>4, <2>5
          DEF Typed, Streams, Events, ReceiptTables, Receipts, Digests, Bodies,
              Commands, Roles, Classified!Roles
<1>6. /\ \A q \in Requests \ {p} : pc'[q] = pc[q] /\ outcome'[q] = outcome[q]
      /\ pc'[p] = "done" /\ outcome'[p] = "ok" /\ cmd' = cmd
  BY <1>1, <1>3 DEF Typed
<1>7. ASSUME NEW q \in Requests PROVE Staged(q)'
  <2>1. Staged(q) /\ Allowed(cmd[q])' = Allowed(cmd[q])
    BY <1>1 DEF Core, Allowed
  <2>2. CASE q = p
    BY <1>1, <1>6, <2>1, <2>2 DEF Staged, PastWorkspace, PastKey, PastCity
  <2>3. CASE q # p
    <3>1. Locked(p, q)
      BY DEF Core
    <3>2. pc[q] \notin PastCity
      BY <1>1, <2>3, <3>1 DEF Locked, PastWorkspace, PastKey, PastCity
    <3>3. pc[q] \in PastKey => Receipt(cmd[q])' = Receipt(cmd[q])
      <4>1. ASSUME pc[q] \in PastKey
            PROVE  receipts'[cmd[q].by][cmd[q].key] = receipts[cmd[q].by][cmd[q].key]
        <5>1. ~(c.by = cmd[q].by /\ c.key = cmd[q].key)
          BY <1>1, <2>3, <3>1, <4>1
             DEF Locked, PastWorkspace, PastKey, PastCity
        <5>2. cmd[q].by \in Members /\ cmd[q].key \in Keys
          BY <2>1, <4>1 DEF Staged, Commands, PastKey, PastWorkspace
        <5> HIDE DEF c
        <5> QED BY <1>1, <1>2, <1>3, <5>1, <5>2 DEF Typed, ReceiptTables
      <4> QED BY <1>6, <4>1 DEF Receipt
    <3> QED BY <1>1, <1>6, <2>1, <2>3, <3>2, <3>3 DEF Staged, PastCity,
            PastKey, PastWorkspace
  <2> QED BY <2>2, <2>3
<1>8. ASSUME NEW q \in Requests, NEW r \in Requests PROVE Locked(q, r)'
  <2>1. Locked(q, r)
    BY DEF Core
  <2> QED BY <1>6, <2>1 DEF Locked, PastWorkspace, PastKey, PastCity
<1> QED BY <1>4, <1>5, <1>7, <1>8 DEF Core

\* A request that arrives keeps it.
LEMMA SendKeeps ==
  ASSUME Core, NEW p \in Requests, Send(p)
  PROVE  Core'
<1>1. /\ pc[p] = "idle" /\ pc' = [pc EXCEPT ![p] = "workspace"]
      /\ UNCHANGED <<rows, head, receipts, content, source, personal, common,
                     rights, outcome, result>>
  BY DEF Send, tables, scope
<1>2. PICK o \in Orders, shown \in Contents :
        \E expected \in 0..Len(rows[Main(o)]),
           also \in [Baskets -> 0..Cardinality(Requests)] :
          cmd' = [cmd EXCEPT ![p] =
            [family |-> o.family, by |-> o.by, ws |-> o.ws, key |-> o.key,
             action |-> o.action, basket |-> o.basket, reason |-> o.reason,
             deselect |-> o.deselect, expected |-> expected, also |-> also,
             shown |-> shown]]
  BY DEF Send
<1>3. PICK expected \in 0..Len(rows[Main(o)]),
           also \in [Baskets -> 0..Cardinality(Requests)] :
          cmd' = [cmd EXCEPT ![p] =
            [family |-> o.family, by |-> o.by, ws |-> o.ws, key |-> o.key,
             action |-> o.action, basket |-> o.basket, reason |-> o.reason,
             deselect |-> o.deselect, expected |-> expected, also |-> also,
             shown |-> shown]]
  BY <1>2
<1> DEFINE Sent(n, f) ==
      [family |-> o.family, by |-> o.by, ws |-> o.ws, key |-> o.key,
       action |-> o.action, basket |-> o.basket, reason |-> o.reason,
       deselect |-> o.deselect, expected |-> n, also |-> f, shown |-> shown]
<1>4. ASSUME NEW n \in Nat, NEW f \in Expectations
      PROVE  Sent(n, f) \in Commands /\ Ordered(Sent(n, f))
  BY OrdersAssumption DEF Commands, Ordered
<1>5. expected \in Nat
  <2> DEFINE blank == Sent(0, [b \in Baskets |-> 0])
  <2>1. blank \in Commands /\ Ordered(blank)
    BY <1>4 DEF Expectations
  <2>2. Main(blank) \in Streams
    BY <2>1, StreamOf
  <2>3. Main(blank) = Main(o)
    BY DEF Main
  <2> QED BY <2>2, <2>3 DEF Core, Typed
<1>6. also \in Expectations
  <2>1. Cardinality(Requests) \in Nat
    BY NamesAssumption, FS_CardinalityType
  <2> QED BY <2>1 DEF Expectations
<1> DEFINE c == Sent(expected, also)
<1>7. c \in Commands /\ Ordered(c) /\ c # NoCommand
  BY <1>4, <1>5, <1>6, NamesAssumption
<1> HIDE DEF c, Sent
<1>8. cmd' = [cmd EXCEPT ![p] = c]
  BY <1>3 DEF c, Sent
<1>9. /\ cmd'[p] = c /\ pc'[p] = "workspace"
      /\ \A q \in Requests \ {p} : pc'[q] = pc[q] /\ cmd'[q] = cmd[q]
      /\ pc' \in [Requests -> Pcs]
      /\ cmd' \in [Requests -> Commands \cup {NoCommand}]
  BY <1>1, <1>7, <1>8 DEF Core, Typed, Pcs
<1>10. Typed' /\ OneLine'
  <2>1. \A q \in Requests : pc'[q] = "idle" <=> cmd'[q] = NoCommand
    BY <1>1, <1>7, <1>9 DEF Core, Typed
  <2>2. OneLine'
    BY <1>1 DEF Core, OneLine, Streams
  <2>3. /\ cmd' \in [Requests -> (Commands \cup {NoCommand})']
        /\ pc' \in [Requests -> Pcs]
    BY <1>9 DEF Commands, Expectations
  <2> QED BY <1>1, <2>1, <2>2, <2>3
      DEF Core, Typed, Streams, Events, ReceiptTables, Receipts, Digests,
          Bodies, Roles, Classified!Roles
<1>11. ASSUME NEW q \in Requests PROVE Staged(q)'
  <2>1. Staged(q)
    BY DEF Core
  <2>2. CASE q = p
    BY <1>1, <1>7, <1>9, <2>1, <2>2
       DEF Staged, PastWorkspace, PastKey, PastCity
  <2>3. CASE q # p
    <3>1. pc'[q] = pc[q] /\ cmd'[q] = cmd[q]
      BY <1>9, <2>3
    <3>2. /\ Allowed(cmd[q])' = Allowed(cmd[q])
          /\ Receipt(cmd[q])' = Receipt(cmd[q])
          /\ Conflicting(cmd[q])' = Conflicting(cmd[q])
      BY <1>1, <3>1 DEF Allowed, Receipt, Conflicting, Compared, Touched, Main,
                        Displayed
    <3> QED BY <1>1, <2>1, <3>1, <3>2 DEF Staged
  <2> QED BY <2>2, <2>3
<1>12. ASSUME NEW q \in Requests, NEW r \in Requests PROVE Locked(q, r)'
  <2>1. Locked(q, r)
    BY DEF Core
  <2> QED BY <1>9, <2>1 DEF Locked, PastWorkspace, PastKey, PastCity
<1> QED BY <1>10, <1>11, <1>12 DEF Core

\* A refresh waits for the city lock and keeps it.
LEMMA RefreshKeeps ==
  ASSUME Core, Refresh
  PROVE  Core'
<1>1. PICK c \in Contents \cup {Gone} :
        /\ content' = c /\ source' = Classified!Recorded(c)
        /\ UNCHANGED <<personal, common, rights>>
  BY DEF Refresh, Classified!Refresh
<1>2. /\ \A q \in Requests : pc[q] \notin PastCity
      /\ UNCHANGED <<rows, head, receipts, pc, cmd, outcome, result>>
  BY DEF Refresh, CityFree, tables, request
<1>3. source' \in [revision: Nat, digest: Contents \cup {Gone, NoDigest}]
  BY <1>1 DEF Core, Typed, Classified!Recorded
<1>4. Typed' /\ OneLine'
  BY <1>1, <1>2, <1>3
     DEF Core, Typed, OneLine, Streams, Events, ReceiptTables, Receipts,
         Digests, Bodies, Commands, Roles, Classified!Roles
<1>5. ASSUME NEW q \in Requests PROVE Staged(q)'
  <2>1. /\ Staged(q) /\ pc[q] \notin PastCity /\ pc[q] # "commit"
        /\ Allowed(cmd[q])' = Allowed(cmd[q])
        /\ Receipt(cmd[q])' = Receipt(cmd[q])
    BY <1>1, <1>2 DEF Core, Allowed, Receipt, PastCity, PastKey, PastWorkspace
  <2> QED BY <1>2, <2>1 DEF Staged
<1>6. ASSUME NEW q \in Requests, NEW r \in Requests PROVE Locked(q, r)'
  BY <1>2 DEF Core, Locked
<1> QED BY <1>4, <1>5, <1>6 DEF Core

\* A change of rights waits for the workspace lock and keeps it.
LEMMA GrantKeeps ==
  ASSUME Core, Grant
  PROVE  Core'
<1>1. PICK w \in Workspaces, m \in Members, role \in Roles :
        /\ WorkspaceFree(w)
        /\ rights' = [rights EXCEPT
             ![w][m] = [role |-> role, revision |-> @.revision + 1]]
        /\ UNCHANGED <<content, source, personal, common>>
  BY DEF Grant, Classified!Grant
<1>2. UNCHANGED <<rows, head, receipts, pc, cmd, outcome, result>>
  BY DEF Grant, tables, request
<1>3. rights' \in [Workspaces -> [Members -> [role: Roles, revision: Nat]]]
  BY <1>1 DEF Core, Typed
<1>4. Typed' /\ OneLine'
  BY <1>1, <1>2, <1>3
     DEF Core, Typed, OneLine, Streams, Events, ReceiptTables, Receipts,
         Digests, Bodies, Commands, Roles, Classified!Roles
<1>5. ASSUME NEW q \in Requests PROVE Staged(q)'
  <2>1. /\ Staged(q) /\ Receipt(cmd[q])' = Receipt(cmd[q])
        /\ Conflicting(cmd[q])' = Conflicting(cmd[q])
    BY <1>2 DEF Core, Receipt, Conflicting, Compared, Touched, Main, Displayed
  <2>2. ASSUME pc[q] \in PastWorkspace
        PROVE  Allowed(cmd[q])' = Allowed(cmd[q])
    <3>1. cmd[q].ws # w /\ cmd[q].ws \in Workspaces /\ cmd[q].by \in Members
      BY <1>1, <2>1, <2>2 DEF WorkspaceFree, Staged, Commands, PastWorkspace
    <3>2. rights'[cmd[q].ws] = rights[cmd[q].ws]
      BY <1>1, <3>1 DEF Core, Typed
    <3> QED BY <1>2, <3>2 DEF Allowed
  <2> QED BY <1>1, <1>2, <2>1, <2>2 DEF Staged
<1>6. ASSUME NEW q \in Requests, NEW r \in Requests PROVE Locked(q, r)'
  BY <1>2 DEF Core, Locked
<1> QED BY <1>4, <1>5, <1>6 DEF Core
-----------------------------------------------------------------------------
\* The initial states satisfy the invariant.
LEMMA InitCore == Init => Core
<1> SUFFICES ASSUME Init PROVE Core
  OBVIOUS
<1>1. /\ rows = [s \in Streams |-> <<>>] /\ head = [s \in Streams |-> 0]
      /\ receipts \in ReceiptTables
      /\ pc = [q \in Requests |-> "idle"]
      /\ cmd = [q \in Requests |-> NoCommand]
      /\ outcome = [q \in Requests |-> "none"]
      /\ result = [q \in Requests |-> 0]
  BY OldAssumption DEF Init
<1>2. /\ content \in Contents
      /\ source \in [revision: Nat, digest: Contents \cup {Gone, NoDigest}]
      /\ personal \in [Workspaces -> [Members -> Nat]]
      /\ common \in [Workspaces -> Nat]
      /\ rights \in [Workspaces -> [Members -> [role: Roles, revision: Nat]]]
  BY DEF Init, Classified!Init, Roles
<1>3. Typed
  BY <1>1, <1>2 DEF Typed, Pcs, Outcomes
<1>4. OneLine
  BY <1>1 DEF OneLine
<1>5. ASSUME NEW q \in Requests PROVE Staged(q)
  BY <1>1 DEF Staged, PastWorkspace, PastKey, PastCity
<1>6. ASSUME NEW q \in Requests, NEW r \in Requests PROVE Locked(q, r)
  BY <1>1 DEF Locked, PastWorkspace, PastKey, PastCity
<1> QED BY <1>3, <1>4, <1>5, <1>6 DEF Core

(* Every step of the specification is one of those above.                     *)
LEMMA Steps ==
  ASSUME Core, [Next]_vars
  PROVE  \/ \E p \in Requests : Send(p) \/ Outcome(p) \/ Writes(p)
         \/ Refresh \/ Grant \/ UNCHANGED vars
<1>1. CASE \E p \in Requests : Send(p) \/ Advance(p) \/ Abort(p)
  <2>1. PICK p \in Requests : Send(p) \/ Advance(p) \/ Abort(p)
    BY <1>1
  <2>2. Send(p) \/ Writes(p) \/ Outcome(p)
    BY <2>1, Outcomes1 DEF Advance, Writes
  <2> QED BY <2>2
<1> QED BY <1>1 DEF Next

\* Every step keeps it.
LEMMA StepCore == Core /\ [Next]_vars => Core'
<1> SUFFICES ASSUME Core, [Next]_vars PROVE Core'
  OBVIOUS
<1>1. CASE \E p \in Requests : Send(p)
  BY <1>1, SendKeeps
<1>2. CASE \E p \in Requests : Outcome(p)
  BY <1>2, MovesKeeps DEF Outcome
<1>3. CASE \E p \in Requests : Writes(p)
  BY <1>3, WritesKeeps
<1>4. CASE Refresh
  BY <1>4, RefreshKeeps
<1>5. CASE Grant
  BY <1>5, GrantKeeps
<1>6. CASE UNCHANGED vars
  <2>1. UNCHANGED <<rows, head, receipts, content, source, personal, common,
                    rights, pc, cmd, outcome, result>>
    BY <1>6 DEF vars, tables, scope, request
  <2>2. Typed' /\ OneLine'
    BY <2>1
       DEF Core, Typed, OneLine, Streams, Events, ReceiptTables, Receipts,
           Digests, Bodies, Commands, Roles, Classified!Roles
  <2>3. ASSUME NEW q \in Requests PROVE Staged(q)'
    <3>1. /\ Staged(q) /\ Allowed(cmd[q])' = Allowed(cmd[q])
          /\ Receipt(cmd[q])' = Receipt(cmd[q])
          /\ Conflicting(cmd[q])' = Conflicting(cmd[q])
      BY <2>1 DEF Core, Allowed, Receipt, Conflicting, Compared, Touched, Main,
                  Displayed
    <3> QED BY <2>1, <3>1 DEF Staged
  <2>4. ASSUME NEW q \in Requests, NEW r \in Requests PROVE Locked(q, r)'
    BY <2>1 DEF Core, Locked
  <2> QED BY <2>2, <2>3, <2>4 DEF Core
<1> QED BY <1>1, <1>2, <1>3, <1>4, <1>5, <1>6, Steps

(* Core is an inductive invariant: the types, the chains, what each request   *)
(* has found and the exclusion of its locks, which need one another.          *)
THEOREM CoreTheorem == Spec => []Core
BY InitCore, StepCore, PTL DEF Spec

(* The registers the streams implement are typed.                             *)
LEMMA CurrentTyped ==
  ASSUME Core
  PROVE  [s \in Streams |-> Current(s)] \in
           [Classified!Streams -> Classified!Entries \cup {NoEntry}]
<1>1. Streams = Classified!Streams
  BY DEF Streams, Classified!Streams
<1>2. ASSUME NEW s \in Streams
      PROVE  Current(s) \in Classified!Entries \cup {NoEntry}
  <2>1. rows[s] \in Seq(Events) /\ head[s] = Len(rows[s]) /\ Len(rows[s]) \in Nat
    BY DEF Core, Typed, OneLine
  <2>2. CASE head[s] = 0
    BY <2>2 DEF Current
  <2>3. CASE head[s] # 0
    <3>1. rows[s][head[s]] \in Events
      BY <2>1, <2>3, ElementOfSeq
    <3> QED BY <2>3, <3>1 DEF Current, Events, Classified!Entries
  <2> QED BY <2>2, <2>3
<1> QED BY <1>1, <1>2

(* Rows, heads, receipts and answers always have their types.                 *)
THEOREM TypeTheorem == Spec => []TypeOK
<1>1. Core => TypeOK
  <2> SUFFICES ASSUME Core PROVE TypeOK
    OBVIOUS
  <2>1. Classified!FactsOK
    BY CurrentTyped DEF Core, Typed, Classified!FactsOK, Roles
  <2>2. \A s \in Streams : head[s] <= Len(rows[s])
    BY DEF Core, Typed, OneLine
  <2> QED BY <2>1, <2>2 DEF Core, Typed, TypeOK
<1> QED BY <1>1, CoreTheorem, PTL

(* check_facet_stream accepts every COMMIT: each stream is one reciprocal     *)
(* chain and its head is the terminal.                                        *)
THEOREM OneLineTheorem == Spec => []OneLine
<1>1. Core => OneLine
  BY DEF Core
<1> QED BY <1>1, CoreTheorem, PTL

(* No COMMIT finds a receipt with its key.                                    *)
THEOREM NoCollisionTheorem == Spec => []NoCollision
<1>1. Core => NoCollision
  BY DEF Core, Staged, NoCollision, PastKey, PastWorkspace
<1> QED BY <1>1, CoreTheorem, PTL
------------------------------------------------------------------------------
(* What the facets of FacetStreams promise over time, for any number of       *)
(* requests, members, workspaces, baskets and keys: what an event says of its *)
(* author, what a receipt says of the streams, what an answer is worth, and   *)
(* that the streams implement the registers of Classification.                *)
(*                                                                            *)
(* Rows are only appended, but for the mark that one is superseded, and a     *)
(* receipt is written once (Grows): what is true of them when they are        *)
(* written, because of Core, stays true.                                      *)

Kept(e, f) ==
  /\ f.state = e.state /\ f.reason = e.reason /\ f.seen = e.seen
  /\ f.by = e.by /\ f.key = e.key /\ f.supersedes = e.supersedes
Grows ==
  /\ \A m \in Members, k \in Keys :
       receipts[m][k] # NoReceipt => receipts'[m][k] = receipts[m][k]
  /\ \A s \in Streams :
       /\ Len(rows[s]) \in Nat /\ Len(rows'[s]) \in Nat
       /\ Len(rows[s]) <= Len(rows'[s])
       /\ \A i \in 1..Len(rows[s]) : Kept(rows[s][i], rows'[s][i])

(* A receipt of the commands of today: its event is of the main stream and    *)
(* says what was asked, or there is none because nothing had to be left.      *)
Stands(c, m, k, at) ==
  /\ IF at = 0 THEN ~Active(c)
     ELSE at \in 1..Len(rows[Main(c)])
          /\ Says(rows[Main(c)][at], Wanted(c, Main(c)))
  /\ \A s \in Touched(c) :
       /\ s \in Streams
       /\ \/ Displayed(c, s) = 0 /\ Wanted(c, s).state = "inactive"
          \/ /\ Displayed(c, s) \in 1..Len(rows[s])
             /\ Says(rows[s][Displayed(c, s)], Wanted(c, s))
          \/ /\ Displayed(c, s) + 1 \in 1..Len(rows[s])
             /\ Says(rows[s][Displayed(c, s) + 1], Wanted(c, s))
             /\ rows[s][Displayed(c, s) + 1].by = m
             /\ rows[s][Displayed(c, s) + 1].key = k
OfToday(r) == r # NoReceipt /\ r.digest.kind \in {"personal", "workspace"}
ReceiptsStand ==
  \A m \in Members, k \in Keys : OfToday(receipts[m][k]) =>
    Stands(Order(m, receipts[m][k]), m, k, receipts[m][k].event)

(* What the client was answered is what its receipt holds.                    *)
Recorded ==
  \A p \in Requests : outcome[p] = "ok" =>
    LET c == cmd[p] IN
    /\ Receipt(c) # NoReceipt
    /\ Receipt(c).ws = c.ws /\ Receipt(c).digest \in Accepted(c)
    /\ Receipt(c).event = result[p]
-----------------------------------------------------------------------------
(* A COMMIT adds to what it finds.                                            *)
LEMMA WritesGrows ==
  ASSUME Core, NEW p \in Requests, Writes(p)
  PROVE  Grows
<1> DEFINE c == cmd[p]
<1>1. /\ c \in Commands /\ Ordered(c) /\ receipts[c.by][c.key] = NoReceipt
      /\ rows' = NewRows(c) /\ Typed /\ OneLine
      /\ receipts' = [receipts EXCEPT ![c.by][c.key] =
           [digest |-> Digest(c.family, c.ws, c), ws |-> c.ws,
            event |-> NewHead(c)[Main(c)]]]
  BY Writing DEF Core
<1> HIDE DEF c
<1>2. ASSUME NEW m \in Members, NEW k \in Keys, receipts[m][k] # NoReceipt
      PROVE  receipts'[m][k] = receipts[m][k]
  BY <1>1, <1>2 DEF Typed, ReceiptTables
<1>3. ASSUME NEW s \in Streams
      PROVE  /\ Len(rows[s]) \in Nat /\ Len(rows'[s]) \in Nat
             /\ Len(rows[s]) <= Len(rows'[s])
             /\ \A i \in 1..Len(rows[s]) : Kept(rows[s][i], rows'[s][i])
  <2>1. rows[s] \in Seq(Events) /\ Len(rows[s]) \in Nat
    BY <1>1 DEF Typed
  <2>2. CASE s \notin Appended(c)
    <3>1. rows'[s] = rows[s]
      BY <1>1, <2>2, Appending
    <3> QED BY <2>1, <3>1 DEF Kept
  <2>3. CASE s \in Appended(c)
    <3>1. /\ Len(rows'[s]) = Len(rows[s]) + 1
          /\ \A i \in 1..Len(rows[s]) :
               rows'[s][i] =
                 [rows[s][i] EXCEPT !.supersededBy =
                    IF i = Len(rows[s]) THEN Len(rows[s]) + 1 ELSE @]
      BY <1>1, <2>3, Appending
    <3>2. ASSUME NEW i \in 1..Len(rows[s])
          PROVE  Kept(rows[s][i], rows'[s][i])
      <4>1. rows[s][i] \in Events
        BY <2>1, ElementOfSeq
      <4>2. rows'[s][i] = [rows[s][i] EXCEPT !.supersededBy =
                             IF i = Len(rows[s]) THEN Len(rows[s]) + 1 ELSE @]
        BY <3>1
      <4> QED BY <4>1, <4>2 DEF Events, Kept
    <3> QED BY <2>1, <3>1, <3>2
  <2> QED BY <2>2, <2>3
<1> QED BY <1>2, <1>3 DEF Grows

\* Rows and receipts left alone have grown.
LEMMA StillGrows ==
  ASSUME Core, UNCHANGED <<rows, receipts>>
  PROVE  Grows
<1>1. \A s \in Streams : Len(rows[s]) \in Nat
  BY DEF Core, Typed
<1> QED BY <1>1 DEF Grows, Kept

\* Every step only adds to rows and receipts.
LEMMA StepGrows ==
  ASSUME Core, [Next]_vars
  PROVE  Grows
<1>1. CASE \E p \in Requests : Writes(p)
  BY <1>1, WritesGrows
<1>2. CASE UNCHANGED <<rows, receipts>>
  BY <1>2, StillGrows
<1>3. (\E p \in Requests : Writes(p)) \/ UNCHANGED <<rows, receipts>>
  BY Steps DEF Send, Outcome, Moves, Refresh, Grant, vars, tables
<1> QED BY <1>1, <1>2, <1>3

(* What is appended for a stream.                                             *)
LEMMA Commits ==
  ASSUME Core, NEW p \in Requests, Writes(p), NEW c, c = cmd[p], NEW s \in Streams
  PROVE  /\ s \notin Appended(c) => rows'[s] = rows[s] /\ head'[s] = head[s]
         /\ s \in Appended(c) =>
              /\ Len(rows'[s]) = Len(rows[s]) + 1
              /\ rows'[s][Len(rows[s]) + 1] = Row(c, s)
              /\ head'[s] = Len(rows[s]) + 1
         /\ s \in Touched(c) => Displayed(c, s) = head[s]
         /\ head[s] = Len(rows[s]) /\ Len(rows[s]) \in Nat
<1>1. /\ c \in Commands /\ Ordered(c) /\ rows' = NewRows(c)
      /\ head' = NewHead(c) /\ ~Conflicting(c) /\ Typed /\ OneLine
  BY Writing DEF Core
<1>2. head[s] = Len(rows[s]) /\ Len(rows[s]) \in Nat
  BY <1>1 DEF Typed, OneLine
<1>3. s \in Touched(c) => Displayed(c, s) = head[s]
  BY <1>1 DEF Conflicting, Compared
<1>4. head'[s] = IF s \in Appended(c) THEN Len(rows[s]) + 1 ELSE head[s]
  BY <1>1 DEF NewHead
<1> QED BY <1>1, <1>2, <1>3, <1>4, Appending
-----------------------------------------------------------------------------
\* What stands of an event or a receipt stands after more of them.
LEMMA StandsStays ==
  ASSUME Grows, NEW c, NEW m, NEW k, NEW at, Stands(c, m, k, at)
  PROVE  Stands(c, m, k, at)'
<1>1. Main(c) \in Touched(c)
  BY DEF Touched
<1>2. ASSUME NEW s \in Streams, NEW i \in 1..Len(rows[s])
      PROVE  i \in 1..Len(rows'[s]) /\ Kept(rows[s][i], rows'[s][i])
  BY DEF Grows
<1>3. Main(c) \in Streams
  BY <1>1 DEF Stands
<1>4. IF at = 0 THEN ~Active(c)
      ELSE at \in 1..Len(rows'[Main(c)])
           /\ Says(rows'[Main(c)][at], Wanted(c, Main(c)))
  BY <1>2, <1>3 DEF Stands, Says, Kept
<1>5. ASSUME NEW s \in Touched(c)
      PROVE  /\ s \in Streams
             /\ \/ Displayed(c, s) = 0 /\ Wanted(c, s).state = "inactive"
                \/ /\ Displayed(c, s) \in 1..Len(rows'[s])
                   /\ Says(rows'[s][Displayed(c, s)], Wanted(c, s))
                \/ /\ Displayed(c, s) + 1 \in 1..Len(rows'[s])
                   /\ Says(rows'[s][Displayed(c, s) + 1], Wanted(c, s))
                   /\ rows'[s][Displayed(c, s) + 1].by = m
                   /\ rows'[s][Displayed(c, s) + 1].key = k
  <2> HIDE DEF Displayed, Wanted
  <2> DEFINE d == Displayed(c, s)
             w == Wanted(c, s)
  <2>1. /\ s \in Streams
        /\ \/ d = 0 /\ w.state = "inactive"
           \/ d \in 1..Len(rows[s]) /\ Says(rows[s][d], w)
           \/ /\ d + 1 \in 1..Len(rows[s]) /\ Says(rows[s][d + 1], w)
              /\ rows[s][d + 1].by = m /\ rows[s][d + 1].key = k
    BY DEF Stands
  <2> QED BY <1>2, <2>1 DEF Says, Kept
<1>6. Streams' = Streams /\ Touched(c)' = Touched(c) /\ Main(c)' = Main(c)
  BY DEF Streams, Touched, Main
<1> QED BY <1>4, <1>5, <1>6 DEF Stands, Displayed, Wanted, Says

(* The order a receipt of today stands for is the command it was written for. *)
LEMMA OrderOf ==
  ASSUME NEW c \in Commands, NEW r,
         r.ws = c.ws, r.digest = Digest(c.family, c.ws, c)
  PROVE  LET o == Order(c.by, r) IN
         /\ Main(o) = Main(c) /\ Touched(o) = Touched(c) /\ Active(o) = Active(c)
         /\ \A s : Wanted(o, s) = Wanted(c, s) /\ Displayed(o, s) = Displayed(c, s)
<1> DEFINE o == Order(c.by, r)
<1>1. /\ o.family = c.family /\ o.by = c.by /\ o.ws = c.ws
      /\ o.action = c.action /\ o.basket = c.basket /\ o.reason = c.reason
      /\ o.deselect = c.deselect /\ o.expected = c.expected /\ o.also = c.also
  BY DEF Order, Digest, Body
<1> HIDE DEF o
<1>2. Main(o) = Main(c)
  BY <1>1 DEF Main
<1> QED BY <1>1, <1>2 DEF Touched, Active, Wanted, Displayed, o

\* A COMMIT that appends leaves its command standing.
LEMMA WrittenStands ==
  ASSUME Core, NEW p \in Requests, Writes(p), NEW c, c = cmd[p],
         NEW at, at = NewHead(c)[Main(c)]
  PROVE  Stands(c, c.by, c.key, at)'
<1>1. /\ c \in Commands /\ Ordered(c) /\ head' = NewHead(c)
  BY Writing
<1>2. /\ Main(c) \in Streams /\ Main(c) \in Touched(c)
      /\ \A s \in Touched(c) : s \in Streams
  BY <1>1, StreamOf
<1>3. ASSUME NEW s \in Touched(c)
      PROVE  /\ s \notin Appended(c) =>
                  /\ rows'[s] = rows[s] /\ head'[s] = head[s]
                  /\ \/ head[s] = 0 /\ Wanted(c, s).state = "inactive"
                     \/ head[s] # 0 /\ Says(rows[s][head[s]], Wanted(c, s))
             /\ s \in Appended(c) =>
                  /\ Len(rows'[s]) = Len(rows[s]) + 1
                  /\ head'[s] = Len(rows[s]) + 1
                  /\ Says(rows'[s][Len(rows[s]) + 1], Wanted(c, s))
                  /\ rows'[s][Len(rows[s]) + 1].by = c.by
                  /\ rows'[s][Len(rows[s]) + 1].key = c.key
             /\ Displayed(c, s) = head[s] /\ head[s] = Len(rows[s])
             /\ Len(rows[s]) \in Nat
  <2>1. s \in Streams
    BY <1>2
  <2>2. Wanted(c, s).state \in {"active", "inactive"}
    BY DEF Wanted
  <2>3. s \notin Appended(c) =>
          \/ head[s] = 0 /\ Wanted(c, s).state = "inactive"
          \/ head[s] # 0 /\ Says(rows[s][head[s]], Wanted(c, s))
    <3> HIDE DEF Wanted, Says
    <3> QED BY <2>2 DEF Appended
  <2>4. /\ Says(Row(c, s), Wanted(c, s)) /\ Row(c, s).by = c.by
        /\ Row(c, s).key = c.key
    BY DEF Says, Row
  <2> QED BY <2>1, <2>3, <2>4, Commits
<1>4. \A s \in Touched(c) :
        \/ Displayed(c, s) = 0 /\ Wanted(c, s).state = "inactive"
        \/ /\ Displayed(c, s) \in 1..Len(rows'[s])
           /\ Says(rows'[s][Displayed(c, s)], Wanted(c, s))
        \/ /\ Displayed(c, s) + 1 \in 1..Len(rows'[s])
           /\ Says(rows'[s][Displayed(c, s) + 1], Wanted(c, s))
           /\ rows'[s][Displayed(c, s) + 1].by = c.by
           /\ rows'[s][Displayed(c, s) + 1].key = c.key
  <2> SUFFICES ASSUME NEW s \in Touched(c)
        PROVE  \/ Displayed(c, s) = 0 /\ Wanted(c, s).state = "inactive"
               \/ /\ Displayed(c, s) \in 1..Len(rows'[s])
                  /\ Says(rows'[s][Displayed(c, s)], Wanted(c, s))
               \/ /\ Displayed(c, s) + 1 \in 1..Len(rows'[s])
                  /\ Says(rows'[s][Displayed(c, s) + 1], Wanted(c, s))
                  /\ rows'[s][Displayed(c, s) + 1].by = c.by
                  /\ rows'[s][Displayed(c, s) + 1].key = c.key
    OBVIOUS
  <2> HIDE DEF Displayed, Wanted, Says
  <2>1. CASE s \in Appended(c)
    BY <1>3, <2>1
  <2>2. CASE s \notin Appended(c)
    BY <1>3, <2>2
  <2> QED BY <2>1, <2>2
<1>5. IF at = 0 THEN ~Active(c)
      ELSE at \in 1..Len(rows'[Main(c)])
           /\ Says(rows'[Main(c)][at], Wanted(c, Main(c)))
  <2>1. Active(c) => Wanted(c, Main(c)).state # "inactive"
    BY DEF Wanted
  <2> HIDE DEF Wanted, Says, Active
  <2>2. at = head'[Main(c)]
    BY <1>1
  <2>3. CASE Main(c) \in Appended(c)
    BY <1>2, <1>3, <2>2, <2>3
  <2>4. CASE Main(c) \notin Appended(c)
    BY <1>2, <1>3, <2>1, <2>2, <2>4
  <2> QED BY <2>3, <2>4
<1>6. Streams' = Streams /\ Touched(c)' = Touched(c) /\ Main(c)' = Main(c)
  BY DEF Streams, Touched, Main
<1> QED BY <1>2, <1>4, <1>5, <1>6 DEF Stands, Displayed, Wanted, Says, Active
-----------------------------------------------------------------------------
(* Receipts stand for their commands.                                         *)
LEMMA InitStands == Init => ReceiptsStand
BY OldAssumption DEF Init, ReceiptsStand, OfToday

\* Every step keeps the receipts standing.
LEMMA StepStands ==
  ASSUME Core, ReceiptsStand, [Next]_vars
  PROVE  ReceiptsStand'
<1>1. ASSUME NEW m \in Members, NEW k \in Keys, OfToday(receipts[m][k]),
             receipts'[m][k] = receipts[m][k]
      PROVE  Stands(Order(m, receipts[m][k]), m, k, receipts[m][k].event)'
  <2>1. PICK r : r = receipts[m][k]
    OBVIOUS
  <2>2. PICK o : o = Order(m, r)
    OBVIOUS
  <2>3. Grows /\ Stands(o, m, k, r.event)
    BY <1>1, <2>1, <2>2, StepGrows DEF ReceiptsStand
  <2>4. Stands(o, m, k, r.event)'
    BY <2>3, StandsStays
  <2>5. r = receipts'[m][k] /\ o = Order(m, r)'
    BY <1>1, <2>1, <2>2 DEF Order
  <2> QED BY <2>4, <2>5
<1>2. CASE UNCHANGED receipts
  BY <1>1, <1>2 DEF ReceiptsStand, OfToday, Order
<1>3. ASSUME NEW p \in Requests, Writes(p) PROVE ReceiptsStand'
  <2>1. PICK c : c = cmd[p]
    OBVIOUS
  <2>2. PICK at : at = NewHead(c)[Main(c)]
    OBVIOUS
  <2>3. PICK r : r = [digest |-> Digest(c.family, c.ws, c), ws |-> c.ws, event |-> at]
    OBVIOUS
  <2>4. /\ c \in Commands /\ Ordered(c)
        /\ receipts' = [receipts EXCEPT ![c.by][c.key] = r]
    <3>1. /\ c \in Commands /\ Ordered(c)
          /\ receipts' = [receipts EXCEPT ![c.by][c.key] =
               [digest |-> Digest(c.family, c.ws, c), ws |-> c.ws,
                event |-> NewHead(c)[Main(c)]]]
      BY <1>3, <2>1, Writing
    <3> QED BY <2>2, <2>3, <3>1, Zenon
  <2>5. c.by \in Members /\ c.key \in Keys /\ receipts \in ReceiptTables
    BY <2>4 DEF Commands, Core, Typed
  <2>6. receipts'[c.by][c.key] = r
    BY <2>4, <2>5 DEF ReceiptTables
  <2>7. Stands(Order(c.by, r), c.by, c.key, r.event)'
    <3>1. Stands(c, c.by, c.key, at)'
      BY <1>3, <2>1, <2>2, WrittenStands
    <3>2. PICK o : o = Order(c.by, r)
      OBVIOUS
    <3>3. /\ Main(o) = Main(c) /\ Touched(o) = Touched(c) /\ Active(o) = Active(c)
          /\ \A s : Wanted(o, s) = Wanted(c, s) /\ Displayed(o, s) = Displayed(c, s)
      BY <2>3, <2>4, <3>2, OrderOf DEF Digest
    <3> HIDE DEF Main, Touched, Active, Wanted, Displayed, Says
    <3>4. Stands(o, c.by, c.key, at)'
      BY <3>1, <3>3 DEF Stands
    <3> QED BY <2>3, <3>2, <3>4
  <2>8. ASSUME NEW m \in Members, NEW k \in Keys, OfToday(receipts'[m][k])
        PROVE  Stands(Order(m, receipts[m][k]), m, k, receipts[m][k].event)'
    <3>1. CASE m = c.by /\ k = c.key
      BY <2>6, <2>7, <3>1
    <3>2. CASE ~(m = c.by /\ k = c.key)
      <4>1. receipts'[m][k] = receipts[m][k]
        BY <2>4, <2>5, <3>2 DEF ReceiptTables
      <4> QED BY <1>1, <2>8, <4>1
    <3> QED BY <3>1, <3>2
  <2> QED BY <2>8 DEF ReceiptsStand, OfToday
<1>4. (\E p \in Requests : Writes(p)) \/ UNCHANGED receipts
  BY Steps DEF Send, Outcome, Moves, Refresh, Grant, vars, tables
<1> QED BY <1>2, <1>3, <1>4

\* A receipt stands for the events its command appended, for ever.
LEMMA StandTheorem == Spec => []ReceiptsStand
<1>1. Core /\ ReceiptsStand /\ [Next]_vars => ReceiptsStand'
  BY StepStands
<1> QED BY <1>1, InitStands, CoreTheorem, PTL DEF Spec

(* A receipt stands for the whole of its command, composite discards too.     *)
THEOREM WholeCommandTheorem == Spec => []WholeCommand
<1>1. ReceiptsStand => WholeCommand
  <2> HIDE DEF Displayed, Wanted, Touched, Order, Says
  <2> QED BY DEF ReceiptsStand, WholeCommand, OfToday, Stands
<1> QED BY <1>1, StandTheorem, PTL
-----------------------------------------------------------------------------
\* What a COMMIT registers under its key is a receipt.
LEMMA WrittenReceipt ==
  ASSUME Core, NEW p \in Requests, Writes(p), NEW c, c = cmd[p],
         NEW at, at = NewHead(c)[Main(c)]
  PROVE  [digest |-> Digest(c.family, c.ws, c), ws |-> c.ws, event |-> at]
           # NoReceipt
<1>1. c \in Commands /\ Ordered(c) /\ Typed /\ OneLine
  BY Writing DEF Core
<1>2. Body(c) \in Bodies
  BY <1>1 DEF Body, Bodies, Commands
<1>3. at \in Nat
  <2>1. Main(c) \in Streams
    BY <1>1, StreamOf
  <2>2. head[Main(c)] \in Nat /\ Len(rows[Main(c)]) \in Nat
    BY <1>1, <2>1 DEF Typed, OneLine
  <2> QED BY <2>1, <2>2 DEF NewHead
<1> QED BY <1>1, <1>2, <1>3, NamesAssumption
        DEF Receipts, Digests, Digest, Families, Commands

(* What one event says of its author.                                         *)
Seen(s, e, r) ==
  /\ r # NoReceipt
  /\ r.ws = s.ws /\ r.digest.body.shown = e.seen
  /\ e.supersedes = IF s.facet = r.digest.body.basket
                    THEN r.digest.body.expected
                    ELSE r.digest.body.also[s.facet]

\* No step appends blindly: the heads displayed are compared under the locks.
LEMMA StepSaw ==
  ASSUME Core, AuthorSaw, [Next]_vars
  PROVE  AuthorSaw'
<1>0. Core'
  BY StepCore
<1>1. ASSUME NEW s \in Streams, NEW i \in 1..Len(rows[s])
      PROVE  LET e == rows'[s][i] IN Seen(s, e, receipts'[e.by][e.key])
  <2>1. Grows
    BY StepGrows
  <2>2. rows[s][i] \in Events
    BY ElementOfSeq DEF Core, Typed
  <2>3. rows[s][i].by \in Members /\ rows[s][i].key \in Keys
    BY <2>2 DEF Events
  <2>4. Seen(s, rows[s][i], receipts[rows[s][i].by][rows[s][i].key])
    BY DEF AuthorSaw, Seen
  <2>5. receipts'[rows[s][i].by][rows[s][i].key] =
          receipts[rows[s][i].by][rows[s][i].key]
    BY <2>1, <2>3, <2>4 DEF Grows, Seen
  <2>6. Kept(rows[s][i], rows'[s][i])
    BY <2>1 DEF Grows
  <2> QED BY <2>4, <2>5, <2>6 DEF Kept, Seen
<1>2. CASE UNCHANGED rows
  BY <1>1, <1>2 DEF AuthorSaw, Seen, Streams
<1>3. ASSUME NEW p \in Requests, Writes(p) PROVE AuthorSaw'
  <2>1. PICK c : c = cmd[p]
    OBVIOUS
  <2>2. PICK at : at = NewHead(c)[Main(c)]
    OBVIOUS
  <2>3. PICK r : r = [digest |-> Digest(c.family, c.ws, c), ws |-> c.ws, event |-> at]
    OBVIOUS
  <2>4. /\ c \in Commands /\ Ordered(c)
        /\ receipts' = [receipts EXCEPT ![c.by][c.key] = r]
        /\ c.family \in {"personal", "workspace"}
    <3>1. /\ c \in Commands /\ Ordered(c)
          /\ receipts' = [receipts EXCEPT ![c.by][c.key] =
               [digest |-> Digest(c.family, c.ws, c), ws |-> c.ws,
                event |-> NewHead(c)[Main(c)]]]
          /\ c.family \in {"personal", "workspace"}
      BY <1>3, <2>1, Writing
    <3> QED BY <2>2, <2>3, <3>1, Zenon
  <2>5. c.by \in Members /\ c.key \in Keys /\ receipts \in ReceiptTables
    BY <2>4 DEF Commands, Core, Typed
  <2>6. receipts'[c.by][c.key] = r
    BY <2>4, <2>5 DEF ReceiptTables
  <2>7. /\ r.ws = c.ws /\ r.digest.body.shown = c.shown
        /\ r.digest.body.basket = c.basket
        /\ r.digest.body.expected = c.expected /\ r.digest.body.also = c.also
    BY <2>3, <2>4 DEF Digest, Body
  <2>8. r # NoReceipt
    BY <1>3, <2>1, <2>2, <2>3, WrittenReceipt
  <2>9. ASSUME NEW s \in Streams, NEW i \in 1..Len(rows'[s])
        PROVE  LET e == rows'[s][i] IN Seen(s, e, receipts'[e.by][e.key])
    <3>1. CASE i \in 1..Len(rows[s])
      BY <1>1, <3>1
    <3>2. CASE i \notin 1..Len(rows[s])
      <4>1. /\ s \in Appended(c) /\ i = Len(rows[s]) + 1
            /\ rows'[s][i] = Row(c, s)
        BY <1>3, <2>1, <3>2, Commits
      <4>2. /\ s \in Touched(c) /\ s.ws = c.ws
            /\ s.facet = c.basket <=> s = Main(c)
        BY <2>4, <4>1, AppendedIn, StreamOf
      <4>3. head[s] = Displayed(c, s)
        BY <1>3, <2>1, <4>2, Commits
      <4>4. /\ rows'[s][i].by = c.by /\ rows'[s][i].key = c.key
            /\ rows'[s][i].seen = c.shown /\ rows'[s][i].supersedes = head[s]
        BY <4>1 DEF Row
      <4>5. head[s] = IF s.facet = c.basket THEN c.expected ELSE c.also[s.facet]
        BY <4>2, <4>3 DEF Displayed
      <4> QED BY <2>6, <2>7, <2>8, <4>2, <4>4, <4>5 DEF Seen
    <3> QED BY <3>1, <3>2
  <2> QED BY <2>9 DEF AuthorSaw, Seen, Streams
<1>4. (\E p \in Requests : Writes(p)) \/ UNCHANGED rows
  BY Steps DEF Send, Outcome, Moves, Refresh, Grant, vars, tables
<1> QED BY <1>2, <1>3, <1>4

(* Nothing is classified blindly: each event replaced the head, and saw the   *)
(* version, its command displayed.                                            *)
THEOREM AuthorSawTheorem == Spec => []AuthorSaw
<1>1. Init => AuthorSaw
  BY DEF Init, AuthorSaw
<1>2. Core /\ AuthorSaw /\ [Next]_vars => AuthorSaw'
  BY StepSaw
<1> QED BY <1>1, <1>2, CoreTheorem, PTL DEF Spec
-----------------------------------------------------------------------------
\* An answer given stays recorded.
LEMMA StepRecorded ==
  ASSUME Core, Recorded, [Next]_vars
  PROVE  Recorded'
<1> SUFFICES ASSUME NEW q \in Requests, outcome'[q] = "ok"
             PROVE  (LET c == cmd[q] IN
                     /\ Receipt(c) # NoReceipt
                     /\ Receipt(c).ws = c.ws /\ Receipt(c).digest \in Accepted(c)
                     /\ Receipt(c).event = result[q])'
  BY DEF Recorded
<1>0. Grows /\ Staged(q)
  BY StepGrows DEF Core
<1>1. CASE outcome[q] = "ok" /\ cmd'[q] = cmd[q] /\ result'[q] = result[q]
  <2>1. /\ Receipt(cmd[q]) # NoReceipt /\ Receipt(cmd[q]).ws = cmd[q].ws
        /\ Receipt(cmd[q]).digest \in Accepted(cmd[q])
        /\ Receipt(cmd[q]).event = result[q]
    BY <1>1 DEF Recorded
  <2>2. cmd[q] \in Commands
    BY <1>0, <1>1 DEF Staged
  <2>3. Receipt(cmd[q])' = Receipt(cmd[q])
    BY <1>0, <1>1, <2>1, <2>2 DEF Grows, Receipt, Commands
  <2>4. Accepted(cmd[q])' = Accepted(cmd[q])
    BY <1>1 DEF Accepted, OwnDigest, Digest, Body
  <2> QED BY <1>1, <2>1, <2>3, <2>4
<1>2. CASE \E p \in Requests : Send(p)
  <2>1. PICK p \in Requests : Send(p)
    BY <1>2
  <2>2. outcome' = outcome /\ result' = result /\ pc[p] = "idle"
    BY <2>1 DEF Send
  <2>3. q # p
    BY <1>0, <2>2 DEF Staged
  <2>4. cmd'[q] = cmd[q]
    <3>1. PICK c : cmd' = [cmd EXCEPT ![p] = c]
      BY <2>1 DEF Send
    <3> QED BY <2>3, <3>1 DEF Core, Typed
  <2> QED BY <1>1, <2>2, <2>4
<1>3. CASE \E p \in Requests : Outcome(p)
  <2>0. PICK p \in Requests : Outcome(p)
    BY <1>3
  <2>1. PICK at, code, n :
          /\ Moves(p, at, code, n)
          /\ code = "ok" => Replayed(p) /\ n = Receipt(cmd[p]).event
    BY <2>0 DEF Outcome
  <2>2. /\ outcome' = [outcome EXCEPT ![p] = code]
        /\ result' = [result EXCEPT ![p] = n] /\ cmd' = cmd /\ receipts' = receipts
        /\ outcome \in [Requests -> Outcomes] /\ result \in [Requests -> Nat]
    BY <2>1 DEF Moves, tables, Core, Typed
  <2>3. CASE q # p
    BY <1>1, <2>2, <2>3
  <2>4. CASE q = p
    <3>1. code = "ok" /\ result'[p] = n
      BY <2>2, <2>4
    <3>2. /\ Receipt(cmd[p]) # NoReceipt /\ Receipt(cmd[p]).ws = cmd[p].ws
          /\ Receipt(cmd[p]).digest \in Accepted(cmd[p])
          /\ Receipt(cmd[p]).event = n
      BY <2>1, <3>1 DEF Replayed
    <3>3. Receipt(cmd[q])' = Receipt(cmd[q])
      BY <2>2 DEF Receipt
    <3>4. Accepted(cmd[q])' = Accepted(cmd[q])
      BY <2>2 DEF Accepted, OwnDigest, Digest, Body
    <3> QED BY <2>2, <2>4, <3>1, <3>2, <3>3, <3>4
  <2> QED BY <2>3, <2>4
<1>4. CASE \E p \in Requests : Writes(p)
  <2>1. PICK p \in Requests : Writes(p)
    BY <1>4
  <2>2. PICK c : c = cmd[p]
    OBVIOUS
  <2>3. PICK at : at = NewHead(c)[Main(c)]
    OBVIOUS
  <2>4. PICK r : r = [digest |-> Digest(c.family, c.ws, c), ws |-> c.ws, event |-> at]
    OBVIOUS
  <2>5. /\ c \in Commands
        /\ receipts' = [receipts EXCEPT ![c.by][c.key] = r]
        /\ outcome' = [outcome EXCEPT ![p] = "ok"]
        /\ result' = [result EXCEPT ![p] = at] /\ cmd' = cmd
        /\ c.family \in {"personal", "workspace"}
    <3>1. c \in Commands /\ receipts' = [receipts EXCEPT ![c.by][c.key] = r]
          /\ c.family \in {"personal", "workspace"}
      <4>1. c \in Commands /\ c.family \in {"personal", "workspace"}
        BY <2>1, <2>2, Writing
      <4>2. receipts' = [receipts EXCEPT ![c.by][c.key] =
               [digest |-> Digest(c.family, c.ws, c), ws |-> c.ws,
                event |-> NewHead(c)[Main(c)]]]
        BY <2>1, <2>2, Writing
      <4> QED BY <2>3, <2>4, <4>1, <4>2, Zenon
    <3>2. outcome' = [outcome EXCEPT ![p] = "ok"] /\ cmd' = cmd
      BY <2>1, Writing
    <3>3. result' = [result EXCEPT ![p] = at]
      <4>1. result' = [result EXCEPT ![p] = NewHead(c)[Main(c)]]
        BY <2>1, <2>2 DEF Writes, Commit
      <4> QED BY <2>3, <4>1
    <3> QED BY <3>1, <3>2, <3>3
  <2>6. outcome \in [Requests -> Outcomes] /\ result \in [Requests -> Nat]
    BY DEF Core, Typed
  <2>7. CASE q # p
    BY <1>1, <2>5, <2>6, <2>7
  <2>8. CASE q = p
    <3>1. c.by \in Members /\ c.key \in Keys /\ receipts \in ReceiptTables
      BY <2>5 DEF Commands, Core, Typed
    <3>2. receipts'[c.by][c.key] = r
      BY <2>5, <3>1 DEF ReceiptTables
    <3>3. r # NoReceipt
      BY <2>1, <2>2, <2>3, <2>4, WrittenReceipt
    <3>4. r.ws = c.ws /\ r.event = at /\ r.digest = OwnDigest(c)
      BY <2>4, <2>5 DEF OwnDigest
    <3>5. r.digest \in Accepted(c)
      BY <3>4 DEF Accepted
    <3>6. result'[q] = at /\ cmd'[q] = c /\ Receipt(cmd[q])' = r
      BY <2>2, <2>5, <2>6, <2>8, <3>2 DEF Receipt
    <3>7. Accepted(cmd[q])' = Accepted(c)
      BY <3>6 DEF Accepted, OwnDigest, Digest, Body
    <3> QED BY <3>3, <3>4, <3>5, <3>6, <3>7
  <2> QED BY <2>7, <2>8
<1>5. CASE UNCHANGED request
  <2>1. outcome[q] = "ok" /\ cmd'[q] = cmd[q] /\ result'[q] = result[q]
    BY <1>5 DEF request
  <2> QED BY <1>1, <2>1
<1> QED BY <1>2, <1>3, <1>4, <1>5, Steps DEF Refresh, Grant, vars

(* What a client was answered stays true, and is what a retry is answered.    *)
THEOREM AnswersTheorem == Spec => []AnswersStay
<1>1. Init => Recorded
  BY DEF Init, Recorded
<1>2. Core /\ Recorded /\ [Next]_vars => Recorded'
  BY StepRecorded
<1>3. Core /\ ReceiptsStand /\ Recorded => AnswersStay
  <2> SUFFICES ASSUME Core, ReceiptsStand, Recorded,
                      NEW q \in Requests, outcome[q] = "ok",
                      Receipt(cmd[q]).digest.kind \in {"personal", "workspace"}
               PROVE  LET c == cmd[q] IN
                      IF result[q] = 0 THEN ~Active(c)
                      ELSE /\ result[q] \in 1..Len(rows[Main(c)])
                           /\ Says(rows[Main(c)][result[q]], Wanted(c, Main(c)))
    BY DEF Recorded, AnswersStay
  <2>1. PICK c : c = cmd[q]
    OBVIOUS
  <2>2. PICK r : r = Receipt(c)
    OBVIOUS
  <2>3. c \in Commands /\ r = receipts[c.by][c.key]
    BY <2>1, <2>2 DEF Core, Staged, Receipt
  <2>4. /\ r # NoReceipt /\ r.ws = c.ws /\ r.digest \in Accepted(c)
        /\ r.event = result[q] /\ OfToday(r)
    BY <2>1, <2>2 DEF Recorded, OfToday
  <2>5. r.digest = Digest(c.family, c.ws, c)
    BY <2>4 DEF Accepted, OwnDigest, Digest, OfToday
  <2>6. PICK o : o = Order(c.by, r)
    OBVIOUS
  <2>7. Stands(o, c.by, c.key, r.event)
    BY <2>3, <2>4, <2>6 DEF ReceiptsStand, Commands
  <2>8. /\ Main(o) = Main(c) /\ Active(o) = Active(c)
        /\ \A s : Wanted(o, s) = Wanted(c, s)
    BY <2>3, <2>4, <2>5, <2>6, OrderOf
  <2> HIDE DEF Main, Active, Wanted, Says
  <2> QED BY <2>1, <2>4, <2>7, <2>8 DEF Stands
<1> QED BY <1>1, <1>2, <1>3, CoreTheorem, StandTheorem, PTL DEF Spec
-----------------------------------------------------------------------------
(* The registers of Classification that the streams implement.                *)
Registers == [s \in Streams |-> Current(s)]

\* Both modules have the same streams.
LEMMA SameStreams == Streams = Classified!Streams
BY DEF Streams, Classified!Streams

RegistersOK ==
  Registers \in [Classified!Streams -> Classified!Entries \cup {NoEntry}]
\* The heads are registers of the abstract specification.
LEMMA RegistersTyped == Core => RegistersOK
BY CurrentTyped DEF Registers, RegistersOK

\* The registers only move with rows and heads.
LEMMA StillRegisters ==
  ASSUME UNCHANGED <<rows, head>>
  PROVE  Registers' = Registers
BY DEF Registers, Current, Streams

(* What a COMMIT does to one register.                                        *)
LEMMA Replaces ==
  ASSUME Core, NEW p \in Requests, Writes(p), NEW c, c = cmd[p], NEW s \in Streams
  PROVE  /\ s \notin Appended(c) => Current(s)' = Current(s)
         /\ s \in Appended(c) =>
              /\ Current(s)' # NoEntry
              /\ Current(s)'.state = Wanted(c, s).state
              /\ Current(s)'.reason = Wanted(c, s).reason
              /\ Current(s)'.by = c.by /\ Current(s)'.seen = c.shown
              /\ \/ Current(s) = NoEntry /\ Wanted(c, s).state = "active"
                 \/ /\ Current(s) # NoEntry
                    /\ \/ Wanted(c, s).state # Current(s).state
                       \/ Wanted(c, s).reason # Current(s).reason
<1>1. /\ head[s] = Len(rows[s]) /\ Len(rows[s]) \in Nat
      /\ s \notin Appended(c) => rows'[s] = rows[s] /\ head'[s] = head[s]
      /\ s \in Appended(c) =>
           /\ rows'[s][Len(rows[s]) + 1] = Row(c, s)
           /\ head'[s] = Len(rows[s]) + 1
  BY Commits
<1>2. CASE s \notin Appended(c)
  BY <1>1, <1>2 DEF Current
<1>3. CASE s \in Appended(c)
  <2>1. c \in Commands /\ Typed
    BY Writing DEF Core
  <2>2. Current(s)' = [state |-> Wanted(c, s).state, reason |-> Wanted(c, s).reason,
                       seen |-> c.shown, by |-> c.by]
    BY <1>1, <1>3 DEF Current, Row
  <2>3. Current(s)' # NoEntry
    <3>1. Current(s)' \in [state: {"active", "inactive"},
                           reason: Reasons \cup {NoReason}, seen: Contents,
                           by: Members]
      BY <2>1, <2>2 DEF Wanted, Commands
    <3> QED BY <3>1, NamesAssumption
  <2>4. CASE head[s] = 0
    BY <1>3, <2>2, <2>3, <2>4 DEF Appended, Current
  <2>5. CASE head[s] # 0
    <3>1. rows[s][head[s]] \in Events
      BY <1>1, <2>1, <2>5, ElementOfSeq DEF Typed
    <3>2. /\ Current(s) = [state |-> rows[s][head[s]].state,
                           reason |-> rows[s][head[s]].reason,
                           seen |-> rows[s][head[s]].seen,
                           by |-> rows[s][head[s]].by]
      BY <2>5 DEF Current
    <3>3. Current(s) # NoEntry
      BY <3>1, <3>2, NamesAssumption DEF Events
    <3>4. ~Says(rows[s][head[s]], Wanted(c, s))
      BY <1>3, <2>5 DEF Appended
    <3> QED BY <1>3, <2>2, <2>3, <3>2, <3>3, <3>4 DEF Says
  <2> QED BY <2>4, <2>5
<1> QED BY <1>2, <1>3

(* A COMMIT is one classification, or changes no register and no revision.    *)
LEMMA WritesClassifies ==
  ASSUME Core, NEW p \in Requests, Writes(p)
  PROVE  Classified!Next \/ UNCHANGED Classified!facts
<1>1. PICK c : c = cmd[p]
  OBVIOUS
<1>2. /\ c \in Commands /\ Ordered(c) /\ Allowed(c) /\ content = c.shown
      /\ c.family \in {"personal", "workspace"}
      /\ head' = NewHead(c)
      /\ personal' = IF Moved(c) /\ c.family = "personal"
                     THEN [personal EXCEPT ![c.ws][c.by] = @ + 1] ELSE personal
      /\ common' = IF Moved(c) /\ c.family = "workspace"
                   THEN [common EXCEPT ![c.ws] = @ + 1] ELSE common
      /\ UNCHANGED <<content, source, rights>>
  BY <1>1, Writing
<1>3. c.by \in Members /\ c.ws \in Workspaces /\ c.by # Shared
  BY <1>2, NamesAssumption DEF Commands
<1>4. Appended(c) \subseteq Touched(c) /\ Appended(c) \subseteq Streams
  BY <1>2, AppendedIn
<1>5. Moved(c) <=> Appended(c) # {}
  <2>1. ASSUME NEW s \in Touched(c)
        PROVE  NewHead(c)[s] # Displayed(c, s) <=> s \in Appended(c)
    <3>1. s \in Streams
      BY <1>2, StreamOf
    <3>2. /\ Displayed(c, s) = head[s] /\ head[s] = Len(rows[s])
          /\ Len(rows[s]) \in Nat
      BY <1>1, <3>1, Commits
    <3>3. NewHead(c)[s] = IF s \in Appended(c) THEN Len(rows[s]) + 1 ELSE head[s]
      BY <3>1 DEF NewHead
    <3> QED BY <3>2, <3>3
  <2> HIDE DEF Touched, Displayed, NewHead, Appended
  <2> QED BY <1>4, <2>1 DEF Moved
<1>6. CASE Appended(c) = {}
  <2>1. \A s \in Streams : Current(s)' = Current(s)
    BY <1>1, <1>6, Replaces
  <2>2. Registers' = Registers
    BY <2>1 DEF Registers, Streams
  <2>3. UNCHANGED <<content, source, personal, common, rights>>
    BY <1>2, <1>5, <1>6
  <2> QED BY <2>2, <2>3 DEF Classified!facts, Registers
<1>7. CASE Appended(c) # {}
  <2> DEFINE o == Main(c).owner
  <2>1. /\ o \in Members \cup {Shared}
        /\ c.family = "workspace" <=> o = Shared
        /\ c.family = "personal" => o = c.by
    BY <1>2, <1>3 DEF Main
  <2>2. ASSUME NEW s \in Streams, Registers'[s] # Registers[s]
        PROVE  /\ s \in Appended(c) /\ s.ws = c.ws /\ s.owner = o
               /\ Classified!MayWrite(c.by, s)
               /\ Registers'[s] # NoEntry
               /\ Registers'[s].by = c.by /\ Registers'[s].seen = content
               /\ \/ Registers[s] = NoEntry /\ Registers'[s].state = "active"
                  \/ /\ Registers[s] # NoEntry
                     /\ \/ Registers'[s].state # Registers[s].state
                        \/ Registers'[s].reason # Registers[s].reason
    <3>1. Registers'[s] = Current(s)' /\ Registers[s] = Current(s)
      BY DEF Registers, Streams
    <3>2. s \in Appended(c)
      BY <1>1, <2>2, <3>1, Replaces
    <3>3. s.ws = c.ws /\ s.owner = o
      BY <1>2, <1>4, <3>2, StreamOf
    <3>4. Classified!MayWrite(c.by, s)
      BY <1>2, <2>1, <3>3 DEF Classified!MayWrite, Allowed
    <3> HIDE DEF Wanted, Current
    <3> QED BY <1>1, <1>2, <3>1, <3>2, <3>3, <3>4, Replaces
  <2>3. PICK s \in Streams : Registers'[s] # Registers[s]
    <3>1. PICK s \in Streams : s \in Appended(c)
      BY <1>4, <1>7
    <3>2. Current(s)' # Current(s)
      <4> HIDE DEF Wanted, Current
      <4> QED BY <1>1, <3>1, Replaces
    <3> QED BY <3>2 DEF Registers, Streams
  <2>4. Registers' \in [Classified!Streams -> Classified!Entries \cup {NoEntry}]
    <3>1. Core'
      BY StepCore DEF Writes, Next, Advance, vars
    <3>2. RegistersOK'
      BY <3>1, RegistersTyped, PTL
    <3> QED BY <3>2 DEF RegistersOK, Classified!Streams, Classified!Entries
  <2>5. IF o = Shared
        THEN common' = [common EXCEPT ![c.ws] = @ + 1] /\ personal' = personal
        ELSE /\ personal' = [personal EXCEPT ![c.ws][c.by] = @ + 1]
             /\ common' = common
    BY <1>2, <1>5, <1>7, <2>1
  <2>6. Classified!Classify(c.by, c.ws, o)
    BY <1>2, <2>2, <2>3, <2>4, <2>5, SameStreams
       DEF Classified!Classify, Classified!Changed, Registers
  <2> QED BY <1>3, <2>1, <2>6 DEF Classified!Next
<1> QED BY <1>6, <1>7

(* One COMMIT is one change of the registers, on the version stored and with  *)
(* the rights held then, and it moves the revision of those who see it.       *)
THEOREM ImplementsTheorem == Spec => Implements
<1>1. Init => Classified!Init
  <2> SUFFICES ASSUME Init PROVE Classified!Init
    OBVIOUS
  <2>1. Registers = [s \in Classified!Streams |-> NoEntry]
    BY SameStreams DEF Registers, Current, Init
  <2> QED BY <2>1 DEF Init, Classified!Init, Registers
<1>2. Core /\ [Next]_vars => [Classified!Next]_(Classified!facts)
  <2> SUFFICES ASSUME Core, [Next]_vars
               PROVE  Classified!Next \/ UNCHANGED Classified!facts
    OBVIOUS
  <2>1. CASE \E p \in Requests : Writes(p)
    BY <2>1, WritesClassifies
  <2>2. CASE UNCHANGED <<rows, head, scope>>
    BY <2>2, StillRegisters DEF Classified!facts, Registers, scope
  <2>3. CASE Refresh
    BY <2>3 DEF Refresh, Classified!Next
  <2>4. CASE Grant
    BY <2>4 DEF Grant, Roles, Classified!Next, Classified!Grant
  <2> QED BY <2>1, <2>2, <2>3, <2>4, Steps DEF Send, Outcome, Moves, vars, tables
<1> QED BY <1>1, <1>2, CoreTheorem, PTL DEF Spec, Implements, Classified!Spec
==============================================================================
