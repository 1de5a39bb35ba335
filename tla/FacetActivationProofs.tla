----------------------- MODULE FacetActivationProofs -----------------------
(* The invariants of FacetActivation, for any number of workspaces, accounts, *)
(* writers and operators.                                                     *)
(*                                                                            *)
(* Three facts carry the argument.  A scoped transaction began after the      *)
(* first switch and found no loose event of its owner (Scoped); nothing adds  *)
(* one since, because a legacy transaction is refused at its commit from that *)
(* switch on, and a cutover only binds.  A workspace of the legacy epoch has  *)
(* its barrier closed (Fence), so a cutover never opens by itself.  And a     *)
(* receipt for an event left unbound was decided by the only cutover that     *)
(* could bind it, which nobody runs again (Exclusive, Receipts).              *)
EXTENDS FacetActivation, SequenceTheorems, FiniteSetTheorems, TLAPS

Shape ==
  /\ \A o \in Operators : op[o].pc # "idle" => op[o].ws \in Workspaces
  /\ \A t \in Tabs : tab[t].pc # "idle" => tab[t].cmd \in Commands

Scoped ==
  /\ \A t \in Tabs : tab[t].pc # "idle" /\ tab[t].at # Unbound =>
       Dropped /\ Loose(Owner[t]) = {}
  /\ \A i \in DOMAIN log : log[i].via # Unbound => Dropped

Fence ==
  /\ \A w \in Workspaces : epoch[w] = "legacy" => barrier[w]
  /\ \A o \in Operators :
       op[o].pc \in {"stamped", "cut", "events"} => epoch[op[o].ws] # "absent"

(* A workspace between its fence and its switch is one operator's alone.      *)
Between(o) == op[o].pc \in {"cut", "events"}
Exclusive ==
  \A o \in Operators : Between(o) =>
    /\ epoch[op[o].ws] = "legacy"
    /\ \A p \in Operators : Between(p) /\ op[p].ws = op[o].ws => p = o

(* A receipt answers an event of its own account.  Contexts begin with the    *)
(* first switch, and one that stands for an event left unbound comes from the *)
(* cutover of the account's only destination, which is over.                  *)
Answered(a, c) ==
  receipts[a][c] \in Nat =>
    \/ receipts[a][c] = 0
    \/ receipts[a][c] \in DOMAIN log /\ log[receipts[a][c]].owner = a
LeftOut(a, c) ==
  /\ contexts[a][c] # Missing
  /\ receipts[a][c] \in DOMAIN log /\ log[receipts[a][c]].home = Unbound
Receipts ==
  /\ ReceiptsFollow
  /\ \A a \in Accounts, c \in Commands :
       /\ Answered(a, c)
       /\ ~Dropped => contexts[a][c] = Missing
       /\ LeftOut(a, c) =>
            \E w \in Workspaces : attach[a] = {w} /\ epoch[w] = "scoped"

Core ==
  /\ TypeOK /\ Shape
  /\ NothingLeftBehind /\ NothingUnderneath
  /\ Scoped /\ Fence
  /\ Exclusive /\ Receipts

-----------------------------------------------------------------------------
(* What happens to the history.                                               *)

(* An event appended to the chain of a head, or to no head.                   *)
LEMMA AppendedRow ==
  ASSUME TypeOK, NEW a \in Accounts, NEW w \in Workspaces \cup {Unbound},
         NEW c \in Commands, NEW h \in DOMAIN log \cup {0}
  PROVE  /\ Appended(a, w, c, h) \in Seq(Row)
         /\ DOMAIN Appended(a, w, c, h) = 1 .. Len(log) + 1
         /\ DOMAIN log = 1 .. Len(log) /\ Len(log) \in Nat
         /\ \A i \in DOMAIN log :
              /\ Appended(a, w, c, h)[i].owner = log[i].owner
              /\ Appended(a, w, c, h)[i].home = log[i].home
              /\ Appended(a, w, c, h)[i].via = log[i].via
         /\ Appended(a, w, c, h)[Len(log) + 1].owner = a
         /\ Appended(a, w, c, h)[Len(log) + 1].home = w
         /\ Appended(a, w, c, h)[Len(log) + 1].via = w
<1> DEFINE base == IF h = 0 THEN log ELSE [log EXCEPT ![h].next = Len(log) + 1]
           row == [owner |-> a, on |-> Does[c].on, state |-> Does[c].state,
                   prev |-> h, next |-> 0, home |-> w, via |-> w]
<1>1. log \in Seq(Row) /\ Len(log) \in Nat /\ DOMAIN log = 1 .. Len(log)
  BY DEF TypeOK
<1>2. row \in Row
  BY <1>1, ActivationAssumption DEF Row
<1>3. base \in Seq(Row) /\ Len(base) = Len(log) /\ DOMAIN base = DOMAIN log
  <2>1. CASE h = 0
    BY <2>1, <1>1
  <2>2. CASE h # 0
    <3>1. h \in DOMAIN log
      BY <2>2
    <3>4. log[h] \in Row /\ Len(log) + 1 \in Nat
      BY <3>1, <1>1
    <3>2. [log[h] EXCEPT !.next = Len(log) + 1] \in Row
      BY <3>4 DEF Row
    <3>3. base = [log EXCEPT ![h] = [log[h] EXCEPT !.next = Len(log) + 1]]
      BY <2>2
    <3> QED
      BY <3>1, <3>2, <3>3, <1>1, ExceptSeq
  <2> QED
    BY <2>1, <2>2
<1>4. \A i \in DOMAIN log :
        base[i].owner = log[i].owner /\ base[i].home = log[i].home
        /\ base[i].via = log[i].via
  BY <1>1 DEF Row
<1>5. Appended(a, w, c, h) = Append(base, row)
  BY DEF Appended
<1> HIDE DEF base
<1>6. /\ Append(base, row) \in Seq(Row)
      /\ Len(Append(base, row)) = Len(log) + 1
      /\ \A i \in 1 .. Len(log) : Append(base, row)[i] = base[i]
      /\ Append(base, row)[Len(log) + 1] = row
  BY <1>1, <1>2, <1>3, AppendProperties
<1> QED
  BY <1>1, <1>4, <1>5, <1>6

(* The same, of one event that was there.                                     *)
LEMMA AppendedSame ==
  ASSUME TypeOK, NEW a \in Accounts, NEW w \in Workspaces \cup {Unbound},
         NEW c \in Commands, NEW h \in DOMAIN log \cup {0}, NEW i \in DOMAIN log
  PROVE  /\ Appended(a, w, c, h)[i].owner = log[i].owner
         /\ Appended(a, w, c, h)[i].home = log[i].home
         /\ Appended(a, w, c, h)[i].via = log[i].via
  BY AppendedRow

(* And where the new event is.                                                *)
LEMMA AppendedLast ==
  ASSUME TypeOK, NEW a \in Accounts, NEW w \in Workspaces \cup {Unbound},
         NEW c \in Commands, NEW h \in DOMAIN log \cup {0}
  PROVE  /\ DOMAIN Appended(a, w, c, h) = 1 .. Len(log) + 1
         /\ DOMAIN log = 1 .. Len(log) /\ Len(log) \in Nat
         /\ Appended(a, w, c, h)[Len(log) + 1].owner = a
         /\ Appended(a, w, c, h)[Len(log) + 1].home = w
         /\ Appended(a, w, c, h)[Len(log) + 1].via = w
  BY AppendedRow

(* A cutover changes the homes of the events it binds, and nothing else.      *)
LEMMA BoundRow ==
  ASSUME TypeOK, NEW w \in Workspaces
  PROVE  /\ BoundLog(w) \in Seq(Row)
         /\ DOMAIN BoundLog(w) = DOMAIN log
         /\ \A i \in DOMAIN log :
              /\ BoundLog(w)[i].owner = log[i].owner
              /\ BoundLog(w)[i].via = log[i].via
              /\ BoundLog(w)[i].home = Unbound => log[i].home = Unbound
<1>1. log \in Seq(Row) /\ Len(log) \in Nat /\ DOMAIN log = 1 .. Len(log)
  BY DEF TypeOK
<1>2. \A i \in 1 .. Len(log) : log[i] \in Row
  BY <1>1
<1>3. \A i \in 1 .. Len(log) : BoundLog(w)[i] \in Row
  BY <1>1, <1>2 DEF BoundLog, Row
<1>4. BoundLog(w) = [i \in 1 .. Len(log) |-> BoundLog(w)[i]]
  BY <1>1 DEF BoundLog
<1>5. BoundLog(w) \in Seq(Row)
  BY <1>1, <1>3, <1>4
<1> QED
  BY <1>1, <1>2, <1>5, ActivationAssumption DEF BoundLog, Row

-----------------------------------------------------------------------------
(* Types.                                                                     *)

\* The initial states are well typed.
LEMMA TypeInit == Init => TypeOK /\ Shape
<1> SUFFICES ASSUME Init PROVE TypeOK /\ Shape
  OBVIOUS
<1>1. PICK b \in Beginnings : log = b.log /\ receipts = b.receipts
  BY DEF Init
<1>2. log \in Seq(Row)
      /\ receipts \in [Accounts -> [Commands -> Nat \cup {Missing, Opaque}]]
  BY <1>1, ActivationAssumption
<1> QED
  BY <1>2, ActivationAssumption DEF Init, TypeOK, Shape, Free, Closed, Quiet

Traffic == [begun : SUBSET Tabs, late : SUBSET Accounts]

\* What is left to wait for, once a transaction has ended.
LEMMA EndedTraffic ==
  ASSUME TypeOK, NEW t \in Tabs, NEW o \in Operators
  PROVE  /\ traffic[o] \in Traffic
         /\ Ended(t)[o] = [begun |-> traffic[o].begun \ {t}, late |-> traffic[o].late]
         /\ Ended(t)[o] \in Traffic
         /\ traffic[o] = Quiet => Ended(t)[o] = Quiet
<1>1. traffic[o] \in Traffic
  BY DEF TypeOK, Traffic
<1>2. Ended(t)[o] = [traffic[o] EXCEPT !.begun = @ \ {t}]
  BY DEF Ended
<1>3. Ended(t)[o] = [begun |-> traffic[o].begun \ {t}, late |-> traffic[o].late]
  BY <1>1, <1>2 DEF Traffic
<1> QED
  BY <1>1, <1>3 DEF Traffic, Quiet

(* A step of the writers.                                   *)
LEMMA TypeCommit ==
  ASSUME TypeOK, Shape, NEW t \in Tabs, Commit(t)
  PROVE  TypeOK' /\ Shape'
<1> DEFINE a == Owner[t]
           w == tab[t].at
           c == tab[t].cmd
<1>1. a \in Accounts /\ w \in Workspaces \cup {Unbound} /\ c \in Commands
  BY ActivationAssumption DEF Commit, TypeOK, Shape
<1>2. PICK h \in HeadOf(a, w, Does[c].on) \cup {0} :
        /\ log' = IF Idle(c, h) THEN log ELSE Appended(a, w, c, h)
        /\ receipts' = [receipts EXCEPT ![a][c] =
             IF Idle(c, h) THEN h ELSE Len(log) + 1]
        /\ traffic' = [o \in Operators |->
             IF t \in traffic[o].begun /\ ~Idle(c, h)
             THEN [Ended(t)[o] EXCEPT !.late = @ \cup {a}] ELSE Ended(t)[o]]
  BY DEF Commit
<1>3. h \in DOMAIN log \cup {0}
  BY DEF HeadOf, Of
<1> HIDE DEF a, w, c
<1>4. /\ Appended(a, w, c, h) \in Seq(Row)
      /\ DOMAIN Appended(a, w, c, h) = 1 .. Len(log) + 1
      /\ DOMAIN log = 1 .. Len(log) /\ Len(log) \in Nat
  BY <1>1, <1>3, AppendedRow
<1>5. log' \in Seq(Row) /\ DOMAIN log \subseteq DOMAIN log'
  BY <1>2, <1>4 DEF TypeOK
<1>6. inventory' \subseteq DOMAIN log'
  BY <1>5 DEF Commit, TypeOK
<1>7. receipts' \in [Accounts -> [Commands -> Nat \cup {Missing, Opaque}]]
  BY <1>1, <1>2, <1>3, <1>4 DEF TypeOK
<1>8. contexts' \in [Accounts -> [Commands ->
        [ws : Workspaces, settled : BOOLEAN] \cup {Missing}]]
  BY <1>1 DEF Commit, TypeOK, a, w, c
<1>9. /\ traffic' \in [Operators -> [begun : SUBSET Tabs, late : SUBSET Accounts]]
      /\ \A o \in Operators : traffic[o] = Quiet => traffic'[o] = Quiet
  <2> SUFFICES ASSUME NEW o \in Operators
               PROVE  traffic'[o] \in Traffic /\ (traffic[o] = Quiet => traffic'[o] = Quiet)
    BY <1>2 DEF Traffic
  <2>1. /\ traffic[o] \in Traffic /\ Ended(t)[o] \in Traffic
        /\ traffic[o] = Quiet => Ended(t)[o] = Quiet
    BY EndedTraffic
  <2>2. CASE t \in traffic[o].begun /\ ~Idle(c, h)
    <3>1. traffic'[o] = [Ended(t)[o] EXCEPT !.late = @ \cup {a}]
      BY <1>2, <2>2
    <3>2. traffic[o] # Quiet
      BY <2>2 DEF Quiet
    <3> QED
      BY <1>1, <2>1, <3>1, <3>2 DEF Traffic
  <2>3. CASE ~(t \in traffic[o].begun /\ ~Idle(c, h))
    BY <1>2, <2>1, <2>3
  <2> QED
    BY <2>2, <2>3
<1>10. /\ tab' \in [Tabs -> [pc : {"idle", "begun", "wrote"},
             at : Workspaces \cup {Unbound}, cmd : Commands \cup {Missing}]]
       /\ \A u \in Tabs : tab'[u].pc # "idle" => tab'[u] = tab[u]
  BY DEF Commit, TypeOK, Closed
<1>11. UNCHANGED <<epoch, barrier, attach, member, op, used>>
  BY DEF Commit, rights
<1> QED
  BY <1>5, <1>6, <1>7, <1>8, <1>9, <1>10, <1>11 DEF TypeOK, Shape

\* The cutover keeps the types.
LEMMA TypeCutOver ==
  ASSUME TypeOK, Shape, NEW o \in Operators, CutOver(o)
  PROVE  TypeOK' /\ Shape'
<1> DEFINE w == op[o].ws
<1>1. w \in Workspaces
  BY DEF CutOver, Shape
<1>2. log' = BoundLog(w) /\ contexts' = ContextsFor(w)
  BY DEF CutOver
<1> HIDE DEF w
<1>3. log' \in Seq(Row) /\ DOMAIN log' = DOMAIN log
  BY <1>1, <1>2, BoundRow
<1>4. contexts' \in [Accounts -> [Commands ->
        [ws : Workspaces, settled : BOOLEAN] \cup {Missing}]]
  <2>1. \A a \in Accounts, c \in Commands :
          Resolves(receipts[a][c], w) \in BOOLEAN
    BY DEF Resolves
  <2> QED
    BY <1>1, <1>2, <2>1 DEF ContextsFor, TypeOK
<1>5. inventory' \subseteq DOMAIN log'
  BY <1>3 DEF CutOver, TypeOK
<1>6. /\ op' \in [Operators ->
            [pc : {"idle", "stamped", "cut", "events", "scoped", "checked",
                   "verified"},
             ws : Workspaces \cup {Unbound}]]
      /\ traffic' \in [Operators -> [begun : SUBSET Tabs, late : SUBSET Accounts]]
      /\ \A p \in Operators : op'[p].pc = "idle" => traffic'[p] = Quiet
      /\ \A p \in Operators : op'[p].pc # "idle" => op'[p].ws = op[p].ws /\ op[p].pc # "idle"
  <2>1. CASE Stop(o)
    BY <2>1 DEF Stop, Free, Quiet, TypeOK
  <2>2. CASE /\ op' = [op EXCEPT ![o].pc = "scoped"]
             /\ traffic' = [traffic EXCEPT ![o] = Quiet]
    <3>1. op[o].pc = "events" /\ op[o] \in [pc : {"idle", "stamped", "cut", "events",
             "scoped", "checked", "verified"}, ws : Workspaces \cup {Unbound}]
      BY DEF CutOver, TypeOK
    <3>2. op' = [op EXCEPT ![o] = [op[o] EXCEPT !.pc = "scoped"]]
      BY <2>2
    <3>3. [op[o] EXCEPT !.pc = "scoped"] \in
            [pc : {"idle", "stamped", "cut", "events", "scoped", "checked",
                   "verified"}, ws : Workspaces \cup {Unbound}]
          /\ [op[o] EXCEPT !.pc = "scoped"].pc = "scoped"
          /\ [op[o] EXCEPT !.pc = "scoped"].ws = op[o].ws
      BY <3>1
    <3>4. Quiet \in [begun : SUBSET Tabs, late : SUBSET Accounts]
      BY DEF Quiet
    <3> QED
      BY <2>2, <3>1, <3>2, <3>3, <3>4 DEF TypeOK
  <2> QED
    BY <2>1, <2>2 DEF CutOver
<1>7. epoch' \in [Workspaces -> {"absent", "legacy", "scoped"}]
  BY DEF CutOver, TypeOK
<1>8. UNCHANGED <<barrier, attach, member, receipts, tab, used>>
  BY DEF CutOver, rights
<1> QED
  BY <1>3, <1>4, <1>5, <1>6, <1>7, <1>8 DEF TypeOK, Shape

\* An operator who stops leaves the others where they are.
LEMMA TypeStop ==
  ASSUME TypeOK, Shape, NEW o \in Operators, Stop(o)
  PROVE  /\ op' \in [Operators ->
              [pc : {"idle", "stamped", "cut", "events", "scoped", "checked",
                     "verified"},
               ws : Workspaces \cup {Unbound}]]
         /\ traffic' \in [Operators -> [begun : SUBSET Tabs, late : SUBSET Accounts]]
         /\ \A p \in Operators : op'[p].pc = "idle" => traffic'[p] = Quiet
         /\ \A p \in Operators : op'[p].pc # "idle" => op'[p] = op[p]
  BY DEF TypeOK, Stop, Free, Quiet

\* An operator who goes on keeps the workspace.
LEMMA TypeAt ==
  ASSUME TypeOK, Shape, NEW o \in Operators, op[o].pc # "idle",
         NEW pc \in {"cut", "events", "checked", "verified"}, At(o, pc)
  PROVE  /\ op' \in [Operators ->
              [pc : {"idle", "stamped", "cut", "events", "scoped", "checked",
                     "verified"},
               ws : Workspaces \cup {Unbound}]]
         /\ traffic' = traffic
         /\ \A p \in Operators : op'[p].pc = "idle" => op'[p] = op[p]
         /\ \A p \in Operators : op'[p].pc # "idle" =>
              op'[p].ws = op[p].ws /\ op[p].pc # "idle"
  BY DEF TypeOK, At

\* An operator who goes on moves alone, and in its workspace.
LEMMA AtMoves ==
  ASSUME TypeOK, NEW o \in Operators, NEW pc, At(o, pc)
  PROVE  \A p \in Operators : IF p = o THEN op'[p].pc = pc /\ op'[p].ws = op[p].ws
                             ELSE op'[p] = op[p]
<1>1. op \in [Operators ->
         [pc : {"idle", "stamped", "cut", "events", "scoped", "checked", "verified"},
          ws : Workspaces \cup {Unbound}]]
  BY DEF TypeOK
<1>2. op' = [op EXCEPT ![o].pc = pc]
  BY DEF At
<1> QED
  BY <1>1, <1>2

\* A transaction that rolls back goes idle and is waited for no more.
LEMMA TypeRollback ==
  ASSUME TypeOK, Shape, NEW t \in Tabs, Rollback(t)
  PROVE  /\ traffic' \in [Operators -> [begun : SUBSET Tabs, late : SUBSET Accounts]]
         /\ \A o \in Operators : traffic[o] = Quiet => traffic'[o] = Quiet
         /\ tab' \in [Tabs -> [pc : {"idle", "begun", "wrote"},
              at : Workspaces \cup {Unbound}, cmd : Commands \cup {Missing}]]
         /\ \A u \in Tabs : tab'[u].pc # "idle" => tab'[u] = tab[u]
<1>1. /\ traffic' \in [Operators -> Traffic]
      /\ \A o \in Operators : traffic[o] = Quiet => traffic'[o] = Quiet
  <2>1. traffic' = [o \in Operators |-> Ended(t)[o]]
    BY DEF Rollback, Ended
  <2> QED
    BY <2>1, EndedTraffic
<1>2. /\ tab' \in [Tabs -> [pc : {"idle", "begun", "wrote"},
             at : Workspaces \cup {Unbound}, cmd : Commands \cup {Missing}]]
      /\ \A u \in Tabs : tab'[u].pc # "idle" => tab'[u] = tab[u]
  BY DEF TypeOK, Rollback, Closed
<1> QED
  BY <1>1, <1>2 DEF Traffic

(* Every step keeps the types.                                                *)
LEMMA TypeStep ==
  ASSUME TypeOK, Shape, [Next]_vars
  PROVE  TypeOK' /\ Shape'
<1>1. ASSUME NEW a \in Accounts, NEW there \in Destined[a], Attach(a, there)
      PROVE  TypeOK' /\ Shape'
  <2>1. there \in SUBSET Workspaces
    BY ActivationAssumption
  <2> QED
    BY <1>1, <2>1 DEF Attach, TypeOK, Shape, history
<1>2. ASSUME NEW a \in Accounts, NEW w \in Workspaces, Revoke(a, w) \/ Reinstate(a, w)
      PROVE  TypeOK' /\ Shape'
  <2>1. used' \in [begins : Nat, changes : Nat, deaths : Nat]
    <3>1. CASE Revoke(a, w)
      <4>1. used \in [begins : Nat, changes : Nat, deaths : Nat]
        BY DEF TypeOK
      <4>2. used' = [used EXCEPT !.changes = @ + 1]
        BY <3>1 DEF Revoke
      <4> QED
        BY <4>1, <4>2
    <3>2. CASE Reinstate(a, w)
      BY <3>2 DEF Reinstate, TypeOK
    <3> QED
      BY <1>2, <3>1, <3>2
  <2>2. member' \in [Accounts -> SUBSET Workspaces]
    <3>1. member[a] \ {w} \in SUBSET Workspaces /\ member[a] \cup {w} \in SUBSET Workspaces
      BY DEF TypeOK
    <3>2. \/ member' = [member EXCEPT ![a] = member[a] \ {w}]
          \/ member' = [member EXCEPT ![a] = member[a] \cup {w}]
      BY <1>2 DEF Revoke, Reinstate
    <3> QED
      BY <3>1, <3>2 DEF TypeOK
  <2>3. UNCHANGED <<epoch, barrier, attach, log, inventory, receipts, contexts, op, traffic, tab>>
    BY <1>2 DEF Revoke, Reinstate, history
  <2> QED
    BY <2>1, <2>2, <2>3 DEF TypeOK, Shape
<1>3. ASSUME NEW o \in Operators, NEW w \in Workspaces, Activate(o, w)
      PROVE  TypeOK' /\ Shape'
  BY <1>3 DEF Activate, TypeOK, Shape, rights, history
<1>4. ASSUME NEW o \in Operators, NEW w \in Workspaces, Resume(o, w)
      PROVE  TypeOK' /\ Shape'
  BY <1>4 DEF Resume, TypeOK, Shape, rights, history
<1>5. ASSUME NEW t \in Tabs, NEW w \in Workspaces \cup {Unbound}, NEW c \in Commands,
             Begin(t, w, c)
      PROVE  TypeOK' /\ Shape'
  <2>1. /\ traffic' \in [Operators -> Traffic]
        /\ \A o \in Operators : op[o].pc = "idle" => traffic'[o] = traffic[o]
    <3>1. /\ traffic' = [o \in Operators |->
               IF Stamped(o) THEN [traffic[o] EXCEPT !.begun = @ \cup {t}]
               ELSE traffic[o]]
          /\ traffic \in [Operators -> Traffic]
      BY <1>5 DEF Begin, TypeOK, Traffic
    <3> QED BY <3>1 DEF Traffic, Stamped
  <2>2. /\ tab' \in [Tabs -> [pc : {"idle", "begun", "wrote"},
              at : Workspaces \cup {Unbound}, cmd : Commands \cup {Missing}]]
        /\ \A u \in Tabs : tab'[u] = tab[u] \/ tab'[u].cmd = c
    BY <1>5 DEF Begin, TypeOK
  <2>3. UNCHANGED <<epoch, barrier, attach, member, log, inventory, receipts, contexts, op>>
        /\ used' \in [begins : Nat, changes : Nat, deaths : Nat]
    <3>1. used \in [begins : Nat, changes : Nat, deaths : Nat]
      BY DEF TypeOK
    <3> QED BY <1>5, <3>1 DEF Begin, rights, history
  <2> QED
    BY <2>1, <2>2, <2>3 DEF TypeOK, Shape, Traffic
<1>6. ASSUME NEW t \in Tabs, Write(t)
      PROVE  TypeOK' /\ Shape'
  <2>1. /\ tab' \in [Tabs -> [pc : {"idle", "begun", "wrote"},
              at : Workspaces \cup {Unbound}, cmd : Commands \cup {Missing}]]
        /\ \A u \in Tabs : tab'[u].cmd = tab[u].cmd /\ (tab[u].pc = "idle" => tab'[u].pc = "idle")
    <3>1. tab[t] \in [pc : {"idle", "begun", "wrote"},
            at : Workspaces \cup {Unbound}, cmd : Commands \cup {Missing}]
      BY DEF TypeOK
    <3>2. tab' = [tab EXCEPT ![t] = [tab[t] EXCEPT !.pc = "wrote"]] /\ tab[t].pc = "begun"
      BY <1>6 DEF Write
    <3>3. /\ [tab[t] EXCEPT !.pc = "wrote"] \in [pc : {"idle", "begun", "wrote"},
               at : Workspaces \cup {Unbound}, cmd : Commands \cup {Missing}]
          /\ [tab[t] EXCEPT !.pc = "wrote"].cmd = tab[t].cmd
      BY <3>1
    <3> QED
      BY <3>2, <3>3 DEF TypeOK
  <2>2. UNCHANGED <<epoch, barrier, attach, member, log, inventory, receipts, contexts, op, traffic, used>>
    BY <1>6 DEF Write, rights, history
  <2> QED
    BY <2>1, <2>2 DEF TypeOK, Shape
<1>7. ASSUME NEW t \in Tabs, Rollback(t), UNCHANGED <<epoch, barrier, rights, history, op>>,
             used' \in [begins : Nat, changes : Nat, deaths : Nat]
      PROVE  TypeOK' /\ Shape'
  BY <1>7, TypeRollback DEF TypeOK, Shape, rights, history
<1>8. ASSUME NEW o \in Operators, Stop(o), UNCHANGED <<epoch, rights, history, tab>>,
             barrier' \in [Workspaces -> BOOLEAN],
             used' \in [begins : Nat, changes : Nat, deaths : Nat]
      PROVE  TypeOK' /\ Shape'
  BY <1>8, TypeStop DEF TypeOK, Shape, rights, history
<1>9. ASSUME NEW o \in Operators, op[o].pc # "idle",
             NEW pc \in {"cut", "events", "checked", "verified"}, At(o, pc),
             UNCHANGED <<epoch, barrier, rights, history, tab, used>>
      PROVE  TypeOK' /\ Shape'
  BY <1>9, TypeAt DEF TypeOK, Shape, rights, history
<1>10. ASSUME NEW o \in Operators, Operate(o)
       PROVE  TypeOK' /\ Shape'
  <2>1. CASE Enter(o)
    BY <1>8, <1>9, <2>1 DEF Enter, TypeOK
  <2>2. CASE LockEvents(o)
    BY <1>9, <2>2 DEF LockEvents
  <2>3. CASE CutOver(o)
    BY <2>3, TypeCutOver
  <2>4. CASE Unqualified(o)
    BY <1>8, <2>4 DEF Unqualified, TypeOK
  <2>5. CASE Check(o)
    BY <1>8, <1>9, <2>5 DEF Check, TypeOK
  <2>6. CASE Readback(o)
    BY <1>8, <1>9, <2>6 DEF Readback, TypeOK
  <2>7. CASE Open(o)
    <3>1. barrier' \in [Workspaces -> BOOLEAN]
      BY <2>7 DEF Open, TypeOK
    <3> QED
      BY <1>8, <2>7, <3>1 DEF Open, TypeOK
  <2>8. ASSUME NEW t \in Tabs, Deadlock(o, t)
        PROVE  TypeOK' /\ Shape'
    BY <1>7, <1>8, <2>8 DEF Deadlock, TypeOK
  <2> QED
    BY <1>10, <2>1, <2>2, <2>3, <2>4, <2>5, <2>6, <2>7, <2>8 DEF Operate
<1>11. ASSUME NEW t \in Tabs, Proceed(t)
       PROVE  TypeOK' /\ Shape'
  BY <1>6, <1>7, <1>11, TypeCommit DEF Proceed, Refuse, TypeOK
<1>12. ASSUME Die
       PROVE  TypeOK' /\ Shape'
  <2>1. used' \in [begins : Nat, changes : Nat, deaths : Nat]
    <3>1. /\ used \in [begins : Nat, changes : Nat, deaths : Nat]
          /\ used' = [used EXCEPT !.deaths = @ + 1]
      BY <1>12 DEF Die, TypeOK
    <3> QED BY <3>1
  <2> QED
    BY <1>7, <1>8, <1>12, <2>1 DEF Die, TypeOK
<1>13. CASE UNCHANGED vars
  BY <1>13 DEF vars, TypeOK, Shape
<1> QED
  BY <1>1, <1>2, <1>3, <1>4, <1>5, <1>10, <1>11, <1>12, <1>13
  DEF Next, BeginLegacy, BeginScoped

-----------------------------------------------------------------------------
(* The histories.                                                             *)

Histories == NothingLeftBehind /\ NothingUnderneath /\ Scoped

(* A step that appends and binds nothing.                                     *)
LEMMA HistoriesKept ==
  ASSUME Histories, UNCHANGED <<log, inventory>>, Dropped' = Dropped,
         \A t \in Tabs : tab'[t].pc # "idle" /\ tab'[t].at # Unbound =>
           \/ tab[t].pc # "idle" /\ tab[t].at # Unbound
           \/ Dropped /\ Loose(Owner[t]) = {}
  PROVE  Histories'
<1>1. \A a : Loose(a)' = Loose(a)
  BY DEF Loose, Of
<1>2. NothingLeftBehind' /\ NothingUnderneath'
  BY <1>1 DEF Histories, NothingLeftBehind, NothingUnderneath
<1>3. Scoped'
  BY <1>1 DEF Histories, Scoped
<1> QED
  BY <1>2, <1>3 DEF Histories

\* A COMMIT keeps the histories: the deferred triggers refused what would not.
LEMMA HistoriesCommit ==
  ASSUME TypeOK, Shape, Histories, NEW t \in Tabs, Commit(t)
  PROVE  Histories'
<1> DEFINE a == Owner[t]
           w == tab[t].at
           c == tab[t].cmd
<1>1. a \in Accounts /\ w \in Workspaces \cup {Unbound} /\ c \in Commands
  BY ActivationAssumption DEF Commit, TypeOK, Shape
<1>2. PICK h \in HeadOf(a, w, Does[c].on) \cup {0} :
        log' = IF Idle(c, h) THEN log ELSE Appended(a, w, c, h)
  BY DEF Commit
<1>3. h \in DOMAIN log \cup {0}
  BY DEF HeadOf, Of
<1>4. /\ w # Unbound \/ ~Dropped
      /\ w # Unbound => Dropped /\ Loose(a) = {}
  BY DEF Commit, Admitted, Histories, Scoped
<1>5. /\ Dropped' = Dropped /\ inventory' = inventory
      /\ \A u \in Tabs : tab'[u].pc # "idle" => tab'[u] = tab[u]
  BY DEF Commit, Dropped, Closed, TypeOK
<1>6. CASE log' = log
  BY <1>5, <1>6, HistoriesKept
<1>7. CASE log' = Appended(a, w, c, h)
  <2> HIDE DEF a, w, c
  <2>1. /\ DOMAIN log' = 1 .. Len(log) + 1
        /\ DOMAIN log = 1 .. Len(log) /\ Len(log) \in Nat
        /\ \A i \in DOMAIN log :
             /\ log'[i].owner = log[i].owner
             /\ log'[i].home = log[i].home
             /\ log'[i].via = log[i].via
        /\ log'[Len(log) + 1].owner = a
        /\ log'[Len(log) + 1].home = w
        /\ log'[Len(log) + 1].via = w
    <3>1. /\ DOMAIN Appended(a, w, c, h) = 1 .. Len(log) + 1
          /\ DOMAIN log = 1 .. Len(log) /\ Len(log) \in Nat
      BY <1>1, <1>3, AppendedLast
    <3>2. ASSUME NEW i \in DOMAIN log
          PROVE  /\ Appended(a, w, c, h)[i].owner = log[i].owner
                 /\ Appended(a, w, c, h)[i].home = log[i].home
                 /\ Appended(a, w, c, h)[i].via = log[i].via
      BY <1>1, <1>3, AppendedSame
    <3>3. /\ Appended(a, w, c, h)[Len(log) + 1].owner = a
          /\ Appended(a, w, c, h)[Len(log) + 1].home = w
          /\ Appended(a, w, c, h)[Len(log) + 1].via = w
      BY <1>1, <1>3, AppendedLast
    <3> QED
      BY <1>7, <3>1, <3>2, <3>3
  <2>2. \A i \in DOMAIN log' : i \in DOMAIN log \/ i = Len(log) + 1
    BY <2>1
  <2>3. CASE w = Unbound
    <3>1. ~Dropped /\ ~Dropped'
      BY <1>4, <1>5, <2>3
    <3>2. \A i \in DOMAIN log : log[i].via = Unbound
      BY <3>1 DEF Histories, Scoped
    <3>3. \A i \in DOMAIN log' : log'[i].via = Unbound
      BY <2>1, <2>2, <2>3, <3>2
    <3>4. \A u \in Tabs : tab'[u].pc # "idle" => tab'[u].at = Unbound
      BY <1>5, <3>1 DEF Histories, Scoped
    <3> QED
      BY <3>1, <3>3, <3>4 DEF Histories, NothingLeftBehind, NothingUnderneath, Scoped
  <2>4. CASE w # Unbound
    <3>1. Dropped /\ Dropped' /\ Loose(a) = {}
      BY <1>4, <1>5, <2>4
    <3>2. \A b : Loose(b)' = Loose(b)
      BY <2>1, <2>2, <2>4 DEF Loose, Of
    <3>3. NothingLeftBehind'
      BY <1>5, <2>1, <2>2, <2>4, <3>1 DEF Histories, NothingLeftBehind
    <3>4. NothingUnderneath'
      BY <2>1, <2>2, <3>1, <3>2 DEF Histories, NothingUnderneath
    <3>5. Scoped'
      BY <1>5, <3>1, <3>2 DEF Histories, Scoped
    <3> QED
      BY <3>3, <3>4, <3>5 DEF Histories
  <2> QED
    BY <2>3, <2>4
<1> QED
  BY <1>2, <1>6, <1>7

\* The cutover keeps them: it binds under the lock of the events.
LEMMA HistoriesCutOver ==
  ASSUME TypeOK, Shape, Histories, NEW o \in Operators, CutOver(o)
  PROVE  Histories'
<1> DEFINE w == op[o].ws
<1>1. w \in Workspaces
  BY DEF CutOver, Shape
<1>2. /\ log' = BoundLog(w)
      /\ epoch' = [epoch EXCEPT ![w] = "scoped"]
      /\ tab' = tab /\ \A t \in Tabs : tab[t].pc = "idle"
      /\ inventory' = IF Dropped THEN inventory
           ELSE {i \in DOMAIN log : BoundLog(w)[i].home = Unbound}
  BY DEF CutOver
<1> HIDE DEF w
<1>3. /\ DOMAIN log' = DOMAIN log
      /\ \A i \in DOMAIN log :
           /\ log'[i].owner = log[i].owner
           /\ log'[i].via = log[i].via
           /\ log'[i].home = Unbound => log[i].home = Unbound
  BY <1>1, <1>2, BoundRow
<1>4. Dropped'
  BY <1>1, <1>2 DEF Dropped, TypeOK
<1>5. \A a : Loose(a)' \subseteq Loose(a)
  BY <1>3 DEF Loose, Of
<1>6. NothingLeftBehind'
  BY <1>2, <1>3 DEF Histories, NothingLeftBehind
<1>7. NothingUnderneath'
  BY <1>3, <1>5 DEF Histories, NothingUnderneath
<1>8. Scoped'
  BY <1>2, <1>4 DEF Scoped
<1> QED
  BY <1>6, <1>7, <1>8 DEF Histories

(* The tabs of a step that is none of the two.                                *)
LEMMA HistoriesStep ==
  ASSUME TypeOK, Shape, Histories, [Next]_vars
  PROVE  Histories'
<1>1. ASSUME UNCHANGED <<epoch, log, inventory, tab>>
      PROVE  Histories'
  BY <1>1, HistoriesKept DEF Dropped
<1>2. ASSUME NEW t \in Tabs, Rollback(t), UNCHANGED <<epoch, log, inventory>>
      PROVE  Histories'
  <2>1. \A u \in Tabs : tab'[u].pc # "idle" => tab'[u] = tab[u]
    BY <1>2, TypeRollback
  <2> QED
    BY <1>2, <2>1, HistoriesKept DEF Dropped
<1>3. ASSUME NEW a \in Accounts, NEW there, Attach(a, there)
      PROVE  Histories'
  BY <1>1, <1>3 DEF Attach, history
<1>4. ASSUME NEW a \in Accounts, NEW w \in Workspaces, Revoke(a, w) \/ Reinstate(a, w)
      PROVE  Histories'
  BY <1>1, <1>4 DEF Revoke, Reinstate, history
<1>5. ASSUME NEW o \in Operators, NEW w \in Workspaces, Activate(o, w)
      PROVE  Histories'
  <2>1. Dropped' = Dropped
    BY <1>5 DEF Activate, Dropped, TypeOK
  <2> QED
    BY <1>5, <2>1, HistoriesKept DEF Activate, history
<1>6. ASSUME NEW o \in Operators, NEW w \in Workspaces, Resume(o, w)
      PROVE  Histories'
  BY <1>1, <1>6 DEF Resume, history
<1>7. ASSUME NEW t \in Tabs, NEW c \in Commands, BeginLegacy(t, c)
      PROVE  Histories'
  <2>1. \A u \in Tabs : tab'[u] = tab[u] \/ tab'[u].at = Unbound
    BY <1>7 DEF BeginLegacy, Begin, TypeOK
  <2> QED
    BY <1>7, <2>1, HistoriesKept DEF BeginLegacy, Begin, history, Dropped
<1>8. ASSUME NEW t \in Tabs, NEW w \in Workspaces, NEW c \in Commands, BeginScoped(t, w, c)
      PROVE  Histories'
  <2>1. \A u \in Tabs : tab'[u] = tab[u] \/ u = t
    BY <1>8 DEF BeginScoped, Begin, TypeOK
  <2>2. Dropped /\ Loose(Owner[t]) = {}
    BY <1>8 DEF BeginScoped, IsOpen, Dropped
  <2> QED
    BY <1>8, <2>1, <2>2, HistoriesKept DEF BeginScoped, Begin, history, Dropped
<1>9. ASSUME NEW t \in Tabs, Write(t)
      PROVE  Histories'
  <2>1. \A u \in Tabs : tab'[u] = tab[u] \/ (tab[u].pc = "begun" /\ tab'[u].at = tab[u].at)
    BY <1>9 DEF Write, TypeOK
  <2> QED
    BY <1>9, <2>1, HistoriesKept DEF Write, history, Dropped
<1>10. ASSUME NEW t \in Tabs, Proceed(t)
       PROVE  Histories'
  BY <1>2, <1>9, <1>10, HistoriesCommit DEF Proceed, Refuse, history
<1>11. ASSUME NEW o \in Operators, Operate(o)
       PROVE  Histories'
  <2>1. CASE CutOver(o)
    BY <2>1, HistoriesCutOver
  <2>2. CASE Enter(o) \/ LockEvents(o) \/ Unqualified(o) \/ Check(o) \/ Readback(o) \/ Open(o)
    BY <1>1, <2>2 DEF Enter, LockEvents, Unqualified, Check, Readback, Open, history
  <2>3. ASSUME NEW t \in Tabs, Deadlock(o, t)
        PROVE  Histories'
    BY <1>1, <1>2, <2>3 DEF Deadlock, history
  <2> QED
    BY <1>11, <2>1, <2>2, <2>3 DEF Operate
<1>12. ASSUME Die
       PROVE  Histories'
  BY <1>1, <1>2, <1>12 DEF Die, history
<1>13. CASE UNCHANGED vars
  BY <1>1, <1>13 DEF vars
<1> QED
  BY <1>3, <1>4, <1>5, <1>6, <1>7, <1>8, <1>10, <1>11, <1>12, <1>13 DEF Next

-----------------------------------------------------------------------------
(* The barriers.                                                              *)
LEMMA FenceStep ==
  ASSUME TypeOK, Shape, Fence, [Next]_vars
  PROVE  Fence'
<1>1. ASSUME UNCHANGED <<epoch, barrier>>,
             \A o \in Operators :
               op'[o].pc \in {"stamped", "cut", "events"} =>
                 op[o].pc \in {"stamped", "cut", "events"} /\ op'[o].ws = op[o].ws
      PROVE  Fence'
  BY <1>1 DEF Fence
<1>2. ASSUME NEW o \in Operators, Stop(o), UNCHANGED <<epoch, barrier>>
      PROVE  Fence'
  BY <1>1, <1>2 DEF Stop, Free, TypeOK
<1>3. ASSUME NEW a \in Accounts, NEW there, Attach(a, there)
      PROVE  Fence'
  BY <1>1, <1>3 DEF Attach
<1>4. ASSUME NEW a \in Accounts, NEW w \in Workspaces, Revoke(a, w) \/ Reinstate(a, w)
      PROVE  Fence'
  BY <1>1, <1>4 DEF Revoke, Reinstate
<1>5. ASSUME NEW o \in Operators, NEW w \in Workspaces, Activate(o, w)
      PROVE  Fence'
  <2>1. /\ epoch' = [epoch EXCEPT ![w] = "legacy"] /\ barrier' = [barrier EXCEPT ![w] = TRUE]
        /\ op' = [op EXCEPT ![o] = [pc |-> "stamped", ws |-> w]]
    BY <1>5 DEF Activate
  <2> QED
    BY <2>1 DEF Fence, TypeOK
<1>6. ASSUME NEW o \in Operators, NEW w \in Workspaces, Resume(o, w)
      PROVE  Fence'
  BY <1>1, <1>6 DEF Resume, TypeOK
<1>7. ASSUME NEW t \in Tabs, NEW w, NEW c, Begin(t, w, c)
      PROVE  Fence'
  BY <1>1, <1>7 DEF Begin
<1>8. ASSUME NEW t \in Tabs, Proceed(t)
      PROVE  Fence'
  BY <1>1, <1>8 DEF Proceed, Write, Commit, Refuse
<1>9. ASSUME NEW o \in Operators, Operate(o)
      PROVE  Fence'
  <2>1. CASE Enter(o) \/ LockEvents(o)
    <3>1. CASE Stop(o)
      BY <1>2, <2>1, <3>1 DEF Enter, LockEvents
    <3>2. CASE At(o, "cut") /\ op[o].pc = "stamped"
      BY <1>1, <2>1, <3>2 DEF At, Enter, LockEvents, TypeOK
    <3>3. CASE At(o, "events") /\ op[o].pc = "cut"
      BY <1>1, <2>1, <3>3 DEF At, Enter, LockEvents, TypeOK
    <3> QED
      BY <2>1, <3>1, <3>2, <3>3 DEF Enter, LockEvents
  <2>2. CASE CutOver(o)
    <3>1. /\ epoch' = [epoch EXCEPT ![op[o].ws] = "scoped"] /\ barrier' = barrier
          /\ op[o].ws \in Workspaces
      BY <2>2 DEF CutOver, Shape
    <3>2. \A p \in Operators :
            op'[p].pc \in {"stamped", "cut", "events"} => op'[p] = op[p]
      BY <2>2 DEF CutOver, Stop, Free, TypeOK
    <3> QED
      BY <3>1, <3>2 DEF Fence, TypeOK
  <2>3. CASE Unqualified(o)
    BY <1>2, <2>3 DEF Unqualified
  <2>4. CASE Check(o) \/ Readback(o)
    <3>1. CASE Stop(o)
      BY <1>2, <2>4, <3>1 DEF Check, Readback
    <3>2. CASE At(o, "checked") \/ At(o, "verified")
      <4>1. /\ \A p \in Operators :
                 op'[p].pc \in {"stamped", "cut", "events"} => op'[p] = op[p]
            /\ UNCHANGED <<epoch, barrier>>
        BY <1>1, <2>4, <3>2, AtMoves DEF Check, Readback
      <4> QED BY <4>1 DEF Fence
    <3> QED
      BY <2>4, <3>1, <3>2 DEF Check, Readback
  <2>5. CASE Open(o)
    <3>1. /\ epoch' = epoch
          /\ \A w \in Workspaces : barrier'[w] = barrier[w] \/ epoch[w] = "scoped"
      BY <2>5 DEF Open, Openable, TypeOK
    <3>2. \A p \in Operators :
            op'[p].pc \in {"stamped", "cut", "events"} => op'[p] = op[p]
      BY <2>5 DEF Open, Stop, Free, TypeOK
    <3> QED
      BY <3>1, <3>2 DEF Fence
  <2>6. ASSUME NEW t \in Tabs, Deadlock(o, t)
        PROVE  Fence'
    BY <1>1, <1>2, <2>6 DEF Deadlock
  <2> QED
    BY <1>9, <2>1, <2>2, <2>3, <2>4, <2>5, <2>6 DEF Operate
<1>10. ASSUME Die
       PROVE  Fence'
  BY <1>1, <1>2, <1>10 DEF Die
<1>11. CASE UNCHANGED vars
  BY <1>1, <1>11 DEF vars
<1> QED
  BY <1>3, <1>4, <1>5, <1>6, <1>7, <1>8, <1>9, <1>10, <1>11
  DEF Next, BeginLegacy, BeginScoped

-----------------------------------------------------------------------------
(* The workspace between its fence and its switch.                            *)
LEMMA ExclusiveStep ==
  ASSUME TypeOK, Shape, Exclusive, [Next]_vars
  PROVE  Exclusive'
<1>1. ASSUME UNCHANGED epoch,
             \A o \in Operators : Between(o)' => Between(o) /\ op'[o].ws = op[o].ws
      PROVE  Exclusive'
  BY <1>1 DEF Exclusive
<1>2. ASSUME NEW o \in Operators, Stop(o), UNCHANGED epoch
      PROVE  Exclusive'
  BY <1>1, <1>2 DEF Stop, Free, Between, TypeOK
<1>3. ASSUME NEW a \in Accounts, NEW there, Attach(a, there)
      PROVE  Exclusive'
  BY <1>1, <1>3 DEF Attach, Between
<1>4. ASSUME NEW a \in Accounts, NEW w \in Workspaces, Revoke(a, w) \/ Reinstate(a, w)
      PROVE  Exclusive'
  BY <1>1, <1>4 DEF Revoke, Reinstate, Between
<1>5. ASSUME NEW o \in Operators, NEW w \in Workspaces, Activate(o, w)
      PROVE  Exclusive'
  <2>1. /\ epoch' = [epoch EXCEPT ![w] = "legacy"]
        /\ op' = [op EXCEPT ![o] = [pc |-> "stamped", ws |-> w]]
        /\ \A p \in Operators : Between(p) => op[p].ws # w
    BY <1>5 DEF Activate, Locked, Between
  <2>2. \A p \in Operators : Between(p)' => Between(p) /\ op'[p] = op[p]
    BY <2>1 DEF Between, TypeOK
  <2>3. \A p \in Operators : Between(p) => op[p].ws \in Workspaces
    BY DEF Between, Shape
  <2>4. \A p \in Operators : Between(p) => epoch'[op[p].ws] = epoch[op[p].ws]
    BY <2>1, <2>3 DEF TypeOK
  <2> QED
    BY <2>2, <2>4 DEF Exclusive
<1>6. ASSUME NEW o \in Operators, NEW w \in Workspaces, Resume(o, w)
      PROVE  Exclusive'
  BY <1>1, <1>6 DEF Resume, Between, TypeOK
<1>7. ASSUME NEW t \in Tabs, NEW w, NEW c, Begin(t, w, c)
      PROVE  Exclusive'
  BY <1>1, <1>7 DEF Begin, Between
<1>8. ASSUME NEW t \in Tabs, Proceed(t)
      PROVE  Exclusive'
  BY <1>1, <1>8 DEF Proceed, Write, Commit, Refuse, Between
<1>9. ASSUME NEW o \in Operators, Operate(o)
      PROVE  Exclusive'
  <2>1. CASE Enter(o)
    <3>1. CASE Stop(o)
      BY <1>2, <2>1, <3>1 DEF Enter
    <3>2. CASE At(o, "cut") /\ epoch[op[o].ws] = "legacy"
      <4>1. \A p \in Operators : Between(p) => op[p].ws # op[o].ws
        BY <2>1 DEF Enter, Locked, Between
      <4>2. \A p \in Operators : op'[p].ws = op[p].ws /\ (p # o => op'[p] = op[p])
        BY <3>2 DEF At, TypeOK
      <4> QED
        BY <2>1, <3>2, <4>1, <4>2 DEF Enter, Exclusive, Between
    <3> QED
      BY <2>1, <3>1, <3>2 DEF Enter
  <2>2. CASE LockEvents(o)
    BY <1>1, <2>2 DEF LockEvents, At, Between, TypeOK
  <2>3. CASE CutOver(o)
    <3>1. /\ epoch' = [epoch EXCEPT ![op[o].ws] = "scoped"]
          /\ op[o].ws \in Workspaces /\ Between(o)
      BY <2>3 DEF CutOver, Shape, Between
    <3>2. \A p \in Operators : Between(p)' => p # o /\ op'[p] = op[p]
      BY <2>3 DEF CutOver, Stop, Free, Between, TypeOK
    <3>3. \A p \in Operators : Between(p)' => Between(p) /\ op[p].ws # op[o].ws
      BY <3>1, <3>2 DEF Exclusive, Between
    <3>4. \A p \in Operators : Between(p)' => op[p].ws \in Workspaces
      BY <3>3 DEF Shape, Between
    <3>5. \A p \in Operators : Between(p)' => epoch'[op[p].ws] = epoch[op[p].ws]
      BY <3>1, <3>3, <3>4 DEF TypeOK
    <3> QED
      BY <3>2, <3>3, <3>5 DEF Exclusive
  <2>4. CASE Unqualified(o) \/ Open(o)
    BY <1>2, <2>4 DEF Unqualified, Open
  <2>5. CASE Check(o) \/ Readback(o)
    <3>1. CASE Stop(o)
      BY <1>2, <2>5, <3>1 DEF Check, Readback
    <3>2. CASE At(o, "checked") \/ At(o, "verified")
      <4>1. \A p \in Operators : Between(p)' => Between(p) /\ op'[p].ws = op[p].ws
        BY <1>1, <3>2, AtMoves DEF Between
      <4> QED
        BY <1>1, <2>5, <4>1 DEF Check, Readback
    <3> QED
      BY <2>5, <3>1, <3>2 DEF Check, Readback
  <2>6. ASSUME NEW t \in Tabs, Deadlock(o, t)
        PROVE  Exclusive'
    BY <1>1, <1>2, <2>6 DEF Deadlock, Between
  <2> QED
    BY <1>9, <2>1, <2>2, <2>3, <2>4, <2>5, <2>6 DEF Operate
<1>10. ASSUME Die
       PROVE  Exclusive'
  BY <1>1, <1>2, <1>10 DEF Die, Between
<1>11. CASE UNCHANGED vars
  BY <1>1, <1>11 DEF vars, Between
<1> QED
  BY <1>3, <1>4, <1>5, <1>6, <1>7, <1>8, <1>9, <1>10, <1>11
  DEF Next, BeginLegacy, BeginScoped

-----------------------------------------------------------------------------
(* The receipts.                                                              *)

(* A step that writes no event, no receipt and no context: an attachment is   *)
(* for ever, and so is a switch.                                              *)
LEMMA ReceiptsKept ==
  ASSUME Receipts, UNCHANGED <<log, receipts, contexts>>,
         \A w \in Workspaces : epoch[w] = "scoped" => epoch'[w] = "scoped",
         \A a \in Accounts : attach[a] # {} => attach'[a] = attach[a]
  PROVE  Receipts'
<1>1. Dropped => Dropped'
  BY DEF Dropped
<1>2. ReceiptsFollow'
  BY DEF Receipts, ReceiptsFollow
<1>3. ASSUME NEW a \in Accounts, NEW c \in Commands
      PROVE  /\ Answered(a, c)'
             /\ ~Dropped' => contexts'[a][c] = Missing
             /\ LeftOut(a, c)' =>
                  \E w \in Workspaces : attach'[a] = {w} /\ epoch'[w] = "scoped"
  BY <1>1 DEF Receipts, Answered, LeftOut
<1> QED
  BY <1>2, <1>3 DEF Receipts

(* A transaction settles the receipt it writes in its own stream; without a   *)
(* stream, it commits before the first switch.                                *)
LEMMA ReceiptsCommit ==
  ASSUME TypeOK, Shape, Histories, Receipts, NEW t \in Tabs, Commit(t)
  PROVE  Receipts'
<1> DEFINE a == Owner[t]
           w == tab[t].at
           c == tab[t].cmd
           r == receipts'[a][c]
<1>1. a \in Accounts /\ w \in Workspaces \cup {Unbound} /\ c \in Commands
  BY ActivationAssumption DEF Commit, TypeOK, Shape
<1>2. PICK h \in HeadOf(a, w, Does[c].on) \cup {0} :
        /\ log' = IF Idle(c, h) THEN log ELSE Appended(a, w, c, h)
        /\ receipts' = [receipts EXCEPT ![a][c] = IF Idle(c, h) THEN h ELSE Len(log) + 1]
  BY DEF Commit
<1>3. h \in DOMAIN log \cup {0}
  BY DEF HeadOf, Of
<1>4. /\ w = Unbound => ~Dropped
      /\ w # Unbound => Dropped
      /\ epoch' = epoch /\ attach' = attach
      /\ contexts' = IF w = Unbound THEN contexts
           ELSE [contexts EXCEPT ![a][c] = [ws |-> w, settled |-> TRUE]]
  BY DEF Commit, Admitted, Histories, Scoped, rights
<1> HIDE DEF a, w, c
<1>5. h = 0 \/ (log[h].owner = a /\ log[h].home = w)
  <2>1. h = 0 \/ h \in HeadOf(a, w, Does[c].on)
    BY <1>2
  <2> QED
    BY <2>1 DEF HeadOf, Of
<1>6. /\ DOMAIN Appended(a, w, c, h) = 1 .. Len(log) + 1
      /\ DOMAIN log = 1 .. Len(log) /\ Len(log) \in Nat
      /\ Appended(a, w, c, h)[Len(log) + 1].owner = a
      /\ Appended(a, w, c, h)[Len(log) + 1].home = w
  BY <1>1, <1>3, AppendedRow
<1>7. /\ DOMAIN log \subseteq DOMAIN log' /\ DOMAIN log' \subseteq Nat \ {0}
      /\ \A i \in DOMAIN log :
           log'[i].owner = log[i].owner /\ log'[i].home = log[i].home
  <2>1. ASSUME NEW i \in DOMAIN log
        PROVE  /\ Appended(a, w, c, h)[i].owner = log[i].owner
               /\ Appended(a, w, c, h)[i].home = log[i].home
    BY <1>1, <1>3, AppendedSame
  <2> QED
    BY <1>2, <1>6, <2>1
<1>8. r \in Nat /\ (r = 0 \/ (r \in DOMAIN log' /\ log'[r].owner = a /\ log'[r].home = w))
  <2>1. r = IF Idle(c, h) THEN h ELSE Len(log) + 1
    BY <1>1, <1>2 DEF TypeOK
  <2> HIDE DEF r
  <2>2. CASE Idle(c, h)
    <3>1. r = h /\ log' = log
      BY <1>2, <2>1, <2>2
    <3> QED
      BY <1>3, <1>5, <1>6, <3>1
  <2>3. CASE ~Idle(c, h)
    <3>1. r = Len(log) + 1 /\ log' = Appended(a, w, c, h)
      BY <1>2, <2>1, <2>3
    <3> QED
      BY <1>6, <3>1
  <2> QED
    BY <2>2, <2>3
<1>9. \A b \in Accounts, d \in Commands :
        ~(b = a /\ d = c) =>
          receipts'[b][d] = receipts[b][d] /\ contexts'[b][d] = contexts[b][d]
  BY <1>1, <1>2, <1>4 DEF TypeOK
<1>10. w # Unbound => contexts'[a][c] = [ws |-> w, settled |-> TRUE]
  BY <1>1, <1>4 DEF TypeOK
<1>11. Dropped' = Dropped
  BY <1>4 DEF Dropped
<1>12. ASSUME NEW b \in Accounts, NEW d \in Commands
       PROVE  /\ receipts'[b][d] \in DOMAIN log' /\ log'[receipts'[b][d]].home # Unbound =>
                   contexts'[b][d] = [ws |-> log'[receipts'[b][d]].home, settled |-> TRUE]
              /\ Answered(b, d)'
              /\ ~Dropped' => contexts'[b][d] = Missing
              /\ LeftOut(b, d)' =>
                   \E v \in Workspaces : attach'[b] = {v} /\ epoch'[v] = "scoped"
  <2>1. CASE b = a /\ d = c
    <3>1. r = 0 => r \notin DOMAIN log'
      BY <1>7
    <3>2. CASE w = Unbound
      <4>1. contexts' = contexts /\ ~Dropped
        BY <1>4, <3>2
      <4>2. contexts'[a][c] = Missing
        BY <1>1, <4>1 DEF Receipts
      <4> QED
        BY <1>8, <2>1, <3>1, <3>2, <4>2 DEF Answered, LeftOut
    <3>3. CASE w # Unbound
      BY <1>4, <1>8, <1>10, <1>11, <2>1, <3>1, <3>3 DEF Answered, LeftOut
    <3> QED
      BY <3>2, <3>3
  <2>2. CASE ~(b = a /\ d = c)
    <3>1. receipts'[b][d] = receipts[b][d] /\ contexts'[b][d] = contexts[b][d]
      BY <1>9, <2>2
    <3>2. Answered(b, d)
      BY DEF Receipts
    <3>3. receipts[b][d] \in DOMAIN log' => receipts[b][d] \in DOMAIN log
      BY <1>7, <3>2 DEF Answered
    <3>4. Answered(b, d)'
      BY <1>7, <3>1, <3>2 DEF Answered
    <3>5. ~Dropped' => contexts'[b][d] = Missing
      BY <1>11, <3>1 DEF Receipts
    <3>6. LeftOut(b, d)' => LeftOut(b, d)
      BY <1>7, <3>1, <3>3 DEF LeftOut
    <3>7. LeftOut(b, d)' =>
            \E v \in Workspaces : attach'[b] = {v} /\ epoch'[v] = "scoped"
      BY <1>4, <3>6 DEF Receipts
    <3>8. receipts'[b][d] \in DOMAIN log' /\ log'[receipts'[b][d]].home # Unbound =>
            contexts'[b][d] = [ws |-> log'[receipts'[b][d]].home, settled |-> TRUE]
      BY <1>7, <3>1, <3>3 DEF Receipts, ReceiptsFollow
    <3> QED
      BY <3>4, <3>5, <3>7, <3>8
  <2> QED
    BY <2>1, <2>2
<1> QED
  BY <1>12 DEF Receipts, ReceiptsFollow

(* An event that a cutover binds is of an attached account, none of whose     *)
(* receipts for events left unbound was decided before: the cutover decides   *)
(* them, after the bindings.                                                  *)
LEMMA ReceiptsCutOver ==
  ASSUME TypeOK, Shape, Exclusive, Receipts, NEW o \in Operators, CutOver(o)
  PROVE  Receipts'
<1> DEFINE w == op[o].ws
<1>1. w \in Workspaces /\ epoch[w] = "legacy"
  BY DEF CutOver, Shape, Exclusive, Between
<1>2. /\ log' = BoundLog(w) /\ contexts' = ContextsFor(w)
      /\ epoch' = [epoch EXCEPT ![w] = "scoped"]
      /\ receipts' = receipts /\ attach' = attach
  BY DEF CutOver, rights
<1> HIDE DEF w
<1>3. /\ DOMAIN log' = DOMAIN log /\ DOMAIN log = 1 .. Len(log) /\ Len(log) \in Nat
      /\ \A i \in DOMAIN log :
           /\ log'[i].owner = log[i].owner
           /\ log'[i].home = log[i].home \/
                /\ log[i].home = Unbound /\ log'[i].home = w
                /\ attach[log[i].owner] = {w}
  <2>1. \A i \in DOMAIN log : log[i] \in Row
    BY DEF TypeOK
  <2>2. DOMAIN log' = DOMAIN log
    BY <1>2 DEF BoundLog
  <2>3. ASSUME NEW i \in DOMAIN log
        PROVE  /\ log'[i].owner = log[i].owner
               /\ log'[i].home = log[i].home \/
                    /\ log[i].home = Unbound /\ log'[i].home = w
                    /\ attach[log[i].owner] = {w}
    <3>1. log'[i] = IF i \in Bindable(w) THEN [log[i] EXCEPT !.home = w] ELSE log[i]
      BY <1>2 DEF BoundLog
    <3>2. CASE i \in Bindable(w)
      BY <2>1, <3>1, <3>2 DEF Bindable, Attached, Row
    <3>3. CASE i \notin Bindable(w)
      BY <3>1, <3>3
    <3> QED
      BY <3>2, <3>3
  <2> QED
    BY <2>2, <2>3 DEF TypeOK
<1>4. Dropped' /\ \A v \in Workspaces : epoch[v] = "scoped" => epoch'[v] = "scoped"
  BY <1>1, <1>2 DEF Dropped, TypeOK
<1>5. epoch'[w] = "scoped"
  BY <1>1, <1>2 DEF TypeOK
<1>6. ASSUME NEW b \in Accounts, NEW d \in Commands
      PROVE  /\ receipts'[b][d] \in DOMAIN log' /\ log'[receipts'[b][d]].home # Unbound =>
                  contexts'[b][d] = [ws |-> log'[receipts'[b][d]].home, settled |-> TRUE]
             /\ Answered(b, d)'
             /\ LeftOut(b, d)' =>
                  \E v \in Workspaces : attach'[b] = {v} /\ epoch'[v] = "scoped"
  <2> DEFINE r == receipts[b][d]
  <2>1. receipts'[b][d] = r
    BY <1>2
  <2>2. Answered(b, d)
    BY DEF Receipts
  <2>3. Answered(b, d)'
    BY <1>3, <2>1, <2>2 DEF Answered
  <2>4. contexts'[b][d] =
          IF attach[b] = {w} /\ r # Missing /\ contexts[b][d] = Missing
          THEN [ws |-> w, settled |-> Resolves(r, w)] ELSE contexts[b][d]
    BY <1>2 DEF ContextsFor, Attached
  <2>5. CASE r \notin DOMAIN log
    BY <1>3, <2>1, <2>3, <2>5 DEF LeftOut
  <2>6. CASE r \in DOMAIN log
    <3>1. r \in Nat /\ r # 0 /\ r # Missing /\ r # Opaque
      BY <1>3, <2>6, ActivationAssumption
    <3>2. log[r].owner = b
      BY <2>2, <3>1 DEF Answered
    <3>3. Resolves(r, w) = (log'[r].home = w)
      BY <1>2, <3>1 DEF Resolves
    <3> HIDE DEF r
    <3>4. CASE log[r].home # Unbound
      <4>1. contexts[b][d] = [ws |-> log[r].home, settled |-> TRUE]
        BY <2>6, <3>4 DEF Receipts, ReceiptsFollow, r
      <4>2. contexts[b][d] # Missing
        <5>1. log[r] \in Row
          BY <2>6 DEF TypeOK
        <5>2. log[r].home \in Workspaces
          BY <3>4, <5>1 DEF Row
        <5>3. [ws |-> log[r].home, settled |-> TRUE]
                \in [ws : Workspaces, settled : BOOLEAN]
          BY <5>2
        <5>4. Missing \notin [ws : Workspaces, settled : BOOLEAN]
          BY ActivationAssumption
        <5> QED
          BY <4>1, <5>3, <5>4
      <4>3. contexts'[b][d] = contexts[b][d] /\ log'[r].home = log[r].home
        BY <1>3, <2>4, <2>6, <3>4, <4>2
      <4> QED
        BY <2>1, <2>3, <3>4, <4>1, <4>3 DEF LeftOut
    <3>5. CASE log[r].home = Unbound /\ contexts[b][d] # Missing
      <4>1. PICK v \in Workspaces : attach[b] = {v} /\ epoch[v] = "scoped"
        BY <2>6, <3>5 DEF Receipts, LeftOut, r
      <4>2. attach[b] # {w}
        BY <1>1, <4>1
      <4>3. log'[r].home = Unbound
        BY <1>3, <2>6, <3>2, <3>5, <4>2
      <4>4. attach'[b] = {v} /\ epoch'[v] = "scoped"
        BY <1>2, <1>4, <4>1
      <4> QED
        BY <2>1, <2>3, <4>3, <4>4
    <3>6. CASE log[r].home = Unbound /\ contexts[b][d] = Missing
      <4>1. CASE log'[r].home = Unbound
        <5>1. contexts'[b][d] # Missing => attach[b] = {w}
          BY <2>4, <3>6
        <5> QED
          BY <1>1, <1>2, <1>5, <2>1, <2>3, <4>1, <5>1 DEF LeftOut
      <4>2. CASE log'[r].home # Unbound
        <5>1. log'[r].home = w /\ attach[b] = {w}
          BY <1>3, <2>6, <3>2, <3>6, <4>2
        <5>2. contexts'[b][d] = [ws |-> w, settled |-> TRUE]
          BY <2>4, <3>1, <3>3, <3>6, <5>1
        <5> QED
          BY <2>1, <2>3, <4>2, <5>1, <5>2 DEF LeftOut
      <4> QED
        BY <4>1, <4>2
    <3> QED
      BY <3>4, <3>5, <3>6
  <2> QED
    BY <2>5, <2>6
<1> QED
  BY <1>4, <1>6 DEF Receipts, ReceiptsFollow

\* Every step keeps what the receipts say of the events.
LEMMA ReceiptsStep ==
  ASSUME TypeOK, Shape, Histories, Exclusive, Receipts, [Next]_vars
  PROVE  Receipts'
<1>1. ASSUME UNCHANGED <<epoch, attach, log, receipts, contexts>>
      PROVE  Receipts'
  BY <1>1, ReceiptsKept
<1>2. ASSUME NEW a \in Accounts, NEW there, Attach(a, there)
      PROVE  Receipts'
  <2>1. \A b \in Accounts : attach[b] # {} => attach'[b] = attach[b]
    BY <1>2 DEF Attach, TypeOK
  <2> QED
    BY <1>2, <2>1, ReceiptsKept DEF Attach, history
<1>3. ASSUME NEW a \in Accounts, NEW w \in Workspaces, Revoke(a, w) \/ Reinstate(a, w)
      PROVE  Receipts'
  BY <1>1, <1>3 DEF Revoke, Reinstate, history
<1>4. ASSUME NEW o \in Operators, NEW w \in Workspaces, Activate(o, w)
      PROVE  Receipts'
  <2>1. \A v \in Workspaces : epoch[v] = "scoped" => epoch'[v] = "scoped"
    BY <1>4 DEF Activate, TypeOK
  <2> QED
    BY <1>4, <2>1, ReceiptsKept DEF Activate, rights, history
<1>5. ASSUME NEW o \in Operators, NEW w \in Workspaces, Resume(o, w)
      PROVE  Receipts'
  BY <1>1, <1>5 DEF Resume, rights, history
<1>6. ASSUME NEW t \in Tabs, NEW w, NEW c, Begin(t, w, c)
      PROVE  Receipts'
  BY <1>1, <1>6 DEF Begin, rights, history
<1>7. ASSUME NEW t \in Tabs, Proceed(t)
      PROVE  Receipts'
  <2>1. CASE Commit(t)
    BY <2>1, ReceiptsCommit
  <2>2. CASE Write(t) \/ Refuse(t)
    BY <1>1, <2>2 DEF Write, Refuse, rights, history
  <2> QED
    BY <1>7, <2>1, <2>2 DEF Proceed
<1>8. ASSUME NEW o \in Operators, Operate(o)
      PROVE  Receipts'
  <2>1. CASE CutOver(o)
    BY <2>1, ReceiptsCutOver
  <2>2. CASE Enter(o) \/ LockEvents(o) \/ Unqualified(o) \/ Check(o) \/ Readback(o) \/ Open(o)
    BY <1>1, <2>2
    DEF Enter, LockEvents, Unqualified, Check, Readback, Open, rights, history
  <2>3. ASSUME NEW t \in Tabs, Deadlock(o, t)
        PROVE  Receipts'
    BY <1>1, <2>3 DEF Deadlock, rights, history
  <2> QED
    BY <1>8, <2>1, <2>2, <2>3 DEF Operate
<1>9. ASSUME Die
      PROVE  Receipts'
  BY <1>1, <1>9 DEF Die, rights, history
<1>10. CASE UNCHANGED vars
  BY <1>1, <1>10 DEF vars
<1> QED
  BY <1>2, <1>3, <1>4, <1>5, <1>6, <1>7, <1>8, <1>9, <1>10
  DEF Next, BeginLegacy, BeginScoped

-----------------------------------------------------------------------------
(* The invariant, and what it gives.                                          *)

\* The initial states satisfy the invariant.
LEMMA CoreInit == Init => Core
<1> SUFFICES ASSUME Init PROVE Core
  OBVIOUS
<1>1. TypeOK /\ Shape
  BY TypeInit
<1>2. PICK b \in Beginnings : log = b.log /\ receipts = b.receipts
  BY DEF Init
<1>3. \A i \in DOMAIN log : log[i].via = Unbound /\ log[i].home = Unbound
  BY <1>2, ActivationAssumption
<1>4. ~Dropped
  BY DEF Init, Dropped
<1>5. NothingLeftBehind /\ NothingUnderneath
  BY <1>3, <1>4 DEF NothingLeftBehind, NothingUnderneath
<1>6. Scoped
  BY <1>3 DEF Init, Closed, Scoped
<1>7. Fence
  BY DEF Init, Free, Fence
<1>8. Exclusive
  BY DEF Init, Free, Exclusive, Between
<1>9. ASSUME NEW a \in Accounts, NEW c \in Commands
      PROVE  /\ Answered(a, c) /\ contexts[a][c] = Missing
             /\ receipts[a][c] \in DOMAIN log => log[receipts[a][c]].home = Unbound
  <2>1. receipts[a][c] \in DOMAIN log \cup {0, Missing, Opaque}
    BY <1>2, ActivationAssumption
  <2>2. receipts[a][c] \in DOMAIN log => log[receipts[a][c]].owner = a
    BY <1>2, ActivationAssumption
  <2> QED
    BY <1>3, <2>1, <2>2, ActivationAssumption DEF Init, Answered
<1>10. Receipts
  BY <1>9 DEF Receipts, ReceiptsFollow, LeftOut
<1> QED
  BY <1>1, <1>5, <1>6, <1>7, <1>8, <1>10 DEF Core

\* Every step keeps it.
LEMMA CoreStep == Core /\ [Next]_vars => Core'
  BY TypeStep, HistoriesStep, FenceStep, ExclusiveStep, ReceiptsStep
  DEF Core, Histories

(* The inductive invariant of the cutover holds, for any authors, signals,    *)
(* workspaces, writers and operators.                                         *)
THEOREM CoreHolds == Spec => []Core
  BY CoreInit, CoreStep, PTL DEF Spec

(* Every variable keeps its type, and an operator that is idle keeps nothing  *)
(* of its last run: activation-run.ts, scoped-writer.ts and writer.ts.        *)
THEOREM TypeCorrect == Spec => []TypeOK
<1>1. Core => TypeOK
  BY DEF Core
<1> QED
  BY <1>1, CoreHolds, PTL

(* The deferred triggers of migration 0018 leave no event of the old writer   *)
(* unlisted behind the first cutover, whatever transactions were running.     *)
THEOREM NothingLeftBehindHolds == Spec => []NothingLeftBehind
<1>1. Core => NothingLeftBehind
  BY DEF Core
<1> QED
  BY <1>1, CoreHolds, PTL

(* The check of writeScopedFacet at the beginning of its transaction is       *)
(* enough: no event with a home is ever above one without.                    *)
THEOREM NothingUnderneathHolds == Spec => []NothingUnderneath
<1>1. Core => NothingUnderneath
  BY DEF Core
<1> QED
  BY <1>1, CoreHolds, PTL

(* Nobody deciding the same receipt in two workspaces, sealPendingReceipt-    *)
(* Contexts keeps every answer: a command answers again after the cutover     *)
(* what it answered before.                                                   *)
THEOREM ReceiptsFollowHolds == Spec => []ReceiptsFollow
<1>1. Core => ReceiptsFollow
  BY DEF Core, Receipts
<1> QED
  BY <1>1, CoreHolds, PTL

-----------------------------------------------------------------------------
(* The opening.                                                               *)

(* A destination that is not ambiguous is the only one.                       *)
LEMMA OneDestination ==
  ASSUME TypeOK, NEW w \in Workspaces, NEW a \in Accounts,
         ~Ambiguous(w), w \in attach[a]
  PROVE  attach[a] = {w}
<1>1. IsFiniteSet(attach[a])
  BY ActivationAssumption, FS_Subset DEF TypeOK
<1>2. Cardinality(attach[a]) \in Nat
  BY <1>1, FS_CardinalityType
<1>3. Cardinality(attach[a]) <= 1
  BY <1>2 DEF Ambiguous
<1>4. IsFiniteSet(attach[a] \ {w}) /\ Cardinality(attach[a] \ {w}) = Cardinality(attach[a]) - 1
  BY <1>1, FS_RemoveElement
<1>5. Cardinality(attach[a] \ {w}) \in Nat
  BY <1>4, FS_CardinalityType
<1>6. Cardinality(attach[a] \ {w}) = 0
  BY <1>2, <1>3, <1>4, <1>5
<1>7. attach[a] \ {w} = {}
  BY <1>4, <1>6, FS_EmptySet
<1> QED
  BY <1>7

Whole(w) ==
  /\ Managed(w)
  /\ \E a \in Accounts : attach[a] = {w}
  /\ \A a \in Accounts : w \in attach[a] =>
       attach[a] = {w} /\ w \in member[a] /\ Loose(a) = {}

\* What the opening checks is that the workspace is whole.
LEMMA OpenableWhole ==
  ASSUME TypeOK, NEW w \in Workspaces, Openable(w)
  PROVE  Whole(w)
<1>1. \E a \in Accounts : attach[a] = {w}
  BY DEF Openable, Attached
<1>2. ASSUME NEW a \in Accounts, w \in attach[a]
      PROVE  attach[a] = {w} /\ w \in member[a] /\ Loose(a) = {}
  <2>1. attach[a] = {w}
    BY <1>2, OneDestination DEF Openable
  <2> QED
    BY <2>1 DEF Openable, Attached
<1> QED
  BY <1>1, <1>2 DEF Whole, Openable

\* A workspace that opens is whole as it opens.
LEMMA OpensStep ==
  ASSUME TypeOK, Shape, Fence, [Next]_vars, NEW w \in Workspaces,
         ~IsOpen(w), IsOpen(w)'
  PROVE  Whole(w)
<1>1. ASSUME epoch' = epoch, barrier' = barrier
      PROVE  FALSE
  BY <1>1 DEF IsOpen
<1>2. ASSUME NEW o \in Operators, NEW v \in Workspaces, Activate(o, v)
      PROVE  FALSE
  BY <1>2 DEF Activate, IsOpen, TypeOK
<1>3. ASSUME NEW o \in Operators, CutOver(o)
      PROVE  FALSE
  <2>1. epoch[op[o].ws] # "absent" /\ op[o].ws \in Workspaces
    BY <1>3 DEF CutOver, Fence, Shape
  <2>2. barrier' = barrier /\ epoch' = [epoch EXCEPT ![op[o].ws] = "scoped"]
    BY <1>3 DEF CutOver
  <2> QED
    BY <2>1, <2>2 DEF IsOpen, Fence, TypeOK
<1>4. ASSUME NEW o \in Operators, Open(o)
      PROVE  Whole(w)
  <2>1. /\ epoch' = epoch
        /\ barrier' = IF Openable(op[o].ws) THEN [barrier EXCEPT ![op[o].ws] = FALSE]
             ELSE barrier
    BY <1>4 DEF Open
  <2>2. w = op[o].ws /\ Openable(op[o].ws)
    BY <2>1 DEF IsOpen, TypeOK
  <2> QED
    BY <2>2, OpenableWhole
<1>5. ASSUME NEW o \in Operators, Operate(o)
      PROVE  Whole(w)
  <2>1. CASE Enter(o) \/ LockEvents(o) \/ Unqualified(o) \/ Check(o) \/ Readback(o)
    BY <1>1, <2>1 DEF Enter, LockEvents, Unqualified, Check, Readback
  <2>2. ASSUME NEW t \in Tabs, Deadlock(o, t)
        PROVE  FALSE
    BY <1>1, <2>2 DEF Deadlock
  <2> QED
    BY <1>3, <1>4, <1>5, <2>1, <2>2 DEF Operate
<1>6. ASSUME NEW a \in Accounts, NEW there, Attach(a, there)
      PROVE  FALSE
  BY <1>1, <1>6 DEF Attach
<1>7. ASSUME NEW a \in Accounts, NEW v \in Workspaces, Revoke(a, v) \/ Reinstate(a, v)
      PROVE  FALSE
  BY <1>1, <1>7 DEF Revoke, Reinstate
<1>8. ASSUME NEW o \in Operators, NEW v \in Workspaces, Resume(o, v)
      PROVE  FALSE
  BY <1>1, <1>8 DEF Resume
<1>9. ASSUME NEW t \in Tabs, NEW v, NEW c, Begin(t, v, c)
      PROVE  FALSE
  BY <1>1, <1>9 DEF Begin
<1>10. ASSUME NEW t \in Tabs, Proceed(t)
       PROVE  FALSE
  BY <1>1, <1>10 DEF Proceed, Write, Commit, Refuse
<1>11. ASSUME Die
       PROVE  FALSE
  BY <1>1, <1>11 DEF Die
<1>12. CASE UNCHANGED vars
  BY <1>1, <1>12 DEF vars
<1> QED
  BY <1>2, <1>5, <1>6, <1>7, <1>8, <1>9, <1>10, <1>11, <1>12
  DEF Next, BeginLegacy, BeginScoped

(* openPersonalActivation checks again, in the transaction that opens, all    *)
(* that may have changed since the readback; and a cutover, which finds the   *)
(* barrier of its workspace closed, opens nothing.                            *)
THEOREM OpensWholeHolds == Spec => OpensWhole
<1> DEFINE A == \A w \in Workspaces : ~IsOpen(w) /\ IsOpen(w)' =>
       /\ Managed(w)
       /\ \E a \in Accounts : attach[a] = {w}
       /\ \A a \in Accounts : w \in attach[a] =>
            attach[a] = {w} /\ w \in member[a] /\ Loose(a) = {}
<1>1. Core /\ [Next]_vars => A
  BY OpensStep DEF Core, Whole
<1>2. Spec => [][A]_vars
  BY <1>1, CoreHolds, PTL DEF Spec
<1> QED
  BY <1>2 DEF OpensWhole
=============================================================================
