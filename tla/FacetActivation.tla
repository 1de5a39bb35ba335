--------------------------- MODULE FacetActivation ---------------------------
(* The change of authority over personal classifications.  Before it, a       *)
(* member's events belong to the account alone and one index, blind to        *)
(* workspaces, keeps their heads; after it, each event is bound to a stream   *)
(* of one workspace.  An operator moves one workspace at a time, in separate  *)
(* transactions: a barrier that fences every writer of every workspace, a     *)
(* cutover that binds the attached histories and switches the epoch under     *)
(* table locks, a readback, and the opening.  Writers of both regimes, late   *)
(* attachments, revocations and other operators run between them, and any of  *)
(* these processes may die.                                                   *)
(*                                                                            *)
(* Every signal is in one city, so the city lock admits one writing           *)
(* transaction at a time.  A command makes one transition, with one reason    *)
(* per state.  To lose an approval, or the right to manage members, is to     *)
(* lose a membership.  The registered head of a stream is its terminal event, *)
(* which check_facet_stream requires at every commit.                         *)
EXTENDS Naturals, Sequences, FiniteSets

CONSTANTS
  Workspaces, Accounts, Signals, Commands,
  Tabs,         \* writing processes
  Owner,        \* [Tabs -> Accounts]
  Operators,    \* runs of the activation command
  Serves,       \* [Operators -> SUBSET Workspaces]: what each run is given
  Actor,        \* the account they act for
  Belongs,      \* [Accounts -> SUBSET Workspaces]: the first memberships
  Does,         \* [Commands -> [on, state]]
  Destined,     \* [Accounts -> sets of workspaces]: what operators may attach
  Unbound,      \* the home of an event that no stream holds
  Missing,      \* no receipt, no context
  Opaque,       \* a receipt without an event nor a context, of the first release
  Beginnings,   \* pairs [log, receipts]: what the first release left
  MaxBegins,    \* transactions of writers
  MaxChanges,   \* revocations
  MaxDeaths     \* processes that die

(* One row of facet_events: its place in the chain, the stream that holds it, *)
(* and the regime it was written under.                                       *)
Row == [owner : Accounts, on : Signals, state : {"active", "inactive"},
        prev : Nat, next : Nat, home : Workspaces \cup {Unbound},
        via : Workspaces \cup {Unbound}]

ASSUME ActivationAssumption ==
  /\ Owner \in [Tabs -> Accounts]
  /\ Destined \in [Accounts -> SUBSET SUBSET Workspaces]
  /\ Serves \in [Operators -> SUBSET Workspaces]
  /\ Actor \in Accounts
  /\ Belongs \in [Accounts -> SUBSET Workspaces]
  /\ Unbound \notin Workspaces
  /\ Missing \notin Nat \cup [ws : Workspaces, settled : BOOLEAN]
  /\ Opaque \notin Nat /\ Missing # Opaque
  /\ IsFiniteSet(Workspaces)
  /\ Does \in [Commands -> [on : Signals, state : {"active", "inactive"}]]
  /\ \A b \in Beginnings :
       /\ b.log \in Seq(Row)
       /\ \A i \in DOMAIN b.log :
            b.log[i].via = Unbound /\ b.log[i].home = Unbound
       /\ b.receipts \in
            [Accounts -> [Commands -> DOMAIN b.log \cup {0, Missing, Opaque}]]
       /\ \A a \in Accounts, c \in Commands :
            b.receipts[a][c] \in DOMAIN b.log => b.log[b.receipts[a][c]].owner = a

VARIABLES
  epoch,      \* [Workspaces -> {"absent", "legacy", "scoped"}]
  barrier,    \* [Workspaces -> BOOLEAN]
  attach,     \* [Accounts -> SUBSET Workspaces]: several destinations are ambiguous
  member,     \* [Accounts -> SUBSET Workspaces]: active memberships
  log,        \* facet_events with their bindings, by number
  inventory,  \* facet_unresolved_events
  receipts,   \* facet_commands: the event answered, 0 when none
  contexts,   \* facet_command_contexts
  op,         \* [Operators -> [pc, ws]]
  traffic,    \* transactions begun, owners with events, since each barrier stamp
  tab,        \* [Tabs -> [pc, at, cmd]]
  used        \* the bounds consumed

rights == <<attach, member>>
history == <<log, inventory, receipts, contexts>>
vars == <<epoch, barrier, attach, member, log, inventory, receipts,
          contexts, op, traffic, tab, used>>

Free == [pc |-> "idle", ws |-> Unbound]
Closed == [pc |-> "idle", at |-> Unbound, cmd |-> Missing]
Quiet == [begun |-> {}, late |-> {}]

Init ==
  /\ epoch = [w \in Workspaces |-> "absent"]
  /\ barrier = [w \in Workspaces |-> FALSE]
  /\ attach = [a \in Accounts |-> {}]
  /\ member = Belongs
  /\ \E b \in Beginnings : log = b.log /\ receipts = b.receipts
  /\ inventory = {}
  /\ contexts = [a \in Accounts |-> [c \in Commands |-> Missing]]
  /\ op = [o \in Operators |-> Free]
  /\ traffic = [o \in Operators |-> Quiet]
  /\ tab = [t \in Tabs |-> Closed]
  /\ used = [begins |-> 0, changes |-> 0, deaths |-> 0]

------------------------------------------------------------------------------
(* What the tables say.                                                       *)

Of(a) == {i \in DOMAIN log : log[i].owner = a}
Loose(a) == {i \in Of(a) : log[i].home = Unbound}

(* The first switch drops the index for good.                                 *)
Dropped == \E w \in Workspaces : epoch[w] = "scoped"
Fenced == \E w \in Workspaces : barrier[w] /\ epoch[w] = "legacy"
IsOpen(w) == epoch[w] = "scoped" /\ ~barrier[w]

Managed(w) == w \in member[Actor]
Attached(w) == {a \in Accounts : attach[a] = {w}}
Ambiguous(w) ==
  \E a \in Accounts : w \in attach[a] /\ Cardinality(attach[a]) > 1

(* The row lock of a workspace, held to the end of the transaction.           *)
Locked(w) ==
  \/ \E o \in Operators : op[o].ws = w /\ op[o].pc \in {"cut", "events"}
  \/ \E t \in Tabs : tab[t].at = w

(* A cutover that holds facet_events lets nobody read them.                   *)
Readable == \A o \in Operators : op[o].pc # "events"

------------------------------------------------------------------------------
(* Attachments and rights.                                                    *)

(* attachPersonalHistory: one destination for ever, or several left pending.  *)
Attach(a, there) ==
  /\ attach[a] = {} /\ there # {}
  /\ Cardinality(there) = 1 => there \subseteq member[a]
  /\ attach' = [attach EXCEPT ![a] = there]
  /\ UNCHANGED <<epoch, barrier, member, history, op, traffic, tab, used>>

Revoke(a, w) ==
  /\ w \in member[a] /\ ~Locked(w) /\ used.changes < MaxChanges
  /\ member' = [member EXCEPT ![a] = @ \ {w}]
  /\ used' = [used EXCEPT !.changes = @ + 1]
  /\ UNCHANGED <<epoch, barrier, attach, history, op, traffic, tab>>

Reinstate(a, w) ==
  /\ w \notin member[a] /\ ~Locked(w)
  /\ member' = [member EXCEPT ![a] = @ \cup {w}]
  /\ UNCHANGED <<epoch, barrier, attach, history, op, traffic, tab, used>>

------------------------------------------------------------------------------
(* Writers.  A legacy transaction reads facet_commands first and facet_events *)
(* later; a scoped one takes its workspace, then reads both.                  *)

Stamped(o) == op[o].pc \in {"stamped", "cut", "events"}

Begin(t, w, c) ==
  /\ tab[t].pc = "idle" /\ used.begins < MaxBegins
  /\ receipts[Owner[t]][c] = Missing
  /\ tab' = [tab EXCEPT ![t] = [pc |-> "begun", at |-> w, cmd |-> c]]
  /\ traffic' = [o \in Operators |->
       IF Stamped(o) THEN [traffic[o] EXCEPT !.begun = @ \cup {t}]
       ELSE traffic[o]]
  /\ used' = [used EXCEPT !.begins = @ + 1]
  /\ UNCHANGED <<epoch, barrier, rights, history, op>>

(* The lock of one account's command.                                         *)
SameCommand(t, u, c) ==
  Owner[t] = Owner[u] /\ tab[u].cmd = c /\ tab[u].at = Unbound

BeginLegacy(t, c) ==
  /\ \A u \in Tabs : ~SameCommand(t, u, c)
  /\ Begin(t, Unbound, c)

(* requireScopedEpoch, the membership, and no history left unbound.           *)
BeginOver(t, w, c) ==
  /\ ~Locked(w) /\ Readable
  /\ w \in member[Owner[t]]
  /\ IsOpen(w)
  /\ Begin(t, w, c)
BeginScoped(t, w, c) ==
  /\ ~Locked(w) /\ Readable
  /\ w \in member[Owner[t]]
  /\ IsOpen(w)
  /\ Loose(Owner[t]) = {}
  /\ Begin(t, w, c)

(* The city lock, the events and the receipt: fence_facet_maintenance refuses *)
(* both while any workspace is between its barrier and its cutover.           *)
Write(t) ==
  /\ tab[t].pc = "begun" /\ Readable /\ ~Fenced
  /\ \A u \in Tabs : tab[u].pc # "wrote"
  /\ tab' = [tab EXCEPT ![t].pc = "wrote"]
  /\ UNCHANGED <<epoch, barrier, rights, history, op, traffic, used>>

HeadOf(a, w, s) ==
  {i \in Of(a) : log[i].on = s /\ log[i].home = w /\ log[i].next = 0}

(* One transition: the head it would repeat is answered, and a withdrawal of  *)
(* nothing is answered nothing.                                               *)
Appended(a, w, c, h) ==
  Append(IF h = 0 THEN log ELSE [log EXCEPT ![h].next = Len(log) + 1],
         [owner |-> a, on |-> Does[c].on, state |-> Does[c].state,
          prev |-> h, next |-> 0, home |-> w, via |-> w])
Idle(c, h) ==
  IF h = 0 THEN Does[c].state = "inactive" ELSE log[h].state = Does[c].state

(* enforce_scoped_event_binding and enforce_facet_receipt_context, deferred to *)
(* the commit.                                                                *)
AdmittedAlways(w) == TRUE
Admitted(w) == w # Unbound \/ ~Dropped

Ended(t) ==
  [o \in Operators |-> [traffic[o] EXCEPT !.begun = @ \ {t}]]

Commit(t) ==
  LET a == Owner[t]
      w == tab[t].at
      c == tab[t].cmd
  IN /\ tab[t].pc = "wrote" /\ Admitted(w)
     /\ \E h \in HeadOf(a, w, Does[c].on) \cup {0} :
          /\ h = 0 => HeadOf(a, w, Does[c].on) = {}
          /\ log' = IF Idle(c, h) THEN log ELSE Appended(a, w, c, h)
          /\ receipts' = [receipts EXCEPT ![a][c] =
               IF Idle(c, h) THEN h ELSE Len(log) + 1]
          /\ traffic' = [o \in Operators |->
               IF t \in traffic[o].begun /\ ~Idle(c, h)
               THEN [Ended(t)[o] EXCEPT !.late = @ \cup {a}] ELSE Ended(t)[o]]
     /\ contexts' = IF w = Unbound THEN contexts
          ELSE [contexts EXCEPT ![a][c] = [ws |-> w, settled |-> TRUE]]
     /\ tab' = [tab EXCEPT ![t] = Closed]
     /\ UNCHANGED <<epoch, barrier, rights, inventory, op, used>>

Rollback(t) ==
  /\ tab[t].pc # "idle"
  /\ tab' = [tab EXCEPT ![t] = Closed]
  /\ traffic' = Ended(t)

(* The exceptions of the triggers.                                            *)
Refuse(t) ==
  /\ \/ tab[t].pc = "begun" /\ Fenced /\ Readable
     \/ tab[t].pc = "wrote" /\ ~Admitted(tab[t].at)
  /\ Rollback(t)
  /\ UNCHANGED <<epoch, barrier, rights, history, op, used>>

------------------------------------------------------------------------------
(* The operator.                                                              *)

At(o, pc) == op' = [op EXCEPT ![o].pc = pc] /\ UNCHANGED traffic
Stop(o) ==
  /\ op' = [op EXCEPT ![o] = Free]
  /\ traffic' = [traffic EXCEPT ![o] = Quiet]

(* First transaction: the barrier.  Its stamp is taken before the commit, so  *)
(* a running transaction may be on either side of it.                         *)
Activate(o, w) ==
  /\ op[o].pc = "idle" /\ w \in Serves[o] /\ ~Locked(w)
  /\ Managed(w) /\ epoch[w] # "scoped"
  /\ epoch' = [epoch EXCEPT ![w] = "legacy"]
  /\ barrier' = [barrier EXCEPT ![w] = TRUE]
  /\ op' = [op EXCEPT ![o] = [pc |-> "stamped", ws |-> w]]
  /\ \E young \in SUBSET {t \in Tabs : tab[t].pc # "idle"} :
       traffic' = [traffic EXCEPT ![o] = [begun |-> young, late |-> {}]]
  /\ UNCHANGED <<rights, history, tab, used>>

(* Second transaction: the workspace, then the tables one after the other.    *)
Enter(o) ==
  LET w == op[o].ws
  IN /\ op[o].pc = "stamped" /\ ~Locked(w)
     /\ IF Managed(w) /\ epoch[w] = "legacy" /\ barrier[w]
        THEN At(o, "cut") ELSE Stop(o)
     /\ UNCHANGED <<epoch, barrier, rights, history, tab, used>>

(* A legacy transaction holds facet_events from its write, a scoped one from  *)
(* its beginning.                                                             *)
HoldsEvents(t) ==
  \/ tab[t].pc = "wrote"
  \/ tab[t].pc = "begun" /\ tab[t].at # Unbound
LockEvents(o) ==
  /\ op[o].pc = "cut" /\ Readable
  /\ \A t \in Tabs : ~HoldsEvents(t)
  /\ At(o, "events")
  /\ UNCHANGED <<epoch, barrier, rights, history, tab, used>>

(* A loose chain is bound when it is one line, from one head to one origin,   *)
(* that nothing outside of it points into.                                    *)
Chain(a, s) == {i \in Loose(a) : log[i].on = s}
InLine(line) ==
  \A n \in DOMAIN line :
    /\ log[line[n]].prev = IF n = 1 THEN 0 ELSE line[n - 1]
    /\ log[line[n]].next = IF n = Len(line) THEN 0 ELSE line[n + 1]
Qualified(a, s) ==
  /\ \A i \in Loose(a) \ Chain(a, s) :
       log[i].prev \notin Chain(a, s) /\ log[i].next \notin Chain(a, s)
  /\ \E line \in [1 .. Cardinality(Chain(a, s)) -> Chain(a, s)] :
       (\A i \in Chain(a, s) : \E n \in DOMAIN line : line[n] = i) /\ InLine(line)
Bindable(w) ==
  {i \in DOMAIN log :
     /\ log[i].owner \in Attached(w) /\ log[i].home = Unbound
     /\ Qualified(log[i].owner, log[i].on)}
Sealed(w) ==
  \E a \in Attached(w) : \E i \in Loose(a) : i \notin Bindable(w)

BoundLog(w) ==
  [i \in DOMAIN log |->
     IF i \in Bindable(w) THEN [log[i] EXCEPT !.home = w] ELSE log[i]]

(* sealPendingReceiptContexts, after the bindings; what is decided stays.     *)
ResolvesBefore(r, w) ==
  r = 0 \/ (r \in DOMAIN log /\ log[r].home = w)
Resolves(r, w) ==
  CASE r = Opaque -> FALSE
    [] r = 0      -> TRUE
    [] OTHER      -> BoundLog(w)[r].home = w
ContextsFor(w) ==
  [a \in Accounts |-> [c \in Commands |->
     IF a \in Attached(w) /\ receipts[a][c] # Missing /\ contexts[a][c] = Missing
     THEN [ws |-> w, settled |-> Resolves(receipts[a][c], w)]
     ELSE contexts[a][c]]]

Qualifies(w, o) ==
  /\ Attached(w) # {}
  /\ \A a \in Attached(w) : w \in member[a] /\ a \notin traffic[o].late

(* With facet_commands the transaction holds every table: it binds, switches  *)
(* the epoch and commits.  The first switch makes the inventory of what stays *)
(* unbound.  A sealed chain leaves the workspace closed.                      *)
CutOver(o) ==
  LET w == op[o].ws
  IN /\ op[o].pc = "events"
     /\ \A t \in Tabs : tab[t].pc = "idle"
     /\ Qualifies(w, o)
     /\ log' = BoundLog(w)
     /\ contexts' = ContextsFor(w)
     /\ inventory' = IF Dropped THEN inventory
          ELSE {i \in DOMAIN log : BoundLog(w)[i].home = Unbound}
     /\ epoch' = [epoch EXCEPT ![w] = "scoped"]
     /\ IF Sealed(w) THEN Stop(o)
        ELSE /\ op' = [op EXCEPT ![o].pc = "scoped"]
             /\ traffic' = [traffic EXCEPT ![o] = Quiet]
     /\ UNCHANGED <<barrier, rights, receipts, tab, used>>

(* activation_without_attachment, _traffic_not_drained and the 403s: all is   *)
(* rolled back, except the barrier of the first transaction.                  *)
Unqualified(o) ==
  /\ op[o].pc = "events"
  /\ \A t \in Tabs : tab[t].pc = "idle"
  /\ ~Qualifies(op[o].ws, o)
  /\ Stop(o)
  /\ UNCHANGED <<epoch, barrier, rights, history, tab, used>>

(* The cutover holds facet_events and waits for facet_commands, which the     *)
(* writer holds and keeps while it waits for facet_events: PostgreSQL aborts  *)
(* one of the two.                                                            *)
Deadlock(o, t) ==
  /\ op[o].pc = "events"
  /\ tab[t].pc = "begun" /\ tab[t].at = Unbound
  /\ \/ Stop(o) /\ UNCHANGED tab
     \/ Rollback(t) /\ UNCHANGED op
  /\ UNCHANGED <<epoch, barrier, rights, history, used>>

(* The recovery of a workspace cut over and still closed.                     *)
ResumeLegacy(o, w) ==
  /\ op[o].pc = "idle" /\ w \in Serves[o]
  /\ epoch[w] = "legacy" /\ barrier[w]
  /\ op' = [op EXCEPT ![o] = [pc |-> "scoped", ws |-> w]]
  /\ UNCHANGED <<epoch, barrier, rights, history, traffic, tab, used>>
Resume(o, w) ==
  /\ op[o].pc = "idle" /\ w \in Serves[o]
  /\ epoch[w] = "scoped" /\ barrier[w]
  /\ op' = [op EXCEPT ![o] = [pc |-> "scoped", ws |-> w]]
  /\ UNCHANGED <<epoch, barrier, rights, history, traffic, tab, used>>

(* The check that runs before the drain and again with the opening.           *)
Openable(w) ==
  /\ Managed(w)
  /\ epoch[w] = "scoped" /\ barrier[w]
  /\ Attached(w) # {} /\ ~Ambiguous(w)
  /\ \A a \in Attached(w) : w \in member[a] /\ Loose(a) = {}

Check(o) ==
  /\ op[o].pc = "scoped" /\ ~Locked(op[o].ws) /\ Readable
  /\ IF Openable(op[o].ws) THEN At(o, "checked") ELSE Stop(o)
  /\ UNCHANGED <<epoch, barrier, rights, history, tab, used>>

(* verifyPersonalActivationPersistence: the streams of the workspace hold all *)
(* the events of its attached accounts, and no other.                         *)
Persisted(w) ==
  {i \in DOMAIN log : log[i].home = w} =
    {i \in DOMAIN log : log[i].owner \in Attached(w)}

Authorized(w) ==
  /\ Managed(w)
  /\ epoch[w] = "scoped" /\ barrier[w]
  /\ Attached(w) # {} /\ ~Ambiguous(w)
  /\ \A a \in Attached(w) : w \in member[a]

Readback(o) ==
  LET w == op[o].ws
  IN /\ op[o].pc = "checked" /\ ~Locked(w) /\ Readable
     /\ IF Authorized(w) /\ Persisted(w) THEN At(o, "verified") ELSE Stop(o)
     /\ UNCHANGED <<epoch, barrier, rights, history, tab, used>>

OpenVerified(o) ==
  LET w == op[o].ws
  IN /\ op[o].pc = "verified" /\ ~Locked(w) /\ Readable
     /\ barrier' = [barrier EXCEPT ![w] = FALSE]
     /\ Stop(o)
     /\ UNCHANGED <<epoch, rights, history, tab, used>>
Open(o) ==
  LET w == op[o].ws
  IN /\ op[o].pc = "verified" /\ ~Locked(w) /\ Readable
     /\ barrier' = IF Openable(w) THEN [barrier EXCEPT ![w] = FALSE] ELSE barrier
     /\ Stop(o)
     /\ UNCHANGED <<epoch, rights, history, tab, used>>

------------------------------------------------------------------------------
Die ==
  /\ used.deaths < MaxDeaths
  /\ used' = [used EXCEPT !.deaths = @ + 1]
  /\ \/ \E o \in Operators : op[o].pc # "idle" /\ Stop(o) /\ UNCHANGED tab
     \/ \E t \in Tabs : Rollback(t) /\ UNCHANGED op
  /\ UNCHANGED <<epoch, barrier, rights, history>>

Operate(o) ==
  \/ Enter(o) \/ LockEvents(o) \/ CutOver(o) \/ Unqualified(o)
  \/ Check(o) \/ Readback(o) \/ Open(o)
  \/ \E t \in Tabs : Deadlock(o, t)

Proceed(t) == Write(t) \/ Commit(t) \/ Refuse(t)

Next ==
  \/ \E a \in Accounts :
       \/ \E there \in Destined[a] : Attach(a, there)
       \/ \E w \in Workspaces : Revoke(a, w) \/ Reinstate(a, w)
  \/ \E w \in Workspaces :
       \E o \in Operators : Activate(o, w) \/ Resume(o, w)
  \/ \E t \in Tabs :
       \/ \E c \in Commands :
            BeginLegacy(t, c) \/ \E w \in Workspaces : BeginScoped(t, w, c)
       \/ Proceed(t)
  \/ \E o \in Operators : Operate(o)
  \/ Die

Spec == Init /\ [][Next]_vars

(* A transaction that waits for a table is served when the table is released, *)
(* since PostgreSQL queues the requests; and the operators take every         *)
(* workspace up again until it is open.  Attachments, rights and new writes   *)
(* are under no obligation.                                                   *)
FairSpec ==
  /\ Spec
  /\ \A t \in Tabs : SF_vars(Proceed(t))
  /\ \A o \in Operators : SF_vars(Operate(o))
  /\ \A o \in Operators, w \in Workspaces :
       WF_vars(Activate(o, w)) /\ WF_vars(Resume(o, w))

------------------------------------------------------------------------------
(* The values of the variables; an idle operator keeps nothing of a past run. *)
TypeOK ==
  /\ epoch \in [Workspaces -> {"absent", "legacy", "scoped"}]
  /\ barrier \in [Workspaces -> BOOLEAN]
  /\ attach \in [Accounts -> SUBSET Workspaces]
  /\ member \in [Accounts -> SUBSET Workspaces]
  /\ log \in Seq(Row)
  /\ inventory \subseteq DOMAIN log
  /\ receipts \in [Accounts -> [Commands -> Nat \cup {Missing, Opaque}]]
  /\ contexts \in [Accounts -> [Commands ->
       [ws : Workspaces, settled : BOOLEAN] \cup {Missing}]]
  /\ op \in [Operators ->
       [pc : {"idle", "stamped", "cut", "events", "scoped", "checked", "verified"},
        ws : Workspaces \cup {Unbound}]]
  /\ traffic \in [Operators -> [begun : SUBSET Tabs, late : SUBSET Accounts]]
  /\ tab \in [Tabs -> [pc : {"idle", "begun", "wrote"},
       at : Workspaces \cup {Unbound}, cmd : Commands \cup {Missing}]]
  /\ \A o \in Operators : op[o].pc = "idle" => traffic[o] = Quiet
  /\ used \in [begins : Nat, changes : Nat, deaths : Nat]

(* After the first switch no event is left unbound that its inventory does    *)
(* not list: no transaction of the old writer lands behind the cutover.       *)
NothingLeftBehind ==
  Dropped => \A i \in DOMAIN log : log[i].home = Unbound => i \in inventory

(* Nobody classifies in a workspace on top of a history left unbound.         *)
NothingUnderneath ==
  \A i \in DOMAIN log :
    log[i].via # Unbound => Loose(log[i].owner) = {}

(* A receipt whose event has a home is settled there, so the command answers  *)
(* again after the cutover what it answered before.                           *)
ReceiptsFollow ==
  \A a \in Accounts : \A c \in Commands :
    receipts[a][c] \in DOMAIN log /\ log[receipts[a][c]].home # Unbound
      => contexts[a][c] = [ws |-> log[receipts[a][c]].home, settled |-> TRUE]

(* A workspace opens under a manager, to active members, with all of their    *)
(* histories bound, whatever happened since the readback.                     *)
OpensWhole ==
  [][\A w \in Workspaces : ~IsOpen(w) /\ IsOpen(w)' =>
       /\ Managed(w)
       /\ \E a \in Accounts : attach[a] = {w}
       /\ \A a \in Accounts : w \in attach[a] =>
            attach[a] = {w} /\ w \in member[a] /\ Loose(a) = {}]_vars

(* A barrier closes the writes of every workspace, and a cutover leaves its   *)
(* own closed: whoever dies on the way, both end with the opening, unless     *)
(* what a check refuses stays.  The operator must manage the workspace, its   *)
(* attached accounts must be active members with one destination, and their   *)
(* events in line: bound there, or still to be bound by the cutover.          *)
Movable(w) ==
  /\ Managed(w) /\ Attached(w) # {} /\ ~Ambiguous(w)
  /\ \A a \in Attached(w) :
       /\ w \in member[a]
       /\ \A i \in Of(a) :
            \/ log[i].home = w
            \/ epoch[w] # "scoped" /\ i \in Bindable(w)
Opens ==
  \A w \in Workspaces : <>[]Movable(w) => [](barrier[w] => <>IsOpen(w))
==============================================================================
