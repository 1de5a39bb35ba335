------------------------------ MODULE MCAccounts -----------------------------
(* Small instances of Accounts, Admission and Memberships, one per cut:       *)
(*   logins   two requests against an administrator and the invitations;      *)
(*   links    two requests whose e-mail is staged, against an administrator;  *)
(*   sync     the envelopes of the other deployment against one session;      *)
(*   members  commands and initializations of an empty workspace over two     *)
(*            approved accounts, against an administrator;                    *)
(*   managers the commands of two managers, who may dismiss each other,       *)
(*            against an administrator.                                       *)
EXTENDS Admission, Memberships, TLC

CONSTANTS e1, e2

VARIABLE cut
vars == <<admissionVars, ownVars, cut>>

Quiet == \A v \in Visitors : visit[v] = NoVisit
Uninvited == \A i \in Invitations : invitations[i] = NoRow
Undecided == \A a \in Admins : change[a] = NoChange
Busy == {v \in Visitors : visit[v].pc # "idle"}
Visits(login, pc) ==
  \A v \in Busy : /\ \/ visit[v].email = e1
                     \/ cut = "logins" /\ Uninvited /\ Busy = {v}
                  /\ visit[v].login \in login
                  /\ pc = "lookup" => visit[v].pc # "staged"
(* The shapes of command: each status with no capability or one, and the      *)
(* composite that grants both; an initialization names one manager.           *)
Dismissals == {<<"active", "keep", "keep">>, <<"revoked", "keep", "keep">>,
               <<"keep", "keep", "no">>}
Grown == {<<"active", "yes", "yes">>, <<"keep", "no", "keep">>}
Shape(c) == <<c.status, c.moderate, c.manage>> \in
  IF cut = "members" THEN Dismissals \cup Grown ELSE Dismissals
Small(t) == CASE t.pc # "sent" -> TRUE
              [] t.kind = "command" -> Shape(t.cmd)
              [] OTHER -> /\ Cardinality(t.managers) = 1
                          /\ t.moderators \in {{}, t.approved}
Within ==
  CASE cut = "logins" ->
         /\ Visits({TRUE}, "lookup") /\ Cardinality(events) <= 1
         /\ Cardinality({s \in Subs : rows[s] # NoRow}
                          \cup {visit[v].sub : v \in Busy}) <= 1
    [] cut = "links" ->
         /\ Visits(BOOLEAN, "staged") /\ Uninvited /\ events = {}
         /\ \A a \in Admins : change[a].pc = "update"
              => change[a].to # "suspended"
    [] cut = "sync" ->
         /\ Visits({FALSE}, "staged") /\ Cardinality(Busy) <= 1
         /\ Uninvited /\ Undecided
         /\ clock <= 2 /\ Cardinality(network) <= 2
         /\ prod[e2] = "none" /\ prod[e1] \in {"none", "approved", "rejected"}
    [] cut \in {"members", "managers"} ->
         /\ Quiet /\ Uninvited /\ events = {}
         /\ \A a \in Admins : change[a].pc = "update"
              => change[a].to # "rejected"
         /\ MapThenSumSet(LAMBDA s : Revision(members[s]), Subs)
              <= IF cut = "members" THEN 3 ELSE 6
         /\ \A p \in Sharers : Small(tx[p])
         /\ Cardinality({p \in Sharers : tx[p].pc # "idle"
                                         /\ tx[p].kind = "init"})
              <= IF cut = "members" THEN 1 ELSE 0
(* A state of the workspace after two initializations.                        *)
ManagersInit ==
  /\ members = [s \in Subs |-> Member("active", 2, FALSE, TRUE)]
  /\ audit = [s \in Subs |->
                <<<<"added", "member">>, <<"granted", "manage">>>>]
  /\ tx = [p \in Sharers |-> NoTx]
CutInit ==
  /\ cut \in {"logins", "links", "sync", "members", "managers"}
  /\ rows = [s \in Subs |-> IF cut \in {"members", "managers"}
               THEN Row(e1, "approved", "admin", "local") ELSE NoRow]
  /\ staged = [e \in Emails |-> IF cut = "links"
                 THEN [status |-> "approved", at |-> 1] ELSE NotStaged]
  /\ AtRest /\ Unsynced
  /\ IF cut = "managers" THEN ManagersInit ELSE MembersInit
CutNext ==
  /\ \/ /\ cut \in {"logins", "links"}
        /\ AccountsNext /\ UNCHANGED <<otherVars, ownVars>>
     \/ cut = "sync" /\ AdmissionNext /\ UNCHANGED ownVars
     \/ cut \in {"members", "managers"} /\ MembersNext /\ UNCHANGED otherVars
  /\ UNCHANGED cut
  /\ Within'
CutSpec == CutInit /\ [][CutNext]_vars
Symmetry == Permutations(Subs) \cup Permutations(Visitors)
              \cup Permutations(Sharers) \cup Permutations(Ingests)
              \cup Permutations(Kids)
==============================================================================
