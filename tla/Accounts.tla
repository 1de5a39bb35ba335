------------------------------- MODULE Accounts ------------------------------
(* The accounts of one deployment: the login callback (routes/auth.ts), the   *)
(* just-in-time link to an account admitted elsewhere (admission/jit.ts) and  *)
(* the administrator's routes (routes/admin.ts).  None of the three opens a   *)
(* transaction: every statement commits alone, so every statement is a step,  *)
(* and a request may die before any of them.                                  *)
(*                                                                            *)
(* An e-mail is compared as the code compares it once it is trimmed and       *)
(* lower-cased.  approvedAt and approvedBy are written together: approvedBy   *)
(* stands for both.  Names, roles and dates are left out, and with them the   *)
(* administrators' own rows: an administrator is an actor of this module.     *)
EXTENDS Naturals, FiniteSets

CONSTANTS
  Subs,         \* subjects of the identity provider
  Emails,
  Chief,        \* the e-mail approved at its first login
  Invitations,  \* rows of account_invitations that may be written
  Visitors,     \* requests of signed-in people
  Admins,       \* requests of administrators
  Sharers,      \* transactions of other modules that hold accounts FOR SHARE
  NoRow         \* no such account, no such invitation

Statuses == {"pending", "approved", "rejected", "suspended"}
Decisions == {"approved", "rejected", "suspended"}

VARIABLES
  rows,         \* account_users, by sub
  invitations,  \* account_invitations
  staged,       \* admission_sync_profiles: status and stamp, by e-mail
  shared,       \* [Sharers -> SUBSET Subs]: accounts held FOR SHARE
  visit,        \* what each visitor's request has read
  change,       \* what each administrator's request has read
  events        \* account_user_status_events

accountVars == <<rows, invitations, staged, shared, visit, change, events>>

Row(email, status, by, source) ==
  [email |-> email, status |-> status, approvedBy |-> by, source |-> source]
NoVisit == [pc |-> "idle"]
NoChange == [pc |-> "idle"]
NotStaged == [status |-> "none", at |-> 0]

(* A deployment at rest; it starts without accounts nor staged admissions.    *)
AtRest ==
  /\ invitations = [i \in Invitations |-> NoRow]
  /\ shared = [p \in Sharers |-> {}]
  /\ visit = [v \in Visitors |-> NoVisit]
  /\ change = [a \in Admins |-> NoChange]
  /\ events = {}
AccountsInit == /\ AtRest
                /\ rows = [s \in Subs |-> NoRow]
                /\ staged = [e \in Emails |-> NotStaged]

(* An update waits while another transaction holds the row FOR SHARE.         *)
UnsharedAlways(s) == TRUE
Unshared(s) == \A p \in Sharers : s \notin shared[p]
At(v, pc) == visit[v].pc = pc
Goto(v, pc) == visit' = [visit EXCEPT ![v].pc = pc]
Leave(v) == visit' = [visit EXCEPT ![v] = NoVisit]

Linked(email, but) ==
  \E s \in Subs \ but : /\ rows[s] # NoRow
                        /\ rows[s].source = "prod_sync"
                        /\ rows[s].email = email
(* account_users_prod_sync_email_uniq and the unique sub.                     *)
Insertable(s, email) == rows[s] = NoRow /\ ~Linked(email, {})

(* A request begins.  A login enrolls after the link; a session or a bearer   *)
(* only links, and only when its account is not approved already.  Without a  *)
(* verified e-mail of a trusted issuer there is no link to attempt.           *)
Visit(v) ==
  /\ At(v, "idle")
  /\ \E s \in Subs, e \in Emails, login, verified \in BOOLEAN :
       /\ login \/ (verified /\ (rows[s] # NoRow =>
                                   rows[s].status # "approved"))
       /\ visit' = [visit EXCEPT ![v] =
            [pc |-> IF verified THEN "staged" ELSE "lookup", sub |-> s,
             email |-> e, login |-> login, kind |-> "none", token |-> NoRow]]
  /\ UNCHANGED <<rows, invitations, staged, shared, change, events>>

(* Where a request goes when reconcilePreprodSub returns.                     *)
Linker(v) == IF visit[v].login THEN Goto(v, "lookup") ELSE Leave(v)

ReadStaged(v) ==
  /\ At(v, "staged")
  /\ IF staged[visit[v].email].status = "approved"
       THEN Goto(v, "bysub") ELSE Linker(v)
  /\ UNCHANGED <<rows, invitations, staged, shared, change, events>>

(* Only an absent account and a pending one nobody ever approved may be       *)
(* linked; only an account linked to this very e-mail is readmitted.          *)
ReadSub(v) ==
  /\ At(v, "bysub")
  /\ LET row == rows[visit[v].sub]
         Links(kind) == visit' = [visit EXCEPT ![v].pc = "links",
                                               ![v].kind = kind]
     IN \/ row = NoRow /\ Links("create")
        \/ /\ row # NoRow
           /\ row.source = "prod_sync"
           /\ IF row.email = visit[v].email /\ row.status # "approved"
                THEN Goto(v, "readmit") ELSE Linker(v)
        \/ /\ row # NoRow
           /\ row.source = "local"
           /\ IF /\ row.status = "pending"
                 /\ row.approvedBy = "none"
                 /\ row.email = visit[v].email
                THEN Links("adopt") ELSE Linker(v)
  /\ UNCHANGED <<rows, invitations, staged, shared, change, events>>

Self(v) == IF visit[v].kind = "adopt" THEN {visit[v].sub} ELSE {}

FindLink(v) ==
  /\ At(v, "links")
  /\ IF Linked(visit[v].email, Self(v)) THEN Linker(v) ELSE Goto(v, "locals")
  /\ UNCHANGED <<rows, invitations, staged, shared, change, events>>

FindLocal(v) ==
  /\ At(v, "locals")
  /\ IF \E s \in Subs \ Self(v) : /\ rows[s] # NoRow
                                  /\ rows[s].source = "local"
                                  /\ rows[s].email = visit[v].email
       THEN Linker(v) ELSE Goto(v, visit[v].kind)
  /\ UNCHANGED <<rows, invitations, staged, shared, change, events>>

(* A unique violation of either statement is caught: no link, no failure.     *)
CreateLink(v) ==
  /\ At(v, "create")
  /\ rows' = IF Insertable(visit[v].sub, visit[v].email)
               THEN [rows EXCEPT ![visit[v].sub] =
                       Row(visit[v].email, "approved", "prod", "prod_sync")]
               ELSE rows
  /\ Linker(v)
  /\ UNCHANGED <<invitations, staged, shared, change, events>>

(* The WHERE clause of the adoption: still pending, still local.              *)
AdoptableByEmail(row) == row.source = "local"
Adoptable(row) == row.status = "pending" /\ row.source = "local"
AdoptLink(v) ==
  /\ At(v, "adopt")
  /\ Unshared(visit[v].sub)
  /\ rows' = IF /\ Adoptable(rows[visit[v].sub])
                /\ ~Linked(visit[v].email, {visit[v].sub})
               THEN [rows EXCEPT ![visit[v].sub] =
                       Row(visit[v].email, "approved", "prod", "prod_sync")]
               ELSE rows
  /\ Linker(v)
  /\ UNCHANGED <<invitations, staged, shared, change, events>>

Readmit(v) ==
  /\ At(v, "readmit")
  /\ Unshared(visit[v].sub)
  /\ rows' = [rows EXCEPT ![visit[v].sub].status = "approved"]
  /\ Linker(v)
  /\ UNCHANGED <<invitations, staged, shared, change, events>>

(* Enrollment: an account without a decision looks for an invitation; an      *)
(* approved one is let in, a refused one sees its status.                     *)
Lookup(v) ==
  /\ At(v, "lookup")
  /\ LET row == rows[visit[v].sub]
     IN \/ row = NoRow /\ visit[v].email = Chief /\ Goto(v, "enroll")
        \/ row = NoRow /\ visit[v].email # Chief /\ Goto(v, "first")
        \/ row # NoRow /\ row.status = "pending" /\ Goto(v, "again")
        \/ row # NoRow /\ row.status # "pending" /\ Leave(v)
  /\ UNCHANGED <<rows, invitations, staged, shared, change, events>>

(* pickValidInvitation: pending and unexpired.                                *)
Valid(i, email) ==
  /\ invitations[i] # NoRow
  /\ invitations[i].email = email
  /\ invitations[i].status = "pending"
  /\ ~invitations[i].expired
Picked(v, pc, i) == visit' = [visit EXCEPT ![v].pc = pc, ![v].token = i]
Pick(v) ==
  /\ At(v, "first") \/ At(v, "again")
  /\ \/ \E i \in Invitations :
          /\ Valid(i, visit[v].email)
          /\ Picked(v, IF At(v, "first") THEN "accept" ELSE "approve", i)
     \/ /\ \A i \in Invitations : ~Valid(i, visit[v].email)
        /\ IF At(v, "first") THEN Goto(v, "enroll") ELSE Leave(v)
  /\ UNCHANGED <<rows, invitations, staged, shared, change, events>>

(* The retained invitation is consumed by its id, whatever it has become.     *)
Consume(v) ==
  /\ At(v, "accept") \/ At(v, "consume")
  /\ invitations' = [invitations EXCEPT ![visit[v].token].status = "accepted"]
  /\ IF At(v, "accept") THEN Goto(v, "enroll") ELSE Leave(v)
  /\ UNCHANGED <<rows, staged, shared, change, events>>

(* A second first login of the same sub fails on the unique index.            *)
Enroll(v) ==
  /\ At(v, "enroll")
  /\ rows' = IF rows[visit[v].sub] # NoRow THEN rows
             ELSE [rows EXCEPT ![visit[v].sub] =
                     IF visit[v].token # NoRow \/ visit[v].email = Chief
                       THEN Row(visit[v].email, "approved", "invitation",
                                "local")
                       ELSE Row(visit[v].email, "pending", "none", "local")]
  /\ Leave(v)
  /\ UNCHANGED <<invitations, staged, shared, change, events>>

(* The approval by the retained invitation names the account only.            *)
Approve(v) ==
  /\ At(v, "approve")
  /\ Unshared(visit[v].sub)
  /\ rows' = [rows EXCEPT ![visit[v].sub].status = "approved",
                          ![visit[v].sub].approvedBy = "invitation"]
  /\ Goto(v, "consume")
  /\ UNCHANGED <<invitations, staged, shared, change, events>>

Hangup(v) ==
  /\ ~At(v, "idle")
  /\ Leave(v)
  /\ UNCHANGED <<rows, invitations, staged, shared, change, events>>

(* updateAccountStatus: the row is read, updated, then its event is written   *)
(* with the status that was read.                                             *)
Decide(a) ==
  /\ change[a].pc = "idle"
  /\ \E s \in Subs, to \in Decisions :
       /\ rows[s] # NoRow
       /\ change' = [change EXCEPT ![a] =
            [pc |-> "update", sub |-> s, from |-> rows[s].status, to |-> to]]
  /\ UNCHANGED <<rows, invitations, staged, shared, visit, events>>

Update(a) ==
  /\ change[a].pc = "update"
  /\ LET s == change[a].sub IN
       /\ Unshared(s)
       /\ rows' = [rows EXCEPT
            ![s].status = change[a].to,
            ![s].approvedBy = IF change[a].to = "approved" THEN "admin" ELSE @]
  /\ change' = [change EXCEPT ![a].pc = "log"]
  /\ UNCHANGED <<invitations, staged, shared, visit, events>>

Log(a) ==
  /\ change[a].pc = "log"
  /\ events' = events \cup {[sub |-> change[a].sub, from |-> change[a].from,
                             to |-> change[a].to]}
  /\ change' = [change EXCEPT ![a] = NoChange]
  /\ UNCHANGED <<rows, invitations, staged, shared, visit>>

Invite(a) ==
  /\ change[a].pc = "idle"
  /\ \E i \in Invitations, e \in Emails :
       /\ invitations[i] = NoRow
       /\ invitations' = [invitations EXCEPT ![i] =
            [email |-> e, status |-> "pending", expired |-> FALSE]]
  /\ UNCHANGED <<rows, staged, shared, visit, change, events>>

Expire(i) ==
  /\ invitations[i] # NoRow
  /\ ~invitations[i].expired
  /\ invitations' = [invitations EXCEPT ![i].expired = TRUE]
  /\ UNCHANGED <<rows, staged, shared, visit, change, events>>

ReadInvitation(a) ==
  /\ change[a].pc = "idle"
  /\ \E i \in Invitations :
       /\ invitations[i] # NoRow
       /\ invitations[i].status = "pending"
       /\ change' = [change EXCEPT ![a] = [pc |-> "revoke", token |-> i]]
  /\ UNCHANGED <<rows, invitations, staged, shared, visit, events>>

RevokeInvitation(a) ==
  /\ change[a].pc = "revoke"
  /\ invitations' = [invitations EXCEPT ![change[a].token].status = "revoked"]
  /\ change' = [change EXCEPT ![a] = NoChange]
  /\ UNCHANGED <<rows, staged, shared, visit, events>>

Abandon(a) ==
  /\ change[a].pc # "idle"
  /\ change' = [change EXCEPT ![a] = NoChange]
  /\ UNCHANGED <<rows, invitations, staged, shared, visit, events>>

LinkStep(v) == \/ ReadStaged(v) \/ ReadSub(v) \/ FindLink(v) \/ FindLocal(v)
               \/ CreateLink(v) \/ AdoptLink(v) \/ Readmit(v)
EnrollStep(v) == Lookup(v) \/ Pick(v) \/ Consume(v) \/ Enroll(v) \/ Approve(v)
AdminStep(a) == \/ Decide(a) \/ Update(a) \/ Log(a) \/ Invite(a)
                \/ ReadInvitation(a) \/ RevokeInvitation(a) \/ Abandon(a)
AccountsNext ==
  \/ \E v \in Visitors : Visit(v) \/ LinkStep(v) \/ EnrollStep(v) \/ Hangup(v)
  \/ \E a \in Admins : AdminStep(a)
  \/ \E i \in Invitations : Expire(i)
------------------------------------------------------------------------------
(* Types.  What is read of a row or of an invitation is read only while there *)
(* is one, and neither is ever deleted.                                       *)
AccountRows == [email : Emails, status : Statuses,
                approvedBy : {"none", "admin", "invitation", "prod"},
                source : {"local", "prod_sync"}]
InvitationRows == [email : Emails, status : {"pending", "accepted", "revoked"},
                   expired : BOOLEAN]
Visiting == [pc : {"staged", "bysub", "links", "locals", "create", "adopt",
                   "readmit", "lookup", "first", "again", "accept", "approve",
                   "consume", "enroll"},
             sub : Subs, email : Emails, login : BOOLEAN,
             kind : {"none", "create", "adopt"},
             token : Invitations \cup {NoRow}]
Deciding == [pc : {"update", "log"}, sub : Subs, from : Statuses,
             to : Decisions]
Revoking == [pc : {"revoke"}, token : Invitations]

ASSUME AccountsAssumption ==
  NoRow \notin AccountRows \cup InvitationRows \cup Invitations

AccountsTypeOK ==
  /\ rows \in [Subs -> AccountRows \cup {NoRow}]
  /\ invitations \in [Invitations -> InvitationRows \cup {NoRow}]
  /\ staged \in [Emails -> [status : Statuses \cup {"none"}, at : Nat]]
  /\ shared \in [Sharers -> SUBSET Subs]
  /\ visit \in [Visitors -> Visiting \cup {NoVisit}]
  /\ change \in [Admins -> Deciding \cup Revoking \cup {NoChange}]
  /\ events \subseteq [sub : Subs, from : Statuses, to : Decisions]
  /\ \A v \in Visitors :
       /\ visit[v].pc \in {"adopt", "readmit", "again", "approve", "consume"}
            => rows[visit[v].sub] # NoRow
       /\ visit[v].pc \in {"accept", "approve", "consume"}
            => /\ visit[v].token \in Invitations
               /\ invitations[visit[v].token] # NoRow
       /\ visit[v].pc \in {"links", "locals"}
            => /\ visit[v].kind # "none"
               /\ visit[v].kind = "adopt" => rows[visit[v].sub] # NoRow
  /\ \A a \in Admins :
       /\ change[a].pc \in {"update", "log"} => rows[change[a].sub] # NoRow
       /\ change[a].pc = "revoke" => invitations[change[a].token] # NoRow

(* "A suspended/rejected account is NEVER reactivated by an invitation: only  *)
(* an explicit admin status change reactivates it" (routes/auth.ts).          *)
NeverReactivated ==
  [][\A s \in Subs :
       (/\ rows[s] # NoRow
        /\ rows[s].source = "local"
        /\ rows[s].status \in {"rejected", "suspended"}
        /\ rows'[s].status = "approved")
       => rows'[s].approvedBy # "invitation"]_accountVars

(* admission/jit.ts: a local account is linked to an admission only while     *)
(* nobody has decided on it, even when the decision falls between the link's  *)
(* reads and its update.                                                      *)
DecisionsStand ==
  [][\A s \in Subs :
       (/\ rows[s] # NoRow
        /\ rows[s].source = "local"
        /\ rows'[s].source = "prod_sync")
       => rows[s].status = "pending"]_accountVars
==============================================================================
