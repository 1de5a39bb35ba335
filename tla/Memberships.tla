----------------------------- MODULE Memberships -----------------------------
(* The members of one workspace (src/api/src/services/workspaces): commands   *)
(* of its managers and the operator's initialization, each one transaction    *)
(* under the lock of the workspace, over accounts that administrators decide  *)
(* on meanwhile (Accounts).  Workspaces share nothing but the accounts, which *)
(* a command holds FOR SHARE until it ends.                                   *)
(*                                                                            *)
(* A record is looked up, shown, and only then named by a command, through    *)
(* its revision.  A command is judged and its effect computed in one step:    *)
(* under the workspace lock nothing else writes the two tables it reads.      *)
EXTENDS Accounts, Integers, SequencesExt

CONSTANT NoMember

VARIABLES
  members,   \* workspace_memberships, by account
  audit,     \* workspace_membership_events, by account
  tx         \* [Sharers -> the command or initialization under way]

memberVars == <<accountVars, members, audit, tx>>
ownVars == <<members, audit, tx>>

Member(status, revision, moderate, manage) ==
  [status |-> status, revision |-> revision, moderate |-> moderate,
   manage |-> manage]
NoTx == [pc |-> "idle"]

MembersInit ==
  /\ members = [s \in Subs |-> NoMember]
  /\ audit = [s \in Subs |-> <<>>]
  /\ tx = [p \in Sharers |-> NoTx]

Active(m) == m # NoMember /\ m.status = "active"
Approved(s) == rows[s] # NoRow /\ rows[s].status = "approved"

(* addMembership: an active member stays as it is; another comes back, or in, *)
(* without any capability.                                                    *)
Revision(m) == IF m = NoMember THEN 0 ELSE m.revision
Added(m) == IF Active(m) THEN m
            ELSE Member("active", Revision(m) + 1, FALSE, FALSE)
Revoked(m) == [m EXCEPT !.status = "revoked", !.revision = @ + 1]
(* setMembershipCapability: the value a member already has changes nothing.   *)
Set(m, capability, want) ==
  IF want = "keep" \/ m[capability] = (want = "yes") THEN m
  ELSE [m EXCEPT ![capability] = (want = "yes"), !.revision = @ + 1]

(* One audit row per change, none for what changes nothing.                   *)
Trail(from, to) ==
  (IF Active(to) /\ ~Active(from) THEN <<<<"added", "member">>>> ELSE <<>>)
  \o (IF Active(from) /\ ~Active(to) THEN <<<<"revoked", "member">>>> ELSE <<>>)
CapabilityTrailAlways(capability, from, to) ==
  <<IF to[capability] THEN <<"granted", capability>>
    ELSE <<"withdrawn", capability>>>>
CapabilityTrail(capability, from, to) ==
  IF from[capability] = to[capability] THEN <<>>
  ELSE <<IF to[capability] THEN <<"granted", capability>>
         ELSE <<"withdrawn", capability>>>>

(* applyMembershipCommand, once it is accepted: a revocation, or a membership *)
(* if one is asked for or missing, then the two capabilities in turn.         *)
Entered(m, c) ==
  IF c.status = "active" \/ m = NoMember THEN Added(m) ELSE m
Moderated(m, c) == Set(Entered(m, c), "moderate", c.moderate)
Result(m, c) == IF c.status = "revoked" THEN Revoked(m)
                ELSE Set(Moderated(m, c), "manage", c.manage)
Audited(m, c) ==
  IF c.status = "revoked" THEN Trail(m, Revoked(m))
  ELSE Trail(m, Entered(m, c))
       \o CapabilityTrail("moderate", Entered(m, c), Moderated(m, c))
       \o CapabilityTrail("manage", Moderated(m, c), Result(m, c))

Grants(c) == c.moderate = "yes" \/ c.manage = "yes"
Bare(c) == c.moderate = "keep" /\ c.manage = "keep"
(* checkRevision: the sender names the revision it saw, or that there is none.*)
SeenAny(m, c) == (m = NoMember) = (c.seen = NoMember)
Seen(m, c) == Revision(m) = Revision(c.seen)
(* Withdrawals never create a membership, and only an active one is changed   *)
(* or revoked unless the command asks for it to be active.                    *)
Acceptable(m, c) ==
  /\ Seen(m, c)
  /\ c.status = "revoked" => Active(m)
  /\ m = NoMember => c.status = "active" \/ Grants(c)
  /\ (c.status = "keep" /\ m # NoMember /\ ~Bare(c)) => Active(m)
(* The accounts that must be approved, and stay so until the transaction ends.*)
Targets(m, c) ==
  IF c.status # "revoked" /\ (c.status = "active" \/ m = NoMember \/ Grants(c))
    THEN {c.target} ELSE {}

Wants == {"keep", "yes", "no"}
(* The advisory lock of the workspace.                                        *)
LockFree == \A p \in Sharers : tx[p].pc \notin {"apply", "commit"}

(* A manager looks at a member, then sends a command about it.                *)
Send(p) ==
  /\ tx[p].pc = "idle"
  /\ \E actor, target \in Subs, status \in {"active", "revoked", "keep"},
        moderate, manage \in Wants :
       tx' = [tx EXCEPT ![p] =
         [pc |-> "sent", kind |-> "command",
          cmd |-> [actor |-> actor, target |-> target, seen |-> members[target],
                   status |-> status, moderate |-> moderate,
                   manage |-> manage]]]
  /\ UNCHANGED <<accountVars, members, audit>>

(* lockWorkspace, then managingActorId: the author's account is approved, and *)
(* held; the author is an active manager of this workspace.                   *)
Check(p) ==
  /\ tx[p].pc = "sent" /\ tx[p].kind = "command" /\ LockFree
  /\ LET actor == tx[p].cmd.actor
     IN /\ Approved(actor)
        /\ Active(members[actor]) /\ members[actor].manage
        /\ shared' = [shared EXCEPT ![p] = {actor}]
  /\ tx' = [tx EXCEPT ![p].pc = "apply"]
  /\ UNCHANGED <<rows, invitations, staged, visit, change, events, members,
                 audit>>

Judge(p) ==
  /\ tx[p].pc = "apply"
  /\ LET c == tx[p].cmd
         m == members[c.target]
     IN /\ Acceptable(m, c)
        /\ \A s \in Targets(m, c) : Approved(s)
        /\ shared' = [shared EXCEPT ![p] = @ \cup Targets(m, c)]
        /\ tx' = [tx EXCEPT ![p] =
             [pc |-> "commit", kind |-> "command", cmd |-> c,
              wrote |-> [members EXCEPT ![c.target] = Result(m, c)],
              logs |-> [audit EXCEPT ![c.target] = @ \o Audited(m, c)]]]
  /\ UNCHANGED <<rows, invitations, staged, visit, change, events, members,
                 audit>>

(* initializeWorkspaceStore, in one transaction under the same lock.          *)
Initialize(p) ==
  /\ tx[p].pc = "idle"
  /\ \E approved \in (SUBSET Subs) \ {{}} :
     \E moderators, managers \in SUBSET approved :
       tx' = [tx EXCEPT ![p] =
         [pc |-> "sent", kind |-> "init", approved |-> approved,
          moderators |-> moderators, managers |-> managers]]
  /\ UNCHANGED <<accountVars, members, audit>>

Wanted(s, set) == IF s \in set THEN "yes" ELSE "keep"
Listed(p, s) == [status |-> "active",
                 moderate |-> Wanted(s, tx[p].moderators),
                 manage |-> Wanted(s, tx[p].managers)]
Populate(p) ==
  /\ tx[p].pc = "sent" /\ tx[p].kind = "init" /\ LockFree
  /\ \A s \in tx[p].approved : Approved(s)
  /\ shared' = [shared EXCEPT ![p] = tx[p].approved]
  /\ tx' = [tx EXCEPT ![p] =
       [pc |-> "commit", kind |-> "init",
        wrote |-> [s \in Subs |->
          IF s \in tx[p].approved THEN Result(members[s], Listed(p, s))
          ELSE members[s]],
        logs |-> [s \in Subs |->
          IF s \in tx[p].approved
            THEN audit[s] \o Audited(members[s], Listed(p, s))
            ELSE audit[s]]]]
  /\ UNCHANGED <<rows, invitations, staged, visit, change, events, members,
                 audit>>

Done(p) == /\ tx' = [tx EXCEPT ![p] = NoTx]
           /\ shared' = [shared EXCEPT ![p] = {}]
Commit(p) ==
  /\ tx[p].pc = "commit"
  /\ members' = tx[p].wrote
  /\ audit' = tx[p].logs
  /\ Done(p)
  /\ UNCHANGED <<rows, invitations, staged, visit, change, events>>

(* Any refusal, and any failure, rolls the whole command back.                *)
Refuse(p) ==
  /\ tx[p].pc # "idle"
  /\ Done(p)
  /\ UNCHANGED <<rows, invitations, staged, visit, change, events, members,
                 audit>>

MembersNext ==
  \/ AccountsNext /\ UNCHANGED ownVars
  \/ \E p \in Sharers : \/ Send(p) \/ Check(p) \/ Judge(p)
                        \/ Initialize(p) \/ Populate(p)
                        \/ Commit(p) \/ Refuse(p)
MembersSpec ==
  AccountsInit /\ MembersInit /\ [][MembersNext]_memberVars
------------------------------------------------------------------------------
(* Types.                                                                     *)
Records == [status : {"active", "revoked"}, revision : Nat \ {0},
            moderate : BOOLEAN, manage : BOOLEAN]
ASSUME MembersAssumption == NoMember \notin Records

Standing == Records \cup {NoMember}
AuditRows == {"added", "revoked", "granted", "withdrawn"}
               \X {"member", "moderate", "manage"}
Commands == [actor : Subs, target : Subs, seen : Standing,
             status : {"active", "revoked", "keep"},
             moderate : Wants, manage : Wants]
Sent == [pc : {"sent", "apply"}, kind : {"command"}, cmd : Commands]
Judged == [pc : {"commit"}, kind : {"command"}, cmd : Commands,
           wrote : [Subs -> Standing], logs : [Subs -> Seq(AuditRows)]]
Starting == [pc : {"sent"}, kind : {"init"}, approved : SUBSET Subs,
             moderators : SUBSET Subs, managers : SUBSET Subs]
Started == [pc : {"commit"}, kind : {"init"},
            wrote : [Subs -> Standing], logs : [Subs -> Seq(AuditRows)]]

MembersTypeOK ==
  /\ members \in [Subs -> Standing]
  /\ audit \in [Subs -> Seq(AuditRows)]
  /\ tx \in [Sharers -> {NoTx} \cup Sent \cup Judged \cup Starting
                         \cup Started]

(* The audit tells the members: replaying the rows of an account, one         *)
(* revision each, gives its membership back.                                  *)
Replay(m, event) ==
  CASE event[1] = "added" -> Member("active", Revision(m) + 1, FALSE, FALSE)
    [] event[1] = "revoked" -> Revoked(m)
    [] OTHER -> [m EXCEPT ![event[2]] = (event[1] = "granted"),
                          !.revision = @ + 1]
AuditReplays ==
  \A s \in Subs : members[s] = FoldLeft(Replay, NoMember, audit[s])

(* A command takes effect only while its author is an approved active manager *)
(* and, when it grants, while its target is approved: neither an              *)
(* administrator's decision nor another command can slip between the check    *)
(* and the commit.                                                            *)
Commits(p) == tx[p].pc = "commit" /\ members' = tx[p].wrote /\ members' # members
AuthorStands ==
  [][\A p \in Sharers :
       (Commits(p) /\ tx[p].kind = "command") =>
         LET c == tx[p].cmd
         IN /\ Approved(c.actor)
            /\ Active(members[c.actor]) /\ members[c.actor].manage
            /\ (Active(members'[c.target]) /\ ~Active(members[c.target]))
                 => Approved(c.target)]_memberVars

(* A command changes the membership its sender saw, not one that has become   *)
(* another since, whatever happened in between.                               *)
SeenApplied ==
  [][\A p \in Sharers :
       (Commits(p) /\ tx[p].kind = "command") =>
         members[tx[p].cmd.target] = tx[p].cmd.seen]_memberVars
==============================================================================
