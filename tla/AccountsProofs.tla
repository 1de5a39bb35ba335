--------------------------- MODULE AccountsProofs ---------------------------
(* Proofs about the accounts: the member commands of Memberships, then         *)
(* Accounts and Admission.                                                     *)
EXTENDS Admission, Memberships, SequenceTheorems, FoldTheorems, TLAPS

(* The member commands of Memberships, for any number of accounts, of         *)
(* administrators and of concurrent commands and initializations.             *)
(*                                                                            *)
(* Three facts carry the argument.  Only one transaction is past the lock of  *)
(* the workspace (Alone), so what it judged is still what it commits over.    *)
(* What it holds FOR SHARE no statement of another request changes            *)
(* (HeldRowsStand), so its author stays approved.  And a membership only ever *)
(* moves to a greater revision (Grows), so the one a command names by its     *)
(* revision is the one its sender saw.                                        *)

Holds(p) == tx[p].pc \in {"apply", "commit"}
Alone == \A p, q \in Sharers : Holds(p) /\ Holds(q) => p = q

Grows(m, n) == m = n \/ Revision(m) < Revision(n)

Authority(p) ==
  (Holds(p) /\ tx[p].kind = "command") =>
    LET actor == tx[p].cmd.actor
    IN /\ actor \in shared[p] /\ Approved(actor)
       /\ Active(members[actor]) /\ members[actor].manage

Judgement(p) ==
  (tx[p].pc = "commit" /\ tx[p].kind = "command") =>
    LET target == tx[p].cmd.target
    IN /\ members[target] = tx[p].cmd.seen
       /\ (Active(tx[p].wrote[target]) /\ ~Active(members[target])) =>
            target \in shared[p] /\ Approved(target)

Growth(p) ==
  tx[p].pc = "commit" => \A s \in Subs : Grows(members[s], tx[p].wrote[s])

Memory(p) ==
  (tx[p].pc \in {"sent", "apply"} /\ tx[p].kind = "command") =>
    Grows(tx[p].cmd.seen, members[tx[p].cmd.target])

Sound(p) == Authority(p) /\ Judgement(p) /\ Growth(p) /\ Memory(p)

Rows == DOMAIN rows = Subs /\ DOMAIN shared = Sharers

MembersInv == /\ MembersTypeOK /\ Rows /\ Alone
              /\ \A p \in Sharers : Sound(p)

------------------------------------------------------------------------------
(* What a command makes of one membership.                                    *)

(* A membership only moves to a greater revision.                             *)
LEMMA GrowsRecords ==
  ASSUME NEW m \in Standing, NEW n \in Records,
         m = NoMember \/ n.revision > m.revision
  PROVE  Grows(m, n)
<1>1. n.revision \in Nat /\ n.revision > 0 /\ n # NoMember
  BY MembersAssumption DEF Records
<1>2. CASE m = NoMember
  BY <1>1, <1>2 DEF Grows, Revision
<1>3. CASE m # NoMember
  BY <1>1, <1>3 DEF Grows, Revision
<1> QED
  BY <1>2, <1>3

\* Growth of a membership is transitive.
LEMMA GrowsOn ==
  ASSUME NEW l \in Standing, NEW m \in Standing, NEW n \in Standing,
         Grows(l, m), Grows(m, n)
  PROVE  Grows(l, n)
<1>1. Revision(l) \in Nat /\ Revision(m) \in Nat /\ Revision(n) \in Nat
  BY DEF Revision, Standing, Records
<1> QED
  BY <1>1 DEF Grows

\* A capability set to what it was changes nothing; otherwise the revision is new.
LEMMA SetGrows ==
  ASSUME NEW m \in Records, NEW capability \in {"moderate", "manage"}, NEW want
  PROVE  /\ Set(m, capability, want) \in Records
         /\ Grows(m, Set(m, capability, want))
<1> DEFINE b == want = "yes"
           n == [m EXCEPT ![capability] = b, !.revision = @ + 1]
<1>1. CASE Set(m, capability, want) = m
  BY <1>1 DEF Grows
<1>2. CASE Set(m, capability, want) = n
  <2>0. b \in BOOLEAN
    OBVIOUS
  <2> HIDE DEF b
  <2>1. m.revision \in Nat \ {0} /\ m.revision + 1 \in Nat \ {0}
    BY DEF Records
  <2>2. /\ [m EXCEPT !.moderate = b, !.revision = @ + 1] \in Records
        /\ [m EXCEPT !.manage = b, !.revision = @ + 1] \in Records
    BY <2>0, <2>1 DEF Records
  <2>3. \/ n = [m EXCEPT !.moderate = b, !.revision = @ + 1]
        \/ n = [m EXCEPT !.manage = b, !.revision = @ + 1]
    OBVIOUS
  <2>4. n.revision = m.revision + 1
    BY <2>1 DEF Records
  <2> HIDE DEF n
  <2>5. n \in Records /\ n.revision > m.revision
    BY <2>1, <2>2, <2>3, <2>4
  <2>6. Grows(m, n)
    BY <2>5, GrowsRecords DEF Standing
  <2> QED
    BY <1>2, <2>5, <2>6
<1> QED
  BY <1>1, <1>2 DEF Set

\* Adding or bringing back a member leaves an active one, grown.
LEMMA AddedGrows ==
  ASSUME NEW m \in Standing
  PROVE  Added(m) \in Standing /\ Active(Added(m)) /\ Grows(m, Added(m))
<1>1. CASE Active(m)
  BY <1>1 DEF Added, Grows
<1>2. CASE ~Active(m)
  <2>1. Revision(m) \in Nat
    BY DEF Revision, Standing, Records
  <2>2. Added(m) \in Records /\ Added(m).status = "active"
        /\ Added(m).revision = Revision(m) + 1
    BY <1>2, <2>1 DEF Added, Member, Records
  <2>3. m = NoMember \/ Added(m).revision > m.revision
    BY <2>1, <2>2 DEF Revision
  <2> QED
    BY <2>2, <2>3, GrowsRecords, MembersAssumption DEF Standing, Active
<1> QED
  BY <1>1, <1>2

\* A command that may apply makes a membership grow.
LEMMA ResultGrows ==
  ASSUME NEW m \in Standing, NEW c,
         c.status = "revoked" => Active(m)
  PROVE  Result(m, c) \in Standing /\ Grows(m, Result(m, c))
<1>1. CASE c.status = "revoked"
  <2>1. m \in Records
    BY <1>1 DEF Active, Standing
  <2>2. m.revision \in Nat \ {0} /\ Revoked(m).revision = m.revision + 1
    BY <2>1 DEF Revoked, Records
  <2>3. m.revision + 1 \in Nat \ {0} /\ m.revision + 1 > m.revision
    BY <2>2
  <2>4. Revoked(m) \in Records
    BY <2>1, <2>3 DEF Revoked, Records
  <2> QED
    BY <1>1, <2>2, <2>3, <2>4, GrowsRecords DEF Result, Standing
<1>2. CASE c.status # "revoked"
  <2> DEFINE e == Entered(m, c)
  <2>1. e \in Records /\ Grows(m, e)
    BY AddedGrows DEF Entered, Standing, Grows, Active
  <2>2. Moderated(m, c) \in Records /\ Grows(e, Moderated(m, c))
    BY <2>1, SetGrows DEF Moderated
  <2>3. Result(m, c) \in Records /\ Grows(Moderated(m, c), Result(m, c))
    BY <1>2, <2>2, SetGrows DEF Result
  <2> HIDE DEF e
  <2>4. Grows(m, Moderated(m, c))
    BY <2>1, <2>2, GrowsOn DEF Standing
  <2> QED
    BY <2>2, <2>3, <2>4, GrowsOn DEF Standing
<1> QED
  BY <1>1, <1>2

(* Its trail in the audit.                                                    *)
LEMMA TrailRows ==
  ASSUME NEW from, NEW to
  PROVE  /\ Trail(from, to) \in Seq(AuditRows)
         /\ CapabilityTrail("moderate", from, to) \in Seq(AuditRows)
         /\ CapabilityTrail("manage", from, to) \in Seq(AuditRows)
<1>1. <<>> \in Seq(AuditRows)
      /\ \A row \in AuditRows : <<row>> \in Seq(AuditRows)
  OBVIOUS
<1>2. \A word \in {"added", "revoked", "granted", "withdrawn"},
         of \in {"member", "moderate", "manage"} : <<word, of>> \in AuditRows
  BY DEF AuditRows
<1>3. Trail(from, to) \in Seq(AuditRows)
  BY <1>1, <1>2, ConcatProperties DEF Trail
<1>4. /\ CapabilityTrail("moderate", from, to) \in Seq(AuditRows)
      /\ CapabilityTrail("manage", from, to) \in Seq(AuditRows)
  BY <1>1, <1>2 DEF CapabilityTrail
<1> QED
  BY <1>3, <1>4

\* What a command audits is rows of the audit.
LEMMA AuditedRows ==
  ASSUME NEW m \in Standing, NEW c PROVE Audited(m, c) \in Seq(AuditRows)
  BY TrailRows, ConcatProperties DEF Audited

(* A membership found again under the revision it was seen with is the same.  *)
LEMMA SeenSame ==
  ASSUME NEW m \in Standing, NEW seen \in Standing,
         Grows(seen, m), Revision(m) = Revision(seen)
  PROVE  m = seen
<1>1. Revision(m) \in Nat /\ Revision(seen) \in Nat
  BY DEF Revision, Standing, Records
<1> QED
  BY <1>1 DEF Grows
------------------------------------------------------------------------------
(* What a transaction holds FOR SHARE, no other request changes.              *)
LEMMA RowsKept ==
  ASSUME Rows, AccountsNext PROVE Rows' /\ shared' = shared
BY DEF AccountsNext, Rows, Visit, LinkStep, EnrollStep, AdminStep, Hangup,
   ReadStaged, ReadSub, FindLink, FindLocal, CreateLink, AdoptLink,
   Readmit, Lookup, Pick, Consume, Enroll, Approve, Decide, Update, Log,
   Invite, ReadInvitation, RevokeInvitation, Abandon, Expire

\* An account held FOR SHARE stays approved: every writer of its status waits.
LEMMA HeldRowsStand ==
  ASSUME Rows, AccountsNext, NEW p \in Sharers, NEW s \in shared[p],
         s \in Subs, Approved(s)
  PROVE  Approved(s)'
<1> SUFFICES rows'[s] = rows[s]
  BY DEF Approved
<1>1. rows[s] # NoRow
  BY DEF Approved
<1>2. ASSUME NEW v \in Visitors, LinkStep(v) PROVE rows'[s] = rows[s]
  <2>1. CASE CreateLink(v)
    BY <1>1, <2>1 DEF CreateLink, Insertable, Rows
  <2>2. CASE AdoptLink(v) \/ Readmit(v)
    BY <2>2 DEF AdoptLink, Readmit, Unshared, Rows
  <2> QED
    BY <1>2, <2>1, <2>2 DEF LinkStep, ReadStaged, ReadSub, FindLink, FindLocal
<1>3. ASSUME NEW v \in Visitors, EnrollStep(v) PROVE rows'[s] = rows[s]
  <2>1. CASE Enroll(v)
    BY <1>1, <2>1 DEF Enroll, Rows
  <2>2. CASE Approve(v)
    BY <2>2 DEF Approve, Unshared, Rows
  <2> QED
    BY <1>3, <2>1, <2>2 DEF EnrollStep, Lookup, Pick, Consume
<1>4. ASSUME NEW a \in Admins, AdminStep(a) PROVE rows'[s] = rows[s]
  <2>1. CASE Update(a)
    BY <2>1 DEF Update, Unshared, Rows
  <2> QED
    BY <1>4, <2>1 DEF AdminStep, Decide, Log, Invite, ReadInvitation,
       RevokeInvitation, Abandon
<1> QED
  BY <1>2, <1>3, <1>4 DEF AccountsNext, Visit, Hangup, Expire

\* The empty workspace satisfies the invariant.
LEMMA MembersInitInv == AccountsInit /\ MembersInit => MembersInv
<1> SUFFICES ASSUME AccountsInit, MembersInit PROVE MembersInv
  OBVIOUS
<1>1. MembersTypeOK
  BY DEF MembersInit, MembersTypeOK, Standing
<1>2. \A p \in Sharers : tx[p].pc = "idle"
  BY DEF MembersInit, NoTx
<1> QED
  BY <1>1, <1>2 DEF AccountsInit, AtRest, MembersInv, Rows, Alone, Holds,
     Sound, Authority, Judgement, Growth, Memory

(* The other requests of the accounts move nothing a command relies on.       *)
LEMMA AccountsKeep ==
  ASSUME MembersInv, AccountsNext, UNCHANGED ownVars PROVE MembersInv'
<1>1. Rows' /\ shared' = shared /\ members' = members /\ audit' = audit
      /\ tx' = tx
  BY RowsKept DEF MembersInv, ownVars
<1>2. MembersTypeOK' /\ Alone'
  BY <1>1 DEF MembersInv, MembersTypeOK, Alone, Holds
<1>3. ASSUME NEW p \in Sharers PROVE Sound(p)'
  <2>1. Growth(p)' /\ Memory(p)'
    BY <1>1 DEF MembersInv, Sound, Growth, Memory
  <2>2. Authority(p)'
    BY <1>1, HeldRowsStand DEF MembersInv, Sound, MembersTypeOK, Authority,
       Holds, Active, Sent, Judged, Starting, Started, Commands, NoTx
  <2>3. Judgement(p)'
    BY <1>1, HeldRowsStand DEF MembersInv, Sound, MembersTypeOK, Judgement,
       Active, Sent, Judged, Starting, Started, Commands, NoTx
  <2> QED
    BY <2>1, <2>2, <2>3 DEF Sound
<1> QED
  BY <1>1, <1>2, <1>3 DEF MembersInv

(* A step of one transaction that writes no membership leaves the others      *)
(* sound.                                                                     *)
LEMMA OthersSound ==
  ASSUME MembersInv, NEW p \in Sharers, NEW q \in Sharers \ {p},
         rows' = rows, members' = members,
         tx'[q] = tx[q], shared'[q] = shared[q]
  PROVE  Sound(q)'
BY DEF MembersInv, Sound, Authority, Judgement, Growth, Memory, Holds,
   Approved

\* A command that arrives keeps the invariant.
LEMMA SendKeeps ==
  ASSUME MembersInv, NEW p \in Sharers, Send(p) PROVE MembersInv'
<1>1. PICK c \in Commands :
        /\ tx' = [tx EXCEPT ![p] = [pc |-> "sent", kind |-> "command",
                                    cmd |-> c]]
        /\ c.seen = members[c.target]
  <2>1. \A s \in Subs : members[s] \in Standing
    BY DEF MembersInv, MembersTypeOK
  <2>2. PICK actor \in Subs, target \in Subs,
             status \in {"active", "revoked", "keep"},
             moderate \in Wants, manage \in Wants :
          tx' = [tx EXCEPT ![p] =
            [pc |-> "sent", kind |-> "command",
             cmd |-> [actor |-> actor, target |-> target,
                      seen |-> members[target], status |-> status,
                      moderate |-> moderate, manage |-> manage]]]
    BY Zenon DEF Send
  <2> DEFINE d == [actor |-> actor, target |-> target,
                   seen |-> members[target], status |-> status,
                   moderate |-> moderate, manage |-> manage]
  <2>3. d \in Commands /\ d.seen = members[d.target]
    BY <2>1 DEF Commands
  <2> QED
    BY <2>2, <2>3
<1>2. UNCHANGED <<accountVars, members, audit>>
  BY DEF Send
<1>3. tx'[p] = [pc |-> "sent", kind |-> "command", cmd |-> c]
      /\ \A q \in Sharers \ {p} : tx'[q] = tx[q]
  BY <1>1 DEF MembersInv, MembersTypeOK
<1>4. MembersTypeOK'
  BY <1>1, <1>2, <1>3 DEF MembersInv, MembersTypeOK, Sent
<1>5. Rows' /\ Alone'
  BY <1>2, <1>3 DEF MembersInv, Rows, Alone, Holds, accountVars
<1>6. Sound(p)'
  BY <1>1, <1>2, <1>3 DEF Sound, Authority, Judgement, Growth, Memory, Holds,
     Grows
<1>7. \A q \in Sharers \ {p} : Sound(q)'
  BY <1>2, <1>3, OthersSound DEF accountVars
<1> QED
  BY <1>4, <1>5, <1>6, <1>7 DEF MembersInv

\* The check of the author, which takes the accounts FOR SHARE, keeps it.
LEMMA CheckKeeps ==
  ASSUME MembersInv, NEW p \in Sharers, Check(p) PROVE MembersInv'
<1> DEFINE c == tx[p].cmd
<1>1. tx[p] \in Sent /\ tx[p].pc = "sent" /\ c \in Commands
  BY DEF Check, MembersInv, MembersTypeOK, NoTx, Sent, Judged, Starting,
     Started
<1>2. /\ tx'[p] = [tx[p] EXCEPT !.pc = "apply"]
      /\ shared'[p] = {c.actor}
      /\ \A q \in Sharers \ {p} : tx'[q] = tx[q] /\ shared'[q] = shared[q]
      /\ rows' = rows /\ members' = members /\ audit' = audit
      /\ DOMAIN shared' = Sharers
  BY DEF Check, MembersInv, MembersTypeOK, Rows
<1>3. tx'[p] \in Sent /\ tx'[p].pc = "apply" /\ tx'[p].cmd = c
      /\ tx'[p].kind = "command"
  BY <1>1, <1>2 DEF Sent
<1>4. MembersTypeOK'
  BY <1>2, <1>3 DEF Check, MembersInv, MembersTypeOK
<1>5. Rows' /\ Alone'
  BY <1>2, <1>3 DEF Check, LockFree, MembersInv, Rows, Alone, Holds
<1>6. Sound(p)'
  BY <1>1, <1>2, <1>3 DEF Check, MembersInv, Sound, Authority, Judgement,
     Growth, Memory, Holds, Approved, Sent
<1>7. \A q \in Sharers \ {p} : Sound(q)'
  BY <1>2, OthersSound
<1> QED
  BY <1>4, <1>5, <1>6, <1>7 DEF MembersInv

\* The judgement under the workspace lock keeps it.
LEMMA JudgeKeeps ==
  ASSUME MembersInv, NEW p \in Sharers, Judge(p) PROVE MembersInv'
<1> DEFINE c == tx[p].cmd
           m == members[c.target]
           w == [members EXCEPT ![c.target] = Result(m, c)]
           l == [audit EXCEPT ![c.target] = @ \o Audited(m, c)]
<1>1. tx[p] \in Sent /\ tx[p].pc = "apply" /\ c \in Commands
      /\ tx[p].kind = "command"
  BY DEF Judge, MembersInv, MembersTypeOK, NoTx, Sent, Judged, Starting,
     Started
<1>2. c.target \in Subs /\ m \in Standing /\ c.seen \in Standing
  BY <1>1 DEF Commands, MembersInv, MembersTypeOK
<1>3. /\ tx'[p] = [pc |-> "commit", kind |-> "command", cmd |-> c,
                   wrote |-> w, logs |-> l]
      /\ shared'[p] = shared[p] \cup Targets(m, c)
      /\ \A q \in Sharers \ {p} : tx'[q] = tx[q] /\ shared'[q] = shared[q]
      /\ rows' = rows /\ members' = members /\ audit' = audit
      /\ DOMAIN shared' = Sharers
      /\ tx' = [tx EXCEPT ![p] = tx'[p]]
  BY DEF Judge, MembersInv, MembersTypeOK, Rows
<1>4. Acceptable(m, c) /\ \A s \in Targets(m, c) : Approved(s)
  BY DEF Judge
<1>5. Result(m, c) \in Standing /\ Grows(m, Result(m, c))
  BY <1>2, <1>4, ResultGrows DEF Acceptable
<1>6. w \in [Subs -> Standing] /\ l \in [Subs -> Seq(AuditRows)]
  <2>1. Audited(m, c) \in Seq(AuditRows)
    BY <1>2, AuditedRows
  <2> QED
    BY <1>2, <1>5, <2>1, ConcatProperties DEF MembersInv, MembersTypeOK
<1>7. MembersTypeOK'
  <2>1. tx'[p] \in Judged
    <3> HIDE DEF c, w, l
    <3> QED BY <1>1, <1>3, <1>6 DEF Judged
  <2> QED
    BY <1>3, <2>1 DEF MembersInv, MembersTypeOK
<1>8. Rows' /\ Alone'
  BY <1>1, <1>3 DEF MembersInv, Rows, Alone, Holds
<1>9. m = c.seen
  <2>1. Grows(c.seen, m)
    BY <1>1 DEF MembersInv, Sound, Memory
  <2> QED
    BY <1>2, <1>4, <2>1, SeenSame DEF Acceptable, Seen
<1>10. (Active(Result(m, c)) /\ ~Active(m)) => c.target \in Targets(m, c)
  BY <1>2, <1>4 DEF Acceptable, Targets, Result, Revoked, Active, Standing,
     Records, Bare, Entered, Moderated, Set
<1>11. \A s \in Subs : Grows(members[s], w[s])
  BY <1>2, <1>5 DEF Grows, MembersInv, MembersTypeOK
<1>12. Sound(p)'
  <2>1. Authority(p)'
    <3>1. Authority(p) /\ Holds(p) /\ tx[p].kind = "command" /\ tx[p].cmd = c
      BY <1>1 DEF MembersInv, Sound, Holds
    <3> HIDE DEF c, w, l, m
    <3> QED BY <1>3, <3>1 DEF Authority, Approved
  <2>2. Judgement(p)'
    <3>1. w[c.target] = Result(m, c)
      BY <1>2 DEF MembersInv, MembersTypeOK
    <3> HIDE DEF w, l
    <3> QED
      BY <1>3, <1>4, <1>9, <1>10, <3>1 DEF Judgement, Approved
  <2>3. Growth(p)' /\ Memory(p)'
    <3> HIDE DEF w, l
    <3> QED
      BY <1>3, <1>11 DEF Growth, Memory
  <2> QED
    BY <2>1, <2>2, <2>3 DEF Sound
<1>13. \A q \in Sharers \ {p} : Sound(q)'
  BY <1>3, OthersSound
<1> QED
  BY <1>7, <1>8, <1>12, <1>13 DEF MembersInv

\* The check of an initialization keeps it.
LEMMA InitializeKeeps ==
  ASSUME MembersInv, NEW p \in Sharers, Initialize(p) PROVE MembersInv'
<1>1. PICK t \in Starting : tx' = [tx EXCEPT ![p] = t]
  <2>1. PICK a \in (SUBSET Subs) \ {{}} :
        \E mo, ma \in SUBSET a :
          tx' = [tx EXCEPT ![p] =
            [pc |-> "sent", kind |-> "init", approved |-> a,
             moderators |-> mo, managers |-> ma]]
    BY Zenon DEF Initialize
  <2>2. PICK mo \in SUBSET a, ma \in SUBSET a :
          tx' = [tx EXCEPT ![p] =
            [pc |-> "sent", kind |-> "init", approved |-> a,
             moderators |-> mo, managers |-> ma]]
    BY <2>1, Zenon
  <2>3. [pc |-> "sent", kind |-> "init", approved |-> a, moderators |-> mo,
         managers |-> ma] \in Starting
    BY DEF Starting
  <2> QED
    BY <2>2, <2>3
<1>2. UNCHANGED <<accountVars, members, audit>>
  BY DEF Initialize
<1>3. tx'[p] \in Starting /\ \A q \in Sharers \ {p} : tx'[q] = tx[q]
  BY <1>1 DEF MembersInv, MembersTypeOK
<1>4. MembersTypeOK'
  BY <1>1, <1>2 DEF MembersInv, MembersTypeOK
<1>5. Rows' /\ Alone'
  BY <1>2, <1>3 DEF MembersInv, Rows, Alone, Holds, Starting, accountVars
<1>6. Sound(p)'
  BY <1>3 DEF Sound, Authority, Judgement, Growth, Memory, Starting, Holds
<1>7. \A q \in Sharers \ {p} : Sound(q)'
  BY <1>2, <1>3, OthersSound DEF accountVars
<1> QED
  BY <1>4, <1>5, <1>6, <1>7 DEF MembersInv

\* The rows an initialization writes keep it.
LEMMA PopulateKeeps ==
  ASSUME MembersInv, NEW p \in Sharers, Populate(p) PROVE MembersInv'
<1> DEFINE a == tx[p].approved
           w == [s \in Subs |-> IF s \in a
                   THEN Result(members[s], Listed(p, s)) ELSE members[s]]
           l == [s \in Subs |-> IF s \in a
                   THEN audit[s] \o Audited(members[s], Listed(p, s))
                   ELSE audit[s]]
<1>1. /\ tx'[p] = [pc |-> "commit", kind |-> "init", wrote |-> w, logs |-> l]
      /\ \A q \in Sharers \ {p} : tx'[q] = tx[q] /\ shared'[q] = shared[q]
      /\ rows' = rows /\ members' = members /\ audit' = audit
      /\ DOMAIN shared' = Sharers
      /\ tx' = [tx EXCEPT ![p] = tx'[p]]
  BY DEF Populate, MembersInv, MembersTypeOK, Rows
<1>2. \A s \in Subs :
        /\ members[s] \in Standing /\ audit[s] \in Seq(AuditRows)
        /\ Result(members[s], Listed(p, s)) \in Standing
        /\ Grows(members[s], Result(members[s], Listed(p, s)))
        /\ Audited(members[s], Listed(p, s)) \in Seq(AuditRows)
  <2> TAKE s \in Subs
  <2>1. members[s] \in Standing /\ audit[s] \in Seq(AuditRows)
    BY DEF MembersInv, MembersTypeOK
  <2>2. Listed(p, s).status = "active"
    BY DEF Listed
  <2> QED
    BY <2>1, <2>2, ResultGrows, AuditedRows
<1>3. /\ w \in [Subs -> Standing] /\ l \in [Subs -> Seq(AuditRows)]
      /\ \A s \in Subs : Grows(members[s], w[s])
  BY <1>2, ConcatProperties DEF Grows
<1> HIDE DEF w, l
<1>4. MembersTypeOK'
  <2>1. tx'[p] \in Started
    BY <1>1, <1>3 DEF Started
  <2> QED
    BY <1>1, <2>1 DEF MembersInv, MembersTypeOK
<1>5. Rows' /\ Alone'
  BY <1>1 DEF Populate, LockFree, MembersInv, Rows, Alone, Holds
<1>6. Sound(p)'
  BY <1>1, <1>3 DEF Sound, Authority, Judgement, Growth, Memory, Holds
<1>7. \A q \in Sharers \ {p} : Sound(q)'
  BY <1>1, OthersSound
<1> QED
  BY <1>4, <1>5, <1>6, <1>7 DEF MembersInv

(* A commit moves memberships forward; nobody else holds what it changes.     *)
LEMMA EndKeeps ==
  ASSUME MembersInv, NEW p \in Sharers, Commit(p) \/ Refuse(p)
  PROVE  MembersInv'
<1>1. /\ tx'[p] = NoTx /\ rows' = rows /\ DOMAIN shared' = Sharers
      /\ \A q \in Sharers \ {p} : tx'[q] = tx[q] /\ shared'[q] = shared[q]
      /\ tx' = [tx EXCEPT ![p] = NoTx]
  BY DEF Commit, Refuse, Done, MembersInv, MembersTypeOK, Rows
<1>2. Commit(p) => tx[p] \in Judged \cup Started
  BY DEF Commit, MembersInv, MembersTypeOK, NoTx, Sent, Judged, Starting,
     Started
<1>3. members' \in [Subs -> Standing] /\ audit' \in [Subs -> Seq(AuditRows)]
  BY <1>2 DEF Commit, Refuse, MembersInv, MembersTypeOK, Judged, Started
<1>4. MembersTypeOK'
  BY <1>1, <1>3 DEF MembersInv, MembersTypeOK
<1>5. Rows' /\ Alone'
  BY <1>1 DEF MembersInv, Rows, Alone, Holds, NoTx
<1>6. Sound(p)'
  BY <1>1 DEF Sound, Authority, Judgement, Growth, Memory, Holds, NoTx
<1>7. ASSUME NEW q \in Sharers \ {p} PROVE Sound(q)'
  <2>1. CASE Refuse(p)
    BY <1>1, <2>1, OthersSound DEF Refuse
  <2>2. CASE Commit(p)
    <3>1. ~Holds(q)
      BY <2>2 DEF Commit, MembersInv, Alone, Holds
    <3>2. \A s \in Subs : Grows(members[s], members'[s])
      BY <2>2 DEF Commit, MembersInv, Sound, Growth
    <3>3. Memory(q)'
      <4> SUFFICES ASSUME tx[q].pc \in {"sent", "apply"},
                          tx[q].kind = "command"
                   PROVE  Grows(tx[q].cmd.seen, members'[tx[q].cmd.target])
        BY <1>1 DEF Memory
      <4>1. tx[q].cmd \in Commands
        BY DEF MembersInv, MembersTypeOK, NoTx, Sent, Judged, Starting, Started
      <4>2. /\ tx[q].cmd.target \in Subs /\ tx[q].cmd.seen \in Standing
            /\ members[tx[q].cmd.target] \in Standing
            /\ members'[tx[q].cmd.target] \in Standing
        BY <1>3, <4>1 DEF Commands, MembersInv, MembersTypeOK
      <4>3. Grows(tx[q].cmd.seen, members[tx[q].cmd.target])
        BY DEF MembersInv, Sound, Memory
      <4> QED
        BY <3>2, <4>2, <4>3, GrowsOn
    <3> QED
      BY <1>1, <3>1, <3>3 DEF Sound, Authority, Judgement, Growth, Holds
  <2> QED
    BY <2>1, <2>2
<1> QED
  BY <1>4, <1>5, <1>6, <1>7 DEF MembersInv

\* Every step keeps it, those of logins and administrators included.
LEMMA MembersStep == MembersInv /\ [MembersNext]_memberVars => MembersInv'
<1> SUFFICES ASSUME MembersInv, [MembersNext]_memberVars PROVE MembersInv'
  OBVIOUS
<1>1. CASE UNCHANGED memberVars
  BY <1>1 DEF memberVars, accountVars, MembersInv, MembersTypeOK, Rows, Alone,
     Sound, Authority, Judgement, Growth, Memory, Holds, Approved
<1>2. CASE AccountsNext /\ UNCHANGED ownVars
  BY <1>2, AccountsKeep
<1>3. ASSUME NEW p \in Sharers,
             \/ Send(p) \/ Check(p) \/ Judge(p) \/ Initialize(p)
             \/ Populate(p) \/ Commit(p) \/ Refuse(p)
      PROVE  MembersInv'
  BY <1>3, SendKeeps, CheckKeeps, JudgeKeeps, InitializeKeeps, PopulateKeeps,
     EndKeeps
<1> QED
  BY <1>1, <1>2, <1>3 DEF MembersNext

(* The inductive invariant of the memberships: what a command holds FOR SHARE *)
(* stands, what it has judged is still so, and revisions only grow.           *)
THEOREM MembersInvariance == MembersSpec => []MembersInv
<1>1. AccountsInit /\ MembersInit => MembersInv
  BY MembersInitInv
<1>2. MembersInv /\ [MembersNext]_memberVars => MembersInv'
  BY MembersStep
<1> QED
  BY <1>1, <1>2, PTL DEF MembersSpec

(* Memberships, their audit and the commands under way keep their types.      *)
THEOREM MembersTypes == MembersSpec => []MembersTypeOK
<1>1. MembersInv => MembersTypeOK
  BY DEF MembersInv
<1> QED
  BY <1>1, MembersInvariance, PTL

(* A command takes effect only while its author, and whom it lets in, are     *)
(* approved.                                                                  *)
THEOREM AuthorTheorem == MembersSpec => AuthorStands
<1>1. MembersInv /\ [MembersNext]_memberVars =>
        [\A p \in Sharers :
           (Commits(p) /\ tx[p].kind = "command") =>
             LET c == tx[p].cmd
             IN /\ Approved(c.actor)
                /\ Active(members[c.actor]) /\ members[c.actor].manage
                /\ (Active(members'[c.target]) /\ ~Active(members[c.target]))
                     => Approved(c.target)]_memberVars
  BY DEF MembersInv, Sound, Authority, Judgement, Commits, Holds
<1> QED
  BY <1>1, MembersInvariance, PTL DEF MembersSpec, AuthorStands

(* A command changes the membership its sender saw.                           *)
THEOREM SeenTheorem == MembersSpec => SeenApplied
<1>1. MembersInv /\ [MembersNext]_memberVars =>
        [\A p \in Sharers :
           (Commits(p) /\ tx[p].kind = "command") =>
             members[tx[p].cmd.target] = tx[p].cmd.seen]_memberVars
  BY DEF MembersInv, Sound, Judgement, Commits
<1> QED
  BY <1>1, MembersInvariance, PTL DEF MembersSpec, SeenApplied
------------------------------------------------------------------------------
(* The audit tells the members.  The fold that replays it is defined by a     *)
(* function over the sets of numbers of rows: there is one, and it replays    *)
(* the last row over what the rows before it give.                            *)

Replayed(trail) == FoldLeft(Replay, NoMember, trail)
ReplayBody(trail, g, s) ==
  IF s = {} THEN NoMember ELSE LET n == Max(s) IN Replay(g[s \ {n}], trail[n])
Replaying(trail, g) ==
  g = [s \in SUBSET (DOMAIN trail) |-> ReplayBody(trail, g, s)]

\* The replay of a trail is the value at its rows of the function that folds it.
LEMMA ReplayedAs ==
  \A trail :
    Replayed(trail) = (CHOOSE g : Replaying(trail, g))[DOMAIN trail]
  BY DEF Replayed, FoldLeft, MapThenFoldSet, Replaying, ReplayBody

\* A set of row numbers that is not empty has a last one.
LEMMA LastRow ==
  ASSUME NEW n \in Nat, NEW s \in SUBSET (1 .. n), s # {}
  PROVE  Max(s) \in s /\ \A k \in s : Max(s) >= k
<1> DEFINE T == {n - k : k \in s}
<1>1. T \subseteq Nat /\ T # {}
  <2>1. \A k \in s : n - k \in Nat
    OBVIOUS
  <2>2. PICK k \in s : TRUE
    OBVIOUS
  <2>3. T \subseteq Nat
    BY <2>1, Zenon
  <2>4. n - k \in T
    BY <2>2, Zenon
  <2> QED BY <2>3, <2>4, Zenon
<1>2. PICK least \in T : \A k \in T : least <= k
  <2> HIDE DEF T
  <2> QED BY <1>1, LeastNat
<1>3. PICK last \in s : least = n - last
  BY <1>2
<1>4. \A k \in s : last >= k
  <2> TAKE k \in s
  <2>1. n - k \in T
    BY Zenon
  <2>2. k \in Nat /\ last \in Nat
    <3> HIDE DEF T
    <3> QED OBVIOUS
  <2>3. n - last <= n - k
    BY <1>2, <1>3, <2>1, Zenon
  <2> HIDE DEF T
  <2> QED BY <2>2, <2>3
<1> QED
  BY <1>4 DEF Max

\* A set of row numbers is finite.
LEMMA RowsFinite ==
  ASSUME NEW n \in Nat
  PROVE  \A s \in SUBSET (1 .. n) : IsFiniteSet(s) /\ Cardinality(s) \in Nat
<1>1. IsFiniteSet(1 .. n)
  BY FS_Interval
<1> QED
  BY <1>1, FS_Subset, FS_CardinalityType

\* Without its last row, a set of rows is smaller by one.
LEMMA RowsLess ==
  ASSUME NEW n \in Nat, NEW s \in SUBSET (1 .. n), s # {}
  PROVE  /\ Max(s) \in s /\ s \ {Max(s)} \in SUBSET (1 .. n)
         /\ Cardinality(s) \in Nat
         /\ Cardinality(s \ {Max(s)}) = Cardinality(s) - 1
<1>1. IsFiniteSet(s) /\ Max(s) \in s
  BY LastRow, RowsFinite
<1> QED
  BY <1>1, FS_RemoveElement, FS_CardinalityType

\* The function that folds a trail exists, however long the trail.
LEMMA ReplayingExists ==
  ASSUME NEW n \in Nat, NEW trail, DOMAIN trail = 1 .. n
  PROVE  Replaying(trail, CHOOSE g : Replaying(trail, g))
<1> DEFINE
      N == {k \in Nat : \E g : \A s \in SUBSET (1 .. n) :
                          Cardinality(s) <= k => g[s] = ReplayBody(trail, g, s)}
<1>f. \A s \in SUBSET (1 .. n) : IsFiniteSet(s) /\ Cardinality(s) \in Nat
  BY RowsFinite
<1>1. 0 \in N
  <2> DEFINE z == [t \in SUBSET (1 .. n) |-> NoMember]
  <2>1. ASSUME NEW s \in SUBSET (1 .. n), Cardinality(s) <= 0
        PROVE  z[s] = ReplayBody(trail, z, s)
    <3>1. s = {}
      BY <1>f, <2>1, FS_EmptySet
    <3> QED BY <3>1 DEF ReplayBody
  <2> HIDE DEF z
  <2> QED BY <2>1
<1>2. ASSUME NEW k \in N PROVE k + 1 \in N
  <2>1. PICK g : \A s \in SUBSET (1 .. n) :
                   Cardinality(s) <= k => g[s] = ReplayBody(trail, g, s)
    OBVIOUS
  <2> DEFINE h == [s \in SUBSET (1 .. n) |-> ReplayBody(trail, g, s)]
  <2>2. ASSUME NEW s \in SUBSET (1 .. n), Cardinality(s) <= k + 1
        PROVE  h[s] = ReplayBody(trail, h, s)
    <3>1. CASE s = {}
      BY <3>1 DEF ReplayBody
    <3>2. CASE s # {}
      <4> DEFINE r == s \ {Max(s)}
      <4>1. r \in SUBSET (1 .. n) /\ Cardinality(r) <= k
        BY <2>2, <3>2, RowsLess
      <4>2. h[r] = g[r]
        <5> HIDE DEF r
        <5> QED BY <2>1, <4>1
      <4>3. h[s] = Replay(g[r], trail[Max(s)])
        BY <3>2 DEF ReplayBody
      <4>4. ReplayBody(trail, h, s) = Replay(h[r], trail[Max(s)])
        <5> HIDE DEF h
        <5> QED BY <3>2 DEF ReplayBody
      <4> QED BY <4>2, <4>3, <4>4
    <3> QED BY <3>1, <3>2
  <2> HIDE DEF h
  <2>3. \E f : \A s \in SUBSET (1 .. n) :
           Cardinality(s) <= k + 1 => f[s] = ReplayBody(trail, f, s)
    BY <2>2
  <2> QED BY <2>3
<1>3. N = Nat
  <2> HIDE DEF N
  <2>1. N \subseteq Nat
    BY DEF N
  <2> QED BY <1>1, <1>2, <2>1, NatInduct
<1>4. Cardinality(1 .. n) \in N
  BY <1>f, <1>3
<1>5. PICK g : \A s \in SUBSET (1 .. n) :
                 Cardinality(s) <= Cardinality(1 .. n) =>
                   g[s] = ReplayBody(trail, g, s)
  BY <1>4
<1>6. \A s \in SUBSET (1 .. n) : g[s] = ReplayBody(trail, g, s)
  <2> TAKE s \in SUBSET (1 .. n)
  <2>1. Cardinality(s) <= Cardinality(1 .. n)
    <3>1. IsFiniteSet(1 .. n)
      BY FS_Interval
    <3> QED BY <3>1, FS_Subset
  <2> QED BY <1>5, <2>1
<1> DEFINE h == [s \in SUBSET (1 .. n) |-> g[s]]
<1>7. ASSUME NEW s \in SUBSET (1 .. n) PROVE h[s] = ReplayBody(trail, h, s)
  <2>1. CASE s = {}
    BY <1>6, <2>1 DEF ReplayBody
  <2>2. CASE s # {}
    <3> DEFINE r == s \ {Max(s)}
    <3>1. r \in SUBSET (1 .. n)
      BY <2>2, RowsLess
    <3>2. ReplayBody(trail, h, s) = Replay(h[r], trail[Max(s)])
      <4> HIDE DEF h
      <4> QED BY <2>2 DEF ReplayBody
    <3>3. ReplayBody(trail, g, s) = Replay(g[r], trail[Max(s)])
      BY <2>2 DEF ReplayBody
    <3>4. h[r] = g[r] /\ h[s] = g[s]
      BY <3>1
    <3> QED BY <1>6, <3>2, <3>3, <3>4
  <2> QED BY <2>1, <2>2
<1>8. Replaying(trail, h)
  <2>1. h = [s \in SUBSET (1 .. n) |-> h[s]]
    OBVIOUS
  <2> HIDE DEF h
  <2> QED BY <1>7, <2>1 DEF Replaying
<1> QED BY <1>8

(* A trail replays as its beginning in another.                               *)
LEMMA ReplayingSame ==
  ASSUME NEW n \in Nat, NEW trail, DOMAIN trail = 1 .. n,
         NEW m \in Nat, NEW more, DOMAIN more = 1 .. m, n <= m,
         \A i \in 1 .. n : more[i] = trail[i],
         NEW g, Replaying(trail, g), NEW h, Replaying(more, h)
  PROVE  g[1 .. n] = h[1 .. n]
<1> DEFINE N == {k \in Nat : \A s \in SUBSET (1 .. n) :
                               Cardinality(s) = k => g[s] = h[s]}
<1>f. \A s \in SUBSET (1 .. n) : IsFiniteSet(s) /\ Cardinality(s) \in Nat
  BY RowsFinite
<1>1. ASSUME NEW s \in SUBSET (1 .. n)
      PROVE  g[s] = ReplayBody(trail, g, s) /\ h[s] = ReplayBody(more, h, s)
  <2>1. g = [t \in SUBSET (1 .. n) |-> ReplayBody(trail, g, t)]
    BY DEF Replaying
  <2>2. h = [t \in SUBSET (1 .. m) |-> ReplayBody(more, h, t)]
    BY DEF Replaying
  <2>3. s \in SUBSET (1 .. m)
    OBVIOUS
  <2>4. g[s] = ReplayBody(trail, g, s)
    BY <2>1
  <2>5. h[s] = ReplayBody(more, h, s)
    BY <2>2, <2>3
  <2> QED BY <2>4, <2>5
<1>2. 0 \in N
  <2> SUFFICES ASSUME NEW s \in SUBSET (1 .. n), Cardinality(s) = 0
               PROVE  g[s] = h[s]
    OBVIOUS
  <2>1. s = {}
    BY <1>f, FS_EmptySet
  <2> QED BY <1>1, <2>1 DEF ReplayBody
<1>3. ASSUME NEW k \in N PROVE k + 1 \in N
  <2> SUFFICES ASSUME NEW s \in SUBSET (1 .. n), Cardinality(s) = k + 1
               PROVE  g[s] = h[s]
    OBVIOUS
  <2> DEFINE r == s \ {Max(s)}
  <2>1. s # {}
    BY <1>f, FS_EmptySet
  <2>k. k \in Nat
    OBVIOUS
  <2>2. r \in SUBSET (1 .. n) /\ Cardinality(r) = k /\ Max(s) \in 1 .. n
    <3>1. /\ Max(s) \in s /\ s \ {Max(s)} \in SUBSET (1 .. n)
          /\ Cardinality(s \ {Max(s)}) = Cardinality(s) - 1
      BY <2>1, RowsLess
    <3>2. Cardinality(s) - 1 = k
      BY <2>k
    <3>3. Cardinality(r) = k
      BY <3>1, <3>2
    <3>4. r \in SUBSET (1 .. n)
      OBVIOUS
    <3>5. Max(s) \in 1 .. n
      BY <3>1
    <3> QED BY <3>3, <3>4, <3>5
  <2>3. g[r] = h[r]
    <3> HIDE DEF r
    <3> QED BY <2>2
  <2>4. ReplayBody(trail, g, s) = Replay(g[r], trail[Max(s)])
    BY <2>1 DEF ReplayBody
  <2>5. ReplayBody(more, h, s) = Replay(h[r], more[Max(s)])
    BY <2>1 DEF ReplayBody
  <2> QED BY <1>1, <2>2, <2>3, <2>4, <2>5
<1>4. N = Nat
  <2> HIDE DEF N
  <2>1. N \subseteq Nat
    BY DEF N
  <2> QED BY <1>2, <1>3, <2>1, NatInduct
<1>5. Cardinality(1 .. n) \in N
  BY <1>f, <1>4
<1> QED BY <1>5

\* An empty trail replays to no membership.
LEMMA ReplayedNone == Replayed(<<>>) = NoMember
<1> DEFINE g == CHOOSE f : Replaying(<<>>, f)
<1>1. DOMAIN <<>> = 1 .. 0
  OBVIOUS
<1>2. Replaying(<<>>, g)
  BY <1>1, ReplayingExists
<1>3. Replayed(<<>>) = g[DOMAIN <<>>]
  BY ReplayedAs
<1> HIDE DEF g
<1>4. g = [s \in SUBSET (DOMAIN <<>>) |-> ReplayBody(<<>>, g, s)]
  BY <1>2 DEF Replaying
<1>5. g[{}] = ReplayBody(<<>>, g, {})
  BY <1>4
<1>6. DOMAIN <<>> = {}
  OBVIOUS
<1> QED
  BY <1>3, <1>5, <1>6 DEF ReplayBody

(* One row more is replayed over the membership the others give.              *)
LEMMA ReplayedOn ==
  ASSUME NEW trail \in Seq(AuditRows), NEW row \in AuditRows
  PROVE  Replayed(Append(trail, row)) = Replay(Replayed(trail), row)
<1>0. PICK n \in Nat : n = Len(trail)
  OBVIOUS
<1> DEFINE more == Append(trail, row)
           g == CHOOSE f : Replaying(trail, f)
           h == CHOOSE f : Replaying(more, f)
<1>1. /\ n + 1 \in Nat /\ n <= n + 1
      /\ DOMAIN trail = 1 .. n /\ DOMAIN more = 1 .. n + 1
      /\ more[n + 1] = row /\ \A i \in 1 .. n : more[i] = trail[i]
  BY <1>0
<1>2. Replayed(trail) = g[1 .. n] /\ Replayed(more) = h[1 .. n + 1]
  BY <1>1, ReplayedAs
<1> HIDE DEF more
<1>3. Replaying(trail, g)
  BY <1>1, ReplayingExists
<1>4. Replaying(more, h)
  BY <1>1, ReplayingExists
<1> HIDE DEF g, h
<1>5. g[1 .. n] = h[1 .. n]
  BY <1>1, <1>3, <1>4, ReplayingSame
<1>6. h[1 .. n + 1] = ReplayBody(more, h, 1 .. n + 1)
  <2>1. h = [s \in SUBSET (1 .. n + 1) |-> ReplayBody(more, h, s)]
    BY <1>1, <1>4 DEF Replaying
  <2> QED BY <2>1
<1>7. Max(1 .. n + 1) = n + 1
  <2>1. n + 1 \in 1 .. n + 1
    BY <1>1
  <2>2. Max(1 .. n + 1) \in 1 .. n + 1 /\ Max(1 .. n + 1) >= n + 1
    BY <1>1, <2>1, LastRow
  <2> QED BY <1>1, <2>2
<1>8. (1 .. n + 1) \ {n + 1} = 1 .. n /\ 1 .. n + 1 # {}
  BY <1>1
<1>9. ReplayBody(more, h, 1 .. n + 1) = Replay(h[1 .. n], row)
  BY <1>1, <1>7, <1>8 DEF ReplayBody
<1> QED
  BY <1>2, <1>5, <1>6, <1>9 DEF more

\* A row more is replayed on what the rows before it give.
LEMMA ReplayedRow ==
  ASSUME NEW trail \in Seq(AuditRows), NEW row \in AuditRows
  PROVE  Replayed(trail \o <<row>>) = Replay(Replayed(trail), row)
  BY ReplayedOn, AppendIsConcat

(* The rows of a capability, then those of a command.                         *)
LEMMA CapabilityReplays ==
  ASSUME NEW trail \in Seq(AuditRows), NEW m \in Records, Replayed(trail) = m,
         NEW capability \in {"moderate", "manage"}, NEW want
  PROVE  LET n == Set(m, capability, want)
         IN Replayed(trail \o CapabilityTrail(capability, m, n)) = n
<1> DEFINE n == Set(m, capability, want)
           b == want = "yes"
           moved == [m EXCEPT ![capability] = b, !.revision = @ + 1]
<1>0. n = m \/ (n = moved /\ m[capability] # b)
  BY DEF Set
<1>1. CASE n = m
  <2>1. CapabilityTrail(capability, m, n) = <<>>
    BY <1>1 DEF CapabilityTrail
  <2> QED
    BY <1>1, <2>1, ConcatEmptySeq
<1>2. CASE n = moved /\ m[capability] # b
  <2>0. b \in BOOLEAN /\ m[capability] \in BOOLEAN
    BY DEF Records
  <2> HIDE DEF b
  <2>1. moved[capability] = b
    <3>1. capability \in DOMAIN m /\ capability # "revision"
      BY DEF Records
    <3> QED BY <3>1
  <2> DEFINE row == <<IF b THEN "granted" ELSE "withdrawn", capability>>
  <2>2. CapabilityTrail(capability, m, n) = <<row>>
    BY <1>2, <2>0, <2>1 DEF CapabilityTrail
  <2>3. row \in AuditRows
    BY DEF AuditRows
  <2>4. /\ row[1] # "added" /\ row[1] # "revoked" /\ row[2] = capability
        /\ (row[1] = "granted") = b
    BY <2>0
  <2> HIDE DEF row
  <2>5. Replay(m, row) = moved
    BY <2>4 DEF Replay
  <2>6. Replayed(trail \o <<row>>) = Replay(m, row)
    BY <2>3, ReplayedRow
  <2> QED
    BY <1>2, <2>2, <2>5, <2>6
<1> QED
  BY <1>0, <1>1, <1>2

\* The row of an entry replays to the membership entered.
LEMMA EnteredReplays ==
  ASSUME NEW trail \in Seq(AuditRows), NEW m \in Standing, Replayed(trail) = m,
         NEW c
  PROVE  /\ Replayed(trail \o Trail(m, Entered(m, c))) = Entered(m, c)
         /\ Entered(m, c) \in Records
<1>1. CASE Entered(m, c) = m /\ m # NoMember
  <2>1. Trail(m, m) = <<>> \o <<>>
    BY DEF Trail
  <2>2. trail \o Trail(m, m) = trail
    BY <2>1, ConcatEmptySeq
  <2> QED
    BY <1>1, <2>2 DEF Standing
<1>2. CASE ~Active(m) /\ Entered(m, c) = Member("active", Revision(m) + 1, FALSE, FALSE)
  <2> DEFINE n == Entered(m, c)
             row == <<"added", "member">>
  <2>1. Revision(m) \in Nat
    BY DEF Revision, Standing, Records
  <2>2. n \in Records /\ Active(n)
    <3>1. n = [status |-> "active", revision |-> Revision(m) + 1,
               moderate |-> FALSE, manage |-> FALSE]
      BY <1>2 DEF Member
    <3>2. Revision(m) + 1 \in Nat \ {0}
      BY <2>1
    <3> HIDE DEF n
    <3>3. n \in Records /\ n.status = "active"
      BY <3>1, <3>2 DEF Records
    <3> QED
      BY <3>3, MembersAssumption DEF Active
  <2>3. Trail(m, n) = <<row>> \o <<>>
    BY <1>2, <2>2 DEF Trail
  <2>4. row \in AuditRows
    BY DEF AuditRows
  <2>5. Trail(m, n) = <<row>>
    BY <2>3, <2>4, ConcatEmptySeq
  <2>6. Replay(m, row) = n
    BY <1>2 DEF Replay
  <2>7. Replayed(trail \o <<row>>) = Replay(m, row)
    BY <2>4, ReplayedRow
  <2> QED
    BY <2>2, <2>5, <2>6, <2>7
<1>3. \/ Entered(m, c) = m /\ m # NoMember
      \/ ~Active(m) /\ Entered(m, c) = Member("active", Revision(m) + 1, FALSE, FALSE)
  BY DEF Entered, Added, Active
<1> QED
  BY <1>1, <1>2, <1>3

\* Rows appended in turn are rows appended together.
LEMMA RowsAppended ==
  ASSUME NEW t \in Seq(AuditRows), NEW a \in Seq(AuditRows), NEW b \in Seq(AuditRows)
  PROVE  t \o (a \o b) = (t \o a) \o b
BY ConcatAssociative, SMT

\* The rows a command audits replay to its result.
LEMMA AuditedReplays ==
  ASSUME NEW trail \in Seq(AuditRows), NEW m \in Standing, Replayed(trail) = m,
         NEW c, c.status = "revoked" => Active(m)
  PROVE  Replayed(trail \o Audited(m, c)) = Result(m, c)
<1>1. CASE c.status = "revoked"
  <2> DEFINE row == <<"revoked", "member">>
  <2>1. m \in Records /\ m # NoMember
    BY <1>1 DEF Active, Standing
  <2>2. Revoked(m).status = "revoked"
    BY <2>1 DEF Revoked, Records
  <2>3. Trail(m, Revoked(m)) = <<>> \o <<row>>
    BY <1>1, <2>2 DEF Trail, Active
  <2>4. row \in AuditRows
    BY DEF AuditRows
  <2>5. Audited(m, c) = <<row>>
    BY <1>1, <2>3, <2>4, ConcatEmptySeq DEF Audited
  <2>6. Replay(m, row) = Revoked(m)
    BY DEF Replay
  <2> QED
    BY <1>1, <2>4, <2>5, <2>6, ReplayedRow DEF Result
<1>2. CASE c.status # "revoked"
  <2> DEFINE e == Entered(m, c)
             d == Moderated(m, c)
             first == Trail(m, e)
             second == CapabilityTrail("moderate", e, d)
             third == CapabilityTrail("manage", d, Result(m, c))
  <2>1. first \in Seq(AuditRows) /\ second \in Seq(AuditRows) /\ third \in Seq(AuditRows)
    BY TrailRows
  <2>2. e \in Records /\ Replayed(trail \o first) = e /\ trail \o first \in Seq(AuditRows)
    BY <2>1, EnteredReplays, ConcatProperties
  <2>3. d = Set(e, "moderate", c.moderate) /\ Result(m, c) = Set(d, "manage", c.manage)
    BY <1>2 DEF Moderated, Result
  <2>4. d \in Records
    BY <2>2, <2>3, SetGrows
  <2>5. Audited(m, c) = (first \o second) \o third
    BY <1>2 DEF Audited
  <2> HIDE DEF e, d, first, second, third
  <2>6. Replayed((trail \o first) \o second) = d
    BY <2>2, <2>3, CapabilityReplays DEF second
  <2>7. (trail \o first) \o second \in Seq(AuditRows)
    BY <2>1, <2>2, ConcatProperties
  <2>8. Replayed(((trail \o first) \o second) \o third) = Result(m, c)
    BY <2>3, <2>4, <2>6, <2>7, CapabilityReplays DEF third
  <2>9. trail \o ((first \o second) \o third) = ((trail \o first) \o second) \o third
    <3> DEFINE two == first \o second
    <3>1. two \in Seq(AuditRows)
      BY <2>1, ConcatProperties
    <3>2. trail \o two = (trail \o first) \o second
      BY <2>1, RowsAppended
    <3> HIDE DEF two
    <3>3. trail \o (two \o third) = (trail \o two) \o third
      BY <2>1, <3>1, RowsAppended
    <3> QED BY <3>2, <3>3, Zenon DEF two
  <2> QED
    BY <2>5, <2>8, <2>9
<1> QED
  BY <1>1, <1>2

(* What a transaction is about to commit replays too.                         *)
Replays ==
  /\ AuditReplays
  /\ \A p \in Sharers : tx[p].pc = "commit" =>
       \A s \in Subs : tx[p].wrote[s] = Replayed(tx[p].logs[s])

\* Nobody is a member and nothing is audited at first.
LEMMA ReplaysInit == MembersInit => Replays
<1> SUFFICES ASSUME MembersInit PROVE Replays
  OBVIOUS
<1>1. \A s \in Subs : members[s] = Replayed(audit[s])
  BY ReplayedNone DEF MembersInit
<1>2. \A p \in Sharers : tx[p].pc = "idle"
  BY DEF MembersInit, NoTx
<1> QED
  BY <1>1, <1>2 DEF Replays, AuditReplays, Replayed

(* A step of one transaction that commits nothing.                            *)
LEMMA OthersReplay ==
  ASSUME Replays, NEW p \in Sharers, members' = members, audit' = audit,
         \A q \in Sharers \ {p} : tx'[q] = tx[q],
         tx'[p].pc = "commit" =>
           \A s \in Subs : tx'[p].wrote[s] = Replayed(tx'[p].logs[s])
  PROVE  Replays'
<1>1. AuditReplays'
  BY DEF Replays, AuditReplays
<1>2. ASSUME NEW q \in Sharers, tx'[q].pc = "commit", NEW s \in Subs
      PROVE  tx'[q].wrote[s] = Replayed(tx'[q].logs[s])
  <2>1. CASE q = p
    BY <1>2, <2>1
  <2>2. CASE q # p
    BY <1>2, <2>2 DEF Replays
  <2> QED BY <2>1, <2>2
<1> QED
  BY <1>1, <1>2 DEF Replays, Replayed

\* What a command is about to commit replays, once judged.
LEMMA JudgeReplays ==
  ASSUME MembersInv, Replays, NEW p \in Sharers, Judge(p) PROVE Replays'
<1> DEFINE c == tx[p].cmd
           m == members[c.target]
           w == [members EXCEPT ![c.target] = Result(m, c)]
           l == [audit EXCEPT ![c.target] = @ \o Audited(m, c)]
<1>1. c.target \in Subs
  BY DEF Judge, MembersInv, MembersTypeOK, NoTx, Sent, Judged, Starting,
     Started, Commands
<1>2. /\ tx'[p] = [pc |-> "commit", kind |-> "command", cmd |-> c,
                   wrote |-> w, logs |-> l]
      /\ \A q \in Sharers \ {p} : tx'[q] = tx[q]
      /\ members' = members /\ audit' = audit
  BY DEF Judge, MembersInv, MembersTypeOK
<1>3. c.status = "revoked" => Active(m)
  BY DEF Judge, Acceptable
<1>4. \A s \in Subs : /\ members[s] \in Standing /\ audit[s] \in Seq(AuditRows)
                      /\ members[s] = Replayed(audit[s])
  BY DEF MembersInv, MembersTypeOK, Replays, AuditReplays, Replayed
<1>5. Replayed(audit[c.target] \o Audited(m, c)) = Result(m, c)
  BY <1>1, <1>3, <1>4, AuditedReplays
<1>6. \A s \in Subs : w[s] = Replayed(l[s])
  <2> TAKE s \in Subs
  <2>1. CASE s = c.target
    BY <1>5, <2>1 DEF MembersInv, MembersTypeOK
  <2>2. CASE s # c.target
    BY <1>4, <2>2 DEF MembersInv, MembersTypeOK
  <2> QED BY <2>1, <2>2
<1> HIDE DEF c, m, w, l
<1>7. tx'[p].wrote = w /\ tx'[p].logs = l
  BY <1>2
<1> QED
  BY <1>2, <1>6, <1>7, OthersReplay

\* So does what an initialization is about to commit.
LEMMA PopulateReplays ==
  ASSUME MembersInv, Replays, NEW p \in Sharers, Populate(p) PROVE Replays'
<1> DEFINE a == tx[p].approved
           w == [s \in Subs |-> IF s \in a
                   THEN Result(members[s], Listed(p, s)) ELSE members[s]]
           l == [s \in Subs |-> IF s \in a
                   THEN audit[s] \o Audited(members[s], Listed(p, s))
                   ELSE audit[s]]
<1>1. /\ tx'[p] = [pc |-> "commit", kind |-> "init", wrote |-> w, logs |-> l]
      /\ \A q \in Sharers \ {p} : tx'[q] = tx[q]
      /\ members' = members /\ audit' = audit
  BY DEF Populate, MembersInv, MembersTypeOK
<1>2. ASSUME NEW s \in Subs PROVE w[s] = Replayed(l[s])
  <2>1. /\ members[s] \in Standing /\ audit[s] \in Seq(AuditRows)
        /\ members[s] = Replayed(audit[s])
    BY DEF MembersInv, MembersTypeOK, Replays, AuditReplays, Replayed
  <2>2. Listed(p, s).status = "active"
    BY DEF Listed
  <2>3. Replayed(audit[s] \o Audited(members[s], Listed(p, s)))
          = Result(members[s], Listed(p, s))
    BY <2>1, <2>2, AuditedReplays
  <2> QED
    BY <2>1, <2>3
<1> HIDE DEF a, w, l
<1>3. tx'[p].wrote = w /\ tx'[p].logs = l
  BY <1>1
<1> QED
  BY <1>1, <1>2, <1>3, OthersReplay

\* A COMMIT writes a membership and its rows together.
LEMMA CommitReplays ==
  ASSUME MembersInv, Replays, NEW p \in Sharers, Commit(p) PROVE Replays'
<1>1. /\ tx'[p].pc = "idle" /\ tx[p].pc = "commit"
      /\ \A q \in Sharers \ {p} : tx'[q] = tx[q]
      /\ members' = tx[p].wrote /\ audit' = tx[p].logs
  BY DEF Commit, Done, NoTx, MembersInv, MembersTypeOK
<1>2. AuditReplays'
  BY <1>1 DEF Replays, AuditReplays, Replayed
<1>3. \A q \in Sharers : tx'[q].pc # "commit"
  BY <1>1 DEF MembersInv, Alone, Holds
<1> QED
  BY <1>2, <1>3 DEF Replays

\* Every step keeps audits and memberships in agreement.
LEMMA ReplaysStep ==
  ASSUME MembersInv, Replays, [MembersNext]_memberVars PROVE Replays'
<1>1. ASSUME UNCHANGED ownVars PROVE Replays'
  BY <1>1 DEF ownVars, Replays, AuditReplays, Replayed
<1>2. ASSUME NEW p \in Sharers, Send(p) \/ Check(p) \/ Initialize(p) \/ Refuse(p)
      PROVE  Replays'
  <2>1. members' = members /\ audit' = audit
    BY <1>2 DEF Send, Check, Initialize, Refuse
  <2>2. \A q \in Sharers \ {p} : tx'[q] = tx[q]
    BY <1>2 DEF Send, Check, Initialize, Refuse, Done, MembersInv, MembersTypeOK
  <2>3. tx'[p].pc # "commit"
    <3>1. CASE Send(p)
      BY <3>1 DEF Send, MembersInv, MembersTypeOK
    <3>2. CASE Check(p)
      <4>1. tx[p] \in Sent
        BY <3>2 DEF Check, MembersInv, MembersTypeOK, NoTx, Sent, Judged,
           Starting, Started
      <4>2. tx'[p] = [tx[p] EXCEPT !.pc = "apply"]
        BY <3>2 DEF Check, MembersInv, MembersTypeOK
      <4> QED BY <4>1, <4>2 DEF Sent
    <3>3. CASE Initialize(p)
      BY <3>3 DEF Initialize, MembersInv, MembersTypeOK
    <3>4. CASE Refuse(p)
      BY <3>4 DEF Refuse, Done, NoTx, MembersInv, MembersTypeOK
    <3> QED BY <1>2, <3>1, <3>2, <3>3, <3>4
  <2> QED
    BY <2>1, <2>2, <2>3, OthersReplay
<1>3. ASSUME NEW p \in Sharers, Judge(p) \/ Populate(p) \/ Commit(p)
      PROVE  Replays'
  BY <1>3, JudgeReplays, PopulateReplays, CommitReplays
<1>4. CASE UNCHANGED memberVars
  BY <1>1, <1>4 DEF memberVars, ownVars
<1> QED
  BY <1>1, <1>2, <1>3, <1>4 DEF MembersNext

(* services/workspaces/store.ts writes one audit row for each change and none *)
(* for what changes nothing: replayed in order, the rows of an account give   *)
(* its membership, its capabilities and its revision back.                    *)
THEOREM ReplayTheorem == MembersSpec => []AuditReplays
<1>1. MembersSpec => MembersInit
  BY DEF MembersSpec
<1>2. MembersInit => Replays
  BY ReplaysInit
<1>3. MembersInv /\ Replays /\ [MembersNext]_memberVars => Replays'
  BY ReplaysStep
<1>4. Replays => AuditReplays
  BY DEF Replays
<1>5. MembersSpec => [][MembersNext]_memberVars
  BY DEF MembersSpec
<1> QED
  BY <1>1, <1>2, <1>3, <1>4, <1>5, MembersInvariance, PTL
------------------------------------------------------------------------------
(* Accounts and Admission, for any number of accounts, requests, emissions,   *)
(* ingestions and signing keys.                                               *)
(*                                                                            *)
(* What is staged bears the stamp of an envelope applied, and the last stamp  *)
(* applied is kept by key (Covered).  Only one ingestion is past the lock     *)
(* (OneIngest), so its envelope is still newer than everything applied when   *)
(* it commits (FreshHeld).                                                    *)

OneIngest ==
  \A x, y \in Ingests :
    (ingest[x] # NoEnvelope /\ ingest[y] # NoEnvelope) => x = y
FreshHeld == \A x \in Ingests : ingest[x] # NoEnvelope => Fresh(ingest[x])
Covered == \A e \in Emails :
             staged[e].at = 0 \/ \E k \in Kids : staged[e].at <= synced[k]

AdmissionInv == /\ AdmissionTypeOK
                /\ OneIngest /\ FreshHeld /\ Covered

------------------------------------------------------------------------------
(* The accounts: one lemma per request.                                       *)
LEMMA RowKept ==
  ASSUME NEW row \in AccountRows, NEW status \in Statuses
  PROVE  /\ [row EXCEPT !.status = status] \in AccountRows
         /\ [row EXCEPT !.status = status].source = row.source
BY DEF AccountRows

\* The rows the routes insert are rows of the table.
LEMMA RowMade ==
  ASSUME NEW email \in Emails, NEW status \in Statuses,
         NEW by \in {"none", "admin", "invitation", "prod"},
         NEW source \in {"local", "prod_sync"}
  PROVE  Row(email, status, by, source) \in AccountRows
BY DEF AccountRows, Row

(* A visit that moves on, and the rest of the accounts.                       *)
Keeps == /\ \A s \in Subs : rows[s] # NoRow => rows'[s] # NoRow
         /\ \A i \in Invitations : invitations[i] # NoRow
                                     => invitations'[i] # NoRow

VisitOK(v) ==
  /\ visit[v] \in Visiting \cup {NoVisit}
  /\ visit[v].pc \in {"adopt", "readmit", "again", "approve", "consume"}
       => rows[visit[v].sub] # NoRow
  /\ visit[v].pc \in {"accept", "approve", "consume"}
       => /\ visit[v].token \in Invitations
          /\ invitations[visit[v].token] # NoRow
  /\ visit[v].pc \in {"links", "locals"}
       => /\ visit[v].kind # "none"
          /\ visit[v].kind = "adopt" => rows[visit[v].sub] # NoRow

ChangeOK(a) ==
  /\ change[a] \in Deciding \cup Revoking \cup {NoChange}
  /\ change[a].pc \in {"update", "log"} => rows[change[a].sub] # NoRow
  /\ change[a].pc = "revoke" => invitations[change[a].token] # NoRow

TablesOK ==
  /\ rows \in [Subs -> AccountRows \cup {NoRow}]
  /\ invitations \in [Invitations -> InvitationRows \cup {NoRow}]
  /\ staged \in [Emails -> [status : Statuses \cup {"none"}, at : Nat]]
  /\ shared \in [Sharers -> SUBSET Subs]
  /\ events \subseteq [sub : Subs, from : Statuses, to : Decisions]

\* The type invariant, split in tables and requests.
LEMMA Parts ==
  AccountsTypeOK <=> /\ TablesOK
                     /\ visit \in [Visitors -> Visiting \cup {NoVisit}]
                     /\ change \in [Admins -> Deciding \cup Revoking
                                               \cup {NoChange}]
                     /\ \A v \in Visitors : VisitOK(v)
                     /\ \A a \in Admins : ChangeOK(a)
BY DEF AccountsTypeOK, TablesOK, VisitOK, ChangeOK

\* The requests that do not move stay well typed while rows are only kept or changed.
LEMMA OthersKept ==
  ASSUME AccountsTypeOK, Keeps
  PROVE  /\ \A v \in Visitors : visit'[v] = visit[v] => VisitOK(v)'
         /\ \A a \in Admins : change'[a] = change[a] => ChangeOK(a)'
<1>1. ASSUME NEW v \in Visitors, visit'[v] = visit[v] PROVE VisitOK(v)'
  <2>1. VisitOK(v)
    BY Parts
  <2>2. visit[v] \in Visiting => /\ visit[v].sub \in Subs
    BY DEF Visiting
  <2> QED
    BY <1>1, <2>1, <2>2 DEF VisitOK, Keeps, NoVisit
<1>2. ASSUME NEW a \in Admins, change'[a] = change[a] PROVE ChangeOK(a)'
  <2>1. ChangeOK(a)
    BY Parts
  <2>2. /\ change[a] \in Deciding => change[a].sub \in Subs
        /\ change[a] \in Revoking => change[a].token \in Invitations
    BY DEF Deciding, Revoking
  <2> QED
    BY <1>2, <2>1, <2>2 DEF ChangeOK, Keeps, NoChange, Deciding, Revoking
<1> QED
  BY <1>1, <1>2

(* A request that goes on, ends, or begins.                                   *)
LEMMA VisitorSteps ==
  ASSUME AccountsTypeOK, Keeps, TablesOK', change' = change,
         NEW v \in Visitors, NEW u \in Visiting \cup {NoVisit},
         visit' = [visit EXCEPT ![v] = u],
         u.pc \in {"adopt", "readmit", "again", "approve", "consume"}
           => rows'[u.sub] # NoRow,
         u.pc \in {"accept", "approve", "consume"}
           => u.token \in Invitations /\ invitations'[u.token] # NoRow,
         u.pc \in {"links", "locals"}
           => /\ u.kind # "none"
              /\ u.kind = "adopt" => rows'[u.sub] # NoRow
  PROVE  AccountsTypeOK'
<1>1. visit'[v] = u /\ \A w \in Visitors \ {v} : visit'[w] = visit[w]
      /\ visit' \in [Visitors -> Visiting \cup {NoVisit}]
  BY DEF AccountsTypeOK
<1>2. \A w \in Visitors \ {v} : VisitOK(w)'
  BY <1>1, OthersKept
<1>3. VisitOK(v)'
  BY <1>1 DEF VisitOK
<1>4. change' \in [Admins -> Deciding \cup Revoking \cup {NoChange}]
      /\ \A a \in Admins : ChangeOK(a)'
  BY OthersKept DEF AccountsTypeOK
<1>5. \A w \in Visitors : VisitOK(w)'
  BY <1>2, <1>3
<1> QED
  BY <1>1, <1>4, <1>5 DEF AccountsTypeOK, TablesOK, VisitOK, ChangeOK

Pcs == {"staged", "bysub", "links", "locals", "create", "adopt", "readmit",
        "lookup", "first", "again", "accept", "approve", "consume", "enroll"}

\* A login that goes on to a statement whose rows exist keeps the types.
LEMMA GoesOn ==
  ASSUME AccountsTypeOK, Keeps, TablesOK', change' = change,
         NEW v \in Visitors, visit[v] # NoVisit, NEW pc \in Pcs, Goto(v, pc),
         pc \in {"adopt", "readmit", "again", "approve", "consume"}
           => rows'[visit[v].sub] # NoRow,
         pc \in {"accept", "approve", "consume"}
           => /\ visit[v].token \in Invitations
              /\ invitations'[visit[v].token] # NoRow,
         pc \in {"links", "locals"}
           => /\ visit[v].kind # "none"
              /\ visit[v].kind = "adopt" => rows'[visit[v].sub] # NoRow
  PROVE  AccountsTypeOK'
<1> DEFINE u == [visit[v] EXCEPT !.pc = pc]
<1>1. visit[v] \in Visiting
  BY DEF AccountsTypeOK
<1>2. /\ u \in Visiting /\ u.pc = pc /\ u.sub = visit[v].sub
      /\ u.token = visit[v].token /\ u.kind = visit[v].kind
  BY <1>1 DEF Visiting, Pcs
<1>3. visit' = [visit EXCEPT ![v] = u]
  BY DEF Goto
<1> HIDE DEF u
<1> QED
  BY <1>2, <1>3, VisitorSteps

\* A login that ends keeps them.
LEMMA Leaves ==
  ASSUME AccountsTypeOK, Keeps, TablesOK', change' = change,
         NEW v \in Visitors, Leave(v)
  PROVE  AccountsTypeOK'
<1>1. NoVisit.pc = "idle"
  BY DEF NoVisit
<1> QED
  BY <1>1, VisitorSteps DEF Leave

\* So does one that goes on to the links its decision names.
LEMMA LinkerGoes ==
  ASSUME AccountsTypeOK, Keeps, TablesOK', change' = change,
         NEW v \in Visitors, visit[v] # NoVisit, Linker(v)
  PROVE  AccountsTypeOK'
<1>1. CASE Goto(v, "lookup")
  BY <1>1, GoesOn DEF Pcs
<1>2. CASE Leave(v)
  BY <1>2, Leaves
<1> QED
  BY <1>1, <1>2 DEF Linker

(* A step of an administrator.                                                *)
LEMMA AdminSteps ==
  ASSUME AccountsTypeOK, Keeps, TablesOK', visit' = visit,
         NEW a \in Admins, NEW u \in Deciding \cup Revoking \cup {NoChange},
         change' = [change EXCEPT ![a] = u],
         u.pc \in {"update", "log"} => rows'[u.sub] # NoRow,
         u.pc = "revoke" => invitations'[u.token] # NoRow
  PROVE  AccountsTypeOK'
<1>1. change'[a] = u /\ \A b \in Admins \ {a} : change'[b] = change[b]
      /\ change' \in [Admins -> Deciding \cup Revoking \cup {NoChange}]
  BY DEF AccountsTypeOK
<1>2. \A b \in Admins : ChangeOK(b)'
  BY <1>1, OthersKept DEF ChangeOK
<1>3. \A v \in Visitors : VisitOK(v)'
  BY OthersKept
<1> QED
  BY <1>1, <1>2, <1>3 DEF AccountsTypeOK, TablesOK, VisitOK, ChangeOK

(* What changes the tables only.                                              *)
LEMMA TablesStep ==
  ASSUME AccountsTypeOK, Keeps, TablesOK', visit' = visit, change' = change
  PROVE  AccountsTypeOK'
<1>1. /\ \A v \in Visitors : VisitOK(v)'
      /\ \A a \in Admins : ChangeOK(a)'
  BY OthersKept
<1> QED
  BY <1>1 DEF AccountsTypeOK, TablesOK, VisitOK, ChangeOK

\* A step that writes no table keeps them.
LEMMA SameTables ==
  ASSUME AccountsTypeOK,
         UNCHANGED <<rows, invitations, staged, shared, events>>
  PROVE  Keeps /\ TablesOK'
BY DEF AccountsTypeOK, TablesOK, Keeps

(* An account written, and the rest of the tables as they were.               *)
LEMMA RowWritten ==
  ASSUME AccountsTypeOK, UNCHANGED <<invitations, staged, shared, events>>,
         NEW s \in Subs, NEW row \in AccountRows,
         rows' = [rows EXCEPT ![s] = row]
  PROVE  Keeps /\ TablesOK'
<1>1. row # NoRow
  BY AccountsAssumption
<1> QED
  BY <1>1 DEF AccountsTypeOK, TablesOK, Keeps

\* So does one that writes a row of an invitation.
LEMMA InvitationWritten ==
  ASSUME AccountsTypeOK, UNCHANGED <<rows, staged, shared, events>>,
         NEW i \in Invitations, NEW row \in InvitationRows,
         invitations' = [invitations EXCEPT ![i] = row]
  PROVE  Keeps /\ TablesOK'
<1>1. row # NoRow
  BY AccountsAssumption
<1> QED
  BY <1>1 DEF AccountsTypeOK, TablesOK, Keeps

(* What a visit's type gives.                                                 *)
LEMMA Visited ==
  ASSUME AccountsTypeOK, NEW v \in Visitors, ~At(v, "idle")
  PROVE  /\ visit[v] \in Visiting /\ visit[v] # NoVisit
         /\ visit[v].sub \in Subs /\ visit[v].email \in Emails
         /\ visit[v].kind \in {"none", "create", "adopt"}
         /\ visit[v].token \in Invitations \cup {NoRow}
         /\ VisitOK(v)
<1>1. visit[v] \in Visiting
  BY DEF AccountsTypeOK, At, NoVisit
<1> QED
  BY <1>1, Parts DEF Visiting, At, NoVisit

\* The statements of a login that link an account keep the types.
LEMMA LinkKeeps ==
  ASSUME AccountsTypeOK, NEW v \in Visitors, LinkStep(v)
  PROVE  AccountsTypeOK'
<1>0. ~At(v, "idle")
  BY DEF LinkStep, ReadStaged, ReadSub, FindLink, FindLocal, CreateLink,
     AdoptLink, Readmit, At
<1>1. /\ visit[v] \in Visiting /\ visit[v] # NoVisit
      /\ visit[v].sub \in Subs /\ visit[v].email \in Emails
      /\ visit[v].kind \in {"none", "create", "adopt"}
      /\ VisitOK(v)
  BY <1>0, Visited
<1>2. CASE ReadStaged(v)
  BY <1>1, <1>2, SameTables, GoesOn, LinkerGoes DEF ReadStaged, Pcs
<1>3. CASE FindLink(v)
  <2>1. Keeps /\ TablesOK' /\ change' = change
    BY <1>3, SameTables DEF FindLink
  <2>2. CASE Goto(v, "locals")
    BY <1>1, <1>3, <2>1, <2>2, GoesOn DEF Pcs, VisitOK, FindLink, At
  <2> QED
    BY <1>1, <1>3, <2>1, <2>2, LinkerGoes DEF FindLink
<1>4. CASE FindLocal(v)
  <2>1. Keeps /\ TablesOK' /\ change' = change /\ rows' = rows
    BY <1>4, SameTables DEF FindLocal
  <2>2. visit[v].kind \in {"create", "adopt"}
        /\ (visit[v].kind = "adopt" => rows[visit[v].sub] # NoRow)
    BY <1>1, <1>4 DEF FindLocal, At, VisitOK
  <2>3. CASE Goto(v, visit[v].kind)
    BY <1>1, <2>1, <2>2, <2>3, GoesOn DEF Pcs
  <2> QED
    BY <1>1, <1>4, <2>1, <2>3, LinkerGoes DEF FindLocal
<1>5. CASE CreateLink(v)
  <2>1. Row(visit[v].email, "approved", "prod", "prod_sync") \in AccountRows
    BY <1>1, RowMade DEF Statuses
  <2>2. Keeps /\ TablesOK'
    BY <1>1, <1>5, <2>1, RowWritten, SameTables DEF CreateLink
  <2> QED
    BY <1>1, <1>5, <2>2, LinkerGoes DEF CreateLink
<1>6. CASE AdoptLink(v)
  <2>1. Row(visit[v].email, "approved", "prod", "prod_sync") \in AccountRows
    BY <1>1, RowMade DEF Statuses
  <2>2. Keeps /\ TablesOK'
    BY <1>1, <1>6, <2>1, RowWritten, SameTables DEF AdoptLink
  <2> QED
    BY <1>1, <1>6, <2>2, LinkerGoes DEF AdoptLink
<1>7. CASE Readmit(v)
  <2>1. rows[visit[v].sub] \in AccountRows
    BY <1>1, <1>7 DEF Readmit, At, VisitOK, AccountsTypeOK
  <2>2. [rows[visit[v].sub] EXCEPT !.status = "approved"] \in AccountRows
    BY <2>1, RowKept DEF Statuses
  <2>3. Keeps /\ TablesOK'
    BY <1>1, <1>7, <2>2, RowWritten DEF Readmit
  <2> QED
    BY <1>1, <1>7, <2>3, LinkerGoes DEF Readmit
<1>8. CASE ReadSub(v)
  <2>1. Keeps /\ TablesOK' /\ change' = change /\ rows' = rows
    BY <1>8, SameTables DEF ReadSub
  <2>2. CASE Linker(v)
    BY <1>1, <2>1, <2>2, LinkerGoes
  <2>3. CASE Goto(v, "readmit") /\ rows[visit[v].sub] # NoRow
    BY <1>1, <2>1, <2>3, GoesOn DEF Pcs
  <2>4. ASSUME NEW kind \in {"create", "adopt"},
               kind = "adopt" => rows[visit[v].sub] # NoRow,
               visit' = [visit EXCEPT ![v].pc = "links", ![v].kind = kind]
        PROVE  AccountsTypeOK'
    <3> DEFINE u == [visit[v] EXCEPT !.pc = "links", !.kind = kind]
    <3>1. u \in Visiting /\ u.pc = "links" /\ u.kind = kind
          /\ u.sub = visit[v].sub
      BY <1>1 DEF Visiting
    <3>2. visit' = [visit EXCEPT ![v] = u]
      BY <2>4 DEF AccountsTypeOK
    <3> HIDE DEF u
    <3> QED
      BY <2>1, <2>4, <3>1, <3>2, VisitorSteps
  <2> QED
    BY <1>8, <2>2, <2>3, <2>4 DEF ReadSub
<1> QED
  BY <1>2, <1>3, <1>4, <1>5, <1>6, <1>7, <1>8 DEF LinkStep

\* Those that enroll it, consume an invitation or answer keep them.
LEMMA EnrollKeeps ==
  ASSUME AccountsTypeOK, NEW v \in Visitors, EnrollStep(v)
  PROVE  AccountsTypeOK'
<1>0. ~At(v, "idle")
  BY DEF EnrollStep, Lookup, Pick, Consume, Enroll, Approve, At
<1>1. /\ visit[v] \in Visiting /\ visit[v] # NoVisit
      /\ visit[v].sub \in Subs /\ visit[v].email \in Emails
      /\ visit[v].token \in Invitations \cup {NoRow}
      /\ VisitOK(v)
  BY <1>0, Visited
<1>2. CASE Lookup(v)
  <2>1. Keeps /\ TablesOK' /\ change' = change /\ rows' = rows
    BY <1>2, SameTables DEF Lookup
  <2>2. CASE Leave(v)
    BY <2>1, <2>2, Leaves
  <2>3. CASE Goto(v, "enroll") \/ Goto(v, "first")
    BY <1>1, <2>1, <2>3, GoesOn DEF Pcs
  <2>4. CASE rows[visit[v].sub] # NoRow /\ Goto(v, "again")
    BY <1>1, <2>1, <2>4, GoesOn DEF Pcs
  <2> QED
    BY <1>2, <2>2, <2>3, <2>4 DEF Lookup
<1>3. CASE Pick(v)
  <2>1. /\ Keeps /\ TablesOK' /\ change' = change /\ rows' = rows
        /\ invitations' = invitations
    BY <1>3, SameTables DEF Pick
  <2>2. CASE Leave(v)
    BY <2>1, <2>2, Leaves
  <2>3. CASE Goto(v, "enroll")
    BY <1>1, <2>1, <2>3, GoesOn DEF Pcs
  <2>4. ASSUME NEW i \in Invitations, Valid(i, visit[v].email),
               Picked(v, IF At(v, "first") THEN "accept" ELSE "approve", i)
        PROVE  AccountsTypeOK'
    <3> DEFINE pc == IF At(v, "first") THEN "accept" ELSE "approve"
               u == [visit[v] EXCEPT !.pc = pc, !.token = i]
    <3>1. /\ u \in Visiting /\ u.pc = pc /\ u.token = i
          /\ u.sub = visit[v].sub
      BY <1>1 DEF Visiting
    <3>2. visit' = [visit EXCEPT ![v] = u]
      BY <2>4 DEF Picked, AccountsTypeOK
    <3>3. invitations[i] # NoRow
      BY <2>4 DEF Valid
    <3>4. pc = "approve" => rows[visit[v].sub] # NoRow
      BY <1>1, <1>3 DEF Pick, At, VisitOK
    <3>5. pc \in {"accept", "approve"}
      OBVIOUS
    <3> HIDE DEF u, pc
    <3> QED
      BY <2>1, <3>1, <3>2, <3>3, <3>4, <3>5, VisitorSteps
  <2> QED
    BY <1>3, <2>2, <2>3, <2>4 DEF Pick
<1>4. CASE Consume(v)
  <2>1. visit[v].token \in Invitations /\ invitations[visit[v].token] # NoRow
    BY <1>1, <1>4 DEF Consume, At, VisitOK
  <2>2. [invitations[visit[v].token] EXCEPT !.status = "accepted"]
          \in InvitationRows
    BY <2>1 DEF AccountsTypeOK, InvitationRows
  <2>3. Keeps /\ TablesOK' /\ change' = change
    BY <1>4, <2>1, <2>2, InvitationWritten DEF Consume
  <2> QED
    BY <1>1, <1>4, <2>3, GoesOn, Leaves DEF Consume, Pcs
<1>5. CASE Enroll(v)
  <2>1. /\ Row(visit[v].email, "approved", "invitation", "local")
              \in AccountRows
        /\ Row(visit[v].email, "pending", "none", "local") \in AccountRows
    BY <1>1, RowMade DEF Statuses
  <2>2. Keeps /\ TablesOK'
    <3>1. CASE rows' = rows
      BY <1>5, <3>1, SameTables DEF Enroll
    <3>2. CASE rows' # rows
      <4>1. PICK row \in AccountRows :
              rows' = [rows EXCEPT ![visit[v].sub] = row]
        BY <1>5, <2>1, <3>2 DEF Enroll
      <4> QED
        BY <1>1, <1>5, <4>1, RowWritten DEF Enroll
    <3> QED
      BY <3>1, <3>2
  <2> QED
    BY <1>5, <2>2, Leaves DEF Enroll
<1>6. CASE Approve(v)
  <2> DEFINE row == rows[visit[v].sub]
             new == [row EXCEPT !.status = "approved",
                                !.approvedBy = "invitation"]
  <2>1. row \in AccountRows
    BY <1>1, <1>6 DEF Approve, At, VisitOK, AccountsTypeOK
  <2>2. new \in AccountRows
    BY <2>1 DEF AccountRows, Statuses
  <2>3. rows' = [rows EXCEPT ![visit[v].sub] = new]
    BY <1>1, <1>6 DEF Approve, AccountsTypeOK
  <2> HIDE DEF new
  <2>4. Keeps /\ TablesOK' /\ change' = change
    BY <1>1, <1>6, <2>2, <2>3, RowWritten DEF Approve
  <2>5. /\ visit[v].token \in Invitations
        /\ invitations'[visit[v].token] # NoRow
        /\ rows'[visit[v].sub] # NoRow
    BY <1>1, <1>6, <2>4 DEF Approve, At, VisitOK, Keeps
  <2> QED
    BY <1>1, <1>6, <2>4, <2>5, GoesOn DEF Approve, Pcs
<1> QED
  BY <1>2, <1>3, <1>4, <1>5, <1>6 DEF EnrollStep

\* The statements of the administrators' routes keep them.
LEMMA AdminKeeps ==
  ASSUME AccountsTypeOK, NEW a \in Admins, AdminStep(a)
  PROVE  AccountsTypeOK'
<1>0. NoChange.pc = "idle" /\ NoChange \in Deciding \cup Revoking \cup {NoChange}
  BY DEF NoChange
<1>1. /\ change[a].pc \in {"update", "log"} => change[a] \in Deciding
      /\ change[a].pc = "revoke" => change[a] \in Revoking
      /\ ChangeOK(a)
  BY Parts DEF AccountsTypeOK, Deciding, Revoking, NoChange
<1>2. CASE Decide(a)
  <2>1. PICK s \in Subs, to \in Decisions :
          /\ rows[s] # NoRow
          /\ change' = [change EXCEPT ![a] =
               [pc |-> "update", sub |-> s, from |-> rows[s].status,
                to |-> to]]
    BY <1>2 DEF Decide
  <2>2. [pc |-> "update", sub |-> s, from |-> rows[s].status, to |-> to]
          \in Deciding
    BY <2>1 DEF Deciding, AccountsTypeOK, AccountRows
  <2>3. Keeps /\ TablesOK' /\ visit' = visit /\ rows' = rows
    BY <1>2, SameTables DEF Decide
  <2> QED
    BY <2>1, <2>2, <2>3, AdminSteps
<1>3. CASE Update(a)
  <2> DEFINE c == change[a]
             row == rows[c.sub]
             by == IF c.to = "approved" THEN "admin" ELSE row.approvedBy
             new == [row EXCEPT !.status = c.to, !.approvedBy = by]
  <2>1. c \in Deciding /\ row \in AccountRows /\ c.sub \in Subs
    BY <1>1, <1>3 DEF Update, ChangeOK, AccountsTypeOK, Deciding
  <2>2. /\ c.to \in Statuses
        /\ by \in {"none", "admin", "invitation", "prod"}
    BY <2>1 DEF Deciding, Decisions, Statuses, AccountRows
  <2>3. rows' = [rows EXCEPT ![c.sub] = new]
    BY <1>3, <2>1 DEF Update, AccountsTypeOK
  <2> HIDE DEF by
  <2>4. new \in AccountRows
    BY <2>1, <2>2 DEF AccountRows
  <2> HIDE DEF new
  <2>5. Keeps /\ TablesOK' /\ visit' = visit
    BY <1>3, <2>1, <2>3, <2>4, RowWritten DEF Update
  <2>6. /\ [c EXCEPT !.pc = "log"] \in Deciding
        /\ [c EXCEPT !.pc = "log"].sub = c.sub
        /\ [c EXCEPT !.pc = "log"].pc = "log"
    BY <2>1 DEF Deciding
  <2>7. rows'[c.sub] # NoRow
    BY <1>1, <1>3, <2>1, <2>5 DEF Keeps, Update, ChangeOK
  <2>8. change' = [change EXCEPT ![a] = [c EXCEPT !.pc = "log"]]
    BY <1>3 DEF Update
  <2> HIDE DEF c
  <2> QED
    BY <2>5, <2>6, <2>7, <2>8, AdminSteps
<1>4. CASE Log(a)
  <2>1. change[a] \in Deciding
    BY <1>1, <1>4 DEF Log
  <2>2. [sub |-> change[a].sub, from |-> change[a].from, to |-> change[a].to]
          \in [sub : Subs, from : Statuses, to : Decisions]
    BY <2>1 DEF Deciding
  <2>3. Keeps /\ TablesOK' /\ visit' = visit
    BY <1>4, <2>2 DEF Log, Keeps, TablesOK, AccountsTypeOK
  <2> QED
    BY <1>0, <1>4, <2>3, AdminSteps DEF Log
<1>5. CASE Invite(a)
  <2>1. PICK i \in Invitations, e \in Emails :
          invitations' = [invitations EXCEPT ![i] =
            [email |-> e, status |-> "pending", expired |-> FALSE]]
    BY <1>5 DEF Invite
  <2>2. [email |-> e, status |-> "pending", expired |-> FALSE]
          \in InvitationRows
    BY DEF InvitationRows
  <2>3. Keeps /\ TablesOK'
    BY <1>5, <2>1, <2>2, InvitationWritten DEF Invite
  <2> QED
    BY <1>5, <2>3, TablesStep DEF Invite
<1>6. CASE ReadInvitation(a)
  <2>1. PICK i \in Invitations :
          /\ invitations[i] # NoRow
          /\ change' = [change EXCEPT ![a] = [pc |-> "revoke", token |-> i]]
    BY <1>6 DEF ReadInvitation
  <2>2. [pc |-> "revoke", token |-> i] \in Revoking
    BY DEF Revoking
  <2>3. Keeps /\ TablesOK' /\ visit' = visit /\ invitations' = invitations
    BY <1>6, SameTables DEF ReadInvitation
  <2> QED
    BY <2>1, <2>2, <2>3, AdminSteps
<1>7. CASE RevokeInvitation(a)
  <2>1. change[a].token \in Invitations /\ invitations[change[a].token] # NoRow
    BY <1>1, <1>7 DEF RevokeInvitation, ChangeOK, Revoking
  <2>2. [invitations[change[a].token] EXCEPT !.status = "revoked"]
          \in InvitationRows
    BY <2>1 DEF AccountsTypeOK, InvitationRows
  <2>3. Keeps /\ TablesOK' /\ visit' = visit
    BY <1>7, <2>1, <2>2, InvitationWritten DEF RevokeInvitation
  <2> QED
    BY <1>0, <1>7, <2>3, AdminSteps DEF RevokeInvitation
<1>8. CASE Abandon(a)
  BY <1>0, <1>8, SameTables, AdminSteps DEF Abandon
<1> QED
  BY <1>2, <1>3, <1>4, <1>5, <1>6, <1>7, <1>8 DEF AdminStep

\* Every statement of the accounts keeps them.
LEMMA AccountsStep ==
  ASSUME AccountsTypeOK, AccountsNext PROVE AccountsTypeOK'
<1>1. ASSUME NEW v \in Visitors, Visit(v) PROVE AccountsTypeOK'
  <2>1. PICK s \in Subs, e \in Emails, login \in BOOLEAN,
             verified \in BOOLEAN :
          visit' = [visit EXCEPT ![v] =
            [pc |-> IF verified THEN "staged" ELSE "lookup", sub |-> s,
             email |-> e, login |-> login, kind |-> "none", token |-> NoRow]]
    BY <1>1, Zenon DEF Visit
  <2> DEFINE u == [pc |-> IF verified THEN "staged" ELSE "lookup", sub |-> s,
                   email |-> e, login |-> login, kind |-> "none",
                   token |-> NoRow]
  <2>2. u \in Visiting /\ u.pc \in {"staged", "lookup"}
    BY DEF Visiting
  <2>3. Keeps /\ TablesOK' /\ change' = change
    BY <1>1, SameTables DEF Visit
  <2>4. visit' = [visit EXCEPT ![v] = u]
    BY <2>1
  <2> HIDE DEF u
  <2> QED
    BY <2>2, <2>3, <2>4, VisitorSteps
<1>2. ASSUME NEW v \in Visitors, Hangup(v) PROVE AccountsTypeOK'
  BY <1>2, SameTables, Leaves DEF Hangup
<1>3. ASSUME NEW i \in Invitations, Expire(i) PROVE AccountsTypeOK'
  <2>1. [invitations[i] EXCEPT !.expired = TRUE] \in InvitationRows
    BY <1>3 DEF Expire, AccountsTypeOK, InvitationRows
  <2>2. Keeps /\ TablesOK'
    BY <1>3, <2>1, InvitationWritten DEF Expire
  <2> QED
    BY <1>3, <2>2, TablesStep DEF Expire
<1> QED
  BY <1>1, <1>2, <1>3, LinkKeeps, EnrollKeeps, AdminKeeps DEF AccountsNext

------------------------------------------------------------------------------
(* The ingestion.                                                             *)
LEMMA AdmissionInitInv == AdmissionInit => AdmissionInv
<1> SUFFICES ASSUME AdmissionInit PROVE AdmissionInv
  OBVIOUS
<1>1. NoVisit.pc = "idle" /\ NoChange.pc = "idle"
  BY DEF NoVisit, NoChange
<1>2. AccountsTypeOK
  BY <1>1 DEF AdmissionInit, AccountsInit, AtRest, AccountsTypeOK, NotStaged
<1>3. AdmissionTypeOK
  BY <1>2 DEF AdmissionInit, Unsynced, AdmissionTypeOK
<1>4. Covered
  BY DEF AdmissionInit, AccountsInit, Covered, NotStaged
<1> QED
  BY <1>3, <1>4 DEF AdmissionInit, Unsynced, AdmissionInv, OneIngest,
     FreshHeld

\* A step of another part keeps them.
LEMMA AccountsSame ==
  ASSUME AccountsTypeOK, UNCHANGED accountVars PROVE AccountsTypeOK'
BY DEF AccountsTypeOK, accountVars

(* The accounts' own steps stage nothing.                                     *)
LEMMA StagedKept == ASSUME AccountsNext PROVE staged' = staged
BY DEF AccountsNext, Visit, LinkStep, EnrollStep, AdminStep, Hangup,
   ReadStaged, ReadSub, FindLink, FindLocal, CreateLink, AdoptLink,
   Readmit, Lookup, Pick, Consume, Enroll, Approve, Decide, Update, Log,
   Invite, ReadInvitation, RevokeInvitation, Abandon, Expire

(* An envelope under the lock is newer than whatever bears a stamp.           *)
LEMMA NewerThanStaged ==
  ASSUME AdmissionInv, NEW x \in Ingests, ingest[x] # NoEnvelope,
         NEW e \in Emails
  PROVE  staged[e].at <= ingest[x].issuedAt
<1>1. ingest[x].issuedAt \in Nat /\ staged[e].at \in Nat
      /\ \A k \in Kids : synced[k] \in Nat
  BY DEF AdmissionInv, AdmissionTypeOK, AccountsTypeOK, Envelopes
<1>2. \A k \in Kids : synced[k] < ingest[x].issuedAt
  BY DEF AdmissionInv, FreshHeld, Fresh
<1> QED
  BY <1>1, <1>2 DEF AdmissionInv, Covered

\* Applying an envelope keeps the invariant of the admission.
LEMMA ApplyKeeps ==
  ASSUME AdmissionInv, NEW x \in Ingests, Apply(x) PROVE AdmissionInv'
<1> DEFINE env == ingest[x]
<1>1. env \in Envelopes /\ env.kid \in Kids /\ env.issuedAt \in Nat
      /\ env.entries \in Entries
  BY DEF Apply, AdmissionInv, AdmissionTypeOK, Envelopes
<1>2. \A e \in Emails : Decided(env, e) \in Statuses
  BY <1>1 DEF Decided, Entries, Statuses
<1>3. /\ invitations' = invitations /\ shared' = shared /\ visit' = visit
      /\ change' = change /\ events' = events
  BY DEF Apply
<1>4. staged' \in [Emails -> [status : Statuses \cup {"none"}, at : Nat]]
  BY <1>1, <1>2 DEF Apply, AdmissionInv, AdmissionTypeOK, AccountsTypeOK
<1>5. /\ rows' \in [Subs -> AccountRows \cup {NoRow}]
      /\ \A s \in Subs : rows[s] # NoRow => rows'[s] # NoRow
  <2>1. ASSUME NEW s \in Subs
        PROVE  /\ rows'[s] \in AccountRows \cup {NoRow}
               /\ rows[s] # NoRow => rows'[s] # NoRow
    <3>1. rows'[s] = IF Mirrors(env, s)
                       THEN [rows[s] EXCEPT
                               !.status = Decided(env, rows[s].email)]
                       ELSE rows[s]
      BY DEF Apply
    <3>2. CASE Mirrors(env, s)
      <4>1. rows[s] \in AccountRows
        BY <3>2 DEF Mirrors, AdmissionInv, AdmissionTypeOK, AccountsTypeOK
      <4>2. Decided(env, rows[s].email) \in Statuses
        BY <1>2, <4>1 DEF AccountRows
      <4> QED
        BY <3>1, <3>2, <4>1, <4>2, RowKept, AccountsAssumption
    <3> QED
      BY <3>1, <3>2 DEF AdmissionInv, AdmissionTypeOK, AccountsTypeOK
  <2>2. rows' = [s \in Subs |-> rows'[s]]
    BY DEF Apply
  <2> QED
    BY <2>1, <2>2
<1>6. AccountsTypeOK'
  BY <1>3, <1>4, <1>5, TablesStep
     DEF AdmissionInv, AdmissionTypeOK, AccountsTypeOK, TablesOK, Keeps
<1>7. /\ synced' = [synced EXCEPT ![env.kid] = env.issuedAt]
      /\ ingest' = [ingest EXCEPT ![x] = NoEnvelope]
      /\ UNCHANGED <<prod, emission, clock, network>>
  BY DEF Apply
<1>8. AdmissionTypeOK'
  BY <1>1, <1>6, <1>7 DEF AdmissionInv, AdmissionTypeOK
<1>9. \A y \in Ingests : ingest'[y] = NoEnvelope
  BY <1>7 DEF Apply, AdmissionInv, AdmissionTypeOK, OneIngest
<1>10. \A k \in Kids : synced[k] <= synced'[k] /\ synced[k] \in Nat
                        /\ synced'[k] \in Nat
  BY <1>1, <1>7 DEF Apply, AdmissionInv, AdmissionTypeOK, FreshHeld, Fresh
<1>11. Covered'
  <2> SUFFICES ASSUME NEW e \in Emails
               PROVE  \/ staged'[e].at = 0
                      \/ \E k \in Kids : staged'[e].at <= synced'[k]
    BY DEF Covered
  <2>1. CASE e \in Touched(env)
    <3>1. staged'[e].at = env.issuedAt /\ synced'[env.kid] = env.issuedAt
      BY <1>1, <1>7, <2>1 DEF Apply, AdmissionInv, AdmissionTypeOK
    <3> QED
      BY <1>1, <3>1
  <2>2. CASE e \notin Touched(env)
    <3>1. staged'[e] = staged[e]
      BY <2>2 DEF Apply
    <3>2. staged[e].at \in Nat
      BY DEF AdmissionInv, AdmissionTypeOK, AccountsTypeOK
    <3> QED
      BY <1>10, <3>1, <3>2 DEF AdmissionInv, Covered
  <2> QED
    BY <2>1, <2>2
<1> QED
  BY <1>8, <1>9, <1>11 DEF AdmissionInv, OneIngest, FreshHeld

\* An emission keeps it.
LEMMA EmitKeeps ==
  ASSUME AdmissionInv, NEW m \in Emitters,
         ReadRows(m) \/ Stamp(m) \/ StopEmission(m)
  PROVE  AdmissionInv'
<1>0. UNCHANGED <<accountVars, prod, synced, ingest>>
  BY DEF ReadRows, Stamp, StopEmission
<1>1. AccountsTypeOK'
  BY <1>0, AccountsSame DEF AdmissionInv, AdmissionTypeOK
<1>2. /\ emission' \in [Emitters -> Reading \cup {NoEmission}]
      /\ clock' \in Nat /\ network' \subseteq Envelopes
  <2>1. CASE ReadRows(m)
    <3>1. PICK read \in {[full |-> TRUE, of |-> Emails]} \cup
                        {[full |-> FALSE, of |-> {e}] : e \in Emails} :
            emission' = [emission EXCEPT ![m] =
              [pc |-> "stamp", full |-> read.full,
               entries |-> [e \in {d \in read.of : prod[d] # "none"}
                              |-> prod[e]]]]
      BY <2>1 DEF ReadRows
    <3>2. read.full \in BOOLEAN /\ read.of \subseteq Emails
      <4>1. CASE read = [full |-> TRUE, of |-> Emails]
        BY <4>1
      <4>2. ASSUME NEW e \in Emails, read = [full |-> FALSE, of |-> {e}]
            PROVE  read.full \in BOOLEAN /\ read.of \subseteq Emails
        BY <4>2
      <4> QED
        BY <4>1, <4>2
    <3> DEFINE D == {d \in read.of : prod[d] # "none"}
               f == [e \in D |-> prod[e]]
    <3>3. D \in SUBSET Emails /\ f \in [D -> Statuses]
      BY <3>2 DEF AdmissionInv, AdmissionTypeOK
    <3>4. f \in Entries
      BY <3>3 DEF Entries
    <3> HIDE DEF f
    <3>5. [pc |-> "stamp", full |-> read.full, entries |-> f] \in Reading
      BY <3>2, <3>4 DEF Reading
    <3>6. emission' = [emission EXCEPT ![m] =
                        [pc |-> "stamp", full |-> read.full, entries |-> f]]
      BY <3>1 DEF f
    <3> QED
      BY <2>1, <3>5, <3>6 DEF ReadRows, AdmissionInv, AdmissionTypeOK
  <2>2. CASE Stamp(m)
    <3>1. emission[m] \in Reading
      BY <2>2 DEF Stamp, AdmissionInv, AdmissionTypeOK, NoEmission
    <3>2. PICK now \in {clock, clock + 1} \ {0}, k \in Kids :
            /\ clock' = now
            /\ network' = network \cup
                 {[kid |-> k, issuedAt |-> now, full |-> emission[m].full,
                   entries |-> emission[m].entries]}
      BY <2>2 DEF Stamp
    <3>3. now \in Nat
      BY DEF AdmissionInv, AdmissionTypeOK
    <3>4. [kid |-> k, issuedAt |-> now, full |-> emission[m].full,
           entries |-> emission[m].entries] \in Envelopes
      BY <3>1, <3>3 DEF Reading, Envelopes
    <3> QED
      BY <2>2, <3>2, <3>3, <3>4 DEF Stamp, AdmissionInv, AdmissionTypeOK
  <2>3. CASE StopEmission(m)
    BY <2>3 DEF StopEmission, AdmissionInv, AdmissionTypeOK
  <2> QED
    BY <2>1, <2>2, <2>3
<1> QED
  BY <1>0, <1>1, <1>2 DEF accountVars, AdmissionInv, AdmissionTypeOK,
     OneIngest, FreshHeld, Fresh, Covered

\* Every step keeps it.
LEMMA AdmissionStep ==
  AdmissionInv /\ [AdmissionNext]_admissionVars => AdmissionInv'
<1> SUFFICES ASSUME AdmissionInv, [AdmissionNext]_admissionVars
             PROVE  AdmissionInv'
  OBVIOUS
<1>1. CASE UNCHANGED admissionVars
  <2>1. AccountsTypeOK'
    BY <1>1, AccountsSame DEF admissionVars, AdmissionInv, AdmissionTypeOK
  <2> QED
    BY <1>1, <2>1 DEF admissionVars, accountVars, AdmissionInv,
       AdmissionTypeOK, OneIngest, FreshHeld, Fresh, Covered
<1>2. CASE AccountsNext /\ UNCHANGED otherVars
  <2>1. AccountsTypeOK' /\ staged' = staged
    BY <1>2, AccountsStep, StagedKept DEF AdmissionInv, AdmissionTypeOK
  <2> QED
    BY <1>2, <2>1 DEF otherVars, AdmissionInv, AdmissionTypeOK, OneIngest,
       FreshHeld, Fresh, Covered
<1>3. CASE ProdDecides
  <2>1. AccountsTypeOK'
    BY <1>3, AccountsSame DEF ProdDecides, AdmissionInv, AdmissionTypeOK
  <2>2. prod' \in [Emails -> Statuses \cup {"none"}]
    BY <1>3 DEF ProdDecides, AdmissionInv, AdmissionTypeOK
  <2> QED
    BY <1>3, <2>1, <2>2 DEF ProdDecides, accountVars, AdmissionInv,
       AdmissionTypeOK, OneIngest, FreshHeld, Fresh, Covered
<1>4. ASSUME NEW x \in Ingests, BeginIngest(x) \/ RollBack(x)
      PROVE  AdmissionInv'
  <2>1. AccountsTypeOK'
    BY <1>4, AccountsSame DEF BeginIngest, RollBack, AdmissionInv,
       AdmissionTypeOK
  <2>2. /\ ingest' \in [Ingests -> Envelopes \cup {NoEnvelope}]
        /\ OneIngest' /\ FreshHeld'
    BY <1>4 DEF BeginIngest, RollBack, IngestFree, AdmissionInv,
       AdmissionTypeOK, OneIngest, FreshHeld, Fresh
  <2> QED
    BY <1>4, <2>1, <2>2 DEF BeginIngest, RollBack, accountVars, AdmissionInv,
       AdmissionTypeOK, Covered
<1> QED
  BY <1>1, <1>2, <1>3, <1>4, ApplyKeeps, EmitKeeps DEF AdmissionNext

(* The inductive invariant of the ingestion: types, one ingestion under the   *)
(* lock, its envelope still fresh, and every staged row stamped no later than *)
(* the last envelope applied under some key.                                  *)
THEOREM AdmissionInvariance == AdmissionSpec => []AdmissionInv
BY AdmissionInitInv, AdmissionStep, PTL DEF AdmissionSpec

(* Accounts, requests, envelopes and ingestions keep their types.             *)
THEOREM AdmissionTypes == AdmissionSpec => []AdmissionTypeOK
<1>1. AdmissionInv => AdmissionTypeOK
  BY DEF AdmissionInv
<1> QED
  BY <1>1, AdmissionInvariance, PTL

(* Whatever the order of arrival and the key, no staged entry goes back to an *)
(* older stamp.                                                               *)
THEOREM OlderTheorem == AdmissionSpec => NeverOlder
<1>1. AdmissionInv /\ [AdmissionNext]_admissionVars =>
        [\A e \in Emails : staged[e].at <= staged'[e].at]_admissionVars
  <2> SUFFICES ASSUME AdmissionInv, AdmissionNext, NEW e \in Emails
               PROVE  staged[e].at <= staged'[e].at
    OBVIOUS
  <2>1. staged[e].at \in Nat
    BY DEF AdmissionInv, AdmissionTypeOK, AccountsTypeOK
  <2>2. ASSUME NEW x \in Ingests, Apply(x)
        PROVE  staged[e].at <= staged'[e].at
    <3>1. staged'[e].at \in {staged[e].at, ingest[x].issuedAt}
      BY <2>2 DEF Apply
    <3> QED
      BY <2>1, <2>2, <3>1, NewerThanStaged DEF Apply
  <2>3. CASE staged' = staged
    BY <2>1, <2>3
  <2> QED
    BY <2>2, <2>3, StagedKept DEF AdmissionNext, ProdDecides, ReadRows, Stamp,
       StopEmission, BeginIngest, RollBack, accountVars
<1> QED
  BY <1>1, AdmissionInvariance, PTL DEF AdmissionSpec, NeverOlder

(* A local account is linked only while nobody has decided on it: the update  *)
(* itself says so, whatever was read before.                                  *)
LEMMA LinkedPending ==
  ASSUME AccountsTypeOK, AccountsNext, NEW s \in Subs, rows[s] # NoRow,
         rows[s].source = "local", rows'[s].source = "prod_sync"
  PROVE  rows[s].status = "pending"
<1>1. rows[s] \in AccountRows
  BY DEF AccountsTypeOK
<1>2. ASSUME NEW v \in Visitors, LinkStep(v)
      PROVE  rows'[s].source = "local" \/ rows[s].status = "pending"
  <2>1. CASE CreateLink(v)
    BY <2>1 DEF CreateLink, Insertable, AccountsTypeOK
  <2>2. CASE AdoptLink(v)
    BY <2>2 DEF AdoptLink, Adoptable, AccountsTypeOK
  <2>3. CASE Readmit(v)
    BY <1>1, <2>3, RowKept DEF Readmit, AccountsTypeOK, Statuses
  <2> QED
    BY <1>2, <2>1, <2>2, <2>3 DEF LinkStep, ReadStaged, ReadSub, FindLink,
       FindLocal
<1>3. ASSUME NEW v \in Visitors, EnrollStep(v)
      PROVE  rows'[s].source = "local"
  <2>1. CASE Enroll(v)
    BY <2>1 DEF Enroll, AccountsTypeOK
  <2>2. CASE Approve(v)
    BY <1>1, <2>2 DEF Approve, AccountsTypeOK, AccountRows
  <2> QED
    BY <1>3, <2>1, <2>2 DEF EnrollStep, Lookup, Pick, Consume
<1>4. ASSUME NEW a \in Admins, AdminStep(a) PROVE rows'[s].source = "local"
  <2>1. CASE Update(a)
    BY <1>1, <2>1 DEF Update, AccountsTypeOK, AccountRows
  <2> QED
    BY <1>4, <2>1 DEF AdminStep, Decide, Log, Invite, ReadInvitation,
       RevokeInvitation, Abandon
<1> QED
  BY <1>2, <1>3, <1>4 DEF AccountsNext, Visit, Hangup, Expire

(* An account decided by hand is not taken over by an envelope of production: *)
(* the only adoption is of a pending account (jit.ts).                        *)
THEOREM DecisionsTheorem == AdmissionSpec => DecisionsStand
<1>1. AdmissionInv /\ [AdmissionNext]_admissionVars =>
        [\A s \in Subs :
           (/\ rows[s] # NoRow
            /\ rows[s].source = "local"
            /\ rows'[s].source = "prod_sync")
           => rows[s].status = "pending"]_accountVars
  <2> SUFFICES ASSUME AdmissionInv, AdmissionNext, rows' # rows,
                      NEW s \in Subs, rows[s] # NoRow,
                      rows[s].source = "local", rows'[s].source = "prod_sync"
               PROVE  rows[s].status = "pending"
    BY DEF accountVars, admissionVars
  <2>1. CASE AccountsNext
    BY <2>1, LinkedPending DEF AdmissionInv, AdmissionTypeOK
  <2>2. ASSUME NEW x \in Ingests, Apply(x) PROVE FALSE
    BY <2>2 DEF Apply, Mirrors
  <2> QED
    BY <2>1, <2>2 DEF AdmissionNext, ProdDecides, ReadRows, Stamp,
       StopEmission, BeginIngest, RollBack, accountVars
<1> QED
  BY <1>1, AdmissionInvariance, PTL DEF AdmissionSpec, DecisionsStand
==============================================================================
