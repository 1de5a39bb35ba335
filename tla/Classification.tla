--------------------------- MODULE Classification ---------------------------
(* What the scoped facets of one signal promise, whatever the statements that *)
(* implement them: each stream is a register, a command replaces at once the  *)
(* registers it names, on the version of the signal its author was shown and  *)
(* with rights its author has at that moment, and every change a viewer could *)
(* see moves one of the revisions the projection token is made of.            *)
(* FacetStreams implements this module; CoherentRead reads it.                *)
EXTENDS Integers

CONSTANTS
  Members,       \* accounts
  Workspaces,    \* workspaces whose epoch is scoped
  Baskets,       \* selection baskets
  Reasons,       \* reason codes, NoReason excepted
  NoReason,      \* reason_code IS NULL
  Contents,      \* versions of the signal: what targetFingerprint tells apart
  Gone,          \* the signal is not in the graph
  Shared,        \* owner of the common streams: owner_id IS NULL
  NoEntry,       \* a stream without a head
  NoDigest       \* no row in graph_source_revisions

ASSUME ScopeAssumption ==
  /\ Shared \notin Members /\ "archive" \notin Baskets
  /\ NoReason \notin Reasons /\ Gone \notin Contents
  /\ NoDigest \notin Contents \cup {Gone}
  /\ NoEntry \notin [state: {"active", "inactive"},
                     reason: Reasons \cup {NoReason}, seen: Contents,
                     by: Members]

VARIABLES
  current,       \* [Streams -> Entries or NoEntry]
  content,       \* graph_nodes: the signal as it is stored
  source,        \* graph_source_revisions: revision and digest recorded
  personal,      \* personal_projection_revisions
  common,        \* workspace_projection_revisions
  rights         \* workspace_memberships: [role, revision]

facts == <<current, content, source, personal, common, rights>>

(* One stream per identity; the common scope holds archives only.             *)
Streams == {s \in [ws: Workspaces, owner: Members \cup {Shared},
                   facet: Baskets \cup {"archive"}] :
              s.owner = Shared => s.facet = "archive"}
Roles == {"none", "member", "moderator"}
Entries == [state: {"active", "inactive"}, reason: Reasons \cup {NoReason},
            seen: Contents, by: Members]

FactsOK ==
  /\ current \in [Streams -> Entries \cup {NoEntry}]
  /\ content \in Contents \cup {Gone}
  /\ source \in [revision: Nat, digest: Contents \cup {Gone, NoDigest}]
  /\ personal \in [Workspaces -> [Members -> Nat]]
  /\ common \in [Workspaces -> Nat]
  /\ rights \in [Workspaces -> [Members -> [role: Roles, revision: Nat]]]

(* A member writes streams of her own, a moderator the common ones.           *)
MayWrite(m, s) ==
  IF s.owner = Shared THEN rights[s.ws][m].role = "moderator"
  ELSE s.owner = m /\ rights[s.ws][m].role # "none"

(* bumpGraphSourceRevision: the first content recorded has revision 0.        *)
Recorded(c) ==
  IF source.digest = c THEN source
  ELSE IF source.digest = NoDigest THEN [revision |-> 0, digest |-> c]
  ELSE [revision |-> source.revision + 1, digest |-> c]

Init ==
  /\ current = [s \in Streams |-> NoEntry]
  /\ content \in Contents
  /\ source \in {[revision |-> 0, digest |-> d] : d \in {NoDigest, content}}
  /\ personal = [w \in Workspaces |-> [m \in Members |-> 0]]
  /\ common = [w \in Workspaces |-> 0]
  /\ rights \in [Workspaces -> [Members -> [role: Roles, revision: {0}]]]

(* The streams a step replaces.                                               *)
Changed == {s \in Streams : current'[s] # current[s]}

(* A command of m replaces streams of the owner o in w, by entries that say   *)
(* something else, and the revision of their viewers moves once.              *)
Classify(m, w, o) ==
  /\ current' \in [Streams -> Entries \cup {NoEntry}]
  /\ Changed # {}
  /\ \A s \in Changed :
       /\ s.ws = w /\ s.owner = o /\ MayWrite(m, s)
       /\ current'[s] # NoEntry
       /\ current'[s].by = m /\ current'[s].seen = content
       /\ \/ current[s] = NoEntry /\ current'[s].state = "active"
          \/ /\ current[s] # NoEntry
             /\ \/ current'[s].state # current[s].state
                \/ current'[s].reason # current[s].reason
  /\ IF o = Shared
     THEN common' = [common EXCEPT ![w] = @ + 1] /\ personal' = personal
     ELSE personal' = [personal EXCEPT ![w][m] = @ + 1] /\ common' = common
  /\ UNCHANGED <<content, source, rights>>

Refresh(c) ==
  /\ content' = c /\ source' = Recorded(c)
  /\ UNCHANGED <<current, personal, common, rights>>

(* A membership is added as member or revoked, a capability granted or        *)
(* withdrawn; the same role again is a change of manage_members.              *)
Grant(w, m, role) ==
  /\ rights[w][m].role = "none" => role = "member"
  /\ rights' = [rights EXCEPT
                  ![w][m] = [role |-> role, revision |-> @.revision + 1]]
  /\ UNCHANGED <<current, content, source, personal, common>>

Next ==
  \/ \E m \in Members, w \in Workspaces, o \in Members \cup {Shared} :
       Classify(m, w, o)
  \/ \E c \in Contents \cup {Gone} : Refresh(c)
  \/ \E w \in Workspaces, m \in Members, role \in Roles : Grant(w, m, role)

Spec == Init /\ [][Next]_facts
=============================================================================
