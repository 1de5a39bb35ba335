--------------------------- MODULE MCCoherentRead ---------------------------
(* One reader and one city, in two worlds: alice classifies while the signal  *)
(* and her rights change; or alice and bob both classify, of a signal that    *)
(* keeps its content.  One is about what a reader is shown, the other about   *)
(* what makes it give up.                                                     *)
EXTENDS CoherentRead

CONSTANTS reader, alice, bob, w1, b1, r1, c1, c2

VARIABLE world

(* The reader is alice; alone, bob has no rights; together, there is one      *)
(* content and the rights stay.                                               *)
Alone == \A w \in Workspaces : rights[w][bob] = [role |-> "none", revision |-> 0]
Together ==
  /\ content # c2
  /\ \A w \in Workspaces, m \in Members : rights[w][m].revision = 0
Within ==
  /\ \A r \in Readers : ask[r] = NoAsk \/ ask[r].by = alice
  /\ IF world = "alone" THEN Alone ELSE Together

WorldsInit == ReadInit /\ world \in {"alone", "together"} /\ Within
WorldsNext == ReadNext /\ UNCHANGED world /\ Within'
WorldsSpec == WorldsInit /\ [][WorldsNext]_<<vars, world>>
=============================================================================
