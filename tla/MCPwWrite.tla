------------------------------ MODULE MCPwWrite ------------------------------
(* Small instances of PwWrite.  Requests, intents and keys are             *)
(* interchangeable: no action or property names one of them.                 *)
EXTENDS PwWrite, TLC

Symmetry == Permutations(Requests) \cup Permutations(Intents) \cup Permutations(Keys)

(* Of the clock, the source, the rights and the fences at most one is not as  *)
(* it was at first.  Fairness is about requests, which this does not block.   *)
Moved == <<now # 0, revision # 0, ~rights, closed # {}>>
AlmostStill == Cardinality({n \in DOMAIN Moved : Moved[n]}) <= 1
LiveNext == Serve \/ (World /\ AlmostStill')
LiveSpec ==
  Init /\ [][LiveNext]_vars /\ \A p \in Requests : WF_vars(Advance(p))
=============================================================================
