--------------------------- MODULE MCPwWriteLimits ---------------------------
(* Small instances of PwWriteLimits, one per limit.  A cut forbids the kinds  *)
(* of transaction that leave it.                                              *)
EXTENDS PwWriteLimits, TLC

CONSTANTS alice, bob

OwnerOf == [s \in Sessions |-> alice]
(* Bursts are below limits but for the preparations, as in the code.          *)
SmallLimits == [c \in Classes |->
  CASE c = "reader" -> 2 [] c = "prepare" -> 4 [] OTHER -> 3]
SmallBursts == [c \in Classes |->
  CASE c = "reader" -> 1 [] c = "prepare" -> 4 [] OTHER -> 2]

VARIABLE cut
Only(kinds, readers) ==
  \A p \in Processes :
    pc[p] # "idle" => job[p].kind \in kinds /\ job[p].reader \in readers
Within ==
  CASE cut = "attempt" -> Only({"attempt"}, {alice})
    [] cut = "admission" -> Only({"admission"}, {alice, bob}) /\ now <= 4
    [] cut = "prepare" -> Only({"prepare"}, {alice}) /\ now <= 3
    [] cut = "status" ->
         /\ Only({"prepare", "status"}, {alice})
         /\ Cardinality({i \in Intents : intents[i] # NoIntent}) <= 1
         /\ \A p \in Processes : job[p].kind = "prepare" =>
              now = 0 /\ \A i \in Intents : intents[i] = NoIntent
CutInit == Init /\ cut \in {"attempt", "admission", "prepare", "status"}
CutNext == Next /\ UNCHANGED cut /\ Within'
CutSpec == CutInit /\ [][CutNext]_<<vars, cut>>
Symmetry == Permutations(Processes) \cup Permutations(Intents)
              \cup Permutations(Sessions)
==============================================================================
