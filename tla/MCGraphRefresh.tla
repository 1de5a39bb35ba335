--------------------------- MODULE MCGraphRefresh ---------------------------
(* Two cities and two documents; the scenarios are the layouts worth telling  *)
(* apart, each with its own bounds.                                           *)
EXTENDS GraphRefresh, TLC

CONSTANTS c1, c2

TwoCities == {c1, c2}
TwoDocs == {1, 2}
Next2 == (c1 :> c2) @@ (c2 :> c1)
Layout(docs, killers, bare, nfaults, nedits) ==
  [home |-> [d \in TwoDocs |-> c1], docs |-> docs, killers |-> killers, bare |-> bare,
   faults |-> nfaults, edits |-> nedits]

(* Two documents of one city: what they owe each other.                       *)
Pair == Layout(TwoDocs, {}, {}, 0, 0)
(* One document, with a death or a failure, a manual run or another writer.   *)
Edited == Layout({1}, {}, {}, 1, 1)
(* One document and two deaths or failures.                                   *)
Faulty == Layout({1}, {}, {}, 2, 0)
(* The document of the first city may kill the process again and again.       *)
Killer == Layout({1}, {c1}, {}, 1, 0)
(* The first city has no graph until another writer gives it one.             *)
Bare == Layout({1}, {}, {c1}, 0, 1)

Layouts == {Pair, Edited, Faulty, Killer, Bare}
OneDocument == {Faulty}
=============================================================================
