-------------------------- MODULE RefreshCoverage --------------------------
(* The coverage ledger of one city, as refresh-coverage.ts folds it: which    *)
(* documents the refresh has turned into signals, and which it still owes.    *)
(* The module is pure, like the file: an operator returns the next ledger,    *)
(* and whoever calls it decides when to write it.                             *)
EXTENDS Integers, FiniteSets

CONSTANTS
  Docs,          \* documents by date of publication: the larger the newer
  MaxFailures    \* REFRESH_MAX_DOCUMENT_FAILURES

ASSUME LedgerAssumption ==
  Docs \subseteq Nat /\ IsFiniteSet(Docs) /\ MaxFailures \in Nat \ {0}

(* An entry is covered by priming ("primed", its lastReason) or by its        *)
(* projection; "none" is a document without entry.                            *)
EntryStates == {"none", "pending", "covered", "primed", "abandoned"}
Ledgers ==
  [primed: BOOLEAN, state: [Docs -> EntryStates], failures: [Docs -> 0..MaxFailures]]

EmptyLedger ==
  [primed |-> FALSE, state |-> [d \in Docs |-> "none"], failures |-> [d \in Docs |-> 0]]

(* planRefreshCoverage: fold this visit's candidates in.  Mutant: a city is   *)
(* primed on every visit of the sweep.                                        *)
PlanAlwaysPriming(l, candidates, prime) ==
  [l EXCEPT !.primed = @ \/ prime,
            !.state = [d \in Docs |->
               IF d \in candidates /\ @[d] = "none"
               THEN IF prime THEN "primed" ELSE "pending"
               ELSE @[d]]]
Plan(l, candidates, prime) ==
  [l EXCEPT !.primed = @ \/ prime,
            !.state = [d \in Docs |->
               IF d \in candidates /\ @[d] = "none"
               THEN IF prime /\ ~l.primed THEN "primed" ELSE "pending"
               ELSE @[d]]]

(* refreshCoverageWorkItems, and its first item: the newest document listed   *)
(* this time, or else the newest one only the ledger remembers.               *)
Owed(l) == {d \in Docs : l.state[d] = "pending" /\ l.failures[d] < MaxFailures}
First(l, candidates) ==
  LET listed == Owed(l) \cap candidates
      queue == IF listed # {} THEN listed ELSE Owed(l)
  IN CHOOSE d \in queue : \A e \in queue : d >= e

(* coverRefreshDocument, failRefreshDocument.  Mutant: the count stops at its *)
(* limit and the document is not set aside.                                   *)
Cover(l, d) == [l EXCEPT !.state[d] = "covered"]
FailWithoutAside(l, d) == [l EXCEPT !.state[d] = "pending", !.failures[d] = @ + 1]
Fail(l, d) ==
  LET n == l.failures[d] + 1
  IN [l EXCEPT !.state[d] = IF n >= MaxFailures THEN "abandoned" ELSE "pending",
               !.failures[d] = n]
=============================================================================
