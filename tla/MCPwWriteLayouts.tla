--------------------------- MODULE MCPwWriteLayouts ---------------------------
(* Two cuts of one instance of PwWrite, explored in one run: "single" has one *)
(* prepared intent and one key in use, while a fence closes and the rights,   *)
(* the clock and the revision move; "pair" has two of each while those stay   *)
(* put.  A cut forbids steps that leave it: safety properties are unaffected. *)
EXTENDS MCPwWrite

VARIABLE layout

AtMostOne(S) == Cardinality(S) <= 1
Single ==
  /\ AtMostOne({i \in Intents : Prepared(i)})
  /\ AtMostOne({k \in Keys : reserved[k] # NoIntent \/ receipt[k] # NoIntent})
  /\ AtMostOne(closed)
Pair == closed = {} /\ rights /\ now = 0 /\ revision = 0
Within == IF layout = "single" THEN Single ELSE Pair

LayoutsInit == Init /\ layout \in {"single", "pair"}
LayoutsNext == Next /\ UNCHANGED layout /\ Within'
LayoutsSpec == LayoutsInit /\ [][LayoutsNext]_<<vars, layout>>
===============================================================================
