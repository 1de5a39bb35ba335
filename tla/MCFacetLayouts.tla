---------------------------- MODULE MCFacetLayouts ----------------------------
(* Two cuts of one instance of FacetStreams, explored in one run: "tabs" has  *)
(* three requests and every command on one signal that stays as it is;        *)
(* "scope" has two requests and fewer commands while the signal and the       *)
(* rights change.  A cut forbids steps that leave it: safety is unaffected.   *)
EXTENDS MCFacetStreams

VARIABLE layout

(* The order a command was sent for, but for what its client displayed.       *)
Sent(c) == Order1(c.family, c.by, c.ws, c.key, c.action, c.basket, c.reason,
                  c.deselect)
TabsCut ==
  /\ content = c1
  /\ \A w \in Workspaces, m \in Members : rights[w][m].revision = 0
  /\ \A p \in Requests :
       cmd[p] # NoCommand => cmd[p].shown = c1 /\ Sent(cmd[p]) \in Tabs
ScopeCut ==
  /\ Cardinality({p \in Requests : cmd[p] # NoCommand}) <= 2
  /\ \A p \in Requests : cmd[p] # NoCommand => Sent(cmd[p]) \in Moves
Within == IF layout = "tabs" THEN TabsCut ELSE ScopeCut

LayoutsInit == Init /\ layout \in {"tabs", "scope"} /\ Within
LayoutsNext == Next /\ UNCHANGED layout /\ Within'
LayoutsSpec == LayoutsInit /\ [][LayoutsNext]_<<vars, layout>>
Both == Tabs \cup Moves
===============================================================================
