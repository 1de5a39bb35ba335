-------------------------- MODULE MCFacetActivation --------------------------
(* Two workspaces with an operator each, a member who writes in both, and the *)
(* operators' own account.                                                    *)
EXTENDS FacetActivation

CONSTANTS alice, bob, t1, s1, s2, c1, c2, w1, w2, o1, o2

Hands == [t \in Tabs |-> alice]
Orders == [c \in Commands |->
  [on |-> s1, state |-> IF c = c1 THEN "active" ELSE "inactive"]]

None == [a \in Accounts |-> [c \in Commands |-> Missing]]
Event(s, prev, next) ==
  [owner |-> alice, on |-> s, state |-> "active", prev |-> prev, next |-> next,
   home |-> Unbound, via |-> Unbound]

Split == [o \in Operators |-> IF o = o1 THEN {w1} ELSE {w2}]
Home == [a \in Accounts |-> Workspaces]
Plans == [a \in Accounts |->
  IF a = alice THEN {{w1}, {w1, w2}} ELSE {{w2}}]

(* One event with its receipt; an event of one signal said to follow *)
(* that of another; a receipt without an event nor a context.                 *)
Whole == [log |-> <<Event(s1, 0, 0)>>, receipts |-> [None EXCEPT ![alice][c1] = 1]]
Crossed == [log |-> <<Event(s1, 0, 0), Event(s2, 1, 0)>>, receipts |-> None]
Old == [log |-> <<>>, receipts |-> [None EXCEPT ![alice][c2] = Opaque]]
Starts == {Whole, Crossed, Old}
==============================================================================
