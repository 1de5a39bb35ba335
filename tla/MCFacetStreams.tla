--------------------------- MODULE MCFacetStreams ---------------------------
(* Small instances of the scoped facets: one member and a moderator in one    *)
(* workspace, then one member who draws one key in two.                       *)
EXTENDS FacetStreams, TLC

CONSTANTS p1, p2, p3, alice, bob, w1, w2, k1, k2, k3, b1, r1, r2, c1, c2

Order1(f, by, w, k, a, b, r, d) ==
  [family |-> f, by |-> by, ws |-> w, key |-> k, action |-> a, basket |-> b,
   reason |-> r, deselect |-> d]

(* One signal: a selection and its withdrawal, discards with and without it,  *)
(* the common archive and restorations; some commands share a key.            *)
Tabs == {
  Order1("personal", alice, w1, k1, "select", b1, NoReason, {}),
  Order1("personal", alice, w1, k2, "deselect", b1, NoReason, {}),
  Order1("personal", alice, w1, k2, "discard", "archive", r1, {}),
  Order1("personal", alice, w1, k3, "discard", "archive", r1, {b1}),
  Order1("personal", alice, w1, k3, "restore", "archive", NoReason, {}),
  Order1("personal", bob, w1, k1, "discard", "archive", r2, {}),
  Order1("workspace", bob, w1, k1, "discard", "archive", r1, {}),
  Order1("workspace", bob, w1, k2, "restore", "archive", NoReason, {})}

(* The same, with fewer commands, while the signal and the rights change.     *)
Moves == {
  Order1("personal", alice, w1, k1, "select", b1, NoReason, {}),
  Order1("personal", alice, w1, k2, "discard", "archive", r1, {b1}),
  Order1("workspace", bob, w1, k1, "discard", "archive", r1, {})}

(* One key drawn for two workspaces and by an old client.                     *)
OneKey == {
  Order1("personal", alice, w1, k1, "discard", "archive", r1, {}),
  Order1("personal", alice, w2, k1, "discard", "archive", r1, {}),
  Order1("workspace", alice, w1, k1, "discard", "archive", r1, {}),
  Order1("historical", alice, w1, k1, "discard", "archive", r1, {})}

Listed == {<<"archive", r1>>}
Empty == [m \in Members |-> [k \in Keys |-> NoReceipt]]
OldBody(c) ==
  [action |-> "discard", basket |-> "archive", reason |-> r1, deselect |-> {},
   expected |-> 0, also |-> [b \in Baskets |-> 0], shown |-> c]
OldRow(kind, w) ==
  [digest |-> [kind |-> kind, ws |-> NoWorkspace,
               body |-> OldBody(IF kind = "v1" THEN Gone ELSE c1)],
   ws |-> w, event |-> 0]
NoOld == {Empty}
Old == {Empty} \cup
  {[Empty EXCEPT ![alice][k1] = OldRow(kind, w)] :
     kind \in {"v1", "v2"}, w \in {w1, NoWorkspace}}
Sym == Permutations({p1, p2, p3})
=============================================================================
