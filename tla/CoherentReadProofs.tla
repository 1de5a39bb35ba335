------------------------- MODULE CoherentReadProofs -------------------------
(* A coherent read is a snapshot, for any number of readers, members,         *)
(* workspaces and streams, whatever the bounds on how far the scope moves.    *)
(*                                                                            *)
(* The argument is that of a double collect.  The revisions a token is made   *)
(* of only grow, and their sum, Clock, grows at every step that changes what  *)
(* the viewer is shown or the token itself (ScopeMoves).  So a first sample   *)
(* is never ahead of the scope, and while it is not behind, the token and     *)
(* every part fetched since are still those of the scope (Held): equal        *)
(* samples leave no room for a change in between.                             *)
EXTENDS CoherentRead, TLAPS

DigestHeld ==
  /\ source.digest \in {NoDigest, content}
  /\ source.digest = NoDigest => source.revision = 0

ClockOf(t) ==
  t.personal + t.common + t.source.revision + t.membership.revision
    + (IF t.source.digest = NoDigest THEN 0 ELSE 1)

Ends == {"after", "again", "final", "drifted"}
Sampled == Parts \cup Ends

(* The parts fetched when a request is at a place of its own order.           *)
Got(kind, at, part) ==
  \/ at \in Ends
  \/ kind = "city" /\ part = "archive" /\ at \in {"selection", "signals"}
  \/ kind = "city" /\ part = "selection" /\ at = "signals"
  \/ kind = "search" /\ part = "signals" /\ at \in {"selection", "archive"}
  \/ kind = "search" /\ part = "selection" /\ at = "archive"
  \/ kind = "state" /\ part = "selection" /\ at \in {"archive", "signals"}
  \/ kind = "state" /\ part = "archive" /\ at = "signals"

Placed(r) ==
  /\ pc[r] \in {"again", "final", "drifted", "catalog"} => ask[r].kind # "city"
  /\ answer[r] = "none" <=> pc[r] # "done"

Held(r) ==
  pc[r] \in Sampled =>
    /\ ClockOf(before[r]) \in Nat
    /\ ClockOf(before[r]) <= Clock(ask[r].by, ask[r].ws)
    /\ ClockOf(before[r]) = Clock(ask[r].by, ask[r].ws) =>
         /\ before[r] = Token(ask[r].by, ask[r].ws)
         /\ \A part \in Parts :
              Got(ask[r].kind, pc[r], part) =>
                payload[r][part] = View(part, ask[r].by, ask[r].ws)

Counted(r) ==
  ask[r] # NoAsk /\ ask[r].kind = "city" =>
    /\ pc[r] = "before" =>
         started[r] + attempt[r] <= Clock(ask[r].by, ask[r].ws) + 1
    /\ pc[r] \in Sampled => started[r] + attempt[r] <= ClockOf(before[r]) + 1
    /\ answer[r] = "projection_revision_unstable" =>
         Clock(ask[r].by, ask[r].ws) >= started[r] + 3

Shaped ==
  /\ before = [r \in Readers |-> before[r]]
  /\ payload = [r \in Readers |-> [part \in Parts |-> payload[r][part]]]

IInv ==
  /\ ReadTypeOK /\ DigestHeld /\ Shaped
  /\ \A r \in Readers : Placed(r) /\ Held(r) /\ Counted(r)

-----------------------------------------------------------------------------
(* Steps of the scope.                                                        *)

(* Classifications, refreshes and changes of rights keep the registers typed  *)
(* and the digest recorded, once there is one, that of the content stored.    *)
LEMMA ScopeTyped ==
  ASSUME FactsOK, DigestHeld, ScopeStep
  PROVE  FactsOK' /\ DigestHeld'
<1>1. ASSUME NEW m \in Members, NEW w \in Workspaces,
             NEW o \in Members \cup {Shared}, Write(m, w, o)
      PROVE  FactsOK' /\ DigestHeld'
  <2>1. /\ current' \in [Streams -> Entries \cup {NoEntry}]
        /\ UNCHANGED <<content, source, rights>>
    BY <1>1 DEF Write, Classify
  <2>2. CASE o = Shared
    <3>1. common' = [common EXCEPT ![w] = @ + 1] /\ personal' = personal
      BY <1>1, <2>2 DEF Write, Classify
    <3> QED BY <2>1, <3>1 DEF FactsOK, DigestHeld
  <2>3. CASE o # Shared
    <3>1. personal' = [personal EXCEPT ![w][m] = @ + 1] /\ common' = common
      BY <1>1, <2>3 DEF Write, Classify
    <3>2. personal' \in [Workspaces -> [Members -> Nat]]
      BY <3>1 DEF FactsOK
    <3> QED BY <2>1, <3>1, <3>2 DEF FactsOK, DigestHeld
  <2> QED BY <2>2, <2>3
<1>2. ASSUME NEW c \in Contents \cup {Gone}, Refresh(c)
      PROVE  FactsOK' /\ DigestHeld'
  <2>1. c # NoDigest
    BY ScopeAssumption
  <2> QED BY <1>2, <2>1 DEF Refresh, Recorded, FactsOK, DigestHeld
<1>3. ASSUME NEW w \in Workspaces, NEW m \in Members, NEW role \in Roles,
             Grant(w, m, role)
      PROVE  FactsOK' /\ DigestHeld'
  BY <1>3 DEF Grant, FactsOK, DigestHeld
<1> QED BY <1>1, <1>2, <1>3 DEF ScopeStep

(* What a viewer sees depends on the streams of her workspace that are hers   *)
(* or common, on the content and on her rights.                               *)
LEMMA ViewFrame ==
  ASSUME NEW m \in Members, NEW w \in Workspaces,
         \A s \in Streams : s.ws = w /\ s.owner \in {m, Shared} =>
           current'[s] = current[s],
         content' = content, rights'[w][m] = rights[w][m],
         NEW part \in Parts
  PROVE  View(part, m, w)' = View(part, m, w)
<1>1. \A s \in Streams : s.ws = w /\ s.owner \in {m, Shared} =>
        Shown(s)' = Shown(s)
  BY DEF Shown
<1>2. Archives(m, w)' = Archives(m, w) /\ Own(m, w)' = Own(m, w)
  BY DEF Archives, Own, Streams
<1>3. \A s \in Own(m, w) \cup Archives(m, w) :
        s \in Streams /\ s.ws = w /\ s.owner \in {m, Shared}
  BY DEF Archives, Own
<1>4. [s \in Archives(m, w) |-> Shown(s)]' = [s \in Archives(m, w) |-> Shown(s)]
  BY <1>1, <1>2, <1>3
<1>5. [s \in Own(m, w) |-> Shown(s)]' = [s \in Own(m, w) |-> Shown(s)]
  BY <1>1, <1>2, <1>3
<1>6. part \in {"archive", "selection", "signals"}
  BY DEF Parts
<1> QED BY <1>4, <1>5, <1>6 DEF View

(* The revisions a viewer's token is made of only grow, and none of what she  *)
(* is shown changes while they stand.                                         *)
Grown(m, w) ==
  /\ Clock(m, w)' >= Clock(m, w)
  /\ Clock(m, w)' = Clock(m, w) =>
       /\ Token(m, w)' = Token(m, w)
       /\ \A part \in Parts : View(part, m, w)' = View(part, m, w)

\* The clock of a viewer is a number.
LEMMA ClockTyped ==
  ASSUME FactsOK, NEW m \in Members, NEW w \in Workspaces
  PROVE  Clock(m, w) \in Nat
BY DEF FactsOK, Clock

\* A step of the scope that changes what a viewer is shown moves the viewer's clock.
LEMMA ScopeMoves ==
  ASSUME FactsOK, DigestHeld, ScopeStep, NEW m \in Members, NEW w \in Workspaces
  PROVE  Grown(m, w)
<1>0. /\ personal[w][m] \in Nat /\ common[w] \in Nat
      /\ source.revision \in Nat /\ rights[w][m].revision \in Nat
      /\ source = [revision |-> source.revision, digest |-> source.digest]
      /\ source.digest \in Contents \cup {Gone, NoDigest}
  BY DEF FactsOK
<1>1. ASSUME NEW a \in Members, NEW v \in Workspaces,
             NEW o \in Members \cup {Shared}, Write(a, v, o)
      PROVE  Grown(m, w)
  <2>1. content' = content /\ source' = source /\ rights' = rights
    BY <1>1 DEF Write, Classify
  <2>2. \A s \in Streams : current'[s] # current[s] => s.ws = v /\ s.owner = o
    BY <1>1 DEF Write, Classify, Changed
  <2>3. PICK t \in Streams : t \in Changed /\ MayWrite(a, t) /\ t.owner = o
    BY <1>1 DEF Write, Classify, Changed
  <2>4. CASE o = Shared
    <3>1. personal' = personal /\ common' = [common EXCEPT ![v] = @ + 1]
      BY <1>1, <2>4 DEF Write, Classify
    <3>2. CASE v = w
      <4>1. common'[w] = common[w] + 1
        BY <3>1, <3>2 DEF FactsOK
      <4> QED BY <4>1, <3>1, <2>1, <1>0 DEF Grown, Clock
    <3>3. CASE v # w
      <4>1. common'[w] = common[w]
        BY <3>1, <3>3 DEF FactsOK
      <4>2. \A part \in Parts : View(part, m, w)' = View(part, m, w)
        BY <2>1, <2>2, <3>3, ViewFrame
      <4> QED BY <4>1, <4>2, <3>1, <2>1, <1>0 DEF Grown, Clock, Token
    <3> QED BY <3>2, <3>3
  <2>5. CASE o # Shared
    <3>1. o = a
      BY <2>3, <2>5 DEF MayWrite
    <3>2. personal' = [personal EXCEPT ![v][a] = @ + 1] /\ common' = common
      BY <1>1, <2>5 DEF Write, Classify
    <3>3. CASE v = w /\ a = m
      <4>1. personal'[w][m] = personal[w][m] + 1
        BY <3>2, <3>3 DEF FactsOK
      <4> QED BY <4>1, <3>2, <2>1, <1>0 DEF Grown, Clock
    <3>4. CASE ~(v = w /\ a = m)
      <4>1. personal'[w][m] = personal[w][m]
        BY <3>2, <3>4 DEF FactsOK
      <4>2. \A s \in Streams : s.ws = w /\ s.owner \in {m, Shared} =>
              current'[s] = current[s]
        BY <2>2, <3>1, <3>4, <2>5
      <4>3. \A part \in Parts : View(part, m, w)' = View(part, m, w)
        BY <2>1, <4>2, ViewFrame
      <4> QED BY <4>1, <4>3, <3>2, <2>1, <1>0 DEF Grown, Clock, Token
    <3> QED BY <3>3, <3>4
  <2> QED BY <2>4, <2>5
<1>2. ASSUME NEW c \in Contents \cup {Gone}, Refresh(c)
      PROVE  Grown(m, w)
  <2>1. /\ content' = c /\ current' = current /\ personal' = personal
        /\ common' = common /\ rights' = rights
    BY <1>2 DEF Refresh
  <2>2. c # NoDigest
    BY ScopeAssumption
  <2>3. CASE source.digest = c
    <3>1. source' = source /\ content' = content
      BY <1>2, <2>1, <2>2, <2>3 DEF Refresh, Recorded, DigestHeld
    <3>2. \A part \in Parts : View(part, m, w)' = View(part, m, w)
      BY <2>1, <3>1, ViewFrame
    <3> QED BY <3>1, <3>2, <2>1, <1>0 DEF Grown, Clock, Token
  <2>4. CASE source.digest = NoDigest
    <3>1. source'.revision = source.revision /\ source'.digest = c
      BY <1>2, <2>2, <2>4 DEF Refresh, Recorded, DigestHeld
    <3> QED BY <3>1, <2>1, <2>2, <2>4, <1>0 DEF Grown, Clock
  <2>5. CASE source.digest \notin {c, NoDigest}
    <3>1. source'.revision = source.revision + 1 /\ source'.digest = c
      BY <1>2, <2>5 DEF Refresh, Recorded
    <3> QED BY <3>1, <2>1, <2>2, <2>5, <1>0 DEF Grown, Clock
  <2> QED BY <2>3, <2>4, <2>5
<1>3. ASSUME NEW v \in Workspaces, NEW a \in Members, NEW role \in Roles,
             Grant(v, a, role)
      PROVE  Grown(m, w)
  <2>1. /\ content' = content /\ current' = current /\ personal' = personal
        /\ common' = common /\ source' = source
    BY <1>3 DEF Grant
  <2>2. CASE v = w /\ a = m
    <3>1. rights'[w][m].revision = rights[w][m].revision + 1
      BY <1>3, <2>2 DEF Grant, FactsOK
    <3> QED BY <3>1, <2>1, <1>0 DEF Grown, Clock
  <2>3. CASE ~(v = w /\ a = m)
    <3>1. rights'[w][m] = rights[w][m]
      BY <1>3, <2>3 DEF Grant, FactsOK
    <3>2. \A part \in Parts : View(part, m, w)' = View(part, m, w)
      BY <2>1, <3>1, ViewFrame
    <3> QED BY <3>1, <3>2, <2>1, <1>0 DEF Grown, Clock, Token
  <2> QED BY <2>2, <2>3
<1> QED BY <1>1, <1>2, <1>3 DEF ScopeStep

(* An invariant on the parts a request has fetched survives a step of the     *)
(* scope: Held and Counted speak of a Clock that has only grown.              *)
LEMMA ScopeKeeps ==
  ASSUME IInv, ScopeStep
  PROVE  IInv'
<1>1. UNCHANGED reads
  BY DEF ScopeStep, Write
<1>2. FactsOK' /\ DigestHeld'
  BY ScopeTyped DEF IInv, ReadTypeOK
<1>3. ReadTypeOK' /\ Shaped'
  BY <1>1, <1>2 DEF IInv, ReadTypeOK, Shaped, reads
<1>4. ASSUME NEW r \in Readers
      PROVE  (Placed(r) /\ Held(r) /\ Counted(r))'
  <2>1. Placed(r) /\ Held(r) /\ Counted(r) /\ FactsOK
    BY DEF IInv, ReadTypeOK
  <2>2. CASE ask[r] = NoAsk
    <3>1. pc[r] = "idle" /\ "idle" \notin Sampled
      BY <2>2 DEF IInv, ReadTypeOK, Sampled, Parts, Ends
    <3> QED BY <1>1, <2>1, <2>2, <3>1 DEF reads, Placed, Held, Counted
  <2>3. CASE ask[r] # NoAsk
    <3>1. PICK m \in Members, w \in Workspaces : m = ask[r].by /\ w = ask[r].ws
      BY <2>3 DEF IInv, ReadTypeOK
    <3>2. Grown(m, w) /\ Clock(m, w) \in Nat /\ Clock(m, w)' \in Nat
      BY <1>2, ScopeMoves, ClockTyped DEF IInv, ReadTypeOK, FactsOK, Clock
    <3>3. /\ pc' = pc /\ before' = before /\ payload' = payload
          /\ attempt' = attempt /\ answer' = answer /\ started' = started
          /\ ask' = ask /\ m = ask'[r].by /\ w = ask'[r].ws
      BY <1>1, <3>1 DEF reads
    <3>4. /\ Clock(ask[r].by, ask[r].ws)' = Clock(m, w)'
          /\ Token(ask[r].by, ask[r].ws)' = Token(m, w)'
          /\ ClockOf(before[r])' = ClockOf(before[r])
          /\ \A part \in Parts :
               View(part, ask[r].by, ask[r].ws)' = View(part, m, w)'
      BY <3>3 DEF Clock, ClockOf, Token, View, Archives, Own, Shown
    <3>5. Held(r)'
      <4>1. SUFFICES ASSUME pc[r] \in Sampled PROVE Held(r)'
        BY <3>3 DEF Held
      <4>2. ClockOf(before[r]) \in Nat /\ ClockOf(before[r]) <= Clock(m, w)'
        BY <2>1, <3>1, <3>2, <4>1 DEF Held, Grown
      <4>3. ASSUME ClockOf(before[r]) = Clock(m, w)'
            PROVE  /\ before[r] = Token(m, w)'
                   /\ \A part \in Parts :
                        Got(ask[r].kind, pc[r], part) =>
                          payload[r][part] = View(part, m, w)'
        <5>1. Clock(m, w)' = Clock(m, w) /\ ClockOf(before[r]) = Clock(m, w)
          BY <2>1, <3>1, <3>2, <4>1, <4>3 DEF Held, Grown
        <5> QED BY <2>1, <3>1, <3>2, <4>1, <5>1 DEF Held, Grown
      <4> QED BY <3>3, <3>4, <4>2, <4>3 DEF Held
    <3>6. Counted(r)'
      BY <2>1, <2>3, <3>1, <3>2, <3>3, <3>4
         DEF Counted, Grown, IInv, ReadTypeOK
    <3> QED BY <2>1, <3>3, <3>5, <3>6 DEF Placed
  <2> QED BY <2>2, <2>3
<1> QED BY <1>2, <1>3, <1>4 DEF IInv
-----------------------------------------------------------------------------
(* Steps of the readers.                                                      *)

(* The order of each route, spelt out.                                        *)
LEMMA Orders ==
  /\ Following["city"]["before"] = "archive"
  /\ Following["city"]["archive"] = "selection"
  /\ Following["city"]["selection"] = "signals"
  /\ Following["city"]["signals"] = "after"
  /\ Following["search"]["before"] = "signals"
  /\ Following["search"]["signals"] = "selection"
  /\ Following["search"]["selection"] = "archive"
  /\ Following["search"]["archive"] = "after"
  /\ Following["state"]["before"] = "selection"
  /\ Following["state"]["selection"] = "archive"
  /\ Following["state"]["archive"] = "signals"
  /\ Following["state"]["signals"] = "after"
BY DEF Following

(* A request moves its own row of each table and no fact.                     *)
Kept(q) ==
  /\ ask'[q] = ask[q] /\ pc'[q] = pc[q] /\ attempt'[q] = attempt[q]
  /\ before'[q] = before[q] /\ payload'[q] = payload[q]
  /\ answer'[q] = answer[q] /\ started'[q] = started[q]

\* A request that moves leaves the others and the facts as they are.
LEMMA OthersKept ==
  ASSUME NEW r \in Readers, Step(r), IInv, NEW q \in Readers, q # r
  PROVE  Kept(q) /\ UNCHANGED facts
<1>1. ASSUME Receive(r)
      PROVE  Kept(q) /\ UNCHANGED facts
  BY <1>1 DEF Receive, Goto, Answer, Forbid, Forget, Retry, Keep, Kept, IInv,
     ReadTypeOK, Shaped
<1>2. ASSUME ReadCatalog(r)
      PROVE  Kept(q) /\ UNCHANGED facts
  BY <1>2 DEF ReadCatalog, Goto, Answer, Forbid, Forget, Retry, Keep, Kept, IInv,
     ReadTypeOK, Shaped
<1>3. ASSUME SampleBefore(r)
      PROVE  Kept(q) /\ UNCHANGED facts
  BY <1>3 DEF SampleBefore, Goto, Answer, Forbid, Forget, Retry, Keep, Kept, IInv,
     ReadTypeOK, Shaped
<1>4. ASSUME NEW part \in Parts, Fetch(r, part)
      PROVE  Kept(q) /\ UNCHANGED facts
  BY <1>4 DEF Fetch, Goto, Answer, Forbid, Forget, Retry, Keep, Kept, IInv,
     ReadTypeOK, Shaped
<1>5. ASSUME SampleAfter(r)
      PROVE  Kept(q) /\ UNCHANGED facts
  BY <1>5 DEF SampleAfter, Goto, Answer, Forbid, Forget, Retry, Keep, Kept, IInv,
     ReadTypeOK, Shaped
<1>6. ASSUME ReadAgain(r)
      PROVE  Kept(q) /\ UNCHANGED facts
  BY <1>6 DEF ReadAgain, Goto, Answer, Forbid, Forget, Retry, Keep, Kept, IInv,
     ReadTypeOK, Shaped
<1>7. ASSUME SampleFinal(r)
      PROVE  Kept(q) /\ UNCHANGED facts
  BY <1>7 DEF SampleFinal, Goto, Answer, Forbid, Forget, Retry, Keep, Kept, IInv,
     ReadTypeOK, Shaped
<1> QED BY <1>1, <1>2, <1>3, <1>4, <1>5, <1>6, <1>7 DEF Step

(* The types of what a request is told and of where it goes.                  *)
LEMMA StepTyped ==
  ASSUME NEW r \in Readers, Step(r), IInv
  PROVE  ReadTypeOK' /\ DigestHeld' /\ Shaped'
<1> USE Orders
<1>0. /\ FactsOK /\ DigestHeld /\ Placed(r)
      /\ ask[r] # NoAsk => /\ ask[r].kind \in {"city", "search", "state"}
                           /\ ask[r].by \in Members /\ ask[r].ws \in Workspaces
      /\ ask \in [Readers ->
           [by: Members, ws: Workspaces, kind: Kinds] \cup {NoAsk}]
      /\ pc \in [Readers -> Pcs] /\ attempt \in [Readers -> 0..3]
      /\ catalog \in [Readers -> Versions] /\ answer \in [Readers -> Codes]
      /\ started \in [Readers -> Nat]
      /\ \A q \in Readers : pc[q] = "idle" <=> ask[q] = NoAsk
  BY DEF IInv, ReadTypeOK, Kinds
<1>1. ASSUME Receive(r)
      PROVE  ReadTypeOK' /\ DigestHeld' /\ Shaped'
  <2>1. UNCHANGED facts
    BY <1>1 DEF Receive
  <2>2. FactsOK' /\ DigestHeld'
    BY <1>0, <2>1 DEF facts, FactsOK, DigestHeld, Streams, Roles, Entries
  <2>3. Shaped'
    BY <1>1 DEF Receive, Goto, Answer, Forbid, Forget, Retry, Keep, IInv, Shaped,
       Nothing
  <2>4. PICK m \in Members, w \in Workspaces, kind \in Kinds :
          /\ ask' = [ask EXCEPT ![r] = [by |-> m, ws |-> w, kind |-> kind]]
          /\ pc' = [pc EXCEPT ![r] = First(kind)]
          /\ started' = [started EXCEPT ![r] = Clock(m, w)]
    BY <1>1 DEF Receive
  <2>5. ask' \in [Readers ->
          [by: Members, ws: Workspaces, kind: Kinds] \cup {NoAsk}]
    BY <1>0, <2>4
  <2>6. pc' \in [Readers -> Pcs]
    BY <1>0, <2>4 DEF First, Pcs
  <2>7. \A q \in Readers : pc'[q] = "idle" <=> ask'[q] = NoAsk
    BY <1>0, <2>4, AskAssumption DEF First
  <2>8. started' \in [Readers -> Nat]
    BY <1>0, <2>4, ClockTyped
  <2>9. attempt' \in [Readers -> 0..3]
    BY <1>1, <1>0 DEF Receive, Goto, Answer, Forbid, Forget, Retry, Keep, Attempts
  <2>10. catalog' \in [Readers -> Versions]
    BY <1>1, <1>0 DEF Receive, Goto, Answer, Forbid, Forget, Retry, Keep, Versions
  <2>11. answer' \in [Readers -> Codes]
    BY <1>1, <1>0 DEF Receive, Goto, Answer, Forbid, Forget, Retry, Keep, Codes
  <2> QED BY <2>2, <2>3, <2>5, <2>6, <2>7, <2>8, <2>9, <2>10, <2>11
          DEF ReadTypeOK
<1>2. ASSUME ReadCatalog(r)
      PROVE  ReadTypeOK' /\ DigestHeld' /\ Shaped'
  <2>1. UNCHANGED facts
    BY <1>2 DEF ReadCatalog
  <2>2. FactsOK' /\ DigestHeld'
    BY <1>0, <2>1 DEF facts, FactsOK, DigestHeld, Streams, Roles, Entries
  <2>3. Shaped'
    BY <1>2 DEF ReadCatalog, Goto, Answer, Forbid, Forget, Retry, Keep, IInv, Shaped,
       Nothing
  <2>4. ask' = ask /\ started' = started
    BY <1>2 DEF ReadCatalog, Goto, Answer, Forbid, Forget, Retry, Keep
  <2>5. pc[r] # "idle" /\ ask[r] # NoAsk
    BY <1>2, <1>0 DEF ReadCatalog, Parts
  <2>6. pc' \in [Readers -> Pcs]
    BY <1>2, <1>0, <2>5 DEF ReadCatalog, Goto, Answer, Forbid, Forget, Retry, Keep,
       First, Pcs, Parts, Placed
  <2>7. \A q \in Readers : pc'[q] = "idle" <=> ask'[q] = NoAsk
    BY <1>2, <1>0, <2>4, <2>5
       DEF ReadCatalog, Goto, Answer, Forbid, Forget, Retry, Keep, First, Parts, Placed
  <2>8. ask' \in [Readers ->
          [by: Members, ws: Workspaces, kind: Kinds] \cup {NoAsk}]
        /\ started' \in [Readers -> Nat]
    BY <1>0, <2>4
  <2>9. attempt' \in [Readers -> 0..3]
    BY <1>2, <1>0 DEF ReadCatalog, Goto, Answer, Forbid, Forget, Retry, Keep, Attempts
  <2>10. catalog' \in [Readers -> Versions]
    BY <1>2, <1>0 DEF ReadCatalog, Goto, Answer, Forbid, Forget, Retry, Keep, Versions
  <2>11. answer' \in [Readers -> Codes]
    BY <1>2, <1>0 DEF ReadCatalog, Goto, Answer, Forbid, Forget, Retry, Keep, Codes
  <2> QED BY <2>2, <2>3, <2>5, <2>6, <2>7, <2>8, <2>9, <2>10, <2>11
          DEF ReadTypeOK
<1>3. ASSUME SampleBefore(r)
      PROVE  ReadTypeOK' /\ DigestHeld' /\ Shaped'
  <2>1. UNCHANGED facts
    BY <1>3 DEF SampleBefore
  <2>2. FactsOK' /\ DigestHeld'
    BY <1>0, <2>1 DEF facts, FactsOK, DigestHeld, Streams, Roles, Entries
  <2>3. Shaped'
    <3>1. payload' = payload \/ payload' = [payload EXCEPT ![r] = Nothing]
      BY <1>3 DEF SampleBefore, Goto, Answer, Forbid, Forget, Retry, Keep
    <3>2. \E t : before' = [before EXCEPT ![r] = t]
      BY <1>3 DEF SampleBefore, Goto, Answer, Forbid, Forget, Retry, Keep
    <3>3. before' = [q \in Readers |-> before'[q]]
      BY <3>2 DEF IInv, Shaped
    <3>4. payload' = [q \in Readers |-> [part \in Parts |-> payload'[q][part]]]
      BY <3>1 DEF IInv, Shaped, Nothing
    <3> QED BY <3>3, <3>4 DEF Shaped
  <2>4. ask' = ask /\ started' = started
    BY <1>3 DEF SampleBefore, Goto, Answer, Forbid, Forget, Retry, Keep
  <2>5. pc[r] # "idle" /\ ask[r] # NoAsk
    BY <1>3, <1>0 DEF SampleBefore, Parts
  <2>6. pc' \in [Readers -> Pcs]
    BY <1>3, <1>0, <2>5 DEF SampleBefore, Goto, Answer, Forbid, Forget, Retry, Keep,
       First, Pcs, Parts, Placed
  <2>7. \A q \in Readers : pc'[q] = "idle" <=> ask'[q] = NoAsk
    BY <1>3, <1>0, <2>4, <2>5
       DEF SampleBefore, Goto, Answer, Forbid, Forget, Retry, Keep, First, Parts, Placed
  <2>8. ask' \in [Readers ->
          [by: Members, ws: Workspaces, kind: Kinds] \cup {NoAsk}]
        /\ started' \in [Readers -> Nat]
    BY <1>0, <2>4
  <2>9. attempt' \in [Readers -> 0..3]
    BY <1>3, <1>0 DEF SampleBefore, Goto, Answer, Forbid, Forget, Retry, Keep, Attempts
  <2>10. catalog' \in [Readers -> Versions]
    BY <1>3, <1>0 DEF SampleBefore, Goto, Answer, Forbid, Forget, Retry, Keep, Versions
  <2>11. answer' \in [Readers -> Codes]
    BY <1>3, <1>0 DEF SampleBefore, Goto, Answer, Forbid, Forget, Retry, Keep, Codes
  <2> QED BY <2>2, <2>3, <2>5, <2>6, <2>7, <2>8, <2>9, <2>10, <2>11
          DEF ReadTypeOK
<1>4. ASSUME NEW part \in Parts, Fetch(r, part)
      PROVE  ReadTypeOK' /\ DigestHeld' /\ Shaped'
  <2>1. UNCHANGED facts
    BY <1>4 DEF Fetch
  <2>2. FactsOK' /\ DigestHeld'
    BY <1>0, <2>1 DEF facts, FactsOK, DigestHeld, Streams, Roles, Entries
  <2>3. Shaped'
    BY <1>4 DEF Fetch, Goto, Answer, Forbid, Forget, Retry, Keep, IInv, Shaped, Nothing
  <2>4. ask' = ask /\ started' = started
    BY <1>4 DEF Fetch, Goto, Answer, Forbid, Forget, Retry, Keep
  <2>5. pc[r] # "idle" /\ ask[r] # NoAsk
    BY <1>4, <1>0 DEF Fetch, Parts
  <2>6. pc' \in [Readers -> Pcs]
    BY <1>4, <1>0, <2>5 DEF Fetch, Goto, Answer, Forbid, Forget, Retry, Keep, First,
       Pcs, Parts, Placed
  <2>7. \A q \in Readers : pc'[q] = "idle" <=> ask'[q] = NoAsk
    BY <1>4, <1>0, <2>4, <2>5
       DEF Fetch, Goto, Answer, Forbid, Forget, Retry, Keep, First, Parts, Placed
  <2>8. ask' \in [Readers ->
          [by: Members, ws: Workspaces, kind: Kinds] \cup {NoAsk}]
        /\ started' \in [Readers -> Nat]
    BY <1>0, <2>4
  <2>9. attempt' \in [Readers -> 0..3]
    BY <1>4, <1>0 DEF Fetch, Goto, Answer, Forbid, Forget, Retry, Keep, Attempts
  <2>10. catalog' \in [Readers -> Versions]
    BY <1>4, <1>0 DEF Fetch, Goto, Answer, Forbid, Forget, Retry, Keep, Versions
  <2>11. answer' \in [Readers -> Codes]
    BY <1>4, <1>0 DEF Fetch, Goto, Answer, Forbid, Forget, Retry, Keep, Codes
  <2> QED BY <2>2, <2>3, <2>5, <2>6, <2>7, <2>8, <2>9, <2>10, <2>11
          DEF ReadTypeOK
<1>5. ASSUME SampleAfter(r)
      PROVE  ReadTypeOK' /\ DigestHeld' /\ Shaped'
  <2>1. UNCHANGED facts
    BY <1>5 DEF SampleAfter
  <2>2. FactsOK' /\ DigestHeld'
    BY <1>0, <2>1 DEF facts, FactsOK, DigestHeld, Streams, Roles, Entries
  <2>3. Shaped'
    BY <1>5 DEF SampleAfter, Goto, Answer, Forbid, Forget, Retry, Keep, IInv, Shaped,
       Nothing
  <2>4. ask' = ask /\ started' = started
    BY <1>5 DEF SampleAfter, Goto, Answer, Forbid, Forget, Retry, Keep
  <2>5. pc[r] # "idle" /\ ask[r] # NoAsk
    BY <1>5, <1>0 DEF SampleAfter, Parts
  <2>6. pc' \in [Readers -> Pcs]
    BY <1>5, <1>0, <2>5 DEF SampleAfter, Goto, Answer, Forbid, Forget, Retry, Keep,
       First, Pcs, Parts, Placed
  <2>7. \A q \in Readers : pc'[q] = "idle" <=> ask'[q] = NoAsk
    BY <1>5, <1>0, <2>4, <2>5
       DEF SampleAfter, Goto, Answer, Forbid, Forget, Retry, Keep, First, Parts, Placed
  <2>8. ask' \in [Readers ->
          [by: Members, ws: Workspaces, kind: Kinds] \cup {NoAsk}]
        /\ started' \in [Readers -> Nat]
    BY <1>0, <2>4
  <2>9. attempt' \in [Readers -> 0..3]
    BY <1>5, <1>0 DEF SampleAfter, Goto, Answer, Forbid, Forget, Retry, Keep, Attempts
  <2>10. catalog' \in [Readers -> Versions]
    BY <1>5, <1>0 DEF SampleAfter, Goto, Answer, Forbid, Forget, Retry, Keep, Versions
  <2>11. answer' \in [Readers -> Codes]
    BY <1>5, <1>0 DEF SampleAfter, Goto, Answer, Forbid, Forget, Retry, Keep, Codes
  <2> QED BY <2>2, <2>3, <2>5, <2>6, <2>7, <2>8, <2>9, <2>10, <2>11
          DEF ReadTypeOK
<1>6. ASSUME ReadAgain(r)
      PROVE  ReadTypeOK' /\ DigestHeld' /\ Shaped'
  <2>1. UNCHANGED facts
    BY <1>6 DEF ReadAgain
  <2>2. FactsOK' /\ DigestHeld'
    BY <1>0, <2>1 DEF facts, FactsOK, DigestHeld, Streams, Roles, Entries
  <2>3. Shaped'
    BY <1>6 DEF ReadAgain, Goto, Answer, Forbid, Forget, Retry, Keep, IInv, Shaped,
       Nothing
  <2>4. ask' = ask /\ started' = started
    BY <1>6 DEF ReadAgain, Goto, Answer, Forbid, Forget, Retry, Keep
  <2>5. pc[r] # "idle" /\ ask[r] # NoAsk
    BY <1>6, <1>0 DEF ReadAgain, Parts
  <2>6. pc' \in [Readers -> Pcs]
    BY <1>6, <1>0, <2>5 DEF ReadAgain, Goto, Answer, Forbid, Forget, Retry, Keep,
       First, Pcs, Parts, Placed
  <2>7. \A q \in Readers : pc'[q] = "idle" <=> ask'[q] = NoAsk
    BY <1>6, <1>0, <2>4, <2>5
       DEF ReadAgain, Goto, Answer, Forbid, Forget, Retry, Keep, First, Parts, Placed
  <2>8. ask' \in [Readers ->
          [by: Members, ws: Workspaces, kind: Kinds] \cup {NoAsk}]
        /\ started' \in [Readers -> Nat]
    BY <1>0, <2>4
  <2>9. attempt' \in [Readers -> 0..3]
    BY <1>6, <1>0 DEF ReadAgain, Goto, Answer, Forbid, Forget, Retry, Keep, Attempts
  <2>10. catalog' \in [Readers -> Versions]
    BY <1>6, <1>0 DEF ReadAgain, Goto, Answer, Forbid, Forget, Retry, Keep, Versions
  <2>11. answer' \in [Readers -> Codes]
    BY <1>6, <1>0 DEF ReadAgain, Goto, Answer, Forbid, Forget, Retry, Keep, Codes
  <2> QED BY <2>2, <2>3, <2>5, <2>6, <2>7, <2>8, <2>9, <2>10, <2>11
          DEF ReadTypeOK
<1>7. ASSUME SampleFinal(r)
      PROVE  ReadTypeOK' /\ DigestHeld' /\ Shaped'
  <2>1. UNCHANGED facts
    BY <1>7 DEF SampleFinal
  <2>2. FactsOK' /\ DigestHeld'
    BY <1>0, <2>1 DEF facts, FactsOK, DigestHeld, Streams, Roles, Entries
  <2>3. Shaped'
    <3>1. payload' = payload \/ payload' = [payload EXCEPT ![r] = Nothing]
      BY <1>7 DEF SampleFinal, Goto, Answer, Forbid, Forget, Retry, Keep
    <3>2. before' = before \/ before' = [before EXCEPT ![r] = NoAsk]
      BY <1>7 DEF SampleFinal, Goto, Answer, Forbid, Forget, Retry, Keep
    <3>3. before' = [q \in Readers |-> before'[q]]
      BY <3>2 DEF IInv, Shaped
    <3>4. payload' = [q \in Readers |-> [part \in Parts |-> payload'[q][part]]]
      BY <3>1 DEF IInv, Shaped, Nothing
    <3> QED BY <3>3, <3>4 DEF Shaped
  <2>4. ask' = ask /\ started' = started
    BY <1>7 DEF SampleFinal, Goto, Answer, Forbid, Forget, Retry, Keep
  <2>5. pc[r] # "idle" /\ ask[r] # NoAsk
    BY <1>7, <1>0 DEF SampleFinal, Parts
  <2>6. pc' \in [Readers -> Pcs]
    BY <1>7, <1>0, <2>5 DEF SampleFinal, Goto, Answer, Forbid, Forget, Retry, Keep,
       First, Pcs, Parts, Placed
  <2>7. \A q \in Readers : pc'[q] = "idle" <=> ask'[q] = NoAsk
    BY <1>7, <1>0, <2>4, <2>5
       DEF SampleFinal, Goto, Answer, Forbid, Forget, Retry, Keep, First, Parts, Placed
  <2>8. ask' \in [Readers ->
          [by: Members, ws: Workspaces, kind: Kinds] \cup {NoAsk}]
        /\ started' \in [Readers -> Nat]
    BY <1>0, <2>4
  <2>9. attempt' \in [Readers -> 0..3]
    BY <1>7, <1>0 DEF SampleFinal, Goto, Answer, Forbid, Forget, Retry, Keep, Attempts
  <2>10. catalog' \in [Readers -> Versions]
    BY <1>7, <1>0 DEF SampleFinal, Goto, Answer, Forbid, Forget, Retry, Keep, Versions
  <2>11. answer' \in [Readers -> Codes]
    BY <1>7, <1>0 DEF SampleFinal, Goto, Answer, Forbid, Forget, Retry, Keep, Codes
  <2> QED BY <2>2, <2>3, <2>5, <2>6, <2>7, <2>8, <2>9, <2>10, <2>11
          DEF ReadTypeOK
<1> QED BY <1>1, <1>2, <1>3, <1>4, <1>5, <1>6, <1>7 DEF Step

(* A request that ends without a payload, and one that starts again: its      *)
(* attempt was spent on a Clock that has moved.                               *)
LEMMA ForbidKeeps ==
  ASSUME IInv, NEW r \in Readers, Forbid(r)
  PROVE  (Placed(r) /\ Held(r) /\ Counted(r))'
<1>1. pc'[r] = "done" /\ answer'[r] = "workspace_membership_required"
  BY DEF Forbid, Answer, IInv, ReadTypeOK
<1> QED BY <1>1 DEF Placed, Held, Counted, Sampled, Parts, Ends

\* An attempt that ends on a drift was charged a move of the clock.
LEMMA RetryKeeps ==
  ASSUME IInv, NEW r \in Readers, UNCHANGED facts, Retry(r), pc[r] \in Ends,
         ask[r].kind = "city" => ~Steady(r)
  PROVE  (Placed(r) /\ Held(r) /\ Counted(r))'
<1>0. /\ Placed(r) /\ Held(r) /\ Counted(r) /\ ask[r] # NoAsk
      /\ ask[r] \in [by: Members, ws: Workspaces, kind: Kinds]
      /\ attempt[r] \in 0..3 /\ started[r] \in Nat
      /\ answer[r] = "none"
  BY DEF IInv, ReadTypeOK, Placed, Ends
<1>1. PICK m \in Members, w \in Workspaces : m = ask[r].by /\ w = ask[r].ws
  BY <1>0
<1>2. /\ ask' = ask /\ started' = started
      /\ pc'[r] \in {"before", "catalog", "done"}
      /\ pc'[r] = "catalog" => ask[r].kind # "city"
  BY DEF Retry, Answer, First, IInv, ReadTypeOK
<1>3. Clock(m, w) \in Nat /\ Clock(m, w)' = Clock(m, w)
  BY ClockTyped DEF IInv, ReadTypeOK, facts, Clock
<1>4. Clock(ask[r].by, ask[r].ws)' = Clock(m, w)'
  BY <1>1, <1>2 DEF Clock
<1>5. Held(r)'
  BY <1>2 DEF Held, Sampled, Parts, Ends
<1>6. ask[r].kind = "city" => started[r] + attempt[r] <= Clock(m, w)
  <2>1. SUFFICES ASSUME ask[r].kind = "city"
                 PROVE  started[r] + attempt[r] <= Clock(m, w)
    OBVIOUS
  <2>2. /\ started[r] + attempt[r] <= ClockOf(before[r]) + 1
        /\ ClockOf(before[r]) \in Nat /\ ClockOf(before[r]) <= Clock(m, w)
    BY <1>0, <1>1, <2>1 DEF Counted, Held, Sampled
  <2>3. before[r] # Token(m, w)
    BY <1>1, <2>1 DEF Steady
  <2>4. ClockOf(before[r]) # Clock(m, w)
    BY <1>0, <1>1, <2>3 DEF Held, Sampled
  <2> QED BY <1>0, <1>3, <2>2, <2>4
<1>7. CASE attempt[r] < Attempts
  <2>1. /\ attempt'[r] = attempt[r] + 1 /\ answer' = answer
        /\ pc'[r] = First(ask[r].kind)
    BY <1>7 DEF Retry, IInv, ReadTypeOK
  <2>2. Placed(r)'
    BY <1>0, <1>2, <2>1 DEF Placed, First, Parts
  <2>3. Counted(r)'
    BY <1>0, <1>2, <1>3, <1>4, <1>6, <2>1
       DEF Counted, First, Sampled, Parts, Ends
  <2> QED BY <1>5, <2>2, <2>3
<1>8. CASE ~(attempt[r] < Attempts)
  <2>1. /\ attempt' = attempt /\ pc'[r] = "done"
        /\ answer'[r] = "projection_revision_unstable"
    BY <1>8 DEF Retry, Answer, IInv, ReadTypeOK
  <2>2. attempt[r] = 3
    BY <1>0, <1>8 DEF Attempts
  <2>3. Counted(r)'
    BY <1>0, <1>2, <1>3, <1>4, <1>6, <2>1, <2>2
       DEF Counted, Sampled, Parts, Ends
  <2>4. Placed(r)'
    BY <2>1 DEF Placed, Parts
  <2> QED BY <1>5, <2>3, <2>4
<1> QED BY <1>7, <1>8

(* What a request has fetched is still what its viewer is shown, or its first *)
(* sample is out of date.                                                     *)
LEMMA StepKeeps ==
  ASSUME IInv, NEW r \in Readers, Step(r)
  PROVE  (Placed(r) /\ Held(r) /\ Counted(r))'
<1> USE Orders
<1>0. /\ Placed(r) /\ Held(r) /\ Counted(r) /\ FactsOK
      /\ ask[r] # NoAsk =>
           /\ ask[r] \in [by: Members, ws: Workspaces, kind: Kinds]
           /\ ask[r].kind \in {"city", "search", "state"}
      /\ pc[r] # "idle" => ask[r] # NoAsk
      /\ attempt[r] \in 0..3 /\ started[r] \in Nat
  BY DEF IInv, ReadTypeOK, Kinds
<1>1. CASE Receive(r)
  <2>1. PICK m \in Members, w \in Workspaces, kind \in Kinds :
          /\ ask' = [ask EXCEPT ![r] = [by |-> m, ws |-> w, kind |-> kind]]
          /\ pc' = [pc EXCEPT ![r] = First(kind)]
          /\ started' = [started EXCEPT ![r] = Clock(m, w)]
    BY <1>1 DEF Receive
  <2>2. /\ ask'[r] = [by |-> m, ws |-> w, kind |-> kind]
        /\ pc'[r] = First(kind) /\ started'[r] = Clock(m, w)
        /\ attempt'[r] = 1 /\ answer' = answer /\ UNCHANGED facts
    BY <1>1, <2>1 DEF Receive, IInv, ReadTypeOK
  <2>3. answer'[r] = "none"
    BY <1>0, <1>1, <2>2 DEF Receive, Placed
  <2>4. Clock(ask[r].by, ask[r].ws)' = Clock(m, w) /\ Clock(m, w) \in Nat
    BY <1>0, <2>2, ClockTyped DEF Clock, facts
  <2>5. Placed(r)' /\ Held(r)'
    BY <2>2, <2>3 DEF Placed, Held, First, Sampled, Parts, Ends, Kinds
  <2>6. Counted(r)'
    BY <2>2, <2>3, <2>4 DEF Counted, First, Sampled, Parts, Ends
  <2> QED BY <2>5, <2>6
<1>2. ASSUME pc[r] # "idle", UNCHANGED facts, ask' = ask
      PROVE  \E m \in Members, w \in Workspaces :
        /\ m = ask[r].by /\ w = ask[r].ws
        /\ Clock(m, w) \in Nat
        /\ Clock(ask[r].by, ask[r].ws)' = Clock(m, w)
        /\ Token(ask[r].by, ask[r].ws)' = Token(m, w)
        /\ \A part \in Parts :
             View(part, ask[r].by, ask[r].ws)' = View(part, m, w)
  <2>1. PICK m \in Members, w \in Workspaces : m = ask[r].by /\ w = ask[r].ws
    BY <1>0, <1>2
  <2>2. m = ask'[r].by /\ w = ask'[r].ws
    BY <1>2, <2>1
  <2>3. \A part \in Parts : View(part, m, w)' = View(part, m, w)
    BY <1>2, ViewFrame DEF facts
  <2>4. \A part \in Parts :
          View(part, ask[r].by, ask[r].ws)' = View(part, m, w)'
    BY <2>2 DEF View, Archives, Own, Shown
  <2> QED BY <1>0, <1>2, <2>1, <2>2, <2>3, <2>4, ClockTyped
          DEF Clock, Token, facts
<1>3. CASE ReadCatalog(r)
  <2>1. CASE Authorized(r)
    <3>1. /\ ask' = ask /\ answer' = answer /\ pc'[r] = "before"
          /\ pc[r] = "catalog"
      BY <1>3, <2>1 DEF ReadCatalog, Goto, IInv, ReadTypeOK
    <3>2. ask[r].kind # "city" /\ answer[r] = "none"
      BY <1>0, <3>1 DEF Placed
    <3> QED BY <3>1, <3>2
            DEF Placed, Held, Counted, Sampled, Parts, Ends
  <2> QED BY <1>3, <2>1, ForbidKeeps DEF ReadCatalog
<1>4. CASE SampleBefore(r)
  <2>1. CASE Authorized(r)
    <3>1. /\ ask' = ask /\ answer' = answer /\ UNCHANGED facts
          /\ attempt' = attempt /\ started' = started
          /\ pc[r] = "before"
          /\ pc'[r] = Following[ask[r].kind]["before"]
          /\ before' = [before EXCEPT ![r] = Token(ask[r].by, ask[r].ws)]
      BY <1>4, <2>1 DEF SampleBefore, Goto, IInv, ReadTypeOK
    <3>2. PICK m \in Members, w \in Workspaces :
            /\ m = ask[r].by /\ w = ask[r].ws
            /\ Clock(m, w) \in Nat
            /\ Clock(ask[r].by, ask[r].ws)' = Clock(m, w)
            /\ Token(ask[r].by, ask[r].ws)' = Token(m, w)
      BY <1>2, <3>1
    <3>3. before'[r] = Token(m, w)
      BY <3>1, <3>2 DEF IInv, Shaped
    <3>4. ClockOf(before'[r]) = Clock(m, w)
      BY <3>3 DEF ClockOf, Token, Clock
    <3>5. /\ pc'[r] \in Parts
          /\ \A part \in Parts :
               ~Got(ask[r].kind, pc'[r], part)
          /\ answer[r] = "none"
      BY <1>0, <3>1 DEF Got, Parts, Ends, Placed
    <3>6. Placed(r)'
      BY <3>1, <3>5 DEF Placed, Parts
    <3>7. ClockOf(before[r])' = Clock(m, w)
      BY <3>4 DEF ClockOf
    <3>8. Held(r)'
      BY <3>1, <3>2, <3>3, <3>5, <3>7 DEF Held
    <3>9. Counted(r)'
      BY <1>0, <3>1, <3>2, <3>5, <3>7 DEF Counted, Parts
    <3> QED BY <3>6, <3>8, <3>9
  <2> QED BY <1>4, <2>1, ForbidKeeps DEF SampleBefore
<1>5. ASSUME NEW part \in Parts, Fetch(r, part)
      PROVE  (Placed(r) /\ Held(r) /\ Counted(r))'
  <2>1. CASE ~(part # "signals" /\ ~Authorized(r))
    <3>1. /\ ask' = ask /\ answer' = answer /\ UNCHANGED facts
          /\ attempt' = attempt /\ started' = started /\ before' = before
          /\ pc[r] = part
          /\ pc'[r] = Following[ask[r].kind][part]
          /\ payload' = [payload EXCEPT
               ![r][part] = View(part, ask[r].by, ask[r].ws)]
      BY <1>5, <2>1 DEF Fetch, Goto, IInv, ReadTypeOK
    <3>2. PICK m \in Members, w \in Workspaces :
            /\ m = ask[r].by /\ w = ask[r].ws
            /\ Clock(m, w) \in Nat
            /\ Clock(ask[r].by, ask[r].ws)' = Clock(m, w)
            /\ Token(ask[r].by, ask[r].ws)' = Token(m, w)
            /\ \A q \in Parts :
                 View(q, ask[r].by, ask[r].ws)' = View(q, m, w)
      BY <1>2, <3>1 DEF Parts
    <3>3. /\ payload'[r][part] = View(part, m, w)
          /\ \A q \in Parts \ {part} : payload'[r][q] = payload[r][q]
      BY <3>1, <3>2 DEF IInv, Shaped
    <3>4. /\ answer[r] = "none"
          /\ pc[r] \in Sampled /\ ask[r] # NoAsk
      BY <1>0, <3>1 DEF Placed, Sampled, Parts
    <3>5. /\ pc'[r] \in Parts \cup {"after"}
          /\ \A q \in Parts :
               Got(ask[r].kind, pc'[r], q) =>
                 q = part \/ Got(ask[r].kind, part, q)
      BY <1>0, <3>1, <3>4 DEF Got, Parts, Ends
    <3>6. Placed(r)'
      BY <1>0, <3>1, <3>4, <3>5 DEF Placed, Parts
    <3>7. ClockOf(before[r])' = ClockOf(before[r])
      BY <3>1 DEF ClockOf
    <3>8. Held(r)'
      <4>1. ClockOf(before[r]) \in Nat /\ ClockOf(before[r]) <= Clock(m, w)
        BY <1>0, <3>2, <3>4 DEF Held
      <4>2. ASSUME ClockOf(before[r]) = Clock(m, w)
            PROVE  /\ before[r] = Token(m, w)
                   /\ \A q \in Parts :
                        Got(ask[r].kind, pc'[r], q) =>
                          payload'[r][q] = View(q, m, w)
        <5>1. /\ before[r] = Token(m, w)
              /\ \A q \in Parts :
                   Got(ask[r].kind, part, q) => payload[r][q] = View(q, m, w)
          BY <1>0, <3>1, <3>2, <3>4, <4>2 DEF Held
        <5> QED BY <3>3, <3>5, <5>1
      <4> QED BY <3>1, <3>2, <3>7, <4>1, <4>2 DEF Held
    <3>9. Counted(r)'
      BY <1>0, <3>1, <3>2, <3>4, <3>5, <3>7
         DEF Counted, Sampled, Parts, Ends
    <3> QED BY <3>6, <3>8, <3>9
  <2> QED BY <1>5, <2>1, ForbidKeeps DEF Fetch
<1>6. ASSUME pc[r] \in {"after", "again"}, UNCHANGED facts,
             NEW next \in {"again", "final", "drifted"}, ask[r].kind # "city",
             Goto(r, next), Keep
      PROVE  (Placed(r) /\ Held(r) /\ Counted(r))'
  <2>1. /\ ask' = ask /\ answer' = answer /\ before' = before
        /\ payload' = payload /\ pc'[r] = next
    BY <1>6 DEF Goto, Keep, IInv, ReadTypeOK
  <2>2. PICK m \in Members, w \in Workspaces :
          /\ m = ask[r].by /\ w = ask[r].ws
          /\ Clock(m, w) \in Nat
          /\ Clock(ask[r].by, ask[r].ws)' = Clock(m, w)
          /\ Token(ask[r].by, ask[r].ws)' = Token(m, w)
          /\ \A q \in Parts :
               View(q, ask[r].by, ask[r].ws)' = View(q, m, w)
    BY <1>2, <1>6, <2>1
  <2>3. /\ pc[r] \in Sampled /\ pc'[r] \in Sampled
        /\ \A q : Got(ask[r].kind, pc[r], q) /\ Got(ask[r].kind, pc'[r], q)
    BY <1>6, <2>1 DEF Sampled, Ends, Got
  <2>4. ClockOf(before[r])' = ClockOf(before[r])
    BY <2>1 DEF ClockOf
  <2>5. Held(r)'
    BY <1>0, <2>1, <2>2, <2>3, <2>4 DEF Held
  <2>6. Placed(r)' /\ Counted(r)'
    BY <1>0, <1>6, <2>1 DEF Placed, Counted, Parts
  <2> QED BY <2>5, <2>6
<1>7. ASSUME Answer(r, "ok")
      PROVE  (Placed(r) /\ Held(r) /\ Counted(r))'
  <2>1. pc'[r] = "done" /\ answer'[r] = "ok"
    BY <1>7 DEF Answer, IInv, ReadTypeOK
  <2> QED BY <2>1 DEF Placed, Held, Counted, Sampled, Parts, Ends
<1>8. CASE SampleAfter(r)
  <2>1. pc[r] = "after" /\ UNCHANGED facts /\ pc[r] \in Ends
    BY <1>8 DEF SampleAfter, Ends
  <2>2. CASE ~Authorized(r)
    BY <1>8, <2>2, ForbidKeeps DEF SampleAfter
  <2>3. CASE Authorized(r) /\ ~Steady(r)
    BY <1>8, <2>1, <2>3, RetryKeeps DEF SampleAfter
  <2>4. CASE Authorized(r) /\ Steady(r) /\ ask[r].kind = "city"
    BY <1>7, <1>8, <2>4 DEF SampleAfter
  <2>5. CASE Authorized(r) /\ Steady(r) /\ ask[r].kind # "city"
    BY <1>6, <1>8, <2>1, <2>5 DEF SampleAfter
  <2> QED BY <2>2, <2>3, <2>4, <2>5
<1>9. CASE ReadAgain(r)
  <2>1. pc[r] = "again" /\ UNCHANGED facts /\ ask[r].kind # "city"
    BY <1>0, <1>9 DEF ReadAgain, Placed
  <2>2. CASE ~Authorized(r)
    BY <1>9, <2>2, ForbidKeeps DEF ReadAgain
  <2>3. CASE Authorized(r)
    <3>1. PICK next \in {"final", "drifted"} : Goto(r, next) /\ Keep
      BY <1>9, <2>3 DEF ReadAgain
    <3> QED BY <1>6, <2>1, <3>1
  <2> QED BY <2>2, <2>3
<1>10. CASE SampleFinal(r)
  <2>1. pc[r] \in Ends /\ UNCHANGED facts /\ ask[r].kind # "city"
    BY <1>0, <1>10 DEF SampleFinal, Placed, Ends
  <2>2. CASE ~Authorized(r)
    BY <1>10, <2>2, ForbidKeeps DEF SampleFinal
  <2>3. CASE Authorized(r) /\ (pc[r] = "drifted" \/ ~Steady(r))
    BY <1>10, <2>1, <2>3, RetryKeeps DEF SampleFinal
  <2>4. CASE Authorized(r) /\ ~(pc[r] = "drifted" \/ ~Steady(r))
    BY <1>7, <1>10, <2>4 DEF SampleFinal
  <2> QED BY <2>2, <2>3, <2>4
<1> QED BY <1>1, <1>3, <1>4, <1>5, <1>8, <1>9, <1>10 DEF Step

(* A step of another request moves no fact, nor the row of this one.          *)
LEMMA RowKeeps ==
  ASSUME IInv, NEW q \in Readers, Kept(q), UNCHANGED facts
  PROVE  (Placed(q) /\ Held(q) /\ Counted(q))'
<1>1. Kept(q) /\ UNCHANGED facts
  OBVIOUS
<1>2. Placed(q) /\ Held(q) /\ Counted(q)
  BY DEF IInv
<1>3. CASE ask[q] = NoAsk
  <2>1. pc[q] = "idle" /\ "idle" \notin Sampled
    BY <1>3 DEF IInv, ReadTypeOK, Sampled, Parts, Ends
  <2> QED BY <1>1, <1>2, <1>3, <2>1 DEF Kept, Placed, Held, Counted
<1>4. CASE ask[q] # NoAsk
  <2>1. PICK m \in Members, w \in Workspaces : m = ask[q].by /\ w = ask[q].ws
    BY <1>4 DEF IInv, ReadTypeOK
  <2>2. m = ask'[q].by /\ w = ask'[q].ws
    BY <1>1, <2>1 DEF Kept
  <2>3. \A part \in Parts :
          /\ View(part, m, w)' = View(part, m, w)
          /\ View(part, ask[q].by, ask[q].ws)' = View(part, m, w)'
    BY <1>1, <2>2, ViewFrame DEF facts, View, Archives, Own, Shown
  <2>4. /\ Clock(ask[q].by, ask[q].ws)' = Clock(m, w)
        /\ Token(ask[q].by, ask[q].ws)' = Token(m, w)
    BY <1>1, <2>2 DEF Clock, Token, facts
  <2>5. ClockOf(before[q])' = ClockOf(before[q])
    BY <1>1 DEF Kept, ClockOf
  <2>6. Held(q)'
    BY <1>1, <1>2, <2>1, <2>3, <2>4, <2>5 DEF Kept, Held
  <2>7. Placed(q)' /\ Counted(q)'
    BY <1>1, <1>2, <2>1, <2>4, <2>5 DEF Kept, Placed, Counted
  <2> QED BY <2>6, <2>7
<1> QED BY <1>3, <1>4

-----------------------------------------------------------------------------
\* The initial states satisfy the invariant.
LEMMA InitHolds == ReadInit => IInv
<1> SUFFICES ASSUME ReadInit PROVE IInv
  OBVIOUS
<1>1. FactsOK /\ DigestHeld
  BY DEF ReadInit, Init, FactsOK, DigestHeld
<1>2. ReadTypeOK /\ Shaped
  BY <1>1 DEF ReadInit, ReadersIdle, ReadTypeOK, Shaped, Nothing, Pcs, Codes,
              Versions
<1>3. ASSUME NEW r \in Readers
      PROVE  Placed(r) /\ Held(r) /\ Counted(r)
  BY DEF ReadInit, ReadersIdle, Placed, Held, Counted, Sampled, Parts, Ends
<1> QED BY <1>1, <1>2, <1>3 DEF IInv

\* Every step keeps it.
LEMMA NextKeeps == IInv /\ [ReadNext]_vars => IInv'
<1> SUFFICES ASSUME IInv, [ReadNext]_vars PROVE IInv'
  OBVIOUS
<1>1. CASE ScopeStep
  BY <1>1, ScopeKeeps
<1>2. ASSUME NEW r \in Readers, Step(r)
      PROVE  IInv'
  <2>1. ASSUME NEW q \in Readers, q # r
        PROVE  (Placed(q) /\ Held(q) /\ Counted(q))'
    BY <1>2, <2>1, OthersKept, RowKeeps
  <2> QED BY <1>2, <2>1, StepTyped, StepKeeps DEF IInv
<1>3. CASE UNCHANGED vars
  <2>1. ReadTypeOK' /\ DigestHeld' /\ Shaped'
    BY <1>3 DEF vars, facts, reads, IInv, ReadTypeOK, FactsOK, DigestHeld,
                Shaped, Streams, Roles, Entries
  <2>2. \A q \in Readers : Kept(q) /\ UNCHANGED facts
    BY <1>3 DEF vars, reads, Kept
  <2> QED BY <2>1, <2>2, RowKeeps DEF IInv
<1> QED BY <1>1, <1>2, <1>3 DEF ReadNext

(* The inductive invariant.                                                   *)
THEOREM ReadInvariance == ReadSpec => []IInv
BY InitHolds, NextKeeps, PTL DEF ReadSpec

(* Every request keeps its type and its three attempts.                       *)
THEOREM ReadTypes == ReadSpec => []ReadTypeOK
<1>1. IInv => ReadTypeOK
  BY DEF IInv
<1> QED BY <1>1, ReadInvariance, PTL

(* An answer is one snapshot of the scope, that of its last sample.           *)
THEOREM CoherentTheorem == ReadSpec => CoherentAnswer
<1> DEFINE Told(r) ==
      answer[r] = "none" /\ answer'[r] = "ok" =>
        /\ before[r] = Token(ask[r].by, ask[r].ws)
        /\ rights[ask[r].ws][ask[r].by].role # "none"
        /\ \A part \in Parts :
             payload[r][part] = View(part, ask[r].by, ask[r].ws)
<1>1. ASSUME IInv, [ReadNext]_vars, NEW r \in Readers
      PROVE  Told(r)
  <2>1. CASE answer'[r] = answer[r]
    BY <2>1
  <2>2. CASE answer'[r] # answer[r]
    <3>1. Step(r)
      <4>1. ~ScopeStep /\ ~UNCHANGED vars
        BY <2>2 DEF ScopeStep, Write, reads, vars
      <4>2. \A q \in Readers : q # r => ~Step(q)
        BY <1>1, <2>2, OthersKept DEF Kept
      <4> QED BY <1>1, <4>1, <4>2 DEF ReadNext
    <3>2. SUFFICES ASSUME answer'[r] = "ok" PROVE Told(r)
      OBVIOUS
    <3>3. /\ pc[r] \in Ends /\ Authorized(r) /\ Steady(r)
      BY <1>1, <2>2, <3>1, <3>2
         DEF Step, Receive, ReadCatalog, SampleBefore, Fetch, SampleAfter,
             ReadAgain, SampleFinal, Goto, Answer, Forbid, Forget, Retry, Keep,
             IInv, ReadTypeOK, Ends
    <3>4. ClockOf(before[r]) = Clock(ask[r].by, ask[r].ws)
      BY <3>3 DEF Steady, ClockOf, Clock, Token
    <3>5. Held(r) /\ pc[r] \in Sampled
          /\ \A q : Got(ask[r].kind, pc[r], q)
      BY <1>1, <3>3 DEF IInv, Sampled, Got
    <3> QED BY <3>3, <3>4, <3>5 DEF Held, Steady, Authorized
  <2> QED BY <2>1, <2>2
<1>2. IInv /\ [ReadNext]_vars => [\A r \in Readers : Told(r)]_vars
  BY <1>1
<1>3. (\A r \in Readers : Told(r)) <=>
        \A r \in Readers : answer[r] = "none" /\ answer'[r] = "ok" =>
          LET m == ask[r].by
              w == ask[r].ws
          IN /\ before[r] = Token(m, w) /\ rights[w][m].role # "none"
             /\ \A part \in Parts :
                  payload[r][part] = View(part, m, w)
  OBVIOUS
<1> QED BY <1>2, <1>3, ReadInvariance, PTL DEF ReadSpec, CoherentAnswer

(* Instability is refused only to a viewer whose revisions moved three times. *)
THEOREM AlarmTheorem == ReadSpec => []NoFalseAlarm
<1>1. IInv => NoFalseAlarm
  BY DEF IInv, Counted, NoFalseAlarm
<1> QED BY <1>1, ReadInvariance, PTL

=============================================================================
