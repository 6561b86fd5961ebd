-------------------------- MODULE TraversalProofs --------------------------
(***************************************************************************)
(* Theorems of Traversal: what the rows of a query, the frontier and the    *)
(* endpoints already checked are known to be when they are used.            *)
(***************************************************************************)
EXTENDS Traversal, SequenceTheorems, FiniteSetTheorems, TLAPS

\* All a traversal holds may be read.
Body(c) ==
  /\ c \in Call /\ c.hop + 1 <= ClampHops(c.query.maxHops)
  /\ \A n \in c.entities : NodeVisible(n)
  /\ \A e \in c.edges : EdgeVisible(e.id)
  /\ \A r \in c.pending : EdgeVisible(r.edge.id) /\ NodeVisible(r.other)

CallOK(c) == Body(c) /\ (c.pc = "expand" => c.frontier # <<>>)

\* An endpoint Link has read may be read.
LinkOK(l) ==
  /\ l \in Link
  /\ l.pc \in {"to", "append", "written"} => NodeVisible(Asserted[l.edge].from)
  /\ l.pc \in {"append", "written"} => NodeVisible(Asserted[l.edge].to)

GraphOK ==
  /\ nodes \subseteq NodeIds /\ edges \subseteq EdgeRow /\ unused \subseteq NodeIds \cup EdgeIds
  /\ \A e \in edges : Ends(e) \subseteq nodes
  /\ writes \in 0 .. MaxWrites /\ still \in BOOLEAN

TInv == GraphOK /\ caller \in Callers /\ CallOK(call) /\ LinkOK(link)

LEMMA RowType == \A e \in EdgeIds : RowOf(e) \in EdgeRow
BY TraversalAssumption DEF RowOf, EdgeRow

LEMMA Clamped == \A n \in Int : ClampHops(n) \in 1 .. 3
BY DEF ClampHops

\* The clause and CanRead agree, on entities and on edges, which have no type.
LEMMA ClauseIsCanRead ==
  ASSUME caller \in Callers
  PROVE  /\ \A n \in NodeIds : NodeVisible(n) <=> CanRead(NodeGuard[n])
         /\ \A e \in EdgeIds : EdgeVisible(e) <=> CanRead(EdgeGuard[e])
<1>1. \A g \in Guarded : AccessClause(g, TRUE) <=> CanRead(g)
  <2>1. caller.restricted \in BOOLEAN
    BY TraversalAssumption DEF Principal
  <2>. QED  BY <2>1 DEF AccessClause, CanRead, Guarded
<1>2. \A g \in Guarded : g.type = NoType => (AccessClause(g, FALSE) <=> CanRead(g))
  <2>1. NoType \notin DenyTypes
    BY TraversalAssumption
  <2>. QED  BY <2>1 DEF AccessClause, CanRead, Guarded
<1>. QED  BY <1>1, <1>2, TraversalAssumption DEF NodeVisible, EdgeVisible

\* The loops of Neighbors add nothing to what a traversal holds.
LEMMA AdvanceKeeps ==
  ASSUME NEW STATE c, Body(c)
  PROVE  CallOK(Advance(c))
<1>1. /\ c \in Call /\ c.hop \in 0 .. 2 /\ ClampHops(c.query.maxHops) \in 1 .. 3
      /\ c.frontier \in Seq(NodeIds) /\ c.next \in Seq(NodeIds) /\ <<>> \in Seq(NodeIds)
  BY Clamped, TraversalAssumption DEF Body, Call, NeighborQuery
<1>2. CASE c.pending # {}
  <2>1. Advance(c) = [c EXCEPT !.pc = "rows"]
    BY <1>2 DEF Advance
  <2>. QED  BY <1>1, <2>1 DEF Body, CallOK, Call
<1>3. CASE c.pending = {} /\ c.frontier # <<>>
  <2>1. Advance(c) = [c EXCEPT !.pc = "expand"]
    BY <1>3 DEF Advance
  <2>. QED  BY <1>1, <1>3, <2>1 DEF Body, CallOK, Call
<1>4. CASE c.pending = {} /\ c.frontier = <<>>
             /\ (c.next = <<>> \/ c.hop + 1 = ClampHops(c.query.maxHops))
  <2>1. Advance(c) = [c EXCEPT !.pc = "done"]
    BY <1>4 DEF Advance
  <2>. QED  BY <1>1, <2>1 DEF Body, CallOK, Call
<1>5. CASE c.pending = {} /\ c.frontier = <<>>
             /\ ~ (c.next = <<>> \/ c.hop + 1 = ClampHops(c.query.maxHops))
  <2>1. Advance(c) = [c EXCEPT !.pc = "expand", !.hop = c.hop + 1, !.frontier = c.next, !.next = <<>>]
    BY <1>5 DEF Advance
  <2>2. c.hop + 1 < ClampHops(c.query.maxHops)
    BY <1>1, <1>5 DEF Body
  <2>3. c.hop + 1 \in 0 .. 2
    BY <1>1, <2>2
  <2>4. c.hop + 1 + 1 <= ClampHops(c.query.maxHops)
    BY <1>1, <2>2
  <2>. QED  BY <1>1, <1>5, <2>1, <2>3, <2>4 DEF Body, CallOK, Call
<1>. QED  BY <1>2, <1>3, <1>4, <1>5

\* A step of the traversal, with everything else as it was.
LEMMA CallBecomes ==
  ASSUME TInv, NEW STATE c, CallOK(c), call' = c, UNCHANGED <<graph, caller, link>>
  PROVE  TInv'
<1>1. UNCHANGED <<nodes, edges, unused, writes, still, caller, link>>
  BY DEF graph
<1>2. CallOK(call)'
  BY <1>1 DEF CallOK, Body, NodeVisible, EdgeVisible, AccessClause
<1>3. LinkOK(link)'
  BY <1>1 DEF TInv, LinkOK, NodeVisible, AccessClause
<1>. QED  BY <1>1, <1>2, <1>3 DEF TInv, GraphOK

LEMMA BeginKeeps == ASSUME TInv, Begin PROVE TInv'
<1> DEFINE start == call.query.start
           found == [call EXCEPT !.pc = "expand", !.frontier = <<start>>, !.entities = {start}]
           none  == [call EXCEPT !.pc = "notfound"]
<1>1. /\ call \in Call /\ start \in NodeIds /\ UNCHANGED <<nodes, edges, unused, writes, caller, link>>
      /\ still' \in BOOLEAN /\ CallOK(call)
  BY TraversalAssumption DEF TInv, CallOK, Body, Call, Begin, NeighborQuery
<1>2. CASE Found(start)
  <2>1. call' = found
    BY <1>2 DEF Begin
  <2>2. <<start>> \in Seq(NodeIds) /\ <<start>> # <<>>
    BY <1>1
  <2>3. CallOK(found)
    BY <1>1, <1>2, <2>2 DEF CallOK, Body, Call, Found
  <2>4. CallOK(call)'
    BY <1>1, <2>1, <2>3 DEF CallOK, Body, NodeVisible, EdgeVisible, AccessClause
  <2>. QED  BY <1>1, <2>4 DEF TInv, GraphOK, LinkOK, NodeVisible, AccessClause
<1>3. CASE ~ Found(start)
  <2>1. call' = none
    BY <1>3 DEF Begin
  <2>2. CallOK(none)
    BY <1>1 DEF CallOK, Body, Call
  <2>3. CallOK(call)'
    BY <1>1, <2>1, <2>2 DEF CallOK, Body, NodeVisible, EdgeVisible, AccessClause
  <2>. QED  BY <1>1, <2>3 DEF TInv, GraphOK, LinkOK, NodeVisible, AccessClause
<1>. QED  BY <1>2, <1>3

LEMMA ExpandKeeps == ASSUME TInv, Expand PROVE TInv'
<1> DEFINE n == Head(call.frontier)
           rows == IncidentVisible(n, call.query.predicates)
           c == [call EXCEPT !.frontier = Tail(call.frontier), !.pending = rows]
<1>1. /\ call \in Call /\ call.frontier \in Seq(NodeIds) /\ call.frontier # <<>> /\ Body(call)
      /\ GraphOK /\ call' = Advance(c) /\ UNCHANGED <<graph, caller, link>>
  BY DEF TInv, CallOK, Body, Call, Expand
<1>2. Tail(call.frontier) \in Seq(NodeIds)
  BY <1>1, HeadTailProperties
<1>3. \A r \in rows : /\ r \in [edge : EdgeRow, other : NodeIds]
                      /\ EdgeVisible(r.edge.id) /\ NodeVisible(r.other)
  <2>. SUFFICES ASSUME NEW e \in edges, EdgeVisible(e.id), Found(OtherEnd(e, n))
                PROVE  LET r == [edge |-> e, other |-> OtherEnd(e, n)] IN
                       /\ r \in [edge : EdgeRow, other : NodeIds]
                       /\ EdgeVisible(r.edge.id) /\ NodeVisible(r.other)
    BY DEF IncidentVisible
  <2>. QED  BY <1>1 DEF GraphOK, Found
<1>. HIDE DEF rows
<1>4. Body(c)
  BY <1>1, <1>2, <1>3 DEF Body, Call
<1>. HIDE DEF c
<1>5. CallOK(Advance(c))
  BY <1>4, AdvanceKeeps
<1>. QED  BY <1>1, <1>5, CallBecomes

LEMMA RowKeeps == ASSUME TInv, Row PROVE TInv'
<1>1. PICK r \in call.pending : call' = Take(r)
  BY DEF Row
<1> DEFINE rest  == [call EXCEPT !.pending = call.pending \ {r}]
           added == [rest EXCEPT !.edges = rest.edges \cup {r.edge}]
           grown == [added EXCEPT !.entities = added.entities \cup {r.other},
                                  !.next = Append(added.next, r.other)]
<1>2. /\ call \in Call /\ Body(call) /\ call.next \in Seq(NodeIds)
      /\ r.edge \in EdgeRow /\ r.other \in NodeIds /\ EdgeVisible(r.edge.id) /\ NodeVisible(r.other)
      /\ UNCHANGED <<graph, caller, link>>
  BY DEF TInv, CallOK, Body, Call, Row
<1>3. Body(rest)
  BY <1>2 DEF Body, Call
<1>4. Body(added)
  BY <1>2, <1>3 DEF Body, Call
<1>5. Body(grown)
  <2>1. Append(added.next, r.other) \in Seq(NodeIds)
    BY <1>2 DEF Call
  <2>. HIDE DEF rest
  <2>2. added \in Call
    BY <1>4 DEF Body
  <2>. HIDE DEF added
  <2>. QED  BY <1>2, <1>4, <2>1, <2>2 DEF Body, Call
<1>6. \/ call' = Advance(rest) \/ call' = Advance(added) \/ call' = Advance(grown)
      \/ call' = [added EXCEPT !.pc = "failed"] \/ call' = [grown EXCEPT !.pc = "done"]
  BY <1>1 DEF Take
<1>. HIDE DEF rest, added, grown
<1>7. CallOK([added EXCEPT !.pc = "failed"]) /\ CallOK([grown EXCEPT !.pc = "done"])
  BY <1>4, <1>5 DEF CallOK, Body, Call
<1>8. CallOK(Advance(rest)) /\ CallOK(Advance(added)) /\ CallOK(Advance(grown))
  BY <1>3, <1>4, <1>5, AdvanceKeeps
<1>. QED  BY <1>2, <1>6, <1>7, <1>8, CallBecomes

\* A step that leaves the traversal and its caller alone.
LEMMA OthersKeep ==
  ASSUME TInv, GraphOK', LinkOK(link)', UNCHANGED <<caller, call>>
  PROVE  TInv'
<1>1. CallOK(call)'
  BY DEF TInv, CallOK, Body, NodeVisible, EdgeVisible, AccessClause
<1>. QED  BY <1>1 DEF TInv

LEMMA LinkKeeps == ASSUME TInv, LinkBegin \/ LinkCheck \/ LinkAppend PROVE TInv'
<1>1. /\ link \in Link /\ link.edge \in EdgeIds /\ RowOf(link.edge) \in EdgeRow /\ GraphOK /\ LinkOK(link)
      /\ RowOf(link.edge).from = Asserted[link.edge].from /\ RowOf(link.edge).to = Asserted[link.edge].to
  BY RowType DEF TInv, LinkOK, Link, RowOf
<1>2. CASE LinkBegin
  <2>1. LinkOK(link)'
    BY <1>1, <1>2 DEF LinkBegin, LinkOK, Link, NodeVisible, AccessClause
  <2>2. GraphOK'
    BY <1>1, <1>2 DEF LinkBegin, GraphOK
  <2>. QED  BY <1>2, <2>1, <2>2, OthersKeep DEF LinkBegin
<1>3. CASE LinkCheck
  <2>1. LinkOK(link)'
    BY <1>1, <1>3 DEF LinkCheck, LinkOK, Link, Found, NodeVisible, AccessClause
  <2>2. GraphOK'
    BY <1>1, <1>3 DEF LinkCheck, GraphOK, graph
  <2>. QED  BY <1>3, <2>1, <2>2, OthersKeep DEF LinkCheck
<1>4. CASE LinkAppend
  <2>1. LinkOK(link)'
    BY <1>1, <1>4 DEF LinkAppend, LinkOK, Link, NodeVisible, AccessClause
  <2>2. GraphOK'
    BY <1>1, <1>4 DEF LinkAppend, GraphOK
  <2>. QED  BY <1>4, <2>1, <2>2, OthersKeep DEF LinkAppend
<1>. QED  BY <1>2, <1>3, <1>4

\* A write of another keeps the foreign keys of the edges.
LEMMA WritesKeep ==
  ASSUME TInv, Others
  PROVE  TInv'
<1>1. /\ Write /\ UNCHANGED <<caller, call, link>> /\ GraphOK
      /\ writes' \in 0 .. MaxWrites /\ still' \in BOOLEAN
  <2>1. Write
    BY DEF Others, AssertEntity, AssertEdge, RetractEdge, RetractEntity, Merge
  <2>2. writes < MaxWrites /\ writes' = writes + 1 /\ still' = FALSE /\ UNCHANGED <<caller, call, link>>
    BY <2>1 DEF Write
  <2>3. writes' \in 0 .. MaxWrites
    BY <2>2, TraversalAssumption DEF TInv, GraphOK
  <2>. QED  BY <2>1, <2>2, <2>3 DEF TInv
<1>2. LinkOK(link)'
  BY <1>1 DEF TInv, LinkOK, NodeVisible, AccessClause
<1>3. ASSUME NEW e \in EdgeIds, AssertEdge(e) PROVE GraphOK'
  BY <1>1, <1>3, RowType DEF AssertEdge, GraphOK
<1>4. ASSUME NEW e \in edges, RetractEdge(e) PROVE GraphOK'
  BY <1>1, <1>4 DEF RetractEdge, GraphOK
<1>5. ASSUME NEW n \in NodeIds, RetractEntity(n) PROVE GraphOK'
  BY <1>1, <1>5 DEF RetractEntity, GraphOK, Ends
<1>6. ASSUME NEW m \in NodeIds, NEW n \in NodeIds, Merge(m, n) PROVE GraphOK'
  <2> DEFINE point(i) == IF i = n THEN m ELSE i
             moved(e) == [e EXCEPT !.from = point(e.from), !.to = point(e.to)]
  <2>1. /\ edges' = {moved(e) : e \in edges} /\ nodes' = nodes \ {n} /\ {m, n} \subseteq nodes
        /\ m # n /\ unused' = unused
    BY <1>6 DEF Merge
  <2>2. \A e \in edges : moved(e) \in EdgeRow /\ Ends(moved(e)) \subseteq nodes \ {n}
    BY <1>1, <2>1 DEF GraphOK, EdgeRow, Ends
  <2>. QED  BY <1>1, <2>1, <2>2 DEF GraphOK
<1>7. ASSUME NEW n \in NodeIds, AssertEntity(n) PROVE GraphOK'
  BY <1>1, <1>7 DEF AssertEntity, GraphOK
<1>. QED  BY <1>1, <1>2, <1>3, <1>4, <1>5, <1>6, <1>7, OthersKeep DEF Others

LEMMA TInit == Init => TInv
<1>. SUFFICES ASSUME Init
              PROVE  TInv
  OBVIOUS
<1>1. GraphOK
  BY RowType, TraversalAssumption DEF Init, GraphOK
<1>2. PICK q \in Queries :
        call = [pc |-> "idle", query |-> q, hop |-> 0, frontier |-> <<>>, next |-> <<>>,
                pending |-> {}, entities |-> {}, edges |-> {}]
  BY DEF Init
<1>3. ClampHops(q.maxHops) \in 1 .. 3
  BY Clamped, TraversalAssumption DEF NeighborQuery
<1>4. CallOK(call)
  <2>1. <<>> \in Seq(NodeIds) /\ 0 \in 0 .. 2
    OBVIOUS
  <2>. QED  BY <1>2, <1>3, <2>1 DEF CallOK, Body, Call
<1>5. LinkOK(link)
  BY DEF Init, LinkOK, Link
<1>. QED  BY <1>1, <1>4, <1>5 DEF TInv, Init

LEMMA TStep == TInv /\ [Next]_vars => TInv'
<1>. SUFFICES ASSUME TInv, [Next]_vars
              PROVE  TInv'
  OBVIOUS
<1>1. CASE Begin
  BY <1>1, BeginKeeps
<1>2. CASE Expand
  BY <1>2, ExpandKeeps
<1>3. CASE Row
  BY <1>3, RowKeeps
<1>4. CASE LinkBegin \/ LinkCheck \/ LinkAppend
  BY <1>4, LinkKeeps
<1>5. CASE Others
  BY <1>5, WritesKeep
<1>6. CASE UNCHANGED vars
  BY <1>6 DEF vars, TInv, GraphOK, CallOK, Body, LinkOK, NodeVisible, EdgeVisible, AccessClause
<1>. QED  BY <1>1, <1>2, <1>3, <1>4, <1>5, <1>6 DEF Next

\* A traversal returns no more entities than its limit, but for a limit of one it returns
\* two: the start is there before anything is counted.
AtMostOneOver ==
  call.query.limit > 0 =>
    Cardinality(call.entities) <= IF call.query.limit = 1 THEN 2 ELSE call.query.limit

\* A traversal that goes on is below its limit, or has its start only.
Below(c) ==
  /\ IsFiniteSet(c.entities)
  /\ c.query.limit > 0 => Cardinality(c.entities) <= 1 \/ Cardinality(c.entities) < c.query.limit

CapInv ==
  /\ AtMostOneOver /\ IsFiniteSet(call.entities)
  /\ call.pc \in {"expand", "rows"} => Below(call)

\* What is below the limit is within it.
LEMMA BelowIsWithin ==
  ASSUME NEW STATE c, Body(c), Below(c)
  PROVE  c.query.limit > 0 =>
           Cardinality(c.entities) <= IF c.query.limit = 1 THEN 2 ELSE c.query.limit
<1>1. c.query.limit \in Int /\ Cardinality(c.entities) \in Nat
  BY TraversalAssumption, FS_CardinalityType DEF Body, Call, NeighborQuery, Below
<1>. QED  BY <1>1 DEF Below

\* The loops of Neighbors leave entities and query as they are.
LEMMA AdvanceKeepsEntities ==
  ASSUME NEW STATE c, Body(c)
  PROVE  Advance(c).entities = c.entities /\ Advance(c).query = c.query
BY DEF Advance, Body, Call

\* A step to a call that is below the limit.
LEMMA GoesOnBelow ==
  ASSUME NEW STATE c, Body(c), Below(c), call' = Advance(c)
  PROVE  CapInv'
<1>1. call'.entities = c.entities /\ call'.query = c.query
  BY AdvanceKeepsEntities
<1>2. c.query.limit > 0 => Cardinality(c.entities) <= IF c.query.limit = 1 THEN 2 ELSE c.query.limit
  BY BelowIsWithin
<1>. QED  BY <1>1, <1>2 DEF CapInv, AtMostOneOver, Below

\* One row takes at most one entity more, and no more from the limit on (Take).
LEMMA RowCaps ==
  ASSUME TInv, CapInv, Row
  PROVE  CapInv'
<1>1. PICK r \in call.pending : call' = Take(r)
  BY DEF Row
<1> DEFINE rest  == [call EXCEPT !.pending = call.pending \ {r}]
           added == [rest EXCEPT !.edges = rest.edges \cup {r.edge}]
           grown == [added EXCEPT !.entities = added.entities \cup {r.other},
                                  !.next = Append(added.next, r.other)]
<1>2. /\ call \in Call /\ Body(call) /\ call.next \in Seq(NodeIds)
      /\ r.edge \in EdgeRow /\ r.other \in NodeIds /\ EdgeVisible(r.edge.id) /\ NodeVisible(r.other)
  BY DEF TInv, CallOK, Body, Call, Row
<1>3. Below(call)
  BY DEF CapInv, Row
<1>4. /\ rest.entities = call.entities /\ rest.query = call.query
      /\ added.entities = call.entities /\ added.query = call.query
      /\ grown.entities = call.entities \cup {r.other} /\ grown.query = call.query
  BY <1>2 DEF Call
<1>5. Body(rest)
  BY <1>2 DEF Body, Call
<1>6. Body(added)
  BY <1>2, <1>5 DEF Body, Call
<1>7. Append(added.next, r.other) \in Seq(NodeIds)
  BY <1>2 DEF Call
<1>8. Body(grown)
  <2>. HIDE DEF rest
  <2>1. added \in Call
    BY <1>6 DEF Body
  <2>. HIDE DEF added
  <2>. QED  BY <1>2, <1>6, <1>7, <2>1 DEF Body, Call
<1>9. /\ IsFiniteSet(grown.entities) /\ call.query.limit \in Int
      /\ Cardinality(call.entities) \in Nat /\ Cardinality(grown.entities) \in Nat
      /\ Cardinality(grown.entities) <= Cardinality(call.entities) + 1
  <2>1. IsFiniteSet(call.entities) /\ Cardinality(call.entities) \in Nat
    BY <1>3, FS_CardinalityType DEF Below
  <2>2. /\ IsFiniteSet(call.entities \cup {r.other})
        /\ \/ Cardinality(call.entities \cup {r.other}) = Cardinality(call.entities)
           \/ Cardinality(call.entities \cup {r.other}) = Cardinality(call.entities) + 1
    BY <2>1, FS_AddElement
  <2>3. call.query.limit \in Int
    BY <1>2, TraversalAssumption DEF Call, NeighborQuery
  <2>. QED  BY <1>4, <2>1, <2>2, <2>3
<1>10. \/ call' = Advance(rest) \/ call' = Advance(added)
       \/ call' = [added EXCEPT !.pc = "failed"]
       \/ Full(grown) /\ call' = [grown EXCEPT !.pc = "done"]
       \/ ~ Full(grown) /\ call' = Advance(grown)
  BY <1>1 DEF Take
<1>11. [added EXCEPT !.pc = "failed"].entities = call.entities
       /\ [added EXCEPT !.pc = "failed"].query = call.query
       /\ [added EXCEPT !.pc = "failed"].pc = "failed"
  BY <1>2 DEF Call
<1>12. [grown EXCEPT !.pc = "done"].entities = grown.entities
       /\ [grown EXCEPT !.pc = "done"].query = call.query
       /\ [grown EXCEPT !.pc = "done"].pc = "done"
  BY <1>2 DEF Call
<1>. HIDE DEF rest, added, grown
<1>13. CASE call' = Advance(rest) \/ call' = Advance(added)
  BY <1>3, <1>4, <1>5, <1>6, <1>13, GoesOnBelow DEF Below
<1>14. CASE call' = [added EXCEPT !.pc = "failed"]
  BY <1>11, <1>14 DEF CapInv, AtMostOneOver
<1>15. CASE Full(grown) /\ call' = [grown EXCEPT !.pc = "done"]
  <2>1. call.query.limit > 0 =>
          Cardinality(grown.entities) <= IF call.query.limit = 1 THEN 2 ELSE call.query.limit
    BY <1>3, <1>9 DEF Below
  <2>. QED  BY <1>9, <1>12, <1>15, <2>1 DEF CapInv, AtMostOneOver
<1>16. CASE ~ Full(grown) /\ call' = Advance(grown)
  <2>1. Below(grown)
    BY <1>4, <1>9, <1>16 DEF Full, Below
  <2>. QED  BY <1>8, <1>16, <2>1, GoesOnBelow
<1>. QED  BY <1>10, <1>13, <1>14, <1>15, <1>16

\* The start is one entity (Begin).
LEMMA BeginCaps ==
  ASSUME TInv, CapInv, Begin
  PROVE  CapInv'
<1> DEFINE start == call.query.start
<1>1. call \in Call /\ call.query.limit \in Int
  BY TraversalAssumption DEF TInv, CallOK, Body, Call, NeighborQuery
<1>2. CASE Found(start)
  <2>1. call'.entities = {start} /\ call'.query = call.query
    BY <1>1, <1>2 DEF Begin, Call
  <2>2. IsFiniteSet({start}) /\ Cardinality({start}) = 1
    BY FS_Singleton
  <2>. HIDE DEF start
  <2>. QED  BY <1>1, <2>1, <2>2 DEF CapInv, AtMostOneOver, Below
<1>3. CASE ~ Found(start)
  <2>1. call'.entities = call.entities /\ call'.query = call.query /\ call'.pc = "notfound"
    BY <1>1, <1>3 DEF Begin, Call
  <2>. QED  BY <2>1 DEF CapInv, AtMostOneOver
<1>. QED  BY <1>2, <1>3

\* A query adds no entity (Expand).
LEMMA ExpandCaps ==
  ASSUME TInv, CapInv, Expand
  PROVE  CapInv'
<1> DEFINE n == Head(call.frontier)
           rows == IncidentVisible(n, call.query.predicates)
           c == [call EXCEPT !.frontier = Tail(call.frontier), !.pending = rows]
<1>1. call \in Call /\ Below(call) /\ call' = Advance(c)
  BY DEF TInv, CallOK, Body, CapInv, Expand
<1>. HIDE DEF rows
<1>2. c.entities = call.entities /\ c.query = call.query
  BY <1>1 DEF Call
<1>3. Advance(c).entities = c.entities /\ Advance(c).query = c.query
  BY <1>1 DEF Advance, Call
<1>. HIDE DEF c
<1>4. /\ call'.entities = call.entities /\ call'.query = call.query
  BY <1>1, <1>2, <1>3
<1>. QED  BY <1>1, <1>4 DEF CapInv, AtMostOneOver, Below

\* The invariant of Traversal.
THEOREM TInductive == Spec => []TInv
BY TInit, TStep, PTL DEF Spec

\* The types, among them the foreign keys of edges and that no traversal passes 3 hops.
THEOREM TraversalTyped == Spec => []TraversalTypeOK
<1>1. TInv => TraversalTypeOK
  BY DEF TInv, GraphOK, CallOK, Body, LinkOK, TraversalTypeOK
<1>. QED  BY <1>1, TInductive, PTL

\* A traversal returns nothing its caller may not read, whatever is written meanwhile.
THEOREM NothingHiddenEver == Spec => []NothingHidden
<1>1. TInv => NothingHidden
  <2>. SUFFICES ASSUME TInv
                PROVE  NothingHidden
    OBVIOUS
  <2>1. call.entities \subseteq NodeIds /\ \A e \in call.edges : e.id \in EdgeIds
    BY DEF TInv, CallOK, Body, Call, EdgeRow
  <2>. QED  BY <2>1, ClauseIsCanRead DEF TInv, CallOK, Body, NothingHidden
<1>. QED  BY <1>1, TInductive, PTL

\* Link writes only edges whose ends its caller may read.
THEOREM LinksReadBothEnds == Spec => []LinksWhatItReads
<1>1. TInv => LinksWhatItReads
  <2>. SUFFICES ASSUME TInv, link.pc = "written", NEW n \in Ends(RowOf(link.edge))
                PROVE  CanRead(NodeGuard[n])
    BY DEF LinksWhatItReads
  <2>1. /\ RowOf(link.edge) \in EdgeRow
        /\ NodeVisible(RowOf(link.edge).from) /\ NodeVisible(RowOf(link.edge).to)
    BY RowType DEF TInv, LinkOK, Link, RowOf
  <2>. QED  BY <2>1, ClauseIsCanRead DEF TInv, Ends, EdgeRow
<1>. QED  BY <1>1, TInductive, PTL

\* A traversal returns no more than its limit, or one more than a limit of one, in any
\* graph and whatever is written meanwhile (Neighbors compares after it has added, where
\* neighbors.go:22 says that the limit caps the returned entities).
THEOREM LimitIsBound == Spec => []AtMostOneOver
<1>1. Init => CapInv
  <2>. SUFFICES ASSUME Init PROVE CapInv
    OBVIOUS
  <2>1. call.entities = {} /\ call.pc = "idle" /\ call.query.limit \in Int
    BY TraversalAssumption DEF Init, NeighborQuery
  <2>2. IsFiniteSet({}) /\ Cardinality({}) = 0
    BY FS_EmptySet
  <2>. QED  BY <2>1, <2>2 DEF CapInv, AtMostOneOver
<1>2. ASSUME TInv, CapInv, [Next]_vars
      PROVE  CapInv'
  <2>1. CASE Begin
    BY <1>2, <2>1, BeginCaps
  <2>2. CASE Expand
    BY <1>2, <2>2, ExpandCaps
  <2>3. CASE Row
    BY <1>2, <2>3, RowCaps
  <2>4. CASE UNCHANGED call
    BY <1>2, <2>4 DEF CapInv, AtMostOneOver, Below
  <2>5. LinkBegin \/ LinkCheck \/ LinkAppend \/ Others \/ UNCHANGED vars => UNCHANGED call
    BY DEF LinkBegin, LinkCheck, LinkAppend, Others, AssertEntity, AssertEdge, RetractEdge,
           RetractEntity, Merge, Write, vars
  <2>. QED  BY <1>2, <2>1, <2>2, <2>3, <2>4, <2>5 DEF Next
<1>3. CapInv => AtMostOneOver
  BY DEF CapInv
<1>. QED  BY <1>1, <1>2, <1>3, TInductive, PTL DEF Spec

----------------------------------------------------------------------------
(* Whatever is returned hangs together. *)

\* X and what is one edge of F from it.
Near(F, X) == X \cup UNION {Ends(e) : e \in {f \in F : Ends(f) \cap X # {}}}

\* Within without the recursive function, for the hops there are.
Ball(F, start, h) ==
  IF h = 0 THEN {start}
  ELSE IF h = 1 THEN Near(F, {start})
  ELSE IF h = 2 THEN Near(F, Near(F, {start}))
  ELSE Near(F, Near(F, Near(F, {start})))

\* The function that Within chooses is this one: it satisfies the equation, and the equation
\* leaves nothing open.
LEMMA WithinIsBall ==
  ASSUME NEW F, NEW start, NEW h \in 0 .. 3
  PROVE  Within(F, start, h) = Ball(F, start, h)
<1> DEFINE R[i \in 0 .. h] == IF i = 0 THEN {start}
             ELSE R[i - 1] \cup UNION {Ends(e) : e \in {f \in F : Ends(f) \cap R[i - 1] # {}}}
           S == [i \in 0 .. h |-> Ball(F, start, i)]
<1>1. S = [i \in 0 .. h |-> IF i = 0 THEN {start} ELSE Near(F, S[i - 1])]
  <2>1. \A i \in 0 .. h : Ball(F, start, i) = IF i = 0 THEN {start} ELSE Near(F, Ball(F, start, i - 1))
    BY DEF Ball
  <2>2. \A i \in 0 .. h : i # 0 => S[i - 1] = Ball(F, start, i - 1)
    OBVIOUS
  <2>. QED  BY <2>1, <2>2
<1>2. S = [i \in 0 .. h |-> IF i = 0 THEN {start}
             ELSE S[i - 1] \cup UNION {Ends(e) : e \in {f \in F : Ends(f) \cap S[i - 1] # {}}}]
  BY <1>1, Zenon DEF Near
<1>3. R = [i \in 0 .. h |-> IF i = 0 THEN {start}
             ELSE R[i - 1] \cup UNION {Ends(e) : e \in {f \in F : Ends(f) \cap R[i - 1] # {}}}]
  <2>. HIDE DEF S
  <2>. QED  BY <1>2, Zenon
<1>4. R = [i \in 0 .. h |-> IF i = 0 THEN {start} ELSE Near(F, R[i - 1])]
  <2>. HIDE DEF R, S
  <2>. QED  BY <1>3, Zenon DEF Near
<1>5. R[h] = Ball(F, start, h)
  <2>. HIDE DEF R, S
  <2>1. \A i \in 0 .. h : R[i] = IF i = 0 THEN {start} ELSE Near(F, R[i - 1])
    BY <1>4
  <2>. QED  BY <2>1 DEF Ball
<1>6. Within(F, start, h) = R[h]
  BY DEF Within
<1>. QED  BY <1>5, <1>6

LEMMA WithinStep ==
  ASSUME NEW F, NEW start
  PROVE  /\ Within(F, start, 0) = {start}
         /\ \A h \in 0 .. 2 : Within(F, start, h + 1) = Near(F, Within(F, start, h))
<1>1. \A h \in 0 .. 3 : Within(F, start, h) = Ball(F, start, h)
  BY WithinIsBall
<1>2. \A h \in 0 .. 2 : Ball(F, start, h + 1) = Near(F, Ball(F, start, h))
  BY DEF Ball
<1>3. Ball(F, start, 0) = {start}
  BY DEF Ball
<1>. QED  BY <1>1, <1>2, <1>3

\* More hops reach no less, more edges reach no less, and what a hop did not widen no
\* hop does.
LEMMA WithinFurther ==
  ASSUME NEW F, NEW start, NEW g \in 0 .. 3, NEW h \in 0 .. 3, g <= h
  PROVE  Within(F, start, g) \subseteq Within(F, start, h)
<1>1. \A i \in 0 .. 2 : Within(F, start, i) \subseteq Within(F, start, i + 1)
  BY WithinStep DEF Near
<1>2. /\ Within(F, start, 0) \subseteq Within(F, start, 1)
      /\ Within(F, start, 1) \subseteq Within(F, start, 2)
      /\ Within(F, start, 2) \subseteq Within(F, start, 3)
  BY <1>1
<1>. QED  BY <1>2

LEMMA WithinGrows ==
  ASSUME NEW F, NEW E, F \subseteq E, NEW start, NEW h \in 0 .. 3
  PROVE  Within(F, start, h) \subseteq Within(E, start, h)
<1>1. \A X, Y : X \subseteq Y => Near(F, X) \subseteq Near(E, Y)
  BY DEF Near
<1>2. Within(F, start, 0) \subseteq Within(E, start, 0)
  BY WithinStep
<1>3. \A i \in 0 .. 2 : Within(F, start, i) \subseteq Within(E, start, i)
                     => Within(F, start, i + 1) \subseteq Within(E, start, i + 1)
  BY <1>1, WithinStep
<1>4. /\ Within(F, start, 1) \subseteq Within(E, start, 1)
      /\ Within(F, start, 2) \subseteq Within(E, start, 2)
      /\ Within(F, start, 3) \subseteq Within(E, start, 3)
  BY <1>2, <1>3
<1>. QED  BY <1>2, <1>4

LEMMA WithinSettles ==
  ASSUME NEW F, NEW start, NEW g \in 0 .. 2, NEW h \in 0 .. 3, g <= h,
         Within(F, start, g + 1) = Within(F, start, g)
  PROVE  Within(F, start, h) = Within(F, start, g)
<1>1. \A i \in 0 .. 2 : Within(F, start, i) = Within(F, start, g)
                     => Within(F, start, i + 1) = Within(F, start, g)
  BY WithinStep
<1>2. g = 0 \/ g = 1 \/ g = 2
  OBVIOUS
<1>3. h = g \/ h = g + 1 \/ h = g + 2 \/ h = g + 3
  OBVIOUS
<1>4. Within(F, start, g + 1) = Within(F, start, g)
  OBVIOUS
<1>5. g + 1 <= 2 => Within(F, start, g + 2) = Within(F, start, g)
  BY <1>1, <1>4
<1>6. g + 2 <= 2 => Within(F, start, g + 3) = Within(F, start, g)
  BY <1>1, <1>5
<1>. QED  BY <1>3, <1>4, <1>5, <1>6

\* The nodes of a frontier.
Members(s) == {s[i] : i \in 1 .. Len(s)}

LEMMA MembersOfOne == ASSUME NEW x PROVE Members(<<>>) = {} /\ Members(<<x>>) = {x}
BY DEF Members

LEMMA MembersOfAppend ==
  ASSUME NEW S, NEW s \in Seq(S), NEW x \in S
  PROVE  Members(Append(s, x)) = Members(s) \cup {x}
<1>1. /\ Len(Append(s, x)) = Len(s) + 1 /\ Append(s, x)[Len(s) + 1] = x
      /\ \A i \in 1 .. Len(s) : Append(s, x)[i] = s[i]
      /\ Len(s) \in Nat
  OBVIOUS
<1>2. 1 .. Len(s) + 1 = (1 .. Len(s)) \cup {Len(s) + 1}
  BY <1>1
<1>. QED  BY <1>1, <1>2 DEF Members

LEMMA MembersOfTail ==
  ASSUME NEW S, NEW s \in Seq(S), s # <<>>
  PROVE  Members(s) = {Head(s)} \cup Members(Tail(s))
<1>1. /\ Len(s) \in Nat /\ Len(s) >= 1 /\ Head(s) = s[1] /\ Len(Tail(s)) = Len(s) - 1
      /\ \A i \in 1 .. Len(s) - 1 : Tail(s)[i] = s[i + 1]
  OBVIOUS
<1>2. \A i \in 2 .. Len(s) : i - 1 \in 1 .. Len(s) - 1 /\ Tail(s)[i - 1] = s[i]
  BY <1>1
<1>3. \A i \in 1 .. Len(s) - 1 : i + 1 \in 1 .. Len(s)
  BY <1>1
<1>4. \A i \in 1 .. Len(s) : i = 1 \/ i \in 2 .. Len(s)
  BY <1>1
<1>5. 1 \in 1 .. Len(s)
  BY <1>1
<1>6. Members(s) \subseteq {Head(s)} \cup Members(Tail(s))
  BY <1>1, <1>2, <1>4 DEF Members
<1>7. {Head(s)} \cup Members(Tail(s)) \subseteq Members(s)
  BY <1>1, <1>3, <1>5 DEF Members
<1>. QED  BY <1>6, <1>7

\* What Advance leaves as it is, and where it goes.
LEMMA AdvanceFields ==
  ASSUME NEW c \in Call, NEW d, d = Advance(c)
  PROVE  /\ d.query = c.query /\ d.pending = c.pending /\ d.entities = c.entities /\ d.edges = c.edges
         /\ \/ d.pc = "rows" /\ d.hop = c.hop /\ d.frontier = c.frontier /\ d.next = c.next
            \/ /\ d.pc = "expand" /\ d.hop = c.hop /\ d.frontier = c.frontier /\ d.next = c.next
               /\ c.pending = {}
            \/ /\ d.pc = "done" /\ c.pending = {} /\ c.frontier = <<>>
               /\ c.next = <<>> \/ c.hop + 1 = ClampHops(c.query.maxHops)
            \/ /\ d.pc = "expand" /\ d.hop = c.hop + 1 /\ d.frontier = c.next /\ d.next = <<>>
               /\ c.pending = {} /\ c.frontier = <<>>
               /\ c.hop + 1 # ClampHops(c.query.maxHops)
<1>1. CASE c.pending # {}
  <2>1. Advance(c) = [c EXCEPT !.pc = "rows"]
    BY <1>1 DEF Advance
  <2>. QED  BY <2>1 DEF Call
<1>2. CASE c.pending = {} /\ c.frontier # <<>>
  <2>1. Advance(c) = [c EXCEPT !.pc = "expand"]
    BY <1>2 DEF Advance
  <2>. QED  BY <1>2, <2>1 DEF Call
<1>3. CASE c.pending = {} /\ c.frontier = <<>>
             /\ (c.next = <<>> \/ c.hop + 1 = ClampHops(c.query.maxHops))
  <2>1. Advance(c) = [c EXCEPT !.pc = "done"]
    BY <1>3 DEF Advance
  <2>. QED  BY <1>3, <2>1 DEF Call
<1>4. CASE c.pending = {} /\ c.frontier = <<>>
             /\ ~ (c.next = <<>> \/ c.hop + 1 = ClampHops(c.query.maxHops))
  <2>1. Advance(c) = [c EXCEPT !.pc = "expand", !.hop = c.hop + 1, !.frontier = c.next, !.next = <<>>]
    BY <1>4 DEF Advance
  <2>. QED  BY <1>4, <2>1 DEF Call
<1>. QED  BY <1>1, <1>2, <1>3, <1>4

\* What a traversal holds hangs together: every entity within the hops so far along the
\* edges it has, and every row waiting has its near end there.
Hung(c) ==
  LET hung(h) == c.entities \cap Within(c.edges, c.query.start, h)
  IN /\ c.entities \subseteq hung(c.hop + 1)
     /\ Members(c.frontier) \subseteq hung(c.hop)
     /\ Members(c.next) \subseteq c.entities
     /\ \A e \in c.edges : Ends(e) \subseteq c.entities
     /\ \A r \in c.pending : \E n \in hung(c.hop) : Ends(r.edge) = {n, r.other}

\* The same of what is returned.
Whole(c) ==
  /\ \A e \in c.edges : Ends(e) \subseteq c.entities
  /\ c.entities \subseteq Within(c.edges, c.query.start, ClampHops(c.query.maxHops))

HungInv ==
  /\ call.pc = "idle" => /\ call.pending = {} /\ call.next = <<>> /\ call.edges = {} /\ call.hop = 0
  /\ call.pc = "expand" => call.pending = {}
  /\ call.pc \in {"expand", "rows"} => Hung(call)
  /\ NothingBridged

\* The numbers a traversal counts with.
LEMMA HopRange ==
  ASSUME NEW STATE c, Body(c)
  PROVE  /\ c \in Call /\ c.hop \in 0 .. 2 /\ c.hop \in 0 .. 3 /\ c.hop + 1 \in 1 .. 3 /\ c.hop + 1 \in 0 .. 3
         /\ ClampHops(c.query.maxHops) \in 1 .. 3 /\ ClampHops(c.query.maxHops) \in 0 .. 3
         /\ c.hop + 1 <= ClampHops(c.query.maxHops)
         /\ c.frontier \in Seq(NodeIds) /\ c.next \in Seq(NodeIds)
         /\ c.entities \subseteq NodeIds /\ c.query.start \in NodeIds
<1>1. c.query.maxHops \in Int /\ c.query.start \in NodeIds
  BY TraversalAssumption DEF Body, Call, NeighborQuery
<1>2. ClampHops(c.query.maxHops) \in 1 .. 3
  BY <1>1, Clamped
<1>. QED  BY <1>1, <1>2 DEF Body, Call

\* The loops of Neighbors keep it, and lead to what is whole.
LEMMA AdvanceHung ==
  ASSUME NEW STATE c, Body(c), Hung(c), call' = Advance(c)
  PROVE  HungInv'
<1>1. PICK d : d = Advance(c)
  OBVIOUS
<1>2. /\ c \in Call /\ c.hop \in 0 .. 2 /\ c.hop \in 0 .. 3 /\ c.hop + 1 \in 0 .. 3
      /\ ClampHops(c.query.maxHops) \in 0 .. 3 /\ c.hop + 1 <= ClampHops(c.query.maxHops)
  BY HopRange
<1>3. /\ d.query = c.query /\ d.pending = c.pending /\ d.entities = c.entities /\ d.edges = c.edges
      /\ \/ d.pc = "rows" /\ d.hop = c.hop /\ d.frontier = c.frontier /\ d.next = c.next
         \/ /\ d.pc = "expand" /\ d.hop = c.hop /\ d.frontier = c.frontier /\ d.next = c.next
            /\ c.pending = {}
         \/ d.pc = "done"
         \/ /\ d.pc = "expand" /\ d.hop = c.hop + 1 /\ d.frontier = c.next /\ d.next = <<>>
            /\ c.pending = {} /\ c.hop + 1 # ClampHops(c.query.maxHops)
  BY <1>1, <1>2, AdvanceFields
<1>4. d.pc = "done" => Whole(d)
  BY <1>2, <1>3, WithinFurther DEF Hung, Whole
<1>5. d.pc \in {"expand", "rows"} => Hung(d)
  <2>1. CASE d.hop = c.hop /\ d.frontier = c.frontier /\ d.next = c.next
    BY <1>3, <2>1 DEF Hung
  <2>2. CASE /\ d.pc = "expand" /\ d.hop = c.hop + 1 /\ d.frontier = c.next /\ d.next = <<>>
             /\ c.pending = {} /\ c.hop + 1 # ClampHops(c.query.maxHops)
    <3>1. d.hop + 1 \in 0 .. 3 /\ d.hop \in 0 .. 3 /\ d.hop <= d.hop + 1
      BY <1>2, <2>2
    <3>2. Members(<<>>) = {}
      BY DEF Members
    <3>3. Within(d.edges, d.query.start, d.hop) \subseteq Within(d.edges, d.query.start, d.hop + 1)
      BY <3>1, WithinFurther
    <3>. QED  BY <1>3, <2>2, <3>2, <3>3 DEF Hung
  <2>. QED  BY <1>3, <2>1, <2>2
<1>6. d.pc = "expand" => d.pending = {}
  BY <1>3
<1>7. d.pc # "idle"
  BY <1>3
<1>8. call' = d
  BY <1>1
<1>. QED  BY <1>3, <1>4, <1>5, <1>6, <1>7, <1>8 DEF HungInv, NothingBridged, Whole

LEMMA BeginHangs ==
  ASSUME TInv, HungInv, Begin
  PROVE  HungInv'
<1> DEFINE start == call.query.start
<1>1. call \in Call /\ call.pc = "idle"
  BY DEF TInv, CallOK, Body, Begin
<1>2. CASE Found(start)
  <2>1. /\ call'.pc = "expand" /\ call'.frontier = <<start>> /\ call'.entities = {start}
        /\ call'.query = call.query /\ call'.pending = {} /\ call'.next = <<>> /\ call'.edges = {}
        /\ call'.hop = 0
    BY <1>1, <1>2 DEF Begin, Call, HungInv
  <2>2. Members(<<start>>) = {start} /\ Members(<<>>) = {}
    BY DEF Members
  <2>3. Within({}, start, 0) = {start} /\ start \in Within({}, start, 1)
    <3>1. Within({}, start, 0 + 1) = Near({}, Within({}, start, 0))
      BY WithinStep
    <3>. QED  BY <3>1, WithinStep DEF Near
  <2>4. Hung(call)'
    <3>1. PICK d : d = call'
      OBVIOUS
    <3>2. /\ d.frontier = <<start>> /\ d.entities = {start} /\ d.query.start = start
          /\ d.pending = {} /\ d.next = <<>> /\ d.edges = {} /\ d.hop = 0
      BY <2>1, <3>1
    <3>3. Within(d.edges, d.query.start, 0) = {start} /\ start \in Within(d.edges, d.query.start, 0 + 1)
      BY <2>3, <3>2
    <3>4. Hung(d)
      BY <2>2, <3>2, <3>3 DEF Hung
    <3>. QED  BY <3>1, <3>4 DEF Hung
  <2>. QED  BY <2>1, <2>4 DEF HungInv, NothingBridged
<1>3. CASE ~ Found(start)
  <2>1. call'.pc = "notfound"
    BY <1>1, <1>3 DEF Begin, Call
  <2>. QED  BY <2>1 DEF HungInv, NothingBridged
<1>. QED  BY <1>2, <1>3

\* The rows of a query, to a call that holds n.
LEMMA RowEnds ==
  ASSUME GraphOK, NEW n, NEW P, NEW r \in IncidentVisible(n, P)
  PROVE  /\ r \in [edge : edges, other : NodeIds] /\ Ends(r.edge) = {n, r.other} /\ n # r.other
         /\ EdgeVisible(r.edge.id) /\ Found(r.other)
         /\ P = {} \/ Asserted[r.edge.id].predicate \in P
<1>1. PICK e \in edges : /\ n \in Ends(e) /\ OtherEnd(e, n) # n
                         /\ EdgeVisible(e.id) /\ Found(OtherEnd(e, n))
                         /\ P = {} \/ Asserted[e.id].predicate \in P
                         /\ r = [edge |-> e, other |-> OtherEnd(e, n)]
  BY DEF IncidentVisible
<1>2. Ends(e) = {n, OtherEnd(e, n)}
  BY <1>1 DEF Ends, OtherEnd
<1>3. OtherEnd(e, n) \in NodeIds
  BY <1>1 DEF Found, GraphOK
<1>. QED  BY <1>1, <1>2, <1>3

LEMMA ExpandHangs ==
  ASSUME TInv, HungInv, Expand
  PROVE  HungInv'
<1> DEFINE n == Head(call.frontier)
           rows == IncidentVisible(n, call.query.predicates)
           c == [call EXCEPT !.frontier = Tail(call.frontier), !.pending = rows]
<1>1. /\ call \in Call /\ call.frontier \in Seq(NodeIds) /\ call.frontier # <<>> /\ Body(call)
      /\ GraphOK /\ call' = Advance(c) /\ Hung(call)
  BY DEF TInv, CallOK, Body, Call, Expand, HungInv
<1>2. Tail(call.frontier) \in Seq(NodeIds)
  BY <1>1, HeadTailProperties
<1>3. \A r \in rows : /\ r \in [edge : EdgeRow, other : NodeIds]
                      /\ EdgeVisible(r.edge.id) /\ NodeVisible(r.other)
                      /\ Ends(r.edge) = {n, r.other}
  BY <1>1, RowEnds DEF GraphOK, Found
<1>. HIDE DEF rows
<1>4. Body(c)
  BY <1>1, <1>2, <1>3 DEF Body, Call
<1>5. Members(call.frontier) = {n} \cup Members(Tail(call.frontier))
  BY <1>1, MembersOfTail
<1>6. /\ c.query = call.query /\ c.hop = call.hop /\ c.entities = call.entities /\ c.edges = call.edges
      /\ c.next = call.next /\ c.frontier = Tail(call.frontier) /\ c.pending = rows
  BY <1>1 DEF Call
<1>. HIDE DEF c
<1>7. Hung(c)
  BY <1>1, <1>3, <1>5, <1>6 DEF Hung
<1>. QED  BY <1>1, <1>4, <1>7, AdvanceHung

LEMMA RowHangs ==
  ASSUME TInv, HungInv, Row
  PROVE  HungInv'
<1>1. PICK r \in call.pending : call' = Take(r)
  BY DEF Row
<1> DEFINE rest  == [call EXCEPT !.pending = call.pending \ {r}]
           added == [rest EXCEPT !.edges = rest.edges \cup {r.edge}]
           grown == [added EXCEPT !.entities = added.entities \cup {r.other},
                                  !.next = Append(added.next, r.other)]
<1>2. /\ call \in Call /\ Body(call) /\ call.next \in Seq(NodeIds) /\ Hung(call)
      /\ r.edge \in EdgeRow /\ r.other \in NodeIds /\ EdgeVisible(r.edge.id) /\ NodeVisible(r.other)
  BY DEF TInv, CallOK, Body, Call, Row, HungInv
<1>3. Body(rest)
  BY <1>2 DEF Body, Call
<1>4. Body(added)
  BY <1>2, <1>3 DEF Body, Call
<1>5. Body(grown)
  <2>1. Append(added.next, r.other) \in Seq(NodeIds)
    BY <1>2 DEF Call
  <2>. HIDE DEF rest
  <2>2. added \in Call
    BY <1>4 DEF Body
  <2>. HIDE DEF added
  <2>. QED  BY <1>2, <1>4, <2>1, <2>2 DEF Body, Call
<1>6. /\ rest.query = call.query /\ rest.hop = call.hop /\ rest.entities = call.entities
      /\ rest.edges = call.edges /\ rest.next = call.next /\ rest.frontier = call.frontier
      /\ rest.pending = call.pending \ {r}
  BY <1>2 DEF Call
<1>7. /\ added.query = call.query /\ added.hop = call.hop /\ added.entities = call.entities
      /\ added.edges = call.edges \cup {r.edge} /\ added.next = call.next
      /\ added.frontier = call.frontier /\ added.pending = call.pending \ {r}
  BY <1>2 DEF Call
<1>8. /\ grown.query = call.query /\ grown.hop = call.hop /\ grown.entities = call.entities \cup {r.other}
      /\ grown.edges = call.edges \cup {r.edge} /\ grown.next = Append(call.next, r.other)
      /\ grown.frontier = call.frontier /\ grown.pending = call.pending \ {r}
  BY <1>2 DEF Call
<1>9. \/ call' = Advance(rest)
      \/ r.other \in call.entities /\ call' = Advance(added)
      \/ call' = Advance(grown)
      \/ call'.pc = "failed"
      \/ call' = [grown EXCEPT !.pc = "done"]
  BY <1>1, <1>2 DEF Take, Call
<1>10. [grown EXCEPT !.pc = "done"].pc = "done" /\ [grown EXCEPT !.pc = "done"].query = grown.query
       /\ [grown EXCEPT !.pc = "done"].edges = grown.edges /\ [grown EXCEPT !.pc = "done"].entities = grown.entities
  BY <1>2 DEF Call
<1>. HIDE DEF rest, added, grown
<1> DEFINE W(h) == Within(call.edges, call.query.start, h)
           V(h) == Within(call.edges \cup {r.edge}, call.query.start, h)
<1>11. call.hop \in 0 .. 2 /\ call.hop \in 0 .. 3 /\ call.hop + 1 \in 0 .. 3
       /\ ClampHops(call.query.maxHops) \in 0 .. 3 /\ call.hop + 1 <= ClampHops(call.query.maxHops)
  BY <1>2, HopRange
<1>12. \A h \in 0 .. 3 : W(h) \subseteq V(h)
  BY WithinGrows
<1>13. PICK n \in call.entities \cap W(call.hop) : Ends(r.edge) = {n, r.other}
  BY <1>2 DEF Hung
<1>14. r.other \in V(call.hop + 1)
  <2>1. V(call.hop + 1) = Near(call.edges \cup {r.edge}, V(call.hop))
    BY <1>11, WithinStep
  <2>2. n \in V(call.hop)
    BY <1>11, <1>12, <1>13
  <2>. HIDE DEF V
  <2>. QED  BY <1>13, <2>1, <2>2 DEF Near
<1>15. Members(Append(call.next, r.other)) = Members(call.next) \cup {r.other}
  BY <1>2, MembersOfAppend
<1>16. Hung(rest)
  BY <1>2, <1>6 DEF Hung
<1>17. r.other \in call.entities => Hung(added)
  <2>. SUFFICES ASSUME r.other \in call.entities
                PROVE  Hung(added)
    OBVIOUS
  <2>1. \A e \in added.edges : Ends(e) \subseteq added.entities
    BY <1>2, <1>7, <1>13 DEF Hung
  <2>. QED  BY <1>2, <1>7, <1>11, <1>12, <2>1 DEF Hung
<1>18. Hung(grown)
  <2>1. \A e \in grown.edges : Ends(e) \subseteq grown.entities
    BY <1>2, <1>8, <1>13 DEF Hung
  <2>2. grown.entities \subseteq Within(grown.edges, grown.query.start, grown.hop + 1)
    BY <1>2, <1>8, <1>11, <1>12, <1>14 DEF Hung
  <2>3. Members(grown.frontier) \subseteq grown.entities \cap Within(grown.edges, grown.query.start, grown.hop)
    BY <1>2, <1>8, <1>11, <1>12 DEF Hung
  <2>4. Members(grown.next) \subseteq grown.entities
    BY <1>2, <1>8, <1>15 DEF Hung
  <2>5. \A x \in grown.pending : \E m \in grown.entities \cap Within(grown.edges, grown.query.start, grown.hop) :
            Ends(x.edge) = {m, x.other}
    BY <1>2, <1>8, <1>11, <1>12 DEF Hung
  <2>. QED  BY <2>1, <2>2, <2>3, <2>4, <2>5 DEF Hung
<1>19. CASE call' = [grown EXCEPT !.pc = "done"]
  <2>1. Whole(grown)
    <3>1. grown.entities \subseteq Within(grown.edges, grown.query.start, call.hop + 1)
          /\ \A e \in grown.edges : Ends(e) \subseteq grown.entities
      BY <1>8, <1>18 DEF Hung
    <3>2. Within(grown.edges, grown.query.start, call.hop + 1)
            \subseteq Within(grown.edges, grown.query.start, ClampHops(call.query.maxHops))
      BY <1>11, WithinFurther
    <3>. QED  BY <1>8, <3>1, <3>2 DEF Whole
  <2>2. PICK d : d = call'
    OBVIOUS
  <2>3. d.pc = "done" /\ Whole(d)
    BY <1>10, <1>19, <2>1, <2>2 DEF Whole
  <2>. QED  BY <2>2, <2>3 DEF HungInv, NothingBridged, Whole
<1>20. CASE call'.pc = "failed"
  BY <1>20 DEF HungInv, NothingBridged
<1>. QED  BY <1>3, <1>4, <1>5, <1>9, <1>16, <1>17, <1>18, <1>19, <1>20, AdvanceHung

LEMMA HungStep ==
  ASSUME TInv, HungInv, [Next]_vars
  PROVE  HungInv'
<1>1. CASE Begin
  BY <1>1, BeginHangs
<1>2. CASE Expand
  BY <1>2, ExpandHangs
<1>3. CASE Row
  BY <1>3, RowHangs
<1>4. CASE UNCHANGED call
  BY <1>4 DEF HungInv, Hung, NothingBridged
<1>5. LinkBegin \/ LinkCheck \/ LinkAppend \/ Others \/ UNCHANGED vars => UNCHANGED call
  BY DEF LinkBegin, LinkCheck, LinkAppend, Others, AssertEntity, AssertEdge, RetractEdge,
         RetractEntity, Merge, Write, vars
<1>. QED  BY <1>1, <1>2, <1>3, <1>4, <1>5 DEF Next

\* What a traversal returns hangs together by edges it returns, within the hops asked for,
\* whatever is written meanwhile: no row it was not shown carries it anywhere (Neighbors).
THEOREM NothingBridgedEver == Spec => []NothingBridged
<1>1. Init => HungInv
  BY DEF Init, HungInv, NothingBridged
<1>2. HungInv => NothingBridged
  BY DEF HungInv
<1>. QED  BY <1>1, <1>2, HungStep, TInductive, PTL DEF Spec

----------------------------------------------------------------------------
(* A traversal of a still graph is complete. *)

\* A traversal of a graph nobody changed has swept the edges at the nodes up to this hop:
\* what it has not is in the rows waiting, or at a node still to expand.
Swept(G, c) ==
  LET reach(h) == Within(G, c.query.start, h)
  IN /\ reach(c.hop) \subseteq c.entities
     /\ c.entities \subseteq reach(c.hop) \cup Members(c.next)
     /\ c.entities \subseteq reach(c.hop + 1)
     /\ Members(c.frontier) \subseteq reach(c.hop)
     /\ Members(c.next) \subseteq c.entities
     /\ \A e \in c.edges : Ends(e) \subseteq c.entities
     /\ \A e \in c.edges : e \in G /\ Ends(e) \cap reach(c.hop) # {}
     /\ \A r \in c.pending : /\ r.edge \in G /\ r.other \in nodes
                             /\ \E n \in reach(c.hop) : Ends(r.edge) = {n, r.other}
     /\ \A e \in G : Ends(e) \cap reach(c.hop) # {} =>
          \/ e \in c.edges
          \/ \E r \in c.pending : r.edge = e
          \/ Ends(e) \cap Members(c.frontier) # {}

\* It returns what CompleteWhenStill asks for.
Complete(G, c) ==
  LET hops == ClampHops(c.query.maxHops)
      reach(h) == Within(G, c.query.start, h)
  IN /\ c.entities = reach(hops)
     /\ c.edges = {e \in G : Ends(e) \cap reach(hops - 1) # {}}

\* No two rows of the edges table have one id; an id not used yet, or the one a link is
\* about to append, is in no row.
OneRowPerEdge ==
  /\ \A e, f \in edges : e.id = f.id => e = f
  /\ \A e \in edges : e.id \notin unused
  /\ link.pc \in {"from", "to", "append"} =>
       link.edge \notin unused /\ \A e \in edges : e.id # link.edge

SweepInv ==
  still => /\ call.pc # "failed"
           /\ call.pc \in {"expand", "rows"} => Swept(Readable, call)
           /\ call.pc = "done" /\ ~ AtLimit => Complete(Readable, call)

\* The loops of Neighbors keep it: a hop ends with every edge at its nodes taken, and a
\* traversal with all within reach.
LEMMA AdvanceSweeps ==
  ASSUME NEW STATE c, NEW STATE G, Body(c), Swept(G, c), NEW STATE d, d = Advance(c)
  PROVE  /\ d.pc \in {"expand", "rows", "done"} /\ d.query = c.query
         /\ d.pc \in {"expand", "rows"} => Swept(G, d)
         /\ d.pc = "done" => Complete(G, d)
<1>2. /\ c \in Call /\ c.hop \in 0 .. 2 /\ c.hop \in 0 .. 3 /\ c.hop + 1 \in 0 .. 3
      /\ ClampHops(c.query.maxHops) \in 1 .. 3 /\ c.hop + 1 <= ClampHops(c.query.maxHops)
  BY HopRange
<1>3. /\ d.query = c.query /\ d.pending = c.pending /\ d.entities = c.entities /\ d.edges = c.edges
      /\ \/ d.pc = "rows" /\ d.hop = c.hop /\ d.frontier = c.frontier /\ d.next = c.next
         \/ /\ d.pc = "expand" /\ d.hop = c.hop /\ d.frontier = c.frontier /\ d.next = c.next
            /\ c.pending = {}
         \/ /\ d.pc = "done" /\ c.pending = {} /\ c.frontier = <<>>
            /\ c.next = <<>> \/ c.hop + 1 = ClampHops(c.query.maxHops)
         \/ /\ d.pc = "expand" /\ d.hop = c.hop + 1 /\ d.frontier = c.next /\ d.next = <<>>
            /\ c.pending = {} /\ c.frontier = <<>> /\ c.hop + 1 # ClampHops(c.query.maxHops)
  BY <1>2, AdvanceFields
<1> DEFINE W(h) == Within(G, c.query.start, h)
<1>4. Members(<<>>) = {}
  BY DEF Members
<1>5. ASSUME c.pending = {}, c.frontier = <<>>
      PROVE  /\ c.entities = W(c.hop + 1)
             /\ c.edges = {e \in G : Ends(e) \cap W(c.hop) # {}}
  <2>1. c.edges = {e \in G : Ends(e) \cap W(c.hop) # {}}
    BY <1>4, <1>5 DEF Swept
  <2>2. \A e \in G : Ends(e) \cap W(c.hop) # {} => Ends(e) \subseteq c.entities
    BY <2>1 DEF Swept
  <2>3. W(c.hop + 1) = Near(G, W(c.hop))
    BY <1>2, WithinStep
  <2>4. W(c.hop) \subseteq c.entities /\ c.entities \subseteq W(c.hop + 1)
    BY DEF Swept
  <2>. HIDE DEF W
  <2>5. W(c.hop + 1) \subseteq c.entities
    BY <2>2, <2>3, <2>4 DEF Near
  <2>. QED  BY <2>1, <2>4, <2>5
<1>6. CASE d.pc = "done"
  <2>1. c.pending = {} /\ c.frontier = <<>> /\ (c.next = <<>> \/ c.hop + 1 = ClampHops(c.query.maxHops))
    BY <1>3, <1>6
  <2>2. c.entities = W(c.hop + 1) /\ c.edges = {e \in G : Ends(e) \cap W(c.hop) # {}}
    BY <1>5, <2>1
  <2>3. ASSUME c.hop + 1 = ClampHops(c.query.maxHops)
        PROVE  /\ c.entities = W(ClampHops(c.query.maxHops))
               /\ c.edges = {e \in G : Ends(e) \cap W(ClampHops(c.query.maxHops) - 1) # {}}
    <3>1. ClampHops(c.query.maxHops) - 1 = c.hop
      BY <1>2, <2>3
    <3>2. /\ W(ClampHops(c.query.maxHops)) = W(c.hop + 1)
          /\ W(ClampHops(c.query.maxHops) - 1) = W(c.hop)
      BY <2>3, <3>1
    <3>. HIDE DEF W
    <3>. QED  BY <2>2, <3>2
  <2>4. ASSUME c.next = <<>>
        PROVE  /\ c.entities = W(ClampHops(c.query.maxHops))
               /\ c.edges = {e \in G : Ends(e) \cap W(ClampHops(c.query.maxHops) - 1) # {}}
    <3>1. c.entities \subseteq W(c.hop)
      BY <1>4, <2>4 DEF Swept
    <3>2. W(c.hop) \subseteq W(c.hop + 1)
      BY <1>2, WithinFurther
    <3>3. W(c.hop + 1) = W(c.hop)
      BY <2>2, <3>1, <3>2
    <3>4. /\ ClampHops(c.query.maxHops) \in 0 .. 3 /\ c.hop <= ClampHops(c.query.maxHops)
          /\ ClampHops(c.query.maxHops) - 1 \in 0 .. 3 /\ c.hop <= ClampHops(c.query.maxHops) - 1
      BY <1>2
    <3>5. W(ClampHops(c.query.maxHops)) = W(c.hop) /\ W(ClampHops(c.query.maxHops) - 1) = W(c.hop)
      BY <1>2, <3>3, <3>4, WithinSettles
    <3>. HIDE DEF W
    <3>. QED  BY <2>2, <3>3, <3>5
  <2>5. /\ c.entities = W(ClampHops(c.query.maxHops))
        /\ c.edges = {e \in G : Ends(e) \cap W(ClampHops(c.query.maxHops) - 1) # {}}
    BY <2>1, <2>3, <2>4
  <2>6. Complete(G, c)
    BY <2>5, Zenon DEF Complete
  <2>7. Complete(G, d) <=> Complete(G, c)
    BY <1>3 DEF Complete
  <2>. QED  BY <1>3, <1>6, <2>6, <2>7
<1>7. CASE d.hop = c.hop /\ d.frontier = c.frontier /\ d.next = c.next /\ d.pc \in {"expand", "rows"}
  <2>1. Swept(G, d)
    BY <1>3, <1>7 DEF Swept
  <2>. QED  BY <1>3, <1>7, <2>1
<1>8. CASE /\ d.pc = "expand" /\ d.hop = c.hop + 1 /\ d.frontier = c.next /\ d.next = <<>>
           /\ c.pending = {} /\ c.frontier = <<>> /\ c.hop + 1 # ClampHops(c.query.maxHops)
  <2>1. c.entities = W(c.hop + 1) /\ c.edges = {e \in G : Ends(e) \cap W(c.hop) # {}}
    BY <1>5, <1>8
  <2>2. d.hop \in 0 .. 3 /\ d.hop + 1 \in 0 .. 3 /\ c.hop <= c.hop + 1 /\ d.hop <= d.hop + 1
    BY <1>2, <1>8
  <2>3. W(c.hop) \subseteq W(c.hop + 1) /\ W(d.hop) \subseteq W(d.hop + 1)
    BY <1>2, <2>2, WithinFurther
  <2>4. /\ Members(c.next) \subseteq c.entities /\ c.entities \subseteq W(c.hop) \cup Members(c.next)
        /\ \A e \in c.edges : Ends(e) \subseteq c.entities
    BY DEF Swept
  <2>. HIDE DEF W
  <2>5. \A e \in G : Ends(e) \cap W(c.hop + 1) # {} => e \in c.edges \/ Ends(e) \cap Members(c.next) # {}
    BY <2>1, <2>4
  <2>6. \A e \in c.edges : e \in G /\ Ends(e) \cap W(c.hop + 1) # {}
    BY <2>1, <2>3
  <2>. USE DEF W
  <2>7. d.query.start = c.query.start /\ d.hop = c.hop + 1
    BY <1>3, <1>8
  <2>8. Swept(G, d)
    BY <1>3, <1>4, <1>8, <2>1, <2>3, <2>4, <2>5, <2>6 DEF Swept
  <2>. QED  BY <1>3, <1>8, <2>8
<1>. QED  BY <1>3, <1>6, <1>7, <1>8

LEMMA OneRowInit ==
  ASSUME Init
  PROVE  OneRowPerEdge
<1>1. PICK E \in SUBSET EdgeIds : edges = {RowOf(e) : e \in E} /\ unused = (NodeIds \ nodes) \cup (EdgeIds \ E)
  BY DEF Init
<1>2. \A e \in EdgeIds : RowOf(e).id = e
  BY DEF RowOf
<1>3. link.pc = "idle"
  BY DEF Init
<1>. QED  BY <1>1, <1>2, <1>3, TraversalAssumption DEF OneRowPerEdge

LEMMA OneRowStep ==
  ASSUME TInv, OneRowPerEdge, [Next]_vars
  PROVE  OneRowPerEdge'
<1>1. \A e \in EdgeIds : RowOf(e).id = e
  BY DEF RowOf
<1>2. CASE LinkBegin
  BY <1>2 DEF LinkBegin, OneRowPerEdge, TInv, LinkOK, Link
<1>3. CASE LinkCheck
  BY <1>3 DEF LinkCheck, graph, OneRowPerEdge, TInv, LinkOK, Link
<1>4. CASE LinkAppend
  <2>1. link \in Link /\ link.edge \in EdgeIds
    BY DEF TInv, LinkOK, Link
  <2>2. /\ link'.pc \in {"written", "refused"} /\ unused' = unused
        /\ edges' = edges \/ edges' = edges \cup {RowOf(link.edge)}
        /\ link.pc = "append"
    BY <1>4, <2>1 DEF LinkAppend, Link
  <2>. QED  BY <1>1, <2>1, <2>2 DEF OneRowPerEdge
<1>5. ASSUME NEW n \in NodeIds, AssertEntity(n) PROVE OneRowPerEdge'
  BY <1>5 DEF AssertEntity, Write, OneRowPerEdge
<1>6. ASSUME NEW e \in EdgeIds, AssertEdge(e) PROVE OneRowPerEdge'
  BY <1>1, <1>6 DEF AssertEdge, Write, OneRowPerEdge
<1>7. ASSUME NEW e \in edges, RetractEdge(e) PROVE OneRowPerEdge'
  BY <1>7 DEF RetractEdge, Write, OneRowPerEdge
<1>8. ASSUME NEW n \in NodeIds, RetractEntity(n) PROVE OneRowPerEdge'
  BY <1>8 DEF RetractEntity, Write, OneRowPerEdge
<1>9. ASSUME NEW m \in NodeIds, NEW n \in NodeIds, Merge(m, n) PROVE OneRowPerEdge'
  <2> DEFINE point(i) == IF i = n THEN m ELSE i
             moved(e) == [e EXCEPT !.from = point(e.from), !.to = point(e.to)]
  <2>1. edges' = {moved(e) : e \in edges} /\ unused' = unused /\ link' = link
    BY <1>9 DEF Merge, Write
  <2>2. \A e \in edges : moved(e).id = e.id
    BY DEF TInv, GraphOK, EdgeRow
  <2>. HIDE DEF moved
  <2>. QED  BY <2>1, <2>2 DEF OneRowPerEdge
<1>10. CASE UNCHANGED <<edges, unused, link>>
  BY <1>10 DEF OneRowPerEdge
<1>11. Begin \/ Expand \/ Row \/ UNCHANGED vars => UNCHANGED <<edges, unused, link>>
  BY DEF Begin, Expand, Row, graph, vars
<1>. QED  BY <1>2, <1>3, <1>4, <1>5, <1>6, <1>7, <1>8, <1>9, <1>10, <1>11 DEF Next, Others

LEMMA BeginSweeps ==
  ASSUME TInv, HungInv, Begin
  PROVE  SweepInv'
<1> DEFINE start == call.query.start
<1>1. call \in Call /\ call.pc = "idle"
  BY DEF TInv, CallOK, Body, Begin
<1>2. CASE Found(start)
  <2>1. /\ call'.pc = "expand" /\ call'.frontier = <<start>> /\ call'.entities = {start}
        /\ call'.query = call.query /\ call'.pending = {} /\ call'.next = <<>> /\ call'.edges = {}
        /\ call'.hop = 0
    BY <1>1, <1>2 DEF Begin, Call, HungInv
  <2>2. Members(<<start>>) = {start} /\ Members(<<>>) = {}
    BY DEF Members
  <2>3. PICK G : G = Readable'
    OBVIOUS
  <2>4. Within(G, start, 0) = {start} /\ start \in Within(G, start, 0 + 1)
    <3>1. Within(G, start, 0 + 1) = Near(G, Within(G, start, 0))
      BY WithinStep
    <3>. QED  BY <3>1, WithinStep DEF Near
  <2>5. ASSUME NEW d, d = call'
        PROVE  Swept(G, d)'
    <3>1. /\ d.frontier = <<start>> /\ d.entities = {start} /\ d.query.start = start
          /\ d.pending = {} /\ d.next = <<>> /\ d.edges = {} /\ d.hop = 0
      BY <2>1, <2>5
    <3>2. Within(G, d.query.start, 0) = {start} /\ start \in Within(G, d.query.start, 0 + 1)
      BY <2>4, <3>1
    <3>. QED  BY <2>2, <3>1, <3>2 DEF Swept
  <2>6. PICK d : d = call'
    OBVIOUS
  <2>7. Swept(G, d)'
    BY <2>5, <2>6
  <2>. QED  BY <2>1, <2>3, <2>6, <2>7 DEF SweepInv
<1>3. CASE ~ Found(start)
  <2>1. call'.pc = "notfound"
    BY <1>1, <1>3 DEF Begin, Call
  <2>. QED  BY <2>1 DEF SweepInv
<1>. QED  BY <1>2, <1>3

\* A step of the traversal reads the same edges as the one before.
LEMMA ReadsTheSame ==
  ASSUME UNCHANGED <<graph, caller>>, call'.query = call.query
  PROVE  Readable' = Readable /\ UNCHANGED <<nodes, edges, still>>
BY DEF graph, Readable, CanRead

\* To a call whose loops go on.
LEMMA SweepGoesOn ==
  ASSUME NEW STATE c, Body(c), Swept(Readable, c), c.query = call.query, call' = Advance(c),
         UNCHANGED <<graph, caller>>
  PROVE  SweepInv'
<1>1. PICK d : d = Advance(c)
  OBVIOUS
<1>2. /\ d.pc \in {"expand", "rows", "done"} /\ d.query = c.query
      /\ d.pc \in {"expand", "rows"} => Swept(Readable, d)
      /\ d.pc = "done" => Complete(Readable, d)
  BY <1>1, AdvanceSweeps
<1>3. call' = d
  BY <1>1
<1>4. Readable' = Readable /\ UNCHANGED <<nodes, edges, still>>
  BY <1>2, <1>3, ReadsTheSame
<1>. QED  BY <1>2, <1>3, <1>4 DEF SweepInv, Swept

\* The rows of a query are the readable edges at its node.
LEMMA RowsAreReadable ==
  ASSUME TInv, NEW n \in NodeIds, NodeVisible(n)
  PROVE  /\ \A r \in IncidentVisible(n, call.query.predicates) : r.edge \in Readable /\ r.other \in nodes
         /\ \A e \in Readable : n \in Ends(e) =>
              \E r \in IncidentVisible(n, call.query.predicates) : r.edge = e
<1>1. GraphOK /\ caller \in Callers
  BY DEF TInv
<1>2. ASSUME NEW r \in IncidentVisible(n, call.query.predicates)
      PROVE  r.edge \in Readable /\ r.other \in nodes
  <2>1. /\ r.edge \in edges /\ r.other \in NodeIds /\ Ends(r.edge) = {n, r.other} /\ n # r.other
        /\ EdgeVisible(r.edge.id) /\ Found(r.other)
        /\ call.query.predicates = {} \/ Asserted[r.edge.id].predicate \in call.query.predicates
    BY <1>1, RowEnds
  <2>2. CanRead(EdgeGuard[r.edge.id]) /\ \A m \in Ends(r.edge) : CanRead(NodeGuard[m])
    BY <1>1, <2>1, ClauseIsCanRead DEF GraphOK, EdgeRow, Found
  <2>3. r.edge.from # r.edge.to
    BY <2>1 DEF Ends
  <2>. QED  BY <2>1, <2>2, <2>3 DEF Readable, Found
<1>3. ASSUME NEW e \in Readable, n \in Ends(e)
      PROVE  \E r \in IncidentVisible(n, call.query.predicates) : r.edge = e
  <2>1. /\ e \in edges /\ CanRead(EdgeGuard[e.id]) /\ \A m \in Ends(e) : CanRead(NodeGuard[m])
        /\ e.from # e.to
        /\ call.query.predicates = {} \/ Asserted[e.id].predicate \in call.query.predicates
    BY DEF Readable
  <2>2. OtherEnd(e, n) \in Ends(e) /\ OtherEnd(e, n) # n
    BY <1>3, <2>1 DEF OtherEnd, Ends
  <2>3. e.id \in EdgeIds /\ Ends(e) \subseteq nodes /\ Ends(e) \subseteq NodeIds
    BY <1>1, <2>1 DEF GraphOK, EdgeRow, Ends
  <2>4. EdgeVisible(e.id) /\ Found(OtherEnd(e, n))
    BY <1>1, <2>1, <2>2, <2>3, ClauseIsCanRead DEF Found
  <2>5. [edge |-> e, other |-> OtherEnd(e, n)] \in IncidentVisible(n, call.query.predicates)
    BY <1>3, <2>1, <2>2, <2>4 DEF IncidentVisible
  <2>. QED  BY <2>5
<1>. QED  BY <1>2, <1>3

LEMMA ExpandSweeps ==
  ASSUME TInv, HungInv, SweepInv, Expand
  PROVE  SweepInv'
<1> DEFINE n == Head(call.frontier)
           rows == IncidentVisible(n, call.query.predicates)
           c == [call EXCEPT !.frontier = Tail(call.frontier), !.pending = rows]
<1>1. /\ call \in Call /\ call.frontier \in Seq(NodeIds) /\ call.frontier # <<>> /\ Body(call)
      /\ GraphOK /\ call' = Advance(c) /\ call.pc = "expand" /\ call.pending = {}
      /\ UNCHANGED <<graph, caller>> /\ Hung(call)
  BY DEF TInv, CallOK, Body, Call, Expand, HungInv
<1>2. Tail(call.frontier) \in Seq(NodeIds) /\ n \in NodeIds
  BY <1>1, HeadTailProperties
<1>3. Members(call.frontier) = {n} \cup Members(Tail(call.frontier))
  BY <1>1, MembersOfTail
<1>4. n \in call.entities /\ NodeVisible(n)
  BY <1>1, <1>3 DEF Hung, Body
<1>5. /\ \A r \in rows : r.edge \in Readable /\ r.other \in nodes
      /\ \A e \in Readable : n \in Ends(e) => \E r \in rows : r.edge = e
  BY <1>2, <1>4, RowsAreReadable
<1>6. \A r \in rows : /\ r \in [edge : EdgeRow, other : NodeIds]
                      /\ EdgeVisible(r.edge.id) /\ NodeVisible(r.other)
                      /\ Ends(r.edge) = {n, r.other}
  <2>1. \A r \in rows : /\ r \in [edge : edges, other : NodeIds] /\ Ends(r.edge) = {n, r.other}
                        /\ EdgeVisible(r.edge.id) /\ Found(r.other)
    <3>. SUFFICES ASSUME NEW r \in IncidentVisible(n, call.query.predicates)
                  PROVE  /\ r \in [edge : edges, other : NodeIds] /\ Ends(r.edge) = {n, r.other}
                         /\ EdgeVisible(r.edge.id) /\ Found(r.other)
      OBVIOUS
    <3>1. GraphOK
      BY <1>1
    <3>. HIDE DEF n, c, rows
    <3>. QED  BY <3>1, RowEnds
  <2>. QED  BY <1>1, <2>1 DEF GraphOK, Found
<1>. HIDE DEF rows
<1>7. Body(c)
  BY <1>1, <1>2, <1>6 DEF Body, Call
<1>8. /\ c.query = call.query /\ c.hop = call.hop /\ c.entities = call.entities /\ c.edges = call.edges
      /\ c.next = call.next /\ c.frontier = Tail(call.frontier) /\ c.pending = rows
  BY <1>1 DEF Call
<1>. HIDE DEF c
<1>9. CASE still
  <2>1. Swept(Readable, call)
    BY <1>1, <1>9 DEF SweepInv
  <2>2. Swept(Readable, c)
    <3> DEFINE W(h) == Within(Readable, call.query.start, h)
    <3>1. \A r \in rows : /\ r.edge \in Readable /\ r.other \in nodes
                          /\ \E m \in W(call.hop) : Ends(r.edge) = {m, r.other}
      <4>1. n \in W(call.hop)
        BY <1>3, <2>1 DEF Swept
      <4>. QED  BY <1>5, <1>6, <4>1
    <3>2. \A e \in Readable : Ends(e) \cap W(call.hop) # {} =>
            \/ e \in call.edges
            \/ \E r \in rows : r.edge = e
            \/ Ends(e) \cap Members(Tail(call.frontier)) # {}
      <4>1. \A e \in Readable : Ends(e) \cap W(call.hop) # {} =>
              e \in call.edges \/ Ends(e) \cap Members(call.frontier) # {}
        BY <1>1, <2>1 DEF Swept
      <4>. HIDE DEF W
      <4>. QED  BY <1>3, <1>5, <4>1
    <3>. QED  BY <1>3, <1>8, <2>1, <3>1, <3>2 DEF Swept
  <2>. QED  BY <1>1, <1>7, <1>8, <2>2, SweepGoesOn
<1>10. CASE ~ still
  BY <1>1, <1>10 DEF SweepInv, graph
<1>. QED  BY <1>9, <1>10

LEMMA RowSweeps ==
  ASSUME TInv, HungInv, SweepInv, OneRowPerEdge, Row
  PROVE  SweepInv'
<1>1. PICK r \in call.pending : call' = Take(r)
  BY DEF Row
<1> DEFINE rest  == [call EXCEPT !.pending = call.pending \ {r}]
           added == [rest EXCEPT !.edges = rest.edges \cup {r.edge}]
           grown == [added EXCEPT !.entities = added.entities \cup {r.other},
                                  !.next = Append(added.next, r.other)]
<1>2. /\ call \in Call /\ Body(call) /\ call.next \in Seq(NodeIds) /\ Hung(call) /\ call.pc = "rows"
      /\ r.edge \in EdgeRow /\ r.other \in NodeIds /\ EdgeVisible(r.edge.id) /\ NodeVisible(r.other)
      /\ UNCHANGED <<graph, caller>>
  BY DEF TInv, CallOK, Body, Call, Row, HungInv
<1>3. Body(rest)
  BY <1>2 DEF Body, Call
<1>4. Body(added)
  BY <1>2, <1>3 DEF Body, Call
<1>5. Body(grown)
  <2>1. Append(added.next, r.other) \in Seq(NodeIds)
    BY <1>2 DEF Call
  <2>. HIDE DEF rest
  <2>2. added \in Call
    BY <1>4 DEF Body
  <2>. HIDE DEF added
  <2>. QED  BY <1>2, <1>4, <2>1, <2>2 DEF Body, Call
<1>6. /\ rest.query = call.query /\ rest.hop = call.hop /\ rest.entities = call.entities
      /\ rest.edges = call.edges /\ rest.next = call.next /\ rest.frontier = call.frontier
      /\ rest.pending = call.pending \ {r}
  BY <1>2 DEF Call
<1>7. /\ added.query = call.query /\ added.hop = call.hop /\ added.entities = call.entities
      /\ added.edges = call.edges \cup {r.edge} /\ added.next = call.next
      /\ added.frontier = call.frontier /\ added.pending = call.pending \ {r}
  BY <1>2 DEF Call
<1>8. /\ grown.query = call.query /\ grown.hop = call.hop /\ grown.entities = call.entities \cup {r.other}
      /\ grown.edges = call.edges \cup {r.edge} /\ grown.next = Append(call.next, r.other)
      /\ grown.frontier = call.frontier /\ grown.pending = call.pending \ {r}
  BY <1>2 DEF Call
<1>9. \/ (\E e \in call.edges : e.id = r.edge.id) /\ call' = Advance(rest)
      \/ r.other \in call.entities /\ call' = Advance(added)
      \/ r.other \notin nodes
      \/ Full(grown) /\ call' = [grown EXCEPT !.pc = "done"]
      \/ ~ Full(grown) /\ call' = Advance(grown)
  BY <1>1, <1>2 DEF Take
<1>10. /\ [grown EXCEPT !.pc = "done"].pc = "done" /\ [grown EXCEPT !.pc = "done"].query = call.query
       /\ [grown EXCEPT !.pc = "done"].entities = grown.entities
  BY <1>2 DEF Call
<1>. HIDE DEF rest, added, grown
<1>11. CASE ~ still
  BY <1>2, <1>11 DEF SweepInv, graph
<1>12. CASE still
  <2> DEFINE W(h) == Within(Readable, call.query.start, h)
  <2>1. Swept(Readable, call)
    BY <1>2, <1>12 DEF SweepInv
  <2>2. call.hop \in 0 .. 2 /\ call.hop \in 0 .. 3 /\ call.hop + 1 \in 0 .. 3
    BY <1>2, HopRange
  <2>3. /\ r.edge \in Readable /\ r.other \in nodes
        /\ \E n \in W(call.hop) : Ends(r.edge) = {n, r.other}
    BY <2>1 DEF Swept
  <2>4. PICK n \in W(call.hop) : Ends(r.edge) = {n, r.other}
    BY <2>3
  <2>5. n \in call.entities /\ Ends(r.edge) \cap W(call.hop) # {}
    BY <2>1, <2>4 DEF Swept
  <2>6. r.other \in W(call.hop + 1)
    <3>1. W(call.hop + 1) = Near(Readable, W(call.hop))
      BY <2>2, WithinStep
    <3>. HIDE DEF W
    <3>. QED  BY <2>3, <2>4, <2>5, <3>1 DEF Near
  <2>7. Members(Append(call.next, r.other)) = Members(call.next) \cup {r.other}
    BY <1>2, MembersOfAppend
  <2>8. CASE (\E e \in call.edges : e.id = r.edge.id) /\ call' = Advance(rest)
    <3>1. PICK e \in call.edges : e.id = r.edge.id
      BY <2>8
    <3>2. e \in edges /\ r.edge \in edges
      BY <2>1, <2>3 DEF Swept, Readable
    <3>3. r.edge \in call.edges
      BY <3>1, <3>2 DEF OneRowPerEdge
    <3>4. Swept(Readable, rest)
      BY <1>6, <2>1, <3>3 DEF Swept
    <3>. QED  BY <1>2, <1>3, <1>6, <2>8, <3>4, SweepGoesOn
  <2>9. CASE r.other \in call.entities /\ call' = Advance(added)
    <3>1. Ends(r.edge) \subseteq call.entities
      BY <2>4, <2>5, <2>9
    <3>2. Swept(Readable, added)
      BY <1>7, <2>1, <2>3, <2>5, <3>1 DEF Swept
    <3>. QED  BY <1>2, <1>4, <1>7, <2>9, <3>2, SweepGoesOn
  <2>10. CASE Full(grown) /\ call' = [grown EXCEPT !.pc = "done"]
    <3>1. call.query.limit > 0 /\ Cardinality(grown.entities) >= call.query.limit
      BY <1>8, <2>10 DEF Full
    <3>2. call'.pc = "done" /\ call'.query = call.query /\ call'.entities = grown.entities
      BY <1>10, <2>10
    <3>3. AtLimit'
      BY <3>1, <3>2 DEF AtLimit
    <3>. QED  BY <3>2, <3>3 DEF SweepInv
  <2>11. CASE ~ Full(grown) /\ call' = Advance(grown)
    <3>1. Ends(r.edge) \subseteq grown.entities
      BY <1>8, <2>4, <2>5
    <3>2. Swept(Readable, grown)
      BY <1>8, <2>1, <2>3, <2>5, <2>6, <2>7, <3>1 DEF Swept
    <3>. QED  BY <1>2, <1>5, <1>8, <2>11, <3>2, SweepGoesOn
  <2>. QED  BY <1>9, <2>3, <2>8, <2>9, <2>10, <2>11
<1>. QED  BY <1>11, <1>12

\* A write of another ends the stillness; a read of Link changes nothing of it.
LEMMA SweepElse ==
  ASSUME SweepInv, UNCHANGED call, still' = FALSE \/ UNCHANGED <<nodes, edges, caller, still>>
  PROVE  SweepInv'
<1>1. CASE still' = FALSE
  BY <1>1 DEF SweepInv
<1>2. CASE UNCHANGED <<nodes, edges, caller, still>>
  <2>1. Readable' = Readable
    BY <1>2 DEF Readable, CanRead
  <2>2. PICK c, G : c = call /\ G = Readable
    OBVIOUS
  <2>3. Swept(G, c)' <=> Swept(G, c)
    BY <1>2 DEF Swept
  <2>4. AtLimit' <=> AtLimit
    BY DEF AtLimit
  <2>. QED  BY <1>2, <2>1, <2>2, <2>3, <2>4 DEF SweepInv
<1>. QED  BY <1>1, <1>2

\* A traversal of a graph that does not change fails at nothing and, unless it returns as
\* many entities as its limit, returns every node within its hops and every edge it passed
\* (Neighbors).
THEOREM CompleteWhenStillEver == Spec => []CompleteWhenStill
<1>1. Init => OneRowPerEdge /\ HungInv /\ SweepInv
  <2>1. Init => HungInv /\ SweepInv
    BY DEF Init, HungInv, NothingBridged, SweepInv
  <2>. QED  BY <2>1, OneRowInit
<1>2. ASSUME TInv, OneRowPerEdge, HungInv, SweepInv, [Next]_vars
      PROVE  OneRowPerEdge' /\ HungInv' /\ SweepInv'
  <2>1. OneRowPerEdge'
    BY <1>2, OneRowStep
  <2>2. HungInv'
    BY <1>2, HungStep
  <2>3. Begin => SweepInv'
    BY <1>2, BeginSweeps
  <2>4. Expand => SweepInv'
    BY <1>2, ExpandSweeps
  <2>5. Row => SweepInv'
    BY <1>2, RowSweeps
  <2>6. LinkBegin \/ LinkCheck \/ LinkAppend \/ Others \/ UNCHANGED vars =>
          UNCHANGED call /\ (still' = FALSE \/ UNCHANGED <<nodes, edges, caller, still>>)
    BY DEF LinkBegin, LinkCheck, LinkAppend, Others, AssertEntity, AssertEdge, RetractEdge,
           RetractEntity, Merge, Write, graph, vars
  <2>7. SweepInv'
    BY <1>2, <2>3, <2>4, <2>5, <2>6, SweepElse DEF Next
  <2>. QED  BY <2>1, <2>2, <2>7
<1>3. SweepInv => CompleteWhenStill
  BY DEF SweepInv, CompleteWhenStill, Complete
<1>. QED  BY <1>1, <1>2, <1>3, TInductive, PTL DEF Spec

=============================================================================
