----------------------------- MODULE Traversal -----------------------------
(***************************************************************************)
(* Store.Neighbors, the access-filtered traversal of the SQLite adapter,    *)
(* and Service.Link, whose gate reads the graph through the same filter.    *)
(*                                                                          *)
(* Both are several statements, and neither holds a transaction over them:  *)
(* Neighbors reads the start, then the edges of one frontier node at a      *)
(* time, then each new far endpoint by its id; Link reads one endpoint, the *)
(* other, and then appends.  Between two of them the write connection       *)
(* asserts, retracts and merges.  Calls of Neighbors share nothing but the  *)
(* graph, so there is one; so with Link.                                    *)
(*                                                                          *)
(* The columns the filter looks at (space, owner, visibility, type) are set *)
(* when a row is inserted and no statement updates them: a node or an edge  *)
(* has them once and for all.                                               *)
(***************************************************************************)
EXTENDS Integers, Sequences, FiniteSets

CONSTANTS
  NodeIds,     \* entity ids
  EdgeIds,     \* edge ids
  Spaces,      \* SpaceIDs
  Principals,  \* PrincipalIDs
  Types,       \* @types of entities
  NoType,      \* edges have no @type column
  Predicates,  \* predicates of edges
  DenyTypes,   \* Model.denyTypes: the types a restricted principal is denied
  NodeGuard,   \* the guarded columns of each entity
  EdgeGuard,   \* the guarded columns of each edge
  Asserted,    \* predicate and endpoints each edge is asserted with
  Callers,     \* the decisions that are tried
  Queries,     \* the NeighborQuerys that are tried
  MaxWrites    \* bound: how many writes of others interleave

Guarded == [space : Spaces, owner : Principals, type : Types \cup {NoType},
            visibility : {"public", "space", "private"}]
Principal == [id : Principals, spaces : SUBSET Spaces, writeSpaces : SUBSET Spaces,
              restricted : BOOLEAN]
NeighborQuery == [start : NodeIds, predicates : SUBSET Predicates, maxHops : Int, limit : Int]

ASSUME TraversalAssumption ==
  /\ IsFiniteSet(NodeIds) /\ IsFiniteSet(EdgeIds)
  /\ NodeIds \cap EdgeIds = {}
  /\ NoType \notin Types /\ DenyTypes \subseteq Types
  /\ NodeGuard \in [NodeIds -> Guarded]
  /\ EdgeGuard \in [EdgeIds -> {g \in Guarded : g.type = NoType}]
  /\ Asserted \in [EdgeIds -> [predicate : Predicates, from : NodeIds, to : NodeIds]]
  /\ Callers \subseteq Principal
  /\ Queries \subseteq NeighborQuery
  /\ MaxWrites \in Nat

VARIABLES
  nodes,   \* the entities table
  edges,   \* the edges table
  unused,  \* the ids no entity or edge has had yet
  writes,  \* how many writes of others have interleaved
  caller,  \* the decision both calls run under
  call,    \* the call of Neighbors
  link,    \* the call of Link
  still    \* history: the graph at the start of the traversal has not changed

vars == <<nodes, edges, unused, writes, caller, call, link, still>>
graph == <<nodes, edges, unused, writes, still>>

EdgeRow == [id : EdgeIds, from : NodeIds, to : NodeIds]
RowOf(e) == [id |-> e, from |-> Asserted[e].from, to |-> Asserted[e].to]
Ends(e) == {e.from, e.to}

\* Where a traversal stands: the nodes still to expand at this hop and at the next, the
\* rows of the last query still to look at, and what will be returned.  Every entity
\* visited is returned, and so is every edge seen.
Call == [pc : {"idle", "expand", "rows", "done", "notfound", "failed"}, query : Queries,
         hop : 0 .. 2, frontier : Seq(NodeIds), next : Seq(NodeIds),
         pending : SUBSET [edge : EdgeRow, other : NodeIds],
         entities : SUBSET NodeIds, edges : SUBSET EdgeRow]
Link == [pc : {"idle", "from", "to", "append", "refused", "written"}, edge : EdgeIds]

----------------------------------------------------------------------------
(* The access filter as a WHERE clause. *)

\* accessClause of the filter FilterFor makes of the decision.
AccessClause(g, gateTypes) ==
  /\ \/ g.visibility = "public"
     \/ g.visibility = "space" /\ g.space \in caller.spaces
     \/ g.visibility = "private" /\ g.owner = caller.id
  /\ ~ (gateTypes /\ caller.restricted /\ g.type \in DenyTypes)

NodeVisible(n) == AccessClause(NodeGuard[n], TRUE)
EdgeVisible(e) == AccessClause(EdgeGuard[e], FALSE)

\* GetEntity under the filter.
Found(n) == n \in nodes /\ NodeVisible(n)

----------------------------------------------------------------------------
(* Neighbors. *)

ClampHops(n) == IF n <= 0 THEN 1 ELSE IF n > 3 THEN 3 ELSE n

OtherEnd(e, n) == IF e.to = n THEN e.from ELSE e.to

\* DEFECT: only the edge is filtered.
IncidentByEdgeOnly(n, predicates) ==
  {[edge |-> e, other |-> OtherEnd(e, n)] :
     e \in {x \in edges : /\ n \in Ends(x) /\ OtherEnd(x, n) # n
                          /\ EdgeVisible(x.id)
                          /\ predicates = {} \/ Asserted[x.id].predicate \in predicates}}

\* incidentVisible: one query; edge and far endpoint pass the filter, self-loops do not.
IncidentVisible(n, predicates) ==
  {[edge |-> e, other |-> OtherEnd(e, n)] :
     e \in {x \in edges : /\ n \in Ends(x) /\ OtherEnd(x, n) # n
                          /\ EdgeVisible(x.id) /\ Found(OtherEnd(x, n))
                          /\ predicates = {} \/ Asserted[x.id].predicate \in predicates}}

\* DEFECT: one hop too many.
AdvanceTooFar(c) ==
  IF c.pending # {} THEN [c EXCEPT !.pc = "rows"]
  ELSE IF c.frontier # <<>> THEN [c EXCEPT !.pc = "expand"]
  ELSE IF c.next = <<>> \/ c.hop = ClampHops(c.query.maxHops) THEN [c EXCEPT !.pc = "done"]
  ELSE [c EXCEPT !.pc = "expand", !.hop = @ + 1, !.frontier = c.next, !.next = <<>>]

\* Where the loops go when a row or a query is done with.
Advance(c) ==
  IF c.pending # {} THEN [c EXCEPT !.pc = "rows"]
  ELSE IF c.frontier # <<>> THEN [c EXCEPT !.pc = "expand"]
  ELSE IF c.next = <<>> \/ c.hop + 1 = ClampHops(c.query.maxHops) THEN [c EXCEPT !.pc = "done"]
  ELSE [c EXCEPT !.pc = "expand", !.hop = @ + 1, !.frontier = c.next, !.next = <<>>]

\* The start is read like any entity.
Begin ==
  LET start == call.query.start
  IN /\ call.pc = "idle"
     /\ call' = IF Found(start)
                THEN [call EXCEPT !.pc = "expand", !.frontier = <<start>>, !.entities = {start}]
                ELSE [call EXCEPT !.pc = "notfound"]
     /\ still' = TRUE
     /\ UNCHANGED <<nodes, edges, unused, writes, caller, link>>

\* The query for the edges of the next frontier node.
Expand ==
  /\ call.pc = "expand"
  /\ call' = Advance([call EXCEPT
               !.frontier = Tail(@),
               !.pending = IncidentVisible(Head(call.frontier), call.query.predicates)])
  /\ UNCHANGED <<graph, caller, link>>

\* DEFECT: an edge to a node visited before is not returned.
TakeNewOnly(r) ==
  LET rest  == [call EXCEPT !.pending = @ \ {r}]
      grown == [rest EXCEPT !.edges = @ \cup {r.edge}, !.entities = @ \cup {r.other},
                            !.next = Append(@, r.other)]
  IN IF r.other \in call.entities THEN Advance(rest)
     ELSE IF r.other \notin nodes THEN [rest EXCEPT !.pc = "failed"] ELSE Advance(grown)

\* The limit is looked at after an entity was added, never before.
Full(sub) == call.query.limit > 0 /\ Cardinality(sub.entities) >= call.query.limit

\* One row: an edge seen before, an edge to a node visited before, or a new node, which
\* is loaded by its id and without the filter.
Take(r) ==
  LET rest  == [call EXCEPT !.pending = @ \ {r}]
      added == [rest EXCEPT !.edges = @ \cup {r.edge}]
      grown == [added EXCEPT !.entities = @ \cup {r.other}, !.next = Append(@, r.other)]
  IN IF \E e \in call.edges : e.id = r.edge.id THEN Advance(rest)
     ELSE IF r.other \in call.entities THEN Advance(added)
     ELSE IF r.other \notin nodes THEN [added EXCEPT !.pc = "failed"]
     ELSE IF Full(grown) THEN [grown EXCEPT !.pc = "done"] ELSE Advance(grown)

\* The rows come in any order: the query has no ORDER BY.
Row ==
  /\ call.pc = "rows"
  /\ \E r \in call.pending : call' = Take(r)
  /\ UNCHANGED <<graph, caller, link>>

----------------------------------------------------------------------------
(* Link. *)

\* Authenticated, and CanWrite into the space of the edge.
LinkBegin ==
  LET e == link.edge
  IN /\ link.pc = "idle" /\ e \in unused /\ EdgeGuard[e].owner = caller.id
     /\ link' = [link EXCEPT !.pc = IF EdgeGuard[e].space \in caller.writeSpaces
                                    THEN "from" ELSE "refused"]
     /\ unused' = unused \ {e}
     /\ UNCHANGED <<nodes, edges, writes, caller, call, still>>

\* DEFECT: only the first endpoint is read.
LinkCheckOne ==
  /\ link.pc \in {"from", "to"}
  /\ link' = [link EXCEPT !.pc =
       IF link.pc = "to" THEN "append" ELSE IF Found(Asserted[link.edge].from) THEN "to" ELSE "refused"]
  /\ UNCHANGED <<graph, caller, call>>

\* authorizeLink reads one endpoint, then the other.
LinkCheck ==
  LET end == IF link.pc = "from" THEN Asserted[link.edge].from ELSE Asserted[link.edge].to
  IN /\ link.pc \in {"from", "to"}
     /\ link' = [link EXCEPT !.pc = IF ~ Found(end) THEN "refused"
                                    ELSE IF link.pc = "from" THEN "to" ELSE "append"]
     /\ UNCHANGED <<graph, caller, call>>

\* AppendEdgeFact of a new edge: refused by the foreign keys if an endpoint is gone by
\* now.  (A duplicate writes nothing: Store has it.)
LinkAppend ==
  /\ link.pc = "append"
  /\ IF Ends(RowOf(link.edge)) \subseteq nodes
     THEN /\ link' = [link EXCEPT !.pc = "written"]
          /\ edges' = edges \cup {RowOf(link.edge)} /\ still' = FALSE
     ELSE link' = [link EXCEPT !.pc = "refused"] /\ UNCHANGED <<edges, still>>
  /\ UNCHANGED <<nodes, unused, writes, caller, call>>

----------------------------------------------------------------------------
(* Writes of others, each one transaction. *)

Write ==
  /\ writes < MaxWrites /\ writes' = writes + 1 /\ still' = FALSE
  /\ UNCHANGED <<caller, call, link>>

AssertEntity(n) ==
  /\ Write /\ n \in unused
  /\ nodes' = nodes \cup {n} /\ unused' = unused \ {n}
  /\ UNCHANGED edges

AssertEdge(e) ==
  /\ Write /\ e \in unused /\ Ends(RowOf(e)) \subseteq nodes
  /\ edges' = edges \cup {RowOf(e)} /\ unused' = unused \ {e}
  /\ UNCHANGED nodes

RetractEdge(e) ==
  /\ Write /\ e \in edges
  /\ edges' = edges \ {e}
  /\ UNCHANGED <<nodes, unused>>

\* DEFECT: the edges of a retracted entity stay.
RetractWithoutCascade(n) ==
  /\ Write /\ n \in nodes
  /\ nodes' = nodes \ {n} /\ UNCHANGED <<edges, unused>>

RetractEntity(n) ==
  /\ Write /\ n \in nodes
  /\ nodes' = nodes \ {n}
  /\ edges' = {e \in edges : n \notin Ends(e)}
  /\ UNCHANGED unused

\* mergeEntitiesTx: the edges of drop become edges of keep.
Merge(keep, drop) ==
  LET point(n) == IF n = drop THEN keep ELSE n
  IN /\ Write /\ {keep, drop} \subseteq nodes /\ keep # drop
     /\ nodes' = nodes \ {drop}
     /\ edges' = {[e EXCEPT !.from = point(@), !.to = point(@)] : e \in edges}
     /\ UNCHANGED unused

Others ==
  \/ \E n \in NodeIds : AssertEntity(n)
  \/ \E e \in EdgeIds : AssertEdge(e)
  \/ \E e \in edges : RetractEdge(e)
  \/ \E n \in NodeIds : RetractEntity(n)
  \/ \E m, n \in NodeIds : Merge(m, n)

----------------------------------------------------------------------------

\* Any graph over the ids; two calls that have not begun, and their arguments.
Init ==
  /\ nodes \in SUBSET NodeIds
  /\ \E E \in SUBSET {e \in EdgeIds : Ends(RowOf(e)) \subseteq nodes} :
       edges = {RowOf(e) : e \in E} /\ unused = (NodeIds \ nodes) \cup (EdgeIds \ E)
  /\ writes = 0 /\ still = TRUE /\ caller \in Callers
  /\ \E q \in Queries :
       call = [pc |-> "idle", query |-> q, hop |-> 0, frontier |-> <<>>, next |-> <<>>,
               pending |-> {}, entities |-> {}, edges |-> {}]
  /\ \E e \in EdgeIds : link = [pc |-> "idle", edge |-> e]

Next ==
  \/ Begin \/ Expand \/ Row
  \/ LinkBegin \/ LinkCheck \/ LinkAppend
  \/ Others

Spec == Init /\ [][Next]_vars

----------------------------------------------------------------------------
(* Properties. *)

TraversalTypeOK ==
  /\ nodes \subseteq NodeIds /\ edges \subseteq EdgeRow /\ unused \subseteq NodeIds \cup EdgeIds
  /\ \A e \in edges : Ends(e) \subseteq nodes
  /\ writes \in 0 .. MaxWrites /\ caller \in Callers
  /\ call \in Call /\ link \in Link /\ still \in BOOLEAN

\* The hard ACL as Model.CanRead states it (jumpdrive.go CanRead).
CanRead(g) ==
  /\ caller.restricted => g.type \notin DenyTypes
  /\ CASE g.visibility = "public"  -> TRUE
       [] g.visibility = "space"   -> g.space \in caller.spaces
       [] g.visibility = "private" -> g.owner = caller.id

\* Whatever the graph does meanwhile, what is returned may be read: the clause and
\* CanRead agree, and the far endpoints that are loaded without the filter are those
\* the join let through (neighbors.go:12-23, 64).
NothingHidden ==
  /\ \A n \in call.entities : CanRead(NodeGuard[n])
  /\ \A e \in call.edges : CanRead(EdgeGuard[e.id])

\* The entities within h hops of the start along edges of F.
Within(F, start, h) ==
  LET R[i \in 0 .. h] == IF i = 0 THEN {start}
        ELSE R[i - 1] \cup UNION {Ends(e) : e \in {f \in F : Ends(f) \cap R[i - 1] # {}}}
  IN R[h]

\* "A hidden node cannot bridge two visible ones": what is returned hangs together by
\* itself, within the hops asked for (neighbors.go:14-17, store.go:71-72).
NothingBridged ==
  call.pc = "done" =>
    /\ \A e \in call.edges : Ends(e) \subseteq call.entities
    /\ call.entities \subseteq
         Within(call.edges, call.query.start, ClampHops(call.query.maxHops))

\* A traversal no write interfered with does not fail; and unless it returns as many
\* entities as its limit it leaves nothing out: it finds all nodes along readable edges over
\* readable nodes within its hops, and all edges it passed (neighbors.go Neighbors).
Readable == {e \in edges : /\ CanRead(EdgeGuard[e.id]) /\ \A n \in Ends(e) : CanRead(NodeGuard[n])
                           /\ e.from # e.to
                           /\ \/ call.query.predicates = {}
                              \/ Asserted[e.id].predicate \in call.query.predicates}
AtLimit == call.query.limit > 0 /\ Cardinality(call.entities) >= call.query.limit
CompleteWhenStill ==
  still =>
    LET hops == ClampHops(call.query.maxHops)
        reach(h) == Within(Readable, call.query.start, h)
    IN /\ call.pc # "failed"
       /\ call.pc = "done" /\ ~ AtLimit =>
            /\ call.entities = reach(hops)
            /\ call.edges = {e \in Readable : Ends(e) \cap reach(hops - 1) # {}}

\* The caller of Link could read both ends of the edge, although neither was looked at
\* in the transaction that wrote it (service.go authorizeLink).
LinksWhatItReads ==
  link.pc = "written" =>
    \A n \in Ends(RowOf(link.edge)) : CanRead(NodeGuard[n])

============================================================================
