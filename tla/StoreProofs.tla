---------------------------- MODULE StoreProofs ----------------------------
(* Proofs about Store, for every value of its constants. *)
EXTENDS Store, FiniteSetTheorems, WellFoundedInduction, TLAPS

----------------------------------------------------------------------------
(* Types of the folding operators. *)

\* What UpsertEntitySnapshot reads of its argument, a candidate or a logged snapshot.
Upsertable(c) ==
  /\ c.space \in Spaces
  /\ c.keys \in SUBSET Keys
  /\ c.vector \in Vectors \cup {NoVector}
  /\ c.props \in Objects \cup {JsonNull, NilProps}

\* A candidate, and what is logged of it, can be upserted (domain.Entity).
LEMMA CandidateUpsertable ==
  ASSUME NEW c \in Candidate
  PROVE  Upsertable(c) /\ Upsertable(Marshal(c)) /\ Marshal(c) \in Snapshot
BY StoreAssumption DEF Candidate, Upsertable, Marshal, Snapshot

\* Merging two objects that hold no objects yields one (json_patch below the top).
LEMMA NestedType ==
  ASSUME NEW t \in Nested, NEW u \in Nested
  PROVE  PatchNested(t, u) \in Nested
<1>1. PICK S \in SUBSET PropNames : t \in [S -> Scalars]
  BY DEF Nested
<1>2. PICK T \in SUBSET PropNames : u \in [T -> Scalars]
  BY DEF Nested
<1>3. Left(t, u) \in SUBSET PropNames
  BY <1>1, <1>2 DEF Left
<1>4. PatchNested(t, u) \in [Left(t, u) -> Scalars]
  BY <1>1, <1>2 DEF PatchNested, Left
<1>. QED  BY <1>3, <1>4 DEF Nested

\* The empty object is a property bag, and may be a member of one.
LEMMA EmptyIsObject == EmptyObject \in Objects /\ EmptyObject \in Nested
<1>1. EmptyObject \in [{} -> Scalars \cup Nested] /\ EmptyObject \in [{} -> Scalars]
  BY DEF EmptyObject
<1>. QED  BY <1>1 DEF Objects, Nested

\* A member of the patch leaves a string or an object.
LEMMA MemberType ==
  ASSUME NEW m \in Scalars \cup Nested, NEW u \in PropValues \cup Nested
  PROVE  PatchMember(m, u) \in PropValues \cup Nested
BY NestedType, EmptyIsObject DEF PatchMember

\* The union of two property bags is a property bag (json_patch of objects).
LEMMA PatchIsObject ==
  ASSUME NEW f \in Objects, NEW g \in Objects
  PROVE  PatchObject(f, g) \in Objects
<1>. DEFINE member(n) == IF n \in DOMAIN f THEN f[n] ELSE JsonNull
<1>1. PICK S \in SUBSET PropNames : f \in [S -> Scalars \cup Nested]
  BY DEF Objects
<1>2. PICK T \in SUBSET PropNames : g \in [T -> Scalars \cup Nested]
  BY DEF Objects
<1>3. Left(f, g) \in SUBSET PropNames
  BY <1>1, <1>2 DEF Left
<1>4. \A n : member(n) \in Scalars \cup Nested
  BY <1>1 DEF Scalars
<1>. HIDE DEF member
<1>5. ASSUME NEW n \in Left(f, g), n \in DOMAIN g
      PROVE  PatchMember(member(n), g[n]) \in Scalars \cup Nested
  <2>1. g[n] \in PropValues \cup Nested
    BY <1>2, <1>5 DEF Left, Scalars
  <2>. QED  BY <1>4, <2>1, MemberType DEF Scalars
<1>6. ASSUME NEW n \in Left(f, g), n \notin DOMAIN g
      PROVE  f[n] \in Scalars \cup Nested
  BY <1>1, <1>6 DEF Left
<1>7. PatchObject(f, g) = [n \in Left(f, g) |->
                            IF n \in DOMAIN g THEN PatchMember(member(n), g[n]) ELSE f[n]]
  BY DEF PatchObject, member
<1>8. PatchObject(f, g) \in [Left(f, g) -> Scalars \cup Nested]
  BY <1>5, <1>6, <1>7
<1>. QED  BY <1>3, <1>8 DEF Objects

\* json_patch yields an object or null.
LEMMA JsonPatchType ==
  ASSUME NEW t \in Objects \cup {JsonNull}, NEW u \in Objects \cup {JsonNull}
  PROVE  JsonPatch(t, u) \in Objects \cup {JsonNull}
BY PatchIsObject, EmptyIsObject DEF JsonPatch

\* The text indexed for a node is made of strings (extractSearchText).
LEMMA SearchTextType ==
  ASSUME NEW u \in Objects \cup {JsonNull}
  PROVE  SearchText(u) \in SUBSET PropValues
BY DEF SearchText

\* The props column an upsert leaves is an object or null.
LEMMA PatchedPropsType ==
  ASSUME NEW p \in Projection, NEW id \in EntityIds, NEW c, Upsertable(c)
  PROVE  /\ PatchedProps(p, id, c) \subseteq [entity : EntityIds, props : Objects \cup {JsonNull}]
         /\ \A r \in PatchedProps(p, id, c) : r.entity = id
<1>1. CASE id \notin Live(p)
  BY <1>1, EmptyIsObject DEF PatchedProps, Upsertable
<1>2. CASE id \in Live(p)
  <2>1. SUFFICES ASSUME NEW r \in PatchedProps(p, id, c)
                 PROVE  r \in [entity : EntityIds, props : Objects \cup {JsonNull}] /\ r.entity = id
    OBVIOUS
  <2>2. PICK q \in p.props : r = [entity |-> id, props |-> IF c.props = NilProps THEN q.props
                                                           ELSE JsonPatch(c.props, q.props)]
    BY <1>2, <2>1 DEF PatchedProps
  <2>3. q.props \in Objects \cup {JsonNull}
    BY <2>2 DEF Projection
  <2>4. c.props # NilProps => JsonPatch(c.props, q.props) \in Objects \cup {JsonNull}
    BY <2>3, JsonPatchType DEF Upsertable
  <2>. QED  BY <2>2, <2>3, <2>4
<1>. QED  BY <1>1, <1>2

\* Upserting a snapshot keeps the tables typed.
LEMMA UpsertEntityType ==
  ASSUME NEW p \in Projection, NEW id \in EntityIds, NEW c, Upsertable(c)
  PROVE  UpsertEntitySnapshot(p, id, c) \in Projection
<1> DEFINE q == UpsertEntitySnapshot(p, id, c)
<1>1. q.entities \subseteq [id : EntityIds, space : Spaces]
  BY DEF UpsertEntitySnapshot, Upsertable, Projection
<1>2. q.ext \subseteq [entity : EntityIds, key : Keys, space : Spaces]
  BY DEF UpsertEntitySnapshot, Upsertable, Projection, ClaimableKeys
<1>3. q.emb \subseteq [entity : EntityIds, vector : Vectors]
  BY DEF UpsertEntitySnapshot, Upsertable, Projection
<1>4. q.edges \subseteq EdgeRow
  BY DEF UpsertEntitySnapshot, Projection
<1>5. q.props \subseteq [entity : EntityIds, props : Objects \cup {JsonNull}]
  BY PatchedPropsType DEF UpsertEntitySnapshot, Projection
<1>6. q.fts \subseteq [entity : EntityIds, text : SUBSET PropValues]
  <2>1. \A r \in PatchedProps(p, id, c) : SearchText(r.props) \in SUBSET PropValues
    BY PatchedPropsType, SearchTextType
  <2>. QED  BY <2>1 DEF UpsertEntitySnapshot, SyncEntityFTS, Projection
<1>. QED
  BY <1>1, <1>2, <1>3, <1>4, <1>5, <1>6 DEF UpsertEntitySnapshot, Projection

\* Upserting an edge keeps the tables typed.
LEMMA UpsertEdgeType ==
  ASSUME NEW p \in Projection, NEW e \in EdgeRow
  PROVE  UpsertEdgeSnapshot(p, e) \in Projection
BY DEF UpsertEdgeSnapshot, Projection

\* Merging keeps the tables typed.
LEMMA MergeType ==
  ASSUME NEW p \in Projection, NEW keep \in EntityIds, NEW drops \in SUBSET EntityIds
  PROVE  MergeEntitiesTx(p, keep, drops) \in Projection
<1> DEFINE q == MergeEntitiesTx(p, keep, drops)
<1>1. q.ext \subseteq [entity : EntityIds, key : Keys, space : Spaces]
  BY DEF MergeEntitiesTx, Projection, MovedKeys
<1>2. q.emb \subseteq [entity : EntityIds, vector : Vectors]
  BY DEF MergeEntitiesTx, Projection, MovedEmbeddings
<1>3. q.edges \subseteq EdgeRow
  BY DEF MergeEntitiesTx, Projection, EdgeRow
<1>. QED
  BY <1>1, <1>2, <1>3 DEF MergeEntitiesTx, Projection

\* Deleting a node or an edge keeps the tables typed.
LEMMA DeleteType ==
  ASSUME NEW p \in Projection, NEW id
  PROVE  DeleteEntity(p, id) \in Projection /\ DeleteEdge(p, id) \in Projection
BY DEF DeleteEntity, DeleteEdge, Projection

----------------------------------------------------------------------------
(* Constraints of the schema. *)

\* A table state the schema accepts.
Good(p) == p \in Projection /\ References(p) /\ Uniqueness(p)

\* Upserting a snapshot breaks no foreign key and no uniqueness constraint, and
\* the node exists afterwards (upsertEntitySnapshot).
LEMMA UpsertEntityGood ==
  ASSUME NEW p, Good(p), NEW id \in EntityIds, NEW c, Upsertable(c)
  PROVE  /\ Good(UpsertEntitySnapshot(p, id, c))
         /\ Live(UpsertEntitySnapshot(p, id, c)) = Live(p) \cup {id}
<1> DEFINE q == UpsertEntitySnapshot(p, id, c)
<1>0. p \in Projection /\ References(p) /\ Uniqueness(p)
  BY DEF Good
<1>1. q \in Projection
  BY <1>0, UpsertEntityType
<1>2. Live(q) = Live(p) \cup {id}
  <2>1. CASE id \in Live(p)
    BY <2>1 DEF UpsertEntitySnapshot, Live
  <2>2. CASE id \notin Live(p)
    <3>. DEFINE n == [id |-> id, space |-> c.space]
    <3>1. q.entities = p.entities \cup {n}
      BY <2>2 DEF UpsertEntitySnapshot
    <3>2. n.id = id
      OBVIOUS
    <3>. HIDE DEF n, q
    <3>3. Live(q) = {e.id : e \in p.entities} \cup {n.id}
      BY <3>1 DEF Live
    <3>. QED  BY <3>2, <3>3 DEF Live
  <2>. QED  BY <2>1, <2>2
<1>3. References(q)
  <2>1. \A r \in q.ext \cup q.emb : r.entity \in Live(p) \cup {id}
    BY <1>0 DEF UpsertEntitySnapshot, References
  <2>2. \A r \in q.props : r.entity \in Live(p) \cup {id}
    BY <1>0, PatchedPropsType DEF UpsertEntitySnapshot, References
  <2>3. \A e \in q.edges : {e.from, e.to} \subseteq Live(p) \cup {id}
    BY <1>0 DEF UpsertEntitySnapshot, References
  <2>. QED  BY <1>2, <2>1, <2>2, <2>3 DEF References
<1>4. Uniqueness(q)
  <2>1. \A d, e \in q.entities : d.id = e.id => d = e
    BY <1>0 DEF UpsertEntitySnapshot, Uniqueness, Live
  <2>2. \A a, b \in q.ext : (a.key = b.key /\ (a.space = b.space \/ a.entity = b.entity)) => a = b
    BY <1>0 DEF UpsertEntitySnapshot, Uniqueness, ClaimableKeys
  <2>3. \A a, b \in q.emb : a.entity = b.entity => a = b
    BY <1>0 DEF UpsertEntitySnapshot, Uniqueness
  <2>4. \A d, e \in q.edges : d.id = e.id => d = e
    BY <1>0 DEF UpsertEntitySnapshot, Uniqueness
  <2>. QED  BY <2>1, <2>2, <2>3, <2>4 DEF Uniqueness
<1>. QED  BY <1>1, <1>2, <1>3, <1>4 DEF Good

\* Upserting an edge between existing nodes breaks no constraint.
LEMMA UpsertEdgeGood ==
  ASSUME NEW p, Good(p), NEW e \in EdgeRow, {e.from, e.to} \subseteq Live(p)
  PROVE  Good(UpsertEdgeSnapshot(p, e)) /\ Live(UpsertEdgeSnapshot(p, e)) = Live(p)
<1> DEFINE q == UpsertEdgeSnapshot(p, e)
<1>1. q \in Projection
  BY UpsertEdgeType DEF Good
<1>2. /\ q.entities = p.entities /\ q.ext = p.ext /\ q.emb = p.emb /\ q.props = p.props
      /\ q.edges = {d \in p.edges : d.id # e.id} \cup {e}
  BY DEF UpsertEdgeSnapshot, Good, Projection
<1>. HIDE DEF q
<1>3. Live(q) = Live(p)
  BY <1>2 DEF Live
<1>4. References(q)
  BY <1>2, <1>3 DEF References, Good
<1>5. Uniqueness(q)
  BY <1>2 DEF Uniqueness, Good
<1>. QED  BY <1>1, <1>3, <1>4, <1>5 DEF Good, q

\* A merge leaves no row on a dropped node, and the plain UPDATEs that reassign
\* the rows of drops violate neither primary key nor UNIQUE(space, key).
LEMMA MergeGood ==
  ASSUME NEW p, Good(p), NEW keep \in Live(p), NEW drops \in SUBSET EntityIds,
         keep \notin drops
  PROVE  /\ Good(MergeEntitiesTx(p, keep, drops))
         /\ Live(MergeEntitiesTx(p, keep, drops)) = Live(p) \ drops
<1> DEFINE q == MergeEntitiesTx(p, keep, drops)
<1>0. p \in Projection /\ References(p) /\ Uniqueness(p)
  BY DEF Good
<1>1. keep \in EntityIds
  BY <1>0 DEF Live, Projection
<1>2. q \in Projection
  BY <1>0, <1>1, MergeType
<1>3. Live(q) = Live(p) \ drops
  BY <1>0 DEF MergeEntitiesTx, Live
<1>4. References(q)
  <2>1. \A r \in q.ext \cup q.emb \cup q.props : r.entity \in Live(p) \ drops
    BY <1>0 DEF MergeEntitiesTx, References, MovedKeys, MovedEmbeddings, Projection
  <2>2. \A e \in q.edges : {e.from, e.to} \subseteq Live(p) \ drops
    BY <1>0 DEF MergeEntitiesTx, References, Projection
  <2>. QED  BY <1>3, <2>1, <2>2 DEF References
<1>5. Uniqueness(q)
  <2>1. \A d, e \in q.entities : d.id = e.id => d = e
    BY <1>0 DEF MergeEntitiesTx, Uniqueness
  <2>2. \A a, b \in q.ext : (a.key = b.key /\ (a.space = b.space \/ a.entity = b.entity)) => a = b
    <3>1. \A a \in q.ext : \E a0 \in p.ext :
             \/ a = a0 /\ a.entity \notin drops
             \/ a0 \in MovedKeys(p.ext, keep, drops) /\ a = [a0 EXCEPT !.entity = keep]
      BY DEF MergeEntitiesTx, MovedKeys
    <3>2. SUFFICES ASSUME NEW a \in q.ext, NEW b \in q.ext, a.key = b.key,
                          a.space = b.space \/ a.entity = b.entity
                   PROVE  a = b
      OBVIOUS
    <3>3. PICK a0 \in p.ext : \/ a = a0 /\ a.entity \notin drops
                              \/ a0 \in MovedKeys(p.ext, keep, drops) /\ a = [a0 EXCEPT !.entity = keep]
      BY <3>1
    <3>4. PICK b0 \in p.ext : \/ b = b0 /\ b.entity \notin drops
                              \/ b0 \in MovedKeys(p.ext, keep, drops) /\ b = [b0 EXCEPT !.entity = keep]
      BY <3>1
    <3>5. /\ a0 \in [entity : EntityIds, key : Keys, space : Spaces]
          /\ b0 \in [entity : EntityIds, key : Keys, space : Spaces]
      BY <1>0 DEF Projection
    <3>6. a0.key = a.key /\ a0.space = a.space /\ b0.key = b.key /\ b0.space = b.space
      BY <3>3, <3>4, <3>5
    <3>7. a0 = b0
      BY <1>0, <3>2, <3>3, <3>4, <3>5, <3>6, StoreAssumption DEF Uniqueness, MovedKeys, Precedes
    <3>. QED  BY <3>3, <3>4, <3>7 DEF MovedKeys
  <2>3. \A a, b \in q.emb : a.entity = b.entity => a = b
    <3>1. \A a \in q.emb : \E a0 \in p.emb :
             \/ a = a0 /\ a.entity \notin drops
             \/ a0 \in MovedEmbeddings(p.emb, keep, drops) /\ a = [a0 EXCEPT !.entity = keep]
      BY DEF MergeEntitiesTx, MovedEmbeddings
    <3>2. SUFFICES ASSUME NEW a \in q.emb, NEW b \in q.emb, a.entity = b.entity
                   PROVE  a = b
      OBVIOUS
    <3>3. PICK a0 \in p.emb : \/ a = a0 /\ a.entity \notin drops
                              \/ a0 \in MovedEmbeddings(p.emb, keep, drops) /\ a = [a0 EXCEPT !.entity = keep]
      BY <3>1
    <3>4. PICK b0 \in p.emb : \/ b = b0 /\ b.entity \notin drops
                              \/ b0 \in MovedEmbeddings(p.emb, keep, drops) /\ b = [b0 EXCEPT !.entity = keep]
      BY <3>1
    <3>5. /\ a0 \in [entity : EntityIds, vector : Vectors]
          /\ b0 \in [entity : EntityIds, vector : Vectors]
      BY <1>0 DEF Projection
    <3>6. a0 = b0
      BY <1>0, <3>2, <3>3, <3>4, <3>5, StoreAssumption DEF Uniqueness, MovedEmbeddings, Precedes
    <3>. QED  BY <3>3, <3>4, <3>6 DEF MovedEmbeddings
  <2>4. \A d, e \in q.edges : d.id = e.id => d = e
    BY <1>0 DEF MergeEntitiesTx, Uniqueness
  <2>. QED  BY <2>1, <2>2, <2>3, <2>4 DEF Uniqueness
<1>. QED  BY <1>2, <1>3, <1>4, <1>5 DEF Good

\* A retraction removes the node with everything that refers to it.
LEMMA DeleteEntityGood ==
  ASSUME NEW p, Good(p), NEW id
  PROVE  Good(DeleteEntity(p, id)) /\ Live(DeleteEntity(p, id)) = Live(p) \ {id}
<1> DEFINE q == DeleteEntity(p, id)
<1>1. q \in Projection
  BY DeleteType DEF Good
<1>2. Live(q) = Live(p) \ {id}
  BY DEF DeleteEntity, Live
<1>3. References(q)
  BY <1>2 DEF References, Good, DeleteEntity
<1>4. Uniqueness(q)
  BY DEF Uniqueness, Good, DeleteEntity
<1>. QED  BY <1>1, <1>2, <1>3, <1>4 DEF Good

\* Deleting an edge touches no node.
LEMMA DeleteEdgeGood ==
  ASSUME NEW p, Good(p), NEW id
  PROVE  Good(DeleteEdge(p, id)) /\ Live(DeleteEdge(p, id)) = Live(p)
<1> DEFINE q == DeleteEdge(p, id)
<1>1. q \in Projection
  BY DeleteType DEF Good
<1>2. /\ q.entities = p.entities /\ q.ext = p.ext /\ q.emb = p.emb /\ q.props = p.props
      /\ q.edges = {d \in p.edges : d.id # id}
  BY DEF DeleteEdge, Good, Projection
<1>. HIDE DEF q
<1>3. Live(q) = Live(p)
  BY <1>2 DEF Live
<1>4. References(q) /\ Uniqueness(q)
  BY <1>2, <1>3 DEF References, Uniqueness, Good
<1>. QED  BY <1>1, <1>3, <1>4 DEF Good, q

----------------------------------------------------------------------------
(* A fold sees only the tables it writes: equal cores stay equal. *)

\* Upserting a candidate online and its logged snapshot during a rebuild gives
\* the same entities, keys, embeddings and edges.
LEMMA UpsertEntityCore ==
  ASSUME NEW p, NEW r, Core(p) = Core(r), NEW id,
         NEW c, NEW d, c.space = d.space, c.keys = d.keys, c.vector = d.vector
  PROVE  Core(UpsertEntitySnapshot(p, id, c)) = Core(UpsertEntitySnapshot(r, id, d))
<1>1. p.entities = r.entities /\ p.ext = r.ext /\ p.emb = r.emb /\ p.edges = r.edges
  BY DEF Core
<1>2. Live(p) = Live(r)
  BY <1>1 DEF Live
<1>3. ClaimableKeys(p, id, c) = ClaimableKeys(r, id, d)
  BY <1>1 DEF ClaimableKeys
<1>. QED  BY <1>1, <1>2, <1>3 DEF Core, UpsertEntitySnapshot

\* Likewise for an edge.
LEMMA UpsertEdgeCore ==
  ASSUME NEW p \in Projection, NEW r \in Projection, Core(p) = Core(r), NEW e
  PROVE  Core(UpsertEdgeSnapshot(p, e)) = Core(UpsertEdgeSnapshot(r, e))
BY DEF Core, UpsertEdgeSnapshot, Projection

\* Likewise for a merge.
LEMMA MergeCore ==
  ASSUME NEW p, NEW r, Core(p) = Core(r), NEW keep, NEW drops
  PROVE  Core(MergeEntitiesTx(p, keep, drops)) = Core(MergeEntitiesTx(r, keep, drops))
<1>1. p.entities = r.entities /\ p.ext = r.ext /\ p.emb = r.emb /\ p.edges = r.edges
  BY DEF Core
<1>. QED  BY <1>1 DEF Core, MergeEntitiesTx

\* Likewise for the two deletes.
LEMMA DeleteCore ==
  ASSUME NEW p \in Projection, NEW r \in Projection, Core(p) = Core(r), NEW id
  PROVE  /\ Core(DeleteEntity(p, id)) = Core(DeleteEntity(r, id))
         /\ Core(DeleteEdge(p, id)) = Core(DeleteEdge(r, id))
<1>1. p.entities = r.entities /\ p.ext = r.ext /\ p.emb = r.emb /\ p.edges = r.edges
  BY DEF Core
<1>2. Core(DeleteEntity(p, id)) = Core(DeleteEntity(r, id))
  BY <1>1 DEF Core, DeleteEntity
<1>3. Core(DeleteEdge(p, id)) = Core(DeleteEdge(r, id))
  BY <1>1 DEF Core, DeleteEdge, Projection
<1>. QED  BY <1>2, <1>3

\* Nodes are part of the core.
LEMMA CoreLive ==
  ASSUME NEW p, NEW r, Core(p) = Core(r)
  PROVE  Live(p) = Live(r)
BY DEF Core, Live

----------------------------------------------------------------------------
(* The inductive invariant. *)

\* The log knows every id that is live or gone, so a fresh id is neither.
LogKnows ==
  /\ IsFiniteSet(facts)
  /\ \A id \in Live(proj) \cup Gone : ~FreshEntity(id)

IInv ==
  /\ facts \subseteq Fact
  /\ Good(proj) /\ Good(rebuilt)
  /\ RebuildAgrees
  /\ LogKnows
  /\ Gone \cap Live(proj) = {}

\* The invariant implies the properties.
LEMMA InvariantImplies == IInv => TypeOK /\ Consistent /\ RebuildAgrees /\ GoneStaysGone
<1>1. IInv => Live(proj) = Live(rebuilt)
  BY CoreLive DEF IInv, RebuildAgrees
<1>. QED  BY <1>1 DEF IInv, TypeOK, Consistent, GoneStaysGone, Good

\* Every operation ends in Commit: what it must establish for the invariant.
LEMMA CommitPreserves ==
  ASSUME IInv,
         NEW new \in SUBSET Fact, IsFiniteSet(new),
         NEW P, Good(P), NEW R, Good(R), Core(P) = Core(R),
         \A id \in Live(P) : \/ id \in Live(proj)
                             \/ \E f \in new : f.kind = "entity.asserted" /\ f.subject = id,
         \A id \in Live(P) : id \in Live(proj) \/ FreshEntity(id),
         \A f \in new : Tombstone(f) => ~FreshEntity(f.subject) /\ f.subject \notin Live(P),
         Commit(new, P, R)
  PROVE  IInv'
<1>1. facts' = facts \cup new /\ proj' = P /\ rebuilt' = R
  BY DEF Commit
<1>2. facts' \subseteq Fact /\ IsFiniteSet(facts')
  BY <1>1, FS_Union DEF IInv, LogKnows
<1>3. Good(proj') /\ Good(rebuilt') /\ RebuildAgrees'
  BY <1>1 DEF RebuildAgrees
<1>4. \A id : FreshEntity(id)' => FreshEntity(id)
  BY <1>1 DEF FreshEntity
<1>5. Gone' = Gone \cup {f.subject : f \in {g \in new : Tombstone(g)}}
  BY <1>1 DEF Gone
<1>6. \A id \in Live(proj') : ~FreshEntity(id)'
  <2>1. SUFFICES ASSUME NEW id \in Live(P) PROVE ~FreshEntity(id)'
    BY <1>1
  <2>2. CASE id \in Live(proj)
    BY <2>2, <1>4 DEF IInv, LogKnows
  <2>3. CASE \E f \in new : f.kind = "entity.asserted" /\ f.subject = id
    BY <2>3, <1>1 DEF FreshEntity
  <2>. QED  BY <2>2, <2>3
<1>7. \A id \in Gone' : ~FreshEntity(id)'
  BY <1>4, <1>5 DEF IInv, LogKnows
<1>8. Gone' \cap Live(proj') = {}
  <2>1. \A id \in Gone : id \notin Live(P)
    BY DEF IInv, LogKnows
  <2>. QED  BY <1>1, <1>5, <2>1
<1>. QED  BY <1>2, <1>3, <1>6, <1>7, <1>8, <1>1 DEF IInv, LogKnows, Good

----------------------------------------------------------------------------
(* The facts each operation appends are rows of the facts table. *)

\* The dedupe key of an entity input is a key (DeriveDedupeKey or the caller's).
LEMMA EntityKeyType ==
  ASSUME IInv, NEW c \in Candidate
  PROVE  EntityDedupeKey(c) \in AssertKeys /\ Head \in Nat
<1>1. Head \in Nat
  BY FS_CardinalityType DEF Head, IInv, LogKnows
<1>2. CASE c.dedupe # NoKey
  BY <1>1, <1>2 DEF EntityDedupeKey, AssertKeys, Candidate
<1>3. CASE c.dedupe = NoKey /\ RandomKeyNeeded(c)
  BY <1>1, <1>3 DEF EntityDedupeKey, AssertKeys
<1>4. CASE c.dedupe = NoKey /\ ~RandomKeyNeeded(c)
  <2>1. CASE c.keys # {}
    BY <1>1, <1>4, <2>1 DEF EntityDedupeKey, DeriveDedupeKey, AssertKeys, Candidate
  <2>2. CASE c.keys = {}
    <3>1. c.props \in Objects /\ "name" \in DOMAIN c.props /\ c.props["name"] \in PropValues
      BY <1>4, <2>2 DEF RandomKeyNeeded, Nameless, Candidate
    <3>2. c.props["name"] \in PropValues
      BY <3>1 DEF Objects
    <3>. QED  BY <1>1, <1>4, <2>2, <3>2 DEF EntityDedupeKey, DeriveDedupeKey, AssertKeys
  <2>. QED  BY <2>1, <2>2
<1>. QED  BY <1>2, <1>3, <1>4

\* The fact of an asserted entity, of a merge and of a flagging edge.
LEMMA AssertFactType ==
  ASSUME IInv, NEW w \in Writers, NEW c \in Candidate, NEW id \in EntityIds, NEW n \in Nat
  PROVE  /\ AssertOnto(w, c, id, n) \in Fact
         /\ AssertOnto(w, c, id, n).kind = "entity.asserted"
         /\ AssertOnto(w, c, id, n).subject = id
<1>1. EntityDedupeKey(c) \in DedupeKey
  BY EntityKeyType DEF DedupeKey
<1>2. Marshal(c) \in Snapshot
  BY CandidateUpsertable
<1>. QED  BY <1>1, <1>2 DEF AssertOnto, NewFact, Fact, FactOf

LEMMA MergeFactType ==
  ASSUME NEW w \in Writers, NEW keep \in EntityIds, NEW drop \in EntityIds,
         NEW n \in Nat, NEW k \in DedupeKey
  PROVE  NewFact(n, "entity.merged", drop, w, k, [keep |-> keep, drop |-> drop]) \in Fact
BY DEF NewFact, Fact, FactOf

LEMMA EdgeFactType ==
  ASSUME NEW w \in Writers, NEW e \in EdgeRow, NEW n \in Nat, NEW k \in DedupeKey
  PROVE  NewFact(n, "edge.asserted", e.id, w, k, e) \in Fact
BY DEF NewFact, Fact, FactOf, EdgeRow

----------------------------------------------------------------------------
(* The resolve decision names live nodes only. *)

\* A lookup by external id returns live nodes (externalHitsTx joins entities).
LEMMA HitsLive ==
  ASSUME IInv, NEW c
  PROVE  ExternalHits(proj, c) \subseteq Live(proj)
BY DEF ExternalHits, IInv, Good, References

\* The ids of nodes are naturals, so the oldest of a non-empty set is in it.
LEMMA OldestIn ==
  ASSUME NEW S \in SUBSET EntityIds, S # {}
  PROVE  Oldest(S) \in S
<1>1. S \subseteq Nat
  BY StoreAssumption
<1>2. \E i \in S : \A j \in S : <<j, i>> \notin OpToRel(<, Nat)
  BY <1>1, WFMin, NatLessThanWellFounded
<1>3. \A i, j \in Nat : <<j, i>> \notin OpToRel(<, Nat) => i <= j
  BY DEF OpToRel
<1>4. \E i \in S : \A j \in S : i <= j
  BY <1>1, <1>2, <1>3
<1>. QED  BY <1>4 DEF Oldest

\* Each outcome of the resolve decision names live nodes, and a merge never
\* drops the node it keeps (domain.Resolve).
LEMMA ResolveTargets ==
  ASSUME IInv, NEW c \in Candidate, NEW d \in Resolve(proj, c)
  PROVE  /\ d.action \in {"attach", "insert_flagged"} => d.target \in Live(proj)
         /\ d.action = "merge" => /\ d.target \in Live(proj)
                                  /\ d.drops \subseteq Live(proj)
                                  /\ d.target \notin d.drops
<1> DEFINE hits == ExternalHits(proj, c)
<1>1. hits \subseteq Live(proj) /\ hits \subseteq EntityIds
  BY HitsLive DEF IInv, Good, Live, Projection
<1>2. CASE c.policy # "force_new" /\ hits # {}
  <2>1. Oldest(hits) \in hits
    BY <1>1, <1>2, OldestIn
  <2>. QED  BY <1>1, <1>2, <2>1 DEF Resolve
<1>3. CASE ~(c.policy # "force_new" /\ hits # {})
  <2>1. \A r \in Nearest(proj, c) : r.entity \in Live(proj)
    BY DEF Nearest, Neighbors, IInv, Good, References
  <2>2. CASE Nearest(proj, c) = {}
    <3>1. d = [action |-> "insert_new"]
      BY <1>3, <2>2 DEF Resolve
    <3>. QED  BY <3>1
  <2>3. CASE Nearest(proj, c) # {}
    <3>1. \E r \in Nearest(proj, c) : \/ d = [action |-> "attach", target |-> r.entity]
                                      \/ d = [action |-> "insert_flagged", target |-> r.entity]
                                      \/ d = [action |-> "insert_new"]
      <4>. DEFINE score(r) == Similarity[c.vector, r.vector]
      <4>1. PICK r \in Nearest(proj, c) :
              d = IF score(r) >= AutoMerge THEN [action |-> "attach", target |-> r.entity]
                  ELSE IF score(r) >= Review
                       THEN [action |-> "insert_flagged", target |-> r.entity]
                       ELSE [action |-> "insert_new"]
        BY <1>3, <2>3, Zenon DEF Resolve
      <4>. HIDE DEF score
      <4>. QED  BY <4>1, Zenon
    <3>. QED  BY <2>1, <3>1
  <2>. QED  BY <2>2, <2>3
<1>. QED  BY <1>2, <1>3

----------------------------------------------------------------------------
(* Each operation preserves the invariant. *)

\* The tables of the invariant, as the lemmas above want them.
LEMMA Tables ==
  ASSUME IInv
  PROVE  /\ Good(proj) /\ Good(rebuilt) /\ Core(proj) = Core(rebuilt)
         /\ proj \in Projection /\ rebuilt \in Projection
         /\ Live(proj) = Live(rebuilt) /\ Live(proj) \subseteq EntityIds
BY CoreLive DEF IInv, RebuildAgrees, Good, Live, Projection

\* Upserting a candidate online and its logged form in the rebuild keeps both
\* tables good, with the same core and the same nodes.
LEMMA UpsertBoth ==
  ASSUME NEW p, Good(p), NEW r, Good(r), Core(p) = Core(r),
         NEW id \in EntityIds, NEW c \in Candidate
  PROVE  LET P == UpsertEntitySnapshot(p, id, c)
             R == UpsertEntitySnapshot(r, id, Marshal(c))
         IN /\ Good(P) /\ Good(R) /\ Core(P) = Core(R)
            /\ Live(P) = Live(p) \cup {id} /\ Live(R) = Live(p) \cup {id}
<1>1. Upsertable(c) /\ Upsertable(Marshal(c))
  BY CandidateUpsertable
<1>2. Core(UpsertEntitySnapshot(p, id, c)) = Core(UpsertEntitySnapshot(r, id, Marshal(c)))
  BY UpsertEntityCore DEF Marshal
<1>3. Live(p) = Live(r)
  BY CoreLive
<1>. QED  BY <1>1, <1>2, <1>3, UpsertEntityGood

\* Assertions are no tombstones.
LEMMA AssertionIsNoTombstone ==
  ASSUME NEW f, f.kind \in {"entity.asserted", "edge.asserted", "edge.retracted"}
  PROVE  ~Tombstone(f)
BY DEF Tombstone

\* A new node (AppendEntityFact, ActionInsertNew).
LEMMA InsertNewPreserves ==
  ASSUME IInv, NEW w \in Writers, NEW c \in Candidate, InsertNew(w, c)
  PROVE  IInv'
<1>1. PICK id \in EntityIds :
        /\ FreshEntity(id)
        /\ Commit({AssertOnto(w, c, id, Head + 1)},
                  UpsertEntitySnapshot(proj, id, c),
                  UpsertEntitySnapshot(rebuilt, id, Marshal(c)))
  BY DEF InsertNew
<1> DEFINE f == AssertOnto(w, c, id, Head + 1)
           P == UpsertEntitySnapshot(proj, id, c)
           R == UpsertEntitySnapshot(rebuilt, id, Marshal(c))
<1>2. Head + 1 \in Nat
  BY EntityKeyType
<1>3. f \in Fact /\ f.kind = "entity.asserted" /\ f.subject = id
  BY <1>2, AssertFactType
<1>4. Good(P) /\ Good(R) /\ Core(P) = Core(R) /\ Live(P) = Live(proj) \cup {id}
  BY Tables, UpsertBoth
<1>5. ~Tombstone(f)
  BY <1>3, AssertionIsNoTombstone
<1>6. IsFiniteSet({f})
  BY FS_Singleton
<1>7. Commit({f}, P, R)
  BY <1>1
<1>. HIDE DEF f, P, R
<1>. QED  BY <1>1, <1>3, <1>4, <1>5, <1>6, <1>7, CommitPreserves

\* A known node is asserted again (ActionAttach).
LEMMA AttachPreserves ==
  ASSUME IInv, NEW w \in Writers, NEW c \in Candidate, NEW target \in Live(proj),
         Attach(w, c, target)
  PROVE  IInv'
<1> DEFINE f == AssertOnto(w, c, target, Head + 1)
           P == UpsertEntitySnapshot(proj, target, c)
           R == UpsertEntitySnapshot(rebuilt, target, Marshal(c))
<1>1. target \in EntityIds
  BY Tables
<1>2. Head + 1 \in Nat
  BY EntityKeyType
<1>3. f \in Fact /\ f.kind = "entity.asserted"
  BY <1>1, <1>2, AssertFactType
<1>4. Good(P) /\ Good(R) /\ Core(P) = Core(R) /\ Live(P) = Live(proj) \cup {target}
  BY <1>1, Tables, UpsertBoth
<1>5. ~Tombstone(f)
  BY <1>3, AssertionIsNoTombstone
<1>6. IsFiniteSet({f})
  BY FS_Singleton
<1>7. Commit({f}, P, R)
  BY DEF Attach
<1>. HIDE DEF f, P, R
<1>. QED  BY <1>3, <1>4, <1>5, <1>6, <1>7, CommitPreserves

\* A new node and an inferred edge to its neighbour (ActionInsertFlagged).
LEMMA InsertFlaggedPreserves ==
  ASSUME IInv, NEW w \in Writers, NEW c \in Candidate, NEW target \in Live(proj),
         InsertFlagged(w, c, target)
  PROVE  IInv'
<1> DEFINE edge(id, e) == [id |-> e, predicate |-> "sameAs?", from |-> id, to |-> target,
                           space |-> c.space]
           flag(id, e) == NewFact(Head + 2, "edge.asserted", e, w,
                                  <<"sameas", EntityDedupeKey(c), target>>, edge(id, e))
<1>1. PICK id \in EntityIds, e \in EdgeIds :
        /\ FreshEntity(id)
        /\ Commit({AssertOnto(w, c, id, Head + 1), flag(id, e)},
                  UpsertEdgeSnapshot(UpsertEntitySnapshot(proj, id, c), edge(id, e)),
                  UpsertEdgeSnapshot(UpsertEntitySnapshot(rebuilt, id, Marshal(c)), edge(id, e)))
  BY DEF InsertFlagged
<1> DEFINE f == AssertOnto(w, c, id, Head + 1)
           g == flag(id, e)
           d == edge(id, e)
           P1 == UpsertEntitySnapshot(proj, id, c)
           R1 == UpsertEntitySnapshot(rebuilt, id, Marshal(c))
           P == UpsertEdgeSnapshot(P1, d)
           R == UpsertEdgeSnapshot(R1, d)
<1>2. Head + 1 \in Nat /\ Head + 2 \in Nat /\ EntityDedupeKey(c) \in AssertKeys
  BY EntityKeyType
<1>3. f \in Fact /\ f.kind = "entity.asserted" /\ f.subject = id
  BY <1>2, AssertFactType
<1>4. target \in EntityIds
  BY Tables
<1>5. d \in EdgeRow /\ d.id = e /\ d.from = id /\ d.to = target
  BY <1>4 DEF EdgeRow, Candidate
<1>6. <<"sameas", EntityDedupeKey(c), target>> \in DedupeKey
  BY <1>2, <1>4 DEF DedupeKey
<1>7. g \in Fact /\ g.kind = "edge.asserted"
  <2>1. g = NewFact(Head + 2, "edge.asserted", d.id, w, <<"sameas", EntityDedupeKey(c), target>>, d)
    BY <1>5
  <2>2. g.kind = "edge.asserted"
    BY DEF NewFact
  <2>. HIDE DEF d, g
  <2>. QED  BY <2>1, <2>2, <1>2, <1>5, <1>6, EdgeFactType
<1>8. /\ Good(P1) /\ Good(R1) /\ Core(P1) = Core(R1)
      /\ Live(P1) = Live(proj) \cup {id} /\ Live(R1) = Live(proj) \cup {id}
  BY Tables, UpsertBoth
<1>9. Commit({f, g}, P, R)
  BY <1>1
<1>10. Good(P) /\ Good(R) /\ Core(P) = Core(R) /\ Live(P) = Live(proj) \cup {id}
  <2>. HIDE DEF P1, R1, d
  <2>1. {d.from, d.to} \subseteq Live(P1) /\ {d.from, d.to} \subseteq Live(R1)
    BY <1>5, <1>8
  <2>2. Good(P) /\ Good(R) /\ Live(P) = Live(P1)
    BY <1>5, <1>8, <2>1, UpsertEdgeGood
  <2>3. Core(P) = Core(R)
    BY <1>8, UpsertEdgeCore DEF Good
  <2>. QED  BY <1>8, <2>2, <2>3
<1>11. IsFiniteSet({f, g})
  <2>. HIDE DEF f, g
  <2>1. IsFiniteSet({f} \cup {g})
    BY FS_Singleton, FS_AddElement
  <2>2. {f, g} = {f} \cup {g}
    OBVIOUS
  <2>. QED  BY <2>1, <2>2
<1>12. ~Tombstone(f) /\ ~Tombstone(g)
  BY <1>3, <1>7, AssertionIsNoTombstone
<1>. HIDE DEF f, g, P, R
<1>. QED  BY <1>1, <1>3, <1>7, <1>9, <1>10, <1>11, <1>12, CommitPreserves

\* The merged facts a resolve writes: one per dropped node.
LEMMA MergeFactsType ==
  ASSUME IInv, NEW w \in Writers, NEW c \in Candidate, NEW keep \in Live(proj),
         NEW drops \in SUBSET Live(proj), keep \notin drops
  PROVE  /\ MergeFacts(w, c, keep, drops) \subseteq Fact
         /\ IsFiniteSet(MergeFacts(w, c, keep, drops))
         /\ \A f \in MergeFacts(w, c, keep, drops) : f.kind = "entity.merged" /\ f.subject \in drops
         /\ Cardinality(drops) \in Nat
<1> DEFINE rank(d) == Cardinality({x \in drops : x <= d})
           key(d) == <<"mergeof", EntityDedupeKey(c), d>>
           mf(d) == NewFact(Head + rank(d), "entity.merged", d, w, key(d),
                            [keep |-> keep, drop |-> d])
           merged == {mf(d) : d \in drops}
<1>0. MergeFacts(w, c, keep, drops) = merged
  BY DEF MergeFacts
<1>1. keep \in EntityIds /\ drops \subseteq EntityIds
  BY Tables
<1>2. IsFiniteSet(drops)
  BY <1>1, FS_Subset, StoreAssumption
<1>3. \A d \in drops : rank(d) \in Nat
  <2>. TAKE d \in drops
  <2>1. {x \in drops : x <= d} \in SUBSET drops
    OBVIOUS
  <2>2. IsFiniteSet({x \in drops : x <= d})
    BY <1>2, <2>1, FS_Subset
  <2>. QED  BY <2>2, FS_CardinalityType
<1>4. Head \in Nat /\ EntityDedupeKey(c) \in AssertKeys
  BY EntityKeyType
<1>5. \A d \in drops : key(d) \in DedupeKey
  BY <1>1, <1>4 DEF DedupeKey
<1>6. \A d \in drops : mf(d) \in Fact
  <2>. HIDE DEF rank, key
  <2>1. SUFFICES ASSUME NEW d \in drops PROVE mf(d) \in Fact
    OBVIOUS
  <2>2. Head + rank(d) \in Nat
    BY <1>3, <1>4
  <2>. QED  BY <1>1, <1>5, <2>2, MergeFactType
<1>7. \A d \in drops : mf(d).kind = "entity.merged" /\ mf(d).subject = d
  BY DEF NewFact
<1>8. IsFiniteSet(merged)
  <2>. HIDE DEF mf
  <2>. DEFINE image == [d \in drops |-> mf(d)]
  <2>1. image \in Surjection(drops, merged)
    BY DEF Surjection
  <2>. QED  BY <1>2, <2>1, FS_Surjection
<1>9. Cardinality(drops) \in Nat
  BY <1>2, FS_CardinalityType
<1>. HIDE DEF mf
<1>10. merged \subseteq Fact /\ \A f \in merged : f.kind = "entity.merged" /\ f.subject \in drops
  BY <1>6, <1>7
<1>. QED  BY <1>0, <1>8, <1>9, <1>10

\* Colliding nodes are folded into the oldest (ActionMergeThenAttach).
LEMMA MergeThenAttachPreserves ==
  ASSUME IInv, NEW w \in Writers, NEW c \in Candidate, NEW keep \in Live(proj),
         NEW drops \in SUBSET Live(proj), keep \notin drops,
         MergeThenAttach(w, c, keep, drops)
  PROVE  IInv'
<1> DEFINE merged == MergeFacts(w, c, keep, drops)
           f == AssertOnto(w, c, keep, Head + Cardinality(drops) + 1)
           P1 == MergeEntitiesTx(proj, keep, drops)
           R1 == MergeEntitiesTx(rebuilt, keep, drops)
           P == UpsertEntitySnapshot(P1, keep, c)
           R == UpsertEntitySnapshot(R1, keep, Marshal(c))
<1>1. /\ merged \subseteq Fact /\ IsFiniteSet(merged) /\ Cardinality(drops) \in Nat
      /\ \A m \in merged : m.kind = "entity.merged" /\ m.subject \in drops
  BY MergeFactsType
<1>2. Commit(merged \cup {f}, P, R)
  BY DEF MergeThenAttach
<1>3. keep \in EntityIds /\ drops \in SUBSET EntityIds /\ Head \in Nat
  BY Tables, EntityKeyType
<1>4. f \in Fact /\ f.kind = "entity.asserted" /\ f.subject = keep
  <2>1. Head + Cardinality(drops) + 1 \in Nat
    BY <1>1, <1>3
  <2>. QED  BY <1>3, <2>1, AssertFactType
<1>5. Good(P1) /\ Good(R1) /\ Core(P1) = Core(R1) /\ Live(P1) = Live(proj) \ drops
  <2>1. keep \in Live(rebuilt)
    BY Tables
  <2>. QED  BY <1>3, <2>1, Tables, MergeGood, MergeCore
<1>. HIDE DEF P1, R1, merged, f
<1>6. Good(P) /\ Good(R) /\ Core(P) = Core(R) /\ Live(P) = (Live(proj) \ drops) \cup {keep}
  BY <1>3, <1>5, UpsertBoth
<1>. HIDE DEF P, R
<1>7. IsFiniteSet(merged \cup {f})
  BY <1>1, FS_AddElement
<1>8. \A m \in merged \cup {f} : Tombstone(m) => ~FreshEntity(m.subject) /\ m.subject \notin Live(P)
  <2>1. ~Tombstone(f)
    BY <1>4, AssertionIsNoTombstone
  <2>2. \A m \in merged : m.subject \in Live(proj) /\ m.subject \notin Live(P)
    BY <1>1, <1>6
  <2>3. \A id \in Live(proj) : ~FreshEntity(id)
    BY DEF IInv, LogKnows
  <2>. QED  BY <2>1, <2>2, <2>3
<1>9. merged \cup {f} \in SUBSET Fact /\ Live(P) \subseteq Live(proj)
  BY <1>1, <1>4, <1>6
<1>. QED  BY <1>2, <1>6, <1>7, <1>8, <1>9, CommitPreserves

\* An edge between live nodes (AppendEdgeFact).
LEMMA AppendEdgePreserves ==
  ASSUME IInv, NEW w \in Writers, NEW in \in EdgeInput, AppendEdgeFact(w, in)
  PROVE  IInv'
<1> DEFINE edge(e) == [id |-> e, predicate |-> in.predicate, from |-> in.from, to |-> in.to,
                       space |-> in.space]
           ef(e) == NewFact(Head + 1, "edge.asserted", e, w, EdgeDedupeKey(in), edge(e))
<1>1. PICK e \in EdgeIds :
        /\ {in.from, in.to} \subseteq Live(proj)
        /\ Commit({ef(e)}, UpsertEdgeSnapshot(proj, edge(e)), UpsertEdgeSnapshot(rebuilt, edge(e)))
  BY DEF AppendEdgeFact
<1> DEFINE d == edge(e)
           f == ef(e)
           P == UpsertEdgeSnapshot(proj, d)
           R == UpsertEdgeSnapshot(rebuilt, d)
<1>2. d \in EdgeRow /\ d.id = e /\ {d.from, d.to} \subseteq Live(proj)
  BY <1>1 DEF EdgeRow, EdgeInput
<1>3. EdgeDedupeKey(in) \in DedupeKey
  BY DEF EdgeDedupeKey, DedupeKey, AssertKeys, EdgeInput
<1>4. Head + 1 \in Nat
  <2>1. Head \in Nat
    BY FS_CardinalityType DEF Head, IInv, LogKnows
  <2>. QED  BY <2>1
<1>5. f \in Fact /\ f.kind = "edge.asserted"
  <2>1. f = NewFact(Head + 1, "edge.asserted", d.id, w, EdgeDedupeKey(in), d)
    BY <1>2
  <2>2. f.kind = "edge.asserted"
    BY DEF NewFact
  <2>. HIDE DEF d, f
  <2>. QED  BY <2>1, <2>2, <1>2, <1>3, <1>4, EdgeFactType
<1>6. Commit({f}, P, R)
  BY <1>1
<1>7. Good(P) /\ Good(R) /\ Core(P) = Core(R) /\ Live(P) = Live(proj)
  <2>. HIDE DEF d
  <2>1. Good(P) /\ Live(P) = Live(proj)
    BY <1>2, Tables, UpsertEdgeGood
  <2>2. Good(R)
    BY <1>2, Tables, UpsertEdgeGood
  <2>3. Core(P) = Core(R)
    BY Tables, UpsertEdgeCore
  <2>. QED  BY <2>1, <2>2, <2>3
<1>8. ~Tombstone(f)
  BY <1>5, AssertionIsNoTombstone
<1>9. IsFiniteSet({f})
  BY FS_Singleton
<1>. HIDE DEF f, P, R
<1>. QED  BY <1>5, <1>6, <1>7, <1>8, <1>9, CommitPreserves

\* An explicit merge, of a node into itself too (MergeEntities).
LEMMA MergeEntitiesPreserves ==
  ASSUME IInv, NEW w \in Writers, NEW keep \in EntityIds, NEW drop \in EntityIds,
         MergeEntities(w, keep, drop)
  PROVE  IInv'
<1> DEFINE m == [keep |-> keep, drop |-> drop]
           f == NewFact(Head + 1, "entity.merged", drop, w, <<"merge", keep, drop>>, m)
           P == MergeEntitiesTx(proj, keep, {drop} \ {keep})
           R == MergeEntitiesTx(rebuilt, keep, {drop} \ {keep})
<1>1. {keep, drop} \subseteq Live(proj) /\ Commit({f}, P, R)
  BY DEF MergeEntities, FoldMerged
<1>2. Head + 1 \in Nat
  <2>1. Head \in Nat
    BY FS_CardinalityType DEF Head, IInv, LogKnows
  <2>. QED  BY <2>1
<1>3. f \in Fact /\ f.kind = "entity.merged" /\ f.subject = drop /\ f.payload.keep = keep
  <2>1. <<"merge", keep, drop>> \in DedupeKey
    BY DEF DedupeKey
  <2>2. f \in Fact
    BY <1>2, <2>1, MergeFactType
  <2>. QED  BY <2>2 DEF NewFact
<1>4. Good(P) /\ Good(R) /\ Core(P) = Core(R) /\ Live(P) = Live(proj) \ ({drop} \ {keep})
  <2>1. keep \in Live(rebuilt) /\ keep \in Live(proj)
    BY <1>1, Tables
  <2>2. ({drop} \ {keep}) \in SUBSET EntityIds /\ keep \notin {drop} \ {keep}
    OBVIOUS
  <2>. QED  BY <2>1, <2>2, Tables, MergeGood, MergeCore
<1>5. Tombstone(f) => ~FreshEntity(f.subject) /\ f.subject \notin Live(P)
  <2>1. ~FreshEntity(drop)
    BY <1>1 DEF IInv, LogKnows
  <2>2. keep # drop => drop \notin Live(P)
    BY <1>4
  <2>. HIDE DEF f, P
  <2>. QED  BY <1>3, <2>1, <2>2 DEF Tombstone
<1>6. IsFiniteSet({f})
  BY FS_Singleton
<1>. HIDE DEF f, P, R
<1>. QED  BY <1>1, <1>3, <1>4, <1>5, <1>6, CommitPreserves

\* Removing the full-text row of a node breaks no constraint (RetractEntity).
LEMMA WithoutTextGood ==
  ASSUME NEW p, Good(p), NEW id
  PROVE  LET q == [p EXCEPT !.fts = {r \in @ : r.entity # id}]
         IN Good(q) /\ Core(q) = Core(p) /\ Live(q) = Live(p)
<1> DEFINE q == [p EXCEPT !.fts = {r \in @ : r.entity # id}]
<1>1. /\ q.entities = p.entities /\ q.ext = p.ext /\ q.emb = p.emb /\ q.edges = p.edges
      /\ q.props = p.props /\ q \in Projection
  BY DEF Good, Projection
<1>. HIDE DEF q
<1>2. Core(q) = Core(p) /\ Live(q) = Live(p)
  BY <1>1 DEF Core, Live
<1>3. References(q) /\ Uniqueness(q)
  BY <1>1, <1>2 DEF Good, References, Uniqueness
<1>. QED  BY <1>1, <1>2, <1>3 DEF Good, q

\* A tombstone, whether the node is still there or not (RetractEntity).
LEMMA RetractEntityPreserves ==
  ASSUME IInv, NEW w \in Writers, NEW id \in EntityIds, ~FreshEntity(id), RetractEntity(w, id)
  PROVE  IInv'
<1> DEFINE f == NewFact(Head + 1, "entity.retracted", id, w, <<"retract", id>>, {})
           P1 == DeleteEntity(proj, id)
           P == [P1 EXCEPT !.fts = {r \in @ : r.entity # id}]
           R == DeleteEntity(rebuilt, id)
<1>1. Commit({f}, P, R)
  BY DEF RetractEntity
<1>2. Head + 1 \in Nat
  <2>1. Head \in Nat
    BY FS_CardinalityType DEF Head, IInv, LogKnows
  <2>. QED  BY <2>1
<1>3. f \in Fact /\ f.subject = id
  <2>1. <<"retract", id>> \in DedupeKey
    BY DEF DedupeKey
  <2>. QED  BY <1>2, <2>1 DEF NewFact, Fact, FactOf
<1>4. Good(P1) /\ Good(R) /\ Core(P1) = Core(R) /\ Live(P1) = Live(proj) \ {id}
  BY Tables, DeleteEntityGood, DeleteCore
<1>. HIDE DEF P1
<1>5. Good(P) /\ Core(P) = Core(P1) /\ Live(P) = Live(P1)
  BY <1>4, WithoutTextGood
<1>6. IsFiniteSet({f})
  BY FS_Singleton
<1>. HIDE DEF f, P, R
<1>. QED  BY <1>1, <1>3, <1>4, <1>5, <1>6, CommitPreserves

\* A tombstone of an edge (RetractEdge).
LEMMA RetractEdgePreserves ==
  ASSUME IInv, NEW w \in Writers, NEW id \in EdgeIds, RetractEdge(w, id)
  PROVE  IInv'
<1> DEFINE f == NewFact(Head + 1, "edge.retracted", id, w, <<"edge-retract", id>>, {})
           P == DeleteEdge(proj, id)
           R == DeleteEdge(rebuilt, id)
<1>1. Commit({f}, P, R)
  BY DEF RetractEdge
<1>2. Head + 1 \in Nat
  <2>1. Head \in Nat
    BY FS_CardinalityType DEF Head, IInv, LogKnows
  <2>. QED  BY <2>1
<1>3. f \in Fact /\ f.kind = "edge.retracted"
  <2>1. <<"edge-retract", id>> \in DedupeKey
    BY DEF DedupeKey
  <2>. QED  BY <1>2, <2>1 DEF NewFact, Fact, FactOf
<1>4. Good(P) /\ Good(R) /\ Core(P) = Core(R) /\ Live(P) = Live(proj)
  BY Tables, DeleteEdgeGood, DeleteCore
<1>5. ~Tombstone(f)
  BY <1>3, AssertionIsNoTombstone
<1>6. IsFiniteSet({f})
  BY FS_Singleton
<1>. HIDE DEF f, P, R
<1>. QED  BY <1>1, <1>3, <1>4, <1>5, <1>6, CommitPreserves

\* A rebuild replaces the tables by tables with the same core (RebuildProjection).
LEMMA RebuildPreserves ==
  ASSUME IInv, RebuildProjection
  PROVE  IInv'
<1>1. proj' = rebuilt /\ rebuilt' = rebuilt /\ facts' = facts
  BY DEF RebuildProjection
<1>2. Live(proj') = Live(proj)
  BY <1>1, Tables
<1>3. Gone' = Gone /\ \A id : FreshEntity(id)' <=> FreshEntity(id)
  BY <1>1 DEF Gone, FreshEntity
<1>. QED  BY <1>1, <1>2, <1>3 DEF IInv, RebuildAgrees, LogKnows, Good

\* A duplicate, unknown id or failed constraint changes nothing.
LEMMA StutterPreserves ==
  ASSUME IInv, UNCHANGED vars
  PROVE  IInv'
<1>1. proj' = proj /\ rebuilt' = rebuilt /\ facts' = facts
  BY DEF vars
<1>2. Gone' = Gone /\ \A id : FreshEntity(id)' <=> FreshEntity(id)
  BY <1>1 DEF Gone, FreshEntity
<1>. QED  BY <1>1, <1>2 DEF IInv, RebuildAgrees, LogKnows, Good

\* An assertion, whatever the resolve decision (AppendEntityFact).
LEMMA AppendEntityPreserves ==
  ASSUME IInv, NEW w \in Writers, NEW c \in Candidate, AppendEntityFact(w, c)
  PROVE  IInv'
<1>1. PICK d \in Resolve(proj, c) :
         \/ d.action = "insert_new"     /\ InsertNew(w, c)
         \/ d.action = "insert_flagged" /\ InsertFlagged(w, c, d.target)
         \/ d.action = "attach"         /\ Attach(w, c, d.target)
         \/ d.action = "merge"          /\ MergeThenAttach(w, c, d.target, d.drops)
  BY DEF AppendEntityFact
<1>2. /\ d.action \in {"attach", "insert_flagged"} => d.target \in Live(proj)
      /\ d.action = "merge" => /\ d.target \in Live(proj)
                               /\ d.drops \subseteq Live(proj)
                               /\ d.target \notin d.drops
  BY ResolveTargets
<1>3. CASE InsertNew(w, c)
  BY <1>3, InsertNewPreserves
<1>4. CASE d.action = "insert_flagged" /\ InsertFlagged(w, c, d.target)
  BY <1>2, <1>4, InsertFlaggedPreserves
<1>5. CASE d.action = "attach" /\ Attach(w, c, d.target)
  BY <1>2, <1>5, AttachPreserves
<1>6. CASE d.action = "merge" /\ MergeThenAttach(w, c, d.target, d.drops)
  BY <1>2, <1>6, MergeThenAttachPreserves
<1>. QED  BY <1>1, <1>3, <1>4, <1>5, <1>6

----------------------------------------------------------------------------
(* Any operation. *)

\* A step of the store by the inputs C of any callers, those of Next or of another module.
Operates(C) ==
  \/ \E w \in Writers : \E c \in C[w] : AppendEntityFact(w, c)
  \/ \E w \in Writers, in \in EdgeInput : AppendEdgeFact(w, in)
  \/ \E w \in Writers, keep \in EntityIds, drop \in EntityIds : MergeEntities(w, keep, drop)
  \/ \E w \in Writers, id \in EntityIds : ~FreshEntity(id) /\ RetractEntity(w, id)
  \/ \E w \in Writers, id \in EdgeIds : ~FreshEdge(id) /\ RetractEdge(w, id)
  \/ RebuildProjection
  \/ UNCHANGED vars

\* The next-state relation is such steps, every writer trying the same inputs.
LEMMA NextOperates == [Next]_vars => Operates([w \in Writers |-> Candidates])
BY StoreAssumption DEF Next, Operates

\* Whatever the callers pass, an operation keeps the inductive invariant of the tables.
LEMMA OperatesPreserves ==
  ASSUME IInv, NEW C \in [Writers -> SUBSET Candidate], Operates(C)
  PROVE  IInv'
<1>1. CASE \E w \in Writers : \E c \in C[w] : AppendEntityFact(w, c)
  BY <1>1, AppendEntityPreserves
<1>2. CASE \E w \in Writers, in \in EdgeInput : AppendEdgeFact(w, in)
  BY <1>2, AppendEdgePreserves
<1>3. CASE \E w \in Writers, keep \in EntityIds, drop \in EntityIds : MergeEntities(w, keep, drop)
  BY <1>3, MergeEntitiesPreserves
<1>4. CASE \E w \in Writers, id \in EntityIds : ~FreshEntity(id) /\ RetractEntity(w, id)
  BY <1>4, RetractEntityPreserves
<1>5. CASE \E w \in Writers, id \in EdgeIds : ~FreshEdge(id) /\ RetractEdge(w, id)
  BY <1>5, RetractEdgePreserves
<1>6. CASE RebuildProjection
  BY <1>6, RebuildPreserves
<1>7. CASE UNCHANGED vars
  BY <1>7, StutterPreserves
<1>. QED  BY <1>1, <1>2, <1>3, <1>4, <1>5, <1>6, <1>7 DEF Operates

----------------------------------------------------------------------------
(* The full-text rows. *)

\* One props row per entity, and of the full-text rows of its entity exactly its own.
Matched(p) ==
  /\ \A q, r \in p.props : q.entity = r.entity => q = r
  /\ \A r \in p.props : [entity |-> r.entity, text |-> SearchText(r.props)] \in p.fts
  /\ \A r \in p.props : \A u \in p.fts :
       u.entity = r.entity => u = [entity |-> r.entity, text |-> SearchText(r.props)]

TextInv == Matched(proj) /\ Matched(rebuilt)

\* An upsert indexes what it left in the props column (syncEntityFTS).
LEMMA UpsertEntityMatched ==
  ASSUME NEW p, Matched(p), NEW id, NEW c
  PROVE  Matched(UpsertEntitySnapshot(p, id, c))
<1> DEFINE q == UpsertEntitySnapshot(p, id, c)
           new == PatchedProps(p, id, c)
<1>1. \A r \in new : r.entity = id
  BY DEF PatchedProps
<1>2. \A r, t \in new : r = t
  BY DEF PatchedProps, Matched
<1>3. /\ q.props = {r \in p.props : r.entity # id} \cup new
      /\ q.fts = {t \in p.fts : t.entity # id}
                   \cup {[entity |-> id, text |-> SearchText(r.props)] : r \in new}
  BY DEF UpsertEntitySnapshot, SyncEntityFTS
<1>. HIDE DEF q, new
<1>4. \A r, t \in q.props : r.entity = t.entity => r = t
  BY <1>1, <1>2, <1>3 DEF Matched
<1>5. \A r \in q.props : [entity |-> r.entity, text |-> SearchText(r.props)] \in q.fts
  BY <1>1, <1>3 DEF Matched
<1>6. \A r \in q.props : \A u \in q.fts :
        u.entity = r.entity => u = [entity |-> r.entity, text |-> SearchText(r.props)]
  <2>. SUFFICES ASSUME NEW r \in q.props, NEW u \in q.fts, u.entity = r.entity
                PROVE  u = [entity |-> r.entity, text |-> SearchText(r.props)]
    OBVIOUS
  <2>1. CASE r \in new
    <3>1. PICK t \in new : u = [entity |-> id, text |-> SearchText(t.props)]
      BY <1>1, <1>3, <2>1
    <3>. QED  BY <1>1, <1>2, <2>1, <3>1
  <2>2. CASE r \notin new
    <3>1. r \in p.props /\ r.entity # id
      BY <1>3, <2>2
    <3>2. u \in p.fts
      BY <1>3, <3>1
    <3>. QED  BY <3>1, <3>2 DEF Matched
  <2>. QED  BY <2>1, <2>2
<1>. QED  BY <1>4, <1>5, <1>6 DEF Matched, q

\* An edge has no props and no text.
LEMMA EdgesMatched ==
  ASSUME NEW p \in Projection, Matched(p), NEW e, NEW id
  PROVE  Matched(UpsertEdgeSnapshot(p, e)) /\ Matched(DeleteEdge(p, id))
<1>1. /\ UpsertEdgeSnapshot(p, e).props = p.props /\ UpsertEdgeSnapshot(p, e).fts = p.fts
      /\ DeleteEdge(p, id).props = p.props /\ DeleteEdge(p, id).fts = p.fts
  BY DEF UpsertEdgeSnapshot, DeleteEdge, Projection
<1>. QED  BY <1>1 DEF Matched

\* A merge drops both rows of the nodes it drops.
LEMMA MergeMatched ==
  ASSUME NEW p, Matched(p), NEW keep, NEW drops
  PROVE  Matched(MergeEntitiesTx(p, keep, drops))
<1>1. /\ MergeEntitiesTx(p, keep, drops).props = {r \in p.props : r.entity \notin drops}
      /\ MergeEntitiesTx(p, keep, drops).fts = {r \in p.fts : r.entity \notin drops}
  BY DEF MergeEntitiesTx
<1>. QED  BY <1>1 DEF Matched

\* A retraction removes the props; the text it leaves during a rebuild is of no node.
LEMMA DeleteEntityMatched ==
  ASSUME NEW p, Matched(p), NEW id
  PROVE  /\ Matched(DeleteEntity(p, id))
         /\ Matched([DeleteEntity(p, id) EXCEPT !.fts = {r \in @ : r.entity # id}])
<1> DEFINE q == DeleteEntity(p, id)
           t == [q EXCEPT !.fts = {r \in @ : r.entity # id}]
<1>1. q.props = {r \in p.props : r.entity # id} /\ q.fts = p.fts
  BY DEF DeleteEntity
<1>2. t.props = q.props /\ t.fts = {r \in q.fts : r.entity # id}
  BY DEF DeleteEntity
<1>. HIDE DEF q, t
<1>3. Matched(q)
  BY <1>1 DEF Matched
<1>4. Matched(t)
  BY <1>1, <1>2 DEF Matched
<1>. QED  BY <1>3, <1>4 DEF q, t

\* An assertion, whatever the resolve decision (AppendEntityFact).
LEMMA AppendEntityMatched ==
  ASSUME IInv, TextInv, NEW w \in Writers, NEW c \in Candidate, AppendEntityFact(w, c)
  PROVE  TextInv'
<1>0. Upsertable(c) /\ Upsertable(Marshal(c))
  BY CandidateUpsertable
<1>1. PICK d \in Resolve(proj, c) :
         \/ InsertNew(w, c) \/ InsertFlagged(w, c, d.target)
         \/ Attach(w, c, d.target) \/ MergeThenAttach(w, c, d.target, d.drops)
  BY DEF AppendEntityFact
<1>2. CASE InsertNew(w, c)
  BY <1>2, UpsertEntityMatched DEF InsertNew, Commit, TextInv
<1>3. CASE InsertFlagged(w, c, d.target)
  <2>1. PICK id, x :
          /\ id \in EntityIds
          /\ proj' = UpsertEdgeSnapshot(UpsertEntitySnapshot(proj, id, c), x)
          /\ rebuilt' = UpsertEdgeSnapshot(UpsertEntitySnapshot(rebuilt, id, Marshal(c)), x)
    BY <1>3 DEF InsertFlagged, Commit
  <2>2. /\ UpsertEntitySnapshot(proj, id, c) \in Projection
        /\ UpsertEntitySnapshot(rebuilt, id, Marshal(c)) \in Projection
    <3>1. proj \in Projection /\ rebuilt \in Projection
      BY Tables DEF Good
    <3>. QED  BY <1>0, <2>1, <3>1, UpsertEntityType
  <2>3. /\ Matched(UpsertEntitySnapshot(proj, id, c))
        /\ Matched(UpsertEntitySnapshot(rebuilt, id, Marshal(c)))
    BY UpsertEntityMatched DEF TextInv
  <2>. QED  BY <2>1, <2>2, <2>3, EdgesMatched DEF TextInv
<1>4. CASE Attach(w, c, d.target)
  BY <1>4, UpsertEntityMatched DEF Attach, Commit, TextInv
<1>5. CASE MergeThenAttach(w, c, d.target, d.drops)
  BY <1>5, UpsertEntityMatched, MergeMatched DEF MergeThenAttach, Commit, TextInv
<1>. QED  BY <1>1, <1>2, <1>3, <1>4, <1>5

\* No operation leaves a full-text row behind, or a node without its own (syncEntityFTS).
LEMMA OperatesMatched ==
  ASSUME IInv, TextInv, NEW C \in [Writers -> SUBSET Candidate], Operates(C)
  PROVE  TextInv'
<1>0. proj \in Projection /\ rebuilt \in Projection
  BY Tables DEF Good
<1>1. CASE \E w \in Writers : \E c \in C[w] : AppendEntityFact(w, c)
  BY <1>1, AppendEntityMatched
<1>2. CASE \E w \in Writers, in \in EdgeInput : AppendEdgeFact(w, in)
  BY <1>0, <1>2, EdgesMatched DEF AppendEdgeFact, Commit, TextInv
<1>3. CASE \E w \in Writers, keep \in EntityIds, drop \in EntityIds : MergeEntities(w, keep, drop)
  BY <1>3, MergeMatched DEF MergeEntities, FoldMerged, Commit, TextInv
<1>4. CASE \E w \in Writers, id \in EntityIds : ~FreshEntity(id) /\ RetractEntity(w, id)
  <2>1. PICK id \in EntityIds :
          /\ proj' = [DeleteEntity(proj, id) EXCEPT !.fts = {r \in @ : r.entity # id}]
          /\ rebuilt' = DeleteEntity(rebuilt, id)
    BY <1>4 DEF RetractEntity, Commit
  <2>2. Matched([DeleteEntity(proj, id) EXCEPT !.fts = {r \in @ : r.entity # id}])
    BY DeleteEntityMatched DEF TextInv
  <2>3. Matched(DeleteEntity(rebuilt, id))
    BY DeleteEntityMatched DEF TextInv
  <2>4. Matched(proj)'
    <3>. DEFINE t == [DeleteEntity(proj, id) EXCEPT !.fts = {r \in @ : r.entity # id}]
    <3>1. proj' = t /\ Matched(t)
      BY <2>1, <2>2
    <3>. HIDE DEF t
    <3>. QED  BY <3>1 DEF Matched
  <2>5. Matched(rebuilt)'
    BY <2>1, <2>3 DEF Matched
  <2>. QED  BY <2>4, <2>5 DEF TextInv
<1>5. CASE \E w \in Writers, id \in EdgeIds : ~FreshEdge(id) /\ RetractEdge(w, id)
  BY <1>0, <1>5, EdgesMatched DEF RetractEdge, Commit, TextInv
<1>6. CASE RebuildProjection
  BY <1>6 DEF RebuildProjection, TextInv, Matched
<1>7. CASE UNCHANGED vars
  BY <1>7 DEF vars, TextInv, Matched
<1>. QED  BY <1>1, <1>2, <1>3, <1>4, <1>5, <1>6, <1>7 DEF Operates

----------------------------------------------------------------------------
(* Theorems. *)

\* An empty store satisfies the invariant, and every step keeps it.
THEOREM Inductive == (Init => IInv) /\ (IInv /\ [Next]_vars => IInv')
<1>1. Init => IInv
  <2>. SUFFICES ASSUME Init PROVE IInv
    OBVIOUS
  <2>1. facts = {} /\ proj = EmptyProjection /\ rebuilt = EmptyProjection
    BY DEF Init
  <2>2. EmptyProjection \in Projection /\ Live(EmptyProjection) = {}
    BY DEF EmptyProjection, Projection, Live
  <2>3. Good(EmptyProjection)
    BY <2>2 DEF Good, References, Uniqueness, EmptyProjection
  <2>4. Gone = {}
    BY <2>1 DEF Gone
  <2>. QED  BY <2>1, <2>2, <2>3, <2>4, FS_EmptySet DEF IInv, RebuildAgrees, LogKnows
<1>2. IInv /\ [Next]_vars => IInv'
  <2>. DEFINE C == [w \in Writers |-> Candidates]
  <2>1. C \in [Writers -> SUBSET Candidate] /\ ([Next]_vars => Operates(C))
    BY NextOperates, StoreAssumption
  <2>. HIDE DEF C
  <2>. QED  BY <2>1, OperatesPreserves
<1>. QED  BY <1>1, <1>2

\* The tables stay typed.
THEOREM TypeCorrect == Spec => []TypeOK
BY Inductive, InvariantImplies, PTL DEF Spec

\* No write and no rebuild ever breaks a foreign key or a uniqueness constraint
\* (mergeEntitiesTx and the cascades of entities.go).
THEOREM SchemaNeverViolated == Spec => []Consistent
BY Inductive, InvariantImplies, PTL DEF Spec

\* The online path and the fold of the log agree on entities, keys, embeddings and, of
\* edges, on id, ends, predicate and space, at every moment (RebuildProjection).
THEOREM RebuildEqualsOnline == Spec => []RebuildAgrees
BY Inductive, InvariantImplies, PTL DEF Spec

\* No resolve, attach, merge, edge or rebuild revives a retracted or merged node.
THEOREM NoRevival == Spec => []GoneStaysGone
BY Inductive, InvariantImplies, PTL DEF Spec

\* The full-text row of a live node indexes the props it has, after any sequence of
\* attaches, merges, retractions and rebuilds (syncEntityFTS).
THEOREM SearchFollowsProps == Spec => []SearchMatchesProps
<1>1. Init => TextInv
  BY DEF Init, EmptyProjection, TextInv, Matched
<1>2. IInv /\ TextInv /\ [Next]_vars => TextInv'
  <2>. DEFINE C == [w \in Writers |-> Candidates]
  <2>1. C \in [Writers -> SUBSET Candidate] /\ ([Next]_vars => Operates(C))
    BY NextOperates, StoreAssumption
  <2>. HIDE DEF C
  <2>. QED  BY <2>1, OperatesMatched
<1>3. TextInv => SearchMatchesProps
  BY DEF TextInv, Matched, SearchMatchesProps
<1>. QED  BY <1>1, <1>2, <1>3, Inductive, PTL DEF Spec

----------------------------------------------------------------------------
(* Merging one by one and at once. *)

\* Of a non-empty set of naturals one is least.
LEMMA LeastOf ==
  ASSUME NEW S \in SUBSET Nat, S # {}
  PROVE  \E i \in S : \A j \in S : i <= j
<1>1. \E i \in S : \A j \in S : <<j, i>> \notin OpToRel(<, Nat)
  BY WFMin, NatLessThanWellFounded
<1>2. \A i, j \in Nat : <<j, i>> \notin OpToRel(<, Nat) => i <= j
  BY DEF OpToRel
<1>. QED  BY <1>1, <1>2

\* Merging nothing changes nothing.
LEMMA MergeNothing ==
  ASSUME NEW p \in Projection, NEW keep
  PROVE  MergeEntitiesTx(p, keep, {}) = p
<1> DEFINE q == MergeEntitiesTx(p, keep, {})
<1>1. q.entities = p.entities /\ q.props = p.props /\ q.fts = p.fts
  BY DEF MergeEntitiesTx
<1>2. q.ext = p.ext /\ q.emb = p.emb
  BY DEF MergeEntitiesTx, MovedKeys, MovedEmbeddings
<1>3. q.edges = p.edges
  <2>1. q.edges = {[id |-> e.id, predicate |-> e.predicate, from |-> e.from, to |-> e.to, space |-> e.space] :
                     e \in p.edges}
    BY DEF MergeEntitiesTx
  <2>2. \A e \in p.edges : [id |-> e.id, predicate |-> e.predicate, from |-> e.from, to |-> e.to,
                            space |-> e.space] = e
    BY DEF Projection, EdgeRow
  <2>. HIDE DEF q
  <2>. QED  BY <2>1, <2>2
<1>4. q = [entities |-> q.entities, ext |-> q.ext, emb |-> q.emb, edges |-> q.edges,
           props |-> q.props, fts |-> q.fts]
  BY DEF MergeEntitiesTx
<1>5. p = [entities |-> p.entities, ext |-> p.ext, emb |-> p.emb, edges |-> p.edges,
           props |-> p.props, fts |-> p.fts]
  BY DEF Projection
<1>. HIDE DEF q
<1>6. q = p
  BY <1>1, <1>2, <1>3, <1>4, <1>5
<1>. QED  BY <1>6 DEF q

\* Merging some nodes, oldest first, and then one younger than they: all of them at once.
LEMMA MergeOneMore ==
  ASSUME NEW p \in Projection, NEW keep \in EntityIds, NEW D \in SUBSET EntityIds, NEW d \in EntityIds,
         keep \notin D, keep # d, \A x \in D : x < d
  PROVE  MergeEntitiesTx(MergeEntitiesTx(p, keep, D), keep, {d}) = MergeEntitiesTx(p, keep, D \cup {d})
<1>0. EntityIds \subseteq Nat /\ D \subseteq Nat /\ d \in Nat /\ d \notin D
  BY StoreAssumption
<1> DEFINE some == MergeEntitiesTx(p, keep, D)
           more == MergeEntitiesTx(some, keep, {d})
           all  == MergeEntitiesTx(p, keep, D \cup {d})
<1>1. more.entities = all.entities /\ more.props = all.props /\ more.fts = all.fts
  BY DEF MergeEntitiesTx
<1>2. more.edges = all.edges
  <2> DEFINE at(i, E) == IF i \in E THEN keep ELSE i
             row(e, E) == [id |-> e.id, predicate |-> e.predicate, from |-> at(e.from, E),
                           to |-> at(e.to, E), space |-> e.space]
  <2>1. /\ some.edges = {row(e, D) : e \in p.edges}
        /\ more.edges = {row(e, {d}) : e \in some.edges}
        /\ all.edges = {row(e, D \cup {d}) : e \in p.edges}
    BY DEF MergeEntitiesTx
  <2>2. \A i : at(at(i, D), {d}) = at(i, D \cup {d})
    OBVIOUS
  <2>3. \A e : row(row(e, D), {d}) = row(e, D \cup {d})
    BY <2>2
  <2>. HIDE DEF row, at, some, more, all
  <2>4. more.edges = {row(row(e, D), {d}) : e \in p.edges}
    BY <2>1
  <2>5. {row(row(e, D), {d}) : e \in p.edges} = {row(e, D \cup {d}) : e \in p.edges}
    BY <2>3
  <2>. QED  BY <2>1, <2>4, <2>5
<1>3. more.ext = all.ext
  <2> DEFINE onto(rows) == {[r EXCEPT !.entity = keep] : r \in rows}
  <2>1. /\ some.ext = {r \in p.ext : r.entity \notin D} \cup onto(MovedKeys(p.ext, keep, D))
        /\ more.ext = {r \in some.ext : r.entity \notin {d}} \cup onto(MovedKeys(some.ext, keep, {d}))
        /\ all.ext = {r \in p.ext : r.entity \notin D \cup {d}} \cup onto(MovedKeys(p.ext, keep, D \cup {d}))
    BY DEF MergeEntitiesTx
  <2>2. p.ext \subseteq [entity : EntityIds, key : Keys, space : Spaces]
    BY DEF Projection
  <2>3. \A r \in p.ext : [r EXCEPT !.entity = keep].entity = keep /\ [r EXCEPT !.entity = keep].key = r.key
    BY <2>2
  <2>4. MovedKeys(p.ext, keep, D) \subseteq p.ext
    BY DEF MovedKeys
  <2>. HIDE DEF some, more, all
  <2>5. {r \in some.ext : r.entity \notin {d}}
          = {r \in p.ext : r.entity \notin D \cup {d}} \cup onto(MovedKeys(p.ext, keep, D))
    BY <2>1, <2>3, <2>4
  <2>6. ASSUME NEW k
        PROVE  (\E q \in some.ext : q.key = k /\ q.entity = keep)
                 <=> \E q \in p.ext : q.key = k /\ q.entity \in D \cup {keep}
    <3>1. ASSUME NEW q \in some.ext, q.key = k, q.entity = keep
          PROVE  \E x \in p.ext : x.key = k /\ x.entity \in D \cup {keep}
      <4>1. CASE q \in p.ext
        BY <3>1, <4>1
      <4>2. CASE q \in onto(MovedKeys(p.ext, keep, D))
        <5>1. PICK r \in MovedKeys(p.ext, keep, D) : q = [r EXCEPT !.entity = keep]
          BY <4>2
        <5>. QED  BY <2>3, <2>4, <3>1, <5>1 DEF MovedKeys
      <4>. QED  BY <2>1, <4>1, <4>2
    <3>2. ASSUME NEW q \in p.ext, q.key = k, q.entity = keep
          PROVE  \E x \in some.ext : x.key = k /\ x.entity = keep
      BY <2>1, <3>2
    <3>3. ASSUME NEW q \in p.ext, q.key = k, q.entity \in D, ~ \E x \in p.ext : x.key = k /\ x.entity = keep
          PROVE  \E x \in some.ext : x.key = k /\ x.entity = keep
      <4> DEFINE I == {x.entity : x \in {y \in p.ext : y.key = k /\ y.entity \in D}}
      <4>1. I \in SUBSET Nat /\ I # {}
        BY <1>0, <3>3
      <4>2. PICK i \in I : \A j \in I : i <= j
        BY <4>1, LeastOf
      <4>3. PICK r \in p.ext : r.key = k /\ r.entity \in D /\ r.entity = i
        BY <4>2
      <4>4. \A x \in p.ext : x.key = k /\ x.entity \in D => i <= x.entity /\ x.entity \in Nat
        BY <1>0, <4>2
      <4>5. r \in MovedKeys(p.ext, keep, D)
        BY <1>0, <3>3, <4>3, <4>4 DEF MovedKeys, Precedes
      <4>6. [r EXCEPT !.entity = keep] \in some.ext
        BY <2>1, <4>5
      <4>. QED  BY <2>3, <4>3, <4>6
    <3>. QED  BY <3>1, <3>2, <3>3
  <2>7. MovedKeys(some.ext, keep, {d})
          = {r \in p.ext : r.entity = d /\ ~ \E q \in p.ext : q.key = r.key /\ q.entity \in D \cup {keep}}
    <3>1. \A r : r \in some.ext /\ r.entity = d <=> r \in p.ext /\ r.entity = d
      BY <1>0, <2>1, <2>3, <2>4
    <3>2. MovedKeys(some.ext, keep, {d})
            = {r \in some.ext : r.entity = d /\ ~ \E q \in some.ext : q.key = r.key /\ q.entity = keep}
      BY <1>0 DEF MovedKeys, Precedes
    <3>3. ASSUME NEW r
          PROVE  r \in MovedKeys(some.ext, keep, {d})
                   <=> /\ r \in p.ext /\ r.entity = d
                       /\ ~ \E q \in p.ext : q.key = r.key /\ q.entity \in D \cup {keep}
      BY <2>6, <3>1, <3>2
    <3>. QED  BY <3>3
  <2>8. MovedKeys(p.ext, keep, D \cup {d})
          = MovedKeys(p.ext, keep, D)
              \cup {r \in p.ext : r.entity = d /\ ~ \E q \in p.ext : q.key = r.key /\ q.entity \in D \cup {keep}}
    <3>1. ASSUME NEW q \in p.ext, NEW r \in p.ext
          PROVE  /\ r.entity \in D => (Precedes(q, r, keep, D \cup {d}) <=> Precedes(q, r, keep, D))
                 /\ r.entity = d => (Precedes(q, r, keep, D \cup {d}) <=> q.entity \in D \cup {keep})
      <4> DEFINE a == q.entity
                 b == r.entity
      <4>1. a \in Nat /\ b \in Nat
        BY <1>0, <2>2
      <4>2. /\ Precedes(q, r, keep, D \cup {d}) <=> a = keep \/ ((a \in D \/ a = d) /\ a < b)
            /\ Precedes(q, r, keep, D) <=> a = keep \/ (a \in D /\ a < b)
        BY DEF Precedes
      <4>. HIDE DEF a, b
      <4>3. /\ b \in D => (Precedes(q, r, keep, D \cup {d}) <=> Precedes(q, r, keep, D))
            /\ b = d => (Precedes(q, r, keep, D \cup {d}) <=> a \in D \cup {keep})
        <5>1. b \in D => ~ (a = d /\ a < b)
          BY <1>0, <4>1
        <5>2. b = d => (a \in D => a < b) /\ ~ (a = d /\ a < b)
          BY <1>0, <4>1
        <5>. QED  BY <4>2, <5>1, <5>2
      <4>. QED  BY <4>3 DEF a, b
    <3>. QED  BY <1>0, <3>1 DEF MovedKeys
  <2>9. onto(MovedKeys(p.ext, keep, D \cup {d}))
          = onto(MovedKeys(p.ext, keep, D)) \cup onto(MovedKeys(some.ext, keep, {d}))
    <3>1. MovedKeys(p.ext, keep, D \cup {d}) = MovedKeys(p.ext, keep, D) \cup MovedKeys(some.ext, keep, {d})
      BY <2>7, <2>8
    <3>. QED  BY <3>1
  <2>. HIDE DEF onto
  <2>. QED  BY <2>1, <2>5, <2>9
<1>4. more.emb = all.emb
  <2> DEFINE onto(rows) == {[r EXCEPT !.entity = keep] : r \in rows}
  <2>1. /\ some.emb = {r \in p.emb : r.entity \notin D} \cup onto(MovedEmbeddings(p.emb, keep, D))
        /\ more.emb = {r \in some.emb : r.entity \notin {d}} \cup onto(MovedEmbeddings(some.emb, keep, {d}))
        /\ all.emb = {r \in p.emb : r.entity \notin D \cup {d}}
                       \cup onto(MovedEmbeddings(p.emb, keep, D \cup {d}))
    BY DEF MergeEntitiesTx
  <2>2. p.emb \subseteq [entity : EntityIds, vector : Vectors]
    BY DEF Projection
  <2>3. \A r \in p.emb : [r EXCEPT !.entity = keep].entity = keep
    BY <2>2
  <2>4. MovedEmbeddings(p.emb, keep, D) \subseteq p.emb
    BY DEF MovedEmbeddings
  <2>. HIDE DEF some, more, all
  <2>5. {r \in some.emb : r.entity \notin {d}}
          = {r \in p.emb : r.entity \notin D \cup {d}} \cup onto(MovedEmbeddings(p.emb, keep, D))
    BY <2>1, <2>3, <2>4
  <2>6. (\E q \in some.emb : q.entity = keep) <=> \E q \in p.emb : q.entity \in D \cup {keep}
    <3>1. ASSUME NEW q \in some.emb, q.entity = keep
          PROVE  \E x \in p.emb : x.entity \in D \cup {keep}
      BY <2>1, <3>1 DEF MovedEmbeddings
    <3>2. ASSUME NEW q \in p.emb, q.entity = keep
          PROVE  \E x \in some.emb : x.entity = keep
      BY <2>1, <3>2
    <3>3. ASSUME NEW q \in p.emb, q.entity \in D, ~ \E x \in p.emb : x.entity = keep
          PROVE  \E x \in some.emb : x.entity = keep
      <4> DEFINE I == {x.entity : x \in {y \in p.emb : y.entity \in D}}
      <4>1. I \in SUBSET Nat /\ I # {}
        BY <1>0, <3>3
      <4>2. PICK i \in I : \A j \in I : i <= j
        BY <4>1, LeastOf
      <4>3. PICK r \in p.emb : r.entity \in D /\ r.entity = i
        BY <4>2
      <4>4. \A x \in p.emb : x.entity \in D => i <= x.entity /\ x.entity \in Nat
        BY <1>0, <4>2
      <4>5. r \in MovedEmbeddings(p.emb, keep, D)
        BY <1>0, <3>3, <4>3, <4>4 DEF MovedEmbeddings, Precedes
      <4>6. [r EXCEPT !.entity = keep] \in some.emb
        BY <2>1, <4>5
      <4>. QED  BY <2>3, <4>3, <4>6
    <3>. QED  BY <3>1, <3>2, <3>3
  <2>7. MovedEmbeddings(some.emb, keep, {d})
          = {r \in p.emb : r.entity = d /\ ~ \E q \in p.emb : q.entity \in D \cup {keep}}
    <3>1. \A r : r \in some.emb /\ r.entity = d <=> r \in p.emb /\ r.entity = d
      BY <1>0, <2>1, <2>3, <2>4
    <3>2. MovedEmbeddings(some.emb, keep, {d})
            = {r \in some.emb : r.entity = d /\ ~ \E q \in some.emb : q.entity = keep}
      BY <1>0 DEF MovedEmbeddings, Precedes
    <3>. QED  BY <2>6, <3>1, <3>2
  <2>8. MovedEmbeddings(p.emb, keep, D \cup {d})
          = MovedEmbeddings(p.emb, keep, D)
              \cup {r \in p.emb : r.entity = d /\ ~ \E q \in p.emb : q.entity \in D \cup {keep}}
    <3>1. ASSUME NEW q \in p.emb, NEW r \in p.emb
          PROVE  /\ r.entity \in D => (Precedes(q, r, keep, D \cup {d}) <=> Precedes(q, r, keep, D))
                 /\ r.entity = d => (Precedes(q, r, keep, D \cup {d}) <=> q.entity \in D \cup {keep})
      <4> DEFINE a == q.entity
                 b == r.entity
      <4>1. a \in Nat /\ b \in Nat
        BY <1>0, <2>2
      <4>2. /\ Precedes(q, r, keep, D \cup {d}) <=> a = keep \/ ((a \in D \/ a = d) /\ a < b)
            /\ Precedes(q, r, keep, D) <=> a = keep \/ (a \in D /\ a < b)
        BY DEF Precedes
      <4>. HIDE DEF a, b
      <4>3. /\ b \in D => (Precedes(q, r, keep, D \cup {d}) <=> Precedes(q, r, keep, D))
            /\ b = d => (Precedes(q, r, keep, D \cup {d}) <=> a \in D \cup {keep})
        <5>1. b \in D => ~ (a = d /\ a < b)
          BY <1>0, <4>1
        <5>2. b = d => (a \in D => a < b) /\ ~ (a = d /\ a < b)
          BY <1>0, <4>1
        <5>. QED  BY <4>2, <5>1, <5>2
      <4>. QED  BY <4>3 DEF a, b
    <3>. QED  BY <1>0, <3>1 DEF MovedEmbeddings
  <2>9. onto(MovedEmbeddings(p.emb, keep, D \cup {d}))
          = onto(MovedEmbeddings(p.emb, keep, D)) \cup onto(MovedEmbeddings(some.emb, keep, {d}))
    <3>1. MovedEmbeddings(p.emb, keep, D \cup {d}) = MovedEmbeddings(p.emb, keep, D) \cup MovedEmbeddings(some.emb, keep, {d})
      BY <2>7, <2>8
    <3>. QED  BY <3>1
  <2>. HIDE DEF onto
  <2>. QED  BY <2>1, <2>5, <2>9
<1>5. /\ more = [entities |-> more.entities, ext |-> more.ext, emb |-> more.emb, edges |-> more.edges,
                 props |-> more.props, fts |-> more.fts]
      /\ all = [entities |-> all.entities, ext |-> all.ext, emb |-> all.emb, edges |-> all.edges,
                props |-> all.props, fts |-> all.fts]
  BY DEF MergeEntitiesTx
<1>. HIDE DEF some, more, all
<1>6. more = all
  BY <1>1, <1>2, <1>3, <1>4, <1>5
<1>. QED  BY <1>6 DEF some, more, all

----------------------------------------------------------------------------
(* What a rebuild folds. *)

\* The facts L are numbered from h + 1 to n without a gap (the AUTOINCREMENT seq).
Numbered(L, h, n) ==
  /\ h \in Nat /\ n \in Nat /\ h <= n
  /\ \A f \in L : f.seq \in (h + 1) .. n
  /\ \A i \in (h + 1) .. n : \E f \in L : f.seq = i
  /\ \A f, g \in L : f.seq = g.seq => f = g

\* T holds the tables after each of those facts, from p to q.
Replays(T, L, h, n, p, q) ==
  /\ T[h] = p /\ T[n] = q
  /\ \A i \in (h + 1) .. n : \A f \in L : f.seq = i => T[i] = FoldFact(T[i - 1], f)

Folds(L, h, n, p, q) == Numbered(L, h, n) /\ \E T : Replays(T, L, h, n, p, q)

\* One fact.
LEMMA FoldsOne ==
  ASSUME NEW h \in Nat, NEW f, f.seq = h + 1, NEW p
  PROVE  Folds({f}, h, h + 1, p, FoldFact(p, f))
<1> DEFINE T == [i \in h .. (h + 1) |-> IF i = h THEN p ELSE FoldFact(p, f)]
<1>1. Numbered({f}, h, h + 1)
  BY DEF Numbered
<1>2. T[h] = p /\ T[h + 1] = FoldFact(p, f)
  OBVIOUS
<1>. HIDE DEF T
<1>3. \A i \in (h + 1) .. (h + 1) : T[i] = FoldFact(T[i - 1], f)
  <2>. SUFFICES ASSUME NEW i \in (h + 1) .. (h + 1) PROVE T[i] = FoldFact(T[i - 1], f)
    OBVIOUS
  <2>1. i = h + 1 /\ i - 1 = h
    OBVIOUS
  <2>. QED  BY <1>2, <2>1
<1>4. Replays(T, {f}, h, h + 1, p, FoldFact(p, f))
  BY <1>2, <1>3 DEF Replays
<1>. QED  BY <1>1, <1>4 DEF Folds

\* One run of facts after another.
LEMMA FoldsThen ==
  ASSUME NEW L, NEW M, NEW h, NEW m, NEW n, NEW p, NEW q, NEW r,
         Folds(L, h, m, p, q), Folds(M, m, n, q, r)
  PROVE  Folds(L \cup M, h, n, p, r)
<1>0. Numbered(L, h, m) /\ Numbered(M, m, n)
  BY DEF Folds
<1>1. h \in Nat /\ m \in Nat /\ n \in Nat /\ h <= m /\ m <= n
  BY <1>0 DEF Numbered
<1>2. \A f \in L : f.seq \in (h + 1) .. m
  BY <1>0 DEF Numbered
<1>3. \A f \in M : f.seq \in (m + 1) .. n
  BY <1>0 DEF Numbered
<1>4. Numbered(L \cup M, h, n)
  <2>1. \A f \in L \cup M : f.seq \in (h + 1) .. n
    BY <1>1, <1>2, <1>3
  <2>2. \A i \in (h + 1) .. n : \E f \in L \cup M : f.seq = i
    <3>1. \A i \in (h + 1) .. n : i \in (h + 1) .. m \/ i \in (m + 1) .. n
      BY <1>1
    <3>. QED  BY <1>0, <3>1 DEF Numbered
  <2>3. \A f, g \in L \cup M : f.seq = g.seq => f = g
    <3>1. \A f \in L, g \in M : f.seq # g.seq
      BY <1>1, <1>2, <1>3
    <3>. QED  BY <1>0, <3>1 DEF Numbered
  <2>4. h <= n
    BY <1>1
  <2>. QED  BY <1>1, <2>1, <2>2, <2>3, <2>4 DEF Numbered
<1>5. PICK T : Replays(T, L, h, m, p, q)
  BY DEF Folds
<1>6. PICK U : Replays(U, M, m, n, q, r)
  BY DEF Folds
<1> DEFINE V == [i \in h .. n |-> IF i <= m THEN T[i] ELSE U[i]]
<1>7. V[h] = p
  BY <1>1, <1>5 DEF Replays
<1>8. V[m] = q
  BY <1>1, <1>5 DEF Replays
<1>9. V[n] = r
  <2>1. CASE n = m
    BY <1>1, <1>8, <1>6, <2>1 DEF Replays
  <2>2. CASE n # m
    BY <1>1, <1>6, <2>2 DEF Replays
  <2>. QED  BY <2>1, <2>2
<1>10. \A f \in L : V[f.seq] = FoldFact(V[f.seq - 1], f)
  <2>. SUFFICES ASSUME NEW f \in L PROVE V[f.seq] = FoldFact(V[f.seq - 1], f)
    OBVIOUS
  <2>1. f.seq \in (h + 1) .. m /\ T[f.seq] = FoldFact(T[f.seq - 1], f)
    BY <1>2, <1>5 DEF Replays
  <2>2. V[f.seq] = T[f.seq] /\ V[f.seq - 1] = T[f.seq - 1]
    BY <1>1, <2>1
  <2>. QED  BY <2>1, <2>2
<1>11. \A f \in M : V[f.seq] = FoldFact(V[f.seq - 1], f)
  <2>. SUFFICES ASSUME NEW f \in M PROVE V[f.seq] = FoldFact(V[f.seq - 1], f)
    OBVIOUS
  <2>1. f.seq \in (m + 1) .. n /\ U[f.seq] = FoldFact(U[f.seq - 1], f)
    BY <1>3, <1>6 DEF Replays
  <2>2. V[f.seq] = U[f.seq]
    BY <1>1, <2>1
  <2>3. V[f.seq - 1] = U[f.seq - 1]
    <3>1. CASE f.seq = m + 1
      <4>1. f.seq - 1 = m
        BY <1>1, <3>1
      <4>. QED  BY <1>6, <1>8, <4>1 DEF Replays
    <3>2. CASE f.seq # m + 1
      BY <1>1, <2>1, <3>2
    <3>. QED  BY <3>1, <3>2
  <2>. QED  BY <2>1, <2>2, <2>3
<1>. HIDE DEF V
<1>12. Replays(V, L \cup M, h, n, p, r)
  BY <1>7, <1>9, <1>10, <1>11 DEF Replays
<1>. QED  BY <1>4, <1>12 DEF Folds

\* The facts of a log are as many as their numbers.
LEMMA NumberedHead ==
  ASSUME NEW L, NEW n, Numbered(L, 0, n)
  PROVE  IsFiniteSet(L) /\ Cardinality(L) = n
<1> DEFINE s == [f \in L |-> f.seq]
<1>1. n \in Nat
  BY DEF Numbered
<1>2. IsFiniteSet(1 .. n) /\ Cardinality(1 .. n) = n
  BY <1>1, FS_Interval
<1>3. s \in Injection(L, 1 .. n)
  <2>1. s \in [L -> 1 .. n]
    BY DEF Numbered
  <2>2. \A f, g \in L : s[f] = s[g] => f = g
    BY DEF Numbered
  <2>. HIDE DEF s
  <2>. QED  BY <2>1, <2>2 DEF Injection, IsInjective
<1>4. s \in Surjection(L, 1 .. n)
  <2>1. s \in [L -> 1 .. n]
    BY DEF Numbered
  <2>2. \A i \in 1 .. n : \E f \in L : s[f] = i
    BY DEF Numbered
  <2>. QED  BY <2>1, <2>2 DEF Surjection
<1>. HIDE DEF s
<1>. QED  BY <1>2, <1>3, <1>4, FS_Injection

\* The recursive fold of a rebuild ends in the tables that replaying the log ends in.
LEMMA FoldIsReplay ==
  ASSUME Folds(facts, 0, Head, EmptyProjection, rebuilt)
  PROVE  RebuiltIsFold
<1>1. Numbered(facts, 0, Head) /\ Head \in Nat
  BY DEF Folds, Numbered
<1>2. PICK T : Replays(T, facts, 0, Head, EmptyProjection, rebuilt)
  BY DEF Folds
<1> DEFINE at(n) == CHOOSE f \in facts : f.seq = n
           S == [n \in 0 .. Head |-> T[n]]
           step(F, n) == IF n = 0 THEN EmptyProjection ELSE FoldFact(F[n - 1], at(n))
           F == CHOOSE G : G = [n \in 0 .. Head |-> step(G, n)]
<1>3. \A n \in 1 .. Head : at(n) \in facts /\ at(n).seq = n
  BY <1>1 DEF Numbered
<1>4. S = [n \in 0 .. Head |-> step(S, n)]
  <2>1. \A n \in 0 .. Head : S[n] = step(S, n)
    <3>. SUFFICES ASSUME NEW n \in 0 .. Head PROVE S[n] = step(S, n)
      OBVIOUS
    <3>1. CASE n = 0
      BY <1>1, <1>2, <3>1 DEF Replays
    <3>2. CASE n # 0
      <4>1. n \in 1 .. Head /\ n - 1 \in 0 .. Head
        BY <1>1, <3>2
      <4>2. T[n] = FoldFact(T[n - 1], at(n))
        BY <1>2, <1>3, <4>1 DEF Replays
      <4>3. S[n] = T[n] /\ S[n - 1] = T[n - 1]
        BY <4>1
      <4>. HIDE DEF S, at
      <4>. QED  BY <3>2, <4>2, <4>3
    <3>. QED  BY <3>1, <3>2
  <2>2. S = [n \in 0 .. Head |-> S[n]]
    OBVIOUS
  <2>. HIDE DEF S, step
  <2>. QED  BY <2>1, <2>2
<1>5. F = [n \in 0 .. Head |-> step(F, n)]
  <2>. HIDE DEF S, step
  <2>. QED  BY <1>4
<1>6. \A n \in 0 .. Head : F[n] = S[n]
  <2> DEFINE Off == {n \in 0 .. Head : F[n] # S[n]}
  <2>. SUFFICES ASSUME Off # {} PROVE FALSE
    OBVIOUS
  <2>0. Off \in SUBSET Nat
    OBVIOUS
  <2>1. PICK n \in Off : \A j \in Off : n <= j
    <3>. HIDE DEF Off
    <3>. QED  BY <2>0, LeastOf
  <2>2. n \in 0 .. Head /\ F[n] # S[n]
    BY <2>1
  <2>3. F[n] = step(F, n) /\ S[n] = step(S, n)
    <3>. HIDE DEF F, S, step
    <3>. QED  BY <1>4, <1>5, <2>2
  <2>4. n # 0
    <3>. HIDE DEF F, S, at
    <3>. QED  BY <2>2, <2>3
  <2>5. n - 1 \in 0 .. Head /\ ~ (n <= n - 1)
    BY <1>1, <2>2, <2>4
  <2>6. F[n - 1] = S[n - 1]
    <3>. HIDE DEF F, S
    <3>. QED  BY <2>1, <2>5
  <2>. HIDE DEF F, S, at
  <2>. QED  BY <2>2, <2>3, <2>4, <2>6
<1>7. S[Head] = rebuilt
  BY <1>1, <1>2 DEF Replays
<1>8. Fold = F[Head]
  BY DEF Fold
<1>. HIDE DEF F, S
<1>. QED  BY <1>1, <1>6, <1>7, <1>8 DEF RebuiltIsFold

\* The log folds into the history variable.
FoldInv == Folds(facts, 0, Head, EmptyProjection, rebuilt)

\* Every write ends in Commit: it appends facts that continue the numbering and fold
\* into what it leaves.
LEMMA CommitFolds ==
  ASSUME FoldInv, NEW new, NEW n, NEW P, NEW R,
         Folds(new, Head, n, rebuilt, R), Commit(new, P, R)
  PROVE  FoldInv'
<1>1. facts' = facts \cup new /\ rebuilt' = R
  BY DEF Commit
<1>2. Folds(facts \cup new, 0, n, EmptyProjection, R)
  BY FoldsThen DEF FoldInv
<1>3. Cardinality(facts \cup new) = n
  BY <1>2, NumberedHead DEF Folds
<1>4. Folds(facts', 0, Head', EmptyProjection, rebuilt')
  BY <1>1, <1>2, <1>3 DEF Head
<1>. QED  BY <1>4 DEF FoldInv

\* A write of one fact.
LEMMA CommitOneFolds ==
  ASSUME FoldInv, NEW f, f.seq = Head + 1, NEW P, Commit({f}, P, FoldFact(rebuilt, f))
  PROVE  FoldInv'
<1>1. Head \in Nat
  BY DEF FoldInv, Folds, Numbered
<1>2. Folds({f}, Head, Head + 1, rebuilt, FoldFact(rebuilt, f))
  BY <1>1, FoldsOne
<1>. QED  BY <1>2, CommitFolds

\* What folding each kind of fact does.
LEMMA FoldOfAssertion ==
  ASSUME NEW p, NEW w, NEW c, NEW id, NEW n
  PROVE  /\ AssertOnto(w, c, id, n).seq = n
         /\ FoldFact(p, AssertOnto(w, c, id, n)) = UpsertEntitySnapshot(p, id, Marshal(c))
BY DEF FoldFact, AssertOnto, NewFact

\* The merged facts of a resolve, folded one by one, oldest first, do what the online
\* write does with all of them (mergeEntitiesTx, RebuildProjection).
LEMMA MergeFactsFold ==
  ASSUME NEW p \in Projection, NEW w, NEW c, NEW keep \in EntityIds,
         NEW drops \in SUBSET EntityIds, keep \notin drops, Head \in Nat
  PROVE  Folds(MergeFacts(w, c, keep, drops), Head, Head + Cardinality(drops), p,
               MergeEntitiesTx(p, keep, drops))
<1>0. IsFiniteSet(drops) /\ drops \subseteq Nat
  BY StoreAssumption, FS_Subset
<1> DEFINE upto(d) == {x \in drops : x <= d}
           rank == [d \in drops |-> Cardinality(upto(d))]
           k == Cardinality(drops)
           mf == [d \in drops |-> NewFact(Head + rank[d], "entity.merged", d, w,
                                           <<"mergeof", EntityDedupeKey(c), d>>, [keep |-> keep, drop |-> d])]
           M == {mf[d] : d \in drops}
           first(j) == {d \in drops : rank[d] <= j}
           T == [i \in Head .. (Head + k) |-> MergeEntitiesTx(p, keep, first(i - Head))]
<1>1. MergeFacts(w, c, keep, drops) = M
  <2>1. \A d \in drops : rank[d] = Cardinality({x \in drops : x <= d})
    OBVIOUS
  <2>. HIDE DEF rank
  <2>. QED  BY <2>1 DEF MergeFacts
<1>2. \A d \in drops : /\ IsFiniteSet(upto(d)) /\ d \in upto(d) /\ upto(d) \subseteq drops
                       /\ rank[d] = Cardinality(upto(d))
  <2>1. \A d \in drops : upto(d) \in SUBSET drops
    OBVIOUS
  <2>2. \A d \in drops : IsFiniteSet(upto(d))
    BY <1>0, <2>1, FS_Subset
  <2>3. \A d \in drops : d \in upto(d)
    BY <1>0
  <2>. HIDE DEF upto
  <2>. QED  BY <2>1, <2>2, <2>3
<1>3. k \in Nat
  BY <1>0, FS_CardinalityType
<1>4. \A d \in drops : rank[d] \in 1 .. k
  <2>. SUFFICES ASSUME NEW d \in drops PROVE rank[d] \in 1 .. k
    OBVIOUS
  <2>1. Cardinality(upto(d)) \in Nat /\ Cardinality(upto(d)) <= k
    BY <1>0, <1>2, FS_Subset, FS_CardinalityType
  <2>2. Cardinality(upto(d)) # 0
    BY <1>2, FS_EmptySet
  <2>. HIDE DEF upto, k, rank
  <2>. QED  BY <1>2, <1>3, <2>1, <2>2
<1>5. \A d, e \in drops : d < e => rank[d] < rank[e]
  <2>. SUFFICES ASSUME NEW d \in drops, NEW e \in drops, d < e PROVE rank[d] < rank[e]
    OBVIOUS
  <2>0. \A x \in Nat : x <= d => x <= e /\ x # e
    BY <1>0
  <2>1. upto(d) \in SUBSET upto(e) /\ e \notin upto(d) /\ e \in upto(e)
    BY <1>0, <1>2, <2>0
  <2>2. upto(d) # upto(e)
    BY <2>1
  <2>3. Cardinality(upto(d)) <= Cardinality(upto(e)) /\ Cardinality(upto(d)) # Cardinality(upto(e))
    BY <1>2, <2>1, <2>2, FS_Subset
  <2>. HIDE DEF upto, rank
  <2>. QED  BY <1>2, <1>4, <2>3
<1>6. \A d, e \in drops : rank[d] = rank[e] => d = e
  <2>. HIDE DEF rank
  <2>. QED  BY <1>0, <1>4, <1>5
<1>7. \A j \in 1 .. k : \E d \in drops : rank[d] = j
  <2>1. rank \in [drops -> 1 .. k]
    <3>1. rank = [d \in drops |-> rank[d]]
      OBVIOUS
    <3>. HIDE DEF rank, k
    <3>. QED  BY <1>4, <3>1
  <2>. HIDE DEF rank
  <2>2. rank \in Injection(drops, 1 .. k)
    BY <1>6, <2>1 DEF Injection, IsInjective
  <2>3. IsFiniteSet(1 .. k) /\ Cardinality(1 .. k) = Cardinality(drops)
    BY <1>3, FS_Interval
  <2>4. rank \in Surjection(drops, 1 .. k)
    <3>. HIDE DEF k
    <3>. QED  BY <2>2, <2>3, FS_Injection
  <2>. HIDE DEF k
  <2>. QED  BY <2>4 DEF Surjection
<1>8. \A d \in drops : mf[d].seq = Head + rank[d]
  <2>. HIDE DEF rank
  <2>. QED  BY DEF NewFact
<1>9. first(0) = {} /\ first(k) = drops
  <2>. HIDE DEF rank, k
  <2>. QED  BY <1>3, <1>4
<1>10. \A d \in drops : first(rank[d]) = first(rank[d] - 1) \cup {d}
  <2>. SUFFICES ASSUME NEW d \in drops PROVE first(rank[d]) = first(rank[d] - 1) \cup {d}
    OBVIOUS
  <2>. HIDE DEF rank, k
  <2>1. \A x \in drops : rank[x] <= rank[d] <=> rank[x] <= rank[d] - 1 \/ x = d
    BY <1>3, <1>4, <1>6
  <2>. QED  BY <2>1
<1>11. \A d \in drops : \A x \in first(rank[d] - 1) : x < d
  <2>. HIDE DEF rank, k
  <2>1. \A d, x \in drops : rank[x] <= rank[d] - 1 => x < d
    BY <1>0, <1>3, <1>4, <1>5
  <2>. QED  BY <2>1
<1>12. \A d \in drops : MergeEntitiesTx(p, keep, first(rank[d]))
                          = FoldFact(MergeEntitiesTx(p, keep, first(rank[d] - 1)), mf[d])
  <2>. SUFFICES ASSUME NEW d \in drops
                PROVE  MergeEntitiesTx(p, keep, first(rank[d]))
                         = FoldFact(MergeEntitiesTx(p, keep, first(rank[d] - 1)), mf[d])
    OBVIOUS
  <2> DEFINE D == first(rank[d] - 1)
  <2>1. D \in SUBSET EntityIds /\ keep \notin D /\ d \in EntityIds /\ keep # d
    OBVIOUS
  <2>2. \A x \in D : x < d
    BY <1>11
  <2>3. first(rank[d]) = D \cup {d}
    BY <1>10
  <2>. HIDE DEF first, rank, mf
  <2>4. MergeEntitiesTx(MergeEntitiesTx(p, keep, D), keep, {d}) = MergeEntitiesTx(p, keep, D \cup {d})
    <3>. HIDE DEF D
    <3>. QED  BY <2>1, <2>2, MergeOneMore
  <2>5. \A q : FoldFact(q, mf[d]) = MergeEntitiesTx(q, keep, {d} \ {keep})
    <3>1. mf[d].kind = "entity.merged" /\ mf[d].payload.keep = keep /\ mf[d].payload.drop = d
      BY DEF mf, NewFact
    <3>. QED  BY <3>1 DEF FoldFact, FoldMerged
  <2>6. {d} \ {keep} = {d}
    BY <2>1
  <2>. QED  BY <2>3, <2>4, <2>5, <2>6
<1>13. Numbered(M, Head, Head + k)
  <2>1. \A f \in M : f.seq \in (Head + 1) .. (Head + k)
    <3>. HIDE DEF mf, rank, k
    <3>. QED  BY <1>3, <1>4, <1>8
  <2>2. \A i \in (Head + 1) .. (Head + k) : \E f \in M : f.seq = i
    <3>. SUFFICES ASSUME NEW i \in (Head + 1) .. (Head + k) PROVE \E f \in M : f.seq = i
      OBVIOUS
    <3>. HIDE DEF mf, rank, k
    <3>1. i - Head \in 1 .. k
      BY <1>3
    <3>2. PICK d \in drops : rank[d] = i - Head
      BY <1>7, <3>1
    <3>3. mf[d].seq = Head + rank[d]
      BY <1>8
    <3>4. Head + rank[d] = i
      BY <1>3, <3>2
    <3>. QED  BY <3>3, <3>4
  <2>3. \A f, g \in M : f.seq = g.seq => f = g
    <3>. HIDE DEF mf, rank, k
    <3>1. \A d, e \in drops : mf[d].seq = mf[e].seq => rank[d] = rank[e]
      BY <1>3, <1>4, <1>8
    <3>. QED  BY <1>6, <3>1
  <2>4. Head <= Head + k /\ Head + k \in Nat
    <3>. HIDE DEF k
    <3>. QED  BY <1>3
  <2>. HIDE DEF M, k
  <2>. QED  BY <2>1, <2>2, <2>3, <2>4 DEF Numbered
<1>14. Replays(T, M, Head, Head + k, p, MergeEntitiesTx(p, keep, drops))
  <2>. HIDE DEF first, k
  <2>1. T[Head] = MergeEntitiesTx(p, keep, first(0)) /\ T[Head + k] = MergeEntitiesTx(p, keep, first(k))
    BY <1>3
  <2>2. T[Head] = p /\ T[Head + k] = MergeEntitiesTx(p, keep, drops)
    <3>. HIDE DEF T
    <3>. QED  BY <1>9, <2>1, MergeNothing
  <2>3. \A d \in drops : T[Head + rank[d]] = FoldFact(T[(Head + rank[d]) - 1], mf[d])
    <3>. SUFFICES ASSUME NEW d \in drops PROVE T[Head + rank[d]] = FoldFact(T[(Head + rank[d]) - 1], mf[d])
      OBVIOUS
    <3>. HIDE DEF mf, rank
    <3>1. rank[d] \in 1 .. k
      BY <1>4
    <3>2. T[Head + rank[d]] = MergeEntitiesTx(p, keep, first(rank[d]))
      <4>1. Head + rank[d] \in Head .. (Head + k) /\ (Head + rank[d]) - Head = rank[d]
        BY <1>3, <3>1
      <4>. QED  BY <4>1
    <3>3. T[(Head + rank[d]) - 1] = MergeEntitiesTx(p, keep, first(rank[d] - 1))
      <4>1. /\ (Head + rank[d]) - 1 \in Head .. (Head + k)
            /\ ((Head + rank[d]) - 1) - Head = rank[d] - 1
        BY <1>3, <3>1
      <4>. QED  BY <4>1
    <3>. HIDE DEF T
    <3>. QED  BY <1>12, <3>2, <3>3
  <2>. HIDE DEF T, mf, rank
  <2>4. \A i \in (Head + 1) .. (Head + k) : \A f \in M : f.seq = i => T[i] = FoldFact(T[i - 1], f)
    <3>. SUFFICES ASSUME NEW i \in (Head + 1) .. (Head + k), NEW f \in M, f.seq = i
                  PROVE  T[i] = FoldFact(T[i - 1], f)
      OBVIOUS
    <3>1. PICK d \in drops : f = mf[d]
      OBVIOUS
    <3>2. Head + rank[d] = i
      BY <1>8, <3>1
    <3>3. T[Head + rank[d]] = FoldFact(T[(Head + rank[d]) - 1], mf[d])
      BY <2>3
    <3>4. T[i] = FoldFact(T[i - 1], mf[d])
      BY <3>2, <3>3, Zenon
    <3>. QED  BY <3>1, <3>4
  <2>. HIDE DEF M
  <2>. QED  BY <2>2, <2>4 DEF Replays
<1>. HIDE DEF M, T, k
<1>15. Folds(M, Head, Head + k, p, MergeEntitiesTx(p, keep, drops))
  BY <1>13, <1>14 DEF Folds
<1>. QED  BY <1>1, <1>15 DEF k

\* An assertion, whatever the resolve decision (AppendEntityFact).
LEMMA AppendEntityFolds ==
  ASSUME IInv, FoldInv, NEW w \in Writers, NEW c \in Candidate, AppendEntityFact(w, c)
  PROVE  FoldInv'
<1>0. Head \in Nat /\ rebuilt \in Projection
  BY Tables DEF FoldInv, Folds, Numbered, Good
<1>1. PICK d \in Resolve(proj, c) :
         \/ d.action = "insert_new"     /\ InsertNew(w, c)
         \/ d.action = "insert_flagged" /\ InsertFlagged(w, c, d.target)
         \/ d.action = "attach"         /\ Attach(w, c, d.target)
         \/ d.action = "merge"          /\ MergeThenAttach(w, c, d.target, d.drops)
  BY DEF AppendEntityFact
<1>2. ASSUME NEW id, NEW P,
             Commit({AssertOnto(w, c, id, Head + 1)}, P, UpsertEntitySnapshot(rebuilt, id, Marshal(c)))
      PROVE  FoldInv'
  <2>. DEFINE f == AssertOnto(w, c, id, Head + 1)
  <2>1. f.seq = Head + 1 /\ FoldFact(rebuilt, f) = UpsertEntitySnapshot(rebuilt, id, Marshal(c))
    BY FoldOfAssertion
  <2>. HIDE DEF f
  <2>2. Commit({f}, P, FoldFact(rebuilt, f))
    BY <1>2, <2>1 DEF f
  <2>. QED  BY <2>1, <2>2, CommitOneFolds
<1>3. CASE InsertNew(w, c)
  BY <1>2, <1>3 DEF InsertNew
<1>4. CASE d.action = "attach" /\ Attach(w, c, d.target)
  BY <1>2, <1>4 DEF Attach
<1>5. CASE d.action = "insert_flagged" /\ InsertFlagged(w, c, d.target)
  <2>. DEFINE edge(id, e) == [id |-> e, predicate |-> "sameAs?", from |-> id, to |-> d.target,
                              space |-> c.space]
              flag(id, e) == NewFact(Head + 2, "edge.asserted", e, w,
                                     <<"sameas", EntityDedupeKey(c), d.target>>, edge(id, e))
  <2>1. PICK id \in EntityIds, e \in EdgeIds :
          Commit({AssertOnto(w, c, id, Head + 1), flag(id, e)},
                 UpsertEdgeSnapshot(UpsertEntitySnapshot(proj, id, c), edge(id, e)),
                 UpsertEdgeSnapshot(UpsertEntitySnapshot(rebuilt, id, Marshal(c)), edge(id, e)))
    BY <1>5 DEF InsertFlagged
  <2>. DEFINE f == AssertOnto(w, c, id, Head + 1)
              g == flag(id, e)
              x == edge(id, e)
              P == UpsertEdgeSnapshot(UpsertEntitySnapshot(proj, id, c), x)
              R1 == UpsertEntitySnapshot(rebuilt, id, Marshal(c))
  <2>2. f.seq = Head + 1 /\ FoldFact(rebuilt, f) = R1
    BY FoldOfAssertion
  <2>3. g.seq = Head + 2 /\ g.kind = "edge.asserted" /\ g.payload = x
    BY DEF NewFact
  <2>4. Commit({f, g}, P, UpsertEdgeSnapshot(R1, x))
    BY <2>1
  <2>. HIDE DEF f, g, x, P, R1
  <2>5. FoldFact(R1, g) = UpsertEdgeSnapshot(R1, x)
    BY <2>3 DEF FoldFact
  <2>6. Folds({f}, Head, Head + 1, rebuilt, R1)
    BY <1>0, <2>2, FoldsOne
  <2>7. Folds({g}, Head + 1, Head + 2, R1, UpsertEdgeSnapshot(R1, x))
    <3>1. Head + 1 \in Nat /\ (Head + 1) + 1 = Head + 2
      BY <1>0
    <3>. QED  BY <2>3, <2>5, <3>1, FoldsOne
  <2>8. Folds({f} \cup {g}, Head, Head + 2, rebuilt, UpsertEdgeSnapshot(R1, x))
    BY <2>6, <2>7, FoldsThen
  <2>9. {f} \cup {g} = {f, g}
    OBVIOUS
  <2>. QED  BY <2>4, <2>8, <2>9, CommitFolds
<1>6. CASE d.action = "merge" /\ MergeThenAttach(w, c, d.target, d.drops)
  <2>. DEFINE keep == d.target
              drops == d.drops
              k == Cardinality(drops)
              M == MergeFacts(w, c, keep, drops)
              f == AssertOnto(w, c, keep, Head + k + 1)
              P == UpsertEntitySnapshot(MergeEntitiesTx(proj, keep, drops), keep, c)
              R1 == MergeEntitiesTx(rebuilt, keep, drops)
              R == UpsertEntitySnapshot(R1, keep, Marshal(c))
  <2>1. keep \in EntityIds /\ drops \in SUBSET EntityIds /\ keep \notin drops
    BY <1>6, ResolveTargets, Tables
  <2>2. Commit(M \cup {f}, P, R)
    BY <1>6 DEF MergeThenAttach
  <2>3. Folds(M, Head, Head + k, rebuilt, R1)
    <3>. HIDE DEF keep, drops
    <3>. QED  BY <1>0, <2>1, MergeFactsFold
  <2>4. Head + k \in Nat
    <3>1. k \in Nat
      BY <2>1, StoreAssumption, FS_Subset, FS_CardinalityType
    <3>. HIDE DEF k
    <3>. QED  BY <1>0, <3>1
  <2>5. f.seq = (Head + k) + 1 /\ FoldFact(R1, f) = R
    <3>. HIDE DEF keep, k, R1
    <3>. QED  BY FoldOfAssertion
  <2>. HIDE DEF M, f, P, R1, R, k
  <2>6. Folds({f}, Head + k, (Head + k) + 1, R1, R)
    BY <2>4, <2>5, FoldsOne
  <2>7. Folds(M \cup {f}, Head, (Head + k) + 1, rebuilt, R)
    BY <2>3, <2>6, FoldsThen
  <2>. QED  BY <2>2, <2>7, CommitFolds
<1>. QED  BY <1>1, <1>3, <1>4, <1>5, <1>6

\* Any operation folds into the history variable what it folds into the log.
LEMMA OperatesFolds ==
  ASSUME IInv, FoldInv, NEW C \in [Writers -> SUBSET Candidate], Operates(C)
  PROVE  FoldInv'
<1>1. CASE \E w \in Writers : \E c \in C[w] : AppendEntityFact(w, c)
  BY <1>1, AppendEntityFolds
<1>2. CASE \E w \in Writers, in \in EdgeInput : AppendEdgeFact(w, in)
  <2>1. PICK w \in Writers, in \in EdgeInput : AppendEdgeFact(w, in)
    BY <1>2
  <2>. DEFINE edge(e) == [id |-> e, predicate |-> in.predicate, from |-> in.from, to |-> in.to,
                          space |-> in.space]
  <2>2. PICK e \in EdgeIds :
          Commit({NewFact(Head + 1, "edge.asserted", e, w, EdgeDedupeKey(in), edge(e))},
                 UpsertEdgeSnapshot(proj, edge(e)), UpsertEdgeSnapshot(rebuilt, edge(e)))
    BY <2>1 DEF AppendEdgeFact
  <2>. DEFINE x == edge(e)
              f == NewFact(Head + 1, "edge.asserted", e, w, EdgeDedupeKey(in), x)
  <2>3. f.seq = Head + 1 /\ f.kind = "edge.asserted" /\ f.payload = x
    BY DEF NewFact
  <2>4. Commit({f}, UpsertEdgeSnapshot(proj, x), UpsertEdgeSnapshot(rebuilt, x))
    BY <2>2
  <2>. HIDE DEF f, x
  <2>5. FoldFact(rebuilt, f) = UpsertEdgeSnapshot(rebuilt, x)
    BY <2>3 DEF FoldFact
  <2>. QED  BY <2>3, <2>4, <2>5, CommitOneFolds
<1>3. CASE \E w \in Writers, keep \in EntityIds, drop \in EntityIds : MergeEntities(w, keep, drop)
  <2>1. PICK w \in Writers, keep \in EntityIds, drop \in EntityIds : MergeEntities(w, keep, drop)
    BY <1>3
  <2>. DEFINE m == [keep |-> keep, drop |-> drop]
              f == NewFact(Head + 1, "entity.merged", drop, w, <<"merge", keep, drop>>, m)
  <2>2. f.seq = Head + 1 /\ f.kind = "entity.merged" /\ f.payload = m
    BY DEF NewFact
  <2>3. Commit({f}, FoldMerged(proj, m), FoldMerged(rebuilt, m))
    BY <2>1 DEF MergeEntities
  <2>. HIDE DEF f, m
  <2>4. FoldFact(rebuilt, f) = FoldMerged(rebuilt, m)
    BY <2>2 DEF FoldFact
  <2>. QED  BY <2>2, <2>3, <2>4, CommitOneFolds
<1>4. CASE \E w \in Writers, id \in EntityIds : ~FreshEntity(id) /\ RetractEntity(w, id)
  <2>1. PICK w \in Writers, id \in EntityIds : RetractEntity(w, id)
    BY <1>4
  <2>. DEFINE f == NewFact(Head + 1, "entity.retracted", id, w, <<"retract", id>>, {})
              P == [DeleteEntity(proj, id) EXCEPT !.fts = {r \in @ : r.entity # id}]
  <2>2. f.seq = Head + 1 /\ f.kind = "entity.retracted" /\ f.subject = id
    BY DEF NewFact
  <2>3. Commit({f}, P, DeleteEntity(rebuilt, id))
    BY <2>1 DEF RetractEntity
  <2>. HIDE DEF f, P
  <2>4. FoldFact(rebuilt, f) = DeleteEntity(rebuilt, id)
    BY <2>2 DEF FoldFact
  <2>. QED  BY <2>2, <2>3, <2>4, CommitOneFolds
<1>5. CASE \E w \in Writers, id \in EdgeIds : ~FreshEdge(id) /\ RetractEdge(w, id)
  <2>1. PICK w \in Writers, id \in EdgeIds : RetractEdge(w, id)
    BY <1>5
  <2>. DEFINE f == NewFact(Head + 1, "edge.retracted", id, w, <<"edge-retract", id>>, {})
  <2>2. f.seq = Head + 1 /\ f.kind = "edge.retracted" /\ f.subject = id
    BY DEF NewFact
  <2>3. Commit({f}, DeleteEdge(proj, id), DeleteEdge(rebuilt, id))
    BY <2>1 DEF RetractEdge
  <2>. HIDE DEF f
  <2>4. FoldFact(rebuilt, f) = DeleteEdge(rebuilt, id)
    BY <2>2 DEF FoldFact
  <2>. QED  BY <2>2, <2>3, <2>4, CommitOneFolds
<1>6. CASE facts' = facts /\ rebuilt' = rebuilt
  BY <1>6 DEF FoldInv, Head
<1>7. RebuildProjection \/ UNCHANGED vars => facts' = facts /\ rebuilt' = rebuilt
  BY DEF RebuildProjection, vars
<1>. QED  BY <1>1, <1>2, <1>3, <1>4, <1>5, <1>6, <1>7 DEF Operates

\* An empty log folds into the empty tables.
LEMMA FoldAtFirst == Init => FoldInv
<1>. SUFFICES ASSUME Init PROVE FoldInv
  OBVIOUS
<1>1. facts = {} /\ rebuilt = EmptyProjection /\ Head = 0
  BY FS_EmptySet DEF Init, Head
<1>2. Numbered({}, 0, 0)
  BY DEF Numbered
<1>3. Replays([i \in 0 .. 0 |-> EmptyProjection], {}, 0, 0, EmptyProjection, EmptyProjection)
  BY DEF Replays
<1>. QED  BY <1>1, <1>2, <1>3 DEF FoldInv, Folds

\* The history variable is, at every moment, what RebuildProjection would fold from the
\* log: seq has no gap and no repetition, and folding the merged facts of a resolve one
\* by one equals the merge the online write does at once.
THEOREM RebuiltIsFoldEver == Spec => []RebuiltIsFold
<1>1. Init => FoldInv
  BY FoldAtFirst
<1>2. IInv /\ FoldInv /\ [Next]_vars => FoldInv'
  <2>. DEFINE C == [w \in Writers |-> Candidates]
  <2>1. C \in [Writers -> SUBSET Candidate] /\ ([Next]_vars => Operates(C))
    BY NextOperates, StoreAssumption
  <2>. HIDE DEF C
  <2>. QED  BY <2>1, OperatesFolds
<1>3. FoldInv => RebuiltIsFold
  BY FoldIsReplay DEF FoldInv
<1>. QED  BY <1>1, <1>2, <1>3, Inductive, PTL DEF Spec

----------------------------------------------------------------------------
(* Where an id leads, through the merges of a log. *)

\* The facts of F that merge the node i into another.
Into(F, i) == {f \in F : f.kind = "entity.merged" /\ f.subject = i /\ f.payload.keep # i}

\* S gives the node that each id leads to.
Leads(F, S) ==
  S = [i \in EntityIds |-> IF Into(F, i) = {} THEN i
                           ELSE S[(CHOOSE f \in Into(F, i) : TRUE).payload.keep]]

\* It is the only such function.
Chained(F, S) == S \in [EntityIds -> EntityIds] /\ Leads(F, S) /\ \A T : Leads(F, T) => T = S

\* Then it is the function that Survivor denotes, of this log and of the next.
LeadOf(F) ==
  LET S[i \in EntityIds] ==
        IF Into(F, i) = {} THEN i ELSE S[(CHOOSE f \in Into(F, i) : TRUE).payload.keep]
  IN S

LEMMA LeadIs ==
  ASSUME NEW F, NEW S, Chained(F, S)
  PROVE  LeadOf(F) = S
<1>. DEFINE T == CHOOSE R : R = [i \in EntityIds |-> IF Into(F, i) = {} THEN i
                                                     ELSE R[(CHOOSE f \in Into(F, i) : TRUE).payload.keep]]
<1>1. LeadOf(F) = T
  BY DEF LeadOf
<1>2. Leads(F, T)
  BY DEF Chained, Leads
<1>. HIDE DEF T
<1>. QED  BY <1>1, <1>2 DEF Chained

LEMMA SurvivorIs ==
  ASSUME NEW S
  PROVE  (Chained(facts, S) => Survivor = S) /\ (Chained(facts', S) => Survivor' = S)
<1>1. Survivor = LeadOf(facts) /\ Survivor' = LeadOf(facts')
  BY DEF Survivor, LeadOf, Into
<1>. QED  BY <1>1, LeadIs

\* What it is at each id.
LEMMA LeadsAt ==
  ASSUME NEW F, NEW S, Leads(F, S), NEW i \in EntityIds
  PROVE  /\ Into(F, i) = {} => S[i] = i
         /\ \A f \in Into(F, i) : (\A g \in Into(F, i) : g.payload.keep = f.payload.keep) => S[i] = S[f.payload.keep]
<1>. DEFINE up(j) == (CHOOSE f \in Into(F, j) : TRUE).payload.keep
            R == [j \in EntityIds |-> IF Into(F, j) = {} THEN j ELSE S[up(j)]]
<1>1. S = R
  BY DEF Leads
<1>2. R[i] = IF Into(F, i) = {} THEN i ELSE S[up(i)]
  OBVIOUS
<1>3. Into(F, i) # {} => \E f \in Into(F, i) : up(i) = f.payload.keep
  OBVIOUS
<1>. HIDE DEF R, up
<1>. QED  BY <1>1, <1>2, <1>3

\* A log with the same merges.
LEMMA ChainSame ==
  ASSUME NEW F, NEW S, Chained(F, S), NEW G, \A i \in EntityIds : Into(G, i) = Into(F, i)
  PROVE  Chained(G, S)
<1>1. \A T : Leads(G, T) <=> Leads(F, T)
  BY DEF Leads
<1>. QED  BY <1>1 DEF Chained

\* The ids that lead to a merged node lead to the one that is kept.
Redirect(S, D, keep) == [i \in EntityIds |-> IF S[i] \in D THEN keep ELSE S[i]]

\* A log with the merges of the nodes D into keep, which were in nobody's.
LEMMA ChainMerge ==
  ASSUME NEW F, NEW S, Chained(F, S), NEW D \in SUBSET EntityIds, NEW keep \in EntityIds \ D,
         \A i \in D \cup {keep} : Into(F, i) = {},
         \A i \in EntityIds : \A f \in Into(F, i) : f.payload.keep \in EntityIds,
         NEW G, \A i \in EntityIds \ D : Into(G, i) = Into(F, i),
         \A i \in D : Into(G, i) # {} /\ \A f \in Into(G, i) : f.payload.keep = keep
  PROVE  Chained(G, Redirect(S, D, keep))
<1>. DEFINE up(i) == (CHOOSE f \in Into(F, i) : TRUE).payload.keep
            upG(i) == (CHOOSE f \in Into(G, i) : TRUE).payload.keep
            R == Redirect(S, D, keep)
<1>1. S = [i \in EntityIds |-> IF Into(F, i) = {} THEN i ELSE S[up(i)]] /\ S \in [EntityIds -> EntityIds]
  BY DEF Chained, Leads
<1>2. \A i \in EntityIds : Into(F, i) # {} => up(i) \in EntityIds
  <2>. SUFFICES ASSUME NEW i \in EntityIds, Into(F, i) # {} PROVE up(i) \in EntityIds
    OBVIOUS
  <2>1. (CHOOSE f \in Into(F, i) : TRUE) \in Into(F, i)
    OBVIOUS
  <2>. QED  BY <2>1
<1>3. \A i \in D : upG(i) = keep
  <2>. SUFFICES ASSUME NEW i \in D PROVE upG(i) = keep
    OBVIOUS
  <2>1. (CHOOSE f \in Into(G, i) : TRUE) \in Into(G, i)
    OBVIOUS
  <2>. QED  BY <2>1
<1>4. \A i \in EntityIds \ D : upG(i) = up(i)
  OBVIOUS
<1>5. \A i \in EntityIds : S[i] = IF Into(F, i) = {} THEN i ELSE S[up(i)]
  <2>. HIDE DEF up
  <2>. QED  BY <1>1
<1>. HIDE DEF up, upG
<1>6. S[keep] = keep /\ \A i \in D : S[i] = i
  BY <1>5
<1>7. \A i \in EntityIds : R[i] = IF S[i] \in D THEN keep ELSE S[i]
  BY DEF Redirect
<1>8. R \in [EntityIds -> EntityIds]
  BY <1>1 DEF Redirect
<1>9. \A i \in EntityIds : R[i] = IF Into(G, i) = {} THEN i ELSE R[upG(i)]
  <2>. SUFFICES ASSUME NEW i \in EntityIds PROVE R[i] = IF Into(G, i) = {} THEN i ELSE R[upG(i)]
    OBVIOUS
  <2>1. CASE i \in D
    BY <1>3, <1>6, <1>7, <2>1
  <2>2. CASE i \notin D /\ Into(F, i) = {}
    BY <1>5, <1>7, <2>2
  <2>3. CASE i \notin D /\ Into(F, i) # {}
    BY <1>2, <1>4, <1>5, <1>7, <2>3
  <2>. QED  BY <2>1, <2>2, <2>3
<1>10. Leads(G, R)
  <2>1. R = [i \in EntityIds |-> IF Into(G, i) = {} THEN i ELSE R[upG(i)]]
    <3>1. R = [i \in EntityIds |-> R[i]]
      BY <1>8
    <3>. HIDE DEF R
    <3>. QED  BY <1>9, <3>1
  <2>. HIDE DEF R
  <2>. QED  BY <2>1 DEF Leads, upG
<1>11. ASSUME NEW T, Leads(G, T) PROVE T = R
  <2>. DEFINE V == [i \in EntityIds |-> IF S[i] \in D THEN IF T[i] = keep THEN S[i] ELSE keep
                                        ELSE T[i]]
  <2>1. T = [i \in EntityIds |-> IF Into(G, i) = {} THEN i ELSE T[upG(i)]]
    BY <1>11 DEF Leads, upG
  <2>2. \A i \in EntityIds : T[i] = IF Into(G, i) = {} THEN i ELSE T[upG(i)]
    BY <2>1
  <2>3. T[keep] = keep
    BY <2>2
  <2>4. \A i \in EntityIds : V[i] = IF S[i] \in D THEN IF T[i] = keep THEN S[i] ELSE keep ELSE T[i]
    OBVIOUS
  <2>5. V = [i \in EntityIds |-> V[i]]
    OBVIOUS
  <2>. HIDE DEF V
  <2>6. \A i \in EntityIds : V[i] = IF Into(F, i) = {} THEN i ELSE V[up(i)]
    <3>. SUFFICES ASSUME NEW i \in EntityIds PROVE V[i] = IF Into(F, i) = {} THEN i ELSE V[up(i)]
      OBVIOUS
    <3>1. CASE i \in D
      <4>1. T[i] = keep
        BY <1>3, <2>2, <2>3, <3>1
      <4>. QED  BY <1>6, <2>4, <3>1, <4>1
    <3>2. CASE i \notin D /\ Into(F, i) = {}
      <4>1. T[i] = i /\ S[i] = i
        BY <1>5, <2>2, <3>2
      <4>. QED  BY <2>4, <3>2, <4>1
    <3>3. CASE i \notin D /\ Into(F, i) # {}
      <4>1. T[i] = T[up(i)] /\ S[i] = S[up(i)] /\ up(i) \in EntityIds
        BY <1>2, <1>4, <1>5, <2>2, <3>3
      <4>. QED  BY <2>4, <3>3, <4>1
    <3>. QED  BY <3>1, <3>2, <3>3
  <2>7. Leads(F, V)
    <3>1. V = [i \in EntityIds |-> IF Into(F, i) = {} THEN i ELSE V[up(i)]]
      BY <2>5, <2>6
    <3>. QED  BY <3>1 DEF Leads, up
  <2>8. V = S
    BY <2>7 DEF Chained
  <2>9. \A i \in EntityIds : T[i] = R[i]
    BY <1>7, <2>4, <2>8
  <2>10. T = [i \in EntityIds |-> T[i]] /\ R = [i \in EntityIds |-> R[i]]
    <3>1. R = [i \in EntityIds |-> R[i]]
      BY <1>8
    <3>2. T = [i \in EntityIds |-> T[i]]
      BY <2>1
    <3>. QED  BY <3>1, <3>2
  <2>. HIDE DEF R
  <2>. QED  BY <2>9, <2>10
<1>. QED  BY <1>8, <1>10, <1>11 DEF Chained

----------------------------------------------------------------------------
(* Who holds a key. *)

Asserts(F) == {f \in F : f.kind = "entity.asserted"}

\* The tables p hold what the log F asserts, with each id led by S to its node.
Backed(F, S, p) ==
  /\ \A i \in Live(p) : Into(F, i) = {}
  /\ \A i \in EntityIds : \A f \in Into(F, i) :
       f.payload.keep \in EntityIds /\ \E a \in Asserts(F) : a.subject = i
  /\ \A f \in Asserts(F) : f.subject \in EntityIds /\ \E g \in Asserts(F) : g.subject = S[f.subject]
  /\ \A e \in p.entities : \E f \in Asserts(F) : S[f.subject] = e.id /\ f.payload.space = e.space
  /\ \A r \in p.ext : \E f \in Asserts(F) : /\ S[f.subject] = r.entity /\ f.payload.space = r.space
                                            /\ r.key \in f.payload.keys

\* All that was asserted of a node, under whatever id, was asserted in one space.
OneSpace(F, S) ==
  \A f, g \in Asserts(F) : S[f.subject] = S[g.subject] => f.payload.space = g.payload.space

\* The keys of the assertions in the space s are held by the nodes they lead to.
Follow(F, S, p, s) ==
  \A f \in Asserts(F) : f.payload.space = s /\ S[f.subject] \in Live(p) =>
    \A k \in f.payload.keys : [entity |-> S[f.subject], key |-> k, space |-> s] \in p.ext

Keyed(F, p, s) ==
  \E S : Chained(F, S) /\ Backed(F, S, p) /\ (OneSpace(F, S) => Follow(F, S, p, s))

\* What is not merged leads to itself.
LEMMA AtItself ==
  ASSUME NEW F, NEW S, Chained(F, S), NEW i \in EntityIds, Into(F, i) = {}
  PROVE  S[i] = i
BY LeadsAt DEF Chained

\* An assertion of a node that lives, or of a new one.
LEMMA UpsertBacked ==
  ASSUME NEW F, NEW p, Good(p), NEW S, Chained(F, S), Backed(F, S, p),
         NEW id \in EntityIds, id \in Live(p) \/ ~ \E f \in Asserts(F) : f.subject = id,
         NEW c, Upsertable(c),
         NEW a, a.kind = "entity.asserted", a.subject = id, a.payload.space = c.space, a.payload.keys = c.keys
  PROVE  LET q == UpsertEntitySnapshot(p, id, c)
             G == F \cup {a}
         IN Chained(G, S) /\ Backed(G, S, q) /\ (OneSpace(G, S) => OneSpace(F, S))
<1>. DEFINE q == UpsertEntitySnapshot(p, id, c)
            G == F \cup {a}
<1>1. Asserts(G) = Asserts(F) \cup {a} /\ \A i : Into(G, i) = Into(F, i)
  BY DEF Asserts, Into
<1>2. Live(q) = Live(p) \cup {id}
  BY UpsertEntityGood
<1>3. Chained(G, S)
  BY <1>1, ChainSame
<1>4. Into(F, id) = {}
  <2>1. CASE id \in Live(p)
    BY <2>1 DEF Backed
  <2>2. CASE ~ \E f \in Asserts(F) : f.subject = id
    BY <2>2 DEF Backed
  <2>. QED  BY <2>1, <2>2
<1>5. S[id] = id
  BY <1>4, AtItself
<1>6. \A e \in q.entities : e \in p.entities \/ (e.id = id /\ e.space = c.space)
  BY DEF UpsertEntitySnapshot
<1>7. \A r \in q.ext : r \in p.ext \/ (r.entity = id /\ r.space = c.space /\ r.key \in c.keys)
  BY DEF UpsertEntitySnapshot, ClaimableKeys
<1>. HIDE DEF q, G
<1>8. \A i \in Live(q) : Into(G, i) = {}
  BY <1>1, <1>2, <1>4 DEF Backed
<1>9. \A i \in EntityIds : \A f \in Into(G, i) :
        f.payload.keep \in EntityIds /\ \E b \in Asserts(G) : b.subject = i
  BY <1>1 DEF Backed
<1>10. \A f \in Asserts(G) : f.subject \in EntityIds /\ \E g \in Asserts(G) : g.subject = S[f.subject]
  BY <1>1, <1>5 DEF Backed
<1>11. \A e \in q.entities : \E f \in Asserts(G) : S[f.subject] = e.id /\ f.payload.space = e.space
  <2>. SUFFICES ASSUME NEW e \in q.entities
                PROVE  \E f \in Asserts(G) : S[f.subject] = e.id /\ f.payload.space = e.space
    OBVIOUS
  <2>1. CASE e \in p.entities
    BY <1>1, <2>1 DEF Backed
  <2>2. CASE e.id = id /\ e.space = c.space
    BY <1>1, <1>5, <2>2
  <2>. QED  BY <1>6, <2>1, <2>2
<1>12. \A r \in q.ext : \E f \in Asserts(G) : /\ S[f.subject] = r.entity /\ f.payload.space = r.space
                                             /\ r.key \in f.payload.keys
  <2>. SUFFICES ASSUME NEW r \in q.ext
                PROVE  \E f \in Asserts(G) : /\ S[f.subject] = r.entity /\ f.payload.space = r.space
                                             /\ r.key \in f.payload.keys
    OBVIOUS
  <2>1. CASE r \in p.ext
    BY <1>1, <2>1 DEF Backed
  <2>2. CASE r.entity = id /\ r.space = c.space /\ r.key \in c.keys
    BY <1>1, <1>5, <2>2
  <2>. QED  BY <1>7, <2>1, <2>2
<1>13. OneSpace(G, S) => OneSpace(F, S)
  BY <1>1 DEF OneSpace
<1>14. Backed(G, S, q)
  BY <1>8, <1>9, <1>10, <1>11, <1>12 DEF Backed
<1>. QED  BY <1>3, <1>13, <1>14 DEF q, G

\* It gives the node the keys it names, if nobody else has them in the space.
LEMMA UpsertKeyed ==
  ASSUME NEW F, NEW p, Good(p), NEW s, Keyed(F, p, s),
         NEW id \in EntityIds, id \in Live(p) \/ ~ \E f \in Asserts(F) : f.subject = id,
         NEW c, Upsertable(c),
         NEW a, a.kind = "entity.asserted", a.subject = id, a.payload.space = c.space, a.payload.keys = c.keys,
         c.space = s => \A r \in p.ext : r.space = s /\ r.key \in c.keys => r.entity = id
  PROVE  Keyed(F \cup {a}, UpsertEntitySnapshot(p, id, c), s)
<1>. DEFINE q == UpsertEntitySnapshot(p, id, c)
            G == F \cup {a}
<1>1. PICK S : Chained(F, S) /\ Backed(F, S, p) /\ (OneSpace(F, S) => Follow(F, S, p, s))
  BY DEF Keyed
<1>2. Chained(G, S) /\ Backed(G, S, q) /\ (OneSpace(G, S) => OneSpace(F, S))
  BY <1>1, UpsertBacked
<1>3. Asserts(G) = Asserts(F) \cup {a}
  BY DEF Asserts
<1>4. Live(q) = Live(p) \cup {id} /\ Good(q)
  BY UpsertEntityGood
<1>5. id \in Live(q) /\ S[id] = id
  <2>. HIDE DEF q, G
  <2>1. id \in Live(q)
    BY <1>4
  <2>2. Into(G, id) = {}
    BY <1>2, <2>1 DEF Backed
  <2>. QED  BY <1>2, <2>1, <2>2, AtItself
<1>6. p.ext \subseteq q.ext
  BY DEF UpsertEntitySnapshot
<1>7. \A k \in c.keys : \/ [entity |-> id, key |-> k, space |-> c.space] \in q.ext
                        \/ \E r \in p.ext : r.key = k /\ (r.space = c.space \/ r.entity = id)
  BY DEF UpsertEntitySnapshot, ClaimableKeys
<1>8. \A r \in q.ext : r = [entity |-> r.entity, key |-> r.key, space |-> r.space]
  BY <1>4 DEF Good, Projection
<1>. HIDE DEF q, G
<1>9. ASSUME OneSpace(G, S) PROVE Follow(G, S, q, s)
  <2>. SUFFICES ASSUME NEW f \in Asserts(G), f.payload.space = s, S[f.subject] \in Live(q),
                       NEW k \in f.payload.keys
                PROVE  [entity |-> S[f.subject], key |-> k, space |-> s] \in q.ext
    BY DEF Follow
  <2>1. CASE f \in Asserts(F) /\ S[f.subject] \in Live(p)
    BY <1>1, <1>2, <1>6, <1>9, <2>1 DEF Follow
  <2>2. CASE f \in Asserts(F) /\ S[f.subject] \notin Live(p)
    <3>1. S[f.subject] = id /\ id \notin Live(p)
      BY <1>4, <2>2
    <3>. QED  BY <1>1, <2>2, <3>1 DEF Backed
  <2>3. CASE f = a
    <3>1. CASE \E r \in p.ext : r.key = k /\ (r.space = s \/ r.entity = id)
      <4>1. PICK r \in p.ext : r.key = k /\ (r.space = s \/ r.entity = id)
        BY <3>1
      <4>2. r.entity = id
        BY <2>3, <4>1
      <4>3. PICK g \in Asserts(F) : S[g.subject] = id /\ g.payload.space = r.space
        BY <1>1, <4>2 DEF Backed
      <4>4. r.space = s
        BY <1>3, <1>5, <1>9, <2>3, <4>3 DEF OneSpace
      <4>5. r = [entity |-> id, key |-> k, space |-> s]
        BY <1>6, <1>8, <4>1, <4>2, <4>4
      <4>. QED  BY <1>5, <1>6, <2>3, <4>5
    <3>2. CASE ~ \E r \in p.ext : r.key = k /\ (r.space = s \/ r.entity = id)
      BY <1>5, <1>7, <2>3, <3>2
    <3>. QED  BY <3>1, <3>2
  <2>. QED  BY <1>3, <2>1, <2>2, <2>3
<1>. QED  BY <1>2, <1>9 DEF Keyed, q, G

\* Who is live was asserted under the id it has.
LEMMA AssertedLive ==
  ASSUME NEW F, NEW S, NEW p, Backed(F, S, p), NEW i \in Live(p)
  PROVE  \E a \in Asserts(F) : a.subject = i
<1>1. PICK e \in p.entities : e.id = i
  BY DEF Live
<1>2. PICK f \in Asserts(F) : S[f.subject] = i
  BY <1>1 DEF Backed
<1>. QED  BY <1>2 DEF Backed

\* The rows of a key that a merge brings together, all of one space, are one row: it moves.
LEMMA KeyMoves ==
  ASSUME NEW p, Good(p), NEW keep, NEW D, keep \notin D,
         NEW r \in p.ext, r.entity \in D,
         \A q \in p.ext : q.key = r.key /\ q.entity \in D \cup {keep} => q.space = r.space
  PROVE  [entity |-> keep, key |-> r.key, space |-> r.space] \in MergeEntitiesTx(p, keep, D).ext
<1>1. r = [entity |-> r.entity, key |-> r.key, space |-> r.space] /\ r.entity \in Nat
  BY StoreAssumption DEF Good, Projection
<1>2. r \in MovedKeys(p.ext, keep, D)
  <2>1. ASSUME NEW q \in p.ext, q.key = r.key, Precedes(q, r, keep, D) PROVE FALSE
    <3>1. q = r
      BY <2>1 DEF Precedes, Good, Uniqueness
    <3>. QED  BY <1>1, <2>1, <3>1 DEF Precedes
  <2>. QED  BY <2>1 DEF MovedKeys
<1>3. [r EXCEPT !.entity = keep] = [entity |-> keep, key |-> r.key, space |-> r.space]
  BY <1>1
<1>4. [r EXCEPT !.entity = keep] \in MergeEntitiesTx(p, keep, D).ext
  BY <1>2 DEF MergeEntitiesTx
<1>. QED  BY <1>3, <1>4

\* Where the ids lead once D is merged into keep.
LEMMA MergeChain ==
  ASSUME NEW F, NEW p, Good(p), NEW S, Chained(F, S), Backed(F, S, p),
         NEW keep \in Live(p), NEW D \in SUBSET Live(p), keep \notin D,
         NEW M, \A f \in M : f.kind = "entity.merged" /\ f.payload.keep = keep /\ f.subject \in D \cup {keep},
         \A d \in D : \E f \in M : f.subject = d
  PROVE  Chained(F \cup M, Redirect(S, D, keep))
<1>. DEFINE G == F \cup M
<1>0. Live(p) \subseteq EntityIds
  BY DEF Live, Good, Projection
<1>1. \A i : Into(G, i) = Into(F, i) \cup Into(M, i)
  BY DEF Into
<1>2. \A i : i \notin D => Into(M, i) = {}
  BY DEF Into
<1>3. \A i \in D : Into(M, i) # {} /\ \A f \in Into(M, i) : f.payload.keep = keep
  BY DEF Into
<1>4. \A i \in Live(p) : Into(F, i) = {}
  BY DEF Backed
<1>. HIDE DEF G
<1>5. \A i \in D \cup {keep} : Into(F, i) = {}
  BY <1>4
<1>6. \A i \in EntityIds : \A f \in Into(F, i) : f.payload.keep \in EntityIds
  BY DEF Backed
<1>7. \A i \in EntityIds \ D : Into(G, i) = Into(F, i)
  BY <1>1, <1>2
<1>8. \A i \in D : Into(G, i) # {} /\ \A f \in Into(G, i) : f.payload.keep = keep
  BY <1>1, <1>3, <1>4
<1>9. keep \in EntityIds \ D /\ D \in SUBSET EntityIds
  BY <1>0
<1>10. Chained(G, Redirect(S, D, keep))
  BY <1>5, <1>6, <1>7, <1>8, <1>9, ChainMerge
<1>. QED  BY <1>10 DEF G

\* The keys of merged nodes are found on the node that is kept.
LEMMA KeyedMerge ==
  ASSUME NEW F, NEW p, Good(p), NEW s, Keyed(F, p, s),
         NEW keep \in Live(p), NEW D \in SUBSET Live(p), keep \notin D,
         NEW M, \A f \in M : f.kind = "entity.merged" /\ f.payload.keep = keep /\ f.subject \in D \cup {keep},
         \A d \in D : \E f \in M : f.subject = d
  PROVE  Keyed(F \cup M, MergeEntitiesTx(p, keep, D), s)
<1>. DEFINE q == MergeEntitiesTx(p, keep, D)
            G == F \cup M
<1>0. Live(p) \subseteq EntityIds
  BY DEF Live, Good, Projection
<1>1. PICK S : Chained(F, S) /\ Backed(F, S, p) /\ (OneSpace(F, S) => Follow(F, S, p, s))
  BY DEF Keyed
<1>2. Asserts(G) = Asserts(F)
  BY DEF Asserts
<1>3. \A i : Into(G, i) = Into(F, i) \cup Into(M, i)
  BY DEF Into
<1>4. \A i : i \notin D => Into(M, i) = {}
  BY DEF Into
<1>5. \A i \in D : Into(M, i) # {} /\ \A f \in Into(M, i) : f.payload.keep = keep
  BY DEF Into
<1>6. \A i \in Live(p) : Into(F, i) = {}
  BY <1>1 DEF Backed
<1>. DEFINE T == Redirect(S, D, keep)
<1>7. \A i \in EntityIds : T[i] = IF S[i] \in D THEN keep ELSE S[i]
  BY DEF Redirect
<1>8. Live(q) = Live(p) \ D /\ Good(q)
  BY <1>0, MergeGood
<1>9. \A e \in q.entities : e \in p.entities /\ e.id \notin D
  BY DEF MergeEntitiesTx
<1>10. \A r \in q.ext : \E t \in p.ext : /\ r.key = t.key /\ r.space = t.space
                                        /\ IF t.entity \in D THEN r.entity = keep ELSE r.entity = t.entity
  <2>1. \A t \in p.ext : t = [entity |-> t.entity, key |-> t.key, space |-> t.space]
    BY DEF Good, Projection
  <2>2. \A r \in q.ext : \/ r \in p.ext /\ r.entity \notin D
                         \/ \E t \in p.ext : t.entity \in D /\ r = [t EXCEPT !.entity = keep]
    BY DEF MergeEntitiesTx, MovedKeys
  <2>3. SUFFICES ASSUME NEW r \in q.ext
                 PROVE  \E t \in p.ext : /\ r.key = t.key /\ r.space = t.space
                                         /\ IF t.entity \in D THEN r.entity = keep ELSE r.entity = t.entity
    OBVIOUS
  <2>. HIDE DEF q
  <2>4. CASE r \in p.ext /\ r.entity \notin D
    BY <2>4
  <2>5. CASE \E t \in p.ext : t.entity \in D /\ r = [t EXCEPT !.entity = keep]
    <3>1. PICK t \in p.ext : t.entity \in D /\ r = [t EXCEPT !.entity = keep]
      BY <2>5
    <3>2. r.entity = keep /\ r.key = t.key /\ r.space = t.space
      BY <2>1, <3>1
    <3>. QED  BY <3>1, <3>2
  <2>. QED  BY <2>2, <2>4, <2>5
<1>11. \A r \in p.ext : r.entity \notin D => r \in q.ext
  BY DEF MergeEntitiesTx
<1>. HIDE DEF T, G
<1>12. Chained(G, T)
  BY <1>1, MergeChain DEF G, T
<1>. HIDE DEF q
<1>13. Backed(G, T, q)
  <2>1. \A i \in Live(q) : Into(G, i) = {}
    BY <1>3, <1>4, <1>6, <1>8
  <2>2. ASSUME NEW i \in EntityIds, NEW f \in Into(G, i)
        PROVE  f.payload.keep \in EntityIds /\ \E a \in Asserts(G) : a.subject = i
    <3>1. CASE f \in Into(F, i)
      BY <1>1, <1>2, <3>1 DEF Backed
    <3>2. CASE f \in Into(M, i)
      <4>1. i \in D /\ f.payload.keep = keep
        BY <1>4, <1>5, <3>2
      <4>. QED  BY <1>0, <1>1, <1>2, <4>1, AssertedLive
    <3>. QED  BY <1>3, <2>2, <3>1, <3>2
  <2>3. ASSUME NEW f \in Asserts(G)
        PROVE  f.subject \in EntityIds /\ \E g \in Asserts(G) : g.subject = T[f.subject]
    <3>1. f.subject \in EntityIds /\ \E g \in Asserts(F) : g.subject = S[f.subject]
      BY <1>1, <1>2, <2>3 DEF Backed
    <3>2. \E g \in Asserts(F) : g.subject = keep
      BY <1>1, AssertedLive
    <3>. QED  BY <1>2, <1>7, <3>1, <3>2
  <2>4. ASSUME NEW e \in q.entities
        PROVE  \E f \in Asserts(G) : T[f.subject] = e.id /\ f.payload.space = e.space
    <3>1. PICK f \in Asserts(F) : S[f.subject] = e.id /\ f.payload.space = e.space
      BY <1>1, <1>9, <2>4 DEF Backed
    <3>2. f.subject \in EntityIds
      BY <1>1 DEF Backed
    <3>. QED  BY <1>2, <1>7, <1>9, <2>4, <3>1, <3>2
  <2>5. ASSUME NEW r \in q.ext
        PROVE  \E f \in Asserts(G) : /\ T[f.subject] = r.entity /\ f.payload.space = r.space
                                     /\ r.key \in f.payload.keys
    <3>1. PICK t \in p.ext : /\ r.key = t.key /\ r.space = t.space
                             /\ IF t.entity \in D THEN r.entity = keep ELSE r.entity = t.entity
      BY <1>10, <2>5
    <3>2. PICK f \in Asserts(F) : S[f.subject] = t.entity /\ f.payload.space = t.space /\ t.key \in f.payload.keys
      BY <1>1 DEF Backed
    <3>3. f.subject \in EntityIds
      BY <1>1 DEF Backed
    <3>. QED  BY <1>2, <1>7, <3>1, <3>2, <3>3
  <2>. QED  BY <2>1, <2>2, <2>3, <2>4, <2>5 DEF Backed
<1>14. ASSUME OneSpace(G, T) PROVE Follow(G, T, q, s)
  <2>1. \A f \in Asserts(F) : f.subject \in EntityIds
    BY <1>1 DEF Backed
  <2>2. \A f, g \in Asserts(F) : T[f.subject] = T[g.subject] => f.payload.space = g.payload.space
    BY <1>2, <1>14 DEF OneSpace
  <2>3. OneSpace(F, S)
    <3>. SUFFICES ASSUME NEW f \in Asserts(F), NEW g \in Asserts(F), S[f.subject] = S[g.subject]
                  PROVE  f.payload.space = g.payload.space
      BY DEF OneSpace
    <3>. QED  BY <1>7, <2>1, <2>2
  <2>4. Follow(F, S, p, s)
    BY <1>1, <2>3
  <2>. SUFFICES ASSUME NEW f \in Asserts(F), f.payload.space = s, T[f.subject] \in Live(q),
                       NEW k \in f.payload.keys
                PROVE  [entity |-> T[f.subject], key |-> k, space |-> s] \in q.ext
    BY <1>2 DEF Follow
  <2>. DEFINE d == S[f.subject]
              r == [entity |-> d, key |-> k, space |-> s]
  <2>5. CASE d \notin D
    <3>1. T[f.subject] = d
      BY <1>7, <2>1, <2>5
    <3>2. r \in p.ext
      BY <1>8, <2>4, <3>1 DEF Follow
    <3>. QED  BY <1>11, <2>5, <3>1, <3>2
  <2>6. CASE d \in D
    <3>1. T[f.subject] = keep
      BY <1>7, <2>1, <2>6
    <3>2. r \in p.ext
      BY <2>4, <2>6 DEF Follow
    <3>3. r.entity = d /\ r.key = k /\ r.space = s
      OBVIOUS
    <3>. HIDE DEF r
    <3>4. ASSUME NEW t \in p.ext, t.entity \in D \cup {keep} PROVE t.space = s
      <4>1. PICK g \in Asserts(F) : S[g.subject] = t.entity /\ g.payload.space = t.space
        BY <1>1 DEF Backed
      <4>2. T[g.subject] = keep
        BY <1>7, <2>1, <3>4, <4>1
      <4>. QED  BY <2>2, <3>1, <4>1, <4>2
    <3>5. [entity |-> keep, key |-> r.key, space |-> r.space] \in MergeEntitiesTx(p, keep, D).ext
      BY <2>6, <3>2, <3>3, <3>4, KeyMoves
    <3>. QED  BY <3>1, <3>3, <3>5 DEF q
  <2>. QED  BY <2>5, <2>6
<1>. QED  BY <1>12, <1>13, <1>14 DEF Keyed, q, G

\* Facts that neither assert nor merge nodes, and tables that lose rows only with their node.
LEMMA KeyedOther ==
  ASSUME NEW F, NEW p, NEW s, Keyed(F, p, s),
         NEW N, \A f \in N : f.kind \notin {"entity.asserted", "entity.merged"},
         NEW q, q.entities \subseteq p.entities, q.ext \subseteq p.ext,
         \A r \in p.ext : r.entity \in Live(q) => r \in q.ext
  PROVE  Keyed(F \cup N, q, s)
<1>. DEFINE G == F \cup N
<1>1. PICK S : Chained(F, S) /\ Backed(F, S, p) /\ (OneSpace(F, S) => Follow(F, S, p, s))
  BY DEF Keyed
<1>2. Asserts(G) = Asserts(F) /\ \A i : Into(G, i) = Into(F, i)
  BY DEF Asserts, Into
<1>3. Live(q) \subseteq Live(p)
  BY DEF Live
<1>. HIDE DEF G
<1>4. Chained(G, S)
  BY <1>1, <1>2, ChainSame
<1>5. Backed(G, S, q)
  <2>1. \A i \in Live(q) : Into(G, i) = {}
    BY <1>1, <1>2, <1>3 DEF Backed
  <2>2. \A i \in EntityIds : \A f \in Into(G, i) :
          f.payload.keep \in EntityIds /\ \E a \in Asserts(G) : a.subject = i
    BY <1>1, <1>2 DEF Backed
  <2>3. \A f \in Asserts(G) : f.subject \in EntityIds /\ \E g \in Asserts(G) : g.subject = S[f.subject]
    BY <1>1, <1>2 DEF Backed
  <2>4. \A e \in q.entities : \E f \in Asserts(G) : S[f.subject] = e.id /\ f.payload.space = e.space
    BY <1>1, <1>2 DEF Backed
  <2>5. \A r \in q.ext : \E f \in Asserts(G) : /\ S[f.subject] = r.entity /\ f.payload.space = r.space
                                               /\ r.key \in f.payload.keys
    BY <1>1, <1>2 DEF Backed
  <2>. QED  BY <2>1, <2>2, <2>3, <2>4, <2>5 DEF Backed
<1>6. ASSUME OneSpace(G, S) PROVE Follow(G, S, q, s)
  <2>1. Follow(F, S, p, s)
    BY <1>1, <1>2, <1>6 DEF OneSpace
  <2>. SUFFICES ASSUME NEW f \in Asserts(F), f.payload.space = s, S[f.subject] \in Live(q),
                       NEW k \in f.payload.keys
                PROVE  [entity |-> S[f.subject], key |-> k, space |-> s] \in q.ext
    BY <1>2 DEF Follow
  <2>2. [entity |-> S[f.subject], key |-> k, space |-> s] \in p.ext
    BY <1>3, <2>1 DEF Follow
  <2>. QED  BY <2>2
<1>. QED  BY <1>4, <1>5, <1>6 DEF Keyed, G

\* Tables with the same nodes and keys.
LEMMA KeyedCore ==
  ASSUME NEW F, NEW p, NEW s, Keyed(F, p, s), NEW q, q.entities = p.entities, q.ext = p.ext
  PROVE  Keyed(F, q, s)
<1>1. Keyed(F \cup {}, q, s)
  BY KeyedOther
<1>2. F \cup {} = F
  OBVIOUS
<1>. QED  BY <1>1, <1>2

\* An empty store.
LEMMA KeyedAtFirst ==
  ASSUME NEW s
  PROVE  Keyed({}, EmptyProjection, s)
<1>. DEFINE S == [i \in EntityIds |-> i]
<1>1. Live(EmptyProjection) = {} /\ EmptyProjection.entities = {} /\ EmptyProjection.ext = {}
  BY DEF EmptyProjection, Live
<1>2. Asserts({}) = {} /\ \A i : Into({}, i) = {}
  BY DEF Asserts, Into
<1>3. S \in [EntityIds -> EntityIds] /\ Leads({}, S) /\ \A T : Leads({}, T) => T = S
  BY <1>2 DEF Leads
<1>4. Backed({}, S, EmptyProjection) /\ Follow({}, S, EmptyProjection, s)
  BY <1>1, <1>2 DEF Backed, Follow
<1>. QED  BY <1>3, <1>4 DEF Keyed, Chained

----------------------------------------------------------------------------
(* Every operation keeps it. *)

\* Unless an assertion insists on a node of its own, its keys are found only where it goes.
LEMMA ResolvedByKey ==
  ASSUME IInv, NEW c, c.policy # "force_new", NEW d \in Resolve(proj, c)
  PROVE  /\ d.action \in {"insert_new", "insert_flagged"} => ExternalHits(proj, c) = {}
         /\ d.action = "attach" => ExternalHits(proj, c) \subseteq {d.target}
         /\ d.action = "merge" => ExternalHits(proj, c) \subseteq {d.target} \cup d.drops
<1> DEFINE hits == ExternalHits(proj, c)
<1>1. hits \subseteq EntityIds
  BY HitsLive, Tables
<1>2. CASE hits = {}
  BY <1>2
<1>3. CASE hits # {}
  <2>1. d = IF Cardinality(hits) = 1 THEN [action |-> "attach", target |-> Oldest(hits)]
            ELSE [action |-> "merge", target |-> Oldest(hits), drops |-> hits \ {Oldest(hits)}]
    BY <1>3, Zenon DEF Resolve
  <2>. HIDE DEF hits
  <2>2. CASE Cardinality(hits) = 1
    <3>1. d = [action |-> "attach", target |-> Oldest(hits)]
      BY <2>1, <2>2
    <3>2. Oldest(hits) \in hits
      BY <1>1, <1>3, OldestIn
    <3>3. d.action = "attach" /\ d.target = Oldest(hits)
      BY <3>1
    <3>4. hits \subseteq {d.target}
      <4>1. PICK x : hits = {x}
        <5>1. IsFiniteSet(hits)
          BY <1>1, FS_Subset, StoreAssumption
        <5>. QED  BY <2>2, <5>1, FS_Singleton
      <4>. QED  BY <3>2, <3>3, <4>1
    <3>. QED  BY <3>3, <3>4 DEF hits
  <2>3. CASE Cardinality(hits) # 1
    <3>1. d = [action |-> "merge", target |-> Oldest(hits), drops |-> hits \ {Oldest(hits)}]
      BY <2>1, <2>3
    <3>2. d.action = "merge" /\ hits \subseteq {d.target} \cup d.drops
      BY <3>1
    <3>. QED  BY <3>2 DEF hits
  <2>. QED  BY <2>2, <2>3
<1>. QED  BY <1>2, <1>3

----------------------------------------------------------------------------
(* What an operation does to a log F and tables p, change by change. *)

\* It merges the nodes D into keep: nodes that a key of one space found, or two by hand.
MergeStep(F, p, G, q) ==
  \E keep \in Live(p), D \in SUBSET Live(p) : \E M :
    /\ keep \notin D /\ G = F \cup M /\ q = MergeEntitiesTx(p, keep, D)
    /\ \A f \in M : f.kind = "entity.merged" /\ f.payload.keep = keep /\ f.subject \in D \cup {keep}
    /\ \A d \in D : \E f \in M : f.subject = d
    /\ \/ \E s : \A i \in D \cup {keep} : \E r \in p.ext : r.entity = i /\ r.space = s
       \/ \A f \in M : f.key = <<"merge", keep, f.subject>>

\* It asserts a node that no fact asserts, or a live one found by a key or by its embedding.
AssertStep(F, p, G, q, C) ==
  \E w \in Writers : \E c \in C[w], id \in EntityIds : \E n :
    /\ G = F \cup {AssertOnto(w, c, id, n)} /\ q = UpsertEntitySnapshot(p, id, c)
    /\ \/ ~ \E f \in Asserts(F) : f.subject = id
       \/ id \in Live(p) /\ (Vectors # {} \/ \E r \in p.ext : r.entity = id /\ r.space = c.space)
    /\ c.policy # "force_new" => \A r \in p.ext : r.space = c.space /\ r.key \in c.keys => r.entity = id

\* It adds an edge between live nodes, or removes one.
LinkStep(F, p, G, q) ==
  \E e \in EdgeRow : \E f :
    /\ f.kind = "edge.asserted" /\ f.subject = e.id /\ f.payload = e
    /\ G = F \cup {f} /\ q = UpsertEdgeSnapshot(p, e)
    /\ {e.from, e.to} \subseteq Live(p)
    /\ ~ \E g \in F : g.kind = "edge.asserted" /\ g.subject = e.id
UnlinkStep(F, p, G, q) ==
  \E f : f.kind = "edge.retracted" /\ G = F \cup {f} /\ q = DeleteEdge(p, f.subject)

\* It removes a node that was asserted.
DropStep(F, p, G, q) ==
  \E f : /\ f.kind = "entity.retracted" /\ G = F \cup {f}
         /\ Core(q) = Core(DeleteEntity(p, f.subject))
         /\ \E a \in Asserts(F) : a.subject = f.subject

\* It changes nothing but props and texts.
SameStep(F, p, G, q) == G = F /\ Core(q) = Core(p)

Step(F, p, G, q, C) ==
  \/ MergeStep(F, p, G, q) \/ AssertStep(F, p, G, q, C) \/ LinkStep(F, p, G, q)
  \/ UnlinkStep(F, p, G, q) \/ DropStep(F, p, G, q) \/ SameStep(F, p, G, q)

\* A merge of nodes of a space.
LEMMA MergeStepOf ==
  ASSUME NEW F, NEW p, NEW keep \in Live(p), NEW D \in SUBSET Live(p), keep \notin D, NEW M,
         \A f \in M : f.kind = "entity.merged" /\ f.payload.keep = keep /\ f.subject \in D \cup {keep},
         \A d \in D : \E f \in M : f.subject = d,
         NEW s, \A i \in D \cup {keep} : \E r \in p.ext : r.entity = i /\ r.space = s
  PROVE  MergeStep(F, p, F \cup M, MergeEntitiesTx(p, keep, D))
<1>. DEFINE G == F \cup M
            q == MergeEntitiesTx(p, keep, D)
<1>1. G = F \cup M /\ q = MergeEntitiesTx(p, keep, D)
  OBVIOUS
<1>. HIDE DEF G, q
<1>. DEFINE Body(k, E, N) ==
              /\ k \notin E /\ G = F \cup N /\ q = MergeEntitiesTx(p, k, E)
              /\ \A f \in N : f.kind = "entity.merged" /\ f.payload.keep = k /\ f.subject \in E \cup {k}
              /\ \A d \in E : \E f \in N : f.subject = d
              /\ \/ \E t : \A i \in E \cup {k} : \E r \in p.ext : r.entity = i /\ r.space = t
                 \/ \A f \in N : f.key = <<"merge", k, f.subject>>
<1>2. \E t : \A i \in D \cup {keep} : \E r \in p.ext : r.entity = i /\ r.space = t
  OBVIOUS
<1>3. Body(keep, D, M)
  BY <1>1, <1>2
<1>4. MergeStep(F, p, G, q) <=> \E k \in Live(p), E \in SUBSET Live(p) : \E N : Body(k, E, N)
  BY DEF MergeStep
<1>. HIDE DEF Body
<1>5. MergeStep(F, p, G, q)
  BY <1>3, <1>4
<1>. QED  BY <1>5 DEF G, q

\* The fact of an assertion carries its space and its keys.
LEMMA AssertOntoIs ==
  ASSUME NEW w, NEW c, NEW id, NEW n
  PROVE  LET a == AssertOnto(w, c, id, n) IN
         /\ a.kind = "entity.asserted" /\ a.subject = id
         /\ a.payload.space = c.space /\ a.payload.keys = c.keys
BY DEF AssertOnto, NewFact, Marshal

\* What an assertion finds: nothing, or what its keys or its embedding find.
LEMMA ResolvedNodes ==
  ASSUME IInv, NEW c \in Candidate, NEW d \in Resolve(proj, c)
  PROVE  /\ d.action = "attach" => Vectors # {} \/ d.target \in ExternalHits(proj, c)
         /\ d.action = "merge" => {d.target} \cup d.drops \subseteq ExternalHits(proj, c)
<1> DEFINE hits == ExternalHits(proj, c)
<1>1. hits \subseteq EntityIds
  BY HitsLive, Tables
<1>2. CASE c.policy # "force_new" /\ hits # {}
  <2>1. Oldest(hits) \in hits
    BY <1>1, <1>2, OldestIn
  <2>. QED  BY <1>2, <2>1 DEF Resolve
<1>3. CASE ~(c.policy # "force_new" /\ hits # {})
  <2>1. CASE Nearest(proj, c) = {}
    <3>1. d = [action |-> "insert_new"]
      BY <1>3, <2>1 DEF Resolve
    <3>. QED  BY <3>1
  <2>2. CASE Nearest(proj, c) # {}
    <3>1. PICK r \in Nearest(proj, c) : \/ d = [action |-> "attach", target |-> r.entity]
                                        \/ d = [action |-> "insert_flagged", target |-> r.entity]
                                        \/ d = [action |-> "insert_new"]
      <4>. DEFINE score(r) == Similarity[c.vector, r.vector]
      <4>1. PICK r \in Nearest(proj, c) :
              d = IF score(r) >= AutoMerge THEN [action |-> "attach", target |-> r.entity]
                  ELSE IF score(r) >= Review
                       THEN [action |-> "insert_flagged", target |-> r.entity]
                       ELSE [action |-> "insert_new"]
        BY <1>3, <2>2, Zenon DEF Resolve
      <4>. HIDE DEF score
      <4>. QED  BY <4>1, Zenon
    <3>2. r \in proj.emb
      BY DEF Nearest, Neighbors
    <3>3. Vectors # {}
      BY <3>2, Tables DEF Projection
    <3>4. d.action # "merge"
      BY <3>1
    <3>. QED  BY <3>3, <3>4
  <2>. QED  BY <2>1, <2>2
<1>. QED  BY <1>2, <1>3

\* AppendEntityFact in changes: a merge of the colliding nodes if there are any, the
\* assertion, then the sameAs? edge if one is flagged.
LEMMA AppendEntitySteps ==
  ASSUME IInv, NEW C \in [Writers -> SUBSET Candidate], NEW w \in Writers, NEW c \in C[w], AppendEntityFact(w, c)
  PROVE  \E F1, p1, F2, p2 : /\ Good(p1) /\ Step(facts, proj, F1, p1, C)
                             /\ Good(p2) /\ Step(F1, p1, F2, p2, C)
                             /\ Step(F2, p2, facts', proj', C)
<1>0. c \in Candidate
  OBVIOUS
<1>1. PICK d \in Resolve(proj, c) :
         \/ d.action = "insert_new"     /\ InsertNew(w, c)
         \/ d.action = "insert_flagged" /\ InsertFlagged(w, c, d.target)
         \/ d.action = "attach"         /\ Attach(w, c, d.target)
         \/ d.action = "merge"          /\ MergeThenAttach(w, c, d.target, d.drops)
  BY DEF AppendEntityFact
<1>2. /\ d.action \in {"attach", "insert_flagged"} => d.target \in Live(proj)
      /\ d.action = "merge" => /\ d.target \in Live(proj)
                               /\ d.drops \subseteq Live(proj)
                               /\ d.target \notin d.drops
  BY <1>0, ResolveTargets
<1>3. c.policy # "force_new" =>
        /\ d.action \in {"insert_new", "insert_flagged"} => ExternalHits(proj, c) = {}
        /\ d.action = "attach" => ExternalHits(proj, c) \subseteq {d.target}
        /\ d.action = "merge" => ExternalHits(proj, c) \subseteq {d.target} \cup d.drops
  BY ResolvedByKey
<1>4. /\ \A r \in proj.ext : r.space = c.space /\ r.key \in c.keys => r.entity \in ExternalHits(proj, c)
      /\ \A i \in ExternalHits(proj, c) : \E r \in proj.ext : r.entity = i /\ r.space = c.space
  BY DEF ExternalHits
<1>5. Good(proj) /\ Upsertable(c) /\ Live(proj) \subseteq EntityIds /\ c.space \in Spaces
  BY <1>0, Tables, CandidateUpsertable DEF Candidate
<1>6. ASSUME NEW id \in EntityIds, FreshEntity(id), d.action \in {"insert_new", "insert_flagged"}, NEW n
      PROVE  LET p == UpsertEntitySnapshot(proj, id, c)
             IN AssertStep(facts, proj, facts \cup {AssertOnto(w, c, id, n)}, p, C) /\ Good(p)
  <2>1. ~ \E f \in Asserts(facts) : f.subject = id
    BY <1>6 DEF FreshEntity, Asserts
  <2>2. c.policy # "force_new" => \A r \in proj.ext : r.space = c.space /\ r.key \in c.keys => r.entity = id
    BY <1>3, <1>4, <1>6
  <2>. QED  BY <1>5, <2>1, <2>2, UpsertEntityGood DEF AssertStep
<1>7. SameStep(facts, proj, facts, proj) /\ SameStep(facts', proj', facts', proj')
  BY DEF SameStep
<1>8. CASE d.action = "insert_new" /\ InsertNew(w, c)
  <2>1. PICK id \in EntityIds :
          /\ FreshEntity(id)
          /\ facts' = facts \cup {AssertOnto(w, c, id, Head + 1)}
          /\ proj' = UpsertEntitySnapshot(proj, id, c)
    BY <1>8 DEF InsertNew, Commit
  <2>2. AssertStep(facts, proj, facts', proj', C) /\ Good(proj')
    BY <1>6, <1>8, <2>1
  <2>. QED  BY <1>5, <1>7, <2>2 DEF Step
<1>9. CASE d.action = "insert_flagged" /\ InsertFlagged(w, c, d.target)
  <2>1. PICK id \in EntityIds, e \in EdgeRow :
          /\ FreshEntity(id) /\ FreshEdge(e.id) /\ e.from = id /\ e.to = d.target
          /\ \E f : /\ f.kind = "edge.asserted" /\ f.subject = e.id /\ f.payload = e
                    /\ facts' = facts \cup {AssertOnto(w, c, id, Head + 1), f}
                    /\ proj' = UpsertEdgeSnapshot(UpsertEntitySnapshot(proj, id, c), e)
    <3>. DEFINE edge(id, e) == [id |-> e, predicate |-> "sameAs?", from |-> id, to |-> d.target,
                                space |-> c.space]
                flag(id, e) == NewFact(Head + 2, "edge.asserted", e, w,
                                       <<"sameas", EntityDedupeKey(c), d.target>>, edge(id, e))
    <3>1. PICK id \in EntityIds, e \in EdgeIds :
            /\ FreshEntity(id) /\ FreshEdge(e)
            /\ facts' = facts \cup {AssertOnto(w, c, id, Head + 1), flag(id, e)}
            /\ proj' = UpsertEdgeSnapshot(UpsertEntitySnapshot(proj, id, c), edge(id, e))
      BY <1>9 DEF InsertFlagged, Commit
    <3>2. /\ flag(id, e).kind = "edge.asserted" /\ flag(id, e).subject = e
          /\ flag(id, e).payload = edge(id, e)
      BY DEF NewFact
    <3>3. /\ edge(id, e) \in EdgeRow /\ edge(id, e).id = e
          /\ edge(id, e).from = id /\ edge(id, e).to = d.target
      BY <1>2, <1>5, <1>9 DEF EdgeRow
    <3>. HIDE DEF edge, flag
    <3>. QED  BY <3>1, <3>2, <3>3
  <2>2. PICK f : /\ f.kind = "edge.asserted" /\ f.subject = e.id /\ f.payload = e
                 /\ facts' = facts \cup {AssertOnto(w, c, id, Head + 1), f}
                 /\ proj' = UpsertEdgeSnapshot(UpsertEntitySnapshot(proj, id, c), e)
    BY <2>1
  <2>. DEFINE F == facts \cup {AssertOnto(w, c, id, Head + 1)}
              p == UpsertEntitySnapshot(proj, id, c)
  <2>3. AssertStep(facts, proj, F, p, C) /\ Good(p)
    BY <1>6, <1>9, <2>1
  <2>4. LinkStep(F, p, facts', proj')
    <3>1. Live(p) = Live(proj) \cup {id}
      BY <1>5, UpsertEntityGood
    <3>2. ~ \E g \in F : g.kind = "edge.asserted" /\ g.subject = e.id
      BY <2>1, AssertOntoIs DEF FreshEdge
    <3>3. facts' = F \cup {f} /\ proj' = UpsertEdgeSnapshot(p, e)
      BY <2>2
    <3>. HIDE DEF F, p
    <3>. QED  BY <1>2, <1>9, <2>1, <2>2, <3>1, <3>2, <3>3 DEF LinkStep
  <2>. HIDE DEF F, p
  <2>. QED  BY <1>5, <1>7, <2>3, <2>4 DEF Step
<1>10. CASE d.action = "attach" /\ Attach(w, c, d.target)
  <2>1. /\ facts' = facts \cup {AssertOnto(w, c, d.target, Head + 1)}
        /\ proj' = UpsertEntitySnapshot(proj, d.target, c)
    BY <1>10 DEF Attach, Commit
  <2>2. c.policy # "force_new" => \A r \in proj.ext : r.space = c.space /\ r.key \in c.keys => r.entity = d.target
    BY <1>3, <1>4, <1>10
  <2>3. d.target \in Live(proj) /\ d.target \in EntityIds
    BY <1>2, <1>5, <1>10
  <2>4. Vectors # {} \/ \E r \in proj.ext : r.entity = d.target /\ r.space = c.space
    BY <1>0, <1>4, <1>10, ResolvedNodes
  <2>5. AssertStep(facts, proj, facts', proj', C) /\ Good(proj')
    BY <1>5, <2>1, <2>2, <2>3, <2>4, UpsertEntityGood DEF AssertStep
  <2>. QED  BY <1>5, <1>7, <2>5 DEF Step
<1>11. CASE d.action = "merge" /\ MergeThenAttach(w, c, d.target, d.drops)
  <2>. DEFINE M == MergeFacts(w, c, d.target, d.drops)
              p == MergeEntitiesTx(proj, d.target, d.drops)
              a == AssertOnto(w, c, d.target, Head + Cardinality(d.drops) + 1)
  <2>1. facts' = (facts \cup M) \cup {a} /\ proj' = UpsertEntitySnapshot(p, d.target, c)
    BY <1>11 DEF MergeThenAttach, Commit
  <2>2. /\ \A f \in M : f.kind = "entity.merged" /\ f.payload.keep = d.target /\ f.subject \in d.drops
        /\ \A x \in d.drops : \E f \in M : f.subject = x
    <3>. DEFINE rank(x) == Cardinality({y \in d.drops : y <= x})
                m(x) == NewFact(Head + rank(x), "entity.merged", x, w, <<"mergeof", EntityDedupeKey(c), x>>,
                                [keep |-> d.target, drop |-> x])
    <3>1. M = {m(x) : x \in d.drops}
      BY DEF MergeFacts
    <3>2. \A x : m(x).kind = "entity.merged" /\ m(x).payload.keep = d.target /\ m(x).subject = x
      BY DEF NewFact
    <3>. HIDE DEF M, m
    <3>. QED  BY <3>1, <3>2
  <2>3. Good(p) /\ Live(p) = Live(proj) \ d.drops
    BY <1>2, <1>5, <1>11, MergeGood
  <2>4. {d.target} \cup d.drops \subseteq ExternalHits(proj, c)
    BY <1>0, <1>11, ResolvedNodes
  <2>5. MergeStep(facts, proj, facts \cup M, p)
    <3>. HIDE DEF M
    <3>1. \A i \in d.drops \cup {d.target} : \E r \in proj.ext : r.entity = i /\ r.space = c.space
      BY <1>4, <2>4
    <3>2. d.target \in Live(proj) /\ d.drops \in SUBSET Live(proj) /\ d.target \notin d.drops
      BY <1>2, <1>11
    <3>3. \A f \in M : f.kind = "entity.merged" /\ f.payload.keep = d.target /\ f.subject \in d.drops \cup {d.target}
      BY <2>2
    <3>. DEFINE k == d.target
                D == d.drops
    <3>4. /\ k \in Live(proj) /\ D \in SUBSET Live(proj) /\ k \notin D
          /\ \A f \in M : f.kind = "entity.merged" /\ f.payload.keep = k /\ f.subject \in D \cup {k}
          /\ \A x \in D : \E f \in M : f.subject = x
          /\ \A i \in D \cup {k} : \E r \in proj.ext : r.entity = i /\ r.space = c.space
      BY <2>2, <3>1, <3>2, <3>3
    <3>. HIDE DEF k, D
    <3>5. MergeStep(facts, proj, facts \cup M, MergeEntitiesTx(proj, k, D))
      BY <3>4, MergeStepOf
    <3>. QED  BY <3>5 DEF k, D
  <2>6. c.policy # "force_new" => \A r \in p.ext : r.space = c.space /\ r.key \in c.keys => r.entity = d.target
    <3>1. \A t \in proj.ext : t = [entity |-> t.entity, key |-> t.key, space |-> t.space]
      BY <1>5 DEF Good, Projection
    <3>2. \A r \in p.ext : \/ r \in proj.ext /\ r.entity \notin d.drops
                           \/ \E t \in proj.ext : r = [t EXCEPT !.entity = d.target]
      BY DEF MergeEntitiesTx, MovedKeys
    <3>3. \A r \in p.ext : (r \in proj.ext /\ r.entity \notin d.drops) \/ r.entity = d.target
      BY <3>1, <3>2
    <3>. HIDE DEF p
    <3>. QED  BY <1>3, <1>4, <1>11, <3>3
  <2>7. \E r \in p.ext : r.entity = d.target /\ r.space = c.space
    <3>1. PICK r \in proj.ext : r.entity = d.target /\ r.space = c.space
      BY <1>4, <2>4
    <3>2. r \in p.ext
      BY <1>2, <1>11, <3>1 DEF MergeEntitiesTx
    <3>. QED  BY <3>1, <3>2
  <2>8. d.target \in EntityIds /\ d.target \in Live(p)
    BY <1>2, <1>5, <1>11, <2>3
  <2>9. AssertStep(facts \cup M, p, facts', proj', C)
    <3>. HIDE DEF M, p
    <3>. QED  BY <2>1, <2>6, <2>7, <2>8 DEF AssertStep
  <2>10. Good(proj')
    BY <1>5, <2>1, <2>3, <2>8, UpsertEntityGood
  <2>. HIDE DEF M, p, a
  <2>. QED  BY <1>7, <2>3, <2>5, <2>9, <2>10 DEF Step
<1>. QED  BY <1>1, <1>8, <1>9, <1>10, <1>11

\* Every operation is made of such steps.
LEMMA OperatesSteps ==
  ASSUME IInv, NEW C \in [Writers -> SUBSET Candidate], Operates(C)
  PROVE  \E F1, p1, F2, p2 : /\ Good(p1) /\ Step(facts, proj, F1, p1, C)
                             /\ Good(p2) /\ Step(F1, p1, F2, p2, C)
                             /\ Step(F2, p2, facts', proj', C)
<1>0. Good(proj) /\ Core(proj) = Core(rebuilt) /\ Live(proj) \subseteq EntityIds
  BY Tables
<1>1. SameStep(facts, proj, facts, proj)
  BY DEF SameStep
<1>2. SUFFICES \/ \E w \in Writers : \E c \in C[w] : AppendEntityFact(w, c)
               \/ Step(facts, proj, facts', proj', C)
  BY <1>0, <1>1, AppendEntitySteps DEF Step
<1>3. CASE \E w \in Writers, in \in EdgeInput : AppendEdgeFact(w, in)
  <2>1. PICK w \in Writers, in \in EdgeInput : AppendEdgeFact(w, in)
    BY <1>3
  <2>. DEFINE edge(e) == [id |-> e, predicate |-> in.predicate, from |-> in.from, to |-> in.to,
                          space |-> in.space]
              fact(e) == NewFact(Head + 1, "edge.asserted", e, w, EdgeDedupeKey(in), edge(e))
  <2>2. PICK e \in EdgeIds :
          /\ FreshEdge(e) /\ {in.from, in.to} \subseteq Live(proj)
          /\ facts' = facts \cup {fact(e)} /\ proj' = UpsertEdgeSnapshot(proj, edge(e))
    BY <2>1 DEF AppendEdgeFact, Commit
  <2>3. fact(e).kind = "edge.asserted" /\ fact(e).subject = e /\ fact(e).payload = edge(e)
    BY DEF NewFact
  <2>4. edge(e) \in EdgeRow /\ edge(e).id = e /\ edge(e).from = in.from /\ edge(e).to = in.to
    BY <2>1, <2>2 DEF EdgeInput, EdgeRow
  <2>. HIDE DEF edge, fact
  <2>. QED  BY <2>2, <2>3, <2>4 DEF Step, LinkStep, FreshEdge
<1>4. CASE \E w \in Writers, keep \in EntityIds, drop \in EntityIds : MergeEntities(w, keep, drop)
  <2>1. PICK w \in Writers, keep \in EntityIds, drop \in EntityIds : MergeEntities(w, keep, drop)
    BY <1>4
  <2>. DEFINE f == NewFact(Head + 1, "entity.merged", drop, w, <<"merge", keep, drop>>,
                           [keep |-> keep, drop |-> drop])
              D == {drop} \ {keep}
              M == {f}
  <2>2. /\ {keep, drop} \subseteq Live(proj)
        /\ facts' = facts \cup M /\ proj' = MergeEntitiesTx(proj, keep, D)
    BY <2>1 DEF MergeEntities, FoldMerged, Commit
  <2>3. f.kind = "entity.merged" /\ f.payload.keep = keep /\ f.subject = drop /\ f.key = <<"merge", keep, drop>>
    BY DEF NewFact
  <2>. HIDE DEF f
  <2>4. /\ \A g \in M : g.kind = "entity.merged" /\ g.payload.keep = keep /\ g.subject \in D \cup {keep}
        /\ \A x \in D : \E g \in M : g.subject = x
        /\ \A g \in M : g.key = <<"merge", keep, g.subject>>
    BY <2>3
  <2>5. keep \in Live(proj) /\ D \in SUBSET Live(proj) /\ keep \notin D
    BY <2>2
  <2>. HIDE DEF D, M
  <2>. QED  BY <2>2, <2>4, <2>5 DEF Step, MergeStep
<1>5. CASE \E w \in Writers, id \in EntityIds : ~FreshEntity(id) /\ RetractEntity(w, id)
  <2>1. PICK w \in Writers, id \in EntityIds : ~FreshEntity(id) /\ RetractEntity(w, id)
    BY <1>5
  <2>. DEFINE f == NewFact(Head + 1, "entity.retracted", id, w, <<"retract", id>>, {})
              q == DeleteEntity(proj, id)
  <2>2. facts' = facts \cup {f} /\ proj' = [q EXCEPT !.fts = {r \in @ : r.entity # id}]
    BY <2>1 DEF RetractEntity, Commit
  <2>3. f.kind = "entity.retracted" /\ f.subject = id
    BY DEF NewFact
  <2>4. Core(proj') = Core(q)
    BY <2>2 DEF DeleteEntity, Core
  <2>5. \E a \in Asserts(facts) : a.subject = id
    BY <2>1 DEF FreshEntity, Asserts
  <2>. HIDE DEF f
  <2>. QED  BY <2>2, <2>3, <2>4, <2>5 DEF Step, DropStep
<1>6. CASE \E w \in Writers, id \in EdgeIds : ~FreshEdge(id) /\ RetractEdge(w, id)
  <2>1. PICK w \in Writers, id \in EdgeIds : RetractEdge(w, id)
    BY <1>6
  <2>. DEFINE f == NewFact(Head + 1, "edge.retracted", id, w, <<"edge-retract", id>>, {})
  <2>2. facts' = facts \cup {f} /\ proj' = DeleteEdge(proj, id)
    BY <2>1 DEF RetractEdge, Commit
  <2>3. f.kind = "edge.retracted" /\ f.subject = id
    BY DEF NewFact
  <2>. HIDE DEF f
  <2>. QED  BY <2>2, <2>3 DEF Step, UnlinkStep
<1>7. CASE RebuildProjection \/ UNCHANGED vars
  <2>1. facts' = facts /\ proj' \in {proj, rebuilt}
    BY <1>7 DEF RebuildProjection, vars
  <2>2. Core(proj') = Core(proj)
    BY <1>0, <2>1
  <2>. QED  BY <2>1, <2>2 DEF Step, SameStep
<1>. QED  BY <1>3, <1>4, <1>5, <1>6, <1>7 DEF Operates

\* Each change leaves the keys of the space s with the nodes they were asserted of, unless a
\* caller forces a new node for a key that another node of that space may hold.
LEMMA KeyedStep ==
  ASSUME NEW F, NEW p, Good(p), NEW s, Keyed(F, p, s),
         NEW C \in [Writers -> SUBSET Candidate], \A w \in Writers : \A c \in C[w] : c.space = s => c.policy # "force_new",
         NEW G, NEW q, Step(F, p, G, q, C)
  PROVE  Keyed(G, q, s)
<1>1. CASE MergeStep(F, p, G, q)
  <2>1. PICK keep \in Live(p), D \in SUBSET Live(p) : \E M :
          /\ keep \notin D /\ G = F \cup M /\ q = MergeEntitiesTx(p, keep, D)
          /\ \A f \in M : f.kind = "entity.merged" /\ f.payload.keep = keep /\ f.subject \in D \cup {keep}
          /\ \A d \in D : \E f \in M : f.subject = d
    BY <1>1 DEF MergeStep
  <2>. QED  BY <2>1, KeyedMerge
<1>2. CASE AssertStep(F, p, G, q, C)
  <2>1. PICK w \in Writers : \E c \in C[w], id \in EntityIds : \E n :
          /\ G = F \cup {AssertOnto(w, c, id, n)} /\ q = UpsertEntitySnapshot(p, id, c)
          /\ id \in Live(p) \/ ~ \E f \in Asserts(F) : f.subject = id
          /\ c.policy # "force_new" => \A r \in p.ext : r.space = c.space /\ r.key \in c.keys => r.entity = id
    BY <1>2 DEF AssertStep
  <2>2. PICK c \in C[w], id \in EntityIds : \E n :
          /\ G = F \cup {AssertOnto(w, c, id, n)} /\ q = UpsertEntitySnapshot(p, id, c)
          /\ id \in Live(p) \/ ~ \E f \in Asserts(F) : f.subject = id
          /\ c.policy # "force_new" => \A r \in p.ext : r.space = c.space /\ r.key \in c.keys => r.entity = id
    BY <2>1
  <2>3. c \in Candidate /\ (c.space = s => c.policy # "force_new")
    OBVIOUS
  <2>4. Upsertable(c)
    BY <2>3, CandidateUpsertable
  <2>. QED  BY <2>2, <2>3, <2>4, AssertOntoIs, UpsertKeyed
<1>3. CASE LinkStep(F, p, G, q)
  <2>1. PICK e, f : f.kind = "edge.asserted" /\ G = F \cup {f} /\ q = UpsertEdgeSnapshot(p, e)
    BY <1>3 DEF LinkStep
  <2>2. q.entities = p.entities /\ q.ext = p.ext
    BY <2>1 DEF UpsertEdgeSnapshot, Good, Projection
  <2>3. \A g \in {f} : g.kind \notin {"entity.asserted", "entity.merged"}
    BY <2>1
  <2>. QED  BY <2>1, <2>2, <2>3, KeyedOther
<1>4. CASE UnlinkStep(F, p, G, q)
  <2>1. PICK f : f.kind = "edge.retracted" /\ G = F \cup {f} /\ q = DeleteEdge(p, f.subject)
    BY <1>4 DEF UnlinkStep
  <2>2. q.entities = p.entities /\ q.ext = p.ext
    BY <2>1 DEF DeleteEdge, Good, Projection
  <2>3. \A g \in {f} : g.kind \notin {"entity.asserted", "entity.merged"}
    BY <2>1
  <2>. QED  BY <2>1, <2>2, <2>3, KeyedOther
<1>5. CASE DropStep(F, p, G, q)
  <2>1. PICK f : /\ f.kind = "entity.retracted" /\ G = F \cup {f}
                 /\ Core(q) = Core(DeleteEntity(p, f.subject))
    BY <1>5 DEF DropStep
  <2>2. /\ q.entities = {e \in p.entities : e.id # f.subject}
        /\ q.ext = {r \in p.ext : r.entity # f.subject}
    BY <2>1 DEF Core, DeleteEntity
  <2>3. \A r \in p.ext : r.entity \in Live(q) => r \in q.ext
    BY <2>2 DEF Live
  <2>4. \A g \in {f} : g.kind \notin {"entity.asserted", "entity.merged"}
    BY <2>1
  <2>5. q.entities \subseteq p.entities /\ q.ext \subseteq p.ext
    BY <2>2
  <2>. QED  BY <2>1, <2>3, <2>4, <2>5, KeyedOther
<1>6. CASE SameStep(F, p, G, q)
  BY <1>6, KeyedCore DEF SameStep, Core
<1>. QED  BY <1>1, <1>2, <1>3, <1>4, <1>5, <1>6 DEF Step

\* So does any operation of the store, its three changes taken together.
LEMMA KeyedOperates ==
  ASSUME IInv, NEW s, Keyed(facts, proj, s),
         NEW C \in [Writers -> SUBSET Candidate], \A w \in Writers : \A c \in C[w] : c.space = s => c.policy # "force_new", Operates(C)
  PROVE  Keyed(facts', proj', s)
<1>1. PICK F1, p1, F2, p2 : /\ Good(p1) /\ Step(facts, proj, F1, p1, C)
                            /\ Good(p2) /\ Step(F1, p1, F2, p2, C)
                            /\ Step(F2, p2, facts', proj', C)
  BY OperatesSteps
<1>2. Good(proj)
  BY Tables
<1>3. Keyed(F1, p1, s)
  BY <1>1, <1>2, KeyedStep
<1>4. Keyed(F2, p2, s)
  BY <1>1, <1>3, KeyedStep
<1>. QED  BY <1>1, <1>4, KeyedStep

----------------------------------------------------------------------------
(* One space for each node. *)

\* All that was asserted of a node, under whatever id, was asserted in one space.
NodesInOneSpace ==
  \A f, g \in {h \in facts : h.kind = "entity.asserted"} :
    Survivor[f.subject] = Survivor[g.subject] => f.payload.space = g.payload.space

\* The merges asked for by hand join nodes that were asserted in one space.
MergedInSpace(F) ==
  \A m \in F : m.kind = "entity.merged" /\ m.key = <<"merge", m.payload.keep, m.subject>> =>
    \A f, g \in Asserts(F) :
      f.subject = m.subject /\ g.subject = m.payload.keep => f.payload.space = g.payload.space

\* With such merges only, every node stays in the space of its first assertion.
Apart(F) == MergedInSpace(F) => \E S : Chained(F, S) /\ OneSpace(F, S)

\* The function of a log is one.
LEMMA ChainedOnce ==
  ASSUME NEW F, NEW S, Chained(F, S), NEW T, Chained(F, T)
  PROVE  S = T
BY DEF Chained

\* Without embeddings an assertion finds a node by a key of its space, so every node
\* stays in the space it was first asserted in.
LEMMA ApartStep ==
  ASSUME Vectors = {}, NEW F, NEW p, Good(p), NEW s, Keyed(F, p, s), Apart(F),
         NEW C \in [Writers -> SUBSET Candidate], NEW G, NEW q, Step(F, p, G, q, C)
  PROVE  Apart(G)
<1>1. F \subseteq G
  BY DEF Step, MergeStep, AssertStep, LinkStep, UnlinkStep, DropStep, SameStep
<1>2. SUFFICES ASSUME MergedInSpace(G) PROVE \E S : Chained(G, S) /\ OneSpace(G, S)
  BY DEF Apart
<1>3. MergedInSpace(F)
  BY <1>1, <1>2 DEF MergedInSpace, Asserts
<1>4. PICK S : Chained(F, S) /\ OneSpace(F, S) /\ Backed(F, S, p)
  BY <1>3, ChainedOnce DEF Apart, Keyed
<1>0. Live(p) \subseteq EntityIds
  BY DEF Live, Good, Projection
<1>9. \A r \in p.ext : \E a \in Asserts(F) : S[a.subject] = r.entity /\ a.payload.space = r.space
  BY <1>4 DEF Backed
<1>5. CASE MergeStep(F, p, G, q)
  <2>1. PICK keep \in Live(p), D \in SUBSET Live(p) : \E M :
          /\ keep \notin D /\ G = F \cup M /\ q = MergeEntitiesTx(p, keep, D)
          /\ \A f \in M : f.kind = "entity.merged" /\ f.payload.keep = keep /\ f.subject \in D \cup {keep}
          /\ \A d \in D : \E f \in M : f.subject = d
          /\ \/ \E t : \A i \in D \cup {keep} : \E r \in p.ext : r.entity = i /\ r.space = t
             \/ \A f \in M : f.key = <<"merge", keep, f.subject>>
    BY <1>5 DEF MergeStep
  <2>2. PICK M :
          /\ keep \notin D /\ G = F \cup M /\ q = MergeEntitiesTx(p, keep, D)
          /\ \A f \in M : f.kind = "entity.merged" /\ f.payload.keep = keep /\ f.subject \in D \cup {keep}
          /\ \A d \in D : \E f \in M : f.subject = d
          /\ \/ \E t : \A i \in D \cup {keep} : \E r \in p.ext : r.entity = i /\ r.space = t
             \/ \A f \in M : f.key = <<"merge", keep, f.subject>>
    BY <2>1
  <2>3. Asserts(G) = Asserts(F)
    BY <2>2 DEF Asserts
  <2>4. Chained(G, Redirect(S, D, keep))
    BY <1>4, <2>2, MergeChain
  <2>5. \A f \in Asserts(F) : f.subject \in EntityIds
    BY <1>4 DEF Backed
  <2>6. \A i \in D \cup {keep} : \E a \in Asserts(F) : a.subject = i /\ S[a.subject] = i
    <3>. SUFFICES ASSUME NEW i \in Live(p) PROVE \E a \in Asserts(F) : a.subject = i /\ S[a.subject] = i
      OBVIOUS
    <3>1. S[i] = i
      BY <1>0, <1>4, AtItself DEF Backed
    <3>. QED  BY <1>4, <3>1, AssertedLive
  <2>7. \E t : \A i \in D \cup {keep} : \E a \in Asserts(F) : S[a.subject] = i /\ a.payload.space = t
    <3>1. CASE \E t : \A i \in D \cup {keep} : \E r \in p.ext : r.entity = i /\ r.space = t
      <4>1. PICK t : \A i \in D \cup {keep} : \E r \in p.ext : r.entity = i /\ r.space = t
        BY <3>1
      <4>2. \A i \in D \cup {keep} : \E a \in Asserts(F) : S[a.subject] = i /\ a.payload.space = t
        BY <1>9, <4>1
      <4>. QED  BY <4>2
    <3>2. CASE \A f \in M : f.key = <<"merge", keep, f.subject>>
      <4>1. PICK b \in Asserts(F) : b.subject = keep /\ S[b.subject] = keep
        BY <2>6
      <4>2. ASSUME NEW i \in D
            PROVE  \E a \in Asserts(F) : S[a.subject] = i /\ a.payload.space = b.payload.space
        <5>1. PICK m \in M : m.subject = i
          BY <2>2
        <5>2. PICK a \in Asserts(F) : a.subject = i /\ S[a.subject] = i
          BY <2>6
        <5>3. m \in G /\ m.kind = "entity.merged" /\ m.payload.keep = keep /\ m.key = <<"merge", keep, m.subject>>
          BY <2>2, <3>2, <5>1
        <5>4. a.payload.space = b.payload.space
          BY <1>2, <2>3, <4>1, <5>1, <5>2, <5>3 DEF MergedInSpace
        <5>. QED  BY <5>2, <5>4
      <4>. QED  BY <4>1, <4>2
    <3>. QED  BY <2>2, <3>1, <3>2
  <2>8. OneSpace(G, Redirect(S, D, keep))
    <3>. DEFINE T == Redirect(S, D, keep)
    <3>1. \A i \in EntityIds : T[i] = IF S[i] \in D THEN keep ELSE S[i]
      BY DEF Redirect
    <3>. HIDE DEF T
    <3>2. PICK t : \A i \in D \cup {keep} : \E a \in Asserts(F) : S[a.subject] = i /\ a.payload.space = t
      BY <2>7
    <3>3. \A f \in Asserts(F) : S[f.subject] \in D \cup {keep} => f.payload.space = t
      BY <1>4, <3>2 DEF OneSpace
    <3>4. ASSUME NEW f \in Asserts(F), NEW g \in Asserts(F), T[f.subject] = T[g.subject]
          PROVE  f.payload.space = g.payload.space
      <4>1. CASE T[f.subject] = keep
        <5>1. S[f.subject] \in D \cup {keep} /\ S[g.subject] \in D \cup {keep}
          BY <2>5, <3>1, <3>4, <4>1
        <5>. QED  BY <3>3, <5>1
      <4>2. CASE T[f.subject] # keep
        <5>1. S[f.subject] = S[g.subject]
          BY <2>5, <3>1, <3>4, <4>2
        <5>. QED  BY <1>4, <5>1 DEF OneSpace
      <4>. QED  BY <4>1, <4>2
    <3>. QED  BY <2>3, <3>4 DEF OneSpace, T
  <2>. QED  BY <2>4, <2>8
<1>6. CASE AssertStep(F, p, G, q, C)
  <2>1. PICK w, c, id : id \in EntityIds /\ \E n :
          /\ G = F \cup {AssertOnto(w, c, id, n)}
          /\ \/ ~ \E f \in Asserts(F) : f.subject = id
             \/ id \in Live(p) /\ (Vectors # {} \/ \E r \in p.ext : r.entity = id /\ r.space = c.space)
    <3>1. PICK w \in Writers : \E c \in C[w], id \in EntityIds : \E n :
            /\ G = F \cup {AssertOnto(w, c, id, n)}
            /\ \/ ~ \E f \in Asserts(F) : f.subject = id
               \/ id \in Live(p) /\ (Vectors # {} \/ \E r \in p.ext : r.entity = id /\ r.space = c.space)
      BY <1>6 DEF AssertStep
    <3>. QED  BY <3>1
  <2>2. PICK a : G = F \cup {a} /\ a.kind = "entity.asserted" /\ a.subject = id /\ a.payload.space = c.space
    BY <2>1, AssertOntoIs
  <2>3. Asserts(G) = Asserts(F) \cup {a} /\ \A i \in EntityIds : Into(G, i) = Into(F, i)
    BY <2>2 DEF Asserts, Into
  <2>4. Into(F, id) = {}
    BY <1>4, <2>1 DEF Backed
  <2>5. Chained(G, S) /\ S[id] = id
    BY <1>4, <2>1, <2>3, <2>4, ChainSame, AtItself
  <2>6. \A f \in Asserts(F) : S[f.subject] = id => f.payload.space = c.space
    <3>1. CASE ~ \E f \in Asserts(F) : f.subject = id
      BY <1>4, <3>1 DEF Backed
    <3>2. CASE \E r \in p.ext : r.entity = id /\ r.space = c.space
      BY <1>4, <3>2 DEF Backed, OneSpace
    <3>. QED  BY <2>1, <3>1, <3>2
  <2>7. OneSpace(G, S)
    BY <1>4, <2>2, <2>3, <2>5, <2>6 DEF OneSpace
  <2>. QED  BY <2>5, <2>7
<1>7. CASE Asserts(G) = Asserts(F) /\ \A i \in EntityIds : Into(G, i) = Into(F, i)
  BY <1>4, <1>7, ChainSame DEF OneSpace
<1>8. CASE LinkStep(F, p, G, q) \/ UnlinkStep(F, p, G, q) \/ DropStep(F, p, G, q) \/ SameStep(F, p, G, q)
  <2>1. \E N : G = F \cup N /\ \A f \in N : f.kind \notin {"entity.asserted", "entity.merged"}
    <3>1. CASE LinkStep(F, p, G, q)
      <4>1. PICK f : f.kind = "edge.asserted" /\ G = F \cup {f}
        BY <3>1 DEF LinkStep
      <4>. DEFINE N == {f}
      <4>2. G = F \cup N /\ \A g \in N : g.kind \notin {"entity.asserted", "entity.merged"}
        BY <4>1
      <4>. HIDE DEF N
      <4>. QED  BY <4>2
    <3>2. CASE UnlinkStep(F, p, G, q)
      <4>1. PICK f : f.kind = "edge.retracted" /\ G = F \cup {f}
        BY <3>2 DEF UnlinkStep
      <4>. DEFINE N == {f}
      <4>2. G = F \cup N /\ \A g \in N : g.kind \notin {"entity.asserted", "entity.merged"}
        BY <4>1
      <4>. HIDE DEF N
      <4>. QED  BY <4>2
    <3>3. CASE DropStep(F, p, G, q)
      <4>1. PICK f : f.kind = "entity.retracted" /\ G = F \cup {f}
        BY <3>3 DEF DropStep
      <4>. DEFINE N == {f}
      <4>2. G = F \cup N /\ \A g \in N : g.kind \notin {"entity.asserted", "entity.merged"}
        BY <4>1
      <4>. HIDE DEF N
      <4>. QED  BY <4>2
    <3>4. CASE SameStep(F, p, G, q)
      BY <3>4 DEF SameStep
    <3>. QED  BY <1>8, <3>1, <3>2, <3>3, <3>4
  <2>2. Asserts(G) = Asserts(F) /\ \A i \in EntityIds : Into(G, i) = Into(F, i)
    BY <2>1 DEF Asserts, Into
  <2>. QED  BY <1>7, <2>2
<1>. QED  BY <1>5, <1>6, <1>8 DEF Step

\* No caller insists, in this space, on a node of its own for a key another may have.
Unforced(s) == \A c \in Candidates : c.space = s => c.policy # "force_new"

\* In each space where no new node is forced, keys follow their nodes.
KeyInv == \A s : Unforced(s) => Keyed(facts, proj, s)

\* Something is no space.
LEMMA NoSpace == \E s : s \notin Spaces
<1>. DEFINE R == {x \in Spaces : x \notin x}
<1>1. R \notin Spaces
  OBVIOUS
<1>. QED  BY <1>1

\* The part of the invariant that no caller can break.
LEMMA KeyedSome ==
  ASSUME KeyInv
  PROVE  \E s : s \notin Spaces /\ Keyed(facts, proj, s)
<1>1. PICK s : s \notin Spaces
  BY NoSpace
<1>2. Unforced(s)
  BY <1>1, StoreAssumption DEF Unforced, Candidate
<1>. QED  BY <1>1, <1>2 DEF KeyInv

\* No operation breaks it, if the inputs that are not the callers' force no node.
LEMMA KeyInvKept ==
  ASSUME IInv, KeyInv, NEW C \in [Writers -> SUBSET Candidate],
         \A w \in Writers : \A c \in C[w] : c \in Candidates \/ c.policy # "force_new", Operates(C)
  PROVE  KeyInv'
<1>. SUFFICES ASSUME NEW s, Unforced(s) PROVE Keyed(facts', proj', s)
  BY DEF KeyInv
<1>1. Keyed(facts, proj, s) /\ \A w \in Writers : \A c \in C[w] : c.space = s => c.policy # "force_new"
  BY DEF KeyInv, Unforced
<1>. QED  BY <1>1, KeyedOperates

\* An empty store has no keys that could be lost.
LEMMA KeyInvAtFirst == Init => KeyInv /\ Apart(facts)
<1>. SUFFICES ASSUME Init PROVE KeyInv /\ Apart(facts)
  OBVIOUS
<1>1. facts = {} /\ proj = EmptyProjection
  BY DEF Init
<1>2. \A s : Keyed({}, EmptyProjection, s)
  BY KeyedAtFirst
<1>3. KeyInv
  BY <1>1, <1>2 DEF KeyInv
<1>4. PICK S : Chained(facts, S)
  BY <1>1, <1>2 DEF Keyed
<1>5. Apart(facts)
  BY <1>1, <1>4 DEF Apart, OneSpace, Asserts
<1>. QED  BY <1>3, <1>5

\* Without embeddings every operation leaves the nodes in their spaces.
LEMMA ApartKept ==
  ASSUME Vectors = {}, IInv, KeyInv, Apart(facts), NEW C \in [Writers -> SUBSET Candidate], Operates(C)
  PROVE  Apart(facts')
<1>1. PICK F1, p1, F2, p2 : /\ Good(p1) /\ Step(facts, proj, F1, p1, C)
                            /\ Good(p2) /\ Step(F1, p1, F2, p2, C)
                            /\ Step(F2, p2, facts', proj', C)
  BY OperatesSteps
<1>2. Good(proj)
  BY Tables
<1>3. PICK s : s \notin Spaces /\ Keyed(facts, proj, s)
  BY KeyedSome
<1>4. \A w \in Writers : \A c \in C[w] : c.space = s => c.policy # "force_new"
  BY <1>3 DEF Candidate
<1>5. Keyed(F1, p1, s) /\ Apart(F1)
  BY <1>1, <1>2, <1>3, <1>4, KeyedStep, ApartStep
<1>6. Keyed(F2, p2, s) /\ Apart(F2)
  BY <1>1, <1>4, <1>5, KeyedStep, ApartStep
<1>. QED  BY <1>1, <1>6, ApartStep

\* The keys asserted in a space resolve to the nodes they were asserted of.
LEMMA KeysFollowIn ==
  ASSUME NEW s, Keyed(facts, proj, s), NodesInOneSpace,
         NEW f \in facts, f.kind = "entity.asserted", f.payload.space = s,
         Survivor[f.subject] \in Live(proj), NEW k \in f.payload.keys
  PROVE  [entity |-> Survivor[f.subject], key |-> k, space |-> s] \in proj.ext
<1>1. PICK S : Chained(facts, S) /\ (OneSpace(facts, S) => Follow(facts, S, proj, s))
  BY DEF Keyed
<1>2. Survivor = S
  BY <1>1, SurvivorIs
<1>3. OneSpace(facts, S)
  BY <1>2 DEF NodesInOneSpace, OneSpace, Asserts
<1>. QED  BY <1>1, <1>2, <1>3 DEF Follow, Asserts

\* A node of one space holds keys of no other.
LEMMA KeysOfNode ==
  ASSUME IInv, KeyInv, NodesInOneSpace
  PROVE  KeysInSpaceOfNode
<1>. SUFFICES ASSUME NEW r \in proj.ext PROVE r.space = SpaceOf(proj, r.entity)
  BY DEF KeysInSpaceOfNode
<1>1. PICK s, S : Chained(facts, S) /\ Backed(facts, S, proj)
  BY KeyedSome DEF Keyed
<1>2. Survivor = S
  BY <1>1, SurvivorIs
<1>3. r.entity \in Live(proj)
  BY DEF IInv, Good, References
<1>. DEFINE e == CHOOSE e \in proj.entities : e.id = r.entity
<1>4. e \in proj.entities /\ e.id = r.entity
  BY <1>3 DEF Live
<1>. HIDE DEF e
<1>5. PICK f \in Asserts(facts) : S[f.subject] = r.entity /\ f.payload.space = r.space
  BY <1>1 DEF Backed
<1>6. PICK g \in Asserts(facts) : S[g.subject] = e.id /\ g.payload.space = e.space
  BY <1>1, <1>4 DEF Backed
<1>7. f.payload.space = g.payload.space
  BY <1>2, <1>4, <1>5, <1>6 DEF NodesInOneSpace, Asserts
<1>. QED  BY <1>5, <1>6, <1>7 DEF SpaceOf, e

\* That nodes are apart, in the words of the property.
LEMMA ApartMeans ==
  ASSUME Apart(facts), MergedInSpace(facts)
  PROVE  NodesInOneSpace
<1>1. PICK S : Chained(facts, S) /\ OneSpace(facts, S)
  BY DEF Apart
<1>2. Survivor = S
  BY <1>1, SurvivorIs
<1>. QED  BY <1>1, <1>2 DEF NodesInOneSpace, OneSpace, Asserts

\* The invariant of the keys holds in every state.
LEMMA KeyInvEver == Spec => [](IInv /\ KeyInv)
<1>1. IInv /\ KeyInv /\ [Next]_vars => KeyInv'
  <2>. DEFINE C == [w \in Writers |-> Candidates]
  <2>1. /\ C \in [Writers -> SUBSET Candidate]
        /\ \A w \in Writers : \A c \in C[w] : c \in Candidates \/ c.policy # "force_new"
    BY StoreAssumption
  <2>2. [Next]_vars => Operates(C)
    BY NextOperates
  <2>. HIDE DEF C
  <2>. QED  BY <2>1, <2>2, KeyInvKept
<1>. QED  BY <1>1, Inductive, KeyInvAtFirst, PTL DEF Spec

\* "No key is ever lost" (sqlite/entities.go:323-329), through inserts, attaches, merges of
\* colliding nodes, explicit merges and rebuilds, in any number of spaces: as long as what
\* was asserted of one node was asserted in one space, and no caller forces a new node.
THEOREM KeysFollowUnlessSpacesMeet ==
  ASSUME \A s \in Spaces : Unforced(s)
  PROVE  Spec => [](NodesInOneSpace => KeysFollowNode)
<1>1. IInv /\ KeyInv => (NodesInOneSpace => KeysFollowNode)
  <2>. SUFFICES ASSUME IInv, KeyInv, NodesInOneSpace,
                       NEW f \in facts, f.kind = "entity.asserted", NEW k \in f.payload.keys,
                       Survivor[f.subject] \in Live(proj)
                PROVE  [entity |-> Survivor[f.subject], key |-> k, space |-> f.payload.space] \in proj.ext
    BY DEF KeysFollowNode
  <2>1. f.payload.space \in Spaces
    BY DEF IInv, Fact, FactOf, Snapshot
  <2>2. Keyed(facts, proj, f.payload.space)
    BY <2>1 DEF KeyInv
  <2>. QED  BY <2>2, KeysFollowIn
<1>. QED  BY <1>1, KeyInvEver, PTL

\* With a single space nothing else is needed (the store of one workspace).
THEOREM KeysFollowInOneSpace ==
  ASSUME \A s, t \in Spaces : s = t, \A s \in Spaces : Unforced(s)
  PROVE  Spec => []KeysFollowNode
<1>1. IInv => NodesInOneSpace
  BY DEF IInv, NodesInOneSpace, Fact, FactOf, Snapshot
<1>. QED  BY <1>1, KeyInvEver, KeysFollowUnlessSpacesMeet, PTL

\* A key is held in the space of its node, and never found from another: without an
\* embedder, whose search is not scoped, it takes an explicit merge of nodes of two spaces
\* to put a node in both (externalHitsTx, mergeEntitiesTx).
THEOREM KeysStayInSpaceOfNode ==
  ASSUME Vectors = {}
  PROVE  Spec => [](MergedInSpace(facts) => NodesInOneSpace /\ KeysInSpaceOfNode)
<1>. DEFINE A == Apart(facts)
<1>1. IInv /\ KeyInv /\ A /\ [Next]_vars => A'
  <2>. DEFINE C == [w \in Writers |-> Candidates]
  <2>1. C \in [Writers -> SUBSET Candidate]
    BY StoreAssumption
  <2>2. [Next]_vars => Operates(C)
    BY NextOperates
  <2>. HIDE DEF C
  <2>. QED  BY <2>1, <2>2, ApartKept
<1>2. IInv /\ KeyInv /\ A => (MergedInSpace(facts) => NodesInOneSpace /\ KeysInSpaceOfNode)
  BY ApartMeans, KeysOfNode
<1>3. Init => A
  BY KeyInvAtFirst
<1>. HIDE DEF A
<1>. QED  BY <1>1, <1>2, <1>3, KeyInvEver, PTL DEF Spec

----------------------------------------------------------------------------
(* The props of a node. *)

\* A write leaves each row of props, or makes it out of the one the node had.
PropsKept(p, q) ==
  \A r \in q.props :
    \/ r.entity \notin Live(p)
    \/ \E t \in p.props : t.entity = r.entity /\ Values(t.props) \subseteq Values(r.props)

\* Merging into an object leaves the values of the patch.
LEMMA NestedKeeps ==
  ASSUME NEW t \in Nested, NEW u \in Nested, NEW k \in DOMAIN u, u[k] # JsonNull
  PROVE  k \in DOMAIN PatchNested(t, u) /\ PatchNested(t, u)[k] = u[k]
BY DEF PatchNested, Left

\* json_patch with the existing props as the patch keeps their values.
LEMMA PatchKeeps ==
  ASSUME NEW target \in Objects \cup {JsonNull}, NEW patch \in Objects \cup {JsonNull}
  PROVE  Values(patch) \subseteq Values(JsonPatch(target, patch))
<1>1. CASE patch = JsonNull
  BY <1>1 DEF Values
<1>2. CASE patch # JsonNull
  <2>. DEFINE t == IF target = JsonNull THEN EmptyObject ELSE target
              both == PatchObject(t, patch)
              member(n) == IF n \in DOMAIN t THEN t[n] ELSE JsonNull
  <2>1. JsonPatch(target, patch) = both
    BY <1>2 DEF JsonPatch
  <2>2. patch \in Objects /\ t \in Objects
    BY <1>2, EmptyIsObject
  <2>3. both # JsonNull
    BY <2>2, PatchIsObject, StoreAssumption
  <2>4. \A n : member(n) \in Scalars \cup Nested
    BY <2>2 DEF Objects, Scalars
  <2>5. \A n \in DOMAIN patch : patch[n] \in Scalars \cup Nested
    BY <2>2 DEF Objects
  <2>6. \A n \in DOMAIN patch : patch[n] # JsonNull =>
          n \in DOMAIN both /\ both[n] = PatchMember(member(n), patch[n])
    BY DEF PatchObject, Left
  <2>. HIDE DEF both, member, t
  <2>7. ASSUME NEW n \in DOMAIN patch, patch[n] \in PropValues
        PROVE  n \in DOMAIN both /\ both[n] = patch[n]
    BY <2>6, <2>7, StoreAssumption DEF PatchMember
  <2>8. ASSUME NEW n \in DOMAIN patch, patch[n] \notin Scalars,
               NEW k \in DOMAIN patch[n], patch[n][k] # JsonNull
        PROVE  /\ n \in DOMAIN both /\ both[n] \notin Scalars
               /\ k \in DOMAIN both[n] /\ both[n][k] = patch[n][k]
    <3>. DEFINE o == IF member(n) \in Scalars THEN EmptyObject ELSE member(n)
    <3>1. patch[n] \in Nested /\ patch[n] # JsonNull /\ patch[n] \notin PropValues
      BY <2>5, <2>8 DEF Scalars
    <3>2. o \in Nested
      BY <2>4, EmptyIsObject
    <3>3. n \in DOMAIN both /\ both[n] = PatchNested(o, patch[n])
      BY <2>6, <3>1 DEF PatchMember
    <3>. HIDE DEF o
    <3>4. both[n] \notin Scalars
      BY <3>1, <3>2, <3>3, NestedType, StoreAssumption
    <3>. QED  BY <2>8, <3>1, <3>2, <3>3, <3>4, NestedKeeps
  <2>9. ASSUME NEW v \in Values(patch) PROVE v \in Values(both)
    <3>1. CASE \E n \in DOMAIN patch : patch[n] \in PropValues /\ v = <<n, patch[n]>>
      BY <2>3, <2>7, <3>1 DEF Values
    <3>2. CASE \E n \in DOMAIN patch : patch[n] \notin Scalars /\
                 \E k \in DOMAIN patch[n] : patch[n][k] # JsonNull /\ v = <<n, k, patch[n][k]>>
      <4>1. PICK n \in DOMAIN patch : patch[n] \notin Scalars /\
                 \E k \in DOMAIN patch[n] : patch[n][k] # JsonNull /\ v = <<n, k, patch[n][k]>>
        BY <3>2
      <4>2. PICK k \in DOMAIN patch[n] : patch[n][k] # JsonNull /\ v = <<n, k, patch[n][k]>>
        BY <4>1
      <4>3. /\ n \in DOMAIN both /\ both[n] \notin Scalars
            /\ k \in DOMAIN both[n] /\ both[n][k] = patch[n][k]
        BY <2>8, <4>1, <4>2
      <4>4. both[n][k] # JsonNull /\ v = <<n, k, both[n][k]>>
        BY <4>2, <4>3
      <4>. QED  BY <2>3, <4>3, <4>4 DEF Values
    <3>. QED  BY <1>2, <2>9, <3>1, <3>2 DEF Values
  <2>. QED  BY <2>1, <2>9
<1>. QED  BY <1>1, <1>2

\* The existing props win (upsertEntitySnapshot).
LEMMA UpsertKeepsProps ==
  ASSUME NEW p \in Projection, NEW id, NEW c, Upsertable(c)
  PROVE  PropsKept(p, UpsertEntitySnapshot(p, id, c))
<1>. DEFINE q == UpsertEntitySnapshot(p, id, c)
            new == PatchedProps(p, id, c)
<1>1. q.props = {r \in p.props : r.entity # id} \cup new
  BY DEF UpsertEntitySnapshot
<1>2. ASSUME id \in Live(p), NEW r \in new
      PROVE  \E t \in p.props : t.entity = r.entity /\ Values(t.props) \subseteq Values(r.props)
  <2>1. PICK t \in p.props : /\ t.entity = id
                             /\ r = [entity |-> id, props |-> IF c.props = NilProps THEN t.props
                                                              ELSE JsonPatch(c.props, t.props)]
    BY <1>2 DEF PatchedProps
  <2>2. t.props \in Objects \cup {JsonNull}
    BY DEF Projection
  <2>3. c.props # NilProps => c.props \in Objects \cup {JsonNull}
    BY DEF Upsertable
  <2>4. Values(t.props) \subseteq Values(r.props)
    BY <2>1, <2>2, <2>3, PatchKeeps
  <2>. QED  BY <2>1, <2>4
<1>3. ASSUME id \notin Live(p), NEW r \in new
      PROVE  r.entity \notin Live(p)
  BY <1>3 DEF PatchedProps
<1>. HIDE DEF new, q
<1>4. PropsKept(p, q)
  <2>. SUFFICES ASSUME NEW r \in q.props
                PROVE  \/ r.entity \notin Live(p)
                       \/ \E t \in p.props : t.entity = r.entity /\ Values(t.props) \subseteq Values(r.props)
    BY DEF PropsKept
  <2>. QED  BY <1>1, <1>2, <1>3
<1>. QED  BY <1>4 DEF q

\* The columns of the other tables do not matter to it.
LEMMA FewerKeepsProps ==
  ASSUME NEW p, NEW q, q.props \subseteq p.props
  PROVE  PropsKept(p, q)
BY DEF PropsKept

\* An assertion, whatever the resolve decision (AppendEntityFact).
LEMMA AppendKeepsProps ==
  ASSUME IInv, NEW w \in Writers, NEW c \in Candidate, AppendEntityFact(w, c)
  PROVE  PropsKept(proj, proj')
<1>0. Upsertable(c) /\ proj \in Projection /\ Live(proj) \subseteq EntityIds
  BY CandidateUpsertable, Tables DEF Good
<1>1. PICK d \in Resolve(proj, c) :
         \/ d.action = "insert_new"     /\ InsertNew(w, c)
         \/ d.action = "insert_flagged" /\ InsertFlagged(w, c, d.target)
         \/ d.action = "attach"         /\ Attach(w, c, d.target)
         \/ d.action = "merge"          /\ MergeThenAttach(w, c, d.target, d.drops)
  BY DEF AppendEntityFact
<1>2. CASE InsertNew(w, c)
  BY <1>0, <1>2, UpsertKeepsProps DEF InsertNew, Commit
<1>3. CASE InsertFlagged(w, c, d.target)
  <2>1. PICK id, x :
          id \in EntityIds /\ proj' = UpsertEdgeSnapshot(UpsertEntitySnapshot(proj, id, c), x)
    BY <1>3 DEF InsertFlagged, Commit
  <2>. DEFINE q == UpsertEntitySnapshot(proj, id, c)
  <2>2. q \in Projection
    BY <1>0, <2>1, UpsertEntityType
  <2>3. PropsKept(proj, q)
    BY <1>0, UpsertKeepsProps
  <2>4. proj'.props = q.props
    <3>. HIDE DEF q
    <3>1. UpsertEdgeSnapshot(q, x).props = q.props
      BY <2>2 DEF UpsertEdgeSnapshot, Projection
    <3>. QED  BY <2>1, <3>1 DEF q
  <2>. HIDE DEF q
  <2>. QED  BY <2>3, <2>4 DEF PropsKept
<1>4. CASE Attach(w, c, d.target)
  BY <1>0, <1>4, UpsertKeepsProps DEF Attach, Commit
<1>5. CASE d.action = "merge" /\ MergeThenAttach(w, c, d.target, d.drops)
  <2>. DEFINE m == MergeEntitiesTx(proj, d.target, d.drops)
              q == UpsertEntitySnapshot(m, d.target, c)
  <2>1. /\ d.target \in Live(proj) /\ d.drops \subseteq Live(proj) /\ d.target \notin d.drops
    BY <1>5, ResolveTargets
  <2>2. m \in Projection /\ m.props \subseteq proj.props
    <3>1. m \in Projection
      BY <1>0, <2>1, MergeType
    <3>. QED  BY <3>1 DEF MergeEntitiesTx
  <2>3. d.target \in Live(m)
    BY <2>1 DEF Live, MergeEntitiesTx
  <2>4. proj' = q
    BY <1>5 DEF MergeThenAttach, Commit
  <2>5. q.props = {r \in m.props : r.entity # d.target} \cup PatchedProps(m, d.target, c)
    BY DEF UpsertEntitySnapshot
  <2>6. \A r \in PatchedProps(m, d.target, c) : r.entity = d.target
    BY DEF PatchedProps
  <2>. HIDE DEF m
  <2>7. PropsKept(m, q)
    BY <1>0, <2>2, UpsertKeepsProps
  <2>. HIDE DEF q
  <2>8. \A r \in q.props : \E t \in proj.props : t.entity = r.entity /\ Values(t.props) \subseteq Values(r.props)
    <3>. SUFFICES ASSUME NEW r \in q.props
                  PROVE  \E t \in proj.props : t.entity = r.entity /\ Values(t.props) \subseteq Values(r.props)
      OBVIOUS
    <3>1. CASE r.entity = d.target
      BY <2>2, <2>3, <2>7, <3>1 DEF PropsKept
    <3>2. CASE r.entity # d.target
      BY <2>2, <2>5, <2>6, <3>2
    <3>. QED  BY <3>1, <3>2
  <2>. QED  BY <2>4, <2>8 DEF PropsKept
<1>. QED  BY <1>1, <1>2, <1>3, <1>4, <1>5

\* No caller leaves the props of an entity unset (a nil json.RawMessage).
AlwaysProps(C) == \A w \in Writers : \A c \in C[w] : c.props # NilProps

\* What the rebuild has for props is what the online write has.
SameProps == proj.props = rebuilt.props

\* Then marshalling loses nothing of them.
LEMMA UpsertSameProps ==
  ASSUME NEW p, NEW r, Live(p) = Live(r), p.props = r.props,
         NEW id, NEW c, c.props # NilProps
  PROVE  UpsertEntitySnapshot(p, id, c).props = UpsertEntitySnapshot(r, id, Marshal(c)).props
<1>1. Marshal(c).props = c.props
  BY DEF Marshal
<1>2. PatchedProps(p, id, c) = PatchedProps(r, id, Marshal(c))
  BY <1>1 DEF PatchedProps
<1>3. /\ UpsertEntitySnapshot(p, id, c).props = {x \in p.props : x.entity # id} \cup PatchedProps(p, id, c)
      /\ UpsertEntitySnapshot(r, id, Marshal(c)).props
           = {x \in r.props : x.entity # id} \cup PatchedProps(r, id, Marshal(c))
  BY DEF UpsertEntitySnapshot
<1>. QED  BY <1>2, <1>3

\* An edge has no props.
LEMMA EdgePropless ==
  ASSUME NEW p \in Projection, NEW x
  PROVE  UpsertEdgeSnapshot(p, x).props = p.props /\ DeleteEdge(p, x).props = p.props
BY DEF UpsertEdgeSnapshot, DeleteEdge, Projection

\* A merge takes the rows of the nodes that go.
LEMMA RowsTaken ==
  ASSUME NEW p, NEW keep, NEW drops
  PROVE  MergeEntitiesTx(p, keep, drops).props = {r \in p.props : r.entity \notin drops}
BY DEF MergeEntitiesTx

\* An assertion with props leaves the two equal, whatever the resolve decision.
LEMMA AppendSameProps ==
  ASSUME IInv, SameProps, NEW w \in Writers, NEW c \in Candidate, c.props # NilProps,
         AppendEntityFact(w, c)
  PROVE  SameProps'
<1>0. /\ Upsertable(c) /\ Upsertable(Marshal(c)) /\ Live(proj) = Live(rebuilt)
      /\ proj \in Projection /\ rebuilt \in Projection /\ Live(proj) \subseteq EntityIds
  BY CandidateUpsertable, Tables, CoreLive DEF Good, IInv, RebuildAgrees
<1>1. PICK d \in Resolve(proj, c) :
         \/ d.action = "insert_new"     /\ InsertNew(w, c)
         \/ d.action = "insert_flagged" /\ InsertFlagged(w, c, d.target)
         \/ d.action = "attach"         /\ Attach(w, c, d.target)
         \/ d.action = "merge"          /\ MergeThenAttach(w, c, d.target, d.drops)
  BY DEF AppendEntityFact
<1>2. CASE InsertNew(w, c)
  BY <1>0, <1>2, UpsertSameProps DEF InsertNew, Commit, SameProps
<1>3. CASE InsertFlagged(w, c, d.target)
  <2>1. PICK id, x :
          /\ id \in EntityIds
          /\ proj' = UpsertEdgeSnapshot(UpsertEntitySnapshot(proj, id, c), x)
          /\ rebuilt' = UpsertEdgeSnapshot(UpsertEntitySnapshot(rebuilt, id, Marshal(c)), x)
    BY <1>3 DEF InsertFlagged, Commit
  <2>2. /\ UpsertEntitySnapshot(proj, id, c) \in Projection
        /\ UpsertEntitySnapshot(rebuilt, id, Marshal(c)) \in Projection
    BY <1>0, <2>1, UpsertEntityType
  <2>. QED  BY <1>0, <2>1, <2>2, UpsertSameProps, EdgePropless DEF SameProps
<1>4. CASE Attach(w, c, d.target)
  BY <1>0, <1>4, UpsertSameProps DEF Attach, Commit, SameProps
<1>5. CASE MergeThenAttach(w, c, d.target, d.drops)
  <2>. DEFINE p == MergeEntitiesTx(proj, d.target, d.drops)
              r == MergeEntitiesTx(rebuilt, d.target, d.drops)
  <2>1. p.props = r.props
    <3>1. /\ p.props = {x \in proj.props : x.entity \notin d.drops}
          /\ r.props = {x \in rebuilt.props : x.entity \notin d.drops}
      BY RowsTaken
    <3>. HIDE DEF p, r
    <3>. QED  BY <3>1 DEF SameProps
  <2>2. Live(p) = Live(proj) \ d.drops /\ Live(r) = Live(rebuilt) \ d.drops
    BY DEF Live, MergeEntitiesTx
  <2>3. /\ proj' = UpsertEntitySnapshot(p, d.target, c)
        /\ rebuilt' = UpsertEntitySnapshot(r, d.target, Marshal(c))
    BY <1>5 DEF MergeThenAttach, Commit
  <2>. HIDE DEF p, r
  <2>4. Live(p) = Live(r)
    BY <1>0, <2>2
  <2>5. UpsertEntitySnapshot(p, d.target, c).props = UpsertEntitySnapshot(r, d.target, Marshal(c)).props
    BY <2>1, <2>4, UpsertSameProps
  <2>. QED  BY <2>3, <2>5 DEF SameProps
<1>. QED  BY <1>1, <1>2, <1>3, <1>4, <1>5

\* No operation takes props from a node that lives on, if all that is asserted has some.
LEMMA OperatesKeepsProps ==
  ASSUME IInv, SameProps, NEW C \in [Writers -> SUBSET Candidate], AlwaysProps(C), Operates(C)
  PROVE  SameProps' /\ PropsKept(proj, proj')
<1>0. proj \in Projection /\ rebuilt \in Projection
  BY Tables DEF Good
<1>1. CASE \E w \in Writers : \E c \in C[w] : AppendEntityFact(w, c)
  <2>1. PICK w \in Writers : \E c \in C[w] : AppendEntityFact(w, c)
    BY <1>1
  <2>3. PICK c \in C[w] : AppendEntityFact(w, c)
    BY <2>1
  <2>2. c \in Candidate /\ c.props # NilProps
    BY DEF AlwaysProps
  <2>. QED  BY <2>2, <2>3, AppendKeepsProps, AppendSameProps
<1>2. CASE \E w \in Writers, in \in EdgeInput : AppendEdgeFact(w, in)
  <2>1. proj'.props = proj.props /\ rebuilt'.props = rebuilt.props
    BY <1>0, <1>2, EdgePropless DEF AppendEdgeFact, Commit
  <2>. QED  BY <2>1, FewerKeepsProps DEF SameProps
<1>3. CASE \E w \in Writers, keep \in EntityIds, drop \in EntityIds : MergeEntities(w, keep, drop)
  <2>1. PICK keep, drops : /\ proj' = MergeEntitiesTx(proj, keep, drops)
                           /\ rebuilt' = MergeEntitiesTx(rebuilt, keep, drops)
    BY <1>3 DEF MergeEntities, FoldMerged, Commit
  <2>2. /\ proj'.props = {x \in proj.props : x.entity \notin drops}
        /\ rebuilt'.props = {x \in rebuilt.props : x.entity \notin drops}
    BY <2>1, RowsTaken
  <2>3. proj'.props \subseteq proj.props /\ proj'.props = rebuilt'.props
    BY <2>2 DEF SameProps
  <2>. QED  BY <2>3, FewerKeepsProps DEF SameProps
<1>4. CASE \E w \in Writers, id \in EntityIds : ~FreshEntity(id) /\ RetractEntity(w, id)
  <2>1. PICK id, text : /\ proj' = [DeleteEntity(proj, id) EXCEPT !.fts = text]
                        /\ rebuilt' = DeleteEntity(rebuilt, id)
    BY <1>4 DEF RetractEntity, Commit
  <2>2. /\ proj'.props = {x \in proj.props : x.entity # id}
        /\ rebuilt'.props = {x \in rebuilt.props : x.entity # id}
    <3>1. [DeleteEntity(proj, id) EXCEPT !.fts = text].props = {x \in proj.props : x.entity # id}
      BY DEF DeleteEntity
    <3>2. DeleteEntity(rebuilt, id).props = {x \in rebuilt.props : x.entity # id}
      BY DEF DeleteEntity
    <3>. QED  BY <2>1, <3>1, <3>2
  <2>3. proj'.props \subseteq proj.props /\ proj'.props = rebuilt'.props
    BY <2>2 DEF SameProps
  <2>. QED  BY <2>3, FewerKeepsProps DEF SameProps
<1>5. CASE \E w \in Writers, id \in EdgeIds : ~FreshEdge(id) /\ RetractEdge(w, id)
  <2>1. proj'.props = proj.props /\ rebuilt'.props = rebuilt.props
    BY <1>0, <1>5, EdgePropless DEF RetractEdge, Commit
  <2>. QED  BY <2>1, FewerKeepsProps DEF SameProps
<1>6. CASE RebuildProjection
  <2>1. proj' = rebuilt /\ rebuilt' = rebuilt
    BY <1>6 DEF RebuildProjection
  <2>. QED  BY <2>1, FewerKeepsProps DEF SameProps
<1>7. CASE UNCHANGED vars
  <2>1. proj' = proj /\ rebuilt' = rebuilt
    BY <1>7 DEF vars
  <2>. QED  BY <2>1, FewerKeepsProps DEF SameProps
<1>. QED  BY <1>1, <1>2, <1>3, <1>4, <1>5, <1>6, <1>7 DEF Operates

\* That rows are kept, in the words of the property.
LEMMA KeptMeans ==
  ASSUME IInv, TextInv, PropsKept(proj, proj')
  PROVE  \A q \in proj.props, r \in proj'.props :
           q.entity = r.entity => Values(q.props) \subseteq Values(r.props)
<1>. SUFFICES ASSUME NEW q \in proj.props, NEW r \in proj'.props, q.entity = r.entity
              PROVE  Values(q.props) \subseteq Values(r.props)
  OBVIOUS
<1>1. q.entity \in Live(proj)
  BY DEF IInv, Good, References
<1>2. PICK t \in proj.props : t.entity = r.entity /\ Values(t.props) \subseteq Values(r.props)
  BY <1>1 DEF PropsKept
<1>3. t = q
  BY <1>2 DEF TextInv, Matched
<1>. QED  BY <1>2, <1>3

\* Existing props win: no attach, merge or rebuild changes or removes a value in the props
\* of a node that lives on, at the top or inside an object (upsertEntitySnapshot), if no
\* caller leaves the props unset.
THEOREM PropsOnlyGrowEver ==
  ASSUME \A c \in Candidates : c.props # NilProps
  PROVE  Spec => PropsOnlyGrow
<1>. DEFINE Grow == \A q \in proj.props, r \in proj'.props :
                      q.entity = r.entity => Values(q.props) \subseteq Values(r.props)
<1>1. Init => IInv /\ TextInv /\ SameProps
  BY Inductive DEF Init, EmptyProjection, TextInv, Matched, SameProps
<1>2. IInv /\ TextInv /\ SameProps /\ [Next]_vars => IInv' /\ TextInv' /\ SameProps' /\ Grow
  <2>. DEFINE C == [w \in Writers |-> Candidates]
  <2>1. C \in [Writers -> SUBSET Candidate] /\ AlwaysProps(C) /\ ([Next]_vars => Operates(C))
    BY NextOperates, StoreAssumption DEF AlwaysProps
  <2>. HIDE DEF C
  <2>. QED  BY <2>1, OperatesPreserves, OperatesMatched, OperatesKeepsProps, KeptMeans
<1>. HIDE DEF Grow
<1>3. Spec => [][Grow]_vars
  BY <1>1, <1>2, PTL DEF Spec
<1>. QED  BY <1>3 DEF Grow, PropsOnlyGrow

----------------------------------------------------------------------------
(* What is lost only by a merge or a retraction. *)

Lost(F, id) == \E g \in F : Tombstone(g) /\ g.subject = id

\* A node that was asserted is there, unless it was merged or retracted.
Stays(F, p) == \A f \in Asserts(F) : f.subject \in Live(p) \/ Lost(F, f.subject)

\* While it is, it has the keys that the writer w asserted it with, in some space.
Holds(F, p, w) ==
  \A f \in Asserts(F) : f.writer = w /\ f.subject \in Live(p) =>
    \A k \in f.payload.keys : \E r \in p.ext : r.entity = f.subject /\ r.key = k

\* An edge is there as it was asserted, unless it was retracted or an end was lost.
Joined(F, p) ==
  \A f \in F : f.kind = "edge.asserted" =>
    /\ f.payload \in EdgeRow /\ f.payload.id = f.subject
    /\ \/ f.payload \in p.edges
       \/ \E g \in F : g.kind = "edge.retracted" /\ g.subject = f.subject
       \/ Lost(F, f.payload.from) \/ Lost(F, f.payload.to)

Kept(F, p, w) == Stays(F, p) /\ Holds(F, p, w) /\ Joined(F, p)

\* A merge loses the nodes that go and re-points their edges.
LEMMA KeptMerge ==
  ASSUME NEW F, NEW p, Good(p), NEW w, Kept(F, p, w),
         NEW keep \in Live(p), NEW D \in SUBSET Live(p), keep \notin D, NEW M,
         \A f \in M : f.kind = "entity.merged" /\ f.payload.keep = keep,
         \A d \in D : \E f \in M : f.subject = d
  PROVE  Kept(F \cup M, MergeEntitiesTx(p, keep, D), w)
<1>. DEFINE G == F \cup M
            q == MergeEntitiesTx(p, keep, D)
<1>1. Live(q) = Live(p) \ D
  BY DEF Live, MergeEntitiesTx
<1>2. \A r \in p.ext : r.entity \notin D => r \in q.ext
  BY DEF MergeEntitiesTx
<1>3. \A e \in p.edges : e.from \notin D /\ e.to \notin D => e \in q.edges
  <2>. SUFFICES ASSUME NEW e \in p.edges, e.from \notin D, e.to \notin D PROVE e \in q.edges
    OBVIOUS
  <2>. DEFINE point(i) == IF i \in D THEN keep ELSE i
              at(x) == [id |-> x.id, predicate |-> x.predicate, from |-> point(x.from),
                        to |-> point(x.to), space |-> x.space]
  <2>1. q.edges = {at(x) : x \in p.edges}
    BY DEF MergeEntitiesTx
  <2>2. at(e) = e
    <3>1. e \in EdgeRow
      BY DEF Good, Projection
    <3>. QED  BY <3>1 DEF EdgeRow
  <2>. HIDE DEF at
  <2>. QED  BY <2>1, <2>2
<1>4. Asserts(G) = Asserts(F)
  BY DEF Asserts
<1>5. \A i : (Lost(F, i) => Lost(G, i)) /\ (i \in D => Lost(G, i))
  BY DEF Lost, Tombstone
<1>6. \A f \in G : f.kind = "edge.asserted" => f \in F
  OBVIOUS
<1>. HIDE DEF q
<1>7. Stays(G, q)
  BY <1>1, <1>4, <1>5 DEF Stays, Kept
<1>8. Holds(G, q, w)
  <2>. SUFFICES ASSUME NEW f \in Asserts(G), f.writer = w, f.subject \in Live(q), NEW k \in f.payload.keys
                PROVE  \E r \in q.ext : r.entity = f.subject /\ r.key = k
    BY DEF Holds
  <2>1. f \in Asserts(F) /\ f.subject \in Live(p) /\ f.subject \notin D
    BY <1>1, <1>4
  <2>2. PICK r \in p.ext : r.entity = f.subject /\ r.key = k
    BY <2>1 DEF Kept, Holds
  <2>. QED  BY <1>2, <2>1, <2>2
<1>9. Joined(G, q)
  <2>. SUFFICES ASSUME NEW f \in G, f.kind = "edge.asserted"
                PROVE  /\ f.payload \in EdgeRow /\ f.payload.id = f.subject
                       /\ \/ f.payload \in q.edges
                          \/ \E g \in G : g.kind = "edge.retracted" /\ g.subject = f.subject
                          \/ Lost(G, f.payload.from) \/ Lost(G, f.payload.to)
    BY DEF Joined
  <2>1. /\ f.payload \in EdgeRow /\ f.payload.id = f.subject
        /\ \/ f.payload \in p.edges
           \/ \E g \in F : g.kind = "edge.retracted" /\ g.subject = f.subject
           \/ Lost(F, f.payload.from) \/ Lost(F, f.payload.to)
    BY <1>6 DEF Kept, Joined
  <2>. QED  BY <1>3, <1>5, <2>1
<1>. QED  BY <1>7, <1>8, <1>9 DEF Kept, q

\* An assertion adds a node or finds one, and gives it the keys nobody else has.
LEMMA KeptAssert ==
  ASSUME NEW F, NEW p, Good(p), NEW w, Kept(F, p, w),
         NEW id \in EntityIds, id \in Live(p) \/ ~ \E f \in Asserts(F) : f.subject = id,
         NEW c, Upsertable(c),
         NEW a, a.kind = "entity.asserted", a.subject = id, a.payload.keys = c.keys,
         a.writer = w => \A r \in p.ext : r.space = c.space /\ r.key \in c.keys => r.entity = id
  PROVE  Kept(F \cup {a}, UpsertEntitySnapshot(p, id, c), w)
<1>. DEFINE G == F \cup {a}
            q == UpsertEntitySnapshot(p, id, c)
<1>1. Live(q) = Live(p) \cup {id}
  BY UpsertEntityGood
<1>2. p.ext \subseteq q.ext /\ q.edges = p.edges
  BY DEF UpsertEntitySnapshot
<1>3. \A k \in c.keys : \/ [entity |-> id, key |-> k, space |-> c.space] \in q.ext
                        \/ \E r \in p.ext : r.key = k /\ (r.space = c.space \/ r.entity = id)
  BY DEF UpsertEntitySnapshot, ClaimableKeys
<1>4. Asserts(G) = Asserts(F) \cup {a}
  BY DEF Asserts
<1>5. \A i : Lost(F, i) => Lost(G, i)
  BY DEF Lost
<1>. HIDE DEF q, G
<1>6. Stays(G, q)
  BY <1>1, <1>4, <1>5 DEF Stays, Kept
<1>7. Holds(G, q, w)
  <2>. SUFFICES ASSUME NEW f \in Asserts(G), f.writer = w, f.subject \in Live(q), NEW k \in f.payload.keys
                PROVE  \E r \in q.ext : r.entity = f.subject /\ r.key = k
    BY DEF Holds
  <2>1. CASE f \in Asserts(F)
    <3>1. f.subject \in Live(p)
      BY <1>1, <2>1
    <3>2. PICK r \in p.ext : r.entity = f.subject /\ r.key = k
      BY <2>1, <3>1 DEF Kept, Holds
    <3>. QED  BY <1>2, <3>2
  <2>2. CASE f = a
    <3>1. \A r \in p.ext : r.space = c.space /\ r.key \in c.keys => r.entity = id
      BY <2>2
    <3>2. k \in c.keys
      BY <2>2
    <3>3. CASE [entity |-> id, key |-> k, space |-> c.space] \in q.ext
      BY <2>2, <3>3
    <3>4. CASE \E r \in p.ext : r.key = k /\ (r.space = c.space \/ r.entity = id)
      BY <1>2, <2>2, <3>1, <3>2, <3>4
    <3>. QED  BY <1>3, <3>2, <3>3, <3>4
  <2>. QED  BY <1>4, <2>1, <2>2
<1>8. Joined(G, q)
  BY <1>2, <1>5 DEF Joined, Kept, G
<1>. QED  BY <1>6, <1>7, <1>8 DEF Kept, q, G

\* A change to an edge, or to no node but one, which is retracted.
LEMMA KeptOther ==
  ASSUME NEW F, NEW p, NEW w, Kept(F, p, w),
         NEW N, \A f \in N : f.kind # "entity.asserted",
         \A f \in N : f.kind = "edge.asserted" => f.payload \in EdgeRow /\ f.payload.id = f.subject,
         NEW q, \A i \in Live(p) : i \in Live(q) \/ Lost(N, i),
         \A r \in p.ext : r.entity \in Live(q) => r \in q.ext, Live(q) \subseteq Live(p),
         \A f \in N : f.kind = "edge.asserted" => f.payload \in q.edges,
         \A f \in F : f.kind = "edge.asserted" /\ f.payload \in p.edges =>
           \/ f.payload \in q.edges
           \/ \E g \in N : g.kind = "edge.retracted" /\ g.subject = f.payload.id
           \/ Lost(N, f.payload.from) \/ Lost(N, f.payload.to)
  PROVE  Kept(F \cup N, q, w)
<1>. DEFINE G == F \cup N
<1>1. Asserts(G) = Asserts(F)
  BY DEF Asserts
<1>2. \A i : Lost(F, i) \/ Lost(N, i) => Lost(G, i)
  BY DEF Lost
<1>3. Stays(G, q)
  BY <1>1, <1>2 DEF Stays, Kept
<1>4. Holds(G, q, w)
  <2>. SUFFICES ASSUME NEW f \in Asserts(G), f.writer = w, f.subject \in Live(q), NEW k \in f.payload.keys
                PROVE  \E r \in q.ext : r.entity = f.subject /\ r.key = k
    BY DEF Holds
  <2>1. PICK r \in p.ext : r.entity = f.subject /\ r.key = k
    BY <1>1 DEF Kept, Holds
  <2>. QED  BY <2>1
<1>5. Joined(G, q)
  <2>. SUFFICES ASSUME NEW f \in G, f.kind = "edge.asserted"
                PROVE  /\ f.payload \in EdgeRow /\ f.payload.id = f.subject
                       /\ \/ f.payload \in q.edges
                          \/ \E g \in G : g.kind = "edge.retracted" /\ g.subject = f.subject
                          \/ Lost(G, f.payload.from) \/ Lost(G, f.payload.to)
    BY DEF Joined
  <2>1. CASE f \in F
    <3>1. /\ f.payload \in EdgeRow /\ f.payload.id = f.subject
          /\ \/ f.payload \in p.edges
             \/ \E g \in F : g.kind = "edge.retracted" /\ g.subject = f.subject
             \/ Lost(F, f.payload.from) \/ Lost(F, f.payload.to)
      BY <2>1 DEF Kept, Joined
    <3>. QED  BY <1>2, <2>1, <3>1
  <2>2. CASE f \in N
    BY <2>2
  <2>. QED  BY <2>1, <2>2
<1>. QED  BY <1>3, <1>4, <1>5 DEF Kept

\* So each change of an operation loses only what it says it does, if w forces no node.
LEMMA KeptStep ==
  ASSUME NEW F, NEW p, Good(p), NEW w \in Writers, Kept(F, p, w),
         NEW C \in [Writers -> SUBSET Candidate], \A c \in C[w] : c.policy # "force_new",
         NEW G, NEW q, Step(F, p, G, q, C)
  PROVE  Kept(G, q, w)
<1>0. p \in Projection
  BY DEF Good
<1>1. CASE MergeStep(F, p, G, q)
  <2>1. PICK keep \in Live(p), D \in SUBSET Live(p) : \E M :
          /\ keep \notin D /\ G = F \cup M /\ q = MergeEntitiesTx(p, keep, D)
          /\ \A f \in M : f.kind = "entity.merged" /\ f.payload.keep = keep /\ f.subject \in D \cup {keep}
          /\ \A d \in D : \E f \in M : f.subject = d
    BY <1>1 DEF MergeStep
  <2>. QED  BY <2>1, KeptMerge
<1>2. CASE AssertStep(F, p, G, q, C)
  <2>1. PICK u \in Writers : \E c \in C[u], id \in EntityIds : \E n :
          /\ G = F \cup {AssertOnto(u, c, id, n)} /\ q = UpsertEntitySnapshot(p, id, c)
          /\ id \in Live(p) \/ ~ \E f \in Asserts(F) : f.subject = id
          /\ c.policy # "force_new" => \A r \in p.ext : r.space = c.space /\ r.key \in c.keys => r.entity = id
    BY <1>2 DEF AssertStep
  <2>2. PICK c \in C[u], id \in EntityIds : \E n :
          /\ G = F \cup {AssertOnto(u, c, id, n)} /\ q = UpsertEntitySnapshot(p, id, c)
          /\ id \in Live(p) \/ ~ \E f \in Asserts(F) : f.subject = id
          /\ c.policy # "force_new" => \A r \in p.ext : r.space = c.space /\ r.key \in c.keys => r.entity = id
    BY <2>1
  <2>3. PICK a : /\ G = F \cup {a} /\ a.kind = "entity.asserted" /\ a.subject = id
                 /\ a.payload.keys = c.keys /\ a.writer = u
    <3>1. PICK n : G = F \cup {AssertOnto(u, c, id, n)}
      BY <2>2
    <3>. DEFINE b == AssertOnto(u, c, id, n)
    <3>2. b.kind = "entity.asserted" /\ b.subject = id /\ b.payload.keys = c.keys /\ b.writer = u
      BY DEF AssertOnto, NewFact, Marshal
    <3>. HIDE DEF b
    <3>. QED  BY <3>1, <3>2 DEF b
  <2>4. Upsertable(c)
    BY CandidateUpsertable
  <2>5. a.writer = w => \A r \in p.ext : r.space = c.space /\ r.key \in c.keys => r.entity = id
    BY <2>2, <2>3
  <2>. QED  BY <2>2, <2>3, <2>4, <2>5, KeptAssert
<1>3. CASE LinkStep(F, p, G, q)
  <2>1. PICK e, f :
          /\ e \in EdgeRow
          /\ f.kind = "edge.asserted" /\ f.subject = e.id /\ f.payload = e
          /\ G = F \cup {f} /\ q = UpsertEdgeSnapshot(p, e)
          /\ ~ \E g \in F : g.kind = "edge.asserted" /\ g.subject = e.id
    BY <1>3 DEF LinkStep
  <2>2. /\ q.entities = p.entities /\ q.ext = p.ext
        /\ q.edges = {x \in p.edges : x.id # e.id} \cup {e}
    BY <1>0, <2>1 DEF UpsertEdgeSnapshot, Projection
  <2>3. \A g \in F : g.kind = "edge.asserted" => g.payload.id = g.subject
    BY DEF Kept, Joined
  <2>. DEFINE N == {f}
  <2>4. G = F \cup N /\ \A g \in N : g.kind # "entity.asserted"
    BY <2>1
  <2>5. \A g \in N : g.payload \in EdgeRow /\ g.payload.id = g.subject /\ g.payload \in q.edges
    BY <2>1, <2>2
  <2>6. Live(q) = Live(p)
    BY <2>2 DEF Live
  <2>7. \A g \in F : g.kind = "edge.asserted" /\ g.payload \in p.edges => g.payload \in q.edges
    BY <2>1, <2>2, <2>3
  <2>. HIDE DEF N
  <2>. QED  BY <2>2, <2>4, <2>5, <2>6, <2>7, KeptOther
<1>4. CASE UnlinkStep(F, p, G, q)
  <2>1. PICK f : f.kind = "edge.retracted" /\ G = F \cup {f} /\ q = DeleteEdge(p, f.subject)
    BY <1>4 DEF UnlinkStep
  <2>2. /\ q.entities = p.entities /\ q.ext = p.ext
        /\ q.edges = {x \in p.edges : x.id # f.subject}
    BY <1>0, <2>1 DEF DeleteEdge, Projection
  <2>. DEFINE N == {f}
  <2>3. G = F \cup N /\ \A g \in N : g.kind \notin {"entity.asserted", "edge.asserted"}
    BY <2>1
  <2>4. Live(q) = Live(p)
    BY <2>2 DEF Live
  <2>5. \A g \in F : g.kind = "edge.asserted" /\ g.payload \in p.edges =>
          g.payload \in q.edges \/ \E h \in N : h.kind = "edge.retracted" /\ h.subject = g.payload.id
    BY <2>1, <2>2
  <2>. HIDE DEF N
  <2>. QED  BY <2>2, <2>3, <2>4, <2>5, KeptOther
<1>5. CASE DropStep(F, p, G, q)
  <2>1. PICK f : /\ f.kind = "entity.retracted" /\ G = F \cup {f}
                 /\ Core(q) = Core(DeleteEntity(p, f.subject))
    BY <1>5 DEF DropStep
  <2>2. /\ q.entities = {e \in p.entities : e.id # f.subject}
        /\ q.ext = {r \in p.ext : r.entity # f.subject}
        /\ q.edges = {e \in p.edges : e.from # f.subject /\ e.to # f.subject}
    BY <2>1 DEF Core, DeleteEntity
  <2>. DEFINE N == {f}
  <2>3. G = F \cup N /\ \A g \in N : g.kind \notin {"entity.asserted", "edge.asserted"}
    BY <2>1
  <2>4. Lost(N, f.subject)
    BY <2>1 DEF Lost, Tombstone
  <2>5. Live(q) = Live(p) \ {f.subject}
    BY <2>2 DEF Live
  <2>. HIDE DEF N
  <2>6. \A g \in F : g.kind = "edge.asserted" /\ g.payload \in p.edges =>
          g.payload \in q.edges \/ Lost(N, g.payload.from) \/ Lost(N, g.payload.to)
    BY <2>2, <2>4
  <2>7. /\ \A i \in Live(p) : i \in Live(q) \/ Lost(N, i)
        /\ \A r \in p.ext : r.entity \in Live(q) => r \in q.ext
    BY <2>2, <2>4, <2>5
  <2>. QED  BY <2>3, <2>5, <2>6, <2>7, KeptOther
<1>6. CASE SameStep(F, p, G, q)
  <2>1. G = F /\ q.entities = p.entities /\ q.ext = p.ext /\ q.edges = p.edges
    BY <1>6 DEF SameStep, Core
  <2>2. Live(q) = Live(p)
    BY <2>1 DEF Live
  <2>. QED  BY <2>1, <2>2 DEF Kept, Stays, Holds, Joined
<1>. QED  BY <1>1, <1>2, <1>3, <1>4, <1>5, <1>6 DEF Step

\* So does any operation of the store.
LEMMA KeptOperates ==
  ASSUME IInv, NEW w \in Writers, Kept(facts, proj, w), NEW C \in [Writers -> SUBSET Candidate],
         \A c \in C[w] : c.policy # "force_new", Operates(C)
  PROVE  Kept(facts', proj', w)
<1>1. PICK F1, p1, F2, p2 : /\ Good(p1) /\ Step(facts, proj, F1, p1, C)
                            /\ Good(p2) /\ Step(F1, p1, F2, p2, C)
                            /\ Step(F2, p2, facts', proj', C)
  BY OperatesSteps
<1>2. Good(proj)
  BY Tables
<1>3. Kept(F1, p1, w)
  BY <1>1, <1>2, KeptStep
<1>4. Kept(F2, p2, w)
  BY <1>1, <1>3, KeptStep
<1>. QED  BY <1>1, <1>4, KeptStep

\* An operation adds facts, and what it asserts is an input of its caller.
LEMMA OperatesAdds ==
  ASSUME IInv, NEW C \in [Writers -> SUBSET Candidate], Operates(C)
  PROVE  /\ facts \subseteq facts'
         /\ \A f \in facts' \ facts : f.kind = "entity.asserted" =>
              \E w \in Writers : \E c \in C[w], id \in EntityIds : \E n : f = AssertOnto(w, c, id, n)
<1>. DEFINE New(f) == f.kind = "entity.asserted" =>
              \E w \in Writers : \E c \in C[w], id \in EntityIds : \E n : f = AssertOnto(w, c, id, n)
<1>1. ASSUME NEW F, NEW p, NEW G, NEW q, Step(F, p, G, q, C)
      PROVE  F \subseteq G /\ \A f \in G \ F : New(f)
  <2>1. CASE AssertStep(F, p, G, q, C)
    <3>1. PICK w \in Writers : \E c \in C[w], id \in EntityIds : \E n : G = F \cup {AssertOnto(w, c, id, n)}
      BY <2>1 DEF AssertStep
    <3>2. PICK c \in C[w], id \in EntityIds : \E n : G = F \cup {AssertOnto(w, c, id, n)}
      BY <3>1
    <3>. QED  BY <3>2
  <2>2. CASE ~AssertStep(F, p, G, q, C)
    BY <1>1, <2>2 DEF Step, MergeStep, LinkStep, UnlinkStep, DropStep, SameStep
  <2>. QED  BY <2>1, <2>2
<1>2. PICK F1, p1, F2, p2 : /\ Step(facts, proj, F1, p1, C) /\ Step(F1, p1, F2, p2, C)
                            /\ Step(F2, p2, facts', proj', C)
  BY OperatesSteps
<1>. HIDE DEF New
<1>3. facts \subseteq facts' /\ \A f \in facts' \ facts : New(f)
  BY <1>1, <1>2
<1>. QED  BY <1>3 DEF New

----------------------------------------------------------------------------
(* As long as nothing is retracted. *)

NoneRetracted(F) == \A f \in F : f.kind \notin {"entity.retracted", "edge.retracted"}

\* Where an id leads there was no merge from.
LEMMA LeadsToRoot ==
  ASSUME NEW F, NEW S, Chained(F, S), NEW i \in EntityIds,
         \A j \in EntityIds : \A f \in Into(F, j) : f.payload.keep \in EntityIds
  PROVE  Into(F, S[i]) = {}
<1>. SUFFICES ASSUME Into(F, S[i]) # {} PROVE FALSE
  OBVIOUS
<1>. DEFINE y == S[i]
            up(j) == (CHOOSE f \in Into(F, j) : TRUE).payload.keep
            V == [j \in EntityIds |-> IF S[j] = y THEN y + 1 ELSE S[j]]
<1>1. S = [j \in EntityIds |-> IF Into(F, j) = {} THEN j ELSE S[up(j)]] /\ S \in [EntityIds -> EntityIds]
  BY DEF Chained, Leads
<1>2. \A j \in EntityIds : Into(F, j) # {} => up(j) \in EntityIds
  <2>. SUFFICES ASSUME NEW j \in EntityIds, Into(F, j) # {} PROVE up(j) \in EntityIds
    OBVIOUS
  <2>1. (CHOOSE f \in Into(F, j) : TRUE) \in Into(F, j)
    OBVIOUS
  <2>. QED  BY <2>1
<1>. HIDE DEF up
<1>3. \A j \in EntityIds : S[j] = IF Into(F, j) = {} THEN j ELSE S[up(j)]
  BY <1>1
<1>5. \A j \in EntityIds : V[j] = IF S[j] = y THEN y + 1 ELSE S[j]
  OBVIOUS
<1>6. V = [j \in EntityIds |-> V[j]]
  OBVIOUS
<1>. HIDE DEF V
<1>4. y \in EntityIds /\ y + 1 # y /\ Into(F, y) # {}
  <2>1. y \in EntityIds /\ Into(F, y) # {}
    BY <1>1
  <2>. HIDE DEF y
  <2>2. y \in Nat
    BY <2>1, StoreAssumption
  <2>. QED  BY <2>1, <2>2
<1>. HIDE DEF y
<1>7. \A j \in EntityIds : V[j] = IF Into(F, j) = {} THEN j ELSE V[up(j)]
  <2>. SUFFICES ASSUME NEW j \in EntityIds PROVE V[j] = IF Into(F, j) = {} THEN j ELSE V[up(j)]
    OBVIOUS
  <2>1. CASE Into(F, j) = {}
    BY <1>3, <1>4, <1>5, <2>1
  <2>2. CASE Into(F, j) # {}
    BY <1>2, <1>3, <1>5, <2>2
  <2>. QED  BY <2>1, <2>2
<1>8. Leads(F, V)
  <2>1. V = [j \in EntityIds |-> IF Into(F, j) = {} THEN j ELSE V[up(j)]]
    BY <1>6, <1>7
  <2>. QED  BY <2>1 DEF Leads, up
<1>9. V = S
  BY <1>8 DEF Chained
<1>10. S[i] = y
  BY DEF y
<1>11. V[i] = y + 1
  BY <1>5, <1>10
<1>. QED  BY <1>4, <1>9, <1>10, <1>11

\* Then every node that was asserted lives, wherever it was merged.
LEMMA SurvivorLives ==
  ASSUME NEW F, NEW S, NEW p, Chained(F, S), Backed(F, S, p), Stays(F, p), NoneRetracted(F),
         NEW f \in Asserts(F)
  PROVE  S[f.subject] \in Live(p)
<1>1. PICK g \in Asserts(F) : g.subject = S[f.subject]
  BY DEF Backed
<1>2. Into(F, S[f.subject]) = {}
  BY LeadsToRoot DEF Backed
<1>3. ~ Lost(F, g.subject)
  BY <1>1, <1>2 DEF Lost, Tombstone, Into, NoneRetracted
<1>. QED  BY <1>1, <1>3 DEF Stays

\* A change leads ids that were led to one node to one node still.
LEMMA ChainStep ==
  ASSUME NEW F, NEW p, Good(p), NEW S, Chained(F, S), Backed(F, S, p), NEW C, NEW G, NEW q, Step(F, p, G, q, C)
  PROVE  \E T : /\ Chained(G, T)
                /\ \A i, j \in EntityIds : S[i] = S[j] => T[i] = T[j]
<1>1. CASE MergeStep(F, p, G, q)
  <2>1. PICK keep \in Live(p), D \in SUBSET Live(p) : \E M :
          /\ keep \notin D /\ G = F \cup M
          /\ \A f \in M : f.kind = "entity.merged" /\ f.payload.keep = keep /\ f.subject \in D \cup {keep}
          /\ \A d \in D : \E f \in M : f.subject = d
    BY <1>1 DEF MergeStep
  <2>2. Chained(G, Redirect(S, D, keep))
    BY <2>1, MergeChain
  <2>3. \A i, j \in EntityIds : S[i] = S[j] => Redirect(S, D, keep)[i] = Redirect(S, D, keep)[j]
    BY DEF Redirect
  <2>. QED  BY <2>2, <2>3
<1>2. CASE ~MergeStep(F, p, G, q)
  <2>1. \E N : G = F \cup N /\ \A f \in N : f.kind # "entity.merged"
    <3>1. ASSUME NEW f, f.kind # "entity.merged", G = F \cup {f}
          PROVE  \E N : G = F \cup N /\ \A g \in N : g.kind # "entity.merged"
      <4>. DEFINE N == {f}
      <4>1. G = F \cup N /\ \A g \in N : g.kind # "entity.merged"
        BY <3>1
      <4>. HIDE DEF N
      <4>. QED  BY <4>1
    <3>2. CASE AssertStep(F, p, G, q, C)
      <4>1. PICK w \in Writers : \E c \in C[w], id \in EntityIds : \E n : G = F \cup {AssertOnto(w, c, id, n)}
        BY <3>2 DEF AssertStep
      <4>2. PICK c \in C[w], id \in EntityIds : \E n : G = F \cup {AssertOnto(w, c, id, n)}
        BY <4>1
      <4>. QED  BY <3>1, <4>2, AssertOntoIs
    <3>3. CASE LinkStep(F, p, G, q) \/ UnlinkStep(F, p, G, q) \/ DropStep(F, p, G, q)
      <4>1. \E f : f.kind # "entity.merged" /\ G = F \cup {f}
        BY <3>3 DEF LinkStep, UnlinkStep, DropStep
      <4>. QED  BY <3>1, <4>1
    <3>4. CASE SameStep(F, p, G, q)
      <4>. DEFINE N == {}
      <4>1. G = F \cup N /\ \A g \in N : g.kind # "entity.merged"
        BY <3>4 DEF SameStep
      <4>. HIDE DEF N
      <4>. QED  BY <4>1
    <3>. QED  BY <1>2, <3>2, <3>3, <3>4 DEF Step
  <2>2. \A i \in EntityIds : Into(G, i) = Into(F, i)
    BY <2>1 DEF Into
  <2>. QED  BY <2>2, ChainSame
<1>. QED  BY <1>1, <1>2

\* Nodes of one space each were so before.
LEMMA ApartBefore ==
  ASSUME NEW F, NEW p, Good(p), NEW S, Chained(F, S), Backed(F, S, p), NEW C, NEW G, NEW q, Step(F, p, G, q, C),
         NEW T, Chained(G, T), OneSpace(G, T)
  PROVE  OneSpace(F, S)
<1>1. \A i, j \in EntityIds : S[i] = S[j] => T[i] = T[j]
  BY ChainStep, ChainedOnce
<1>2. Asserts(F) \subseteq Asserts(G)
  BY DEF Asserts, Step, MergeStep, AssertStep, LinkStep, UnlinkStep, DropStep, SameStep
<1>3. \A f \in Asserts(F) : f.subject \in EntityIds
  BY DEF Backed
<1>. QED  BY <1>1, <1>2, <1>3 DEF OneSpace

\* Every edge that was asserted joins the nodes its ends were merged into.
Linked(F, p) ==
  NoneRetracted(F) =>
    \E S : /\ Chained(F, S)
           /\ \A f \in F : f.kind = "edge.asserted" =>
                /\ f.payload.from \in EntityIds /\ f.payload.to \in EntityIds
                /\ \E e \in p.edges : /\ e.id = f.subject /\ e.predicate = f.payload.predicate
                                      /\ e.from = S[f.payload.from] /\ e.to = S[f.payload.to]

\* A merge points the edges to the node that is kept (mergeEntitiesTx).
LEMMA LinkedMerge ==
  ASSUME NEW F, NEW p, Good(p), NEW s, Keyed(F, p, s), Linked(F, p),
         NEW keep \in Live(p), NEW D \in SUBSET Live(p), keep \notin D,
         NEW M, \A f \in M : f.kind = "entity.merged" /\ f.payload.keep = keep /\ f.subject \in D \cup {keep},
         \A d \in D : \E f \in M : f.subject = d
  PROVE  Linked(F \cup M, MergeEntitiesTx(p, keep, D))
<1>. DEFINE G == F \cup M
            q == MergeEntitiesTx(p, keep, D)
<1>. SUFFICES ASSUME NoneRetracted(G)
              PROVE  \E T : /\ Chained(G, T)
                            /\ \A f \in G : f.kind = "edge.asserted" =>
                                 /\ f.payload.from \in EntityIds /\ f.payload.to \in EntityIds
                                 /\ \E e \in q.edges : /\ e.id = f.subject /\ e.predicate = f.payload.predicate
                                                       /\ e.from = T[f.payload.from] /\ e.to = T[f.payload.to]
  BY DEF Linked
<1>1. NoneRetracted(F)
  BY DEF NoneRetracted
<1>2. PICK S : /\ Chained(F, S)
               /\ \A f \in F : f.kind = "edge.asserted" =>
                    /\ f.payload.from \in EntityIds /\ f.payload.to \in EntityIds
                    /\ \E e \in p.edges : /\ e.id = f.subject /\ e.predicate = f.payload.predicate
                                          /\ e.from = S[f.payload.from] /\ e.to = S[f.payload.to]
  BY <1>1 DEF Linked
<1>3. Backed(F, S, p)
  BY <1>2, ChainedOnce DEF Keyed
<1>. DEFINE T == Redirect(S, D, keep)
<1>4. Chained(G, T)
  BY <1>2, <1>3, MergeChain
<1>5. \A i \in EntityIds : T[i] = IF S[i] \in D THEN keep ELSE S[i]
  BY DEF Redirect
<1>6. \A e \in p.edges : \E x \in q.edges :
        /\ x.id = e.id /\ x.predicate = e.predicate
        /\ x.from = (IF e.from \in D THEN keep ELSE e.from)
        /\ x.to = (IF e.to \in D THEN keep ELSE e.to)
  <2>. DEFINE point(i) == IF i \in D THEN keep ELSE i
              at(x) == [id |-> x.id, predicate |-> x.predicate, from |-> point(x.from),
                        to |-> point(x.to), space |-> x.space]
  <2>1. q.edges = {at(x) : x \in p.edges}
    BY DEF MergeEntitiesTx
  <2>2. \A x : /\ at(x).id = x.id /\ at(x).predicate = x.predicate
               /\ at(x).from = point(x.from) /\ at(x).to = point(x.to)
    OBVIOUS
  <2>. HIDE DEF at, q
  <2>. QED  BY <2>1, <2>2
<1>. HIDE DEF T, q
<1>7. \A f \in G : f.kind = "edge.asserted" => f \in F
  OBVIOUS
<1>. HIDE DEF G
<1>8. ASSUME NEW f \in G, f.kind = "edge.asserted"
      PROVE  /\ f.payload.from \in EntityIds /\ f.payload.to \in EntityIds
             /\ \E e \in q.edges : /\ e.id = f.subject /\ e.predicate = f.payload.predicate
                                   /\ e.from = T[f.payload.from] /\ e.to = T[f.payload.to]
  <2>1. /\ f.payload.from \in EntityIds /\ f.payload.to \in EntityIds
        /\ \E e \in p.edges : /\ e.id = f.subject /\ e.predicate = f.payload.predicate
                              /\ e.from = S[f.payload.from] /\ e.to = S[f.payload.to]
    BY <1>2, <1>7, <1>8
  <2>2. PICK e \in p.edges : /\ e.id = f.subject /\ e.predicate = f.payload.predicate
                             /\ e.from = S[f.payload.from] /\ e.to = S[f.payload.to]
    BY <2>1
  <2>3. PICK x \in q.edges : /\ x.id = e.id /\ x.predicate = e.predicate
                             /\ x.from = (IF e.from \in D THEN keep ELSE e.from)
                             /\ x.to = (IF e.to \in D THEN keep ELSE e.to)
    BY <1>6
  <2>. QED  BY <1>5, <2>1, <2>2, <2>3
<1>. QED  BY <1>4, <1>8

\* So does every change of an operation.
LEMMA LinkedStep ==
  ASSUME NEW F, NEW p, Good(p), NEW s, Keyed(F, p, s), Linked(F, p),
         NEW C, NEW G, NEW q, Step(F, p, G, q, C)
  PROVE  Linked(G, q)
<1>0. p \in Projection
  BY DEF Good
<1>1. CASE MergeStep(F, p, G, q)
  <2>1. PICK keep \in Live(p), D \in SUBSET Live(p) : \E M :
          /\ keep \notin D /\ G = F \cup M /\ q = MergeEntitiesTx(p, keep, D)
          /\ \A f \in M : f.kind = "entity.merged" /\ f.payload.keep = keep /\ f.subject \in D \cup {keep}
          /\ \A d \in D : \E f \in M : f.subject = d
    BY <1>1 DEF MergeStep
  <2>. QED  BY <2>1, LinkedMerge
<1>2. CASE UnlinkStep(F, p, G, q) \/ DropStep(F, p, G, q)
  <2>1. ~ NoneRetracted(G)
    BY <1>2 DEF UnlinkStep, DropStep, NoneRetracted
  <2>. QED  BY <2>1 DEF Linked
<1>3. CASE LinkStep(F, p, G, q) \/ AssertStep(F, p, G, q, C) \/ SameStep(F, p, G, q)
  <2>1. F \subseteq G
    BY <1>3 DEF LinkStep, AssertStep, SameStep
  <2>. SUFFICES ASSUME NoneRetracted(G)
                PROVE  \E T : /\ Chained(G, T)
                              /\ \A f \in G : f.kind = "edge.asserted" =>
                                   /\ f.payload.from \in EntityIds /\ f.payload.to \in EntityIds
                                   /\ \E e \in q.edges : /\ e.id = f.subject /\ e.predicate = f.payload.predicate
                                                         /\ e.from = T[f.payload.from] /\ e.to = T[f.payload.to]
    BY DEF Linked
  <2>2. NoneRetracted(F)
    BY <2>1 DEF NoneRetracted
  <2>3. PICK S : /\ Chained(F, S)
                 /\ \A f \in F : f.kind = "edge.asserted" =>
                      /\ f.payload.from \in EntityIds /\ f.payload.to \in EntityIds
                      /\ \E e \in p.edges : /\ e.id = f.subject /\ e.predicate = f.payload.predicate
                                            /\ e.from = S[f.payload.from] /\ e.to = S[f.payload.to]
    BY <2>2 DEF Linked
  <2>4. Backed(F, S, p)
    BY <2>3, ChainedOnce DEF Keyed
  <2>5. CASE LinkStep(F, p, G, q)
    <3>1. PICK e, f :
            /\ e \in EdgeRow
            /\ f.kind = "edge.asserted" /\ f.subject = e.id /\ f.payload = e
            /\ G = F \cup {f} /\ q = UpsertEdgeSnapshot(p, e)
            /\ {e.from, e.to} \subseteq Live(p)
            /\ ~ \E g \in F : g.kind = "edge.asserted" /\ g.subject = e.id
      BY <2>5 DEF LinkStep
    <3>2. q.edges = {x \in p.edges : x.id # e.id} \cup {e}
      BY <1>0, <3>1 DEF UpsertEdgeSnapshot, Projection
    <3>3. \A i \in EntityIds : Into(G, i) = Into(F, i)
      BY <3>1 DEF Into
    <3>4. Chained(G, S)
      BY <2>3, <3>3, ChainSame
    <3>5. e.from \in EntityIds /\ e.to \in EntityIds
      BY <3>1 DEF EdgeRow
    <3>6. S[e.from] = e.from /\ S[e.to] = e.to
      BY <2>3, <2>4, <3>1, <3>5, AtItself DEF Backed
    <3>7. ASSUME NEW g \in G, g.kind = "edge.asserted"
          PROVE  /\ g.payload.from \in EntityIds /\ g.payload.to \in EntityIds
                 /\ \E x \in q.edges : /\ x.id = g.subject /\ x.predicate = g.payload.predicate
                                       /\ x.from = S[g.payload.from] /\ x.to = S[g.payload.to]
      <4>1. CASE g = f
        BY <3>1, <3>2, <3>5, <3>6, <4>1
      <4>2. CASE g \in F
        <5>1. g.subject # e.id
          BY <3>1, <3>7, <4>2
        <5>. QED  BY <2>3, <3>2, <3>7, <4>2, <5>1
      <4>. QED  BY <3>1, <4>1, <4>2
    <3>. QED  BY <3>4, <3>7
  <2>6. CASE AssertStep(F, p, G, q, C)
    <3>1. PICK w \in Writers : \E c \in C[w], id \in EntityIds : \E n :
            G = F \cup {AssertOnto(w, c, id, n)} /\ q = UpsertEntitySnapshot(p, id, c)
      BY <2>6 DEF AssertStep
    <3>2. PICK c \in C[w], id \in EntityIds : \E n :
            G = F \cup {AssertOnto(w, c, id, n)} /\ q = UpsertEntitySnapshot(p, id, c)
      BY <3>1
    <3>3. PICK a : a.kind = "entity.asserted" /\ G = F \cup {a}
      BY <3>2, AssertOntoIs
    <3>4. q.edges = p.edges
      BY <3>2 DEF UpsertEntitySnapshot
    <3>5. \A i \in EntityIds : Into(G, i) = Into(F, i)
      BY <3>3 DEF Into
    <3>6. Chained(G, S)
      BY <2>3, <3>5, ChainSame
    <3>7. \A f \in G : f.kind = "edge.asserted" => f \in F
      BY <3>3
    <3>. QED  BY <2>3, <3>4, <3>6, <3>7
  <2>7. CASE SameStep(F, p, G, q)
    <3>1. G = F /\ q.edges = p.edges
      BY <2>7 DEF SameStep, Core
    <3>. QED  BY <2>3, <3>1
  <2>. QED  BY <1>3, <2>5, <2>6, <2>7
<1>. QED  BY <1>1, <1>2, <1>3 DEF Step

\* And any operation, which keeps the nodes apart only if they were (mergeEntitiesTx).
LEMMA LinkedOperates ==
  ASSUME IInv, KeyInv, Linked(facts, proj), NEW C \in [Writers -> SUBSET Candidate], Operates(C)
  PROVE  Linked(facts', proj') /\ (NodesInOneSpace' => NodesInOneSpace)
<1>1. PICK F1, p1, F2, p2 : /\ Good(p1) /\ Step(facts, proj, F1, p1, C)
                            /\ Good(p2) /\ Step(F1, p1, F2, p2, C)
                            /\ Step(F2, p2, facts', proj', C)
  BY OperatesSteps
<1>2. Good(proj)
  BY Tables
<1>3. PICK s : s \notin Spaces /\ Keyed(facts, proj, s)
  BY KeyedSome
<1>4. \A w \in Writers : \A c \in C[w] : c.space = s => c.policy # "force_new"
  BY <1>3 DEF Candidate
<1>5. Keyed(F1, p1, s) /\ Linked(F1, p1)
  BY <1>1, <1>2, <1>3, <1>4, KeyedStep, LinkedStep
<1>6. Keyed(F2, p2, s) /\ Linked(F2, p2)
  BY <1>1, <1>4, <1>5, KeyedStep, LinkedStep
<1>7. Linked(facts', proj') /\ Keyed(facts', proj', s)
  BY <1>1, <1>4, <1>6, KeyedStep, LinkedStep
<1>8. PICK S0 : Chained(facts, S0) /\ Backed(facts, S0, proj)
  BY <1>3 DEF Keyed
<1>9. PICK S1 : Chained(F1, S1) /\ Backed(F1, S1, p1)
  BY <1>5 DEF Keyed
<1>10. PICK S2 : Chained(F2, S2) /\ Backed(F2, S2, p2)
  BY <1>6 DEF Keyed
<1>11. PICK S3 : Chained(facts', S3) /\ Survivor' = S3
  <2>1. PICK S3 : Chained(facts', S3)
    BY <1>7 DEF Keyed
  <2>. QED  BY <2>1, SurvivorIs
<1>12. OneSpace(facts', S3) => OneSpace(facts, S0)
  BY <1>1, <1>2, <1>8, <1>9, <1>10, <1>11, ApartBefore
<1>13. Survivor = S0
  BY <1>8, SurvivorIs
<1>15. NodesInOneSpace' => OneSpace(facts', S3)
  BY <1>11 DEF NodesInOneSpace, OneSpace, Asserts
<1>16. OneSpace(facts, S0) => NodesInOneSpace
  BY <1>13 DEF NodesInOneSpace, OneSpace, Asserts
<1>. QED  BY <1>7, <1>12, <1>15, <1>16

============================================================================
