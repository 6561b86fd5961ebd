------------------------------- MODULE Store -------------------------------
(***************************************************************************)
(* The knowledge store of jumpdrive-index: an append-only log of facts and *)
(* the projection (entities, external ids, embeddings, edges, full-text    *)
(* rows) folded from it, as the SQLite adapter keeps them.  Every write of *)
(* that adapter is one transaction on one write connection, so an          *)
(* operation is one action; what interleaves is the order of the           *)
(* operations of several writers.                                          *)
(*                                                                         *)
(* A table is a set of rows.  A refused call (duplicate, unknown id,       *)
(* failed constraint) rolls its transaction back and changes nothing: it   *)
(* is a conjunct that disables the action.                                 *)
(***************************************************************************)
EXTENDS Integers, FiniteSets

CONSTANTS
  Writers,      \* WriterIDs; a principal that merges or retracts is one too
  Spaces,       \* SpaceIDs
  Keys,         \* external keys "scheme:value"
  EntityIds,    \* entity ids, as positions in (created_at, id) order
  EdgeIds,      \* edge ids
  Predicates,   \* predicates a caller may assert
  PropNames,    \* member names; "name" is the display name
  PropValues,   \* strings a member may be; of the other JSON values, null and objects
  JsonNull,     \* JSON null, as a member and as the text of a props column
  NilProps,     \* a Go RawMessage that was never set
  Vectors,      \* embeddings in one model space
  NoVector,     \* a candidate without an embedding
  Similarity,   \* cosine score of a pair of vectors
  AutoMerge,    \* Thresholds.AutoMerge
  Review,       \* Thresholds.Review
  NoKey,        \* an empty DedupeKey in an input
  CallerKeys,   \* DedupeKeys the callers pass
  Candidates,   \* the AppendEntityInputs that are tried
  EdgeInputs,   \* the AppendEdgeInputs that are tried
  MergeInputs,  \* the <<keep, drop>> pairs MergeEntities is tried on
  MaxFacts      \* bound: no write starts on a log of this length

VARIABLES
  facts,        \* the facts table
  proj,         \* the projection tables
  rebuilt       \* history: the projection a rebuild from facts would yield

vars == <<facts, proj, rebuilt>>

----------------------------------------------------------------------------
(* Rows and inputs. *)

Policies == {"auto", "external_only", "force_new"}

\* Bound: the objects inside props hold no objects.
Scalars == PropValues \cup {JsonNull}
Nested  == UNION {[S -> Scalars] : S \in SUBSET PropNames}
Objects == UNION {[S -> Scalars \cup Nested] : S \in SUBSET PropNames}
EmptyObject == [n \in {} |-> JsonNull]

Candidate == [space : Spaces, keys : SUBSET Keys,
              props : Objects \cup {NilProps, JsonNull}, vector : Vectors \cup {NoVector},
              policy : Policies, dedupe : CallerKeys \cup {NoKey}]
EdgeInput == [predicate : Predicates, from : EntityIds, to : EntityIds,
              space : Spaces, dedupe : CallerKeys \cup {NoKey}]

ASSUME StoreAssumption ==
  /\ EntityIds \subseteq Nat /\ IsFiniteSet(EntityIds)
  /\ "name" \in PropNames
  /\ NilProps \notin Objects /\ JsonNull \notin Objects /\ NilProps # JsonNull
  /\ JsonNull \notin PropValues /\ Scalars \cap Nested = {}
  /\ NoVector \notin Vectors /\ NoKey \notin CallerKeys
  /\ Similarity \in [Vectors \X Vectors -> Nat]
  /\ AutoMerge \in Nat /\ Review \in Nat /\ Review <= AutoMerge
  /\ Candidates \subseteq Candidate
  /\ EdgeInputs \subseteq EdgeInput
  /\ MergeInputs \subseteq EntityIds \X EntityIds
  /\ MaxFacts \in Nat

\* DEFECT: the embedding carries a json:"-" tag.
MarshalWithoutEmbedding(c) ==
  [space |-> c.space, keys |-> c.keys, vector |-> NoVector,
   props |-> IF c.props = NilProps THEN JsonNull ELSE c.props]

\* DEFECT: a nil RawMessage is stored as it is.
MarshalNil(c) == [space |-> c.space, keys |-> c.keys, vector |-> c.vector, props |-> c.props]

\* What json.Marshal stores of a candidate: a nil RawMessage becomes null.
Marshal(c) == [space |-> c.space, keys |-> c.keys, vector |-> c.vector,
               props |-> IF c.props = NilProps THEN JsonNull ELSE c.props]

Snapshot == [space : Spaces, keys : SUBSET Keys,
             props : Objects \cup {JsonNull}, vector : Vectors \cup {NoVector}]

\* Of an edge its identity and its space; its props are not modelled.
EdgeRow == [id : EdgeIds, predicate : Predicates \cup {"sameAs?"},
            from : EntityIds, to : EntityIds, space : Spaces]

Projection ==
  [entities : SUBSET [id : EntityIds, space : Spaces],
   ext      : SUBSET [entity : EntityIds, key : Keys, space : Spaces],
   emb      : SUBSET [entity : EntityIds, vector : Vectors],
   edges    : SUBSET EdgeRow,
   props    : SUBSET [entity : EntityIds, props : Objects \cup {JsonNull}],
   fts      : SUBSET [entity : EntityIds, text : SUBSET PropValues]]

EmptyProjection == [entities |-> {}, ext |-> {}, emb |-> {}, edges |-> {},
                    props |-> {}, fts |-> {}]

Live(p) == {e.id : e \in p.entities}

----------------------------------------------------------------------------
(* Folding one change into the projection tables. *)

\* RFC 7396: a null in the patch removes the member, if there is one.
Left(target, patch) ==
  {n \in DOMAIN patch : patch[n] # JsonNull} \cup (DOMAIN target \ DOMAIN patch)

PatchNested(target, patch) ==
  [n \in Left(target, patch) |-> IF n \in DOMAIN patch THEN patch[n] ELSE target[n]]

\* A member that the patch has: an object is merged into the object that is there.
PatchMember(member, patch) ==
  IF patch \in PropValues THEN patch
  ELSE PatchNested(IF member \in Scalars THEN EmptyObject ELSE member, patch)

PatchObject(target, patch) ==
  LET member(n) == IF n \in DOMAIN target THEN target[n] ELSE JsonNull
  IN [n \in Left(target, patch) |->
        IF n \in DOMAIN patch THEN PatchMember(member(n), patch[n]) ELSE target[n]]

\* DEFECT: the arguments of json_patch are swapped, so the incoming props win.
JsonPatchIncomingWins(target, patch) ==
  IF target = JsonNull THEN JsonNull
  ELSE PatchObject(IF patch = JsonNull THEN EmptyObject ELSE patch, target)

\* json_patch(target, patch): members of the patch win; a patch that is not an
\* object replaces the target, a target that is not an object counts as {}.
JsonPatch(target, patch) ==
  IF patch = JsonNull THEN JsonNull
  ELSE PatchObject(IF target = JsonNull THEN EmptyObject ELSE target, patch)

\* The props column of id after candidate c was upserted onto it.
PatchedProps(p, id, c) ==
  IF id \in Live(p)
  THEN {[entity |-> id, props |-> IF c.props = NilProps THEN r.props
                                  ELSE JsonPatch(c.props, r.props)] :
          r \in {q \in p.props : q.entity = id}}
  ELSE {[entity |-> id, props |-> IF c.props = NilProps THEN EmptyObject
                                  ELSE c.props]}

\* extractSearchText: the members that are strings, not those inside of others.
SearchText(props) ==
  IF props = JsonNull THEN {} ELSE {props[n] : n \in DOMAIN props} \cap PropValues

\* DEFECT: insert the new full-text row and leave the old one.
SyncEntityFTSWithoutDelete(fts, id, props) ==
  fts \cup {[entity |-> id, text |-> SearchText(r.props)] : r \in props}

\* syncEntityFTS: delete the row of id, index the props it has now.
SyncEntityFTS(fts, id, props) ==
  {t \in fts : t.entity # id}
    \cup {[entity |-> id, text |-> SearchText(r.props)] : r \in props}

\* INSERT OR IGNORE against UNIQUE(space, key) and PRIMARY KEY(entity_id, key).
ClaimableKeys(p, id, c) ==
  {k \in c.keys : ~ \E r \in p.ext : r.key = k /\ (r.space = c.space \/ r.entity = id)}

UpsertEntitySnapshot(p, id, c) ==
  LET others(rows) == {r \in rows : r.entity # id}
      props == PatchedProps(p, id, c)
  IN [entities |-> IF id \in Live(p) THEN p.entities
                   ELSE p.entities \cup {[id |-> id, space |-> c.space]},
      ext      |-> p.ext \cup {[entity |-> id, key |-> k, space |-> c.space] :
                                  k \in ClaimableKeys(p, id, c)},
      emb      |-> IF c.vector = NoVector THEN p.emb
                   ELSE others(p.emb) \cup {[entity |-> id, vector |-> c.vector]},
      edges    |-> p.edges,
      props    |-> others(p.props) \cup props,
      fts      |-> SyncEntityFTS(p.fts, id, props)]

\* The row of an edge but for its props: unset ones are NULL here, and the text null when
\* they come from the fact.
UpsertEdgeSnapshot(p, edge) ==
  [p EXCEPT !.edges = {e \in @ : e.id # edge.id} \cup {edge}]

\* A row of keep, or of a drop merged before r's, makes row r a duplicate.
Precedes(q, r, keep, drops) ==
  q.entity = keep \/ (q.entity \in drops /\ q.entity < r.entity)

\* DEFECT: copy with INSERT OR IGNORE, then let the delete of drop cascade: the
\* copy collides with the row of drop on UNIQUE(space, key), so nothing moves.
MovedKeysByCopy(ext, keep, drops) == {}

\* The external-id rows of drops that move to keep; keep's own keys are deleted
\* from drops first, whatever their space.
MovedKeys(ext, keep, drops) ==
  {r \in ext : /\ r.entity \in drops
               /\ ~ \E q \in ext : q.key = r.key /\ Precedes(q, r, keep, drops)}

\* DEFECT: reassign every row, without deleting those keep already has.
MovedEmbeddingsWithDuplicates(emb, keep, drops) == {r \in emb : r.entity \in drops}

\* The embeddings of drops that move to keep, per (model, field): one slot here.
MovedEmbeddings(emb, keep, drops) ==
  {r \in emb : /\ r.entity \in drops
               /\ ~ \E q \in emb : Precedes(q, r, keep, drops)}

\* mergeEntitiesTx for each of drops in turn, oldest first.
MergeEntitiesTx(p, keep, drops) ==
  LET kept(rows) == {r \in rows : r.entity \notin drops}
      onto(rows) == {[r EXCEPT !.entity = keep] : r \in rows}
      point(id)  == IF id \in drops THEN keep ELSE id
  IN [entities |-> {e \in p.entities : e.id \notin drops},
      ext      |-> kept(p.ext) \cup onto(MovedKeys(p.ext, keep, drops)),
      emb      |-> kept(p.emb) \cup onto(MovedEmbeddings(p.emb, keep, drops)),
      edges    |-> {[id |-> e.id, predicate |-> e.predicate, from |-> point(e.from),
                     to |-> point(e.to), space |-> e.space] : e \in p.edges},
      props    |-> kept(p.props),
      fts      |-> kept(p.fts)]

\* DEFECT: the connection does not enforce foreign keys, so nothing cascades.
DeleteEntityWithoutCascade(p, id) ==
  [p EXCEPT !.entities = {e \in @ : e.id # id},
            !.props = {r \in @ : r.entity # id}]

\* DELETE FROM entities WHERE id=?, with ON DELETE CASCADE on its children; the
\* full-text table is virtual and has no foreign key.
DeleteEntity(p, id) ==
  LET others(rows) == {r \in rows : r.entity # id}
  IN [entities |-> {e \in p.entities : e.id # id},
      ext      |-> others(p.ext),
      emb      |-> others(p.emb),
      edges    |-> {e \in p.edges : e.from # id /\ e.to # id},
      props    |-> others(p.props),
      fts      |-> p.fts]

DeleteEdge(p, id) == [p EXCEPT !.edges = {e \in @ : e.id # id}]

\* DEFECT: the merged fact is folded the wrong way round.
FoldMergedSwapped(p, m) == MergeEntitiesTx(p, m.drop, {m.keep} \ {m.drop})

\* mergeEntitiesTx of one pair; merging a node into itself is a no-op.
FoldMerged(p, m) == MergeEntitiesTx(p, m.keep, {m.drop} \ {m.keep})

FoldFact(p, f) ==
  CASE f.kind = "entity.asserted"  -> UpsertEntitySnapshot(p, f.subject, f.payload)
    [] f.kind = "entity.retracted" -> DeleteEntity(p, f.subject)
    [] f.kind = "edge.asserted"    -> UpsertEdgeSnapshot(p, f.payload)
    [] f.kind = "edge.retracted"   -> DeleteEdge(p, f.subject)
    [] f.kind = "entity.merged"    -> FoldMerged(p, f.payload)

----------------------------------------------------------------------------
(* The log. *)

Head == Cardinality(facts)

AssertKeys == ({"caller"} \X CallerKeys) \cup ({"random"} \X Nat)
                \cup ({"ids"} \X SUBSET Keys) \cup ({"name"} \X PropValues)
DedupeKey ==
  AssertKeys \cup ({"edge"} \X Spaces \X Predicates \X EntityIds \X EntityIds)
    \cup ({"sameas", "mergeof"} \X AssertKeys \X EntityIds)
    \cup ({"merge"} \X EntityIds \X EntityIds)
    \cup ({"retract"} \X EntityIds) \cup ({"edge-retract"} \X EdgeIds)

FactOf(kind, subjects, payloads) ==
  [seq : Nat, kind : {kind}, subject : subjects, writer : Writers,
   key : DedupeKey, payload : payloads]

Fact == FactOf("entity.asserted", EntityIds, Snapshot)
          \cup FactOf("entity.retracted", EntityIds, {{}})
          \cup FactOf("edge.asserted", EdgeIds, EdgeRow)
          \cup FactOf("edge.retracted", EdgeIds, {{}})
          \cup FactOf("entity.merged", EntityIds, [keep : EntityIds, drop : EntityIds])

NewFact(seq, kind, subject, w, key, payload) ==
  [seq |-> seq, kind |-> kind, subject |-> subject, writer |-> w,
   key |-> key, payload |-> payload]

\* insertFact and Commit: UNIQUE(writer, dedupe_key) holds over all kinds, so a
\* taken pair rolls the transaction back.
Commit(new, p, r) ==
  /\ \A f \in new, g \in facts : ~ (f.writer = g.writer /\ f.key = g.key)
  /\ facts' = facts \cup new
  /\ proj' = p
  /\ rebuilt' = r

\* newID: an id no fact mentions.  Any of them: created_at is read before the
\* write transaction begins, so the order of ids is not the order of commits.
FreshEntity(id) == ~ \E f \in facts : f.kind = "entity.asserted" /\ f.subject = id
FreshEdge(id)   == ~ \E f \in facts : f.kind = "edge.asserted" /\ f.subject = id

----------------------------------------------------------------------------
(* Resolve-before-create. *)

\* extractName: a name that is not a string is none.
Nameless(props) ==
  props \in {NilProps, JsonNull} \/ "name" \notin DOMAIN props \/ props["name"] \notin PropValues

RandomKeyNeeded(c) == c.keys = {} /\ Nameless(c.props)

DeriveDedupeKey(c) == IF c.keys # {} THEN <<"ids", c.keys>> ELSE <<"name", c.props["name"]>>

EntityDedupeKey(c) ==
  IF c.dedupe # NoKey THEN <<"caller", c.dedupe>>
  ELSE IF RandomKeyNeeded(c) THEN <<"random", Head + 1>> ELSE DeriveDedupeKey(c)

\* The earlier assertions that make this call a duplicate.
PriorAssertions(w, c) ==
  {f \in facts : f.kind = "entity.asserted" /\ f.writer = w /\ f.key = EntityDedupeKey(c)}

\* DEFECT: the lookup by external id is not scoped to a space.
ExternalHitsAnywhere(p, c) == {r.entity : r \in {q \in p.ext : q.key \in c.keys}}

\* externalHitsTx: scoped to the target space of the write.
ExternalHits(p, c) ==
  {r.entity : r \in {q \in p.ext : q.space = c.space /\ q.key \in c.keys}}

\* knnByModel, unfiltered, and maxScore: the best-scoring embeddings.  Ids break
\* a tie, and ids are random, so any of the best may win.
Neighbors(p, c) ==
  IF c.policy = "auto" /\ c.vector # NoVector THEN p.emb ELSE {}
Nearest(p, c) ==
  {r \in Neighbors(p, c) : \A q \in Neighbors(p, c) :
      Similarity[c.vector, q.vector] <= Similarity[c.vector, r.vector]}

Oldest(ids) == CHOOSE i \in ids : \A j \in ids : i <= j

\* domain.Resolve: external ids first unless force_new, then the vector bands.
Resolve(p, c) ==
  LET hits   == ExternalHits(p, c)
      insert == [action |-> "insert_new"]
      band(r) == LET score == Similarity[c.vector, r.vector] IN
        IF score >= AutoMerge THEN [action |-> "attach", target |-> r.entity]
        ELSE IF score >= Review THEN [action |-> "insert_flagged", target |-> r.entity]
        ELSE insert
  IN IF c.policy # "force_new" /\ hits # {}
     THEN {IF Cardinality(hits) = 1
           THEN [action |-> "attach", target |-> Oldest(hits)]
           ELSE [action |-> "merge", target |-> Oldest(hits), drops |-> hits \ {Oldest(hits)}]}
     ELSE IF Nearest(p, c) # {} THEN {band(r) : r \in Nearest(p, c)}
     ELSE {insert}

----------------------------------------------------------------------------
(* The operations of the store. *)

Init == facts = {} /\ proj = EmptyProjection /\ rebuilt = EmptyProjection

AssertOnto(w, c, id, seq) ==
  NewFact(seq, "entity.asserted", id, w, EntityDedupeKey(c), Marshal(c))

InsertNew(w, c) ==
  \E id \in EntityIds :
    /\ FreshEntity(id)
    /\ Commit({AssertOnto(w, c, id, Head + 1)},
              UpsertEntitySnapshot(proj, id, c),
              UpsertEntitySnapshot(rebuilt, id, Marshal(c)))

\* A review-band neighbour: create the node and an inferred sameAs? edge to it.
InsertFlagged(w, c, target) ==
  \E id \in EntityIds, e \in EdgeIds :
    LET edge == [id |-> e, predicate |-> "sameAs?", from |-> id, to |-> target,
                 space |-> c.space]
        flag == NewFact(Head + 2, "edge.asserted", e, w,
                        <<"sameas", EntityDedupeKey(c), target>>, edge)
    IN /\ FreshEntity(id) /\ FreshEdge(e)
       /\ Commit({AssertOnto(w, c, id, Head + 1), flag},
                 UpsertEdgeSnapshot(UpsertEntitySnapshot(proj, id, c), edge),
                 UpsertEdgeSnapshot(UpsertEntitySnapshot(rebuilt, id, Marshal(c)), edge))

Attach(w, c, target) ==
  Commit({AssertOnto(w, c, target, Head + 1)},
         UpsertEntitySnapshot(proj, target, c),
         UpsertEntitySnapshot(rebuilt, target, Marshal(c)))

\* appendMergeFact for each dropped node, oldest first.
MergeFacts(w, c, keep, drops) ==
  LET rank(d) == Cardinality({x \in drops : x <= d})
  IN {NewFact(Head + rank(d), "entity.merged", d, w, <<"mergeof", EntityDedupeKey(c), d>>,
              [keep |-> keep, drop |-> d]) : d \in drops}

\* Fold the younger colliding nodes into the oldest, then attach to it.
MergeThenAttach(w, c, keep, drops) ==
  Commit(MergeFacts(w, c, keep, drops)
           \cup {AssertOnto(w, c, keep, Head + Cardinality(drops) + 1)},
         UpsertEntitySnapshot(MergeEntitiesTx(proj, keep, drops), keep, c),
         UpsertEntitySnapshot(MergeEntitiesTx(rebuilt, keep, drops), keep, Marshal(c)))

AppendEntityFact(w, c) ==
  /\ Head < MaxFacts
  /\ PriorAssertions(w, c) = {}
  /\ \E d \in Resolve(proj, c) :
       \/ d.action = "insert_new"     /\ InsertNew(w, c)
       \/ d.action = "insert_flagged" /\ InsertFlagged(w, c, d.target)
       \/ d.action = "attach"         /\ Attach(w, c, d.target)
       \/ d.action = "merge"          /\ MergeThenAttach(w, c, d.target, d.drops)

\* store.DefaultEdgeDedupeKey, unless the caller passed a key.
EdgeDedupeKey(in) ==
  IF in.dedupe # NoKey THEN <<"caller", in.dedupe>>
  ELSE <<"edge", in.space, in.predicate, in.from, in.to>>

AppendEdgeFact(w, in) ==
  \E e \in EdgeIds :
    LET edge == [id |-> e, predicate |-> in.predicate, from |-> in.from, to |-> in.to,
                 space |-> in.space]
    IN /\ Head < MaxFacts
       /\ FreshEdge(e)
       /\ {in.from, in.to} \subseteq Live(proj)      \* foreign keys of edges
       /\ Commit({NewFact(Head + 1, "edge.asserted", e, w, EdgeDedupeKey(in), edge)},
                 UpsertEdgeSnapshot(proj, edge), UpsertEdgeSnapshot(rebuilt, edge))

MergeEntities(w, keep, drop) ==
  LET m == [keep |-> keep, drop |-> drop]
  IN /\ Head < MaxFacts
     /\ {keep, drop} \subseteq Live(proj)
     /\ Commit({NewFact(Head + 1, "entity.merged", drop, w, <<"merge", keep, drop>>, m)},
               FoldMerged(proj, m), FoldMerged(rebuilt, m))

\* No check that the entity is there: the tombstone is recorded either way.
RetractEntity(w, id) ==
  /\ Head < MaxFacts
  /\ Commit({NewFact(Head + 1, "entity.retracted", id, w, <<"retract", id>>, {})},
            [DeleteEntity(proj, id) EXCEPT !.fts = {r \in @ : r.entity # id}],
            DeleteEntity(rebuilt, id))

RetractEdge(w, id) ==
  /\ Head < MaxFacts
  /\ Commit({NewFact(Head + 1, "edge.retracted", id, w, <<"edge-retract", id>>, {})},
            DeleteEdge(proj, id), DeleteEdge(rebuilt, id))

\* One transaction: clear the tables, fold the log in seq order.
RebuildProjection == proj' = rebuilt /\ UNCHANGED <<facts, rebuilt>>

Next ==
  \/ \E w \in Writers, c \in Candidates : AppendEntityFact(w, c)
  \/ \E w \in Writers, in \in EdgeInputs : AppendEdgeFact(w, in)
  \/ \E w \in Writers, m \in MergeInputs : MergeEntities(w, m[1], m[2])
  \/ \E w \in Writers, id \in EntityIds : ~FreshEntity(id) /\ RetractEntity(w, id)
  \/ \E w \in Writers, id \in EdgeIds : ~FreshEdge(id) /\ RetractEdge(w, id)
  \/ RebuildProjection

Spec == Init /\ [][Next]_vars

----------------------------------------------------------------------------
(* Properties. *)

\* Every variable holds rows of its table (one type invariant per module).
TypeOK == facts \subseteq Fact /\ proj \in Projection /\ rebuilt \in Projection

\* Rows of the children tables belong to entities that exist.
References(p) ==
  /\ \A r \in p.ext \cup p.emb \cup p.props : r.entity \in Live(p)
  /\ \A e \in p.edges : {e.from, e.to} \subseteq Live(p)

\* The primary keys and UNIQUE(space, key).
Uniqueness(p) ==
  /\ \A d, e \in p.entities : d.id = e.id => d = e
  /\ \A q, r \in p.ext : (q.key = r.key /\ (q.space = r.space \/ q.entity = r.entity)) => q = r
  /\ \A q, r \in p.emb : q.entity = r.entity => q = r
  /\ \A d, e \in p.edges : d.id = e.id => d = e

\* No constraint of the schema is broken by any statement of any operation (the
\* merge reassigns rows with plain UPDATEs, which SQLite would refuse), neither
\* online (sqlite/entities.go mergeEntitiesTx) nor during a rebuild.
Consistent == \A p \in {proj, rebuilt} : References(p) /\ Uniqueness(p)

\* The tables RebuildProjection folds from the log.
Fold ==
  LET at(n) == CHOOSE f \in facts : f.seq = n
      F[n \in 0 .. Head] == IF n = 0 THEN EmptyProjection ELSE FoldFact(F[n - 1], at(n))
  IN F[Head]

\* The history variable is the fold: seq is gapless, and folding the merged facts
\* one by one equals the merge the online write did (sqlite.go RebuildProjection).
RebuiltIsFold == rebuilt = Fold

\* "It shares the upserts with the online write path, so the two cannot diverge":
\* a rebuild gives back every entity, key and embedding and, of every edge, its id, ends,
\* predicate and space (sqlite.go:176-180).  Of props it does not: see run nilprops.
Core(p) == <<p.entities, p.ext, p.emb, p.edges>>
RebuildAgrees == Core(proj) = Core(rebuilt)

\* The ids the log says are gone: retracted, or merged into another node.
Tombstone(f) ==
  f.kind = "entity.retracted" \/ (f.kind = "entity.merged" /\ f.payload.keep # f.subject)
Gone == {f.subject : f \in {g \in facts : Tombstone(g)}}

\* A retracted or merged-away id never comes back: no later resolve, attach, edge
\* or rebuild revives it (sqlite/entities.go RetractEntity, mergeEntitiesTx).
GoneStaysGone == Gone \cap (Live(proj) \cup Live(rebuilt)) = {}

\* Where the node that id named lives after the merges of the log.
Survivor ==
  LET into(i) == {f \in facts : f.kind = "entity.merged" /\ f.subject = i /\ f.payload.keep # i}
      S[i \in EntityIds] ==
        IF into(i) = {} THEN i ELSE S[(CHOOSE f \in into(i) : TRUE).payload.keep]
  IN S

\* "No key is ever lost" (sqlite/entities.go:323-329): each key a node was asserted
\* with resolves to that node, through every merge, for as long as it lives.
KeysFollowNode ==
  \A f \in {g \in facts : g.kind = "entity.asserted"} : \A k \in f.payload.keys :
    LET node == Survivor[f.subject] IN
    node \in Live(proj) =>
      [entity |-> node, key |-> k, space |-> f.payload.space] \in proj.ext

SpaceOf(p, id) == (CHOOSE e \in p.entities : e.id = id).space

\* The space of an external-id row "is denormalised from the parent"
\* (sqlite/entities.go:230): a key is held in the space of its node, so that a
\* lookup scoped to one space never returns a node of another.
KeysInSpaceOfNode == \A r \in proj.ext : r.space = SpaceOf(proj, r.entity)

\* The full-text row of a live node indexes the props it has now, after any
\* sequence of attaches and merges (sqlite/fts.go syncEntityFTS).
SearchMatchesProps ==
  \A r \in proj.props : \E t \in proj.fts :
     /\ t = [entity |-> r.entity, text |-> SearchText(r.props)]
     /\ \A u \in proj.fts : u.entity = r.entity => u = t

\* "Existing values WIN": no write and no rebuild changes or removes a value in the props
\* of a node that lives on, at the top or inside an object, which a later one with the
\* same name is merged into.  Null is no value: a member that is null does not survive
\* the next json_patch (sqlite/entities.go:213-217, sqlite.go:176-180).
Values(props) ==
  IF props = JsonNull THEN {}
  ELSE {<<n, props[n]>> : n \in {m \in DOMAIN props : props[m] \in PropValues}}
         \cup UNION {{<<n, m, props[n][m]>> : m \in {k \in DOMAIN props[n] : props[n][k] # JsonNull}} :
                       n \in {m \in DOMAIN props : props[m] \notin Scalars}}
PropsOnlyGrow ==
  [][\A q \in proj.props, r \in proj'.props :
       q.entity = r.entity => Values(q.props) \subseteq Values(r.props)]_vars

\* A duplicate is answered with the node of the earlier assertion: a node of the
\* space the caller writes to (0004_per_space_external_ids.sql:5-6).
DuplicateStaysInSpace ==
  \A w \in Writers, c \in Candidates : \A f \in PriorAssertions(w, c) :
    f.subject \in Live(proj) => SpaceOf(proj, f.subject) = c.space

============================================================================
