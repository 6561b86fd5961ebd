---------------------------- MODULE IngestProofs ----------------------------
(* Proofs about Ingest, for every value of its constants. *)
EXTENDS Ingest, StoreProofs

----------------------------------------------------------------------------
(* The invariant. *)

\* A run stands at a step of the plan while it runs, at the first before it began.
Placed ==
  \A r \in Runs : /\ runs[r].pc = "idle" => runs[r].next = 1
                  /\ runs[r].pc = "running" => runs[r].next \in Steps

\* A run that is past an upsert, and did not skip it, knows a node of the part.
Upserted ==
  \A r \in Runs, part \in Parts, i \in Steps :
    Plan[i] = <<"upsert", part>> /\ i < runs[r].next /\ i \notin runs[r].skip
      => runs[r].ids[part] \in EntityIds

\* The assertions of the ingest, by the key they were recorded under.
AssertedAs(key) ==
  {f \in facts : f.kind = "entity.asserted" /\ f.writer = IngestWriter /\ f.key = key}

\* A pair of writer and key answers with one node.
OneNode ==
  \A f, g \in facts :
    f.kind = "entity.asserted" /\ f.writer = IngestWriter
      /\ g.kind = "entity.asserted" /\ g.writer = IngestWriter /\ f.key = g.key
      => f = g

\* The node a run knows of a part is the one the part's anchor was recorded with.
Recorded ==
  \A r \in Runs, part \in Parts : runs[r].ids[part] # NoEntity =>
    \E f \in AssertedAs(<<"ids", {Anchor[part]}>>) : f.subject = runs[r].ids[part]

RunInv == runs \in [Runs -> Run] /\ Placed /\ Upserted
IngestInv == IInv /\ RunInv /\ OneNode /\ Recorded

----------------------------------------------------------------------------
(* The control of a run. *)

\* The first of a non-empty set of steps is one of them.
LEMMA OldestStep ==
  ASSUME NEW S \in SUBSET Steps, S # {}
  PROVE  Oldest(S) \in S /\ \A j \in S : Oldest(S) <= j
<1>1. S \subseteq Nat
  BY DEF Steps
<1>2. \E i \in S : \A j \in S : <<j, i>> \notin OpToRel(<, Nat)
  BY <1>1, WFMin, NatLessThanWellFounded
<1>3. \A i, j \in Nat : <<j, i>> \notin OpToRel(<, Nat) => i <= j
  BY DEF OpToRel
<1>4. \E i \in S : \A j \in S : i <= j
  BY <1>1, <1>2, <1>3
<1>. QED  BY <1>4 DEF Oldest

\* A run goes on to a later step, or ends; it passes over skipped steps only.
LEMMA OnwardIs ==
  ASSUME NEW run \in Run, run.next \in Steps, NEW skip \in SUBSET Steps
  PROVE  LET on == Onward(run, skip) IN
         /\ on \in Run /\ on.ids = run.ids /\ on.skip = skip
         /\ on.pc \in {"running", "done"}
         /\ on.pc = "running" => on.next \in Steps
         /\ \A i \in Steps : i < on.next /\ i \notin skip => i <= run.next
<1> DEFINE left == {i \in Steps : i > run.next /\ i \notin skip}
           on == Onward(run, skip)
           next == IF left = {} THEN 16 ELSE Oldest(left)
           pc == IF left = {} THEN "done" ELSE "running"
<1>1. left \in SUBSET Steps
  OBVIOUS
<1>2. left # {} => next \in left /\ \A j \in left : next <= j
  BY <1>1, OldestStep
<1>3. next \in Steps \cup {16} /\ (left # {} => next \in Steps)
  BY <1>2
<1>4. \A i \in Steps : i < next /\ i \notin skip => i <= run.next
  <2>. SUFFICES ASSUME NEW i \in Steps, i < next, i \notin skip, ~ (i <= run.next) PROVE FALSE
    OBVIOUS
  <2>1. i \in left
    BY DEF Steps
  <2>2. next <= i
    BY <1>2, <2>1
  <2>. QED  BY <1>3, <2>2 DEF Steps
<1>5. on = [[[run EXCEPT !.next = next] EXCEPT !.skip = skip] EXCEPT !.pc = pc]
  BY DEF Onward
<1>. HIDE DEF next
<1>6. /\ on.next = next /\ on.skip = skip /\ on.pc = pc /\ on.ids = run.ids
      /\ on \in Run
  BY <1>3, <1>5 DEF Run
<1>. QED  BY <1>3, <1>4, <1>6

\* A run goes on from a step that found no node (Ingest).
LEMMA ContinueKeeps ==
  ASSUME RunInv, NEW r \in Runs, runs[r].pc = "running",
         NEW skip \in SUBSET Steps, runs[r].skip \subseteq skip,
         \A part \in Parts : Plan[runs[r].next] # <<"upsert", part>>,
         runs' = [runs EXCEPT ![r] = Onward(runs[r], skip)]
  PROVE  RunInv' /\ \A q \in Runs : runs'[q].ids = runs[q].ids
<1>1. runs[r] \in Run /\ runs[r].next \in Steps
  BY DEF RunInv, Placed
<1> DEFINE on == Onward(runs[r], skip)
<1>2. /\ on \in Run /\ on.ids = runs[r].ids /\ on.skip = skip
      /\ on.pc \in {"running", "done"}
      /\ on.pc = "running" => on.next \in Steps
      /\ \A i \in Steps : i < on.next /\ i \notin skip => i <= runs[r].next
  BY <1>1, OnwardIs
<1>3. runs' = [runs EXCEPT ![r] = on]
  OBVIOUS
<1>. HIDE DEF on
<1>4. runs' \in [Runs -> Run]
  BY <1>2, <1>3 DEF RunInv
<1>5. \A q \in Runs : runs'[q] = IF q = r THEN on ELSE runs[q]
  BY <1>3 DEF RunInv
<1>6. Placed'
  BY <1>2, <1>5 DEF RunInv, Placed
<1>7. Upserted'
  <2>. SUFFICES ASSUME NEW q \in Runs, NEW part \in Parts, NEW i \in Steps,
                       Plan[i] = <<"upsert", part>>, i < runs'[q].next, i \notin runs'[q].skip
                PROVE  runs'[q].ids[part] \in EntityIds
    BY DEF Upserted
  <2>1. CASE q # r
    BY <1>5, <2>1 DEF RunInv, Upserted
  <2>2. CASE q = r
    <3>1. i <= runs[r].next /\ i \notin runs[r].skip
      BY <1>2, <1>5, <2>2
    <3>2. i # runs[r].next
      OBVIOUS
    <3>3. i < runs[r].next
      BY <1>1, <3>1, <3>2 DEF Steps
    <3>. QED  BY <1>2, <1>5, <2>2, <3>1, <3>3 DEF RunInv, Upserted
  <2>. QED  BY <2>1, <2>2
<1>8. \A q \in Runs : runs'[q].ids = runs[q].ids
  BY <1>2, <1>5
<1>. QED  BY <1>4, <1>6, <1>7, <1>8 DEF RunInv

\* A run goes on with the node it was answered (upsert).
LEMMA ContinueWithKeeps ==
  ASSUME RunInv, NEW r \in Runs, NEW part \in Parts, Doing(r, <<"upsert", part>>),
         NEW id \in EntityIds, ContinueWith(r, part, id)
  PROVE  /\ RunInv'
         /\ \A q \in Runs, p \in Parts :
              runs'[q].ids[p] = IF q = r /\ p = part THEN id ELSE runs[q].ids[p]
<1>1. runs[r] \in Run /\ runs[r].next \in Steps /\ runs[r].skip \in SUBSET Steps
  BY DEF RunInv, Placed, Doing, Run
<1> DEFINE run == [runs[r] EXCEPT !.ids[part] = id]
           on == Onward(run, runs[r].skip)
<1>2. /\ run \in Run /\ run.next = runs[r].next
      /\ run.ids = [runs[r].ids EXCEPT ![part] = id]
  BY <1>1 DEF Run
<1>3. runs' = [runs EXCEPT ![r] = on]
  BY DEF ContinueWith
<1>. HIDE DEF run
<1>4. /\ on \in Run /\ on.ids = run.ids /\ on.skip = runs[r].skip
      /\ on.pc \in {"running", "done"}
      /\ on.pc = "running" => on.next \in Steps
      /\ \A i \in Steps : i < on.next /\ i \notin runs[r].skip => i <= runs[r].next
  BY <1>1, <1>2, OnwardIs
<1>. HIDE DEF on
<1>5. runs' \in [Runs -> Run]
  BY <1>3, <1>4 DEF RunInv
<1>6. \A q \in Runs : runs'[q] = IF q = r THEN on ELSE runs[q]
  BY <1>3 DEF RunInv
<1>7. Placed'
  BY <1>4, <1>6 DEF RunInv, Placed
<1>8. \A q \in Runs, p \in Parts :
        runs'[q].ids[p] = IF q = r /\ p = part THEN id ELSE runs[q].ids[p]
  <2>1. runs[r].ids \in [Parts -> EntityIds \cup {NoEntity}]
    BY <1>1 DEF Run
  <2>. QED  BY <1>2, <1>4, <1>6, <2>1
<1>9. Upserted'
  <2>. SUFFICES ASSUME NEW q \in Runs, NEW p \in Parts, NEW i \in Steps,
                       Plan[i] = <<"upsert", p>>, i < runs'[q].next, i \notin runs'[q].skip
                PROVE  runs'[q].ids[p] \in EntityIds
    BY DEF Upserted
  <2>1. CASE q # r
    BY <1>6, <2>1 DEF RunInv, Upserted
  <2>2. CASE q = r /\ p = part
    BY <1>8, <2>2
  <2>3. CASE q = r /\ p # part
    <3>1. i <= runs[r].next /\ i \notin runs[r].skip
      BY <1>4, <1>6, <2>3
    <3>2. Plan[runs[r].next] = <<"upsert", part>>
      BY DEF Doing
    <3>3. i # runs[r].next
      BY <2>3, <3>2
    <3>4. i < runs[r].next
      BY <1>1, <3>1, <3>3 DEF Steps
    <3>. QED  BY <1>8, <2>3, <3>1, <3>4 DEF RunInv, Upserted
  <2>. QED  BY <2>1, <2>2, <2>3
<1>. QED  BY <1>5, <1>7, <1>8, <1>9 DEF RunInv

\* A run ends with an error where it stands (Ingest).
LEMMA EndKeeps ==
  ASSUME RunInv, NEW r \in Runs, End(r, "failed")
  PROVE  RunInv' /\ \A q \in Runs : runs'[q].ids = runs[q].ids
<1>1. runs \in [Runs -> Run]
  BY DEF RunInv
<1>2. runs' = [runs EXCEPT ![r] = [runs[r] EXCEPT !.pc = "failed"]]
  BY <1>1 DEF End
<1>3. [runs[r] EXCEPT !.pc = "failed"] \in Run
  BY <1>1 DEF Run
<1>4. \A q \in Runs : /\ runs'[q].ids = runs[q].ids /\ runs'[q].next = runs[q].next
                      /\ runs'[q].skip = runs[q].skip
                      /\ q = r => runs'[q].pc = "failed"
                      /\ q # r => runs'[q].pc = runs[q].pc
  BY <1>1, <1>2 DEF Run
<1>5. runs' \in [Runs -> Run]
  BY <1>1, <1>2, <1>3
<1>6. Placed'
  BY <1>4 DEF RunInv, Placed
<1>7. Upserted'
  BY <1>4 DEF RunInv, Upserted
<1>. QED  BY <1>4, <1>5, <1>6, <1>7 DEF RunInv

----------------------------------------------------------------------------
(* What a write adds to the log. *)

\* One assertion, under the key of the candidate, which was not taken (AppendEntityFact).
LEMMA AppendAdds ==
  ASSUME NEW w \in Writers, NEW c \in Candidate, IInv, AppendEntityFact(w, c)
  PROVE  /\ facts \subseteq facts' /\ PriorAssertions(w, c) = {}
         /\ \A f, g \in facts' \ facts :
              f.kind = "entity.asserted" /\ g.kind = "entity.asserted"
                => f = g /\ f.writer = w /\ f.key = EntityDedupeKey(c)
<1>1. PriorAssertions(w, c) = {}
  BY DEF AppendEntityFact
<1>2. PICK d \in Resolve(proj, c) :
         \/ d.action = "insert_new"     /\ InsertNew(w, c)
         \/ d.action = "insert_flagged" /\ InsertFlagged(w, c, d.target)
         \/ d.action = "attach"         /\ Attach(w, c, d.target)
         \/ d.action = "merge"          /\ MergeThenAttach(w, c, d.target, d.drops)
  BY DEF AppendEntityFact
<1>3. /\ d.action \in {"attach", "insert_flagged"} => d.target \in Live(proj)
      /\ d.action = "merge" => /\ d.target \in Live(proj)
                               /\ d.drops \subseteq Live(proj)
                               /\ d.target \notin d.drops
  BY ResolveTargets
<1>4. Head \in Nat /\ Live(proj) \subseteq EntityIds
  BY EntityKeyType, Tables
<1>5. /\ facts \subseteq facts'
      /\ \E id \in EntityIds, n \in Nat : \A f \in facts' \ facts :
           f.kind = "entity.asserted" => f = AssertOnto(w, c, id, n)
  <2>1. CASE InsertNew(w, c)
    <3>1. PICK id \in EntityIds : facts' = facts \cup {AssertOnto(w, c, id, Head + 1)}
      BY <2>1 DEF InsertNew, Commit
    <3>. QED  BY <1>4, <3>1
  <2>2. CASE d.action = "insert_flagged" /\ InsertFlagged(w, c, d.target)
    <3>1. PICK id \in EntityIds, e \in EdgeIds :
            facts' = facts \cup {AssertOnto(w, c, id, Head + 1),
              NewFact(Head + 2, "edge.asserted", e, w, <<"sameas", EntityDedupeKey(c), d.target>>,
                      [id |-> e, predicate |-> "sameAs?", from |-> id, to |-> d.target,
                       space |-> c.space])}
      BY <2>2 DEF InsertFlagged, Commit
    <3>2. \A n, x, k, p : NewFact(n, "edge.asserted", x, w, k, p).kind # "entity.asserted"
      BY DEF NewFact
    <3>. QED  BY <1>4, <3>1, <3>2
  <2>3. CASE d.action = "attach" /\ Attach(w, c, d.target)
    <3>1. facts' = facts \cup {AssertOnto(w, c, d.target, Head + 1)}
      BY <2>3 DEF Attach, Commit
    <3>2. Head + 1 \in Nat
      BY <1>4
    <3>. QED  BY <1>3, <1>4, <2>3, <3>1, <3>2
  <2>4. CASE d.action = "merge" /\ MergeThenAttach(w, c, d.target, d.drops)
    <3>1. facts' = facts \cup (MergeFacts(w, c, d.target, d.drops)
                     \cup {AssertOnto(w, c, d.target, Head + Cardinality(d.drops) + 1)})
      BY <2>4 DEF MergeThenAttach, Commit
    <3>2. /\ \A f \in MergeFacts(w, c, d.target, d.drops) : f.kind = "entity.merged"
          /\ Cardinality(d.drops) \in Nat
      BY <1>3, <2>4, MergeFactsType
    <3>3. Head + Cardinality(d.drops) + 1 \in Nat
      BY <1>4, <3>2
    <3>. QED  BY <1>3, <1>4, <2>4, <3>1, <3>2, <3>3
  <2>. QED  BY <1>2, <2>1, <2>2, <2>3, <2>4
<1>6. \A id, n : /\ AssertOnto(w, c, id, n).writer = w
                 /\ AssertOnto(w, c, id, n).key = EntityDedupeKey(c)
  BY DEF AssertOnto, NewFact
<1>. QED  BY <1>1, <1>5, <1>6

\* And there is one.
LEMMA AppendAsserts ==
  ASSUME NEW w \in Writers, NEW c \in Candidate, IInv, AppendEntityFact(w, c)
  PROVE  \E f \in facts' : f.kind = "entity.asserted" /\ f.writer = w /\ f.key = EntityDedupeKey(c)
<1>1. \A id, n : LET a == AssertOnto(w, c, id, n) IN
        a.kind = "entity.asserted" /\ a.writer = w /\ a.key = EntityDedupeKey(c)
  BY DEF AssertOnto, NewFact
<1>2. \E id, n : AssertOnto(w, c, id, n) \in facts'
  <2>1. PICK d \in Resolve(proj, c) :
         \/ d.action = "insert_new"     /\ InsertNew(w, c)
         \/ d.action = "insert_flagged" /\ InsertFlagged(w, c, d.target)
         \/ d.action = "attach"         /\ Attach(w, c, d.target)
         \/ d.action = "merge"          /\ MergeThenAttach(w, c, d.target, d.drops)
    BY DEF AppendEntityFact
  <2>2. CASE InsertNew(w, c)
    BY <2>2 DEF InsertNew, Commit
  <2>3. CASE InsertFlagged(w, c, d.target)
    <3>1. PICK id \in EntityIds : \E N : facts' = facts \cup N /\ AssertOnto(w, c, id, Head + 1) \in N
      BY <2>3 DEF InsertFlagged, Commit
    <3>. QED  BY <3>1
  <2>4. CASE Attach(w, c, d.target)
    BY <2>4 DEF Attach, Commit
  <2>5. CASE MergeThenAttach(w, c, d.target, d.drops)
    BY <2>5 DEF MergeThenAttach, Commit
  <2>. QED  BY <2>1, <2>2, <2>3, <2>4, <2>5
<1>. QED  BY <1>1, <1>2

\* Nothing of the ingest's is asserted by any other write.
LEMMA OthersAdd ==
  ASSUME IInv, OthersWrite
  PROVE  /\ facts \subseteq facts'
         /\ \A f \in facts' \ facts : ~ (f.kind = "entity.asserted" /\ f.writer = IngestWriter)
<1>1. CASE \E w \in Others, c \in Candidates : AppendEntityFact(w, c)
  <2>1. PICK w \in Others, c \in Candidates : AppendEntityFact(w, c)
    BY <1>1
  <2>2. w \in Writers /\ w # IngestWriter /\ c \in Candidate
    BY StoreAssumption DEF Others
  <2>. QED  BY <2>1, <2>2, AppendAdds
<1>2. CASE \E w \in Others, in \in EdgeInputs : AppendEdgeFact(w, in)
  BY <1>2 DEF AppendEdgeFact, Commit, NewFact
<1>3. CASE \E w \in Others, m \in MergeInputs : MergeEntities(w, m[1], m[2])
  BY <1>3 DEF MergeEntities, Commit, NewFact
<1>4. CASE \E w \in Others, id \in EntityIds : ~FreshEntity(id) /\ RetractEntity(w, id)
  BY <1>4 DEF RetractEntity, Commit, NewFact
<1>5. CASE \E w \in Others, id \in EdgeIds : ~FreshEdge(id) /\ RetractEdge(w, id)
  BY <1>5 DEF RetractEdge, Commit, NewFact
<1>. QED  BY <1>1, <1>2, <1>3, <1>4, <1>5 DEF OthersWrite

\* What others write preserves the invariant of the store.
LEMMA OthersPreserve ==
  ASSUME IInv, OthersWrite
  PROVE  IInv'
<1>1. Others \subseteq Writers
  BY DEF Others
<1>2. CASE \E w \in Others, c \in Candidates : AppendEntityFact(w, c)
  BY <1>1, <1>2, AppendEntityPreserves, StoreAssumption
<1>3. CASE \E w \in Others, in \in EdgeInputs : AppendEdgeFact(w, in)
  BY <1>1, <1>3, AppendEdgePreserves, StoreAssumption
<1>4. CASE \E w \in Others, m \in MergeInputs : MergeEntities(w, m[1], m[2])
  BY <1>1, <1>4, MergeEntitiesPreserves, StoreAssumption
<1>5. CASE \E w \in Others, id \in EntityIds : ~FreshEntity(id) /\ RetractEntity(w, id)
  BY <1>1, <1>5, RetractEntityPreserves
<1>6. CASE \E w \in Others, id \in EdgeIds : ~FreshEdge(id) /\ RetractEdge(w, id)
  BY <1>1, <1>6, RetractEdgePreserves
<1>. QED  BY <1>2, <1>3, <1>4, <1>5, <1>6 DEF OthersWrite

\* A log that grows by other facts, or by one under a free key, still answers one node.
LEMMA OneNodeKept ==
  ASSUME OneNode, facts \subseteq facts',
         \A f, g \in facts' \ facts :
           f.kind = "entity.asserted" /\ f.writer = IngestWriter
             /\ g.kind = "entity.asserted" /\ g.writer = IngestWriter => f = g,
         \A f \in facts' \ facts, g \in facts :
           ~ (/\ f.kind = "entity.asserted" /\ f.writer = IngestWriter
              /\ g.kind = "entity.asserted" /\ g.writer = IngestWriter /\ f.key = g.key)
  PROVE  OneNode'
BY DEF OneNode

\* What a run knows stays recorded as long as the log only grows.
LEMMA RecordedKept ==
  ASSUME Recorded, facts \subseteq facts', \A r \in Runs : runs'[r].ids = runs[r].ids
  PROVE  Recorded'
BY DEF Recorded, AssertedAs

----------------------------------------------------------------------------
(* The inputs of a run. *)

\* The props of a part are a property bag (putIf).
LEMMA PartPropsType ==
  ASSUME NEW r \in Runs, NEW part \in Parts
  PROVE  PartProps(r, part) \in Objects
<1>1. Describe[part] \in Objects
  BY IngestAssumption
<1>2. PICK S \in SUBSET PropNames : Describe[part] \in [S -> Scalars \cup Nested]
  BY <1>1 DEF Objects
<1>3. [n \in DOMAIN Describe[part] \cup {"transcript"} |->
         IF n = "transcript" THEN Transcript ELSE Describe[part][n]] \in Objects
  <2>1. S \cup {"transcript"} \in SUBSET PropNames /\ Transcript \in Scalars \cup Nested
    BY IngestAssumption DEF Scalars
  <2>2. [n \in DOMAIN Describe[part] \cup {"transcript"} |->
           IF n = "transcript" THEN Transcript ELSE Describe[part][n]]
          \in [S \cup {"transcript"} -> Scalars \cup Nested]
    BY <1>2, <2>1
  <2>. QED  BY <2>1, <2>2 DEF Objects
<1>. QED  BY <1>1, <1>3 DEF PartProps

\* A part is asserted under its anchor alone (upsert).
LEMMA PartInputType ==
  ASSUME RunInv, NEW r \in Runs, NEW part \in Parts
  PROVE  /\ PartInput(r, part) \in Candidate
         /\ EntityDedupeKey(PartInput(r, part)) = <<"ids", {Anchor[part]}>>
<1>1. RequestSpace[r] \in Spaces /\ {Anchor[part]} \in SUBSET Keys
  BY IngestAssumption
<1>2. PartInput(r, part) \in Candidate
  BY <1>1, PartPropsType DEF PartInput, Candidate, Policies
<1>3. EntityDedupeKey(PartInput(r, part)) = <<"ids", {Anchor[part]}>>
  BY DEF EntityDedupeKey, RandomKeyNeeded, DeriveDedupeKey, PartInput
<1>. QED  BY <1>2, <1>3

\* What GetEntity loads can be asserted again with one key more (attachTMDB).
LEMMA LoadedType ==
  ASSUME IInv, NEW id \in Live(proj)
  PROVE  LoadedSnapshots(id) \subseteq Snapshot
<1>1. proj \in Projection
  BY Tables
<1>2. SpaceOf(proj, id) \in Spaces
  BY <1>1 DEF SpaceOf, Live, Projection
<1>3. {x.key : x \in {y \in proj.ext : y.entity = id}} \in SUBSET Keys
  BY <1>1 DEF Projection
<1>4. \A q \in proj.props : q.props \in Objects \cup {JsonNull}
  BY <1>1 DEF Projection
<1>5. \A x \in proj.emb : x.vector \in Vectors
  BY <1>1 DEF Projection
<1>. QED  BY <1>2, <1>3, <1>4, <1>5 DEF LoadedSnapshots, Snapshot

\* The loaded node is asserted again as it was read (attachTMDB).
LEMMA ReassertionType ==
  ASSUME NEW s \in Snapshot
  PROVE  Reassertion(s) \in Candidate
<1>1. s.keys \cup {Tmdb} \in SUBSET Keys
  BY IngestAssumption DEF Snapshot
<1>2. <<"twice", s.keys>> \in CallerKeys
  BY IngestAssumption DEF Snapshot
<1>. QED  BY <1>1, <1>2 DEF Reassertion, Candidate, Snapshot, Policies

\* An edge that was written joins nodes, so it was linked under a key of its own (link).
LEMMA PartLinkType ==
  ASSUME IInv, NEW r \in Runs, NEW pred \in Relations, NEW from \in Parts, NEW to \in Parts,
         AppendEdgeFact(IngestWriter, PartLink(r, pred, from, to))
  PROVE  PartLink(r, pred, from, to) \in EdgeInput
<1> DEFINE in == PartLink(r, pred, from, to)
           a == runs[r].ids[from]
           b == runs[r].ids[to]
<1>1. in = [predicate |-> pred, from |-> a, to |-> b, space |-> RequestSpace[r],
            dedupe |-> <<pred, a, b>>]
  BY DEF PartLink
<1>2. {in.from, in.to} \subseteq Live(proj)
  BY DEF AppendEdgeFact
<1>3. a \in EntityIds /\ b \in EntityIds
  BY <1>1, <1>2, Tables
<1>4. pred \in Predicates /\ RequestSpace[r] \in Spaces /\ <<pred, a, b>> \in CallerKeys
  BY <1>3, IngestAssumption
<1>. QED  BY <1>1, <1>3, <1>4 DEF EdgeInput

----------------------------------------------------------------------------
(* The steps. *)

\* The store as it was, and the runs moved without a new id.
LEMMA MoveOnly ==
  ASSUME IngestInv, UNCHANGED vars, RunInv', \A q \in Runs : runs'[q].ids = runs[q].ids
  PROVE  IngestInv'
<1>1. facts' = facts
  BY DEF vars
<1>2. IInv'
  BY StutterPreserves DEF IngestInv
<1>3. OneNode'
  <2>1. OneNode
    BY DEF IngestInv
  <2>. QED  BY <1>1, <2>1 DEF OneNode
<1>4. Recorded'
  BY <1>1, RecordedKept DEF IngestInv
<1>. QED  BY <1>2, <1>3, <1>4 DEF IngestInv

\* An assertion of the ingest keeps the answers unique (AppendEntityFact).
LEMMA AssertKeeps ==
  ASSUME IngestInv, NEW c \in Candidate, AppendEntityFact(IngestWriter, c)
  PROVE  IInv' /\ OneNode' /\ facts \subseteq facts'
<1>1. IngestWriter \in Writers /\ IInv
  BY IngestAssumption DEF IngestInv
<1>2. IInv'
  BY <1>1, AppendEntityPreserves
<1>3. /\ facts \subseteq facts' /\ PriorAssertions(IngestWriter, c) = {}
      /\ \A f, g \in facts' \ facts :
           f.kind = "entity.asserted" /\ g.kind = "entity.asserted"
             => f = g /\ f.writer = IngestWriter /\ f.key = EntityDedupeKey(c)
  BY <1>1, AppendAdds
<1>4. \A f \in facts' \ facts, g \in facts :
        ~ (/\ f.kind = "entity.asserted" /\ f.writer = IngestWriter
           /\ g.kind = "entity.asserted" /\ g.writer = IngestWriter /\ f.key = g.key)
  BY <1>3 DEF PriorAssertions
<1>5. OneNode'
  <2>1. \A f, g \in facts' \ facts :
          f.kind = "entity.asserted" /\ f.writer = IngestWriter
            /\ g.kind = "entity.asserted" /\ g.writer = IngestWriter => f = g
    BY <1>3
  <2>2. OneNode
    BY DEF IngestInv
  <2>. QED  BY <1>3, <1>4, <2>1, <2>2, OneNodeKept
<1>. QED  BY <1>2, <1>3, <1>5

\* Fetch begins at the first step, which no metadata skips.
LEMMA FetchKeeps ==
  ASSUME IngestInv, NEW r \in Runs, Fetch(r)
  PROVE  IngestInv'
<1>1. runs \in [Runs -> Run] /\ runs[r].pc = "idle" /\ UNCHANGED vars
  BY DEF IngestInv, RunInv, Fetch
<1>2. PICK t \in BOOLEAN, skip \in SUBSET Steps :
        runs' = [runs EXCEPT ![r] =
          [[[runs[r] EXCEPT !.pc = "running"] EXCEPT !.transcribed = t] EXCEPT !.skip = skip]]
  <2>1. PICK md \in Fetched : runs' = [runs EXCEPT ![r] = [runs[r] EXCEPT
          !.pc = "running", !.transcribed = md.transcript,
          !.skip = (IF md.channel THEN {} ELSE OfChannel)
                     \cup (IF md.subject THEN {} ELSE OfSubject)
                     \cup (IF md.segments THEN {} ELSE OfSegment)]]
    BY <1>1 DEF Fetch
  <2>2. md.transcript \in BOOLEAN
    BY IngestAssumption DEF Metadata
  <2> DEFINE s == (IF md.channel THEN {} ELSE OfChannel)
                     \cup (IF md.subject THEN {} ELSE OfSubject)
                     \cup (IF md.segments THEN {} ELSE OfSegment)
  <2>3. s \in SUBSET Steps
    BY DEF OfChannel, OfSubject, OfSegment, Steps
  <2>. HIDE DEF s
  <2>. QED  BY <2>1, <2>2, <2>3 DEF s
<1> DEFINE run == [[[runs[r] EXCEPT !.pc = "running"] EXCEPT !.transcribed = t] EXCEPT !.skip = skip]
<1>3. /\ run \in Run /\ run.next = runs[r].next /\ run.ids = runs[r].ids
      /\ run.pc = "running"
  <2>1. runs[r] \in Run
    BY <1>1
  <2> DEFINE begun == [runs[r] EXCEPT !.pc = "running"]
             told  == [begun EXCEPT !.transcribed = t]
  <2>2. /\ begun \in Run /\ begun.next = runs[r].next /\ begun.ids = runs[r].ids
        /\ begun.pc = "running"
    BY <2>1 DEF Run
  <2>3. run = [told EXCEPT !.skip = skip]
    OBVIOUS
  <2>. HIDE DEF begun, run
  <2>4. /\ told \in Run /\ told.next = begun.next /\ told.ids = begun.ids /\ told.pc = begun.pc
    BY <2>2 DEF Run
  <2>. HIDE DEF told
  <2>5. /\ run \in Run /\ run.next = told.next /\ run.ids = told.ids /\ run.pc = told.pc
    BY <2>3, <2>4 DEF Run
  <2>. QED  BY <2>2, <2>4, <2>5
<1>. HIDE DEF run
<1>4. runs[r].next = 1
  BY <1>1 DEF IngestInv, RunInv, Placed
<1>5. \A q \in Runs : runs'[q] = IF q = r THEN run ELSE runs[q]
  BY <1>1, <1>2 DEF run
<1>6. runs' \in [Runs -> Run]
  BY <1>1, <1>2, <1>3 DEF run
<1>7. Placed'
  BY <1>3, <1>4, <1>5 DEF IngestInv, RunInv, Placed, Steps
<1>8. Upserted'
  <2>. SUFFICES ASSUME NEW q \in Runs, NEW part \in Parts, NEW i \in Steps,
                       Plan[i] = <<"upsert", part>>, i < runs'[q].next, i \notin runs'[q].skip
                PROVE  runs'[q].ids[part] \in EntityIds
    BY DEF Upserted
  <2>1. q # r
    BY <1>3, <1>4, <1>5 DEF Steps
  <2>. QED  BY <1>5, <2>1 DEF IngestInv, RunInv, Upserted
<1>9. \A q \in Runs : runs'[q].ids = runs[q].ids
  BY <1>3, <1>5
<1>. QED  BY <1>1, <1>6, <1>7, <1>8, <1>9, MoveOnly DEF RunInv

\* An upsert answers with the node its anchor is recorded with (upsert).
LEMMA UpsertKeeps ==
  ASSUME IngestInv, NEW r \in Runs, NEW part \in Parts, Upsert(r, part)
  PROVE  IngestInv'
<1> DEFINE c == PartInput(r, part)
           key == <<"ids", {Anchor[part]}>>
<1>1. IInv /\ RunInv /\ Doing(r, <<"upsert", part>>)
  BY DEF IngestInv, Upsert
<1>2. c \in Candidate /\ EntityDedupeKey(c) = key
  BY <1>1, PartInputType
<1>. HIDE DEF c
<1>3. ASSUME NEW id \in EntityIds, ContinueWith(r, part, id), facts \subseteq facts',
             \E f \in AssertedAs(key)' : f.subject = id
      PROVE  RunInv' /\ Recorded'
  <2>1. /\ RunInv'
        /\ \A q \in Runs, p \in Parts :
             runs'[q].ids[p] = IF q = r /\ p = part THEN id ELSE runs[q].ids[p]
    BY <1>1, <1>3, ContinueWithKeeps
  <2>2. Recorded'
    <3>. SUFFICES ASSUME NEW q \in Runs, NEW p \in Parts, runs'[q].ids[p] # NoEntity
                  PROVE  \E f \in AssertedAs(<<"ids", {Anchor[p]}>>)' : f.subject = runs'[q].ids[p]
      BY DEF Recorded, AssertedAs
    <3>1. CASE q = r /\ p = part
      BY <1>3, <2>1, <3>1
    <3>2. CASE ~ (q = r /\ p = part)
      BY <1>3, <2>1, <3>2 DEF IngestInv, Recorded, AssertedAs
    <3>. QED  BY <3>1, <3>2
  <2>. QED  BY <2>1, <2>2
<1>4. CASE /\ AppendEntityFact(IngestWriter, c)
           /\ \E f \in facts' \ facts : f.kind = "entity.asserted" /\ ContinueWith(r, part, f.subject)
  <2>1. PICK f \in facts' \ facts : f.kind = "entity.asserted" /\ ContinueWith(r, part, f.subject)
    BY <1>4
  <2>2. IInv' /\ OneNode' /\ facts \subseteq facts'
    BY <1>2, <1>4, AssertKeeps
  <2>3. f.writer = IngestWriter /\ f.key = key
    BY <1>1, <1>2, <1>4, <2>1, AppendAdds, IngestAssumption
  <2>4. f.subject \in EntityIds
    BY <2>1, <2>2 DEF IInv, Fact, FactOf
  <2>5. f \in AssertedAs(key)'
    BY <2>1, <2>3 DEF AssertedAs
  <2>. QED  BY <1>3, <2>1, <2>2, <2>4, <2>5 DEF IngestInv
<1>5. CASE /\ \E id \in PriorNodes(c) \cap Live(proj) : ContinueWith(r, part, id)
           /\ UNCHANGED vars
  <2>1. PICK id \in PriorNodes(c) \cap Live(proj) : ContinueWith(r, part, id)
    BY <1>5
  <2>2. facts' = facts /\ id \in EntityIds
    BY <1>1, <1>5, <2>1, Tables DEF vars
  <2>3. \E f \in AssertedAs(key)' : f.subject = id
    BY <1>2, <2>1, <2>2 DEF PriorNodes, PriorAssertions, AssertedAs
  <2>4. RunInv' /\ Recorded'
    BY <1>3, <2>1, <2>2, <2>3
  <2>5. OneNode'
    BY <2>2 DEF IngestInv, OneNode
  <2>. QED  BY <1>1, <1>5, <2>4, <2>5, StutterPreserves DEF IngestInv
<1>6. CASE AnsweredGone(c) /\ End(r, "failed") /\ UNCHANGED vars
  BY <1>1, <1>6, EndKeeps, MoveOnly
<1>. QED  BY <1>4, <1>5, <1>6 DEF Upsert, c

\* The call to heyarr changes nothing but where the run goes on (resolveHeyarrWork).
LEMMA ReconcileKeeps ==
  ASSUME IngestInv, NEW r \in Runs, NEW part \in Parts, Reconcile(r, part)
  PROVE  IngestInv'
<1>1. /\ RunInv /\ runs[r].pc = "running" /\ Plan[runs[r].next] = <<"reconcile", part>>
      /\ UNCHANGED vars
  BY DEF IngestInv, Reconcile, Doing
<1>2. runs[r].skip \in SUBSET Steps /\ runs[r].next \in Steps /\ runs \in [Runs -> Run]
  BY <1>1 DEF RunInv, Run, Placed
<1>3. AfterReconcile(runs[r].next) \in SUBSET Steps
  <2>1. runs[r].next \in {4, 11}
    BY <1>1, <1>2 DEF Plan, Steps
  <2>. QED  BY <2>1 DEF AfterReconcile, Steps
<1>4. \E skip \in SUBSET Steps : /\ runs[r].skip \subseteq skip
                                 /\ runs' = [runs EXCEPT ![r] = Onward(runs[r], skip)]
  BY <1>2, <1>3 DEF Reconcile
<1>5. \A p \in Parts : Plan[runs[r].next] # <<"upsert", p>>
  BY <1>1
<1>6. RunInv' /\ \A q \in Runs : runs'[q].ids = runs[q].ids
  BY <1>1, <1>4, <1>5, ContinueKeeps
<1>. QED  BY <1>1, <1>6, MoveOnly

\* The read-back keeps what it read (attachTMDB).
LEMMA LoadKeeps ==
  ASSUME IngestInv, NEW r \in Runs, NEW part \in Parts, Load(r, part)
  PROVE  IngestInv'
<1> DEFINE id == runs[r].ids[part]
<1>1. /\ RunInv /\ runs[r].pc = "running" /\ Plan[runs[r].next] = <<"load", part>>
      /\ UNCHANGED vars
  BY DEF IngestInv, Load, Doing
<1>2. CASE End(r, "failed")
  BY <1>1, <1>2, EndKeeps, MoveOnly
<1>3. CASE /\ id \in Live(proj)
           /\ runs' = [runs EXCEPT ![r] =
                [Onward(runs[r], runs[r].skip) EXCEPT !.loaded = LoadedSnapshots(id)]]
  <2>1. LoadedSnapshots(id) \in SUBSET Snapshot
    BY <1>3, LoadedType DEF IngestInv
  <2>2. runs[r] \in Run /\ runs[r].next \in Steps /\ runs[r].skip \in SUBSET Steps
    BY <1>1 DEF RunInv, Placed, Run
  <2> DEFINE on == Onward(runs[r], runs[r].skip)
             run == [on EXCEPT !.loaded = LoadedSnapshots(id)]
             mid == [runs EXCEPT ![r] = on]
  <2>3. /\ on \in Run /\ on.ids = runs[r].ids /\ on.skip = runs[r].skip
        /\ on.pc \in {"running", "done"}
        /\ on.pc = "running" => on.next \in Steps
        /\ \A i \in Steps : i < on.next /\ i \notin runs[r].skip => i <= runs[r].next
    BY <2>2, OnwardIs
  <2>. HIDE DEF on
  <2>4. /\ run \in Run /\ run.ids = on.ids /\ run.skip = on.skip
        /\ run.next = on.next /\ run.pc = on.pc
    BY <2>1, <2>3 DEF Run
  <2>5. runs' = [runs EXCEPT ![r] = run]
    BY <1>3 DEF on
  <2>. HIDE DEF run
  <2>6. \A q \in Runs : runs'[q] = IF q = r THEN run ELSE runs[q]
    BY <1>1, <2>5 DEF RunInv
  <2>7. runs' \in [Runs -> Run]
    BY <1>1, <2>4, <2>5 DEF RunInv
  <2>8. Placed'
    BY <1>1, <2>3, <2>4, <2>6 DEF RunInv, Placed
  <2>9. Upserted'
    <3>. SUFFICES ASSUME NEW q \in Runs, NEW p \in Parts, NEW i \in Steps,
                         Plan[i] = <<"upsert", p>>, i < runs'[q].next, i \notin runs'[q].skip
                  PROVE  runs'[q].ids[p] \in EntityIds
      BY DEF Upserted
    <3>1. CASE q # r
      BY <1>1, <2>6, <3>1 DEF RunInv, Upserted
    <3>2. CASE q = r
      <4>1. i <= runs[r].next /\ i \notin runs[r].skip
        BY <2>3, <2>4, <2>6, <3>2
      <4>2. i # runs[r].next
        BY <1>1
      <4>3. i < runs[r].next
        BY <2>2, <4>1, <4>2 DEF Steps
      <4>. QED  BY <1>1, <2>3, <2>4, <2>6, <3>2, <4>1, <4>3 DEF RunInv, Upserted
    <3>. QED  BY <3>1, <3>2
  <2>. QED  BY <1>1, <2>3, <2>4, <2>6, <2>7, <2>8, <2>9, MoveOnly DEF RunInv
<1>. QED  BY <1>2, <1>3 DEF Load

\* The re-assertion of a loaded node names no node of the run (attachTMDB).
LEMMA AttachTMDBKeeps ==
  ASSUME IngestInv, NEW r \in Runs, NEW part \in Parts, AttachTMDB(r, part)
  PROVE  IngestInv'
<1>1. /\ RunInv /\ runs[r].pc = "running" /\ Plan[runs[r].next] = <<"attach", part>>
      /\ runs[r].loaded \subseteq Snapshot /\ runs[r].skip \in SUBSET Steps
  BY DEF IngestInv, RunInv, AttachTMDB, Doing, Run
<1>2. Continue(r) => RunInv' /\ \A q \in Runs : runs'[q].ids = runs[q].ids
  <2>1. \A p \in Parts : Plan[runs[r].next] # <<"upsert", p>>
    BY <1>1
  <2>. QED  BY <1>1, <2>1, ContinueKeeps DEF Continue
<1>3. PICK s \in runs[r].loaded :
        \/ AppendEntityFact(IngestWriter, Reassertion(s)) /\ Continue(r)
        \/ Continue(r) /\ UNCHANGED vars
        \/ End(r, "failed") /\ UNCHANGED vars
  BY DEF AttachTMDB
<1>4. CASE AppendEntityFact(IngestWriter, Reassertion(s)) /\ Continue(r)
  <2>1. IInv' /\ OneNode' /\ facts \subseteq facts'
    BY <1>1, <1>4, ReassertionType, AssertKeeps
  <2>. QED  BY <1>2, <1>4, <2>1, RecordedKept DEF IngestInv
<1>5. CASE Continue(r) /\ UNCHANGED vars
  BY <1>2, <1>5, MoveOnly
<1>6. CASE End(r, "failed") /\ UNCHANGED vars
  BY <1>1, <1>6, EndKeeps, MoveOnly
<1>. QED  BY <1>3, <1>4, <1>5, <1>6

\* Linking asserts no node (link).
LEMMA LinkPartsKeeps ==
  ASSUME IngestInv, NEW r \in Runs, NEW pred \in Relations, NEW from \in Parts, NEW to \in Parts,
         LinkParts(r, pred, from, to)
  PROVE  IngestInv'
<1> DEFINE in == PartLink(r, pred, from, to)
<1>1. /\ RunInv /\ IInv /\ runs[r].pc = "running" /\ runs[r].skip \in SUBSET Steps
      /\ Plan[runs[r].next] = <<"link", pred, from, to>>
  BY DEF IngestInv, RunInv, LinkParts, Doing, Run
<1>2. Continue(r) => RunInv' /\ \A q \in Runs : runs'[q].ids = runs[q].ids
  <2>1. \A p \in Parts : Plan[runs[r].next] # <<"upsert", p>>
    BY <1>1
  <2>. QED  BY <1>1, <2>1, ContinueKeeps DEF Continue
<1>3. CASE AppendEdgeFact(IngestWriter, in) /\ Continue(r)
  <2>1. in \in EdgeInput
    BY <1>1, <1>3, PartLinkType
  <2>2. IInv'
    BY <1>1, <1>3, <2>1, AppendEdgePreserves, IngestAssumption
  <2>. HIDE DEF in
  <2>3. facts \subseteq facts' /\ \A f \in facts' \ facts : f.kind = "edge.asserted"
    BY <1>3 DEF AppendEdgeFact, Commit, NewFact
  <2>4. OneNode'
    BY <2>3, OneNodeKept DEF IngestInv
  <2>. QED  BY <1>2, <1>3, <2>2, <2>3, <2>4, RecordedKept DEF IngestInv
<1>4. CASE Continue(r) /\ UNCHANGED vars
  BY <1>2, <1>4, MoveOnly
<1>5. CASE End(r, "failed") /\ UNCHANGED vars
  BY <1>1, <1>5, EndKeeps, MoveOnly
<1>. QED  BY <1>3, <1>4, <1>5 DEF LinkParts

\* What others write names no node of a run.
LEMMA OthersKeep ==
  ASSUME IngestInv, OthersWrite
  PROVE  IngestInv'
<1>1. IInv /\ runs' = runs
  BY DEF IngestInv, OthersWrite
<1>2. IInv'
  BY <1>1, OthersPreserve
<1>3. /\ facts \subseteq facts'
      /\ \A f \in facts' \ facts : ~ (f.kind = "entity.asserted" /\ f.writer = IngestWriter)
  BY <1>1, OthersAdd
<1>4. OneNode'
  BY <1>3, OneNodeKept DEF IngestInv
<1>5. Recorded'
  BY <1>1, <1>3, RecordedKept DEF IngestInv
<1>6. RunInv'
  BY <1>1 DEF IngestInv, RunInv, Placed, Upserted
<1>. QED  BY <1>2, <1>4, <1>5, <1>6 DEF IngestInv

\* A rebuild reads the log only (RebuildProjection).
LEMMA RebuildKeeps ==
  ASSUME IngestInv, RebuildProjection, UNCHANGED runs
  PROVE  IngestInv'
<1>1. facts' = facts /\ runs' = runs
  BY DEF RebuildProjection
<1>2. IInv'
  BY RebuildPreserves DEF IngestInv
<1>3. OneNode /\ RunInv
  BY DEF IngestInv
<1>4. OneNode'
  BY <1>1, <1>3 DEF OneNode
<1>5. Recorded'
  BY <1>1, RecordedKept DEF IngestInv
<1>6. RunInv'
  BY <1>1, <1>3 DEF RunInv, Placed, Upserted
<1>. QED  BY <1>2, <1>4, <1>5, <1>6 DEF IngestInv

----------------------------------------------------------------------------
(* Theorems. *)

\* The invariant is inductive.
THEOREM IngestInductive == (IngestInit => IngestInv) /\ (IngestInv /\ [IngestNext]_ingestVars => IngestInv')
<1>1. IngestInit => IngestInv
  <2>. SUFFICES ASSUME IngestInit PROVE IngestInv
    OBVIOUS
  <2>1. IInv /\ facts = {}
    BY Inductive DEF IngestInit, Init
  <2>2. \A r \in Runs : /\ runs[r].pc = "idle" /\ runs[r].next = 1
                        /\ \A part \in Parts : runs[r].ids[part] = NoEntity
    BY DEF IngestInit
  <2>3. runs \in [Runs -> Run]
    BY DEF IngestInit, Run, Steps
  <2>4. RunInv
    BY <2>2, <2>3 DEF RunInv, Placed, Upserted, Steps
  <2>5. OneNode /\ Recorded
    BY <2>1, <2>2 DEF OneNode, Recorded
  <2>. QED  BY <2>1, <2>4, <2>5 DEF IngestInv
<1>2. ASSUME IngestInv, [IngestNext]_ingestVars
      PROVE  IngestInv'
  <2>1. CASE \E r \in Runs : Fetch(r)
    BY <1>2, <2>1, FetchKeeps
  <2>2. CASE \E r \in Runs, part \in Parts : Upsert(r, part)
    BY <1>2, <2>2, UpsertKeeps
  <2>3. CASE \E r \in Runs, part \in Parts : Reconcile(r, part)
    BY <1>2, <2>3, ReconcileKeeps
  <2>4. CASE \E r \in Runs, part \in Parts : Load(r, part)
    BY <1>2, <2>4, LoadKeeps
  <2>5. CASE \E r \in Runs, part \in Parts : AttachTMDB(r, part)
    BY <1>2, <2>5, AttachTMDBKeeps
  <2>6. CASE \E r \in Runs, pred \in Relations, from, to \in Parts : LinkParts(r, pred, from, to)
    BY <1>2, <2>6, LinkPartsKeeps
  <2>7. CASE OthersWrite
    BY <1>2, <2>7, OthersKeep
  <2>8. CASE RebuildProjection /\ UNCHANGED runs
    BY <1>2, <2>8, RebuildKeeps
  <2>9. CASE UNCHANGED ingestVars
    <3>1. UNCHANGED vars /\ runs' = runs
      BY <2>9 DEF ingestVars, vars
    <3>2. RunInv'
      BY <1>2, <3>1 DEF IngestInv, RunInv, Placed, Upserted
    <3>. QED  BY <1>2, <3>1, <3>2, MoveOnly
  <2>. QED  BY <1>2, <2>1, <2>2, <2>3, <2>4, <2>5, <2>6, <2>7, <2>8, <2>9 DEF IngestNext
<1>. QED  BY <1>1, <1>2

\* A run stays typed, and past an upsert it knows the node (upsert).
THEOREM IngestTyped == IngestSpec => []IngestTypeOK
<1>1. IngestInv => IngestTypeOK
  BY DEF IngestInv, RunInv, Upserted, IngestTypeOK
<1>. QED  BY <1>1, IngestInductive, PTL DEF IngestSpec

\* However runs stop and overlap and whatever others write, a part is one node (upsert
\* and the duplicate answers of AppendEntityFact).
THEOREM ReplayFindsTheNode == IngestSpec => []ReplaySameIds
<1>1. IngestInv => ReplaySameIds
  <2>. SUFFICES ASSUME IngestInv, NEW r \in Runs, NEW q \in Runs, NEW part \in Parts, NEW other \in Parts,
                       Anchor[part] = Anchor[other],
                       runs[r].ids[part] # NoEntity, runs[q].ids[other] # NoEntity
                PROVE  runs[r].ids[part] = runs[q].ids[other]
    BY DEF ReplaySameIds
  <2>1. PICK f \in AssertedAs(<<"ids", {Anchor[part]}>>) : f.subject = runs[r].ids[part]
    BY DEF IngestInv, Recorded
  <2>2. PICK g \in AssertedAs(<<"ids", {Anchor[other]}>>) : g.subject = runs[q].ids[other]
    BY DEF IngestInv, Recorded
  <2>3. f = g
    BY <2>1, <2>2 DEF IngestInv, OneNode, AssertedAs
  <2>. QED  BY <2>1, <2>2, <2>3
<1>. QED  BY <1>1, IngestInductive, PTL DEF IngestSpec

\* The invariants of the store hold beside any number of ingests.
THEOREM IngestStore == IngestSpec => [](Consistent /\ RebuildAgrees /\ GoneStaysGone)
<1>1. IngestInv => Consistent /\ RebuildAgrees /\ GoneStaysGone
  BY InvariantImplies DEF IngestInv
<1>. QED  BY <1>1, IngestInductive, PTL DEF IngestSpec

----------------------------------------------------------------------------
(* The ingests as callers of the store. *)

\* What an ingest asserts: with keys and props of its own, and never as a node of its own.
OwnInputs ==
  {c \in Candidate : /\ c.policy = "auto" /\ c.props # NilProps /\ c.keys # {}
                     /\ c.dedupe \in {NoKey, <<"twice", c.keys>>}}
IngestInputs == [w \in Writers |-> IF w = IngestWriter THEN OwnInputs ELSE Candidates]

\* The props of a part are a property bag (putIf), those of a loaded node were stored.
LEMMA OwnInputsAre ==
  ASSUME RunInv
  PROVE  /\ \A r \in Runs, part \in Parts : PartInput(r, part) \in OwnInputs
         /\ \A s \in Snapshot : Reassertion(s) \in OwnInputs
<1>1. ASSUME NEW r \in Runs, NEW part \in Parts
      PROVE  PartInput(r, part) \in OwnInputs
  <2>1. PartInput(r, part) \in Candidate
    BY PartInputType
  <2>2. PartProps(r, part) \in Objects
    BY PartPropsType
  <2>3. PartProps(r, part) # NilProps
    BY <2>2, StoreAssumption
  <2>. QED  BY <2>1, <2>3 DEF PartInput, OwnInputs
<1>2. ASSUME NEW s \in Snapshot
      PROVE  Reassertion(s) \in OwnInputs
  <2>1. Reassertion(s) \in Candidate
    BY ReassertionType
  <2>2. s.props # NilProps
    BY StoreAssumption DEF Snapshot
  <2>3. s.keys \cup {Tmdb} # {}
    OBVIOUS
  <2>4. Tmdb \in s.keys => s.keys \cup {Tmdb} = s.keys
    OBVIOUS
  <2>. QED  BY <2>1, <2>2, <2>3, <2>4 DEF Reassertion, OwnInputs
<1>. QED  BY <1>1, <1>2

LEMMA IngestInputsAre ==
  /\ IngestInputs \in [Writers -> SUBSET Candidate]
  /\ \A w \in Writers : \A c \in IngestInputs[w] : c \in Candidates \/ c.policy # "force_new"
  /\ \A c \in IngestInputs[IngestWriter] : c \in OwnInputs
BY StoreAssumption, IngestAssumption DEF IngestInputs, OwnInputs

\* A step of an ingest, or beside it, is an operation of the store or none, whatever set X
\* the inputs of the ingests are from.
LEMMA IngestOperatesOn ==
  ASSUME IngestInv, [IngestNext]_ingestVars, NEW X,
         \A r \in Runs, part \in Parts : PartInput(r, part) \in X,
         \A r \in Runs : \A s \in runs[r].loaded : Reassertion(s) \in X,
         NEW C, C = [w \in Writers |-> IF w = IngestWriter THEN X ELSE Candidates]
  PROVE  Operates(C)
<1>1. IInv /\ RunInv /\ IngestWriter \in Writers
  BY IngestAssumption DEF IngestInv
<1>2. C[IngestWriter] = X /\ \A w \in Others : w \in Writers /\ C[w] = Candidates
  BY <1>1 DEF Others
<1>3. ASSUME NEW r \in Runs, NEW part \in Parts, Upsert(r, part)
      PROVE  Operates(C)
  <2>1. AppendEntityFact(IngestWriter, PartInput(r, part)) \/ UNCHANGED vars
    BY <1>3 DEF Upsert
  <2>. QED  BY <1>1, <1>2, <2>1 DEF Operates
<1>4. ASSUME NEW r \in Runs, NEW part \in Parts, AttachTMDB(r, part)
      PROVE  Operates(C)
  <2>1. \E s \in runs[r].loaded : AppendEntityFact(IngestWriter, Reassertion(s)) \/ UNCHANGED vars
    BY <1>4 DEF AttachTMDB
  <2>. QED  BY <1>1, <1>2, <2>1 DEF Operates
<1>5. ASSUME NEW r \in Runs, NEW pred \in Relations, NEW from \in Parts, NEW to \in Parts,
             LinkParts(r, pred, from, to)
      PROVE  Operates(C)
  <2>1. AppendEdgeFact(IngestWriter, PartLink(r, pred, from, to)) \/ UNCHANGED vars
    BY <1>5 DEF LinkParts
  <2>. QED  BY <1>1, <2>1, PartLinkType DEF Operates
<1>6. CASE OthersWrite
  <2>1. CASE \E w \in Others, c \in Candidates : AppendEntityFact(w, c)
    <3>1. PICK w \in Others, c \in Candidates : AppendEntityFact(w, c)
      BY <2>1
    <3>2. w \in Writers /\ c \in C[w]
      BY <1>2
    <3>3. \E x \in Writers : \E y \in C[x] : AppendEntityFact(x, y)
      BY <3>1, <3>2
    <3>. QED  BY <3>3 DEF Operates
  <2>2. CASE \E w \in Others, in \in EdgeInputs : AppendEdgeFact(w, in)
    BY <1>2, <2>2, StoreAssumption DEF Operates
  <2>3. CASE \E w \in Others, m \in MergeInputs : MergeEntities(w, m[1], m[2])
    BY <1>2, <2>3, StoreAssumption DEF Operates
  <2>4. CASE \E w \in Others, id \in EntityIds : ~FreshEntity(id) /\ RetractEntity(w, id)
    BY <1>2, <2>4 DEF Operates
  <2>5. CASE \E w \in Others, id \in EdgeIds : ~FreshEdge(id) /\ RetractEdge(w, id)
    BY <1>2, <2>5 DEF Operates
  <2>. QED  BY <1>6, <2>1, <2>2, <2>3, <2>4, <2>5 DEF OthersWrite
<1>7. CASE RebuildProjection /\ UNCHANGED runs
  BY <1>7 DEF Operates
<1>8. CASE \/ \E r \in Runs : Fetch(r)
           \/ \E r \in Runs, part \in Parts : Reconcile(r, part)
           \/ \E r \in Runs, part \in Parts : Load(r, part)
           \/ UNCHANGED ingestVars
  <2>1. UNCHANGED vars
    BY <1>8 DEF Fetch, Reconcile, Load, ingestVars, vars
  <2>. QED  BY <2>1 DEF Operates
<1>9. CASE \E r \in Runs, part \in Parts : Upsert(r, part)
  BY <1>3, <1>9
<1>10. CASE \E r \in Runs, part \in Parts : AttachTMDB(r, part)
  BY <1>4, <1>10
<1>11. CASE \E r \in Runs, pred \in Relations, from, to \in Parts : LinkParts(r, pred, from, to)
  BY <1>5, <1>11
<1>. QED  BY <1>6, <1>7, <1>8, <1>9, <1>10, <1>11 DEF IngestNext

LEMMA IngestOperates ==
  ASSUME IngestInv, [IngestNext]_ingestVars
  PROVE  Operates(IngestInputs)
<1>1. \A r \in Runs : runs[r].loaded \subseteq Snapshot
  BY DEF IngestInv, RunInv, Run
<1>2. /\ \A r \in Runs, part \in Parts : PartInput(r, part) \in OwnInputs
      /\ \A r \in Runs : \A s \in runs[r].loaded : Reassertion(s) \in OwnInputs
  BY <1>1, OwnInputsAre DEF IngestInv
<1>. QED  BY <1>2, IngestOperatesOn DEF IngestInputs

----------------------------------------------------------------------------
(* What holds of the store beside any number of ingests. *)

\* A rebuild beside an ingest folds the same tables (RebuildProjection).
THEOREM IngestRebuilds == IngestSpec => []RebuiltIsFold
<1>1. IngestInv /\ FoldInv /\ [IngestNext]_ingestVars => FoldInv'
  BY IngestOperates, IngestInputsAre, OperatesFolds DEF IngestInv
<1>2. IngestInit => FoldInv
  BY FoldAtFirst DEF IngestInit
<1>3. FoldInv => RebuiltIsFold
  BY FoldIsReplay DEF FoldInv
<1>. QED  BY <1>1, <1>2, <1>3, IngestInductive, PTL DEF IngestSpec

----------------------------------------------------------------------------
(* How a run moves. *)

\* The steps of a block are skipped together: those of the channel, of a subject, of a
\* segment, and of what follows a reconciliation that missed.
Whole(K) ==
  /\ 1 \notin K /\ (2 \in K <=> 3 \in K)
  /\ (5 \in K <=> 6 \in K) /\ (6 \in K <=> 7 \in K) /\ (7 \in K <=> 8 \in K)
  /\ (9 \in K <=> 10 \in K) /\ (9 \in K => 12 \in K)
  /\ (12 \in K <=> 13 \in K) /\ (13 \in K <=> 14 \in K) /\ (14 \in K <=> 15 \in K)

\* A run is at a step it does not skip, or at the end of the plan.
PathInv ==
  \A r \in Runs : /\ Whole(runs[r].skip)
                  /\ runs[r].pc \in {"idle", "running"} => runs[r].next \in Steps \ runs[r].skip
                  /\ runs[r].pc = "idle" => runs[r].next = 1
                  /\ runs[r].pc = "done" => runs[r].next = 16

\* A run that leaves a step for a later one, past steps it skips only.
Advances(run, on) ==
  /\ run.pc = "running" /\ run.next \in Steps \ run.skip
  /\ on.pc \in {"running", "done"} /\ on.next > run.next
  /\ run.skip \subseteq on.skip
  /\ on.pc = "running" => on.next \in Steps \ on.skip
  /\ on.pc = "done" => on.next = 16
  /\ \A i \in Steps : i < on.next /\ i \notin on.skip => i <= run.next

\* Onward advances (Ingest).
LEMMA OnwardAdvances ==
  ASSUME NEW run \in Run, run.pc = "running", run.next \in Steps \ run.skip,
         NEW skip \in SUBSET Steps, run.skip \subseteq skip
  PROVE  LET on == Onward(run, skip) IN
         /\ Advances(run, on) /\ on.ids = run.ids /\ on.skip = skip /\ on.loaded = run.loaded
         /\ on \in Run
<1> DEFINE left == {i \in Steps : i > run.next /\ i \notin skip}
           on == Onward(run, skip)
           next == IF left = {} THEN 16 ELSE Oldest(left)
           pc == IF left = {} THEN "done" ELSE "running"
<1>1. left \in SUBSET Steps
  OBVIOUS
<1>2. left # {} => next \in left
  BY <1>1, OldestStep
<1>3. on = [[[run EXCEPT !.next = next] EXCEPT !.skip = skip] EXCEPT !.pc = pc]
  BY DEF Onward
<1>4. /\ on \in Run /\ on.ids = run.ids /\ on.skip = skip
      /\ on.pc \in {"running", "done"}
      /\ \A i \in Steps : i < on.next /\ i \notin skip => i <= run.next
  BY OnwardIs
<1>5. /\ left = {} => next = 16 /\ pc = "done"
      /\ left # {} => next \in Steps \ skip /\ next > run.next /\ pc = "running"
  BY <1>2
<1>. HIDE DEF next, pc, left
<1>6. on.next = next /\ on.pc = pc /\ on.loaded = run.loaded
  BY <1>3 DEF Run
<1>7. 16 > run.next
  BY DEF Steps
<1>. HIDE DEF on
<1>8. Advances(run, on)
  BY <1>4, <1>5, <1>6, <1>7 DEF Advances
<1>. QED  BY <1>4, <1>6, <1>8 DEF on

\* What a run finds when it fails.
Failing(r) ==
  \/ \E f \in facts : f.kind = "entity.asserted" /\ f.writer = IngestWriter /\ f.subject \notin Live(proj)
  \/ \E part \in Parts : LET id == runs[r].ids[part] IN
       Plan[runs[r].next] = <<"load", part>> /\ ~ (id \in Live(proj) /\ OwnNode(r, id))
  \/ \E pred \in Relations, from, to \in Parts :
       /\ Plan[runs[r].next] = <<"link", pred, from, to>>
       /\ LinkRefused(PartLink(r, pred, from, to))

\* What a run does at a step and takes along.
Doings(r) ==
  LET run == runs[r]
      on  == runs'[r]
      step == Plan[run.next]
      same == on.ids = run.ids /\ on.skip = run.skip /\ on.loaded = run.loaded
  IN \/ \E part \in Parts : /\ step = <<"upsert", part>>
                            /\ on.skip = run.skip /\ on.loaded = run.loaded
                            /\ \A p \in Parts : p # part => on.ids[p] = run.ids[p]
     \/ \E part \in Parts : /\ step = <<"reconcile", part>>
                            /\ on.ids = run.ids /\ on.loaded = run.loaded
     \/ \E part \in Parts : /\ step = <<"load", part>>
                            /\ on.ids = run.ids /\ on.skip = run.skip
                            /\ run.ids[part] \in Live(proj)
                            /\ on.loaded = LoadedSnapshots(run.ids[part])
     \/ \E part \in Parts : /\ step = <<"attach", part>> /\ same
                            /\ \E s \in run.loaded : \E f \in facts' :
                                 /\ f.kind = "entity.asserted" /\ f.writer = IngestWriter
                                 /\ f.key = EntityDedupeKey(Reassertion(s))
     \/ \E pred \in Relations, from, to \in Parts :
          /\ step = <<"link", pred, from, to>> /\ same
          /\ \E f \in facts' :
               /\ f.kind = "edge.asserted" /\ f.writer = IngestWriter
               /\ f.key = EdgeDedupeKey(PartLink(r, pred, from, to))

\* A run begins, fails, goes on, or is left alone.
Moves(r) ==
  \/ runs'[r] = runs[r]
  \/ /\ runs[r].pc = "idle" /\ runs'[r].pc = "running" /\ UNCHANGED vars
     /\ runs'[r].next = runs[r].next /\ runs'[r].ids = runs[r].ids
     /\ runs'[r].loaded = runs[r].loaded /\ Whole(runs'[r].skip)
  \/ /\ runs[r].pc = "running" /\ runs'[r].pc = "failed" /\ UNCHANGED vars
     /\ runs'[r].next = runs[r].next /\ runs'[r].ids = runs[r].ids
     /\ runs'[r].loaded = runs[r].loaded /\ runs'[r].skip = runs[r].skip
     /\ Failing(r)
  \/ Advances(runs[r], runs'[r]) /\ Whole(runs'[r].skip) /\ Doings(r)

\* A run ends with an error (Ingest).
LEMMA EndMoves ==
  ASSUME RunInv, NEW q \in Runs, runs[q].pc = "running", End(q, "failed"), UNCHANGED vars, Failing(q),
         NEW r \in Runs
  PROVE  Moves(r)
<1>1. runs \in [Runs -> Run]
  BY DEF RunInv
<1>2. r # q => runs'[r] = runs[r]
  BY <1>1 DEF End
<1>3. /\ runs'[q].pc = "failed" /\ runs'[q].next = runs[q].next /\ runs'[q].ids = runs[q].ids
      /\ runs'[q].loaded = runs[q].loaded /\ runs'[q].skip = runs[q].skip
  BY <1>1 DEF End, Run
<1>. QED  BY <1>2, <1>3 DEF Moves

\* Or it goes on (Ingest).
LEMMA ContinueMoves ==
  ASSUME RunInv, PathInv, NEW q \in Runs, runs[q].pc = "running",
         NEW skip \in SUBSET Steps, runs[q].skip \subseteq skip, Whole(skip),
         runs' = [runs EXCEPT ![q] = Onward(runs[q], skip)],
         NEW r \in Runs
  PROVE  \/ runs'[r] = runs[r]
         \/ /\ r = q /\ Advances(runs[r], runs'[r]) /\ Whole(runs'[r].skip)
            /\ runs'[r].ids = runs[r].ids /\ runs'[r].loaded = runs[r].loaded /\ runs'[r].skip = skip
<1>1. runs \in [Runs -> Run] /\ runs[q] \in Run /\ runs[q].next \in Steps \ runs[q].skip
  BY DEF RunInv, PathInv
<1>. DEFINE on == Onward(runs[q], skip)
<1>2. /\ Advances(runs[q], on) /\ on.ids = runs[q].ids /\ on.skip = skip /\ on.loaded = runs[q].loaded
  BY <1>1, OnwardAdvances
<1>3. runs' = [runs EXCEPT ![q] = on]
  OBVIOUS
<1>. HIDE DEF on
<1>4. runs'[r] = IF r = q THEN on ELSE runs[r]
  BY <1>1, <1>3
<1>. QED  BY <1>2, <1>4

\* Fetch tells which blocks are skipped.
LEMMA FetchMoves ==
  ASSUME RunInv, NEW q \in Runs, Fetch(q), NEW r \in Runs
  PROVE  Moves(r)
<1>1. runs \in [Runs -> Run] /\ runs[q].pc = "idle" /\ UNCHANGED vars
  BY DEF RunInv, Fetch
<1>2. PICK md \in Fetched : runs' = [runs EXCEPT ![q] = [runs[q] EXCEPT
          !.pc = "running", !.transcribed = md.transcript,
          !.skip = (IF md.channel THEN {} ELSE OfChannel)
                     \cup (IF md.subject THEN {} ELSE OfSubject)
                     \cup (IF md.segments THEN {} ELSE OfSegment)]]
  BY <1>1 DEF Fetch
<1>. DEFINE K == (IF md.channel THEN {} ELSE OfChannel)
                   \cup (IF md.subject THEN {} ELSE OfSubject)
                   \cup (IF md.segments THEN {} ELSE OfSegment)
<1>3. Whole(K)
  BY DEF Whole, OfChannel, OfSubject, OfSegment
<1>. HIDE DEF K
<1>. DEFINE t == md.transcript
<1>4. runs' = [runs EXCEPT ![q] = [[[runs[q] EXCEPT !.pc = "running"] EXCEPT !.transcribed = t] EXCEPT !.skip = K]]
  BY <1>2 DEF K
<1>. HIDE DEF t
<1>5. r # q => runs'[r] = runs[r]
  BY <1>1, <1>4
<1>6. /\ runs'[q].pc = "running" /\ runs'[q].next = runs[q].next /\ runs'[q].ids = runs[q].ids
      /\ runs'[q].loaded = runs[q].loaded /\ runs'[q].skip = K
  BY <1>1, <1>4 DEF Run
<1>. QED  BY <1>1, <1>3, <1>5, <1>6 DEF Moves

\* Upsert goes on with the node it was answered, and fails on one that is gone.
LEMMA UpsertMoves ==
  ASSUME IngestInv, PathInv, NEW q \in Runs, NEW part \in Parts, Upsert(q, part), NEW r \in Runs
  PROVE  Moves(r)
<1>1. /\ RunInv /\ runs[q].pc = "running" /\ Plan[runs[q].next] = <<"upsert", part>>
      /\ runs \in [Runs -> Run] /\ runs[q] \in Run
  BY DEF IngestInv, RunInv, Upsert, Doing
<1>2. ASSUME NEW id \in EntityIds, ContinueWith(q, part, id) PROVE Moves(r)
  <2>. DEFINE run == [runs[q] EXCEPT !.ids[part] = id]
              on == Onward(run, runs[q].skip)
  <2>1. /\ run \in Run /\ run.next = runs[q].next /\ run.pc = runs[q].pc /\ run.skip = runs[q].skip
        /\ run.loaded = runs[q].loaded /\ run.ids = [runs[q].ids EXCEPT ![part] = id]
    BY <1>1 DEF Run
  <2>2. /\ runs[q].skip \in SUBSET Steps /\ runs[q].next \in Steps \ runs[q].skip /\ Whole(runs[q].skip)
        /\ runs[q].ids \in [Parts -> EntityIds \cup {NoEntity}]
    BY <1>1 DEF Run, PathInv
  <2>3. runs' = [runs EXCEPT ![q] = on]
    BY <1>2 DEF ContinueWith
  <2>. HIDE DEF run
  <2>4. Advances(run, on) /\ on.ids = run.ids /\ on.skip = runs[q].skip /\ on.loaded = run.loaded
    BY <1>1, <2>1, <2>2, OnwardAdvances
  <2>. HIDE DEF on
  <2>5. runs'[r] = IF r = q THEN on ELSE runs[r]
    BY <1>1, <2>3
  <2>6. Advances(runs[q], on)
    BY <2>1, <2>4 DEF Advances
  <2>7. \A p \in Parts : p # part => on.ids[p] = runs[q].ids[p]
    BY <2>1, <2>2, <2>4
  <2>8. r = q => Doings(r)
    BY <1>1, <2>1, <2>4, <2>5, <2>7 DEF Doings
  <2>. QED  BY <2>2, <2>4, <2>5, <2>6, <2>8 DEF Moves
<1>3. CASE /\ AppendEntityFact(IngestWriter, PartInput(q, part))
           /\ \E f \in facts' \ facts : f.kind = "entity.asserted" /\ ContinueWith(q, part, f.subject)
  <2>1. IInv'
    BY <1>1, <1>3, PartInputType, AssertKeeps
  <2>2. PICK f \in facts' : f.kind = "entity.asserted" /\ ContinueWith(q, part, f.subject)
    BY <1>3
  <2>3. f.subject \in EntityIds
    BY <2>1, <2>2 DEF IInv, Fact, FactOf
  <2>. QED  BY <1>2, <2>2, <2>3
<1>4. CASE \E id \in PriorNodes(PartInput(q, part)) \cap Live(proj) : ContinueWith(q, part, id)
  BY <1>2, <1>4, Tables DEF IngestInv
<1>5. CASE AnsweredGone(PartInput(q, part)) /\ End(q, "failed") /\ UNCHANGED vars
  <2>1. Failing(q)
    BY <1>5 DEF AnsweredGone, PriorNodes, PriorAssertions, Failing
  <2>. QED  BY <1>1, <1>5, <2>1, EndMoves
<1>. QED  BY <1>3, <1>4, <1>5 DEF Upsert

\* Reconcile skips what follows a miss.
LEMMA ReconcileMoves ==
  ASSUME IngestInv, PathInv, NEW q \in Runs, NEW part \in Parts, Reconcile(q, part), NEW r \in Runs
  PROVE  Moves(r)
<1>1. /\ RunInv /\ runs[q].pc = "running" /\ Plan[runs[q].next] = <<"reconcile", part>>
      /\ runs \in [Runs -> Run] /\ runs[q] \in Run
  BY DEF IngestInv, RunInv, Reconcile, Doing
<1>2. runs[q].skip \in SUBSET Steps /\ runs[q].next \in Steps /\ Whole(runs[q].skip)
  BY <1>1 DEF Run, PathInv
<1>3. runs[q].next \in {4, 11}
  BY <1>1, <1>2 DEF Plan, Steps
<1>. DEFINE more == runs[q].skip \cup AfterReconcile(runs[q].next)
<1>4. more \in SUBSET Steps /\ Whole(more) /\ runs[q].skip \subseteq more
  BY <1>2, <1>3 DEF AfterReconcile, Steps, Whole
<1>. HIDE DEF more
<1>5. \E skip \in {runs[q].skip, more} : runs' = [runs EXCEPT ![q] = Onward(runs[q], skip)]
  BY <1>1 DEF Reconcile, more
<1>6. \/ runs'[r] = runs[r]
      \/ /\ r = q /\ Advances(runs[r], runs'[r]) /\ Whole(runs'[r].skip)
         /\ runs'[r].ids = runs[r].ids /\ runs'[r].loaded = runs[r].loaded
  BY <1>1, <1>2, <1>4, <1>5, ContinueMoves
<1>7. r = q /\ runs'[r].ids = runs[r].ids /\ runs'[r].loaded = runs[r].loaded => Doings(r)
  BY <1>1 DEF Doings
<1>. QED  BY <1>6, <1>7 DEF Moves

\* Load keeps the node it read, and fails on one that is not to be seen (attachTMDB).
LEMMA LoadMoves ==
  ASSUME IngestInv, PathInv, NEW q \in Runs, NEW part \in Parts, Load(q, part), NEW r \in Runs
  PROVE  Moves(r)
<1>. DEFINE id == runs[q].ids[part]
<1>1. /\ RunInv /\ runs[q].pc = "running" /\ Plan[runs[q].next] = <<"load", part>>
      /\ runs \in [Runs -> Run] /\ runs[q] \in Run /\ UNCHANGED vars
  BY DEF IngestInv, RunInv, Load, Doing
<1>2. CASE ~ (id \in Live(proj) /\ OwnNode(q, id)) /\ End(q, "failed")
  <2>1. Failing(q)
    BY <1>1, <1>2 DEF Failing
  <2>. QED  BY <1>1, <1>2, <2>1, EndMoves
<1>3. CASE /\ id \in Live(proj)
           /\ runs' = [runs EXCEPT ![q] =
                [Onward(runs[q], runs[q].skip) EXCEPT !.loaded = LoadedSnapshots(id)]]
  <2>. DEFINE on == Onward(runs[q], runs[q].skip)
              L == LoadedSnapshots(id)
              run == [on EXCEPT !.loaded = L]
  <2>1. /\ runs[q].skip \in SUBSET Steps /\ runs[q].next \in Steps \ runs[q].skip /\ Whole(runs[q].skip)
    BY <1>1 DEF Run, PathInv
  <2>2. /\ Advances(runs[q], on) /\ on.ids = runs[q].ids /\ on.skip = runs[q].skip /\ on \in Run
    BY <1>1, <2>1, OnwardAdvances
  <2>3. runs' = [runs EXCEPT ![q] = run]
    BY <1>3
  <2>. HIDE DEF on, L
  <2>4. /\ run.ids = on.ids /\ run.skip = on.skip /\ run.next = on.next /\ run.pc = on.pc
        /\ run.loaded = L
    BY <2>2 DEF Run
  <2>. HIDE DEF run
  <2>5. runs'[r] = IF r = q THEN run ELSE runs[r]
    BY <1>1, <2>3
  <2>6. Advances(runs[q], run)
    BY <2>2, <2>4 DEF Advances
  <2>7. r = q => Doings(r)
    BY <1>1, <1>3, <2>2, <2>4, <2>5 DEF Doings, L
  <2>. QED  BY <2>1, <2>2, <2>4, <2>5, <2>6, <2>7 DEF Moves
<1>. QED  BY <1>2, <1>3 DEF Load

\* The re-assertion is recorded when the run goes on (attachTMDB).
LEMMA AttachTMDBMoves ==
  ASSUME IngestInv, PathInv, NEW q \in Runs, NEW part \in Parts, AttachTMDB(q, part), NEW r \in Runs
  PROVE  Moves(r)
<1>1. /\ RunInv /\ runs[q].pc = "running" /\ Plan[runs[q].next] = <<"attach", part>>
      /\ runs \in [Runs -> Run] /\ runs[q] \in Run /\ runs[q].loaded \subseteq Snapshot
  BY DEF IngestInv, RunInv, AttachTMDB, Doing, Run
<1>2. PICK s \in runs[q].loaded :
       \/ AppendEntityFact(IngestWriter, Reassertion(s)) /\ Continue(q)
       \/ PriorNodes(Reassertion(s)) \cap Live(proj) # {} /\ Continue(q) /\ UNCHANGED vars
       \/ AnsweredGone(Reassertion(s)) /\ End(q, "failed") /\ UNCHANGED vars
  BY DEF AttachTMDB
<1>. DEFINE Asserted == \E f \in facts' : /\ f.kind = "entity.asserted" /\ f.writer = IngestWriter
                                          /\ f.key = EntityDedupeKey(Reassertion(s))
<1>3. ASSUME Continue(q), Asserted PROVE Moves(r)
  <2>0. runs' = [runs EXCEPT ![q] = Onward(runs[q], runs[q].skip)]
    BY <1>3 DEF Continue
  <2>1. runs[q].skip \in SUBSET Steps /\ Whole(runs[q].skip)
    BY <1>1 DEF Run, PathInv
  <2>2. \/ runs'[r] = runs[r]
        \/ /\ r = q /\ Advances(runs[r], runs'[r]) /\ Whole(runs'[r].skip)
           /\ runs'[r].ids = runs[r].ids /\ runs'[r].loaded = runs[r].loaded /\ runs'[r].skip = runs[q].skip
    BY <1>1, <2>0, <2>1, ContinueMoves
  <2>3. r = q /\ runs'[r].ids = runs[r].ids /\ runs'[r].loaded = runs[r].loaded
          /\ runs'[r].skip = runs[q].skip => Doings(r)
    BY <1>1, <1>2, <1>3 DEF Doings
  <2>. QED  BY <2>2, <2>3 DEF Moves
<1>4. CASE AppendEntityFact(IngestWriter, Reassertion(s)) /\ Continue(q)
  <2>1. Reassertion(s) \in Candidate /\ IngestWriter \in Writers
    BY <1>1, ReassertionType, IngestAssumption
  <2>3. \E f \in facts' : /\ f.kind = "entity.asserted" /\ f.writer = IngestWriter
                          /\ f.key = EntityDedupeKey(Reassertion(s))
    BY <1>4, <2>1, AppendAsserts DEF IngestInv
  <2>. QED  BY <1>3, <1>4, <2>3
<1>5. CASE PriorNodes(Reassertion(s)) \cap Live(proj) # {} /\ Continue(q) /\ UNCHANGED vars
  <2>1. Asserted
    BY <1>5 DEF PriorNodes, PriorAssertions, vars
  <2>. QED  BY <1>3, <1>5, <2>1
<1>6. CASE AnsweredGone(Reassertion(s)) /\ End(q, "failed") /\ UNCHANGED vars
  <2>1. Failing(q)
    BY <1>6 DEF AnsweredGone, PriorNodes, PriorAssertions, Failing
  <2>. QED  BY <1>1, <1>6, <2>1, EndMoves
<1>. QED  BY <1>2, <1>4, <1>5, <1>6

\* So is the edge (link).
LEMMA LinkPartsMoves ==
  ASSUME IngestInv, PathInv, NEW q \in Runs, NEW pred \in Relations, NEW from \in Parts, NEW to \in Parts,
         LinkParts(q, pred, from, to), NEW r \in Runs
  PROVE  Moves(r)
<1>. DEFINE in == PartLink(q, pred, from, to)
            Joins == \E f \in facts' : /\ f.kind = "edge.asserted" /\ f.writer = IngestWriter
                                       /\ f.key = EdgeDedupeKey(in)
<1>1. /\ RunInv /\ runs[q].pc = "running" /\ Plan[runs[q].next] = <<"link", pred, from, to>>
      /\ runs \in [Runs -> Run] /\ runs[q] \in Run
  BY DEF IngestInv, RunInv, LinkParts, Doing
<1>2. ASSUME Continue(q), Joins PROVE Moves(r)
  <2>0. runs' = [runs EXCEPT ![q] = Onward(runs[q], runs[q].skip)]
    BY <1>2 DEF Continue
  <2>1. runs[q].skip \in SUBSET Steps /\ Whole(runs[q].skip)
    BY <1>1 DEF Run, PathInv
  <2>2. \/ runs'[r] = runs[r]
        \/ /\ r = q /\ Advances(runs[r], runs'[r]) /\ Whole(runs'[r].skip)
           /\ runs'[r].ids = runs[r].ids /\ runs'[r].loaded = runs[r].loaded /\ runs'[r].skip = runs[q].skip
    BY <1>1, <2>0, <2>1, ContinueMoves
  <2>3. r = q /\ runs'[r].ids = runs[r].ids /\ runs'[r].loaded = runs[r].loaded
          /\ runs'[r].skip = runs[q].skip => Doings(r)
    BY <1>1, <1>2 DEF Doings
  <2>. QED  BY <2>2, <2>3 DEF Moves
<1>3. CASE AppendEdgeFact(IngestWriter, in) /\ Continue(q)
  <2>. HIDE DEF in
  <2>1. \A e, edge : LET f == NewFact(Head + 1, "edge.asserted", e, IngestWriter, EdgeDedupeKey(in), edge) IN
          f.kind = "edge.asserted" /\ f.writer = IngestWriter /\ f.key = EdgeDedupeKey(in)
    BY DEF NewFact
  <2>2. \E e, edge :
          NewFact(Head + 1, "edge.asserted", e, IngestWriter, EdgeDedupeKey(in), edge) \in facts'
    BY <1>3 DEF AppendEdgeFact, Commit
  <2>3. Joins
    BY <2>1, <2>2
  <2>. QED  BY <1>2, <1>3, <2>3
<1>4. CASE PriorEdges(in) \cap LiveEdges # {} /\ Continue(q) /\ UNCHANGED vars
  <2>. HIDE DEF in
  <2>1. Joins
    BY <1>4 DEF PriorEdges, vars
  <2>. QED  BY <1>2, <1>4, <2>1
<1>5. CASE LinkRefused(in) /\ End(q, "failed") /\ UNCHANGED vars
  <2>1. Failing(q)
    BY <1>1, <1>5 DEF Failing
  <2>. QED  BY <1>1, <1>5, <2>1, EndMoves
<1>. QED  BY <1>3, <1>4, <1>5 DEF LinkParts

\* Every step moves each run so.
LEMMA IngestMoves ==
  ASSUME IngestInv, PathInv, [IngestNext]_ingestVars, NEW r \in Runs
  PROVE  Moves(r)
<1>1. CASE \E q \in Runs : Fetch(q)
  BY <1>1, FetchMoves DEF IngestInv
<1>2. CASE \E q \in Runs, part \in Parts : Upsert(q, part)
  BY <1>2, UpsertMoves
<1>3. CASE \E q \in Runs, part \in Parts : Reconcile(q, part)
  BY <1>3, ReconcileMoves
<1>4. CASE \E q \in Runs, part \in Parts : Load(q, part)
  BY <1>4, LoadMoves
<1>5. CASE \E q \in Runs, part \in Parts : AttachTMDB(q, part)
  BY <1>5, AttachTMDBMoves
<1>6. CASE \E q \in Runs, pred \in Relations, from, to \in Parts : LinkParts(q, pred, from, to)
  BY <1>6, LinkPartsMoves
<1>7. CASE UNCHANGED runs
  BY <1>7 DEF Moves
<1>8. OthersWrite => UNCHANGED runs
  BY DEF OthersWrite
<1>9. UNCHANGED ingestVars => UNCHANGED runs
  BY DEF ingestVars
<1>. QED  BY <1>1, <1>2, <1>3, <1>4, <1>5, <1>6, <1>7, <1>8, <1>9 DEF IngestNext

\* A run keeps to its path.
LEMMA PathKept ==
  ASSUME IngestInv, PathInv, [IngestNext]_ingestVars
  PROVE  PathInv'
<1>. SUFFICES ASSUME NEW r \in Runs
              PROVE  /\ Whole(runs'[r].skip)
                     /\ runs'[r].pc \in {"idle", "running"} => runs'[r].next \in Steps \ runs'[r].skip
                     /\ runs'[r].pc = "idle" => runs'[r].next = 1
                     /\ runs'[r].pc = "done" => runs'[r].next = 16
  BY DEF PathInv
<1>1. Moves(r)
  BY IngestMoves
<1>. QED  BY <1>1 DEF Moves, PathInv, Whole, Advances, Steps

----------------------------------------------------------------------------
(* What the facts of the ingest say. *)

\* An assertion of the ingest was recorded under the keys it asserts.
OwnKeyed ==
  \A f \in facts : f.kind = "entity.asserted" /\ f.writer = IngestWriter =>
    f.key \in {<<"ids", f.payload.keys>>, <<"caller", <<"twice", f.payload.keys>>>>}

\* An edge of the ingest was recorded under what it joins.
OwnLinked ==
  \A pred, a, b : \A f \in facts :
    f.kind = "edge.asserted" /\ f.writer = IngestWriter /\ f.key = <<"caller", <<pred, a, b>>>> =>
      f.payload.predicate = pred /\ f.payload.from = a /\ f.payload.to = b

\* What a write adds to the log is of its writer, and its inferred edges are no link's.
LEMMA AppendBy ==
  ASSUME NEW w \in Writers, NEW c \in Candidate, IInv, AppendEntityFact(w, c)
  PROVE  \A f \in facts' \ facts : f.writer = w /\ (f.kind = "edge.asserted" => f.key[1] = "sameas")
<1>. DEFINE Fits(f) == f.writer = w /\ (f.kind = "edge.asserted" => f.key[1] = "sameas")
<1>1. \A id, n : Fits(AssertOnto(w, c, id, n))
  BY DEF AssertOnto, NewFact
<1>2. ASSUME NEW keep, NEW D, NEW f \in MergeFacts(w, c, keep, D) PROVE Fits(f)
  <2>. DEFINE rank(d) == Cardinality({x \in D : x <= d})
              m(d) == NewFact(Head + rank(d), "entity.merged", d, w, <<"mergeof", EntityDedupeKey(c), d>>,
                              [keep |-> keep, drop |-> d])
  <2>1. MergeFacts(w, c, keep, D) = {m(d) : d \in D}
    BY DEF MergeFacts
  <2>2. \A d : Fits(m(d))
    BY DEF NewFact
  <2>. HIDE DEF m, Fits
  <2>. QED  BY <1>2, <2>1, <2>2
<1>3. \A n, e, k, t, p : Fits(NewFact(n, "edge.asserted", e, w, <<"sameas", k, t>>, p))
  BY DEF NewFact
<1>. SUFFICES \A f \in facts' \ facts : Fits(f)
  OBVIOUS
<1>. HIDE DEF Fits
<1>4. PICK d \in Resolve(proj, c) :
       \/ d.action = "insert_new"     /\ InsertNew(w, c)
       \/ d.action = "insert_flagged" /\ InsertFlagged(w, c, d.target)
       \/ d.action = "attach"         /\ Attach(w, c, d.target)
       \/ d.action = "merge"          /\ MergeThenAttach(w, c, d.target, d.drops)
  BY DEF AppendEntityFact
<1>5. CASE InsertNew(w, c)
  <2>1. \E id : facts' = facts \cup {AssertOnto(w, c, id, Head + 1)}
    BY <1>5 DEF InsertNew, Commit
  <2>. QED  BY <1>1, <2>1
<1>6. CASE InsertFlagged(w, c, d.target)
  <2>1. \E id, e, edge : facts' = facts \cup {AssertOnto(w, c, id, Head + 1),
           NewFact(Head + 2, "edge.asserted", e, w, <<"sameas", EntityDedupeKey(c), d.target>>, edge)}
    BY <1>6 DEF InsertFlagged, Commit
  <2>. QED  BY <1>1, <1>3, <2>1
<1>7. CASE Attach(w, c, d.target)
  <2>1. facts' = facts \cup {AssertOnto(w, c, d.target, Head + 1)}
    BY <1>7 DEF Attach, Commit
  <2>. QED  BY <1>1, <2>1
<1>8. CASE MergeThenAttach(w, c, d.target, d.drops)
  <2>1. facts' = facts \cup (MergeFacts(w, c, d.target, d.drops)
                   \cup {AssertOnto(w, c, d.target, Head + Cardinality(d.drops) + 1)})
    BY <1>8 DEF MergeThenAttach, Commit
  <2>. QED  BY <1>1, <1>2, <2>1
<1>. QED  BY <1>4, <1>5, <1>6, <1>7, <1>8

LEMMA OthersBy ==
  ASSUME IInv, OthersWrite
  PROVE  \A f \in facts' \ facts : f.writer # IngestWriter
<1>1. CASE \E w \in Others, c \in Candidates : AppendEntityFact(w, c)
  <2>1. PICK w \in Others, c \in Candidates : AppendEntityFact(w, c)
    BY <1>1
  <2>2. w \in Writers /\ w # IngestWriter /\ c \in Candidate
    BY StoreAssumption DEF Others
  <2>. QED  BY <2>1, <2>2, AppendBy
<1>2. CASE \E w \in Others, in \in EdgeInputs : AppendEdgeFact(w, in)
  BY <1>2 DEF AppendEdgeFact, Commit, NewFact, Others
<1>3. CASE \E w \in Others, m \in MergeInputs : MergeEntities(w, m[1], m[2])
  BY <1>3 DEF MergeEntities, Commit, NewFact, Others
<1>4. CASE \E w \in Others, id \in EntityIds : ~FreshEntity(id) /\ RetractEntity(w, id)
  BY <1>4 DEF RetractEntity, Commit, NewFact, Others
<1>5. CASE \E w \in Others, id \in EdgeIds : ~FreshEdge(id) /\ RetractEdge(w, id)
  BY <1>5 DEF RetractEdge, Commit, NewFact, Others
<1>. QED  BY <1>1, <1>2, <1>3, <1>4, <1>5 DEF OthersWrite

\* A key of a link is of no inferred edge and of no other link.
LEMMA LinkKeys ==
  /\ \A pred, a, b : \A k : k = <<"caller", <<pred, a, b>>>> => k[1] # "sameas"
  /\ \A pred, a, b, p2, a2, b2 :
       <<"caller", <<pred, a, b>>>> = <<"caller", <<p2, a2, b2>>>> => pred = p2 /\ a = a2 /\ b = b2
OBVIOUS

LEMMA OwnLinkedKept ==
  ASSUME IngestInv, OwnLinked, [IngestNext]_ingestVars
  PROVE  OwnLinked'
<1>1. IInv /\ RunInv /\ IngestWriter \in Writers
  BY IngestAssumption DEF IngestInv
<1>2. ASSUME \A pred, a, b : \A f \in facts' \ facts :
               f.kind = "edge.asserted" /\ f.writer = IngestWriter /\ f.key = <<"caller", <<pred, a, b>>>> =>
                 f.payload.predicate = pred /\ f.payload.from = a /\ f.payload.to = b
      PROVE  OwnLinked'
  BY <1>2 DEF OwnLinked
<1>3. ASSUME NEW c \in Candidate, AppendEntityFact(IngestWriter, c)
      PROVE  OwnLinked'
  BY <1>1, <1>2, <1>3, AppendBy, LinkKeys
<1>4. ASSUME NEW r \in Runs, NEW part \in Parts, Upsert(r, part)
      PROVE  OwnLinked'
  <2>1. AppendEntityFact(IngestWriter, PartInput(r, part)) \/ facts' = facts
    BY <1>4 DEF Upsert, vars
  <2>. QED  BY <1>1, <1>2, <1>3, <2>1, PartInputType
<1>5. ASSUME NEW r \in Runs, NEW part \in Parts, AttachTMDB(r, part)
      PROVE  OwnLinked'
  <2>1. PICK s \in runs[r].loaded : AppendEntityFact(IngestWriter, Reassertion(s)) \/ facts' = facts
    BY <1>5 DEF AttachTMDB, vars
  <2>2. s \in Snapshot
    BY <1>1 DEF RunInv, Run
  <2>. QED  BY <1>2, <1>3, <2>1, <2>2, ReassertionType
<1>6. ASSUME NEW r \in Runs, NEW pred \in Relations, NEW from \in Parts, NEW to \in Parts,
             LinkParts(r, pred, from, to)
      PROVE  OwnLinked'
  <2>. DEFINE in == PartLink(r, pred, from, to)
  <2>1. CASE AppendEdgeFact(IngestWriter, in)
    <3>1. PICK e : facts' = facts \cup {NewFact(Head + 1, "edge.asserted", e, IngestWriter, EdgeDedupeKey(in),
                      [id |-> e, predicate |-> in.predicate, from |-> in.from, to |-> in.to, space |-> in.space])}
      BY <2>1 DEF AppendEdgeFact, Commit
    <3>. DEFINE g == NewFact(Head + 1, "edge.asserted", e, IngestWriter, EdgeDedupeKey(in),
                   [id |-> e, predicate |-> in.predicate, from |-> in.from, to |-> in.to, space |-> in.space])
    <3>6. /\ g.key = EdgeDedupeKey(in)
          /\ g.payload.predicate = in.predicate /\ g.payload.from = in.from /\ g.payload.to = in.to
      BY DEF NewFact
    <3>7. facts' = facts \cup {g}
      BY <3>1
    <3>. HIDE DEF g
    <3>2. PICK f : /\ facts' = facts \cup {f} /\ f.key = EdgeDedupeKey(in)
                   /\ f.payload.predicate = in.predicate /\ f.payload.from = in.from /\ f.payload.to = in.to
      BY <3>6, <3>7
    <3>3. in.dedupe # NoKey
      <4>1. in \in EdgeInput
        BY <1>1, <2>1, PartLinkType
      <4>2. {in.from, in.to} \subseteq EntityIds
        BY <4>1 DEF EdgeInput
      <4>3. in.dedupe = <<pred, in.from, in.to>>
        BY DEF PartLink
      <4>. HIDE DEF in
      <4>4. in.dedupe \in CallerKeys
        BY <4>2, <4>3, IngestAssumption
      <4>. QED  BY <4>4, StoreAssumption
    <3>4. /\ EdgeDedupeKey(in) = <<"caller", <<pred, in.from, in.to>>>> /\ in.predicate = pred
      BY <3>3 DEF EdgeDedupeKey, PartLink
    <3>. HIDE DEF in
    <3>5. \A p, a, b : f.key = <<"caller", <<p, a, b>>>> =>
            f.payload.predicate = p /\ f.payload.from = a /\ f.payload.to = b
      BY <3>2, <3>4, LinkKeys
    <3>. QED  BY <1>2, <3>2, <3>5
  <2>2. CASE facts' = facts
    BY <1>2, <2>2
  <2>. QED  BY <1>6, <2>1, <2>2 DEF LinkParts, vars
<1>7. CASE OthersWrite
  BY <1>1, <1>2, <1>7, OthersBy
<1>8. CASE facts' = facts
  BY <1>2, <1>8
<1>9. CASE \E r \in Runs, part \in Parts : Upsert(r, part)
  BY <1>4, <1>9
<1>10. CASE \E r \in Runs, part \in Parts : AttachTMDB(r, part)
  BY <1>5, <1>10
<1>11. CASE \E r \in Runs, pred \in Relations, from, to \in Parts : LinkParts(r, pred, from, to)
  BY <1>6, <1>11
<1>12. CASE \/ \E r \in Runs : Fetch(r)
            \/ \E r \in Runs, part \in Parts : Reconcile(r, part)
            \/ \E r \in Runs, part \in Parts : Load(r, part)
            \/ RebuildProjection /\ UNCHANGED runs
            \/ UNCHANGED ingestVars
  <2>1. facts' = facts
    BY <1>12 DEF Fetch, Reconcile, Load, RebuildProjection, ingestVars, vars
  <2>. QED  BY <1>8, <2>1
<1>. QED  BY <1>7, <1>9, <1>10, <1>11, <1>12 DEF IngestNext

\* An ingest asserts under the keys it asserts, or under the caller's key that names them.
LEMMA OwnInputKey ==
  ASSUME NEW c \in OwnInputs
  PROVE  EntityDedupeKey(c) \in {<<"ids", c.keys>>, <<"caller", <<"twice", c.keys>>>>}
BY DEF OwnInputs, EntityDedupeKey, RandomKeyNeeded, DeriveDedupeKey

LEMMA OwnKeyedKept ==
  ASSUME IngestInv, OwnKeyed, [IngestNext]_ingestVars
  PROVE  OwnKeyed'
<1>1. /\ facts \subseteq facts'
      /\ \A f \in facts' \ facts : f.kind = "entity.asserted" =>
           \E w \in Writers : \E c \in IngestInputs[w], id \in EntityIds : \E n : f = AssertOnto(w, c, id, n)
  BY IngestOperates, IngestInputsAre, OperatesAdds DEF IngestInv
<1>2. ASSUME NEW f \in facts' \ facts, f.kind = "entity.asserted", f.writer = IngestWriter
      PROVE  f.key \in {<<"ids", f.payload.keys>>, <<"caller", <<"twice", f.payload.keys>>>>}
  <2>1. PICK w \in Writers : \E c \in IngestInputs[w], id \in EntityIds : \E n : f = AssertOnto(w, c, id, n)
    BY <1>1, <1>2
  <2>2. PICK c \in IngestInputs[w], id \in EntityIds : \E n : f = AssertOnto(w, c, id, n)
    BY <2>1
  <2>3. f.writer = w /\ f.key = EntityDedupeKey(c) /\ f.payload.keys = c.keys
    BY <2>2 DEF AssertOnto, NewFact, Marshal
  <2>4. c \in OwnInputs
    BY <1>2, <2>2, <2>3, IngestInputsAre
  <2>. QED  BY <2>3, <2>4, OwnInputKey
<1>. QED  BY <1>1, <1>2 DEF OwnKeyed

----------------------------------------------------------------------------
(* What a failure tells. *)

\* Something that an ingest wrote was taken out of the graph.
Loss == \E f \in facts : f.subject \in Ingested /\ (Tombstone(f) \/ f.kind = "edge.retracted")

\* The work was another's when the ingest asserted it.
OfOthers(r) == \E f \in AssertedAs(<<"ids", {Anchor["work"]}>>) : ~ OwnNode(r, f.subject)

FailInv == \A r \in Runs : runs[r].pc = "failed" => Loss \/ OfOthers(r)

\* A run knows the nodes of the parts that its step uses.
LEMMA Knows ==
  ASSUME IngestInv, PathInv, NEW r \in Runs, runs[r].pc = "running"
  PROVE  /\ \A part \in Parts : Plan[runs[r].next] = <<"load", part>> =>
              part \in {"work", "clipWork"} /\ runs[r].ids[part] \in EntityIds
         /\ \A pred \in Relations, from, to \in Parts : Plan[runs[r].next] = <<"link", pred, from, to>> =>
              runs[r].ids[from] \in EntityIds /\ runs[r].ids[to] \in EntityIds
<1>. DEFINE n == runs[r].next
            K == runs[r].skip
<1>1. n \in Steps /\ n \notin K /\ Whole(K)
  BY DEF PathInv
<1>2. \A part \in Parts, i \in Steps :
        Plan[i] = <<"upsert", part>> /\ i < n /\ i \notin K => runs[r].ids[part] \in EntityIds
  BY DEF IngestInv, RunInv, Upserted
<1>3. /\ n > 1 => runs[r].ids["video"] \in EntityIds
      /\ n > 2 /\ 2 \notin K => runs[r].ids["channel"] \in EntityIds
      /\ n > 5 /\ 5 \notin K => runs[r].ids["work"] \in EntityIds
      /\ n > 9 /\ 9 \notin K => runs[r].ids["clip"] \in EntityIds
      /\ n > 12 /\ 12 \notin K => runs[r].ids["clipWork"] \in EntityIds
  <2>1. /\ Plan[1] = <<"upsert", "video">> /\ Plan[2] = <<"upsert", "channel">>
        /\ Plan[5] = <<"upsert", "work">> /\ Plan[9] = <<"upsert", "clip">>
        /\ Plan[12] = <<"upsert", "clipWork">>
    BY DEF Plan
  <2>2. 1 \notin K
    BY <1>1 DEF Whole
  <2>. HIDE DEF n, K
  <2>. QED  BY <1>1, <1>2, <2>1, <2>2 DEF Steps, Parts
<1>4. ASSUME NEW part \in Parts, Plan[n] = <<"load", part>>
      PROVE  part \in {"work", "clipWork"} /\ runs[r].ids[part] \in EntityIds
  <2>1. (n = 6 /\ part = "work") \/ (n = 13 /\ part = "clipWork")
    <3>. HIDE DEF n
    <3>. QED  BY <1>1, <1>4 DEF Plan, Steps
  <2>. HIDE DEF n, K
  <2>. QED  BY <1>1, <1>3, <2>1 DEF Whole
<1>5. ASSUME NEW pred \in Relations, NEW from \in Parts, NEW to \in Parts,
             Plan[n] = <<"link", pred, from, to>>
      PROVE  runs[r].ids[from] \in EntityIds /\ runs[r].ids[to] \in EntityIds
  <2>1. \/ n = 3 /\ from = "video" /\ to = "channel"
        \/ n = 8 /\ from = "video" /\ to = "work"
        \/ n = 10 /\ from = "clip" /\ to = "video"
        \/ n = 15 /\ from = "clip" /\ to = "clipWork"
    <3>. HIDE DEF n
    <3>. QED  BY <1>1, <1>5 DEF Plan, Steps
  <2>. HIDE DEF n, K
  <2>. QED  BY <1>1, <1>3, <2>1 DEF Whole
<1>. QED  BY <1>4, <1>5

\* A node the ingest asserted is there, or was lost.
LEMMA AssertedOrLost ==
  ASSUME Stays(facts, proj), NEW f \in facts, f.kind = "entity.asserted", f.writer = IngestWriter,
         f.subject \notin Live(proj)
  PROVE  Loss
<1>1. Lost(facts, f.subject)
  BY DEF Stays, Asserts
<1>2. f.subject \in Ingested
  BY DEF Ingested
<1>. QED  BY <1>1, <1>2 DEF Lost, Loss

\* A run fails on a loss or on a work of others.
LEMMA FailingTells ==
  ASSUME IngestInv, PathInv, Kept(facts, proj, IngestWriter), OwnLinked,
         NEW r \in Runs, runs[r].pc = "running", Failing(r)
  PROVE  Loss \/ OfOthers(r)
<1>1. CASE \E f \in facts : f.kind = "entity.asserted" /\ f.writer = IngestWriter /\ f.subject \notin Live(proj)
  BY <1>1, AssertedOrLost DEF Kept
<1>2. ASSUME NEW part \in Parts, runs[r].ids[part] \in EntityIds
      PROVE  \E f \in AssertedAs(<<"ids", {Anchor[part]}>>) : f.subject = runs[r].ids[part]
  BY <1>2, IngestAssumption DEF IngestInv, Recorded
<1>3. ASSUME NEW part \in Parts, runs[r].ids[part] \in EntityIds
      PROVE  /\ runs[r].ids[part] \in Ingested
             /\ runs[r].ids[part] \in Live(proj) \/ Loss
  <2>1. PICK f \in AssertedAs(<<"ids", {Anchor[part]}>>) : f.subject = runs[r].ids[part]
    BY <1>2, <1>3
  <2>2. f \in facts /\ f.kind = "entity.asserted" /\ f.writer = IngestWriter
    BY DEF AssertedAs
  <2>3. f.subject \in Ingested
    BY <2>2 DEF Ingested
  <2>. QED  BY <2>1, <2>2, <2>3, AssertedOrLost DEF Kept
<1>4. ASSUME NEW part \in Parts, Plan[runs[r].next] = <<"load", part>>,
             ~ (runs[r].ids[part] \in Live(proj) /\ OwnNode(r, runs[r].ids[part]))
      PROVE  Loss \/ OfOthers(r)
  <2>1. part \in {"work", "clipWork"} /\ runs[r].ids[part] \in EntityIds
    BY <1>4, Knows
  <2>2. Anchor[part] = Anchor["work"]
    BY <2>1, IngestAssumption
  <2>3. CASE runs[r].ids[part] \in Live(proj)
    BY <1>2, <1>4, <2>1, <2>2, <2>3 DEF OfOthers
  <2>4. CASE runs[r].ids[part] \notin Live(proj)
    BY <1>3, <2>1, <2>4
  <2>. QED  BY <2>3, <2>4
<1>5. ASSUME NEW pred \in Relations, NEW from \in Parts, NEW to \in Parts,
             Plan[runs[r].next] = <<"link", pred, from, to>>, LinkRefused(PartLink(r, pred, from, to))
      PROVE  Loss
  <2>. DEFINE a == runs[r].ids[from]
              b == runs[r].ids[to]
              in == PartLink(r, pred, from, to)
  <2>1. a \in EntityIds /\ b \in EntityIds
    BY <1>5, Knows
  <2>2. /\ a \in Ingested /\ b \in Ingested
        /\ a \in Live(proj) \/ Loss
        /\ b \in Live(proj) \/ Loss
    BY <1>3, <2>1
  <2>3. in.from = a /\ in.to = b /\ EdgeDedupeKey(in) = <<"caller", <<pred, a, b>>>>
    <3>1. <<pred, a, b>> \in CallerKeys
      BY <2>1, IngestAssumption
    <3>2. <<pred, a, b>> # NoKey
      BY <3>1, StoreAssumption
    <3>3. in.from = a /\ in.to = b /\ in.dedupe = <<pred, a, b>>
      BY DEF PartLink
    <3>. HIDE DEF in
    <3>. QED  BY <3>2, <3>3 DEF EdgeDedupeKey
  <2>. HIDE DEF in, a, b
  <2>4. CASE ~ {in.from, in.to} \subseteq Live(proj)
    BY <2>2, <2>3, <2>4
  <2>5. CASE PriorEdges(in) \ LiveEdges # {}
    <3>1. PICK f \in facts : /\ f.kind = "edge.asserted" /\ f.writer = IngestWriter
                             /\ f.key = EdgeDedupeKey(in) /\ f.subject \notin LiveEdges
      BY <2>5 DEF PriorEdges
    <3>2. f.payload.from = a /\ f.payload.to = b
      BY <2>3, <3>1 DEF OwnLinked
    <3>3. f.payload.id = f.subject
          /\ \/ f.payload \in proj.edges
             \/ \E g \in facts : g.kind = "edge.retracted" /\ g.subject = f.subject
             \/ Lost(facts, a) \/ Lost(facts, b)
      BY <3>1, <3>2 DEF Kept, Joined
    <3>4. f.payload \notin proj.edges
      BY <3>1, <3>3 DEF LiveEdges
    <3>5. f.subject \in Ingested
      BY <3>1 DEF Ingested
    <3>. QED  BY <2>2, <3>3, <3>4, <3>5 DEF Lost, Loss
  <2>. QED  BY <1>5, <2>4, <2>5 DEF LinkRefused, in
<1>. QED  BY <1>1, <1>4, <1>5 DEF Failing

\* The log is numbered without gaps, so what is added is younger.
LEMMA AddedLater ==
  ASSUME FoldInv, FoldInv', facts \subseteq facts', NEW f \in facts, NEW g \in facts' \ facts
  PROVE  f.seq <= g.seq
<1>1. Numbered(facts, 0, Head) /\ Numbered(facts', 0, Head')
  BY DEF FoldInv, Folds
<1>2. g.seq \in 1 .. Head' /\ f.seq \in 1 .. Head /\ Head \in Nat /\ Head' \in Nat
  BY <1>1 DEF Numbered
<1>3. g.seq \notin 1 .. Head
  <2>. SUFFICES ASSUME g.seq \in 1 .. Head PROVE FALSE
    OBVIOUS
  <2>1. PICK h \in facts : h.seq = g.seq
    BY <1>1 DEF Numbered
  <2>2. h = g
    BY <1>1, <2>1 DEF Numbered
  <2>. QED  BY <2>1, <2>2
<1>. QED  BY <1>2, <1>3

\* What was told stays told.
LEMMA StillTold ==
  ASSUME FoldInv, FoldInv', facts \subseteq facts', NEW r \in Runs, Loss \/ OfOthers(r)
  PROVE  Loss' \/ OfOthers(r)'
<1>1. Loss => Loss'
  BY DEF Loss, Ingested, Tombstone
<1>2. ASSUME NEW f \in AssertedAs(<<"ids", {Anchor["work"]}>>), ~ OwnNode(r, f.subject), OwnNode(r, f.subject)'
      PROVE  FALSE
  <2>1. f \in facts /\ f.kind = "entity.asserted"
    BY <1>2 DEF AssertedAs
  <2>2. PICK h \in facts' : /\ h.kind = "entity.asserted" /\ h.subject = f.subject /\ h.writer = IngestWriter
                            /\ h.payload.space = RequestSpace[r]
                            /\ \A g \in facts' : g.kind = "entity.asserted" /\ g.subject = f.subject => h.seq <= g.seq
    BY <1>2 DEF OwnNode
  <2>3. h.seq <= f.seq
    BY <2>1, <2>2
  <2>4. h \in facts
    <3>. SUFFICES ASSUME h \notin facts PROVE FALSE
      OBVIOUS
    <3>1. f.seq <= h.seq
      BY <2>1, AddedLater
    <3>2. f.seq \in Nat /\ h.seq \in Nat
      BY <2>1, <2>2 DEF FoldInv, Folds, Numbered
    <3>3. f.seq = h.seq
      BY <2>3, <3>1, <3>2
    <3>4. f = h
      BY <2>1, <2>2, <3>3 DEF FoldInv, Folds, Numbered
    <3>. QED  BY <2>1, <3>4
  <2>. QED  BY <1>2, <2>2, <2>4 DEF OwnNode
<1>3. AssertedAs(<<"ids", {Anchor["work"]}>>) \subseteq AssertedAs(<<"ids", {Anchor["work"]}>>)'
  BY DEF AssertedAs
<1>. QED  BY <1>1, <1>2, <1>3 DEF OfOthers

\* Everything a run rests on.
StoryInv == FoldInv /\ PathInv /\ Kept(facts, proj, IngestWriter) /\ OwnKeyed /\ OwnLinked

LEMMA StoryKept ==
  ASSUME IngestInv, StoryInv, [IngestNext]_ingestVars
  PROVE  StoryInv'
<1>1. IInv /\ IngestWriter \in Writers
  BY IngestAssumption DEF IngestInv
<1>2. FoldInv'
  BY <1>1, IngestOperates, IngestInputsAre, OperatesFolds DEF StoryInv
<1>3. Kept(facts', proj', IngestWriter)
  <2>1. \A c \in IngestInputs[IngestWriter] : c.policy # "force_new"
    BY IngestInputsAre DEF OwnInputs
  <2>. QED  BY <1>1, <2>1, IngestOperates, IngestInputsAre, KeptOperates DEF StoryInv
<1>4. PathInv'
  BY PathKept DEF StoryInv
<1>. QED  BY <1>2, <1>3, <1>4, OwnKeyedKept, OwnLinkedKept DEF StoryInv

LEMMA FailKept ==
  ASSUME IngestInv, StoryInv, FailInv, [IngestNext]_ingestVars
  PROVE  FailInv'
<1>. SUFFICES ASSUME NEW r \in Runs, runs'[r].pc = "failed" PROVE Loss' \/ OfOthers(r)'
  BY DEF FailInv
<1>1. Loss \/ OfOthers(r)
  <2>1. CASE runs[r].pc = "failed"
    BY <2>1 DEF FailInv
  <2>2. CASE runs[r].pc # "failed"
    <3>1. runs[r].pc = "running" /\ Failing(r)
      BY <2>2, IngestMoves DEF Moves, Advances, StoryInv
    <3>. QED  BY <3>1, FailingTells DEF StoryInv
  <2>. QED  BY <2>1, <2>2
<1>2. facts \subseteq facts'
  BY IngestOperates, IngestInputsAre, OperatesAdds DEF IngestInv
<1>3. FoldInv /\ FoldInv'
  BY StoryKept DEF StoryInv
<1>. QED  BY <1>1, <1>2, <1>3, StillTold

\* The story begins with an empty store.
LEMMA StoryAtFirst == IngestInit => StoryInv /\ FailInv
<1>. SUFFICES ASSUME IngestInit PROVE StoryInv /\ FailInv
  OBVIOUS
<1>1. facts = {} /\ FoldInv
  BY FoldAtFirst DEF IngestInit, Init
<1>2. \A r \in Runs : runs[r].pc = "idle" /\ runs[r].next = 1 /\ runs[r].skip = {}
  BY DEF IngestInit
<1>3. PathInv
  BY <1>2 DEF PathInv, Whole, Steps
<1>4. FailInv
  BY <1>2 DEF FailInv
<1>5. Kept(facts, proj, IngestWriter)
  BY <1>1 DEF Kept, Stays, Holds, Joined, Asserts
<1>6. OwnKeyed /\ OwnLinked
  BY <1>1 DEF OwnKeyed, OwnLinked
<1>. QED  BY <1>1, <1>3, <1>4, <1>5, <1>6 DEF StoryInv

LEMMA StoryEver == IngestSpec => [](IngestInv /\ StoryInv)
BY StoryAtFirst, StoryKept, IngestInductive, PTL DEF IngestSpec

\* A run that stopped, or overlaps another, leaves nothing that makes the next one fail: a
\* run fails only on a node or edge that was taken out of the graph after an ingest wrote
\* it, or on a work that others have (ingest.go:300-301, 394-395), whatever others write.
THEOREM FailsOnlyOnLossEver == IngestSpec => []FailsOnlyOnLoss
<1>1. IngestInv /\ StoryInv /\ FailInv => FailsOnlyOnLoss
  <2>. SUFFICES ASSUME IngestInv, StoryInv, FailInv, NEW r \in Runs, runs[r].pc = "failed", ~ Loss
                PROVE  \E x \in proj.ext : x.key = Anchor["work"] /\ ~ OwnNode(r, x.entity)
    BY DEF FailsOnlyOnLoss, Loss
  <2>1. PICK f \in AssertedAs(<<"ids", {Anchor["work"]}>>) : ~ OwnNode(r, f.subject)
    BY DEF FailInv, OfOthers
  <2>2. f \in facts /\ f.kind = "entity.asserted" /\ f.writer = IngestWriter /\ f.key = <<"ids", {Anchor["work"]}>>
    BY DEF AssertedAs
  <2>3. f.subject \in Live(proj)
    BY <2>2, AssertedOrLost DEF StoryInv, Kept
  <2>4. f.payload.keys = {Anchor["work"]}
    BY <2>2 DEF StoryInv, OwnKeyed
  <2>5. PICK x \in proj.ext : x.entity = f.subject /\ x.key = Anchor["work"]
    BY <2>2, <2>3, <2>4 DEF StoryInv, Kept, Holds, Asserts
  <2>. QED  BY <2>1, <2>5
<1>2. IngestInit => FailInv
  BY StoryAtFirst
<1>. QED  BY <1>1, <1>2, FailKept, StoryEver, PTL DEF IngestSpec

----------------------------------------------------------------------------
(* What a run leaves behind. *)

\* An edge was asserted for every link it is past.
LinksMade ==
  \A r \in Runs, i \in Steps, pred \in Relations, from, to \in Parts :
    Plan[i] = <<"link", pred, from, to>> /\ i < runs[r].next /\ i \notin runs[r].skip =>
      \E f \in facts : /\ f.kind = "edge.asserted" /\ f.payload.predicate = pred
                       /\ f.payload.from = runs[r].ids[from] /\ f.payload.to = runs[r].ids[to]

\* What it read back of a work has the work's anchor.
ReadBack ==
  \A r \in Runs, part \in Parts :
    runs[r].pc = "running" /\ Plan[runs[r].next] = <<"attach", part>> =>
      \A x \in runs[r].loaded : Anchor[part] \in x.keys

\* A work was asserted with both its keys for every attach it is past.
Tagged ==
  \A r \in Runs, i \in Steps, part \in Parts :
    Plan[i] = <<"attach", part>> /\ i < runs[r].next /\ i \notin runs[r].skip =>
      \E f \in facts : /\ f.kind = "entity.asserted" /\ f.writer = IngestWriter
                       /\ {Anchor[part], Tmdb} \subseteq f.payload.keys

\* No node of a later part is linked before it is upserted.
LEMMA PlanOrder ==
  ASSUME NEW i \in Steps, NEW j \in Steps, i < j,
         NEW pred \in Relations, NEW from \in Parts, NEW to \in Parts, NEW part \in Parts,
         Plan[i] = <<"link", pred, from, to>>, Plan[j] = <<"upsert", part>>
  PROVE  from # part /\ to # part
<1>1. \/ (i = 3 /\ from = "video" /\ to = "channel")
      \/ (i = 8 /\ from = "video" /\ to = "work")
      \/ (i = 10 /\ from = "clip" /\ to = "video")
      \/ (i = 15 /\ from = "clip" /\ to = "clipWork")
  BY DEF Plan, Steps
<1>2. \/ (j = 1 /\ part = "video") \/ (j = 2 /\ part = "channel") \/ (j = 5 /\ part = "work")
      \/ (j = 9 /\ part = "clip") \/ (j = 12 /\ part = "clipWork")
  BY DEF Plan, Steps
<1>. QED  BY <1>1, <1>2

\* The key of a link.
LEMMA LinkKey ==
  ASSUME NEW r \in Runs, NEW pred \in Relations, NEW from \in Parts, NEW to \in Parts,
         runs[r].ids[from] \in EntityIds, runs[r].ids[to] \in EntityIds
  PROVE  EdgeDedupeKey(PartLink(r, pred, from, to)) = <<"caller", <<pred, runs[r].ids[from], runs[r].ids[to]>>>>
<1>. DEFINE in == PartLink(r, pred, from, to)
            k == <<pred, runs[r].ids[from], runs[r].ids[to]>>
<1>1. k \in CallerKeys
  BY IngestAssumption
<1>2. k # NoKey
  BY <1>1, StoreAssumption
<1>3. in.dedupe = k
  BY DEF PartLink
<1>. HIDE DEF in, k
<1>4. EdgeDedupeKey(in) = <<"caller", k>>
  BY <1>2, <1>3 DEF EdgeDedupeKey
<1>. QED  BY <1>4 DEF in, k

\* A link that is passed is made (link).
LEMMA LinksMadeKept ==
  ASSUME IngestInv, StoryInv, LinksMade, [IngestNext]_ingestVars
  PROVE  LinksMade'
<1>. SUFFICES ASSUME NEW r \in Runs, NEW i \in Steps, NEW pred \in Relations, NEW from \in Parts, NEW to \in Parts,
                     Plan[i] = <<"link", pred, from, to>>, i < runs'[r].next, i \notin runs'[r].skip
              PROVE  \E f \in facts' : /\ f.kind = "edge.asserted" /\ f.payload.predicate = pred
                                       /\ f.payload.from = runs'[r].ids[from] /\ f.payload.to = runs'[r].ids[to]
  BY DEF LinksMade
<1>1. facts \subseteq facts'
  BY IngestOperates, IngestInputsAre, OperatesAdds DEF IngestInv
<1>2. Moves(r) /\ PathInv
  BY IngestMoves DEF StoryInv
<1>3. ASSUME i < runs[r].next, i \notin runs[r].skip,
             runs'[r].ids[from] = runs[r].ids[from], runs'[r].ids[to] = runs[r].ids[to]
      PROVE  \E f \in facts' : /\ f.kind = "edge.asserted" /\ f.payload.predicate = pred
                               /\ f.payload.from = runs'[r].ids[from] /\ f.payload.to = runs'[r].ids[to]
  BY <1>1, <1>3 DEF LinksMade
<1>4. CASE runs'[r] = runs[r]
  BY <1>3, <1>4
<1>5. CASE /\ runs[r].pc = "idle" /\ runs'[r].next = runs[r].next
  BY <1>2, <1>5 DEF PathInv, Steps
<1>6. CASE /\ runs'[r].next = runs[r].next /\ runs'[r].ids = runs[r].ids /\ runs'[r].skip = runs[r].skip
  BY <1>3, <1>6
<1>7. CASE Advances(runs[r], runs'[r]) /\ Doings(r)
  <2>1. /\ runs[r].pc = "running" /\ runs[r].next \in Steps
        /\ i <= runs[r].next /\ i \notin runs[r].skip
    BY <1>7 DEF Advances
  <2>2. CASE i = runs[r].next
    <3>1. /\ runs'[r].ids = runs[r].ids
          /\ \E f \in facts' : /\ f.kind = "edge.asserted" /\ f.writer = IngestWriter
                               /\ f.key = EdgeDedupeKey(PartLink(r, pred, from, to))
      <4>1. Doings(r) /\ Plan[runs[r].next] = <<"link", pred, from, to>>
        BY <1>7, <2>2
      <4>. QED  BY <4>1 DEF Doings
    <3>2. runs[r].ids[from] \in EntityIds /\ runs[r].ids[to] \in EntityIds
      BY <1>2, <2>1, <2>2, Knows
    <3>3. PICK f \in facts' : /\ f.kind = "edge.asserted" /\ f.writer = IngestWriter
                              /\ f.key = <<"caller", <<pred, runs[r].ids[from], runs[r].ids[to]>>>>
      BY <3>1, <3>2, LinkKey
    <3>4. OwnLinked'
      BY OwnLinkedKept DEF StoryInv
    <3>5. /\ f.payload.predicate = pred
          /\ f.payload.from = runs[r].ids[from] /\ f.payload.to = runs[r].ids[to]
      BY <3>3, <3>4 DEF OwnLinked
    <3>. QED  BY <3>1, <3>3, <3>5
  <2>3. CASE i < runs[r].next
    <3>1. \A p \in Parts : p \in {from, to} => runs'[r].ids[p] = runs[r].ids[p]
      <4>1. CASE \E part \in Parts : /\ Plan[runs[r].next] = <<"upsert", part>>
                                     /\ \A p \in Parts : p # part => runs'[r].ids[p] = runs[r].ids[p]
        BY <2>1, <2>3, <4>1, PlanOrder
      <4>2. CASE runs'[r].ids = runs[r].ids
        BY <4>2
      <4>. QED  BY <1>7, <4>1, <4>2 DEF Doings
    <3>. QED  BY <1>3, <2>1, <2>3, <3>1
  <2>. QED  BY <2>1, <2>2, <2>3 DEF Steps
<1>. QED  BY <1>2, <1>4, <1>5, <1>6, <1>7 DEF Moves

\* The snapshot that is asserted again is of the node of the anchor (attachTMDB).
LEMMA ReadBackKept ==
  ASSUME IngestInv, StoryInv, ReadBack, [IngestNext]_ingestVars
  PROVE  ReadBack'
<1>. SUFFICES ASSUME NEW r \in Runs, NEW part \in Parts, runs'[r].pc = "running",
                     Plan[runs'[r].next] = <<"attach", part>>, NEW x \in runs'[r].loaded
              PROVE  Anchor[part] \in x.keys
  BY DEF ReadBack
<1>1. Moves(r) /\ PathInv
  BY IngestMoves DEF StoryInv
<1>2. CASE runs'[r] = runs[r]
  BY <1>2 DEF ReadBack
<1>3. CASE runs[r].pc = "idle" /\ runs'[r].next = runs[r].next
  <2>1. runs'[r].next = 1
    BY <1>1, <1>3 DEF PathInv
  <2>. QED  BY <2>1 DEF Plan
<1>4. CASE Advances(runs[r], runs'[r]) /\ Whole(runs'[r].skip) /\ Doings(r)
  <2>. DEFINE n == runs[r].next
              m == runs'[r].next
  <2>1. /\ runs[r].pc = "running" /\ n \in Steps /\ n < m /\ m \in Steps /\ m \notin runs'[r].skip
        /\ \A i \in Steps : i < m /\ i \notin runs'[r].skip => i <= n
    BY <1>4 DEF Advances
  <2>2. (m = 7 /\ part = "work") \/ (m = 14 /\ part = "clipWork")
    <3>1. m \in Steps /\ Plan[m] = <<"attach", part>>
      BY <2>1
    <3>. HIDE DEF m
    <3>. QED  BY <3>1 DEF Plan, Steps
  <2>. HIDE DEF n, m
  <2>3. (n = 6 /\ part = "work") \/ (n = 13 /\ part = "clipWork")
    BY <1>4, <2>1, <2>2 DEF Whole, Steps
  <2>4. Plan[n] = <<"load", part>>
    BY <2>3 DEF Plan
  <2>5. runs[r].ids[part] \in Live(proj) /\ x \in LoadedSnapshots(runs[r].ids[part])
    BY <1>4, <2>4 DEF Doings, n
  <2>6. runs[r].ids[part] # NoEntity
    BY <2>5, Tables, IngestAssumption DEF IngestInv
  <2>7. PICK f \in AssertedAs(<<"ids", {Anchor[part]}>>) : f.subject = runs[r].ids[part]
    BY <2>6 DEF IngestInv, Recorded
  <2>8. f \in facts /\ f.kind = "entity.asserted" /\ f.writer = IngestWriter /\ f.key = <<"ids", {Anchor[part]}>>
    BY DEF AssertedAs
  <2>9. f.payload.keys = {Anchor[part]}
    BY <2>8 DEF StoryInv, OwnKeyed
  <2>10. PICK y \in proj.ext : y.entity = runs[r].ids[part] /\ y.key = Anchor[part]
    BY <2>5, <2>7, <2>8, <2>9 DEF StoryInv, Kept, Holds, Asserts
  <2>11. x.keys = {z.key : z \in {y2 \in proj.ext : y2.entity = runs[r].ids[part]}}
    BY <2>5 DEF LoadedSnapshots
  <2>. QED  BY <2>10, <2>11
<1>. QED  BY <1>1, <1>2, <1>3, <1>4 DEF Moves

\* An attach that is passed is recorded (attachTMDB).
LEMMA TaggedKept ==
  ASSUME IngestInv, StoryInv, ReadBack, Tagged, [IngestNext]_ingestVars
  PROVE  Tagged'
<1>. DEFINE Both(part, F) == \E f \in F : /\ f.kind = "entity.asserted" /\ f.writer = IngestWriter
                                          /\ {Anchor[part], Tmdb} \subseteq f.payload.keys
<1>. SUFFICES ASSUME NEW r \in Runs, NEW i \in Steps, NEW part \in Parts,
                     Plan[i] = <<"attach", part>>, i < runs'[r].next, i \notin runs'[r].skip
              PROVE  Both(part, facts')
  BY DEF Tagged
<1>1. facts \subseteq facts'
  BY IngestOperates, IngestInputsAre, OperatesAdds DEF IngestInv
<1>2. Moves(r) /\ PathInv
  BY IngestMoves DEF StoryInv
<1>3. ASSUME i < runs[r].next, i \notin runs[r].skip
      PROVE  Both(part, facts')
  BY <1>1, <1>3 DEF Tagged
<1>4. CASE runs'[r].next = runs[r].next /\ runs'[r].skip = runs[r].skip
  BY <1>3, <1>4
<1>5. CASE runs[r].pc = "idle" /\ runs'[r].next = runs[r].next
  BY <1>2, <1>5 DEF PathInv, Steps
<1>6. CASE Advances(runs[r], runs'[r]) /\ Doings(r)
  <2>1. /\ runs[r].pc = "running" /\ runs[r].next \in Steps
        /\ i <= runs[r].next /\ i \notin runs[r].skip
    BY <1>6 DEF Advances
  <2>2. CASE i = runs[r].next
    <3>1. Doings(r) /\ Plan[runs[r].next] = <<"attach", part>>
      BY <1>6, <2>2
    <3>2. PICK s \in runs[r].loaded : \E f \in facts' :
            /\ f.kind = "entity.asserted" /\ f.writer = IngestWriter
            /\ f.key = EntityDedupeKey(Reassertion(s))
      BY <3>1 DEF Doings
    <3>3. PICK f \in facts' : /\ f.kind = "entity.asserted" /\ f.writer = IngestWriter
                              /\ f.key = EntityDedupeKey(Reassertion(s))
      BY <3>2
    <3>4. Anchor[part] \in s.keys
      BY <2>1, <3>1 DEF ReadBack
    <3>5. f.payload.keys = s.keys \cup {Tmdb}
      <4>1. f.key \in {<<"ids", f.payload.keys>>, <<"caller", <<"twice", f.payload.keys>>>>}
        BY <3>3, OwnKeyedKept DEF StoryInv, OwnKeyed
      <4>2. s \in Snapshot
        BY DEF IngestInv, RunInv, Run
      <4>3. EntityDedupeKey(Reassertion(s)) \in {<<"ids", s.keys \cup {Tmdb}>>, <<"caller", <<"twice", s.keys \cup {Tmdb}>>>>}
        <5>. DEFINE c == Reassertion(s)
        <5>1. c \in OwnInputs /\ c.keys = s.keys \cup {Tmdb}
          BY <4>2, OwnInputsAre DEF IngestInv, Reassertion
        <5>. HIDE DEF c
        <5>2. EntityDedupeKey(c) \in {<<"ids", c.keys>>, <<"caller", <<"twice", c.keys>>>>}
          BY <5>1, OwnInputKey
        <5>. QED  BY <5>1, <5>2 DEF c
      <4>. QED  BY <3>3, <4>1, <4>3
    <3>. QED  BY <3>3, <3>4, <3>5
  <2>3. CASE i < runs[r].next
    BY <1>3, <2>1, <2>3
  <2>. QED  BY <2>1, <2>2, <2>3 DEF Steps
<1>. QED  BY <1>2, <1>4, <1>5, <1>6 DEF Moves

----------------------------------------------------------------------------
(* The space of the ingests. *)

\* Whatever an ingest asserts or has read is of the space s.
InSpace(s) ==
  /\ \A f \in facts : f.kind = "entity.asserted" /\ f.writer = IngestWriter => f.payload.space = s
  /\ \A r \in Runs : \A x \in runs[r].loaded : x.space = s

\* So it is as long as the nodes are of one space each: what an ingest reads back is the
\* node it asserted itself (attachTMDB).
LEMMA InSpaceKept ==
  ASSUME NEW s, \A r \in Runs : RequestSpace[r] = s, IngestInv, StoryInv, KeyInv, Linked(facts, proj),
         NodesInOneSpace => InSpace(s), [IngestNext]_ingestVars
  PROVE  NodesInOneSpace' => InSpace(s)'
<1>. SUFFICES ASSUME NodesInOneSpace' PROVE InSpace(s)'
  OBVIOUS
<1>1. NodesInOneSpace /\ InSpace(s)
  BY IngestOperates, IngestInputsAre, LinkedOperates DEF IngestInv
<1>2. ASSUME NEW f \in facts', f.kind = "entity.asserted", f.writer = IngestWriter
      PROVE  f.payload.space = s
  <2>. DEFINE X == {c \in OwnInputs : c.space = s}
              C == [w \in Writers |-> IF w = IngestWriter THEN X ELSE Candidates]
  <2>1. \A r \in Runs, part \in Parts : PartInput(r, part) \in X
    BY OwnInputsAre DEF IngestInv, PartInput
  <2>2. \A r \in Runs : \A x \in runs[r].loaded : Reassertion(x) \in X
    BY <1>1, OwnInputsAre DEF IngestInv, RunInv, Run, InSpace, Reassertion
  <2>3. C \in [Writers -> SUBSET Candidate] /\ IngestWriter \in Writers
    BY StoreAssumption, IngestAssumption DEF OwnInputs
  <2>4. \A c \in C[IngestWriter] : c.space = s
    BY <2>3
  <2>. HIDE DEF X
  <2>5. Operates(C)
    BY <2>1, <2>2, IngestOperatesOn
  <2>. HIDE DEF C
  <2>6. CASE f \in facts
    BY <1>1, <1>2, <2>6 DEF InSpace
  <2>7. CASE f \notin facts
    <3>1. PICK w \in Writers : \E c \in C[w], id \in EntityIds : \E n : f = AssertOnto(w, c, id, n)
      BY <1>2, <2>3, <2>5, <2>7, OperatesAdds DEF IngestInv
    <3>2. PICK c \in C[w], id \in EntityIds : \E n : f = AssertOnto(w, c, id, n)
      BY <3>1
    <3>3. f.writer = w /\ f.payload.space = c.space
      BY <3>2 DEF AssertOnto, NewFact, Marshal
    <3>. QED  BY <1>2, <2>4, <3>2, <3>3
  <2>. QED  BY <2>6, <2>7
<1>3. ASSUME NEW r \in Runs, NEW x \in runs'[r].loaded
      PROVE  x.space = s
  <2>1. CASE runs'[r].loaded = runs[r].loaded
    BY <1>1, <1>3, <2>1 DEF InSpace
  <2>2. CASE \E part \in Parts : /\ runs[r].ids[part] \in Live(proj)
                                 /\ runs'[r].loaded = LoadedSnapshots(runs[r].ids[part])
    <3>1. PICK part \in Parts : /\ runs[r].ids[part] \in Live(proj)
                                /\ x \in LoadedSnapshots(runs[r].ids[part])
      BY <1>3, <2>2
    <3>. DEFINE id == runs[r].ids[part]
    <3>2. x.space = SpaceOf(proj, id)
      BY <3>1 DEF LoadedSnapshots
    <3>3. id # NoEntity /\ id \in EntityIds
      BY <3>1, Tables, IngestAssumption DEF IngestInv
    <3>4. PICK f \in AssertedAs(<<"ids", {Anchor[part]}>>) : f.subject = id
      BY <3>3 DEF IngestInv, Recorded
    <3>5. f \in Asserts(facts) /\ f.payload.space = s
      BY <1>1 DEF AssertedAs, Asserts, InSpace
    <3>6. PICK t, S : Chained(facts, S) /\ Backed(facts, S, proj)
      BY KeyedSome DEF Keyed
    <3>. DEFINE e == CHOOSE e \in proj.entities : e.id = id
    <3>7. e \in proj.entities /\ e.id = id
      BY <3>1 DEF Live
    <3>8. SpaceOf(proj, id) = e.space
      BY DEF SpaceOf
    <3>. HIDE DEF e, id
    <3>9. PICK g \in Asserts(facts) : S[g.subject] = e.id /\ g.payload.space = e.space
      BY <3>6, <3>7 DEF Backed
    <3>10. S[id] = id
      BY <3>1, <3>3, <3>6, AtItself DEF Backed, id
    <3>11. Survivor = S
      BY <3>6, SurvivorIs
    <3>12. f.payload.space = g.payload.space
      BY <1>1, <3>4, <3>5, <3>7, <3>9, <3>10, <3>11 DEF NodesInOneSpace, Asserts
    <3>. QED  BY <3>2, <3>5, <3>8, <3>9, <3>12
  <2>3. Moves(r)
    BY IngestMoves DEF StoryInv
  <2>. QED  BY <2>1, <2>2, <2>3 DEF Moves, Doings
<1>. QED  BY <1>2, <1>3 DEF InSpace

----------------------------------------------------------------------------
(* The loop is closed. *)

LoopInv(s) ==
  /\ KeyInv /\ Linked(facts, proj) /\ LinksMade /\ ReadBack /\ Tagged
  /\ NodesInOneSpace => InSpace(s)

LEMMA LoopKept ==
  ASSUME NEW s, \A r \in Runs : RequestSpace[r] = s, IngestInv, StoryInv, LoopInv(s), [IngestNext]_ingestVars
  PROVE  LoopInv(s)'
<1>1. KeyInv /\ Linked(facts, proj) /\ IInv
  BY DEF LoopInv, IngestInv
<1>2. KeyInv'
  BY <1>1, IngestOperates, IngestInputsAre, KeyInvKept
<1>3. Linked(facts', proj')
  BY <1>1, IngestOperates, IngestInputsAre, LinkedOperates
<1>4. LinksMade' /\ ReadBack' /\ Tagged'
  BY LinksMadeKept, ReadBackKept, TaggedKept DEF LoopInv
<1>5. NodesInOneSpace' => InSpace(s)'
  BY InSpaceKept DEF LoopInv
<1>. QED  BY <1>2, <1>3, <1>4, <1>5 DEF LoopInv

LEMMA LoopAtFirst ==
  ASSUME NEW s, IngestInit
  PROVE  LoopInv(s)
<1>1. facts = {} /\ KeyInv
  BY KeyInvAtFirst DEF IngestInit, Init
<1>2. \A r \in Runs : runs[r].pc = "idle" /\ runs[r].next = 1 /\ runs[r].loaded = {}
  BY DEF IngestInit
<1>3. Linked(facts, proj)
  <2>1. PICK t, S : Chained(facts, S)
    BY <1>1, KeyedSome DEF Keyed
  <2>. QED  BY <1>1, <2>1 DEF Linked
<1>4. LinksMade /\ ReadBack /\ Tagged
  BY <1>2 DEF LinksMade, ReadBack, Tagged, Steps
<1>5. InSpace(s)
  BY <1>1, <1>2 DEF InSpace
<1>. QED  BY <1>1, <1>3, <1>4, <1>5 DEF LoopInv

\* At the end of the plan every step that was not skipped is behind the run.
LEMMA LoopMeans ==
  ASSUME NEW s, Unforced(s), \A r \in Runs : RequestSpace[r] = s,
         IngestInv, StoryInv, LoopInv(s), NodesInOneSpace
  PROVE  LoopClosed
<1>. SUFFICES ASSUME \A f \in facts : f.kind \notin {"entity.retracted", "edge.retracted"},
                     NEW r \in Runs, NEW i \in Steps, Ran(r, i)
              PROVE  /\ Plan[i][1] = "link" =>
                          \E e \in proj.edges : /\ e.predicate = Plan[i][2]
                                                /\ e.from = Home(r, Plan[i][3]) /\ e.to = Home(r, Plan[i][4])
                     /\ Plan[i][1] = "attach" =>
                          {Anchor["work"], Tmdb} \subseteq {x.key : x \in {y \in proj.ext :
                            y.entity = Home(r, Plan[i][2]) /\ y.space = RequestSpace[r]}}
  BY DEF LoopClosed
<1>1. NoneRetracted(facts)
  BY DEF NoneRetracted
<1>2. i < runs[r].next /\ i \notin runs[r].skip /\ runs[r].next = 16
  BY DEF Ran, StoryInv, PathInv, Steps
<1>3. PICK S : /\ Chained(facts, S) /\ Backed(facts, S, proj)
               /\ OneSpace(facts, S) => Follow(facts, S, proj, s)
  BY DEF LoopInv, KeyInv, Keyed
<1>4. Survivor = S
  BY <1>3, SurvivorIs
<1>5. Follow(facts, S, proj, s)
  BY <1>3, <1>4 DEF NodesInOneSpace, OneSpace, Asserts
<1>6. ASSUME Plan[i][1] = "link"
      PROVE  \E e \in proj.edges : /\ e.predicate = Plan[i][2]
                                   /\ e.from = Home(r, Plan[i][3]) /\ e.to = Home(r, Plan[i][4])
  <2>1. /\ Plan[i] = <<"link", Plan[i][2], Plan[i][3], Plan[i][4]>>
        /\ Plan[i][2] \in Relations /\ Plan[i][3] \in Parts /\ Plan[i][4] \in Parts
    BY <1>6 DEF Plan, Steps, Relations, Parts
  <2>2. PICK f \in facts : /\ f.kind = "edge.asserted" /\ f.payload.predicate = Plan[i][2]
                           /\ f.payload.from = runs[r].ids[Plan[i][3]] /\ f.payload.to = runs[r].ids[Plan[i][4]]
    BY <1>2, <2>1 DEF LoopInv, LinksMade
  <2>3. PICK T : /\ Chained(facts, T)
                 /\ \A g \in facts : g.kind = "edge.asserted" =>
                      \E e \in proj.edges : /\ e.predicate = g.payload.predicate
                                            /\ e.from = T[g.payload.from] /\ e.to = T[g.payload.to]
    BY <1>1 DEF LoopInv, Linked
  <2>4. T = S
    BY <1>3, <2>3, ChainedOnce
  <2>. QED  BY <1>4, <2>2, <2>3, <2>4 DEF Home
<1>7. ASSUME Plan[i][1] = "attach"
      PROVE  {Anchor["work"], Tmdb} \subseteq {x.key : x \in {y \in proj.ext :
               y.entity = Home(r, Plan[i][2]) /\ y.space = RequestSpace[r]}}
  <2>1. \/ i = 7 /\ Plan[i] = <<"attach", "work">> /\ Plan[5] = <<"upsert", "work">>
        \/ i = 14 /\ Plan[i] = <<"attach", "clipWork">> /\ Plan[12] = <<"upsert", "clipWork">>
    BY <1>7 DEF Plan, Steps
  <2>2. PICK part \in Parts : Plan[i] = <<"attach", part>> /\ part \in {"work", "clipWork"}
    BY <2>1 DEF Parts
  <2>3. Anchor[part] = Anchor["work"]
    BY <2>2, IngestAssumption
  <2>4. runs[r].ids[part] \in EntityIds
    <3>1. Whole(runs[r].skip)
      BY DEF StoryInv, PathInv
    <3>2. PICK j \in {5, 12} : Plan[j] = <<"upsert", part>> /\ j \notin runs[r].skip
      BY <1>2, <2>1, <2>2, <3>1 DEF Whole
    <3>. QED  BY <1>2, <3>2 DEF IngestInv, RunInv, Upserted, Steps
  <2>5. PICK f \in AssertedAs(<<"ids", {Anchor[part]}>>) : f.subject = runs[r].ids[part]
    BY <2>4, IngestAssumption DEF IngestInv, Recorded
  <2>6. PICK g \in facts : /\ g.kind = "entity.asserted" /\ g.writer = IngestWriter
                           /\ {Anchor[part], Tmdb} \subseteq g.payload.keys
    BY <1>2, <2>2 DEF LoopInv, Tagged
  <2>7. /\ f \in Asserts(facts) /\ g \in Asserts(facts)
        /\ f.payload.space = s /\ g.payload.space = s /\ Anchor[part] \in f.payload.keys
    BY <2>6 DEF AssertedAs, Asserts, LoopInv, InSpace, StoryInv, OwnKeyed
  <2>8. S[f.subject] \in Live(proj) /\ S[g.subject] \in Live(proj)
    BY <1>1, <1>3, <2>7, SurvivorLives DEF StoryInv, Kept
  <2>9. PICK x \in proj.ext : x.entity = S[f.subject] /\ x.key = Anchor[part] /\ x.space = s
    BY <1>5, <2>7, <2>8 DEF Follow
  <2>10. PICK y \in proj.ext : y.entity = S[g.subject] /\ y.key = Anchor[part] /\ y.space = s
    BY <1>5, <2>6, <2>7, <2>8 DEF Follow
  <2>11. PICK z \in proj.ext : z.entity = S[g.subject] /\ z.key = Tmdb /\ z.space = s
    BY <1>5, <2>6, <2>7, <2>8 DEF Follow
  <2>12. x = y
    BY <2>9, <2>10 DEF IngestInv, IInv, Good, Uniqueness
  <2>13. Home(r, Plan[i][2]) = S[f.subject]
    BY <1>4, <2>2, <2>5 DEF Home
  <2>. QED  BY <2>3, <2>9, <2>10, <2>11, <2>12, <2>13
<1>. QED  BY <1>6, <1>7

\* "So a caller (or a demo) can verify the loop closed" (ingest.go:108-109): however runs
\* stopped and overlapped, and whatever others asserted, linked and merged, a run that ended
\* well left its edges in the graph, wherever their ends were merged, and a work with both
\* its keys; if the ingests write to one space, where no caller forces a node of its own
\* and no node is of another space too.
THEOREM LoopClosedEver ==
  ASSUME NEW s, \A r \in Runs : RequestSpace[r] = s, Unforced(s)
  PROVE  IngestSpec => [](NodesInOneSpace => LoopClosed)
<1>. DEFINE Loop == LoopInv(s)
<1>1. IngestInit => Loop
  BY LoopAtFirst
<1>2. IngestInv /\ StoryInv /\ Loop /\ [IngestNext]_ingestVars => Loop'
  BY LoopKept
<1>3. IngestInv /\ StoryInv /\ Loop => (NodesInOneSpace => LoopClosed)
  BY LoopMeans
<1>. HIDE DEF Loop
<1>. QED  BY <1>1, <1>2, <1>3, StoryEver, PTL DEF IngestSpec

\* Without an embedder it takes an explicit merge to put a node in two spaces.
THEOREM LoopClosedWhenMergedInSpace ==
  ASSUME NEW s, \A r \in Runs : RequestSpace[r] = s, Unforced(s), Vectors = {}
  PROVE  IngestSpec => [](MergedInSpace(facts) => LoopClosed)
<1>. DEFINE A == Apart(facts)
            Loop == LoopInv(s)
<1>1. IngestInit => A /\ Loop
  BY KeyInvAtFirst, LoopAtFirst DEF IngestInit
<1>2. IngestInv /\ StoryInv /\ A /\ Loop /\ [IngestNext]_ingestVars => A' /\ Loop'
  <2>. SUFFICES ASSUME IngestInv, StoryInv, A, Loop, [IngestNext]_ingestVars PROVE A' /\ Loop'
    OBVIOUS
  <2>1. Loop'
    BY LoopKept
  <2>2. Apart(facts')
    BY IngestOperates, IngestInputsAre, ApartKept DEF IngestInv, LoopInv
  <2>. QED  BY <2>1, <2>2
<1>3. IngestInv /\ StoryInv /\ A /\ Loop => (MergedInSpace(facts) => LoopClosed)
  BY LoopMeans, ApartMeans
<1>. HIDE DEF A, Loop
<1>. QED  BY <1>1, <1>2, <1>3, StoryEver, PTL DEF IngestSpec

=============================================================================
