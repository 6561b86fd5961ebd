------------------------------- MODULE Ingest -------------------------------
(***************************************************************************)
(* One video ingested into the store: its node, its channel, a clip of it   *)
(* and the heyarr work that video and clip are about, with the edges        *)
(* between them.                                                            *)
(*                                                                          *)
(* An ingest is a process of its own (`jumpdrive-index ingest`) that calls  *)
(* the store once per step, each call a transaction.  It may be killed      *)
(* anywhere: such a run takes no further step, which nothing here makes it  *)
(* take.  There is no state but the store's, so what is picked up is what   *)
(* the next run of the same request, from the start, is answered with.  Two *)
(* runs may overlap, and others write the same store all the while.         *)
(***************************************************************************)
EXTENDS Store

CONSTANTS
  Runs,         \* invocations with the same video and subject
  RequestSpace, \* the --space of each
  IngestWriter, \* the fixed writer id of ingested facts
  Fetched,      \* what the capability may extract, and whether a subject was given
  Anchor,       \* the external key of each part
  Tmdb,         \* the tmdb key of the subject
  Describe,     \* the props of each part, the transcript aside
  Transcript,   \* the value of prop "transcript"
  NoEntity,     \* an empty EntityID
  MaxAlone,     \* bound: facts others write before any run
  MaxBeside     \* bound: facts others write before and beside a run

VARIABLE runs   \* where each run stands

ingestVars == <<facts, proj, rebuilt, runs>>

\* "clipWork" is the work as the clip reaches it: the same anchor as "work".
Parts == {"video", "channel", "work", "clip", "clipWork"}
Metadata == [transcript : BOOLEAN, channel : BOOLEAN, subject : BOOLEAN, segments : BOOLEAN]

\* The calls of Ingest in their order, for one subject of the video and one segment
\* about the same subject.
Plan == <<
  <<"upsert", "video">>,
  <<"upsert", "channel">>, <<"link", "author", "video", "channel">>,
  <<"reconcile", "work">>, <<"upsert", "work">>, <<"load", "work">>, <<"attach", "work">>,
  <<"link", "about", "video", "work">>,
  <<"upsert", "clip">>, <<"link", "isPartOf", "clip", "video">>,
  <<"reconcile", "clipWork">>, <<"upsert", "clipWork">>, <<"load", "clipWork">>,
  <<"attach", "clipWork">>, <<"link", "about", "clip", "clipWork">> >>
Steps == 1 .. 15
OfChannel == 2 .. 3
OfSubject == 4 .. 8
OfSegment == 9 .. 15
AfterReconcile(i) == i + 1 .. i + 4

Relations == {"author", "about", "isPartOf"}
Run == [pc : {"idle", "running", "done", "failed"}, next : Steps \cup {16},
        skip : SUBSET Steps, transcribed : BOOLEAN,
        ids : [Parts -> EntityIds \cup {NoEntity}], loaded : SUBSET Snapshot]

ASSUME IngestAssumption ==
  /\ RequestSpace \in [Runs -> Spaces] /\ IngestWriter \in Writers
  /\ Fetched \subseteq Metadata
  /\ Anchor \in [Parts -> Keys] /\ Tmdb \in Keys /\ Anchor["clipWork"] = Anchor["work"]
  /\ Describe \in [Parts -> Objects] /\ Transcript \in PropValues
  /\ {"name", "transcript"} \subseteq PropNames
  /\ Relations \subseteq Predicates
  /\ (Relations \X EntityIds \X EntityIds) \cup ({"twice"} \X SUBSET Keys) \subseteq CallerKeys
  /\ NoEntity \notin EntityIds
  /\ MaxAlone \in Nat /\ MaxBeside \in Nat

IngestInit ==
  /\ Init
  /\ runs = [r \in Runs |-> [pc |-> "idle", next |-> 1, skip |-> {}, transcribed |-> FALSE,
                             ids |-> [p \in Parts |-> NoEntity], loaded |-> {}]]

----------------------------------------------------------------------------
(* The control of a run. *)

Doing(r, step) == runs[r].pc = "running" /\ Plan[runs[r].next] = step

\* The run after its step: the next one that is not skipped, or the end.
Onward(run, skip) ==
  LET left == {i \in Steps : i > run.next /\ i \notin skip}
  IN [run EXCEPT !.next = IF left = {} THEN 16 ELSE Oldest(left), !.skip = skip,
                 !.pc = IF left = {} THEN "done" ELSE "running"]

Continue(r) == runs' = [runs EXCEPT ![r] = Onward(runs[r], runs[r].skip)]
ContinueWith(r, part, id) ==
  runs' = [runs EXCEPT ![r] = Onward([runs[r] EXCEPT !.ids[part] = id], runs[r].skip)]
End(r, pc) == runs' = [runs EXCEPT ![r].pc = pc]

----------------------------------------------------------------------------
(* The store's answers. *)

\* The node AppendEntityFact answers a duplicate with.
PriorNodes(c) == {f.subject : f \in PriorAssertions(IngestWriter, c)}

\* ErrNotFound: what the earlier assertion resolved onto is gone.
AnsweredGone(c) == PriorNodes(c) \ Live(proj) # {}

PriorEdges(in) ==
  {f.subject : f \in {g \in facts : /\ g.kind = "edge.asserted" /\ g.writer = IngestWriter
                                    /\ g.key = EdgeDedupeKey(in)}}
LiveEdges == {e.id : e \in proj.edges}

----------------------------------------------------------------------------
(* The steps of a run. *)

\* Fetch: yt-dlp's metadata, with a transcript and segments or without.  A capability
\* that is missing, or knows no such video, ends the run before it began.
Fetch(r) ==
  /\ runs[r].pc = "idle"
  /\ Cardinality({f \in facts : f.writer # IngestWriter}) <= MaxBeside
  /\ \E md \in Fetched :
       runs' = [runs EXCEPT ![r] = [@ EXCEPT
         !.pc = "running", !.transcribed = md.transcript,
         !.skip = (IF md.channel THEN {} ELSE OfChannel)
                    \cup (IF md.subject THEN {} ELSE OfSubject)
                    \cup (IF md.segments THEN {} ELSE OfSegment)]]
  /\ UNCHANGED vars

PartProps(r, part) ==
  IF part = "video" /\ runs[r].transcribed
  THEN [n \in DOMAIN Describe[part] \cup {"transcript"} |->
          IF n = "transcript" THEN Transcript ELSE Describe[part][n]]
  ELSE Describe[part]

\* DEFECT: every run mints its own node.
PartInputPerRun(r, part) ==
  [space |-> RequestSpace[r], keys |-> {Anchor[part]}, props |-> PartProps(r, part),
   vector |-> NoVector, policy |-> "force_new", dedupe |-> <<"run", r>>]

PartInput(r, part) ==
  [space |-> RequestSpace[r], keys |-> {Anchor[part]}, props |-> PartProps(r, part),
   vector |-> NoVector, policy |-> "auto", dedupe |-> NoKey]

\* DEFECT: a node that is not found leaves the zero id.
UpsertIgnoringErrors(r, part) ==
  /\ Doing(r, <<"upsert", part>>)
  /\ \/ /\ AppendEntityFact(IngestWriter, PartInput(r, part))
        /\ \E f \in facts' \ facts :
             f.kind = "entity.asserted" /\ ContinueWith(r, part, f.subject)
     \/ /\ \E id \in PriorNodes(PartInput(r, part)) \cap Live(proj) : ContinueWith(r, part, id)
        /\ UNCHANGED vars
     \/ AnsweredGone(PartInput(r, part)) /\ ContinueWith(r, part, NoEntity) /\ UNCHANGED vars

\* upsert, upsertClip: a duplicate is as good as a new node.
Upsert(r, part) ==
  /\ Doing(r, <<"upsert", part>>)
  /\ \/ /\ AppendEntityFact(IngestWriter, PartInput(r, part))
        /\ \E f \in facts' \ facts :
             f.kind = "entity.asserted" /\ ContinueWith(r, part, f.subject)
     \/ /\ \E id \in PriorNodes(PartInput(r, part)) \cap Live(proj) : ContinueWith(r, part, id)
        /\ UNCHANGED vars
     \/ AnsweredGone(PartInput(r, part)) /\ End(r, "failed") /\ UNCHANGED vars

\* resolveHeyarrWork: a miss, an error or no client skip the subject.
Reconcile(r, part) ==
  /\ Doing(r, <<"reconcile", part>>)
  /\ \E ok \in BOOLEAN : runs' = [runs EXCEPT ![r] =
       Onward(@, IF ok THEN @.skip ELSE @.skip \cup AfterReconcile(@.next))]
  /\ UNCHANGED vars

\* What GetEntity loads.
LoadedSnapshots(id) ==
  {[space |-> SpaceOf(proj, id), keys |-> {x.key : x \in {y \in proj.ext : y.entity = id}},
    props |-> q.props, vector |-> v] :
     q \in {x \in proj.props : x.entity = id},
     v \in LET own == {x.vector : x \in {y \in proj.emb : y.entity = id}}
           IN IF own = {} THEN {NoVector} ELSE own}

\* The owner of a node is that of its first assertion: a node ingested into this space
\* is the request's own, another may be out of ownerFilter's sight.
OwnNode(r, id) ==
  \E f \in facts : /\ f.kind = "entity.asserted" /\ f.subject = id /\ f.writer = IngestWriter
                   /\ f.payload.space = RequestSpace[r]
                   /\ \A g \in facts : g.kind = "entity.asserted" /\ g.subject = id => f.seq <= g.seq

\* attachTMDB, first half: read the reference back through ownerFilter.
Load(r, part) ==
  LET id == runs[r].ids[part] IN
  /\ Doing(r, <<"load", part>>)
  /\ \/ /\ id \in Live(proj)
        /\ runs' = [runs EXCEPT ![r] = [Onward(@, @.skip) EXCEPT !.loaded = LoadedSnapshots(id)]]
     \/ ~ (id \in Live(proj) /\ OwnNode(r, id)) /\ End(r, "failed")
  /\ UNCHANGED vars

\* The entity as loaded, with the tmdb key appended to its list: a list that has it
\* already derives another dedupe key than the same keys once.
Reassertion(s) ==
  [space |-> s.space, keys |-> s.keys \cup {Tmdb}, props |-> s.props, vector |-> s.vector,
   policy |-> "auto", dedupe |-> IF Tmdb \in s.keys THEN <<"twice", s.keys>> ELSE NoKey]

\* attachTMDB, second half: which node the assertion resolved onto is not looked at.
AttachTMDB(r, part) ==
  /\ Doing(r, <<"attach", part>>)
  /\ \E s \in runs[r].loaded :
       \/ AppendEntityFact(IngestWriter, Reassertion(s)) /\ Continue(r)
       \/ PriorNodes(Reassertion(s)) \cap Live(proj) # {} /\ Continue(r) /\ UNCHANGED vars
       \/ AnsweredGone(Reassertion(s)) /\ End(r, "failed") /\ UNCHANGED vars

PartLink(r, pred, from, to) ==
  [predicate |-> pred, from |-> runs[r].ids[from], to |-> runs[r].ids[to],
   space |-> RequestSpace[r], dedupe |-> <<pred, runs[r].ids[from], runs[r].ids[to]>>]

\* The link fails: the earlier edge is gone, or there is none and an end is gone.
LinkRefused(in) ==
  \/ PriorEdges(in) \ LiveEdges # {}
  \/ PriorEdges(in) = {} /\ ~ {in.from, in.to} \subseteq Live(proj)

\* DEFECT: every error is taken for a duplicate.
LinkIgnoringErrors(r, pred, from, to) ==
  LET in == PartLink(r, pred, from, to) IN
  /\ Doing(r, <<"link", pred, from, to>>)
  /\ \/ AppendEdgeFact(IngestWriter, in) /\ Continue(r)
     \/ (PriorEdges(in) # {} \/ LinkRefused(in)) /\ Continue(r) /\ UNCHANGED vars

\* DEFECT: a duplicate is an error.
LinkFailingOnDuplicate(r, pred, from, to) ==
  LET in == PartLink(r, pred, from, to) IN
  /\ Doing(r, <<"link", pred, from, to>>)
  /\ \/ AppendEdgeFact(IngestWriter, in) /\ Continue(r)
     \/ (PriorEdges(in) # {} \/ LinkRefused(in)) /\ End(r, "failed") /\ UNCHANGED vars

\* link: a duplicate is as good as a new edge.
LinkParts(r, pred, from, to) ==
  LET in == PartLink(r, pred, from, to) IN
  /\ Doing(r, <<"link", pred, from, to>>)
  /\ \/ AppendEdgeFact(IngestWriter, in) /\ Continue(r)
     \/ PriorEdges(in) \cap LiveEdges # {} /\ Continue(r) /\ UNCHANGED vars
     \/ LinkRefused(in) /\ End(r, "failed") /\ UNCHANGED vars

\* What others write, through the server or a tool.
Others == Writers \ {IngestWriter}
Allowed == IF \A r \in Runs : runs[r].pc = "idle" THEN MaxAlone ELSE MaxBeside
OthersWrite ==
  /\ Cardinality({f \in facts : f.writer # IngestWriter}) < Allowed
  /\ \/ \E w \in Others, c \in Candidates : AppendEntityFact(w, c)
     \/ \E w \in Others, in \in EdgeInputs : AppendEdgeFact(w, in)
     \/ \E w \in Others, m \in MergeInputs : MergeEntities(w, m[1], m[2])
     \/ \E w \in Others, id \in EntityIds : ~FreshEntity(id) /\ RetractEntity(w, id)
     \/ \E w \in Others, id \in EdgeIds : ~FreshEdge(id) /\ RetractEdge(w, id)
  /\ UNCHANGED runs

IngestNext ==
  \/ \E r \in Runs : Fetch(r)
  \/ \E r \in Runs, part \in Parts : Upsert(r, part)
  \/ \E r \in Runs, part \in Parts : Reconcile(r, part)
  \/ \E r \in Runs, part \in Parts : Load(r, part)
  \/ \E r \in Runs, part \in Parts : AttachTMDB(r, part)
  \/ \E r \in Runs, pred \in Relations, from, to \in Parts : LinkParts(r, pred, from, to)
  \/ OthersWrite
  \/ RebuildProjection /\ UNCHANGED runs

IngestSpec == IngestInit /\ [][IngestNext]_ingestVars

----------------------------------------------------------------------------
(* Properties. *)

\* Types; and no run is past the step that found an id without having it.
IngestTypeOK ==
  /\ runs \in [Runs -> Run]
  /\ \A r \in Runs, part \in Parts : \A i \in Steps :
       Plan[i] = <<"upsert", part>> /\ i < runs[r].next /\ i \notin runs[r].skip
         => runs[r].ids[part] \in EntityIds

Ran(r, i) == runs[r].pc = "done" /\ i \notin runs[r].skip
Home(r, part) == Survivor[runs[r].ids[part]]

\* "So a caller (or a demo) can verify the loop closed" (ingest.go:108-109): once a run
\* has ended well, and unless something was retracted, every edge it reports is in the
\* graph, from node to node wherever they were merged, and the work carries both its keys.
LoopClosed ==
  (\A f \in facts : f.kind \notin {"entity.retracted", "edge.retracted"}) =>
    \A r \in Runs, i \in Steps : Ran(r, i) =>
      /\ Plan[i][1] = "link" =>
           \E e \in proj.edges : /\ e.predicate = Plan[i][2]
                                 /\ e.from = Home(r, Plan[i][3]) /\ e.to = Home(r, Plan[i][4])
      /\ Plan[i][1] = "attach" =>
           {Anchor["work"], Tmdb} \subseteq {x.key : x \in {y \in proj.ext :
             y.entity = Home(r, Plan[i][2]) /\ y.space = RequestSpace[r]}}

\* A run that stopped, or overlaps another, leaves nothing that makes the next one fail:
\* a run fails only on a node or edge that was taken out of the graph after an ingest
\* wrote it, or on a work that others have (ingest.go:300-301, 394-395).
Ingested == {f.subject : f \in {g \in facts : g.writer = IngestWriter /\ g.kind # "entity.merged"}}
FailsOnlyOnLoss ==
  \A r \in Runs : runs[r].pc = "failed" =>
    \/ \E f \in facts : f.subject \in Ingested /\ (Tombstone(f) \/ f.kind = "edge.retracted")
    \/ \E x \in proj.ext : x.key = Anchor["work"] /\ ~ OwnNode(r, x.entity)

\* A re-ingest finds the nodes of the earlier one, and video and clip share one work,
\* whatever stopped or overlapped (ingest.go:50-51, 255-256).
ReplaySameIds ==
  \A r, q \in Runs, part, other \in Parts :
    Anchor[part] = Anchor[other] /\ RequestSpace[r] = RequestSpace[q]
      /\ NoEntity \notin {runs[r].ids[part], runs[q].ids[other]}
      => runs[r].ids[part] = runs[q].ids[other]

\* "A re-ingest of the same video replays idempotently" (ingest.go:50-51) and the tmdb
\* key is attached "so a future tmdb-based assertion dedups onto it" (ingest.go:252-253):
\* as long as others only assert, no run fails.
UndisturbedFinishes ==
  (\A f \in facts : f.writer # IngestWriter => f.kind \in {"entity.asserted", "edge.asserted"})
    => \A r \in Runs : runs[r].pc # "failed"

============================================================================
