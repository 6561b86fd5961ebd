----------------------------- MODULE MCIngest -----------------------------
(* Inputs for model-checking Ingest. *)
EXTENDS Ingest, TLC

CONSTANTS s1, s2, yt, ch, wk, tm, cl, kate, pete, ingest, r1, r2, x, y

Named(v)   == [n \in {"name"} |-> v]
Spoken(v)  == [n \in {"name", "transcript"} |-> IF n = "name" THEN v ELSE Named(v)]
Heard(v)   == [n \in {"name", "transcript"} |->
                 IF n = "name" THEN JsonNull ELSE [m \in {"name", "transcript"} |->
                   IF m = "name" THEN JsonNull ELSE v]]

Cand(space, keys, props, policy, dedupe) ==
  [space |-> space, keys |-> keys, props |-> props, vector |-> NoVector,
   policy |-> policy, dedupe |-> dedupe]

MCSimilarity == [p \in Vectors \X Vectors |-> 0]
MCCallerKeys == (Relations \X EntityIds \X EntityIds) \cup ({"twice"} \X SUBSET Keys) \cup {<<"again">>}
RunAndWriterSymmetry == Permutations(Runs) \cup Permutations(Others)

\* Edge ids are opaque: it is enough that they are used in the order of the facts.
Links == {f \in facts : f.kind = "edge.asserted"}
EdgesInOrder == \A f \in Links : f.subject = Cardinality({g \in Links : g.seq <= f.seq})

\* Bound: a node of the ingest is as old as its first fact, and those of others are the
\* oldest, the second or the youngest, whenever they are written.
OthersNodes == {1, 3, 7}
Minted(w) == {f \in facts : f.kind = "entity.asserted" /\ w = f.writer
                /\ \A g \in facts : g.kind = "entity.asserted" /\ g.subject = f.subject => f.seq <= g.seq}
IngestedInOrder ==
  LET own == Minted(IngestWriter) IN
  /\ \A w \in Others : \A f \in Minted(w) : f.subject \in OthersNodes
  /\ \A f \in own : /\ f.subject \notin OthersNodes
                    /\ \A i \in EntityIds \ OthersNodes : i < f.subject =>
                         \E g \in own : g.subject = i /\ g.seq < f.seq

IdsInOrder == EdgesInOrder /\ IngestedInOrder

InOneSpace == [r \in Runs |-> s1]
MCAnchor == [p \in Parts |-> CASE p = "video" -> yt [] p = "channel" -> ch [] p = "clip" -> cl
                               [] p \in {"work", "clipWork"} -> wk]
MCDescribe == [p \in Parts |-> IF p = "clip" THEN EmptyObject ELSE Named(x)]

\* A video with a channel and a subject, and one with a segment about the subject.
MCFetched ==
  {[transcript |-> TRUE, channel |-> TRUE, subject |-> TRUE, segments |-> FALSE],
   [transcript |-> FALSE, channel |-> FALSE, subject |-> FALSE, segments |-> TRUE]}

\* Others assert the same things: in this space, in another, with and without the ids
\* an ingest anchors on, with members that are null or objects.
MCCandidates ==
  {Cand(s1, {tm}, Heard(x), "auto", NoKey),
   Cand(s2, {tm}, Named(y), "auto", <<"again">>),
   Cand(s1, {tm, wk}, Spoken(y), "external_only", <<"again">>),
   Cand(s2, {wk}, EmptyObject, "force_new", NoKey)}

\* The same subject under its tmdb key only.
TmdbCandidates == {Cand(s1, {tm}, Named(x), "auto", NoKey)}

MCEdges  == {[predicate |-> "about", from |-> 1, to |-> 3, space |-> s2, dedupe |-> NoKey]}
MCMerges == {<<4, 2>>}

=============================================================================
