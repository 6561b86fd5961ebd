------------------------------ MODULE MCStore ------------------------------
(* Inputs for model-checking Store. *)
EXTENDS Store, TLC

CONSTANTS s1, s2, k1, k2, kate, ingest, x, y

Named(v)  == [n \in {"name"} |-> v]
Dated(v)  == [n \in {"year"} |-> v]

Cand(space, keys, props, vector, policy, dedupe) ==
  [space |-> space, keys |-> keys, props |-> props, vector |-> vector,
   policy |-> policy, dedupe |-> dedupe]

Link(space, from, to) ==
  [predicate |-> "about", from |-> from, to |-> to, space |-> space, dedupe |-> NoKey]

\* Vectors are points on a line; similarity falls with their distance.
MCSimilarity == [p \in Vectors \X Vectors |->
                   LET d == p[1] - p[2] IN IF d = 0 THEN 2 ELSE IF d \in {-1, 1} THEN 1 ELSE 0]

WriterSymmetry == Permutations(Writers)

\* One space: every band of the resolve decision, and every way to merge.
ResolveCandidates ==
  {Cand(s1, {k1}, Named(x), NoVector, "auto", NoKey),
   Cand(s1, {k2}, Dated(Named(y)), 1, "auto", NoKey),
   Cand(s1, {k1, k2}, EmptyObject, 2, "external_only", NoKey),
   Cand(s1, {}, NilProps, 2, "auto", NoKey),
   Cand(s1, {k2}, NilProps, 3, "auto", "again")}
ResolveEdges  == {Link(s1, 1, 2)}
ResolveMerges == {<<1, 2>>, <<3, 1>>, <<2, 2>>}

\* Two candidates of one node, of which one was given no props at all.
NilPropsCandidates ==
  {Cand(s1, {k1}, NilProps, NoVector, "auto", NoKey),
   Cand(s1, {k1, k2}, Named(x), NoVector, "auto", NoKey)}

\* One thing asserted by the same writer in two spaces, without a DedupeKey.
TwoSpaceCandidates ==
  {Cand(s, {k1}, Named(x), NoVector, "auto", NoKey) : s \in Spaces}
NoEdges  == {}
NoMerges == {}

============================================================================
