---------------------------- MODULE MCProposals ----------------------------
(* Inputs for model-checking Proposals. *)
EXTENDS Proposals, TLC

CONSTANTS s1, k1, k2, kate, boss, held, link, d1, d2, d3, ck, x

Cand(keys, props) ==
  [space |-> s1, keys |-> keys, props |-> props, vector |-> NoVector,
   policy |-> "auto", dedupe |-> ck]

MCSimilarity == [p \in Vectors \X Vectors |-> 0]

\* A node that kate proposes, and an edge from it to the node boss writes.  She passes one
\* DedupeKey with both, so whichever comes second meets a fact of the other kind.
About == [predicate |-> "about", from |-> 1, to |-> 2, space |-> s1, dedupe |-> ck]
MCIntent ==
  held :> [kind |-> "entity.asserted", writer |-> kate, input |-> Cand({k1}, NilProps)]
    @@ link :> [kind |-> "edge.asserted", writer |-> kate, input |-> About]

\* Direct writes: another node, and one that is or will be the proposed one.
\* The former comes with its vector, the latter is embedded by the service.
MCCandidates ==
  {[Cand({k2}, [n \in {"name"} |-> x]) EXCEPT !.vector = 1, !.dedupe = NoKey],
   Cand({k1}, EmptyObject)}
MCEdges  == {About}
MCMerges == {}

\* Both may read and write the one space.
MCAccess == Writers \X Spaces

CallSymmetry == Permutations({d1, d2})

============================================================================
