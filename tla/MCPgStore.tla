----------------------------- MODULE MCPgStore -----------------------------
(* Inputs for model-checking PgStore. *)
EXTENDS PgStore, TLC

CONSTANTS w1, w2, k1, k2, d1, d2, name, e1

AssertOf(w, d, keys, props) ==
  [kind |-> "assert", writer |-> w, dedupe |-> d, keys |-> keys, props |-> props]
MergeOf(keep, drop) == [kind |-> "merge", writer |-> w1, keep |-> keep, drop |-> drop]
LinkOf(w, d, m, n)  == [kind |-> "edge", writer |-> w, dedupe |-> d, from |-> m, to |-> n]
Remove(i)           == [kind |-> "retract", writer |-> w1, id |-> i]
Rebuild             == [kind |-> "rebuild"]

MCInputs == {AssertOf(w1, d1, {k1}, NilProps), AssertOf(w2, d1, {k1, k2}, {name}), AssertOf(w1, d2, {k2}, {}),
             LinkOf(w1, d2, 1, 2), MergeOf(1, 2), Remove(1), Rebuild, [kind |-> "unlink", writer |-> w1, id |-> e1]}

CallSymmetry == Permutations(Calls)

============================================================================
