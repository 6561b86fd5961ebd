---------------------------- MODULE MCTraversal ----------------------------
(* Inputs for model-checking Traversal and Reads. *)
EXTENDS Reads, TLC

CONSTANTS ann, bob, home, away, movie, note, about, likes, a, b, h, d, e1, e2, e3, e4

Guard(space, owner, type, visibility) ==
  [space |-> space, owner |-> owner, type |-> type, visibility |-> visibility]

\* a -e1- b, a -e2- h -e3- d, b -e4- d.  h and e4 are private, b and e1 are for their space.
MCNodeGuard == (a :> Guard(home, ann, movie, "public")) @@ (b :> Guard(home, ann, note, "space"))
            @@ (h :> Guard(home, bob, movie, "private")) @@ (d :> Guard(away, bob, movie, "public"))
MCEdgeGuard == (e1 :> Guard(home, ann, NoType, "space")) @@ (e2 :> Guard(home, ann, NoType, "public"))
            @@ (e3 :> Guard(away, bob, NoType, "public")) @@ (e4 :> Guard(home, ann, NoType, "private"))
Edge(p, m, n) == [predicate |-> p, from |-> m, to |-> n]
MCAsserted == (e1 :> Edge(about, a, b)) @@ (e2 :> Edge(likes, h, a))
           @@ (e3 :> Edge(about, h, d)) @@ (e4 :> Edge(about, b, d))

Who(id, spaces, writeSpaces, restricted) ==
  [id |-> id, spaces |-> spaces, writeSpaces |-> writeSpaces, restricted |-> restricted]
MCCallers == {Who(ann, {home}, {home}, FALSE), Who(ann, {home}, {home}, TRUE), Who(bob, {home}, {home}, FALSE)}

Ask(start, predicates, maxHops, limit) ==
  [start |-> start, predicates |-> predicates, maxHops |-> maxHops, limit |-> limit]
MCQueries == {Ask(a, {}, 2, 0), Ask(a, {}, 9, 3), Ask(a, {}, 1, 1), Ask(h, {about}, 0, 0)}

For(blank, type, limit) == [blank |-> blank, type |-> type, limit |-> limit]
MCTextQueries == {For(TRUE, NoType, 0), For(FALSE, NoType, 2), For(FALSE, movie, 0)}

============================================================================
