------------------------------- MODULE Reads -------------------------------
(***************************************************************************)
(* The other reads of many entities: Service.Search, which runs a full-text *)
(* and a semantic search and fuses their ranks, and ResolveByExternalID.    *)
(*                                                                          *)
(* Each is a query under the access clause, which reads one snapshot, and   *)
(* then statements of their own: a search loads every hit by its id and     *)
(* without the filter, a resolve loads the children of every row.  The      *)
(* graph and its writes are those of Traversal; a caller that reads here    *)
(* neither traverses nor links.                                             *)
(*                                                                          *)
(* Which entities match a text, a vector or a key, and in which order, is   *)
(* data: a query may return any of those its WHERE clause lets through.     *)
(***************************************************************************)
EXTENDS Traversal

CONSTANT TextQueries  \* the SearchQuerys that are tried; NoType is no constraint

SearchQuery == [blank : BOOLEAN, type : Types \cup {NoType}, limit : Int]

ASSUME ReadsAssumption == TextQueries \subseteq SearchQuery

VARIABLE search  \* the call of Search or of ResolveByExternalID

readVars == <<vars, search>>

\* Where a call stands: the rows of the last query whose statements are still to come,
\* what the two searches have loaded, the answer, and the entities of it that were found
\* without children.
SearchCall ==
  [pc : {"none", "idle", "text", "vectors", "done", "refused", "failed", "children", "resolved"},
   query : TextQueries, rows : Seq(NodeIds), text : Seq(NodeIds), vectors : Seq(NodeIds),
   answer : Seq(NodeIds), bare : SUBSET NodeIds]

----------------------------------------------------------------------------
(* Lists of ids, and the ranks in them. *)

Elements(list) == {list[i] : i \in DOMAIN list}

\* The lists of at most k members of S, none twice.
Lists(S, k) ==
  {s \in UNION {[1 .. m -> S] : m \in 0 .. IF k < Cardinality(S) THEN k ELSE Cardinality(S)} :
     \A i, j \in DOMAIN s : s[i] = s[j] => i = j}

Rank(list, n) == CHOOSE i \in DOMAIN list : list[i] = n

Limit(n) == IF n <= 0 THEN 20 ELSE n

\* DEFECT: the access clause is left out.
HitsUnfiltered(type, k) == Lists({n \in nodes : type \in {NoType, NodeGuard[n].type}}, k)

\* DEFECT: the rows of the index are not joined with the entities.
HitsOfIndex(type, k) ==
  Lists({n \in NodeIds \ unused : NodeVisible(n) /\ type \in {NoType, NodeGuard[n].type}}, k)

\* What a filtered query with this constraint may return.
Hits(type, k) ==
  Lists({n \in nodes : NodeVisible(n) /\ type \in {NoType, NodeGuard[n].type}}, k)

----------------------------------------------------------------------------
(* Reciprocal-rank fusion. *)

\* What one list adds to the score of n, upside down: 60 and its rank from zero.
Weight(list, n) == 59 + Rank(list, n)

\* DEFECT: the second list overwrites what the first has added.
ScoreOfLast(text, vectors, n) ==
  IF n \in Elements(vectors) THEN <<1, Weight(vectors, n)>> ELSE <<1, Weight(text, n)>>

\* The score of n as a fraction.
Score(text, vectors, n) ==
  IF n \notin Elements(vectors) THEN <<1, Weight(text, n)>>
  ELSE IF n \notin Elements(text) THEN <<1, Weight(vectors, n)>>
  ELSE LET t == Weight(text, n)  v == Weight(vectors, n) IN <<t + v, t * v>>

\* What fuseRRF may answer: the best, best first.  Ties go by id, which says nothing here.
Fused(text, vectors, limit) ==
  LET found == Elements(text) \cup Elements(vectors)
      higher(m, n) == LET p == Score(text, vectors, m)  q == Score(text, vectors, n)
                      IN p[1] * q[2] > q[1] * p[2]
  IN {s \in Lists(found, limit) :
        /\ Len(s) = IF limit < Cardinality(found) THEN limit ELSE Cardinality(found)
        /\ \A i \in DOMAIN s : /\ \A j \in 1 .. i - 1 : ~ higher(s[i], s[j])
                               /\ \A m \in found \ Elements(s) : ~ higher(m, s[i])}

----------------------------------------------------------------------------
(* Search. *)

\* FullTextSearch: nothing for a blank text, an error for one that is no FTS5 expression.
SearchBegin ==
  /\ search.pc = "idle"
  /\ \/ search.query.blank /\ search' = [search EXCEPT !.pc = "done"]
     \/ ~ search.query.blank /\ search' = [search EXCEPT !.pc = "refused"]
     \/ /\ ~ search.query.blank
        /\ \E hits \in Hits(search.query.type, Limit(search.query.limit)) :
             search' = [search EXCEPT !.pc = "text", !.rows = hits]
  /\ still' = TRUE
  /\ UNCHANGED <<nodes, edges, unused, writes, caller, call, link>>

\* A hit is loaded; one that is gone fails the whole call.
LoadHit ==
  LET n == Head(search.rows)
      rest == [search EXCEPT !.rows = Tail(@)]
  IN /\ search.rows # <<>>
     /\ \/ /\ search.pc \in {"text", "vectors"} /\ n \notin nodes
           /\ search' = [search EXCEPT !.pc = "failed"]
        \/ /\ search.pc = "text" /\ n \in nodes
           /\ search' = [rest EXCEPT !.text = Append(@, n)]
        \/ /\ search.pc = "vectors" /\ n \in nodes
           /\ search' = [rest EXCEPT !.vectors = Append(@, n)]
     /\ UNCHANGED vars

\* The text is embedded and SemanticSearch queries with the vector; without an embedder,
\* or when it fails, the full-text hits are the answer.
Embed ==
  /\ search.pc = "text" /\ search.rows = <<>>
  /\ \/ search' = [search EXCEPT !.pc = "done", !.answer = search.text]
     \/ \E hits \in Hits(search.query.type, Limit(search.query.limit)) :
          search' = [search EXCEPT !.pc = "vectors", !.rows = hits]
  /\ UNCHANGED vars

Fuse ==
  /\ search.pc = "vectors" /\ search.rows = <<>>
  /\ \E s \in Fused(search.text, search.vectors, Limit(search.query.limit)) :
       search' = [search EXCEPT !.pc = "done", !.answer = s]
  /\ UNCHANGED vars

----------------------------------------------------------------------------
(* ResolveByExternalID. *)

\* One query reads the rows of all entities.
ResolveBegin ==
  /\ search.pc = "idle"
  /\ \E hits \in Hits(NoType, Cardinality(nodes)) :
       search' = [search EXCEPT !.pc = "children", !.rows = hits, !.answer = hits]
  /\ still' = TRUE
  /\ UNCHANGED <<nodes, edges, unused, writes, caller, call, link>>

\* loadEntityChildren, one entity after the other: no error if it is gone by now.
LoadChildren ==
  /\ search.pc = "children"
  /\ search' = IF search.rows = <<>> THEN [search EXCEPT !.pc = "resolved"]
               ELSE [search EXCEPT !.rows = Tail(@),
                                   !.bare = @ \cup ({Head(search.rows)} \ nodes)]
  /\ UNCHANGED vars

----------------------------------------------------------------------------

\* The caller traverses and links, or it reads here: then there need be no edges, and the
\* arguments of the other calls do not matter.
ReadsInit ==
  /\ Init
  /\ \E pc \in {"none", "idle"}, q \in TextQueries :
       /\ search = [pc |-> pc, query |-> q, rows |-> <<>>, text |-> <<>>, vectors |-> <<>>,
                    answer |-> <<>>, bare |-> {}]
       /\ IF pc = "none" THEN q = (CHOOSE x \in TextQueries : TRUE)
          ELSE edges = {} /\ call.query = (CHOOSE x \in Queries : TRUE)
               /\ link.edge = (CHOOSE x \in EdgeIds : TRUE)

ReadsNext ==
  \/ search.pc = "none" /\ Next /\ UNCHANGED search
  \/ search.pc # "none" /\ Others /\ UNCHANGED search
  \/ SearchBegin \/ LoadHit \/ Embed \/ Fuse
  \/ ResolveBegin \/ LoadChildren

ReadsSpec == ReadsInit /\ [][ReadsNext]_readVars

----------------------------------------------------------------------------
(* Properties. *)

\* Whatever is written between a query and its loads, what is answered may be read: the
\* loads have no filter, the query had one (search.go:106, fts.go:15-16).
AnswersReadable == \A n \in Elements(search.answer) : CanRead(NodeGuard[n])

\* A read no write interfered with does not fail on a hit that is gone and answers every
\* entity with its children: the index and the vectors have no row of an entity that is
\* gone (fts.go FullTextSearch, search.go SemanticSearch, entities.go queryEntities).
WholeWhenStill == still => search.pc # "failed" /\ search.bare = {}

\* The answer of a search has as many hits as the limit lets in, none twice, and none
\* comes before a hit, or instead of it, that is ahead of it in every list it is in
\* (service.go fuseRRF).
FusionKeepsTheBest ==
  search.pc = "done" =>
    LET lists == {search.text, search.vectors}
        found == UNION {Elements(l) : l \in lists}
        best  == search.answer
        ahead(m, n) == \A l \in lists : n \in Elements(l) =>
                         m \in Elements(l) /\ Rank(l, m) < Rank(l, n)
    IN /\ Elements(best) \subseteq found
       /\ Cardinality(Elements(best)) = Len(best)
       /\ Len(best) = Limit(search.query.limit) \/ Elements(best) = found
       /\ Len(best) <= Limit(search.query.limit)
       /\ \A i \in DOMAIN best : \A m \in found :
            ahead(m, best[i]) => \E j \in 1 .. i - 1 : best[j] = m

============================================================================
