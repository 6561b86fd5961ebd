---------------------------- MODULE ReadsProofs ----------------------------
(***************************************************************************)
(* Theorems of Reads: the ids a search or a resolve holds between its       *)
(* statements have passed the filter, and are there while nothing is        *)
(* written.                                                                 *)
(***************************************************************************)
EXTENDS Reads, TraversalProofs

\* Every id a call holds has passed the filter.
Passed(s) == \A n \in Elements(s.rows) \cup Elements(s.text) \cup Elements(s.vectors)
                        \cup Elements(s.answer) : NodeVisible(n)

\* While nothing is written, what is still to be loaded is there.
Present(s) == s.pc # "failed" /\ s.bare = {} /\ Elements(s.rows) \subseteq nodes

SearchOK(s) ==
  /\ s \in SearchCall /\ Passed(s)
  /\ s.pc \in {"none", "idle"} => s.rows = <<>> /\ s.bare = {}
  /\ still => Present(s)

RInv == TInv /\ SearchOK(search)

\* A list over a set is a sequence over it, and so is what Hits and Fused return.
LEMMA ListType ==
  ASSUME NEW S, NEW k, NEW s \in Lists(S, k)
  PROVE  s \in Seq(S) /\ Elements(s) \subseteq S
<1>1. PICK m \in Nat : s \in [1 .. m -> S]
  BY DEF Lists
<1>. QED  BY <1>1 DEF Elements

LEMMA HitsOK ==
  ASSUME TInv, NEW type, NEW k, NEW s \in Hits(type, k)
  PROVE  /\ s \in Seq(NodeIds) /\ Elements(s) \subseteq nodes
         /\ \A n \in Elements(s) : NodeVisible(n)
<1> DEFINE S == {n \in nodes : NodeVisible(n) /\ type \in {NoType, NodeGuard[n].type}}
<1>1. s \in Lists(S, k)
  BY DEF Hits
<1>2. S \subseteq nodes /\ S \subseteq NodeIds /\ \A n \in S : NodeVisible(n)
  BY DEF TInv, GraphOK
<1>. HIDE DEF S
<1>3. s \in Seq(S) /\ Elements(s) \subseteq S
  BY <1>1, ListType
<1>. QED  BY <1>2, <1>3

LEMMA FusedOK ==
  ASSUME NEW text \in Seq(NodeIds), NEW vectors \in Seq(NodeIds), NEW k,
         NEW s \in Fused(text, vectors, k)
  PROVE  s \in Seq(NodeIds) /\ Elements(s) \subseteq Elements(text) \cup Elements(vectors)
<1> DEFINE found == Elements(text) \cup Elements(vectors)
<1>1. s \in Lists(found, k)
  BY DEF Fused
<1>2. found \subseteq NodeIds
  BY DEF Elements
<1>. HIDE DEF found
<1>3. s \in Seq(found) /\ Elements(s) \subseteq found
  BY <1>1, ListType
<1>4. s \in Seq(NodeIds)
  BY <1>2, <1>3
<1>. QED  BY <1>3, <1>4 DEF found

LEMMA ElementsOfEnds ==
  ASSUME NEW s \in Seq(NodeIds)
  PROVE  /\ Elements(<<>>) = {}
         /\ \A n \in NodeIds : /\ Append(s, n) \in Seq(NodeIds)
                               /\ Elements(Append(s, n)) = Elements(s) \cup {n}
         /\ s # <<>> => /\ Head(s) \in Elements(s) /\ Head(s) \in NodeIds
                        /\ Tail(s) \in Seq(NodeIds) /\ Elements(Tail(s)) \subseteq Elements(s)
<1>1. Elements(<<>>) = {}
  BY DEF Elements
<1>2. ASSUME NEW n \in NodeIds
      PROVE  Append(s, n) \in Seq(NodeIds) /\ Elements(Append(s, n)) = Elements(s) \cup {n}
  <2>1. /\ Append(s, n) \in Seq(NodeIds) /\ Len(s) \in Nat /\ Len(Append(s, n)) = Len(s) + 1
        /\ \A i \in 1 .. Len(s) : Append(s, n)[i] = s[i]
        /\ Append(s, n)[Len(s) + 1] = n
        /\ DOMAIN s = 1 .. Len(s) /\ DOMAIN Append(s, n) = 1 .. Len(s) + 1
    BY AppendProperties
  <2>. QED  BY <2>1 DEF Elements
<1>3. ASSUME s # <<>>
      PROVE  /\ Head(s) \in Elements(s) /\ Head(s) \in NodeIds
             /\ Tail(s) \in Seq(NodeIds) /\ Elements(Tail(s)) \subseteq Elements(s)
  BY <1>3, HeadTailProperties DEF Elements
<1>. QED  BY <1>1, <1>2, <1>3

\* A step of the call that leaves the graph alone, or opens the window of still.
LEMMA SearchBecomes ==
  ASSUME RInv, NEW STATE s, search' = s, s \in SearchCall, Passed(s), Present(s) \/ still' = FALSE,
         s.pc \in {"none", "idle"} => s.rows = <<>> /\ s.bare = {},
         still' \in BOOLEAN, UNCHANGED <<nodes, edges, unused, writes, caller, call, link>>
  PROVE  RInv'
<1>1. TInv'
  BY DEF RInv, TInv, GraphOK, CallOK, Body, LinkOK, NodeVisible, EdgeVisible, AccessClause
<1>2. SearchOK(search)'
  BY DEF SearchOK, Passed, Present, NodeVisible, AccessClause
<1>. QED  BY <1>1, <1>2 DEF RInv

LEMMA SearchBeginKeeps == ASSUME RInv, SearchBegin \/ ResolveBegin PROVE RInv'
<1>1. /\ search \in SearchCall /\ Passed(search) /\ search.pc = "idle" /\ search.rows = <<>>
      /\ search.bare = {} /\ still' = TRUE /\ TInv
      /\ UNCHANGED <<nodes, edges, unused, writes, caller, call, link>>
  BY DEF RInv, SearchOK, SearchBegin, ResolveBegin
<1>2. Elements(search.rows) = {}
  BY <1>1 DEF Elements
<1>3. CASE search' \in {[search EXCEPT !.pc = "done"], [search EXCEPT !.pc = "refused"]}
  <2> DEFINE s == search'
  <2>1. s \in SearchCall /\ Passed(s) /\ Present(s) /\ s.pc \notin {"none", "idle"}
    BY <1>1, <1>2, <1>3 DEF SearchCall, Passed, Present
  <2>. QED  BY <1>1, <1>3, <2>1, SearchBecomes
<1>4. ASSUME NEW hits, NEW k, NEW type, hits \in Hits(type, k),
             \/ search' = [search EXCEPT !.pc = "text", !.rows = hits]
             \/ search' = [search EXCEPT !.pc = "children", !.rows = hits, !.answer = hits]
      PROVE  RInv'
  <2>1. hits \in Seq(NodeIds) /\ Elements(hits) \subseteq nodes /\ \A n \in Elements(hits) : NodeVisible(n)
    BY <1>1, <1>4, HitsOK
  <2>2. /\ search' \in SearchCall /\ search'.pc \in {"text", "children"}
        /\ search'.rows = hits /\ search'.text = search.text /\ search'.vectors = search.vectors
        /\ search'.answer \in {search.answer, hits} /\ search'.bare = {}
    BY <1>1, <1>4, <2>1 DEF SearchCall
  <2>. QED  BY <1>1, <2>1, <2>2, SearchBecomes DEF Passed, Present
<1>. QED  BY <1>3, <1>4 DEF SearchBegin, ResolveBegin

LEMMA SearchStepKeeps == ASSUME RInv, LoadHit \/ Embed \/ Fuse \/ LoadChildren PROVE RInv'
<1>1. /\ search \in SearchCall /\ Passed(search) /\ TInv /\ nodes \subseteq NodeIds /\ still \in BOOLEAN
      /\ search.rows \in Seq(NodeIds) /\ search.text \in Seq(NodeIds)
      /\ search.vectors \in Seq(NodeIds) /\ search.answer \in Seq(NodeIds)
      /\ still => Present(search)
      /\ still' = still /\ UNCHANGED <<nodes, edges, unused, writes, caller, call, link>>
  BY DEF RInv, SearchOK, SearchCall, LoadHit, Embed, Fuse, LoadChildren, vars, TInv, GraphOK
<1>2. CASE LoadHit
  <2>1. search.rows # <<>> /\ search.pc \in {"text", "vectors"}
    BY <1>2 DEF LoadHit
  <2>2. /\ Head(search.rows) \in Elements(search.rows) /\ Head(search.rows) \in NodeIds
        /\ Tail(search.rows) \in Seq(NodeIds) /\ Elements(Tail(search.rows)) \subseteq Elements(search.rows)
        /\ NodeVisible(Head(search.rows))
    BY <1>1, <2>1, ElementsOfEnds DEF Passed
  <2>3. CASE search' = [search EXCEPT !.pc = "failed"] /\ Head(search.rows) \notin nodes
    <3>1. still = FALSE
      BY <1>1, <2>2, <2>3 DEF Present
    <3>. QED  BY <1>1, <2>3, <3>1, SearchBecomes DEF SearchCall, Passed
  <2>4. CASE search' = [search EXCEPT !.rows = Tail(search.rows),
                                      !.text = Append(search.text, Head(search.rows))]
    <3>1. /\ Append(search.text, Head(search.rows)) \in Seq(NodeIds)
          /\ Elements(Append(search.text, Head(search.rows))) = Elements(search.text) \cup {Head(search.rows)}
      BY <1>1, <2>2, ElementsOfEnds
    <3>2. search' \in SearchCall /\ Passed(search') /\ (still => Present(search'))
      BY <1>1, <2>2, <2>4, <3>1 DEF SearchCall, Passed, Present
    <3>. QED  BY <1>1, <2>1, <2>4, <3>2, SearchBecomes DEF SearchCall
  <2>5. CASE search' = [search EXCEPT !.rows = Tail(search.rows),
                                      !.vectors = Append(search.vectors, Head(search.rows))]
    <3>1. /\ Append(search.vectors, Head(search.rows)) \in Seq(NodeIds)
          /\ Elements(Append(search.vectors, Head(search.rows))) = Elements(search.vectors) \cup {Head(search.rows)}
      BY <1>1, <2>2, ElementsOfEnds
    <3>2. search' \in SearchCall /\ Passed(search') /\ (still => Present(search'))
      BY <1>1, <2>2, <2>5, <3>1 DEF SearchCall, Passed, Present
    <3>. QED  BY <1>1, <2>1, <2>5, <3>2, SearchBecomes DEF SearchCall
  <2>. QED  BY <1>2, <2>3, <2>4, <2>5 DEF LoadHit
<1>3. CASE Embed
  <2>1. CASE search' = [search EXCEPT !.pc = "done", !.answer = search.text]
    <3>1. search' \in SearchCall /\ Passed(search') /\ (still => Present(search')) /\ search'.pc = "done"
      BY <1>1, <2>1 DEF SearchCall, Passed, Present
    <3>. QED  BY <1>1, <3>1, SearchBecomes
  <2>2. ASSUME NEW hits \in Hits(search.query.type, Limit(search.query.limit)),
               search' = [search EXCEPT !.pc = "vectors", !.rows = hits]
        PROVE  RInv'
    <3>1. hits \in Seq(NodeIds) /\ Elements(hits) \subseteq nodes /\ \A n \in Elements(hits) : NodeVisible(n)
      BY <1>1, HitsOK
    <3>2. search' \in SearchCall /\ Passed(search') /\ (still => Present(search')) /\ search'.pc = "vectors"
      BY <1>1, <2>2, <3>1 DEF SearchCall, Passed, Present
    <3>. QED  BY <1>1, <3>2, SearchBecomes
  <2>. QED  BY <1>3, <2>1, <2>2 DEF Embed
<1>4. CASE Fuse
  <2>1. PICK s \in Fused(search.text, search.vectors, Limit(search.query.limit)) :
          search' = [search EXCEPT !.pc = "done", !.answer = s]
    BY <1>4 DEF Fuse
  <2>2. s \in Seq(NodeIds) /\ Elements(s) \subseteq Elements(search.text) \cup Elements(search.vectors)
    BY <1>1, FusedOK
  <2>3. search' \in SearchCall /\ Passed(search') /\ (still => Present(search')) /\ search'.pc = "done"
    BY <1>1, <2>1, <2>2 DEF SearchCall, Passed, Present
  <2>. QED  BY <1>1, <2>3, SearchBecomes
<1>5. CASE LoadChildren
  <2>1. CASE search.rows = <<>>
    <3>1. search' = [search EXCEPT !.pc = "resolved"]
      BY <1>5, <2>1 DEF LoadChildren
    <3>2. search' \in SearchCall /\ Passed(search') /\ (still => Present(search')) /\ search'.pc = "resolved"
      BY <1>1, <3>1 DEF SearchCall, Passed, Present
    <3>. QED  BY <1>1, <3>2, SearchBecomes
  <2>2. CASE search.rows # <<>>
    <3>1. search' = [search EXCEPT !.rows = Tail(search.rows),
                                   !.bare = search.bare \cup ({Head(search.rows)} \ nodes)]
      BY <1>5, <2>2 DEF LoadChildren
    <3>2. /\ Head(search.rows) \in Elements(search.rows) /\ Head(search.rows) \in NodeIds
          /\ Tail(search.rows) \in Seq(NodeIds) /\ Elements(Tail(search.rows)) \subseteq Elements(search.rows)
      BY <1>1, <2>2, ElementsOfEnds
    <3>3. search.pc = "children"
      BY <1>5 DEF LoadChildren
    <3>4. search' \in SearchCall /\ search'.pc = "children"
      BY <1>1, <3>1, <3>2, <3>3 DEF SearchCall
    <3>5. Passed(search') /\ (still => Present(search'))
      BY <1>1, <3>1, <3>2 DEF SearchCall, Passed, Present
    <3>. QED  BY <1>1, <3>4, <3>5, SearchBecomes
  <2>. QED  BY <2>1, <2>2
<1>. QED  BY <1>2, <1>3, <1>4, <1>5

\* Others may take a hit away, but then the graph has not been still.
LEMMA OthersLeaveSearch ==
  ASSUME RInv, TInv', UNCHANGED <<caller, search>>,
         search.pc = "none" \/ still' = FALSE
  PROVE  RInv'
<1>1. Elements(<<>>) = {}
  BY DEF Elements
<1>. QED  BY <1>1 DEF RInv, SearchOK, Passed, Present, NodeVisible, AccessClause

\* The invariant of Reads.
THEOREM RInductive == ReadsSpec => []RInv
<1>1. ReadsInit => RInv
  <2>. SUFFICES ASSUME ReadsInit
                PROVE  RInv
    OBVIOUS
  <2>1. PICK pc \in {"none", "idle"}, q \in TextQueries :
          search = [pc |-> pc, query |-> q, rows |-> <<>>, text |-> <<>>, vectors |-> <<>>,
                    answer |-> <<>>, bare |-> {}]
    BY DEF ReadsInit
  <2>2. Elements(<<>>) = {} /\ <<>> \in Seq(NodeIds)
    BY DEF Elements
  <2>3. SearchOK(search)
    BY <2>1, <2>2 DEF SearchOK, SearchCall, Passed, Present
  <2>. QED  BY <2>3, TInit DEF ReadsInit, RInv
<1>2. RInv /\ [ReadsNext]_readVars => RInv'
  <2>. SUFFICES ASSUME RInv, [ReadsNext]_readVars
                PROVE  RInv'
    OBVIOUS
  <2>1. CASE search.pc = "none" /\ Next /\ UNCHANGED search
    <3>1. caller' = caller
      BY <2>1 DEF Next, Others, Begin, Expand, Row, LinkBegin, LinkCheck, LinkAppend, Write,
                  AssertEntity, AssertEdge, RetractEdge, RetractEntity, Merge
    <3>. QED  BY <2>1, <3>1, TStep, OthersLeaveSearch DEF RInv
  <2>2. CASE Others /\ UNCHANGED search
    <3>1. caller' = caller /\ still' = FALSE
      BY <2>2 DEF Others, Write, AssertEntity, AssertEdge, RetractEdge, RetractEntity, Merge
    <3>. QED  BY <2>2, <3>1, TStep, OthersLeaveSearch DEF RInv, Next
  <2>3. CASE SearchBegin \/ ResolveBegin
    BY <2>3, SearchBeginKeeps
  <2>4. CASE LoadHit \/ Embed \/ Fuse \/ LoadChildren
    BY <2>4, SearchStepKeeps
  <2>5. CASE UNCHANGED readVars
    <3>1. UNCHANGED <<vars, search>>
      BY <2>5 DEF readVars
    <3>2. TInv'
      BY <3>1, TStep DEF RInv
    <3>. QED  BY <3>1, <3>2 DEF vars, RInv, SearchOK, Passed, Present, NodeVisible, AccessClause
  <2>. QED  BY <2>1, <2>2, <2>3, <2>4, <2>5 DEF ReadsNext
<1>. QED  BY <1>1, <1>2, PTL DEF ReadsSpec

\* What a search or a resolve answers may be read, whatever is written meanwhile.
THEOREM AnswersReadableEver == ReadsSpec => []AnswersReadable
<1>1. RInv => AnswersReadable
  <2>. SUFFICES ASSUME RInv, NEW n \in Elements(search.answer)
                PROVE  CanRead(NodeGuard[n])
    BY DEF AnswersReadable
  <2>1. n \in NodeIds
    BY DEF RInv, SearchOK, SearchCall, Elements
  <2>2. NodeVisible(n)
    BY DEF RInv, SearchOK, Passed
  <2>. QED  BY <2>1, <2>2, ClauseIsCanRead DEF RInv, TInv
<1>. QED  BY <1>1, RInductive, PTL

\* A read no write interfered with neither fails on a hit that is gone nor answers an
\* entity without its children.
THEOREM WholeWhenStillEver == ReadsSpec => []WholeWhenStill
<1>1. RInv => WholeWhenStill
  BY DEF RInv, SearchOK, Present, WholeWhenStill
<1>. QED  BY <1>1, RInductive, PTL

----------------------------------------------------------------------------
(* Search answers the best. *)

\* No id twice.
Distinct(s) == \A i, j \in DOMAIN s : s[i] = s[j] => i = j

\* The rows to load go behind a list they are not in, within the limit.
Apart(list, rows, k) ==
  /\ Distinct(list) /\ Distinct(rows) /\ Elements(list) \cap Elements(rows) = {}
  /\ Len(list) + Len(rows) <= k

\* The lists of a search have no id twice and stay within the limit while they are loaded.
FusionInv ==
  /\ search.pc \in {"none", "idle"} => search.text = <<>> /\ search.vectors = <<>> /\ search.answer = <<>>
  /\ search.pc = "text" =>
       search.vectors = <<>> /\ Apart(search.text, search.rows, Limit(search.query.limit))
  /\ search.pc = "vectors" =>
       Distinct(search.text) /\ Apart(search.vectors, search.rows, Limit(search.query.limit))
  /\ FusionKeepsTheBest

\* A list without repetition has as many elements as places, and one rank for each.
LEMMA DistinctList ==
  ASSUME NEW S, NEW s \in Seq(S), Distinct(s)
  PROVE  /\ IsFiniteSet(Elements(s)) /\ Cardinality(Elements(s)) = Len(s) /\ Elements(s) \subseteq S
         /\ \A n \in Elements(s) : Rank(s, n) \in 1 .. Len(s) /\ s[Rank(s, n)] = n
         /\ \A i \in 1 .. Len(s) : s[i] \in Elements(s) /\ Rank(s, s[i]) = i
<1>1. Len(s) \in Nat /\ DOMAIN s = 1 .. Len(s) /\ \A i \in 1 .. Len(s) : s[i] \in Elements(s)
  BY DEF Elements
<1>2. s \in Bijection(1 .. Len(s), Elements(s))
  <2>1. s \in [1 .. Len(s) -> Elements(s)]
    BY <1>1
  <2>2. \A n \in Elements(s) : \E i \in 1 .. Len(s) : s[i] = n
    BY <1>1 DEF Elements
  <2>. QED  BY <1>1, <2>1, <2>2 DEF Distinct, Bijection, Injection, Surjection, IsInjective
<1>3. ExistsBijection(1 .. Len(s), Elements(s))
  BY <1>2 DEF ExistsBijection
<1>4. IsFiniteSet(Elements(s)) /\ Cardinality(Elements(s)) = Len(s)
  BY <1>1, <1>3, FS_NatBijection, FS_CountingElements
<1>5. \A n \in Elements(s) : Rank(s, n) \in DOMAIN s /\ s[Rank(s, n)] = n
  BY DEF Rank, Elements
<1>6. \A i \in 1 .. Len(s) : Rank(s, s[i]) = i
  BY <1>1, <1>5 DEF Distinct
<1>7. Elements(s) \subseteq S
  BY DEF Elements
<1>. QED  BY <1>1, <1>4, <1>5, <1>6, <1>7

LEMMA ElementsAppend ==
  ASSUME NEW S, NEW s \in Seq(S), NEW n \in S
  PROVE  /\ Append(s, n) \in Seq(S) /\ Len(Append(s, n)) = Len(s) + 1
         /\ Elements(Append(s, n)) = Elements(s) \cup {n}
         /\ Distinct(s) /\ n \notin Elements(s) => Distinct(Append(s, n))
<1>1. PICK t : t = Append(s, n)
  OBVIOUS
<1>2. /\ t \in Seq(S) /\ Len(t) = Len(s) + 1 /\ Len(s) \in Nat
      /\ DOMAIN t = 1 .. Len(s) + 1 /\ DOMAIN s = 1 .. Len(s)
      /\ \A i \in 1 .. Len(s) : t[i] = s[i]
      /\ t[Len(s) + 1] = n
  BY <1>1, AppendProperties
<1>3. Elements(t) = Elements(s) \cup {n}
  BY <1>2 DEF Elements
<1>4. ASSUME Distinct(s), n \notin Elements(s)
      PROVE  Distinct(t)
  <2>1. \A i \in 1 .. Len(s) : s[i] # n
    BY <1>2, <1>4 DEF Elements
  <2>2. \A i, j \in 1 .. Len(s) : s[i] = s[j] => i = j
    BY <1>2, <1>4 DEF Distinct
  <2>3. \A i \in 1 .. Len(s) + 1 : i \in 1 .. Len(s) \/ i = Len(s) + 1
    BY <1>2
  <2>. QED  BY <1>2, <2>1, <2>2, <2>3 DEF Distinct
<1>. QED  BY <1>1, <1>2, <1>3, <1>4

LEMMA ElementsTail ==
  ASSUME NEW S, NEW s \in Seq(S), s # <<>>
  PROVE  /\ Tail(s) \in Seq(S) /\ Len(Tail(s)) = Len(s) - 1 /\ Len(s) \in Nat
         /\ Head(s) \in Elements(s) /\ Head(s) \in S /\ Elements(Tail(s)) \subseteq Elements(s)
         /\ Distinct(s) => Distinct(Tail(s)) /\ Head(s) \notin Elements(Tail(s))
<1>1. PICK t, n : t = Tail(s) /\ n = Head(s)
  OBVIOUS
<1>2. /\ t \in Seq(S) /\ Len(t) = Len(s) - 1 /\ Len(s) \in Nat /\ Len(s) >= 1
      /\ DOMAIN t = 1 .. Len(s) - 1 /\ DOMAIN s = 1 .. Len(s)
      /\ \A i \in 1 .. Len(s) - 1 : t[i] = s[i + 1]
      /\ n = s[1] /\ n \in S
  BY <1>1, HeadTailProperties
<1>3. \A i \in 1 .. Len(s) - 1 : i + 1 \in 1 .. Len(s) /\ i + 1 # 1
  BY <1>2
<1>4. n \in Elements(s) /\ Elements(t) \subseteq Elements(s)
  BY <1>2, <1>3 DEF Elements
<1>5. ASSUME Distinct(s)
      PROVE  Distinct(t) /\ n \notin Elements(t)
  <2>1. \A i, j \in 1 .. Len(s) : s[i] = s[j] => i = j
    BY <1>2, <1>5 DEF Distinct
  <2>2. Distinct(t)
    BY <1>2, <1>3, <2>1 DEF Distinct
  <2>3. 1 \in 1 .. Len(s)
    BY <1>2
  <2>4. n \notin Elements(t)
    BY <1>2, <1>3, <2>1, <2>3 DEF Elements
  <2>. QED  BY <2>2, <2>4
<1>. QED  BY <1>1, <1>2, <1>4, <1>5

\* A step of a load keeps the lists apart.
LEMMA ApartLoads ==
  ASSUME NEW S, NEW list \in Seq(S), NEW rows \in Seq(S), NEW k \in Int,
         Apart(list, rows, k), rows # <<>>
  PROVE  Apart(Append(list, Head(rows)), Tail(rows), k)
<1>1. /\ Head(rows) \in S /\ Head(rows) \in Elements(rows)
      /\ Elements(Tail(rows)) \subseteq Elements(rows) /\ Head(rows) \notin Elements(Tail(rows))
      /\ Distinct(Tail(rows)) /\ Len(Tail(rows)) = Len(rows) - 1 /\ Len(rows) \in Nat
  BY ElementsTail DEF Apart
<1>2. Head(rows) \notin Elements(list)
  BY <1>1 DEF Apart
<1>3. /\ Distinct(Append(list, Head(rows))) /\ Len(Append(list, Head(rows))) = Len(list) + 1
      /\ Elements(Append(list, Head(rows))) = Elements(list) \cup {Head(rows)}
  BY <1>1, <1>2, ElementsAppend DEF Apart
<1>4. Len(list) \in Nat
  OBVIOUS
<1>. QED  BY <1>1, <1>2, <1>3, <1>4 DEF Apart

\* What a query returns is a list to load from the start.
LEMMA ListApart ==
  ASSUME NEW S, IsFiniteSet(S), NEW k \in Int, k > 0, NEW s \in Lists(S, k)
  PROVE  s \in Seq(S) /\ Distinct(s) /\ Len(s) <= k /\ Len(s) <= Cardinality(S) /\ Apart(<<>>, s, k)
<1>1. Cardinality(S) \in Nat
  BY FS_CardinalityType
<1>2. PICK m \in 0 .. IF k < Cardinality(S) THEN k ELSE Cardinality(S) : s \in [1 .. m -> S]
  BY DEF Lists
<1>3. m \in Nat /\ s \in Seq(S) /\ Len(s) = m /\ m <= k /\ m <= Cardinality(S)
  BY <1>1, <1>2
<1>4. Distinct(s)
  BY DEF Lists, Distinct
<1>5. Distinct(<<>>) /\ Elements(<<>>) = {} /\ Len(<<>>) = 0
  BY DEF Distinct, Elements
<1>. QED  BY <1>3, <1>4, <1>5 DEF Apart

\* Products of positive numbers, one law at a time.
LEMMA Products ==
  /\ \A a, b, c \in Nat \ {0} : a < b => a * c < b * c /\ c * a < c * b
  /\ \A a, b, c \in Nat \ {0} : (a + b) * c = a * c + b * c /\ c * (a + b) = c * a + c * b /\ a * b = b * a
  /\ \A a, b \in Nat \ {0} : a * b \in Nat \ {0}
  /\ \A a, b, c \in Nat \ {0} : a * (b * c) = (a * b) * c
OBVIOUS

\* m is ahead of n in every list n is in.
Ahead(text, vectors, m, n) ==
  \A l \in {text, vectors} : n \in Elements(l) => m \in Elements(l) /\ Rank(l, m) < Rank(l, n)

\* Higher as Fused has it.
Higher(text, vectors, m, n) ==
  LET p == Score(text, vectors, m)  q == Score(text, vectors, n)
  IN p[1] * q[2] > q[1] * p[2]

\* A weight is 59 and a rank from one: it is never zero.
LEMMA WeightType ==
  ASSUME NEW s \in Seq(NodeIds), Distinct(s), NEW n \in Elements(s)
  PROVE  Weight(s, n) \in Nat \ {0} /\ Rank(s, n) \in Nat
<1>1. Rank(s, n) \in 1 .. Len(s)
  BY DistinctList
<1>. QED  BY <1>1 DEF Weight

\* Two fractions: whoever has the smaller weight in a list has the larger share of it, and
\* shares of more lists only add.
LEMMA FractionsCompare ==
  ASSUME NEW t \in Nat \ {0}, NEW v \in Nat \ {0}, NEW s \in Nat \ {0}, NEW w \in Nat \ {0}
  PROVE  /\ t < s => (t + v) * s > 1 * (t * v)
         /\ v < w => (t + v) * w > 1 * (t * v)
         /\ t < s /\ v < w => (t + v) * (s * w) > (s + w) * (t * v)
<1>1. ASSUME t < s
      PROVE  (t + v) * s > 1 * (t * v)
  <2>1. (t + v) * s = t * s + v * s
    BY Products
  <2>2. t * v < s * v /\ s * v = v * s
    BY <1>1, Products
  <2>3. t * s \in Nat \ {0} /\ v * s \in Nat \ {0} /\ t * v \in Nat \ {0}
    BY Products
  <2>. QED  BY <2>1, <2>2, <2>3
<1>2. ASSUME v < w
      PROVE  (t + v) * w > 1 * (t * v)
  <2>1. (t + v) * w = t * w + v * w
    BY Products
  <2>2. t * v < t * w
    BY <1>2, Products
  <2>3. t * w \in Nat \ {0} /\ v * w \in Nat \ {0} /\ t * v \in Nat \ {0}
    BY Products
  <2>. QED  BY <2>1, <2>2, <2>3
<1>3. ASSUME t < s, v < w
      PROVE  (t + v) * (s * w) > (s + w) * (t * v)
  <2>1. PICK p \in Nat \ {0}, q \in Nat \ {0} : p = s * w /\ q = t * v
    BY Products
  <2>2. (t + v) * p = t * p + v * p /\ (s + w) * q = s * q + w * q
    BY Products
  <2>3. s * q < t * p
    <3>1. PICK x \in Nat \ {0} : x = t * s
      BY Products
    <3>2. s * q = x * v
      BY <2>1, <3>1, Products
    <3>3. t * p = x * w
      BY <2>1, <3>1, Products
    <3>. QED  BY <1>3, <3>2, <3>3, Products
  <2>4. w * q < v * p
    <3>1. PICK x \in Nat \ {0}, y \in Nat \ {0} : x = v * t /\ y = v * s
      BY Products
    <3>2. w * q = w * x
      BY <2>1, <3>1, Products
    <3>3. v * p = y * w /\ y * w = w * y
      BY <2>1, <3>1, Products
    <3>4. x < y
      BY <1>3, <3>1, Products
    <3>. QED  BY <3>2, <3>3, <3>4, Products
  <2>5. t * p \in Nat \ {0} /\ v * p \in Nat \ {0} /\ s * q \in Nat \ {0} /\ w * q \in Nat \ {0}
    BY Products
  <2>6. (t + v) * p > (s + w) * q
    BY <2>2, <2>3, <2>4, <2>5
  <2>. QED  BY <2>1, <2>6
<1>. QED  BY <1>1, <1>2, <1>3

\* Whoever is ahead in every list has the higher score, also when it is in one list more.
LEMMA AheadIsHigher ==
  ASSUME NEW text \in Seq(NodeIds), NEW vectors \in Seq(NodeIds), Distinct(text), Distinct(vectors),
         NEW m \in Elements(text) \cup Elements(vectors), NEW n \in Elements(text) \cup Elements(vectors),
         Ahead(text, vectors, m, n)
  PROVE  Higher(text, vectors, m, n)
<1> DEFINE t == Weight(text, m)  v == Weight(vectors, m)  s == Weight(text, n)  w == Weight(vectors, n)
<1>1. /\ m \in Elements(text) => t \in Nat \ {0} /\ Rank(text, m) \in Nat
      /\ n \in Elements(text) => s \in Nat \ {0} /\ Rank(text, n) \in Nat
      /\ m \in Elements(vectors) => v \in Nat \ {0} /\ Rank(vectors, m) \in Nat
      /\ n \in Elements(vectors) => w \in Nat \ {0} /\ Rank(vectors, n) \in Nat
  BY WeightType
<1>2. /\ n \in Elements(text) => m \in Elements(text) /\ t < s
      /\ n \in Elements(vectors) => m \in Elements(vectors) /\ v < w
  BY <1>1 DEF Ahead, Weight
<1>3. /\ m \notin Elements(vectors) => Score(text, vectors, m) = <<1, t>>
      /\ m \notin Elements(text) => Score(text, vectors, m) = <<1, v>>
      /\ m \in Elements(text) /\ m \in Elements(vectors) => Score(text, vectors, m) = <<t + v, t * v>>
  BY DEF Score
<1>4. /\ n \notin Elements(vectors) => Score(text, vectors, n) = <<1, s>>
      /\ n \notin Elements(text) => Score(text, vectors, n) = <<1, w>>
      /\ n \in Elements(text) /\ n \in Elements(vectors) => Score(text, vectors, n) = <<s + w, s * w>>
  BY DEF Score
<1>. HIDE DEF t, v, s, w
<1>5. CASE n \in Elements(text) /\ n \in Elements(vectors)
  <2>1. (t + v) * (s * w) > (s + w) * (t * v)
    BY <1>1, <1>2, <1>5, FractionsCompare
  <2>. QED  BY <1>2, <1>3, <1>4, <1>5, <2>1 DEF Higher
<1>6. CASE n \in Elements(text) /\ n \notin Elements(vectors)
  <2>1. m \notin Elements(vectors) => 1 * s > 1 * t
    BY <1>1, <1>2, <1>6
  <2>2. m \in Elements(vectors) => (t + v) * s > 1 * (t * v)
    BY <1>1, <1>2, <1>6, FractionsCompare
  <2>. QED  BY <1>2, <1>3, <1>4, <1>6, <2>1, <2>2 DEF Higher
<1>7. CASE n \notin Elements(text) /\ n \in Elements(vectors)
  <2>1. m \notin Elements(text) => 1 * w > 1 * v
    BY <1>1, <1>2, <1>7
  <2>2. m \in Elements(text) => (t + v) * w > 1 * (t * v)
    BY <1>1, <1>2, <1>7, FractionsCompare
  <2>. QED  BY <1>2, <1>3, <1>4, <1>7, <2>1, <2>2 DEF Higher
<1>. QED  BY <1>5, <1>6, <1>7

\* FusionKeepsTheBest of the lists and an answer.
KeepsTheBest(text, vectors, best, k) ==
  LET found == Elements(text) \cup Elements(vectors)
  IN /\ Elements(best) \subseteq found
     /\ Cardinality(Elements(best)) = Len(best)
     /\ Len(best) = k \/ Elements(best) = found
     /\ Len(best) <= k
     /\ \A i \in DOMAIN best : \A m \in found :
          Ahead(text, vectors, m, best[i]) => \E j \in 1 .. i - 1 : best[j] = m

\* What fuseRRF answers keeps the best, whichever way ties are broken.
LEMMA FusedKeepsTheBest ==
  ASSUME NEW text \in Seq(NodeIds), NEW vectors \in Seq(NodeIds), Distinct(text), Distinct(vectors),
         NEW k \in Int, k > 0, NEW best \in Fused(text, vectors, k)
  PROVE  KeepsTheBest(text, vectors, best, k)
<1>1. PICK found : found = Elements(text) \cup Elements(vectors)
  OBVIOUS
<1>2. IsFiniteSet(found) /\ Cardinality(found) \in Nat
  BY <1>1, DistinctList, FS_Union, FS_CardinalityType
<1>3. /\ best \in Lists(found, k)
      /\ Len(best) = IF k < Cardinality(found) THEN k ELSE Cardinality(found)
      /\ \A i \in DOMAIN best : /\ \A j \in 1 .. i - 1 : ~ Higher(text, vectors, best[i], best[j])
                               /\ \A m \in found \ Elements(best) : ~ Higher(text, vectors, m, best[i])
  BY <1>1 DEF Fused, Higher
<1>4. best \in Seq(found) /\ Distinct(best) /\ Len(best) <= k
  BY <1>2, <1>3, ListApart
<1>5. /\ Elements(best) \subseteq found /\ Cardinality(Elements(best)) = Len(best)
      /\ \A n \in Elements(best) : Rank(best, n) \in 1 .. Len(best) /\ best[Rank(best, n)] = n
      /\ DOMAIN best = 1 .. Len(best) /\ Len(best) \in Nat
      /\ \A i \in 1 .. Len(best) : best[i] \in Elements(best)
  BY <1>4, DistinctList
<1>6. Len(best) = k \/ Elements(best) = found
  <2>1. CASE k < Cardinality(found)
    BY <1>3, <2>1
  <2>2. CASE ~ (k < Cardinality(found))
    <3>1. Cardinality(Elements(best)) = Cardinality(found)
      BY <1>3, <1>5, <2>2
    <3>. QED  BY <1>2, <1>5, <3>1, FS_Subset
  <2>. QED  BY <2>1, <2>2
<1>7. ASSUME NEW i \in DOMAIN best, NEW m \in found, Ahead(text, vectors, m, best[i])
      PROVE  \E j \in 1 .. i - 1 : best[j] = m
  <2>1. best[i] \in found /\ i \in 1 .. Len(best)
    BY <1>4, <1>5
  <2>2. Higher(text, vectors, m, best[i])
    BY <1>1, <1>7, <2>1, AheadIsHigher
  <2>3. m \in Elements(best)
    BY <1>3, <2>2
  <2>4. PICK j \in 1 .. Len(best) : best[j] = m
    BY <1>5, <2>3
  <2>5. j # i
    <3>1. ~ Ahead(text, vectors, m, m)
      <4>1. \A l \in {text, vectors} : m \in Elements(l) => Rank(l, m) \in Nat
        BY WeightType
      <4>2. \E l \in {text, vectors} : m \in Elements(l)
        BY <1>1
      <4>. QED  BY <4>1, <4>2 DEF Ahead
    <3>. QED  BY <1>7, <2>4, <3>1
  <2>6. ~ (j > i)
    <3>. SUFFICES ASSUME j > i PROVE FALSE
      OBVIOUS
    <3>1. i \in 1 .. j - 1
      BY <1>5, <2>1
    <3>2. ~ Higher(text, vectors, best[j], best[i])
      BY <1>3, <1>5, <2>4, <3>1
    <3>. QED  BY <2>2, <2>4, <3>2
  <2>7. j \in 1 .. i - 1
    BY <1>5, <2>1, <2>4, <2>5, <2>6
  <2>. QED  BY <2>4, <2>7
<1>. QED  BY <1>1, <1>4, <1>5, <1>6, <1>7 DEF KeepsTheBest

\* The full-text hits alone are their own fusion.
LEMMA TextKeepsTheBest ==
  ASSUME NEW text \in Seq(NodeIds), Distinct(text), NEW k \in Int, Len(text) <= k
  PROVE  KeepsTheBest(text, <<>>, text, k)
<1>0. Elements(<<>>) = {}
  BY DEF Elements
<1>1. /\ Cardinality(Elements(text)) = Len(text)
      /\ \A n \in Elements(text) : Rank(text, n) \in 1 .. Len(text) /\ text[Rank(text, n)] = n
      /\ \A i \in 1 .. Len(text) : text[i] \in Elements(text) /\ Rank(text, text[i]) = i
      /\ DOMAIN text = 1 .. Len(text)
  BY DistinctList
<1>2. ASSUME NEW i \in 1 .. Len(text), NEW m \in Elements(text), Ahead(text, <<>>, m, text[i])
      PROVE  \E j \in 1 .. i - 1 : text[j] = m
  <2>1. Rank(text, m) < i /\ Rank(text, m) \in 1 .. Len(text)
    BY <1>0, <1>1, <1>2 DEF Ahead
  <2>2. Rank(text, m) \in 1 .. i - 1
    BY <2>1
  <2>. QED  BY <1>1, <2>2
<1>. QED  BY <1>0, <1>1, <1>2 DEF KeepsTheBest


\* KeepsTheBest of the call is the property.
LEMMA KeepsIsFusion ==
  ASSUME NEW STATE s, s \in SearchCall, search' = s,
         s.pc = "done" => KeepsTheBest(s.text, s.vectors, s.answer, Limit(s.query.limit))
  PROVE  FusionKeepsTheBest'
<1>1. PICK t : t = s
  OBVIOUS
<1>2. t.pc = "done" => KeepsTheBest(t.text, t.vectors, t.answer, Limit(t.query.limit))
  BY <1>1
<1>3. search' = t
  BY <1>1
<1>4. UNION {Elements(l) : l \in {t.text, t.vectors}} = Elements(t.text) \cup Elements(t.vectors)
  OBVIOUS
<1>. QED  BY <1>2, <1>3, <1>4 DEF FusionKeepsTheBest, KeepsTheBest, Ahead

\* The statements of Search and ResolveByExternalID, one by one.
LEMMA FusionStep ==
  ASSUME RInv, FusionInv, SearchBegin \/ LoadHit \/ Embed \/ Fuse \/ ResolveBegin \/ LoadChildren
  PROVE  FusionInv'
<1>1. /\ search \in SearchCall /\ TInv
      /\ search.rows \in Seq(NodeIds) /\ search.text \in Seq(NodeIds)
      /\ search.vectors \in Seq(NodeIds) /\ search.answer \in Seq(NodeIds)
      /\ search.query.limit \in Int
  BY ReadsAssumption DEF RInv, SearchOK, SearchCall, SearchQuery
<1>2. PICK k \in Int : k = Limit(search.query.limit) /\ k > 0
  BY <1>1 DEF Limit
<1>3. IsFiniteSet(nodes) /\ nodes \subseteq NodeIds
  BY <1>1, TraversalAssumption, FS_Subset DEF TInv, GraphOK
<1>4. ASSUME NEW type, NEW hits \in Hits(type, k)
      PROVE  Apart(<<>>, hits, k)
  <2> DEFINE S == {n \in nodes : NodeVisible(n) /\ type \in {NoType, NodeGuard[n].type}}
  <2>1. IsFiniteSet(S) /\ hits \in Lists(S, k)
    BY <1>3, FS_Subset DEF Hits
  <2>. HIDE DEF S
  <2>. QED  BY <1>2, <2>1, ListApart
<1>5. Len(<<>>) = 0 /\ Elements(<<>>) = {} /\ Distinct(<<>>) /\ <<>> \in Seq(NodeIds)
  BY DEF Elements, Distinct
<1>6. CASE SearchBegin
  <2>1. search.pc = "idle" /\ search.text = <<>> /\ search.vectors = <<>> /\ search.answer = <<>>
    BY <1>6 DEF SearchBegin, FusionInv
  <2>2. CASE search' = [search EXCEPT !.pc = "done"]
    <3>1. /\ search'.pc = "done" /\ search'.text = <<>> /\ search'.vectors = <<>> /\ search'.answer = <<>>
          /\ search'.query = search.query /\ search' \in SearchCall
      BY <1>1, <2>1, <2>2 DEF SearchCall
    <3>2. KeepsTheBest(<<>>, <<>>, <<>>, k)
      <4>1. PICK none : none = <<>>
        OBVIOUS
      <4>2. none \in Seq(NodeIds) /\ Distinct(none) /\ Len(none) = 0
        BY <1>5, <4>1, Zenon
      <4>3. Len(none) <= k
        BY <1>2, <4>2
      <4>4. KeepsTheBest(none, <<>>, none, k)
        BY <4>2, <4>3, TextKeepsTheBest
      <4>. QED  BY <4>1, <4>4
    <3>3. FusionKeepsTheBest'
      BY <1>2, <3>1, <3>2, KeepsIsFusion
    <3>. QED  BY <3>1, <3>3 DEF FusionInv
  <2>3. CASE search' = [search EXCEPT !.pc = "refused"]
    BY <1>1, <2>3 DEF SearchCall, FusionInv, FusionKeepsTheBest
  <2>4. ASSUME NEW hits \in Hits(search.query.type, k), search' = [search EXCEPT !.pc = "text", !.rows = hits]
        PROVE  FusionInv'
    <3>1. Apart(<<>>, hits, k)
      BY <1>4
    <3>2. /\ search'.pc = "text" /\ search'.text = <<>> /\ search'.vectors = <<>> /\ search'.rows = hits
          /\ search'.query = search.query
      BY <1>1, <2>1, <2>4 DEF SearchCall
    <3>. QED  BY <1>2, <3>1, <3>2 DEF FusionInv, FusionKeepsTheBest
  <2>. QED  BY <1>2, <1>6, <2>2, <2>3, <2>4 DEF SearchBegin
<1>7. CASE LoadHit
  <2>1. search.rows # <<>> /\ search.pc \in {"text", "vectors"}
    BY <1>7 DEF LoadHit
  <2>2. CASE search' = [search EXCEPT !.pc = "failed"]
    BY <1>1, <2>2 DEF SearchCall, FusionInv, FusionKeepsTheBest
  <2>3. CASE /\ search.pc = "text"
             /\ search' = [search EXCEPT !.rows = Tail(search.rows),
                                         !.text = Append(search.text, Head(search.rows))]
    <3>1. Apart(search.text, search.rows, k) /\ search.vectors = <<>>
      BY <1>2, <2>3 DEF FusionInv
    <3>2. Apart(Append(search.text, Head(search.rows)), Tail(search.rows), k)
      BY <1>1, <2>1, <3>1, ApartLoads
    <3>3. /\ search'.pc = "text" /\ search'.text = Append(search.text, Head(search.rows))
          /\ search'.vectors = <<>> /\ search'.rows = Tail(search.rows) /\ search'.query = search.query
      BY <1>1, <2>3, <3>1 DEF SearchCall
    <3>. QED  BY <1>2, <3>2, <3>3 DEF FusionInv, FusionKeepsTheBest
  <2>4. CASE /\ search.pc = "vectors"
             /\ search' = [search EXCEPT !.rows = Tail(search.rows),
                                         !.vectors = Append(search.vectors, Head(search.rows))]
    <3>1. Apart(search.vectors, search.rows, k) /\ Distinct(search.text)
      BY <1>2, <2>4 DEF FusionInv
    <3>2. Apart(Append(search.vectors, Head(search.rows)), Tail(search.rows), k)
      BY <1>1, <2>1, <3>1, ApartLoads
    <3>3. /\ search'.pc = "vectors" /\ search'.vectors = Append(search.vectors, Head(search.rows))
          /\ search'.text = search.text /\ search'.rows = Tail(search.rows)
          /\ search'.query = search.query
      BY <1>1, <2>4 DEF SearchCall
    <3>. QED  BY <1>2, <3>1, <3>2, <3>3 DEF FusionInv, FusionKeepsTheBest
  <2>. QED  BY <1>7, <2>2, <2>3, <2>4 DEF LoadHit
<1>8. CASE Embed
  <2>1. /\ search.pc = "text" /\ search.rows = <<>> /\ search.vectors = <<>>
        /\ Apart(search.text, <<>>, k)
    BY <1>2, <1>8 DEF Embed, FusionInv
  <2>2. Distinct(search.text) /\ Len(search.text) <= k
    BY <1>1, <1>5, <2>1 DEF Apart
  <2>3. CASE search' = [search EXCEPT !.pc = "done", !.answer = search.text]
    <3>1. /\ search'.pc = "done" /\ search'.text = search.text /\ search'.vectors = <<>>
          /\ search'.answer = search.text /\ search'.query = search.query /\ search' \in SearchCall
      BY <1>1, <2>1, <2>3 DEF SearchCall
    <3>2. KeepsTheBest(search.text, <<>>, search.text, k)
      BY <1>1, <2>2, TextKeepsTheBest
    <3>3. FusionKeepsTheBest'
      BY <1>2, <3>1, <3>2, KeepsIsFusion
    <3>. QED  BY <3>1, <3>3 DEF FusionInv
  <2>4. ASSUME NEW hits \in Hits(search.query.type, k), search' = [search EXCEPT !.pc = "vectors", !.rows = hits]
        PROVE  FusionInv'
    <3>1. Apart(<<>>, hits, k)
      BY <1>4
    <3>2. /\ search'.pc = "vectors" /\ search'.text = search.text /\ search'.vectors = <<>>
          /\ search'.rows = hits /\ search'.query = search.query
      BY <1>1, <2>1, <2>4 DEF SearchCall
    <3>. QED  BY <1>2, <2>2, <3>1, <3>2 DEF FusionInv, FusionKeepsTheBest
  <2>. QED  BY <1>2, <1>8, <2>3, <2>4 DEF Embed
<1>9. CASE Fuse
  <2>1. PICK s \in Fused(search.text, search.vectors, k) :
          search' = [search EXCEPT !.pc = "done", !.answer = s]
    BY <1>2, <1>9 DEF Fuse
  <2>2. Distinct(search.text) /\ Distinct(search.vectors)
    BY <1>9 DEF Fuse, FusionInv, Apart
  <2>3. KeepsTheBest(search.text, search.vectors, s, k) /\ s \in Seq(NodeIds)
    BY <1>1, <1>2, <2>2, FusedKeepsTheBest, FusedOK
  <2>4. /\ search'.pc = "done" /\ search'.text = search.text /\ search'.vectors = search.vectors
        /\ search'.answer = s /\ search'.query = search.query /\ search' \in SearchCall
    BY <1>1, <2>1, <2>3 DEF SearchCall
  <2>5. FusionKeepsTheBest'
    BY <1>2, <2>3, <2>4, KeepsIsFusion
  <2>. QED  BY <2>4, <2>5 DEF FusionInv
<1>10. CASE ResolveBegin \/ LoadChildren
  <2>1. search'.pc \in {"children", "resolved"}
    BY <1>1, <1>10 DEF ResolveBegin, LoadChildren, SearchCall
  <2>. QED  BY <2>1 DEF FusionInv, FusionKeepsTheBest
<1>. QED  BY <1>6, <1>7, <1>8, <1>9, <1>10

\* Reciprocal-rank fusion answers as many hits as the limit lets in, none twice, and never
\* one before or instead of a hit that is ahead of it in every list (Search, fuseRRF).
THEOREM FusionKeepsTheBestEver == ReadsSpec => []FusionKeepsTheBest
<1>1. ReadsInit => FusionInv
  BY DEF ReadsInit, FusionInv, FusionKeepsTheBest
<1>2. RInv /\ FusionInv /\ [ReadsNext]_readVars => FusionInv'
  <2>. SUFFICES ASSUME RInv, FusionInv, [ReadsNext]_readVars
                PROVE  FusionInv'
    OBVIOUS
  <2>1. CASE UNCHANGED search
    BY <2>1 DEF FusionInv, FusionKeepsTheBest
  <2>2. CASE SearchBegin \/ LoadHit \/ Embed \/ Fuse \/ ResolveBegin \/ LoadChildren
    BY <2>2, FusionStep
  <2>. QED  BY <2>1, <2>2 DEF ReadsNext, readVars
<1>3. FusionInv => FusionKeepsTheBest
  BY DEF FusionInv
<1>. QED  BY <1>1, <1>2, <1>3, RInductive, PTL DEF ReadsSpec

=============================================================================
