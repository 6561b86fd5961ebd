---------------------------- MODULE AccessProofs ----------------------------
(***************************************************************************)
(* Theorems of Access.  The cache part of the invariant is about lists      *)
(* without two elements of one key; the rest bounds how late a decision may *)
(* still be used by when its grants were last known to be held.             *)
(***************************************************************************)
EXTENDS Access, SequenceTheorems, TLAPS

\* The list l holds one element for each key of K, and no other.
InStep(l, K) ==
  /\ K = {l[i].key : i \in DOMAIN l}
  /\ \A i, j \in DOMAIN l : l[i].key = l[j].key => i = j

\* The list l is in the order of the pairs u.
Ordered(l, u) == \A i, j \in DOMAIN l : i < j => <<l[i].key, l[j].key>> \in u

\* The elements of l are among those of m.
Among(l, m) == \A i \in DOMAIN l : \E n \in DOMAIN m : l[i] = m[n]

\* Removing an element of a list (container/list Remove).
LEMMA Removal ==
  ASSUME NEW s \in Seq(Entry), NEW i \in 1 .. Len(s)
  PROVE  LET r == Lists!RemoveAt(s, i) IN
         /\ r \in Seq(Entry) /\ Len(r) = Len(s) - 1
         /\ \A j \in 1 .. Len(r) : r[j] = s[IF j < i THEN j ELSE j + 1]
<1> DEFINE a == SubSeq(s, 1, i - 1)
           b == SubSeq(s, i + 1, Len(s))
<1>0. Len(s) \in Nat /\ i \in Nat
  OBVIOUS
<1>1. /\ a \in Seq(Entry) /\ Len(a) = i - 1
      /\ \A j \in 1 .. i - 1 : a[j] = s[j]
  <2>1. \A j \in 1 .. i - 1 : s[j] \in Entry
    OBVIOUS
  <2>2. /\ a \in Seq(Entry) /\ Len(a) = IF 1 <= i - 1 THEN i - 1 - 1 + 1 ELSE 0
        /\ \A j \in 1 .. i - 1 - 1 + 1 : a[j] = s[1 + j - 1]
    BY <1>0, <2>1, SubSeqProperties
  <2>. QED  BY <1>0, <2>2
<1>2. /\ b \in Seq(Entry) /\ Len(b) = Len(s) - i
      /\ \A j \in 1 .. Len(s) - i : b[j] = s[i + j]
  <2>1. \A j \in i + 1 .. Len(s) : s[j] \in Entry
    OBVIOUS
  <2>2. /\ b \in Seq(Entry) /\ Len(b) = IF i + 1 <= Len(s) THEN Len(s) - (i + 1) + 1 ELSE 0
        /\ \A j \in 1 .. Len(s) - (i + 1) + 1 : b[j] = s[i + 1 + j - 1]
    BY <1>0, <2>1, SubSeqProperties
  <2>. QED  BY <1>0, <2>2
<1>3. /\ a \o b \in Seq(Entry) /\ Len(a \o b) = Len(a) + Len(b)
      /\ \A j \in 1 .. Len(a) + Len(b) : (a \o b)[j] = IF j <= Len(a) THEN a[j] ELSE b[j - Len(a)]
  BY <1>1, <1>2, ConcatProperties
<1>4. Lists!RemoveAt(s, i) = a \o b
  BY DEF Lists!RemoveAt
<1>. HIDE DEF a, b
<1>5. Len(a \o b) = Len(s) - 1
  BY <1>0, <1>1, <1>2, <1>3
<1>6. ASSUME NEW j \in 1 .. Len(s) - 1
      PROVE  (a \o b)[j] = s[IF j < i THEN j ELSE j + 1]
  <2>1. CASE j < i
    BY <2>1, <1>0, <1>1, <1>2, <1>3
  <2>2. CASE ~ (j < i)
    <3>1. (a \o b)[j] = b[j - (i - 1)]
      BY <2>2, <1>0, <1>1, <1>2, <1>3
    <3>2. b[j - (i - 1)] = s[i + (j - (i - 1))]
      BY <2>2, <1>0, <1>2
    <3>. QED  BY <2>2, <1>0, <3>1, <3>2
  <2>. QED  BY <2>1, <2>2
<1>. QED  BY <1>3, <1>4, <1>5, <1>6

\* Putting an element of a new key in front (container/list PushFront).
LEMMA Push ==
  ASSUME NEW l \in Seq(Entry), NEW K, InStep(l, K), NEW e \in Entry, e.key \notin K
  PROVE  LET r == <<e>> \o l IN
         /\ r \in Seq(Entry) /\ Len(r) = Len(l) + 1
         /\ r[1] = e /\ \A i \in 1 .. Len(l) : r[i + 1] = l[i]
         /\ \A i \in DOMAIN r : i = 1 \/ (i - 1 \in DOMAIN l /\ r[i] = l[i - 1])
         /\ InStep(r, K \cup {e.key})
<1> DEFINE r == <<e>> \o l
<1>0. /\ <<e>> \in Seq(Entry) /\ Len(<<e>>) = 1 /\ <<e>>[1] = e
      /\ Len(l) \in Nat /\ DOMAIN l = 1 .. Len(l)
  OBVIOUS
<1>1. /\ r \in Seq(Entry) /\ Len(r) = Len(<<e>>) + Len(l)
      /\ \A i \in 1 .. Len(<<e>>) + Len(l) :
           r[i] = IF i <= Len(<<e>>) THEN <<e>>[i] ELSE l[i - Len(<<e>>)]
  BY <1>0, ConcatProperties
<1>. HIDE DEF r
<1>2. Len(r) = Len(l) + 1 /\ DOMAIN r = 1 .. Len(l) + 1
  BY <1>0, <1>1
<1>3. r[1] = e
  BY <1>0, <1>1
<1>4. \A i \in 1 .. Len(l) : r[i + 1] = l[i]
  <2>. SUFFICES ASSUME NEW i \in 1 .. Len(l) PROVE r[i + 1] = l[i]
    OBVIOUS
  <2>1. i + 1 \in 1 .. 1 + Len(l) /\ ~ (i + 1 <= 1) /\ i + 1 - 1 = i
    BY <1>0
  <2>. QED  BY <2>1, <1>0, <1>1
<1>5. \A i \in DOMAIN r : i = 1 \/ (i - 1 \in DOMAIN l /\ r[i] = l[i - 1])
  <2>. SUFFICES ASSUME NEW i \in DOMAIN r, i # 1 PROVE i - 1 \in DOMAIN l /\ r[i] = l[i - 1]
    OBVIOUS
  <2>1. i - 1 \in 1 .. Len(l) /\ (i - 1) + 1 = i
    BY <1>0, <1>2
  <2>. QED  BY <2>1, <1>0, <1>4
<1>6. InStep(r, K \cup {e.key})
  <2>1. K \cup {e.key} = {r[i].key : i \in DOMAIN r}
    <3>1. ASSUME NEW i \in DOMAIN l PROVE i + 1 \in DOMAIN r /\ r[i + 1].key = l[i].key
      BY <1>0, <1>2, <1>4
    <3>2. 1 \in DOMAIN r
      BY <1>0, <1>2
    <3>. QED  BY <1>3, <1>5, <3>1, <3>2 DEF InStep
  <2>2. ASSUME NEW i \in DOMAIN r, NEW j \in DOMAIN r, r[i].key = r[j].key PROVE i = j
    <3>1. CASE i = 1 /\ j # 1
      BY <3>1, <1>3, <1>5, <2>2 DEF InStep
    <3>2. CASE i # 1 /\ j = 1
      BY <3>2, <1>3, <1>5, <2>2 DEF InStep
    <3>3. CASE i # 1 /\ j # 1
      <4>1. i - 1 = j - 1
        BY <3>3, <1>5, <2>2 DEF InStep
      <4>. QED  BY <4>1, <1>0, <1>2
    <3>. QED  BY <3>1, <3>2, <3>3
  <2>. QED  BY <2>1, <2>2 DEF InStep
<1>. QED  BY <1>1, <1>2, <1>3, <1>4, <1>5, <1>6 DEF r

\* Cutting a list after n elements (put evicts from the back).
LEMMA Prefix ==
  ASSUME NEW l \in Seq(Entry), NEW K, InStep(l, K), NEW n \in Nat, n <= Len(l)
  PROVE  LET r == SubSeq(l, 1, n) IN
         /\ r \in Seq(Entry) /\ Len(r) = n
         /\ \A i \in 1 .. n : r[i] = l[i]
         /\ InStep(r, K \ {l[i].key : i \in n + 1 .. Len(l)})
<1> DEFINE r == SubSeq(l, 1, n)
<1>0. Len(l) \in Nat /\ DOMAIN l = 1 .. Len(l) /\ 1 .. n \subseteq DOMAIN l
  OBVIOUS
<1>1. /\ r \in Seq(Entry) /\ Len(r) = IF 1 <= n THEN n - 1 + 1 ELSE 0
      /\ \A i \in 1 .. n - 1 + 1 : r[i] = l[1 + i - 1]
  <2>1. \A i \in 1 .. n : l[i] \in Entry
    BY <1>0
  <2>. QED  BY <2>1, SubSeqProperties
<1>. HIDE DEF r
<1>2. Len(r) = n /\ DOMAIN r = 1 .. n /\ \A i \in 1 .. n : r[i] = l[i]
  BY <1>1
<1>3. InStep(r, K \ {l[i].key : i \in n + 1 .. Len(l)})
  <2>1. \A i \in 1 .. n : r[i].key \in K
    BY <1>0, <1>2 DEF InStep
  <2>2. \A i \in 1 .. n : r[i].key \notin {l[j].key : j \in n + 1 .. Len(l)}
    <3>. SUFFICES ASSUME NEW i \in 1 .. n, NEW j \in n + 1 .. Len(l), l[i].key = l[j].key
                  PROVE  FALSE
      BY <1>2
    <3>1. i \in DOMAIN l /\ j \in DOMAIN l /\ i # j
      BY <1>0
    <3>. QED  BY <3>1 DEF InStep
  <2>3. ASSUME NEW k \in K, k \notin {l[j].key : j \in n + 1 .. Len(l)}
        PROVE  \E i \in 1 .. n : r[i].key = k
    <3>1. PICK i \in DOMAIN l : l[i].key = k
      BY DEF InStep
    <3>2. i \in 1 .. n
      BY <1>0, <2>3, <3>1
    <3>. QED  BY <1>2, <3>1, <3>2
  <2>4. \A i, j \in DOMAIN r : r[i].key = r[j].key => i = j
    BY <1>0, <1>2 DEF InStep
  <2>5. K \ {l[j].key : j \in n + 1 .. Len(l)} = {r[i].key : i \in DOMAIN r}
    BY <1>2, <2>1, <2>2, <2>3
  <2>. QED  BY <2>4, <2>5 DEF InStep
<1>. QED  BY <1>1, <1>2, <1>3 DEF r

\* The element of a key of the map (decisionCache.get: items and ll are in step).
LEMMA Place ==
  ASSUME ll \in Seq(Entry), InStep(ll, items), NEW k \in items
  PROVE  Position(k) \in 1 .. Len(ll) /\ ll[Position(k)].key = k /\ ll[Position(k)] \in Entry
<1>1. \E i \in DOMAIN ll : ll[i].key = k
  BY DEF InStep
<1>2. Position(k) \in DOMAIN ll /\ ll[Position(k)].key = k
  BY <1>1 DEF Position
<1>. QED  BY <1>2

\* What is left of the list without the element of k.
LEMMA OthersInStep ==
  ASSUME ll \in Seq(Entry), InStep(ll, items), Ordered(ll, used), NEW k \in items
  PROVE  LET r == Others(k) IN
         /\ r \in Seq(Entry) /\ Len(r) = Len(ll) - 1
         /\ InStep(r, items \ {k}) /\ Ordered(r, used) /\ Among(r, ll)
<1> DEFINE r == Others(k)
           p == Position(k)
           at(j) == IF j < p THEN j ELSE j + 1
<1>0. p \in 1 .. Len(ll) /\ ll[p].key = k
  BY Place
<1>1. /\ r \in Seq(Entry) /\ Len(r) = Len(ll) - 1
      /\ \A j \in 1 .. Len(r) : r[j] = ll[at(j)]
  BY <1>0, Removal DEF Others
<1>. HIDE DEF r, p
<1>2. Len(ll) \in Nat /\ DOMAIN ll = 1 .. Len(ll) /\ DOMAIN r = 1 .. Len(ll) - 1 /\ p \in Nat
  BY <1>0, <1>1
<1>3. \A j \in DOMAIN r : at(j) \in DOMAIN ll /\ at(j) # p /\ r[j] = ll[at(j)]
  BY <1>1, <1>2
<1>4. \A i, j \in DOMAIN r : (i < j => at(i) < at(j)) /\ (at(i) = at(j) => i = j)
  BY <1>2
<1>5. \A n \in DOMAIN ll : n # p => \E j \in DOMAIN r : at(j) = n
  <2>. SUFFICES ASSUME NEW n \in DOMAIN ll, n # p PROVE \E j \in DOMAIN r : at(j) = n
    OBVIOUS
  <2>1. CASE n < p
    BY <2>1, <1>0, <1>2
  <2>2. CASE p < n
    <3>1. n - 1 \in DOMAIN r /\ at(n - 1) = n
      BY <2>2, <1>0, <1>2
    <3>. QED  BY <3>1
  <2>. QED  BY <2>1, <2>2, <1>2
<1>7. Ordered(r, used)
  <2>. SUFFICES ASSUME NEW i \in DOMAIN r, NEW j \in DOMAIN r, i < j
                PROVE  <<r[i].key, r[j].key>> \in used
    BY DEF Ordered
  <2>1. at(i) \in DOMAIN ll /\ at(j) \in DOMAIN ll
    BY <1>3
  <2>3. at(i) < at(j)
    BY <1>2
  <2>2. <<ll[at(i)].key, ll[at(j)].key>> \in used
    BY <2>1, <2>3 DEF Ordered
  <2>. QED  BY <1>3, <2>2
<1>. HIDE DEF at
<1>6. InStep(r, items \ {k})
  <2>1. \A j \in DOMAIN r : r[j].key \in items \ {k}
    BY <1>0, <1>2, <1>3 DEF InStep
  <2>2. ASSUME NEW q \in items \ {k} PROVE \E j \in DOMAIN r : r[j].key = q
    <3>1. PICK n \in DOMAIN ll : ll[n].key = q
      BY DEF InStep
    <3>. QED  BY <1>0, <1>3, <1>5, <3>1
  <2>3. \A i, j \in DOMAIN r : r[i].key = r[j].key => i = j
    BY <1>3, <1>4 DEF InStep
  <2>. QED  BY <2>1, <2>2, <2>3 DEF InStep
<1>8. Among(r, ll)
  BY <1>3 DEF Among
<1>. QED  BY <1>1, <1>6, <1>7, <1>8 DEF r

----------------------------------------------------------------------------
(* The cache. *)

CacheInv ==
  /\ ll \in Seq(Entry) /\ Len(ll) <= Capacity /\ items \subseteq Bearers
  /\ used \subseteq Bearers \X Bearers
  /\ InStep(ll, items) /\ Ordered(ll, used)

\* What a cache operation leaves: elements of the list as it was, and e.
OnlyFrom(e) == \A i \in DOMAIN ll' : ll'[i] = e \/ \E n \in DOMAIN ll : ll'[i] = ll[n]

\* The pairs after a use of b order any list with b in front that they ordered before.
LEMMA LaterOrders ==
  ASSUME NEW l \in Seq(Entry), NEW K, InStep(l, K), Ordered(l, used),
         NEW e \in Entry, e.key \notin K, NEW keys, K \subseteq keys,
         NEW r \in Seq(Entry), r[1] = e,
         \A i \in DOMAIN r : i = 1 \/ (i - 1 \in DOMAIN l /\ r[i] = l[i - 1])
  PROVE  Ordered(r, Later(e.key, keys))
<1>. SUFFICES ASSUME NEW i \in DOMAIN r, NEW j \in DOMAIN r, i < j
              PROVE  <<r[i].key, r[j].key>> \in Later(e.key, keys)
  BY DEF Ordered
<1>0. i \in Nat \ {0} /\ j \in Nat \ {0} /\ j # 1
  OBVIOUS
<1>1. j - 1 \in DOMAIN l /\ r[j] = l[j - 1] /\ r[j].key \in keys \ {e.key}
  BY <1>0 DEF InStep
<1>2. CASE i = 1
  BY <1>1, <1>2 DEF Later
<1>3. CASE i # 1
  <2>1. i - 1 \in DOMAIN l /\ r[i] = l[i - 1] /\ r[i].key \in keys \ {e.key}
    BY <1>3 DEF InStep
  <2>2. i - 1 < j - 1
    BY <1>0
  <2>3. <<l[i - 1].key, l[j - 1].key>> \in used
    BY <1>1, <2>1, <2>2 DEF Ordered
  <2>. QED  BY <1>1, <2>1, <2>3 DEF Later
<1>. QED  BY <1>2, <1>3

LEMMA LaterType ==
  ASSUME used \subseteq Bearers \X Bearers, NEW b \in Bearers, NEW keys \in SUBSET Bearers
  PROVE  Later(b, keys) \subseteq Bearers \X Bearers
BY DEF Later

LEMMA HitKeeps ==
  ASSUME CacheInv, NEW k \in items, Hit(k)
  PROVE  CacheInv' /\ Among(ll', ll)
<1> DEFINE e == ll[Position(k)]
           r == Others(k)
<1>1. e \in Entry /\ e.key = k /\ Position(k) \in 1 .. Len(ll)
  BY Place DEF CacheInv
<1>2. /\ r \in Seq(Entry) /\ Len(r) = Len(ll) - 1
      /\ InStep(r, items \ {k}) /\ Ordered(r, used) /\ Among(r, ll)
  BY OthersInStep DEF CacheInv
<1>3. ll' = <<e>> \o r /\ items' = items /\ used' = Later(k, items)
  BY DEF Hit
<1>. HIDE DEF e, r
<1>4. /\ ll' \in Seq(Entry) /\ Len(ll') = Len(r) + 1 /\ ll'[1] = e
      /\ \A i \in DOMAIN ll' : i = 1 \/ (i - 1 \in DOMAIN r /\ ll'[i] = r[i - 1])
      /\ InStep(ll', (items \ {k}) \cup {k})
  <2>1. e \in Entry /\ e.key \notin items \ {k} /\ InStep(r, items \ {k}) /\ r \in Seq(Entry)
    BY <1>1, <1>2
  <2> DEFINE s == <<e>> \o r
  <2>2. /\ s \in Seq(Entry) /\ Len(s) = Len(r) + 1 /\ s[1] = e
        /\ \A i \in DOMAIN s : i = 1 \/ (i - 1 \in DOMAIN r /\ s[i] = r[i - 1])
        /\ InStep(s, (items \ {k}) \cup {e.key})
    BY <2>1, Push
  <2>. QED  BY <2>2, <1>1, <1>3
<1>5. Ordered(ll', used')
  <2>1. /\ InStep(r, items \ {k}) /\ e.key \notin items \ {k}
        /\ items \ {k} \subseteq items
    BY <1>1, <1>2
  <2>2. Ordered(ll', Later(e.key, items))
    BY <2>1, <1>1, <1>2, <1>4, LaterOrders
  <2>. QED  BY <2>2, <1>1, <1>3
<1>6. InStep(ll', items')
  <2>1. (items \ {k}) \cup {k} = items'
    BY <1>3
  <2>. QED  BY <1>4, <2>1
<1>7. Len(ll') <= Capacity
  BY <1>2, <1>4, AccessAssumption DEF CacheInv
<1>8. used' \subseteq Bearers \X Bearers
  BY <1>3, LaterType DEF CacheInv
<1>9. Among(ll', ll)
  <2>. SUFFICES ASSUME NEW i \in DOMAIN ll' PROVE \E n \in DOMAIN ll : ll'[i] = ll[n]
    BY DEF Among
  <2>1. CASE i = 1
    BY <2>1, <1>1, <1>4 DEF e, CacheInv
  <2>2. CASE i # 1
    BY <2>2, <1>2, <1>4 DEF Among
  <2>. QED  BY <2>1, <2>2
<1>. QED  BY <1>3, <1>4, <1>5, <1>6, <1>7, <1>8, <1>9 DEF CacheInv

LEMMA ExpireKeeps ==
  ASSUME CacheInv, NEW k \in items, Expire(k)
  PROVE  CacheInv' /\ Among(ll', ll)
<1>1. /\ ll' \in Seq(Entry) /\ Len(ll') = Len(ll) - 1
      /\ InStep(ll', items \ {k}) /\ Ordered(ll', used) /\ Among(ll', ll)
  BY OthersInStep DEF CacheInv, Expire
<1>2. items' = items \ {k} /\ used' = {p \in used : k \notin {p[1], p[2]}}
  BY DEF Expire
<1>3. Ordered(ll', used')
  <2>1. \A i \in DOMAIN ll' : ll'[i].key # k
    BY <1>1 DEF InStep
  <2>. QED  BY <1>1, <1>2, <2>1 DEF Ordered
<1>4. Len(ll') <= Capacity
  BY <1>1, AccessAssumption DEF CacheInv
<1>. QED  BY <1>1, <1>2, <1>3, <1>4 DEF CacheInv

\* The list with e in front, before anything is evicted.
LEMMA FrontInStep ==
  ASSUME CacheInv, NEW e \in Entry
  PROVE  LET f == InFront(e) IN
         /\ f \in Seq(Entry) /\ 1 <= Len(f)
         /\ Len(f) = IF e.key \in items THEN Len(ll) ELSE Len(ll) + 1
         /\ InStep(f, items \cup {e.key})
         /\ Ordered(f, Later(e.key, items \cup {e.key}))
         /\ \A i \in DOMAIN f :
           (i = 1 /\ f[i] = e) \/ (i # 1 /\ \E n \in DOMAIN ll : f[i] = ll[n])
         /\ e.key \notin items =>
              \A i \in DOMAIN f : i = 1 \/ (i - 1 \in DOMAIN ll /\ f[i] = ll[i - 1])
<1> DEFINE l == IF e.key \in items THEN Others(e.key) ELSE ll
           f == <<e>> \o l
           K == items \ {e.key}
<1>1. /\ l \in Seq(Entry) /\ InStep(l, K) /\ Ordered(l, used) /\ Among(l, ll)
      /\ Len(l) = IF e.key \in items THEN Len(ll) - 1 ELSE Len(ll)
  <2>1. CASE e.key \in items
    BY <2>1, OthersInStep DEF CacheInv
  <2>2. CASE e.key \notin items
    <3>1. l = ll /\ K = items
      BY <2>2
    <3>. QED  BY <2>2, <3>1 DEF CacheInv, Among
  <2>. QED  BY <2>1, <2>2
<1>2. e.key \notin K /\ K \cup {e.key} = items \cup {e.key} /\ K \subseteq items \cup {e.key}
  OBVIOUS
<1>3. InFront(e) = f /\ (e.key \notin items => l = ll)
  BY DEF InFront
<1>. HIDE DEF l, K
<1>4. /\ f \in Seq(Entry) /\ Len(f) = Len(l) + 1 /\ f[1] = e
      /\ \A i \in DOMAIN f : i = 1 \/ (i - 1 \in DOMAIN l /\ f[i] = l[i - 1])
      /\ InStep(f, K \cup {e.key})
  BY <1>1, <1>2, Push
<1>. HIDE DEF f
<1>5. Ordered(f, Later(e.key, items \cup {e.key}))
  BY <1>1, <1>2, <1>4, LaterOrders
<1>6. Len(l) \in Nat /\ Len(ll) \in Nat
  BY <1>1 DEF CacheInv
<1>7. 1 <= Len(f) /\ Len(f) = IF e.key \in items THEN Len(ll) ELSE Len(ll) + 1
  BY <1>1, <1>4, <1>6
<1>8. \A i \in DOMAIN f :
           (i = 1 /\ f[i] = e) \/ (i # 1 /\ \E n \in DOMAIN ll : f[i] = ll[n])
  <2>. SUFFICES ASSUME NEW i \in DOMAIN f, i # 1 PROVE \E n \in DOMAIN ll : f[i] = ll[n]
    BY <1>4, Zenon
  <2>1. i - 1 \in DOMAIN l /\ f[i] = l[i - 1]
    BY <1>4, Zenon
  <2>2. Among(l, ll)
    BY <1>1
  <2>3. \E n \in DOMAIN ll : l[i - 1] = ll[n]
    BY <2>1, <2>2, Zenon DEF Among
  <2>. QED  BY <2>1, <2>3
<1>9. InStep(f, items \cup {e.key})
  BY <1>2, <1>4
<1>. QED  BY <1>3, <1>4, <1>5, <1>7, <1>8, <1>9

\* Dropping the pairs of keys that are gone leaves the order of the others.
LEMMA LaterOfFewer ==
  ASSUME NEW b, NEW K, NEW H, NEW x \in H, NEW y \in H, <<x, y>> \in Later(b, K)
  PROVE  <<x, y>> \in Later(b, H)
BY DEF Later

\* put keeps map and list in step, and evicts what was used before all that stays.
LEMMA StoreKeeps ==
  ASSUME CacheInv, NEW e \in Entry, Store(e)
  PROVE  /\ CacheInv' /\ OnlyFrom(e)
         /\ items' \ items # {} =>
              \A k \in items \ items', q \in items \cap items' : <<q, k>> \in used
<1> DEFINE f == InFront(e)
           gone == Capacity + 1 .. Len(f)
           K == items \cup {e.key}
<1>1. /\ f \in Seq(Entry) /\ 1 <= Len(f)
      /\ Len(f) = IF e.key \in items THEN Len(ll) ELSE Len(ll) + 1
      /\ InStep(f, K) /\ Ordered(f, Later(e.key, K))
      /\ \A i \in DOMAIN f :
           (i = 1 /\ f[i] = e) \/ (i # 1 /\ \E n \in DOMAIN ll : f[i] = ll[n])
      /\ e.key \notin items =>
           \A i \in DOMAIN f : i = 1 \/ (i - 1 \in DOMAIN ll /\ f[i] = ll[i - 1])
  BY FrontInStep
<1>2. /\ ll' = IF gone = {} THEN f ELSE SubSeq(f, 1, Capacity)
      /\ items' = K \ {f[i].key : i \in gone} /\ used' = Later(e.key, items')
  BY DEF Store
<1>. HIDE DEF f
<1>3. Capacity \in Nat \ {0} /\ Len(f) \in Nat /\ Len(ll) \in Nat /\ DOMAIN f = 1 .. Len(f)
  BY <1>1, AccessAssumption DEF CacheInv
<1>4. /\ ll' \in Seq(Entry) /\ Len(ll') <= Capacity /\ InStep(ll', items')
      /\ \A i \in DOMAIN ll' : i \in DOMAIN f /\ ll'[i] = f[i]
  <2>1. CASE gone = {}
    <3>1. ll' = f /\ items' = K
      BY <2>1, <1>2
    <3>2. Len(f) <= Capacity
      BY <2>1, <1>3
    <3>. QED  BY <3>1, <3>2, <1>1
  <2>2. CASE gone # {}
    <3>1. ll' = SubSeq(f, 1, Capacity) /\ Capacity <= Len(f)
      BY <2>2, <1>2, <1>3
    <3> DEFINE r == SubSeq(f, 1, Capacity)
    <3>2. /\ r \in Seq(Entry) /\ Len(r) = Capacity
          /\ \A i \in 1 .. Capacity : r[i] = f[i]
          /\ InStep(r, K \ {f[i].key : i \in gone})
      BY <3>1, <1>1, <1>3, Prefix
    <3>3. DOMAIN r = 1 .. Capacity /\ 1 .. Capacity \subseteq DOMAIN f
      BY <3>1, <3>2, <1>3
    <3>. QED  BY <3>1, <3>2, <3>3, <1>2, <1>3
  <2>. QED  BY <2>1, <2>2
<1>5. Ordered(ll', used')
  <2>. SUFFICES ASSUME NEW i \in DOMAIN ll', NEW j \in DOMAIN ll', i < j
                PROVE  <<ll'[i].key, ll'[j].key>> \in Later(e.key, items')
    BY <1>2 DEF Ordered
  <2>1. <<f[i].key, f[j].key>> \in Later(e.key, K)
    BY <1>1, <1>4 DEF Ordered
  <2>2. ll'[i].key \in items' /\ ll'[j].key \in items'
    BY <1>4 DEF InStep
  <2>3. <<ll'[i].key, ll'[j].key>> \in Later(e.key, K)
    BY <2>1, <1>4
  <2>. QED  BY <2>2, <2>3, LaterOfFewer
<1>6. items' \subseteq Bearers
  BY <1>2 DEF CacheInv, Entry
<1>7. used' \subseteq Bearers \X Bearers
  BY <1>2, <1>6, LaterType DEF CacheInv, Entry
<1>8. OnlyFrom(e)
  BY <1>1, <1>4 DEF OnlyFrom
<1>9. ASSUME items' \ items # {}, NEW k \in items \ items', NEW q \in items \cap items'
      PROVE  <<q, k>> \in used
  <2>1. e.key \notin items
    BY <1>9, <1>2
  <2>2. PICK i \in gone : f[i].key = k
    BY <1>9, <1>2
  <2>3. PICK m \in DOMAIN f : f[m].key = q
    <3>1. q \in K
      BY <1>9
    <3>. HIDE DEF K
    <3>. QED  BY <3>1, <1>1 DEF InStep
  <2>4. m \notin gone
    BY <1>9, <1>2, <2>3
  <2>5. m # 1
    BY <1>9, <1>1, <2>1, <2>3
  <2>6. i \in DOMAIN f /\ m < i /\ m - 1 < i - 1 /\ i # 1
    BY <1>3, <2>4
  <2>7. /\ i - 1 \in DOMAIN ll /\ ll[i - 1].key = k
        /\ m - 1 \in DOMAIN ll /\ ll[m - 1].key = q
    BY <1>1, <2>1, <2>2, <2>3, <2>5, <2>6
  <2>. QED  BY <2>6, <2>7 DEF CacheInv, Ordered
<1>. QED  BY <1>4, <1>5, <1>6, <1>7, <1>8, <1>9 DEF CacheInv

----------------------------------------------------------------------------
(* The calls. *)

\* Until time t, what d grants is held, or was lost recently enough.
Usable(b, d, t) ==
  /\ t <= now + MaxAge /\ d.principal # NoOne
  /\ \A g \in d.grants : g \in verdict[b].grants \/ t <= lost[b][g] + Bound

\* What an authorizer said during the call: held, or lost since the call began.
Said(x) == x.decision.principal # NoOne
             /\ \A g \in x.decision.grants : g \in verdict[x.bearer].grants \/ x.began <= lost[x.bearer][g]

\* What a call may end with.
Granted(x) ==
  /\ mode # "jwks" => \A g \in x.decision.grants :
       g \in verdict[x.bearer].grants \/ x.asked < lost[x.bearer][g] + Bound
  /\ mode = "dual" => x.decision.principal = Owner[x.bearer] /\ x.decision.grants \subseteq Claims[x.bearer]

Safe(x) ==
  /\ x.asked <= now /\ (x.pc = "verify" => mode # "authorize")
  /\ x.pc \in {"request", "answered", "put"} => x.asked <= x.began /\ x.began <= now
  /\ x.pc \in {"request", "answered"} => now <= x.began + Timeout
  /\ x.pc \in {"answered", "put"} => Said(x)
  /\ x.pc = "put" => Usable(x.bearer, x.decision, x.until)
  /\ x.pc = "granted" => Granted(x)

CallsSafe == \A c \in Calls : Safe(calls[c])
ListSafe == \A i \in DOMAIN ll : Usable(ll[i].key, ll[i].decision, ll[i].until)

Typed ==
  /\ now \in 0 .. MaxTime /\ mode \in Modes
  /\ verdict \in [Bearers -> Decision] /\ \A b \in Bearers : verdict[b] \in Verdicts[b]
  /\ lost \in [Bearers -> [Grants -> -Bound .. MaxTime]]
  /\ calls \in [Calls -> Call]

AInv == Typed /\ CacheInv /\ ListSafe /\ CallsSafe

LEMMA BoundType == Bound \in Nat \ {0} /\ Bound = MaxAge + Timeout
BY AccessAssumption DEF Bound

\* A step of one call, with the clock and the control plane as they were.
LEMMA CallStep ==
  ASSUME Typed, CallsSafe, UNCHANGED <<now, mode, verdict, lost>>,
         NEW c \in Calls, NEW STATE X, X \in Call, Safe(X), Become(c, X)
  PROVE  Typed' /\ CallsSafe'
<1>1. calls' = [calls EXCEPT ![c] = X] /\ calls \in [Calls -> Call]
  BY DEF Become, Typed
<1>2. calls' \in [Calls -> Call]
  BY <1>1
<1>3. \A d \in Calls : calls'[d] = IF d = c THEN X ELSE calls[d]
  BY <1>1
<1>4. \A d \in Calls : Safe(calls'[d])
  BY <1>3 DEF CallsSafe
<1>5. CallsSafe'
  BY <1>4 DEF CallsSafe, Safe, Said, Usable, Granted
<1>. QED  BY <1>2, <1>5 DEF Typed

\* The cache keeps only decisions that may be used until they expire.
LEMMA ListStep ==
  ASSUME ListSafe, UNCHANGED <<now, verdict, lost>>, NEW STATE e,
         \A i \in DOMAIN ll' : \/ ll'[i] = e /\ Usable(e.key, e.decision, e.until)
                               \/ \E n \in DOMAIN ll : ll'[i] = ll[n]
  PROVE  ListSafe'
<1>1. \A i \in DOMAIN ll' : Usable(ll'[i].key, ll'[i].decision, ll'[i].until)
  BY DEF ListSafe
<1>. QED  BY <1>1 DEF ListSafe, Usable

LEMMA FreshType == ASSUME NEW b \in Bearers PROVE Fresh(b) \in Call /\ Denied \in Decision
<1>1. 0 \in 0 .. MaxTime /\ 0 \in 0 .. MaxAge /\ 0 \in 0 .. MaxTime + MaxAge
  BY AccessAssumption
<1>2. Denied \in Decision
  BY DEF Denied, Decision
<1>. HIDE DEF Denied, Decision
<1>3. Fresh(b) \in Call
  BY <1>1, <1>2 DEF Fresh, Call, Finished
<1>. QED  BY <1>2, <1>3

LEMMA FreshSafe ==
  ASSUME Typed, NEW b \in Bearers, NEW STATE pc, pc \in {"idle", "clock", "verify", "denied"},
         pc = "verify" => mode # "authorize"
  PROVE  [Fresh(b) EXCEPT !.pc = pc] \in Call /\ Safe([Fresh(b) EXCEPT !.pc = pc])
<1>1. [Fresh(b) EXCEPT !.pc = pc] \in Call
  BY FreshType DEF Call, Finished
<1>2. [Fresh(b) EXCEPT !.pc = pc].asked = 0 /\ [Fresh(b) EXCEPT !.pc = pc].pc = pc
  BY DEF Fresh
<1>3. 0 <= now
  BY AccessAssumption DEF Typed
<1>. QED  BY <1>1, <1>2, <1>3 DEF Safe

\* How a call ends once authorize returned d is a legal end if what d grants is
\* held or was lost less than Bound before the call looked.
LEMMA AnsweredSafe ==
  ASSUME Typed, NEW c \in Calls, calls[c].asked <= now, NEW STATE d, d \in Decision,
         \A g \in d.grants : LET b == calls[c].bearer IN
           g \in verdict[b].grants \/ calls[c].asked < lost[b][g] + Bound
  PROVE  Answered(c, d) \in Call /\ Safe(Answered(c, d))
<1> DEFINE b == calls[c].bearer
           both == [principal |-> d.principal, grants |-> d.grants \cap Claims[b]]
           given == IF mode = "dual" THEN both ELSE d
           x == [Fresh(b) EXCEPT !.pc = "granted", !.asked = calls[c].asked, !.decision = given]
<1>1. b \in Bearers /\ calls[c] \in Call /\ calls[c].asked \in 0 .. MaxTime
  BY DEF Typed, Call
<1>2. CASE d.principal = NoOne \/ (mode = "dual" /\ ~ (calls[c].verified /\ d.principal = Owner[b]))
  BY <1>1, <1>2, FreshSafe DEF Answered
<1>3. CASE ~ (d.principal = NoOne \/ (mode = "dual" /\ ~ (calls[c].verified /\ d.principal = Owner[b])))
  <2>1. Answered(c, d) = x
    BY <1>3 DEF Answered
  <2>2. given \in Decision /\ given.grants \subseteq d.grants
    BY DEF Decision
  <2>. HIDE DEF given
  <2>3. x \in Call
    BY <1>1, <2>2, FreshType DEF Call, Finished
  <2>4. /\ x.pc = "granted" /\ x.asked = calls[c].asked /\ x.decision = given /\ x.bearer = b
    BY DEF Fresh
  <2>5. mode = "dual" => given.principal = Owner[b] /\ given.grants \subseteq Claims[b]
    BY <1>3 DEF given
  <2>. HIDE DEF x, b
  <2>6. Granted(x)
    BY <2>2, <2>4, <2>5 DEF Granted, b
  <2>. QED  BY <2>1, <2>3, <2>4, <2>6 DEF Safe
<1>. QED  BY <1>2, <1>3

----------------------------------------------------------------------------
(* The steps. *)

LEMMA OneCall ==
  ASSUME AInv, UNCHANGED <<now, mode, cache, plane>>,
         NEW c \in Calls, NEW STATE X, X \in Call, Safe(X), Become(c, X)
  PROVE  AInv'
<1>1. UNCHANGED <<now, mode, verdict, lost, items, ll, used>>
  BY DEF cache, plane
<1>2. Typed' /\ CallsSafe'
  BY <1>1, CallStep DEF AInv
<1>3. CacheInv'
  BY <1>1 DEF AInv, CacheInv, InStep, Ordered
<1>4. ListSafe'
  BY <1>1 DEF AInv, ListSafe, Usable
<1>. QED  BY <1>2, <1>3, <1>4 DEF AInv

LEMMA StartKeeps ==
  ASSUME AInv, NEW c \in Calls, NEW b \in Bearers, Start(c, b)
  PROVE  AInv'
<1> DEFINE pc == IF mode = "authorize" THEN "clock" ELSE "verify"
           X == [Fresh(b) EXCEPT !.pc = pc]
<1>1. CASE mode = "authorize"
  <2>1. pc = "clock"
    BY <1>1
  <2>2. X \in Call /\ Safe(X)
    BY <2>1, FreshSafe DEF AInv
  <2>. QED  BY <2>2, OneCall DEF Start
<1>2. CASE mode # "authorize"
  <2>1. pc = "verify"
    BY <1>2
  <2>2. X \in Call /\ Safe(X)
    BY <2>1, FreshSafe DEF AInv
  <2>. QED  BY <2>2, OneCall DEF Start
<1>. QED  BY <1>1, <1>2

LEMMA VerifyKeeps ==
  ASSUME AInv, NEW c \in Calls, Verify(c)
  PROVE  AInv'
<1> DEFINE b == calls[c].bearer
<1>0. /\ calls[c] \in Call /\ b \in Bearers /\ calls[c].pc = "verify" /\ Safe(calls[c])
      /\ UNCHANGED <<now, mode, cache, plane>>
  BY DEF AInv, Typed, CallsSafe, Call, Verify, At
<1>1. ASSUME NEW ok \in BOOLEAN, mode = "dual",
             Become(c, [calls[c] EXCEPT !.pc = "clock", !.verified = ok])
      PROVE  AInv'
  <2> DEFINE X == [calls[c] EXCEPT !.pc = "clock", !.verified = ok]
  <2>1. X \in Call /\ X.pc = "clock" /\ X.asked = calls[c].asked
    BY <1>0 DEF Call
  <2>2. Safe(X)
    BY <1>0, <2>1 DEF Safe
  <2>. QED  BY <1>0, <1>1, <2>1, <2>2, OneCall
<1>2. ASSUME Become(c, [Fresh(b) EXCEPT !.pc = "denied"])
      PROVE  AInv'
  <2>1. [Fresh(b) EXCEPT !.pc = "denied"] \in Call /\ Safe([Fresh(b) EXCEPT !.pc = "denied"])
    BY <1>0, FreshSafe DEF AInv
  <2>. QED  BY <1>0, <1>2, <2>1, OneCall
<1>3. ASSUME mode # "dual",
             Become(c, [Fresh(b) EXCEPT !.pc = "granted",
                          !.decision = [principal |-> Owner[b], grants |-> Claims[b]]])
      PROVE  AInv'
  <2> DEFINE d == [principal |-> Owner[b], grants |-> Claims[b]]
             X == [Fresh(b) EXCEPT !.pc = "granted", !.decision = d]
  <2>1. d \in Decision
    BY <1>0, AccessAssumption DEF Decision
  <2>. HIDE DEF d
  <2>2. X \in Call /\ X.pc = "granted" /\ X.asked = 0
    BY <1>0, <2>1, FreshType DEF Call, Fresh, Finished
  <2>3. mode = "jwks"
    <3>1. mode # "authorize"
      BY <1>0 DEF Safe
    <3>. QED  BY <1>3, <3>1, AccessAssumption DEF AInv, Typed
  <2>4. 0 <= now
    BY AccessAssumption DEF AInv, Typed
  <2>5. Safe(X)
    BY <1>3, <2>2, <2>3, <2>4 DEF Safe, Granted
  <2>. QED  BY <1>0, <1>3, <2>2, <2>5, OneCall DEF d
<1>. QED  BY <1>1, <1>2, <1>3 DEF Verify

LEMMA ReadClockKeeps ==
  ASSUME AInv, NEW c \in Calls, ReadClock(c)
  PROVE  AInv'
<1> DEFINE X == [calls[c] EXCEPT !.pc = "get", !.asked = now]
<1>1. calls[c] \in Call /\ now \in 0 .. MaxTime
  BY DEF AInv, Typed
<1>2. X \in Call /\ X.pc = "get" /\ X.asked = now
  BY <1>1 DEF Call
<1>3. Safe(X)
  BY <1>1, <1>2, AccessAssumption DEF Safe
<1>. QED  BY <1>2, <1>3, OneCall DEF ReadClock

\* A miss or an expired entry: the request begins.
LEMMA AskSafe ==
  ASSUME AInv, NEW c \in Calls
  PROVE  LET X == [calls[c] EXCEPT !.pc = "request", !.began = now] IN X \in Call /\ Safe(X)
<1> DEFINE X == [calls[c] EXCEPT !.pc = "request", !.began = now]
<1>1. calls[c] \in Call /\ now \in 0 .. MaxTime /\ Safe(calls[c])
  BY DEF AInv, Typed, CallsSafe
<1>2. X \in Call /\ X.pc = "request" /\ X.began = now /\ X.asked = calls[c].asked
  BY <1>1 DEF Call
<1>3. X.asked <= now /\ now <= now /\ now <= now + Timeout
  BY <1>1, <1>2, AccessAssumption DEF Safe, Call
<1>4. Safe(X)
  BY <1>2, <1>3 DEF Safe
<1>. QED  BY <1>2, <1>4

LEMMA GetKeeps ==
  ASSUME AInv, NEW c \in Calls, Get(c)
  PROVE  AInv' /\ items' \subseteq items
<1> DEFINE k == calls[c].bearer
           X == [calls[c] EXCEPT !.pc = "request", !.began = now]
           e == ll[Position(k)]
<1>0. /\ UNCHANGED <<now, mode, verdict, lost>> /\ X \in Call /\ Safe(X)
      /\ Typed /\ CacheInv /\ ListSafe /\ CallsSafe /\ calls[c] \in Call
  BY AskSafe DEF Get, plane, AInv, Typed
<1>1. CASE k \notin items
  <2>1. Become(c, X) /\ UNCHANGED cache
    BY <1>1 DEF Get
  <2>. QED  BY <1>0, <2>1, OneCall DEF Get, cache
<1>2. CASE k \in items /\ ~ (calls[c].asked < e.until)
  <2>1. Become(c, X) /\ Expire(k)
    BY <1>2 DEF Get
  <2>2. CacheInv' /\ Among(ll', ll)
    BY <1>0, <1>2, <2>1, ExpireKeeps
  <2>3. ListSafe'
    BY <1>0, <2>2, ListStep DEF Among
  <2>4. Typed' /\ CallsSafe'
    BY <1>0, <2>1, CallStep
  <2>. QED  BY <2>1, <2>2, <2>3, <2>4 DEF AInv, Expire
<1>3. CASE k \in items /\ calls[c].asked < e.until
  <2>1. Become(c, Answered(c, e.decision)) /\ Hit(k)
    BY <1>3 DEF Get
  <2>2. CacheInv' /\ Among(ll', ll)
    BY <1>0, <1>3, <2>1, HitKeeps
  <2>3. ListSafe'
    BY <1>0, <2>2, ListStep DEF Among
  <2>4. e \in Entry /\ e.key = k /\ Position(k) \in DOMAIN ll
    BY <1>0, <1>3, Place DEF CacheInv
  <2>5. Usable(k, e.decision, e.until)
    BY <1>0, <2>4 DEF ListSafe
  <2>. HIDE DEF e
  <2>6. e.decision \in Decision /\ e.until \in Int /\ calls[c].asked \in Int /\ calls[c].asked <= now
    BY <1>0, <2>4 DEF Entry, Call, CallsSafe, Safe
  <2>7. \A g \in e.decision.grants : g \in verdict[k].grants \/ calls[c].asked < lost[k][g] + Bound
    <3>. SUFFICES ASSUME NEW g \in e.decision.grants, g \notin verdict[k].grants
                  PROVE  calls[c].asked < lost[k][g] + Bound
      OBVIOUS
    <3>1. e.until <= lost[k][g] + Bound
      BY <2>5 DEF Usable
    <3>2. g \in Grants /\ k \in Bearers
      BY <1>0, <2>6 DEF Decision, Call
    <3>3. lost[k][g] \in Int
      BY <1>0, <3>2, BoundType, AccessAssumption DEF Typed
    <3>. QED  BY <1>3, <2>6, <3>1, <3>3, BoundType DEF e
  <2>8. Answered(c, e.decision) \in Call /\ Safe(Answered(c, e.decision))
    BY <1>0, <2>6, <2>7, AnsweredSafe
  <2>9. Typed' /\ CallsSafe'
    BY <1>0, <2>1, <2>8, CallStep DEF e
  <2>. QED  BY <2>1, <2>2, <2>3, <2>9 DEF AInv, Hit
<1>. QED  BY <1>1, <1>2, <1>3

\* What an authorizer said during the call may be granted.
LEMMA SaidSafe ==
  ASSUME AInv, NEW c \in Calls, calls[c].pc \in {"answered", "put"}
  PROVE  LET d == calls[c].decision IN
         d \in Decision /\ Answered(c, d) \in Call /\ Safe(Answered(c, d))
<1> DEFINE d == calls[c].decision
           b == calls[c].bearer
<1>1. /\ Typed /\ calls[c] \in Call /\ Safe(calls[c]) /\ b \in Bearers /\ d \in Decision
      /\ calls[c].asked \in Int /\ calls[c].began \in Int
  BY DEF AInv, Typed, CallsSafe, Call
<1>2. calls[c].asked <= now /\ calls[c].asked <= calls[c].began /\ Said(calls[c])
  BY <1>1 DEF Safe
<1>3. \A g \in d.grants : g \in verdict[b].grants \/ calls[c].asked < lost[b][g] + Bound
  <2>. SUFFICES ASSUME NEW g \in d.grants, g \notin verdict[b].grants
                PROVE  calls[c].asked < lost[b][g] + Bound
    OBVIOUS
  <2>1. calls[c].began <= lost[b][g]
    BY <1>2 DEF Said
  <2>2. g \in Grants
    BY <1>1 DEF Decision
  <2>3. lost[b][g] \in Int
    BY <1>1, <2>2, BoundType, AccessAssumption DEF Typed
  <2>. QED  BY <1>1, <1>2, <2>1, <2>3, BoundType
<1>. QED  BY <1>1, <1>2, <1>3, AnsweredSafe

\* A call that was refused, or got no answer.
LEMMA RefusedSafe ==
  ASSUME AInv, NEW c \in Calls
  PROVE  Answered(c, Denied) \in Call /\ Safe(Answered(c, Denied))
<1>1. Typed /\ calls[c].asked <= now /\ Denied \in Decision
  BY FreshType DEF AInv, CallsSafe, Safe, Typed, Call
<1>2. Denied.grants = {}
  BY DEF Denied
<1>. QED  BY <1>1, <1>2, AnsweredSafe

LEMMA AnswerKeeps ==
  ASSUME AInv, NEW c \in Calls, NEW a \in Ages, Answer(c, a)
  PROVE  AInv'
<1> DEFINE b == calls[c].bearer
           d == verdict[b]
           X == [calls[c] EXCEPT !.pc = "answered", !.decision = d, !.maxAge = a]
<1>1. /\ calls[c] \in Call /\ Safe(calls[c]) /\ calls[c].pc = "request"
      /\ b \in Bearers /\ d \in Decision /\ d \in Verdicts[b] /\ a \in 0 .. MaxAge
  BY AccessAssumption DEF AInv, Typed, CallsSafe, Call, Answer, At
<1>2. CASE d = Denied
  BY <1>2, RefusedSafe, OneCall DEF Answer
<1>3. CASE d # Denied
  <2>1. d.principal # NoOne
    BY <1>1, <1>3, AccessAssumption
  <2>2. /\ X \in Call /\ X.pc = "answered" /\ X.bearer = b /\ X.decision = d
        /\ X.asked = calls[c].asked /\ X.began = calls[c].began
    BY <1>1 DEF Call
  <2>. HIDE DEF X
  <2>3. Said(X)
    BY <2>1, <2>2 DEF Said
  <2>4. Safe(X)
    BY <1>1, <2>2, <2>3 DEF Safe
  <2>5. Become(c, X)
    BY <1>3 DEF Answer, X
  <2>. QED  BY <2>2, <2>4, <2>5, OneCall DEF Answer
<1>. QED  BY <1>2, <1>3

LEMMA CallFailsKeeps ==
  ASSUME AInv, NEW c \in Calls, CallFails(c)
  PROVE  AInv'
BY RefusedSafe, OneCall DEF CallFails

\* The answer came within Timeout, so what it said is used no later than Bound after
\* it was last known to hold.
LEMMA ComputeUntilKeeps ==
  ASSUME AInv, NEW c \in Calls, ComputeUntil(c)
  PROVE  AInv'
<1> DEFINE x == calls[c]
           b == x.bearer
           until == Until(now, x.maxAge, Expires[b])
           X == [x EXCEPT !.pc = "put", !.until = until]
<1>1. /\ x \in Call /\ Safe(x) /\ x.pc = "answered" /\ b \in Bearers
      /\ now \in 0 .. MaxTime /\ x.maxAge \in 0 .. MaxAge /\ Expires[b] \in Nat
      /\ x.began \in Int /\ x.asked \in Int /\ x.decision \in Decision /\ Typed
  BY AccessAssumption DEF AInv, Typed, CallsSafe, Call, ComputeUntil, At
<1>2. until \in 0 .. MaxTime + MaxAge /\ until <= now + MaxAge
  BY <1>1, AccessAssumption DEF Until
<1>3. CASE until > now
  <2>. HIDE DEF until
  <2>1. /\ X \in Call /\ X.pc = "put" /\ X.bearer = b /\ X.decision = x.decision
        /\ X.asked = x.asked /\ X.began = x.began /\ X.until = until
    BY <1>1, <1>2 DEF Call
  <2>2. Said(x) /\ x.asked <= now /\ x.asked <= x.began /\ x.began <= now /\ now <= x.began + Timeout
    BY <1>1 DEF Safe
  <2>3. Usable(b, x.decision, until)
    <3>1. ASSUME NEW g \in x.decision.grants, g \notin verdict[b].grants
          PROVE  until <= lost[b][g] + Bound
      <4>1. x.began <= lost[b][g]
        BY <2>2, <3>1 DEF Said
      <4>2. g \in Grants
        BY <1>1 DEF Decision
      <4>3. lost[b][g] \in Int
        BY <1>1, <4>2, BoundType, AccessAssumption DEF Typed
      <4>. QED  BY <1>1, <1>2, <2>2, <4>1, <4>3, BoundType, AccessAssumption
    <3>. QED  BY <1>2, <2>2, <3>1 DEF Usable, Said
  <2>4. Said(X)
    BY <2>1, <2>2 DEF Said
  <2>. HIDE DEF X
  <2>5. Safe(X)
    BY <2>1, <2>2, <2>3, <2>4 DEF Safe
  <2>6. Become(c, X)
    BY <1>3 DEF ComputeUntil, X, until
  <2>. QED  BY <2>1, <2>5, <2>6, OneCall DEF ComputeUntil
<1>4. CASE ~ (until > now)
  BY <1>1, <1>4, SaidSafe, OneCall DEF ComputeUntil
<1>. QED  BY <1>3, <1>4

LEMMA PutKeeps ==
  ASSUME AInv, NEW c \in Calls, Put(c)
  PROVE  AInv' /\ (items' \ items # {} =>
                     \A k \in items \ items', q \in items \cap items' : <<q, k>> \in used)
<1> DEFINE x == calls[c]
           e == [key |-> x.bearer, decision |-> x.decision, until |-> x.until]
           X == Answered(c, x.decision)
<1>1. /\ x \in Call /\ Safe(x) /\ x.pc = "put" /\ UNCHANGED <<now, mode, verdict, lost>>
      /\ Typed /\ CacheInv /\ ListSafe /\ CallsSafe /\ Store(e) /\ Become(c, X)
  BY DEF AInv, Typed, CallsSafe, Put, At, plane
<1>2. e \in Entry
  BY <1>1 DEF Call, Entry
<1>3. Usable(e.key, e.decision, e.until)
  BY <1>1 DEF Safe
<1>4. X \in Call /\ Safe(X)
  BY <1>1, SaidSafe
<1>. HIDE DEF e, X
<1>5. /\ CacheInv' /\ OnlyFrom(e)
      /\ items' \ items # {} =>
           \A k \in items \ items', q \in items \cap items' : <<q, k>> \in used
  BY <1>1, <1>2, StoreKeeps
<1>6. ListSafe'
  BY <1>1, <1>3, <1>5, ListStep DEF OnlyFrom
<1>7. Typed' /\ CallsSafe'
  BY <1>1, <1>4, CallStep
<1>. QED  BY <1>5, <1>6, <1>7 DEF AInv

\* What the control plane withdraws now is counted from now.
LEMMA DecideKeeps ==
  ASSUME AInv, NEW b \in Bearers, NEW d \in Verdicts[b], Decide(b, d)
  PROVE  AInv'
<1>1. /\ now' = now /\ mode' = mode /\ calls' = calls /\ UNCHANGED <<items, ll, used>>
      /\ now \in 0 .. MaxTime /\ d \in Decision
      /\ verdict \in [Bearers -> Decision] /\ lost \in [Bearers -> [Grants -> -Bound .. MaxTime]]
  BY AccessAssumption DEF Decide, cache, AInv, Typed
<1>2. /\ verdict' = [verdict EXCEPT ![b] = d]
      /\ lost' = [lost EXCEPT ![b] =
                    [g \in Grants |-> IF g \in verdict[b].grants \ d.grants THEN now ELSE lost[b][g]]]
  BY DEF Decide
<1>3. \A g \in Grants, a \in Bearers :
        /\ lost'[a][g] \in -Bound .. MaxTime /\ lost[a][g] \in -Bound .. MaxTime
        /\ (g \in verdict[a].grants => g \in verdict'[a].grants \/ lost'[a][g] = now)
        /\ (g \notin verdict[a].grants => lost'[a][g] = lost[a][g])
  <2>. SUFFICES ASSUME NEW g \in Grants, NEW a \in Bearers
                PROVE  /\ lost'[a][g] \in -Bound .. MaxTime /\ lost[a][g] \in -Bound .. MaxTime
                       /\ (g \in verdict[a].grants => g \in verdict'[a].grants \/ lost'[a][g] = now)
                       /\ (g \notin verdict[a].grants => lost'[a][g] = lost[a][g])
    OBVIOUS
  <2>1. now \in -Bound .. MaxTime
    BY <1>1, BoundType
  <2>2. lost[a][g] \in -Bound .. MaxTime
    BY <1>1
  <2>3. CASE a = b
    <3>1. lost'[a][g] = IF g \in verdict[b].grants \ d.grants THEN now ELSE lost[b][g]
      BY <1>1, <1>2, <2>3
    <3>2. verdict'[a] = d
      BY <1>1, <1>2, <2>3
    <3>. QED  BY <2>1, <2>2, <2>3, <3>1, <3>2
  <2>4. CASE a # b
    <3>1. lost'[a] = lost[a] /\ verdict'[a] = verdict[a]
      BY <1>1, <1>2, <2>4
    <3>. QED  BY <2>2, <3>1
  <2>. QED  BY <2>3, <2>4
<1>4. Typed'
  <2>1. verdict' \in [Bearers -> Decision] /\ \A a \in Bearers : verdict'[a] \in Verdicts[a]
    BY <1>1, <1>2 DEF AInv, Typed
  <2>2. lost' \in [Bearers -> [Grants -> -Bound .. MaxTime]]
    <3>. DEFINE new == [g \in Grants |-> IF g \in verdict[b].grants \ d.grants THEN now ELSE lost[b][g]]
    <3>1. \A g \in Grants : new[g] \in -Bound .. MaxTime
      BY <1>1, BoundType
    <3>2. new \in [Grants -> -Bound .. MaxTime]
      BY <3>1
    <3>. HIDE DEF new
    <3>3. lost' = [lost EXCEPT ![b] = new]
      BY <1>2 DEF new
    <3>. QED  BY <1>1, <3>2, <3>3
  <2>. QED  BY <1>1, <2>1, <2>2 DEF AInv, Typed
<1>5. CacheInv'
  BY <1>1 DEF AInv, CacheInv, InStep, Ordered
<1>6. \A a \in Bearers, w \in Decision, t \in Int : \A g \in w.grants :
        (g \in verdict[a].grants \/ t <= lost[a][g] + Bound) /\ t <= now + MaxAge =>
          g \in verdict'[a].grants \/ t <= lost'[a][g] + Bound
  <2>. SUFFICES ASSUME NEW a \in Bearers, NEW w \in Decision, NEW t \in Int, NEW g \in w.grants,
                       g \in verdict[a].grants \/ t <= lost[a][g] + Bound, t <= now + MaxAge
                PROVE  g \in verdict'[a].grants \/ t <= lost'[a][g] + Bound
    OBVIOUS
  <2>1. g \in Grants
    BY DEF Decision
  <2>. QED  BY <1>1, <1>3, <2>1, BoundType, AccessAssumption
<1>7. ListSafe'
  <2>. SUFFICES ASSUME NEW i \in DOMAIN ll
                PROVE  Usable(ll[i].key, ll[i].decision, ll[i].until)'
    BY <1>1 DEF ListSafe
  <2>1. /\ ll[i].key \in Bearers /\ ll[i].decision \in Decision /\ ll[i].until \in Int
        /\ Usable(ll[i].key, ll[i].decision, ll[i].until)
    <3>1. ll[i] \in Entry
      BY DEF AInv, CacheInv
    <3>. QED  BY <3>1, AccessAssumption DEF AInv, ListSafe, Entry
  <2>. QED  BY <1>1, <1>6, <2>1 DEF Usable
<1>8. CallsSafe'
  <2>. SUFFICES ASSUME NEW c \in Calls
                PROVE  Safe(calls[c])'
    BY <1>1 DEF CallsSafe
  <2> DEFINE x == calls[c]
  <2>1. /\ x \in Call /\ x.bearer \in Bearers /\ x.decision \in Decision /\ x.until \in Int
        /\ x.asked \in Int /\ x.began \in Int /\ Safe(x)
    BY DEF AInv, Typed, CallsSafe, Call
  <2>2. \A g \in x.decision.grants : g \in Grants
    BY <2>1 DEF Decision
  <2>. HIDE DEF x
  <2>3. x.pc = "put" => Usable(x.bearer, x.decision, x.until)'
    BY <1>1, <1>6, <2>1 DEF Usable, Safe, x
  <2>4. x.pc \in {"answered", "put"} => Said(x)'
    BY <1>1, <1>3, <2>1, <2>2 DEF Said, Safe, x
  <2>5. x.pc = "granted" => Granted(x)'
    <3>. SUFFICES ASSUME x.pc = "granted"
                  PROVE  Granted(x)'
      OBVIOUS
    <3>1. x' = x /\ Granted(x) /\ x.asked <= now
      BY <1>1, <2>1 DEF Safe, x
    <3>2. mode # "jwks" => \A g \in x.decision.grants :
            g \in verdict'[x.bearer].grants \/ x.asked < lost'[x.bearer][g] + Bound
      <4>. SUFFICES ASSUME mode # "jwks", NEW g \in x.decision.grants, g \notin verdict'[x.bearer].grants
                    PROVE  x.asked < lost'[x.bearer][g] + Bound
        OBVIOUS
      <4>1. g \in Grants /\ x.bearer \in Bearers /\ x.asked \in Int
        BY <2>1, <2>2
      <4>2. CASE lost'[x.bearer][g] = now
        BY <1>1, <3>1, <4>1, <4>2, BoundType, AccessAssumption
      <4>3. CASE lost'[x.bearer][g] # now
        <5>1. g \notin verdict[x.bearer].grants /\ lost'[x.bearer][g] = lost[x.bearer][g]
          BY <1>3, <4>1, <4>3
        <5>. QED  BY <3>1, <5>1 DEF Granted
      <4>. QED  BY <4>2, <4>3
    <3>. QED  BY <1>1, <3>1, <3>2 DEF Granted
  <2>. QED  BY <1>1, <2>1, <2>3, <2>4, <2>5 DEF Safe, x
<1>. QED  BY <1>4, <1>5, <1>7, <1>8 DEF AInv

\* A request in flight ends within Timeout.
LEMMA TickKeeps ==
  ASSUME AInv, Tick
  PROVE  AInv'
<1>1. /\ now' = now + 1 /\ now \in 0 .. MaxTime /\ now < MaxTime
      /\ UNCHANGED <<mode, verdict, lost, items, ll, used, calls>>
      /\ \A c \in Calls : calls[c].pc \in {"request", "answered"} => now < calls[c].began + Timeout
  BY DEF Tick, AInv, Typed, cache, plane
<1>2. Typed'
  BY <1>1, AccessAssumption DEF AInv, Typed
<1>3. CacheInv'
  BY <1>1 DEF AInv, CacheInv, InStep, Ordered
<1>4. ListSafe'
  <2>. SUFFICES ASSUME NEW i \in DOMAIN ll
                PROVE  Usable(ll[i].key, ll[i].decision, ll[i].until)'
    BY <1>1 DEF ListSafe
  <2>1. ll[i].until \in Int /\ Usable(ll[i].key, ll[i].decision, ll[i].until)
    <3>1. ll[i] \in Entry
      BY DEF AInv, CacheInv
    <3>. QED  BY <3>1, AccessAssumption DEF AInv, ListSafe, Entry
  <2>. QED  BY <1>1, <2>1, AccessAssumption DEF Usable
<1>5. CallsSafe'
  <2>. SUFFICES ASSUME NEW c \in Calls
                PROVE  Safe(calls[c])'
    BY <1>1 DEF CallsSafe
  <2>1. /\ calls[c] \in Call /\ calls[c].asked \in Int /\ calls[c].began \in Int
        /\ calls[c].until \in Int /\ Safe(calls[c])
    BY AccessAssumption DEF AInv, Typed, CallsSafe, Call
  <2>. QED  BY <1>1, <2>1, AccessAssumption DEF Safe, Usable, Said, Granted
<1>. QED  BY <1>2, <1>3, <1>4, <1>5 DEF AInv

LEMMA InitHolds == Init => AInv
<1>. SUFFICES ASSUME Init
              PROVE  AInv
  OBVIOUS
<1>1. Typed
  <2>1. now \in 0 .. MaxTime /\ mode \in Modes
    BY AccessAssumption DEF Init
  <2>2. verdict \in [Bearers -> Decision] /\ \A b \in Bearers : verdict[b] \in Verdicts[b]
    BY DEF Init
  <2>3. lost \in [Bearers -> [Grants -> -Bound .. MaxTime]]
    <3>1. 0 \in -Bound .. MaxTime /\ -Bound \in -Bound .. MaxTime
      BY BoundType, AccessAssumption
    <3>. QED  BY <3>1 DEF Init
  <2>4. calls \in [Calls -> Call]
    BY FreshType DEF Init
  <2>. QED  BY <2>1, <2>2, <2>3, <2>4 DEF Typed
<1>2. CacheInv
  BY AccessAssumption DEF Init, CacheInv, InStep, Ordered
<1>3. ListSafe
  BY DEF Init, ListSafe
<1>4. CallsSafe
  BY DEF Init, CallsSafe, Safe, Fresh
<1>. QED  BY <1>1, <1>2, <1>3, <1>4 DEF AInv

\* The invariant of Access: every step of every call, of the control plane and of the
\* clock keeps the cache in step and ordered by use, and each decision, cached or in a
\* call, no older than the time it may still be used for.
THEOREM AInductive == Spec => []AInv
<1>1. AInv /\ [Next]_vars => AInv'
  <2>. SUFFICES ASSUME AInv, [Next]_vars
                PROVE  AInv'
    OBVIOUS
  <2>1. ASSUME NEW c \in Calls, NEW b \in Bearers, Start(c, b) PROVE AInv'
    BY <2>1, StartKeeps
  <2>2. ASSUME NEW c \in Calls, Verify(c) PROVE AInv'
    BY <2>2, VerifyKeeps
  <2>3. ASSUME NEW c \in Calls, ReadClock(c) PROVE AInv'
    BY <2>3, ReadClockKeeps
  <2>4. ASSUME NEW c \in Calls, Get(c) PROVE AInv'
    BY <2>4, GetKeeps
  <2>5. ASSUME NEW c \in Calls, NEW a \in Ages, Answer(c, a) PROVE AInv'
    BY <2>5, AnswerKeeps
  <2>6. ASSUME NEW c \in Calls, CallFails(c) PROVE AInv'
    BY <2>6, CallFailsKeeps
  <2>7. ASSUME NEW c \in Calls, ComputeUntil(c) PROVE AInv'
    BY <2>7, ComputeUntilKeeps
  <2>8. ASSUME NEW c \in Calls, Put(c) PROVE AInv'
    BY <2>8, PutKeeps
  <2>9. ASSUME NEW b \in Bearers, NEW d \in Verdicts[b], Decide(b, d) PROVE AInv'
    BY <2>9, DecideKeeps
  <2>10. CASE Tick
    BY <2>10, TickKeeps
  <2>11. CASE UNCHANGED vars
    <3>1. UNCHANGED <<now, mode, verdict, items, ll, calls, lost, used>>
      BY <2>11 DEF vars
    <3>. QED  BY <3>1 DEF AInv, Typed, CacheInv, InStep, Ordered, ListSafe, CallsSafe,
                          Safe, Usable, Said, Granted
  <2>. QED  BY <2>1, <2>2, <2>3, <2>4, <2>5, <2>6, <2>7, <2>8, <2>9, <2>10, <2>11 DEF Next
<1>. QED  BY <1>1, InitHolds, PTL DEF Spec

----------------------------------------------------------------------------
(* What follows. *)

\* The types of Access, and that the cache is bounded, at every capacity.
THEOREM AccessTyped == Spec => []AccessTypeOK
<1>1. AInv => AccessTypeOK
  BY DEF AInv, Typed, CacheInv, AccessTypeOK
<1>. QED  BY <1>1, AInductive, PTL

\* Map and list of the decision cache hold the same keys, once each, and no rejection.
THEOREM CacheStaysInStep == Spec => []CacheInStep
<1>1. AInv => CacheInStep
  BY DEF AInv, CacheInv, InStep, ListSafe, Usable, CacheInStep
<1>. QED  BY <1>1, AInductive, PTL

\* A withdrawn grant is used no longer than max-age and one request.
THEOREM WithdrawalsReachEveryCall == Spec => []WithdrawnGrantsExpire
<1>1. AInv => WithdrawnGrantsExpire
  BY DEF AInv, CallsSafe, Safe, Granted, WithdrawnGrantsExpire, At
<1>. QED  BY <1>1, AInductive, PTL

\* Dual mode grants the intersection.
THEOREM DualIsIntersection == Spec => []DualGrantsBoth
<1>1. AInv => DualGrantsBoth
  BY DEF AInv, CallsSafe, Safe, Granted, DualGrantsBoth, At
<1>. QED  BY <1>1, AInductive, PTL

\* Only put evicts to make room, and it evicts what was used before all that stays.
THEOREM EvictionByUse == Spec => EvictsLeastRecent
<1> DEFINE Evicts == items' \ items # {} =>
                       \A k \in items \ items', q \in items \cap items' : <<q, k>> \in used
<1>1. AInv /\ [Next]_vars => [Evicts]_vars
  <2>. SUFFICES ASSUME AInv, [Next]_vars
                PROVE  Evicts
    OBVIOUS
  <2>1. ASSUME NEW c \in Calls, Get(c) PROVE Evicts
    BY <2>1, GetKeeps
  <2>2. ASSUME NEW c \in Calls, Put(c) PROVE Evicts
    BY <2>2, PutKeeps
  <2>3. ASSUME items' = items PROVE Evicts
    BY <2>3
  <2>. QED  BY <2>1, <2>2, <2>3
            DEF Next, Start, Verify, ReadClock, Answer, CallFails, ComputeUntil, Decide, Tick, cache, vars
<1>. QED  BY <1>1, AInductive, PTL DEF Spec, EvictsLeastRecent

=============================================================================
