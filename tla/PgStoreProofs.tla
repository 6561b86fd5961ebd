--------------------------- MODULE PgStoreProofs ---------------------------
(* Proofs about PgStore, for every value of its constants. *)
EXTENDS PgStore, WellFoundedInduction, TLAPS

----------------------------------------------------------------------------
(* The invariant, in named parts. *)

Fields == {"pc", "op", "tx", "id", "seen", "todo", "drops", "del", "add", "locks", "facts", "read"}
IsCall(k) == k = [a \in Fields |-> k[a]]

Kinds == {"none", "assert", "edge", "merge", "retract", "unlink", "rebuild"}

\* Where a call of each kind can be.
Placed(k) ==
  /\ k.op.kind \in Kinds
  /\ k.pc = "prior" => k.op.kind \in {"assert", "edge"} /\ k.facts = {}
  /\ k.pc = "hits" => k.op.kind = "assert"
  /\ k.pc \in {"move", "repoint", "drop", "mergefact"} => k.op.kind \in {"assert", "merge"}
  /\ k.pc = "check" => k.op.kind = "merge"
  /\ k.pc \in {"clear", "read", "fold"} => k.op.kind = "rebuild"

CallsPlaced == /\ calls = [c \in Calls |-> calls[c]]
               /\ \A c \in Calls : IsCall(calls[c]) /\ Placed(calls[c])

\* An assertion that holds its advisory lock.
HoldsLock(k) == k.op.kind = "assert" /\ k.pc \notin Ended \cup {"prior"}
SameKey(k, h) == k.op.writer = h.op.writer /\ k.op.dedupe = h.op.dedupe

\* The fact of the assertion k.
AssertedBy(f, k) ==
  f.kind = "assert" /\ f.writer = k.op.writer /\ f.key = <<"caller", k.op.dedupe>>

\* The lock is held by one.
LockExclusive ==
  \A c, o \in Calls : c # o /\ HoldsLock(calls[c]) /\ HoldsLock(calls[o]) => ~ SameKey(calls[c], calls[o])

\* While it is held, the log has no assertion of its writer and key.
NoneBefore ==
  \A c \in Calls : HoldsLock(calls[c]) => \A f \in log : ~ AssertedBy(f, calls[c])

\* The facts of a transaction carry keys of its own.
OwnFact(f, k) ==
  /\ f.kind = "assert" => HoldsLock(k) /\ AssertedBy(f, k)
  /\ f.key[1] = "caller" => f.kind \in {"assert", "edge"}
  /\ f.key[1] = "mergeof" => HoldsLock(k) /\ f.writer = k.op.writer /\ f.key[2] = k.op.dedupe
OwnFacts == \A c \in Calls : \A f \in calls[c].facts : OwnFact(f, calls[c])

\* An assertion has written its fact before it answers.
Recorded ==
  \A c \in Calls : HoldsLock(calls[c]) /\ calls[c].pc \in {"answer", "commit"}
    => \E f \in calls[c].facts : AssertedBy(f, calls[c])

\* A key of the log is a caller's, of an assertion or an edge, or that of a merge which an
\* assertion in the log made.
LoggedKey(f) ==
  /\ f.key[1] = "caller" => f.kind \in {"assert", "edge"}
  /\ f.key[1] = "mergeof" =>
       \E g \in log : g.kind = "assert" /\ g.writer = f.writer /\ g.key = <<"caller", f.key[2]>>
LoggedKeys == \A f \in log : LoggedKey(f)

Inv == CallsPlaced /\ LockExclusive /\ NoneBefore /\ OwnFacts /\ Recorded /\ LoggedKeys
         /\ RetryIsAnswered

\* The initial state satisfies the invariant.
LEMMA InitInv == Init => Inv
<1>. SUFFICES ASSUME Init PROVE Inv
  OBVIOUS
<1>1. \A c \in Calls : calls[c] = Idle
  BY DEF Init
<1>2. CallsPlaced
  BY DEF Init, CallsPlaced, IsCall, Fields, Placed, Kinds, Idle
<1>. QED
  BY <1>1, <1>2 DEF Init, Inv, LockExclusive, NoneBefore, OwnFacts, Recorded, LoggedKeys,
     RetryIsAnswered, HoldsLock, Idle, Ended

----------------------------------------------------------------------------
(* What the steps do to what the invariant speaks of. *)

\* A call begins or ends without a fact and without the lock.
Lets(k) == k.facts = {} /\ k.pc # "nothing" /\ ~ HoldsLock(k)

\* A transaction goes on and writes no fact.
GoesOn(h, k) ==
  /\ k.op = h.op /\ k.facts = h.facts
  /\ h.pc \notin Ended \cup {"prior"} /\ k.pc \notin Ended \cup {"prior", "answer"}
  /\ k.pc = "commit" /\ k.op.kind = "assert" => h.pc = "answer"

Quiet(c) ==
  /\ log' = log
  /\ \E k : /\ calls' = [calls EXCEPT ![c] = k]
            /\ IsCall(k) /\ Placed(k)
            /\ Lets(k) \/ GoesOn(calls[c], k)

\* A quiet step preserves the invariant.
LEMMA QuietStep ==
  ASSUME Inv, NEW c \in Calls, Quiet(c)
  PROVE  Inv'
<1>1. PICK k : /\ calls' = [calls EXCEPT ![c] = k]
               /\ IsCall(k) /\ Placed(k)
               /\ Lets(k) \/ GoesOn(calls[c], k)
  BY DEF Quiet
<1>2. log' = log /\ calls'[c] = k /\ \A o \in Calls \ {c} : calls'[o] = calls[o]
  BY <1>1 DEF Quiet, Inv, CallsPlaced
<1>3. CallsPlaced'
  BY <1>1, <1>2 DEF Inv, CallsPlaced
<1>4. HoldsLock(k) => HoldsLock(calls[c]) /\ k.op = calls[c].op
  BY <1>1 DEF Lets, GoesOn, HoldsLock
<1>5. LockExclusive'
  BY <1>2, <1>4 DEF Inv, LockExclusive, SameKey
<1>6. NoneBefore'
  BY <1>2, <1>4 DEF Inv, NoneBefore, AssertedBy
<1>7. OwnFacts'
  <2>1. \A f \in k.facts : OwnFact(f, k)
    <3>1. CASE Lets(k)
      BY <3>1 DEF Lets
    <3>2. CASE GoesOn(calls[c], k)
      BY <3>2 DEF GoesOn, Inv, OwnFacts, OwnFact, HoldsLock, AssertedBy
    <3>. QED  BY <1>1, <3>1, <3>2
  <2>. QED  BY <1>2, <2>1 DEF Inv, OwnFacts
<1>8. Recorded'
  <2>1. HoldsLock(k) /\ k.pc \in {"answer", "commit"} => \E f \in k.facts : AssertedBy(f, k)
    BY <1>1, <1>4 DEF Lets, GoesOn, HoldsLock, Inv, Recorded, AssertedBy
  <2>. QED  BY <1>2, <2>1 DEF Inv, Recorded
<1>9. LoggedKeys'
  BY <1>2 DEF Inv, LoggedKeys, LoggedKey
<1>10. RetryIsAnswered'
  <2>1. k.pc # "nothing"
    BY <1>1 DEF Lets, GoesOn, Ended
  <2>. QED  BY <1>2, <2>1 DEF Inv, RetryIsAnswered
<1>. QED
  BY <1>3, <1>5, <1>6, <1>7, <1>8, <1>9, <1>10 DEF Inv

\* A call that is rolled back is quiet.
LEMMA RollbackQuiet ==
  ASSUME Inv, NEW c \in Calls, NEW how \in {"failed", "notfound"}, Rollback(c, how)
  PROVE  Quiet(c)
<1>. DEFINE k == [Idle EXCEPT !.pc = how]
<1>1. calls' = [calls EXCEPT ![c] = k] /\ log' = log
  BY DEF Rollback, Continue
<1>2. IsCall(k) /\ Placed(k) /\ Lets(k)
  BY DEF IsCall, Fields, Placed, Kinds, Idle, Lets, HoldsLock, Ended
<1>. QED
  BY <1>1, <1>2 DEF Quiet

\* A transaction that writes rows or nothing, at a place of its kind, is quiet.
LEMMA OnwardQuiet ==
  ASSUME Inv, NEW c \in Calls, NEW k, IsCall(k), Placed(k), GoesOn(calls[c], k),
         \/ Continue(c, k)
         \/ \E T, l : Write(c, T, l, k)
  PROVE  Quiet(c)
<1>1. CASE Continue(c, k)
  BY <1>1 DEF Continue, Quiet
<1>2. ASSUME NEW T, NEW l, Write(c, T, l, k)  PROVE Quiet(c)
  <2>. DEFINE h == [k EXCEPT
         !.del = [t \in Names |-> @[t] \cup (View(c)[t] \ T[t])],
         !.add = [t \in Names |-> (@[t] \cap T[t]) \cup (T[t] \ View(c)[t])],
         !.locks = Both(@, l)]
  <2>1. calls' = [calls EXCEPT ![c] = h] /\ log' = log
    BY <1>2 DEF Write, Continue
  <2>2. IsCall(h) /\ h.op = k.op /\ h.facts = k.facts /\ h.pc = k.pc
    BY DEF IsCall, Fields
  <2>. HIDE DEF h
  <2>3. Placed(h) /\ GoesOn(calls[c], h)
    BY <2>2 DEF Placed, GoesOn
  <2>. QED  BY <2>1, <2>2, <2>3 DEF Quiet
<1>. QED
  BY <1>1, <1>2

\* A call of Inputs is placed where it begins.
LEMMA BeginQuiet ==
  ASSUME Inv, NEW c \in Calls, NEW op \in Inputs, Begin(c, op)
  PROVE  Quiet(c)
<1>. DEFINE k == [Idle EXCEPT !.pc = First[op.kind], !.op = op, !.tx = begun + 1,
                  !.seen = IF op.kind = "retract" THEN InsertedBy(db, op.id) ELSE 0]
<1>1. calls' = [calls EXCEPT ![c] = k] /\ log' = log
  BY DEF Begin
<1>2. op.kind \in Kinds \ {"none"}
  BY PgStoreAssumption DEF Input, Kinds
<1>3. IsCall(k) /\ k.op = op /\ k.facts = {} /\ k.pc = First[op.kind]
  BY DEF IsCall, Fields, Idle
<1>. HIDE DEF k
<1>4. First[op.kind] = CASE op.kind = "assert" -> "prior" [] op.kind = "edge" -> "prior"
                         [] op.kind = "merge" -> "check" [] op.kind = "retract" -> "delete"
                         [] op.kind = "unlink" -> "unlink" [] op.kind = "rebuild" -> "clear"
  BY <1>2 DEF First, Kinds
<1>5. Placed(k) /\ Lets(k)
  BY <1>2, <1>3, <1>4 DEF Placed, Lets, HoldsLock, Kinds, Ended
<1>. QED
  BY <1>1, <1>3, <1>5 DEF Quiet

\* The lookup of the keys and the resolve are quiet.
LEMMA HitsQuiet ==
  ASSUME Inv, NEW c \in Calls, Hits(c)
  PROVE  Quiet(c)
<1>1. IsCall(calls[c]) /\ Placed(calls[c])
  BY DEF Inv, CallsPlaced
<1>2. ASSUME NEW i, NEW p \in {"exists", "move"}, NEW d,
             Continue(c, [calls[c] EXCEPT !.pc = p, !.id = i, !.drops = d])
      PROVE  Quiet(c)
  <2>. DEFINE k == [calls[c] EXCEPT !.pc = p, !.id = i, !.drops = d]
  <2>1. IsCall(k) /\ k.pc = p /\ k.op = calls[c].op /\ k.facts = calls[c].facts
    BY <1>1 DEF IsCall, Fields
  <2>2. Continue(c, k)
    BY <1>2
  <2>. HIDE DEF k
  <2>3. Placed(k) /\ GoesOn(calls[c], k)
    BY <1>1, <2>1 DEF Hits, Placed, GoesOn, Ended
  <2>. QED  BY <2>1, <2>2, <2>3, OnwardQuiet
<1>3. ASSUME NEW i, Continue(c, [calls[c] EXCEPT !.pc = "upsert", !.id = i])
      PROVE  Quiet(c)
  <2>. DEFINE k == [calls[c] EXCEPT !.pc = "upsert", !.id = i]
  <2>1. IsCall(k) /\ k.pc = "upsert" /\ k.op = calls[c].op /\ k.facts = calls[c].facts
    BY <1>1 DEF IsCall, Fields
  <2>2. Continue(c, k)
    BY <1>3
  <2>. HIDE DEF k
  <2>3. Placed(k) /\ GoesOn(calls[c], k)
    BY <1>1, <2>1 DEF Hits, Placed, GoesOn, Ended
  <2>. QED  BY <2>1, <2>2, <2>3, OnwardQuiet
<1>4. \/ \E i : Continue(c, [calls[c] EXCEPT !.pc = "upsert", !.id = i])
      \/ \E i, d : Continue(c, [calls[c] EXCEPT !.pc = "exists", !.id = i, !.drops = d])
      \/ \E i, d : Continue(c, [calls[c] EXCEPT !.pc = "move", !.id = i, !.drops = d])
  <2>. DEFINE hits   == ExternalHits(c)
              used   == {f.subject : f \in log} \cup {calls[o].id : o \in Calls}
              oldest == CHOOSE i \in hits : \A j \in hits : i <= j
  <2>1. IF hits = {} THEN \E i \in EntityIds \ used :
                            Continue(c, [calls[c] EXCEPT !.pc = "upsert", !.id = i])
        ELSE Continue(c, [calls[c] EXCEPT !.pc = IF hits = {oldest} THEN "exists" ELSE "move",
                                          !.id = oldest, !.drops = hits \ {oldest}])
    BY Zenon DEF Hits
  <2>. HIDE DEF hits, used, oldest
  <2>2. CASE hits = {}
    BY <2>1, <2>2
  <2>3. CASE hits # {} /\ hits = {oldest}
    <3>1. Continue(c, [calls[c] EXCEPT !.pc = "exists", !.id = oldest, !.drops = hits \ {oldest}])
      BY <2>1, <2>3
    <3>. QED  BY <3>1
  <2>4. CASE hits # {} /\ hits # {oldest}
    <3>1. Continue(c, [calls[c] EXCEPT !.pc = "move", !.id = oldest, !.drops = hits \ {oldest}])
      BY <2>1, <2>4
    <3>. QED  BY <3>1
  <2>. QED  BY <2>2, <2>3, <2>4
<1>. QED  BY <1>2, <1>3, <1>4

\* The existence check of upsertEntitySnapshot is quiet.
LEMMA ExistsQuiet ==
  ASSUME Inv, NEW c \in Calls, Exists(c)
  PROVE  Quiet(c)
<1>. DEFINE k == [calls[c] EXCEPT !.pc = "upsert", !.seen = InsertedBy(View(c), calls[c].id)]
<1>1. IsCall(calls[c]) /\ Placed(calls[c])
  BY DEF Inv, CallsPlaced
<1>2. IsCall(k) /\ k.pc = "upsert" /\ k.op = calls[c].op /\ k.facts = calls[c].facts
  BY <1>1 DEF IsCall, Fields
<1>3. Continue(c, k)
  BY DEF Exists
<1>. HIDE DEF k
<1>4. Placed(k) /\ GoesOn(calls[c], k)
  BY <1>1, <1>2 DEF Exists, Placed, GoesOn, Ended
<1>. QED  BY <1>2, <1>3, <1>4, OnwardQuiet

\* The insert or update of the entity is quiet.
LEMMA UpsertQuiet ==
  ASSUME Inv, NEW c \in Calls, Upsert(c)
  PROVE  Quiet(c)
<1>. DEFINE k == [calls[c] EXCEPT !.todo = calls[c].op.keys,
                                  !.pc = IF calls[c].op.keys = {} THEN "sync" ELSE "keys"]
<1>1. IsCall(calls[c]) /\ Placed(calls[c])
  BY DEF Inv, CallsPlaced
<1>2. IsCall(k) /\ k.pc \in {"sync", "keys"} /\ k.op = calls[c].op /\ k.facts = calls[c].facts
  BY <1>1 DEF IsCall, Fields
<1>3. Continue(c, k) \/ (\E T, l : Write(c, T, l, k)) \/ Rollback(c, "failed")
  BY Zenon DEF Upsert
<1>. HIDE DEF k
<1>4. Placed(k) /\ GoesOn(calls[c], k)
  BY <1>1, <1>2 DEF Upsert, Placed, GoesOn, Ended
<1>. QED  BY <1>2, <1>3, <1>4, OnwardQuiet, RollbackQuiet

\* The insert of a key is quiet.
LEMMA InsertKeyQuiet ==
  ASSUME Inv, NEW c \in Calls, NEW x \in Keys, InsertKey(c, x)
  PROVE  Quiet(c)
<1>. DEFINE k == [calls[c] EXCEPT !.todo = @ \ {x},
                                  !.pc = IF calls[c].todo = {x} THEN "sync" ELSE "keys"]
<1>1. IsCall(calls[c]) /\ Placed(calls[c])
  BY DEF Inv, CallsPlaced
<1>2. IsCall(k) /\ k.pc \in {"sync", "keys"} /\ k.op = calls[c].op /\ k.facts = calls[c].facts
  BY <1>1 DEF IsCall, Fields
<1>3. Continue(c, k) \/ (\E T, l : Write(c, T, l, k)) \/ Rollback(c, "failed")
  BY Zenon DEF InsertKey
<1>. HIDE DEF k
<1>4. Placed(k) /\ GoesOn(calls[c], k)
  BY <1>1, <1>2 DEF InsertKey, Placed, GoesOn, Ended
<1>. QED  BY <1>2, <1>3, <1>4, OnwardQuiet, RollbackQuiet

\* The update of the search text is quiet.
LEMMA SyncQuiet ==
  ASSUME Inv, NEW c \in Calls, Sync(c)
  PROVE  Quiet(c)
<1>. DEFINE k == [calls[c] EXCEPT !.pc = "fact"]
<1>1. IsCall(calls[c]) /\ Placed(calls[c])
  BY DEF Inv, CallsPlaced
<1>2. IsCall(k) /\ k.pc = "fact" /\ k.op = calls[c].op /\ k.facts = calls[c].facts
  BY <1>1 DEF IsCall, Fields
<1>3. \E T, l : Write(c, T, l, k)
  BY Zenon DEF Sync
<1>. HIDE DEF k
<1>4. Placed(k) /\ GoesOn(calls[c], k)
  BY <1>1, <1>2 DEF Sync, Placed, GoesOn, Ended
<1>. QED  BY <1>2, <1>3, <1>4, OnwardQuiet

\* The move of the keys is quiet.
LEMMA MoveQuiet ==
  ASSUME Inv, NEW c \in Calls, Move(c)
  PROVE  Quiet(c)
<1>. DEFINE k == [calls[c] EXCEPT !.pc = "repoint"]
<1>1. IsCall(calls[c]) /\ Placed(calls[c])
  BY DEF Inv, CallsPlaced
<1>2. IsCall(k) /\ k.pc = "repoint" /\ k.op = calls[c].op /\ k.facts = calls[c].facts
  BY <1>1 DEF IsCall, Fields
<1>3. Continue(c, k) \/ (\E T, l : Write(c, T, l, k)) \/ Rollback(c, "failed")
  BY Zenon DEF Move
<1>. HIDE DEF k
<1>4. Placed(k) /\ GoesOn(calls[c], k)
  BY <1>1, <1>2 DEF Move, Placed, GoesOn, Ended
<1>. QED  BY <1>2, <1>3, <1>4, OnwardQuiet, RollbackQuiet

\* The move of the edges is quiet.
LEMMA RepointQuiet ==
  ASSUME Inv, NEW c \in Calls, Repoint(c)
  PROVE  Quiet(c)
<1>. DEFINE k == [calls[c] EXCEPT !.pc = "drop", !.seen = InsertedBy(View(c), Dropped(c))]
<1>1. IsCall(calls[c]) /\ Placed(calls[c])
  BY DEF Inv, CallsPlaced
<1>2. IsCall(k) /\ k.pc = "drop" /\ k.op = calls[c].op /\ k.facts = calls[c].facts
  BY <1>1 DEF IsCall, Fields
<1>3. Continue(c, k) \/ (\E T, l : Write(c, T, l, k)) \/ Rollback(c, "failed")
  BY Zenon DEF Repoint
<1>. HIDE DEF k
<1>4. Placed(k) /\ GoesOn(calls[c], k)
  BY <1>1, <1>2 DEF Repoint, Placed, GoesOn, Ended
<1>. QED  BY <1>2, <1>3, <1>4, OnwardQuiet, RollbackQuiet

\* The deletion of the dropped entity is quiet.
LEMMA DropQuiet ==
  ASSUME Inv, NEW c \in Calls, Drop(c)
  PROVE  Quiet(c)
<1>. DEFINE k == [calls[c] EXCEPT !.pc = "mergefact"]
<1>1. IsCall(calls[c]) /\ Placed(calls[c])
  BY DEF Inv, CallsPlaced
<1>2. IsCall(k) /\ k.pc = "mergefact" /\ k.op = calls[c].op /\ k.facts = calls[c].facts
  BY <1>1 DEF IsCall, Fields
<1>3. \E T, l : Write(c, T, l, k)
  BY Zenon DEF Drop, DeleteEntity
<1>. HIDE DEF k
<1>4. Placed(k) /\ GoesOn(calls[c], k)
  BY <1>1, <1>2 DEF Drop, Placed, GoesOn, Ended
<1>. QED  BY <1>2, <1>3, <1>4, OnwardQuiet

\* The deletion of a retraction is quiet.
LEMMA RetractQuiet ==
  ASSUME Inv, NEW c \in Calls, Retract(c)
  PROVE  Quiet(c)
<1>. DEFINE k == [calls[c] EXCEPT !.pc = "fact", !.id = calls[c].op.id]
<1>1. IsCall(calls[c]) /\ Placed(calls[c])
  BY DEF Inv, CallsPlaced
<1>2. IsCall(k) /\ k.pc = "fact" /\ k.op = calls[c].op /\ k.facts = calls[c].facts
  BY <1>1 DEF IsCall, Fields
<1>3. \E T, l : Write(c, T, l, k)
  BY Zenon DEF Retract, DeleteEntity
<1>. HIDE DEF k
<1>4. Placed(k) /\ GoesOn(calls[c], k)
  BY <1>1, <1>2 DEF Retract, Placed, GoesOn, Ended
<1>. QED  BY <1>2, <1>3, <1>4, OnwardQuiet

\* The deletion of an edge is quiet.
LEMMA UnlinkQuiet ==
  ASSUME Inv, NEW c \in Calls, Unlink(c)
  PROVE  Quiet(c)
<1>. DEFINE k == [calls[c] EXCEPT !.pc = "fact", !.id = calls[c].op.id]
<1>1. IsCall(calls[c]) /\ Placed(calls[c])
  BY DEF Inv, CallsPlaced
<1>2. IsCall(k) /\ k.pc = "fact" /\ k.op = calls[c].op /\ k.facts = calls[c].facts
  BY <1>1 DEF IsCall, Fields
<1>3. \E T, l : Write(c, T, l, k)
  BY Zenon DEF Unlink
<1>. HIDE DEF k
<1>4. Placed(k) /\ GoesOn(calls[c], k)
  BY <1>1, <1>2 DEF Unlink, Placed, GoesOn, Ended
<1>. QED  BY <1>2, <1>3, <1>4, OnwardQuiet

\* Clearing the tables is quiet.
LEMMA ClearQuiet ==
  ASSUME Inv, NEW c \in Calls, Clear(c)
  PROVE  Quiet(c)
<1>. DEFINE k == [calls[c] EXCEPT !.pc = "read"]
<1>1. IsCall(calls[c]) /\ Placed(calls[c])
  BY DEF Inv, CallsPlaced
<1>2. IsCall(k) /\ k.pc = "read" /\ k.op = calls[c].op /\ k.facts = calls[c].facts
  BY <1>1 DEF IsCall, Fields
<1>3. \E T, l : Write(c, T, l, k)
  BY Zenon DEF Clear
<1>. HIDE DEF k
<1>4. Placed(k) /\ GoesOn(calls[c], k)
  BY <1>1, <1>2 DEF Clear, Placed, GoesOn, Ended
<1>. QED  BY <1>2, <1>3, <1>4, OnwardQuiet

\* Reading the log is quiet.
LEMMA ReadLogQuiet ==
  ASSUME Inv, NEW c \in Calls, ReadLog(c)
  PROVE  Quiet(c)
<1>. DEFINE k == [calls[c] EXCEPT !.pc = "fold", !.read = log]
<1>1. IsCall(calls[c]) /\ Placed(calls[c])
  BY DEF Inv, CallsPlaced
<1>2. IsCall(k) /\ k.pc = "fold" /\ k.op = calls[c].op /\ k.facts = calls[c].facts
  BY <1>1 DEF IsCall, Fields
<1>3. Continue(c, k)
  BY Zenon DEF ReadLog
<1>. HIDE DEF k
<1>4. Placed(k) /\ GoesOn(calls[c], k)
  BY <1>1, <1>2 DEF ReadLog, Placed, GoesOn, Ended
<1>. QED  BY <1>2, <1>3, <1>4, OnwardQuiet

\* The fold is quiet.
LEMMA FoldLogQuiet ==
  ASSUME Inv, NEW c \in Calls, FoldLog(c)
  PROVE  Quiet(c)
<1>. DEFINE k == [calls[c] EXCEPT !.pc = "commit", !.read = {}]
<1>1. IsCall(calls[c]) /\ Placed(calls[c])
  BY DEF Inv, CallsPlaced
<1>2. IsCall(k) /\ k.pc = "commit" /\ k.op = calls[c].op /\ k.facts = calls[c].facts
  BY <1>1 DEF IsCall, Fields
<1>3. (\E T, l : Write(c, T, l, k)) \/ Rollback(c, "failed")
  BY Zenon DEF FoldLog
<1>. HIDE DEF k
<1>4. Placed(k) /\ GoesOn(calls[c], k)
  BY <1>1, <1>2 DEF FoldLog, Placed, GoesOn, Ended
<1>. QED  BY <1>2, <1>3, <1>4, OnwardQuiet, RollbackQuiet

\* Reading the answer back is quiet.
LEMMA AnswerQuiet ==
  ASSUME Inv, NEW c \in Calls, Answer(c)
  PROVE  Quiet(c)
<1>. DEFINE k == [calls[c] EXCEPT !.pc = "commit"]
<1>1. IsCall(calls[c]) /\ Placed(calls[c])
  BY DEF Inv, CallsPlaced
<1>2. IsCall(k) /\ k.pc = "commit" /\ k.op = calls[c].op /\ k.facts = calls[c].facts
  BY <1>1 DEF IsCall, Fields
<1>3. Continue(c, k) \/ Rollback(c, "notfound")
  BY Zenon DEF Answer
<1>. HIDE DEF k
<1>4. Placed(k) /\ GoesOn(calls[c], k)
  BY <1>1, <1>2 DEF Answer, Placed, GoesOn, Ended
<1>. QED  BY <1>2, <1>3, <1>4, OnwardQuiet, RollbackQuiet

\* Looking at both entities of a merge is quiet.
LEMMA CheckQuiet ==
  ASSUME Inv, NEW c \in Calls, Check(c)
  PROVE  Quiet(c)
<1>1. IsCall(calls[c]) /\ Placed(calls[c])
  BY DEF Inv, CallsPlaced
<1>2. ASSUME NEW p \in {"mergefact", "move"}, NEW i, NEW d,
             Continue(c, [calls[c] EXCEPT !.pc = p, !.id = i, !.drops = d])
      PROVE  Quiet(c)
  <2>. DEFINE k == [calls[c] EXCEPT !.pc = p, !.id = i, !.drops = d]
  <2>1. IsCall(k) /\ k.pc = p /\ k.op = calls[c].op /\ k.facts = calls[c].facts
    BY <1>1 DEF IsCall, Fields
  <2>2. Continue(c, k)
    BY <1>2
  <2>. HIDE DEF k
  <2>3. Placed(k) /\ GoesOn(calls[c], k)
    BY <1>1, <2>1 DEF Check, Placed, GoesOn, Ended
  <2>. QED  BY <2>1, <2>2, <2>3, OnwardQuiet
<1>3. \/ Rollback(c, "notfound")
      \/ Continue(c, [calls[c] EXCEPT !.pc = "mergefact", !.id = calls[c].op.keep, !.drops = {calls[c].op.drop}])
      \/ Continue(c, [calls[c] EXCEPT !.pc = "move", !.id = calls[c].op.keep, !.drops = {calls[c].op.drop}])
  <2>1. CASE calls[c].op.keep = calls[c].op.drop
    BY <2>1 DEF Check
  <2>2. CASE calls[c].op.keep # calls[c].op.drop
    BY <2>2 DEF Check
  <2>. QED  BY <2>1, <2>2
<1>. QED  BY <1>2, <1>3, RollbackQuiet

\* The insert of an edge is quiet.
LEMMA LinkQuiet ==
  ASSUME Inv, NEW c \in Calls, Link(c)
  PROVE  Quiet(c)
<1>1. IsCall(calls[c]) /\ Placed(calls[c])
  BY DEF Inv, CallsPlaced
<1>2. PICK i : (\E T, l : Write(c, T, l, [calls[c] EXCEPT !.pc = "fact", !.id = i])) \/ Rollback(c, "failed")
  BY Zenon DEF Link
<1>. DEFINE k == [calls[c] EXCEPT !.pc = "fact", !.id = i]
<1>3. IsCall(k) /\ k.pc = "fact" /\ k.op = calls[c].op /\ k.facts = calls[c].facts
  BY <1>1 DEF IsCall, Fields
<1>4. (\E T, l : Write(c, T, l, k)) \/ Rollback(c, "failed")
  BY <1>2
<1>. HIDE DEF k
<1>5. Placed(k) /\ GoesOn(calls[c], k)
  BY <1>1, <1>3 DEF Link, Placed, GoesOn, Ended
<1>. QED  BY <1>3, <1>4, <1>5, OnwardQuiet, RollbackQuiet

----------------------------------------------------------------------------
(* The steps that take the lock, write a fact and commit. *)

\* An edge looks up nothing it holds, and a duplicate ends.
LEMMA PriorQuiet ==
  ASSUME Inv, NEW c \in Calls, Prior(c), PriorAssertions(c) # {} \/ calls[c].op.kind = "edge"
  PROVE  Quiet(c)
<1>1. IsCall(calls[c]) /\ Placed(calls[c]) /\ calls[c].pc = "prior"
  BY DEF Inv, CallsPlaced, Prior
<1>2. CASE PriorAssertions(c) # {}
  <2>. DEFINE i == (CHOOSE f \in PriorAssertions(c) : TRUE).subject
  <2>1. PICK p \in {"duplicate", "notfound"} :
           Continue(c, [Idle EXCEPT !.op = calls[c].op, !.id = i, !.pc = p])
    BY <1>2 DEF Prior, LookUp
  <2>. HIDE DEF i
  <2>. DEFINE k == [Idle EXCEPT !.op = calls[c].op, !.id = i, !.pc = p]
  <2>2. IsCall(k) /\ k.pc = p /\ k.op = calls[c].op /\ k.facts = {}
    BY DEF IsCall, Fields, Idle
  <2>3. calls' = [calls EXCEPT ![c] = k] /\ log' = log
    BY <2>1 DEF Continue
  <2>. HIDE DEF k
  <2>4. Placed(k) /\ Lets(k)
    BY <1>1, <2>2 DEF Placed, Lets, HoldsLock, Ended
  <2>. QED  BY <2>2, <2>3, <2>4 DEF Quiet
<1>3. CASE PriorAssertions(c) = {} /\ calls[c].op.kind = "edge"
  <2>. DEFINE k == [calls[c] EXCEPT !.pc = "link"]
  <2>1. IsCall(k) /\ k.pc = "link" /\ k.op = calls[c].op /\ k.facts = calls[c].facts
    BY <1>1 DEF IsCall, Fields
  <2>2. calls' = [calls EXCEPT ![c] = k] /\ log' = log
    BY <1>3 DEF Prior, LookUp, Continue
  <2>. HIDE DEF k
  <2>3. Placed(k) /\ Lets(k)
    BY <1>1, <1>3, <2>1 DEF Placed, Lets, HoldsLock
  <2>. QED  BY <2>1, <2>2, <2>3 DEF Quiet
<1>. QED  BY <1>2, <1>3

\* A step that leaves the other calls alone, drops no fact and does not end its own call
\* with nothing keeps RetryIsAnswered.
LEMMA RetryKept ==
  ASSUME RetryIsAnswered, NEW c \in Calls, calls'[c].pc # "nothing", log \subseteq log',
         \A o \in Calls \ {c} : calls'[o] = calls[o]
  PROVE  RetryIsAnswered'
<1>1. ASSUME NEW d \in Calls, calls'[d].op.kind = "assert", calls'[d].pc = "nothing"
      PROVE  \E g \in log' : /\ g.kind = "edge" /\ g.writer = calls'[d].op.writer
                             /\ g.key = <<"caller", calls'[d].op.dedupe>>
  <2>1. calls'[d] = calls[d]
    BY <1>1
  <2>2. PICK g \in log : /\ g.kind = "edge" /\ g.writer = calls[d].op.writer
                         /\ g.key = <<"caller", calls[d].op.dedupe>>
    BY <1>1, <2>1 DEF RetryIsAnswered
  <2>. QED  BY <2>1, <2>2
<1>. QED  BY <1>1 DEF RetryIsAnswered

\* Taking the lock preserves the invariant: nobody holds it, and the log was looked at.
LEMMA TakeLock ==
  ASSUME Inv, NEW c \in Calls, Prior(c), PriorAssertions(c) = {}, calls[c].op.kind # "edge"
  PROVE  Inv'
<1>. DEFINE k == [calls[c] EXCEPT !.pc = "hits"]
<1>1. IsCall(calls[c]) /\ Placed(calls[c]) /\ calls[c].pc = "prior" /\ ~ Locked(c)
  BY DEF Inv, CallsPlaced, Prior
<1>2. calls[c].op.kind = "assert" /\ calls[c].facts = {}
  BY <1>1 DEF Placed
<1>3. IsCall(k) /\ k.pc = "hits" /\ k.op = calls[c].op /\ k.facts = calls[c].facts
  BY <1>1 DEF IsCall, Fields
<1>4. calls' = [calls EXCEPT ![c] = k] /\ log' = log
  BY DEF Prior, LookUp, Continue
<1>. HIDE DEF k
<1>5. calls'[c] = k /\ \A o \in Calls \ {c} : calls'[o] = calls[o]
  BY <1>4 DEF Inv, CallsPlaced
<1>6. Placed(k)
  BY <1>2, <1>3 DEF Placed, Kinds
<1>7. CallsPlaced'
  BY <1>3, <1>4, <1>5, <1>6 DEF Inv, CallsPlaced
<1>8. LockExclusive'
  <2>1. \A o \in Calls \ {c} : HoldsLock(calls[o]) => ~ SameKey(k, calls[o]) /\ ~ SameKey(calls[o], k)
    BY <1>1, <1>2, <1>3 DEF Locked, HoldsLock, SameKey
  <2>. QED  BY <1>5, <2>1 DEF Inv, LockExclusive
<1>9. NoneBefore'
  <2>1. \A f \in log : ~ AssertedBy(f, k)
    BY <1>2, <1>3 DEF PriorAssertions, AssertedBy
  <2>. QED  BY <1>4, <1>5, <2>1 DEF Inv, NoneBefore
<1>10. OwnFacts'
  BY <1>2, <1>3, <1>5 DEF Inv, OwnFacts
<1>11. Recorded'
  BY <1>3, <1>5 DEF Inv, Recorded
<1>12. LoggedKeys'
  BY <1>4 DEF Inv, LoggedKeys, LoggedKey
<1>13. RetryIsAnswered'
  BY <1>3, <1>4, <1>5, RetryKept DEF Inv
<1>. QED
  BY <1>7, <1>8, <1>9, <1>10, <1>11, <1>12, <1>13 DEF Inv

\* A commit preserves the invariant: what it adds to the log is its own.
LEMMA CommitStep ==
  ASSUME Inv, NEW c \in Calls, Commit(c)
  PROVE  Inv'
<1>. DEFINE k == [Idle EXCEPT !.pc = "done"]
<1>1. IsCall(calls[c]) /\ Placed(calls[c]) /\ calls[c].pc = "commit"
  BY DEF Inv, CallsPlaced, Commit
<1>2. IsCall(k) /\ Placed(k) /\ k.pc = "done" /\ k.facts = {} /\ ~ HoldsLock(k)
  BY DEF IsCall, Fields, Idle, Placed, Kinds, HoldsLock, Ended
<1>3. calls' = [calls EXCEPT ![c] = k] /\ log' = log \cup calls[c].facts
  BY DEF Commit
<1>. HIDE DEF k
<1>4. calls'[c] = k /\ \A o \in Calls \ {c} : calls'[o] = calls[o]
  BY <1>3 DEF Inv, CallsPlaced
<1>5. CallsPlaced'
  BY <1>2, <1>3, <1>4 DEF Inv, CallsPlaced
<1>6. LockExclusive'
  BY <1>2, <1>4 DEF Inv, LockExclusive
<1>7. NoneBefore'
  <2>1. ASSUME NEW o \in Calls \ {c}, HoldsLock(calls[o]), NEW f \in calls[c].facts, AssertedBy(f, calls[o])
        PROVE  FALSE
    <3>1. HoldsLock(calls[c]) /\ AssertedBy(f, calls[c])
      BY <2>1 DEF Inv, OwnFacts, OwnFact, AssertedBy
    <3>2. SameKey(calls[c], calls[o])
      BY <2>1, <3>1 DEF AssertedBy, SameKey
    <3>. QED  BY <2>1, <3>1, <3>2 DEF Inv, LockExclusive
  <2>. QED  BY <1>2, <1>3, <1>4, <2>1 DEF Inv, NoneBefore
<1>8. OwnFacts'
  BY <1>2, <1>4 DEF Inv, OwnFacts
<1>9. Recorded'
  BY <1>2, <1>4 DEF Inv, Recorded
<1>10. LoggedKeys'
  <2>1. \A f \in log : LoggedKey(f)'
    BY <1>3 DEF Inv, LoggedKeys, LoggedKey
  <2>2. ASSUME NEW f \in calls[c].facts PROVE LoggedKey(f)'
    <3>1. OwnFact(f, calls[c])
      BY DEF Inv, OwnFacts
    <3>2. HoldsLock(calls[c]) => \E g \in calls[c].facts : AssertedBy(g, calls[c])
      BY <1>1 DEF Inv, Recorded
    <3>. QED  BY <1>3, <3>1, <3>2 DEF LoggedKey, OwnFact, AssertedBy
  <2>. QED  BY <1>3, <2>1, <2>2 DEF LoggedKeys
<1>11. RetryIsAnswered'
  BY <1>2, <1>3, <1>4, RetryKept DEF Inv
<1>. QED
  BY <1>5, <1>6, <1>7, <1>8, <1>9, <1>10, <1>11 DEF Inv

\* The key of a fact tells what it is a fact of.
LEMMA KeyTag ==
  ASSUME NEW c \in Calls, Placed(calls[c]), calls[c].pc \in {"fact", "mergefact"}
  PROVE  \/ calls[c].pc = "fact" /\ calls[c].op.kind \in {"assert", "edge"}
            /\ KeyOf(c) = <<"caller", calls[c].op.dedupe>>
         \/ calls[c].pc = "mergefact" /\ calls[c].op.kind = "assert"
            /\ KeyOf(c) = <<"mergeof", calls[c].op.dedupe, Dropped(c)>>
         \/ calls[c].op.kind \notin {"assert", "edge"} /\ KeyOf(c)[1] \notin {"caller", "mergeof"}
<1>1. CASE calls[c].pc = "fact" /\ calls[c].op.kind \in {"assert", "edge"}
  BY <1>1 DEF KeyOf
<1>2. CASE calls[c].pc = "mergefact" /\ calls[c].op.kind = "assert"
  BY <1>2 DEF KeyOf
<1>3. CASE calls[c].pc = "mergefact" /\ calls[c].op.kind = "merge"
  <2>1. KeyOf(c) = <<"merge", calls[c].op.keep, calls[c].op.drop>>
    BY <1>3 DEF KeyOf
  <2>. QED  BY <1>3, <2>1
<1>4. CASE calls[c].pc = "fact" /\ calls[c].op.kind \notin {"assert", "edge"}
  <2>1. KeyOf(c) = <<calls[c].op.kind, calls[c].op.id>>
    BY <1>4 DEF KeyOf
  <2>. QED  BY <1>4, <2>1 DEF Placed, Kinds
<1>. QED
  BY <1>1, <1>2, <1>3, <1>4 DEF Placed

\* An insert that is refused preserves the invariant: under the lock, only an edge can
\* have the key.
LEMMA InsertRefused ==
  ASSUME Inv, NEW c \in Calls, InsertFact(c),
         NEW f \in log, f.writer = calls[c].op.writer, f.key = KeyOf(c)
  PROVE  Inv'
<1>. DEFINE k == [Idle EXCEPT !.pc = "nothing", !.op = calls[c].op]
<1>1. IsCall(calls[c]) /\ Placed(calls[c]) /\ calls[c].pc \in {"fact", "mergefact"}
  BY DEF Inv, CallsPlaced, InsertFact
<1>2. IsCall(k) /\ k.pc = "nothing" /\ k.op = calls[c].op /\ k.facts = {}
  BY DEF IsCall, Fields, Idle
<1>3. calls' = [calls EXCEPT ![c] = k] /\ log' = log
  BY DEF InsertFact
<1>. HIDE DEF k
<1>4. calls'[c] = k /\ \A o \in Calls \ {c} : calls'[o] = calls[o]
  BY <1>3 DEF Inv, CallsPlaced
<1>5. Placed(k) /\ ~ HoldsLock(k)
  BY <1>1, <1>2 DEF Placed, HoldsLock, Ended
<1>6. CallsPlaced'
  BY <1>2, <1>3, <1>4, <1>5 DEF Inv, CallsPlaced
<1>7. LockExclusive' /\ NoneBefore' /\ OwnFacts' /\ Recorded'
  BY <1>2, <1>3, <1>4, <1>5 DEF Inv, LockExclusive, NoneBefore, OwnFacts, Recorded
<1>8. LoggedKeys'
  BY <1>3 DEF Inv, LoggedKeys, LoggedKey
<1>9. ASSUME calls[c].op.kind = "assert"
      PROVE  \E g \in log : /\ g.kind = "edge" /\ g.writer = calls[c].op.writer
                            /\ g.key = <<"caller", calls[c].op.dedupe>>
  <2>1. HoldsLock(calls[c])
    BY <1>1, <1>9 DEF HoldsLock, Ended
  <2>2. LoggedKey(f)
    BY DEF Inv, LoggedKeys
  <2>3. CASE KeyOf(c) = <<"caller", calls[c].op.dedupe>>
    <3>1. f.key[1] = "caller"
      BY <2>3
    <3>2. f.kind # "assert"
      BY <2>1, <2>3 DEF Inv, NoneBefore, AssertedBy
    <3>. QED  BY <2>2, <2>3, <3>1, <3>2 DEF LoggedKey
  <2>4. CASE KeyOf(c) = <<"mergeof", calls[c].op.dedupe, Dropped(c)>>
    <3>1. f.key[1] = "mergeof" /\ f.key[2] = calls[c].op.dedupe
      BY <2>4
    <3>2. PICK g \in log : g.kind = "assert" /\ g.writer = f.writer /\ g.key = <<"caller", f.key[2]>>
      BY <2>2, <3>1 DEF LoggedKey
    <3>3. AssertedBy(g, calls[c])
      BY <3>1, <3>2 DEF AssertedBy
    <3>. QED  BY <2>1, <3>3 DEF Inv, NoneBefore
  <2>. QED  BY <1>1, <1>9, <2>3, <2>4, KeyTag
<1>10. ASSUME NEW d \in Calls, calls'[d].op.kind = "assert", calls'[d].pc = "nothing"
       PROVE  \E g \in log' : /\ g.kind = "edge" /\ g.writer = calls'[d].op.writer
                              /\ g.key = <<"caller", calls'[d].op.dedupe>>
  <2>1. CASE d = c
    <3>1. calls'[d].op = calls[c].op
      BY <1>2, <1>4, <2>1
    <3>2. calls[c].op.kind = "assert"
      BY <1>10, <3>1
    <3>. QED  BY <1>3, <1>9, <3>1, <3>2
  <2>2. CASE d # c
    <3>1. calls'[d] = calls[d]
      BY <1>4, <2>2
    <3>. QED  BY <1>3, <1>10, <3>1 DEF Inv, RetryIsAnswered
  <2>. QED  BY <2>1, <2>2
<1>11. RetryIsAnswered'
  BY <1>10 DEF RetryIsAnswered
<1>. QED
  BY <1>6, <1>7, <1>8, <1>11 DEF Inv

\* An insert preserves the invariant: the fact has the key of its call.
LEMMA InsertKept ==
  ASSUME Inv, NEW c \in Calls, InsertFact(c),
         ~ \E f \in log : f.writer = calls[c].op.writer /\ f.key = KeyOf(c)
  PROVE  Inv'
<1>. DEFINE h == calls[c]
            fact == [seq |-> seq + 1, kind |-> IF h.pc = "mergefact" THEN "merge" ELSE h.op.kind,
                     writer |-> h.op.writer, key |-> KeyOf(c),
                     subject |-> IF h.pc = "mergefact" THEN Dropped(c) ELSE h.id,
                     keep |-> h.id,
                     keys |-> IF h.op.kind = "assert" THEN h.op.keys ELSE {},
                     props |-> IF h.op.kind = "assert" THEN Logged(h.op.props) ELSE {},
                     ends |-> IF h.op.kind = "edge" THEN <<h.op.from, h.op.to>> ELSE <<>>]
            rest == [h EXCEPT !.facts = @ \cup {fact},
                              !.drops = IF h.pc = "mergefact" THEN @ \ {Dropped(c)} ELSE @]
            place == CASE h.pc = "mergefact" /\ h.op.kind = "assert" ->
                            IF rest.drops = {} THEN "exists" ELSE "move"
                       [] h.pc = "fact" /\ h.op.kind \in {"assert", "edge"} -> "answer"
                       [] OTHER -> "commit"
            k == [rest EXCEPT !.pc = place]
<1>1. IsCall(h) /\ Placed(h) /\ h.pc \in {"fact", "mergefact"}
  BY DEF Inv, CallsPlaced, InsertFact
<1>2. calls' = [calls EXCEPT ![c] = k] /\ log' = log
  BY DEF InsertFact
<1>3. fact.kind = (IF h.pc = "mergefact" THEN "merge" ELSE h.op.kind)
      /\ fact.writer = h.op.writer /\ fact.key = KeyOf(c)
  OBVIOUS
<1>. HIDE DEF fact
<1>4. IsCall(rest) /\ rest.op = h.op /\ rest.facts = h.facts \cup {fact}
  BY <1>1 DEF IsCall, Fields
<1>. HIDE DEF rest
<1>5. /\ h.pc = "mergefact" /\ h.op.kind = "assert" => place \in {"exists", "move"}
      /\ h.pc = "fact" /\ h.op.kind \in {"assert", "edge"} => place = "answer"
      /\ h.op.kind \notin {"assert", "edge"} => place = "commit"
  OBVIOUS
<1>. HIDE DEF place
<1>6. IsCall(k) /\ k.pc = place /\ k.op = h.op /\ k.facts = h.facts \cup {fact}
  BY <1>4 DEF IsCall, Fields
<1>. HIDE DEF k
<1>7. calls'[c] = k /\ \A o \in Calls \ {c} : calls'[o] = calls[o]
  BY <1>2 DEF Inv, CallsPlaced
<1>8. Placed(k) /\ k.pc \notin Ended \cup {"prior"}
  BY <1>1, <1>5, <1>6, KeyTag DEF Placed, Ended
<1>9. HoldsLock(k) <=> HoldsLock(h)
  BY <1>1, <1>6, <1>8 DEF HoldsLock, Ended
<1>10. CallsPlaced'
  BY <1>2, <1>6, <1>7, <1>8 DEF Inv, CallsPlaced
<1>11. LockExclusive'
  BY <1>6, <1>7, <1>9 DEF Inv, LockExclusive, SameKey
<1>12. NoneBefore'
  BY <1>2, <1>6, <1>7, <1>9 DEF Inv, NoneBefore, AssertedBy
<1>13. OwnFacts'
  <2>1. OwnFact(fact, k)
    <3>1. h.op.kind = "assert" => HoldsLock(k)
      BY <1>1, <1>9 DEF HoldsLock, Ended
    <3>. QED  BY <1>1, <1>3, <1>6, <3>1, KeyTag DEF OwnFact, AssertedBy
  <2>2. \A f \in h.facts : OwnFact(f, k)
    BY <1>6, <1>9 DEF Inv, OwnFacts, OwnFact, AssertedBy
  <2>. QED  BY <1>6, <1>7, <2>1, <2>2 DEF Inv, OwnFacts
<1>14. Recorded'
  <2>1. ASSUME HoldsLock(k), k.pc \in {"answer", "commit"} PROVE AssertedBy(fact, k)
    BY <1>1, <1>3, <1>5, <1>6, <2>1, KeyTag DEF HoldsLock, AssertedBy
  <2>. QED  BY <1>6, <1>7, <2>1 DEF Inv, Recorded
<1>15. LoggedKeys'
  BY <1>2 DEF Inv, LoggedKeys, LoggedKey
<1>16. RetryIsAnswered'
  BY <1>2, <1>7, <1>8, RetryKept DEF Inv, Ended
<1>. QED
  BY <1>10, <1>11, <1>12, <1>13, <1>14, <1>15, <1>16 DEF Inv

----------------------------------------------------------------------------

\* Every step preserves the invariant.
LEMMA NextInv == Inv /\ [Next]_vars => Inv'
<1>. SUFFICES ASSUME Inv, [Next]_vars PROVE Inv'
  OBVIOUS
<1>1. ASSUME NEW c \in Calls, NEW op \in Inputs, Begin(c, op)  PROVE Inv'
  BY <1>1, BeginQuiet, QuietStep
<1>2. ASSUME NEW c \in Calls, Prior(c)  PROVE Inv'
  BY <1>2, PriorQuiet, QuietStep, TakeLock
<1>3. ASSUME NEW c \in Calls, Hits(c) \/ Exists(c) \/ Upsert(c) \/ Sync(c)  PROVE Inv'
  BY <1>3, HitsQuiet, ExistsQuiet, UpsertQuiet, SyncQuiet, QuietStep
<1>4. ASSUME NEW c \in Calls, NEW x \in Keys, InsertKey(c, x)  PROVE Inv'
  BY <1>4, InsertKeyQuiet, QuietStep
<1>5. ASSUME NEW c \in Calls, Check(c) \/ Move(c) \/ Repoint(c) \/ Drop(c)  PROVE Inv'
  BY <1>5, CheckQuiet, MoveQuiet, RepointQuiet, DropQuiet, QuietStep
<1>6. ASSUME NEW c \in Calls, Retract(c) \/ Link(c) \/ Unlink(c)  PROVE Inv'
  BY <1>6, RetractQuiet, LinkQuiet, UnlinkQuiet, QuietStep
<1>7. ASSUME NEW c \in Calls, InsertFact(c)  PROVE Inv'
  BY <1>7, InsertRefused, InsertKept
<1>8. ASSUME NEW c \in Calls, Commit(c)  PROVE Inv'
  BY <1>8, CommitStep
<1>9. ASSUME NEW c \in Calls, Answer(c) \/ Abort(c)  PROVE Inv'
  BY <1>9, AnswerQuiet, RollbackQuiet, QuietStep DEF Abort
<1>10. ASSUME NEW c \in Calls, Clear(c) \/ ReadLog(c) \/ FoldLog(c)  PROVE Inv'
  BY <1>10, ClearQuiet, ReadLogQuiet, FoldLogQuiet, QuietStep
<1>11. CASE UNCHANGED vars
  <2>1. calls' = calls /\ log' = log
    BY <1>11 DEF vars
  <2>2. CallsPlaced' /\ LockExclusive' /\ NoneBefore'
    BY <2>1 DEF Inv, CallsPlaced, LockExclusive, NoneBefore
  <2>3. OwnFacts' /\ Recorded' /\ RetryIsAnswered'
    BY <2>1 DEF Inv, OwnFacts, Recorded, RetryIsAnswered
  <2>4. LoggedKeys'
    BY <2>1 DEF Inv, LoggedKeys, LoggedKey
  <2>. QED  BY <2>2, <2>3, <2>4 DEF Inv
<1>. QED
  BY <1>1, <1>2, <1>3, <1>4, <1>5, <1>6, <1>7, <1>8, <1>9, <1>10, <1>11 DEF Next

\* Two tries of one assertion, however they overlap, never leave the second with a bare
\* duplicate: under the advisory lock the lookup cannot miss the first (postgres/entities.go
\* AppendEntityFact), for any calls, keys and ids.
THEOREM RetryAnswered == Spec => []RetryIsAnswered
<1>1. Inv => RetryIsAnswered
  BY DEF Inv
<1>. QED
  BY InitInv, NextInv, <1>1, PTL DEF Spec

\* At most one transaction is between the lock and the end for one writer and dedupe key.
THEOREM OneHolder == Spec => []LockExclusive
<1>1. Inv => LockExclusive
  BY DEF Inv
<1>. QED
  BY InitInv, NextInv, <1>1, PTL DEF Spec

----------------------------------------------------------------------------
(* Tables, and what a transaction sees of them. *)

\* The unique indexes, and with the foreign keys all constraints.
Unique(T) ==
  /\ \A x, y \in T.ext : x.key = y.key => x = y
  /\ \A r, q \in T.entities : r.id = q.id => r = q
  /\ \A d, e \in T.edges : d.id = e.id => d = e
Sound(T) == T \in Tables /\ Unique(T) /\ Refers(T)

See(k) == [t \in Names |-> (db[t] \ k.del[t]) \cup k.add[t]]

\* The ends of an edge.
Ends(e) == {e.from, e.to}

\* The locks l cover a change of the tables from S to T: of what is written and deleted, and
\* of what new rows refer to, unless the row they replace did.
Change(A, B) == (A \ B) \cup (B \ A)
CoverChange(l, S, T) ==
  /\ \A r \in Change(S.entities, T.entities) : r.id \in l.write
  /\ \A x \in Change(S.ext, T.ext) : x.key \in l.keys
  /\ \A e \in Change(S.edges, T.edges) : e.id \in l.edges
  /\ \A i \in Live(S) \ Live(T) : i \in l.gone
  /\ \A x \in T.ext \ S.ext : x.entity \in l.refer
  /\ \A e \in T.edges \ S.edges : \A j \in Ends(e) :
       j \in l.refer \/ \E d \in S.edges : d.id = e.id /\ j \in Ends(d)

\* The locks of the transaction k cover what it wrote.
Covered(k) ==
  /\ \A r \in k.del.entities \cup k.add.entities : r.id \in k.locks.write
  /\ \A x \in k.del.ext \cup k.add.ext : x.key \in k.locks.keys
  /\ \A e \in k.del.edges \cup k.add.edges : e.id \in k.locks.edges
  /\ \A i \in Live(db) \ Live(See(k)) : i \in k.locks.gone
  /\ \A x \in k.add.ext : x.entity \in k.locks.refer
  /\ \A e \in k.add.edges : \A j \in Ends(e) :
       j \in k.locks.refer \/ \E d \in db.edges : d.id = e.id /\ j \in Ends(d)

\* Locks that nobody waits for.
Compatible(l, h) ==
  /\ l.write \cap h.write = {}
  /\ l.gone \cap h.refer = {} /\ l.refer \cap h.gone = {}
  /\ l.keys \cap h.keys = {} /\ l.edges \cap h.edges = {}
Apart == \A c, o \in Calls : c # o => Compatible(calls[c].locks, calls[o].locks)

LockSet(l) == l = [a \in DOMAIN NoLocks |-> l[a]]

\* The tables, as committed and as each transaction sees them, are sound, and what a
\* transaction changed of them is under its locks.
RowInv ==
  /\ Sound(db)
  /\ \A c \in Calls : LockSet(calls[c].locks) /\ Sound(See(calls[c])) /\ Covered(calls[c])
  /\ Apart

\* The tables a transaction sees.
LEMMA SeeRows ==
  ASSUME NEW k
  PROVE  /\ See(k).entities = (db.entities \ k.del.entities) \cup k.add.entities
         /\ See(k).ext = (db.ext \ k.del.ext) \cup k.add.ext
         /\ See(k).edges = (db.edges \ k.del.edges) \cup k.add.edges
BY DEF See, Names

\* The two names of what a call sees.
LEMMA SeeIsView ==
  ASSUME NEW c
  PROVE  View(c) = See(calls[c])
BY DEF View, See

\* What the props of a row may be.
RowProps == {JsonNull, JsonArray} \cup Objects

\* What is stored and what is logged of the props of a call or a fact; the two are the same
\* unless null is logged.
LEMMA StoredIs ==
  ASSUME NEW p, p \in {NilProps, JsonNull} \cup Objects
  PROVE  /\ Stored(p) \in RowProps /\ Logged(p) \in {JsonNull} \cup Objects
         /\ Logged(p) # JsonNull => Stored(p) = Logged(p)
<1>. {} \in Objects
  BY DEF Objects
<1>. QED  BY DEF Stored, Logged, RowProps

\* The props of a fact are stored as they are logged.
LEMMA StoredLogged ==
  ASSUME NEW p, p \in {JsonNull} \cup Objects
  PROVE  Stored(p) = p
BY PgStoreAssumption DEF Stored

\* What || makes of the props of a row; of two objects it makes an object.
LEMMA ConcatIs ==
  ASSUME NEW p \in RowProps, NEW q \in RowProps
  PROVE  /\ Concat(p, q) \in RowProps
         /\ p \in Objects /\ q \in Objects => Concat(p, q) = p \cup q /\ Concat(p, q) \in Objects
<1>1. p \notin {JsonNull, JsonArray} => p \in Objects
  BY DEF RowProps
<1>2. q \notin {JsonNull, JsonArray} => q \in Objects
  BY DEF RowProps
<1>3. p \in Objects /\ q \in Objects => p \cup q \in Objects
  BY DEF Objects
<1>4. \A o \in Objects : o \notin {JsonNull, JsonArray}
  BY PgStoreAssumption
<1>5. CASE p \in Objects /\ q \in Objects
  <2>1. {p, q} \cap {JsonNull, JsonArray} = {}
    BY <1>4, <1>5
  <2>. QED  BY <1>3, <1>5, <2>1 DEF Concat, RowProps
<1>6. CASE ~ (p \in Objects /\ q \in Objects)
  <2>1. {p, q} \cap {JsonNull, JsonArray} # {}
    BY <1>1, <1>2, <1>6
  <2>. QED  BY <1>6, <2>1 DEF Concat, RowProps
<1>. QED  BY <1>5, <1>6

\* Three sets of rows make tables.
LEMMA TablesOf ==
  ASSUME NEW T, T = [t \in Names |-> T[t]],
         T.entities \subseteq [id : EntityIds, props : RowProps, by : Nat],
         T.ext \subseteq [entity : EntityIds, key : Keys],
         T.edges \subseteq [id : EdgeIds, from : EntityIds, to : EntityIds]
  PROVE  T \in Tables
BY DEF Tables, RowProps, Names

\* Tables are equal when their rows are.
LEMMA SameTables ==
  ASSUME NEW S, S = [t \in Names |-> S[t]], NEW T, T = [t \in Names |-> T[t]],
         S.entities = T.entities, S.ext = T.ext, S.edges = T.edges
  PROVE  S = T
BY DEF Names

\* Tables are a record of rows.
LEMMA TablesForm ==
  ASSUME NEW T \in Tables
  PROVE  T = [t \in Names |-> T[t]]
BY DEF Tables, Names

\* Locks are taken together.
LEMMA BothLocks ==
  ASSUME NEW l, LockSet(l), NEW m
  PROVE  /\ LockSet(Both(l, m))
         /\ Both(l, m).write = l.write \cup m.write /\ Both(l, m).gone = l.gone \cup m.gone
         /\ Both(l, m).refer = l.refer \cup m.refer /\ Both(l, m).keys = l.keys \cup m.keys
         /\ Both(l, m).edges = l.edges \cup m.edges
<1>1. DOMAIN NoLocks = {"write", "gone", "refer", "keys", "edges"}
  BY DEF NoLocks
<1>. QED  BY <1>1 DEF Both, LockSet

\* The empty database.
LEMMA EmptySound == Sound(Empty) /\ Live(Empty) = {}
<1>1. Empty.entities = {} /\ Empty.ext = {} /\ Empty.edges = {}
  BY DEF Empty, Names
<1>2. Empty \in Tables
  BY DEF Empty, Names, Tables
<1>. QED  BY <1>1, <1>2 DEF Sound, Unique, Refers, Live, Ids

\* A transaction that wrote nothing sees what is committed.
LEMMA SeeNothing ==
  ASSUME NEW k, k.del = Empty, k.add = Empty, db \in Tables
  PROVE  See(k) = db
<1>1. Empty.entities = {} /\ Empty.ext = {} /\ Empty.edges = {}
  BY DEF Empty, Names
<1>2. See(k).entities = db.entities /\ See(k).ext = db.ext /\ See(k).edges = db.edges
  BY <1>1, SeeRows
<1>3. See(k) = [t \in Names |-> See(k)[t]]
  BY DEF See
<1>. QED  BY <1>2, <1>3, SameTables, TablesForm

\* A step that leaves the tables alone, and of its own call keeps what it wrote and locked.
LEMMA KeepRows ==
  ASSUME RowInv, CallsPlaced, NEW c \in Calls, NEW k, calls' = [calls EXCEPT ![c] = k], db' = db,
         k.del = calls[c].del, k.add = calls[c].add, k.locks = calls[c].locks
  PROVE  RowInv'
<1>1. calls'[c] = k /\ \A o \in Calls \ {c} : calls'[o] = calls[o]
  BY DEF CallsPlaced
<1>2. \A o \in Calls : /\ calls'[o].del = calls[o].del /\ calls'[o].add = calls[o].add
                       /\ calls'[o].locks = calls[o].locks
  BY <1>1
<1>3. \A o \in Calls : See(calls[o])' = See(calls[o])
  BY <1>2 DEF See
<1>4. \A o \in Calls : Covered(calls[o])'
  BY <1>2, <1>3 DEF RowInv, Covered
<1>. QED  BY <1>2, <1>3, <1>4 DEF RowInv, Apart

\* A step that ends its call.
LEMMA EndRows ==
  ASSUME RowInv, CallsPlaced, NEW c \in Calls, NEW k, calls' = [calls EXCEPT ![c] = k], db' = db,
         k.del = Empty, k.add = Empty, k.locks = NoLocks
  PROVE  RowInv'
<1>1. calls'[c] = k /\ \A o \in Calls \ {c} : calls'[o] = calls[o]
  BY DEF CallsPlaced
<1>2. \A o \in Calls \ {c} : See(calls[o])' = See(calls[o])
  BY <1>1 DEF See
<1>3. See(k) = db
  BY SeeNothing DEF RowInv, Sound
<1>4. See(calls[c])' = db
  BY <1>1, <1>3 DEF See
<1>5. Empty.entities = {} /\ Empty.ext = {} /\ Empty.edges = {}
  BY DEF Empty, Names
<1>6. Covered(calls[c])'
  BY <1>1, <1>4, <1>5 DEF Covered
<1>7. \A o \in Calls \ {c} : Covered(calls[o])'
  BY <1>1, <1>2 DEF RowInv, Covered
<1>8. LockSet(NoLocks) /\ \A h : Compatible(NoLocks, h) /\ Compatible(h, NoLocks)
  BY DEF LockSet, Compatible, NoLocks
<1>9. Apart'
  BY <1>1, <1>8 DEF RowInv, Apart
<1>10. \A o \in Calls : LockSet(calls[o].locks)' /\ Sound(See(calls[o]))'
  <2>1. Sound(See(calls[c]))'
    BY <1>4 DEF RowInv, Sound, Unique, Refers, Live, Ids
  <2>2. \A o \in Calls \ {c} : Sound(See(calls[o]))'
    BY <1>2 DEF RowInv, Sound, Unique, Refers, Live, Ids
  <2>3. \A o \in Calls : LockSet(calls[o].locks)'
    BY <1>1, <1>8 DEF RowInv, LockSet
  <2>. QED  BY <2>1, <2>2, <2>3
<1>11. Sound(db)'
  BY DEF RowInv, Sound, Unique, Refers, Live, Ids
<1>. QED  BY <1>6, <1>7, <1>9, <1>10, <1>11 DEF RowInv

\* What a transaction sees after a statement, and that its locks still cover what it wrote.
LEMMA WriteRows ==
  ASSUME RowInv, CallsPlaced, NEW c \in Calls, NEW T, Sound(T),
         NEW l, CoverChange(l, View(c), T),
         NEW k, IsCall(k), k.del = calls[c].del, k.add = calls[c].add, k.locks = calls[c].locks,
         Write(c, T, l, k)
  PROVE  RowInv' /\ See(calls[c])' = T
<1> DEFINE old == View(c)
           h == [k EXCEPT
             !.del = [t \in Names |-> @[t] \cup (old[t] \ T[t])],
             !.add = [t \in Names |-> (@[t] \cap T[t]) \cup (T[t] \ old[t])],
             !.locks = Both(@, l)]
<1>1. calls' = [calls EXCEPT ![c] = h] /\ db' = db /\ Free(c, l)
  BY DEF Write, Continue
<1>2. /\ h.del = [t \in Names |-> k.del[t] \cup (old[t] \ T[t])]
      /\ h.add = [t \in Names |-> (k.add[t] \cap T[t]) \cup (T[t] \ old[t])]
      /\ h.locks = Both(k.locks, l)
  BY DEF IsCall, Fields
<1>. HIDE DEF h
<1>3. calls'[c] = h /\ \A o \in Calls \ {c} : calls'[o] = calls[o]
  BY <1>1 DEF CallsPlaced
<1>4. old = See(k) /\ Sound(old) /\ LockSet(k.locks)
  BY SeeIsView DEF See, RowInv
<1>5. /\ old.entities = (db.entities \ k.del.entities) \cup k.add.entities
      /\ old.ext = (db.ext \ k.del.ext) \cup k.add.ext
      /\ old.edges = (db.edges \ k.del.edges) \cup k.add.edges
  BY <1>4, SeeRows
<1>6. /\ h.del.entities = k.del.entities \cup (old.entities \ T.entities)
      /\ h.del.ext = k.del.ext \cup (old.ext \ T.ext)
      /\ h.del.edges = k.del.edges \cup (old.edges \ T.edges)
      /\ h.add.entities = (k.add.entities \cap T.entities) \cup (T.entities \ old.entities)
      /\ h.add.ext = (k.add.ext \cap T.ext) \cup (T.ext \ old.ext)
      /\ h.add.edges = (k.add.edges \cap T.edges) \cup (T.edges \ old.edges)
  BY <1>2 DEF Names
<1>. HIDE DEF old
<1>7. See(h).entities = T.entities /\ See(h).ext = T.ext /\ See(h).edges = T.edges
  <2>1. See(h).entities = T.entities
    BY <1>5, <1>6, SeeRows
  <2>2. See(h).ext = T.ext
    BY <1>5, <1>6, SeeRows
  <2>3. See(h).edges = T.edges
    BY <1>5, <1>6, SeeRows
  <2>. QED  BY <2>1, <2>2, <2>3
<1>8. See(h) = T
  <2>1. See(h) = [t \in Names |-> See(h)[t]]
    BY DEF See
  <2>. QED  BY <1>7, <2>1, SameTables, TablesForm DEF Sound
<1>9. See(calls[c])' = T
  BY <1>1, <1>3, <1>8 DEF See
<1>10. /\ LockSet(h.locks)
       /\ h.locks.write = k.locks.write \cup l.write /\ h.locks.gone = k.locks.gone \cup l.gone
       /\ h.locks.refer = k.locks.refer \cup l.refer /\ h.locks.keys = k.locks.keys \cup l.keys
       /\ h.locks.edges = k.locks.edges \cup l.edges
  BY <1>2, <1>4, BothLocks
<1>11. Covered(k)
  BY <1>4 DEF RowInv, Covered, See
<1>12. CoverChange(l, old, T)
  BY DEF old
<1>13. Covered(h)
  <2>1. \A r \in h.del.entities \cup h.add.entities : r.id \in h.locks.write
    BY <1>6, <1>10, <1>11, <1>12 DEF Covered, CoverChange, Change
  <2>2. \A x \in h.del.ext \cup h.add.ext : x.key \in h.locks.keys
    BY <1>6, <1>10, <1>11, <1>12 DEF Covered, CoverChange, Change
  <2>3. \A e \in h.del.edges \cup h.add.edges : e.id \in h.locks.edges
    BY <1>6, <1>10, <1>11, <1>12 DEF Covered, CoverChange, Change
  <2>4. \A i \in Live(db) \ Live(See(h)) : i \in h.locks.gone
    <3>1. \A i \in Live(db) \ Live(old) : i \in k.locks.gone
      BY <1>4, <1>11 DEF Covered
    <3>2. \A i \in Live(old) \ Live(T) : i \in l.gone
      BY <1>12 DEF CoverChange
    <3>. QED  BY <1>8, <1>10, <3>1, <3>2
  <2>5. \A x \in h.add.ext : x.entity \in h.locks.refer
    BY <1>6, <1>10, <1>11, <1>12 DEF Covered, CoverChange
  <2>6. \A e \in h.add.edges : \A j \in Ends(e) :
          j \in h.locks.refer \/ \E d \in db.edges : d.id = e.id /\ j \in Ends(d)
    <3>. SUFFICES ASSUME NEW e \in h.add.edges, NEW j \in Ends(e), j \notin h.locks.refer
                  PROVE  \E d \in db.edges : d.id = e.id /\ j \in Ends(d)
      OBVIOUS
    <3>1. CASE e \in k.add.edges
      BY <1>10, <1>11, <3>1 DEF Covered
    <3>2. CASE e \in T.edges \ old.edges
      <4>1. PICK d \in old.edges : d.id = e.id /\ j \in Ends(d)
        BY <1>10, <1>12, <3>2 DEF CoverChange
      <4>2. CASE d \in db.edges
        BY <4>1, <4>2
      <4>3. CASE d \in k.add.edges
        BY <1>10, <1>11, <4>1, <4>3 DEF Covered
      <4>. QED  BY <1>5, <4>2, <4>3
    <3>. QED  BY <1>6, <3>1, <3>2
  <2>. QED  BY <2>1, <2>2, <2>3, <2>4, <2>5, <2>6 DEF Covered
<1>14. Covered(calls[c])'
  BY <1>1, <1>3, <1>8, <1>9, <1>13 DEF Covered
<1>15. \A o \in Calls \ {c} : See(calls[o])' = See(calls[o])
  BY <1>1, <1>3 DEF See
<1>16. \A o \in Calls \ {c} : Covered(calls[o])'
  BY <1>1, <1>3, <1>15 DEF RowInv, Covered
<1>17. Apart'
  <2>1. \A o \in Calls \ {c} : Compatible(h.locks, calls[o].locks) /\ Compatible(calls[o].locks, h.locks)
    <3>. SUFFICES ASSUME NEW o \in Calls \ {c}
                  PROVE  Compatible(h.locks, calls[o].locks) /\ Compatible(calls[o].locks, h.locks)
      OBVIOUS
    <3> DEFINE m == calls[o].locks
    <3>1. Compatible(k.locks, m)
      BY DEF RowInv, Apart
    <3>2. Compatible(l, m)
      BY <1>1 DEF Free, Compatible
    <3>. HIDE DEF m
    <3> DEFINE n == h.locks
    <3>3. /\ n.write = k.locks.write \cup l.write /\ n.gone = k.locks.gone \cup l.gone
          /\ n.refer = k.locks.refer \cup l.refer /\ n.keys = k.locks.keys \cup l.keys
          /\ n.edges = k.locks.edges \cup l.edges
      BY <1>10
    <3>. HIDE DEF n
    <3>4. /\ n.write \cap m.write = {} /\ n.keys \cap m.keys = {} /\ n.edges \cap m.edges = {}
      BY <3>1, <3>2, <3>3 DEF Compatible
    <3>5. n.gone \cap m.refer = {} /\ n.refer \cap m.gone = {}
      BY <3>1, <3>2, <3>3 DEF Compatible
    <3>6. Compatible(n, m) /\ Compatible(m, n)
      BY <3>4, <3>5 DEF Compatible
    <3>. QED  BY <3>6 DEF n, m
  <2>. QED  BY <1>3, <2>1 DEF RowInv, Apart
<1>18. \A o \in Calls : Sound(See(calls[o]))'
  <2>1. Sound(See(calls[c]))'
    BY <1>9 DEF Sound, Unique, Refers, Live, Ids
  <2>2. \A o \in Calls \ {c} : Sound(See(calls[o]))'
    BY <1>15 DEF RowInv, Sound, Unique, Refers, Live, Ids
  <2>. QED  BY <2>1, <2>2
<1>19. \A o \in Calls : LockSet(calls[o].locks)'
  BY <1>3, <1>10 DEF RowInv, LockSet
<1>20. Sound(db)'
  BY <1>1 DEF RowInv, Sound, Unique, Refers, Live, Ids
<1>. QED  BY <1>9, <1>14, <1>16, <1>17, <1>18, <1>19, <1>20 DEF RowInv

\* A commit keeps the tables sound for every transaction that goes on: none of them is about
\* to change a row, to delete what the committed rows refer to, or to refer to what it deleted.
LEMMA CommitRows ==
  ASSUME RowInv, CallsPlaced, NEW c \in Calls, Commit(c)
  PROVE  RowInv' /\ \A o \in Calls \ {c} : Live(See(calls[o])) \cap Live(View(c)) \subseteq Live(See(calls[o]))'
<1> DEFINE T == View(c)
           k == calls[c]
<1>1. /\ db' = T /\ calls'[c] = [Idle EXCEPT !.pc = "done"]
      /\ \A o \in Calls \ {c} : calls'[o] = calls[o]
  BY DEF Commit, CallsPlaced
<1>2. Sound(T) /\ Covered(k) /\ LockSet(k.locks) /\ T = See(k)
  BY SeeIsView DEF RowInv
<1>3. /\ T.entities = (db.entities \ k.del.entities) \cup k.add.entities
      /\ T.ext = (db.ext \ k.del.ext) \cup k.add.ext
      /\ T.edges = (db.edges \ k.del.edges) \cup k.add.edges
  BY <1>2, SeeRows
<1>. HIDE DEF T
<1>4. ASSUME NEW o \in Calls \ {c}
      PROVE  /\ Sound(See(calls[o]))' /\ Covered(calls[o])'
             /\ Live(See(calls[o])) \cap Live(T) \subseteq Live(See(calls[o]))'
  <2> DEFINE h == calls[o]
             S == See(h)
             N == [t \in Names |-> (T[t] \ h.del[t]) \cup h.add[t]]
  <2>1. See(calls[o])' = N
    BY <1>1 DEF See
  <2>2. /\ S.entities = (db.entities \ h.del.entities) \cup h.add.entities
        /\ S.ext = (db.ext \ h.del.ext) \cup h.add.ext
        /\ S.edges = (db.edges \ h.del.edges) \cup h.add.edges
    BY SeeRows
  <2>3. /\ N.entities = (T.entities \ h.del.entities) \cup h.add.entities
        /\ N.ext = (T.ext \ h.del.ext) \cup h.add.ext
        /\ N.edges = (T.edges \ h.del.edges) \cup h.add.edges
    BY DEF Names
  <2>4. N = [t \in Names |-> N[t]]
    OBVIOUS
  <2>5. Sound(S) /\ Covered(h) /\ Compatible(k.locks, h.locks)
    BY DEF RowInv, Apart
  <2>6. Sound(db)
    BY DEF RowInv
  <2>. HIDE DEF N, S
  <2>. HIDE DEF h, k
  <2>7. \A r \in k.del.entities \cup k.add.entities, q \in h.del.entities \cup h.add.entities : r.id # q.id
    BY <1>2, <2>5 DEF Covered, Compatible
  <2>8. \A x \in k.del.ext \cup k.add.ext, y \in h.del.ext \cup h.add.ext : x.key # y.key
    BY <1>2, <2>5 DEF Covered, Compatible
  <2>9. \A d \in k.del.edges \cup k.add.edges, e \in h.del.edges \cup h.add.edges : d.id # e.id
    BY <1>2, <2>5 DEF Covered, Compatible
  \* An entity both see is one they both will see.
  <2>10. Live(S) \cap Live(T) \subseteq Live(N)
    <3>. SUFFICES ASSUME NEW i \in Live(S), i \in Live(T) PROVE i \in Live(N)
      OBVIOUS
    <3>1. PICK r \in S.entities : r.id = i
      BY DEF Live, Ids
    <3>2. PICK q \in T.entities : q.id = i
      BY DEF Live, Ids
    <3>3. CASE r \in h.add.entities
      BY <2>3, <3>1, <3>3 DEF Live, Ids
    <3>4. CASE r \in db.entities \ h.del.entities
      <4>1. CASE r \in T.entities
        BY <2>3, <3>1, <3>4, <4>1 DEF Live, Ids
      <4>2. CASE r \notin T.entities
        <5>1. r \in k.del.entities
          BY <1>3, <3>4, <4>2
        <5>2. q \notin h.del.entities
          BY <2>7, <3>1, <3>2, <5>1
        <5>. QED  BY <2>3, <3>2, <5>2 DEF Live, Ids
      <4>. QED  BY <4>1, <4>2
    <3>. QED  BY <2>2, <3>1, <3>3, <3>4
  <2>11. \A i \in Live(T) : i \notin h.locks.gone => i \in Live(N)
    <3>. SUFFICES ASSUME NEW i \in Live(T), i \notin h.locks.gone PROVE i \in Live(N)
      OBVIOUS
    <3>1. PICK q \in T.entities : q.id = i
      BY DEF Live, Ids
    <3>2. CASE q \in h.del.entities
      <4>1. q \in db.entities
        BY <1>3, <2>7, <3>1, <3>2
      <4>2. i \in Live(db)
        BY <3>1, <4>1 DEF Live, Ids
      <4>3. i \in Live(S)
        BY <2>5, <4>2 DEF Covered, S
      <4>. QED  BY <2>10, <4>3
    <3>3. CASE q \notin h.del.entities
      BY <2>3, <3>1, <3>3 DEF Live, Ids
    <3>. QED  BY <3>2, <3>3
  <2>12. \A i \in Live(S) : i \notin k.locks.gone => i \in Live(N)
    <3>. SUFFICES ASSUME NEW i \in Live(S), i \notin k.locks.gone PROVE i \in Live(N)
      OBVIOUS
    <3>1. PICK r \in S.entities : r.id = i
      BY DEF Live, Ids
    <3>2. CASE r \in h.add.entities
      BY <2>3, <3>1, <3>2 DEF Live, Ids
    <3>3. CASE r \in db.entities
      <4>1. i \in Live(db)
        BY <3>1, <3>3 DEF Live, Ids
      <4>2. i \in Live(T)
        BY <1>2, <4>1 DEF Covered
      <4>. QED  BY <2>10, <4>2
    <3>. QED  BY <2>2, <3>1, <3>2, <3>3
  <2>13. Unique(N)
    <3>1. \A x, y \in N.ext : x.key = y.key => x = y
      BY <1>2, <1>3, <2>2, <2>3, <2>5, <2>8 DEF Sound, Unique
    <3>2. \A r, q \in N.entities : r.id = q.id => r = q
      BY <1>2, <1>3, <2>2, <2>3, <2>5, <2>7 DEF Sound, Unique
    <3>3. \A d, e \in N.edges : d.id = e.id => d = e
      BY <1>2, <1>3, <2>2, <2>3, <2>5, <2>9 DEF Sound, Unique
    <3>. QED  BY <3>1, <3>2, <3>3 DEF Unique
  <2>14. N \in Tables
    <3>1. /\ S.entities \subseteq [id : EntityIds, props : RowProps, by : Nat]
          /\ S.ext \subseteq [entity : EntityIds, key : Keys]
          /\ S.edges \subseteq [id : EdgeIds, from : EntityIds, to : EntityIds]
      BY <2>5 DEF Sound, Tables, RowProps
    <3>2. /\ T.entities \subseteq [id : EntityIds, props : RowProps, by : Nat]
          /\ T.ext \subseteq [entity : EntityIds, key : Keys]
          /\ T.edges \subseteq [id : EdgeIds, from : EntityIds, to : EntityIds]
      BY <1>2 DEF Sound, Tables, RowProps
    <3>3. N.entities \subseteq T.entities \cup S.entities /\ N.ext \subseteq T.ext \cup S.ext
            /\ N.edges \subseteq T.edges \cup S.edges
      BY <2>2, <2>3
    <3>4. /\ N.entities \subseteq [id : EntityIds, props : RowProps, by : Nat]
          /\ N.ext \subseteq [entity : EntityIds, key : Keys]
          /\ N.edges \subseteq [id : EdgeIds, from : EntityIds, to : EntityIds]
      BY <3>1, <3>2, <3>3
    <3>. QED  BY <2>4, <3>4, TablesOf
  <2>15. Refers(N)
    <3>1. ASSUME NEW x \in N.ext PROVE x.entity \in Live(N)
      <4>1. CASE x \in h.add.ext
        <5>1. x.entity \in Live(S) /\ x.entity \notin k.locks.gone
          BY <2>2, <2>5, <4>1 DEF Sound, Refers, Covered, Compatible
        <5>. QED  BY <2>12, <5>1
      <4>2. CASE x \in T.ext \ h.del.ext
        <5>1. x.entity \in Live(T)
          BY <1>2, <4>2 DEF Sound, Refers
        <5>2. CASE x \in k.add.ext
          <6>1. x.entity \notin h.locks.gone
            BY <1>2, <2>5, <5>2 DEF Covered, Compatible
          <6>. QED  BY <2>11, <5>1, <6>1
        <5>3. CASE x \in db.ext
          <6>1. x.entity \in Live(S)
            BY <2>2, <2>5, <4>2, <5>3 DEF Sound, Refers
          <6>. QED  BY <2>10, <5>1, <6>1
        <5>. QED  BY <1>3, <4>2, <5>2, <5>3
      <4>. QED  BY <2>3, <4>1, <4>2
    <3>2. ASSUME NEW e \in N.edges, NEW j \in Ends(e) PROVE j \in Live(N)
      <4>1. CASE e \in h.add.edges
        <5>1. j \in Live(S)
          BY <2>2, <2>5, <3>2, <4>1 DEF Sound, Refers, Ends
        <5>2. CASE j \in h.locks.refer
          <6>1. j \notin k.locks.gone
            BY <2>5, <5>2 DEF Compatible
          <6>. QED  BY <2>12, <5>1, <6>1
        <5>3. CASE \E d \in db.edges : d.id = e.id /\ j \in Ends(d)
          <6>1. PICK d \in db.edges : d.id = e.id /\ j \in Ends(d)
            BY <5>3
          <6>2. d \in T.edges
            BY <1>3, <2>9, <4>1, <6>1
          <6>3. j \in Live(T)
            BY <1>2, <6>1, <6>2 DEF Sound, Refers, Ends
          <6>. QED  BY <2>10, <5>1, <6>3
        <5>. QED  BY <2>5, <4>1, <5>2, <5>3 DEF Covered
      <4>2. CASE e \in T.edges \ h.del.edges
        <5>1. j \in Live(T)
          BY <1>2, <3>2, <4>2 DEF Sound, Refers, Ends
        <5>2. CASE e \in db.edges
          <6>1. j \in Live(S)
            BY <2>2, <2>5, <3>2, <4>2, <5>2 DEF Sound, Refers, Ends
          <6>. QED  BY <2>10, <5>1, <6>1
        <5>3. CASE e \in k.add.edges /\ j \in k.locks.refer
          <6>1. j \notin h.locks.gone
            BY <2>5, <5>3 DEF Compatible
          <6>. QED  BY <2>11, <5>1, <6>1
        <5>4. CASE e \in k.add.edges /\ \E d \in db.edges : d.id = e.id /\ j \in Ends(d)
          <6>1. PICK d \in db.edges : d.id = e.id /\ j \in Ends(d)
            BY <5>4
          <6>2. d \in S.edges
            BY <2>2, <2>9, <5>4, <6>1
          <6>3. j \in Live(S)
            BY <2>5, <6>1, <6>2 DEF Sound, Refers, Ends
          <6>. QED  BY <2>10, <5>1, <6>3
        <5>. QED  BY <1>2, <1>3, <3>2, <4>2, <5>2, <5>3, <5>4 DEF Covered
      <4>. QED  BY <2>3, <4>1, <4>2
    <3>3. \A e \in N.edges : {e.from, e.to} \subseteq Live(N)
      BY <3>2 DEF Ends
    <3>. QED  BY <3>1, <3>3 DEF Refers
  <2>16. Sound(N)
    BY <2>13, <2>14, <2>15 DEF Sound
  <2>17. Sound(See(calls[o]))'
    BY <2>1, <2>16 DEF Sound, Unique, Refers, Live, Ids
  <2>18. \A i \in Live(T) \ Live(N) : i \in h.locks.gone
    BY <2>11
  <2>19. \A e \in h.add.edges : \A j \in Ends(e) :
           j \in h.locks.refer \/ \E d \in T.edges : d.id = e.id /\ j \in Ends(d)
    <3>. SUFFICES ASSUME NEW e \in h.add.edges, NEW j \in Ends(e), j \notin h.locks.refer
                  PROVE  \E d \in T.edges : d.id = e.id /\ j \in Ends(d)
      OBVIOUS
    <3>1. PICK d \in db.edges : d.id = e.id /\ j \in Ends(d)
      BY <2>5 DEF Covered
    <3>2. d \in T.edges
      BY <1>3, <2>9, <3>1
    <3>. QED  BY <3>1, <3>2
  <2>20. Covered(calls[o])'
    <3>1. calls'[o] = h /\ db' = T /\ See(calls[o])' = N
      BY <1>1, <2>1 DEF h
    <3>2. Live(db)' = Live(T) /\ Live(See(calls[o]))' = Live(N)
      BY <3>1 DEF Live, Ids
    <3>3. /\ \A r \in h.del.entities \cup h.add.entities : r.id \in h.locks.write
          /\ \A x \in h.del.ext \cup h.add.ext : x.key \in h.locks.keys
          /\ \A e \in h.del.edges \cup h.add.edges : e.id \in h.locks.edges
          /\ \A x \in h.add.ext : x.entity \in h.locks.refer
      BY <2>5 DEF Covered
    <3>. QED  BY <2>18, <2>19, <3>1, <3>2, <3>3 DEF Covered
  <2>21. Live(See(calls[o]))' = Live(N)
    BY <2>1 DEF Live, Ids
  <2>. QED  BY <2>10, <2>17, <2>20, <2>21 DEF S, h
<1>5. /\ calls'[c].del = Empty /\ calls'[c].add = Empty /\ calls'[c].locks = NoLocks
  BY <1>1 DEF Idle
<1>6. See(calls[c])' = T
  <2> DEFINE e == calls'[c]
  <2>1. Empty.entities = {} /\ Empty.ext = {} /\ Empty.edges = {}
    BY DEF Empty, Names
  <2>2. See(calls[c])' = [t \in Names |-> (T[t] \ e.del[t]) \cup e.add[t]]
    BY <1>1 DEF See
  <2>3. [t \in Names |-> (T[t] \ e.del[t]) \cup e.add[t]] = [t \in Names |-> T[t]]
    BY <1>5 DEF Empty
  <2>. QED  BY <1>2, <2>2, <2>3, TablesForm DEF Sound
<1>7. Sound(See(calls[c]))' /\ Sound(db)'
  BY <1>1, <1>2, <1>6 DEF Sound, Unique, Refers, Live, Ids
<1>8. Empty.entities = {} /\ Empty.ext = {} /\ Empty.edges = {}
  BY DEF Empty, Names
<1>9. Covered(calls[c])'
  BY <1>1, <1>5, <1>6, <1>8 DEF Covered
<1>10. LockSet(NoLocks) /\ \A h : Compatible(NoLocks, h) /\ Compatible(h, NoLocks)
  BY DEF LockSet, Compatible, NoLocks
<1>11. Apart'
  BY <1>1, <1>5, <1>10 DEF RowInv, Apart
<1>12. \A o \in Calls : LockSet(calls[o].locks)'
  <2>1. LockSet(calls[c].locks)'
    BY <1>5, <1>10 DEF LockSet
  <2>2. \A o \in Calls \ {c} : LockSet(calls[o].locks)'
    BY <1>1 DEF RowInv, LockSet
  <2>. QED  BY <2>1, <2>2
<1>13. RowInv'
  BY <1>4, <1>7, <1>9, <1>11, <1>12 DEF RowInv
<1>. QED  BY <1>4, <1>13 DEF T

----------------------------------------------------------------------------
(* Calls, their facts and the log. *)

Subjects(F) == {f.subject : f \in F}
SameFactKey(f, g) == f.writer = g.writer /\ f.key = g.key

\* What a rebuild reads of a fact.
FactTyped(f) ==
  /\ f.kind \in {"assert", "edge", "merge", "retract", "unlink"}
  /\ f.kind \in {"assert", "merge", "retract"} => f.subject \in EntityIds
  /\ f.kind \in {"edge", "unlink"} => f.subject \in EdgeIds
  /\ f.kind = "assert" => f.keys \subseteq Keys /\ f.props \in {JsonNull} \cup Objects
  /\ f.kind = "merge" => f.keep \in EntityIds
  /\ f.kind = "edge" => f.ends[1] \in EntityIds /\ f.ends[2] \in EntityIds

\* A call and its local variables, at each place.
CallTyped(k) ==
  /\ k.tx \in Nat /\ k.drops \in SUBSET EntityIds /\ k.todo \in SUBSET Keys
  /\ k.pc \notin Ended => k.op \in Input
  /\ k.pc \in {"move", "repoint", "drop", "mergefact"} => k.drops # {}
  /\ k.pc \in {"exists", "upsert", "keys", "sync", "move", "repoint", "drop", "mergefact"}
       => k.id \in EntityIds
  /\ k.pc \in {"exists", "upsert", "keys", "sync"} => k.op.kind = "assert"
  /\ k.pc = "delete" => k.op.kind = "retract"
  /\ k.pc = "unlink" => k.op.kind = "unlink"
  /\ k.pc = "link" => k.op.kind = "edge"
  /\ k.pc = "fact" => \/ k.op.kind \in {"assert", "retract"} /\ k.id \in EntityIds
                      \/ k.op.kind \in {"edge", "unlink"} /\ k.id \in EdgeIds
  /\ \A f \in k.facts : FactTyped(f)
  /\ k.pc \in {"answer", "commit"} /\ k.op.kind = "edge" => k.id \in Subjects(k.facts)

\* A transaction that has written nothing, and nothing that it could hold.
Untouched(k) == k.del = Empty /\ k.add = Empty /\ k.locks = NoLocks /\ k.facts = {}
Early(k) == k.pc \in Ended \cup {"prior", "link"} => Untouched(k)

\* The keys of the facts a transaction wrote are none it will use again.
Spent(k) ==
  /\ k.pc = "hits" => k.facts = {}
  /\ k.pc \notin {"answer", "commit"} =>
       /\ k.op.kind # "assert" => k.facts = {}
       /\ \A f \in k.facts : f.key[1] = "mergeof" /\ f.key[3] \notin k.drops

CallOK(k) == CallTyped(k) /\ Early(k) /\ Spent(k)

\* The log names the edges there are, or the transaction is about to log the one it made.
KnownEdges(k) == Subjects(log) \cup (IF k.op.kind = "edge" THEN {k.id} ELSE {})

\* A writer uses a dedupe key once, in the log and in the transactions that are open.
KeysOnce ==
  /\ \A f, g \in log : SameFactKey(f, g) => f = g
  /\ \A c \in Calls : \A f \in calls[c].facts :
       /\ f.writer = calls[c].op.writer
       /\ \A g \in log : ~ SameFactKey(f, g)
       /\ \A o \in Calls : \A g \in calls[o].facts : SameFactKey(f, g) => c = o /\ f = g

\* What holds of the calls, their facts and the log.
CallInv ==
  /\ begun \in Nat /\ seq \in Nat
  /\ \A f \in log : FactTyped(f)
  /\ \A c \in Calls : CallOK(calls[c]) /\ calls[c].read \subseteq log
  /\ Ids(db.edges) \subseteq Subjects(log)
  /\ \A c \in Calls : Ids(See(calls[c]).edges) \subseteq KnownEdges(calls[c])
  /\ KeysOnce

\* The constraints, the calls and what is known of both.
PgInv == Inv /\ RowInv /\ CallInv

\* Of a non-empty set of naturals one is least.
LEMMA LeastOf ==
  ASSUME NEW S \in SUBSET Nat, S # {}
  PROVE  \E i \in S : \A j \in S : i <= j
<1>1. \E i \in S : \A j \in S : <<j, i>> \notin OpToRel(<, Nat)
  BY WFMin, NatLessThanWellFounded
<1>2. \A i, j \in Nat : <<j, i>> \notin OpToRel(<, Nat) => i <= j
  BY DEF OpToRel
<1>. QED  BY <1>1, <1>2

\* The next node to be dropped is one of them.
LEMMA DroppedIn ==
  ASSUME NEW c \in Calls, CallTyped(calls[c]), calls[c].drops # {}
  PROVE  Dropped(c) \in calls[c].drops /\ Dropped(c) \in EntityIds
<1>1. calls[c].drops \in SUBSET Nat
  BY PgStoreAssumption DEF CallTyped
<1>2. \E i \in calls[c].drops : \A j \in calls[c].drops : i <= j
  BY <1>1, LeastOf
<1>. QED  BY <1>2 DEF Dropped, CallTyped

\* A transaction goes on, having written rows or not.
LEMMA Onward ==
  ASSUME PgInv, Inv', NEW c \in Calls, NEW k, IsCall(k), CallTyped(k), Spent(k),
         k.pc \notin Ended \cup {"prior", "link"},
         k.op = calls[c].op, k.facts = calls[c].facts, k.read \subseteq log,
         k.del = calls[c].del, k.add = calls[c].add, k.locks = calls[c].locks,
         \/ Continue(c, k) /\ (k.op.kind = "edge" => k.id = calls[c].id)
         \/ \E T, l : /\ Sound(T) /\ CoverChange(l, View(c), T)
                      /\ Ids(T.edges) \subseteq KnownEdges(k)
                      /\ Write(c, T, l, k)
  PROVE  PgInv'
<1>0. CallsPlaced
  BY DEF PgInv, Inv
<1>1. \E h : /\ calls' = [calls EXCEPT ![c] = h]
             /\ h.pc = k.pc /\ h.op = k.op /\ h.tx = k.tx /\ h.id = k.id /\ h.todo = k.todo
             /\ h.drops = k.drops /\ h.facts = k.facts /\ h.read = k.read
  <2>1. CASE Continue(c, k)
    BY <2>1 DEF Continue
  <2>2. ASSUME NEW T, NEW l, Write(c, T, l, k)
        PROVE  \E h : /\ calls' = [calls EXCEPT ![c] = h]
                      /\ h.pc = k.pc /\ h.op = k.op /\ h.tx = k.tx /\ h.id = k.id /\ h.todo = k.todo
                      /\ h.drops = k.drops /\ h.facts = k.facts /\ h.read = k.read
    <3>. DEFINE h == [k EXCEPT
           !.del = [t \in Names |-> @[t] \cup (View(c)[t] \ T[t])],
           !.add = [t \in Names |-> (@[t] \cap T[t]) \cup (T[t] \ View(c)[t])],
           !.locks = Both(@, l)]
    <3>1. calls' = [calls EXCEPT ![c] = h]
      BY <2>2 DEF Write, Continue
    <3>2. /\ h.pc = k.pc /\ h.op = k.op /\ h.tx = k.tx /\ h.id = k.id /\ h.todo = k.todo
          /\ h.drops = k.drops /\ h.facts = k.facts /\ h.read = k.read
      BY DEF IsCall, Fields
    <3>. HIDE DEF h
    <3>. QED  BY <3>1, <3>2
  <2>. QED  BY <2>1, <2>2
<1>2. PICK h : /\ calls' = [calls EXCEPT ![c] = h]
               /\ h.pc = k.pc /\ h.op = k.op /\ h.tx = k.tx /\ h.id = k.id /\ h.todo = k.todo
               /\ h.drops = k.drops /\ h.facts = k.facts /\ h.read = k.read
  BY <1>1
<1>3. calls'[c] = h /\ \A o \in Calls \ {c} : calls'[o] = calls[o]
  BY <1>0, <1>2 DEF CallsPlaced
<1>4. log' = log /\ db' = db /\ begun' = begun /\ seq' = seq
  BY DEF Write, Continue
<1>5. RowInv' /\ Ids(See(calls[c]).edges)' \subseteq KnownEdges(k)
  <2>1. CASE Continue(c, k) /\ (k.op.kind = "edge" => k.id = calls[c].id)
    <3>1. RowInv'
      BY <1>0, <2>1, KeepRows DEF Continue, PgInv
    <3>2. calls'[c] = k /\ db' = db
      BY <1>0, <2>1 DEF Continue, CallsPlaced
    <3>3. See(calls[c])' = See(calls[c])
      BY <3>2 DEF See
    <3>4. Ids(See(calls[c]).edges) \subseteq KnownEdges(calls[c])
      BY DEF PgInv, CallInv
    <3>5. KnownEdges(calls[c]) = KnownEdges(k)
      BY <2>1 DEF KnownEdges
    <3>6. Ids(See(calls[c]).edges)' = Ids(See(calls[c]).edges)
      BY <3>3 DEF Ids
    <3>. QED  BY <3>1, <3>4, <3>5, <3>6
  <2>2. ASSUME NEW T, NEW l, Sound(T), CoverChange(l, View(c), T), Ids(T.edges) \subseteq KnownEdges(k),
               Write(c, T, l, k)
        PROVE  RowInv' /\ Ids(See(calls[c]).edges)' \subseteq KnownEdges(k)
    <3>1. RowInv' /\ See(calls[c])' = T
      BY <1>0, <2>2, WriteRows DEF PgInv
    <3>2. Ids(See(calls[c]).edges)' = Ids(T.edges)
      BY <3>1 DEF Ids
    <3>. QED  BY <2>2, <3>1, <3>2
  <2>. QED  BY <2>1, <2>2
<1>6. CallOK(h)
  <2>1. CallTyped(h)
    BY <1>2 DEF CallTyped
  <2>2. Early(h)
    BY <1>2 DEF Early
  <2>3. Spent(h)
    BY <1>2 DEF Spent
  <2>. QED  BY <2>1, <2>2, <2>3 DEF CallOK
<1>7. \A o \in Calls : CallOK(calls[o])' /\ calls'[o].read \subseteq log'
  <2>1. CallOK(calls[c])' /\ calls'[c].read \subseteq log'
    BY <1>2, <1>3, <1>4, <1>6 DEF CallOK, CallTyped, Early, Spent, Untouched, FactTyped, Subjects
  <2>2. \A o \in Calls \ {c} : CallOK(calls[o])' /\ calls'[o].read \subseteq log'
    BY <1>3, <1>4 DEF PgInv, CallInv, CallOK, CallTyped, Early, Spent, Untouched, FactTyped, Subjects
  <2>. QED  BY <2>1, <2>2
<1>8. Ids(db.edges)' \subseteq Subjects(log)' /\ \A f \in log' : FactTyped(f)'
  BY <1>4 DEF PgInv, CallInv, Ids, Subjects, FactTyped
<1>9. \A o \in Calls : Ids(See(calls[o]).edges)' \subseteq KnownEdges(calls[o])'
  <2>1. Ids(See(calls[c]).edges)' \subseteq KnownEdges(calls[c])'
    BY <1>2, <1>3, <1>4, <1>5 DEF KnownEdges, Subjects
  <2>2. \A o \in Calls \ {c} : Ids(See(calls[o]).edges)' = Ids(See(calls[o]).edges)
    BY <1>3, <1>4 DEF See, Ids
  <2>3. \A o \in Calls \ {c} : KnownEdges(calls[o])' = KnownEdges(calls[o])
    BY <1>3, <1>4 DEF KnownEdges, Subjects
  <2>. QED  BY <2>1, <2>2, <2>3 DEF PgInv, CallInv
<1>10. KeysOnce'
  <2>1. \A o \in Calls : calls'[o].facts = calls[o].facts /\ calls'[o].op = calls[o].op
    BY <1>2, <1>3
  <2>. QED  BY <1>4, <2>1 DEF PgInv, CallInv, KeysOnce, SameFactKey
<1>11. CallInv'
  BY <1>4, <1>7, <1>8, <1>9, <1>10 DEF PgInv, CallInv
<1>. QED  BY <1>5, <1>11 DEF PgInv

\* A call begins or ends.
LEMMA Fresh ==
  ASSUME PgInv, Inv', NEW c \in Calls, NEW k, calls' = [calls EXCEPT ![c] = k],
         db' = db, log' = log, begun' \in Nat, seq' \in Nat, CallTyped(k), Untouched(k), k.read \subseteq log
  PROVE  PgInv'
<1>0. CallsPlaced
  BY DEF PgInv, Inv
<1>1. calls'[c] = k /\ \A o \in Calls \ {c} : calls'[o] = calls[o]
  BY <1>0 DEF CallsPlaced
<1>2. RowInv'
  BY <1>0, EndRows DEF PgInv, Untouched
<1>3. CallOK(k)
  BY DEF CallOK, Early, Spent, Untouched
<1>4. \A o \in Calls : CallOK(calls[o])' /\ calls'[o].read \subseteq log'
  <2>1. CallOK(calls[c])' /\ calls'[c].read \subseteq log'
    BY <1>1, <1>3 DEF CallOK, CallTyped, Early, Spent, Untouched, FactTyped, Subjects
  <2>2. \A o \in Calls \ {c} : CallOK(calls[o])' /\ calls'[o].read \subseteq log'
    BY <1>1 DEF PgInv, CallInv, CallOK, CallTyped, Early, Spent, Untouched, FactTyped, Subjects
  <2>. QED  BY <2>1, <2>2
<1>5. Ids(db.edges)' \subseteq Subjects(log)' /\ \A f \in log' : FactTyped(f)'
  BY DEF PgInv, CallInv, Ids, Subjects, FactTyped
<1>6. \A o \in Calls : Ids(See(calls[o]).edges)' \subseteq KnownEdges(calls[o])'
  <2>1. See(k) = db
    BY SeeNothing DEF PgInv, RowInv, Sound, Untouched
  <2>2. See(calls[c])' = db
    BY <1>1, <2>1 DEF See
  <2>3. Ids(See(calls[c]).edges)' \subseteq KnownEdges(calls[c])'
    BY <2>2 DEF PgInv, CallInv, KnownEdges, Ids, Subjects
  <2>4. \A o \in Calls \ {c} : Ids(See(calls[o]).edges)' \subseteq KnownEdges(calls[o])'
    <3>. SUFFICES ASSUME NEW o \in Calls \ {c}
                  PROVE  Ids(See(calls[o]).edges)' \subseteq KnownEdges(calls[o])'
      OBVIOUS
    <3>1. calls'[o] = calls[o]
      BY <1>1
    <3>2. Ids(See(calls[o]).edges)' = Ids(See(calls[o]).edges)
      BY <3>1 DEF See, Ids
    <3>3. KnownEdges(calls[o])' = KnownEdges(calls[o])
      BY <3>1 DEF KnownEdges, Subjects
    <3>4. Ids(See(calls[o]).edges) \subseteq KnownEdges(calls[o])
      BY DEF PgInv, CallInv
    <3>. QED  BY <3>2, <3>3, <3>4
  <2>. QED  BY <2>3, <2>4
<1>7. KeysOnce'
  <2>1. calls'[c].facts = {}
    BY <1>1 DEF Untouched
  <2>. QED  BY <1>1, <2>1 DEF PgInv, CallInv, KeysOnce, SameFactKey
<1>8. CallInv'
  BY <1>4, <1>5, <1>6, <1>7 DEF CallInv
<1>. QED  BY <1>2, <1>8 DEF PgInv

\* A call that is rolled back.
LEMMA RollbackStep ==
  ASSUME PgInv, Inv', NEW c \in Calls, NEW how \in Ended, Rollback(c, how)
  PROVE  PgInv'
<1>. DEFINE k == [Idle EXCEPT !.pc = how]
<1>1. calls' = [calls EXCEPT ![c] = k] /\ db' = db /\ log' = log /\ begun' \in Nat /\ seq' \in Nat
  BY DEF Rollback, Continue, PgInv, CallInv
<1>2. CallTyped(k) /\ Untouched(k) /\ k.read = {}
  BY DEF CallTyped, Untouched, Idle, Ended
<1>. HIDE DEF k
<1>. QED  BY <1>1, <1>2, Fresh

----------------------------------------------------------------------------
(* The steps that write no row. *)

\* What a call leaves as it is when it goes on.
Follows(k, h) == /\ IsCall(k) /\ k.op = h.op /\ k.facts = h.facts /\ k.tx = h.tx
                 /\ k.del = h.del /\ k.add = h.add /\ k.locks = h.locks

\* What is known of a call.
LEMMA CallOf ==
  ASSUME PgInv, NEW c \in Calls
  PROVE  /\ IsCall(calls[c]) /\ Placed(calls[c]) /\ CallTyped(calls[c]) /\ Early(calls[c])
         /\ Spent(calls[c]) /\ calls[c].read \subseteq log
         /\ Ids(See(calls[c]).edges) \subseteq KnownEdges(calls[c])
         /\ View(c) = See(calls[c]) /\ Sound(View(c))
BY SeeIsView DEF PgInv, Inv, CallsPlaced, CallInv, CallOK, RowInv

\* In particular, that it is one.
LEMMA CallIs ==
  ASSUME PgInv, NEW c \in Calls
  PROVE  IsCall(calls[c])
BY CallOf

\* A call begins, having read at most its row.
LEMMA BeginSound ==
  ASSUME PgInv, Inv', NEW c \in Calls, NEW op \in Inputs, Begin(c, op)
  PROVE  PgInv'
<1>. DEFINE k == [Idle EXCEPT !.pc = First[op.kind], !.op = op, !.tx = begun + 1,
                  !.seen = IF op.kind = "retract" THEN InsertedBy(db, op.id) ELSE 0]
<1>1. /\ calls' = [calls EXCEPT ![c] = k] /\ log' = log /\ db' = db
      /\ begun' \in Nat /\ seq' \in Nat
  BY DEF Begin, PgInv, CallInv
<1>2. op \in Input /\ op.kind \in Kinds \ {"none"}
  BY PgStoreAssumption DEF Input, Kinds
<1>3. /\ k.op = op /\ k.facts = {} /\ k.pc = First[op.kind] /\ k.tx \in Nat /\ k.drops = {} /\ k.todo = {}
      /\ k.del = Empty /\ k.add = Empty /\ k.locks = NoLocks /\ k.read = {}
  BY DEF Idle, PgInv, CallInv
<1>. HIDE DEF k
<1>4. First[op.kind] = CASE op.kind = "assert" -> "prior" [] op.kind = "edge" -> "prior"
                         [] op.kind = "merge" -> "check" [] op.kind = "retract" -> "delete"
                         [] op.kind = "unlink" -> "unlink" [] op.kind = "rebuild" -> "clear"
  BY <1>2 DEF First, Kinds
<1>5. CallTyped(k)
  BY <1>2, <1>3, <1>4 DEF CallTyped, Kinds, Ended
<1>6. Untouched(k)
  BY <1>3 DEF Untouched
<1>. QED  BY <1>1, <1>3, <1>5, <1>6, Fresh

\* The lookup of a prior assertion.
LEMMA PriorSound ==
  ASSUME PgInv, Inv', NEW c \in Calls, Prior(c)
  PROVE  PgInv'
<1>0. calls[c].pc = "prior" /\ calls[c].op.kind \in {"assert", "edge"} /\ Untouched(calls[c])
  BY CallOf DEF Prior, Placed, Early
<1>1. CASE PriorAssertions(c) # {}
  <2>. DEFINE i == (CHOOSE f \in PriorAssertions(c) : TRUE).subject
  <2>1. PICK p \in {"duplicate", "notfound"} :
           Continue(c, [Idle EXCEPT !.op = calls[c].op, !.id = i, !.pc = p])
    BY <1>1 DEF Prior, LookUp
  <2>. HIDE DEF i
  <2>. DEFINE k == [Idle EXCEPT !.op = calls[c].op, !.id = i, !.pc = p]
  <2>2. /\ k.op = calls[c].op /\ k.facts = {} /\ k.pc = p /\ k.tx = 0 /\ k.drops = {} /\ k.todo = {}
        /\ k.del = Empty /\ k.add = Empty /\ k.locks = NoLocks /\ k.read = {}
    BY DEF Idle
  <2>3. /\ calls' = [calls EXCEPT ![c] = k] /\ log' = log /\ db' = db
        /\ begun' \in Nat /\ seq' \in Nat
    BY <2>1 DEF Continue, PgInv, CallInv
  <2>. HIDE DEF k
  <2>4. CallTyped(k) /\ Untouched(k)
    BY <2>2 DEF CallTyped, Untouched, Ended
  <2>. QED  BY <2>2, <2>3, <2>4, Fresh
<1>2. CASE PriorAssertions(c) = {} /\ calls[c].op.kind = "edge"
  <2>. DEFINE k == [calls[c] EXCEPT !.pc = "link"]
  <2>1. Follows(k, calls[c]) /\ k.pc = "link" /\ k.drops = calls[c].drops /\ k.todo = calls[c].todo
        /\ k.read = calls[c].read
    BY CallIs DEF Follows, IsCall, Fields
  <2>2. /\ calls' = [calls EXCEPT ![c] = k] /\ log' = log /\ db' = db
        /\ begun' \in Nat /\ seq' \in Nat
    BY <1>2 DEF Prior, LookUp, Continue, PgInv, CallInv
  <2>. HIDE DEF k
  <2>3. CallTyped(k)
    BY <1>0, <1>2, <2>1, CallOf DEF CallTyped, Ended, Follows
  <2>4. Untouched(k) /\ k.read \subseteq log
    BY <1>0, <2>1, CallOf DEF Untouched, Follows
  <2>. QED  BY <2>2, <2>3, <2>4, Fresh
<1>3. CASE PriorAssertions(c) = {} /\ calls[c].op.kind = "assert"
  <2>. DEFINE k == [calls[c] EXCEPT !.pc = "hits"]
  <2>1. Follows(k, calls[c]) /\ k.pc = "hits" /\ k.drops = calls[c].drops /\ k.todo = calls[c].todo
        /\ k.id = calls[c].id /\ k.read = calls[c].read
    BY CallIs DEF Follows, IsCall, Fields
  <2>2. Continue(c, k)
    BY <1>3 DEF Prior, LookUp
  <2>. HIDE DEF k
  <2>3. CallTyped(k)
    BY <1>0, <1>3, <2>1, CallOf DEF CallTyped, Ended, Follows
  <2>4. Spent(k) /\ k.read \subseteq log
    BY <1>0, <2>1, CallOf DEF Spent, Untouched, Follows
  <2>. QED  BY <1>3, <2>1, <2>2, <2>3, <2>4, Onward DEF Follows, Ended
<1>. QED  BY <1>0, <1>1, <1>2, <1>3

\* The lookup of the keys, and the node it decides on.
LEMMA HitsSound ==
  ASSUME PgInv, Inv', NEW c \in Calls, Hits(c)
  PROVE  PgInv'
<1>0. calls[c].pc = "hits" /\ calls[c].facts = {} /\ calls[c].op.kind = "assert"
  BY CallOf DEF Hits, Spent, Placed
<1>1. ASSUME NEW p \in {"upsert", "exists", "move"}, NEW i \in EntityIds, NEW d \in SUBSET EntityIds,
             p = "move" => d # {},
             Continue(c, [calls[c] EXCEPT !.pc = p, !.id = i, !.drops = d])
      PROVE  PgInv'
  <2>. DEFINE k == [calls[c] EXCEPT !.pc = p, !.id = i, !.drops = d]
  <2>0. IsCall(k) /\ k.op = calls[c].op /\ k.facts = calls[c].facts /\ k.tx = calls[c].tx
    BY CallIs DEF IsCall, Fields
  <2>1. Follows(k, calls[c]) /\ k.pc = p /\ k.id = i /\ k.drops = d /\ k.todo = calls[c].todo
        /\ k.read = calls[c].read
    BY <2>0, CallIs DEF Follows, IsCall, Fields
  <2>2. Continue(c, k)
    BY <1>1
  <2>. HIDE DEF k
  <2>3. CallTyped(k)
    BY <1>0, <1>1, <2>1, CallOf DEF CallTyped, Ended, Follows
  <2>4. Spent(k) /\ k.read \subseteq log
    BY <1>0, <2>1, CallOf DEF Spent, Follows
  <2>. QED  BY <1>0, <2>1, <2>2, <2>3, <2>4, Onward DEF Follows, Ended
<1>. DEFINE hits   == ExternalHits(c)
            used   == {f.subject : f \in log} \cup {calls[o].id : o \in Calls}
            oldest == CHOOSE i \in hits : \A j \in hits : i <= j
<1>2. IF hits = {} THEN \E i \in EntityIds \ used :
                          Continue(c, [calls[c] EXCEPT !.pc = "upsert", !.id = i])
      ELSE Continue(c, [calls[c] EXCEPT !.pc = IF hits = {oldest} THEN "exists" ELSE "move",
                                        !.id = oldest, !.drops = hits \ {oldest}])
  BY Zenon DEF Hits
<1>3. hits \subseteq EntityIds /\ hits \in SUBSET Nat
  BY PgStoreAssumption DEF ExternalHits, PgInv, RowInv, Sound, Tables
<1>4. hits # {} => \E i \in hits : \A j \in hits : i <= j
  BY <1>3, LeastOf
<1>5. hits # {} => oldest \in hits
  BY <1>4
<1>6. calls[c].drops \in SUBSET EntityIds
  BY CallOf DEF CallTyped
<1>. HIDE DEF hits, used, oldest
<1>7. CASE hits = {}
  <2>1. PICK i \in EntityIds : Continue(c, [calls[c] EXCEPT !.pc = "upsert", !.id = i])
    BY <1>2, <1>7
  <2>2. [calls[c] EXCEPT !.pc = "upsert", !.id = i]
          = [calls[c] EXCEPT !.pc = "upsert", !.id = i, !.drops = calls[c].drops]
    BY CallOf DEF IsCall, Fields
  <2>. QED  BY <1>1, <1>6, <2>1, <2>2
<1>8. CASE hits # {} /\ hits = {oldest}
  <2>1. Continue(c, [calls[c] EXCEPT !.pc = "exists", !.id = oldest, !.drops = hits \ {oldest}])
    BY <1>2, <1>8
  <2>2. oldest \in EntityIds /\ hits \ {oldest} \in SUBSET EntityIds /\ "exists" # "move"
    BY <1>3, <1>5, <1>8
  <2>. QED  BY <1>1, <2>1, <2>2, Zenon
<1>9. CASE hits # {} /\ hits # {oldest}
  <2>1. Continue(c, [calls[c] EXCEPT !.pc = "move", !.id = oldest, !.drops = hits \ {oldest}])
    BY <1>2, <1>9
  <2>2. hits \ {oldest} # {} /\ hits \ {oldest} \in SUBSET EntityIds /\ oldest \in EntityIds
    BY <1>3, <1>5, <1>9
  <2>. QED  BY <1>1, <2>1, <2>2
<1>. QED  BY <1>7, <1>8, <1>9

\* The row of the node is looked at.
LEMMA ExistsSound ==
  ASSUME PgInv, Inv', NEW c \in Calls, Exists(c)
  PROVE  PgInv'
<1>. DEFINE k == [calls[c] EXCEPT !.pc = "upsert", !.seen = InsertedBy(View(c), calls[c].id)]
<1>1. Follows(k, calls[c]) /\ k.pc = "upsert" /\ k.id = calls[c].id /\ k.drops = calls[c].drops
      /\ k.todo = calls[c].todo /\ k.read = calls[c].read
  BY CallIs DEF Follows, IsCall, Fields
<1>2. Continue(c, k) /\ calls[c].pc = "exists"
  BY DEF Exists
<1>. HIDE DEF k
<1>3. CallTyped(k) /\ calls[c].op.kind = "assert"
  BY <1>1, <1>2, CallOf DEF CallTyped, Ended, Follows
<1>4. Spent(k) /\ k.read \subseteq log
  BY <1>1, <1>2, CallOf DEF Spent, Follows
<1>. QED  BY <1>1, <1>2, <1>3, <1>4, Onward DEF Follows, Ended

\* The node is read back.
LEMMA AnswerSound ==
  ASSUME PgInv, Inv', NEW c \in Calls, Answer(c)
  PROVE  PgInv'
<1>. DEFINE k == [calls[c] EXCEPT !.pc = "commit"]
<1>1. Follows(k, calls[c]) /\ k.pc = "commit" /\ k.id = calls[c].id /\ k.drops = calls[c].drops
      /\ k.todo = calls[c].todo /\ k.read = calls[c].read
  BY CallIs DEF Follows, IsCall, Fields
<1>2. Continue(c, k) \/ Rollback(c, "notfound")
  BY Zenon DEF Answer
<1>3. calls[c].pc = "answer"
  BY DEF Answer
<1>. HIDE DEF k
<1>4. Spent(k) /\ k.read \subseteq log
  BY <1>1, <1>3, CallOf DEF Spent, Follows
<1>5. CallTyped(k)
  BY <1>1, <1>3, CallOf DEF CallTyped, Ended, Follows
<1>. QED  BY <1>1, <1>2, <1>4, <1>5, Onward, RollbackStep DEF Follows, Ended

\* A merge looks at its two nodes.
LEMMA CheckSound ==
  ASSUME PgInv, Inv', NEW c \in Calls, Check(c)
  PROVE  PgInv'
<1>0. calls[c].pc = "check" /\ calls[c].op.kind = "merge" /\ calls[c].op \in Input
  BY CallOf DEF Check, Placed, CallTyped, Ended
<1>1. calls[c].op.keep \in EntityIds /\ calls[c].op.drop \in EntityIds
  BY <1>0 DEF Input
<1>2. ASSUME NEW p \in {"mergefact", "move"},
             Continue(c, [calls[c] EXCEPT !.pc = p, !.id = calls[c].op.keep, !.drops = {calls[c].op.drop}])
      PROVE  PgInv'
  <2>. DEFINE k == [calls[c] EXCEPT !.pc = p, !.id = calls[c].op.keep, !.drops = {calls[c].op.drop}]
  <2>1. Follows(k, calls[c]) /\ k.pc = p /\ k.id = calls[c].op.keep /\ k.drops = {calls[c].op.drop}
        /\ k.todo = calls[c].todo /\ k.read = calls[c].read
    BY CallIs DEF Follows, IsCall, Fields
  <2>2. Continue(c, k)
    BY <1>2
  <2>. HIDE DEF k
  <2>3. CallTyped(k)
    BY <1>0, <1>1, <2>1, CallOf DEF CallTyped, Ended, Follows
  <2>4. Spent(k) /\ k.read \subseteq log
    BY <1>0, <2>1, CallOf DEF Spent, Follows
  <2>. QED  BY <1>0, <2>1, <2>2, <2>3, <2>4, Onward DEF Follows, Ended
<1>3. \/ Rollback(c, "notfound")
      \/ Continue(c, [calls[c] EXCEPT !.pc = "mergefact", !.id = calls[c].op.keep, !.drops = {calls[c].op.drop}])
      \/ Continue(c, [calls[c] EXCEPT !.pc = "move", !.id = calls[c].op.keep, !.drops = {calls[c].op.drop}])
  <2>1. CASE calls[c].op.keep = calls[c].op.drop
    BY <2>1 DEF Check
  <2>2. CASE calls[c].op.keep # calls[c].op.drop
    BY <2>2 DEF Check
  <2>. QED  BY <2>1, <2>2
<1>. QED  BY <1>2, <1>3, RollbackStep DEF Ended

\* A rebuild reads the log.
LEMMA ReadLogSound ==
  ASSUME PgInv, Inv', NEW c \in Calls, ReadLog(c)
  PROVE  PgInv'
<1>. DEFINE k == [calls[c] EXCEPT !.pc = "fold", !.read = log]
<1>1. Follows(k, calls[c]) /\ k.pc = "fold" /\ k.id = calls[c].id /\ k.drops = calls[c].drops
      /\ k.todo = calls[c].todo /\ k.read = log
  BY CallIs DEF Follows, IsCall, Fields
<1>2. Continue(c, k) /\ calls[c].pc = "read" /\ calls[c].op.kind = "rebuild"
  BY CallOf DEF ReadLog, Placed
<1>. HIDE DEF k
<1>3. CallTyped(k)
  BY <1>1, <1>2, CallOf DEF CallTyped, Ended, Follows
<1>4. Spent(k)
  BY <1>1, <1>2, CallOf DEF Spent, Follows
<1>. QED  BY <1>1, <1>2, <1>3, <1>4, Onward DEF Follows, Ended

----------------------------------------------------------------------------
(* The steps that write rows of one table. *)

EntityRow == [id : EntityIds, props : RowProps, by : Nat]
ExtRow == [entity : EntityIds, key : Keys]
EdgeRow == [id : EdgeIds, from : EntityIds, to : EntityIds]

\* The rows of a table, replaced.
LEMMA OneTable ==
  ASSUME NEW S \in Tables, NEW R
  PROVE  /\ [S EXCEPT !.entities = R] = [t \in Names |-> [S EXCEPT !.entities = R][t]]
         /\ [S EXCEPT !.entities = R].entities = R
         /\ [S EXCEPT !.entities = R].ext = S.ext /\ [S EXCEPT !.entities = R].edges = S.edges
BY DEF Tables, Names

\* The same of the external keys.
LEMMA OneTableExt ==
  ASSUME NEW S \in Tables, NEW R
  PROVE  /\ [S EXCEPT !.ext = R] = [t \in Names |-> [S EXCEPT !.ext = R][t]]
         /\ [S EXCEPT !.ext = R].ext = R
         /\ [S EXCEPT !.ext = R].entities = S.entities /\ [S EXCEPT !.ext = R].edges = S.edges
BY DEF Tables, Names

\* The same of the edges.
LEMMA OneTableEdges ==
  ASSUME NEW S \in Tables, NEW R
  PROVE  /\ [S EXCEPT !.edges = R] = [t \in Names |-> [S EXCEPT !.edges = R][t]]
         /\ [S EXCEPT !.edges = R].edges = R
         /\ [S EXCEPT !.edges = R].entities = S.entities /\ [S EXCEPT !.edges = R].ext = S.ext
BY DEF Tables, Names

\* Entities written.
LEMMA EntitiesWritten ==
  ASSUME NEW S, Sound(S), NEW R \in SUBSET EntityRow, NEW l,
         \A r, q \in R : r.id = q.id => r = q,
         Live(S) \subseteq Ids(R),
         \A r \in Change(S.entities, R) : r.id \in l.write
  PROVE  /\ Sound([S EXCEPT !.entities = R]) /\ CoverChange(l, S, [S EXCEPT !.entities = R])
         /\ [S EXCEPT !.entities = R].edges = S.edges
<1>0. S \in Tables
  BY DEF Sound
<1>. DEFINE T == [S EXCEPT !.entities = R]
<1>1. T = [t \in Names |-> T[t]] /\ T.entities = R /\ T.ext = S.ext /\ T.edges = S.edges
  BY <1>0, OneTable
<1>. HIDE DEF T
<1>2. T \in Tables
  BY <1>1, TablesOf DEF Sound, Tables, EntityRow
<1>3. Unique(T)
  BY <1>1 DEF Sound, Unique
<1>4. Refers(T)
  BY <1>1 DEF Sound, Refers, Live
<1>5. CoverChange(l, S, T)
  BY <1>1 DEF CoverChange, Change, Live
<1>6. Sound(T) /\ CoverChange(l, S, T) /\ T.edges = S.edges
  BY <1>1, <1>2, <1>3, <1>4, <1>5 DEF Sound
<1>. QED  BY <1>6 DEF T

\* Keys written.
LEMMA KeysWritten ==
  ASSUME NEW S, Sound(S), NEW R \in SUBSET ExtRow, NEW l,
         \A x, y \in R : x.key = y.key => x = y,
         \A x \in R : x.entity \in Live(S),
         \A x \in Change(S.ext, R) : x.key \in l.keys,
         \A x \in R \ S.ext : x.entity \in l.refer
  PROVE  /\ Sound([S EXCEPT !.ext = R]) /\ CoverChange(l, S, [S EXCEPT !.ext = R])
         /\ [S EXCEPT !.ext = R].edges = S.edges
<1>0. S \in Tables
  BY DEF Sound
<1>. DEFINE T == [S EXCEPT !.ext = R]
<1>1. T = [t \in Names |-> T[t]] /\ T.entities = S.entities /\ T.ext = R /\ T.edges = S.edges
  BY <1>0, OneTableExt
<1>. HIDE DEF T
<1>2. T \in Tables
  BY <1>1, TablesOf DEF Sound, Tables, RowProps, ExtRow
<1>3. Unique(T)
  BY <1>1 DEF Sound, Unique
<1>4. Refers(T)
  BY <1>1 DEF Sound, Refers, Live
<1>5. CoverChange(l, S, T)
  BY <1>1 DEF CoverChange, Change, Live
<1>6. Sound(T) /\ CoverChange(l, S, T) /\ T.edges = S.edges
  BY <1>1, <1>2, <1>3, <1>4, <1>5 DEF Sound
<1>. QED  BY <1>6 DEF T

\* Edges written.
LEMMA EdgesWritten ==
  ASSUME NEW S, Sound(S), NEW R \in SUBSET EdgeRow, NEW l,
         \A d, e \in R : d.id = e.id => d = e,
         \A e \in R : Ends(e) \subseteq Live(S),
         \A e \in Change(S.edges, R) : e.id \in l.edges,
         \A e \in R \ S.edges : \A j \in Ends(e) :
           j \in l.refer \/ \E d \in S.edges : d.id = e.id /\ j \in Ends(d)
  PROVE  /\ Sound([S EXCEPT !.edges = R]) /\ CoverChange(l, S, [S EXCEPT !.edges = R])
         /\ [S EXCEPT !.edges = R].edges = R
<1>0. S \in Tables
  BY DEF Sound
<1>. DEFINE T == [S EXCEPT !.edges = R]
<1>1. T = [t \in Names |-> T[t]] /\ T.entities = S.entities /\ T.ext = S.ext /\ T.edges = R
  BY <1>0 DEF Tables, Names
<1>. HIDE DEF T
<1>2. T \in Tables
  BY <1>1, TablesOf DEF Sound, Tables, RowProps, EdgeRow
<1>3. Unique(T)
  BY <1>1 DEF Sound, Unique
<1>4. Refers(T)
  BY <1>1 DEF Sound, Refers, Live, Ends
<1>5. CoverChange(l, S, T)
  BY <1>1 DEF CoverChange, Change, Live
<1>6. Sound(T) /\ CoverChange(l, S, T) /\ T.edges = R
  BY <1>1, <1>2, <1>3, <1>4, <1>5 DEF Sound
<1>. QED  BY <1>6 DEF T

\* The row of the node is inserted or widened.
LEMMA UpsertSound ==
  ASSUME PgInv, Inv', NEW c \in Calls, Upsert(c)
  PROVE  PgInv'
<1>. DEFINE k    == [calls[c] EXCEPT !.todo = calls[c].op.keys,
                                     !.pc = IF calls[c].op.keys = {} THEN "sync" ELSE "keys"]
            S    == View(c)
            lock == [NoLocks EXCEPT !.write = {k.id}]
            row  == {r \in S.entities : r.id = k.id /\ r.by = k.seen}
            new  == [id |-> k.id, props |-> Stored(k.op.props), by |-> k.tx]
            wide == {[r EXCEPT !.props = Concat(Stored(k.op.props), @)] : r \in row}
<1>1. /\ Follows(k, calls[c]) /\ k.pc \in {"sync", "keys"} /\ k.id = calls[c].id
      /\ k.drops = calls[c].drops /\ k.todo = calls[c].op.keys /\ k.read = calls[c].read
  BY CallIs DEF Follows, IsCall, Fields
<1>2. /\ calls[c].pc = "upsert" /\ calls[c].op.kind = "assert" /\ calls[c].op \in Input
      /\ calls[c].id \in EntityIds /\ calls[c].tx \in Nat
  BY CallOf DEF Upsert, CallTyped, Ended
<1>3. calls[c].op.keys \in SUBSET Keys /\ Stored(calls[c].op.props) \in RowProps
  BY <1>2, StoredIs DEF Input
<1>4. \/ Continue(c, k)
      \/ k.id \notin Live(S) /\ Write(c, [S EXCEPT !.entities = @ \cup {new}], lock, k)
      \/ Write(c, [S EXCEPT !.entities = (@ \ row) \cup wide], lock, k)
      \/ Rollback(c, "failed")
  BY Zenon DEF Upsert
<1>5. lock.write = {k.id}
  BY DEF NoLocks
<1>6. Sound(S) /\ S.entities \in SUBSET EntityRow /\ Ids(S.edges) \subseteq KnownEdges(calls[c])
  BY CallOf DEF Sound, Tables, RowProps, EntityRow
<1>7. KnownEdges(k) = KnownEdges(calls[c])
  BY <1>1 DEF KnownEdges, Follows
<1>8. /\ [S EXCEPT !.entities = @ \cup {new}] = [S EXCEPT !.entities = S.entities \cup {new}]
      /\ [S EXCEPT !.entities = (@ \ row) \cup wide]
           = [S EXCEPT !.entities = (S.entities \ row) \cup wide]
  BY <1>6 DEF Sound, Tables
<1>9. new \in EntityRow /\ new.id = k.id
  BY <1>1, <1>2, <1>3 DEF EntityRow, Follows
<1>10. /\ \A r \in row : r \in S.entities /\ r.id = k.id
       /\ \A q \in wide : q \in EntityRow /\ q.id = k.id /\ \E r \in row : q = [r EXCEPT !.props = Concat(Stored(k.op.props), @)]
       /\ row # {} => wide # {}
  <2>1. \A r \in row : r \in S.entities /\ r.id = k.id /\ r \in EntityRow
    BY <1>6
  <2>2. Stored(k.op.props) \in RowProps
    BY <1>1, <1>3 DEF Follows
  <2>. HIDE DEF row, k
  <2>4. /\ \A q \in wide : \E r \in row : q = [r EXCEPT !.props = Concat(Stored(k.op.props), @)]
        /\ row # {} => wide # {}
    BY Zenon
  <2>. HIDE DEF wide
  <2>5. \A q \in wide : q \in EntityRow /\ q.id = k.id
    <3>. SUFFICES ASSUME NEW q \in wide PROVE q \in EntityRow /\ q.id = k.id
      OBVIOUS
    <3>1. PICK r \in row : q = [r EXCEPT !.props = Concat(Stored(k.op.props), @)]
      BY <2>4
    <3>. QED  BY <2>1, <2>2, <3>1, ConcatIs DEF EntityRow
  <2>. QED  BY <2>1, <2>4, <2>5
<1>11. \A r, q \in row : r = q
  BY <1>6, <1>10 DEF Sound, Unique
<1>12. \A r, q \in wide : r = q
  BY <1>10, <1>11
<1>. HIDE DEF k, lock, row, new, wide
<1>13. CallTyped(k)
  BY <1>1, <1>2, <1>3, CallOf DEF CallTyped, Ended, Follows
<1>14. Spent(k) /\ k.read \subseteq log /\ k.pc \notin Ended \cup {"prior", "link"}
  BY <1>1, <1>2, CallOf DEF Spent, Follows, Ended
<1>15. CASE Continue(c, k)
  BY <1>1, <1>13, <1>14, <1>15, Onward DEF Follows
<1>16. CASE k.id \notin Live(S) /\ Write(c, [S EXCEPT !.entities = S.entities \cup {new}], lock, k)
  <2>. DEFINE R == S.entities \cup {new}
  <2>1. R \in SUBSET EntityRow /\ Live(S) \subseteq Ids(R)
    BY <1>6, <1>9 DEF Live, Ids
  <2>2. \A r, q \in R : r.id = q.id => r = q
    BY <1>6, <1>9, <1>16 DEF Sound, Unique, Live, Ids
  <2>3. \A r \in Change(S.entities, R) : r.id \in lock.write
    BY <1>5, <1>9 DEF Change
  <2>4. /\ Sound([S EXCEPT !.entities = R]) /\ CoverChange(lock, S, [S EXCEPT !.entities = R])
        /\ [S EXCEPT !.entities = R].edges = S.edges
    BY <1>6, <2>1, <2>2, <2>3, EntitiesWritten
  <2>5. Ids([S EXCEPT !.entities = R].edges) \subseteq KnownEdges(k)
    BY <1>6, <1>7, <2>4
  <2>6. Write(c, [S EXCEPT !.entities = R], lock, k)
    BY <1>16
  <2>. HIDE DEF R
  <2>. QED  BY <1>1, <1>13, <1>14, <2>4, <2>5, <2>6, Onward DEF Follows
<1>17. CASE Write(c, [S EXCEPT !.entities = (S.entities \ row) \cup wide], lock, k)
  <2>. DEFINE R == (S.entities \ row) \cup wide
  <2>1. R \in SUBSET EntityRow
    BY <1>6, <1>10
  <2>2. Live(S) \subseteq Ids(R)
    BY <1>10 DEF Live, Ids
  <2>3. \A r, q \in R : r.id = q.id => r = q
    <3>1. \A r \in wide : \A q \in S.entities \ row : r.id # q.id
      BY <1>6, <1>10 DEF Sound, Unique
    <3>. QED  BY <1>6, <1>12, <3>1 DEF Sound, Unique
  <2>4. \A r \in Change(S.entities, R) : r.id \in lock.write
    BY <1>5, <1>10 DEF Change
  <2>5. /\ Sound([S EXCEPT !.entities = R]) /\ CoverChange(lock, S, [S EXCEPT !.entities = R])
        /\ [S EXCEPT !.entities = R].edges = S.edges
    BY <1>6, <2>1, <2>2, <2>3, <2>4, EntitiesWritten
  <2>6. Ids([S EXCEPT !.entities = R].edges) \subseteq KnownEdges(k)
    BY <1>6, <1>7, <2>5
  <2>7. Write(c, [S EXCEPT !.entities = R], lock, k)
    BY <1>17
  <2>. HIDE DEF R
  <2>. QED  BY <1>1, <1>13, <1>14, <2>5, <2>6, <2>7, Onward DEF Follows
<1>18. CASE Rollback(c, "failed")
  BY <1>18, RollbackStep DEF Ended
<1>. QED  BY <1>4, <1>8, <1>15, <1>16, <1>17, <1>18

\* Nothing written.
LEMMA SameCovered ==
  ASSUME NEW S, NEW l
  PROVE  CoverChange(l, S, S)
BY DEF CoverChange, Change

\* A key is inserted unless it is taken.
LEMMA InsertKeySound ==
  ASSUME PgInv, Inv', NEW c \in Calls, NEW x \in Keys, InsertKey(c, x)
  PROVE  PgInv'
<1>. DEFINE k    == [calls[c] EXCEPT !.todo = @ \ {x},
                                     !.pc = IF calls[c].todo = {x} THEN "sync" ELSE "keys"]
            S    == View(c)
            lock == [NoLocks EXCEPT !.keys = {x}, !.refer = {k.id}]
            new  == [entity |-> k.id, key |-> x]
            R    == S.ext \cup {new}
<1>1. /\ Follows(k, calls[c]) /\ k.pc \in {"sync", "keys"} /\ k.id = calls[c].id
      /\ k.drops = calls[c].drops /\ k.todo = calls[c].todo \ {x} /\ k.read = calls[c].read
  BY CallIs DEF Follows, IsCall, Fields
<1>2. /\ calls[c].pc = "keys" /\ calls[c].op.kind = "assert" /\ calls[c].id \in EntityIds
  BY CallOf DEF InsertKey, CallTyped
<1>3. /\ Sound(S) /\ S.ext \in SUBSET ExtRow /\ Ids(S.edges) \subseteq KnownEdges(calls[c])
  BY CallOf DEF Sound, Tables, ExtRow
<1>4. [S EXCEPT !.ext = @ \cup {new}] = [S EXCEPT !.ext = R]
  BY <1>3 DEF Sound, Tables
<1>5. \/ Continue(c, k)
      \/ /\ ~ \E y \in S.ext : y.key = x
         /\ k.id \in Live(S)
         /\ Write(c, [S EXCEPT !.ext = @ \cup {new}], lock, k)
      \/ Rollback(c, "failed")
  BY Zenon DEF InsertKey
<1>6. lock.keys = {x} /\ lock.refer = {k.id} /\ new.entity = k.id /\ new.key = x
  BY DEF NoLocks
<1>7. new \in ExtRow
  BY <1>1, <1>2 DEF ExtRow
<1>8. KnownEdges(k) = KnownEdges(calls[c])
  BY <1>1 DEF KnownEdges, Follows
<1>. HIDE DEF k, lock, new
<1>9. CallTyped(k)
  BY <1>1, <1>2, CallOf DEF CallTyped, Ended, Follows
<1>10. Spent(k) /\ k.read \subseteq log /\ k.pc \notin Ended \cup {"prior", "link"}
  BY <1>1, <1>2, CallOf DEF Spent, Follows, Ended
<1>11. CASE Continue(c, k)
  BY <1>1, <1>9, <1>10, <1>11, Onward DEF Follows
<1>12. ASSUME ~ \E y \in S.ext : y.key = x, k.id \in Live(S), Write(c, [S EXCEPT !.ext = R], lock, k)
       PROVE  PgInv'
  <2>1. R \in SUBSET ExtRow /\ \A y \in R : y.entity \in Live(S)
    BY <1>3, <1>6, <1>7, <1>12 DEF Sound, Refers
  <2>2. \A y, z \in R : y.key = z.key => y = z
    BY <1>3, <1>6, <1>12 DEF Sound, Unique
  <2>3. /\ \A y \in Change(S.ext, R) : y.key \in lock.keys
        /\ \A y \in R \ S.ext : y.entity \in lock.refer
    BY <1>6 DEF Change
  <2>. HIDE DEF R
  <2>4. /\ Sound([S EXCEPT !.ext = R]) /\ CoverChange(lock, S, [S EXCEPT !.ext = R])
        /\ [S EXCEPT !.ext = R].edges = S.edges
    BY <1>3, <2>1, <2>2, <2>3, KeysWritten
  <2>5. Ids([S EXCEPT !.ext = R].edges) \subseteq KnownEdges(k)
    BY <1>3, <1>8, <2>4
  <2>. QED  BY <1>1, <1>9, <1>10, <1>12, <2>4, <2>5, Onward DEF Follows
<1>13. CASE Rollback(c, "failed")
  BY <1>13, RollbackStep DEF Ended
<1>. QED  BY <1>4, <1>5, <1>11, <1>12, <1>13

\* The row of the node is locked.
LEMMA SyncSound ==
  ASSUME PgInv, Inv', NEW c \in Calls, Sync(c)
  PROVE  PgInv'
<1>. DEFINE k == [calls[c] EXCEPT !.pc = "fact"]
            S == View(c)
            l == [NoLocks EXCEPT !.write = {calls[c].id} \cap Live(S)]
<1>1. /\ Follows(k, calls[c]) /\ k.pc = "fact" /\ k.id = calls[c].id
      /\ k.drops = calls[c].drops /\ k.todo = calls[c].todo /\ k.read = calls[c].read
  BY CallIs DEF Follows, IsCall, Fields
<1>2. calls[c].pc = "sync" /\ Write(c, S, l, k)
  BY Zenon DEF Sync
<1>3. KnownEdges(k) = KnownEdges(calls[c])
  BY <1>1 DEF KnownEdges, Follows
<1>. HIDE DEF k, l
<1>4. CallTyped(k)
  BY <1>1, <1>2, CallOf DEF CallTyped, Ended, Follows
<1>5. Spent(k) /\ k.read \subseteq log
  BY <1>1, <1>2, CallOf DEF Spent, Follows, Ended
<1>6. Sound(S) /\ CoverChange(l, S, S) /\ Ids(S.edges) \subseteq KnownEdges(k)
  BY <1>3, CallOf, SameCovered
<1>. QED  BY <1>1, <1>2, <1>4, <1>5, <1>6, Onward DEF Follows, Ended

\* The keys of a dropped node go over.
LEMMA MoveSound ==
  ASSUME PgInv, Inv', NEW c \in Calls, Move(c)
  PROVE  PgInv'
<1>. DEFINE k     == [calls[c] EXCEPT !.pc = "repoint"]
            S     == View(c)
            kids  == {x \in S.ext : x.entity = Dropped(c)}
            lock  == [NoLocks EXCEPT !.keys = {x.key : x \in kids}, !.refer = {k.id}]
            moved == {[x EXCEPT !.entity = k.id] : x \in kids}
            R     == (S.ext \ kids) \cup moved
<1>1. /\ Follows(k, calls[c]) /\ k.pc = "repoint" /\ k.id = calls[c].id
      /\ k.drops = calls[c].drops /\ k.todo = calls[c].todo /\ k.read = calls[c].read
  BY CallIs DEF Follows, IsCall, Fields
<1>2. /\ calls[c].pc = "move" /\ calls[c].id \in EntityIds
  BY CallOf DEF Move, CallTyped
<1>3. /\ Sound(S) /\ S.ext \in SUBSET ExtRow /\ Ids(S.edges) \subseteq KnownEdges(calls[c])
  BY CallOf DEF Sound, Tables, ExtRow
<1>4. [S EXCEPT !.ext = (@ \ kids) \cup moved] = [S EXCEPT !.ext = R]
  BY <1>3 DEF Sound, Tables
<1>5. \/ Continue(c, k)
      \/ k.id \in Live(S) /\ Write(c, [S EXCEPT !.ext = (@ \ kids) \cup moved], lock, k)
      \/ Rollback(c, "failed")
  BY Zenon DEF Move
<1>6. lock.keys = {x.key : x \in kids} /\ lock.refer = {k.id}
  BY DEF NoLocks
<1>7. /\ \A x \in kids : x \in S.ext
      /\ \A y \in moved : \E x \in kids : y = [x EXCEPT !.entity = k.id]
  BY Zenon
<1>8. KnownEdges(k) = KnownEdges(calls[c])
  BY <1>1 DEF KnownEdges, Follows
<1>. HIDE DEF k, lock, kids, moved
<1>9. \A y \in moved : y \in ExtRow /\ y.entity = k.id /\ \E x \in kids : x.key = y.key
  BY <1>1, <1>2, <1>3, <1>7 DEF ExtRow
<1>10. CallTyped(k)
  BY <1>1, <1>2, CallOf DEF CallTyped, Ended, Follows
<1>11. Spent(k) /\ k.read \subseteq log
  BY <1>1, <1>2, CallOf DEF Spent, Follows, Ended
<1>12. CASE Continue(c, k)
  BY <1>1, <1>10, <1>11, <1>12, Onward DEF Follows, Ended
<1>13. ASSUME k.id \in Live(S), Write(c, [S EXCEPT !.ext = R], lock, k)
       PROVE  PgInv'
  <2>1. R \in SUBSET ExtRow /\ \A y \in R : y.entity \in Live(S)
    BY <1>3, <1>9, <1>13 DEF Sound, Refers
  <2>2. \A y, z \in R : y.key = z.key => y = z
    <3>1. \A y, z \in S.ext : y.key = z.key => y = z
      BY <1>3 DEF Sound, Unique
    <3>2. \A y \in moved : \A z \in S.ext \ kids : y.key # z.key
      BY <1>7, <1>9, <3>1
    <3>3. \A y, z \in moved : y.key = z.key => y = z
      BY <1>9 DEF ExtRow
    <3>. QED  BY <3>1, <3>2, <3>3
  <2>3. /\ \A y \in Change(S.ext, R) : y.key \in lock.keys
        /\ \A y \in R \ S.ext : y.entity \in lock.refer
    BY <1>6, <1>9 DEF Change
  <2>. HIDE DEF R
  <2>4. /\ Sound([S EXCEPT !.ext = R]) /\ CoverChange(lock, S, [S EXCEPT !.ext = R])
        /\ [S EXCEPT !.ext = R].edges = S.edges
    BY <1>3, <2>1, <2>2, <2>3, KeysWritten
  <2>5. Ids([S EXCEPT !.ext = R].edges) \subseteq KnownEdges(k)
    BY <1>3, <1>8, <2>4
  <2>. QED  BY <1>1, <1>10, <1>11, <1>13, <2>4, <2>5, Onward DEF Follows, Ended
<1>14. CASE Rollback(c, "failed")
  BY <1>14, RollbackStep DEF Ended
<1>. QED  BY <1>4, <1>5, <1>12, <1>13, <1>14

\* The edges of a dropped node go over.
LEMMA RepointSound ==
  ASSUME PgInv, Inv', NEW c \in Calls, Repoint(c)
  PROVE  PgInv'
<1>. DEFINE S     == View(c)
            d     == Dropped(c)
            k     == [calls[c] EXCEPT !.pc = "drop", !.seen = InsertedBy(S, d)]
            kids  == ReferTo(S, d).edges
            to(i) == IF i = d THEN k.id ELSE i
            lock  == [NoLocks EXCEPT !.edges = Ids(kids), !.refer = {k.id}]
            moved == {[e EXCEPT !.from = to(@), !.to = to(@)] : e \in kids}
            R     == (S.edges \ kids) \cup moved
<1>1. /\ Follows(k, calls[c]) /\ k.pc = "drop" /\ k.id = calls[c].id
      /\ k.drops = calls[c].drops /\ k.todo = calls[c].todo /\ k.read = calls[c].read
  BY CallIs DEF Follows, IsCall, Fields
<1>2. /\ calls[c].pc = "repoint" /\ calls[c].id \in EntityIds
  BY CallOf DEF Repoint, CallTyped
<1>3. /\ Sound(S) /\ S.edges \in SUBSET EdgeRow /\ Ids(S.edges) \subseteq KnownEdges(calls[c])
  BY CallOf DEF Sound, Tables, EdgeRow
<1>4. [S EXCEPT !.edges = (@ \ kids) \cup moved] = [S EXCEPT !.edges = R]
  BY <1>3 DEF Sound, Tables
<1>5. \/ Continue(c, k)
      \/ k.id \in Live(S) /\ Write(c, [S EXCEPT !.edges = (@ \ kids) \cup moved], lock, k)
      \/ Rollback(c, "failed")
  BY Zenon DEF Repoint
<1>6. lock.edges = Ids(kids) /\ lock.refer = {k.id}
  BY DEF NoLocks
<1>7. /\ \A e \in kids : e \in S.edges
      /\ \A f \in moved : \E e \in kids : f = [e EXCEPT !.from = to(@), !.to = to(@)]
  BY DEF ReferTo
<1>8. KnownEdges(k) = KnownEdges(calls[c])
  BY <1>1 DEF KnownEdges, Follows
<1>9. \A i \in EntityIds : to(i) \in {i, k.id} /\ to(i) \in EntityIds
  BY <1>1, <1>2
<1>. HIDE DEF k, lock, kids, moved
<1>10. \A f \in moved : \E e \in kids :
          f = [id |-> e.id, from |-> to(e.from), to |-> to(e.to)]
  <2>. SUFFICES ASSUME NEW f \in moved
                PROVE  \E e \in kids : f = [id |-> e.id, from |-> to(e.from), to |-> to(e.to)]
    OBVIOUS
  <2>1. PICK e \in kids : f = [e EXCEPT !.from = to(@), !.to = to(@)]
    BY <1>7
  <2>2. f = [id |-> e.id, from |-> to(e.from), to |-> to(e.to)]
    <3>1. e \in EdgeRow
      BY <1>3, <1>7
    <3>. HIDE DEF to
    <3>. QED  BY <2>1, <3>1 DEF EdgeRow
  <2>. QED  BY <2>2
<1>11. \A f \in moved : /\ f \in EdgeRow
                        /\ \E e \in kids : e.id = f.id /\ Ends(f) \subseteq Ends(e) \cup {k.id}
  <2>. SUFFICES ASSUME NEW f \in moved
                PROVE  /\ f \in EdgeRow
                       /\ \E e \in kids : e.id = f.id /\ Ends(f) \subseteq Ends(e) \cup {k.id}
    OBVIOUS
  <2>1. PICK e \in kids : f = [id |-> e.id, from |-> to(e.from), to |-> to(e.to)]
    BY <1>10
  <2>2. e.id \in EdgeIds /\ e.from \in EntityIds /\ e.to \in EntityIds
    BY <1>3, <1>7 DEF EdgeRow
  <2>3. to(e.from) \in {e.from, k.id} /\ to(e.to) \in {e.to, k.id}
        /\ to(e.from) \in EntityIds /\ to(e.to) \in EntityIds
    BY <1>9, <2>2
  <2>. HIDE DEF to
  <2>4. f.id = e.id /\ f.from = to(e.from) /\ f.to = to(e.to) /\ f \in EdgeRow
    BY <2>1, <2>2, <2>3 DEF EdgeRow
  <2>5. Ends(f) \subseteq Ends(e) \cup {k.id}
    BY <2>3, <2>4 DEF Ends
  <2>. QED  BY <2>4, <2>5
<1>12. CallTyped(k)
  BY <1>1, <1>2, CallOf DEF CallTyped, Ended, Follows
<1>13. Spent(k) /\ k.read \subseteq log
  BY <1>1, <1>2, CallOf DEF Spent, Follows, Ended
<1>14. CASE Continue(c, k)
  BY <1>1, <1>12, <1>13, <1>14, Onward DEF Follows, Ended
<1>15. ASSUME k.id \in Live(S), Write(c, [S EXCEPT !.edges = R], lock, k)
       PROVE  PgInv'
  <2>0. \A e \in S.edges : Ends(e) \subseteq Live(S)
    BY <1>3 DEF Sound, Refers, Ends
  <2>1. R \in SUBSET EdgeRow /\ \A e \in R : Ends(e) \subseteq Live(S)
    BY <1>3, <1>7, <1>11, <1>15, <2>0
  <2>2. \A e, f \in R : e.id = f.id => e = f
    <3>1. \A e, f \in S.edges : e.id = f.id => e = f
      BY <1>3 DEF Sound, Unique
    <3>2. \A e \in moved : \A f \in S.edges \ kids : e.id # f.id
      <4>. SUFFICES ASSUME NEW e \in moved, NEW f \in S.edges \ kids, e.id = f.id PROVE FALSE
        OBVIOUS
      <4>1. PICK g \in kids : g.id = e.id
        BY <1>11
      <4>. QED  BY <1>7, <3>1, <4>1
    <3>3. \A e, f \in moved : e.id = f.id => e = f
      <4>. SUFFICES ASSUME NEW e \in moved, NEW f \in moved, e.id = f.id PROVE e = f
        OBVIOUS
      <4>1. PICK g \in kids : e = [id |-> g.id, from |-> to(g.from), to |-> to(g.to)]
        BY <1>10
      <4>2. PICK h \in kids : f = [id |-> h.id, from |-> to(h.from), to |-> to(h.to)]
        BY <1>10
      <4>. HIDE DEF to
      <4>3. g.id = h.id
        BY <4>1, <4>2
      <4>4. g = h
        BY <1>7, <3>1, <4>3
      <4>. QED  BY <4>1, <4>2, <4>4
    <3>. QED  BY <3>1, <3>2, <3>3
  <2>3. \A e \in Change(S.edges, R) : e.id \in lock.edges
    BY <1>6, <1>11 DEF Change, Ids
  <2>4. \A e \in R \ S.edges : \A j \in Ends(e) :
          j \in lock.refer \/ \E g \in S.edges : g.id = e.id /\ j \in Ends(g)
    BY <1>6, <1>7, <1>11
  <2>5. Ids(R) \subseteq Ids(S.edges)
    <3>1. \A e \in R : \E f \in S.edges : f.id = e.id
      BY <1>7, <1>11
    <3>. QED  BY <3>1 DEF Ids
  <2>. HIDE DEF R
  <2>6. /\ Sound([S EXCEPT !.edges = R]) /\ CoverChange(lock, S, [S EXCEPT !.edges = R])
        /\ [S EXCEPT !.edges = R].edges = R
    BY <1>3, <2>1, <2>2, <2>3, <2>4, EdgesWritten
  <2>7. Ids([S EXCEPT !.edges = R].edges) \subseteq KnownEdges(k)
    BY <1>3, <1>8, <2>5, <2>6
  <2>. QED  BY <1>1, <1>12, <1>13, <1>15, <2>6, <2>7, Onward DEF Follows, Ended
<1>16. CASE Rollback(c, "failed")
  BY <1>16, RollbackStep DEF Ended
<1>. QED  BY <1>4, <1>5, <1>14, <1>15, <1>16

\* An edge is inserted between nodes it sees.
LEMMA LinkSound ==
  ASSUME PgInv, Inv', NEW c \in Calls, Link(c)
  PROVE  PgInv'
<1>. DEFINE S    == View(c)
            ends == {calls[c].op.from, calls[c].op.to}
            used == {f.subject : f \in log} \cup {calls[o].id : o \in Calls}
            At(i) == [calls[c] EXCEPT !.pc = "fact", !.id = i]
            Edge(i) == [id |-> i, from |-> At(i).op.from, to |-> At(i).op.to]
            Lock(i) == [NoLocks EXCEPT !.edges = {i}, !.refer = ends]
<1>1. PICK i \in EdgeIds \ used :
         \/ ends \subseteq Live(S) /\ Write(c, [S EXCEPT !.edges = @ \cup {Edge(i)}], Lock(i), At(i))
         \/ Rollback(c, "failed")
  BY Zenon DEF Link
<1>. DEFINE k    == At(i)
            edge == Edge(i)
            lock == Lock(i)
            R    == S.edges \cup {edge}
<1>2. /\ Follows(k, calls[c]) /\ k.pc = "fact" /\ k.id = i
      /\ k.drops = calls[c].drops /\ k.todo = calls[c].todo /\ k.read = calls[c].read
  <2>1. IsCall(calls[c])
    BY CallIs
  <2>2. k.pc = "fact" /\ k.id = i /\ k.drops = calls[c].drops /\ k.todo = calls[c].todo /\ k.read = calls[c].read
    BY <2>1 DEF IsCall, Fields
  <2>. QED  BY <2>1, <2>2 DEF Follows, IsCall, Fields
<1>3. /\ calls[c].pc = "link" /\ calls[c].op.kind = "edge" /\ calls[c].op \in Input
      /\ Untouched(calls[c])
  BY CallOf DEF Link, CallTyped, Early, Ended
<1>4. calls[c].op.from \in EntityIds /\ calls[c].op.to \in EntityIds
  BY <1>3 DEF Input
<1>5. S = db /\ Sound(S) /\ S.edges \in SUBSET EdgeRow /\ Ids(S.edges) \subseteq Subjects(log)
  BY <1>3, CallOf, SeeNothing DEF Untouched, PgInv, RowInv, CallInv, Sound, Tables, EdgeRow
<1>6. edge.id = i /\ Ends(edge) = ends /\ edge \in EdgeRow
  BY <1>2, <1>4 DEF Ends, EdgeRow, Follows
<1>7. i \notin Subjects(log)
  BY DEF Subjects
<1>8. lock.edges = {i} /\ lock.refer = ends
  BY DEF NoLocks
<1>9. KnownEdges(k) = Subjects(log) \cup {i}
  BY <1>2, <1>3 DEF KnownEdges, Follows
<1>10. [S EXCEPT !.edges = @ \cup {edge}] = [S EXCEPT !.edges = R]
  BY <1>5 DEF Sound, Tables
<1>11. \/ ends \subseteq Live(S) /\ Write(c, [S EXCEPT !.edges = R], lock, k)
       \/ Rollback(c, "failed")
  BY <1>1, <1>10
<1>. HIDE DEF k, edge, lock, At, Edge, Lock
<1>12. CallTyped(k)
  BY <1>2, <1>3, CallOf DEF CallTyped, Ended, Follows
<1>13. Spent(k) /\ k.read \subseteq log
  BY <1>2, <1>3, CallOf DEF Spent, Follows, Ended
<1>14. ASSUME ends \subseteq Live(S), Write(c, [S EXCEPT !.edges = R], lock, k)
       PROVE  PgInv'
  <2>1. R \in SUBSET EdgeRow /\ \A e \in R : Ends(e) \subseteq Live(S)
    BY <1>5, <1>6, <1>14 DEF Sound, Refers, Ends
  <2>2. \A e, f \in R : e.id = f.id => e = f
    BY <1>5, <1>6, <1>7 DEF Sound, Unique, Ids
  <2>3. \A e \in Change(S.edges, R) : e.id \in lock.edges
    BY <1>6, <1>8 DEF Change
  <2>4. \A e \in R \ S.edges : \A j \in Ends(e) :
          j \in lock.refer \/ \E g \in S.edges : g.id = e.id /\ j \in Ends(g)
    BY <1>6, <1>8
  <2>5. Ids(R) \subseteq Subjects(log) \cup {i}
    BY <1>5, <1>6 DEF Ids
  <2>. HIDE DEF R
  <2>6. /\ Sound([S EXCEPT !.edges = R]) /\ CoverChange(lock, S, [S EXCEPT !.edges = R])
        /\ [S EXCEPT !.edges = R].edges = R
    BY <1>5, <2>1, <2>2, <2>3, <2>4, EdgesWritten
  <2>7. Ids([S EXCEPT !.edges = R].edges) \subseteq KnownEdges(k)
    BY <1>9, <2>5, <2>6
  <2>. QED  BY <1>2, <1>12, <1>13, <1>14, <2>6, <2>7, Onward DEF Follows, Ended
<1>. QED  BY <1>11, <1>14, RollbackStep DEF Ended

\* An edge is deleted.
LEMMA UnlinkSound ==
  ASSUME PgInv, Inv', NEW c \in Calls, Unlink(c)
  PROVE  PgInv'
<1>. DEFINE S    == View(c)
            k    == [calls[c] EXCEPT !.pc = "fact", !.id = calls[c].op.id]
            lock == [NoLocks EXCEPT !.edges = {k.id}]
            R    == {e \in S.edges : e.id # k.id}
<1>1. /\ Follows(k, calls[c]) /\ k.pc = "fact" /\ k.id = calls[c].op.id
      /\ k.drops = calls[c].drops /\ k.todo = calls[c].todo /\ k.read = calls[c].read
  BY CallIs DEF Follows, IsCall, Fields
<1>2. calls[c].pc = "unlink" /\ calls[c].op.kind = "unlink" /\ calls[c].op \in Input
  BY CallOf DEF Unlink, CallTyped, Ended
<1>3. calls[c].op.id \in EdgeIds
  BY <1>2 DEF Input
<1>4. Sound(S) /\ S.edges \in SUBSET EdgeRow /\ Ids(S.edges) \subseteq KnownEdges(calls[c])
  BY CallOf DEF Sound, Tables, EdgeRow
<1>5. KnownEdges(k) = KnownEdges(calls[c])
  BY <1>1, <1>2 DEF KnownEdges, Follows
<1>6. Write(c, [S EXCEPT !.edges = {e \in @ : e.id # k.id}], lock, k)
  BY Zenon DEF Unlink
<1>7. [S EXCEPT !.edges = {e \in @ : e.id # k.id}] = [S EXCEPT !.edges = R]
  BY <1>4 DEF Sound, Tables
<1>8. lock.edges = {k.id}
  BY DEF NoLocks
<1>. HIDE DEF k, lock
<1>9. CallTyped(k)
  BY <1>1, <1>2, <1>3, CallOf DEF CallTyped, Ended, Follows
<1>10. Spent(k) /\ k.read \subseteq log
  BY <1>1, <1>2, CallOf DEF Spent, Follows, Ended
<1>11. R \in SUBSET EdgeRow /\ R \subseteq S.edges
  BY <1>4
<1>12. /\ \A e, f \in R : e.id = f.id => e = f
       /\ \A e \in R : Ends(e) \subseteq Live(S)
  BY <1>4, <1>11 DEF Sound, Unique, Refers, Ends
<1>13. \A e \in Change(S.edges, R) : e.id \in lock.edges
  BY <1>8 DEF Change
<1>14. Write(c, [S EXCEPT !.edges = R], lock, k)
  BY <1>6, <1>7
<1>. HIDE DEF R
<1>15. /\ Sound([S EXCEPT !.edges = R]) /\ CoverChange(lock, S, [S EXCEPT !.edges = R])
       /\ [S EXCEPT !.edges = R].edges = R
  BY <1>4, <1>11, <1>12, <1>13, EdgesWritten
<1>16. Ids([S EXCEPT !.edges = R].edges) \subseteq KnownEdges(k)
  BY <1>4, <1>5, <1>11, <1>15 DEF Ids
<1>. QED  BY <1>1, <1>9, <1>10, <1>14, <1>15, <1>16, Onward DEF Follows, Ended

\* A rebuild empties every table.
LEMMA ClearSound ==
  ASSUME PgInv, Inv', NEW c \in Calls, Clear(c)
  PROVE  PgInv'
<1>. DEFINE S == View(c)
            k == [calls[c] EXCEPT !.pc = "read"]
            lock == [write |-> Live(S), gone |-> Live(S), refer |-> {},
                     keys |-> {x.key : x \in S.ext}, edges |-> Ids(S.edges)]
<1>1. /\ Follows(k, calls[c]) /\ k.pc = "read" /\ k.id = calls[c].id
      /\ k.drops = calls[c].drops /\ k.todo = calls[c].todo /\ k.read = calls[c].read
  BY CallIs DEF Follows, IsCall, Fields
<1>2. calls[c].pc = "clear" /\ calls[c].op.kind = "rebuild" /\ Write(c, Empty, lock, k)
  BY CallOf, Zenon DEF Clear, Placed
<1>3. Empty.entities = {} /\ Empty.ext = {} /\ Empty.edges = {}
  BY DEF Empty, Names
<1>4. CoverChange(lock, S, Empty)
  BY <1>3, EmptySound DEF CoverChange, Change, Live, Ids
<1>5. Ids(Empty.edges) \subseteq KnownEdges(k)
  BY <1>3 DEF Ids
<1>. HIDE DEF k, lock
<1>6. CallTyped(k)
  BY <1>1, <1>2, CallOf DEF CallTyped, Ended, Follows
<1>7. Spent(k) /\ k.read \subseteq log
  BY <1>1, <1>2, CallOf DEF Spent, Follows, Ended
<1>. QED  BY <1>1, <1>2, <1>4, <1>5, <1>6, <1>7, EmptySound, Onward DEF Follows, Ended

\* The delete of an entity, with what cascades.
LEMMA DeleteSound ==
  ASSUME NEW S, Sound(S), NEW i, NEW l,
         NEW r \in SUBSET S.entities, r # {}, \A e \in r : e.id = i,
         NEW T, T = [t \in Names |-> T[t]],
         T.entities = S.entities \ r, T.ext = S.ext \ ReferTo(S, i).ext,
         T.edges = S.edges \ ReferTo(S, i).edges,
         i \in l.write, i \in l.gone,
         {x.key : x \in ReferTo(S, i).ext} \subseteq l.keys, Ids(ReferTo(S, i).edges) \subseteq l.edges
  PROVE  Sound(T) /\ CoverChange(l, S, T) /\ T.edges \subseteq S.edges /\ Live(T) = Live(S) \ {i}
<1>1. /\ T.entities = S.entities \ r
      /\ T.ext = {x \in S.ext : x.entity # i}
      /\ T.edges = {e \in S.edges : e.from # i /\ e.to # i}
  BY DEF ReferTo
<1>3. T \in Tables
  BY <1>1, TablesOf DEF Sound, Tables, RowProps
<1>4. Unique(T)
  BY <1>1 DEF Sound, Unique
<1>6. \A e \in S.entities : e.id = i => e \in r
  BY DEF Sound, Unique
<1>7. Live(T) = Live(S) \ {i}
  BY <1>1, <1>6 DEF Live, Ids
<1>8. Refers(T)
  BY <1>1, <1>7 DEF Sound, Refers
<1>9. CoverChange(l, S, T)
  <2>1. \A e \in Change(S.entities, T.entities) : e.id \in l.write
    BY <1>1 DEF Change
  <2>2. \A x \in Change(S.ext, T.ext) : x.key \in l.keys
    BY <1>1 DEF Change, ReferTo
  <2>3. \A e \in Change(S.edges, T.edges) : e.id \in l.edges
    BY <1>1 DEF Change, ReferTo, Ids
  <2>4. \A j \in Live(S) \ Live(T) : j \in l.gone
    BY <1>7
  <2>5. T.ext \ S.ext = {} /\ T.edges \ S.edges = {}
    BY <1>1
  <2>. QED  BY <2>1, <2>2, <2>3, <2>4, <2>5 DEF CoverChange
<1>. QED  BY <1>1, <1>3, <1>4, <1>7, <1>8, <1>9 DEF Sound

\* DeleteEntity is a write of sound tables.
LEMMA DeleteEntityRows ==
  ASSUME PgInv, NEW c \in Calls, NEW i, NEW k, NEW l, LockSet(l), DeleteEntity(c, i, k, l)
  PROVE  \E T, m : /\ Sound(T) /\ CoverChange(m, View(c), T) /\ T.edges \subseteq View(c).edges
                   /\ Live(View(c)) \ {i} \subseteq Live(T) /\ Live(T) \subseteq Live(View(c))
                   /\ Write(c, T, m, k)
<1>. DEFINE S == View(c)
            kids == ReferTo(S, i)
            r == {e \in S.entities : e.id = i /\ e.by = calls[c].seen}
            m == [write |-> {i}, gone |-> {i}, refer |-> {},
                  keys |-> {x.key : x \in kids.ext}, edges |-> Ids(kids.edges)]
            T == [entities |-> S.entities \ r, ext |-> S.ext \ kids.ext, edges |-> S.edges \ kids.edges]
<1>0. Sound(S)
  BY CallOf
<1>1. IF r = {} THEN Write(c, S, l, k) ELSE Write(c, T, Both(l, m), k)
  BY Zenon DEF DeleteEntity
<1>2. CASE r = {}
  BY <1>0, <1>1, <1>2, SameCovered
<1>3. CASE r # {}
  <2>1. /\ Both(l, m).write = l.write \cup m.write /\ Both(l, m).gone = l.gone \cup m.gone
        /\ Both(l, m).keys = l.keys \cup m.keys /\ Both(l, m).edges = l.edges \cup m.edges
    BY BothLocks
  <2>2. /\ i \in Both(l, m).write /\ i \in Both(l, m).gone
        /\ {x.key : x \in ReferTo(S, i).ext} \subseteq Both(l, m).keys
        /\ Ids(ReferTo(S, i).edges) \subseteq Both(l, m).edges
    BY <2>1
  <2>3. /\ r \in SUBSET S.entities /\ \A e \in r : e.id = i
        /\ T = [t \in Names |-> T[t]] /\ T.entities = S.entities \ r
        /\ T.ext = S.ext \ ReferTo(S, i).ext /\ T.edges = S.edges \ ReferTo(S, i).edges
    BY DEF Names
  <2>4. Sound(T) /\ CoverChange(Both(l, m), S, T) /\ Live(T) = Live(S) \ {i}
    <3>. DEFINE n == Both(l, m)
    <3>1. /\ i \in n.write /\ i \in n.gone
          /\ {x.key : x \in ReferTo(S, i).ext} \subseteq n.keys /\ Ids(ReferTo(S, i).edges) \subseteq n.edges
      BY <2>2
    <3>. HIDE DEF S, r, m, T, kids, n
    <3>2. Sound(T) /\ CoverChange(n, S, T)
      BY <1>0, <1>3, <2>3, <3>1, DeleteSound
    <3>3. Live(T) = Live(S) \ {i}
      <4>1. \A e \in S.entities : e.id = i => e \in r
        BY <1>0, <1>3, <2>3 DEF Sound, Unique
      <4>. QED  BY <2>3, <4>1 DEF Live, Ids
    <3>. QED  BY <3>2, <3>3 DEF n
  <2>5. T.edges \subseteq S.edges
    OBVIOUS
  <2>. HIDE DEF T, m
  <2>. QED  BY <1>1, <1>3, <2>4, <2>5
<1>. QED  BY <1>2, <1>3

\* A merge deletes the node it drops.
LEMMA DropSound ==
  ASSUME PgInv, Inv', NEW c \in Calls, Drop(c)
  PROVE  PgInv'
<1>. DEFINE k == [calls[c] EXCEPT !.pc = "mergefact"]
            l == [NoLocks EXCEPT !.write = {calls[c].id} \cap Live(View(c))]
<1>1. /\ Follows(k, calls[c]) /\ k.pc = "mergefact" /\ k.id = calls[c].id
      /\ k.drops = calls[c].drops /\ k.todo = calls[c].todo /\ k.read = calls[c].read
  BY CallIs DEF Follows, IsCall, Fields
<1>2. calls[c].pc = "drop" /\ DeleteEntity(c, Dropped(c), k, l)
  BY Zenon DEF Drop
<1>3. LockSet(l)
  BY DEF LockSet, NoLocks
<1>. HIDE DEF k, l
<1>4. PICK T, m : /\ Sound(T) /\ CoverChange(m, View(c), T) /\ T.edges \subseteq View(c).edges
                  /\ Write(c, T, m, k)
  BY <1>2, <1>3, DeleteEntityRows
<1>5. Ids(T.edges) \subseteq KnownEdges(k)
  BY <1>1, <1>4, CallOf DEF KnownEdges, Follows, Ids
<1>6. CallTyped(k)
  BY <1>1, <1>2, CallOf DEF CallTyped, Ended, Follows
<1>7. Spent(k) /\ k.read \subseteq log
  BY <1>1, <1>2, CallOf DEF Spent, Follows, Ended
<1>. QED  BY <1>1, <1>4, <1>5, <1>6, <1>7, Onward DEF Follows, Ended

\* A retraction deletes its node.
LEMMA RetractSound ==
  ASSUME PgInv, Inv', NEW c \in Calls, Retract(c)
  PROVE  PgInv'
<1>. DEFINE k == [calls[c] EXCEPT !.pc = "fact", !.id = calls[c].op.id]
<1>1. /\ Follows(k, calls[c]) /\ k.pc = "fact" /\ k.id = calls[c].op.id
      /\ k.drops = calls[c].drops /\ k.todo = calls[c].todo /\ k.read = calls[c].read
  BY CallIs DEF Follows, IsCall, Fields
<1>2. /\ calls[c].pc = "delete" /\ calls[c].op.kind = "retract" /\ calls[c].op \in Input
      /\ DeleteEntity(c, calls[c].op.id, k, NoLocks)
  BY CallOf, Zenon DEF Retract, CallTyped, Ended
<1>3. LockSet(NoLocks)
  BY DEF LockSet, NoLocks
<1>4. calls[c].op.id \in EntityIds
  BY <1>2 DEF Input
<1>. HIDE DEF k
<1>5. PICK T, m : /\ Sound(T) /\ CoverChange(m, View(c), T) /\ T.edges \subseteq View(c).edges
                  /\ Write(c, T, m, k)
  BY <1>2, <1>3, DeleteEntityRows
<1>6. KnownEdges(k) = KnownEdges(calls[c])
  BY <1>1, <1>2 DEF KnownEdges, Follows
<1>7. Ids(T.edges) \subseteq KnownEdges(k)
  BY <1>5, <1>6, CallOf DEF Ids
<1>8. CallTyped(k)
  BY <1>1, <1>2, <1>4, CallOf DEF CallTyped, Ended, Follows
<1>9. Spent(k) /\ k.read \subseteq log
  BY <1>1, <1>2, CallOf DEF Spent, Follows, Ended
<1>. QED  BY <1>1, <1>5, <1>7, <1>8, <1>9, Onward DEF Follows, Ended

----------------------------------------------------------------------------
(* The steps that write a fact and end a transaction. *)

\* A fact of the call h, and where the call goes on.
FactOf(c, fact) ==
  LET h == calls[c] IN
  /\ fact.kind = IF h.pc = "mergefact" THEN "merge" ELSE h.op.kind
  /\ fact.writer = h.op.writer /\ fact.key = KeyOf(c) /\ fact.seq = seq + 1
  /\ fact.subject = (IF h.pc = "mergefact" THEN Dropped(c) ELSE h.id) /\ fact.keep = h.id
  /\ fact.keys = (IF h.op.kind = "assert" THEN h.op.keys ELSE {})
  /\ fact.props = (IF h.op.kind = "assert" THEN Logged(h.op.props) ELSE {})
  /\ fact.ends = (IF h.op.kind = "edge" THEN <<h.op.from, h.op.to>> ELSE <<>>)

AfterFact(c, fact, k) ==
  LET h == calls[c] IN
  /\ IsCall(k) /\ k.op = h.op /\ k.facts = h.facts \cup {fact} /\ k.id = h.id /\ k.tx = h.tx
  /\ k.todo = h.todo /\ k.read = h.read /\ k.del = h.del /\ k.add = h.add /\ k.locks = h.locks
  /\ k.drops = (IF h.pc = "mergefact" THEN h.drops \ {Dropped(c)} ELSE h.drops)
  /\ \/ h.pc = "mergefact" /\ h.op.kind = "assert" /\ k.pc = IF k.drops = {} THEN "exists" ELSE "move"
     \/ h.pc = "fact" /\ h.op.kind \in {"assert", "edge"} /\ k.pc = "answer"
     \/ h.pc = "mergefact" /\ h.op.kind = "merge" /\ k.pc = "commit"
     \/ h.pc = "fact" /\ h.op.kind \in {"retract", "unlink"} /\ k.pc = "commit"

\* What an insert does.
LEMMA Inserted ==
  ASSUME PgInv, NEW c \in Calls, InsertFact(c)
  PROVE  /\ calls[c].pc \in {"fact", "mergefact"}
         /\ log' = log /\ db' = db /\ begun' = begun /\ seq' = seq + 1
         /\ \A o \in Calls \ {c} : \A g \in calls[o].facts :
              ~ (g.writer = calls[c].op.writer /\ g.key = KeyOf(c))
         /\ \/ calls' = [calls EXCEPT ![c] = [Idle EXCEPT !.pc = "nothing", !.op = calls[c].op]]
            \/ /\ \A g \in log : ~ (g.writer = calls[c].op.writer /\ g.key = KeyOf(c))
               /\ \E fact, k : calls' = [calls EXCEPT ![c] = k] /\ FactOf(c, fact) /\ AfterFact(c, fact, k)
<1>. DEFINE h == calls[c]
            same(F) == \E f \in F : f.writer = h.op.writer /\ f.key = KeyOf(c)
            fact == [seq |-> seq + 1, kind |-> IF h.pc = "mergefact" THEN "merge" ELSE h.op.kind,
                     writer |-> h.op.writer, key |-> KeyOf(c),
                     subject |-> IF h.pc = "mergefact" THEN Dropped(c) ELSE h.id,
                     keep |-> h.id,
                     keys |-> IF h.op.kind = "assert" THEN h.op.keys ELSE {},
                     props |-> IF h.op.kind = "assert" THEN Logged(h.op.props) ELSE {},
                     ends |-> IF h.op.kind = "edge" THEN <<h.op.from, h.op.to>> ELSE <<>>]
            rest == [h EXCEPT !.facts = @ \cup {fact},
                              !.drops = IF h.pc = "mergefact" THEN @ \ {Dropped(c)} ELSE @]
            place == CASE h.pc = "mergefact" /\ h.op.kind = "assert" ->
                            IF rest.drops = {} THEN "exists" ELSE "move"
                       [] h.pc = "fact" /\ h.op.kind \in {"assert", "edge"} -> "answer"
                       [] OTHER -> "commit"
            k == [rest EXCEPT !.pc = place]
<1>1. /\ h.pc \in {"fact", "mergefact"} /\ log' = log /\ db' = db /\ begun' = begun /\ seq' = seq + 1
      /\ \A o \in Calls \ {c} : ~ same(calls[o].facts)
  BY DEF InsertFact
<1>2. calls' = [calls EXCEPT ![c] = IF same(log) THEN [Idle EXCEPT !.pc = "nothing", !.op = h.op] ELSE k]
  BY Zenon DEF InsertFact
<1>3. IsCall(h) /\ Placed(h) /\ CallTyped(h)
  BY CallOf
<1>4. FactOf(c, fact)
  BY DEF FactOf
<1>. HIDE DEF fact
<1>5. /\ IsCall(rest) /\ rest.op = h.op /\ rest.facts = h.facts \cup {fact} /\ rest.id = h.id /\ rest.tx = h.tx
      /\ rest.todo = h.todo /\ rest.read = h.read /\ rest.del = h.del /\ rest.add = h.add
      /\ rest.locks = h.locks
      /\ rest.drops = (IF h.pc = "mergefact" THEN h.drops \ {Dropped(c)} ELSE h.drops)
  BY <1>3 DEF IsCall, Fields
<1>. HIDE DEF rest
<1>6. \/ h.pc = "mergefact" /\ h.op.kind = "assert" /\ place = IF rest.drops = {} THEN "exists" ELSE "move"
      \/ h.pc = "fact" /\ h.op.kind \in {"assert", "edge"} /\ place = "answer"
      \/ h.pc = "mergefact" /\ h.op.kind = "merge" /\ place = "commit"
      \/ h.pc = "fact" /\ h.op.kind \in {"retract", "unlink"} /\ place = "commit"
  BY <1>1, <1>3 DEF Placed, CallTyped
<1>. HIDE DEF place
<1>7. AfterFact(c, fact, k)
  BY <1>5, <1>6 DEF AfterFact, IsCall, Fields
<1>. HIDE DEF k, h
<1>8. CASE same(log)
  BY <1>1, <1>2, <1>8 DEF h
<1>9. CASE ~ same(log)
  <2>1. calls' = [calls EXCEPT ![c] = k]
    BY <1>2, <1>9
  <2>2. \A g \in log : ~ (g.writer = calls[c].op.writer /\ g.key = KeyOf(c))
    BY <1>9 DEF h
  <2>3. \E e, j : calls' = [calls EXCEPT ![c] = j] /\ FactOf(c, e) /\ AfterFact(c, e, j)
    BY <1>4, <1>7, <2>1
  <2>. HIDE DEF same
  <2>. QED  BY <1>1, <2>2, <2>3 DEF h, same
<1>. QED  BY <1>8, <1>9

\* A fact is one a rebuild can read.
LEMMA FactOfTyped ==
  ASSUME PgInv, NEW c \in Calls, calls[c].pc \in {"fact", "mergefact"}, NEW fact, FactOf(c, fact)
  PROVE  FactTyped(fact)
<1>1. Placed(calls[c]) /\ CallTyped(calls[c]) /\ calls[c].op \in Input
  BY CallOf DEF CallTyped, Ended
<1>2. CASE calls[c].pc = "mergefact"
  <2>1. fact.kind = "merge" /\ fact.subject = Dropped(c) /\ fact.keep = calls[c].id
    BY <1>2 DEF FactOf
  <2>2. Dropped(c) \in EntityIds /\ calls[c].id \in EntityIds
    BY <1>1, <1>2, DroppedIn DEF CallTyped
  <2>. QED  BY <2>1, <2>2 DEF FactTyped
<1>3. CASE calls[c].pc = "fact" /\ calls[c].op.kind = "assert"
  <2>1. calls[c].op.keys \subseteq Keys /\ Logged(calls[c].op.props) \in {JsonNull} \cup Objects
    BY <1>1, <1>3, StoredIs DEF Input
  <2>2. calls[c].id \in EntityIds
    BY <1>1, <1>3 DEF CallTyped
  <2>. QED  BY <1>3, <2>1, <2>2 DEF FactOf, FactTyped
<1>4. CASE calls[c].pc = "fact" /\ calls[c].op.kind = "edge"
  <2>1. calls[c].op.from \in EntityIds /\ calls[c].op.to \in EntityIds
    BY <1>1, <1>4 DEF Input
  <2>2. calls[c].id \in EdgeIds
    BY <1>1, <1>4 DEF CallTyped
  <2>3. fact.kind = "edge" /\ fact.subject = calls[c].id /\ fact.ends = <<calls[c].op.from, calls[c].op.to>>
    BY <1>4 DEF FactOf
  <2>. QED  BY <2>1, <2>2, <2>3 DEF FactTyped
<1>5. CASE calls[c].pc = "fact" /\ calls[c].op.kind \in {"retract", "unlink"}
  BY <1>1, <1>5 DEF FactOf, FactTyped, CallTyped
<1>. QED  BY <1>1, <1>2, <1>3, <1>4, <1>5 DEF CallTyped

\* Its key is none the transaction wrote before.
LEMMA FactOfNew ==
  ASSUME PgInv, NEW c \in Calls, calls[c].pc \in {"fact", "mergefact"}, NEW fact, FactOf(c, fact)
  PROVE  \A g \in calls[c].facts : ~ SameFactKey(fact, g)
<1>1. Placed(calls[c]) /\ CallTyped(calls[c]) /\ Spent(calls[c])
  BY CallOf
<1>2. CASE calls[c].op.kind # "assert"
  BY <1>1, <1>2 DEF Spent
<1>3. CASE calls[c].op.kind = "assert"
  <2>. SUFFICES ASSUME NEW g \in calls[c].facts, SameFactKey(fact, g) PROVE FALSE
    OBVIOUS
  <2>1. g.key = KeyOf(c) /\ g.key[1] = "mergeof" /\ g.key[3] \notin calls[c].drops
    BY <1>1 DEF FactOf, SameFactKey, Spent
  <2>2. calls[c].pc = "mergefact" /\ KeyOf(c) = <<"mergeof", calls[c].op.dedupe, Dropped(c)>>
    BY <1>1, <1>3, <2>1, KeyTag
  <2>3. Dropped(c) \in calls[c].drops
    BY <1>1, <2>2, DroppedIn DEF CallTyped
  <2>. QED  BY <2>1, <2>2, <2>3
<1>. QED  BY <1>2, <1>3

\* A fact is written.
LEMMA InsertSound ==
  ASSUME PgInv, Inv', NEW c \in Calls, InsertFact(c)
  PROVE  PgInv'
<1>0. /\ calls[c].pc \in {"fact", "mergefact"}
      /\ log' = log /\ db' = db /\ begun' = begun /\ seq' = seq + 1
      /\ begun' \in Nat /\ seq' \in Nat
      /\ \A o \in Calls \ {c} : \A g \in calls[o].facts :
           ~ (g.writer = calls[c].op.writer /\ g.key = KeyOf(c))
  <2>1. /\ calls[c].pc \in {"fact", "mergefact"}
        /\ log' = log /\ db' = db /\ begun' = begun /\ seq' = seq + 1
        /\ \A o \in Calls \ {c} : \A g \in calls[o].facts :
             ~ (g.writer = calls[c].op.writer /\ g.key = KeyOf(c))
    BY Inserted
  <2>2. begun \in Nat /\ seq \in Nat
    BY DEF PgInv, CallInv
  <2>. QED  BY <2>1, <2>2
<1>1. CASE calls' = [calls EXCEPT ![c] = [Idle EXCEPT !.pc = "nothing", !.op = calls[c].op]]
  <2>. DEFINE k == [Idle EXCEPT !.pc = "nothing", !.op = calls[c].op]
  <2>1. /\ k.op = calls[c].op /\ k.facts = {} /\ k.pc = "nothing" /\ k.tx = 0 /\ k.drops = {} /\ k.todo = {}
        /\ k.del = Empty /\ k.add = Empty /\ k.locks = NoLocks /\ k.read = {}
    BY DEF Idle
  <2>2. calls' = [calls EXCEPT ![c] = k]
    BY <1>1
  <2>. HIDE DEF k
  <2>3. CallTyped(k) /\ Untouched(k)
    BY <2>1 DEF CallTyped, Untouched, Ended
  <2>. QED  BY <1>0, <2>1, <2>2, <2>3, Fresh
<1>2. ASSUME \A g \in log : ~ (g.writer = calls[c].op.writer /\ g.key = KeyOf(c)),
             NEW fact, NEW k, calls' = [calls EXCEPT ![c] = k], FactOf(c, fact), AfterFact(c, fact, k)
      PROVE  PgInv'
  <2>1. calls'[c] = k /\ \A o \in Calls \ {c} : calls'[o] = calls[o]
    BY <1>2 DEF PgInv, Inv, CallsPlaced
  <2>2. RowInv'
    BY <1>0, <1>2, KeepRows DEF PgInv, Inv, AfterFact
  <2>3. FactTyped(fact) /\ fact.subject = (IF calls[c].pc = "mergefact" THEN Dropped(c) ELSE calls[c].id)
    BY <1>0, <1>2, FactOfTyped DEF FactOf
  <2>4. CallTyped(k)
    <3>1. \A f \in k.facts : FactTyped(f)
      BY <1>2, <2>3, CallOf DEF AfterFact, CallTyped
    <3>2. k.pc \in {"answer", "commit"} /\ k.op.kind = "edge" => k.id \in Subjects(k.facts)
      BY <1>2, <2>3, CallOf DEF AfterFact, Subjects
    <3>3. k.drops \in SUBSET EntityIds /\ k.op \in Input
      BY <1>0, <1>2, CallOf DEF AfterFact, CallTyped, Ended
    <3>4. k.pc = "move" => k.drops # {}
      BY <1>2 DEF AfterFact
    <3>5. k.pc \in {"exists", "move", "answer", "commit"}
      BY <1>2 DEF AfterFact
    <3>6. k.pc \in {"exists", "move"} => k.op.kind = "assert" /\ k.id \in EntityIds
      BY <1>2, CallOf DEF AfterFact, CallTyped
    <3>7. k.tx \in Nat /\ k.todo \in SUBSET Keys
      BY <1>2, CallOf DEF AfterFact, CallTyped
    <3>. QED  BY <3>1, <3>2, <3>3, <3>4, <3>5, <3>6, <3>7 DEF CallTyped
  <2>5. Spent(k)
    <3>1. k.pc # "hits"
      BY <1>2 DEF AfterFact
    <3>2. ASSUME k.pc \notin {"answer", "commit"}
          PROVE  /\ k.op.kind = "assert"
                 /\ \A f \in k.facts : f.key[1] = "mergeof" /\ f.key[3] \notin k.drops
      <4>1. calls[c].pc = "mergefact" /\ k.op.kind = "assert" /\ calls[c].op.kind = "assert"
            /\ k.drops = calls[c].drops \ {Dropped(c)}
        BY <1>2, <3>2 DEF AfterFact
      <4>2. fact.key = <<"mergeof", calls[c].op.dedupe, Dropped(c)>>
        BY <1>2, <4>1 DEF FactOf, KeyOf
      <4>3. \A f \in calls[c].facts : f.key[1] = "mergeof" /\ f.key[3] \notin calls[c].drops
        BY <4>1, CallOf DEF Spent
      <4>. QED  BY <1>2, <4>1, <4>2, <4>3 DEF AfterFact
    <3>. QED  BY <3>1, <3>2 DEF Spent
  <2>6. Early(k)
    BY <1>2 DEF Early, AfterFact, Ended
  <2>7. k.read \subseteq log
    BY <1>2, CallOf DEF AfterFact
  <2>8. \A o \in Calls : CallOK(calls[o])' /\ calls'[o].read \subseteq log'
    <3>1. CallOK(calls[c])' /\ calls'[c].read \subseteq log'
      BY <1>0, <2>1, <2>4, <2>5, <2>6, <2>7
         DEF CallOK, CallTyped, Early, Spent, Untouched, FactTyped, Subjects
    <3>2. \A o \in Calls \ {c} : CallOK(calls[o])' /\ calls'[o].read \subseteq log'
      BY <1>0, <2>1 DEF PgInv, CallInv, CallOK, CallTyped, Early, Spent, Untouched, FactTyped, Subjects
    <3>. QED  BY <3>1, <3>2
  <2>9. \A o \in Calls : Ids(See(calls[o]).edges)' \subseteq KnownEdges(calls[o])'
    <3>. SUFFICES ASSUME NEW o \in Calls PROVE Ids(See(calls[o]).edges)' \subseteq KnownEdges(calls[o])'
      OBVIOUS
    <3>1. /\ calls'[o].del = calls[o].del /\ calls'[o].add = calls[o].add
          /\ calls'[o].op = calls[o].op /\ calls'[o].id = calls[o].id
      BY <1>2, <2>1 DEF AfterFact
    <3>2. Ids(See(calls[o]).edges)' = Ids(See(calls[o]).edges)
      BY <1>0, <3>1 DEF See, Ids
    <3>3. KnownEdges(calls[o])' = KnownEdges(calls[o])
      BY <1>0, <3>1 DEF KnownEdges, Subjects
    <3>4. Ids(See(calls[o]).edges) \subseteq KnownEdges(calls[o])
      BY CallOf
    <3>. QED  BY <3>2, <3>3, <3>4
  <2>10. KeysOnce'
    <3>1. \A g \in calls[c].facts : ~ SameFactKey(fact, g)
      BY <1>0, <1>2, FactOfNew
    <3>2. \A g \in log : ~ SameFactKey(fact, g)
      BY <1>2 DEF FactOf, SameFactKey
    <3>3. \A o \in Calls \ {c} : \A g \in calls[o].facts : ~ SameFactKey(fact, g) /\ ~ SameFactKey(g, fact)
      BY <1>0, <1>2 DEF FactOf, SameFactKey
    <3>4. \A f, g : SameFactKey(f, g) => SameFactKey(g, f)
      BY DEF SameFactKey
    <3>5. fact.writer = k.op.writer /\ k.op = calls[c].op /\ k.facts = calls[c].facts \cup {fact}
      BY <1>2 DEF FactOf, AfterFact
    <3>6. \A f, g : SameFactKey(f, g)' <=> SameFactKey(f, g)
      BY DEF SameFactKey
    <3>7. \A o \in Calls : \A f \in calls'[o].facts : f \in calls[o].facts \/ (o = c /\ f = fact)
      BY <2>1, <3>5
    <3>8. \A o \in Calls : calls'[o].op = calls[o].op
      BY <2>1, <3>5
    <3>9. KeysOnce
      BY DEF PgInv, CallInv
    <3>10. \A f, g \in log : SameFactKey(f, g) => f = g
      BY <3>9 DEF KeysOnce
    <3>11. \A o \in Calls : \A f \in calls'[o].facts :
             f.writer = calls'[o].op.writer /\ \A g \in log : ~ SameFactKey(f, g)
      BY <3>2, <3>5, <3>7, <3>8, <3>9 DEF KeysOnce
    <3>12. \A o, p \in Calls : \A f \in calls'[o].facts : \A g \in calls'[p].facts :
             SameFactKey(f, g) => o = p /\ f = g
      BY <3>1, <3>3, <3>4, <3>7, <3>9 DEF KeysOnce
    <3>. QED  BY <1>0, <3>10, <3>11, <3>12 DEF KeysOnce, SameFactKey
  <2>11. Ids(db.edges)' \subseteq Subjects(log)' /\ \A f \in log' : FactTyped(f)'
    BY <1>0 DEF PgInv, CallInv, Ids, Subjects, FactTyped
  <2>12. CallInv'
    BY <1>0, <2>8, <2>9, <2>10, <2>11 DEF CallInv
  <2>. QED  BY <2>2, <2>12 DEF PgInv
<1>. QED  BY <1>1, <1>2, Inserted

\* A transaction commits.
LEMMA CommitSound ==
  ASSUME PgInv, Inv', NEW c \in Calls, Commit(c)
  PROVE  PgInv'
<1>. DEFINE k == [Idle EXCEPT !.pc = "done"]
<1>0. /\ calls[c].pc = "commit" /\ db' = View(c) /\ log' = log \cup calls[c].facts
      /\ calls' = [calls EXCEPT ![c] = k] /\ begun' \in Nat /\ seq' \in Nat
  BY DEF Commit, PgInv, CallInv
<1>1. calls'[c] = k /\ \A o \in Calls \ {c} : calls'[o] = calls[o]
  BY <1>0 DEF PgInv, Inv, CallsPlaced
<1>2. RowInv'
  BY CommitRows DEF PgInv, Inv
<1>3. /\ k.pc = "done" /\ k.op.kind = "none" /\ k.facts = {} /\ k.tx = 0 /\ k.drops = {} /\ k.todo = {}
      /\ k.del = Empty /\ k.add = Empty /\ k.locks = NoLocks /\ k.read = {}
  BY DEF Idle
<1>. HIDE DEF k
<1>4. CallOK(k)
  BY <1>3 DEF CallOK, CallTyped, Early, Spent, Untouched, Ended
<1>5. \A o \in Calls : CallOK(calls[o])' /\ calls'[o].read \subseteq log'
  <2>1. CallOK(calls[c])' /\ calls'[c].read \subseteq log'
    BY <1>1, <1>3, <1>4 DEF CallOK, CallTyped, Early, Spent, Untouched, FactTyped, Subjects
  <2>2. \A o \in Calls \ {c} : CallOK(calls[o])' /\ calls'[o].read \subseteq log'
    BY <1>0, <1>1 DEF PgInv, CallInv, CallOK, CallTyped, Early, Spent, Untouched, FactTyped, Subjects
  <2>. QED  BY <2>1, <2>2
<1>6. \A f \in log' : FactTyped(f)
  BY <1>0, CallOf DEF PgInv, CallInv, CallTyped
<1>7. Ids(db'.edges) \subseteq Subjects(log')
  <2>1. Ids(See(calls[c]).edges) \subseteq KnownEdges(calls[c]) /\ View(c) = See(calls[c])
    BY CallOf
  <2>2. calls[c].op.kind = "edge" => calls[c].id \in Subjects(calls[c].facts)
    BY <1>0, CallOf DEF CallTyped
  <2>3. KnownEdges(calls[c]) \subseteq Subjects(log')
    BY <1>0, <2>2 DEF KnownEdges, Subjects
  <2>. QED  BY <1>0, <2>1, <2>3
<1>8. \A o \in Calls : Ids(See(calls[o]).edges)' \subseteq KnownEdges(calls[o])'
  <2>1. Ids(See(calls[c]).edges)' \subseteq KnownEdges(calls[c])'
    <3>1. See(calls[c])'.edges = db'.edges
      <4>1. See(calls[c])' = [t \in Names |-> (db'[t] \ Empty[t]) \cup Empty[t]]
        BY <1>1, <1>3 DEF See
      <4>. QED  BY <4>1 DEF Empty, Names
    <3>2. Ids(See(calls[c]).edges)' = Ids(db'.edges)
      BY <3>1 DEF Ids
    <3>. QED  BY <1>7, <3>2 DEF KnownEdges, Subjects
  <2>2. ASSUME NEW o \in Calls \ {c} PROVE Ids(See(calls[o]).edges)' \subseteq KnownEdges(calls[o])'
    <3>1. calls'[o] = calls[o]
      BY <1>1
    <3>2. See(calls[o])'.edges = (db'.edges \ calls[o].del.edges) \cup calls[o].add.edges
      BY <3>1 DEF See, Names
    <3>3. calls[o].add.edges \subseteq See(calls[o]).edges
      BY SeeRows
    <3>4. Ids(See(calls[o]).edges) \subseteq KnownEdges(calls[o])
      BY CallOf
    <3>5. KnownEdges(calls[o]) \subseteq KnownEdges(calls[o])' /\ Subjects(log') \subseteq KnownEdges(calls[o])'
      BY <1>0, <3>1 DEF KnownEdges, Subjects
    <3>6. \A e \in See(calls[o])'.edges : e.id \in KnownEdges(calls[o])'
      BY <1>7, <3>2, <3>3, <3>4, <3>5 DEF Ids
    <3>. QED  BY <3>6 DEF Ids
  <2>. QED  BY <2>1, <2>2
<1>9. KeysOnce'
  <2>1. KeysOnce
    BY DEF PgInv, CallInv
  <2>2. \A f, g : SameFactKey(f, g) => SameFactKey(g, f)
    BY DEF SameFactKey
  <2>3. \A f, g \in log' : SameFactKey(f, g) => f = g
    BY <1>0, <2>1, <2>2 DEF KeysOnce
  <2>4. \A o \in Calls : \A f \in calls'[o].facts : o # c /\ f \in calls[o].facts /\ calls'[o].op = calls[o].op
    BY <1>1, <1>3
  <2>5. \A o \in Calls \ {c} : \A f \in calls[o].facts : \A g \in log' : ~ SameFactKey(f, g)
    BY <1>0, <2>1 DEF KeysOnce
  <2>6. \A o \in Calls : \A f \in calls'[o].facts :
          f.writer = calls'[o].op.writer /\ \A g \in log' : ~ SameFactKey(f, g)
    BY <2>1, <2>4, <2>5 DEF KeysOnce
  <2>7. \A o, p \in Calls : \A f \in calls'[o].facts : \A g \in calls'[p].facts :
          SameFactKey(f, g) => o = p /\ f = g
    BY <2>1, <2>4 DEF KeysOnce
  <2>. QED  BY <2>3, <2>6, <2>7 DEF KeysOnce, SameFactKey
<1>10. CallInv'
  <2>1. \A f \in log' : FactTyped(f)'
    BY <1>6 DEF FactTyped
  <2>2. Ids(db.edges)' \subseteq Subjects(log)'
    BY <1>7 DEF Ids, Subjects
  <2>. QED  BY <1>0, <1>5, <1>8, <1>9, <2>1, <2>2 DEF CallInv
<1>. QED  BY <1>2, <1>10 DEF PgInv

----------------------------------------------------------------------------
(* The fold of a rebuild. *)

\* One step of the fold, at the n-th value of the sequence.
FactAt(F, n) == CHOOSE f \in {f \in F : f.seq = n} : TRUE
FoldStep(T, F, n, tx) ==
  IF {f \in F : f.seq = n} = {} \/ ~ Refers(T) THEN T ELSE FoldFact(T, FactAt(F, n), tx)

\* The tables a fold passes through: the function that Fold chooses exists, for the least
\* number of steps without one is none.
LEMMA FoldSteps ==
  ASSUME seq \in Nat, NEW S, NEW F, NEW tx
  PROVE  \E R : /\ R[0] = S /\ R[seq] = Fold(S, F, tx)
                /\ \A n \in 1 .. seq : R[n] = FoldStep(R[n - 1], F, n, tx)
<1>. DEFINE step(G, n) == IF n = 0 THEN S ELSE FoldStep(G[n - 1], F, n, tx)
            R == CHOOSE G : G = [n \in 0 .. seq |-> step(G, n)]
            Missing == {m \in Nat : ~ \E G : G = [n \in 0 .. m |-> step(G, n)]}
<1>1. Missing = {}
  <2>. SUFFICES ASSUME Missing # {} PROVE FALSE
    OBVIOUS
  <2>1. PICK m \in Missing : \A j \in Missing : m <= j
    <3>1. Missing \in SUBSET Nat
      OBVIOUS
    <3>. HIDE DEF Missing
    <3>. QED  BY <3>1, LeastOf
  <2>2. m \in Nat /\ ~ \E G : G = [n \in 0 .. m |-> step(G, n)]
    BY <2>1
  <2>3. CASE m = 0
    <3>. DEFINE H == [n \in 0 .. 0 |-> S]
    <3>1. \A n \in 0 .. 0 : step(H, n) = S
      OBVIOUS
    <3>. HIDE DEF step
    <3>2. H = [n \in 0 .. 0 |-> step(H, n)]
      BY <3>1
    <3>. QED  BY <2>2, <2>3, <3>2
  <2>4. CASE m # 0
    <3>1. m - 1 \in Nat /\ ~ m <= m - 1
      BY <2>2, <2>4
    <3>2. PICK G : G = [n \in 0 .. (m - 1) |-> step(G, n)]
      <4>1. m - 1 \notin Missing
        <5>. HIDE DEF Missing
        <5>. QED  BY <2>1, <3>1
      <4>. HIDE DEF step
      <4>. QED  BY <3>1, <4>1
    <3>. DEFINE H == [n \in 0 .. m |-> IF n = m THEN step(G, m) ELSE G[n]]
    <3>3. \A n \in 0 .. m : H[n] = step(H, n)
      <4>. SUFFICES ASSUME NEW n \in 0 .. m PROVE H[n] = step(H, n)
        OBVIOUS
      <4>1. CASE n = 0
        <5>1. H[n] = G[n] /\ n \in 0 .. (m - 1)
          BY <2>2, <2>4, <4>1
        <5>2. G[n] = step(G, n)
          <6>. HIDE DEF step, H
          <6>. QED  BY <3>2, <5>1
        <5>. QED  BY <4>1, <5>1, <5>2
      <4>2. CASE n # 0
        <5>1. n - 1 \in 0 .. m /\ n - 1 # m /\ H[n - 1] = G[n - 1]
          BY <2>2, <4>2
        <5>2. step(H, n) = step(G, n)
          BY <4>2, <5>1
        <5>3. CASE n = m
          <6>. HIDE DEF step
          <6>. QED  BY <5>2, <5>3
        <5>4. CASE n # m
          <6>1. n \in 0 .. (m - 1) /\ H[n] = G[n]
            BY <2>2, <5>4
          <6>2. G[n] = step(G, n)
            <7>. HIDE DEF step, H
            <7>. QED  BY <3>2, <6>1
          <6>. QED  BY <5>2, <6>1, <6>2
        <5>. QED  BY <5>3, <5>4
      <4>. QED  BY <4>1, <4>2
    <3>4. H = [n \in 0 .. m |-> H[n]]
      OBVIOUS
    <3>. HIDE DEF H, step
    <3>5. H = [n \in 0 .. m |-> step(H, n)]
      BY <3>3, <3>4
    <3>. QED  BY <2>2, <3>5
  <2>. QED  BY <2>3, <2>4
<1>2. \E G : G = [n \in 0 .. seq |-> step(G, n)]
  BY <1>1
<1>3. R = [n \in 0 .. seq |-> step(R, n)]
  <2>. HIDE DEF step, Missing
  <2>. QED  BY <1>2
<1>4. Fold(S, F, tx) = R[seq]
  BY DEF Fold, FoldStep, FactAt
<1>. HIDE DEF R
<1>5. R[0] = S
  <2>1. R[0] = step(R, 0)
    <3>. HIDE DEF step
    <3>. QED  BY <1>3
  <2>. QED  BY <2>1
<1>6. \A n \in 1 .. seq : R[n] = FoldStep(R[n - 1], F, n, tx)
  <2>. SUFFICES ASSUME NEW n \in 1 .. seq PROVE R[n] = FoldStep(R[n - 1], F, n, tx)
    OBVIOUS
  <2>1. R[n] = step(R, n)
    <3>. HIDE DEF step
    <3>. QED  BY <1>3
  <2>2. n # 0
    OBVIOUS
  <2>. QED  BY <2>1, <2>2
<1>. QED  BY <1>4, <1>5, <1>6

\* Tables the fold may pass through: well-formed, whatever refers to what.
Foldable(T) == T \in Tables /\ Unique(T)

\* One fact keeps them so.
LEMMA FoldFactKeeps ==
  ASSUME NEW T, Foldable(T), NEW f, FactTyped(f), NEW tx \in Nat
  PROVE  /\ Foldable(FoldFact(T, f, tx))
         /\ Ids(FoldFact(T, f, tx).edges) \subseteq Ids(T.edges) \cup {f.subject}
<1>. DEFINE kids   == ReferTo(T, f.subject)
            to(i)  == IF i = f.subject THEN f.keep ELSE i
            others == {r \in T.entities : r.id # f.subject}
            U == FoldFact(T, f, tx)
<1>1. T.entities \in SUBSET EntityRow /\ T.ext \in SUBSET ExtRow /\ T.edges \in SUBSET EdgeRow
      /\ T = [t \in Names |-> T[t]]
  BY TablesForm DEF Foldable, Tables, RowProps, EntityRow, ExtRow, EdgeRow
<1>2. /\ \A x, y \in T.ext : x.key = y.key => x = y
      /\ \A r, q \in T.entities : r.id = q.id => r = q
      /\ \A d, e \in T.edges : d.id = e.id => d = e
  BY DEF Foldable, Unique
<1>3. ASSUME NEW V, V = [t \in Names |-> V[t]], V.entities \in SUBSET EntityRow,
             V.ext \in SUBSET ExtRow, V.edges \in SUBSET EdgeRow,
             \A x, y \in V.ext : x.key = y.key => x = y,
             \A r, q \in V.entities : r.id = q.id => r = q,
             \A d, e \in V.edges : d.id = e.id => d = e
      PROVE  Foldable(V)
  BY <1>3, TablesOf DEF Foldable, Unique, EntityRow, ExtRow, EdgeRow
<1>4. CASE f.kind = "assert"
  <2>1. U = [T EXCEPT !.entities = FoldRow(T, f, tx), !.ext = FoldKeys(T, f)]
    BY <1>4 DEF FoldFact
  <2>2. U = [t \in Names |-> U[t]] /\ U.entities = FoldRow(T, f, tx) /\ U.ext = FoldKeys(T, f)
        /\ U.edges = T.edges
    <3>. HIDE DEF U
    <3>. QED  BY <1>1, <2>1 DEF Names
  <2>3. f.subject \in EntityIds /\ f.keys \subseteq Keys /\ Stored(f.props) \in RowProps
    BY <1>4, StoredIs DEF FactTyped
  <2>. DEFINE old == {r \in T.entities : r.id = f.subject}
              wide == {[r EXCEPT !.props = Concat(Stored(f.props), @)] : r \in old}
              row == [id |-> f.subject, props |-> Stored(f.props), by |-> tx]
  <2>4. U.entities = (T.entities \ old) \cup IF old = {} THEN {row} ELSE wide
    BY <2>2 DEF FoldRow
  <2>5. row \in EntityRow /\ row.id = f.subject
    BY <2>3 DEF EntityRow
  <2>6. \A q \in wide : q \in EntityRow /\ q.id = f.subject /\ \E r \in old : q = [r EXCEPT !.props = Concat(Stored(f.props), @)]
    <3>. SUFFICES ASSUME NEW q \in wide
                  PROVE  /\ q \in EntityRow /\ q.id = f.subject
                         /\ \E r \in old : q = [r EXCEPT !.props = Concat(Stored(f.props), @)]
      OBVIOUS
    <3>1. PICK r \in old : q = [r EXCEPT !.props = Concat(Stored(f.props), @)]
      OBVIOUS
    <3>2. r \in EntityRow /\ r.id = f.subject
      BY <1>1
    <3>. QED  BY <2>3, <3>1, <3>2, ConcatIs DEF EntityRow
  <2>7. \A r, q \in old : r = q
    BY <1>2
  <2>8. \A r \in T.entities \ old : r.id # f.subject
    OBVIOUS
  <2>. HIDE DEF wide, row, old, U
  <2>9. \A r, q \in wide : r = q
    BY <2>6, <2>7
  <2>10. \A r, q \in U.entities : r.id = q.id => r = q
    BY <1>2, <2>4, <2>5, <2>6, <2>8, <2>9
  <2>11. U.entities \in SUBSET EntityRow
    BY <1>1, <2>4, <2>5, <2>6
  <2>12. U.ext \in SUBSET ExtRow
    <3>1. \A x \in f.keys : [entity |-> f.subject, key |-> x] \in ExtRow
      BY <2>3 DEF ExtRow
    <3>. QED  BY <1>1, <2>2, <3>1 DEF FoldKeys
  <2>13. \A x, y \in U.ext : x.key = y.key => x = y
    <3>1. \A x \in U.ext : \/ x \in T.ext
                           \/ /\ x = [entity |-> f.subject, key |-> x.key]
                              /\ ~ \E y \in T.ext : y.key = x.key
      BY <2>2 DEF FoldKeys
    <3>. QED  BY <1>2, <3>1
  <2>14. Foldable(U)
    BY <1>1, <1>2, <1>3, <2>2, <2>10, <2>11, <2>12, <2>13
  <2>. QED  BY <2>2, <2>14 DEF U
<1>5. CASE f.kind = "edge" /\ f.subject \in Ids(T.edges)
  <2>1. U = T
    BY <1>5 DEF FoldFact
  <2>. QED  BY <2>1
<1>6. CASE f.kind = "edge" /\ f.subject \notin Ids(T.edges)
  <2>. DEFINE edge == [id |-> f.subject, from |-> f.ends[1], to |-> f.ends[2]]
  <2>1. U = [T EXCEPT !.edges = @ \cup {edge}]
    BY <1>6 DEF FoldFact
  <2>2. U = [t \in Names |-> U[t]] /\ U.entities = T.entities /\ U.ext = T.ext /\ U.edges = T.edges \cup {edge}
    <3>. HIDE DEF U, edge
    <3>. QED  BY <1>1, <2>1 DEF Names
  <2>3. edge \in EdgeRow /\ edge.id = f.subject
    BY <1>6 DEF FactTyped, EdgeRow
  <2>. HIDE DEF U, edge
  <2>4. \A d, e \in U.edges : d.id = e.id => d = e
    BY <1>2, <1>6, <2>2, <2>3 DEF Ids
  <2>5. U.edges \in SUBSET EdgeRow /\ Ids(U.edges) \subseteq Ids(T.edges) \cup {f.subject}
    BY <1>1, <2>2, <2>3 DEF Ids
  <2>6. Foldable(U)
    BY <1>1, <1>2, <1>3, <2>2, <2>4, <2>5
  <2>. QED  BY <2>5, <2>6 DEF U
<1>7. CASE f.kind = "unlink"
  <2>1. U = [T EXCEPT !.edges = {e \in @ : e.id # f.subject}]
    BY <1>7 DEF FoldFact
  <2>2. U = [t \in Names |-> U[t]] /\ U.entities = T.entities /\ U.ext = T.ext /\ U.edges \subseteq T.edges
    <3>. HIDE DEF U
    <3>. QED  BY <1>1, <2>1 DEF Names
  <2>. HIDE DEF U
  <2>3. Foldable(U)
    BY <1>1, <1>2, <1>3, <2>2
  <2>. QED  BY <2>2, <2>3 DEF Ids, U
<1>8. CASE f.kind = "retract"
  <2>1. U = [entities |-> others, ext |-> T.ext \ kids.ext, edges |-> T.edges \ kids.edges]
    BY <1>8 DEF FoldFact
  <2>2. U = [t \in Names |-> U[t]] /\ U.entities \subseteq T.entities /\ U.ext \subseteq T.ext
        /\ U.edges \subseteq T.edges
    <3>. HIDE DEF U
    <3>. QED  BY <2>1 DEF Names
  <2>. HIDE DEF U
  <2>3. Foldable(U)
    BY <1>1, <1>2, <1>3, <2>2
  <2>. QED  BY <2>2, <2>3 DEF Ids, U
<1>9. CASE f.kind = "merge" /\ f.keep = f.subject
  <2>1. U = T
    BY <1>9 DEF FoldFact
  <2>. QED  BY <2>1
<1>10. CASE f.kind = "merge" /\ f.keep # f.subject
  <2>. DEFINE xs == {[x EXCEPT !.entity = f.keep] : x \in kids.ext}
              es == {[e EXCEPT !.from = to(@), !.to = to(@)] : e \in kids.edges}
  <2>1. U = [entities |-> others, ext |-> (T.ext \ kids.ext) \cup xs, edges |-> (T.edges \ kids.edges) \cup es]
    BY <1>10 DEF FoldFact
  <2>2. U = [t \in Names |-> U[t]] /\ U.entities = others
        /\ U.ext = (T.ext \ kids.ext) \cup xs /\ U.edges = (T.edges \ kids.edges) \cup es
    <3>. HIDE DEF U, xs, es, kids, others
    <3>. QED  BY <2>1 DEF Names
  <2>3. f.subject \in EntityIds /\ f.keep \in EntityIds
    BY <1>10 DEF FactTyped
  <2>4. kids.ext \subseteq T.ext /\ kids.edges \subseteq T.edges /\ others \subseteq T.entities
    BY DEF ReferTo
  <2>. HIDE DEF U
  <2>5. \A y \in xs : y \in ExtRow /\ y.entity = f.keep /\ \E x \in kids.ext : x.key = y.key
    <3>. SUFFICES ASSUME NEW y \in xs
                  PROVE  y \in ExtRow /\ y.entity = f.keep /\ \E x \in kids.ext : x.key = y.key
      OBVIOUS
    <3>1. PICK x \in kids.ext : y = [x EXCEPT !.entity = f.keep]
      OBVIOUS
    <3>2. x \in ExtRow
      BY <1>1, <2>4
    <3>3. y \in ExtRow /\ y.entity = f.keep /\ x.key = y.key
      BY <2>3, <3>1, <3>2 DEF ExtRow
    <3>. QED  BY <3>3
  <2>6. \A d \in es : \E e \in kids.edges : d = [id |-> e.id, from |-> to(e.from), to |-> to(e.to)]
    <3>. SUFFICES ASSUME NEW d \in es
                  PROVE  \E e \in kids.edges : d = [id |-> e.id, from |-> to(e.from), to |-> to(e.to)]
      OBVIOUS
    <3>1. PICK e \in kids.edges : d = [e EXCEPT !.from = to(@), !.to = to(@)]
      OBVIOUS
    <3>2. e \in EdgeRow
      BY <1>1, <2>4
    <3>. HIDE DEF to
    <3>3. d = [id |-> e.id, from |-> to(e.from), to |-> to(e.to)]
      BY <3>1, <3>2 DEF EdgeRow
    <3>. QED  BY <3>3
  <2>7. \A i \in EntityIds : to(i) \in EntityIds
    BY <2>3
  <2>8. \A d \in es : d \in EdgeRow /\ \E e \in kids.edges : e.id = d.id
    <3>. SUFFICES ASSUME NEW d \in es PROVE d \in EdgeRow /\ \E e \in kids.edges : e.id = d.id
      OBVIOUS
    <3>1. PICK e \in kids.edges : d = [id |-> e.id, from |-> to(e.from), to |-> to(e.to)]
      BY <2>6
    <3>2. e.id \in EdgeIds /\ e.from \in EntityIds /\ e.to \in EntityIds
      BY <1>1, <2>4 DEF EdgeRow
    <3>3. to(e.from) \in EntityIds /\ to(e.to) \in EntityIds
      BY <2>7, <3>2
    <3>. HIDE DEF to
    <3>4. d \in EdgeRow /\ d.id = e.id
      BY <3>1, <3>2, <3>3 DEF EdgeRow
    <3>. QED  BY <3>4
  <2>9. \A d, e \in es : d.id = e.id => d = e
    <3>. SUFFICES ASSUME NEW d \in es, NEW e \in es, d.id = e.id PROVE d = e
      OBVIOUS
    <3>1. PICK g \in kids.edges : d = [id |-> g.id, from |-> to(g.from), to |-> to(g.to)]
      BY <2>6
    <3>2. PICK h \in kids.edges : e = [id |-> h.id, from |-> to(h.from), to |-> to(h.to)]
      BY <2>6
    <3>. HIDE DEF to
    <3>3. g.id = h.id
      BY <3>1, <3>2
    <3>4. g = h
      BY <1>2, <2>4, <3>3
    <3>. QED  BY <3>1, <3>2, <3>4
  <2>. HIDE DEF xs, es, kids, others
  <2>10. \A x, y \in U.ext : x.key = y.key => x = y
    <3>1. \A y \in xs : \A z \in T.ext \ kids.ext : y.key # z.key
      BY <1>2, <2>4, <2>5
    <3>2. \A y, z \in xs : y.key = z.key => y = z
      BY <2>5 DEF ExtRow
    <3>. QED  BY <1>2, <2>2, <3>1, <3>2
  <2>11. \A d, e \in U.edges : d.id = e.id => d = e
    <3>1. \A d \in es : \A e \in T.edges \ kids.edges : d.id # e.id
      BY <1>2, <2>4, <2>8
    <3>. QED  BY <1>2, <2>2, <2>9, <3>1
  <2>12. U.entities \in SUBSET EntityRow /\ U.ext \in SUBSET ExtRow /\ U.edges \in SUBSET EdgeRow
    BY <1>1, <2>2, <2>4, <2>5, <2>8
  <2>13. Foldable(U)
    BY <1>2, <1>3, <2>2, <2>4, <2>10, <2>11, <2>12
  <2>14. \A e \in U.edges : \E d \in T.edges : d.id = e.id
    BY <2>2, <2>4, <2>8
  <2>. QED  BY <2>13, <2>14 DEF Ids, U
<1>. QED  BY <1>4, <1>5, <1>6, <1>7, <1>8, <1>9, <1>10 DEF FactTyped

\* So is what it ends in.
LEMMA FoldFoldable ==
  ASSUME seq \in Nat, NEW S, Foldable(S), NEW F, \A f \in F : FactTyped(f), NEW tx \in Nat
  PROVE  Foldable(Fold(S, F, tx)) /\ Ids(Fold(S, F, tx).edges) \subseteq Ids(S.edges) \cup Subjects(F)
<1>1. PICK R : /\ R[0] = S /\ R[seq] = Fold(S, F, tx)
               /\ \A n \in 1 .. seq : R[n] = FoldStep(R[n - 1], F, n, tx)
  BY FoldSteps
<1>. DEFINE Good(n) == Foldable(R[n]) /\ Ids(R[n].edges) \subseteq Ids(S.edges) \cup Subjects(F)
            Off == {n \in 0 .. seq : ~ Good(n)}
<1>2. Good(0)
  BY <1>1
<1>3. \A n \in 1 .. seq : Good(n - 1) => Good(n)
  <2>. SUFFICES ASSUME NEW n \in 1 .. seq, Good(n - 1) PROVE Good(n)
    OBVIOUS
  <2>1. R[n] = FoldStep(R[n - 1], F, n, tx)
    BY <1>1
  <2>2. CASE R[n] = R[n - 1]
    BY <2>2
  <2>3. CASE {f \in F : f.seq = n} # {} /\ R[n] = FoldFact(R[n - 1], FactAt(F, n), tx)
    <3>1. FactAt(F, n) \in F
      BY <2>3 DEF FactAt
    <3>2. FactTyped(FactAt(F, n)) /\ FactAt(F, n).subject \in Subjects(F)
      BY <3>1 DEF Subjects
    <3>3. /\ Foldable(R[n])
          /\ Ids(R[n].edges) \subseteq Ids(R[n - 1].edges) \cup {FactAt(F, n).subject}
      BY <2>3, <3>2, FoldFactKeeps
    <3>. QED  BY <3>2, <3>3
  <2>. QED  BY <2>1, <2>2, <2>3 DEF FoldStep
<1>4. Off = {}
  <2>. SUFFICES ASSUME Off # {} PROVE FALSE
    OBVIOUS
  <2>1. Off \in SUBSET Nat
    OBVIOUS
  <2>. HIDE DEF Good
  <2>2. PICK m \in Off : \A j \in Off : m <= j
    <3>. HIDE DEF Off
    <3>. QED  BY <2>1, LeastOf
  <2>3. m \in 1 .. seq /\ m - 1 \in 0 .. seq
    BY <1>2, <2>2
  <2>4. m - 1 \notin Off
    BY <2>2, <2>3
  <2>. QED  BY <1>3, <2>2, <2>3, <2>4
<1>. HIDE DEF Good
<1>5. Good(seq)
  BY <1>4
<1>. QED  BY <1>1, <1>5 DEF Good

\* A rebuild folds what it read.
LEMMA FoldLogSound ==
  ASSUME PgInv, Inv', NEW c \in Calls, FoldLog(c)
  PROVE  PgInv'
<1>. DEFINE S == View(c)
            T == Fold(S, calls[c].read, calls[c].tx)
            change(A, B) == (A \ B) \cup (B \ A)
            ext == change(S.ext, T.ext)
            edges == change(S.edges, T.edges)
            lock == [write |-> Ids(change(S.entities, T.entities)), gone |-> Live(S) \ Live(T),
                     refer |-> {x.entity : x \in ext} \cup UNION {{e.from, e.to} : e \in edges},
                     keys |-> {x.key : x \in ext}, edges |-> Ids(edges)]
            k == [calls[c] EXCEPT !.pc = "commit", !.read = {}]
<1>1. /\ Follows(k, calls[c]) /\ k.pc = "commit" /\ k.id = calls[c].id
      /\ k.drops = calls[c].drops /\ k.todo = calls[c].todo /\ k.read = {}
  BY CallIs DEF Follows, IsCall, Fields
<1>2. calls[c].pc = "fold" /\ calls[c].op.kind = "rebuild"
  BY CallOf DEF FoldLog, Placed
<1>3. (Refers(T) /\ Write(c, T, lock, k)) \/ Rollback(c, "failed")
  BY Zenon DEF FoldLog
<1>4. Foldable(T) /\ Ids(T.edges) \subseteq Ids(S.edges) \cup Subjects(calls[c].read)
  <2>1. seq \in Nat /\ Foldable(S) /\ calls[c].tx \in Nat
    BY CallOf DEF PgInv, CallInv, Foldable, Sound, CallTyped
  <2>2. \A f \in calls[c].read : FactTyped(f)
    BY CallOf DEF PgInv, CallInv
  <2>. HIDE DEF S
  <2>. QED  BY <2>1, <2>2, FoldFoldable
<1>5. Ids(T.edges) \subseteq KnownEdges(k)
  <2>1. Ids(S.edges) \subseteq KnownEdges(calls[c]) /\ KnownEdges(calls[c]) = KnownEdges(k)
    BY <1>1, <1>2, CallOf DEF KnownEdges, Follows
  <2>2. Subjects(calls[c].read) \subseteq KnownEdges(k)
    BY CallOf DEF Subjects, KnownEdges
  <2>. QED  BY <1>4, <2>1, <2>2
<1>6. CoverChange(lock, S, T)
  <2>. HIDE DEF S, T, k
  <2>1. /\ \A r \in Change(S.entities, T.entities) : r.id \in lock.write
        /\ \A i \in Live(S) \ Live(T) : i \in lock.gone
    BY DEF Change, Ids
  <2>2. /\ \A x \in Change(S.ext, T.ext) : x.key \in lock.keys
        /\ \A x \in T.ext \ S.ext : x.entity \in lock.refer
    BY DEF Change
  <2>3. /\ \A e \in Change(S.edges, T.edges) : e.id \in lock.edges
        /\ \A e \in T.edges \ S.edges : Ends(e) \subseteq lock.refer
    BY DEF Change, Ids, Ends
  <2>. QED  BY <2>1, <2>2, <2>3 DEF CoverChange
<1>. HIDE DEF k, lock, T
<1>7. CallTyped(k)
  BY <1>1, <1>2, CallOf DEF CallTyped, Ended, Follows
<1>8. Spent(k) /\ k.read \subseteq log
  BY <1>1, <1>2, CallOf DEF Spent, Follows, Ended
<1>9. CASE Refers(T) /\ Write(c, T, lock, k)
  <2>1. Sound(T)
    BY <1>4, <1>9 DEF Foldable, Sound
  <2>. QED  BY <1>1, <1>5, <1>6, <1>7, <1>8, <1>9, <2>1, Onward DEF Follows, Ended
<1>. QED  BY <1>3, <1>9, RollbackStep DEF Ended

----------------------------------------------------------------------------
(* The constraints of the database. *)

\* The initial state satisfies the invariant.
LEMMA InitPg == Init => PgInv
<1>. SUFFICES ASSUME Init PROVE PgInv
  OBVIOUS
<1>0. Inv
  BY InitInv
<1>1. /\ db = Empty /\ log = {} /\ \A c \in Calls : calls[c] = Idle
      /\ Empty.entities = {} /\ Empty.ext = {} /\ Empty.edges = {}
  BY DEF Init, Empty, Names
<1>2. /\ Idle.pc = "idle" /\ Idle.op.kind = "none" /\ Idle.facts = {} /\ Idle.tx = 0 /\ Idle.drops = {}
      /\ Idle.todo = {} /\ Idle.del = Empty /\ Idle.add = Empty /\ Idle.locks = NoLocks /\ Idle.read = {}
  BY DEF Idle
<1>3. \A c \in Calls : See(calls[c]) = db
  BY <1>1, <1>2, EmptySound, SeeNothing DEF Sound
<1>4. RowInv
  <2>1. LockSet(NoLocks) /\ Compatible(NoLocks, NoLocks)
    BY DEF LockSet, Compatible, NoLocks
  <2>2. \A c \in Calls : Covered(calls[c])
    BY <1>1, <1>2, <1>3 DEF Covered
  <2>. QED  BY <1>1, <1>2, <1>3, <2>1, <2>2, EmptySound DEF RowInv, Apart
<1>5. CallOK(Idle)
  BY <1>2 DEF CallOK, CallTyped, Early, Spent, Untouched, Ended
<1>6. CallInv
  <2>1. Ids(db.edges) = {}
    BY <1>1 DEF Ids
  <2>2. \A c \in Calls : Ids(See(calls[c]).edges) \subseteq KnownEdges(calls[c])
    BY <1>3, <2>1
  <2>3. KeysOnce
    BY <1>1, <1>2 DEF KeysOnce
  <2>. QED  BY <1>1, <1>2, <1>5, <2>1, <2>2, <2>3 DEF Init, CallInv
<1>. QED  BY <1>0, <1>4, <1>6 DEF PgInv

\* Every step preserves it.
LEMMA NextPg == PgInv /\ [Next]_vars => PgInv'
<1>. SUFFICES ASSUME PgInv, [Next]_vars PROVE PgInv'
  OBVIOUS
<1>0. Inv'
  BY NextInv DEF PgInv
<1>1. CASE UNCHANGED vars
  <2>1. calls' = calls /\ db' = db /\ log' = log /\ begun' = begun /\ seq' = seq
    BY <1>1 DEF vars
  <2>2. \A c \in Calls : See(calls[c])' = See(calls[c])
    BY <2>1 DEF See
  <2>3. RowInv'
    <3>1. Sound(db)'
      BY <2>1 DEF PgInv, RowInv, Sound, Unique, Refers, Live, Ids
    <3>2. \A c \in Calls : Sound(See(calls[c]))' /\ LockSet(calls[c].locks)'
      BY <2>1, <2>2 DEF PgInv, RowInv, Sound, Unique, Refers, Live, Ids, LockSet
    <3>3. \A c \in Calls : Covered(calls[c])'
      BY <2>1, <2>2 DEF PgInv, RowInv, Covered, Live, Ids
    <3>4. Apart'
      BY <2>1 DEF PgInv, RowInv, Apart
    <3>. QED  BY <3>1, <3>2, <3>3, <3>4 DEF RowInv
  <2>4. CallInv'
    <3>1. \A c \in Calls : CallOK(calls[c])' /\ calls'[c].read \subseteq log'
      BY <2>1 DEF PgInv, CallInv, CallOK, CallTyped, Early, Spent, Untouched, FactTyped, Subjects
    <3>2. \A c \in Calls : Ids(See(calls[c]).edges)' \subseteq KnownEdges(calls[c])'
      <4>1. \A c \in Calls : Ids(See(calls[c]).edges)' = Ids(See(calls[c]).edges)
        BY <2>2 DEF Ids
      <4>2. \A c \in Calls : KnownEdges(calls[c])' = KnownEdges(calls[c])
        BY <2>1 DEF KnownEdges, Subjects
      <4>. QED  BY <4>1, <4>2 DEF PgInv, CallInv
    <3>3. KeysOnce'
      BY <2>1 DEF PgInv, CallInv, KeysOnce, SameFactKey
    <3>4. Ids(db.edges)' \subseteq Subjects(log)' /\ \A f \in log' : FactTyped(f)'
      BY <2>1 DEF PgInv, CallInv, Ids, Subjects, FactTyped
    <3>. QED  BY <2>1, <3>1, <3>2, <3>3, <3>4 DEF PgInv, CallInv
  <2>. QED  BY <1>0, <2>3, <2>4 DEF PgInv
<1>2. ASSUME Next PROVE PgInv'
  <2>1. PICK c \in Calls :
          \/ \E op \in Inputs : Begin(c, op)
          \/ Prior(c) \/ Hits(c) \/ Exists(c) \/ Upsert(c)
          \/ \E x \in Keys : InsertKey(c, x)
          \/ Sync(c) \/ Answer(c)
          \/ Check(c) \/ Move(c) \/ Repoint(c) \/ Drop(c)
          \/ Retract(c) \/ Link(c) \/ Unlink(c)
          \/ InsertFact(c) \/ Commit(c) \/ Abort(c)
          \/ Clear(c) \/ ReadLog(c) \/ FoldLog(c)
    BY <1>2 DEF Next
  <2>2. CASE \E op \in Inputs : Begin(c, op)
    BY <1>0, <2>2, BeginSound
  <2>3. CASE Prior(c) \/ Hits(c) \/ Exists(c) \/ Upsert(c)
    BY <1>0, <2>3, PriorSound, HitsSound, ExistsSound, UpsertSound
  <2>4. CASE \E x \in Keys : InsertKey(c, x)
    BY <1>0, <2>4, InsertKeySound
  <2>5. CASE Sync(c) \/ Answer(c) \/ Check(c)
    BY <1>0, <2>5, SyncSound, AnswerSound, CheckSound
  <2>6. CASE Move(c) \/ Repoint(c) \/ Drop(c)
    BY <1>0, <2>6, MoveSound, RepointSound, DropSound
  <2>7. CASE Retract(c) \/ Link(c) \/ Unlink(c)
    BY <1>0, <2>7, RetractSound, LinkSound, UnlinkSound
  <2>8. CASE InsertFact(c) \/ Commit(c)
    BY <1>0, <2>8, InsertSound, CommitSound
  <2>9. CASE Abort(c)
    BY <1>0, <2>9, RollbackStep DEF Abort, Ended
  <2>10. CASE Clear(c) \/ ReadLog(c) \/ FoldLog(c)
    BY <1>0, <2>10, ClearSound, ReadLogSound, FoldLogSound
  <2>. QED  BY <2>1, <2>2, <2>3, <2>4, <2>5, <2>6, <2>7, <2>8, <2>9, <2>10
<1>. QED  BY <1>1, <1>2

\* Whatever transactions overlap, the committed rows keep the constraints of the schema:
\* rows refer to live entities, a key belongs to one, an id has one row and a writer uses a
\* dedupe key once (0001_init.sql).
THEOREM ConstraintsKept == Spec => []PgTypeOK
<1>1. PgInv => PgTypeOK
  BY DEF PgInv, RowInv, CallInv, Sound, Unique, KeysOnce, SameFactKey, PgTypeOK
<1>. QED  BY <1>1, InitPg, NextPg, PTL DEF Spec

\* Two transactions never hold locks of which one would wait for the other, and what each
\* of them has written is under its own: so it sees tables that keep the constraints too.
THEOREM WritesApart == Spec => []RowInv
<1>1. PgInv => RowInv
  BY DEF PgInv
<1>. QED  BY <1>1, InitPg, NextPg, PTL DEF Spec

----------------------------------------------------------------------------
(* What is in the log is in the tables. *)

Asserted(F) == {f.subject : f \in {f \in F : f.kind = "assert"}}
Tombstoned(i, F) ==
  \E g \in F : g.subject = i /\ (g.kind = "retract" \/ (g.kind = "merge" /\ g.keep # g.subject))

\* The node i is deleted by the call c, which is about to write so to the log.
Deleting(i, c) ==
  \/ calls[c].pc = "fact" /\ calls[c].op.kind = "retract" /\ calls[c].id = i
  \/ calls[c].pc = "mergefact" /\ Dropped(c) = i /\ calls[c].id # i

\* The rebuild c has emptied the tables and is about to fold an assertion of i.
Folding(i, c) == calls[c].pc = "read" \/ (calls[c].pc = "fold" /\ i \in Asserted(calls[c].read))

\* In the tables that c sees, i is live or was taken back.
StillLive(i, c) ==
  \/ i \in Live(See(calls[c])) \/ Tombstoned(i, log \cup calls[c].facts)
  \/ Deleting(i, c) \/ Folding(i, c)

\* The node an assertion inserts or has inserted.
Inserts(k) == IF k.op.kind = "assert" /\ k.pc \notin Ended \cup {"prior", "hits"} THEN {k.id} ELSE {}

\* Who takes over what another node leaves stays.
Survives(k) ==
  k.pc \in {"move", "repoint", "drop"} \/ (k.pc = "mergefact" /\ k.op.kind = "assert") => k.id \notin k.drops

\* Every fact has its own place in the sequence.
Facts == log \cup UNION {calls[c].facts : c \in Calls}
SeqOnce == /\ \A f \in Facts : f.seq \in 1 .. seq
           /\ \A f, g \in Facts : f.seq = g.seq => f = g

\* What was asserted is live or was taken back, for everyone; and what is live was asserted.
LiveInv ==
  /\ \A i \in Asserted(log) : i \in Live(db) \/ Tombstoned(i, log)
  /\ \A c \in Calls : \A i \in Asserted(log) : StillLive(i, c)
  /\ Live(db) \subseteq Asserted(log)
  /\ \A c \in Calls : Live(See(calls[c])) \subseteq Asserted(log) \cup Inserts(calls[c])
  /\ \A c \in Calls : /\ \A f \in calls[c].facts : f.kind = "assert" => f.subject = calls[c].id
                      /\ Survives(calls[c])
                      /\ calls[c].pc = "commit" =>
                           \A i \in Asserted(calls[c].facts) :
                             i \in Live(See(calls[c])) \/ Tombstoned(i, log \cup calls[c].facts)
  /\ SeqOnce

\* A fact of a transaction that asserts is written last.
LEMMA AssertLast ==
  ASSUME PgInv, NEW c \in Calls, NEW f \in calls[c].facts, f.kind = "assert"
  PROVE  calls[c].pc \in {"answer", "commit"} /\ calls[c].op.kind = "assert"
<1>1. OwnFact(f, calls[c])
  BY DEF PgInv, Inv, OwnFacts
<1>2. f.key = <<"caller", calls[c].op.dedupe>> /\ HoldsLock(calls[c])
  BY <1>1 DEF OwnFact, AssertedBy
<1>3. f.key[1] = "caller"
  BY <1>2
<1>. QED  BY <1>2, <1>3, CallOf DEF Spent, HoldsLock

\* A step of one call that leaves the log and the tables alone.
LEMMA LiveStep ==
  ASSUME PgInv, LiveInv, NEW c \in Calls, NEW h, calls' = [calls EXCEPT ![c] = h],
         log' = log, db' = db, SeqOnce',
         \A i \in Asserted(log) : StillLive(i, c)',
         Live(See(calls[c]))' \subseteq Asserted(log) \cup Inserts(h),
         \A f \in h.facts : f.kind = "assert" => f.subject = h.id,
         Survives(h),
         h.pc = "commit" => \A i \in Asserted(h.facts) :
           i \in Live(See(calls[c]))' \/ Tombstoned(i, log \cup h.facts)
  PROVE  LiveInv'
<1>1. calls'[c] = h /\ \A o \in Calls \ {c} : calls'[o] = calls[o]
  BY DEF PgInv, Inv, CallsPlaced
<1>2. Asserted(log)' = Asserted(log) /\ Live(db)' = Live(db)
  BY DEF Asserted, Live, Ids
<1>3. \A i : Tombstoned(i, log)' <=> Tombstoned(i, log)
  BY DEF Tombstoned
<1>4. \A o \in Calls \ {c} : Live(See(calls[o]))' = Live(See(calls[o]))
  BY <1>1 DEF See, Live, Ids
<1>5. \A o \in Calls \ {c} : \A i : StillLive(i, o)' <=> StillLive(i, o)
  <2>. SUFFICES ASSUME NEW o \in Calls \ {c}, NEW i PROVE StillLive(i, o)' <=> StillLive(i, o)
    OBVIOUS
  <2>1. calls'[o] = calls[o] /\ Dropped(o)' = Dropped(o)
    BY <1>1 DEF Dropped
  <2>2. Deleting(i, o)' <=> Deleting(i, o)
    BY <2>1 DEF Deleting
  <2>3. Folding(i, o)' <=> Folding(i, o)
    BY <2>1 DEF Folding, Asserted
  <2>4. Tombstoned(i, log \cup calls[o].facts)' <=> Tombstoned(i, log \cup calls[o].facts)
    BY <2>1 DEF Tombstoned
  <2>. QED  BY <1>4, <2>2, <2>3, <2>4 DEF StillLive
<1>6. \A o \in Calls : \A i \in Asserted(log)' : StillLive(i, o)'
  BY <1>2, <1>5 DEF LiveInv
<1>7. \A o \in Calls : Live(See(calls[o]))' \subseteq Asserted(log)' \cup Inserts(calls[o])'
  <2>1. Inserts(h) = Inserts(calls[c])'
    BY <1>1 DEF Inserts
  <2>2. \A o \in Calls \ {c} : Inserts(calls[o])' = Inserts(calls[o])
    BY <1>1 DEF Inserts
  <2>. QED  BY <1>2, <1>4, <2>1, <2>2 DEF LiveInv
<1>8. \A o \in Calls : /\ \A f \in calls'[o].facts : f.kind = "assert" => f.subject = calls'[o].id
                       /\ Survives(calls[o])'
  <2>1. Survives(calls[c])'
    BY <1>1 DEF Survives
  <2>2. \A o \in Calls \ {c} : Survives(calls[o])' <=> Survives(calls[o])
    BY <1>1 DEF Survives
  <2>. QED  BY <1>1, <2>1, <2>2 DEF LiveInv
<1>9. \A o \in Calls : calls'[o].pc = "commit" =>
        \A i \in Asserted(calls[o].facts)' :
          i \in Live(See(calls[o]))' \/ Tombstoned(i, log \cup calls[o].facts)'
  <2>1. CASE h.pc = "commit"
    <3>1. Asserted(calls[c].facts)' = Asserted(h.facts)
      BY <1>1 DEF Asserted
    <3>2. \A i : Tombstoned(i, log \cup calls[c].facts)' <=> Tombstoned(i, log \cup h.facts)
      BY <1>1 DEF Tombstoned
    <3>3. \A o \in Calls \ {c} : Asserted(calls[o].facts)' = Asserted(calls[o].facts)
      BY <1>1 DEF Asserted
    <3>4. \A o \in Calls \ {c} : \A i : Tombstoned(i, log \cup calls[o].facts)' <=> Tombstoned(i, log \cup calls[o].facts)
      BY <1>1 DEF Tombstoned
    <3>. QED  BY <1>1, <1>4, <2>1, <3>1, <3>2, <3>3, <3>4 DEF LiveInv
  <2>2. CASE h.pc # "commit"
    <3>3. \A o \in Calls \ {c} : Asserted(calls[o].facts)' = Asserted(calls[o].facts)
      BY <1>1 DEF Asserted
    <3>4. \A o \in Calls \ {c} : \A i : Tombstoned(i, log \cup calls[o].facts)' <=> Tombstoned(i, log \cup calls[o].facts)
      BY <1>1 DEF Tombstoned
    <3>. QED  BY <1>1, <1>4, <2>2, <3>3, <3>4 DEF LiveInv
  <2>. QED  BY <2>1, <2>2
<1>10. \A i \in Asserted(log)' : i \in Live(db)' \/ Tombstoned(i, log)'
  BY <1>2, <1>3 DEF LiveInv
<1>11. Live(db)' \subseteq Asserted(log)'
  BY <1>2 DEF LiveInv
<1>. QED  BY <1>6, <1>7, <1>8, <1>9, <1>10, <1>11 DEF LiveInv

\* The facts that are left keep their places.
LEMMA SeqKept ==
  ASSUME PgInv, SeqOnce, NEW c \in Calls, NEW h, calls' = [calls EXCEPT ![c] = h],
         log' = log, h.facts \subseteq calls[c].facts, seq' \in Nat, seq' >= seq
  PROVE  SeqOnce'
<1>1. calls'[c] = h /\ \A o \in Calls \ {c} : calls'[o] = calls[o]
  BY DEF PgInv, Inv, CallsPlaced
<1>2. Facts' \subseteq Facts
  BY <1>1 DEF Facts
<1>3. \A f \in Facts : f.seq \in 1 .. seq'
  BY DEF SeqOnce, PgInv, CallInv
<1>4. \A f, g \in Facts : f.seq = g.seq => f = g
  BY DEF SeqOnce
<1>. QED  BY <1>2, <1>3, <1>4 DEF SeqOnce

\* A call begins or ends.
LEMMA FreshLive ==
  ASSUME PgInv, LiveInv, NEW c \in Calls, NEW k, calls' = [calls EXCEPT ![c] = k],
         db' = db, log' = log, seq' \in Nat, seq' >= seq, Untouched(k),
         k.pc \notin {"move", "repoint", "drop", "mergefact"}
  PROVE  LiveInv'
<1>1. calls'[c] = k
  BY DEF PgInv, Inv, CallsPlaced
<1>2. SeqOnce'
  BY SeqKept DEF LiveInv, Untouched
<1>3. See(k) = db
  BY SeeNothing DEF PgInv, RowInv, Sound, Untouched
<1>4. See(calls[c])' = db
  BY <1>1, <1>3 DEF See
<1>5. Live(See(calls[c]))' = Live(db)
  BY <1>4 DEF Live, Ids
<1>6. \A i \in Asserted(log) : StillLive(i, c)'
  <2>1. \A i : Tombstoned(i, log) => Tombstoned(i, log \cup calls[c].facts)'
    BY DEF Tombstoned
  <2>. QED  BY <1>5, <2>1 DEF LiveInv, StillLive
<1>. QED  BY <1>2, <1>5, <1>6, LiveStep DEF LiveInv, Untouched, Asserted, Survives

\* What a step of one call leaves as it is, and the nodes it sees then.
Moves(c, h, E) ==
  /\ calls' = [calls EXCEPT ![c] = h] /\ log' = log /\ db' = db /\ seq' = seq
  /\ h.op = calls[c].op /\ h.facts = calls[c].facts
  /\ Live(See(calls[c]))' = Ids(E)

\* Such a step is every one that goes on.
LEMMA Moved ==
  ASSUME PgInv, NEW c \in Calls, NEW k, Follows(k, calls[c]), NEW E,
         \/ Continue(c, k) /\ E = View(c).entities
         \/ \E T, l : Write(c, T, l, k) /\ E = T.entities
  PROVE  \E h : /\ Moves(c, h, E)
                /\ h.pc = k.pc /\ h.id = k.id /\ h.drops = k.drops /\ h.read = k.read
<1>0. IsCall(k) /\ View(c) = See(calls[c])
  BY CallOf DEF Follows
<1>1. CASE Continue(c, k) /\ E = View(c).entities
  <2>1. calls' = [calls EXCEPT ![c] = k] /\ log' = log /\ db' = db /\ seq' = seq /\ calls'[c] = k
    BY <1>1 DEF Continue, PgInv, Inv, CallsPlaced
  <2>2. See(calls[c])' = See(calls[c])
    BY <2>1 DEF See, Follows
  <2>3. Live(See(calls[c]))' = Ids(E)
    BY <1>0, <1>1, <2>2 DEF Live, Ids
  <2>. QED  BY <2>1, <2>3 DEF Moves, Follows
<1>2. ASSUME NEW T, NEW l, Write(c, T, l, k), E = T.entities
      PROVE  \E h : /\ Moves(c, h, E)
                    /\ h.pc = k.pc /\ h.id = k.id /\ h.drops = k.drops /\ h.read = k.read
  <2>. DEFINE old == View(c)
              h == [k EXCEPT
                !.del = [t \in Names |-> @[t] \cup (old[t] \ T[t])],
                !.add = [t \in Names |-> (@[t] \cap T[t]) \cup (T[t] \ old[t])],
                !.locks = Both(@, l)]
  <2>1. calls' = [calls EXCEPT ![c] = h] /\ db' = db /\ log' = log /\ seq' = seq
    BY <1>2 DEF Write, Continue
  <2>2. /\ h.del = [t \in Names |-> k.del[t] \cup (old[t] \ T[t])]
        /\ h.add = [t \in Names |-> (k.add[t] \cap T[t]) \cup (T[t] \ old[t])]
        /\ h.pc = k.pc /\ h.id = k.id /\ h.drops = k.drops /\ h.read = k.read
        /\ h.op = k.op /\ h.facts = k.facts
    BY <1>0 DEF IsCall, Fields
  <2>. HIDE DEF h
  <2>3. calls'[c] = h
    BY <2>1 DEF PgInv, Inv, CallsPlaced
  <2>4. old.entities = (db.entities \ k.del.entities) \cup k.add.entities
    BY <1>0, SeeRows DEF Follows
  <2>5. /\ h.del.entities = k.del.entities \cup (old.entities \ T.entities)
        /\ h.add.entities = (k.add.entities \cap T.entities) \cup (T.entities \ old.entities)
    BY <2>2 DEF Names
  <2>. HIDE DEF old
  <2>6. See(h).entities = T.entities
    BY <2>4, <2>5, SeeRows
  <2>7. See(calls[c])' = See(h)
    BY <2>1, <2>3 DEF See
  <2>8. Live(See(calls[c]))' = Ids(E)
    BY <1>2, <2>6, <2>7 DEF Live, Ids
  <2>. QED  BY <2>1, <2>2, <2>8 DEF Moves, Follows
<1>. QED  BY <1>1, <1>2

\* A step that takes no node away, of a call that owes no tombstone and no fold.
LEMMA GrowLive ==
  ASSUME PgInv, LiveInv, NEW c \in Calls, NEW k, Follows(k, calls[c]), NEW E,
         \/ Continue(c, k) /\ E = View(c).entities
         \/ \E T, l : Write(c, T, l, k) /\ E = T.entities,
         calls[c].pc \notin {"fact", "mergefact", "read", "fold"},
         Live(View(c)) \subseteq Ids(E), Ids(E) \subseteq Live(View(c)) \cup Inserts(k),
         Inserts(calls[c]) \subseteq Inserts(k),
         k.id = calls[c].id \/ calls[c].pc \notin {"answer", "commit"},
         Survives(k),
         k.pc = "commit" => \A i \in Asserted(calls[c].facts) : i \in Ids(E)
  PROVE  LiveInv'
<1>1. PICK h : Moves(c, h, E) /\ h.pc = k.pc /\ h.id = k.id /\ h.drops = k.drops /\ h.read = k.read
  BY Moved
<1>2. /\ calls' = [calls EXCEPT ![c] = h] /\ log' = log /\ db' = db /\ seq' = seq
      /\ h.op = calls[c].op /\ h.facts = calls[c].facts /\ Live(See(calls[c]))' = Ids(E)
  BY <1>1 DEF Moves
<1>3. calls'[c] = h
  BY <1>2 DEF PgInv, Inv, CallsPlaced
<1>4. SeqOnce'
  <2>1. seq' \in Nat /\ seq' >= seq /\ h.facts \subseteq calls[c].facts
    BY <1>2 DEF PgInv, CallInv
  <2>. QED  BY <1>2, <2>1, SeqKept DEF LiveInv
<1>5. Live(See(calls[c])) = Live(View(c))
  BY CallOf
<1>6. \A i \in Asserted(log) : StillLive(i, c)'
  <2>1. \A i : Tombstoned(i, log \cup calls[c].facts) => Tombstoned(i, log \cup calls[c].facts)'
    BY <1>2, <1>3 DEF Tombstoned
  <2>2. \A i \in Asserted(log) : i \in Live(See(calls[c])) \/ Tombstoned(i, log \cup calls[c].facts)
    BY DEF LiveInv, StillLive, Deleting, Folding
  <2>. QED  BY <1>2, <1>5, <2>1, <2>2 DEF StillLive
<1>7. Inserts(h) = Inserts(k)
  BY <1>1, <1>2 DEF Inserts, Follows
<1>8. Live(See(calls[c]))' \subseteq Asserted(log) \cup Inserts(h)
  BY <1>2, <1>5, <1>7 DEF LiveInv
<1>9. \A f \in h.facts : f.kind = "assert" => f.subject = h.id
  BY <1>1, <1>2, AssertLast DEF LiveInv
<1>10. h.pc = "commit" => \A i \in Asserted(h.facts) :
         i \in Live(See(calls[c]))' \/ Tombstoned(i, log \cup h.facts)
  BY <1>1, <1>2
<1>11. Survives(h)
  BY <1>1, <1>2 DEF Survives, Follows
<1>. QED  BY <1>2, <1>4, <1>6, <1>8, <1>9, <1>10, <1>11, LiveStep

\* A step of the call c to the place p of an assertion that keeps its id.
LEMMA SameNode ==
  ASSUME NEW c \in Calls, NEW k, k.op = calls[c].op, k.id = calls[c].id,
         calls[c].pc \notin Ended \cup {"prior", "hits"}, k.pc \notin Ended \cup {"prior", "hits"}
  PROVE  Inserts(k) = Inserts(calls[c])
BY DEF Inserts

\* A call is rolled back.
LEMMA RollbackLive ==
  ASSUME PgInv, LiveInv, NEW c \in Calls, NEW how \in Ended, Rollback(c, how)
  PROVE  LiveInv'
<1>. DEFINE k == [Idle EXCEPT !.pc = how]
<1>1. calls' = [calls EXCEPT ![c] = k] /\ db' = db /\ log' = log /\ seq' \in Nat /\ seq' >= seq
  BY DEF Rollback, Continue, PgInv, CallInv
<1>2. Untouched(k) /\ k.pc \notin {"move", "repoint", "drop", "mergefact"}
  BY DEF Untouched, Idle, Ended
<1>. HIDE DEF k
<1>. QED  BY <1>1, <1>2, FreshLive

\* A call begins.
LEMMA BeginLive ==
  ASSUME PgInv, LiveInv, NEW c \in Calls, NEW op \in Inputs, Begin(c, op)
  PROVE  LiveInv'
<1>. DEFINE k == [Idle EXCEPT !.pc = First[op.kind], !.op = op, !.tx = begun + 1,
                  !.seen = IF op.kind = "retract" THEN InsertedBy(db, op.id) ELSE 0]
<1>1. /\ calls' = [calls EXCEPT ![c] = k] /\ log' = log /\ db' = db /\ seq' \in Nat /\ seq' >= seq
  BY DEF Begin, PgInv, CallInv
<1>2. op.kind \in Kinds \ {"none"}
  BY PgStoreAssumption DEF Input, Kinds
<1>3. Untouched(k) /\ k.pc = First[op.kind]
  BY DEF Untouched, Idle
<1>. HIDE DEF k
<1>4. First[op.kind] \in {"prior", "check", "delete", "unlink", "clear"}
  BY <1>2 DEF First, Kinds
<1>. QED  BY <1>1, <1>3, <1>4, FreshLive

\* The lookup ends the call as a duplicate, or it goes on with nothing written.
LEMMA PriorLive ==
  ASSUME PgInv, LiveInv, NEW c \in Calls, Prior(c)
  PROVE  LiveInv'
<1>0. calls[c].pc = "prior" /\ Untouched(calls[c]) /\ IsCall(calls[c])
  BY CallOf DEF Prior, Early
<1>1. PICK k : /\ calls' = [calls EXCEPT ![c] = k] /\ log' = log /\ db' = db /\ seq' = seq
               /\ Untouched(k) /\ k.pc \notin {"move", "repoint", "drop", "mergefact"}
  <2>1. CASE PriorAssertions(c) # {}
    <3>. DEFINE i == (CHOOSE f \in PriorAssertions(c) : TRUE).subject
    <3>1. PICK p \in {"duplicate", "notfound"} :
             Continue(c, [Idle EXCEPT !.op = calls[c].op, !.id = i, !.pc = p])
      BY <2>1 DEF Prior, LookUp
    <3>. HIDE DEF i
    <3>. DEFINE k == [Idle EXCEPT !.op = calls[c].op, !.id = i, !.pc = p]
    <3>2. Untouched(k) /\ k.pc = p
      BY DEF Idle, Untouched
    <3>. QED  BY <3>1, <3>2 DEF Continue
  <2>2. ASSUME PriorAssertions(c) = {}, NEW p \in {"link", "hits"},
               Continue(c, [calls[c] EXCEPT !.pc = p])
        PROVE  \E k : /\ calls' = [calls EXCEPT ![c] = k] /\ log' = log /\ db' = db /\ seq' = seq
                      /\ Untouched(k) /\ k.pc \notin {"move", "repoint", "drop", "mergefact"}
    <3>. DEFINE k == [calls[c] EXCEPT !.pc = p]
    <3>1. Untouched(k) /\ k.pc = p
      BY <1>0 DEF IsCall, Fields, Untouched
    <3>. QED  BY <2>2, <3>1 DEF Continue
  <2>3. CASE PriorAssertions(c) = {} /\ calls[c].op.kind = "edge"
    BY <2>2, <2>3 DEF Prior, LookUp
  <2>4. CASE PriorAssertions(c) = {} /\ calls[c].op.kind # "edge"
    BY <2>2, <2>4 DEF Prior, LookUp
  <2>. QED  BY <2>1, <2>3, <2>4
<1>2. seq' \in Nat /\ seq' >= seq
  BY <1>1 DEF PgInv, CallInv
<1>. QED  BY <1>1, <1>2, FreshLive

\* The node an assertion decides on.
LEMMA HitsLive ==
  ASSUME PgInv, LiveInv, NEW c \in Calls, Hits(c)
  PROVE  LiveInv'
<1>0. calls[c].pc = "hits" /\ calls[c].facts = {} /\ calls[c].op.kind = "assert"
  BY CallOf DEF Hits, Spent, Placed
<1>1. ASSUME NEW p \in {"upsert", "exists", "move"}, NEW i, NEW d, i \notin d \/ p = "upsert",
             Continue(c, [calls[c] EXCEPT !.pc = p, !.id = i, !.drops = d])
      PROVE  LiveInv'
  <2>. DEFINE k == [calls[c] EXCEPT !.pc = p, !.id = i, !.drops = d]
  <2>1. Follows(k, calls[c]) /\ k.pc = p /\ k.id = i /\ k.drops = d
    BY CallIs DEF Follows, IsCall, Fields
  <2>2. Continue(c, k)
    BY <1>1
  <2>. HIDE DEF k
  <2>3. Inserts(calls[c]) = {} /\ Live(View(c)) = Ids(View(c).entities)
    BY <1>0 DEF Inserts, Live
  <2>. QED  BY <1>0, <1>1, <2>1, <2>2, <2>3, GrowLive DEF Survives
<1>. DEFINE hits   == ExternalHits(c)
            used   == {f.subject : f \in log} \cup {calls[o].id : o \in Calls}
            oldest == CHOOSE i \in hits : \A j \in hits : i <= j
<1>2. IF hits = {} THEN \E i \in EntityIds \ used :
                          Continue(c, [calls[c] EXCEPT !.pc = "upsert", !.id = i])
      ELSE Continue(c, [calls[c] EXCEPT !.pc = IF hits = {oldest} THEN "exists" ELSE "move",
                                        !.id = oldest, !.drops = hits \ {oldest}])
  BY Zenon DEF Hits
<1>. HIDE DEF hits, used, oldest
<1>7. CASE hits = {}
  <2>1. PICK i \in EntityIds : Continue(c, [calls[c] EXCEPT !.pc = "upsert", !.id = i])
    BY <1>2, <1>7
  <2>2. [calls[c] EXCEPT !.pc = "upsert", !.id = i]
          = [calls[c] EXCEPT !.pc = "upsert", !.id = i, !.drops = calls[c].drops]
    BY CallOf DEF IsCall, Fields
  <2>. QED  BY <1>1, <2>1, <2>2
<1>8. CASE hits # {}
  <2>1. \E p \in {"exists", "move"} : \E i, d :
          i \notin d /\ Continue(c, [calls[c] EXCEPT !.pc = p, !.id = i, !.drops = d])
    BY <1>2, <1>8
  <2>2. PICK p \in {"exists", "move"} : \E i, d :
          i \notin d /\ Continue(c, [calls[c] EXCEPT !.pc = p, !.id = i, !.drops = d])
    BY <2>1
  <2>. QED  BY <1>1, <2>2
<1>. QED  BY <1>7, <1>8

\* Its row is looked at.
LEMMA ExistsLive ==
  ASSUME PgInv, LiveInv, NEW c \in Calls, Exists(c)
  PROVE  LiveInv'
<1>. DEFINE k == [calls[c] EXCEPT !.pc = "upsert", !.seen = InsertedBy(View(c), calls[c].id)]
<1>1. Follows(k, calls[c]) /\ k.pc = "upsert" /\ k.id = calls[c].id
  BY CallIs DEF Follows, IsCall, Fields
<1>2. Continue(c, k) /\ calls[c].pc = "exists"
  BY DEF Exists
<1>. HIDE DEF k
<1>3. Inserts(k) = Inserts(calls[c]) /\ Live(View(c)) = Ids(View(c).entities)
  BY <1>1, <1>2, SameNode DEF Ended, Follows, Live
<1>. QED  BY <1>1, <1>2, <1>3, GrowLive DEF Survives

\* Its row is inserted, or widened if it is still there.
LEMMA UpsertLive ==
  ASSUME PgInv, LiveInv, NEW c \in Calls, Upsert(c)
  PROVE  LiveInv'
<1>. DEFINE k    == [calls[c] EXCEPT !.todo = calls[c].op.keys,
                                     !.pc = IF calls[c].op.keys = {} THEN "sync" ELSE "keys"]
            S    == View(c)
            lock == [NoLocks EXCEPT !.write = {k.id}]
            row  == {r \in S.entities : r.id = k.id /\ r.by = k.seen}
            new  == [id |-> k.id, props |-> Stored(k.op.props), by |-> k.tx]
            wide == {[r EXCEPT !.props = Concat(Stored(k.op.props), @)] : r \in row}
<1>1. Follows(k, calls[c]) /\ k.pc \in {"sync", "keys"} /\ k.id = calls[c].id
  BY CallIs DEF Follows, IsCall, Fields
<1>2. calls[c].pc = "upsert" /\ calls[c].op.kind = "assert"
  BY CallOf DEF Upsert, CallTyped
<1>3. Inserts(k) = Inserts(calls[c]) /\ Inserts(k) = {k.id}
  BY <1>1, <1>2 DEF Inserts, Ended, Follows
<1>4. \/ Continue(c, k)
      \/ Write(c, [S EXCEPT !.entities = @ \cup {new}], lock, k)
      \/ Write(c, [S EXCEPT !.entities = (@ \ row) \cup wide], lock, k)
      \/ Rollback(c, "failed")
  BY Zenon DEF Upsert
<1>5. S \in Tables
  BY CallOf DEF Sound
<1>6. /\ [S EXCEPT !.entities = @ \cup {new}].entities = S.entities \cup {new}
      /\ [S EXCEPT !.entities = (@ \ row) \cup wide].entities = (S.entities \ row) \cup wide
  BY <1>5 DEF Tables
<1>7. \A r \in row : r \in S.entities /\ r.id = k.id /\ [r EXCEPT !.props = Concat(Stored(k.op.props), @)].id = k.id
  BY <1>5 DEF Tables
<1>8. Ids((S.entities \ row) \cup wide) = Ids(S.entities)
  <2>1. \A q \in wide : q.id = k.id /\ row # {}
    BY <1>7
  <2>2. row # {} => \E q \in wide : q.id = k.id
    BY <1>7
  <2>. HIDE DEF wide
  <2>. QED  BY <1>7, <2>1, <2>2 DEF Ids
<1>9. Ids(S.entities \cup {new}) = Ids(S.entities) \cup {k.id}
  <2>1. new.id = k.id
    OBVIOUS
  <2>. HIDE DEF new, k, S
  <2>. QED  BY <2>1 DEF Ids
<1>10. Live(S) = Ids(S.entities)
  BY DEF Live
<1>15. Survives(k) /\ k.pc # "commit" /\ calls[c].pc \notin {"fact", "mergefact", "read", "fold", "answer", "commit"}
  BY <1>1, <1>2 DEF Survives
<1>. HIDE DEF k, lock, row, new, wide
<1>11. CASE Continue(c, k)
  BY <1>1, <1>3, <1>10, <1>11, <1>15, GrowLive
<1>12. CASE Write(c, [S EXCEPT !.entities = @ \cup {new}], lock, k)
  <2>1. PICK T, l : Write(c, T, l, k) /\ S.entities \cup {new} = T.entities
    BY <1>6, <1>12
  <2>. QED  BY <1>1, <1>3, <1>9, <1>10, <1>15, <2>1, GrowLive
<1>13. CASE Write(c, [S EXCEPT !.entities = (@ \ row) \cup wide], lock, k)
  <2>1. PICK T, l : Write(c, T, l, k) /\ (S.entities \ row) \cup wide = T.entities
    BY <1>6, <1>13
  <2>. QED  BY <1>1, <1>3, <1>8, <1>10, <1>15, <2>1, GrowLive
<1>14. CASE Rollback(c, "failed")
  BY <1>14, RollbackLive DEF Ended
<1>. QED  BY <1>4, <1>11, <1>12, <1>13, <1>14

\* A step that writes no entity, of a call that goes on with the same id.
LEMMA SameLive ==
  ASSUME PgInv, LiveInv, NEW c \in Calls, NEW k, Follows(k, calls[c]),
         \/ Continue(c, k)
         \/ \E T, l : Write(c, T, l, k) /\ T.entities = View(c).entities,
         calls[c].pc \notin Ended \cup {"prior", "hits", "fact", "mergefact", "read", "fold"},
         k.pc \notin Ended \cup {"prior", "hits", "commit"},
         k.id = calls[c].id \/ (k.op.kind # "assert" /\ calls[c].pc # "answer" /\ calls[c].pc # "commit"),
         Survives(k)
  PROVE  LiveInv'
<1>1. Inserts(k) = Inserts(calls[c])
  BY DEF Inserts, Follows
<1>2. Live(View(c)) = Ids(View(c).entities)
  BY DEF Live
<1>3. \/ Continue(c, k) /\ View(c).entities = View(c).entities
      \/ \E T, l : Write(c, T, l, k) /\ View(c).entities = T.entities
  OBVIOUS
<1>. QED  BY <1>1, <1>2, <1>3, GrowLive DEF Survives

\* A row of a key or an edge is written: the entities stay.
LEMMA InsertKeyLive ==
  ASSUME PgInv, LiveInv, NEW c \in Calls, NEW x \in Keys, InsertKey(c, x)
  PROVE  LiveInv'
<1>. DEFINE k    == [calls[c] EXCEPT !.todo = @ \ {x}, !.pc = IF calls[c].todo = {x} THEN "sync" ELSE "keys"]
            T    == View(c)
            R    == T.ext \cup {[entity |-> k.id, key |-> x]}
            lock == [NoLocks EXCEPT !.keys = {x}, !.refer = {k.id}]
<1>1. calls[c].pc = "keys" /\ (Continue(c, k) \/ Write(c, [T EXCEPT !.ext = R], lock, k) \/ Rollback(c, "failed"))
  BY Zenon DEF InsertKey
<1>2. Follows(k, calls[c]) /\ k.pc \in {"sync", "keys"} /\ k.id = calls[c].id
  BY CallIs DEF Follows, IsCall, Fields
<1>3. [T EXCEPT !.ext = R].entities = T.entities
  BY CallOf, OneTableExt DEF Sound
<1>. HIDE DEF k, R, lock
<1>4. CASE Rollback(c, "failed")
  BY <1>4, RollbackLive DEF Ended
<1>5. CASE Continue(c, k) \/ Write(c, [T EXCEPT !.ext = R], lock, k)
  BY <1>1, <1>2, <1>3, <1>5, SameLive DEF Ended, Survives
<1>. QED  BY <1>1, <1>4, <1>5

\* The row of the entity is locked.
LEMMA SyncLive ==
  ASSUME PgInv, LiveInv, NEW c \in Calls, Sync(c)
  PROVE  LiveInv'
<1>. DEFINE k    == [calls[c] EXCEPT !.pc = "fact"]
            lock == [NoLocks EXCEPT !.write = {calls[c].id} \cap Live(View(c))]
<1>1. calls[c].pc = "sync" /\ Write(c, View(c), lock, k)
  BY Zenon DEF Sync
<1>2. Follows(k, calls[c]) /\ k.pc = "fact" /\ k.id = calls[c].id
  BY CallIs DEF Follows, IsCall, Fields
<1>. HIDE DEF k, lock
<1>3. \E T, l : Write(c, T, l, k) /\ T.entities = View(c).entities
  BY <1>1
<1>. QED  BY <1>1, <1>2, <1>3, SameLive DEF Ended, Survives

\* The two entities are looked at.
LEMMA CheckLive ==
  ASSUME PgInv, LiveInv, NEW c \in Calls, Check(c)
  PROVE  LiveInv'
<1>. DEFINE op == calls[c].op
            k  == [calls[c] EXCEPT !.pc = IF op.keep = op.drop THEN "mergefact" ELSE "move",
                                   !.id = op.keep, !.drops = {op.drop}]
<1>1. calls[c].pc = "check" /\ (Continue(c, k) \/ Rollback(c, "notfound"))
  BY Zenon DEF Check
<1>2. /\ k.pc = (IF op.keep = op.drop THEN "mergefact" ELSE "move")
      /\ k.id = op.keep /\ k.drops = {op.drop} /\ k.op = op
  BY CallOf DEF IsCall, Fields
<1>5. Follows(k, calls[c])
  BY CallIs DEF Follows, IsCall, Fields
<1>6. op.kind = "merge"
  BY <1>1, CallOf DEF Placed
<1>7. Survives(k)
  BY <1>2, <1>6 DEF Survives
<1>8. k.pc \in {"mergefact", "move"}
  BY <1>2
<1>. HIDE DEF k
<1>3. CASE Rollback(c, "notfound")
  BY <1>3, RollbackLive DEF Ended
<1>4. CASE Continue(c, k)
  BY <1>1, <1>2, <1>4, <1>5, <1>6, <1>7, <1>8, SameLive DEF Ended, Survives
<1>. QED  BY <1>1, <1>3, <1>4

\* The keys and the edges of a node go over to another.
LEMMA MoveLive ==
  ASSUME PgInv, LiveInv, NEW c \in Calls, Move(c)
  PROVE  LiveInv'
<1>. DEFINE T    == View(c)
            k    == [calls[c] EXCEPT !.pc = "repoint"]
            kids == {x \in T.ext : x.entity = Dropped(c)}
            R    == (T.ext \ kids) \cup {[x EXCEPT !.entity = k.id] : x \in kids}
            lock == [NoLocks EXCEPT !.keys = {x.key : x \in kids}, !.refer = {k.id}]
<1>1. calls[c].pc = "move" /\ (Continue(c, k) \/ Write(c, [T EXCEPT !.ext = R], lock, k) \/ Rollback(c, "failed"))
  BY Zenon DEF Move
<1>2. Follows(k, calls[c]) /\ k.pc = "repoint" /\ k.id = calls[c].id /\ k.drops = calls[c].drops
  BY CallIs DEF Follows, IsCall, Fields
<1>3. [T EXCEPT !.ext = R].entities = T.entities
  BY CallOf, OneTableExt DEF Sound
<1>. HIDE DEF k, R, lock
<1>4. CASE Rollback(c, "failed")
  BY <1>4, RollbackLive DEF Ended
<1>5. CASE Continue(c, k) \/ Write(c, [T EXCEPT !.ext = R], lock, k)
  <2>1. Survives(k)
    BY <1>1, <1>2 DEF LiveInv, Survives
  <2>. QED  BY <1>1, <1>2, <1>3, <1>5, <2>1, SameLive DEF Ended, Survives
<1>. QED  BY <1>1, <1>4, <1>5

\* So do its edges.
LEMMA RepointLive ==
  ASSUME PgInv, LiveInv, NEW c \in Calls, Repoint(c)
  PROVE  LiveInv'
<1>. DEFINE T     == View(c)
            d     == Dropped(c)
            k     == [calls[c] EXCEPT !.pc = "drop", !.seen = InsertedBy(T, d)]
            kids  == ReferTo(T, d).edges
            to(i) == IF i = d THEN k.id ELSE i
            R     == (T.edges \ kids) \cup {[e EXCEPT !.from = to(@), !.to = to(@)] : e \in kids}
            lock  == [NoLocks EXCEPT !.edges = Ids(kids), !.refer = {k.id}]
<1>1. calls[c].pc = "repoint" /\ (Continue(c, k) \/ Write(c, [T EXCEPT !.edges = R], lock, k) \/ Rollback(c, "failed"))
  BY Zenon DEF Repoint
<1>2. Follows(k, calls[c]) /\ k.pc = "drop" /\ k.id = calls[c].id /\ k.drops = calls[c].drops
  BY CallIs DEF Follows, IsCall, Fields
<1>3. [T EXCEPT !.edges = R].entities = T.entities
  BY CallOf, OneTableEdges DEF Sound
<1>. HIDE DEF k, R, lock, d
<1>4. CASE Rollback(c, "failed")
  BY <1>4, RollbackLive DEF Ended
<1>5. CASE Continue(c, k) \/ Write(c, [T EXCEPT !.edges = R], lock, k)
  <2>1. Survives(k)
    BY <1>1, <1>2 DEF LiveInv, Survives
  <2>. QED  BY <1>1, <1>2, <1>3, <1>5, <2>1, SameLive DEF Ended, Survives
<1>. QED  BY <1>1, <1>4, <1>5

\* An edge is made.
LEMMA LinkLive ==
  ASSUME PgInv, LiveInv, NEW c \in Calls, Link(c)
  PROVE  LiveInv'
<1>1. PICK i \in EdgeIds :
        LET k    == [calls[c] EXCEPT !.pc = "fact", !.id = i]
            edge == [id |-> i, from |-> k.op.from, to |-> k.op.to]
            lock == [NoLocks EXCEPT !.edges = {i}, !.refer = {calls[c].op.from, calls[c].op.to}]
        IN Write(c, [View(c) EXCEPT !.edges = @ \cup {edge}], lock, k) \/ Rollback(c, "failed")
  BY Zenon DEF Link
<1>. DEFINE T    == View(c)
            k    == [calls[c] EXCEPT !.pc = "fact", !.id = i]
            edge == [id |-> i, from |-> k.op.from, to |-> k.op.to]
            R    == T.edges \cup {edge}
            lock == [NoLocks EXCEPT !.edges = {i}, !.refer = {calls[c].op.from, calls[c].op.to}]
<1>2. calls[c].pc = "link" /\ (Write(c, [T EXCEPT !.edges = R], lock, k) \/ Rollback(c, "failed"))
  BY <1>1 DEF Link
<1>3. Follows(k, calls[c]) /\ k.pc = "fact"
  BY CallIs DEF Follows, IsCall, Fields
<1>7. k.op.kind = "edge"
  BY <1>2, <1>3, CallOf DEF Follows, CallTyped
<1>4. [T EXCEPT !.edges = R].entities = T.entities
  BY CallOf, OneTableEdges DEF Sound
<1>. HIDE DEF k, R, lock
<1>5. CASE Rollback(c, "failed")
  BY <1>5, RollbackLive DEF Ended
<1>6. CASE Write(c, [T EXCEPT !.edges = R], lock, k)
  BY <1>2, <1>3, <1>4, <1>6, <1>7, SameLive DEF Ended, Survives
<1>. QED  BY <1>2, <1>5, <1>6

\* An edge is deleted.
LEMMA UnlinkLive ==
  ASSUME PgInv, LiveInv, NEW c \in Calls, Unlink(c)
  PROVE  LiveInv'
<1>. DEFINE T    == View(c)
            k    == [calls[c] EXCEPT !.pc = "fact", !.id = calls[c].op.id]
            R    == {e \in T.edges : e.id # k.id}
            lock == [NoLocks EXCEPT !.edges = {k.id}]
<1>1. calls[c].pc = "unlink" /\ Write(c, [T EXCEPT !.edges = R], lock, k)
  BY Zenon DEF Unlink
<1>2. Follows(k, calls[c]) /\ k.pc = "fact"
  BY CallIs DEF Follows, IsCall, Fields
<1>4. k.op.kind = "unlink"
  BY <1>1, <1>2, CallOf DEF Follows, CallTyped
<1>3. [T EXCEPT !.edges = R].entities = T.entities
  BY CallOf, OneTableEdges DEF Sound
<1>. HIDE DEF k, R, lock
<1>. QED  BY <1>1, <1>2, <1>3, <1>4, SameLive DEF Ended, Survives

\* The answer is the entity that the assertion is about.
LEMMA AnswerLive ==
  ASSUME PgInv, LiveInv, NEW c \in Calls, Answer(c)
  PROVE  LiveInv'
<1>. DEFINE T == View(c)
            k == [calls[c] EXCEPT !.pc = "commit"]
<1>1. /\ calls[c].pc = "answer"
      /\ \/ calls[c].id \in Live(T) \cup Ids(T.edges) /\ Continue(c, k)
         \/ Rollback(c, "notfound")
  BY DEF Answer
<1>2. Follows(k, calls[c]) /\ k.pc = "commit" /\ k.id = calls[c].id
  BY CallIs DEF Follows, IsCall, Fields
<1>. HIDE DEF k
<1>3. CASE Rollback(c, "notfound")
  BY <1>3, RollbackLive DEF Ended
<1>4. CASE calls[c].id \in Live(T) \cup Ids(T.edges) /\ Continue(c, k)
  <2>1. Inserts(k) = Inserts(calls[c])
    BY <1>1, <1>2, SameNode DEF Ended, Follows
  <2>2. Live(T) = Ids(T.entities)
    BY DEF Live
  <2>3. \A i \in Asserted(calls[c].facts) : i \in Ids(T.entities)
    <3>. SUFFICES ASSUME NEW i \in Asserted(calls[c].facts) PROVE i \in Ids(T.entities)
      OBVIOUS
    <3>1. PICK f \in calls[c].facts : f.kind = "assert" /\ f.subject = i
      BY DEF Asserted
    <3>2. i = calls[c].id /\ i \in EntityIds
      BY <3>1, CallOf DEF LiveInv, CallTyped, FactTyped
    <3>3. i \notin EdgeIds
      BY <3>2, PgStoreAssumption
    <3>4. i \notin Ids(T.edges)
      BY <3>3, CallOf DEF Sound, Tables, Ids
    <3>. QED  BY <1>4, <2>2, <3>2, <3>4
  <2>. QED  BY <1>1, <1>2, <1>4, <2>1, <2>2, <2>3, GrowLive DEF Survives
<1>. QED  BY <1>1, <1>3, <1>4

\* A step that deletes a node, of a call that writes so to the log next.
LEMMA ShrinkLive ==
  ASSUME PgInv, LiveInv, NEW c \in Calls, NEW k, Follows(k, calls[c]), NEW T, NEW l, Write(c, T, l, k),
         calls[c].pc \in {"delete", "drop"}, k.pc \in {"fact", "mergefact"},
         Survives(k), Live(T) \subseteq Live(View(c)), Inserts(calls[c]) \subseteq Inserts(k),
         \A i \in Live(View(c)) \ Live(T) :
           \/ k.pc = "fact" /\ k.op.kind = "retract" /\ k.id = i
           \/ k.pc = "mergefact" /\ k.drops = calls[c].drops /\ Dropped(c) = i /\ k.id # i
  PROVE  LiveInv'
<1>0. \E TT, ll : Write(c, TT, ll, k) /\ T.entities = TT.entities
  OBVIOUS
<1>1. PICK h : Moves(c, h, T.entities) /\ h.pc = k.pc /\ h.id = k.id /\ h.drops = k.drops /\ h.read = k.read
  BY <1>0, Moved
<1>2. /\ calls' = [calls EXCEPT ![c] = h] /\ log' = log /\ db' = db /\ seq' = seq
      /\ h.op = calls[c].op /\ h.facts = calls[c].facts /\ Live(See(calls[c]))' = Live(T)
  BY <1>1 DEF Moves, Live
<1>3. calls'[c] = h
  BY <1>2 DEF PgInv, Inv, CallsPlaced
<1>4. SeqOnce'
  <2>1. seq' \in Nat /\ seq' >= seq /\ h.facts \subseteq calls[c].facts
    BY <1>2 DEF PgInv, CallInv
  <2>. QED  BY <1>2, <2>1, SeqKept DEF LiveInv
<1>5. Live(See(calls[c])) = Live(View(c))
  BY CallOf
<1>6. \A i \in Asserted(log) : StillLive(i, c)'
  <2>. SUFFICES ASSUME NEW i \in Asserted(log) PROVE StillLive(i, c)'
    OBVIOUS
  <2>1. CASE Tombstoned(i, log \cup calls[c].facts)
    <3>1. Tombstoned(i, log \cup calls[c].facts)'
      BY <1>2, <1>3, <2>1 DEF Tombstoned
    <3>. QED  BY <3>1 DEF StillLive
  <2>2. CASE i \in Live(T)
    BY <1>2, <2>2 DEF StillLive
  <2>3. CASE i \in Live(View(c)) \ Live(T)
    <3>1. CASE k.pc = "fact" /\ k.op.kind = "retract" /\ k.id = i
      <4>1. Deleting(i, c)'
        BY <1>1, <1>2, <1>3, <3>1 DEF Deleting, Follows
      <4>. QED  BY <4>1 DEF StillLive
    <3>2. CASE k.pc = "mergefact" /\ k.drops = calls[c].drops /\ Dropped(c) = i /\ k.id # i
      <4>1. Dropped(c)' = Dropped(c)
        BY <1>1, <1>3, <3>2 DEF Dropped
      <4>2. Deleting(i, c)'
        BY <1>1, <1>2, <1>3, <3>2, <4>1 DEF Deleting
      <4>. QED  BY <4>2 DEF StillLive
    <3>. QED  BY <2>3, <3>1, <3>2
  <2>4. i \in Live(View(c)) \/ Tombstoned(i, log \cup calls[c].facts)
    BY <1>5 DEF LiveInv, StillLive, Deleting, Folding
  <2>. QED  BY <2>1, <2>2, <2>3, <2>4
<1>7. Inserts(h) = Inserts(k)
  BY <1>1, <1>2 DEF Inserts, Follows
<1>8. Live(See(calls[c]))' \subseteq Asserted(log) \cup Inserts(h)
  BY <1>2, <1>5, <1>7 DEF LiveInv
<1>9. \A f \in h.facts : f.kind = "assert" => f.subject = h.id
  BY <1>1, <1>2, AssertLast DEF LiveInv
<1>10. Survives(h)
  BY <1>1, <1>2 DEF Survives, Follows
<1>. QED  BY <1>1, <1>2, <1>4, <1>6, <1>8, <1>9, <1>10, LiveStep

\* The node a merge drops.
LEMMA DropLive ==
  ASSUME PgInv, LiveInv, NEW c \in Calls, Drop(c)
  PROVE  LiveInv'
<1>. DEFINE k == [calls[c] EXCEPT !.pc = "mergefact"]
            l == [NoLocks EXCEPT !.write = {calls[c].id} \cap Live(View(c))]
<1>1. Follows(k, calls[c]) /\ k.pc = "mergefact" /\ k.id = calls[c].id /\ k.drops = calls[c].drops
  BY CallIs DEF Follows, IsCall, Fields
<1>2. calls[c].pc = "drop" /\ DeleteEntity(c, Dropped(c), k, l)
  BY Zenon DEF Drop
<1>3. LockSet(l)
  BY DEF LockSet, NoLocks
<1>. HIDE DEF k, l
<1>4. PICK T, m : /\ Live(View(c)) \ {Dropped(c)} \subseteq Live(T) /\ Live(T) \subseteq Live(View(c))
                  /\ Write(c, T, m, k)
  BY <1>2, <1>3, DeleteEntityRows
<1>5. Dropped(c) # k.id
  <2>1. Dropped(c) \in calls[c].drops
    BY <1>2, CallOf, DroppedIn DEF CallTyped
  <2>. QED  BY <1>1, <1>2, <2>1 DEF LiveInv, Survives
<1>7. Survives(k)
  BY <1>1, <1>2 DEF LiveInv, Survives
<1>6. Inserts(calls[c]) \subseteq Inserts(k)
  BY <1>1, <1>2, SameNode DEF Ended, Follows
<1>. QED  BY <1>1, <1>2, <1>4, <1>5, <1>6, <1>7, ShrinkLive

\* The node a retraction deletes.
LEMMA RetractLive ==
  ASSUME PgInv, LiveInv, NEW c \in Calls, Retract(c)
  PROVE  LiveInv'
<1>. DEFINE k == [calls[c] EXCEPT !.pc = "fact", !.id = calls[c].op.id]
<1>1. Follows(k, calls[c]) /\ k.pc = "fact" /\ k.id = calls[c].op.id
  BY CallIs DEF Follows, IsCall, Fields
<1>2. /\ calls[c].pc = "delete" /\ calls[c].op.kind = "retract"
      /\ DeleteEntity(c, calls[c].op.id, k, NoLocks)
  BY CallOf, Zenon DEF Retract, CallTyped
<1>3. LockSet(NoLocks)
  BY DEF LockSet, NoLocks
<1>. HIDE DEF k
<1>4. PICK T, m : /\ Live(View(c)) \ {calls[c].op.id} \subseteq Live(T) /\ Live(T) \subseteq Live(View(c))
                  /\ Write(c, T, m, k)
  BY <1>2, <1>3, DeleteEntityRows
<1>5. Inserts(calls[c]) = {} /\ k.op.kind = "retract"
  BY <1>1, <1>2 DEF Inserts, Follows
<1>. QED  BY <1>1, <1>2, <1>4, <1>5, ShrinkLive DEF Survives

\* Every table is emptied, and every node will be folded from the log.
LEMMA ClearLive ==
  ASSUME PgInv, LiveInv, NEW c \in Calls, Clear(c)
  PROVE  LiveInv'
<1>. DEFINE k == [calls[c] EXCEPT !.pc = "read"]
            l == [write |-> Live(View(c)), gone |-> Live(View(c)), refer |-> {},
                  keys |-> {x.key : x \in View(c).ext}, edges |-> Ids(View(c).edges)]
<1>1. Follows(k, calls[c]) /\ k.pc = "read"
  BY CallIs DEF Follows, IsCall, Fields
<1>2. calls[c].pc = "clear" /\ Write(c, Empty, l, k)
  BY Zenon DEF Clear
<1>. HIDE DEF k, l
<1>3. Empty.entities = {}
  BY DEF Empty, Names
<1>4. \E T, m : Write(c, T, m, k) /\ {} = T.entities
  BY <1>2, <1>3
<1>5. PICK h : Moves(c, h, {}) /\ h.pc = k.pc /\ h.id = k.id /\ h.drops = k.drops /\ h.read = k.read
  BY <1>1, <1>4, Moved
<1>6. /\ calls' = [calls EXCEPT ![c] = h] /\ log' = log /\ db' = db /\ seq' = seq
      /\ h.op = calls[c].op /\ h.facts = calls[c].facts /\ Live(See(calls[c]))' = {}
  BY <1>5 DEF Moves, Ids
<1>7. calls'[c] = h
  BY <1>6 DEF PgInv, Inv, CallsPlaced
<1>8. SeqOnce'
  <2>1. seq' \in Nat /\ seq' >= seq /\ h.facts \subseteq calls[c].facts
    BY <1>6 DEF PgInv, CallInv
  <2>. QED  BY <1>6, <2>1, SeqKept DEF LiveInv
<1>9. \A i : StillLive(i, c)'
  BY <1>1, <1>5, <1>7 DEF StillLive, Folding
<1>10. \A f \in h.facts : f.kind = "assert" => f.subject = h.id
  BY <1>2, <1>6, AssertLast
<1>. QED  BY <1>1, <1>5, <1>6, <1>8, <1>9, <1>10, LiveStep DEF Survives

\* The rebuild reads the whole log.
LEMMA ReadLogLive ==
  ASSUME PgInv, LiveInv, NEW c \in Calls, ReadLog(c)
  PROVE  LiveInv'
<1>. DEFINE h == [calls[c] EXCEPT !.pc = "fold", !.read = log]
<1>1. Follows(h, calls[c]) /\ h.pc = "fold" /\ h.read = log
  BY CallIs DEF Follows, IsCall, Fields
<1>2. /\ calls[c].pc = "read" /\ calls' = [calls EXCEPT ![c] = h] /\ log' = log /\ db' = db /\ seq' = seq
  BY DEF ReadLog, Continue
<1>. HIDE DEF h
<1>3. calls'[c] = h
  BY <1>2 DEF PgInv, Inv, CallsPlaced
<1>4. SeqOnce'
  <2>1. seq' \in Nat /\ seq' >= seq /\ h.facts \subseteq calls[c].facts
    BY <1>1, <1>2 DEF PgInv, CallInv, Follows
  <2>. QED  BY <1>2, <2>1, SeqKept DEF LiveInv
<1>5. \A i \in Asserted(log) : StillLive(i, c)'
  <2>1. \A i \in Asserted(log) : Folding(i, c)'
    BY <1>1, <1>3 DEF Folding, Asserted
  <2>. QED  BY <2>1 DEF StillLive
<1>6. Live(See(calls[c]))' = Live(See(calls[c]))
  BY <1>1, <1>2, <1>3 DEF See, Follows, Live, Ids
<1>7. calls[c].op.kind = "rebuild"
  BY <1>2, CallOf DEF Placed
<1>8. Inserts(calls[c]) = {}
  BY <1>7 DEF Inserts
<1>9. Live(See(calls[c]))' \subseteq Asserted(log) \cup Inserts(h)
  BY <1>6, <1>8 DEF LiveInv
<1>10. \A f \in h.facts : f.kind = "assert" => f.subject = h.id
  BY <1>1, <1>2, AssertLast DEF Follows
<1>. QED  BY <1>1, <1>2, <1>4, <1>5, <1>9, <1>10, LiveStep DEF Survives

\* A fact is written, with the next value of the sequence.
LEMMA InsertLive ==
  ASSUME PgInv, LiveInv, NEW c \in Calls, InsertFact(c)
  PROVE  LiveInv'
<1>1. /\ calls[c].pc \in {"fact", "mergefact"} /\ log' = log /\ db' = db /\ seq' = seq + 1
      /\ \/ calls' = [calls EXCEPT ![c] = [Idle EXCEPT !.pc = "nothing", !.op = calls[c].op]]
         \/ \E fact, k : calls' = [calls EXCEPT ![c] = k] /\ FactOf(c, fact) /\ AfterFact(c, fact, k)
  BY Inserted
<1>2. seq \in Nat /\ seq' \in Nat /\ seq' >= seq
  BY <1>1 DEF PgInv, CallInv
<1>3. CASE calls' = [calls EXCEPT ![c] = [Idle EXCEPT !.pc = "nothing", !.op = calls[c].op]]
  <2>. DEFINE k == [Idle EXCEPT !.pc = "nothing", !.op = calls[c].op]
  <2>1. Untouched(k) /\ k.pc = "nothing"
    BY DEF Untouched, Idle
  <2>2. calls' = [calls EXCEPT ![c] = k]
    BY <1>3
  <2>. HIDE DEF k
  <2>. QED  BY <1>1, <1>2, <2>1, <2>2, FreshLive
<1>4. ASSUME NEW fact, NEW k, calls' = [calls EXCEPT ![c] = k], FactOf(c, fact), AfterFact(c, fact, k)
      PROVE  LiveInv'
  <2>1. calls'[c] = k /\ \A o \in Calls \ {c} : calls'[o] = calls[o]
    BY <1>4 DEF PgInv, Inv, CallsPlaced
  <2>2. /\ k.op = calls[c].op /\ k.facts = calls[c].facts \cup {fact} /\ k.id = calls[c].id
        /\ k.del = calls[c].del /\ k.add = calls[c].add
    BY <1>4 DEF AfterFact
  <2>3. /\ fact.kind = (IF calls[c].pc = "mergefact" THEN "merge" ELSE calls[c].op.kind)
        /\ fact.subject = (IF calls[c].pc = "mergefact" THEN Dropped(c) ELSE calls[c].id)
        /\ fact.keep = calls[c].id /\ fact.seq = seq + 1
    BY <1>4 DEF FactOf
  <2>4. SeqOnce'
    <3>1. Facts' \subseteq Facts \cup {fact}
      BY <1>1, <2>1, <2>2 DEF Facts
    <3>2. \A f \in Facts : f.seq \in 1 .. seq
      BY DEF LiveInv, SeqOnce
    <3>3. \A f \in Facts \cup {fact} : f.seq \in 1 .. seq'
      BY <1>1, <1>2, <2>3, <3>2
    <3>4. \A f, g \in Facts \cup {fact} : f.seq = g.seq => f = g
      <4>1. \A f \in Facts : f.seq # fact.seq
        BY <1>2, <2>3, <3>2
      <4>. QED  BY <4>1 DEF LiveInv, SeqOnce
    <3>. QED  BY <3>1, <3>3, <3>4 DEF SeqOnce
  <2>5. Live(See(calls[c]))' = Live(See(calls[c]))
    BY <1>1, <2>1, <2>2 DEF See, Live, Ids
  <2>6. \A i \in Asserted(log) : StillLive(i, c)'
    <3>. SUFFICES ASSUME NEW i \in Asserted(log) PROVE StillLive(i, c)'
      OBVIOUS
    <3>1. Tombstoned(i, log \cup calls[c].facts) => Tombstoned(i, log \cup calls[c].facts)'
      BY <1>1, <2>1, <2>2 DEF Tombstoned
    <3>2. Deleting(i, c) => Tombstoned(i, log \cup calls[c].facts)'
      <4>1. Deleting(i, c) => fact.subject = i /\ (fact.kind = "retract" \/ (fact.kind = "merge" /\ fact.keep # i))
        BY <2>3 DEF Deleting
      <4>2. fact \in (log \cup calls[c].facts)'
        BY <1>1, <2>1, <2>2
      <4>. QED  BY <4>1, <4>2 DEF Tombstoned
    <3>3. ~ Folding(i, c)
      BY <1>1 DEF Folding
    <3>4. StillLive(i, c)
      BY DEF LiveInv
    <3>. QED  BY <2>5, <3>1, <3>2, <3>3, <3>4 DEF StillLive
  <2>7. k.pc \notin Ended \cup {"prior", "hits"}
    BY <1>4 DEF AfterFact, Ended
  <2>8. Inserts(k) = Inserts(calls[c])
    BY <1>1, <2>2, <2>7, SameNode DEF Ended
  <2>9. Live(See(calls[c]))' \subseteq Asserted(log) \cup Inserts(k)
    BY <2>5, <2>8 DEF LiveInv
  <2>10. \A f \in k.facts : f.kind = "assert" => f.subject = k.id
    BY <2>2, <2>3 DEF LiveInv
  <2>11. Survives(k)
    <3>1. CASE calls[c].pc = "mergefact" /\ calls[c].op.kind = "assert"
      <4>1. k.id \notin calls[c].drops
        BY <2>2, <3>1 DEF LiveInv, Survives
      <4>2. k.drops \subseteq calls[c].drops
        BY <1>4, <3>1 DEF AfterFact
      <4>. QED  BY <4>1, <4>2 DEF Survives
    <3>2. CASE ~ (calls[c].pc = "mergefact" /\ calls[c].op.kind = "assert")
      <4>1. k.pc \in {"answer", "commit"}
        BY <1>4, <3>2 DEF AfterFact
      <4>. QED  BY <4>1 DEF Survives
    <3>. QED  BY <3>1, <3>2
  <2>12. k.pc = "commit" => Asserted(k.facts) = {}
    <3>1. \A f \in calls[c].facts : f.kind # "assert"
      BY <1>1, AssertLast
    <3>2. k.pc = "commit" => fact.kind # "assert"
      BY <1>4, <2>3 DEF AfterFact
    <3>. QED  BY <2>2, <3>1, <3>2 DEF Asserted
  <2>. QED  BY <1>1, <1>4, <2>4, <2>6, <2>9, <2>10, <2>11, <2>12, LiveStep
<1>. QED  BY <1>1, <1>3, <1>4

\* One fact of a fold: an assertion adds its node, and only a tombstone takes one away.
LEMMA FoldFactLive ==
  ASSUME NEW T \in Tables, NEW f, FactTyped(f), NEW tx
  PROVE  /\ Live(FoldFact(T, f, tx)) \subseteq Live(T) \cup (IF f.kind = "assert" THEN {f.subject} ELSE {})
         /\ f.kind = "assert" => f.subject \in Live(FoldFact(T, f, tx))
         /\ \A i \in Live(T) : \/ i \in Live(FoldFact(T, f, tx))
                               \/ f.subject = i /\ (f.kind = "retract" \/ (f.kind = "merge" /\ f.keep # f.subject))
<1>. DEFINE others == {r \in T.entities : r.id # f.subject}
            old    == {r \in T.entities : r.id = f.subject}
<1>1. CASE f.kind = "assert"
  <2>1. FoldFact(T, f, tx) = [T EXCEPT !.entities = FoldRow(T, f, tx), !.ext = FoldKeys(T, f)]
    BY <1>1 DEF FoldFact
  <2>2. Live(FoldFact(T, f, tx)) = Ids(FoldRow(T, f, tx))
    BY <2>1 DEF Live, Tables
  <2>. DEFINE rows == IF old = {} THEN {[id |-> f.subject, props |-> Stored(f.props), by |-> tx]}
                      ELSE {[r EXCEPT !.props = Concat(Stored(f.props), @)] : r \in old}
  <2>3. FoldRow(T, f, tx) = (T.entities \ old) \cup rows
    BY DEF FoldRow
  <2>4. \A r \in rows : r.id = f.subject
    BY DEF Tables
  <2>5. rows # {}
    OBVIOUS
  <2>. HIDE DEF rows
  <2>6. Ids(FoldRow(T, f, tx)) = Live(T) \cup {f.subject}
    BY <2>3, <2>4, <2>5 DEF Ids, Live
  <2>. QED  BY <1>1, <2>2, <2>6
<1>2. CASE f.kind \in {"edge", "unlink"} \/ (f.kind = "merge" /\ f.keep = f.subject)
  <2>1. FoldFact(T, f, tx).entities = T.entities
    BY <1>2 DEF FoldFact, Tables
  <2>. QED  BY <1>2, <2>1 DEF Live
<1>3. CASE f.kind = "retract" \/ (f.kind = "merge" /\ f.keep # f.subject)
  <2>1. FoldFact(T, f, tx).entities = others
    BY <1>3 DEF FoldFact
  <2>2. Live(FoldFact(T, f, tx)) = Live(T) \ {f.subject}
    BY <2>1 DEF Live, Ids
  <2>. QED  BY <1>3, <2>2
<1>. QED  BY <1>1, <1>2, <1>3 DEF FactTyped

\* A fold that no foreign key breaks has every node of its log that was not taken back,
\* and of the tables it began with; a fold has no other.
LEMMA FoldLive ==
  ASSUME seq \in Nat, NEW S, Foldable(S), NEW F, \A f \in F : FactTyped(f) /\ f.seq \in 1 .. seq,
         \A f, g \in F : f.seq = g.seq => f = g, NEW tx \in Nat
  PROVE  /\ Live(Fold(S, F, tx)) \subseteq Live(S) \cup Asserted(F)
         /\ Refers(Fold(S, F, tx)) =>
              \A i \in Live(S) \cup Asserted(F) : i \in Live(Fold(S, F, tx)) \/ Tombstoned(i, F)
<1>1. PICK R : /\ R[0] = S /\ R[seq] = Fold(S, F, tx)
               /\ \A n \in 1 .. seq : R[n] = FoldStep(R[n - 1], F, n, tx)
  BY FoldSteps
<1>. DEFINE Upto(n) == Live(S) \cup Asserted({f \in F : f.seq <= n})
            Good(n) == /\ Foldable(R[n]) /\ Live(R[n]) \subseteq Upto(n)
                       /\ Refers(R[n]) => \A i \in Upto(n) : i \in Live(R[n]) \/ Tombstoned(i, F)
            Off == {n \in 0 .. seq : ~ Good(n)}
<1>2. Good(0)
  <2>1. {f \in F : f.seq <= 0} = {}
    OBVIOUS
  <2>2. Upto(0) = Live(S)
    BY <2>1 DEF Asserted
  <2>. HIDE DEF Upto
  <2>. QED  BY <1>1, <2>2
<1>3. \A n \in 1 .. seq : Good(n - 1) => Good(n)
  <2>. SUFFICES ASSUME NEW n \in 1 .. seq, Good(n - 1) PROVE Good(n)
    OBVIOUS
  <2>0. n \in Nat /\ n - 1 \in Nat /\ \A f \in F : f.seq \in Nat
    OBVIOUS
  <2>1. R[n] = FoldStep(R[n - 1], F, n, tx)
    BY <1>1
  <2>2. Upto(n - 1) \subseteq Upto(n)
    BY <2>0 DEF Asserted
  <2>3. CASE {f \in F : f.seq = n} = {}
    <3>1. R[n] = R[n - 1]
      BY <2>1, <2>3 DEF FoldStep
    <3>2. {f \in F : f.seq <= n} = {f \in F : f.seq <= n - 1}
      <4>1. \A f \in F : f.seq <= n <=> f.seq <= n - 1
        BY <2>0, <2>3
      <4>. QED  BY <4>1
    <3>3. Upto(n) = Upto(n - 1)
      BY <3>2
    <3>. HIDE DEF Upto
    <3>. QED  BY <3>1, <3>3
  <2>4. CASE ~ Refers(R[n - 1])
    <3>1. R[n] = R[n - 1]
      BY <2>1, <2>4 DEF FoldStep
    <3>. HIDE DEF Upto
    <3>. QED  BY <2>2, <2>4, <3>1
  <2>5. CASE {f \in F : f.seq = n} # {} /\ Refers(R[n - 1])
    <3>1. PICK f \in F : f = FactAt(F, n) /\ f.seq = n
      BY <2>5 DEF FactAt
    <3>2. R[n] = FoldFact(R[n - 1], f, tx)
      BY <2>1, <2>5, <3>1 DEF FoldStep
    <3>3. Upto(n) = Upto(n - 1) \cup (IF f.kind = "assert" THEN {f.subject} ELSE {})
      <4>1. {g \in F : g.seq <= n} = {g \in F : g.seq <= n - 1} \cup {f}
        <5>1. \A g \in F : g.seq <= n <=> g.seq <= n - 1 \/ g = f
          BY <2>0, <3>1
        <5>. QED  BY <5>1
      <4>. QED  BY <4>1 DEF Asserted
    <3>4. R[n - 1] \in Tables /\ FactTyped(f)
      BY DEF Foldable
    <3>5. Foldable(R[n])
      BY <3>2, <3>4, FoldFactKeeps
    <3>6. /\ Live(R[n]) \subseteq Live(R[n - 1]) \cup (IF f.kind = "assert" THEN {f.subject} ELSE {})
          /\ f.kind = "assert" => f.subject \in Live(R[n])
          /\ \A i \in Live(R[n - 1]) :
               \/ i \in Live(R[n])
               \/ f.subject = i /\ (f.kind = "retract" \/ (f.kind = "merge" /\ f.keep # f.subject))
      BY <3>2, <3>4, FoldFactLive
    <3>7. \A i \in Live(R[n - 1]) : i \in Live(R[n]) \/ Tombstoned(i, F)
      BY <3>6 DEF Tombstoned
    <3>. HIDE DEF Upto
    <3>. QED  BY <2>5, <3>3, <3>5, <3>6, <3>7
  <2>. QED  BY <2>3, <2>4, <2>5
<1>4. Off = {}
  <2>. SUFFICES ASSUME Off # {} PROVE FALSE
    OBVIOUS
  <2>1. Off \in SUBSET Nat
    OBVIOUS
  <2>. HIDE DEF Good
  <2>2. PICK m \in Off : \A j \in Off : m <= j
    <3>. HIDE DEF Off
    <3>. QED  BY <2>1, LeastOf
  <2>3. m \in 1 .. seq /\ m - 1 \in 0 .. seq
    BY <1>2, <2>2
  <2>4. m - 1 \notin Off
    BY <2>2, <2>3
  <2>. QED  BY <1>3, <2>2, <2>3, <2>4
<1>. HIDE DEF Good
<1>5. Good(seq)
  BY <1>4
<1>6. {f \in F : f.seq <= seq} = F
  OBVIOUS
<1>7. Upto(seq) = Live(S) \cup Asserted(F)
  BY <1>6
<1>. QED  BY <1>1, <1>5, <1>7 DEF Good

\* What a rebuild folds is again in the tables.
LEMMA FoldLogLive ==
  ASSUME PgInv, LiveInv, NEW c \in Calls, FoldLog(c)
  PROVE  LiveInv'
<1>. DEFINE S == View(c)
            T == Fold(S, calls[c].read, calls[c].tx)
            change(A, B) == (A \ B) \cup (B \ A)
            ext == change(S.ext, T.ext)
            edges == change(S.edges, T.edges)
            lock == [write |-> Ids(change(S.entities, T.entities)), gone |-> Live(S) \ Live(T),
                     refer |-> {x.entity : x \in ext} \cup UNION {{e.from, e.to} : e \in edges},
                     keys |-> {x.key : x \in ext}, edges |-> Ids(edges)]
            k == [calls[c] EXCEPT !.pc = "commit", !.read = {}]
<1>1. Follows(k, calls[c]) /\ k.pc = "commit"
  BY CallIs DEF Follows, IsCall, Fields
<1>2. calls[c].pc = "fold" /\ calls[c].op.kind = "rebuild"
  BY CallOf DEF FoldLog, Placed
<1>3. (Refers(T) /\ Write(c, T, lock, k)) \/ Rollback(c, "failed")
  BY Zenon DEF FoldLog
<1>4. calls[c].read \subseteq log /\ Live(S) = Live(See(calls[c]))
  BY CallOf
<1>5. /\ Live(T) \subseteq Live(S) \cup Asserted(calls[c].read)
      /\ Refers(T) => \A i \in Live(S) \cup Asserted(calls[c].read) : i \in Live(T) \/ Tombstoned(i, calls[c].read)
  <2>1. seq \in Nat /\ Foldable(S) /\ calls[c].tx \in Nat
    BY CallOf DEF PgInv, CallInv, Foldable, Sound, CallTyped
  <2>2. \A f \in calls[c].read : FactTyped(f) /\ f.seq \in 1 .. seq
    BY <1>4 DEF PgInv, CallInv, LiveInv, SeqOnce, Facts
  <2>3. \A f, g \in calls[c].read : f.seq = g.seq => f = g
    BY <1>4 DEF LiveInv, SeqOnce, Facts
  <2>. HIDE DEF S
  <2>. QED  BY <2>1, <2>2, <2>3, FoldLive
<1>. HIDE DEF k, lock, T
<1>6. CASE Rollback(c, "failed")
  BY <1>6, RollbackLive DEF Ended
<1>7. CASE Refers(T) /\ Write(c, T, lock, k)
  <2>0. \E TT, ll : Write(c, TT, ll, k) /\ T.entities = TT.entities
    BY <1>7
  <2>1. PICK h : Moves(c, h, T.entities) /\ h.pc = k.pc /\ h.id = k.id /\ h.drops = k.drops /\ h.read = k.read
    BY <1>1, <2>0, Moved
  <2>2. /\ calls' = [calls EXCEPT ![c] = h] /\ log' = log /\ db' = db /\ seq' = seq
        /\ h.op = calls[c].op /\ h.facts = calls[c].facts /\ Live(See(calls[c]))' = Live(T)
    BY <2>1 DEF Moves, Live
  <2>3. calls'[c] = h
    BY <2>2 DEF PgInv, Inv, CallsPlaced
  <2>4. SeqOnce'
    <3>1. seq' \in Nat /\ seq' >= seq /\ h.facts \subseteq calls[c].facts
      BY <2>2 DEF PgInv, CallInv
    <3>. QED  BY <2>2, <3>1, SeqKept DEF LiveInv
  <2>5. \A i \in Asserted(log) : StillLive(i, c)'
    <3>. SUFFICES ASSUME NEW i \in Asserted(log) PROVE StillLive(i, c)'
      OBVIOUS
    <3>1. Tombstoned(i, log \cup calls[c].facts) => Tombstoned(i, log \cup calls[c].facts)'
      BY <2>2, <2>3 DEF Tombstoned
    <3>2. Tombstoned(i, calls[c].read) => Tombstoned(i, log \cup calls[c].facts)'
      BY <1>4, <2>2, <2>3 DEF Tombstoned
    <3>3. i \in Live(S) \cup Asserted(calls[c].read) \/ Tombstoned(i, log \cup calls[c].facts)
      BY <1>2, <1>4 DEF LiveInv, StillLive, Deleting, Folding
    <3>. QED  BY <1>5, <1>7, <2>2, <3>1, <3>2, <3>3 DEF StillLive
  <2>6. Live(See(calls[c]))' \subseteq Asserted(log) \cup Inserts(h)
    <3>1. Asserted(calls[c].read) \subseteq Asserted(log)
      BY <1>4 DEF Asserted
    <3>2. Live(S) \subseteq Asserted(log)
      BY <1>2, <1>4 DEF LiveInv, Inserts
    <3>. QED  BY <1>5, <2>2, <3>1, <3>2
  <2>7. \A f \in calls[c].facts : f.kind # "assert"
    BY <1>2, AssertLast
  <2>8. Asserted(h.facts) = {} /\ \A f \in h.facts : f.kind = "assert" => f.subject = h.id
    BY <2>2, <2>7 DEF Asserted
  <2>. QED  BY <1>1, <2>1, <2>2, <2>4, <2>5, <2>6, <2>8, LiveStep DEF Survives
<1>. QED  BY <1>3, <1>6, <1>7

\* What the other transactions see after a commit.
LEMMA CommitSeen ==
  ASSUME PgInv, NEW c \in Calls, Commit(c), NEW o \in Calls \ {c}
  PROVE  /\ Live(See(calls[o])) \cap Live(View(c)) \subseteq Live(See(calls[o]))'
         /\ Live(View(c)) \ Live(db) \subseteq Live(See(calls[o]))'
         /\ Live(See(calls[o])) \ Live(db) \subseteq Live(See(calls[o]))'
         /\ Live(See(calls[o]))' \subseteq Live(See(calls[o])) \cup Live(View(c))
<1>. DEFINE T == View(c)
            k == calls[c]
            h == calls[o]
            N == See(calls[o])'
<1>1. db' = T /\ calls'[o] = h
  BY DEF Commit, PgInv, Inv, CallsPlaced
<1>2. T.entities = (db.entities \ k.del.entities) \cup k.add.entities
  BY CallOf, SeeRows
<1>3. N.entities = (T.entities \ h.del.entities) \cup h.add.entities
  BY <1>1 DEF See, Names
<1>4. See(h).entities = (db.entities \ h.del.entities) \cup h.add.entities
  BY SeeRows
<1>5. \A r \in k.add.entities, q \in h.del.entities : r.id # q.id
  BY DEF PgInv, RowInv, Covered, Apart, Compatible
<1>6. Live(See(h)) \cap Live(T) \subseteq Live(See(calls[o]))'
  BY CommitRows DEF PgInv, Inv
<1>7. Live(See(calls[o]))' = Ids(N.entities)
  BY DEF Live, Ids
<1>. HIDE DEF N, T, h, k
<1>8. Live(T) \ Live(db) \subseteq Ids(N.entities)
  BY <1>2, <1>3, <1>5 DEF Live, Ids
<1>9. Live(See(h)) \ Live(db) \subseteq Ids(N.entities)
  BY <1>3, <1>4 DEF Live, Ids
<1>10. Ids(N.entities) \subseteq Live(See(h)) \cup Live(T)
  BY <1>3, <1>4 DEF Live, Ids
<1>11. /\ Live(See(h)) \cap Live(T) \subseteq Live(See(calls[o]))'
       /\ Live(T) \ Live(db) \subseteq Live(See(calls[o]))'
       /\ Live(See(h)) \ Live(db) \subseteq Live(See(calls[o]))'
       /\ Live(See(calls[o]))' \subseteq Live(See(h)) \cup Live(T)
  BY <1>6, <1>7, <1>8, <1>9, <1>10
<1>. QED  BY <1>11 DEF h, T

\* A transaction ends and its rows and facts are there for all.
LEMMA CommitLive ==
  ASSUME PgInv, PgInv', LiveInv, NEW c \in Calls, Commit(c)
  PROVE  LiveInv'
<1>. DEFINE F == log \cup calls[c].facts
            N(o) == See(calls[o])
<1>1. /\ calls[c].pc = "commit" /\ db' = View(c) /\ log' = F /\ seq' = seq
      /\ calls'[c] = [Idle EXCEPT !.pc = "done"] /\ \A o \in Calls \ {c} : calls'[o] = calls[o]
  BY DEF Commit, PgInv, Inv, CallsPlaced
<1>2. /\ calls'[c].facts = {} /\ calls'[c].pc = "done" /\ calls'[c].del = Empty /\ calls'[c].add = Empty
  BY <1>1 DEF Idle
<1>3. Live(db)' = Live(View(c)) /\ Live(View(c)) = Live(See(calls[c]))
  BY <1>1, CallOf DEF Live, Ids
<1>4. Live(See(calls[c]))' = Live(db)'
  <2>1. Empty.entities = {}
    BY DEF Empty, Names
  <2>2. See(calls[c])'.entities = db'.entities
    BY <1>2, <2>1 DEF See, Names
  <2>. QED  BY <2>2 DEF Live, Ids
<1>5. Asserted(log)' = Asserted(log) \cup Asserted(calls[c].facts)
  BY <1>1 DEF Asserted
<1>6. Asserted(log) \subseteq Asserted(log)'
  BY <1>5
<1>7. \A i : Tombstoned(i, F) <=> Tombstoned(i, log)'
  BY <1>1 DEF Tombstoned
<1>8. \A i \in Asserted(log)' : i \in Live(db)' \/ Tombstoned(i, log)'
  <2>. SUFFICES ASSUME NEW i \in Asserted(log)' PROVE i \in Live(db)' \/ Tombstoned(i, log)'
    OBVIOUS
  <2>1. CASE i \in Asserted(log)
    BY <1>1, <1>3, <1>7, <2>1 DEF LiveInv, StillLive, Deleting, Folding
  <2>2. CASE i \in Asserted(calls[c].facts)
    BY <1>1, <1>3, <1>7, <2>2 DEF LiveInv
  <2>. QED  BY <1>5, <2>1, <2>2
<1>9. \A o \in Calls, i \in Asserted(log)' : StillLive(i, o)'
  <2>1. \A i \in Asserted(log)' : StillLive(i, c)'
    <3>1. \A i : Tombstoned(i, log)' => Tombstoned(i, log \cup calls[c].facts)'
      BY DEF Tombstoned
    <3>. QED  BY <1>4, <1>8, <3>1 DEF StillLive
  <2>2. ASSUME NEW o \in Calls \ {c}, NEW i \in Asserted(log)' PROVE StillLive(i, o)'
    <3>1. calls'[o] = calls[o] /\ Dropped(o)' = Dropped(o)
      BY <1>1 DEF Dropped
    <3>2. Tombstoned(i, log)' => Tombstoned(i, log \cup calls[o].facts)'
      BY DEF Tombstoned
    <3>3. Tombstoned(i, log \cup calls[o].facts) => Tombstoned(i, log \cup calls[o].facts)'
      BY <1>1, <3>1 DEF Tombstoned
    <3>4. Deleting(i, o) => Deleting(i, o)'
      BY <3>1 DEF Deleting
    <3>5. Folding(i, o) => Folding(i, o)'
      BY <3>1 DEF Folding, Asserted
    <3>6. CASE i \in Asserted(log)
      <4>1. StillLive(i, o)
        BY <3>6 DEF LiveInv
      <4>2. i \in Live(View(c)) \/ Tombstoned(i, log)'
        BY <1>3, <1>8
      <4>. QED  BY <3>2, <3>3, <3>4, <3>5, <4>1, <4>2, CommitSeen DEF StillLive
    <3>7. CASE i \notin Asserted(log)
      <4>1. i \notin Live(db)
        BY <3>7 DEF LiveInv
      <4>2. i \in Live(View(c)) \/ Tombstoned(i, log)'
        BY <1>3, <1>8
      <4>. QED  BY <3>2, <4>1, <4>2, CommitSeen DEF StillLive
    <3>. QED  BY <3>6, <3>7
  <2>. QED  BY <2>1, <2>2
<1>10. Live(db)' \subseteq Asserted(log)'
  <2>1. Inserts(calls[c]) \subseteq Asserted(calls[c].facts)
    <3>1. CASE calls[c].op.kind = "assert"
      <4>1. PICK f \in calls[c].facts : AssertedBy(f, calls[c])
        BY <1>1, <3>1 DEF PgInv, Inv, Recorded, HoldsLock, Ended
      <4>2. f.kind = "assert" /\ f.subject = calls[c].id
        BY <4>1 DEF AssertedBy, LiveInv
      <4>. QED  BY <4>2 DEF Inserts, Asserted
    <3>2. CASE calls[c].op.kind # "assert"
      BY <3>2 DEF Inserts
    <3>. QED  BY <3>1, <3>2
  <2>2. Live(See(calls[c])) \subseteq Asserted(log) \cup Inserts(calls[c])
    BY DEF LiveInv
  <2>. QED  BY <1>3, <1>5, <2>1, <2>2
<1>11. \A o \in Calls : Live(See(calls[o]))' \subseteq Asserted(log)' \cup Inserts(calls[o])'
  <2>1. Live(See(calls[c]))' \subseteq Asserted(log)' \cup Inserts(calls[c])'
    BY <1>4, <1>10
  <2>2. ASSUME NEW o \in Calls \ {c} PROVE Live(See(calls[o]))' \subseteq Asserted(log)' \cup Inserts(calls[o])'
    <3>1. Live(See(calls[o]))' \subseteq Live(See(calls[o])) \cup Live(View(c))
      BY CommitSeen
    <3>2. Live(See(calls[o])) \subseteq Asserted(log) \cup Inserts(calls[o])
      BY DEF LiveInv
    <3>3. Inserts(calls[o])' = Inserts(calls[o])
      BY <1>1 DEF Inserts
    <3>. QED  BY <1>3, <1>6, <1>10, <3>1, <3>2, <3>3
  <2>. QED  BY <2>1, <2>2
<1>12. ASSUME NEW o \in Calls
       PROVE  /\ \A f \in calls'[o].facts : f.kind = "assert" => f.subject = calls'[o].id
              /\ Survives(calls[o])'
              /\ calls'[o].pc = "commit" => \A i \in Asserted(calls[o].facts)' :
                   i \in Live(See(calls[o]))' \/ Tombstoned(i, log \cup calls[o].facts)'
  <2>1. CASE o = c
    BY <1>2, <2>1 DEF Survives
  <2>2. CASE o # c
    <3>1. calls'[o] = calls[o]
      BY <1>1, <2>2
    <3>2. Asserted(calls[o].facts)' = Asserted(calls[o].facts)
      BY <3>1 DEF Asserted
    <3>3. ASSUME calls[o].pc = "commit", NEW i \in Asserted(calls[o].facts)
          PROVE  i \in Live(See(calls[o]))' \/ Tombstoned(i, log \cup calls[o].facts)'
      <4>1. Tombstoned(i, log \cup calls[o].facts) => Tombstoned(i, log \cup calls[o].facts)'
        BY <1>1, <3>1 DEF Tombstoned
      <4>2. CASE i \in Live(See(calls[o])) /\ i \in Live(db)
        <5>1. i \in Asserted(log)'
          BY <1>6, <4>2 DEF LiveInv
        <5>2. StillLive(i, o)'
          BY <1>9, <5>1
        <5>3. ~ Deleting(i, o)' /\ ~ Folding(i, o)'
          BY <3>1, <3>3 DEF Deleting, Folding
        <5>. QED  BY <5>2, <5>3 DEF StillLive
      <4>3. CASE i \in Live(See(calls[o])) /\ i \notin Live(db)
        BY <2>2, <4>3, CommitSeen
      <4>4. i \in Live(See(calls[o])) \/ Tombstoned(i, log \cup calls[o].facts)
        BY <3>3 DEF LiveInv
      <4>. QED  BY <4>1, <4>2, <4>3, <4>4
    <3>4. Survives(calls[o])'
      BY <3>1 DEF LiveInv, Survives
    <3>. QED  BY <3>1, <3>2, <3>3, <3>4 DEF LiveInv
  <2>. QED  BY <2>1, <2>2
<1>13. SeqOnce'
  <2>1. Facts' \subseteq Facts
    <3>1. \A o \in Calls : calls'[o].facts \subseteq calls[o].facts
      BY <1>1, <1>2
    <3>. QED  BY <1>1, <3>1 DEF Facts
  <2>. QED  BY <1>1, <2>1 DEF LiveInv, SeqOnce
<1>. QED  BY <1>8, <1>9, <1>10, <1>11, <1>12, <1>13 DEF LiveInv

\* Nothing is logged and there is no node at first.
LEMMA InitLive == Init => LiveInv
<1>. SUFFICES ASSUME Init PROVE LiveInv
  OBVIOUS
<1>1. \A c \in Calls : calls[c] = Idle
  BY DEF Init
<1>2. log = {} /\ db = Empty /\ Idle.facts = {} /\ Idle.pc = "idle" /\ Idle.del = Empty /\ Idle.add = Empty
  BY DEF Init, Idle
<1>3. Asserted(log) = {} /\ Live(db) = {}
  BY <1>2, EmptySound DEF Asserted
<1>4. \A c \in Calls : Live(See(calls[c])) = {}
  <2>1. Empty.entities = {}
    BY DEF Empty, Names
  <2>. QED  BY <1>1, <1>2, <2>1, SeeRows DEF Live, Ids
<1>5. SeqOnce
  BY <1>1, <1>2 DEF SeqOnce, Facts
<1>. QED  BY <1>1, <1>2, <1>3, <1>4, <1>5 DEF LiveInv, Survives

\* Every step preserves it.
LEMMA NextLive == PgInv /\ PgInv' /\ LiveInv /\ [Next]_vars => LiveInv'
<1>. SUFFICES ASSUME PgInv, PgInv', LiveInv, [Next]_vars PROVE LiveInv'
  OBVIOUS
<1>1. ASSUME NEW c \in Calls, Abort(c) PROVE LiveInv'
  BY <1>1, RollbackLive DEF Abort, Ended
<1>2. CASE UNCHANGED vars
  <2>1. db' = db /\ log' = log /\ seq' = seq /\ calls' = calls
    BY <1>2 DEF vars
  <2>2. SeqOnce'
    BY <2>1 DEF LiveInv, SeqOnce, Facts
  <2>3. Asserted(log)' = Asserted(log) /\ Live(db)' = Live(db)
    BY <2>1 DEF Asserted, Live, Ids
  <2>4. \A o \in Calls : Live(See(calls[o]))' = Live(See(calls[o]))
    BY <2>1 DEF See, Live, Ids
  <2>5. \A o \in Calls : Asserted(calls[o].facts)' = Asserted(calls[o].facts)
    BY <2>1 DEF Asserted
  <2>6. \A i : \A o \in Calls : /\ Tombstoned(i, log)' <=> Tombstoned(i, log)
                                /\ Tombstoned(i, log \cup calls[o].facts)' <=> Tombstoned(i, log \cup calls[o].facts)
    BY <2>1 DEF Tombstoned
  <2>7. \A i : Tombstoned(i, log)' <=> Tombstoned(i, log)
    BY <2>1 DEF Tombstoned
  <2>8. \A i : \A o \in Calls : StillLive(i, o)' <=> StillLive(i, o)
    <3>1. \A i : \A o \in Calls : (Deleting(i, o)' <=> Deleting(i, o)) /\ (Folding(i, o)' <=> Folding(i, o))
      BY <2>1 DEF Deleting, Dropped, Folding, Asserted
    <3>. QED  BY <2>4, <2>6, <3>1 DEF StillLive
  <2>9. \A o \in Calls : Inserts(calls[o])' = Inserts(calls[o]) /\ (Survives(calls[o])' <=> Survives(calls[o]))
    BY <2>1 DEF Inserts, Survives
  <2>. QED  BY <2>1, <2>2, <2>3, <2>4, <2>5, <2>6, <2>7, <2>8, <2>9 DEF LiveInv
<1>3. CASE Next
  <2>1. PICK c \in Calls :
          \/ \E op \in Inputs : Begin(c, op)
          \/ Prior(c) \/ Hits(c) \/ Exists(c) \/ Upsert(c)
          \/ \E x \in Keys : InsertKey(c, x)
          \/ Sync(c) \/ Answer(c)
          \/ Check(c) \/ Move(c) \/ Repoint(c) \/ Drop(c)
          \/ Retract(c) \/ Link(c) \/ Unlink(c)
          \/ InsertFact(c) \/ Commit(c) \/ Abort(c)
          \/ Clear(c) \/ ReadLog(c) \/ FoldLog(c)
    BY <1>3 DEF Next
  <2>. QED  BY <1>1, <2>1, BeginLive, PriorLive, HitsLive, ExistsLive, UpsertLive, InsertKeyLive, SyncLive,
                AnswerLive, CheckLive, MoveLive, RepointLive, DropLive, RetractLive, LinkLive, UnlinkLive,
                InsertLive, CommitLive, ClearLive, ReadLogLive, FoldLogLive
<1>. QED  BY <1>2, <1>3

\* What is in the log and was not taken back is in the tables, also after a rebuild that
\* ran while it was written: whatever transactions overlap, one that deletes a node writes
\* so to the log, and one that empties the tables reads back every node it removed
\* (postgres.go RebuildProjection).
THEOREM NothingLoggedIsLost == Spec => []LoggedIsLive
<1>1. LiveInv => LoggedIsLive
  BY DEF LiveInv, LoggedIsLive, Asserted, Tombstoned
<1>. QED  BY InitPg, NextPg, InitLive, NextLive, <1>1, PTL DEF Spec

----------------------------------------------------------------------------
(* The fold of the log and the tables, while entities and edges are only asserted. *)

Plainly(F) == \A f \in F : f.kind \in {"assert", "edge"}
Asserts(F) == {f \in F : f.kind = "assert"}
EdgesOf(F) == {f \in F : f.kind = "edge"}
EdgeOf(f) == [id |-> f.subject, from |-> f.ends[1], to |-> f.ends[2]]

\* The properties that F asserts of the node i, unless an assertion of it is logged with null.
PropsOf(i, F) == UNION {f.props : f \in {f \in Asserts(F) : f.subject = i}}

\* The assertion f of F is the first that has the key x.
First1(f, F, x) == f \in Asserts(F) /\ x \in f.keys /\ \A g \in Asserts(F) : x \in g.keys => f.seq <= g.seq

\* The tables that the assertions and edges of F make.
Shows(T, F) ==
  /\ Live(T) = Asserted(F)
  /\ \A r \in T.entities : r.id \notin Unset(F) => r.props = PropsOf(r.id, F) /\ r.props \in Objects
  /\ \A y \in T.ext : \E f \in F : First1(f, F, y.key) /\ y.entity = f.subject
  /\ \A f \in Asserts(F) : \A x \in f.keys : \E y \in T.ext : y.key = x
  /\ T.edges = {EdgeOf(f) : f \in EdgesOf(F)}

\* An edge is logged once, after its ends.
Ordered(F) ==
  \A f \in EdgesOf(F) :
    /\ \A g \in EdgesOf(F) : g.subject = f.subject => g = f
    /\ \A j \in {f.ends[1], f.ends[2]} : \E a \in Asserts(F) : a.subject = j /\ a.seq < f.seq

Grown == Plainly(log) /\ ~ rebuilt

\* A call that will log an assertion or an edge, and no merge.
Simple(k) == /\ k.op.kind \in {"assert", "edge"} /\ k.pc \notin Ended /\ k.drops = {}
             /\ Plainly(k.facts)

\* The fact it has written, if any.
Wrote(k, f) ==
  /\ k.facts = {f} /\ f.kind = k.op.kind /\ f.subject = k.id
  /\ f.kind = "assert" => f.keys = k.op.keys /\ f.props = Logged(k.op.props)
  /\ f.kind = "edge" => f.ends = <<k.op.from, k.op.to>>
Recording(k) ==
  IF k.pc \in {"answer", "commit"} THEN \E f \in k.facts : Wrote(k, f) ELSE k.facts = {}

\* Where a call that merges, retracts or rebuilds differs from one that does not.
OwnOK(k) ==
  /\ k.pc \in {"prior", "hits"} => k.seen = 0
  /\ k.pc = "answer" => k.op.kind \in {"assert", "edge"}
  /\ k.op.kind \in {"assert", "edge"} /\ k.pc \notin Ended \cup {"move", "repoint", "drop", "mergefact"} => k.drops = {}
  /\ k.pc = "commit" => k.op.kind \in {"assert", "edge", "rebuild"} \/ ~ Plainly(k.facts)
  /\ Simple(k) => Recording(k)

\* The row that an assertion of k has made of the node.
WideRow(k, q) ==
  /\ q.id = k.id
  /\ \A r \in db.entities : r.id = k.id => r.by = q.by /\ q.props = Concat(Stored(k.op.props), r.props)
  /\ k.id \notin Live(db) => q.props = Stored(k.op.props)

\* A key of k is its own or that of an earlier assertion.
KeyDone(k, x) ==
  \/ \E y \in k.add.ext : y.key = x
  \/ \E g \in Asserts(log) : x \in g.keys /\ \A f \in k.facts : g.seq < f.seq

\* What an assertion has written.
Widened(k) ==
  /\ k.del.ext = {} /\ k.del.edges = {} /\ k.add.edges = {}
  /\ k.id \in k.locks.write
  /\ \A r \in k.del.entities \cup k.add.entities : r.id = k.id
  /\ \E q \in See(k).entities : WideRow(k, q)
  /\ \A y \in k.add.ext : y.entity = k.id /\ y.key \in k.op.keys
  /\ k.todo \subseteq k.op.keys /\ (k.pc # "keys" => k.todo = {})
  /\ \A x \in k.op.keys \ k.todo : KeyDone(k, x)

\* What a call for an edge has written.
Linked(k) == k.op.kind = "edge" /\ k.pc \in {"fact", "answer", "commit"}
EndsDone(k) ==
  \A j \in {k.op.from, k.op.to} : \E a \in Asserts(log) : a.subject = j /\ \A f \in k.facts : a.seq < f.seq
Joined(k) ==
  /\ k.del = Empty /\ k.add.entities = {} /\ k.add.ext = {}
  /\ k.add.edges = {[id |-> k.id, from |-> k.op.from, to |-> k.op.to]}
  /\ k.id \in EdgeIds /\ k.id \notin Subjects(log)
  /\ EndsDone(k)

\* What a simple call has written.
Unwritten(k) ==
  /\ k.del = Empty /\ k.add = Empty
  /\ k.pc = "upsert" /\ k.seen # 0 => \E r \in db.entities : r.id = k.id /\ r.by = k.seen
Shown(k) ==
  /\ Linked(k) => Joined(k)
  /\ k.op.kind = "assert" /\ k.pc \in {"hits", "exists", "upsert"} => Unwritten(k)
  /\ k.op.kind = "assert" /\ k.pc \in {"keys", "sync", "fact", "answer", "commit"} => Widened(k)

\* While entities and edges are only asserted, the tables show the log, and each call what it has written.
GrowInv ==
  /\ \A c \in Calls : OwnOK(calls[c]) /\ (calls[c].op.kind = "rebuild" => rebuilt)
  /\ Grown =>
       /\ Shows(db, log) /\ Ordered(log)
       /\ \A c \in Calls : Simple(calls[c]) => Shown(calls[c])
       /\ \A c, o \in Calls : c # o /\ Linked(calls[c]) /\ Linked(calls[o]) => calls[c].id # calls[o].id

\* What is asserted of a node, element by element.
LEMMA PropsAre ==
  ASSUME NEW i, NEW F
  PROVE  \A p : p \in PropsOf(i, F) <=> \E f \in F : f.kind = "assert" /\ f.subject = i /\ p \in f.props
BY DEF PropsOf, Asserts

\* Tables show one assertion more.
LEMMA ShowsAssert ==
  ASSUME NEW S, NEW F, Shows(S, F), NEW f, f.kind = "assert", f.seq \in Nat, \A g \in F : g.seq \in Nat,
         NEW T, Live(T) = Live(S) \cup {f.subject},
         \A r \in T.entities : r.id # f.subject => r \in S.entities,
         f.props \in {JsonNull} \cup Objects,
         \A r \in T.entities : r.id = f.subject /\ f.props # JsonNull =>
           /\ \A q \in S.entities : q.id = f.subject => r.props = Concat(f.props, q.props)
           /\ f.subject \notin Live(S) => r.props = f.props,
         S.ext \subseteq T.ext, \A x, y \in T.ext : x.key = y.key => x = y,
         \A y \in T.ext \ S.ext : y.entity = f.subject /\ y.key \in f.keys,
         \A x \in f.keys : \E y \in T.ext : y.key = x,
         \A y \in S.ext : y.key \in f.keys =>
           y.entity = f.subject \/ \E g \in Asserts(F) : y.key \in g.keys /\ g.seq < f.seq,
         T.edges = S.edges
  PROVE  Shows(T, F \cup {f})
<1>. DEFINE G == F \cup {f}
<1>1. Asserts(G) = Asserts(F) \cup {f} /\ EdgesOf(G) = EdgesOf(F)
  BY DEF Asserts, EdgesOf
<1>2. Live(T) = Asserted(G) /\ f.seq <= f.seq
  BY DEF Shows, Asserted
<1>3. ASSUME NEW r \in T.entities, r.id \notin Unset(G) PROVE r.props = PropsOf(r.id, G) /\ r.props \in Objects
  <2>0. /\ r.id \notin Unset(F)
        /\ r.id = f.subject => f.props # JsonNull /\ f.props \in Objects
    BY <1>3 DEF Unset
  <2>1. \A p : p \in PropsOf(r.id, F) <=> \E g \in F : g.kind = "assert" /\ g.subject = r.id /\ p \in g.props
    BY PropsAre
  <2>2. \A p : p \in PropsOf(r.id, G) <=> \E g \in G : g.kind = "assert" /\ g.subject = r.id /\ p \in g.props
    BY PropsAre
  <2>3. CASE r.id # f.subject
    <3>1. r.props = PropsOf(r.id, F) /\ r.props \in Objects
      BY <2>0, <2>3 DEF Shows
    <3>. HIDE DEF G
    <3>2. F \subseteq G /\ \A g \in G : g.subject = r.id => g \in F
      BY <2>3 DEF G
    <3>3. \A p : p \in PropsOf(r.id, F) <=> p \in PropsOf(r.id, G)
      BY <2>1, <2>2, <3>2
    <3>4. PropsOf(r.id, F) = PropsOf(r.id, G)
      BY <3>3 DEF PropsOf
    <3>. QED  BY <3>1, <3>4
  <2>4. CASE r.id = f.subject /\ f.subject \notin Live(S)
    <3>1. \A g \in F : g.kind = "assert" => g.subject # f.subject
      BY <2>4 DEF Shows, Asserted
    <3>2. r.props = f.props /\ f.props \in Objects
      BY <2>0, <2>4
    <3>3. f \in G /\ \A g \in G : g.kind = "assert" /\ g.subject = r.id => g = f
      BY <2>4, <3>1
    <3>. HIDE DEF G
    <3>4. \A p : p \in f.props <=> p \in PropsOf(r.id, G)
      BY <2>2, <2>4, <3>3
    <3>. QED  BY <3>2, <3>4 DEF PropsOf
  <2>5. CASE r.id = f.subject /\ f.subject \in Live(S)
    <3>1. PICK q \in S.entities : q.id = f.subject
      BY <2>5 DEF Live, Ids
    <3>2. r.props = Concat(f.props, q.props) /\ q.props = PropsOf(r.id, F) /\ q.props \in Objects
      BY <2>0, <2>5, <3>1 DEF Shows
    <3>5. r.props = f.props \cup q.props /\ r.props \in Objects
      BY <2>0, <2>5, <3>2, ConcatIs DEF RowProps
    <3>3. \A p : p \in f.props \cup PropsOf(r.id, F) <=> p \in PropsOf(r.id, G)
      BY <2>1, <2>2, <2>5
    <3>4. f.props \cup PropsOf(r.id, F) = PropsOf(r.id, G)
      BY <3>3 DEF PropsOf
    <3>. QED  BY <3>2, <3>4, <3>5
  <2>. QED  BY <2>3, <2>4, <2>5
<1>4. ASSUME NEW y \in T.ext PROVE \E g \in G : First1(g, G, y.key) /\ y.entity = g.subject
  <2>1. CASE y \in S.ext
    <3>1. PICK g \in F : First1(g, F, y.key) /\ y.entity = g.subject
      BY <2>1 DEF Shows
    <3>2. CASE y.key \notin f.keys \/ g.seq <= f.seq
      <4>1. First1(g, G, y.key)
        BY <1>1, <3>1, <3>2 DEF First1
      <4>. QED  BY <3>1, <4>1
    <3>3. CASE y.key \in f.keys /\ ~ g.seq <= f.seq
      <4>1. \A h \in Asserts(F) : h.seq \in Nat
        BY DEF Asserts
      <4>2. f.seq < g.seq /\ g.seq \in Nat
        BY <3>3
      <4>3. \A h \in Asserts(F) : y.key \in h.keys => f.seq <= h.seq
        BY <3>1, <4>1, <4>2 DEF First1
      <4>4. First1(f, G, y.key)
        BY <1>1, <1>2, <3>3, <4>3 DEF First1
      <4>5. ~ \E h \in Asserts(F) : y.key \in h.keys /\ h.seq < f.seq
        BY <3>1, <4>1, <4>2 DEF First1
      <4>. QED  BY <2>1, <3>3, <4>4, <4>5
    <3>. QED  BY <3>2, <3>3
  <2>2. CASE y \notin S.ext
    <3>1. \A g \in Asserts(F) : y.key \notin g.keys
      BY <2>2 DEF Shows
    <3>2. First1(f, G, y.key)
      BY <1>1, <1>2, <2>2, <3>1 DEF First1
    <3>. QED  BY <2>2, <3>2
  <2>. QED  BY <2>1, <2>2
<1>5. \A g \in Asserts(G) : \A x \in g.keys : \E y \in T.ext : y.key = x
  BY <1>1 DEF Shows
<1>6. T.edges = {EdgeOf(g) : g \in EdgesOf(G)}
  BY <1>1 DEF Shows
<1>. QED  BY <1>2, <1>3, <1>4, <1>5, <1>6 DEF Shows

\* Tables show one edge more.
LEMMA ShowsEdge ==
  ASSUME NEW S, NEW F, Shows(S, F), NEW f, f.kind = "edge",
         NEW T, T.entities = S.entities, T.ext = S.ext, T.edges = S.edges \cup {EdgeOf(f)}
  PROVE  Shows(T, F \cup {f})
<1>. DEFINE G == F \cup {f}
<1>1. Asserts(G) = Asserts(F) /\ EdgesOf(G) = EdgesOf(F) \cup {f}
  BY DEF Asserts, EdgesOf
<1>2. Asserted(G) = Asserted(F) /\ Live(T) = Live(S)
  BY <1>1 DEF Asserted, Asserts, Live
<1>3. \A i : PropsOf(i, G) = PropsOf(i, F) /\ (i \notin Unset(G) => i \notin Unset(F))
  BY <1>1 DEF PropsOf, Unset
<1>4. \A g, x : First1(g, F, x) => First1(g, G, x)
  BY <1>1 DEF First1
<1>5. T.edges = {EdgeOf(g) : g \in EdgesOf(G)}
  BY <1>1 DEF Shows
<1>. QED  BY <1>1, <1>2, <1>3, <1>4, <1>5 DEF Shows

\* Tables that show the same are the same, but for the transactions that inserted the rows.
LEMMA SameShown ==
  ASSUME NEW F, \A f \in F : f.seq \in Nat, \A f, g \in F : f.seq = g.seq => f = g,
         NEW S, Foldable(S), Shows(S, F), NEW T, Foldable(T), Shows(T, F)
  PROVE  Plain(S, Unset(F)) = Plain(T, Unset(F))
<1>1. /\ S.entities \in SUBSET EntityRow /\ S.ext \in SUBSET ExtRow
      /\ T.entities \in SUBSET EntityRow /\ T.ext \in SUBSET ExtRow
      /\ S = [t \in Names |-> S[t]] /\ T = [t \in Names |-> T[t]]
  BY TablesForm DEF Foldable, Tables, RowProps, EntityRow, ExtRow
<1>2. S.edges = T.edges
  BY DEF Shows
<1>3. ASSUME NEW A, NEW B, A.ext \in SUBSET ExtRow, B.ext \in SUBSET ExtRow, Shows(A, F), Shows(B, F)
      PROVE  A.ext \subseteq B.ext
  <2>. SUFFICES ASSUME NEW y \in A.ext PROVE y \in B.ext
    OBVIOUS
  <2>1. PICK f \in F : First1(f, F, y.key) /\ y.entity = f.subject
    BY <1>3 DEF Shows
  <2>2. PICK z \in B.ext : z.key = y.key
    BY <1>3, <2>1 DEF Shows, First1
  <2>3. PICK g \in F : First1(g, F, z.key) /\ z.entity = g.subject
    BY <1>3 DEF Shows
  <2>4. f.seq <= g.seq /\ g.seq <= f.seq
    BY <2>1, <2>2, <2>3 DEF First1
  <2>5. f = g
    BY <2>4
  <2>6. y \in ExtRow /\ z \in ExtRow
    BY <1>3
  <2>7. y = z
    BY <2>1, <2>2, <2>3, <2>5, <2>6 DEF ExtRow
  <2>. QED  BY <2>7
<1>4. S.ext = T.ext
  <2>1. S.ext \subseteq T.ext
    BY <1>1, <1>3
  <2>2. T.ext \subseteq S.ext
    BY <1>1, <1>3
  <2>. QED  BY <2>1, <2>2
<1>. DEFINE plain(r) == [r EXCEPT !.by = 0, !.props = IF r.id \in Unset(F) THEN {} ELSE @]
<1>5. ASSUME NEW A, NEW B, A.entities \in SUBSET EntityRow, B.entities \in SUBSET EntityRow,
             Shows(A, F), Shows(B, F)
      PROVE  {plain(r) : r \in A.entities} \subseteq {plain(r) : r \in B.entities}
  <2>. SUFFICES ASSUME NEW r \in A.entities PROVE \E q \in B.entities : plain(q) = plain(r)
    OBVIOUS
  <2>1. PICK q \in B.entities : q.id = r.id
    BY <1>5 DEF Shows, Live, Ids
  <2>2. r.id \notin Unset(F) => q.props = r.props
    BY <1>5, <2>1 DEF Shows
  <2>3. q \in EntityRow /\ r \in EntityRow
    BY <1>5
  <2>. QED  BY <2>1, <2>2, <2>3 DEF EntityRow
<1>6. {plain(r) : r \in S.entities} = {plain(r) : r \in T.entities}
  BY <1>1, <1>5
<1>. HIDE DEF plain
<1>7. [S EXCEPT !.entities = {plain(r) : r \in S.entities}] = [T EXCEPT !.entities = {plain(r) : r \in T.entities}]
  <2>1. ASSUME NEW A, A = [t \in Names |-> A[t]]
        PROVE  [A EXCEPT !.entities = {plain(r) : r \in A.entities}]
                 = [t \in Names |-> IF t = "entities" THEN {plain(r) : r \in A.entities} ELSE A[t]]
    BY <2>1 DEF Names
  <2>2. \A t \in Names : t # "entities" => S[t] = T[t]
    BY <1>2, <1>4 DEF Names
  <2>. QED  BY <1>1, <1>6, <2>1, <2>2
<1>. QED  BY <1>7 DEF Plain, plain

\* The foreign keys of what such a log makes.
LEMMA ShownRefers ==
  ASSUME NEW T, NEW F, Shows(T, F), Ordered(F)
  PROVE  Refers(T)
<1>1. \A f \in Asserts(F) : f.subject \in Live(T)
  BY DEF Shows, Asserted, Asserts
<1>2. ASSUME NEW e \in T.edges PROVE {e.from, e.to} \subseteq Live(T)
  <2>1. PICK f \in EdgesOf(F) : e = EdgeOf(f)
    BY DEF Shows
  <2>2. e.from = f.ends[1] /\ e.to = f.ends[2]
    BY <2>1 DEF EdgeOf
  <2>3. \A j \in {f.ends[1], f.ends[2]} : \E a \in Asserts(F) : a.subject = j
    BY DEF Ordered
  <2>. QED  BY <1>1, <2>2, <2>3
<1>3. \A y \in T.ext : y.entity \in Live(T)
  BY <1>1 DEF Shows, First1
<1>. QED  BY <1>2, <1>3 DEF Refers

\* A fold applies one fact more.
LEMMA FoldFactShows ==
  ASSUME NEW T, Foldable(T), NEW F, Shows(T, F), NEW f, FactTyped(f), f.kind \in {"assert", "edge"}, NEW tx \in Nat,
         f.seq \in Nat, \A g \in F : g.seq \in Nat /\ g.seq < f.seq,
         f.kind = "edge" => \A g \in EdgesOf(F) : g.subject # f.subject
  PROVE  Shows(FoldFact(T, f, tx), F \cup {f})
<1>. DEFINE U == FoldFact(T, f, tx)
<1>0. /\ T.entities \in SUBSET EntityRow /\ T.ext \in SUBSET ExtRow /\ T.edges \in SUBSET EdgeRow
      /\ T = [t \in Names |-> T[t]]
      /\ \A x, y \in T.ext : x.key = y.key => x = y
      /\ \A r, q \in T.entities : r.id = q.id => r = q
  BY TablesForm DEF Foldable, Tables, RowProps, EntityRow, ExtRow, EdgeRow, Unique
<1>1. CASE f.kind = "edge"
  <2>1. f.subject \notin Ids(T.edges)
    <3>1. \A g \in EdgesOf(F) : EdgeOf(g).id # f.subject
      BY <1>1 DEF EdgeOf
    <3>. QED  BY <3>1 DEF Shows, Ids
  <2>2. U = [T EXCEPT !.edges = @ \cup {EdgeOf(f)}]
    BY <1>1, <2>1 DEF FoldFact, EdgeOf
  <2>3. U.entities = T.entities /\ U.ext = T.ext /\ U.edges = T.edges \cup {EdgeOf(f)}
    BY <1>0, <2>2 DEF Names
  <2>. HIDE DEF U
  <2>4. Shows(U, F \cup {f})
    BY <1>1, <2>3, ShowsEdge
  <2>. QED  BY <2>4 DEF U
<1>2. CASE f.kind = "assert"
  <2>. DEFINE old  == {r \in T.entities : r.id = f.subject}
              rows == IF old = {} THEN {[id |-> f.subject, props |-> Stored(f.props), by |-> tx]}
                      ELSE {[r EXCEPT !.props = Concat(Stored(f.props), @)] : r \in old}
              free == {x \in f.keys : ~ \E y \in T.ext : y.key = x}
              new  == {[entity |-> f.subject, key |-> x] : x \in free}
  <2>1. U = [T EXCEPT !.entities = FoldRow(T, f, tx), !.ext = FoldKeys(T, f)]
    BY <1>2 DEF FoldFact
  <2>2. FoldRow(T, f, tx) = (T.entities \ old) \cup rows /\ FoldKeys(T, f) = T.ext \cup new
    BY DEF FoldRow, FoldKeys
  <2>3. U.entities = (T.entities \ old) \cup rows /\ U.ext = T.ext \cup new /\ U.edges = T.edges
    BY <1>0, <2>1, <2>2 DEF Names
  <2>0. Stored(f.props) = f.props /\ f.props \in {JsonNull} \cup Objects
    BY <1>2, StoredLogged DEF FactTyped
  <2>4. \A r \in rows : /\ r.id = f.subject
                        /\ \A q \in T.entities : q.id = f.subject => r.props = Concat(f.props, q.props)
                        /\ f.subject \notin Live(T) => r.props = f.props
    <3>1. CASE old = {}
      <4>1. rows = {[id |-> f.subject, props |-> Stored(f.props), by |-> tx]}
        BY <3>1
      <4>. HIDE DEF rows
      <4>. QED  BY <2>0, <3>1, <4>1
    <3>2. CASE old # {}
      <4>1. f.subject \in Live(T)
        BY <3>2 DEF Live, Ids
      <4>. SUFFICES ASSUME NEW r \in rows
                    PROVE  /\ r.id = f.subject
                           /\ \A q \in T.entities : q.id = f.subject => r.props = Concat(f.props, q.props)
        BY <4>1
      <4>2. PICK q \in old : r = [q EXCEPT !.props = Concat(Stored(f.props), @)]
        BY <3>2
      <4>3. q \in EntityRow /\ q.id = f.subject
        BY <1>0
      <4>4. r.id = f.subject /\ r.props = Concat(f.props, q.props)
        BY <2>0, <4>2, <4>3 DEF EntityRow
      <4>. QED  BY <1>0, <4>3, <4>4
    <3>. QED  BY <3>1, <3>2
  <2>5. rows # {}
    OBVIOUS
  <2>. HIDE DEF rows
  <2>6. Live(U) = Live(T) \cup {f.subject}
    BY <2>3, <2>4, <2>5 DEF Live, Ids
  <2>7. \A r \in U.entities : r.id # f.subject => r \in T.entities
    BY <2>3, <2>4
  <2>8. \A r \in U.entities : r.id = f.subject =>
          /\ \A q \in T.entities : q.id = f.subject => r.props = Concat(f.props, q.props)
          /\ f.subject \notin Live(T) => r.props = f.props
    BY <2>3, <2>4
  <2>9. \A x, y \in U.ext : x.key = y.key => x = y
    <3>1. \A y \in new : y.key \in free /\ y = [entity |-> f.subject, key |-> y.key]
      OBVIOUS
    <3>. HIDE DEF new
    <3>. QED  BY <1>0, <2>3, <3>1
  <2>10. \A y \in U.ext \ T.ext : y.entity = f.subject /\ y.key \in f.keys
    BY <2>3
  <2>11. \A x \in f.keys : \E y \in U.ext : y.key = x
    <3>. SUFFICES ASSUME NEW x \in f.keys, ~ \E y \in T.ext : y.key = x PROVE \E y \in U.ext : y.key = x
      BY <2>3
    <3>1. [entity |-> f.subject, key |-> x] \in new
      OBVIOUS
    <3>. QED  BY <2>3, <3>1
  <2>12. \A y \in T.ext : y.key \in f.keys => \E g \in Asserts(F) : y.key \in g.keys /\ g.seq < f.seq
    <3>1. \A y \in T.ext : \E g \in Asserts(F) : y.key \in g.keys
      BY DEF Shows, First1
    <3>. QED  BY <3>1 DEF Asserts
  <2>13. T.ext \subseteq U.ext /\ U.edges = T.edges
    BY <2>3
  <2>. HIDE DEF U, new, old
  <2>14. Shows(U, F \cup {f})
    BY <1>2, <2>0, <2>6, <2>7, <2>8, <2>9, <2>10, <2>11, <2>12, <2>13, ShowsAssert
  <2>. QED  BY <2>14 DEF U
<1>. QED  BY <1>1, <1>2

\* Nothing shows nothing.
LEMMA EmptyShows == Shows(Empty, {})
<1>1. Empty.entities = {} /\ Empty.ext = {} /\ Empty.edges = {}
  BY DEF Empty, Names
<1>2. Asserted({}) = {} /\ Asserts({}) = {} /\ EdgesOf({}) = {}
  BY DEF Asserted, Asserts, EdgesOf
<1>. QED  BY <1>1, <1>2 DEF Shows, Live, Ids

\* The fold of such a log shows it.
LEMMA FoldShows ==
  ASSUME seq \in Nat, NEW F, Plainly(F), Ordered(F), \A f \in F : FactTyped(f) /\ f.seq \in 1 .. seq,
         \A f, g \in F : f.seq = g.seq => f = g
  PROVE  Shows(Fold(Empty, F, 0), F)
<1>1. PICK R : /\ R[0] = Empty /\ R[seq] = Fold(Empty, F, 0)
               /\ \A n \in 1 .. seq : R[n] = FoldStep(R[n - 1], F, n, 0)
  BY FoldSteps
<1>. DEFINE Upto(n) == {f \in F : f.seq <= n}
            Good(n) == Foldable(R[n]) /\ Shows(R[n], Upto(n))
            Off == {n \in 0 .. seq : ~ Good(n)}
<1>2. Good(0)
  <2>1. Upto(0) = {}
    OBVIOUS
  <2>. HIDE DEF Upto
  <2>. QED  BY <1>1, <2>1, EmptyShows, EmptySound DEF Foldable, Sound
<1>3. \A n \in 1 .. seq : Good(n - 1) => Good(n)
  <2>. SUFFICES ASSUME NEW n \in 1 .. seq, Good(n - 1) PROVE Good(n)
    OBVIOUS
  <2>0. n \in Nat /\ n - 1 \in Nat /\ \A f \in F : f.seq \in Nat
    OBVIOUS
  <2>1. R[n] = FoldStep(R[n - 1], F, n, 0)
    BY <1>1
  <2>2. Ordered(Upto(n - 1))
    <3>1. \A f \in Upto(n - 1) : f \in F /\ f.seq <= n - 1
      OBVIOUS
    <3>2. \A f \in F : f.seq <= n - 1 => f \in Upto(n - 1)
      OBVIOUS
    <3>. HIDE DEF Upto
    <3>3. ASSUME NEW f \in EdgesOf(Upto(n - 1)), NEW j \in {f.ends[1], f.ends[2]}
          PROVE  \E a \in Asserts(Upto(n - 1)) : a.subject = j /\ a.seq < f.seq
      <4>1. f \in EdgesOf(F) /\ f \in F /\ f.seq <= n - 1
        BY <3>1 DEF EdgesOf
      <4>2. PICK a \in Asserts(F) : a.subject = j /\ a.seq < f.seq
        BY <4>1 DEF Ordered
      <4>3. a \in F /\ a.kind = "assert" /\ a.seq \in Nat /\ f.seq \in Nat
        BY <2>0, <4>1 DEF Asserts
      <4>4. a.seq <= n - 1
        BY <2>0, <4>1, <4>2, <4>3
      <4>. QED  BY <3>2, <4>2, <4>3, <4>4 DEF Asserts
    <3>4. \A f, g \in EdgesOf(Upto(n - 1)) : g.subject = f.subject => g = f
      BY <3>1 DEF Ordered, EdgesOf
    <3>. QED  BY <3>3, <3>4 DEF Ordered
  <2>3. Refers(R[n - 1])
    <3>. HIDE DEF Upto
    <3>. QED  BY <2>2, ShownRefers
  <2>4. CASE {f \in F : f.seq = n} = {}
    <3>1. R[n] = R[n - 1]
      BY <2>1, <2>4 DEF FoldStep
    <3>2. Upto(n) = Upto(n - 1)
      <4>1. \A f \in F : f.seq <= n <=> f.seq <= n - 1
        BY <2>0, <2>4
      <4>. QED  BY <4>1
    <3>. HIDE DEF Upto
    <3>. QED  BY <3>1, <3>2
  <2>5. CASE {f \in F : f.seq = n} # {}
    <3>1. PICK f \in F : f = FactAt(F, n) /\ f.seq = n
      BY <2>5 DEF FactAt
    <3>2. R[n] = FoldFact(R[n - 1], f, 0)
      BY <2>1, <2>3, <2>5, <3>1 DEF FoldStep
    <3>3. Upto(n) = Upto(n - 1) \cup {f}
      <4>1. \A g \in F : g.seq <= n <=> g.seq <= n - 1 \/ g = f
        BY <2>0, <3>1
      <4>. QED  BY <3>1, <4>1
    <3>4. FactTyped(f) /\ f.kind \in {"assert", "edge"}
      BY DEF Plainly
    <3>5. \A g \in Upto(n - 1) : g \in F /\ g.seq \in Nat /\ g.seq < f.seq
      BY <2>0, <3>1
    <3>6. f.kind = "edge" => \A g \in EdgesOf(Upto(n - 1)) : g.subject # f.subject
      <4>. SUFFICES ASSUME f.kind = "edge", NEW g \in EdgesOf(Upto(n - 1)), g.subject = f.subject PROVE FALSE
        OBVIOUS
      <4>1. g \in F /\ g.kind = "edge" /\ g.seq < f.seq /\ g.seq \in Nat
        <5>. HIDE DEF Upto
        <5>. QED  BY <3>5 DEF EdgesOf
      <4>2. g = f
        BY <4>1 DEF Ordered, EdgesOf
      <4>. QED  BY <4>1, <4>2
    <3>7. f.seq \in Nat
      BY <2>0
    <3>. HIDE DEF Upto
    <3>8. Foldable(R[n])
      BY <3>2, <3>4, FoldFactKeeps
    <3>9. Shows(R[n], Upto(n))
      BY <3>2, <3>3, <3>4, <3>5, <3>6, <3>7, FoldFactShows
    <3>. QED  BY <3>8, <3>9
  <2>. QED  BY <2>4, <2>5
<1>4. Off = {}
  <2>. SUFFICES ASSUME Off # {} PROVE FALSE
    OBVIOUS
  <2>1. Off \in SUBSET Nat
    OBVIOUS
  <2>. HIDE DEF Good
  <2>2. PICK m \in Off : \A j \in Off : m <= j
    <3>. HIDE DEF Off
    <3>. QED  BY <2>1, LeastOf
  <2>3. m \in 1 .. seq /\ m - 1 \in 0 .. seq
    BY <1>2, <2>2
  <2>4. m - 1 \notin Off
    BY <2>2, <2>3
  <2>. QED  BY <1>3, <2>2, <2>3, <2>4
<1>. HIDE DEF Good
<1>5. Good(seq)
  BY <1>4
<1>6. Upto(seq) = F
  OBVIOUS
<1>. HIDE DEF Upto
<1>. QED  BY <1>1, <1>5, <1>6 DEF Good

\* So the fold gives the tables.
LEMMA ShownAgrees ==
  ASSUME PgInv, LiveInv, GrowInv
  PROVE  FoldAgrees
<1>. SUFFICES ASSUME Grown PROVE Plain(Fold(Empty, log, 0), Unset(log)) = Plain(db, Unset(log))
  BY DEF FoldAgrees, Grown, Plainly
<1>1. /\ \A f \in log : FactTyped(f) /\ f.seq \in 1 .. seq
      /\ \A f, g \in log : f.seq = g.seq => f = g
      /\ seq \in Nat /\ \A f \in log : f.seq \in Nat
  BY DEF PgInv, CallInv, LiveInv, SeqOnce, Facts
<1>2. Plainly(log) /\ Ordered(log) /\ Shows(db, log)
  BY DEF GrowInv, Grown
<1>3. Shows(Fold(Empty, log, 0), log)
  BY <1>1, <1>2, FoldShows
<1>4. Foldable(Fold(Empty, log, 0))
  BY <1>1, EmptySound, FoldFoldable DEF Foldable, Sound
<1>5. Foldable(db)
  BY DEF PgInv, RowInv, Foldable, Sound
<1>. QED  BY <1>1, <1>2, <1>3, <1>4, <1>5, SameShown

----------------------------------------------------------------------------
(* The steps of the calls that only assert. *)

\* The call c becomes h.
Becomes(c, h) == calls' = [calls EXCEPT ![c] = h] /\ db' = db /\ log' = log

\* What is shown of a call depends on the tables and the log alone.
LEMMA ShownSame ==
  ASSUME db' = db, log' = log
  PROVE  \A k : Shown(k)' <=> Shown(k)
<1>1. \A k : See(k)' = See(k)
  BY DEF See
<1>2. \A k, q : WideRow(k, q)' <=> WideRow(k, q)
  BY DEF WideRow, Live, Ids
<1>3. \A k, x : KeyDone(k, x)' <=> KeyDone(k, x)
  BY DEF KeyDone, Asserts
<1>4. \A k : Widened(k)' <=> Widened(k)
  BY <1>1, <1>2, <1>3 DEF Widened
<1>5. \A k : EndsDone(k)' <=> EndsDone(k)
  BY DEF EndsDone, Asserts
<1>6. \A k : Joined(k)' <=> Joined(k)
  BY <1>5 DEF Joined, Subjects
<1>7. \A k : Unwritten(k)' <=> Unwritten(k)
  BY DEF Unwritten
<1>. QED  BY <1>4, <1>6, <1>7 DEF Shown

\* A step of one call, which leaves the tables and the log alone.
LEMMA GrowFrame ==
  ASSUME PgInv, GrowInv, NEW c \in Calls, NEW h, Becomes(c, h), rebuilt => rebuilt',
         OwnOK(h), h.op.kind = "rebuild" => rebuilt',
         Grown /\ Simple(h) => Shown(h),
         Grown /\ Linked(h) => \A o \in Calls \ {c} : Linked(calls[o]) => calls[o].id # h.id
  PROVE  GrowInv'
<1>1. calls'[c] = h /\ \A o \in Calls \ {c} : calls'[o] = calls[o]
  BY DEF Becomes, PgInv, Inv, CallsPlaced
<1>2. db' = db /\ log' = log
  BY DEF Becomes
<1>3. \A o \in Calls : OwnOK(calls[o])' /\ (calls'[o].op.kind = "rebuild" => rebuilt')
  <2>1. \A o \in Calls : OwnOK(calls'[o])
    BY <1>1 DEF GrowInv
  <2>. QED  BY <1>1, <2>1 DEF GrowInv
<1>4. Grown' => Grown
  BY <1>2 DEF Grown, Plainly
<1>5. Shows(db, log)' <=> Shows(db, log)
  BY <1>2
<1>6. Ordered(log)' <=> Ordered(log)
  BY <1>2
<1>7. ASSUME Grown PROVE \A o \in Calls : Simple(calls[o])' => Shown(calls[o])'
  <2>. SUFFICES ASSUME NEW o \in Calls, Simple(calls[o])' PROVE Shown(calls[o])'
    OBVIOUS
  <2>1. PICK k : k = calls'[o] /\ Simple(k) /\ Shown(k)
    BY <1>1, <1>7 DEF GrowInv
  <2>2. Shown(k)'
    BY <1>2, <2>1, ShownSame
  <2>. QED  BY <2>1, <2>2
<1>8. ASSUME Grown
      PROVE \A o, p \in Calls : o # p /\ Linked(calls[o])' /\ Linked(calls[p])' => calls'[o].id # calls'[p].id
  <2>1. \A o \in Calls : Linked(calls[o])' <=> Linked(calls'[o])
    OBVIOUS
  <2>. QED  BY <1>1, <1>8, <2>1 DEF GrowInv
<1>. QED  BY <1>3, <1>4, <1>5, <1>6, <1>7, <1>8 DEF GrowInv

\* A call that ends without a trace.
LEMMA GrowEnd ==
  ASSUME PgInv, GrowInv, NEW c \in Calls, NEW h, Becomes(c, h), rebuilt' = rebuilt,
         h.pc \in Ended, h.op.kind = "rebuild" => rebuilt
  PROVE  GrowInv'
<1>1. OwnOK(h) /\ ~ Simple(h) /\ ~ Linked(h)
  BY DEF OwnOK, Simple, Linked, Ended
<1>. QED  BY <1>1, GrowFrame

\* A call that does not only assert.
LEMMA GrowOther ==
  ASSUME PgInv, GrowInv, NEW c \in Calls, NEW h, Becomes(c, h), rebuilt' = rebuilt,
         h.op = calls[c].op, h.pc \notin {"prior", "hits", "answer"}, ~ Simple(h), h.op.kind # "edge",
         h.op.kind = "assert" => h.pc \in {"move", "repoint", "drop", "mergefact"} \/ h.drops = {},
         h.pc = "commit" => h.op.kind \in {"assert", "rebuild"} \/ ~ Plainly(h.facts)
  PROVE  GrowInv'
<1>1. OwnOK(h) /\ ~ Linked(h)
  BY DEF OwnOK, Linked
<1>. QED  BY <1>1, GrowFrame DEF GrowInv

\* What a statement writes.
Written(h, k, S, T, l) ==
  /\ h.pc = k.pc /\ h.op = k.op /\ h.id = k.id /\ h.seen = k.seen /\ h.todo = k.todo
  /\ h.drops = k.drops /\ h.facts = k.facts
  /\ h.del.entities = k.del.entities \cup (S.entities \ T.entities)
  /\ h.del.ext = k.del.ext \cup (S.ext \ T.ext)
  /\ h.del.edges = k.del.edges \cup (S.edges \ T.edges)
  /\ h.add.entities = (k.add.entities \cap T.entities) \cup (T.entities \ S.entities)
  /\ h.add.ext = (k.add.ext \cap T.ext) \cup (T.ext \ S.ext)
  /\ h.add.edges = (k.add.edges \cap T.edges) \cup (T.edges \ S.edges)
  /\ h.locks.write = k.locks.write \cup l.write
  /\ See(h).entities = T.entities
  /\ h.del = [t \in Names |-> h.del[t]] /\ h.add = [t \in Names |-> h.add[t]]

\* What a statement makes of its call.
LEMMA Writes ==
  ASSUME PgInv, NEW c \in Calls, NEW k, Follows(k, calls[c]), NEW T, NEW l, Write(c, T, l, k)
  PROVE  \E h : Becomes(c, h) /\ rebuilt' = rebuilt /\ Written(h, k, View(c), T, l)
<1>. DEFINE old == View(c)
            h == [k EXCEPT
              !.del = [t \in Names |-> @[t] \cup (old[t] \ T[t])],
              !.add = [t \in Names |-> (@[t] \cap T[t]) \cup (T[t] \ old[t])],
              !.locks = Both(@, l)]
<1>0. IsCall(k) /\ View(c) = See(calls[c]) /\ LockSet(k.locks)
  BY CallOf DEF Follows, PgInv, RowInv
<1>1. Becomes(c, h) /\ rebuilt' = rebuilt
  BY DEF Write, Continue, Becomes
<1>2. /\ h.del = [t \in Names |-> k.del[t] \cup (old[t] \ T[t])]
      /\ h.add = [t \in Names |-> (k.add[t] \cap T[t]) \cup (T[t] \ old[t])]
      /\ h.locks = Both(k.locks, l)
      /\ h.pc = k.pc /\ h.id = k.id /\ h.drops = k.drops /\ h.seen = k.seen /\ h.todo = k.todo
      /\ h.op = k.op /\ h.facts = k.facts
  BY <1>0 DEF IsCall, Fields
<1>. HIDE DEF h
<1>3. old.entities = (db.entities \ k.del.entities) \cup k.add.entities
  BY <1>0, SeeRows DEF Follows
<1>. HIDE DEF old
<1>4. /\ h.del.entities = k.del.entities \cup (old.entities \ T.entities)
      /\ h.del.ext = k.del.ext \cup (old.ext \ T.ext)
      /\ h.del.edges = k.del.edges \cup (old.edges \ T.edges)
      /\ h.add.entities = (k.add.entities \cap T.entities) \cup (T.entities \ old.entities)
      /\ h.add.ext = (k.add.ext \cap T.ext) \cup (T.ext \ old.ext)
      /\ h.add.edges = (k.add.edges \cap T.edges) \cup (T.edges \ old.edges)
      /\ h.del = [t \in Names |-> h.del[t]] /\ h.add = [t \in Names |-> h.add[t]]
  BY <1>2 DEF Names
<1>5. h.locks.write = k.locks.write \cup l.write
  BY <1>0, <1>2, BothLocks
<1>6. See(h).entities = T.entities
  BY <1>3, <1>4, SeeRows
<1>7. Written(h, k, old, T, l)
  BY <1>2, <1>4, <1>5, <1>6 DEF Written
<1>. QED  BY <1>1, <1>7 DEF old

\* A call is rolled back.
LEMMA RollbackGrow ==
  ASSUME PgInv, GrowInv, NEW c \in Calls, NEW how \in Ended, Rollback(c, how)
  PROVE  GrowInv'
<1>. DEFINE k == [Idle EXCEPT !.pc = how]
<1>1. Becomes(c, k) /\ rebuilt' = rebuilt
  BY DEF Rollback, Continue, Becomes
<1>2. k.pc = how /\ k.op.kind = "none"
  BY DEF Idle
<1>. HIDE DEF k
<1>. QED  BY <1>1, <1>2, GrowEnd

\* A call begins.
LEMMA BeginGrow ==
  ASSUME PgInv, GrowInv, NEW c \in Calls, NEW op \in Inputs, Begin(c, op)
  PROVE  GrowInv'
<1>. DEFINE k == [Idle EXCEPT !.pc = First[op.kind], !.op = op, !.tx = begun + 1,
                  !.seen = IF op.kind = "retract" THEN InsertedBy(db, op.id) ELSE 0]
<1>1. Becomes(c, k) /\ rebuilt' = (rebuilt \/ op.kind = "rebuild")
  BY DEF Begin, Becomes
<1>2. op.kind \in Kinds \ {"none"}
  BY PgStoreAssumption DEF Input, Kinds
<1>3. /\ k.pc = First[op.kind] /\ k.op = op /\ k.facts = {} /\ k.drops = {}
      /\ k.seen = (IF op.kind = "retract" THEN InsertedBy(db, op.id) ELSE 0)
  BY DEF Idle
<1>. HIDE DEF k
<1>4. First[op.kind] = CASE op.kind = "assert" -> "prior" [] op.kind = "edge" -> "prior"
                         [] op.kind = "merge" -> "check" [] op.kind = "retract" -> "delete"
                         [] op.kind = "unlink" -> "unlink" [] op.kind = "rebuild" -> "clear"
  BY <1>2 DEF First, Kinds
<1>5. k.pc \in {"prior", "check", "delete", "unlink", "clear"} /\ (k.pc = "prior" => op.kind # "retract")
  BY <1>2, <1>3, <1>4 DEF Kinds
<1>6. OwnOK(k)
  BY <1>3, <1>5 DEF OwnOK, Recording
<1>7. ~ Linked(k) /\ Shown(k)
  BY <1>5 DEF Linked, Shown
<1>. QED  BY <1>1, <1>3, <1>6, <1>7, GrowFrame

\* A call that only asserts goes on and writes no fact.
LEMMA SimpleStep ==
  ASSUME PgInv, GrowInv, NEW c \in Calls, NEW h, Becomes(c, h), rebuilt' = rebuilt,
         h.op = calls[c].op, h.facts = calls[c].facts, h.drops = calls[c].drops, h.op.kind \in {"assert", "edge"},
         calls[c].pc \notin Ended \cup {"move", "repoint", "drop", "mergefact", "answer", "commit"},
         h.pc \notin Ended \cup {"move", "repoint", "drop", "mergefact", "answer", "commit", "prior"},
         h.pc = "hits" => h.seen = 0,
         Grown /\ Simple(calls[c]) /\ Shown(calls[c]) /\ calls[c].facts = {} => Shown(h),
         Grown /\ Linked(h) => \A o \in Calls \ {c} : Linked(calls[o]) => calls[o].id # h.id
  PROVE  GrowInv'
<1>1. OwnOK(calls[c])
  BY DEF GrowInv
<1>2. h.drops = {}
  BY <1>1 DEF OwnOK
<1>3. Simple(h) => Simple(calls[c]) /\ calls[c].facts = {}
  BY <1>1 DEF Simple, OwnOK, Recording
<1>4. OwnOK(h)
  BY <1>2, <1>3 DEF OwnOK, Recording
<1>5. Grown /\ Simple(h) => Shown(h)
  BY <1>3 DEF GrowInv
<1>. QED  BY <1>4, <1>5, GrowFrame

\* The lookup of a prior assertion.
LEMMA PriorGrow ==
  ASSUME PgInv, GrowInv, NEW c \in Calls, Prior(c)
  PROVE  GrowInv'
<1>0. /\ calls[c].pc = "prior" /\ Untouched(calls[c]) /\ IsCall(calls[c]) /\ calls[c].op.kind \in {"assert", "edge"}
      /\ calls[c].seen = 0
  BY CallOf DEF Prior, Early, Placed, GrowInv, OwnOK
<1>1. CASE PriorAssertions(c) # {}
  <2>. DEFINE i == (CHOOSE f \in PriorAssertions(c) : TRUE).subject
  <2>1. PICK p \in {"duplicate", "notfound"} :
           Continue(c, [Idle EXCEPT !.op = calls[c].op, !.id = i, !.pc = p])
    BY <1>1 DEF Prior, LookUp
  <2>. HIDE DEF i
  <2>. DEFINE k == [Idle EXCEPT !.op = calls[c].op, !.id = i, !.pc = p]
  <2>2. k.pc = p /\ k.op = calls[c].op /\ Becomes(c, k) /\ rebuilt' = rebuilt
    BY <2>1 DEF Idle, Becomes, Continue
  <2>. HIDE DEF k
  <2>. QED  BY <1>0, <2>2, GrowEnd DEF Ended
<1>2. CASE PriorAssertions(c) = {}
  <2>. DEFINE k == [calls[c] EXCEPT !.pc = IF calls[c].op.kind = "edge" THEN "link" ELSE "hits"]
  <2>1. Becomes(c, k) /\ rebuilt' = rebuilt
    BY <1>2 DEF Prior, LookUp, Becomes, Continue
  <2>2. /\ k.op = calls[c].op /\ k.facts = {} /\ k.drops = calls[c].drops /\ k.del = Empty /\ k.add = Empty
        /\ k.seen = 0 /\ k.pc = (IF calls[c].op.kind = "edge" THEN "link" ELSE "hits")
    BY <1>0 DEF IsCall, Fields, Untouched
  <2>. HIDE DEF k
  <2>3. ~ Linked(k) /\ Shown(k)
    BY <1>0, <2>2 DEF Linked, Shown, Unwritten
  <2>. QED  BY <1>0, <2>1, <2>2, <2>3, SimpleStep DEF Ended, Untouched
<1>. QED  BY <1>1, <1>2

\* The lookup of the keys.
LEMMA HitsGrow ==
  ASSUME PgInv, GrowInv, NEW c \in Calls, Hits(c)
  PROVE  GrowInv'
<1>0. /\ calls[c].pc = "hits" /\ calls[c].facts = {} /\ calls[c].op.kind = "assert" /\ IsCall(calls[c])
      /\ calls[c].seen = 0 /\ calls[c].drops = {}
  BY CallOf DEF Hits, Spent, Placed, GrowInv, OwnOK, Ended
<1>. DEFINE hits   == ExternalHits(c)
            used   == {f.subject : f \in log} \cup {calls[o].id : o \in Calls}
            oldest == CHOOSE i \in hits : \A j \in hits : i <= j
<1>2. IF hits = {} THEN \E i \in EntityIds \ used :
                          Continue(c, [calls[c] EXCEPT !.pc = "upsert", !.id = i])
      ELSE Continue(c, [calls[c] EXCEPT !.pc = IF hits = {oldest} THEN "exists" ELSE "move",
                                        !.id = oldest, !.drops = hits \ {oldest}])
  BY Zenon DEF Hits
<1>. HIDE DEF hits, used, oldest
<1>3. \E p \in {"upsert", "exists", "move"} : \E i, d :
        /\ Continue(c, [calls[c] EXCEPT !.pc = p, !.id = i, !.drops = d])
        /\ IF p = "move" THEN d # {} ELSE d = {}
  <2>1. CASE hits = {}
    <3>1. PICK i \in EntityIds : Continue(c, [calls[c] EXCEPT !.pc = "upsert", !.id = i])
      BY <1>2, <2>1
    <3>2. [calls[c] EXCEPT !.pc = "upsert", !.id = i] = [calls[c] EXCEPT !.pc = "upsert", !.id = i, !.drops = {}]
      BY <1>0 DEF IsCall, Fields
    <3>. QED  BY <3>1, <3>2
  <2>2. CASE hits # {} /\ hits = {oldest}
    <3>1. hits \ {oldest} = {}
      BY <2>2
    <3>. QED  BY <1>2, <2>2, <3>1
  <2>3. CASE hits # {} /\ hits # {oldest}
    <3>1. hits \ {oldest} # {}
      BY <2>3
    <3>. QED  BY <1>2, <2>3, <3>1
  <2>. QED  BY <2>1, <2>2, <2>3
<1>4. PICK p \in {"upsert", "exists", "move"} : \E i, d :
        /\ Continue(c, [calls[c] EXCEPT !.pc = p, !.id = i, !.drops = d])
        /\ IF p = "move" THEN d # {} ELSE d = {}
  BY <1>3
<1>5. PICK i, d : /\ Continue(c, [calls[c] EXCEPT !.pc = p, !.id = i, !.drops = d])
                  /\ IF p = "move" THEN d # {} ELSE d = {}
  BY <1>4
<1>. DEFINE k == [calls[c] EXCEPT !.pc = p, !.id = i, !.drops = d]
<1>6. Becomes(c, k) /\ rebuilt' = rebuilt
  BY <1>5 DEF Becomes, Continue
<1>7. /\ k.pc = p /\ k.drops = d /\ k.op = calls[c].op /\ k.facts = {} /\ k.seen = 0
      /\ k.del = calls[c].del /\ k.add = calls[c].add
  BY <1>0 DEF IsCall, Fields
<1>. HIDE DEF k
<1>8. CASE p = "move"
  <2>1. ~ Simple(k)
    BY <1>5, <1>7, <1>8 DEF Simple
  <2>. QED  BY <1>0, <1>6, <1>7, <1>8, <2>1, GrowOther
<1>9. CASE p # "move"
  <2>1. d = {} /\ ~ Linked(k)
    BY <1>0, <1>5, <1>7, <1>9 DEF Linked
  <2>2. Shown(calls[c]) => Shown(k)
    BY <1>0, <1>7, <1>9, <2>1 DEF Shown, Unwritten
  <2>. QED  BY <1>0, <1>6, <1>7, <1>9, <2>1, <2>2, SimpleStep DEF Ended
<1>. QED  BY <1>8, <1>9

\* The row of the node is looked at.
LEMMA ExistsGrow ==
  ASSUME PgInv, GrowInv, NEW c \in Calls, Exists(c)
  PROVE  GrowInv'
<1>. DEFINE k == [calls[c] EXCEPT !.pc = "upsert", !.seen = InsertedBy(View(c), calls[c].id)]
<1>1. /\ k.pc = "upsert" /\ k.op = calls[c].op /\ k.facts = calls[c].facts /\ k.drops = calls[c].drops
      /\ k.del = calls[c].del /\ k.add = calls[c].add /\ k.id = calls[c].id
      /\ k.seen = InsertedBy(View(c), calls[c].id)
  BY CallOf DEF IsCall, Fields
<1>2. Becomes(c, k) /\ rebuilt' = rebuilt /\ calls[c].pc = "exists" /\ calls[c].op.kind = "assert"
  BY CallOf DEF Exists, Continue, Becomes, CallTyped
<1>. HIDE DEF k
<1>3. ASSUME Shown(calls[c]) PROVE Shown(k)
  <2>1. Unwritten(calls[c])
    BY <1>2, <1>3 DEF Shown
  <2>2. View(c) = db
    BY <2>1, CallOf, SeeNothing DEF Unwritten, PgInv, RowInv, Sound
  <2>3. k.seen # 0 => \E r \in db.entities : r.id = k.id /\ r.by = k.seen
    BY <1>1, <2>2 DEF InsertedBy, Live, Ids
  <2>4. Unwritten(k) /\ ~ Linked(k)
    BY <1>1, <1>2, <2>1, <2>3 DEF Unwritten, Linked
  <2>. QED  BY <1>1, <2>4 DEF Shown
<1>4. ~ Linked(k)
  BY <1>1, <1>2 DEF Linked
<1>. QED  BY <1>1, <1>2, <1>3, <1>4, SimpleStep DEF Ended

\* The row of the node is inserted, or widened.
LEMMA UpsertGrow ==
  ASSUME PgInv, GrowInv, NEW c \in Calls, Upsert(c)
  PROVE  GrowInv'
<1>. DEFINE k    == [calls[c] EXCEPT !.todo = calls[c].op.keys,
                                     !.pc = IF calls[c].op.keys = {} THEN "sync" ELSE "keys"]
            S    == View(c)
            lock == [NoLocks EXCEPT !.write = {k.id}]
            row  == {r \in S.entities : r.id = k.id /\ r.by = k.seen}
            new  == [id |-> k.id, props |-> Stored(k.op.props), by |-> k.tx]
            wide == {[r EXCEPT !.props = Concat(Stored(k.op.props), @)] : r \in row}
            T1   == [S EXCEPT !.entities = @ \cup {new}]
            T2   == [S EXCEPT !.entities = (@ \ row) \cup wide]
<1>1. /\ Follows(k, calls[c]) /\ k.id = calls[c].id /\ k.seen = calls[c].seen
      /\ k.drops = calls[c].drops /\ k.todo = calls[c].op.keys
      /\ k.pc = (IF calls[c].op.keys = {} THEN "sync" ELSE "keys")
  BY CallIs DEF Follows, IsCall, Fields
<1>2. calls[c].pc = "upsert" /\ calls[c].op.kind = "assert"
  BY CallOf DEF Upsert, CallTyped
<1>3. \/ k.seen = 0 /\ k.id \notin Live(S) /\ Write(c, T1, lock, k)
      \/ k.seen # 0 /\ row = {} /\ Continue(c, k)
      \/ k.seen # 0 /\ row # {} /\ Write(c, T2, lock, k)
      \/ Rollback(c, "failed")
  BY Zenon DEF Upsert
<1>4. /\ S \in Tables /\ \A r, q \in S.entities : r.id = q.id => r = q
      /\ S.entities \in SUBSET EntityRow
  BY CallOf, TablesForm DEF Sound, Unique, Tables, RowProps, EntityRow
<1>5. /\ T1.entities = S.entities \cup {new} /\ T1.ext = S.ext /\ T1.edges = S.edges
      /\ T2.entities = (S.entities \ row) \cup wide /\ T2.ext = S.ext /\ T2.edges = S.edges
  BY <1>4 DEF Tables
<1>6. lock.write = {k.id}
  BY DEF NoLocks
<1>7. Empty.entities = {} /\ Empty.ext = {} /\ Empty.edges = {}
  BY DEF Empty, Names
<1>8. new.id = k.id /\ new.props = Stored(k.op.props)
  OBVIOUS
<1>9. \A r \in row : r \in S.entities /\ r.id = k.id
  OBVIOUS
<1>10. ASSUME NEW r \in row
       PROVE  [r EXCEPT !.props = Concat(Stored(k.op.props), @)] \in wide
                /\ [r EXCEPT !.props = Concat(Stored(k.op.props), @)].id = k.id
                /\ [r EXCEPT !.props = Concat(Stored(k.op.props), @)].by = r.by
                /\ [r EXCEPT !.props = Concat(Stored(k.op.props), @)].props = Concat(Stored(k.op.props), r.props)
  <2>1. r \in EntityRow /\ r.id = k.id
    BY <1>4
  <2>. QED  BY <2>1 DEF EntityRow
<1>11. \A q \in wide : q.id = k.id
  BY <1>10
<1>12. \A r \in S.entities : r.id = k.id /\ row # {} => r \in row
  BY <1>4, <1>9
<1>. HIDE DEF k, lock, T1, T2, row, new, wide
<1>13. ASSUME NEW h, h.op = k.op, h.pc = k.pc
       PROVE  ~ Linked(h) /\ h.pc \in {"sync", "keys"} /\ h.op.kind = "assert"
  BY <1>1, <1>2, <1>13 DEF Linked, Follows
<1>14. ASSUME Shown(calls[c])
       PROVE  /\ S = db /\ k.del = Empty /\ k.add = Empty
              /\ k.seen # 0 => row # {}
  <2>1. Unwritten(calls[c])
    BY <1>2, <1>14 DEF Shown
  <2>2. S = db
    BY <2>1, CallOf, SeeNothing DEF Unwritten, PgInv, RowInv, Sound
  <2>3. k.seen # 0 => \E r \in S.entities : r.id = k.id /\ r.by = k.seen
    BY <1>1, <1>2, <2>1, <2>2 DEF Unwritten
  <2>. QED  BY <1>1, <2>1, <2>2, <2>3 DEF Unwritten, Follows, row
<1>15. CASE Rollback(c, "failed")
  BY <1>15, RollbackGrow DEF Ended
<1>16. CASE k.seen # 0 /\ row = {} /\ Continue(c, k)
  <2>1. Becomes(c, k) /\ rebuilt' = rebuilt
    BY <1>16 DEF Continue, Becomes
  <2>2. ~ Shown(calls[c])
    BY <1>14, <1>16
  <2>. QED  BY <1>1, <1>2, <1>13, <2>1, <2>2, SimpleStep DEF Ended, Follows
<1>17. CASE k.seen = 0 /\ k.id \notin Live(S) /\ Write(c, T1, lock, k)
  <2>1. PICK h : Becomes(c, h) /\ rebuilt' = rebuilt /\ Written(h, k, S, T1, lock)
    BY <1>1, <1>17, Writes
  <2>2. ASSUME Shown(calls[c]) PROVE Shown(h)
    <3>1. h.op = k.op /\ h.pc = k.pc /\ h.id = k.id /\ h.todo = k.todo
      BY <2>1 DEF Written
    <3>2. /\ h.del.entities = {} /\ h.del.ext = {} /\ h.del.edges = {}
          /\ h.add.entities \subseteq {new} /\ h.add.ext = {} /\ h.add.edges = {}
          /\ k.id \in h.locks.write
          /\ new \in See(h).entities
      BY <1>5, <1>6, <1>7, <1>14, <2>1, <2>2 DEF Written
    <3>3. WideRow(h, new)
      BY <1>8, <1>14, <1>17, <2>2, <3>1 DEF WideRow, Live, Ids
    <3>4. Widened(h)
      BY <1>1, <1>8, <3>1, <3>2, <3>3 DEF Widened, Follows
    <3>. QED  BY <1>13, <3>1, <3>4 DEF Shown
  <2>3. h.op = calls[c].op /\ h.facts = calls[c].facts /\ h.drops = calls[c].drops /\ h.pc = k.pc
    BY <1>1, <2>1 DEF Written, Follows
  <2>4. h.op = k.op
    BY <2>1 DEF Written
  <2>. QED  BY <1>1, <1>2, <1>13, <2>1, <2>2, <2>3, <2>4, SimpleStep DEF Ended
<1>18. CASE k.seen # 0 /\ row # {} /\ Write(c, T2, lock, k)
  <2>1. PICK h : Becomes(c, h) /\ rebuilt' = rebuilt /\ Written(h, k, S, T2, lock)
    BY <1>1, <1>18, Writes
  <2>2. ASSUME Shown(calls[c]) PROVE Shown(h)
    <3>1. h.op = k.op /\ h.pc = k.pc /\ h.id = k.id /\ h.todo = k.todo
      BY <2>1 DEF Written
    <3>2. /\ h.del.entities \subseteq row /\ h.del.ext = {} /\ h.del.edges = {}
          /\ h.add.entities \subseteq wide /\ h.add.ext = {} /\ h.add.edges = {}
          /\ k.id \in h.locks.write
          /\ See(h).entities = (S.entities \ row) \cup wide
      BY <1>5, <1>6, <1>7, <1>14, <2>1, <2>2 DEF Written
    <3>3. PICK r \in row : r \in S.entities /\ r.id = k.id
      BY <1>9, <1>18
    <3>. DEFINE q == [r EXCEPT !.props = Concat(Stored(k.op.props), @)]
    <3>4. q \in See(h).entities /\ q.id = k.id /\ q.by = r.by /\ q.props = Concat(Stored(k.op.props), r.props)
      BY <1>10, <3>2
    <3>. HIDE DEF q
    <3>5. WideRow(h, q)
      <4>1. \A p \in db.entities : p.id = k.id => p = r
        BY <1>4, <1>14, <2>2, <3>3
      <4>2. k.id \in Live(db)
        BY <1>14, <2>2, <3>3 DEF Live, Ids
      <4>. QED  BY <3>1, <3>4, <4>1, <4>2 DEF WideRow
    <3>6. \A p \in h.del.entities \cup h.add.entities : p.id = h.id
      BY <1>9, <1>11, <3>1, <3>2
    <3>7. Widened(h)
      BY <1>1, <3>1, <3>2, <3>4, <3>5, <3>6 DEF Widened, Follows
    <3>. QED  BY <1>13, <3>1, <3>7 DEF Shown
  <2>3. h.op = calls[c].op /\ h.facts = calls[c].facts /\ h.drops = calls[c].drops /\ h.pc = k.pc
    BY <1>1, <2>1 DEF Written, Follows
  <2>4. h.op = k.op
    BY <2>1 DEF Written
  <2>. QED  BY <1>1, <1>2, <1>13, <2>1, <2>2, <2>3, <2>4, SimpleStep DEF Ended
<1>. QED  BY <1>3, <1>15, <1>16, <1>17, <1>18

\* A key is inserted, or is that of an earlier assertion.
LEMMA InsertKeyGrow ==
  ASSUME PgInv, GrowInv, NEW c \in Calls, NEW x \in Keys, InsertKey(c, x)
  PROVE  GrowInv'
<1>. DEFINE k    == [calls[c] EXCEPT !.todo = @ \ {x}, !.pc = IF calls[c].todo = {x} THEN "sync" ELSE "keys"]
            S    == View(c)
            new  == [entity |-> k.id, key |-> x]
            T    == [S EXCEPT !.ext = @ \cup {new}]
            lock == [NoLocks EXCEPT !.keys = {x}, !.refer = {k.id}]
<1>1. /\ calls[c].pc = "keys" /\ x \in calls[c].todo
      /\ \/ (\E y \in S.ext : y.key = x) /\ Continue(c, k)
         \/ ~ (\E y \in S.ext : y.key = x) /\ Write(c, T, lock, k)
         \/ Rollback(c, "failed")
  BY Zenon DEF InsertKey
<1>2. /\ Follows(k, calls[c]) /\ k.id = calls[c].id /\ k.todo = calls[c].todo \ {x} /\ k.drops = calls[c].drops
      /\ k.pc = (IF calls[c].todo = {x} THEN "sync" ELSE "keys")
  BY CallIs DEF Follows, IsCall, Fields
<1>3. calls[c].op.kind = "assert" /\ k.pc \in {"sync", "keys"} /\ (k.pc # "keys" => k.todo = {})
  BY <1>1, <1>2, CallOf DEF CallTyped
<1>4. T.entities = S.entities /\ T.ext = S.ext \cup {new} /\ T.edges = S.edges
  BY CallOf DEF Sound, Tables
<1>5. S = See(calls[c]) /\ new.entity = k.id /\ new.key = x
  BY CallOf
<1>6. S.ext = (db.ext \ calls[c].del.ext) \cup calls[c].add.ext
  BY <1>5, SeeRows
<1>. HIDE DEF k, T, new, lock, S
<1>7. CASE Rollback(c, "failed")
  BY <1>7, RollbackGrow DEF Ended
<1>8. CASE (\E y \in S.ext : y.key = x) /\ Continue(c, k)
  <2>1. Becomes(c, k) /\ rebuilt' = rebuilt
    BY <1>8 DEF Continue, Becomes
  <2>2. ASSUME Grown, Shown(calls[c]), calls[c].facts = {} PROVE Shown(k)
    <3>1. Widened(calls[c]) /\ Shows(db, log)
      BY <1>1, <1>3, <2>2 DEF Shown, GrowInv
    <3>2. KeyDone(calls[c], x)
      <4>1. PICK y \in S.ext : y.key = x
        BY <1>8
      <4>2. CASE y \in calls[c].add.ext
        BY <4>1, <4>2 DEF KeyDone
      <4>3. CASE y \in db.ext
        <5>1. PICK g \in log : First1(g, log, x)
          BY <3>1, <4>1, <4>3 DEF Shows
        <5>. QED  BY <2>2, <5>1 DEF KeyDone, First1
      <4>. QED  BY <1>6, <4>2, <4>3
    <3>3. \A z \in k.op.keys \ k.todo : KeyDone(k, z)
      <4>1. \A z : KeyDone(calls[c], z) => KeyDone(k, z)
        BY <1>2 DEF KeyDone, Follows
      <4>2. \A z \in k.op.keys \ k.todo : z = x \/ z \in calls[c].op.keys \ calls[c].todo
        BY <1>2 DEF Follows
      <4>. QED  BY <3>1, <3>2, <4>1, <4>2 DEF Widened
    <3>4. See(k) = See(calls[c])
      BY <1>2 DEF See, Follows
    <3>5. \A q : WideRow(calls[c], q) => WideRow(k, q)
      BY <1>2 DEF WideRow, Follows
    <3>6. Widened(k)
      BY <1>2, <1>3, <3>1, <3>3, <3>4, <3>5 DEF Widened, Follows
    <3>. QED  BY <1>2, <1>3, <3>6 DEF Shown, Linked, Follows
  <2>3. ~ Linked(k)
    BY <1>3 DEF Linked
  <2>. QED  BY <1>1, <1>2, <1>3, <2>1, <2>2, <2>3, SimpleStep DEF Ended, Follows
<1>9. CASE ~ (\E y \in S.ext : y.key = x) /\ Write(c, T, lock, k)
  <2>1. PICK h : Becomes(c, h) /\ rebuilt' = rebuilt /\ Written(h, k, S, T, lock)
    BY <1>2, <1>9, Writes DEF S
  <2>2. /\ h.op = calls[c].op /\ h.facts = calls[c].facts /\ h.drops = calls[c].drops /\ h.pc = k.pc
        /\ h.id = calls[c].id /\ h.todo = k.todo
    BY <1>2, <2>1 DEF Written, Follows
  <2>3. ASSUME Shown(calls[c]) PROVE Shown(h)
    <3>1. Widened(calls[c])
      BY <1>1, <1>3, <2>3 DEF Shown
    <3>2. new \notin S.ext
      BY <1>5, <1>9
    <3>3. /\ h.del.entities = calls[c].del.entities /\ h.del.ext = {} /\ h.del.edges = {}
          /\ h.add.entities \subseteq calls[c].add.entities
          /\ h.add.ext = calls[c].add.ext \cup {new}
          /\ h.add.edges = {}
          /\ calls[c].locks.write \subseteq h.locks.write
          /\ See(h).entities = See(calls[c]).entities
      <4>0. k.del = calls[c].del /\ k.add = calls[c].add /\ k.locks = calls[c].locks
        BY <1>2 DEF Follows
      <4>1. calls[c].del.ext = {} /\ calls[c].del.edges = {} /\ calls[c].add.edges = {}
        BY <3>1 DEF Widened
      <4>2. /\ h.del.entities = calls[c].del.entities /\ h.add.entities \subseteq calls[c].add.entities
            /\ h.del.edges = {} /\ h.add.edges = {}
        BY <1>4, <2>1, <4>0, <4>1 DEF Written
      <4>3. h.del.ext = {} /\ h.add.ext = calls[c].add.ext \cup {new}
        BY <1>4, <1>6, <2>1, <3>2, <4>0, <4>1 DEF Written
      <4>4. calls[c].locks.write \subseteq h.locks.write /\ See(h).entities = See(calls[c]).entities
        BY <1>4, <1>5, <2>1, <4>0 DEF Written
      <4>. QED  BY <4>2, <4>3, <4>4
    <3>4. \A z \in h.op.keys \ h.todo : KeyDone(h, z)
      <4>1. \A z : KeyDone(calls[c], z) => KeyDone(h, z)
        BY <2>2, <3>3 DEF KeyDone
      <4>2. \A z \in h.op.keys \ h.todo : z = x \/ z \in calls[c].op.keys \ calls[c].todo
        BY <1>2, <2>2
      <4>3. KeyDone(h, x)
        BY <1>5, <3>3 DEF KeyDone
      <4>. QED  BY <3>1, <4>1, <4>2, <4>3 DEF Widened
    <3>5. \A q : WideRow(calls[c], q) => WideRow(h, q)
      BY <2>2 DEF WideRow
    <3>6. x \in h.op.keys
      BY <1>1, <2>2, <3>1 DEF Widened
    <3>7. Widened(h)
      BY <1>2, <1>3, <1>5, <2>2, <3>1, <3>3, <3>4, <3>5, <3>6 DEF Widened
    <3>. QED  BY <1>3, <2>2, <3>7 DEF Shown, Linked
  <2>4. ~ Linked(h)
    BY <1>3, <2>2 DEF Linked
  <2>. QED  BY <1>1, <1>3, <2>1, <2>2, <2>3, <2>4, SimpleStep DEF Ended
<1>. QED  BY <1>1, <1>7, <1>8, <1>9

\* The row of the node is locked.
LEMMA SyncGrow ==
  ASSUME PgInv, GrowInv, NEW c \in Calls, Sync(c)
  PROVE  GrowInv'
<1>. DEFINE k    == [calls[c] EXCEPT !.pc = "fact"]
            S    == View(c)
            lock == [NoLocks EXCEPT !.write = {calls[c].id} \cap Live(S)]
<1>1. calls[c].pc = "sync" /\ Write(c, S, lock, k)
  BY Zenon DEF Sync
<1>2. /\ Follows(k, calls[c]) /\ k.pc = "fact" /\ k.id = calls[c].id /\ k.drops = calls[c].drops
      /\ k.todo = calls[c].todo
  BY CallIs DEF Follows, IsCall, Fields
<1>3. calls[c].op.kind = "assert"
  BY <1>1, CallOf DEF CallTyped
<1>4. S = See(calls[c]) /\ S.ext = (db.ext \ calls[c].del.ext) \cup calls[c].add.ext
  BY CallOf, SeeRows
<1>. HIDE DEF k, lock, S
<1>5. PICK h : Becomes(c, h) /\ rebuilt' = rebuilt /\ Written(h, k, S, S, lock)
  BY <1>1, <1>2, Writes DEF S
<1>6. /\ h.op = calls[c].op /\ h.facts = calls[c].facts /\ h.drops = calls[c].drops /\ h.pc = "fact"
      /\ h.id = calls[c].id /\ h.todo = calls[c].todo
  BY <1>2, <1>5 DEF Written, Follows
<1>7. ASSUME Shown(calls[c]) PROVE Shown(h)
  <2>1. Widened(calls[c])
    BY <1>1, <1>3, <1>7 DEF Shown
  <2>2. /\ h.del.entities = calls[c].del.entities /\ h.del.ext = {} /\ h.del.edges = {}
        /\ h.add.entities \subseteq calls[c].add.entities
        /\ h.add.ext = calls[c].add.ext /\ h.add.edges = {}
        /\ calls[c].locks.write \subseteq h.locks.write
        /\ See(h).entities = See(calls[c]).entities
    BY <1>2, <1>4, <1>5, <2>1 DEF Written, Follows, Widened
  <2>3. \A z : KeyDone(calls[c], z) => KeyDone(h, z)
    BY <1>6, <2>2 DEF KeyDone
  <2>4. \A q : WideRow(calls[c], q) => WideRow(h, q)
    BY <1>6 DEF WideRow
  <2>5. calls[c].todo = {}
    BY <1>1, <2>1 DEF Widened
  <2>6. Widened(h)
    BY <1>6, <2>1, <2>2, <2>3, <2>4, <2>5 DEF Widened
  <2>. QED  BY <1>3, <1>6, <2>6 DEF Shown, Linked
<1>8. ~ Linked(h)
  BY <1>3, <1>6 DEF Linked
<1>. QED  BY <1>1, <1>3, <1>5, <1>6, <1>7, <1>8, SimpleStep DEF Ended

\* An edge is made.
LEMMA LinkGrow ==
  ASSUME PgInv, GrowInv, NEW c \in Calls, Link(c)
  PROVE  GrowInv'
<1>. DEFINE S    == View(c)
            ends == {calls[c].op.from, calls[c].op.to}
            used == {f.subject : f \in log} \cup {calls[o].id : o \in Calls}
<1>1. PICK i \in EdgeIds \ used :
        LET k    == [calls[c] EXCEPT !.pc = "fact", !.id = i]
            edge == [id |-> i, from |-> k.op.from, to |-> k.op.to]
            lock == [NoLocks EXCEPT !.edges = {i}, !.refer = ends]
        IN \/ ends \subseteq Live(S) /\ Write(c, [S EXCEPT !.edges = @ \cup {edge}], lock, k)
           \/ Rollback(c, "failed")
  BY Zenon DEF Link
<1>. DEFINE k    == [calls[c] EXCEPT !.pc = "fact", !.id = i]
            edge == [id |-> i, from |-> k.op.from, to |-> k.op.to]
            T    == [S EXCEPT !.edges = @ \cup {edge}]
            lock == [NoLocks EXCEPT !.edges = {i}, !.refer = ends]
<1>2. /\ calls[c].pc = "link"
      /\ (ends \subseteq Live(S) /\ Write(c, T, lock, k)) \/ Rollback(c, "failed")
  BY <1>1 DEF Link
<1>3. Follows(k, calls[c]) /\ k.pc = "fact" /\ k.id = i /\ k.drops = calls[c].drops
  BY CallIs DEF Follows, IsCall, Fields
<1>4. T.entities = S.entities /\ T.ext = S.ext /\ T.edges = S.edges \cup {edge}
  BY CallOf DEF Sound, Tables
<1>5. /\ calls[c].op.kind = "edge" /\ Untouched(calls[c])
      /\ i \notin Subjects(log) /\ \A o \in Calls : i # calls[o].id
  BY <1>2, CallOf DEF CallTyped, Early, Subjects
<1>6. S = db /\ edge.id = i /\ edge = [id |-> i, from |-> calls[c].op.from, to |-> calls[c].op.to]
  <2>1. S = db
    BY <1>5, CallOf, SeeNothing DEF Untouched, PgInv, RowInv, Sound
  <2>. QED  BY <1>3, <2>1 DEF Follows
<1>7. Empty.entities = {} /\ Empty.ext = {} /\ Empty.edges = {} /\ Empty = [t \in Names |-> Empty[t]]
  BY DEF Empty, Names
<1>. HIDE DEF k, T, lock, S, edge
<1>8. CASE Rollback(c, "failed")
  BY <1>8, RollbackGrow DEF Ended
<1>9. CASE ends \subseteq Live(S) /\ Write(c, T, lock, k)
  <2>1. PICK h : Becomes(c, h) /\ rebuilt' = rebuilt /\ Written(h, k, S, T, lock)
    BY <1>3, <1>9, Writes DEF S
  <2>2. /\ h.op = calls[c].op /\ h.facts = {} /\ h.drops = calls[c].drops /\ h.pc = "fact" /\ h.id = i
    BY <1>3, <1>5, <2>1 DEF Written, Follows, Untouched
  <2>3. ASSUME Grown PROVE Shown(h)
    <3>1. edge \notin S.edges
      <4>1. i \notin Ids(db.edges) /\ edge.id = i
        BY <1>5, <1>6 DEF PgInv, CallInv
      <4>. QED  BY <1>6, <4>1 DEF Ids
    <3>2. /\ h.del.entities = {} /\ h.del.ext = {} /\ h.del.edges = {}
          /\ h.add.entities = {} /\ h.add.ext = {} /\ h.add.edges = {edge}
          /\ h.del = [t \in Names |-> h.del[t]]
      <4>1. k.del = Empty /\ k.add = Empty
        BY <1>3, <1>5 DEF Follows, Untouched
      <4>2. /\ h.del.entities = {} \cup (S.entities \ T.entities)
            /\ h.del.ext = {} \cup (S.ext \ T.ext) /\ h.del.edges = {} \cup (S.edges \ T.edges)
            /\ h.add.entities = ({} \cap T.entities) \cup (T.entities \ S.entities)
            /\ h.add.ext = ({} \cap T.ext) \cup (T.ext \ S.ext)
            /\ h.add.edges = ({} \cap T.edges) \cup (T.edges \ S.edges)
            /\ h.del = [t \in Names |-> h.del[t]]
        BY <1>7, <2>1, <4>1 DEF Written
      <4>. QED  BY <1>4, <3>1, <4>2
    <3>3. h.del = Empty
      BY <1>7, <3>2, SameTables
    <3>4. EndsDone(h)
      <4>1. Live(db) = Asserted(log)
        BY <2>3 DEF GrowInv, Shows
      <4>2. \A j \in ends : \E a \in Asserts(log) : a.subject = j
        BY <1>6, <1>9, <4>1 DEF Asserted, Asserts
      <4>. QED  BY <2>2, <4>2 DEF EndsDone
    <3>5. Joined(h)
      BY <1>1, <1>5, <1>6, <2>2, <3>2, <3>3, <3>4 DEF Joined
    <3>. QED  BY <1>5, <2>2, <3>5 DEF Shown
  <2>. QED  BY <1>2, <1>5, <2>1, <2>2, <2>3, SimpleStep DEF Ended, Untouched
<1>. QED  BY <1>2, <1>8, <1>9

\* The node is read back.
LEMMA AnswerGrow ==
  ASSUME PgInv, GrowInv, NEW c \in Calls, Answer(c)
  PROVE  GrowInv'
<1>. DEFINE k == [calls[c] EXCEPT !.pc = "commit"]
<1>1. calls[c].pc = "answer" /\ (Continue(c, k) \/ Rollback(c, "notfound"))
  BY DEF Answer
<1>2. Follows(k, calls[c]) /\ k.pc = "commit" /\ k.id = calls[c].id /\ k.drops = calls[c].drops /\ k.todo = calls[c].todo
  BY CallIs DEF Follows, IsCall, Fields
<1>. HIDE DEF k
<1>3. CASE Rollback(c, "notfound")
  BY <1>3, RollbackGrow DEF Ended
<1>4. CASE Continue(c, k)
  <2>1. Becomes(c, k) /\ rebuilt' = rebuilt
    BY <1>4 DEF Continue, Becomes
  <2>2. OwnOK(calls[c]) /\ calls[c].op.kind \in {"assert", "edge"} /\ calls[c].drops = {}
    BY <1>1 DEF GrowInv, OwnOK, Ended
  <2>3. Simple(k) => Simple(calls[c])
    BY <1>1, <1>2 DEF Simple, Follows, Ended
  <2>4. Simple(k) => Recording(k)
    BY <1>1, <1>2, <2>2, <2>3 DEF OwnOK, Recording, Wrote, Follows
  <2>5. OwnOK(k)
    BY <1>2, <2>2, <2>4 DEF OwnOK, Follows
  <2>6. Shown(calls[c]) => Shown(k)
    <3>1. See(k) = See(calls[c])
      BY <1>2 DEF See, Follows
    <3>2. \A q : WideRow(calls[c], q) => WideRow(k, q)
      BY <1>2 DEF WideRow, Follows
    <3>3. \A z : KeyDone(calls[c], z) => KeyDone(k, z)
      BY <1>2 DEF KeyDone, Follows
    <3>4. Widened(calls[c]) => Widened(k)
      BY <1>1, <1>2, <3>1, <3>2, <3>3 DEF Widened, Follows
    <3>5. Joined(calls[c]) => Joined(k)
      BY <1>2 DEF Joined, EndsDone, Follows
    <3>. QED  BY <1>1, <1>2, <3>4, <3>5 DEF Shown, Linked, Follows
  <2>7. Grown /\ Linked(k) => \A o \in Calls \ {c} : Linked(calls[o]) => calls[o].id # k.id
    BY <1>1, <1>2 DEF Linked, Follows, GrowInv
  <2>8. k.op.kind # "rebuild"
    BY <1>2, <2>2 DEF Follows
  <2>9. Grown /\ Simple(k) => Shown(k)
    BY <2>3, <2>6 DEF GrowInv
  <2>. QED  BY <2>1, <2>5, <2>7, <2>8, <2>9, GrowFrame
<1>. QED  BY <1>1, <1>3, <1>4

\* A fact is written.
LEMMA InsertGrow ==
  ASSUME PgInv, LiveInv, GrowInv, NEW c \in Calls, InsertFact(c)
  PROVE  GrowInv'
<1>1. /\ calls[c].pc \in {"fact", "mergefact"} /\ log' = log /\ db' = db /\ rebuilt' = rebuilt
      /\ \/ calls' = [calls EXCEPT ![c] = [Idle EXCEPT !.pc = "nothing", !.op = calls[c].op]]
         \/ \E fact, k : calls' = [calls EXCEPT ![c] = k] /\ FactOf(c, fact) /\ AfterFact(c, fact, k)
  <2>1. rebuilt' = rebuilt
    BY DEF InsertFact
  <2>. QED  BY <2>1, Inserted
<1>2. OwnOK(calls[c]) /\ (calls[c].op.kind = "rebuild" => rebuilt)
  BY DEF GrowInv
<1>3. CASE calls' = [calls EXCEPT ![c] = [Idle EXCEPT !.pc = "nothing", !.op = calls[c].op]]
  <2>. DEFINE k == [Idle EXCEPT !.pc = "nothing", !.op = calls[c].op]
  <2>1. Becomes(c, k) /\ k.pc = "nothing" /\ k.op = calls[c].op
    BY <1>1, <1>3 DEF Becomes, Idle
  <2>. HIDE DEF k
  <2>. QED  BY <1>1, <1>2, <2>1, GrowEnd DEF Ended
<1>4. ASSUME NEW fact, NEW k, calls' = [calls EXCEPT ![c] = k], FactOf(c, fact), AfterFact(c, fact, k)
      PROVE  GrowInv'
  <2>1. Becomes(c, k)
    BY <1>1, <1>4 DEF Becomes
  <2>2. /\ k.op = calls[c].op /\ k.facts = calls[c].facts \cup {fact} /\ k.id = calls[c].id
        /\ k.del = calls[c].del /\ k.add = calls[c].add /\ k.locks = calls[c].locks
        /\ k.todo = calls[c].todo
    BY <1>4 DEF AfterFact
  <2>3. /\ fact.kind = (IF calls[c].pc = "mergefact" THEN "merge" ELSE calls[c].op.kind)
        /\ fact.subject = (IF calls[c].pc = "mergefact" THEN Dropped(c) ELSE calls[c].id)
        /\ fact.seq = seq + 1
        /\ fact.keys = (IF calls[c].op.kind = "assert" THEN calls[c].op.keys ELSE {})
        /\ fact.props = (IF calls[c].op.kind = "assert" THEN Logged(calls[c].op.props) ELSE {})
        /\ fact.ends = (IF calls[c].op.kind = "edge" THEN <<calls[c].op.from, calls[c].op.to>> ELSE <<>>)
    BY <1>4 DEF FactOf
  <2>4. CASE calls[c].pc = "fact" /\ calls[c].op.kind \in {"assert", "edge"}
    <3>1. k.pc = "answer" /\ k.drops = {} /\ calls[c].drops = {}
      BY <1>2, <1>4, <2>4 DEF AfterFact, OwnOK, Ended
    <3>2. Simple(k) => Simple(calls[c]) /\ calls[c].facts = {}
      BY <1>2, <2>2, <2>4, <3>1 DEF Simple, Plainly, OwnOK, Recording, Ended
    <3>3. calls[c].facts = {} => Wrote(k, fact)
      BY <2>2, <2>3, <2>4 DEF Wrote
    <3>4. OwnOK(k)
      BY <2>2, <2>4, <3>1, <3>2, <3>3 DEF OwnOK, Recording
    <3>5. ASSUME Grown, Simple(k) PROVE Shown(k)
      <4>1. Shown(calls[c]) /\ calls[c].facts = {} /\ k.facts = {fact}
        BY <2>2, <3>2, <3>5 DEF GrowInv
      <4>2. \A g \in Asserts(log) : g.seq < fact.seq
        <5>1. seq \in Nat /\ \A g \in log : g.seq \in 1 .. seq
          BY DEF PgInv, CallInv, LiveInv, SeqOnce, Facts
        <5>. QED  BY <2>3, <5>1 DEF Asserts
      <4>3. See(k) = See(calls[c])
        BY <2>2 DEF See
      <4>4. \A q : WideRow(calls[c], q) => WideRow(k, q)
        BY <2>2 DEF WideRow
      <4>5. \A z : KeyDone(calls[c], z) => KeyDone(k, z)
        BY <2>2, <4>1, <4>2 DEF KeyDone
      <4>6. Widened(calls[c]) => Widened(k)
        BY <2>2, <2>4, <3>1, <4>3, <4>4, <4>5 DEF Widened
      <4>7. EndsDone(calls[c]) => EndsDone(k)
        BY <2>2, <4>1, <4>2 DEF EndsDone
      <4>8. Joined(calls[c]) => Joined(k)
        BY <2>2, <4>7 DEF Joined
      <4>. QED  BY <2>2, <2>4, <3>1, <4>1, <4>6, <4>8 DEF Shown, Linked
    <3>6. Grown /\ Linked(k) => \A o \in Calls \ {c} : Linked(calls[o]) => calls[o].id # k.id
      BY <2>2, <2>4 DEF Linked, GrowInv
    <3>. QED  BY <1>1, <2>1, <2>2, <2>4, <3>4, <3>5, <3>6, GrowFrame
  <2>5. CASE ~ (calls[c].pc = "fact" /\ calls[c].op.kind \in {"assert", "edge"})
    <3>1. fact.kind \notin {"assert", "edge"} /\ k.op.kind # "edge"
      BY <1>1, <1>4, <2>2, <2>3, <2>5, CallOf DEF AfterFact, Placed
    <3>2. ~ Plainly(k.facts) /\ ~ Simple(k)
      BY <2>2, <3>1 DEF Plainly, Simple
    <3>3. k.pc \in {"exists", "move", "commit"} /\ (k.op.kind = "assert" => k.pc = "move" \/ k.drops = {})
      BY <1>4, <2>2, <2>5 DEF AfterFact
    <3>. QED  BY <1>1, <2>1, <2>2, <3>1, <3>2, <3>3, GrowOther
  <2>. QED  BY <2>4, <2>5
<1>. QED  BY <1>1, <1>3, <1>4

\* A step of a call that does not only assert.
LEMMA OtherGrow ==
  ASSUME PgInv, GrowInv, NEW c \in Calls, NEW k, Follows(k, calls[c]),
         Continue(c, k) \/ \E T, l : Write(c, T, l, k),
         k.pc \notin {"prior", "hits", "answer"}, k.op.kind # "edge",
         k.op.kind = "assert" => k.pc \in {"move", "repoint", "drop", "mergefact"} /\ k.drops # {},
         k.pc = "commit" => k.op.kind = "rebuild"
  PROVE  GrowInv'
<1>1. PICK h : /\ Becomes(c, h) /\ rebuilt' = rebuilt
               /\ h.pc = k.pc /\ h.op = k.op /\ h.drops = k.drops /\ h.facts = k.facts
  <2>1. CASE Continue(c, k)
    BY <2>1 DEF Continue, Becomes
  <2>2. ASSUME NEW T, NEW l, Write(c, T, l, k)
        PROVE  \E h : /\ Becomes(c, h) /\ rebuilt' = rebuilt
                      /\ h.pc = k.pc /\ h.op = k.op /\ h.drops = k.drops /\ h.facts = k.facts
    <3>1. PICK h : Becomes(c, h) /\ rebuilt' = rebuilt /\ Written(h, k, View(c), T, l)
      BY <2>2, Writes
    <3>2. h.pc = k.pc /\ h.op = k.op /\ h.drops = k.drops /\ h.facts = k.facts
      BY <3>1 DEF Written
    <3>. QED  BY <3>1, <3>2
  <2>. QED  BY <2>1, <2>2
<1>2. ~ Simple(h)
  BY <1>1 DEF Simple
<1>. QED  BY <1>1, <1>2, GrowOther DEF Follows

\* The steps of merges.
LEMMA MergeGrow ==
  ASSUME PgInv, GrowInv, NEW c \in Calls, Check(c) \/ Move(c) \/ Repoint(c) \/ Drop(c)
  PROVE  GrowInv'
<1>1. CASE Check(c)
  <2>. DEFINE op == calls[c].op
              k  == [calls[c] EXCEPT !.pc = IF op.keep = op.drop THEN "mergefact" ELSE "move",
                                     !.id = op.keep, !.drops = {op.drop}]
  <2>1. calls[c].pc = "check" /\ (Continue(c, k) \/ Rollback(c, "notfound"))
    BY <1>1, Zenon DEF Check
  <2>2. Follows(k, calls[c]) /\ k.pc \in {"mergefact", "move"} /\ k.op = op
    BY CallIs DEF Follows, IsCall, Fields
  <2>3. op.kind = "merge"
    BY <2>1, CallOf DEF Placed
  <2>. HIDE DEF k
  <2>. QED  BY <2>1, <2>2, <2>3, OtherGrow, RollbackGrow DEF Ended
<1>2. CASE Move(c)
  <2>. DEFINE T    == View(c)
              k    == [calls[c] EXCEPT !.pc = "repoint"]
              kids == {x \in T.ext : x.entity = Dropped(c)}
              R    == (T.ext \ kids) \cup {[x EXCEPT !.entity = k.id] : x \in kids}
              lock == [NoLocks EXCEPT !.keys = {x.key : x \in kids}, !.refer = {k.id}]
  <2>1. calls[c].pc = "move" /\ (Continue(c, k) \/ Write(c, [T EXCEPT !.ext = R], lock, k) \/ Rollback(c, "failed"))
    BY <1>2, Zenon DEF Move
  <2>2. Follows(k, calls[c]) /\ k.pc = "repoint" /\ k.drops = calls[c].drops /\ k.op = calls[c].op
    BY CallIs DEF Follows, IsCall, Fields
  <2>3. calls[c].op.kind \in {"assert", "merge"} /\ calls[c].drops # {}
    BY <2>1, CallOf DEF Placed, CallTyped
  <2>. HIDE DEF k, R, lock
  <2>. QED  BY <2>1, <2>2, <2>3, OtherGrow, RollbackGrow DEF Ended
<1>3. CASE Repoint(c)
  <2>. DEFINE T     == View(c)
              d     == Dropped(c)
              k     == [calls[c] EXCEPT !.pc = "drop", !.seen = InsertedBy(T, d)]
              kids  == ReferTo(T, d).edges
              to(i) == IF i = d THEN k.id ELSE i
              R     == (T.edges \ kids) \cup {[e EXCEPT !.from = to(@), !.to = to(@)] : e \in kids}
              lock  == [NoLocks EXCEPT !.edges = Ids(kids), !.refer = {k.id}]
  <2>1. calls[c].pc = "repoint" /\ (Continue(c, k) \/ Write(c, [T EXCEPT !.edges = R], lock, k) \/ Rollback(c, "failed"))
    BY <1>3, Zenon DEF Repoint
  <2>2. Follows(k, calls[c]) /\ k.pc = "drop" /\ k.drops = calls[c].drops /\ k.op = calls[c].op
    BY CallIs DEF Follows, IsCall, Fields
  <2>3. calls[c].op.kind \in {"assert", "merge"} /\ calls[c].drops # {}
    BY <2>1, CallOf DEF Placed, CallTyped
  <2>. HIDE DEF k, R, lock, d
  <2>. QED  BY <2>1, <2>2, <2>3, OtherGrow, RollbackGrow DEF Ended
<1>4. CASE Drop(c)
  <2>. DEFINE k == [calls[c] EXCEPT !.pc = "mergefact"]
              l == [NoLocks EXCEPT !.write = {calls[c].id} \cap Live(View(c))]
  <2>1. Follows(k, calls[c]) /\ k.pc = "mergefact" /\ k.op = calls[c].op /\ k.drops = calls[c].drops
    BY CallIs DEF Follows, IsCall, Fields
  <2>2. calls[c].pc = "drop" /\ DeleteEntity(c, Dropped(c), k, l)
    BY <1>4, Zenon DEF Drop
  <2>3. LockSet(l)
    BY DEF LockSet, NoLocks
  <2>. HIDE DEF k, l
  <2>4. \E T, m : Write(c, T, m, k)
    BY <2>2, <2>3, DeleteEntityRows
  <2>5. calls[c].op.kind \in {"assert", "merge"} /\ calls[c].drops # {}
    BY <2>2, CallOf DEF Placed, CallTyped
  <2>. QED  BY <2>1, <2>4, <2>5, OtherGrow
<1>. QED  BY <1>1, <1>2, <1>3, <1>4

\* The steps of retractions, of edges taken back and of rebuilds.
LEMMA RemoveGrow ==
  ASSUME PgInv, GrowInv, NEW c \in Calls, Retract(c) \/ Unlink(c) \/ Clear(c) \/ ReadLog(c) \/ FoldLog(c)
  PROVE  GrowInv'
<1>1. CASE Retract(c)
  <2>. DEFINE k == [calls[c] EXCEPT !.pc = "fact", !.id = calls[c].op.id]
  <2>1. Follows(k, calls[c]) /\ k.pc = "fact" /\ k.op = calls[c].op
    BY CallIs DEF Follows, IsCall, Fields
  <2>2. calls[c].op.kind = "retract" /\ DeleteEntity(c, calls[c].op.id, k, NoLocks)
    BY <1>1, CallOf, Zenon DEF Retract, CallTyped
  <2>3. LockSet(NoLocks)
    BY DEF LockSet, NoLocks
  <2>. HIDE DEF k
  <2>4. \E T, m : Write(c, T, m, k)
    BY <2>2, <2>3, DeleteEntityRows
  <2>. QED  BY <2>1, <2>2, <2>4, OtherGrow
<1>2. CASE Unlink(c)
  <2>. DEFINE T    == View(c)
              k    == [calls[c] EXCEPT !.pc = "fact", !.id = calls[c].op.id]
              R    == {e \in T.edges : e.id # k.id}
              lock == [NoLocks EXCEPT !.edges = {k.id}]
  <2>1. calls[c].pc = "unlink" /\ Write(c, [T EXCEPT !.edges = R], lock, k)
    BY <1>2, Zenon DEF Unlink
  <2>2. Follows(k, calls[c]) /\ k.pc = "fact" /\ k.op = calls[c].op
    BY CallIs DEF Follows, IsCall, Fields
  <2>3. calls[c].op.kind = "unlink"
    BY <2>1, CallOf DEF CallTyped
  <2>. HIDE DEF k, R, lock
  <2>. QED  BY <2>1, <2>2, <2>3, OtherGrow
<1>3. CASE Clear(c)
  <2>. DEFINE k == [calls[c] EXCEPT !.pc = "read"]
              l == [write |-> Live(View(c)), gone |-> Live(View(c)), refer |-> {},
                    keys |-> {x.key : x \in View(c).ext}, edges |-> Ids(View(c).edges)]
  <2>1. Follows(k, calls[c]) /\ k.pc = "read" /\ k.op = calls[c].op
    BY CallIs DEF Follows, IsCall, Fields
  <2>2. calls[c].pc = "clear" /\ Write(c, Empty, l, k)
    BY <1>3, Zenon DEF Clear
  <2>3. calls[c].op.kind = "rebuild"
    BY <2>2, CallOf DEF Placed
  <2>. HIDE DEF k, l
  <2>. QED  BY <2>1, <2>2, <2>3, OtherGrow
<1>4. CASE ReadLog(c)
  <2>. DEFINE k == [calls[c] EXCEPT !.pc = "fold", !.read = log]
  <2>1. Follows(k, calls[c]) /\ k.pc = "fold" /\ k.op = calls[c].op
    BY CallIs DEF Follows, IsCall, Fields
  <2>2. Continue(c, k) /\ calls[c].op.kind = "rebuild"
    BY <1>4, CallOf DEF ReadLog, Placed
  <2>. HIDE DEF k
  <2>. QED  BY <2>1, <2>2, OtherGrow
<1>5. CASE FoldLog(c)
  <2>. DEFINE S == View(c)
              T == Fold(S, calls[c].read, calls[c].tx)
              change(A, B) == (A \ B) \cup (B \ A)
              ext == change(S.ext, T.ext)
              edges == change(S.edges, T.edges)
              lock == [write |-> Ids(change(S.entities, T.entities)), gone |-> Live(S) \ Live(T),
                       refer |-> {x.entity : x \in ext} \cup UNION {{e.from, e.to} : e \in edges},
                       keys |-> {x.key : x \in ext}, edges |-> Ids(edges)]
              k == [calls[c] EXCEPT !.pc = "commit", !.read = {}]
  <2>1. Follows(k, calls[c]) /\ k.pc = "commit" /\ k.op = calls[c].op
    BY CallIs DEF Follows, IsCall, Fields
  <2>2. calls[c].op.kind = "rebuild"
    BY <1>5, CallOf DEF FoldLog, Placed
  <2>3. Write(c, T, lock, k) \/ Rollback(c, "failed")
    BY <1>5, Zenon DEF FoldLog
  <2>. HIDE DEF k, lock, T
  <2>. QED  BY <2>1, <2>2, <2>3, OtherGrow, RollbackGrow DEF Ended
<1>. QED  BY <1>1, <1>2, <1>3, <1>4, <1>5

\* What an assertion has written shows it.
LEMMA AssertShows ==
  ASSUME PgInv, GrowInv, Grown, NEW c \in Calls, calls[c].pc = "commit", Widened(calls[c]),
         NEW f, Wrote(calls[c], f), f.kind = "assert", f.seq \in Nat, \A g \in log : g.seq \in Nat
  PROVE  Shows(View(c), log \cup {f})
<1>. DEFINE k == calls[c]
            T == View(c)
<1>1. /\ k.facts = {f} /\ f.subject = k.id /\ f.keys = k.op.keys /\ f.props = Logged(k.op.props)
      /\ Shows(db, log)
  BY DEF Wrote, GrowInv
<1>2. /\ k.del.ext = {} /\ k.del.edges = {} /\ k.add.edges = {}
      /\ \A r \in k.del.entities \cup k.add.entities : r.id = k.id
      /\ \A y \in k.add.ext : y.entity = k.id /\ y.key \in k.op.keys
      /\ \A x \in k.op.keys : KeyDone(k, x)
  BY DEF Widened
<1>3. T = See(k) /\ Unique(T)
  BY CallOf DEF Sound
<1>4. PICK q \in T.entities : WideRow(k, q)
  BY <1>3 DEF Widened
<1>5. /\ T.entities = (db.entities \ k.del.entities) \cup k.add.entities
      /\ T.ext = db.ext \cup k.add.ext /\ T.edges = db.edges
  <2>1. /\ T.entities = (db.entities \ k.del.entities) \cup k.add.entities
        /\ T.ext = (db.ext \ k.del.ext) \cup k.add.ext
        /\ T.edges = (db.edges \ k.del.edges) \cup k.add.edges
    BY <1>3, SeeRows
  <2>. QED  BY <1>2, <2>1
<1>6. \A x \in k.op.keys :
        \/ \E y \in k.add.ext : y.key = x
        \/ \E g \in Asserts(log) : x \in g.keys /\ g.seq < f.seq
  BY <1>1, <1>2 DEF KeyDone
<1>16. k.op.props \in {NilProps, JsonNull} \cup Objects /\ f.props \in {JsonNull} \cup Objects
  <2>1. k.op \in Input /\ k.op.kind = "assert"
    BY CallOf DEF CallTyped, Ended, Wrote
  <2>. QED  BY <1>1, <2>1, StoredIs DEF Input
<1>. HIDE DEF k, T
<1>7. Live(T) = Live(db) \cup {f.subject}
  <2>1. q.id = f.subject
    BY <1>1, <1>4 DEF WideRow
  <2>. QED  BY <1>1, <1>2, <1>5, <2>1 DEF Live, Ids
<1>8. \A r \in T.entities : r.id # f.subject => r \in db.entities
  BY <1>1, <1>2, <1>5
<1>9. \A r \in T.entities : r.id = f.subject /\ f.props # JsonNull =>
        /\ \A p \in db.entities : p.id = f.subject => r.props = Concat(f.props, p.props)
        /\ f.subject \notin Live(db) => r.props = f.props
  <2>1. q.id = f.subject /\ \A r \in T.entities : r.id = f.subject => r = q
    BY <1>1, <1>3, <1>4 DEF WideRow, Unique
  <2>2. f.props # JsonNull => Stored(k.op.props) = f.props
    BY <1>1, <1>16, StoredIs
  <2>3. f.props # JsonNull =>
          /\ \A p \in db.entities : p.id = f.subject => q.props = Concat(f.props, p.props)
          /\ f.subject \notin Live(db) => q.props = f.props
    BY <1>1, <1>4, <2>2 DEF WideRow
  <2>. QED  BY <2>1, <2>3
<1>10. \A x, y \in T.ext : x.key = y.key => x = y
  BY <1>3 DEF Unique
<1>11. \A y \in T.ext \ db.ext : y.entity = f.subject /\ y.key \in f.keys
  BY <1>1, <1>2, <1>5
<1>12. \A x \in f.keys : \E y \in T.ext : y.key = x
  BY <1>1, <1>5, <1>6 DEF Shows
<1>13. \A y \in db.ext : y.key \in f.keys =>
         y.entity = f.subject \/ \E g \in Asserts(log) : y.key \in g.keys /\ g.seq < f.seq
  BY <1>1, <1>2, <1>5, <1>6, <1>10
<1>14. db.ext \subseteq T.ext /\ T.edges = db.edges
  BY <1>5
<1>15. Shows(T, log \cup {f})
  BY <1>1, <1>7, <1>8, <1>9, <1>10, <1>11, <1>12, <1>13, <1>14, <1>16, ShowsAssert
<1>. QED  BY <1>15 DEF T

\* What a call for an edge has written.
LEMMA EdgeRows ==
  ASSUME PgInv, NEW c \in Calls, Joined(calls[c])
  PROVE  /\ View(c).entities = db.entities /\ View(c).ext = db.ext
         /\ View(c).edges = db.edges \cup {[id |-> calls[c].id, from |-> calls[c].op.from, to |-> calls[c].op.to]}
<1>1. Empty.entities = {} /\ Empty.ext = {} /\ Empty.edges = {}
  BY DEF Empty, Names
<1>2. /\ View(c).entities = (db.entities \ calls[c].del.entities) \cup calls[c].add.entities
      /\ View(c).ext = (db.ext \ calls[c].del.ext) \cup calls[c].add.ext
      /\ View(c).edges = (db.edges \ calls[c].del.edges) \cup calls[c].add.edges
  BY CallOf, SeeRows
<1>. QED  BY <1>1, <1>2 DEF Joined

\* So the tables show one edge more.
LEMMA EdgeShows ==
  ASSUME PgInv, GrowInv, Grown, NEW c \in Calls, Joined(calls[c]),
         NEW f, Wrote(calls[c], f), f.kind = "edge"
  PROVE  Shows(View(c), log \cup {f})
<1>1. EdgeOf(f) = [id |-> calls[c].id, from |-> calls[c].op.from, to |-> calls[c].op.to]
  BY DEF Wrote, EdgeOf
<1>2. Shows(db, log)
  BY DEF GrowInv
<1>. QED  BY <1>1, <1>2, EdgeRows, ShowsEdge

\* The log stays in order.
LEMMA OrderedMore ==
  ASSUME NEW F, Ordered(F), NEW f,
         f.kind = "edge" =>
           /\ \A g \in F : g.subject # f.subject
           /\ \A j \in {f.ends[1], f.ends[2]} : \E a \in Asserts(F) : a.subject = j /\ a.seq < f.seq
  PROVE  Ordered(F \cup {f})
<1>1. Asserts(F) \subseteq Asserts(F \cup {f})
  BY DEF Asserts
<1>2. \A g \in EdgesOf(F \cup {f}) : g \in EdgesOf(F) \/ (g = f /\ f.kind = "edge")
  BY DEF EdgesOf
<1>3. \A g \in EdgesOf(F) : g \in F
  BY DEF EdgesOf
<1>4. \A g, h \in EdgesOf(F \cup {f}) : h.subject = g.subject => h = g
  BY <1>2, <1>3 DEF Ordered
<1>5. ASSUME NEW g \in EdgesOf(F \cup {f}), NEW j \in {g.ends[1], g.ends[2]}
      PROVE  \E a \in Asserts(F \cup {f}) : a.subject = j /\ a.seq < g.seq
  <2>1. \E a \in Asserts(F) : a.subject = j /\ a.seq < g.seq
    BY <1>2 DEF Ordered
  <2>. QED  BY <1>1, <2>1
<1>. QED  BY <1>4, <1>5 DEF Ordered

\* What the others have written is not touched by a commit.
LEMMA OthersShown ==
  ASSUME PgInv, GrowInv, Grown, NEW c \in Calls, Commit(c), NEW f, Wrote(calls[c], f), FactTyped(f),
         (f.kind = "assert" /\ Widened(calls[c])) \/ (f.kind = "edge" /\ Linked(calls[c]) /\ Joined(calls[c])),
         NEW o \in Calls \ {c}, Shown(calls[o])
  PROVE  Shown(calls[o])'
<1>. DEFINE k == calls[c]
            T == View(c)
<1>1. db' = T /\ log' = log \cup {f} /\ calls'[o] = calls[o]
  BY DEF Commit, Wrote, PgInv, Inv, CallsPlaced
<1>2. PICK h : h = calls[o]
  OBVIOUS
<1>3. T.entities = (db.entities \ k.del.entities) \cup k.add.entities
  BY CallOf, SeeRows
<1>4. \A g \in Asserts(log) : g \in Asserts(log')
  BY <1>1 DEF Asserts
<1>5. Linked(h) /\ Linked(k) => h.id # k.id
  BY <1>2 DEF GrowInv
<1>6. Shown(calls[o])'
  <2>1. ASSUME NEW i, f.kind = "edge" \/ i # k.id
        PROVE  \A r : r.id = i => (r \in T.entities <=> r \in db.entities)
    BY <1>3, <2>1, EdgeRows DEF Widened
  <2>2. Unwritten(h) => Unwritten(h)'
    <3>1. ASSUME NEW r \in db.entities
          PROVE  \E p \in T.entities : p.id = r.id /\ p.by = r.by
      <4>1. CASE f.kind = "edge" \/ r.id # k.id
        BY <2>1, <4>1
      <4>2. CASE f.kind = "assert" /\ r.id = k.id
        <5>1. PICK q \in See(k).entities : WideRow(k, q)
          BY <4>2 DEF Widened
        <5>. QED  BY <4>2, <5>1, CallOf DEF WideRow
      <4>. QED  BY <4>1, <4>2 DEF Widened
    <3>. HIDE DEF T
    <3>. QED  BY <1>1, <3>1 DEF Unwritten
  <2>3. Widened(h) => Widened(h)'
    <3>. SUFFICES ASSUME Widened(h) PROVE Widened(h)'
      OBVIOUS
    <3>1. f.kind = "edge" \/ h.id # k.id
      BY <1>2 DEF Widened, PgInv, RowInv, Apart, Compatible
    <3>2. \A r : r.id = h.id => (r \in T.entities <=> r \in db.entities)
      BY <2>1, <3>1
    <3>3. PICK q \in See(h).entities : WideRow(h, q)
      BY DEF Widened
    <3>4. See(h)'.entities = (T.entities \ h.del.entities) \cup h.add.entities
      BY <1>1 DEF See, Names
    <3>5. See(h).entities = (db.entities \ h.del.entities) \cup h.add.entities
      BY SeeRows
    <3>6. q.id = h.id
      BY <3>3 DEF WideRow
    <3>. HIDE DEF T
    <3>7. q \in See(h)'.entities
      BY <3>2, <3>3, <3>4, <3>5, <3>6
    <3>8. Live(db)' = Ids(T.entities) /\ Live(db) = Ids(db.entities)
      BY <1>1 DEF Live
    <3>9. h.id \in Ids(db.entities) => h.id \in Ids(T.entities)
      BY <3>2 DEF Ids
    <3>10. WideRow(h, q)'
      BY <1>1, <3>2, <3>3, <3>8, <3>9 DEF WideRow
    <3>11. \A x : KeyDone(h, x) => KeyDone(h, x)'
      BY <1>4 DEF KeyDone
    <3>. QED  BY <3>7, <3>10, <3>11 DEF Widened
  <2>4. Linked(h) /\ Joined(h) => Joined(h)'
    <3>. SUFFICES ASSUME Linked(h), Joined(h) PROVE Joined(h)'
      OBVIOUS
    <3>1. EndsDone(h)'
      BY <1>4 DEF Joined, EndsDone
    <3>2. h.id # f.subject
      <4>1. CASE f.kind = "assert"
        BY <4>1, PgStoreAssumption DEF FactTyped, Joined
      <4>2. CASE f.kind = "edge"
        BY <1>5, <4>2, PgStoreAssumption DEF Wrote, Linked, Widened
      <4>. QED  BY <4>1, <4>2
    <3>3. h.id \notin Subjects(log')
      BY <1>1, <3>2 DEF Joined, Subjects
    <3>. QED  BY <3>1, <3>3 DEF Joined
  <2>5. Shown(h)'
    BY <1>2, <2>2, <2>3, <2>4 DEF Shown
  <2>. QED  BY <1>1, <1>2, <2>5
<1>. QED  BY <1>6

\* A commit shows what its transaction wrote to everyone.
LEMMA CommitGrow ==
  ASSUME PgInv, LiveInv, GrowInv, NEW c \in Calls, Commit(c)
  PROVE  GrowInv'
<1>. DEFINE h == [Idle EXCEPT !.pc = "done"]
<1>1. /\ calls[c].pc = "commit" /\ db' = View(c) /\ log' = log \cup calls[c].facts /\ rebuilt' = rebuilt
      /\ calls'[c] = h /\ \A o \in Calls \ {c} : calls'[o] = calls[o]
  BY DEF Commit, PgInv, Inv, CallsPlaced
<1>2. h.pc = "done" /\ h.op.kind = "none"
  BY DEF Idle
<1>3. OwnOK(h) /\ ~ Simple(h) /\ ~ Linked(h)
  BY <1>2 DEF OwnOK, Simple, Linked, Ended
<1>. HIDE DEF h
<1>4. \A o \in Calls : OwnOK(calls[o])' /\ (calls'[o].op.kind = "rebuild" => rebuilt')
  <2>1. \A o \in Calls : OwnOK(calls'[o])
    BY <1>1, <1>3 DEF GrowInv
  <2>. QED  BY <1>1, <1>2, <2>1 DEF GrowInv
<1>5. SUFFICES ASSUME Grown'
      PROVE /\ Shows(db, log)' /\ Ordered(log)'
            /\ \A o \in Calls : Simple(calls[o])' => Shown(calls[o])'
            /\ \A o, p \in Calls : o # p /\ Linked(calls[o])' /\ Linked(calls[p])' => calls'[o].id # calls'[p].id
  BY <1>4 DEF GrowInv
<1>6. Grown /\ Plainly(calls[c].facts) /\ ~ rebuilt
  BY <1>1, <1>5 DEF Grown, Plainly
<1>7. calls[c].op.kind \in {"assert", "edge"} /\ Simple(calls[c])
  <2>1. OwnOK(calls[c]) /\ (calls[c].op.kind = "rebuild" => rebuilt)
    BY DEF GrowInv
  <2>2. calls[c].op.kind \in {"assert", "edge"}
    BY <1>1, <1>6, <2>1 DEF OwnOK
  <2>. QED  BY <1>1, <1>6, <2>1, <2>2 DEF OwnOK, Simple, Ended
<1>8. PICK f \in calls[c].facts : Wrote(calls[c], f)
  BY <1>1, <1>7 DEF GrowInv, OwnOK, Recording
<1>9. calls[c].facts = {f} /\ f.kind = calls[c].op.kind /\ f.subject = calls[c].id /\ log' = log \cup {f}
  BY <1>1, <1>8 DEF Wrote
<1>10. FactTyped(f) /\ f.seq \in Nat /\ \A g \in log : g.seq \in Nat
  BY CallOf DEF PgInv, CallInv, LiveInv, SeqOnce, Facts, CallTyped
<1>11. Shown(calls[c])
  BY <1>6, <1>7 DEF GrowInv
<1>12. (f.kind = "assert" /\ Widened(calls[c])) \/ (f.kind = "edge" /\ Linked(calls[c]) /\ Joined(calls[c]))
  BY <1>1, <1>7, <1>9, <1>11 DEF Shown, Linked
<1>13. Shows(View(c), log \cup {f})
  BY <1>1, <1>6, <1>8, <1>10, <1>12, AssertShows, EdgeShows
<1>14. Shows(db, log)'
  BY <1>1, <1>9, <1>13
<1>15. Ordered(log \cup {f})
  <2>1. Ordered(log)
    BY <1>6 DEF GrowInv
  <2>2. f.kind = "edge" =>
          /\ \A g \in log : g.subject # f.subject
          /\ \A j \in {f.ends[1], f.ends[2]} : \E a \in Asserts(log) : a.subject = j /\ a.seq < f.seq
    <3>. SUFFICES ASSUME f.kind = "edge"
                  PROVE  /\ \A g \in log : g.subject # f.subject
                         /\ \A j \in {f.ends[1], f.ends[2]} : \E a \in Asserts(log) : a.subject = j /\ a.seq < f.seq
      OBVIOUS
    <3>1. Joined(calls[c]) /\ f.ends = <<calls[c].op.from, calls[c].op.to>>
      BY <1>8, <1>12 DEF Wrote
    <3>2. \A g \in log : g.subject # f.subject
      BY <1>9, <3>1 DEF Joined, Subjects
    <3>3. f.ends[1] = calls[c].op.from /\ f.ends[2] = calls[c].op.to
      BY <3>1
    <3>. QED  BY <1>9, <3>1, <3>2, <3>3 DEF Joined, EndsDone
  <2>. QED  BY <2>1, <2>2, OrderedMore
<1>16. Ordered(log)'
  BY <1>9, <1>15
<1>17. ASSUME NEW o \in Calls, Simple(calls[o])' PROVE Shown(calls[o])'
  <2>1. o # c
    BY <1>1, <1>3, <1>17
  <2>2. Simple(calls[o])
    <3>1. calls'[o] = calls[o]
      BY <1>1, <2>1
    <3>2. PICK k : k = calls'[o] /\ Simple(k)
      BY <1>17
    <3>. QED  BY <3>1, <3>2
  <2>3. Shown(calls[o])
    BY <1>6, <2>2 DEF GrowInv
  <2>. QED  BY <1>6, <1>8, <1>10, <1>12, <2>1, <2>3, OthersShown
<1>18. ASSUME NEW o \in Calls, NEW p \in Calls, o # p, Linked(calls[o])', Linked(calls[p])'
       PROVE  calls'[o].id # calls'[p].id
  <2>1. PICK k, m : k = calls'[o] /\ m = calls'[p] /\ Linked(k) /\ Linked(m)
    BY <1>18
  <2>2. o # c /\ p # c
    BY <1>1, <1>3, <2>1
  <2>. QED  BY <1>1, <1>6, <1>18, <2>1, <2>2 DEF GrowInv
<1>. QED  BY <1>14, <1>16, <1>17, <1>18

\* The initial state satisfies the invariant.
LEMMA InitGrow == Init => GrowInv
<1>. SUFFICES ASSUME Init PROVE GrowInv
  OBVIOUS
<1>1. log = {} /\ db = Empty /\ \A c \in Calls : calls[c] = Idle
  BY DEF Init
<1>2. Idle.pc = "idle" /\ Idle.op.kind = "none"
  BY DEF Idle
<1>3. OwnOK(Idle) /\ ~ Simple(Idle) /\ ~ Linked(Idle)
  BY <1>2 DEF OwnOK, Simple, Linked, Ended
<1>4. Shows(db, log)
  BY <1>1, EmptyShows
<1>5. Ordered(log)
  BY <1>1 DEF Ordered, EdgesOf
<1>. QED  BY <1>1, <1>2, <1>3, <1>4, <1>5 DEF GrowInv

\* Every step preserves it.
LEMMA NextGrow == PgInv /\ LiveInv /\ GrowInv /\ [Next]_vars => GrowInv'
<1>. SUFFICES ASSUME PgInv, LiveInv, GrowInv, [Next]_vars PROVE GrowInv'
  OBVIOUS
<1>1. CASE UNCHANGED vars
  <2>1. db' = db /\ log' = log /\ calls' = calls /\ rebuilt' = rebuilt
    BY <1>1 DEF vars
  <2>2. (Grown' <=> Grown) /\ (Shows(db, log)' <=> Shows(db, log)) /\ (Ordered(log)' <=> Ordered(log))
    BY <2>1 DEF Grown, Plainly
  <2>3. \A o \in Calls : Shown(calls[o])' <=> Shown(calls[o])
    <3>. SUFFICES ASSUME NEW o \in Calls PROVE Shown(calls[o])' <=> Shown(calls[o])
      OBVIOUS
    <3>1. PICK k : k = calls[o]
      OBVIOUS
    <3>2. Shown(k)' <=> Shown(k)
      BY <2>1, ShownSame
    <3>. QED  BY <2>1, <3>1, <3>2
  <2>4. \A o \in Calls : /\ (OwnOK(calls[o])' <=> OwnOK(calls[o])) /\ (Simple(calls[o])' <=> Simple(calls[o]))
                         /\ (Linked(calls[o])' <=> Linked(calls[o]))
    BY <2>1
  <2>. QED  BY <2>1, <2>2, <2>3, <2>4 DEF GrowInv
<1>2. ASSUME NEW c \in Calls, Abort(c) PROVE GrowInv'
  BY <1>2, RollbackGrow DEF Abort, Ended
<1>3. CASE Next
  <2>1. PICK c \in Calls :
          \/ \E op \in Inputs : Begin(c, op)
          \/ Prior(c) \/ Hits(c) \/ Exists(c) \/ Upsert(c)
          \/ \E x \in Keys : InsertKey(c, x)
          \/ Sync(c) \/ Answer(c)
          \/ Check(c) \/ Move(c) \/ Repoint(c) \/ Drop(c)
          \/ Retract(c) \/ Link(c) \/ Unlink(c)
          \/ InsertFact(c) \/ Commit(c) \/ Abort(c)
          \/ Clear(c) \/ ReadLog(c) \/ FoldLog(c)
    BY <1>3 DEF Next
  <2>. QED  BY <1>2, <2>1, BeginGrow, PriorGrow, HitsGrow, ExistsGrow, UpsertGrow, InsertKeyGrow, SyncGrow,
                LinkGrow, AnswerGrow, InsertGrow, MergeGrow, RemoveGrow, CommitGrow
<1>. QED  BY <1>1, <1>3

\* The fold of the log gives the tables that the writes have left, while entities and edges
\* are only asserted and no rebuild has run: whatever transactions overlap, each key goes to
\* the first assertion in the log that has it, and each node holds the properties of all of
\* its assertions, as a rebuild would leave them, unless one of them was logged with null for
\* its props (entities.go upsertEntitySnapshot, appendEntityFact, postgres.go RebuildProjection).
THEOREM FoldIsOnline == Spec => []FoldAgrees
BY InitPg, NextPg, InitLive, NextLive, InitGrow, NextGrow, ShownAgrees, PTL DEF Spec

============================================================================
