------------------------------ MODULE PgStore ------------------------------
(***************************************************************************)
(* The writes of the Postgres adapter.  Unlike those of SQLite they are not *)
(* serial: each is a transaction under READ COMMITTED, an advisory lock     *)
(* keeps only assertions of one writer with one dedupe key apart, and the   *)
(* rest is left to row locks, foreign keys and unique indexes.  A call is   *)
(* split at its statements.                                                 *)
(*                                                                         *)
(* Of the database (external) the model has: a statement sees what is       *)
(* committed and what its own transaction wrote; it waits for transactions  *)
(* that wrote the rows it writes, for those that delete a row it refers to, *)
(* and, when it deletes a row, for those that refer to it; a sequence is    *)
(* never rolled back.  A statement that waits reads when it need wait no    *)
(* more, but an UPDATE or DELETE of an entity finds only the row it saw     *)
(* when it began (of keys and edges it finds what is there).  Any           *)
(* transaction may be rolled back (a deadlock, a lost connection, a         *)
(* cancelled request).                                                      *)
(*                                                                         *)
(* One space; external keys decide the resolve (policy external_only, or no *)
(* embedding).  Embeddings and labels follow the statements of keys.  Of    *)
(* props the model has which members there are, not their values; of edges  *)
(* it has no props.  The statements that clear the tables are one step, as  *)
(* are those of the fold.                                                   *)
(***************************************************************************)
EXTENDS Integers, FiniteSets

CONSTANTS
  Calls,       \* goroutines that write
  Writers,     \* WriterIDs
  Keys,        \* external keys
  Dedupes,     \* DedupeKeys the callers pass
  EntityIds,   \* entity ids, as positions in (created_at, id) order
  EdgeIds,     \* edge ids
  PropNames,   \* property names
  NilProps,    \* a Go RawMessage that was never set
  JsonNull,    \* JSON null, as the props of a fact or of a row
  JsonArray,   \* what || makes of props that are not both objects
  Inputs,      \* the calls that are tried
  MaxCalls     \* bound: how many calls are made

\* Props that are a JSON object, by the names of its members.
Objects == SUBSET PropNames

Input ==
  [kind : {"assert"}, writer : Writers, dedupe : Dedupes, keys : SUBSET Keys,
         props : {NilProps, JsonNull} \cup Objects]
    \cup [kind : {"edge"}, writer : Writers, dedupe : Dedupes, from : EntityIds, to : EntityIds]
    \cup [kind : {"merge"}, writer : Writers, keep : EntityIds, drop : EntityIds]
    \cup [kind : {"retract"}, writer : Writers, id : EntityIds]
    \cup [kind : {"unlink"}, writer : Writers, id : EdgeIds]
    \cup [kind : {"rebuild"}]

ASSUME PgStoreAssumption ==
  /\ IsFiniteSet(Calls) /\ IsFiniteSet(EntityIds) /\ EntityIds \subseteq Nat \ {0}
  /\ EdgeIds \cap EntityIds = {}
  /\ JsonNull \notin {NilProps, JsonArray} /\ \A o \in Objects : o \notin {NilProps, JsonNull, JsonArray}
  /\ Inputs \subseteq Input /\ MaxCalls \in Nat

VARIABLES
  db,      \* the committed rows of entities, external ids and edges
  log,     \* the committed rows of facts
  seq,     \* the sequence of facts.seq
  begun,   \* how many calls have begun
  rebuilt, \* history: a rebuild has begun
  calls    \* the last call of each goroutine

vars == <<db, log, seq, begun, rebuilt, calls>>

\* Every row of an entity knows the transaction that inserted it.
Tables == [entities : SUBSET [id : EntityIds, props : {JsonNull, JsonArray} \cup Objects, by : Nat],
           ext      : SUBSET [entity : EntityIds, key : Keys],
           edges    : SUBSET [id : EdgeIds, from : EntityIds, to : EntityIds]]
Names == {"entities", "ext", "edges"}
Empty == [t \in Names |-> {}]

Ids(rows) == {r.id : r \in rows}
Live(T) == Ids(T.entities)
ReferTo(T, i) == [ext |-> {x \in T.ext : x.entity = i},
                  edges |-> {e \in T.edges : e.from = i \/ e.to = i}]

\* What a transaction has locked: entities it wrote, among them those it deleted,
\* entities it refers to, external keys and edges it wrote.
NoLocks == [write |-> {}, gone |-> {}, refer |-> {}, keys |-> {}, edges |-> {}]
Both(l, m) == [a \in DOMAIN l |-> l[a] \cup m[a]]

Ended == {"idle", "done", "failed", "notfound", "duplicate", "nothing"}

Idle == [pc |-> "idle", op |-> [kind |-> "none"], tx |-> 0, id |-> 0, seen |-> 0, todo |-> {},
         drops |-> {}, del |-> Empty, add |-> Empty, locks |-> NoLocks, facts |-> {}, read |-> {}]

----------------------------------------------------------------------------
(* Statements. *)

\* What a transaction sees.
View(c) == [t \in Names |-> (db[t] \ calls[c].del[t]) \cup calls[c].add[t]]

\* A statement that needs the locks l has nobody to wait for.
Free(c, l) ==
  \A o \in Calls \ {c} : LET h == calls[o].locks IN
    /\ l.write \cap h.write = {}
    /\ l.gone \cap h.refer = {} /\ l.refer \cap h.gone = {}
    /\ l.keys \cap h.keys = {} /\ l.edges \cap h.edges = {}

\* The call goes on as k, no row written.
Continue(c, k) == calls' = [calls EXCEPT ![c] = k] /\ UNCHANGED <<db, log, seq, begun, rebuilt>>

\* A statement after which the transaction sees T, under the locks l.
Write(c, T, l, k) ==
  LET old == View(c)
  IN /\ Free(c, l)
     /\ Continue(c, [k EXCEPT
          !.del = [t \in Names |-> @[t] \cup (old[t] \ T[t])],
          !.add = [t \in Names |-> (@[t] \cap T[t]) \cup (T[t] \ old[t])],
          !.locks = Both(@, l)])

\* The transaction ends and leaves nothing behind.
Rollback(c, how) ==
  Continue(c, [Idle EXCEPT !.pc = how])

\* The transaction a row of entity i was inserted by; 0 if there is none.
InsertedBy(T, i) ==
  IF i \in Live(T) THEN (CHOOSE r \in T.entities : r.id = i).by ELSE 0

\* DEFECT: nothing cascades.
DeleteEntityWithoutCascade(c, i, k, l) ==
  Write(c, [View(c) EXCEPT !.entities = {r \in @ : r.id # i}], [l EXCEPT !.write = @ \cup {i}], k)

\* DELETE FROM entities and its cascade: the row seen when the statement began.
DeleteEntity(c, i, k, l) ==
  LET T == View(c)
      r == {e \in T.entities : e.id = i /\ e.by = calls[c].seen}
      kids == ReferTo(T, i)
  IN IF r = {} THEN Free(c, [NoLocks EXCEPT !.write = {i}]) /\ Write(c, T, l, k)
     ELSE Write(c, [entities |-> T.entities \ r, ext |-> T.ext \ kids.ext, edges |-> T.edges \ kids.edges],
                Both(l, [write |-> {i}, gone |-> {i}, refer |-> {},
                         keys |-> {x.key : x \in kids.ext}, edges |-> Ids(kids.edges)]), k)

----------------------------------------------------------------------------
(* Beginning, the advisory lock and the lookup of a prior assertion. *)

First == [assert |-> "prior", edge |-> "prior", merge |-> "check", retract |-> "delete",
          unlink |-> "unlink", rebuild |-> "clear"]

\* The ids a call names: its caller has them from the log.
Named(op) ==
  CASE op.kind = "edge"  -> {op.from, op.to}
    [] op.kind = "merge" -> {op.keep, op.drop}
    [] op.kind \in {"retract", "unlink"} -> {op.id}
    [] OTHER -> {}

Begin(c, op) ==
  /\ calls[c].pc \in Ended /\ begun < MaxCalls
  /\ Named(op) \subseteq {f.subject : f \in log}
  /\ begun' = begun + 1 /\ rebuilt' = (rebuilt \/ op.kind = "rebuild")
  /\ calls' = [calls EXCEPT ![c] = [Idle EXCEPT !.pc = First[op.kind], !.op = op, !.tx = begun + 1,
                  !.seen = IF op.kind = "retract" THEN InsertedBy(db, op.id) ELSE 0]]
  /\ UNCHANGED <<db, log, seq>>

\* pg_advisory_xact_lock on writer and dedupe key: held from here to the end.
Locked(c) ==
  \E o \in Calls \ {c} : /\ calls[o].pc \notin Ended \cup {"prior"}
                         /\ calls[o].op.kind = "assert" /\ calls[c].op.kind = "assert"
                         /\ calls[o].op.writer = calls[c].op.writer
                         /\ calls[o].op.dedupe = calls[c].op.dedupe

\* The earlier assertions that make this call a duplicate.
PriorAssertions(c) ==
  {f \in log : /\ f.kind = calls[c].op.kind /\ f.writer = calls[c].op.writer
               /\ f.key = <<"caller", calls[c].op.dedupe>>}

\* The lookup and, of a duplicate, the row it made.
LookUp(c) ==
  IF PriorAssertions(c) = {}
  THEN Continue(c, [calls[c] EXCEPT !.pc = IF calls[c].op.kind = "edge" THEN "link" ELSE "hits"])
  ELSE LET i == (CHOOSE f \in PriorAssertions(c) : TRUE).subject
       IN Continue(c, [Idle EXCEPT !.op = calls[c].op, !.id = i, !.pc =
            IF i \in Live(db) \cup Ids(db.edges) THEN "duplicate" ELSE "notfound"])

\* DEFECT: the lock is forgotten.
PriorUnlocked(c) == calls[c].pc = "prior" /\ LookUp(c)

\* What the lookup finds of an entity cannot change while the lock is held.  Edges take
\* no lock.
Prior(c) == calls[c].pc = "prior" /\ ~ Locked(c) /\ LookUp(c)

----------------------------------------------------------------------------
(* AppendEntityFact. *)

\* externalHitsTx.
ExternalHits(c) == {x.entity : x \in {y \in db.ext : y.key \in calls[c].op.keys}}

\* The lookup of the keys and Resolve: insert, attach, or merge into the oldest.  A new id
\* is any that was never used.
Hits(c) ==
  LET hits == ExternalHits(c)
      used == {f.subject : f \in log} \cup {calls[o].id : o \in Calls}
      oldest == CHOOSE i \in hits : \A j \in hits : i <= j
  IN /\ calls[c].pc = "hits"
     /\ IF hits = {} THEN \E i \in EntityIds \ used :
                            Continue(c, [calls[c] EXCEPT !.pc = "upsert", !.id = i])
        ELSE Continue(c, [calls[c] EXCEPT !.pc = IF hits = {oldest} THEN "exists" ELSE "move",
                                          !.id = oldest, !.drops = hits \ {oldest}])

\* upsertEntitySnapshot writes props that were never set as an object without members;
\* json.Marshal writes them into the fact as null.
Stored(props) == IF props = NilProps THEN {} ELSE props
Logged(props) == IF props = NilProps THEN JsonNull ELSE props

\* jsonb candidate || existing: the members of both, if both are objects; else an array.
Concat(candidate, existing) ==
  IF {candidate, existing} \cap {JsonNull, JsonArray} = {} THEN candidate \cup existing ELSE JsonArray

\* SELECT true FROM entities, and the row the UPDATE that may follow begins with.
Exists(c) ==
  /\ calls[c].pc = "exists"
  /\ Continue(c, [calls[c] EXCEPT !.pc = "upsert", !.seen = InsertedBy(View(c), calls[c].id)])

\* upsertEntitySnapshot: INSERT of an entity not seen, else UPDATE of the row seen.
Upsert(c) ==
  LET k    == [calls[c] EXCEPT !.todo = calls[c].op.keys,
                                !.pc = IF calls[c].op.keys = {} THEN "sync" ELSE "keys"]
      T    == View(c)
      lock == [NoLocks EXCEPT !.write = {k.id}]
      row  == {r \in T.entities : r.id = k.id /\ r.by = k.seen}
      new  == [id |-> k.id, props |-> Stored(k.op.props), by |-> k.tx]
  IN /\ calls[c].pc = "upsert"
     /\ IF k.seen = 0
        THEN IF k.id \in Live(T) THEN Free(c, lock) /\ Rollback(c, "failed")
             ELSE Write(c, [T EXCEPT !.entities = @ \cup {new}], lock, k)
        ELSE IF row = {} THEN Free(c, lock) /\ Continue(c, k)
        ELSE Write(c, [T EXCEPT !.entities = (@ \ row) \cup
                         {[r EXCEPT !.props = Concat(Stored(k.op.props), @)] : r \in row}], lock, k)

\* INSERT ... ON CONFLICT DO NOTHING of one key: a key that is taken is left where it is.
InsertKey(c, x) ==
  LET k    == [calls[c] EXCEPT !.todo = @ \ {x},
                                !.pc = IF calls[c].todo = {x} THEN "sync" ELSE "keys"]
      T    == View(c)
      lock == [NoLocks EXCEPT !.keys = {x}, !.refer = {k.id}]
  IN /\ calls[c].pc = "keys" /\ x \in calls[c].todo
     /\ IF \E y \in T.ext : y.key = x
        THEN Free(c, [NoLocks EXCEPT !.keys = {x}]) /\ Continue(c, k)
        ELSE IF k.id \in Live(T)
             THEN Write(c, [T EXCEPT !.ext = @ \cup {[entity |-> k.id, key |-> x]}], lock, k)
             ELSE Free(c, lock) /\ Rollback(c, "failed")

\* syncEntitySearchText: the text is left out, the row it is written to is locked.
Sync(c) ==
  LET T == View(c)
  IN /\ calls[c].pc = "sync"
     /\ Write(c, T, [NoLocks EXCEPT !.write = {calls[c].id} \cap Live(T)], [calls[c] EXCEPT !.pc = "fact"])

----------------------------------------------------------------------------
(* mergeEntitiesTx of the oldest of drops, of MergeEntities or of a collision. *)

Dropped(c) == CHOOSE i \in calls[c].drops : \A j \in calls[c].drops : i <= j

\* MergeEntities looks at both first; into itself, only the fact is written.
Check(c) ==
  LET op == calls[c].op
  IN /\ calls[c].pc = "check"
     /\ IF {op.keep, op.drop} \subseteq Live(db)
        THEN Continue(c, [calls[c] EXCEPT !.pc = IF op.keep = op.drop THEN "mergefact" ELSE "move",
                                          !.id = op.keep, !.drops = {op.drop}])
        ELSE Rollback(c, "notfound")

\* The keys go over: none is keep's already, for a key is unique in its space.
Move(c) ==
  LET T    == View(c)
      k    == [calls[c] EXCEPT !.pc = "repoint"]
      kids == {x \in T.ext : x.entity = Dropped(c)}
      lock == [NoLocks EXCEPT !.keys = {x.key : x \in kids}, !.refer = {k.id}]
  IN /\ calls[c].pc = "move"
     /\ IF kids = {} THEN Continue(c, k)
        ELSE IF k.id \in Live(T)
             THEN Write(c, [T EXCEPT !.ext = (@ \ kids) \cup {[x EXCEPT !.entity = k.id] : x \in kids}], lock, k)
             ELSE Free(c, lock) /\ Rollback(c, "failed")

\* The edges go over; then the delete of drop begins.
Repoint(c) ==
  LET T    == View(c)
      d    == Dropped(c)
      k    == [calls[c] EXCEPT !.pc = "drop", !.seen = InsertedBy(T, d)]
      kids == ReferTo(T, d).edges
      to(i) == IF i = d THEN k.id ELSE i
      lock == [NoLocks EXCEPT !.edges = Ids(kids), !.refer = {k.id}]
  IN /\ calls[c].pc = "repoint"
     /\ IF kids = {} THEN Continue(c, k)
        ELSE IF k.id \in Live(T)
             THEN Write(c, [T EXCEPT !.edges = (@ \ kids) \cup
                              {[e EXCEPT !.from = to(@), !.to = to(@)] : e \in kids}], lock, k)
             ELSE Free(c, lock) /\ Rollback(c, "failed")

\* drop is deleted and keep touched.
Drop(c) ==
  /\ calls[c].pc = "drop"
  /\ DeleteEntity(c, Dropped(c), [calls[c] EXCEPT !.pc = "mergefact"],
                  [NoLocks EXCEPT !.write = {calls[c].id} \cap Live(View(c))])

----------------------------------------------------------------------------
(* The other writes. *)

Retract(c) ==
  /\ calls[c].pc = "delete"
  /\ DeleteEntity(c, calls[c].op.id, [calls[c] EXCEPT !.pc = "fact", !.id = calls[c].op.id], NoLocks)

\* AppendEdgeFact, under the foreign keys of its ends.
Link(c) ==
  LET ends == {calls[c].op.from, calls[c].op.to}
      used == {f.subject : f \in log} \cup {calls[o].id : o \in Calls}
  IN /\ calls[c].pc = "link"
     /\ \E i \in EdgeIds \ used :
          LET k    == [calls[c] EXCEPT !.pc = "fact", !.id = i]
              edge == [id |-> i, from |-> k.op.from, to |-> k.op.to]
              lock == [NoLocks EXCEPT !.edges = {i}, !.refer = ends]
          IN IF ends \subseteq Live(View(c))
             THEN Write(c, [View(c) EXCEPT !.edges = @ \cup {edge}], lock, k)
             ELSE Free(c, lock) /\ Rollback(c, "failed")

Unlink(c) ==
  LET k == [calls[c] EXCEPT !.pc = "fact", !.id = calls[c].op.id]
  IN /\ calls[c].pc = "unlink"
     /\ Write(c, [View(c) EXCEPT !.edges = {e \in @ : e.id # k.id}], [NoLocks EXCEPT !.edges = {k.id}], k)

----------------------------------------------------------------------------
(* insertFact and the end of a transaction. *)

KeyOf(c) ==
  LET k == calls[c]
  IN CASE k.pc = "mergefact" /\ k.op.kind = "merge" -> <<"merge", k.op.keep, k.op.drop>>
       [] k.pc = "mergefact" /\ k.op.kind = "assert" -> <<"mergeof", k.op.dedupe, Dropped(c)>>
       [] k.pc = "fact" /\ k.op.kind \in {"assert", "edge"} -> <<"caller", k.op.dedupe>>
       [] OTHER -> <<k.op.kind, k.op.id>>

\* UNIQUE(writer, dedupe_key): waits for a transaction that inserts the same, and is
\* refused if it committed: ErrDuplicateFact, and nothing with it.
InsertFact(c) ==
  LET k    == calls[c]
      same(F) == \E f \in F : f.writer = k.op.writer /\ f.key = KeyOf(c)
      fact == [seq |-> seq + 1, kind |-> IF k.pc = "mergefact" THEN "merge" ELSE k.op.kind,
               writer |-> k.op.writer, key |-> KeyOf(c),
               subject |-> IF k.pc = "mergefact" THEN Dropped(c) ELSE k.id,
               keep |-> k.id,
               keys |-> IF k.op.kind = "assert" THEN k.op.keys ELSE {},
               props |-> IF k.op.kind = "assert" THEN Logged(k.op.props) ELSE {},
               ends |-> IF k.op.kind = "edge" THEN <<k.op.from, k.op.to>> ELSE <<>>]
      rest == [k EXCEPT !.facts = @ \cup {fact}, !.drops = IF k.pc = "mergefact" THEN @ \ {Dropped(c)} ELSE @]
  IN /\ k.pc \in {"fact", "mergefact"}
     /\ \A o \in Calls \ {c} : ~ same(calls[o].facts)
     /\ seq' = seq + 1
     /\ calls' = [calls EXCEPT ![c] =
          IF same(log) THEN [Idle EXCEPT !.pc = "nothing", !.op = k.op]
          ELSE [rest EXCEPT !.pc =
                  CASE k.pc = "mergefact" /\ k.op.kind = "assert" -> IF rest.drops = {} THEN "exists" ELSE "move"
                    [] k.pc = "fact" /\ k.op.kind \in {"assert", "edge"} -> "answer"
                    [] OTHER -> "commit"]]
     /\ UNCHANGED <<db, log, begun, rebuilt>>

\* The entity or edge is read back for the answer.
Answer(c) ==
  LET T == View(c)
  IN /\ calls[c].pc = "answer"
     /\ IF calls[c].id \in Live(T) \cup Ids(T.edges)
        THEN Continue(c, [calls[c] EXCEPT !.pc = "commit"])
        ELSE Rollback(c, "notfound")

Commit(c) ==
  /\ calls[c].pc = "commit"
  /\ db' = View(c) /\ log' = log \cup calls[c].facts
  /\ calls' = [calls EXCEPT ![c] = [Idle EXCEPT !.pc = "done"]]
  /\ UNCHANGED <<seq, begun, rebuilt>>

Abort(c) == calls[c].pc \notin Ended /\ Rollback(c, "failed")

----------------------------------------------------------------------------
(* RebuildProjection. *)

\* upsertEntitySnapshot of an asserted entity, by transaction tx.  Props logged as null
\* are the four letters null, not unset ones.
FoldRow(T, f, tx) ==
  LET old == {r \in T.entities : r.id = f.subject}
  IN (T.entities \ old) \cup
     IF old = {} THEN {[id |-> f.subject, props |-> Stored(f.props), by |-> tx]}
     ELSE {[r EXCEPT !.props = Concat(Stored(f.props), @)] : r \in old}

\* DEFECT: a key goes to whoever asserts it last.
FoldKeysTaken(T, f) ==
  {x \in T.ext : x.key \notin f.keys} \cup {[entity |-> f.subject, key |-> x] : x \in f.keys}

FoldKeys(T, f) ==
  LET free == {x \in f.keys : ~ \E y \in T.ext : y.key = x}
  IN T.ext \cup {[entity |-> f.subject, key |-> x] : x \in free}

\* One fact applied to T by transaction tx.
FoldFact(T, f, tx) ==
  LET kids   == ReferTo(T, f.subject)
      to(i)  == IF i = f.subject THEN f.keep ELSE i
      others == {r \in T.entities : r.id # f.subject}
  IN CASE f.kind = "assert" -> [T EXCEPT !.entities = FoldRow(T, f, tx), !.ext = FoldKeys(T, f)]
       [] f.kind = "edge" ->
            IF f.subject \in Ids(T.edges) THEN T
            ELSE [T EXCEPT !.edges = @ \cup {[id |-> f.subject, from |-> f.ends[1], to |-> f.ends[2]]}]
       [] f.kind = "unlink" -> [T EXCEPT !.edges = {e \in @ : e.id # f.subject}]
       [] f.kind = "retract" ->
            [entities |-> others, ext |-> T.ext \ kids.ext, edges |-> T.edges \ kids.edges]
       [] f.kind = "merge" /\ f.keep = f.subject -> T
       [] OTHER ->
            [entities |-> others,
             ext |-> (T.ext \ kids.ext) \cup {[x EXCEPT !.entity = f.keep] : x \in kids.ext},
             edges |-> (T.edges \ kids.edges) \cup
                         {[e EXCEPT !.from = to(@), !.to = to(@)] : e \in kids.edges}]

\* The foreign keys of T.
Refers(T) ==
  /\ \A x \in T.ext : x.entity \in Live(T)
  /\ \A e \in T.edges : {e.from, e.to} \subseteq Live(T)

\* The facts of F applied to T in the order of seq, up to one that breaks a foreign key.
Fold(T, F, tx) ==
  LET Facts(n) == {f \in F : f.seq = n}
      R[n \in 0 .. seq] ==
        IF n = 0 THEN T
        ELSE IF Facts(n) = {} \/ ~ Refers(R[n - 1]) THEN R[n - 1]
        ELSE FoldFact(R[n - 1], CHOOSE f \in Facts(n) : TRUE, tx)
  IN R[seq]

\* Every table is emptied.
Clear(c) ==
  LET T == View(c)
  IN /\ calls[c].pc = "clear"
     /\ Write(c, Empty, [write |-> Live(T), gone |-> Live(T), refer |-> {},
                         keys |-> {x.key : x \in T.ext}, edges |-> Ids(T.edges)],
              [calls[c] EXCEPT !.pc = "read"])

\* DEFECT: the log is taken for one without gaps in seq.
ReadLogToGap(c) ==
  /\ calls[c].pc = "read"
  /\ Continue(c, [calls[c] EXCEPT !.pc = "fold",
       !.read = {f \in log : \A n \in 1 .. f.seq : \E g \in log : g.seq = n}])

ReadLog(c) ==
  /\ calls[c].pc = "read"
  /\ Continue(c, [calls[c] EXCEPT !.pc = "fold", !.read = log])

\* The statements of the fold, in one step: they wait as one.
FoldLog(c) ==
  LET old == View(c)
      T   == Fold(old, calls[c].read, calls[c].tx)
      change(A, B) == (A \ B) \cup (B \ A)
      ext == change(old.ext, T.ext)
      edges == change(old.edges, T.edges)
      lock == [write |-> Ids(change(old.entities, T.entities)), gone |-> Live(old) \ Live(T),
               refer |-> {x.entity : x \in ext} \cup UNION {{e.from, e.to} : e \in edges},
               keys |-> {x.key : x \in ext}, edges |-> Ids(edges)]
  IN /\ calls[c].pc = "fold"
     /\ IF Refers(T) THEN Write(c, T, lock, [calls[c] EXCEPT !.pc = "commit", !.read = {}])
        ELSE Free(c, lock) /\ Rollback(c, "failed")

----------------------------------------------------------------------------

Init == /\ db = Empty /\ log = {} /\ seq = 0 /\ begun = 0 /\ rebuilt = FALSE
        /\ calls = [c \in Calls |-> Idle]

Next ==
  \E c \in Calls :
    \/ \E op \in Inputs : Begin(c, op)
    \/ Prior(c) \/ Hits(c) \/ Exists(c) \/ Upsert(c)
    \/ \E x \in Keys : InsertKey(c, x)
    \/ Sync(c) \/ Answer(c)
    \/ Check(c) \/ Move(c) \/ Repoint(c) \/ Drop(c)
    \/ Retract(c) \/ Link(c) \/ Unlink(c)
    \/ InsertFact(c) \/ Commit(c) \/ Abort(c)
    \/ Clear(c) \/ ReadLog(c) \/ FoldLog(c)

Spec == Init /\ [][Next]_vars

----------------------------------------------------------------------------
(* Properties. *)

\* Rows refer to live entities, a key belongs to one, an id has one row and a writer uses
\* a dedupe key once, whatever transactions overlap (the constraints of 0001_init.sql).
PgTypeOK ==
  /\ db \in Tables /\ Refers(db)
  /\ \A x, y \in db.ext : x.key = y.key => x = y
  /\ \A r, q \in db.entities : r.id = q.id => r = q
  /\ \A e, f \in db.edges : e.id = f.id => e = f
  /\ \A f, g \in log : f.writer = g.writer /\ f.key = g.key => f = g

\* An assertion retried under its dedupe key is answered with the entity of the first try,
\* or refused with it, but never with a bare duplicate, also when the two overlap
\* (postgres/entities.go:61-81); unless the key is that of an edge.
RetryIsAnswered ==
  \A c \in Calls : calls[c].op.kind = "assert" /\ calls[c].pc = "nothing" =>
    \E f \in log : /\ f.kind = "edge" /\ f.writer = calls[c].op.writer
                   /\ f.key = <<"caller", calls[c].op.dedupe>>

\* What is in the log and was not taken back is in the tables, also after a rebuild that
\* ran while it was written (postgres.go RebuildProjection).
LoggedIsLive ==
  \A f \in log : f.kind = "assert" =>
    \/ f.subject \in Live(db)
    \/ \E g \in log : g.subject = f.subject /\ (g.kind = "retract" \/ (g.kind = "merge" /\ g.keep # g.subject))

\* The entities an assertion of which is logged with null for its props.
Unset(F) == {f.subject : f \in {g \in F : g.props = JsonNull}}

\* T without what tells who inserted a row, and without the props of the entities in S.
Plain(T, S) ==
  [T EXCEPT !.entities = {[r EXCEPT !.by = 0, !.props = IF r.id \in S THEN {} ELSE @] : r \in T.entities}]

\* As long as entities and edges are only asserted, the fold of the log gives the online
\* tables, in whatever order the overlapping transactions committed, but for the props of
\* an entity that was once asserted without any: they are an object online and null in the
\* fact, so the fold makes null or an array of them (postgres/entities.go:198-206, 224, 281).
FoldAgrees ==
  (\A f \in log : f.kind \in {"assert", "edge"}) /\ ~ rebuilt
    => Plain(Fold(Empty, log, 0), Unset(log)) = Plain(db, Unset(log))

\* Resolve before create: entities asserted with one key are one entity, as with the
\* single writer of SQLite (postgres/entities.go:23-26).
OneEntityPerKey ==
  \A f, g \in log : /\ f.kind = "assert" /\ g.kind = "assert" /\ f.keys \cap g.keys # {}
                    /\ {f.subject, g.subject} \subseteq Live(db)
                    => f.subject = g.subject

============================================================================
