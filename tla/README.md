# A TLA+ model of jumpdrive-index

jumpdrive-index keeps a knowledge graph: typed entities and edges with external
ids, props and embeddings. The durable truth is an append-only log of facts;
the tables that queries read are a projection folded from it, synchronously, by
the same transaction that appends. Writes resolve before they create: a
candidate is matched by external id and by vector similarity, and attaches to,
merges or creates a node.

The modules here model the parts of that program where the order of steps
matters, TLC checks them on small instances, and TLAPS proves the invariants
that matter most for every value of the constants. Paths below are relative to
`src/`; `sqlite/` stands for `internal/store/sqlite/`.

## Inventory

| Component | State | Operations | What is hard | What makes it correct |
|---|---|---|---|---|
| Domain types and resolve decision (`internal/domain`) | none | `Resolve`, `DeriveDedupeKey`, `RandomKeyNeeded` | precedence of keys over vectors, ties, bands | the decision names live nodes; equal things derive equal keys |
| SQLite store (`sqlite/entities.go`, `edges.go`, `sqlite.go`, `fts.go`) | facts; entities, external ids, labels, embeddings, edges, full-text rows | append entity, append edge, merge, retract (two kinds), rebuild | long sequences of merges and retractions over shared keys; two writes of each thing (the struct into the projection, its JSON into the log) | constraints hold, no key is lost, nothing gone returns, a rebuild gives the online tables back |
| SQLite proposals (`sqlite/proposals.go`) | proposals table | propose, list, decide | a decision is several statements without a common transaction | decided once, applied at most once, an approval is written |
| Filtered reads (`sqlite/search.go`, `neighbors.go`) | none | k-nearest, full-text, resolve by key, traversal | the access clause on nodes and edges at every hop; hits that go between a query and its loads | no answer reveals a node or edge the caller may not see |
| Postgres store (`internal/store/postgres`) | the same tables | the same, under READ COMMITTED with an advisory lock per (writer, key) | appends of different writers interleave; rebuild against append | the same promises as the SQLite store |
| JWKS verifier (`internal/access/jumpdrive/verifier.go`) | keys by kid, time of the last fetch and of the last attempt, two mutexes | `Verify` | many calls miss at once; answers and withdrawals in flight; outages | one attempt per interval, withdrawn keys stop verifying, every call returns |
| Authorize and its cache (`internal/access/jumpdrive/jumpdrive.go`) | decision cache with expiry and LRU order | `Authenticate` in three modes, `CanWrite`, `CanApprove` | expiry from a clock read after the answer, eviction, concurrent misses | a withdrawn grant is gone `max-age` and one request later; map and list agree; dual mode never grants more than both |
| Starchart access model (`internal/access/starchart`) | static table of tokens | `Authorize` | none over time | visibility rule |
| Service (`internal/service`) | none | reads, writes, `DecideProposal`, `authorizeLink` | a check and the write it guards are separate calls | no write without the permission of its space |
| Ingest (`internal/ingest`, `cmd/jumpdrive-index/ingest.go`) | none but the store's | one run: fetch, assert video, channel, works and clips, link them | stopping halfway and running again; runs that overlap; nodes others merge or retract meanwhile | a re-run finds what the first wrote, and what a run reports is in the graph |
| heyarr client, embedders, MCP and HTTP surfaces, pinned users, configuration | none beyond one request | decode, call, encode | partial answers | per-request |
| Conformance suite (`internal/store/conformance`) | tests | | | the intended behaviour of both stores |

**How they interact.** MCP and HTTP handlers call the service; the service asks
the access model (which verifies the credential against the JWKS cache, then
asks the control plane or its decision cache), compiles the answer to an access
filter and calls the store. `jumpdrive-index ingest` is a process of its own that
calls the same store without the service, and may call yt-dlp, a transcriber and
heyarr in between. The store's log is the only durable state; every other state above is in
memory. Requests run in goroutines of one process; the SQLite store has one
write connection and begins each write transaction `IMMEDIATE`, so its write
transactions are serial, while the statements of a decision on a proposal, the
sections of the verifier's locks and the network calls interleave. The Postgres
store has a pool, so there the statements of write transactions interleave too.

## Modules

| Module | Models | Extends / instances |
|---|---|---|
| `Store` | resolve, every write of the SQLite store, rebuild | |
| `MCStore` | inputs for TLC, three configurations | `Store` |
| `StoreProofs` | inductive invariants and theorems of `Store`, used by all that write to it | `Store` |
| `Governed` | what a proposal promises, abstractly | |
| `Proposals` | the gated writes of the service and every statement of `DecideProposal`, over the whole store | `Store`, instance of `Governed` |
| `MCProposals` | inputs for TLC, two configurations | `Proposals` |
| `ProposalsProofs` | type invariant and refinement of `Governed` | `Proposals`, `StoreProofs` |
| `Verifier` | the JWKS cache, concurrent `Verify` calls, control plane, time | |
| `VerifierProofs` | lock, ordering and age invariants of `Verifier` | `Verifier` |
| `Access` | `Authenticate` in its three modes, the decision cache, control plane, time | |
| `MCAccess` | inputs for TLC | `Access` |
| `AccessProofs` | inductive invariant and theorems of `Access` | `Access` |
| `Traversal` | `Store.Neighbors` and `Service.Link` under the access filter, while others write | |
| `Reads` | `Service.Search` with its fusion, `ResolveByExternalID`, over the same graph and writes | `Traversal` |
| `MCTraversal` | inputs for TLC | `Reads` |
| `TraversalProofs` | inductive invariant and theorems of `Traversal` | `Traversal` |
| `ReadsProofs` | inductive invariant and theorems of `Reads` | `Reads`, `TraversalProofs` |
| `PgStore` | the writes and the rebuild of the Postgres store, split at their statements | |
| `MCPgStore` | inputs for TLC, two configurations | `PgStore` |
| `PgStoreProofs` | locks and constraints, what a retry is answered, what the tables keep of the log | `PgStore` |
| `Ingest` | runs of an ingest over the whole store, beside other writers | `Store` |
| `MCIngest` | inputs for TLC, two configurations | `Ingest` |
| `IngestProofs` | inductive invariant and theorems of `Ingest` | `Ingest`, `StoreProofs` |

### Store

`facts` is the facts table, `proj` the projection as a record of tables (each a
set of rows), `rebuilt` a history variable: the projection that folding the log
would give. Each operation is one action because each is one transaction on the
single write connection:

| Action | Code |
|---|---|
| `AppendEntityFact` = duplicate check, `Resolve`, then `InsertNew`, `InsertFlagged`, `Attach` or `MergeThenAttach` | `sqlite/entities.go` `AppendEntityFact`, `domain/resolve.go` |
| `AppendEdgeFact` | `sqlite/edges.go` |
| `MergeEntities`, `RetractEntity`, `RetractEdge` | `sqlite/entities.go`, `edges.go` |
| `RebuildProjection` | `sqlite/sqlite.go` |

`UpsertEntitySnapshot`, `MergeEntitiesTx`, `DeleteEntity` and the rest of the
projection operators are functions from tables to tables, each for a Go
function of the same name; online they get the candidate as the caller passed
it, in the fold they get `Marshal` of it, which is what the log holds. That the
two yield the same tables is a property, not an assumption. A refused call
(duplicate, unknown id, constraint) changes nothing, so it disables the action.

Data is abstracted to what the properties tell apart: a name, a key, a vector
is a model value; an embedding is one slot per node; similarity is a function
of two vectors with values on either side of the two thresholds. `JsonPatch` is
the merge patch of RFC 7396 that SQLite's `json_patch` computes, over objects whose
members are values, null, or objects of values and null (`Objects`: the bound on
nesting): a null in the patch removes the member, an object is merged into the
object that is there. The full-text row holds the strings at the top level, as
`extractSearchText` takes them. The props of edges are not modelled (see
Findings), so an edge is its id, ends, predicate and space. Labels follow the same
statements as embeddings and no code writes them. Entity ids are numbered in the order `(created_at, id)`,
which is not the order of commits: a new id is any unused one.

### Proposals and Governed

`status`, `subject` are columns of the proposals table; `calls` holds where each
`DecideProposal` stands; `writes` counts the completed replays of each proposal
(history). A decision is split at each statement (`Authorize`, `ReadStatus`,
`Reject` or `Claim`, `Replay`, `Record`), `Fail` may end it at any of them, and
`Replay` is the real append of `Store`, refused or answered with a duplicate
exactly when `Store` says so. That includes the duplicate of a fact of the other
kind: keys are unique per writer whatever the kind, so the append fails at its
`INSERT` with `ErrDuplicateFact` and an empty result, which the decision takes for
an applied intent (`TakenByOtherKind`). Direct writes and retractions interleave.
`Governed` knows two facts per proposal, its status and how often it was
applied; `Proposals` implements it with the two variables of the same names as
the refinement mapping (`Promise`).

The rights of a caller are constants (`CanWrite`, `CanRead`, `CanApprove`):
`Access` says what they are worth. `CreateEntity`, `Link`, `ProposeEntity` and
`ProposeLink` are the service's operations with their gates. `authorizeLink`
reads the two ends before the write, in statements of their own, so a link is
let through whenever each end was readable at some time before (`SeenBy`);
whether both are still there is for `AppendEdgeFact` to say, now or, for a
proposal, at the replay. `AutoEmbed` is the embedder, which may fail. Retractions
have no operation in the service; they stand for other users of the store.

### Ingest

`runs` is where each run stands: the step of `Plan` it comes to next, the steps
it skips because there is no channel, subject or segment or because heyarr knows
no work, and what it has been answered (`ids`, `loaded`). Each step is one call of
the store and so one transaction of it:

| Action | Code in `internal/ingest/` |
|---|---|
| `Fetch` | `capability.go` `Fetch`, `transcribe`: what is found, with or without a transcript |
| `Upsert` | `upsert`, `upsertClip`: a new assertion, or the node a duplicate is answered with |
| `Reconcile` | `resolveHeyarrWork`; a miss or an error skips the subject |
| `Load`, `AttachTMDB` | the two calls of `attachTMDB` |
| `LinkParts` | `link` |
| `OthersWrite` | any other writer's assertion, edge, merge or retraction |

A run has no state outside the process, so a crash is a run that takes no further
step, and a re-run is another run with the same request. The anchors are
constants; the work of the video and that of its segment have one anchor
(`"work"`, `"clipWork"`), as one tmdb id leads to one work. `OwnNode` is what
`ownerFilter` lets through for certain: a node first asserted by an ingest into
the request's space; another node may be readable or not, which is a choice.

### Verifier

`keys`, `sinceFetch`, `sinceTry` are the fields under `mu`; `fetchMu` is the
holder of the other mutex; `calls` is where each `Verify` stands. A call is
split at every section of `mu`, at `fetchMu`, and at the request to the control
plane (`Lookup`, `Acquire`, `CheckRecent`, `MarkTried`, `Answer` or
`FetchFails`, `Install`, `Again`, `Judge`). Times are ages capped at the limit
they are compared with; a zero time is as old as can be. Header, signature and
claims are one verdict. `published` and `up` are the control plane, which
changes at will. `Tick` lets time pass, except past the timeout of a request in
flight; the time between an answer and its storing counts towards that
timeout. `absent`, `gone` and `overdue` are history variables for the
properties.

### Access

`items` and `ll` are the two fields of `decisionCache`, the list as a sequence
of entries, front first; `mode` is `Model.mode`; `calls` is where each
`Authenticate` stands. `verdict` is the control plane, whose decision on a
credential changes at will. A call is split where another can get in between:

| Action | Code in `internal/access/jumpdrive/jumpdrive.go` |
|---|---|
| `Start`, `Verify` | `Authenticate`, `authenticateJWKS`; the verifier's verdict is free here, `Verifier` says what it is worth |
| `ReadClock` | `m.now()` before the lock of the cache (line 300) |
| `Get` = `Hit`, `Expire` or a miss | `get`, one section of `mu` |
| `Answer`, `CallFails` | the request and every way it can end |
| `ComputeUntil` | `cacheUntil`, from a clock read after the answer |
| `Put` = `Store` | `put`, one section of `mu` |

`Answered` is the end of a call, with the intersection of `authenticateDual`.
The read, write and approve sets are one set of grants (they are intersected
alike), and not being `Restricted` is one more grant. The cache is keyed by the
credential itself: its hash is taken to be injective. `lost` remembers since
when a credential lacks a grant and `used` in which order keys were used; both
are history.

### Traversal

`nodes` and `edges` are the two tables a traversal reads, `caller` the decision
both calls run under, `call` and `link` where the two calls stand. Neither call
holds a transaction, so each is split at its statements:

| Action | Code |
|---|---|
| `Begin` | the start read under the filter, `sqlite/neighbors.go:32` |
| `Expand` = `IncidentVisible`, `Advance` | one query of the edges of one frontier node, joined with the far endpoint |
| `Row` = `Take`, `Advance` | one row: skipped, an edge to a visited node, or a new node loaded by id without the filter |
| `LinkBegin`, `LinkCheck` (twice), `LinkAppend` | `Service.Link`, `authorizeLink`, `AppendEdgeFact` |
| `AssertEntity`, `AssertEdge`, `RetractEdge`, `RetractEntity`, `Merge` | the writes of `Store`, as far as these tables go |

The columns the filter looks at are constants of an id (`NodeGuard`,
`EdgeGuard`), because no statement updates them: an attach patches props only,
and a merge keeps the survivor's. `AccessClause` is the SQL clause of the filter
`FilterFor` builds; `CanRead`, the rule the access models state for a single row
(`jumpdrive.go`), is only used in properties. Visited entities are exactly those
returned, so there is no separate set. Loading a node's external ids, labels
and embeddings after it is left out. Edge ids of `Link` are fresh: an edge asserted
before is answered with the old row and writes nothing, which `Store` has.
`still` (history) says that nothing was written since the traversal began.

### Reads

`search` is a call of `Service.Search` or of `ResolveByExternalID`; graph, writes
and clause are those of `Traversal`.

| Action | Code |
|---|---|
| `SearchBegin` | the query of `FullTextSearch`: nothing for a blank text, an error for a text that is no FTS5 expression, or hits under the clause |
| `LoadHit` | one hit loaded by id, in either search; one that is gone fails the call |
| `Embed` | the text is embedded and `SemanticSearch` queries, or, without an embedder or when it fails, the full-text hits are the answer |
| `Fuse` = `Fused`, `Score` | `fuseRRF`, with scores as exact fractions; ties go either way |
| `ResolveBegin`, `LoadChildren` | `ResolveByExternalID`: the rows in one query, then the children of one entity at a time |

Which entities match a text, a vector or a key is data: `Hits` is any list
without repetition of entities the clause lets through, as long as the limit
allows. `bare` are the entities answered without children because their row went
after it was read. A service that has no store with a search at all
(`ErrNotImplemented`) is left out; both stores have both searches.

### PgStore

`Store` says what each write does as a whole; `PgStore` says what happens when
writes of the Postgres adapter overlap. `db` and `log` hold what is committed,
`seq` the sequence of `facts.seq`, which no rollback takes back, and `calls` where each goroutine's
transaction stands: the rows it has added and deleted (`add`, `del`), the locks
it holds, the facts it will commit.

| Action | Code in `internal/store/postgres/` |
|---|---|
| `Begin`, `Prior` | transaction, `pg_advisory_xact_lock`, lookup of an earlier assertion (`entities.go:55-86`, `edges.go:36-56`) |
| `Hits` | `externalHitsTx`, `domain.Resolve` |
| `Exists`, `Upsert`, `InsertKey`, `Sync` | the statements of `upsertEntitySnapshot` |
| `Check`, `Move`, `Repoint`, `Drop` | `MergeEntities` and the statements of `mergeEntitiesTx`, also of a collision |
| `Link`, `Unlink`, `Retract` | `AppendEdgeFact`, `RetractEdge`, `RetractEntity` |
| `InsertFact`, `Answer`, `Commit` | `insertFact` (`UNIQUE(writer, dedupe_key)`), the read of the answer, commit |
| `Clear`, `ReadLog`, `FoldLog` | `RebuildProjection` |
| `Abort` | any transaction may be rolled back at any statement |

Of PostgreSQL (external) the model takes: a statement sees what is committed and
what its own transaction wrote (`View`); it waits for the transactions whose
locks it needs (`Free`: rows, rows it refers to, keys of unique indexes); an
`UPDATE` or `DELETE` of an entity that waited finds only the row it saw when it
began, which is why a row carries the transaction `by` that inserted it. Of keys
and edges a statement finds what is there when it goes on. The statements that
clear the tables are one step, as are those of the fold. Callers know ids from the log.
There is one space, and external keys decide the resolve. Props are objects, of
which only the names of the members are kept, or what else the column and the
fact can hold: props that were never set are `{}` in the row (`Stored`) and null in
the fact (`Logged`), and `||` of anything but two objects is an array (`Concat`).
Edges have no props here; embeddings and labels follow the statements of keys.

## Runs

| Run | Asks | Shows |
|---|---|---|
| `resolve` | one space, two writers, all bands, merges of pairs and by collision, every retraction | types, schema constraints online and in the fold, `rebuilt` is the fold of the log, a rebuild returns entities, keys, embeddings and edges (id, ends, predicate, space), nothing gone returns, every key follows its node |
| `nilprops` (violation) | a node asserted without props | see Findings |
| `twospaces` (violation) | one writer asserts one thing in two spaces | see Findings |
| `proposals` | three decisions of an entity and of the edge that needs it, two of which may approve | decided once, applied at most once, what an approval that returned recorded is true: the log has the intent on that subject, or no subject is recorded and the proposer had used the key for a fact of the other kind |
| `unwritten` (violation) | the same | see Findings |
| `ingest` | two runs for one video beside writers that assert the same things in two spaces, under all three policies, merge, retract and link | a part of a video is one node however runs stop and overlap, a run fails only on what was taken from it, a finished run's edges and keys are in the graph; and over all these writes: a key stays in the space of its node, full-text rows match the props, no value in the props is changed or lost, also over a rebuild |
| `reingest` (violation) | the same, where others know the subject by its tmdb key | see Findings |
| `verifier` | two calls, one key, an endpoint that comes and goes, fair scheduling | types, an older answer never revives a key, a withdrawn key stops verifying, one attempt per interval, every call returns, and once the control plane holds still and answers, the cache agrees with it |
| `access` | the three modes, three credentials, a cache of two, a grant withdrawn and regained, a credential refused or of someone else | types and capacity, a withdrawn grant is gone `max-age` and one request later whatever answers overtook each other, dual mode grants nothing the credential lacks and nothing the control plane lacks or has long withdrawn, where each side has grants the other has not, map and list agree, no rejection is cached, eviction by use |
| `traversal` | every graph over four nodes and four edges with mixed visibility, three callers, four queries, two writes of others | types and foreign keys, nothing hidden is returned, nothing hidden bridges, an undisturbed traversal leaves nothing out unless it returns as many entities as its limit, a link's ends are readable; and for a caller that searches or resolves: what is answered may be read, is whole unless something was written meanwhile, and is fused by rank |
| `pgstore` | two overlapping transactions out of eight calls (three assertions that share keys, a link, a merge, a retraction of each kind, a rebuild), four calls in all | constraints hold, a retried assertion gets its entity, a rebuild loses nothing that is logged, the fold of the log gives the online tables, but for the props of a node that was once asserted without any (see Findings) |
| `pgtwins` (violation) | the same | see Findings |

**Bounds.** `MaxFacts`: no write starts on a log of that length (a
merge-then-attach may pass it by two). Five facts are enough for create twice,
merge or collide, retract and re-assert; three entities are what a collision of
two nodes plus a bystander needs, two keys what a collision needs, two edges a
flagged duplicate next to an asserted edge. Two writers (symmetric) separate
"same writer" from "another writer" in the duplicate check. Violation runs need
two or three facts. In `resolve` the vectors are three points on a line so that
one pair attaches, one is flagged and one is unrelated. For proposals, three
facts are one direct write, one replay and one retraction or duplicate; two
calls on the same proposal race and a third decides another; the proposer passes one
dedupe key with the entity, the edge and the same write made directly, so each may
come second to a fact of the other kind; one direct candidate
brings its vector, the other is embedded or, when the embedder fails, is not. For
ingest, two runs stop, overlap or follow one another, each over one of two shapes of
video: transcribed, with a channel and a subject, or with nothing but a segment about the subject;
others write up to four facts before any run (`MaxAlone`: assert, assert, merge or
retract, assert again) and one beside a run (`MaxBeside`); `MaxFacts` is above what
both can write; one candidate of the others brings members that are null, at the top and
inside an object, and others bring the same members with values, so that patches meet nulls and merge
objects. `IdsInOrder` bounds the ids: edge ids, which nothing compares, come
in the order of the facts, which loses nothing; node ids, which decide who is the
older, come in that order for what ingest writes, while a node of
others is the oldest, the second or the youngest of all (`OthersNodes`), whenever
it is written. For the verifier,
one key and two calls are enough for one to hold the lock while the other waits or reads
the cache; `RefreshAfter` above `MinRefetch` and a fetch of one tick let a
withdrawal fall before, in and after a fetch, and a cooldown longer than a fetch
may delay a rotated key. Keys do not influence each other except through the
fetch they share, and the proofs cover any number. For the decision cache,
two calls miss together and store out of order; the cache is one smaller than
the number of credentials so that it evicts; `MaxTime`, where the clock stops,
leaves room for a withdrawal before, during and after a request and for the
whole bound (`MaxAge + Timeout`) to pass. The bound is tight: with
one tick less TLC finds a counterexample. The grants are read, write and approve; on
one credential each side of dual mode has one that the other lacks. `OneChange` lets the control plane
change its mind about one of the three credentials, which one depends on the mode: in
dual mode the one whose grants differ between the sides, and there the
credential that differs from it only in its expiry is not presented; in the other
modes the one that is refused or names someone else. For traversals, the four nodes form a
cycle through one private node and one private edge, so that a path of three
hops exists beside one of two, and a hidden bridge beside a readable one; two
writes of others can remove what a query returned and put something in its
place between any two statements. A search starts on every set of the four nodes,
without edges, which it does not read; a limit of two makes both queries and the
fusion cut, and the default limit never does. For Postgres, two transactions in flight are
what every race of the code is between; four calls are enough to make two entities,
merge or retract one and overlap that with a third write or a rebuild; three
ids leave one for the second of two twins after a merge; the two keys make an
assertion collide with two entities; one of the assertions leaves its props unset.

Deadlock is checked in the `Store`, `Verifier` and `Access` runs. The proposals runs
switch it off: when every call has returned and the log is full nothing is left
to do. So do the ingest runs, where every run may have ended, the traversal run, where both calls may have ended, and the Postgres
runs, where all calls may have been made.

**Limits of single runs.** `KeysFollowNode` is checked in one space and without
`force_new`, whose upsert leaves a taken key where it is by design
(`INSERT OR IGNORE`). `KeysInSpaceOfNode` is checked in `ingest`, over two spaces, where others may
merge the first node of an ingest into its second, and without vectors: a
merge of nodes in two spaces and a vector search, which looks in all of them, both cross
spaces by the code. These limits are hazards in `PROJECT.json`; the theorems have them as
hypotheses (`Unforced`, `NodesInOneSpace`, `MergedInSpace`), no wider than the code asks.

**Fairness.** `Store`, `Proposals`, `Ingest`, `Access`, `Traversal`, `Reads` and `PgStore` assume
none: they state safety only, and a stopped process is a legal behaviour. In `Access` and `Verifier`,
that a request in flight ends within its timeout is a guard of `Tick`; the step
from an answer to the clock read after it counts towards that timeout. `Verifier` assumes weak fairness of
each call's own steps (the Go scheduler runs a runnable goroutine), strong
fairness of taking `fetchMu` (a Go mutex hands over in order once a waiter has
waited a millisecond, so a waiter is not overtaken for ever) and weak fairness
of time. Nothing is assumed of callers or of the control plane;
`CacheCatchesUp` states what it needs of them as its hypothesis.

Operators marked `DEFECT` are plausible bugs of the definition they precede (a
dropped cascade, an unchecked row count, a lock left held). No specification
uses them: each is the mutant that shows the property named for it in
`PROJECT.json` can fail.

## Findings

- `nilprops`: a node asserted without props has `{}` online and `null` in its
  fact (`json.Marshal` of a nil `RawMessage`). A rebuild inserts `null`, and a
  later attach patches onto `null`: `json_patch(candidate, null)` is `null`, so
  props that were visible online are gone after a rebuild, against "the two
  cannot diverge" (`sqlite.go:176-180`).
- `twospaces`: derived dedupe keys do not contain the space, so a second
  assertion of the same external id by the same writer in another space is
  answered with the node of the first, against `0004_per_space_external_ids.sql:5-6`.
- `unwritten`: the claim of an approval commits before the replay; a refused
  replay or a stop in between leaves the proposal promoted and unwritten,
  against `proposals.go:16-18`. There is a second way, without any failure: if the
  proposer had used the proposal's dedupe key for a fact of the other kind, the append
  is refused by `UNIQUE(writer, dedupe_key)` with `ErrDuplicateFact` and an empty
  result (`entities.go:107`, `275-276`, `edges.go:65-66`), `DecideProposal` ignores that error
  (`proposals.go:88-102`), records no subject and returns an approval.
  `ApprovalNamesWhatItWrote` says of approvals that return that this is all that
  can go wrong with them.
- `pgtwins`: the advisory lock of the Postgres store is taken on writer and
  dedupe key. Two writers that assert the same new external id at once both
  find no hit and both insert; the second `INSERT` of the key waits and then does
  nothing. Two live entities were asserted with one key, and a later assertion
  finds only the one that holds it, against "serialises the
  resolve→append→project window against concurrent writers"
  (`postgres/entities.go:24-26`) and "the dedup decision and the write cannot
  race" (`store.go:35-37`).
- `reingest`: `attachTMDB` re-asserts the work with the tmdb key added and does
  not look at which node that resolved onto (`ingest.go:331`). If another writer
  had asserted the tmdb key on an older node, the assertion merges the work into
  that node, and the run goes on with the id it has just merged away
  (`ingest.go:265-274`): its `about` edge is refused. Every later run fails earlier,
  because the work's own assertion is answered with a node that is gone. Against "so
  a future tmdb-based assertion dedups onto it" (`ingest.go:252-253`) and "a re-ingest
  of the same video replays idempotently" (`ingest.go:50-51`).

Some disagreements have no run of their own.

- "limit caps the returned entities" (`neighbors.go:22`), yet a traversal looks at its
  limit only after it has added a neighbour (`neighbors.go:66-70`), and the start is there
  already: with a limit of 1 it returns two. `LimitIsBound` proves the bound the code does keep.
- Unset props are `{}` in the row and null in the fact in Postgres too
  (`postgres/entities.go:203-206`, `281`), and there the fold makes `null` of them, or an array
  once a later assertion is attached (`224`), although the two are to "fold identically"
  (`postgres/entities.go:199`). `FoldAgrees` excepts the props of the entities an assertion of
  which was logged with null, and nothing else.
- "existing values WIN on a key conflict" (`sqlite/entities.go:213-214`), but a member whose
  value is null goes with the next `json_patch`, and so does the one the candidate brings for it. Postgres
  keeps it: `||` knows no null. `PropsOnlyGrow` speaks of values, of which null is none.
- The props of an edge that were never set are NULL online (`sqlite/edges.go:82-85`), and after a rebuild
  the text `null`, as its fact has it. No query looks at them; they are not modelled.
- The NOTE at the head of `service/service.go` (lines 8-11) calls the resolve global. By external id
  it is scoped to the space of the write since migration 0004 (`sqlite/entities.go:450-453`); what is still
  global is the vector search (see the hazards).

Some smaller things a reader should know. A rejection overtaken by an approval
changes no row and returns no error (`Reject`). A hit that goes between the
query and its load fails a search as a whole, while a resolve answers such an
entity without its children (`LoadHit`, `LoadChildren`). A video first ingested
without a transcript keeps none: a later run that has one is answered with the
first assertion and stores nothing, yet reports it as transcribed
(`ingest.go:167`). Channels that have a name and no id are anchored on one empty
value and so are one node (`ingest.go:182`, where the models have distinct
anchors).

## Proofs

All theorems hold for any sets of spaces, writers, keys, entities, calls and for
any `MaxFacts`. Hypotheses of single theorems are named below; besides these they
assume only the named assumptions of the modules
(`StoreAssumption`, `ProposalsAssumption`, `VerifierAssumption`,
`IntervalAssumption`, `AccessAssumption`, `TraversalAssumption`, `ReadsAssumption`,
`PgStoreAssumption`, `IngestAssumption`), which TLC evaluates in every run. Each
property of a passing run is stated by a theorem, except the two liveness
properties of `Verifier`.

**Store.** `IInv` is the conjunction: the log is typed and finite, `proj` and
`rebuilt` are typed tables that satisfy the references and the uniqueness
constraints, their cores agree, every live id was asserted by some fact, and no
id with a tombstone is live. It is needed as a whole: the references of the
rebuilt tables after an attach follow from the agreement with the online ones,
on which the target was chosen; that an inserted id is not gone follows from
"live ids and tombstoned ids are known to the log"; that `UPDATE`s of a merge
collide with nothing follows from the uniqueness before it. One lemma per
projection operator (what it preserves and what it does to the core and the
live ids), one per action, then `TypeCorrect`, `SchemaNeverViolated`,
`RebuildEqualsOnline` and `NoRevival`. `SearchFollowsProps` rests on `TextInv`: in both
projections a node has one row of props and of the full-text rows exactly the one
that indexes it. A fold leaves text rows of retracted nodes behind, so the
invariant is stated from the props, and a later upsert of any id
deletes before it inserts.

`RebuiltIsFoldEver` says that `rebuilt` is what `RebuildProjection` would fold from the
log, for a log of any length. The fold is a recursive function over the log; no
induction over it is needed, because `FoldInv` holds its value at every prefix and an
operation extends it at the end: `seq` has neither gap nor repetition, and the merged
facts of a resolve, folded one by one, give what the online write does at once.

`KeysFollowUnlessSpacesMeet` is "no key is ever lost" for any number of spaces, as long as
what was asserted of one node was asserted in one space (`NodesInOneSpace`) and no
caller forces a new node, whose upsert leaves a taken key where it is. In a store of one
space the former always holds (`KeysFollowInOneSpace`). Past the first merge of two spaces
the property is false by the code (see the hazards). The proof splits the operations
of the store into six kinds of `Step` (merge, assert, link, unlink, drop, none; a
resolve that merges and then attaches is two), and `Survivor`, a recursive choice
along the merges, is characterised as the one function that satisfies its own
equation (`SurvivorIs`): a new merge redirects everything that ended in the dropped node.
`KeyInv` says of that function that the keys of each assertion are held by the
survivor of its subject. `KeysStayInSpaceOfNode` has, without an embedder, whose search
is not scoped to a space, and with merges by hand within one space, that nodes stay
in one space and keys in the space of their node. `PropsOnlyGrowEver` needs that no
caller leaves the props unset (run `nilprops` shows why); then both projections have the
same rows of props, so that a rebuild takes nothing away either. Its lemmas on `JsonPatch`
say that a patch keeps its own `Values`, at the top and inside objects, whatever it is applied
to; a member that is null is no value, and is lost.

**Proposals.** `PInv` adds to `IInv` the types, "writes only where promoted",
and "at most one call replays a proposal, and only one not yet written"; with
it each step is a step of `Governed` or a stutter
(`DecidedOnceAppliedOnce`). `GovernedStore` carries the store's invariants over
to the governed write path. `ApprovalRecorded` needs one more invariant, `WInv`: a call
that is about to record a result holds one that is true (`Recorded`: the log has the intent on that
subject, or it is none and the key belongs to a fact of the other kind), no approval
is on its way to a rejection, and what an approval that returned recorded is true; facts only
join the log and keep their keys, so whatever happens between the replay and the recording, or
after both, takes nothing of it back. It holds for any `CallerKeys`.

**Ingest.** `IngestInv` adds to `IInv`: the runs are typed and no step is passed
without its node (`RunInv`); what the ingest writer asserts under one dedupe key is
one fact and so one node (`OneNode`), because the duplicate check and the insertion are one
transaction; and what a run holds for a part is what the log has for that part's
key (`Recorded`). The latter two are what makes two runs agree: neither knows of the
other, and both are answered from the same fact. `AppendAdds` says what an
assertion adds to the log, for any resolve decision. From it `IngestTyped`,
`ReplayFindsTheNode` and `IngestStore`, for any number of runs, other writers, keys
and ids.

Every step of a run or of another writer is an operation of the store
(`IngestOperates`), so what `StoreProofs` says of operations holds here too: `IngestRebuilds`.
`FailsOnlyOnLossEver` has no hypothesis. It rests on `StoryInv`: the steps of a block are
skipped together (`PathInv`), so a run has the ids it uses; what was asserted or linked is
live unless a fact merged it away or took it back (`Kept`); and the assertions and
edges of an ingest carry the keys of their part (`OwnKeyed`, `OwnLinked`). A step then
fails only on a fact that takes something of an ingest out, and such facts stay in the
log; or on a work that was another's when it was asserted, and `seq` only grows, so that
it remains so (`FailInv`).
`LoopClosedEver` asks that the runs are for one space in which no caller forces a node, and
speaks of the logs where each node is of one space. A run has asserted an edge for each link it is
past (`LinksMade`), the work it reads back has its anchor (`ReadBack`) and so was asserted
with both keys (`Tagged`); that the edges are still there, between the
survivors of their ends, is `Linked` of the store, and that the keys are, `KeyInv`.
`LoopClosedWhenMergedInSpace` says when logs are of that kind: without an embedder, as long
as merges by hand stay within a space.
`IngestAssumption` says among the rest that the work of the video and that of its segment have
one anchor, which the request's one tmdb id leads to both times.

**Verifier.** `Inv`: at most the holder of `fetchMu` is between lock and
unlock; whoever is about to try finds the interval elapsed; a fetched answer
lacks what was withdrawn before; what is `absent` is in no cache and no answer
in flight is older than the stored one. From it `VerifierTyped`, `RateLimited`
and `NoKeyComesBack`. `BoundInv` relates ages: a cached key that is gone was
fetched before it went, so the age of the cache is at least the time it is gone
less one fetch; with `MinRefetch <= RefreshAfter + FetchTimeout` (10 s against
5 min by default) it gives `WithdrawalBounded`.

**Access.** `AInv`: the list has one entry per key of the map and is ordered by
`used`; whatever an entry, or a call about to store it, grants is still held or
was lost no more than `Bound` before its expiry; an answer a call carries was
held when the request began or later; and a call's own clock readings are in
order. The middle part is what makes the bound inductive: an entry may come from
any call, with any number of others between its answer and its storing, and the
only thing they share is the age of what they say. The lemmas on lists
(`Removal`, `Push`, `Prefix`) say what removing, pushing and evicting keep;
`HitKeeps`, `ExpireKeeps` and `StoreKeeps` lift them to the cache, and one lemma
per action lifts those to `AInv`. From it `AccessTyped`, `CacheStaysInStep`,
`WithdrawalsReachEveryCall`, `DualIsIntersection` and `EvictionByUse`, for any
capacity, credentials, ages and number of calls.

**Traversal.** `TInv`: the foreign keys of the edges hold, and whatever a
traversal holds at any moment (returned entities and edges, rows still to look
at) passes the clause, as do the endpoints `Link` has read so far. The rows
still to look at are what makes it inductive: a far endpoint is loaded without
the filter, at a time when the graph may be another, and it may be returned only
because the row it came in passed the clause and the clause depends on nothing a
write changes. `ClauseIsCanRead` compares the clause with `CanRead`. From both
`TraversalTyped`, `NothingHiddenEver` and `LinksReadBothEnds`, for any graph,
decision, query and number of writes. `LimitIsBound` says how
many entities a traversal returns at most: its limit, or two when that is one; a traversal that goes
on is below its limit or has its start only (`CapInv`). `NothingBridgedEver` and `CompleteWhenStillEver` speak of
what is `Within` so many hops, a recursive function; its first value and its step are
all they need. For the former `HungInv` says that what a call holds hangs together
already, over the edges it holds itself, so that no write can cut it. For the latter
`SweepInv` says, while nothing is written, that a hop begins with exactly what is
readable within the hops so far and ends with every readable edge at it taken; no
two edges have one id (`OneRowPerEdge`).

**Reads.** `RInv` adds to `TInv` that every id a call holds between its
statements has passed the clause, and that while nothing is written the rows
still to be loaded are there. From it `AnswersReadableEver` and
`WholeWhenStillEver`, for any graph, decision, query and number of writes.
`FusionKeepsTheBestEver` compares sums of `1 / (60 + rank)`: the lists of a search have no id
twice and stay within their limit (`FusionInv`), so each id has one rank in each; the
fractions are cross-multiplied, and a hit that is ahead in every list it shares
has the larger sum; sorting and cutting keep such a hit before, or instead of, the other.

**PgStore.** `Inv`: at most one assertion is between the advisory lock and its
end for one writer and key (`LockExclusive`); while it is there the log has no
assertion of that writer and key (`NoneBefore`), because the lookup saw none and
any other that could commit one would need the lock; the facts of a transaction
carry keys of its own, and an assertion that answers has written its fact. Most
actions write no fact: they are shown to be `Quiet` one by one, and one lemma
carries the invariant over every quiet step. What is left is taking the lock,
inserting a fact and committing. From it `RetryAnswered` and `OneHolder`, for any
number of goroutines, keys and ids.

`PgInv` adds why READ COMMITTED is enough. Each transaction sees tables of its own, the
committed ones with what it added and deleted, and it is these that must keep the
constraints. `RowInv` says that they do, that whatever a transaction changed is
under its locks (`Covered`), and that the locks of no two conflict (`Apart`); a commit of
one then cannot break what another sees (`WritesApart`). `CallInv` says of every call
how far it is and which rows and facts it has, and that a dedupe key is used once in
the log and the open transactions. Together they give `ConstraintsKept`, also for
rebuilds, which replace all rows under the others.
`NothingLoggedIsLost` needs `LiveInv`: an entity the log asserts is, for everyone, live or
taken back by a fact of the log or of the transaction itself; a fold in progress has
it among the rows to come. `FoldIsOnline` needs `GrowInv`: while things are only asserted, the
tables `Show` the log (of two assertions with one key the first holds it, a node has
the props of all its assertions), and each open transaction has in its rows what its fact
will say. The fold shows the same, by the least `seq` at which it would not. Of the props this is
said only for entities no assertion of which was logged with null; one that was has null or an
array for its props in the fold.

**Model-checked only.** Liveness (`EveryVerifyReturns`, `CacheCatchesUp`): it needs
`ENABLED` and fairness, which are beyond these provers. The violations of the runs
above are TLC's counterexamples.

## Not modelled

Starchart, the MCP and HTTP surfaces, pinned users, the clients, embedders,
secrets, configuration and start: pure functions of one request, or read once. The
transcription over the fabric, one request per audio file, is for
`Ingest` a transcript that is there or not. Of Postgres, the vector search of the
write path, proposals (the same statements as in SQLite) and the reads. How well
a hit matches, wording and logging are left out throughout.

## Plan

1. Two spaces with `MergeEntities` across them: what a key resolves to once nodes of two
   spaces are one (up to there `KeysFollowUnlessSpacesMeet` has the answer).
2. Proofs: what remains of `KeysFollowNode` under `force_new`, namely that a key is with
   the first node that claimed it; that the steps of `PgStore`, taken one transaction at a
   time, are those of `Store`.
3. The vector search of `PgStore`, and with it flagged duplicates that overlap.

Several modules share a run where one configuration carries both questions, as
`ingest` does for the store in two spaces and `traversal` for the searches.
