------------------------------ MODULE Verifier ------------------------------
(***************************************************************************)
(* The JWKS cache behind Verifier.Verify: the keys the control plane        *)
(* publishes, fetched when a credential names an unknown kid or the cache   *)
(* is old, at most one attempt per interval.                                *)
(*                                                                          *)
(* Verify runs in one goroutine per request.  A call is split where another *)
(* one can get in between: at each section of mu (the keys and the two      *)
(* times), at fetchMu, and around the request to the control plane.         *)
(* Times are kept as ages that stop at the limit they are compared with; an *)
(* attempt or a fetch that never happened is as old as can be, which is how *)
(* the code reads a zero time.                                              *)
(***************************************************************************)
EXTENDS Naturals

CONSTANTS
  Calls,         \* concurrent calls of Verify
  Kids,          \* key ids of usable ES256 keys a credential may name
  Unusable,      \* a key of the document that is no ES256 signing key
  NoCall,        \* fetchMu is free
  MinRefetch,    \* Verifier.minRefetch
  RefreshAfter,  \* Verifier.refreshAfter
  FetchTimeout   \* jwksFetchTimeout

ASSUME VerifierAssumption ==
  /\ Unusable \notin Kids /\ NoCall \notin Calls
  /\ MinRefetch \in Nat \ {0} /\ RefreshAfter \in Nat \ {0} /\ FetchTimeout \in Nat \ {0}

\* The defaults: 10 seconds against 5 minutes.
ASSUME IntervalAssumption == MinRefetch <= RefreshAfter + FetchTimeout

VARIABLES
  published,   \* the control plane: keys in its JWKS document
  up,          \* the control plane: whether it answers within the timeout
  keys,        \* Verifier.keys
  sinceFetch,  \* age of fetchedAt
  sinceTry,    \* age of triedAt
  fetchMu,     \* holder of fetchMu
  calls,       \* where each call stands
  absent,      \* history: kids a stored answer did not have, unpublished since
  gone,        \* history: how long a kid is unpublished without a failed fetch
  overdue      \* history: calls begun after a withdrawn kid should be unknown

cache == <<keys, sinceFetch, sinceTry>>
history == <<absent, gone, overdue>>
vars == <<published, up, cache, fetchMu, calls, history>>

Finished  == {"idle", "accepted", "refused"}
Holding   == {"locked", "try", "fetch", "install"}
Verifying == {"lookup", "wait", "again", "found"} \cup Holding
Call == [pc : Finished \cup Verifying, kid : Kids, answer : SUBSET Kids, age : 0 .. FetchTimeout]

\* A withdrawn key may be used this long: fetched last, then not yet stale.
Bound == RefreshAfter + FetchTimeout

At(c, pc)  == calls[c].pc = pc
GoTo(c, pc) == calls' = [calls EXCEPT ![c].pc = pc]
Unlock == fetchMu' = NoCall

Init ==
  /\ published \in SUBSET Kids /\ up = TRUE
  /\ keys = {} /\ sinceFetch = RefreshAfter /\ sinceTry = MinRefetch
  /\ fetchMu = NoCall
  /\ calls \in [Calls -> {[pc |-> "idle", kid |-> k, answer |-> {}, age |-> 0] : k \in Kids}]
  /\ absent = Kids \ published
  /\ gone = [k \in Kids |-> 0] /\ overdue = {}

----------------------------------------------------------------------------
(* Verify and key. *)

\* A credential whose header names ES256 and kid k; others are refused at once.
Start(c, k) ==
  /\ calls[c].pc \in Finished
  /\ calls' = [calls EXCEPT ![c].pc = "lookup", ![c].kid = k]
  /\ overdue' = IF gone[k] = Bound THEN overdue \cup {c} ELSE overdue \ {c}
  /\ UNCHANGED <<published, up, cache, fetchMu, absent, gone>>

\* DEFECT: a known kid is served however old the cache is.
LookupIgnoringAge(c) ==
  /\ At(c, "lookup")
  /\ GoTo(c, IF calls[c].kid \in keys THEN "found" ELSE "wait")
  /\ UNCHANGED <<published, up, cache, fetchMu, history>>

\* The first section of mu in key: hit, or on to refetch.
Lookup(c) ==
  /\ At(c, "lookup")
  /\ GoTo(c, IF calls[c].kid \in keys /\ sinceFetch < RefreshAfter THEN "found" ELSE "wait")
  /\ UNCHANGED <<published, up, cache, fetchMu, history>>

\* The second: whatever refetch did, a cached key is served.
Again(c) ==
  /\ At(c, "again")
  /\ GoTo(c, IF calls[c].kid \in keys THEN "found" ELSE "refused")
  /\ UNCHANGED <<published, up, cache, fetchMu, history>>

\* Signature and claims: local to the call, either verdict.
Judge(c) ==
  /\ At(c, "found")
  /\ \E verdict \in {"accepted", "refused"} : GoTo(c, verdict)
  /\ UNCHANGED <<published, up, cache, fetchMu, history>>

----------------------------------------------------------------------------
(* refetch and fetch. *)

\* DEFECT: fetches are not serialised.
AcquireWithoutWaiting(c) ==
  /\ At(c, "wait")
  /\ fetchMu' = c
  /\ GoTo(c, "locked")
  /\ UNCHANGED <<published, up, cache, history>>

Acquire(c) ==
  /\ At(c, "wait") /\ fetchMu = NoCall
  /\ fetchMu' = c
  /\ GoTo(c, "locked")
  /\ UNCHANGED <<published, up, cache, history>>

CheckRecent(c) ==
  /\ At(c, "locked")
  /\ IF sinceTry < MinRefetch THEN GoTo(c, "again") /\ Unlock
                              ELSE GoTo(c, "try") /\ UNCHANGED fetchMu
  /\ UNCHANGED <<published, up, cache, history>>

MarkTried(c) ==
  /\ At(c, "try")
  /\ sinceTry' = 0
  /\ calls' = [calls EXCEPT ![c].pc = "fetch", ![c].age = 0]
  /\ UNCHANGED <<published, up, keys, sinceFetch, fetchMu, history>>

\* DEFECT: every key of the document is kept.
ParseJWKSUnfiltered(document) == document

\* parseJWKS: keep the usable ES256 signing keys.
ParseJWKS(document) == document \ {Unusable}

\* The control plane answers with the document it has now.
Answer(c) ==
  /\ At(c, "fetch") /\ up
  /\ calls' = [calls EXCEPT ![c].pc = "install",
                            ![c].answer = ParseJWKS(published \cup {Unusable})]
  /\ UNCHANGED <<published, up, cache, fetchMu, history>>

\* DEFECT: the error path returns without unlocking.
FetchFailsHoldingLock(c) ==
  /\ At(c, "fetch") /\ ~up
  /\ GoTo(c, "again")
  /\ gone' = [k \in Kids |-> 0] /\ overdue' = {}
  /\ UNCHANGED <<published, up, cache, fetchMu, absent>>

\* A failed or timed-out fetch keeps the cached keys; triedAt stays set.
FetchFails(c) ==
  /\ At(c, "fetch") /\ ~up
  /\ GoTo(c, "again") /\ Unlock
  /\ gone' = [k \in Kids |-> 0] /\ overdue' = {}
  /\ UNCHANGED <<published, up, cache, absent>>

\* DEFECT: new keys are added to the cached ones.
InstallUnion(c) ==
  /\ At(c, "install")
  /\ keys' = keys \cup calls[c].answer
  /\ sinceFetch' = 0
  /\ calls' = [calls EXCEPT ![c].pc = "again", ![c].answer = {}] /\ Unlock
  /\ absent' = absent \cup (Kids \ (calls[c].answer \cup published))
  /\ UNCHANGED <<published, up, sinceTry, gone, overdue>>

Install(c) ==
  /\ At(c, "install")
  /\ keys' = calls[c].answer
  /\ sinceFetch' = 0
  /\ calls' = [calls EXCEPT ![c].pc = "again", ![c].answer = {}] /\ Unlock
  /\ absent' = absent \cup (Kids \ (calls[c].answer \cup published))
  /\ UNCHANGED <<published, up, sinceTry, gone, overdue>>

----------------------------------------------------------------------------
(* The control plane and time. *)

Publish(k) ==
  /\ k \notin published
  /\ published' = published \cup {k}
  /\ absent' = absent \ {k} /\ gone' = [gone EXCEPT ![k] = 0]
  /\ overdue' = {c \in overdue : calls[c].kid # k}
  /\ UNCHANGED <<up, cache, fetchMu, calls>>

Withdraw(k) ==
  /\ k \in published
  /\ published' = published \ {k}
  /\ UNCHANGED <<up, cache, fetchMu, calls, history>>

EndpointChanges == up' = ~up /\ UNCHANGED <<published, cache, fetchMu, calls, history>>

InFlight(c) == calls[c].pc \in {"fetch", "install"}
Older(age, limit) == IF age < limit THEN age + 1 ELSE age

\* Time passes; a request in flight ends before its timeout has gone by.
Tick ==
  /\ \A c \in Calls : InFlight(c) => calls[c].age < FetchTimeout
  /\ sinceFetch' = Older(sinceFetch, RefreshAfter)
  /\ sinceTry' = Older(sinceTry, MinRefetch)
  /\ calls' = [c \in Calls |-> IF InFlight(c) THEN [calls[c] EXCEPT !.age = @ + 1] ELSE calls[c]]
  /\ gone' = [k \in Kids |-> IF k \in published THEN 0 ELSE Older(gone[k], Bound)]
  /\ UNCHANGED <<published, up, keys, fetchMu, absent, overdue>>

Next ==
  \/ \E c \in Calls, k \in Kids : Start(c, k)
  \/ \E c \in Calls : Lookup(c)
  \/ \E c \in Calls : Acquire(c)
  \/ \E c \in Calls : CheckRecent(c)
  \/ \E c \in Calls : MarkTried(c)
  \/ \E c \in Calls : Answer(c)
  \/ \E c \in Calls : FetchFails(c)
  \/ \E c \in Calls : Install(c)
  \/ \E c \in Calls : Again(c)
  \/ \E c \in Calls : Judge(c)
  \/ \E k \in Kids : Publish(k)
  \/ \E k \in Kids : Withdraw(k)
  \/ EndpointChanges
  \/ Tick

\* A goroutine that can run does; a waiter on a Go mutex is not overtaken for ever
\* (after a millisecond the mutex is handed over in order); time passes.  Nothing is
\* assumed of callers and of the control plane.
Advance(c) ==
  \/ Lookup(c) \/ CheckRecent(c) \/ MarkTried(c) \/ Answer(c) \/ FetchFails(c)
  \/ Install(c) \/ Again(c) \/ Judge(c)

Fairness ==
  /\ \A c \in Calls : WF_vars(Advance(c)) /\ SF_vars(Acquire(c))
  /\ WF_vars(Tick)

Spec == Init /\ [][Next]_vars /\ Fairness

----------------------------------------------------------------------------
(* Properties. *)

VerifierTypeOK ==
  /\ published \subseteq Kids /\ up \in BOOLEAN
  /\ keys \subseteq Kids
  /\ sinceFetch \in 0 .. RefreshAfter /\ sinceTry \in 0 .. MinRefetch
  /\ fetchMu \in Calls \cup {NoCall}
  /\ calls \in [Calls -> Call]
  /\ absent \subseteq Kids /\ gone \in [Kids -> 0 .. Bound] /\ overdue \subseteq Calls

\* "At most one attempt per interval" (verifier.go:116-117), although the check and
\* the mark are separate sections of mu and any number of calls may miss at once.
OneAttemptPerInterval ==
  [][\A c \in Calls : At(c, "try") /\ ~At(c, "try")' => sinceTry = MinRefetch]_vars

\* An answer never brings back a key that a later answer had lost: no key is cached
\* that a stored document did not have, unless it was published again since
\* (verifier.go refetch: fetches serialised, keys replaced as a whole).
WithdrawnStaysOut == absent \cap keys = {}

\* "So a key the control plane withdraws stops verifying" (verifier.go:119-120): a
\* call begun RefreshAfter and one fetch after the withdrawal does not get the key,
\* if no fetch failed in between.
WithdrawnStopsVerifying == \A c \in overdue : ~At(c, "found")

\* Every Verify returns: fetchMu is released on every path, and no call waits for
\* a fetch longer than its timeout (verifier.go key, refetch).
EveryVerifyReturns == \A c \in Calls : calls[c].pc \in Verifying ~> calls[c].pc \in Finished

\* Rotation and withdrawal get through: if the control plane answers from some time
\* on and holds to its verdict on kid k, and credentials naming k keep coming, then the
\* cache agrees with it from some time on; no rate limit and no cooldown after an outage
\* keeps the two apart (verifier.go:13-17).
CacheCatchesUp ==
  \A k \in Kids :
    LET traffic == []<>(\E c \in Calls : At(c, "lookup") /\ calls[c].kid = k) IN
    /\ <>[](up /\ k \in published) /\ traffic => <>[](k \in keys)
    /\ <>[](up /\ k \notin published) /\ traffic => <>[](k \notin keys)

============================================================================
