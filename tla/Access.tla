------------------------------- MODULE Access -------------------------------
(***************************************************************************)
(* Model.Authenticate of the jumpdrive access model: the control plane's    *)
(* authorize endpoint behind a bounded LRU cache of decisions, local        *)
(* verification of the credential, and dual mode, which runs both and       *)
(* grants what both grant.                                                  *)
(*                                                                          *)
(* Authenticate runs in one goroutine per request.  A call is split where   *)
(* another can get in between: the clock is read before the lock of the     *)
(* cache is taken, a request is in flight without it, and the expiry of a   *)
(* decision is computed before the lock is taken again.  Two calls with one *)
(* bearer may miss together; nothing orders their answers.                  *)
(*                                                                          *)
(* The read, write and approve sets are one set of grants; not being        *)
(* Restricted is a grant too, since dual mode restricts if either side does.*)
(***************************************************************************)
EXTENDS Integers, Sequences

Lists == INSTANCE SequencesExt

CONSTANTS
  Calls,       \* concurrent calls of Authenticate
  Bearers,     \* credentials; the cache is keyed by their hash
  Principals,  \* PrincipalIDs
  NoOne,       \* an empty PrincipalID
  Grants,      \* members of the three space sets
  Modes,       \* JDX_JUMPDRIVE_VERIFY values that are tried
  Owner,       \* the subject a credential names
  Claims,      \* the grants a credential carries
  Expires,     \* expires_at of a credential
  Verdicts,    \* the decisions the control plane may come to on a credential
  MaxAge,      \* the longest max-age it sends
  Ages,        \* the max-ages it sends; 0 stands for none, no-store and no-cache
  Timeout,     \* Config.Timeout
  Capacity,    \* Config.CacheSize
  MaxTime      \* bound: the clock stops here

Decision == [principal : Principals \cup {NoOne}, grants : SUBSET Grants]
Denied == [principal |-> NoOne, grants |-> {}]

ASSUME AccessAssumption ==
  /\ NoOne \notin Principals
  /\ Modes \subseteq {"jwks", "authorize", "dual"}
  /\ Owner \in [Bearers -> Principals]
  /\ Claims \in [Bearers -> SUBSET Grants]
  /\ Expires \in [Bearers -> Nat]
  /\ Verdicts \in [Bearers -> SUBSET Decision]
  /\ \A b \in Bearers : \A d \in Verdicts[b] : d.principal = NoOne => d = Denied
  /\ MaxAge \in Nat \ {0} /\ Ages \subseteq 0 .. MaxAge /\ Timeout \in Nat \ {0} /\ Capacity \in Nat \ {0} /\ MaxTime \in Nat

VARIABLES
  now,      \* the clock
  mode,     \* Model.mode
  verdict,  \* the control plane: its decision on each credential, Denied if none
  items,    \* decisionCache.items: the keys that have an element
  ll,       \* decisionCache.ll, front first
  calls,    \* where each call stands
  lost,     \* history: since when a credential has not had a grant
  used      \* history: pairs of keys of items, the first hit or put after the second

vars == <<now, mode, verdict, items, ll, calls, lost, used>>
cache == <<items, ll, used>>
plane == <<verdict, lost>>

\* How long a grant may be used after its withdrawal: the answer was under way, then cached.
Bound == MaxAge + Timeout

Finished == {"idle", "granted", "denied"}
Call == [pc : Finished \cup {"verify", "clock", "get", "request", "answered", "put"},
         bearer : Bearers, verified : BOOLEAN, asked : 0 .. MaxTime, began : 0 .. MaxTime,
         maxAge : 0 .. MaxAge, decision : Decision, until : 0 .. MaxTime + MaxAge]
Fresh(b) == [pc |-> "idle", bearer |-> b, verified |-> FALSE, asked |-> 0, began |-> 0,
             maxAge |-> 0, decision |-> Denied, until |-> 0]
Entry == [key : Bearers, decision : Decision, until : 0 .. MaxTime + MaxAge]

At(c, pc) == calls[c].pc = pc
Become(c, call) == calls' = [calls EXCEPT ![c] = call]

Init ==
  /\ now = 0 /\ mode \in Modes
  /\ verdict \in {f \in [Bearers -> Decision] : \A b \in Bearers : f[b] \in Verdicts[b]}
  /\ items = {} /\ ll = <<>> /\ used = {}
  /\ calls \in [Calls -> {Fresh(b) : b \in Bearers}]
  /\ lost = [b \in Bearers |-> [g \in Grants |-> IF g \in verdict[b].grants THEN 0 ELSE -Bound]]

----------------------------------------------------------------------------
(* The decision cache. *)

Position(k) == CHOOSE i \in DOMAIN ll : ll[i].key = k
Others(k) == Lists!RemoveAt(ll, Position(k))
Later(b, keys) == {p \in used : {p[1], p[2]} \subseteq keys \ {b}} \cup ({b} \X (keys \ {b}))

\* DEFECT: a hit leaves the element where it is.
HitInPlace(k) == UNCHANGED <<ll, items>> /\ used' = Later(k, items)

\* A hit moves the element to the front.
Hit(k) ==
  /\ ll' = <<ll[Position(k)]>> \o Others(k)
  /\ used' = Later(k, items) /\ UNCHANGED items

\* An expired element goes.
Expire(k) ==
  /\ ll' = Others(k) /\ items' = items \ {k}
  /\ used' = {p \in used : k \notin {p[1], p[2]}}

\* The element of e.key in front, in the place of the old one if there is one.
InFront(e) == <<e>> \o (IF e.key \in items THEN Others(e.key) ELSE ll)

\* DEFECT: nothing is evicted.
StoreUnbounded(e) ==
  /\ ll' = InFront(e) /\ items' = items \cup {e.key}
  /\ used' = Later(e.key, items')

\* DEFECT: the eviction forgets the map.
StoreLeavingKeys(e) ==
  /\ ll' = IF Len(InFront(e)) <= Capacity THEN InFront(e) ELSE SubSeq(InFront(e), 1, Capacity)
  /\ items' = items \cup {e.key}
  /\ used' = Later(e.key, items')

\* put: replace the element of the key, or add one and evict from the back.
Store(e) ==
  LET longer == InFront(e)
      evicted == Capacity + 1 .. Len(longer)
  IN /\ ll' = IF evicted = {} THEN longer ELSE SubSeq(longer, 1, Capacity)
     /\ items' = (items \cup {e.key}) \ {longer[i].key : i \in evicted}
     /\ used' = Later(e.key, items')

----------------------------------------------------------------------------
(* Authenticate. *)

Start(c, b) ==
  /\ calls[c].pc \in Finished
  /\ Become(c, [Fresh(b) EXCEPT !.pc = IF mode = "authorize" THEN "clock" ELSE "verify"])
  /\ UNCHANGED <<now, mode, cache, plane>>

\* DEFECT: dual mode checks both sides and grants what the authorizer does.
AnsweredWithoutClaims(c, d) ==
  LET b == calls[c].bearer IN
  IF d.principal = NoOne \/ (mode = "dual" /\ ~ (calls[c].verified /\ d.principal = Owner[b]))
  THEN [Fresh(b) EXCEPT !.pc = "denied"]
  ELSE [Fresh(b) EXCEPT !.pc = "granted", !.asked = calls[c].asked, !.decision = d]

\* How the call ends once authorize returned d: in dual mode both sides must accept and
\* agree on the principal, and what both grant is granted.
Answered(c, d) ==
  LET b == calls[c].bearer
      both == [principal |-> d.principal, grants |-> d.grants \cap Claims[b]]
  IN IF d.principal = NoOne \/ (mode = "dual" /\ ~ (calls[c].verified /\ d.principal = Owner[b]))
     THEN [Fresh(b) EXCEPT !.pc = "denied"]
     ELSE [Fresh(b) EXCEPT !.pc = "granted", !.asked = calls[c].asked,
                           !.decision = IF mode = "dual" THEN both ELSE d]

\* Verifier.Verify, either verdict; dual mode goes on to authorize whatever it was.
Verify(c) ==
  /\ At(c, "verify")
  /\ \E ok \in BOOLEAN : LET b == calls[c].bearer IN
       Become(c,
         IF mode = "dual" THEN [calls[c] EXCEPT !.pc = "clock", !.verified = ok]
         ELSE IF ok THEN [Fresh(b) EXCEPT !.pc = "granted",
                            !.decision = [principal |-> Owner[b], grants |-> Claims[b]]]
         ELSE [Fresh(b) EXCEPT !.pc = "denied"])
  /\ UNCHANGED <<now, mode, cache, plane>>

ReadClock(c) ==
  /\ At(c, "clock")
  /\ Become(c, [calls[c] EXCEPT !.pc = "get", !.asked = now])
  /\ UNCHANGED <<now, mode, cache, plane>>

\* cache.get with the time read before: hit, expired, or missing.
Get(c) ==
  LET k == calls[c].bearer
      ask == Become(c, [calls[c] EXCEPT !.pc = "request", !.began = now])
  IN /\ At(c, "get")
     /\ IF k \notin items THEN ask /\ UNCHANGED cache
        ELSE LET e == ll[Position(k)] IN
             IF calls[c].asked < e.until THEN Hit(k) /\ Become(c, Answered(c, e.decision))
             ELSE Expire(k) /\ ask
     /\ UNCHANGED <<now, mode, plane>>

\* The authorizer decides on the credential now and says for how long.
Answer(c, maxAge) ==
  LET d == verdict[calls[c].bearer] IN
  /\ At(c, "request")
  /\ Become(c, IF d = Denied THEN Answered(c, Denied)
               ELSE [calls[c] EXCEPT !.pc = "answered", !.decision = d, !.maxAge = maxAge])
  /\ UNCHANGED <<now, mode, cache, plane>>

\* No answer in time, a server error, or an answer that is not the contract's.
CallFails(c) ==
  /\ At(c, "request")
  /\ Become(c, Answered(c, Denied))
  /\ UNCHANGED <<now, mode, cache, plane>>

\* DEFECT: a decision is kept until the credential expires.
UntilIgnoringMaxAge(t, maxAge, expires) == IF maxAge = 0 THEN t ELSE expires

\* cacheUntil: the earlier of t + max-age and expires_at.
Until(t, maxAge, expires) == IF t + maxAge < expires THEN t + maxAge ELSE expires

\* A decision that is reusable for some time goes on to put.
ComputeUntil(c) ==
  LET until == Until(now, calls[c].maxAge, Expires[calls[c].bearer]) IN
  /\ At(c, "answered")
  /\ Become(c, IF until > now THEN [calls[c] EXCEPT !.pc = "put", !.until = until]
               ELSE Answered(c, calls[c].decision))
  /\ UNCHANGED <<now, mode, cache, plane>>

Put(c) ==
  /\ At(c, "put")
  /\ Store([key |-> calls[c].bearer, decision |-> calls[c].decision, until |-> calls[c].until])
  /\ Become(c, Answered(c, calls[c].decision))
  /\ UNCHANGED <<now, mode, plane>>

----------------------------------------------------------------------------
(* The control plane and time. *)

Decide(b, d) ==
  /\ d # verdict[b]
  /\ verdict' = [verdict EXCEPT ![b] = d]
  /\ lost' = [lost EXCEPT ![b] =
                [g \in Grants |-> IF g \in verdict[b].grants \ d.grants THEN now ELSE @[g]]]
  /\ UNCHANGED <<now, mode, cache, calls>>

\* A request ends before its timeout; the step from an answer to its expiry counts.
Tick ==
  /\ now < MaxTime
  /\ \A c \in Calls : calls[c].pc \in {"request", "answered"} => now < calls[c].began + Timeout
  /\ now' = now + 1
  /\ UNCHANGED <<mode, cache, plane, calls>>

Next ==
  \/ \E c \in Calls, b \in Bearers : Start(c, b)
  \/ \E c \in Calls : Verify(c)
  \/ \E c \in Calls : ReadClock(c)
  \/ \E c \in Calls : Get(c)
  \/ \E c \in Calls, a \in Ages : Answer(c, a)
  \/ \E c \in Calls : CallFails(c)
  \/ \E c \in Calls : ComputeUntil(c)
  \/ \E c \in Calls : Put(c)
  \/ \E b \in Bearers : \E d \in Verdicts[b] : Decide(b, d)
  \/ Tick

Spec == Init /\ [][Next]_vars

----------------------------------------------------------------------------
(* Properties. *)

\* Types, among them that the cache never holds more than Capacity decisions.
AccessTypeOK ==
  /\ now \in 0 .. MaxTime /\ mode \in Modes
  /\ verdict \in [Bearers -> Decision]
  /\ items \subseteq Bearers
  /\ ll \in Seq(Entry) /\ Len(ll) <= Capacity
  /\ calls \in [Calls -> Call]
  /\ lost \in [Bearers -> [Grants -> -Bound .. MaxTime]]
  /\ used \subseteq Bearers \X Bearers

\* The map and the list of the cache stay in step through hits, expiry, replacement by
\* a concurrent miss, and eviction, and no rejection is cached (jumpdrive.go:399-451).
CacheInStep ==
  /\ items = {ll[i].key : i \in DOMAIN ll}
  /\ \A i, j \in DOMAIN ll : ll[i].key = ll[j].key => i = j
  /\ \A i \in DOMAIN ll : ll[i].decision.principal # NoOne

\* A grant the control plane withdrew is gone from every authorized call that looked it
\* up max-age and one request later, whatever answers were in flight or overtook each
\* other; and a call never gets what only another bearer has (jumpdrive.go:185-188, 295-297).
WithdrawnGrantsExpire ==
  \A c \in Calls : At(c, "granted") /\ mode # "jwks" =>
    \A g \in calls[c].decision.grants :
      LET b == calls[c].bearer IN
      g \in verdict[b].grants \/ calls[c].asked < lost[b][g] + Bound

\* "Enforce the INTERSECTION": whatever dual mode grants, the credential carries and the
\* control plane has granted it, up to max-age and one request earlier, to the principal
\* the credential names; an older cached decision passes the same two gates
\* (jumpdrive.go:17-18, 225-227).
DualGrantsBoth ==
  \A c \in Calls : At(c, "granted") /\ mode = "dual" =>
    LET b == calls[c].bearer IN
    /\ calls[c].decision.principal = Owner[b]
    /\ \A g \in calls[c].decision.grants :
         g \in Claims[b] /\ (g \in verdict[b].grants \/ calls[c].asked < lost[b][g] + Bound)

\* "A bounded LRU": what is evicted to make room was used before everything that stays
\* (jumpdrive.go:399, 437-451).
EvictsLeastRecent ==
  [][items' \ items # {} =>
       \A k \in items \ items', q \in items \cap items' : <<q, k>> \in used]_vars

============================================================================
