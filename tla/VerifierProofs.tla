--------------------------- MODULE VerifierProofs ---------------------------
(* Proofs about Verifier, for every value of its constants. *)
EXTENDS Verifier, TLAPS

----------------------------------------------------------------------------
(* The invariant, in named parts. *)

\* A call between Lock and Unlock of fetchMu is its holder.
LockHeld == \A c \in Calls : calls[c].pc \in Holding => fetchMu = c

\* The interval that was over when it was checked is still over.
TryReady == \A c \in Calls : At(c, "try") => sinceTry = MinRefetch

\* What the control plane publishes is not recorded as absent.
AbsentUnpublished == absent \cap published = {}

\* An answer that waits to be stored has no key a stored answer did not have.
AnswersFresh == \A c \in Calls : At(c, "install") => calls[c].answer \cap absent = {}

Inv == VerifierTypeOK /\ LockHeld /\ TryReady /\ AbsentUnpublished /\ AnswersFresh
         /\ WithdrawnStaysOut

\* Two calls do not hold fetchMu together.
LEMMA Exclusive ==
  ASSUME LockHeld, NEW c \in Calls, NEW d \in Calls,
         calls[c].pc \in Holding, calls[d].pc \in Holding
  PROVE  c = d
BY DEF LockHeld

\* No call holds a free fetchMu.
LEMMA FreeLock ==
  ASSUME LockHeld, fetchMu = NoCall, NEW c \in Calls
  PROVE  calls[c].pc \notin Holding
BY VerifierAssumption DEF LockHeld

\* The initial state satisfies the invariant.
LEMMA InitInv == Init => Inv
<1>. SUFFICES ASSUME Init PROVE Inv
  OBVIOUS
<1>1. \A c \in Calls : calls[c].pc = "idle"
  BY DEF Init
<1>2. VerifierTypeOK
  <2>1. calls \in [Calls -> Call]
    BY VerifierAssumption DEF Init, Call, Finished, Verifying, Holding
  <2>. QED  BY <2>1, VerifierAssumption DEF Init, VerifierTypeOK, Bound
<1>3. LockHeld
  <2>1. "idle" \notin Holding
    BY DEF Holding
  <2>. QED  BY <1>1, <2>1 DEF LockHeld
<1>4. TryReady /\ AnswersFresh
  BY <1>1 DEF TryReady, AnswersFresh, At
<1>5. AbsentUnpublished /\ WithdrawnStaysOut
  BY DEF Init, AbsentUnpublished, WithdrawnStaysOut
<1>. QED
  BY <1>2, <1>3, <1>4, <1>5 DEF Inv

\* Every step preserves the types.
LEMMA TypeStep ==
  ASSUME VerifierTypeOK, [Next]_vars
  PROVE  VerifierTypeOK'
<1>. USE VerifierAssumption DEF VerifierTypeOK, Call, Finished, Verifying, Holding, Bound, At, GoTo, Unlock
<1>1. ASSUME NEW c \in Calls, NEW k \in Kids, Start(c, k)  PROVE VerifierTypeOK'
  <2>1. [calls[c] EXCEPT !.pc = "lookup", !.kid = k] \in Call
    OBVIOUS
  <2>2. calls' \in [Calls -> Call]
    BY <1>1, <2>1 DEF Start
  <2>. HIDE DEF Call
  <2>. QED  BY <1>1, <2>2 DEF Start, cache
<1>2. ASSUME NEW c \in Calls, Lookup(c)  PROVE VerifierTypeOK'
  BY <1>2 DEF Lookup, cache, history
<1>3. ASSUME NEW c \in Calls, Acquire(c)  PROVE VerifierTypeOK'
  BY <1>3 DEF Acquire, cache, history
<1>4. ASSUME NEW c \in Calls, CheckRecent(c)  PROVE VerifierTypeOK'
  <2>1. calls' \in [Calls -> Call]
    BY <1>4 DEF CheckRecent
  <2>2. fetchMu' \in Calls \cup {NoCall}
    BY <1>4 DEF CheckRecent
  <2>. HIDE DEF Call
  <2>. QED  BY <1>4, <2>1, <2>2 DEF CheckRecent, cache, history
<1>5. ASSUME NEW c \in Calls, MarkTried(c)  PROVE VerifierTypeOK'
  <2>0. 0 \in 0 .. FetchTimeout /\ calls[c] \in Call
    OBVIOUS
  <2>3. [calls[c] EXCEPT !.pc = "fetch", !.age = 0] \in Call
    BY <2>0
  <2>1. calls' \in [Calls -> Call]
    BY <1>5, <2>3 DEF MarkTried
  <2>2. fetchMu' \in Calls \cup {NoCall}
    BY <1>5 DEF MarkTried
  <2>. HIDE DEF Call
  <2>. QED  BY <1>5, <2>1, <2>2 DEF MarkTried, history
<1>6. ASSUME NEW c \in Calls, Answer(c)  PROVE VerifierTypeOK'
  <2>1. ParseJWKS(published \cup {Unusable}) \in SUBSET Kids
    BY DEF ParseJWKS
  <2>2. [calls[c] EXCEPT !.pc = "install", !.answer = ParseJWKS(published \cup {Unusable})] \in Call
    BY <2>1
  <2>3. calls' \in [Calls -> Call]
    BY <1>6, <2>2 DEF Answer
  <2>. HIDE DEF Call
  <2>. QED  BY <1>6, <2>3 DEF Answer, cache, history
<1>7. ASSUME NEW c \in Calls, FetchFails(c)  PROVE VerifierTypeOK'
  BY <1>7 DEF FetchFails, cache
<1>8. ASSUME NEW c \in Calls, Install(c)  PROVE VerifierTypeOK'
  <2>0. [calls[c] EXCEPT !.pc = "again", !.answer = {}] \in Call
    OBVIOUS
  <2>1. calls' \in [Calls -> Call]
    BY <1>8, <2>0 DEF Install
  <2>2. fetchMu' \in Calls \cup {NoCall} /\ calls[c].answer \subseteq Kids
    BY <1>8 DEF Install
  <2>3. sinceFetch' \in 0 .. RefreshAfter
    BY <1>8 DEF Install
  <2>. HIDE DEF Call
  <2>. QED  BY <1>8, <2>1, <2>2, <2>3 DEF Install
<1>9. ASSUME NEW c \in Calls, Again(c)  PROVE VerifierTypeOK'
  BY <1>9 DEF Again, cache, history
<1>10. ASSUME NEW c \in Calls, Judge(c)  PROVE VerifierTypeOK'
  BY <1>10 DEF Judge, cache, history
<1>11. ASSUME NEW k \in Kids, Publish(k)  PROVE VerifierTypeOK'
  BY <1>11 DEF Publish, cache
<1>12. ASSUME NEW k \in Kids, Withdraw(k)  PROVE VerifierTypeOK'
  BY <1>12 DEF Withdraw, cache, history
<1>13. CASE EndpointChanges
  BY <1>13 DEF EndpointChanges, cache, history
<1>14. CASE Tick
  <2>1. sinceFetch' \in 0 .. RefreshAfter /\ sinceTry' \in 0 .. MinRefetch
    BY <1>14 DEF Tick, Older
  <2>2. gone' \in [Kids -> 0 .. Bound]
    BY <1>14 DEF Tick, Older
  <2>3. calls' \in [Calls -> Call]
    BY <1>14 DEF Tick, InFlight
  <2>. QED  BY <1>14, <2>1, <2>2, <2>3 DEF Tick
<1>15. CASE UNCHANGED vars
  BY <1>15 DEF vars, cache, history
<1>. QED
  BY <1>1, <1>2, <1>3, <1>4, <1>5, <1>6, <1>7, <1>8, <1>9, <1>10, <1>11, <1>12, <1>13,
     <1>14, <1>15 DEF Next

\* Every step preserves the invariant.
LEMMA InvStep ==
  ASSUME Inv, [Next]_vars
  PROVE  Inv'
<1>. USE DEF Inv
<1>0. VerifierTypeOK'
  BY TypeStep
<1>. DEFINE Rest == LockHeld /\ TryReady /\ AbsentUnpublished /\ AnswersFresh /\ WithdrawnStaysOut
<1>. USE VerifierAssumption
     DEF LockHeld, TryReady, AbsentUnpublished, AnswersFresh, WithdrawnStaysOut, Holding, At,
         GoTo, Unlock, VerifierTypeOK, Call
<1>1. ASSUME NEW c \in Calls, NEW k \in Kids, Start(c, k)  PROVE Rest'
  BY <1>1 DEF Start, cache, Finished
<1>2. ASSUME NEW c \in Calls, Lookup(c)  PROVE Rest'
  BY <1>2 DEF Lookup, cache, history
<1>3. ASSUME NEW c \in Calls, Acquire(c)  PROVE Rest'
  BY <1>3, FreeLock DEF Acquire, cache, history
<1>4. ASSUME NEW c \in Calls, CheckRecent(c)  PROVE Rest'
  BY <1>4, Exclusive DEF CheckRecent, cache, history
<1>5. ASSUME NEW c \in Calls, MarkTried(c)  PROVE Rest'
  BY <1>5, Exclusive DEF MarkTried, history
<1>6. ASSUME NEW c \in Calls, Answer(c)  PROVE Rest'
  <2>1. ParseJWKS(published \cup {Unusable}) \cap absent = {}
    BY DEF ParseJWKS
  <2>. QED  BY <1>6, <2>1, Exclusive DEF Answer, cache, history
<1>7. ASSUME NEW c \in Calls, FetchFails(c)  PROVE Rest'
  BY <1>7, Exclusive DEF FetchFails, cache
<1>8. ASSUME NEW c \in Calls, Install(c)  PROVE Rest'
  BY <1>8, Exclusive DEF Install
<1>9. ASSUME NEW c \in Calls, Again(c)  PROVE Rest'
  BY <1>9 DEF Again, cache, history
<1>10. ASSUME NEW c \in Calls, Judge(c)  PROVE Rest'
  BY <1>10 DEF Judge, cache, history
<1>11. ASSUME NEW k \in Kids, Publish(k)  PROVE Rest'
  BY <1>11 DEF Publish, cache
<1>12. ASSUME NEW k \in Kids, Withdraw(k)  PROVE Rest'
  BY <1>12 DEF Withdraw, cache, history
<1>13. ASSUME EndpointChanges  PROVE Rest'
  BY <1>13 DEF EndpointChanges, cache, history
<1>14. ASSUME Tick  PROVE Rest'
  <2>1. \A c \in Calls : calls'[c].pc = calls[c].pc /\ calls'[c].answer = calls[c].answer
    BY <1>14 DEF Tick
  <2>2. sinceTry = MinRefetch => sinceTry' = MinRefetch
    BY <1>14 DEF Tick, Older
  <2>. QED  BY <1>14, <2>1, <2>2 DEF Tick
<1>15. ASSUME UNCHANGED vars  PROVE Rest'
  BY <1>15 DEF vars, cache, history
<1>16. Rest'
  BY <1>1, <1>2, <1>3, <1>4, <1>5, <1>6, <1>7, <1>8, <1>9, <1>10, <1>11, <1>12, <1>13,
     <1>14, <1>15 DEF Next
<1>. QED  BY <1>0, <1>16

----------------------------------------------------------------------------
(* The bound on withdrawn keys.  Every part compares the age of a withdrawal  *)
(* with the age of the fetch that could still hold the key.                   *)

\* A published key is not gone.
PublishedNotGone == \A k \in published : gone[k] = 0

\* A request in flight is as old as its attempt.
FlightAges ==
  \A c \in Calls : InFlight(c) => calls[c].age <= sinceTry \/ sinceTry = MinRefetch

\* An answer has a key only if it was published since the request began.
AnswerAges ==
  \A c \in Calls : At(c, "install") =>
    \A k \in calls[c].answer : gone[k] <= calls[c].age

\* The cache has a key only if its answer was fetched before it was withdrawn.
CacheAges == \A k \in keys : gone[k] <= sinceFetch + FetchTimeout

\* The same by the attempt, unless one is under way that may still drop the key.
AttemptAges ==
  (\A c \in Calls : ~InFlight(c)) =>
    \A k \in keys : gone[k] <= sinceTry \/ sinceTry = MinRefetch

\* What an overdue call asks for is gone that long; it will not find it.
OverdueAges ==
  \A c \in overdue :
    /\ gone[calls[c].kid] = Bound
    /\ At(c, "again") => calls[c].kid \notin keys
    /\ ~At(c, "found")

BoundInv == /\ PublishedNotGone /\ FlightAges /\ AnswerAges
            /\ CacheAges /\ AttemptAges /\ OverdueAges

\* The initial state satisfies the bounds.
LEMMA InitBound == Init => BoundInv
<1>. SUFFICES ASSUME Init PROVE BoundInv
  OBVIOUS
<1>1. \A c \in Calls : calls[c].pc = "idle"
  BY DEF Init
<1>. QED
  BY <1>1 DEF Init, BoundInv, PublishedNotGone, FlightAges, AnswerAges, CacheAges, AttemptAges,
     OverdueAges, InFlight, At

\* The steps of a call preserve the bounds.
LEMMA CallBound ==
  ASSUME Inv, BoundInv, Inv', NEW c \in Calls,
         Lookup(c) \/ Acquire(c) \/ CheckRecent(c) \/ MarkTried(c) \/ Answer(c)
           \/ FetchFails(c) \/ Install(c) \/ Again(c) \/ Judge(c)
  PROVE  BoundInv'
<1>. USE VerifierAssumption, IntervalAssumption
     DEF BoundInv, PublishedNotGone, FlightAges, AnswerAges, CacheAges, AttemptAges, OverdueAges,
         InFlight, At, GoTo, Unlock, Inv, VerifierTypeOK, Call, Bound
<1>1. CASE Lookup(c)
  BY <1>1 DEF Lookup, cache, history
<1>2. CASE Acquire(c)
  BY <1>2 DEF Acquire, cache, history
<1>3. CASE CheckRecent(c)
  <2>1. \A d \in Calls : ~InFlight(d)
    BY <1>3, Exclusive DEF CheckRecent, Holding
  <2>. QED  BY <1>3, <2>1 DEF CheckRecent, cache, history
<1>4. CASE MarkTried(c)
  <2>1. \A d \in Calls : ~InFlight(d)
    BY <1>4, Exclusive DEF MarkTried, Holding
  <2>. QED  BY <1>4, <2>1 DEF MarkTried, history
<1>5. CASE Answer(c)
  <2>. DEFINE answer == ParseJWKS(published \cup {Unusable})
  <2>1. \A k \in answer : k \in Kids /\ gone[k] = 0
    BY DEF ParseJWKS
  <2>2. /\ calls'[c].answer = answer /\ calls'[c].pc = "install" /\ calls'[c].age = calls[c].age
        /\ calls'[c].kid = calls[c].kid
        /\ \A d \in Calls : d # c => calls'[d] = calls[d]
    BY <1>5 DEF Answer
  <2>3. UNCHANGED <<published, cache, history>> /\ calls[c].pc = "fetch"
    BY <1>5 DEF Answer
  <2>. HIDE DEF answer
  <2>4. AnswerAges'
    BY <2>1, <2>2, <2>3 DEF cache, history
  <2>5. FlightAges' /\ AttemptAges'
    BY <2>2, <2>3 DEF cache, history
  <2>6. PublishedNotGone' /\ CacheAges' /\ OverdueAges'
    BY <2>2, <2>3 DEF cache, history
  <2>. QED  BY <2>4, <2>5, <2>6
<1>6. CASE FetchFails(c)
  BY <1>6 DEF FetchFails, cache
<1>7. CASE Install(c)
  <2>1. \A d \in Calls : d # c => ~InFlight(d)
    BY <1>7, Exclusive DEF Install, Holding
  <2>2. \A k \in calls[c].answer : gone[k] <= FetchTimeout /\ gone[k] # Bound
    BY <1>7 DEF Install
  <2>. QED  BY <1>7, <2>1, <2>2 DEF Install
<1>8. CASE Again(c)
  BY <1>8 DEF Again, cache, history
<1>9. CASE Judge(c)
  BY <1>9 DEF Judge, cache, history
<1>. QED  BY <1>1, <1>2, <1>3, <1>4, <1>5, <1>6, <1>7, <1>8, <1>9

\* So do new calls, the control plane and the passage of time.
LEMMA EnvironmentBound ==
  ASSUME Inv, BoundInv, Inv',
         \/ \E c \in Calls, k \in Kids : Start(c, k)
         \/ \E k \in Kids : Publish(k)
         \/ \E k \in Kids : Withdraw(k)
         \/ EndpointChanges \/ Tick \/ UNCHANGED vars
  PROVE  BoundInv'
<1>. USE VerifierAssumption
     DEF BoundInv, PublishedNotGone, FlightAges, AnswerAges, CacheAges, AttemptAges, OverdueAges,
         InFlight, At, Inv, VerifierTypeOK, Call, Bound
<1>1. ASSUME NEW c \in Calls, NEW k \in Kids, Start(c, k)  PROVE BoundInv'
  <2>1. PublishedNotGone' /\ CacheAges'
    BY <1>1 DEF Start, cache
  <2>2. FlightAges' /\ AnswerAges'
    BY <1>1 DEF Start, cache, Finished
  <2>3. AttemptAges'
    BY <1>1 DEF Start, cache, Finished
  <2>4. OverdueAges'
    BY <1>1 DEF Start, cache, Finished
  <2>. QED  BY <2>1, <2>2, <2>3, <2>4 DEF BoundInv
<1>2. ASSUME NEW k \in Kids, Publish(k)  PROVE BoundInv'
  BY <1>2 DEF Publish, cache
<1>3. ASSUME NEW k \in Kids, Withdraw(k)  PROVE BoundInv'
  BY <1>3 DEF Withdraw, cache, history
<1>4. CASE EndpointChanges
  BY <1>4 DEF EndpointChanges, cache, history
<1>5. CASE Tick
  <2>1. \A c \in Calls :
          /\ calls'[c].pc = calls[c].pc /\ calls'[c].kid = calls[c].kid
          /\ calls'[c].answer = calls[c].answer
          /\ InFlight(c) => calls'[c].age = calls[c].age + 1
    BY <1>5 DEF Tick
  <2>2. \A k \in Kids :
          /\ k \in published => gone'[k] = 0
          /\ gone'[k] <= gone[k] + 1 /\ gone'[k] <= Bound
          /\ k \notin published /\ gone[k] = Bound => gone'[k] = Bound
    BY <1>5 DEF Tick, Older
  <2>a. /\ sinceTry' = IF sinceTry < MinRefetch THEN sinceTry + 1 ELSE sinceTry
        /\ sinceFetch' = IF sinceFetch < RefreshAfter THEN sinceFetch + 1 ELSE sinceFetch
    BY <1>5 DEF Tick, Older
  <2>3. /\ sinceTry' = sinceTry + 1 \/ sinceTry' = MinRefetch
        /\ sinceTry = MinRefetch => sinceTry' = MinRefetch
        /\ sinceFetch' = sinceFetch + 1 \/ sinceFetch' = RefreshAfter
    BY <2>a
  <2>4. UNCHANGED <<published, keys, overdue>>
    BY <1>5 DEF Tick
  <2>5. PublishedNotGone' /\ OverdueAges'
    BY <2>1, <2>2, <2>4
  <2>6. FlightAges'
    BY <2>1, <2>3
  <2>7. AnswerAges'
    BY <2>1, <2>2
  <2>8. CacheAges'
    BY <2>2, <2>3, <2>4
  <2>9. AttemptAges'
    BY <2>1, <2>2, <2>3, <2>4
  <2>. QED  BY <2>5, <2>6, <2>7, <2>8, <2>9
<1>6. CASE UNCHANGED vars
  BY <1>6 DEF vars, cache, history
<1>. QED  BY <1>1, <1>2, <1>3, <1>4, <1>5, <1>6

----------------------------------------------------------------------------
(* The theorems. *)

\* Every reachable state satisfies the invariant and the bounds.
THEOREM VerifierInductive == Spec => [](Inv /\ BoundInv)
<1>1. Init => Inv /\ BoundInv
  BY InitInv, InitBound
<1>2. Inv /\ BoundInv /\ [Next]_vars => Inv' /\ BoundInv'
  <2>. SUFFICES ASSUME Inv, BoundInv, [Next]_vars PROVE Inv' /\ BoundInv'
    OBVIOUS
  <2>1. Inv'
    BY InvStep
  <2>. QED  BY <2>1, CallBound, EnvironmentBound DEF Next
<1>. QED  BY <1>1, <1>2, PTL DEF Spec

\* The cache, the lock and the calls stay within their types (verifier.go Verifier).
THEOREM VerifierTyped == Spec => []VerifierTypeOK
BY VerifierInductive, PTL DEF Inv

\* However many calls miss at once, attempts are MinRefetch apart (verifier.go refetch).
THEOREM RateLimited == Spec => OneAttemptPerInterval
<1>1. Inv => \A c \in Calls : At(c, "try") /\ ~At(c, "try")' => sinceTry = MinRefetch
  BY DEF Inv, TryReady
<1>. QED  BY <1>1, VerifierInductive, PTL DEF OneAttemptPerInterval

\* A key lost from the document never returns to the cache unless published again
\* (verifier.go refetch).
THEOREM NoKeyComesBack == Spec => []WithdrawnStaysOut
BY VerifierInductive, PTL DEF Inv

\* A call begun RefreshAfter and one fetch after a withdrawal does not get the key
\* (verifier.go key, refetch).
THEOREM WithdrawalBounded == Spec => []WithdrawnStopsVerifying
<1>1. BoundInv => WithdrawnStopsVerifying
  BY DEF BoundInv, OverdueAges, WithdrawnStopsVerifying
<1>. QED  BY <1>1, VerifierInductive, PTL

============================================================================
