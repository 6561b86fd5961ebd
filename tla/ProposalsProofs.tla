-------------------------- MODULE ProposalsProofs --------------------------
(* Proofs about Proposals, for every value of its constants. *)
EXTENDS Proposals, StoreProofs

----------------------------------------------------------------------------
(* The invariant: who may be replaying, and what has been written so far. *)

\* Only an approved proposal was written or is being written.
OnlyPromoted ==
  \A p \in ProposalIds : status[p] # "promoted" =>
    writes[p] = 0 /\ \A d \in Calls : Held(d) = p => calls[d].pc \notin Replaying

\* One call at a time applies a proposal, and before it does nothing was written.
OneReplay ==
  /\ \A d \in Calls : At(d, "replay") => writes[Held(d)] = 0
  /\ \A d, e \in Calls :
       (Held(d) = Held(e) /\ calls[d].pc \in Replaying /\ calls[e].pc \in Replaying) => d = e

PInv == IInv /\ ProposalsTypeOK /\ OnlyPromoted /\ OneReplay

----------------------------------------------------------------------------
(* Steps of the store under the proposals. *)

\* A held payload decodes to an input of the store (json.Unmarshal of an intent).
LEMMA DecodedType ==
  ASSUME NEW c \in Candidate
  PROVE  Decoded(c) \in Candidate
BY StoreAssumption DEF Decoded, Marshal, Candidate

\* A candidate stays one when it is given a vector (autoEmbed).
LEMMA AutoEmbedType ==
  ASSUME NEW c \in Candidate, NEW e \in AutoEmbed(c)
  PROVE  e \in Candidate
BY ProposalsAssumption DEF AutoEmbed, Candidate

\* Appending a held intent preserves the invariant of the store.
LEMMA AppendPreserves ==
  ASSUME IInv, NEW p \in ProposalIds, Append(Intent[p])
  PROVE  IInv'
<1> DEFINE i == Intent[p]
<1>1. i.writer \in Writers
  BY ProposalsAssumption
<1>2. CASE i.kind = "entity.asserted" /\ AppendEntityFact(i.writer, Decoded(i.input))
  <2>1. i.input \in Candidate
    BY <1>2, ProposalsAssumption
  <2>2. Decoded(i.input) \in Candidate
    BY <2>1, DecodedType
  <2>. HIDE DEF i
  <2>. QED  BY <1>1, <1>2, <2>2, AppendEntityPreserves
<1>3. CASE i.kind = "edge.asserted" /\ AppendEdgeFact(i.writer, i.input)
  <2>1. i.input \in EdgeInput
    BY <1>3, ProposalsAssumption
  <2>. HIDE DEF i
  <2>. QED  BY <1>1, <1>3, <2>1, AppendEdgePreserves
<1>. QED  BY <1>2, <1>3 DEF Append

\* A direct write preserves the invariant of the store.
LEMMA DirectPreserves ==
  ASSUME IInv, DirectWrite
  PROVE  IInv'
<1>1. CASE \E w \in Writers, c \in Candidates : CreateEntity(w, c)
  <2>1. PICK w \in Writers, c \in Candidates : \E e \in AutoEmbed(c) : AppendEntityFact(w, e)
    BY <1>1 DEF CreateEntity
  <2>2. PICK e \in AutoEmbed(c) : AppendEntityFact(w, e)
    BY <2>1
  <2>3. e \in Candidate
    BY AutoEmbedType, StoreAssumption
  <2>. QED  BY <2>2, <2>3, AppendEntityPreserves
<1>2. CASE \E w \in Writers, id \in EntityIds : ~FreshEntity(id) /\ RetractEntity(w, id)
  BY <1>2, RetractEntityPreserves
<1>3. CASE \E w \in Writers, in \in EdgeInputs : Link(w, in)
  BY <1>3, AppendEdgePreserves, StoreAssumption DEF Link
<1>. QED  BY <1>1, <1>2, <1>3 DEF DirectWrite

\* What a replay yields, if anything, is an id of an entity or of an edge.
LEMMA ResultType ==
  ASSUME IInv, NEW p \in ProposalIds
  PROVE  /\ \A f \in facts : f.kind \in {"entity.asserted", "edge.asserted"}
               => f.subject \in EntityIds \cup EdgeIds
         /\ PriorResults(Intent[p]) \subseteq EntityIds \cup EdgeIds
<1>1. \A f \in facts : f.kind \in {"entity.asserted", "edge.asserted"}
               => f.subject \in EntityIds \cup EdgeIds
  BY DEF IInv, Fact, FactOf
<1>2. Intent[p].kind \in {"entity.asserted", "edge.asserted"}
  BY ProposalsAssumption
<1>. QED  BY <1>1, <1>2 DEF PriorResults

----------------------------------------------------------------------------
(* Steps of the proposals table and the calls. *)

\* A call that moves on without touching a status, and not into a replay.
LEMMA MovePreserves ==
  ASSUME PInv, NEW d \in Calls, NEW pc \in {"read", "reject", "claim", "ok", "refused", "failed"},
         GoTo(d, pc), UNCHANGED <<vars, status, writes>>,
         subject' \in [ProposalIds -> EntityIds \cup EdgeIds \cup {NoSubject}]
  PROVE  PInv'
<1>1. calls \in [Calls -> Call]
  BY DEF PInv, ProposalsTypeOK
<1>2. calls' = [calls EXCEPT ![d] = [calls[d] EXCEPT !.pc = pc]]
  BY <1>1 DEF GoTo
<1>3. calls' \in [Calls -> Call]
  BY <1>1, <1>2 DEF Call, InFlight, Returned, Replaying
<1>4. \A e \in Calls : /\ calls'[e].proposal = calls[e].proposal
                       /\ calls'[e].pc \in Replaying => e # d /\ calls'[e].pc = calls[e].pc
  BY <1>1, <1>2 DEF Call, Replaying
<1>5. IInv'
  BY StutterPreserves DEF PInv
<1>6. ProposalsTypeOK'
  BY <1>3 DEF PInv, ProposalsTypeOK
<1>7. OnlyPromoted'
  BY <1>4 DEF PInv, OnlyPromoted, Held
<1>8. OneReplay'
  BY <1>4 DEF PInv, OneReplay, Held, At, Replaying
<1>. QED  BY <1>5, <1>6, <1>7, <1>8 DEF PInv

\* A row is inserted as pending (ProposeEntity, ProposeLink).
LEMMA ProposePreserves ==
  ASSUME PInv, NEW p \in ProposalIds, Propose(p)
  PROVE  PInv' /\ [Promise!Next]_<<status, writes>>
<1>1. status \in [ProposalIds -> Statuses] /\ writes \in [ProposalIds -> Nat]
  BY DEF PInv, ProposalsTypeOK
<1>2. status[p] = "none" /\ status' = [status EXCEPT ![p] = "pending"] /\ writes' = writes
      /\ calls' = calls /\ subject' = subject
  BY DEF Propose, SetStatus
<1>3. IInv'
  BY StutterPreserves DEF PInv, Propose
<1>4. ProposalsTypeOK'
  BY <1>1, <1>2 DEF PInv, ProposalsTypeOK, Statuses
<1>5. OnlyPromoted'
  BY <1>1, <1>2 DEF PInv, OnlyPromoted, Held
<1>6. OneReplay'
  BY <1>2 DEF PInv, OneReplay, Held, At
<1>7. Promise!Next
  BY <1>2 DEF Promise!Next, Promise!Become
<1>. QED  BY <1>3, <1>4, <1>5, <1>6, <1>7 DEF PInv

\* A rejection discards a pending proposal, and no other (Reject).
LEMMA RejectPreserves ==
  ASSUME PInv, NEW d \in Calls, Reject(d)
  PROVE  PInv' /\ [Promise!Next]_<<status, writes>>
<1> DEFINE p == Held(d)
<1>1. /\ status \in [ProposalIds -> Statuses] /\ writes \in [ProposalIds -> Nat]
      /\ calls \in [Calls -> Call] /\ p \in ProposalIds
  BY DEF PInv, ProposalsTypeOK, Held, Call
<1>2. GoTo(d, "ok") /\ UNCHANGED <<vars, subject, writes>>
  BY DEF Reject
<1>3. CASE status[p] # "pending"
  <2>1. UNCHANGED status
    BY <1>3 DEF Reject
  <2>2. subject' \in [ProposalIds -> EntityIds \cup EdgeIds \cup {NoSubject}]
    BY <1>2 DEF PInv, ProposalsTypeOK
  <2>3. PInv'
    BY <1>2, <2>1, <2>2, MovePreserves
  <2>. QED  BY <1>2, <2>1, <2>3
<1>4. CASE status[p] = "pending"
  <2>1. status' = [status EXCEPT ![p] = "discarded"] /\ writes' = writes
    BY <1>4 DEF Reject, SetStatus
  <2>2. calls' = [calls EXCEPT ![d] = [calls[d] EXCEPT !.pc = "ok"]]
    BY <1>1, <1>2 DEF GoTo
  <2>3. \A e \in Calls : /\ calls'[e].proposal = calls[e].proposal
                         /\ calls'[e].pc \in Replaying => e # d /\ calls'[e].pc = calls[e].pc
    BY <1>1, <2>2 DEF Call, Replaying
  <2>. HIDE DEF p
  <2>4. IInv'
    BY <1>2, StutterPreserves DEF PInv
  <2>5. ProposalsTypeOK'
    BY <1>1, <1>2, <2>1, <2>2 DEF PInv, ProposalsTypeOK, Statuses, Call, Returned
  <2>6. OnlyPromoted'
    BY <1>1, <1>4, <2>1, <2>3 DEF PInv, OnlyPromoted, Held
  <2>7. OneReplay'
    BY <2>1, <2>3 DEF PInv, OneReplay, Held, At, Replaying
  <2>8. Promise!Next
    BY <1>1, <1>4, <2>1 DEF Promise!Next, Promise!Become
  <2>. QED  BY <2>4, <2>5, <2>6, <2>7, <2>8 DEF PInv
<1>. QED  BY <1>3, <1>4

\* The call that flips the status is the only one to go on (Claim).
LEMMA ClaimPreserves ==
  ASSUME PInv, NEW d \in Calls, Claim(d)
  PROVE  PInv' /\ [Promise!Next]_<<status, writes>>
<1> DEFINE p == Held(d)
<1>1. /\ status \in [ProposalIds -> Statuses] /\ writes \in [ProposalIds -> Nat]
      /\ calls \in [Calls -> Call] /\ p \in ProposalIds
  BY DEF PInv, ProposalsTypeOK, Held, Call
<1>2. UNCHANGED <<vars, subject, writes>>
  BY DEF Claim
<1>3. CASE status[p] # "pending"
  <2>1. UNCHANGED status /\ GoTo(d, "refused")
    BY <1>3 DEF Claim
  <2>2. subject' \in [ProposalIds -> EntityIds \cup EdgeIds \cup {NoSubject}]
    BY <1>2 DEF PInv, ProposalsTypeOK
  <2>3. PInv'
    BY <1>2, <2>1, <2>2, MovePreserves
  <2>. QED  BY <1>2, <2>1, <2>3
<1>4. CASE status[p] = "pending"
  <2>1. status' = [status EXCEPT ![p] = "promoted"] /\ writes' = writes
    BY <1>4 DEF Claim, SetStatus
  <2>2. calls' = [calls EXCEPT ![d] = [calls[d] EXCEPT !.pc = "replay"]]
    BY <1>1, <1>4 DEF Claim, GoTo
  <2>3. writes[p] = 0 /\ \A e \in Calls : Held(e) = p => calls[e].pc \notin Replaying
    BY <1>1, <1>4 DEF PInv, OnlyPromoted
  <2>4. \A e \in Calls : /\ calls'[e].proposal = calls[e].proposal
                         /\ e # d => calls'[e].pc = calls[e].pc
    BY <1>1, <2>2 DEF Call
  <2>. HIDE DEF p
  <2>5. IInv'
    BY <1>2, StutterPreserves DEF PInv
  <2>6. ProposalsTypeOK'
    BY <1>1, <1>2, <2>1, <2>2 DEF PInv, ProposalsTypeOK, Statuses, Call, InFlight, Replaying
  <2>7. OnlyPromoted'
    <3>1. \A q \in ProposalIds : status'[q] # "promoted" => q # p /\ status[q] # "promoted"
      BY <1>1, <2>1
    <3>2. \A e \in Calls : Held(e)' = Held(e)
      BY <2>4 DEF Held
    <3>. QED  BY <2>1, <2>4, <3>1, <3>2 DEF PInv, OnlyPromoted, p
  <2>8. OneReplay'
    <3>1. \A e \in Calls : Held(e)' = Held(e)
      BY <2>4 DEF Held
    <3>2. \A e \in Calls : At(e, "replay")' => writes'[Held(e)'] = 0
      BY <2>1, <2>3, <2>4, <3>1 DEF PInv, OneReplay, At, p
    <3>3. \A e, g \in Calls :
            (Held(e)' = Held(g)' /\ calls'[e].pc \in Replaying /\ calls'[g].pc \in Replaying) => e = g
      BY <2>3, <2>4, <3>1 DEF PInv, OneReplay, p
    <3>. QED  BY <3>2, <3>3 DEF OneReplay
  <2>9. Promise!Next
    BY <1>1, <1>4, <2>1 DEF Promise!Next, Promise!Become
  <2>. QED  BY <2>5, <2>6, <2>7, <2>8, <2>9 DEF PInv
<1>. QED  BY <1>3, <1>4

\* The replay writes an approved proposal for the first time (Replay).
LEMMA ReplayPreserves ==
  ASSUME PInv, NEW d \in Calls, Replay(d)
  PROVE  PInv' /\ [Promise!Next]_<<status, writes>>
<1> DEFINE p == Held(d)
<1>1. /\ status \in [ProposalIds -> Statuses] /\ writes \in [ProposalIds -> Nat]
      /\ calls \in [Calls -> Call] /\ p \in ProposalIds
  BY DEF PInv, ProposalsTypeOK, Held, Call
<1>2. Intent[p].kind \in {"entity.asserted", "edge.asserted"}
  BY <1>1, ProposalsAssumption
<1>3. IInv' /\ \E r \in EntityIds \cup EdgeIds \cup {NoSubject} : Applied(d, r)
  <2>1. CASE Append(Intent[p]) /\ \E f \in facts' \ facts : f.kind = Intent[p].kind /\ Applied(d, f.subject)
    <3>1. IInv'
      BY <1>1, <2>1, AppendPreserves DEF PInv
    <3>2. \A f \in facts' : f.kind \in {"entity.asserted", "edge.asserted"}
               => f.subject \in EntityIds \cup EdgeIds
      BY <3>1 DEF IInv, Fact, FactOf
    <3>. QED  BY <1>2, <2>1, <3>1, <3>2
  <2>2. CASE \E r \in PriorResults(Intent[p]) : Applied(d, r) /\ UNCHANGED vars
    <3>1. IInv'
      BY <2>2, StutterPreserves DEF PInv
    <3>. QED  BY <1>1, <2>2, <3>1, ResultType DEF PInv
  <2>3. CASE Applied(d, NoSubject) /\ UNCHANGED vars
    BY <2>3, StutterPreserves DEF PInv
  <2>. QED  BY <2>1, <2>2, <2>3 DEF Replay
<1>4. PICK r \in EntityIds \cup EdgeIds \cup {NoSubject} : Applied(d, r)
  BY <1>3
<1>5. /\ calls' = [calls EXCEPT ![d] = [[calls[d] EXCEPT !.pc = "record"] EXCEPT !.result = r]]
      /\ writes' = [writes EXCEPT ![p] = writes[p] + 1]
      /\ status' = status /\ subject' = subject
  BY <1>1, <1>4 DEF Applied
<1>6. calls[d].pc = "replay"
  BY DEF Replay, At
<1>7. writes[p] = 0 /\ status[p] = "promoted"
  BY <1>1, <1>6 DEF PInv, OneReplay, OnlyPromoted, At, Replaying
<1>8. \A e \in Calls : /\ calls'[e].proposal = calls[e].proposal
                       /\ e # d => calls'[e].pc = calls[e].pc
                       /\ e = d => calls'[e].pc = "record"
  BY <1>1, <1>5 DEF Call
<1>9. \A e \in Calls : Held(e)' = Held(e) /\ (calls'[e].pc \in Replaying => calls[e].pc \in Replaying)
  BY <1>6, <1>8 DEF Held, Replaying
<1>10. \A e \in Calls : e # d /\ Held(e) = p => calls[e].pc \notin Replaying
  BY <1>6 DEF PInv, OneReplay, Replaying
<1>. HIDE DEF p
<1>11. ProposalsTypeOK'
  <2>1. [[calls[d] EXCEPT !.pc = "record"] EXCEPT !.result = r] \in Call
    BY <1>1 DEF Call, InFlight, Replaying
  <2>2. calls' \in [Calls -> Call]
    BY <1>1, <1>5, <2>1
  <2>3. writes' \in [ProposalIds -> Nat]
    BY <1>1, <1>5
  <2>. QED  BY <1>1, <1>5, <2>2, <2>3 DEF PInv, ProposalsTypeOK
<1>12. OnlyPromoted'
  BY <1>1, <1>5, <1>7, <1>9 DEF PInv, OnlyPromoted
<1>13. OneReplay'
  <2>1. \A e \in Calls : At(e, "replay")' => writes'[Held(e)'] = 0
    <3>1. SUFFICES ASSUME NEW e \in Calls, calls'[e].pc = "replay" PROVE writes'[Held(e)'] = 0
      BY DEF At
    <3>2. e # d /\ calls[e].pc = "replay"
      BY <1>8, <3>1
    <3>3. Held(e) # p
      BY <1>10, <3>2 DEF Replaying
    <3>4. Held(e) \in ProposalIds
      BY <1>1 DEF Held, Call
    <3>. QED  BY <1>1, <1>5, <1>9, <3>2, <3>3, <3>4 DEF PInv, OneReplay, At
  <2>2. \A e, g \in Calls :
          (Held(e)' = Held(g)' /\ calls'[e].pc \in Replaying /\ calls'[g].pc \in Replaying) => e = g
    BY <1>9 DEF PInv, OneReplay
  <2>. QED  BY <2>1, <2>2 DEF OneReplay
<1>14. Promise!Next
  <2>1. writes' = [writes EXCEPT ![p] = 1]
    BY <1>5, <1>7
  <2>. QED  BY <1>1, <1>5, <1>7, <2>1 DEF Promise!Next, Promise!Write
<1>. QED  BY <1>3, <1>11, <1>12, <1>13, <1>14 DEF PInv

\* The result is noted and the call returns (Record).
LEMMA RecordPreserves ==
  ASSUME PInv, NEW d \in Calls, Record(d)
  PROVE  PInv' /\ UNCHANGED <<status, writes>>
<1>1. subject' \in [ProposalIds -> EntityIds \cup EdgeIds \cup {NoSubject}]
  BY DEF PInv, ProposalsTypeOK, Call, Record
<1>2. GoTo(d, "ok") /\ UNCHANGED <<vars, status, writes>>
  BY DEF Record
<1>. QED  BY <1>1, <1>2, MovePreserves

\* Steps that only move a call (Authorize, ReadStatus, Fail).
LEMMA MovesPreserve ==
  ASSUME PInv, NEW d \in Calls, Authorize(d) \/ ReadStatus(d) \/ Fail(d)
  PROVE  PInv' /\ UNCHANGED <<status, writes>>
<1>1. UNCHANGED <<vars, status, writes>> /\ subject' = subject
  BY DEF Authorize, ReadStatus, Fail
<1>2. subject' \in [ProposalIds -> EntityIds \cup EdgeIds \cup {NoSubject}]
  BY <1>1 DEF PInv, ProposalsTypeOK
<1>3. \E pc \in {"read", "reject", "claim", "refused", "failed"} : GoTo(d, pc)
  BY DEF Authorize, ReadStatus, Fail
<1>. QED  BY <1>1, <1>2, <1>3, MovePreserves

\* A write that is not a decision (DirectWrite).
LEMMA DirectWritePreserves ==
  ASSUME PInv, DirectWrite
  PROVE  PInv' /\ UNCHANGED <<status, writes>>
<1>1. IInv'
  BY DirectPreserves DEF PInv
<1>2. UNCHANGED <<status, subject, calls, writes>>
  BY DEF DirectWrite, proposalVars
<1>. QED  BY <1>1, <1>2 DEF PInv, ProposalsTypeOK, OnlyPromoted, OneReplay, Held, At

----------------------------------------------------------------------------
(* What an approval has written. *)

\* An assertion appends to the log (AppendEntityFact).
LEMMA LogGrows ==
  ASSUME NEW w, NEW c, AppendEntityFact(w, c)
  PROVE  facts \subseteq facts'
<1>1. PICK d \in Resolve(proj, c) :
         \/ InsertNew(w, c) \/ InsertFlagged(w, c, d.target)
         \/ Attach(w, c, d.target) \/ MergeThenAttach(w, c, d.target, d.drops)
  BY DEF AppendEntityFact
<1>2. CASE InsertNew(w, c)
  BY <1>2 DEF InsertNew, Commit
<1>3. CASE InsertFlagged(w, c, d.target)
  BY <1>3 DEF InsertFlagged, Commit
<1>4. CASE Attach(w, c, d.target)
  BY <1>4 DEF Attach, Commit
<1>5. CASE MergeThenAttach(w, c, d.target, d.drops)
  BY <1>5 DEF MergeThenAttach, Commit
<1>. QED  BY <1>1, <1>2, <1>3, <1>4, <1>5

\* The assertion of a candidate has its writer and its key, whatever else is appended.
LEMMA LoggedByWriter ==
  ASSUME NEW w, NEW c, AppendEntityFact(w, c), NEW f \in facts' \ facts,
         f.kind = "entity.asserted"
  PROVE  f.writer = w /\ f.key = EntityDedupeKey(c)
<1>1. PICK d \in Resolve(proj, c) :
         \/ InsertNew(w, c) \/ InsertFlagged(w, c, d.target)
         \/ Attach(w, c, d.target) \/ MergeThenAttach(w, c, d.target, d.drops)
  BY DEF AppendEntityFact
<1>2. CASE InsertNew(w, c)
  BY <1>2 DEF InsertNew, Commit, AssertOnto, NewFact
<1>3. CASE InsertFlagged(w, c, d.target)
  BY <1>3 DEF InsertFlagged, Commit, AssertOnto, NewFact
<1>4. CASE Attach(w, c, d.target)
  BY <1>4 DEF Attach, Commit, AssertOnto, NewFact
<1>5. CASE MergeThenAttach(w, c, d.target, d.drops)
  <2>1. f \in MergeFacts(w, c, d.target, d.drops)
          \/ f = AssertOnto(w, c, d.target, Head + Cardinality(d.drops) + 1)
    BY <1>5 DEF MergeThenAttach, Commit
  <2>2. \A g \in MergeFacts(w, c, d.target, d.drops) : g.kind = "entity.merged"
    <3> DEFINE rank(x) == Cardinality({y \in d.drops : y <= x})
               mf(x) == NewFact(Head + rank(x), "entity.merged", x, w,
                                <<"mergeof", EntityDedupeKey(c), x>>,
                                [keep |-> d.target, drop |-> x])
    <3>1. MergeFacts(w, c, d.target, d.drops) = {mf(x) : x \in d.drops}
      BY DEF MergeFacts
    <3>2. \A x : mf(x).kind = "entity.merged"
      BY DEF NewFact
    <3>. HIDE DEF mf
    <3>. QED  BY <3>1, <3>2
  <2>. QED  BY <2>1, <2>2 DEF AssertOnto, NewFact
<1>. QED  BY <1>1, <1>2, <1>3, <1>4, <1>5

\* The key of an intent does not depend on the log, unless it is random.
LEMMA KeyIsFixed ==
  ASSUME NEW p \in ProposalIds
  PROVE  LET i == Intent[p] IN
         /\ IntentKey(i)' = IntentKey(i) \/ IntentKey(i)[1] = "random"
         /\ i.input.dedupe # NoKey => IntentKey(i)' = IntentKey(i)
<1> DEFINE i == Intent[p]
           c == Decoded(i.input)
<1>1. CASE i.kind = "entity.asserted"
  <2>1. i.input \in Candidate
    BY <1>1, ProposalsAssumption
  <2>2. c.dedupe = i.input.dedupe
    BY <2>1 DEF Decoded, Candidate
  <2>3. IntentKey(i) = EntityDedupeKey(c) /\ IntentKey(i)' = EntityDedupeKey(c)'
    BY <1>1 DEF IntentKey
  <2>4. EntityDedupeKey(c)' = EntityDedupeKey(c) \/ EntityDedupeKey(c)[1] = "random"
    BY DEF EntityDedupeKey, DeriveDedupeKey
  <2>5. c.dedupe # NoKey => EntityDedupeKey(c)' = EntityDedupeKey(c)
    BY DEF EntityDedupeKey
  <2>. QED  BY <2>2, <2>3, <2>4, <2>5
<1>2. CASE i.kind # "entity.asserted"
  BY <1>2 DEF IntentKey, EdgeDedupeKey
<1>. QED  BY <1>1, <1>2

\* What an approval may record of a proposal.
Recorded(p, id) ==
  \/ \E f \in facts : Wrote(f, Intent[p]) /\ f.subject = id
  \/ id = NoSubject /\ TakenByOtherKind(Intent[p])

\* It stays true while the log grows.
LEMMA RecordedStays ==
  ASSUME NEW p \in ProposalIds, NEW id, facts \subseteq facts', Recorded(p, id)
  PROVE  Recorded(p, id)'
<1> DEFINE i == Intent[p]
<1>1. CASE \E f \in facts : Wrote(f, i) /\ f.subject = id
  <2>1. PICK f \in facts : Wrote(f, i) /\ f.subject = id
    BY <1>1
  <2>2. Wrote(f, i)'
    BY <2>1, KeyIsFixed DEF Wrote
  <2>. QED  BY <2>1, <2>2 DEF Recorded
<1>2. CASE id = NoSubject /\ TakenByOtherKind(i)
  <2>1. TakenByOtherKind(i)'
    BY <1>2, KeyIsFixed DEF TakenByOtherKind
  <2>. QED  BY <1>2, <2>1 DEF Recorded
<1>. QED  BY <1>1, <1>2 DEF Recorded

\* A call about to record a result has a true one, a rejection is none of an approval,
\* and what an approval that returned recorded is true.
WInv ==
  /\ \A d \in Calls : At(d, "record") => Recorded(Held(d), calls[d].result)
  /\ \A d \in Calls : At(d, "reject") => ~ calls[d].approve
  /\ \A d \in Calls : At(d, "ok") /\ calls[d].approve => Recorded(Held(d), subject[Held(d)])

\* What was true of a call stays true while it keeps its result, or its record.
LEMMA CallKeepsRecord ==
  ASSUME PInv, WInv, facts \subseteq facts', NEW e \in Calls,
         calls'[e].proposal = calls[e].proposal
  PROVE  /\ At(e, "record") /\ calls'[e].result = calls[e].result
              => Recorded(Held(e), calls[e].result)'
         /\ At(e, "ok") /\ calls[e].approve /\ subject'[Held(e)] = subject[Held(e)]
              => Recorded(Held(e), subject[Held(e)])'
<1>1. PICK p \in ProposalIds : Held(e) = p /\ Held(e)' = p
  BY DEF PInv, ProposalsTypeOK, Held, Call
<1>2. ASSUME At(e, "record"), calls'[e].result = calls[e].result
      PROVE  Recorded(Held(e), calls[e].result)'
  <2>1. PICK id : id = calls[e].result
    OBVIOUS
  <2>2. Recorded(p, id)
    BY <1>1, <1>2, <2>1 DEF WInv
  <2>3. Recorded(p, id)'
    BY <2>2, RecordedStays
  <2>. QED  BY <1>1, <1>2, <2>1, <2>3 DEF Recorded
<1>3. ASSUME At(e, "ok"), calls[e].approve, subject'[Held(e)] = subject[Held(e)]
      PROVE  Recorded(Held(e), subject[Held(e)])'
  <2>1. PICK id : id = subject[Held(e)]
    OBVIOUS
  <2>2. Recorded(p, id)
    BY <1>1, <1>3, <2>1 DEF WInv
  <2>3. Recorded(p, id)'
    BY <2>2, RecordedStays
  <2>4. subject'[Held(e)'] = id
    BY <1>1, <1>3, <2>1
  <2>. QED  BY <1>1, <2>3, <2>4 DEF Recorded
<1>. QED  BY <1>2, <1>3

\* A call that moves neither to a result nor to the return of an approval, and a step of
\* others, keep what approvals recorded.
LEMMA MoveKeepsRecords ==
  ASSUME PInv, WInv, NEW d \in Calls, NEW pc, GoTo(d, pc), pc # "record",
         pc \in {"reject", "ok"} => ~ calls[d].approve, facts' = facts, subject' = subject
  PROVE  WInv'
<1>1. calls \in [Calls -> Call]
  BY DEF PInv, ProposalsTypeOK
<1>2. \A e \in Calls : /\ calls'[e].proposal = calls[e].proposal
                       /\ calls'[e].approve = calls[e].approve
                       /\ calls'[e].result = calls[e].result
                       /\ e # d => calls'[e].pc = calls[e].pc
                       /\ e = d => calls'[e].pc = pc
  BY <1>1 DEF GoTo, Call
<1>3. \A e \in Calls : At(e, "record")' => Recorded(Held(e), calls[e].result)'
  BY <1>2, CallKeepsRecord DEF At
<1>4. \A e \in Calls : At(e, "ok")' /\ calls'[e].approve => Recorded(Held(e), subject[Held(e)])'
  BY <1>2, CallKeepsRecord DEF At
<1>5. \A e \in Calls : At(e, "reject")' => ~ calls'[e].approve
  BY <1>2 DEF WInv, At
<1>. QED  BY <1>3, <1>4, <1>5 DEF WInv

LEMMA OthersKeepRecords ==
  ASSUME PInv, WInv, facts \subseteq facts', UNCHANGED <<subject, calls>>
  PROVE  WInv'
<1>1. \A e \in Calls : At(e, "record")' => Recorded(Held(e), calls[e].result)'
  BY CallKeepsRecord DEF At
<1>2. \A e \in Calls : At(e, "ok")' /\ calls'[e].approve => Recorded(Held(e), subject[Held(e)])'
  BY CallKeepsRecord DEF At
<1>3. \A e \in Calls : At(e, "reject")' => ~ calls'[e].approve
  BY DEF WInv, At
<1>. QED  BY <1>1, <1>2, <1>3 DEF WInv

\* What a replay yields may be recorded: the intent is in the log on it, now or before,
\* or its key was taken by the other kind (Replay).
LEMMA ReplayRecords ==
  ASSUME PInv, WInv, NEW d \in Calls, Replay(d)
  PROVE  WInv'
<1>0. PICK p \in ProposalIds : Held(d) = p
  BY DEF PInv, ProposalsTypeOK, Held, Call
<1>1. calls \in [Calls -> Call]
  BY DEF PInv, ProposalsTypeOK
<1>2. PICK id : Applied(d, id) /\ facts \subseteq facts' /\ Recorded(p, id)'
  <2> DEFINE i == Intent[p]
  <2>1. CASE Append(i) /\ \E f \in facts' \ facts : f.kind = i.kind /\ Applied(d, f.subject)
    <3>1. PICK f \in facts' \ facts : f.kind = i.kind /\ Applied(d, f.subject)
      BY <2>1
    <3>2. facts \subseteq facts' /\ f.writer = i.writer /\ f.key = IntentKey(i)
      <4>1. CASE i.kind = "entity.asserted" /\ AppendEntityFact(i.writer, Decoded(i.input))
        BY <3>1, <4>1, LogGrows, LoggedByWriter DEF IntentKey
      <4>2. CASE i.kind = "edge.asserted" /\ AppendEdgeFact(i.writer, i.input)
        BY <3>1, <4>2 DEF AppendEdgeFact, Commit, NewFact, IntentKey
      <4>. QED  BY <2>1, <4>1, <4>2 DEF Append
    <3>3. Wrote(f, i)'
      BY <3>1, <3>2, KeyIsFixed DEF Wrote
    <3>. QED  BY <3>1, <3>2, <3>3 DEF Recorded
  <2>2. CASE \E r \in PriorResults(i) : Applied(d, r) /\ UNCHANGED vars
    <3>1. PICK r \in PriorResults(i) : Applied(d, r) /\ UNCHANGED vars
      BY <2>2
    <3>2. PICK g \in facts : Wrote(g, i) /\ g.subject = r
      BY <3>1 DEF PriorResults, Wrote
    <3>3. facts' = facts
      BY <3>1 DEF vars
    <3>4. Recorded(p, r)
      BY <3>2 DEF Recorded
    <3>5. Recorded(p, r)'
      BY <3>3, <3>4, RecordedStays
    <3>. QED  BY <3>1, <3>3, <3>5
  <2>3. CASE RefusedAsDuplicate(i) /\ Applied(d, NoSubject) /\ UNCHANGED vars
    <3>1. facts' = facts
      BY <2>3 DEF vars
    <3>2. Recorded(p, NoSubject)
      BY <2>3 DEF RefusedAsDuplicate, Recorded
    <3>3. Recorded(p, NoSubject)'
      BY <3>1, <3>2, RecordedStays
    <3>. QED  BY <2>3, <3>1, <3>3
  <2>. QED  BY <1>0, <2>1, <2>2, <2>3 DEF Replay
<1>3. calls' = [calls EXCEPT ![d] = [[calls[d] EXCEPT !.pc = "record"] EXCEPT !.result = id]]
      /\ subject' = subject
  BY <1>1, <1>2 DEF Applied
<1>4. \A x \in Calls : /\ calls'[x].proposal = calls[x].proposal
                       /\ calls'[x].approve = calls[x].approve
                       /\ x # d => calls'[x] = calls[x]
                       /\ x = d => calls'[x].pc = "record" /\ calls'[x].result = id
  BY <1>1, <1>3 DEF Call
<1>5. \A x \in Calls : At(x, "record")' => Recorded(Held(x), calls[x].result)'
  <2>1. SUFFICES ASSUME NEW x \in Calls, At(x, "record")'
                 PROVE  Recorded(Held(x), calls[x].result)'
    OBVIOUS
  <2>2. CASE x = d
    <3>1. Held(x)' = p /\ calls'[x].result = id
      BY <1>0, <1>4, <2>2 DEF Held
    <3>. QED  BY <1>2, <3>1 DEF Recorded
  <2>3. CASE x # d
    BY <1>2, <1>4, <2>1, <2>3, CallKeepsRecord DEF At
  <2>. QED  BY <2>2, <2>3
<1>6. \A x \in Calls : At(x, "reject")' => ~ calls'[x].approve
  BY <1>4 DEF WInv, At
<1>7. \A x \in Calls : At(x, "ok")' /\ calls'[x].approve => Recorded(Held(x), subject[Held(x)])'
  <2>1. SUFFICES ASSUME NEW x \in Calls, At(x, "ok")', calls'[x].approve
                 PROVE  Recorded(Held(x), subject[Held(x)])'
    OBVIOUS
  <2>2. x # d /\ calls'[x] = calls[x]
    BY <1>4, <2>1 DEF At
  <2>. QED  BY <1>2, <1>3, <2>1, <2>2, CallKeepsRecord DEF At
<1>. QED  BY <1>5, <1>6, <1>7 DEF WInv

\* What is noted is the result (Record).
LEMMA RecordRecords ==
  ASSUME PInv, WInv, NEW d \in Calls, Record(d)
  PROVE  WInv'
<1>0. PICK p \in ProposalIds : Held(d) = p
  BY DEF PInv, ProposalsTypeOK, Held, Call
<1>1. calls \in [Calls -> Call] /\ DOMAIN subject = ProposalIds
  BY DEF PInv, ProposalsTypeOK
<1>2. subject' = [subject EXCEPT ![p] = calls[d].result] /\ GoTo(d, "ok") /\ facts' = facts
  BY <1>0 DEF Record, vars
<1>3. \A x \in Calls : /\ calls'[x].proposal = calls[x].proposal
                       /\ calls'[x].approve = calls[x].approve
                       /\ calls'[x].result = calls[x].result
                       /\ x # d => calls'[x].pc = calls[x].pc
                       /\ x = d => calls'[x].pc = "ok"
  BY <1>1, <1>2 DEF GoTo, Call
<1>4. PICK id : id = calls[d].result /\ Recorded(p, id)'
  <2>1. PICK id : id = calls[d].result
    OBVIOUS
  <2>2. Recorded(p, id)
    BY <1>0, <2>1 DEF WInv, Record
  <2>. QED  BY <1>2, <2>1, <2>2, RecordedStays
<1>5. \A x \in Calls : At(x, "ok")' /\ calls'[x].approve => Recorded(Held(x), subject[Held(x)])'
  <2>1. SUFFICES ASSUME NEW x \in Calls, At(x, "ok")', calls'[x].approve
                 PROVE  Recorded(Held(x), subject[Held(x)])'
    OBVIOUS
  <2>2. Held(x)' = Held(x) /\ Held(x) \in ProposalIds
    BY <1>1, <1>3 DEF Held, Call
  <2>3. CASE Held(x) = p
    <3>1. subject'[Held(x)'] = id
      BY <1>1, <1>2, <1>4, <2>2, <2>3
    <3>. QED  BY <1>4, <2>2, <2>3, <3>1 DEF Recorded
  <2>4. CASE Held(x) # p
    <3>1. x # d
      BY <1>0, <2>4
    <3>2. subject'[Held(x)] = subject[Held(x)]
      BY <1>1, <1>2, <2>2, <2>4
    <3>. QED  BY <1>2, <1>3, <2>1, <3>1, <3>2, CallKeepsRecord DEF At
  <2>. QED  BY <2>3, <2>4
<1>6. \A x \in Calls : At(x, "reject")' => ~ calls'[x].approve
  BY <1>3 DEF WInv, At
<1>7. \A x \in Calls : At(x, "record")' => Recorded(Held(x), calls[x].result)'
  BY <1>2, <1>3, CallKeepsRecord DEF At
<1>. QED  BY <1>5, <1>6, <1>7 DEF WInv

\* A rejection returns without an approval (Reject).
LEMMA RejectRecordsNothing ==
  ASSUME PInv, WInv, NEW d \in Calls, Reject(d)
  PROVE  WInv'
<1>1. GoTo(d, "ok") /\ ~ calls[d].approve /\ facts' = facts /\ subject' = subject
  BY DEF Reject, WInv, vars
<1>. QED  BY <1>1, MoveKeepsRecords

\* A write that is not a decision adds to the log (DirectWrite).
LEMMA DirectWriteLogs ==
  ASSUME PInv, WInv, DirectWrite
  PROVE  WInv'
<1>1. facts \subseteq facts'
  <2>1. CASE \E w \in Writers, c \in Candidates : CreateEntity(w, c)
    BY <2>1, LogGrows DEF CreateEntity
  <2>2. CASE \E w \in Writers, in \in EdgeInputs : Link(w, in)
    BY <2>2 DEF Link, AppendEdgeFact, Commit
  <2>3. CASE \E w \in Writers, id \in EntityIds : ~FreshEntity(id) /\ RetractEntity(w, id)
    BY <2>3 DEF RetractEntity, Commit
  <2>. QED  BY <2>1, <2>2, <2>3 DEF DirectWrite
<1>2. UNCHANGED <<subject, calls>>
  BY DEF DirectWrite, proposalVars
<1>. QED  BY <1>1, <1>2, OthersKeepRecords

----------------------------------------------------------------------------
(* Theorems. *)

\* The invariant is inductive, and every step is a step of the promise or none.
THEOREM GovernedInductive ==
  /\ GovernedInit => PInv /\ Promise!Init
  /\ PInv /\ [GovernedNext]_allVars => PInv' /\ [Promise!Next]_<<status, writes>>
<1>1. GovernedInit => PInv /\ Promise!Init
  <2>. SUFFICES ASSUME GovernedInit PROVE PInv /\ Promise!Init
    OBVIOUS
  <2>1. IInv
    BY Inductive DEF GovernedInit
  <2>2. calls \in [Calls -> Call] /\ \A d \in Calls : calls[d].pc = "idle"
    BY DEF GovernedInit, Call
  <2>3. ProposalsTypeOK
    BY <2>2 DEF GovernedInit, ProposalsTypeOK, Statuses
  <2>4. OnlyPromoted /\ OneReplay
    BY <2>2 DEF GovernedInit, OnlyPromoted, OneReplay, Replaying, At
  <2>5. Promise!Init
    BY DEF GovernedInit, Promise!Init
  <2>. QED  BY <2>1, <2>3, <2>4, <2>5 DEF PInv
<1>2. ASSUME PInv, [GovernedNext]_allVars
      PROVE  PInv' /\ [Promise!Next]_<<status, writes>>
  <2>1. CASE \E p \in ProposalIds : ProposeEntity(p) \/ ProposeLink(p)
    BY <1>2, <2>1, ProposePreserves DEF ProposeEntity, ProposeLink
  <2>2. CASE \E d \in Calls : Authorize(d) \/ ReadStatus(d) \/ Fail(d)
    BY <1>2, <2>2, MovesPreserve
  <2>3. CASE \E d \in Calls : Reject(d)
    BY <1>2, <2>3, RejectPreserves
  <2>4. CASE \E d \in Calls : Claim(d)
    BY <1>2, <2>4, ClaimPreserves
  <2>5. CASE \E d \in Calls : Replay(d)
    BY <1>2, <2>5, ReplayPreserves
  <2>6. CASE \E d \in Calls : Record(d)
    BY <1>2, <2>6, RecordPreserves
  <2>7. CASE DirectWrite
    BY <1>2, <2>7, DirectWritePreserves
  <2>8. CASE UNCHANGED allVars
    <3>1. UNCHANGED vars /\ UNCHANGED <<status, subject, calls, writes>>
      BY <2>8 DEF allVars, vars
    <3>2. IInv'
      BY <1>2, <3>1, StutterPreserves DEF PInv
    <3>. QED  BY <1>2, <3>1, <3>2 DEF PInv, ProposalsTypeOK, OnlyPromoted, OneReplay, Held, At
  <2>. QED  BY <1>2, <2>1, <2>2, <2>3, <2>4, <2>5, <2>6, <2>7, <2>8 DEF GovernedNext
<1>. QED  BY <1>1, <1>2

\* The columns stay typed.
THEOREM ProposalsTyped == GovernedSpec => []ProposalsTypeOK
<1>1. PInv => ProposalsTypeOK
  BY DEF PInv
<1>. QED  BY <1>1, GovernedInductive, PTL DEF GovernedSpec

\* However many calls decide a proposal and wherever they stop, it is decided
\* once, applied at most once, and only after its approval (DecideProposal).
THEOREM DecidedOnceAppliedOnce == GovernedSpec => KeepsPromise
BY GovernedInductive, PTL DEF GovernedSpec, KeepsPromise, Promise!Spec

\* The governed path leaves the invariants of the store intact.
THEOREM GovernedStore == GovernedSpec => [](Consistent /\ RebuildAgrees /\ GoneStaysGone)
<1>1. PInv => Consistent /\ RebuildAgrees /\ GoneStaysGone
  BY InvariantImplies DEF PInv
<1>. QED  BY <1>1, GovernedInductive, PTL DEF GovernedSpec

\* What an approval that returned recorded is true, however other decisions, direct
\* writes and failures fall between: the intent is in the log on that subject, or it is
\* none and the proposer's key belongs to a fact of the other kind (DecideProposal).
THEOREM ApprovalRecorded == GovernedSpec => []ApprovalNamesWhatItWrote
<1>1. GovernedInit => WInv
  BY DEF GovernedInit, WInv, At
<1>2. ASSUME PInv, WInv, [GovernedNext]_allVars
      PROVE  WInv'
  <2>1. CASE \E p \in ProposalIds : ProposeEntity(p) \/ ProposeLink(p)
    BY <1>2, <2>1, OthersKeepRecords DEF ProposeEntity, ProposeLink, Propose, vars
  <2>2. CASE \E d \in Calls : Authorize(d) \/ ReadStatus(d) \/ Fail(d) \/ Claim(d)
    <3>1. PICK d \in Calls : Authorize(d) \/ ReadStatus(d) \/ Fail(d) \/ Claim(d)
      BY <2>2
    <3>2. facts' = facts /\ subject' = subject
      BY <3>1 DEF Authorize, ReadStatus, Fail, Claim, vars
    <3>3. \E pc \in {"read", "reject", "claim", "replay", "refused", "failed"} :
            GoTo(d, pc) /\ (pc = "reject" => ~ calls[d].approve)
      BY <3>1 DEF Authorize, ReadStatus, Fail, Claim
    <3>. QED  BY <1>2, <3>2, <3>3, MoveKeepsRecords
  <2>3. CASE \E d \in Calls : Reject(d)
    BY <1>2, <2>3, RejectRecordsNothing
  <2>4. CASE \E d \in Calls : Replay(d)
    BY <1>2, <2>4, ReplayRecords
  <2>5. CASE \E d \in Calls : Record(d)
    BY <1>2, <2>5, RecordRecords
  <2>6. CASE DirectWrite
    BY <1>2, <2>6, DirectWriteLogs
  <2>7. CASE UNCHANGED allVars
    BY <1>2, <2>7, OthersKeepRecords DEF allVars
  <2>. QED  BY <1>2, <2>1, <2>2, <2>3, <2>4, <2>5, <2>6, <2>7 DEF GovernedNext
<1>3. WInv => ApprovalNamesWhatItWrote
  BY DEF WInv, Recorded, ApprovalNamesWhatItWrote
<1>. QED  BY <1>1, <1>2, <1>3, GovernedInductive, PTL DEF GovernedSpec

============================================================================
