----------------------------- MODULE Proposals -----------------------------
(***************************************************************************)
(* The write operations of the service over the store: direct ones, and the *)
(* governed path, where a proposal holds a write intent, a decision claims  *)
(* or discards it and, once claimed, replays the intent through             *)
(* AppendEntityFact or AppendEdgeFact.                                      *)
(*                                                                          *)
(* A decision is a request of the service and several statements of the     *)
(* store, none of them in a common transaction: calls in flight interleave  *)
(* between them, and each may be the last one a call gets to (a cancelled   *)
(* request, a busy database, a refused replay, a process that stops).       *)
(***************************************************************************)
EXTENDS Store

CONSTANTS
  ProposalIds,  \* ids of the proposals table
  Intent,       \* the held intent of each: its kind, writer and input
  Calls,        \* DecideProposal requests
  CanWrite,     \* who may write in which space (access.Model)
  CanRead,      \* whose filter passes the nodes of which space
  CanApprove,   \* the calls whose caller may approve in the proposals' space
  Embedder,     \* the vector of the embedder, NoVector without one
  NoSubject     \* a result_subject that names nothing: NULL, or an empty id

VARIABLES
  status,       \* column status; "none" before the row exists
  subject,      \* column result_subject
  calls,        \* where each decision stands
  writes        \* history: completed replays of each proposal

proposalVars == <<status, subject, calls, writes>>
allVars == <<facts, proj, rebuilt, status, subject, calls, writes>>

ASSUME ProposalsAssumption ==
  /\ Intent \in [ProposalIds ->
        [kind : {"entity.asserted"}, writer : Writers, input : Candidate]
          \cup [kind : {"edge.asserted"}, writer : Writers, input : EdgeInput]]
  /\ CanWrite \subseteq Writers \X Spaces /\ CanRead \subseteq Writers \X Spaces
  /\ CanApprove \subseteq Calls
  /\ Embedder \in Vectors \cup {NoVector}
  /\ NoSubject \notin EntityIds \cup EdgeIds

Statuses == {"none", "pending", "promoted", "discarded"}
Replaying == {"replay", "record"}
Returned  == {"ok", "refused", "failed"}
InFlight  == {"read", "reject", "claim"} \cup Replaying
Call == [pc : {"idle"} \cup InFlight \cup Returned, proposal : ProposalIds,
         approve : BOOLEAN, result : EntityIds \cup EdgeIds \cup {NoSubject}]

GovernedInit ==
  /\ Init
  /\ status = [p \in ProposalIds |-> "none"]
  /\ subject = [p \in ProposalIds |-> NoSubject]
  /\ writes = [p \in ProposalIds |-> 0]
  /\ calls \in [Calls -> {[pc |-> "idle", proposal |-> p, approve |-> a, result |-> NoSubject] :
                            p \in ProposalIds, a \in BOOLEAN}]

At(d, pc) == calls[d].pc = pc
GoTo(d, pc) == calls' = [calls EXCEPT ![d].pc = pc]
SetStatus(p, s) == status' = [status EXCEPT ![p] = s]
Held(d) == calls[d].proposal

----------------------------------------------------------------------------
(* The gates of a write. *)

\* The nodes a caller has read or could have: those of its spaces, in the graph now or
\* when the call looked.  A node is in the space it was first asserted in.
SeenBy(w) ==
  {f.subject : f \in {g \in facts :
     /\ g.kind = "entity.asserted" /\ <<w, g.payload.space>> \in CanRead
     /\ \A h \in facts : h.kind = "entity.asserted" /\ h.subject = g.subject => g.seq <= h.seq}}

\* The caller may write in the edge's space and read both ends, each looked up before
\* the write and not in its transaction.
AuthorizeLink(w, in) == <<w, in.space>> \in CanWrite /\ {in.from, in.to} \subseteq SeenBy(w)

\* A candidate without a vector gets the embedder's, unless it fails.
AutoEmbed(c) == IF c.vector = NoVector THEN {c, [c EXCEPT !.vector = Embedder]} ELSE {c}

CreateEntity(w, c) ==
  <<w, c.space>> \in CanWrite /\ \E e \in AutoEmbed(c) : AppendEntityFact(w, e)

Link(w, in) == AuthorizeLink(w, in) /\ AppendEdgeFact(w, in)

----------------------------------------------------------------------------
(* The statements of a decision. *)

Propose(p) ==
  /\ status[p] = "none"
  /\ SetStatus(p, "pending")
  /\ UNCHANGED <<vars, subject, calls, writes>>

ProposeEntity(p) ==
  /\ Intent[p].kind = "entity.asserted"
  /\ <<Intent[p].writer, Intent[p].input.space>> \in CanWrite
  /\ Propose(p)

ProposeLink(p) ==
  /\ Intent[p].kind = "edge.asserted"
  /\ AuthorizeLink(Intent[p].writer, Intent[p].input)
  /\ Propose(p)

\* ListProposals: the pending ones; of them, those the caller may approve.
Pending == {p \in ProposalIds : status[p] = "pending"}
Approvable(d) == IF d \in CanApprove THEN Pending ELSE {}

\* The service: find the proposal among the pending ones, ask CanApprove.
Authorize(d) ==
  /\ At(d, "idle")
  /\ GoTo(d, IF Held(d) \in Approvable(d) THEN "read" ELSE "refused")
  /\ UNCHANGED <<vars, status, subject, writes>>

\* SELECT kind, payload, status.
ReadStatus(d) ==
  /\ At(d, "read")
  /\ GoTo(d, IF status[Held(d)] # "pending" THEN "refused"
             ELSE IF calls[d].approve THEN "claim" ELSE "reject")
  /\ UNCHANGED <<vars, status, subject, writes>>

\* DEFECT: the status is one the CHECK of the table does not list.
RejectUnlisted(d) ==
  /\ At(d, "reject")
  /\ IF status[Held(d)] = "pending" THEN SetStatus(Held(d), "rejected") ELSE UNCHANGED status
  /\ GoTo(d, "ok")
  /\ UNCHANGED <<vars, subject, writes>>

\* The conditional UPDATE to discarded; how many rows it hit is not looked at.
Reject(d) ==
  /\ At(d, "reject")
  /\ IF status[Held(d)] = "pending" THEN SetStatus(Held(d), "discarded") ELSE UNCHANGED status
  /\ GoTo(d, "ok")
  /\ UNCHANGED <<vars, subject, writes>>

\* DEFECT: the claim does not look at RowsAffected.
ClaimUnchecked(d) ==
  /\ At(d, "claim")
  /\ IF status[Held(d)] = "pending" THEN SetStatus(Held(d), "promoted") ELSE UNCHANGED status
  /\ GoTo(d, "replay")
  /\ UNCHANGED <<vars, subject, writes>>

\* The conditional UPDATE to promoted; only the call that flips it goes on.
Claim(d) ==
  /\ At(d, "claim")
  /\ IF status[Held(d)] = "pending"
     THEN SetStatus(Held(d), "promoted") /\ GoTo(d, "replay")
     ELSE UNCHANGED status /\ GoTo(d, "refused")
  /\ UNCHANGED <<vars, subject, writes>>

----------------------------------------------------------------------------
(* The replay of the held intent. *)

\* The payload is JSON, so props that were never set come back as null.
Decoded(c) == [c EXCEPT !.props = Marshal(c).props]

Append(i) ==
  \/ i.kind = "entity.asserted" /\ AppendEntityFact(i.writer, Decoded(i.input))
  \/ i.kind = "edge.asserted" /\ AppendEdgeFact(i.writer, i.input)

IntentKey(i) ==
  IF i.kind = "entity.asserted" THEN EntityDedupeKey(Decoded(i.input)) ELSE EdgeDedupeKey(i.input)

\* What an earlier assertion of the intent yielded, if it is still there.
PriorResults(i) ==
  {f.subject : f \in {g \in facts : g.kind = i.kind /\ g.writer = i.writer /\ g.key = IntentKey(i)}}
    \cap (IF i.kind = "entity.asserted" THEN Live(proj) ELSE {e.id : e \in proj.edges})

\* What is in the log of the intent; the key of a nameless node is random.
Wrote(f, i) ==
  f.kind = i.kind /\ f.writer = i.writer /\ (f.key = IntentKey(i) \/ f.key[1] = "random")

\* The proposer gave its key to a fact of another kind already.  Only keys of callers can
\* meet: those the store derives name the kind.
TakenByOtherKind(i) ==
  /\ i.input.dedupe # NoKey
  /\ \E f \in facts : f.kind # i.kind /\ f.writer = i.writer /\ f.key = IntentKey(i)

\* The looked-up kind has no such fact, the foreign keys hold, and UNIQUE(writer,
\* dedupe_key) refuses the insert: ErrDuplicateFact, without a node or an edge.
RefusedAsDuplicate(i) ==
  /\ TakenByOtherKind(i)
  /\ i.kind = "edge.asserted" => {i.input.from, i.input.to} \subseteq Live(proj)

Applied(d, result) ==
  /\ calls' = [calls EXCEPT ![d].pc = "record", ![d].result = result]
  /\ writes' = [writes EXCEPT ![Held(d)] = @ + 1]
  /\ UNCHANGED <<status, subject>>

\* DEFECT: every error of the append is taken for a duplicate.
ReplayIgnoringErrors(d) ==
  LET i == Intent[Held(d)] IN
  /\ At(d, "replay")
  /\ \/ Append(i) /\ \E f \in facts' \ facts : f.kind = i.kind /\ Applied(d, f.subject)
     \/ Applied(d, NoSubject) /\ UNCHANGED vars

\* Apply the intent; a duplicate counts as applied and yields what is there, or nothing
\* when it is a duplicate of the other kind.
Replay(d) ==
  LET i == Intent[Held(d)] IN
  /\ At(d, "replay")
  /\ \/ Append(i) /\ \E f \in facts' \ facts : f.kind = i.kind /\ Applied(d, f.subject)
     \/ \E id \in PriorResults(i) : Applied(d, id) /\ UNCHANGED vars
     \/ RefusedAsDuplicate(i) /\ Applied(d, NoSubject) /\ UNCHANGED vars

\* UPDATE proposals SET result_subject, then return.
Record(d) ==
  /\ At(d, "record")
  /\ subject' = [subject EXCEPT ![Held(d)] = calls[d].result]
  /\ GoTo(d, "ok")
  /\ UNCHANGED <<vars, status, writes>>

\* Any statement may fail or be the last one: what was done stays done.
Fail(d) ==
  /\ calls[d].pc \in InFlight
  /\ GoTo(d, "failed")
  /\ UNCHANGED <<vars, status, subject, writes>>

\* The same store, written and retracted from directly.
DirectWrite ==
  /\ \/ \E w \in Writers, c \in Candidates : CreateEntity(w, c)
     \/ \E w \in Writers, in \in EdgeInputs : Link(w, in)
     \/ \E w \in Writers, id \in EntityIds : ~FreshEntity(id) /\ RetractEntity(w, id)
  /\ UNCHANGED proposalVars

GovernedNext ==
  \/ \E p \in ProposalIds : ProposeEntity(p)
  \/ \E p \in ProposalIds : ProposeLink(p)
  \/ \E d \in Calls : Authorize(d)
  \/ \E d \in Calls : ReadStatus(d)
  \/ \E d \in Calls : Reject(d)
  \/ \E d \in Calls : Claim(d)
  \/ \E d \in Calls : Replay(d)
  \/ \E d \in Calls : Record(d)
  \/ \E d \in Calls : Fail(d)
  \/ DirectWrite

GovernedSpec == GovernedInit /\ [][GovernedNext]_allVars

----------------------------------------------------------------------------
(* Properties. *)

\* Every column holds a value its table accepts (0002_proposals.sql).
ProposalsTypeOK ==
  /\ status \in [ProposalIds -> Statuses]
  /\ subject \in [ProposalIds -> EntityIds \cup EdgeIds \cup {NoSubject}]
  /\ calls \in [Calls -> Call]
  /\ writes \in [ProposalIds -> Nat]

\* However decisions interleave and wherever they stop, a proposal is decided once,
\* applied at most once, and only after its approval (sqlite/proposals.go:42-46).
Promise == INSTANCE Governed WITH ProposalIds <- ProposalIds, status <- status, writes <- writes
KeepsPromise == Promise!Spec

\* What an approval that returned without an error recorded is true: the log has the
\* intent, on the subject it names, or it names none and the proposer had given its key
\* to a fact of the other kind (sqlite/proposals.go:80-111, entities.go:107, 275-276).
ApprovalNamesWhatItWrote ==
  \A d \in Calls : At(d, "ok") /\ calls[d].approve =>
    LET i == Intent[Held(d)]
        recorded == subject[Held(d)]
    IN \/ \E f \in facts : Wrote(f, i) /\ f.subject = recorded
       \/ recorded = NoSubject /\ TakenByOtherKind(i)

\* "A proposed write and a direct write are identical once approved"
\* (sqlite/proposals.go:16-18): once no decision is under way, the log has the intent
\* that was approved.
PromotedIsWritten ==
  \A p \in ProposalIds :
    status[p] = "promoted" /\ (\A d \in Calls : Held(d) = p => calls[d].pc \notin Replaying)
      => \E f \in facts : Wrote(f, Intent[p])

============================================================================
