------------------------------ MODULE Governed ------------------------------
(***************************************************************************)
(* What the governed write path promises of each proposal, whatever happens*)
(* to the calls that decide it: it is decided at most once, for good; it is *)
(* written at most once, and only after it was approved.                   *)
(***************************************************************************)
EXTENDS Naturals

CONSTANT ProposalIds

VARIABLES
  status,   \* "none" until proposed, then "pending", "promoted" or "discarded"
  writes    \* how often the held intent was applied to the graph

Init == /\ status = [p \in ProposalIds |-> "none"]
        /\ writes = [p \in ProposalIds |-> 0]

Become(p, old, new) ==
  status[p] = old /\ status' = [status EXCEPT ![p] = new] /\ UNCHANGED writes

Write(p) ==
  /\ status[p] = "promoted" /\ writes[p] = 0
  /\ writes' = [writes EXCEPT ![p] = 1]
  /\ UNCHANGED status

Next == \E p \in ProposalIds :
  \/ Become(p, "none", "pending")
  \/ Become(p, "pending", "promoted")
  \/ Become(p, "pending", "discarded")
  \/ Write(p)

Spec == Init /\ [][Next]_<<status, writes>>

============================================================================
