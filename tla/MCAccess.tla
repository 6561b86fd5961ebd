------------------------------ MODULE MCAccess ------------------------------
(* Inputs for model-checking Access. *)
EXTENDS Access, TLC

CONSTANTS ann, bob, b1, b2, b3, read, write, approve

To(p, grants) == [principal |-> p, grants |-> grants]

\* All name ann; b3 is bob's to the control plane.  b2 carries write, which the control
\* plane does not grant, and not approve, which it does; it loses read and may regain it.
MCOwner  == [b \in Bearers |-> ann]
MCClaims == [b \in Bearers |-> IF b = b2 THEN {read, write} ELSE {read}]
MCExpires == [b \in Bearers |-> IF b = b1 THEN 2 ELSE 4]
BothVerdicts == [b \in Bearers |->
  CASE b = b1 -> {To(ann, {read})}
    [] b = b2 -> {To(ann, {read, approve}), To(ann, {approve})}
    [] b = b3 -> {To(bob, {read}), Denied}]

\* Bound: the control plane changes its verdict of one bearer, b2 in dual mode, where b1
\* is not presented, and b3 in the other modes.
OneChange ==
  IF mode = "dual" THEN verdict[b3] # Denied /\ \A c \in Calls : calls[c].bearer # b1
  ELSE read \in verdict[b2].grants

CallSymmetry == Permutations(Calls)

============================================================================
