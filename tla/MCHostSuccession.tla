-------------------------- MODULE MCHostSuccession --------------------------
(***************************************************************************)
(* HostSuccession for TLC.                                                 *)
(***************************************************************************)
EXTENDS HostSuccession, TLC

\* A host who comes and goes, members who come once.
HostTwice == [p \in People |-> IF p \in Hosts THEN 2 ELSE 1]
\* Members who may return while their departure is handled, and hosts who stay out.
MemberTwice == [p \in People |-> IF p \in Members THEN 2 ELSE 0]
Once == [p \in People |-> 1]
Twice == [p \in People |-> 2]

NoFaults == {}
AllFaults == FaultKinds
\* The repeated upsert of a first join resets a decision.
AnsweredFaults == FaultKinds \ {"response_lost"}

AnyMember == Permutations(Members)

=============================================================================
