---------------------------- MODULE PortRegistry ----------------------------
(***************************************************************************)
(* What the service promises about the identity of ports, whatever their   *)
(* other columns: an id is bound to a name at most once, a name has at     *)
(* most one id at a time, and a binding that is removed is gone for good.  *)
(* Ids need not come in order: of two statements the one that has drawn    *)
(* its ids later may be the first to commit.                               *)
(***************************************************************************)
CONSTANT Names

VARIABLES
  bound,    \* the pairs <<id, name>>
  given     \* the ids that will not be bound any more

vars == <<bound, given>>

Functional(b) == \A p, q \in b : p[1] = q[1] \/ p[2] = q[2] => p = q

Init == bound = {} /\ given = {}

\* New names get ids of their own; ids may be drawn and left unused.
Bind ==
  /\ given \subseteq given'
  /\ bound \subseteq bound'
  /\ \A p \in bound' \ bound : p[1] \in given' \ given /\ p[2] \in Names
  /\ Functional(bound')

Unbind ==
  /\ bound' \subseteq bound
  /\ UNCHANGED given

Next == Bind \/ Unbind

Spec == Init /\ [][Next]_vars
=============================================================================
