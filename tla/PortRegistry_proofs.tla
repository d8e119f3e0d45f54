------------------------- MODULE PortRegistry_proofs ------------------------
(***************************************************************************)
(* What follows from PortRegistry alone, and so holds for everything that  *)
(* implements it.                                                          *)
(***************************************************************************)
EXTENDS PortRegistry, TLAPS

Inv ==
  /\ \A p \in bound : p[1] \in given
  /\ Functional(bound)

LEMMA Invariance == Spec => []Inv
<1>1. Init => Inv
  BY DEF Init, Inv, Functional
<1>2. Inv /\ [Next]_vars => Inv'
  <2> SUFFICES ASSUME Inv, [Next]_vars PROVE Inv'
    OBVIOUS
  <2>1. CASE Bind
    BY <2>1 DEF Inv, Bind
  <2>2. CASE Unbind
    BY <2>2 DEF Inv, Unbind, Functional
  <2>3. CASE UNCHANGED vars
    BY <2>3 DEF Inv, vars, Functional
  <2> QED
    BY <2>1, <2>2, <2>3 DEF Next
<1> QED
  BY <1>1, <1>2, PTL DEF Spec

\* The id has been given, and means nothing any more.
Gone(id) == id \in given /\ \A p \in bound : p[1] # id

\* The id of binding b has been given, and means the name of b or nothing.
Means(b) == b[1] \in given /\ \A p \in bound : p[1] = b[1] => p[2] = b[2]

Bound(b) == b \in bound

-----------------------------------------------------------------------------
\* An id whose binding was removed (DeletePort) is never bound again.
THEOREM GoneForGood ==
  ASSUME NEW id
  PROVE  Spec => [](Gone(id) => []Gone(id))
<1>1. Gone(id) /\ [Next]_vars => Gone(id)'
  BY DEF Gone, Next, Bind, Unbind, vars
<1> QED
  BY <1>1, PTL DEF Spec

\* An id that has been bound to a name (the slug of a port) means that name or
\* nothing from then on, whatever is deleted and created in between.
THEOREM NameForGood ==
  ASSUME NEW b
  PROVE  Spec => [](Bound(b) => []Means(b))
<1>1. Inv /\ Bound(b) => Means(b)
  BY DEF Inv, Bound, Means, Functional
<1>2. Means(b) /\ [Next]_vars => Means(b)'
  BY DEF Means, Next, Bind, Unbind, vars
<1> QED
  BY <1>1, <1>2, Invariance, PTL DEF Spec
=============================================================================
