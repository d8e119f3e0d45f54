------------------------------ MODULE MCUpload ------------------------------
(* Instances of Upload: keys a and b are storable, x is not. *)
EXTENDS Upload, SequencesExt

CONSTANTS
  MaxMembers,  \* members of the longest file
  Bodies       \* the kinds and keys its members have

Mark(k) == [kind |-> k, slug |-> "a"]
PortA == [kind |-> "port", slug |-> "a"]
PortB == [kind |-> "port", slug |-> "b"]
PortX == [kind |-> "port", slug |-> "x"]
MisfitB == [kind |-> "misfit", slug |-> "b"]

AllBodies == {PortA, PortB, PortX, MisfitB}
PortBodies == {PortA, PortB}

Tails == {<<>>, <<Mark("broken")>>, <<Mark("cut")>>, <<Mark("close")>>,
          <<Mark("close"), Mark("rest")>>}

Sources == {[disk |-> FALSE, fails |-> FALSE], [disk |-> TRUE, fails |-> FALSE],
            [disk |-> TRUE, fails |-> TRUE]}

Contents ==
  {<<>>, <<Mark("broken")>>}
    \cup {<<Mark("open")>> \o b \o t : b \in BoundedSeq(Bodies, MaxMembers), t \in Tails}

MCFiles == {[pieces |-> c, disk |-> s.disk, fails |-> s.fails] :
              c \in Contents, s \in Sources}
=============================================================================
