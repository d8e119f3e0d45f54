--------------------------- MODULE MCPortsService ---------------------------
(* Instances of PortsService: the slug "alpha" matches both patterns, "alnum" *)
(* only the one for ports, "bad" neither.                                     *)
EXTENDS PortsService

MCCols == {"name", "city"}
Zero == [k \in MCCols |-> 0]
One  == [k \in MCCols |-> 1]
Far  == [k \in MCCols |-> 2]     \* coordinates out of range
P(s, d) == [slug |-> s, data |-> d]

Creates == {[op |-> o, ports |-> <<P(s, d)>>] :
              o \in {"CreatePort", "CreateOrUpdatePort"},
              s \in {"alpha", "bad"}, d \in {Zero, One}}
           \cup {[op |-> "CreatePort", ports |-> <<P("alpha", Far)>>]}

Bulks == {[op |-> "CreateOrUpdatePortBulk", ports |-> ps] :
            ps \in {<<>>, <<P("alnum", One), P("alpha", Zero)>>,
                    <<P("alpha", One), P("alpha", Zero)>>,
                    <<P("alpha", One), P("bad", One)>>,
                    <<P("alpha", One), P("alnum", Far)>>}}

Keys == {[id |-> 1, slug |-> None], [id |-> 2, slug |-> None],
         [id |-> None, slug |-> "alpha"], [id |-> None, slug |-> "alnum"],
         [id |-> None, slug |-> None], [id |-> 1, slug |-> "alpha"]}

Patches == {[name |-> 1, city |-> Keep], [name |-> Keep, city |-> 1],
            [name |-> Keep, city |-> 2]}

KeyRequests ==
  {[op |-> o, id |-> k.id, slug |-> k.slug] : o \in {"FetchPort", "DeletePort"}, k \in Keys}
Updates ==
  {[op |-> "UpdatePort", id |-> k.id, slug |-> k.slug, patch |-> p] :
     k \in Keys, p \in Patches}

AllRequests == {[op |-> "ListPorts"]} \cup Creates \cup Bulks \cup KeyRequests \cup Updates
KeyedRequests ==
  {r \in AllRequests : r.op \in KeyOps => r.id # None \/ r.slug # None}
=============================================================================
