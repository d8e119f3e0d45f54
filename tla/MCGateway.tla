------------------------------ MODULE MCGateway ------------------------------
(* Instances of Gateway.  "ALPHA" is an ordinary slug, "00002" one of digits, *)
(* which ParseInt takes for the id 2; "x" is refused everywhere.              *)
EXTENDS Gateway

MCNumber == [s \in Slugs |-> CASE s = "1" -> 1 [] s = "00002" -> 2 [] OTHER -> None]

B(country, code, alias, coordinates) ==
  [k \in Cols |-> CASE k = "country" -> country [] k = "code" -> code
                    [] k = "alias" -> alias [] k = "coordinates" -> coordinates]

Full  == B(1, 1, 1, 1)
Empty == B(Nil, Nil, Nil, Nil)
Mixed == B(1, Nil, 0, Nil)      \* as a client writes it
Coded == B(0, 1, Nil, 0)        \* two as GET shows them
Swapped == B(1, 0, Nil, 0)

Named(s, b) == [slug |-> s, body |-> b]

Posts == {[op |-> "CreatePort", port |-> Named(s, b)] :
            s \in {"ALPHA", "00002"}, b \in {Mixed, Empty}}
         \cup {[op |-> "CreatePort", port |-> Named("x", Full)]}

Uploads == {[op |-> "UploadPortsState", ports |-> ps] :
              ps \in {<<Named("00002", Mixed), Named("ALPHA", Full)>>, <<>>}}

Puts == {[op |-> "UpdatePort", seg |-> s, body |-> b] :
           s \in {"ALPHA", "1", "00002"}, b \in {Mixed, Coded, Swapped}}

Paths == {[op |-> o, seg |-> s] : o \in {"FetchPort", "DeletePort"},
            s \in {"ALPHA", "00002", "1", "x"}}

AllHTTP == {[op |-> "ListPorts"]} \cup Posts \cup Uploads \cup Puts \cup Paths
\* Less of the same, for two requests at once.
OverlapHTTP ==
  {[op |-> "ListPorts"], [op |-> "CreatePort", port |-> Named("ALPHA", Mixed)],
   [op |-> "CreatePort", port |-> Named("00002", Empty)],
   [op |-> "UpdatePort", seg |-> "1", body |-> Mixed],
   [op |-> "FetchPort", seg |-> "ALPHA"], [op |-> "DeletePort", seg |-> "ALPHA"],
   [op |-> "DeletePort", seg |-> "1"], [op |-> "CreatePort", port |-> Named("x", Full)],
   [op |-> "UploadPortsState", ports |-> <<Named("00002", Mixed), Named("ALPHA", Full)>>]}
=============================================================================
