-------------------------------- MODULE Wire --------------------------------
(***************************************************************************)
(* A port on its way between the client's JSON, the gateway's struct Port, *)
(* the messages Port and PortUpdatable, and the row.  A member that is     *)
(* absent is Nil; the wire does not carry a string that is empty or a list *)
(* without elements, and gives them back as Zero and Nil.                  *)
(***************************************************************************)

CONSTANTS
  Strings,   \* the columns that hold a string
  Lists,     \* the columns that hold a list of strings
  Vals,      \* what a column may hold
  Zero,      \* the empty string, the empty list, the coordinates (0, 0)
  Nil        \* an absent member

ASSUME WireAssumption ==
  /\ {"country", "code"} \subseteq Strings
  /\ Strings \cap Lists = {} /\ "coordinates" \notin Strings \cup Lists
  /\ Zero \in Vals /\ Nil \notin Vals

Cols == Strings \cup Lists \cup {"coordinates"}

\* A JSON object.  Coordinates that are not two numbers count as absent.
Body == [Cols -> Vals \cup {Nil}]

\* json.Decode into Port: a string that is absent is the empty one.
Decoded(body) ==
  [k \in Cols |-> IF k \in Strings /\ body[k] = Nil THEN Zero ELSE body[k]]

OnWire(msg) == [k \in Cols |-> IF k \in Lists /\ msg[k] = Zero THEN Nil ELSE msg[k]]

-----------------------------------------------------------------------------
(* The gateway's conversions. *)

\* The code is taken from the country.
toPbPort(port) == [port EXCEPT !["code"] = port["country"]]

\* toWString: an empty string is not carried.
toPbPortUpdatable(port) ==
  [k \in Cols |-> IF k \in Strings /\ port[k] = Zero THEN Nil ELSE port[k]]

-----------------------------------------------------------------------------
(* The service's conversions. *)

pbPortToModel(msg) == [k \in Cols |-> IF msg[k] = Nil THEN Zero ELSE msg[k]]

\* A mutant: coordinates (0, 0) are left out like other zero values.
portToPBSparse(data) ==
  [k \in Cols |-> IF k \in Lists \cup {"coordinates"} /\ data[k] = Zero THEN Nil ELSE data[k]]

\* A mutant: the country and the code are mixed up.
portToPBSwapped(data) ==
  OnWire([data EXCEPT !["code"] = data["country"], !["country"] = data["code"]])

\* A message Port for a row, its coordinates always there.
portToPB(data) == OnWire(data)

-----------------------------------------------------------------------------
(* From end to end. *)

\* The columns of the row a POST of body asks for.
Posted(body) == pbPortToModel(OnWire(toPbPort(Decoded(body))))

\* The patch an UpdatePort of body reaches the service with.
Carried(body) == OnWire(toPbPortUpdatable(Decoded(body)))

\* The body a client is shown of a row with these columns; fromPbPort copies
\* member by member, and dereferences the coordinates.
Shown(data) == portToPB(data)
=============================================================================
