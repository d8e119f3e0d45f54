---------------------------- MODULE PortsService ----------------------------
(***************************************************************************)
(* The gRPC service portentries.Service: every call runs its handler on a  *)
(* goroutine of its own, and all of them share the table.  A handler that  *)
(* issues one statement is one action from the call to the answer, since   *)
(* it touches nothing else that is shared; UpdatePort reads the row, edits *)
(* its copy and saves it, with other handlers in between.                  *)
(***************************************************************************)
EXTENDS PortTable

CONSTANTS
  Calls,        \* the calls that may be in progress at once
  Requests,     \* the requests clients make
  PortSlugs,    \* slugs matching ^[A-Z0-9]+$, which Port.Validate asks for
  PathSlugs,    \* slugs matching ^[A-Z]+$, which PortRequest.Validate asks for
  InRange,      \* the values Coordinates.Validate and the other rules accept
  Keep          \* an absent member of a PortUpdatable

ASSUME ServiceAssumption ==
  /\ PathSlugs \subseteq PortSlugs /\ PortSlugs \subseteq Slugs
  /\ InRange \subseteq Vals
  /\ Keep \notin Vals

Ids == Nat \cup {None}
Patch == [Cols -> Vals \cup {Keep}]

CreateOps == {"CreatePort", "CreateOrUpdatePort", "CreateOrUpdatePortBulk"}
KeyOps    == {"FetchPort", "DeletePort", "UpdatePort"}

IsRequest(r) ==
  \/ r.op = "ListPorts"
  \/ r.op \in CreateOps /\ r.ports \in Seq(Port)
       /\ (r.op # "CreateOrUpdatePortBulk" => Len(r.ports) = 1)
  \/ r.op \in KeyOps /\ r.id \in Ids /\ r.slug \in Slugs \cup {None}
       /\ (r.op = "UpdatePort" => r.patch \in Patch)

ASSUME RequestsAssumption == \A r \in Requests : IsRequest(r)

VARIABLES
  pc,       \* call -> "idle", "called", "fetched"
  req,      \* call -> its request
  port,     \* call -> UpdatePort's copy of the row
  server    \* "up", "down", "panicked"

callVars == <<pc, req, port>>
vars == <<tableVars, callVars, server>>

NoRow == [id |-> 0]
NoRequest == [op |-> "none"]

Init ==
  /\ TableInit
  /\ pc = [c \in Calls |-> "idle"]
  /\ req = [c \in Calls |-> NoRequest]
  /\ port = [c \in Calls |-> NoRow]
  /\ server = "up"

-----------------------------------------------------------------------------
(* The generated Validate methods. *)

ValidData(d) == \A k \in Cols : d[k] \in InRange

\* A mutant: PortUpdatable.Validate does not descend into the coordinates.
ValidPatchShallow(patch) == \A k \in Cols : patch[k] \in Vals \cup {Keep}

ValidPatch(patch) == \A k \in Cols : patch[k] \in InRange \cup {Keep}

ValidPorts(ps) ==
  ps # <<>> /\ \A i \in DOMAIN ps : ps[i].slug \in PortSlugs /\ ValidData(ps[i].data)

ValidKey(slug) == slug # None => slug \in PathSlugs

Valid(r) ==
  IF r.op \in CreateOps THEN ValidPorts(r.ports)
  ELSE r.op \in KeyOps => /\ ValidKey(r.slug)
                          /\ r.op = "UpdatePort" => ValidPatch(r.patch)

-----------------------------------------------------------------------------
(* Calls and answers. *)

Call(c, r) ==
  /\ server = "up" /\ pc[c] = "idle"
  /\ pc' = [pc EXCEPT ![c] = "called"]
  /\ req' = [req EXCEPT ![c] = r]
  /\ UNCHANGED <<tableVars, port, server>>

Running(c, op) == pc[c] = "called" /\ req[c].op = op /\ Valid(req[c])

\* A request that names neither an id nor a slug; Validate lets it pass.
Keyless(c) == req[c].op \in KeyOps /\ req[c].id = None /\ req[c].slug = None

\* A mutant: the next call in c finds the copy of the last one.
AnswerKeepingCopy(c) ==
  /\ pc' = [pc EXCEPT ![c] = "idle"]
  /\ req' = [req EXCEPT ![c] = NoRequest]
  /\ UNCHANGED <<port, server>>

Answer(c) ==
  /\ pc' = [pc EXCEPT ![c] = "idle"]
  /\ req' = [req EXCEPT ![c] = NoRequest]
  /\ port' = [port EXCEPT ![c] = NoRow]
  /\ UNCHANGED server

-----------------------------------------------------------------------------
(* Errors: the call ends, and the table is as it was. *)

RefuseRequest(c) ==
  /\ pc[c] = "called" /\ ~Valid(req[c])
  /\ Answer(c)
  /\ UNCHANGED tableVars

\* A mutant: a bulk upsert is one statement per port and fails after the first.
StatementFailsHalfway(c) ==
  /\ Running(c, "CreateOrUpdatePortBulk")
  /\ Upsert(req[c].ports[1])
  /\ Answer(c)

\* The statement fails in the database or on the way there.
StatementFails(c) ==
  /\ pc[c] # "idle" /\ Valid(req[c])
  /\ Keyless(c) => req[c].op = "DeletePort"
  /\ IF req[c].op \in CreateOps THEN FailedInsert(req[c].ports) ELSE UNCHANGED tableVars
  /\ Answer(c)

\* A mutant: the Save of a row that is gone does not return.
DoomedButSave(c) ==
  \/ req[c].op = "CreatePort" /\ Taken(req[c].ports[1].slug)
  \/ /\ req[c].op \in CreateOps
     /\ ~Distinct(req[c].ports) \/ nextId + Len(req[c].ports) > MaxId + 1
  \/ req[c].op = "DeletePort" /\ Keyless(c)
  \/ /\ req[c].op \in {"FetchPort", "UpdatePort"} /\ pc[c] = "called"
     /\ Fetched(req[c].id, req[c].slug) = {}

\* What makes the statement of a call fail by itself: the table's constraints,
\* an exhausted sequence, a DELETE with no condition, which gorm refuses, a
\* Fetch that finds no row, a Save of a row that is gone.
Doomed(c) ==
  \/ req[c].op = "CreatePort" /\ Taken(req[c].ports[1].slug)
  \/ /\ req[c].op \in CreateOps
     /\ ~Distinct(req[c].ports) \/ nextId + Len(req[c].ports) > MaxId + 1
  \/ req[c].op = "DeletePort" /\ Keyless(c)
  \/ /\ req[c].op \in {"FetchPort", "UpdatePort"} /\ pc[c] = "called"
     /\ Fetched(req[c].id, req[c].slug) = {}
  \/ pc[c] = "fetched" /\ ~\E r \in rows : r.id = port[c].id

StatementRefused(c) == Doomed(c) /\ StatementFails(c)

-----------------------------------------------------------------------------
(* The handlers. *)

CreateOrUpdatePort(c) ==
  /\ Running(c, "CreateOrUpdatePort")
  /\ Upsert(req[c].ports[1])
  /\ Answer(c)

CreateOrUpdatePortBulk(c) ==
  /\ Running(c, "CreateOrUpdatePortBulk")
  /\ BulkUpsert(req[c].ports)
  /\ Answer(c)

ListPorts(c) ==
  /\ Running(c, "ListPorts")
  /\ Answer(c)
  /\ UNCHANGED tableVars

CreatePort(c) ==
  /\ Running(c, "CreatePort")
  /\ Store(req[c].ports[1])
  /\ Answer(c)

FetchPort(c) ==
  /\ Running(c, "FetchPort") /\ ~Keyless(c)
  /\ Fetched(req[c].id, req[c].slug) # {}
  /\ Answer(c)
  /\ UNCHANGED tableVars

DeletePort(c) ==
  /\ Running(c, "DeletePort")
  /\ Delete(req[c].id, req[c].slug)
  /\ Answer(c)

\* A mutant: an absent member clears its column.
PatchedWhole(row, patch) ==
  [row EXCEPT !.data = [k \in Cols |-> IF patch[k] = Keep THEN CHOOSE v \in Vals : TRUE
                                       ELSE patch[k]]]

Patched(row, patch) ==
  [row EXCEPT !.data = [k \in Cols |-> IF patch[k] = Keep THEN row.data[k] ELSE patch[k]]]

\* The Fetch of UpdatePort, and the edits of its local copy.
UpdateFetch(c) ==
  /\ Running(c, "UpdatePort") /\ ~Keyless(c)
  /\ \E r \in Fetched(req[c].id, req[c].slug) :
       port' = [port EXCEPT ![c] = Patched(r, req[c].patch)]
  /\ pc' = [pc EXCEPT ![c] = "fetched"]
  /\ UNCHANGED <<tableVars, req, server>>

UpdateSave(c) ==
  /\ pc[c] = "fetched"
  /\ Save(port[c])
  /\ Answer(c)

-----------------------------------------------------------------------------
(* The process. *)

\* The statements that have reached PostgreSQL when the process ends.
InDatabase(c) ==
  \/ pc[c] = "called" /\ req[c].op \in CreateOps \cup {"DeletePort"} /\ Valid(req[c])
  \/ pc[c] = "fetched"

\* The calls of the process end with it, but PostgreSQL may still be busy with
\* statements of some, and commit them at any time, after a restart too.
LoseCalls ==
  /\ \E orphans \in SUBSET {c \in Calls : InDatabase(c)} :
       /\ pc'   = [c \in Calls |-> IF c \in orphans THEN pc[c] ELSE "idle"]
       /\ req'  = [c \in Calls |-> IF c \in orphans THEN req[c] ELSE NoRequest]
       /\ port' = [c \in Calls |-> IF c \in orphans THEN port[c] ELSE NoRow]
  /\ UNCHANGED tableVars

\* Datastore.Fetch dereferences id when the request names no slug, and gRPC
\* does not recover a handler's panic: the process dies with every call.
FetchPanics(c) ==
  /\ Running(c, "FetchPort") \/ Running(c, "UpdatePort")
  /\ Keyless(c)
  /\ server' = "panicked"
  /\ LoseCalls

\* GRPCServer.Stop closes every connection, or the process is killed.
Stop ==
  /\ server = "up"
  /\ server' = "down"
  /\ LoseCalls

\* The container is restarted (restart: always).
Restart ==
  /\ server # "up"
  /\ server' = "up"
  /\ UNCHANGED <<tableVars, callVars>>

-----------------------------------------------------------------------------
Handler(c) ==
  \/ CreateOrUpdatePort(c) \/ CreateOrUpdatePortBulk(c) \/ ListPorts(c)
  \/ CreatePort(c) \/ FetchPort(c) \/ DeletePort(c)
  \/ UpdateFetch(c) \/ UpdateSave(c) \/ FetchPanics(c)
  \/ RefuseRequest(c) \/ StatementRefused(c)

Next ==
  \/ \E c \in Calls, r \in Requests : Call(c, r)
  \/ \E c \in Calls : Handler(c) \/ StatementFails(c)
  \/ Stop \/ Restart

Spec == Init /\ [][Next]_vars

\* Every handler goroutine is scheduled, and every statement ends; that one
\* fails for no reason of its own is never needed.
Fairness == \A c \in Calls : WF_vars(Handler(c))
FairSpec == Spec /\ Fairness
-----------------------------------------------------------------------------
(* Properties. *)

\* Every row, request and local copy has the shape the table and the messages
\* give it, and a call has a copy of a row exactly between UpdatePort's Fetch
\* and its Save.
TypeOK ==
  /\ rows \subseteq Row /\ nextId \in 1 .. MaxId + 1
  /\ pc \in [Calls -> {"idle", "called", "fetched"}]
  /\ req \in [Calls -> Requests \cup {NoRequest}]
  /\ \A c \in Calls :
       /\ pc[c] = "idle" <=> req[c] = NoRequest
       /\ IF pc[c] = "fetched" THEN port[c] \in Row /\ req[c].op = "UpdatePort"
          ELSE port[c] = NoRow
  /\ server \in {"up", "down", "panicked"}

\* The id and the slug are each a key of the table, no row has an id the
\* sequence has yet to draw, and only slugs that Port.Validate accepts are
\* stored, whatever upserts, updates and deletes overlap.
KeysUnique ==
  /\ \A r, q \in rows : r.id = q.id \/ r.slug = q.slug => r = q
  /\ \A r \in rows : r.id < nextId /\ r.slug \in PortSlugs

\* Only coordinates that Coordinates.Validate accepts are stored: the patch of an
\* UpdatePort is validated by itself, and what it is merged into was valid too.
OnlyValidStored ==
  /\ \A r \in rows : ValidData(r.data)
  /\ \A c \in Calls : pc[c] = "fetched" => ValidData(port[c].data)

\* The id an UpdatePort holds between Fetch and Save still means the same port:
\* no row with that id has another slug, so a late Save hits the port that was
\* fetched or nothing.
SaveHitsFetchedPort ==
  \A c \in Calls : pc[c] = "fetched" =>
    \A r \in rows : r.id = port[c].id => r.slug = port[c].slug

\* CreateOrUpdatePortBulk stores all of its ports or none: one bad slug or a
\* slug given twice leaves the table as it was.  No port besides them changes.
BulkAllOrNothing ==
  [][\A c \in Calls :
       req[c].op = "CreateOrUpdatePortBulk" /\ pc'[c] # pc[c] /\ rows' # rows =>
         LET ps == req[c].ports
         IN /\ ValidPorts(ps)
            /\ \A i \in DOMAIN ps :
                 \E r \in rows' : r.slug = ps[i].slug /\ r.data = ps[i].data
            /\ \A r \in rows : (\A i \in DOMAIN ps : ps[i].slug # r.slug) => r \in rows']_vars

\* A port leaves the table only by a DeletePort that names it: no upsert, stale
\* Save, panic or restart loses a row, and no DeletePort removes another one.
OnlyDeleteRemoves ==
  [][\A r \in rows : (\A q \in rows' : q.id # r.id) =>
       \E c \in Calls :
         /\ req[c].op = "DeletePort" /\ pc'[c] # pc[c]
         /\ req[c].id \in {r.id, None} /\ req[c].slug \in {r.slug, None}]_vars

\* A call that has reached the service ends, also an UpdatePort whose row was
\* deleted after its Fetch.
CallsEnd == \A c \in Calls : (pc[c] # "idle") ~> (pc[c] = "idle")

(* The identity of ports, as the clients that keep ids rely on it. *)
Registry == INSTANCE PortRegistry WITH
  Names <- Slugs,
  bound <- {<<r.id, r.slug>> : r \in rows},
  given <- 1 .. nextId - 1

\* The service implements PortRegistry: ids are given once, and a deleted port
\* does not come back under its id, not even by an UpdatePort that had read it.
ImplementsPortRegistry == Registry!Spec

\* An UpdatePort leaves the columns its request does not carry as they are
\* ("partial update supported").  The code keeps this when calls do not
\* overlap, and breaks it when another call writes between Fetch and Save.
PartialUpdate ==
  [][\A c \in Calls : pc[c] = "fetched" /\ pc'[c] = "idle" =>
       \A r \in rows, q \in rows' : r.id = port[c].id /\ q.id = r.id =>
         \A k \in Cols : req[c].patch[k] = Keep => q.data[k] = r.data[k]]_vars

(* Claims the repository makes that the code does not keep. *)

\* "FetchPort returns ports by id or slug": a request that passes Validate gets
\* an answer instead of taking the process down.
NeverPanics == server # "panicked"

\* "fetch port by id or slug": the slug of every stored port passes the
\* validation of the requests that name a port.
EveryPortAddressable == \A r \in rows : ValidKey(r.slug)
=============================================================================
