------------------------------- MODULE Gateway ------------------------------
(***************************************************************************)
(* The REST gateway in front of the ports service.  Every HTTP request has *)
(* a handler of its own, which makes one gRPC call and turns its answer    *)
(* into the response.  The handler goes on with an error when the          *)
(* connection breaks or the client leaves; the service may still carry the *)
(* call out.  The chunks of an upload are single bulk calls here, module   *)
(* Upload has the rest of that handler.                                    *)
(***************************************************************************)
EXTENDS Wire, Integers, Sequences

CONSTANTS
  Calls,        \* the HTTP requests that may be in progress at once
  HTTPRequests, \* the requests clients make
  Slugs, PortSlugs, PathSlugs, InRange, None, MaxId,   \* as in PortsService
  Number        \* what strconv.ParseInt makes of a string, None if an error

ASSUME GatewayAssumption ==
  /\ PathSlugs \subseteq PortSlugs /\ PortSlugs \subseteq Slugs
  /\ InRange \subseteq Vals
  /\ MaxId \in Nat /\ None \notin Nat /\ None \notin Slugs
  /\ Number \in [Slugs -> Nat \cup {None}]

PathOps == {"FetchPort", "UpdatePort", "DeletePort"}
NamedBody == [slug : Slugs, body : Body]

IsHTTPRequest(h) ==
  \/ h.op = "ListPorts"
  \/ h.op = "CreatePort" /\ h.port \in NamedBody
  \/ h.op = "UploadPortsState" /\ h.ports \in Seq(NamedBody)
  \/ h.op \in PathOps /\ h.seg \in Slugs /\ (h.op = "UpdatePort" => h.body \in Body)

ASSUME HTTPAssumption == \A h \in HTTPRequests : IsHTTPRequest(h)

-----------------------------------------------------------------------------
(* From the HTTP request to the gRPC request. *)

toPbPorts(ports) ==
  [i \in DOMAIN ports |-> [slug |-> ports[i].slug, data |-> Posted(ports[i].body)]]

\* A mutant: a slug in the path is looked at and not put into the request.
KeyIdOnly(seg) == [id |-> Number[seg], slug |-> None]

\* A path segment that parses as a number is an id, any other one a slug.
Key(seg) == [id |-> Number[seg], slug |-> IF Number[seg] = None THEN seg ELSE None]

PortRequest(h) == [op |-> h.op, id |-> Key(h.seg).id, slug |-> Key(h.seg).slug]

UpdatePortRequest(h) ==
  [op |-> h.op, id |-> Key(h.seg).id, slug |-> Key(h.seg).slug, patch |-> Carried(h.body)]

ToPb(h) ==
  CASE h.op = "ListPorts" -> [op |-> "ListPorts"]
    [] h.op = "CreatePort" -> [op |-> "CreatePort", ports |-> toPbPorts(<<h.port>>)]
    [] h.op = "UploadPortsState" ->
         [op |-> "CreateOrUpdatePortBulk", ports |-> toPbPorts(h.ports)]
    [] h.op \in {"FetchPort", "DeletePort"} -> PortRequest(h)
    [] h.op = "UpdatePort" -> UpdatePortRequest(h)

-----------------------------------------------------------------------------
VARIABLES
  rows, nextId, pc, req, port, server,   \* of the service
  web,      \* call -> the HTTP request its handler serves
  answer    \* call -> the answer of the gRPC call: its kind, the ports in it

Service == INSTANCE PortsService WITH
  Keep <- Nil,
  Requests <- {ToPb(h) : h \in HTTPRequests}

webVars == <<web, answer>>
vars == <<rows, nextId, pc, req, port, server, web, answer>>

NoWeb == [op |-> "none"]
Nothing == [kind |-> "none", ports |-> {}]
Waiting == [kind |-> "waiting", ports |-> {}]
Error   == [kind |-> "error", ports |-> {}]
Ok(R)   == [kind |-> "ok",
            ports |-> {[id |-> r.id, slug |-> r.slug, data |-> Shown(r.data)] : r \in R}]

Init ==
  /\ Service!Init
  /\ web = [c \in Calls |-> NoWeb]
  /\ answer = [c \in Calls |-> Nothing]

-----------------------------------------------------------------------------
(* The handlers up to their call. *)

Free(c) == web[c] = NoWeb /\ pc[c] = "idle"

Handle(c, h) ==
  /\ Free(c)
  /\ web' = [web EXCEPT ![c] = h]
  /\ answer' = [answer EXCEPT ![c] = Waiting]
  /\ Service!Call(c, ToPb(h))

\* The body does not decode or is too long, the path segment is empty, or the
\* service is not there: the handler has an error without having called.
Fail(c, h) ==
  /\ Free(c)
  /\ web' = [web EXCEPT ![c] = h]
  /\ answer' = [answer EXCEPT ![c] = Error]
  /\ UNCHANGED <<rows, nextId, pc, req, port, server>>

\* The client leaves or the connection breaks under one call; the service goes
\* on with it.
Lost(c) ==
  /\ answer[c] = Waiting
  /\ answer' = [answer EXCEPT ![c] = Error]
  /\ UNCHANGED <<rows, nextId, pc, req, port, server, web>>

\* respondError, or the ports of the answer as JSON.
Respond(c) ==
  /\ answer[c].kind \in {"ok", "error"}
  /\ web' = [web EXCEPT ![c] = NoWeb]
  /\ answer' = [answer EXCEPT ![c] = Nothing]
  /\ UNCHANGED <<rows, nextId, pc, req, port, server>>

-----------------------------------------------------------------------------
(* The service, and what its answers are. *)

\* The answer of a call nobody waits for is dropped.
Reply(c, a) ==
  /\ answer' = [answer EXCEPT ![c] = IF @ = Waiting THEN a ELSE @]
  /\ UNCHANGED web

ListPorts(c) == Service!ListPorts(c) /\ Reply(c, Ok(rows))

CreatePort(c) == Service!CreatePort(c) /\ Reply(c, Ok(rows' \ rows))

FetchPort(c) ==
  /\ Service!FetchPort(c)
  /\ \E r \in Service!Fetched(req[c].id, req[c].slug) : Reply(c, Ok({r}))

\* A mutant: the port is answered as it is going to be saved.
FetchForUpdateAnswers(c) == Service!UpdateFetch(c) /\ Reply(c, Ok({port'[c]}))

FetchForUpdate(c) == Service!UpdateFetch(c) /\ UNCHANGED webVars

UpdatePort(c) == Service!UpdateSave(c) /\ Reply(c, Ok({port[c]}))

DeletePort(c) == Service!DeletePort(c) /\ Reply(c, Ok({}))

CreateOrUpdatePortBulk(c) == Service!CreateOrUpdatePortBulk(c) /\ Reply(c, Ok({}))

Refuse(c) == (Service!RefuseRequest(c) \/ Service!StatementRefused(c)) /\ Reply(c, Error)

Serve(c) ==
  \/ ListPorts(c) \/ CreatePort(c) \/ FetchPort(c) \/ FetchForUpdate(c) \/ UpdatePort(c)
  \/ DeletePort(c) \/ CreateOrUpdatePortBulk(c) \/ Refuse(c)

StatementFails(c) == Service!StatementFails(c) /\ Reply(c, Error)

\* A mutant: a handler does not learn that the service is gone.
BreakUnnoticed == UNCHANGED webVars

\* Every call that waits for the process gets an error.
Break ==
  /\ answer' = [c \in Calls |-> IF answer[c] = Waiting THEN Error ELSE answer[c]]
  /\ UNCHANGED web

ServiceStops == Service!Stop /\ Break

ServiceRestarts == Service!Restart /\ UNCHANGED webVars

-----------------------------------------------------------------------------
Next ==
  \/ \E c \in Calls, h \in HTTPRequests : Handle(c, h) \/ Fail(c, h)
  \/ \E c \in Calls : Lost(c) \/ Respond(c) \/ Serve(c) \/ StatementFails(c)
  \/ ServiceStops \/ ServiceRestarts

Spec == Init /\ [][Next]_vars

\* Handlers and calls are goroutines, which are scheduled; a statement ends.
Fairness == \A c \in Calls : WF_vars(Serve(c)) /\ WF_vars(Respond(c))
FairSpec == Spec /\ Fairness
-----------------------------------------------------------------------------
(* Properties. *)

\* A call is waited for exactly while its handler has no answer, and an answer
\* belongs to a request.
TypeOK ==
  /\ web \in [Calls -> HTTPRequests \cup {NoWeb}]
  /\ \A c \in Calls :
       /\ answer[c].kind \in {"none", "waiting", "ok", "error"}
       /\ web[c] = NoWeb <=> answer[c] = Nothing
       /\ answer[c] = Waiting => pc[c] # "idle" /\ req[c] = ToPb(web[c])

\* No request of a client of the gateway ends a process: the service never gets
\* a request without id and slug, and fromPbPort finds coordinates to dereference
\* in every port the service answers with.  That is why Next has no FetchPanics.
NothingPanics ==
  /\ \A c \in Calls : ~Service!Keyless(c)
  /\ \A c \in Calls : \A p \in answer[c].ports : p.data["coordinates"] # Nil

\* A success is final: when a handler has one, the service is through with the
\* call, and no statement of it commits after the client has its response.
OkIsFinal ==
  \A c \in Calls : answer[c].kind = "ok" => pc[c] = "idle"

\* The id and the slug a client is shown go together as long as a port has that
\* id: ports may be deleted and created again behind an answer under way, and its
\* id then still means this port or nothing.
ShownIdsStayTrue ==
  \A c \in Calls : \A p \in answer[c].ports :
    /\ p.id < nextId
    /\ \A r \in rows : r.id = p.id => r.slug = p.slug

\* A member the client has sent comes back as it was sent.
Returned(body, data, columns) ==
  \A k \in columns : body[k] \notin {Nil, Zero} => data[k] = body[k]

\* The port a client is shown is the one its request names, with the members it has
\* sent, whatever happens to the row between Fetch, Save and the response: a POST shows
\* all of them but the code, which toPbPort takes from the country, and a PUT all.
ShowsWhatWasSent ==
  \A c \in Calls : answer[c].kind = "ok" => \A p \in answer[c].ports :
    LET h == web[c]
    IN /\ h.op = "CreatePort" =>
            p.slug = h.port.slug /\ Returned(h.port.body, p.data, Cols \ {"code"})
       /\ h.op \in {"FetchPort", "UpdatePort"} => p.slug = h.seg \/ p.id = Number[h.seg]
       /\ h.op = "UpdatePort" => Returned(h.body, p.data, Cols)

\* A PUT of what a GET shows changes nothing: nothing is lost or made up on the way
\* through JSON, wire and row and back.  This is for clients that do not overlap.
PutBackNeutral ==
  [][\A c \in Calls : Service!UpdateSave(c) /\ web[c].op = "UpdatePort"
       /\ (\E r \in rows : r.id = port[c].id /\ web[c].body = Shown(r.data)) => rows' = rows]_vars

\* The service behind the gateway is the service of PortsService: what holds for
\* that one whatever its clients ask holds behind the gateway.
ImplementsService == Service!Spec

\* Every HTTP request gets a response, whatever becomes of the service.
RequestsAnswered == \A c \in Calls : web[c] # NoWeb ~> web[c] = NoWeb

\* Every call of the service ends, also one that no handler waits for any more and
\* an UpdatePort whose row was deleted after its Fetch.
CallsEnd == Service!CallsEnd

\* An UpdatePort leaves the columns its request does not carry alone, as long as
\* requests do not overlap.
PartialUpdate == Service!PartialUpdate

(* Claims the repository makes that the code does not keep. *)

\* "delete port by id or slug": where the path segment is the slug of a port, that
\* port is the one that is deleted.
PathNamesPort ==
  [][\A c \in Calls : Service!DeletePort(c) /\ web[c].op = "DeletePort"
       /\ (\E r \in rows : r.slug = web[c].seg) =>
         \A r \in rows : (r \in rows') = (r.slug # web[c].seg)]_vars

\* "CreatePort creates new Port record": the port the client is shown has the
\* members of the port it has sent.
PostShowsPosted ==
  \A c \in Calls : web[c].op = "CreatePort" /\ answer[c].kind = "ok" =>
    \A p \in answer[c].ports : \A k \in Strings :
      p.data[k] = Decoded(web[c].port.body)[k]
=============================================================================
