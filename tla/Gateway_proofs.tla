--------------------------- MODULE Gateway_proofs ---------------------------
(***************************************************************************)
(* What holds behind and in front of the gateway for every set of handlers *)
(* and HTTP requests: the service is PortsService with the requests the    *)
(* gateway makes, so that its theorems are used here.                      *)
(***************************************************************************)
EXTENDS Gateway, TLAPS

\* The theorems about PortsService, for the requests of the gateway.
S == INSTANCE PortsService_proofs WITH
  Keep <- Nil,
  Requests <- {ToPb(h) : h \in HTTPRequests}

-----------------------------------------------------------------------------
(* From end to end. *)

Columns == [Cols -> Vals]

\* What a POST asks for is a row's worth of values, whatever its body leaves out.
LEMMA PostedType == ASSUME NEW body \in Body  PROVE Posted(body) \in Columns
BY WireAssumption DEF Posted, pbPortToModel, OnWire, toPbPort, Decoded, Body, Columns, Cols

\* A PUT carries a value or nothing in each column.
LEMMA CarriedType == ASSUME NEW body \in Body  PROVE Carried(body) \in [Cols -> Vals \cup {Nil}]
BY WireAssumption DEF Carried, OnWire, toPbPortUpdatable, Decoded, Body, Cols

\* In what a client is shown of a row, the coordinates are there.
LEMMA ShownCoordinates ==
  ASSUME NEW data \in Columns  PROVE Shown(data)["coordinates"] # Nil
BY WireAssumption DEF Shown, portToPB, OnWire, Columns, Cols

\* What is shown of a row and put back leaves each column as it is or does not carry it.
LEMMA ShownIsCarried ==
  ASSUME NEW data \in Columns, NEW k \in Cols
  PROVE  Carried(Shown(data))[k] \in {data[k], Nil}
BY WireAssumption
DEF Carried, OnWire, toPbPortUpdatable, Decoded, Shown, portToPB, Columns, Cols

\* A member of a POST is shown as it was sent, the code apart.
LEMMA PostedIsShown ==
  ASSUME NEW body \in Body  PROVE Returned(body, Shown(Posted(body)), Cols \ {"code"})
BY WireAssumption
DEF Returned, Shown, portToPB, Posted, pbPortToModel, OnWire, toPbPort, Decoded, Body, Cols

\* A PUT carries the members it was sent, and they are shown as they are stored.
LEMMA CarriedIsShown ==
  ASSUME NEW body \in Body, NEW data \in Columns,
         \A k \in Cols : Carried(body)[k] # Nil => data[k] = Carried(body)[k]
  PROVE  Returned(body, Shown(data), Cols)
<1> SUFFICES ASSUME NEW k \in Cols, body[k] \notin {Nil, Zero}  PROVE Shown(data)[k] = body[k]
  BY DEF Returned
<1>1. Carried(body)[k] = body[k]
  BY WireAssumption DEF Carried, OnWire, toPbPortUpdatable, Decoded, Body, Cols
<1>2. data[k] = body[k]
  BY <1>1
<1> QED
  BY <1>2, WireAssumption DEF Shown, portToPB, OnWire, Columns, Cols

-----------------------------------------------------------------------------
(* The requests the service gets. *)

\* No path segment makes a request without id and slug.
LEMMA KeyNamesSomething ==
  ASSUME NEW seg \in Slugs
  PROVE  /\ Key(seg).id \in Nat \cup {None} /\ Key(seg).slug \in Slugs \cup {None}
         /\ Key(seg).id # None \/ Key(seg).slug # None
BY GatewayAssumption DEF Key

\* Every handler makes a request of the kind its message has, with its type.
LEMMA ToPbShape ==
  ASSUME NEW h \in HTTPRequests
  PROVE  /\ S!IsRequest(ToPb(h))
         /\ ToPb(h).op \in S!KeyOps => ToPb(h).id # None \/ ToPb(h).slug # None
<1>1. IsHTTPRequest(h)
  BY HTTPAssumption
<1>2. ASSUME NEW ports \in Seq(NamedBody)
      PROVE  toPbPorts(ports) \in Seq(S!Port) /\ Len(toPbPorts(ports)) = Len(ports)
  <2>1. \A i \in DOMAIN ports : [slug |-> ports[i].slug, data |-> Posted(ports[i].body)] \in S!Port
    <3> SUFFICES ASSUME NEW i \in DOMAIN ports
                 PROVE  [slug |-> ports[i].slug, data |-> Posted(ports[i].body)] \in S!Port
      OBVIOUS
    <3>0. ports[i] \in NamedBody
      OBVIOUS
    <3>1. ports[i].slug \in Slugs /\ ports[i].body \in Body
      BY <3>0 DEF NamedBody
    <3>2. Posted(ports[i].body) \in Columns
      BY <3>1, PostedType
    <3> QED
      BY <3>1, <3>2 DEF S!Port, S!Data, Columns
  <2>2. DOMAIN ports = 1 .. Len(ports) /\ Len(ports) \in Nat
    OBVIOUS
  <2>3. toPbPorts(ports) \in [1 .. Len(ports) -> S!Port]
    BY <2>1, <2>2 DEF toPbPorts
  <2> QED
    BY <2>2, <2>3
<1>3. CASE h.op = "ListPorts"
  BY <1>3 DEF ToPb, S!IsRequest, S!KeyOps
<1>4. CASE h.op = "CreatePort"
  <2>1. <<h.port>> \in Seq(NamedBody) /\ Len(<<h.port>>) = 1
    BY <1>1, <1>4 DEF IsHTTPRequest, PathOps
  <2>2. ToPb(h) = [op |-> "CreatePort", ports |-> toPbPorts(<<h.port>>)]
    BY <1>4 DEF ToPb
  <2>3. toPbPorts(<<h.port>>) \in Seq(S!Port) /\ Len(toPbPorts(<<h.port>>)) = 1
    BY <1>2, <2>1
  <2> QED
    BY <2>2, <2>3 DEF S!IsRequest, S!CreateOps, S!KeyOps
<1>5. CASE h.op = "UploadPortsState"
  <2>1. h.ports \in Seq(NamedBody)
    BY <1>1, <1>5 DEF IsHTTPRequest, PathOps
  <2>2. ToPb(h) = [op |-> "CreateOrUpdatePortBulk", ports |-> toPbPorts(h.ports)]
    BY <1>5 DEF ToPb
  <2> QED
    BY <1>2, <2>1, <2>2 DEF S!IsRequest, S!CreateOps, S!KeyOps
<1>6. CASE h.op \in {"FetchPort", "DeletePort"}
  <2>1. h.seg \in Slugs
    BY <1>1, <1>6 DEF IsHTTPRequest, PathOps
  <2>2. ToPb(h) = [op |-> h.op, id |-> Key(h.seg).id, slug |-> Key(h.seg).slug]
    BY <1>6 DEF ToPb, PortRequest
  <2> QED
    BY <1>6, <2>1, <2>2, KeyNamesSomething DEF S!IsRequest, S!Ids, S!CreateOps, S!KeyOps
<1>7. CASE h.op = "UpdatePort"
  <2>1. h.seg \in Slugs /\ h.body \in Body
    BY <1>1, <1>7 DEF IsHTTPRequest, PathOps
  <2>2. ToPb(h) = [op |-> "UpdatePort", id |-> Key(h.seg).id, slug |-> Key(h.seg).slug,
                   patch |-> Carried(h.body)]
    BY <1>7 DEF ToPb, UpdatePortRequest
  <2> QED
    BY <2>1, <2>2, KeyNamesSomething, CarriedType
    DEF S!IsRequest, S!Ids, S!Patch, S!CreateOps, S!KeyOps
<1> QED
  BY <1>1, <1>3, <1>4, <1>5, <1>6, <1>7 DEF IsHTTPRequest, PathOps

\* What PortsService assumes of its constants is so behind the gateway.
LEMMA TableAssumed == S!TableAssumption
BY GatewayAssumption DEF S!TableAssumption

LEMMA ServiceAssumed == S!ServiceAssumption
BY GatewayAssumption, WireAssumption DEF S!ServiceAssumption

LEMMA RequestsAssumed == S!RequestsAssumption
BY ToPbShape DEF S!RequestsAssumption

-----------------------------------------------------------------------------
(* Module Gateway and this one instantiate the same service. *)

LEMMA SameInit == Service!Init <=> S!Init
BY DEF Service!Init, S!Init, Service!TableInit, S!TableInit, Service!NoRow, S!NoRow,
   Service!NoRequest, S!NoRequest

LEMMA SameVars == UNCHANGED Service!vars <=> UNCHANGED S!vars
BY DEF Service!vars, S!vars, Service!tableVars, S!tableVars, Service!callVars, S!callVars

LEMMA SameNext == Service!Next <=> S!Next
BY Zenon
DEF Service!Next, S!Next,
      Service!Data, S!Data, Service!Conflicts, S!Conflicts, Service!Taken, S!Taken, Service!IdFor, S!IdFor,
      Service!Distinct, S!Distinct, Service!BulkUpsert, S!BulkUpsert, Service!Upsert,
      S!Upsert, Service!Store, S!Store, Service!FailedInsert, S!FailedInsert,
      Service!Fetched, S!Fetched, Service!Save, S!Save, Service!Delete, S!Delete,
      Service!CreateOps, S!CreateOps, Service!KeyOps, S!KeyOps, Service!ValidData,
      S!ValidData, Service!ValidPatch, S!ValidPatch, Service!ValidPorts, S!ValidPorts,
      Service!ValidKey, S!ValidKey, Service!Valid, S!Valid, Service!Call, S!Call,
      Service!Running, S!Running, Service!Keyless, S!Keyless, Service!Answer, S!Answer,
      Service!RefuseRequest, S!RefuseRequest, Service!StatementFails, S!StatementFails,
      Service!Doomed, S!Doomed, Service!StatementRefused, S!StatementRefused,
      Service!CreateOrUpdatePort, S!CreateOrUpdatePort, Service!CreateOrUpdatePortBulk,
      S!CreateOrUpdatePortBulk, Service!ListPorts, S!ListPorts, Service!CreatePort,
      S!CreatePort, Service!FetchPort, S!FetchPort, Service!DeletePort, S!DeletePort,
      Service!Patched, S!Patched, Service!UpdateFetch, S!UpdateFetch,
      Service!UpdateSave, S!UpdateSave, Service!InDatabase, S!InDatabase,
      Service!LoseCalls, S!LoseCalls, Service!FetchPanics, S!FetchPanics, Service!Stop,
      S!Stop, Service!Restart, S!Restart, Service!Handler, S!Handler, Service!tableVars,
      S!tableVars, Service!callVars, S!callVars, Service!NoRow, S!NoRow,
      Service!NoRequest, S!NoRequest

LEMMA SamePartialUpdate == Service!PartialUpdate <=> S!PartialUpdate
BY Zenon
DEF Service!PartialUpdate, S!PartialUpdate, Service!vars, S!vars, Service!tableVars,
    S!tableVars, Service!callVars, S!callVars

-----------------------------------------------------------------------------
(* The service behind the gateway is PortsService. *)

LEMMA InitMaps == Init => S!Init
BY SameInit DEF Init

LEMMA StepMaps == [Next]_vars => [S!Next]_(S!vars)
<1> SUFFICES ASSUME [Next]_vars  PROVE Service!Next \/ UNCHANGED Service!vars
  BY SameNext, SameVars
<1> USE DEF Service!vars, Service!tableVars, Service!callVars
<1>1. CASE \E c \in Calls, h \in HTTPRequests : Handle(c, h) \/ Fail(c, h)
  BY <1>1 DEF Handle, Fail, Service!Next
<1>2. CASE \E c \in Calls : Lost(c) \/ Respond(c)
  BY <1>2 DEF Lost, Respond
<1>3. CASE \E c \in Calls : Serve(c) \/ StatementFails(c)
  BY <1>3
  DEF Serve, ListPorts, CreatePort, FetchPort, FetchForUpdate, UpdatePort, DeletePort,
      CreateOrUpdatePortBulk, Refuse, StatementFails, Service!Next, Service!Handler
<1>4. CASE ServiceStops \/ ServiceRestarts
  BY <1>4 DEF ServiceStops, ServiceRestarts, Service!Next
<1>5. CASE UNCHANGED vars
  BY <1>5 DEF vars
<1> QED
  BY <1>1, <1>2, <1>3, <1>4, <1>5 DEF Next

\* For every set of HTTP requests and handlers: whatever is proved of PortsService for
\* all clients holds of the service when the gateway is its client.
THEOREM GatewayDrivesTheService == Spec => ImplementsService
<1>1. [Next]_vars => [Service!Next]_(Service!vars)
  BY StepMaps, SameNext, SameVars
<1>2. Init => Service!Init
  BY DEF Init
<1> QED
  BY <1>1, <1>2, PTL DEF Spec, ImplementsService, Service!Spec

\* So do its rows, its keys and its requests.
LEMMA ServiceInvariant == Spec => []S!Inv
<1>1. S!Spec => []S!Inv
  BY S!Invariance, TableAssumed, ServiceAssumed, RequestsAssumed
<1> QED
  BY <1>1, InitMaps, StepMaps, PTL DEF Spec, S!Spec

-----------------------------------------------------------------------------
(* The handlers: what they wait for and what they have to show.            *)

HandlersOK ==
  /\ web \in [Calls -> HTTPRequests \cup {NoWeb}] /\ DOMAIN answer = Calls
  /\ \A c \in Calls :
       /\ answer[c] \in {Nothing, Waiting, Error} \/ answer[c].kind = "ok"
       /\ web[c] = NoWeb <=> answer[c] = Nothing
       /\ answer[c] = Waiting => pc[c] # "idle"
       /\ answer[c].kind = "ok" => pc[c] = "idle"
       /\ web[c] # NoWeb /\ pc[c] # "idle" => req[c] = ToPb(web[c])

\* The id of a port that is shown is drawn, and means that port or nothing.
Shows(p) == p.id \in Nat /\ p.data["coordinates"] # Nil /\ S!Held(p, rows, nextId)

AnswersOK == \A c \in Calls : \A p \in answer[c].ports : Shows(p)

\* The four kinds of answers are told apart by their kind.
LEMMA Kinds ==
  /\ Nothing.kind = "none" /\ Waiting.kind = "waiting" /\ Error.kind = "error"
  /\ Nothing.ports = {} /\ Waiting.ports = {} /\ Error.ports = {}
  /\ \A R : Ok(R).kind = "ok"
  /\ Nothing # Waiting /\ Nothing # Error /\ Waiting # Error
BY DEF Nothing, Waiting, Error, Ok

\* A handler that serves a request knows it is one.
LEMMA NoWebIsNone == NoWeb \notin HTTPRequests
BY HTTPAssumption DEF IsHTTPRequest, NoWeb, PathOps

\* What the end of a call has to show: rows as they are after it, or an error.
Outcome(c) ==
  /\ Service!Answer(c)
  /\ \/ Reply(c, Error)
     \/ \E R \in SUBSET S!Row :
          Reply(c, Ok(R)) /\ \A r \in R : S!Held(r, rows', nextId')

LEMMA ServeOutcome ==
  ASSUME S!Inv, S!Inv', NEW c \in Calls, Serve(c) \/ StatementFails(c)
  PROVE  FetchForUpdate(c) \/ Outcome(c)
<1>1. ASSUME NEW r \in rows'  PROVE r \in S!Row /\ S!Held(r, rows', nextId')
  BY <1>1 DEF S!Inv, S!TableTypeOK, S!Keys, S!Held
<1>2. CASE ListPorts(c)
  <2>1. Service!Answer(c) /\ rows' = rows /\ Reply(c, Ok(rows'))
    BY <1>2 DEF ListPorts, Service!ListPorts, Service!tableVars
  <2>2. rows' \in SUBSET S!Row
    BY <1>1
  <2> QED
    BY <1>1, <2>1, <2>2 DEF Outcome
<1>3. CASE CreatePort(c)
  <2>1. Service!Answer(c) /\ Reply(c, Ok(rows' \ rows))
    BY <1>3 DEF CreatePort, Service!CreatePort
  <2>2. rows' \ rows \in SUBSET S!Row
    BY <1>1
  <2> QED
    BY <1>1, <2>1, <2>2 DEF Outcome
<1>4. CASE FetchPort(c)
  <2>1. Service!Answer(c) /\ rows' = rows
    BY <1>4 DEF FetchPort, Service!FetchPort, Service!tableVars
  <2>2. PICK r \in rows : Reply(c, Ok({r}))
    BY <1>4 DEF FetchPort, Service!Fetched
  <2>3. {r} \in SUBSET S!Row /\ S!Held(r, rows', nextId')
    BY <1>1, <2>1
  <2> QED
    BY <2>1, <2>2, <2>3 DEF Outcome
<1>5. CASE UpdatePort(c)
  <2>1. pc[c] = "fetched" /\ Service!Save(port[c]) /\ Service!Answer(c) /\ Reply(c, Ok({port[c]}))
    BY <1>5 DEF UpdatePort, Service!UpdateSave
  <2>2. port[c] \in rows'
    BY <2>1 DEF Service!Save
  <2>3. {port[c]} \in SUBSET S!Row /\ S!Held(port[c], rows', nextId')
    BY <1>1, <2>2
  <2> QED
    BY <2>1, <2>3 DEF Outcome
<1>6. CASE DeletePort(c) \/ CreateOrUpdatePortBulk(c)
  <2>1. Service!Answer(c) /\ Reply(c, Ok({})) /\ {} \in SUBSET S!Row
    BY <1>6 DEF DeletePort, CreateOrUpdatePortBulk, Service!DeletePort,
       Service!CreateOrUpdatePortBulk
  <2> QED
    BY <2>1 DEF Outcome
<1>7. CASE Refuse(c) \/ StatementFails(c)
  BY <1>7 DEF Refuse, StatementFails, Service!RefuseRequest, Service!StatementRefused,
     Service!StatementFails, Outcome
<1> QED
  BY <1>2, <1>3, <1>4, <1>5, <1>6, <1>7 DEF Serve

-----------------------------------------------------------------------------
(* Every step keeps both. *)

LEMMA InitHandlers == Init => HandlersOK /\ AnswersOK
<1> SUFFICES ASSUME Init  PROVE HandlersOK /\ AnswersOK
  OBVIOUS
<1>1. \A c \in Calls : web[c] = NoWeb /\ answer[c] = Nothing /\ pc[c] = "idle"
  BY DEF Init, Service!Init
<1>2. web \in [Calls -> HTTPRequests \cup {NoWeb}] /\ DOMAIN answer = Calls
  BY DEF Init
<1> QED
  BY <1>1, <1>2, Kinds DEF HandlersOK, AnswersOK

\* A handler whose call ends has what it ended with, if it still waits for it.
LEMMA OutcomeKeeps ==
  ASSUME S!Inv, HandlersOK, NEW c \in Calls, Outcome(c)
  PROVE  HandlersOK'
<1>1. PICK a : Reply(c, a) /\ (a = Error \/ a.kind = "ok")
  BY Kinds DEF Outcome
<1>2. /\ web' = web /\ answer' = [answer EXCEPT ![c] = IF @ = Waiting THEN a ELSE @]
      /\ pc' = [pc EXCEPT ![c] = "idle"] /\ req' = [req EXCEPT ![c] = Service!NoRequest]
      /\ pc \in [Calls -> {"idle", "called", "fetched"}]
      /\ req \in [Calls -> {ToPb(h) : h \in HTTPRequests} \cup {S!NoRequest}]
  BY <1>1 DEF Reply, Outcome, Service!Answer, S!Inv, S!CallTypeOK
<1>3. \A d \in Calls : d # c => answer'[d] = answer[d] /\ pc'[d] = pc[d] /\ req'[d] = req[d]
  BY <1>2 DEF HandlersOK
<1>4. pc'[c] = "idle" /\ answer'[c] = (IF answer[c] = Waiting THEN a ELSE answer[c])
  BY <1>2 DEF HandlersOK
<1>5. DOMAIN answer' = Calls
  BY <1>2 DEF HandlersOK
<1> QED
  BY <1>1, <1>2, <1>3, <1>4, <1>5, Kinds DEF HandlersOK

\* A step of the service leaves what is shown true.
LEMMA ShownStays ==
  ASSUME S!Inv, S!Inv', [S!Next]_(S!vars), NEW p, Shows(p)
  PROVE  Shows(p)'
<1>1. S!Binds \/ S!Removes
  BY S!StepEvolves, TableAssumed, ServiceAssumed, RequestsAssumed
<1>2. S!Held(p, rows', nextId')
  BY <1>1, S!HeldStays, TableAssumed, ServiceAssumed, RequestsAssumed DEF Shows, S!Inv
<1> QED
  BY <1>2 DEF Shows

LEMMA StepHandlers ==
  S!Inv /\ S!Inv' /\ HandlersOK /\ AnswersOK /\ [Next]_vars => HandlersOK' /\ AnswersOK'
<1> SUFFICES ASSUME S!Inv, S!Inv', HandlersOK, AnswersOK, [Next]_vars
             PROVE  HandlersOK' /\ AnswersOK'
  OBVIOUS
<1>0. /\ pc \in [Calls -> {"idle", "called", "fetched"}]
      /\ req \in [Calls -> {ToPb(h) : h \in HTTPRequests} \cup {S!NoRequest}]
  BY DEF S!Inv, S!CallTypeOK
<1>1. ASSUME NEW p, Shows(p)  PROVE Shows(p)'
  BY <1>1, ShownStays, StepMaps
<1>2. ASSUME \A c \in Calls : answer'[c] = answer[c] \/ answer'[c].ports = {}
      PROVE  AnswersOK'
  BY <1>1, <1>2 DEF AnswersOK
<1>3. ASSUME NEW c \in Calls, NEW h \in HTTPRequests, Handle(c, h)
      PROVE  HandlersOK' /\ AnswersOK'
  <2>1. /\ web' = [web EXCEPT ![c] = h] /\ answer' = [answer EXCEPT ![c] = Waiting]
        /\ pc' = [pc EXCEPT ![c] = "called"] /\ req' = [req EXCEPT ![c] = ToPb(h)]
    BY <1>3 DEF Handle, Service!Call
  <2> QED
    BY <1>0, <1>2, <2>1, Kinds, NoWebIsNone DEF HandlersOK
<1>4. ASSUME NEW c \in Calls, NEW h \in HTTPRequests, Fail(c, h)
      PROVE  HandlersOK' /\ AnswersOK'
  <2>1. /\ web' = [web EXCEPT ![c] = h] /\ answer' = [answer EXCEPT ![c] = Error]
        /\ pc' = pc /\ req' = req /\ pc[c] = "idle"
    BY <1>4 DEF Fail, Free
  <2> QED
    BY <1>0, <1>2, <2>1, Kinds, NoWebIsNone DEF HandlersOK
<1>5. ASSUME NEW c \in Calls, Lost(c)  PROVE HandlersOK' /\ AnswersOK'
  <2>1. /\ web' = web /\ answer' = [answer EXCEPT ![c] = Error] /\ answer[c] = Waiting
        /\ pc' = pc /\ req' = req
    BY <1>5 DEF Lost
  <2> QED
    BY <1>0, <1>2, <2>1, Kinds DEF HandlersOK
<1>6. ASSUME NEW c \in Calls, Respond(c)  PROVE HandlersOK' /\ AnswersOK'
  <2>1. /\ web' = [web EXCEPT ![c] = NoWeb] /\ answer' = [answer EXCEPT ![c] = Nothing]
        /\ pc' = pc /\ req' = req
    BY <1>6 DEF Respond
  <2> QED
    BY <1>0, <1>2, <2>1, Kinds DEF HandlersOK
<1>7. ASSUME NEW c \in Calls, FetchForUpdate(c)  PROVE HandlersOK' /\ AnswersOK'
  <2>1. web' = web /\ answer' = answer /\ pc[c] = "called"
        /\ pc' = [pc EXCEPT ![c] = "fetched"] /\ req' = req
    BY <1>7 DEF FetchForUpdate, webVars, Service!UpdateFetch, Service!Running
  <2> QED
    BY <1>0, <1>2, <2>1, Kinds DEF HandlersOK
<1>8. ASSUME NEW c \in Calls, Outcome(c)  PROVE HandlersOK' /\ AnswersOK'
  <2>1. CASE Reply(c, Error)
    <3>1. \A d \in Calls : answer'[d] = answer[d] \/ answer'[d].ports = {}
      BY <2>1, Kinds DEF Reply, HandlersOK
    <3> QED
      BY <1>2, <1>8, <3>1, OutcomeKeeps
  <2>2. CASE \E R \in SUBSET S!Row :
               Reply(c, Ok(R)) /\ \A r \in R : S!Held(r, rows', nextId')
    <3>1. PICK R \in SUBSET S!Row :
            Reply(c, Ok(R)) /\ \A r \in R : S!Held(r, rows', nextId')
      BY <2>2
    <3>2. ASSUME NEW p \in Ok(R).ports  PROVE Shows(p)'
      <4>1. PICK r \in R : p = [id |-> r.id, slug |-> r.slug, data |-> Shown(r.data)]
        BY <3>2 DEF Ok
      <4>2. r.data \in Columns /\ r.id \in Nat
        BY DEF S!Row, S!Data, Columns
      <4>3. Shown(r.data)["coordinates"] # Nil
        BY <4>2, ShownCoordinates
      <4>4. S!Held(p, rows', nextId')
        BY <3>1, <4>1 DEF S!Held
      <4> QED
        BY <4>1, <4>2, <4>3, <4>4 DEF Shows
    <3>3. \A d \in Calls : answer'[d] = answer[d] \/ answer'[d] = Ok(R)
      BY <3>1 DEF Reply, HandlersOK
    <3>4. AnswersOK'
      BY <1>1, <3>2, <3>3 DEF AnswersOK
    <3> QED
      BY <1>8, <3>4, OutcomeKeeps
  <2> QED
    BY <1>8, <2>1, <2>2 DEF Outcome
<1>9. CASE ServiceStops
  <2>1. \A c \in Calls : \/ pc'[c] = pc[c] /\ req'[c] = req[c]
                         \/ pc'[c] = "idle"
    BY <1>9 DEF ServiceStops, Service!Stop, Service!LoseCalls
  <2>2. /\ web' = web /\ DOMAIN answer' = Calls
        /\ \A c \in Calls : answer'[c] = IF answer[c] = Waiting THEN Error ELSE answer[c]
    BY <1>9 DEF ServiceStops, Break
  <2> QED
    BY <1>0, <1>2, <2>1, <2>2, Kinds DEF HandlersOK
<1>10. CASE ServiceRestarts \/ UNCHANGED vars
  <2>1. UNCHANGED <<web, answer, pc, req>>
    BY <1>10 DEF ServiceRestarts, Service!Restart, Service!callVars, webVars, vars
  <2> QED
    BY <1>2, <2>1 DEF HandlersOK
<1> QED
  BY <1>3, <1>4, <1>5, <1>6, <1>7, <1>8, <1>9, <1>10, ServeOutcome DEF Next

LEMMA HandlersInvariant == Spec => [](HandlersOK /\ AnswersOK)
<1> QED
  BY InitHandlers, StepHandlers, ServiceInvariant, PTL DEF Spec

-----------------------------------------------------------------------------
(* The results. *)

\* A call is waited for exactly while its handler has no answer.
THEOREM TypeCorrect == Spec => []TypeOK
<1>1. HandlersOK => TypeOK
  BY Kinds, NoWebIsNone DEF HandlersOK, TypeOK
<1> QED
  BY <1>1, HandlersInvariant, PTL

\* For every HTTP request: the service never gets one that makes Fetch dereference nil,
\* and fromPbPort never meets a port without coordinates.
THEOREM NothingEverPanics == Spec => []NothingPanics
<1>1. S!Inv /\ AnswersOK => NothingPanics
  <2> SUFFICES ASSUME S!Inv, AnswersOK, NEW c \in Calls  PROVE ~Service!Keyless(c)
    BY DEF NothingPanics, AnswersOK, Shows
  <2>1. req[c] \in {ToPb(h) : h \in HTTPRequests} \cup {S!NoRequest}
    BY DEF S!Inv, S!CallTypeOK
  <2>2. CASE req[c] = S!NoRequest
    BY <2>2 DEF S!NoRequest, Service!Keyless, Service!KeyOps
  <2>3. CASE \E h \in HTTPRequests : req[c] = ToPb(h)
    BY <2>3, ToPbShape DEF Service!Keyless, Service!KeyOps, S!KeyOps
  <2> QED
    BY <2>1, <2>2, <2>3
<1> QED
  BY <1>1, ServiceInvariant, HandlersInvariant, PTL

\* However calls are lost, retried and overlap: no statement of a call commits after
\* the client has its success.
THEOREM SuccessIsFinal == Spec => []OkIsFinal
<1>1. HandlersOK => OkIsFinal
  BY DEF HandlersOK, OkIsFinal
<1> QED
  BY <1>1, HandlersInvariant, PTL

\* The ids in a response keep their meaning, whatever is stored and deleted meanwhile.
THEOREM IdsStayTrue == Spec => []ShownIdsStayTrue
<1>1. AnswersOK => ShownIdsStayTrue
  BY DEF AnswersOK, Shows, S!Held, ShownIdsStayTrue
<1> QED
  BY <1>1, HandlersInvariant, PTL

-----------------------------------------------------------------------------
(* What a client is shown of what it has sent. *)

\* The part of ShowsWhatWasSent about one port that the handler of h has to show.
Fits(h, p) ==
  /\ h.op = "CreatePort" =>
       p.slug = h.port.slug /\ Returned(h.port.body, p.data, Cols \ {"code"})
  /\ h.op \in {"FetchPort", "UpdatePort"} => p.slug = h.seg \/ p.id = Number[h.seg]
  /\ h.op = "UpdatePort" => Returned(h.body, p.data, Cols)

\* A row as it is in the answer of a call.
InAnswer(r) == [id |-> r.id, slug |-> r.slug, data |-> Shown(r.data)]

\* A handler comes to show ports by the answer of its own call.
LEMMA NewlyShown ==
  ASSUME S!Inv, HandlersOK, [Next]_vars, NEW c \in Calls, answer'[c].kind = "ok"
  PROVE  \/ answer'[c] = answer[c] /\ web'[c] = web[c]
         \/ Serve(c) /\ answer[c] = Waiting /\ web' = web
<1>1. ASSUME NEW d \in Calls, Serve(d), ~FetchForUpdate(d)
      PROVE  \E a : Reply(d, a)
  BY <1>1 DEF Serve, ListPorts, CreatePort, FetchPort, UpdatePort, DeletePort,
     CreateOrUpdatePortBulk, Refuse
<1>2. ASSUME NEW d \in Calls, NEW a, Reply(d, a)
      PROVE  web' = web /\ (answer'[c] = answer[c] \/ (d = c /\ answer[c] = Waiting))
  BY <1>2 DEF Reply, HandlersOK
<1>3. ASSUME NEW d \in Calls, Serve(d)
      PROVE  web' = web /\ (answer'[c] = answer[c] \/ (Serve(c) /\ answer[c] = Waiting))
  <2>1. CASE FetchForUpdate(d)
    BY <2>1 DEF FetchForUpdate, webVars
  <2> QED
    BY <1>1, <1>2, <1>3, <2>1
<1>4. ASSUME NEW d \in Calls, StatementFails(d)
      PROVE  answer'[c] = answer[c] /\ web'[c] = web[c]
  <2>1. answer' = [answer EXCEPT ![d] = IF @ = Waiting THEN Error ELSE @] /\ web' = web
    BY <1>4 DEF StatementFails, Reply
  <2> QED
    BY <2>1, Kinds DEF HandlersOK
<1>5. ASSUME NEW d \in Calls, NEW h \in HTTPRequests, Handle(d, h) \/ Fail(d, h)
      PROVE  answer'[c] = answer[c] /\ web'[c] = web[c]
  <2>1. \E a \in {Waiting, Error} : answer' = [answer EXCEPT ![d] = a]
    BY <1>5 DEF Handle, Fail
  <2>2. d # c
    BY <2>1, Kinds DEF HandlersOK
  <2> QED
    BY <1>5, <2>1, <2>2 DEF Handle, Fail, HandlersOK
<1>6. ASSUME NEW d \in Calls, Lost(d) \/ Respond(d)
      PROVE  answer'[c] = answer[c] /\ web'[c] = web[c]
  <2>1. \E a \in {Nothing, Error} : answer' = [answer EXCEPT ![d] = a]
    BY <1>6 DEF Lost, Respond
  <2>2. d # c
    BY <2>1, Kinds DEF HandlersOK
  <2> QED
    BY <1>6, <2>1, <2>2 DEF Lost, Respond, HandlersOK
<1>7. CASE ServiceStops
  BY <1>7, Kinds DEF ServiceStops, Break
<1>8. CASE ServiceRestarts \/ UNCHANGED vars
  BY <1>8 DEF ServiceRestarts, webVars, vars
<1> QED
  BY <1>3, <1>4, <1>5, <1>6, <1>7, <1>8 DEF Next

\* What the service answers fits the request that was made of it.
LEMMA AnswerFits ==
  ASSUME S!Inv, S!Inv', S!CopyAsked, HandlersOK,
         NEW c \in Calls, Serve(c), answer[c] = Waiting, answer'[c].kind = "ok",
         NEW p \in answer'[c].ports
  PROVE  Fits(web[c], p)
<1> DEFINE h == web[c]
<1>1. h \in HTTPRequests /\ req[c] = ToPb(h) /\ IsHTTPRequest(h) /\ pc[c] # "idle"
  BY Kinds, HTTPAssumption DEF HandlersOK
<1>2. ASSUME NEW a, Reply(c, a)  PROVE answer'[c] = a
  BY <1>2 DEF Reply, HandlersOK
<1>3. req[c].op = (IF h.op = "UploadPortsState" THEN "CreateOrUpdatePortBulk" ELSE h.op)
  BY <1>1 DEF ToPb, PortRequest, UpdatePortRequest, IsHTTPRequest, PathOps
<1>4. CASE CreatePort(c)
  <2>1. Service!Store(req[c].ports[1]) /\ req[c].op = "CreatePort" /\ Reply(c, Ok(rows' \ rows))
    BY <1>4 DEF CreatePort, Service!CreatePort, Service!Running
  <2>2. h.op = "CreatePort" /\ h.port \in NamedBody
    BY <1>1, <1>3, <2>1 DEF IsHTTPRequest, PathOps
  <2>3. req[c].ports[1] = [slug |-> h.port.slug, data |-> Posted(h.port.body)]
    BY <1>1, <2>2 DEF ToPb, toPbPorts
  <2>4. \A r \in rows' \ rows : r.slug = h.port.slug /\ r.data = Posted(h.port.body)
    BY <2>1, <2>3 DEF Service!Store
  <2>5. PICK r \in rows' \ rows : p = InAnswer(r)
    BY <1>2, <2>1 DEF Ok, InAnswer
  <2> QED
    BY <2>2, <2>4, <2>5, PostedIsShown DEF Fits, InAnswer, NamedBody
<1>5. CASE FetchPort(c)
  <2>1. PICK r \in Service!Fetched(req[c].id, req[c].slug) : Reply(c, Ok({r}))
    BY <1>5 DEF FetchPort
  <2>2. p = InAnswer(r)
    BY <1>2, <2>1 DEF Ok, InAnswer
  <2>3. h.op = "FetchPort" /\ h.seg \in Slugs
    BY <1>1, <1>3, <1>5
    DEF FetchPort, Service!FetchPort, Service!Running, IsHTTPRequest, PathOps
  <2>4. req[c].id = Number[h.seg] /\ req[c].slug = (IF Number[h.seg] = None THEN h.seg ELSE None)
    BY <1>1, <2>3 DEF ToPb, PortRequest, Key
  <2>5. r.slug = h.seg \/ r.id = Number[h.seg]
    BY <2>1, <2>3, <2>4, GatewayAssumption DEF Service!Fetched
  <2> QED
    BY <2>2, <2>3, <2>5 DEF Fits, InAnswer
<1>6. CASE UpdatePort(c)
  <2>1. pc[c] = "fetched" /\ Reply(c, Ok({port[c]}))
    BY <1>6 DEF UpdatePort, Service!UpdateSave
  <2>2. p = InAnswer(port[c])
    BY <1>2, <2>1 DEF Ok, InAnswer
  <2>3. S!FromRequest(port[c], req[c]) /\ port[c] \in S!Row /\ req[c].op = "UpdatePort"
    BY <2>1 DEF S!CopyAsked, S!Inv, S!CallTypeOK
  <2>4. h.op = "UpdatePort" /\ h.seg \in Slugs /\ h.body \in Body
    BY <1>1, <1>3, <2>3 DEF IsHTTPRequest, PathOps
  <2>5. /\ req[c].id = Number[h.seg] /\ req[c].patch = Carried(h.body)
        /\ req[c].slug = (IF Number[h.seg] = None THEN h.seg ELSE None)
    BY <1>1, <2>4 DEF ToPb, UpdatePortRequest, Key
  <2>6. port[c].slug = h.seg \/ port[c].id = Number[h.seg]
    BY <2>3, <2>4, <2>5, GatewayAssumption DEF S!FromRequest
  <2>7. Returned(h.body, Shown(port[c].data), Cols)
    <3>1. port[c].data \in Columns
      BY <2>3 DEF S!Row, S!Data, Columns
    <3>2. \A k \in Cols : Carried(h.body)[k] # Nil => port[c].data[k] = Carried(h.body)[k]
      BY <2>3, <2>5 DEF S!FromRequest
    <3> QED
      BY <2>4, <3>1, <3>2, CarriedIsShown
  <2> QED
    BY <2>2, <2>4, <2>6, <2>7 DEF Fits, InAnswer
<1>7. CASE ListPorts(c)
  <2>1. h.op = "ListPorts"
    BY <1>1, <1>3, <1>7 DEF ListPorts, Service!ListPorts, Service!Running, IsHTTPRequest, PathOps
  <2> QED
    BY <2>1 DEF Fits
<1>8. CASE DeletePort(c) \/ CreateOrUpdatePortBulk(c)
  <2>1. answer'[c].ports = {}
    BY <1>2, <1>8 DEF DeletePort, CreateOrUpdatePortBulk, Ok
  <2> QED
    BY <2>1
<1>9. CASE FetchForUpdate(c)
  BY <1>9, Kinds DEF FetchForUpdate, webVars
<1>10. CASE Refuse(c)
  BY <1>2, <1>10, Kinds DEF Refuse
<1> QED
  BY <1>4, <1>5, <1>6, <1>7, <1>8, <1>9, <1>10 DEF Serve

\* For every request, body and overlap: the port a client is shown is the one it has
\* named, with what it has sent, the code of a POST apart.
THEOREM ShownIsWhatWasSent == Spec => []ShowsWhatWasSent
<1> DEFINE Fit == \A c \in Calls : answer[c].kind = "ok" =>
                    \A p \in answer[c].ports : Fits(web[c], p)
<1>1. Init => Fit
  BY Kinds DEF Init
<1>2. ASSUME S!Inv, S!Inv', S!CopyAsked, HandlersOK, Fit, [Next]_vars
      PROVE  Fit'
  <2>1. ASSUME NEW c \in Calls, answer'[c].kind = "ok", NEW p \in answer'[c].ports
        PROVE  Fits(web'[c], p)
    <3>1. CASE answer'[c] = answer[c] /\ web'[c] = web[c]
      <4>1. answer[c].kind = "ok" /\ p \in answer[c].ports
        BY <2>1, <3>1
      <4>2. Fits(web[c], p)
        BY <1>2, <4>1
      <4> QED
        BY <3>1, <4>2
    <3>2. CASE Serve(c) /\ answer[c] = Waiting /\ web' = web
      <4>1. Fits(web[c], p)
        BY <1>2, <2>1, <3>2, AnswerFits
      <4> QED
        BY <3>2, <4>1
    <3> QED
      BY <1>2, <2>1, <3>1, <3>2, NewlyShown
  <2>2. \A c \in Calls : answer'[c].kind = "ok" => \A p \in answer'[c].ports : Fits(web'[c], p)
    BY <2>1
  <2> QED
    BY <2>2
<1>3. Fit => ShowsWhatWasSent
  BY DEF Fits, ShowsWhatWasSent
<1>4. S!Spec => []S!CopyAsked
  BY S!SavesWhatWasAsked, TableAssumed, ServiceAssumed, RequestsAssumed
<1>5. Spec => S!Spec
  BY InitMaps, StepMaps, PTL DEF Spec, S!Spec
<1> HIDE DEF Fit
<1> QED
  BY <1>1, <1>2, <1>3, <1>4, <1>5, ServiceInvariant, HandlersInvariant, PTL DEF Spec

\* The port a path segment names: by its id if the segment is a number, else by its slug.
NamedBy(seg, r) == IF Number[seg] = None THEN r.slug = seg ELSE r.id = Number[seg]

\* For every path: a DELETE takes the port away that its segment names, and no other one,
\* however the table has changed since the request came.  (That a slug of digits is a
\* number by then is what PathNamesPort is about.)
THEOREM DeleteHitsItsPath ==
  Spec => [][\A c \in Calls : Service!DeletePort(c) /\ web[c].op = "DeletePort" =>
               rows' = {r \in rows : ~NamedBy(web[c].seg, r)}]_vars
<1>1. S!Inv /\ HandlersOK =>
        \A c \in Calls : Service!DeletePort(c) /\ web[c].op = "DeletePort" =>
          rows' = {r \in rows : ~NamedBy(web[c].seg, r)}
  <2> SUFFICES ASSUME S!Inv, HandlersOK,
                      NEW c \in Calls, Service!DeletePort(c), web[c].op = "DeletePort"
               PROVE  rows' = {r \in rows : ~NamedBy(web[c].seg, r)}
    OBVIOUS
  <2>1. web[c] \in HTTPRequests /\ req[c] = ToPb(web[c])
    BY DEF HandlersOK, NoWeb, Service!DeletePort, Service!Running
  <2>2. web[c].seg \in Slugs
    BY <2>1, HTTPAssumption DEF IsHTTPRequest, PathOps
  <2>3. /\ req[c].id = Number[web[c].seg]
        /\ req[c].slug = IF Number[web[c].seg] = None THEN web[c].seg ELSE None
    BY <2>1 DEF ToPb, PortRequest, Key
  <2>4. Service!Delete(req[c].id, req[c].slug)
    BY DEF Service!DeletePort
  <2> QED
    BY <2>2, <2>3, <2>4, GatewayAssumption DEF Service!Delete, NamedBy
<1> QED
  BY <1>1, ServiceInvariant, HandlersInvariant, PTL

-----------------------------------------------------------------------------
(* One handler at a time. *)

\* Putting back what was shown of a row patches it to itself.
LEMMA PatchedWithShown ==
  ASSUME NEW r \in S!Row
  PROVE  S!Patched(r, Carried(Shown(r.data))) = r
<1> DEFINE patch == Carried(Shown(r.data))
           data == [k \in Cols |-> IF patch[k] = Nil THEN r.data[k] ELSE patch[k]]
<1>1. r.data \in Columns
  BY DEF S!Row, S!Data, Columns
<1>2. \A k \in Cols : patch[k] \in {r.data[k], Nil}
  BY <1>1, ShownIsCarried
<1>3. data = r.data
  <2> HIDE DEF patch
  <2> QED
    BY <1>1, <1>2 DEF Columns
<1>4. S!Patched(r, patch) = [r EXCEPT !.data = data]
  BY DEF S!Patched
<1> HIDE DEF patch, data
<1> QED
  BY <1>3, <1>4 DEF S!Row, patch

\* For every row and every JSON body: when requests do not overlap, a PUT of what a GET
\* shows leaves the table as it is.
THEOREM PutBackIsNeutral == ASSUME S!Alone  PROVE Spec => PutBackNeutral
<1> DEFINE A == \A c \in Calls : Service!UpdateSave(c) /\ web[c].op = "UpdatePort"
                  /\ (\E r \in rows : r.id = port[c].id /\ web[c].body = Shown(r.data))
                    => rows' = rows
<1>1. S!Inv /\ HandlersOK /\ S!CopyFresh => [A]_vars
  <2> SUFFICES ASSUME S!Inv, HandlersOK, S!CopyFresh,
                      NEW c \in Calls, Service!UpdateSave(c), web[c].op = "UpdatePort",
                      NEW r \in rows, r.id = port[c].id, web[c].body = Shown(r.data)
               PROVE  rows' = rows
    OBVIOUS
  <2>1. pc[c] = "fetched" /\ rows' = {q \in rows : q.id # port[c].id} \cup {port[c]}
    BY DEF Service!UpdateSave, Service!Save
  <2>2. web[c] # NoWeb /\ req[c] = ToPb(web[c])
    BY <2>1 DEF HandlersOK, NoWeb
  <2>3. req[c].patch = Carried(Shown(r.data))
    BY <2>2 DEF ToPb, UpdatePortRequest
  <2>4. port[c] = S!Patched(r, req[c].patch) /\ r \in S!Row
    BY <2>1 DEF S!CopyFresh, S!Inv, S!TableTypeOK
  <2>5. port[c] = r
    BY <2>3, <2>4, PatchedWithShown
  <2> QED
    BY <2>1, <2>5 DEF S!Inv, S!Keys
<1>2. S!Spec => []S!CopyFresh
  BY S!CopyStaysFresh, TableAssumed, ServiceAssumed, RequestsAssumed
<1>3. Spec => S!Spec
  BY InitMaps, StepMaps, PTL DEF Spec, S!Spec
<1> QED
  BY <1>1, <1>2, <1>3, ServiceInvariant, HandlersInvariant, PTL DEF PutBackNeutral

\* And a PUT leaves the columns alone that it does not carry.
THEOREM PartialUpdateBehindGateway == ASSUME S!Alone  PROVE Spec => PartialUpdate
<1>1. S!Spec => S!PartialUpdate
  BY S!PartialUpdateAlone, TableAssumed, ServiceAssumed, RequestsAssumed
<1>2. Spec => S!Spec
  BY InitMaps, StepMaps, PTL DEF Spec, S!Spec
<1> QED
  BY <1>1, <1>2, SamePartialUpdate DEF PartialUpdate

=============================================================================
