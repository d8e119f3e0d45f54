------------------------ MODULE PortsService_proofs -------------------------
(***************************************************************************)
(* What PortsService keeps for every set of calls, requests, slugs and     *)
(* columns and every length of the identity sequence.                      *)
(***************************************************************************)
EXTENDS PortsService, TLAPS

\* Two slugs conflict when they are equal.
USE DEF Conflicts

-----------------------------------------------------------------------------
(* The requests. *)

\* A request of each kind carries what its message has.
LEMMA RequestShape ==
  ASSUME NEW r \in Requests
  PROVE  /\ r # NoRequest
         /\ r.op \in CreateOps => r.ports \in Seq(Port)
         /\ r.op \in {"CreatePort", "CreateOrUpdatePort"} => Len(r.ports) = 1
         /\ r.op = "UpdatePort" => r.patch \in Patch
<1>1. IsRequest(r)  BY RequestsAssumption
<1>2. r # NoRequest  BY <1>1 DEF IsRequest, NoRequest, CreateOps, KeyOps
<1> QED  BY <1>1, <1>2 DEF IsRequest, CreateOps, KeyOps

\* UpdatePort's edits leave a row a row with the same id and slug.
LEMMA PatchedRow ==
  ASSUME NEW r \in Row, NEW patch \in Patch
  PROVE  /\ Patched(r, patch) \in Row
         /\ Patched(r, patch).id = r.id
         /\ Patched(r, patch).slug = r.slug
<1> DEFINE data == [k \in Cols |-> IF patch[k] = Keep THEN r.data[k] ELSE patch[k]]
<1>1. data \in Data  BY DEF Row, Patch, Data
<1>2. Patched(r, patch) = [r EXCEPT !.data = data]  BY DEF Patched
<1> HIDE DEF data
<1> QED  BY <1>1, <1>2 DEF Row

-----------------------------------------------------------------------------
(* The statements, one lemma for each, about the rows they leave. *)

\* The port of a row that a bulk upsert writes is the row's of before, or new.
LEMMA IdForCases ==
  ASSUME NEW s, NEW n
  PROVE  \/ ~Taken(s) /\ IdFor(s, n) = n
         \/ \E q \in rows : q.slug = s /\ IdFor(s, n) = q.id
<1>1. CASE ~Taken(s)  BY <1>1 DEF IdFor
<1>2. CASE Taken(s)
  <2>1. (CHOOSE r \in rows : r.slug = s) \in rows
        /\ (CHOOSE r \in rows : r.slug = s).slug = s
    BY <1>2 DEF Taken
  <2> QED  BY <2>1, <1>2 DEF IdFor
<1> QED  BY <1>1, <1>2

TableTypeOK == rows \subseteq Row /\ nextId \in 1 .. MaxId + 1

\* A bulk upsert leaves rows of the right shape.
LEMMA BulkUpsertType ==
  ASSUME TableTypeOK, NEW ps \in Seq(Port), BulkUpsert(ps)
  PROVE  TableTypeOK'
<1> USE TableAssumption
<1> DEFINE new(i) == [id |-> IdFor(ps[i].slug, nextId + i - 1),
                      slug |-> ps[i].slug, data |-> ps[i].data]
<1>1. ASSUME NEW i \in DOMAIN ps  PROVE new(i) \in Row
  <2>1. ps[i] \in Port /\ i \in Nat \ {0}  OBVIOUS
  <2>2. IdFor(ps[i].slug, nextId + i - 1) \in Nat \ {0}
    <3>1. nextId + i - 1 \in Nat \ {0}  BY <2>1 DEF TableTypeOK
    <3>2. \A q \in rows : q.id \in Nat \ {0}  BY DEF TableTypeOK, Row
    <3> QED  BY <3>1, <3>2, IdForCases
  <2> QED  BY <2>1, <2>2 DEF Row, Port
<1>2. rows' \subseteq rows \cup {new(i) : i \in DOMAIN ps}  BY DEF BulkUpsert
<1>3. rows' \subseteq Row  BY <1>1, <1>2 DEF TableTypeOK
<1>4. nextId' \in 1 .. MaxId + 1  BY DEF BulkUpsert, TableTypeOK
<1> QED  BY <1>3, <1>4 DEF TableTypeOK

-----------------------------------------------------------------------------
(* The keys of the table.  A step binds if no row loses its id or its slug *)
(* and a row that is new has a new id; it removes if it does nothing else. *)

Keys(R, n) ==
  /\ \A r, q \in R : r.id = q.id \/ r.slug = q.slug => r = q
  /\ \A r \in R : r.id < n /\ r.slug \in PortSlugs

Same(r, q) == r.id = q.id /\ r.slug = q.slug

Binds ==
  /\ nextId <= nextId'
  /\ \A r \in rows' : (\E q \in rows : Same(r, q)) \/ r.id \in nextId .. nextId' - 1
  /\ \A q \in rows : \E r \in rows' : Same(r, q)

Removes == rows' \subseteq rows /\ nextId' = nextId

\* A bulk upsert keeps the keys: the rows it writes have the id their slug had, or
\* one of the ids the statement has drawn.
LEMMA BulkUpsertBinds ==
  ASSUME TableTypeOK, Keys(rows, nextId), NEW ps \in Seq(Port),
         \A i \in DOMAIN ps : ps[i].slug \in PortSlugs, BulkUpsert(ps)
  PROVE  Binds /\ Keys(rows', nextId')
<1> DEFINE new(i) == [id |-> IdFor(ps[i].slug, nextId + i - 1),
                      slug |-> ps[i].slug, data |-> ps[i].data]
           kept == {r \in rows : \A i \in DOMAIN ps : ps[i].slug # r.slug}
<1>1. rows' = kept \cup {new(i) : i \in DOMAIN ps}  BY DEF BulkUpsert
<1>2. nextId \in Nat \ {0} /\ Len(ps) \in Nat /\ nextId' = nextId + Len(ps)
      /\ DOMAIN ps = 1 .. Len(ps)
  BY TableAssumption DEF BulkUpsert, TableTypeOK
<1>3. \A r \in rows : r.id \in Nat  BY DEF TableTypeOK, Row
<1>4. Distinct(ps)  BY DEF BulkUpsert
<1>5. ASSUME NEW i \in DOMAIN ps
      PROVE  /\ new(i).slug = ps[i].slug
             /\ \/ ~Taken(ps[i].slug) /\ new(i).id = nextId + i - 1
                \/ \E q \in rows : Same(new(i), q)
  BY IdForCases DEF Same
<1> HIDE DEF new
<1>6. ASSUME NEW i \in DOMAIN ps
      PROVE  \/ new(i).id \in nextId .. nextId' - 1 /\ new(i).id = nextId + i - 1
             \/ \E q \in rows : Same(new(i), q)
  <2>1. i \in 1 .. Len(ps)  BY <1>2
  <2>2. CASE new(i).id = nextId + i - 1  BY <2>1, <2>2, <1>2
  <2> QED  BY <2>2, <1>5
<1>7. Binds
  <2>1. \A q \in rows : \E r \in rows' : Same(r, q)
    <3> SUFFICES ASSUME NEW q \in rows  PROVE \E r \in rows' : Same(r, q)
      OBVIOUS
    <3>1. CASE q \in kept  BY <3>1, <1>1 DEF Same
    <3>2. CASE q \notin kept
      <4>1. PICK i \in DOMAIN ps : ps[i].slug = q.slug  BY <3>2
      <4>2. Taken(ps[i].slug)  BY <4>1 DEF Taken
      <4>3. PICK r \in rows : Same(new(i), r)  BY <4>2, <1>5
      <4>4. r = q  BY <4>1, <4>3, <1>5 DEF Keys, Same
      <4> QED  BY <4>3, <4>4, <1>1
    <3> QED  BY <3>1, <3>2
  <2>2. \A r \in rows' : (\E q \in rows : Same(r, q)) \/ r.id \in nextId .. nextId' - 1
    BY <1>1, <1>6 DEF Same
  <2>3. nextId <= nextId'  BY <1>2
  <2> QED  BY <2>1, <2>2, <2>3 DEF Binds
<1>8. ASSUME NEW r \in rows'  PROVE r.id < nextId' /\ r.slug \in PortSlugs
  <2>1. CASE r \in kept  BY <2>1, <1>2, <1>3 DEF Keys
  <2>2. ASSUME NEW i \in DOMAIN ps, r = new(i)
        PROVE  r.id < nextId' /\ r.slug \in PortSlugs
    <3>1. r.slug \in PortSlugs  BY <2>2, <1>5
    <3>2. r.id < nextId'
      <4>1. CASE r.id \in nextId .. nextId' - 1  BY <4>1, <1>2
      <4>2. CASE \E q \in rows : Same(r, q)
        BY <4>2, <1>2, <1>3 DEF Keys, Same
      <4> QED  BY <4>1, <4>2, <2>2, <1>6
    <3> QED  BY <3>1, <3>2
  <2> QED  BY <2>1, <2>2, <1>1
<1>9. ASSUME NEW r \in rows', NEW q \in rows', r.slug = q.slug  PROVE r = q
  <2>1. CASE r \in kept /\ q \in kept  BY <2>1, <1>9 DEF Keys
  <2>2. ASSUME NEW i \in DOMAIN ps, NEW j \in DOMAIN ps, r = new(i), q = new(j)
        PROVE  r = q
    BY <2>2, <1>9, <1>5, <1>4 DEF Distinct
  <2>3. ASSUME NEW i \in DOMAIN ps, new(i).slug \in {s.slug : s \in kept}  PROVE FALSE
    BY <2>3, <1>5
  <2> QED  BY <2>1, <2>2, <2>3, <1>1, <1>9
<1>10. ASSUME NEW r \in rows', NEW q \in rows', r.id = q.id  PROVE r.slug = q.slug
  <2>1. ASSUME NEW i \in DOMAIN ps, NEW j \in DOMAIN ps, new(i).id = new(j).id
        PROVE  new(i).slug = new(j).slug
    <3> DEFINE old(k) == \E s \in rows : Same(new(k), s)
    <3>1. CASE old(i) /\ old(j)  BY <3>1, <2>1 DEF Keys, Same
    <3>2. CASE ~old(i) /\ ~old(j)
      <4>1. i \in Nat /\ j \in Nat  BY <1>2
      <4>2. nextId + i - 1 = nextId + j - 1  BY <3>2, <2>1, <1>5
      <4>3. i = j  BY <4>1, <4>2, <1>2
      <4> QED  BY <4>3
    <3>3. ASSUME NEW k \in DOMAIN ps, NEW l \in DOMAIN ps, old(k), ~old(l)
          PROVE  new(k).id # new(l).id
      <4>1. new(l).id \in nextId .. nextId' - 1  BY <3>3, <1>6
      <4>2. PICK s \in rows : Same(new(k), s)  BY <3>3
      <4>3. s.id < nextId /\ s.id \in Nat /\ new(k).id = s.id
        BY <4>2, <1>3 DEF Keys, Same
      <4> QED  BY <4>1, <4>3, <1>2
    <3> QED  BY <3>1, <3>2, <3>3, <2>1
  <2>2. ASSUME NEW i \in DOMAIN ps, NEW s \in kept, new(i).id = s.id  PROVE FALSE
    <3>1. s.id < nextId /\ s.id \in Nat  BY <1>3 DEF Keys
    <3>2. PICK t \in rows : Same(new(i), t)
      <4>1. new(i).id \notin nextId .. nextId' - 1  BY <3>1, <2>2, <1>2
      <4> QED  BY <4>1, <1>6
    <3>3. t = s  BY <3>2, <2>2 DEF Keys, Same
    <3> QED  BY <3>2, <3>3, <1>5 DEF Same
  <2>3. CASE r \in kept /\ q \in kept  BY <2>3, <1>10 DEF Keys
  <2> QED  BY <2>1, <2>2, <2>3, <1>1, <1>10
<1> QED  BY <1>7, <1>8, <1>9, <1>10 DEF Keys

\* An INSERT without conflict adds one row with a new id.
LEMMA StoreBinds ==
  ASSUME TableTypeOK, Keys(rows, nextId), NEW p \in Port, p.slug \in PortSlugs, Store(p)
  PROVE  TableTypeOK' /\ Binds /\ Keys(rows', nextId')
<1> DEFINE new == [id |-> nextId, slug |-> p.slug, data |-> p.data]
<1>1. nextId \in Nat \ {0} /\ nextId' = nextId + 1 /\ nextId' \in 1 .. MaxId + 1
  BY TableAssumption DEF Store, TableTypeOK
<1>2. rows' = rows \cup {new}  BY DEF Store
<1>3. new \in Row  BY <1>1 DEF Row, Port
<1>4. \A r \in rows : r.id \in Nat /\ r.id < nextId /\ r.slug \in PortSlugs
                      /\ r.slug # new.slug
  BY DEF TableTypeOK, Row, Keys, Store, Taken
<1>5. new.id = nextId /\ new.slug \in PortSlugs  OBVIOUS
<1> HIDE DEF new
<1>6. TableTypeOK'  BY <1>1, <1>2, <1>3 DEF TableTypeOK
<1>7. Binds  BY <1>1, <1>2, <1>5 DEF Binds, Same
<1>8. \A r, q \in rows' : r.id = q.id \/ r.slug = q.slug => r = q
  BY <1>1, <1>2, <1>4, <1>5 DEF Keys
<1>9. \A r \in rows' : r.id < nextId' /\ r.slug \in PortSlugs
  BY <1>1, <1>2, <1>4, <1>5
<1> QED  BY <1>6, <1>7, <1>8, <1>9 DEF Keys

\* An INSERT that fails moves the sequence and nothing else.
LEMMA FailedInsertBinds ==
  ASSUME TableTypeOK, Keys(rows, nextId), NEW ps \in Seq(Port), FailedInsert(ps)
  PROVE  TableTypeOK' /\ Binds /\ Keys(rows', nextId')
<1>1. nextId \in Nat /\ nextId' \in Nat /\ nextId <= nextId' /\ rows' = rows
      /\ nextId' \in 1 .. MaxId + 1
  BY TableAssumption DEF FailedInsert, TableTypeOK
<1>2. \A r \in rows : r.id \in Nat  BY DEF TableTypeOK, Row
<1> QED  BY <1>1, <1>2 DEF TableTypeOK, Binds, Keys, Same

\* A step that leaves the table alone binds nothing new.
LEMMA UnchangedBinds ==
  ASSUME TableTypeOK, Keys(rows, nextId), UNCHANGED tableVars
  PROVE  TableTypeOK' /\ Binds /\ Keys(rows', nextId')
<1>1. nextId \in Nat  BY DEF TableTypeOK
<1> QED  BY <1>1 DEF TableTypeOK, Binds, Keys, Same, tableVars

\* A Save keeps the keys when the row with its id still has its slug.
LEMMA SaveBinds ==
  ASSUME TableTypeOK, Keys(rows, nextId), NEW p \in Row,
         \A r \in rows : r.id = p.id => r.slug = p.slug, Save(p)
  PROVE  TableTypeOK' /\ Binds /\ Keys(rows', nextId')
<1>1. PICK old \in rows : old.id = p.id  BY DEF Save
<1>2. old.slug = p.slug  BY <1>1
<1>3. rows' = {r \in rows : r.id # p.id} \cup {p} /\ nextId' = nextId
  BY DEF Save, tableVars
<1>4. nextId \in Nat  BY DEF TableTypeOK
<1>5. TableTypeOK'  BY <1>3 DEF TableTypeOK
<1>6. Binds  BY <1>1, <1>2, <1>3, <1>4 DEF Binds, Same
<1>7. \A r \in rows' : r.id < nextId' /\ r.slug \in PortSlugs
  BY <1>1, <1>2, <1>3 DEF Keys
<1>8. \A r, q \in rows' : r.id = q.id \/ r.slug = q.slug => r = q
  BY <1>1, <1>2, <1>3 DEF Keys
<1> QED  BY <1>5, <1>6, <1>7, <1>8 DEF Keys

\* A DELETE takes rows away and adds none.
LEMMA DeleteRemoves ==
  ASSUME TableTypeOK, Keys(rows, nextId), NEW id, NEW slug, Delete(id, slug)
  PROVE  TableTypeOK' /\ Removes /\ Keys(rows', nextId')
BY DEF Delete, TableTypeOK, Removes, Keys

-----------------------------------------------------------------------------
(* The inductive invariant: besides the keys of the table it says of every *)
(* row held between a Fetch and a Save that its id was drawn before, so    *)
(* that no later row can get it.                                           *)

CallTypeOK ==
  /\ pc \in [Calls -> {"idle", "called", "fetched"}]
  /\ req \in [Calls -> Requests \cup {NoRequest}]
  /\ port \in [Calls -> Row \cup {NoRow}]
  /\ \A c \in Calls :
       /\ pc[c] = "idle" <=> req[c] = NoRequest
       /\ IF pc[c] = "fetched" THEN port[c] \in Row /\ req[c].op = "UpdatePort"
          ELSE port[c] = NoRow
  /\ server \in {"up", "down", "panicked"}

Held(p, R, n) == p.id < n /\ \A r \in R : r.id = p.id => r.slug = p.slug

HeldOK == \A c \in Calls : pc[c] = "fetched" => Held(port[c], rows, nextId)

Inv == TableTypeOK /\ CallTypeOK /\ Keys(rows, nextId) /\ HeldOK

\* A row that is held stays so whatever a statement does.
LEMMA HeldStays ==
  ASSUME TableTypeOK, TableTypeOK', Binds \/ Removes, NEW p, p.id \in Nat, Held(p, rows, nextId)
  PROVE  Held(p, rows', nextId')
<1>1. nextId \in Nat /\ nextId' \in Nat /\ p.id \in Nat  BY DEF TableTypeOK
<1>2. CASE Removes  BY <1>2 DEF Removes, Held
<1>3. CASE Binds  BY <1>1, <1>3 DEF Binds, Held, Same
<1> QED  BY <1>2, <1>3

\* The end of a call keeps the calls well formed.
LEMMA AnswerType ==
  ASSUME CallTypeOK, NEW c \in Calls, Answer(c)
  PROVE  /\ CallTypeOK'
         /\ \A d \in Calls : pc'[d] = "fetched" => pc[d] = "fetched" /\ port'[d] = port[d]
<1> USE DEF CallTypeOK, Answer
<1>1. \A d \in Calls \ {c} : pc'[d] = pc[d] /\ req'[d] = req[d] /\ port'[d] = port[d]
  OBVIOUS
<1>2. pc'[c] = "idle" /\ req'[c] = NoRequest /\ port'[c] = NoRow  OBVIOUS
<1>3. /\ pc' \in [Calls -> {"idle", "called", "fetched"}]
      /\ req' \in [Calls -> Requests \cup {NoRequest}]
      /\ port' \in [Calls -> Row \cup {NoRow}]
      /\ server' \in {"up", "down", "panicked"}
  OBVIOUS
<1> QED  BY <1>1, <1>2, <1>3

\* So does the end of the process.
LEMMA LoseCallsType ==
  ASSUME CallTypeOK, LoseCalls, server' \in {"up", "down", "panicked"}
  PROVE  /\ CallTypeOK'
         /\ \A d \in Calls : pc'[d] = "fetched" => pc[d] = "fetched" /\ port'[d] = port[d]
<1>1. PICK orphans \in SUBSET {c \in Calls : InDatabase(c)} :
        /\ pc'   = [c \in Calls |-> IF c \in orphans THEN pc[c] ELSE "idle"]
        /\ req'  = [c \in Calls |-> IF c \in orphans THEN req[c] ELSE NoRequest]
        /\ port' = [c \in Calls |-> IF c \in orphans THEN port[c] ELSE NoRow]
  BY DEF LoseCalls
<1>2. /\ pc' \in [Calls -> {"idle", "called", "fetched"}]
      /\ req' \in [Calls -> Requests \cup {NoRequest}]
      /\ port' \in [Calls -> Row \cup {NoRow}]
  BY <1>1 DEF CallTypeOK
<1>3. \A d \in Calls :
        \/ pc'[d] = pc[d] /\ req'[d] = req[d] /\ port'[d] = port[d]
        \/ pc'[d] = "idle" /\ req'[d] = NoRequest /\ port'[d] = NoRow
  BY <1>1
<1> QED  BY <1>2, <1>3 DEF CallTypeOK

-----------------------------------------------------------------------------
(* Every step. *)

\* The empty table and the idle service satisfy the invariant.
LEMMA InitInv == Init => Inv
<1> SUFFICES ASSUME Init  PROVE Inv
  OBVIOUS
<1>1. TableTypeOK /\ Keys(rows, nextId)
  BY TableAssumption DEF Init, TableInit, TableTypeOK, Keys
<1>2. CallTypeOK /\ HeldOK  BY DEF Init, CallTypeOK, HeldOK
<1> QED  BY <1>1, <1>2 DEF Inv

\* A request that has reached a handler has the shape of its kind.
LEMMA CallShape ==
  ASSUME CallTypeOK, NEW c \in Calls, pc[c] # "idle"
  PROVE  /\ req[c] \in Requests
         /\ req[c].op \in CreateOps => req[c].ports \in Seq(Port)
         /\ req[c].op \in {"CreatePort", "CreateOrUpdatePort"} =>
              Len(req[c].ports) = 1 /\ req[c].ports[1] \in Port /\ 1 \in DOMAIN req[c].ports
         /\ req[c].op = "UpdatePort" => req[c].patch \in Patch
         /\ req[c].op \in CreateOps /\ Valid(req[c]) =>
              \A i \in DOMAIN req[c].ports : req[c].ports[i].slug \in PortSlugs
<1>1. req[c] \in Requests  BY DEF CallTypeOK
<1>2. req[c].op \in {"CreatePort", "CreateOrUpdatePort"} =>
        req[c].ports \in Seq(Port) /\ Len(req[c].ports) = 1
  BY <1>1, RequestShape DEF CreateOps
<1>3. req[c].op \in {"CreatePort", "CreateOrUpdatePort"} =>
        req[c].ports[1] \in Port /\ 1 \in DOMAIN req[c].ports
  BY <1>2
<1> QED  BY <1>1, <1>2, <1>3, RequestShape DEF Valid, ValidPorts

\* What the step of a call does to the table.
LEMMA TableStep ==
  ASSUME Inv, NEW c \in Calls, Handler(c) \/ StatementFails(c)
  PROVE  /\ TableTypeOK' /\ Keys(rows', nextId')
         /\ Binds \/ (Removes /\ Answer(c) /\ Running(c, "DeletePort")
                      /\ Delete(req[c].id, req[c].slug))
<1> USE DEF Inv
<1>1. CASE CreateOrUpdatePort(c)
  <2>1. pc[c] # "idle" /\ req[c].op = "CreateOrUpdatePort" /\ Valid(req[c])
        /\ BulkUpsert(<<req[c].ports[1]>>)
    BY <1>1 DEF CreateOrUpdatePort, Running, Upsert
  <2>2. req[c].ports[1] \in Port /\ req[c].ports[1].slug \in PortSlugs
    BY <2>1, CallShape DEF CreateOps
  <2> DEFINE ps == <<req[c].ports[1]>>
  <2>3. ps \in Seq(Port) /\ \A i \in DOMAIN ps : ps[i].slug \in PortSlugs  BY <2>2
  <2>4. BulkUpsert(ps)  BY <2>1
  <2> HIDE DEF ps
  <2> QED  BY <2>3, <2>4, BulkUpsertType, BulkUpsertBinds
<1>2. CASE CreateOrUpdatePortBulk(c)
  <2>1. pc[c] # "idle" /\ req[c].op \in CreateOps /\ Valid(req[c]) /\ BulkUpsert(req[c].ports)
    BY <1>2 DEF CreateOrUpdatePortBulk, Running, CreateOps
  <2> QED  BY <2>1, CallShape, BulkUpsertType, BulkUpsertBinds
<1>3. CASE CreatePort(c)
  <2>1. pc[c] # "idle" /\ req[c].op = "CreatePort" /\ Valid(req[c]) /\ Store(req[c].ports[1])
    BY <1>3 DEF CreatePort, Running
  <2>2. req[c].ports[1] \in Port /\ req[c].ports[1].slug \in PortSlugs
    BY <2>1, CallShape DEF CreateOps
  <2> QED  BY <2>1, <2>2, StoreBinds
<1>4. CASE DeletePort(c)
  <2>1. Running(c, "DeletePort") /\ Delete(req[c].id, req[c].slug) /\ Answer(c)
    BY <1>4 DEF DeletePort
  <2> QED  BY <2>1, DeleteRemoves
<1>5. CASE UpdateSave(c)
  <2>1. pc[c] = "fetched" /\ Save(port[c])  BY <1>5 DEF UpdateSave
  <2>2. port[c] \in Row /\ \A r \in rows : r.id = port[c].id => r.slug = port[c].slug
    BY <2>1 DEF CallTypeOK, HeldOK, Held
  <2> QED  BY <2>1, <2>2, SaveBinds
<1>6. CASE StatementFails(c)
  <2>1. CASE req[c].op \in CreateOps
    <3>1. FailedInsert(req[c].ports) /\ pc[c] # "idle"  BY <1>6, <2>1 DEF StatementFails
    <3> QED  BY <2>1, <3>1, CallShape, FailedInsertBinds
  <2>2. CASE req[c].op \notin CreateOps
    BY <1>6, <2>2, UnchangedBinds DEF StatementFails
  <2> QED  BY <2>1, <2>2
<1>7. CASE ListPorts(c) \/ FetchPort(c) \/ UpdateFetch(c) \/ FetchPanics(c) \/ RefuseRequest(c)
  BY <1>7, UnchangedBinds
  DEF ListPorts, FetchPort, UpdateFetch, FetchPanics, RefuseRequest, LoseCalls
<1> QED
  BY <1>1, <1>2, <1>3, <1>4, <1>5, <1>6, <1>7 DEF Handler, StatementRefused

\* Fetch finds rows only.
LEMMA FetchedRows == \A id, slug : Fetched(id, slug) \subseteq rows
BY DEF Fetched

\* Every step preserves the invariant.
LEMMA StepInv == Inv /\ [Next]_vars => Inv'
<1> SUFFICES ASSUME Inv, [Next]_vars  PROVE Inv'
  OBVIOUS
<1> USE DEF Inv
<1> DEFINE Kept == \A d \in Calls : pc'[d] = "fetched" => pc[d] = "fetched" /\ port'[d] = port[d]
<1>1. ASSUME TableTypeOK', Binds \/ Removes, Kept  PROVE HeldOK'
  <2> SUFFICES ASSUME NEW d \in Calls, pc'[d] = "fetched"  PROVE Held(port'[d], rows', nextId')
    BY DEF HeldOK
  <2>1. port[d] \in Row /\ Held(port[d], rows, nextId) /\ port'[d] = port[d]
    BY <1>1 DEF CallTypeOK, HeldOK
  <2>2. Held(port[d], rows', nextId')  BY <2>1, <1>1, HeldStays DEF Row
  <2> QED  BY <2>1, <2>2
<1>2. ASSUME NEW c \in Calls, NEW r \in Requests, Call(c, r)  PROVE Inv'
  <2>1. TableTypeOK' /\ Keys(rows', nextId') /\ Binds
    BY <1>2, UnchangedBinds DEF Call
  <2>2. r # NoRequest  BY RequestShape
  <2>3. CallTypeOK'  BY <1>2, <2>2 DEF Call, CallTypeOK
  <2>4. Kept  BY <1>2 DEF Call, CallTypeOK
  <2> QED  BY <2>1, <2>3, <2>4, <1>1
<1>3. ASSUME NEW c \in Calls, Handler(c) \/ StatementFails(c)  PROVE Inv'
  <2>1. TableTypeOK' /\ Keys(rows', nextId') /\ (Binds \/ Removes)
    BY <1>3, TableStep
  <2>2. CASE Answer(c)  BY <2>1, <2>2, <1>1, AnswerType
  <2>3. CASE UpdateFetch(c)
    <3>1. PICK r \in Fetched(req[c].id, req[c].slug) :
            port' = [port EXCEPT ![c] = Patched(r, req[c].patch)]
      BY <2>3 DEF UpdateFetch
    <3>2. /\ pc[c] = "called" /\ req[c].op = "UpdatePort"
          /\ pc' = [pc EXCEPT ![c] = "fetched"]
          /\ rows' = rows /\ nextId' = nextId /\ req' = req /\ server' = server
      BY <2>3 DEF UpdateFetch, Running, tableVars
    <3>3. r \in rows /\ r \in Row /\ req[c].patch \in Patch
      BY <3>1, <3>2, CallShape, FetchedRows DEF TableTypeOK
    <3>4. /\ port'[c] \in Row /\ port'[c].id = r.id /\ port'[c].slug = r.slug
          /\ port' \in [Calls -> Row \cup {NoRow}]
      BY <3>1, <3>3, PatchedRow DEF CallTypeOK
    <3>5. \A d \in Calls \ {c} : pc'[d] = pc[d] /\ port'[d] = port[d]
      BY <3>1, <3>2 DEF CallTypeOK
    <3>6. CallTypeOK'  BY <3>2, <3>4, <3>5 DEF CallTypeOK
    <3>7. HeldOK'
      <4>1. Held(port'[c], rows', nextId')  BY <3>2, <3>3, <3>4 DEF Keys, Held
      <4> QED  BY <4>1, <3>2, <3>5 DEF HeldOK
    <3> QED  BY <2>1, <3>6, <3>7
  <2>4. CASE FetchPanics(c)
    <3>1. LoseCalls /\ server' = "panicked"  BY <2>4 DEF FetchPanics
    <3> QED  BY <3>1, <2>1, <1>1, LoseCallsType
  <2> QED
    BY <1>3, <2>2, <2>3, <2>4
    DEF Handler, CreateOrUpdatePort, CreateOrUpdatePortBulk, ListPorts, CreatePort,
        FetchPort, DeletePort, UpdateSave, RefuseRequest, StatementRefused, StatementFails
<1>4. CASE Stop
  <2>1. LoseCalls /\ server' = "down"  BY <1>4 DEF Stop
  <2>2. UNCHANGED tableVars  BY <2>1 DEF LoseCalls
  <2> QED  BY <2>1, <2>2, <1>1, UnchangedBinds, LoseCallsType
<1>5. CASE Restart
  <2>1. UNCHANGED tableVars /\ UNCHANGED callVars /\ server' = "up"  BY <1>5 DEF Restart
  <2>2. CallTypeOK' /\ Kept  BY <2>1 DEF callVars, CallTypeOK
  <2> QED  BY <2>1, <2>2, <1>1, UnchangedBinds
<1>6. CASE UNCHANGED vars
  <2>1. UNCHANGED tableVars /\ UNCHANGED callVars /\ server' = server  BY <1>6 DEF vars
  <2>2. CallTypeOK' /\ Kept  BY <2>1 DEF callVars, CallTypeOK
  <2> QED  BY <2>1, <2>2, <1>1, UnchangedBinds
<1> QED  BY <1>2, <1>3, <1>4, <1>5, <1>6 DEF Next

\* The strengthened invariant holds in every state of the service.
THEOREM Invariance == Spec => []Inv
BY InitInv, StepInv, PTL DEF Spec

\* Rows, requests and copies keep their shape in every state.
THEOREM TypeCorrect == Spec => []TypeOK
<1>1. Inv => TypeOK  BY DEF Inv, TableTypeOK, CallTypeOK, TypeOK
<1> QED  BY <1>1, Invariance, PTL

\* Id and slug are keys of the table in every state, however calls overlap
\* and whenever the process ends.
THEOREM KeysAlwaysUnique == Spec => []KeysUnique
<1>1. Inv => KeysUnique  BY DEF Inv, Keys, KeysUnique
<1> QED  BY <1>1, Invariance, PTL

\* The Save of an UpdatePort never writes to another port than the one its
\* Fetch has found.
THEOREM SaveIsSafe == Spec => []SaveHitsFetchedPort
<1>1. Inv => SaveHitsFetchedPort  BY DEF Inv, HeldOK, Held, SaveHitsFetchedPort
<1> QED  BY <1>1, Invariance, PTL

-----------------------------------------------------------------------------
(* What is stored. *)

\* A valid patch of a row that is valid leaves it so: no column comes from elsewhere.
LEMMA PatchedValid ==
  ASSUME NEW r \in Row, NEW patch \in Patch, ValidData(r.data), ValidPatch(patch)
  PROVE  ValidData(Patched(r, patch).data)
<1> DEFINE data == [k \in Cols |-> IF patch[k] = Keep THEN r.data[k] ELSE patch[k]]
<1>1. \A k \in Cols : data[k] \in InRange  BY DEF ValidData, ValidPatch
<1>2. Patched(r, patch).data = data  BY DEF Patched, Row
<1> QED  BY <1>1, <1>2 DEF ValidData

\* A bulk upsert of valid ports leaves valid rows.
LEMMA BulkUpsertValid ==
  ASSUME \A r \in rows : ValidData(r.data), NEW ps \in Seq(Port),
         \A i \in DOMAIN ps : ValidData(ps[i].data), BulkUpsert(ps)
  PROVE  \A r \in rows' : ValidData(r.data)
<1> SUFFICES ASSUME NEW r \in rows'  PROVE ValidData(r.data)
  OBVIOUS
<1>1. \/ r \in rows
      \/ \E i \in DOMAIN ps : r = [id |-> IdFor(ps[i].slug, nextId + i - 1),
                                 slug |-> ps[i].slug, data |-> ps[i].data]
  BY DEF BulkUpsert
<1> QED  BY <1>1

\* Only what Coordinates.Validate accepts is stored or about to be.
THEOREM StoredIsValid == Spec => []OnlyValidStored
<1>1. Init => OnlyValidStored  BY DEF Init, TableInit, OnlyValidStored
<1>2. Inv /\ OnlyValidStored /\ [Next]_vars => OnlyValidStored'
  <2> SUFFICES ASSUME Inv, OnlyValidStored, [Next]_vars  PROVE OnlyValidStored'
    OBVIOUS
  <2> DEFINE Kept == \A d \in Calls : pc'[d] = "fetched" => pc[d] = "fetched" /\ port'[d] = port[d]
             RowsValid == \A r \in rows : ValidData(r.data)
  <2>1. CallTypeOK /\ RowsValid  BY DEF Inv, OnlyValidStored
  <2>2. ASSUME Kept, RowsValid'  PROVE OnlyValidStored'
    BY <2>2 DEF OnlyValidStored
  <2>3. ASSUME rows' \subseteq rows  PROVE RowsValid'
    BY <2>1, <2>3
  <2>4. ASSUME NEW c \in Calls, Answer(c)  PROVE Kept
    BY <2>1, <2>4, AnswerType
  <2> HIDE DEF Kept
  <2>5. ASSUME NEW c \in Calls, Handler(c) \/ StatementFails(c)  PROVE OnlyValidStored'
    <3>1. CASE CreateOrUpdatePort(c) \/ CreateOrUpdatePortBulk(c) \/ CreatePort(c)
      <4>1. pc[c] # "idle" /\ req[c].op \in CreateOps /\ Valid(req[c]) /\ Answer(c)
        BY <3>1
        DEF CreateOrUpdatePort, CreateOrUpdatePortBulk, CreatePort, Running, CreateOps
      <4>2. /\ req[c].ports \in Seq(Port)
            /\ \A i \in DOMAIN req[c].ports : ValidData(req[c].ports[i].data)
        BY <2>1, <4>1, CallShape DEF Valid, ValidPorts
      <4>3. RowsValid'
        <5>1. CASE CreateOrUpdatePortBulk(c)
          BY <2>1, <4>2, <5>1, BulkUpsertValid DEF CreateOrUpdatePortBulk
        <5>2. CASE CreateOrUpdatePort(c) \/ CreatePort(c)
          <6>1. 1 \in DOMAIN req[c].ports /\ req[c].ports[1] \in Port
            BY <2>1, <4>1, <5>2, CallShape DEF CreateOrUpdatePort, CreatePort, Running
          <6>2. CASE CreatePort(c)
            BY <2>1, <4>2, <6>1, <6>2 DEF CreatePort, Store
          <6>3. CASE CreateOrUpdatePort(c)
            <7> DEFINE ps == <<req[c].ports[1]>>
            <7>1. ps \in Seq(Port) /\ (\A i \in DOMAIN ps : ValidData(ps[i].data))
                  /\ BulkUpsert(ps)
              BY <4>2, <6>1, <6>3 DEF CreateOrUpdatePort, Upsert
            <7> HIDE DEF ps
            <7> QED  BY <2>1, <7>1, BulkUpsertValid
          <6> QED  BY <5>2, <6>2, <6>3
        <5> QED  BY <3>1, <5>1, <5>2
      <4> QED  BY <2>2, <2>4, <4>1, <4>3
    <3>2. CASE UpdateFetch(c)
      <4>1. PICK r \in Fetched(req[c].id, req[c].slug) :
              port' = [port EXCEPT ![c] = Patched(r, req[c].patch)]
        BY <3>2 DEF UpdateFetch
      <4>2. /\ pc[c] = "called" /\ req[c].op = "UpdatePort" /\ Valid(req[c])
            /\ pc' = [pc EXCEPT ![c] = "fetched"] /\ rows' = rows
        BY <3>2 DEF UpdateFetch, Running, tableVars
      <4>3. r \in rows /\ r \in Row /\ req[c].patch \in Patch /\ ValidPatch(req[c].patch)
        BY <2>1, <4>1, <4>2, CallShape, FetchedRows
        DEF Inv, TableTypeOK, Valid, CreateOps, KeyOps
      <4>4. ValidData(Patched(r, req[c].patch).data)
        BY <2>1, <4>3, PatchedValid
      <4>5. port'[c] = Patched(r, req[c].patch)
            /\ \A d \in Calls \ {c} : pc'[d] = pc[d] /\ port'[d] = port[d]
        BY <2>1, <4>1, <4>2 DEF CallTypeOK
      <4> QED  BY <4>2, <4>4, <4>5 DEF OnlyValidStored
    <3>3. CASE UpdateSave(c)
      <4>1. pc[c] = "fetched" /\ Save(port[c]) /\ Answer(c)  BY <3>3 DEF UpdateSave
      <4>2. RowsValid'  BY <2>1, <4>1 DEF Save, OnlyValidStored
      <4> QED  BY <2>2, <2>4, <4>1, <4>2
    <3>4. CASE FetchPanics(c)
      <4>1. Kept /\ rows' = rows
        BY <3>4, <2>1, LoseCallsType DEF FetchPanics, LoseCalls, tableVars, Kept
      <4> QED  BY <4>1, <2>2, <2>3
    <3>5. CASE ListPorts(c) \/ FetchPort(c) \/ DeletePort(c) \/ RefuseRequest(c)
               \/ StatementFails(c)
      <4>1. Answer(c) /\ rows' \subseteq rows
        BY <3>5 DEF ListPorts, FetchPort, DeletePort, Delete, RefuseRequest, StatementFails,
                    FailedInsert, tableVars
      <4> QED  BY <4>1, <2>2, <2>3, <2>4
    <3> QED  BY <2>5, <3>1, <3>2, <3>3, <3>4, <3>5 DEF Handler, StatementRefused
  <2>6. CASE (\E c \in Calls, r \in Requests : Call(c, r)) \/ Restart \/ UNCHANGED vars
    <3>1. Kept /\ rows' = rows
      BY <2>1, <2>6 DEF Call, Restart, vars, callVars, tableVars, Kept, CallTypeOK
    <3> QED  BY <3>1, <2>2, <2>3
  <2>7. CASE Stop
    <3>1. Kept /\ rows' = rows
      BY <2>7, <2>1, LoseCallsType DEF Stop, LoseCalls, tableVars, Kept
    <3> QED  BY <3>1, <2>2, <2>3
  <2> QED  BY <2>5, <2>6, <2>7 DEF Next
<1> QED  BY <1>1, <1>2, Invariance, PTL DEF Spec

-----------------------------------------------------------------------------
(* What a step may not do. *)

\* Only a DeletePort takes rows away; all other steps bind.
LEMMA StepEvolves ==
  ASSUME Inv, [Next]_vars
  PROVE  \/ Binds
         \/ \E c \in Calls :
              /\ Removes /\ Answer(c) /\ Running(c, "DeletePort")
              /\ Delete(req[c].id, req[c].slug)
<1>1. ASSUME NEW c \in Calls, Handler(c) \/ StatementFails(c)
      PROVE  \/ Binds
             \/ /\ Removes /\ Answer(c) /\ Running(c, "DeletePort")
                /\ Delete(req[c].id, req[c].slug)
  BY <1>1, TableStep
<1>2. CASE UNCHANGED tableVars  BY <1>2, UnchangedBinds DEF Inv
<1> QED  BY <1>1, <1>2 DEF Next, Call, Stop, Restart, LoseCalls, vars

\* A port leaves the table only by a DeletePort that names it.
THEOREM OnlyDeletePortRemoves == Spec => OnlyDeleteRemoves
<1> DEFINE A == \A r \in rows : (\A q \in rows' : q.id # r.id) =>
                  \E c \in Calls :
                    /\ req[c].op = "DeletePort" /\ pc'[c] # pc[c]
                    /\ req[c].id \in {r.id, None} /\ req[c].slug \in {r.slug, None}
<1>1. Inv /\ [Next]_vars => [A]_vars
  <2> SUFFICES ASSUME Inv, [Next]_vars, NEW r \in rows, \A q \in rows' : q.id # r.id
               PROVE  \E c \in Calls :
                        /\ req[c].op = "DeletePort" /\ pc'[c] # pc[c]
                        /\ req[c].id \in {r.id, None} /\ req[c].slug \in {r.slug, None}
    OBVIOUS
  <2>1. ~Binds  BY DEF Binds, Same
  <2>2. PICK c \in Calls : /\ Answer(c) /\ Running(c, "DeletePort")
                           /\ Delete(req[c].id, req[c].slug)
    BY <2>1, StepEvolves
  <2>3. pc[c] = "called" /\ pc'[c] = "idle" /\ req[c].op = "DeletePort"
    BY <2>2 DEF Running, Answer, Inv, CallTypeOK
  <2>4. r \notin rows'  OBVIOUS
  <2>5. req[c].id \in {r.id, None} /\ req[c].slug \in {r.slug, None}
    BY <2>2, <2>4 DEF Delete
  <2> QED  BY <2>3, <2>5
<1> QED  BY <1>1, Invariance, PTL DEF Spec, OnlyDeleteRemoves

\* A bulk upsert that has an effect stores every port it was given, all of
\* them valid, and changes nothing else.
THEOREM BulkIsAtomic == Spec => BulkAllOrNothing
<1> DEFINE Whole(ps) ==
             /\ ValidPorts(ps)
             /\ \A i \in DOMAIN ps :
                  \E r \in rows' : r.slug = ps[i].slug /\ r.data = ps[i].data
             /\ \A r \in rows : (\A i \in DOMAIN ps : ps[i].slug # r.slug) => r \in rows'
           A == \A c \in Calls :
                  req[c].op = "CreateOrUpdatePortBulk" /\ pc'[c] # pc[c] /\ rows' # rows =>
                    Whole(req[c].ports)
<1>1. Inv /\ [Next]_vars => [A]_vars
  <2> SUFFICES ASSUME Inv, [Next]_vars, NEW c \in Calls,
                      req[c].op = "CreateOrUpdatePortBulk", pc'[c] # pc[c], rows' # rows
               PROVE  Whole(req[c].ports)
    OBVIOUS
  <2>1. PICK d \in Calls : Handler(d) \/ StatementFails(d)
    BY DEF Next, Call, Stop, Restart, LoseCalls, vars, tableVars
  <2>2. Handler(d) /\ Answer(d) /\ ~StatementFails(d)
    BY <2>1
    DEF Handler, CreateOrUpdatePort, CreateOrUpdatePortBulk, ListPorts, CreatePort,
        FetchPort, DeletePort, UpdateFetch, UpdateSave, FetchPanics, LoseCalls,
        RefuseRequest, StatementRefused, StatementFails, FailedInsert, tableVars
  <2>3. d = c  BY <2>2 DEF Answer, Inv, CallTypeOK
  <2>4. CreateOrUpdatePortBulk(c)
    BY <2>2, <2>3
    DEF Inv, CallTypeOK, Handler, CreateOrUpdatePort, ListPorts, CreatePort, FetchPort,
        DeletePort, UpdateFetch, UpdateSave, FetchPanics, LoseCalls, RefuseRequest,
        StatementRefused, Running, tableVars
  <2>5. Valid(req[c]) /\ BulkUpsert(req[c].ports)
    BY <2>4 DEF CreateOrUpdatePortBulk, Running
  <2>6. ValidPorts(req[c].ports)  BY <2>5 DEF Valid, CreateOps
  <2>7. \A i \in DOMAIN req[c].ports :
          [id |-> IdFor(req[c].ports[i].slug, nextId + i - 1),
           slug |-> req[c].ports[i].slug, data |-> req[c].ports[i].data] \in rows'
    BY <2>5 DEF BulkUpsert
  <2>8. \A i \in DOMAIN req[c].ports :
          \E r \in rows' : r.slug = req[c].ports[i].slug /\ r.data = req[c].ports[i].data
    BY <2>7
  <2>9. \A r \in rows : (\A i \in DOMAIN req[c].ports : req[c].ports[i].slug # r.slug)
                          => r \in rows'
    BY <2>5 DEF BulkUpsert
  <2> QED  BY <2>6, <2>8, <2>9
<1> QED  BY <1>1, Invariance, PTL DEF Spec, BulkAllOrNothing

-----------------------------------------------------------------------------
(* Refinement. *)

\* The service implements PortRegistry: an id is bound to one slug, once, and
\* is gone for good when its port is deleted.
THEOREM ServiceImplementsRegistry == Spec => ImplementsPortRegistry
<1> DEFINE b == {<<r.id, r.slug>> : r \in rows}
<1>1. Init => Registry!Init  BY DEF Init, TableInit, Registry!Init
<1>2. Inv /\ Inv' /\ [Next]_vars => [Registry!Next]_(Registry!vars)
  <2> SUFFICES ASSUME Inv, Inv', [Next]_vars  PROVE [Registry!Next]_(Registry!vars)
    OBVIOUS
  <2>1. nextId \in Nat /\ nextId' \in Nat /\ rows' \subseteq Row
    BY TableAssumption DEF Inv, TableTypeOK
  <2>2. CASE Removes
    <3>1. b' \subseteq b /\ nextId' = nextId  BY <2>2 DEF Removes
    <3>2. Registry!Unbind  BY <3>1 DEF Registry!Unbind
    <3> QED  BY <3>2 DEF Registry!Next
  <2>3. CASE Binds
    <3>1. b \subseteq b'  BY <2>3 DEF Binds, Same
    <3>2. \A p \in b' \ b : p[1] \in nextId .. nextId' - 1 /\ p[2] \in Slugs
      BY <2>1, <2>3 DEF Binds, Same, Row
    <3>3. nextId' >= nextId /\ nextId \in Nat \ {0}
      BY <2>1, <2>3, TableAssumption DEF Binds, Inv, TableTypeOK
    <3>4. \A p \in b' \ b : p[1] \in (1 .. nextId' - 1) \ (1 .. nextId - 1) /\ p[2] \in Slugs
      BY <2>1, <3>2, <3>3
    <3>5. Registry!Functional(b')  BY DEF Inv, Keys, Registry!Functional
    <3>6. 1 .. nextId - 1 \subseteq 1 .. nextId' - 1 /\ 1 .. nextId' - 1 \subseteq Nat
      <4>1. \A n \in 1 .. nextId - 1 : n \in 1 .. nextId' - 1
        <5>1. \A m, n \in Nat : n >= m => \A i \in 1 .. m - 1 : i \in 1 .. n - 1
          OBVIOUS
        <5> QED  BY <2>1, <3>3, <5>1
      <4>2. \A n \in 1 .. nextId' - 1 : n \in Nat
        BY <2>1
      <4> QED  BY <4>1, <4>2, Zenon
    <3>7. Registry!Bind  BY <3>1, <3>4, <3>5, <3>6, Zenon DEF Registry!Bind
    <3> QED  BY <3>7 DEF Registry!Next
  <2> QED  BY <2>2, <2>3, StepEvolves
<1> QED  BY <1>1, <1>2, Invariance, PTL DEF Spec, ImplementsPortRegistry, Registry!Spec

Identity == INSTANCE PortRegistry_proofs WITH
  Names <- Slugs,
  bound <- {<<r.id, r.slug>> : r \in rows},
  given <- 1 .. nextId - 1

\* The promises of PortRegistry hold for the service, and so does what follows from
\* them.
LEMMA ServiceIsRegistry == Spec => Identity!Spec
<1>1. Registry!Init => Identity!Init
  BY DEF Registry!Init, Identity!Init
<1>2. [Registry!Next]_(Registry!vars) => [Identity!Next]_(Identity!vars)
  BY DEF Registry!Next, Identity!Next, Registry!vars, Identity!vars, Registry!Bind,
     Identity!Bind, Registry!Unbind, Identity!Unbind, Registry!Functional, Identity!Functional
<1> QED
  BY <1>1, <1>2, ServiceImplementsRegistry, PTL DEF ImplementsPortRegistry, Registry!Spec,
     Identity!Spec

\* A port that is deleted is gone: its id is never that of a row again, not by an
\* upsert of the same slug, a late Save of a copy, or a statement that outlives the
\* process.
THEOREM DeletedStaysDeleted ==
  ASSUME NEW id
  PROVE  Spec => [](id \in 1 .. nextId - 1 /\ (\A r \in rows : r.id # id)
                      => [](\A r \in rows : r.id # id))
<1>1. Identity!Gone(id) <=> id \in 1 .. nextId - 1 /\ (\A r \in rows : r.id # id)
  <2>1. ASSUME NEW r \in rows PROVE <<r.id, r.slug>>[1] = r.id
    OBVIOUS
  <2> QED
    BY <2>1, Zenon DEF Identity!Gone
<1>2. Identity!Spec => [](Identity!Gone(id) => []Identity!Gone(id))
  BY Identity!GoneForGood
<1> QED
  BY <1>1, <1>2, ServiceIsRegistry, PTL

\* A client may keep an id: from the moment a port has it, it means a port with that
\* slug or no port, whatever is deleted, created and updated afterwards.
THEOREM IdKeepsItsSlug ==
  ASSUME NEW id, NEW slug
  PROVE  Spec => []((\E r \in rows : r.id = id /\ r.slug = slug)
                      => [](\A r \in rows : r.id = id => r.slug = slug))
<1> PICK b : b = <<id, slug>>
  OBVIOUS
<1>1. ASSUME NEW r \in rows
      PROVE  <<r.id, r.slug>>[1] = r.id /\ <<r.id, r.slug>>[2] = r.slug
  OBVIOUS
<1>2. (\E r \in rows : r.id = id /\ r.slug = slug) => Identity!Bound(b)
  BY DEF Identity!Bound
<1>3. Identity!Means(b) => \A r \in rows : r.id = id => r.slug = slug
  BY <1>1 DEF Identity!Means
<1>4. Identity!Spec => [](Identity!Bound(b) => []Identity!Means(b))
  BY Identity!NameForGood
<1> QED
  BY <1>2, <1>3, <1>4, ServiceIsRegistry, PTL

-----------------------------------------------------------------------------
(* Between Fetch and Save. *)

\* The copy of a row that a call is about to save is of the port its request names,
\* and has the members the request carries.
FromRequest(p, r) ==
  /\ IF r.slug # None THEN p.slug = r.slug ELSE p.id = r.id
  /\ \A k \in Cols : r.patch[k] # Keep => p.data[k] = r.patch[k]

CopyAsked == \A c \in Calls : pc[c] = "fetched" => FromRequest(port[c], req[c])

\* A call comes to hold a copy by its own Fetch, and keeps it with its request
\* whatever the others do.
LEMMA CopyStep ==
  ASSUME Inv, [Next]_vars, NEW c \in Calls, pc'[c] = "fetched"
  PROVE  UpdateFetch(c) \/ (pc[c] = "fetched" /\ UNCHANGED <<port[c], req[c]>>)
<1>0. CallTypeOK  BY DEF Inv
<1>1. ASSUME NEW d \in Calls, Answer(d)
      PROVE  pc[c] = "fetched" /\ UNCHANGED <<port[c], req[c]>>
  BY <1>0, <1>1 DEF Answer, CallTypeOK
<1>2. ASSUME LoseCalls  PROVE pc[c] = "fetched" /\ UNCHANGED <<port[c], req[c]>>
  BY <1>0, <1>2 DEF LoseCalls, CallTypeOK
<1>3. ASSUME NEW d \in Calls, UpdateFetch(d), d # c
      PROVE  pc[c] = "fetched" /\ UNCHANGED <<port[c], req[c]>>
  BY <1>0, <1>3 DEF UpdateFetch, CallTypeOK
<1>4. CASE \E d \in Calls : Handler(d) \/ StatementFails(d)
  <2>1. PICK d \in Calls : Answer(d) \/ UpdateFetch(d) \/ LoseCalls
    BY <1>4
    DEF Handler, CreateOrUpdatePort, CreateOrUpdatePortBulk, ListPorts, CreatePort,
        FetchPort, DeletePort, UpdateSave, FetchPanics, RefuseRequest, StatementRefused,
        StatementFails
  <2> QED  BY <2>1, <1>1, <1>2, <1>3
<1>5. CASE \E d \in Calls, r \in Requests : Call(d, r)
  BY <1>0, <1>5 DEF Call, CallTypeOK
<1>6. CASE Stop  BY <1>2, <1>6 DEF Stop
<1>7. CASE Restart \/ UNCHANGED vars  BY <1>7 DEF Restart, vars, callVars
<1> QED  BY <1>4, <1>5, <1>6, <1>7 DEF Next

\* Whatever other calls do to its row meanwhile, an UpdatePort saves the port it was
\* asked for with the members it was given.
THEOREM SavesWhatWasAsked == Spec => []CopyAsked
<1>1. Init => CopyAsked  BY DEF Init, CopyAsked
<1>2. Inv /\ CopyAsked /\ [Next]_vars => CopyAsked'
  <2> SUFFICES ASSUME Inv, CopyAsked, [Next]_vars, NEW c \in Calls, pc'[c] = "fetched"
               PROVE  FromRequest(port'[c], req'[c])
    BY DEF CopyAsked
  <2>1. CASE UpdateFetch(c)
    <3>1. PICK r \in Fetched(req[c].id, req[c].slug) :
            port' = [port EXCEPT ![c] = Patched(r, req[c].patch)]
      BY <2>1 DEF UpdateFetch
    <3>2. req' = req /\ pc[c] = "called" /\ req[c].op = "UpdatePort"
      BY <2>1 DEF UpdateFetch, Running
    <3>3. r \in Row /\ req[c].patch \in Patch
      BY <3>1, <3>2, FetchedRows, CallShape DEF Inv, TableTypeOK
    <3>4. port'[c] = Patched(r, req[c].patch) /\ port'[c].id = r.id /\ port'[c].slug = r.slug
      BY <3>1, <3>3, PatchedRow DEF Inv, CallTypeOK
    <3>5. IF req[c].slug # None THEN r.slug = req[c].slug ELSE r.id = req[c].id
      BY <3>1 DEF Fetched
    <3>6. \A k \in Cols : req[c].patch[k] # Keep => port'[c].data[k] = req[c].patch[k]
      BY <3>3, <3>4 DEF Patched, Row
    <3> QED  BY <3>2, <3>4, <3>5, <3>6 DEF FromRequest
  <2>2. CASE pc[c] = "fetched" /\ UNCHANGED <<port[c], req[c]>>
    BY <2>2 DEF CopyAsked
  <2> QED  BY <2>1, <2>2, CopyStep
<1> QED  BY <1>1, <1>2, Invariance, PTL DEF Spec

\* A Save never meets the unique slug of another row: either the row it was fetched
\* from is gone, or nothing is in its way, so that every UpdatePort can end.
THEOREM SaveNeverConflicts ==
  Spec => [](\A c \in Calls : pc[c] = "fetched" =>
               \/ \A r \in rows : r.id # port[c].id
               \/ /\ \E r \in rows : r.id = port[c].id
                  /\ ~\E r \in rows : r.slug = port[c].slug /\ r.id # port[c].id)
<1>1. Inv => \A c \in Calls : pc[c] = "fetched" =>
               \/ \A r \in rows : r.id # port[c].id
               \/ /\ \E r \in rows : r.id = port[c].id
                  /\ ~\E r \in rows : r.slug = port[c].slug /\ r.id # port[c].id
  BY DEF Inv, HeldOK, Held, Keys
<1> QED  BY <1>1, Invariance, PTL

-----------------------------------------------------------------------------
(* One call at a time. *)

Alone == \A c, d \in Calls : c = d

\* What an UpdatePort is going to save is the row as it is, patched.
CopyFresh ==
  \A c \in Calls : pc[c] = "fetched" =>
    \A r \in rows : r.id = port[c].id => port[c] = Patched(r, req[c].patch)

\* With one call nothing happens between its Fetch and its Save: the step is the Fetch
\* itself, or it keeps copy, request and table.
LEMMA AloneStep ==
  ASSUME Alone, Inv, [Next]_vars, NEW c \in Calls, pc'[c] = "fetched"
  PROVE  UpdateFetch(c) \/ (pc[c] = "fetched" /\ UNCHANGED <<port[c], req[c], rows>>)
<1>0. CallTypeOK /\ \A d \in Calls : d = c  BY DEF Alone, Inv
<1>1. ASSUME NEW d \in Calls, Answer(d)  PROVE FALSE
  BY <1>0, <1>1 DEF Answer, CallTypeOK
<1>2. CASE \E d \in Calls : Handler(d) \/ StatementFails(d)
  <2>1. CASE UpdateFetch(c)  BY <2>1
  <2>2. CASE FetchPanics(c)
    BY <1>0, <2>2 DEF FetchPanics, LoseCalls, InDatabase, Running, CreateOps, CallTypeOK, tableVars
  <2> QED
    BY <1>0, <1>1, <1>2, <2>1, <2>2
    DEF Handler, CreateOrUpdatePort, CreateOrUpdatePortBulk, ListPorts, CreatePort,
        FetchPort, DeletePort, UpdateSave, RefuseRequest, StatementRefused, StatementFails
<1>3. CASE \E d \in Calls, r \in Requests : Call(d, r)
  BY <1>0, <1>3 DEF Call, CallTypeOK
<1>4. CASE Stop
  BY <1>0, <1>4 DEF Stop, LoseCalls, CallTypeOK, tableVars
<1>5. CASE Restart \/ UNCHANGED vars
  BY <1>5 DEF Restart, vars, callVars, tableVars
<1> QED  BY <1>2, <1>3, <1>4, <1>5 DEF Next

LEMMA CopyStaysFresh == ASSUME Alone  PROVE Spec => []CopyFresh
<1>1. Init => CopyFresh  BY DEF Init, CopyFresh
<1>2. Inv /\ CopyFresh /\ [Next]_vars => CopyFresh'
  <2> SUFFICES ASSUME Inv, CopyFresh, [Next]_vars,
                      NEW c \in Calls, pc'[c] = "fetched", NEW q \in rows', q.id = port'[c].id
               PROVE  port'[c] = Patched(q, req'[c].patch)
    BY DEF CopyFresh
  <2>1. CASE UpdateFetch(c)
    <3>1. PICK r \in Fetched(req[c].id, req[c].slug) :
            port' = [port EXCEPT ![c] = Patched(r, req[c].patch)]
      BY <2>1 DEF UpdateFetch
    <3>2. rows' = rows /\ req' = req /\ req[c].patch \in Patch
      BY <2>1, CallShape DEF UpdateFetch, Running, tableVars, Inv
    <3>3. r \in rows /\ r \in Row
      BY <3>1, FetchedRows DEF Inv, TableTypeOK
    <3>4. port'[c] = Patched(r, req[c].patch) /\ port'[c].id = r.id
      BY <3>1, <3>2, <3>3, PatchedRow DEF Inv, CallTypeOK
    <3> QED  BY <3>2, <3>3, <3>4 DEF Inv, Keys
  <2>2. CASE pc[c] = "fetched" /\ UNCHANGED <<port[c], req[c], rows>>
    BY <2>2 DEF CopyFresh
  <2> QED  BY <2>1, <2>2, AloneStep
<1> QED  BY <1>1, <1>2, Invariance, PTL DEF Spec

\* When calls do not overlap, an UpdatePort leaves the columns its request does not
\* carry as they are, for every table and request.
THEOREM PartialUpdateAlone == ASSUME Alone  PROVE Spec => PartialUpdate
<1> DEFINE A == \A c \in Calls : pc[c] = "fetched" /\ pc'[c] = "idle" =>
                  \A r \in rows, q \in rows' : r.id = port[c].id /\ q.id = r.id =>
                    \A k \in Cols : req[c].patch[k] = Keep => q.data[k] = r.data[k]
<1>1. Inv /\ CopyFresh /\ [Next]_vars => [A]_vars
  <2> SUFFICES ASSUME Inv, CopyFresh, [Next]_vars,
                      NEW c \in Calls, pc[c] = "fetched", pc'[c] = "idle",
                      NEW r \in rows, NEW q \in rows', r.id = port[c].id, q.id = r.id,
                      NEW k \in Cols, req[c].patch[k] = Keep
               PROVE  q.data[k] = r.data[k]
    OBVIOUS
  <2>0. CallTypeOK /\ r \in Row /\ \A d \in Calls : d = c
    BY DEF Inv, TableTypeOK, Alone
  <2>1. CASE UpdateSave(c)
    <3>1. q = port[c]  BY <2>1 DEF UpdateSave, Save
    <3>2. port[c] = Patched(r, req[c].patch)  BY DEF CopyFresh
    <3> QED  BY <2>0, <3>1, <3>2 DEF Patched, Row
  <2>2. CASE rows' = rows
    BY <2>2 DEF Inv, Keys
  <2>3. UpdateSave(c) \/ rows' = rows
    <3>1. CASE \E d \in Calls : Handler(d) \/ StatementFails(d)
      BY <2>0, <3>1
      DEF Handler, CreateOrUpdatePort, CreateOrUpdatePortBulk, ListPorts, CreatePort,
          FetchPort, DeletePort, UpdateFetch, FetchPanics, LoseCalls, RefuseRequest,
          StatementRefused, StatementFails, FailedInsert, Running, tableVars
    <3>2. CASE (\E d \in Calls, s \in Requests : Call(d, s)) \/ Stop \/ Restart \/ UNCHANGED vars
      BY <3>2 DEF Call, Stop, Restart, LoseCalls, vars, tableVars
    <3> QED  BY <3>1, <3>2 DEF Next
  <2> QED  BY <2>1, <2>2, <2>3
<1> QED  BY <1>1, Invariance, CopyStaysFresh, PTL DEF Spec, PartialUpdate
=============================================================================
