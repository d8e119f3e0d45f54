# Transshipment: a TLA+ verification of the ports microservices

This directory holds TLA+ models of the services in this repository, the TLC
configurations that check them on small instances, and theorems about them
that the TLAPS proof system checks for every value of their constants.

    tlc -config MCUpload_safety.cfg MCUpload.tla        # one run
    tlapm Upload_proofs.tla                             # one proof module

`PROJECT.json` maps each definition to the lines it models and lists runs,
mutants, findings, hazards and theorems.

## 1. The system

Two processes and a database, started by `docker-compose.yml`:

    client --HTTP--> restgateway --gRPC--> ports --SQL--> PostgreSQL
                      |  upload: writer and parser goroutines, a pipe, two channels

| component | state it keeps | operations | talks to |
|---|---|---|---|
| upload pipeline: `common/jsonparser`, `UploadPortsState` in `restgateway/internal/ports/ports.go` | per request: file, pipe, the chunk being filled, `readChan`, `errChan`, `parseErr` | writer: read and write; parser: token, decode, send; handler: select, convert, bulk call, answer | ports service (`CreateOrUpdatePortBulk`) |
| REST gateway handlers: same `ports.go` | none between requests | list, create, fetch, update, delete; conversions `toPbPort`, `toPbPortUpdatable`, `fromPbPort` | ports service |
| ports gRPC service: `service.go`, the generated `Validate` methods | none between calls; `UpdatePort` holds a row between two statements | the seven calls of `portentries.proto` | Datastore |
| Datastore and schema: `db.go`, `ports/schema/init.sql` | the table `ports.port_entries`, its identity sequence | `List`, `Upsert`, `BulkUpsert`, `Fetch`, `Store`, `Update`, `Delete` | PostgreSQL |
| ports server: `ports/cmd/ports` | gRPC server, DB handle, run group, signal channel | `LoadStores` (3 tries), `LoadServices`, `Run`, `Shutdown` | all of the above |
| gateway server: `restgateway/cmd/restgateway` | listener, context, `errs` channel | dial (3 tries), serve, graceful shutdown on a signal | gateway handlers |
| configuration: `common/config` | the loaded YAML | `Load`, `GetServiceConfig`, `OpenDB` | read once at start |

What is hard about them, and what makes each one correct:

* **Upload.** Two goroutines and a handler meet over a synchronous pipe and
  two unbuffered channels; a reader error, a parser error and a full chunk can
  be ready together; the handler may return while both goroutines are blocked;
  a bulk call may be lost while the service carries it out. Correct means: what
  is stored is a prefix of the file, in its order and chunk by chunk; a 200
  means that nothing failed and that the file is stored; every upload ends, and
  leaves nothing running.
* **Ports service.** gRPC runs each call on a goroutine of its own over one
  table. Most calls are one statement; `UpdatePort` is a read and a later write
  of the whole row. The process can die with calls in it, and PostgreSQL can
  commit a statement after that. Correct means: id and slug stay keys; an id
  never comes to mean another port; only a delete removes a port; a bulk is
  all or nothing; an update changes what it was asked to change.
* **Gateway handlers.** Path segments are an id or a slug; absent, empty and
  zero members are the same on the wire. Correct means that a port survives the
  round trip and that a path names the port the client means.
* **Servers.** Retries at the start, two goroutines that shut down, a graceful
  stop behind handlers that may hang.

## 2. Modules

| module | what it is | lines of code it stands for |
|---|---|---|
| `Upload` | the upload pipeline, one action per step of each goroutine | `jsonparser.go:18-109`, `ports.go:261-341` |
| `UploadSpec` | what an upload promises, without goroutines and channels | abstract |
| `PortTable` | the table and one operator per statement | `db.go`, `init.sql` |
| `PortsService` | the seven calls, overlapping, and the life of the process | `service.go`, `portentries.pb.validate.go` |
| `PortRegistry` | what the service promises about the identity of ports: an id is given once, and means one name or nothing | abstract |
| `BulkLocks` | bulk upserts below the statement: port by port, with row locks | `db.go:81-91`, `ports.go:303-327` |
| `BulkAtomic` | what `PortTable` takes a bulk upsert for: one step | abstract |
| `Wire` | a port between JSON, struct, message and row | `ports.go:353-471`, `service.go:200-262` |
| `Gateway` | the HTTP handlers, on top of `PortsService` | `ports.go:43-260`, `portentries.pb.go` (stubs, dispatch) |
| `Config` | what the two processes read, and what its lookups refuse | `config.go` |
| `PortsLifecycle` | the process `ports` from start to end | `ports/cmd/ports/*.go` |
| `GatewayLifecycle` | the process `restgateway` from start to end | `restgateway/cmd/restgateway/*.go` |
| `MC...` | the instances TLC checks | |
| `..._proofs` | the theorems about `Upload`, `PortRegistry`, `PortsService`, `BulkLocks`, `Gateway` and both lifecycles | |

How they are composed: `Gateway` instantiates `PortsService` (which extends
`PortTable`) with the requests its handlers make, and shares its variables;
`Upload` stands for one request of the gateway and has the service's bulk call in
it; `BulkLocks` refines that bulk call; the lifecycles have the handlers and calls
as far as they hold the process up or end it (`Hang` is `Upload`'s failed first
read, `HandlerPanics` is `PortsService`'s `FetchPanics`; it is left out after `Stop`
once `Serve` has returned, where no property sees more of it than another panic). `Upload` implements
`UploadSpec`, `PortsService` implements `PortRegistry`, `BulkLocks` implements
`BulkAtomic` and `PortRegistry`, and `Gateway` implements `PortsService`.

### Upload

The file is a sequence of pieces: the first token, the members, the closing
brace, what follows it. A member is a port, a misfit (an object that does not
unmarshal into `Port`), broken (the decoder refuses it) or cut (the file ends
inside it). Bytes are not modelled, so a `Read` ends between pieces; the
decoder sees more of the pipe with each `Refill`, as much as the writer has
offered or less. Cursors stand for the data: `rd` (read by the writer), `got`
(through the pipe), `used` (decoded). A chunk maps a key to the position of
the member that gives its port, so that order and duplicates remain visible.

| goroutine | its counter | code |
|---|---|---|
| writer | `wpc`: read, write, fail (in `errChan <- err`), closed | `jsonparser.go:25-52` |
| parser | `ppc`: none, loop, send (in `readChan <- chunk`), fail, dead, closed | `jsonparser.go:62-106` |
| handler | `hpc`: parse (inside `ParseFile`), select, call, ok, err | `ports.go:271-341` |
| bulk call | `rpc`: idle, inflight, stored, refused | `ports.go:322`, `service.go:48-58` |

Unbuffered channels are joint steps: `ReceiveChunk` moves handler and parser,
`ReceiveError` moves the handler and whichever sender the select meets.
`ReceiveChunk` also does the conversion loop: `break` at a misfit leaves the
loop over the map, whose order is random, so an arbitrary set of the fitting
ports goes into the bulk call that is made all the same. A member whose `null`
or empty value unmarshals is a port. `BulkLost` covers a cancelled request
context and a lost connection: the handler goes on with an error and the
service may still carry out the call. `WriterReadError` covers failing reads
and the handler's deferred `file.Close`, which closes a temporary file under
the writer. Two history variables, `sent` and `stored`, say how far in the file
the last chunk handed over, and the last one stored whole, reach.

The error of a bulk call (validation, database) is a choice of the service;
`RefuseBulk` is always possible and `ServeBulk` needs a batch that validates.
Whether a port validates is a matter of its key here: coordinates out of range
are one more way to be refused.

### PortTable and PortsService

The table is a set of rows `[id, slug, data]`. PostgreSQL runs each statement
atomically. `Conflicts` is the key the schema declares for slugs (`slug ... unique`,
`init.sql:4`), which is also the one the `ON CONFLICT` clauses name; every statement
goes by it. `BulkUpsert` keeps the id of a slug that exists and draws an id of
the sequence for every port, inserted or not; a slug given twice fails the
statement. `Save` updates the row with the id it holds; when there is none,
gorm's fallback `INSERT` names the id and `generated always as identity`
refuses it. `Delete` joins its conditions with AND and gorm refuses it without
any. The ids a bulk draws are taken to be contiguous; with concurrent
statements they need not be, which no property here depends on.

A handler with one statement is one action; `UpdatePort` is `UpdateFetch` and
`UpdateSave`, with every other call in between. `Doomed` lists what makes a
statement fail by itself, `StatementFails` is any other failure of the database
or the connection. `FetchPanics` is the nil dereference of `db.go:101`, which
ends the process: grpc-go does not recover a handler's panic and `server.go:40`
installs no interceptor. `Stop` is `GRPCServer.Stop` or a kill; in both cases an
arbitrary set of the statements that have reached PostgreSQL stays alive and
commits later, before or after `Restart` (`restart: always`).

Of the values a column may have, `InRange` holds those the rules of `Validate`
accept; the others stand for coordinates out of range and whatever else a
request is refused for. What the calls answer is in `Gateway`.

### BulkLocks

The gateway's `range` over the map of a chunk meets the slugs in any order
(`Orders`). PostgreSQL goes through the ports of one `INSERT .. ON CONFLICT DO
UPDATE` in that order: `Draw` takes an id from the identity column for the next
port, whether that is new or not, and `Write` decides between the id the slug has
and the one that was drawn, and locks the slug until the statement ends. A statement
whose next slug another one has written waits between the two, with its id drawn,
and decides when the lock is free; when statements wait in a circle,
PostgreSQL makes one the `Victim`. `Fail` is a statement that ends for any other
reason; what it wrote is gone, the ids it drew are not given back. `Delete` waits
for the lock as well. The history variable `given` keeps the ids that committed
rows had.

`PortsService` draws the ids of a bulk and commits it in one step; here the ids
concurrent bulks draw interleave, so that a chunk's ids need not be contiguous.
What the properties of `PortsService` need of them (a new port gets an id that no
port has had) is what `ImplementsBulkAtomic` shows.

### Wire and Gateway

A port is a function from columns to values; `Nil` is an absent member and `Zero`
an empty string, an empty list or the coordinates (0, 0). The conversions are
compositions of what each stage does to those: `Decoded` (`json.Decode` into
`Port`: an absent string is empty), `toPbPort` (the code becomes the country,
`ports.go:405`), `toPbPortUpdatable` (an empty string becomes no wrapper),
`OnWire` (an empty list is not encoded), `pbPortToModel`, `portToPB`.

Each handler is `Handle` (decode, build the request, call), one of the service's
actions with its answer, and `Respond`. `Fail` is every error before the call;
`Lost` is a client that leaves or a connection that breaks: the handler goes on
with an error and the service with the call, so that `answer` and `pc` part.
`ServiceStops` gives every waiting handler an error and leaves what has reached
PostgreSQL alive. `Next` has no `FetchPanics` step: that the gateway makes no
request with neither id nor slug is `NothingPanics`.

### PortsLifecycle and GatewayLifecycle

In the process `ports`, `at` says where main and the two goroutines of the run
group are. `Shutdown` is three actions (`Stop`, `Drain`, `CloseDB`) and is run by
both main, as the interrupt function, and by the signal goroutine, so the two
overlap; gRPC's `Stop` waits until `Serve` has noticed. `errs` is the channel of
`run.Group`. `Listen` may fail, which the code prints (`server.go:113`): `Serve`
then gets a nil listener and panics. `Signal` depends on `signal.Notify` and
`signal.Stop` (`notified`), and panics the process when the channel is closed
(`server.go:59`). Outages of the database, failed listens and accepts, and panics
of handlers count against `MaxFaults`.

In `restgateway`, `main`, `watcher` (the goroutine of `signaledCtx`), `run`
(`Server.Run`), `serve` (its goroutine in `http.Server.Serve`) and one `handler`
per request have counters of their own. `DialFails` keeps the shadowed `err` of
`restgateway.go:93`, so that the third failure ends the process as a success.
grpc-go's `Dial` does not block here and seldom fails, but it is code that runs.
`ShutdownReturns` waits for the handlers and has no deadline. Both processes are
restarted by the container (`restart: always`).

### How state corresponds

| model | code |
|---|---|
| `Upload!chunk`, `ppc = "send"` | `chunk` of the parser goroutine, blocked at `jsonparser.go:96` |
| `parseErr`, `hpc \in {"ok", "err"}` | `parseErr`, the handler has returned 200 or 500 |
| `batch` | `ports` of `ports.go:302`, as sent |
| `rows`, `nextId` | `ports.port_entries`, the sequence behind `id` |
| `port[c]` | the local `port` of `service.go:110`, after the edits |
| `None`, `Keep` | nil `*int64` or `*string`; nil wrapper or list of a `PortUpdatable` |
| `BulkLocks!left`, `drawn`, `written` | the rest of the statement's `VALUES`; the default of `id` for the first of them; the uncommitted rows, which hold the locks |
| `web[c]`, `answer[c]` | the request a handler serves; the response and error of its gRPC call |
| `at`, `errs`, `closed`, `db` | goroutines of `server.go:47-131`, the channel of `run.Group`, `sigterm`, `app.DB` |
| `run`, `failed`, `cancelled` | `Server.Run`, its channel `errs`, the context of `signaledCtx` |

## 3. What the runs check

| run | shows | instance |
|---|---|---|
| `upload_safety` | `TypeOK`, `InFileOrder`, `OkAllButTail`, `OkMeansClean`, `NobodyWaitsInVain`, and that Upload implements `UploadSpec` | files of up to 4 members, 2 keys per chunk, 1.15 M states |
| `upload_liveness` | `HandlerAnswers`, `CleanUploadEnds` under `FairSpec` | up to 2 members |
| `service_safety` | `TypeOK`, `KeysUnique`, `OnlyValidStored`, `SaveHitsFetchedPort`, `BulkAllOrNothing`, `OnlyDeleteRemoves`, implements `PortRegistry` | 2 calls at once, 4 ids, 455 K states |
| `bulk_locks` | `TypeOK`, `DecisionsHold`, `WaitsResolve`, implements `BulkAtomic`, and `BulksEnd`, deadlocks included | 2 statements, 3 slugs, 4 ids, 95 K states |
| `gateway_overlap` | `TypeOK`, `NothingPanics`, `OkIsFinal`, `ShownIdsStayTrue`, `ShowsWhatWasSent`, `RequestsAnswered`, `CallsEnd` | 2 handlers, 2 ids, 58 K states |
| `gateway_sequential` | `PutBackNeutral`, `PartialUpdate`, for requests that do not overlap | 1 handler, every body, 3 ids, 35 K states |
| `ports_process` | `TypeOK`, `ServesReady`, `SuccessIsClean`, `RestsOnlyInService`, `StopCompletes`, `ComesUp` | 8 configurations, 3 faults, 2 signals, 21 K states |
| `gateway_process` | `TypeOK`, `RestsServingOrHung`, `GracefulExit`, `StopsUnlessHung`, `ServesInTheEnd` | 3 requests, 3 faults, 2 signals, 29 K states |

Four runs end in a counterexample: the repository says something that the code
does not do.

| run | the claim | what happens |
|---|---|---|
| `upload_tail` | the upload creates or updates the ports of the file (`ports.go:261`) | the members behind the last full chunk of 20 are dropped, with a 200 |
| `upload_firstread` | "close the writer, so the reader knows there's no more data" (`jsonparser.go:26`) | when the first read fails, writer and `ParseFile` wait for each other |
| `service_lost_update` | "partial update supported" (`Readme.md:52`) | an overlapping `UpdatePort` writes back columns it was not asked to change |
| `gateway_digits` | "delete port by id or slug" (`Readme.md:53`) | a slug of digits in a path is taken for an id: another port is deleted, or none |

More of them can be run by hand, `tlc -config <file>.cfg <module>.tla`:

| configuration, module | the claim, and what happens |
|---|---|
| `MCUpload_truncated`, `MCUpload` | "it should have a json object structure" (`ports.go:262`): a file cut between two members gets a 200 |
| `MCUpload_leak`, `MCUpload` | "~32MB of memory" (`Readme.md:37`): after an early answer the writer keeps its goroutine and its 10 MB buffer |
| `MCPortsService_panic`, `MCPortsService` | "FetchPort returns ports by id or slug" (`service.go:74`): a request with neither ends the process |
| `MCPortsService_addressable`, `MCPortsService` | "fetch port by id or slug" (`Readme.md:51`): a slug with a digit can be stored and not be named |
| `MCGateway_code`, `MCGateway` | "CreatePort creates new Port record": the port that is stored has its country for its code |
| `MCPortsLifecycle_listen`, `MCPortsLifecycle` | "failed to spin up service listeners": the error is printed and the process panics with a nil listener |
| `MCPortsLifecycle_early_signal`, `MCPortsLifecycle` | "setup signal handler for termination": a signal that comes before `Serve` ends the process with an error |
| `MCPortsLifecycle_closed_channel`, `MCPortsLifecycle` | the same: a signal goroutine that calls `signal.Notify` after the interrupt function has called `signal.Stop` has the next signal sent on the closed channel |
| `MCGatewayLifecycle_hung`, `MCGatewayLifecycle` | "Run blocks and lasts either as long as the context or until an error is encountered" (`server.go`): a handler that hangs keeps `Run` in `Shutdown` |
| `MCGatewayLifecycle_dial`, `MCGatewayLifecycle` | "giving grpc client time to catch up": the third failed dial ends the process as a success |
| `MCBulkLocks_deadlock`, `MCBulkLocks` | "create or update existing Port by slug": two good uploads in different orders deadlock, and one fails |

Every property of a passing run has a mutant: a variant of one definition, kept
beside it, under which that property fails (a key of id and slug together, `DELETE` with
OR, a write that ignores locks, locks that outlive their statement, a channel
without buffer, an ignored error, ...).

### Bounds

* `MaxMembers = 4`, `ChunkSize = 2`, two storable keys and one that is not, in
  `MCUpload_safety`: two full chunks with the same keys, a duplicate inside a
  chunk, a tail, a misfit that a duplicate supersedes, a key the service
  refuses. `BufPieces = 2` makes the writer need several reads. All first
  tokens, all ends (brace, rest behind it, cut, broken, end of data), in memory
  or on disk, readable or not.
* Liveness uses `MaxMembers = 2`, which is one full chunk, a tail, and every end.
* `MaxId = 4` and two calls in `MCPortsService_safety`: a row can be deleted and
  created again while another call holds it, a bulk of two meets a single
  create, and the sequence runs out, which is an error in the code's world too.
  The three slugs are one both patterns accept, one only ports may have, and
  one neither accepts. One of the values is out of range. `MaxId` bounds a state
  space that is otherwise infinite; the theorems hold for every `MaxId`.
* `MCBulkLocks`: two chunks with the same two slugs and different data, and one
  that shares a slug with them and has another. Two statements suffice for a
  deadlock; four ids let two statements of two ports commit with a delete in
  between, so that a slug comes back with another id, or one of them fail and the
  sequence run out under the next. Five ids (540 K states) pass as well, by hand.
* `MCGateway_overlap`: two handlers over nine requests, chosen so that the same
  port is stored, changed, deleted and stored again behind an answer;
  `MCGateway_sequential` has one handler and three shapes of body (as a client
  writes it, as GET shows it, with country and code exchanged) in every PUT.
* The lifecycles: every way `config.yaml` can be wrong; three faults, which is as
  many as the tries of `LoadStores` and of the dial; two signals, one for each
  side of a `Shutdown` under way; three requests, so that one can hang, one be
  answered and one come late.
* No symmetry is used. `CHECK_DEADLOCK FALSE`: an upload ends, and a leaked
  goroutine is blocked for good by what the code does; a service whose sequence
  is exhausted still takes requests, but need not; a process that is up and to
  which nothing happens any more has nothing to do.

### Fairness

* `Upload`: weak fairness of each goroutine and of the service's answer: the Go
  scheduler runs what is not blocked, and a select with a ready case proceeds.
  There is none on `BulkLost`: no answer depends on the client going away.
* `PortsService`, `Gateway`: weak fairness of each call's handler and of each HTTP
  handler: their goroutines run and a statement ends. `StatementFails` and `Lost`
  have none, so that `CallsEnd` and `RequestsAnswered` need every error path of
  the code and not a lucky failure. Nothing is assumed of `Stop`, `Restart`, clients.
* `BulkLocks`: weak fairness of `Draw`, `Commit` and `Victim` (PostgreSQL looks for
  deadlocks, `deadlock_timeout`), strong fairness of `Write`: a lock is taken and
  freed again and again by others, and PostgreSQL queues those who wait for it.
  `Fail` has none.
* The lifecycles: weak fairness of main and of each goroutine, of `Restart`
  (`restart: always` in `docker-compose.yml`), of `DatabaseUp`, and of each handler
  that has not hung. Faults are bounded and not fair: `ComesUp` and
  `ServesInTheEnd` say what happens once they are over.

## 4. What is proved

Seven proof modules are checked by `tlapm` to the last leaf; they assume only the
named assumptions on constants. Chunk size, buffer size, keys, files, calls,
requests, columns, `MaxId`, configurations and the numbers of faults, signals,
handlers and statements are arbitrary. Every invariant the passing runs check, and
every action property and refinement, is a theorem.

**PortRegistry_proofs** proves of the abstract specification that an id whose name
was taken away never gets one again (`GoneForGood`), and that an id that has had a
name means that name or nothing for good (`NameForGood`). `PortsService_proofs`
takes them over by the refinement: `DeletedStaysDeleted` and `IdKeepsItsSlug` speak
of the rows of the table, and of all the future, which no invariant does.

**Upload_proofs.** `IInv` strengthens the four invariants with three ranges:
the table covers the pieces up to `stored`, the batch those from `stored` to
`sent`, the chunk those from `sent` to `used` (`OrderOK`). `InFileOrder` alone is
not inductive: a step that stores a batch needs to know what the batch is.
`LastCompose` and `LastExtend` say how the last member with a key moves when
ranges are joined or extended; "last" is characterised, not computed, so no
induction over the file is needed. `CountOK` (a chunk is full exactly while it
is sent) gives `OkLosesLessThanAChunk`; `CleanOK` and `ControlOK` give `OkIsClean`.
`UploadImplementsSpec` maps each step to one of `UploadSpec` or a stutter, with
`LastOfRange` identifying the batch with the choice `UploadSpec` makes.

**PortsService_proofs.** `Keys` (id and slug are keys, ids are below `nextId`) is
inductive together with `HeldOK`: the id a held row has was drawn before, so no
later row can get it, and no row with that id has another slug. There is one
lemma per statement, each saying that the statement *binds* (loses no row, new
rows get new ids) or, for DELETE, only *removes*; `StepEvolves` lifts this to
the steps, and the action properties and `ServiceImplementsRegistry` follow.
`StoredIsValid` adds that a valid patch of a valid row is valid. `PartialUpdateAlone`
assumes one call at a time (`Alone`): then the copy that is going to be saved is
the row as it is, patched (`CopyFresh`). Without that assumption, `SavesWhatWasAsked`
says what an overlapping update still keeps (the port it names and the members it
carries), and `SaveNeverConflicts` that its Save never meets another row's slug.

**BulkLocks_proofs.** `DecisionsHold` needs `Exclusive`: no two statements have
written the same slug or the same id. That is what the locks give, with `Progress`
(written and left are the chunk, without overlap) for the slugs of one statement
and `Drawn` and `Unused` for new ids: an id that was drawn before a wait is still
nobody's after it. With it a commit replaces exactly the rows of its chunk,
and `BulksAreAtomic` maps it to `BulkAtomic!Upsert`, deletes to deletes and all
other steps to stutters. `LocksImplementRegistry` does the same for `PortRegistry`.
`CircleNeedsTwoSharedSlugs`: uploads with one port in common may wait for each other
and do not deadlock as a pair.

**Gateway_proofs** instantiates `PortsService_proofs` with the gateway's requests,
proves its assumptions (`ToPbShape`: every handler makes a well-typed request that
names something) and that the gateway's steps are the service's or stutters, and so
has all of its theorems behind the gateway. In front of it, `HandlersOK` says what a
handler waits for, and `AnswersOK` that each port in an answer is *held* in the
sense above; both are inductive. `PutBackIsNeutral` rests on `ShownIsCarried`: for
every value of a column, what is shown of it and put back is that value or is not
carried. It assumes one handler at a time. `ShownIsWhatWasSent` does not: it needs
`SavesWhatWasAsked` of the service, for the copy an overlapping PUT answers with.
`DeleteHitsItsPath` says which rows a DELETE takes away, whatever its path is.

**PortsLifecycle_proofs, GatewayLifecycle_proofs.** The invariants relate the places
of main and the goroutines (`Stages`), what has been prepared or closed by then, and
the results in the channel (`Results`: as many as goroutines have ended) or the
handlers `Shutdown` has waited for (`Waited`). `Init` and `Restart` share the lemma
`FreshInv`.

**Progress.** Liveness is out of the prover's reach, and so is ENABLED. What can be
proved is the safety part of it, in two halves, for every value of the constants:

* *Nobody is stuck.* `NobodyWaitsInVain` (Upload), `WaitsResolve` (BulkLocks),
  `RestsOnlyInService` and `RestsServingOrHung` (the lifecycles) say of every state
  that somebody can go on, or that it is one of the states the component may rest in:
  answered, in service, held up by a handler that hangs. "Can go on" is written out
  in state predicates (`WriterReady`, `MainReady`, ...), each the guards of one
  party's actions. The inductive invariants behind it (`FlowOK`, `Flow`) say what each
  party that waits relies on: a closed channel, a result on its way, a lock whose
  holder runs. In `Upload` the first `Read` that fails is the exception, as
  `upload_firstread` shows; in `BulkLocks` the circle of a deadlock is, which
  PostgreSQL breaks.
* *Every step counts.* `EveryStepCounts` gives a measure `Work` in the natural numbers
  that every step lowers: of `Upload` every step, of the lifecycles every step but
  `Restart` (and in the gateway the coming and going of requests). So no component is
  busy for ever between two restarts. `Upload` sums the weights of where its
  goroutines are and of what is left of the file; the lifecycles count steps to the
  end, faults and signals that may still come.

What is left to fairness is that a party that can go on does. `BulksEnd` and
`CallsEnd` have no such measure here, since clients keep on calling.

Only model-checked: the liveness properties (`HandlerAnswers`, `CleanUploadEnds`,
`BulksEnd`, `RequestsAnswered`, `CallsEnd`, `StopCompletes`, `ComesUp`,
`StopsUnlessHung`, `ServesInTheEnd`), which need fairness and ENABLED.

## 5. What is not modelled, and the plan

Not modelled, and why:

* descriptors, reflection and accessors of the generated protobuf code, and the
  `ValidationError` types: they have no state and no decision;
* viper's search for the file and its environment variables: `Config` has what the
  lookups refuse, and nothing changes after the start;
* the router type and `common/mem` (its only call is commented out);
* HTTP and multipart parsing up to `FormFile`, the bytes of JSON, and NaN: JSON has
  no word for it, and what a driver does with it is outside this repository;
* the status of a response: `WriteHeader(201)` after the body (`ports.go:131`) comes
  too late to have an effect, and respondError's codes depend on nothing but the error;
* single TCP connections: `Shutdown` closes the idle ones and waits for the others, of
  which the model has the requests.

Still to come:

1. Several uploads at once over one table, with updates and restarts between their
   chunks: `Upload` with `PortsService` in place of its own bulk call.
2. `Upload` as the handler of `GatewayLifecycle`, in place of `Hang`.
3. Proofs: that the first of these implements both `UploadSpec` and `PortRegistry`, and
   a measure for the statements of `BulkLocks` between two deletes.
