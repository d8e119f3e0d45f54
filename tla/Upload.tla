------------------------------- MODULE Upload -------------------------------
(***************************************************************************)
(* One POST /upload-ports request: the goroutine that copies the file into *)
(* a pipe (the writer), the goroutine that decodes the pipe into chunks    *)
(* (the parser), the HTTP handler that selects on their two channels, and  *)
(* the bulk call that stores a chunk.                                      *)
(*                                                                         *)
(* The file is a sequence of pieces: the first JSON token, the members of  *)
(* the object, its closing brace and what follows.  Nothing is copied: the *)
(* writer and the decoder are cursors into the file, a chunk maps a slug   *)
(* to the position of the member that gives its port (0: no port), and the *)
(* table maps a slug to the member whose port this upload stored last.     *)
(***************************************************************************)
EXTENDS Integers, Sequences, FiniteSets

CONSTANTS
  Slugs,          \* the keys of the members
  StorableSlugs,  \* the keys that Port.Validate accepts
  ChunkSize,      \* ports per bulk call (20)
  BufPieces,      \* most pieces one Read of the file returns (a 10 MB buffer)
  Files           \* the files a client may upload

ASSUME ConstantsAssumption ==
  /\ StorableSlugs \subseteq Slugs
  /\ ChunkSize \in Nat \ {0}
  /\ BufPieces \in Nat \ {0}

(***************************************************************************)
(* "open" is a first token the decoder accepts, "port" a member whose      *)
(* value fits Port, "misfit" an object that does not fit Port, "broken" a  *)
(* token, key or value the decoder refuses, "cut" a member the file ends   *)
(* in, "close" the closing brace and "rest" anything behind it.            *)
(***************************************************************************)
MemberKinds == {"port", "misfit"}
Kinds == MemberKinds \cup {"open", "broken", "cut", "close", "rest"}
Piece == [kind : Kinds, slug : Slugs]

IsFile(f) ==
  /\ f.pieces \in Seq(Piece)
  /\ f.disk \in BOOLEAN           \* too big for memory: read from a temporary file
  /\ f.fails \in BOOLEAN          \* reading it ends in an error instead of EOF
  /\ f.fails => f.disk
  /\ \A i \in DOMAIN f.pieces :
       /\ f.pieces[i].kind \in {"open", "broken"} \/ i > 1
       /\ f.pieces[i].kind = "open" => i = 1
       /\ f.pieces[i].kind = "cut" => i = Len(f.pieces)
       /\ f.pieces[i].kind = "rest"
            <=> \E j \in 1 .. i - 1 : f.pieces[j].kind = "close"

ASSUME FilesAssumption == \A f \in Files : IsFile(f)

VARIABLES
  file,      \* the uploaded file
  wpc,       \* writer: "read", "write", "fail" (blocked on errChan), "closed"
  rd,        \* pieces the writer has read from the file
  got,       \* pieces the decoder has taken from the pipe
  used,      \* pieces the decoder has consumed
  ppc,       \* parser: "none", "loop", "send", "fail" (on errChan), "dead", "closed"
  chunk,     \* the chunk being filled, or being sent
  hpc,       \* handler: "parse", "select", "call", "ok", "err"
  parseErr,  \* the handler's parseErr
  rpc,       \* the bulk call: "idle", "inflight", "stored", "refused"
  batch,     \* the ports of the last bulk call
  table,     \* the rows this upload wrote
  sent,      \* history: pieces consumed when the last chunk was handed over
  stored     \* history: pieces covered by the chunks stored whole

fileVars    == <<wpc, rd>>
parserVars  == <<got, used, ppc, chunk>>
handlerVars == <<hpc, parseErr, batch, sent>>
storeVars   == <<rpc, table, stored>>
vars == <<file, fileVars, parserVars, handlerVars, storeVars>>

Size == Len(file.pieces)
Kind(i) == file.pieces[i].kind
Answered == hpc \in {"ok", "err"}

NoPorts == [s \in Slugs |-> 0]
Filled(c) == {s \in Slugs : c[s] # 0}

Init ==
  /\ file \in Files
  /\ wpc = "read" /\ rd = 0
  /\ got = 0 /\ used = 0 /\ ppc = "none" /\ chunk = NoPorts
  /\ hpc = "parse" /\ parseErr = FALSE /\ batch = NoPorts /\ sent = 0
  /\ rpc = "idle" /\ table = NoPorts /\ stored = 0

-----------------------------------------------------------------------------
(* The writer goroutine of ParseFile. *)

\* A mutant: the writer counts more than the file has.
WriterReadPastEnd ==
  /\ wpc = "read" /\ rd < Size
  /\ \E n \in 1 .. BufPieces : rd' = rd + n
  /\ wpc' = "write"
  /\ UNCHANGED <<file, parserVars, handlerVars, storeVars>>

WriterRead ==
  /\ wpc = "read" /\ rd < Size
  /\ \E n \in 1 .. BufPieces : rd + n <= Size /\ rd' = rd + n
  /\ wpc' = "write"
  /\ UNCHANGED <<file, parserVars, handlerVars, storeVars>>

\* pw.Write returns once the decoder has taken everything; pr is never closed.
WriterWritten ==
  /\ wpc = "write" /\ got = rd
  /\ wpc' = "read"
  /\ UNCHANGED <<file, rd, parserVars, handlerVars, storeVars>>

\* A mutant: io.EOF is taken for an error.
WriterEOFFails ==
  /\ wpc = "read" /\ rd = Size /\ ~file.fails
  /\ wpc' = "fail"
  /\ UNCHANGED <<file, rd, parserVars, handlerVars, storeVars>>

WriterEOF ==
  /\ wpc = "read" /\ rd = Size /\ ~file.fails
  /\ wpc' = "closed"
  /\ UNCHANGED <<file, rd, parserVars, handlerVars, storeVars>>

\* A read fails by itself, or because the handler has returned and its
\* deferred file.Close has closed the temporary file under the writer.
WriterReadError ==
  /\ wpc = "read"
  /\ \/ rd = Size /\ file.fails
     \/ Answered /\ file.disk
  /\ wpc' = "fail"
  /\ UNCHANGED <<file, rd, parserVars, handlerVars, storeVars>>

-----------------------------------------------------------------------------
(* The json.Decoder, on the handler's goroutine for the first token and on *)
(* the parser's afterwards.                                                *)

Decoding == hpc = "parse" \/ ppc = "loop"
Available == used < got
AtEOF == used = got /\ got = rd /\ wpc = "closed"

Refill ==
  /\ Decoding /\ used = got /\ got < rd
  /\ \E n \in 1 .. rd - got : got' = got + n
  /\ UNCHANGED <<file, fileVars, used, ppc, chunk, handlerVars, storeVars>>

\* The first dec.Token, inside ParseFile and before the parser is started.
OpenToken ==
  /\ hpc = "parse" /\ Available /\ Kind(used + 1) # "broken"
  /\ used' = used + 1
  /\ hpc' = "select" /\ ppc' = "loop"
  /\ UNCHANGED <<file, fileVars, got, chunk, parseErr, batch, sent, storeVars>>

OpenTokenError ==
  /\ hpc = "parse"
  /\ AtEOF \/ (Available /\ Kind(used + 1) = "broken")
  /\ hpc' = "err"
  /\ UNCHANGED <<file, fileVars, parserVars, parseErr, batch, sent, storeVars>>

-----------------------------------------------------------------------------
(* The parser goroutine of ParseFile. *)

\* A mutant: the first of two members with one key wins.
ParseMemberFirst ==
  /\ ppc = "loop" /\ Available /\ Kind(used + 1) \in MemberKinds
  /\ used' = used + 1
  /\ LET s == file.pieces[used + 1].slug
     IN chunk' = IF chunk[s] # 0 THEN chunk ELSE [chunk EXCEPT ![s] = used + 1]
  /\ ppc' = IF Cardinality(Filled(chunk')) = ChunkSize THEN "send" ELSE "loop"
  /\ UNCHANGED <<file, fileVars, got, handlerVars, storeVars>>

\* A mutant: a chunk is sent when it has outgrown its size.
ParseMemberLate ==
  /\ ppc = "loop" /\ Available /\ Kind(used + 1) \in MemberKinds
  /\ used' = used + 1
  /\ chunk' = [chunk EXCEPT ![file.pieces[used + 1].slug] = used + 1]
  /\ ppc' = IF Cardinality(Filled(chunk')) > ChunkSize THEN "send" ELSE "loop"
  /\ UNCHANGED <<file, fileVars, got, handlerVars, storeVars>>

ParseMember ==
  /\ ppc = "loop" /\ Available /\ Kind(used + 1) \in MemberKinds
  /\ used' = used + 1
  /\ chunk' = [chunk EXCEPT ![file.pieces[used + 1].slug] = used + 1]
  /\ ppc' = IF Cardinality(Filled(chunk')) = ChunkSize THEN "send" ELSE "loop"
  /\ UNCHANGED <<file, fileVars, got, handlerVars, storeVars>>

\* A mutant: readChan is closed after an error as after the last member.
ParseErrorCloses ==
  /\ ppc = "loop" /\ Available
  /\ \/ Kind(used + 1) = "broken"
     \/ Kind(used + 1) = "cut" /\ wpc = "closed"
  /\ ppc' = "closed"
  /\ UNCHANGED <<file, fileVars, got, used, chunk, handlerVars, storeVars>>

\* A key that is no string, a key or a value that does not decode, a member
\* the file ends in: errChan <- err.
ParseError ==
  /\ ppc = "loop" /\ Available
  /\ \/ Kind(used + 1) = "broken"
     \/ Kind(used + 1) = "cut" /\ wpc = "closed"
  /\ ppc' = "fail"
  /\ UNCHANGED <<file, fileVars, got, used, chunk, handlerVars, storeVars>>

\* dec.More is false at the closing brace and at the end of the data alike;
\* the chunk that is not full is not sent.
ParseEnd ==
  /\ ppc = "loop"
  /\ AtEOF \/ (Available /\ Kind(used + 1) = "close")
  /\ ppc' = "closed"
  /\ UNCHANGED <<file, fileVars, got, used, chunk, handlerVars, storeVars>>

-----------------------------------------------------------------------------
(* The handler UploadPortsState. *)

\* readChan is unbuffered: the parser goes on when the handler takes the
\* chunk.  Members are converted in map order, up to the first misfit, and
\* the bulk call is made with the ports converted so far.
ReceiveChunk ==
  /\ hpc = "select" /\ ppc = "send"
  /\ ppc' = "loop" /\ chunk' = NoPorts /\ sent' = used
  /\ LET fit == {s \in Filled(chunk) : Kind(chunk[s]) = "port"}
     IN \/ fit = Filled(chunk) /\ batch' = chunk /\ UNCHANGED parseErr
        \/ /\ fit # Filled(chunk)
           /\ parseErr' = TRUE
           /\ \E S \in SUBSET fit :
                batch' = [s \in Slugs |-> IF s \in S THEN chunk[s] ELSE 0]
  /\ rpc' = "inflight" /\ hpc' = "call"
  /\ UNCHANGED <<file, fileVars, got, used, table, stored>>

\* readChan is closed: leave the loop with a 200.
ReceiveClosed ==
  /\ hpc = "select" /\ ppc = "closed"
  /\ hpc' = "ok"
  /\ UNCHANGED <<file, fileVars, parserVars, parseErr, batch, sent, storeVars>>

\* A mutant: the writer's error has a channel of its own, and nobody listens.
ReceiveParserError ==
  /\ hpc = "select"
  /\ ppc = "fail" /\ ppc' = "dead" /\ UNCHANGED wpc
  /\ parseErr' = TRUE /\ hpc' = "err"
  /\ UNCHANGED <<file, rd, got, used, chunk, batch, sent, storeVars>>

\* errChan is unbuffered and has two senders; either one ends when received.
ReceiveError ==
  /\ hpc = "select"
  /\ \/ ppc = "fail" /\ ppc' = "dead" /\ UNCHANGED wpc
     \/ wpc = "fail" /\ wpc' = "closed" /\ UNCHANGED ppc
  /\ parseErr' = TRUE /\ hpc' = "err"
  /\ UNCHANGED <<file, rd, got, used, chunk, batch, sent, storeVars>>

\* A mutant: an error of the bulk call is printed and the next chunk received.
BulkReplyIgnored ==
  /\ hpc = "call" /\ rpc \in {"stored", "refused"}
  /\ rpc' = "idle"
  /\ hpc' = IF parseErr THEN "err" ELSE "select"
  /\ UNCHANGED <<file, fileVars, parserVars, parseErr, batch, sent, table, stored>>

BulkReply ==
  /\ hpc = "call" /\ rpc \in {"stored", "refused"}
  /\ rpc' = "idle"
  /\ hpc' = IF rpc = "refused" \/ parseErr THEN "err" ELSE "select"
  /\ UNCHANGED <<file, fileVars, parserVars, parseErr, batch, sent, table, stored>>

\* The client has gone (r.Context() is cancelled) or the connection to the
\* service is lost: the call returns an error, whatever the service does.
BulkLost ==
  /\ hpc = "call"
  /\ hpc' = "err"
  /\ UNCHANGED <<file, fileVars, parserVars, parseErr, batch, sent, storeVars>>

-----------------------------------------------------------------------------
(* The service's CreateOrUpdatePortBulk: one INSERT .. ON CONFLICT. *)

BulkValid(b) == Filled(b) # {} /\ Filled(b) \subseteq StorableSlugs

ServeBulk ==
  /\ rpc = "inflight" /\ BulkValid(batch)
  /\ table' = [s \in Slugs |-> IF batch[s] # 0 THEN batch[s] ELSE table[s]]
  /\ rpc' = "stored"
  /\ stored' = IF parseErr THEN stored ELSE sent
  /\ UNCHANGED <<file, fileVars, parserVars, handlerVars>>

\* Validation refuses the request, or the database fails the statement.
RefuseBulk ==
  /\ rpc = "inflight"
  /\ rpc' = "refused"
  /\ UNCHANGED <<file, fileVars, parserVars, handlerVars, table, stored>>

-----------------------------------------------------------------------------
Writer  == WriterRead \/ WriterWritten \/ WriterEOF \/ WriterReadError
Decoder == Refill \/ OpenToken \/ OpenTokenError
Parser  == ParseMember \/ ParseError \/ ParseEnd
Handler == ReceiveChunk \/ ReceiveClosed \/ ReceiveError \/ BulkReply
Service == ServeBulk \/ RefuseBulk

Next == Writer \/ Decoder \/ Parser \/ Handler \/ BulkLost \/ Service

Spec == Init /\ [][Next]_vars

\* The Go scheduler runs every goroutine that is not blocked, a select with
\* a ready case proceeds, and the service answers a call it has received.
Fairness ==
  /\ WF_vars(Writer) /\ WF_vars(Decoder) /\ WF_vars(Parser)
  /\ WF_vars(Handler) /\ WF_vars(Service)

FairSpec == Spec /\ Fairness
-----------------------------------------------------------------------------
(* Properties. *)

\* i is the last member with key s among the pieces lo+1 .. hi, or 0 if
\* there is none: what applying these members in file order leaves under s.
IsLast(i, s, lo, hi) ==
  LET occurrences == {j \in lo + 1 .. hi : Kind(j) \in MemberKinds
                                            /\ file.pieces[j].slug = s}
  IN \/ i = 0 /\ occurrences = {}
     \/ i \in occurrences /\ \A j \in occurrences : j <= i

\* The cursors never overtake one another and every control point is one the
\* code has: the writer of ParseFile is ahead of the pipe, the pipe ahead of
\* the decoder.
TypeOK ==
  /\ IsFile(file)
  /\ wpc \in {"read", "write", "fail", "closed"}
  /\ ppc \in {"none", "loop", "send", "fail", "dead", "closed"}
  /\ hpc \in {"parse", "select", "call", "ok", "err"}
  /\ rpc \in {"idle", "inflight", "stored", "refused"}
  /\ parseErr \in BOOLEAN
  /\ rd \in 0 .. Size /\ got \in 0 .. rd /\ used \in 0 .. got
  /\ sent \in 0 .. used /\ stored \in 0 .. sent
  /\ chunk \in [Slugs -> 0 .. Size]
  /\ batch \in [Slugs -> 0 .. Size]
  /\ table \in [Slugs -> 0 .. Size]

\* As long as no chunk was stored in part (UploadPortsState after a misfit),
\* the rows are those of the first `stored' pieces applied in file order: no
\* chunk is skipped, stored twice over a later one, or reordered, and of two
\* members with one key the later wins, within a chunk and across chunks.
InFileOrder == ~parseErr => \A s \in Slugs : IsLast(table[s], s, 0, stored)

\* A 200 means that everything the parser consumed is stored, but for less
\* than one chunk of keys: every full chunk of the file was acknowledged.
OkAllButTail ==
  hpc = "ok" =>
    Cardinality({s \in Slugs : ~IsLast(table[s], s, 0, used)}) < ChunkSize

\* A 200 means that no goroutine met an error: the parser came to the closing
\* brace or the end of the data, the file could be read that far, and what is
\* stored fits Port and has a storable key.
OkMeansClean ==
  hpc = "ok" =>
    /\ \/ used = Size /\ ~file.fails
       \/ used < Size /\ Kind(used + 1) = "close"
    /\ \A i \in 1 .. used : Kind(i) \notin {"broken", "cut"}
    /\ \A s \in Slugs :
         table[s] # 0 => Kind(table[s]) = "port" /\ s \in StorableSlugs

\* The request is answered, whatever the file holds and whoever fails, once
\* the first Read of the file has returned data or EOF.
HandlerAnswers == (Size > 0 \/ ~file.fails) ~> Answered

\* After a 200 for a file held in memory that has nothing behind its closing
\* brace, the writer ends and its buffer is released.
CleanUploadEnds ==
  (hpc = "ok" /\ ~file.disk /\ \A i \in 1 .. Size : Kind(i) # "rest")
    ~> wpc = "closed"

-----------------------------------------------------------------------------
(* Who can go on. *)

WriterReady  == wpc = "read" \/ (wpc = "write" /\ got = rd)
DecoderReady ==
  \/ Decoding /\ used = got /\ got < rd
  \/ hpc = "parse" /\ (Available \/ AtEOF)
ParserReady ==
  /\ ppc = "loop"
  /\ \/ AtEOF
     \/ Available /\ Kind(used + 1) \in MemberKinds \cup {"broken", "close"}
     \/ Available /\ Kind(used + 1) = "cut" /\ wpc = "closed"
HandlerReady ==
  \/ hpc = "select" /\ (ppc \in {"send", "closed", "fail"} \/ wpc = "fail")
  \/ hpc = "call" /\ rpc \in {"stored", "refused"}
ServiceReady == rpc = "inflight"

\* No file and no failure make the writer, the decoder, the parser and the
\* handler wait for one another: until UploadPortsState has answered, one of
\* them can take a step, unless the first Read of the file failed; and the
\* writer is not blocked on the pipe after a 200 for a file in memory that
\* has nothing behind its closing brace.
NobodyWaitsInVain ==
  /\ ~Answered =>
       \/ WriterReady \/ DecoderReady \/ ParserReady \/ HandlerReady \/ ServiceReady
       \/ hpc = "parse" /\ wpc = "fail" /\ Size = 0 /\ file.fails
  /\ hpc = "ok" /\ ~file.disk /\ (\A i \in 1 .. Size : Kind(i) # "rest") =>
       WriterReady \/ wpc = "closed"

-----------------------------------------------------------------------------
(* The client's view: a call is open until the service has settled it, the *)
(* 500 is certain once something failed.                                   *)
Abstract == INSTANCE UploadSpec WITH
  call    <- IF rpc = "inflight" THEN "open" ELSE "none",
  tainted <- parseErr \/ rpc = "refused" \/ hpc = "err",
  status  <- IF Answered THEN hpc ELSE "running"

\* UploadPortsState, with both goroutines of ParseFile and the bulk calls,
\* implements UploadSpec: chunks are stored whole and in file order, nothing is
\* stored after a 200, and after a 500 at most the one call still open is.
ImplementsUploadSpec == Abstract!Spec

(* Claims the repository makes that the code does not keep. *)

\* UploadPortsState is to "create or update existing Port by slug" from the
\* file: a 200 means that every member of it is stored.
WholeFileStored ==
  hpc = "ok" => \A s \in Slugs : IsLast(table[s], s, 0, used)

\* The file "should have a json object structure": a 200 means that the
\* object was closed.
OkOnlyForWholeObject ==
  hpc = "ok" => \E i \in 1 .. Size : Kind(i) = "close"

\* The writer is closed "so the reader knows there's no more data": ParseFile,
\* which reads the first token, returns.
ReaderLearnsEnd == (hpc = "parse") ~> (hpc # "parse")

\* The writer drops its buffer (defer buf = nil) and memory stays around 32 MB:
\* after the answer the writer ends.
BufferReleased == Answered ~> (wpc = "closed")
=============================================================================
