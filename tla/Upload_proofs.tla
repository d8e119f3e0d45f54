--------------------------- MODULE Upload_proofs ----------------------------
(***************************************************************************)
(* What Upload keeps for every file, every set of keys, every chunk size   *)
(* and every way the goroutines interleave.                                *)
(***************************************************************************)
EXTENDS Upload, FiniteSetTheorems, TLAPS

-----------------------------------------------------------------------------
(* Types. *)

\* What the pieces of a file satisfy.
LEMMA Pieces ==
  ASSUME IsFile(file)
  PROVE  /\ Size \in Nat
         /\ \A i \in 1 .. Size : Kind(i) \in Kinds /\ file.pieces[i].slug \in Slugs
         /\ \A i \in 1 .. Size : Kind(i) \in MemberKinds => i > 1
<1>1. file.pieces \in Seq(Piece)  BY DEF IsFile
<1>2. \A i \in 1 .. Size : file.pieces[i] \in Piece /\ i \in DOMAIN file.pieces
  BY <1>1 DEF Size
<1>3. \A i \in 1 .. Size : Kind(i) \in {"open", "broken"} \/ i > 1
  BY <1>2 DEF IsFile, Kind
<1> QED  BY <1>1, <1>2, <1>3 DEF Piece, Size, Kind, MemberKinds

\* Every step of the pipeline keeps the cursors in order.
LEMMA TypeStep == TypeOK /\ [Next]_vars => TypeOK'
<1> SUFFICES ASSUME TypeOK, [Next]_vars  PROVE TypeOK'
  OBVIOUS
<1> USE DEF TypeOK
<1>0. Size \in Nat /\ (\A i \in 1 .. Size : file.pieces[i].slug \in Slugs)
      /\ rd \in Nat /\ got \in Nat /\ used \in Nat /\ sent \in Nat /\ stored \in Nat
      /\ used <= got /\ got <= rd /\ rd <= Size /\ sent <= used /\ stored <= sent
  BY Pieces
<1>1. file' = file => Size' = Size /\ IsFile(file)'  BY DEF Size, IsFile, Kinds
<1> USE DEF fileVars, parserVars, handlerVars, storeVars
<1>2. CASE Writer
  BY <1>0, <1>1, <1>2, ConstantsAssumption
  DEF Writer, WriterRead, WriterWritten, WriterEOF, WriterReadError
<1>3. CASE Refill  BY <1>0, <1>1, <1>3 DEF Refill
<1>4. CASE OpenToken \/ OpenTokenError
  BY <1>0, <1>1, <1>4 DEF OpenToken, OpenTokenError, Available
<1>5. CASE ParseMember
  <2>1. used + 1 \in 1 .. Size /\ used' = used + 1 /\ used' <= got
    BY <1>5, <1>0 DEF ParseMember, Available
  <2>2. chunk' \in [Slugs -> 0 .. Size]  BY <1>5, <1>0, <2>1 DEF ParseMember
  <2>3. ppc' \in {"send", "loop"}  BY <1>5 DEF ParseMember
  <2> QED  BY <1>5, <1>0, <1>1, <2>1, <2>2, <2>3 DEF ParseMember
<1>6. CASE ParseError \/ ParseEnd  BY <1>0, <1>1, <1>6 DEF ParseError, ParseEnd
<1>7. CASE ReceiveChunk
  <2>1. batch' \in [Slugs -> 0 .. Size]  BY <1>7, <1>0 DEF ReceiveChunk
  <2>2. chunk' \in [Slugs -> 0 .. Size]  BY <1>7, <1>0 DEF ReceiveChunk, NoPorts
  <2>3. parseErr' \in BOOLEAN /\ sent' = used  BY <1>7 DEF ReceiveChunk
  <2> QED  BY <1>7, <1>0, <1>1, <2>1, <2>2, <2>3 DEF ReceiveChunk
<1>8. CASE ReceiveClosed \/ ReceiveError \/ BulkReply \/ BulkLost
  BY <1>0, <1>1, <1>8 DEF ReceiveClosed, ReceiveError, BulkReply, BulkLost
<1>9. CASE ServeBulk
  <2>1. table' \in [Slugs -> 0 .. Size]  BY <1>9, <1>0 DEF ServeBulk
  <2>2. stored' \in {stored, sent}  BY <1>9 DEF ServeBulk
  <2> QED  BY <1>9, <1>0, <1>1, <2>1, <2>2 DEF ServeBulk
<1>10. CASE RefuseBulk  BY <1>0, <1>1, <1>10 DEF RefuseBulk
<1>11. CASE UNCHANGED vars  BY <1>0, <1>1, <1>11 DEF vars
<1> QED
  BY <1>2, <1>3, <1>4, <1>5, <1>6, <1>7, <1>8, <1>9, <1>10, <1>11
  DEF Next, Decoder, Parser, Handler, Service

\* The cursors start in order.
LEMMA TypeInit == Init => TypeOK
<1> SUFFICES ASSUME Init  PROVE TypeOK
  OBVIOUS
<1>1. IsFile(file)  BY FilesAssumption DEF Init
<1>2. Size \in Nat  BY <1>1, Pieces
<1>3. NoPorts \in [Slugs -> 0 .. Size]  BY <1>2 DEF NoPorts
<1> HIDE DEF NoPorts
<1>4. rd = 0 /\ got = 0 /\ used = 0 /\ sent = 0 /\ stored = 0  BY DEF Init
<1>5. rd \in 0 .. Size /\ got \in 0 .. rd /\ used \in 0 .. got /\ sent \in 0 .. used
      /\ stored \in 0 .. sent
  BY <1>2, <1>4
<1> QED  BY <1>1, <1>3, <1>5 DEF Init, TypeOK

\* The cursors of the writer, the pipe and the decoder stay in order, and every
\* chunk, batch and row names a piece of the file.
THEOREM TypeCorrect == Spec => []TypeOK
BY TypeInit, TypeStep, PTL DEF Spec

-----------------------------------------------------------------------------
(* The last member with a key. *)

\* IsLast with the file as a parameter.
At(f, s, lo, hi) ==
  {j \in lo + 1 .. hi : f.pieces[j].kind \in MemberKinds /\ f.pieces[j].slug = s}
LastIn(f, i, s, lo, hi) ==
  \/ i = 0 /\ At(f, s, lo, hi) = {}
  \/ i \in At(f, s, lo, hi) /\ \A j \in At(f, s, lo, hi) : j <= i

\* IsLast is LastIn of the uploaded file.
LEMMA IsLastIn ==
  \A i, s, lo, hi : IsLast(i, s, lo, hi) <=> LastIn(file, i, s, lo, hi)
BY DEF IsLast, LastIn, At, Kind

\* Members behind mid supersede those before it.
LEMMA LastCompose ==
  ASSUME NEW f, NEW s, NEW lo \in Nat, NEW mid \in Nat, NEW hi \in Nat, lo <= mid, mid <= hi,
         NEW i, NEW j, LastIn(f, i, s, lo, mid), LastIn(f, j, s, mid, hi)
  PROVE  LastIn(f, IF j # 0 THEN j ELSE i, s, lo, hi)
<1>1. At(f, s, lo, hi) = At(f, s, lo, mid) \cup At(f, s, mid, hi)  BY DEF At
<1>2. \A k \in At(f, s, lo, mid) : k \in Nat /\ k <= mid  BY DEF At
<1>3. \A k \in At(f, s, mid, hi) : k \in Nat /\ k > mid  BY DEF At
<1>4. CASE j = 0  BY <1>1, <1>3, <1>4 DEF LastIn
<1>5. CASE j # 0
  <2>1. j \in At(f, s, mid, hi) /\ \A k \in At(f, s, mid, hi) : k <= j
    BY <1>5 DEF LastIn
  <2>2. \A k \in At(f, s, lo, hi) : k <= j  BY <1>1, <1>2, <1>3, <2>1
  <2> QED  BY <1>5, <1>1, <2>1, <2>2 DEF LastIn
<1> QED  BY <1>4, <1>5

\* One more piece, a member with key s, another member, or no member.
LEMMA LastExtend ==
  ASSUME NEW f, NEW s, NEW lo \in Nat, NEW hi \in Nat, lo <= hi, NEW i, LastIn(f, i, s, lo, hi)
  PROVE  /\ f.pieces[hi + 1].kind \in MemberKinds /\ f.pieces[hi + 1].slug = s
              => LastIn(f, hi + 1, s, lo, hi + 1)
         /\ f.pieces[hi + 1].kind \notin MemberKinds \/ f.pieces[hi + 1].slug # s
              => LastIn(f, i, s, lo, hi + 1)
<1>1. /\ f.pieces[hi + 1].kind \in MemberKinds /\ f.pieces[hi + 1].slug = s
           => At(f, s, lo, hi + 1) = At(f, s, lo, hi) \cup {hi + 1}
      /\ f.pieces[hi + 1].kind \notin MemberKinds \/ f.pieces[hi + 1].slug # s
           => At(f, s, lo, hi + 1) = At(f, s, lo, hi)
  BY DEF At
<1>2. \A k \in At(f, s, lo, hi) : k \in Nat /\ k <= hi  BY DEF At
<1> QED  BY <1>1, <1>2 DEF LastIn

\* No pieces have no last member.
LEMMA LastEmpty == \A f, s : \A n \in Nat : LastIn(f, 0, s, n, n)
BY DEF LastIn, At

-----------------------------------------------------------------------------
(* The inductive invariant. *)

\* How the program counters go together.
ControlOK ==
  /\ hpc = "parse" => ppc = "none" /\ used = 0
  /\ ppc = "none" => hpc \in {"parse", "err"}
  /\ hpc \in {"parse", "select", "ok"} => rpc = "idle" /\ ~parseErr /\ stored = sent
  /\ hpc = "call" => rpc # "idle"
  /\ hpc = "call" /\ rpc = "stored" /\ ~parseErr => stored = sent
  /\ hpc = "ok" => ppc = "closed"

\* The table covers the pieces up to `stored', the batch under way those up to
\* `sent', the chunk those up to `used'.
OrderOK ==
  /\ ~parseErr => \A s \in Slugs : LastIn(file, table[s], s, 0, stored)
  /\ rpc = "inflight" /\ ~parseErr => \A s \in Slugs : LastIn(file, batch[s], s, stored, sent)
  /\ rpc = "inflight" => \A s \in Slugs : batch[s] # 0 => batch[s] \in At(file, s, stored, sent)
  /\ \A s \in Slugs : LastIn(file, chunk[s], s, sent, used)

\* A chunk is full exactly when it is being sent.
CountOK ==
  /\ IsFiniteSet(Filled(chunk)) /\ Cardinality(Filled(chunk)) <= ChunkSize
  /\ Cardinality(Filled(chunk)) = ChunkSize <=> ppc = "send"
  /\ rpc = "inflight" /\ ~parseErr => Cardinality(Filled(batch)) = ChunkSize

\* Where the cursors can be after a clean end, and what is stored.
CleanOK ==
  /\ wpc = "closed" /\ hpc # "err" => rd = Size /\ ~file.fails
  /\ ppc = "closed" /\ hpc # "err" =>
       \/ used = Size /\ ~file.fails
       \/ used < Size /\ Kind(used + 1) = "close"
  /\ \A i \in 1 .. used : Kind(i) \notin {"broken", "cut"}
  /\ rpc = "inflight" => \A s \in Slugs : batch[s] # 0 => Kind(batch[s]) = "port"
  /\ \A s \in Slugs : table[s] # 0 => Kind(table[s]) = "port" /\ s \in StorableSlugs

IInv == TypeOK /\ ControlOK /\ OrderOK /\ CountOK /\ CleanOK

\* The invariant holds when the upload starts.
LEMMA InitIInv == Init => IInv
<1> SUFFICES ASSUME Init  PROVE IInv
  OBVIOUS
<1>1. TypeOK  BY TypeInit
<1>2. ControlOK  BY DEF Init, ControlOK
<1>3. OrderOK  BY LastEmpty DEF Init, OrderOK, NoPorts
<1>4. Filled(chunk) = {}  BY DEF Init, Filled, NoPorts
<1>5. CountOK  BY <1>4, FS_EmptySet, ConstantsAssumption DEF Init, CountOK
<1>6. CleanOK  BY DEF Init, CleanOK, NoPorts
<1> QED  BY <1>1, <1>2, <1>3, <1>5, <1>6 DEF IInv

\* Every step keeps the program counters consistent.
LEMMA ControlStep == IInv /\ [Next]_vars => ControlOK'
<1> SUFFICES ASSUME IInv, [Next]_vars  PROVE ControlOK'
  OBVIOUS
<1> USE DEF IInv, TypeOK, ControlOK, fileVars, parserVars, handlerVars, storeVars
<1>1. CASE Writer
  BY <1>1 DEF Writer, WriterRead, WriterWritten, WriterEOF, WriterReadError
<1>2. CASE Decoder  BY <1>2 DEF Decoder, Refill, OpenToken, OpenTokenError
<1>3. CASE Parser  BY <1>3 DEF Parser, ParseMember, ParseError, ParseEnd
<1>4. CASE Handler \/ BulkLost
  BY <1>4 DEF Handler, ReceiveChunk, ReceiveClosed, ReceiveError, BulkReply, BulkLost
<1>5. CASE Service  BY <1>5 DEF Service, ServeBulk, RefuseBulk
<1> QED  BY <1>1, <1>2, <1>3, <1>4, <1>5 DEF Next, vars

\* Every step keeps table, batch and chunk covering their ranges of the file.
LEMMA OrderStep == IInv /\ [Next]_vars => OrderOK'
<1> SUFFICES ASSUME IInv, [Next]_vars  PROVE OrderOK'
  OBVIOUS
<1> USE DEF IInv
<1>0. /\ Size \in Nat /\ rd \in Nat /\ got \in Nat /\ used \in Nat /\ sent \in Nat
      /\ stored \in Nat /\ used <= got /\ got <= rd /\ rd <= Size /\ sent <= used
      /\ stored <= sent
  BY Pieces DEF TypeOK
<1>1. ASSUME UNCHANGED <<file, used, chunk, parseErr, batch, sent, storeVars>>  PROVE OrderOK'
  BY <1>1 DEF OrderOK, storeVars
<1>2. ASSUME UNCHANGED <<file, used, chunk, parseErr, batch, sent, table, stored>>,
             rpc' # "inflight"
      PROVE  OrderOK'
  BY <1>2 DEF OrderOK
<1>3. CASE OpenToken
  <2>1. used = 0 /\ used' = 1 /\ sent = 0 /\ 1 \in 1 .. Size
    BY <1>0, <1>3 DEF ControlOK, OpenToken, Available
  <2>2. Kind(1) \notin MemberKinds  BY <2>1, Pieces DEF TypeOK
  <2>3. \A s \in Slugs : LastIn(file, chunk[s], s, sent, used + 1)
    BY <1>0, <2>1, <2>2, LastExtend DEF OrderOK, Kind
  <2> QED  BY <1>3, <2>1, <2>3 DEF OrderOK, OpenToken, storeVars
<1>4. CASE ParseMember
  <2>1. /\ used' = used + 1 /\ Kind(used + 1) \in MemberKinds
        /\ chunk' = [chunk EXCEPT ![file.pieces[used + 1].slug] = used + 1]
        /\ chunk \in [Slugs -> 0 .. Size]
    BY <1>4 DEF ParseMember, TypeOK
  <2>2. ASSUME NEW s \in Slugs  PROVE LastIn(file, chunk'[s], s, sent, used + 1)
    <3>1. LastIn(file, chunk[s], s, sent, used)  BY DEF OrderOK
    <3>2. CASE file.pieces[used + 1].slug = s
      BY <1>0, <2>1, <3>1, <3>2, LastExtend DEF Kind
    <3>3. CASE file.pieces[used + 1].slug # s
      BY <1>0, <2>1, <3>1, <3>3, LastExtend
    <3> QED  BY <3>2, <3>3
  <2> QED  BY <1>4, <2>1, <2>2 DEF OrderOK, ParseMember, handlerVars, storeVars
<1>5. CASE ReceiveChunk
  <2>1. /\ stored = sent /\ ~parseErr /\ chunk' = NoPorts /\ sent' = used /\ used' = used
        /\ UNCHANGED <<file, table, stored>>
    BY <1>5 DEF ReceiveChunk, ControlOK
  <2>2. \A s \in Slugs : LastIn(file, chunk'[s], s, used, used)
    BY <1>0, <2>1, LastEmpty DEF NoPorts
  <2>3. ~parseErr' => batch' = chunk  BY <1>5 DEF ReceiveChunk
  <2>4. \A s \in Slugs : batch'[s] # 0 => batch'[s] = chunk[s]
    BY <1>5 DEF ReceiveChunk
  <2>5. \A s \in Slugs : batch'[s] # 0 => batch'[s] \in At(file, s, stored, used)
    BY <2>1, <2>4 DEF OrderOK, LastIn
  <2> QED  BY <2>1, <2>2, <2>3, <2>5 DEF OrderOK
<1>6. CASE ServeBulk
  <2>1. /\ rpc = "inflight" /\ rpc' = "stored"
        /\ table' = [s \in Slugs |-> IF batch[s] # 0 THEN batch[s] ELSE table[s]]
        /\ stored' = IF parseErr THEN stored ELSE sent
        /\ UNCHANGED <<file, used, chunk, parseErr, batch, sent>>
    BY <1>6 DEF ServeBulk, parserVars, handlerVars
  <2>2. ASSUME ~parseErr, NEW s \in Slugs  PROVE LastIn(file, table'[s], s, 0, sent)
    BY <1>0, <2>1, <2>2, LastCompose DEF OrderOK
  <2> QED  BY <2>1, <2>2 DEF OrderOK
<1>7. CASE ReceiveError
  <2>1. rpc = "idle" /\ parseErr' = TRUE
        /\ UNCHANGED <<file, used, chunk, batch, sent, storeVars>>
    BY <1>7 DEF ReceiveError, ControlOK
  <2> QED  BY <2>1 DEF OrderOK, storeVars
<1>8. CASE RefuseBulk \/ BulkReply
  BY <1>2, <1>8 DEF RefuseBulk, BulkReply, parserVars, handlerVars
<1>9. CASE Writer \/ Refill \/ OpenTokenError \/ ParseError \/ ParseEnd \/ ReceiveClosed \/ BulkLost
  <2>1. UNCHANGED <<file, used, chunk, parseErr, batch, sent, storeVars>>
    BY <1>9
    DEF Writer, WriterRead, WriterWritten, WriterEOF, WriterReadError, Refill,
        OpenTokenError, ParseError, ParseEnd, ReceiveClosed, BulkLost, handlerVars, parserVars
  <2> QED  BY <2>1, <1>1
<1>10. CASE UNCHANGED vars
  BY <1>10, <1>1 DEF vars, handlerVars, parserVars
<1> QED
  BY <1>3, <1>4, <1>5, <1>6, <1>7, <1>8, <1>9, <1>10
  DEF Next, Decoder, Parser, Handler, Service

\* Every step keeps the chunk at most full, and full only while it is sent.
LEMMA CountStep == IInv /\ [Next]_vars => CountOK'
<1> SUFFICES ASSUME IInv, [Next]_vars  PROVE CountOK'
  OBVIOUS
<1> USE DEF IInv
<1>1. ASSUME UNCHANGED <<chunk, parseErr, batch>>, rpc' = "inflight" => rpc = "inflight",
             ppc' = "send" <=> ppc = "send"
      PROVE  CountOK'
  BY <1>1 DEF CountOK, Filled
<1>2. CASE ParseMember
  <2> DEFINE s == file.pieces[used + 1].slug
  <2>1. /\ chunk' = [chunk EXCEPT ![s] = used + 1] /\ ppc = "loop"
        /\ ppc' = IF Cardinality(Filled(chunk')) = ChunkSize THEN "send" ELSE "loop"
        /\ UNCHANGED <<parseErr, batch, rpc>>
    BY <1>2 DEF ParseMember, handlerVars, storeVars
  <2>2. s \in Slugs /\ used + 1 # 0 /\ chunk \in [Slugs -> 0 .. Size]
    BY <1>2, Pieces DEF TypeOK, ParseMember, Available
  <2> HIDE DEF s
  <2>3. Filled(chunk') = Filled(chunk) \cup {s}  BY <2>1, <2>2 DEF Filled
  <2>4. IsFiniteSet(Filled(chunk)) /\ Cardinality(Filled(chunk)) <= ChunkSize
        /\ Cardinality(Filled(chunk)) # ChunkSize
    BY <2>1 DEF CountOK
  <2>5. /\ IsFiniteSet(Filled(chunk'))
        /\ Cardinality(Filled(chunk')) \in {Cardinality(Filled(chunk)), Cardinality(Filled(chunk)) + 1}
    BY <2>3, <2>4, FS_AddElement
  <2>6. Cardinality(Filled(chunk)) \in Nat  BY <2>4, FS_CardinalityType
  <2>7. Cardinality(Filled(chunk')) <= ChunkSize
    BY <2>4, <2>5, <2>6, ConstantsAssumption
  <2> QED  BY <2>1, <2>5, <2>7 DEF CountOK
<1>3. CASE ReceiveChunk
  <2>1. ppc = "send" /\ ppc' = "loop" /\ chunk' = NoPorts /\ (~parseErr' => batch' = chunk)
    BY <1>3 DEF ReceiveChunk
  <2>2. Filled(chunk') = {}  BY <2>1 DEF Filled, NoPorts
  <2>3. IsFiniteSet({}) /\ Cardinality({}) = 0  BY FS_EmptySet
  <2>4. Cardinality(Filled(chunk)) = ChunkSize  BY <2>1 DEF CountOK
  <2>5. ~parseErr' => Cardinality(Filled(batch')) = ChunkSize  BY <2>1, <2>4
  <2> QED  BY <2>1, <2>2, <2>3, <2>5, ConstantsAssumption DEF CountOK
<1>4. CASE Writer \/ Refill \/ OpenToken \/ OpenTokenError
  <2>1. UNCHANGED <<chunk, parseErr, batch, rpc>>
        /\ (ppc' = ppc \/ (ppc' = "loop" /\ ppc = "none"))
    BY <1>4
    DEF Writer, WriterRead, WriterWritten, WriterEOF, WriterReadError, Refill,
        OpenToken, OpenTokenError, parserVars, handlerVars, storeVars, ControlOK
  <2> QED  BY <2>1, <1>1
<1>5. CASE ParseError \/ ParseEnd \/ ReceiveClosed \/ BulkLost \/ BulkReply \/ Service
  <2>1. UNCHANGED <<chunk, parseErr, batch>>
        /\ (rpc' = "inflight" => rpc = "inflight")
        /\ (ppc' = ppc \/ (ppc' \in {"fail", "closed"} /\ ppc = "loop"))
    BY <1>5
    DEF ParseError, ParseEnd, ReceiveClosed, BulkLost, BulkReply, Service, ServeBulk,
        RefuseBulk, parserVars, handlerVars, storeVars
  <2> QED  BY <2>1, <1>1
<1>6. CASE ReceiveError
  <2>1. UNCHANGED <<chunk, batch, rpc>> /\ rpc = "idle"
        /\ (ppc' = ppc \/ (ppc' = "dead" /\ ppc = "fail"))
    BY <1>6 DEF ReceiveError, ControlOK, storeVars
  <2> QED  BY <2>1 DEF CountOK, Filled
<1>7. CASE UNCHANGED vars
  BY <1>7, <1>1 DEF vars, parserVars, handlerVars, storeVars
<1> QED
  BY <1>2, <1>3, <1>4, <1>5, <1>6, <1>7 DEF Next, Decoder, Parser, Handler

\* Every step keeps errors away from a 200.
LEMMA CleanStep == IInv /\ [Next]_vars => CleanOK'
<1> SUFFICES ASSUME IInv, [Next]_vars  PROVE CleanOK'
  OBVIOUS
<1> USE DEF IInv
<1>1. /\ Size \in Nat /\ rd \in Nat /\ got \in Nat /\ used \in Nat
      /\ used <= got /\ got <= rd /\ rd <= Size
  BY Pieces DEF TypeOK
<1>2. ASSUME UNCHANGED <<file, used, batch, table, rd>>, rpc' = "inflight" => rpc = "inflight",
             wpc' = "closed" /\ hpc' # "err" => wpc = "closed" /\ hpc # "err",
             ppc' = "closed" /\ hpc' # "err" => ppc = "closed" /\ hpc # "err"
      PROVE  CleanOK'
  BY <1>2 DEF CleanOK, Size, Kind
<1>3. CASE Writer
  BY <1>3, <1>1
  DEF CleanOK, Writer, WriterRead, WriterWritten, WriterEOF, WriterReadError, Size, Kind,
      parserVars, handlerVars, storeVars
<1>4. CASE OpenToken
  <2>1. used = 0 /\ used' = 1 /\ ppc' = "loop" /\ 1 \in 1 .. Size
        /\ hpc = "parse" /\ Kind(1) # "broken"
        /\ UNCHANGED <<file, wpc, rd, rpc, batch, table>>
    BY <1>1, <1>4 DEF OpenToken, Available, ControlOK, fileVars, storeVars
  <2>2. Kind(1) # "cut"  BY <2>1 DEF TypeOK, IsFile, Kind, Size
  <2>3. \A i \in 1 .. 1 : i = 1  OBVIOUS
  <2> QED  BY <2>1, <2>2, <2>3 DEF CleanOK, Size, Kind
<1>5. CASE ParseMember
  <2>1. /\ used' = used + 1 /\ Kind(used + 1) \in MemberKinds /\ ppc' # "closed"
        /\ UNCHANGED <<file, wpc, rd, hpc, rpc, batch, table>>
    BY <1>5 DEF ParseMember, fileVars, handlerVars, storeVars
  <2>2. \A i \in 1 .. used + 1 : Kind(i) \notin {"broken", "cut"}
    <3>1. \A i \in 1 .. used + 1 : i \in 1 .. used \/ i = used + 1  BY <1>1
    <3> QED  BY <2>1, <3>1 DEF CleanOK, MemberKinds
  <2> QED  BY <2>1, <2>2 DEF CleanOK, Size, Kind
<1>6. CASE ParseEnd
  <2>1. UNCHANGED <<file, wpc, rd, used, hpc, rpc, batch, table>>
    BY <1>6 DEF ParseEnd, fileVars, handlerVars, storeVars
  <2>2. hpc # "err" => \/ used = Size /\ ~file.fails
                       \/ used < Size /\ Kind(used + 1) = "close"
    BY <1>6, <1>1 DEF ParseEnd, AtEOF, Available, CleanOK
  <2> QED  BY <2>1, <2>2 DEF CleanOK, Size, Kind
<1>7. CASE ReceiveChunk
  <2>1. /\ hpc = "select" /\ ppc' = "loop"
        /\ UNCHANGED <<file, wpc, rd, used, table>>
    BY <1>7 DEF ReceiveChunk, fileVars
  <2>2. \A s \in Slugs : batch'[s] # 0 => Kind(chunk[s]) = "port" /\ batch'[s] = chunk[s]
    BY <1>7 DEF ReceiveChunk, Filled
  <2> QED  BY <2>1, <2>2 DEF CleanOK, Size, Kind
<1>8. CASE ServeBulk
  <2>1. /\ rpc = "inflight" /\ rpc' # "inflight" /\ Filled(batch) \subseteq StorableSlugs
        /\ table' = [s \in Slugs |-> IF batch[s] # 0 THEN batch[s] ELSE table[s]]
        /\ UNCHANGED <<file, wpc, rd, used, ppc, hpc>>
    BY <1>8 DEF ServeBulk, BulkValid, fileVars, parserVars, handlerVars
  <2>2. \A s \in Slugs : table'[s] # 0 => Kind(table'[s]) = "port" /\ s \in StorableSlugs
    BY <2>1 DEF CleanOK, Filled
  <2> QED  BY <2>1, <2>2 DEF CleanOK, Size, Kind
<1>9. CASE Refill \/ OpenTokenError \/ ParseError \/ ReceiveClosed \/ BulkReply \/ BulkLost
           \/ RefuseBulk
  <2>1. /\ UNCHANGED <<file, used, batch, table, rd, wpc>> /\ (rpc' = "inflight" => rpc = "inflight")
        /\ ppc' = ppc \/ ppc' = "fail"
        /\ hpc' # "err" => hpc # "err"
    BY <1>9
    DEF Refill, OpenTokenError, ParseError, ReceiveClosed, BulkReply, BulkLost, RefuseBulk,
        fileVars, parserVars, handlerVars, storeVars
  <2> QED  BY <2>1, <1>2
<1>10. CASE ReceiveError
  <2>1. UNCHANGED <<file, used, batch, table, rd, rpc>> /\ hpc' = "err"
    BY <1>10 DEF ReceiveError, storeVars
  <2> QED  BY <2>1, <1>2
<1>11. CASE UNCHANGED vars
  BY <1>11, <1>2 DEF vars, fileVars, parserVars, handlerVars, storeVars
<1> QED
  BY <1>3, <1>4, <1>5, <1>6, <1>7, <1>8, <1>9, <1>10, <1>11
  DEF Next, Decoder, Parser, Handler, Service

\* The strengthened invariant holds in every state of an upload.
THEOREM Invariance == Spec => []IInv
<1>1. IInv /\ [Next]_vars => IInv'
  BY TypeStep, ControlStep, OrderStep, CountStep, CleanStep DEF IInv
<1> QED  BY <1>1, InitIInv, PTL DEF Spec

-----------------------------------------------------------------------------
(* The safety properties. *)

\* Whole chunks, in file order and without a gap, whatever happens to the
\* goroutines and to the calls.
THEOREM StoredInFileOrder == Spec => []InFileOrder
<1>1. IInv => InFileOrder  BY IsLastIn DEF IInv, OrderOK, InFileOrder
<1> QED  BY <1>1, Invariance, PTL

\* A 200 leaves out at most a chunk that is not full, for every chunk size.
THEOREM OkLosesLessThanAChunk == Spec => []OkAllButTail
<1>1. IInv => OkAllButTail
  <2> SUFFICES ASSUME IInv, hpc = "ok"
               PROVE  Cardinality({s \in Slugs : ~IsLast(table[s], s, 0, used)}) < ChunkSize
    BY DEF OkAllButTail
  <2> DEFINE lost == {s \in Slugs : ~IsLast(table[s], s, 0, used)}
  <2>1. ~parseErr /\ stored = sent /\ ppc = "closed"  BY DEF IInv, ControlOK
  <2>2. stored \in Nat /\ used \in Nat /\ stored <= used
    BY Pieces DEF IInv, TypeOK
  <2>3. ASSUME NEW s \in Slugs, chunk[s] = 0  PROVE s \notin lost
    <3>1. LastIn(file, table[s], s, 0, stored) /\ LastIn(file, chunk[s], s, stored, used)
      BY <2>1 DEF IInv, OrderOK
    <3>2. LastIn(file, table[s], s, 0, used)
      BY <2>2, <2>3, <3>1, LastCompose
    <3> QED  BY <3>2, IsLastIn
  <2>4. lost \subseteq Filled(chunk)  BY <2>3 DEF Filled
  <2>5. IsFiniteSet(Filled(chunk)) /\ Cardinality(Filled(chunk)) <= ChunkSize
        /\ Cardinality(Filled(chunk)) # ChunkSize
    BY <2>1 DEF IInv, CountOK
  <2>6. Cardinality(lost) <= Cardinality(Filled(chunk)) /\ IsFiniteSet(lost)
    BY <2>4, <2>5, FS_Subset
  <2>7. Cardinality(lost) \in Nat /\ Cardinality(Filled(chunk)) \in Nat
    BY <2>5, <2>6, FS_CardinalityType
  <2> QED  BY <2>5, <2>6, <2>7, ConstantsAssumption
<1> QED  BY <1>1, Invariance, PTL

\* A 200 is never given after an error of the reader, the parser, a misfit or
\* the service.
THEOREM OkIsClean == Spec => []OkMeansClean
<1>1. IInv => OkMeansClean  BY DEF IInv, ControlOK, CleanOK, OkMeansClean
<1> QED  BY <1>1, Invariance, PTL

-----------------------------------------------------------------------------
(* Nobody waits in vain. *)

\* The writer fails only where the file does, or under a handler that has
\* answered; the parser gives up only when the handler has its error; the
\* decoder never consumes the closing brace, and takes it from the pipe before
\* the parser stops at it.
FlowOK ==
  /\ wpc = "fail" => (rd = Size /\ file.fails) \/ (Answered /\ file.disk)
  /\ ppc = "dead" => Answered
  /\ \A i \in 1 .. used : Kind(i) # "close"
  /\ ppc # "none" => used > 0
  /\ ppc = "closed" /\ hpc # "err" =>
       (used = Size /\ rd = Size) \/ (used < got /\ Kind(used + 1) = "close")

\* Every step keeps the parties where somebody can still serve them.
LEMMA FlowStep == IInv /\ FlowOK /\ [Next]_vars => FlowOK'
<1> SUFFICES ASSUME IInv, FlowOK, [Next]_vars  PROVE FlowOK'
  OBVIOUS
<1> USE DEF IInv
<1>1. /\ Size \in Nat /\ rd \in Nat /\ got \in Nat /\ used \in Nat
      /\ used <= got /\ got <= rd /\ rd <= Size
  BY Pieces DEF TypeOK
<1>2. CASE Writer
  BY <1>1, <1>2
  DEF FlowOK, Writer, WriterRead, WriterWritten, WriterEOF, WriterReadError, Size, Kind,
      Answered, parserVars, handlerVars, storeVars
<1>3. CASE Refill
  BY <1>1, <1>3 DEF FlowOK, Refill, Size, Kind, Answered, fileVars, handlerVars, storeVars
<1>4. CASE OpenToken
  <2>1. used = 0 /\ used' = 1 /\ ppc' = "loop" /\ wpc' = wpc /\ rd' = rd /\ file' = file
        /\ hpc = "parse" /\ 1 \in 1 .. Size
    BY <1>1, <1>4 DEF OpenToken, Available, ControlOK, fileVars
  <2>2. Kind(1) # "close"  BY <2>1 DEF TypeOK, IsFile, Kind, Size
  <2>3. \A i \in 1 .. 1 : i = 1  OBVIOUS
  <2> QED  BY <2>1, <2>2, <2>3 DEF FlowOK, Answered, Kind, Size
<1>5. CASE ParseMember
  <2>1. /\ used' = used + 1 /\ Kind(used + 1) \in MemberKinds /\ ppc' \in {"send", "loop"}
        /\ UNCHANGED <<file, wpc, rd, hpc>>
    BY <1>5 DEF ParseMember, fileVars, handlerVars
  <2>2. \A i \in 1 .. used + 1 : i \in 1 .. used \/ i = used + 1  BY <1>1
  <2>3. \A i \in 1 .. used + 1 : Kind(i) # "close"
    BY <2>1, <2>2 DEF FlowOK, MemberKinds
  <2> QED  BY <1>1, <2>1, <2>3 DEF FlowOK, Answered, Kind, Size
<1>6. CASE ParseError \/ ParseEnd
  <2>1. /\ ppc = "loop" /\ ppc' \in {"fail", "closed"}
        /\ UNCHANGED <<file, wpc, rd, got, used, hpc>>
    BY <1>6 DEF ParseError, ParseEnd, fileVars, handlerVars
  <2>2. wpc = "closed" /\ hpc # "err" => rd = Size  BY DEF CleanOK
  <2>3. ppc' = "closed" => AtEOF \/ (used < got /\ Kind(used + 1) = "close")
    BY <1>6 DEF ParseError, ParseEnd, Available
  <2> QED  BY <1>1, <2>1, <2>2, <2>3 DEF FlowOK, Answered, Kind, Size, AtEOF
<1>7. CASE ReceiveChunk
  BY <1>1, <1>7 DEF FlowOK, ReceiveChunk, Size, Kind, Answered, fileVars
<1>8. CASE ReceiveError
  BY <1>1, <1>8 DEF FlowOK, ReceiveError, Size, Kind, Answered, storeVars
<1>9. CASE OpenTokenError \/ ReceiveClosed \/ BulkReply \/ BulkLost
  BY <1>1, <1>9
  DEF FlowOK, OpenTokenError, ReceiveClosed, BulkReply, BulkLost, Size, Kind, Answered,
      fileVars, parserVars, storeVars
<1>10. CASE Service \/ UNCHANGED vars
  BY <1>10
  DEF FlowOK, Service, ServeBulk, RefuseBulk, vars, Size, Kind, Answered, fileVars,
      parserVars, handlerVars, storeVars
<1> QED
  BY <1>2, <1>3, <1>4, <1>5, <1>6, <1>7, <1>8, <1>9, <1>10
  DEF Next, Decoder, Parser, Handler

\* FlowOK holds in every state of an upload.
LEMMA Flow == Spec => []FlowOK
<1>1. Init => FlowOK
  <2> SUFFICES ASSUME Init  PROVE FlowOK
    OBVIOUS
  <2>1. used = 0 /\ ppc = "none" /\ wpc = "read"  BY DEF Init
  <2>2. \A i \in 1 .. 0 : FALSE  OBVIOUS
  <2> QED  BY <2>1, <2>2 DEF FlowOK
<1> QED  BY <1>1, FlowStep, Invariance, PTL DEF Spec

\* For every file, every buffer size and every chunk size: no cycle of the
\* writer, the decoder, the parser and the handler waiting for one another is
\* reached before the answer, except after a first Read that fails, and none of
\* the writer and the pipe after a clean 200.
THEOREM NobodyIsStuck == Spec => []NobodyWaitsInVain
<1>1. IInv /\ FlowOK => NobodyWaitsInVain
  <2> SUFFICES ASSUME IInv, FlowOK  PROVE NobodyWaitsInVain
    OBVIOUS
  <2> USE DEF IInv
  <2>1. /\ Size \in Nat /\ rd \in Nat /\ got \in Nat /\ used \in Nat
        /\ used <= got /\ got <= rd /\ rd <= Size
    BY Pieces DEF TypeOK
  <2>2. wpc \in {"read", "write", "fail", "closed"}  BY DEF TypeOK
  <2>3. ASSUME hpc = "parse"
        PROVE  \/ WriterReady \/ DecoderReady
               \/ wpc = "fail" /\ Size = 0 /\ file.fails
    <3>1. CASE used < got  BY <2>3, <3>1 DEF DecoderReady, Available
    <3>2. CASE used = got /\ got < rd  BY <2>3, <3>2 DEF DecoderReady, Decoding
    <3>3. CASE used = got /\ got = rd
      <4>1. wpc = "fail" => Size = 0 /\ file.fails
        BY <2>1, <2>3, <3>3 DEF FlowOK, ControlOK, Answered
      <4> QED  BY <2>2, <2>3, <3>3, <4>1 DEF WriterReady, DecoderReady, AtEOF
    <3> QED  BY <2>1, <3>1, <3>2, <3>3
  <2>4. ASSUME hpc = "select", ppc = "loop"
        PROVE  WriterReady \/ DecoderReady \/ ParserReady \/ HandlerReady
    <3>1. CASE used < got
      <4>1. used + 1 \in 1 .. Size /\ used > 0  BY <2>1, <2>4, <3>1 DEF FlowOK
      <4>2. Kind(used + 1) \notin {"open", "rest"}
        <5> DEFINE k == used + 1
        <5>1. k \in DOMAIN file.pieces /\ k # 1 /\ k - 1 = used
          BY <4>1, <2>1 DEF TypeOK, IsFile, Size
        <5>2. \A i \in 1 .. used : file.pieces[i].kind # "close"  BY DEF FlowOK, Kind
        <5> HIDE DEF k
        <5>3. ~ \E i \in 1 .. k - 1 : file.pieces[i].kind = "close"  BY <5>1, <5>2
        <5>4. /\ file.pieces[k].kind = "open" => k = 1
              /\ file.pieces[k].kind = "rest"
                   => \E i \in 1 .. k - 1 : file.pieces[i].kind = "close"
          <6>1. IsFile(file)  BY DEF TypeOK
          <6> QED  BY <5>1, <6>1, Zenon DEF IsFile
        <5> QED  BY <5>1, <5>3, <5>4 DEF Kind, k
      <4>3. Kind(used + 1) \in Kinds  BY <4>1, Pieces DEF TypeOK
      <4>4. Kind(used + 1) \in MemberKinds \cup {"broken", "close", "cut"}
        BY <4>2, <4>3 DEF Kinds
      <4>5. Kind(used + 1) = "cut" => used + 1 = Size
        BY <4>1, <2>1 DEF TypeOK, IsFile, Kind, Size
      <4>6. CASE Kind(used + 1) = "cut"
        <5>1. got = rd  BY <2>1, <3>1, <4>5, <4>6
        <5> QED
          BY <2>2, <2>4, <3>1, <4>6, <5>1
          DEF WriterReady, ParserReady, HandlerReady, Available
      <4> QED  BY <2>4, <3>1, <4>4, <4>6 DEF ParserReady, Available
    <3>2. CASE used = got /\ got < rd  BY <2>4, <3>2 DEF DecoderReady, Decoding
    <3>3. CASE used = got /\ got = rd
      BY <2>2, <2>4, <3>3 DEF WriterReady, ParserReady, HandlerReady, AtEOF
    <3> QED  BY <2>1, <3>1, <3>2, <3>3
  <2>5. hpc = "select" => ppc \in {"loop", "send", "closed", "fail"}
    BY DEF FlowOK, ControlOK, Answered, TypeOK
  <2>6. hpc = "call" => rpc \in {"inflight", "stored", "refused"}
    BY DEF ControlOK, TypeOK
  <2>7. hpc \in {"parse", "select", "call", "ok", "err"}  BY DEF TypeOK
  <2>8. ASSUME hpc = "ok", ~file.disk, \A i \in 1 .. Size : Kind(i) # "rest"
        PROVE  WriterReady \/ wpc = "closed"
    <3>1. ppc = "closed"  BY <2>8 DEF ControlOK
    <3>2. rd = Size /\ got = Size
      <4>1. CASE used = Size /\ rd = Size  BY <4>1, <2>1
      <4>2. CASE used < got /\ Kind(used + 1) = "close"
        <5>1. used + 1 \in 1 .. Size  BY <4>2, <2>1
        <5>2. ASSUME used + 1 < Size  PROVE FALSE
          <6>1. used + 2 \in DOMAIN file.pieces /\ used + 1 \in 1 .. used + 2 - 1
                /\ used + 2 \in 1 .. Size
            BY <5>2, <2>1 DEF TypeOK, IsFile, Size
          <6>2. Kind(used + 2) = "rest"  BY <4>2, <6>1 DEF TypeOK, IsFile, Kind
          <6> QED  BY <2>8, <6>1, <6>2
        <5> QED  BY <4>2, <5>1, <5>2, <2>1
      <4> QED  BY <2>8, <3>1, <4>1, <4>2 DEF FlowOK
    <3>3. ~file.fails  BY <2>8 DEF TypeOK, IsFile
    <3> QED  BY <2>2, <2>8, <3>2, <3>3 DEF FlowOK, WriterReady
  <2> QED
    BY <2>3, <2>4, <2>5, <2>6, <2>7, <2>8
    DEF NobodyWaitsInVain, Answered, HandlerReady, ServiceReady
<1> QED  BY <1>1, Invariance, Flow, PTL

-----------------------------------------------------------------------------
(* Every step counts. *)

\* How far each party is from its end.
WriterRank ==
  IF wpc = "write" THEN 3 ELSE IF wpc = "read" THEN 2 ELSE IF wpc = "fail" THEN 1 ELSE 0
ParserRank ==
  IF ppc = "send" THEN 9 ELSE IF ppc = "none" THEN 3 ELSE IF ppc = "loop" THEN 2
  ELSE IF ppc = "fail" THEN 1 ELSE 0
HandlerRank == IF hpc \in {"parse", "call"} THEN 3 ELSE IF hpc = "select" THEN 2 ELSE 0
CallRank == IF rpc = "inflight" THEN 2 ELSE IF rpc \in {"stored", "refused"} THEN 1 ELSE 0

\* An upper bound on the steps an upload has left: pieces to read, to take from
\* the pipe and to decode, and what the parties do without moving a cursor.
Weight(n, r, g, u, w, p, h, c) == 3 * (n - r) + (n - g) + 10 * (n - u) + w + p + h + c
Work == Weight(Size, rd, got, used, WriterRank, ParserRank, HandlerRank, CallRank)

\* What lowers the bound: a read, a piece taken from the pipe, a piece decoded,
\* a chunk handed over, or a party that comes closer to its end.
Lowers(r, g, u, w, p, h, c, r2, g2, u2, w2, p2, h2, c2) ==
  \/ /\ r < r2 /\ w = 2 /\ w2 = 3
     /\ g2 = g /\ u2 = u /\ p2 = p /\ h2 = h /\ c2 = c
  \/ /\ g < g2
     /\ r2 = r /\ u2 = u /\ w2 = w /\ p2 = p /\ h2 = h /\ c2 = c
  \/ /\ u2 = u + 1 /\ p2 <= p + 7 /\ h2 <= h
     /\ r2 = r /\ g2 = g /\ w2 = w /\ c2 = c
  \/ /\ p = 9 /\ p2 = 2 /\ h = 2 /\ h2 = 3 /\ c = 0 /\ c2 = 2
     /\ r2 = r /\ g2 = g /\ u2 = u /\ w2 = w
  \/ /\ r2 = r /\ g2 = g /\ u2 = u /\ w2 <= w /\ p2 <= p /\ h2 <= h /\ c2 <= c
     /\ w2 < w \/ p2 < p \/ h2 < h \/ c2 < c

\* It does, as long as the cursors keep their order.
LEMMA Lighter ==
  ASSUME NEW n \in Nat, NEW r \in Nat, NEW g \in Nat, NEW u \in Nat,
         NEW w \in Nat, NEW p \in Nat, NEW h \in Nat, NEW c \in Nat,
         NEW r2 \in Nat, NEW g2 \in Nat, NEW u2 \in Nat,
         NEW w2 \in Nat, NEW p2 \in Nat, NEW h2 \in Nat, NEW c2 \in Nat,
         u <= g, g <= r, r <= n, u2 <= g2, g2 <= r2, r2 <= n,
         Lowers(r, g, u, w, p, h, c, r2, g2, u2, w2, p2, h2, c2)
  PROVE  /\ Weight(n, r, g, u, w, p, h, c) \in Nat
         /\ Weight(n, r2, g2, u2, w2, p2, h2, c2) \in Nat
         /\ Weight(n, r2, g2, u2, w2, p2, h2, c2) < Weight(n, r, g, u, w, p, h, c)
BY DEF Weight, Lowers

\* The bound is a number and every step lowers it.
LEMMA WorkStep == IInv /\ Next => Work \in Nat /\ Work' \in Nat /\ Work' < Work
<1> SUFFICES ASSUME IInv, Next  PROVE Work \in Nat /\ Work' \in Nat /\ Work' < Work
  OBVIOUS
<1> DEFINE Types ==
      /\ Size \in Nat /\ rd \in Nat /\ got \in Nat /\ used \in Nat
      /\ used <= got /\ got <= rd /\ rd <= Size
      Ranks ==
      /\ WriterRank \in Nat /\ ParserRank \in Nat /\ HandlerRank \in Nat /\ CallRank \in Nat
<1>1. Types  BY Pieces DEF IInv, TypeOK
<1>2. Types'
  <2>1. TypeOK'  BY TypeStep DEF IInv
  <2>2. IsFile(file')  BY <2>1 DEF TypeOK
  <2>3. Size' \in Nat  BY <2>2 DEF IsFile, Size
  <2> QED  BY <2>1, <2>3 DEF TypeOK
<1>3. Ranks  BY DEF WriterRank, ParserRank, HandlerRank, CallRank
<1>4. Ranks'  BY DEF WriterRank, ParserRank, HandlerRank, CallRank
<1>5. Size' = Size
  BY DEF Next, Writer, WriterRead, WriterWritten, WriterEOF, WriterReadError, Decoder, Refill,
         OpenToken, OpenTokenError, Parser, ParseMember, ParseError, ParseEnd, Handler,
         ReceiveChunk, ReceiveClosed, ReceiveError, BulkReply, BulkLost, Service, ServeBulk,
         RefuseBulk, Size
<1>6. Lowers(rd, got, used, WriterRank, ParserRank, HandlerRank, CallRank,
             rd', got', used', WriterRank', ParserRank', HandlerRank', CallRank')
  <2> USE DEF Lowers, fileVars, parserVars, handlerVars, storeVars, WriterRank, ParserRank,
              HandlerRank, CallRank
  <2>1. CASE WriterRead
    <3>1. rd < rd'  BY <1>1, <2>1, ConstantsAssumption DEF WriterRead
    <3> QED  BY <2>1, <3>1 DEF WriterRead
  <2>2. CASE WriterWritten \/ WriterEOF \/ WriterReadError
    BY <1>1, <2>2 DEF WriterWritten, WriterEOF, WriterReadError
  <2>3. CASE Refill
    <3>1. got < got'  BY <1>1, <2>3 DEF Refill
    <3> QED  BY <2>3, <3>1 DEF Refill
  <2>4. CASE OpenToken  BY <2>4 DEF OpenToken
  <2>5. CASE ParseMember  BY <2>5 DEF ParseMember
  <2>6. CASE ParseError \/ ParseEnd \/ OpenTokenError
    BY <1>1, <2>6 DEF ParseError, ParseEnd, OpenTokenError
  <2>7. CASE ReceiveChunk
    <3>1. rpc = "idle"  BY <2>7 DEF ReceiveChunk, IInv, ControlOK
    <3> QED  BY <2>7, <3>1 DEF ReceiveChunk
  <2>8. CASE ReceiveClosed \/ ReceiveError \/ BulkReply \/ BulkLost
    BY <1>1, <2>8 DEF ReceiveClosed, ReceiveError, BulkReply, BulkLost
  <2>9. CASE Service  BY <1>1, <2>9 DEF Service, ServeBulk, RefuseBulk
  <2> QED
    BY <2>1, <2>2, <2>3, <2>4, <2>5, <2>6, <2>7, <2>8, <2>9
    DEF Next, Writer, Decoder, Parser, Handler
<1>7. Work' = Weight(Size, rd', got', used', WriterRank', ParserRank', HandlerRank', CallRank')
  BY <1>5 DEF Work
<1> QED  BY <1>1, <1>2, <1>3, <1>4, <1>5, <1>6, <1>7, Lighter DEF Work

\* An upload of any file takes finitely many steps, whatever the scheduler
\* does: Work is a natural number and every step lowers it.  With NobodyIsStuck
\* it can only come to rest answered, or in a first Read that fails.
THEOREM EveryStepCounts == Spec => [][Work' < Work /\ Work \in Nat /\ Work' \in Nat]_vars
BY WorkStep, Invariance, PTL DEF Spec

-----------------------------------------------------------------------------
(* Refinement. *)

\* Cardinality means the same in both modules.
LEMMA SameCardinality == \A S : Abstract!Cardinality(S) = Cardinality(S)
BY DEF Abstract!Cardinality, Cardinality

\* A map of last members gives the keys of a range of pieces, and the members
\* that UploadSpec chooses.
LEMMA LastOfRange ==
  ASSUME NEW lo \in Nat, NEW hi \in Nat, NEW m, \A s \in Slugs : LastIn(file, m[s], s, lo, hi)
  PROVE  /\ Abstract!Keys(lo, hi) = Filled(m)
         /\ \A s \in Filled(m) : Abstract!Last(lo, hi, s) = m[s]
<1>1. \A s : Abstract!Members(lo, hi, s) = At(file, s, lo, hi)
  BY DEF Abstract!Members, Abstract!Kind, At, MemberKinds
<1>2. ASSUME NEW s \in Slugs
      PROVE  m[s] = 0 <=> At(file, s, lo, hi) = {}
  <2>1. \A j \in At(file, s, lo, hi) : j # 0  BY DEF At
  <2> QED  BY <2>1 DEF LastIn
<1>3. Abstract!Keys(lo, hi) = Filled(m)  BY <1>1, <1>2 DEF Abstract!Keys, Filled
<1>4. ASSUME NEW s \in Filled(m)  PROVE Abstract!Last(lo, hi, s) = m[s]
  <2> DEFINE ms == At(file, s, lo, hi)
  <2>1. s \in Slugs /\ ms # {} /\ m[s] \in ms /\ \A j \in ms : j <= m[s]
    BY <1>2 DEF Filled, LastIn
  <2>2. \A j \in ms : j \in Nat  BY DEF At
  <2>3. Abstract!Last(lo, hi, s) = CHOOSE j \in ms : \A k \in ms : k <= j
    BY <1>1, <2>1 DEF Abstract!Last
  <2> HIDE DEF ms
  <2>4. \A j \in ms : (\A k \in ms : k <= j) => j = m[s]  BY <2>1, <2>2
  <2> QED  BY <2>1, <2>3, <2>4
<1> QED  BY <1>3, <1>4

\* A bulk call that is carried out stores the next chunk whole, or part of it
\* when the upload will report an error.
LEMMA ServeBulkMaps == IInv /\ IInv' /\ ServeBulk => Abstract!Next
<1> SUFFICES ASSUME IInv, IInv', ServeBulk  PROVE Abstract!Next
  OBVIOUS
<1> USE DEF IInv
<1>1. /\ rpc = "inflight" /\ rpc' = "stored" /\ Filled(batch) \subseteq StorableSlugs
      /\ table' = [s \in Slugs |-> IF batch[s] # 0 THEN batch[s] ELSE table[s]]
      /\ stored' = IF parseErr THEN stored ELSE sent
      /\ UNCHANGED <<file, hpc, parseErr>>
  BY DEF ServeBulk, BulkValid, handlerVars
<1>2. Size \in Nat /\ stored \in Nat /\ sent \in Nat /\ stored <= sent /\ sent <= Size
  BY Pieces DEF TypeOK
<1>3. Abstract!Size = Size /\ \A i : Abstract!Kind(i) = Kind(i)
  BY DEF Abstract!Size, Size, Abstract!Kind, Kind
<1>4. CASE ~parseErr
  <2>1. \A s \in Slugs : LastIn(file, batch[s], s, stored, sent)  BY <1>1, <1>4 DEF OrderOK
  <2>2. /\ Abstract!Keys(stored, sent) = Filled(batch)
        /\ \A s \in Filled(batch) : Abstract!Last(stored, sent, s) = batch[s]
    BY <1>2, <2>1, LastOfRange
  <2>3. Cardinality(Filled(batch)) = ChunkSize  BY <1>1, <1>4 DEF CountOK
  <2>4. sent # stored
    <3>1. Filled(batch) # {}  BY DEF ServeBulk, BulkValid
    <3>2. PICK s \in Slugs : batch[s] # 0  BY <3>1 DEF Filled
    <3> QED  BY <1>2, <2>1, <3>2 DEF LastIn, At
  <2>5. sent \in stored + 1 .. Abstract!Size  BY <1>2, <1>3, <2>4
  <2>6. \A s \in Filled(batch) : Abstract!Kind(Abstract!Last(stored, sent, s)) = "port"
    BY <1>1, <1>3, <2>2 DEF CleanOK, Filled
  <2>7. table' = [s \in Slugs |-> IF s \in Abstract!Keys(stored, sent)
                                  THEN Abstract!Last(stored, sent, s) ELSE table[s]]
    BY <1>1, <2>2 DEF Filled
  <2>8. Abstract!StoreChunk
    BY <1>1, <1>4, <2>2, <2>3, <2>5, <2>6, <2>7, SameCardinality
    DEF Abstract!StoreChunk, Answered
  <2> QED  BY <2>8 DEF Abstract!Next
<1>5. CASE parseErr
  <2>1. table' \in [Slugs -> 0 .. Size]  BY <1>1 DEF TypeOK, Size
  <2>2. ASSUME NEW s \in Slugs, batch[s] # 0
        PROVE  /\ s \in StorableSlugs /\ table'[s] = batch[s]
               /\ batch[s] \in Abstract!Members(stored, Abstract!Size, s)
               /\ Abstract!Kind(batch[s]) = "port"
    <3>1. batch[s] \in At(file, s, stored, sent)  BY <1>1, <2>2 DEF OrderOK
    <3>2. batch[s] \in Abstract!Members(stored, Abstract!Size, s)
      BY <1>2, <1>3, <3>1 DEF At, Abstract!Members, Abstract!Kind, MemberKinds
    <3> QED  BY <1>1, <1>3, <2>2, <3>2 DEF CleanOK, Filled
  <2>3. \A s \in Slugs : batch[s] = 0 => table'[s] = table[s]  BY <1>1
  <2>4. Abstract!StorePart
    BY <1>1, <1>3, <1>5, <2>1, <2>2, <2>3 DEF Abstract!StorePart, Answered
  <2> QED  BY <2>4 DEF Abstract!Next
<1> QED  BY <1>4, <1>5 DEF TypeOK

\* A 200 leaves less than a chunk of keys before the end.
LEMMA ReceiveClosedMaps == IInv /\ ReceiveClosed => Abstract!Next
<1> SUFFICES ASSUME IInv, ReceiveClosed  PROVE Abstract!Next
  OBVIOUS
<1> USE DEF IInv
<1>1. /\ hpc = "select" /\ ppc = "closed" /\ hpc' = "ok" /\ rpc = "idle" /\ ~parseErr
      /\ stored = sent /\ UNCHANGED <<file, rpc, parseErr, table, stored>>
  BY DEF ReceiveClosed, ControlOK, storeVars
<1>2. Size \in Nat /\ stored \in Nat /\ used \in Nat /\ stored <= used /\ used <= Size
  BY Pieces DEF TypeOK
<1>3. Abstract!Size = Size /\ \A i : Abstract!Kind(i) = Kind(i)
  BY DEF Abstract!Size, Size, Abstract!Kind, Kind
<1>4. \A s \in Slugs : LastIn(file, chunk[s], s, stored, used)  BY <1>1 DEF OrderOK
<1>5. Abstract!Keys(stored, used) = Filled(chunk)  BY <1>2, <1>4, LastOfRange
<1>6. Cardinality(Filled(chunk)) < ChunkSize
  BY <1>1, FS_CardinalityType, ConstantsAssumption DEF CountOK
<1>7. /\ used = Abstract!Size \/ Abstract!Kind(used + 1) = "close"
      /\ \A i \in 1 .. used : Abstract!Kind(i) \notin {"broken", "cut"}
      /\ used \in stored .. Abstract!Size
  BY <1>1, <1>2, <1>3 DEF CleanOK
<1>8. Abstract!AnswerOk
  BY <1>1, <1>5, <1>6, <1>7, SameCardinality DEF Abstract!AnswerOk, Answered
<1> QED  BY <1>8 DEF Abstract!Next

\* The pipeline of goroutines, channels and calls implements UploadSpec.
THEOREM UploadImplementsSpec == Spec => ImplementsUploadSpec
<1>1. Init => Abstract!Init
  BY DEF Init, Abstract!Init, NoPorts, Answered
<1>2. IInv /\ IInv' /\ [Next]_vars => [Abstract!Next]_(Abstract!vars)
  <2> SUFFICES ASSUME IInv, IInv', [Next]_vars  PROVE [Abstract!Next]_(Abstract!vars)
    OBVIOUS
  <2> USE DEF IInv, Answered
  <2>1. CASE ReceiveChunk
    <3>1. /\ hpc = "select" /\ rpc = "idle" /\ ~parseErr /\ hpc' = "call" /\ rpc' = "inflight"
          /\ parseErr' \in BOOLEAN /\ UNCHANGED <<file, table, stored>>
      BY <2>1 DEF ReceiveChunk, ControlOK, TypeOK
    <3>2. Abstract!Open  BY <3>1 DEF Abstract!Open
    <3> QED  BY <3>2 DEF Abstract!Next
  <2>2. CASE OpenTokenError \/ ReceiveError \/ BulkLost
    <3>1. /\ hpc \in {"parse", "select", "call"} /\ hpc' = "err"
          /\ UNCHANGED <<file, rpc, table, stored>>
      BY <2>2 DEF OpenTokenError, ReceiveError, BulkLost, storeVars
    <3>2. Abstract!AnswerErr  BY <3>1 DEF Abstract!AnswerErr
    <3> QED  BY <3>2 DEF Abstract!Next
  <2>3. CASE BulkReply
    <3>1. /\ hpc = "call" /\ rpc \in {"stored", "refused"} /\ rpc' = "idle"
          /\ hpc' = IF rpc = "refused" \/ parseErr THEN "err" ELSE "select"
          /\ UNCHANGED <<file, parseErr, table, stored>>
      BY <2>3 DEF BulkReply
    <3>2. CASE rpc = "refused" \/ parseErr
      <4>1. Abstract!AnswerErr  BY <3>1, <3>2 DEF Abstract!AnswerErr
      <4> QED  BY <4>1 DEF Abstract!Next
    <3>3. CASE rpc = "stored" /\ ~parseErr
      <4>1. UNCHANGED Abstract!vars  BY <3>1, <3>3 DEF Abstract!vars
      <4> QED  BY <4>1
    <3> QED  BY <3>1, <3>2, <3>3
  <2>4. CASE RefuseBulk
    <3>1. rpc = "inflight" /\ rpc' = "refused" /\ UNCHANGED <<file, table, stored, hpc>>
      BY <2>4 DEF RefuseBulk, handlerVars
    <3>2. Abstract!Drop  BY <3>1 DEF Abstract!Drop
    <3> QED  BY <3>2 DEF Abstract!Next
  <2>5. CASE Writer \/ Refill \/ OpenToken \/ Parser \/ UNCHANGED vars
    <3>1. /\ UNCHANGED <<file, table, stored, rpc, parseErr>>
          /\ hpc' = hpc \/ (hpc = "parse" /\ hpc' = "select")
      BY <2>5
      DEF Writer, WriterRead, WriterWritten, WriterEOF, WriterReadError, Refill, OpenToken,
          Parser, ParseMember, ParseError, ParseEnd, vars, handlerVars, storeVars
    <3>2. UNCHANGED Abstract!vars  BY <3>1 DEF Abstract!vars
    <3> QED  BY <3>2
  <2> QED
    BY <2>1, <2>2, <2>3, <2>4, <2>5, ServeBulkMaps, ReceiveClosedMaps
    DEF Next, Decoder, Handler, Service
<1> QED  BY <1>1, <1>2, Invariance, PTL DEF Spec, ImplementsUploadSpec, Abstract!Spec
=============================================================================
