-------------------------- MODULE BulkLocks_proofs --------------------------
(***************************************************************************)
(* Bulk upserts are atomic for any number of statements, chunks and slugs: *)
(* the row locks keep what a statement has decided true until it commits.  *)
(***************************************************************************)
EXTENDS BulkLocks, FiniteSetTheorems, TLAPS

Left(b) == {left[b][i] : i \in DOMAIN left[b]}

-----------------------------------------------------------------------------
(* The inductive invariant, in six parts.                                  *)

Types ==
  /\ rows \subseteq Row /\ nextId \in 1 .. MaxId + 1 /\ given \subseteq 1 .. nextId - 1
  /\ chunk \in [Bulks -> Chunks \cup {NoChunk}]
  /\ left \in [Bulks -> Seq(Slugs)]
  /\ drawn \in [Bulks -> Nat]
  /\ written \in [Bulks -> SUBSET Row]

\* What is written and what is left are the chunk, each port in one of them.
Progress(b) ==
  /\ ~Running(b) => left[b] = <<>> /\ written[b] = {}
  /\ Running(b) =>
       /\ SlugsOf(written[b]) \cap Left(b) = {}
       /\ SlugsOf(written[b]) \cup Left(b) = DOMAIN chunk[b]
       /\ \A w \in written[b] : w.data = chunk[b][w.slug]
  /\ \A i, j \in DOMAIN left[b] : left[b][i] = left[b][j] => i = j
  /\ drawn[b] # NoId => left[b] # <<>>

\* Id and slug are keys, and the history knows every id of the table.
Keys ==
  /\ \A q, r \in rows : q.id = r.id \/ q.slug = r.slug => q = r
  /\ \A r \in rows : r.id \in given

\* Nothing is written twice: not by two statements, because of the locks, and not by
\* one, because a chunk has a slug once.
Exclusive ==
  \A b, d \in Bulks : \A v \in written[b], w \in written[d] :
    v.slug = w.slug \/ v.id = w.id => b = d /\ v = w

Drawn == \A b \in Bulks : drawn[b] < nextId /\ \A w \in written[b] : w.id < nextId

\* The id drawn for a port is still nobody's when it is written: no row has had it, no
\* statement has written it or drawn it for another port.
Unused ==
  \A b \in Bulks : drawn[b] # NoId =>
    /\ drawn[b] \notin given
    /\ \A d \in Bulks : (d # b => drawn[d] # drawn[b])
                        /\ \A w \in written[d] : w.id # drawn[b]

Inv == Types /\ (\A b \in Bulks : Progress(b)) /\ Keys /\ Exclusive /\ Drawn /\ Unused /\ DecisionsHold

-----------------------------------------------------------------------------
(* Sequences of distinct slugs. *)

\* An order in which range may meet the slugs of a chunk.
LEMMA OrderFacts ==
  ASSUME NEW c \in Chunks, NEW o \in Orders(DOMAIN c)
  PROVE  /\ o \in Seq(Slugs)
         /\ {o[i] : i \in DOMAIN o} = DOMAIN c
         /\ \A i, j \in DOMAIN o : o[i] = o[j] => i = j
<1>1. DOMAIN c \subseteq Slugs /\ Cardinality(DOMAIN c) \in Nat
  BY BulkAssumption, FS_CardinalityType
<1>2. o \in [1 .. Cardinality(DOMAIN c) -> DOMAIN c]
  BY DEF Orders
<1>3. o \in Seq(Slugs)
  BY <1>1, <1>2
<1>4. \A s \in DOMAIN c : \E i \in DOMAIN o : o[i] = s
  BY DEF Orders
<1>5. {o[i] : i \in DOMAIN o} = DOMAIN c
  BY <1>2, <1>4
<1>6. \A i, j \in DOMAIN o : o[i] = o[j] => i = j
  BY DEF Orders
<1> QED
  BY <1>3, <1>5, <1>6

\* A statement with a chunk has something to write.
LEMMA ChunkIsSome == ASSUME NEW c \in Chunks PROVE c # NoChunk
BY BulkAssumption DEF NoChunk

\* What Write leaves of its order.
LEMMA TailFacts ==
  ASSUME NEW q \in Seq(Slugs), q # <<>>, \A i, j \in DOMAIN q : q[i] = q[j] => i = j
  PROVE  /\ Tail(q) \in Seq(Slugs) /\ Head(q) \in Slugs
         /\ \A i, j \in DOMAIN Tail(q) : Tail(q)[i] = Tail(q)[j] => i = j
         /\ {q[i] : i \in DOMAIN q} = {Tail(q)[i] : i \in DOMAIN Tail(q)} \cup {Head(q)}
         /\ Head(q) \notin {Tail(q)[i] : i \in DOMAIN Tail(q)}
<1>1. Tail(q) \in Seq(Slugs) /\ Head(q) \in Slugs /\ Head(q) = q[1] /\ Len(q) \in Nat \ {0}
  OBVIOUS
<1>2. DOMAIN q = 1 .. Len(q) /\ DOMAIN Tail(q) = 1 .. Len(q) - 1
  OBVIOUS
<1>3. \A i \in DOMAIN Tail(q) : Tail(q)[i] = q[i + 1] /\ i + 1 \in DOMAIN q
  BY <1>1, <1>2
<1>4. \A i \in DOMAIN q : i = 1 \/ (i - 1 \in DOMAIN Tail(q) /\ Tail(q)[i - 1] = q[i])
  BY <1>1, <1>2, <1>3
<1>5. \A i, j \in DOMAIN Tail(q) : Tail(q)[i] = Tail(q)[j] => i = j
  BY <1>2, <1>3
<1>6. Head(q) \notin {Tail(q)[i] : i \in DOMAIN Tail(q)}
  BY <1>1, <1>2, <1>3
<1>7. {q[i] : i \in DOMAIN q} \subseteq {Tail(q)[i] : i \in DOMAIN Tail(q)} \cup {Head(q)}
  <2> SUFFICES ASSUME NEW i \in DOMAIN q, i # 1
               PROVE  q[i] \in {Tail(q)[j] : j \in DOMAIN Tail(q)}
    BY <1>1
  <2> QED
    BY <1>4
<1>8. {Tail(q)[i] : i \in DOMAIN Tail(q)} \cup {Head(q)} \subseteq {q[i] : i \in DOMAIN q}
  BY <1>1, <1>2, <1>3
<1> QED
  BY <1>1, <1>5, <1>6, <1>7, <1>8

-----------------------------------------------------------------------------
LEMMA InitInv == Init => Inv
<1> SUFFICES ASSUME Init PROVE Inv
  OBVIOUS
<1>1. Types
  BY BulkAssumption DEF Init, Types, NoId
<1>2. \A b \in Bulks : Progress(b)
  BY DEF Init, Progress, Running
<1>3. Keys /\ Exclusive /\ Drawn /\ Unused /\ DecisionsHold
  BY DEF Init, Keys, Exclusive, Drawn, Unused, DecisionsHold, NoId
<1> QED
  BY <1>1, <1>2, <1>3 DEF Inv

\* What happens to other statements is nothing to b.
LEMMA ProgressSame ==
  ASSUME NEW b \in Bulks, Progress(b),
         chunk'[b] = chunk[b], left'[b] = left[b], drawn'[b] = drawn[b], written'[b] = written[b]
  PROVE  Progress(b)'
<1>1. Running(b)' = Running(b) /\ Left(b)' = Left(b) /\ SlugsOf(written[b])' = SlugsOf(written[b])
  BY DEF Running, Left, SlugsOf
<1>2. (~Running(b) => left[b] = <<>> /\ written[b] = {})'
  BY <1>1 DEF Progress
<1>3. (/\ \A i, j \in DOMAIN left[b] : left[b][i] = left[b][j] => i = j
       /\ drawn[b] # NoId => left[b] # <<>>)'
  BY DEF Progress
<1>4. ASSUME Running(b)'
      PROVE  (/\ SlugsOf(written[b]) \cap Left(b) = {}
              /\ SlugsOf(written[b]) \cup Left(b) = DOMAIN chunk[b]
              /\ \A w \in written[b] : w.data = chunk[b][w.slug])'
  BY <1>1, <1>4 DEF Progress
<1> QED
  BY <1>2, <1>3, <1>4 DEF Progress

\* A new statement has written nothing, and all of its chunk is left.
LEMMA StartKeeps ==
  ASSUME Inv, NEW b \in Bulks, NEW c \in Chunks, CreateOrUpdatePortBulk(b, c)
  PROVE  Inv'
<1>1. PICK o \in Orders(DOMAIN c) : left' = [left EXCEPT ![b] = o]
  BY DEF CreateOrUpdatePortBulk
<1>2. /\ o \in Seq(Slugs) /\ {o[i] : i \in DOMAIN o} = DOMAIN c
      /\ \A i, j \in DOMAIN o : o[i] = o[j] => i = j
  BY OrderFacts
<1>3. /\ UNCHANGED <<rows, nextId, given, drawn, written>> /\ chunk' = [chunk EXCEPT ![b] = c]
      /\ written[b] = {} /\ drawn[b] = NoId /\ c # NoChunk
  BY ChunkIsSome DEF CreateOrUpdatePortBulk, Inv, Progress
<1>4. Types'
  BY <1>1, <1>2, <1>3 DEF Inv, Types
<1>5. ASSUME NEW d \in Bulks PROVE Progress(d)'
  <2>1. CASE d = b
    BY <1>1, <1>2, <1>3, <2>1 DEF Inv, Types, Progress, Running, Left, SlugsOf
  <2>2. CASE d # b
    <3>1. chunk'[d] = chunk[d] /\ left'[d] = left[d]
          /\ drawn'[d] = drawn[d] /\ written'[d] = written[d]
      BY <1>1, <1>3, <2>2 DEF Inv, Types
    <3> QED
      BY <3>1, ProgressSame DEF Inv
  <2> QED
    BY <2>1, <2>2
<1>6. Keys' /\ Exclusive' /\ Drawn' /\ Unused' /\ DecisionsHold'
  BY <1>3 DEF Inv, Keys, Exclusive, Drawn, Unused, DecisionsHold, SlugsOf
<1> QED
  BY <1>4, <1>5, <1>6 DEF Inv

\* The id drawn is beyond all that were drawn before.
LEMMA DrawKeeps ==
  ASSUME Inv, NEW b \in Bulks, Draw(b)
  PROVE  Inv'
<1>1. /\ left[b] # <<>> /\ nextId <= MaxId /\ drawn' = [drawn EXCEPT ![b] = nextId]
      /\ nextId' = nextId + 1 /\ UNCHANGED <<rows, given, chunk, left, written>>
  BY DEF Draw
<1>2. nextId \in Nat \ {0} /\ MaxId \in Nat /\ given \subseteq 1 .. nextId - 1
  BY BulkAssumption DEF Inv, Types
<1>3. Types' /\ Keys' /\ Exclusive'
  BY <1>1, <1>2 DEF Inv, Types, Keys, Exclusive
<1>4. ASSUME NEW d \in Bulks PROVE Progress(d)'
  <2>1. CASE d = b
    BY <1>1, <2>1 DEF Inv, Progress, Running, Left, SlugsOf
  <2>2. CASE d # b
    <3>1. chunk'[d] = chunk[d] /\ left'[d] = left[d]
          /\ drawn'[d] = drawn[d] /\ written'[d] = written[d]
      BY <1>1, <2>2 DEF Inv, Types
    <3> QED
      BY <3>1, ProgressSame DEF Inv
  <2> QED
    BY <2>1, <2>2
<1>5. ASSUME NEW d \in Bulks
      PROVE  /\ d # b => drawn'[d] = drawn[d] /\ drawn[d] \in Nat /\ drawn[d] < nextId
             /\ d = b => drawn'[d] = nextId
             /\ \A w \in written[d] : w.id \in Nat /\ w.id < nextId
  BY <1>1 DEF Inv, Types, Drawn, Row
<1>6. Drawn'
  BY <1>1, <1>2, <1>5 DEF Drawn
<1>7. Unused'
  <2> SUFFICES ASSUME NEW c \in Bulks, drawn'[c] # NoId
               PROVE  /\ drawn'[c] \notin given
                      /\ \A d \in Bulks : (d # c => drawn'[d] # drawn'[c])
                                          /\ \A w \in written[d] : w.id # drawn'[c]
    BY <1>1 DEF Unused
  <2>1. CASE c = b
    BY <1>2, <1>5, <2>1
  <2>2. CASE c # b
    <3>1. /\ drawn[c] # NoId /\ drawn[c] \notin given
          /\ \A d \in Bulks : (d # c => drawn[d] # drawn[c])
                              /\ \A w \in written[d] : w.id # drawn[c]
      BY <1>5, <2>2 DEF Inv, Unused
    <3> QED
      BY <1>2, <1>5, <2>2, <3>1
  <2> QED
    BY <2>1, <2>2
<1>8. DecisionsHold'
  BY <1>1, <1>2, <1>5 DEF Inv, DecisionsHold, SlugsOf
<1> QED
  BY <1>3, <1>4, <1>6, <1>7, <1>8 DEF Inv

\* The row Write adds: its id is the one of its slug, or none that was ever given,
\* and no other row that is written has its slug or its id, nor will one have it.
LEMMA WriteFacts ==
  ASSUME Inv, NEW b \in Bulks, Write(b)
  PROVE  \E w \in Row :
           /\ w.slug = Head(left[b]) /\ w.data = chunk[b][w.slug]
           /\ written' = [written EXCEPT ![b] = @ \cup {w}]
           /\ w.id < nextId
           /\ IF w.slug \in SlugsOf(rows) THEN \E r \in rows : r.slug = w.slug /\ r.id = w.id
              ELSE w.id \notin given
           /\ \A d \in Bulks : /\ \A v \in written[d] : v.slug # w.slug /\ v.id # w.id
                               /\ d # b /\ drawn[d] # NoId => drawn[d] # w.id
<1> DEFINE s == Head(left[b])
           w == [id |-> IdOf(b, s), slug |-> s, data |-> chunk[b][s]]
<1>1. left[b] \in Seq(Slugs) /\ left[b] # <<>>
  BY DEF Write, Inv, Types
<1>2. s \in Slugs /\ s \in Left(b)
  BY <1>1 DEF Left
<1>3. Running(b) /\ chunk[b] \in Chunks
  BY <1>1 DEF Inv, Types, Progress, Running
<1>4. s \in DOMAIN chunk[b] /\ s \notin SlugsOf(written[b])
  BY <1>2, <1>3 DEF Inv, Progress
<1>5. chunk[b][s] \in Datas
  BY <1>3, <1>4, BulkAssumption
<1>6. IF s \in SlugsOf(rows) THEN \E r \in rows : r.slug = s /\ r.id = IdOf(b, s)
      ELSE IdOf(b, s) = drawn[b]
  BY DEF IdOf, SlugsOf
<1>7. /\ drawn[b] \in Nat \ {0} /\ drawn[b] < nextId /\ drawn[b] \notin given
      /\ \A d \in Bulks : (d # b => drawn[d] # drawn[b]) /\ \A v \in written[d] : v.id # drawn[b]
  BY DEF Write, Inv, Types, Drawn, Unused, NoId
<1>8. IdOf(b, s) \in Nat \ {0} /\ IdOf(b, s) < nextId
  BY <1>6, <1>7, BulkAssumption DEF Inv, Types, Keys, Row
<1>9. w \in Row
  BY <1>2, <1>5, <1>8 DEF Row
<1>10. ASSUME NEW d \in Bulks, NEW v \in written[d] PROVE v.slug # s /\ v.id # IdOf(b, s)
  <2>1. v.slug # s
    BY <1>4 DEF Write, Locked, SlugsOf
  <2>2. CASE s \notin SlugsOf(rows)
    BY <1>6, <1>7, <2>1, <2>2
  <2>3. CASE s \in SlugsOf(rows)
    <3>1. PICK r \in rows : r.slug = s /\ r.id = IdOf(b, s)
      BY <1>6, <2>3
    <3>2. r.id \in given
      BY DEF Inv, Keys
    <3>3. IF v.slug \in SlugsOf(rows) THEN \E q \in rows : q.slug = v.slug /\ q.id = v.id
          ELSE v.id \notin given
      BY DEF Inv, DecisionsHold
    <3> QED
      BY <2>1, <3>1, <3>2, <3>3 DEF Inv, Keys
  <2> QED
    BY <2>1, <2>2, <2>3
<1>11. written' = [written EXCEPT ![b] = @ \cup {w}]
  BY DEF Write
<1>12. ASSUME NEW d \in Bulks, d # b, drawn[d] # NoId PROVE drawn[d] # IdOf(b, s)
  <2>1. drawn[d] \notin given
    BY <1>12 DEF Inv, Unused
  <2> QED
    BY <1>6, <1>7, <1>12, <2>1 DEF Inv, Keys
<1>13. IF s \in SlugsOf(rows) THEN \E r \in rows : r.slug = s /\ r.id = IdOf(b, s)
       ELSE IdOf(b, s) \notin given
  BY <1>6, <1>7
<1>14. w.slug = s /\ w.id = IdOf(b, s) /\ w.data = chunk[b][w.slug] /\ s = Head(left[b])
  OBVIOUS
<1> HIDE DEF s, w
<1> QED
  BY <1>8, <1>9, <1>10, <1>11, <1>12, <1>13, <1>14

LEMMA WriteKeeps ==
  ASSUME Inv, NEW b \in Bulks, Write(b)
  PROVE  Inv'
<1>1. PICK w \in Row :
           /\ w.slug = Head(left[b]) /\ w.data = chunk[b][w.slug]
           /\ written' = [written EXCEPT ![b] = @ \cup {w}]
           /\ w.id < nextId
           /\ IF w.slug \in SlugsOf(rows) THEN \E r \in rows : r.slug = w.slug /\ r.id = w.id
              ELSE w.id \notin given
           /\ \A d \in Bulks : /\ \A v \in written[d] : v.slug # w.slug /\ v.id # w.id
                               /\ d # b /\ drawn[d] # NoId => drawn[d] # w.id
  BY WriteFacts
<1>2. /\ left[b] \in Seq(Slugs) /\ left[b] # <<>> /\ drawn' = [drawn EXCEPT ![b] = NoId]
      /\ left' = [left EXCEPT ![b] = Tail(left[b])] /\ UNCHANGED <<rows, nextId, given, chunk>>
      /\ nextId \in Nat \ {0}
  BY BulkAssumption DEF Write, Inv, Types
<1>3. /\ Tail(left[b]) \in Seq(Slugs)
      /\ \A i, j \in DOMAIN Tail(left[b]) : Tail(left[b])[i] = Tail(left[b])[j] => i = j
      /\ Left(b) = {Tail(left[b])[i] : i \in DOMAIN Tail(left[b])} \cup {w.slug}
      /\ w.slug \notin {Tail(left[b])[i] : i \in DOMAIN Tail(left[b])}
  BY <1>1, <1>2, TailFacts DEF Inv, Progress, Left
<1>4. Types'
  <2>1. drawn' \in [Bulks -> Nat]
    BY <1>2 DEF Inv, Types, NoId
  <2>2. left' \in [Bulks -> Seq(Slugs)] /\ written' \in [Bulks -> SUBSET Row]
    BY <1>1, <1>2, <1>3 DEF Inv, Types
  <2> QED
    BY <1>2, <2>1, <2>2 DEF Inv, Types
<1>5. ASSUME NEW d \in Bulks PROVE Progress(d)'
  <2>1. CASE d = b
    <3>1. left'[b] = Tail(left[b]) /\ written'[b] = written[b] \cup {w} /\ Running(b) /\ chunk' = chunk
      BY <1>1, <1>2 DEF Inv, Types, Progress
    <3>2. SlugsOf(written[b])' = SlugsOf(written[b]) \cup {w.slug}
      BY <3>1 DEF SlugsOf
    <3>3. Left(b)' = {Tail(left[b])[i] : i \in DOMAIN Tail(left[b])} /\ Running(b)'
      BY <3>1 DEF Left, Running
    <3>4. /\ SlugsOf(written[b]) \cap Left(b) = {}
          /\ SlugsOf(written[b]) \cup Left(b) = DOMAIN chunk[b]
          /\ \A v \in written[b] : v.data = chunk[b][v.slug]
      BY <3>1 DEF Inv, Progress
    <3>5. (/\ SlugsOf(written[b]) \cap Left(b) = {}
           /\ SlugsOf(written[b]) \cup Left(b) = DOMAIN chunk[b])'
      <4> DEFINE T == {Tail(left[b])[i] : i \in DOMAIN Tail(left[b])}
                 W == SlugsOf(written[b])
      <4>1. Left(b) = T \cup {w.slug} /\ w.slug \notin T /\ Left(b)' = T /\ W' = W \cup {w.slug}
        BY <1>3, <3>2, <3>3
      <4>2. W \cap Left(b) = {} /\ W \cup Left(b) = DOMAIN chunk[b] /\ chunk' = chunk
        BY <3>1, <3>4
      <4> HIDE DEF T, W
      <4>3. (W \cap Left(b) = {} /\ W \cup Left(b) = DOMAIN chunk[b])'
        BY <4>1, <4>2
      <4> QED
        BY <4>3 DEF W
    <3>6. (\A v \in written[b] : v.data = chunk[b][v.slug])'
      BY <1>1, <3>1, <3>4
    <3>7. (/\ \A i, j \in DOMAIN left[b] : left[b][i] = left[b][j] => i = j
           /\ drawn[b] # NoId => left[b] # <<>>)'
      BY <1>2, <1>3, <3>1 DEF Inv, Types
    <3> QED
      BY <2>1, <3>3, <3>5, <3>6, <3>7 DEF Progress
  <2>2. CASE d # b
    <3>1. chunk'[d] = chunk[d] /\ left'[d] = left[d]
          /\ drawn'[d] = drawn[d] /\ written'[d] = written[d]
      BY <1>1, <1>2, <2>2 DEF Inv, Types
    <3> QED
      BY <3>1, ProgressSame DEF Inv
  <2> QED
    BY <2>1, <2>2
<1>6. Keys'
  BY <1>2 DEF Inv, Keys
<1>7. Exclusive'
  BY <1>1 DEF Inv, Types, Exclusive
<1>8. ASSUME NEW d \in Bulks, NEW v \in written'[d] PROVE v \in written[d] \/ (d = b /\ v = w)
  BY <1>1 DEF Inv, Types
<1>9. Drawn' /\ Unused'
  <2>1. \A d \in Bulks : drawn'[d] = (IF d = b THEN NoId ELSE drawn[d])
    BY <1>2 DEF Inv, Types
  <2>2. Drawn'
    BY <1>1, <1>2, <1>8, <2>1 DEF Inv, Drawn, NoId
  <2>3. Unused'
    BY <1>1, <1>2, <1>8, <2>1 DEF Inv, Unused
  <2> QED
    BY <2>2, <2>3
<1>10. DecisionsHold'
  <2> SUFFICES ASSUME NEW d \in Bulks, NEW v \in written'[d]
               PROVE  IF v.slug \in SlugsOf(rows) THEN \E r \in rows : r.slug = v.slug /\ r.id = v.id
                      ELSE v.id \notin given /\ v.id < nextId
    BY <1>2 DEF DecisionsHold, SlugsOf
  <2>1. CASE v \in written[d]
    BY <1>2, <2>1 DEF Inv, Types, DecisionsHold, Row
  <2>2. CASE v = w
    BY <1>1, <1>2, <2>2 DEF Inv, Types
  <2> QED
    BY <1>8, <2>1, <2>2
<1> QED
  BY <1>4, <1>5, <1>6, <1>7, <1>9, <1>10 DEF Inv

\* A statement that ends, with or without effect, leaves nothing behind.
LEMMA EndKeeps ==
  ASSUME Inv, NEW b \in Bulks, End(b)
  PROVE  /\ chunk' \in [Bulks -> Chunks \cup {NoChunk}]
         /\ left' \in [Bulks -> Seq(Slugs)]
         /\ drawn' \in [Bulks -> Nat]
         /\ written' \in [Bulks -> SUBSET Row]
         /\ nextId' = nextId
         /\ written'[b] = {} /\ \A d \in Bulks \ {b} : written'[d] = written[d]
         /\ drawn'[b] = NoId /\ \A d \in Bulks \ {b} : drawn'[d] = drawn[d]
         /\ \A d \in Bulks : Progress(d)'
         /\ Exclusive' /\ Drawn'
<1>1. /\ chunk' \in [Bulks -> Chunks \cup {NoChunk}]
      /\ left' \in [Bulks -> Seq(Slugs)]
      /\ drawn' \in [Bulks -> Nat]
      /\ written' \in [Bulks -> SUBSET Row]
      /\ nextId' = nextId
      /\ written'[b] = {} /\ \A d \in Bulks \ {b} : written'[d] = written[d]
      /\ drawn'[b] = NoId /\ \A d \in Bulks \ {b} : drawn'[d] = drawn[d]
  BY DEF End, Inv, Types, NoId
<1>2. ASSUME NEW d \in Bulks PROVE Progress(d)'
  <2>1. CASE d = b
    BY <1>1, <2>1 DEF End, Inv, Types, Progress, Running
  <2>2. CASE d # b
    <3>1. chunk'[d] = chunk[d] /\ left'[d] = left[d]
          /\ drawn'[d] = drawn[d] /\ written'[d] = written[d]
      BY <2>2 DEF End, Inv, Types
    <3> QED
      BY <3>1, ProgressSame DEF Inv
  <2> QED
    BY <2>1, <2>2
<1>3. Exclusive' /\ Drawn'
  <2>1. \A d \in Bulks : \A v \in written'[d] : d # b /\ v \in written[d]
    BY <1>1
  <2>2. \A d \in Bulks : drawn'[d] = NoId \/ drawn'[d] = drawn[d]
    BY <1>1
  <2> QED
    BY <1>1, <2>1, <2>2, BulkAssumption DEF Inv, Types, Exclusive, Drawn, NoId
<1> QED
  BY <1>1, <1>2, <1>3

\* What a commit does to the table, for the invariant and for BulkAtomic: the rows of
\* the chunk are replaced by those that were written, which keep their ids or have new ones.
LEMMA CommitFacts ==
  ASSUME Inv, NEW b \in Bulks, Commit(b)
  PROVE  /\ chunk[b] \in Chunks /\ SlugsOf(written[b]) = DOMAIN chunk[b]
         /\ \A w \in written[b] : w.data = chunk[b][w.slug]
         /\ rows' = {r \in rows : r.slug \notin DOMAIN chunk[b]} \cup written[b]
<1>1. chunk[b] \in Chunks
  BY DEF Commit, Running, Inv, Types
<1>2. Left(b) = {}
  BY DEF Commit, Left
<1>3. SlugsOf(written[b]) = DOMAIN chunk[b] /\ \A w \in written[b] : w.data = chunk[b][w.slug]
  BY <1>2 DEF Commit, Inv, Progress
<1> QED
  BY <1>1, <1>3 DEF Commit

LEMMA CommitKeeps ==
  ASSUME Inv, NEW b \in Bulks, Commit(b)
  PROVE  Inv'
<1>1. /\ rows' = {r \in rows : r.slug \notin SlugsOf(written[b])} \cup written[b]
      /\ given' = given \cup {r.id : r \in rows'} /\ End(b)
  BY DEF Commit
<1>2. Types'
  <2>1. rows' \subseteq Row
    BY <1>1 DEF Inv, Types
  <2>2. ASSUME NEW r \in rows' PROVE r.id \in 1 .. nextId - 1
    <3>1. CASE r \in rows
      BY <3>1 DEF Inv, Types, Keys
    <3>2. CASE r \in written[b]
      BY <3>2, BulkAssumption DEF Inv, Types, Drawn, Row
    <3> QED
      BY <1>1, <3>1, <3>2
  <2> QED
    BY <1>1, <2>1, <2>2, EndKeeps, ZenonT(40) DEF Inv, Types
<1>3. \A d \in Bulks : Progress(d)'
  BY <1>1, EndKeeps
<1>4. Keys'
  <2>1. ASSUME NEW q \in rows, q.slug \notin SlugsOf(written[b]), NEW w \in written[b]
        PROVE  q.id # w.id /\ q.slug # w.slug
    <3>1. IF w.slug \in SlugsOf(rows) THEN \E r \in rows : r.slug = w.slug /\ r.id = w.id
          ELSE w.id \notin given
      BY DEF Inv, DecisionsHold
    <3> QED
      BY <2>1, <3>1 DEF Inv, Keys, SlugsOf
  <2>2. \A v, w \in written[b] : v.id = w.id \/ v.slug = w.slug => v = w
    BY DEF Inv, Exclusive
  <2>3. \A q, r \in rows' : q.id = r.id \/ q.slug = r.slug => q = r
    BY <1>1, <2>1, <2>2 DEF Inv, Keys
  <2>4. \A r \in rows' : r.id \in given'
    BY <1>1
  <2> QED
    BY <2>3, <2>4 DEF Keys
<1>5. Exclusive' /\ Drawn' /\ Unused'
  <2>1. ASSUME NEW d \in Bulks, drawn'[d] # NoId
        PROVE  /\ drawn'[d] \notin given'
               /\ \A e \in Bulks : (e # d => drawn'[e] # drawn'[d])
                                   /\ \A w \in written'[e] : w.id # drawn'[d]
    <3>1. d # b /\ drawn'[d] = drawn[d]
      BY <1>1, <2>1, EndKeeps
    <3>2. /\ drawn[d] \notin given
          /\ \A e \in Bulks : (e # d => drawn[e] # drawn[d]) /\ \A w \in written[e] : w.id # drawn[d]
      BY <2>1, <3>1 DEF Inv, Unused
    <3>3. drawn[d] \notin given'
      BY <1>1, <3>2 DEF Inv, Keys
    <3>4. \A e \in Bulks : /\ drawn'[e] = NoId \/ drawn'[e] = drawn[e]
                           /\ written'[e] = {} \/ written'[e] = written[e]
      BY <1>1, EndKeeps
    <3> QED
      BY <2>1, <3>1, <3>2, <3>3, <3>4
  <2> QED
    BY <1>1, <2>1, EndKeeps DEF Unused
<1>6. DecisionsHold'
  <2> SUFFICES ASSUME NEW d \in Bulks, NEW w \in written'[d]
               PROVE  IF w.slug \in SlugsOf(rows') THEN \E r \in rows' : r.slug = w.slug /\ r.id = w.id
                      ELSE w.id \notin given' /\ w.id < nextId'
    BY DEF DecisionsHold, SlugsOf
  <2>1. d # b /\ w \in written[d] /\ nextId' = nextId
    BY <1>1, EndKeeps
  <2>2. \A v \in written[b] : v.slug # w.slug /\ v.id # w.id
    BY <2>1 DEF Inv, Exclusive
  <2>3. IF w.slug \in SlugsOf(rows) THEN \E r \in rows : r.slug = w.slug /\ r.id = w.id
        ELSE w.id \notin given /\ w.id < nextId
    BY <2>1 DEF Inv, DecisionsHold
  <2>4. CASE w.slug \in SlugsOf(rows)
    <3>1. PICK r \in rows : r.slug = w.slug /\ r.id = w.id
      BY <2>3, <2>4
    <3>2. r \in rows'
      BY <1>1, <2>2, <3>1 DEF SlugsOf
    <3> QED
      BY <3>1, <3>2 DEF SlugsOf
  <2>5. CASE w.slug \notin SlugsOf(rows)
    <3>1. w.slug \notin SlugsOf(rows')
      BY <1>1, <2>2, <2>5 DEF SlugsOf
    <3>2. w.id \notin given'
      BY <1>1, <2>2, <2>3, <2>5 DEF Inv, Keys
    <3> QED
      BY <2>1, <2>3, <2>5, <3>1, <3>2
  <2> QED
    BY <2>4, <2>5
<1> QED
  BY <1>2, <1>3, <1>4, <1>5, <1>6 DEF Inv

LEMMA FailKeeps ==
  ASSUME Inv, NEW b \in Bulks, Fail(b)
  PROVE  Inv'
<1>1. End(b) /\ UNCHANGED <<rows, given>>
  BY DEF Fail
<1>2. Types' /\ Keys'
  BY <1>1, EndKeeps DEF Inv, Types, Keys
<1>3. DecisionsHold' /\ Unused'
  <2>1. \A e \in Bulks : /\ drawn'[e] = NoId \/ drawn'[e] = drawn[e]
                         /\ written'[e] = {} \/ written'[e] = written[e]
    BY <1>1, EndKeeps
  <2>2. DecisionsHold'
    BY <1>1, EndKeeps DEF Inv, DecisionsHold, SlugsOf
  <2>3. Unused'
    BY <1>1, <2>1 DEF Inv, Unused
  <2> QED
    BY <2>2, <2>3
<1> QED
  BY <1>1, <1>2, <1>3, EndKeeps DEF Inv

\* A delete waits for those that have written its row.
LEMMA DeleteKeeps ==
  ASSUME Inv, NEW s \in Slugs, Delete(s)
  PROVE  Inv'
<1>1. /\ \A b \in Bulks : s \notin SlugsOf(written[b])
      /\ rows' = {r \in rows : r.slug # s} /\ UNCHANGED <<nextId, given, chunk, left, drawn, written>>
  BY DEF Delete
<1>2. Types' /\ Keys' /\ Exclusive' /\ Drawn' /\ Unused'
  BY <1>1 DEF Inv, Types, Keys, Exclusive, Drawn, Unused
<1>3. \A b \in Bulks : Progress(b)'
  BY <1>1 DEF Inv, Progress, Running, Left, SlugsOf
<1>4. DecisionsHold'
  BY <1>1 DEF Inv, DecisionsHold, SlugsOf
<1> QED
  BY <1>2, <1>3, <1>4 DEF Inv

LEMMA StepInv == Inv /\ [Next]_vars => Inv'
<1> SUFFICES ASSUME Inv, [Next]_vars PROVE Inv'
  OBVIOUS
<1>1. CASE \E b \in Bulks, c \in Chunks : CreateOrUpdatePortBulk(b, c)
  BY <1>1, StartKeeps
<1>2. CASE \E b \in Bulks : Draw(b) \/ Write(b)
  BY <1>2, DrawKeeps, WriteKeeps
<1>3. CASE \E b \in Bulks : Commit(b)
  BY <1>3, CommitKeeps
<1>4. CASE \E b \in Bulks : Victim(b) \/ Fail(b)
  BY <1>4, FailKeeps DEF Victim
<1>5. CASE \E s \in Slugs : Delete(s)
  BY <1>5, DeleteKeeps
<1>6. CASE UNCHANGED vars
  <2>1. \A b \in Bulks : Progress(b)'
    BY <1>6, ProgressSame DEF Inv, vars
  <2> QED
    BY <1>6, <2>1 DEF vars, Inv, Types, SlugsOf, Keys, Exclusive, Drawn, Unused, DecisionsHold
<1> QED
  BY <1>1, <1>2, <1>3, <1>4, <1>5, <1>6 DEF Next

LEMMA Invariance == Spec => []Inv
<1> QED
  BY InitInv, StepInv, PTL DEF Spec

-----------------------------------------------------------------------------
(* The results. *)

\* Every port of a chunk is written or left, never both, for every set of chunks.
THEOREM TypeCorrect == Spec => []TypeOK
<1>1. Inv => TypeOK
  BY BulkAssumption DEF Inv, Types, Progress, Drawn, Left, Running, TypeOK
<1> QED
  BY <1>1, Invariance, PTL

\* However many statements overlap and whatever commits in between: a port keeps the
\* id it had when it was written, and an id that was new then is new at the commit.
THEOREM LocksHoldDecisions == Spec => []DecisionsHold
<1>1. Inv => DecisionsHold
  BY DEF Inv
<1> QED
  BY <1>1, Invariance, PTL

\* When no statement can go on, those that run wait for one another, so that each of
\* them is part of a deadlock PostgreSQL resolves: no statement waits for ever for a
\* lock of one that has ended, for any number of statements.
THEOREM NobodyWaitsForNothing == Spec => []WaitsResolve
<1>1. Inv => WaitsResolve
  <2> SUFFICES ASSUME Inv, NEW b \in Bulks, Running(b), \A d \in Bulks : ~CanGoOn(d)
               PROVE  Deadlocked(b)
    BY DEF WaitsResolve
  <2> DEFINE C == {d \in Bulks : Running(d)}
  <2>1. ASSUME NEW d \in C PROVE \E e \in C : WaitsFor(d, e)
    <3>1. left[d] # <<>> /\ drawn[d] # NoId /\ Locked(d, Head(left[d]))
      BY DEF CanGoOn
    <3>2. PICK e \in Bulks : e # d /\ Head(left[d]) \in SlugsOf(written[e])
      BY <3>1 DEF Locked
    <3>3. written[e] # {}
      BY <3>2 DEF SlugsOf
    <3>4. Running(e)
      BY <3>3 DEF Inv, Progress
    <3> QED
      BY <3>1, <3>2, <3>4 DEF WaitsFor
  <2>2. b \in C /\ C \in SUBSET Bulks
    OBVIOUS
  <2> HIDE DEF C
  <2> QED
    BY <2>1, <2>2, Zenon DEF Deadlocked
<1> QED
  BY <1>1, Invariance, PTL

\* A bulk waits for one that has a port with the same slug; two that wait for each
\* other have two such slugs: uploads of different ports do not hold each other up, and
\* those that share one port may wait and do not fail.
THEOREM CircleNeedsTwoSharedSlugs ==
  Spec => [](\A b, d \in Bulks :
    /\ WaitsFor(b, d) => DOMAIN chunk[b] \cap DOMAIN chunk[d] # {}
    /\ WaitsFor(b, d) /\ WaitsFor(d, b) =>
         \E s, t \in DOMAIN chunk[b] \cap DOMAIN chunk[d] : s # t)
<1>1. ASSUME Inv, NEW b \in Bulks, NEW d \in Bulks, WaitsFor(b, d)
      PROVE  /\ Head(left[b]) \in DOMAIN chunk[b] /\ Head(left[b]) \in DOMAIN chunk[d]
             /\ Head(left[b]) \notin SlugsOf(written[b])
             /\ Head(left[b]) \in SlugsOf(written[d])
  <2>1. left[b] # <<>> /\ Head(left[b]) \in SlugsOf(written[d]) /\ left[b] \in Seq(Slugs)
    BY <1>1 DEF WaitsFor, Inv, Types
  <2>2. Head(left[b]) \in Left(b)
    BY <2>1 DEF Left
  <2>3. written[d] # {}
    BY <2>1 DEF SlugsOf
  <2>4. Running(b) /\ Running(d)
    BY <1>1, <2>1, <2>3 DEF Inv, Progress
  <2>5. /\ SlugsOf(written[b]) \cap Left(b) = {}
        /\ SlugsOf(written[b]) \cup Left(b) = DOMAIN chunk[b]
        /\ SlugsOf(written[d]) \cup Left(d) = DOMAIN chunk[d]
    BY <1>1, <2>4 DEF Inv, Progress
  <2> QED
    BY <2>1, <2>2, <2>5
<1>2. Inv => \A b, d \in Bulks :
        /\ WaitsFor(b, d) => DOMAIN chunk[b] \cap DOMAIN chunk[d] # {}
        /\ WaitsFor(b, d) /\ WaitsFor(d, b) =>
             \E s, t \in DOMAIN chunk[b] \cap DOMAIN chunk[d] : s # t
  <2> SUFFICES ASSUME Inv, NEW b \in Bulks, NEW d \in Bulks, WaitsFor(b, d)
               PROVE  /\ DOMAIN chunk[b] \cap DOMAIN chunk[d] # {}
                      /\ WaitsFor(d, b) =>
                           \E s, t \in DOMAIN chunk[b] \cap DOMAIN chunk[d] : s # t
    OBVIOUS
  <2>1. DOMAIN chunk[b] \cap DOMAIN chunk[d] # {}
    BY <1>1
  <2>2. ASSUME WaitsFor(d, b)
        PROVE  \E s, t \in DOMAIN chunk[b] \cap DOMAIN chunk[d] : s # t
    <3>1. Head(left[b]) # Head(left[d])
      BY <1>1, <2>2
    <3> QED
      BY <1>1, <2>2, <3>1
  <2> QED
    BY <2>1, <2>2
<1> QED
  BY <1>2, Invariance, PTL

-----------------------------------------------------------------------------
(* Statements that interleave port by port implement bulks in one step. *)

LEMMA InitMaps == Init => Atomic!Init
BY DEF Init, Atomic!Init

LEMMA CommitMaps ==
  ASSUME Inv, NEW b \in Bulks, Commit(b)
  PROVE  Atomic!Upsert
<1> DEFINE kept == {r \in rows : r.slug \notin DOMAIN chunk[b]}
<1>1. /\ chunk[b] \in Chunks /\ SlugsOf(written[b]) = DOMAIN chunk[b]
      /\ \A w \in written[b] : w.data = chunk[b][w.slug]
      /\ rows' = kept \cup written[b]
  BY CommitFacts
<1>2. rows' \ kept = written[b]
  BY <1>1 DEF SlugsOf
<1>3. \A v, w \in written[b] : v.slug = w.slug \/ v.id = w.id => v = w
  BY DEF Inv, Exclusive
<1>4. \A w \in written[b] :
        IF w.slug \in SlugsOf(rows) THEN \E r \in rows : r.slug = w.slug /\ r.id = w.id
        ELSE w.id \notin given
  BY DEF Inv, DecisionsHold
<1>5. Atomic!Written(rows' \ kept, chunk[b])
  BY <1>1, <1>2, <1>3, <1>4 DEF Atomic!Written, Atomic!SlugsOf, SlugsOf
<1>6. given' = given \cup {r.id : r \in rows'} /\ kept \subseteq rows'
  BY <1>1 DEF Commit
<1> QED
  BY <1>1, <1>5, <1>6 DEF Atomic!Upsert

LEMMA StepMaps == Inv /\ [Next]_vars => [Atomic!Next]_(Atomic!vars)
<1> SUFFICES ASSUME Inv, [Next]_vars PROVE Atomic!Next \/ UNCHANGED <<rows, given>>
  BY DEF Atomic!vars
<1>1. CASE \E b \in Bulks : Commit(b)
  BY <1>1, CommitMaps DEF Atomic!Next
<1>2. CASE \E s \in Slugs : Delete(s)
  BY <1>2 DEF Delete, Atomic!Next, Atomic!Delete
<1>3. CASE \E b \in Bulks, c \in Chunks : CreateOrUpdatePortBulk(b, c)
  BY <1>3 DEF CreateOrUpdatePortBulk
<1>4. CASE \E b \in Bulks : Draw(b) \/ Write(b) \/ Victim(b) \/ Fail(b)
  BY <1>4 DEF Draw, Write, Victim, Fail
<1>5. CASE UNCHANGED vars
  BY <1>5 DEF vars
<1> QED
  BY <1>1, <1>2, <1>3, <1>4, <1>5 DEF Next

\* For any number of statements, any chunks and every interleaving: the table changes
\* by whole chunks or by deletes, and new ports get ids that no port has had.
THEOREM BulksAreAtomic == Spec => ImplementsBulkAtomic
<1> QED
  BY InitMaps, StepMaps, Invariance, PTL DEF Spec, ImplementsBulkAtomic, Atomic!Spec

-----------------------------------------------------------------------------
(* The same for the identity of ports. *)

Pairs(R) == {<<r.id, r.slug>> : r \in R}

LEMMA CommitBinds ==
  ASSUME Inv, Inv', NEW b \in Bulks, Commit(b)
  PROVE  Registry!Bind
<1>1. /\ rows' = {r \in rows : r.slug \notin SlugsOf(written[b])} \cup written[b]
      /\ given' = given \cup {r.id : r \in rows'} /\ written[b] \subseteq Row
  BY DEF Commit, Inv, Types
<1>2. \A r \in rows : \E q \in rows' : q.id = r.id /\ q.slug = r.slug
  <2> SUFFICES ASSUME NEW r \in rows PROVE \E q \in rows' : q.id = r.id /\ q.slug = r.slug
    OBVIOUS
  <2>1. CASE r.slug \notin SlugsOf(written[b])
    BY <1>1, <2>1
  <2>2. CASE r.slug \in SlugsOf(written[b])
    <3>1. PICK w \in written[b] : w.slug = r.slug
      BY <2>2 DEF SlugsOf
    <3>2. PICK q \in rows : q.slug = w.slug /\ q.id = w.id
      BY <3>1 DEF Inv, DecisionsHold, SlugsOf
    <3>3. q = r
      BY <3>1, <3>2 DEF Inv, Keys
    <3> QED
      BY <1>1, <3>1, <3>2, <3>3
  <2> QED
    BY <2>1, <2>2
<1>3. \A q \in rows' : \/ \E r \in rows : q.id = r.id /\ q.slug = r.slug
                       \/ q.id \in given' \ given /\ q.slug \in Slugs
  BY <1>1 DEF Inv, DecisionsHold, SlugsOf, Row
<1>4. Registry!Functional(Pairs(rows'))
  BY DEF Inv, Keys, Registry!Functional, Pairs
<1>5. Pairs(rows) \subseteq Pairs(rows')
  BY <1>2 DEF Pairs
<1>6. \A p \in Pairs(rows') \ Pairs(rows) : p[1] \in given' \ given /\ p[2] \in Slugs
  BY <1>3 DEF Pairs
<1> QED
  BY <1>1, <1>4, <1>5, <1>6 DEF Registry!Bind, Pairs

\* Row locks keep the promises of PortRegistry, for any number of statements and every
\* order in which they draw ids and commit.
THEOREM LocksImplementRegistry == Spec => ImplementsPortRegistry
<1>1. Init => Registry!Init
  BY DEF Init, Registry!Init
<1>2. Inv /\ Inv' /\ [Next]_vars => [Registry!Next]_(Registry!vars)
  <2> SUFFICES ASSUME Inv, Inv', [Next]_vars
               PROVE  Registry!Next \/ UNCHANGED <<rows, given>>
    BY DEF Registry!vars
  <2>1. CASE \E b \in Bulks : Commit(b)
    BY <2>1, CommitBinds DEF Registry!Next
  <2>2. CASE \E s \in Slugs : Delete(s)
    BY <2>2 DEF Delete, Registry!Next, Registry!Unbind
  <2>3. CASE \E b \in Bulks, c \in Chunks : CreateOrUpdatePortBulk(b, c)
    BY <2>3 DEF CreateOrUpdatePortBulk
  <2>4. CASE \E b \in Bulks : Draw(b) \/ Write(b) \/ Victim(b) \/ Fail(b)
    BY <2>4 DEF Draw, Write, Victim, Fail
  <2>5. CASE UNCHANGED vars
    BY <2>5 DEF vars
  <2> QED
    BY <2>1, <2>2, <2>3, <2>4, <2>5 DEF Next
<1> QED
  BY <1>1, <1>2, Invariance, PTL DEF Spec, ImplementsPortRegistry, Registry!Spec

=============================================================================
