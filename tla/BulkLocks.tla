------------------------------ MODULE BulkLocks -----------------------------
(***************************************************************************)
(* Bulk upserts below the statement.  Two uploads, or an upload and another*)
(* client, run INSERT .. ON CONFLICT DO UPDATE at once: PostgreSQL goes    *)
(* through the ports in the order the gateway got from its map, locks each *)
(* slug it writes until the statement commits, and ends one of the         *)
(* statements that wait for each other.                                    *)
(***************************************************************************)
EXTENDS Integers, Sequences, FiniteSets

CONSTANTS
  Bulks,      \* the bulk calls in progress at once
  Slugs, Datas,
  Chunks,     \* the chunks uploads send
  MaxId       \* bound: the identity column stops here

\* A chunk is a map with at least one port: gorm makes no statement of none.
ASSUME BulkAssumption ==
  /\ MaxId \in Nat
  /\ \A c \in Chunks :
       /\ DOMAIN c # {} /\ DOMAIN c \subseteq Slugs /\ IsFiniteSet(DOMAIN c)
       /\ c \in [DOMAIN c -> Datas]

VARIABLES
  rows,       \* what is committed
  nextId,     \* the sequence behind the identity column
  given,      \* history: the ids that rows has had
  chunk,      \* bulk -> its chunk, NoChunk while it is idle
  left,       \* bulk -> the slugs it has yet to write, in order
  drawn,      \* bulk -> the id drawn for its next port, NoId before
  written     \* bulk -> the rows it has written and not committed

vars == <<rows, nextId, given, chunk, left, drawn, written>>

NoChunk == <<>>

NoId == 0

Init ==
  /\ rows = {} /\ nextId = 1 /\ given = {}
  /\ chunk = [b \in Bulks |-> NoChunk]
  /\ left = [b \in Bulks |-> <<>>]
  /\ drawn = [b \in Bulks |-> NoId]
  /\ written = [b \in Bulks |-> {}]

-----------------------------------------------------------------------------
SlugsOf(R) == {r.slug : r \in R}

Running(b) == chunk[b] # NoChunk

\* range over the map of a chunk meets its slugs in any order.
Orders(S) == {o \in [1 .. Cardinality(S) -> S] :
                /\ \A s \in S : \E i \in DOMAIN o : o[i] = s
                /\ \A i, j \in DOMAIN o : o[i] = o[j] => i = j}

Locked(b, s) == \E d \in Bulks : d # b /\ s \in SlugsOf(written[d])

\* b waits for the statement that has locked its next slug.
WaitsFor(b, d) ==
  d # b /\ left[b] # <<>> /\ drawn[b] # NoId /\ Head(left[b]) \in SlugsOf(written[d])

Deadlocked(b) ==
  \E C \in SUBSET Bulks : b \in C /\ \A d \in C : \E e \in C : WaitsFor(d, e)

-----------------------------------------------------------------------------
CreateOrUpdatePortBulk(b, c) ==
  /\ ~Running(b)
  /\ chunk' = [chunk EXCEPT ![b] = c]
  /\ \E o \in Orders(DOMAIN c) : left' = [left EXCEPT ![b] = o]
  /\ UNCHANGED <<rows, nextId, given, drawn, written>>

\* The identity column draws an id for the next port before the statement knows
\* whether that is new, and before it waits for a lock.
Draw(b) ==
  /\ left[b] # <<>> /\ drawn[b] = NoId /\ nextId <= MaxId
  /\ drawn' = [drawn EXCEPT ![b] = nextId]
  /\ nextId' = nextId + 1
  /\ UNCHANGED <<rows, given, chunk, left, written>>

IdOf(b, s) ==
  IF s \in SlugsOf(rows) THEN (CHOOSE r \in rows : r.slug = s).id ELSE drawn[b]

\* A mutant: a slug another statement has written is written all the same.
WriteUnlocked(b) ==
  /\ left[b] # <<>> /\ drawn[b] # NoId
  /\ LET s == Head(left[b])
     IN written' = [written EXCEPT ![b] = @ \cup {[id |-> IdOf(b, s), slug |-> s, data |-> chunk[b][s]]}]
  /\ left' = [left EXCEPT ![b] = Tail(@)]
  /\ drawn' = [drawn EXCEPT ![b] = NoId]
  /\ UNCHANGED <<rows, nextId, given, chunk>>

\* The next port: its id is the one the slug has, or else the one drawn for it.
Write(b) ==
  /\ left[b] # <<>> /\ drawn[b] # NoId
  /\ LET s == Head(left[b])
     IN /\ ~Locked(b, s)
        /\ written' = [written EXCEPT ![b] = @ \cup {[id |-> IdOf(b, s), slug |-> s, data |-> chunk[b][s]]}]
  /\ left' = [left EXCEPT ![b] = Tail(@)]
  /\ drawn' = [drawn EXCEPT ![b] = NoId]
  /\ UNCHANGED <<rows, nextId, given, chunk>>

\* A mutant: the locks of a statement outlive it.
EndHolding(b) ==
  /\ chunk' = [chunk EXCEPT ![b] = NoChunk]
  /\ left' = [left EXCEPT ![b] = <<>>]
  /\ drawn' = [drawn EXCEPT ![b] = NoId]
  /\ UNCHANGED <<nextId, written>>

End(b) ==
  /\ chunk' = [chunk EXCEPT ![b] = NoChunk]
  /\ left' = [left EXCEPT ![b] = <<>>]
  /\ drawn' = [drawn EXCEPT ![b] = NoId]
  /\ written' = [written EXCEPT ![b] = {}]
  /\ UNCHANGED nextId

Commit(b) ==
  /\ Running(b) /\ left[b] = <<>>
  /\ rows' = {r \in rows : r.slug \notin SlugsOf(written[b])} \cup written[b]
  /\ given' = given \cup {r.id : r \in rows'}
  /\ End(b)

\* A mutant: what the statement has written before it failed stays.
FailHalfway(b) ==
  /\ Running(b)
  /\ rows' = {r \in rows : r.slug \notin SlugsOf(written[b])} \cup written[b]
  /\ given' = given \cup {r.id : r \in rows'}
  /\ End(b)

\* A statement fails: the victim of a deadlock, an exhausted sequence, any other
\* reason.  What it has written is gone, and nobody waits for it any more.
Fail(b) ==
  /\ Running(b)
  /\ End(b)
  /\ UNCHANGED <<rows, given>>

\* A mutant: nobody looks for deadlocks.
NoVictim(b) == FALSE /\ Fail(b)

Exhausted(b) == left[b] # <<>> /\ drawn[b] = NoId /\ nextId > MaxId

Victim(b) == (Deadlocked(b) \/ Exhausted(b)) /\ Fail(b)

\* DELETE waits for the lock on the row.
Delete(s) ==
  /\ \A b \in Bulks : s \notin SlugsOf(written[b])
  /\ rows' = {r \in rows : r.slug # s}
  /\ UNCHANGED <<nextId, given, chunk, left, drawn, written>>

-----------------------------------------------------------------------------
Next ==
  \/ \E b \in Bulks, c \in Chunks : CreateOrUpdatePortBulk(b, c)
  \/ \E b \in Bulks : Draw(b) \/ Write(b) \/ Commit(b) \/ Victim(b) \/ Fail(b)
  \/ \E s \in Slugs : Delete(s)

Spec == Init /\ [][Next]_vars

\* PostgreSQL looks for deadlocks, goes on with every statement that need not wait,
\* and gives a lock to those that wait for it in turn.
FairSpec ==
  Spec /\ \A b \in Bulks :
    WF_vars(Draw(b)) /\ SF_vars(Write(b)) /\ WF_vars(Commit(b)) /\ WF_vars(Victim(b))
-----------------------------------------------------------------------------
(* Properties. *)

Row == [id : Nat \ {0}, slug : Slugs, data : Datas]

\* What is written and what is left are the chunk, each port in one of them; an id is
\* drawn for a port that is left.
TypeOK ==
  /\ rows \subseteq Row /\ nextId \in 1 .. MaxId + 1 /\ given \subseteq 1 .. nextId - 1
  /\ \A b \in Bulks :
       /\ written[b] \subseteq Row /\ drawn[b] \in 0 .. nextId - 1
       /\ drawn[b] # NoId => left[b] # <<>>
       /\ ~Running(b) => left[b] = <<>> /\ written[b] = {}
       /\ Running(b) =>
            /\ chunk[b] \in Chunks
            /\ SlugsOf(written[b]) \cap {left[b][i] : i \in DOMAIN left[b]} = {}
            /\ SlugsOf(written[b]) \cup {left[b][i] : i \in DOMAIN left[b]} = DOMAIN chunk[b]
            /\ \A w \in written[b] : w.data = chunk[b][w.slug]

\* What a statement has decided about a port when it wrote it still holds when it
\* commits, whatever committed in between: the slug has that id, or the id is new.
DecisionsHold ==
  \A b \in Bulks : \A w \in written[b] :
    IF w.slug \in SlugsOf(rows) THEN \E r \in rows : r.slug = w.slug /\ r.id = w.id
    ELSE w.id \notin given /\ w.id < nextId

\* A bulk is atomic: the table changes by whole chunks, or by deletes, and a port
\* that is new gets an id no port has had, although statements interleave port by
\* port and draw their ids as they go.
Atomic == INSTANCE BulkAtomic
ImplementsBulkAtomic == Atomic!Spec

\* The identity of ports is what PortsService promises, although the statement that
\* has drawn its ids first may be the last to commit.
Registry == INSTANCE PortRegistry WITH
  Names <- Slugs,
  bound <- {<<r.id, r.slug>> : r \in rows}
ImplementsPortRegistry == Registry!Spec

CanGoOn(b) ==
  Running(b) /\ (left[b] = <<>> \/ drawn[b] = NoId \/ ~Locked(b, Head(left[b])))

\* Nobody waits for nothing: while a statement runs, some statement can draw, write,
\* commit or fail, or the wait is a circle that PostgreSQL finds.  No lock outlives the
\* statement that has taken it.
WaitsResolve ==
  \A b \in Bulks : Running(b) => Deadlocked(b) \/ \E d \in Bulks : CanGoOn(d)

\* Every bulk ends, also when two of them wait for each other.
BulksEnd == \A b \in Bulks : Running(b) ~> ~Running(b)

(* A claim the repository makes that the code does not keep. *)

\* "create or update existing Port by slug": uploads that are good do not make each
\* other fail.
NoDeadlock == \A b \in Bulks : ~Deadlocked(b)
=============================================================================
