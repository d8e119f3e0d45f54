----------------------------- MODULE BulkAtomic -----------------------------
(***************************************************************************)
(* What module PortTable takes a bulk upsert for: one step that stores all *)
(* ports of a chunk.  The ids of new ports are any that were never stored. *)
(***************************************************************************)
EXTENDS Integers

CONSTANTS Chunks    \* the chunks: functions from slugs to data

VARIABLES
  rows,     \* the table: records with id, slug and data
  given     \* the ids it has had so far

vars == <<rows, given>>

Init == rows = {} /\ given = {}

SlugsOf(R) == {r.slug : r \in R}

\* W is what a chunk becomes: a row for each port, with the id its slug has or
\* with one that is new.
Written(W, chunk) ==
  /\ SlugsOf(W) = DOMAIN chunk
  /\ \A v, w \in W : v.slug = w.slug \/ v.id = w.id => v = w
  /\ \A w \in W : w.data = chunk[w.slug]
  /\ \A w \in W : IF w.slug \in SlugsOf(rows) THEN \E r \in rows : r.slug = w.slug /\ r.id = w.id
                  ELSE w.id \notin given

Upsert ==
  \E chunk \in Chunks :
    LET kept == {r \in rows : r.slug \notin DOMAIN chunk}
    IN /\ kept \subseteq rows'
       /\ Written(rows' \ kept, chunk)
       /\ given' = given \cup {r.id : r \in rows'}

Delete == rows' \subseteq rows /\ UNCHANGED given

Next == Upsert \/ Delete

Spec == Init /\ [][Next]_vars
=============================================================================
