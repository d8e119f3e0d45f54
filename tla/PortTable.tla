----------------------------- MODULE PortTable ------------------------------
(***************************************************************************)
(* The table ports.port_entries (ports/schema/init.sql) and the statements *)
(* the Datastore issues on it.  PostgreSQL runs each statement atomically; *)
(* the table is the set of its rows.                                       *)
(***************************************************************************)
EXTENDS Integers, Sequences

CONSTANTS
  Slugs,    \* what a slug column may hold
  Cols,     \* the updatable columns
  Vals,     \* what a column may hold
  None,     \* no id, no slug: the nil of a *int64 or a *string
  MaxId     \* bound: the identity column stops here

ASSUME TableAssumption == MaxId \in Nat /\ None \notin Nat /\ None \notin Slugs

VARIABLES
  rows,     \* the rows of the table
  nextId    \* the sequence behind the identity column

tableVars == <<rows, nextId>>

Data == [Cols -> Vals]
Port == [slug : Slugs, data : Data]
Row  == [id : Nat \ {0}, slug : Slugs, data : Data]

TableInit == rows = {} /\ nextId = 1

\* A mutant: id and slug together are the key and what ON CONFLICT names.  A row
\* that is added brings an id of its own, so no slug conflicts with another.
ConflictsWithId(s, t) == FALSE

\* slug is the key, beside the id, and what the ON CONFLICT clause names.
Conflicts(s, t) == s = t

Taken(slug) == \E r \in rows : Conflicts(r.slug, slug)

\* The id of the row an INSERT .. ON CONFLICT (slug) leaves behind.
IdFor(slug, fresh) ==
  IF Taken(slug) THEN (CHOOSE r \in rows : Conflicts(r.slug, slug)).id ELSE fresh

\* A statement may not meet the same conflicting row twice.
Distinct(ps) == \A i, j \in DOMAIN ps : Conflicts(ps[i].slug, ps[j].slug) => i = j

\* The identity sequence advances by one for each port, inserted or not.
BulkUpsert(ps) ==
  /\ Distinct(ps)
  /\ nextId + Len(ps) <= MaxId + 1
  /\ rows' = {r \in rows : \A i \in DOMAIN ps : ~Conflicts(ps[i].slug, r.slug)}
               \cup {[id |-> IdFor(ps[i].slug, nextId + i - 1),
                      slug |-> ps[i].slug, data |-> ps[i].data] : i \in DOMAIN ps}
  /\ nextId' = nextId + Len(ps)

Upsert(p) == BulkUpsert(<<p>>)

\* A mutant: the id of a deleted row is given again.
StoreReusingIds(p) ==
  /\ ~Taken(p.slug)
  /\ nextId <= MaxId
  /\ LET free == {n \in 1 .. nextId : \A r \in rows : r.id # n}
         least == CHOOSE n \in free : \A m \in free : n <= m
     IN rows' = rows \cup {[id |-> least, slug |-> p.slug, data |-> p.data]}
  /\ nextId' = nextId + 1

Store(p) ==
  /\ ~Taken(p.slug)
  /\ nextId <= MaxId
  /\ rows' = rows \cup {[id |-> nextId, slug |-> p.slug, data |-> p.data]}
  /\ nextId' = nextId + 1

\* An INSERT that fails has drawn some of its ids by then.
FailedInsert(ps) ==
  /\ nextId' \in nextId .. nextId + Len(ps) /\ nextId' <= MaxId + 1
  /\ UNCHANGED rows

\* Fetch looks at the slug alone when there is one.
Fetched(id, slug) ==
  IF slug # None THEN {r \in rows : r.slug = slug} ELSE {r \in rows : r.id = id}

\* A mutant: gorm's fallback INSERT succeeds (no "generated always").
SaveOrInsert(p) ==
  /\ ~\E r \in rows : Conflicts(r.slug, p.slug) /\ r.id # p.id
  /\ rows' = {r \in rows : r.id # p.id} \cup {p}
  /\ UNCHANGED nextId

\* Save updates every column of the row with p's id.  When there is none gorm
\* inserts p with its id, which "generated always as identity" refuses.
Save(p) ==
  /\ \E r \in rows : r.id = p.id
  /\ ~\E r \in rows : Conflicts(r.slug, p.slug) /\ r.id # p.id
  /\ rows' = {r \in rows : r.id # p.id} \cup {p}
  /\ UNCHANGED nextId

\* A mutant: the two conditions are joined with OR.
DeleteEither(id, slug) ==
  /\ id # None \/ slug # None
  /\ rows' = {r \in rows : /\ id # None => r.id # id
                           /\ slug # None => r.slug # slug}
  /\ UNCHANGED nextId

Delete(id, slug) ==
  /\ id # None \/ slug # None
  /\ rows' = {r \in rows : \/ id # None /\ r.id # id
                           \/ slug # None /\ r.slug # slug}
  /\ UNCHANGED nextId
=============================================================================
