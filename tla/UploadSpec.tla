----------------------------- MODULE UploadSpec -----------------------------
(***************************************************************************)
(* What an upload promises to the client and to the table, without its     *)
(* goroutines, channels, pipe and buffers: bulk calls made one at a time,  *)
(* each with the members of the file that follow those stored so far, and  *)
(* one answer.  Upload implements it.                                      *)
(***************************************************************************)
EXTENDS Integers, Sequences, FiniteSets

CONSTANTS Slugs, StorableSlugs, ChunkSize

VARIABLES
  file,     \* the uploaded file, as in Upload
  table,    \* slug -> the member whose port is stored, 0: none
  stored,   \* the members up to here are stored
  call,     \* "none", or "open" while a bulk call may still be carried out
  tainted,  \* something failed: the answer will not be a 200
  status    \* "running", "ok", "err"

vars == <<file, table, stored, call, tainted, status>>

Size == Len(file.pieces)
Kind(i) == file.pieces[i].kind
Members(lo, hi, s) ==
  {j \in lo + 1 .. hi : Kind(j) \in {"port", "misfit"} /\ file.pieces[j].slug = s}
Keys(lo, hi) == {s \in Slugs : Members(lo, hi, s) # {}}

\* The last member with key s among the pieces lo+1 .. hi, 0 if there is none.
Last(lo, hi, s) ==
  LET ms == Members(lo, hi, s)
  IN IF ms = {} THEN 0 ELSE CHOOSE j \in ms : \A k \in ms : k <= j

Init ==
  /\ table = [s \in Slugs |-> 0] /\ stored = 0
  /\ call = "none" /\ tainted = FALSE /\ status = "running"

\* A bulk call starts; a chunk with a misfit is sent in part and taints.
Open ==
  /\ status = "running" /\ call = "none" /\ ~tainted
  /\ call' = "open" /\ tainted' \in BOOLEAN
  /\ UNCHANGED <<file, table, stored, status>>

\* The whole next chunk is stored, ChunkSize keys of the file in its order.
StoreChunk ==
  /\ call = "open"
  /\ \E hi \in stored + 1 .. Size :
       /\ Cardinality(Keys(stored, hi)) = ChunkSize
       /\ Keys(stored, hi) \subseteq StorableSlugs
       /\ \A s \in Keys(stored, hi) : Kind(Last(stored, hi, s)) = "port"
       /\ table' = [s \in Slugs |->
                      IF s \in Keys(stored, hi) THEN Last(stored, hi, s) ELSE table[s]]
       /\ stored' = hi
  /\ call' = "none"
  /\ UNCHANGED <<file, tainted, status>>

\* Some ports of the next chunk are stored, and the upload will report it.
StorePart ==
  /\ call = "open" /\ tainted
  /\ table' \in [Slugs -> 0 .. Size]
  /\ \A s \in Slugs :
       \/ table'[s] = table[s]
       \/ /\ s \in StorableSlugs
          /\ table'[s] \in Members(stored, Size, s) /\ Kind(table'[s]) = "port"
  /\ call' = "none"
  /\ UNCHANGED <<file, stored, tainted, status>>

\* The call is refused, or is never carried out.
Drop ==
  /\ call = "open"
  /\ call' = "none" /\ tainted' = TRUE
  /\ UNCHANGED <<file, table, stored, status>>

\* 200: nothing failed, no call is open, and less than a chunk of keys is left
\* before the closing brace or the end of the file.
AnswerOk ==
  /\ status = "running" /\ call = "none" /\ ~tainted
  /\ \E end \in stored .. Size :
       /\ end = Size \/ Kind(end + 1) = "close"
       /\ \A i \in 1 .. end : Kind(i) \notin {"broken", "cut"}
       /\ Cardinality(Keys(stored, end)) < ChunkSize
  /\ status' = "ok"
  /\ UNCHANGED <<file, table, stored, call, tainted>>

\* 500; a call that is open then may still be carried out.
AnswerErr ==
  /\ status = "running"
  /\ status' = "err" /\ tainted' = TRUE
  /\ UNCHANGED <<file, table, stored, call>>

Next == Open \/ StoreChunk \/ StorePart \/ Drop \/ AnswerOk \/ AnswerErr

Spec == Init /\ [][Next]_vars
=============================================================================
