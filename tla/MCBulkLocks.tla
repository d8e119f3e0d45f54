----------------------------- MODULE MCBulkLocks -----------------------------
(* Chunks that overlap in two slugs, and one that does not.                   *)
EXTENDS BulkLocks

MCChunks == {[s \in {"A", "B"} |-> 0], [s \in {"A", "B"} |-> 1], [s \in {"B", "C"} |-> 1]}
OneChunk == {[s \in {"A", "B", "C"} |-> 0]}
=============================================================================
