---------------------------- MODULE MCMemoryStore ----------------------------
(* A short memory and one of two chunks, four calls, and three ids: more
   than a statement of a search returns. *)
EXTENDS MemoryStore, TLC

CONSTANTS short, long

MCKeys == {short, long}
MCChunks == (short :> 1) @@ (long :> 2)
MCShort == {short}
MCMatching == {long}

Symmetry == Permutations(Sessions)
=============================================================================
