----------------------------- MODULE MCWikiStore -----------------------------
(* Two pages, a body of two chunks that matches and one of one that does not;
   one of the searches is of a limit that two pages exceed. *)
EXTENDS WikiStore, TLC

CONSTANTS long, short, s1, s2, s3

MCBodies == {long, short}
MCSessions == {s1, s2, s3}
MCLimit == (s1 :> 1) @@ (s2 :> 2) @@ (s3 :> 2)
MCPieces == (long :> 2) @@ (short :> 1)
=============================================================================
