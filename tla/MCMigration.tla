----------------------------- MODULE MCMigration -----------------------------
(* Up to three v2 memories of two contents, two runs, two writes. *)
EXTENDS Migration

CONSTANTS a, b

MCKeys == {a, b}
MCChunks == [k \in MCKeys |-> 1]
MCPieces == [body \in Bodies |-> IF body = "v2" THEN 2 ELSE 1]

V2Row(k, deleted, n) == [key |-> k, deleted |-> deleted, chunks |-> n]

(* Live and deleted rows of one content in every order, with one chunk or
   two, and a row of another content behind them. *)
Pairs ==
    {<<V2Row(a, d, m), V2Row(a, e, n)>> : d, e \in BOOLEAN, m, n \in {1, 2}}

MCSources == {<<>>} \cup Pairs \cup {Append(p, V2Row(b, FALSE, 2)) : p \in Pairs}

=============================================================================
