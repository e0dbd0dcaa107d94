--------------------------- MODULE MCMaintenance ---------------------------
(* A long memory that was migrated, another that a migration commits later,
   and one that is remembered; a repair beside two other calls.  The tags of
   the one that is remembered look clean, or those of the migrated one do and
   it still has no vector. *)
EXTENDS Maintenance, TLC

CONSTANTS c1, c2, c3

MCPieces == <<2, 0, 1>>
MCNeats == {{1}, {3}}
MCZero == {<<"chunk", 1, 2>>}
MCTools == c1 :> {"repair"} @@ c2 :> {"repair", "maintain"} @@ c3 :> {"maintain", "remember"}
MCNewId == [c \in Calls |-> 3]
=============================================================================
