------------------------------- MODULE MCHermes -------------------------------
(* An agent with two sessions and two databases, a turn, two calls of the
   memory tool. *)
EXTENDS Hermes, TLC

CONSTANTS home, other, a, b, x, y, t1, c1, c2

AlikeSessions == Permutations({a, b})

(* The provider and the memory tool share the rows only: a behaviour has
   either life-cycle calls and turns or register and calls of the tool. *)
OneOfBoth ==
    \/ mode = "unregistered"
    \/ /\ moves = 0
       /\ \A t \in Turns : turn[t].at = "idle"
       /\ \A thread \in Threads : ~ Opens(thread)
=============================================================================
