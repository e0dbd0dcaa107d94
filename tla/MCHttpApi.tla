------------------------------ MODULE MCHttpApi ------------------------------
(* The requests of one client, to any path. *)
EXTENDS HttpApi

CONSTANT c1
=============================================================================
