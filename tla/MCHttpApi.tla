------------------------------ MODULE MCHttpApi ------------------------------
(* HttpApi on a small instance.                                             *)
EXTENDS HttpApi, TLC

Symmetric == Permutations(Requests) \cup Permutations(Builds)
=============================================================================
