------------------------- MODULE MCSearchReferences -------------------------
(* SearchReferences, and DocumentStore with it, on small instances.         *)
EXTENDS SearchReferences, TLC

(* Requests are alike; documents are not, one of them cannot be read. *)
Symmetric == Permutations(Calls)
=============================================================================
