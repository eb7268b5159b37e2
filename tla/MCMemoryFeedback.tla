-------------------------- MODULE MCMemoryFeedback --------------------------
(* MemoryFeedback with interchangeable reviewers, requests and banks.       *)
EXTENDS MemoryFeedback, TLC

Symmetric ==
  Permutations(Reviewers) \cup Permutations(Requests) \cup Permutations(Banks)
=============================================================================
