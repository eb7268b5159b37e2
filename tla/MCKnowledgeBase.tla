-------------------------- MODULE MCKnowledgeBase --------------------------
(* Small instances of KnowledgeBase for TLC. *)
EXTENDS KnowledgeBase, TLC

(* Requests, workers, document calls, documents, knowledge bases and builds are alike. *)
Symmetric ==
  Permutations(Requests) \cup Permutations(Workers) \cup Permutations(Calls)
    \cup Permutations(Docs) \cup Permutations(Builds) \cup Permutations(KBs)

(* What builds go through, without the requests that only read them: which *)
(* of them is served (enabled, active) is nothing that a build, a worker   *)
(* or a Delete looks at.                                                   *)
BuildsNext ==
  \/ DocumentStep
  \/ \E k \in KBs : Create(k)
  \/ \E k \in KBs, d \in Docs : AddDocument(k, d) \/ RemoveDocument(k, d)
  \/ \E r \in Requests :
       RequestFinishes(r) \/ \E k \in KBs : BuildStart(r, k) \/ DeleteList(r, k)
  \/ \E w \in Workers : WorkerStep(w)

FairBuilds == Init /\ [][BuildsNext]_vars /\ Fairness
=============================================================================
