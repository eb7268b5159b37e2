------------------------ MODULE MemoryFeedbackProofs ------------------------
(***************************************************************************)
(* Proofs about MemoryFeedback, for any number of reviewers, texts, banks  *)
(* and requests, and with or without failing calls.                        *)
(***************************************************************************)
EXTENDS MemoryFeedback, FiniteSetTheorems, TLAPS

LEMMA NobodyApproves == \A t \in Texts : ~(Approvals(NoVotes, t) >= 2)
<1> SUFFICES ASSUME NEW t \in Texts PROVE ~(Approvals(NoVotes, t) >= 2)
  OBVIOUS
<1>1. {v \in Reviewers : NoVotes[v][t] = "approve"} = {}
  BY DEF NoVotes
<1>2. Approvals(NoVotes, t) = 0
  BY <1>1, FS_EmptySet DEF Approvals
<1> QED
  BY <1>2

LEMMA InitIInv == Init => IInv
<1> SUFFICES ASSUME Init PROVE IInv
  OBVIOUS
<1>1. TypeOK
  BY TextsAssumption, NoBankAssumption DEF Init, NoVotes, TypeOK, Idle, PCs
<1>2. \A t \in Texts : ~(Approvals(votes, t) >= 2)
  BY NobodyApproves DEF Init
<1> QED
  BY <1>1, <1>2, TextsAssumption
  DEF Init, IInv, RequestsInStep, AgreedRemembers, OnlyConsensusIsApplied,
      RecordedMeansCurated, ConsensusIsHeld, FeedbackDiesWithKB, Idle, At

(* All but what becomes of a consensus. *)
Kept ==
  /\ TypeOK /\ RequestsInStep /\ AgreedRemembers
  /\ OnlyConsensusIsApplied /\ RecordedMeansCurated /\ FeedbackDiesWithKB

(* A vote is the only step that can make or unmake a consensus. *)
LEMMA VoteKept ==
  ASSUME Kept, NEW r \in Requests, NEW v \in Reviewers, NEW t \in Texts,
         NEW vote \in {"approve", "reject"}, Vote(r, v, t, vote)
  PROVE  Kept'
<1> USE DEF Kept, TypeOK, RequestsInStep, AgreedRemembers, OnlyConsensusIsApplied,
        RecordedMeansCurated, Idle, PCs, At
<1>1. TypeOK'
  BY NoBankAssumption DEF Vote
<1>2. agreed \subseteq agreed'
  BY DEF Vote
<1>3. RequestsInStep'
  BY <1>2 DEF Vote
<1>4. AgreedRemembers'
  <2> SUFFICES ASSUME NEW u \in Texts, Approvals(votes', u) >= 2 PROVE u \in agreed'
    OBVIOUS
  <2>1. CASE u = t
    BY <2>1 DEF Vote
  <2>2. CASE u # t
    <3>1. {w \in Reviewers : votes'[w][u] = "approve"} = {w \in Reviewers : votes[w][u] = "approve"}
      BY <2>2 DEF Vote
    <3>2. Approvals(votes', u) = Approvals(votes, u)
      BY <3>1 DEF Approvals
    <3> QED
      BY <3>2, <1>2
  <2> QED
    BY <2>1, <2>2
<1>5. OnlyConsensusIsApplied' /\ RecordedMeansCurated' /\ FeedbackDiesWithKB'
  BY <1>2 DEF Vote, FeedbackDiesWithKB
<1> QED
  BY <1>1, <1>3, <1>4, <1>5

LEMMA NextKept == Kept /\ [Next]_vars => Kept'
<1> SUFFICES ASSUME Kept, [Next]_vars PROVE Kept'
  OBVIOUS
<1>1. ASSUME NEW r \in Requests, FeedbackStep(r) PROVE Kept'
  <2>1. ASSUME NEW v \in Reviewers, NEW t \in Texts, Vote(r, v, t, "approve") \/ Vote(r, v, t, "reject")
        PROVE  Kept'
    BY <2>1, VoteKept
  <2> USE NoBankAssumption, TextsAssumption
          DEF Kept, TypeOK, RequestsInStep, AgreedRemembers, OnlyConsensusIsApplied,
              RecordedMeansCurated, FeedbackDiesWithKB, Idle, PCs, At, Goto, Return
  <2>2. CASE Count(r)
    BY <2>2 DEF Count
  <2>3. CASE Resolve(r)
    <3>1. TypeOK'
      <4>1. CASE active = NoBank
        BY <2>3, <4>1 DEF Resolve
      <4>2. CASE active # NoBank
        BY <2>3, <4>2 DEF Resolve
      <4> QED
        BY <4>1, <4>2
    <3>2. RequestsInStep'
      BY <2>3 DEF Resolve
    <3>3. AgreedRemembers' /\ OnlyConsensusIsApplied' /\ RecordedMeansCurated' /\ FeedbackDiesWithKB'
      BY <2>3 DEF Resolve
    <3> QED
      BY <3>1, <3>2, <3>3
  <2>4. CASE Curate(r)
    BY <2>4 DEF Curate
  <2>5. CASE MarkConsensusApplied(r)
    BY <2>5 DEF MarkConsensusApplied
  <2> QED
    BY <1>1, <2>1, <2>2, <2>3, <2>4, <2>5 DEF FeedbackStep
<1> USE NoBankAssumption, TextsAssumption
        DEF Kept, TypeOK, RequestsInStep, AgreedRemembers, OnlyConsensusIsApplied,
            RecordedMeansCurated, FeedbackDiesWithKB, Idle, PCs, At, Goto, Return
<1>2. ASSUME NEW r \in Requests, MemoryStep(r) PROVE Kept'
  <2>1. ASSUME NEW t \in Texts, PatchResolve(r, t) PROVE Kept'
    <3>1. TypeOK'
      BY <2>1 DEF PatchResolve
    <3>2. RequestsInStep'
      BY <2>1 DEF PatchResolve
    <3>3. AgreedRemembers' /\ OnlyConsensusIsApplied' /\ RecordedMeansCurated' /\ FeedbackDiesWithKB'
      BY <2>1 DEF PatchResolve
    <3> QED
      BY <3>1, <3>2, <3>3
  <2>2. CASE CurateMemory(r)
    BY <2>2 DEF CurateMemory
  <2>3. CASE RetainResolve(r)
    <3>1. TypeOK'
      BY <2>3 DEF RetainResolve
    <3>2. RequestsInStep'
      BY <2>3 DEF RetainResolve
    <3>3. AgreedRemembers' /\ OnlyConsensusIsApplied' /\ RecordedMeansCurated' /\ FeedbackDiesWithKB'
      BY <2>3 DEF RetainResolve
    <3> QED
      BY <3>1, <3>2, <3>3
  <2>4. ASSUME NEW e \in Experiences, RetainExperience(r, e) PROVE Kept'
    BY <2>4 DEF RetainExperience
  <2> QED
    BY <1>2, <2>1, <2>2, <2>3, <2>4 DEF MemoryStep
<1>3. ASSUME NEW r \in Requests, Fail(r) PROVE Kept'
  BY <1>3 DEF Fail
<1>4. ASSUME NEW b \in Banks \cup {NoBank}, Switch(b) PROVE Kept'
  BY <1>4 DEF Switch
<1>5. ASSUME NEW b \in Banks, DropBank(b) PROVE Kept'
  BY <1>5 DEF DropBank
<1>6. CASE DeleteRow
  <2>1. TypeOK' /\ FeedbackDiesWithKB'
    BY <1>6 DEF DeleteRow, NoVotes
  <2>2. AgreedRemembers'
    BY <1>6, NobodyApproves DEF DeleteRow
  <2>3. RequestsInStep' /\ OnlyConsensusIsApplied' /\ RecordedMeansCurated'
    BY <1>6 DEF DeleteRow
  <2> QED
    BY <2>1, <2>2, <2>3
<1>7. CASE UNCHANGED vars
  BY <1>7 DEF vars
<1> QED
  BY <1>1, <1>2, <1>3, <1>4, <1>5, <1>6, <1>7 DEF Next

(* A consensus that is new has the request of its last vote behind it, and  *)
(* that request carries it until it is applied or missed.                  *)
LEMMA VoteHeld ==
  ASSUME IInv, NEW r \in Requests, NEW v \in Reviewers, NEW t \in Texts,
         NEW vote \in {"approve", "reject"}, Vote(r, v, t, vote)
  PROVE  ConsensusIsHeld'
<1> SUFFICES ASSUME NEW u \in Texts \ {NoText}, Approvals(votes', u) >= 2,
                    u \notin applied \cup missed
             PROVE  \E q \in Requests : Carries(q, u)'
  BY DEF ConsensusIsHeld, Vote, Carries, At, Approvals
<1>1. CASE u = t /\ vote = "approve"
  <2>1. Carries(r, u)'
    BY <1>1 DEF Vote, Carries, At, Idle, IInv, TypeOK
  <2> QED
    BY <2>1
<1>2. CASE ~(u = t /\ vote = "approve")
  <2>1. {w \in Reviewers : votes'[w][u] = "approve"} \subseteq {w \in Reviewers : votes[w][u] = "approve"}
    BY <1>2 DEF Vote, IInv, TypeOK
  <2>2. IsFiniteSet({w \in Reviewers : votes[w][u] = "approve"})
    BY ReviewersAssumption, FS_Subset
  <2>3. /\ Approvals(votes', u) \in Nat /\ Approvals(votes, u) \in Nat
        /\ Approvals(votes', u) <= Approvals(votes, u)
    BY <2>1, <2>2, FS_Subset, FS_CardinalityType DEF Approvals
  <2>4. PICK q \in Requests : Carries(q, u)
    BY <2>3 DEF IInv, ConsensusIsHeld
  <2>5. Carries(q, u)'
    BY <2>4 DEF Vote, Carries, At, IInv, TypeOK
  <2> QED
    BY <2>5
<1> QED
  BY <1>1, <1>2

(* The other steps: who carried a text carries it on, or it is applied or  *)
(* missed.                                                                 *)
LEMMA OtherHeld ==
  ASSUME IInv, votes' = votes, applied \subseteq applied', missed \subseteq missed',
         \A t \in Texts \ {NoText} : \A q \in Requests :
           (Approvals(votes, t) >= 2 /\ Carries(q, t)) => t \in (applied \cup missed)' \/ Carries(q, t)'
  PROVE  ConsensusIsHeld'
BY DEF IInv, ConsensusIsHeld, Approvals

LEMMA NextHeld == IInv /\ [Next]_vars => ConsensusIsHeld'
<1> SUFFICES ASSUME IInv, [Next]_vars PROVE ConsensusIsHeld'
  OBVIOUS
<1>1. ASSUME NEW r \in Requests, NEW v \in Reviewers, NEW t \in Texts,
             Vote(r, v, t, "approve") \/ Vote(r, v, t, "reject")
      PROVE  ConsensusIsHeld'
  BY <1>1, VoteHeld
<1> USE DEF Carries, At, Goto, Return, Idle, IInv, TypeOK
<1>2. ASSUME NEW r \in Requests, Count(r) PROVE ConsensusIsHeld'
  BY <1>2, OtherHeld DEF Count
<1>3. ASSUME NEW r \in Requests, Resolve(r) PROVE ConsensusIsHeld'
  BY <1>3, OtherHeld DEF Resolve
<1>4. ASSUME NEW r \in Requests, Curate(r) \/ MarkConsensusApplied(r) PROVE ConsensusIsHeld'
  BY <1>4, OtherHeld DEF Curate, MarkConsensusApplied
<1>5. ASSUME NEW r \in Requests, MemoryStep(r) PROVE ConsensusIsHeld'
  BY <1>5, OtherHeld DEF MemoryStep, PatchResolve, CurateMemory, RetainResolve, RetainExperience
<1>6. ASSUME NEW r \in Requests, Fail(r) PROVE ConsensusIsHeld'
  BY <1>6, OtherHeld DEF Fail, RequestsInStep
<1>7. ASSUME NEW b \in Banks \cup {NoBank}, Switch(b) PROVE ConsensusIsHeld'
  BY <1>7, OtherHeld DEF Switch
<1>8. ASSUME NEW b \in Banks, DropBank(b) PROVE ConsensusIsHeld'
  BY <1>8, OtherHeld DEF DropBank
<1>9. CASE DeleteRow
  BY <1>9, NobodyApproves DEF DeleteRow, ConsensusIsHeld
<1>10. CASE UNCHANGED vars
  BY <1>10, OtherHeld DEF vars
<1> QED
  BY <1>1, <1>2, <1>3, <1>4, <1>5, <1>6, <1>7, <1>8, <1>9, <1>10 DEF Next, FeedbackStep

(* The invariant of the feedback requests holds in every reachable state.  *)
THEOREM FeedbackInvariance == Spec => []IInv
<1>1. IInv /\ [Next]_vars => IInv'
  BY NextKept, NextHeld DEF IInv, Kept
<1> QED BY InitIInv, <1>1, PTL DEF Spec

(* No text reaches a bank through feedback, or is recorded as applied,     *)
(* that two reviewers did not approve at the same time.                    *)
THEOREM ConsensusComesFirst == Spec => []OnlyConsensusIsApplied
<1>1. IInv => OnlyConsensusIsApplied
  BY DEF IInv
<1> QED BY <1>1, FeedbackInvariance, PTL

(* No correction is recorded as applied and lost, whatever call fails.     *)
THEOREM RecordedIsCurated == Spec => []RecordedMeansCurated
<1>1. IInv => RecordedMeansCurated
  BY DEF IInv
<1> QED BY <1>1, FeedbackInvariance, PTL

(* When all is quiet, a text with two approvals has been applied, or an    *)
(* error ended the request that should have applied it.                    *)
THEOREM NoConsensusIsMissed == Spec => []QuietConsensusIsApplied
<1>1. IInv => QuietConsensusIsApplied
  BY DEF IInv, ConsensusIsHeld, QuietConsensusIsApplied, Carries, At
<1> QED BY <1>1, FeedbackInvariance, PTL

(* Delete takes all feedback with it, whatever requests are under way.     *)
THEOREM NoFeedbackIsOrphaned == Spec => []FeedbackDiesWithKB
<1>1. IInv => FeedbackDiesWithKB
  BY DEF IInv
<1> QED BY <1>1, FeedbackInvariance, PTL
=============================================================================
