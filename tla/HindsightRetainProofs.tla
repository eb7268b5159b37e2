----------------------- MODULE HindsightRetainProofs -----------------------
(***************************************************************************)
(* Proofs about HindsightRetain, for uploads and banks of any size that    *)
(* fits one page of the list of operations.                                *)
(***************************************************************************)
EXTENDS HindsightRetain, SequenceTheorems, FiniteSetTheorems, TLAPS

(* A list that fits a page is returned whole. *)
LEMMA OnePage ==
  ASSUME Len(ops) \in Nat, DOMAIN ops = 1..Len(ops), Len(ops) <= PageLimit,
         NEW page \in Pages
  PROVE  page = Listed
<1>1. IsFiniteSet(DOMAIN ops) /\ Cardinality(DOMAIN ops) = Len(ops)
  <2>1. IsFiniteSet(1..Len(ops)) /\ Cardinality(1..Len(ops)) = IF 1 > Len(ops) THEN 0 ELSE Len(ops) - 1 + 1
    BY FS_Interval
  <2> QED
    BY <2>1
<1>2. Listed \subseteq DOMAIN ops
  BY DEF Listed
<1>3. IsFiniteSet(Listed) /\ Cardinality(Listed) <= Len(ops)
  BY <1>1, <1>2, FS_Subset
<1>4. Cardinality(Listed) \in Nat
  BY <1>3, FS_CardinalityType
<1>5. page \subseteq Listed /\ Cardinality(page) = Cardinality(Listed)
  BY <1>3, <1>4, BoundsAssumption DEF Pages
<1> QED
  BY <1>3, <1>5, FS_Subset

LEMMA InitIInv == Init => IInv
<1> SUFFICES ASSUME Init PROVE IInv
  OBVIOUS
<1>1. ops = <<>> /\ ops \in Seq(OpStatuses) /\ Len(ops) = 0 /\ DOMAIN ops = {}
  BY EmptySeq DEF Init
<1>2. TypeOK
  <2>1. ops \in Seq(OpStatuses) /\ Len(ops) <= MaxOps
    BY <1>1, BoundsAssumption
  <2>2. ids \in 0..MaxFiles /\ awaiting \in 1..MaxFiles + 1 /\ streak \in 0..2
    BY BoundsAssumption DEF Init
  <2>3. pc \in PCs /\ old \in SUBSET (1..MaxOps) /\ dropped \in BOOLEAN
    BY DEF Init, PCs
  <2> QED
    BY <2>1, <2>2, <2>3 DEF TypeOK
<1>3. UploadAwaited
  BY <1>1 DEF Init, UploadAwaited
<1> QED
  BY <1>2, <1>3 DEF Init, IInv, IdleReadsLast, RetainMeansLanded

(* What completes is followed by its children, at the end and due. *)
Children(i) == 0..(IF i <= ids THEN MaxOps - Len(ops) ELSE 0)

Appends(i, children) ==
  /\ Len(ops') = Len(ops) + children
  /\ ops' \in Seq(OpStatuses)
  /\ \A j \in 1..Len(ops') :
       ops'[j] = IF j <= Len(ops) THEN (IF j = i THEN "completed" ELSE ops[j]) ELSE "due"

LEMMA CompleteAppends ==
  ASSUME TypeOK, NEW i \in 1..MaxOps, Complete(i)
  PROVE  \E children \in Children(i) : Appends(i, children)
<1>1. PICK children \in Children(i) :
        ops' = [ops EXCEPT ![i] = "completed"] \o [c \in 1..children |-> "due"]
  BY DEF Complete, Children
<1> DEFINE head == [ops EXCEPT ![i] = "completed"]
           tail == [c \in 1..children |-> "due"]
<1>2. /\ head \in Seq(OpStatuses) /\ Len(head) = Len(ops)
      /\ \A j \in 1..Len(ops) : head[j] = IF j = i THEN "completed" ELSE ops[j]
  <2>1. "completed" \in OpStatuses /\ i \in 1..Len(ops) /\ ops \in Seq(OpStatuses)
    BY DEF Complete, InFlight, TypeOK, OpStatuses
  <2> QED
    BY <2>1, ExceptSeq
<1>3. children \in Nat
  BY <1>1, BoundsAssumption DEF TypeOK, Children
<1>4. tail \in Seq(OpStatuses) /\ Len(tail) = children
  BY <1>3 DEF OpStatuses
<1>5. ops' = head \o tail
  BY <1>1
<1>6. Len(ops) \in Nat
  BY DEF TypeOK
<1>7. \A j \in 1..Len(ops) + children : j > Len(ops) => tail[j - Len(ops)] = "due"
  BY <1>3, <1>6
<1> HIDE DEF head, tail
<1>8. /\ head \o tail \in Seq(OpStatuses)
      /\ Len(head \o tail) = Len(head) + Len(tail)
      /\ \A j \in 1..Len(head) + Len(tail) :
           (head \o tail)[j] = IF j <= Len(head) THEN head[j] ELSE tail[j - Len(head)]
  BY <1>2, <1>4, ConcatProperties
<1>9. Appends(i, children)
  BY <1>2, <1>3, <1>4, <1>5, <1>6, <1>7, <1>8 DEF Appends
<1> QED
  BY <1>9

(* No child is born once the upload's own operations have completed.       *)
LEMMA LateOpsBearNothing ==
  ASSUME IInv, NEW i \in 1..MaxOps, Complete(i), NEW children \in Children(i),
         pc \in {"pollBank", "sleepBank", "ok"}
  PROVE  children = 0
<1>1. i \in DOMAIN ops /\ ops[i] # "completed"
  BY DEF Complete, InFlight
<1>2. awaiting = ids + 1 /\ ids \in Nat
  BY BoundsAssumption DEF IInv, TypeOK, UploadAwaited
<1>3. ~(i < awaiting)
  BY <1>1 DEF IInv, UploadAwaited
<1>4. ~(i <= ids)
  BY <1>2, <1>3
<1> QED
  BY <1>4 DEF Children

LEMMA HindsightIInv ==
  ASSUME IInv, NEW i \in 1..MaxOps, HindsightStep(i)
  PROVE  IInv'
<1> USE BoundsAssumption DEF IInv, TypeOK, UploadAwaited, IdleReadsLast, RetainMeansLanded,
        PCs, OpStatuses, DueOps, InFlight, Children
<1>1. CASE Enqueue(i)
  BY <1>1 DEF Enqueue
<1>2. CASE Break(i)
  BY <1>2 DEF Break
<1>3. CASE Complete(i)
  <2>1. PICK children \in Children(i) : Appends(i, children)
    BY <1>3, CompleteAppends
  <2>2. /\ Len(ops') = Len(ops) + children
        /\ ops' \in Seq(OpStatuses)
        /\ \A j \in 1..Len(ops') :
             ops'[j] = IF j <= Len(ops) THEN (IF j = i THEN "completed" ELSE ops[j]) ELSE "due"
    BY <2>1 DEF Appends
  <2>3. pc \in {"pollBank", "sleepBank", "ok"} => children = 0
    BY <1>3, <2>1, LateOpsBearNothing
  <2>4. UploadAwaited'
    <3>1. UNCHANGED <<pc, ids, awaiting, streak>> /\ i \in 1..Len(ops) /\ children \in Nat
      BY <1>3, <2>1 DEF Complete
    <3>2. pc # "upload"
      BY <3>1
    <3>3. ids <= Len(ops') /\ Len(ops') \in Nat /\ DOMAIN ops' = 1..Len(ops')
      BY <2>2, <3>1
    <3>4. \A j \in 1..Len(ops') : j < awaiting => j \in 1..Len(ops) /\ ops'[j] = "completed"
      BY <2>2, <3>1, <3>3
    <3> QED
      BY <3>1, <3>2, <3>3, <3>4
  <2>5. IdleReadsLast'
    BY <1>3, <2>1, <2>2, <2>3 DEF Complete
  <2>6. TypeOK'
    BY <1>3, <2>1, <2>2 DEF Complete
  <2>7. RetainMeansLanded'
    BY <1>3, <2>1, <2>2, <2>3 DEF Complete
  <2> QED
    BY <2>4, <2>5, <2>6, <2>7
<1> QED
  BY <1>1, <1>2, <1>3 DEF HindsightStep

LEMMA RetainIInv ==
  ASSUME MaxOps <= PageLimit, IInv, RetainStep
  PROVE  IInv'
<1> USE BoundsAssumption DEF IInv, TypeOK, UploadAwaited, IdleReadsLast, RetainMeansLanded,
        PCs, OpStatuses, DueOps, Return, Sleep
<1>1. ASSUME NEW n \in 1..MaxFiles, Upload(n) PROVE IInv'
  BY <1>1 DEF Upload
<1>2. ASSUME NEW n \in 0..MaxFiles, UploadFails(n) PROVE IInv'
  BY <1>2 DEF UploadFails
<1>3. CASE PollOperation
  BY <1>3 DEF PollOperation
<1>4. CASE PollBank
  <2>1. PICK page \in Pages :
          IF page \cap Unsuccessful # {} THEN UNCHANGED streak /\ Return("error")
          ELSE /\ streak' = IF page \cap InFlight = {} THEN streak + 1 ELSE 0
               /\ IF streak' >= 2 THEN Return("ok") ELSE Sleep("sleepBank")
    BY <1>4 DEF PollBank
  <2>2. page = Listed
    BY OnePage
  <2>3. CASE page \cap Unsuccessful # {}
    BY <1>4, <2>1, <2>3 DEF PollBank
  <2>4. CASE page \cap Unsuccessful = {} /\ streak' >= 2
    <3>1. DueOps = {} /\ streak = 1 /\ page \cap InFlight = {}
      BY <1>4, <2>1, <2>4 DEF PollBank
    <3>2. \A j \in DOMAIN ops : ops[j] = "completed"
      BY <2>2, <2>4, <3>1 DEF Listed, Unsuccessful, InFlight
    <3>3. /\ pc = "pollBank" /\ pc' = "ok" /\ streak' = 2
          /\ UNCHANGED <<ops, ids, awaiting, dropped, old>>
      BY <1>4, <2>1, <2>4, <3>1 DEF PollBank
    <3>4. TypeOK' /\ IdleReadsLast' /\ RetainMeansLanded'
      BY <3>2, <3>3
    <3>5. UploadAwaited'
      BY <3>3
    <3> QED
      BY <3>4, <3>5
  <2>5. CASE page \cap Unsuccessful = {} /\ ~(streak' >= 2)
    BY <1>4, <2>1, <2>5 DEF PollBank
  <2> QED
    BY <2>3, <2>4, <2>5
<1>5. CASE Wake
  BY <1>5 DEF Wake
<1>6. CASE PollFails
  BY <1>6 DEF PollFails
<1> QED
  BY <1>1, <1>2, <1>3, <1>4, <1>5, <1>6 DEF RetainStep

LEMMA NextIInv ==
  ASSUME MaxOps <= PageLimit, IInv, [Next]_vars
  PROVE  IInv'
<1>1. CASE DropBank
  BY <1>1 DEF DropBank, IInv, TypeOK, UploadAwaited, IdleReadsLast, RetainMeansLanded, DueOps
<1>2. CASE UNCHANGED vars
  BY <1>2 DEF vars, IInv, TypeOK, UploadAwaited, IdleReadsLast, RetainMeansLanded, DueOps
<1> QED
  BY <1>1, <1>2, HindsightIInv, RetainIInv DEF Next

(* While the operations of a bank fit one page, the invariant of the       *)
(* polling loops holds in every reachable state.                           *)
THEOREM RetainInvariance == ASSUME MaxOps <= PageLimit PROVE Spec => []IInv
BY InitIInv, NextIInv, PTL DEF Spec

(* When Retain returns nil, the extraction of every file has landed: for   *)
(* any number of files and of children, if they fit one page.              *)
THEOREM Landed == ASSUME MaxOps <= PageLimit PROVE Spec => []RetainMeansLanded
<1>1. IInv => RetainMeansLanded
  BY DEF IInv
<1> QED BY <1>1, RetainInvariance, PTL

-----------------------------------------------------------------------------
(* Refinement: every step is a step of RetainCall, or a stutter. *)

LEMMA InitRefines == Init => Call!Init
<1> SUFFICES ASSUME Init PROVE Call!Init
  OBVIOUS
<1>1. DOMAIN ops = {}
  BY DEF Init
<1> QED
  BY <1>1 DEF Init, Call!Init, CallResult, Returned, ComingOps, CompletedOps, DueOps,
     InFlight, Unsuccessful

(* Operations that are added at the end are new pieces. *)
LEMMA AddedAreNew ==
  ASSUME IInv, NEW m \in Nat, m <= MaxOps
  PROVE  Len(ops) + 1 .. m \in Call!New
<1>1. DOMAIN ops = 1..Len(ops) /\ Len(ops) \in Nat /\ MaxOps \in Nat
  BY BoundsAssumption DEF IInv, TypeOK
<1>2. \A i \in Len(ops) + 1 .. m : i \in 1..MaxOps /\ i \notin DOMAIN ops
  BY <1>1
<1> QED
  BY <1>2 DEF Call!New, ComingOps, CompletedOps, DueOps, InFlight, Unsuccessful

LEMMA UploadRefines ==
  ASSUME IInv, NEW n \in 1..MaxFiles, Upload(n)
  PROVE  Call!Next
<1>1. /\ pc = "upload" /\ pc' = "pollOp" /\ ops = <<>> /\ Len(ops) = 0
      /\ ops' = [i \in 1..n |-> "running"]
  BY DEF Upload, IInv, UploadAwaited
<1>2. 1..n \in Call!New
  BY <1>1, AddedAreNew, BoundsAssumption
<1>3. ComingOps = {} /\ CompletedOps = {} /\ Unsuccessful = {}
  BY <1>1 DEF ComingOps, CompletedOps, DueOps, InFlight, Unsuccessful
<1>4. ComingOps' = 1..n /\ CompletedOps' = {} /\ Unsuccessful' = {}
  BY <1>1 DEF ComingOps, CompletedOps, DueOps, InFlight, Unsuccessful
<1>5. Call!Begin(1..n)
  BY <1>1, <1>3, <1>4 DEF Call!Begin, CallResult, Returned
<1> QED
  BY <1>2, <1>5 DEF Call!Next

LEMMA UploadFailsRefines ==
  ASSUME IInv, NEW n \in 0..MaxFiles, UploadFails(n)
  PROVE  Call!Next
<1>1. /\ pc = "upload" /\ pc' = "error" /\ ops = <<>> /\ Len(ops) = 0
      /\ ops' = [i \in 1..n |-> "running"]
  BY DEF UploadFails, Return, IInv, UploadAwaited
<1>2. 1..n \in Call!New
  BY <1>1, AddedAreNew, BoundsAssumption
<1>3. ComingOps = {} /\ CompletedOps = {} /\ Unsuccessful = {}
  BY <1>1 DEF ComingOps, CompletedOps, DueOps, InFlight, Unsuccessful
<1>4. ComingOps' = 1..n /\ CompletedOps' = {} /\ Unsuccessful' = {}
  BY <1>1 DEF ComingOps, CompletedOps, DueOps, InFlight, Unsuccessful
<1>5. Call!GiveUp(1..n)
  BY <1>1, <1>3, <1>4 DEF Call!GiveUp, CallResult, Returned
<1> QED
  BY <1>2, <1>5 DEF Call!Next

(* Hindsight goes on only while the call has not succeeded. *)
LEMMA HindsightRefines ==
  ASSUME IInv, NEW i \in 1..MaxOps, HindsightStep(i)
  PROVE  Call!Next \/ UNCHANGED Call!callVars
<1>1. DOMAIN ops = 1..Len(ops) /\ Len(ops) \in Nat /\ ops \in Seq(OpStatuses)
  BY DEF IInv, TypeOK
<1>2. CallResult' = CallResult
  BY DEF HindsightStep, Enqueue, Complete, Break, CallResult, Returned
<1>3. CASE Enqueue(i)
  <2>1. /\ ops[i] = "due" /\ i \in DOMAIN ops /\ DOMAIN ops' = DOMAIN ops
        /\ ops'[i] = "running" /\ \A j \in DOMAIN ops \ {i} : ops'[j] = ops[j]
    BY <1>1, <1>3 DEF Enqueue, DueOps
  <2>2. ComingOps' = ComingOps /\ CompletedOps' = CompletedOps /\ Unsuccessful' = Unsuccessful
    BY <2>1 DEF ComingOps, CompletedOps, DueOps, InFlight, Unsuccessful
  <2> QED
    BY <1>2, <2>2 DEF Call!callVars
<1>4. ASSUME Complete(i) \/ Break(i) PROVE CallResult # "ok" /\ i \in ComingOps
  <2>1. i \in DOMAIN ops /\ ops[i] = "running"
    BY <1>4 DEF Complete, Break, InFlight
  <2>2. pc # "ok"
    BY <2>1 DEF IInv, RetainMeansLanded
  <2> QED
    BY <2>1, <2>2 DEF CallResult, Returned, ComingOps, InFlight
<1>5. CASE Break(i)
  <2>1. /\ ops[i] = "running" /\ i \in DOMAIN ops /\ DOMAIN ops' = DOMAIN ops
        /\ ops'[i] \in {"failed", "cancelled"} /\ \A j \in DOMAIN ops \ {i} : ops'[j] = ops[j]
    BY <1>1, <1>5 DEF Break, InFlight
  <2>2. /\ ComingOps' = ComingOps \ {i} /\ Unsuccessful' = Unsuccessful \cup {i}
        /\ CompletedOps' = CompletedOps
    BY <2>1 DEF ComingOps, CompletedOps, DueOps, InFlight, Unsuccessful
  <2>3. Call!Lose(i)
    BY <1>2, <1>4, <1>5, <2>2 DEF Call!Lose
  <2> QED
    BY <1>4, <1>5, <2>3 DEF Call!Next
<1>6. CASE Complete(i)
  <2>1. PICK children \in Children(i) : Appends(i, children)
    BY <1>6, CompleteAppends DEF IInv
  <2> DEFINE m == Len(ops) + children
             new == Len(ops) + 1 .. m
  <2>2. i \in DOMAIN ops /\ ops[i] = "running"
    BY <1>6 DEF Complete, InFlight
  <2>3. m \in Nat /\ m <= MaxOps /\ children \in Nat
    BY <1>1, <2>1, BoundsAssumption DEF IInv, TypeOK, Children
  <2>4. DOMAIN ops' = 1..m /\
        \A j \in 1..m :
          ops'[j] = IF j <= Len(ops) THEN (IF j = i THEN "completed" ELSE ops[j]) ELSE "due"
    BY <2>1, <2>3 DEF Appends
  <2>5. new \in Call!New
    BY <2>3, AddedAreNew
  <2>6. \A j \in 1..m : j \in new <=> j > Len(ops)
    BY <1>1, <2>3
  <2> HIDE DEF new
  <2>7. new \subseteq 1..m /\ DOMAIN ops \subseteq 1..m
    BY <1>1, <2>3 DEF new
  <2>8. \A j \in 1..m : j \in DOMAIN ops <=> j <= Len(ops)
    BY <1>1, <2>3
  <2> HIDE DEF m
  <2>9. CompletedOps' = CompletedOps \cup {i}
    BY <2>2, <2>4, <2>7, <2>8 DEF CompletedOps
  <2>10. ComingOps' = (ComingOps \ {i}) \cup new
    <3>1. ComingOps' = {j \in 1..m : ops'[j] \in {"due", "running"}}
      BY <2>4 DEF ComingOps, DueOps, InFlight
    <3>2. \A j \in 1..m : j \in ComingOps' <=> j \in (ComingOps \ {i}) \cup new
      BY <2>2, <2>4, <2>6, <2>8, <3>1 DEF ComingOps, DueOps, InFlight
    <3>3. ComingOps \subseteq 1..m
      BY <2>7 DEF ComingOps, DueOps, InFlight
    <3> QED
      BY <2>7, <3>1, <3>2, <3>3
  <2>11. Unsuccessful' = Unsuccessful
    BY <2>2, <2>4, <2>7, <2>8 DEF Unsuccessful
  <2>12. Call!Land(i, new)
    BY <1>2, <1>4, <1>6, <2>9, <2>10, <2>11 DEF Call!Land
  <2> QED
    BY <1>4, <1>6, <2>5, <2>12 DEF Call!Next
<1> QED
  BY <1>3, <1>5, <1>6 DEF HindsightStep

(* Polls, sleeps and the bank's end: the operations stay what they are. *)
LEMMA PollingRefines ==
  ASSUME IInv, IInv', UNCHANGED ops, [Next]_vars
  PROVE  Call!Next \/ UNCHANGED Call!callVars
<1>1. UNCHANGED <<ComingOps, CompletedOps, Unsuccessful>>
  BY DEF ComingOps, CompletedOps, DueOps, InFlight, Unsuccessful
<1>2. CASE CallResult' = CallResult
  BY <1>1, <1>2 DEF Call!callVars
<1>3. CASE CallResult' # CallResult
  <2>1. ~Returned /\ pc' \in {"ok", "error"}
    <3>1. Returned => pc' = pc
      <4> SUFFICES ASSUME Returned PROVE pc' = pc
        OBVIOUS
      <4>1. ~RetainStep
        BY DEF Returned, RetainStep, Upload, UploadFails, PollOperation, PollBank, Wake, PollFails
      <4> QED
        BY <4>1 DEF Next, HindsightStep, Enqueue, Complete, Break, DropBank, vars
    <3> QED
      BY <1>3, <3>1 DEF CallResult, Returned
  <2>2. CASE pc' = "ok"
    <3>1. \A i \in DOMAIN ops : ops[i] = "completed"
      BY <2>2 DEF IInv, RetainMeansLanded
    <3>2. ComingOps = {} /\ Unsuccessful = {}
      BY <3>1 DEF ComingOps, DueOps, InFlight, Unsuccessful
    <3>3. Call!Succeed
      BY <1>1, <2>1, <2>2, <3>2 DEF Call!Succeed, CallResult, Returned
    <3> QED
      BY <3>3 DEF Call!Next
  <2>3. CASE pc' = "error"
    <3>1. Call!GiveUp({})
      BY <1>1, <2>1, <2>3 DEF Call!GiveUp, CallResult, Returned
    <3>2. {} \in Call!New
      BY DEF Call!New
    <3> QED
      BY <3>1, <3>2 DEF Call!Next
  <2> QED
    BY <2>1, <2>2, <2>3
<1> QED
  BY <1>2, <1>3

(* Polls, sleeps and children and all, Retain is one call that succeeds    *)
(* when everything has landed: for any upload and bank that fit one page.  *)
THEOREM OneCall == ASSUME MaxOps <= PageLimit PROVE Spec => ImplementsRetainCall
<1>1. IInv /\ IInv' /\ [Next]_vars => [Call!Next]_(Call!callVars)
  <2> SUFFICES ASSUME IInv, IInv', [Next]_vars
               PROVE  Call!Next \/ UNCHANGED Call!callVars
    OBVIOUS
  <2>1. CASE UNCHANGED ops
    BY <2>1, PollingRefines
  <2>2. CASE \E n \in 1..MaxFiles : Upload(n)
    BY <2>2, UploadRefines
  <2>3. CASE \E n \in 0..MaxFiles : UploadFails(n)
    BY <2>3, UploadFailsRefines
  <2>4. CASE \E i \in 1..MaxOps : HindsightStep(i)
    BY <2>4, HindsightRefines
  <2>5. CASE PollOperation \/ PollBank \/ Wake \/ PollFails \/ DropBank \/ UNCHANGED vars
    BY <2>1, <2>5 DEF PollOperation, PollBank, Wake, PollFails, DropBank, vars
  <2> QED
    BY <2>2, <2>3, <2>4, <2>5 DEF Next, RetainStep
<1> QED
  BY <1>1, InitRefines, RetainInvariance, PTL DEF Spec, Call!Spec, ImplementsRetainCall

-----------------------------------------------------------------------------
(***************************************************************************)
(* What keeps Retain.  That Hindsight gets round to its operations is a    *)
(* matter of fairness and left to TLC; that nothing else keeps the two     *)
(* polling loops going is not.                                             *)
(***************************************************************************)

(* Hindsight has nothing left to do in the bank, or the bank is gone. *)
NothingComes == dropped \/ DueOps \cup InFlight = {}

(* The calls and sleeps ahead of Retain at most, if nothing comes. *)
PollsLeft ==
  CASE pc = "upload"    -> 4 + MaxFiles
    [] pc = "pollOp"    -> 4 + (ids - awaiting)
    [] pc = "sleepOp"   -> 5 + (ids - awaiting)
    [] pc = "pollBank"  -> 3 - 2 * streak
    [] pc = "sleepBank" -> 4 - 2 * streak
    [] Returned         -> 0

(***************************************************************************)
(* Once Hindsight has nothing left to do in the bank, or the bank is gone, *)
(* it stays so, and each step of Retain leaves it fewer to take, of as     *)
(* many as the upload has files and four: neither a failed, cancelled or   *)
(* vanished operation nor an idle read that must be repeated makes a loop  *)
(* go round for ever.                                                      *)
(***************************************************************************)
RetainEndsWithHindsight ==
  [][/\ PollsLeft \in 0..(4 + MaxFiles)
     /\ NothingComes =>
          /\ RetainStep => PollsLeft' < PollsLeft
          /\ pc # "upload" => NothingComes']_vars

LEMMA PollsLeftIsBounded ==
  ASSUME IInv
  PROVE  PollsLeft \in 0..(4 + MaxFiles)
<1>1. /\ pc \in PCs /\ ids \in 0..MaxFiles /\ MaxFiles \in Nat
      /\ awaiting \in Nat /\ streak \in Nat
  BY BoundsAssumption DEF IInv, TypeOK
<1>2. /\ pc \in {"pollOp", "sleepOp"} => awaiting \in 1..ids
      /\ pc \in {"pollBank", "sleepBank"} => streak <= 1
  BY DEF IInv, UploadAwaited, IdleReadsLast
<1>3. CASE pc \in {"pollOp", "sleepOp"}
  BY <1>1, <1>2, <1>3 DEF PollsLeft, Returned
<1>4. CASE pc \in {"pollBank", "sleepBank"}
  BY <1>1, <1>2, <1>4 DEF PollsLeft, Returned
<1>5. CASE pc \in {"upload", "ok", "error"}
  BY <1>1, <1>5 DEF PollsLeft, Returned
<1> QED BY <1>1, <1>3, <1>4, <1>5 DEF PCs

LEMMA RetainGetsOn ==
  ASSUME IInv, NothingComes, RetainStep
  PROVE  PollsLeft' < PollsLeft
<1>1. /\ ids \in Nat /\ MaxFiles \in Nat /\ awaiting \in Nat /\ streak \in Nat
      /\ ops \in Seq(OpStatuses) /\ Len(ops) \in Nat /\ DOMAIN ops = 1..Len(ops)
  BY BoundsAssumption DEF IInv, TypeOK
<1>2. /\ pc = "upload" => awaiting = 1
      /\ pc \in {"pollOp", "sleepOp"} => awaiting \in 1..ids /\ streak = 0
      /\ pc \in {"pollBank", "sleepBank"} => streak <= 1
      /\ ids <= Len(ops)
  BY DEF IInv, UploadAwaited, IdleReadsLast
<1>3. ASSUME NEW n \in 1..MaxFiles, Upload(n) PROVE PollsLeft' < PollsLeft
  BY <1>1, <1>2, <1>3 DEF Upload, PollsLeft, Returned
<1>4. ASSUME pc' = "error", pc \in PCs \ {"ok", "error"} PROVE PollsLeft' < PollsLeft
  <2>1. PollsLeft' = 0
    BY <1>4 DEF PollsLeft, Returned
  <2>2. PollsLeft > 0
    BY <1>1, <1>2, <1>4 DEF PollsLeft, Returned, PCs
  <2> QED BY <2>1, <2>2
<1>5. CASE \E n \in 0..MaxFiles : UploadFails(n)
  BY <1>4, <1>5 DEF UploadFails, Return, PCs
<1>6. CASE PollOperation
  <2>1. /\ pc = "pollOp" /\ ~dropped /\ awaiting \in DOMAIN ops
        /\ UNCHANGED <<ids, streak>>
    BY <1>1, <1>2, <1>6 DEF PollOperation
  <2>2. ops[awaiting] \in {"completed", "failed", "cancelled"}
    BY <1>1, <2>1 DEF NothingComes, DueOps, InFlight, OpStatuses
  <2>3. CASE ops[awaiting] = "completed"
    <3>1. awaiting' = awaiting + 1 /\ pc' = (IF awaiting = ids THEN "pollBank" ELSE "pollOp")
      BY <1>6, <2>3 DEF PollOperation, Return
    <3> QED BY <1>1, <1>2, <2>1, <3>1 DEF PollsLeft, Returned
  <2>4. CASE ops[awaiting] \in {"failed", "cancelled"}
    <3>1. pc' = "error"
      BY <1>6, <2>4 DEF PollOperation, Return
    <3> QED BY <1>4, <2>1, <3>1 DEF PCs
  <2> QED BY <2>2, <2>3, <2>4
<1>7. CASE PollBank
  <2>1. pc = "pollBank" /\ ~dropped
    BY <1>7 DEF PollBank
  <2>2. PICK page \in Pages :
          IF page \cap Unsuccessful # {} THEN UNCHANGED streak /\ Return("error")
          ELSE /\ streak' = IF page \cap InFlight = {} THEN streak + 1 ELSE 0
               /\ IF streak' >= 2 THEN Return("ok") ELSE Sleep("sleepBank")
    BY <1>7 DEF PollBank
  <2>3. page \cap InFlight = {}
    BY <2>1 DEF NothingComes
  <2>4. \/ pc' = "error"
        \/ streak' = streak + 1 /\ pc' = (IF streak' >= 2 THEN "ok" ELSE "sleepBank")
    BY <2>2, <2>3 DEF Return, Sleep
  <2>5. CASE pc' = "error"
    BY <1>4, <2>1, <2>5 DEF PCs
  <2>6. CASE streak' = streak + 1 /\ pc' = (IF streak' >= 2 THEN "ok" ELSE "sleepBank")
    BY <1>1, <1>2, <2>1, <2>6 DEF PollsLeft, Returned
  <2> QED BY <2>4, <2>5, <2>6
<1>8. CASE Wake
  BY <1>1, <1>2, <1>8 DEF Wake, PollsLeft, Returned
<1>9. CASE PollFails
  BY <1>4, <1>9 DEF PollFails, Return, PCs
<1> QED BY <1>3, <1>5, <1>6, <1>7, <1>8, <1>9 DEF RetainStep

LEMMA NothingComesStays ==
  ASSUME NothingComes, pc # "upload", [Next]_vars
  PROVE  NothingComes'
<1>1. CASE RetainStep
  <2>1. UNCHANGED <<ops, dropped>>
    BY <1>1 DEF RetainStep, Upload, UploadFails, PollOperation, PollBank, Wake, PollFails
  <2> QED BY <2>1 DEF NothingComes, DueOps, InFlight
<1>2. ASSUME NEW i \in 1..MaxOps, HindsightStep(i) PROVE FALSE
  BY <1>2 DEF HindsightStep, Enqueue, Complete, Break, NothingComes
<1>3. CASE DropBank
  BY <1>3 DEF DropBank, NothingComes
<1>4. CASE UNCHANGED vars
  BY <1>4 DEF vars, NothingComes, DueOps, InFlight
<1> QED BY <1>1, <1>2, <1>3, <1>4 DEF Next

(* Only operations that Hindsight leaves in flight keep Retain polling.    *)
THEOREM OnlyHindsightKeepsRetain ==
  ASSUME MaxOps <= PageLimit
  PROVE  Spec => RetainEndsWithHindsight
<1>1. ASSUME IInv, [Next]_vars
      PROVE  [/\ PollsLeft \in 0..(4 + MaxFiles)
              /\ NothingComes =>
                   /\ RetainStep => PollsLeft' < PollsLeft
                   /\ pc # "upload" => NothingComes']_vars
  BY <1>1, PollsLeftIsBounded, RetainGetsOn, NothingComesStays
<1> QED BY <1>1, RetainInvariance, PTL DEF Spec, RetainEndsWithHindsight
=============================================================================
