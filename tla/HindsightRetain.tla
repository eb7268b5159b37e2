-------------------------- MODULE HindsightRetain --------------------------
(***************************************************************************)
(* Indexer.Retain: one upload of all files of a build, then polling until  *)
(* Hindsight has extracted everything.  The bank's operations belong to    *)
(* Hindsight, which is external: the model takes from the comments and     *)
(* switches of indexer.go that the upload answers with the operations it   *)
(* started, that these spawn further operations when they complete, and    *)
(* that such a child appears in the bank's list within one poll interval.  *)
(*                                                                         *)
(* The only caller is a build worker, whose context is detached: the       *)
(* ctx.Done() branches of the two polling loops are never taken.           *)
(***************************************************************************)
EXTENDS Naturals, Sequences, FiniteSets

CONSTANTS
  MaxFiles,   \* bound: operations an upload starts
  MaxOps,     \* bound: operations a bank ever has, children included
  PageLimit,  \* the ?limit= of the list of operations
  CallsFail   \* whether an HTTP call to Hindsight may fail or time out

ASSUME BoundsAssumption ==
  /\ MaxFiles \in Nat \ {0} /\ MaxOps \in Nat /\ PageLimit \in Nat \ {0}
  /\ MaxFiles <= MaxOps
ASSUME CallsFailAssumption == CallsFail \in BOOLEAN

VARIABLES
  pc,        \* where Retain is
  ops,       \* the bank's operations; "due": known to Hindsight, not listed yet
  ids,       \* how many of them the upload answered with: the first ones
  awaiting,  \* the operation that waitForOperation polls
  streak,    \* idleStreak of waitForBankIdle
  old,       \* the operations that were due when the current sleep began
  dropped    \* the bank was deleted meanwhile

vars == <<pc, ops, ids, awaiting, streak, old, dropped>>

OpStatuses == {"due", "running", "completed", "failed", "cancelled"}
PCs == {"upload", "pollOp", "sleepOp", "pollBank", "sleepBank", "ok", "error"}

TypeOK ==
  /\ pc \in PCs
  /\ ops \in Seq(OpStatuses) /\ Len(ops) <= MaxOps
  /\ ids \in 0..MaxFiles
  /\ awaiting \in 1..MaxFiles + 1
  /\ streak \in 0..2
  /\ old \in SUBSET (1..MaxOps)
  /\ dropped \in BOOLEAN

Init ==
  /\ pc = "upload"
  /\ ops = <<>>
  /\ ids = 0
  /\ awaiting = 1
  /\ streak = 0
  /\ old = {}
  /\ dropped = FALSE

-----------------------------------------------------------------------------
(* Hindsight. *)

DueOps == {i \in DOMAIN ops : ops[i] = "due"}
Listed == DOMAIN ops \ DueOps

(* "pending" and "processing", which the loops do not tell apart. *)
InFlight == {i \in DOMAIN ops : ops[i] = "running"}
Unsuccessful == {i \in DOMAIN ops : ops[i] \in {"failed", "cancelled"}}

Enqueue(i) ==
  /\ ~dropped /\ i \in DueOps
  /\ ops' = [ops EXCEPT ![i] = "running"]
  /\ UNCHANGED <<pc, ids, awaiting, streak, old, dropped>>

(* An operation completes; those of the upload spawn children. *)
Complete(i) ==
  /\ ~dropped /\ i \in InFlight
  /\ \E children \in 0..(IF i <= ids THEN MaxOps - Len(ops) ELSE 0) :
       ops' = [ops EXCEPT ![i] = "completed"] \o [c \in 1..children |-> "due"]
  /\ UNCHANGED <<pc, ids, awaiting, streak, old, dropped>>

Break(i) ==
  /\ ~dropped /\ i \in InFlight
  /\ \E s \in {"failed", "cancelled"} : ops' = [ops EXCEPT ![i] = s]
  /\ UNCHANGED <<pc, ids, awaiting, streak, old, dropped>>

(* The knowledge base is deleted, and its banks with it. *)
DropBank ==
  /\ ~dropped /\ ids # 0
  /\ dropped' = TRUE
  /\ UNCHANGED <<pc, ops, ids, awaiting, streak, old>>

-----------------------------------------------------------------------------
(* Retain. *)

(* Time passes between two polls: what was due before is listed after. *)
Sleep(p) == pc' = p /\ old' = DueOps
Return(result) == pc' = result /\ UNCHANGED old

Upload(n) ==
  /\ pc = "upload"
  /\ ops' = [i \in 1..n |-> "running"]
  /\ ids' = n
  /\ pc' = "pollOp"
  /\ UNCHANGED <<awaiting, streak, old, dropped>>

(* The upload fails; Hindsight may nevertheless have got and begun it. *)
UploadFails(n) ==
  /\ CallsFail
  /\ pc = "upload"
  /\ ops' = [i \in 1..n |-> "running"]
  /\ Return("error")
  /\ UNCHANGED <<ids, awaiting, streak, dropped>>

(* A mutant: a cancelled operation is polled again. *)
PollOperationAgain ==
  /\ pc = "pollOp" /\ ~dropped
  /\ CASE ops[awaiting] = "completed" ->
            awaiting' = awaiting + 1 /\ Return(IF awaiting = ids THEN "pollBank" ELSE "pollOp")
       [] ops[awaiting] = "failed" -> UNCHANGED awaiting /\ Return("error")
       [] OTHER -> UNCHANGED awaiting /\ Sleep("sleepOp")
  /\ UNCHANGED <<ops, ids, streak, dropped>>

(* waitForOperation, for one operation of the upload after the other. *)
PollOperation ==
  /\ pc = "pollOp" /\ ~dropped
  /\ CASE ops[awaiting] = "completed" ->
            awaiting' = awaiting + 1 /\ Return(IF awaiting = ids THEN "pollBank" ELSE "pollOp")
       [] ops[awaiting] \in {"failed", "cancelled"} -> UNCHANGED awaiting /\ Return("error")
       [] OTHER -> UNCHANGED awaiting /\ Sleep("sleepOp")
  /\ UNCHANGED <<ops, ids, streak, dropped>>

(* What one request for the list returns: everything if it fits a page,    *)
(* otherwise a full page, of which operations is up to Hindsight.          *)
Pages ==
  LET n == IF Cardinality(Listed) <= PageLimit THEN Cardinality(Listed) ELSE PageLimit
  IN {page \in SUBSET Listed : Cardinality(page) = n}

(* A mutant: the first idle read is believed. *)
PollBankOnce ==
  /\ pc = "pollBank" /\ ~dropped
  /\ \E page \in Pages :
       IF page \cap Unsuccessful # {} THEN UNCHANGED streak /\ Return("error")
       ELSE /\ streak' = IF page \cap InFlight = {} THEN streak + 1 ELSE 0
            /\ IF streak' >= 1 THEN Return("ok") ELSE Sleep("sleepBank")
  /\ UNCHANGED <<ops, ids, awaiting, dropped>>

(* A mutant: the second read follows the first at once. *)
PollBankTwiceAtOnce ==
  /\ pc = "pollBank" /\ ~dropped
  /\ \E page \in Pages :
       IF page \cap Unsuccessful # {} THEN UNCHANGED streak /\ Return("error")
       ELSE /\ streak' = IF page \cap InFlight = {} THEN streak + 1 ELSE 0
            /\ CASE streak' >= 2 -> Return("ok")
                 [] streak' = 1 -> Return("pollBank")
                 [] OTHER -> Sleep("sleepBank")
  /\ UNCHANGED <<ops, ids, awaiting, dropped>>

(* waitForBankIdle: two idle reads in a row, or an operation gone wrong. *)
PollBank ==
  /\ pc = "pollBank" /\ ~dropped
  /\ \E page \in Pages :
       IF page \cap Unsuccessful # {} THEN UNCHANGED streak /\ Return("error")
       ELSE /\ streak' = IF page \cap InFlight = {} THEN streak + 1 ELSE 0
            /\ IF streak' >= 2 THEN Return("ok") ELSE Sleep("sleepBank")
  /\ UNCHANGED <<ops, ids, awaiting, dropped>>

Wake ==
  /\ pc \in {"sleepOp", "sleepBank"}
  /\ dropped \/ old \cap DueOps = {}
  /\ pc' = IF pc = "sleepOp" THEN "pollOp" ELSE "pollBank"
  /\ old' = {}
  /\ UNCHANGED <<ops, ids, awaiting, streak, dropped>>

(* A poll fails, by the network or because the bank is no more: not_found. *)
PollFails ==
  /\ CallsFail \/ dropped
  /\ pc \in {"pollOp", "pollBank"}
  /\ Return("error")
  /\ UNCHANGED <<ops, ids, awaiting, streak, dropped>>

Returned == pc \in {"ok", "error"}

HindsightStep(i) == Enqueue(i) \/ Complete(i) \/ Break(i)

RetainStep ==
  \/ \E n \in 1..MaxFiles : Upload(n)
  \/ \E n \in 0..MaxFiles : UploadFails(n)
  \/ PollOperation \/ PollBank \/ Wake \/ PollFails

Next == RetainStep \/ (\E i \in 1..MaxOps : HindsightStep(i)) \/ DropBank

Spec == Init /\ [][Next]_vars

(* The worker runs, and each of its calls returns: http.Client.Timeout.    *)
ClientSpec == Spec /\ WF_vars(RetainStep)

(* Hindsight, too, gets round to each operation. *)
FairSpec == ClientSpec /\ \A i \in 1..MaxOps : WF_vars(HindsightStep(i))

-----------------------------------------------------------------------------
(* Properties. *)

(***************************************************************************)
(* "The build is only marked ready once extraction has landed": when       *)
(* Retain returns nil, the bank has no operation that is still to come,    *)
(* under way, or that failed - the children that Hindsight had not listed  *)
(* yet when their parent completed included.                               *)
(***************************************************************************)
RetainMeansLanded ==
  pc = "ok" => \A i \in DOMAIN ops : ops[i] = "completed"

(***************************************************************************)
(* Retain always returns: operations that fail, are cancelled or vanish    *)
(* with their bank end it as surely as operations that complete.           *)
(***************************************************************************)
RetainReturns == <>Returned

(***************************************************************************)
(* "Bounded by ctx (the build worker controls the overall deadline)"       *)
(* (indexer.go, both polling loops): Retain returns even when Hindsight    *)
(* leaves an operation in flight for ever.                                 *)
(***************************************************************************)
BoundedByDeadline == <>Returned

-----------------------------------------------------------------------------
(***************************************************************************)
(* The inductive invariant behind RetainMeansLanded.  Once every operation *)
(* of the upload has completed no child can be born any more; after one    *)
(* idle read the children still due are those that were due when the sleep *)
(* began, so that the next read sees every operation (or finds no bank).   *)
(***************************************************************************)
UploadAwaited ==
  /\ ids <= Len(ops) /\ awaiting <= ids + 1
  /\ pc = "upload" => ids = 0 /\ ops = <<>> /\ awaiting = 1 /\ streak = 0
  /\ pc \in {"pollOp", "sleepOp"} => awaiting \in 1..ids /\ streak = 0
  /\ pc \in {"pollBank", "sleepBank", "ok"} => awaiting = ids + 1
  /\ \A i \in DOMAIN ops : i < awaiting => ops[i] = "completed"

IdleReadsLast ==
  /\ pc \in {"pollBank", "sleepBank"} => streak <= 1
  /\ pc = "pollBank" /\ streak = 1 => dropped \/ DueOps = {}
  /\ pc = "sleepBank" /\ streak = 1 => DueOps \subseteq old

IInv == TypeOK /\ UploadAwaited /\ IdleReadsLast /\ RetainMeansLanded

-----------------------------------------------------------------------------
(* Refinement: an operation is a piece of extraction. *)

CallResult == IF Returned THEN pc ELSE "none"
ComingOps == DueOps \cup InFlight
CompletedOps == {i \in DOMAIN ops : ops[i] = "completed"}

Call == INSTANCE RetainCall WITH
  Pieces <- 1..MaxOps, result <- CallResult,
  coming <- ComingOps, landed <- CompletedOps, lost <- Unsuccessful

(***************************************************************************)
(* ProcessBuild may take Retain for one call: while polls, sleeps, children*)
(* and a vanishing bank interleave, it succeeds only when every operation  *)
(* has landed, and after that the bank of the build is never written again *)
(* by what Retain began.                                                   *)
(***************************************************************************)
ImplementsRetainCall == Call!Spec
=============================================================================
