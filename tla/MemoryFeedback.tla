--------------------------- MODULE MemoryFeedback ---------------------------
(***************************************************************************)
(* Human corrections of one memory of one knowledge base: reviewers vote   *)
(* on proposed texts (SubmitMemoryFeedback), two approvals of the same     *)
(* text apply it to the bank of the active build, and the memory endpoints *)
(* (CurateMemory, RetainExperience) write to that bank directly.           *)
(*                                                                         *)
(* A vote is an upsert, the count of the votes a second query, the active  *)
(* bank a third, then come the call to the indexer and the row that says   *)
(* the consensus was applied.  Requests interleave between any two, and so *)
(* does a Delete, which drops the banks and then, with the row of the      *)
(* knowledge base, the votes.                                              *)
(***************************************************************************)
EXTENDS Naturals, FiniteSets

CONSTANTS
  Reviewers,
  Texts,        \* the proposed texts, the empty one included
  NoText,       \* the empty text
  Original,     \* what the memory says before any correction
  NoMemory,     \* the bank has been dropped, and the memory with it
  Experiences,  \* memories that may be retained
  Banks,        \* the banks of the ready builds of the knowledge base
  NoBank,       \* the knowledge base is disabled
  Requests,     \* feedback and memory requests in flight at once
  CallsFail     \* whether a call may fail or a request be cancelled

ASSUME TextsAssumption ==
  NoText \in Texts /\ Original \notin Texts /\ NoMemory \notin Texts \cup {Original}
ASSUME NoBankAssumption == NoBank \notin Banks
ASSUME ReviewersAssumption == IsFiniteSet(Reviewers)
ASSUME CallsFailAssumption == CallsFail \in BOOLEAN

VARIABLES
  kb,           \* whether the row of the knowledge base is there
  votes,        \* memory_feedback: the vote of each reviewer on each text
  applied,      \* memory_consensus_applied: texts
  memory,       \* what the memory says in each bank
  experiences,  \* the memories retained in each bank beside the documents
  active,       \* the bank of the active build, NoBank when not searchable
  req,          \* one record per request
  agreed,       \* history: the texts that ever had two approvals
  curated,      \* history: the texts that feedback ever wrote to a bank
  missed        \* history: the texts whose approval ended in an error

vars == <<kb, votes, applied, memory, experiences, active, req, agreed, curated, missed>>

Idle == [pc |-> "idle", text |-> NoText, vote |-> "none", bank |-> NoBank]
PCs == {"idle", "count", "resolve", "curate", "mark", "patch", "retain"}

TypeOK ==
  /\ kb \in {"live", "gone"}
  /\ votes \in [Reviewers -> [Texts -> {"none", "approve", "reject"}]]
  /\ applied \in SUBSET Texts
  /\ memory \in [Banks -> Texts \cup {Original, NoMemory}]
  /\ experiences \in [Banks -> SUBSET Experiences]
  /\ active \in Banks \cup {NoBank}
  /\ req \in [Requests -> [pc : PCs, text : Texts,
                           vote : {"none", "approve", "reject"},
                           bank : Banks \cup {NoBank}]]
  /\ agreed \in SUBSET Texts
  /\ curated \in SUBSET Texts
  /\ missed \in SUBSET Texts

NoVotes == [v \in Reviewers |-> [t \in Texts |-> "none"]]

Init ==
  /\ kb = "live"
  /\ votes = NoVotes
  /\ applied = {}
  /\ memory = [b \in Banks |-> Original]
  /\ experiences = [b \in Banks |-> {}]
  /\ active \in Banks
  /\ req = [r \in Requests |-> Idle]
  /\ agreed = {}
  /\ curated = {}
  /\ missed = {}

-----------------------------------------------------------------------------
At(r, pc) == req[r].pc = pc
Goto(r, pc) == req' = [req EXCEPT ![r].pc = pc]
Return(r) == req' = [req EXCEPT ![r] = Idle]

Approvals(vs, t) == Cardinality({v \in Reviewers : vs[v][t] = "approve"})

(* AddMemoryFeedback, the upsert: one vote per reviewer and text; the      *)
(* foreign key refuses it when the knowledge base is gone.                 *)
Vote(r, v, t, vote) ==
  /\ At(r, "idle")
  /\ kb = "live"
  /\ votes' = [votes EXCEPT ![v][t] = vote]
  /\ agreed' = IF Approvals(votes', t) >= 2 THEN agreed \cup {t} ELSE agreed
  /\ req' = [req EXCEPT ![r] = [Idle EXCEPT !.pc = "count", !.text = t, !.vote = vote]]
  /\ UNCHANGED <<kb, applied, memory, experiences, active, curated, missed>>

(* A mutant: one approval is a consensus. *)
CountOne(r) ==
  /\ At(r, "count")
  /\ IF /\ req[r].vote = "approve"
        /\ Approvals(votes, req[r].text) >= 1
        /\ req[r].text # NoText
        /\ req[r].text \notin applied
     THEN Goto(r, "resolve")
     ELSE Return(r)
  /\ UNCHANGED <<kb, votes, applied, memory, experiences, active, agreed, curated, missed>>

(* A mutant: the vote that makes it exactly two applies the consensus. *)
CountExactlyTwo(r) ==
  /\ At(r, "count")
  /\ IF /\ req[r].vote = "approve"
        /\ Approvals(votes, req[r].text) = 2
        /\ req[r].text # NoText
        /\ req[r].text \notin applied
     THEN Goto(r, "resolve")
     ELSE Return(r)
  /\ UNCHANGED <<kb, votes, applied, memory, experiences, active, agreed, curated, missed>>

(* The consensus, read by one query, and whether to apply it now. *)
Count(r) ==
  /\ At(r, "count")
  /\ IF /\ req[r].vote = "approve"
        /\ Approvals(votes, req[r].text) >= 2
        /\ req[r].text # NoText
        /\ req[r].text \notin applied
     THEN Goto(r, "resolve")
     ELSE Return(r)
  /\ UNCHANGED <<kb, votes, applied, memory, experiences, active, agreed, curated, missed>>

(* activeBankID, for feedback; a disabled knowledge base is a conflict, a  *)
(* deleted one is not found.                                               *)
Resolve(r) ==
  /\ At(r, "resolve")
  /\ IF active = NoBank
     THEN Return(r) /\ missed' = missed \cup {req[r].text}
     ELSE req' = [req EXCEPT ![r].pc = "curate", ![r].bank = active] /\ UNCHANGED missed
  /\ UNCHANGED <<kb, votes, applied, memory, experiences, active, agreed, curated>>

Curate(r) ==
  /\ At(r, "curate")
  /\ memory[req[r].bank] # NoMemory
  /\ memory' = [memory EXCEPT ![req[r].bank] = req[r].text]
  /\ curated' = curated \cup {req[r].text}
  /\ Goto(r, "mark")
  /\ UNCHANGED <<kb, votes, applied, experiences, active, agreed, missed>>

(* A mutant: the consensus is marked applied before it is. *)
MarkThenCurate(r) ==
  \/ /\ At(r, "resolve")
     /\ applied' = applied \cup {req[r].text}
     /\ UNCHANGED <<kb, votes, memory, experiences, active, req, agreed, curated, missed>>
  \/ /\ At(r, "mark")
     /\ Return(r)
     /\ UNCHANGED <<kb, votes, applied, memory, experiences, active, agreed, curated, missed>>

(* A mutant: memory_consensus_applied without its foreign key. *)
MarkWithoutKey(r) ==
  /\ At(r, "mark")
  /\ applied' = applied \cup {req[r].text}
  /\ Return(r)
  /\ UNCHANGED <<kb, votes, memory, experiences, active, agreed, curated, missed>>

(* The foreign key refuses the row of a knowledge base that is gone. *)
MarkConsensusApplied(r) ==
  /\ At(r, "mark")
  /\ IF kb = "live"
     THEN applied' = applied \cup {req[r].text} /\ UNCHANGED missed
     ELSE missed' = missed \cup {req[r].text} /\ UNCHANGED applied
  /\ Return(r)
  /\ UNCHANGED <<kb, votes, memory, experiences, active, agreed, curated>>

(* The PATCH and POST memory endpoints: activeBankID, then the indexer.    *)
(* An empty text changes the state of the memory only.                     *)
PatchResolve(r, t) ==
  /\ At(r, "idle")
  /\ active # NoBank
  /\ req' = [req EXCEPT ![r] = [Idle EXCEPT !.pc = "patch", !.text = t, !.bank = active]]
  /\ UNCHANGED <<kb, votes, applied, memory, experiences, active, agreed, curated, missed>>

CurateMemory(r) ==
  /\ At(r, "patch")
  /\ memory[req[r].bank] # NoMemory
  /\ memory' = [memory EXCEPT ![req[r].bank] = IF req[r].text = NoText THEN @ ELSE req[r].text]
  /\ Return(r)
  /\ UNCHANGED <<kb, votes, applied, experiences, active, agreed, curated, missed>>

RetainResolve(r) ==
  /\ At(r, "idle")
  /\ active # NoBank
  /\ req' = [req EXCEPT ![r] = [Idle EXCEPT !.pc = "retain", !.bank = active]]
  /\ UNCHANGED <<kb, votes, applied, memory, experiences, active, agreed, curated, missed>>

(* A bank that has been dropped comes back, without the memory. *)
RetainExperience(r, e) ==
  /\ At(r, "retain")
  /\ experiences' = [experiences EXCEPT ![req[r].bank] = @ \cup {e}]
  /\ Return(r)
  /\ UNCHANGED <<kb, votes, applied, memory, active, agreed, curated, missed>>

MemoryIsGone(r) ==
  req[r].pc \in {"curate", "patch"} /\ memory[req[r].bank] = NoMemory

(* A call fails, or the context is done, or the memory is no more: what    *)
(* was written stays.  A failed PATCH may have reached the indexer all the *)
(* same.                                                                   *)
Fail(r) ==
  /\ CallsFail \/ MemoryIsGone(r)
  /\ ~At(r, "idle")
  /\ \/ At(r, "curate") /\ ~MemoryIsGone(r)
                        /\ memory' = [memory EXCEPT ![req[r].bank] = req[r].text]
                        /\ curated' = curated \cup {req[r].text}
     \/ UNCHANGED <<memory, curated>>
  /\ missed' = IF req[r].vote = "approve" THEN missed \cup {req[r].text} ELSE missed
  /\ Return(r)
  /\ UNCHANGED <<kb, votes, applied, experiences, active, agreed>>

(* Enable and Disable, while feedback is under way. *)
Switch(b) ==
  /\ kb = "live"
  /\ b # active
  /\ active' = b
  /\ UNCHANGED <<kb, votes, applied, memory, experiences, req, agreed, curated, missed>>

(* Delete, while feedback is under way: the banks are dropped, or not if   *)
(* that fails; the row comes last and takes the feedback with it.          *)
DropBank(b) ==
  /\ memory[b] # NoMemory
  /\ memory' = [memory EXCEPT ![b] = NoMemory]
  /\ experiences' = [experiences EXCEPT ![b] = {}]
  /\ UNCHANGED <<kb, votes, applied, active, req, agreed, curated, missed>>

DeleteRow ==
  /\ kb = "live"
  /\ kb' = "gone"
  /\ votes' = NoVotes
  /\ applied' = {}
  /\ active' = NoBank
  /\ UNCHANGED <<memory, experiences, req, agreed, curated, missed>>

FeedbackStep(r) ==
  \/ \E v \in Reviewers, t \in Texts : Vote(r, v, t, "approve") \/ Vote(r, v, t, "reject")
  \/ Count(r) \/ Resolve(r) \/ Curate(r) \/ MarkConsensusApplied(r)

MemoryStep(r) ==
  \/ \E t \in Texts : PatchResolve(r, t)
  \/ CurateMemory(r)
  \/ RetainResolve(r)
  \/ \E e \in Experiences : RetainExperience(r, e)

Next ==
  \/ \E r \in Requests : FeedbackStep(r) \/ MemoryStep(r) \/ Fail(r)
  \/ \E b \in Banks \cup {NoBank} : Switch(b)
  \/ \E b \in Banks : DropBank(b)
  \/ DeleteRow

Spec == Init /\ [][Next]_vars

-----------------------------------------------------------------------------
(* Properties. *)

(***************************************************************************)
(* "2 approvals apply it": feedback writes to a bank, and is recorded as   *)
(* applied, only texts that two reviewers approved at the same time, and   *)
(* never the empty text, although the votes are counted in one query and   *)
(* acted upon three calls later.                                           *)
(***************************************************************************)
OnlyConsensusIsApplied == applied \cup curated \subseteq agreed \ {NoText}

(***************************************************************************)
(* What is recorded as applied has been applied: a failure in between      *)
(* leaves a correction that is retried by the next approval and never one  *)
(* that is recorded and lost.                                              *)
(***************************************************************************)
RecordedMeansCurated == applied \subseteq curated

(***************************************************************************)
(* A text that has two approvals when all is quiet has been applied, if no *)
(* request for it ended in an error: whichever way the upserts and counts  *)
(* of concurrent requests interleave, some approval sees the consensus.    *)
(***************************************************************************)
QuietConsensusIsApplied ==
  (\A r \in Requests : At(r, "idle")) =>
    \A t \in Texts \ {NoText} : Approvals(votes, t) >= 2 => t \in applied \cup missed

(***************************************************************************)
(* A deleted knowledge base leaves no vote and no record of a consensus    *)
(* behind: feedback that was under way when Delete took the rows does not  *)
(* write new ones after it, although it holds the counts it read before.   *)
(***************************************************************************)
FeedbackDiesWithKB == kb = "gone" => votes = NoVotes /\ applied = {}

-----------------------------------------------------------------------------
(* The inductive invariant behind the safety properties: a request that    *)
(* passed the count carries a text that had its consensus then, one about  *)
(* to record it has written it, and a consensus that is not applied is in  *)
(* the hands of a request or was lost with one.                            *)
RequestsInStep ==
  \A r \in Requests :
    /\ req[r].pc \in {"resolve", "curate", "mark"} =>
         req[r].vote = "approve" /\ req[r].text \in agreed \ {NoText}
    /\ At(r, "mark") => req[r].text \in curated
    /\ req[r].pc \in {"curate", "mark", "patch", "retain"} => req[r].bank \in Banks

AgreedRemembers == \A t \in Texts : Approvals(votes, t) >= 2 => t \in agreed

Carries(r, t) ==
  /\ req[r].text = t
  /\ \/ At(r, "count") /\ req[r].vote = "approve"
     \/ req[r].pc \in {"resolve", "curate", "mark"}

ConsensusIsHeld ==
  \A t \in Texts \ {NoText} :
    Approvals(votes, t) >= 2 => t \in applied \cup missed \/ \E r \in Requests : Carries(r, t)

IInv ==
  /\ TypeOK /\ RequestsInStep /\ AgreedRemembers
  /\ OnlyConsensusIsApplied /\ RecordedMeansCurated /\ ConsensusIsHeld
  /\ FeedbackDiesWithKB
=============================================================================
