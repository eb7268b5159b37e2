------------------------ MODULE KnowledgeBaseProofs ------------------------
(***************************************************************************)
(* Proofs about KnowledgeBase, for any number of knowledge bases, builds,  *)
(* documents, requests and workers, any buffer size and every fault.       *)
(***************************************************************************)
EXTENDS KnowledgeBase, FiniteSetTheorems, TLAPS

USE NoDocAssumption, NoKBAssumption, NoBuildAssumption

-----------------------------------------------------------------------------
(* Types. *)

LEMMA InitTypeOK == Init => TypeOK
BY DEF Init, DocInit, TypeOK, DocTypeOK, RowsTypeOK, BanksTypeOK, QueueTypeOK,
       ReqTypeOK, WkTypeOK, IdleReq, IdleWorker, Idle, ReqPCs, WorkerPCs, Statuses

(* The steps of the document handlers keep the types of their variables.   *)
LEMMA DocStepTypeOK ==
  ASSUME DocTypeOK,
         \/ \E c \in Calls, d \in Docs : UploadPut(c, d) \/ DeleteStart(c, d)
         \/ \E c \in Calls : UploadCreate(c) \/ DeleteObject(c) \/ DeleteRow(c) \/ Abandon(c)
         \/ DocCrash
  PROVE  DocTypeOK'
BY DEF DocTypeOK, UploadPut, DeleteStart, UploadCreate, DeleteObject, DeleteRow,
       Abandon, DocCrash, Half, At, Goto, Return, Idle, StoragePut, StorageDelete,
       DocumentCreate, DocumentDelete, DocumentGetByID

(* The queries keep the types of the tables. *)
LEMMA QueryTypeOK ==
  ASSUME RowsTypeOK,
         \/ \E k \in KBs, e \in BOOLEAN, a \in Builds \cup {NoBuild} : UpdateKB(k, e, a)
         \/ \E k \in KBs : DeleteKB(k)
         \/ \E b \in Builds, k \in KBs \cup {NoKB}, n \in Nat : CreateBuild(b, k, n)
         \/ \E b \in Builds \cup {NoBuild}, s \in Statuses : UpdateBuild(b, s)
         \/ UNCHANGED rowVars
  PROVE  RowsTypeOK'
<1> USE DEF RowsTypeOK
<1>1. ASSUME NEW k \in KBs, NEW e \in BOOLEAN, NEW a \in Builds \cup {NoBuild},
             UpdateKB(k, e, a)
      PROVE  RowsTypeOK'
  BY <1>1 DEF UpdateKB
<1>2. ASSUME NEW k \in KBs, DeleteKB(k) PROVE RowsTypeOK'
  BY <1>2 DEF DeleteKB, ListBuilds
<1>3. ASSUME NEW b \in Builds, NEW k \in KBs \cup {NoKB}, NEW n \in Nat, CreateBuild(b, k, n)
      PROVE  RowsTypeOK'
  BY <1>3 DEF CreateBuild, Statuses
<1>4. ASSUME NEW b \in Builds \cup {NoBuild}, NEW s \in Statuses, UpdateBuild(b, s)
      PROVE  RowsTypeOK'
  BY <1>4 DEF UpdateBuild
<1>5. CASE UNCHANGED rowVars
  BY <1>5 DEF rowVars
<1> QED BY <1>1, <1>2, <1>3, <1>4, <1>5

LEMMA ReturnKeepsReqType ==
  ASSUME ReqTypeOK, NEW r \in Requests, ReqReturn(r)
  PROVE  ReqTypeOK'
BY DEF ReqTypeOK, ReqReturn, IdleReq, ReqPCs

LEMMA RequestKeepsReqType ==
  ASSUME ReqTypeOK, RowsTypeOK, NEW r \in Requests, RequestStep(r)
  PROVE  ReqTypeOK'
<1> USE DEF ReqTypeOK, ReqReturn, IdleReq, ReqPCs
<1>1. ASSUME NEW k \in KBs, BuildStart(r, k) PROVE ReqTypeOK'
  <2>1. Cardinality(ListDocuments(k)) \in Nat
    BY DocsAssumption, FS_Subset, FS_CardinalityType DEF ListDocuments, RowsTypeOK
  <2> QED BY <1>1, <2>1 DEF BuildStart
<1>2. ASSUME NEW k \in KBs, DisableRead(r, k) PROVE ReqTypeOK'
  BY <1>2 DEF DisableRead, RowsTypeOK
<1>3. ASSUME NEW k \in KBs, DeleteList(r, k) PROVE ReqTypeOK'
  BY <1>3 DEF DeleteList, ListBuilds
<1>4. ASSUME NEW k \in KBs, SearchRead(r, k) PROVE ReqTypeOK'
  BY <1>4 DEF SearchRead, RowsTypeOK
<1>5. ASSUME NEW k \in KBs, NEW b \in Builds, EnableRead(r, k, b) PROVE ReqTypeOK'
  BY <1>5 DEF EnableRead
<1>6. ASSUME NEW b \in Builds, BuildCreate(r, b) PROVE ReqTypeOK'
  BY <1>6 DEF BuildCreate
<1>7. ASSUME NEW b \in Builds, DeleteNextBank(r, b) PROVE ReqTypeOK'
  BY <1>7 DEF DeleteNextBank
<1>8. CASE BuildEnqueue(r) \/ BuildEnqueueFails(r)
  BY <1>8 DEF BuildEnqueue, BuildEnqueueFails
<1>9. CASE EnableWrite(r) \/ DisableWrite(r) \/ DeleteRowOfKB(r)
  <2>1. ReqReturn(r)
    BY <1>9 DEF EnableWrite, DisableWrite, DeleteRowOfKB
  <2> QED BY <2>1, ReturnKeepsReqType
<1>10. CASE SearchGetBuild(r) \/ SearchRecall(r) \/ RetainExperience(r)
  BY <1>10 DEF SearchGetBuild, SearchRecall, RetainExperience, CreateBank
<1>11. CASE Cancel(r) \/ ReqFails(r)
  BY <1>11 DEF Cancel, ReqFails
<1> QED
  BY <1>1, <1>2, <1>3, <1>4, <1>5, <1>6, <1>7, <1>8, <1>9, <1>10, <1>11 DEF RequestStep

LEMMA WorkerKeepsWkType ==
  ASSUME IInv, NEW w \in Workers, WorkerStep(w)
  PROVE  WkTypeOK'
<1> USE DEF WkTypeOK, WkGoto, WkReturn, IdleWorker, WorkerPCs, WkAt
<1>0. WkTypeOK
  BY DEF IInv, TypeOK
<1>1. CASE Receive(w)
  <2> DEFINE b == Head(queue)
  <2>1. b \in Builds
    BY <1>1 DEF IInv, TypeOK, QueueTypeOK, Receive
  <2> DEFINE loading == [wk EXCEPT ![w].pc = "load"]
             Records == [pc : WorkerPCs, build : Builds \cup {NoBuild},
                         docs : SUBSET Docs, got : SUBSET Docs]
  <2>2. loading \in [Workers -> Records] /\ wk' = [loading EXCEPT ![w].build = b]
    BY <1>0, <1>1 DEF Receive
  <2> HIDE DEF b, loading
  <2>3. [loading[w] EXCEPT !.build = b] \in Records
    BY <2>1, <2>2
  <2> HIDE DEF Records
  <2>4. wk' \in [Workers -> Records]
    BY <2>2, <2>3
  <2> QED BY <2>4 DEF Records
<1>2. CASE Load(w) \/ MarkProcessing(w) \/ ProvisionBank(w)
  BY <1>0, <1>2 DEF Load, MarkProcessing, ProvisionBank
<1>3. CASE List(w)
  <2>1. wk[w].build \in Builds /\ status[wk[w].build] \in {"pending", "gone"}
    BY <1>3 DEF IInv, WorkerStatus, List
  <2>2. owner[wk[w].build] \in KBs
    BY <2>1 DEF IInv, BuildsFollowKBs, BuildExists, Statuses
  <2> DEFINE docs == ListDocuments(owner[wk[w].build])
  <2>3. docs \in SUBSET Docs
    BY <2>2 DEF ListDocuments, IInv, TypeOK, RowsTypeOK
  <2> DEFINE listed == [wk EXCEPT ![w].pc = "mark"]
             Records == [pc : WorkerPCs, build : Builds \cup {NoBuild},
                         docs : SUBSET Docs, got : SUBSET Docs]
  <2>4. listed \in [Workers -> Records] /\ wk' = [listed EXCEPT ![w].docs = docs]
    BY <1>0, <1>3 DEF List
  <2> HIDE DEF docs, listed
  <2>5. [listed[w] EXCEPT !.docs = docs] \in Records
    BY <2>3, <2>4
  <2> HIDE DEF Records
  <2>6. wk' \in [Workers -> Records]
    BY <2>4, <2>5
  <2> QED BY <2>6 DEF Records
<1>4. ASSUME NEW d \in Docs, ReadDocument(w, d) PROVE WkTypeOK'
  BY <1>0, <1>4 DEF ReadDocument
<1>5. CASE ReadAll(w) \/ Retain(w) \/ Finalize(w) \/ FailBuild(w)
  BY <1>0, <1>5 DEF ReadAll, Retain, Finalize, FailBuild
<1>6. CASE WorkerCallFails(w) \/ RetainFails(w) \/ WorkerGivesUp(w)
  BY <1>0, <1>6 DEF WorkerCallFails, RetainFails, WorkerGivesUp
<1> QED
  BY <1>1, <1>2, <1>3, <1>4, <1>5, <1>6 DEF WorkerStep

(* What each step does to banks and queue, type-wise. *)
LEMMA BanksStepTypeOK ==
  ASSUME IInv, Next
  PROVE  BanksTypeOK'
<1> USE DEF BanksTypeOK
<1>0. BanksTypeOK
  BY DEF IInv, TypeOK
<1>1. CASE UNCHANGED bankVars
  BY <1>0, <1>1 DEF bankVars
<1>2. ASSUME NEW r \in Requests, NEW b \in Builds, DeleteNextBank(r, b) PROVE BanksTypeOK'
  BY <1>0, <1>2 DEF DeleteNextBank, DeleteBank, bankVars
<1>3. ASSUME NEW w \in Workers, ProvisionBank(w) \/ Retain(w) \/ RetainFails(w)
      PROVE  BanksTypeOK'
  <2>1. wk[w].build \in Builds /\ wk[w].got \in SUBSET Docs
    BY <1>3 DEF IInv, WorkerStatus, TypeOK, WkTypeOK, ProvisionBank, Retain, RetainFails, WkAt
  <2>2. ASSUME NEW docs \in SUBSET Docs, RetainInto(wk[w].build, docs) PROVE BanksTypeOK'
    BY <1>0, <2>1, <2>2 DEF RetainInto
  <2>3. CASE ProvisionBank(w)
    BY <1>0, <2>1, <2>3 DEF ProvisionBank, CreateBank
  <2>4. CASE Retain(w)
    BY <2>1, <2>2, <2>4 DEF Retain
  <2>5. CASE RetainFails(w)
    BY <1>1, <2>1, <2>2, <2>5 DEF RetainFails
  <2> QED BY <1>3, <2>3, <2>4, <2>5
<1>6. ASSUME NEW r \in Requests, RetainExperience(r) PROVE BanksTypeOK'
  <2>1. req[r].build \in Builds
    BY <1>6 DEF RetainExperience, IInv, CopiesSettled, Settled, ReqAt
  <2> QED BY <1>0, <1>6, <2>1 DEF RetainExperience, CreateBank
<1>4. ASSUME NEW r \in Requests, RequestStep(r) PROVE BanksTypeOK'
  BY <1>1, <1>2, <1>4, <1>6
  DEF RequestStep, BuildStart, DisableRead, DeleteList, SearchRead, EnableRead, BuildCreate,
      BuildEnqueue, BuildEnqueueFails, EnableWrite, DisableWrite, DeleteRowOfKB,
      SearchGetBuild, SearchRecall, Cancel, ReqFails
<1>5. ASSUME NEW w \in Workers, WorkerStep(w) PROVE BanksTypeOK'
  BY <1>1, <1>3, <1>5
  DEF WorkerStep, Receive, Load, List, MarkProcessing, ReadDocument, ReadAll, Finalize,
      FailBuild, WorkerCallFails, WorkerGivesUp
<1> QED
  BY <1>1, <1>4, <1>5
  DEF Next, DocumentStep, DeleteRowCascades, kbVars, bankVars, Create, AddDocument,
     RemoveDocument, Crash

LEMMA QueueStepTypeOK ==
  ASSUME IInv, Next
  PROVE  QueueTypeOK'
<1> USE DEF QueueTypeOK
<1>0. QueueTypeOK
  BY DEF IInv, TypeOK
<1>1. CASE UNCHANGED queue
  BY <1>0, <1>1
<1>2. ASSUME NEW r \in Requests, BuildEnqueue(r) PROVE QueueTypeOK'
  <2>1. req[r].build \in Builds
    BY <1>2 DEF BuildEnqueue, IInv, WaitingStatus
  <2> QED BY <1>0, <1>2, <2>1 DEF BuildEnqueue
<1>3. ASSUME NEW w \in Workers, Receive(w) PROVE QueueTypeOK'
  BY <1>0, <1>3 DEF Receive
<1>4. ASSUME NEW r \in Requests, RequestStep(r) PROVE QueueTypeOK'
  BY <1>1, <1>2, <1>4
  DEF RequestStep, BuildStart, DisableRead, DeleteList, SearchRead, EnableRead, BuildCreate,
      DeleteNextBank, BuildEnqueueFails, EnableWrite, DisableWrite, DeleteRowOfKB,
      SearchGetBuild, SearchRecall, RetainExperience, Cancel, ReqFails
<1>5. ASSUME NEW w \in Workers, WorkerStep(w) PROVE QueueTypeOK'
  BY <1>1, <1>3, <1>5
  DEF WorkerStep, Load, List, MarkProcessing, ProvisionBank, ReadDocument, ReadAll, Retain,
      Finalize, FailBuild, WorkerCallFails, RetainFails, WorkerGivesUp
<1>6. CASE Crash
  BY <1>6 DEF Crash
<1> QED
  BY <1>1, <1>4, <1>5, <1>6 DEF Next, DocumentStep, DeleteRowCascades, kbVars, Create, AddDocument,
     RemoveDocument

-----------------------------------------------------------------------------
(* The columns the invariant is about, and the few actions that write them.*)

coreVars == <<kbrow, enabled, active, status, owner>>

LEMMA CoreSteps ==
  ASSUME Next
  PROVE  \/ UNCHANGED coreVars
         \/ \E k \in KBs : Create(k)
         \/ \E r \in Requests : EnableWrite(r) \/ DisableWrite(r) \/ DeleteRowOfKB(r)
         \/ \E r \in Requests, b \in Builds : BuildCreate(r, b)
         \/ \E w \in Workers : MarkProcessing(w) \/ Finalize(w) \/ FailBuild(w)
<1> USE DEF coreVars, rowVars
<1>1. ASSUME NEW r \in Requests, RequestStep(r)
      PROVE  \/ UNCHANGED coreVars
             \/ EnableWrite(r) \/ DisableWrite(r) \/ DeleteRowOfKB(r)
             \/ \E b \in Builds : BuildCreate(r, b)
  BY <1>1 DEF RequestStep, BuildStart, DisableRead, DeleteList, SearchRead, EnableRead,
     DeleteNextBank, BuildEnqueue, BuildEnqueueFails, SearchGetBuild, SearchRecall,
     RetainExperience, Cancel, ReqFails
<1>2. ASSUME NEW w \in Workers, WorkerStep(w)
      PROVE  UNCHANGED coreVars \/ MarkProcessing(w) \/ Finalize(w) \/ FailBuild(w)
  BY <1>2 DEF WorkerStep, Receive, Load, List, ProvisionBank, ReadDocument, ReadAll, Retain,
     WorkerCallFails, RetainFails, WorkerGivesUp
<1>3. CASE DocumentStep \/ Crash
  BY <1>3 DEF DocumentStep, DeleteRowCascades, kbVars, Crash
<1>4. ASSUME NEW k \in KBs, NEW d \in Docs, AddDocument(k, d) \/ RemoveDocument(k, d)
      PROVE  UNCHANGED coreVars
  BY <1>4 DEF AddDocument, RemoveDocument
<1> QED BY <1>1, <1>2, <1>3, <1>4 DEF Next

(* What the copy a request carries is worth when it is written. *)
LEMMA EnableCopy ==
  ASSUME IInv, NEW r \in Requests,
         \/ EnableWrite(r)
         \/ DisableWrite(r) /\ req[r].build # NoBuild
  PROVE  Settled(req[r].build, req[r].kb)
BY DEF IInv, CopiesSettled, EnableWrite, DisableWrite, ReqAt

(* A worker writes the status of a build that is not settled. *)
LEMMA WorkerWrites ==
  ASSUME IInv, NEW w \in Workers, MarkProcessing(w) \/ Finalize(w) \/ FailBuild(w)
  PROVE  /\ wk[w].build \in Builds
         /\ status[wk[w].build] \in {"pending", "processing", "gone"}
         /\ UNCHANGED <<kbrow, active, owner>>
         /\ \A b \in Builds : status'[b] # status[b] => b = wk[w].build /\ status[b] # "gone"
         /\ status' \in [Builds -> Statuses \cup {"unborn", "gone"}]
BY DEF IInv, WorkerStatus, MarkProcessing, Finalize, FailBuild, WkAt, UpdateBuild, BuildExists,
       Statuses, TypeOK, RowsTypeOK

LEMMA SettledStays ==
  ASSUME IInv, Next, NEW b \in Builds, NEW k \in KBs, Settled(b, k)
  PROVE  Settled(b, k)'
<1> USE DEF Settled
<1>0. RowsTypeOK
  BY DEF IInv, TypeOK
<1>1. CASE UNCHANGED coreVars
  BY <1>1 DEF coreVars
<1>2. ASSUME NEW j \in KBs, Create(j) PROVE Settled(b, k)'
  BY <1>2 DEF Create
<1>3. ASSUME NEW r \in Requests, EnableWrite(r) \/ DisableWrite(r) PROVE Settled(b, k)'
  BY <1>3 DEF EnableWrite, DisableWrite, UpdateKB
<1>4. ASSUME NEW r \in Requests, DeleteRowOfKB(r) PROVE Settled(b, k)'
  BY <1>4 DEF DeleteRowOfKB, DeleteKB
<1>5. ASSUME NEW r \in Requests, NEW c \in Builds, BuildCreate(r, c) PROVE Settled(b, k)'
  BY <1>0, <1>5 DEF BuildCreate, CreateBuild, RowsTypeOK, rowVars
<1>6. ASSUME NEW w \in Workers, MarkProcessing(w) \/ Finalize(w) \/ FailBuild(w)
      PROVE  Settled(b, k)'
  BY <1>6, WorkerWrites
<1> QED BY <1>1, <1>2, <1>3, <1>4, <1>5, <1>6, CoreSteps

LEMMA RowsStepTypeOK ==
  ASSUME IInv, Next
  PROVE  RowsTypeOK'
<1>0. RowsTypeOK /\ ReqTypeOK /\ WkTypeOK /\ DocTypeOK
  BY DEF IInv, TypeOK
<1>1. CASE UNCHANGED rowVars
  BY <1>0, <1>1, QueryTypeOK
<1>2. ASSUME NEW k \in KBs, Create(k) PROVE RowsTypeOK'
  BY <1>0, <1>2 DEF Create, RowsTypeOK
<1>3. ASSUME NEW k \in KBs, NEW d \in Docs, AddDocument(k, d) \/ RemoveDocument(k, d)
      PROVE  RowsTypeOK'
  BY <1>0, <1>3 DEF AddDocument, RemoveDocument, RowsTypeOK
<1>4. ASSUME NEW c \in Calls, members' = [k \in KBs |-> members[k] \ {call[c].doc}],
             UNCHANGED <<kbrow, enabled, active, status, owner, count>>
      PROVE  RowsTypeOK'
  BY <1>0, <1>4 DEF RowsTypeOK
<1>5. ASSUME NEW r \in Requests, RequestStep(r) PROVE RowsTypeOK'
  <2>1. ASSUME NEW b \in Builds, BuildCreate(r, b) PROVE RowsTypeOK'
    <3>1. req[r].kb \in KBs \cup {NoKB} /\ req[r].n \in Nat
      BY <1>0 DEF ReqTypeOK
    <3>2. CreateBuild(b, req[r].kb, req[r].n) \/ UNCHANGED rowVars
      BY <2>1 DEF BuildCreate
    <3> QED BY <1>0, <3>1, <3>2, QueryTypeOK
  <2>2. CASE EnableWrite(r) \/ DisableWrite(r) \/ DeleteRowOfKB(r)
    <3>1. req[r].kb \in KBs
      BY <2>2 DEF IInv, CopiesSettled, EnableWrite, DisableWrite, DeleteRowOfKB, ReqAt
    <3>2. req[r].build \in Builds \cup {NoBuild}
      BY <1>0 DEF ReqTypeOK
    <3>3. \/ UpdateKB(req[r].kb, TRUE, req[r].build)
          \/ UpdateKB(req[r].kb, FALSE, req[r].build)
          \/ DeleteKB(req[r].kb)
      BY <2>2 DEF EnableWrite, DisableWrite, DeleteRowOfKB
    <3> QED BY <1>0, <3>1, <3>2, <3>3, QueryTypeOK
  <2>3. BuildEnqueueFails(r) => UNCHANGED rowVars
    BY DEF BuildEnqueueFails
  <2> QED
    BY <1>1, <1>5, <2>1, <2>2, <2>3
    DEF RequestStep, BuildStart, DisableRead, DeleteList, SearchRead, EnableRead,
        DeleteNextBank, BuildEnqueue, SearchGetBuild, SearchRecall, RetainExperience, Cancel, ReqFails
<1>6. ASSUME NEW w \in Workers, WorkerStep(w) PROVE RowsTypeOK'
  <2>1. CASE MarkProcessing(w) \/ Finalize(w) \/ FailBuild(w)
    <3>1. \E s \in Statuses : UpdateBuild(wk[w].build, s)
      BY <2>1 DEF MarkProcessing, Finalize, FailBuild, Statuses
    <3>2. wk[w].build \in Builds \cup {NoBuild}
      BY <1>0 DEF WkTypeOK
    <3> QED BY <1>0, <3>1, <3>2, QueryTypeOK
  <2> QED
    BY <1>1, <1>6, <2>1
    DEF WorkerStep, Receive, Load, List, ProvisionBank, ReadDocument, ReadAll, Retain,
        WorkerCallFails, RetainFails, WorkerGivesUp
<1>7. CASE DocumentStep \/ Crash
  BY <1>1, <1>4, <1>7 DEF DocumentStep, DeleteRowCascades, kbVars, rowVars, Crash
<1> QED BY <1>2, <1>3, <1>5, <1>6, <1>7 DEF Next

LEMMA NextTypeOK ==
  ASSUME IInv, Next
  PROVE  TypeOK'
<1>0. DocTypeOK /\ ReqTypeOK /\ WkTypeOK /\ RowsTypeOK
  BY DEF IInv, TypeOK
<1>1. DocTypeOK'
  <2>1. CASE UNCHANGED docVars
    BY <1>0, <2>1 DEF DocTypeOK, docVars
  <2>2. \/ UNCHANGED docVars
        \/ \E c \in Calls, d \in Docs : UploadPut(c, d) \/ DeleteStart(c, d)
        \/ \E c \in Calls : UploadCreate(c) \/ DeleteObject(c) \/ DeleteRow(c) \/ Abandon(c)
        \/ DocCrash
    <3>1. CASE DocumentStep
      BY <3>1 DEF DocumentStep, DeleteRowCascades
    <3>2. ASSUME NEW r \in Requests, RequestStep(r) PROVE UNCHANGED docVars
      BY <3>2 DEF RequestStep, BuildStart, DisableRead, DeleteList, SearchRead, EnableRead,
         BuildCreate, DeleteNextBank, BuildEnqueue, BuildEnqueueFails, EnableWrite,
         DisableWrite, DeleteRowOfKB, SearchGetBuild, SearchRecall, RetainExperience,
         Cancel, ReqFails
    <3>3. ASSUME NEW w \in Workers, WorkerStep(w) PROVE UNCHANGED docVars
      BY <3>3 DEF WorkerStep, Receive, Load, List, MarkProcessing, ProvisionBank,
         ReadDocument, ReadAll, Retain, Finalize, FailBuild, WorkerCallFails, RetainFails,
         WorkerGivesUp
    <3>4. CASE \E k \in KBs : Create(k) \/ (\E d \in Docs : AddDocument(k, d) \/ RemoveDocument(k, d))
      BY <3>4 DEF Create, AddDocument, RemoveDocument
    <3>5. CASE Crash
      BY <3>5 DEF Crash
    <3> QED BY <3>1, <3>2, <3>3, <3>4, <3>5 DEF Next
  <2> QED BY <1>0, <2>1, <2>2, DocStepTypeOK
<1>2. ReqTypeOK'
  <2>1. CASE Crash
    BY <2>1 DEF Crash, ReqTypeOK, IdleReq, ReqPCs
  <2>2. CASE UNCHANGED req
    BY <1>0, <2>2 DEF ReqTypeOK
  <2> QED
    BY <1>0, <2>1, <2>2, RequestKeepsReqType
    DEF Next, DocumentStep, DeleteRowCascades, kbVars, Create, AddDocument,
     RemoveDocument,
        WorkerStep, Receive, Load, List, MarkProcessing, ProvisionBank, ReadDocument, ReadAll,
        Retain, Finalize, FailBuild, WorkerCallFails, RetainFails, WorkerGivesUp
<1>3. WkTypeOK'
  <2>1. CASE Crash
    BY <2>1 DEF Crash, WkTypeOK, IdleWorker, WorkerPCs
  <2>2. CASE UNCHANGED wk
    BY <1>0, <2>2 DEF WkTypeOK
  <2> QED
    BY <2>1, <2>2, WorkerKeepsWkType
    DEF Next, DocumentStep, DeleteRowCascades, kbVars, Create, AddDocument,
     RemoveDocument,
        RequestStep, BuildStart, DisableRead, DeleteList, SearchRead, EnableRead, BuildCreate,
        DeleteNextBank, BuildEnqueue, BuildEnqueueFails, EnableWrite, DisableWrite,
        DeleteRowOfKB, SearchGetBuild, SearchRecall, RetainExperience, Cancel, ReqFails
<1> QED
  BY <1>1, <1>2, <1>3, RowsStepTypeOK, BanksStepTypeOK, QueueStepTypeOK DEF TypeOK

-----------------------------------------------------------------------------
(* The parts of the invariant. *)

LEMMA NextBuildsFollowKBs ==
  ASSUME IInv, Next
  PROVE  BuildsFollowKBs'
<1> USE DEF BuildsFollowKBs, BuildExists, Statuses
<1>0. BuildsFollowKBs /\ RowsTypeOK
  BY DEF IInv, TypeOK
<1>1. CASE UNCHANGED coreVars
  BY <1>0, <1>1 DEF coreVars
<1>2. ASSUME NEW k \in KBs, Create(k) PROVE BuildsFollowKBs'
  BY <1>0, <1>2 DEF Create, RowsTypeOK
<1>3. ASSUME NEW r \in Requests, EnableWrite(r) \/ DisableWrite(r) PROVE BuildsFollowKBs'
  BY <1>0, <1>3 DEF EnableWrite, DisableWrite, UpdateKB
<1>4. ASSUME NEW r \in Requests, DeleteRowOfKB(r) PROVE BuildsFollowKBs'
  BY <1>0, <1>4 DEF DeleteRowOfKB, DeleteKB, ListBuilds, RowsTypeOK
<1>5. ASSUME NEW r \in Requests, NEW c \in Builds, BuildCreate(r, c) PROVE BuildsFollowKBs'
  <2>1. req[r].kb \in KBs
    BY <1>5 DEF IInv, CopiesSettled, BuildCreate, ReqAt
  <2> QED BY <1>0, <1>5, <2>1 DEF BuildCreate, CreateBuild, KBExists, RowsTypeOK, rowVars
<1>6. ASSUME NEW w \in Workers, MarkProcessing(w) \/ Finalize(w) \/ FailBuild(w)
      PROVE  BuildsFollowKBs'
  BY <1>0, <1>6 DEF MarkProcessing, Finalize, FailBuild, UpdateBuild, RowsTypeOK
<1> QED BY <1>1, <1>2, <1>3, <1>4, <1>5, <1>6, CoreSteps

LEMMA NextActiveSettled ==
  ASSUME IInv, Next
  PROVE  ActiveSettled'
<1>0. RowsTypeOK /\ ActiveSettled
  BY DEF IInv, TypeOK
<1> SUFFICES ASSUME NEW k \in KBs
             PROVE  /\ active'[k] # NoBuild =>
                         \E b \in Builds : b = active'[k] /\ Settled(b, k)'
                    /\ kbrow'[k] = "unborn" => active'[k] = NoBuild
  BY DEF ActiveSettled, Settled
<1>a. \A b \in Builds : Settled(b, k) => Settled(b, k)'
  BY SettledStays
<1>1. CASE active'[k] = active[k] /\ (kbrow'[k] = "unborn" => kbrow[k] = "unborn")
  <2>1. active[k] # NoBuild => Settled(active[k], k) /\ active[k] \in Builds
    BY <1>0 DEF ActiveSettled, Settled
  <2> QED BY <1>0, <1>1, <1>a, <2>1 DEF ActiveSettled
<1>2. CASE UNCHANGED coreVars
  BY <1>1, <1>2 DEF coreVars
<1>3. ASSUME NEW j \in KBs, Create(j) PROVE active'[k] = active[k] /\ (kbrow'[k] = "unborn" => kbrow[k] = "unborn")
  BY <1>0, <1>3 DEF Create, RowsTypeOK
<1>4. ASSUME NEW r \in Requests, DeleteRowOfKB(r)
      PROVE  active'[k] = active[k] /\ (kbrow'[k] = "unborn" => kbrow[k] = "unborn")
  BY <1>0, <1>4 DEF DeleteRowOfKB, DeleteKB, RowsTypeOK
<1>5. ASSUME NEW r \in Requests, NEW b \in Builds, BuildCreate(r, b)
      PROVE  active'[k] = active[k] /\ (kbrow'[k] = "unborn" => kbrow[k] = "unborn")
  BY <1>5 DEF BuildCreate, CreateBuild, rowVars
<1>6. ASSUME NEW w \in Workers, MarkProcessing(w) \/ Finalize(w) \/ FailBuild(w)
      PROVE  active'[k] = active[k] /\ (kbrow'[k] = "unborn" => kbrow[k] = "unborn")
  BY <1>6, WorkerWrites
<1>7. ASSUME NEW r \in Requests, EnableWrite(r) \/ DisableWrite(r)
      PROVE  /\ active'[k] # NoBuild =>
                  \E b \in Builds : b = active'[k] /\ Settled(b, k)'
             /\ kbrow'[k] = "unborn" => active'[k] = NoBuild
  <2>1. CASE req[r].kb = k /\ KBExists(k)
    <3>1. active'[k] = req[r].build /\ kbrow'[k] = "live"
      BY <1>0, <1>7, <2>1 DEF EnableWrite, DisableWrite, UpdateKB, KBExists, RowsTypeOK
    <3>2. req[r].build # NoBuild => req[r].build \in Builds /\ Settled(req[r].build, k)
      BY <1>7, <2>1, EnableCopy DEF Settled
    <3> QED BY <1>a, <3>1, <3>2
  <2>2. CASE ~(req[r].kb = k /\ KBExists(k))
    <3>1. active'[k] = active[k] /\ kbrow'[k] = kbrow[k]
      BY <1>0, <1>7, <2>2 DEF EnableWrite, DisableWrite, UpdateKB, RowsTypeOK, KBExists
    <3> QED BY <1>1, <3>1
  <2> QED BY <2>1, <2>2
<1> QED BY <1>1, <1>2, <1>3, <1>4, <1>5, <1>6, <1>7, CoreSteps

(* A step is of the request itself, or it leaves the request where it is. *)
LEMMA RequestMoves ==
  ASSUME IInv, Next, NEW r \in Requests
  PROVE  req'[r] = req[r] \/ RequestStep(r) \/ Crash
<1>0. ReqTypeOK
  BY DEF IInv, TypeOK
<1>1. ASSUME NEW s \in Requests, RequestStep(s), s # r PROVE req'[r] = req[r]
  BY <1>0, <1>1 DEF ReqTypeOK, RequestStep, BuildStart, DisableRead, DeleteList, SearchRead,
     EnableRead, BuildCreate, DeleteNextBank, BuildEnqueue, BuildEnqueueFails, EnableWrite,
     DisableWrite, DeleteRowOfKB, SearchGetBuild, SearchRecall, RetainExperience, Cancel, ReqFails, ReqReturn
<1> QED
  BY <1>1 DEF Next, DocumentStep, DeleteRowCascades, kbVars, Create, AddDocument,
     RemoveDocument,
     WorkerStep, Receive, Load, List, MarkProcessing, ProvisionBank, ReadDocument, ReadAll,
     Retain, Finalize, FailBuild, WorkerCallFails, RetainFails, WorkerGivesUp

CopySettled(r) ==
  /\ req[r].pc \in {"enable", "searchBuild", "recall"} => Settled(req[r].build, req[r].kb)
  /\ req[r].pc = "disable" /\ req[r].build # NoBuild => Settled(req[r].build, req[r].kb)
  /\ req[r].pc # "idle" => req[r].kb \in KBs

(* A copy is settled after a step if it was settled before it. *)
LEMMA CopySettledAfter ==
  ASSUME IInv, Next, NEW r \in Requests, NEW b, NEW k \in KBs,
         req'[r].build = b, req'[r].kb = k,
         req'[r].pc \in {"enable", "searchBuild", "recall"} => Settled(b, k),
         req'[r].pc = "disable" /\ b # NoBuild => Settled(b, k)
  PROVE  CopySettled(r)'
<1>1. Settled(b, k) => Settled(b, k)'
  BY SettledStays DEF Settled
<1> QED BY <1>1 DEF CopySettled

LEMMA NextCopiesSettled ==
  ASSUME IInv, Next
  PROVE  CopiesSettled'
<1>0. ActiveSettled /\ ReqTypeOK
  BY DEF IInv, TypeOK
<1> SUFFICES ASSUME NEW r \in Requests PROVE CopySettled(r)'
  BY DEF CopiesSettled, CopySettled
<1>a. CopySettled(r)
  BY DEF IInv, CopiesSettled, CopySettled
<1>1. CASE req'[r].pc = "idle"
  BY <1>1 DEF CopySettled
<1>2. CASE /\ req[r].pc # "idle" /\ req'[r].kb = req[r].kb /\ req'[r].build = req[r].build
           /\ req'[r].pc \in {"enable", "searchBuild", "recall"} =>
                req[r].pc \in {"enable", "searchBuild", "recall"}
           /\ req'[r].pc = "disable" => req[r].pc = "disable"
  BY <1>2, <1>a, CopySettledAfter DEF CopySettled
<1>3. CASE req'[r] = req[r]
  BY <1>1, <1>2, <1>3
<1>4. CASE Crash
  BY <1>1, <1>4 DEF Crash, IdleReq
<1>5. CASE RequestStep(r)
  <2> USE DEF ReqTypeOK, ReqReturn, IdleReq, ReqAt
  <2>1. ASSUME NEW k \in KBs, BuildStart(r, k) \/ DeleteList(r, k) PROVE CopySettled(r)'
    <3>1. CASE BuildStart(r, k)
      BY <1>0, <3>1, CopySettledAfter DEF BuildStart
    <3>2. CASE DeleteList(r, k)
      BY <1>0, <3>2, CopySettledAfter DEF DeleteList
    <3> QED BY <2>1, <3>1, <3>2
  <2>2. ASSUME NEW k \in KBs, DisableRead(r, k) \/ SearchRead(r, k) PROVE CopySettled(r)'
    <3>1. active[k] # NoBuild => Settled(active[k], k)
      BY <1>0 DEF ActiveSettled
    <3>2. CASE DisableRead(r, k)
      <4>1. req'[r].kb = k /\ req'[r].build = active[k] /\ req'[r].pc = "disable"
        BY <1>0, <3>2 DEF DisableRead
      <4> QED BY <3>1, <4>1, CopySettledAfter
    <3>3. CASE SearchRead(r, k)
      <4>1. req'[r].kb = k /\ req'[r].build = active[k] /\ req'[r].pc = "searchBuild"
        BY <1>0, <3>3 DEF SearchRead
      <4>2. active[k] # NoBuild
        BY <3>3 DEF SearchRead, IsSearchable
      <4> QED BY <3>1, <4>1, <4>2, CopySettledAfter
    <3> QED BY <2>2, <3>2, <3>3
  <2>3. ASSUME NEW k \in KBs, NEW b \in Builds, EnableRead(r, k, b) PROVE CopySettled(r)'
    <3>1. req'[r].kb = k /\ req'[r].build = b /\ req'[r].pc = "enable" /\ Settled(b, k)
      BY <1>0, <2>3 DEF EnableRead, Settled
    <3> QED BY <3>1, CopySettledAfter
  <2>4. ASSUME NEW b \in Builds, BuildCreate(r, b) PROVE CopySettled(r)'
    <3>1. req[r].kb \in KBs
      BY <1>a, <2>4 DEF CopySettled, BuildCreate
    <3>2. \/ req'[r].pc = "idle"
          \/ req'[r].pc = "enqueue" /\ req'[r].kb = req[r].kb /\ req'[r].build = b
      BY <1>0, <2>4 DEF BuildCreate
    <3> QED BY <1>1, <3>1, <3>2, CopySettledAfter
  <2>5. ASSUME NEW b \in Builds, DeleteNextBank(r, b) PROVE CopySettled(r)'
    BY <1>0, <1>2, <2>5 DEF DeleteNextBank
  <2>6. CASE \/ BuildEnqueue(r) \/ BuildEnqueueFails(r) \/ EnableWrite(r) \/ DisableWrite(r)
             \/ DeleteRowOfKB(r) \/ SearchRecall(r) \/ RetainExperience(r) \/ ReqFails(r)
             \/ Cancel(r)
    <3>1. ReqReturn(r)
      BY <2>6 DEF BuildEnqueue, BuildEnqueueFails, EnableWrite, DisableWrite, DeleteRowOfKB,
         SearchRecall, RetainExperience, ReqFails, Cancel
    <3> QED BY <1>0, <1>1, <3>1
  <2>7. CASE SearchGetBuild(r)
    BY <1>0, <1>1, <1>2, <2>7 DEF SearchGetBuild
  <2> QED
    BY <1>5, <2>1, <2>2, <2>3, <2>4, <2>5, <2>6, <2>7 DEF RequestStep
<1> QED BY <1>3, <1>4, <1>5, RequestMoves

(* A step is of the worker itself, or it leaves the worker where it is. *)
LEMMA WorkerMoves ==
  ASSUME IInv, Next, NEW w \in Workers
  PROVE  wk'[w] = wk[w] \/ WorkerStep(w) \/ Crash
<1>0. WkTypeOK
  BY DEF IInv, TypeOK
<1>1. ASSUME NEW v \in Workers, WorkerStep(v), v # w PROVE wk'[w] = wk[w]
  BY <1>0, <1>1 DEF WkTypeOK, WkGoto, WkReturn, WorkerStep, Receive, Load, List,
     MarkProcessing, ProvisionBank, ReadDocument, ReadAll, Retain, Finalize, FailBuild,
     WorkerCallFails, RetainFails, WorkerGivesUp
<1> QED
  BY <1>1 DEF Next, DocumentStep, DeleteRowCascades, kbVars, Create, AddDocument,
     RemoveDocument,
     RequestStep, BuildStart, DisableRead, DeleteList, SearchRead, EnableRead, BuildCreate,
     DeleteNextBank, BuildEnqueue, BuildEnqueueFails, EnableWrite, DisableWrite,
     DeleteRowOfKB, SearchGetBuild, SearchRecall, RetainExperience, Cancel, ReqFails

(* A worker keeps its build, or takes the head of the queue, or lets go. *)
LEMMA WorkerHolds ==
  ASSUME IInv, NEW w \in Workers, WorkerStep(w), ~Receive(w)
  PROVE  /\ UNCHANGED queue
         /\ \/ ~WkAt(w, "idle") /\ wk'[w].build = wk[w].build
            \/ wk'[w] = IdleWorker
<1> USE DEF WkTypeOK, WkGoto, WkReturn, WkAt
<1>0. WkTypeOK
  BY DEF IInv, TypeOK
<1>1. CASE Load(w) \/ MarkProcessing(w) \/ ProvisionBank(w)
  BY <1>0, <1>1 DEF Load, MarkProcessing, ProvisionBank
<1>2. CASE List(w)
  BY <1>0, <1>2 DEF List
<1>3. ASSUME NEW d \in Docs, ReadDocument(w, d)
      PROVE  UNCHANGED queue /\ ~WkAt(w, "idle") /\ wk'[w].build = wk[w].build
  BY <1>0, <1>3 DEF ReadDocument
<1>4. CASE ReadAll(w) \/ Retain(w) \/ Finalize(w) \/ FailBuild(w)
  BY <1>0, <1>4 DEF ReadAll, Retain, Finalize, FailBuild
<1>5. CASE WorkerCallFails(w) \/ RetainFails(w) \/ WorkerGivesUp(w)
  BY <1>0, <1>5 DEF WorkerCallFails, RetainFails, WorkerGivesUp
<1> QED BY <1>1, <1>2, <1>3, <1>4, <1>5 DEF WorkerStep

(* The status of a build changes in the hands of its holder, or to gone,   *)
(* or because the build is created.                                        *)
LEMMA StatusMoves ==
  ASSUME IInv, Next, NEW b \in Builds
  PROVE  \/ status'[b] = status[b]
         \/ status'[b] = "gone" /\ status[b] # "unborn"
         \/ status[b] = "unborn" /\ status'[b] = "pending"
         \/ \E w \in Workers : /\ wk[w].build = b
                               /\ MarkProcessing(w) \/ Finalize(w) \/ FailBuild(w)
<1>0. RowsTypeOK
  BY DEF IInv, TypeOK
<1>1. CASE UNCHANGED coreVars
  BY <1>1 DEF coreVars
<1>2. ASSUME NEW k \in KBs, Create(k) PROVE status'[b] = status[b]
  BY <1>2 DEF Create
<1>3. ASSUME NEW r \in Requests, EnableWrite(r) \/ DisableWrite(r)
      PROVE  status'[b] = status[b]
  BY <1>3 DEF EnableWrite, DisableWrite, UpdateKB
<1>4. ASSUME NEW r \in Requests, DeleteRowOfKB(r)
      PROVE  status'[b] = status[b] \/ (status'[b] = "gone" /\ status[b] # "unborn")
  BY <1>0, <1>4 DEF DeleteRowOfKB, DeleteKB, ListBuilds, BuildExists, Statuses, RowsTypeOK
<1>5. ASSUME NEW r \in Requests, NEW c \in Builds, BuildCreate(r, c)
      PROVE  status'[b] = status[b] \/ (status[b] = "unborn" /\ status'[b] = "pending")
  <2>1. \/ status' = status
        \/ status[c] = "unborn" /\ status' = [status EXCEPT ![c] = "pending"]
    BY <1>5 DEF BuildCreate, CreateBuild, rowVars
  <2> QED BY <1>0, <2>1 DEF RowsTypeOK
<1>6. ASSUME NEW w \in Workers, MarkProcessing(w) \/ Finalize(w) \/ FailBuild(w)
      PROVE  status'[b] = status[b] \/ wk[w].build = b
  BY <1>6, WorkerWrites
<1> QED BY <1>1, <1>2, <1>3, <1>4, <1>5, <1>6, CoreSteps

LEMMA NextWorkerStatus ==
  ASSUME IInv, Next
  PROVE  WorkerStatus'
<1>0. WkTypeOK /\ WorkerStatus /\ RowsTypeOK
  BY DEF IInv, TypeOK
<1> DEFINE S(w) ==
      /\ wk[w].pc # "idle" => wk[w].build \in Builds
      /\ wk[w].pc \in {"load", "list", "mark"} =>
           status[wk[w].build] \in {"pending", "gone"}
      /\ wk[w].pc \in {"createBank", "read", "retain", "finalize"} =>
           status[wk[w].build] \in {"processing", "gone"}
      /\ wk[w].pc = "fail" => status[wk[w].build] \in {"pending", "processing", "gone"}
<1> SUFFICES ASSUME NEW w \in Workers PROVE S(w)'
  BY DEF WorkerStatus
<1>a. S(w)
  BY <1>0 DEF WorkerStatus
<1>1. CASE wk'[w].pc = "idle"
  BY <1>1
<1>2. CASE Crash
  BY <1>1, <1>2 DEF Crash, IdleWorker
<1>3. CASE wk'[w] = wk[w] /\ wk[w].pc # "idle"
  <2>1. wk[w].build \in Builds /\ status[wk[w].build] # "unborn"
    BY <1>0, <1>a, <1>3 DEF WkTypeOK, WorkerPCs
  <2>2. ASSUME NEW v \in Workers, wk[v].build = wk[w].build,
               MarkProcessing(v) \/ Finalize(v) \/ FailBuild(v)
        PROVE  FALSE
    <3>1. ~WkAt(v, "idle")
      BY <2>2 DEF MarkProcessing, Finalize, FailBuild, WkAt
    <3>2. v = w
      BY <1>3, <2>2, <3>1 DEF IInv, OneHolder, WkAt
    <3>3. wk'[w].pc # wk[w].pc
      BY <1>0, <2>2, <3>2 DEF WkTypeOK, MarkProcessing, Finalize, FailBuild, WkGoto, WkReturn,
         WkAt, IdleWorker
    <3> QED BY <1>3, <3>3
  <2>3. status'[wk[w].build] \in {status[wk[w].build], "gone"}
    BY <2>1, <2>2, StatusMoves
  <2> QED BY <1>3, <1>a, <2>1, <2>3
<1>4. CASE WorkerStep(w)
  <2> USE DEF WkTypeOK, WkGoto, WkReturn, WkAt, IdleWorker
  <2>1. CASE Receive(w)
    <3>1. Head(queue) = queue[1] /\ 1 \in 1..Len(queue) /\ queue[1] \in Builds
      BY <2>1 DEF Receive, IInv, TypeOK, QueueTypeOK
    <3>2. status[queue[1]] \in {"pending", "gone"}
      BY <3>1 DEF IInv, WaitingStatus
    <3> QED BY <1>0, <2>1, <3>1, <3>2 DEF Receive, rowVars
  <2>2. CASE Load(w) \/ ProvisionBank(w) \/ Retain(w) \/ RetainFails(w)
    BY <1>0, <1>a, <2>2 DEF Load, ProvisionBank, Retain, RetainFails, rowVars
  <2>3. CASE List(w) \/ ReadAll(w) \/ WorkerCallFails(w) \/ WorkerGivesUp(w)
    BY <1>0, <1>a, <2>3 DEF List, ReadAll, WorkerCallFails, WorkerGivesUp, rowVars
  <2>4. ASSUME NEW d \in Docs, ReadDocument(w, d) PROVE S(w)'
    BY <1>0, <1>a, <2>4 DEF ReadDocument, rowVars
  <2>5. CASE MarkProcessing(w)
    BY <1>0, <1>a, <2>5 DEF MarkProcessing, UpdateBuild, BuildExists, Statuses, RowsTypeOK
  <2>6. CASE Finalize(w) \/ FailBuild(w)
    BY <1>0, <1>1, <2>6 DEF Finalize, FailBuild
  <2> QED BY <1>4, <2>1, <2>2, <2>3, <2>4, <2>5, <2>6 DEF WorkerStep
<1> QED BY <1>1, <1>2, <1>3, <1>4, WorkerMoves

LEMMA QueueMoves ==
  ASSUME Next
  PROVE  \/ UNCHANGED queue
         \/ \E r \in Requests : BuildEnqueue(r)
         \/ \E w \in Workers : Receive(w)
         \/ Crash
<1>1. ASSUME NEW r \in Requests, RequestStep(r) PROVE UNCHANGED queue \/ BuildEnqueue(r)
  BY <1>1 DEF RequestStep, BuildStart, DisableRead, DeleteList, SearchRead, EnableRead,
     BuildCreate, DeleteNextBank, BuildEnqueueFails, EnableWrite, DisableWrite,
     DeleteRowOfKB, SearchGetBuild, SearchRecall, RetainExperience, Cancel, ReqFails
<1>2. ASSUME NEW w \in Workers, WorkerStep(w) PROVE UNCHANGED queue \/ Receive(w)
  BY <1>2 DEF WorkerStep, Load, List, MarkProcessing, ProvisionBank, ReadDocument, ReadAll,
     Retain, Finalize, FailBuild, WorkerCallFails, RetainFails, WorkerGivesUp
<1> QED
  BY <1>1, <1>2 DEF Next, DocumentStep, DeleteRowCascades, kbVars, Create, AddDocument, RemoveDocument

(* A request comes to "enqueue" with a build it has just created. *)
LEMMA EnqueueMoves ==
  ASSUME IInv, Next, NEW r \in Requests, req'[r].pc = "enqueue"
  PROVE  \/ req[r].pc = "enqueue" /\ req'[r].build = req[r].build
         \/ /\ req'[r].build \in Builds
            /\ status[req'[r].build] = "unborn"
            /\ status'[req'[r].build] = "pending"
            /\ BuildCreate(r, req'[r].build)
<1>0. ReqTypeOK /\ RowsTypeOK
  BY DEF IInv, TypeOK
<1> USE DEF ReqTypeOK, ReqReturn, IdleReq, ReqAt
<1>1. CASE Crash
  BY <1>1 DEF Crash
<1>2. CASE RequestStep(r)
  <2>1. ASSUME NEW b \in Builds, BuildCreate(r, b)
        PROVE  req'[r].build = b /\ status[b] = "unborn" /\ status'[b] = "pending"
    <3>1. /\ status[b] = "unborn" /\ status' = [status EXCEPT ![b] = "pending"]
          /\ req' = [req EXCEPT ![r].pc = "enqueue", ![r].build = b]
      BY <1>0, <2>1 DEF BuildCreate, CreateBuild
    <3> QED BY <1>0, <3>1 DEF RowsTypeOK
  <2>2. ASSUME NEW b \in Builds, DeleteNextBank(r, b) PROVE FALSE
    BY <1>0, <2>2 DEF DeleteNextBank
  <2>3. ASSUME NEW k \in KBs, BuildStart(r, k) \/ DisableRead(r, k) \/ DeleteList(r, k) \/ SearchRead(r, k)
        PROVE  FALSE
    <3>1. req'[r].pc \in {"createBuild", "disable", "deleteBanks", "searchBuild"}
      <4>1. CASE BuildStart(r, k)
        BY <1>0, <4>1 DEF BuildStart
      <4>2. CASE DisableRead(r, k)
        BY <1>0, <4>2 DEF DisableRead
      <4>3. CASE DeleteList(r, k)
        BY <1>0, <4>3 DEF DeleteList
      <4>4. CASE SearchRead(r, k)
        BY <1>0, <4>4 DEF SearchRead
      <4> QED BY <2>3, <4>1, <4>2, <4>3, <4>4
    <3> QED BY <3>1
  <2>4. ASSUME NEW k \in KBs, NEW b \in Builds, EnableRead(r, k, b) PROVE FALSE
    BY <1>0, <2>4 DEF EnableRead
  <2>5. CASE \/ BuildEnqueue(r) \/ BuildEnqueueFails(r) \/ EnableWrite(r) \/ DisableWrite(r)
             \/ DeleteRowOfKB(r) \/ SearchRecall(r) \/ RetainExperience(r) \/ ReqFails(r)
             \/ Cancel(r)
    <3>1. ReqReturn(r)
      BY <2>5 DEF BuildEnqueue, BuildEnqueueFails, EnableWrite, DisableWrite, DeleteRowOfKB,
         SearchRecall, RetainExperience, ReqFails, Cancel
    <3> QED BY <1>0, <3>1
  <2>6. CASE SearchGetBuild(r)
    BY <1>0, <2>6 DEF SearchGetBuild
  <2> QED
    BY <1>2, <2>1, <2>2, <2>3, <2>4, <2>5, <2>6 DEF RequestStep
<1> QED BY <1>1, <1>2, RequestMoves

LEMMA UnheldStatus ==
  ASSUME IInv, Next, NEW b \in Builds, status[b] \in {"pending", "gone"},
         \A w \in Workers : ~WkAt(w, "idle") => wk[w].build # b
  PROVE  status'[b] \in {"pending", "gone"}
<1>1. ASSUME NEW w \in Workers, wk[w].build = b,
             MarkProcessing(w) \/ Finalize(w) \/ FailBuild(w)
      PROVE  FALSE
  BY <1>1 DEF MarkProcessing, Finalize, FailBuild, WkAt
<1> QED BY <1>1, StatusMoves

LEMMA NextWaitingStatus ==
  ASSUME IInv, Next
  PROVE  WaitingStatus'
<1>0. QueueTypeOK /\ ReqTypeOK /\ WaitingStatus /\ OneHolder
  BY DEF IInv, TypeOK
<1>1. \A i \in 1..Len(queue) :
        queue[i] \in Builds /\ status'[queue[i]] \in {"pending", "gone"}
  <2> TAKE i \in 1..Len(queue)
  <2>1. queue[i] \in Builds /\ status[queue[i]] \in {"pending", "gone"}
    BY <1>0 DEF QueueTypeOK, WaitingStatus
  <2>2. \A w \in Workers : ~WkAt(w, "idle") => wk[w].build # queue[i]
    BY <1>0 DEF OneHolder
  <2> QED BY <2>1, <2>2, UnheldStatus
<1>2. \A r \in Requests : ReqAt(r, "enqueue") =>
        req[r].build \in Builds /\ status'[req[r].build] \in {"pending", "gone"}
  <2> SUFFICES ASSUME NEW r \in Requests, ReqAt(r, "enqueue")
               PROVE  req[r].build \in Builds /\ status'[req[r].build] \in {"pending", "gone"}
    OBVIOUS
  <2>1. req[r].build \in Builds /\ status[req[r].build] \in {"pending", "gone"}
    BY <1>0 DEF WaitingStatus
  <2>2. \A w \in Workers : ~WkAt(w, "idle") => wk[w].build # req[r].build
    BY <1>0 DEF OneHolder
  <2> QED BY <2>1, <2>2, UnheldStatus
<1>3. \A i \in 1..Len(queue') : status'[queue'[i]] \in {"pending", "gone"}
  <2>1. CASE UNCHANGED queue
    BY <1>1, <2>1
  <2>2. ASSUME NEW r \in Requests, BuildEnqueue(r)
        PROVE  \A i \in 1..Len(queue') : status'[queue'[i]] \in {"pending", "gone"}
    <3>1. req[r].build \in Builds /\ status'[req[r].build] \in {"pending", "gone"}
      BY <1>2, <2>2 DEF BuildEnqueue
    <3> QED BY <1>0, <1>1, <2>2, <3>1 DEF BuildEnqueue, QueueTypeOK
  <2>3. ASSUME NEW w \in Workers, Receive(w)
        PROVE  \A i \in 1..Len(queue') : status'[queue'[i]] \in {"pending", "gone"}
    BY <1>0, <1>1, <2>3 DEF Receive, QueueTypeOK
  <2>4. CASE Crash
    BY <2>4 DEF Crash
  <2> QED BY <2>1, <2>2, <2>3, <2>4, QueueMoves
<1>4. ASSUME NEW r \in Requests, req'[r].pc = "enqueue"
      PROVE  req'[r].build \in Builds /\ status'[req'[r].build] \in {"pending", "gone"}
  BY <1>2, <1>4, EnqueueMoves DEF ReqAt
<1> QED BY <1>3, <1>4 DEF WaitingStatus, ReqAt

(* No holder has a build that is not born. *)
LEMMA HeldAreBorn ==
  ASSUME IInv, NEW b, status[b] = "unborn"
  PROVE  /\ \A w \in Workers : ~WkAt(w, "idle") => wk[w].build # b
         /\ \A i \in 1..Len(queue) : queue[i] # b
         /\ \A r \in Requests : ReqAt(r, "enqueue") => req[r].build # b
BY DEF IInv, TypeOK, WkTypeOK, WorkerPCs, WorkerStatus, WaitingStatus, WkAt

LEMMA NextOneHolder ==
  ASSUME IInv, Next
  PROVE  OneHolder'
<1>0. QueueTypeOK /\ ReqTypeOK /\ WkTypeOK /\ OneHolder
  BY DEF IInv, TypeOK
<1>w. ASSUME NEW w \in Workers, wk'[w].pc # "idle"
      PROVE  \/ ~WkAt(w, "idle") /\ wk'[w].build = wk[w].build
             \/ Receive(w) /\ wk'[w].build = Head(queue)
  <2>1. Receive(w) => wk'[w].build = Head(queue)
    BY <1>0 DEF Receive, WkTypeOK
  <2> QED BY <1>w, <2>1, WorkerMoves, WorkerHolds DEF Crash, IdleWorker, WkAt
<1>1. CASE Crash
  BY <1>1 DEF Crash, OneHolder, IdleReq, IdleWorker, ReqAt, WkAt
<1>2. ASSUME NEW v \in Workers, Receive(v)
      PROVE  OneHolder'
  <2>1. /\ queue # <<>> /\ queue' = Tail(queue) /\ req' = req
        /\ \A i \in 1..Len(queue') : queue'[i] = queue[i + 1] /\ i + 1 \in 1..Len(queue)
        /\ Head(queue) = queue[1] /\ 1 \in 1..Len(queue)
    BY <1>0, <1>2 DEF Receive, QueueTypeOK
  <2>2. \A w \in Workers \ {v} : wk'[w] = wk[w]
    BY <1>0, <1>2 DEF Receive, WkTypeOK
  <2>3. wk'[v].build = queue[1] /\ WkAt(v, "idle")
    BY <1>0, <1>2, <2>1 DEF Receive, WkTypeOK
  <2>4. \A w, x \in Workers :
          w # x /\ ~WkAt(w, "idle")' /\ ~WkAt(x, "idle")' => wk'[w].build # wk'[x].build
    BY <1>0, <2>1, <2>2, <2>3 DEF OneHolder, WkAt
  <2>5. \A i, j \in 1..Len(queue') : i # j => queue'[i] # queue'[j]
    <3> TAKE i, j \in 1..Len(queue')
    <3>1. i # j => i + 1 # j + 1
      OBVIOUS
    <3> QED BY <1>0, <2>1, <3>1 DEF OneHolder
  <2>6. \A i \in 1..Len(queue'), w \in Workers :
          ~WkAt(w, "idle")' => wk'[w].build # queue'[i]
    <3> TAKE i \in 1..Len(queue'), w \in Workers
    <3>1. queue'[i] = queue[i + 1] /\ i + 1 \in 1..Len(queue) /\ i + 1 # 1
      BY <2>1
    <3>2. queue[i + 1] # queue[1]
      BY <1>0, <2>1, <3>1 DEF OneHolder
    <3> QED BY <1>0, <2>2, <2>3, <3>1, <3>2 DEF OneHolder, WkAt
  <2>7. \A r \in Requests : ReqAt(r, "enqueue")' =>
          /\ \A s \in Requests : s # r /\ ReqAt(s, "enqueue")' => req'[s].build # req'[r].build
          /\ \A i \in 1..Len(queue') : queue'[i] # req'[r].build
          /\ \A w \in Workers : ~WkAt(w, "idle")' => wk'[w].build # req'[r].build
    BY <1>0, <2>1, <2>2, <2>3 DEF OneHolder, WkAt, ReqAt
  <2> QED BY <2>4, <2>5, <2>6, <2>7 DEF OneHolder
<1>3. ASSUME NEW r \in Requests, BuildEnqueue(r)
      PROVE  OneHolder'
  <2>1. /\ wk' = wk
        /\ queue' = Append(queue, req[r].build)
        /\ req[r].build \in Builds
        /\ ReqAt(r, "enqueue")
    BY <1>3 DEF BuildEnqueue, IInv, WaitingStatus
  <2>2. /\ Len(queue') = Len(queue) + 1
        /\ \A i \in 1..Len(queue) : queue'[i] = queue[i]
        /\ queue'[Len(queue) + 1] = req[r].build
        /\ Len(queue) \in Nat
    BY <1>0, <2>1 DEF QueueTypeOK
  <2>3. \A s \in Requests : ReqAt(s, "enqueue")' => s # r /\ ReqAt(s, "enqueue") /\ req'[s] = req[s]
    BY <1>0, <1>3 DEF BuildEnqueue, ReqReturn, IdleReq, ReqTypeOK, ReqAt
  <2>4. \A i, j \in 1..Len(queue') : i # j => queue'[i] # queue'[j]
    BY <1>0, <2>1, <2>2 DEF OneHolder
  <2>5. \A i \in 1..Len(queue'), w \in Workers :
          ~WkAt(w, "idle")' => wk'[w].build # queue'[i]
    BY <1>0, <2>1, <2>2 DEF OneHolder, WkAt
  <2>6. \A s \in Requests : ReqAt(s, "enqueue")' =>
          /\ \A t \in Requests : t # s /\ ReqAt(t, "enqueue")' => req'[t].build # req'[s].build
          /\ \A i \in 1..Len(queue') : queue'[i] # req'[s].build
          /\ \A w \in Workers : ~WkAt(w, "idle")' => wk'[w].build # req'[s].build
    BY <1>0, <2>1, <2>2, <2>3 DEF OneHolder, WkAt
  <2>7. \A v, w \in Workers :
          v # w /\ ~WkAt(v, "idle")' /\ ~WkAt(w, "idle")' => wk'[v].build # wk'[w].build
    BY <1>0, <2>1 DEF OneHolder, WkAt
  <2> QED BY <2>4, <2>5, <2>6, <2>7 DEF OneHolder
<1>4. CASE UNCHANGED queue /\ ~\E w \in Workers : Receive(w)
  <2>1. \A w \in Workers : ~WkAt(w, "idle")' => ~WkAt(w, "idle") /\ wk'[w].build = wk[w].build
    BY <1>w, <1>4 DEF WkAt
  <2>2. ASSUME NEW r \in Requests, ReqAt(r, "enqueue")',
               NEW s \in Requests, s # r, ReqAt(s, "enqueue")'
        PROVE  req'[s].build # req'[r].build
    <3>1. CASE ReqAt(r, "enqueue") /\ ReqAt(s, "enqueue")
               /\ req'[r].build = req[r].build /\ req'[s].build = req[s].build
      BY <1>0, <2>2, <3>1 DEF OneHolder
    <3>2. ASSUME NEW x \in Requests, NEW y \in Requests, x # y, ReqAt(y, "enqueue")',
                 NEW b \in Builds, BuildCreate(x, b), req'[x].build = b, status[b] = "unborn"
          PROVE  req'[y].build # b
      <4>1. req'[y] = req[y]
        BY <1>0, <3>2 DEF BuildCreate, ReqReturn, ReqTypeOK
      <4> QED BY <3>2, <4>1, HeldAreBorn DEF ReqAt
    <3> QED BY <2>2, <3>1, <3>2, EnqueueMoves DEF ReqAt
  <2>3. ASSUME NEW r \in Requests, ReqAt(r, "enqueue")'
        PROVE  /\ \A i \in 1..Len(queue) : queue[i] # req'[r].build
               /\ \A w \in Workers : ~WkAt(w, "idle") => wk[w].build # req'[r].build
    <3>1. CASE ReqAt(r, "enqueue") /\ req'[r].build = req[r].build
      BY <1>0, <3>1 DEF OneHolder
    <3>2. CASE status[req'[r].build] = "unborn"
      BY <3>2, HeldAreBorn
    <3> QED BY <2>3, <3>1, <3>2, EnqueueMoves DEF ReqAt
  <2> QED
    BY <1>0, <1>4, <2>1, <2>2, <2>3 DEF OneHolder, WkAt
<1>5. (\E w \in Workers : Receive(w)) \/ (\E r \in Requests : BuildEnqueue(r)) \/ Crash
        \/ (UNCHANGED queue /\ ~\E w \in Workers : Receive(w))
  BY QueueMoves
<1> QED BY <1>1, <1>2, <1>3, <1>4, <1>5

-----------------------------------------------------------------------------
(* The theorems. *)

LEMMA InitIInv == Init => IInv
<1>1. Init => TypeOK
  BY InitTypeOK
<1>2. Init => BuildsFollowKBs /\ ActiveSettled
  BY DEF Init, BuildsFollowKBs, ActiveSettled, BuildExists, Statuses
<1>3. Init => CopiesSettled /\ WorkerStatus /\ WaitingStatus /\ OneHolder
  BY DEF Init, CopiesSettled, WorkerStatus, WaitingStatus, OneHolder, IdleReq, IdleWorker,
     ReqAt, WkAt
<1> QED BY <1>1, <1>2, <1>3 DEF IInv

LEMMA NextIInv == IInv /\ [Next]_vars => IInv'
<1> SUFFICES ASSUME IInv, [Next]_vars PROVE IInv'
  OBVIOUS
<1>1. CASE Next
  BY <1>1, NextTypeOK, NextBuildsFollowKBs, NextActiveSettled, NextCopiesSettled,
     NextWorkerStatus, NextWaitingStatus, NextOneHolder DEF IInv
<1>2. CASE UNCHANGED vars
  BY <1>2 DEF vars, kbVars, docVars, rowVars, bankVars, IInv, TypeOK, DocTypeOK, RowsTypeOK,
     BanksTypeOK, QueueTypeOK, ReqTypeOK, WkTypeOK, BuildsFollowKBs, ActiveSettled, Settled,
     BuildExists, CopiesSettled, WorkerStatus, WaitingStatus, OneHolder, ReqAt, WkAt
<1> QED BY <1>1, <1>2

(* IInv holds in every reachable state: the invariant behind the rest. *)
THEOREM Invariance == Spec => []IInv
BY InitIInv, NextIInv, PTL DEF Spec

(* The variables keep their types in every reachable state. *)
THEOREM TypeCorrectness == Spec => []TypeOK
<1>1. IInv => TypeOK
  BY DEF IInv
<1> QED BY <1>1, Invariance, PTL

(* Whatever interleaves, fails or crashes between the reads of Enable and  *)
(* Disable and their writes, a knowledge base points at nothing or at a    *)
(* ready build of its own.                                                 *)
THEOREM ActivePointsAtReadyBuild == Spec => []ActiveBuildReady
<1>1. IInv => ActiveBuildReady
  BY DEF IInv, ActiveBuildReady, ActiveSettled, Settled, BuildsFollowKBs, KBExists
<1> QED BY <1>1, Invariance, PTL

(* No two workers ever process the same build, though the status check of  *)
(* ProcessBuild and its write are two calls.                               *)
THEOREM OneWorkerPerBuild == Spec => []ExclusiveProcessing
<1>1. IInv => ExclusiveProcessing
  BY DEF IInv, ExclusiveProcessing, Processes, OneHolder, WkAt
<1> QED BY <1>1, Invariance, PTL

(* A search asks only banks of builds of the knowledge base it was given.  *)
THEOREM SearchesStayHome == Spec => []SearchAsksOwnReadyBank
<1>1. IInv => SearchAsksOwnReadyBank
  BY DEF IInv, SearchAsksOwnReadyBank, CopiesSettled, Settled, ReqAt
<1> QED BY <1>1, Invariance, PTL

LEMMA StepFollowsLifecycle ==
  ASSUME IInv, Next, NEW b \in Builds, status'[b] # status[b]
  PROVE  <<status[b], status'[b]>> \in Lifecycle
<1> USE DEF Lifecycle, Statuses
<1>0. RowsTypeOK
  BY DEF IInv, TypeOK
<1>1. ASSUME NEW w \in Workers, wk[w].build = b,
             MarkProcessing(w) \/ Finalize(w) \/ FailBuild(w)
      PROVE  <<status[b], status'[b]>> \in Lifecycle
  <2>1. status[b] # "gone"
    BY <1>1, WorkerWrites
  <2>2. CASE MarkProcessing(w)
    BY <1>0, <1>1, <2>1, <2>2 DEF MarkProcessing, UpdateBuild, RowsTypeOK, IInv, WorkerStatus, WkAt
  <2>3. CASE Finalize(w)
    BY <1>0, <1>1, <2>1, <2>3 DEF Finalize, UpdateBuild, RowsTypeOK, IInv, WorkerStatus, WkAt
  <2>4. CASE FailBuild(w)
    BY <1>0, <1>1, <2>1, <2>4 DEF FailBuild, UpdateBuild, RowsTypeOK, IInv, WorkerStatus, WkAt
  <2> QED BY <1>1, <2>2, <2>3, <2>4
<1>2. CASE status'[b] = "gone" /\ status[b] # "unborn"
  BY <1>0, <1>2 DEF RowsTypeOK
<1>3. CASE status[b] = "unborn" /\ status'[b] = "pending"
  BY <1>3
<1> QED BY <1>1, <1>2, <1>3, StatusMoves

(* No late write, from whatever stale copy, reopens a settled build or     *)
(* revives a deleted one.                                                  *)
THEOREM BuildsSettleOnce == Spec => StatusFollowsLifecycle
<1> DEFINE Step == \A b \in Builds :
      status'[b] # status[b] => <<status[b], status'[b]>> \in Lifecycle
<1>1. IInv /\ [Next]_vars => [Step]_vars
  BY StepFollowsLifecycle
<1> QED BY <1>1, Invariance, PTL DEF Spec, StatusFollowsLifecycle

-----------------------------------------------------------------------------
(* Refinement: every step is a step of SnapshotService, or a stutter. *)

LEMMA InitRefines == Init => Service!Init
BY DEF Init, Service!Init, OpenOf, SnapshotOf, ServingOf, KBExists

(* Nothing a user sees changes. *)
LEMMA Stutter ==
  ASSUME \A k \in KBs : OpenOf(k)' = OpenOf(k) /\ ServingOf(k)' = ServingOf(k),
         \A b \in Builds : SnapshotOf(b)' = SnapshotOf(b),
         owner' = owner
  PROVE  UNCHANGED Service!snapshotVars
BY DEF Service!snapshotVars

LEMMA StepRefines ==
  ASSUME IInv, Next
  PROVE  Service!Next \/ UNCHANGED Service!snapshotVars
<1> USE DEF Service!Next
<1>0. RowsTypeOK
  BY DEF IInv, TypeOK
<1>1. CASE UNCHANGED coreVars
  <2>1. \A k \in KBs : OpenOf(k)' = OpenOf(k) /\ ServingOf(k)' = ServingOf(k)
    BY <1>1 DEF coreVars, OpenOf, ServingOf, KBExists, IsSearchable
  <2>2. \A b \in Builds : SnapshotOf(b)' = SnapshotOf(b)
    BY <1>1 DEF coreVars, SnapshotOf
  <2> QED BY <1>1, <2>1, <2>2, Stutter DEF coreVars
<1>2. ASSUME NEW k \in KBs, Create(k) PROVE Service!Open(k)
  <2>1. \A b \in Builds : SnapshotOf(b)' = SnapshotOf(b)
    BY <1>2 DEF Create, SnapshotOf
  <2>2. active[k] = NoBuild
    BY <1>2 DEF IInv, ActiveSettled, Create
  <2>3. \A j \in KBs : ServingOf(j)' = ServingOf(j)
    <3> TAKE j \in KBs
    <3>1. enabled' = enabled /\ active' = active /\ (j # k => kbrow'[j] = kbrow[j])
      BY <1>0, <1>2 DEF Create, RowsTypeOK
    <3>2. CASE j = k
      BY <2>2, <3>1, <3>2 DEF ServingOf, IsSearchable
    <3>3. CASE j # k
      BY <3>1, <3>3 DEF ServingOf, IsSearchable, KBExists
    <3> QED BY <3>2, <3>3
  <2>4. [j \in KBs |-> OpenOf(j)]' = [[j \in KBs |-> OpenOf(j)] EXCEPT ![k] = "open"]
    BY <1>0, <1>2 DEF Create, OpenOf, RowsTypeOK
  <2>5. OpenOf(k) = "new" /\ owner' = owner
    BY <1>2 DEF Create, OpenOf
  <2> QED BY <2>1, <2>3, <2>4, <2>5 DEF Service!Open
<1>3. ASSUME NEW r \in Requests, NEW e \in BOOLEAN, NEW k, NEW b,
             k = req[r].kb, b = req[r].build, UpdateKB(k, e, b),
             (EnableWrite(r) /\ e = TRUE) \/ (DisableWrite(r) /\ e = FALSE)
      PROVE  Service!Next \/ UNCHANGED Service!snapshotVars
  <2>1. k \in KBs /\ owner' = owner /\ kbrow' = kbrow /\ status' = status
    BY <1>3 DEF IInv, CopiesSettled, EnableWrite, DisableWrite, ReqAt, UpdateKB
  <2>2. /\ \A j \in KBs : OpenOf(j)' = OpenOf(j)
        /\ \A c \in Builds : SnapshotOf(c)' = SnapshotOf(c)
    BY <2>1 DEF OpenOf, SnapshotOf
  <2>3. CASE ~KBExists(k)
    <3>1. enabled' = enabled /\ active' = active
      BY <1>0, <1>3, <2>1, <2>3 DEF UpdateKB, RowsTypeOK
    <3>2. \A j \in KBs : ServingOf(j)' = ServingOf(j)
      BY <2>1, <3>1 DEF ServingOf, IsSearchable, KBExists
    <3> QED BY <2>1, <2>2, <3>2, Stutter
  <2>4. CASE KBExists(k)
    <3>1. \A j \in KBs \ {k} : ServingOf(j)' = ServingOf(j)
      <4> TAKE j \in KBs \ {k}
      <4>1. enabled'[j] = enabled[j] /\ active'[j] = active[j]
        BY <1>0, <1>3, <2>1 DEF UpdateKB, RowsTypeOK
      <4> QED BY <2>1, <4>1 DEF ServingOf, IsSearchable, KBExists
    <3>2. enabled'[k] = e /\ active'[k] = b
      BY <1>0, <1>3, <2>1, <2>4 DEF UpdateKB, RowsTypeOK
    <3>3. CASE EnableWrite(r) /\ e = TRUE
      <4>1. Settled(b, k)
        BY <1>3, <3>3, EnableCopy
      <4>2. b \in Builds /\ owner[b] = k /\ status[b] = "ready"
        BY <2>4, <4>1 DEF Settled, IInv, BuildsFollowKBs, KBExists
      <4>3. b # NoBuild
        BY <4>2
      <4>4. ServingOf(k)' = b
        BY <2>1, <2>4, <3>2, <3>3, <4>3 DEF ServingOf, IsSearchable, KBExists
      <4>5. [j \in KBs |-> ServingOf(j)]' = [[j \in KBs |-> ServingOf(j)] EXCEPT ![k] = b]
        BY <2>1, <3>1, <4>4
      <4>6. OpenOf(k) = "open" /\ SnapshotOf(b) = "published"
        BY <2>4, <4>2 DEF OpenOf, SnapshotOf, KBExists
      <4>7. Service!Serve(k, b)
        BY <2>1, <2>2, <4>2, <4>5, <4>6 DEF Service!Serve
      <4> QED BY <2>1, <4>2, <4>7
    <3>4. CASE DisableWrite(r) /\ e = FALSE
      <4>1. ServingOf(k)' = NoBuild
        BY <3>2, <3>4 DEF ServingOf, IsSearchable
      <4>2. [j \in KBs |-> ServingOf(j)]' = [[j \in KBs |-> ServingOf(j)] EXCEPT ![k] = NoBuild]
        BY <2>1, <3>1, <4>1
      <4>3. Service!Stop(k)
        BY <2>1, <2>2, <4>2 DEF Service!Stop
      <4> QED BY <2>1, <4>3
    <3> QED BY <1>3, <3>3, <3>4
  <2> QED BY <2>3, <2>4
<1>4. ASSUME NEW r \in Requests, NEW k, k = req[r].kb, DeleteRowOfKB(r)
      PROVE  Service!Next \/ UNCHANGED Service!snapshotVars
  <2>1. /\ k \in KBs /\ owner' = owner /\ enabled' = enabled /\ active' = active
        /\ kbrow' = [kbrow EXCEPT ![k] = IF @ = "live" THEN "gone" ELSE @]
        /\ status' = [b \in Builds |-> IF b \in ListBuilds(k) THEN "gone" ELSE status[b]]
    BY <1>4 DEF IInv, CopiesSettled, DeleteRowOfKB, DeleteKB, ReqAt
  <2>2. CASE ~KBExists(k)
    <3>1. kbrow' = kbrow
      BY <1>0, <2>1, <2>2 DEF KBExists, RowsTypeOK
    <3>2. \A b \in Builds : b \notin ListBuilds(k)
      BY <2>2 DEF ListBuilds, IInv, BuildsFollowKBs, KBExists
    <3>3. status' = status
      BY <1>0, <2>1, <3>2 DEF RowsTypeOK
    <3> QED BY <1>1, <2>1, <3>1, <3>3 DEF coreVars
  <2>3. CASE KBExists(k)
    <3>1. \A j \in KBs : kbrow'[j] = IF j = k THEN "gone" ELSE kbrow[j]
      BY <1>0, <2>1, <2>3 DEF KBExists, RowsTypeOK
    <3>2. \A j \in KBs : OpenOf(j)' = IF j = k THEN "closed" ELSE OpenOf(j)
      BY <3>1 DEF OpenOf
    <3>3. \A j \in KBs : ServingOf(j)' = IF j = k THEN NoBuild ELSE ServingOf(j)
      BY <2>1, <3>1 DEF ServingOf, KBExists, IsSearchable
    <3>4. \A b \in Builds : SnapshotOf(b)' = IF owner[b] = k THEN "dropped" ELSE SnapshotOf(b)
      <4> TAKE b \in Builds
      <4>1. CASE owner[b] # k
        BY <2>1, <4>1 DEF ListBuilds, SnapshotOf
      <4>2. CASE owner[b] = k /\ BuildExists(b)
        BY <2>1, <4>2 DEF ListBuilds, SnapshotOf
      <4>3. CASE owner[b] = k /\ ~BuildExists(b)
        <5>1. status[b] # "unborn"
          BY <2>1, <4>3 DEF IInv, BuildsFollowKBs
        <5>2. status[b] = "gone"
          BY <1>0, <4>3, <5>1 DEF RowsTypeOK, BuildExists
        <5> QED BY <2>1, <4>3, <5>2 DEF ListBuilds, SnapshotOf
      <4> QED BY <4>1, <4>2, <4>3
    <3>5. OpenOf(k) = "open"
      BY <2>3 DEF OpenOf, KBExists
    <3>6. Service!Close(k)
      BY <2>1, <3>2, <3>3, <3>4, <3>5 DEF Service!Close
    <3> QED BY <2>1, <3>6
  <2> QED BY <2>2, <2>3
<1>5. ASSUME NEW r \in Requests, NEW b \in Builds, NEW k, k = req[r].kb, BuildCreate(r, b)
      PROVE  Service!Next \/ UNCHANGED Service!snapshotVars
  <2>1. CASE ~KBExists(k)
    BY <1>1, <1>5, <2>1 DEF BuildCreate, rowVars, coreVars
  <2>2. CASE KBExists(k)
    <3>1. /\ k \in KBs /\ status[b] = "unborn"
          /\ status' = [status EXCEPT ![b] = "pending"]
          /\ owner' = [owner EXCEPT ![b] = k]
          /\ UNCHANGED <<kbrow, enabled, active>>
      BY <1>5, <2>2 DEF BuildCreate, CreateBuild, IInv, CopiesSettled, ReqAt
    <3>2. \A c \in Builds : SnapshotOf(c)' = IF c = b THEN "building" ELSE SnapshotOf(c)
      BY <1>0, <3>1 DEF SnapshotOf, RowsTypeOK
    <3>3. \A j \in KBs : OpenOf(j)' = OpenOf(j) /\ ServingOf(j)' = ServingOf(j)
      BY <3>1 DEF OpenOf, ServingOf, KBExists, IsSearchable
    <3>4. SnapshotOf(b) = "none" /\ OpenOf(k) = "open"
      BY <2>2, <3>1 DEF SnapshotOf, OpenOf, KBExists
    <3>5. Service!Begin(k, b)
      BY <3>1, <3>2, <3>3, <3>4 DEF Service!Begin
    <3> QED BY <3>1, <3>5
  <2> QED BY <2>1, <2>2
<1>6. ASSUME NEW w \in Workers, NEW b, b = wk[w].build,
             MarkProcessing(w) \/ Finalize(w) \/ FailBuild(w)
      PROVE  Service!Next \/ UNCHANGED Service!snapshotVars
  <2>1. /\ b \in Builds /\ UNCHANGED <<kbrow, enabled, active, owner>>
        /\ \A c \in Builds \ {b} : status'[c] = status[c]
    BY <1>6, WorkerWrites DEF MarkProcessing, Finalize, FailBuild, UpdateBuild
  <2>2. \A j \in KBs : OpenOf(j)' = OpenOf(j) /\ ServingOf(j)' = ServingOf(j)
    BY <2>1 DEF OpenOf, ServingOf, KBExists, IsSearchable
  <2>3. \A c \in Builds \ {b} : SnapshotOf(c)' = SnapshotOf(c)
    BY <2>1 DEF SnapshotOf
  <2>4. CASE SnapshotOf(b)' = SnapshotOf(b)
    BY <2>1, <2>2, <2>3, <2>4, Stutter
  <2>5. CASE SnapshotOf(b)' # SnapshotOf(b)
    <3>1. <<status[b], status'[b]>> \in Lifecycle /\ status'[b] # status[b]
      BY <2>1, <2>5, StepFollowsLifecycle DEF SnapshotOf
    <3>2. status'[b] \in {"processing", "ready", "failed"}
      <4>1. BuildExists(b)
        <5>1. \E s \in Statuses : UpdateBuild(b, s)
          BY <1>6 DEF MarkProcessing, Finalize, FailBuild, Statuses
        <5> QED BY <1>0, <2>1, <3>1, <5>1 DEF UpdateBuild, RowsTypeOK
      <4> QED BY <1>0, <1>6, <2>1, <4>1
              DEF MarkProcessing, Finalize, FailBuild, UpdateBuild, RowsTypeOK
    <3>3. SnapshotOf(b) = "building" /\ SnapshotOf(b)' \in {"published", "discarded"}
      BY <2>5, <3>1, <3>2 DEF Lifecycle, SnapshotOf, Statuses
    <3>4. Service!Settle(b, "published") \/ Service!Settle(b, "discarded")
      BY <2>1, <2>2, <2>3, <3>3 DEF Service!Settle
    <3> QED BY <2>1, <3>4 DEF Service!Publish, Service!Discard
  <2> QED BY <2>4, <2>5
<1>7. ASSUME NEW r \in Requests, EnableWrite(r) \/ DisableWrite(r)
      PROVE  Service!Next \/ UNCHANGED Service!snapshotVars
  BY <1>3, <1>7 DEF EnableWrite, DisableWrite
<1> QED BY <1>1, <1>2, <1>4, <1>5, <1>6, <1>7, CoreSteps

(* Queue, workers, stale copies, faults and crashes and all, the tables    *)
(* implement the snapshot service.                                         *)
THEOREM Refinement == Spec => ImplementsSnapshotService
<1>1. IInv /\ [Next]_vars => [Service!Next]_(Service!snapshotVars)
  <2> SUFFICES ASSUME IInv, [Next]_vars
               PROVE  Service!Next \/ UNCHANGED Service!snapshotVars
    OBVIOUS
  <2>1. CASE Next
    BY <2>1, StepRefines
  <2>2. CASE UNCHANGED vars
    BY <2>2 DEF vars, kbVars, rowVars, Service!snapshotVars, OpenOf, SnapshotOf, ServingOf,
       KBExists, IsSearchable
  <2> QED BY <2>1, <2>2
<1> QED
  BY <1>1, InitRefines, Invariance, PTL DEF Spec, Service!Spec, ImplementsSnapshotService

-----------------------------------------------------------------------------
(***************************************************************************)
(* What becomes of builds, with errors of the indexer and the object       *)
(* store: none is dropped, ready ones keep their banks, and only whole     *)
(* ones are published.                                                     *)
(***************************************************************************)

(* What a step can do to owners, banks and Deletes. *)

LEMMA BirthIsBuildCreate ==
  ASSUME IInv, Next, NEW b \in Builds, status[b] = "unborn", status'[b] # "unborn"
  PROVE  \E r \in Requests :
           BuildCreate(r, b) /\ req'[r].pc = "enqueue" /\ req'[r].build = b
<1>0. RowsTypeOK /\ ReqTypeOK
  BY DEF IInv, TypeOK
<1>1. CASE UNCHANGED coreVars
  BY <1>1 DEF coreVars
<1>2. ASSUME NEW k \in KBs, Create(k) PROVE status' = status
  BY <1>2 DEF Create
<1>3. ASSUME NEW r \in Requests, EnableWrite(r) \/ DisableWrite(r) PROVE status' = status
  BY <1>3 DEF EnableWrite, DisableWrite, UpdateKB
<1>4. ASSUME NEW r \in Requests, DeleteRowOfKB(r) PROVE status'[b] = "unborn"
  BY <1>0, <1>4 DEF DeleteRowOfKB, DeleteKB, ListBuilds, BuildExists, Statuses, RowsTypeOK
<1>5. ASSUME NEW w \in Workers, MarkProcessing(w) \/ Finalize(w) \/ FailBuild(w)
      PROVE  status'[b] = "unborn"
  BY <1>5, WorkerWrites
<1>6. ASSUME NEW r \in Requests, NEW c \in Builds, BuildCreate(r, c)
      PROVE  c = b /\ req'[r].pc = "enqueue" /\ req'[r].build = b
  <2>1. /\ status' = [status EXCEPT ![c] = "pending"]
        /\ req' = [req EXCEPT ![r].pc = "enqueue", ![r].build = c]
    BY <1>6 DEF BuildCreate, CreateBuild, rowVars
  <2> QED BY <1>0, <2>1 DEF RowsTypeOK, ReqTypeOK
<1> QED BY <1>1, <1>2, <1>3, <1>4, <1>5, <1>6, CoreSteps

LEMMA OwnerStays ==
  ASSUME IInv, Next, NEW b \in Builds, status[b] # "unborn"
  PROVE  owner'[b] = owner[b] /\ status'[b] # "unborn"
<1>0. RowsTypeOK
  BY DEF IInv, TypeOK
<1>1. CASE UNCHANGED coreVars
  BY <1>1 DEF coreVars
<1>2. ASSUME NEW k \in KBs, Create(k) PROVE owner' = owner
  BY <1>2 DEF Create
<1>3. ASSUME NEW r \in Requests, EnableWrite(r) \/ DisableWrite(r) \/ DeleteRowOfKB(r)
      PROVE  owner' = owner
  BY <1>3 DEF EnableWrite, DisableWrite, UpdateKB, DeleteRowOfKB, DeleteKB
<1>4. ASSUME NEW w \in Workers, MarkProcessing(w) \/ Finalize(w) \/ FailBuild(w)
      PROVE  owner' = owner
  BY <1>4, WorkerWrites
<1>5. ASSUME NEW r \in Requests, NEW c \in Builds, BuildCreate(r, c)
      PROVE  owner'[b] = owner[b]
  BY <1>0, <1>5 DEF BuildCreate, CreateBuild, rowVars, RowsTypeOK
<1>6. status'[b] # "unborn"
  <2>1. ASSUME NEW w \in Workers, MarkProcessing(w) \/ Finalize(w) \/ FailBuild(w), wk[w].build = b
        PROVE  status'[b] # "unborn"
    BY <1>0, <2>1, WorkerWrites DEF MarkProcessing, Finalize, FailBuild, UpdateBuild, RowsTypeOK
  <2> QED BY <2>1, StatusMoves
<1> QED BY <1>1, <1>2, <1>3, <1>4, <1>5, <1>6, CoreSteps

(* What a Delete has begun on stays being deleted until the row is gone.   *)
LEMMA DeleteGoesOn ==
  ASSUME IInv, CallsReturn, Next,
         NEW b \in Builds, status[b] # "unborn", BeingDeleted(owner[b])
  PROVE  BeingDeleted(owner[b])' \/ status'[b] = "gone"
<1>0. ReqTypeOK /\ RowsTypeOK
  BY DEF IInv, TypeOK
<1>1. owner'[b] = owner[b]
  BY OwnerStays
<1>2. PICK r \in Requests : ReqAt(r, "deleteBanks") /\ req[r].kb = owner[b]
  BY DEF BeingDeleted
<1>3. CASE req'[r] = req[r]
  BY <1>1, <1>2, <1>3 DEF BeingDeleted, ReqAt
<1>4. CASE Crash
  BY <1>4 DEF Crash, DocCrash, CallsReturn
<1>5. CASE RequestStep(r)
  <2>1. ASSUME NEW c \in Builds, DeleteNextBank(r, c)
        PROVE  BeingDeleted(owner[b])'
    <3>1. req'[r].pc = "deleteBanks" /\ req'[r].kb = req[r].kb
      BY <1>0, <1>2, <2>1 DEF DeleteNextBank, ReqTypeOK, ReqAt
    <3> QED BY <1>1, <1>2, <3>1 DEF BeingDeleted, ReqAt
  <2>2. CASE DeleteRowOfKB(r)
    <3>1. status' = [c \in Builds |-> IF c \in ListBuilds(req[r].kb) THEN "gone" ELSE status[c]]
      BY <2>2 DEF DeleteRowOfKB, DeleteKB
    <3>2. CASE BuildExists(b)
      BY <1>2, <3>1, <3>2 DEF ListBuilds
    <3>3. CASE ~BuildExists(b)
      BY <1>0, <3>1, <3>3 DEF BuildExists, RowsTypeOK
    <3> QED BY <3>2, <3>3
  <2>3. ~Cancel(r) /\ ~ReqFails(r)
    BY DEF Cancel, ReqFails, CallsReturn
  <2> QED
    BY <1>2, <1>5, <2>1, <2>2, <2>3
    DEF RequestStep, BuildStart, DisableRead, DeleteList, SearchRead, EnableRead, BuildCreate,
        BuildEnqueue, BuildEnqueueFails, EnableWrite, DisableWrite, SearchGetBuild,
        SearchRecall, RetainExperience, ReqAt
<1> QED BY <1>3, <1>4, <1>5, RequestMoves

(* Who writes to the indexer. *)
LEMMA BankMoves ==
  ASSUME Next
  PROVE  \/ UNCHANGED bankVars
         \/ \E r \in Requests, b \in Builds : DeleteNextBank(r, b)
         \/ \E r \in Requests : RetainExperience(r)
         \/ \E w \in Workers : ProvisionBank(w) \/ Retain(w) \/ RetainFails(w)
<1>1. ASSUME NEW r \in Requests, RequestStep(r)
      PROVE  \/ UNCHANGED bankVars
             \/ \E b \in Builds : DeleteNextBank(r, b)
             \/ RetainExperience(r)
  BY <1>1 DEF RequestStep, BuildStart, DisableRead, DeleteList, SearchRead, EnableRead,
     BuildCreate, BuildEnqueue, BuildEnqueueFails, EnableWrite, DisableWrite, DeleteRowOfKB,
     SearchGetBuild, SearchRecall, Cancel, ReqFails
<1>2. ASSUME NEW w \in Workers, WorkerStep(w)
      PROVE  UNCHANGED bankVars \/ ProvisionBank(w) \/ Retain(w) \/ RetainFails(w)
  BY <1>2 DEF WorkerStep, Receive, Load, List, MarkProcessing, ReadDocument, ReadAll, Finalize,
     FailBuild, WorkerCallFails, WorkerGivesUp
<1> QED
  BY <1>1, <1>2 DEF Next, DocumentStep, DeleteRowCascades, kbVars, bankVars, Create, AddDocument,
     RemoveDocument, Crash

(* A bank loses something only to a Delete of its knowledge base, and gains*)
(* documents only from the worker that holds its build.                    *)
LEMMA BankChanges ==
  ASSUME IInv, DropsOwnBanks, Next, NEW b \in Builds
  PROVE  /\ \/ b \in banks => b \in banks'
            \/ BeingDeleted(owner[b]) /\ content'[b] = {}
         /\ \/ content'[b] = content[b]
            \/ content'[b] = {} /\ BeingDeleted(owner[b])
            \/ \E w \in Workers : wk[w].build = b /\ (Retain(w) \/ RetainFails(w))
<1>0. BanksTypeOK /\ ReqTypeOK
  BY DEF IInv, TypeOK
<1>1. CASE UNCHANGED bankVars
  BY <1>1 DEF bankVars
<1>2. ASSUME NEW r \in Requests, NEW c \in Builds, DeleteNextBank(r, c), ~UNCHANGED bankVars
      PROVE  /\ BeingDeleted(owner[c]) /\ content' = [content EXCEPT ![c] = {}]
             /\ banks' = banks \ {c}
  <2>1. owner[c] = req[r].kb
    BY <1>2 DEF DeleteNextBank, DropsOwnBanks
  <2> QED BY <1>2, <2>1 DEF DeleteNextBank, DeleteBank, BeingDeleted
<1>3. ASSUME NEW r \in Requests, RetainExperience(r)
      PROVE  banks \subseteq banks' /\ content' = content
  BY <1>3 DEF RetainExperience, CreateBank
<1>4. ASSUME NEW w \in Workers, ProvisionBank(w)
      PROVE  banks \subseteq banks' /\ content' = content
  BY <1>4 DEF ProvisionBank, CreateBank
<1>5. ASSUME NEW w \in Workers, Retain(w) \/ RetainFails(w)
      PROVE  /\ banks \subseteq banks'
             /\ wk[w].build # b => content'[b] = content[b]
  <2>1. \/ UNCHANGED bankVars
        \/ \E docs \in SUBSET wk[w].got : RetainInto(wk[w].build, docs)
    BY <1>5 DEF Retain, RetainFails
  <2> QED BY <1>0, <2>1 DEF RetainInto, bankVars, BanksTypeOK
<1> QED
  <2>1. ASSUME NEW r \in Requests, NEW c \in Builds, DeleteNextBank(r, c), ~UNCHANGED bankVars, b # c
        PROVE  content'[b] = content[b] /\ (b \in banks => b \in banks')
    BY <1>0, <1>2, <2>1 DEF BanksTypeOK
  <2>2. ASSUME NEW r \in Requests, DeleteNextBank(r, b), ~UNCHANGED bankVars
        PROVE  BeingDeleted(owner[b]) /\ content'[b] = {}
    BY <1>0, <1>2, <2>2 DEF BanksTypeOK
  <2> QED BY <1>1, <1>3, <1>4, <1>5, <2>1, <2>2, BankMoves

LEMMA GoneStays ==
  ASSUME IInv, Next, NEW b \in Builds, status[b] = "gone"
  PROVE  status'[b] = "gone"
BY WorkerWrites, StatusMoves

LEMMA BankStays ==
  ASSUME IInv, CallsReturn, DropsOwnBanks, Next,
         NEW b \in Builds, status[b] # "unborn", BankIsThere(b)
  PROVE  BankIsThere(b)'
<1>1. CASE b \in banks'
  BY <1>1 DEF BankIsThere
<1>2. CASE BeingDeleted(owner[b])
  BY <1>2, DeleteGoesOn DEF BankIsThere
<1>3. CASE status[b] = "gone"
  BY <1>3, GoneStays DEF BankIsThere
<1> QED BY <1>1, <1>2, <1>3, BankChanges DEF BankIsThere

-----------------------------------------------------------------------------
(* No build is dropped. *)

LEMMA NextIdleHoldNothing ==
  ASSUME IInv, IdleHoldNothing, Next
  PROVE  IdleHoldNothing'
<1>0. WkTypeOK
  BY DEF IInv, TypeOK
<1> SUFFICES ASSUME NEW w \in Workers, wk'[w].pc = "idle" PROVE wk'[w].build = NoBuild
  BY DEF IdleHoldNothing, WkAt
<1>1. CASE wk'[w] = wk[w]
  BY <1>1 DEF IdleHoldNothing, WkAt
<1>2. CASE Crash
  BY <1>2 DEF Crash, IdleWorker
<1>3. CASE Receive(w)
  BY <1>0, <1>3 DEF Receive, WkTypeOK
<1>4. CASE WorkerStep(w) /\ ~Receive(w)
  <2> USE <1>0 DEF WkTypeOK, WkGoto, WkReturn, WkAt, IdleWorker
  <2>1. CASE Load(w) \/ MarkProcessing(w) \/ ProvisionBank(w)
    BY <2>1 DEF Load, MarkProcessing, ProvisionBank
  <2>2. CASE List(w)
    BY <2>2 DEF List
  <2>3. ASSUME NEW d \in Docs, ReadDocument(w, d) PROVE wk'[w].build = NoBuild
    BY <2>3 DEF ReadDocument
  <2>4. CASE ReadAll(w) \/ Retain(w) \/ Finalize(w) \/ FailBuild(w)
    BY <2>4 DEF ReadAll, Retain, Finalize, FailBuild
  <2>5. CASE WorkerCallFails(w) \/ RetainFails(w) \/ WorkerGivesUp(w)
    BY <2>5 DEF WorkerCallFails, RetainFails, WorkerGivesUp
  <2> QED BY <1>4, <2>1, <2>2, <2>3, <2>4, <2>5 DEF WorkerStep
<1> QED BY <1>1, <1>2, <1>3, <1>4, WorkerMoves

(* A worker lets go of a build that is settled. *)
LEMMA WorkerLetsGo ==
  ASSUME IInv, CallsReturn, NEW w \in Workers, WorkerStep(w), wk'[w] = IdleWorker,
         NEW b \in Builds, wk[w].build = b, ~WkAt(w, "idle")
  PROVE  status'[b] \notin {"pending", "processing"}
<1>0. WkTypeOK /\ RowsTypeOK /\ WorkerStatus
  BY DEF IInv, TypeOK
<1>1. CASE Load(w)
  BY <1>0, <1>1 DEF Load, WkGoto, WkTypeOK, IdleWorker, rowVars, WorkerStatus, WkAt
<1>2. CASE Finalize(w)
  BY <1>0, <1>2 DEF Finalize, UpdateBuild, BuildExists, Statuses, RowsTypeOK
<1>3. CASE FailBuild(w)
  BY <1>0, <1>3 DEF FailBuild, UpdateBuild, BuildExists, Statuses, RowsTypeOK
<1>4. ~WorkerGivesUp(w)
  BY DEF WorkerGivesUp, CallsReturn
<1>5. wk'[w].pc = "idle"
  BY DEF IdleWorker
<1>6. CASE MarkProcessing(w) \/ ProvisionBank(w) \/ List(w)
  BY <1>0, <1>5, <1>6 DEF MarkProcessing, ProvisionBank, List, WkGoto, WkTypeOK
<1>7. ASSUME NEW d \in Docs, ReadDocument(w, d) PROVE FALSE
  BY <1>0, <1>5, <1>7 DEF ReadDocument, WkGoto, WkTypeOK, WkAt
<1>8. CASE ReadAll(w) \/ Retain(w) \/ WorkerCallFails(w) \/ RetainFails(w)
  BY <1>0, <1>5, <1>8 DEF ReadAll, Retain, WorkerCallFails, RetainFails, WkGoto, WkTypeOK
<1>9. ~Receive(w)
  BY DEF Receive
<1> QED BY <1>1, <1>2, <1>3, <1>4, <1>6, <1>7, <1>8, <1>9 DEF WorkerStep

LEMMA NextOwned ==
  ASSUME IInv, CallsReturn, IdleHoldNothing, UnsettledBuildIsOwned, Next
  PROVE  UnsettledBuildIsOwned'
<1>0. ReqTypeOK /\ QueueTypeOK /\ WkTypeOK
  BY DEF IInv, TypeOK
<1>c. ~Crash
  BY DEF Crash, DocCrash, CallsReturn
<1> SUFFICES ASSUME NEW b \in Builds, status'[b] \in {"pending", "processing"}
             PROVE  Owned(b)'
  BY DEF UnsettledBuildIsOwned
<1>1. CASE status[b] = "unborn"
  BY <1>1, BirthIsBuildCreate DEF Owned, ReqAt
<1>2. ASSUME NEW w \in Workers, wk[w].build = b PROVE Owned(b)'
  <2>1. ~WkAt(w, "idle")
    BY <1>2 DEF IdleHoldNothing
  <2>2. ~Receive(w)
    BY <2>1 DEF Receive
  <2>3. CASE wk'[w].build = b
    BY <2>3 DEF Owned
  <2>4. CASE WorkerStep(w) /\ wk'[w] = IdleWorker
    BY <1>2, <2>1, <2>4, WorkerLetsGo
  <2> QED BY <1>2, <1>c, <2>2, <2>3, <2>4, WorkerMoves, WorkerHolds
<1>3. ASSUME NEW i \in 1..Len(queue), queue[i] = b PROVE Owned(b)'
  <2>1. CASE UNCHANGED queue
    BY <1>3, <2>1 DEF Owned
  <2>2. ASSUME NEW r \in Requests, BuildEnqueue(r) PROVE Owned(b)'
    <3>1. req[r].build \in Builds
      BY <2>2 DEF BuildEnqueue, IInv, WaitingStatus
    <3>2. queue'[i] = b /\ i \in 1..Len(queue')
      BY <1>0, <1>3, <2>2, <3>1 DEF BuildEnqueue, QueueTypeOK
    <3> QED BY <3>2 DEF Owned
  <2>3. ASSUME NEW w \in Workers, Receive(w) PROVE Owned(b)'
    <3>1. CASE i = 1
      <4>1. wk'[w].build = b
        BY <1>0, <1>3, <2>3, <3>1 DEF Receive, QueueTypeOK, WkTypeOK
      <4> QED BY <4>1 DEF Owned
    <3>2. CASE i # 1
      <4>1. queue'[i - 1] = b /\ i - 1 \in 1..Len(queue')
        BY <1>0, <1>3, <2>3, <3>2 DEF Receive, QueueTypeOK
      <4> QED BY <4>1 DEF Owned
    <3> QED BY <3>1, <3>2
  <2> QED BY <1>c, <2>1, <2>2, <2>3, QueueMoves
<1>4. ASSUME NEW r \in Requests, ReqAt(r, "enqueue"), req[r].build = b PROVE Owned(b)'
  <2>1. CASE req'[r] = req[r]
    BY <1>4, <2>1 DEF Owned, ReqAt
  <2>2. CASE BuildEnqueue(r)
    <3>1. queue'[Len(queue) + 1] = b /\ Len(queue) + 1 \in 1..Len(queue')
      BY <1>0, <1>4, <2>2 DEF BuildEnqueue, QueueTypeOK
    <3> QED BY <3>1 DEF Owned
  <2>3. RequestStep(r) => BuildEnqueue(r)
    BY <1>4 DEF RequestStep, BuildStart, DisableRead, DeleteList, SearchRead, EnableRead,
       BuildCreate, DeleteNextBank, BuildEnqueueFails, EnableWrite, DisableWrite, DeleteRowOfKB,
       SearchGetBuild, SearchRecall, RetainExperience, Cancel, ReqFails, ReqAt, CallsReturn
  <2> QED BY <1>c, <2>1, <2>2, <2>3, RequestMoves
<1>5. CASE status[b] \in {"pending", "processing"}
  BY <1>2, <1>3, <1>4, <1>5 DEF UnsettledBuildIsOwned, Owned
<1> QED BY <1>1, <1>2, <1>5, StatusMoves

-----------------------------------------------------------------------------
(* Ready builds keep their banks. *)

LEMMA NextDropsOwnBanks ==
  ASSUME IInv, DropsOwnBanks, Next
  PROVE  DropsOwnBanks'
<1>0. ReqTypeOK /\ RowsTypeOK /\ BuildsFollowKBs
  BY DEF IInv, TypeOK
<1> SUFFICES ASSUME NEW r \in Requests, req'[r].pc = "deleteBanks", NEW b \in req'[r].todo
             PROVE  owner'[b] = req'[r].kb
  BY DEF DropsOwnBanks, ReqAt
<1>1. CASE Crash
  BY <1>1 DEF Crash, IdleReq
<1>2. CASE req[r].pc = "deleteBanks" /\ req'[r].kb = req[r].kb /\ req'[r].todo \subseteq req[r].todo
  <2>1. b \in Builds /\ owner[b] = req[r].kb /\ req[r].kb \in KBs
    BY <1>0, <1>2 DEF DropsOwnBanks, ReqTypeOK, ReqAt, IInv, CopiesSettled
  <2>2. status[b] # "unborn"
    BY <1>0, <2>1 DEF BuildsFollowKBs
  <2> QED BY <1>2, <2>1, <2>2, OwnerStays
<1>3. CASE RequestStep(r)
  <2> USE DEF ReqTypeOK, ReqReturn, IdleReq, ReqAt
  <2>1. ASSUME NEW k \in KBs, BuildStart(r, k) \/ DisableRead(r, k) \/ SearchRead(r, k)
        PROVE  req'[r].pc \in {"createBuild", "disable", "searchBuild"}
    <3>1. CASE BuildStart(r, k)
      BY <1>0, <3>1 DEF BuildStart
    <3>2. CASE DisableRead(r, k)
      BY <1>0, <3>2 DEF DisableRead
    <3>3. CASE SearchRead(r, k)
      BY <1>0, <3>3 DEF SearchRead
    <3> QED BY <2>1, <3>1, <3>2, <3>3
  <2>2. ASSUME NEW k \in KBs, DeleteList(r, k) PROVE owner'[b] = req'[r].kb
    <3>1. req'[r].kb = k /\ req'[r].todo = ListBuilds(k) /\ UNCHANGED rowVars
      BY <1>0, <2>2 DEF DeleteList
    <3> QED BY <3>1 DEF ListBuilds, rowVars
  <2>3. ASSUME NEW k \in KBs, NEW c \in Builds, EnableRead(r, k, c) PROVE req'[r].pc = "enable"
    BY <1>0, <2>3 DEF EnableRead
  <2>4. ASSUME NEW c \in Builds, BuildCreate(r, c) PROVE req'[r].pc \in {"idle", "enqueue"}
    BY <1>0, <2>4 DEF BuildCreate
  <2>5. ASSUME NEW c \in Builds, DeleteNextBank(r, c) PROVE owner'[b] = req'[r].kb
    BY <1>0, <1>2, <2>5 DEF DeleteNextBank
  <2>6. CASE \/ BuildEnqueue(r) \/ BuildEnqueueFails(r) \/ EnableWrite(r) \/ DisableWrite(r)
             \/ DeleteRowOfKB(r) \/ SearchRecall(r) \/ RetainExperience(r) \/ ReqFails(r)
             \/ Cancel(r)
    <3>1. ReqReturn(r)
      BY <2>6 DEF BuildEnqueue, BuildEnqueueFails, EnableWrite, DisableWrite, DeleteRowOfKB,
         SearchRecall, RetainExperience, ReqFails, Cancel
    <3> QED BY <1>0, <3>1
  <2>7. CASE SearchGetBuild(r)
    BY <1>0, <2>7 DEF SearchGetBuild
  <2> QED BY <1>3, <2>1, <2>2, <2>3, <2>4, <2>5, <2>6, <2>7 DEF RequestStep
<1>4. CASE req'[r] = req[r]
  BY <1>2, <1>4
<1> QED BY <1>1, <1>3, <1>4, RequestMoves

(* Where a worker can be after a step of its own, by where it was.         *)
LEMMA WorkerArrives ==
  ASSUME IInv, NEW w \in Workers, WorkerStep(w), wk'[w].pc # "idle", ~Receive(w)
  PROVE  /\ wk'[w].build = wk[w].build /\ ~WkAt(w, "idle")
         /\ wk'[w].pc = "read" => ProvisionBank(w) \/ WkAt(w, "read")
         /\ wk'[w].pc = "retain" => ReadAll(w)
         /\ wk'[w].pc = "finalize" => Retain(w)
         /\ wk'[w].pc \notin {"finalize", "fail"} => wk[w].pc \notin {"finalize", "fail", "retain"}
<1>0. WkTypeOK
  BY DEF IInv, TypeOK
<1> USE <1>0 DEF WkTypeOK, WkGoto, WkReturn, WkAt, IdleWorker
<1>1. wk'[w].build = wk[w].build /\ ~WkAt(w, "idle")
  BY WorkerHolds
<1>2. CASE Load(w)
  BY <1>1, <1>2 DEF Load
<1>3. CASE List(w)
  BY <1>1, <1>3 DEF List
<1>4. CASE MarkProcessing(w)
  BY <1>1, <1>4 DEF MarkProcessing
<1>5. CASE ProvisionBank(w)
  BY <1>1, <1>5 DEF ProvisionBank
<1>6. ASSUME NEW d \in Docs, ReadDocument(w, d) PROVE wk'[w].pc \in {"read", "fail"} /\ WkAt(w, "read")
  BY <1>6 DEF ReadDocument
<1>7. CASE ReadAll(w)
  BY <1>1, <1>7 DEF ReadAll
<1>8. CASE Retain(w)
  BY <1>1, <1>8 DEF Retain
<1>9. CASE Finalize(w) \/ FailBuild(w) \/ WorkerGivesUp(w)
  BY <1>9 DEF Finalize, FailBuild, WorkerGivesUp
<1>10. CASE WorkerCallFails(w)
  BY <1>1, <1>10 DEF WorkerCallFails
<1>11. CASE RetainFails(w)
  BY <1>1, <1>11 DEF RetainFails
<1> QED
  BY <1>1, <1>2, <1>3, <1>4, <1>5, <1>6, <1>7, <1>8, <1>9, <1>10, <1>11 DEF WorkerStep

(* What has just become ready was finalized. *)
LEMMA BecomesReady ==
  ASSUME IInv, Next, NEW b \in Builds, status[b] # "ready", status'[b] = "ready"
  PROVE  \E w \in Workers : wk[w].build = b /\ Finalize(w)
<1>1. ASSUME NEW w \in Workers, wk[w].build = b, MarkProcessing(w) \/ FailBuild(w)
      PROVE  status'[b] # "ready"
  BY <1>1 DEF MarkProcessing, FailBuild, UpdateBuild, IInv, TypeOK, RowsTypeOK
<1> QED BY <1>1, StatusMoves

(* From the bank's creation to its publication a worker needs the bank.    *)
NeedsBank == {"read", "retain", "finalize"}

LEMMA BankHolders ==
  ASSUME IInv, Next, NEW w \in Workers, wk'[w].pc \in NeedsBank
  PROVE  /\ wk'[w].build = wk[w].build /\ wk[w].build \in Builds
         /\ (wk[w].pc \in NeedsBank /\ status[wk[w].build] # "unborn") \/ ProvisionBank(w)
<1> USE DEF NeedsBank
<1>0. WkTypeOK /\ WorkerStatus
  BY DEF IInv, TypeOK
<1>1. ASSUME wk'[w].build = wk[w].build, wk[w].pc \in NeedsBank \/ ProvisionBank(w)
      PROVE  /\ wk[w].build \in Builds
             /\ wk[w].pc \in NeedsBank => status[wk[w].build] # "unborn"
  BY <1>0, <1>1 DEF WorkerStatus, ProvisionBank, WkAt
<1>2. ~Crash /\ ~Receive(w)
  BY <1>0 DEF Crash, IdleWorker, Receive, WkTypeOK
<1>3. CASE wk'[w] = wk[w]
  BY <1>1, <1>3
<1>4. CASE WorkerStep(w)
  <2>1. /\ wk'[w].build = wk[w].build
        /\ ProvisionBank(w) \/ WkAt(w, "read") \/ ReadAll(w) \/ Retain(w)
    BY <1>2, <1>4, WorkerArrives
  <2>2. wk[w].pc \in NeedsBank \/ ProvisionBank(w)
    BY <2>1 DEF ReadAll, Retain, WkAt
  <2> QED BY <1>1, <2>1, <2>2
<1> QED BY <1>2, <1>3, <1>4, WorkerMoves

LEMMA NextBanksKept ==
  ASSUME IInv, CallsReturn, DropsOwnBanks, BanksKept, Next
  PROVE  BanksKept'
<1> USE DEF NeedsBank
<1>1. ASSUME NEW b \in Builds, status'[b] = "ready" PROVE BankIsThere(b)'
  <2>1. CASE status[b] = "ready"
    BY <2>1, BankStays DEF BanksKept
  <2>2. ASSUME NEW w \in Workers, wk[w].build = b, Finalize(w) PROVE BankIsThere(b)'
    BY <2>2, BankStays DEF Finalize, WkAt, BanksKept, IInv, WorkerStatus
  <2> QED BY <1>1, <2>1, <2>2, BecomesReady
<1>2. ASSUME NEW w \in Workers, wk'[w].pc \in NeedsBank, NEW b \in Builds, wk[w].build = b
      PROVE  BankIsThere(b)'
  <2>1. CASE wk[w].pc \in NeedsBank /\ status[b] # "unborn"
    BY <1>2, <2>1, BankStays DEF BanksKept
  <2>2. CASE ProvisionBank(w)
    BY <1>2, <2>2 DEF ProvisionBank, CreateBank, BankIsThere
  <2> QED BY <1>2, <2>1, <2>2, BankHolders
<1>3. ASSUME NEW w \in Workers, wk'[w].pc \in NeedsBank
      PROVE  BankIsThere(wk[w].build)'
  BY <1>2, <1>3, BankHolders DEF BankIsThere, BeingDeleted, ReqAt
<1> QED BY <1>1, <1>3 DEF BanksKept

-----------------------------------------------------------------------------
(* Only whole builds are published. *)

LEMMA EmptyStays ==
  ASSUME IInv, DropsOwnBanks, Next, NEW b \in Builds, content[b] = {},
         \A w \in Workers : wk[w].build = b => ~Retain(w) /\ ~RetainFails(w)
  PROVE  content'[b] = {}
BY BankChanges

(* What waits is in no worker's hands, and so is what is not born. *)
LEMMA WaitingStaysEmpty ==
  ASSUME IInv, DropsOwnBanks, Next, NEW b \in Builds, content[b] = {},
         \A w \in Workers : ~WkAt(w, "idle") => wk[w].build # b
  PROVE  content'[b] = {}
<1>1. \A w \in Workers : Retain(w) \/ RetainFails(w) => ~WkAt(w, "idle")
  BY DEF Retain, RetainFails, WkAt
<1> QED BY <1>1, EmptyStays

LEMMA NextNothingRetainedYet ==
  ASSUME IInv, DropsOwnBanks, NothingRetainedYet, Next
  PROVE  NothingRetainedYet'
<1>0. QueueTypeOK /\ ReqTypeOK /\ WkTypeOK /\ OneHolder /\ WaitingStatus /\ WorkerStatus
  BY DEF IInv, TypeOK
<1>1. ASSUME NEW b \in Builds, status[b] = "unborn" PROVE content'[b] = {}
  BY <1>1, HeldAreBorn, WaitingStaysEmpty DEF NothingRetainedYet
<1>2. ASSUME NEW r \in Requests, ReqAt(r, "enqueue")
      PROVE  req[r].build \in Builds /\ content'[req[r].build] = {}
  BY <1>0, <1>2, WaitingStaysEmpty DEF NothingRetainedYet, WaitingStatus, OneHolder
<1>3. ASSUME NEW i \in 1..Len(queue)
      PROVE  queue[i] \in Builds /\ content'[queue[i]] = {}
  <2>1. queue[i] \in Builds
    BY <1>0 DEF QueueTypeOK
  <2> QED BY <1>0, <2>1, WaitingStaysEmpty DEF NothingRetainedYet, OneHolder
<1>4. ASSUME NEW b \in Builds, status'[b] = "unborn" PROVE content'[b] = {}
  BY <1>1, <1>4, OwnerStays
<1>5. ASSUME NEW r \in Requests, req'[r].pc = "enqueue" PROVE content'[req'[r].build] = {}
  BY <1>1, <1>2, <1>5, EnqueueMoves DEF ReqAt
<1>6. ASSUME NEW i \in 1..Len(queue') PROVE content'[queue'[i]] = {}
  <2>1. CASE UNCHANGED queue
    BY <1>3, <2>1
  <2>2. ASSUME NEW r \in Requests, BuildEnqueue(r) PROVE content'[queue'[i]] = {}
    <3>1. req[r].build \in Builds /\ content'[req[r].build] = {}
      BY <1>2, <2>2 DEF BuildEnqueue
    <3>2. \/ i \in 1..Len(queue) /\ queue'[i] = queue[i]
          \/ queue'[i] = req[r].build
      BY <1>0, <2>2, <3>1 DEF BuildEnqueue, QueueTypeOK
    <3> QED BY <1>3, <3>1, <3>2
  <2>3. ASSUME NEW w \in Workers, Receive(w) PROVE content'[queue'[i]] = {}
    <3>1. i + 1 \in 1..Len(queue) /\ queue'[i] = queue[i + 1]
      BY <1>0, <2>3 DEF Receive, QueueTypeOK
    <3> QED BY <1>3, <3>1
  <2>4. CASE Crash
    BY <2>4 DEF Crash
  <2> QED BY <2>1, <2>2, <2>3, <2>4, QueueMoves
<1>7. ASSUME NEW w \in Workers, wk'[w].pc \notin {"idle", "finalize", "fail"}
      PROVE  content'[wk'[w].build] = {}
  <2>1. CASE Crash
    BY <1>7, <2>1 DEF Crash, IdleWorker
  <2>2. CASE Receive(w)
    <3>1. wk'[w].build = queue[1] /\ 1 \in 1..Len(queue)
      BY <1>0, <2>2 DEF Receive, QueueTypeOK, WkTypeOK
    <3> QED BY <1>3, <3>1
  <2>3. ASSUME wk[w].pc \notin {"idle", "finalize", "fail"}, wk'[w].build = wk[w].build,
               ~Retain(w), ~RetainFails(w)
        PROVE  content'[wk'[w].build] = {}
    <3>1. wk[w].build \in Builds /\ content[wk[w].build] = {}
      BY <1>0, <2>3 DEF WorkerStatus, NothingRetainedYet
    <3>2. \A v \in Workers : wk[v].build = wk[w].build => ~Retain(v) /\ ~RetainFails(v)
      <4> SUFFICES ASSUME NEW v \in Workers, wk[v].build = wk[w].build, Retain(v) \/ RetainFails(v)
                   PROVE  FALSE
        OBVIOUS
      <4>1. ~WkAt(v, "idle")
        BY DEF Retain, RetainFails, WkAt
      <4>2. v = w
        BY <1>0, <2>3, <4>1 DEF OneHolder, WkAt
      <4> QED BY <2>3, <4>2
    <3> QED BY <2>3, <3>1, <3>2, EmptyStays
  <2>4. CASE WorkerStep(w) /\ ~Receive(w)
    <3>1. /\ wk'[w].build = wk[w].build
          /\ wk[w].pc \notin {"idle", "finalize", "fail", "retain"}
      BY <1>7, <2>4, WorkerArrives DEF WkAt
    <3> QED BY <2>3, <3>1 DEF Retain, RetainFails, WkAt
  <2>5. CASE wk'[w] = wk[w]
    <3>1. ~Retain(w) /\ ~RetainFails(w)
      BY <1>0, <2>5 DEF Retain, RetainFails, WkGoto, WkAt, WkTypeOK
    <3> QED BY <1>7, <2>3, <2>5, <3>1
  <2> QED BY <2>1, <2>2, <2>4, <2>5, WorkerMoves
<1> QED BY <1>4, <1>5, <1>6, <1>7 DEF NothingRetainedYet, ReqAt

LEMMA RetainsAll ==
  ASSUME IInv, Next, NEW w \in Workers
  PROVE  /\ wk'[w].pc = "retain" =>
              wk'[w].got = wk'[w].docs \/ (wk'[w] = wk[w] /\ WkAt(w, "retain"))
         /\ wk'[w].pc = "finalize" => Retain(w) \/ (wk'[w] = wk[w] /\ WkAt(w, "finalize"))
<1>0. WkTypeOK
  BY DEF IInv, TypeOK
<1>1. ReadAll(w) => wk'[w].got = wk'[w].docs
  BY <1>0 DEF ReadAll, WkGoto, WkTypeOK
<1>2. wk'[w].pc # "idle" => ~Crash
  BY <1>0 DEF Crash, IdleWorker
<1>3. Receive(w) => wk'[w].pc = "load"
  BY <1>0 DEF Receive, WkTypeOK
<1> QED BY <1>1, <1>2, <1>3, WorkerMoves, WorkerArrives DEF WkAt

(* A whole Retain fills an empty bank with what was listed ...             *)
LEMMA RetainFills ==
  ASSUME IInv, NothingRetainedYet, NEW w \in Workers, Retain(w), wk[w].got = wk[w].docs
  PROVE  /\ wk'[w].build = wk[w].build /\ wk[w].build \in Builds
         /\ content'[wk[w].build] = wk'[w].docs
<1>0. WkTypeOK /\ BanksTypeOK /\ WorkerStatus
  BY DEF IInv, TypeOK
<1>1. wk'[w].build = wk[w].build /\ wk'[w].docs = wk[w].docs /\ wk[w].pc = "retain"
  BY <1>0 DEF Retain, WkGoto, WkAt, WkTypeOK
<1>2. wk[w].build \in Builds /\ content[wk[w].build] = {}
  BY <1>0, <1>1 DEF WorkerStatus, NothingRetainedYet
<1>3. content'[wk[w].build] = content[wk[w].build] \cup wk[w].got
  BY <1>0, <1>2 DEF Retain, RetainInto, BanksTypeOK
<1> QED BY <1>1, <1>2, <1>3

(* ... and nobody adds to it before its worker publishes it.               *)
LEMMA FilledStays ==
  ASSUME IInv, DropsOwnBanks, Next, NEW w \in Workers, WkAt(w, "finalize")
  PROVE  /\ wk[w].build \in Builds /\ status[wk[w].build] # "unborn"
         /\ content'[wk[w].build] = content[wk[w].build] \/ BeingDeleted(owner[wk[w].build])
<1>1. wk[w].build \in Builds /\ status[wk[w].build] # "unborn"
  BY DEF IInv, WorkerStatus, WkAt
<1>2. ASSUME NEW v \in Workers, wk[v].build = wk[w].build, Retain(v) \/ RetainFails(v)
      PROVE  FALSE
  <2>1. WkAt(v, "retain")
    BY <1>2 DEF Retain, RetainFails
  <2> QED BY <1>2, <2>1 DEF IInv, OneHolder, WkAt
<1> QED BY <1>1, <1>2, BankChanges

LEMMA NextRetainedWhole ==
  ASSUME IInv, CallsReturn, DropsOwnBanks, NothingRetainedYet, RetainedWhole, Next
  PROVE  RetainedWhole'
<1>1. ASSUME NEW w \in Workers, wk'[w].pc = "retain" PROVE wk'[w].got = wk'[w].docs
  BY <1>1, RetainsAll DEF RetainedWhole
<1>2. ASSUME NEW w \in Workers, wk'[w].pc = "finalize"
      PROVE  /\ wk'[w].build = wk[w].build /\ wk[w].build \in Builds
             /\ \/ content'[wk[w].build] = wk'[w].docs
                \/ BeingDeleted(owner[wk[w].build])' \/ status'[wk[w].build] = "gone"
  <2>1. CASE Retain(w)
    BY <2>1, RetainFills DEF RetainedWhole, Retain
  <2>2. CASE wk'[w] = wk[w] /\ WkAt(w, "finalize")
    BY <2>2, FilledStays, DeleteGoesOn, GoneStays DEF RetainedWhole, Whole
  <2> QED BY <1>2, <2>1, <2>2, RetainsAll
<1>3. ASSUME NEW w \in Workers, wk'[w].pc = "finalize" PROVE Whole(w)'
  BY <1>2, <1>3 DEF Whole, BeingDeleted, ReqAt
<1> QED BY <1>1, <1>3 DEF RetainedWhole, WkAt

-----------------------------------------------------------------------------
(* The theorems. *)

LEMMA InitFateIInv == Init => FateIInv
<1> SUFFICES ASSUME Init PROVE FateIInv
  OBVIOUS
<1>1. DropsOwnBanks
  BY DEF Init, DropsOwnBanks, ReqAt, IdleReq
<1>2. IdleHoldNothing /\ BanksKept /\ RetainedWhole
  BY DEF Init, IdleHoldNothing, BanksKept, RetainedWhole, WkAt, IdleWorker
<1>3. UnsettledBuildIsOwned
  BY DEF Init, UnsettledBuildIsOwned
<1>4. NothingRetainedYet
  BY DEF Init, NothingRetainedYet, ReqAt, IdleReq, IdleWorker
<1> QED BY <1>1, <1>2, <1>3, <1>4 DEF FateIInv

LEMMA NextFateIInv == CallsReturn /\ IInv /\ FateIInv /\ [Next]_vars => FateIInv'
<1> SUFFICES ASSUME CallsReturn, IInv, FateIInv, [Next]_vars PROVE FateIInv'
  OBVIOUS
<1>1. CASE Next
  BY <1>1, NextIdleHoldNothing, NextOwned, NextDropsOwnBanks, NextBanksKept,
     NextNothingRetainedYet, NextRetainedWhole DEF FateIInv
<1>2. CASE UNCHANGED vars
  <2> USE <1>2 DEF vars, kbVars, rowVars, bankVars, FateIInv, ReqAt, WkAt, BeingDeleted
  <2>1. IdleHoldNothing' /\ DropsOwnBanks'
    BY DEF IdleHoldNothing, DropsOwnBanks
  <2>2. UnsettledBuildIsOwned' /\ NothingRetainedYet'
    BY DEF UnsettledBuildIsOwned, Owned, NothingRetainedYet
  <2>3. BanksKept' /\ RetainedWhole'
    BY DEF BanksKept, BankIsThere, RetainedWhole, Whole
  <2> QED BY <2>1, <2>2, <2>3
<1> QED BY <1>1, <1>2

(* The invariant of the builds' fates holds in every reachable state, if   *)
(* calls to Postgres return and the process lives.                         *)
THEOREM FateInvariance == ASSUME CallsReturn PROVE Spec => []FateIInv
<1>1. IInv /\ FateIInv /\ [Next]_vars => FateIInv'
  BY NextFateIInv
<1> QED BY <1>1, InitFateIInv, Invariance, PTL DEF Spec

(* Whatever the indexer, the object store and document deletes do, a build *)
(* that is not settled is in the hands of a request, the queue or a worker.*)
THEOREM NoBuildIsDropped == ASSUME CallsReturn PROVE Spec => []UnsettledBuildIsOwned
<1>1. FateIInv => UnsettledBuildIsOwned
  BY DEF FateIInv
<1> QED BY <1>1, FateInvariance, PTL

(* A ready build keeps its bank for as long as its knowledge base lives:   *)
(* rolling back to it needs no new build.                                  *)
THEOREM ReadyBuildsKeepBanks == ASSUME CallsReturn PROVE Spec => []ReadyBankExists
<1>1. FateIInv => ReadyBankExists
  BY DEF FateIInv, BanksKept, BankIsThere, ReadyBankExists
<1> QED BY <1>1, FateInvariance, PTL

(* No build becomes ready with a document missing from its bank, whatever  *)
(* is deleted or fails while it is built.                                  *)
THEOREM PublishedAreWhole == ASSUME CallsReturn PROVE Spec => OnlyWholeBuildsPublished
<1> DEFINE Step == \A w \in Workers :
      (WkAt(w, "finalize") /\ status'[wk[w].build] # status[wk[w].build]
                           /\ status'[wk[w].build] = "ready") =>
        \/ content[wk[w].build] = wk[w].docs /\ wk[w].build \in banks
        \/ BeingDeleted(owner[wk[w].build])
<1>1. ASSUME IInv, FateIInv, [Next]_vars, NEW w \in Workers, WkAt(w, "finalize"),
             status'[wk[w].build] # status[wk[w].build], status'[wk[w].build] = "ready"
      PROVE  \/ content[wk[w].build] = wk[w].docs /\ wk[w].build \in banks
             \/ BeingDeleted(owner[wk[w].build])
  <2>1. Next /\ wk[w].build \in Builds
    BY <1>1 DEF vars, kbVars, rowVars, IInv, WorkerStatus, WkAt
  <2>2. status[wk[w].build] # "gone"
    BY <1>1, <2>1, GoneStays
  <2> QED BY <1>1, <2>2 DEF FateIInv, RetainedWhole, Whole, BanksKept, BankIsThere, WkAt
<1>2. IInv /\ FateIInv /\ [Next]_vars => [Step]_vars
  BY <1>1
<1> QED BY <1>2, FateInvariance, Invariance, PTL DEF Spec, OnlyWholeBuildsPublished

-----------------------------------------------------------------------------
(* A ready build stays what it is, with every fault. *)

LEMMA DeletesDropOwnBanks == Spec => []DropsOwnBanks
<1>1. Init => DropsOwnBanks
  BY DEF Init, IdleReq, DropsOwnBanks, ReqAt
<1>2. IInv /\ DropsOwnBanks /\ [Next]_vars => DropsOwnBanks'
  <2> SUFFICES ASSUME IInv, DropsOwnBanks, [Next]_vars PROVE DropsOwnBanks'
    OBVIOUS
  <2>1. CASE Next
    BY <2>1, NextDropsOwnBanks
  <2>2. CASE UNCHANGED vars
    BY <2>2 DEF vars, kbVars, rowVars, DropsOwnBanks, ReqAt
  <2> QED BY <2>1, <2>2
<1> QED BY <1>1, <1>2, Invariance, PTL DEF Spec

(* Only the worker that holds a build retains into its bank, and a build   *)
(* that is held is not ready yet.                                          *)
LEMMA ReadyIsFrozen ==
  ASSUME IInv, DropsOwnBanks, Next, NEW b \in Builds, status[b] = "ready"
  PROVE  \/ content'[b] = content[b]
         \/ content'[b] = {} /\ BeingDeleted(owner[b])
<1>1. ASSUME NEW w \in Workers, wk[w].build = b, Retain(w) \/ RetainFails(w) PROVE FALSE
  <2>1. WkAt(w, "retain")
    BY <1>1 DEF Retain, RetainFails
  <2>2. status[b] \in {"processing", "gone"}
    BY <1>1, <2>1 DEF IInv, WorkerStatus, WkAt
  <2> QED BY <2>2
<1> QED BY <1>1, BankChanges

(* The documents of a ready build change only by a Delete of its knowledge *)
(* base: with every fault, crash and interleaving.                         *)
THEOREM ReadySnapshotsAreFrozen == Spec => SnapshotsFrozen
<1> DEFINE Step == \A b \in Builds : status[b] = "ready" =>
      \/ content'[b] = content[b]
      \/ content'[b] = {} /\ BeingDeleted(owner[b])
<1>1. IInv /\ DropsOwnBanks /\ [Next]_vars => [Step]_vars
  BY ReadyIsFrozen
<1> QED BY <1>1, DeletesDropOwnBanks, Invariance, PTL DEF Spec, SnapshotsFrozen

-----------------------------------------------------------------------------
(***************************************************************************)
(* What a build costs.  Whether builds settle is a matter of fairness and  *)
(* left to TLC; that a worker cannot go on for ever with one is not.       *)
(***************************************************************************)

(* The calls ahead of a worker at most, by where it is and what it listed. *)
StepsLeft(m) ==
  CASE m.pc = "idle" -> 0
    [] m.pc \in {"finalize", "fail"} -> 1
    [] m.pc = "retain" -> 2
    [] m.pc = "read" -> 3 + Cardinality(m.docs \ m.got)
    [] m.pc = "createBank" -> 4 + Cardinality(m.docs)
    [] m.pc = "mark" -> 5 + Cardinality(m.docs)
    [] m.pc = "list" -> 6 + Cardinality(Docs)
    [] m.pc = "load" -> 7 + Cardinality(Docs)

(***************************************************************************)
(* Once a worker has taken a build, each step of its own leaves it fewer   *)
(* to take, of as many as there are documents and seven, and no step of    *)
(* anybody else gives it more: neither documents that come and go, nor a   *)
(* Delete, nor a failing call make ProcessBuild start over.                *)
(***************************************************************************)
BuildsTakeBoundedSteps ==
  [][\A w \in Workers : wk'[w] # wk[w] =>
       /\ StepsLeft(wk'[w]) \in 0..(7 + Cardinality(Docs))
       /\ WkAt(w, "idle") \/ StepsLeft(wk'[w]) < StepsLeft(wk[w])]_vars

LEMMA ListedAreFinite ==
  ASSUME NEW docs \in SUBSET Docs, NEW got
  PROVE  /\ Cardinality(Docs) \in Nat /\ Cardinality(docs) \in Nat
         /\ Cardinality(docs \ got) \in Nat
         /\ Cardinality(docs) <= Cardinality(Docs)
         /\ Cardinality(docs \ got) <= Cardinality(docs)
<1>1. IsFiniteSet(Docs) /\ IsFiniteSet(docs) /\ Cardinality(docs) <= Cardinality(Docs)
  BY DocsAssumption, FS_Subset
<1>2. docs \ got \in SUBSET docs
  OBVIOUS
<1>3. IsFiniteSet(docs \ got) /\ Cardinality(docs \ got) <= Cardinality(docs)
  BY <1>1, <1>2, FS_Subset
<1> QED BY <1>1, <1>3, FS_CardinalityType

LEMMA OneFewerToRead ==
  ASSUME NEW docs \in SUBSET Docs, NEW got, NEW d \in docs \ got
  PROVE  Cardinality(docs \ (got \cup {d})) < Cardinality(docs \ got)
<1>1. IsFiniteSet(docs \ got)
  BY DocsAssumption, FS_Subset
<1>2. docs \ (got \cup {d}) = (docs \ got) \ {d}
  OBVIOUS
<1>3. Cardinality(docs \ (got \cup {d})) = Cardinality(docs \ got) - 1
  BY <1>1, <1>2, FS_RemoveElement
<1>4. Cardinality(docs \ got) \in Nat
  BY ListedAreFinite
<1> QED BY <1>3, <1>4

LEMMA WorkerStepCosts ==
  ASSUME IInv, NEW w \in Workers, WorkerStep(w), ~Receive(w)
  PROVE  /\ StepsLeft(wk'[w]) \in 0..(7 + Cardinality(Docs))
         /\ StepsLeft(wk'[w]) < StepsLeft(wk[w])
<1>0. WkTypeOK
  BY DEF IInv, TypeOK
<1> DEFINE docs == wk[w].docs
           got == wk[w].got
           N == Cardinality(Docs)
           listed == Cardinality(docs)
           unread == Cardinality(docs \ got)
<1>a. /\ docs \in SUBSET Docs /\ wk[w] \in [pc : WorkerPCs, build : Builds \cup {NoBuild},
                                          docs : SUBSET Docs, got : SUBSET Docs]
      /\ N \in Nat /\ listed \in Nat /\ unread \in Nat /\ listed <= N /\ unread <= listed
  BY <1>0, ListedAreFinite DEF WkTypeOK
<1>b. ASSUME NEW m, m.pc = "idle" \/ (m.pc = "fail" /\ wk[w].pc \notin {"idle", "finalize", "fail"})
      PROVE  StepsLeft(m) \in {0, 1} /\ (wk[w].pc # "idle" => StepsLeft(m) < StepsLeft(wk[w]))
  <2> HIDE DEF N, listed, unread, docs, got
  <2>1. StepsLeft(wk[w]) = CASE wk[w].pc = "idle" -> 0
                             [] wk[w].pc \in {"finalize", "fail"} -> 1
                             [] wk[w].pc = "retain" -> 2
                             [] wk[w].pc = "read" -> 3 + unread
                             [] wk[w].pc = "createBank" -> 4 + listed
                             [] wk[w].pc = "mark" -> 5 + listed
                             [] wk[w].pc = "list" -> 6 + N
                             [] wk[w].pc = "load" -> 7 + N
    BY DEF StepsLeft, N, listed, unread, docs, got
  <2>2. wk[w].pc \in WorkerPCs
    BY <1>a
  <2>3. /\ wk[w].pc # "idle" => StepsLeft(wk[w]) >= 1
        /\ wk[w].pc \notin {"idle", "finalize", "fail"} => StepsLeft(wk[w]) >= 2
    BY <1>a, <2>1, <2>2 DEF WorkerPCs
  <2>4. StepsLeft(m) = IF m.pc = "idle" THEN 0 ELSE 1
    BY <1>b DEF StepsLeft
  <2>5. \/ StepsLeft(m) = 0
        \/ StepsLeft(m) = 1 /\ wk[w].pc \notin {"idle", "finalize", "fail"}
    BY <1>b, <2>4
  <2>6. StepsLeft(wk[w]) \in Int
    BY <1>a, <2>1, <2>2 DEF WorkerPCs
  <2> HIDE DEF StepsLeft
  <2> QED BY <2>3, <2>5, <2>6
<1> USE DEF WkGoto, WkReturn, WkAt, IdleWorker
<1>1. CASE Load(w)
  <2>1. WkAt(w, "load") /\ wk'[w].pc \in {"list", "idle"}
    BY <1>0, <1>1 DEF Load, WkTypeOK
  <2> QED BY <1>a, <2>1 DEF StepsLeft
<1>2. CASE List(w)
  <2>1. WkAt(w, "list") /\ wk'[w].pc = "mark"
    BY <1>0, <1>2 DEF List, WkTypeOK
  <2>2. wk'[w].docs \in SUBSET Docs
    BY <1>2, WorkerKeepsWkType DEF WkTypeOK
  <2>3. Cardinality(wk'[w].docs) \in Nat /\ Cardinality(wk'[w].docs) <= N
    BY <2>2, ListedAreFinite
  <2> QED BY <1>a, <2>1, <2>3 DEF StepsLeft
<1>3. CASE MarkProcessing(w)
  <2>1. /\ WkAt(w, "mark") /\ wk'[w].pc \in {"createBank", "fail"}
        /\ wk'[w].docs = docs
    BY <1>0, <1>3 DEF MarkProcessing, WkTypeOK
  <2>2. CASE wk'[w].pc = "createBank"
    BY <1>a, <2>1, <2>2 DEF StepsLeft
  <2> QED BY <1>a, <1>b, <2>1, <2>2
<1>4. CASE ProvisionBank(w)
  <2>1. /\ WkAt(w, "createBank") /\ wk'[w].pc = "read"
        /\ wk'[w].docs = docs /\ wk'[w].got = got
    BY <1>0, <1>4 DEF ProvisionBank, WkTypeOK
  <2> QED BY <1>a, <2>1 DEF StepsLeft
<1>5. ASSUME NEW d \in Docs, ReadDocument(w, d)
      PROVE  /\ StepsLeft(wk'[w]) \in 0..(7 + Cardinality(Docs))
             /\ StepsLeft(wk'[w]) < StepsLeft(wk[w])
  <2>1. WkAt(w, "read") /\ d \in docs \ got
    BY <1>5 DEF ReadDocument
  <2>2. CASE wk'[w].pc = "fail"
    BY <1>a, <1>b, <2>1, <2>2
  <2>3. CASE wk'[w].pc = "read" /\ wk'[w].docs = docs /\ wk'[w].got = got \cup {d}
    <3>1. Cardinality(docs \ (got \cup {d})) \in Nat
          /\ Cardinality(docs \ (got \cup {d})) < unread
      BY <1>a, <2>1, OneFewerToRead, ListedAreFinite
    <3> QED BY <1>a, <2>1, <2>3, <3>1 DEF StepsLeft
  <2> QED BY <1>0, <1>5, <2>2, <2>3 DEF ReadDocument, WkTypeOK
<1>6. CASE ReadAll(w)
  <2>1. WkAt(w, "read") /\ wk'[w].pc = "retain"
    BY <1>0, <1>6 DEF ReadAll, WkTypeOK
  <2> QED BY <1>a, <2>1 DEF StepsLeft
<1>7. CASE Retain(w)
  <2>1. WkAt(w, "retain") /\ wk'[w].pc = "finalize"
    BY <1>0, <1>7 DEF Retain, WkTypeOK
  <2> QED BY <1>a, <2>1 DEF StepsLeft
<1>8. CASE Finalize(w) \/ FailBuild(w) \/ WorkerGivesUp(w)
  <2>1. ~WkAt(w, "idle") /\ wk'[w].pc = "idle"
    BY <1>0, <1>8 DEF Finalize, FailBuild, WorkerGivesUp, WkTypeOK
  <2> QED BY <1>a, <1>b, <2>1
<1>9. CASE WorkerCallFails(w) \/ RetainFails(w)
  <2>1. wk[w].pc \notin {"idle", "finalize", "fail"} /\ wk'[w].pc = "fail"
    BY <1>0, <1>9 DEF WorkerCallFails, RetainFails, WkTypeOK
  <2> QED BY <1>a, <1>b, <2>1
<1> QED
  BY <1>1, <1>2, <1>3, <1>4, <1>5, <1>6, <1>7, <1>8, <1>9 DEF WorkerStep

(* ProcessBuild ends after as many calls as there are documents, and seven,*)
(* for any number of workers, requests and faults.                         *)
THEOREM WorkersGetOn == Spec => BuildsTakeBoundedSteps
<1> DEFINE Bounded(w) ==
      /\ StepsLeft(wk'[w]) \in 0..(7 + Cardinality(Docs))
      /\ WkAt(w, "idle") \/ StepsLeft(wk'[w]) < StepsLeft(wk[w])
<1>1. ASSUME IInv, [Next]_vars, NEW w \in Workers, wk'[w] # wk[w]
      PROVE  Bounded(w)
  <2>0. WkTypeOK /\ Cardinality(Docs) \in Nat
    BY <1>1, DocsAssumption, FS_CardinalityType DEF IInv, TypeOK
  <2>1. CASE Crash
    <3>1. wk'[w].pc = "idle"
      BY <2>1 DEF Crash, IdleWorker
    <3>2. wk[w].pc \in WorkerPCs \ {"idle"} => StepsLeft(wk[w]) > 0
      <4>1. /\ Cardinality(wk[w].docs) \in Nat
            /\ Cardinality(wk[w].docs \ wk[w].got) \in Nat
        BY <2>0, ListedAreFinite DEF WkTypeOK
      <4> QED BY <2>0, <4>1 DEF StepsLeft, WorkerPCs
    <3>3. StepsLeft(wk'[w]) = 0
      BY <3>1 DEF StepsLeft
    <3> QED BY <2>0, <3>2, <3>3 DEF WkTypeOK, WkAt
  <2>2. CASE Receive(w)
    <3>1. WkAt(w, "idle") /\ wk'[w].pc = "load"
      BY <2>0, <2>2 DEF Receive, WkTypeOK
    <3> QED BY <2>0, <3>1 DEF StepsLeft
  <2>3. CASE WorkerStep(w) /\ ~Receive(w)
    BY <1>1, <2>3, WorkerStepCosts
  <2> QED
    BY <1>1, <2>1, <2>2, <2>3, WorkerMoves DEF vars, kbVars
<1>2. IInv /\ [Next]_vars => [\A w \in Workers : wk'[w] # wk[w] => Bounded(w)]_vars
  BY <1>1
<1> QED BY <1>2, Invariance, PTL DEF Spec, BuildsTakeBoundedSteps
=============================================================================
