---------------------------- MODULE HttpApiProofs ----------------------------
(***************************************************************************)
(* Proofs about HttpApi, for any number of documents, knowledge bases,     *)
(* builds, requests and workers, any buffer size and every fault.          *)
(***************************************************************************)
EXTENDS HttpApi, KnowledgeBaseProofs, DocumentStoreProofs

-----------------------------------------------------------------------------
(* The theorems of KnowledgeBase and DocumentStore hold for the API.       *)

LEMMA SilentSteps == Silent => Next
BY DEF Silent, SilentRequest, Next, DocumentStep, RequestStep

LEMMA HttpSteps == HttpNext => Next
BY SilentSteps
DEF HttpNext, ReceiveContent, DocumentCreated, DeleteDocument, KBCreated, BuildCreated, Enable,
    Enabled, Disable, Disabled, DeleteKnowledgeBase, KBDeleted, Next, DocumentStep, RequestStep

(* Answers change nothing: every behaviour of the API is one of the core.  *)
THEOREM AnswersKeepKnowledgeBase == HttpSpec => Spec
<1>1. HttpInit => Init
  BY DEF HttpInit
<1>2. [HttpNext]_httpVars => [Next]_vars
  BY HttpSteps DEF httpVars
<1> QED BY <1>1, <1>2, PTL DEF HttpSpec, Spec

LEMMA CoreIsDocuments ==
  ASSUME Next
  PROVE  DocNext \/ UNCHANGED docVars
<1>1. CASE DocumentStep
  BY <1>1 DEF DocumentStep, DeleteRowCascades, DocNext, DocCallStep
<1>2. ASSUME NEW r \in Requests, RequestStep(r) PROVE UNCHANGED docVars
  BY <1>2 DEF RequestStep, BuildStart, DisableRead, DeleteList, SearchRead, EnableRead,
     BuildCreate, DeleteNextBank, BuildEnqueue, BuildEnqueueFails, EnableWrite, DisableWrite,
     DeleteRowOfKB, SearchGetBuild, SearchRecall, RetainExperience, Cancel, ReqFails
<1>3. ASSUME NEW w \in Workers, WorkerStep(w) PROVE UNCHANGED docVars
  BY <1>3 DEF WorkerStep, Receive, Load, List, MarkProcessing, ProvisionBank, ReadDocument,
     ReadAll, Retain, Finalize, FailBuild, WorkerCallFails, RetainFails, WorkerGivesUp
<1> QED
  BY <1>1, <1>2, <1>3 DEF Next, Create, AddDocument, RemoveDocument, Crash, DocNext

(* Knowledge base requests and workers leave the document stores to the    *)
(* document handlers: what is proved of DocumentStore holds beside them.   *)
THEOREM CoreKeepsDocumentStore == Spec => DocSpec
<1>1. Init => DocInit
  BY DEF Init
<1>2. [Next]_vars => [DocNext]_docVars
  BY CoreIsDocuments DEF vars
<1> QED BY <1>1, <1>2, PTL DEF Spec, DocSpec

-----------------------------------------------------------------------------
(* What the steps in between leave alone. *)

Overruling == {"enable", "disable", "deleteBanks"}

SameStance(r) == req'[r].pc \in Overruling => req'[r].pc = req[r].pc /\ req'[r].kb = req[r].kb

SilentRequests(r) ==
  \/ SilentRequest(r)
  \/ BuildEnqueue(r)

LEMMA SilentRequestKeeps ==
  ASSUME IInv, NEW r \in Requests, SilentRequests(r)
  PROVE  /\ UNCHANGED <<docVars, kbrow, enabled, active>>
         /\ \A s \in Requests : SameStance(s)
<1>0. ReqTypeOK
  BY DEF IInv, TypeOK
<1>1. UNCHANGED <<docVars, kbrow, enabled, active>>
  BY DEF SilentRequests, SilentRequest, BuildStart, SearchRead, BuildCreate, CreateBuild,
     DeleteNextBank, BuildEnqueue, BuildEnqueueFails, UpdateBuild, SearchGetBuild, SearchRecall,
     RetainExperience, Cancel, ReqFails, rowVars
<1>2. \A s \in Requests : s # r => req'[s] = req[s]
  BY <1>0 DEF SilentRequests, SilentRequest, BuildStart, SearchRead, BuildCreate,
     DeleteNextBank, BuildEnqueue, BuildEnqueueFails, SearchGetBuild, SearchRecall,
     RetainExperience, Cancel, ReqFails, ReqTypeOK, ReqReturn
<1>3. SameStance(r)
  <2> USE <1>0 DEF ReqTypeOK, SameStance, Overruling, IdleReq, ReqReturn
  <2>1. ASSUME NEW k \in KBs, BuildStart(r, k) PROVE SameStance(r)
    BY <2>1 DEF BuildStart
  <2>2. ASSUME NEW k \in KBs, SearchRead(r, k) PROVE SameStance(r)
    <3>1. req'[r].pc = "searchBuild"
      BY <2>2 DEF SearchRead
    <3> QED BY <3>1
  <2>3. ASSUME NEW b \in Builds, BuildCreate(r, b) \/ DeleteNextBank(r, b)
        PROVE  SameStance(r)
    BY <2>3 DEF BuildCreate, DeleteNextBank
  <2>4. CASE BuildEnqueue(r) \/ BuildEnqueueFails(r)
    BY <2>4 DEF BuildEnqueue, BuildEnqueueFails
  <2>5. CASE SearchGetBuild(r) \/ SearchRecall(r) \/ RetainExperience(r)
    BY <2>5 DEF SearchGetBuild, SearchRecall, RetainExperience
  <2>6. CASE Cancel(r) \/ ReqFails(r)
    BY <2>6 DEF Cancel, ReqFails
  <2> QED
    BY <2>1, <2>2, <2>3, <2>4, <2>5, <2>6 DEF SilentRequests, SilentRequest
<1> QED
  BY <1>1, <1>2, <1>3 DEF SameStance

LEMMA WorkerKeeps ==
  ASSUME NEW w \in Workers, WorkerStep(w)
  PROVE  UNCHANGED <<docVars, kbrow, enabled, active, req>>
BY DEF WorkerStep, Receive, Load, List, MarkProcessing, ProvisionBank, ReadDocument, ReadAll,
   Retain, Finalize, FailBuild, WorkerCallFails, RetainFails, WorkerGivesUp, UpdateBuild, rowVars

(* No step but Enable's, Disable's, Create's and Delete's touches what is  *)
(* served, or begins to.                                                   *)
QuietNext ==
  \/ Silent
  \/ \E c \in Calls, d \in Docs : ReceiveContent(c, d) \/ DeleteDocument(c, d)
  \/ \E c \in Calls : DocumentCreated(c)
  \/ \E r \in Requests : BuildCreated(r)

LEMMA QuietKeeps ==
  ASSUME IInv, QuietNext
  PROVE  /\ UNCHANGED <<kbrow, enabled, active, promise>>
         /\ \A s \in Requests : SameStance(s)
<1>0. \A s \in Requests : req'[s] = req[s] => SameStance(s)
  BY DEF SameStance
<1>1. ASSUME NEW c \in Calls, NEW d \in Docs, ReceiveContent(c, d) \/ DeleteDocument(c, d)
      PROVE  UNCHANGED <<kbrow, enabled, active, promise, req>>
  BY <1>1 DEF ReceiveContent, DeleteDocument, kbVars, rowVars, clientVars
<1>2. ASSUME NEW c \in Calls, DocumentCreated(c)
      PROVE  UNCHANGED <<kbrow, enabled, active, promise, req>>
  BY <1>2 DEF DocumentCreated, Acknowledge, kbVars, rowVars
<1>3. ASSUME NEW r \in Requests, BuildCreated(r) \/ SilentRequest(r)
      PROVE  UNCHANGED <<kbrow, enabled, active>> /\ \A s \in Requests : SameStance(s)
  BY <1>3, SilentRequestKeeps DEF BuildCreated, SilentRequests
<1>4. CASE Silent
  <2>1. CASE Crash
    BY <1>4, <2>1 DEF Crash, Silent, rowVars, clientVars, SameStance, IdleReq, Overruling
  <2>2. ASSUME NEW r \in Requests, SilentRequest(r)
        PROVE  UNCHANGED <<kbrow, enabled, active>> /\ \A s \in Requests : SameStance(s)
    BY <1>3, <2>2
  <2>3. CASE UNCHANGED <<kbrow, enabled, active, req>>
    BY <1>0, <1>4, <2>3 DEF Silent, clientVars
  <2> QED
    BY <1>4, <2>1, <2>2, <2>3, WorkerKeeps
    DEF Silent, clientVars, kbVars, rowVars, DeleteRowCascades, AddDocument, RemoveDocument
<1>5. ASSUME NEW r \in Requests, BuildCreated(r) PROVE UNCHANGED promise
  BY <1>5 DEF BuildCreated, Acknowledge
<1> QED BY <1>0, <1>1, <1>2, <1>3, <1>4, <1>5 DEF QuietNext

-----------------------------------------------------------------------------
(* The last word on a knowledge base. *)

Uncontested(k) ==
  promise[k] # Unknown => ServingOf(k) = promise[k] /\ \A r \in Requests : ~Changes(r, k)

LEMMA UncontestedStays ==
  ASSUME NEW k \in KBs, Uncontested(k), promise'[k] = promise[k],
         ServingOf(k)' = ServingOf(k),
         \A s \in Requests : Changes(s, k)' => Changes(s, k)
  PROVE  Uncontested(k)'
BY DEF Uncontested

LEMMA ServingStays ==
  ASSUME NEW k \in KBs, kbrow'[k] = kbrow[k], enabled'[k] = enabled[k], active'[k] = active[k]
  PROVE  ServingOf(k)' = ServingOf(k)
BY DEF ServingOf, KBExists, IsSearchable

(* The first read of a request that changes what k serves. *)
Opens(r, k) ==
  \/ \E b \in Builds : Enable(r, k, b)
  \/ Disable(r, k) \/ DeleteKnowledgeBase(r, k)

LEMMA OpenKeeps ==
  ASSUME IInv, HttpTypeOK, PromisesUncontested,
         NEW r \in Requests, NEW j \in KBs, Opens(r, j), NEW k \in KBs
  PROVE  Uncontested(k)'
<1>0. ReqTypeOK
  BY DEF IInv, TypeOK
<1>1. CASE k = j
  <2>1. promise'[k] = Unknown
    BY <1>1 DEF Opens, Enable, Disable, DeleteKnowledgeBase, Unsettle, HttpTypeOK
  <2> QED BY <2>1 DEF Uncontested
<1>2. CASE k # j
  <2>1. promise'[k] = promise[k]
    BY <1>2 DEF Opens, Enable, Disable, DeleteKnowledgeBase, Unsettle, HttpTypeOK
  <2>2. UNCHANGED <<kbrow, enabled, active>>
    BY DEF Opens, Enable, Disable, DeleteKnowledgeBase, EnableRead, DisableRead, DeleteList, rowVars
  <2>3. ASSUME NEW s \in Requests, Changes(s, k)' PROVE Changes(s, k)
    <3>1. req'[s] = req[s] \/ req'[s].kb = j
      <4>1. CASE \E b \in Builds : Enable(r, j, b)
        BY <1>0, <4>1 DEF ReqTypeOK, Enable, EnableRead, IdleReq
      <4>2. CASE Disable(r, j)
        BY <1>0, <4>2 DEF ReqTypeOK, Disable, DisableRead, IdleReq
      <4>3. CASE DeleteKnowledgeBase(r, j)
        BY <1>0, <4>3 DEF ReqTypeOK, DeleteKnowledgeBase, DeleteList, IdleReq
      <4> QED BY <4>1, <4>2, <4>3 DEF Opens
    <3> QED BY <1>2, <2>3, <3>1 DEF Changes
  <2> QED
    BY <2>1, <2>2, <2>3, ServingStays, UncontestedStays DEF PromisesUncontested, Uncontested
<1> QED BY <1>1, <1>2

(* The write of such a request, and its answer. *)
Closes(r) == Enabled(r) \/ Disabled(r) \/ KBDeleted(r)

LEMMA CloseKeeps ==
  ASSUME IInv, HttpTypeOK, PromisesUncontested, NEW r \in Requests, Closes(r), NEW k \in KBs
  PROVE  Uncontested(k)'
<1>0. ReqTypeOK /\ RowsTypeOK
  BY DEF IInv, TypeOK
<1>1. /\ ReqReturn(r)
      /\ req[r].pc \in Overruling
      /\ req[r].kb \in KBs
  BY DEF Closes, Enabled, Disabled, KBDeleted, EnableWrite, DisableWrite, DeleteRowOfKB,
     Overruling, ReqAt, IInv, CopiesSettled
<1>2. \A s \in Requests, j \in KBs : Changes(s, j)' <=> s # r /\ Changes(s, j)
  BY <1>0, <1>1 DEF ReqReturn, IdleReq, Changes, ReqTypeOK
<1>3. CASE req[r].kb # k
  <2>1. promise'[k] = promise[k]
    BY <1>1, <1>3 DEF Closes, Enabled, Disabled, KBDeleted, Settle, HttpTypeOK
  <2>2. kbrow'[k] = kbrow[k] /\ enabled'[k] = enabled[k] /\ active'[k] = active[k]
    BY <1>0, <1>1, <1>3 DEF Closes, Enabled, Disabled, KBDeleted, EnableWrite, DisableWrite,
       DeleteRowOfKB, UpdateKB, DeleteKB, RowsTypeOK
  <2> QED
    BY <1>2, <2>1, <2>2, ServingStays, UncontestedStays DEF PromisesUncontested, Uncontested
<1>4. CASE req[r].kb = k /\ ~KBExists(k)
  <2>1. promise' = promise
    BY <1>4 DEF Closes, Enabled, Disabled, KBDeleted
  <2>2. Changes(r, k)
    BY <1>1, <1>4 DEF Changes, Overruling
  <2> QED BY <2>1, <2>2 DEF PromisesUncontested, Uncontested
<1>5. ASSUME req[r].kb = k, KBExists(k), \E s \in Requests \ {r} : Changes(s, k)
      PROVE  Uncontested(k)'
  <2>1. promise'[k] = Unknown
    BY <1>5 DEF Closes, Enabled, Disabled, KBDeleted, Settle, HttpTypeOK
  <2> QED BY <2>1 DEF Uncontested
<1>6. ASSUME req[r].kb = k, KBExists(k), ~\E s \in Requests \ {r} : Changes(s, k)
      PROVE  Uncontested(k)'
  <2>1. \A s \in Requests : ~Changes(s, k)'
    BY <1>2, <1>6
  <2>2. CASE Enabled(r)
    <3>1. req[r].build \in Builds
      BY <2>2, EnableCopy DEF Enabled, Settled
    <3>2. promise'[k] = req[r].build
      BY <1>6, <2>2 DEF Enabled, Settle, HttpTypeOK
    <3>3. kbrow'[k] = "live" /\ enabled'[k] /\ active'[k] = req[r].build
      BY <1>0, <1>6, <2>2 DEF Enabled, EnableWrite, UpdateKB, RowsTypeOK, KBExists
    <3> QED
      BY <2>1, <3>1, <3>2, <3>3 DEF Uncontested, ServingOf, KBExists, IsSearchable
  <2>3. CASE Disabled(r)
    <3>1. promise'[k] = NoBuild /\ ~enabled'[k]
      BY <1>0, <1>6, <2>3 DEF Disabled, Settle, HttpTypeOK, DisableWrite, UpdateKB, RowsTypeOK
    <3> QED BY <2>1, <3>1 DEF Uncontested, ServingOf, KBExists, IsSearchable
  <2>4. CASE KBDeleted(r)
    <3>1. promise'[k] = NoBuild
      BY <1>6, <2>4 DEF KBDeleted, Settle, HttpTypeOK
    <3>2. kbrow'[k] # "live"
      BY <1>0, <1>6, <2>4 DEF KBDeleted, DeleteRowOfKB, DeleteKB, RowsTypeOK
    <3> QED BY <2>1, <3>1, <3>2 DEF Uncontested, ServingOf, KBExists, IsSearchable
  <2> QED BY <2>2, <2>3, <2>4 DEF Closes
<1> QED BY <1>3, <1>4, <1>5, <1>6

LEMMA NextUncontested ==
  ASSUME IInv, HttpTypeOK, PromisesUncontested, [HttpNext]_httpVars
  PROVE  PromisesUncontested'
<1> SUFFICES ASSUME NEW k \in KBs PROVE Uncontested(k)'
  BY DEF PromisesUncontested, Uncontested
<1>1. ASSUME NEW r \in Requests, NEW j \in KBs, Opens(r, j) PROVE Uncontested(k)'
  BY <1>1, OpenKeeps
<1>2. ASSUME NEW r \in Requests, Closes(r) PROVE Uncontested(k)'
  BY <1>2, CloseKeeps
<1>3. ASSUME NEW j \in KBs, KBCreated(j) PROVE Uncontested(k)'
  <2>0. RowsTypeOK
    BY DEF IInv, TypeOK
  <2>1. promise' = promise /\ req' = req
    BY <1>3 DEF KBCreated, Acknowledge, Create
  <2>2. kbrow[j] = "unborn" /\ active[j] = NoBuild
    BY <1>3 DEF KBCreated, Create, IInv, ActiveSettled
  <2>3. kbrow' = [kbrow EXCEPT ![j] = "live"] /\ UNCHANGED <<enabled, active>>
    BY <1>3 DEF KBCreated, Create
  <2>4. ServingOf(k)' = ServingOf(k)
    BY <2>0, <2>2, <2>3 DEF RowsTypeOK, ServingOf, KBExists, IsSearchable
  <2> QED
    BY <2>1, <2>4, UncontestedStays DEF Changes, PromisesUncontested, Uncontested
<1>4. CASE QuietNext
  <2>1. \A s \in Requests : Changes(s, k)' => Changes(s, k)
    BY <1>4, QuietKeeps DEF SameStance, Changes, Overruling
  <2> QED
    BY <1>4, <2>1, QuietKeeps, ServingStays, UncontestedStays DEF PromisesUncontested, Uncontested
<1>5. CASE UNCHANGED httpVars
  <2>1. ServingOf(k)' = ServingOf(k) /\ UNCHANGED <<promise, req>>
    BY <1>5, ServingStays DEF httpVars, clientVars, vars, kbVars, rowVars
  <2> QED
    BY <2>1, UncontestedStays DEF Changes, PromisesUncontested, Uncontested
<1> QED
  BY <1>1, <1>2, <1>3, <1>4, <1>5 DEF HttpNext, QuietNext, Opens, Closes

-----------------------------------------------------------------------------
(* Types, what is asked and what is acknowledged. *)

LEMMA NextHttpTypeOK ==
  ASSUME IInv, HttpTypeOK, [HttpNext]_httpVars
  PROVE  HttpTypeOK'
<1> USE DEF HttpTypeOK, Acknowledge, Unsettle, Settle, Ids
<1>0. DocTypeOK /\ ReqTypeOK
  BY DEF IInv, TypeOK
<1>1. ASSUME NEW c \in Calls, DocumentCreated(c) PROVE HttpTypeOK'
  BY <1>0, <1>1 DEF DocumentCreated, UploadCreate, At, DocTypeOK, Idle
<1>2. ASSUME NEW r \in Requests, BuildCreated(r) PROVE HttpTypeOK'
  <2>1. req[r].build \in Builds
    BY <1>2 DEF BuildCreated, BuildEnqueue, IInv, WaitingStatus
  <2> QED BY <1>2, <2>1 DEF BuildCreated
<1>3. ASSUME NEW r \in Requests, Enabled(r) PROVE HttpTypeOK'
  <2>1. req[r].build \in Builds
    BY <1>3, EnableCopy DEF Enabled, Settled
  <2> QED BY <1>3, <2>1 DEF Enabled
<1>4. ASSUME NEW r \in Requests, Disabled(r) \/ KBDeleted(r) PROVE HttpTypeOK'
  BY <1>4 DEF Disabled, KBDeleted
<1>5. ASSUME NEW r \in Requests, NEW k \in KBs, Opens(r, k) PROVE HttpTypeOK'
  BY <1>5 DEF Opens, Enable, Disable, DeleteKnowledgeBase
<1>6. ASSUME NEW c \in Calls, NEW d \in Docs, ReceiveContent(c, d) \/ DeleteDocument(c, d)
      PROVE  HttpTypeOK'
  BY <1>6 DEF ReceiveContent, DeleteDocument, clientVars
<1>7. CASE Silent \/ UNCHANGED httpVars
  BY <1>7 DEF Silent, httpVars, clientVars
<1>8. ASSUME NEW k \in KBs, KBCreated(k) PROVE HttpTypeOK'
  BY <1>8 DEF KBCreated
<1> QED
  BY <1>1, <1>2, <1>3, <1>4, <1>5, <1>6, <1>7, <1>8 DEF HttpNext, Opens

(* The steps of the document handlers, and all the others. *)
LEMMA HttpDocSteps ==
  ASSUME HttpNext
  PROVE  \/ \E c \in Calls, d \in Docs : ReceiveContent(c, d) \/ DeleteDocument(c, d)
         \/ \E c \in Calls : \/ DocumentCreated(c)
                             \/ (DeleteObject(c) \/ DeleteRow(c) \/ Abandon(c)) /\ UNCHANGED clientVars
         \/ DocCrash /\ UNCHANGED clientVars
         \/ UNCHANGED docVars
<1>1. ASSUME NEW r \in Requests, SilentRequest(r) PROVE UNCHANGED docVars
  BY <1>1 DEF SilentRequest, BuildStart, SearchRead, BuildCreate, DeleteNextBank,
     BuildEnqueueFails, SearchGetBuild, SearchRecall, RetainExperience, Cancel, ReqFails
<1>2. CASE Silent
  BY <1>1, <1>2, WorkerKeeps DEF Silent, DeleteRowCascades, Crash, AddDocument, RemoveDocument
<1> QED
  BY <1>2 DEF HttpNext, KBCreated, Create, Disable, DisableRead, Enable, EnableRead,
     DeleteKnowledgeBase, DeleteList, BuildCreated, BuildEnqueue, Enabled, EnableWrite, Disabled,
     DisableWrite, KBDeleted, DeleteRowOfKB

LEMMA AskedGrows == HttpNext => asked \subseteq asked'
BY DEF HttpNext, ReceiveContent, DeleteDocument, DocumentCreated, KBCreated, Disable, Enable,
   DeleteKnowledgeBase, BuildCreated, Enabled, Disabled, KBDeleted, Silent, Acknowledge, clientVars

LEMMA NextAskedDocuments ==
  ASSUME DocIInv, OnlyAskedIsDeleted, HttpNext
  PROVE  /\ \A c \in Calls : call'[c].pc \in {"deleteObject", "deleteRow"} => call'[c].doc \in asked'
         /\ \A d \in Docs : row'[d] = "gone" \/ object'[d] = "deleted" => d \in asked'
<1> DEFINE Goal ==
      /\ \A c \in Calls : call'[c].pc \in {"deleteObject", "deleteRow"} => call'[c].doc \in asked'
      /\ \A d \in Docs : row'[d] = "gone" \/ object'[d] = "deleted" => d \in asked'
<1> USE DEF DocIInv, DocTypeOK, OnlyAskedIsDeleted, At, Goto, Return, Idle
<1>1. ASSUME NEW c \in Calls, NEW d \in Docs, ReceiveContent(c, d) PROVE Goal
  BY <1>1 DEF ReceiveContent, UploadPut, StoragePut, clientVars
<1>2. ASSUME NEW c \in Calls, NEW d \in Docs, DeleteDocument(c, d) PROVE Goal
  BY <1>2 DEF DeleteDocument, DeleteStart
<1>3. ASSUME NEW c \in Calls, DocumentCreated(c) PROVE Goal
  BY <1>3 DEF DocumentCreated, UploadCreate, DocumentCreate, Acknowledge
<1>4. ASSUME NEW c \in Calls, DeleteObject(c) \/ DeleteRow(c) \/ Abandon(c), UNCHANGED clientVars
      PROVE  Goal
  BY <1>4 DEF DeleteObject, DeleteRow, Abandon, StorageDelete, DocumentDelete, clientVars
<1>5. CASE DocCrash /\ UNCHANGED clientVars
  BY <1>5 DEF DocCrash, clientVars
<1>6. CASE UNCHANGED docVars
  BY <1>6, AskedGrows DEF docVars
<1> QED BY <1>1, <1>2, <1>3, <1>4, <1>5, <1>6, HttpDocSteps

LEMMA NextAskedKBs ==
  ASSUME IInv, HttpTypeOK, OnlyAskedIsDeleted, HttpNext
  PROVE  /\ \A r \in Requests : req'[r].pc = "deleteBanks" => req'[r].kb \in asked'
         /\ \A k \in KBs : kbrow'[k] = "gone" => k \in asked'
<1> DEFINE Goal ==
      /\ \A r \in Requests : req'[r].pc = "deleteBanks" => req'[r].kb \in asked'
      /\ \A k \in KBs : kbrow'[k] = "gone" => k \in asked'
<1>0. ReqTypeOK /\ RowsTypeOK
  BY DEF IInv, TypeOK
<1> USE <1>0 DEF OnlyAskedIsDeleted, ReqAt
<1>1. CASE QuietNext
  BY <1>1, AskedGrows, QuietKeeps DEF SameStance, Overruling
<1>2. ASSUME NEW r \in Requests, NEW k \in KBs, Opens(r, k) PROVE Goal
  <2>1. kbrow' = kbrow
    BY <1>2 DEF Opens, Enable, Disable, DeleteKnowledgeBase, EnableRead, DisableRead,
       DeleteList, rowVars
  <2>2. ASSUME NEW s \in Requests, req'[s].pc = "deleteBanks" PROVE req'[s].kb \in asked'
    <3>1. req'[s] = req[s] \/ (s = r /\ req'[s].kb = k /\ DeleteKnowledgeBase(r, k))
      <4>1. CASE \E b \in Builds : Enable(r, k, b)
        BY <2>2, <4>1 DEF ReqTypeOK, Enable, EnableRead, IdleReq
      <4>2. CASE Disable(r, k)
        BY <2>2, <4>2 DEF ReqTypeOK, Disable, DisableRead, IdleReq
      <4>3. CASE DeleteKnowledgeBase(r, k)
        BY <2>2, <4>3 DEF ReqTypeOK, DeleteKnowledgeBase, DeleteList, IdleReq
      <4> QED BY <1>2, <4>1, <4>2, <4>3 DEF Opens
    <3> QED BY <2>2, <3>1, AskedGrows DEF DeleteKnowledgeBase
  <2> QED BY <2>1, <2>2, AskedGrows
<1>3. ASSUME NEW r \in Requests, Closes(r) PROVE Goal
  <2>1. ReqReturn(r)
    BY <1>3 DEF Closes, Enabled, Disabled, KBDeleted, EnableWrite, DisableWrite, DeleteRowOfKB
  <2>2. \A k \in KBs : kbrow'[k] = kbrow[k] \/ (ReqAt(r, "deleteBanks") /\ req[r].kb = k)
    BY <1>3 DEF Closes, Enabled, Disabled, KBDeleted, EnableWrite, DisableWrite, DeleteRowOfKB,
       UpdateKB, DeleteKB, RowsTypeOK
  <2> QED BY <2>1, <2>2, AskedGrows DEF ReqReturn, IdleReq, ReqTypeOK
<1>4. ASSUME NEW k \in KBs, KBCreated(k) PROVE Goal
  BY <1>4, AskedGrows DEF KBCreated, Create, RowsTypeOK
<1> QED BY <1>1, <1>2, <1>3, <1>4 DEF HttpNext, QuietNext, Opens, Closes

(* No row that was there is unborn again. *)
LEMMA NextBorn ==
  ASSUME IInv, DocIInv, HttpNext
  PROVE  /\ \A d \in Docs : row'[d] = "unborn" => row[d] = "unborn"
         /\ \A k \in KBs : kbrow'[k] = "unborn" => kbrow[k] = "unborn"
         /\ \A b \in Builds : status'[b] = "unborn" => status[b] = "unborn"
<1>0. RowsTypeOK
  BY DEF IInv, TypeOK
<1>1. \A d \in Docs : row'[d] = "unborn" => row[d] = "unborn"
  BY HttpSteps, CoreIsDocuments DEF DocIInv, DocTypeOK, DocNext, DocCallStep, UploadPut, DeleteStart,
     SourceStart, UploadCreate, DocumentCreate, DeleteObject, DeleteRow, DocumentDelete,
     SourceFetch, Abandon, DocCrash, docVars
<1>2. \A k \in KBs : kbrow'[k] = "unborn" => kbrow[k] = "unborn"
  <2>1. ASSUME NEW r \in Requests, \/ EnableWrite(r) \/ DisableWrite(r) \/ DeleteRowOfKB(r)
                                   \/ \E b \in Builds : BuildCreate(r, b)
        PROVE  \A k \in KBs : kbrow'[k] = "unborn" => kbrow[k] = "unborn"
    BY <1>0, <2>1 DEF RowsTypeOK, EnableWrite, DisableWrite, UpdateKB, DeleteRowOfKB, DeleteKB,
       BuildCreate, CreateBuild, rowVars
  <2>2. ASSUME NEW j \in KBs, Create(j)
        PROVE  \A k \in KBs : kbrow'[k] = "unborn" => kbrow[k] = "unborn"
    BY <1>0, <2>2 DEF RowsTypeOK, Create
  <2>3. CASE UNCHANGED coreVars \/ \E w \in Workers : MarkProcessing(w) \/ Finalize(w) \/ FailBuild(w)
    BY <2>3, WorkerWrites DEF coreVars
  <2> QED BY <2>1, <2>2, <2>3, HttpSteps, CoreSteps
<1>3. ASSUME NEW b \in Builds, status'[b] = "unborn" PROVE status[b] = "unborn"
  <2>1. status'[b] = status[b] \/ <<status[b], status'[b]>> \in Lifecycle
    BY HttpSteps, StepFollowsLifecycle
  <2> QED BY <1>3, <2>1 DEF Lifecycle, Statuses
<1> QED BY <1>1, <1>2, <1>3

LEMMA NextAcknowledgedIsBorn ==
  ASSUME IInv, DocIInv, HttpTypeOK, AcknowledgedIsBorn, HttpNext
  PROVE  AcknowledgedIsBorn'
<1> USE UuidAssumption DEF AcknowledgedIsBorn, Acknowledge
<1>0. RowsTypeOK /\ DocTypeOK
  BY DEF IInv, TypeOK
<1>1. CASE acked' = acked
  BY <1>1, NextBorn
<1>2. ASSUME NEW c \in Calls, DocumentCreated(c) PROVE AcknowledgedIsBorn'
  <2>1. call[c].doc \in Docs /\ row'[call[c].doc] = "live"
    BY <1>0, <1>2 DEF DocumentCreated, UploadCreate, DocumentCreate, At, DocTypeOK, Idle
  <2> QED BY <1>2, <2>1, NextBorn DEF DocumentCreated
<1>3. ASSUME NEW k \in KBs, KBCreated(k) PROVE AcknowledgedIsBorn'
  <2>1. kbrow'[k] = "live"
    BY <1>0, <1>3 DEF KBCreated, Create, RowsTypeOK
  <2> QED BY <1>3, <2>1, NextBorn DEF KBCreated
<1>4. ASSUME NEW r \in Requests, BuildCreated(r) PROVE AcknowledgedIsBorn'
  <2>1. req[r].build \in Builds /\ status'[req[r].build] # "unborn"
    BY <1>4 DEF BuildCreated, BuildEnqueue, rowVars, IInv, WaitingStatus
  <2> QED BY <1>4, <2>1, NextBorn DEF BuildCreated
<1>5. \/ acked' = acked
      \/ \E c \in Calls : DocumentCreated(c)
      \/ \E k \in KBs : KBCreated(k)
      \/ \E r \in Requests : BuildCreated(r)
  BY DEF HttpNext, ReceiveContent, DeleteDocument, Disable, Enable, DeleteKnowledgeBase, Enabled,
     Disabled, KBDeleted, Silent, clientVars
<1> QED BY <1>1, <1>2, <1>3, <1>4, <1>5

LEMMA NextRequestsKnowKBs ==
  ASSUME IInv, DocIInv, RequestsKnowKBs, HttpNext
  PROVE  RequestsKnowKBs'
<1> SUFFICES ASSUME NEW r \in Requests, req'[r].pc # "idle" PROVE kbrow'[req'[r].kb] # "unborn"
  BY DEF RequestsKnowKBs, ReqAt
<1>0. ReqTypeOK
  BY DEF IInv, TypeOK
<1> USE <1>0 DEF ReqTypeOK, IdleReq, ReqReturn, ReqAt
<1>1. CASE req'[r] = req[r]
  <2>1. req[r].kb \in KBs /\ kbrow[req[r].kb] # "unborn"
    BY <1>1 DEF RequestsKnowKBs, IInv, CopiesSettled
  <2> QED BY <1>1, <2>1, NextBorn
<1>2. CASE RequestStep(r)
  <2>1. ASSUME NEW k \in KBs, req'[r].kb = k /\ KBExists(k) PROVE kbrow'[req'[r].kb] # "unborn"
    BY <2>1, NextBorn DEF KBExists
  <2>2. CASE req[r].pc # "idle" /\ req'[r].kb = req[r].kb
    BY <2>2, NextBorn DEF RequestsKnowKBs, IInv, CopiesSettled
  <2>3. ASSUME NEW k \in KBs,
               \/ BuildStart(r, k) \/ DisableRead(r, k)
               \/ DeleteList(r, k) \/ SearchRead(r, k)
               \/ \E b \in Builds : EnableRead(r, k, b)
        PROVE  req'[r].kb = k /\ KBExists(k)
    BY <2>3 DEF BuildStart, DisableRead, DeleteList, SearchRead, EnableRead
  <2>4. ASSUME NEW b \in Builds, BuildCreate(r, b) \/ DeleteNextBank(r, b)
        PROVE  req[r].pc # "idle" /\ req'[r].kb = req[r].kb
    BY <2>4 DEF BuildCreate, DeleteNextBank
  <2>5. CASE \/ BuildEnqueue(r) \/ BuildEnqueueFails(r) \/ EnableWrite(r) \/ DisableWrite(r)
             \/ DeleteRowOfKB(r) \/ SearchRecall(r) \/ RetainExperience(r) \/ ReqFails(r)
             \/ Cancel(r)
    <3>1. ReqReturn(r)
      BY <2>5 DEF BuildEnqueue, BuildEnqueueFails, EnableWrite, DisableWrite, DeleteRowOfKB,
         SearchRecall, RetainExperience, ReqFails, Cancel
    <3> QED BY <3>1
  <2>6. CASE SearchGetBuild(r)
    <3>1. req[r].pc # "idle" /\ req'[r].kb = req[r].kb
      BY <2>6 DEF SearchGetBuild
    <3> QED BY <2>2, <3>1
  <2> QED BY <1>2, <2>1, <2>2, <2>3, <2>4, <2>5, <2>6 DEF RequestStep
<1>3. CASE Crash
  BY <1>3 DEF Crash
<1> QED BY <1>1, <1>2, <1>3, HttpSteps, RequestMoves

-----------------------------------------------------------------------------
(* Banks, with every fault: only a Delete that was asked for takes one.    *)

LEMMA OnlyAskedLoseBanks ==
  ASSUME OnlyAskedIsDeleted, NEW b \in Builds, BeingDeleted(owner[b])
  PROVE  owner[b] \in asked
BY DEF OnlyAskedIsDeleted, BeingDeleted

LEMMA AskedStays ==
  ASSUME IInv, HttpNext, NEW b \in Builds, status[b] # "unborn", owner[b] \in asked
  PROVE  owner'[b] \in asked'
BY AskedGrows, HttpSteps, OwnerStays

LEMMA KeptBankStays ==
  ASSUME IInv, OnlyAskedIsDeleted, DropsOwnBanks, HttpNext,
         NEW b \in Builds, status[b] # "unborn", BankIsKept(b)
  PROVE  BankIsKept(b)'
<1>1. b \in banks => b \in banks' \/ owner[b] \in asked
  BY HttpSteps, BankChanges, OnlyAskedLoseBanks
<1> QED BY <1>1, AskedStays DEF BankIsKept

LEMMA NextBanksOutlastFaults ==
  ASSUME IInv, OnlyAskedIsDeleted, BanksOutlastFaults, HttpNext
  PROVE  BanksOutlastFaults'
<1> USE HttpSteps DEF BanksOutlastFaults, NeedsBank
<1>1. DropsOwnBanks'
  BY NextDropsOwnBanks
<1>2. ASSUME NEW b \in Builds, status'[b] = "ready" PROVE BankIsKept(b)'
  <2>1. CASE status[b] = "ready"
    BY <2>1, KeptBankStays
  <2>2. ASSUME NEW w \in Workers, wk[w].build = b, Finalize(w) PROVE BankIsKept(b)'
    BY <2>2, KeptBankStays DEF Finalize, WkAt, IInv, WorkerStatus
  <2> QED BY <1>2, <2>1, <2>2, BecomesReady
<1>3. ASSUME NEW w \in Workers, wk'[w].pc \in NeedsBank, NEW b \in Builds, wk[w].build = b
      PROVE  BankIsKept(b)'
  <2>1. CASE wk[w].pc \in NeedsBank /\ status[b] # "unborn"
    BY <1>3, <2>1, KeptBankStays
  <2>2. CASE ProvisionBank(w)
    BY <1>3, <2>2 DEF ProvisionBank, CreateBank, BankIsKept
  <2> QED BY <1>3, <2>1, <2>2, BankHolders
<1>4. ASSUME NEW w \in Workers, wk'[w].pc \in NeedsBank
      PROVE  BankIsKept(wk[w].build)'
  BY <1>3, <1>4, BankHolders DEF BankIsKept
<1> QED BY <1>1, <1>2, <1>4

LEMMA NextBanksFilledWhole ==
  ASSUME IInv, OnlyAskedIsDeleted, DropsOwnBanks, BanksFilledWhole, HttpNext
  PROVE  BanksFilledWhole'
<1> USE HttpSteps DEF BanksFilledWhole
<1>1. NothingRetainedYet'
  BY NextNothingRetainedYet
<1>2. ASSUME NEW w \in Workers, wk'[w].pc = "retain" PROVE wk'[w].got = wk'[w].docs
  BY <1>2, RetainsAll
<1>3. ASSUME NEW w \in Workers, wk'[w].pc = "finalize"
      PROVE  /\ wk'[w].build = wk[w].build
             /\ content'[wk[w].build] = wk'[w].docs \/ owner'[wk[w].build] \in asked'
  <2>1. CASE Retain(w)
    BY <2>1, RetainFills DEF Retain
  <2>2. CASE wk'[w] = wk[w] /\ WkAt(w, "finalize")
    <3>1. /\ wk[w].build \in Builds /\ status[wk[w].build] # "unborn"
          /\ \/ content'[wk[w].build] = content[wk[w].build]
             \/ owner[wk[w].build] \in asked
      BY <2>2, FilledStays, OnlyAskedLoseBanks
    <3>2. content[wk[w].build] = wk[w].docs \/ owner[wk[w].build] \in asked
      BY <2>2 DEF FilledOrAsked
    <3>3. owner[wk[w].build] \in asked => owner'[wk[w].build] \in asked'
      BY <3>1, AskedStays
    <3> QED BY <2>2, <3>1, <3>2, <3>3
  <2> QED BY <1>3, <2>1, <2>2, RetainsAll
<1>4. ASSUME NEW w \in Workers, wk'[w].pc = "finalize" PROVE FilledOrAsked(w)'
  BY <1>3, <1>4 DEF FilledOrAsked
<1> QED BY <1>1, <1>2, <1>4 DEF WkAt

-----------------------------------------------------------------------------
(* The theorems. *)

LEMMA InitHttpIInv == HttpInit => HttpIInv
BY DEF HttpInit, HttpIInv, HttpTypeOK, OnlyAskedIsDeleted, AcknowledgedIsBorn,
   RequestsKnowKBs, PromisesUncontested, Changes, ServingOf, KBExists, ReqAt, Init, DocInit, Idle,
   IdleReq, BanksOutlastFaults, DropsOwnBanks, BanksFilledWhole, NothingRetainedYet, WkAt, IdleWorker

LEMMA NextHttpIInv ==
  ASSUME IInv, DocIInv, HttpIInv, [HttpNext]_httpVars
  PROVE  HttpIInv'
<1> USE DEF HttpIInv
<1>1. HttpTypeOK' /\ PromisesUncontested'
  BY NextHttpTypeOK, NextUncontested
<1>2. CASE HttpNext
  <2>1. OnlyAskedIsDeleted'
    BY <1>2, NextAskedDocuments, NextAskedKBs DEF OnlyAskedIsDeleted, ReqAt
  <2>2. BanksOutlastFaults' /\ BanksFilledWhole'
    BY <1>2, NextBanksOutlastFaults, NextBanksFilledWhole DEF BanksOutlastFaults
  <2> QED BY <1>1, <1>2, <2>1, <2>2, NextAcknowledgedIsBorn, NextRequestsKnowKBs
<1>3. CASE UNCHANGED httpVars
  <2> USE <1>3 DEF httpVars, clientVars, vars, docVars, kbVars, rowVars, bankVars, ReqAt, WkAt
  <2>1. OnlyAskedIsDeleted' /\ AcknowledgedIsBorn' /\ RequestsKnowKBs'
    BY DEF OnlyAskedIsDeleted, AcknowledgedIsBorn, RequestsKnowKBs
  <2>2. BanksOutlastFaults' /\ BanksFilledWhole'
    BY DEF BanksOutlastFaults, BankIsKept, DropsOwnBanks, BanksFilledWhole, FilledOrAsked,
       NothingRetainedYet
  <2> QED BY <1>1, <2>1, <2>2
<1> QED BY <1>2, <1>3

(* The invariants of the core and of the document handlers hold beneath    *)
(* the API.                                                                *)
LEMMA Beneath == HttpSpec => [](IInv /\ DocIInv)
BY AnswersKeepKnowledgeBase, CoreKeepsDocumentStore, Invariance, DocInvariance, PTL

(* What clients were told and asked for is in step with tables and stores. *)
THEOREM HttpInvariance == HttpSpec => []HttpIInv
<1>1. IInv /\ DocIInv /\ HttpIInv /\ [HttpNext]_httpVars => HttpIInv'
  BY NextHttpIInv
<1> QED BY InitHttpIInv, Beneath, <1>1, PTL DEF HttpSpec

(* Whatever fails, is cut or crashes, a 201 is durable until its client    *)
(* asks for the deletion, and a ready build can be rolled back to.         *)
THEOREM CreatedIsDurable == HttpSpec => []AcknowledgedIsKept
<1>1. ASSUME IInv, DocIInv, HttpIInv PROVE AcknowledgedIsKept
  <2> USE <1>1 DEF HttpIInv, OnlyAskedIsDeleted, AcknowledgedIsBorn
  <2>1. ASSUME NEW d \in acked \cap Docs, d \notin asked
        PROVE  DocumentGetByID(d) /\ StorageGet(d)
    BY <2>1 DEF DocIInv, DocTypeOK, MetadataNeverLeaksContent, DocumentGetByID, StorageGet
  <2>2. ASSUME NEW k \in acked \cap KBs, k \notin asked PROVE KBExists(k)
    BY <2>2 DEF IInv, TypeOK, RowsTypeOK, KBExists
  <2>3. ASSUME NEW b \in acked \cap Builds, owner[b] \notin asked PROVE BuildExists(b)
    BY <2>3 DEF IInv, TypeOK, RowsTypeOK, BuildsFollowKBs, BuildExists
  <2>4. ASSUME NEW b \in Builds, owner[b] \notin asked, status[b] = "ready" PROVE b \in banks
    BY <2>4 DEF BanksOutlastFaults, BankIsKept
  <2> QED BY <2>1, <2>2, <2>3, <2>4 DEF AcknowledgedIsKept
<1> QED BY <1>1, HttpInvariance, Beneath, PTL

(* What Enable, Disable and Delete answered is what is served until the    *)
(* next of them begins, and its bank is there unless a Delete was asked.   *)
THEOREM LastWordsHold == HttpSpec => []LastWordHolds
<1>1. ASSUME IInv, HttpIInv, NEW k \in KBs, promise[k] # Unknown
      PROVE  /\ ServingOf(k) = promise[k]
             /\ promise[k] \in Builds /\ k \notin asked => promise[k] \in banks
  <2>1. ServingOf(k) = promise[k]
    BY <1>1 DEF HttpIInv, PromisesUncontested
  <2>2. ASSUME promise[k] \in Builds, k \notin asked PROVE promise[k] \in banks
    <3>1. KBExists(k) /\ active[k] = promise[k]
      BY <2>1, <2>2, NoBuildAssumption DEF ServingOf
    <3>2. owner[promise[k]] = k /\ status[promise[k]] = "ready"
      BY <1>1, <2>2, <3>1, NoBuildAssumption
      DEF IInv, ActiveSettled, Settled, BuildsFollowKBs, KBExists
    <3> QED BY <1>1, <2>2, <3>2 DEF HttpIInv, BanksOutlastFaults, BankIsKept
  <2> QED BY <2>1, <2>2
<1>2. IInv /\ HttpIInv => LastWordHolds
  BY <1>1 DEF LastWordHolds
<1> QED BY <1>2, HttpInvariance, Beneath, PTL

(* No crash, cut request or failing call lets a build become ready with    *)
(* less than what its worker listed, or without its bank, or changes it.   *)
THEOREM ReadyMeansWhole == HttpSpec => ReadyBuildsStayWhole
<1> DEFINE Published(b) ==
             \E w \in Workers :
               /\ wk[w].build = b
               /\ (content[b] = wk[w].docs /\ b \in banks) \/ owner[b] \in asked
           Step == \A b \in Builds :
             /\ status[b] # "ready" /\ status'[b] = "ready" => Published(b)
             /\ status[b] = "ready" => content'[b] = content[b] \/ owner[b] \in asked
<1>1. ASSUME IInv, HttpIInv, Next, NEW b \in Builds, status[b] # "ready", status'[b] = "ready"
      PROVE  Published(b)
  <2>1. PICK w \in Workers : wk[w].build = b /\ Finalize(w)
    BY <1>1, BecomesReady
  <2>2. FilledOrAsked(w) /\ BankIsKept(b)
    BY <1>1, <2>1 DEF HttpIInv, BanksFilledWhole, BanksOutlastFaults, Finalize, WkAt
  <2> QED BY <2>1, <2>2 DEF FilledOrAsked, BankIsKept
<1>2. ASSUME IInv, HttpIInv, Next, NEW b \in Builds, status[b] = "ready"
      PROVE  content'[b] = content[b] \/ owner[b] \in asked
  BY <1>2, ReadyIsFrozen, OnlyAskedLoseBanks DEF HttpIInv, BanksOutlastFaults
<1>3. IInv /\ HttpIInv /\ HttpNext => Step
  BY <1>1, <1>2, HttpSteps
<1>4. UNCHANGED httpVars => Step
  BY DEF httpVars, vars, kbVars, rowVars, bankVars
<1>5. IInv /\ HttpIInv /\ [HttpNext]_httpVars => [Step]_httpVars
  BY <1>3, <1>4
<1> QED BY <1>5, HttpInvariance, Beneath, PTL DEF HttpSpec, ReadyBuildsStayWhole

(* A refusal and what excuses it. *)
Excused(a) ==
  /\ a.code \in {404, 500} /\ a.err # "call" => \E x \in a.of : MayBeGone(x)
  /\ a.err = "overtaken" => \E x \in a.of : x \in asked
  /\ a.code = 409 =>
       /\ \A b \in a.of \cap Builds, k \in KBs : promise[k] # b
       /\ a.of \cap Builds = {} => \A k \in a.of \cap KBs : promise[k] \notin Builds

LEMMA MissingMayBeGone ==
  ASSUME AcknowledgedIsKept
  PROVE  /\ \A d \in Docs : ~DocumentGetByID(d) \/ ~StorageGet(d) => MayBeGone(d)
         /\ \A k \in KBs : ~KBExists(k) => MayBeGone(k)
         /\ \A b \in Builds : ~BuildExists(b) => MayBeGone(b)
BY DEF AcknowledgedIsKept, MayBeGone

(* What it takes for an error to be excused. *)
ErrorExcused(err, of) ==
  /\ err \notin {"none", "invalid", "conflict", "call"} => \E x \in of : MayBeGone(x)
  /\ err = "overtaken" => \E x \in of : x \in asked
  /\ err = "conflict" =>
       /\ \A b \in of \cap Builds, k \in KBs : promise[k] # b
       /\ of \cap Builds = {} => \A k \in of \cap KBs : promise[k] \notin Builds

LEMMA AnswersExcused ==
  ASSUME NEW err, NEW of, ErrorExcused(err, of), NEW a \in Refused(err, of)
  PROVE  Excused(a)
<1>1. a.err = err /\ a.of = of /\ a.code = DomainError(err) /\ err # "none"
  BY DEF Refused
<1>2. /\ DomainError(err) \in {404, 500} => err \notin {"invalid", "conflict"}
      /\ DomainError(err) = 409 => err = "conflict"
  BY DEF DomainError
<1> QED BY <1>1, <1>2 DEF Excused, ErrorExcused

LEMMA ErrorsExcused ==
  ASSUME IInv, DocIInv, HttpIInv, AcknowledgedIsKept
  PROVE  /\ \A k \in KBs : /\ ErrorExcused(GetKBError(k), {k})
                           /\ ErrorExcused(BuildError(k), {k})
                           /\ ErrorExcused(SearchError(k), {k})
                           /\ ErrorExcused(FeedbackError(k), {k})
         /\ \A d \in Docs : /\ ErrorExcused(GetDocumentError(d), {d})
                            /\ ErrorExcused(SourceError(d), {d})
         /\ \A k \in KBs, d \in Docs : /\ ErrorExcused(AddDocumentError(k, d), {k, d})
                                       /\ ErrorExcused(LateAddError(k, d), {k, d})
         /\ \A k \in KBs, b \in Builds : ErrorExcused(EnableError(k, b), {k, b})
         /\ \A r \in Requests : ErrorExcused(LateError(r), {req[r].kb})
         /\ \A c \in Calls : ErrorExcused(LateDocumentError(c), {call[c].doc})
<1> USE UuidAssumption, MissingMayBeGone DEF ErrorExcused
<1>1. ASSUME NEW k \in KBs
      PROVE  /\ ErrorExcused(GetKBError(k), {k}) /\ ErrorExcused(BuildError(k), {k})
             /\ ErrorExcused(FeedbackError(k), {k})
  BY <1>1 DEF GetKBError, BuildError, FeedbackError
<1>2. ASSUME NEW k \in KBs PROVE ErrorExcused(SearchError(k), {k})
  <2>1. ~IsSearchable(k) => promise[k] \notin Builds
    BY NoBuildAssumption DEF HttpIInv, PromisesUncontested, ServingOf
  <2> QED BY <1>2, <2>1 DEF SearchError
<1>3. ASSUME NEW d \in Docs
      PROVE  ErrorExcused(GetDocumentError(d), {d}) /\ ErrorExcused(SourceError(d), {d})
  BY <1>3 DEF GetDocumentError, SourceError
<1>4. ASSUME NEW k \in KBs, NEW d \in Docs
      PROVE  /\ ErrorExcused(AddDocumentError(k, d), {k, d})
             /\ ErrorExcused(LateAddError(k, d), {k, d})
  <2>1. ~KBExists(k) \/ ~DocumentGetByID(d) => \E x \in {k, d} : MayBeGone(x)
    OBVIOUS
  <2>2. /\ kbrow[k] # "unborn" /\ ~KBExists(k) => k \in asked
        /\ row[d] # "unborn" /\ ~DocumentGetByID(d) => d \in asked
    BY DEF KBExists, DocumentGetByID, IInv, TypeOK, RowsTypeOK, DocIInv, DocTypeOK,
           HttpIInv, OnlyAskedIsDeleted
  <2> QED BY <2>1, <2>2 DEF AddDocumentError, LateAddError
<1>5. ASSUME NEW k \in KBs, NEW b \in Builds PROVE ErrorExcused(EnableError(k, b), {k, b})
  <2>1. ASSUME NEW j \in KBs, promise[j] = b PROVE status[b] = "ready"
    <3>1. ServingOf(j) = b /\ b # NoBuild
      BY <2>1, NoBuildAssumption DEF HttpIInv, PromisesUncontested
    <3>2. kbrow[j] = "live" /\ active[j] = b
      BY <3>1 DEF ServingOf, KBExists
    <3> QED BY <3>1, <3>2 DEF IInv, ActiveSettled, Settled, BuildsFollowKBs
  <2> QED BY <1>5, <2>1 DEF EnableError
<1>6. ASSUME NEW r \in Requests
      PROVE  ErrorExcused(LateError(r), {req[r].kb})
  <2>1. req[r].pc # "idle" => req[r].kb \in KBs /\ kbrow[req[r].kb] # "unborn"
    BY DEF IInv, CopiesSettled, HttpIInv, RequestsKnowKBs, ReqAt
  <2>2. req[r].pc # "idle" /\ ~KBExists(req[r].kb) => req[r].kb \in asked
    BY <2>1 DEF KBExists, IInv, TypeOK, RowsTypeOK, HttpIInv, OnlyAskedIsDeleted
  <2>3. ReqAt(r, "searchBuild") /\ ~BuildExists(req[r].build) => req[r].kb \in asked
    BY <2>2 DEF ReqAt, IInv, CopiesSettled, Settled, BuildExists, Statuses, BuildsFollowKBs, KBExists
  <2> QED
    BY <1>6, <2>1, <2>2, <2>3 DEF LateError, MayBeGone, ReqAt, Changes
<1>7. ASSUME NEW c \in Calls PROVE ErrorExcused(LateDocumentError(c), {call[c].doc})
  <2>1. At(c, "deleteRow") => call[c].doc \in asked
    BY DEF HttpIInv, OnlyAskedIsDeleted, At
  <2> QED BY <1>7, <2>1 DEF LateDocumentError, MayBeGone
<1> QED BY <1>1, <1>2, <1>3, <1>4, <1>5, <1>6, <1>7

LEMMA RefusalsExcused ==
  ASSUME IInv, DocIInv, HttpIInv, AcknowledgedIsKept, NEW a \in Refusals
  PROVE  Excused(a)
<1> USE AnswersExcused, ErrorsExcused
<1>1. ASSUME NEW k \in KBs, \/ a \in Refused(GetKBError(k), {k})
                            \/ a \in Refused(BuildError(k), {k})
                            \/ a \in Refused(SearchError(k), {k})
                            \/ a \in Refused(FeedbackError(k), {k})
      PROVE  Excused(a)
  BY <1>1
<1>2. ASSUME NEW d \in Docs, \/ a \in Refused(GetDocumentError(d), {d})
                             \/ a \in Refused(SourceError(d), {d})
      PROVE  Excused(a)
  BY <1>2
<1>3. ASSUME NEW k \in KBs, NEW d \in Docs, \/ a \in Refused(AddDocumentError(k, d), {k, d})
                                           \/ a \in Refused(LateAddError(k, d), {k, d})
      PROVE  Excused(a)
  BY <1>3
<1>4. ASSUME NEW k \in KBs, NEW b \in Builds, a \in Refused(EnableError(k, b), {k, b})
      PROVE  Excused(a)
  BY <1>4
<1>5. ASSUME NEW r \in Requests, a \in Refused(LateError(r), {req[r].kb})
      PROVE  Excused(a)
  BY <1>5
<1>6. ASSUME NEW c \in Calls, a \in Refused(LateDocumentError(c), {call[c].doc})
      PROVE  Excused(a)
  BY <1>6
<1>call. ASSUME a \in Refused("call", {}) PROVE Excused(a)
  <2>1. ErrorExcused("call", {})
    BY DEF ErrorExcused
  <2> QED BY <1>call, <2>1
<1> HIDE AnswersExcused, ErrorsExcused
<1> HIDE DEF Refused
<1>7. CASE a \in LookUpRefusals
  BY <1>1, <1>2, <1>7 DEF LookUpRefusals
<1>8. ASSUME NEW k \in KBs, a \in PairRefusals(k) PROVE Excused(a)
  BY <1>3, <1>4, <1>8 DEF PairRefusals
<1>9. CASE a \in LateRefusals
  BY <1>5, <1>6, <1>9 DEF LateRefusals
<1>10. CASE a \in CallRefusals
  BY <1>call, <1>10 DEF CallRefusals
<1> QED BY <1>7, <1>8, <1>9, <1>10 DEF Refusals

(* No request, feedback included, is answered 404, or 500 without a call   *)
(* that failed, if all it names was acknowledged and nobody asked to       *)
(* delete it; an insert is overtaken only by a delete; and no 409 refuses  *)
(* a search or a switch to a build that is promised to serve.              *)
THEOREM RefusalsAreTruthful == HttpSpec => []RefusedForAReason
<1>1. IInv /\ DocIInv /\ HttpIInv /\ AcknowledgedIsKept => RefusedForAReason
  BY RefusalsExcused DEF RefusedForAReason, Excused
<1> QED BY <1>1, HttpInvariance, CreatedIsDurable, Beneath, PTL
=============================================================================
