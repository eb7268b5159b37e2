------------------------ MODULE DocumentStoreProofs ------------------------
(***************************************************************************)
(* Proofs about DocumentStore, for any number of documents and requests    *)
(* and every fault.                                                        *)
(***************************************************************************)
EXTENDS DocumentStore, TLAPS

LEMMA DocInitIInv == DocInit => DocIInv
BY DEF DocInit, DocIInv, DocTypeOK, MetadataNeverLeaksContent, HandlersInStep, OneUploader,
       DisagreementIsHeld, Agree, Idle, At

(* What each handler keeps of the other one's stores. *)
Safe == DocTypeOK /\ MetadataNeverLeaksContent /\ HandlersInStep /\ OneUploader

LEMMA DocNextSafe == Safe /\ [DocNext]_docVars => Safe'
<1> SUFFICES ASSUME Safe, [DocNext]_docVars PROVE Safe'
  OBVIOUS
<1> USE NoDocAssumption DEF Safe, DocTypeOK, MetadataNeverLeaksContent, HandlersInStep,
        OneUploader, Idle, At, Goto, Return
<1>1. ASSUME NEW c \in Calls, NEW d \in Docs, UploadPut(c, d) PROVE Safe'
  BY <1>1 DEF UploadPut, StoragePut
<1>2. ASSUME NEW c \in Calls, NEW d \in Docs, DeleteStart(c, d) \/ SourceStart(c, d)
      PROVE  Safe'
  BY <1>2 DEF DeleteStart, SourceStart, DocumentGetByID
<1>3. ASSUME NEW c \in Calls, UploadCreate(c) PROVE Safe'
  BY <1>3 DEF UploadCreate, DocumentCreate
<1>4. ASSUME NEW c \in Calls, DeleteObject(c) PROVE Safe'
  BY <1>4 DEF DeleteObject, StorageDelete
<1>5. ASSUME NEW c \in Calls, DeleteRow(c) PROVE Safe'
  BY <1>5 DEF DeleteRow, DocumentDelete
<1>6. ASSUME NEW c \in Calls, SourceFetch(c) \/ Abandon(c) PROVE Safe'
  BY <1>6 DEF SourceFetch, Abandon, Half
<1>7. CASE DocCrash
  BY <1>7 DEF DocCrash, Half
<1>8. CASE UNCHANGED docVars
  BY <1>8 DEF docVars
<1> QED
  BY <1>1, <1>2, <1>3, <1>4, <1>5, <1>6, <1>7, <1>8 DEF DocNext, DocCallStep

(* A step that makes the stores disagree about a document is half of an    *)
(* upload or delete, which either goes on or is cut.                       *)
LEMMA DocNextHeld == DocIInv /\ [DocNext]_docVars => DisagreementIsHeld'
<1> SUFFICES ASSUME DocIInv, [DocNext]_docVars, NEW d \in Docs, d \notin cut'
             PROVE  \/ Agree(d)'
                    \/ \E c \in Calls : call'[c].pc \in Half /\ call'[c].doc = d
  BY DEF DisagreementIsHeld, Half
<1> USE NoDocAssumption DEF DocIInv, DocTypeOK, HandlersInStep, DisagreementIsHeld,
        MetadataNeverLeaksContent, OneUploader, Agree, Half, Idle, At, Goto, Return
<1>1. ASSUME NEW c \in Calls, NEW e \in Docs, UploadPut(c, e)
      PROVE  \/ Agree(d)'
             \/ \E b \in Calls : call'[b].pc \in Half /\ call'[b].doc = d
  BY <1>1 DEF UploadPut, StoragePut
<1>2. ASSUME NEW c \in Calls, NEW e \in Docs, DeleteStart(c, e) \/ SourceStart(c, e)
      PROVE  \/ Agree(d)'
             \/ \E b \in Calls : call'[b].pc \in Half /\ call'[b].doc = d
  BY <1>2 DEF DeleteStart, SourceStart, DocumentGetByID
<1>3. ASSUME NEW c \in Calls, UploadCreate(c)
      PROVE  \/ Agree(d)'
             \/ \E b \in Calls : call'[b].pc \in Half /\ call'[b].doc = d
  BY <1>3 DEF UploadCreate, DocumentCreate
<1>4. ASSUME NEW c \in Calls, DeleteObject(c)
      PROVE  \/ Agree(d)'
             \/ \E b \in Calls : call'[b].pc \in Half /\ call'[b].doc = d
  BY <1>4 DEF DeleteObject, StorageDelete
<1>5. ASSUME NEW c \in Calls, DeleteRow(c)
      PROVE  \/ Agree(d)'
             \/ \E b \in Calls : call'[b].pc \in Half /\ call'[b].doc = d
  BY <1>5 DEF DeleteRow, DocumentDelete
<1>6. ASSUME NEW c \in Calls, SourceFetch(c) \/ Abandon(c)
      PROVE  \/ Agree(d)'
             \/ \E b \in Calls : call'[b].pc \in Half /\ call'[b].doc = d
  BY <1>6 DEF SourceFetch, Abandon
<1>7. CASE DocCrash
  BY <1>7 DEF DocCrash
<1>8. CASE UNCHANGED docVars
  BY <1>8 DEF docVars
<1> QED
  BY <1>1, <1>2, <1>3, <1>4, <1>5, <1>6, <1>7, <1>8 DEF DocNext, DocCallStep

(* The invariant of the document handlers holds in every reachable state.  *)
THEOREM DocInvariance == DocSpec => []DocIInv
<1>1. DocIInv /\ [DocNext]_docVars => DocIInv'
  BY DocNextSafe, DocNextHeld DEF DocIInv, Safe
<1> QED BY DocInitIInv, <1>1, PTL DEF DocSpec

(* Metadata never appears before its content is stored, and no deleted     *)
(* document leaves its content behind, whatever call fails or is lost.     *)
THEOREM NoContentIsLeaked == DocSpec => []MetadataNeverLeaksContent
<1>1. DocIInv => MetadataNeverLeaksContent
  BY DEF DocIInv
<1> QED BY <1>1, DocInvariance, PTL

(* When all is quiet, only documents whose upload or delete was cut short  *)
(* are known to one store and not to the other.                            *)
THEOREM QuietStoresAgree == DocSpec => []StoresAgreeWhenIdle
<1>1. DocIInv => StoresAgreeWhenIdle
  BY DEF DocIInv, DisagreementIsHeld, StoresAgreeWhenIdle, Half, At
<1> QED BY <1>1, DocInvariance, PTL
=============================================================================
