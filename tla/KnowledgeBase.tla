--------------------------- MODULE KnowledgeBase ---------------------------
(***************************************************************************)
(* The core of superkb: knowledge bases, their builds and their banks.     *)
(* HTTP requests run KnowledgeBaseUseCase over the knowledge_bases,        *)
(* kb_documents and kb_builds tables, the bounded ChannelBuildQueue hands  *)
(* pending builds to BuildWorker goroutines, and these run ProcessBuild    *)
(* over the tables, the object store and the indexer's banks.              *)
(*                                                                         *)
(* Nothing spans two calls: no transaction, no lock, no compare-and-set.   *)
(* An action is one call to Postgres, the queue, the object store or the   *)
(* indexer, with the code around it; requests, workers and the document    *)
(* handlers of DocumentStore interleave between actions.                   *)
(***************************************************************************)
EXTENDS DocumentStore, Sequences, Naturals, FiniteSets

CONSTANTS
  KBs,        \* knowledge base ids that uuid.New may return
  Builds,     \* build ids; newBank names the bank of a build after it
  Workers,    \* the goroutines of BuildWorker (WORKER_CONCURRENCY)
  Requests,   \* knowledge base requests that may be in flight at once
  QueueSize,  \* the buffer of ChannelBuildQueue
  NoKB, NoBuild

ASSUME NoKBAssumption == NoKB \notin KBs
ASSUME NoBuildAssumption == NoBuild \notin Builds
ASSUME DocsAssumption == IsFiniteSet(Docs)
ASSUME QueueSizeAssumption == QueueSize \in Nat \ {0}

VARIABLES
  kbrow,    \* knowledge_bases row: "unborn", "live" or (deleted) "gone"
  enabled,  \* its column enabled
  active,   \* its column active_build_id; no foreign key
  members,  \* kb_documents: the documents of each knowledge base
  status,   \* kb_builds.status, or "unborn" / "gone" when there is no row
  owner,    \* kb_builds.knowledge_base_id
  count,    \* kb_builds.document_count
  banks,    \* the banks that exist in the indexer
  content,  \* the documents retained in each bank
  queue,    \* the buffered channel of build ids
  req,      \* one record per request
  wk        \* one record per worker

rowVars == <<kbrow, enabled, active, members, status, owner, count>>
bankVars == <<banks, content>>
kbVars == <<rowVars, bankVars, queue, req, wk>>
vars == <<docVars, kbVars>>

Statuses == {"pending", "processing", "ready", "failed"}

(* A request: where it is, its knowledge base, the build (or the copy of   *)
(* active_build_id) it holds, the banks a Delete still has to drop and the *)
(* document count a Build has read.                                        *)
IdleReq == [pc |-> "idle", kb |-> NoKB, build |-> NoBuild, todo |-> {}, n |-> 0]

(* A worker: where it is, its build, the documents it listed, those read.  *)
IdleWorker == [pc |-> "idle", build |-> NoBuild, docs |-> {}, got |-> {}]

ReqPCs == {"idle", "createBuild", "enqueue", "enable", "disable",
           "deleteBanks", "searchBuild", "recall"}
WorkerPCs == {"idle", "load", "list", "mark", "createBank", "read",
              "retain", "finalize", "fail"}

RowsTypeOK ==
  /\ kbrow \in [KBs -> {"unborn", "live", "gone"}]
  /\ enabled \in [KBs -> BOOLEAN]
  /\ active \in [KBs -> Builds \cup {NoBuild}]
  /\ members \in [KBs -> SUBSET Docs]
  /\ status \in [Builds -> Statuses \cup {"unborn", "gone"}]
  /\ owner \in [Builds -> KBs \cup {NoKB}]
  /\ count \in [Builds -> Nat]

BanksTypeOK == banks \in SUBSET Builds /\ content \in [Builds -> SUBSET Docs]

QueueTypeOK == queue \in Seq(Builds)

ReqTypeOK ==
  req \in [Requests ->
    [pc : ReqPCs, kb : KBs \cup {NoKB}, build : Builds \cup {NoBuild},
     todo : SUBSET Builds, n : Nat]]

WkTypeOK ==
  wk \in [Workers ->
    [pc : WorkerPCs, build : Builds \cup {NoBuild},
     docs : SUBSET Docs, got : SUBSET Docs]]

TypeOK ==
  DocTypeOK /\ RowsTypeOK /\ BanksTypeOK /\ QueueTypeOK /\ ReqTypeOK /\ WkTypeOK

Init ==
  /\ DocInit
  /\ kbrow = [k \in KBs |-> "unborn"]
  /\ enabled = [k \in KBs |-> FALSE]
  /\ active = [k \in KBs |-> NoBuild]
  /\ members = [k \in KBs |-> {}]
  /\ status = [b \in Builds |-> "unborn"]
  /\ owner = [b \in Builds |-> NoKB]
  /\ count = [b \in Builds |-> 0]
  /\ banks = {}
  /\ content = [b \in Builds |-> {}]
  /\ queue = <<>>
  /\ req = [r \in Requests |-> IdleReq]
  /\ wk = [w \in Workers |-> IdleWorker]

-----------------------------------------------------------------------------
(* The repository, one operator per query. *)

KBExists(k) == kbrow[k] = "live"
BuildExists(b) == status[b] \in Statuses
ListDocuments(k) == members[k]
ListBuilds(k) == {b \in Builds : owner[b] = k /\ BuildExists(b)}
IsSearchable(k) == enabled[k] /\ active[k] # NoBuild

(* A mutant: only the flag is written. *)
UpdateKBFlagOnly(k, e, a) ==
  /\ enabled' = [enabled EXCEPT ![k] = IF KBExists(k) THEN e ELSE @]
  /\ UNCHANGED <<kbrow, active, members, status, owner, count>>

(* The whole row is written, from the copy its reader has changed. *)
UpdateKB(k, e, a) ==
  /\ enabled' = [enabled EXCEPT ![k] = IF KBExists(k) THEN e ELSE @]
  /\ active' = [active EXCEPT ![k] = IF KBExists(k) THEN a ELSE @]
  /\ UNCHANGED <<kbrow, members, status, owner, count>>

(* A mutant: kb_builds without ON DELETE CASCADE. *)
DeleteKBKeepBuilds(k) ==
  /\ kbrow' = [kbrow EXCEPT ![k] = IF @ = "live" THEN "gone" ELSE @]
  /\ members' = [members EXCEPT ![k] = {}]
  /\ UNCHANGED <<enabled, active, status, owner, count>>

(* Delete cascades to the memberships and the builds of the row. *)
DeleteKB(k) ==
  /\ kbrow' = [kbrow EXCEPT ![k] = IF @ = "live" THEN "gone" ELSE @]
  /\ members' = [members EXCEPT ![k] = {}]
  /\ status' = [b \in Builds |-> IF b \in ListBuilds(k) THEN "gone" ELSE status[b]]
  /\ UNCHANGED <<enabled, active, owner, count>>

(* The foreign key refuses a build of a knowledge base that is gone. *)
CreateBuild(b, k, n) ==
  /\ status' = [status EXCEPT ![b] = "pending"]
  /\ owner' = [owner EXCEPT ![b] = k]
  /\ count' = [count EXCEPT ![b] = n]
  /\ UNCHANGED <<kbrow, enabled, active, members>>

(* A mutant: an upsert, which brings a deleted row back. *)
UpsertBuild(b, s) ==
  /\ status' = [status EXCEPT ![b] = s]
  /\ UNCHANGED <<kbrow, enabled, active, members, owner, count>>

(* RowsAffected = 0 is ErrNotFound and no change. *)
UpdateBuild(b, s) ==
  /\ status' = [status EXCEPT ![b] = IF BuildExists(b) THEN s ELSE @]
  /\ UNCHANGED <<kbrow, enabled, active, members, owner, count>>

(* The indexer's PUT on a bank creates it or leaves it alone. *)
CreateBank(b) == banks' = banks \cup {b} /\ UNCHANGED content
DeleteBank(b) ==
  banks' = banks \ {b} /\ content' = [content EXCEPT ![b] = {}]

(* Retain upserts documents into the bank, which it brings into being if   *)
(* it is not there; of no documents it is not even a call.                 *)
RetainInto(b, docs) ==
  /\ banks' = IF docs = {} THEN banks ELSE banks \cup {b}
  /\ content' = [content EXCEPT ![b] = @ \cup docs]

-----------------------------------------------------------------------------
(* Requests. *)

ReqAt(r, pc) == req[r].pc = pc
ReqReturn(r) == req' = [req EXCEPT ![r] = IdleReq]

(* Requests of one call, or whose earlier reads a foreign key repeats. *)
Create(k) ==
  /\ kbrow[k] = "unborn"
  /\ kbrow' = [kbrow EXCEPT ![k] = "live"]
  /\ UNCHANGED <<docVars, enabled, active, members, status, owner, count,
                 bankVars, queue, req, wk>>

AddDocument(k, d) ==
  /\ KBExists(k)
  /\ DocumentGetByID(d)
  /\ members' = [members EXCEPT ![k] = @ \cup {d}]
  /\ UNCHANGED <<docVars, kbrow, enabled, active, status, owner, count,
                 bankVars, queue, req, wk>>

RemoveDocument(k, d) ==
  /\ members' = [members EXCEPT ![k] = @ \ {d}]
  /\ UNCHANGED <<docVars, kbrow, enabled, active, status, owner, count,
                 bankVars, queue, req, wk>>

(* Build: the knowledge base is there and has documents; count them. *)
BuildStart(r, k) ==
  /\ ReqAt(r, "idle")
  /\ KBExists(k)
  /\ ListDocuments(k) # {}
  /\ req' = [req EXCEPT ![r] = [IdleReq EXCEPT
       !.pc = "createBuild", !.kb = k, !.n = Cardinality(ListDocuments(k))]]
  /\ UNCHANGED <<docVars, rowVars, bankVars, queue, wk>>

BuildCreate(r, b) ==
  /\ ReqAt(r, "createBuild")
  /\ IF KBExists(req[r].kb)
     THEN /\ status[b] = "unborn"
          /\ CreateBuild(b, req[r].kb, req[r].n)
          /\ req' = [req EXCEPT ![r].pc = "enqueue", ![r].build = b]
     ELSE ReqReturn(r) /\ UNCHANGED rowVars
  /\ UNCHANGED <<docVars, bankVars, queue, wk>>

(* A mutant: a full buffer drops the build instead of blocking. *)
BuildEnqueueOrDrop(r) ==
  /\ ReqAt(r, "enqueue")
  /\ queue' = IF Len(queue) < QueueSize THEN Append(queue, req[r].build) ELSE queue
  /\ ReqReturn(r)
  /\ UNCHANGED <<docVars, rowVars, bankVars, wk>>

(* Enqueue blocks while the buffer is full. *)
BuildEnqueue(r) ==
  /\ ReqAt(r, "enqueue")
  /\ Len(queue) < QueueSize
  /\ queue' = Append(queue, req[r].build)
  /\ ReqReturn(r)
  /\ UNCHANGED <<docVars, rowVars, bankVars, wk>>

(* The only error of Enqueue is a context that is done.  The handler then  *)
(* writes "failed" with that same context, and Postgres refuses the call.  *)
BuildEnqueueFails(r) ==
  /\ "cancel" \in Faults
  /\ ReqAt(r, "enqueue")
  /\ ReqReturn(r)
  /\ UNCHANGED <<docVars, rowVars, bankVars, queue, wk>>

(* A mutant: any build may be enabled whatever its status. *)
EnableAnyStatus(r, k, b) ==
  /\ ReqAt(r, "idle")
  /\ KBExists(k) /\ BuildExists(b)
  /\ owner[b] = k
  /\ req' = [req EXCEPT ![r] = [IdleReq EXCEPT !.pc = "enable", !.kb = k, !.build = b]]
  /\ UNCHANGED <<docVars, rowVars, bankVars, queue, wk>>

(* A mutant: a ready build of any knowledge base may be enabled. *)
EnableForeignBuild(r, k, b) ==
  /\ ReqAt(r, "idle")
  /\ KBExists(k) /\ BuildExists(b)
  /\ status[b] = "ready"
  /\ req' = [req EXCEPT ![r] = [IdleReq EXCEPT !.pc = "enable", !.kb = k, !.build = b]]
  /\ UNCHANGED <<docVars, rowVars, bankVars, queue, wk>>

(* Enable: read the row and the build, check, then write the row.  A build *)
(* of k that still exists implies that k does, so the two reads are one.   *)
EnableRead(r, k, b) ==
  /\ ReqAt(r, "idle")
  /\ KBExists(k) /\ BuildExists(b)
  /\ owner[b] = k
  /\ status[b] = "ready"
  /\ req' = [req EXCEPT ![r] = [IdleReq EXCEPT !.pc = "enable", !.kb = k, !.build = b]]
  /\ UNCHANGED <<docVars, rowVars, bankVars, queue, wk>>

EnableWrite(r) ==
  /\ ReqAt(r, "enable")
  /\ UpdateKB(req[r].kb, TRUE, req[r].build)
  /\ ReqReturn(r)
  /\ UNCHANGED <<docVars, bankVars, queue, wk>>

(* Disable: the copy it read carries active_build_id back into the row. *)
DisableRead(r, k) ==
  /\ ReqAt(r, "idle")
  /\ KBExists(k)
  /\ req' = [req EXCEPT ![r] = [IdleReq EXCEPT
       !.pc = "disable", !.kb = k, !.build = active[k]]]
  /\ UNCHANGED <<docVars, rowVars, bankVars, queue, wk>>

DisableWrite(r) ==
  /\ ReqAt(r, "disable")
  /\ UpdateKB(req[r].kb, FALSE, req[r].build)
  /\ ReqReturn(r)
  /\ UNCHANGED <<docVars, bankVars, queue, wk>>

(* Delete: list the builds, drop their banks one by one, delete the row.   *)
DeleteList(r, k) ==
  /\ ReqAt(r, "idle")
  /\ KBExists(k)
  /\ req' = [req EXCEPT ![r] = [IdleReq EXCEPT
       !.pc = "deleteBanks", !.kb = k, !.todo = ListBuilds(k)]]
  /\ UNCHANGED <<docVars, rowVars, bankVars, queue, wk>>

(* Errors of the indexer are ignored. *)
DeleteNextBank(r, b) ==
  /\ ReqAt(r, "deleteBanks")
  /\ b \in req[r].todo
  /\ \/ DeleteBank(b)
     \/ "rag" \in Faults /\ UNCHANGED bankVars
  /\ req' = [req EXCEPT ![r].todo = @ \ {b}]
  /\ UNCHANGED <<docVars, rowVars, queue, wk>>

DeleteRowOfKB(r) ==
  /\ ReqAt(r, "deleteBanks")
  /\ req[r].todo = {}
  /\ DeleteKB(req[r].kb)
  /\ ReqReturn(r)
  /\ UNCHANGED <<docVars, bankVars, queue, wk>>

(* Search, and activeBankID of the memory endpoints: the row, then its     *)
(* active build, then a call to that build's bank.                         *)
SearchRead(r, k) ==
  /\ ReqAt(r, "idle")
  /\ KBExists(k) /\ IsSearchable(k)
  /\ req' = [req EXCEPT ![r] = [IdleReq EXCEPT
       !.pc = "searchBuild", !.kb = k, !.build = active[k]]]
  /\ UNCHANGED <<docVars, rowVars, bankVars, queue, wk>>

SearchGetBuild(r) ==
  /\ ReqAt(r, "searchBuild")
  /\ IF BuildExists(req[r].build)
     THEN req' = [req EXCEPT ![r].pc = "recall"]
     ELSE ReqReturn(r)
  /\ UNCHANGED <<docVars, rowVars, bankVars, queue, wk>>

SearchRecall(r) ==
  /\ ReqAt(r, "recall")
  /\ ReqReturn(r)
  /\ UNCHANGED <<docVars, rowVars, bankVars, queue, wk>>

(* The memory endpoints write to the bank instead, which brings it into    *)
(* being if a Delete has dropped it; of documents they retain none.        *)
RetainExperience(r) ==
  /\ ReqAt(r, "recall")
  /\ CreateBank(req[r].build)
  /\ ReqReturn(r)
  /\ UNCHANGED <<docVars, rowVars, queue, wk>>

(* The client goes away or the 60 s of the router are over.  From then on  *)
(* every call of the request fails, those that Delete ignores as well, so  *)
(* it changes nothing more: it may as well return at once.                 *)
Cancel(r) ==
  /\ "cancel" \in Faults
  /\ req[r].pc \notin {"idle", "enqueue"}
  /\ ReqReturn(r)
  /\ UNCHANGED <<docVars, rowVars, bankVars, queue, wk>>

(* A database call of a request fails, and the request with it. *)
ReqFails(r) ==
  /\ "db" \in Faults
  /\ \/ req[r].pc \in {"createBuild", "enable", "disable", "searchBuild"}
     \/ ReqAt(r, "deleteBanks") /\ req[r].todo = {}
  /\ ReqReturn(r)
  /\ UNCHANGED <<docVars, rowVars, bankVars, queue, wk>>

-----------------------------------------------------------------------------
(* Workers: BuildWorker.loop around ProcessBuild and runBuild.  They run   *)
(* detached from any request, so no context of theirs is ever done.        *)

WkAt(w, pc) == wk[w].pc = pc
WkGoto(w, pc) == wk' = [wk EXCEPT ![w].pc = pc]
WkReturn(w) == wk' = [wk EXCEPT ![w] = IdleWorker]

(* A mutant: the id stays at the head of the queue while it is processed. *)
ReceivePeek(w) ==
  /\ WkAt(w, "idle")
  /\ queue # <<>>
  /\ wk' = [wk EXCEPT ![w].pc = "load", ![w].build = Head(queue)]
  /\ UNCHANGED <<docVars, rowVars, bankVars, queue, req>>

Receive(w) ==
  /\ WkAt(w, "idle")
  /\ queue # <<>>
  /\ wk' = [wk EXCEPT ![w].pc = "load", ![w].build = Head(queue)]
  /\ queue' = Tail(queue)
  /\ UNCHANGED <<docVars, rowVars, bankVars, req>>

(* Only a pending build is processed; anything else is left as it is. *)
Load(w) ==
  /\ WkAt(w, "load")
  /\ IF status[wk[w].build] = "pending" THEN WkGoto(w, "list") ELSE WkReturn(w)
  /\ UNCHANGED <<docVars, rowVars, bankVars, queue, req>>

(* The documents of the knowledge base as they are now. *)
List(w) ==
  /\ WkAt(w, "list")
  /\ LET docs == ListDocuments(owner[wk[w].build])
     IN wk' = [wk EXCEPT ![w].pc = "mark", ![w].docs = docs]
  /\ UNCHANGED <<docVars, rowVars, bankVars, queue, req>>

MarkProcessing(w) ==
  /\ WkAt(w, "mark")
  /\ UpdateBuild(wk[w].build, "processing")
  /\ WkGoto(w, IF BuildExists(wk[w].build) THEN "createBank" ELSE "fail")
  /\ UNCHANGED <<docVars, bankVars, queue, req>>

(* A mutant: the bank is left to the upload, which may have nothing to do. *)
LeaveBankToUpload(w) ==
  /\ WkAt(w, "createBank")
  /\ WkGoto(w, "read")
  /\ UNCHANGED <<docVars, rowVars, bankVars, queue, req>>

ProvisionBank(w) ==
  /\ WkAt(w, "createBank")
  /\ CreateBank(wk[w].build)
  /\ WkGoto(w, "read")
  /\ UNCHANGED <<docVars, rowVars, queue, req>>

(* One document: its content and, when an OCR converter is wired, its text.*)
ReadDocument(w, d) ==
  /\ WkAt(w, "read")
  /\ d \in wk[w].docs \ wk[w].got
  /\ IF StorageGet(d) THEN wk' = [wk EXCEPT ![w].got = @ \cup {d}] ELSE WkGoto(w, "fail")
  /\ UNCHANGED <<docVars, rowVars, bankVars, queue, req>>

(* A mutant: documents whose content is missing are left out of the build. *)
ReadSome(w) ==
  /\ WkAt(w, "read")
  /\ \A d \in wk[w].docs \ wk[w].got : ~StorageGet(d)
  /\ WkGoto(w, "retain")
  /\ UNCHANGED <<docVars, rowVars, bankVars, queue, req>>

ReadAll(w) ==
  /\ WkAt(w, "read")
  /\ wk[w].got = wk[w].docs
  /\ WkGoto(w, "retain")
  /\ UNCHANGED <<docVars, rowVars, bankVars, queue, req>>

Retain(w) ==
  /\ WkAt(w, "retain")
  /\ RetainInto(wk[w].build, wk[w].got)
  /\ WkGoto(w, "finalize")
  /\ UNCHANGED <<docVars, rowVars, queue, req>>

Finalize(w) ==
  /\ WkAt(w, "finalize")
  /\ UpdateBuild(wk[w].build, "ready")
  /\ WkReturn(w)
  /\ UNCHANGED <<docVars, bankVars, queue, req>>

(* A mutant: the cause is returned, the build is not marked. *)
FailBuildUnmarked(w) ==
  /\ WkAt(w, "fail")
  /\ WkReturn(w)
  /\ UNCHANGED <<docVars, rowVars, bankVars, queue, req>>

FailBuild(w) ==
  /\ WkAt(w, "fail")
  /\ UpdateBuild(wk[w].build, "failed")
  /\ WkReturn(w)
  /\ UNCHANGED <<docVars, bankVars, queue, req>>

(* A call of ProcessBuild fails where the error leads to failBuild ... *)
WorkerCallFails(w) ==
  /\ \/ "db" \in Faults /\ wk[w].pc \in {"list", "mark"}
     \/ "rag" \in Faults /\ WkAt(w, "createBank")
     \/ "s3" \in Faults /\ WkAt(w, "read")
  /\ WkGoto(w, "fail")
  /\ UNCHANGED <<docVars, rowVars, bankVars, queue, req>>

(* ... where Retain gives up with some of the documents in the bank, or    *)
(* with the bank gone ...                                                  *)
RetainFails(w) ==
  /\ WkAt(w, "retain")
  /\ wk[w].got # {}
  /\ \/ "rag" \in Faults /\ \E some \in SUBSET wk[w].got : RetainInto(wk[w].build, some)
     \/ wk[w].build \notin banks /\ UNCHANGED bankVars
  /\ WkGoto(w, "fail")
  /\ UNCHANGED <<docVars, rowVars, queue, req>>

(* ... and where it only ends the processing: the row stays as it is. *)
WorkerGivesUp(w) ==
  /\ "db" \in Faults
  /\ wk[w].pc \in {"load", "finalize", "fail"}
  /\ WkReturn(w)
  /\ UNCHANGED <<docVars, rowVars, bankVars, queue, req>>

-----------------------------------------------------------------------------
(* The process dies: tables, objects and banks survive, the buffer of the  *)
(* queue, the requests and the workers do not.                             *)
Crash ==
  /\ DocCrash
  /\ queue' = <<>>
  /\ req' = [r \in Requests |-> IdleReq]
  /\ wk' = [w \in Workers |-> IdleWorker]
  /\ UNCHANGED <<rowVars, bankVars>>

(* The document handlers, which touch the tables here in one place only:   *)
(* deleting a documents row cascades to kb_documents.                      *)
DeleteRowCascades(c) ==
  /\ DeleteRow(c)
  /\ members' = [k \in KBs |-> members[k] \ {call[c].doc}]
  /\ UNCHANGED <<kbrow, enabled, active, status, owner, count, bankVars, queue, req, wk>>

DocumentStep ==
  \/ /\ \/ \E c \in Calls, d \in Docs : UploadPut(c, d) \/ DeleteStart(c, d)
        \/ \E c \in Calls : UploadCreate(c) \/ DeleteObject(c) \/ Abandon(c)
     /\ UNCHANGED kbVars
  \/ \E c \in Calls : DeleteRowCascades(c)

RequestStep(r) ==
  \/ \E k \in KBs : \/ BuildStart(r, k) \/ DisableRead(r, k)
                    \/ DeleteList(r, k) \/ SearchRead(r, k)
                    \/ \E b \in Builds : EnableRead(r, k, b)
  \/ \E b \in Builds : BuildCreate(r, b) \/ DeleteNextBank(r, b)
  \/ BuildEnqueue(r) \/ BuildEnqueueFails(r)
  \/ EnableWrite(r) \/ DisableWrite(r) \/ DeleteRowOfKB(r)
  \/ SearchGetBuild(r) \/ SearchRecall(r) \/ RetainExperience(r)
  \/ Cancel(r) \/ ReqFails(r)

WorkerStep(w) ==
  \/ Receive(w) \/ Load(w) \/ List(w) \/ MarkProcessing(w) \/ ProvisionBank(w)
  \/ \E d \in Docs : ReadDocument(w, d)
  \/ ReadAll(w) \/ Retain(w) \/ Finalize(w) \/ FailBuild(w)
  \/ WorkerCallFails(w) \/ RetainFails(w) \/ WorkerGivesUp(w)

Next ==
  \/ DocumentStep
  \/ \E k \in KBs : Create(k)
  \/ \E k \in KBs, d \in Docs : AddDocument(k, d) \/ RemoveDocument(k, d)
  \/ \E r \in Requests : RequestStep(r)
  \/ \E w \in Workers : WorkerStep(w)
  \/ Crash

Spec == Init /\ [][Next]_vars

(***************************************************************************)
(* Goroutines run, and every call they make returns: a worker that can     *)
(* take a step takes one, and so does a request that is in Build or Delete.*)
(* Each of these steps changes wk or req.                                  *)
(***************************************************************************)
RequestFinishes(r) ==
  \/ \E b \in Builds : BuildCreate(r, b) \/ DeleteNextBank(r, b)
  \/ BuildEnqueue(r) \/ BuildEnqueueFails(r) \/ DeleteRowOfKB(r)

Fairness ==
  /\ \A w \in Workers : WF_wk(WorkerStep(w))
  /\ \A r \in Requests : WF_req(RequestFinishes(r))

FairSpec == Spec /\ Fairness

-----------------------------------------------------------------------------
(* Safety. *)

(***************************************************************************)
(* Whatever interleaves, a knowledge base points at nothing or at a ready  *)
(* build of its own.  Enable checks a build it read and Disable writes     *)
(* back an active_build_id it read, both with other requests, workers, a   *)
(* cancelled context or a crash in between, and no foreign key guards the  *)
(* column.                                                                 *)
(***************************************************************************)
ActiveBuildReady ==
  \A k \in KBs : (KBExists(k) /\ active[k] # NoBuild) =>
    owner[active[k]] = k /\ status[active[k]] = "ready"

(* A worker is at work on b beyond the check of its status. *)
Processes(w, b) == wk[w].build = b /\ wk[w].pc \notin {"idle", "load"}

(***************************************************************************)
(* "Safe to call only on pending builds": no two workers ever process the  *)
(* same build, although the status is checked in one call and set to       *)
(* processing in a later one.                                              *)
(***************************************************************************)
ExclusiveProcessing ==
  \A v, w \in Workers, b \in Builds :
    Processes(v, b) /\ Processes(w, b) => v = w

(***************************************************************************)
(* A search that passed its checks asks the bank of a build of the         *)
(* knowledge base that was searched, and of one that became ready; only a  *)
(* Delete of the knowledge base can have overtaken it.                     *)
(***************************************************************************)
SearchAsksOwnReadyBank ==
  \A r \in Requests : ReqAt(r, "recall") =>
    /\ owner[req[r].build] = req[r].kb
    /\ status[req[r].build] \in {"ready", "gone"}

(***************************************************************************)
(* A build moves along pending, processing, ready or failed and settles    *)
(* once: workers and handlers write the row from copies they read earlier, *)
(* yet no late write reopens a settled build or revives a deleted one.     *)
(***************************************************************************)
Lifecycle ==
  {<<"unborn", "pending">>, <<"pending", "processing">>,
   <<"pending", "failed">>, <<"processing", "ready">>,
   <<"processing", "failed">>} \cup {<<s, "gone">> : s \in Statuses}

StatusFollowsLifecycle ==
  [][\A b \in Builds :
       status'[b] # status[b] => <<status[b], status'[b]>> \in Lifecycle]_vars

(* Some request or worker still has the build in its hands. *)
Owned(b) ==
  \/ \E r \in Requests : ReqAt(r, "enqueue") /\ req[r].build = b
  \/ \E i \in 1..Len(queue) : queue[i] = b
  \/ \E w \in Workers : wk[w].build = b

(***************************************************************************)
(* A build that is not settled is in somebody's hands: a request about to  *)
(* enqueue it, the queue, or a worker.  Errors of the indexer, the object  *)
(* store or OCR settle it as failed (failBuild) and never drop it.         *)
(***************************************************************************)
UnsettledBuildIsOwned ==
  \A b \in Builds : status[b] \in {"pending", "processing"} => Owned(b)

BeingDeleted(k) == \E r \in Requests : ReqAt(r, "deleteBanks") /\ req[r].kb = k

(***************************************************************************)
(* Rollback is instant: a ready build can be served at any later time,     *)
(* because its bank stays there for as long as its knowledge base does and *)
(* no Delete has begun.                                                    *)
(***************************************************************************)
ReadyBankExists ==
  \A b \in Builds : status[b] = "ready" => b \in banks \/ BeingDeleted(owner[b])

(***************************************************************************)
(* All or nothing: when a worker publishes a build as ready, the bank      *)
(* holds every document the worker listed and nothing else, unless a       *)
(* Delete of the knowledge base is taking the bank away.  A document that  *)
(* went missing or could not be read or retained must fail the build.      *)
(***************************************************************************)
OnlyWholeBuildsPublished ==
  [][\A w \in Workers :
       (WkAt(w, "finalize") /\ status'[wk[w].build] # status[wk[w].build]
                            /\ status'[wk[w].build] = "ready") =>
         \/ content[wk[w].build] = wk[w].docs /\ wk[w].build \in banks
         \/ BeingDeleted(owner[wk[w].build])]_vars

(***************************************************************************)
(* "A bank is an immutable snapshot once built" (domain/ports.go), as far  *)
(* as its documents go: no worker that is late, fails or processes a build *)
(* again adds to the documents of a ready build, and only a Delete of its  *)
(* knowledge base takes them away, all at once.                            *)
(***************************************************************************)
SnapshotsFrozen ==
  [][\A b \in Builds : status[b] = "ready" =>
       \/ content'[b] = content[b]
       \/ content'[b] = {} /\ BeingDeleted(owner[b])]_vars

(***************************************************************************)
(* Every build settles: a build that was created is eventually ready or    *)
(* failed, or gone with its knowledge base.                                *)
(***************************************************************************)
EveryBuildSettles ==
  \A b \in Builds :
    status[b] \in {"pending", "processing"} ~> status[b] \in {"ready", "failed", "gone"}

-----------------------------------------------------------------------------
(***************************************************************************)
(* The inductive invariant behind ActiveBuildReady, ExclusiveProcessing    *)
(* and StatusFollowsLifecycle, part by part.                               *)
(***************************************************************************)

(* Foreign keys: a build lives and dies with its knowledge base. *)
BuildsFollowKBs ==
  \A b \in Builds :
    /\ BuildExists(b) => owner[b] \in KBs /\ kbrow[owner[b]] = "live"
    /\ status[b] = "gone" => owner[b] \in KBs /\ kbrow[owner[b]] = "gone"
    /\ status[b] = "unborn" => owner[b] = NoKB

(* A build that became ready stays what it is until it is deleted. *)
Settled(b, k) == b \in Builds /\ owner[b] = k /\ status[b] \in {"ready", "gone"}

ActiveSettled ==
  \A k \in KBs :
    /\ active[k] # NoBuild => Settled(active[k], k)
    /\ kbrow[k] = "unborn" => active[k] = NoBuild

(* The copies that requests carry from a read to a write or a call. *)
CopiesSettled ==
  \A r \in Requests :
    /\ req[r].pc \in {"enable", "searchBuild", "recall"} => Settled(req[r].build, req[r].kb)
    /\ req[r].pc = "disable" /\ req[r].build # NoBuild => Settled(req[r].build, req[r].kb)
    /\ req[r].pc # "idle" => req[r].kb \in KBs

(* How far the status of a build can be when a worker holds it. *)
WorkerStatus ==
  \A w \in Workers :
    /\ wk[w].pc # "idle" => wk[w].build \in Builds
    /\ wk[w].pc \in {"load", "list", "mark"} =>
         status[wk[w].build] \in {"pending", "gone"}
    /\ wk[w].pc \in {"createBank", "read", "retain", "finalize"} =>
         status[wk[w].build] \in {"processing", "gone"}
    /\ wk[w].pc = "fail" => status[wk[w].build] \in {"pending", "processing", "gone"}

WaitingStatus ==
  /\ \A i \in 1..Len(queue) : status[queue[i]] \in {"pending", "gone"}
  /\ \A r \in Requests : ReqAt(r, "enqueue") =>
       req[r].build \in Builds /\ status[req[r].build] \in {"pending", "gone"}

(* A build is in the hands of one request, one place of the queue or one   *)
(* worker: its id is sent once and received once.                          *)
OneHolder ==
  /\ \A v, w \in Workers :
       v # w /\ ~WkAt(v, "idle") /\ ~WkAt(w, "idle") => wk[v].build # wk[w].build
  /\ \A i, j \in 1..Len(queue) : i # j => queue[i] # queue[j]
  /\ \A i \in 1..Len(queue), w \in Workers :
       ~WkAt(w, "idle") => wk[w].build # queue[i]
  /\ \A r \in Requests : ReqAt(r, "enqueue") =>
       /\ \A s \in Requests : s # r /\ ReqAt(s, "enqueue") => req[s].build # req[r].build
       /\ \A i \in 1..Len(queue) : queue[i] # req[r].build
       /\ \A w \in Workers : ~WkAt(w, "idle") => wk[w].build # req[r].build

IInv ==
  /\ TypeOK /\ BuildsFollowKBs /\ ActiveSettled /\ CopiesSettled
  /\ WorkerStatus /\ WaitingStatus /\ OneHolder

-----------------------------------------------------------------------------
(***************************************************************************)
(* The inductive invariant behind UnsettledBuildIsOwned, ReadyBankExists   *)
(* and OnlyWholeBuildsPublished, beside IInv.  It takes calls to Postgres  *)
(* that return and a process that lives: CallsReturn.                      *)
(***************************************************************************)
CallsReturn == Faults \subseteq {"rag", "s3"}

IdleHoldNothing == \A w \in Workers : WkAt(w, "idle") => wk[w].build = NoBuild

(* A Delete drops the banks of its own knowledge base. *)
DropsOwnBanks ==
  \A r \in Requests : ReqAt(r, "deleteBanks") =>
    \A b \in req[r].todo : owner[b] = req[r].kb

(* The bank of a build is there, unless a Delete is about or has been. *)
BankIsThere(b) == b \in banks \/ BeingDeleted(owner[b]) \/ status[b] = "gone"

BanksKept ==
  /\ \A b \in Builds : status[b] = "ready" => BankIsThere(b)
  /\ \A w \in Workers :
       wk[w].pc \in {"read", "retain", "finalize"} => BankIsThere(wk[w].build)

(* No bank is filled before its turn. *)
NothingRetainedYet ==
  /\ \A b \in Builds : status[b] = "unborn" => content[b] = {}
  /\ \A r \in Requests : ReqAt(r, "enqueue") => content[req[r].build] = {}
  /\ \A i \in 1..Len(queue) : content[queue[i]] = {}
  /\ \A w \in Workers :
       wk[w].pc \notin {"idle", "finalize", "fail"} => content[wk[w].build] = {}

Whole(w) ==
  LET b == wk[w].build
  IN  content[b] = wk[w].docs \/ BeingDeleted(owner[b]) \/ status[b] = "gone"

RetainedWhole ==
  \A w \in Workers :
    /\ WkAt(w, "retain") => wk[w].got = wk[w].docs
    /\ WkAt(w, "finalize") => Whole(w)

FateIInv ==
  /\ IdleHoldNothing /\ UnsettledBuildIsOwned /\ DropsOwnBanks
  /\ BanksKept /\ NothingRetainedYet /\ RetainedWhole

-----------------------------------------------------------------------------
(* Refinement. *)

(* What a build is to a user, and which build answers searches. *)
SnapshotOf(b) ==
  CASE status[b] = "unborn" -> "none"
    [] status[b] \in {"pending", "processing"} -> "building"
    [] status[b] = "ready" -> "published"
    [] status[b] = "failed" -> "discarded"
    [] OTHER -> "dropped"

ServingOf(k) == IF KBExists(k) /\ IsSearchable(k) THEN active[k] ELSE NoBuild

OpenOf(k) ==
  CASE kbrow[k] = "unborn" -> "new"
    [] kbrow[k] = "live" -> "open"
    [] OTHER -> "closed"

Service == INSTANCE SnapshotService WITH
  open <- [k \in KBs |-> OpenOf(k)],
  snapshot <- [b \in Builds |-> SnapshotOf(b)],
  home <- owner,
  serving <- [k \in KBs |-> ServingOf(k)]

(***************************************************************************)
(* Queue, workers, stale copies, faults and crashes included, the tables   *)
(* behave like a service that builds, publishes and switches snapshots     *)
(* atomically.                                                             *)
(***************************************************************************)
ImplementsSnapshotService == Service!Spec

-----------------------------------------------------------------------------
(* What comments and the README say, and the code does not keep to.        *)

(***************************************************************************)
(* "Could not schedule: mark failed so the state is not stuck pending"     *)
(* (usecase/knowledge_base.go, Build): without crashes, a build that no    *)
(* request, queue or worker has in its hands is not pending.               *)
(***************************************************************************)
NotStuckPending == \A b \in Builds : status[b] = "pending" => Owned(b)

(***************************************************************************)
(* "Delete KB (+ its banks)" (README, HTTP API): when every request and    *)
(* worker has finished, a deleted knowledge base has left no bank behind.  *)
(***************************************************************************)
DeletedKBLeavesNoBank ==
  ((\A r \in Requests : ReqAt(r, "idle")) /\ (\A w \in Workers : WkAt(w, "idle"))) =>
    \A b \in Builds : status[b] = "gone" => b \notin banks

=============================================================================
