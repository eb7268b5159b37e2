------------------------------- MODULE HttpApi -------------------------------
(***************************************************************************)
(* The HTTP API as its clients know it: what the handlers of               *)
(* internal/delivery/http answer around the use cases of KnowledgeBase and *)
(* DocumentStore, and what these answers still mean later, when other      *)
(* requests, workers, faults and crashes have had their turn.              *)
(*                                                                         *)
(* Every step is a step of KnowledgeBase.  Success is remembered by the    *)
(* history variables; no guard reads them.  A request that is refused      *)
(* changes nothing, so refusals are no steps but a function of the state:  *)
(* Refusals is the set of error answers that any request can get next, but *)
(* for the 400 of one that is malformed in itself.                         *)
(***************************************************************************)
EXTENDS KnowledgeBase

CONSTANT Unknown  \* no answer says what a knowledge base serves now

Ids == Docs \cup KBs \cup Builds

ASSUME UuidAssumption ==
  /\ Docs \cap KBs = {} /\ Docs \cap Builds = {} /\ KBs \cap Builds = {}
  /\ Unknown \notin Builds \cup {NoBuild}

VARIABLES
  acked,    \* what was answered with 201
  asked,    \* what a request has begun to delete
  promise   \* what the last word on each knowledge base said it serves

clientVars == <<acked, asked, promise>>
httpVars == <<vars, clientVars>>

HttpTypeOK ==
  /\ acked \in SUBSET Ids
  /\ asked \in SUBSET (Docs \cup KBs)
  /\ promise \in [KBs -> Builds \cup {NoBuild, Unknown}]

HttpInit ==
  /\ Init
  /\ acked = {}
  /\ asked = {}
  /\ promise = [k \in KBs |-> NoBuild]

-----------------------------------------------------------------------------
(* Handlers that succeed. *)

Acknowledge(x) == acked' = acked \cup {x} /\ UNCHANGED <<asked, promise>>

(* A request that may change what k serves makes earlier answers void ...  *)
Unsettle(k) == promise' = [promise EXCEPT ![k] = Unknown]

(* ... and its own answer counts if no other such request is under way.    *)
Changes(s, k) == req[s].kb = k /\ req[s].pc \in {"enable", "disable", "deleteBanks"}

Settle(r, k, b) ==
  promise' = [promise EXCEPT ![k] =
    IF \E s \in Requests \ {r} : Changes(s, k) THEN Unknown ELSE b]

(* A mutant: 201 goes out with the content stored and the row to come. *)
AcceptContent(c, d) ==
  UploadPut(c, d) /\ UNCHANGED kbVars /\ Acknowledge(d)

(* DocumentHandler.upload *)
ReceiveContent(c, d) ==
  UploadPut(c, d) /\ UNCHANGED kbVars /\ UNCHANGED clientVars

DocumentCreated(c) ==
  UploadCreate(c) /\ UNCHANGED kbVars /\ Acknowledge(call[c].doc)

(* DocumentHandler.delete *)
DeleteDocument(c, d) ==
  /\ DeleteStart(c, d) /\ UNCHANGED kbVars
  /\ asked' = asked \cup {d}
  /\ UNCHANGED <<acked, promise>>

(* KnowledgeBaseHandler.create *)
KBCreated(k) == Create(k) /\ Acknowledge(k)

(* KnowledgeBaseHandler.build: 201; a build that could not be enqueued is  *)
(* answered with 202 and the error, which promises nothing.                *)
BuildCreated(r) == BuildEnqueue(r) /\ Acknowledge(req[r].build)

(* KnowledgeBaseHandler.enable *)
Enable(r, k, b) ==
  EnableRead(r, k, b) /\ Unsettle(k) /\ UNCHANGED <<acked, asked>>

(* A 404 of the write leaves matters open. *)
Enabled(r) ==
  /\ EnableWrite(r)
  /\ IF KBExists(req[r].kb) THEN Settle(r, req[r].kb, req[r].build) ELSE UNCHANGED promise
  /\ UNCHANGED <<acked, asked>>

(* KnowledgeBaseHandler.disable *)
Disable(r, k) == DisableRead(r, k) /\ Unsettle(k) /\ UNCHANGED <<acked, asked>>

Disabled(r) ==
  /\ DisableWrite(r)
  /\ IF KBExists(req[r].kb) THEN Settle(r, req[r].kb, NoBuild) ELSE UNCHANGED promise
  /\ UNCHANGED <<acked, asked>>

(* KnowledgeBaseHandler.delete *)
DeleteKnowledgeBase(r, k) ==
  /\ DeleteList(r, k)
  /\ asked' = asked \cup {k}
  /\ Unsettle(k)
  /\ UNCHANGED acked

KBDeleted(r) ==
  /\ DeleteRowOfKB(r)
  /\ IF KBExists(req[r].kb) THEN Settle(r, req[r].kb, NoBuild) ELSE UNCHANGED promise
  /\ UNCHANGED <<acked, asked>>

(* What tells clients nothing that lasts. *)
SilentRequest(r) ==
  \/ \E k \in KBs : BuildStart(r, k) \/ SearchRead(r, k)
  \/ \E b \in Builds : BuildCreate(r, b) \/ DeleteNextBank(r, b)
  \/ BuildEnqueueFails(r)
  \/ SearchGetBuild(r) \/ SearchRecall(r) \/ RetainExperience(r)
  \/ Cancel(r) \/ ReqFails(r)

Silent ==
  /\ \/ \E c \in Calls : (DeleteObject(c) \/ Abandon(c)) /\ UNCHANGED kbVars
     \/ \E c \in Calls : DeleteRowCascades(c)
     \/ \E k \in KBs, d \in Docs : AddDocument(k, d) \/ RemoveDocument(k, d)
     \/ \E r \in Requests : SilentRequest(r)
     \/ \E w \in Workers : WorkerStep(w)
     \/ Crash
  /\ UNCHANGED clientVars

HttpNext ==
  \/ \E c \in Calls, d \in Docs : ReceiveContent(c, d) \/ DeleteDocument(c, d)
  \/ \E c \in Calls : DocumentCreated(c)
  \/ \E k \in KBs : KBCreated(k)
  \/ \E r \in Requests, k \in KBs :
       \/ Disable(r, k) \/ DeleteKnowledgeBase(r, k)
       \/ \E b \in Builds : Enable(r, k, b)
  \/ \E r \in Requests : BuildCreated(r) \/ Enabled(r) \/ Disabled(r) \/ KBDeleted(r)
  \/ Silent

HttpSpec == HttpInit /\ [][HttpNext]_httpVars

-----------------------------------------------------------------------------
(* Handlers that refuse: the error of a use case that would begin or go on *)
(* in this state, and the status code it is mapped to.                     *)

(* A mutant: the sentinels of 404 and 409 are mixed up. *)
MixedUpError(err) ==
  CASE err = "invalid" -> 400 [] err = "notFound" -> 409
    [] err = "conflict" -> 404 [] OTHER -> 500

(* writeDomainError *)
DomainError(err) ==
  CASE err = "invalid" -> 400 [] err = "notFound" -> 404
    [] err = "conflict" -> 409 [] OTHER -> 500

(* get, and delete, which finds no row to delete *)
GetKBError(k) == IF KBExists(k) THEN "none" ELSE "notFound"

GetDocumentError(d) == IF DocumentGetByID(d) THEN "none" ELSE "notFound"

SourceError(d) == IF DocumentGetByID(d) /\ StorageGet(d) THEN "none" ELSE "notFound"

AddDocumentError(k, d) ==
  IF KBExists(k) /\ DocumentGetByID(d) THEN "none" ELSE "notFound"

BuildError(k) ==
  IF ~KBExists(k) THEN "notFound"
  ELSE IF ListDocuments(k) = {} THEN "invalid" ELSE "none"

EnableError(k, b) ==
  IF ~KBExists(k) \/ ~BuildExists(b) THEN "notFound"
  ELSE IF owner[b] # k THEN "invalid"
  ELSE IF status[b] # "ready" THEN "conflict" ELSE "none"

(* search, and activeBankID: retaining and curating a memory need it at    *)
(* once, feedback when its vote makes a consensus.                         *)
SearchError(k) ==
  IF ~KBExists(k) THEN "notFound"
  ELSE IF ~IsSearchable(k) THEN "conflict" ELSE "none"

(* submitMemoryFeedback: the vote is inserted before anything is looked    *)
(* up, and without a knowledge base breaks the foreign key.                *)
FeedbackError(k) == IF KBExists(k) THEN "none" ELSE "unchecked"

(* A request that has passed its checks may be overtaken by a delete.  Its *)
(* insert then breaks a foreign key, its update or look-up finds no row.   *)
(* A build that cannot be enqueued is no error to the handler.             *)
LateError(r) ==
  IF ReqAt(r, "createBuild") /\ ~KBExists(req[r].kb) THEN "overtaken"
  ELSE IF \/ Changes(r, req[r].kb) /\ ~KBExists(req[r].kb)
          \/ ReqAt(r, "searchBuild") /\ ~BuildExists(req[r].build)
  THEN "notFound" ELSE "none"

(* AddDocument between its look-ups, which are one step above, and insert. *)
LateAddError(k, d) ==
  IF /\ kbrow[k] # "unborn" /\ row[d] # "unborn"
     /\ ~KBExists(k) \/ ~DocumentGetByID(d)
  THEN "overtaken" ELSE "none"

LateDocumentError(c) ==
  IF At(c, "deleteRow") /\ ~DocumentGetByID(call[c].doc) THEN "notFound" ELSE "none"

Refused(err, of) ==
  IF err = "none" THEN {} ELSE {[err |-> err, code |-> DomainError(err), of |-> of]}

LookUpRefusals ==
  (UNION {Refused(GetKBError(k), {k}) \cup Refused(BuildError(k), {k})
            \cup Refused(SearchError(k), {k}) \cup Refused(FeedbackError(k), {k}) : k \in KBs})
  \cup (UNION {Refused(GetDocumentError(d), {d}) \cup Refused(SourceError(d), {d}) : d \in Docs})

PairRefusals(k) ==
  (UNION {Refused(AddDocumentError(k, d), {k, d}) \cup Refused(LateAddError(k, d), {k, d})
            : d \in Docs})
  \cup (UNION {Refused(EnableError(k, b), {k, b}) : b \in Builds})

LateRefusals ==
  (UNION {Refused(LateError(r), {req[r].kb}) : r \in Requests})
  \cup (UNION {Refused(LateDocumentError(c), {call[c].doc}) : c \in Calls})

(* A call of any request may fail, or Hindsight refuse what it is asked.   *)
CallRefusals == Refused("call", {})

Refusals ==
  LookUpRefusals \cup (UNION {PairRefusals(k) : k \in KBs}) \cup LateRefusals \cup CallRefusals

-----------------------------------------------------------------------------
(* Properties. *)

(***************************************************************************)
(* A 201 is durable: a document, knowledge base or build that a client was *)
(* told of stays until a client asks to delete it (or its knowledge base), *)
(* a document with its content and a build, once ready, with its bank,     *)
(* through every failing call, cut request and crash.                      *)
(***************************************************************************)
AcknowledgedIsKept ==
  /\ \A d \in acked \cap Docs : d \notin asked => DocumentGetByID(d) /\ StorageGet(d)
  /\ \A k \in acked \cap KBs : k \notin asked => KBExists(k)
  /\ \A b \in acked \cap Builds : owner[b] \notin asked =>
       BuildExists(b) /\ (status[b] = "ready" => b \in banks)

(***************************************************************************)
(* Enable, Disable and Delete mean what they answered.  From the answer of *)
(* one that had no other beside it until the next one begins, searches go  *)
(* to the build that Enable named, or are refused after Disable or Delete: *)
(* no worker, failed request, stale copy or crash changes it.  They find   *)
(* that build's bank, unless a Delete was asked for, which may have been   *)
(* cut after it dropped the bank and before it deleted the row.            *)
(***************************************************************************)
LastWordHolds ==
  \A k \in KBs : promise[k] # Unknown =>
    /\ ServingOf(k) = promise[k]
    /\ promise[k] \in Builds /\ k \notin asked => promise[k] \in banks

(***************************************************************************)
(* All or nothing, with every fault: a build becomes ready by a worker     *)
(* that has its bank filled with all it listed and nothing else, or its    *)
(* knowledge base was to be deleted.  An upload that was cut by a crash,   *)
(* or a document that was lost on the way, never shows as a ready build;   *)
(* and what was ready stays as it was, until somebody asks for a Delete.   *)
(***************************************************************************)
ReadyBuildsStayWhole ==
  [][\A b \in Builds :
       /\ status[b] # "ready" /\ status'[b] = "ready" =>
            \E w \in Workers :
              /\ wk[w].build = b
              /\ (content[b] = wk[w].docs /\ b \in banks) \/ owner[b] \in asked
       /\ status[b] = "ready" =>
            content'[b] = content[b] \/ owner[b] \in asked]_httpVars

(* Nobody is to blame if x is not found: no answer named it, or a client   *)
(* asked to delete it.                                                     *)
MayBeGone(x) == x \notin acked \/ x \in asked \/ (x \in Builds /\ owner[x] \in asked)

(***************************************************************************)
(* Refusals have their reason.  404, or 500 with no failing call: a thing  *)
(* that the request names was never acknowledged, or its deletion asked.   *)
(* For an insert that found its rows and then broke a foreign key, only    *)
(* the latter will do.  409: not for a search of a knowledge base, nor for *)
(* a switch to a build, that is promised to serve.                         *)
(***************************************************************************)
RefusedForAReason ==
  \A a \in Refusals :
    /\ a.code \in {404, 500} /\ a.err # "call" => \E x \in a.of : MayBeGone(x)
    /\ a.err = "overtaken" => \E x \in a.of : x \in asked
    /\ a.code = 409 =>
         /\ \A b \in a.of \cap Builds, k \in KBs : promise[k] # b
         /\ a.of \cap Builds = {} => \A k \in a.of \cap KBs : promise[k] \notin Builds

-----------------------------------------------------------------------------
(***************************************************************************)
(* The inductive invariant behind them: only what was asked for is being   *)
(* deleted, what was acknowledged or is requested has been born, while an  *)
(* answer about a knowledge base counts, nothing is about to overrule it,  *)
(* and what a worker has put into a bank stays there while nobody asks.    *)
(***************************************************************************)
OnlyAskedIsDeleted ==
  /\ \A c \in Calls : call[c].pc \in {"deleteObject", "deleteRow"} => call[c].doc \in asked
  /\ \A d \in Docs : row[d] = "gone" \/ object[d] = "deleted" => d \in asked
  /\ \A r \in Requests : ReqAt(r, "deleteBanks") => req[r].kb \in asked
  /\ \A k \in KBs : kbrow[k] = "gone" => k \in asked

AcknowledgedIsBorn ==
  /\ \A d \in acked \cap Docs : row[d] # "unborn"
  /\ \A k \in acked \cap KBs : kbrow[k] # "unborn"
  /\ \A b \in acked \cap Builds : status[b] # "unborn"

RequestsKnowKBs ==
  \A r \in Requests : ~ReqAt(r, "idle") => kbrow[req[r].kb] # "unborn"

PromisesUncontested ==
  \A k \in KBs : promise[k] # Unknown =>
    ServingOf(k) = promise[k] /\ \A r \in Requests : ~Changes(r, k)

(* The bank is there, or the client who asked for a Delete is to blame.    *)
BankIsKept(b) == b \in banks \/ owner[b] \in asked

BanksOutlastFaults ==
  /\ DropsOwnBanks
  /\ \A b \in Builds : status[b] = "ready" => BankIsKept(b)
  /\ \A w \in Workers :
       wk[w].pc \in {"read", "retain", "finalize"} => BankIsKept(wk[w].build)

FilledOrAsked(w) == content[wk[w].build] = wk[w].docs \/ owner[wk[w].build] \in asked

BanksFilledWhole ==
  /\ NothingRetainedYet
  /\ \A w \in Workers :
       /\ WkAt(w, "retain") => wk[w].got = wk[w].docs
       /\ WkAt(w, "finalize") => FilledOrAsked(w)

HttpIInv ==
  /\ HttpTypeOK /\ OnlyAskedIsDeleted /\ AcknowledgedIsBorn
  /\ RequestsKnowKBs /\ PromisesUncontested
  /\ BanksOutlastFaults /\ BanksFilledWhole
=============================================================================
