# A TLA+ model of superkb

superkb keeps documents, groups them into knowledge bases, builds each
knowledge base into snapshots in a RAG indexer (Hindsight), and answers
searches from the snapshot that is enabled. This directory models the parts of
it that decide whether that works: TLA+ modules, TLC configurations that check
them on small instances, and TLAPS proofs for every instance. `PROJECT.json`
maps each definition to the lines it stands for and lists runs, mutants,
hazards, findings and theorems.

    tlc -workers 2 -config KB_Faults.cfg MCKnowledgeBase.tla     # a run
    tlapm KnowledgeBaseProofs.tla                                # a proof

## The system

| Part | State | Operations | Talks to |
|---|---|---|---|
| Document use case (`usecase/document.go`) | `documents` table, objects `documents/<id>` | Upload, Get, Source, List, Delete | Postgres, object store |
| Knowledge base use case (`usecase/knowledge_base.go`) | `knowledge_bases`, `kb_documents`, `kb_builds`; banks in Hindsight | Create, Get, List, Delete, AddDocument, RemoveDocument, Build, Enable, Disable, ListBuilds, Search | Postgres, queue, indexer |
| Build worker (`usecase/build_worker.go`, `ProcessBuild`) | a buffered channel of build ids, goroutines | Enqueue, Start, loop, Wait | queue, Postgres, object store, OCR, indexer |
| Indexer adapter (`infra/hindsight`) | none of its own; banks, memories and operations are Hindsight's | CreateBank, DeleteBank, Retain (upload, poll), Recall, RetainMemories, CurateMemory | Hindsight over HTTP |
| Memory feedback (`SubmitMemoryFeedback`, `memory_feedback_repository.go`) | `memory_feedback`, `memory_consensus_applied` | vote, apply consensus; curate, retain experience | Postgres, indexer |
| Search references (`addReferences`, `references.go`) | a cache that lives as long as one search | look up each document once, split it into pages, find the page of each chunk | Postgres, object store, extractor |
| OCR (`infra/ocr`) and page extraction (`infra/extract`) | none | Convert, ExtractPages, findPage | poppler tools, vision model |
| HTTP delivery (`delivery/http`) | none | authenticate (basic auth), decode, call a use case, answer or map its error, 60 s timeout | use cases |
| Configuration (`config`) | the environment | Load: parse with defaults, require credentials | main |
| Process (`cmd/api/main.go`) | listener, worker context | connect, migrate, start workers, serve; SIGTERM, drain, stop, wait, exit | all |

Requests run concurrently with each other and with the workers. **No transaction,
lock or compare-and-set spans two calls**: every handler is a sequence of single
queries and HTTP calls, and rows are written from copies read earlier. That is
where the difficulty is:

* *interleavings*: Enable against Disable against Delete against a worker that
  finishes; a document that is deleted while a build reads it;
* *stale copies*: full-row updates, statuses checked in one call and written in
  another, `active_build_id` without a foreign key;
* *partial failure*: an upload or a delete that stops between two stores, an error
  in the middle of a build, a context that ends while a handler works;
* *crashes*: tables, objects and banks survive, queue and goroutines do not;
* *answers that go stale*: what a client was told, against what other requests,
  workers and crashes do to it afterwards;
* *asynchrony of Hindsight*: operations that spawn others which are not listed yet;
* *limits*: a full queue blocks Build, the list of operations has 100 entries,
  OCR a cap on pages;
* *settings*: values that do not parse, are zero or are missing;
* *termination*: polling loops, a worker pool that drains, shutdown.

`PROJECT.json` lists these hazards at their lines, with the properties that
would catch each.

## Modules

| Module | What it is | Proofs |
|---|---|---|
| `DocumentStore` | documents table and object store, one action per store call of a handler | `DocumentStoreProofs` |
| `SearchReferences` | EXTENDS `DocumentStore`; the results of a search and the documents they refer to | `SearchReferencesProofs` |
| `KnowledgeBase` | EXTENDS `DocumentStore`; requests, queue, workers, tables, banks, crash | `KnowledgeBaseProofs` |
| `SnapshotService` | the abstract service that `KnowledgeBase` implements | the refinement, in `KnowledgeBaseProofs` |
| `HttpApi` | EXTENDS `KnowledgeBase`; what handlers answer, and what the answers promise | `HttpApiProofs` |
| `HindsightRetain` | `Indexer.Retain` against an asynchronous Hindsight | `HindsightRetainProofs` |
| `RetainCall` | the abstract call that `HindsightRetain` implements, as a build worker sees it | the refinement, in `HindsightRetainProofs` |
| `MemoryFeedback` | votes, consensus, writes to the active bank, and Delete beside them | `MemoryFeedbackProofs` |
| `DocumentPages` | from a document's pages over OCR and chunk to the cited page | `DocumentPagesProofs` |
| `ServerProcess` | environment and start-up; main, handlers, queue and workers around SIGTERM | `ServerProcessProofs` |
| `MC...` | the instances for TLC: symmetry sets | |

`KnowledgeBase`, `SearchReferences` and `HttpApi` are compositions: their documents are
`DocumentStore`'s, and that each keeps to the module it extends is a theorem
(`CoreKeepsDocumentStore`, `SearchesKeepDocumentStore`, `AnswersKeepKnowledgeBase`), so
what is proved below holds above. `KnowledgeBase` takes Retain for one step, `Retain` or `RetainFails`; `HindsightRetain` has
the upload and the loops behind it, and `OneCall` says that what follows a success may
rely on it as on one call.

### How state and actions correspond to the code

*DocumentStore.* `row` and `object` are the two stores; `call` has a program
counter per request. `UploadPut`/`UploadCreate` are the two calls of Upload,
`DeleteStart`/`DeleteObject`/`DeleteRow` the three of Delete, `SourceStart`/
`SourceFetch` those of Source. `Abandon` is each of their error returns. `cut` is a history
variable that no guard reads: the documents whose upload or delete ended between its
two writes.

*SearchReferences.* A record per search in flight: where it is, the results, how many are
done, the cache. `Recall` is the indexer's call with its limit, `LookUp`/`LookUpFails` is
`docs.GetByID`, `FetchPages`/`FetchFails` is extractPages, `UseCache` and `SkipHit` the two
ways round them, `Forget` ends the search and its cache. `looked` and `excused` are
history: how often a document was looked up, and whether a fault let a call of this search
down. Results name any documents that were ever uploaded, since a bank outlives them.

*KnowledgeBase.* `kbrow`, `enabled`, `active`, `members`, `status`, `owner` and
`count` are columns; `banks` and `content` are what Hindsight holds; `queue` is
the channel. Repository methods are operators (`UpdateKB` writes the row its
caller read; `DeleteKB` cascades; `UpdateBuild` touches a row only if it is
there). A request or a worker goes from one call to the next: `EnableRead`,
`EnableWrite`; `BuildStart`, `BuildCreate`, `BuildEnqueue` or `BuildEnqueueFails`;
`DeleteList`, `DeleteNextBank` for each bank, `DeleteRowOfKB`; `SearchRead`,
`SearchGetBuild`, `SearchRecall`; a worker `Receive`, `Load`, `List`,
`MarkProcessing`, `ProvisionBank`, `ReadDocument` for each document, `ReadAll`,
`Retain`, `Finalize`, and `FailBuild` from any error before it. A build's bank
is named after it, so banks are indexed by build. Handlers of one effective
call (Create, AddDocument, RemoveDocument) are one action. Deleting a document's row
takes it out of every knowledge base (`DeleteRowCascades`); `RetainExperience` writes to the
bank of the active build that a request read before, and Hindsight creates a bank that is
not there. Faults are a
constant: `"cancel"` (the request's context ends), `"db"`, `"s3"`, `"rag"`
(a call fails), `"crash"`. All calls of a request carry its context, so when that ends every
later one fails, those whose errors Delete ignores as well: the request changes nothing
more, and `Cancel` is its return. Only Enqueue may win against a context that is done.

*HttpApi.* Every step is a step of `KnowledgeBase`, with what the client is told beside
it: `acked`, the ids of a 201; `asked`, what a request has begun to delete; `promise`, the
build that the last Enable, Disable or Delete said is served, `Unknown` while such a
request is under way or after two overlapped. No guard reads them. A refused request
changes nothing, so refusals are no steps but a function of the state: `Refusals` is every
error that a request could get next but for the 400 of one that is malformed in itself: from
the checks of the use cases, from a delete that has overtaken it (`LateError`,
`LateAddError`), from the vote of a feedback request, which is inserted without a look-up
(`FeedbackError`), or from a call that fails (`CallRefusals`), mapped to a status code by
`DomainError` (writeDomainError).

*HindsightRetain.* `ops` are the operations of the bank. `PollOperation` is one
turn of waitForOperation, `PollBank` one of waitForBankIdle, `Wake` the end of
the sleep between two. The `ctx.Done()` branches are not modelled: the only
caller is a worker with a detached context.

*MemoryFeedback.* `Vote` is the upsert, `Count` the consensus query with the
condition of SubmitMemoryFeedback, `Resolve` activeBankID, `Curate` and
`MarkConsensusApplied` the last two calls; `PatchResolve`/`CurateMemory` and
`RetainResolve`/`RetainExperience` are the direct endpoints. Delete is `DropBank` for each
bank and `DeleteRow`, which cascades to both tables: from then on their foreign keys refuse
a vote or a record, and a write to a memory whose bank is gone fails. `agreed`, `curated`
and `missed` are history variables: no guard reads them.

*DocumentPages.* A text is made of words and of mark-up; case and white space, which
normalizeForMatch takes away, are left out, and its prefix of 80 bytes is `PrefixLen` of
them. A document is given by the Markdown of its pages (`doc.markdown`), which is what the
vision model is asked for and what is retained; `docPages`, the same words without the
mark-up, is what pdftotext reads and findPage looks at. That Markdown keeps the words and
their order is an assumption about the model, which is told to transcribe verbatim; where it
puts mark-up is open. `Splitting` is the text cut at form feeds, a function by recursion over the text's length.
Content type and file name are whatever the uploader says;
`ocr`, whether a converter is wired, is chosen at the start. pdftotext, pdftoppm,
the vision model, Hindsight's reading of raw files (as Markdown, too) and its chunking are
external.

*ServerProcess.* `environ` is the environment, any combination of set, missing, empty and
malformed values; `envBool` and `envInt` are config's parsing with defaults, `Concurrency` and
`QueueSize` the constructors' treatment of what is too small, `ConfigAccepted` the check of
Load, `Admits` the middleware. `main` is where `run` is, one action per call of it that may
fail, up to `exited` or, when it returns an error before it serves or the listener fails,
`crashed`; `drained` tells the exit status of the former. `build` is what has become of each
build. That a `select` with two ready cases takes either is why `Receive` has no
guard on the cancelled context.

## Runs

Properties are stated, with the code they are about, in the modules.

| Run | Instance | Shows |
|---|---|---|
| `Documents` | 2 documents (1 that can be split into pages), 3 requests, 1 search with up to 2 results, all faults | `MetadataNeverLeaksContent`, `StoresAgreeWhenIdle`: no metadata before content, no content after a delete, and when all is quiet the stores agree about every document that no cut request left half done. `SameDocumentSameReference`, `LookedUpOnce`, `MissingOnlyIfDeleted`: references do not contradict each other and are missing for a reason only |
| `KB_Faults` | 1 knowledge base, 2 builds, 2 workers, 2 requests, 1 document, queue of 1, all faults | `ActiveBuildReady`, `ExclusiveProcessing`, `StatusFollowsLifecycle`, and `SnapshotsFrozen`: the documents of a ready build do not change |
| `KB_TwoKBs` | 2 knowledge bases, 2 builds, 1 worker, 2 requests, no fault | `SearchAsksOwnReadyBank`; `KnowledgeBase` implements `SnapshotService` |
| `KB_Progress` | 2 builds, 1 worker, 2 requests (Build and Delete), queue of 1, indexer and storage errors, fairness | no build is dropped (`UnsettledBuildIsOwned`), ready builds keep their banks (`ReadyBankExists`), and every build settles |
| `Http` | 1 knowledge base, 2 builds, 1 worker, 2 requests, 1 document request, all faults | a 201 is durable, with the bank of a build that got ready; the last word on a knowledge base is what is served, and its bank is there; builds become ready whole or not at all and stay so (`ReadyBuildsStayWhole`); 404, 409 and 500 have their reasons (`RefusedForAReason`) |
| `Retain` | 2 files, 5 operations, failing calls, dropped bank, fairness | nil means that everything has landed; Retain returns; it implements `RetainCall` |
| `Feedback` | 3 reviewers, 2 requests, 2 texts (one empty), 1 bank, failing calls, Enable, Disable and Delete | only a consensus is applied; what is recorded was written; no consensus is missed without an error; nothing is recorded for a knowledge base that is gone |
| `Pages` | all documents of up to 3 pages of up to 2 tokens, of 2 words and 1 mark, all false types, OCR on and off, cap of 2 pages | citations do not mislead, passages of text PDFs resolve unless they begin with mark-up, conversions are whole or fail |
| `Process` | numbers 0 and 1 and one name: every setting of the credentials, and every one of the sizes; 3 builds, up to 2 workers, fairness | nobody gets in without credentials; no setting leaves a build waiting; exit leaves no build half done, with status 0 only if no handler was cut; a signal leads to exit |
| `KB_StuckPending`, `KB_OrphanBank` | 2 builds, 1 worker, 2 requests | counterexamples, see below |
| `Retain_NoDeadline` | 1 file, 2 operations, a Hindsight that need not get on | counterexample, see below |

Each run also checks the invariant its proofs use (`IInv`, `RefIInv`, `HttpIInv`) where there
is one, which includes the module's type invariant. Runs set `CHECK_DEADLOCK FALSE`
because ids are bounded: when all are used up and everything has returned, nothing is left
to do.

**Bounds.** Ids are never reused, so a bound on `Docs`, `KBs`, `Builds`,
`MaxOps` bounds how often a thing is created, not what may happen to it. The
conflicts in the code are between two parties over one row or bank (two requests;
a request and a worker; two workers): two requests and two workers cover each
pair, and a third party only repeats one of them. Two builds give a switch and
a rollback; a queue of one is full with one build waiting, and the second
blocks. `KB_Progress` leaves out Enable, Disable and searches (`FairBuilds`): they write and
read only what is served, which no build, worker or Delete looks at. `Process` combines
the settings of the credentials with default sizes, and all sizes with given
credentials (`OneAtATime`), since the code reads and checks them apart from each
other. Two knowledge bases are enough to mix builds up; they are checked without
faults because a failing call only ends a request early, which another
request's taking its place also covers. `Http` has one worker: what two of them do to one build
is the question of `KB_Faults`. One search with two
results for one document has every order of a look-up, a use of the cache and a deletion;
searches do not affect each other. Two pages before the last show a shift,
a prefix that is shorter than a page shows where it stands, and one mark before, after or
between words which passages it spoils. Three builds are more than a queue of one and
one worker hold; queues of 64, the default, do not fill, and those of one do. The proofs have none of these bounds.

**Fairness.** `KnowledgeBase.FairSpec` assumes that goroutines run and calls
return (every client has a timeout), for workers and for requests inside Build
or Delete; each of those steps changes `wk` or `req`, so the fairness is stated over these
(`WF_wk`, `WF_req`). It assumes nothing of when requests arrive. `HindsightRetain.FairSpec`
adds that Hindsight gets round to each operation, `ClientSpec` does not.
`ServerProcess.Fairness` is fairness of main and of each worker, and that a channel serves
its blocked senders in turn (strong fairness of `Enqueue`: a Go channel keeps them in a
queue); nothing else is assumed of handlers, which may be as slow as their clients. That
`srv.Shutdown` returns is the 10 s of its context.

## What the code does not keep to

Three runs end in a counterexample to a sentence of the code or the README;
`PROJECT.json` quotes each.

* `KB_StuckPending`: a Build whose context ends while the queue is full cannot
  mark its build failed, with that context: it stays pending.
* `KB_OrphanBank`: Delete and a worker race, and a bank survives that no row names.
* `Retain_NoDeadline`: nobody sets the deadline that bounds the polling loops.

Other differences are visible in the source, and have no run:

* Delete drops the banks first and the row last: if its context ends or the row's
  delete fails in between, the knowledge base stays, enabled, without its bank
  (`knowledge_base.go:113`). `ReadyBankExists` excepts knowledge bases that are being
  deleted, and is checked and proved without cancellation, crashes and database errors.
* "Build creates a pending build snapshot of the knowledge base's current
  documents" (`knowledge_base.go:141`): only their number is stored; the documents
  are listed when a worker gets to the build.
* "A bank is an immutable snapshot once built" (`ports.go:147`): this is so of its
  documents (`SnapshotsFrozen`); curation, retained experiences and an applied consensus
  change the memories of the active build's bank, on purpose.
* "The API never blocks" (`README.md:53`): Build waits in `Enqueue` while the queue is
  full, until its context ends (`build_worker.go:37`).
* A build that could not be enqueued is answered with 202 and status "failed"
  (`knowledge_base_handler.go:200`); in the case of `KB_StuckPending` its row says pending.
* memory_consensus_applied names no bank (`memory_feedback_repository.go:38`): after
  another build is enabled, a correction counts as applied that the new bank lacks. Of two
  consensuses on one memory the older may be written last (`knowledge_base.go:459`).
  Nothing in the repository says what should happen.
* A multipart upload of more than 100 MB is cut at the limit and stored
  (`document_handler.go:126`).
* Load refuses an empty HINDSIGHT_BASE_URL, but an empty variable counts as not set and
  gets the default, so the check never fires.
* A drain that takes more than 10 s ends in "startup failed" and exit status 1
  (`main.go:116`).
* "Stop accepting new builds" (`main.go:117`): a worker whose context is cancelled
  may still take a build from the queue, since its select takes any ready case
  (`ServerProcess.Receive`). Exit waits for that one as well.
* "Text PDFs resolve cleanly" (`README.md:232`): page numbers are looked up in what
  pdftotext reads, but with OCR what is retained is Markdown (`vision.go:25`), and
  normalizeForMatch strips only case and white space (`references.go:41`): a passage whose
  first 80 bytes hold a `#` or a `|` that the page lacks gets page 0. `TextPDFsResolve`
  speaks of the other passages.
* Feedback for a knowledge base that does not exist is answered 500, where every other
  endpoint says 404: the vote is inserted without a look-up and breaks a foreign key
  (`knowledge_base.go:448`).
* The form feeds of a transcript (`vision.go:102`) are used by nothing: pages are looked
  up in the original, and passages of a transcribed scan get page 0.
* The list of operations is cut at 100 (`indexer.go:194`): the theorem `Landed`
  assumes that a page holds them all.

## Proofs

All theorems are for every value of the constants, under the named ASSUMEs of
the modules (a `No...` value is no id, bounds are naturals, sets that are
counted are finite). Assumptions that the modules do not make are stated in the theorems that
need them: finitely many builds and workers in `ShutdownIsBounded`, `CallsReturn`, that Faults has at most errors of the indexer and the object store, in
`KnowledgeBaseProofs` (what becomes of builds), and `MaxOps <= PageLimit` in `HindsightRetainProofs`. No other theorem
assumes the absence of a fault.

*KnowledgeBase.* `ActiveBuildReady`, `ExclusiveProcessing`, `StatusFollowsLifecycle` and
the refinement are not inductive: they fail one step after states that satisfy
them but never occur. `IInv` says what is missing, in named parts:

* `BuildsFollowKBs`: foreign keys; a build lives and dies with its knowledge base.
* `ActiveSettled`, `CopiesSettled`: the column `active_build_id`, *and every copy of it
  or of a build id that a request carries between its read and its write*, names a
  build that is ready or, with its knowledge base, gone. Ready is stable until
  deletion, so a stale write restores a state that is still good. This is why the code
  is right without a lock.
* `OneHolder`: a build id is in one request about to enqueue it, one place of the
  queue or one worker - it is sent once and received once. This is why checking
  "pending" in one call and writing "processing" in another is right.
* `WaitingStatus`, `WorkerStatus`: how far the status of a build can be at each point.

`KnowledgeBaseProofs` proves `Init => IInv` and one lemma per group of actions for
each part (`Invariance`), then that `IInv` implies each property (`TypeCorrectness`,
`ActivePointsAtReadyBuild`, `OneWorkerPerBuild`, `SearchesStayHome`), that each step
from `IInv` follows the lifecycle (`BuildsSettleOnce`), and that it is a step of
`SnapshotService` or leaves its variables alone (`Refinement`). The mapping: a
pending or processing build is "building"; a knowledge base serves its active build
if the row is there and searchable.

*What becomes of builds* (later sections of `KnowledgeBaseProofs`). `UnsettledBuildIsOwned`, `ReadyBankExists` and
`OnlyWholeBuildsPublished` hold while calls that a request or worker makes to Postgres
return, nobody cancels and the process lives: under `CallsReturn` (`NoBuildIsDropped`, `ReadyBuildsKeepBanks`,
`PublishedAreWhole`; with every fault, the last is `ReadyBuildsStayWhole` of `HttpApi`). `FateIInv`, beside `IInv`: an unsettled build is in the hands of a request, the queue or a
worker; the bank of a build that is ready, or that a worker reads for, is there or its
knowledge base is being deleted (`BanksKept`); no bank is filled before its worker retains
(`NothingRetainedYet`), and what it retained is what it listed (`RetainedWhole`); a Delete works
on banks of its own knowledge base (`DropsOwnBanks`), and once begun goes on until the row is
gone (lemma `DeleteGoesOn`). `WorkersGetOn` is the part of `EveryBuildSettles` that is safety, and
needs no such assumption: `StepsLeft`, a bound on the steps that a worker still has to take for its build, falls
with each of them and never rises, from as many as there are documents and seven, whatever
requests and other workers do meanwhile. What fairness adds is that the steps are taken.
`ReadySnapshotsAreFrozen` needs no such
assumption: only the worker that holds a build adds documents to its bank, and a held build
is not ready.

*DocumentStore.* `DocIInv` adds how far the two stores are at each point of a
handler, that an id has one uploader, and that a document the stores disagree about is
in the hands of a request between its two writes, or was cut (`DisagreementIsHeld`);
`NoContentIsLeaked` and `QuietStoresAgree` follow.

*SearchReferences.* `RefIInv`: every result that is done has the reference that the cache
entry of its document gives (`FollowsCache`), so one answer agrees with itself; a document has
been looked up once if it has an entry, or is being looked up (`LookUpsFillCache`); and what an
entry denies, stays gone (`EntriesStayTrue`, from `DocIInv`: a row has its content, and ids
are not reused).

*HttpApi.* `HttpInvariance` rests on `IInv` and `DocIInv`, which hold of it because its steps
are steps of the modules beneath. `HttpIInv`: only what was asked for is being deleted;
what was acknowledged has been born; while an answer about a knowledge base counts, no
request is between its read and its write on it (`PromisesUncontested`). With faults, a Delete that was cut has
taken banks of a knowledge base that lives on; so what can be said of banks is said of knowledge
bases that nobody has *asked* to delete. Of those a bank lasts from the moment its worker lists
documents, through every error and crash (`BanksOutlastFaults`, lemma `OnlyAskedLoseBanks`), and
holds what was listed when the worker finalizes (`BanksFilledWhole`). `CreatedIsDurable`,
`LastWordsHold`, `ReadyMeansWhole` and `RefusalsAreTruthful` follow, the last from the first: a 404, or
the 500 of a broken foreign key, for something acknowledged and not asked to be deleted would
contradict it. What was found and is gone at the insert had a Delete begun in between; a vote
finds nothing first, so its 500 may also mean that the knowledge base never was.

*HindsightRetain.* `Landed`, for any number of files and children, assuming
`MaxOps <= PageLimit`. The invariant: after the upload's operations have
completed no child can be born; after one idle read the children still due
are those that were due when the sleep began; so the second read sees every
operation. That a page no larger than the limit is the whole list is `OnePage`. `OneCall` is
the refinement of `RetainCall`: the operations that have completed are the pieces that
have landed, those in flight or still due are coming, and a return of nil is the abstract
success, which may only be taken when nothing is coming and nothing is lost. `UploadRefines` and
`CompleteAppends` relate counts over sequences of operations to it. `OnlyHindsightKeepsRetain`
is the part of `RetainReturns` that is safety: once nothing is due or in flight, or the bank
is gone, that stays so, and `PollsLeft`, at most the number of files and four, falls with each
step of Retain. What fairness adds is that Hindsight gets there.

*MemoryFeedback.* `ConsensusComesFirst` and `RecordedIsCurated`: requests that passed the
count carry a text that had its consensus, and consensus reached is remembered.
`NoConsensusIsMissed`: a text with two approvals is applied, missed with an error, or
carried by a request that will see the consensus; the last vote's own request is one,
because it counts after its upsert (`ConsensusIsHeld`). `NoFeedbackIsOrphaned`: the foreign
keys refuse what a request that Delete has overtaken still writes.

*ServerProcess.* `ExitWaitsForBuilds`: a build in flight is in the hands of one
worker, and none has returned with one. `NoUnguardedService`: main is past loading only
with an accepted configuration. `CleanExitIsClean`: nothing is accepted after `Shutdown`, so
handlers that had all returned then have returned at exit. Two parts of the liveness
properties are safety, and proved. `ServiceKeepsItsWorkers`: whatever the settings, exactly
`Concurrency` workers, at least one, live until they are told to stop, and the queue has
room. `ShutdownIsBounded`, for finitely many builds and workers: `ToDo` is the set of steps
that may still be taken before the exit; from the signal on each step strikes one and none
adds any, so that queued builds and late handlers cannot keep the process going for ever.

*DocumentPages.* `CitationsDoNotMislead`, `TextPDFsAreFound` and `ConversionsAreWhole`, for
documents of any number of pages, words and marks. `IInv` follows a text along the pipeline: what has been
transcribed so far is the first pages, in order (`TranscribedInOrder`); what is retained is the
text of the document or of the pages, whole (`RetainedWhole`); a recalled chunk is a stretch
of it (`ChunkIsRetained`); the page that is cited is the one `findPage` computes
(`PageIsFound`). What is left is about the operators, for every text: splitting at form
feeds undoes joining with them, a stretch of a text without form feed lies within one page,
a prefix that a page has is found on that page or an earlier one, and a stretch of Markdown
without mark-up stands in the words alone as well (`UnmarkedStretch`), which is why a passage
that begins with words has its page and one that begins with mark-up may not. These lemmas go by
induction over lengths. The library's rules for it take a predicate, which no installed
prover can instantiate; `InductionOnSet` and `SequenceInduction` take the *set* of those for
which the claim holds instead, and `Recursion` shows from it that a function defined by
recursion exists and satisfies its equation.

**Only model-checked**: liveness (`EveryBuildSettles`, `RetainReturns`, `SignalLeadsToExit`,
`BuildsGetTheirTurn`), which is out of the prover's reach; what is safety in each is proved
(`WorkersGetOn`, `OnlyHindsightKeepsRetain`, `ShutdownIsBounded`, `ServiceKeepsItsWorkers`). Every other property of the passing runs
is stated by a theorem.

## Not modelled

* Ordering and paging of lists (normalizePage), metadata, the rest of a search result,
  wording of errors: no property is about them. `Get`, `List` and `ListBuilds` change
  nothing.
* Decoding and encoding of requests and answers, the size of content: a document has
  content or it has not.
* chi's Timeout middleware answers 504 when it ends a request; what it does to the request
  is the fault `"cancel"`. The `pool.Close` that main defers waits for connections in use
  when everything else is done; `SignalLeadsToExit` takes for granted that it returns.
* Two answers of Hindsight's: an upload accepted without operation ids (`indexer.go:169`),
  after which Retain would only poll the bank, and an empty list for a bank that was
  dropped, where `PollBank` assumes an error. `Landed` also assumes of Hindsight that a child
  operation is listed within one polling interval of its parent's end, and that children
  have no children.
* Settings that are passed on as they are: addresses, keys, directories, pool size.
* A call that fails after its effect, except where it matters (`UploadFails`,
  `RetainFails`, `Fail`): writes to Postgres are taken to have happened or not.
* The byte level of findPage (a prefix of 80 bytes may end within a character),
  since matching is bytewise on both sides.
* Hindsight, Postgres, the object store and the tools, beyond what is described above.
* `examples/`, Docker files, Makefile.

## What could come next

* Corrections across builds: `MemoryFeedback` has one consensus per memory and text and a
  bank that is switched under it; a rule for what a rollback does to corrections, if the
  repository comes to state one, would be its next property.
* If the worker gets the deadline that the comments of `indexer.go` speak of, the
  `ctx.Done()` branches of the polling loops become reachable and belong in
  `HindsightRetain`; `BoundedByDeadline` should then hold.
* If Delete or Build get a context of their own, `KB_StuckPending` and `KB_OrphanBank`
  are the runs to turn into passing ones.
