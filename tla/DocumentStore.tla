--------------------------- MODULE DocumentStore ---------------------------
(***************************************************************************)
(* The document half of superkb: usecase.DocumentUseCase over the          *)
(* documents table (metadata) and the object store (raw content).          *)
(*                                                                         *)
(* The two stores share no transaction.  A handler touches them one call   *)
(* at a time, and other handlers, a lost request context or a crash of the *)
(* process may come between two calls.  Every step below is one call to    *)
(* one store, with the code around it up to the next call.                 *)
(***************************************************************************)
CONSTANTS
  Docs,     \* document ids that uuid.New may return
  Calls,    \* document requests that may be in flight at once
  NoDoc,    \* the document of an idle call
  Faults    \* what may go wrong in a run: a subset of FaultKinds

(***************************************************************************)
(* "cancel": the context of a request is done (client gone or 60 s router  *)
(* timeout).  "db", "s3", "rag": a call to Postgres, the object store or   *)
(* the indexer returns an error.  "crash": the process dies.               *)
(***************************************************************************)
FaultKinds == {"cancel", "db", "s3", "rag", "crash"}

ASSUME NoDocAssumption == NoDoc \notin Docs
ASSUME FaultsAssumption == Faults \subseteq FaultKinds

VARIABLES
  row,      \* documents table: "unborn", "live" or (deleted) "gone"
  object,   \* object under documents/<id>: "none", "stored" or "deleted"
  call,     \* the program counter and the document of each request
  cut       \* history: the documents that an upload or delete left half done

docVars == <<row, object, call, cut>>

Idle == [pc |-> "idle", doc |-> NoDoc]

DocTypeOK ==
  /\ row \in [Docs -> {"unborn", "live", "gone"}]
  /\ object \in [Docs -> {"none", "stored", "deleted"}]
  /\ call \in [Calls -> {Idle} \cup
       [pc : {"createRow", "deleteObject", "deleteRow", "fetch"}, doc : Docs]]
  /\ cut \in SUBSET Docs

DocInit ==
  /\ row = [d \in Docs |-> "unborn"]
  /\ object = [d \in Docs |-> "none"]
  /\ call = [c \in Calls |-> Idle]
  /\ cut = {}

-----------------------------------------------------------------------------
(* The object store and the documents table, one operator per method. *)

StoragePut(d) == object' = [object EXCEPT ![d] = "stored"]

(* storage.Get: an object that is not there is ErrNotFound. *)
StorageGet(d) == object[d] = "stored"

(* Removing a key that is already gone succeeds as well. *)
StorageDelete(d) == object' = [object EXCEPT ![d] = "deleted"]

DocumentCreate(d) == row' = [row EXCEPT ![d] = "live"]

DocumentGetByID(d) == row[d] = "live"

(* RowsAffected = 0 (the row is gone already) is ErrNotFound and no change. *)
DocumentDelete(d) == row' = [row EXCEPT ![d] = IF @ = "live" THEN "gone" ELSE @]

-----------------------------------------------------------------------------
(* The handlers. *)

At(c, pc) == call[c].pc = pc
Goto(c, pc, d) == call' = [call EXCEPT ![c] = [pc |-> pc, doc |-> d]]
Return(c) == call' = [call EXCEPT ![c] = Idle]

(* Upload: a fresh id, the content first. *)
UploadPut(c, d) ==
  /\ At(c, "idle")
  /\ object[d] = "none"
  /\ StoragePut(d)
  /\ Goto(c, "createRow", d)
  /\ UNCHANGED <<row, cut>>

(* Upload: then the metadata, which makes the document known. *)
UploadCreate(c) ==
  /\ At(c, "createRow")
  /\ DocumentCreate(call[c].doc)
  /\ Return(c)
  /\ UNCHANGED <<object, cut>>

(* A mutant: the metadata goes first, the content after it. *)
DeleteStartRowFirst(c, d) ==
  /\ At(c, "idle")
  /\ DocumentGetByID(d)
  /\ DocumentDelete(d)
  /\ Goto(c, "deleteObject", d)
  /\ UNCHANGED <<object, cut>>

(* Delete (and Source below): repo.GetByID first. *)
DeleteStart(c, d) ==
  /\ At(c, "idle")
  /\ DocumentGetByID(d)
  /\ Goto(c, "deleteObject", d)
  /\ UNCHANGED <<row, object, cut>>

(* A mutant: the storage call is the last one. *)
DeleteObjectOnly(c) ==
  /\ At(c, "deleteObject")
  /\ StorageDelete(call[c].doc)
  /\ Return(c)
  /\ UNCHANGED <<row, cut>>

DeleteObject(c) ==
  /\ At(c, "deleteObject")
  /\ StorageDelete(call[c].doc)
  /\ Goto(c, "deleteRow", call[c].doc)
  /\ UNCHANGED <<row, cut>>

DeleteRow(c) ==
  /\ At(c, "deleteRow")
  /\ DocumentDelete(call[c].doc)
  /\ Return(c)
  /\ UNCHANGED <<object, cut>>

SourceStart(c, d) ==
  /\ At(c, "idle")
  /\ DocumentGetByID(d)
  /\ Goto(c, "fetch", d)
  /\ UNCHANGED <<row, object, cut>>

(* Source: the content is served, or it is missing and the call fails. *)
SourceFetch(c) ==
  /\ At(c, "fetch")
  /\ Return(c)
  /\ UNCHANGED <<row, object, cut>>

(***************************************************************************)
(* A store call of a handler fails, or its context is done: the handler    *)
(* returns the error and undoes nothing of what it did before.             *)
(***************************************************************************)
Half == {"createRow", "deleteRow"}  \* one store is written, the other is not

Abandon(c) ==
  /\ \/ At(c, "createRow") /\ Faults \cap {"cancel", "db"} # {}
     \/ At(c, "deleteRow") /\ Faults \cap {"cancel", "db"} # {}
     \/ At(c, "deleteObject") /\ Faults \cap {"cancel", "s3"} # {}
  /\ Return(c)
  /\ cut' = IF call[c].pc \in Half THEN cut \cup {call[c].doc} ELSE cut
  /\ UNCHANGED <<row, object>>

(* The process dies and restarts: both stores survive, the calls do not. *)
DocCrash ==
  /\ "crash" \in Faults
  /\ call' = [c \in Calls |-> Idle]
  /\ cut' = cut \cup {call[c].doc : c \in {e \in Calls : call[e].pc \in Half}}
  /\ UNCHANGED <<row, object>>

DocCallStep(c) ==
  \/ UploadCreate(c) \/ DeleteObject(c) \/ DeleteRow(c) \/ SourceFetch(c)

DocNext ==
  \/ \E c \in Calls, d \in Docs :
       UploadPut(c, d) \/ DeleteStart(c, d) \/ SourceStart(c, d)
  \/ \E c \in Calls : DocCallStep(c) \/ Abandon(c)
  \/ DocCrash

DocSpec == DocInit /\ [][DocNext]_docVars

-----------------------------------------------------------------------------
(* Properties. *)

(***************************************************************************)
(* Whatever is interrupted, the stores lean to one side only.  Metadata    *)
(* never appears before its content was stored (Upload puts first), and a  *)
(* document whose metadata is deleted has left no content behind (Delete   *)
(* removes the object first): no delete can leak an object nobody can name.*)
(***************************************************************************)
MetadataNeverLeaksContent ==
  \A d \in Docs :
    /\ row[d] = "live" => object[d] # "none"
    /\ row[d] = "gone" => object[d] = "deleted"

(***************************************************************************)
(* Overlapping uploads, deletes and reads of the same documents leave the  *)
(* two stores in agreement whenever no request is in flight: a listed      *)
(* document has content, stored content is listed.  Only an upload or a    *)
(* delete of that very document that ended between its two writes can      *)
(* leave them apart.                                                       *)
(***************************************************************************)
Agree(d) == (row[d] = "live") <=> (object[d] = "stored")

StoresAgreeWhenIdle ==
  (\A c \in Calls : At(c, "idle")) => \A d \in Docs \ cut : Agree(d)

(***************************************************************************)
(* The inductive invariant behind both: how far the two stores are at each *)
(* point of a handler, that an id has a single uploader, and that somebody *)
(* is about to mend, or left half done, what does not agree.               *)
(***************************************************************************)
HandlersInStep ==
  \A c \in Calls :
    /\ At(c, "createRow") =>
         object[call[c].doc] = "stored" /\ row[call[c].doc] = "unborn"
    /\ call[c].pc \in {"deleteObject", "deleteRow", "fetch"} =>
         row[call[c].doc] \in {"live", "gone"}
    /\ At(c, "deleteRow") => object[call[c].doc] = "deleted"

OneUploader ==
  \A c, e \in Calls :
    c # e /\ At(c, "createRow") /\ At(e, "createRow") => call[c].doc # call[e].doc

DisagreementIsHeld ==
  \A d \in Docs \ cut :
    Agree(d) \/ \E c \in Calls : call[c].pc \in Half /\ call[c].doc = d

DocIInv ==
  /\ DocTypeOK /\ MetadataNeverLeaksContent
  /\ HandlersInStep /\ OneUploader /\ DisagreementIsHeld
=============================================================================
