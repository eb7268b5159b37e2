-------------------------- MODULE SearchReferences --------------------------
(***************************************************************************)
(* The second half of KnowledgeBaseUseCase.Search: the results of Recall   *)
(* and the references that addReferences adds to them, while the document  *)
(* handlers of DocumentStore upload and delete the documents they name.    *)
(*                                                                         *)
(* A bank outlives its documents: a result may name a document that was    *)
(* deleted since the build, or one that is deleted between the look at its *)
(* row and the read of its content.  Each document is looked up once, and  *)
(* a cache, local to the search, serves the results after the first.  On   *)
(* which page a chunk is found is DocumentPages' subject.                  *)
(***************************************************************************)
EXTENDS DocumentStore, Naturals, Sequences

CONSTANTS
  Searches,     \* searches in flight at once
  NoSource,     \* the document id of a result without one, or that is no uuid
  Extractable,  \* documents whose content the text extractor can read
  MaxHits,      \* bound: how many results Hindsight returns
  DefaultTopK   \* what a top_k of 0 or less stands for

ASSUME NoSourceAssumption == NoSource \notin Docs
ASSUME ExtractableAssumption == Extractable \subseteq Docs
ASSUME TopKAssumption == MaxHits \in Nat /\ DefaultTopK \in Nat \ {0}

VARIABLE srch  \* one record per search

refVars == <<docVars, srch>>

(* A result: the document it names, whether it came with the text of its   *)
(* chunk, and its reference: "none", a "link" (FileURL and Filename), or a *)
(* link with a look for the page.                                          *)
References == {"none", "link", "page"}
Hits == [doc : Docs \cup {NoSource}, chunk : BOOLEAN, ref : References]

(* An entry of the cache: not there, {nil, nil}, {doc, nil}, {doc, pages}. *)
Entries == {"absent", "unknown", "noPages", "pages"}

(* A search: where it is, the results, how many of them are done and the   *)
(* cache; and, as history, how often each document was looked up and       *)
(* whether a call of this search was let down by a fault.                  *)
IdleSearch == [pc |-> "idle", hits |-> <<>>, n |-> 0,
               cache |-> [d \in Docs |-> "absent"],
               looked |-> [d \in Docs |-> 0], excused |-> FALSE]

SearchRecords ==
  [pc : {"idle", "enrich", "fetch", "answered"}, hits : Seq(Hits), n : Nat,
   cache : [Docs -> Entries], looked : [Docs -> Nat], excused : BOOLEAN]

SearchTypeOK ==
  /\ srch \in [Searches -> SearchRecords]
  /\ \A s \in Searches : srch[s].n <= Len(srch[s].hits)

TypeOK == DocTypeOK /\ SearchTypeOK

Init == DocInit /\ srch = [s \in Searches |-> IdleSearch]

-----------------------------------------------------------------------------
SearchAt(s, pc) == srch[s].pc = pc
Hit(s) == srch[s].hits[srch[s].n + 1]

(* What Hindsight finds in a bank: passages of documents that were there   *)
(* when the bank was built, and memories of no document.                   *)
Found ==
  UNION {[1..k -> [doc : {d \in Docs : row[d] # "unborn"} \cup {NoSource},
                   chunk : BOOLEAN, ref : {"none"}]] : k \in 0..MaxHits}

(* The default of Recall. *)
Limit(topK) == IF topK <= 0 THEN DefaultTopK ELSE topK

(* Recall of the indexer, cut to the limit; without references that is the *)
(* answer.                                                                 *)
Recall(s, topK, found, withReferences) ==
  /\ SearchAt(s, "idle")
  /\ srch' = [srch EXCEPT ![s] = [IdleSearch EXCEPT
       !.pc = IF withReferences THEN "enrich" ELSE "answered",
       !.hits = IF Len(found) > Limit(topK) THEN SubSeq(found, 1, Limit(topK)) ELSE found]]
  /\ UNCHANGED docVars

(* enrichReference, from an entry of the cache. *)
Enriched(hit, entry) ==
  [hit EXCEPT !.ref =
     IF entry = "unknown" THEN "none"
     ELSE IF entry = "pages" /\ hit.chunk THEN "page" ELSE "link"]

(* The entry of the next result is known: enrich it and go on. *)
Resolved(x, entry) ==
  LET hit == x.hits[x.n + 1]
  IN [x EXCEPT !.pc = "enrich", !.n = x.n + 1,
               !.cache = [x.cache EXCEPT ![hit.doc] = entry],
               !.hits = [x.hits EXCEPT ![x.n + 1] = Enriched(hit, entry)]]

Resolve(s, entry) == srch' = [srch EXCEPT ![s] = Resolved(@, entry)]

Enriching(s) == SearchAt(s, "enrich") /\ srch[s].n < Len(srch[s].hits)

(* A result that names no document is left as it is. *)
SkipHit(s) ==
  /\ Enriching(s) /\ Hit(s).doc = NoSource
  /\ srch' = [srch EXCEPT ![s].n = @ + 1]
  /\ UNCHANGED docVars

UseCache(s) ==
  /\ Enriching(s) /\ Hit(s).doc # NoSource
  /\ srch[s].cache[Hit(s).doc] # "absent"
  /\ Resolve(s, srch[s].cache[Hit(s).doc])
  /\ UNCHANGED docVars

(* docs.GetByID is called for the next result of x. *)
Counted(x) == [x EXCEPT !.looked[x.hits[x.n + 1].doc] = @ + 1]

(* A mutant: the cache is not consulted. *)
LookUpAlways(s) ==
  /\ Enriching(s) /\ Hit(s).doc # NoSource
  /\ DocumentGetByID(Hit(s).doc)
  /\ srch' = [srch EXCEPT ![s] = [Counted(srch[s]) EXCEPT !.pc = "fetch"]]
  /\ UNCHANGED docVars

(* docs.GetByID finds the row ... *)
LookUp(s) ==
  /\ Enriching(s) /\ Hit(s).doc # NoSource
  /\ srch[s].cache[Hit(s).doc] = "absent"
  /\ DocumentGetByID(Hit(s).doc)
  /\ srch' = [srch EXCEPT ![s] = [Counted(srch[s]) EXCEPT !.pc = "fetch"]]
  /\ UNCHANGED docVars

(* A mutant: a document that is not found is not remembered. *)
LookUpFailsUncached(s) ==
  /\ Enriching(s) /\ Hit(s).doc # NoSource
  /\ srch[s].cache[Hit(s).doc] = "absent"
  /\ ~DocumentGetByID(Hit(s).doc) \/ Faults \cap {"cancel", "db"} # {}
  /\ srch' = [srch EXCEPT ![s] =
       [Counted(srch[s]) EXCEPT !.n = @ + 1, !.excused = @ \/ DocumentGetByID(Hit(s).doc)]]
  /\ UNCHANGED docVars

(* ... or does not, because it is gone or the call fails. *)
LookUpFails(s) ==
  /\ Enriching(s) /\ Hit(s).doc # NoSource
  /\ srch[s].cache[Hit(s).doc] = "absent"
  /\ ~DocumentGetByID(Hit(s).doc) \/ Faults \cap {"cancel", "db"} # {}
  /\ LET x == srch[s]
     IN srch' = [srch EXCEPT ![s] =
          [Counted(x) EXCEPT !.n = x.n + 1,
                             !.cache = [x.cache EXCEPT ![Hit(s).doc] = "unknown"],
                             !.excused = x.excused \/ DocumentGetByID(Hit(s).doc)]]
  /\ UNCHANGED docVars

(* extractPages: the content is there, and it can be split into pages. *)
HasPages(d) == StorageGet(d) /\ d \in Extractable

FetchPages(s) ==
  /\ SearchAt(s, "fetch")
  /\ HasPages(Hit(s).doc)
  /\ Resolve(s, "pages")
  /\ UNCHANGED docVars

(* A mutant: a document whose content cannot be read is not linked. *)
FetchFailsUnlinked(s) ==
  /\ SearchAt(s, "fetch")
  /\ ~HasPages(Hit(s).doc) \/ Faults \cap {"cancel", "s3"} # {}
  /\ srch' = [srch EXCEPT ![s].pc = "enrich", ![s].n = @ + 1,
                          ![s].cache[Hit(s).doc] = "noPages",
                          ![s].excused = @ \/ HasPages(Hit(s).doc)]
  /\ UNCHANGED docVars

(* extractPages fails, which takes away the page and leaves the link. *)
FetchFails(s) ==
  /\ SearchAt(s, "fetch")
  /\ ~HasPages(Hit(s).doc) \/ Faults \cap {"cancel", "s3"} # {}
  /\ srch' = [srch EXCEPT ![s] =
       [Resolved(srch[s], "noPages") EXCEPT !.excused = @ \/ HasPages(Hit(s).doc)]]
  /\ UNCHANGED docVars

Answer(s) ==
  /\ SearchAt(s, "enrich") /\ srch[s].n = Len(srch[s].hits)
  /\ srch' = [srch EXCEPT ![s].pc = "answered"]
  /\ UNCHANGED docVars

(* The answer has been written; the slot is free for another search. *)
Forget(s) ==
  /\ SearchAt(s, "answered")
  /\ srch' = [srch EXCEPT ![s] = IdleSearch]
  /\ UNCHANGED docVars

SearchStep(s) ==
  \/ \E topK \in 0..1, found \in Found, withReferences \in BOOLEAN :
       Recall(s, topK, found, withReferences)
  \/ SkipHit(s) \/ UseCache(s) \/ LookUp(s) \/ LookUpFails(s)
  \/ FetchPages(s) \/ FetchFails(s) \/ Answer(s) \/ Forget(s)

Next ==
  \/ \E c \in Calls, d \in Docs :
       (UploadPut(c, d) \/ DeleteStart(c, d) \/ SourceStart(c, d)) /\ UNCHANGED srch
  \/ \E c \in Calls : (DocCallStep(c) \/ Abandon(c)) /\ UNCHANGED srch
  \/ \E s \in Searches : SearchStep(s)
  \/ DocCrash /\ srch' = [s \in Searches |-> IdleSearch]

Spec == Init /\ [][Next]_refVars

-----------------------------------------------------------------------------
(* Properties. *)

HitsOf(s) == DOMAIN srch[s].hits

(***************************************************************************)
(* One answer does not contradict itself: results that name the same       *)
(* document are all linked to it or none is, and its pages are searched    *)
(* for all of their chunks or for none, although the document may be       *)
(* deleted between one result and the next.                                *)
(***************************************************************************)
SameDocumentSameReference ==
  \A s \in Searches : SearchAt(s, "answered") =>
    \A i, j \in HitsOf(s) :
      LET a == srch[s].hits[i]
          b == srch[s].hits[j]
      IN a.doc = b.doc => /\ a.ref = "none" <=> b.ref = "none"
                          /\ a.chunk = b.chunk => a.ref = b.ref

(***************************************************************************)
(* "A document is fetched and parsed at most once per search" (usecase/    *)
(* knowledge_base.go, addReferences), those that are not found included.   *)
(***************************************************************************)
LookedUpOnce == \A s \in Searches, d \in Docs : srch[s].looked[d] <= 1

(***************************************************************************)
(* References degrade for a reason only.  Unless a call of this search     *)
(* failed, a result is left without a link only if its document was        *)
(* deleted, and without a look for its page only if the content was: no    *)
(* row is there whose content was never stored, no interleaving with an    *)
(* upload or delete makes the cache say less than the stores do.           *)
(***************************************************************************)
MissingOnlyIfDeleted ==
  \A s \in Searches : ~srch[s].excused =>
    \A i \in 1..srch[s].n :
      LET h == srch[s].hits[i]
      IN h.doc # NoSource =>
           /\ h.ref = "none" => row[h.doc] = "gone"
           /\ h.ref = "link" /\ h.chunk =>
                object[h.doc] = "deleted" \/ h.doc \notin Extractable

-----------------------------------------------------------------------------
(***************************************************************************)
(* The inductive invariant behind them, of the record x of a search: every *)
(* result done so far has the reference its cache entry gives, an entry is *)
(* made by the only look-up of its document, and what it says the stores   *)
(* will say from then on.                                                  *)
(***************************************************************************)
FollowsCache(x) ==
  \A i \in DOMAIN x.hits :
    LET h == x.hits[i]
    IN IF h.doc = NoSource \/ i > x.n THEN h.ref = "none"
       ELSE x.cache[h.doc] # "absent" /\ h.ref = Enriched(h, x.cache[h.doc]).ref

LookUpsFillCache(x) ==
  /\ x.pc = "answered" => x.n \in {0, Len(x.hits)}
  /\ x.pc = "fetch" =>
       /\ x.n < Len(x.hits) /\ x.hits[x.n + 1].doc # NoSource
       /\ x.cache[x.hits[x.n + 1].doc] = "absent"
  /\ \A d \in Docs :
       /\ x.looked[d] <= 1
       /\ x.cache[d] = "absent" /\ x.looked[d] = 1 =>
            x.pc = "fetch" /\ x.hits[x.n + 1].doc = d

EntriesStayTrue(x) ==
  ~x.excused => \A d \in Docs :
    /\ x.cache[d] = "unknown" => row[d] = "gone"
    /\ x.cache[d] = "noPages" => object[d] = "deleted" \/ d \notin Extractable

HitsExist(x) ==
  \A i \in DOMAIN x.hits :
    LET d == x.hits[i].doc IN d # NoSource => row[d] # "unborn" /\ object[d] # "none"

RefIInv ==
  /\ TypeOK
  /\ \A s \in Searches : /\ FollowsCache(srch[s]) /\ LookUpsFillCache(srch[s])
                         /\ EntriesStayTrue(srch[s]) /\ HitsExist(srch[s])
=============================================================================
