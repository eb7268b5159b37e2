----------------------- MODULE SearchReferencesProofs -----------------------
(***************************************************************************)
(* Proofs about SearchReferences, for any number of documents, requests,   *)
(* searches and results, and every fault.                                  *)
(***************************************************************************)
EXTENDS SearchReferences, DocumentStoreProofs, SequenceTheorems

(* To the stores a search is a stutter: what DocumentStore promises holds. *)
THEOREM SearchesKeepDocumentStore == Spec => DocSpec
<1>1. Init => DocInit
  BY DEF Init
<1>2. [Next]_refVars => [DocNext]_docVars
  BY DEF Next, refVars, docVars, DocNext, SearchStep, Recall, SkipHit, UseCache, LookUp,
         LookUpFails, FetchPages, FetchFails, Answer, Forget
<1> QED BY <1>1, <1>2, PTL DEF Spec, DocSpec

(* The invariant of one search, as one operator of its record. *)
SearchOK(x) ==
  /\ x \in SearchRecords /\ x.n <= Len(x.hits)
  /\ FollowsCache(x) /\ LookUpsFillCache(x) /\ EntriesStayTrue(x) /\ HitsExist(x)

LEMMA RefIInvBySearch == RefIInv <=> /\ DocTypeOK
                                     /\ srch \in [Searches -> SearchRecords]
                                     /\ \A s \in Searches : SearchOK(srch[s])
BY DEF RefIInv, TypeOK, SearchTypeOK, SearchOK

LEMMA IdleSearchOK == SearchOK(IdleSearch)
<1>1. <<>> \in Seq(Hits) /\ Len(<<>>) = 0
  BY EmptySeq
<1>2. IdleSearch \in SearchRecords
  BY <1>1 DEF IdleSearch, Entries, SearchRecords
<1> QED
  BY <1>1, <1>2 DEF SearchOK, IdleSearch, FollowsCache, LookUpsFillCache, EntriesStayTrue, HitsExist

(* Steps of the documents' handlers: the stores move on, searches do not.  *)
LEMMA StoresMoveOn ==
  ASSUME DocIInv, [DocNext]_docVars, NEW x, SearchOK(x)
  PROVE  SearchOK(x)'
<1>1. \A d \in Docs : /\ row[d] = "gone" => row'[d] = "gone"
                      /\ row[d] # "unborn" => row'[d] # "unborn"
                      /\ object[d] = "deleted" => object'[d] = "deleted"
                      /\ object[d] # "none" => object'[d] # "none"
  BY DEF DocIInv, DocTypeOK, HandlersInStep, DocNext, docVars, DocCallStep, UploadPut,
     UploadCreate, DeleteStart, DeleteObject, DeleteRow, SourceStart, SourceFetch, Abandon,
     DocCrash, StoragePut, StorageDelete, DocumentCreate, DocumentDelete, At
<1>2. (x \in SearchRecords /\ x.n <= Len(x.hits) /\ FollowsCache(x) /\ LookUpsFillCache(x))'
  BY DEF SearchOK, FollowsCache, LookUpsFillCache
<1>3. EntriesStayTrue(x)'
  BY <1>1 DEF SearchOK, EntriesStayTrue
<1>4. HitsExist(x)'
  <2> SUFFICES ASSUME NEW i \in DOMAIN x.hits, x.hits[i].doc # NoSource
               PROVE  row'[x.hits[i].doc] # "unborn" /\ object'[x.hits[i].doc] # "none"
    BY DEF HitsExist
  <2>1. x.hits[i].doc \in Docs
    <3>1. x.hits \in Seq(Hits)
      BY DEF SearchOK, SearchRecords
    <3>2. i \in 1..Len(x.hits)
      BY <3>1, LenProperties
    <3>3. x.hits[i] \in Hits
      BY <3>1, <3>2, ElementOfSeq
    <3> QED BY <3>3 DEF Hits
  <2>2. row[x.hits[i].doc] # "unborn" /\ object[x.hits[i].doc] # "none"
    BY DEF SearchOK, HitsExist
  <2> QED BY <2>1, <2>2, <1>1
<1> QED BY <1>2, <1>3, <1>4 DEF SearchOK

-----------------------------------------------------------------------------
(* Steps of a search. *)

(* The results of Recall are documents the stores know, without references.*)
LEMMA RecallOK ==
  ASSUME DocIInv, NEW topK \in 0..1, NEW found \in Found, NEW pc \in {"enrich", "answered"},
         NEW kept,
         kept = IF Len(found) > Limit(topK) THEN SubSeq(found, 1, Limit(topK)) ELSE found
  PROVE  SearchOK([pc |-> pc, hits |-> kept, n |-> 0, cache |-> [d \in Docs |-> "absent"],
                   looked |-> [d \in Docs |-> 0], excused |-> FALSE])
<1> DEFINE Known == [doc : {d \in Docs : row[d] # "unborn"} \cup {NoSource},
                     chunk : BOOLEAN, ref : {"none"}]
<1>1. PICK k \in 0..MaxHits : found \in [1..k -> Known]
  BY DEF Found
<1>2. \A h \in Known : h \in Hits /\ h.ref = "none"
                       /\ (h.doc # NoSource => h.doc \in Docs /\ row[h.doc] # "unborn")
  BY DEF Hits, References
<1> HIDE DEF Known
<1>3. k \in Nat
  BY TopKAssumption
<1>4. found \in Seq(Known) /\ Len(found) = k
  BY <1>1, <1>3, IsASeq, LenProperties
<1>5. Limit(topK) \in Nat
  BY TopKAssumption DEF Limit
<1>6. kept \in Seq(Known)
  <2>1. CASE Len(found) > Limit(topK)
    <3>1. \A i \in 1..Limit(topK) : found[i] \in Known
      BY <1>4, <1>5, <2>1, ElementOfSeq
    <3> QED BY <1>5, <2>1, <3>1, SubSeqProperties
  <2>2. CASE ~(Len(found) > Limit(topK))
    BY <1>4, <2>2
  <2> QED BY <2>1, <2>2
<1>7. Len(kept) \in Nat /\ DOMAIN kept = 1..Len(kept) /\ \A i \in 1..Len(kept) : kept[i] \in Known
  BY <1>6, LenProperties, ElementOfSeq
<1>8. kept \in Seq(Hits)
  BY <1>2, <1>7, <1>6, SeqMonotonic
<1>9. \A d \in Docs : row[d] # "unborn" => object[d] # "none"
  BY DEF DocIInv, DocTypeOK, MetadataNeverLeaksContent
<1> DEFINE x == [pc |-> pc, hits |-> kept, n |-> 0, cache |-> [d \in Docs |-> "absent"],
                 looked |-> [d \in Docs |-> 0], excused |-> FALSE]
<1>10. x \in SearchRecords /\ x.n <= Len(x.hits)
  BY <1>7, <1>8 DEF SearchRecords, Entries
<1>11. FollowsCache(x)
  <2> SUFFICES ASSUME NEW i \in 1..Len(kept)
               PROVE  i > 0 /\ kept[i].ref = "none"
    BY <1>7 DEF FollowsCache
  <2>1. kept[i] \in Known
    BY <1>7
  <2>2. kept[i].ref = "none"
    BY <1>2, <2>1
  <2>3. Len(kept) \in Nat
    BY <1>7
  <2> HIDE DEF x
  <2>4. i > 0
    BY <2>3
  <2> QED BY <2>2, <2>4
<1>12. LookUpsFillCache(x) /\ EntriesStayTrue(x)
  BY DEF LookUpsFillCache, EntriesStayTrue
<1>13. HitsExist(x)
  BY <1>2, <1>7, <1>9 DEF HitsExist
<1> QED BY <1>10, <1>11, <1>12, <1>13 DEF SearchOK

(* The next result is enriched from an entry that is new or was there.     *)
NextHit(x, d, entry, y) ==
  /\ SearchOK(x) /\ x.pc \in {"enrich", "fetch"} /\ x.n < Len(x.hits)
  /\ d \in Docs /\ x.hits[x.n + 1].doc = d
  /\ entry \in {"unknown", "noPages", "pages"} /\ x.cache[d] \in {"absent", entry}
  /\ x.pc = "enrich" => x.cache[d] = entry \/ x.looked[d] = 0
  /\ y \in SearchRecords /\ y.pc = "enrich" /\ y.n = x.n + 1
  /\ y.cache = [x.cache EXCEPT ![d] = entry]
  /\ y.hits = [x.hits EXCEPT ![x.n + 1] = Enriched(x.hits[x.n + 1], entry)]
  /\ \A e \in Docs : y.looked[e] <= 1 /\ (e # d => y.looked[e] = x.looked[e])
  /\ x.excused => y.excused
  /\ ~y.excused => /\ entry = "unknown" => row[d] = "gone"
                   /\ entry = "noPages" => object[d] = "deleted" \/ d \notin Extractable

LEMMA NextHitOK ==
  ASSUME NEW x, NEW d, NEW entry, NEW y, NextHit(x, d, entry, y)
  PROVE  SearchOK(y)
<1> USE DEF NextHit
<1> DEFINE k == x.n + 1
<1>1. x.hits \in Seq(Hits) /\ Len(x.hits) \in Nat /\ k \in 1..Len(x.hits)
      /\ DOMAIN x.hits = 1..Len(x.hits) /\ x.n \in Nat
  BY LenProperties DEF SearchOK, SearchRecords
<1>2. x.hits[k] \in Hits /\ \A i \in 1..Len(x.hits) : x.hits[i] \in Hits
  BY <1>1, ElementOfSeq
<1>3. Enriched(x.hits[k], entry) \in Hits /\ Enriched(x.hits[k], entry).doc = d
  BY <1>2 DEF Enriched, Hits, References
<1>4. /\ Len(y.hits) = Len(x.hits) /\ DOMAIN y.hits = 1..Len(x.hits)
      /\ \A i \in 1..Len(x.hits) : y.hits[i] = IF i = k THEN Enriched(x.hits[k], entry) ELSE x.hits[i]
  BY <1>1, <1>3, ExceptSeq, LenProperties
<1>5. y.n <= Len(y.hits)
  BY <1>1, <1>4
<1>6. FollowsCache(y)
  <2> SUFFICES ASSUME NEW i \in 1..Len(x.hits)
               PROVE  IF y.hits[i].doc = NoSource \/ i > y.n THEN y.hits[i].ref = "none"
                      ELSE /\ y.cache[y.hits[i].doc] # "absent"
                           /\ y.hits[i].ref = Enriched(y.hits[i], y.cache[y.hits[i].doc]).ref
    BY <1>4 DEF FollowsCache
  <2>1. x.cache \in [Docs -> Entries]
    BY DEF SearchOK, SearchRecords
  <2>2. CASE i = k
    <3>1. y.hits[i] = Enriched(x.hits[k], entry) /\ y.hits[i].doc = d
      BY <1>3, <1>4, <2>2
    <3>2. d \in Docs /\ d # NoSource /\ y.cache[d] = entry /\ entry # "absent"
      BY <2>1, NoSourceAssumption
    <3>3. ~(i > y.n)
      BY <1>1, <2>2
    <3>4. Enriched(Enriched(x.hits[k], entry), entry).ref = Enriched(x.hits[k], entry).ref
      BY <1>2 DEF Enriched, Hits
    <3> QED BY <3>1, <3>2, <3>3, <3>4
  <2>3. CASE i # k
    <3>1. y.hits[i] = x.hits[i] /\ x.hits[i].doc \in Docs \cup {NoSource}
      BY <1>2, <1>4, <2>3 DEF Hits
    <3>2. (i > y.n) <=> (i > x.n)
      BY <1>1, <2>3
    <3>3. IF x.hits[i].doc = NoSource \/ i > x.n THEN x.hits[i].ref = "none"
          ELSE /\ x.cache[x.hits[i].doc] # "absent"
               /\ x.hits[i].ref = Enriched(x.hits[i], x.cache[x.hits[i].doc]).ref
      BY <1>1 DEF SearchOK, FollowsCache
    <3> QED BY <2>1, <3>1, <3>2, <3>3
  <2> QED BY <2>2, <2>3
<1>7. LookUpsFillCache(y)
  <2>1. \A e \in Docs : y.cache[e] = "absent" => e # d /\ x.cache[e] = "absent"
    BY DEF SearchOK, SearchRecords
  <2>2. \A e \in Docs : e # d /\ x.cache[e] = "absent" => x.looked[e] # 1
    BY DEF SearchOK, LookUpsFillCache
  <2> QED BY <2>1, <2>2 DEF LookUpsFillCache
<1>8. EntriesStayTrue(y)
  BY DEF SearchOK, SearchRecords, EntriesStayTrue
<1>9. HitsExist(y)
  BY <1>1, <1>3, <1>4 DEF SearchOK, HitsExist
<1> QED BY <1>5, <1>6, <1>7, <1>8, <1>9 DEF SearchOK

(* One search moves on, the stores and the other searches do not.          *)
LEMMA OneSearch ==
  ASSUME RefIInv, NEW s \in Searches, NEW y, SearchOK(y), UNCHANGED docVars,
         srch' = [srch EXCEPT ![s] = y]
  PROVE  RefIInv'
<1>1. DocTypeOK /\ srch \in [Searches -> SearchRecords] /\ \A t \in Searches : SearchOK(srch[t])
  BY RefIInvBySearch
<1>2. y \in SearchRecords
  BY DEF SearchOK
<1>3. DocTypeOK'
  BY <1>1 DEF DocTypeOK, docVars
<1>4. srch' \in [Searches -> SearchRecords]
  BY <1>1, <1>2
<1>5. \A t \in Searches : SearchOK(srch'[t])
  BY <1>1
<1>6. ASSUME NEW t \in Searches PROVE SearchOK(srch[t])'
  <2>1. SearchOK(srch'[t])
    BY <1>5, <1>6
  <2>2. FollowsCache(srch[t])' /\ LookUpsFillCache(srch[t])'
    BY <2>1 DEF SearchOK, FollowsCache, LookUpsFillCache
  <2>3. EntriesStayTrue(srch[t])' /\ HitsExist(srch[t])'
    BY <2>1 DEF SearchOK, EntriesStayTrue, HitsExist, docVars
  <2>4. (srch[t] \in SearchRecords /\ srch[t].n <= Len(srch[t].hits))'
    BY <2>1 DEF SearchOK
  <2> QED BY <2>2, <2>3, <2>4 DEF SearchOK
<1>7. RefIInv' <=> (/\ DocTypeOK
                   /\ srch \in [Searches -> SearchRecords]
                   /\ \A t \in Searches : SearchOK(srch[t]))'
  BY DEF RefIInv, TypeOK, SearchTypeOK, SearchOK
<1> QED BY <1>3, <1>4, <1>6, <1>7

(* What the invariant says of a search whose next result names a document. *)
LEMMA AtHit ==
  ASSUME RefIInv, NEW s \in Searches, srch[s].pc \in {"enrich", "fetch"},
         srch[s].n < Len(srch[s].hits)
  PROVE  /\ SearchOK(srch[s]) /\ srch[s] \in SearchRecords
         /\ srch[s].hits \in Seq(Hits) /\ srch[s].n + 1 \in 1..Len(srch[s].hits)
         /\ Hit(s) \in Hits /\ (Hit(s).doc # NoSource => Hit(s).doc \in Docs)
         /\ srch[s].cache \in [Docs -> Entries] /\ srch[s].looked \in [Docs -> Nat]
         /\ srch[s].n \in Nat /\ srch[s].excused \in BOOLEAN
         /\ \A entry \in Entries : Enriched(Hit(s), entry) \in Hits
<1>1. SearchOK(srch[s])
  BY RefIInvBySearch
<1>2. /\ srch[s] \in SearchRecords /\ srch[s].hits \in Seq(Hits) /\ srch[s].n \in Nat
      /\ srch[s].cache \in [Docs -> Entries] /\ srch[s].looked \in [Docs -> Nat]
      /\ srch[s].excused \in BOOLEAN
  BY <1>1 DEF SearchOK, SearchRecords
<1>3. srch[s].n + 1 \in 1..Len(srch[s].hits)
  BY <1>2, LenProperties
<1>4. Hit(s) \in Hits
  BY <1>2, <1>3, ElementOfSeq DEF Hit
<1>5. Hit(s).doc # NoSource => Hit(s).doc \in Docs
  BY <1>4 DEF Hits
<1>6. \A entry \in Entries : Enriched(Hit(s), entry) \in Hits
  BY <1>4 DEF Enriched, Hits, References
<1> QED BY <1>1, <1>2, <1>3, <1>4, <1>5, <1>6

(* What the next result of a search becomes, whatever made its entry.      *)
NextSearch(x, entry, looked, excused) ==
  [pc |-> "enrich", n |-> x.n + 1,
   hits |-> [x.hits EXCEPT ![x.n + 1] = Enriched(x.hits[x.n + 1], entry)],
   cache |-> [x.cache EXCEPT ![x.hits[x.n + 1].doc] = entry],
   looked |-> looked, excused |-> excused]

Resolving(s, entry, looked, excused) ==
  /\ srch[s].pc \in {"enrich", "fetch"} /\ srch[s].n < Len(srch[s].hits) /\ Hit(s).doc # NoSource
  /\ entry \in {"unknown", "noPages", "pages"}
  /\ srch[s].cache[Hit(s).doc] \in {"absent", entry}
  /\ looked \in [Docs -> Nat] /\ excused \in BOOLEAN
  /\ srch[s].pc = "enrich" => srch[s].cache[Hit(s).doc] = entry \/ srch[s].looked[Hit(s).doc] = 0
  /\ \A e \in Docs : looked[e] <= 1 /\ (e # Hit(s).doc => looked[e] = srch[s].looked[e])
  /\ srch[s].excused => excused
  /\ ~excused => /\ entry = "unknown" => row[Hit(s).doc] = "gone"
                 /\ entry = "noPages" =>
                      object[Hit(s).doc] = "deleted" \/ Hit(s).doc \notin Extractable

LEMMA ResolveOK ==
  ASSUME RefIInv, NEW s \in Searches, UNCHANGED docVars,
         NEW entry, NEW looked, NEW excused, Resolving(s, entry, looked, excused),
         srch' = [srch EXCEPT ![s] = NextSearch(srch[s], entry, looked, excused)]
  PROVE  RefIInv'
<1> DEFINE x == srch[s]
           y == NextSearch(x, entry, looked, excused)
           d == Hit(s).doc
<1>1. /\ SearchOK(x) /\ x.hits \in Seq(Hits) /\ x.n + 1 \in 1..Len(x.hits) /\ x.n \in Nat
      /\ d \in Docs /\ x.cache \in [Docs -> Entries]
      /\ \A e \in Entries : Enriched(Hit(s), e) \in Hits
  BY AtHit DEF Resolving
<1>2. entry \in Entries
  BY DEF Entries, Resolving
<1>3. [x.hits EXCEPT ![x.n + 1] = Enriched(Hit(s), entry)] \in Seq(Hits)
  BY <1>1, <1>2, ExceptSeq
<1>4. [x.cache EXCEPT ![d] = entry] \in [Docs -> Entries]
  BY <1>1, <1>2
<1>5. y \in SearchRecords
  <2>1. looked \in [Docs -> Nat] /\ excused \in BOOLEAN
    BY DEF Resolving
  <2>2. d = x.hits[x.n + 1].doc /\ Hit(s) = x.hits[x.n + 1]
    BY DEF Hit
  <2>3. x.n + 1 \in Nat
    BY <1>1
  <2> DEFINE hits == [x.hits EXCEPT ![x.n + 1] = Enriched(x.hits[x.n + 1], entry)]
             cache == [x.cache EXCEPT ![x.hits[x.n + 1].doc] = entry]
  <2>4. hits \in Seq(Hits) /\ cache \in [Docs -> Entries]
    BY <1>3, <1>4, <2>2
  <2>5. y = [pc |-> "enrich", n |-> x.n + 1, hits |-> hits, cache |-> cache,
             looked |-> looked, excused |-> excused]
    BY DEF NextSearch
  <2> HIDE DEF hits, cache, x, y
  <2> QED BY <2>1, <2>3, <2>4, <2>5 DEF SearchRecords
<1>6. NextHit(x, d, entry, y)
  BY <1>1, <1>5 DEF NextHit, NextSearch, Resolving, Hit
<1>7. SearchOK(y)
  BY <1>6, NextHitOK
<1> QED BY <1>7, OneSearch

(* A record of SearchRecords is what its fields are.                       *)
LEMMA SearchFields ==
  ASSUME NEW x \in SearchRecords
  PROVE  x = [pc |-> x.pc, hits |-> x.hits, n |-> x.n, cache |-> x.cache,
              looked |-> x.looked, excused |-> x.excused]
BY DEF SearchRecords

LEMMA ResolvedFields ==
  ASSUME NEW x \in SearchRecords, NEW entry
  PROVE  Resolved(x, entry) = NextSearch(x, entry, x.looked, x.excused)
<1>1. PICK pc, hits, n, cache, looked, excused :
        x = [pc |-> pc, hits |-> hits, n |-> n, cache |-> cache, looked |-> looked,
             excused |-> excused]
  BY SearchFields
<1> DEFINE newCache == [cache EXCEPT ![hits[n + 1].doc] = entry]
           newHits == [hits EXCEPT ![n + 1] = Enriched(hits[n + 1], entry)]
<1>2. Resolved(x, entry) = [x EXCEPT !.pc = "enrich", !.n = n + 1, !.cache = newCache, !.hits = newHits]
  BY <1>1 DEF Resolved
<1>3. NextSearch(x, entry, x.looked, x.excused)
        = [pc |-> "enrich", n |-> n + 1, hits |-> newHits, cache |-> newCache,
           looked |-> looked, excused |-> excused]
  BY <1>1 DEF NextSearch
<1> HIDE DEF newCache, newHits
<1> QED BY <1>1, <1>2, <1>3

LEMMA ResolveFromCache ==
  ASSUME RefIInv, NEW s \in Searches, UseCache(s)
  PROVE  RefIInv'
<1> USE DEF UseCache, Enriching, SearchAt
<1> DEFINE x == srch[s]
           entry == x.cache[Hit(s).doc]
<1>1. /\ SearchOK(x) /\ Hit(s).doc \in Docs /\ x.cache \in [Docs -> Entries]
      /\ x.looked \in [Docs -> Nat] /\ x.excused \in BOOLEAN /\ x \in SearchRecords
  BY AtHit
<1>2. entry \in {"unknown", "noPages", "pages"}
  BY <1>1 DEF Entries
<1>3. \A e \in Docs : x.looked[e] <= 1
  BY <1>1 DEF SearchOK, LookUpsFillCache
<1>4. Resolving(s, entry, x.looked, x.excused)
  BY <1>1, <1>2, <1>3 DEF SearchOK, EntriesStayTrue, Resolving
<1>5. Resolved(x, entry) = NextSearch(x, entry, x.looked, x.excused)
  BY <1>1, ResolvedFields
<1>6. srch' = [srch EXCEPT ![s] = NextSearch(x, entry, x.looked, x.excused)]
  BY <1>5 DEF Resolve
<1> QED BY <1>4, <1>6, ResolveOK

(* At "fetch" the cache has no entry yet, and there is a result to enrich. *)
LEMMA AtFetch ==
  ASSUME RefIInv, NEW s \in Searches, SearchAt(s, "fetch")
  PROVE  /\ srch[s].n < Len(srch[s].hits) /\ Hit(s).doc \in Docs
         /\ srch[s].cache[Hit(s).doc] = "absent"
         /\ srch[s] \in SearchRecords /\ SearchOK(srch[s]) /\ srch \in [Searches -> SearchRecords]
         /\ srch[s].looked \in [Docs -> Nat] /\ \A d \in Docs : srch[s].looked[d] <= 1
<1>1. SearchOK(srch[s])
  BY RefIInvBySearch
<1>2. /\ srch[s].n < Len(srch[s].hits) /\ Hit(s).doc # NoSource
      /\ srch[s].cache[Hit(s).doc] = "absent" /\ \A d \in Docs : srch[s].looked[d] <= 1
  BY <1>1 DEF SearchOK, LookUpsFillCache, SearchAt, Hit
<1> QED BY <1>1, <1>2, AtHit, RefIInvBySearch DEF SearchAt

LEMMA ResolvePages ==
  ASSUME RefIInv, NEW s \in Searches, FetchPages(s)
  PROVE  RefIInv'
<1> USE DEF FetchPages
<1> DEFINE x == srch[s]
<1>1. /\ x \in SearchRecords /\ x.n < Len(x.hits) /\ Hit(s).doc \in Docs
      /\ x.cache[Hit(s).doc] = "absent" /\ x.looked \in [Docs -> Nat]
      /\ \A d \in Docs : x.looked[d] <= 1
  BY AtFetch
<1>2. Resolving(s, "pages", x.looked, x.excused)
  BY <1>1, NoSourceAssumption DEF Resolving, SearchRecords, SearchAt
<1>3. Resolved(x, "pages") = NextSearch(x, "pages", x.looked, x.excused)
  BY <1>1, ResolvedFields
<1>4. srch' = [srch EXCEPT ![s] = NextSearch(x, "pages", x.looked, x.excused)]
  BY <1>3 DEF Resolve
<1> QED BY <1>2, <1>4, ResolveOK

LEMMA ResolveWithoutPages ==
  ASSUME RefIInv, NEW s \in Searches, FetchFails(s)
  PROVE  RefIInv'
<1> USE DEF FetchFails
<1> DEFINE x == srch[s]
           excused == x.excused \/ HasPages(Hit(s).doc)
<1>1. /\ x \in SearchRecords /\ x.n < Len(x.hits) /\ Hit(s).doc \in Docs
      /\ x.cache[Hit(s).doc] = "absent" /\ x.looked \in [Docs -> Nat]
      /\ \A d \in Docs : x.looked[d] <= 1
  BY AtFetch
<1>2. ~excused => object[Hit(s).doc] = "deleted" \/ Hit(s).doc \notin Extractable
  <2>1. x.hits \in Seq(Hits) /\ x.n + 1 \in 1..Len(x.hits)
    BY <1>1, NoSourceAssumption, AtHit DEF SearchAt
  <2>2. HitsExist(x) /\ x.n + 1 \in DOMAIN x.hits
    BY <2>1, LenProperties DEF RefIInv
  <2>3. object[Hit(s).doc] # "none"
    BY <1>1, <2>2, NoSourceAssumption DEF HitsExist, Hit
  <2> QED BY <1>1, <2>3 DEF HasPages, StorageGet, RefIInv, TypeOK, DocTypeOK
<1>3. Resolving(s, "noPages", x.looked, excused)
  BY <1>1, <1>2, NoSourceAssumption DEF Resolving, SearchRecords, SearchAt
<1>4. [Resolved(x, "noPages") EXCEPT !.excused = @ \/ HasPages(Hit(s).doc)]
        = NextSearch(x, "noPages", x.looked, excused)
  <2>1. Resolved(x, "noPages") = NextSearch(x, "noPages", x.looked, x.excused)
    BY <1>1, ResolvedFields
  <2> QED BY <2>1 DEF NextSearch
<1>5. srch' = [srch EXCEPT ![s] = NextSearch(x, "noPages", x.looked, excused)]
  BY <1>4
<1> QED BY <1>3, <1>5, ResolveOK

(* A document that has no entry yet was not looked up before.              *)
LEMMA AtLookUp ==
  ASSUME RefIInv, NEW s \in Searches, Enriching(s), Hit(s).doc # NoSource,
         srch[s].cache[Hit(s).doc] = "absent"
  PROVE  /\ srch[s] \in SearchRecords /\ SearchOK(srch[s]) /\ srch \in [Searches -> SearchRecords]
         /\ srch[s].pc = "enrich" /\ srch[s].n < Len(srch[s].hits) /\ Hit(s).doc \in Docs
         /\ srch[s].looked \in [Docs -> Nat] /\ srch[s].looked[Hit(s).doc] = 0
         /\ \A d \in Docs : srch[s].looked[d] <= 1
<1>1. /\ srch[s].pc = "enrich" /\ srch[s].n < Len(srch[s].hits)
      /\ SearchOK(srch[s]) /\ srch[s] \in SearchRecords /\ Hit(s).doc \in Docs
      /\ srch[s].looked \in [Docs -> Nat]
  BY AtHit DEF Enriching, SearchAt
<1>2. \A d \in Docs : /\ srch[s].looked[d] <= 1
                      /\ srch[s].cache[d] = "absent" => srch[s].looked[d] # 1
  BY <1>1 DEF SearchOK, LookUpsFillCache
<1>3. srch[s].looked[Hit(s).doc] = 0
  BY <1>1, <1>2
<1> QED BY <1>1, <1>2, <1>3, RefIInvBySearch

LEMMA CountedFields ==
  ASSUME NEW x \in SearchRecords, NEW d \in Docs, x.hits[x.n + 1].doc = d, x.looked[d] = 0
  PROVE  Counted(x) = [pc |-> x.pc, hits |-> x.hits, n |-> x.n, cache |-> x.cache,
                       looked |-> [x.looked EXCEPT ![d] = 1], excused |-> x.excused]
<1> DEFINE looked == [x.looked EXCEPT ![d] = 1]
<1>1. Counted(x) = [x EXCEPT !.looked = looked]
  BY DEF Counted
<1> HIDE DEF looked
<1>2. Counted(x) = [pc |-> x.pc, hits |-> x.hits, n |-> x.n, cache |-> x.cache,
                    looked |-> looked, excused |-> x.excused]
  BY <1>1, SearchFields
<1> QED BY <1>2 DEF looked

LEMMA LookUpOK ==
  ASSUME RefIInv, NEW s \in Searches, LookUp(s)
  PROVE  RefIInv'
<1> USE DEF LookUp
<1> DEFINE x == srch[s]
           y == [Counted(srch[s]) EXCEPT !.pc = "fetch"]
<1>1. /\ x \in SearchRecords /\ SearchOK(x) /\ x.pc = "enrich" /\ x.n < Len(x.hits)
      /\ Hit(s).doc \in Docs /\ x.looked \in [Docs -> Nat] /\ x.looked[Hit(s).doc] = 0
      /\ \A d \in Docs : x.looked[d] <= 1
  BY AtLookUp
<1> DEFINE looked == [x.looked EXCEPT ![Hit(s).doc] = 1]
<1>2. Counted(x) = [pc |-> x.pc, hits |-> x.hits, n |-> x.n, cache |-> x.cache,
                    looked |-> looked, excused |-> x.excused]
  BY <1>1, CountedFields DEF Hit
<1>3. looked \in [Docs -> Nat] /\ looked[Hit(s).doc] = 1
      /\ \A d \in Docs : d # Hit(s).doc => looked[d] = x.looked[d]
  BY <1>1
<1> HIDE DEF looked
<1>8. y = [pc |-> "fetch", hits |-> x.hits, n |-> x.n, cache |-> x.cache,
           looked |-> looked, excused |-> x.excused]
  BY <1>2
<1>9. y \in SearchRecords
  BY <1>1, <1>3, <1>8 DEF SearchRecords
<1>10. /\ y.pc = "fetch" /\ y.n = x.n /\ y.hits = x.hits /\ y.cache = x.cache
       /\ y.excused = x.excused /\ y.looked = looked
  BY <1>8
<1> HIDE DEF y
<1>4. FollowsCache(y) /\ y.n <= Len(y.hits)
  BY <1>1, <1>10 DEF SearchOK, FollowsCache
<1>11. EntriesStayTrue(y) /\ HitsExist(y)
  BY <1>1, <1>10 DEF SearchOK, EntriesStayTrue, HitsExist
<1>5. LookUpsFillCache(y)
  <2>1. LookUpsFillCache(x)
    BY <1>1 DEF SearchOK
  <2>2. /\ y.n < Len(y.hits) /\ y.hits[y.n + 1].doc = Hit(s).doc
        /\ Hit(s).doc # NoSource /\ y.cache[Hit(s).doc] = "absent"
    BY <1>1, <1>10 DEF Hit
  <2>4. \A d \in Docs : ~(x.cache[d] = "absent" /\ x.looked[d] = 1)
    BY <1>1, <2>1 DEF LookUpsFillCache
  <2>3. ASSUME NEW d \in Docs
        PROVE  y.looked[d] <= 1 /\ (y.cache[d] = "absent" /\ y.looked[d] = 1 => d = Hit(s).doc)
    <3>1. CASE d = Hit(s).doc
      BY <1>3, <1>10, <3>1
    <3>2. CASE d # Hit(s).doc
      <4>1. y.looked[d] = x.looked[d] /\ y.cache[d] = x.cache[d]
        BY <1>3, <1>10, <3>2
      <4> QED BY <1>1, <2>4, <4>1
    <3> QED BY <3>1, <3>2
  <2> QED BY <1>10, <2>2, <2>3 DEF LookUpsFillCache
<1>6. SearchOK(y)
  BY <1>4, <1>5, <1>9, <1>11 DEF SearchOK
<1>7. srch' = [srch EXCEPT ![s] = y]
  BY DEF y
<1> QED BY <1>6, <1>7, OneSearch

LEMMA LookUpFailsOK ==
  ASSUME RefIInv, NEW s \in Searches, LookUpFails(s)
  PROVE  RefIInv'
<1> USE DEF LookUpFails
<1> DEFINE x == srch[s]
           excused == x.excused \/ DocumentGetByID(Hit(s).doc)
           looked == [x.looked EXCEPT ![Hit(s).doc] = 1]
<1>1. /\ x \in SearchRecords /\ SearchOK(x) /\ x.pc = "enrich" /\ x.n < Len(x.hits)
      /\ Hit(s).doc \in Docs /\ x.looked \in [Docs -> Nat] /\ x.looked[Hit(s).doc] = 0
      /\ \A d \in Docs : x.looked[d] <= 1
  BY AtLookUp
<1>2. x.hits \in Seq(Hits) /\ x.n + 1 \in 1..Len(x.hits) /\ x.n \in Nat /\ Hit(s) \in Hits
  BY <1>1, AtHit
<1>3. ~excused => row[Hit(s).doc] = "gone"
  <2>1. HitsExist(x) /\ x.n + 1 \in DOMAIN x.hits
    BY <1>2, LenProperties DEF RefIInv
  <2>2. row[Hit(s).doc] # "unborn"
    BY <2>1 DEF HitsExist, Hit
  <2> QED BY <1>1, <2>2 DEF DocumentGetByID, RefIInv, TypeOK, DocTypeOK
<1>4. Enriched(Hit(s), "unknown") = Hit(s)
  <2>1. FollowsCache(x) /\ x.n + 1 \in DOMAIN x.hits
    BY <1>2, LenProperties DEF RefIInv
  <2>2. Hit(s).ref = "none"
    BY <1>2, <2>1 DEF FollowsCache, Hit
  <2> QED BY <1>2, <2>2 DEF Enriched, Hits
<1>5. [x.hits EXCEPT ![x.n + 1] = Enriched(x.hits[x.n + 1], "unknown")] = x.hits
  BY <1>2, <1>4, LenProperties DEF Hit
<1> DEFINE cache == [x.cache EXCEPT ![Hit(s).doc] = "unknown"]
           z == [Counted(x) EXCEPT !.n = x.n + 1, !.cache = cache, !.excused = excused]
<1>6. Counted(x) = [pc |-> x.pc, hits |-> x.hits, n |-> x.n, cache |-> x.cache,
                    looked |-> looked, excused |-> x.excused]
  BY <1>1, CountedFields DEF Hit
<1>7. looked \in [Docs -> Nat] /\ cache \in [Docs -> Entries] /\ excused \in BOOLEAN
  BY <1>1 DEF SearchRecords, Entries, DocumentGetByID
<1>8. /\ x.excused => excused
      /\ \A e \in Docs : looked[e] <= 1 /\ (e # Hit(s).doc => looked[e] = x.looked[e])
  BY <1>1
<1>9. srch' = [srch EXCEPT ![s] = z]
  BY Zenon DEF LookUpFails
<1>10. ASSUME NEW y, y = z PROVE SearchOK(y)
  <2> HIDE DEF cache, looked, excused
  <2>1. /\ y.pc = x.pc /\ y.n = x.n + 1 /\ y.hits = x.hits /\ y.cache = cache
        /\ y.looked = looked /\ y.excused = excused
    BY <1>6, <1>10
  <2>2. y \in SearchRecords
    <3>1. Counted(x) \in SearchRecords
      BY <1>1, <1>6, <1>7 DEF SearchRecords
    <3>2. x.n + 1 \in Nat
      BY <1>2
    <3> QED BY <1>7, <1>10, <3>1, <3>2 DEF SearchRecords
  <2>3. NextHit(x, Hit(s).doc, "unknown", y)
    BY <1>1, <1>3, <1>5, <1>8, <2>1, <2>2 DEF NextHit, Hit, cache
  <2> QED BY <2>3, NextHitOK
<1> QED BY <1>9, <1>10, OneSearch

(* A result without a document has no reference, before and after.         *)
LEMMA SkipHitOK ==
  ASSUME RefIInv, NEW s \in Searches, SkipHit(s)
  PROVE  RefIInv'
<1> USE DEF SkipHit, Enriching, SearchAt
<1> DEFINE x == srch[s]
<1>1. /\ SearchOK(x) /\ x \in SearchRecords /\ x.hits \in Seq(Hits) /\ x.n + 1 \in 1..Len(x.hits)
      /\ x.n \in Nat /\ DOMAIN x.hits = 1..Len(x.hits) /\ srch \in [Searches -> SearchRecords]
  BY AtHit, LenProperties, RefIInvBySearch
<1>2. ASSUME NEW y, y = [x EXCEPT !.n = @ + 1] PROVE SearchOK(y)
  <2>1. /\ y \in SearchRecords /\ y.pc = "enrich" /\ y.n = x.n + 1 /\ y.hits = x.hits
        /\ y.cache = x.cache /\ y.looked = x.looked /\ y.excused = x.excused
    <3>1. x.n + 1 \in Nat /\ x.pc = "enrich"
      BY <1>1
    <3>2. y \in SearchRecords
      BY <1>1, <1>2, <3>1 DEF SearchRecords
    <3>3. /\ y.n = x.n + 1 /\ y.hits = x.hits /\ y.pc = x.pc
          /\ y.cache = x.cache /\ y.looked = x.looked /\ y.excused = x.excused
      BY <1>1, <1>2 DEF SearchRecords
    <3> QED BY <3>1, <3>2, <3>3
  <2>2. \A i \in DOMAIN x.hits : i > y.n => i > x.n
    BY <1>1, <2>1
  <2>3. \A i \in DOMAIN x.hits : i > x.n /\ ~(i > y.n) => x.hits[i].doc = NoSource
    <3>1. \A i \in DOMAIN x.hits : i > x.n /\ ~(i > y.n) => i = x.n + 1
      BY <1>1, <2>1
    <3> QED BY <3>1 DEF Hit
  <2>4. FollowsCache(y)
    BY <1>1, <2>1, <2>2, <2>3 DEF SearchOK, FollowsCache
  <2>5. LookUpsFillCache(y) /\ EntriesStayTrue(y) /\ HitsExist(y) /\ y.n <= Len(y.hits)
    BY <1>1, <2>1 DEF SearchOK, LookUpsFillCache, EntriesStayTrue, HitsExist
  <2> QED BY <2>1, <2>4, <2>5 DEF SearchOK
<1>3. srch' = [srch EXCEPT ![s] = [x EXCEPT !.n = @ + 1]]
  BY <1>1
<1> QED BY <1>2, <1>3, OneSearch

LEMMA AnswerOK ==
  ASSUME RefIInv, NEW s \in Searches, Answer(s)
  PROVE  RefIInv'
<1> USE DEF Answer, SearchAt
<1> DEFINE x == srch[s]
<1>1. SearchOK(x) /\ x \in SearchRecords /\ srch \in [Searches -> SearchRecords]
  BY RefIInvBySearch DEF SearchOK
<1>2. ASSUME NEW y, y = [x EXCEPT !.pc = "answered"] PROVE SearchOK(y)
  <2>1. /\ y \in SearchRecords /\ y.pc = "answered" /\ y.n = x.n /\ y.hits = x.hits
        /\ y.cache = x.cache /\ y.looked = x.looked /\ y.excused = x.excused
    BY <1>1, <1>2 DEF SearchRecords
  <2>2. FollowsCache(y) /\ y.n <= Len(y.hits)
    BY <1>1, <2>1 DEF SearchOK, FollowsCache
  <2>3. EntriesStayTrue(y) /\ HitsExist(y)
    BY <1>1, <2>1 DEF SearchOK, EntriesStayTrue, HitsExist
  <2>4. LookUpsFillCache(y)
    BY <1>1, <2>1 DEF SearchOK, LookUpsFillCache
  <2> QED BY <2>1, <2>2, <2>3, <2>4 DEF SearchOK
<1>3. srch' = [srch EXCEPT ![s] = [x EXCEPT !.pc = "answered"]]
  BY <1>1
<1> QED BY <1>2, <1>3, OneSearch

LEMMA SearchStepOK ==
  ASSUME DocIInv, RefIInv, NEW s \in Searches, SearchStep(s)
  PROVE  RefIInv'
<1>1. ASSUME NEW topK \in 0..1, NEW found \in Found, NEW withReferences \in BOOLEAN,
             Recall(s, topK, found, withReferences)
      PROVE  RefIInv'
  <2> DEFINE kept == IF Len(found) > Limit(topK) THEN SubSeq(found, 1, Limit(topK)) ELSE found
             pc == IF withReferences THEN "enrich" ELSE "answered"
             y == [pc |-> pc, hits |-> kept, n |-> 0, cache |-> [d \in Docs |-> "absent"],
                   looked |-> [d \in Docs |-> 0], excused |-> FALSE]
  <2>1. SearchOK(y)
    BY RecallOK
  <2>2. ASSUME NEW z, z = [IdleSearch EXCEPT !.pc = pc, !.hits = kept] PROVE z = y
    <3> HIDE DEF pc, kept
    <3> QED BY <2>2 DEF IdleSearch
  <2>3. srch' = [srch EXCEPT ![s] = y] /\ UNCHANGED docVars
    BY <1>1, <2>2 DEF Recall
  <2> QED BY <2>1, <2>3, OneSearch
<1>2. CASE Forget(s)
  BY <1>2, IdleSearchOK, OneSearch DEF Forget
<1> QED
  BY <1>1, <1>2, SkipHitOK, ResolveFromCache, LookUpOK, LookUpFailsOK, ResolvePages,
     ResolveWithoutPages, AnswerOK DEF SearchStep

(***************************************************************************)
(* The invariant: steps of the documents' handlers by StoresMoveOn, steps  *)
(* of a search by SearchStepOK; what it needs of the stores DocInvariance  *)
(* has, because to them a search is a stutter.                             *)
(***************************************************************************)
THEOREM RefInvariance == Spec => []RefIInv
<1>1. Init => RefIInv
  <2> SUFFICES ASSUME Init PROVE RefIInv
    OBVIOUS
  <2>1. DocTypeOK
    BY DocInitIInv DEF Init, DocIInv
  <2>2. srch \in [Searches -> SearchRecords] /\ \A s \in Searches : SearchOK(srch[s])
    BY IdleSearchOK DEF Init, SearchOK
  <2> QED BY <2>1, <2>2, RefIInvBySearch
<1>2. DocIInv /\ RefIInv /\ DocIInv' /\ [Next]_refVars => RefIInv'
  <2> SUFFICES ASSUME DocIInv, RefIInv, DocIInv', [Next]_refVars PROVE RefIInv'
    OBVIOUS
  <2>1. CASE \E s \in Searches : SearchStep(s)
    BY <2>1, SearchStepOK
  <2>2. ASSUME [DocNext]_docVars,
               srch' = srch \/ srch' = [s \in Searches |-> IdleSearch]
        PROVE  RefIInv'
    <3>1. srch \in [Searches -> SearchRecords] /\ \A s \in Searches : SearchOK(srch[s])
      BY RefIInvBySearch
    <3>2. \A s \in Searches : srch'[s] = srch[s] \/ srch'[s] = IdleSearch
      BY <2>2
    <3>3. ASSUME NEW s \in Searches, NEW x, x = srch'[s] PROVE SearchOK(x)'
      <4>1. SearchOK(x)
        BY <3>1, <3>2, <3>3, IdleSearchOK
      <4> QED BY <2>2, <4>1, StoresMoveOn
    <3>4. ASSUME NEW s \in Searches PROVE SearchOK(srch[s])'
      <4>1. PICK x : x = srch'[s]
        OBVIOUS
      <4>2. SearchOK(x)'
        BY <3>3, <4>1
      <4>3. (x \in SearchRecords /\ x.n <= Len(x.hits))' /\ FollowsCache(x)' /\ LookUpsFillCache(x)'
            /\ EntriesStayTrue(x)' /\ HitsExist(x)'
        BY <4>2 DEF SearchOK
      <4>4. (srch[s] \in SearchRecords /\ srch[s].n <= Len(srch[s].hits))'
        BY <4>1, <4>3
      <4>5. FollowsCache(srch[s])' /\ HitsExist(srch[s])'
        BY <4>1, <4>3 DEF FollowsCache, HitsExist
      <4>6. LookUpsFillCache(srch[s])' /\ EntriesStayTrue(srch[s])'
        BY <4>1, <4>3 DEF LookUpsFillCache, EntriesStayTrue
      <4> QED BY <4>4, <4>5, <4>6 DEF SearchOK
    <3>5. srch' \in [Searches -> SearchRecords]
      BY <2>2, <3>1, IdleSearchOK DEF SearchOK
    <3>6. DocTypeOK'
      BY DEF DocIInv
    <3> QED BY <3>4, <3>5, <3>6 DEF RefIInv, TypeOK, SearchTypeOK, SearchOK
  <2> QED BY <2>1, <2>2 DEF Next, DocNext, docVars, refVars
<1>3. Spec => []DocIInv
  BY SearchesKeepDocumentStore, DocInvariance, PTL
<1> QED BY <1>1, <1>2, <1>3, PTL DEF Spec

(* Results of one answer that name the same document have been given the   *)
(* same reference.                                                         *)
THEOREM OneReferencePerDocument == Spec => []SameDocumentSameReference
<1>1. RefIInv => SameDocumentSameReference
  <2> SUFFICES ASSUME RefIInv, NEW s \in Searches, SearchAt(s, "answered"),
                      NEW i \in HitsOf(s), NEW j \in HitsOf(s),
                      srch[s].hits[i].doc = srch[s].hits[j].doc
               PROVE  LET a == srch[s].hits[i]
                          b == srch[s].hits[j]
                      IN /\ a.ref = "none" <=> b.ref = "none"
                         /\ a.chunk = b.chunk => a.ref = b.ref
    BY DEF SameDocumentSameReference
  <2> DEFINE x == srch[s]
             d == x.hits[i].doc
  <2>1. SearchOK(x) /\ x.pc = "answered"
    BY RefIInvBySearch DEF SearchAt
  <2>2. /\ x.hits \in Seq(Hits) /\ x.n \in Nat /\ x.cache \in [Docs -> Entries]
        /\ x.n \in {0, Len(x.hits)}
    BY <2>1 DEF SearchOK, SearchRecords, LookUpsFillCache
  <2>3. i \in 1..Len(x.hits) /\ j \in 1..Len(x.hits) /\ Len(x.hits) \in Nat
    BY <2>2, LenProperties DEF HitsOf
  <2>4. i > x.n <=> j > x.n
    BY <2>2, <2>3
  <2>5. \A k \in {i, j} :
          IF d = NoSource \/ k > x.n THEN x.hits[k].ref = "none"
          ELSE x.cache[d] # "absent" /\ x.hits[k].ref = Enriched(x.hits[k], x.cache[d]).ref
    BY <2>1 DEF SearchOK, FollowsCache, HitsOf
  <2>6. \A k \in {i, j} : x.hits[k] \in Hits
    BY <2>2, <2>3, ElementOfSeq
  <2>7. \A h \in Hits : \A entry :
          Enriched(h, entry).ref = IF entry = "unknown" THEN "none"
                                   ELSE IF entry = "pages" /\ h.chunk THEN "page" ELSE "link"
    BY DEF Enriched, Hits
  <2> QED BY <2>4, <2>5, <2>6, <2>7
<1> QED BY <1>1, RefInvariance, PTL

(* "At most once per search", for documents that are not found as well.    *)
THEOREM OneLookUpPerDocument == Spec => []LookedUpOnce
<1>1. RefIInv => LookedUpOnce
  BY DEF RefIInv, LookUpsFillCache, LookedUpOnce
<1> QED BY <1>1, RefInvariance, PTL

(* A reference that is missing, or has no page, is the deletion's doing.   *)
THEOREM ReferencesDegradeForAReason == Spec => []MissingOnlyIfDeleted
<1>1. RefIInv => MissingOnlyIfDeleted
  <2> SUFFICES ASSUME RefIInv, NEW s \in Searches, ~srch[s].excused,
                      NEW i \in 1..srch[s].n, srch[s].hits[i].doc # NoSource
               PROVE  LET h == srch[s].hits[i]
                      IN /\ h.ref = "none" => row[h.doc] = "gone"
                         /\ h.ref = "link" /\ h.chunk =>
                              object[h.doc] = "deleted" \/ h.doc \notin Extractable
    BY DEF MissingOnlyIfDeleted
  <2> DEFINE x == srch[s]
             h == x.hits[i]
  <2>1. SearchOK(x)
    BY RefIInvBySearch
  <2>2. /\ x.hits \in Seq(Hits) /\ x.n \in Nat /\ x.n <= Len(x.hits)
        /\ x.cache \in [Docs -> Entries]
    BY <2>1 DEF SearchOK, SearchRecords
  <2>3. i \in 1..Len(x.hits) /\ i \in DOMAIN x.hits /\ ~(i > x.n)
    BY <2>2, LenProperties
  <2>4. h \in Hits
    BY <2>2, <2>3, ElementOfSeq
  <2>5. h.doc \in Docs /\ x.cache[h.doc] # "absent" /\ x.cache[h.doc] \in Entries
        /\ h.ref = Enriched(h, x.cache[h.doc]).ref
    BY <2>1, <2>2, <2>3, <2>4 DEF SearchOK, FollowsCache, Hits
  <2>6. /\ h.ref = "none" => x.cache[h.doc] = "unknown"
        /\ h.ref = "link" /\ h.chunk => x.cache[h.doc] = "noPages"
    BY <2>4, <2>5 DEF Enriched, Hits, Entries
  <2> QED BY <2>1, <2>5, <2>6 DEF SearchOK, EntriesStayTrue
<1> QED BY <1>1, RefInvariance, PTL
=============================================================================
