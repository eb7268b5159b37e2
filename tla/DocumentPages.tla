--------------------------- MODULE DocumentPages ---------------------------
(***************************************************************************)
(* From the pages of a document to the page a search result cites: what a  *)
(* build sends to the indexer (Vision.Convert when OCR is on), the chunk   *)
(* of it that Hindsight returns for a query, and the page on which         *)
(* addReferences finds that chunk.                                         *)
(*                                                                         *)
(* A text is a sequence of words, mark-up and form feeds.  Case and white  *)
(* space, which normalizeForMatch takes away, are left out, and its prefix *)
(* of 80 bytes is one of PrefixLen words.  pdftotext, pdftoppm, the vision *)
(* model and Hindsight's reading and chunking are external.  The vision    *)
(* model, asked for Markdown word for word, and Hindsight, which reads     *)
(* what it is sent as Markdown, keep the words of a page and their order   *)
(* and add mark-up anywhere; pdftotext adds none.                          *)
(***************************************************************************)
EXTENDS Naturals, SequencesExt

CONSTANTS
  Words,
  Marks,       \* mark-up, such as the # of a heading or the | of a table
  FF,          \* the form feed
  MaxDocPages, \* bound: pages of a document
  MaxTokens,   \* bound: words and mark-up of a page
  MaxPages,    \* VISION_OCR_MAX_PAGES; 0 is no cap
  PrefixLen,   \* how much of a chunk findPage looks for
  CallsFail    \* whether a tool or the vision model may fail

ASSUME TokensAssumption == Words \cap Marks = {} /\ FF \notin Words \cup Marks
ASSUME BoundsAssumption ==
  /\ MaxDocPages \in Nat \ {0} /\ MaxTokens \in Nat
  /\ MaxPages \in Nat /\ PrefixLen \in Nat \ {0}
ASSUME CallsFailAssumption == CallsFail \in BOOLEAN

VARIABLES
  ocr,    \* whether a converter is wired, which never changes
  doc,    \* the document: format, content type, file name and pages
  pc,     \* where its way to a citation is
  text,   \* what is retained, or has been transcribed of it
  done,   \* how many pages have been transcribed
  chunk,  \* the passage Hindsight returns
  from,   \* the page it was cut from, 0 if it crosses pages
  page    \* SearchResult.Page

vars == <<ocr, doc, pc, text, done, chunk, from, page>>

Tokens == Words \cup Marks

(* A text without its mark-up. *)
Plain(t) == FlattenSeq([i \in DOMAIN t |-> IF t[i] \in Words THEN <<t[i]>> ELSE <<>>])
Unmarked(t) == \A i \in DOMAIN t : t[i] \in Words

(* What the uploader claims (type, ext) need not be what the bytes are.    *)
(* A document is given by the Markdown that is made of its pages.          *)
Documents ==
  LET MarkedPages == BoundedSeq(Tokens, MaxTokens)
      Upload(format, scanned, n) ==
        [format : {format}, scanned : scanned, type : {"pdf", "image", "other"},
         ext : {"pdf", "image", "other"}, markdown : [1..n -> MarkedPages]]
  IN (UNION {Upload("pdf", BOOLEAN, n) : n \in 1..MaxDocPages})
       \cup Upload("image", {TRUE}, 1) \cup Upload("plain", {FALSE}, 1)

(* What stands on its pages. *)
docPages == [i \in DOMAIN doc.markdown |-> Plain(doc.markdown[i])]

TypeOK ==
  /\ ocr \in BOOLEAN
  /\ doc \in Documents
  /\ pc \in {"convert", "ocr", "retained", "failed", "chunked", "cited"}
  /\ text \in Seq(Tokens \cup {FF})
  /\ done \in 0..MaxDocPages
  /\ chunk \in Seq(Tokens)
  /\ from \in 0..MaxDocPages + 1 /\ page \in 0..Len(docPages)

Init ==
  /\ ocr \in BOOLEAN
  /\ doc \in Documents
  /\ pc = "convert"
  /\ text = <<>> /\ done = 0
  /\ chunk = <<>> /\ from = 0 /\ page = 0

-----------------------------------------------------------------------------
(* Texts. *)

(* The pages of the first n characters, for each n: a form feed begins a   *)
(* page, a word goes to the last one.                                      *)
Splitting(t) ==
  LET pages[n \in 0..Len(t)] ==
        IF n = 0 THEN << <<>> >>
        ELSE LET before == pages[n - 1]
             IN  IF t[n] = FF THEN Append(before, <<>>)
                 ELSE [before EXCEPT ![Len(before)] = Append(@, t[n])]
  IN pages

SplitPages(t) == Splitting(t)[Len(t)]

(* What is white space to strings.Fields goes, form feeds included. *)
normalizeForMatch(t) == FlattenSeq(SplitPages(t))

(* pdftotext ends each page with a form feed. *)
PagesWithBreaks(pages) == FlattenSeq([i \in DOMAIN pages |-> Append(pages[i], FF)])

Runs(s) == {SubSeq(s, i, j) : i \in 1..Len(s), j \in 1..Len(s)} \ {<<>>}
Within(run, s) ==
  \E i \in 0..Len(s) : i + Len(run) <= Len(s) /\ SubSeq(s, i + 1, i + Len(run)) = run
Prefix(s) == IF Len(s) > PrefixLen THEN SubSeq(s, 1, PrefixLen) ELSE s

-----------------------------------------------------------------------------
(* Vision.Convert. *)

documentKind ==
  IF doc.type = "pdf" \/ doc.ext = "pdf" THEN "pdf"
  ELSE IF doc.type = "image" \/ doc.ext = "image" THEN "image" ELSE "unsupported"

(* rasterizePDF: the first pages, up to the cap. *)
Rasterized ==
  IF documentKind = "image" \/ (0 < MaxPages /\ MaxPages < Len(docPages))
  THEN SubSeq(docPages, 1, IF documentKind = "image" THEN 1 ELSE MaxPages)
  ELSE docPages

(* The Markdown of a page; of what is no image, the vision model reads     *)
(* nothing.                                                                *)
Transcript(i) ==
  IF doc.format = "plain" \/ (doc.format = "pdf" /\ documentKind = "image")
  THEN <<>> ELSE doc.markdown[i]

(* No converter, or a type it skips: the bytes go as they are, and what    *)
(* Hindsight reads of them is the text of a document that has one.         *)
RetainRaw ==
  /\ pc = "convert"
  /\ ~ocr \/ documentKind = "unsupported"
  /\ text' = IF doc.scanned THEN <<>> ELSE PagesWithBreaks(doc.markdown)
  /\ pc' = "retained"
  /\ UNCHANGED <<ocr, doc, done, chunk, from, page>>

(* pdfinfo and pdftoppm, which fail on what is no PDF. *)
Rasterize ==
  /\ pc = "convert"
  /\ ocr /\ documentKind # "unsupported"
  /\ pc' = IF documentKind = "pdf" /\ doc.format # "pdf" THEN "failed" ELSE "ocr"
  /\ UNCHANGED <<ocr, doc, text, done, chunk, from, page>>

OcrPage ==
  /\ pc = "ocr" /\ done < Len(Rasterized)
  /\ text' = (IF done > 0 THEN Append(text, FF) ELSE text) \o Transcript(done + 1)
  /\ done' = done + 1
  /\ UNCHANGED <<ocr, doc, pc, chunk, from, page>>

Converted ==
  /\ pc = "ocr" /\ done = Len(Rasterized)
  /\ pc' = IF normalizeForMatch(text) = <<>> THEN "failed" ELSE "retained"
  /\ UNCHANGED <<ocr, doc, text, done, chunk, from, page>>

(* A mutant: a page that cannot be transcribed is skipped. *)
ConvertSkips ==
  /\ CallsFail
  /\ pc = "ocr" /\ done < Len(Rasterized)
  /\ done' = done + 1
  /\ UNCHANGED <<ocr, doc, pc, text, chunk, from, page>>

(* A tool or the vision model fails on any page: so does the conversion. *)
ConvertFails ==
  /\ CallsFail
  /\ pc = "ocr" /\ done < Len(Rasterized)
  /\ pc' = "failed"
  /\ UNCHANGED <<ocr, doc, text, done, chunk, from, page>>

(* Hindsight answers a query with a passage of what was retained. *)
Recall ==
  /\ pc = "retained"
  /\ \/ \E p \in DOMAIN SplitPages(text) :
          chunk' \in Runs(SplitPages(text)[p]) /\ from' = p
     \/ chunk' \in Runs(normalizeForMatch(text)) /\ from' = 0
  /\ pc' = "chunked"
  /\ UNCHANGED <<ocr, doc, text, done, page>>

-----------------------------------------------------------------------------
(* addReferences. *)

isPDF == doc.type = "pdf" \/ doc.format = "pdf"

(* A scan has no text. *)
PdfToText ==
  PagesWithBreaks([i \in DOMAIN docPages |-> IF doc.scanned THEN <<>> ELSE docPages[i]])

(* A mutant: every blank page is dropped. *)
ExtractNonBlankPages ==
  IF isPDF THEN SelectSeq(SplitPages(PdfToText), LAMBDA p : p # <<>>)
  ELSE <<IF doc.format = "plain" THEN docPages[1] ELSE <<>> >>

(* The trailing blank page is dropped; nil when pdftotext fails. *)
ExtractPages ==
  IF ~isPDF THEN <<IF doc.format = "plain" THEN docPages[1] ELSE <<>> >>
  ELSE IF doc.format # "pdf" THEN <<>>
  ELSE LET pages == SplitPages(PdfToText)
       IN IF Last(pages) = <<>> THEN Front(pages) ELSE pages

(* A mutant: the number of the page after the one that was found. *)
findPageAfter(pages, needle) ==
  LET hits == {i \in DOMAIN pages : Within(needle, normalizeForMatch(pages[i]))}
  IN IF needle = <<>> \/ hits = {} THEN 0
     ELSE (CHOOSE i \in hits : \A j \in hits : i <= j) + 1

(* A mutant: the index of the page, counted from 0. *)
findPageFromZero(pages, needle) ==
  LET hits == {i \in DOMAIN pages : Within(needle, normalizeForMatch(pages[i]))}
  IN IF needle = <<>> \/ hits = {} THEN 0
     ELSE (CHOOSE i \in hits : \A j \in hits : i <= j) - 1

(* The first page that holds the needle, or 0. *)
findPage(pages, needle) ==
  LET hits == {i \in DOMAIN pages : Within(needle, normalizeForMatch(pages[i]))}
  IN IF needle = <<>> \/ hits = {} THEN 0 ELSE CHOOSE i \in hits : \A j \in hits : i <= j

addReferences ==
  /\ pc = "chunked"
  /\ page' = findPage(ExtractPages, Prefix(chunk))
  /\ pc' = "cited"
  /\ UNCHANGED <<ocr, doc, text, done, chunk, from>>

Next ==
  \/ RetainRaw \/ Rasterize \/ OcrPage \/ Converted \/ ConvertFails
  \/ Recall \/ addReferences

Spec == Init /\ [][Next]_vars

-----------------------------------------------------------------------------
(* Properties. *)

(***************************************************************************)
(* A citation never misleads: on the page it names, counted as a reader of *)
(* the document counts, the beginning of the passage really stands -       *)
(* whatever blank pages, false file types and passages across pages.       *)
(***************************************************************************)
CitedPageShowsChunk ==
  pc = "cited" /\ page # 0 =>
    page \in DOMAIN docPages /\ Within(Prefix(chunk), docPages[page])

(***************************************************************************)
(* "Text PDFs resolve cleanly" (README, Notes), as far as they do: a       *)
(* passage from within one page of a PDF with a text layer is given a      *)
(* page, OCR or not, if no mark-up stands in the part of it that findPage  *)
(* looks for: the page that it looks at has none.                          *)
(***************************************************************************)
TextPDFsResolve ==
  /\ pc = "cited" /\ doc.format = "pdf" /\ ~doc.scanned
  /\ from # 0 /\ Unmarked(Prefix(chunk))
  => page # 0

(***************************************************************************)
(* A conversion is whole or fails: what is retained of a document that was *)
(* transcribed has every page up to the cap, in order and each in its      *)
(* place; no failure of a page in the middle leaves a gap or shifts them.  *)
(***************************************************************************)
WholeOrFailed ==
  pc = "retained" /\ done > 0 =>
    SplitPages(text) = [i \in 1..Len(Rasterized) |-> Transcript(i)]

-----------------------------------------------------------------------------
(***************************************************************************)
(* The inductive invariant behind them, along the way of a document: what  *)
(* has been transcribed are the first pages, what is retained is all of it *)
(* or the text that the document has, and a passage is a part of that.     *)
(***************************************************************************)
TranscribedInOrder ==
  /\ pc = "convert" => text = <<>> /\ done = 0
  /\ pc = "ocr" =>
       /\ ocr /\ documentKind # "unsupported"
       /\ documentKind = "pdf" => doc.format = "pdf"
       /\ done <= Len(Rasterized)
       /\ SplitPages(text) =
            IF done = 0 THEN << <<>> >> ELSE [i \in 1..done |-> Transcript(i)]

RetainedWhole ==
  pc \in {"retained", "chunked", "cited"} =>
    \/ /\ done = 0
       /\ text = IF doc.scanned THEN <<>> ELSE PagesWithBreaks(doc.markdown)
    \/ /\ done = Len(Rasterized)
       /\ documentKind = "image" \/ (documentKind = "pdf" /\ doc.format = "pdf")
       /\ SplitPages(text) = [i \in 1..done |-> Transcript(i)]

ChunkIsRetained ==
  pc \in {"chunked", "cited"} =>
    /\ chunk # <<>>
    /\ from # 0 => from \in DOMAIN SplitPages(text) /\ chunk \in Runs(SplitPages(text)[from])

PageIsFound ==
  page = IF pc = "cited" THEN findPage(ExtractPages, Prefix(chunk)) ELSE 0

IInv == TypeOK /\ TranscribedInOrder /\ RetainedWhole /\ ChunkIsRetained /\ PageIsFound
=============================================================================
