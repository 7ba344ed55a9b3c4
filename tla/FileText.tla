------------------------------ MODULE FileText ------------------------------
(***************************************************************************)
(* From an uploaded file to its text, and from its text to the pages the   *)
(* reader shows (infra/rag/files.py, infra/tool_runtime/ocr.py). A PDF is  *)
(* read by a parser; if that finds no text on any page, every page is      *)
(* drawn and shown to a list of recognisers in turn, which may be absent,  *)
(* fail, see nothing or produce noise. Of a page's text its number and its *)
(* length are told apart.                                                  *)
(***************************************************************************)
EXTENDS Integers, SequencesExt, Lists

CONSTANTS N,          \* pages of a PDF, or entries of an archive
          Length,     \* the length of the text of a page
          Recognisers \* those a machine may have, out of Order

Pages == 1 .. N
Archives == {"docx", "xlsx", "pptx", "epub"}
Kinds == Archives \cup {"pdf", "image", "text", "html", "other"}

\* The order of _ocr_engine_candidates.
Order == <<"deepseek-api", "android-mlkit", "formula-command", "tesseract", "windows-ocr">>

None == "none"
NoView == [page |-> 0, text |-> <<>>]

VARIABLES
  kind, content,   \* of the file: what it is, and what each page or entry is
  enabled, engines,\* recognition is on, and the recognisers of this machine
  stage, at,       \* what is being read: see TypeOK; the page or entry
  turn,            \* the parser or the recogniser whose turn it is
  best,            \* the recogniser whose reading of this page is kept
  sawEmpty,        \* one of them answered, with nothing
  out,             \* the text: the pages that were read, in order
  pageTexts,       \* what is stored of each page: a sequence of page numbers
  verdict,         \* why the file was refused
  view,            \* the page the reader shows, and what it shows there
  read             \* history: which page was read by whom

file == <<kind, content, enabled, engines>>
vars == <<file, stage, at, turn, best, sawEmpty, out, pageTexts, verdict, view, read>>

Refusals == {"empty", "unsupported", "too large", "broken", "no parser", "ocr required",
             "ocr empty", "ocr unavailable"}

TypeOK ==
  /\ kind \in Kinds
  /\ content \in [Pages -> {"text", "scan", "blank", "broken"}] /\ enabled \in BOOLEAN
  /\ ToSet(engines) \subseteq Recognisers
  /\ stage \in {"new", "archive", "parsing", "drawing", "pages", "whole", "done"}
  /\ at \in 1 .. N + 1 /\ turn \in 1 .. Len(Order) + 1
  /\ best \in Recognisers \cup {None} /\ sawEmpty \in BOOLEAN
  /\ ToSet(out) \subseteq [page : Pages, by : Recognisers \cup {"parser"}]
  /\ ToSet(pageTexts) \subseteq Seq(Pages) /\ verdict \in Refusals \cup {""}
  /\ view \in [page : 0 .. N, text : Seq(Pages)] /\ read \subseteq Pages \X Recognisers

\* Inside the APK its own recogniser ends the list; elsewhere it is not there.
Candidates(present) ==
  LET wanted == IF "android-mlkit" \in present
                THEN present \cap {"deepseek-api", "android-mlkit"} ELSE present
  IN  Among(Order, wanted)

Init ==
  /\ kind \in Kinds
  /\ content \in IF kind = "pdf" THEN [Pages -> {"text", "scan", "blank"}]
                 ELSE IF kind \in Archives THEN [Pages -> {"text", "blank", "broken"}]
                 ELSE {[p \in Pages |-> c] : c \in {"text", "blank"}}
  /\ enabled \in BOOLEAN
  /\ \E present \in SUBSET Recognisers : engines = Candidates(present)
  /\ stage = "new" /\ at = 1 /\ turn = 1 /\ best = None /\ sawEmpty = FALSE
  /\ out = <<>> /\ pageTexts = <<>> /\ verdict = "" /\ view = NoView /\ read = {}
-----------------------------------------------------------------------------
Refuse(why) ==
  /\ stage' = "done" /\ verdict' = why
  /\ UNCHANGED <<file, at, turn, best, sawEmpty, out, pageTexts, view, read>>

\* The text of a page: its number as often as it is long; and of a whole.
TextOf(p)   == [k \in 1 .. Length[p] |-> p]
Flat(pages) == FlattenSeq([i \in DOMAIN pages |-> TextOf(pages[i].page)])

\* Mutant of Split: the last part is as long as the others.
SplitEvenly(whole, count) ==
  LET part == Len(whole) \div count
  IN  [p \in 1 .. count |-> SubSeq(whole, (p - 1) * part + 1, p * part)]

\* fallback_page_texts_from_text: equal parts, the last one takes the rest.
Split(whole, count) ==
  LET part == IF Len(whole) \div count = 0 THEN 1 ELSE Len(whole) \div count
      upTo(p) == IF p = count \/ p * part > Len(whole) THEN Len(whole) ELSE p * part
  IN  [p \in 1 .. count |-> SubSeq(whole, (p - 1) * part + 1, upTo(p))]

\* page_texts_for_cache: the pages the parser read, or equal parts of the text.
PagesOf(pages) ==
  IF \E i \in DOMAIN pages : pages[i].by = "parser"
  THEN [p \in Pages |-> IF \E i \in DOMAIN pages : pages[i].page = p THEN TextOf(p) ELSE <<>>]
  ELSE Split(Flat(pages), N)

Store(pages) ==
  IF Flat(pages) = <<>> THEN Refuse("empty")
  ELSE /\ stage' = "done" /\ out' = pages
       /\ pageTexts' = IF kind = "pdf" THEN PagesOf(pages)
                       ELSE IF kind = "image" THEN <<Flat(pages)>> ELSE <<>>
       /\ UNCHANGED <<file, at, turn, best, sawEmpty, verdict, view, read>>

Begin(next) ==
  /\ stage' = next
  /\ UNCHANGED <<file, at, turn, best, sawEmpty, out, pageTexts, verdict, view, read>>

\* extract_uploaded_file: by the kind of the file.
Accept ==
  /\ stage = "new"
  /\ \/ Refuse("empty")
     \/ kind = "other" /\ Refuse("unsupported")
     \/ kind = "image" /\ IF enabled THEN Begin("whole") ELSE Refuse("ocr required")
     \/ kind = "pdf" /\ Begin("parsing")
     \/ kind \in Archives /\ Begin("archive")

\* Text and HTML, where scripts and styles are no text.
ReadPlain ==
  /\ stage = "new" /\ kind \in {"text", "html"}
  /\ IF content[1] = "text" THEN Store(<<[page |-> 1, by |-> "parser"]>>) ELSE Refuse("empty")

\* validate_zip_size and ZipFile: before the first entry.
Unzip == stage = "archive" /\ at = 1 /\ (Refuse("too large") \/ Refuse("broken"))

\* One entry of an archive: an empty one is left out.
ReadEntry(broken) ==
  /\ stage = "archive"
  /\ IF at > N THEN Store(out)
     ELSE IF broken THEN Refuse("broken")
     ELSE /\ at' = at + 1
          /\ out' = IF content[at] = "text" THEN Append(out, [page |-> at, by |-> "parser"]) ELSE out
          /\ UNCHANGED <<file, stage, turn, best, sawEmpty, pageTexts, verdict, view, read>>

Broken == at <= N /\ content[at] = "broken"

ReadChapter == kind = "epub" /\ ReadEntry(FALSE) \* HTML is never malformed
ReadSlide   == kind = "pptx" /\ ReadEntry(Broken)
ReadPart    == kind = "docx" /\ ReadEntry(Broken)
ReadSheet   == kind = "xlsx" /\ ReadEntry(Broken)
-----------------------------------------------------------------------------
(* extract_pdf_page_texts_native: pypdf, then PyPDF2.                      *)

Ascending(S) == InOrder(S, {x \in S \X S : x[1] < x[2]})

\* A parser is absent or fails, finds no text, or finds it on some of the pages
\* that have any. sawEmpty: one of the two found none.
Parse(found, works) ==
  /\ stage = "parsing" /\ turn <= 2 /\ found \subseteq {p \in Pages : content[p] = "text"}
  /\ found # {} => works
  /\ IF found # {}
     THEN Store([i \in 1 .. Cardinality(found) |->
                   [page |-> Ascending(found)[i], by |-> "parser"]])
     ELSE /\ turn' = turn + 1 /\ sawEmpty' = (sawEmpty \/ works)
          /\ UNCHANGED <<file, stage, at, best, out, pageTexts, verdict, view, read>>

HasPages(e) == e # "android-mlkit"
Drawn == Among(engines, {e \in Recognisers : HasPages(e)})

\* extract_pdf_text: a PDF that can be parsed and has no text is recognised.
Unparsed ==
  /\ stage = "parsing" /\ turn > 2
  /\ IF ~sawEmpty THEN Refuse("no parser")
     ELSE IF ~enabled THEN Refuse("ocr required")
     ELSE /\ stage' = IF Drawn = <<>> THEN "whole" ELSE "drawing"
          /\ turn' = 1 /\ sawEmpty' = FALSE
          /\ UNCHANGED <<file, at, best, out, pageTexts, verdict, view, read>>

\* _pdf_page_images: without a renderer the file is refused, also when a
\* recogniser that needs none is on the list.
Draw ==
  /\ stage = "drawing"
  /\ \/ Refuse("ocr unavailable")
     \/ Begin("pages")
-----------------------------------------------------------------------------
(* The recognisers. Each may read a page, answer with nothing, or fail; a  *)
(* text that scores below zero is dropped, and is not an empty answer.     *)

DeepSeekAnswers == {"read", "empty", "failed"}
FormulaAnswers  == {"read", "noise", "empty", "failed"}
\* That every one of its attempts fails is an empty answer; an image that cannot
\* be opened or prepared is a failure.
TesseractAnswers == {"read", "garbage", "empty", "failed"}
WindowsAnswers   == {"read", "garbage", "empty", "failed"}
MlKitAnswers     == {"read", "garbage", "empty", "failed"}

Answers(e) ==
  CASE e = "deepseek-api"    -> DeepSeekAnswers
    [] e = "formula-command" -> FormulaAnswers
    [] e = "tesseract"       -> TesseractAnswers
    [] e = "windows-ocr"     -> WindowsAnswers
    [] e = "android-mlkit"   -> MlKitAnswers

\* Mutant of Wins: the first reading is kept.
WinsFirst(e, better) == best = None

\* A reading of DeepSeek is final; of the others the one that scores higher.
Wins(e, better) == e = "deepseek-api" \/ best = None \/ better

\* What a recogniser is shown: a page, an image, or a whole PDF.
Shown == IF stage = "whole" /\ kind = "pdf" THEN Pages ELSE {at}

Look(list, answer, better) ==
  LET e == list[turn]
  IN  /\ turn <= Len(list) /\ answer \in Answers(e)
      /\ best' = IF answer = "read" /\ Wins(e, better) THEN e ELSE best
      /\ read' = IF answer = "read" THEN read \cup (Shown \X {e}) ELSE read
      /\ sawEmpty' = (sawEmpty \/ answer \in {"empty", "noise"})
      /\ turn' = IF answer = "read" /\ e = "deepseek-api" THEN Len(list) + 1 ELSE turn + 1
      /\ UNCHANGED <<file, stage, at, out, pageTexts, verdict, view>>

Kept == out \o IF best = None THEN <<>>
               ELSE [i \in 1 .. Cardinality(Shown) |-> [page |-> at + i - 1, by |-> best]]

\* The page is left out if nobody read it.
TurnPage ==
  /\ stage = "pages" /\ at <= N /\ turn > Len(Drawn)
  /\ out' = Kept /\ best' = None /\ turn' = 1 /\ at' = at + 1
  /\ UNCHANGED <<file, stage, sawEmpty, pageTexts, verdict, view, read>>

Recognised(pages) ==
  IF pages # <<>> THEN Store(pages)
  ELSE Refuse(IF sawEmpty THEN "ocr empty" ELSE "ocr unavailable")

-----------------------------------------------------------------------------
(* The reader.                                                             *)

\* file_page_text: of a page without a text of its own, the part of the whole
\* text it would have if all were equally long.
ShowPage(p) ==
  /\ stage = "done" /\ verdict = ""
  /\ LET count == IF kind = "pdf" THEN N ELSE 1
         page  == IF p > count THEN count ELSE p
         own   == IF pageTexts = <<>> THEN <<>> ELSE pageTexts[page]
     IN  view' = [page |-> page,
                  text |-> IF own # <<>> THEN own ELSE Split(Flat(out), count)[page]]
  /\ UNCHANGED <<file, stage, at, turn, best, sawEmpty, out, pageTexts, verdict, read>>

\* file_page_search: the pages on which it finds a text.
Finds(p) == {q \in DOMAIN pageTexts : p \in ToSet(pageTexts[q])}

Next ==
  \/ Accept \/ ReadPlain \/ Unzip \/ ReadChapter \/ ReadSlide \/ ReadPart \/ ReadSheet
  \/ Unparsed \/ Draw \/ TurnPage
  \/ \E found \in SUBSET Pages, works \in BOOLEAN : Parse(found, works)
  \/ \E answer \in {"read", "empty", "noise", "garbage", "failed"}, better \in BOOLEAN :
       \/ stage = "pages" /\ at <= N /\ Look(Drawn, answer, better)
       \/ stage = "whole" /\ Look(engines, answer, better)
  \/ stage = "pages" /\ at > N /\ Recognised(out)
  \/ stage = "whole" /\ turn > Len(engines) /\ Recognised(Kept)
  \/ \E p \in Pages : ShowPage(p)
  \/ stage = "done" /\ UNCHANGED vars

Spec == Init /\ [][Next]_vars
-----------------------------------------------------------------------------
ReadBy(p) == {e \in Recognisers : <<p, e>> \in read}
PagesRead == {p \in Pages : ReadBy(p) # {}}

\* A file that went through the recognisers has every page one of them read,
\* once and in order, in the words of DeepSeek where it read the page; it is
\* refused as empty or as unreadable only if nobody read any, and as unreadable
\* only if nobody answered at all (_extract_pdf_with_page_fallback,
\* _extract_with_fallback).
PagesAreAccountedFor ==
  /\ stage = "done" /\ verdict = "" /\ read # {} =>
       /\ {out[i].page : i \in DOMAIN out} = PagesRead
       /\ \A i, j \in DOMAIN out : i < j => out[i].page < out[j].page
       /\ \A i \in DOMAIN out :
            /\ out[i].by \in ReadBy(out[i].page)
            /\ "deepseek-api" \in ReadBy(out[i].page) => out[i].by = "deepseek-api"
  /\ verdict \in {"ocr empty", "ocr unavailable"} => read = {}
  /\ verdict = "ocr unavailable" => ~sawEmpty

\* The pages of a stored PDF, one after the other, are its text: what is in the
\* text is found on some page (file_page_search). And a page the parser read is
\* found where it is, and shown with its own text only (page_texts_for_cache,
\* file_page_text).
PagesMakeTheText ==
  stage = "done" /\ verdict = "" /\ kind = "pdf" =>
    /\ FlattenSeq(pageTexts) = Flat(out)
    /\ \A i \in DOMAIN out :
         /\ Finds(out[i].page) # {}
         /\ out[i].by = "parser" =>
              /\ Finds(out[i].page) = {out[i].page}
              /\ view.page = out[i].page => ToSet(view.text) = {view.page}

\* No page is lost on the way from the file to the reader.
NoPageIsLost == PagesAreAccountedFor /\ PagesMakeTheText
=============================================================================
