------------------------------ MODULE PageReply ------------------------------
(***************************************************************************)
(* What the clients make of a 2xx reply to a call that extracts: the page,  *)
(* the pages of a batch, the highlights, the job that was started and where *)
(* it stands, the text of a completion.                                     *)
(*                                                                         *)
(* A text is "none", where the field is missing, "blank", or "text".  A row *)
(* has the field the client reads first (raw_content, markdown, text or the *)
(* highlights) and the one behind it (content, html; for highlights, text). *)
(***************************************************************************)
EXTENDS Sequences

Texts == {"none", "blank", "text"}

Rows == [lead : Texts, spare : Texts]

\* A reply about one page: no row at all, or one; a second is never looked at.
PageReplies == {<<>>} \cup {<<r>> : r \in Rows}

BatchReplies == PageReplies \cup (Rows \X Rows)

\* Mutant: a text that is there is taken for one that has something in it.
IsThere(text) == text # "none"

\* trim().is_empty(), negated.
HasText(text) == text = "text"

\* Option::or: a field that is there hides the other, blank or not.
FirstPresent(a, b) == IF a # "none" THEN a ELSE b

-----------------------------------------------------------------------------
(* One page.                                                                *)

TavilyPage(rows) ==
  IF rows = <<>> THEN "none" ELSE FirstPresent(Head(rows).lead, Head(rows).spare)

FirecrawlPage(rows) ==
  IF rows = <<>> THEN "none" ELSE FirstPresent(Head(rows).lead, Head(rows).spare)

\* Exa has no second field.
ExaPage(rows) == IF rows = <<>> THEN "none" ELSE Head(rows).lead

\* ProviderRegistry::extract: the text a client would return.  It returns none
\* that is blank: that page is Unextractable.
PageText(v, rows) ==
  CASE v = "tavily"    -> TavilyPage(rows)
    [] v = "firecrawl" -> FirecrawlPage(rows)
    [] v = "exa"       -> ExaPage(rows)

\* The highlights that are not blank, joined, or else the text.
Highlights(rows) ==
  IF rows = <<>> THEN "none"
  ELSE IF HasText(Head(rows).lead) THEN Head(rows).lead ELSE Head(rows).spare

-----------------------------------------------------------------------------
(* A batch: the rows that have text, however few, by their places.          *)

TavilyBatch(rows) ==
  {i \in DOMAIN rows : HasText(FirstPresent(rows[i].lead, rows[i].spare))}

ExaBatch(rows) == {i \in DOMAIN rows : HasText(rows[i].lead)}

\* batch_to_response: the content of the first page, if there is one.
BatchText(v, rows) ==
  IF (IF v = "exa" THEN ExaBatch(rows) ELSE TavilyBatch(rows)) # {} THEN "text" ELSE "none"

-----------------------------------------------------------------------------
(* Jobs.                                                                    *)

\* Without an id there is no job; Firecrawl's may be the empty text ("blank").
StructuredStarts(id) == id # "none"

ResearchStarts(id) == id = "text"

\* "cancelled" is of Firecrawl, and so is success: false; any other status is
\* "running".
StatusReplies ==
  [status : {"completed", "failed", "cancelled", "running"}, denied : BOOLEAN,
   body : Texts]

StructuredStatus(r) ==
  [completed |-> r.status = "completed",
   failed    |-> r.status \in {"failed", "cancelled"} \/ r.denied,
   body      |-> r.body]

ResearchStatus(r) ==
  [completed |-> r.status = "completed",
   failed    |-> r.status = "failed",
   body      |-> IF HasText(r.body) THEN r.body ELSE "none"]

-----------------------------------------------------------------------------
(* Completions.                                                             *)

\* output_text, or else the parts put together.  Here an empty text is "none".
CompleteReplies == [output : Texts, parts : Texts]

CompleteText(r) == FirstPresent(r.output, r.parts)
=============================================================================
