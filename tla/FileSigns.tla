------------------------------- MODULE FileSigns -------------------------------
(***************************************************************************)
(* What the document and image engines make of a file: engines/document.py *)
(* and engines/image.py, with the duplicate invoices of pipeline.py.       *)
(*                                                                         *)
(* A PDF is what its structure, its metadata and its pages show; a page is *)
(* a text, a caption or a scan and says something of what it is, of        *)
(* amounts and of dates.  An image has QR codes and what character         *)
(* recognition makes of it.  Days are numbers, amounts whole units of a    *)
(* currency.  The pages that are read (a setting), and those of them that  *)
(* are recognised, are limits of the input, so that a small one meets them.*)
(***************************************************************************)
EXTENDS FraudSigns

Signal(code, family, severity, provenance, confidence) ==
  [code |-> code, family |-> family, severity |-> severity, weight |-> 100,
   provenance |-> provenance, confidence |-> confidence]

\* The signs of one check, as signals.
Signals(signs, family, confidence) ==
  [i \in DOMAIN signs |-> Signal(signs[i].code, family, signs[i].severity, "heuristic", confidence)]

Mark(holds, code, severity, confidence) ==
  Signals(When(holds, code, severity), "document_media", confidence)

Failed == [status |-> "error", gap |-> FALSE, signals |-> <<>>]

\* Engine.run: one that raises says nothing, and says so.
Run(applies, raises, signals, gap) ==
  CASE ~applies -> [Failed EXCEPT !.status = "not_applicable"]
    [] applies /\ raises -> Failed
    [] OTHER -> [status |-> "ok", gap |-> gap, signals |-> signals]

-----------------------------------------------------------------------------
(* A PDF.                                                                  *)

\* What a document has no need of, in the order it is looked for.
ActiveContent ==
  <<Trait("javascript", "HIGH"), Trait("launch", "HIGH"), Trait("open_action", "MEDIUM"),
    Trait("attachments", "MEDIUM"), Trait("rich_media", "LOW"), Trait("xfa", "LOW")>>

StructureSigns(f) ==
  LET active == Having(f.active, ActiveContent)
  IN Signals([k \in DOMAIN active |-> Trait("pdf_active_content", active[k].severity)],
             "document_media", 75)
     \o Mark(f.saves > 0, "pdf_incremental_update", IF f.saves >= 2 THEN "MEDIUM" ELSE "LOW", 55)

\* A change within the first month is ordinary.
MetadataSigns(f) ==
  LET dated == f.created > 0 /\ f.modified > 0
  IN Mark(f.editor, "pdf_editor_tool", "LOW", 45)
     \o Mark(dated /\ f.modified < f.created, "pdf_dates_inconsistent", "MEDIUM", 55)
     \o Mark(dated /\ f.modified > f.created + 30, "pdf_modified_long_after", "INFO", 30)

Opened(f) == f.opens = "yes" /\ ~f.encrypted

\* The pages within the limit.
Kept(f) == SubSeq(f.pages, 1, Smaller(f.maxPages, Len(f.pages)))

\* A page of next to no text counts as a scan; a caption is one with a few words.
ScannedPages(f) == SelectSeq([k \in DOMAIN Kept(f) |-> k], LAMBDA k : f.pages[k].form # "text")

\* Recognition takes the place of a page's text: on the first scans, and where there
\* is a picture; what it finds may be nothing.  It fails on some pages.
Recognised(f, k) ==
  LET first == SubSeq(ScannedPages(f), 1, Smaller(f.maxScanned, Len(ScannedPages(f))))
  IN f.ocr /\ k \in ToSet(first) /\ f.pages[k].recognised \in {"text", "nothing"}

\* What the pages that could be read say.
Said(f) ==
  LET legible == SelectSeq([k \in DOMAIN Kept(f) |-> k],
                   LAMBDA k : IF Recognised(f, k) THEN f.pages[k].recognised = "text"
                              ELSE f.pages[k].form \in {"text", "caption"})
  IN IF Opened(f) THEN [n \in DOMAIN legible |-> f.pages[legible[n]]] ELSE <<>>

DocTypes == <<"invoice", "receipt", "bank_statement", "contract", "certificate", "government">>

\* Two words of its kind; the first kind of those with the most.
Classify(said) ==
  LET words == UNION {said[n].words : n \in DOMAIN said}
      count == [t \in DOMAIN DocTypes |-> Cardinality({w \in words : w[1] = DocTypes[t]})]
      best == CHOOSE t \in DOMAIN DocTypes : \A u \in DOMAIN DocTypes :
                count[t] > count[u] \/ (count[t] = count[u] /\ t <= u)
  IN IF count[best] >= 2 THEN DocTypes[best] ELSE "other"

\* The first that is said, of the total the last.
Fields(said) ==
  LET told(field) == SelectSeq([n \in DOMAIN said |-> said[n][field]], LAMBDA x : x # <<>>)
      first(field) == IF told(field) = <<>> THEN <<>> ELSE told(field)[1]
      total == told("total")
  IN [number |-> first("number"), issued |-> first("issued"), due |-> first("due"),
      subtotal |-> first("subtotal"), tax |-> first("tax"),
      total |-> IF total = <<>> THEN <<>> ELSE total[Len(total)]]

\* A day that is no day of the calendar, written as one: it is read again as an
\* ISO date, which raises.
Impossible(fields) == <<"impossible">> \in {fields.issued, fields.due}

Day(date) == IF date # <<>> /\ date[1] = "day" THEN {date[2]} ELSE {}

\* Rounding is no mismatch: one unit, or one percent.
TotalsMismatch(fields) ==
  /\ <<>> \notin {fields.subtotal, fields.tax, fields.total}
  /\ LET stated == fields.total[1]
         off == (fields.subtotal[1] + fields.tax[1]) - stated
     IN stated > 0 /\ (100 * off > Max({100, stated}) \/ -100 * off > Max({100, stated}))

\* _consistency.
ConsistencySigns(f, fields) ==
  Mark(TotalsMismatch(fields), "totals_mismatch", "HIGH", 65)
  \o Mark(\E issued \in Day(fields.issued), due \in Day(fields.due) : due < issued,
          "due_before_issue", "MEDIUM", 60)
  \o Mark(\E issued \in Day(fields.issued) : issued > f.today + 1, "issue_date_in_future", "MEDIUM", 60)

FieldsMissing(fields) == <<>> \in {fields.number, fields.issued, fields.total}

\* The owner's other documents with this invoice's number.
Duplicate(f, fields) == f.owned /\ fields.number # <<>> /\ fields.number \in f.invoices

DocumentRun(f) ==
  LET fields == Fields(Said(f))
      contents == ConsistencySigns(f, fields) \o MetadataSigns(f)
                  \o Mark(Classify(Said(f)) = "invoice" /\ FieldsMissing(fields),
                          "invoice_fields_missing", "LOW", 40)
                  \o Mark(Duplicate(f, fields), "duplicate_invoice_number", "MEDIUM", 60)
  IN CASE f.opens = "raises" \/ (Opened(f) /\ Impossible(fields)) -> Failed
       [] f.opens = "broken" ->
            [Failed EXCEPT !.signals = StructureSigns(f) \o Mark(TRUE, "malformed_pdf", "MEDIUM", 40)]
       [] f.opens = "yes" /\ f.encrypted -> Run(TRUE, FALSE, StructureSigns(f), FALSE)
       [] OTHER -> Run(TRUE, FALSE, StructureSigns(f) \o contents, ~f.ocr /\ ScannedPages(f) # <<>>)

-----------------------------------------------------------------------------
(* An image.                                                               *)

\* The codes that are decoded, of the first five; the scan never fails the engine.
QrCodes(f) ==
  IF f.opens # "yes" \/ ~f.scans THEN <<>>
  ELSE SelectSeq(SubSeq(f.codes, 1, Smaller(5, Len(f.codes))), LAMBDA code : code[1] # "undecoded")

\* A web address in a code is one more link; one that is there already is not.
QrLinks(f) ==
  LET links == SelectSeq(QrCodes(f), LAMBDA code : code[1] = "url")
      new == SelectSeq([k \in DOMAIN links |-> k], LAMBDA k : \A j \in 1..(k - 1) : links[j] # links[k])
  IN [n \in DOMAIN new |-> links[new[n]][2]]

PaymentCodes(f) == SelectSeq(QrCodes(f), LAMBDA code : code[1] = "upi")

\* Without recognition an image is unread, unless it says what its codes say.
ImageRun(f) ==
  LET payments == [k \in DOMAIN PaymentCodes(f) |-> Trait("qr_upi_payment", "INFO")]
  IN CASE f.opens # "yes" \/ (f.ocr /\ f.recognised = "raises") -> Failed
       [] OTHER -> Run(TRUE, FALSE,
                       Mark(f.editor, "image_editing_software", "LOW", 40)
                         \o Signals(payments, "document_media", 90),
                       ~f.ocr /\ QrCodes(f) = <<>>)

-----------------------------------------------------------------------------
(* The engine of the file there is, if there is one; the text it leaves;   *)
(* its kind, set before the fields are read, and the links of its codes.   *)

FileRun(f) ==
  CASE f.kind = "none" -> <<>> [] f.kind = "pdf" -> <<DocumentRun(f)>> [] f.kind = "image" -> <<ImageRun(f)>>

HasText(f) ==
  CASE f.kind = "none" -> TRUE
    [] f.kind = "pdf" -> Said(f) # <<>>
    [] f.kind = "image" -> f.opens = "yes" /\ f.ocr /\ f.recognised = "text"

DocumentType(f) == IF f.kind = "pdf" THEN Classify(Said(f)) ELSE "none"

FileLinks(f) == IF f.kind = "image" THEN QrLinks(f) ELSE <<>>
===============================================================================
