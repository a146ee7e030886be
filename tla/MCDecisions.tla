----------------------------- MODULE MCDecisions -----------------------------
(***************************************************************************)
(* The pure decisions, for TLC: a dossier is what one decision is about    *)
(* and the items it has been given, one more at each step.                 *)
(***************************************************************************)
EXTENDS ClaimAssessment, SequencesExt, TLC

CONSTANT MaxItems   \* the most items a dossier gets

VARIABLES kind, dossier

decisionVars == <<kind, dossier>>

R == INSTANCE RiskScore
F == INSTANCE FraudSigns
I == INSTANCE Conclusions
T == INSTANCE TrustScore

-----------------------------------------------------------------------------
(* Claims and what may be found on them.                                   *)

Claims ==
  LET claim == [stems |-> {1, 2, 3}, negated |-> FALSE, universal |-> FALSE]
  IN {claim, [claim EXCEPT !.stems = {1, 2}], [claim EXCEPT !.stems = 1..6],
      [claim EXCEPT !.negated = TRUE], [claim EXCEPT !.universal = TRUE]}

Found ==
  LET page == [stems |-> {1, 2}, sim |-> 20, score |-> 75, keywords |-> 40, form |-> "statement",
               body |-> 0, rating |-> "none", review |-> "none", quoted |-> FALSE, alike |-> 0,
               words |-> {}, negations |-> {}, predicted |-> "none", universal |-> FALSE,
               knowledge |-> FALSE, stored |-> "none", host |-> "other", address |-> "own",
               found |-> "yes", dated |-> "past", publisher |-> 1]
  IN {page,
      [page EXCEPT !.score = 55, !.publisher = 2, !.found = "unknown"],
      [page EXCEPT !.sim = 6, !.score = 85, !.knowledge = TRUE, !.host = "community"],
      [page EXCEPT !.sim = 6, !.score = 65, !.stems = {2, 3, 4}, !.publisher = 3],
      [page EXCEPT !.score = 95, !.host = "official", !.negations = {[before |-> 1, hedged |-> FALSE]}],
      [page EXCEPT !.negations = {[before |-> 2, hedged |-> TRUE]}, !.words = {"true"}],
      [page EXCEPT !.score = 92, !.rating = "false", !.review = "false", !.quoted = TRUE, !.alike = 20],
      [page EXCEPT !.score = 95, !.rating = "true", !.review = "true", !.quoted = TRUE, !.alike = 80],
      [page EXCEPT !.score = 92, !.review = "misleading", !.rating = "misleading", !.alike = 36,
                   !.address = "other"],
      [page EXCEPT !.rating = "unproven", !.sim = 16],
      [page EXCEPT !.words = {"true", "false"}, !.publisher = 4],
      [page EXCEPT !.form = "question"],
      [page EXCEPT !.score = 85, !.found = "no", !.publisher = 2],
      [page EXCEPT !.score = 60, !.sim = 12, !.predicted = "refutes", !.stored = "PRIMARY"],
      [page EXCEPT !.stems = {3}, !.sim = 1]}

Replies == {<<>>, <<"busy", "busy", "other">>, <<"busy", "TRUE">>, <<"unreadable", "FALSE">>}

-----------------------------------------------------------------------------
(* Signals, the engines that looked for them, and the detectors of a scan. *)

Signals ==
  {[family |-> f, severity |-> s, weight |-> w, provenance |-> p, confidence |-> 90] :
     f \in {"nlp"}, s \in {"INFO", "LOW", "MEDIUM", "HIGH"}, w \in {70, 100}, p \in {"heuristic"}}
  \cup {[family |-> "evidence", severity |-> s, weight |-> 100, provenance |-> "retrieved",
         confidence |-> 100] : s \in {"MEDIUM", "HIGH"}}

Engines ==
  {<<>>} \cup {<<[status |-> "ok", gap |-> g], [status |-> "ok", gap |-> FALSE],
                [status |-> s, gap |-> FALSE]>> :
                g \in BOOLEAN, s \in {"ok", "error", "not_applicable"}}

\* What a deployment sets: nothing, a family switched off, one favoured, or
\* thresholds, in order and out of it.
Customs ==
  {[name \in {} |-> 0], [nlp |-> 0], [evidence |-> 8], [medium |-> 20, high |-> 50],
   [medium |-> 70]}

-----------------------------------------------------------------------------
(* Texts, as they begin, and the signs they may show besides.              *)

PlainText ==
  [words |-> 10, report |-> FALSE, official |-> FALSE, urgent |-> FALSE,
   disguised |-> FALSE, switched |-> FALSE, occurs |-> {}, links |-> <<>>,
   header |-> <<>>, received |-> "none", from |-> "none", reply |-> "none",
   shown |-> {}, asks |-> {}, headed |-> FALSE, letterWords |-> 0, hint |-> "none",
   fired |-> [name \in {} |-> 0], file |-> [kind |-> "none"], intents |-> {},
   hidden |-> FALSE, injected |-> FALSE, language |-> "english", sure |-> TRUE, letters |-> 50,
   sentences |-> <<>>, contradicted |-> 0, isUrl |-> FALSE, fetches |-> TRUE]

Texts ==
  LET text == PlainText
      mail == [text EXCEPT !.headed = TRUE, !.from = "other"]
      result(method, is) == [method |-> method, result |-> is]
  IN {text, [text EXCEPT !.official = TRUE, !.switched = TRUE],
      [text EXCEPT !.words = 3, !.letterWords = 2],
      [text EXCEPT !.report = TRUE],
      [mail EXCEPT !.from = "free", !.reply = "other", !.shown = {"institution", "address"}],
      [mail EXCEPT !.shown = {"institution"}, !.reply = "other",
                   !.header = <<result("dmarc", "pass"), result("spf", "softfail"),
                                result("dkim", "fail"), result("dkim", "pass")>>],
      [mail EXCEPT !.header = <<result("spf", "fail"), result("dmarc", "fail"), result("spf", "pass")>>],
      [mail EXCEPT !.header = <<result("spf", "unknown")>>, !.received = "fail"]}

Signs ==
  LET occurs == [pattern |-> 1, before |-> "nothing", fee |-> FALSE, described |-> FALSE,
                 inside |-> FALSE, secrecy |-> FALSE]
      link == [host |-> "named", traits |-> {}, freeHost |-> FALSE, harvest |-> FALSE,
               userinfo |-> FALSE, encrypted |-> TRUE, near |-> FALSE, token |-> "none",
               own |-> FALSE, keywords |-> FALSE, named |-> FALSE, random |-> FALSE, encoded |-> FALSE,
               listed |-> FALSE, page |-> {}]
  IN {<<"occurs", occurs>>,
      <<"occurs", [occurs EXCEPT !.pattern = 5]>>,
      <<"occurs", [occurs EXCEPT !.pattern = 16, !.inside = TRUE, !.secrecy = TRUE]>>,
      <<"occurs", [occurs EXCEPT !.pattern = 13, !.before = "weak", !.fee = TRUE]>>,
      <<"link", [link EXCEPT !.harvest = TRUE]>>,
      <<"link", [link EXCEPT !.traits = {"cheap_tld", "hyphen_heavy"}, !.harvest = TRUE, !.encrypted = FALSE]>>,
      <<"link", [link EXCEPT !.traits = {"brand_outside_domain", "deep_subdomains"}]>>,
      <<"link", [link EXCEPT !.freeHost = TRUE, !.harvest = TRUE, !.userinfo = TRUE]>>,
      <<"link", [link EXCEPT !.traits = {"shortener"}]>>,
      <<"link", [link EXCEPT !.host = "malformed"]>>,
      <<"asks", "bec_gift_card">>, <<"asks", "cred_verification">>,
      <<"urgent">>, <<"disguised">>}

\* Inputs of an investigation, and the signs the engines may find in one.
Cases ==
  LET mail == [PlainText EXCEPT !.headed = TRUE, !.from = "free"]
  IN {PlainText, mail, [PlainText EXCEPT !.language = "unsupported"],
      [PlainText EXCEPT !.isUrl = TRUE]}

CaseSigns ==
  LET occurs == [pattern |-> 4, before |-> "nothing", fee |-> FALSE, described |-> FALSE,
                 inside |-> FALSE, secrecy |-> FALSE]
      link == [host |-> "named", traits |-> {"cheap_tld", "deep_subdomains"}, freeHost |-> FALSE,
               harvest |-> TRUE, userinfo |-> FALSE, encrypted |-> TRUE, near |-> FALSE,
               token |-> "none", own |-> FALSE, keywords |-> FALSE, named |-> FALSE, random |-> FALSE,
               encoded |-> FALSE, listed |-> FALSE, page |-> {}]
      sentence == [link |-> FALSE, imperative |-> FALSE, intents |-> {}, opinion |-> FALSE,
                   personal |-> FALSE, reported |-> FALSE, named |-> FALSE, words |-> 12]
  IN {<<"occurs", occurs>>, <<"link", link>>,
      <<"link", [link EXCEPT !.harvest = FALSE, !.near = TRUE, !.listed = TRUE]>>,
      <<"link", [link EXCEPT !.traits = {"shortener"}, !.keywords = TRUE, !.named = TRUE, !.token = "gov",
                             !.page = {"redirected", "password", "offsite", "plain", "branded"}]>>,
      <<"asks", "cred_verification">>, <<"urgent">>, <<"hidden">>, <<"injected">>,
      <<"fires", "urgency", 100>>, <<"fires", "shouting", 40>>, <<"fires", "financial", 100>>,
      <<"intent", "credential_request">>, <<"intent", "prize_claim">>, <<"intent", "link_click">>,
      <<"sentence", sentence>>, <<"sentence", [sentence EXCEPT !.imperative = TRUE]>>,
      <<"sentence", [sentence EXCEPT !.personal = TRUE, !.reported = TRUE]>>}

Page ==
  [form |-> "text", recognised |-> "text", words |-> {}, number |-> <<>>, issued |-> <<>>,
   due |-> <<>>, subtotal |-> <<>>, tax |-> <<>>, total |-> <<>>]

InvoiceWords == {<<"invoice", 1>>, <<"invoice", 2>>}

\* Files: a PDF, which may not open, an invoice of one page, a scan, an image.
Files ==
  LET pdf == [kind |-> "pdf", opens |-> "yes", encrypted |-> FALSE, active |-> {}, saves |-> 0,
              editor |-> FALSE, created |-> 5, modified |-> 5, pages |-> <<>>, ocr |-> TRUE,
              owned |-> TRUE, invoices |-> {<<7>>}, today |-> 10,
              maxPages |-> 2, maxScanned |-> 1]
      invoice == [Page EXCEPT !.words = InvoiceWords, !.number = <<8>>, !.issued = <<"day", 9>>,
                              !.subtotal = <<1000>>, !.tax = <<180>>, !.total = <<1180>>]
      image == [kind |-> "image", opens |-> "yes", editor |-> FALSE, codes |-> <<>>, scans |-> TRUE,
                ocr |-> TRUE, recognised |-> "text"]
  IN {pdf, [pdf EXCEPT !.opens = "broken"], [pdf EXCEPT !.opens = "raises"], [pdf EXCEPT !.encrypted = TRUE],
      [pdf EXCEPT !.pages = <<invoice>>, !.modified = 50], [pdf EXCEPT !.ocr = FALSE, !.modified = 2],
      image, [image EXCEPT !.ocr = FALSE], [image EXCEPT !.opens = "broken"],
      [image EXCEPT !.recognised = "raises"], [image EXCEPT !.scans = FALSE, !.ocr = FALSE]}

FileItems ==
  LET amounts == [Page EXCEPT !.subtotal = <<1000>>, !.tax = <<180>>, !.total = <<1192>>]
      link == [host |-> "named", traits |-> {"cheap_tld"}, freeHost |-> FALSE,
               harvest |-> TRUE, userinfo |-> FALSE, encrypted |-> TRUE, near |-> FALSE,
               token |-> "none", own |-> FALSE, keywords |-> FALSE, named |-> FALSE, random |-> FALSE,
               encoded |-> FALSE, listed |-> FALSE, page |-> {}]
  IN {<<"page", Page>>, <<"page", [amounts EXCEPT !.words = InvoiceWords, !.number = <<7>>]>>,
      <<"page", [Page EXCEPT !.issued = <<"day", 12>>, !.due = <<"day", 11>>]>>,
      <<"page", [Page EXCEPT !.due = <<"impossible">>]>>,
      <<"page", [amounts EXCEPT !.form = "scan"]>>,
      <<"page", [Page EXCEPT !.form = "scan", !.recognised = "fails"]>>,
      <<"page", [Page EXCEPT !.form = "caption", !.number = <<7>>, !.recognised = "fails"]>>,
      <<"page", [Page EXCEPT !.form = "caption", !.due = <<"impossible">>, !.recognised = "nothing"]>>,
      <<"active", "launch">>, <<"active", "xfa">>, <<"saved">>, <<"edited">>,
      <<"code", "url", link>>, <<"code", "upi">>, <<"code", "undecoded">>,
      <<"link", [link EXCEPT !.userinfo = TRUE]>>, <<"fires", "urgency", 100>>}

\* A file with one thing more in it.
InFile(f, item) ==
  CASE item[1] = "page" -> [f EXCEPT !.pages = Append(@, item[2])]
    [] item[1] = "active" -> [f EXCEPT !.active = @ \cup {item[2]}]
    [] item[1] = "saved" -> [f EXCEPT !.saves = @ + 1]
    [] item[1] = "edited" -> [f EXCEPT !.editor = TRUE]
    [] item[1] = "code" -> [f EXCEPT !.codes = Append(@, Tail(item))]

\* A text with one sign more.
Showing(text, sign) ==
  CASE sign[1] = "occurs" -> [text EXCEPT !.occurs = @ \cup {sign[2]}]
    [] sign[1] = "link" -> [text EXCEPT !.links = Append(@, sign[2])]
    [] sign[1] = "asks" -> [text EXCEPT !.asks = @ \cup {sign[2]}]
    [] sign[1] = "urgent" -> [text EXCEPT !.urgent = TRUE]
    [] sign[1] = "disguised" -> [text EXCEPT !.disguised = TRUE]
    [] sign[1] = "hidden" -> [text EXCEPT !.hidden = TRUE]
    [] sign[1] = "injected" -> [text EXCEPT !.injected = TRUE]
    [] sign[1] = "fires" -> [text EXCEPT !.fired = (sign[2] :> sign[3]) @@ @]
    [] sign[1] = "intent" -> [text EXCEPT !.intents = @ \cup {sign[2]}]
    [] sign[1] = "sentence" -> [text EXCEPT !.sentences = Append(@, sign[2]), !.contradicted = @ + 1]
    [] OTHER -> [text EXCEPT !.file = InFile(@, sign)]

TextOf(d) == FoldLeft(Showing, d.about.text, d.items)

\* What a language model is asked to read, how it ends, and the sentences it says.
Readings ==
  [answer : {"answers", "truncated", "refused", "not_configured"},
   points : {<<>>, <<30, 0>>}, sources : {<<>>, <<2>>}]

Sentences ==
  LET sentence == [length |-> 100, whole |-> TRUE, cites |-> {<<"S", 1>>}, scores |-> {}, levels |-> {}]
  IN {sentence, [sentence EXCEPT !.length = 800, !.cites = {<<"source", 2>>}],
      [sentence EXCEPT !.cites = {<<"S", 2>>, <<"source", 3>>}], [sentence EXCEPT !.scores = {30}],
      [sentence EXCEPT !.length = 700, !.scores = {31}], [sentence EXCEPT !.levels = {"HIGH"}],
      [sentence EXCEPT !.whole = FALSE], [sentence EXCEPT !.cites = {}, !.levels = {"LOW"}]}

\* Submissions of the 1.x analysis, the libraries of the server, and the claims
\* that were checked.
Submissions ==
  LET sent == [type |-> "text", words |-> 40, read |-> "text", readWords |-> 0, fired |-> [name \in {} |-> 0],
               prose |-> [sentences |-> 4, tells |-> 0, even |-> 40, variety |-> 70],
               frames |-> <<>>, voice |-> {}]
      worst == {"sharpness", "smooth"}
      lured == [urgency |-> 100, financial |-> 100, suppression |-> 100]
  IN {sent, [sent EXCEPT !.words = 20, !.fired = lured],
      [sent EXCEPT !.prose = [sentences |-> 5, tells |-> 3, even |-> 60, variety |-> 40]],
      [sent EXCEPT !.type = "url", !.words = 0, !.read = "fails"],
      [sent EXCEPT !.type = "image", !.words = 0, !.frames = <<{}>>, !.readWords = 14],
      [sent EXCEPT !.type = "image", !.words = 8, !.frames = <<worst>>, !.read = "nothing"],
      [sent EXCEPT !.type = "video", !.words = 14, !.frames = <<{}, worst, {}, {"smooth"}>>],
      [sent EXCEPT !.type = "video", !.words = 8],
      [sent EXCEPT !.type = "audio", !.words = 15, !.voice = {"flat", "unbroken"}],
      [sent EXCEPT !.type = "audio", !.words = 8, !.voice = {"silent"}],
      [sent EXCEPT !.type = "document", !.read = "blank"]}

CheckedClaims ==
  LET e(score, sided) == [score |-> score, sided |-> sided]
      claim(verdict, confidence, evidence) ==
        [verdict |-> verdict, confidence |-> confidence, evidence |-> evidence]
  IN {claim("raises", 0, <<>>), claim("INSUFFICIENT EVIDENCE", 20, <<e(50, FALSE)>>),
      claim("VERIFIED", 92, <<e(95, TRUE), e(90, TRUE), e(85, TRUE), e(50, FALSE)>>),
      claim("LIKELY TRUE", 42, <<e(60, TRUE), e(0, TRUE)>>),
      claim("LIKELY TRUE", 65, <<e(80, TRUE), e(75, TRUE)>>),
      claim("MISLEADING", 55, <<e(50, FALSE), e(70, TRUE)>>),
      claim("LIKELY FALSE", 38, <<e(40, TRUE), e(45, TRUE)>>),
      claim("FALSE", 95, <<e(95, TRUE), e(95, TRUE), e(92, TRUE), e(90, TRUE)>>)}

-----------------------------------------------------------------------------
Abouts(k) ==
  CASE k = "claim" -> Claims
    [] k = "risk" -> [engines : Engines, custom : Customs]
    [] k = "scan" -> [text : Texts, raises : {"none"}]
                     \cup [text : {t \in Texts : t.shown # {}}, raises : {"url"}]
    [] k = "case" -> [text : Cases]
    [] k = "reading" -> Readings
    [] k = "trust" -> [sent : Submissions, most : {2},
                       installed : {{}, {"tesseract"}, {"tesseract", "opencv", "librosa"}}]
    [] k = "file" -> [text : {[PlainText EXCEPT !.file = f] : f \in Files}]
    [] OTHER -> {<<>>}

Items(k) ==
  CASE k = "claim" -> Found [] k = "risk" -> Signals [] k = "scan" -> Signs
    [] k = "case" -> CaseSigns [] k = "file" -> FileItems
    [] k = "reading" -> Sentences [] k = "trust" -> CheckedClaims [] OTHER -> {}

\* What a file may hold.
Fits(text, item) ==
  /\ item[1] \in {"page", "active", "saved"} => text.file.kind = "pdf"
  /\ item[1] = "code" => text.file.kind = "image"
  /\ item[1] = "edited" => text.file.kind # "none"

DecisionKinds == {"claim", "risk", "scan", "case", "file", "reading", "trust"}

DecisionsStart(k) == kind = k /\ \E about \in Abouts(k) : dossier = [about |-> about, items |-> <<>>]

\* One more item.
Add ==
  /\ Len(dossier.items) < MaxItems
  /\ \E item \in Items(kind) :
       /\ kind = "file" => Fits(dossier.about.text, item)
       /\ kind = "reading" => \A k \in DOMAIN dossier.items : dossier.items[k].whole
       /\ dossier' = [dossier EXCEPT !.items = Append(@, item)]
  /\ UNCHANGED kind

DecisionsSpec == (\E k \in DecisionKinds : DecisionsStart(k)) /\ [][Add]_decisionVars

\* In the properties a set of one value binds it, so that TLC computes it once.

\* What is concluded of a claim, with every item found, rests on what was found,
\* and the report on sources that may be relied on.
ClaimsJudged ==
  [][kind = "claim" =>
       /\ \A g \in Replies : RestsOnEvidence(dossier'.about, dossier'.items, g, "unreadable")
       /\ DebunkingCounts(dossier'.about, dossier'.items)
       /\ ReliesOnSources(dossier'.about, dossier'.items)
       /\ ContradictionIsSignalled(dossier'.about, dossier'.items)
    ]_decisionVars

\* With every item, the breakdown of a risk score is the score, and its confidence
\* is earned; what a scan concludes is warranted by more than one sign and by no
\* failure; an investigation counts a sign once, says nothing was found only if it
\* looked, and tells its reader what agrees and what its findings bear out; a trust
\* score leans to true only where a claim was checked, and agrees with its label.
RisksScored ==
  [][/\ kind = "risk" =>
          LET config == R!LoadConfig(dossier.about.custom)
          IN /\ R!PointsAreTheScore(dossier'.items, config)
             /\ R!ConfidenceIsEarned(dossier'.items, config, dossier.about.engines)
     /\ kind = "scan" =>
          \A text \in {TextOf(dossier')} :
             /\ F!AuthenticationNeverClears(text)
             /\ F!OneSignIsNoProof(text)
             /\ F!SignInPagesAreFine(text)
     /\ kind \in {"case", "file"} =>
          \A input \in {TextOf(dossier')} :
             /\ I!SignalsCountOnce(input)
             /\ \A raises \in I!Raisers :
                  /\ I!NothingFoundIsEarned(input, raises)
                  /\ I!CodesAreExamined(input, raises)
                  /\ I!ConclusionsAgree(input, raises)
                  /\ I!ReportBearsOut(input, raises)
             /\ I!BreadthFlags(input.fired)
     /\ kind = "reading" =>
          LET about == dossier.about
              contributions == [k \in DOMAIN about.points |-> [points |-> about.points[k]]]
              claims == [k \in DOMAIN about.sources |-> [checked |-> TRUE, sources |-> about.sources[k]]]
          IN I!ReadingIsGrounded(about.answer, dossier'.items, I!SignalIds(contributions),
                                 I!SourceIds(claims), 30, "LOW")
     /\ kind = "trust" =>
          \A about \in {dossier.about} :
             /\ T!NothingCheckedNoVerdict(about.sent, about.installed, dossier'.items, about.most)
             /\ T!DialAgrees(about.sent, about.installed, dossier'.items, about.most)
             /\ T!MissingSaysNothing(about.sent, about.installed, dossier'.items, about.most)
    ]_decisionVars

\* The points shown beside the signals of an investigation sum to its score.
BreakdownAddsUp == kind = "case" => I!DisplayedPointsAddUp(TextOf(dossier))

\* More of what is held against something never makes it look better.
MoreNeverLess ==
  [][/\ kind = "risk" => R!SignalsOnlyAdd(dossier.items, dossier'.items,
                                         R!LoadConfig(dossier.about.custom))
     /\ kind = "scan" => \A before \in {TextOf(dossier)}, after \in {TextOf(dossier')} :
                           F!SignsOnlyAdd(before, after, dossier.about.raises)
     /\ kind \in {"case", "file"} => \A before \in {TextOf(dossier)}, after \in {TextOf(dossier')} :
                                       I!InputsOnlyAdd(before, after)
     /\ kind = "trust" => T!FalsehoodOnlyAdds(dossier.about.sent, dossier.about.installed, dossier.items,
                                              dossier'.items, dossier.about.most)
    ]_decisionVars
=============================================================================
