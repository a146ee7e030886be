-------------------------- MODULE InvestigationSigns --------------------------
(***************************************************************************)
(* What the engines of an investigation make of one input and how its      *)
(* result shows it: engines/text.py, with detectors/fraud.py, engines/     *)
(* url.py, engines/base.py and the payload of pipeline.py.                 *)
(*                                                                         *)
(* An input is a text of FraudSigns with what else the engines tell apart: *)
(* the file it is read from, its language, what it asks for and how it     *)
(* presses, and for every link its likeness to a brand, its listing and    *)
(* its page.                                                               *)
(***************************************************************************)
EXTENDS FileSigns

-----------------------------------------------------------------------------
(* Persuasion techniques.  Weights are in tenths, strengths in hundredths. *)

TechniqueWeight ==
  [urgency |-> 9, authority |-> 8, suppression |-> 10, absolutes |-> 5, emotional |-> 4,
   vagueness |-> 6, engagement_bait |-> 7, financial |-> 9, shouting |-> 5]

\* score_text: a weighted mean of what fired, worth the more the more of it did.
ManipulationScore(fired) ==
  LET n == Cardinality(DOMAIN fired)
      mean == MapThenSumSet(LAMBDA x : fired[x] * TechniqueWeight[x], DOMAIN fired)
                \div MapThenSumSet(LAMBDA x : TechniqueWeight[x], DOMAIN fired)
  IN IF n = 0 THEN 0 ELSE (mean * Smaller(100, 40 + 30 * (n - 1))) \div 100

FlagThreshold == 45

\* Emphasis alone is ordinary writing, and layout in a file.
TechniqueSeverity(i, x) ==
  CASE x = "shouting" /\ (i.fired[x] < 50 \/ i.file.kind # "none") -> "INFO"
    [] OTHER -> IF i.fired[x] >= 100 THEN "MEDIUM" ELSE "LOW"

-----------------------------------------------------------------------------
(* The text engine.                                                        *)

\* Invoices and statements say what scams say; the document engine reads them.
Transactional(i) == DocumentType(i.file) \in {"invoice", "receipt", "bank_statement"}

\* The detectors of a text; a pattern both see is one signal.
ScamSigns(i) ==
  LET message == IF MessageScam(i).ends = "found"
                 THEN Signals(MessageSigns(i), "nlp", MessageScam(i).confidence) ELSE <<>>
      email == IF EmailFraud(i).ends = "found"
               THEN Signals(EmailSigns(i), "nlp", EmailFraud(i).confidence) ELSE <<>>
  IN IF Transactional(i) THEN <<>> ELSE Unique(message \o email)

Scams == {Patterns[n].code : n \in DOMAIN Patterns} \ {"secrecy_request"}

\* What the text asks for, where no scam says so already.
IntentSigns(i, covered) ==
  When("credential_request" \in i.intents /\ covered \cap Scams = {}, "credential_request", "MEDIUM")
  \o When("prize_claim" \in i.intents /\ "LOTTERY_PRIZE" \notin covered, "reward_language",
          IF "link_click" \in i.intents THEN "MEDIUM" ELSE "LOW")

\* The scam detector's time pressure is the same observation as urgency.
PressureSigns(i, covered) ==
  LET techniques == <<"urgency", "authority", "suppression", "absolutes", "emotional", "vagueness",
                      "engagement_bait", "financial", "shouting">>
      counts(x) == x \in DOMAIN i.fired /\ ~(x = "urgency" /\ "urgency_pressure" \in covered)
      shown == SelectSeq(techniques, LAMBDA x : ~Transactional(i) /\ counts(x))
  IN [k \in DOMAIN shown |-> Trait(shown[k], TechniqueSeverity(i, shown[k]))]

TextSignals(i) ==
  LET covered == Codes(ScamSigns(i))
  IN Signals(When(i.hidden, "hidden_characters", "LOW"), "nlp", 70) \o ScamSigns(i)
     \o Signals(IntentSigns(i, covered), "nlp", 60) \o Signals(PressureSigns(i, covered), "nlp", 50)
     \o Signals(When(i.injected, "prompt_injection_attempt", "INFO"), "nlp", 70)

\* There is enough text in a language that is surely none of those covered.
CoverageGap(i) == i.language = "unsupported" /\ i.sure /\ i.letters >= 20

-----------------------------------------------------------------------------
(* Which sentences are claims to check.                                    *)

\* _claim_type.
ClaimType(c) ==
  IF c.link \/ c.imperative \/ c.intents \cap {"credential_request", "otp_request", "link_click"} # {}
  THEN "INSTRUCTION"
  ELSE IF c.opinion THEN "OPINION"
  ELSE IF c.personal /\ ~c.reported /\ ~c.named THEN "PERSONAL"
  ELSE IF c.words < 5 \/ c.words > 60 THEN "UNVERIFIABLE" ELSE "FACTUAL"

\* Those of the first ten sentences that are factual.
Claims(i) ==
  IF Transactional(i) THEN <<>>
  ELSE SelectSeq(SubSeq(i.sentences, 1, Smaller(10, Len(i.sentences))),
                 LAMBDA c : ClaimType(c) = "FACTUAL")

-----------------------------------------------------------------------------
(* The URL engine.                                                         *)

\* A brand's name in a domain that is not the brand's.
BrandSeverity(u) ==
  LET odd == "cheap_tld" \in u.traits \/ u.keywords
  IN IF u.token = "gov" /\ odd THEN "HIGH" ELSE IF odd \/ u.token = "gov" THEN "MEDIUM" ELSE "LOW"

\* _lookalike.
Lookalike(u) ==
  When(u.near /\ u.token = "none", "typosquat_domain", "HIGH")
  \o When(u.token # "none" /\ ~u.own /\ "brand_outside_domain" \notin u.traits,
          "brand_in_unofficial_domain", BrandSeverity(u))
  \o When("shortener" \in u.traits /\ u.named, "shortener_names_brand", "MEDIUM")
  \o When(u.random, "random_looking_domain", "LOW") \o When(u.encoded, "encoded_characters", "LOW")

\* _page_signals.
PageSigns(page) ==
  When("redirected" \in page, "cross_domain_redirect", "MEDIUM")
  \o When({"password", "offsite"} \subseteq page, "credential_form_offsite", "HIGH")
  \o When({"password", "plain"} \subseteq page, "insecure_password_form", "HIGH")
  \o When("branded" \in page, "brand_mismatch_page", IF "password" \in page THEN "HIGH" ELSE "MEDIUM")

\* One link: the feed knows abuse, the rest is what links look like.
LinkSignals(u, fetches) ==
  Signals(UrlSigns(u), "url", 65) \o Signals(Lookalike(u), "url", 60)
  \o (IF u.listed THEN <<Signal("threat_feed_match", "reputation", "HIGH", "retrieved", 90)>> ELSE <<>>)
  \o (IF fetches THEN Signals(PageSigns(u.page), "url", 60) ELSE <<>>)

\* The first five links, those that can be parsed; one signal of a code.
LinkEngineSignals(links, fetches) ==
  LET parsed == SelectSeq(SubSeq(links, 1, Smaller(5, Len(links))), LAMBDA u : u.host = "named")
  IN Unique(FlattenSeq([k \in DOMAIN parsed |-> LinkSignals(parsed[k], fetches)]))

-----------------------------------------------------------------------------
(* The investigation.                                                      *)

\* The claims that the evidence engine found contradicted each raise a signal.
EvidenceSignals(i) ==
  [k \in 1..Smaller(i.contradicted, Len(Claims(i))) |->
     Signal("claim_contradicted", "evidence", "HIGH", "retrieved", 80)]

\* Where an engine may raise.  The text engine hands its links over as it reads
\* them, its claims only with its result.
Raisers == {"none", "text", "text_detectors", "url", "evidence"}

\* A link of its own is no text, and a file may have none.
TextRun(i, raises) ==
  Run(~i.isUrl /\ HasText(i.file), raises \in {"text", "text_detectors"}, TextSignals(i), CoverageGap(i))

\* The links of a file's codes come first, those of the text after them.
Links(i, raises) ==
  LET read == i.isUrl \/ (HasText(i.file) /\ raises # "text")
      new == SelectSeq(i.links, LAMBDA u : u \notin ToSet(FileLinks(i.file)))
  IN FileLinks(i.file) \o (IF read THEN new ELSE <<>>)

LinkRun(i, raises) ==
  LET links == Links(i, raises)
  IN Run(links # <<>>, raises = "url", LinkEngineSignals(links, i.fetches), FALSE)

EvidenceRun(i, raises) ==
  Run(TextRun(i, raises).status = "ok" /\ Claims(i) # <<>>, raises = "evidence", EvidenceSignals(i), FALSE)

\* The stages of one run.
EngineResults(i, raises) ==
  FileRun(i.file) \o <<TextRun(i, raises), LinkRun(i, raises), EvidenceRun(i, raises)>>

Combined(engines) == FlattenSeq([k \in DOMAIN engines |-> engines[k].signals])

\* _payload: the points beside a signal are those of the last contribution with
\* its code, and contributions go from the most points to the least.
Displayed(signals, split) ==
  LET scoring == Ordered(signals, Found(signals))
      points == PointsOf(signals, DefaultConfig, split, Found(signals))
      of(code) == {points[k] : k \in {j \in DOMAIN scoring : scoring[j].code = code}}
  IN [k \in DOMAIN signals |-> IF of(signals[k].code) = {} THEN 0 ELSE Min(of(signals[k].code))]

-----------------------------------------------------------------------------
(* Properties.                                                             *)

\* Nothing the text or its links show is counted twice by their engine, and text
\* written for the eyes of an AI system moves no score.
SignalsCountOnce(i) ==
  LET all == Combined(EngineResults(i, "none"))
      alone == SelectSeq(all, LAMBDA signal : signal.code # "prompt_injection_attempt")
      once(signals) == \A m, n \in DOMAIN signals : signals[m].code = signals[n].code => m = n
      text == TextRun(i, "none").signals
  IN /\ once(text) /\ once(LinkRun(i, "none").signals)
     /\ ~({"urgency", "urgency_pressure"} \subseteq Codes(text))
     /\ Score(alone, DefaultConfig) = Score(all, DefaultConfig)

\* A file whose text was there and not read, because nothing can recognise it.
Unread(f) ==
  /\ f.kind # "none" /\ ~f.ocr
  /\ IF f.kind = "pdf" THEN Opened(f) /\ ScannedPages(f) # <<>> ELSE QrCodes(f) = <<>>

\* "Nothing found" is said only of an input every engine that applies to it could
\* read: never of a language surely not covered or of scans without recognition,
\* never with an engine's failure.
NothingFoundIsEarned(i, raises) ==
  LET results == EngineResults(i, raises)
  IN Scoring(Combined(results)) = <<>> /\ Determination(Combined(results), results) = "ASSESSED"
       => /\ CoverageGap(i) => TextRun(i, raises).status = "not_applicable"
          /\ ~Unread(i.file)
          /\ \A k \in DOMAIN results : results[k].status # "error"

\* image.py: a decoded web address goes through the URL engine like any other
\* link, whatever becomes of the text beside it and however many links that has.
CodesAreExamined(i, raises) ==
  LET links == FileLinks(i.file)
  IN \A k \in DOMAIN links : raises # "url" /\ links[k].host = "named" =>
       Codes(LinkSignals(links[k], i.fetches)) \subseteq Codes(LinkRun(i, raises).signals)

\* One technique of persuasion is never flagged, and more of them are not
\* needed than three.
BreadthFlags(fired) ==
  /\ ManipulationScore(fired) >= FlagThreshold => Cardinality(DOMAIN fired) >= 2
  /\ Cardinality(DOMAIN fired) >= 3 /\ (\A x \in DOMAIN fired : fired[x] >= 50)
       => ManipulationScore(fired) >= FlagThreshold

\* One more sign in an input never lowers the score of its investigation.  (A page
\* more may make a text an invoice, or complete one.)
InputsOnlyAdd(i, more) ==
  (i.file.kind = "pdf" => i.file.pages = more.file.pages) =>
  Score(Combined(EngineResults(more, "none")), DefaultConfig)
    >= Score(Combined(EngineResults(i, "none")), DefaultConfig)

\* risk.py: the displayed breakdown sums to the displayed score.
DisplayedPointsAddUp(i) ==
  LET signals == Combined(EngineResults(i, "none"))
  IN \A split \in Splits(signals, DefaultConfig) :
       TotalOf(Displayed(signals, split)) = Score(signals, DefaultConfig)
===============================================================================
