------------------------------ MODULE Conclusions ------------------------------
(***************************************************************************)
(* What a reader is told of an investigation: its label, the advice and    *)
(* how urgent that is (explain.py, fraud/guidance.py), the reading of the  *)
(* findings by a language model (interpret.py) and which checks the report *)
(* says were completed (report.py).                                        *)
(***************************************************************************)
EXTENDS InvestigationSigns

-----------------------------------------------------------------------------
(* The label.                                                              *)

PhishingCodes ==
  {"punycode_host", "mixed_script_host", "ip_host", "brand_outside_domain", "typosquat_domain",
   "brand_in_unofficial_domain", "credential_path", "userinfo_in_url", "insecure_credential_page",
   "credential_form_offsite", "insecure_password_form", "brand_mismatch_page", "credential_request"}

PhishingCategories == {"PHISHING", "SMISHING", "BANK_IMPERSONATION", "GOVERNMENT_IMPERSONATION"}

\* The categories of the detectors that the text engine ran, in their order.
Categories(i, raises) ==
  LET found == SelectSeq(<<MessageScam(i), EmailFraud(i)>>,
                         LAMBDA o : o.ends = "found" /\ o.category \notin {"NONE", "UNKNOWN"})
  IN IF TextRun(i, raises).status # "ok" \/ Transactional(i) THEN <<>>
     ELSE [k \in DOMAIN found |-> found[k].category]

\* The signals with their points, of which the label is made.
Contributions(signals, split) ==
  LET scoring == Ordered(signals, Found(signals))
      points == PointsOf(signals, DefaultConfig, split, Found(signals))
  IN [k \in DOMAIN scoring |-> [code |-> scoring[k].code, family |-> scoring[k].family, points |-> points[k]]]

PointsIn(contributions, family) ==
  LET of == SelectSeq(contributions, LAMBDA c : c.family = family)
  IN TotalOf([k \in DOMAIN of |-> of[k].points])

\* classify: <<label, category>>.
Label(score, determination, categories, contributions) ==
  LET codes == {contributions[k].code : k \in {j \in DOMAIN contributions : contributions[j].points > 0}}
      phishing == SelectSeq(categories, LAMBDA c : c \in PhishingCategories)
      links == 10 * PointsIn(contributions, "url") >= 4 * score
  IN IF determination = "INCONCLUSIVE" THEN <<"inconclusive", "NONE">>
     ELSE IF score < 15 THEN <<"no_significant_signals", "NONE">>
     ELSE IF codes \cap PhishingCodes # {} \/ phishing # <<>> \/ links
     THEN <<"potential_phishing", IF phishing = <<>> THEN "PHISHING" ELSE phishing[1]>>
     ELSE IF categories # <<>> THEN <<"potential_scam", categories[1]>>
     ELSE IF 2 * PointsIn(contributions, "document_media") >= score
     THEN <<"potential_document_manipulation", "UNKNOWN">>
     ELSE IF PointsIn(contributions, "evidence") > 0 THEN <<"potential_misinformation", "NONE">>
     ELSE IF codes \cap DOMAIN TechniqueWeight # {} THEN <<"potential_manipulation", "NONE">>
     ELSE <<"suspicious_content", "UNKNOWN">>

-----------------------------------------------------------------------------
(* The advice.                                                             *)

\* The categories there is guidance for; others get the fallback.
Guidance ==
  {"PHISHING", "BANK_IMPERSONATION", "PAYMENT_SCAM", "DELIVERY_SCAM", "LOTTERY_PRIZE", "JOB_SCAM",
   "LOAN_SCAM", "INVESTMENT_SCAM", "CRYPTO_SCAM", "TECH_SUPPORT", "GOVERNMENT_IMPERSONATION",
   "ROMANCE_SCAM", "ECOMMERCE_SCAM", "ADVANCE_FEE", "EXTORTION", "UTILITY_SCAM", "SOCIAL_ENGINEERING"}

RecommendedActions(label) ==
  CASE label[1] = "inconclusive" -> "unverified"
    [] label[1] = "potential_misinformation" -> "check the sources"
    [] label[1] = "potential_document_manipulation" -> "confirm with the issuer"
    [] label[1] = "no_significant_signals" -> "no strong warning signs"
    [] OTHER -> IF label[2] \in Guidance THEN label[2] ELSE "fallback"

Urgency(determination, level) ==
  IF determination = "INCONCLUSIVE" THEN "unverified"
  ELSE [CRITICAL |-> "act_now", HIGH |-> "act_now", MEDIUM |-> "verify_first", LOW |-> "stay_alert"][level]

-----------------------------------------------------------------------------
(* The reading by a language model.  A reply is a sequence of sentences,   *)
(* each with a length, the findings it cites and the scores and levels it  *)
(* states; the last may be cut off.                                        *)

MaxOutput == 1400

\* The findings that are numbered for it: eight signals, eight sources, three of
\* each claim that was checked.
SignalIds(contributions) ==
  1..Smaller(8, Len(SelectSeq(contributions, LAMBDA c : c.points > 0)))

SourceIds(claims) ==
  LET checked == SelectSeq(claims, LAMBDA c : c.checked)
  IN 1..Smaller(8, TotalOf([k \in DOMAIN checked |-> Smaller(3, checked[k].sources)]))

\* _whole_sentences.
WholeSentences(reply) == SelectSeq(reply, LAMBDA s : s.whole)

\* A long reply is cut where the limit is, and then where a sentence ends.
Shortened(reply) ==
  LET upTo(k) == TotalOf([j \in 1..k |-> reply[j].length])
      within == SelectSeq([k \in DOMAIN reply |-> k], LAMBDA k : reply[k].whole /\ upTo(k) <= MaxOutput)
  IN IF upTo(Len(reply)) <= MaxOutput THEN reply ELSE SubSeq(reply, 1, Len(within))

\* validate: what states another score or level is discarded; citations that do not
\* resolve are removed, and what is left without one is discarded.
Validated(reply, signalIds, sourceIds, score, level) ==
  LET text == Shortened(reply)
      known == ({"S"} \X signalIds) \cup ({"source"} \X sourceIds)
      cited == [k \in DOMAIN text |-> [text[k] EXCEPT !.cites = @ \cap known]]
      states(what) == UNION {text[k][what] : k \in DOMAIN text}
      rejected == \/ text = <<>> \/ \E s \in states("scores") : s # score
                  \/ \E l \in states("levels") : l # level
                  \/ \A k \in DOMAIN cited : cited[k].cites = {}
  IN IF rejected THEN [status |-> "rejected", text |-> <<>>]
     ELSE [status |-> "generated", text |-> cited]

\* interpret.  `answer` is how the provider ends: it is not configured, refuses, says
\* nothing, stops at its limit, or answers.
Interpreted(answer, reply, signalIds, sourceIds, score, level) ==
  LET none(status) == [status |-> status, text |-> <<>>]
      raw == IF answer = "truncated" THEN WholeSentences(reply) ELSE reply
  IN CASE answer = "not_configured" -> none("not_configured")
       [] answer # "not_configured" /\ signalIds = {} /\ sourceIds = {} -> none("skipped")
       [] OTHER -> IF answer = "refused" THEN none("refused")
                   ELSE IF reply = <<>> THEN none("unavailable")
                   ELSE Validated(raw, signalIds, sourceIds, score, level)

-----------------------------------------------------------------------------
(* The report's checks.                                                    *)

Check(status) ==
  CASE status = "ok" -> "completed" [] status = "not_applicable" -> "not_applicable"
    [] status = "error" -> "not_completed"

\* How an engine's check and the recognition of a file's text are listed.
ReportChecks(i, results) ==
  LET needed == IF i.file.kind = "pdf" THEN ScannedPages(i.file) # <<>> ELSE i.file.kind = "image"
      recognised == IF FileRun(i.file)[1].status # "ok" \/ ~needed THEN {}
                    ELSE {IF i.file.ocr THEN "completed" ELSE "not_completed"}
  IN [engines |-> [k \in DOMAIN results |-> Check(results[k].status)],
      ocr |-> IF i.file.kind = "none" \/ (i.file.kind = "pdf" /\ ~Opened(i.file)) THEN {} ELSE recognised]

-----------------------------------------------------------------------------
(* Properties.                                                             *)

\* What a reader is told agrees: advice that nothing strong was found, or that
\* nothing could be checked, never stands beside a call to act; a threat a feed
\* lists and a claim that is contradicted are never called insignificant; a scam is
\* given the guidance of its kind, never the fallback.
ConclusionsAgree(i, raises) ==
  LET results == EngineResults(i, raises)
      signals == Combined(results)
      determination == Determination(signals, results)
      score == Score(signals, DefaultConfig)
      urgency == Urgency(determination, LevelFor(score, DefaultConfig))
      categories == Categories(i, raises)
      strong == {"threat_feed_match", "claim_contradicted"} \cap Codes(signals) # {}
  IN \A contributions \in {Contributions(signals, split) : split \in Splits(signals, DefaultConfig)} :
       LET label == Label(score, determination, categories, contributions)
           advice == RecommendedActions(label)
       IN /\ advice = "unverified" <=> urgency = "unverified"
          /\ advice = "no strong warning signs" => urgency = "stay_alert" /\ ~strong
          /\ label[1] \in {"potential_phishing", "potential_scam"} => advice \in Guidance

\* The report of an input in which nothing was found lists no check as not
\* completed, but the recognition of a text beside codes that were decoded.
ReportBearsOut(i, raises) ==
  LET results == EngineResults(i, raises)
      checks == ReportChecks(i, results)
  IN Scoring(Combined(results)) = <<>> /\ Determination(Combined(results), results) = "ASSESSED"
       => /\ \A k \in DOMAIN results : checks.engines[k] # "not_completed"
          /\ "not_completed" \in checks.ocr => QrCodes(i.file) # <<>>

\* What is shown of a language model's reading cites findings, in whole sentences,
\* within the limit, and states no other score or level; a failure shows nothing.
ReadingIsGrounded(answer, reply, signalIds, sourceIds, score, level) ==
  LET reading == Interpreted(answer, reply, signalIds, sourceIds, score, level)
      cited == UNION {reading.text[k].cites : k \in DOMAIN reading.text}
  IN IF reading.status # "generated" THEN reading.text = <<>>
     ELSE /\ cited # {} /\ cited \subseteq ({"S"} \X signalIds) \cup ({"source"} \X sourceIds)
          /\ \A k \in DOMAIN reading.text : /\ answer = "truncated" => reading.text[k].whole
                                            /\ reading.text[k].scores \subseteq {score}
                                            /\ reading.text[k].levels \subseteq {level}
          /\ TotalOf([k \in DOMAIN reading.text |-> reading.text[k].length]) <= MaxOutput
===============================================================================
