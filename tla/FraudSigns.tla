------------------------------ MODULE FraudSigns ------------------------------
(***************************************************************************)
(* fraud/: what the detectors of a scan see in a text, and what they make  *)
(* of it: detectors/message.py, url.py and email.py with email_auth.py and *)
(* classify.py.                                                            *)
(*                                                                         *)
(* A text is what its words, links and headers show, as far as the rules   *)
(* tell it apart: which patterns occur and how they are meant, the traits  *)
(* of every link, what the headers say of the sender.                      *)
(***************************************************************************)
EXTENDS RiskScore

Trait(code, severity) == [code |-> code, severity |-> severity]

When(holds, code, severity) == IF holds THEN <<Trait(code, severity)>> ELSE <<>>

\* The traits of a list that a thing has, in the order of the list.
Having(codes, list) == SelectSeq(list, LAMBDA trait : trait.code \in codes)

\* Of several signs with one code the first stays.
Unique(signs) ==
  LET first == SelectSeq([i \in DOMAIN signs |-> i],
                         LAMBDA i : \A j \in 1..(i - 1) : signs[j].code # signs[i].code)
  IN [k \in DOMAIN first |-> signs[first[k]]]

ScoreOf(signs) == ScoreFromIndicators([i \in DOMAIN signs |-> SeverityWeight[signs[i].severity]])

Codes(signs) == {signs[i].code : i \in DOMAIN signs}
Strong(signs) == \E i \in DOMAIN signs : signs[i].severity = "HIGH"

\* A detector that finds nothing to say is silent.
Silent == [ends |-> "silent", category |-> "NONE", risk |-> 0, confidence |-> 0]
Finding(category, signs, confidence) ==
  [ends |-> "found", category |-> category, risk |-> ScoreOf(signs), confidence |-> confidence]

-----------------------------------------------------------------------------
(* Messages.                                                               *)

\* The patterns in the order they are looked for.
Patterns ==
  LET named(code, category, severity) == [code |-> code, category |-> category, severity |-> severity]
      high(category) == named(category, category, "HIGH")
      medium(category) == named(category, category, "MEDIUM")
  IN <<high("BANK_IMPERSONATION"), high("PAYMENT_SCAM"), high("DELIVERY_SCAM"),
       high("LOTTERY_PRIZE"), medium("JOB_SCAM"), medium("LOAN_SCAM"), high("INVESTMENT_SCAM"),
       high("CRYPTO_SCAM"), high("TECH_SUPPORT"), high("GOVERNMENT_IMPERSONATION"),
       named("paid_task_job", "JOB_SCAM", "HIGH"), named("job_fee", "JOB_SCAM", "HIGH"),
       high("ADVANCE_FEE"), high("UTILITY_SCAM"),
       named("impersonation_known_contact", "SOCIAL_ENGINEERING", "HIGH"),
       named("secrecy_request", "SOCIAL_ENGINEERING", "MEDIUM"), medium("ROMANCE_SCAM"),
       named("billing_pretext", "PHISHING", "MEDIUM"), high("EXTORTION")>>

\* An occurrence of a pattern counts unless it is negated (weakly, only where it
\* names a fee), or a warning, a report or a routine notice describes it.  The
\* secrecy pattern is itself a negation.
Affirmative(o) ==
  /\ o.before = "nothing" \/ (o.before = "weak" /\ ~o.fee)
  /\ ~o.described
  /\ o.secrecy \/ ~o.inside

\* A bank that sends its customers to its own branch or app, without a link or
\* a deadline, is a bank.
Genuine(t) == t.links = <<>> /\ t.official /\ ~t.urgent

\* The numbers of the patterns that are matched.
Matched(t) ==
  LET matched == {n \in DOMAIN Patterns : \E o \in t.occurs : o.pattern = n /\ Affirmative(o)}
  IN IF Genuine(t) THEN {n \in matched : Patterns[n].category # "BANK_IMPERSONATION"} ELSE matched

MessageSigns(t) ==
  LET matched == Matched(t)
      order == SelectSeq([n \in DOMAIN Patterns |-> n], LAMBDA n : n \in matched)
  IN [k \in DOMAIN order |-> Trait(Patterns[order[k]].code, Patterns[order[k]].severity)]
     \o When(t.disguised, "disguised_keywords", "MEDIUM") \o When(t.urgent, "urgency_pressure", "MEDIUM")
     \o When(t.links # <<>>, "actionable_link", "MEDIUM") \o When(t.switched, "code_switched", "INFO")

\* The first pattern matched names the category.
MessageScam(t) ==
  LET matched == Matched(t)
  IN IF t.words < 5 THEN [Silent EXCEPT !.ends = "inapplicable"]
     ELSE IF t.report \/ matched = {} THEN Silent
     ELSE Finding(Patterns[Min(matched)].category, MessageSigns(t),
                  Smaller(80, 42 + 13 * Cardinality(matched)))

-----------------------------------------------------------------------------
(* Links.                                                                  *)

HostTraits ==
  <<Trait("punycode_host", "HIGH"), Trait("mixed_script_host", "HIGH"), Trait("ip_host", "HIGH"),
    Trait("brand_outside_domain", "HIGH"), Trait("hyphen_heavy", "LOW"),
    Trait("deep_subdomains", "MEDIUM"), Trait("cheap_tld", "LOW"), Trait("shortener", "MEDIUM")>>

\* A sign-in path counts where something about the host is wrong already.  (What
\* stands before an '@' is looked at after it.)
Suspect(u) == u.traits \cap (Codes(HostTraits) \ {"shortener"}) # {} \/ u.freeHost

HarvestSign(u) ==
  CASE u.harvest /\ Suspect(u) -> <<Trait("credential_path", IF u.freeHost THEN "HIGH" ELSE "MEDIUM")>>
    [] u.harvest /\ ~Suspect(u) -> <<Trait("credential_path_benign", "INFO")>>
    [] OTHER -> When(u.freeHost, "free_hosting", "LOW")

\* inspect_url.
UrlSigns(u) ==
  CASE u.host = "malformed" -> <<Trait("unparseable_url", "MEDIUM")>>
    [] u.host = "none" -> <<>>
    [] OTHER -> Having(u.traits, HostTraits) \o HarvestSign(u)
                \o When(u.userinfo, "userinfo_in_url", "HIGH")
                \o When(~u.encrypted /\ u.harvest, "insecure_credential_page", "MEDIUM")

\* The signs of the first n links.
LinkSigns(links, n) == FlattenSeq([k \in 1..Smaller(n, Len(links)) |-> UrlSigns(links[k])])

\* Nothing structural is weak evidence of safety.
UrlStructure(t) ==
  LET signs == Unique(LinkSigns(t.links, 5))
  IN IF t.links = <<>> THEN [Silent EXCEPT !.ends = "inapplicable"]
     ELSE IF signs = <<>> THEN Finding("NONE", <<>>, 25)
     ELSE Finding(IF Strong(signs) THEN "PHISHING" ELSE "UNKNOWN", signs,
                  Smaller(75, 35 + 12 * Len(signs)))

-----------------------------------------------------------------------------
(* E-mail.                                                                 *)

Nothing == [spf |-> "none", dkim |-> {}, dmarc |-> "none"]

\* What the receiving server recorded, in its topmost header: the first result of
\* SPF and DMARC, every one of DKIM.  A result that is no result is not read.
AuthResults(header) ==
  LET results(method) == SelectSeq(header, LAMBDA r : r.method = method /\ r.result # "unknown")
      first(method) == IF results(method) = <<>> THEN "none" ELSE results(method)[1].result
  IN [spf |-> first("spf"), dmarc |-> first("dmarc"),
      dkim |-> {results("dkim")[i].result : i \in DOMAIN results("dkim")}]

\* A header that says nothing leaves the older Received-SPF.
Parse(t) ==
  IF AuthResults(t.header) # Nothing THEN AuthResults(t.header)
  ELSE [Nothing EXCEPT !.spf = t.received]

\* Failures only: a pass is reported, never scored as safety.
AuthSigns(auth) ==
  IF auth.dmarc = "fail" THEN <<Trait("email_dmarc_fail", "HIGH")>>
  ELSE When(auth.spf = "fail", "email_spf_fail", "MEDIUM")
       \o When(auth.spf = "softfail", "email_spf_softfail", "LOW")
       \o When(auth.dkim # {} /\ auth.dkim \subseteq {"fail", "permerror"}, "email_dkim_fail", "MEDIUM")

\* The name shown is an institution's and the address is not, or is an address.
SenderSigns(t) ==
  When({t.from, t.reply} \cap {"none"} = {} /\ t.reply # t.from, "replyto_mismatch", "HIGH")
  \o When("institution" \in t.shown /\ t.from = "free", "institution_on_free_mail", "HIGH")
  \o When("institution" \in t.shown /\ t.from = "other", "display_name_mismatch", "MEDIUM")
  \o When("address" \in t.shown /\ t.from # "none", "address_as_display_name", "HIGH")

Requests ==
  <<Trait("bec_details_changed", "HIGH"), Trait("bec_gift_card", "HIGH"),
    Trait("cred_verification", "MEDIUM"), Trait("cred_account_closure", "MEDIUM")>>

EmailSigns(t) ==
  Unique(AuthSigns(Parse(t)) \o SenderSigns(t) \o Having(t.asks, Requests)
         \o SelectSeq(LinkSigns(t.links, 3), LAMBDA sign : sign.severity \in {"HIGH", "MEDIUM"}))

\* The caller says so, or headers on top, or two words of a letter.
IsEmail(t) == t.hint = "email" \/ t.headed \/ t.letterWords >= 2

EmailFraud(t) ==
  LET signs == EmailSigns(t)
      bec == Codes(signs) \cap {"bec_details_changed", "bec_gift_card"} # {}
  IN IF ~IsEmail(t) THEN [Silent EXCEPT !.ends = "inapplicable"]
     ELSE IF signs = <<>> THEN Silent
     ELSE Finding(IF bec THEN "SOCIAL_ENGINEERING" ELSE "PHISHING", signs,
                  Smaller(75, 35 + 10 * Len(signs)))

-----------------------------------------------------------------------------
(* A scan.                                                                 *)

\* All detectors, one of which may raise.
Scanned(t, raises) ==
  LET ends(name, outcome) == IF name = raises /\ outcome.ends # "inapplicable"
                             THEN [outcome EXCEPT !.ends = "failed"] ELSE outcome
  IN <<ends("message", MessageScam(t)), ends("url", UrlStructure(t)), ends("email", EmailFraud(t))>>

ScanResult(t, raises) == Combine(Findings(Scanned(t, raises)))

-----------------------------------------------------------------------------
(* Properties.                                                             *)

\* One more sign of whatever kind never lowers the score of a scan, nor the score
\* and confidence of a detector.
SignsOnlyAdd(t, more, raises) ==
  LET before == Scanned(t, raises)
      after == Scanned(more, raises)
  IN /\ Combine(Findings(after)).score >= Combine(Findings(before)).score
     /\ \A k \in 1..3 : /\ after[k].risk >= before[k].risk
                        /\ after[k].confidence >= before[k].confidence

\* What the receiving server recorded never clears a sender: the score is no lower
\* than if it had recorded nothing.
AuthenticationNeverClears(t) ==
  EmailFraud(t).risk >= EmailFraud([t EXCEPT !.header = <<>>, !.received = "none"]).risk

\* A text with one sign of all kinds, whatever is noted beside it for context, is
\* never more than a MEDIUM risk; and no detector that failed is counted.
OneSignIsNoProof(t) ==
  LET weighty(signs) == SelectSeq(signs, LAMBDA sign : sign.severity # "INFO")
      moderate(risk) == RiskLevel(risk) \in {"SAFE", "LOW", "MEDIUM"}
      score == ScanResult(t, "none").score
  IN /\ Len(weighty(MessageSigns(t))) <= 1 => moderate(MessageScam(t).risk)
     /\ Len(weighty(Unique(LinkSigns(t.links, 5)))) <= 1 => moderate(UrlStructure(t).risk)
     /\ \A raises \in {"message", "url", "email"} : ScanResult(t, raises).score <= score

\* A page that asks to sign in, on a host with nothing wrong, over an encrypted
\* connection, is no risk.
SignInPagesAreFine(t) ==
  (\A k \in DOMAIN t.links : t.links[k].traits = {} /\ t.links[k].encrypted /\ t.links[k].host = "named"
                              /\ ~t.links[k].freeHost /\ ~t.links[k].userinfo)
    => UrlStructure(t).risk = 0
==============================================================================
