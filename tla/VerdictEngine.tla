---------------------------- MODULE VerdictEngine ----------------------------
(***************************************************************************)
(* domain/verdict/engine.py: what is concluded about one claim from the    *)
(* evidence on it.  A fact-checker's review of the claim decides at once;  *)
(* then a language model is asked, then another, and without an answer of  *)
(* theirs the evidence is weighed by rules.                                *)
(*                                                                         *)
(* A claim is what the rules tell apart of its wording: the stems of its   *)
(* content words, whether it is negated, whether it speaks of all.  An     *)
(* item of evidence is its stems, its similarity to the claim and the      *)
(* credibility of its source (hundredths), the form it has and what it     *)
(* says.  An amount of support is a multiple of 10^-5.                     *)
(***************************************************************************)
EXTENDS Naturals, Sequences, FiniteSets, FiniteSetsExt

Lesser(a, b) == IF a < b THEN a ELSE b
Greater(a, b) == IF a < b THEN b ELSE a

-----------------------------------------------------------------------------
(* A review that settles the claim, and what the language models say.      *)

Reviewed == [true |-> "TRUE", false |-> "FALSE", misleading |-> "MISLEADING",
             undecided |-> "UNVERIFIED"]

\* The review is of this claim: enough of the claim's words are in the claim
\* it quotes or, where it quotes none, in its title.
Aligned(e) == e.alike >= IF e.quoted THEN 40 ELSE 35

\* The items that would end the matter; the first of them does.
Settling(s) == {i \in DOMAIN s : s[i].score >= 90 /\ s[i].review # "none" /\ Aligned(s[i])}

Answers == {"TRUE", "FALSE", "MISLEADING", "UNVERIFIED"}

\* What a model says that is no verdict is no conclusion; what cannot be read,
\* or no reply, is no answer.
Read(reply) == CASE reply \in Answers -> {reply}
                 [] reply = "other" -> {"UNVERIFIED"}
                 [] OTHER -> {}

\* Two calls to the first Gemini model and one to each other while they are
\* busy; whatever else comes of a call is the end of it.
Gemini(replies) ==
  LET final == {n \in DOMAIN replies : replies[n] # "busy"}
  IN IF final = {} THEN {} ELSE Read(replies[Min(final)])

-----------------------------------------------------------------------------
(* The rules: what one item says.                                          *)

Matches(c, e) == c.stems \cap e.stems

\* The denominator is capped so that a long claim is not harder to match.
Share(c, e) ==
  (100 * Cardinality(Matches(c, e))) \div Greater(1, Lesser(Cardinality(c.stems), 5))

\* A question that opens the text, with next to nothing after it.
Interrogative(e) == e.form = "question" /\ e.body < 20

\* Neither unrelated nor background, neither an exercise nor a question.
OnTopic(c, e) ==
  /\ e.form # "blank"
  /\ e.sim >= 2 \/ e.keywords >= 30
  /\ IF Cardinality(c.stems) >= 3 THEN Cardinality(Matches(c, e)) >= 2 /\ Share(c, e) >= 30
     ELSE Matches(c, e) # {}
  /\ e.form # "exercise" /\ ~Interrogative(e)

\* The claim's words that are in at most half of the items, or in one.
Distinctive(c, s) ==
  LET found(w) == Cardinality({i \in DOMAIN s : w \in s[i].stems})
      rare == {w \in c.stems : found(w) <= 1 \/ 2 * found(w) <= Len(s)}
  IN IF rare = {} THEN c.stems ELSE rare

\* A rating, or the words for and against in the sentences about the claim.
Polarity(e) ==
  CASE e.rating \in {"true", "false", "misleading"} -> e.rating
    [] e.rating = "none" /\ e.words = {"true"} -> "true"
    [] e.rating = "none" /\ e.words = {"false"} -> "false"
    [] e.rating = "none" /\ e.words = {"true", "false"} -> "mixed"
    [] OTHER -> "none"

\* A negation up to four words before a word of the claim, in one sentence, that
\* is not "not only" or "not always".
Negates(e) == \E n \in e.negations : n.before <= 4 /\ ~n.hedged

\* The predicted stance only ever adds a refutation.
Refuting(e) == Polarity(e) \in {"false", "misleading"} \/ Negates(e) \/ e.predicted = "refutes"

Close(e) == e.sim >= 15 /\ e.score >= 50

\* The claim speaks of all, the headline of some.
ScopeMismatch(c, e) == c.universal /\ ~e.universal

Confirms(c, e) ==
  Polarity(e) = "true" \/ (Close(e) /\ (Cardinality(c.stems) > 3 \/ Share(c, e) >= 85))

\* A credible source that discusses the claim without debunking words.
Discusses(c, e) ==
  (e.sim >= 5 \/ Share(c, e) >= 60) /\ e.score >= 60 /\ Share(c, e) >= 50

\* It touches what distinguishes the claim, not merely its subject.
Implies(c, e, s) ==
  /\ Discusses(c, e) /\ Matches(c, e) \cap Distinctive(c, s) # {}
  /\ e.knowledge \/ (e.score >= 70 /\ (e.sim >= 10 \/ Share(c, e) >= 60))

Stance(c, e, s) ==
  IF ~OnTopic(c, e) THEN "off"
  ELSE IF c.negated THEN (IF Refuting(e) THEN "supports" ELSE "refutes")
  ELSE IF Refuting(e) THEN "refutes"
  ELSE IF (Polarity(e) = "true" \/ Close(e)) /\ ScopeMismatch(c, e) THEN "narrower"
  ELSE IF Confirms(c, e) THEN "supports"
  ELSE IF Polarity(e) = "mixed" THEN "mixed"
  ELSE IF Implies(c, e, s) THEN "implies"
  ELSE IF Discusses(c, e) THEN "neutral" ELSE "off_topic"

\* What a stance adds for the claim and against it, per unit of impact.
For == [off |-> 0, supports |-> 15, refutes |-> 0, narrower |-> 0, mixed |-> 5,
        implies |-> 10, neutral |-> 3, off_topic |-> 0]
Against == [off |-> 0, supports |-> 0, refutes |-> 25, narrower |-> 0, mixed |-> 8,
            implies |-> 0, neutral |-> 0, off_topic |-> 0]

-----------------------------------------------------------------------------
(* The rules: all of it together.                                          *)

\* The items with a stance: the model's answer on each is one batched pass.
Stances(c, s) == [i \in DOMAIN s |-> Stance(c, s[i], s)]

Taking(c, s, stances) == {i \in DOMAIN s : Stances(c, s)[i] \in stances}
Supporting(c, s) == Taking(c, s, {"supports", "implies"})
Refutations(c, s) == Taking(c, s, {"refutes"})
Relevant(c, s) == {i \in DOMAIN s : OnTopic(c, s[i])}

\* A rating of a fact-checker, of whichever tendency, is no snippet.
Adjudicated(c, s) == \E i \in Relevant(c, s) : s[i].rating # "none"

\* Mutant of Thin: one source is enough.
ThinIfEmpty(c, s, side) == ~Adjudicated(c, s) /\ side = {}

\* A side with one source that is not both authoritative and on the point.
Thin(c, s, side) ==
  /\ ~Adjudicated(c, s) /\ Cardinality(side) < 2
  /\ \A i \in side : s[i].score < 80 \/ Share(c, s[i]) < 50

Weighed(c, s) ==
  LET stance == Stances(c, s)
      total(weight) == SumFunction([i \in DOMAIN s |-> s[i].sim * s[i].score * weight[stance[i]]])
  IN [relevant |-> Relevant(c, s) # {}, support |-> total(For), contra |-> total(Against),
      thinFor |-> Thin(c, s, Supporting(c, s)), thinAgainst |-> Thin(c, s, Refutations(c, s)),
      nearest |-> Max({0} \cup {s[i].sim : i \in Relevant(c, s)})]

\* The greater side rests on a single source.
OneSided(w) == (w.contra > w.support /\ w.thinAgainst) \/ (w.support > w.contra /\ w.thinFor)

Decidable(w) == w.relevant /\ ~OneSided(w) /\ Greater(w.contra, w.support) > 2000

\* One side has a fifth more than the other, or the claim misleads.
Decision(w) ==
  IF ~Decidable(w) THEN "UNVERIFIED"
  ELSE IF 5 * w.contra > 6 * w.support THEN "FALSE"
  ELSE IF 5 * w.support > 6 * w.contra THEN "TRUE"
  ELSE IF 10 * (Greater(w.contra, w.support) - Lesser(w.contra, w.support))
            < 3 * Greater(w.contra, w.support) THEN "MISLEADING"
  ELSE "UNVERIFIED"

\* In hundredths.
Confidence(w) ==
  CASE Decision(w) = "FALSE" -> Lesser(95, 45 + Lesser(50, (4 * w.contra) \div 10000))
    [] Decision(w) = "TRUE" -> Lesser(92, 45 + Lesser(47, (35 * w.support) \div 100000))
    [] Decision(w) = "MISLEADING" -> Lesser(65, 35 + (3 * w.nearest) \div 10)
    [] OTHER -> IF ~w.relevant THEN 25
                ELSE IF OneSided(w) THEN Lesser(40, 25 + (2 * w.nearest) \div 10)
                ELSE Lesser(50, 30 + (2 * w.nearest) \div 10)

\* evaluate_claim where no language model may decide.
ByRules(c, s) ==
  IF Settling(s) # {} THEN [verdict |-> Reviewed[s[Min(Settling(s))].review], confidence |-> 98]
  ELSE IF s = <<>> THEN [verdict |-> "UNVERIFIED", confidence |-> 20]
  ELSE [verdict |-> Decision(Weighed(c, s)), confidence |-> Confidence(Weighed(c, s))]

\* evaluate_claim: a model's answer comes before the rules, after a review.
Evaluated(c, s, gemini, claude) ==
  IF Settling(s) # {} THEN {ByRules(c, s).verdict}
  ELSE IF Gemini(gemini) # {} THEN Gemini(gemini)
  ELSE IF Read(claude) # {} THEN Read(claude)
  ELSE {ByRules(c, s).verdict}

-----------------------------------------------------------------------------
(* Properties.                                                             *)

\* "A directional verdict needs a real evidentiary base": it is a review's or a
\* model's, or two sources argue for it, or one that is credible and on the
\* point, or there is a fact-checker's rating among the evidence.
RestsOnEvidence(c, s, gemini, claude) ==
  LET argues == [TRUE |-> Supporting(c, s), FALSE |-> Refutations(c, s)]
  IN \A verdict \in Evaluated(c, s, gemini, claude) \cap DOMAIN argues :
       \/ Settling(s) # {} \/ Gemini(gemini) \cup Read(claude) # {} \/ Adjudicated(c, s)
       \/ Cardinality(argues[verdict]) >= 2
       \/ \E i \in argues[verdict] : s[i].score >= 80 /\ Share(c, s[i]) >= 50

\* An item that comes to deny the claim never makes it true that was not (and
\* one that denies a claim which is itself a denial never makes it false).
DebunkingCounts(c, s) ==
  LET wanted == IF c.negated THEN "FALSE" ELSE "TRUE"
      debunked(i) == [s EXCEPT ![i].negations = {[before |-> 1, hedged |-> FALSE]}]
  IN \A i \in DOMAIN s :
       ByRules(c, debunked(i)).verdict = wanted => ByRules(c, s).verdict = wanted
==============================================================================
