------------------------------ MODULE RiskScore ------------------------------
(***************************************************************************)
(* How signals become a score: investigations/risk.py with                 *)
(* risk_config.py for an investigation, fraud/contract.py and              *)
(* fraud/registry.py for the signals of one family and for the detectors   *)
(* of a fraud scan.                                                        *)
(*                                                                         *)
(* A signal is its family, severity and weight, how it is known and how    *)
(* sure it is.  Contributions, weights, confidences are in hundredths, the *)
(* scores of families and detectors in tenths.  A decayed contribution is a *)
(* multiple of 10^-7.                                                      *)
(***************************************************************************)
EXTENDS Naturals, Sequences, FiniteSets, FiniteSetsExt, SequencesExt

FamilyOrder == <<"nlp", "url", "reputation", "behavioral", "document_media", "evidence">>
Families == ToSet(FamilyOrder)

Smaller(a, b) == IF a < b THEN a ELSE b
Rounded(a, b) == (2 * a + b) \div (2 * b)

-----------------------------------------------------------------------------
(* One family.                                                             *)

SeverityWeight == [INFO |-> 0, LOW |-> 25, MEDIUM |-> 55, HIGH |-> 100]

Contribution(signal) == (SeverityWeight[signal.severity] * signal.weight) \div 100

\* 0.72^(k-1), in multiples of 10^-5.
Decay[k \in 1..20] == IF k = 1 THEN 100000 ELSE (72 * Decay[k - 1]) \div 100

\* What the k-th largest contribution counts for.
Decayed(ranked) == [k \in DOMAIN ranked |-> ranked[k] * Decay[k]]

TotalOf(s) == FoldSeq(+, 0, s)

\* score_from_indicators: three strong indicators are the top; one alone is
\* held down.
ScoreFromIndicators(contributions) ==
  LET n == Len(contributions)
      ranked == SortSeq(contributions, LAMBDA a, b : a > b)
      score == Smaller(1000, Rounded(TotalOf(Decayed(ranked)), 22000))
  IN IF n = 0 THEN 0 ELSE IF n = 1 THEN Smaller(score, 450) ELSE score

-----------------------------------------------------------------------------
(* The configuration.  Weights matter by their ratios only.                *)

DefaultConfig ==
  [weights |-> [f \in Families |-> IF f \in {"nlp", "url"} THEN 4 ELSE 3],
   medium |-> 40, high |-> 65, critical |-> 85]

\* A deployment's own values replace the defaults they name, all or none.  (A
\* value that is no number, or a negative weight, is as bad as an unknown name.)
LoadConfig(custom) ==
  LET of(name, default) == IF name \in DOMAIN custom THEN custom[name] ELSE default
      merged == [weights |-> [f \in Families |-> of(f, DefaultConfig.weights[f])],
                 medium |-> of("medium", 40), high |-> of("high", 65),
                 critical |-> of("critical", 85)]
  IN IF /\ DOMAIN custom \subseteq Families \cup {"medium", "high", "critical"}
        /\ merged.medium < merged.high /\ merged.high < merged.critical
        /\ \E f \in Families : merged.weights[f] > 0
     THEN merged ELSE DefaultConfig

Reliability(family, config) ==
  [of |-> config.weights[family], top |-> Max({config.weights[f] : f \in Families})]

LevelFor(score, config) ==
  IF score >= config.critical THEN "CRITICAL" ELSE IF score >= config.high THEN "HIGH"
  ELSE IF score >= config.medium THEN "MEDIUM" ELSE "LOW"

BandFor(confidence) ==
  IF confidence >= 75 THEN "HIGH" ELSE IF confidence >= 50 THEN "MODERATE"
  ELSE IF confidence >= 30 THEN "LOW" ELSE "VERY_LOW"

-----------------------------------------------------------------------------
(* All families.                                                           *)

Scoring(signals) == SelectSeq(signals, LAMBDA x : Contribution(x) > 0)

Members(signals, family) == SelectSeq(Scoring(signals), LAMBDA x : x.family = family)

FamilyScore(signals, family) ==
  LET of == Members(signals, family)
  IN ScoreFromIndicators([i \in DOMAIN of |-> Contribution(of[i])])

\* What a family leaves of the certainty that nothing is wrong, at least 0.001.
Remaining(signals, family, config) ==
  LET r == Reliability(family, config)
      left == 1000 * r.top - r.of * FamilyScore(signals, family)
  IN IF left < r.top THEN r.top ELSE left

\* Noisy-or: what all families leave, in multiples of 10^-5.
NoisyOr(signals, config) ==
  FoldSet(LAMBDA f, left : (left * Remaining(signals, f, config))
                             \div (1000 * Reliability(f, config).top),
          100000, Families)

\* In tenths.  No combination of signals is proof: at most 99.
Risk(signals, config) == Smaller(990, Rounded(100000 - NoisyOr(signals, config), 100))

Score(signals, config) == Smaller(99, Rounded(100000 - NoisyOr(signals, config), 1000))

\* Mutant of LargestRemainder: each part is rounded by itself.
RoundedEach(parts, total) == [i \in DOMAIN parts |-> Rounded(parts[i], 10)]

\* Whole points for parts (in tenths): those with the largest remainders are
\* rounded up until the total is met.
LargestRemainder(parts, total) ==
  LET floors == [i \in DOMAIN parts |-> parts[i] \div 10]
      short == total - TotalOf(floors)
      order == SortSeq([i \in DOMAIN parts |-> i],
                 LAMBDA i, j : \/ parts[i] % 10 > parts[j] % 10
                               \/ parts[i] % 10 = parts[j] % 10 /\ i < j)
      up == {order[k] : k \in 1..Smaller(Len(order), short)}
  IN [i \in DOMAIN parts |-> floors[i] + (IF i \in up THEN 1 ELSE 0)]

Ranked(signals, family) ==
  SortSeq(Members(signals, family), LAMBDA a, b : Contribution(a) > Contribution(b))

\* The parts of one family's share: by decayed contribution, in rank order.
Parts(signals, family, share) ==
  LET of == Ranked(signals, family)
      decayed == Decayed([i \in DOMAIN of |-> Contribution(of[i])])
  IN [k \in DOMAIN decayed |-> (share * (decayed[k] \div 10)) \div (TotalOf(decayed) \div 10)]

\* How the risk is shared among the families is by logarithms: here any split.
PointsOf(signals, config, split, families) ==
  LargestRemainder(FlattenSeq([k \in DOMAIN families |-> Parts(signals, families[k], split[k])]),
                   Score(signals, config))

\* The signals as `PointsOf` lists them.
Ordered(signals, families) == FlattenSeq([k \in DOMAIN families |-> Ranked(signals, families[k])])

\* The families that agree that something is wrong.
Agreeing(signals) == Cardinality({f \in Families : FamilyScore(signals, f) >= 400})

-----------------------------------------------------------------------------
(* Confidence and abstention.  An engine that applied to the input has its *)
(* status and whether there is something it cannot cover.                  *)

Applicable(engines) == {i \in DOMAIN engines : engines[i].status # "not_applicable"}
Ran(engines) == {i \in DOMAIN engines : engines[i].status = "ok"}

\* Nothing found is a finding only if everything that applies has looked.
Determination(signals, engines) ==
  IF Scoring(signals) # <<>> THEN "ASSESSED"
  ELSE IF \E i \in Ran(engines) : engines[i].gap THEN "INCONCLUSIVE"
  ELSE IF Applicable(engines) # {} /\ Applicable(engines) = Ran(engines) THEN "ASSESSED"
  ELSE "INCONCLUSIVE"

\* The signals that lead, by points, and how sure they are.
LeadConfidence(scoring, points) ==
  LET order == SortSeq([i \in DOMAIN points |-> i],
                 LAMBDA i, j : points[i] > points[j] \/ (points[i] = points[j] /\ i < j))
      some == SelectSeq(order, LAMBDA i : points[i] > 0)
      lead == IF some # <<>> THEN SubSeq(some, 1, Smaller(3, Len(some)))
              ELSE SubSeq(order, 1, Smaller(3, Len(order)))
      worth(i) == IF points[i] = 0 THEN 1 ELSE points[i]
      total == TotalOf([k \in DOMAIN lead |-> worth(lead[k])])
  IN TotalOf([k \in DOMAIN lead |-> scoring[lead[k]].confidence * worth(lead[k])]) \div total

\* `scoring` in the order of `points`.
Confidence(scoring, points, engines, agreeing) ==
  LET applicable == Cardinality(Applicable(engines))
      covered(x) == IF applicable = 0 THEN 0 ELSE (x * Cardinality(Ran(engines))) \div applicable
      lead == covered(45 + LeadConfidence(scoring, points) \div 2) + (IF agreeing >= 2 THEN 8 ELSE 0)
      corroborated == \E i \in DOMAIN scoring : scoring[i].provenance \in {"retrieved", "ml_prediction"}
  IN IF scoring = <<>> THEN Smaller(35, 15 + covered(20))
     ELSE Smaller(IF corroborated THEN 100 ELSE 85, lead)

-----------------------------------------------------------------------------
(* A fraud scan: every detector that applies, and their findings combined. *)

RiskLevel(score) ==
  IF score >= 850 THEN "CRITICAL" ELSE IF score >= 650 THEN "HIGH"
  ELSE IF score >= 400 THEN "MEDIUM" ELSE IF score >= 150 THEN "LOW" ELSE "SAFE"

\* Detector.analyze: an error is a finding of nothing, with a limitation.
Analyzed(outcome) ==
  IF outcome.ends = "failed"
  THEN [outcome EXCEPT !.category = "UNKNOWN", !.risk = 0, !.confidence = 0] ELSE outcome

\* The detectors that say something: neither inapplicable nor silent.
Findings(outcomes) ==
  LET ran == SelectSeq(outcomes, LAMBDA o : o.ends \in {"failed", "found"})
  IN [i \in DOMAIN ran |-> Analyzed(ran[i])]

\* Mutant of Combine: the findings are averaged.
CombineByMean(findings) ==
  IF findings = <<>> THEN [score |-> 0, confidence |-> 0, category |-> "NONE"]
  ELSE [score |-> (10 * TotalOf([i \in DOMAIN findings |-> findings[i].risk])) \div Len(findings),
        confidence |-> 50, category |-> findings[1].category]

\* The worst finding leads; others raise the score a little each (hundredths).
Combine(findings) ==
  LET usable == {i \in DOMAIN findings : findings[i].confidence > 0 /\ findings[i].risk > 0}
      lead == CHOOSE i \in usable : \A j \in usable :
                findings[i].risk > findings[j].risk \/ (findings[i].risk = findings[j].risk /\ i <= j)
      others == usable \ {lead}
  IN IF usable = {} THEN [score |-> 0, confidence |-> 0, category |-> "NONE"]
     ELSE [score |-> Smaller(10000, 10 * findings[lead].risk
                       + MapThenSumSet(LAMBDA i : Smaller(600, findings[i].risk), others)),
           confidence |-> Smaller(100, findings[lead].confidence
                                       + Smaller(15, 5 * Cardinality(others))),
           category |-> findings[lead].category]

-----------------------------------------------------------------------------
(* Properties.                                                             *)

\* The families that found something, in the order of the configuration.
Found(signals) == SelectSeq(FamilyOrder, LAMBDA f : FamilyScore(signals, f) > 0)

\* Some ways in which the risk may be shared among them: all to one, or evenly.
Splits(signals, config) ==
  LET risk == Risk(signals, config)
      n == Len(Found(signals))
      all(j) == [k \in 1..n |-> IF k = j THEN risk ELSE 0]
  IN {[k \in 1..n |-> (risk \div n) + (IF k = 1 THEN risk % n ELSE 0)]} \cup {all(j) : j \in 1..n}

\* The points shown beside the signals are the score, to the point, whatever
\* weights a deployment has and however the risk is shared among the families; no
\* combination of signals is proof, and one signal alone never reads as HIGH.
PointsAreTheScore(signals, config) ==
  LET score == Score(signals, config)
  IN /\ \A split \in Splits(signals, config) :
          TotalOf(PointsOf(signals, config, split, Found(signals))) = score
     /\ score <= 99
     /\ Len(Scoring(signals)) <= 1 /\ config = DefaultConfig
          => LevelFor(score, config) \in {"LOW", "MEDIUM"}

\* High confidence is earned: seven tenths of the engines that apply have run,
\* and more than 85 takes a source or a model; nothing found is a finding only if
\* all have looked, with little confidence even then.
ConfidenceIsEarned(signals, config, engines) ==
  LET ran == Cardinality(Ran(engines))
      applicable == Cardinality(Applicable(engines))
      scoring == Ordered(signals, Found(signals))
      confidence(split) == Confidence(scoring, PointsOf(signals, config, split, Found(signals)),
                                      engines, Agreeing(signals))
  IN /\ \A split \in Splits(signals, config) :
          /\ BandFor(confidence(split)) = "HIGH" => scoring # <<>> /\ 10 * ran >= 7 * applicable
          /\ confidence(split) > 85 => \E i \in DOMAIN scoring : scoring[i].provenance # "heuristic"
     /\ scoring = <<>> /\ Determination(signals, engines) = "ASSESSED"
          => ran = applicable /\ ran > 0 /\ \A i \in Ran(engines) : ~engines[i].gap

\* One more signal never lowers the score, of a family or of the whole.
SignalsOnlyAdd(signals, more, config) ==
  /\ Score(more, config) >= Score(signals, config)
  /\ \A f \in Families : FamilyScore(more, f) >= FamilyScore(signals, f)
==============================================================================
