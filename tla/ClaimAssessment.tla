--------------------------- MODULE ClaimAssessment ---------------------------
(***************************************************************************)
(* investigations/engines/evidence.py, with domain/verdict/adapters.py and *)
(* investigations/citations.py: what an investigation reports of a claim.  *)
(* The verdict engine decides without its language models; the decision is *)
(* withdrawn where no source shown that argues for it may be relied on.    *)
(*                                                                         *)
(* An item of evidence has, besides what the engine reads, how it is cited *)
(* and by whom it was published.                                           *)
(***************************************************************************)
EXTENDS VerdictEngine

CONSTANTS
  Shown,      \* the number of sources shown under a claim: 8 in the code
  MaxClaims   \* the number of claims of a submission that are checked

ASSUME ShownAssumption == Shown \in Nat

-----------------------------------------------------------------------------
(* One source.                                                             *)

\* What the stored document says of its publisher, or what its host says.
Category(e) ==
  CASE e.stored # "none" -> e.stored
    [] e.stored = "none" /\ e.host = "official" -> "OFFICIAL"
    [] e.stored = "none" /\ e.host = "community" -> "COMMUNITY"
    [] OTHER -> IF e.score >= 70 THEN "SECONDARY" ELSE "UNKNOWN"

\* The address is one and is the publisher's, the passage is in the stored copy
\* if there is one, the date if stated is past.
Citation(e) ==
  IF e.address # "own" \/ e.found = "no" \/ e.dated = "future" THEN "mismatch"
  ELSE IF e.found = "yes" THEN "verified" ELSE "unverified"

Credible(e) == e.score >= 70 \/ Category(e) \in {"OFFICIAL", "PRIMARY"}

\* A stance as it is reported.
ReportedStance ==
  [supports |-> "SUPPORTS", implies |-> "SUPPORTS", refutes |-> "REFUTES", mixed |-> "NEUTRAL",
   neutral |-> "NEUTRAL", off |-> "OFF_TOPIC", narrower |-> "OFF_TOPIC", off_topic |-> "OFF_TOPIC"]

\* A review that settles the claim leaves the stance of all others as it was.
Sources(c, s) ==
  LET reviewStance == [true |-> "SUPPORTS", false |-> "REFUTES", misleading |-> "REFUTES",
                       undecided |-> "OFF_TOPIC"]
      stance(i) == IF Settling(s) = {} THEN ReportedStance[Stances(c, s)[i]]
                   ELSE IF i = Min(Settling(s)) THEN reviewStance[s[i].review] ELSE "NEUTRAL"
  IN [i \in 1..Lesser(Len(s), Shown) |->
        [stance |-> stance(i), citation |-> Citation(s[i]), credible |-> Credible(s[i]),
         category |-> Category(s[i]), publisher |-> s[i].publisher]]

-----------------------------------------------------------------------------
(* One claim.                                                              *)

\* The verdict in the platform's words; nothing found is not weighed at all.
Verdict(c, s) ==
  LET found == ByRules(c, s)
      sure == found.confidence >= 70
  IN IF s = <<>> THEN [verdict |-> "INSUFFICIENT EVIDENCE", confidence |-> 0]
     ELSE [found EXCEPT !.verdict =
             CASE @ = "TRUE" -> IF sure THEN "VERIFIED" ELSE "LIKELY TRUE"
               [] @ = "FALSE" -> IF sure THEN "FALSE" ELSE "LIKELY FALSE"
               [] @ = "MISLEADING" -> "MISLEADING"
               [] OTHER -> "INSUFFICIENT EVIDENCE"]

Assessment(verdict) ==
  CASE verdict \in {"VERIFIED", "LIKELY TRUE", "PARTIALLY TRUE"} -> "SUPPORTED"
    [] verdict \in {"FALSE", "LIKELY FALSE", "MISLEADING"} -> "CONTRADICTED"
    [] verdict = "MIXED EVIDENCE" -> "MIXED"
    [] OTHER -> "INSUFFICIENT_EVIDENCE"

Deciding == [SUPPORTED |-> "SUPPORTS", CONTRADICTED |-> "REFUTES"]

\* The sources that argue for an assessment and may be relied on.
Decisive(assessment, sources) ==
  {i \in DOMAIN sources : sources[i].citation # "mismatch" /\ sources[i].stance = Deciding[assessment]}

\* A decision for which only low-credibility sources, or none, argue is not one.
Downgraded(assessment, sources) ==
  /\ assessment \in DOMAIN Deciding
  /\ \A i \in Decisive(assessment, sources) : ~sources[i].credible

\* How many publishers stand behind a decision; copies on one count once.
Corroboration(assessment, sources) ==
  IF assessment \notin DOMAIN Deciding THEN "none"
  ELSE LET decisive == Decisive(assessment, sources)
       IN IF \E i \in decisive : sources[i].category \in {"OFFICIAL", "PRIMARY"} THEN "official"
          ELSE IF Cardinality({sources[i].publisher : i \in {j \in decisive : sources[j].credible}}) >= 2
               THEN "multiple_independent" ELSE "single_source"

\* _assess.
Assessed(c, s) ==
  LET sources == Sources(c, s)
      found == Verdict(c, s)
      first == Assessment(found.verdict)
      assessment == IF Downgraded(first, sources) THEN "INSUFFICIENT_EVIDENCE" ELSE first
  IN [assessment |-> assessment, confidence |-> found.confidence,
      corroboration |-> Corroboration(assessment, sources),
      signal |-> IF assessment = "CONTRADICTED" /\ found.confidence >= 40
                 THEN (IF found.verdict = "MISLEADING" THEN "MEDIUM" ELSE "HIGH")
                 ELSE IF assessment = "MIXED" THEN "LOW" ELSE "none",
      sources |-> sources]

NotChecked == [assessment |-> "NOT_CHECKED", confidence |-> 0, corroboration |-> "none",
               signal |-> "none", sources |-> <<>>]

\* _run: retrieval is switched off, runs out of time, fails for all claims or
\* for one, or finds something.
Checked(retrieval, claims, evidence) ==
  [i \in 1..Lesser(Len(claims), MaxClaims) |->
     IF retrieval # "finished" \/ evidence[i] = "failed" THEN NotChecked
     ELSE Assessed(claims[i], evidence[i])]

-----------------------------------------------------------------------------
(* Properties.                                                             *)

\* A claim reported as decided has a source on display that argues so, is
\* credible and is cited faithfully; it is said to have several publishers only
\* if two of those shown are.
ReliesOnSources(c, s) ==
  LET a == Assessed(c, s)
      argues == {i \in DOMAIN a.sources : /\ a.assessment \in DOMAIN Deciding
                                          /\ a.sources[i].stance = Deciding[a.assessment]
                                          /\ a.sources[i].citation # "mismatch"}
  IN /\ a.assessment \in DOMAIN Deciding => \E i \in argues : a.sources[i].credible
     /\ a.corroboration = "multiple_independent" =>
          \E i, j \in argues : s[i].publisher # s[j].publisher

\* A claim found false and reported as contradicted raises a signal that the
\* risk engine counts.  (One found misleading may have too little confidence.)
ContradictionIsSignalled(c, s) ==
  Verdict(c, s).verdict \in {"FALSE", "LIKELY FALSE"} /\ Assessed(c, s).assessment = "CONTRADICTED"
    => Assessed(c, s).signal = "HIGH"
==============================================================================
