------------------------------ MODULE TrustScore ------------------------------
(***************************************************************************)
(* The 1.x analysis of one submission: what services/ingest.py reads out   *)
(* of it, the detectors of detectors/registry.py, and the verdict and the  *)
(* trust of domain/scoring/aggregator.py.                                  *)
(*                                                                         *)
(* A submission is its type, the words sent with it, how its page or file  *)
(* reads, what its prose shows, its frames and its voice.  A claim that was *)
(* checked has a verdict (ClaimAssessment), a confidence in hundredths and *)
(* its evidence; `installed` are the libraries a server has.  Shares are   *)
(* in ten-thousandths.                                                     *)
(***************************************************************************)
EXTENDS InvestigationSigns

-----------------------------------------------------------------------------
(* Reading.  A page or file that cannot be read leaves the words sent with *)
(* it; a plain document with none takes them away.                         *)

Readable(s, installed) ==
  /\ s.read = "text"
  /\ s.type = "image" => "tesseract" \in installed

Packet(s, installed) ==
  [words |-> IF s.type \in {"url", "image", "document"} /\ Readable(s, installed) THEN s.readWords
             ELSE IF s.type = "document" /\ s.read = "blank" THEN 0 ELSE s.words,
   frames |-> CASE s.type = "image" -> s.frames
                [] s.type = "video" -> IF "opencv" \in installed /\ s.frames # <<>> THEN s.frames
                                       ELSE <<{"not_an_image"}>>   \* the file itself
                [] OTHER -> <<>>]

-----------------------------------------------------------------------------
(* The detectors.  One that did not run has no score.                      *)

Ended(status) == [status |-> status, score |-> 0]
Scored(share) == [status |-> "ok", score |-> Smaller(10000, share)]

\* Prose like an assistant's: stock phrases, even sentences, few words.
AIText(s, p) ==
  LET narrow == IF s.prose.variety < 62 THEN 62 - s.prose.variety ELSE 0
  IN IF p.words < 30 \/ s.prose.sentences < 3 THEN Ended("not_applicable")
     ELSE Scored(1800 * s.prose.tells + 45 * s.prose.even + (175 * narrow) \div 2)

FraudSignals(s, p) ==
  IF p.words < 12 THEN Ended("not_applicable") ELSE Scored(100 * ManipulationScore(s.fired))

\* A frame is the set of artefacts it shows, or that it cannot be decoded.
FrameScore(frame) ==
  1500 + (IF "sharpness" \in frame THEN 3500 ELSE 0) + (IF "smooth" \in frame THEN 3000 ELSE 0)

Deepfake(s, p, installed) ==
  LET seen == SelectSeq(SubSeq(p.frames, 1, Smaller(12, Len(p.frames))), LAMBDA f : "not_an_image" \notin f)
      n == Len(seen)
      score(k) == FrameScore(seen[k])
      change(k) == Max({score(k), score(k + 1)}) - Min({score(k), score(k + 1)})
      flicker == n > 1 /\ TotalOf([k \in 1..(n - 1) |-> change(k)]) > 1500 * (n - 1)
  IN IF s.type \notin {"image", "video"} THEN Ended("not_applicable")
     ELSE IF "opencv" \notin installed THEN Ended("unavailable")
     ELSE IF n = 0 THEN Ended("error")
     ELSE Scored(Rounded(TotalOf([k \in 1..n |-> score(k)]), n) + (IF flicker THEN 1200 ELSE 0))

\* A synthetic voice: a flat pitch, no pauses.  A recording may not load.
VoiceClone(s, installed) ==
  IF s.type # "audio" THEN Ended("not_applicable")
  ELSE IF "librosa" \notin installed THEN Ended("unavailable")
  ELSE IF "silent" \in s.voice THEN Ended("error")
  ELSE Scored(1500 + (IF "flat" \in s.voice THEN 4000 ELSE 0)
                   + (IF "unbroken" \in s.voice THEN 2500 ELSE 0))

Detectors(s, p, installed) ==
  <<AIText(s, p), FraudSignals(s, p), Deepfake(s, p, installed), VoiceClone(s, installed)>>

-----------------------------------------------------------------------------
(* The claims.                                                             *)

LeansTrue == {"VERIFIED", "LIKELY TRUE", "PARTIALLY TRUE"}
LeansFalse == {"FALSE", "LIKELY FALSE", "MISLEADING"}
IsDecided == LeansTrue \cup LeansFalse

\* Without words none is found; only so many are checked; a check that raises
\* is as if its claim had not been made.
Verify(p, claims, most) ==
  IF p.words = 0 THEN <<>>
  ELSE SelectSeq(SubSeq(claims, 1, Smaller(most, Len(claims))), LAMBDA c : c.verdict # "raises")

\* Ranked by publisher; known disinformation is left out.
Evidence(c) ==
  SortSeq(SelectSeq(c.evidence, LAMBDA e : e.score > 0), LAMBDA a, b : a.score > b.score)

AllEvidence(decided) == FlattenSeq([k \in DOMAIN decided |-> Evidence(decided[k])])
Sided(decided) == SelectSeq(AllEvidence(decided), LAMBDA e : e.sided)

-----------------------------------------------------------------------------
(* The score.                                                              *)

CountsTowardScoring(d) == d.status = "ok"

ManipulationRisk(detectors) ==
  LET usable == SelectSeq(detectors, CountsTowardScoring)
  IN IF usable = <<>> THEN 5000
     ELSE TotalOf([k \in DOMAIN usable |-> usable[k].score]) \div Len(usable)

MeanConfidence(decided) ==
  TotalOf([k \in DOMAIN decided |-> decided[k].confidence]) \div Len(decided)

\* The claims, each drawn to the middle as far as it is unsure.
FactMatch(decided) ==
  LET worth == [VERIFIED |-> 100, FALSE |-> 0, MISLEADING |-> 30]
               @@ ("LIKELY TRUE" :> 85) @@ ("PARTIALLY TRUE" :> 55) @@ ("LIKELY FALSE" :> 15)
      match(c) == worth[c.verdict] * c.confidence + 50 * (100 - c.confidence)
  IN TotalOf([k \in DOMAIN decided |-> match(decided[k])]) \div Len(decided)

EvidenceStrength(decided) ==
  LET all == Len(AllEvidence(decided))
      sided == Len(Sided(decided))
  IN IF all = 0 THEN 0 ELSE Rounded(6000 * sided, all) + Smaller(4000, 1000 * sided)

\* The five best of those that take a side.
SourceCredibility(decided) ==
  LET scores == SortSeq([k \in DOMAIN Sided(decided) |-> Sided(decided)[k].score], LAMBDA a, b : a > b)
      n == Smaller(5, Len(scores))
  IN IF n = 0 THEN 0 ELSE (100 * TotalOf(SubSeq(scores, 1, n))) \div n

\* One false claim makes the whole false.
VerdictFromClaims(decided) ==
  LET said == {decided[k].verdict : k \in DOMAIN decided}
      sure == MeanConfidence(decided)
  IN CASE "FALSE" \in said -> "FALSE"
       [] "LIKELY FALSE" \in said /\ "FALSE" \notin said -> "LIKELY FALSE"
       [] said \cap LeansFalse = {"MISLEADING"} -> "MISLEADING"
       [] said = {"VERIFIED"} /\ sure >= 80 -> "VERIFIED"
       [] said \subseteq LeansTrue /\ sure >= 45 /\ ~(said = {"VERIFIED"} /\ sure >= 80) -> "LIKELY TRUE"
       [] OTHER -> "PARTIALLY TRUE"

Bands(verdict) ==
  CASE verdict = "VERIFIED" -> <<85, 100>> [] verdict = "LIKELY TRUE" -> <<65, 84>>
    [] verdict = "PARTIALLY TRUE" -> <<45, 64>> [] verdict = "INSUFFICIENT EVIDENCE" -> <<40, 60>>
    [] verdict = "MISLEADING" -> <<25, 44>> [] verdict = "LIKELY FALSE" -> <<15, 44>>
    [] verdict = "FALSE" -> <<0, 25>>

ClampToBand(score, verdict) == Max({Bands(verdict)[1], Smaller(Bands(verdict)[2], score)})

\* How much of what applies took part.
BandOf(decided, detectors) ==
  LET sided == Len(Sided(decided))
      ran == Len(SelectSeq(detectors, CountsTowardScoring))
      applicable == Len(SelectSeq(detectors, LAMBDA d : d.status # "not_applicable"))
      sure == MeanConfidence(decided)
  IN CASE sided >= 4 /\ sure >= 60 /\ 2 * ran >= applicable -> "HIGH"
       [] sided >= 2 /\ sure >= 40 /\ ~(sided >= 4 /\ sure >= 60 /\ 2 * ran >= applicable) -> "MODERATE"
       [] sided = 1 \/ (sided > 1 /\ sure < 40) -> "LOW"
       [] sided = 0 -> "VERY_LOW"

\* Nothing was settled: only manipulation that was found still says something.
Undecided(manipulation) ==
  IF manipulation >= 6000
  THEN [verdict |-> "LIKELY FALSE", band |-> "LOW",
        trust |-> ClampToBand(Rounded(10000 - manipulation, 100), "LIKELY FALSE")]
  ELSE [verdict |-> "INSUFFICIENT EVIDENCE", band |-> "LOW", trust |-> 50]

TrustOf(claims, detectors) ==
  LET manipulation == ManipulationRisk(detectors)
      decided == SelectSeq(claims, LAMBDA c : c.verdict \in IsDecided)
      weighted == 40 * FactMatch(decided) + 25 * EvidenceStrength(decided)
                  + 20 * SourceCredibility(decided) + 15 * (10000 - manipulation)
      verdict == VerdictFromClaims(decided)
  IN IF decided = <<>> THEN Undecided(manipulation)
     ELSE [verdict |-> verdict, band |-> BandOf(decided, detectors),
           trust |-> ClampToBand(Rounded(weighted, 10000), verdict)]

Report(s, installed, claims, most) ==
  LET p == Packet(s, installed)
  IN TrustOf(Verify(p, claims, most), Detectors(s, p, installed))

-----------------------------------------------------------------------------
(* Properties.                                                             *)

\* Nothing but a source speaks for a submission: without a decided claim no
\* report leans to true, however clean its media are and whatever could run; it
\* leans to false only if some detector that ran is sure of it, and is never sure
\* of itself.
NothingCheckedNoVerdict(s, installed, claims, most) ==
  LET report == Report(s, installed, claims, most)
      p == Packet(s, installed)
      checked == Verify(p, claims, most)
  IN (\A k \in DOMAIN checked : checked[k].verdict \notin IsDecided) =>
       /\ report.verdict \notin LeansTrue /\ report.trust <= 50 /\ report.band = "LOW"
       /\ report.verdict \in LeansFalse =>
            \E d \in ToSet(Detectors(s, p, installed)) : d.status = "ok" /\ d.score >= 6000

\* The dial and the label tell one story: trust above the middle is never a false
\* label nor trust below it a true one, one false claim is enough, and a report
\* that is sure rests on four pieces of evidence.
DialAgrees(s, installed, claims, most) ==
  LET report == Report(s, installed, claims, most)
      checked == Verify(Packet(s, installed), claims, most)
  IN /\ report.verdict \in LeansTrue => report.trust >= 45
     /\ report.verdict \in LeansFalse => report.trust < 45
     /\ (\E k \in DOMAIN checked : checked[k].verdict = "FALSE") => report.trust <= 25
     /\ report.band = "HIGH" => Len(Sided(checked)) >= 4

\* A library that is missing says nothing, for or against: with a claim decided the
\* verdict is the one a server with every library gives, no surer, and the trust is
\* that of a submission the detector does not apply to.
MissingSaysNothing(s, installed, claims, most) ==
  LET rank == [VERY_LOW |-> 0, LOW |-> 1, MODERATE |-> 2, HIGH |-> 3]
      p == Packet(s, installed)
      checked == Verify(p, claims, most)
      report == TrustOf(checked, Detectors(s, p, installed))
      everywhere == TrustOf(checked, Detectors(s, p, installed \cup {"librosa", "opencv"}))
      unasked == TrustOf(checked, SelectSeq(Detectors(s, p, installed),
                                            LAMBDA d : d.status # "unavailable"))
      decided == \E c \in ToSet(checked) : c.verdict \in IsDecided
  IN /\ decided => report.verdict = everywhere.verdict /\ rank[report.band] <= rank[everywhere.band]
     /\ report.verdict = unasked.verdict /\ report.trust = unasked.trust

\* A check that raises is as if its claim had not been made, and one more claim
\* that leans to false never turns a verdict towards true.
FalsehoodOnlyAdds(s, installed, claims, more, most) ==
  LET before == Report(s, installed, claims, most)
      after == Report(s, installed, more, most)
      place == [FALSE |-> 0, MISLEADING |-> 2, VERIFIED |-> 5] @@ ("LIKELY FALSE" :> 1)
               @@ ("PARTIALLY TRUE" :> 3) @@ ("LIKELY TRUE" :> 4)
      decided == \E c \in ToSet(Verify(Packet(s, installed), claims, most)) : c.verdict \in IsDecided
  IN /\ more[Len(more)].verdict = "raises" => after = before
     /\ decided /\ more[Len(more)].verdict \in LeansFalse => place[after.verdict] <= place[before.verdict]
==============================================================================
