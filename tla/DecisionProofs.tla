--------------------------- MODULE DecisionProofs ---------------------------
(***************************************************************************)
(* Theorems about the decision on one claim: VerdictEngine's rules and     *)
(* what ClaimAssessment reports, for every claim, every list of evidence   *)
(* and every number of sources shown; last, that the dossiers of           *)
(* MCDecisions meet them.                                                  *)
(*                                                                         *)
(* The rules add up what the items weigh, so the first part is about sums. *)
(* A sum is defined from one over a smaller set; what is said of it is     *)
(* proved by taking a least set (or number) of which it is not so.         *)
(***************************************************************************)
EXTENDS MCDecisions, FiniteSetTheorems, TLAPS

-----------------------------------------------------------------------------
(* Sums.                                                                   *)

\* A set of numbers that is not empty has a least one.
LEMMA Least ==
  ASSUME NEW X, X \subseteq Nat, X # {}
  PROVE  \E n \in X : \A m \in X : ~ m < n
<1> DEFINE Below == OpToRel(<, Nat)
<1>1. IsWellFoundedOn(Below, Nat)  BY NatLessThanWellFounded, Zenon
<1>2. \A m, n \in Nat : m < n => <<m, n>> \in Below  BY DEF OpToRel
<1> HIDE DEF Below
<1>3. \E n \in X : \A m \in X : ~ <<m, n>> \in Below  BY <1>1, WFMin
<1>4. QED  BY <1>2, <1>3

\* A sum of values of f over a set t, given the sums g over smaller sets, and the
\* function of all of them: the community modules define SumFunction so.
Pick(t) == CHOOSE x \in t : TRUE
Summed(g, f, t) == IF t = {} THEN 0 ELSE f[Pick(t)] + g[t \ {Pick(t)}]
Iter(f, S) == CHOOSE g : g = [t \in SUBSET S |-> Summed(g, f, t)]

\* SumFunction in these terms.
LEMMA SumIsIter ==
  ASSUME NEW f
  PROVE  SumFunction(f) = Iter(f, DOMAIN f)[DOMAIN f]
BY DEF SumFunction, SumFunctionOnSet, FoldFunctionOnSet, MapThenFoldSet, Iter, Summed, Pick

\* There is such a function: one that fits sets of up to n elements gives one
\* for n + 1.
LEMMA IterExists ==
  ASSUME NEW f, NEW S, IsFiniteSet(S)
  PROVE  \E g : g = [t \in SUBSET S |-> Summed(g, f, t)]
<1> DEFINE Suits(g, n) == \A t \in SUBSET S : Cardinality(t) <= n => g[t] = Summed(g, f, t)
           Bad == {n \in Nat : ~ \E g : Suits(g, n)}
<1>1. \A t \in SUBSET S :
        IsFiniteSet(t) /\ Cardinality(t) \in Nat /\ Cardinality(t) <= Cardinality(S)
  BY FS_Subset, FS_CardinalityType
<1>2. 0 \notin Bad
  <2> DEFINE g == [t \in SUBSET S |-> 0]
  <2>1. \A t \in SUBSET S : Cardinality(t) <= 0 => t = {}
    BY <1>1, FS_EmptySet
  <2>2. Suits(g, 0)  BY <2>1 DEF Summed
  <2>3. QED  BY <2>2
<1>3. ASSUME NEW n \in Nat, n \notin Bad PROVE n + 1 \notin Bad
  <2>1. PICK g : Suits(g, n)  BY <1>3
  <2> DEFINE h == [t \in SUBSET S |-> Summed(g, f, t)]
  <2>2. ASSUME NEW t \in SUBSET S, Cardinality(t) <= n + 1 PROVE h[t] = Summed(h, f, t)
    <3>1. CASE t = {}  BY <3>1 DEF Summed
    <3>2. CASE t # {}
      <4> DEFINE u == t \ {Pick(t)}
      <4>1. Pick(t) \in t  BY <3>2 DEF Pick
      <4>2. u \in SUBSET S /\ Cardinality(u) <= n
        BY <4>1, <1>1, <2>2, FS_RemoveElement
      <4>3. h[u] = g[u]  BY <4>2, <2>1
      <4>4. QED  BY <3>2, <4>3 DEF Summed
    <3>3. QED  BY <3>1, <3>2
  <2>3. Suits(h, n + 1)  BY <2>2
  <2>4. QED  BY <2>3
<1>4. Bad = {}
  <2> SUFFICES ASSUME Bad # {} PROVE FALSE  OBVIOUS
  <2>1. Bad \subseteq Nat  OBVIOUS
  <2> HIDE DEF Bad
  <2>2. PICK n \in Bad : \A m \in Bad : ~ m < n  BY <2>1, Least
  <2>3. n \in Nat \ {0} /\ n - 1 \in Nat /\ n - 1 < n BY <1>2, <2>1, <2>2
  <2>4. n - 1 \notin Bad  BY <2>2, <2>3
  <2>5. (n - 1) + 1 \notin Bad BY <1>3, <2>3, <2>4
  <2>6. QED  BY <2>2, <2>3, <2>5
<1>5. PICK g : Suits(g, Cardinality(S))
  <2>1. Cardinality(S) \in Nat  BY FS_CardinalityType
  <2>2. QED  BY <2>1, <1>4
<1> DEFINE h == [t \in SUBSET S |-> Summed(g, f, t)]
<1>6. \A t \in SUBSET S : h[t] = Summed(h, f, t)
  <2> TAKE t \in SUBSET S
  <2>1. h[t] = Summed(g, f, t)  OBVIOUS
  <2>2. CASE t = {}  BY <2>2 DEF Summed
  <2>3. CASE t # {}
    <3> DEFINE u == t \ {Pick(t)}
    <3>1. u \in SUBSET S  OBVIOUS
    <3>2. h[u] = g[u]  BY <3>1, <1>1, <1>5
    <3>3. QED  BY <2>3, <3>2 DEF Summed
  <2>4. QED  BY <2>2, <2>3
<1>7. h = [t \in SUBSET S |-> Summed(h, f, t)]
  <2> DEFINE k == [t \in SUBSET S |-> Summed(h, f, t)]
  <2>1. \A t \in SUBSET S : h[t] = k[t] BY <1>6
  <2>2. DOMAIN h = SUBSET S /\ DOMAIN k = SUBSET S OBVIOUS
  <2>3. h = [t \in SUBSET S |-> h[t]] /\ k = [t \in SUBSET S |-> k[t]] OBVIOUS
  <2> HIDE DEF h, k
  <2>4. h = k  BY <2>1, <2>2, <2>3
  <2>5. QED BY <2>4 DEF k
<1> HIDE DEF h
<1>8. QED  BY <1>7

\* So the sums satisfy their equation.
LEMMA IterEquation ==
  ASSUME NEW f, NEW S, IsFiniteSet(S)
  PROVE  \A t \in SUBSET S : Iter(f, S)[t] = Summed(Iter(f, S), f, t)
<1> DEFINE g == Iter(f, S)
<1>1. g = [t \in SUBSET S |-> Summed(g, f, t)]
  BY IterExists DEF Iter
<1> SUFFICES \A t \in SUBSET S : g[t] = Summed(g, f, t)  OBVIOUS
<1> HIDE DEF g
<1>2. QED  BY <1>1

\* Induction on the subsets of a finite set, for a property given as a set.
LEMMA SubsetInduction ==
  ASSUME NEW S, IsFiniteSet(S), NEW Good,
         \A X \in SUBSET S : (\A x \in X : X \ {x} \in Good) => X \in Good
  PROVE  \A X \in SUBSET S : X \in Good
<1> DEFINE Bad == {X \in SUBSET S : X \notin Good}
           Below == StrictSubsetOrdering(S)
<1> SUFFICES ASSUME Bad # {} PROVE FALSE  OBVIOUS
<1>1. IsWellFoundedOn(Below, SUBSET S)
  <2>1. IsWellFoundedOn(Below, FiniteSubsetsOf(S))  BY FS_StrictSubsetOrderingWellFounded
  <2>2. FiniteSubsetsOf(S) = SUBSET S  BY FS_FiniteSubsetsOfFinite
  <2> HIDE DEF Below
  <2>3. QED  BY <2>1, <2>2
<1>2. Bad \subseteq SUBSET S  OBVIOUS
<1>3. PICK X \in Bad : \A U \in Bad : ~ <<U, X>> \in Below
  <2> HIDE DEF Bad, Below
  <2> QED  BY <1>1, <1>2, WFMin
<1>4. \A x \in X : <<X \ {x}, X>> \in Below  BY DEF StrictSubsetOrdering
<1>5. \A x \in X : X \ {x} \in Good  BY <1>3, <1>4
<1>6. QED  BY <1>5, <1>3

\* A sum of numbers is one.
LEMMA SumType ==
  ASSUME NEW f, IsFiniteSet(DOMAIN f), \A x \in DOMAIN f : f[x] \in Nat
  PROVE  SumFunction(f) \in Nat
<1> DEFINE S == DOMAIN f
           g == Iter(f, S)
           Good == {X \in SUBSET S : g[X] \in Nat}
<1>1. \A t \in SUBSET S : g[t] = Summed(g, f, t)  BY IterEquation
<1>2. ASSUME NEW X \in SUBSET S, \A x \in X : X \ {x} \in Good PROVE X \in Good
  <2>1. CASE X = {}
    <3>1. g[X] = 0  BY <1>1, <2>1 DEF Summed
    <3>2. QED  BY <3>1
  <2>2. CASE X # {}
    <3>1. Pick(X) \in X  BY <2>2 DEF Pick
    <3>2. g[X \ {Pick(X)}] \in Nat /\ f[Pick(X)] \in Nat  BY <1>2, <3>1
    <3>3. g[X] = f[Pick(X)] + g[X \ {Pick(X)}]  BY <1>1, <2>2 DEF Summed
    <3> HIDE DEF g
    <3>4. g[X] \in Nat  BY <3>2, <3>3
    <3>5. QED  BY <3>4
  <2>3. QED  BY <2>1, <2>2
<1> HIDE DEF Good
<1>3. \A X \in SUBSET S : X \in Good  BY <1>2, SubsetInduction
<1>4. S \in Good  BY <1>3
<1>5. QED  BY <1>4, SumIsIter DEF Good

\* A sum grows with what is summed.
LEMMA SumMonotone ==
  ASSUME NEW f, NEW e, IsFiniteSet(DOMAIN f), DOMAIN e = DOMAIN f,
         \A x \in DOMAIN f : f[x] \in Nat /\ e[x] \in Nat /\ f[x] <= e[x]
  PROVE  SumFunction(f) <= SumFunction(e)
<1> DEFINE S == DOMAIN f
           g == Iter(f, S)
           h == Iter(e, S)
           Good == {X \in SUBSET S : g[X] \in Nat /\ h[X] \in Nat /\ g[X] <= h[X]}
<1>1. \A t \in SUBSET S : g[t] = Summed(g, f, t) /\ h[t] = Summed(h, e, t)  BY IterEquation
<1>2. ASSUME NEW X \in SUBSET S, \A x \in X : X \ {x} \in Good PROVE X \in Good
  <2>1. CASE X = {}
    <3>1. g[X] = 0 /\ h[X] = 0  BY <1>1, <2>1 DEF Summed
    <3>2. QED  BY <3>1
  <2>2. CASE X # {}
    <3>1. Pick(X) \in X  BY <2>2 DEF Pick
    <3> DEFINE a == g[X \ {Pick(X)}]
               b == h[X \ {Pick(X)}]
    <3>2. /\ a \in Nat /\ b \in Nat /\ a <= b
          /\ f[Pick(X)] \in Nat /\ e[Pick(X)] \in Nat /\ f[Pick(X)] <= e[Pick(X)]
      BY <1>2, <3>1
    <3>3. g[X] = f[Pick(X)] + a /\ h[X] = e[Pick(X)] + b
      BY <1>1, <2>2 DEF Summed
    <3> HIDE DEF g, h, a, b
    <3>4. g[X] \in Nat /\ h[X] \in Nat /\ g[X] <= h[X]  BY <3>2, <3>3
    <3>5. QED  BY <3>4
  <2>3. QED  BY <2>1, <2>2
<1> HIDE DEF Good
<1>3. \A X \in SUBSET S : X \in Good  BY <1>2, SubsetInduction
<1>4. S \in Good  BY <1>3
<1>5. g[S] <= h[S]  BY <1>4 DEF Good
<1>6. QED  BY <1>5, SumIsIter

-----------------------------------------------------------------------------
(* Claims.                                                                 *)

\* A claim whose stems are among W.
ClaimsOn(W) == [stems : SUBSET W, negated : BOOLEAN, universal : BOOLEAN]

\* What may be written in the fields of an item.
Forms == {"statement", "question", "exercise", "blank"}
Ratings == {"none", "true", "false", "misleading", "unproven"}
ReviewRatings == {"none", "true", "false", "misleading", "undecided"}
Polarities == SUBSET {"true", "false"}
Negations == SUBSET [before : Nat, hedged : BOOLEAN]
Predictions == {"none", "supports", "refutes"}
Categories == {"none", "OFFICIAL", "PRIMARY", "SECONDARY", "COMMUNITY", "UNKNOWN"}
Hosts == {"official", "community", "other"}
Addresses == {"own", "other"}
Lookups == {"yes", "no", "unknown"}
Dates == {"past", "future"}

\* An item of evidence: its stems among W, its publisher among P.
ItemsOn(W, P) ==
  [stems : SUBSET W, sim : Nat, score : Nat, keywords : Nat, form : Forms, body : Nat,
   rating : Ratings, review : ReviewRatings, quoted : BOOLEAN, alike : Nat, words : Polarities,
   negations : Negations, predicted : Predictions, universal : BOOLEAN, knowledge : BOOLEAN,
   stored : Categories, host : Hosts, address : Addresses, found : Lookups, dated : Dates,
   publisher : P]

\* The share of the claim's words found is a number: its denominator is not 0.
LEMMA ShareType ==
  ASSUME NEW W, IsFiniteSet(W), NEW c \in ClaimsOn(W), NEW e, e.stems \subseteq W
  PROVE  Share(c, e) \in Nat
<1>1. IsFiniteSet(c.stems) /\ IsFiniteSet(Matches(c, e))
  BY FS_Subset DEF ClaimsOn, Matches
<1>2. Cardinality(c.stems) \in Nat /\ Cardinality(Matches(c, e)) \in Nat
  BY <1>1, FS_CardinalityType
<1>3. \A n \in Nat : Lesser(n, 5) \in Nat /\ Greater(1, Lesser(n, 5)) \in Nat \ {0}
  BY DEF Lesser, Greater
<1>4. \A m \in Nat, n \in Nat \ {0} : (100 * m) \div n \in Nat
  OBVIOUS
<1> DEFINE n == Greater(1, Lesser(Cardinality(c.stems), 5))
<1>5. n \in Nat \ {0}  BY <1>2, <1>3
<1>6. Share(c, e) = (100 * Cardinality(Matches(c, e))) \div n  BY DEF Share
<1> HIDE DEF n
<1>7. QED  BY <1>2, <1>4, <1>5, <1>6

\* The stances, each of which weighs something for and against.
StanceNames ==
  {"off", "supports", "refutes", "narrower", "mixed", "implies", "neutral", "off_topic"}

\* An item takes one of them.
LEMMA StanceType ==
  ASSUME NEW c, NEW e, NEW s
  PROVE  Stance(c, e, s) \in StanceNames
BY DEF Stance, StanceNames

\* What a stance weighs is a number.
LEMMA WeightType ==
  ASSUME NEW x \in StanceNames
  PROVE  For[x] \in Nat /\ Against[x] \in Nat
BY DEF For, Against, StanceNames

\* So are the totals for and against.
LEMMA WeighedType ==
  ASSUME NEW c, NEW n \in Nat, NEW s, DOMAIN s = 1..n,
         \A i \in 1..n : s[i].sim \in Nat /\ s[i].score \in Nat
  PROVE  Weighed(c, s).support \in Nat /\ Weighed(c, s).contra \in Nat
<1> DEFINE stance == Stances(c, s)
           for == [i \in DOMAIN s |-> s[i].sim * s[i].score * For[stance[i]]]
           against == [i \in DOMAIN s |-> s[i].sim * s[i].score * Against[stance[i]]]
<1>1. \A i \in DOMAIN s : stance[i] \in StanceNames
  BY StanceType DEF Stances
<1>2. \A a, b, d \in Nat : a * b * d \in Nat  OBVIOUS
<1>3. \A i \in DOMAIN s : for[i] \in Nat /\ against[i] \in Nat
  BY <1>1, <1>2, WeightType
<1>4. IsFiniteSet(DOMAIN s)  BY FS_Interval
<1>5. SumFunction(for) \in Nat /\ SumFunction(against) \in Nat
  <2>1. DOMAIN for = DOMAIN s /\ DOMAIN against = DOMAIN s  OBVIOUS
  <2> HIDE DEF for, against
  <2>2. QED  BY <1>3, <1>4, <2>1, SumType
<1>6. /\ Weighed(c, s).support = SumFunction(for)
      /\ Weighed(c, s).contra = SumFunction(against)
  BY DEF Weighed
<1> HIDE DEF for, against
<1>7. QED  BY <1>5, <1>6

-----------------------------------------------------------------------------
(* What a decision rests on.                                               *)

\* Which decision rests on which side.
LEMMA DecisionRests ==
  ASSUME NEW w, w.support \in Nat, w.contra \in Nat
  PROVE  /\ Decision(w) = "TRUE" =>
              w.relevant /\ ~w.thinFor /\ 5 * w.support > 6 * w.contra /\ w.support > 2000
         /\ Decision(w) = "FALSE" =>
              w.relevant /\ ~w.thinAgainst /\ 5 * w.contra > 6 * w.support /\ w.contra > 2000
BY DEF Decision, Decidable, OneSided, Greater

\* And conversely.
LEMMA DecisionTaken ==
  ASSUME NEW w, w.support \in Nat, w.contra \in Nat, w.relevant
  PROVE  /\ ~w.thinFor /\ 5 * w.support > 6 * w.contra /\ w.support > 2000 => Decision(w) = "TRUE"
         /\ ~w.thinAgainst /\ 5 * w.contra > 6 * w.support /\ w.contra > 2000 => Decision(w) = "FALSE"
BY DEF Decision, Decidable, OneSided, Greater

\* What a list of evidence consists of.
LEMMA ItemType ==
  ASSUME NEW W, NEW P, NEW s \in Seq(ItemsOn(W, P))
  PROVE  /\ DOMAIN s = 1..Len(s) /\ Len(s) \in Nat
         /\ \A i \in DOMAIN s : s[i] \in ItemsOn(W, P)
         /\ \A i \in DOMAIN s : s[i].sim \in Nat /\ s[i].score \in Nat /\ s[i].stems \subseteq W
<1>1. DOMAIN s = 1..Len(s) /\ Len(s) \in Nat /\ \A i \in DOMAIN s : s[i] \in ItemsOn(W, P)  OBVIOUS
<1>2. \A e \in ItemsOn(W, P) : e.sim \in Nat /\ e.score \in Nat /\ e.stems \subseteq W
  BY DEF ItemsOn
<1>3. QED  BY <1>1, <1>2

\* It is finite.
LEMMA DomainFinite ==
  ASSUME NEW X, NEW s \in Seq(X)
  PROVE  IsFiniteSet(DOMAIN s)
<1>1. DOMAIN s = 1..Len(s) /\ Len(s) \in Nat  OBVIOUS
<1>2. QED  BY <1>1, FS_Interval

\* A side that is not thin, without a fact-checker's rating, has two sources or one
\* that is credible and on the point.
LEMMA NotThin ==
  ASSUME NEW W, IsFiniteSet(W), NEW P, NEW c \in ClaimsOn(W), NEW s \in Seq(ItemsOn(W, P)),
         NEW side \in SUBSET DOMAIN s, ~Adjudicated(c, s), ~Thin(c, s, side)
  PROVE  \/ Cardinality(side) >= 2
         \/ \E i \in side : s[i].score >= 80 /\ Share(c, s[i]) >= 50
<1>1. Cardinality(side) \in Nat
  BY DomainFinite, FS_Subset, FS_CardinalityType
<1>2. \A i \in side : s[i].score \in Nat /\ Share(c, s[i]) \in Nat
  BY ItemType, ShareType
<1>3. QED  BY <1>1, <1>2 DEF Thin

\* engine.py: a verdict that the rules give for or against a claim, with no review,
\* model's answer or rating to settle it, has two sources that argue so, or one that
\* is credible and on the point.
THEOREM VerdictsRest ==
  ASSUME NEW W, IsFiniteSet(W), NEW P, NEW c \in ClaimsOn(W), NEW s \in Seq(ItemsOn(W, P)),
         NEW gemini, NEW claude
  PROVE  RestsOnEvidence(c, s, gemini, claude)
<1> DEFINE argues == [TRUE |-> Supporting(c, s), FALSE |-> Refutations(c, s)]
           w == Weighed(c, s)
<1> SUFFICES ASSUME NEW v \in Evaluated(c, s, gemini, claude) \cap {"TRUE", "FALSE"},
                    Settling(s) = {}, Gemini(gemini) = {}, Read(claude) = {}, ~Adjudicated(c, s)
             PROVE  \/ Cardinality(argues[v]) >= 2
                    \/ \E i \in argues[v] : s[i].score >= 80 /\ Share(c, s[i]) >= 50
  BY DEF RestsOnEvidence
<1>1. v = ByRules(c, s).verdict  BY DEF Evaluated
<1>2. v = Decision(w)  BY <1>1 DEF ByRules
<1>3. w.support \in Nat /\ w.contra \in Nat
  BY ItemType, WeighedType
<1>4. w.thinFor = Thin(c, s, Supporting(c, s)) /\ w.thinAgainst = Thin(c, s, Refutations(c, s))
  BY DEF Weighed
<1> HIDE DEF w
<1>5. ~Thin(c, s, argues[v])  BY <1>2, <1>3, <1>4, DecisionRests
<1>6. argues[v] \in SUBSET DOMAIN s  BY DEF Supporting, Refutations, Taking
<1> HIDE DEF argues
<1>7. QED  BY <1>5, <1>6, NotThin

-----------------------------------------------------------------------------
(* An item that comes to deny the claim.                                   *)

\* An item that comes to deny the claim, in one sentence that is not hedged.
Denial == {[before |-> 1, hedged |-> FALSE]}
Debunked(s, i) == [s EXCEPT ![i].negations = Denial]

\* It is a list of evidence, and differs in one item's negations.
LEMMA DebunkedItems ==
  ASSUME NEW W, NEW P, NEW s \in Seq(ItemsOn(W, P)), NEW i \in DOMAIN s,
         NEW d, d = Debunked(s, i)
  PROVE  /\ d \in Seq(ItemsOn(W, P)) /\ DOMAIN d = DOMAIN s /\ Len(d) = Len(s)
         /\ \A j \in DOMAIN s : j # i => d[j] = s[j]
         /\ d[i] = [s[i] EXCEPT !.negations = Denial]
<1> DEFINE e == [s[i] EXCEPT !.negations = Denial]
<1>1. e \in ItemsOn(W, P)
  <2>1. s[i] \in ItemsOn(W, P)  OBVIOUS
  <2>2. Denial \in Negations  BY DEF Denial, Negations
  <2> HIDE DEF Denial
  <2>3. QED  BY <2>1, <2>2 DEF ItemsOn
<1>2. d = [s EXCEPT ![i] = e]  BY DEF Debunked
<1> HIDE DEF e
<1>3. d \in Seq(ItemsOn(W, P)) /\ DOMAIN d = DOMAIN s /\ Len(d) = Len(s) /\ d[i] = e
      /\ \A j \in DOMAIN s : j # i => d[j] = s[j]
  BY <1>1, <1>2
<1>4. QED  BY <1>3 DEF e

\* It keeps everything else that is read of it.
LEMMA DebunkedFields ==
  ASSUME NEW W, NEW P, NEW s \in Seq(ItemsOn(W, P)), NEW i \in DOMAIN s,
         NEW d, d = Debunked(s, i)
  PROVE  \A j \in DOMAIN s :
           /\ d[j].stems = s[j].stems /\ d[j].sim = s[j].sim /\ d[j].score = s[j].score
           /\ d[j].keywords = s[j].keywords /\ d[j].form = s[j].form /\ d[j].body = s[j].body
           /\ d[j].rating = s[j].rating /\ d[j].review = s[j].review
           /\ d[j].quoted = s[j].quoted /\ d[j].alike = s[j].alike
<1>1. \A e \in ItemsOn(W, P) :
        LET f == [e EXCEPT !.negations = Denial]
        IN /\ f.stems = e.stems /\ f.sim = e.sim /\ f.score = e.score
           /\ f.keywords = e.keywords /\ f.form = e.form /\ f.body = e.body
           /\ f.rating = e.rating /\ f.review = e.review
           /\ f.quoted = e.quoted /\ f.alike = e.alike
  BY DEF ItemsOn
<1>2. \A j \in DOMAIN s : s[j] \in ItemsOn(W, P)  OBVIOUS
<1>3. /\ d[i] = [s[i] EXCEPT !.negations = Denial]
      /\ \A j \in DOMAIN s : j # i => d[j] = s[j]
  BY DebunkedItems
<1>4. s[i] \in ItemsOn(W, P)  BY <1>2
<1>5. TAKE j \in DOMAIN s
<1>6. CASE j = i
  <2> DEFINE e == [s[i] EXCEPT !.negations = Denial]
  <2>1. d[j] = e  BY <1>3, <1>6
  <2>2. /\ e.stems = s[i].stems /\ e.sim = s[i].sim /\ e.score = s[i].score
        /\ e.keywords = s[i].keywords /\ e.form = s[i].form /\ e.body = s[i].body
        /\ e.rating = s[i].rating /\ e.review = s[i].review
        /\ e.quoted = s[i].quoted /\ e.alike = s[i].alike
    BY <1>1, <1>4
  <2> HIDE DEF e
  <2>3. QED  BY <2>1, <2>2, <1>6
<1>7. CASE j # i  BY <1>3, <1>7
<1>8. QED  BY <1>6, <1>7

\* It has the items it had.
LEMMA DebunkedShape ==
  ASSUME NEW s, NEW i, NEW d, d = Debunked(s, i)
  PROVE  DOMAIN d = DOMAIN s
BY DEF Debunked

\* So the reviews that settle the claim are the same,
LEMMA DebunkedSettling ==
  ASSUME NEW W, NEW P, NEW s \in Seq(ItemsOn(W, P)), NEW i \in DOMAIN s,
         NEW d, d = Debunked(s, i)
  PROVE  Settling(d) = Settling(s)
<1>1. DOMAIN d = DOMAIN s  BY DebunkedShape
<1>2. \A j \in DOMAIN s : d[j].score = s[j].score /\ d[j].review = s[j].review
                           /\ d[j].quoted = s[j].quoted /\ d[j].alike = s[j].alike
  BY DebunkedFields
<1>3. \A j \in DOMAIN s : Aligned(d[j]) <=> Aligned(s[j])  BY <1>2 DEF Aligned
<1>4. QED  BY <1>1, <1>2, <1>3 DEF Settling

\* and which words are distinctive, and which items are on topic.
LEMMA DebunkedSame ==
  ASSUME NEW W, NEW P, NEW c, NEW s \in Seq(ItemsOn(W, P)), NEW i \in DOMAIN s,
         NEW d, d = Debunked(s, i)
  PROVE  /\ Distinctive(c, d) = Distinctive(c, s)
         /\ \A j \in DOMAIN s : OnTopic(c, d[j]) <=> OnTopic(c, s[j])
         /\ \A j \in DOMAIN s : Share(c, d[j]) = Share(c, s[j])
<1>1. DOMAIN d = DOMAIN s /\ Len(d) = Len(s)
  <2>1. d \in Seq(ItemsOn(W, P))  BY DebunkedItems
  <2>2. DOMAIN d = DOMAIN s  BY DebunkedShape
  <2>3. Len(d) \in Nat /\ Len(s) \in Nat /\ 1..Len(d) = 1..Len(s)  BY <2>1, <2>2
  <2>4. \A m, n \in Nat : 1..m = 1..n => m = n
    <3> SUFFICES ASSUME NEW m \in Nat, NEW n \in Nat, 1..m = 1..n PROVE m = n  OBVIOUS
    <3>1. (m \in 1..m /\ n \in 1..n) \/ m = 0 \/ n = 0  OBVIOUS
    <3>2. QED  BY <3>1
  <2>5. QED  BY <2>2, <2>3, <2>4
<1>2. \A j \in DOMAIN s :
         /\ d[j].stems = s[j].stems /\ d[j].sim = s[j].sim /\ d[j].score = s[j].score
         /\ d[j].keywords = s[j].keywords /\ d[j].form = s[j].form /\ d[j].body = s[j].body
         /\ d[j].rating = s[j].rating /\ d[j].review = s[j].review
         /\ d[j].quoted = s[j].quoted /\ d[j].alike = s[j].alike
  BY DebunkedFields
<1>4. Distinctive(c, d) = Distinctive(c, s)
  <2>1. \A w : {j \in DOMAIN d : w \in d[j].stems} = {j \in DOMAIN s : w \in s[j].stems}
    BY <1>1, <1>2
  <2>2. QED  BY <1>1, <2>1 DEF Distinctive
<1>5. \A j \in DOMAIN s : Matches(c, d[j]) = Matches(c, s[j])  BY <1>2 DEF Matches
<1>6. \A j \in DOMAIN s : Share(c, d[j]) = Share(c, s[j])  BY <1>5 DEF Share
<1>7. \A j \in DOMAIN s : OnTopic(c, d[j]) <=> OnTopic(c, s[j])
  BY <1>2, <1>5, <1>6 DEF OnTopic, Interrogative
<1>8. QED  BY <1>4, <1>6, <1>7

\* All other items keep their stance; this one takes the one against the claim, or
\* for it where the claim is itself a denial.
LEMMA DebunkedStances ==
  ASSUME NEW W, NEW P, NEW c \in ClaimsOn(W), NEW s \in Seq(ItemsOn(W, P)), NEW i \in DOMAIN s,
         NEW d, d = Debunked(s, i)
  PROVE  /\ \A j \in DOMAIN s : j # i => Stances(c, d)[j] = Stances(c, s)[j]
         /\ Stances(c, d)[i] = IF ~OnTopic(c, s[i]) THEN "off"
                               ELSE IF c.negated THEN "supports" ELSE "refutes"
         /\ Stances(c, s)[i] = "off" <=> ~OnTopic(c, s[i])
         /\ c.negated => Stances(c, s)[i] \in {"off", "supports", "refutes"}
<1>1. /\ DOMAIN d = DOMAIN s
      /\ \A j \in DOMAIN s : j # i => d[j] = s[j]
      /\ d[i] = [s[i] EXCEPT !.negations = Denial]
  BY DebunkedItems
<1>2. Distinctive(c, d) = Distinctive(c, s) /\ (OnTopic(c, d[i]) <=> OnTopic(c, s[i]))
  BY DebunkedSame
<1>3. \A j \in DOMAIN s :
        Stances(c, d)[j] = Stance(c, d[j], d) /\ Stances(c, s)[j] = Stance(c, s[j], s)
  BY <1>1 DEF Stances
<1>4. Refuting(d[i])
  <2>1. s[i] \in ItemsOn(W, P)  OBVIOUS
  <2>2. d[i].negations = Denial  BY <1>1, <2>1 DEF ItemsOn
  <2>3. Negates(d[i])  BY <2>2 DEF Negates, Denial
  <2>4. QED  BY <2>3 DEF Refuting
<1>5. \A j \in DOMAIN s : j # i => Stance(c, d[j], d) = Stance(c, s[j], s)
  BY <1>1, <1>2 DEF Stance, Implies
<1>6. Stance(c, d[i], d) = IF ~OnTopic(c, s[i]) THEN "off"
                           ELSE IF c.negated THEN "supports" ELSE "refutes"
  BY <1>2, <1>4 DEF Stance
<1>7. /\ Stance(c, s[i], s) = "off" <=> ~OnTopic(c, s[i])
      /\ c.negated => Stance(c, s[i], s) \in {"off", "supports", "refutes"}
  BY DEF Stance
<1>8. QED  BY <1>3, <1>5, <1>6, <1>7

\* The totals grow with what each item's stance weighs.
LEMMA WeighedMonotone ==
  ASSUME NEW c, NEW n \in Nat, NEW s, NEW d, DOMAIN s = 1..n, DOMAIN d = 1..n,
         \A i \in 1..n : /\ s[i].sim \in Nat /\ s[i].score \in Nat
                         /\ d[i].sim = s[i].sim /\ d[i].score = s[i].score
  PROVE  /\ (\A i \in 1..n : For[Stances(c, s)[i]] <= For[Stances(c, d)[i]])
              => Weighed(c, s).support <= Weighed(c, d).support
         /\ (\A i \in 1..n : Against[Stances(c, s)[i]] <= Against[Stances(c, d)[i]])
              => Weighed(c, s).contra <= Weighed(c, d).contra
<1> DEFINE x == Stances(c, s)
           y == Stances(c, d)
           for == [i \in 1..n |-> s[i].sim * s[i].score * For[x[i]]]
           for2 == [i \in 1..n |-> d[i].sim * d[i].score * For[y[i]]]
           against == [i \in 1..n |-> s[i].sim * s[i].score * Against[x[i]]]
           against2 == [i \in 1..n |-> d[i].sim * d[i].score * Against[y[i]]]
<1>1. \A i \in 1..n : /\ For[x[i]] \in Nat /\ Against[x[i]] \in Nat
                      /\ For[y[i]] \in Nat /\ Against[y[i]] \in Nat
  <2>1. \A i \in 1..n : x[i] \in StanceNames /\ y[i] \in StanceNames
    BY StanceType DEF Stances
  <2>2. QED  BY <2>1, WeightType
<1>2. /\ Weighed(c, s).support = SumFunction(for) /\ Weighed(c, d).support = SumFunction(for2)
      /\ Weighed(c, s).contra = SumFunction(against) /\ Weighed(c, d).contra = SumFunction(against2)
  BY DEF Weighed
<1>3. \A i \in 1..n : s[i].sim * s[i].score \in Nat
  OBVIOUS
<1> HIDE DEF x, y
<1>4. \A a \in Nat, b \in Nat, e \in Nat : a * b \in Nat /\ (b <= e => a * b <= a * e)
  <2> SUFFICES ASSUME NEW a \in Nat, NEW b \in Nat, NEW e \in Nat
               PROVE  a * b \in Nat /\ (b <= e => a * b <= a * e)
    OBVIOUS
  <2>1. b <= e => e - b \in Nat /\ a * (e - b) \in Nat /\ a * (e - b) = a * e - a * b
    OBVIOUS
  <2>2. a * b \in Nat /\ a * e \in Nat  OBVIOUS
  <2>3. QED  BY <2>1, <2>2
<1>5. \A i \in 1..n :
        /\ for[i] \in Nat /\ for2[i] \in Nat /\ against[i] \in Nat /\ against2[i] \in Nat
        /\ For[x[i]] <= For[y[i]] => for[i] <= for2[i]
        /\ Against[x[i]] <= Against[y[i]] => against[i] <= against2[i]
  <2> TAKE i \in 1..n
  <2> DEFINE a == s[i].sim * s[i].score
  <2>1. a \in Nat  BY <1>3
  <2>2. /\ for[i] = a * For[x[i]] /\ for2[i] = a * For[y[i]]
        /\ against[i] = a * Against[x[i]] /\ against2[i] = a * Against[y[i]]
    OBVIOUS
  <2>3. For[x[i]] \in Nat /\ Against[x[i]] \in Nat /\ For[y[i]] \in Nat /\ Against[y[i]] \in Nat
    BY <1>1
  <2> HIDE DEF a, for, for2, against, against2
  <2>4. for[i] \in Nat /\ for2[i] \in Nat /\ (For[x[i]] <= For[y[i]] => for[i] <= for2[i])
    BY <1>4, <2>1, <2>2, <2>3
  <2>5. /\ against[i] \in Nat /\ against2[i] \in Nat
        /\ Against[x[i]] <= Against[y[i]] => against[i] <= against2[i]
    BY <1>4, <2>1, <2>2, <2>3
  <2>6. QED  BY <2>4, <2>5
<1>6. /\ IsFiniteSet(1..n)
      /\ DOMAIN for = 1..n /\ DOMAIN for2 = 1..n /\ DOMAIN against = 1..n /\ DOMAIN against2 = 1..n
  BY FS_Interval
<1>7. ASSUME \A i \in 1..n : For[x[i]] <= For[y[i]]
      PROVE  SumFunction(for) <= SumFunction(for2)
  <2> HIDE DEF for, for2, against, against2
  <2>1. QED  BY <1>5, <1>6, <1>7, SumMonotone
<1>8. ASSUME \A i \in 1..n : Against[x[i]] <= Against[y[i]]
      PROVE  SumFunction(against) <= SumFunction(against2)
  <2> HIDE DEF for, for2, against, against2
  <2>1. QED  BY <1>5, <1>6, <1>8, SumMonotone
<1> HIDE DEF for, for2, against, against2
<1>9. QED  BY <1>2, <1>7, <1>8 DEF x, y

\* The least number of a set is in it.
LEMMA LeastOf ==
  ASSUME NEW X, X \subseteq Nat, X # {}
  PROVE  Min(X) \in X
<1>1. PICK n \in X : \A m \in X : ~ m < n  BY Least
<1>2. \A m \in X : n <= m  BY <1>1
<1>3. QED  BY <1>2 DEF Min

\* What is not thin stays so when the side grows.
LEMMA ThinMonotone ==
  ASSUME NEW W, IsFiniteSet(W), NEW P, NEW c \in ClaimsOn(W), NEW s \in Seq(ItemsOn(W, P)),
         NEW i \in DOMAIN s, NEW d, d = Debunked(s, i),
         NEW side \in SUBSET DOMAIN s, NEW more \in SUBSET DOMAIN s, side \subseteq more,
         ~Thin(c, d, side)
  PROVE  ~Thin(c, s, more)
<1>1. Relevant(c, d) = Relevant(c, s)
  BY DebunkedShape, DebunkedSame DEF Relevant
<1>2. \A j \in DOMAIN s : d[j].rating = s[j].rating /\ d[j].score = s[j].score
                           /\ Share(c, d[j]) = Share(c, s[j])
  <2>1. \A j \in DOMAIN s : d[j].rating = s[j].rating /\ d[j].score = s[j].score
    BY DebunkedFields
  <2>2. /\ Distinctive(c, d) = Distinctive(c, s)
        /\ \A j \in DOMAIN s : Share(c, d[j]) = Share(c, s[j])
    BY DebunkedSame
  <2>3. QED  BY <2>1, <2>2
<1>3. Adjudicated(c, d) => Adjudicated(c, s)
  BY <1>1, <1>2 DEF Adjudicated, Relevant
<1>4. /\ IsFiniteSet(more) /\ IsFiniteSet(side)
      /\ Cardinality(side) \in Nat /\ Cardinality(more) \in Nat
      /\ Cardinality(side) <= Cardinality(more)
  BY DomainFinite, FS_Subset, FS_CardinalityType
<1>5. CASE Adjudicated(c, d)  BY <1>3, <1>5 DEF Thin
<1>6. CASE ~(Cardinality(side) < 2)  BY <1>4, <1>6 DEF Thin
<1>7. CASE ~ \A j \in side : d[j].score < 80 \/ Share(c, d[j]) < 50
  BY <1>2, <1>7 DEF Thin
<1>8. QED  BY <1>5, <1>6, <1>7 DEF Thin

\* engine.py: an item that comes to deny the claim never makes it true, and one that
\* denies a claim which is itself a denial never makes it false: what the item then
\* weighs moves the totals, and the side that rests on it, one way.
THEOREM DebunkingNeverHelps ==
  ASSUME NEW W, IsFiniteSet(W), NEW P, NEW c \in ClaimsOn(W), NEW s \in Seq(ItemsOn(W, P))
  PROVE  DebunkingCounts(c, s)
<1> DEFINE wanted == IF c.negated THEN "FALSE" ELSE "TRUE"
<1> SUFFICES ASSUME NEW i \in DOMAIN s, NEW d, d = Debunked(s, i), ByRules(c, d).verdict = wanted
             PROVE  ByRules(c, s).verdict = wanted
  BY DEF DebunkingCounts, Debunked, Denial
<1>1. DOMAIN d = DOMAIN s /\ s # <<>> /\ d # <<>>
  BY DebunkedShape
<1>2. Settling(d) = Settling(s)  BY DebunkedSettling
<1>3. CASE Settling(s) # {}
  <2>1. Settling(s) \subseteq DOMAIN s /\ Settling(s) \subseteq Nat  BY DEF Settling
  <2>2. Min(Settling(s)) \in DOMAIN s  BY <2>1, <1>3, LeastOf
  <2>3. d[Min(Settling(s))].review = s[Min(Settling(s))].review  BY <2>2, DebunkedFields
  <2>4. QED  BY <1>2, <1>3, <2>3 DEF ByRules
<1>4. CASE Settling(s) = {}
  <2> DEFINE v == Weighed(c, d)
             w == Weighed(c, s)
             x == Stances(c, s)
             y == Stances(c, d)
             n == Len(s)
  <2>1. ByRules(c, d).verdict = Decision(v) /\ ByRules(c, s).verdict = Decision(w)
    BY <1>1, <1>2, <1>4 DEF ByRules
  <2>2. /\ n \in Nat /\ DOMAIN s = 1..n /\ DOMAIN d = 1..n
        /\ \A j \in 1..n : s[j].sim \in Nat /\ s[j].score \in Nat
    BY <1>1, ItemType
  <2>3. \A j \in 1..n : d[j].sim = s[j].sim /\ d[j].score = s[j].score
    BY <2>2, DebunkedFields
  <2>4. /\ v.support \in Nat /\ v.contra \in Nat /\ w.support \in Nat /\ w.contra \in Nat
    BY <2>2, <2>3, WeighedType
  <2>5. w.relevant <=> v.relevant
    BY <1>1, DebunkedSame DEF Weighed, Relevant
  <2>6. /\ \A j \in DOMAIN s : j # i => y[j] = x[j]
        /\ y[i] = IF ~OnTopic(c, s[i]) THEN "off" ELSE IF c.negated THEN "supports" ELSE "refutes"
        /\ x[i] = "off" <=> ~OnTopic(c, s[i])
        /\ c.negated => x[i] \in {"off", "supports", "refutes"}
    BY DebunkedStances
  <2>7. \A j \in DOMAIN s : x[j] \in StanceNames /\ y[j] \in StanceNames
    BY <1>1, StanceType DEF Stances
  <2>8. /\ v.thinFor = Thin(c, d, Supporting(c, d)) /\ w.thinFor = Thin(c, s, Supporting(c, s))
        /\ v.thinAgainst = Thin(c, d, Refutations(c, d))
        /\ w.thinAgainst = Thin(c, s, Refutations(c, s))
    BY DEF Weighed
  <2>9. /\ Supporting(c, d) = {j \in DOMAIN s : y[j] \in {"supports", "implies"}}
        /\ Supporting(c, s) = {j \in DOMAIN s : x[j] \in {"supports", "implies"}}
        /\ Refutations(c, d) = {j \in DOMAIN s : y[j] \in {"refutes"}}
        /\ Refutations(c, s) = {j \in DOMAIN s : x[j] \in {"refutes"}}
    BY <1>1 DEF Supporting, Refutations, Taking
  <2>10. CASE ~c.negated
    <3>1. \A j \in DOMAIN s : For[y[j]] <= For[x[j]] /\ Against[x[j]] <= Against[y[j]]
      <4>1. \A z \in StanceNames : /\ For[z] >= 0 /\ For[z] <= For[z] /\ Against[z] <= 25
                                   /\ Against[z] <= Against[z]
        BY DEF For, Against, StanceNames
      <4>2. For["refutes"] = 0 /\ Against["refutes"] = 25 /\ For["off"] = 0 /\ Against["off"] = 0
        BY DEF For, Against
      <4>3. QED  BY <2>6, <2>7, <2>10, <4>1, <4>2
    <3>2. v.support <= w.support /\ w.contra <= v.contra
      <4>1. \A j \in 1..n : /\ d[j].sim \in Nat /\ d[j].score \in Nat
                            /\ s[j].sim = d[j].sim /\ s[j].score = d[j].score
        BY <2>2, <2>3
      <4> HIDE DEF n
      <4>2. v.support <= w.support  BY <2>2, <3>1, <4>1, WeighedMonotone
      <4>3. w.contra <= v.contra  BY <2>2, <2>3, <3>1, WeighedMonotone
      <4>4. QED  BY <4>2, <4>3
    <3>3. Supporting(c, d) \subseteq Supporting(c, s)
      BY <2>6, <2>9, <2>10
    <3>4. ~v.thinFor => ~w.thinFor
      BY <2>8, <2>9, <3>3, ThinMonotone
    <3> HIDE DEF v, w, x, y, n
    <3>5. Decision(v) = "TRUE" => Decision(w) = "TRUE"
      BY <2>4, <2>5, <3>2, <3>4, DecisionRests, DecisionTaken
    <3>6. QED  BY <2>1, <2>10, <3>5
  <2>11. CASE c.negated
    <3>1. \A j \in DOMAIN s : For[x[j]] <= For[y[j]] /\ Against[y[j]] <= Against[x[j]]
      <4>1. \A z \in StanceNames : For[z] <= For[z] /\ Against[z] <= Against[z]
        BY DEF For, Against, StanceNames
      <4>2. /\ For["refutes"] = 0 /\ Against["refutes"] = 25
            /\ For["supports"] = 15 /\ Against["supports"] = 0
        BY DEF For, Against
      <4>3. QED  BY <2>6, <2>7, <2>11, <4>1, <4>2
    <3>2. w.support <= v.support /\ v.contra <= w.contra
      <4>1. \A j \in 1..n : /\ d[j].sim \in Nat /\ d[j].score \in Nat
                            /\ s[j].sim = d[j].sim /\ s[j].score = d[j].score
        BY <2>2, <2>3
      <4> HIDE DEF n
      <4>2. w.support <= v.support  BY <2>2, <2>3, <3>1, WeighedMonotone
      <4>3. v.contra <= w.contra  BY <2>2, <3>1, <4>1, WeighedMonotone
      <4>4. QED  BY <4>2, <4>3
    <3>3. Refutations(c, d) \subseteq Refutations(c, s)
      BY <2>6, <2>9, <2>11
    <3>4. ~v.thinAgainst => ~w.thinAgainst
      BY <2>8, <2>9, <3>3, ThinMonotone
    <3> HIDE DEF v, w, x, y, n
    <3>5. Decision(v) = "FALSE" => Decision(w) = "FALSE"
      BY <2>4, <2>5, <3>2, <3>4, DecisionRests, DecisionTaken
    <3>6. QED  BY <2>1, <2>11, <3>5
  <2>12. QED  BY <2>10, <2>11
<1>5. QED  BY <1>3, <1>4

-----------------------------------------------------------------------------
(* The report.                                                             *)

\* A finite set of two or more has two different elements.
LEMMA TwoIn ==
  ASSUME NEW X, IsFiniteSet(X), Cardinality(X) >= 2
  PROVE  \E x, y \in X : x # y
<1> SUFFICES ASSUME \A x, y \in X : x = y PROVE FALSE  OBVIOUS
<1>1. CASE X = {}  BY <1>1, FS_EmptySet
<1>2. CASE X # {}
  <2>1. PICK x \in X : TRUE  BY <1>2
  <2>2. X = {x}  BY <2>1
  <2>3. Cardinality(X) = 1  BY <2>2, FS_Singleton
  <2>4. QED  BY <2>3
<1>3. QED  BY <1>1, <1>2

\* engines/evidence.py: a decision is reported only with a source on display that
\* argues so, is credible and is cited faithfully, and as resting on several
\* publishers only if two of those shown are.
THEOREM DecisionsRelyOnSources ==
  ASSUME NEW c, NEW X, NEW s \in Seq(X)
  PROVE  ReliesOnSources(c, s)
<1> DEFINE sources == Sources(c, s)
           a == Assessed(c, s)
           first == Assessment(Verdict(c, s).verdict)
           argues == {i \in DOMAIN a.sources : /\ a.assessment \in DOMAIN Deciding
                                               /\ a.sources[i].stance = Deciding[a.assessment]
                                               /\ a.sources[i].citation # "mismatch"}
<1>1. /\ a.sources = sources
      /\ a.assessment = IF Downgraded(first, sources) THEN "INSUFFICIENT_EVIDENCE" ELSE first
      /\ a.corroboration = Corroboration(a.assessment, sources)
  BY DEF Assessed
<1>2. /\ DOMAIN sources = 1..Lesser(Len(s), Shown) /\ IsFiniteSet(DOMAIN sources)
      /\ \A i \in DOMAIN sources : sources[i].publisher = s[i].publisher
  <2>1. Lesser(Len(s), Shown) \in Nat  BY ShownAssumption DEF Lesser
  <2>2. QED  BY <2>1, FS_Interval DEF Sources
<1>3. a.assessment \in DOMAIN Deciding => argues = Decisive(a.assessment, sources)
  BY <1>1 DEF Decisive
<1> HIDE DEF a, sources, argues
<1>4. ASSUME a.assessment \in DOMAIN Deciding
      PROVE  \E i \in argues : a.sources[i].credible
  <2>1. a.assessment = first /\ ~Downgraded(first, sources)
    BY <1>1, <1>4 DEF Deciding
  <2>2. PICK i \in Decisive(first, sources) : sources[i].credible
    BY <2>1, <1>4 DEF Downgraded
  <2>3. QED  BY <1>1, <1>3, <1>4, <2>1, <2>2
<1>5. ASSUME a.corroboration = "multiple_independent"
      PROVE  \E i, j \in argues : s[i].publisher # s[j].publisher
  <2> DEFINE credible == {j \in Decisive(a.assessment, sources) : sources[j].credible}
             publishers == {sources[i].publisher : i \in credible}
  <2>1. a.assessment \in DOMAIN Deciding /\ Cardinality(publishers) >= 2
    BY <1>1, <1>5 DEF Corroboration
  <2>2. credible \subseteq argues /\ credible \subseteq DOMAIN sources
    BY <1>3, <2>1 DEF Decisive
  <2>3. IsFiniteSet(publishers)
    <3>1. IsFiniteSet(credible)  BY <1>2, <2>2, FS_Subset
    <3> DEFINE f == [i \in credible |-> sources[i].publisher]
    <3>2. f \in Surjection(credible, publishers)  BY DEF Surjection
    <3> HIDE DEF credible, publishers, f
    <3>3. QED  BY <3>1, <3>2, FS_Surjection
  <2>4. PICK x \in publishers, y \in publishers : x # y
    <3> HIDE DEF publishers
    <3>1. QED  BY <2>1, <2>3, TwoIn
  <2>5. PICK i \in credible, j \in credible : x = sources[i].publisher /\ y = sources[j].publisher
    BY <2>4
  <2>6. QED  BY <1>2, <2>2, <2>4, <2>5
<1>6. QED  BY <1>4, <1>5 DEF ReliesOnSources, a, argues

\* What is decided false by weight is decided with some confidence,
LEMMA FalseIsCertain ==
  ASSUME NEW w, w.contra \in Nat, Decision(w) = "FALSE"
  PROVE  Confidence(w) >= 40
<1>1. \A n \in Nat : (4 * n) \div 10000 \in Nat  OBVIOUS
<1>2. PICK n \in Nat : n = (4 * w.contra) \div 10000  BY <1>1
<1>3. Confidence(w) = Lesser(95, 45 + Lesser(50, n))  BY <1>2 DEF Confidence
<1>4. Lesser(50, n) \in 0..50  BY DEF Lesser
<1>5. \A m \in 0..50 : Lesser(95, 45 + m) >= 40  BY DEF Lesser
<1>6. QED  BY <1>3, <1>4, <1>5

\* and so is what a review decides.
LEMMA FalseByRules ==
  ASSUME NEW W, IsFiniteSet(W), NEW P, NEW c \in ClaimsOn(W), NEW s \in Seq(ItemsOn(W, P)),
         ByRules(c, s).verdict = "FALSE"
  PROVE  ByRules(c, s).confidence >= 40
<1> DEFINE w == Weighed(c, s)
<1>1. CASE Settling(s) # {}
  <2>1. ByRules(c, s).confidence = 98  BY <1>1 DEF ByRules
  <2>2. QED  BY <2>1
<1>2. CASE Settling(s) = {}
  <2>1. Decision(w) = "FALSE" /\ ByRules(c, s).confidence = Confidence(w)
    BY <1>2 DEF ByRules
  <2>2. w.contra \in Nat  BY ItemType, WeighedType
  <2> HIDE DEF w
  <2>3. QED  BY <2>1, <2>2, FalseIsCertain
<1>3. QED  BY <1>1, <1>2

\* engines/evidence.py: a claim found false and reported as contradicted raises a
\* HIGH signal: no such verdict has too little confidence for one.
THEOREM ContradictionsAreSignalled ==
  ASSUME NEW W, IsFiniteSet(W), NEW P, NEW c \in ClaimsOn(W), NEW s \in Seq(ItemsOn(W, P))
  PROVE  ContradictionIsSignalled(c, s)
<1> SUFFICES ASSUME Verdict(c, s).verdict \in {"FALSE", "LIKELY FALSE"},
                    Assessed(c, s).assessment = "CONTRADICTED"
             PROVE  Assessed(c, s).signal = "HIGH"
  BY DEF ContradictionIsSignalled
<1>1. /\ s # <<>> /\ ByRules(c, s).verdict = "FALSE"
      /\ Verdict(c, s).confidence = ByRules(c, s).confidence
  BY DEF Verdict, ByRules
<1>2. Verdict(c, s).confidence >= 40  BY <1>1, FalseByRules
<1>3. QED  BY <1>2 DEF Assessed

-----------------------------------------------------------------------------
(* A dossier on a claim.                                                   *)

\* A claim and the items found on it.
DossierType ==
  kind = "claim" => /\ dossier.about \in Claims
                    /\ dossier.items \in Seq(Found)

\* It stays one.
LEMMA DossierTyped == DecisionsSpec => []DossierType
<1>1. (\E k \in DecisionKinds : DecisionsStart(k)) => DossierType
  BY DEF DecisionsStart, DossierType, Abouts
<1>2. DossierType /\ [Add]_decisionVars => DossierType'
  <2> SUFFICES ASSUME DossierType, [Add]_decisionVars, kind' = "claim"
               PROVE  dossier'.about \in Claims /\ dossier'.items \in Seq(Found)
    BY DEF DossierType
  <2>1. CASE UNCHANGED decisionVars  BY <2>1 DEF decisionVars, DossierType
  <2>2. CASE Add
    <3>1. kind = "claim" /\ dossier.about \in Claims /\ dossier.items \in Seq(Found)
      BY <2>2 DEF Add, DossierType
    <3>2. PICK item \in Items(kind) : dossier' = [dossier EXCEPT !.items = Append(@, item)]
      BY <2>2 DEF Add
    <3>3. Items(kind) = Found  BY <3>1 DEF Items
    <3> HIDE DEF Found, Claims
    <3>4. QED  BY <3>1, <3>2, <3>3
  <2>3. QED  BY <2>1, <2>2
<1>3. QED  BY <1>1, <1>2, PTL DEF DecisionsSpec

\* The claims and items the model has are such as the theorems are about.
LEMMA Inputs ==
  /\ IsFiniteSet(1..6)
  /\ Claims \subseteq ClaimsOn(1..6)
  /\ Found \subseteq ItemsOn(1..6, 1..4)
<1>1. IsFiniteSet(1..6)
  <2>1. 1 \in Int /\ 6 \in Int  OBVIOUS
  <2>2. QED  BY <2>1, FS_Interval
<1>2. Claims \subseteq ClaimsOn(1..6)
  <2> DEFINE claim == [stems |-> {1, 2, 3}, negated |-> FALSE, universal |-> FALSE]
  <2>1. {1, 2, 3} \subseteq 1..6 /\ {1, 2} \subseteq 1..6 /\ 1..6 \subseteq 1..6  OBVIOUS
  <2>2. claim \in ClaimsOn(1..6)  BY <2>1 DEF ClaimsOn
  <2> HIDE DEF claim
  <2>3. [claim EXCEPT !.stems = {1, 2}] \in ClaimsOn(1..6)  BY <2>1, <2>2 DEF ClaimsOn
  <2>4. [claim EXCEPT !.stems = 1..6] \in ClaimsOn(1..6)  BY <2>1, <2>2 DEF ClaimsOn
  <2>5. [claim EXCEPT !.negated = TRUE] \in ClaimsOn(1..6)  BY <2>2 DEF ClaimsOn
  <2>6. [claim EXCEPT !.universal = TRUE] \in ClaimsOn(1..6)  BY <2>2 DEF ClaimsOn
  <2>7. Claims = {claim, [claim EXCEPT !.stems = {1, 2}], [claim EXCEPT !.stems = 1..6],
                  [claim EXCEPT !.negated = TRUE], [claim EXCEPT !.universal = TRUE]}
    BY DEF Claims, claim
  <2>8. QED  BY <2>2, <2>3, <2>4, <2>5, <2>6, <2>7
<1>3. Found \subseteq ItemsOn(1..6, 1..4)
  <2> DEFINE W == 1..6
             P == 1..4
             page == [stems |-> {1, 2}, sim |-> 20, score |-> 75, keywords |-> 40, form |-> "statement",
                     body |-> 0, rating |-> "none", review |-> "none", quoted |-> FALSE, alike |-> 0,
                     words |-> {}, negations |-> {}, predicted |-> "none", universal |-> FALSE,
                     knowledge |-> FALSE, stored |-> "none", host |-> "other", address |-> "own",
                     found |-> "yes", dated |-> "past", publisher |-> 1]
  <2>1. {1, 2} \in SUBSET W /\ {2, 3, 4} \in SUBSET W /\ {3} \in SUBSET W
        /\ 1 \in P /\ 2 \in P /\ 3 \in P /\ 4 \in P
    OBVIOUS
  <2> HIDE DEF W, P
  <2>2. page \in ItemsOn(W, P)
    BY <2>1 DEF ItemsOn, Forms, Ratings, ReviewRatings, Polarities, Negations, Predictions,
       Categories, Hosts, Addresses, Lookups, Dates
  <2> HIDE DEF page
  <2>3. [page EXCEPT !.score = 55, !.publisher = 2, !.found = "unknown"] \in ItemsOn(W, P)
    BY <2>1, <2>2 DEF ItemsOn, Lookups
  <2>4. [page EXCEPT !.sim = 6, !.score = 85, !.knowledge = TRUE,
         !.host = "community"] \in ItemsOn(W, P)
    BY <2>1, <2>2 DEF ItemsOn, Hosts
  <2>5. [page EXCEPT !.sim = 6, !.score = 65, !.stems = {2, 3, 4},
         !.publisher = 3] \in ItemsOn(W, P)
    BY <2>1, <2>2 DEF ItemsOn
  <2>6. [page EXCEPT !.score = 95, !.host = "official",
         !.negations = {[before |-> 1, hedged |-> FALSE]}] \in ItemsOn(W, P)
    <3>1. {[before |-> 1, hedged |-> FALSE]} \in Negations  BY DEF Negations
    <3>2. QED  BY <2>1, <2>2, <3>1 DEF ItemsOn, Hosts
  <2>7. [page EXCEPT !.negations = {[before |-> 2, hedged |-> TRUE]},
         !.words = {"true"}] \in ItemsOn(W, P)
    <3>1. {[before |-> 2, hedged |-> TRUE]} \in Negations /\ {"true"} \in Polarities
      BY DEF Negations, Polarities
    <3>2. QED  BY <2>1, <2>2, <3>1 DEF ItemsOn
  <2>8. [page EXCEPT !.score = 92, !.rating = "false", !.review = "false", !.quoted = TRUE,
         !.alike = 20] \in ItemsOn(W, P)
    BY <2>1, <2>2 DEF ItemsOn, Ratings, ReviewRatings
  <2>9. [page EXCEPT !.score = 95, !.rating = "true", !.review = "true", !.quoted = TRUE,
         !.alike = 80] \in ItemsOn(W, P)
    BY <2>1, <2>2 DEF ItemsOn, Ratings, ReviewRatings
  <2>10. [page EXCEPT !.score = 92, !.review = "misleading", !.rating = "misleading",
         !.alike = 36, !.address = "other"] \in ItemsOn(W, P)
    BY <2>1, <2>2 DEF ItemsOn, ReviewRatings, Ratings, Addresses
  <2>11. [page EXCEPT !.rating = "unproven", !.sim = 16] \in ItemsOn(W, P)
    BY <2>1, <2>2 DEF ItemsOn, Ratings
  <2>12. [page EXCEPT !.words = {"true", "false"}, !.publisher = 4] \in ItemsOn(W, P)
    <3>1. {"true", "false"} \in Polarities  BY DEF Polarities
    <3>2. QED  BY <2>1, <2>2, <3>1 DEF ItemsOn
  <2>13. [page EXCEPT !.form = "question"] \in ItemsOn(W, P)
    BY <2>1, <2>2 DEF ItemsOn, Forms
  <2>14. [page EXCEPT !.score = 85, !.found = "no", !.publisher = 2] \in ItemsOn(W, P)
    BY <2>1, <2>2 DEF ItemsOn, Lookups
  <2>15. [page EXCEPT !.score = 60, !.sim = 12, !.predicted = "refutes",
         !.stored = "PRIMARY"] \in ItemsOn(W, P)
    BY <2>1, <2>2 DEF ItemsOn, Predictions, Categories
  <2>16. [page EXCEPT !.stems = {3}, !.sim = 1] \in ItemsOn(W, P)
    BY <2>1, <2>2 DEF ItemsOn
  <2>17. Found = {page,
            [page EXCEPT !.score = 55, !.publisher = 2, !.found = "unknown"],
            [page EXCEPT !.sim = 6, !.score = 85, !.knowledge = TRUE, !.host = "community"],
            [page EXCEPT !.sim = 6, !.score = 65, !.stems = {2, 3, 4}, !.publisher = 3],
            [page EXCEPT !.score = 95, !.host = "official",
             !.negations = {[before |-> 1, hedged |-> FALSE]}],
            [page EXCEPT !.negations = {[before |-> 2, hedged |-> TRUE]}, !.words = {"true"}],
            [page EXCEPT !.score = 92, !.rating = "false", !.review = "false", !.quoted = TRUE,
             !.alike = 20],
            [page EXCEPT !.score = 95, !.rating = "true", !.review = "true", !.quoted = TRUE,
             !.alike = 80],
            [page EXCEPT !.score = 92, !.review = "misleading", !.rating = "misleading",
             !.alike = 36, !.address = "other"],
            [page EXCEPT !.rating = "unproven", !.sim = 16],
            [page EXCEPT !.words = {"true", "false"}, !.publisher = 4],
            [page EXCEPT !.form = "question"],
            [page EXCEPT !.score = 85, !.found = "no", !.publisher = 2],
            [page EXCEPT !.score = 60, !.sim = 12, !.predicted = "refutes", !.stored = "PRIMARY"],
            [page EXCEPT !.stems = {3}, !.sim = 1]}
    BY Zenon DEF Found, page
  <2>18. \A x \in Found : x \in ItemsOn(W, P)
    BY <2>2, <2>3, <2>4, <2>5, <2>6, <2>7, <2>8, <2>9, <2>10,
       <2>11, <2>12, <2>13, <2>14, <2>15, <2>16, <2>17
  <2>19. QED  BY <2>18 DEF W, P
<1>4. QED  BY <1>1, <1>2, <1>3

\* Every claim of the run is judged so with every item found, however many items
\* there are and sources shown.
THEOREM ClaimsAlwaysJudged == DecisionsSpec => ClaimsJudged
<1> DEFINE Judged == /\ \A g \in Replies : RestsOnEvidence(dossier'.about, dossier'.items, g, "unreadable")
                     /\ DebunkingCounts(dossier'.about, dossier'.items)
                     /\ ReliesOnSources(dossier'.about, dossier'.items)
                     /\ ContradictionIsSignalled(dossier'.about, dossier'.items)
<1>1. ASSUME dossier'.about \in Claims, dossier'.items \in Seq(Found) PROVE Judged
  <2> DEFINE c == dossier'.about
             s == dossier'.items
  <2>1. c \in ClaimsOn(1..6) /\ s \in Seq(ItemsOn(1..6, 1..4)) /\ IsFiniteSet(1..6)
    BY <1>1, Inputs
  <2> HIDE DEF c, s
  <2>2. \A g : RestsOnEvidence(c, s, g, "unreadable")  BY <2>1, VerdictsRest
  <2>3. DebunkingCounts(c, s)  BY <2>1, DebunkingNeverHelps
  <2>4. ReliesOnSources(c, s)  BY <2>1, DecisionsRelyOnSources
  <2>5. ContradictionIsSignalled(c, s)  BY <2>1, ContradictionsAreSignalled
  <2>6. QED  BY <2>2, <2>3, <2>4, <2>5 DEF c, s
<1>2. [Add]_decisionVars /\ DossierType' => [kind = "claim" => Judged]_decisionVars
  <2> HIDE DEF Judged
  <2>1. QED  BY <1>1 DEF DossierType, Add
<1>3. QED  BY <1>2, DossierTyped, PTL DEF DecisionsSpec, ClaimsJudged
=============================================================================
