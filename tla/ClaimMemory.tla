----------------------------- MODULE ClaimMemory -----------------------------
(***************************************************************************)
(* domain/rag/store.py: the index of adjudicated claims that every         *)
(* analysis consults.  A search first rebuilds it from the reports table   *)
(* when it is too old, under a lock; searching takes no lock, reads the    *)
(* matrix of embeddings or the words of the list, and then the list, and  *)
(* pairs them by position.  An index is named by the state of the table    *)
(* it was read in.                                                         *)
(***************************************************************************)
EXTENDS Naturals, FiniteSets

CONSTANTS Analyses, MaxReports      \* bound: reports that are ever completed

ASSUME MemoryAssumption == IsFiniteSet(Analyses) /\ MaxReports \in Nat \ {0}

VARIABLES
  reports,    \* reports completed
  claims,     \* the entries: 0 for none
  matrix,     \* their embeddings: 0 for none, then words are compared
  young,      \* the index was built within refresh_seconds
  analysis    \* where each analysis is, and what it has read

memoryVars == <<reports, claims, matrix, young, analysis>>

Indexes == 0..MaxReports
NoAnalysis == [at |-> "out", loaded |-> 0, scored |-> 0, ranked |-> 0]
Rebuilding(a) == analysis[a].at \in {"inside", "loaded", "embedding", "embedded"}

\* The shapes, and: one analysis at a time rebuilds; the list is never older
\* than the matrix, and when nobody rebuilds they fit.
MemoryTypeOK ==
  /\ reports \in Indexes /\ claims \in 0..reports /\ matrix \in 0..claims /\ young \in BOOLEAN
  /\ analysis \in [Analyses -> [at : {"out", "waiting", "inside", "loaded", "embedding", "embedded",
                                      "search", "scored", "ranked"},
                                loaded : Indexes, scored : Indexes, ranked : Indexes]]
  /\ Cardinality({a \in Analyses : Rebuilding(a)}) <= 1
  /\ (\A a \in Analyses : ~Rebuilding(a)) => matrix \in {0, claims}

MemoryInit ==
  /\ reports = 0 /\ claims = 0 /\ matrix = 0 /\ young = FALSE
  /\ analysis = [a \in Analyses |-> NoAnalysis]

-----------------------------------------------------------------------------
Set(a, record) == analysis' = [analysis EXCEPT ![a] = record]
StepTo(a, from, to) == analysis[a].at = from /\ analysis' = [analysis EXCEPT ![a].at = to]

\* A report is completed, by any process.
ReportCompleted ==
  /\ reports < MaxReports
  /\ reports' = reports + 1 /\ UNCHANGED <<claims, matrix, young, analysis>>

IndexAges == young /\ young' = FALSE /\ UNCHANGED <<reports, claims, matrix, analysis>>

\* refresh: a young index is searched as it is.
Consult(a) ==
  /\ StepTo(a, "out", IF young THEN "search" ELSE "waiting")
  /\ UNCHANGED <<reports, claims, matrix, young>>

\* Mutant of LockIndex: the age is not looked at again.
LockIndexAnyway(a) ==
  /\ \A b \in Analyses : ~Rebuilding(b)
  /\ StepTo(a, "waiting", "inside")
  /\ UNCHANGED <<reports, claims, matrix, young>>

\* Under the lock the age is looked at again.
LockIndex(a) ==
  /\ \A b \in Analyses : ~Rebuilding(b)
  /\ StepTo(a, "waiting", IF young THEN "search" ELSE "inside")
  /\ UNCHANGED <<reports, claims, matrix, young>>

Load(a) ==
  /\ analysis[a].at = "inside"
  /\ Set(a, [analysis[a] EXCEPT !.at = "loaded", !.loaded = reports])
  /\ UNCHANGED <<reports, claims, matrix, young>>

\* The database does not answer: the previous index serves on.
LoadFails(a) ==
  /\ StepTo(a, "inside", "search")
  /\ young' = TRUE /\ UNCHANGED <<reports, claims, matrix>>

\* The list is replaced before its texts are embedded ...
Replaced(a) ==
  /\ StepTo(a, "loaded", "embedding")
  /\ claims' = analysis[a].loaded /\ UNCHANGED <<reports, matrix, young>>

\* ... which may take long; without an embedder, or on a failure, there is none.
Embedded(a) ==
  /\ StepTo(a, "embedding", "embedded")
  /\ matrix' \in {0, claims} /\ UNCHANGED <<reports, claims, young>>

Built(a) ==
  /\ StepTo(a, "embedded", "search")
  /\ young' = TRUE /\ UNCHANGED <<reports, claims, matrix>>

\* search: the scores come from the matrix, or, when there is none or the claim
\* cannot be embedded, from the words of the entries ...
Score(a) ==
  /\ analysis[a].at = "search"
  /\ \E scored \in {matrix, claims} \ {0} :
       Set(a, [analysis[a] EXCEPT !.at = "scored", !.scored = scored])
  /\ UNCHANGED <<reports, claims, matrix, young>>

\* ... and are then paired with the entries, which are read once more.
Rank(a) ==
  /\ analysis[a].at = "scored"
  /\ Set(a, [analysis[a] EXCEPT !.at = "ranked", !.ranked = claims])
  /\ UNCHANGED <<reports, claims, matrix, young>>

\* Without entries the search returns at once.
Found(a) ==
  /\ analysis[a].at = "ranked" \/ (analysis[a].at = "search" /\ claims = 0)
  /\ Set(a, NoAnalysis) /\ UNCHANGED <<reports, claims, matrix, young>>

MemoryStep(a) ==
  \/ Consult(a) \/ LockIndex(a) \/ Load(a) \/ LoadFails(a) \/ Replaced(a)
  \/ Embedded(a) \/ Built(a) \/ Score(a) \/ Rank(a) \/ Found(a)

MemoryNext ==
  \/ ReportCompleted \/ IndexAges
  \/ \E a \in Analyses : Consult(a)
  \/ \E a \in Analyses : LockIndex(a)
  \/ \E a \in Analyses : Load(a)
  \/ \E a \in Analyses : LoadFails(a)
  \/ \E a \in Analyses : Replaced(a)
  \/ \E a \in Analyses : Embedded(a)
  \/ \E a \in Analyses : Built(a)
  \/ \E a \in Analyses : Score(a)
  \/ \E a \in Analyses : Rank(a)
  \/ \E a \in Analyses : Found(a)

MemorySpec == MemoryInit /\ [][MemoryNext]_memoryVars

-----------------------------------------------------------------------------
(* Properties.                                                             *)

\* Analyses that find the index too old together rebuild it once.
OneRebuild == \A a \in Analyses : analysis[a].at \in {"inside", "loaded", "embedding"} => ~young

\* That, and the shapes of the variables.
MemoryInvariant == MemoryTypeOK /\ OneRebuild

\* store.py:7-8 and 41-42: a score of a near-duplicate is that of the same claim
\* in other words.  Scores are paired with the claims they were computed for.
ScoresAreTheirs ==
  \A a \in Analyses : analysis[a].at = "ranked" => analysis[a].scored = analysis[a].ranked
==============================================================================
