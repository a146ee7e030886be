------------------------------ MODULE ThreatFeed ------------------------------
(***************************************************************************)
(* infra/threat_feed.py: the known addresses of a feed file, reloaded by   *)
(* whichever lookup first finds the last check too old.  The file is       *)
(* replaced from outside at any time, also between the look at its         *)
(* modification time and the reading of it, and may be missing.            *)
(***************************************************************************)
EXTENDS Naturals, FiniteSets

CONSTANTS Lookups, MaxVersions      \* bound: replacements of the file

ASSUME FeedAssumption == IsFiniteSet(Lookups) /\ MaxVersions \in Nat \ {0}

VARIABLES
  file,       \* the version on disk, 0 while it is missing
  versions,   \* versions written so far
  loaded,     \* the version of the entries in memory, 0 for none
  mtime,      \* the modification time they are remembered with
  checked,    \* the last check is recent
  lookup      \* where each lookup is, and the time and version it has seen

threatVars == <<file, versions, loaded, mtime, checked, lookup>>

Versions == 0..MaxVersions
NoLookup == [at |-> "out", mtime |-> 0, version |-> 0]
Inside(l) == lookup[l].at \notin {"out", "waiting"}

\* The shapes, and: one lookup at a time reloads; entries in memory are never
\* remembered as newer than they are.
ThreatTypeOK ==
  /\ file \in {0, versions} /\ versions \in Versions
  /\ loaded \in Versions /\ mtime \in Versions /\ checked \in BOOLEAN
  /\ lookup \in [Lookups -> [at : {"out", "waiting", "inside", "seen", "read"},
                             mtime : Versions, version : Versions]]
  /\ Cardinality({l \in Lookups : Inside(l)}) <= 1
  /\ mtime <= loaded

ThreatInit ==
  /\ file = 0 /\ versions = 0 /\ loaded = 0 /\ mtime = 0 /\ checked = FALSE
  /\ lookup = [l \in Lookups |-> NoLookup]

-----------------------------------------------------------------------------
\* The operator's script: a new version, or the file is gone until the next.
Replace ==
  /\ versions < MaxVersions
  /\ versions' = versions + 1 /\ file' = versions + 1
  /\ UNCHANGED <<loaded, mtime, checked, lookup>>

Remove ==
  /\ file # 0 /\ versions < MaxVersions
  /\ file' = 0 /\ UNCHANGED <<versions, loaded, mtime, checked, lookup>>

\* RELOAD_SECONDS pass.
CheckAges == checked /\ checked' = FALSE /\ UNCHANGED <<file, versions, loaded, mtime, lookup>>

-----------------------------------------------------------------------------
Becomes(l, record) == lookup' = [lookup EXCEPT ![l] = record]
Place(l, at) == Becomes(l, [lookup[l] EXCEPT !.at = at])

\* A lookup finds the check too old and waits for the lock.
Refresh(l) ==
  /\ lookup[l].at = "out" /\ ~checked /\ Place(l, "waiting")
  /\ UNCHANGED <<file, versions, loaded, mtime, checked>>

\* Under the lock it asks again.
Enter(l) ==
  /\ lookup[l].at = "waiting" /\ \A k \in Lookups : ~Inside(k)
  /\ IF checked THEN Becomes(l, NoLookup) ELSE Place(l, "inside")
  /\ UNCHANGED <<file, versions, loaded, mtime, checked>>

\* A file that cannot be read, or is the one in memory, is left alone.
Stat(l) ==
  /\ lookup[l].at = "inside"
  /\ IF file \in {0, mtime}
     THEN Becomes(l, NoLookup) /\ checked' = TRUE
     ELSE Becomes(l, [at |-> "seen", mtime |-> file, version |-> 0]) /\ UNCHANGED checked
  /\ UNCHANGED <<file, versions, loaded, mtime>>

\* It is read, as it is by now; if it has gone meanwhile the lookup fails.
Read(l) ==
  /\ lookup[l].at = "seen"
  /\ IF file = 0 THEN Becomes(l, NoLookup)
     ELSE Becomes(l, [lookup[l] EXCEPT !.at = "read", !.version = file])
  /\ UNCHANGED <<file, versions, loaded, mtime, checked>>

\* Mutant of Publish: the modification time is read after the file.
PublishLateTime(l) ==
  /\ lookup[l].at = "read"
  /\ loaded' = lookup[l].version /\ mtime' = file /\ checked' = TRUE
  /\ Becomes(l, NoLookup)
  /\ UNCHANGED <<file, versions>>

\* The entries and the time seen before they were read.
Publish(l) ==
  /\ lookup[l].at = "read"
  /\ loaded' = lookup[l].version /\ mtime' = lookup[l].mtime /\ checked' = TRUE
  /\ Becomes(l, NoLookup)
  /\ UNCHANGED <<file, versions>>

ThreatStep(l) == Refresh(l) \/ Enter(l) \/ Stat(l) \/ Read(l) \/ Publish(l)

ThreatNext ==
  \/ Replace \/ Remove \/ CheckAges
  \/ \E l \in Lookups : Refresh(l)
  \/ \E l \in Lookups : Enter(l)
  \/ \E l \in Lookups : Stat(l)
  \/ \E l \in Lookups : Read(l)
  \/ \E l \in Lookups : Publish(l)

ThreatSpec == ThreatInit /\ [][ThreatNext]_threatVars

-----------------------------------------------------------------------------
(* Properties.                                                             *)

\* A version that stays on disk is in memory in the end, also when it replaced
\* another between the look at the file and the reading of it.
NewFileIsLoaded == <>[](file # 0) => <>[](loaded = versions)
===============================================================================
