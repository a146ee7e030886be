---------------------------- MODULE FactCheckFeeds ----------------------------
(***************************************************************************)
(* EvidenceRetriever._rss_entries: the entries of the fact-checkers' feeds *)
(* are kept for all threads; the first that finds them too old downloads   *)
(* them again under a lock, the others wait for it.  The entries and their *)
(* time are written one after the other, and read without the lock.        *)
(***************************************************************************)
EXTENDS Naturals

CONSTANTS Readers, MaxFetches   \* bound: downloads

ASSUME FeedsAssumption == MaxFetches \in Nat

VARIABLES
  entries,    \* "none" before the first download, "empty", or "some"
  fresh,      \* their time is within _RSS_CACHE_TTL
  feedLock,   \* who holds _RSS_LOCK, if anyone
  reader,     \* where each thread is
  fetches     \* downloads begun

feedVars == <<entries, fresh, feedLock, reader, fetches>>

\* The shapes, and: whoever is past the lock holds it.
FeedsTypeOK ==
  /\ entries \in {"none", "empty", "some"} /\ fresh \in BOOLEAN
  /\ feedLock \subseteq Readers /\ fetches \in 0..MaxFetches
  /\ reader \in [Readers -> {"out", "waiting", "inside", "fetching", "writing", "stamping"}]
  /\ feedLock = {r \in Readers : reader[r] \notin {"out", "waiting"}}

FeedsInit ==
  /\ entries = "none" /\ fresh = FALSE /\ feedLock = {} /\ fetches = 0
  /\ reader = [r \in Readers |-> "out"]

Held == entries # "none" /\ fresh
Move(r, place) == reader' = [reader EXCEPT ![r] = place]

\* The entries are there and young enough: they are returned without the lock,
\* otherwise the lock is waited for.
Look(r) ==
  /\ reader[r] = "out" /\ ~Held
  /\ Move(r, "waiting")
  /\ UNCHANGED <<entries, fresh, feedLock, fetches>>

Lock(r) ==
  /\ reader[r] = "waiting" /\ feedLock = {}
  /\ feedLock' = {r} /\ Move(r, "inside")
  /\ UNCHANGED <<entries, fresh, fetches>>

Leave(r) == feedLock' = feedLock \ {r} /\ Move(r, "out")

\* Mutant of LookAgain: whoever waited downloads too.
LookAgainNever(r) ==
  /\ reader[r] = "inside" /\ fetches < MaxFetches
  /\ Move(r, "fetching") /\ fetches' = fetches + 1
  /\ UNCHANGED <<entries, fresh, feedLock>>

\* Somebody else may have refreshed them while this thread waited.
LookAgain(r) ==
  /\ reader[r] = "inside"
  /\ IF Held
     THEN Leave(r) /\ UNCHANGED <<entries, fresh, fetches>>
     ELSE /\ fetches < MaxFetches
          /\ Move(r, "fetching") /\ fetches' = fetches + 1
          /\ UNCHANGED <<entries, fresh, feedLock>>

\* Feeds that cannot be read or parsed are left out; if nothing came at all the
\* previous entries stay.
Write(r, came) ==
  /\ entries' = IF came = "some" \/ entries = "none" THEN came ELSE entries
  /\ Move(r, "stamping") /\ UNCHANGED <<fresh, feedLock, fetches>>

Fetch(r) == reader[r] = "fetching" /\ \E came \in {"empty", "some"} : Write(r, came)

\* The time is written either way, and the lock released.
Stamp(r) ==
  /\ reader[r] = "stamping"
  /\ fresh' = TRUE /\ Leave(r)
  /\ UNCHANGED <<entries, fetches>>

\* _RSS_CACHE_TTL passes.
Outdated ==
  /\ fresh /\ fetches < MaxFetches
  /\ fresh' = FALSE /\ UNCHANGED <<entries, feedLock, reader, fetches>>

FeedsNext ==
  \/ \E r \in Readers : Look(r)
  \/ \E r \in Readers : Lock(r)
  \/ \E r \in Readers : LookAgain(r)
  \/ \E r \in Readers : Fetch(r)
  \/ \E r \in Readers : Stamp(r)
  \/ Outdated

FeedsSpec == FeedsInit /\ [][FeedsNext]_feedVars

-----------------------------------------------------------------------------
(* Properties.                                                             *)

\* Threads that find the entries too old together download them once: whoever
\* downloads does so because they are, and nobody else is doing it.
OneDownload ==
  \A r \in Readers : reader[r] = "fetching" =>
    ~Held /\ \A q \in Readers \ {r} : reader[q] \notin {"fetching", "stamping"}

\* That, and the shapes of the variables.
FeedsInvariant == FeedsTypeOK /\ OneDownload
===============================================================================
