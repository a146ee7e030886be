------------------------------ MODULE WebSearch ------------------------------
(***************************************************************************)
(* EvidenceRetriever._ddg_combined_search: threads that search the web ask *)
(* the engines best-first, one at a time, and stop at the first that has   *)
(* something.  One lock covers every use of the search library, because    *)
(* two uses at once never return; an engine that keeps failing is skipped  *)
(* for a while.  The two dictionaries of the breaker are shared and have   *)
(* no lock: each read and each write of one is a step of its own.  Counts  *)
(* of TripAfter and more do alike, and stand as TripAfter.                 *)
(***************************************************************************)
EXTENDS Naturals, FiniteSets

CONSTANTS Searchers,
          Engines,        \* how many there are, in the order they are asked
          TripAfter       \* _BREAKER_THRESHOLD

ASSUME WebAssumption == Engines \in Nat \ {0} /\ TripAfter \in Nat \ {0, 1}

VARIABLES
  misses,     \* _breaker_failures, of each engine; 0 without an entry
  openFor,    \* _breaker_open_until: "no"; "cooling", or "over" when that has passed
  using,      \* who holds _DDGS_LOCK
  searcher,   \* of each thread: where it is, the engine it asks, what it got, its count
  failed      \* failures reported of each engine, counted up to TripAfter; never stored

webVars == <<misses, openFor, using, searcher, failed>>

Idle == [at |-> "idle", engine |-> 1, got |-> "nothing", count |-> 0]
SearcherPlaces ==
  {"idle", "loop", "expired", "half", "inner", "innerExpired", "innerHalf", "waiting",
   "searching", "telling", "counted", "opening", "leaving", "clearing"}

\* In the library, or reporting that it raised: the lock is released last.
Holding(r) == \/ r.at = "searching"
              \/ r.at \in {"counted", "opening", "leaving"} /\ r.got = "failure"

\* The shapes, and: who is in the library holds the lock.
WebTypeOK ==
  /\ misses \in [1..Engines -> 0..TripAfter] /\ failed \in [1..Engines -> 0..TripAfter]
  /\ openFor \in [1..Engines -> {"no", "cooling", "over"}]
  /\ using \subseteq Searchers
  /\ searcher \in [Searchers -> [at : SearcherPlaces, engine : 1..(Engines + 1),
                                 got : {"nothing", "items", "failure"}, count : 0..TripAfter]]
  /\ using = {t \in Searchers : Holding(searcher[t])}
  /\ \A t \in Searchers : searcher[t].engine = Engines + 1 => searcher[t].at = "loop"

WebInit ==
  /\ misses = [e \in 1..Engines |-> 0] /\ openFor = [e \in 1..Engines |-> "no"]
  /\ using = {} /\ searcher = [t \in Searchers |-> Idle]
  /\ failed = [e \in 1..Engines |-> 0]

-----------------------------------------------------------------------------
Become(t, r) == searcher' = [searcher EXCEPT ![t] = r]
Goto(t, place) == Become(t, [searcher[t] EXCEPT !.at = place])
NextEngine(t) ==
  Become(t, [at |-> "loop", engine |-> searcher[t].engine + 1, got |-> "nothing", count |-> 0])

Ask(t) ==
  /\ searcher[t].at = "idle" /\ Goto(t, "loop")
  /\ UNCHANGED <<misses, openFor, using, failed>>

-----------------------------------------------------------------------------
(* _breaker_is_open, asked by the loop and again inside the engine's search. *)

\* Mutant of Check: the count is set although there is no entry.
CheckAnyway(t, place, expired, next) ==
  /\ searcher[t].at = place /\ searcher[t].engine <= Engines
  /\ IF openFor[searcher[t].engine] = "cooling" THEN NextEngine(t) ELSE Goto(t, expired)
  /\ UNCHANGED <<misses, openFor, using, failed>>

\* The entry is read, and compared with the time.
Check(t, place, expired, next) ==
  /\ searcher[t].at = place /\ searcher[t].engine <= Engines
  /\ CASE openFor[searcher[t].engine] = "cooling" -> NextEngine(t)
       [] openFor[searcher[t].engine] = "over" -> Goto(t, expired)
       [] OTHER -> Goto(t, next)
  /\ UNCHANGED <<misses, openFor, using, failed>>

CheckOuter(t) == Check(t, "loop", "expired", "inner")
CheckInner(t) == Check(t, "inner", "innerExpired", "waiting")

\* After the cool-off the entry is popped, which may by now be another one ...
PopExpired(t) ==
  /\ searcher[t].at \in {"expired", "innerExpired"}
  /\ openFor' = [openFor EXCEPT ![searcher[t].engine] = "no"]
  /\ Goto(t, IF searcher[t].at = "expired" THEN "half" ELSE "innerHalf")
  /\ UNCHANGED <<misses, using, failed>>

\* ... and one failure is made enough to open it again.
HalfOpen(t) ==
  /\ searcher[t].at \in {"half", "innerHalf"}
  /\ misses' = [misses EXCEPT ![searcher[t].engine] = TripAfter - 1]
  /\ Goto(t, IF searcher[t].at = "half" THEN "inner" ELSE "waiting")
  /\ UNCHANGED <<openFor, using, failed>>

-----------------------------------------------------------------------------
(* _search_one_backend.                                                    *)

OneMore(n) == IF n < TripAfter THEN n + 1 ELSE n

Acquire(t) ==
  /\ searcher[t].at = "waiting" /\ using = {}
  /\ using' = {t} /\ Goto(t, "searching")
  /\ UNCHANGED <<misses, openFor, failed>>

\* The lock is not had in time: this engine gives nothing, and is not blamed.
LockBusy(t) ==
  /\ searcher[t].at = "waiting" /\ using # {}
  /\ NextEngine(t)
  /\ UNCHANGED <<misses, openFor, using, failed>>

\* It answers, with items or without; the lock is released first.
SearchFinds(t) ==
  /\ searcher[t].at = "searching"
  /\ \E got \in {"nothing", "items"} :
       Become(t, [searcher[t] EXCEPT !.at = "telling", !.got = got])
  /\ using' = using \ {t}
  /\ UNCHANGED <<misses, openFor, failed>>

\* _breaker_record of a failure: the count is read ...
CountFailure(t, got) ==
  LET e == searcher[t].engine
  IN /\ Become(t, [searcher[t] EXCEPT !.at = "counted", !.got = got, !.count = OneMore(misses[e])])
     /\ failed' = [failed EXCEPT ![e] = OneMore(@)]
     /\ UNCHANGED <<misses, openFor, using>>

\* The engine raises: that is recorded before the lock is released.
SearchRaises(t) == searcher[t].at = "searching" /\ CountFailure(t, "failure")

\* An answer without items counts as a failure, too.
TellNothing(t) ==
  /\ searcher[t].at = "telling" /\ searcher[t].got = "nothing"
  /\ CountFailure(t, "nothing")

\* ... and written, one higher, ...
StoreCount(t) ==
  /\ searcher[t].at = "counted"
  /\ misses' = [misses EXCEPT ![searcher[t].engine] = searcher[t].count]
  /\ Goto(t, IF searcher[t].count >= TripAfter THEN "opening" ELSE "leaving")
  /\ UNCHANGED <<openFor, using, failed>>

\* ... and at the threshold the engine is skipped for a while.
Open(t) ==
  /\ searcher[t].at = "opening"
  /\ openFor' = [openFor EXCEPT ![searcher[t].engine] = "cooling"]
  /\ Goto(t, "leaving")
  /\ UNCHANGED <<misses, using, failed>>

\* The lock, if still held, is released, and the next engine is asked.
GoOn(t) ==
  /\ searcher[t].at = "leaving"
  /\ using' = using \ {t} /\ NextEngine(t)
  /\ UNCHANGED <<misses, openFor, failed>>

\* _breaker_record of a success: the count is popped, then the cool-off.
ClearCount(t) ==
  /\ searcher[t].at = "telling" /\ searcher[t].got = "items"
  /\ misses' = [misses EXCEPT ![searcher[t].engine] = 0]
  /\ Goto(t, "clearing")
  /\ UNCHANGED <<openFor, using, failed>>

ClearCooling(t) ==
  /\ searcher[t].at = "clearing"
  /\ openFor' = [openFor EXCEPT ![searcher[t].engine] = "no"]
  /\ Become(t, Idle)
  /\ UNCHANGED <<misses, using, failed>>

\* No engine had anything: a page is read instead, and the search returns.
Lite(t) ==
  /\ searcher[t].at = "loop" /\ searcher[t].engine = Engines + 1
  /\ Become(t, Idle)
  /\ UNCHANGED <<misses, openFor, using, failed>>

CoolOffPasses(e) ==
  /\ openFor[e] = "cooling" /\ openFor' = [openFor EXCEPT ![e] = "over"]
  /\ UNCHANGED <<misses, using, searcher, failed>>

OwnStep(t) ==
  \/ CheckOuter(t) \/ CheckInner(t) \/ PopExpired(t) \/ HalfOpen(t)
  \/ Acquire(t) \/ LockBusy(t)
  \/ TellNothing(t) \/ StoreCount(t) \/ Open(t) \/ GoOn(t)
  \/ ClearCount(t) \/ ClearCooling(t) \/ Lite(t)

WebNext ==
  \/ \E t \in Searchers : Ask(t)
  \/ \E t \in Searchers : CheckOuter(t)
  \/ \E t \in Searchers : CheckInner(t)
  \/ \E t \in Searchers : PopExpired(t)
  \/ \E t \in Searchers : HalfOpen(t)
  \/ \E t \in Searchers : Acquire(t)
  \/ \E t \in Searchers : LockBusy(t)
  \/ \E t \in Searchers : SearchRaises(t)
  \/ \E t \in Searchers : SearchFinds(t)
  \/ \E t \in Searchers : TellNothing(t)
  \/ \E t \in Searchers : StoreCount(t)
  \/ \E t \in Searchers : Open(t)
  \/ \E t \in Searchers : GoOn(t)
  \/ \E t \in Searchers : ClearCount(t)
  \/ \E t \in Searchers : ClearCooling(t)
  \/ \E t \in Searchers : Lite(t)
  \/ \E e \in 1..Engines : CoolOffPasses(e)

WebSpec == WebInit /\ [][WebNext]_webVars

-----------------------------------------------------------------------------
(* Properties.                                                             *)

\* The search library is never used by two threads at once, however long the
\* one that holds it takes: two of them would never return.
OneInLibrary == Cardinality(using) <= 1

\* Every search ends or is itself in the library: a thread that never comes
\* back from there holds up nobody else.
SearchesEnd ==
  \A t \in Searchers :
    [](searcher[t].at # "idle" => <>(searcher[t].at \in {"idle", "searching"}))

\* Reports that overlap may lose a failure, or open an engine that has just
\* answered, but they never make one up: an engine is not skipped before
\* TripAfter failures of it have been reported, and no report counts more
\* failures than there were.
SkippedForCause ==
  /\ \A e \in 1..Engines :
       misses[e] <= failed[e] /\ (openFor[e] # "no" => failed[e] = TripAfter)
  /\ \A t \in Searchers :
       searcher[t].at \in {"counted", "opening"} =>
         searcher[t].count <= failed[searcher[t].engine]

\* These two, over the shapes of the variables.
WebInvariant == WebTypeOK /\ OneInLibrary /\ SkippedForCause
==============================================================================
