---------------------------- MODULE EvidenceSearch ----------------------------
(***************************************************************************)
(* EvidenceRetriever.retrieve: one claim is sent to every source at once,  *)
(* each in a thread of its own, and the coroutine gathers what arrives     *)
(* until it has enough or the time is up; then it may search the web once  *)
(* more and read pages in full.                                            *)
(*                                                                         *)
(* Time is counted in seconds.  A source may answer at any moment, fail or *)
(* never return; the event loop serves a timer or an answer when it is     *)
(* due, before more time passes.  What a source answers is how many items  *)
(* of it are relevant to the claim, and how many of those are strong.      *)
(***************************************************************************)
EXTENDS Naturals, FiniteSets

CONSTANTS Sources, Yield,       \* Yield[s]: what source s answers, if it does
          Deadline, RetryLimit  \* in seconds; a straggler's grace is one

ASSUME SearchAssumption ==
  /\ IsFiniteSet(Sources) /\ Yield \in [Sources -> [relevant : Nat, strong : Nat]]
  /\ Deadline \in Nat \ {0} /\ RetryLimit \in Nat \ {0}

VARIABLES
  clock,
  at,         \* where retrieve() is
  thread,     \* what became of each source's thread
  pending,    \* the tasks retrieve() waits for
  gathered,   \* the sources whose results it has
  relevant, strong,      \* counted in those
  graceEnds,  \* when the stragglers' grace ends, NoTime before it is given
  wakeAt,     \* when the wait under way times out
  enough      \* when usable evidence was first at hand, for the properties

searchVars == <<clock, at, thread, pending, gathered, relevant, strong, graceEnds, wakeAt, enough>>

StragglerGrace == 1
MinUsableEvidence == 5
EarlyExitStrong == 3
EarlyExitTotal == 8
NoTime == Deadline + RetryLimit + StragglerGrace + 1

\* The items of the sources in from that are relevant, or strong, and their number.
Items(from, kind) == UNION {{s} \X (1..Yield[s][kind]) : s \in from}
Number(from, kind) == Cardinality(Items(from, kind))

\* The shapes, and: what is counted is what was gathered, once.
SearchTypeOK ==
  /\ clock \in 0..NoTime /\ wakeAt \in 0..NoTime
  /\ graceEnds \in 0..NoTime /\ enough \in 0..NoTime
  /\ at \in {"idle", "loop", "asleep", "after", "retry", "scrape", "done"}
  /\ thread \in [Sources -> {"unasked", "running", "answered", "failed"}]
  /\ pending \subseteq Sources /\ gathered \subseteq Sources \ pending
  /\ relevant = Number(gathered, "relevant") /\ strong = Number(gathered, "strong")

SearchInit ==
  /\ clock = 0 /\ at = "idle"
  /\ thread = [s \in Sources |-> "unasked"] /\ pending = {} /\ gathered = {}
  /\ relevant = 0 /\ strong = 0
  /\ graceEnds = NoTime /\ wakeAt = NoTime /\ enough = NoTime

-----------------------------------------------------------------------------
(* The sources.                                                            *)

\* A source's function returns items, or [] on a failure, or raises; when
\* nobody waits for it any more its answer is dropped.
Answer(s) ==
  /\ thread[s] = "running" /\ at # "done"
  /\ \E end \in {"answered", "failed"} : thread' = [thread EXCEPT ![s] = end]
  /\ UNCHANGED <<clock, at, pending, gathered, relevant, strong, graceEnds, wakeAt, enough>>

\* Every source is asked at once, unless the claim was searched a short while
\* ago: then that result is returned.
FanOut ==
  /\ at = "idle"
  /\ \/ at' = "done" /\ UNCHANGED <<thread, pending>>
     \/ at' = "loop" /\ pending' = Sources /\ thread' = [s \in Sources |-> "running"]
  /\ UNCHANGED <<clock, gathered, relevant, strong, graceEnds, wakeAt, enough>>

Ended == {s \in pending : thread[s] # "running"}

\* Time passes while retrieve() waits and has nothing to handle.
Tick ==
  /\ \/ at = "asleep" /\ Ended = {}
     \/ at \in {"retry", "scrape"}
  /\ clock < wakeAt /\ clock < NoTime
  /\ clock' = clock + 1
  /\ UNCHANGED <<at, thread, pending, gathered, relevant, strong, graceEnds, wakeAt, enough>>

-----------------------------------------------------------------------------
(* The fan-out.                                                            *)

\* Mutant of Limit: the grace is not cut off at the deadline.
LimitOfGrace == IF graceEnds = NoTime THEN Deadline ELSE graceEnds

Limit == IF graceEnds < Deadline THEN graceEnds ELSE Deadline

\* while pending: wait for the first to end, up to the limit.
Sleep ==
  /\ at = "loop" /\ pending # {} /\ clock < Limit
  /\ at' = "asleep" /\ wakeAt' = Limit
  /\ UNCHANGED <<clock, thread, pending, gathered, relevant, strong, graceEnds, enough>>

\* Nothing pending, the limit passed, or the wait ended with nothing done: the
\* tasks still pending are cancelled, finished ones among them.
Stop ==
  /\ \/ at = "loop" /\ (pending = {} \/ clock >= Limit)
     \/ at = "asleep" /\ Ended = {} /\ clock >= wakeAt
  /\ at' = "after" /\ pending' = {}
  /\ UNCHANGED <<clock, thread, gathered, relevant, strong, graceEnds, wakeAt, enough>>

\* The first time there is usable evidence, the rest get a second more.
Grace(count) ==
  IF graceEnds = NoTime /\ count >= MinUsableEvidence THEN clock + StragglerGrace ELSE graceEnds

\* What ended is taken, failures skipped; with enough strong evidence the
\* search stops at once.
Collect ==
  LET came == {s \in Ended : thread[s] = "answered"}
      total == relevant + Number(came, "relevant")
      best == strong + Number(came, "strong")
      exit == best >= EarlyExitStrong /\ total >= EarlyExitTotal
  IN /\ at = "asleep" /\ Ended # {}
     /\ gathered' = gathered \cup came
     /\ relevant' = total /\ strong' = best
     /\ enough' = IF enough = NoTime /\ total >= MinUsableEvidence THEN clock ELSE enough
     /\ IF exit
        THEN at' = "after" /\ pending' = {} /\ UNCHANGED graceEnds
        ELSE at' = "loop" /\ pending' = pending \ Ended /\ graceEnds' = Grace(total)
     /\ UNCHANGED <<clock, thread, wakeAt>>

-----------------------------------------------------------------------------
(* After it.                                                               *)

\* With next to nothing on the claim, the web is searched once more; a host
\* that is short of memory does not.
RetryEmpty ==
  /\ at = "after" /\ relevant < 2
  /\ at' = "retry" /\ wakeAt' = clock + RetryLimit
  /\ UNCHANGED <<clock, thread, pending, gathered, relevant, strong, graceEnds, enough>>

\* With too little on the claim, the pages found are read if there are any and
\* more than a second is left; they are waited for until the deadline.
Scrape ==
  /\ at \in {"after", "retry"}
  /\ relevant < MinUsableEvidence /\ clock + 1 < Deadline
  /\ at' = "scrape" /\ wakeAt' = Deadline
  /\ UNCHANGED <<clock, thread, pending, gathered, relevant, strong, graceEnds, enough>>

\* The pages come, fail or time out: they add items and are not counted.  Then,
\* or when nothing of this applies, the items are ranked, cut and returned.
Return ==
  /\ at \in {"after", "retry", "scrape"}
  /\ at' = "done"
  /\ UNCHANGED <<clock, thread, pending, gathered, relevant, strong, graceEnds, wakeAt, enough>>

\* A retry or a page that never comes is waited for until its timeout.
Hang == at \in {"retry", "scrape"} /\ clock < wakeAt

-----------------------------------------------------------------------------
SearchStep == Sleep \/ Stop \/ Collect \/ RetryEmpty \/ Scrape \/ (~Hang /\ Return)

SearchNext ==
  \/ FanOut
  \/ \E s \in Sources : Answer(s)
  \/ Tick \/ Sleep \/ Stop \/ Collect
  \/ RetryEmpty \/ Scrape \/ Return

SearchSpec == SearchInit /\ [][SearchNext]_searchVars

-----------------------------------------------------------------------------
(* Properties.                                                             *)

\* Sources that are slow or never return do not delay the search, and neither
\* does the reading of pages: all is over by the deadline, or where the web was
\* searched once more by that search's own limit.
EndsOnTime == clock <= Deadline + (IF relevant < 2 THEN RetryLimit ELSE 0)

\* Once there is enough usable evidence the sources still out get one second
\* between them, however many of them answer within it.
OneGraceForAll ==
  at \in {"loop", "asleep"} /\ enough # NoTime => clock <= enough + StragglerGrace

\* The two of them, over the shapes of the variables.
SearchInvariant == SearchTypeOK /\ EndsOnTime /\ OneGraceForAll

\* Every search returns, whichever sources never do.
SearchEnds == (at = "loop") ~> (at = "done")
===============================================================================
