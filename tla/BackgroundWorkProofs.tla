------------------------ MODULE BackgroundWorkProofs ------------------------
(***************************************************************************)
(* Theorems about the machines of MCBackgroundWork, one after the other:   *)
(* a provider behind its breaker, a queued job, the search for evidence,   *)
(* the threads that search the web, the threat feed, and the index of      *)
(* earlier claims.  They share no state, and no fact but the first lemma.  *)
(* In each part an invariant ...Inv holds at the start (...Starts), is     *)
(* kept by every step (...Steps), and implies what the run checks.         *)
(***************************************************************************)
EXTENDS CircuitBreaker, AnalysisJobs, EvidenceSearch, WebSearch, ThreatFeed, ClaimMemory,
        FiniteSetTheorems, FunctionTheorems, TLAPS

\* A set whose elements are all the same has one at most.
LEMMA OneAtMost ==
  ASSUME NEW S, \A a, b \in S : a = b
  PROVE  Cardinality(S) <= 1
<1>1. CASE S = {}  BY <1>1, FS_EmptySet
<1>2. CASE S # {}
  <2>1. PICK a : S = {a}  BY <1>2
  <2>2. QED  BY <2>1, FS_Singleton
<1>3. QED  BY <1>1, <1>2

-----------------------------------------------------------------------------
(* A provider behind its breaker.                                          *)

\* What makes BreakerInvariant inductive: only the window now open burns a
\* thread, and a thread that waits for its retry has an attempt left.
Paid ==
  /\ opened # "recent" => burned = {}
  /\ \A t \in Threads : threads[t].pc = "sleeping" => threads[t].attempt < Attempts - 1

BreakerInv == BreakerInvariant /\ Paid

Thread == [pc : ThreadPlaces, attempt : 0..Attempts - 1]

LEMMA BreakerStarts == BreakerInit => BreakerInv
<1> SUFFICES ASSUME BreakerInit PROVE BreakerInv  OBVIOUS
<1>1. Waiting \in Thread  BY BreakerAssumption DEF Waiting, Thread, ThreadPlaces
<1>2. BreakerTypeOK  BY <1>1, BreakerAssumption DEF BreakerInit, BreakerTypeOK, Thread
<1>3. QED
  BY <1>2, BreakerAssumption
  DEF BreakerInit, BreakerInv, BreakerInvariant, Paid, CountMatchesState, OneTimeoutPerWindow,
      breakerState, Waiting

\* A step of one thread t that puts it where it may be, and leaves the counters.
LEMMA ThreadMoved ==
  ASSUME BreakerInv, NEW t \in Threads, NEW r \in Thread,
         threads' = [threads EXCEPT ![t] = r],
         UNCHANGED <<failures, opened, burned, provider>>,
         r.pc = "sleeping" => r.attempt < Attempts - 1,
         opened = "recent" /\ t \in burned => r.pc \in {"idle", "failed"}
  PROVE  BreakerInv'
<1>1. BreakerTypeOK'  BY DEF BreakerInv, BreakerInvariant, BreakerTypeOK, Thread
<1>2. \A u \in Threads : threads'[u] = IF u = t THEN r ELSE threads[u]
  BY DEF BreakerInv, BreakerInvariant, BreakerTypeOK
<1>3. CountMatchesState'  BY DEF BreakerInv, BreakerInvariant, CountMatchesState
<1>4. OneTimeoutPerWindow'
  BY <1>2 DEF BreakerInv, BreakerInvariant, BreakerTypeOK, OneTimeoutPerWindow, breakerState
<1>5. Paid'  BY <1>2 DEF BreakerInv, Paid
<1>6. QED  BY <1>1, <1>3, <1>4, <1>5 DEF BreakerInv, BreakerInvariant

LEMMA BreakerSteps == BreakerInv /\ [BreakerNext]_breakerVars => BreakerInv'
<1> SUFFICES ASSUME BreakerInv, [BreakerNext]_breakerVars PROVE BreakerInv'  OBVIOUS
<1> USE BreakerAssumption
<1>0. /\ BreakerTypeOK /\ CountMatchesState /\ OneTimeoutPerWindow /\ Paid
      /\ \A t \in Threads : threads[t] \in Thread
  BY DEF BreakerInv, BreakerInvariant, BreakerTypeOK, Thread
<1>1. ASSUME NEW t \in Threads, BeforeCall(t) PROVE BreakerInv'
  <2>1. threads' = [threads EXCEPT ![t] = [threads[t] EXCEPT !.pc = "calling"]]
    BY <1>0, <1>1 DEF BeforeCall, Move, BreakerTypeOK
  <2>2. [threads[t] EXCEPT !.pc = "calling"] \in Thread  BY <1>0 DEF Thread, ThreadPlaces
  <2>3. opened # "recent"  BY <1>1, <1>0 DEF BeforeCall, breakerState, BreakerTypeOK
  <2>4. QED  BY <1>1, <1>0, <2>1, <2>2, <2>3, ThreadMoved DEF BeforeCall, Thread
<1>2. ASSUME NEW t \in Threads, RecordSuccess(t) PROVE BreakerInv'
  <2>1. Waiting \in Thread  BY DEF Waiting, Thread, ThreadPlaces
  <2>2. BreakerTypeOK'  BY <1>0, <1>2, <2>1 DEF RecordSuccess, Leave, BreakerTypeOK, Thread
  <2>3. Paid'
    BY <1>0, <1>2 DEF RecordSuccess, Leave, Paid, BreakerTypeOK, Waiting
  <2>4. CountMatchesState' /\ OneTimeoutPerWindow'
    BY <1>2 DEF RecordSuccess, CountMatchesState, OneTimeoutPerWindow, breakerState
  <2>5. QED  BY <2>2, <2>3, <2>4 DEF BreakerInv, BreakerInvariant
<1>3. ASSUME NEW t \in Threads, Rejected(t) PROVE BreakerInv'
  <2>1. Waiting \in Thread /\ Waiting.pc = "idle"  BY DEF Waiting, Thread, ThreadPlaces
  <2>2. QED  BY <1>3, <2>1, ThreadMoved DEF Rejected, Leave
<1>4. ASSUME NEW t \in Threads, RecordFailure(t) PROVE BreakerInv'
  <2> DEFINE count == IF failures < Threshold THEN failures + 1 ELSE Threshold
  <2>1. /\ failures' = count
        /\ opened' = IF count = Threshold THEN "recent" ELSE opened
        /\ burned' = IF count = Threshold THEN burned \cup {t} ELSE burned
        /\ threads' = [threads EXCEPT ![t].pc = "failed"] /\ provider' = provider
    BY <1>4 DEF RecordFailure, Move
  <2>2. BreakerTypeOK'  BY <1>0, <2>1 DEF BreakerTypeOK, Thread, ThreadPlaces
  <2>3. CountMatchesState'  BY <1>0, <2>1 DEF BreakerTypeOK, CountMatchesState
  <2>4. /\ threads'[t].pc = "failed"
        /\ \A u \in Threads \ {t} : threads'[u] = threads[u]
    BY <1>0, <2>1 DEF BreakerTypeOK
  <2>5. OneTimeoutPerWindow'
    BY <1>0, <2>1, <2>4 DEF OneTimeoutPerWindow, breakerState, BreakerTypeOK, Paid
  <2>6. Paid'  BY <1>0, <2>1, <2>4 DEF Paid, BreakerTypeOK
  <2>7. QED  BY <2>2, <2>3, <2>5, <2>6 DEF BreakerInv, BreakerInvariant
<1>5. ASSUME NEW t \in Threads, AfterFailure(t) PROVE BreakerInv'
  <2>1. Waiting \in Thread /\ Waiting.pc = "idle"  BY DEF Waiting, Thread, ThreadPlaces
  <2>2. CASE threads[t].attempt = Attempts - 1 \/ breakerState = "open"
    BY <1>5, <2>1, <2>2, ThreadMoved DEF AfterFailure, Leave
  <2>3. CASE ~(threads[t].attempt = Attempts - 1 \/ breakerState = "open")
    <3>1. threads' = [threads EXCEPT ![t] = [threads[t] EXCEPT !.pc = "sleeping"]]
      BY <1>0, <1>5, <2>3 DEF AfterFailure, Move, BreakerTypeOK
    <3>2. [threads[t] EXCEPT !.pc = "sleeping"] \in Thread /\ threads[t].attempt < Attempts - 1
      BY <1>0, <2>3 DEF Thread, ThreadPlaces
    <3>3. opened # "recent"  BY <2>3 DEF breakerState
    <3>4. QED  BY <1>0, <1>5, <3>1, <3>2, <3>3, ThreadMoved DEF AfterFailure, Thread
  <2>4. QED  BY <2>2, <2>3
<1>6. ASSUME NEW t \in Threads, Retry(t) PROVE BreakerInv'
  <2> DEFINE r == [pc |-> "calling", attempt |-> threads[t].attempt + 1]
  <2>1. threads' = [threads EXCEPT ![t] = r]  BY <1>6 DEF Retry
  <2>2. threads[t].attempt < Attempts - 1 /\ threads[t].attempt \in 0..Attempts - 1
    BY <1>0, <1>6 DEF Retry, Paid, Thread
  <2>3. r \in Thread  BY <2>2 DEF Thread, ThreadPlaces
  <2>4. ~(opened = "recent" /\ t \in burned)
    BY <1>0, <1>6 DEF Retry, OneTimeoutPerWindow, breakerState
  <2>5. QED  BY <1>6, <2>1, <2>3, <2>4, ThreadMoved DEF Retry
<1>7. CASE Cool
  BY <1>0, <1>7 DEF Cool, BreakerInv, BreakerInvariant, BreakerTypeOK, CountMatchesState,
     OneTimeoutPerWindow, Paid, breakerState
<1>8. CASE ProviderChanges
  BY <1>0, <1>8 DEF ProviderChanges, BreakerInv, BreakerInvariant, BreakerTypeOK, CountMatchesState,
     OneTimeoutPerWindow, Paid, breakerState
<1>9. CASE UNCHANGED breakerVars
  BY <1>0, <1>9 DEF breakerVars, BreakerInv, BreakerInvariant, BreakerTypeOK, CountMatchesState,
     OneTimeoutPerWindow, Paid, breakerState
<1>10. QED  BY <1>1, <1>2, <1>3, <1>4, <1>5, <1>6, <1>7, <1>8, <1>9 DEF BreakerNext

\* Whatever the order in which overlapping calls tell the breaker how they ended,
\* its count and its state agree, and a thread that has paid for a dead provider
\* once does not pay again before the window is over.
THEOREM BreakerSafe == BreakerSpec => []BreakerInvariant
<1>1. BreakerInv => BreakerInvariant  BY DEF BreakerInv
<1>2. QED  BY <1>1, BreakerStarts, BreakerSteps, PTL DEF BreakerSpec

-----------------------------------------------------------------------------
(* The queued analysis.                                                    *)

\* What makes JobsInvariant inductive: the message is there from the moment the
\* caller has an id, a run has taken it, and a run that is over has settled the
\* row, where neither the database nor the limit gets in its way.
Delivered ==
  /\ asking \in {"sent", "probed", "inserted", "refused", "error"} => message = "none"
  /\ asking = "answered" => message # "none"
  /\ task.pc # "none" => message = "taken" /\ task.run > 0
  /\ jobFaults \cap {"database", "limit"} = {} =>
       /\ task.pc = "raising" => report.status = "failed"
       /\ task.pc = "done" => report.status = "complete"
       /\ message = "gone" => report.status \in {"complete", "failed"}

JobsInv == JobsInvariant /\ Delivered

LEMMA JobsStarts == JobsInit => JobsInv
<1> SUFFICES ASSUME NEW f \in SUBSET Faults, JobsStart(f) PROVE JobsInv  BY DEF JobsInit
<1>1. JobsTypeOK  BY JobsAssumption DEF JobsStart, JobsTypeOK, NoTask
<1>2. EvidenceOfItsRun /\ AcceptedNotLost /\ Delivered
  BY DEF JobsStart, EvidenceOfItsRun, AcceptedNotLost, Delivered, NoTask
<1>3. QED  BY <1>1, <1>2 DEF JobsInv, JobsInvariant

\* A step that leaves the row to the run it belongs to.
LEMMA RowKept ==
  ASSUME EvidenceOfItsRun, UNCHANGED <<report, evidence>>
  PROVE  EvidenceOfItsRun'
BY DEF EvidenceOfItsRun

LEMMA JobsSteps == JobsInv /\ [JobsNext]_jobVars => JobsInv'
<1> SUFFICES ASSUME JobsInv, [JobsNext]_jobVars PROVE JobsInv'  OBVIOUS
<1> USE JobsAssumption
<1>0. JobsTypeOK /\ EvidenceOfItsRun /\ AcceptedNotLost /\ Delivered
  BY DEF JobsInv, JobsInvariant
<1>a. SUFFICES JobsTypeOK' /\ EvidenceOfItsRun' /\ AcceptedNotLost' /\ Delivered'
  BY DEF JobsInv, JobsInvariant
<1> USE DEF TaskTo, Fails
<1>1. CASE AskBroker
  BY <1>0, <1>1, RowKept DEF AskBroker, JobsTypeOK, AcceptedNotLost, Delivered
<1>2. CASE InsertReport
  BY <1>0, <1>2 DEF InsertReport, JobsTypeOK, EvidenceOfItsRun, AcceptedNotLost, Delivered
<1>3. CASE Delay
  BY <1>0, <1>3, RowKept DEF Delay, JobsTypeOK, AcceptedNotLost, Delivered
<1>4. CASE TakeMessage
  <2>1. task' = [pc |-> "analysing", run |-> task.run + 1, retries |-> task.retries]
    BY <1>0, <1>4 DEF TakeMessage, JobsTypeOK
  <2>2. task.run + 1 \in 1..MaxRuns  BY <1>0, <1>4 DEF TakeMessage, JobsTypeOK
  <2>3. QED
    BY <1>0, <1>4, <2>1, <2>2, RowKept DEF TakeMessage, JobsTypeOK, AcceptedNotLost, Delivered
<1>5. CASE Analysed
  BY <1>0, <1>5, RowKept DEF Analysed, JobsTypeOK, AcceptedNotLost, Delivered
<1>6. CASE Interrupted
  BY <1>0, <1>6, RowKept DEF Interrupted, JobsTypeOK, AcceptedNotLost, Delivered
<1>7. CASE Persist
  BY <1>0, <1>7 DEF Persist, JobsTypeOK, EvidenceOfItsRun, AcceptedNotLost, Delivered
<1>8. CASE MarkFailed
  BY <1>0, <1>8 DEF MarkFailed, JobsTypeOK, EvidenceOfItsRun, AcceptedNotLost, Delivered
<1>9. CASE RaiseForRetry
  <2>1. CASE message' = "gone" /\ TaskTo("none")
    BY <1>0, <1>9, <2>1, RowKept DEF RaiseForRetry, JobsTypeOK, AcceptedNotLost, Delivered
  <2>2. CASE message' = "queued"
    <3>1. task.retries + 1 \in 0..MaxRetries
      BY <1>0, <1>9, <2>2 DEF RaiseForRetry, JobsTypeOK
    <3>2. task' = [pc |-> "none", run |-> task.run, retries |-> task.retries + 1]
      BY <1>0, <1>9, <2>2 DEF RaiseForRetry, JobsTypeOK
    <3>3. QED
      BY <1>0, <1>9, <2>2, <3>1, <3>2, RowKept
      DEF RaiseForRetry, JobsTypeOK, AcceptedNotLost, Delivered
  <2>3. QED  BY <1>9, <2>1, <2>2 DEF RaiseForRetry
<1>10. CASE Acknowledge
  BY <1>0, <1>10, RowKept DEF Acknowledge, JobsTypeOK, AcceptedNotLost, Delivered
<1>11. CASE LoseWorker
  BY <1>0, <1>11, RowKept DEF LoseWorker, JobsTypeOK, AcceptedNotLost, Delivered
<1>12. CASE HardLimit
  BY <1>0, <1>12, RowKept DEF HardLimit, JobsTypeOK, AcceptedNotLost, Delivered
<1>13. CASE UNCHANGED jobVars
  BY <1>0, <1>13, RowKept DEF jobVars, JobsTypeOK, AcceptedNotLost, Delivered
<1>14. QED
  BY <1>1, <1>2, <1>3, <1>4, <1>5, <1>6, <1>7, <1>8, <1>9, <1>10, <1>11, <1>12, <1>13
  DEF JobsNext

\* However often workers are lost and the task is retried, for any number of runs
\* and retries: a complete report has the evidence of the run it shows, and an id
\* the caller was given is not lost while the database and the limit hold.
THEOREM JobsSafe == JobsSpec => []JobsInvariant
<1>1. JobsInv => JobsInvariant  BY DEF JobsInv
<1>2. QED  BY <1>1, JobsStarts, JobsSteps, PTL DEF JobsSpec

-----------------------------------------------------------------------------
(* The search for evidence.                                                *)

Counted == {"relevant", "strong"}

LEMMA ItemsFinite ==
  ASSUME NEW from \in SUBSET Sources, NEW kind \in Counted
  PROVE  IsFiniteSet(Items(from, kind))
<1> DEFINE each == [s \in from |-> {s} \X (1..Yield[s][kind])]
           all == {{s} \X (1..Yield[s][kind]) : s \in from}
<1>1. IsFiniteSet(from)  BY FS_Subset, SearchAssumption
<1>2. each \in Surjection(from, all)
  <2>1. each \in [from -> all]  OBVIOUS
  <2>2. \A t \in all : \E s \in from : each[s] = t  OBVIOUS
  <2>3. QED  BY <2>1, <2>2, Fun_IsSurj
<1> HIDE DEF each
<1>3. IsFiniteSet(all)  BY <1>1, <1>2, FS_Surjection
<1>4. ASSUME NEW s \in from PROVE IsFiniteSet({s} \X (1..Yield[s][kind]))
  <2>1. Yield[s][kind] \in Nat  BY SearchAssumption DEF Counted
  <2> DEFINE one == {s}
             numbers == 1..Yield[s][kind]
  <2>2. IsFiniteSet(numbers)  BY <2>1, FS_Interval
  <2>3. IsFiniteSet(one)  BY FS_Singleton
  <2> HIDE DEF one, numbers
  <2>4. IsFiniteSet(one \X numbers)  BY <2>2, <2>3, FS_Product
  <2>5. QED  BY <2>4 DEF one, numbers
<1>5. QED  BY <1>3, <1>4, FS_UNION DEF Items

\* What arrives is added to what was counted.
LEMMA NumberOfBoth ==
  ASSUME NEW from \in SUBSET Sources, NEW more \in SUBSET Sources, from \cap more = {},
         NEW kind \in Counted
  PROVE  /\ Number(from \cup more, kind) = Number(from, kind) + Number(more, kind)
         /\ Number(from, kind) \in Nat
<1> DEFINE f == Items(from, kind)
           m == Items(more, kind)
<1>1. IsFiniteSet(f) /\ IsFiniteSet(m)  BY ItemsFinite
<1>2. Items(from \cup more, kind) = f \cup m  BY DEF Items
<1>3. f \cap m = {}
  <2>1. \A x \in f : x[1] \in from  BY DEF Items
  <2>2. \A x \in m : x[1] \in more  BY DEF Items
  <2>3. QED  BY <2>1, <2>2
<1>4. Cardinality(f \cup m) = Cardinality(f) + Cardinality(m) - Cardinality({})
  BY <1>1, <1>3, FS_Union
<1>5. Cardinality(f) \in Nat /\ Cardinality(m) \in Nat /\ Cardinality({}) = 0
  BY <1>1, FS_CardinalityType, FS_EmptySet
<1>6. /\ Number(from \cup more, kind) = Cardinality(f \cup m)
      /\ Number(from, kind) = Cardinality(f) /\ Number(more, kind) = Cardinality(m)
  BY <1>2 DEF Number
<1> HIDE DEF f, m
<1>7. QED  BY <1>4, <1>5, <1>6

\* What makes SearchInvariant inductive: how late each place of retrieve() may be,
\* what its wait is for, and that the grace is counted from the first usable evidence.
Timely ==
  /\ at = "idle" => gathered = {} /\ clock = 0 /\ graceEnds = NoTime /\ enough = NoTime
  /\ at = "after" => clock <= Deadline
  /\ at \in {"loop", "asleep"} =>
       /\ clock <= Limit
       /\ graceEnds = IF enough = NoTime THEN NoTime ELSE enough + StragglerGrace
       /\ enough <= Deadline \/ enough = NoTime
  /\ at = "asleep" => wakeAt = Limit
  /\ at = "retry" => relevant < 2 /\ clock <= wakeAt /\ wakeAt <= Deadline + RetryLimit
  /\ at = "scrape" => clock <= wakeAt /\ wakeAt = Deadline

SearchInv == SearchTypeOK /\ EndsOnTime /\ Timely

LEMMA SearchImplied == SearchInv => SearchInvariant
BY SearchAssumption
DEF SearchInv, SearchInvariant, SearchTypeOK, OneGraceForAll, Timely, Limit, StragglerGrace, NoTime

LEMMA SearchStarts == SearchInit => SearchInv
<1> SUFFICES ASSUME SearchInit PROVE SearchInv  OBVIOUS
<1>1. Number({}, "relevant") = 0 /\ Number({}, "strong") = 0
  BY FS_EmptySet DEF Number, Items
<1>2. SearchTypeOK
  BY <1>1, SearchAssumption DEF SearchInit, SearchTypeOK, NoTime, StragglerGrace
<1>3. EndsOnTime /\ Timely
  BY SearchAssumption DEF SearchInit, EndsOnTime, Timely, NoTime, StragglerGrace
<1>4. QED  BY <1>2, <1>3 DEF SearchInv

LEMMA SearchSteps == SearchInv /\ [SearchNext]_searchVars => SearchInv'
<1> SUFFICES ASSUME SearchInv, [SearchNext]_searchVars PROVE SearchInv'  OBVIOUS
<1> USE SearchAssumption DEF NoTime, StragglerGrace
<1>0. /\ SearchTypeOK /\ EndsOnTime /\ Timely
      /\ Deadline \in Nat \ {0} /\ RetryLimit \in Nat \ {0}
      /\ clock \in Nat /\ wakeAt \in Nat /\ graceEnds \in Nat /\ enough \in Nat
      /\ relevant \in Nat /\ strong \in Nat
  <2>1. gathered \in SUBSET Sources /\ {} \in SUBSET Sources /\ gathered \cap {} = {}
    BY DEF SearchInv, SearchTypeOK
  <2>2. relevant \in Nat /\ strong \in Nat
    BY <2>1, NumberOfBoth DEF SearchInv, SearchTypeOK, Counted
  <2>3. QED  BY <2>2 DEF SearchInv, SearchTypeOK
<1>a. SUFFICES SearchTypeOK' /\ EndsOnTime' /\ Timely'  BY DEF SearchInv
<1>1. CASE FanOut
  BY <1>0, <1>1 DEF FanOut, SearchTypeOK, EndsOnTime, Timely, Limit
<1>2. ASSUME NEW s \in Sources, Answer(s) PROVE SearchTypeOK' /\ EndsOnTime' /\ Timely'
  BY <1>0, <1>2 DEF Answer, SearchTypeOK, EndsOnTime, Timely, Limit
<1>3. CASE Tick
  BY <1>0, <1>3 DEF Tick, SearchTypeOK, EndsOnTime, Timely, Limit
<1>4. CASE Sleep
  BY <1>0, <1>4 DEF Sleep, SearchTypeOK, EndsOnTime, Timely, Limit
<1>5. CASE Stop
  BY <1>0, <1>5 DEF Stop, SearchTypeOK, EndsOnTime, Timely, Limit
<1>6. CASE Collect
  <2> DEFINE came == {s \in Ended : thread[s] = "answered"}
  <2>1. /\ came \in SUBSET Sources /\ gathered \in SUBSET Sources /\ gathered \cap came = {}
        /\ came \subseteq Ended /\ Ended \subseteq pending
    BY <1>0 DEF SearchTypeOK, Ended
  <2>2. /\ relevant' = relevant + Number(came, "relevant")
        /\ strong' = strong + Number(came, "strong")
        /\ gathered' = gathered \cup came
        /\ enough' = IF enough = NoTime /\ relevant' >= MinUsableEvidence THEN clock ELSE enough
        /\ \/ at' = "after" /\ pending' = {} /\ UNCHANGED graceEnds
           \/ at' = "loop" /\ pending' = pending \ Ended /\ graceEnds' = Grace(relevant')
        /\ at = "asleep" /\ UNCHANGED <<clock, thread, wakeAt>>
    BY <1>6 DEF Collect
  <2>3. /\ relevant' = Number(gathered', "relevant") /\ strong' = Number(gathered', "strong")
        /\ relevant' \in Nat /\ Number(came, "relevant") \in Nat
    <3>1. relevant = Number(gathered, "relevant") /\ strong = Number(gathered, "strong")
      BY <1>0 DEF SearchTypeOK
    <3> HIDE DEF came
    <3>2. \A kind \in Counted :
            Number(gathered \cup came, kind) = Number(gathered, kind) + Number(came, kind)
      BY <2>1, NumberOfBoth
    <3>3. came \cap {} = {} /\ {} \in SUBSET Sources  OBVIOUS
    <3>4. \A kind \in Counted : Number(came, kind) \in Nat  BY <2>1, <3>3, NumberOfBoth
    <3>5. QED  BY <1>0, <2>2, <3>1, <3>2, <3>4 DEF Counted
  <2> HIDE DEF came
  <2>4. clock <= Limit /\ Limit <= Deadline  BY <1>0, <2>2 DEF Timely, Limit
  <2>5. SearchTypeOK'
    <3>1. gathered' \subseteq Sources \ pending'  BY <1>0, <2>1, <2>2 DEF SearchTypeOK
    <3>2. graceEnds' \in 0..NoTime /\ enough' \in 0..NoTime
      <4>1. clock <= Deadline /\ clock \in Nat  BY <1>0, <2>4 DEF Limit
      <4>2. graceEnds \in 0..NoTime /\ enough \in 0..NoTime  BY <1>0 DEF SearchTypeOK
      <4>3. QED  BY <2>2, <4>1, <4>2 DEF Grace
    <3>3. QED  BY <1>0, <2>1, <2>2, <2>3, <3>1, <3>2 DEF SearchTypeOK
  <2>6. EndsOnTime'
    <3>1. clock' <= Deadline /\ clock' \in Nat  BY <1>0, <2>2, <2>4 DEF Limit
    <3>2. QED  BY <3>1 DEF EndsOnTime
  <2>7. Timely'
    <3>1. CASE at' = "after"  BY <1>0, <2>2, <2>4, <3>1 DEF Timely
    <3>2. CASE at' = "loop"
      BY <1>0, <2>2, <2>3, <2>4, <3>2 DEF Timely, Grace, Limit, MinUsableEvidence
    <3>3. QED  BY <2>2, <3>1, <3>2
  <2>8. QED  BY <2>5, <2>6, <2>7
<1>7. CASE RetryEmpty
  BY <1>0, <1>7 DEF RetryEmpty, SearchTypeOK, EndsOnTime, Timely, Limit
<1>8. CASE Scrape
  BY <1>0, <1>8 DEF Scrape, SearchTypeOK, EndsOnTime, Timely, Limit
<1>9. CASE Return
  BY <1>0, <1>9 DEF Return, SearchTypeOK, EndsOnTime, Timely, Limit
<1>10. CASE UNCHANGED searchVars
  BY <1>0, <1>10 DEF searchVars, SearchTypeOK, EndsOnTime, Timely, Limit
<1>11. QED
  BY <1>1, <1>2, <1>3, <1>4, <1>5, <1>6, <1>7, <1>8, <1>9, <1>10 DEF SearchNext

\* Whatever the sources answer, and whenever, for any deadline and limit: the
\* search is over by the deadline or by the limit of its second search, the
\* sources still out get one grace between them, and every relevant item gathered
\* is counted once.
THEOREM SearchSafe == SearchSpec => []SearchInvariant
<1>1. QED  BY SearchStarts, SearchSteps, SearchImplied, PTL DEF SearchSpec

-----------------------------------------------------------------------------
(* The search library.                                                     *)

Searching == [at : SearcherPlaces, engine : 1..(Engines + 1),
              got : {"nothing", "items", "failure"}, count : 0..TripAfter]

\* The shapes, and the lock as a relation among threads.
WebShapes ==
  /\ misses \in [1..Engines -> 0..TripAfter] /\ failed \in [1..Engines -> 0..TripAfter]
  /\ openFor \in [1..Engines -> {"no", "cooling", "over"}]
  /\ searcher \in [Searchers -> Searching]
  /\ \A t \in Searchers : searcher[t].engine = Engines + 1 => searcher[t].at = "loop"
  /\ using = {t \in Searchers : Holding(searcher[t])}
  /\ \A t, u \in using : t = u

\* The dictionaries never run ahead of what was reported ...
Dictionaries ==
  \A e \in 1..Engines : misses[e] <= failed[e] /\ (openFor[e] # "no" => failed[e] = TripAfter)

\* ... nor does what a thread has read of them and not acted upon yet.
ReadFits(r) ==
  /\ r.at \in {"expired", "half", "innerExpired", "innerHalf", "opening"} =>
       failed[r.engine] = TripAfter
  /\ r.at = "counted" => r.count <= failed[r.engine]

WebInv == WebShapes /\ Dictionaries /\ \A t \in Searchers : ReadFits(searcher[t])

LEMMA IdleSearcher == Idle \in Searching /\ Idle.at = "idle" /\ Idle.engine # Engines + 1
BY WebAssumption DEF Idle, Searching, SearcherPlaces

LEMMA WebStarts == WebInit => WebInv
<1> SUFFICES ASSUME WebInit PROVE WebInv  OBVIOUS
<1>1. \A t \in Searchers : searcher[t] = Idle  BY DEF WebInit
<1>2. 0 \in 0..TripAfter /\ ~Holding(Idle)  BY WebAssumption, IdleSearcher DEF Holding
<1>3. WebShapes  BY <1>1, <1>2, IdleSearcher DEF WebInit, WebShapes
<1>4. Dictionaries  BY DEF WebInit, Dictionaries
<1>5. QED  BY <1>1, <1>3, <1>4, IdleSearcher DEF WebInv, ReadFits

\* A thread goes on: the others see what they saw, because failures that were
\* reported stay so.
LEMMA SearcherMoved ==
  ASSUME WebInv, NEW t \in Searchers, NEW r \in Searching,
         searcher' = [searcher EXCEPT ![t] = r],
         misses' \in [1..Engines -> 0..TripAfter], failed' \in [1..Engines -> 0..TripAfter],
         openFor' \in [1..Engines -> {"no", "cooling", "over"}],
         \A e \in 1..Engines : failed[e] <= failed'[e],
         Dictionaries', ReadFits(r)',
         r.engine = Engines + 1 => r.at = "loop",
         using' = IF Holding(r) THEN {t} ELSE using \ {t},
         Holding(r) => using \subseteq {t}
  PROVE  WebInv'
<1>1. \A u \in Searchers : searcher'[u] = IF u = t THEN r ELSE searcher[u]
  BY DEF WebInv, WebShapes
<1>2. searcher' \in [Searchers -> Searching]  BY DEF WebInv, WebShapes
<1>3. using' = {u \in Searchers : Holding(searcher'[u])} /\ \A u, v \in using' : u = v
  BY <1>1 DEF WebInv, WebShapes
<1>4. \A u \in Searchers : searcher'[u].engine = Engines + 1 => searcher'[u].at = "loop"
  BY <1>1 DEF WebInv, WebShapes
<1>5. WebShapes'  BY <1>2, <1>3, <1>4 DEF WebShapes, Holding
<1>6. ASSUME NEW u \in Searchers PROVE ReadFits(searcher[u])'
  <2>1. CASE u = t  BY <1>1, <2>1 DEF ReadFits
  <2>2. CASE u # t
    <3> DEFINE q == searcher[u]
    <3>1. q \in Searching /\ ReadFits(q) /\ searcher'[u] = q /\ (q.engine = Engines + 1 => q.at = "loop")
      BY <1>1, <2>2 DEF WebInv, WebShapes
    <3> HIDE DEF q
    <3>2. CASE q.at = "loop"  BY <3>1, <3>2 DEF ReadFits
    <3>3. CASE q.at # "loop"
      <4>1. q.engine \in 1..Engines /\ q.count \in Nat
        BY <3>1, <3>3, WebAssumption DEF Searching
      <4>2. /\ failed[q.engine] \in 0..TripAfter /\ failed'[q.engine] \in 0..TripAfter
            /\ failed[q.engine] <= failed'[q.engine] /\ TripAfter \in Nat
        BY <4>1, WebAssumption DEF WebInv, WebShapes
      <4>3. QED  BY <3>1, <4>1, <4>2 DEF ReadFits
    <3>4. QED  BY <3>2, <3>3
  <2>3. QED  BY <2>1, <2>2
<1>7. QED  BY <1>5, <1>6 DEF WebInv

\* What is known of a thread.
LEMMA SearcherIs ==
  ASSUME WebInv, NEW t \in Searchers
  PROVE  /\ searcher \in [Searchers -> Searching] /\ searcher[t] \in Searching
         /\ searcher[t].at # "loop" => searcher[t].engine \in 1..Engines
         /\ t \in using <=> Holding(searcher[t])
         /\ t \in using => using = {t}
         /\ ReadFits(searcher[t])
         /\ misses \in [1..Engines -> 0..TripAfter] /\ failed \in [1..Engines -> 0..TripAfter]
         /\ openFor \in [1..Engines -> {"no", "cooling", "over"}]
         /\ Dictionaries
         /\ \A e \in 1..Engines : failed[e] <= failed[e]
BY WebAssumption DEF WebInv, WebShapes, Searching

\* Where it goes.
LEMMA WentTo ==
  ASSUME WebInv, NEW t \in Searchers, NEW place \in SearcherPlaces, Goto(t, place)
  PROVE  \E r \in Searching :
           /\ searcher' = [searcher EXCEPT ![t] = r] /\ r.at = place
           /\ r.engine = searcher[t].engine /\ r.got = searcher[t].got
           /\ r.count = searcher[t].count
<1> DEFINE r == [searcher[t] EXCEPT !.at = place]
<1>1. searcher' = [searcher EXCEPT ![t] = r]  BY DEF Goto, Become
<1>2. /\ r \in Searching /\ r.at = place /\ r.engine = searcher[t].engine
      /\ r.got = searcher[t].got /\ r.count = searcher[t].count
  BY SearcherIs DEF Searching
<1> HIDE DEF r
<1>3. QED  BY <1>1, <1>2

LEMMA WentOn ==
  ASSUME WebInv, NEW t \in Searchers, NextEngine(t), searcher[t].engine \in 1..Engines
  PROVE  \E r \in Searching : searcher' = [searcher EXCEPT ![t] = r] /\ r.at = "loop"
<1> DEFINE r == [at |-> "loop", engine |-> searcher[t].engine + 1, got |-> "nothing", count |-> 0]
<1>1. searcher' = [searcher EXCEPT ![t] = r]  BY DEF NextEngine, Become
<1>2. searcher[t].engine + 1 \in 1..(Engines + 1) /\ 0 \in 0..TripAfter  BY WebAssumption
<1>3. r \in Searching /\ r.at = "loop"  BY <1>2 DEF Searching, SearcherPlaces
<1> HIDE DEF r
<1>4. QED  BY <1>1, <1>3

\* A thread that neither writes a dictionary nor reports a failure.
LEMMA SearcherPassed ==
  ASSUME WebInv, NEW t \in Searchers, NEW r \in Searching,
         searcher' = [searcher EXCEPT ![t] = r],
         UNCHANGED <<misses, openFor, failed>>, ReadFits(r),
         r.engine = Engines + 1 => r.at = "loop",
         using' = IF Holding(r) THEN {t} ELSE using \ {t},
         Holding(r) => using \subseteq {t}
  PROVE  WebInv'
<1>1. Dictionaries' /\ ReadFits(r)'  BY SearcherIs DEF Dictionaries, ReadFits
<1>2. QED  BY <1>1, SearcherIs, SearcherMoved

\* One that writes them.
LEMMA SearcherWrote ==
  ASSUME WebInv, NEW t \in Searchers, NEW r \in Searching,
         searcher' = [searcher EXCEPT ![t] = r], UNCHANGED <<using, failed>>,
         misses' \in [1..Engines -> 0..TripAfter],
         openFor' \in [1..Engines -> {"no", "cooling", "over"}],
         Dictionaries', ReadFits(r), Holding(r) <=> Holding(searcher[t]),
         r.engine = Engines + 1 => r.at = "loop"
  PROVE  WebInv'
<1>1. ReadFits(r)'  BY DEF ReadFits
<1>2. using' = IF Holding(r) THEN {t} ELSE using \ {t}  BY SearcherIs
<1>3. Holding(r) => using \subseteq {t}  BY SearcherIs
<1>4. QED  BY <1>1, <1>2, <1>3, SearcherIs, SearcherMoved

\* An engine's cool-off is written, or its count.
LEMMA EntryWritten ==
  ASSUME WebInv, NEW t \in Searchers, NEW e \in 1..Engines,
         UNCHANGED <<misses, failed>>,
         \/ openFor' = [openFor EXCEPT ![e] = "no"]
         \/ openFor' = [openFor EXCEPT ![e] = "cooling"] /\ failed[e] = TripAfter
  PROVE  /\ misses' \in [1..Engines -> 0..TripAfter]
         /\ openFor' \in [1..Engines -> {"no", "cooling", "over"}] /\ Dictionaries'
BY SearcherIs DEF Dictionaries

LEMMA CountWritten ==
  ASSUME WebInv, NEW t \in Searchers, NEW e \in 1..Engines, NEW n \in 0..TripAfter,
         UNCHANGED <<openFor, failed>>, misses' = [misses EXCEPT ![e] = n], n <= failed[e]
  PROVE  /\ misses' \in [1..Engines -> 0..TripAfter]
         /\ openFor' \in [1..Engines -> {"no", "cooling", "over"}] /\ Dictionaries'
BY SearcherIs DEF Dictionaries

\* A failure is reported: what is counted is at most what was reported.
LEMMA FailureCounted ==
  ASSUME WebInv, NEW t \in Searchers, NEW got \in {"nothing", "failure"}, CountFailure(t, got),
         searcher[t].at \in {"searching", "telling"},
         got = "failure" <=> Holding(searcher[t])
  PROVE  WebInv'
<1>0. PICK e \in 1..Engines : e = searcher[t].engine  BY SearcherIs
<1>1. PICK r \in Searching :
        /\ searcher' = [searcher EXCEPT ![t] = r]
        /\ r.at = "counted" /\ r.engine = e /\ r.got = got /\ r.count = OneMore(misses[e])
  <2> DEFINE q == [searcher[t] EXCEPT !.at = "counted", !.got = got, !.count = OneMore(misses[e])]
  <2>1. searcher' = [searcher EXCEPT ![t] = q]  BY <1>0 DEF CountFailure, Become
  <2>2. OneMore(misses[e]) \in 0..TripAfter  BY SearcherIs, WebAssumption DEF OneMore
  <2>3. /\ q \in Searching /\ q.at = "counted" /\ q.engine = e /\ q.got = got
        /\ q.count = OneMore(misses[e])
    BY <1>0, <2>2, SearcherIs DEF Searching, SearcherPlaces
  <2> HIDE DEF q
  <2>4. QED  BY <2>1, <2>3
<1>2. failed' = [failed EXCEPT ![e] = OneMore(failed[e])] /\ UNCHANGED <<misses, openFor, using>>
  BY <1>0 DEF CountFailure
<1>3. misses[e] \in 0..TripAfter /\ failed[e] \in 0..TripAfter /\ misses[e] <= failed[e]
  BY SearcherIs DEF Dictionaries
<1>4. /\ OneMore(failed[e]) \in 0..TripAfter
      /\ failed[e] <= OneMore(failed[e]) /\ OneMore(misses[e]) <= OneMore(failed[e])
  BY <1>3, WebAssumption DEF OneMore
<1>5. \A x \in 1..Engines : failed'[x] = IF x = e THEN OneMore(failed[e]) ELSE failed[x]
  BY <1>2, SearcherIs
<1>6. failed' \in [1..Engines -> 0..TripAfter]
  BY <1>2, <1>4, SearcherIs
<1>7. \A x \in 1..Engines : failed[x] <= failed'[x]
  <2> SUFFICES ASSUME NEW x \in 1..Engines PROVE failed[x] <= failed'[x]  OBVIOUS
  <2>1. failed[x] \in 0..TripAfter /\ failed[x] <= failed[x]  BY SearcherIs
  <2>2. QED  BY <2>1, <1>4, <1>5
<1>8. Dictionaries'
  <2> SUFFICES ASSUME NEW x \in 1..Engines
               PROVE  misses[x] <= failed'[x] /\ (openFor[x] # "no" => failed'[x] = TripAfter)
    BY <1>2 DEF Dictionaries
  <2>1. /\ misses[x] \in 0..TripAfter /\ failed[x] \in 0..TripAfter /\ failed'[x] \in 0..TripAfter
        /\ misses[x] <= failed[x] /\ (openFor[x] # "no" => failed[x] = TripAfter)
        /\ failed[x] <= failed'[x]
    BY <1>6, <1>7, SearcherIs DEF Dictionaries
  <2>2. QED  BY <2>1, WebAssumption
<1>9. ReadFits(r)'  BY <1>1, <1>4, <1>5 DEF ReadFits
<1>10. Holding(r) <=> Holding(searcher[t])  BY <1>1 DEF Holding
<1>11. r.engine # Engines + 1  BY <1>1, WebAssumption
<1>12. using' = IF Holding(r) THEN {t} ELSE using \ {t}  BY <1>2, <1>10, SearcherIs
<1>13. Holding(r) => using \subseteq {t}  BY <1>10, SearcherIs
<1>14. misses' \in [1..Engines -> 0..TripAfter]
       /\ openFor' \in [1..Engines -> {"no", "cooling", "over"}]
  BY <1>2, SearcherIs
<1>15. QED
  BY <1>1, <1>6, <1>7, <1>8, <1>9, <1>11, <1>12, <1>13, <1>14, SearcherMoved

LEMMA WebSteps == WebInv /\ [WebNext]_webVars => WebInv'
<1> SUFFICES ASSUME WebInv, [WebNext]_webVars PROVE WebInv'  OBVIOUS
<1>0. Engines + 1 \notin 1..Engines /\ TripAfter - 1 \in 0..TripAfter /\ 0 \in 0..TripAfter
  BY WebAssumption
<1>1. ASSUME NEW t \in Searchers, Ask(t) PROVE WebInv'
  <2>1. PICK r \in Searching : searcher' = [searcher EXCEPT ![t] = r] /\ r.at = "loop"
    BY <1>1, WentTo DEF Ask, SearcherPlaces
  <2>2. ReadFits(r) /\ ~Holding(r)  BY <2>1 DEF ReadFits, Holding
  <2>3. using' = using \ {t}  BY <1>1, SearcherIs DEF Ask, Holding
  <2>4. QED  BY <1>1, <2>1, <2>2, <2>3, SearcherPassed DEF Ask
<1>2. ASSUME NEW t \in Searchers, NEW place \in {"loop", "inner"},
             NEW expired \in {"expired", "innerExpired"}, NEW next \in {"inner", "waiting"},
             Check(t, place, expired, next)
      PROVE  WebInv'
  <2>1. /\ searcher[t].engine \in 1..Engines /\ UNCHANGED <<misses, openFor, using, failed>>
        /\ using' = using \ {t}
    BY <1>2, SearcherIs DEF Check, Searching, Holding
  <2>2. \/ NextEngine(t) \/ Goto(t, next)
        \/ Goto(t, expired) /\ openFor[searcher[t].engine] = "over"
    BY <1>2 DEF Check
  <2>3. PICK r \in Searching :
          /\ searcher' = [searcher EXCEPT ![t] = r]
          /\ \/ r.at = "loop"
             \/ r.at = next /\ r.engine = searcher[t].engine
             \/ /\ r.at = expired /\ r.engine = searcher[t].engine
                /\ openFor[searcher[t].engine] = "over"
    BY <2>1, <2>2, WentOn, WentTo DEF SearcherPlaces
  <2>4. ReadFits(r) /\ ~Holding(r)
    BY <2>1, <2>3, SearcherIs DEF ReadFits, Holding, Dictionaries
  <2>5. QED  BY <1>0, <2>1, <2>3, <2>4, SearcherPassed
<1>3. ASSUME NEW t \in Searchers, PopExpired(t) PROVE WebInv'
  <2>1. PICK r \in Searching :
          /\ searcher' = [searcher EXCEPT ![t] = r] /\ r.at \in {"half", "innerHalf"}
          /\ r.engine = searcher[t].engine
    BY <1>3, WentTo DEF PopExpired, SearcherPlaces
  <2>2. searcher[t].engine \in 1..Engines /\ failed[searcher[t].engine] = TripAfter
    BY <1>3, SearcherIs DEF PopExpired, ReadFits
  <2>3. /\ ReadFits(r) /\ ~Holding(r) /\ ~Holding(searcher[t])
    BY <1>3, <2>1, <2>2 DEF ReadFits, Holding, PopExpired
  <2>4. QED  BY <1>0, <1>3, <2>1, <2>2, <2>3, EntryWritten, SearcherWrote DEF PopExpired
<1>4. ASSUME NEW t \in Searchers, HalfOpen(t) PROVE WebInv'
  <2>1. PICK r \in Searching :
          /\ searcher' = [searcher EXCEPT ![t] = r] /\ r.at \in {"inner", "waiting"}
          /\ r.engine = searcher[t].engine
    BY <1>4, WentTo DEF HalfOpen, SearcherPlaces
  <2>2. searcher[t].engine \in 1..Engines /\ failed[searcher[t].engine] = TripAfter
    BY <1>4, SearcherIs DEF HalfOpen, ReadFits
  <2>3. ReadFits(r) /\ ~Holding(r) /\ ~Holding(searcher[t])
    BY <1>4, <2>1 DEF ReadFits, Holding, HalfOpen
  <2>4. TripAfter - 1 <= failed[searcher[t].engine]  BY <2>2, WebAssumption
  <2>5. QED  BY <1>0, <1>4, <2>1, <2>2, <2>3, <2>4, CountWritten, SearcherWrote DEF HalfOpen
<1>5. ASSUME NEW t \in Searchers, Acquire(t) PROVE WebInv'
  <2>1. PICK r \in Searching :
          /\ searcher' = [searcher EXCEPT ![t] = r] /\ r.at = "searching"
          /\ r.engine = searcher[t].engine
    BY <1>5, WentTo DEF Acquire, SearcherPlaces
  <2>2. ReadFits(r) /\ Holding(r) /\ r.engine \in 1..Engines
    BY <1>5, <2>1, SearcherIs DEF ReadFits, Holding, Acquire
  <2>3. QED  BY <1>0, <1>5, <2>1, <2>2, SearcherPassed DEF Acquire
<1>6. ASSUME NEW t \in Searchers, LockBusy(t) PROVE WebInv'
  <2>1. PICK r \in Searching : searcher' = [searcher EXCEPT ![t] = r] /\ r.at = "loop"
    BY <1>6, SearcherIs, WentOn DEF LockBusy
  <2>2. ReadFits(r) /\ ~Holding(r)  BY <2>1 DEF ReadFits, Holding
  <2>3. using' = using \ {t}  BY <1>6, SearcherIs DEF LockBusy, Holding
  <2>4. QED  BY <1>6, <2>1, <2>2, <2>3, SearcherPassed DEF LockBusy
<1>7. ASSUME NEW t \in Searchers, SearchRaises(t) PROVE WebInv'
  BY <1>7, FailureCounted DEF SearchRaises, Holding
<1>8. ASSUME NEW t \in Searchers, SearchFinds(t) PROVE WebInv'
  <2>1. PICK got \in {"nothing", "items"} :
          Become(t, [searcher[t] EXCEPT !.at = "telling", !.got = got])
    BY <1>8 DEF SearchFinds
  <2> DEFINE r == [searcher[t] EXCEPT !.at = "telling", !.got = got]
  <2>2. searcher' = [searcher EXCEPT ![t] = r]  BY <2>1 DEF Become
  <2>3. r \in Searching /\ r.at = "telling" /\ r.engine \in 1..Engines
    BY <1>8, SearcherIs DEF SearchFinds, Searching, SearcherPlaces
  <2> HIDE DEF r
  <2>4. ReadFits(r) /\ ~Holding(r)  BY <2>3 DEF ReadFits, Holding
  <2>5. QED  BY <1>0, <1>8, <2>2, <2>3, <2>4, SearcherPassed DEF SearchFinds
<1>9. ASSUME NEW t \in Searchers, TellNothing(t) PROVE WebInv'
  BY <1>9, FailureCounted DEF TellNothing, Holding
<1>10. ASSUME NEW t \in Searchers, StoreCount(t) PROVE WebInv'
  <2>1. PICK r \in Searching :
          /\ searcher' = [searcher EXCEPT ![t] = r] /\ r.engine = searcher[t].engine
          /\ r.got = searcher[t].got
          /\ r.at = IF searcher[t].count >= TripAfter THEN "opening" ELSE "leaving"
    BY <1>10, WentTo DEF StoreCount, SearcherPlaces
  <2>2. /\ searcher[t].engine \in 1..Engines /\ searcher[t].count \in 0..TripAfter
        /\ failed[searcher[t].engine] \in 0..TripAfter
        /\ searcher[t].count <= failed[searcher[t].engine]
    BY <1>10, SearcherIs DEF StoreCount, ReadFits, Searching
  <2>3. searcher[t].count >= TripAfter => failed[searcher[t].engine] = TripAfter
    BY <2>2, WebAssumption
  <2>4. ReadFits(r) /\ (Holding(r) <=> Holding(searcher[t]))
    BY <1>10, <2>1, <2>3 DEF ReadFits, Holding, StoreCount
  <2>5. QED  BY <1>0, <1>10, <2>1, <2>2, <2>4, CountWritten, SearcherWrote DEF StoreCount
<1>11. ASSUME NEW t \in Searchers, Open(t) PROVE WebInv'
  <2>1. PICK r \in Searching :
          /\ searcher' = [searcher EXCEPT ![t] = r] /\ r.engine = searcher[t].engine
          /\ r.got = searcher[t].got /\ r.at = "leaving"
    BY <1>11, WentTo DEF Open, SearcherPlaces
  <2>2. searcher[t].engine \in 1..Engines /\ failed[searcher[t].engine] = TripAfter
    BY <1>11, SearcherIs DEF Open, ReadFits
  <2>3. ReadFits(r) /\ (Holding(r) <=> Holding(searcher[t]))
    BY <1>11, <2>1 DEF ReadFits, Holding, Open
  <2>4. QED  BY <1>0, <1>11, <2>1, <2>2, <2>3, EntryWritten, SearcherWrote DEF Open
<1>12. ASSUME NEW t \in Searchers, GoOn(t) PROVE WebInv'
  <2>1. PICK r \in Searching : searcher' = [searcher EXCEPT ![t] = r] /\ r.at = "loop"
    BY <1>12, SearcherIs, WentOn DEF GoOn
  <2>2. ReadFits(r) /\ ~Holding(r)  BY <2>1 DEF ReadFits, Holding
  <2>3. QED  BY <1>12, <2>1, <2>2, SearcherPassed DEF GoOn
<1>13. ASSUME NEW t \in Searchers, ClearCount(t) PROVE WebInv'
  <2>1. PICK r \in Searching :
          /\ searcher' = [searcher EXCEPT ![t] = r] /\ r.engine = searcher[t].engine
          /\ r.at = "clearing"
    BY <1>13, WentTo DEF ClearCount, SearcherPlaces
  <2>2. searcher[t].engine \in 1..Engines
    BY <1>13, SearcherIs DEF ClearCount
  <2>3. failed[searcher[t].engine] \in 0..TripAfter  BY <2>2, SearcherIs
  <2>4. ReadFits(r) /\ ~Holding(r) /\ ~Holding(searcher[t])
    BY <1>13, <2>1 DEF ReadFits, Holding, ClearCount
  <2>5. 0 <= failed[searcher[t].engine]  BY <2>3, WebAssumption
  <2>6. QED  BY <1>0, <1>13, <2>1, <2>2, <2>4, <2>5, CountWritten, SearcherWrote DEF ClearCount
<1>14. ASSUME NEW t \in Searchers, ClearCooling(t) PROVE WebInv'
  <2>1. searcher[t].engine \in 1..Engines  BY <1>14, SearcherIs DEF ClearCooling
  <2>2. ReadFits(Idle) /\ ~Holding(Idle) /\ ~Holding(searcher[t])
    BY <1>14, IdleSearcher DEF ReadFits, Holding, ClearCooling
  <2>3. QED
    BY <1>14, <2>1, <2>2, IdleSearcher, EntryWritten, SearcherWrote DEF ClearCooling, Become
<1>15. ASSUME NEW t \in Searchers, Lite(t) PROVE WebInv'
  <2>1. ReadFits(Idle) /\ ~Holding(Idle)  BY IdleSearcher DEF ReadFits, Holding
  <2>2. using' = using \ {t}  BY <1>15, SearcherIs DEF Lite, Holding
  <2>3. QED  BY <1>15, <2>1, <2>2, IdleSearcher, SearcherPassed DEF Lite, Become
<1>16. ASSUME NEW e \in 1..Engines, CoolOffPasses(e) PROVE WebInv'
  <2>1. openFor' = [openFor EXCEPT ![e] = "over"] /\ openFor[e] = "cooling"
        /\ UNCHANGED <<misses, using, searcher, failed>>
    BY <1>16 DEF CoolOffPasses
  <2>2. WebShapes'  BY <2>1 DEF WebInv, WebShapes
  <2>3. Dictionaries'  BY <2>1 DEF WebInv, WebShapes, Dictionaries
  <2>4. QED  BY <2>1, <2>2, <2>3 DEF WebInv, ReadFits
<1>17. CASE UNCHANGED webVars
  BY <1>17 DEF webVars, WebInv, WebShapes, Dictionaries, ReadFits
<1>18. QED
  BY <1>1, <1>2, <1>3, <1>4, <1>5, <1>6, <1>7, <1>8, <1>9, <1>10, <1>11, <1>12, <1>13,
     <1>14, <1>15, <1>16, <1>17
  DEF WebNext, CheckOuter, CheckInner

LEMMA WebImplied == WebInv => WebInvariant
<1> SUFFICES ASSUME WebInv PROVE WebInvariant  OBVIOUS
<1>1. WebTypeOK  BY DEF WebInv, WebShapes, WebTypeOK, Searching
<1>2. OneInLibrary  BY OneAtMost DEF WebInv, WebShapes, OneInLibrary
<1>3. ASSUME NEW t \in Searchers, searcher[t].at \in {"counted", "opening"}
      PROVE  searcher[t].count <= failed[searcher[t].engine]
  <2>1. searcher[t].count \in 0..TripAfter  BY SearcherIs DEF Searching
  <2>2. QED  BY <1>3, <2>1, SearcherIs, WebAssumption DEF ReadFits
<1>4. QED  BY <1>1, <1>2, <1>3 DEF WebInv, WebInvariant, SkippedForCause, Dictionaries

\* However many threads search, and however the reads and writes of their checks
\* of the breaker and of their reports to it interleave, one at most is in the
\* search library, and an engine is skipped only once as many failures of it were
\* reported as the threshold asks for: overlapping reports lose some, or open an
\* engine that has just answered, but make none up.
THEOREM WebSafe == WebSpec => []WebInvariant
<1>1. QED  BY WebStarts, WebSteps, WebImplied, PTL DEF WebSpec

-----------------------------------------------------------------------------
(* The threat feed.                                                        *)

LookupRecord == [at : {"out", "waiting", "inside", "seen", "read"},
                 mtime : Versions, version : Versions]

ThreatShapes ==
  /\ file \in {0, versions} /\ versions \in Versions
  /\ loaded \in Versions /\ mtime \in Versions /\ checked \in BOOLEAN
  /\ lookup \in [Lookups -> LookupRecord]

\* What makes ThreatTypeOK inductive: the lock as a relation among lookups, and
\* that a lookup reads a version no older than the one whose time it has seen.
Reloading ==
  /\ \A k, l \in Lookups : Inside(k) /\ Inside(l) => k = l
  /\ \A l \in Lookups :
       /\ lookup[l].mtime <= versions
       /\ lookup[l].at = "read" => lookup[l].mtime <= lookup[l].version
  /\ mtime <= loaded

ThreatInv == ThreatShapes /\ Reloading

LEMMA ThreatImplied == ThreatInv => ThreatTypeOK
<1> SUFFICES ASSUME ThreatInv PROVE ThreatTypeOK  OBVIOUS
<1>1. Cardinality({l \in Lookups : Inside(l)}) <= 1
  BY OneAtMost DEF ThreatInv, Reloading
<1>2. QED  BY <1>1 DEF ThreatInv, ThreatShapes, Reloading, ThreatTypeOK, LookupRecord

LEMMA NoLookupIs == NoLookup \in LookupRecord /\ NoLookup.at = "out" /\ NoLookup.mtime = 0
BY FeedAssumption DEF NoLookup, LookupRecord, Versions

LEMMA ThreatStarts == ThreatInit => ThreatInv
<1> SUFFICES ASSUME ThreatInit PROVE ThreatInv  OBVIOUS
<1>1. \A l \in Lookups : lookup[l] = NoLookup  BY DEF ThreatInit
<1>2. ThreatShapes
  <2>1. 0 \in Versions  BY FeedAssumption DEF Versions
  <2>2. QED  BY <2>1, NoLookupIs DEF ThreatInit, ThreatShapes
<1>3. Reloading  BY <1>1, NoLookupIs DEF ThreatInit, Reloading, Inside
<1>4. QED  BY <1>2, <1>3 DEF ThreatInv

\* A step of one lookup that leaves the entries: it ends where it may be.
LEMMA LookupMoved ==
  ASSUME ThreatInv, NEW l \in Lookups, NEW r \in LookupRecord,
         lookup' = [lookup EXCEPT ![l] = r],
         UNCHANGED <<file, versions, loaded, mtime>>, checked' \in BOOLEAN,
         r.mtime <= versions, r.at = "read" => r.mtime <= r.version,
         r.at \in {"inside", "seen", "read"} => \A k \in Lookups : Inside(k) => k = l
  PROVE  ThreatInv'
<1>1. \A k \in Lookups : lookup'[k] = IF k = l THEN r ELSE lookup[k]
  BY DEF ThreatInv, ThreatShapes
<1>2. ThreatShapes'  BY DEF ThreatInv, ThreatShapes, Versions
<1>3. Reloading'  BY <1>1 DEF ThreatInv, Reloading, Inside, LookupRecord
<1>4. QED  BY <1>2, <1>3 DEF ThreatInv

LEMMA ThreatSteps == ThreatInv /\ [ThreatNext]_threatVars => ThreatInv'
<1> SUFFICES ASSUME ThreatInv, [ThreatNext]_threatVars PROVE ThreatInv'  OBVIOUS
<1>0. /\ ThreatShapes /\ Reloading /\ MaxVersions \in Nat
      /\ file \in Nat /\ versions \in Nat /\ loaded \in Nat /\ mtime \in Nat
      /\ {file, versions} \subseteq Versions
      /\ \A l \in Lookups : lookup[l] \in LookupRecord /\ lookup[l].mtime <= versions
  BY FeedAssumption DEF ThreatInv, ThreatShapes, Reloading, Versions
<1>a. ASSUME NEW l \in Lookups, NEW place \in {"waiting", "inside"}, Place(l, place)
      PROVE  \E r \in LookupRecord :
               /\ r.at = place /\ r.mtime = lookup[l].mtime /\ r.version = lookup[l].version
               /\ lookup' = [lookup EXCEPT ![l] = r]
  <2> DEFINE r == [lookup[l] EXCEPT !.at = place]
  <2>1. r \in LookupRecord /\ r.at = place /\ r.mtime = lookup[l].mtime
        /\ r.version = lookup[l].version
    BY <1>0 DEF LookupRecord
  <2>2. lookup' = [lookup EXCEPT ![l] = r]  BY <1>a DEF Place, Becomes
  <2> HIDE DEF r
  <2>3. QED  BY <2>1, <2>2
<1>b. ASSUME NEW l \in Lookups, Becomes(l, NoLookup), checked' \in BOOLEAN,
             UNCHANGED <<file, versions, loaded, mtime>>
      PROVE  ThreatInv'
  <2>1. lookup' = [lookup EXCEPT ![l] = NoLookup]  BY <1>b DEF Becomes
  <2>2. /\ NoLookup \in LookupRecord /\ NoLookup.mtime <= versions
        /\ NoLookup.at \notin {"inside", "seen", "read"}
    BY <1>0, NoLookupIs
  <2>3. QED  BY <1>b, <2>1, <2>2, LookupMoved
<1>1. CASE Replace
  <2>1. /\ file' = versions + 1 /\ versions' = versions + 1 /\ versions' \in Versions
        /\ UNCHANGED <<loaded, mtime, checked, lookup>>
    BY <1>0, <1>1 DEF Replace, Versions
  <2>2. ThreatShapes'  BY <1>0, <2>1 DEF ThreatShapes
  <2>3. Reloading'  BY <1>0, <2>1 DEF Reloading, Inside, LookupRecord, Versions
  <2>4. QED  BY <2>2, <2>3 DEF ThreatInv
<1>2. CASE Remove
  BY <1>0, <1>2 DEF Remove, ThreatInv, ThreatShapes, Reloading, Inside
<1>3. CASE CheckAges
  BY <1>0, <1>3 DEF CheckAges, ThreatInv, ThreatShapes, Reloading, Inside
<1>4. ASSUME NEW l \in Lookups, Refresh(l) PROVE ThreatInv'
  BY <1>0, <1>4, <1>a, LookupMoved DEF Refresh, ThreatShapes
<1>5. ASSUME NEW l \in Lookups, Enter(l) PROVE ThreatInv'
  <2>0. checked' \in BOOLEAN /\ UNCHANGED <<file, versions, loaded, mtime>>
    BY <1>0, <1>5 DEF Enter, ThreatShapes
  <2>1. CASE Becomes(l, NoLookup)
    BY <2>0, <2>1, <1>b
  <2>2. CASE Place(l, "inside")
    <3>1. PICK r \in LookupRecord :
            /\ r.at = "inside" /\ r.mtime = lookup[l].mtime
            /\ lookup' = [lookup EXCEPT ![l] = r]
      BY <2>2, <1>a
    <3>2. QED  BY <1>0, <1>5, <2>0, <3>1, LookupMoved DEF Enter
  <2>3. QED  BY <1>5, <2>1, <2>2 DEF Enter
<1>6. ASSUME NEW l \in Lookups, Stat(l) PROVE ThreatInv'
  <2>1. CASE Becomes(l, NoLookup)
    <3>1. checked' \in BOOLEAN /\ UNCHANGED <<file, versions, loaded, mtime>>
      BY <1>0, <1>6 DEF Stat, ThreatShapes
    <3>2. QED  BY <2>1, <3>1, <1>b
  <2>2. CASE Becomes(l, [at |-> "seen", mtime |-> file, version |-> 0])
    <3> DEFINE r == [at |-> "seen", mtime |-> file, version |-> 0]
    <3>1. r \in LookupRecord /\ r.at = "seen" /\ r.mtime = file
      BY <1>0 DEF LookupRecord, Versions
    <3>2. lookup' = [lookup EXCEPT ![l] = r]  BY <2>2 DEF Becomes
    <3>3. Inside(l) /\ file <= versions  BY <1>0, <1>6 DEF Stat, Inside, ThreatShapes
    <3> HIDE DEF r
    <3>4. QED
      BY <1>0, <1>6, <3>1, <3>2, <3>3, LookupMoved DEF Stat, ThreatShapes, Reloading
  <2>3. QED  BY <1>6, <2>1, <2>2 DEF Stat
<1>7. ASSUME NEW l \in Lookups, Read(l) PROVE ThreatInv'
  <2>1. CASE Becomes(l, NoLookup)
    <3>1. checked' \in BOOLEAN /\ UNCHANGED <<file, versions, loaded, mtime>>
      BY <1>0, <1>7 DEF Read, ThreatShapes
    <3>2. QED  BY <2>1, <3>1, <1>b
  <2>2. CASE file # 0 /\ Becomes(l, [lookup[l] EXCEPT !.at = "read", !.version = file])
    <3> DEFINE r == [lookup[l] EXCEPT !.at = "read", !.version = file]
    <3>1. r \in LookupRecord /\ r.at = "read" /\ r.mtime = lookup[l].mtime /\ r.version = file
      BY <1>0 DEF LookupRecord, Versions
    <3>2. lookup' = [lookup EXCEPT ![l] = r]  BY <2>2 DEF Becomes
    <3>3. Inside(l) /\ file = versions  BY <1>0, <1>7, <2>2 DEF Read, Inside, ThreatShapes
    <3> HIDE DEF r
    <3>4. QED
      BY <1>0, <1>7, <3>1, <3>2, <3>3, LookupMoved DEF Read, ThreatShapes, Reloading
  <2>3. QED  BY <1>7, <2>1, <2>2 DEF Read
<1>8. ASSUME NEW l \in Lookups, Publish(l) PROVE ThreatInv'
  <2>1. /\ loaded' = lookup[l].version /\ mtime' = lookup[l].mtime /\ mtime' <= loaded'
        /\ checked' = TRUE /\ lookup' = [lookup EXCEPT ![l] = NoLookup]
        /\ UNCHANGED <<file, versions>>
    BY <1>0, <1>8 DEF Publish, Becomes, Reloading
  <2>2. \A k \in Lookups : lookup'[k] = IF k = l THEN NoLookup ELSE lookup[k]
    BY <1>0, <2>1 DEF ThreatShapes
  <2>3. ThreatShapes'  BY <1>0, <2>1, NoLookupIs DEF ThreatShapes, LookupRecord
  <2>4. Reloading'  BY <1>0, <2>1, <2>2, NoLookupIs DEF Reloading, Inside
  <2>5. QED  BY <2>3, <2>4 DEF ThreatInv
<1>9. CASE UNCHANGED threatVars
  BY <1>0, <1>9 DEF threatVars, ThreatInv, ThreatShapes, Reloading, Inside
<1>10. QED
  BY <1>1, <1>2, <1>3, <1>4, <1>5, <1>6, <1>7, <1>8, <1>9 DEF ThreatNext

\* For any lookups and versions: one at a time reloads, and entries in memory are
\* never remembered as newer than they are, although the file is replaced between
\* the look at its time and the reading of it.
THEOREM ThreatSafe == ThreatSpec => []ThreatTypeOK
<1>1. QED  BY ThreatStarts, ThreatSteps, ThreatImplied, PTL DEF ThreatSpec

-----------------------------------------------------------------------------
(* The index of earlier claims.                                            *)

\* What makes MemoryInvariant inductive: the lock as a relation among analyses;
\* the list and the matrix fit except between their two writes; and what was read
\* from the table is not older than the list it replaces.
Rebuilt ==
  /\ \A a, b \in Analyses : Rebuilding(a) /\ Rebuilding(b) => a = b
  /\ (\A a \in Analyses : analysis[a].at # "embedding") => matrix \in {0, claims}
  /\ \A a \in Analyses :
       /\ analysis[a].loaded <= reports
       /\ analysis[a].at = "loaded" => claims <= analysis[a].loaded
       /\ Rebuilding(a) => ~young

MemoryPlaces == {"out", "waiting", "inside", "loaded", "embedding", "embedded",
                 "search", "scored", "ranked"}
MemoryRecord == [at : MemoryPlaces, loaded : Indexes, scored : Indexes, ranked : Indexes]

MemoryShapes ==
  /\ reports \in Indexes /\ claims \in 0..reports /\ matrix \in 0..claims /\ young \in BOOLEAN
  /\ analysis \in [Analyses -> MemoryRecord]

MemoryInv == MemoryShapes /\ Rebuilt

LEMMA MemoryImplied == MemoryInv => MemoryInvariant
<1> SUFFICES ASSUME MemoryInv PROVE MemoryInvariant  OBVIOUS
<1>1. Cardinality({a \in Analyses : Rebuilding(a)}) <= 1
  BY OneAtMost DEF MemoryInv, Rebuilt
<1>2. (\A a \in Analyses : ~Rebuilding(a)) => matrix \in {0, claims}
  BY DEF MemoryInv, Rebuilt, Rebuilding
<1>3. MemoryTypeOK
  BY <1>1, <1>2 DEF MemoryInv, MemoryShapes, MemoryTypeOK, MemoryRecord, MemoryPlaces
<1>4. OneRebuild  BY DEF MemoryInv, Rebuilt, OneRebuild, Rebuilding
<1>5. QED  BY <1>3, <1>4 DEF MemoryInvariant

LEMMA MemoryStarts == MemoryInit => MemoryInv
<1> SUFFICES ASSUME MemoryInit PROVE MemoryInv  OBVIOUS
<1>1. NoAnalysis \in MemoryRecord /\ NoAnalysis.at = "out"
  BY MemoryAssumption DEF NoAnalysis, MemoryRecord, MemoryPlaces, Indexes
<1>2. \A a \in Analyses : analysis[a] = NoAnalysis  BY DEF MemoryInit
<1>3. MemoryShapes
  <2>1. 0 \in Indexes /\ 0 \in 0..0  BY MemoryAssumption DEF Indexes
  <2>2. analysis \in [Analyses -> MemoryRecord]  BY <1>1 DEF MemoryInit
  <2>3. QED  BY <2>1, <2>2 DEF MemoryInit, MemoryShapes
<1>4. Rebuilt  BY <1>2 DEF MemoryInit, Rebuilt, Rebuilding, NoAnalysis
<1>5. QED  BY <1>3, <1>4 DEF MemoryInv

\* A step of one analysis that leaves the index: it ends where it may be.
LEMMA AnalysisMoved ==
  ASSUME MemoryInv, NEW a \in Analyses, NEW r \in MemoryRecord,
         analysis' = [analysis EXCEPT ![a] = r],
         UNCHANGED <<reports, claims, matrix>>, young' \in BOOLEAN,
         analysis[a].at # "embedding" \/ matrix \in {0, claims},
         young' # young => Rebuilding(a) /\ young' /\ r.at = "search",
         r.at = "embedding" => analysis[a].at = "embedding",
         r.loaded <= reports,
         r.at \in {"inside", "loaded", "embedding", "embedded"} =>
           /\ ~young
           /\ \A b \in Analyses : Rebuilding(b) => a = b,
         r.at = "loaded" => claims <= r.loaded
  PROVE  MemoryInv'
<1>1. \A b \in Analyses : analysis'[b] = IF b = a THEN r ELSE analysis[b]
  BY DEF MemoryInv, MemoryShapes
<1>2. MemoryShapes'  BY DEF MemoryInv, MemoryShapes, Indexes
<1>3. Rebuilt'
  BY <1>1 DEF MemoryInv, Rebuilt, Rebuilding
<1>4. QED  BY <1>2, <1>3 DEF MemoryInv

LEMMA MemorySteps == MemoryInv /\ [MemoryNext]_memoryVars => MemoryInv'
<1> SUFFICES ASSUME MemoryInv, [MemoryNext]_memoryVars PROVE MemoryInv'  OBVIOUS
<1>0. /\ MemoryShapes /\ Rebuilt
      /\ reports \in Nat /\ claims \in Nat /\ matrix \in Nat /\ MaxReports \in Nat
      /\ matrix <= claims /\ claims <= reports /\ reports <= MaxReports
      /\ \A a \in Analyses : analysis[a] \in MemoryRecord /\ analysis[a].loaded <= reports
      /\ {reports, claims, matrix} \subseteq Indexes
  BY MemoryAssumption DEF MemoryInv, MemoryShapes, Indexes, Rebuilt
<1>a. ASSUME NEW a \in Analyses, NEW place \in MemoryPlaces
      PROVE  LET r == [analysis[a] EXCEPT !.at = place]
             IN  /\ r \in MemoryRecord /\ r.at = place /\ r.loaded = analysis[a].loaded
                 /\ [analysis EXCEPT ![a].at = place] = [analysis EXCEPT ![a] = r]
  BY <1>0 DEF MemoryRecord, MemoryShapes
<1>1. CASE ReportCompleted
  <2>1. MemoryShapes'  BY <1>0, <1>1 DEF ReportCompleted, MemoryShapes, Indexes
  <2>2. Rebuilt'
    BY <1>0, <1>1 DEF ReportCompleted, Rebuilt, Rebuilding, MemoryRecord, Indexes
  <2>3. QED  BY <2>1, <2>2 DEF MemoryInv
<1>2. CASE IndexAges
  BY <1>0, <1>2 DEF IndexAges, MemoryInv, MemoryShapes, Rebuilt, Rebuilding
<1>3. ASSUME NEW a \in Analyses, Consult(a) PROVE MemoryInv'
  BY <1>0, <1>3, <1>a, AnalysisMoved DEF Consult, StepTo, MemoryPlaces, MemoryShapes
<1>4. ASSUME NEW a \in Analyses, LockIndex(a) PROVE MemoryInv'
  <2>1. CASE young
    BY <1>0, <1>4, <2>1, <1>a, AnalysisMoved DEF LockIndex, StepTo, MemoryPlaces, MemoryShapes
  <2>2. CASE ~young
    <3> DEFINE r == [analysis[a] EXCEPT !.at = "inside"]
    <3>1. /\ r \in MemoryRecord /\ r.at = "inside" /\ r.loaded = analysis[a].loaded
          /\ analysis' = [analysis EXCEPT ![a] = r]
      BY <1>4, <2>2, <1>a DEF LockIndex, StepTo, MemoryPlaces
    <3> HIDE DEF r
    <3>2. QED  BY <1>0, <1>4, <2>2, <3>1, AnalysisMoved DEF LockIndex, StepTo, MemoryShapes
  <2>3. QED  BY <2>1, <2>2
<1>5. ASSUME NEW a \in Analyses, Load(a) PROVE MemoryInv'
  <2> DEFINE r == [analysis[a] EXCEPT !.at = "loaded", !.loaded = reports]
  <2>1. r \in MemoryRecord /\ r.at = "loaded" /\ r.loaded = reports
    BY <1>0 DEF MemoryRecord, MemoryPlaces
  <2>2. analysis' = [analysis EXCEPT ![a] = r]  BY <1>5 DEF Load, Set
  <2>3. Rebuilding(a) /\ claims <= reports /\ r.loaded <= reports
    BY <1>0, <1>5, <2>1 DEF Load, Rebuilding
  <2> HIDE DEF r
  <2>4. QED
    BY <1>0, <1>5, <2>1, <2>2, <2>3, AnalysisMoved DEF Load, MemoryShapes, Rebuilt
<1>6. ASSUME NEW a \in Analyses, LoadFails(a) PROVE MemoryInv'
  BY <1>0, <1>6, <1>a, AnalysisMoved
  DEF LoadFails, StepTo, MemoryPlaces, MemoryShapes, Rebuilding
<1>7. ASSUME NEW a \in Analyses, Replaced(a) PROVE MemoryInv'
  <2>1. \A b \in Analyses :
          /\ analysis'[b].at = IF b = a THEN "embedding" ELSE analysis[b].at
          /\ analysis'[b].loaded = analysis[b].loaded
    BY <1>0, <1>7 DEF Replaced, StepTo, MemoryShapes, MemoryRecord
  <2>2. MemoryShapes'
    <3>1. /\ claims <= analysis[a].loaded /\ analysis[a].loaded <= reports
          /\ analysis[a].loaded \in Nat
      BY <1>0, <1>7 DEF Replaced, StepTo, Rebuilt, MemoryRecord, Indexes
    <3>2. claims' \in 0..reports' /\ matrix' \in 0..claims'
      BY <1>0, <1>7, <3>1 DEF Replaced
    <3>3. analysis' \in [Analyses -> MemoryRecord]
      BY <1>0, <1>7, <1>a DEF Replaced, StepTo, MemoryShapes, MemoryPlaces
    <3>4. QED  BY <1>0, <1>7, <3>2, <3>3 DEF Replaced, MemoryShapes, Indexes
  <2>3. Rebuilt'
    BY <1>0, <1>7, <2>1 DEF Replaced, StepTo, Rebuilt, Rebuilding
  <2>4. QED  BY <2>2, <2>3 DEF MemoryInv
<1>8. ASSUME NEW a \in Analyses, Embedded(a) PROVE MemoryInv'
  <2>1. \A b \in Analyses :
          /\ analysis'[b].at = IF b = a THEN "embedded" ELSE analysis[b].at
          /\ analysis'[b].loaded = analysis[b].loaded
    BY <1>0, <1>8 DEF Embedded, StepTo, MemoryShapes, MemoryRecord
  <2>2. MemoryShapes'
    <3>1. analysis' \in [Analyses -> MemoryRecord]
      BY <1>0, <1>8, <1>a DEF Embedded, StepTo, MemoryShapes, MemoryPlaces
    <3>2. matrix' \in 0..claims' /\ claims' \in 0..reports'  BY <1>0, <1>8 DEF Embedded
    <3>3. QED  BY <1>0, <1>8, <3>1, <3>2 DEF Embedded, MemoryShapes
  <2>3. Rebuilt'
    BY <1>0, <1>8, <2>1 DEF Embedded, StepTo, Rebuilt, Rebuilding
  <2>4. QED  BY <2>2, <2>3 DEF MemoryInv
<1>9. ASSUME NEW a \in Analyses, Built(a) PROVE MemoryInv'
  BY <1>0, <1>9, <1>a, AnalysisMoved
  DEF Built, StepTo, MemoryPlaces, MemoryShapes, Rebuilding
<1>10. ASSUME NEW a \in Analyses, Score(a) PROVE MemoryInv'
  <2>0. PICK scored \in Indexes :
          Set(a, [analysis[a] EXCEPT !.at = "scored", !.scored = scored])
    BY <1>0, <1>10 DEF Score
  <2> DEFINE r == [analysis[a] EXCEPT !.at = "scored", !.scored = scored]
  <2>1. r \in MemoryRecord /\ r.at = "scored" /\ r.loaded = analysis[a].loaded
    BY <1>0 DEF MemoryRecord, MemoryPlaces
  <2>2. analysis' = [analysis EXCEPT ![a] = r]  BY <2>0 DEF Set
  <2> HIDE DEF r
  <2>3. QED  BY <1>0, <1>10, <2>1, <2>2, AnalysisMoved DEF Score, MemoryShapes
<1>11. ASSUME NEW a \in Analyses, Rank(a) PROVE MemoryInv'
  <2> DEFINE r == [analysis[a] EXCEPT !.at = "ranked", !.ranked = claims]
  <2>1. r \in MemoryRecord /\ r.at = "ranked" /\ r.loaded = analysis[a].loaded
    BY <1>0 DEF MemoryRecord, MemoryPlaces
  <2>2. analysis' = [analysis EXCEPT ![a] = r]  BY <1>11 DEF Rank, Set
  <2> HIDE DEF r
  <2>3. QED  BY <1>0, <1>11, <2>1, <2>2, AnalysisMoved DEF Rank, MemoryShapes
<1>12. ASSUME NEW a \in Analyses, Found(a) PROVE MemoryInv'
  <2>1. NoAnalysis \in MemoryRecord /\ NoAnalysis.at = "out" /\ NoAnalysis.loaded <= reports
    BY <1>0 DEF NoAnalysis, MemoryRecord, MemoryPlaces, Indexes
  <2>2. analysis' = [analysis EXCEPT ![a] = NoAnalysis]  BY <1>12 DEF Found, Set
  <2>3. QED  BY <1>0, <1>12, <2>1, <2>2, AnalysisMoved DEF Found, MemoryShapes
<1>13. CASE UNCHANGED memoryVars
  BY <1>0, <1>13 DEF memoryVars, MemoryInv, MemoryShapes, Rebuilt, Rebuilding
<1>14. QED
  BY <1>1, <1>2, <1>3, <1>4, <1>5, <1>6, <1>7, <1>8, <1>9, <1>10, <1>11, <1>12, <1>13
  DEF MemoryNext

\* However many analyses find the index too old together, one rebuilds it, once,
\* and whenever nobody does, the scores fit the claims they are paired with.
THEOREM MemorySafe == MemorySpec => []MemoryInvariant
<1>1. QED  BY MemoryStarts, MemorySteps, MemoryImplied, PTL DEF MemorySpec
=============================================================================
