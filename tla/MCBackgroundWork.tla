-------------------------- MODULE MCBackgroundWork --------------------------
(***************************************************************************)
(* The machines whose correctness is a matter of waiting, for TLC: a       *)
(* provider behind its breaker, a queued job, a stream, the search for     *)
(* evidence, the threads that search the web, the threat feed, the index   *)
(* of earlier claims, and guesses at one account that overlap.  They share *)
(* no state.  The first state chooses the machine that runs; the others    *)
(* stay where they start.                                                  *)
(***************************************************************************)
EXTENDS CircuitBreaker, AnalysisJobs, AnalysisStream, EvidenceSearch, WebSearch,
        ThreatFeed, ClaimMemory, AccountAccess

VARIABLE machine

taskVars == <<jobVars, streamVars, memoryVars>>
sourceVars == <<searchVars, webVars, threatVars>>
backgroundVars == <<machine, accessVars, breakerVars, taskVars, sourceVars>>

Access == machine = "access" /\ UNCHANGED <<machine, breakerVars, taskVars, sourceVars>>
Breaker == machine = "breaker" /\ UNCHANGED <<machine, accessVars, taskVars, sourceVars>>
Jobs ==
  /\ machine = "jobs"
  /\ UNCHANGED <<machine, accessVars, breakerVars, streamVars, memoryVars, sourceVars>>
Stream ==
  /\ machine = "stream"
  /\ UNCHANGED <<machine, accessVars, breakerVars, jobVars, memoryVars, sourceVars>>
Memory ==
  /\ machine = "memory"
  /\ UNCHANGED <<machine, accessVars, breakerVars, jobVars, streamVars, sourceVars>>
Search ==
  /\ machine = "search"
  /\ UNCHANGED <<machine, accessVars, breakerVars, taskVars, webVars, threatVars>>
Web ==
  /\ machine = "web"
  /\ UNCHANGED <<machine, accessVars, breakerVars, taskVars, searchVars, threatVars>>
Threat ==
  /\ machine = "threat"
  /\ UNCHANGED <<machine, accessVars, breakerVars, taskVars, searchVars, webVars>>

Init ==
  /\ machine \in {"access", "breaker", "jobs", "stream", "memory", "search", "web", "threat"}
  /\ AccessStart(TRUE, TRUE) /\ BreakerInit /\ StreamInit /\ MemoryInit
  /\ SearchInit /\ WebInit /\ ThreatInit
  /\ IF machine = "jobs" THEN JobsInit ELSE JobsStart({})

Next ==
  \/ Access /\ AccessNext
  \/ Breaker /\ BreakerNext
  \/ Jobs /\ JobsNext
  \/ Stream /\ StreamNext
  \/ Memory /\ MemoryNext
  \/ Search /\ SearchNext
  \/ Web /\ WebNext
  \/ Threat /\ ThreatNext

\* The cool-off of a breaker passes; a thread that may call goes on calling, and
\* a provider that is up does not leave every call without an answer.
BreakerFairness ==
  /\ WF_backgroundVars(Breaker /\ Cool)
  /\ \A t \in Threads :
       /\ WF_backgroundVars(Breaker /\ BeforeCall(t))
       /\ SF_backgroundVars(Breaker /\ RecordSuccess(t))
       /\ WF_backgroundVars(Breaker /\ (AfterFailure(t) \/ Retry(t)))

\* A worker goes on with its message, an event loop with what is ready, time
\* passes.  A thread in the search library, a broker, a caller need not go on.
Fairness ==
  /\ BreakerFairness
  /\ WF_backgroundVars(Jobs /\ TaskStep)
  /\ WF_backgroundVars(Stream /\ StreamStep)
  /\ WF_backgroundVars(Search /\ Tick) /\ WF_backgroundVars(Search /\ SearchStep)
  /\ \A t \in Searchers : WF_backgroundVars(Web /\ OwnStep(t))
  /\ WF_backgroundVars(Threat /\ CheckAges)
  /\ \A l \in Lookups : WF_backgroundVars(Threat /\ ThreatStep(l))

Spec == Init /\ [][Next]_backgroundVars /\ Fairness

\* Four sources: one that answers well, one with much that is weak, one with
\* little, one with nothing.
Given == [well |-> [relevant |-> 5, strong |-> 3], weak |-> [relevant |-> 3, strong |-> 0],
          little |-> [relevant |-> 1, strong |-> 0], nothing |-> [relevant |-> 0, strong |-> 0]]
GivenSources == DOMAIN Given

\* What is begun ends: a stream with its task, the search for evidence whichever
\* sources never answer, and a search of the web, unless its thread is the one
\* that does not come back from the search library.
WorkEnds == StreamEnds /\ SearchEnds /\ SearchesEnd
=============================================================================
