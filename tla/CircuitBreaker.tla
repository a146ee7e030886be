--------------------------- MODULE CircuitBreaker ---------------------------
(***************************************************************************)
(* The circuit breaker of one outside provider, and the threads that call  *)
(* it: call_with_retry (Gemini, with three attempts) and the Anthropic     *)
(* provider (one attempt).  The breaker is asked before a call and told    *)
(* after it; its lock covers each question, not the call.                  *)
(*                                                                         *)
(* The failure count saturates at the threshold: nothing but the           *)
(* comparison with the threshold reads it.  reset_after is an event, Cool. *)
(***************************************************************************)
EXTENDS Naturals

CONSTANTS Threads,     \* threads that may call the provider
          Threshold,   \* failure_threshold
          Attempts     \* attempts of call_with_retry

ASSUME BreakerAssumption == Threshold \in Nat \ {0} /\ Attempts \in Nat \ {0}

VARIABLES
  failures,   \* _failures, up to the threshold
  opened,     \* _opened_at: None, less than reset_after ago, or longer ago
  threads,    \* where each thread is, and which attempt it makes
  burned,     \* threads whose call failed in the window now open
  provider    \* whether the provider answers

breakerVars == <<failures, opened, threads, burned, provider>>

Waiting == [pc |-> "idle", attempt |-> 0]
ThreadPlaces == {"idle", "calling", "failed", "sleeping"}

BreakerTypeOK ==
  /\ failures \in 0..Threshold
  /\ opened \in {"None", "recent", "cooled"}
  /\ threads \in [Threads -> [pc : ThreadPlaces, attempt : 0..Attempts - 1]]
  /\ burned \subseteq Threads
  /\ provider \in {"up", "down"}

BreakerInit ==
  /\ failures = 0 /\ opened = "None" /\ burned = {}
  /\ threads = [t \in Threads |-> Waiting]
  /\ provider = "up"

breakerState == CASE opened = "None" -> "closed"
                  [] opened = "recent" -> "open"
                  [] opened = "cooled" -> "half_open"

Move(t, pc) == threads' = [threads EXCEPT ![t].pc = pc]
Leave(t) == threads' = [threads EXCEPT ![t] = Waiting]

\* before_call lets the thread through unless the breaker is open.
BeforeCall(t) ==
  /\ threads[t].pc = "idle" /\ breakerState # "open"
  /\ Move(t, "calling")
  /\ UNCHANGED <<failures, opened, burned, provider>>

\* Mutant of RecordSuccess: the count is reset, the time of opening is not.
RecordSuccessCountOnly(t) ==
  /\ threads[t].pc = "calling"
  /\ failures' = 0 /\ opened' = opened /\ burned' = {}
  /\ Leave(t)
  /\ UNCHANGED provider

\* The provider answers: record_success, and the thread returns.
RecordSuccess(t) ==
  /\ threads[t].pc = "calling"
  /\ failures' = 0 /\ opened' = "None" /\ burned' = {}
  /\ Leave(t)
  /\ UNCHANGED provider

\* The provider rejects the request (an exception outside retry_on): the
\* breaker is not told.
Rejected(t) ==
  /\ threads[t].pc = "calling"
  /\ Leave(t)
  /\ UNCHANGED <<failures, opened, burned, provider>>

\* The call fails: record_failure, under the lock.
RecordFailure(t) ==
  /\ threads[t].pc = "calling" /\ provider = "down"
  /\ LET count == IF failures < Threshold THEN failures + 1 ELSE Threshold
         open == count = Threshold
     IN /\ failures' = count
        /\ opened' = IF open THEN "recent" ELSE opened
        /\ burned' = IF open THEN burned \cup {t} ELSE burned
  /\ Move(t, "failed")
  /\ UNCHANGED provider

\* Mutant of AfterFailure: the thread retries without asking.
AfterFailureUnasked(t) ==
  /\ threads[t].pc = "failed"
  /\ IF threads[t].attempt = Attempts - 1 THEN Leave(t) ELSE Move(t, "sleeping")
  /\ UNCHANGED <<failures, opened, burned, provider>>

\* The question after a failure: last attempt, or open by now?
AfterFailure(t) ==
  /\ threads[t].pc = "failed"
  /\ IF threads[t].attempt = Attempts - 1 \/ breakerState = "open"
     THEN Leave(t)
     ELSE Move(t, "sleeping")
  /\ UNCHANGED <<failures, opened, burned, provider>>

\* The delay is over: the next attempt is made without before_call.
Retry(t) ==
  /\ threads[t].pc = "sleeping"
  /\ threads' = [threads EXCEPT ![t] = [pc |-> "calling", attempt |-> @.attempt + 1]]
  /\ UNCHANGED <<failures, opened, burned, provider>>

\* reset_after seconds have passed since _opened_at.
Cool ==
  /\ opened = "recent"
  /\ opened' = "cooled" /\ burned' = {}
  /\ UNCHANGED <<failures, threads, provider>>

\* The provider fails, or comes back.
ProviderChanges ==
  /\ provider' = IF provider = "up" THEN "down" ELSE "up"
  /\ UNCHANGED <<failures, opened, threads, burned>>

BreakerNext ==
  \/ \E t \in Threads : \/ BeforeCall(t) \/ RecordSuccess(t) \/ Rejected(t)
                        \/ RecordFailure(t) \/ AfterFailure(t) \/ Retry(t)
  \/ Cool
  \/ ProviderChanges

BreakerSpec == BreakerInit /\ [][BreakerNext]_breakerVars

-----------------------------------------------------------------------------
(* Properties.                                                             *)

\* The count and the time of opening agree: the breaker has opened exactly
\* when the count has reached the threshold, whichever successes and failures
\* of overlapping calls are told in whatever order.
CountMatchesState == failures = Threshold <=> opened # "None"

\* "A dead provider costs one timeout per window": a thread whose call failed
\* in the window does not call again before the window is over.
OneTimeoutPerWindow ==
  breakerState = "open" =>
    \A t \in burned : threads[t].pc \in {"idle", "failed"}

\* The two of them, over the shapes of the variables.
BreakerInvariant == BreakerTypeOK /\ CountMatchesState /\ OneTimeoutPerWindow

\* A provider that is back for good, and still called, is used for good again,
\* however the failures of its outage and of calls that outlived it were told.
ProviderUsedAgain == <>[](provider = "up") => <>[](breakerState = "closed")
=============================================================================
