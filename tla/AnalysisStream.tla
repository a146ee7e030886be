--------------------------- MODULE AnalysisStream ---------------------------
(***************************************************************************)
(* POST /analyze/stream: the task that runs the analysis, the queue it     *)
(* puts events in, the generator that sends them, and a client that may go *)
(* away.  Both run in one event loop: a step ends where a coroutine really *)
(* suspends.  Putting in the unbounded queue does not suspend, so from the *)
(* end of the evidence stage to the end of the task nothing comes between. *)
(***************************************************************************)
EXTENDS Naturals, Sequences

CONSTANTS Suspensions,   \* awaits of the pipeline that suspend: threads, sources
          MaxClaims      \* MAX_CLAIMS_PER_SUBMISSION

ASSUME StreamAssumption == Suspensions \in Nat \ {0} /\ MaxClaims \in Nat

VARIABLES
  events,     \* the asyncio.Queue
  work,       \* the task: how many suspensions it has passed, or how it ended
  generator,  \* the generator: not there, at its first yield (starting), waiting, checking the client, ending, ended
  client,     \* whether the client is there, and the last event it was sent
  stored      \* whether the report has been committed; a failed commit is only logged

streamVars == <<events, work, generator, client, stored>>

Events == {"stage", "claim", "complete", "error", "end"}
Final == {"complete", "error"}

StreamTypeOK ==
  /\ events \in Seq(Events)
  /\ work \in [at : 0..Suspensions, state : {"none", "running", "cancelling", "ended"}]
  /\ generator \in {"none", "starting", "waiting", "checking", "closing", "ended"}
  /\ client \in [there : BOOLEAN, last : {"nothing", "accepted", "stage", "claim"} \cup Final]
  /\ stored \in {"no", "yes", "failed"}

StreamInit ==
  /\ events = <<>> /\ work = [at |-> 0, state |-> "none"] /\ generator = "none"
  /\ client = [there |-> TRUE, last |-> "nothing"] /\ stored = "no"

Send(event) == client' = IF client.there THEN [client EXCEPT !.last = event] ELSE client
Running == work.state = "running"
Over == work' = [work EXCEPT !.state = "ended"]
Repeat(event, n) == [i \in 1..n |-> event]

-----------------------------------------------------------------------------
(* work().                                                                 *)

\* The pipeline emits a stage and suspends.
Stage ==
  /\ Running /\ work.at < Suspensions
  /\ work' = [work EXCEPT !.at = @ + 1] /\ events' = Append(events, "stage")
  /\ UNCHANGED <<generator, client, stored>>

\* Mutant of Finish: the sentinel is only put when all went well.
FinishOpen ==
  /\ Running /\ work.at = Suspensions
  /\ events' = events \o <<"stage", "stage", "error">>
  /\ stored' \in {"yes", "failed"} /\ Over
  /\ UNCHANGED <<generator, client>>

\* The rest of the pipeline, _augment, _persist, the claims, the result, the
\* sentinel.  When a claim or the report cannot be put in an event, the error
\* takes its place.
Finish ==
  /\ Running /\ work.at = Suspensions
  /\ \E claims \in 0..MaxClaims, last \in Final :
       events' = events \o <<"stage", "stage">> \o Repeat("claim", claims) \o <<last, "end">>
  /\ stored' \in {"yes", "failed"} /\ Over
  /\ UNCHANGED <<generator, client>>

\* A cancelled task ends at the await it is suspended at; its finally branch
\* puts the sentinel.
Cancelled ==
  /\ work.state = "cancelling"
  /\ Over /\ events' = Append(events, "end")
  /\ UNCHANGED <<generator, client, stored>>

-----------------------------------------------------------------------------
(* events().                                                               *)

\* The request: the task is created as the response is first asked for.
OpenStream ==
  /\ generator = "none" /\ generator' = "starting"
  /\ work' = [work EXCEPT !.state = "running"]
  /\ UNCHANGED <<events, client, stored>>

\* "accepted" is sent at once, with the report id.
Accepted ==
  /\ generator = "starting" /\ generator' = "waiting"
  /\ Send("accepted")
  /\ UNCHANGED <<events, work, stored>>

\* The next event is sent; the sentinel ends the loop.  While the queue is
\* empty keep-alives are sent, which change nothing.
NextEvent ==
  /\ generator = "waiting" /\ events # <<>>
  /\ events' = Tail(events)
  /\ IF Head(events) = "end"
     THEN generator' = "closing" /\ UNCHANGED client
     ELSE generator' = "checking" /\ Send(Head(events))
  /\ UNCHANGED <<work, stored>>

CancelTask == work' = IF Running THEN [work EXCEPT !.state = "cancelling"] ELSE work

\* is_disconnected after an event: a client that has gone ends the loop.
CheckClient ==
  /\ generator = "checking"
  /\ IF client.there
     THEN generator' = "waiting" /\ UNCHANGED work
     ELSE generator' = "closing" /\ CancelTask
  /\ UNCHANGED <<events, client, stored>>

\* The response is cancelled once the server notices that the client has gone.
\* The finally branch cancels the task; the first yield is outside it.
ResponseCancelled ==
  /\ ~client.there /\ generator \in {"starting", "waiting"}
  /\ IF generator = "starting"
     THEN generator' = "ended" /\ UNCHANGED work
     ELSE generator' = "closing" /\ CancelTask
  /\ UNCHANGED <<events, client, stored>>

\* The finally branch waits for the task.
Close ==
  /\ generator = "closing" /\ work.state = "ended"
  /\ generator' = "ended"
  /\ UNCHANGED <<events, work, client, stored>>

\* The client navigates away.
Disconnect ==
  /\ client.there /\ generator \notin {"none", "ended"}
  /\ client' = [client EXCEPT !.there = FALSE]
  /\ UNCHANGED <<events, work, generator, stored>>

StreamStep ==
  Stage \/ Finish \/ Cancelled \/ Accepted \/ NextEvent \/ CheckClient
    \/ ResponseCancelled \/ Close

StreamNext ==
  \/ OpenStream
  \/ Stage \/ Finish \/ Cancelled
  \/ Accepted \/ NextEvent \/ CheckClient \/ ResponseCancelled \/ Close
  \/ Disconnect

-----------------------------------------------------------------------------
(* Properties.                                                             *)

\* Every stream ends, and its task with it, whether or not the client stays.
StreamEnds == (generator = "starting") ~> (generator = "ended" /\ work.state = "ended")
=============================================================================
