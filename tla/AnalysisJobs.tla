---------------------------- MODULE AnalysisJobs ----------------------------
(***************************************************************************)
(* One queued analysis of the 1.x API: POST /analyze with async_mode, the  *)
(* message to the Celery worker, the task, its retries, redelivery when a  *)
(* worker is lost, and the row GET /reports/{id} is answered from.         *)
(*                                                                         *)
(* jobFaults says what may go wrong besides lost workers: "database" (a    *)
(* commit of the worker fails), "limit" (the hard time limit, which        *)
(* acknowledges the message), "broker" (it stops after the cached probe).  *)
(* MaxRuns bounds how often the task is run.                               *)
(***************************************************************************)
EXTENDS Naturals

CONSTANTS MaxRuns,      \* bound: runs of the task
          MaxRetries    \* max_retries of analyze_task

ASSUME JobsAssumption == MaxRuns \in Nat /\ MaxRetries \in Nat

VARIABLES
  jobFaults,  \* what may fail; never changes
  asking,     \* the request: sent, probed, row committed, answered, refused
  report,     \* the reports row: status, and which run's result its payload is
  evidence,   \* the runs whose evidence rows the report has
  message,    \* the task's message: none, queued, taken by a worker, gone
  task        \* the worker's run: its step, its number, the retries before it

jobVars == <<jobFaults, asking, report, evidence, message, task>>

Faults == {"database", "limit", "broker"}
NoTask == [pc |-> "none", run |-> 0, retries |-> 0]

JobsTypeOK ==
  /\ jobFaults \subseteq Faults
  /\ asking \in {"sent", "probed", "inserted", "answered", "refused", "error"}
  /\ report \in [status : {"none", "queued", "complete", "failed"}, of : 0..MaxRuns]
  /\ evidence \subseteq 1..MaxRuns
  /\ message \in {"none", "queued", "taken", "gone"}
  /\ task \in [pc : {"none", "analysing", "persisting", "marking", "raising", "done"},
               run : 0..MaxRuns, retries : 0..MaxRetries]

JobsStart(f) ==
  /\ jobFaults = f
  /\ asking = "sent" /\ report = [status |-> "none", of |-> 0] /\ evidence = {}
  /\ message = "none" /\ task = NoTask
JobsInit == \E f \in SUBSET Faults : JobsStart(f)

TaskTo(pc) == task' = [task EXCEPT !.pc = pc]
Fails(f) == f \in jobFaults

-----------------------------------------------------------------------------
(* enqueue.                                                                *)

AskBroker ==
  /\ asking = "sent" /\ asking' \in {"probed", "refused"}
  /\ UNCHANGED <<jobFaults, report, evidence, message, task>>

InsertReport ==
  /\ asking = "probed" /\ asking' = "inserted"
  /\ report' = [report EXCEPT !.status = "queued"]
  /\ UNCHANGED <<jobFaults, evidence, message, task>>

\* analyze_task.delay: the message is taken, or the call raises and the
\* request ends in an error, with the row left as it is.
Delay ==
  /\ asking = "inserted"
  /\ \/ asking' = "answered" /\ message' = "queued"
     \/ Fails("broker") /\ asking' = "error" /\ UNCHANGED message
  /\ UNCHANGED <<jobFaults, report, evidence, task>>

-----------------------------------------------------------------------------
(* analyze_task.                                                           *)

\* Mutant of TakeMessage: acknowledged on receipt.
TakeMessageEarly ==
  /\ message = "queued" /\ task.pc = "none" /\ task.run < MaxRuns
  /\ message' = "gone"
  /\ task' = [task EXCEPT !.pc = "analysing", !.run = @ + 1]
  /\ UNCHANGED <<jobFaults, asking, report, evidence>>

\* A worker takes the message; acks_late keeps it at the broker.
TakeMessage ==
  /\ message = "queued" /\ task.pc = "none" /\ task.run < MaxRuns
  /\ message' = "taken"
  /\ task' = [task EXCEPT !.pc = "analysing", !.run = @ + 1]
  /\ UNCHANGED <<jobFaults, asking, report, evidence>>

\* The pipeline returns a report, that of a failed analysis too.  The last run
\* the bound allows is not interrupted.
Analysed ==
  /\ task.pc = "analysing" /\ TaskTo("persisting")
  /\ UNCHANGED <<jobFaults, asking, report, evidence, message>>

\* An exception outside the pipeline: the soft time limit, no connection.
Interrupted ==
  /\ task.pc = "analysing" /\ task.run < MaxRuns /\ TaskTo("marking")
  /\ UNCHANGED <<jobFaults, asking, report, evidence, message>>

\* _persist: row and evidence rows in one commit; a failure is logged, and the
\* task ends as if it had succeeded.
Persist ==
  /\ task.pc = "persisting"
  /\ \/ report' = [status |-> "complete", of |-> task.run] /\ evidence' = {task.run}
     \/ Fails("database") /\ UNCHANGED <<report, evidence>>
  /\ TaskTo("done")
  /\ UNCHANGED <<jobFaults, asking, message>>

\* Mutant of MarkFailed: the failure is only logged.
MarkNothing ==
  /\ task.pc = "marking" /\ TaskTo("raising")
  /\ UNCHANGED <<jobFaults, asking, report, evidence, message>>

\* The except branch: the failure is recorded on the row, then raised again.
MarkFailed ==
  /\ task.pc = "marking"
  /\ \/ report' = [report EXCEPT !.status = "failed"]
     \/ Fails("database") /\ UNCHANGED report
  /\ TaskTo("raising")
  /\ UNCHANGED <<jobFaults, asking, evidence, message>>

\* autoretry_for: a connection error or timeout is retried max_retries times;
\* any other exception ends the task.
RaiseForRetry ==
  /\ task.pc = "raising"
  /\ \/ /\ task.retries < MaxRetries
        /\ message' = "queued"
        /\ task' = [task EXCEPT !.pc = "none", !.retries = @ + 1]
     \/ message' = "gone" /\ TaskTo("none")
  /\ UNCHANGED <<jobFaults, asking, report, evidence>>

\* The task has returned, and the message is acknowledged.
Acknowledge ==
  /\ task.pc = "done" /\ message' = "gone" /\ TaskTo("none")
  /\ UNCHANGED <<jobFaults, asking, report, evidence>>

\* The worker process is lost: reject_on_worker_lost puts the message back.
LoseWorker ==
  /\ task.pc # "none" /\ task.run < MaxRuns
  /\ message' = IF message = "taken" THEN "queued" ELSE message
  /\ TaskTo("none")
  /\ UNCHANGED <<jobFaults, asking, report, evidence>>

\* The hard time limit: the process is killed and the message acknowledged.
HardLimit ==
  /\ Fails("limit") /\ task.pc # "none"
  /\ message' = "gone" /\ TaskTo("none")
  /\ UNCHANGED <<jobFaults, asking, report, evidence>>

TaskStep ==
  TakeMessage \/ Analysed \/ Persist \/ MarkFailed \/ RaiseForRetry \/ Acknowledge

JobsNext ==
  \/ AskBroker \/ InsertReport \/ Delay
  \/ TakeMessage \/ Analysed \/ Interrupted \/ Persist \/ MarkFailed \/ RaiseForRetry \/ Acknowledge
  \/ LoseWorker \/ HardLimit

JobsSpec == JobsInit /\ [][JobsNext]_jobVars

-----------------------------------------------------------------------------
(* Properties.                                                             *)

\* "Replace rather than append": a complete report has the evidence of the run
\* its payload is of, and of no other, however often the task was run again.
EvidenceOfItsRun == report.status = "complete" => evidence = {report.of}

\* "A worker killed mid-job returns the message to the queue": while the
\* database and the limit hold, an id the caller was given is that of a row
\* that is settled or whose message is still there.
AcceptedNotLost ==
  asking = "answered" /\ jobFaults \cap {"database", "limit"} = {} =>
    report.status \in {"complete", "failed"} \/ message \in {"queued", "taken"}

\* The two of them, over the shapes of the variables.
JobsInvariant == JobsTypeOK /\ EvidenceOfItsRun /\ AcceptedNotLost

\* So "the UI can stop polling": with the same premises such a row is settled
\* in the end, although workers are lost.
JobSettles ==
  (asking = "answered" /\ jobFaults \cap {"database", "limit"} = {}) ~>
    report.status \in {"complete", "failed"}
=============================================================================
