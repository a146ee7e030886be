----------------------- MODULE InvestigationLifecycle -----------------------
(***************************************************************************)
(* One investigation row, from the commit of create_investigation to the   *)
(* end of every process that may write it: the request that dispatches it, *)
(* the runner (inline, background thread or Celery worker), the requests   *)
(* whose page view calls expire_stale, uploads of the same file to the     *)
(* endpoint of the other media type, and the owner who deletes it.         *)
(*                                                                         *)
(* Every process has a database session of its own.  SessionLocal has      *)
(* expire_on_commit=False, so a session keeps the column values it loaded, *)
(* and a commit writes only the columns whose assigned value differs from  *)
(* the loaded one.  Flush models that; it is what decides whether a stale  *)
(* session overwrites another one's status.                                *)
(*                                                                         *)
(* Time is kept as saturating ages, so no bound on the length of a         *)
(* behaviour is needed.  MaxDeliveries bounds how often the broker         *)
(* redelivers the task.                                                    *)
(***************************************************************************)
EXTENDS Naturals, Sequences, FiniteSets

CONSTANTS Executors,      \* where this investigation may be run: see dispatch
          Sweepers,       \* requests that call expire_stale
          Misrouters,     \* uploads of the same bytes to the other /analyze route
          StaleAfter,     \* INVESTIGATION_STALE_MINUTES
          QueueTimeout,   \* INVESTIGATION_QUEUE_TIMEOUT_MINUTES
          TimeLimit,      \* time_limit of the Celery task
          MaySkip,        \* the stages this input may skip, see Skippable
          MaxDeliveries   \* bound: runs the broker starts for one task

\* Stages whose body may raise StageSkipped: EXTRACTION (a bare URL, a file
\* without text), FEATURE_EXTRACTION (no link), EVIDENCE_RETRIEVAL (no claim,
\* no evidence), CROSS_MODAL_ANALYSIS (a single engine with signals).
Skippable == {3, 5, 7, 8}

ASSUME ConstantsAssumption ==
  /\ Executors \subseteq {"inline", "background", "celery"}
  /\ Executors # {}
  /\ Sweepers \cap Misrouters = {}
  /\ StaleAfter \in Nat /\ QueueTimeout \in Nat /\ TimeLimit \in Nat
  /\ MaySkip \subseteq Skippable
  /\ MaxDeliveries \in Nat \ {0}

Stages == << "VALIDATION", "HASHING", "EXTRACTION", "CLASSIFICATION",
             "FEATURE_EXTRACTION", "MODEL_ANALYSIS", "EVIDENCE_RETRIEVAL",
             "CROSS_MODAL_ANALYSIS", "RISK_ENGINE", "EXPLANATION", "REPORT",
             "STORAGE" >>
LastStage == 12
STORAGE == 12

STAGE_STATUS ==
  [s \in 1..LastStage |->
     IF s \in 1..4 THEN "PROCESSING"
     ELSE IF s \in {5, 6, 8} THEN "ANALYZING"
     ELSE IF s = 7 THEN "COLLECTING_EVIDENCE"
     ELSE "CALCULATING_RISK"]

Running == {"PROCESSING", "ANALYZING", "COLLECTING_EVIDENCE", "CALCULATING_RISK"}
Terminal == {"COMPLETED", "FAILED"}
Statuses == {"QUEUED"} \cup Running \cup Terminal

\* current_stage is a position in Stages, 0 for NULL; result and scored (the
\* columns risk_score, risk_level, confidence and classification) hold the
\* number of the attempt that wrote them, 0 for NULL.
Errors == {"none", "stopped", "neverStarted", "pipeline", "unavailable", "wrongType"}
Attempts == 0..MaxDeliveries
Rows == [status : Statuses, current_stage : 0..LastStage, error : Errors,
         result : Attempts, scored : Attempts]

NewRow == [status |-> "QUEUED", current_stage |-> 0, error |-> "none",
           result |-> 0, scored |-> 0]

VARIABLES
  row, present,     \* the row of the investigations table
  events,           \* its investigation_events, in order of insertion
  stored,           \* attempts whose risk factors, predictions, claims are stored
  executor,         \* INVESTIGATION_EXECUTOR, or "inline" on the /analyze routes
  request,          \* what the submitting request has done: see Dispatch
  task,             \* the task: "none", "queued" or "held" by a runner
  deliveries,       \* how many runners have started it
  runner,           \* the runner: pc, stage, seq and its session's copy of row
  loaded,           \* rows other requests hold between their read and commit
  age               \* time since creation, since started_at, since the runner began

vars == <<row, present, events, stored, executor, request, task, deliveries,
          runner, loaded, age>>

Requests == Sweepers \cup Misrouters
Idle == [pc |-> "idle", stage |-> 1, seq |-> 0, mem |-> NewRow]
NotLoaded == [NewRow EXCEPT !.error = "unavailable"]    \* not a row in a session

(***************************************************************************)
(* The UPDATE a commit emits.  db is the stored row, mem the row as the    *)
(* session loaded it, new the row with the session's assignments.          *)
(***************************************************************************)
Column(db, mem, new) == IF new = mem THEN db ELSE new
Flush(db, mem, new) ==
  [status        |-> Column(db.status, mem.status, new.status),
   current_stage |-> Column(db.current_stage, mem.current_stage, new.current_stage),
   error         |-> Column(db.error, mem.error, new.error),
   result        |-> Column(db.result, mem.result, new.result),
   scored        |-> Column(db.scored, mem.scored, new.scored)]

\* What the code assigns to the row.
Refused(mem, error) == [mem EXCEPT !.status = "FAILED", !.error = error]
Stopped(mem, error) == [mem EXCEPT !.status = "FAILED", !.current_stage = 0, !.error = error]
InStage(mem, s)     == [mem EXCEPT !.status = STAGE_STATUS[s], !.current_stage = s]
Resulted(mem, a)    == [mem EXCEPT !.result = a]
Scored(mem, a)      == [mem EXCEPT !.result = a, !.scored = a]
Finished(mem)       == [mem EXCEPT !.status = "COMPLETED", !.current_stage = 0]

\* The runner moves on with mem in its session.
RunnerAt(pc, mem) == [runner EXCEPT !.pc = pc, !.mem = mem]

Init ==
  /\ row = NewRow /\ present = TRUE
  /\ events = <<>> /\ stored = {}
  /\ executor \in Executors
  /\ request = "created" /\ task = "none" /\ deliveries = 0
  /\ runner = Idle
  /\ loaded = [r \in Requests |-> NotLoaded]
  /\ age = [created |-> 0, started |-> 0, run |-> 0]

InProcess == executor \in {"inline", "background"}

-----------------------------------------------------------------------------
(* The submitting request: dispatch and _dispatch_or_fail.                 *)

\* The task reaches its executor.
Dispatch ==
  /\ request = "created"
  /\ request' = "dispatched" /\ task' = "queued"
  /\ UNCHANGED <<row, present, events, stored, executor, deliveries, runner, loaded, age>>

\* The broker does not answer, or delay() raises; in the latter case the
\* message may have been published before the exception.
DispatchRaises ==
  /\ request = "created" /\ executor = "celery"
  /\ request' = "refusing" /\ task' \in {"none", "queued"}
  /\ UNCHANGED <<row, present, events, stored, executor, deliveries, runner, loaded, age>>

\* _analyze_file_inline: the upload that created the row went to the route
\* of the other media type.
RejectType ==
  /\ request = "created" /\ executor = "inline"
  /\ request' = "refused"
  /\ IF present
     THEN row' = Flush(row, NewRow, Refused(NewRow, "wrongType"))
     ELSE UNCHANGED row
  /\ UNCHANGED <<present, events, stored, executor, task, deliveries, runner, loaded, age>>

\* _dispatch_or_fail records the refusal through the session that created
\* the row.  A row deleted meanwhile makes the commit raise.
RecordRefusal ==
  /\ request = "refusing" /\ request' = "refused"
  /\ IF present
     THEN row' = Flush(row, NewRow, Refused(NewRow, "unavailable"))
     ELSE UNCHANGED row
  /\ UNCHANGED <<present, events, stored, executor, task, deliveries, runner, loaded, age>>

-----------------------------------------------------------------------------
(* InvestigationRunner.run                                                 *)

\* Mutant of Begin: no check that the row is terminal.
BeginAlways ==
  /\ task = "queued" /\ runner.pc = "idle" /\ present /\ deliveries < MaxDeliveries
  /\ task' = "held" /\ deliveries' = deliveries + 1
  /\ runner' = [pc |-> "begun", stage |-> 1, seq |-> 0, mem |-> row]
  /\ age' = [age EXCEPT !.run = 0]
  /\ UNCHANGED <<row, present, events, stored, executor, request, loaded>>

\* A runner takes the task and loads the row; a missing or terminal row
\* ends the task at once.
Begin ==
  /\ task = "queued" /\ runner.pc = "idle"
  /\ IF present /\ row.status \notin Terminal
     THEN /\ deliveries < MaxDeliveries
          /\ task' = "held" /\ deliveries' = deliveries + 1
          /\ runner' = [pc |-> "begun", stage |-> 1, seq |-> 0, mem |-> row]
          /\ age' = [age EXCEPT !.run = 0]
     ELSE task' = "none" /\ UNCHANGED <<deliveries, runner, age>>
  /\ UNCHANGED <<row, present, events, stored, executor, request, loaded>>

\* Mutants of ClearPartialAttempt: the earlier attempt's rows stay, all of
\* them or those of STORAGE.
ClearNothing ==
  /\ runner.pc = "begun" /\ runner' = [runner EXCEPT !.pc = "enter"]
  /\ UNCHANGED <<row, present, events, stored, executor, request, task, deliveries, loaded, age>>
ClearEventsOnly ==
  /\ runner.pc = "begun" /\ events' = <<>>
  /\ runner' = [runner EXCEPT !.pc = "enter"]
  /\ UNCHANGED <<row, present, stored, executor, request, task, deliveries, loaded, age>>

\* _clear_partial_attempt: nothing to do unless an earlier attempt left
\* events; otherwise drop its rows, reset result, and refresh the session.
ClearPartialAttempt ==
  /\ runner.pc = "begun"
  /\ IF events = <<>>
     THEN /\ runner' = [runner EXCEPT !.pc = "enter"]
          /\ UNCHANGED <<row, events, stored>>
     ELSE /\ events' = <<>> /\ stored' = {}
          /\ row' = Flush(row, runner.mem, Resulted(runner.mem, 0))
          /\ runner' = RunnerAt("enter", row')
  /\ UNCHANGED <<present, executor, request, task, deliveries, loaded, age>>

\* Mutant of EnterStage: commits only when the status changes.
EnterStageOnNewStatus ==
  /\ runner.pc = "enter" /\ present
  /\ LET new == InStage(runner.mem, runner.stage)
     IN /\ row' = IF new.status = runner.mem.status THEN row ELSE Flush(row, runner.mem, new)
        /\ runner' = RunnerAt("work", new)
  /\ UNCHANGED <<present, events, stored, executor, request, task, deliveries, loaded, age>>

\* EventRecorder.stage, up to the yield: status and current_stage are
\* committed (with started_at, at the first stage).
EnterStage ==
  /\ runner.pc = "enter"
  /\ IF present
     THEN /\ row' = Flush(row, runner.mem, InStage(runner.mem, runner.stage))
          /\ runner' = RunnerAt("work", InStage(runner.mem, runner.stage))
          /\ age' = [age EXCEPT !.started = IF runner.stage = 1 THEN 0 ELSE @]
     ELSE /\ runner' = [runner EXCEPT !.pc = "returning"]
          /\ UNCHANGED <<row, age>>
  /\ UNCHANGED <<present, events, stored, executor, request, task, deliveries, loaded>>

Event(outcome) == [seq |-> runner.seq + 1, stage |-> runner.stage, status |-> outcome]

NextStage ==
  IF runner.stage = LastStage
  THEN [runner EXCEPT !.pc = "finish", !.seq = @ + 1]
  ELSE [runner EXCEPT !.pc = "enter", !.seq = @ + 1, !.stage = @ + 1]

\* The stage body ends, or raises StageSkipped: the event is committed.
EndStage(outcome) ==
  /\ runner.pc = "work" /\ present /\ runner.stage # STORAGE
  /\ outcome = "completed" \/ (outcome = "skipped" /\ runner.stage \in MaySkip)
  /\ events' = Append(events, Event(outcome))
  /\ runner' = NextStage
  /\ UNCHANGED <<row, present, stored, executor, request, task, deliveries, loaded, age>>

\* STORAGE ends: factors, predictions, claims, the result, the summary
\* columns and the event go to the database in one commit.
Store ==
  /\ runner.pc = "work" /\ present /\ runner.stage = STORAGE
  /\ events' = Append(events, Event("completed"))
  /\ stored' = stored \cup {deliveries}
  /\ row' = Flush(row, runner.mem, Scored(runner.mem, deliveries))
  /\ runner' = [NextStage EXCEPT !.mem = Scored(runner.mem, deliveries)]
  /\ UNCHANGED <<present, executor, request, task, deliveries, loaded, age>>

\* Mutant of FailStage: the exception is not raised again.
FailStageSwallowed ==
  /\ runner.pc = "work" /\ present
  /\ events' = Append(events, Event("failed"))
  /\ runner' = NextStage
  /\ UNCHANGED <<row, present, stored, executor, request, task, deliveries, loaded, age>>

\* The stage body raises.  The finally clause still commits the event and,
\* in STORAGE, what was assigned before the exception: the rows, and the
\* result, with or without the summary columns, when it is Celery's soft time
\* limit that interrupts the last lines.
FailStage ==
  /\ runner.pc = "work" /\ present
  /\ events' = Append(events, Event("failed"))
  /\ \/ UNCHANGED <<row, stored>>
     \/ /\ runner.stage = STORAGE
        /\ stored' = stored \cup {deliveries}
        /\ \/ UNCHANGED row
           \/ /\ executor = "celery"
              /\ \E new \in {Resulted(runner.mem, deliveries), Scored(runner.mem, deliveries)} :
                   row' = Flush(row, runner.mem, new)
  /\ runner' = [runner EXCEPT !.pc = "abort"]
  /\ UNCHANGED <<present, executor, request, task, deliveries, loaded, age>>

\* A commit before or after a stage body raises (the database is away, the
\* investigation was deleted): nothing of the stage is stored.
LoseStage ==
  /\ runner.pc \in {"enter", "work"}
  /\ runner' = [runner EXCEPT !.pc = "abort"]
  /\ UNCHANGED <<row, present, events, stored, executor, request, task, deliveries, loaded, age>>

\* Mutant of Abort: the failed run is recorded as finished.
AbortCompletes ==
  /\ runner.pc = "abort"
  /\ \/ /\ present
        /\ row' = Finished(row)
     \/ UNCHANGED row
  /\ runner' = [runner EXCEPT !.pc = "returning"]
  /\ UNCHANGED <<present, events, stored, executor, request, task, deliveries, loaded, age>>

\* _run's except clause: roll back, load the row again, record the failure.
\* This commit may raise too.
Abort ==
  /\ runner.pc = "abort"
  /\ \/ /\ present
        /\ row' = Stopped(row, "pipeline")
     \/ UNCHANGED row
  /\ runner' = [runner EXCEPT !.pc = "returning"]
  /\ UNCHANGED <<present, events, stored, executor, request, task, deliveries, loaded, age>>

\* _run's last commit.  It may raise outside every handler.
Complete ==
  /\ runner.pc = "finish"
  /\ \/ /\ present
        /\ row' = Flush(row, runner.mem, Finished(runner.mem))
     \/ UNCHANGED row
  /\ runner' = [runner EXCEPT !.pc = "returning"]
  /\ UNCHANGED <<present, events, stored, executor, request, task, deliveries, loaded, age>>

\* The task function returns; only now does a Celery worker acknowledge it.
Return ==
  /\ runner.pc = "returning"
  /\ runner' = Idle /\ task' = "none"
  /\ UNCHANGED <<row, present, events, stored, executor, request, deliveries, loaded, age>>

-----------------------------------------------------------------------------
(* What interrupts a runner.                                               *)

\* A Celery worker process dies; task_acks_late and
\* task_reject_on_worker_lost put the message back.
WorkerLost ==
  /\ executor = "celery" /\ runner.pc # "idle"
  /\ deliveries < MaxDeliveries
  /\ runner' = Idle /\ task' = "queued"
  /\ UNCHANGED <<row, present, events, stored, executor, request, deliveries, loaded, age>>

\* The hard time limit kills the worker and acknowledges the message.
TimeLimitHit ==
  /\ executor = "celery" /\ runner.pc # "idle" /\ age.run = TimeLimit
  /\ runner' = Idle /\ task' = "none"
  /\ UNCHANGED <<row, present, events, stored, executor, request, deliveries, loaded, age>>

\* The API process restarts: its background tasks and open requests are gone.
\* Celery's message survives, an undispatched row does not get one.
ApiRestart ==
  /\ request' = IF request \in {"created", "refusing"} THEN "died" ELSE request
  /\ IF InProcess THEN runner' = Idle /\ task' = "none"
                  ELSE UNCHANGED <<runner, task>>
  /\ loaded' = [r \in Requests |-> NotLoaded]
  /\ UNCHANGED <<row, present, events, stored, executor, deliveries, age>>

-----------------------------------------------------------------------------
(* Other requests on the same row.                                         *)

\* Mutant of Stale: QUEUED rows never time out.
StaleRunningOnly == row.status \in Running /\ age.started > StaleAfter

Stale ==
  \/ row.status \in Running /\ age.started > StaleAfter
  \/ row.status = "QUEUED" /\ age.created > QueueTimeout

\* expire_stale selects the row ...
SweepSelect(s) ==
  /\ loaded[s] = NotLoaded /\ present /\ Stale
  /\ loaded' = [loaded EXCEPT ![s] = row]
  /\ UNCHANGED <<row, present, events, stored, executor, request, task, deliveries, runner, age>>

\* ... and fails it, whatever happened to it since.
SweepCommit(s) ==
  /\ loaded[s] # NotLoaded
  /\ loaded' = [loaded EXCEPT ![s] = NotLoaded]
  /\ IF present
     THEN row' = Flush(row, loaded[s],
                       Stopped(loaded[s], IF loaded[s].status = "QUEUED"
                                          THEN "neverStarted" ELSE "stopped"))
     ELSE UNCHANGED row
  /\ UNCHANGED <<present, events, stored, executor, request, task, deliveries, runner, age>>

\* Mutant of MisrouteSelect: recent_duplicate returns failed runs too.
MisrouteSelectAny(m) ==
  /\ loaded[m] = NotLoaded /\ present /\ age.created = 0
  /\ loaded' = [loaded EXCEPT ![m] = row]
  /\ UNCHANGED <<row, present, events, stored, executor, request, task, deliveries, runner, age>>

\* The same bytes are uploaded to the /analyze route of the other media type
\* within the duplicate window: recent_duplicate returns this investigation ...
MisrouteSelect(m) ==
  /\ loaded[m] = NotLoaded /\ present /\ age.created = 0 /\ row.status # "FAILED"
  /\ loaded' = [loaded EXCEPT ![m] = row]
  /\ UNCHANGED <<row, present, events, stored, executor, request, task, deliveries, runner, age>>

\* ... and _analyze_file_inline fails it for being of the wrong type.
MisrouteCommit(m) ==
  /\ loaded[m] # NotLoaded
  /\ loaded' = [loaded EXCEPT ![m] = NotLoaded]
  /\ IF present
     THEN row' = Flush(row, loaded[m], Refused(loaded[m], "wrongType"))
     ELSE UNCHANGED row
  /\ UNCHANGED <<present, events, stored, executor, request, task, deliveries, runner, age>>

\* Mutant of Delete: the timeline is not cascaded.
DeleteRowOnly ==
  /\ present /\ present' = FALSE /\ stored' = {}
  /\ UNCHANGED <<row, events, executor, request, task, deliveries, runner, loaded, age>>

\* The owner deletes it; the foreign keys cascade.
Delete ==
  /\ present /\ present' = FALSE
  /\ events' = <<>> /\ stored' = {}
  /\ UNCHANGED <<row, executor, request, task, deliveries, runner, loaded, age>>

\* One unit of time.  A Celery run cannot outlive its hard limit.
Older(a, limit) == IF a > limit THEN a ELSE a + 1
Tick ==
  /\ executor = "celery" /\ runner.pc # "idle" => age.run < TimeLimit
  /\ age' = [created |-> Older(age.created, QueueTimeout),
             started |-> Older(age.started, StaleAfter),
             run     |-> IF age.run < TimeLimit THEN age.run + 1 ELSE age.run]
  /\ UNCHANGED <<row, present, events, stored, executor, request, task, deliveries, runner, loaded>>

-----------------------------------------------------------------------------
RunnerStep ==
  \/ Begin \/ ClearPartialAttempt \/ EnterStage
  \/ \E outcome \in {"completed", "skipped"} : EndStage(outcome)
  \/ Store \/ FailStage \/ LoseStage \/ Abort \/ Complete \/ Return

Next ==
  \/ Dispatch \/ DispatchRaises \/ RejectType \/ RecordRefusal
  \/ RunnerStep
  \/ WorkerLost \/ TimeLimitHit \/ ApiRestart
  \/ \E s \in Sweepers : SweepSelect(s) \/ SweepCommit(s)
  \/ \E m \in Misrouters : MisrouteSelect(m) \/ MisrouteCommit(m)
  \/ Delete \/ Tick

Spec == Init /\ [][Next]_vars

(***************************************************************************)
(* Fairness: time passes, a started runner keeps executing, and the result *)
(* page keeps polling (find calls expire_stale on every view of a row that *)
(* is not terminal).  SweepCommit is strongly fair because a page view     *)
(* takes milliseconds: restarts do not cut off every one of them.  Nothing *)
(* obliges a worker to take the task, the broker to answer, or a process   *)
(* to survive.                                                             *)
(***************************************************************************)
Fairness ==
  /\ WF_vars(Tick)
  /\ WF_vars(runner.pc # "idle" /\ RunnerStep)
  /\ WF_vars(TimeLimitHit)
  /\ \A s \in Sweepers : WF_vars(SweepSelect(s)) /\ SF_vars(SweepCommit(s))
  /\ \A m \in Misrouters : WF_vars(MisrouteCommit(m))
  /\ WF_vars(RecordRefusal)

FairSpec == Spec /\ Fairness

-----------------------------------------------------------------------------
(* Safety.                                                                 *)

Outcomes == {"completed", "skipped", "failed"}
PCs == {"idle", "begun", "enter", "work", "abort", "finish", "returning"}
RunnerType == [pc : PCs, stage : 1..LastStage, seq : 0..LastStage, mem : Rows]
EventType == [seq : 1..LastStage, stage : 1..LastStage, status : Outcomes]

\* Every variable keeps the shape the code gives it.
TypeOK ==
  /\ row \in Rows /\ present \in BOOLEAN
  /\ events \in Seq(EventType)
  /\ stored \subseteq 1..MaxDeliveries
  /\ executor \in Executors
  /\ request \in {"created", "dispatched", "refusing", "refused", "died"}
  /\ task \in {"none", "queued", "held"}
  /\ deliveries \in Attempts
  /\ runner \in RunnerType
  /\ loaded \in [Requests -> Rows]
  /\ age \in [created : 0..QueueTimeout + 1, started : 0..StaleAfter + 1, run : 0..TimeLimit]

\* The timeline a reader sees is one attempt's: the stages in pipeline order,
\* one entry each, nothing after a failed one (EventRecorder.stage and
\* _clear_partial_attempt, across redeliveries of the task).
TimelineInOrder ==
  \A i \in 1..Len(events) :
    /\ events[i].seq = i /\ events[i].stage = i
    /\ events[i].status = "failed" => i = Len(events)

\* COMPLETED means a whole record: all stages, none failed, and a result,
\* summary columns and artefacts of one and the same attempt (_run, STORAGE).
CompletedIsWhole ==
  present /\ row.status = "COMPLETED" =>
    /\ Len(events) = LastStage
    /\ \A i \in 1..LastStage : events[i].status # "failed"
    /\ row.result # 0 /\ row.scored = row.result
    /\ stored = {row.result}

\* Risk factors, predictions and claims are stored once, by the attempt whose
\* result the row shows: the duplicates _clear_partial_attempt is there for.
ArtefactsMatchResult ==
  /\ Cardinality(stored) <= 1
  /\ present /\ row.result # 0 => stored = {row.result}

\* Where no task is redelivered: while the row shows a running status, a viewer
\* is told the stage the runner is really in ("where is it now",
\* models.Investigation), even when sweeps and misrouted uploads wrote to the
\* row in between.
ProgressIsLive ==
  executor # "celery" /\ present /\ runner.pc = "work" /\ row.status \in Running =>
    row.current_stage = runner.stage /\ row.status = STAGE_STATUS[runner.stage]

\* A COMPLETED record keeps its timeline, result and artefacts until it is
\* deleted, whatever a second delivery, a sweep or a misrouted upload does to
\* the status.
CompletedRecordKept ==
  [][present /\ row.status = "COMPLETED" =>
       \/ ~present'
       \/ events' = events /\ stored' = stored /\ row'.result = row.result]_vars

\* The run failed and nobody is still working on it: no runner, no request
\* between its read and its commit, the submitting request done.  The task
\* may still be in the queue.
SettledFailure ==
  /\ present /\ row.status = "FAILED"
  /\ runner.pc = "idle" /\ request \notin {"created", "refusing"}
  /\ \A r \in Requests : loaded[r] = NotLoaded

\* "A failed run is never picked up later" (settings.py): from then on neither
\* the queued task nor another request changes it.
FailureIsFinal ==
  [][SettledFailure => ~present' \/ (SettledFailure' /\ row' = row /\ events' = events)]_vars

\* What a reader of the record sees of Timeline's variables.
Log       == [i \in 1..Len(events) |-> events[i].status]
Published == present /\ row.result # 0
Sealed    == present /\ row.status = "COMPLETED"

TL == INSTANCE Timeline WITH log <- Log, published <- Published, sealed <- Sealed,
                             deleted <- ~present

\* What the writers of one investigation do together is a Timeline: the
\* result appears with the last entry, only a whole record is sealed, and a
\* sealed one is never discarded.
ImplementsTimeline == TL!Spec

(***************************************************************************)
(* The inductive invariant behind these properties: where the runner is    *)
(* says how much of the timeline and of the result is stored, and which    *)
(* attempts may have written the summary columns.                          *)
(***************************************************************************)
NoFailure == \A i \in 1..Len(events) : events[i].status # "failed"

RunnerPlaced ==
  /\ runner.pc = "begun" => runner.stage = 1 /\ runner.seq = 0
  /\ runner.pc \in {"enter", "work"} => runner.seq = runner.stage - 1
  /\ runner.pc = "finish" => runner.stage = LastStage /\ runner.seq = LastStage
  /\ present /\ runner.pc \in {"enter", "work", "finish"} => Len(events) = runner.seq /\ NoFailure

AttemptsNumbered ==
  /\ row.scored <= deliveries
  /\ runner.pc # "idle" => deliveries > 0
  /\ runner.pc \in {"begun", "enter", "work"} =>
       row.scored < deliveries /\ runner.mem.scored < deliveries

ResultOfAttempt ==
  /\ runner.pc = "begun" => runner.mem.result = row.result
  /\ present /\ runner.pc \in {"enter", "work"} =>
       row.result = 0 /\ runner.mem.result = 0 /\ stored = {}
  /\ present /\ runner.pc = "finish" =>
       row.result = deliveries /\ row.scored = deliveries /\ stored = {deliveries}

ResultBacked ==
  /\ events = <<>> => stored = {}
  /\ present /\ events = <<>> => row.result = 0
  /\ present /\ row.result # 0 => stored = {row.result}
  /\ stored = {} \/ \E a \in Attempts : stored = {a}

DeletedIsEmpty == ~present => events = <<>>

UnfinishedRun == runner.pc \notin {"idle", "returning"} => row.status # "COMPLETED"

IInv ==
  /\ TimelineInOrder /\ RunnerPlaced /\ AttemptsNumbered /\ ResultOfAttempt
  /\ ResultBacked /\ DeletedIsEmpty /\ UnfinishedRun /\ CompletedIsWhole

-----------------------------------------------------------------------------
(* Liveness.                                                               *)

\* No investigation is polled forever: it ends COMPLETED or FAILED, or is
\* deleted, whatever died on the way (expire_stale's docstring).
EventuallySettled == <>[](~present \/ row.status \in Terminal)

-----------------------------------------------------------------------------
(* What docs and comments say and the code does not do.                    *)

\* models.Investigation: summary columns are duplicated out of result.  Asked
\* of a run that is over: terminal, no task, no runner.
SummaryMatchesResult ==
  present /\ row.status \in Terminal /\ task = "none" /\ runner.pc = "idle" =>
    row.scored = row.result
=============================================================================
