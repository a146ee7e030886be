-------------------- MODULE InvestigationLifecycleProofs --------------------
(***************************************************************************)
(* Proofs about InvestigationLifecycle for every value of its constants:   *)
(* any set of executors, any number of page views and misrouted uploads,   *)
(* any timeouts and any number of redeliveries.                            *)
(***************************************************************************)
EXTENDS InvestigationLifecycle, FiniteSetTheorems, SequenceTheorems, TLAPS

-----------------------------------------------------------------------------
(* Lemmas on the operators.                                                *)

\* A commit stores, in every column, what was stored or what was assigned.
LEMMA FlushType ==
  ASSUME NEW db \in Rows, NEW mem \in Rows, NEW new \in Rows
  PROVE  Flush(db, mem, new) \in Rows
BY DEF Flush, Column, Rows

\* NewRow is a row of the table.
LEMMA NewRowType == NewRow \in Rows
BY ConstantsAssumption DEF NewRow, Rows, Statuses, Errors, Attempts, LastStage

\* Every stage shows a running status.
LEMMA StageStatusType ==
  ASSUME NEW s \in 1..LastStage
  PROVE  STAGE_STATUS[s] \in Running
BY DEF STAGE_STATUS, Running

\* What the code assigns is a row again, and no assignment of another
\* request touches the result columns.
LEMMA AssignType ==
  ASSUME NEW mem \in Rows, NEW er \in Errors, NEW s \in 1..LastStage, NEW a \in Attempts
  PROVE  /\ Refused(mem, er) \in Rows /\ Stopped(mem, er) \in Rows
         /\ InStage(mem, s) \in Rows /\ Resulted(mem, a) \in Rows /\ Scored(mem, a) \in Rows /\ Finished(mem) \in Rows
<1>0. /\ "FAILED" \in Statuses /\ "COMPLETED" \in Statuses /\ STAGE_STATUS[s] \in Statuses
      /\ s \in 0..LastStage /\ 0 \in 0..LastStage
  BY StageStatusType DEF Statuses, Terminal, LastStage
<1>1. ASSUME NEW m \in Rows, NEW st \in Statuses PROVE [m EXCEPT !.status = st] \in Rows
  BY DEF Rows
<1>2. ASSUME NEW m \in Rows, NEW cs \in 0..LastStage PROVE [m EXCEPT !.current_stage = cs] \in Rows
  BY DEF Rows
<1>3. ASSUME NEW m \in Rows PROVE [m EXCEPT !.error = er] \in Rows
  BY DEF Rows
<1>4. ASSUME NEW m \in Rows PROVE [m EXCEPT !.result = a] \in Rows /\ [m EXCEPT !.scored = a] \in Rows
  BY DEF Rows
<1> DEFINE failed == [mem EXCEPT !.status = "FAILED"]
           cleared == [failed EXCEPT !.current_stage = 0]
           staged == [mem EXCEPT !.status = STAGE_STATUS[s]]
           resulted == [mem EXCEPT !.result = a]
           done == [mem EXCEPT !.status = "COMPLETED"]
<1>5. failed \in Rows /\ staged \in Rows /\ resulted \in Rows /\ done \in Rows
  BY <1>0, <1>1, <1>4
<1> HIDE DEF failed, staged, resulted, done
<1>6. cleared \in Rows
  BY <1>0, <1>2, <1>5
<1> HIDE DEF cleared
<1>7. [failed EXCEPT !.error = er] \in Rows /\ [cleared EXCEPT !.error = er] \in Rows
  BY <1>3, <1>5, <1>6
<1>8. [staged EXCEPT !.current_stage = s] \in Rows /\ [done EXCEPT !.current_stage = 0] \in Rows
  BY <1>0, <1>2, <1>5
<1>9. [resulted EXCEPT !.scored = a] \in Rows
  BY <1>4, <1>5
<1> QED
  BY <1>5, <1>7, <1>8, <1>9
  DEF failed, cleared, staged, resulted, done, Refused, Stopped, InStage, Resulted, Scored, Finished

\* A runner that changes its place and its session's row stays a runner.
LEMMA RunnerUpdate ==
  ASSUME runner \in RunnerType, NEW pc \in PCs, NEW mem \in Rows
  PROVE  /\ RunnerAt(pc, mem) \in RunnerType
         /\ RunnerAt(pc, mem).pc = pc /\ RunnerAt(pc, mem).mem = mem
         /\ RunnerAt(pc, mem).stage = runner.stage /\ RunnerAt(pc, mem).seq = runner.seq
<1> DEFINE r1 == [runner EXCEPT !.pc = pc]
<1>1. r1 \in RunnerType
  BY DEF RunnerType
<1> HIDE DEF r1
<1>2. [r1 EXCEPT !.mem = mem] \in RunnerType
  BY <1>1 DEF RunnerType
<1>3. RunnerAt(pc, mem) \in RunnerType
  BY <1>2 DEF r1, RunnerAt
<1> QED BY <1>3 DEF RunnerAt, RunnerType

\* The runner moves to the next stage or to the end.
LEMMA NextStageType ==
  ASSUME runner \in RunnerType, runner.seq < LastStage
  PROVE  /\ NextStage \in RunnerType
         /\ NextStage.seq = runner.seq + 1 /\ NextStage.mem = runner.mem
         /\ runner.stage = LastStage => NextStage.pc = "finish" /\ NextStage.stage = LastStage
         /\ runner.stage # LastStage => NextStage.pc = "enter" /\ NextStage.stage = runner.stage + 1
<1> DEFINE r1 == [runner EXCEPT !.seq = runner.seq + 1]
           r2 == [r1 EXCEPT !.stage = runner.stage + 1]
<1>1. r1 \in RunnerType
  BY DEF RunnerType, LastStage
<1>2. NextStage = IF runner.stage = LastStage THEN [r1 EXCEPT !.pc = "finish"]
                                              ELSE [r2 EXCEPT !.pc = "enter"]
  BY DEF NextStage, RunnerType
<1> HIDE DEF r1
<1>3. runner.stage # LastStage => r2 \in RunnerType
  BY <1>1 DEF RunnerType, LastStage
<1> HIDE DEF r2
<1>4. NextStage \in RunnerType
  BY <1>1, <1>2, <1>3 DEF RunnerType, PCs
<1>5. /\ NextStage.seq = runner.seq + 1 /\ NextStage.mem = runner.mem
      /\ runner.stage = LastStage => NextStage.pc = "finish" /\ NextStage.stage = LastStage
      /\ runner.stage # LastStage => NextStage.pc = "enter" /\ NextStage.stage = runner.stage + 1
  BY DEF NextStage, RunnerType
<1> QED BY <1>4, <1>5

-----------------------------------------------------------------------------
(* Type correctness.  A runner at work has not used up its stages, which   *)
(* the type of seq needs.                                                  *)

TypeInv ==
  /\ TypeOK
  /\ runner.pc \in {"begun", "enter", "work"} => runner.seq = runner.stage - 1
  /\ runner.pc # "idle" => deliveries > 0

\* The row create_investigation commits has the type.
LEMMA TypeInvInit == Init => TypeInv
<1> SUFFICES ASSUME Init PROVE TypeInv
  OBVIOUS
<1>1. row \in Rows /\ Idle \in RunnerType /\ NotLoaded \in Rows
  BY NewRowType DEF Init, Idle, RunnerType, PCs, LastStage, NotLoaded, NewRow, Rows, Errors
<1>2. age \in [created : 0..QueueTimeout + 1, started : 0..StaleAfter + 1, run : 0..TimeLimit]
  BY ConstantsAssumption DEF Init
<1> QED
  BY <1>1, <1>2, ConstantsAssumption DEF Init, TypeInv, TypeOK, Attempts, EventType, Idle, Requests

\* Every step of every process keeps the type.
LEMMA TypeInvNext == TypeInv /\ [Next]_vars => TypeInv'
<1> SUFFICES ASSUME TypeInv, [Next]_vars PROVE TypeInv'
  OBVIOUS
<1> USE ConstantsAssumption DEF TypeInv, TypeOK
<1>0. /\ NotLoaded \in Rows /\ Idle \in RunnerType /\ NewRow \in Rows
      /\ runner.mem \in Rows /\ runner.stage \in 1..LastStage
  BY NewRowType DEF Idle, RunnerType, PCs, LastStage, NotLoaded, NewRow, Rows, Errors
<1>1. \A r \in Requests : loaded[r] \in Rows
  OBVIOUS
<1>2. /\ \A mem \in Rows : \A er \in Errors : Refused(mem, er) \in Rows /\ Stopped(mem, er) \in Rows
      /\ Finished(runner.mem) \in Rows /\ InStage(runner.mem, runner.stage) \in Rows
      /\ Scored(runner.mem, deliveries) \in Rows /\ Resulted(runner.mem, deliveries) \in Rows
      /\ Resulted(runner.mem, 0) \in Rows
  <2>1. "none" \in Errors /\ 1 \in 1..LastStage /\ 0 \in Attempts
    BY DEF Errors, LastStage, Attempts
  <2> QED BY <1>0, <2>1, AssignType
<1>3. {"stopped", "neverStarted", "pipeline", "unavailable", "wrongType"} \subseteq Errors
  BY DEF Errors
<1>4. CASE Dispatch
  BY <1>4 DEF Dispatch
<1>5. CASE DispatchRaises
  BY <1>5 DEF DispatchRaises
<1>6. CASE RejectType
  <2>1. Flush(row, NewRow, Refused(NewRow, "wrongType")) \in Rows
    <3>1. Refused(NewRow, "wrongType") \in Rows
      BY <1>0, <1>2, <1>3
    <3> QED BY <1>0, <3>1, FlushType
  <2> QED BY <1>6, <2>1 DEF RejectType
<1>7. CASE RecordRefusal
  <2>1. Flush(row, NewRow, Refused(NewRow, "unavailable")) \in Rows
    <3>1. Refused(NewRow, "unavailable") \in Rows
      BY <1>0, <1>2, <1>3
    <3> QED BY <1>0, <3>1, FlushType
  <2> QED BY <1>7, <2>1 DEF RecordRefusal
<1>8. CASE Begin
  <2>1. CASE present /\ row.status \notin Terminal
    <3>1. runner' \in RunnerType /\ runner'.seq = runner'.stage - 1
      BY <1>8, <2>1 DEF Begin, RunnerType, PCs, LastStage
    <3>2. deliveries' \in Attempts /\ age' \in [created : 0..QueueTimeout + 1, started : 0..StaleAfter + 1, run : 0..TimeLimit]
      BY <1>8, <2>1 DEF Begin, Attempts
    <3>3. deliveries' > 0
      BY <1>8, <2>1 DEF Begin, Attempts
    <3> QED BY <1>8, <2>1, <3>1, <3>2, <3>3 DEF Begin
  <2>2. CASE ~(present /\ row.status \notin Terminal)
    BY <1>8, <2>2 DEF Begin
  <2> QED BY <2>1, <2>2
<1>9. CASE ClearPartialAttempt
  <2>1. Flush(row, runner.mem, Resulted(runner.mem, 0)) \in Rows
    BY <1>0, <1>2, FlushType
  <2>2. row' \in Rows
    BY <1>9, <2>1 DEF ClearPartialAttempt
  <2>3. CASE events = <<>>
    BY <1>9, <2>2, <2>3 DEF ClearPartialAttempt, RunnerType, PCs
  <2>4. CASE events # <<>>
    <3>1. runner' = RunnerAt("enter", row') /\ "enter" \in PCs
      BY <1>9, <2>4 DEF ClearPartialAttempt, PCs
    <3>2. runner' \in RunnerType /\ runner'.stage = runner.stage /\ runner'.seq = runner.seq
      BY <2>2, <3>1, RunnerUpdate
    <3> QED BY <1>9, <2>2, <2>4, <3>2 DEF ClearPartialAttempt
  <2> QED BY <2>3, <2>4
<1>10. CASE EnterStage
  <2>1. CASE present
    <3>1. row' \in Rows
      BY <1>0, <1>2, <1>10, <2>1, FlushType DEF EnterStage
    <3>2. runner' = RunnerAt("work", InStage(runner.mem, runner.stage)) /\ "work" \in PCs
      BY <1>10, <2>1 DEF EnterStage, PCs
    <3>3. runner' \in RunnerType /\ runner'.stage = runner.stage /\ runner'.seq = runner.seq
      BY <1>2, <3>2, RunnerUpdate
    <3>4. age' \in [created : 0..QueueTimeout + 1, started : 0..StaleAfter + 1, run : 0..TimeLimit]
      BY <1>10, <2>1 DEF EnterStage
    <3> QED BY <1>10, <2>1, <3>1, <3>3, <3>4 DEF EnterStage
  <2>2. CASE ~present
    BY <1>10, <2>2 DEF EnterStage, RunnerType, PCs
  <2> QED BY <2>1, <2>2
<1>11. ASSUME NEW outcome \in {"completed", "skipped"}, EndStage(outcome) PROVE TypeInv'
  <2>1. /\ runner.seq = runner.stage - 1 /\ runner.seq < LastStage
        /\ runner.seq \in 0..LastStage /\ runner.stage # LastStage
    BY <1>0, <1>11 DEF EndStage, RunnerType, STORAGE, LastStage
  <2>2. Event(outcome) \in EventType
    BY <1>0, <2>1 DEF Event, EventType, Outcomes, LastStage
  <2>3. NextStage \in RunnerType /\ NextStage.seq = NextStage.stage - 1
    BY <1>0, <2>1, NextStageType DEF LastStage
  <2> QED BY <1>11, <2>2, <2>3 DEF EndStage
<1>12. CASE Store
  <2>1. /\ runner.seq = runner.stage - 1 /\ runner.seq < LastStage
        /\ runner.seq \in 0..LastStage /\ runner.stage = LastStage
    BY <1>0, <1>12 DEF Store, RunnerType, STORAGE, LastStage
  <2>2. Event("completed") \in EventType
    BY <1>0, <2>1 DEF Event, EventType, Outcomes, LastStage
  <2>3. NextStage \in RunnerType /\ NextStage.pc = "finish"
    BY <1>0, <2>1, NextStageType DEF LastStage
  <2>4. row' \in Rows
    BY <1>0, <1>2, <1>12, FlushType DEF Store
  <2>5. runner' \in RunnerType /\ runner'.pc = "finish"
    BY <1>2, <1>12, <2>3 DEF Store, RunnerType
  <2>6. stored' \subseteq 1..MaxDeliveries
    BY <1>12 DEF Store, Attempts
  <2> QED BY <1>12, <2>2, <2>4, <2>5, <2>6 DEF Store
<1>13. CASE FailStage
  <2>0. runner.pc = "work" /\ runner.seq = runner.stage - 1 /\ deliveries > 0
    BY <1>13 DEF FailStage
  <2>1. runner.seq + 1 \in 1..LastStage
    BY <1>0, <2>0 DEF LastStage
  <2>2. Event("failed") \in EventType
    BY <1>0, <2>1 DEF Event, EventType, Outcomes
  <2>3. row' \in Rows
    <3>1. \A new \in {Resulted(runner.mem, deliveries), Scored(runner.mem, deliveries)} :
            Flush(row, runner.mem, new) \in Rows
      BY <1>0, <1>2, FlushType
    <3> QED BY <1>13, <3>1 DEF FailStage
  <2>4. stored' \subseteq 1..MaxDeliveries
    BY <1>13, <2>0 DEF FailStage, Attempts
  <2>5. runner' \in RunnerType /\ runner'.pc = "abort"
    BY <1>13 DEF FailStage, RunnerType, PCs
  <2>6. events' \in Seq(EventType)
    BY <1>13, <2>2 DEF FailStage
  <2> QED BY <1>13, <2>0, <2>3, <2>4, <2>5, <2>6 DEF FailStage
<1>14. CASE LoseStage
  BY <1>14 DEF LoseStage, RunnerType, PCs
<1>15. CASE Abort
  <2>1. Stopped(row, "pipeline") \in Rows
    BY <1>2, <1>3
  <2> QED BY <1>15, <2>1 DEF Abort, RunnerType, PCs
<1>16. CASE Complete
  <2>1. row' \in Rows
    BY <1>0, <1>2, <1>16, FlushType DEF Complete
  <2> QED BY <1>16, <2>1 DEF Complete, RunnerType, PCs
<1>17. CASE Return \/ WorkerLost \/ TimeLimitHit
  <2>1. runner' = Idle /\ task' \in {"none", "queued"}
    BY <1>17 DEF Return, WorkerLost, TimeLimitHit
  <2>2. UNCHANGED <<row, present, events, stored, executor, request, deliveries, loaded, age>>
    BY <1>17 DEF Return, WorkerLost, TimeLimitHit
  <2> QED BY <1>0, <2>1, <2>2 DEF Idle
<1>18. CASE ApiRestart
  <2>1. loaded' \in [Requests -> Rows]
    BY <1>0, <1>18 DEF ApiRestart
  <2>2. request' \in {"created", "dispatched", "refusing", "refused", "died"}
    BY <1>18 DEF ApiRestart
  <2>3. (runner' = Idle /\ task' = "none") \/ UNCHANGED <<runner, task>>
    BY <1>18 DEF ApiRestart
  <2> QED BY <1>0, <1>18, <2>1, <2>2, <2>3 DEF ApiRestart, Idle
<1>19. ASSUME NEW s \in Sweepers, SweepSelect(s) PROVE TypeInv'
  BY <1>19 DEF SweepSelect, Requests
<1>20. ASSUME NEW s \in Sweepers, SweepCommit(s) PROVE TypeInv'
  <2> DEFINE why == IF loaded[s].status = "QUEUED" THEN "neverStarted" ELSE "stopped"
  <2>1. Flush(row, loaded[s], Stopped(loaded[s], why)) \in Rows
    <3>1. loaded[s] \in Rows /\ why \in Errors
      BY <1>1, <1>3 DEF Requests
    <3>2. Stopped(loaded[s], why) \in Rows
      BY <1>2, <3>1
    <3> QED BY <3>1, <3>2, FlushType
  <2> QED BY <1>0, <1>20, <2>1 DEF SweepCommit
<1>21. ASSUME NEW m \in Misrouters, MisrouteSelect(m) PROVE TypeInv'
  BY <1>21 DEF MisrouteSelect, Requests
<1>22. ASSUME NEW m \in Misrouters, MisrouteCommit(m) PROVE TypeInv'
  <2>1. Flush(row, loaded[m], Refused(loaded[m], "wrongType")) \in Rows
    <3>1. loaded[m] \in Rows
      BY <1>1 DEF Requests
    <3>2. Refused(loaded[m], "wrongType") \in Rows
      BY <1>2, <1>3, <3>1
    <3> QED BY <3>1, <3>2, FlushType
  <2> QED BY <1>0, <1>22, <2>1 DEF MisrouteCommit
<1>23. CASE Delete
  <2>1. events' \in Seq(EventType) /\ stored' \subseteq 1..MaxDeliveries
    <3>1. <<>> \in Seq(EventType)
      OBVIOUS
    <3> QED BY <1>23, <3>1 DEF Delete
  <2>3. present' \in BOOLEAN
    BY <1>23, Zenon DEF Delete
  <2>2. UNCHANGED <<row, executor, request, task, deliveries, runner, loaded, age>>
    BY <1>23 DEF Delete
  <2> QED BY <2>1, <2>2, <2>3
<1>24. CASE Tick
  <2>1. age' \in [created : 0..QueueTimeout + 1, started : 0..StaleAfter + 1, run : 0..TimeLimit]
    <3>0. QueueTimeout \in Nat /\ StaleAfter \in Nat
          /\ age.created \in 0..QueueTimeout + 1 /\ age.started \in 0..StaleAfter + 1
      OBVIOUS
    <3>1. /\ Older(age.created, QueueTimeout) \in 0..QueueTimeout + 1
          /\ Older(age.started, StaleAfter) \in 0..StaleAfter + 1
      BY <3>0 DEF Older
    <3>2. (IF age.run < TimeLimit THEN age.run + 1 ELSE age.run) \in 0..TimeLimit
      OBVIOUS
    <3> QED BY <1>24, <3>1, <3>2 DEF Tick
  <2> QED BY <1>24, <2>1 DEF Tick
<1>25. CASE UNCHANGED vars
  BY <1>25 DEF vars
<1> QED
  BY <1>4, <1>5, <1>6, <1>7, <1>8, <1>9, <1>10, <1>11, <1>12, <1>13, <1>14, <1>15, <1>16, <1>17,
     <1>18, <1>19, <1>20, <1>21, <1>22, <1>23, <1>24, <1>25 DEF Next, RunnerStep

\* Every variable keeps its shape in every reachable state.
THEOREM TypeCorrect == Spec => []TypeOK
<1>1. TypeInv => TypeOK
  BY DEF TypeInv
<1> QED BY <1>1, TypeInvInit, TypeInvNext, PTL DEF Spec

-----------------------------------------------------------------------------
(* The inductive invariant.                                                *)

\* A commit of another request changes the status and the error: the result
\* columns keep what the database has, and nobody but a runner completes.
LEMMA OtherCommit ==
  ASSUME NEW db \in Rows, NEW mem \in Rows, NEW er \in Errors
  PROVE  /\ Flush(db, mem, Refused(mem, er)).result = db.result
         /\ Flush(db, mem, Refused(mem, er)).scored = db.scored
         /\ Flush(db, mem, Refused(mem, er)).status \in {db.status, "FAILED"}
         /\ Flush(db, mem, Stopped(mem, er)).result = db.result
         /\ Flush(db, mem, Stopped(mem, er)).scored = db.scored
         /\ Flush(db, mem, Stopped(mem, er)).status \in {db.status, "FAILED"}
BY DEF Flush, Column, Refused, Stopped, Rows

\* A new row, with no event and no result, satisfies the invariant.
LEMMA IInvInit == Init => IInv
BY DEF Init, IInv, TimelineInOrder, RunnerPlaced, AttemptsNumbered, ResultOfAttempt, ResultBacked,
       DeletedIsEmpty, UnfinishedRun, CompletedIsWhole, NewRow, Idle

\* A step that leaves the runner and the stored data alone and completes no
\* run keeps the invariant.
LEMMA StatusStep ==
  ASSUME IInv, UNCHANGED <<present, events, stored, deliveries, runner>>,
         row'.result = row.result, row'.scored = row.scored,
         row'.status \in {row.status, "FAILED"}
  PROVE  IInv'
BY DEF IInv, TimelineInOrder, RunnerPlaced, AttemptsNumbered, ResultOfAttempt, ResultBacked,
       DeletedIsEmpty, UnfinishedRun, CompletedIsWhole, NoFailure

\* So does the end of a runner, wherever it is.
LEMMA RunnerEnds ==
  ASSUME IInv, runner' = Idle, UNCHANGED <<row, present, events, stored, deliveries>>
  PROVE  IInv'
BY DEF IInv, TimelineInOrder, RunnerPlaced, AttemptsNumbered, ResultOfAttempt, ResultBacked,
       DeletedIsEmpty, UnfinishedRun, CompletedIsWhole, NoFailure, Idle

\* The runner's own steps, one lemma each where the step is not trivial.

\* A runner starts only on an unfinished row, with a number no attempt
\* before it had.
LEMMA BeginKeeps == TypeInv /\ IInv /\ Begin => IInv'
<1> SUFFICES ASSUME TypeInv, IInv, Begin PROVE IInv'
  OBVIOUS
<1>1. CASE present /\ row.status \notin Terminal
  <2>1. /\ deliveries' = deliveries + 1 /\ UNCHANGED <<row, present, events, stored>>
        /\ runner' = [pc |-> "begun", stage |-> 1, seq |-> 0, mem |-> row]
    BY <1>1 DEF Begin
  <2>2. deliveries \in Nat /\ row.scored \in Nat /\ row.scored <= deliveries /\ row.status # "COMPLETED"
    BY <1>1 DEF TypeInv, TypeOK, Attempts, Rows, IInv, AttemptsNumbered, Terminal
  <2>3. RunnerPlaced' /\ UnfinishedRun'
    BY <2>1, <2>2 DEF RunnerPlaced, UnfinishedRun
  <2>4. AttemptsNumbered' /\ ResultOfAttempt'
    BY <2>1, <2>2 DEF AttemptsNumbered, ResultOfAttempt
  <2> QED
    BY <2>1, <2>3, <2>4
    DEF IInv, TimelineInOrder, ResultBacked, DeletedIsEmpty, CompletedIsWhole
<1>2. CASE ~(present /\ row.status \notin Terminal)
  <2>1. UNCHANGED <<row, present, events, stored, deliveries, runner>>
    BY <1>2 DEF Begin
  <2> QED BY <2>1, StatusStep
<1> QED BY <1>1, <1>2

\* After the clean-up nothing of an earlier attempt is left.
LEMMA ClearKeeps == TypeInv /\ IInv /\ ClearPartialAttempt => IInv'
<1> SUFFICES ASSUME TypeInv, IInv, ClearPartialAttempt PROVE IInv'
  OBVIOUS
<1> USE DEF IInv
<1>1. /\ runner.pc = "begun" /\ runner.stage = 1 /\ runner.seq = 0 /\ runner.mem.result = row.result
      /\ row.scored < deliveries /\ runner.mem.scored < deliveries /\ deliveries > 0
      /\ row.status # "COMPLETED" /\ UNCHANGED <<present, deliveries>>
  BY DEF ClearPartialAttempt, RunnerPlaced, ResultOfAttempt, AttemptsNumbered, UnfinishedRun
<1>2. CASE events = <<>>
  <2>1. UNCHANGED <<row, events, stored>> /\ runner' = [runner EXCEPT !.pc = "enter"]
    BY <1>2 DEF ClearPartialAttempt
  <2>2. /\ runner'.pc = "enter" /\ runner'.stage = 1 /\ runner'.seq = 0 /\ runner'.mem = runner.mem
    BY <1>1, <2>1 DEF TypeInv, TypeOK, RunnerType
  <2>3. stored = {} /\ (present => row.result = 0)
    BY <1>2 DEF ResultBacked
  <2>4. RunnerPlaced' /\ AttemptsNumbered' /\ ResultOfAttempt' /\ UnfinishedRun'
    BY <1>1, <1>2, <2>1, <2>2, <2>3
    DEF RunnerPlaced, AttemptsNumbered, ResultOfAttempt, UnfinishedRun, NoFailure
  <2> QED
    BY <1>1, <2>1, <2>4 DEF TimelineInOrder, ResultBacked, DeletedIsEmpty, CompletedIsWhole
<1>3. CASE events # <<>>
  <2> DEFINE cleared == Resulted(runner.mem, 0)
  <2>1. /\ events' = <<>> /\ stored' = {} /\ row' = Flush(row, runner.mem, cleared)
        /\ runner' = RunnerAt("enter", row')
    BY <1>3 DEF ClearPartialAttempt
  <2>2. /\ runner'.pc = "enter" /\ runner'.stage = 1 /\ runner'.seq = 0 /\ runner'.mem = row'
    BY <1>1, <2>1 DEF TypeInv, TypeOK, RunnerType, RunnerAt
  <2>3. row'.result = 0 /\ row'.scored = row.scored /\ row'.status = row.status
    BY <1>1, <2>1 DEF Flush, Column, Resulted, TypeInv, TypeOK, RunnerType, Rows
  <2>4. RunnerPlaced' /\ AttemptsNumbered' /\ ResultOfAttempt' /\ UnfinishedRun'
    BY <1>1, <2>1, <2>2, <2>3
    DEF RunnerPlaced, AttemptsNumbered, ResultOfAttempt, UnfinishedRun, NoFailure
  <2> QED
    BY <1>1, <2>1, <2>3, <2>4 DEF TimelineInOrder, ResultBacked, DeletedIsEmpty, CompletedIsWhole
<1> QED BY <1>2, <1>3

\* Showing the status of a stage completes nothing.
LEMMA EnterKeeps == TypeInv /\ IInv /\ EnterStage => IInv'
<1> SUFFICES ASSUME TypeInv, IInv, EnterStage PROVE IInv'
  OBVIOUS
<1>1. CASE present
  <2> DEFINE new == InStage(runner.mem, runner.stage)
  <2>1. /\ row' = Flush(row, runner.mem, new) /\ runner' = RunnerAt("work", new)
        /\ UNCHANGED <<present, events, stored, deliveries>> /\ runner.pc = "enter"
    BY <1>1 DEF EnterStage
  <2>2. /\ runner.mem \in Rows /\ row \in Rows
        /\ STAGE_STATUS[runner.stage] # "COMPLETED"
    BY StageStatusType DEF TypeInv, TypeOK, RunnerType, Running
  <2>3. /\ row'.result = row.result /\ row'.scored = row.scored
        /\ row'.status = "COMPLETED" => row.status = "COMPLETED"
    BY <2>1, <2>2 DEF Flush, Column, InStage, Rows
  <2>4. /\ runner'.pc = "work" /\ runner'.stage = runner.stage /\ runner'.seq = runner.seq
        /\ runner'.mem.result = runner.mem.result /\ runner'.mem.scored = runner.mem.scored
    BY <2>1, <2>2 DEF RunnerAt, InStage, TypeInv, TypeOK, RunnerType, Rows
  <2> QED
    BY <2>1, <2>3, <2>4
    DEF IInv, TimelineInOrder, RunnerPlaced, AttemptsNumbered, ResultOfAttempt, ResultBacked,
        DeletedIsEmpty, UnfinishedRun, CompletedIsWhole, NoFailure
<1>2. CASE ~present
  <2>1. /\ runner' = [runner EXCEPT !.pc = "returning"]
        /\ UNCHANGED <<row, present, events, stored, deliveries>> /\ runner.pc = "enter"
    BY <1>2 DEF EnterStage
  <2>2. runner'.pc = "returning"
    BY <2>1 DEF TypeInv, TypeOK, RunnerType
  <2> QED
    BY <2>1, <2>2
    DEF IInv, TimelineInOrder, RunnerPlaced, AttemptsNumbered, ResultOfAttempt, ResultBacked,
        DeletedIsEmpty, UnfinishedRun, CompletedIsWhole, NoFailure
<1> QED BY <1>1, <1>2

\* The entry of the stage the runner is in continues the timeline.
LEMMA AppendInOrder ==
  ASSUME TypeInv, TimelineInOrder, NoFailure, Len(events) = runner.seq,
         runner.seq = runner.stage - 1, NEW outcome \in Outcomes,
         events' = Append(events, Event(outcome))
  PROVE  /\ TimelineInOrder' /\ Len(events') = runner.seq + 1 /\ events' # <<>>
         /\ outcome # "failed" => NoFailure'
<1>1. /\ events \in Seq(EventType) /\ runner.seq \in Nat /\ runner.stage = runner.seq + 1
      /\ Event(outcome) \in EventType
  <2>1. runner.stage \in 1..LastStage /\ runner.seq \in 0..LastStage
    BY DEF TypeInv, TypeOK, RunnerType
  <2>2. runner.stage = runner.seq + 1
    BY <2>1 DEF LastStage
  <2> QED BY <2>1, <2>2 DEF TypeInv, TypeOK, Event, EventType, LastStage
<1>2. Len(events') = Len(events) + 1
  BY <1>1
<1>3. ASSUME NEW i \in 1..Len(events')
      PROVE  events'[i] = IF i = Len(events') THEN Event(outcome) ELSE events[i]
  BY <1>1, <1>2
<1>4. ASSUME NEW i \in 1..Len(events')
      PROVE  /\ events'[i].seq = i /\ events'[i].stage = i
             /\ events'[i].status = "failed" => i = Len(events')
             /\ outcome # "failed" => events'[i].status # "failed"
  <2>1. CASE i = Len(events')
    BY <1>1, <1>2, <1>3, <2>1 DEF Event
  <2>2. CASE i # Len(events')
    <3>1. i \in 1..Len(events) /\ events'[i] = events[i]
      BY <1>1, <1>2, <1>3, <2>2
    <3> QED BY <3>1 DEF TimelineInOrder, NoFailure
  <2> QED BY <2>1, <2>2
<1>5. TimelineInOrder'
  BY <1>4 DEF TimelineInOrder
<1>6. outcome # "failed" => NoFailure'
  BY <1>4 DEF NoFailure
<1>7. events' # <<>>
  BY <1>1, <1>2
<1> QED BY <1>1, <1>2, <1>5, <1>6, <1>7

\* At work, a runner of a present row has recorded the stages before its own
\* and stored nothing else.
LEMMA AtWork ==
  ASSUME TypeInv, IInv, present, runner.pc = "work"
  PROVE  /\ TimelineInOrder /\ NoFailure /\ Len(events) = runner.seq /\ runner.seq = runner.stage - 1
         /\ row.result = 0 /\ runner.mem.result = 0 /\ stored = {}
         /\ deliveries \in Attempts /\ deliveries > 0
         /\ row.scored < deliveries /\ runner.mem.scored < deliveries
         /\ row.status # "COMPLETED"
         /\ row \in Rows /\ runner.mem \in Rows
BY DEF IInv, TypeInv, TypeOK, RunnerType, RunnerPlaced, AttemptsNumbered, ResultOfAttempt, UnfinishedRun

\* A stage that ends, or is skipped, extends the timeline by its entry.
LEMMA EndKeeps ==
  ASSUME TypeInv, IInv, NEW outcome \in {"completed", "skipped"}, EndStage(outcome)
  PROVE  IInv'
<1>1. /\ present /\ runner.pc = "work" /\ runner.stage # LastStage
      /\ events' = Append(events, Event(outcome)) /\ runner' = NextStage
      /\ UNCHANGED <<row, present, stored, deliveries>>
  BY DEF EndStage, STORAGE, LastStage
<1>2. outcome \in Outcomes /\ outcome # "failed"
  BY DEF Outcomes
<1>3. TimelineInOrder' /\ NoFailure' /\ Len(events') = runner.seq + 1 /\ events' # <<>>
  BY <1>1, <1>2, AtWork, AppendInOrder
<1>4. /\ runner'.pc = "enter" /\ runner'.stage = runner.stage + 1 /\ runner'.seq = runner.seq + 1
      /\ runner'.mem = runner.mem
  <2>1. runner \in RunnerType /\ runner.stage \in 1..LastStage /\ runner.seq < LastStage
    BY <1>1, AtWork DEF TypeInv, TypeOK, RunnerType, LastStage
  <2> QED BY <1>1, <2>1, NextStageType
<1>5. runner'.seq = runner'.stage - 1
  BY <1>1, <1>4, AtWork DEF TypeInv, TypeOK, RunnerType, LastStage
<1>6. RunnerPlaced' /\ AttemptsNumbered' /\ ResultOfAttempt' /\ UnfinishedRun'
  <2>1. RunnerPlaced'
    BY <1>1, <1>3, <1>4, <1>5 DEF RunnerPlaced
  <2>2. AttemptsNumbered'
    BY <1>1, <1>4, AtWork DEF AttemptsNumbered, IInv
  <2>3. ResultOfAttempt' /\ UnfinishedRun'
    BY <1>1, <1>4, AtWork DEF ResultOfAttempt, UnfinishedRun
  <2> QED BY <2>1, <2>2, <2>3
<1> QED
  BY <1>1, <1>3, <1>6, AtWork DEF IInv, ResultBacked, DeletedIsEmpty, CompletedIsWhole

\* STORAGE stores the artefacts, the result and the last entry together.
LEMMA StoreKeeps == TypeInv /\ IInv /\ Store => IInv'
<1> SUFFICES ASSUME TypeInv, IInv, Store PROVE IInv'
  OBVIOUS
<1>1. /\ present /\ runner.pc = "work" /\ runner.stage = LastStage
      /\ events' = Append(events, Event("completed")) /\ stored' = stored \cup {deliveries}
      /\ row' = Flush(row, runner.mem, Scored(runner.mem, deliveries))
      /\ runner' = [NextStage EXCEPT !.mem = Scored(runner.mem, deliveries)]
      /\ UNCHANGED <<present, deliveries>>
  BY DEF Store, STORAGE, LastStage
<1>2. "completed" \in Outcomes
  BY DEF Outcomes
<1>3. TimelineInOrder' /\ NoFailure' /\ Len(events') = runner.seq + 1 /\ events' # <<>>
  BY <1>1, <1>2, AtWork, AppendInOrder
<1>4. row'.result = deliveries /\ row'.scored = deliveries /\ row'.status # "COMPLETED"
  BY <1>1, AtWork DEF Flush, Column, Scored, Rows, Attempts
<1>5. runner'.pc = "finish" /\ runner'.stage = LastStage /\ runner'.seq = LastStage
  <2>1. runner \in RunnerType /\ runner.seq = LastStage - 1
    BY <1>1, AtWork DEF TypeInv, TypeOK, RunnerType, LastStage
  <2>2. /\ NextStage \in RunnerType /\ NextStage.pc = "finish" /\ NextStage.stage = LastStage
        /\ NextStage.seq = LastStage
    BY <1>1, <2>1, NextStageType DEF LastStage
  <2> QED BY <1>1, <2>2 DEF RunnerType
<1>6. stored' = {deliveries} /\ runner.seq + 1 = LastStage
  BY <1>1, AtWork DEF LastStage
<1>7. RunnerPlaced' /\ AttemptsNumbered' /\ ResultOfAttempt' /\ UnfinishedRun' /\ ResultBacked'
  BY <1>1, <1>3, <1>4, <1>5, <1>6, AtWork
  DEF RunnerPlaced, AttemptsNumbered, ResultOfAttempt, UnfinishedRun, ResultBacked, Attempts
<1> QED
  BY <1>1, <1>3, <1>4, <1>7 DEF IInv, DeletedIsEmpty, CompletedIsWhole

\* A failed stage closes the timeline, with or without the result of STORAGE.
LEMMA FailKeeps == TypeInv /\ IInv /\ FailStage => IInv'
<1> SUFFICES ASSUME TypeInv, IInv, FailStage PROVE IInv'
  OBVIOUS
<1>1. /\ present /\ runner.pc = "work"
      /\ events' = Append(events, Event("failed"))
      /\ UNCHANGED <<present, deliveries>>
  BY DEF FailStage
<1>2. "failed" \in Outcomes
  BY DEF Outcomes
<1>3. TimelineInOrder' /\ events' # <<>>
  BY <1>1, <1>2, AtWork, AppendInOrder
<1>4. runner'.pc = "abort"
  BY DEF FailStage, TypeInv, TypeOK, RunnerType
<1>5. \/ UNCHANGED <<row, stored>>
      \/ stored' = {deliveries} /\ UNCHANGED row
      \/ stored' = {deliveries} /\ row' = Flush(row, runner.mem, Resulted(runner.mem, deliveries))
      \/ stored' = {deliveries} /\ row' = Flush(row, runner.mem, Scored(runner.mem, deliveries))
  BY <1>1, AtWork DEF FailStage
<1>6. /\ row'.result \in {0, deliveries} /\ row'.scored <= deliveries /\ row'.status # "COMPLETED"
      /\ stored' = {} \/ stored' = {deliveries}
      /\ row'.result # 0 => stored' = {row'.result}
  <2>1. CASE UNCHANGED row
    BY <1>1, <1>5, <2>1, AtWork DEF Rows, Attempts
  <2>2. CASE stored' = {deliveries} /\ row' = Flush(row, runner.mem, Scored(runner.mem, deliveries))
    BY <1>1, <2>2, AtWork DEF Flush, Column, Scored, Rows, Attempts
  <2>3. CASE stored' = {deliveries} /\ row' = Flush(row, runner.mem, Resulted(runner.mem, deliveries))
    BY <1>1, <2>3, AtWork DEF Flush, Column, Resulted, Rows, Attempts
  <2> QED BY <1>5, <2>1, <2>2, <2>3
<1>7. RunnerPlaced' /\ AttemptsNumbered' /\ ResultOfAttempt' /\ UnfinishedRun' /\ ResultBacked'
  BY <1>1, <1>3, <1>4, <1>6, AtWork
  DEF RunnerPlaced, AttemptsNumbered, ResultOfAttempt, UnfinishedRun, ResultBacked, Attempts
<1> QED
  BY <1>1, <1>3, <1>6, <1>7 DEF IInv, DeletedIsEmpty, CompletedIsWhole

\* A stage whose commit is lost leaves the record as it was.
LEMMA LoseKeeps == TypeInv /\ IInv /\ LoseStage => IInv'
<1> SUFFICES ASSUME TypeInv, IInv, LoseStage PROVE IInv'
  OBVIOUS
<1>1. /\ runner.pc \in {"enter", "work"} /\ UNCHANGED <<row, present, events, stored, deliveries>>
      /\ runner'.pc = "abort"
  BY DEF LoseStage, TypeInv, TypeOK, RunnerType
<1> QED
  BY <1>1 DEF IInv, TimelineInOrder, RunnerPlaced, AttemptsNumbered, ResultOfAttempt, ResultBacked,
              DeletedIsEmpty, UnfinishedRun, CompletedIsWhole, NoFailure

\* Recording a pipeline failure completes nothing.
LEMMA AbortKeeps == TypeInv /\ IInv /\ Abort => IInv'
<1> SUFFICES ASSUME TypeInv, IInv, Abort PROVE IInv'
  OBVIOUS
<1>1. /\ runner.pc = "abort" /\ UNCHANGED <<present, events, stored, deliveries>>
      /\ runner'.pc = "returning"
  BY DEF Abort, TypeInv, TypeOK, RunnerType
<1>2. row'.result = row.result /\ row'.scored = row.scored /\ row'.status # "COMPLETED"
  BY <1>1 DEF Abort, Stopped, IInv, UnfinishedRun, TypeInv, TypeOK, Rows
<1> QED
  BY <1>1, <1>2
  DEF IInv, TimelineInOrder, RunnerPlaced, AttemptsNumbered, ResultOfAttempt, ResultBacked,
      DeletedIsEmpty, UnfinishedRun, CompletedIsWhole, NoFailure

\* Only a runner that has stored everything shows COMPLETED.
LEMMA CompleteKeeps == TypeInv /\ IInv /\ Complete => IInv'
<1> SUFFICES ASSUME TypeInv, IInv, Complete PROVE IInv'
  OBVIOUS
<1>1. /\ runner.pc = "finish" /\ UNCHANGED <<present, events, stored, deliveries>>
      /\ runner'.pc = "returning"
  BY DEF Complete, TypeInv, TypeOK, RunnerType
<1>2. /\ row'.result = row.result /\ row'.scored = row.scored
      /\ row'.status = "COMPLETED" => present
  BY <1>1 DEF Complete, Flush, Column, Finished, IInv, UnfinishedRun, TypeInv, TypeOK, RunnerType, Rows
<1>3. ASSUME present PROVE CompletedIsWhole'
  <2>1. Len(events) = LastStage /\ NoFailure /\ deliveries > 0
    BY <1>1, <1>3 DEF IInv, RunnerPlaced, AttemptsNumbered
  <2>2. row.result = deliveries /\ row.scored = deliveries /\ stored = {deliveries}
    BY <1>1, <1>3 DEF IInv, ResultOfAttempt
  <2> QED BY <1>1, <1>2, <2>1, <2>2 DEF CompletedIsWhole, NoFailure
<1>4. ASSUME ~present PROVE CompletedIsWhole'
  BY <1>1, <1>4 DEF CompletedIsWhole
<1> QED
  BY <1>1, <1>2, <1>3, <1>4
  DEF IInv, TimelineInOrder, RunnerPlaced, AttemptsNumbered, ResultOfAttempt, ResultBacked,
      DeletedIsEmpty, UnfinishedRun, NoFailure

\* Deleting the row deletes its timeline and artefacts.
LEMMA DeleteKeeps == IInv /\ Delete => IInv'
BY DEF Delete, IInv, TimelineInOrder, RunnerPlaced, AttemptsNumbered, ResultOfAttempt, ResultBacked,
       DeletedIsEmpty, UnfinishedRun, CompletedIsWhole, NoFailure

\* Every step of every process keeps the invariant.
LEMMA IInvNext == TypeInv /\ IInv /\ [Next]_vars => IInv'
<1> SUFFICES ASSUME TypeInv, IInv, [Next]_vars PROVE IInv'
  OBVIOUS
<1>0. /\ row \in Rows /\ NewRow \in Rows /\ \A r \in Requests : loaded[r] \in Rows
      /\ {"stopped", "neverStarted", "unavailable", "wrongType"} \subseteq Errors
  BY NewRowType DEF TypeInv, TypeOK, Errors
<1>1. CASE Dispatch \/ DispatchRaises \/ Tick \/ UNCHANGED vars
  <2>1. UNCHANGED <<row, present, events, stored, deliveries, runner>>
    BY <1>1 DEF Dispatch, DispatchRaises, Tick, vars
  <2> QED BY <2>1, StatusStep
<1>2. CASE RejectType \/ RecordRefusal
  <2>1. /\ UNCHANGED <<present, events, stored, deliveries, runner>>
        /\ \/ UNCHANGED row
           \/ row' = Flush(row, NewRow, Refused(NewRow, "wrongType"))
           \/ row' = Flush(row, NewRow, Refused(NewRow, "unavailable"))
    BY <1>2 DEF RejectType, RecordRefusal
  <2>2. /\ row'.result = row.result /\ row'.scored = row.scored
        /\ row'.status \in {row.status, "FAILED"}
    BY <1>0, <2>1, OtherCommit
  <2> QED BY <2>1, <2>2, StatusStep
<1>3. CASE RunnerStep
  <2>1. CASE Return
    BY <2>1, RunnerEnds DEF Return
  <2> QED
    BY <1>3, <2>1, BeginKeeps, ClearKeeps, EnterKeeps, EndKeeps, StoreKeeps, FailKeeps, LoseKeeps,
       AbortKeeps, CompleteKeeps DEF RunnerStep
<1>4. CASE WorkerLost \/ TimeLimitHit \/ ApiRestart
  <2>1. /\ UNCHANGED <<row, present, events, stored, deliveries>>
        /\ runner' = Idle \/ runner' = runner
    BY <1>4 DEF WorkerLost, TimeLimitHit, ApiRestart
  <2> QED BY <2>1, RunnerEnds, StatusStep
<1>5. ASSUME NEW s \in Sweepers, SweepSelect(s) \/ SweepCommit(s) PROVE IInv'
  <2> DEFINE why == IF loaded[s].status = "QUEUED" THEN "neverStarted" ELSE "stopped"
  <2>1. loaded[s] \in Rows /\ why \in Errors
    BY <1>0 DEF Requests
  <2>2. /\ UNCHANGED <<present, events, stored, deliveries, runner>>
        /\ UNCHANGED row \/ row' = Flush(row, loaded[s], Stopped(loaded[s], why))
    BY <1>5 DEF SweepSelect, SweepCommit
  <2>3. /\ row'.result = row.result /\ row'.scored = row.scored
        /\ row'.status \in {row.status, "FAILED"}
    BY <1>0, <2>1, <2>2, OtherCommit
  <2> QED BY <2>2, <2>3, StatusStep
<1>6. ASSUME NEW m \in Misrouters, MisrouteSelect(m) \/ MisrouteCommit(m) PROVE IInv'
  <2>1. loaded[m] \in Rows
    BY <1>0 DEF Requests
  <2>2. /\ UNCHANGED <<present, events, stored, deliveries, runner>>
        /\ UNCHANGED row \/ row' = Flush(row, loaded[m], Refused(loaded[m], "wrongType"))
    BY <1>6 DEF MisrouteSelect, MisrouteCommit
  <2>3. /\ row'.result = row.result /\ row'.scored = row.scored
        /\ row'.status \in {row.status, "FAILED"}
    BY <1>0, <2>1, <2>2, OtherCommit
  <2> QED BY <2>2, <2>3, StatusStep
<1> QED
  BY <1>1, <1>2, <1>3, <1>4, <1>5, <1>6, DeleteKeeps DEF Next

\* The two invariants hold in every reachable state.
LEMMA Inductive == Spec => [](TypeInv /\ IInv)
<1>1. TypeInv /\ IInv /\ [Next]_vars => (TypeInv /\ IInv)'
  BY TypeInvNext, IInvNext
<1>2. Init => TypeInv /\ IInv
  BY TypeInvInit, IInvInit
<1> QED BY <1>1, <1>2, PTL DEF Spec

-----------------------------------------------------------------------------
(* The theorems.                                                           *)

\* What the runs check as IInv holds of any executors, timeouts and number of
\* redeliveries: the record, the runner and the stored artefacts fit together.
THEOREM RecordFitsRunner == Spec => []IInv
<1> QED BY Inductive, PTL

\* The timeline is one attempt's, in pipeline order, with nothing after a
\* failed stage, through any number of redeliveries, sweeps and restarts.
THEOREM TimelineOrdered == Spec => []TimelineInOrder
<1>1. IInv => TimelineInOrder
  BY DEF IInv
<1> QED BY <1>1, Inductive, PTL

\* Whoever else writes to the row, COMPLETED means a whole record of one
\* attempt.
THEOREM CompletedWhole == Spec => []CompletedIsWhole
<1>1. IInv => CompletedIsWhole
  BY DEF IInv
<1> QED BY <1>1, Inductive, PTL

\* Risk factors, predictions and claims are never stored twice, and belong to
\* the result the row shows.
THEOREM ArtefactsOnce == Spec => []ArtefactsMatchResult
<1>1. IInv => ArtefactsMatchResult
  <2> SUFFICES ASSUME IInv PROVE ArtefactsMatchResult
    OBVIOUS
  <2>1. stored = {} \/ \E a \in Attempts : stored = {a}
    BY DEF IInv, ResultBacked
  <2>2. Cardinality(stored) <= 1
    <3>1. CASE stored = {}
      BY <3>1, FS_EmptySet
    <3>2. ASSUME NEW a \in Attempts, stored = {a} PROVE Cardinality(stored) <= 1
      BY <3>2, FS_Singleton
    <3> QED BY <2>1, <3>1, <3>2
  <2> QED BY <2>2 DEF ArtefactsMatchResult, IInv, ResultBacked
<1> QED BY <1>1, Inductive, PTL

\* A COMPLETED record keeps its timeline, artefacts and result until it is
\* deleted.
THEOREM RecordKept == Spec => CompletedRecordKept
<1>1. ASSUME TypeInv, IInv, Next, present, row.status = "COMPLETED"
      PROVE  ~present' \/ (events' = events /\ stored' = stored /\ row'.result = row.result)
  <2>1. runner.pc \in {"idle", "returning"}
    BY <1>1 DEF IInv, UnfinishedRun
  <2>2. /\ row \in Rows /\ NewRow \in Rows /\ \A r \in Requests : loaded[r] \in Rows
        /\ {"stopped", "neverStarted", "unavailable", "wrongType"} \subseteq Errors
    BY <1>1, NewRowType DEF TypeInv, TypeOK, Errors
  <2>3. CASE RejectType \/ RecordRefusal
    BY <2>2, <2>3, OtherCommit DEF RejectType, RecordRefusal
  <2>4. ASSUME NEW s \in Sweepers, SweepCommit(s)
        PROVE  events' = events /\ stored' = stored /\ row'.result = row.result
    <3> DEFINE why == IF loaded[s].status = "QUEUED" THEN "neverStarted" ELSE "stopped"
    <3>1. loaded[s] \in Rows /\ why \in Errors
      BY <2>2 DEF Requests
    <3>2. UNCHANGED row \/ row' = Flush(row, loaded[s], Stopped(loaded[s], why))
      BY <2>4 DEF SweepCommit
    <3> QED BY <2>2, <2>4, <3>1, <3>2, OtherCommit DEF SweepCommit
  <2>5. ASSUME NEW m \in Misrouters, MisrouteCommit(m)
        PROVE  events' = events /\ stored' = stored /\ row'.result = row.result
    <3>1. loaded[m] \in Rows
      BY <2>2 DEF Requests
    <3> QED BY <2>2, <2>5, <3>1, OtherCommit DEF MisrouteCommit
  <2>6. CASE RunnerStep
    <3>1. Begin \/ Return
      BY <2>1, <2>6 DEF RunnerStep, Begin, ClearPartialAttempt, EnterStage, EndStage, Store, FailStage,
                        LoseStage, Abort, Complete, Return
    <3> QED BY <3>1 DEF Begin, Return
  <2>7. CASE \/ Dispatch \/ DispatchRaises \/ WorkerLost \/ TimeLimitHit \/ ApiRestart \/ Tick
             \/ \E s \in Sweepers : SweepSelect(s)
             \/ \E m \in Misrouters : MisrouteSelect(m)
    BY <2>7 DEF Dispatch, DispatchRaises, WorkerLost, TimeLimitHit, ApiRestart, Tick, SweepSelect,
                MisrouteSelect
  <2>8. CASE Delete
    BY <2>8 DEF Delete
  <2> QED
    BY <1>1, <2>3, <2>4, <2>5, <2>6, <2>7, <2>8 DEF Next
<1>2. TypeInv /\ IInv /\ [Next]_vars =>
        [present /\ row.status = "COMPLETED" =>
           \/ ~present'
           \/ events' = events /\ stored' = stored /\ row'.result = row.result]_vars
  BY <1>1
<1> QED BY <1>2, Inductive, PTL DEF Spec, CompletedRecordKept

\* A failed run nobody is working on is never picked up again, even when its
\* task is still in the queue.
THEOREM FailureFinal == Spec => FailureIsFinal
<1>1. ASSUME Next, SettledFailure
      PROVE  ~present' \/ (SettledFailure' /\ row' = row /\ events' = events)
  <2>1. /\ present /\ row.status = "FAILED" /\ runner.pc = "idle"
        /\ request \notin {"created", "refusing"} /\ \A r \in Requests : loaded[r] = NotLoaded
    BY <1>1 DEF SettledFailure
  <2>2. CASE Delete
    BY <2>2 DEF Delete
  <2>3. CASE RunnerStep
    <3>1. Begin
      BY <2>1, <2>3 DEF RunnerStep, Begin, ClearPartialAttempt, EnterStage, EndStage, Store, FailStage,
                        LoseStage, Abort, Complete, Return
    <3>2. row.status \in Terminal
      BY <2>1 DEF Terminal
    <3> QED BY <2>1, <3>1, <3>2 DEF Begin, SettledFailure
  <2>4. CASE ApiRestart
    BY <2>1, <2>4 DEF ApiRestart, SettledFailure, Idle
  <2>5. CASE Tick
    BY <2>1, <2>5 DEF Tick, SettledFailure
  <2>6. ~Dispatch /\ ~DispatchRaises /\ ~RejectType /\ ~RecordRefusal /\ ~WorkerLost /\ ~TimeLimitHit
    BY <2>1 DEF Dispatch, DispatchRaises, RejectType, RecordRefusal, WorkerLost, TimeLimitHit
  <2>7. ASSUME NEW s \in Sweepers PROVE ~SweepSelect(s) /\ ~SweepCommit(s)
    BY <2>1 DEF SweepSelect, SweepCommit, Stale, Running, Requests
  <2>8. ASSUME NEW m \in Misrouters PROVE ~MisrouteSelect(m) /\ ~MisrouteCommit(m)
    BY <2>1 DEF MisrouteSelect, MisrouteCommit, Requests
  <2> QED
    BY <1>1, <2>2, <2>3, <2>4, <2>5, <2>6, <2>7, <2>8 DEF Next
<1>2. [Next]_vars =>
        [SettledFailure => ~present' \/ (SettledFailure' /\ row' = row /\ events' = events)]_vars
  BY <1>1
<1> QED BY <1>2, PTL DEF Spec, FailureIsFinal

-----------------------------------------------------------------------------
(* The stage a viewer is shown.  Where no task is redelivered the runner's *)
(* session starts from the QUEUED row, so every stage changes the          *)
(* current_stage it loaded and the flush writes it.  The status is written *)
(* only when it changes; a sweep or a misrouted upload that fails the row  *)
(* in between is shown as FAILED until the next change of status, and      *)
(* never as an older stage.                                                *)

QueuedRow(r) == r.status = "QUEUED" /\ r.current_stage = 0
RowInStage(r, s) == r.status = STAGE_STATUS[s] /\ r.current_stage = s

\* No request holds a failed row: expire_stale and recent_duplicate select none.
CopiesUnfailed == \A r \in Requests : loaded[r].status # "FAILED"

\* The task is queued once, and until its run begins the row has no stage.
OnlyRun ==
  /\ request = "created" => task = "none"
  /\ request = "created" \/ task = "queued" => deliveries = 0
  /\ deliveries = 0 => row.status \in {"QUEUED", "FAILED"} /\ row.current_stage = 0 /\ events = <<>>

\* The runner's session holds the stage it entered last.
SessionInStage ==
  /\ runner.pc = "begun" => events = <<>> /\ runner.stage = 1
  /\ runner.pc = "begun" \/ (runner.pc = "enter" /\ runner.stage = 1) => QueuedRow(runner.mem)
  /\ runner.pc = "enter" /\ runner.stage # 1 => RowInStage(runner.mem, runner.stage - 1)
  /\ runner.pc = "work" => RowInStage(runner.mem, runner.stage)

\* A row that shows a running status shows the session's.
RowInStep ==
  runner.pc = "work" \/ (runner.pc = "enter" /\ runner.stage # 1) =>
    \/ row.status \notin Running
    \/ row.status = runner.mem.status /\ row.current_stage = runner.mem.current_stage

ProgressInv ==
  CopiesUnfailed /\ (executor # "celery" => OnlyRun /\ SessionInStage /\ RowInStep)

\* Another request that holds an unfailed row fails the stored one, and
\* leaves or clears its stage.
LEMMA OtherFails ==
  ASSUME NEW db \in Rows, NEW mem \in Rows, NEW er \in Errors, mem.status # "FAILED"
  PROVE  /\ Flush(db, mem, Refused(mem, er)).status = "FAILED"
         /\ Flush(db, mem, Refused(mem, er)).current_stage = db.current_stage
         /\ Flush(db, mem, Stopped(mem, er)).status = "FAILED"
         /\ Flush(db, mem, Stopped(mem, er)).current_stage \in {db.current_stage, 0}
BY DEF Flush, Column, Refused, Stopped, Rows

\* Such a commit keeps the invariant.
LEMMA FailedByOther ==
  ASSUME ProgressInv, UNCHANGED <<events, executor, task, deliveries, runner>>,
         row'.status = "FAILED", row'.current_stage \in {row.current_stage, 0},
         request' = request \/ request' # "created",
         \A r \in Requests : loaded'[r] \in {loaded[r], NotLoaded}
  PROVE  ProgressInv'
<1>1. CopiesUnfailed'
  BY DEF ProgressInv, CopiesUnfailed, NotLoaded, NewRow
<1>2. ASSUME executor # "celery" PROVE (OnlyRun /\ SessionInStage /\ RowInStep)'
  <2>1. OnlyRun /\ SessionInStage /\ RowInStep
    BY <1>2 DEF ProgressInv
  <2>2. OnlyRun' /\ SessionInStage'
    BY <2>1 DEF OnlyRun, SessionInStage
  <2>3. RowInStep'
    BY <2>1 DEF RowInStep, Running
  <2> QED BY <2>2, <2>3
<1> QED BY <1>1, <1>2 DEF ProgressInv

\* A step that leaves the row, the timeline and the runner alone, or sends
\* the runner where it shows nothing, keeps it if it does not queue the task
\* a second time.
LEMMA NothingShown ==
  ASSUME ProgressInv, UNCHANGED <<row, executor, deliveries>>,
         events' = events \/ events' = <<>>,
         runner' = runner \/ runner'.pc \notin {"begun", "enter", "work"},
         request' = request \/ request' # "created", request' = "created" => task' = task,
         executor # "celery" =>
           task' \in {task, "none"} \/ (task' = "queued" /\ request = "created"),
         \A r \in Requests : loaded'[r] \in {loaded[r], NotLoaded}
                             \/ (loaded'[r] = row /\ row.status # "FAILED")
  PROVE  ProgressInv'
<1>1. CopiesUnfailed'
  BY DEF ProgressInv, CopiesUnfailed, NotLoaded, NewRow
<1>2. ASSUME executor # "celery" PROVE (OnlyRun /\ SessionInStage /\ RowInStep)'
  <2>1. OnlyRun /\ SessionInStage /\ RowInStep
    BY <1>2 DEF ProgressInv
  <2>2. OnlyRun'
    BY <1>2, <2>1 DEF OnlyRun
  <2>3. SessionInStage'
    BY <2>1 DEF SessionInStage
  <2>4. RowInStep'
    BY <2>1 DEF RowInStep
  <2> QED BY <2>2, <2>3, <2>4
<1> QED BY <1>1, <1>2 DEF ProgressInv

\* Entering a stage writes its current_stage, and its status wherever the
\* row shows a running one.
LEMMA EnterShows ==
  ASSUME TypeInv, ProgressInv, EnterStage
  PROVE  ProgressInv'
<1>1. CopiesUnfailed'
  BY DEF EnterStage, ProgressInv, CopiesUnfailed
<1>2. ASSUME executor # "celery" PROVE (OnlyRun /\ SessionInStage /\ RowInStep)'
  <2>1. /\ OnlyRun /\ SessionInStage /\ RowInStep /\ runner.pc = "enter" /\ deliveries > 0
        /\ row \in Rows /\ runner.mem \in Rows /\ runner.stage \in 1..LastStage
        /\ runner \in RunnerType /\ deliveries \in Nat
    BY <1>2 DEF ProgressInv, EnterStage, TypeInv, TypeOK, RunnerType, Attempts
  <2>2. OnlyRun'
    BY <2>1 DEF EnterStage, OnlyRun
  <2>3. CASE present
    <3> DEFINE new == InStage(runner.mem, runner.stage)
    <3>1. new.status = STAGE_STATUS[runner.stage] /\ new.current_stage = runner.stage /\ new \in Rows
      BY <2>1, AssignType DEF InStage, Rows, Errors, Attempts
    <3>2. row' = Flush(row, runner.mem, new) /\ runner' = RunnerAt("work", new)
      BY <2>3 DEF EnterStage
    <3> HIDE DEF new
    <3>3. runner'.pc = "work" /\ runner'.mem = new /\ runner'.stage = runner.stage
      BY <2>1, <3>1, <3>2, RunnerUpdate DEF PCs
    <3>4. SessionInStage'
      BY <3>1, <3>3 DEF SessionInStage, RowInStage
    <3>5. /\ row'.status = Column(row.status, runner.mem.status, new.status)
          /\ row'.current_stage = Column(row.current_stage, runner.mem.current_stage, new.current_stage)
      BY <3>2 DEF Flush
    <3>6. CASE runner.stage = 1
      <4>1. runner.mem.status # new.status /\ runner.mem.current_stage # new.current_stage
        BY <2>1, <3>1, <3>6 DEF SessionInStage, QueuedRow, STAGE_STATUS, LastStage
      <4> QED BY <2>2, <3>3, <3>4, <3>5, <4>1 DEF RowInStep, Column
    <3>7. CASE runner.stage # 1
      <4>1. runner.mem.current_stage = runner.stage - 1
        BY <2>1, <3>7 DEF SessionInStage, RowInStage
      <4>2. runner.mem.current_stage # new.current_stage
        BY <2>1, <3>1, <4>1 DEF LastStage
      <4>3. row.status \notin Running \/ row.status = runner.mem.status
        BY <2>1, <3>7 DEF RowInStep
      <4> QED BY <2>2, <3>3, <3>4, <3>5, <4>2, <4>3 DEF RowInStep, Column
    <3> QED BY <3>6, <3>7
  <2>4. CASE ~present
    <3>1. runner'.pc = "returning"
      BY <2>1, <2>4 DEF EnterStage, RunnerType
    <3> QED BY <2>2, <3>1 DEF SessionInStage, RowInStep
  <2> QED BY <2>3, <2>4
<1>3. executor' = executor
  BY DEF EnterStage
<1> QED BY <1>1, <1>2, <1>3 DEF ProgressInv

\* Every step keeps the shown stage in step with the runner.
LEMMA ProgressStep == TypeInv /\ ProgressInv /\ [Next]_vars => ProgressInv'
<1> SUFFICES ASSUME TypeInv, ProgressInv, [Next]_vars PROVE ProgressInv'
  OBVIOUS
<1>0. /\ row \in Rows /\ NewRow \in Rows /\ NewRow.status # "FAILED" /\ runner \in RunnerType
      /\ runner.stage \in 1..LastStage /\ runner.mem \in Rows /\ deliveries \in Nat
      /\ \A r \in Requests : loaded[r] \in Rows /\ loaded[r].status # "FAILED"
      /\ {"stopped", "neverStarted", "unavailable", "wrongType", "pipeline"} \subseteq Errors
      /\ loaded \in [Requests -> Rows]
  BY NewRowType DEF TypeInv, TypeOK, Errors, RunnerType, ProgressInv, CopiesUnfailed, NewRow, Attempts
<1>01. executor # "celery" => OnlyRun /\ SessionInStage /\ RowInStep
  BY DEF ProgressInv
<1>1. CASE Dispatch \/ DispatchRaises
  BY <1>1, NothingShown DEF Dispatch, DispatchRaises
<1>2. CASE RejectType \/ RecordRefusal
  <2>1. /\ UNCHANGED <<events, executor, task, deliveries, runner, loaded>> /\ request' = "refused"
        /\ \/ UNCHANGED row
           \/ row' = Flush(row, NewRow, Refused(NewRow, "wrongType"))
           \/ row' = Flush(row, NewRow, Refused(NewRow, "unavailable"))
    BY <1>2 DEF RejectType, RecordRefusal
  <2>2. CASE UNCHANGED row
    BY <2>1, <2>2, NothingShown
  <2>3. CASE ~UNCHANGED row
    <3>1. row'.status = "FAILED" /\ row'.current_stage = row.current_stage
      BY <1>0, <2>1, <2>3, OtherFails
    <3> QED BY <2>1, <3>1, FailedByOther
  <2> QED BY <2>2, <2>3
<1>3. CASE Begin
  <2>1. CASE present /\ row.status \notin Terminal
    <3>1. /\ task = "queued" /\ task' = "held" /\ deliveries' = deliveries + 1
          /\ runner' = [pc |-> "begun", stage |-> 1, seq |-> 0, mem |-> row]
          /\ UNCHANGED <<row, events, executor, request, loaded>>
      BY <1>3, <2>1 DEF Begin
    <3>2. CopiesUnfailed'
      BY <3>1 DEF ProgressInv, CopiesUnfailed
    <3>3. ASSUME executor # "celery" PROVE (OnlyRun /\ SessionInStage /\ RowInStep)'
      <4>1. deliveries = 0 /\ request # "created" /\ events = <<>> /\ QueuedRow(row)
        BY <1>01, <2>1, <3>1, <3>3 DEF OnlyRun, QueuedRow, Terminal
      <4>2. OnlyRun'
        BY <3>1, <4>1 DEF OnlyRun
      <4>3. runner'.pc = "begun" /\ runner'.mem = row /\ runner'.stage = 1
        BY <3>1
      <4>4. SessionInStage' /\ RowInStep'
        BY <3>1, <4>1, <4>3 DEF SessionInStage, RowInStep, QueuedRow
      <4> QED BY <4>2, <4>4
    <3> QED BY <3>1, <3>2, <3>3 DEF ProgressInv
  <2>2. CASE ~(present /\ row.status \notin Terminal)
    <3>1. UNCHANGED <<row, events, executor, request, deliveries, runner, loaded>> /\ task' = "none"
      BY <1>3, <2>2 DEF Begin
    <3>2. CopiesUnfailed'
      BY <3>1 DEF ProgressInv, CopiesUnfailed
    <3>3. executor # "celery" => OnlyRun' /\ SessionInStage' /\ RowInStep'
      BY <1>01, <3>1 DEF OnlyRun, SessionInStage, RowInStep
    <3> QED BY <3>1, <3>2, <3>3 DEF ProgressInv
  <2> QED BY <2>1, <2>2
<1>4. CASE ClearPartialAttempt
  <2>1. runner.pc = "begun" /\ UNCHANGED <<executor, request, task, deliveries, loaded>>
    BY <1>4 DEF ClearPartialAttempt
  <2>2. CopiesUnfailed'
    BY <2>1 DEF ProgressInv, CopiesUnfailed
  <2>3. ASSUME executor # "celery" PROVE (OnlyRun /\ SessionInStage /\ RowInStep)'
    <3>1. events = <<>> /\ runner.stage = 1 /\ QueuedRow(runner.mem)
      BY <1>01, <2>1, <2>3 DEF SessionInStage
    <3>2. runner' = [runner EXCEPT !.pc = "enter"] /\ UNCHANGED <<row, events>>
      BY <1>4, <3>1 DEF ClearPartialAttempt
    <3>3. runner'.pc = "enter" /\ runner'.stage = runner.stage /\ runner'.mem = runner.mem
      BY <1>0, <3>2 DEF RunnerType
    <3>4. OnlyRun'
      BY <1>01, <2>1, <2>3, <3>2 DEF OnlyRun
    <3>5. SessionInStage' /\ RowInStep'
      BY <3>1, <3>3 DEF SessionInStage, RowInStep, QueuedRow
    <3> QED BY <3>4, <3>5
  <2> QED BY <2>1, <2>2, <2>3 DEF ProgressInv
<1>5. CASE EnterStage
  BY <1>5, EnterShows
<1>6. CASE (\E outcome \in {"completed", "skipped"} : EndStage(outcome)) \/ Store \/ FailStage
  <2>1. /\ runner.pc = "work" /\ UNCHANGED <<executor, request, task, deliveries, loaded>>
        /\ deliveries > 0
    BY <1>6 DEF EndStage, Store, FailStage, TypeInv
  <2>2. CopiesUnfailed'
    BY <2>1 DEF ProgressInv, CopiesUnfailed
  <2>3. ASSUME executor # "celery" PROVE (OnlyRun /\ SessionInStage /\ RowInStep)'
    <3>1. OnlyRun'
      BY <1>0, <1>01, <2>1, <2>3 DEF OnlyRun
    <3>2. CASE \E outcome \in {"completed", "skipped"} : EndStage(outcome)
      <4>1. runner' = NextStage /\ row' = row /\ runner.stage # LastStage
        BY <3>2 DEF EndStage, STORAGE, LastStage
      <4>2. runner.seq = runner.stage - 1 /\ runner.seq < LastStage
        BY <1>0, <2>1, <4>1 DEF TypeInv, LastStage
      <4>3. /\ runner'.pc = "enter" /\ runner'.stage = runner.stage + 1 /\ runner'.mem = runner.mem
        BY <1>0, <4>1, <4>2, NextStageType
      <4>4. RowInStage(runner.mem, runner.stage) /\ RowInStep
        BY <1>01, <2>1, <2>3 DEF SessionInStage
      <4>5. runner'.stage # 1 /\ runner'.stage - 1 = runner.stage
        BY <1>0, <4>3 DEF LastStage
      <4>6. SessionInStage'
        BY <4>3, <4>4, <4>5 DEF SessionInStage, RowInStage
      <4>7. RowInStep'
        BY <2>1, <4>1, <4>3, <4>4 DEF RowInStep
      <4> QED BY <3>1, <4>6, <4>7
    <3>3. CASE Store
      <4>1. runner' = [NextStage EXCEPT !.mem = Scored(runner.mem, deliveries)] /\ runner.stage = LastStage
        BY <3>3 DEF Store, STORAGE, LastStage
      <4>2. runner.seq = runner.stage - 1 /\ runner.seq < LastStage
        BY <1>0, <2>1, <4>1 DEF TypeInv, LastStage
      <4>3. NextStage \in RunnerType /\ NextStage.pc = "finish"
        BY <1>0, <4>1, <4>2, NextStageType
      <4>4. runner'.pc = "finish"
        BY <4>1, <4>3 DEF RunnerType
      <4> QED BY <3>1, <4>4 DEF SessionInStage, RowInStep
    <3>4. CASE FailStage
      <4>1. runner'.pc = "abort"
        BY <1>0, <3>4 DEF FailStage, RunnerType
      <4> QED BY <3>1, <4>1 DEF SessionInStage, RowInStep
    <3> QED BY <1>6, <3>2, <3>3, <3>4
  <2> QED BY <2>1, <2>2, <2>3 DEF ProgressInv
<1>7. CASE LoseStage
  <2>1. runner'.pc = "abort"
    BY <1>0, <1>7 DEF LoseStage, RunnerType
  <2> QED BY <1>7, <2>1, NothingShown DEF LoseStage
<1>8. CASE Abort \/ Complete
  <2>1. /\ UNCHANGED <<executor, request, task, deliveries, loaded, events>>
        /\ runner.pc \in {"abort", "finish"} /\ deliveries > 0
    BY <1>8 DEF Abort, Complete, TypeInv
  <2>2. runner'.pc = "returning"
    BY <1>0, <1>8 DEF Abort, Complete, RunnerType
  <2>3. CopiesUnfailed'
    BY <2>1 DEF ProgressInv, CopiesUnfailed
  <2>4. executor # "celery" => OnlyRun' /\ SessionInStage' /\ RowInStep'
    BY <1>0, <1>01, <2>1, <2>2 DEF OnlyRun, SessionInStage, RowInStep
  <2> QED BY <2>1, <2>3, <2>4 DEF ProgressInv
<1>9. CASE Return \/ WorkerLost \/ TimeLimitHit
  <2>1. /\ (runner'.pc = "idle" /\ task' = "none") \/ executor = "celery"
        /\ UNCHANGED <<row, events, executor, request, deliveries, loaded>>
    BY <1>9 DEF Return, WorkerLost, TimeLimitHit, Idle
  <2>2. CopiesUnfailed'
    BY <2>1 DEF ProgressInv, CopiesUnfailed
  <2>3. executor # "celery" => OnlyRun' /\ SessionInStage' /\ RowInStep'
    BY <1>01, <2>1 DEF OnlyRun, SessionInStage, RowInStep
  <2> QED BY <2>1, <2>2, <2>3 DEF ProgressInv
<1>10. CASE ApiRestart
  <2>1. /\ request' # "created" /\ UNCHANGED <<row, events, executor, deliveries>>
        /\ runner' = runner \/ runner'.pc = "idle"
        /\ task' \in {task, "none"}
    BY <1>10 DEF ApiRestart, Idle
  <2>2. \A r \in Requests : loaded'[r] = NotLoaded
    BY <1>10 DEF ApiRestart
  <2> QED BY <2>1, <2>2, NothingShown
<1>11. ASSUME NEW s \in Sweepers, SweepSelect(s) PROVE ProgressInv'
  <2>1. row.status # "FAILED" /\ loaded' = [loaded EXCEPT ![s] = row]
    BY <1>11 DEF SweepSelect, Stale, Running
  <2>2. \A r \in Requests : loaded'[r] = loaded[r] \/ loaded'[r] = row
    BY <1>0, <2>1
  <2> QED BY <1>11, <2>1, <2>2, NothingShown DEF SweepSelect
<1>12. ASSUME NEW s \in Sweepers, SweepCommit(s) PROVE ProgressInv'
  <2> DEFINE why == IF loaded[s].status = "QUEUED" THEN "neverStarted" ELSE "stopped"
  <2>1. loaded[s] \in Rows /\ loaded[s].status # "FAILED" /\ why \in Errors
    BY <1>0 DEF Requests
  <2>2. /\ UNCHANGED <<events, executor, request, task, deliveries, runner>>
        /\ UNCHANGED row \/ row' = Flush(row, loaded[s], Stopped(loaded[s], why))
        /\ \A r \in Requests : loaded'[r] \in {loaded[r], NotLoaded}
    BY <1>0, <1>12 DEF SweepCommit
  <2> HIDE DEF why
  <2>3. CASE UNCHANGED row
    BY <2>2, <2>3, NothingShown
  <2>4. CASE ~UNCHANGED row
    <3>1. row'.status = "FAILED" /\ row'.current_stage \in {row.current_stage, 0}
      BY <1>0, <2>1, <2>2, <2>4, OtherFails
    <3> QED BY <2>2, <3>1, FailedByOther
  <2> QED BY <2>3, <2>4
<1>13. ASSUME NEW m \in Misrouters, MisrouteSelect(m) PROVE ProgressInv'
  <2>1. row.status # "FAILED" /\ loaded' = [loaded EXCEPT ![m] = row]
    BY <1>13 DEF MisrouteSelect
  <2>2. \A r \in Requests : loaded'[r] = loaded[r] \/ loaded'[r] = row
    BY <1>0, <2>1
  <2> QED BY <1>13, <2>1, <2>2, NothingShown DEF MisrouteSelect
<1>14. ASSUME NEW m \in Misrouters, MisrouteCommit(m) PROVE ProgressInv'
  <2>1. loaded[m] \in Rows /\ loaded[m].status # "FAILED"
    BY <1>0 DEF Requests
  <2>2. /\ UNCHANGED <<events, executor, request, task, deliveries, runner>>
        /\ UNCHANGED row \/ row' = Flush(row, loaded[m], Refused(loaded[m], "wrongType"))
        /\ \A r \in Requests : loaded'[r] \in {loaded[r], NotLoaded}
    BY <1>0, <1>14 DEF MisrouteCommit
  <2>3. CASE UNCHANGED row
    BY <2>2, <2>3, NothingShown
  <2>4. CASE ~UNCHANGED row
    <3>1. row'.status = "FAILED" /\ row'.current_stage = row.current_stage
      BY <1>0, <2>1, <2>2, <2>4, OtherFails
    <3> QED BY <2>2, <3>1, FailedByOther
  <2> QED BY <2>3, <2>4
<1>15. CASE Delete \/ Tick \/ UNCHANGED vars
  BY <1>15, NothingShown DEF Delete, Tick, vars
<1> QED
  BY <1>1, <1>2, <1>3, <1>4, <1>5, <1>6, <1>7, <1>8, <1>9, <1>10, <1>11, <1>12, <1>13, <1>14, <1>15
  DEF Next, RunnerStep

\* Where no task is redelivered, a running status shows the stage the runner
\* is in, whatever sweeps and misrouted uploads wrote in between.
THEOREM ProgressShown == Spec => []ProgressIsLive
<1>1. Init => ProgressInv
  BY DEF Init, ProgressInv, CopiesUnfailed, OnlyRun, SessionInStage, RowInStep, NewRow, NotLoaded, Idle
<1>2. TypeInv /\ ProgressInv => ProgressIsLive
  BY DEF ProgressInv, SessionInStage, RowInStep, RowInStage, ProgressIsLive
<1> QED BY <1>1, <1>2, TypeInvInit, TypeInvNext, ProgressStep, PTL DEF Spec

-----------------------------------------------------------------------------
(* Implementation of Timeline.                                             *)

\* An interval from 1 determines its end.
LEMMA SameInterval ==
  ASSUME NEW m \in Nat, NEW n \in Nat, 1..m = 1..n
  PROVE  m = n
<1>1. ASSUME m < n PROVE FALSE
  <2>1. n \in 1..n /\ n \notin 1..m
    BY <1>1
  <2> QED BY <2>1
<1>2. ASSUME n < m PROVE FALSE
  <2>1. m \in 1..m /\ m \notin 1..n
    BY <1>2
  <2> QED BY <2>1
<1> QED BY <1>1, <1>2

\* The log of the abstract timeline is a sequence as long as the events, and
\* fails where they fail.
LEMMA LogIsSeq ==
  ASSUME events \in Seq(EventType)
  PROVE  /\ Log \in Seq(Outcomes) /\ Len(Log) = Len(events)
         /\ \A i \in 1..Len(events) : Log[i] = events[i].status
         /\ NoFailure => \A i \in 1..Len(Log) : Log[i] # "failed"
<1>1. Len(events) \in Nat /\ \A i \in 1..Len(events) : events[i] \in EventType
  BY LenProperties, ElementOfSeq
<1>2. Log \in [1..Len(events) -> Outcomes]
  BY <1>1 DEF Log, EventType
<1>3. Log \in Seq(Outcomes)
  BY <1>1, <1>2, SeqDef
<1>4. Len(Log) = Len(events)
  <2>1. DOMAIN Log = 1..Len(Log) /\ Len(Log) \in Nat
    BY <1>3, LenProperties
  <2>2. DOMAIN Log = 1..Len(events)
    BY DEF Log
  <2> QED BY <1>1, <2>1, <2>2
<1> QED BY <1>3, <1>4 DEF Log, NoFailure

\* Recording an event appends its outcome to the log.
LEMMA LogAppend ==
  ASSUME events \in Seq(EventType), NEW e \in EventType, events' = Append(events, e)
  PROVE  Log' = Append(Log, e.status)
<1> DEFINE n == Len(events)
<1>1. /\ n \in Nat /\ events' \in Seq(EventType) /\ Len(events') = n + 1
      /\ \A i \in 1..n+1 : events'[i] = IF i = n + 1 THEN e ELSE events[i]
  BY LenProperties
<1>2. Log \in Seq(Outcomes) /\ Len(Log) = n /\ \A i \in 1..n : Log[i] = events[i].status
  BY LogIsSeq
<1>3. Log' \in Seq(Outcomes) /\ Len(Log') = n + 1 /\ \A i \in 1..n+1 : Log'[i] = events'[i].status
  <2>1. Log' = [i \in 1..n+1 |-> events'[i].status]
    BY <1>1 DEF Log
  <2>2. \A i \in 1..n+1 : events'[i].status \in Outcomes
    <3> TAKE i \in 1..n+1
    <3>1. events'[i] \in EventType
      BY <1>1, ElementOfSeq
    <3> QED BY <3>1 DEF EventType
  <2>7. Log' \in [1..n+1 -> Outcomes]
    <3> HIDE DEF n
    <3> QED BY <2>1, <2>2
  <2>3. Log' \in Seq(Outcomes)
    BY <1>1, <2>7, SeqDef
  <2>4. DOMAIN Log' = 1..Len(Log') /\ Len(Log') \in Nat
    BY <2>3, LenProperties
  <2>5. DOMAIN Log' = 1..n+1
    BY <2>1
  <2>6. Len(Log') = n + 1
    <3> HIDE DEF n
    <3> DEFINE j == Len(Log')
               k == n + 1
    <3>1. k \in Nat
      BY <1>1
    <3>2. j \in Nat /\ 1..j = 1..k
      BY <2>4, <2>5, Zenon
    <3> HIDE DEF j, k
    <3>3. j = k
      BY <3>1, <3>2, SameInterval
    <3> QED BY <3>3 DEF j, k
  <2> QED BY <2>1, <2>3, <2>6
<1>4. e.status \in Outcomes
  BY DEF EventType
<1>5. /\ Append(Log, e.status) \in Seq(Outcomes) /\ Len(Append(Log, e.status)) = n + 1
      /\ \A i \in 1..n+1 : Append(Log, e.status)[i] = IF i = n + 1 THEN e.status ELSE Log[i]
  BY <1>1, <1>2, <1>4
<1>6. \A i \in 1..n+1 : Log'[i] = Append(Log, e.status)[i]
  BY <1>1, <1>2, <1>3, <1>5
<1> HIDE DEF n
<1> QED BY <1>3, <1>5, <1>6, SeqEqual

\* No event, no log.
LEMMA LogEmpty ==
  ASSUME events = <<>>
  PROVE  Log = <<>>
<1>1. events \in Seq(EventType) /\ Len(events) = 0
  BY EmptySeq
<1>2. Log \in Seq(Outcomes) /\ Len(Log) = 0
  BY <1>1, LogIsSeq
<1> QED BY <1>2, EmptySeq


\* The same of the next state.
LEMMA LogEmptyNext ==
  ASSUME events' = <<>>
  PROVE  Log' = <<>>
<1>1. Log' = [i \in 1..Len(events') |-> events'[i].status]
  BY DEF Log
<1>2. [i \in 1..Len(<<>>) |-> (<<>>)[i].status] = <<>>
  OBVIOUS
<1> QED BY <1>1, <1>2

\* A step that leaves the record alone and completes nothing is no step of
\* the timeline, or takes back COMPLETED.
LEMMA KeepsRecord ==
  ASSUME UNCHANGED <<present, events>>, row'.result = row.result,
         row'.status = "COMPLETED" => row.status = "COMPLETED"
  PROVE  [TL!Next]_(TL!timelineVars)
<1>1. UNCHANGED <<Log, Published, present>>
  BY DEF Log, Published
<1>2. CASE Sealed' = Sealed
  BY <1>1, <1>2 DEF TL!timelineVars
<1>3. CASE Sealed' # Sealed
  <2>1. Sealed /\ Sealed' = FALSE
    BY <1>3 DEF Sealed
  <2> QED BY <1>1, <2>1 DEF TL!Next, TL!Unseal
<1> QED BY <1>2, <1>3

\* A step in which a runner at work records an event is a RecordStage.
LEMMA RecordsStage ==
  ASSUME TypeInv, IInv, present, present', runner.pc = "work", NEW outcome \in Outcomes,
         events' = Append(events, Event(outcome)), row'.status # "COMPLETED",
         row'.result = 0 \/ (runner.stage = LastStage /\ outcome # "skipped")
  PROVE  TL!Next
<1>1. /\ NoFailure /\ Len(events) = runner.seq /\ runner.seq = runner.stage - 1
      /\ row.result = 0 /\ row.status # "COMPLETED"
  BY AtWork
<1>2. /\ events \in Seq(EventType) /\ runner.stage \in 1..LastStage /\ runner.seq \in 0..LastStage
      /\ runner.seq + 1 = runner.stage /\ runner.seq < LastStage
  BY <1>1 DEF TypeInv, TypeOK, RunnerType, LastStage
<1>3. Event(outcome) \in EventType /\ Event(outcome).status = outcome
  BY <1>2 DEF Event, EventType
<1>4. Log' = Append(Log, outcome)
  BY <1>2, <1>3, LogAppend
<1>5. Len(Log) = runner.seq /\ \A i \in 1..Len(Log) : Log[i] # "failed"
  BY <1>1, <1>2, LogIsSeq
<1>6. ~Sealed /\ ~Published /\ Sealed' = FALSE /\ Sealed = FALSE
  BY <1>1 DEF Sealed, Published
<1>7. \/ Published' = FALSE
      \/ Len(Log) + 1 = LastStage /\ outcome # "skipped" /\ Published' = TRUE
  BY <1>2, <1>5 DEF Published
<1>8. TL!RecordStage(outcome)
  BY <1>2, <1>4, <1>5, <1>6, <1>7 DEF TL!RecordStage
<1> QED BY <1>8 DEF TL!Next, Outcomes

\* Every step of the writers of one investigation is a step of the timeline
\* or leaves it alone.
LEMMA TimelineStep ==
  ASSUME TypeInv, IInv, [Next]_vars
  PROVE  [TL!Next]_(TL!timelineVars)
<1>0. /\ row \in Rows /\ NewRow \in Rows /\ runner.mem \in Rows
      /\ \A r \in Requests : loaded[r] \in Rows
      /\ {"stopped", "neverStarted", "unavailable", "wrongType", "pipeline"} \subseteq Errors
  BY NewRowType DEF TypeInv, TypeOK, Errors, RunnerType
<1>1. CASE \/ Dispatch \/ DispatchRaises \/ WorkerLost \/ TimeLimitHit \/ ApiRestart \/ Tick
           \/ Begin \/ LoseStage \/ Return \/ UNCHANGED vars
           \/ \E s \in Sweepers : SweepSelect(s)
           \/ \E m \in Misrouters : MisrouteSelect(m)
  <2>1. UNCHANGED <<row, present, events>>
    BY <1>1 DEF Dispatch, DispatchRaises, WorkerLost, TimeLimitHit, ApiRestart, Tick, Begin, LoseStage,
                Return, SweepSelect, MisrouteSelect, vars
  <2> QED BY <2>1, KeepsRecord
<1>2. CASE RejectType \/ RecordRefusal
  <2>1. row'.result = row.result /\ row'.status \in {row.status, "FAILED"}
    BY <1>0, <1>2, OtherCommit DEF RejectType, RecordRefusal
  <2>2. UNCHANGED <<present, events>>
    BY <1>2 DEF RejectType, RecordRefusal
  <2> QED BY <2>1, <2>2, KeepsRecord
<1>3. ASSUME NEW s \in Sweepers, SweepCommit(s) PROVE [TL!Next]_(TL!timelineVars)
  <2> DEFINE why == IF loaded[s].status = "QUEUED" THEN "neverStarted" ELSE "stopped"
  <2>1. loaded[s] \in Rows /\ why \in Errors
    BY <1>0 DEF Requests
  <2>2. /\ UNCHANGED <<present, events>>
        /\ UNCHANGED row \/ row' = Flush(row, loaded[s], Stopped(loaded[s], why))
    BY <1>3 DEF SweepCommit
  <2>3. row'.result = row.result /\ row'.status \in {row.status, "FAILED"}
    BY <1>0, <2>1, <2>2, OtherCommit
  <2> QED BY <2>2, <2>3, KeepsRecord
<1>4. ASSUME NEW m \in Misrouters, MisrouteCommit(m) PROVE [TL!Next]_(TL!timelineVars)
  <2>1. loaded[m] \in Rows
    BY <1>0 DEF Requests
  <2>2. /\ UNCHANGED <<present, events>>
        /\ UNCHANGED row \/ row' = Flush(row, loaded[m], Refused(loaded[m], "wrongType"))
    BY <1>4 DEF MisrouteCommit
  <2>3. row'.result = row.result /\ row'.status \in {row.status, "FAILED"}
    BY <1>0, <2>1, <2>2, OtherCommit
  <2> QED BY <2>2, <2>3, KeepsRecord
<1>5. CASE Delete
  <2>1. /\ present /\ ~present' /\ Log' = <<>> /\ Published' = FALSE /\ Sealed' = FALSE
    BY <1>5, LogEmptyNext DEF Delete, Published, Sealed
  <2> QED BY <2>1 DEF TL!Next, TL!Delete
<1>6. CASE ClearPartialAttempt
  <2>1. /\ runner.pc = "begun" /\ runner.mem.result = row.result /\ row.status # "COMPLETED"
        /\ UNCHANGED present
    BY <1>6 DEF ClearPartialAttempt, IInv, ResultOfAttempt, UnfinishedRun
  <2>2. CASE events = <<>>
    <3>1. UNCHANGED <<row, present, events>>
      BY <1>6, <2>2 DEF ClearPartialAttempt
    <3> QED BY <3>1, KeepsRecord
  <2>3. CASE events # <<>>
    <3>1. /\ present /\ events' = <<>>
          /\ row' = Flush(row, runner.mem, Resulted(runner.mem, 0))
      BY <1>6, <2>3 DEF ClearPartialAttempt, IInv, DeletedIsEmpty
    <3>2. row'.result = 0 /\ row'.status = row.status
      BY <1>0, <2>1, <3>1 DEF Flush, Column, Resulted, Rows
    <3>3. Log' = <<>> /\ Published' = FALSE /\ ~Sealed /\ Sealed' = Sealed
      BY <2>1, <3>1, <3>2, LogEmptyNext DEF Published, Sealed
    <3> QED BY <2>1, <3>1, <3>3 DEF TL!Next, TL!Discard
  <2> QED BY <2>2, <2>3
<1>7. CASE EnterStage \/ Abort
  <2>1. /\ UNCHANGED <<present, events>>
        /\ \/ UNCHANGED row
           \/ row' = Flush(row, runner.mem, InStage(runner.mem, runner.stage))
           \/ row' = Stopped(row, "pipeline")
    BY <1>7 DEF EnterStage, Abort
  <2>2. row.status # "COMPLETED"
    BY <1>7 DEF EnterStage, Abort, IInv, UnfinishedRun
  <2>3. STAGE_STATUS[runner.stage] # "COMPLETED"
    BY StageStatusType DEF TypeInv, TypeOK, RunnerType, Running
  <2>4. row'.result = row.result /\ row'.status # "COMPLETED"
    <3>1. CASE UNCHANGED row
      BY <2>2, <3>1
    <3>2. CASE row' = Flush(row, runner.mem, InStage(runner.mem, runner.stage))
      <4> DEFINE new == InStage(runner.mem, runner.stage)
      <4>1. new.result = runner.mem.result /\ new.status = STAGE_STATUS[runner.stage]
        BY <1>0 DEF InStage, Rows
      <4>2. row' = Flush(row, runner.mem, new)
        BY <3>2
      <4> HIDE DEF new
      <4> QED BY <2>2, <2>3, <4>1, <4>2 DEF Flush, Column
    <3>3. CASE row' = Stopped(row, "pipeline")
      BY <1>0, <3>3 DEF Stopped, Rows
    <3> QED BY <2>1, <3>1, <3>2, <3>3
  <2> QED BY <2>1, <2>4, KeepsRecord
<1>8. CASE \E outcome \in {"completed", "skipped"} : EndStage(outcome)
  <2>1. PICK outcome \in {"completed", "skipped"} : EndStage(outcome)
    BY <1>8
  <2>2. /\ present /\ present' /\ runner.pc = "work" /\ events' = Append(events, Event(outcome))
        /\ row' = row /\ outcome \in Outcomes
    BY <2>1 DEF EndStage, Outcomes
  <2>3. row.status # "COMPLETED" /\ row.result = 0
    BY <2>2, AtWork
  <2> QED BY <2>2, <2>3, RecordsStage
<1>9. CASE Store
  <2>1. /\ present /\ present' /\ runner.pc = "work" /\ runner.stage = LastStage
        /\ events' = Append(events, Event("completed")) /\ "completed" \in Outcomes
        /\ row' = Flush(row, runner.mem, Scored(runner.mem, deliveries))
    BY <1>9 DEF Store, Outcomes, STORAGE, LastStage
  <2>2. row'.status # "COMPLETED"
    BY <1>0, <2>1, AtWork DEF Flush, Column, Scored, Rows
  <2> QED BY <2>1, <2>2, RecordsStage
<1>10. CASE FailStage
  <2>1. /\ present /\ present' /\ runner.pc = "work"
        /\ events' = Append(events, Event("failed")) /\ "failed" \in Outcomes
        /\ \/ UNCHANGED row
           \/ /\ runner.stage = LastStage
              /\ \/ row' = Flush(row, runner.mem, Resulted(runner.mem, deliveries))
                 \/ row' = Flush(row, runner.mem, Scored(runner.mem, deliveries))
    BY <1>10 DEF FailStage, Outcomes, STORAGE, LastStage
  <2>2. row'.status # "COMPLETED" /\ (row'.result = 0 \/ runner.stage = LastStage)
    BY <1>0, <2>1, AtWork DEF Flush, Column, Resulted, Scored, Rows
  <2> QED BY <2>1, <2>2, RecordsStage
<1>11. CASE Complete
  <2>1. /\ runner.pc = "finish" /\ UNCHANGED <<present, events>>
        /\ UNCHANGED row \/ (present /\ row' = Flush(row, runner.mem, Finished(runner.mem)))
    BY <1>11 DEF Complete
  <2>2. row'.result = row.result
    BY <1>0, <2>1 DEF Flush, Column, Finished, Rows
  <2>3. CASE ~present \/ row'.status # "COMPLETED" \/ row.status = "COMPLETED"
    <3>1. CASE row'.status = "COMPLETED" => row.status = "COMPLETED"
      BY <2>1, <2>2, <3>1, KeepsRecord
    <3>2. CASE ~present
      BY <2>1, <2>2, <3>2, KeepsRecord
    <3> QED BY <2>3, <3>1, <3>2
  <2>4. CASE present /\ row'.status = "COMPLETED" /\ row.status # "COMPLETED"
    <3>1. /\ row.result = deliveries /\ deliveries > 0 /\ deliveries \in Nat
          /\ Len(events) = LastStage /\ NoFailure /\ events \in Seq(EventType)
      BY <2>1, <2>4 DEF IInv, ResultOfAttempt, RunnerPlaced, AttemptsNumbered, TypeInv, TypeOK, Attempts
    <3>2. Published /\ Len(Log) = LastStage /\ \A i \in 1..Len(Log) : Log[i] # "failed"
      BY <2>4, <3>1, LogIsSeq DEF Published
    <3>3. Sealed' = TRUE /\ UNCHANGED <<Log, Published, present>>
      BY <2>1, <2>2, <2>4 DEF Sealed, Log, Published
    <3> QED BY <2>4, <3>2, <3>3 DEF TL!Next, TL!Seal
  <2> QED BY <2>3, <2>4
<1> QED
  BY <1>1, <1>2, <1>3, <1>4, <1>5, <1>6, <1>7, <1>8, <1>9, <1>10, <1>11 DEF Next, RunnerStep

\* The record of an investigation is a Timeline, whatever writes it.
THEOREM Refinement == Spec => ImplementsTimeline
<1>1. Init => TL!Init
  <2> SUFFICES ASSUME Init PROVE TL!Init
    OBVIOUS
  <2>1. Log = <<>>
    BY LogEmpty DEF Init
  <2> QED BY <2>1 DEF Init, TL!Init, Published, Sealed, NewRow
<1>2. TypeInv /\ IInv /\ [Next]_vars => [TL!Next]_(TL!timelineVars)
  BY TimelineStep
<1> QED BY <1>1, <1>2, Inductive, PTL DEF Spec, ImplementsTimeline, TL!Spec
=============================================================================
