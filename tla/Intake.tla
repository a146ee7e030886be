------------------------------- MODULE Intake -------------------------------
(***************************************************************************)
(* Opening investigations of one content by one person: the look for a     *)
(* recent duplicate, the public number from the year's counter row, the    *)
(* commit, and the hand-over to the queue behind the cached broker probe.  *)
(*                                                                         *)
(* The counter is modelled as PostgreSQL runs it: an UPDATE or an INSERT   *)
(* of the row holds it until its transaction ends.  MaxInvestigations and  *)
(* MaxRounds bound the rows and are the rounds of next_public_id.          *)
(***************************************************************************)
EXTENDS Naturals, Sequences

CONSTANTS Submitters,         \* requests that may be open at the same time
          MaxInvestigations,  \* bound: investigations opened
          MaxRounds           \* rounds of next_public_id

ASSUME IntakeAssumption == MaxInvestigations \in Nat /\ MaxRounds \in Nat \ {0, 1}

Nobody == "nobody"
ASSUME NobodyAssumption == Nobody \notin Submitters

VARIABLES
  apart,      \* whether a request is only sent when no other is open; never changes
  rows,       \* the committed investigations, in order of commit
  counter,    \* the committed investigation_counters row: 0 when there is none
  holder,     \* the transaction that has written the counter row
  opening,    \* the open request of each submitter
  broker,     \* whether the broker takes messages
  probe,      \* _probe: what the cached answer is
  stopped     \* whether a process has stopped between a commit and its hand-over

intakeVars == <<apart, rows, counter, holder, opening, broker, probe, stopped>>

Ids == 1..MaxInvestigations + 1
Row == [id : Ids, status : {"QUEUED", "FAILED", "COMPLETED"},
        recent : BOOLEAN, handed : BOOLEAN, deleted : BOOLEAN]
Opening == [op : {"create", "reanalyze"},
            pc : {"idle", "sent", "numbering", "creating", "numbered", "dispatching",
                  "enqueueing", "probing", "failing", "gaveUp"},
            round : 0..MaxRounds, id : 0..MaxInvestigations + 1, row : 0..MaxInvestigations]
NoOpening == [op |-> "create", pc |-> "idle", round |-> 0, id |-> 0, row |-> 0]

IntakeTypeOK ==
  /\ apart \in BOOLEAN /\ stopped \in BOOLEAN
  /\ rows \in Seq(Row) /\ Len(rows) <= MaxInvestigations
  /\ counter \in 0..MaxInvestigations
  /\ holder \in Submitters \cup {Nobody}
  /\ opening \in [Submitters -> Opening]
  /\ broker \in {"up", "down"} /\ probe \in {"none", "up", "down"}

IntakeStart(a) ==
  /\ apart = a /\ stopped = FALSE
  /\ rows = <<>> /\ counter = 0 /\ holder = Nobody
  /\ opening = [c \in Submitters |-> NoOpening]
  /\ broker = "up" /\ probe = "none"
IntakeInit == \E a \in BOOLEAN : IntakeStart(a)

OpeningTo(c, pc) == opening' = [opening EXCEPT ![c].pc = pc]
Answer(c) == opening' = [opening EXCEPT ![c] = NoOpening]

\* recent_duplicate: the caller's own, of the window, not failed.
Duplicates == {i \in 1..Len(rows) : rows[i].recent /\ ~rows[i].deleted /\ rows[i].status # "FAILED"}

-----------------------------------------------------------------------------
(* The request.                                                            *)

Post(c, op) ==
  /\ opening[c].pc = "idle" /\ (apart => \A d \in Submitters : opening[d].pc = "idle")
  /\ op = "reanalyze" => \E i \in 1..Len(rows) : rows[i].status # "QUEUED" /\ ~rows[i].deleted
  /\ opening' = [opening EXCEPT ![c].op = op, ![c].pc = "sent"]
  /\ apart' = apart /\ UNCHANGED <<rows, counter, holder, broker, probe, stopped>>

\* Mutant of LookForDuplicate: the window is not looked at.
LookForNothing(c) ==
  /\ opening[c].pc = "sent" /\ OpeningTo(c, "numbering")
  /\ apart' = apart /\ UNCHANGED <<rows, counter, holder, broker, probe, stopped>>

\* A duplicate is answered with the investigation already open; dispatch
\* returns "existing".  reanalyze does not look.
LookForDuplicate(c) ==
  /\ opening[c].pc = "sent"
  /\ IF opening[c].op = "create" /\ Duplicates # {} THEN Answer(c) ELSE OpeningTo(c, "numbering")
  /\ apart' = apart /\ UNCHANGED <<rows, counter, holder, broker, probe, stopped>>

\* Mutant of UpdateCounter: the number is one more than the rows there are.
CountRows(c) ==
  /\ opening[c].pc = "numbering" /\ holder = Nobody
  /\ holder' = c
  /\ opening' = [opening EXCEPT ![c].pc = "numbered",
                   ![c].id = 1 + Len(SelectSeq(rows, LAMBDA r : ~r.deleted))]
  /\ apart' = apart /\ UNCHANGED <<rows, counter, broker, probe, stopped>>

\* UPDATE ... RETURNING: it waits for the transaction that holds the row, and
\* finds none while the row is not committed.
UpdateCounter(c) ==
  /\ opening[c].pc = "numbering"
  /\ IF counter = 0
     THEN OpeningTo(c, "creating") /\ UNCHANGED holder
     ELSE /\ holder = Nobody /\ holder' = c
          /\ opening' = [opening EXCEPT ![c].pc = "numbered", ![c].id = counter + 1]
  /\ apart' = apart /\ UNCHANGED <<rows, counter, broker, probe, stopped>>

\* The INSERT in a savepoint: it waits likewise; when the row has been
\* committed it fails, and the loop goes round.
CreateCounter(c) ==
  /\ opening[c].pc = "creating" /\ holder = Nobody
  /\ IF counter = 0
     THEN /\ holder' = c
          /\ opening' = [opening EXCEPT ![c].pc = "numbered", ![c].id = 1]
     ELSE /\ UNCHANGED holder
          /\ opening' = [opening EXCEPT ![c].round = @ + 1,
               ![c].pc = IF opening[c].round + 1 = MaxRounds THEN "gaveUp" ELSE "numbering"]
  /\ apart' = apart /\ UNCHANGED <<rows, counter, broker, probe, stopped>>

\* The commit of the investigation, its input and the counter.
CommitRow(c) ==
  /\ opening[c].pc = "numbered" /\ Len(rows) < MaxInvestigations
  /\ rows' = Append(rows, [id |-> opening[c].id, status |-> "QUEUED", recent |-> TRUE,
                           handed |-> FALSE, deleted |-> FALSE])
  /\ counter' = opening[c].id /\ holder' = Nobody
  /\ opening' = [opening EXCEPT ![c].pc = "dispatching", ![c].row = Len(rows) + 1]
  /\ apart' = apart /\ UNCHANGED <<broker, probe, stopped>>

\* dispatch asks broker_reachable, which may answer from the probe it keeps.
AskProbe(c) ==
  /\ opening[c].pc = "dispatching"
  /\ LET answer == IF probe = "none" THEN broker ELSE probe
     IN probe' = answer /\ OpeningTo(c, IF answer = "up" THEN "enqueueing" ELSE "failing")
  /\ apart' = apart /\ UNCHANGED <<rows, counter, holder, broker, stopped>>

\* run_investigation.delay.
Enqueue(c) ==
  /\ opening[c].pc = "enqueueing"
  /\ IF broker = "up"
     THEN rows' = [rows EXCEPT ![opening[c].row].handed = TRUE] /\ Answer(c)
     ELSE OpeningTo(c, "probing") /\ UNCHANGED rows
  /\ apart' = apart /\ UNCHANGED <<counter, holder, broker, probe, stopped>>

\* broker_reachable(fresh=True) after a message the broker did not take.
ProbeAgain(c) ==
  /\ opening[c].pc = "probing"
  /\ probe' = broker /\ OpeningTo(c, "failing")
  /\ apart' = apart /\ UNCHANGED <<rows, counter, holder, broker, stopped>>

\* _dispatch_or_fail records the failure, unless the owner has deleted the row.
DispatchFailed(c) ==
  /\ opening[c].pc = "failing"
  /\ rows' = IF rows[opening[c].row].deleted THEN rows
             ELSE [rows EXCEPT ![opening[c].row].status = "FAILED"]
  /\ Answer(c)
  /\ apart' = apart /\ UNCHANGED <<counter, holder, broker, probe, stopped>>

\* The process stops within a request; its transaction is rolled back.
StopRequest(c) ==
  /\ opening[c].pc # "idle"
  /\ stopped' = (stopped \/ opening[c].row # 0)
  /\ holder' = IF holder = c THEN Nobody ELSE holder
  /\ Answer(c)
  /\ apart' = apart /\ UNCHANGED <<rows, counter, broker, probe>>

-----------------------------------------------------------------------------
(* Around it.                                                              *)

\* A worker takes the message and the run ends.
RunEnds(i, status) ==
  /\ i \in 1..Len(rows) /\ rows[i].handed /\ rows[i].status = "QUEUED"
  /\ rows' = [rows EXCEPT ![i].status = status]
  /\ apart' = apart /\ UNCHANGED <<counter, holder, opening, broker, probe, stopped>>

\* INVESTIGATION_DEDUP_SECONDS have passed.
WindowPasses(i) ==
  /\ i \in 1..Len(rows) /\ rows[i].recent
  /\ rows' = [rows EXCEPT ![i].recent = FALSE]
  /\ apart' = apart /\ UNCHANGED <<counter, holder, opening, broker, probe, stopped>>

\* The owner deletes an investigation.
DeleteRow(i) ==
  /\ i \in 1..Len(rows) /\ ~rows[i].deleted
  /\ rows' = [rows EXCEPT ![i].deleted = TRUE]
  /\ apart' = apart /\ UNCHANGED <<counter, holder, opening, broker, probe, stopped>>

\* BROKER_PROBE_TTL_SECONDS have passed; the broker stops or comes back.
ProbeAges ==
  /\ probe # "none" /\ probe' = "none"
  /\ apart' = apart /\ UNCHANGED <<rows, counter, holder, opening, broker, stopped>>
BrokerChanges ==
  /\ broker' = IF broker = "up" THEN "down" ELSE "up"
  /\ apart' = apart /\ UNCHANGED <<rows, counter, holder, opening, probe, stopped>>

IntakeNext ==
  \/ \E c \in Submitters :
       \/ \E op \in {"create", "reanalyze"} : Post(c, op)
       \/ LookForDuplicate(c) \/ UpdateCounter(c) \/ CreateCounter(c) \/ CommitRow(c)
       \/ AskProbe(c) \/ Enqueue(c) \/ ProbeAgain(c) \/ DispatchFailed(c)
       \/ StopRequest(c)
  \/ \E i \in 1..MaxInvestigations :
       \/ \E status \in {"COMPLETED", "FAILED"} : RunEnds(i, status)
       \/ WindowPasses(i) \/ DeleteRow(i)
  \/ ProbeAges
  \/ BrokerChanges

IntakeSpec == IntakeInit /\ [][IntakeNext]_intakeVars

-----------------------------------------------------------------------------
(* Properties.                                                             *)

\* No number is given to two investigations, not even to one whose predecessor
\* was deleted, and whoever loses the race for the first row of the year.
NumbersNeverReused ==
  \A i, j \in 1..Len(rows) : rows[i].id = rows[j].id => i = j

\* The loser of that race gets a number: the RuntimeError of next_public_id is
\* never raised.
NumberFound == \A c \in Submitters : opening[c].pc # "gaveUp"

\* "Never leave a QUEUED record that nothing will ever pick up": unless a
\* process has stopped, an investigation without an open request is handed over
\* or has failed, however old the probe's answer was.
NothingStranded ==
  stopped \/ \A i \in 1..Len(rows) :
    \/ rows[i].handed \/ rows[i].status = "FAILED" \/ rows[i].deleted
    \/ \E c \in Submitters : opening[c].row = i

\* The three of them, over the shapes of the variables.
IntakeInvariant == IntakeTypeOK /\ NumbersNeverReused /\ NumberFound /\ NothingStranded

\* Requests that do not overlap: a second submission within the window does not
\* open a second investigation, unless the first has failed or was re-run.
SubmittedOnce == [][
  apart => \A c \in Submitters :
    CommitRow(c) /\ opening[c].op = "create" => Duplicates = {}]_intakeVars
=============================================================================
