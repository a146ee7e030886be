------------------------------ MODULE Timeline ------------------------------
(***************************************************************************)
(* What the record of an investigation promises its reader, whatever       *)
(* process writes it: the stages appear in pipeline order, one entry each, *)
(* nothing follows a failed stage; the result appears together with the    *)
(* entry of the last stage; an investigation that shows COMPLETED keeps    *)
(* its timeline and its result until it is deleted.                        *)
(*                                                                         *)
(* An interrupted attempt may be discarded, and then the timeline starts   *)
(* again from nothing.  InvestigationLifecycle implements this module.     *)
(***************************************************************************)
EXTENDS Naturals, Sequences

CONSTANT LastStage      \* how many stages the pipeline has

VARIABLES log,          \* outcomes of the stages recorded so far, in order
          published,    \* a result is stored
          sealed,       \* the investigation shows COMPLETED
          deleted       \* the owner deleted it

timelineVars == <<log, published, sealed, deleted>>

Init == log = <<>> /\ ~published /\ ~sealed /\ ~deleted

\* A stage before the last one ends.
RecordStage(outcome) ==
  /\ ~deleted /\ ~sealed /\ ~published
  /\ \A i \in 1..Len(log) : log[i] # "failed"
  /\ Len(log) < LastStage
  /\ log' = Append(log, outcome)
  /\ \/ published' = FALSE
     \/ Len(log) + 1 = LastStage /\ outcome # "skipped" /\ published' = TRUE
  /\ UNCHANGED <<sealed, deleted>>

\* A new attempt throws away what an interrupted one left behind.
Discard ==
  /\ ~deleted /\ ~sealed
  /\ log' = <<>> /\ published' = FALSE
  /\ UNCHANGED <<sealed, deleted>>

Seal ==
  /\ ~deleted /\ published /\ Len(log) = LastStage
  /\ \A i \in 1..Len(log) : log[i] # "failed"
  /\ sealed' = TRUE
  /\ UNCHANGED <<log, published, deleted>>

\* COMPLETED is overwritten by FAILED: the record stays.
Unseal ==
  /\ sealed /\ sealed' = FALSE
  /\ UNCHANGED <<log, published, deleted>>

Delete ==
  /\ ~deleted /\ deleted' = TRUE
  /\ log' = <<>> /\ published' = FALSE /\ sealed' = FALSE

Next ==
  \/ \E outcome \in {"completed", "skipped", "failed"} : RecordStage(outcome)
  \/ Discard \/ Seal \/ Unseal \/ Delete

Spec == Init /\ [][Next]_timelineVars
=============================================================================
