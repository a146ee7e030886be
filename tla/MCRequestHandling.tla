-------------------------- MODULE MCRequestHandling --------------------------
(***************************************************************************)
(* The machines that handle requests over rows and entries they share, for *)
(* TLC: sessions, access to an account, the intake of investigations,      *)
(* reviews, the store of cited sources, the cache of fact-check feeds, and *)
(* the pure decisions.  They share no state.  The first state chooses the machine   *)
(* that runs; the others stay where they start.                            *)
(***************************************************************************)
EXTENDS SessionTokens, AccountAccess, Intake, Reviews, EvidenceStore, FactCheckFeeds, MCDecisions

VARIABLE machine

rowVars == <<intakeVars, reviewVars, storeVars>>
handlingVars == <<machine, vars, accessVars, rowVars, feedVars, decisionVars>>

Sessions == machine = "sessions" /\ UNCHANGED <<machine, accessVars, rowVars, feedVars, decisionVars>>
Access == machine = "access" /\ UNCHANGED <<machine, vars, rowVars, feedVars, decisionVars>>
Rows == UNCHANGED <<machine, vars, accessVars, feedVars, decisionVars>>
Submitting == machine = "intake" /\ Rows /\ UNCHANGED <<reviewVars, storeVars>>
Reviewing == machine = "reviews" /\ Rows /\ UNCHANGED <<intakeVars, storeVars>>
Storing == machine = "store" /\ Rows /\ UNCHANGED <<intakeVars, reviewVars>>
Feeds == machine = "feeds" /\ UNCHANGED <<machine, vars, accessVars, rowVars, decisionVars>>
Decisions == machine = "decisions" /\ UNCHANGED <<machine, vars, accessVars, rowVars, feedVars>>

\* What may overlap, and what is decided, is part of a machine's first state.
HandlingInit ==
  /\ machine \in {"sessions", "access", "intake", "reviews", "store", "feeds", "decisions"}
  /\ Init /\ (overlap => machine = "sessions")
  /\ \E s \in IF machine = "access" THEN BOOLEAN ELSE {FALSE} : AccessStart(FALSE, s)
  /\ \E a \in IF machine = "intake" THEN BOOLEAN ELSE {FALSE} : IntakeStart(a)
  /\ \E s \in IF machine = "reviews" THEN BOOLEAN ELSE {FALSE} : ReviewsStart(s)
  /\ \E a \in IF machine = "store" THEN BOOLEAN ELSE {FALSE} : StoreStart(a)
  /\ FeedsInit
  /\ \E k \in IF machine = "decisions" THEN DecisionKinds ELSE {"none"} : DecisionsStart(k)

HandlingNext ==
  \/ Sessions /\ Next
  \/ Access /\ AccessNext
  \/ Submitting /\ IntakeNext
  \/ Reviewing /\ ReviewsNext
  \/ Storing /\ StoreNext
  \/ Feeds /\ FeedsNext
  \/ Decisions /\ Add

HandlingSpec == HandlingInit /\ [][HandlingNext]_handlingVars

\* The callers of a session are interchangeable.
CallerSymmetry == Permutations(Callers)
=============================================================================
