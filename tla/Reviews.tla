------------------------------- MODULE Reviews -------------------------------
(***************************************************************************)
(* Feedback, appeals and reviewers' decisions on one completed             *)
(* investigation.  A request reads the rows, decides, and commits; nothing *)
(* locks them between.  A commit writes only the columns whose assigned    *)
(* value differs from the loaded one.                                      *)
(*                                                                         *)
(* People may submit (the owner, an administrator) and may decide; MaxRows *)
(* bounds the rows.                                                        *)
(***************************************************************************)
EXTENDS Naturals, Sequences, FiniteSets

CONSTANTS People, MaxRows

Unset == "unset"
ASSUME ReviewsAssumption == MaxRows \in Nat /\ Unset \notin People

VARIABLES
  singly,    \* whether a request is only sent when no other is open; never changes
  reviews,   \* the committed rows of investigation_reviews
  desk,      \* the open request of each person
  decided    \* what each person has decided on each row (kept when singly); never stored

reviewVars == <<singly, reviews, desk, decided>>

REVIEWER_LABELS == {"fraud", "legitimate"}   \* and "inconclusive", which is treated alike here
Review == [kind : {"feedback", "appeal"}, author : People \cup {Unset},
           status : {"open", "recorded", "resolved"},
           reviewer : People \cup {Unset}, label : REVIEWER_LABELS \cup {Unset}]
Desk == [pc : {"idle", "submitting", "replacing", "deciding"}, kind : {"feedback", "appeal"},
         row : 0..MaxRows, label : REVIEWER_LABELS \cup {Unset},
         oldReviewer : People \cup {Unset}, oldLabel : REVIEWER_LABELS \cup {Unset}]
NoDesk == [pc |-> "idle", kind |-> "feedback", row |-> 0, label |-> Unset,
           oldReviewer |-> Unset, oldLabel |-> Unset]

ReviewsTypeOK ==
  /\ singly \in BOOLEAN
  /\ reviews \in Seq(Review) /\ Len(reviews) <= MaxRows
  /\ \A i \in 1..Len(reviews) :
       /\ reviews[i].status = "resolved" <=> reviews[i].label # Unset
       /\ reviews[i].reviewer # Unset => reviews[i].status = "resolved"
  /\ desk \in [People -> Desk]
  /\ decided \in [People -> SUBSET ((1..MaxRows) \X REVIEWER_LABELS)]

ReviewsStart(s) ==
  /\ singly = s /\ reviews = <<>>
  /\ desk = [p \in People |-> NoDesk]
  /\ decided = [p \in People |-> {}]
ReviewsInit == \E s \in BOOLEAN : ReviewsStart(s)

MayAsk(p) == desk[p].pc = "idle" /\ (singly => \A q \in People : desk[q].pc = "idle")
OpenAppeals ==
  {i \in 1..Len(reviews) : reviews[i].kind = "appeal" /\ reviews[i].status = "open"}
FeedbackOf(p) ==
  {i \in 1..Len(reviews) : /\ reviews[i].kind = "feedback" /\ reviews[i].author = p
                           /\ reviews[i].status = "recorded"}

-----------------------------------------------------------------------------

\* submit, an appeal: refused when one is open.
Appeal(p) ==
  /\ MayAsk(p) /\ OpenAppeals = {}
  /\ desk' = [desk EXCEPT ![p].pc = "submitting", ![p].kind = "appeal"]
  /\ UNCHANGED <<singly, reviews, decided>>

\* submit, feedback: the person's recorded one is replaced.
GiveFeedback(p) ==
  /\ MayAsk(p)
  /\ \/ /\ FeedbackOf(p) = {}
        /\ desk' = [desk EXCEPT ![p].pc = "submitting", ![p].kind = "feedback", ![p].row = 0]
     \/ \E i \in FeedbackOf(p) :
          /\ \A j \in FeedbackOf(p) : i <= j
          /\ desk' = [desk EXCEPT ![p].pc = "replacing", ![p].kind = "feedback", ![p].row = i]
  /\ UNCHANGED <<singly, reviews, decided>>

\* The insert.
CommitReview(p) ==
  /\ desk[p].pc = "submitting" /\ Len(reviews) < MaxRows
  /\ reviews' = Append(reviews,
       [kind |-> desk[p].kind, author |-> p, reviewer |-> Unset, label |-> Unset,
        status |-> IF desk[p].kind = "appeal" THEN "open" ELSE "recorded"])
  /\ desk' = [desk EXCEPT ![p] = NoDesk]
  /\ UNCHANGED <<singly, decided>>

\* Mutant of CommitReplacement: every column is written.
CommitWholeRow(p) ==
  /\ desk[p].pc = "replacing"
  /\ reviews' = [reviews EXCEPT ![desk[p].row].status = "recorded"]
  /\ desk' = [desk EXCEPT ![p] = NoDesk]
  /\ UNCHANGED <<singly, decided>>

\* The update: label, comment and the snapshot of the result change; status
\* is "recorded" as loaded, and is not written.
CommitReplacement(p) ==
  /\ desk[p].pc = "replacing"
  /\ desk' = [desk EXCEPT ![p] = NoDesk]
  /\ UNCHANGED <<singly, reviews, decided>>

\* resolve loads any review of somebody else, an already decided one too.
TakeUp(p, i, label) ==
  /\ MayAsk(p) /\ i \in 1..Len(reviews) /\ reviews[i].author # p
  /\ desk' = [desk EXCEPT ![p].pc = "deciding", ![p].row = i, ![p].label = label,
                ![p].oldReviewer = reviews[i].reviewer, ![p].oldLabel = reviews[i].label]
  /\ UNCHANGED <<singly, reviews, decided>>

\* Mutant of Decide: the first reviewer stays named.
DecideForFirst(p) ==
  /\ desk[p].pc = "deciding"
  /\ LET i == desk[p].row
     IN /\ reviews' = [reviews EXCEPT ![i].status = "resolved", ![i].label = desk[p].label,
                         ![i].reviewer = IF @ = Unset THEN p ELSE @]
        /\ decided' = IF singly THEN [decided EXCEPT ![p] = @ \cup {<<i, desk[p].label>>}] ELSE decided
  /\ desk' = [desk EXCEPT ![p] = NoDesk]
  /\ UNCHANGED singly

\* Its commit: reviewer and label are written when they differ from what was
\* loaded.
Decide(p) ==
  /\ desk[p].pc = "deciding"
  /\ LET i == desk[p].row
     IN /\ reviews' = [reviews EXCEPT
                ![i].status = "resolved",
                ![i].reviewer = IF p = desk[p].oldReviewer THEN @ ELSE p,
                ![i].label = IF desk[p].label = desk[p].oldLabel THEN @ ELSE desk[p].label]
        /\ decided' = IF singly THEN [decided EXCEPT ![p] = @ \cup {<<i, desk[p].label>>}] ELSE decided
  /\ desk' = [desk EXCEPT ![p] = NoDesk]
  /\ UNCHANGED singly

\* ON DELETE SET NULL, of author_id and of reviewer_id: a decision stays, without
\* whoever made it.
Detached(p, row) == [row EXCEPT !.author = IF @ = p THEN Unset ELSE @,
                                !.reviewer = IF @ = p THEN Unset ELSE @]

\* What is left of an open request of somebody who is gone: a commit that would
\* write their id is refused by the foreign key and rolled back.
Unfinished(p) ==
  IF \/ desk[p].pc = "submitting"
     \/ desk[p].pc = "deciding" /\ desk[p].oldReviewer # p
  THEN NoDesk ELSE desk[p]

\* An account is deleted (that of the investigation's owner takes the
\* investigation and its reviews with it, and is left out).  Whoever signs up
\* again has decided nothing.
AccountLeaves(p) ==
  /\ singly => \A q \in People : desk[q].pc = "idle"
  /\ reviews' = [i \in 1..Len(reviews) |-> Detached(p, reviews[i])]
  /\ desk' = [desk EXCEPT ![p] = Unfinished(p)]
  /\ decided' = [decided EXCEPT ![p] = {}]
  /\ UNCHANGED singly

ReviewsNext ==
  \E p \in People :
    \/ Appeal(p) \/ GiveFeedback(p) \/ CommitReview(p) \/ CommitReplacement(p)
    \/ \E i \in 1..MaxRows, label \in REVIEWER_LABELS : TakeUp(p, i, label)
    \/ Decide(p)
    \/ AccountLeaves(p)

ReviewsSpec == ReviewsInit /\ [][ReviewsNext]_reviewVars

-----------------------------------------------------------------------------
(* Properties.                                                             *)

\* Requests one at a time: an investigation has one open appeal at most.
OneOpenAppeal == singly => Cardinality(OpenAppeals) <= 1

\* "One piece of feedback per person per investigation": one at a time, a
\* person has one recorded at most, whatever reviewers decide meanwhile.
OneFeedbackEach == singly => \A p \in People : Cardinality(FeedbackOf(p)) <= 1

\* "Attributed": requests one at a time, the decision a row shows is one its
\* reviewer made, although a decision may replace another and accounts are
\* deleted; without a reviewer only the decision is left.
DecisionAttributed ==
  singly => \A i \in 1..Len(reviews) : reviews[i].reviewer # Unset =>
              <<i, reviews[i].label>> \in decided[reviews[i].reviewer]

\* The three of them, over the shapes of the variables.
ReviewsInvariant == ReviewsTypeOK /\ OneOpenAppeal /\ OneFeedbackEach /\ DecisionAttributed

\* A decided review stays decided, although the submitter may be replacing the
\* feedback at the same time and assigns it the status "recorded".
DecidedForGood == [][
  \A i \in 1..Len(reviews) : reviews[i].status = "resolved" => reviews'[i].status = "resolved"]_reviewVars
=============================================================================
