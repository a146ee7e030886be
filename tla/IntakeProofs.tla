---------------------------- MODULE IntakeProofs ----------------------------
(* Theorems about Intake, for any submitters, rounds and bound on the rows. *)
EXTENDS Intake, TLAPS

\* Where a request is, relative to the rows, the counter and who holds it.
Placed(c) ==
  LET o == opening[c]
  IN /\ o.row \in 0..Len(rows)
     /\ o.pc \in {"dispatching", "enqueueing", "probing", "failing"} <=> o.row # 0
     /\ o.pc \in {"idle", "sent", "creating"} => o.round = 0
     /\ o.pc = "numbering" => o.round = 0 \/ counter # 0
     /\ o.pc = "numbered" <=> holder = c
     /\ o.pc = "numbered" => o.id = counter + 1
     /\ o.pc # "gaveUp"

\* The counter is the number of rows ever committed: it is rolled back with them.
CounterCounts == counter = Len(rows) /\ \A i \in 1..Len(rows) : rows[i].id = i

Numbering == {"numbering", "creating", "numbered"}

\* A request that is alone has looked for a duplicate, and none has come since.
LookedAlone ==
  apart =>
    /\ \A c, d \in Submitters : opening[c].pc # "idle" /\ opening[d].pc # "idle" => c = d
    /\ \A c \in Submitters :
         opening[c].op = "create" /\ opening[c].pc \in Numbering => Duplicates = {}

IInv ==
  /\ IntakeTypeOK /\ NothingStranded
  /\ CounterCounts /\ LookedAlone /\ \A c \in Submitters : Placed(c)

Settled(r) == r.handed \/ r.status = "FAILED" \/ r.deleted
Duplicate(r) == r.recent /\ ~r.deleted /\ r.status # "FAILED"

\* What no step but CommitRow does to the rows: add one, renumber one, unsettle
\* one or make one a duplicate.
RowsKept ==
  /\ rows' \in Seq(Row) /\ Len(rows') = Len(rows)
  /\ \A i \in 1..Len(rows) : /\ rows'[i].id = rows[i].id
                             /\ Settled(rows[i]) => Settled(rows'[i])
                             /\ Duplicate(rows'[i]) => Duplicate(rows[i])

LEMMA RowsUnchanged == ASSUME IntakeTypeOK, rows' = rows PROVE RowsKept
BY DEF IntakeTypeOK, RowsKept

LEMMA RowUpdated ==
  ASSUME IntakeTypeOK, NEW i \in 1..Len(rows), NEW r \in Row, rows' = [rows EXCEPT ![i] = r],
         r.id = rows[i].id, Settled(rows[i]) => Settled(r), Duplicate(r) => Duplicate(rows[i])
  PROVE  RowsKept /\ rows'[i] = r
<1>1. rows \in Seq(Row)  BY DEF IntakeTypeOK
<1>2. rows' \in Seq(Row) /\ Len(rows') = Len(rows)  BY <1>1
<1>3. \A j \in 1..Len(rows) : rows'[j] = IF j = i THEN r ELSE rows[j]  BY <1>1
<1>4. QED  BY <1>2, <1>3 DEF RowsKept

LEMMA DuplicatesKept ==
  ASSUME RowsKept, Duplicates = {}
  PROVE  Duplicates' = {}
BY DEF RowsKept, Duplicates, Duplicate

-----------------------------------------------------------------------------
\* A step of c's request, whatever else it does, short of adding a row.
LEMMA RequestMoved ==
  ASSUME IInv, NEW c \in Submitters, NEW o \in Opening, RowsKept,
         opening' = [opening EXCEPT ![c] = o],
         UNCHANGED <<apart, counter>>,
         stopped' \in BOOLEAN, stopped => stopped',
         broker' \in {"up", "down"}, probe' \in {"none", "up", "down"},
         holder' \in Submitters \cup {Nobody},
         \A d \in Submitters \ {c} : holder' = d <=> holder = d,
         Placed(c)',
         \/ stopped' \/ opening[c].row \in {0, o.row}
         \/ opening[c].row \in 1..Len(rows) /\ Settled(rows'[opening[c].row]),
         apart /\ o.pc # "idle" =>
           \/ opening[c].pc # "idle"
           \/ \A d \in Submitters : opening[d].pc = "idle",
         o.op = "create" /\ o.pc \in Numbering =>
           \/ Duplicates = {}
           \/ opening[c].op = "create" /\ opening[c].pc \in Numbering
  PROVE  IInv'
<1>1. /\ IntakeTypeOK /\ NothingStranded /\ CounterCounts /\ LookedAlone
      /\ \A d \in Submitters : Placed(d)
  BY DEF IInv
<1>2. IntakeTypeOK'  BY <1>1 DEF IntakeTypeOK, RowsKept
<1>3. \A d \in Submitters : opening'[d] = IF d = c THEN o ELSE opening[d]
  BY <1>1 DEF IntakeTypeOK
<1>4. CounterCounts'  BY <1>1 DEF CounterCounts, RowsKept
<1>5. NothingStranded'
  <2> SUFFICES ASSUME ~stopped', NEW i \in 1..Len(rows'), ~Settled(rows'[i])
               PROVE  \E d \in Submitters : opening'[d].row = i
    BY DEF NothingStranded, Settled
  <2>1. i \in 1..Len(rows) /\ ~Settled(rows[i]) /\ ~stopped  BY DEF RowsKept
  <2>2. PICK d \in Submitters : opening[d].row = i
    BY <1>1, <2>1 DEF NothingStranded, Settled
  <2>3. CASE d = c  BY <1>3, <2>1, <2>2, <2>3
  <2>4. CASE d # c  BY <1>3, <2>2, <2>4
  <2>5. QED  BY <2>3, <2>4
<1>6. LookedAlone'
  <2> SUFFICES ASSUME apart PROVE LookedAlone'  BY DEF LookedAlone
  <2>1. ASSUME NEW d \in Submitters, NEW e \in Submitters,
               opening'[d].pc # "idle", opening'[e].pc # "idle"
        PROVE  d = e
    BY <1>1, <1>3, <2>1 DEF LookedAlone
  <2>2. ASSUME NEW d \in Submitters, opening'[d].op = "create", opening'[d].pc \in Numbering
        PROVE  Duplicates' = {}
    <3>1. Duplicates = {}  BY <1>1, <1>3, <2>2 DEF LookedAlone
    <3>2. QED  BY <3>1, DuplicatesKept
  <2>3. QED  BY <2>1, <2>2 DEF LookedAlone
<1>7. \A d \in Submitters : Placed(d)'
  <2> SUFFICES ASSUME NEW d \in Submitters, d # c PROVE Placed(d)'  OBVIOUS
  <2>1. opening'[d] = opening[d] /\ Placed(d) /\ Len(rows') = Len(rows)
    BY <1>1, <1>3 DEF RowsKept
  <2>2. QED  BY <2>1 DEF Placed
<1>8. QED  BY <1>2, <1>4, <1>5, <1>6, <1>7 DEF IInv

\* A step around the requests.
LEMMA Around ==
  ASSUME IInv, RowsKept, UNCHANGED <<apart, counter, holder, opening, stopped>>,
         broker' \in {"up", "down"}, probe' \in {"none", "up", "down"}
  PROVE  IInv'
<1>1. /\ IntakeTypeOK /\ NothingStranded /\ CounterCounts /\ LookedAlone
      /\ \A d \in Submitters : Placed(d)
  BY DEF IInv
<1>2. IntakeTypeOK'  BY <1>1 DEF IntakeTypeOK, RowsKept
<1>3. CounterCounts'  BY <1>1 DEF CounterCounts, RowsKept
<1>4. NothingStranded'  BY <1>1 DEF NothingStranded, RowsKept, Settled
<1>5. LookedAlone'  BY <1>1, DuplicatesKept DEF LookedAlone
<1>6. \A d \in Submitters : Placed(d)'  BY <1>1 DEF Placed, RowsKept
<1>7. QED  BY <1>2, <1>3, <1>4, <1>5, <1>6 DEF IInv

LEMMA IdleAgain ==
  ASSUME IInv, NEW c \in Submitters
  PROVE  NoOpening \in Opening /\ NoOpening.row = 0 /\ NoOpening.pc = "idle" /\ NoOpening.round = 0
BY IntakeAssumption DEF NoOpening, Opening

\* The commit is the one step that adds a row.
LEMMA RowAdded == ASSUME IInv, NEW c \in Submitters, CommitRow(c) PROVE IInv'
<1> DEFINE r == [id |-> opening[c].id, status |-> "QUEUED", recent |-> TRUE,
                 handed |-> FALSE, deleted |-> FALSE]
           o == [opening[c] EXCEPT !.pc = "dispatching", !.row = Len(rows) + 1]
<1> USE IntakeAssumption
<1>1. /\ IntakeTypeOK /\ NothingStranded /\ CounterCounts /\ LookedAlone
      /\ \A d \in Submitters : Placed(d)
  BY DEF IInv
<1>2. rows \in Seq(Row) /\ Len(rows) \in 0..MaxInvestigations /\ opening[c] \in Opening
  BY <1>1 DEF IntakeTypeOK
<1>3. /\ opening[c].pc = "numbered" /\ Len(rows) < MaxInvestigations
      /\ rows' = Append(rows, r) /\ counter' = opening[c].id /\ holder' = Nobody
      /\ opening' = [opening EXCEPT ![c].pc = "dispatching", ![c].row = Len(rows) + 1]
      /\ apart' = apart /\ UNCHANGED <<broker, probe, stopped>>
  BY DEF CommitRow
<1>4. holder = c /\ opening[c].id = Len(rows) + 1  BY <1>1, <1>3 DEF Placed, CounterCounts
<1>5. r \in Row  BY <1>2, <1>4 DEF Row, Ids
<1>6. opening' = [opening EXCEPT ![c] = o]  BY <1>1, <1>3 DEF IntakeTypeOK
<1>7. o \in Opening
  <2>1. Len(rows) + 1 \in 0..MaxInvestigations  BY <1>2, <1>3
  <2>2. QED  BY <1>2, <2>1 DEF Opening
<1> HIDE DEF r
<1>8. /\ rows' \in Seq(Row) /\ Len(rows') = Len(rows) + 1
      /\ \A i \in 1..Len(rows) : rows'[i] = rows[i]
      /\ rows'[Len(rows) + 1] = r
  BY <1>2, <1>3, <1>5
<1>9. r.id = Len(rows) + 1  BY <1>4 DEF r
<1>10. \A d \in Submitters : opening'[d] = IF d = c THEN o ELSE opening[d]
  BY <1>1, <1>6 DEF IntakeTypeOK
<1>11. IntakeTypeOK'  BY <1>1, <1>2, <1>3, <1>4, <1>6, <1>7, <1>8 DEF IntakeTypeOK
<1>12. CounterCounts'  BY <1>1, <1>2, <1>3, <1>4, <1>8, <1>9 DEF CounterCounts
<1>13. o.row = Len(rows) + 1 /\ o.pc = "dispatching"  BY <1>2 DEF Opening
<1>14. NothingStranded'
  <2> SUFFICES ASSUME ~stopped', NEW i \in 1..Len(rows'), ~Settled(rows'[i])
               PROVE  \E d \in Submitters : opening'[d].row = i
    BY DEF NothingStranded, Settled
  <2>1. CASE i = Len(rows) + 1  BY <1>10, <1>13, <2>1
  <2>2. CASE i # Len(rows) + 1
    <3>1. i \in 1..Len(rows) /\ ~Settled(rows[i]) /\ ~stopped  BY <1>2, <1>3, <1>8, <2>2
    <3>2. PICK d \in Submitters : opening[d].row = i
      BY <1>1, <3>1 DEF NothingStranded, Settled
    <3>3. d # c  BY <1>1, <1>3, <3>1, <3>2 DEF Placed
    <3>4. QED  BY <1>10, <3>2, <3>3
  <2>3. QED  BY <2>1, <2>2
<1>15. LookedAlone'
  <2> SUFFICES ASSUME apart PROVE LookedAlone'  BY <1>3 DEF LookedAlone
  <2>1. ASSUME NEW d \in Submitters, NEW e \in Submitters,
               opening'[d].pc # "idle", opening'[e].pc # "idle"
        PROVE  d = e
    BY <1>1, <1>3, <1>10, <2>1 DEF LookedAlone
  <2>2. ASSUME NEW d \in Submitters, opening'[d].pc \in Numbering PROVE FALSE
    <3>1. opening'[c].pc = "dispatching"  BY <1>10, <1>13
    <3>2. d # c  BY <2>2, <3>1 DEF Numbering
    <3>3. opening'[d].pc # "idle"  BY <2>2 DEF Numbering
    <3>4. QED  BY <2>1, <3>1, <3>2, <3>3
  <2>3. QED  BY <2>1, <2>2 DEF LookedAlone
<1>16. ASSUME NEW d \in Submitters PROVE Placed(d)'
  <2>1. CASE d = c
    <3>1. Placed(c) /\ opening'[c] = o /\ holder' = Nobody /\ Nobody # c
      BY <1>1, <1>3, <1>10, NobodyAssumption
    <3>2. QED  BY <1>2, <1>8, <1>13, <2>1, <3>1 DEF Placed
  <2>2. CASE d # c
    <3>1. opening'[d] = opening[d] /\ Placed(d) /\ opening[d].pc # "numbered"
      BY <1>1, <1>4, <1>10, <2>2 DEF Placed
    <3>2. Nobody # d /\ opening[d].row \in 0..Len(rows')
      BY <1>2, <1>8, <3>1, NobodyAssumption DEF Placed
    <3>3. counter' # 0  BY <1>2, <1>3, <1>4
    <3>4. QED  BY <1>3, <3>1, <3>2, <3>3 DEF Placed
  <2>3. QED  BY <2>1, <2>2
<1>17. QED  BY <1>11, <1>12, <1>14, <1>15, <1>16 DEF IInv

-----------------------------------------------------------------------------
LEMMA InitIInv == IntakeInit => IInv
<1> SUFFICES ASSUME IntakeInit PROVE IInv  OBVIOUS
<1> USE IntakeAssumption
<1>1. NoOpening \in Opening  BY DEF NoOpening, Opening
<1>2. rows = <<>> /\ rows \in Seq(Row) /\ Len(rows) = 0  BY DEF IntakeInit, IntakeStart
<1>3. IntakeTypeOK
  <2>1. opening \in [Submitters -> Opening]  BY <1>1 DEF IntakeInit, IntakeStart
  <2>2. Len(rows) <= MaxInvestigations /\ counter \in 0..MaxInvestigations
    BY <1>2 DEF IntakeInit, IntakeStart
  <2>3. QED  BY <1>2, <2>1, <2>2 DEF IntakeInit, IntakeStart, IntakeTypeOK
<1>4. CounterCounts /\ NothingStranded
  BY <1>2 DEF IntakeInit, IntakeStart, CounterCounts, NothingStranded
<1>5. \A c \in Submitters : opening[c] = NoOpening /\ holder # c
  BY NobodyAssumption DEF IntakeInit, IntakeStart
<1>6. LookedAlone  BY <1>5 DEF LookedAlone, Numbering, NoOpening
<1>7. ASSUME NEW c \in Submitters PROVE Placed(c)
  <2>1. opening[c].pc = "idle" /\ opening[c].row = 0 /\ opening[c].round = 0 /\ holder # c
    BY <1>5 DEF NoOpening
  <2>2. QED  BY <1>2, <2>1 DEF Placed
<1>8. QED  BY <1>3, <1>4, <1>6, <1>7 DEF IInv

LEMMA StepIInv == IInv /\ [IntakeNext]_intakeVars => IInv'
<1> SUFFICES ASSUME IInv, [IntakeNext]_intakeVars PROVE IInv'  OBVIOUS
<1> USE IntakeAssumption, NobodyAssumption
<1>0. /\ IntakeTypeOK /\ NothingStranded /\ CounterCounts /\ LookedAlone
      /\ \A d \in Submitters : Placed(d) /\ opening[d] \in Opening
      /\ rows \in Seq(Row) /\ Len(rows) \in 0..MaxInvestigations
      /\ \A i \in 1..Len(rows) : rows[i] \in Row
  BY DEF IInv, IntakeTypeOK
<1>1. ASSUME NEW c \in Submitters, NEW op \in {"create", "reanalyze"}, Post(c, op) PROVE IInv'
  <2> DEFINE o == [opening[c] EXCEPT !.op = op, !.pc = "sent"]
  <2>1. opening' = [opening EXCEPT ![c] = o] /\ opening'[c] = o
    BY <1>0, <1>1 DEF Post, IntakeTypeOK
  <2>2. /\ o \in Opening /\ o.pc = "sent" /\ o.row = opening[c].row
        /\ o.round = opening[c].round
    BY <1>0, <1>1 DEF Opening
  <2>3. RowsKept  BY <1>0, <1>1, RowsUnchanged DEF Post
  <2>4. Placed(c)'  BY <1>0, <1>1, <2>1, <2>2 DEF Post, Placed
  <2> HIDE DEF o
  <2>5. QED
    BY <1>0, <1>1, <2>1, <2>2, <2>3, <2>4, RequestMoved DEF Post, IntakeTypeOK, Numbering
<1>2. ASSUME NEW c \in Submitters, LookForDuplicate(c) PROVE IInv'
  <2>1. RowsKept  BY <1>0, <1>2, RowsUnchanged DEF LookForDuplicate
  <2>2. opening[c].row = 0 /\ opening[c].round = 0 /\ holder # c
    BY <1>0, <1>2 DEF LookForDuplicate, Placed
  <2>3. CASE opening[c].op = "create" /\ Duplicates # {}
    <3>1. opening' = [opening EXCEPT ![c] = NoOpening] /\ opening'[c] = NoOpening
      BY <1>0, <1>2, <2>3 DEF LookForDuplicate, Answer, IntakeTypeOK
    <3>2. Placed(c)'  BY <1>0, <1>2, <2>2, <3>1, IdleAgain DEF LookForDuplicate, Placed
    <3>3. QED
      BY <1>0, <1>2, <2>1, <2>2, <3>1, <3>2, IdleAgain, RequestMoved
      DEF LookForDuplicate, IntakeTypeOK, Numbering
  <2>4. CASE ~(opening[c].op = "create" /\ Duplicates # {})
    <3> DEFINE o == [opening[c] EXCEPT !.pc = "numbering"]
    <3>1. opening' = [opening EXCEPT ![c] = o] /\ opening'[c] = o
      BY <1>0, <1>2, <2>4 DEF LookForDuplicate, OpeningTo, IntakeTypeOK
    <3>2. /\ o \in Opening /\ o.pc = "numbering" /\ o.row = 0 /\ o.round = 0
          /\ o.op = opening[c].op
      BY <1>0, <2>2 DEF Opening
    <3>3. Placed(c)'  BY <1>0, <1>2, <2>2, <3>1, <3>2 DEF LookForDuplicate, Placed
    <3> HIDE DEF o
    <3>4. QED
      BY <1>0, <1>2, <2>1, <2>2, <2>4, <3>1, <3>2, <3>3, RequestMoved
      DEF LookForDuplicate, IntakeTypeOK, Numbering
  <2>5. QED  BY <2>3, <2>4
<1>3. ASSUME NEW c \in Submitters, UpdateCounter(c) PROVE IInv'
  <2>1. RowsKept  BY <1>0, <1>3, RowsUnchanged DEF UpdateCounter
  <2>2. opening[c].row = 0 /\ holder # c /\ (counter = 0 => opening[c].round = 0)
    BY <1>0, <1>3 DEF UpdateCounter, Placed
  <2>3. CASE counter = 0
    <3> DEFINE o == [opening[c] EXCEPT !.pc = "creating"]
    <3>1. opening' = [opening EXCEPT ![c] = o] /\ opening'[c] = o /\ holder' = holder
      BY <1>0, <1>3, <2>3 DEF UpdateCounter, OpeningTo, IntakeTypeOK
    <3>2. /\ o \in Opening /\ o.pc = "creating" /\ o.row = 0 /\ o.round = 0
          /\ o.op = opening[c].op
      BY <1>0, <2>2, <2>3 DEF Opening
    <3>3. Placed(c)'  BY <1>0, <1>3, <2>2, <3>1, <3>2 DEF UpdateCounter, Placed
    <3> HIDE DEF o
    <3>4. QED
      BY <1>0, <1>3, <2>1, <2>2, <3>1, <3>2, <3>3, RequestMoved
      DEF UpdateCounter, IntakeTypeOK, Numbering
  <2>4. CASE counter # 0
    <3> DEFINE o == [opening[c] EXCEPT !.pc = "numbered", !.id = counter + 1]
    <3>1. /\ opening' = [opening EXCEPT ![c] = o] /\ opening'[c] = o
          /\ holder = Nobody /\ holder' = c
      BY <1>0, <1>3, <2>4 DEF UpdateCounter, IntakeTypeOK
    <3>2. /\ o \in Opening /\ o.pc = "numbered" /\ o.row = 0 /\ o.id = counter + 1
          /\ o.op = opening[c].op
      <4>1. counter + 1 \in 0..MaxInvestigations + 1  BY <1>0 DEF IntakeTypeOK
      <4>2. QED  BY <1>0, <2>2, <4>1 DEF Opening
    <3> HIDE DEF o
    <3>3. Placed(c)'  BY <1>0, <1>3, <2>2, <3>1, <3>2 DEF UpdateCounter, Placed
    <3>4. QED
      BY <1>0, <1>3, <2>1, <2>2, <3>1, <3>2, <3>3, RequestMoved
      DEF UpdateCounter, IntakeTypeOK, Numbering
  <2>5. QED  BY <2>3, <2>4
<1>4. ASSUME NEW c \in Submitters, CreateCounter(c) PROVE IInv'
  <2>1. RowsKept  BY <1>0, <1>4, RowsUnchanged DEF CreateCounter
  <2>2. opening[c].row = 0 /\ holder # c /\ opening[c].round = 0
    BY <1>0, <1>4 DEF CreateCounter, Placed
  <2>3. CASE counter = 0
    <3> DEFINE o == [opening[c] EXCEPT !.pc = "numbered", !.id = 1]
    <3>1. /\ opening' = [opening EXCEPT ![c] = o] /\ opening'[c] = o
          /\ holder = Nobody /\ holder' = c
      BY <1>0, <1>4, <2>3 DEF CreateCounter, IntakeTypeOK
    <3>2. /\ o \in Opening /\ o.pc = "numbered" /\ o.row = 0 /\ o.id = 1
          /\ o.op = opening[c].op
      <4>1. 1 \in 0..MaxInvestigations + 1  OBVIOUS
      <4>2. QED  BY <1>0, <2>2, <4>1 DEF Opening
    <3> HIDE DEF o
    <3>3. counter' = 0 /\ Len(rows') = Len(rows)  BY <1>4, <2>3 DEF CreateCounter
    <3>4. Placed(c)'  BY <1>0, <2>2, <3>1, <3>2, <3>3 DEF Placed
    <3>5. QED
      BY <1>0, <1>4, <2>1, <2>2, <3>1, <3>2, <3>4, RequestMoved
      DEF CreateCounter, IntakeTypeOK, Numbering
  <2>4. CASE counter # 0
    <3> DEFINE o == [opening[c] EXCEPT !.round = 1, !.pc = "numbering"]
    <3>1. opening[c].round + 1 = 1 /\ 1 # MaxRounds  BY <2>2
    <3>2. opening' = [opening EXCEPT ![c] = o] /\ opening'[c] = o /\ holder' = holder
      BY <1>0, <1>4, <2>4, <3>1 DEF CreateCounter, IntakeTypeOK
    <3>3. o \in Opening /\ o.pc = "numbering" /\ o.row = 0 /\ o.op = opening[c].op
      <4>1. 1 \in 0..MaxRounds  OBVIOUS
      <4>2. QED  BY <1>0, <2>2, <4>1 DEF Opening
    <3> HIDE DEF o
    <3>4. Placed(c)'  BY <1>0, <1>4, <2>2, <2>4, <3>2, <3>3 DEF CreateCounter, Placed
    <3>5. QED
      BY <1>0, <1>4, <2>1, <2>2, <3>2, <3>3, <3>4, RequestMoved
      DEF CreateCounter, IntakeTypeOK, Numbering
  <2>5. QED  BY <2>3, <2>4
<1>5. ASSUME NEW c \in Submitters, CommitRow(c) PROVE IInv'  BY <1>5, RowAdded
<1>6. ASSUME NEW c \in Submitters, AskProbe(c) PROVE IInv'
  <2> DEFINE pc == IF probe' = "up" THEN "enqueueing" ELSE "failing"
             o == [opening[c] EXCEPT !.pc = pc]
  <2>1. /\ opening' = [opening EXCEPT ![c] = o] /\ opening'[c] = o
        /\ probe' \in {"none", "up", "down"}
    BY <1>0, <1>6 DEF AskProbe, OpeningTo, IntakeTypeOK
  <2>2. /\ o \in Opening /\ o.pc \in {"enqueueing", "failing"} /\ o.row = opening[c].row
    BY <1>0 DEF Opening
  <2>3. RowsKept  BY <1>0, <1>6, RowsUnchanged DEF AskProbe
  <2> HIDE DEF o, pc
  <2>4. Placed(c)'  BY <1>0, <1>6, <2>1, <2>2 DEF AskProbe, Placed
  <2>5. QED
    BY <1>0, <1>6, <2>1, <2>2, <2>3, <2>4, RequestMoved DEF AskProbe, IntakeTypeOK, Numbering
<1>7. ASSUME NEW c \in Submitters, Enqueue(c) PROVE IInv'
  <2>1. opening[c].row \in 1..Len(rows) /\ holder # c  BY <1>0, <1>7 DEF Enqueue, Placed
  <2>2. CASE broker = "up"
    <3> DEFINE r == [rows[opening[c].row] EXCEPT !.handed = TRUE]
    <3>1. rows' = [rows EXCEPT ![opening[c].row] = r]  BY <1>0, <1>7, <2>1, <2>2 DEF Enqueue
    <3>2. /\ r \in Row /\ r.id = rows[opening[c].row].id /\ Settled(r)
          /\ Duplicate(r) => Duplicate(rows[opening[c].row])
      BY <1>0, <2>1 DEF Row, Settled, Duplicate
    <3> HIDE DEF r
    <3>3. RowsKept /\ Settled(rows'[opening[c].row])  BY <1>0, <2>1, <3>1, <3>2, RowUpdated
    <3>4. opening' = [opening EXCEPT ![c] = NoOpening] /\ opening'[c] = NoOpening
      BY <1>0, <1>7, <2>2 DEF Enqueue, Answer, IntakeTypeOK
    <3>5. Placed(c)'  BY <1>0, <1>7, <2>1, <3>3, <3>4, IdleAgain DEF Enqueue, Placed, RowsKept
    <3>6. QED
      BY <1>0, <1>7, <2>1, <3>3, <3>4, <3>5, IdleAgain, RequestMoved
      DEF Enqueue, IntakeTypeOK, Numbering
  <2>3. CASE broker # "up"
    <3> DEFINE o == [opening[c] EXCEPT !.pc = "probing"]
    <3>1. opening' = [opening EXCEPT ![c] = o] /\ opening'[c] = o /\ rows' = rows
      BY <1>0, <1>7, <2>3 DEF Enqueue, OpeningTo, IntakeTypeOK
    <3>2. o \in Opening /\ o.pc = "probing" /\ o.row = opening[c].row  BY <1>0 DEF Opening
    <3>3. RowsKept  BY <1>0, <3>1, RowsUnchanged
    <3> HIDE DEF o
    <3>4. Placed(c)'  BY <1>0, <1>7, <2>1, <3>1, <3>2 DEF Enqueue, Placed
    <3>5. QED
      BY <1>0, <1>7, <3>1, <3>2, <3>3, <3>4, RequestMoved DEF Enqueue, IntakeTypeOK, Numbering
  <2>4. QED  BY <2>2, <2>3
<1>8. ASSUME NEW c \in Submitters, ProbeAgain(c) PROVE IInv'
  <2> DEFINE o == [opening[c] EXCEPT !.pc = "failing"]
  <2>1. opening' = [opening EXCEPT ![c] = o] /\ opening'[c] = o
    BY <1>0, <1>8 DEF ProbeAgain, OpeningTo, IntakeTypeOK
  <2>2. o \in Opening /\ o.pc = "failing" /\ o.row = opening[c].row  BY <1>0 DEF Opening
  <2>3. RowsKept  BY <1>0, <1>8, RowsUnchanged DEF ProbeAgain
  <2> HIDE DEF o
  <2>4. Placed(c)'  BY <1>0, <1>8, <2>1, <2>2 DEF ProbeAgain, Placed
  <2>5. QED
    BY <1>0, <1>8, <2>1, <2>2, <2>3, <2>4, RequestMoved DEF ProbeAgain, IntakeTypeOK, Numbering
<1>9. ASSUME NEW c \in Submitters, DispatchFailed(c) PROVE IInv'
  <2> DEFINE i == opening[c].row
  <2>1. i \in 1..Len(rows) /\ holder # c  BY <1>0, <1>9 DEF DispatchFailed, Placed
  <2>2. RowsKept /\ Settled(rows'[i])
    <3>1. CASE rows[i].deleted
      BY <1>0, <1>9, <2>1, <3>1, RowsUnchanged DEF DispatchFailed, Settled
    <3>2. CASE ~rows[i].deleted
      <4> DEFINE r == [rows[i] EXCEPT !.status = "FAILED"]
      <4>1. rows' = [rows EXCEPT ![i] = r]  BY <1>0, <1>9, <2>1, <3>2 DEF DispatchFailed
      <4>2. r \in Row /\ r.id = rows[i].id /\ Settled(r) /\ ~Duplicate(r)
        BY <1>0, <2>1 DEF Row, Settled, Duplicate
      <4> HIDE DEF r
      <4>3. QED  BY <1>0, <2>1, <4>1, <4>2, RowUpdated
    <3>3. QED  BY <3>1, <3>2
  <2>3. opening' = [opening EXCEPT ![c] = NoOpening] /\ opening'[c] = NoOpening
    BY <1>0, <1>9 DEF DispatchFailed, Answer, IntakeTypeOK
  <2>4. Placed(c)'
    BY <1>0, <1>9, <2>1, <2>2, <2>3, IdleAgain DEF DispatchFailed, Placed, RowsKept
  <2>5. QED
    BY <1>0, <1>9, <2>1, <2>2, <2>3, <2>4, IdleAgain, RequestMoved
    DEF DispatchFailed, IntakeTypeOK, Numbering
<1>10. ASSUME NEW c \in Submitters, StopRequest(c) PROVE IInv'
  <2>1. opening' = [opening EXCEPT ![c] = NoOpening] /\ opening'[c] = NoOpening
    BY <1>0, <1>10 DEF StopRequest, Answer, IntakeTypeOK
  <2>2. RowsKept  BY <1>0, <1>10, RowsUnchanged DEF StopRequest
  <2>3. holder' # c /\ \A d \in Submitters \ {c} : holder' = d <=> holder = d
    BY <1>10 DEF StopRequest
  <2>4. Placed(c)'  BY <1>0, <1>10, <2>1, <2>3, IdleAgain DEF StopRequest, Placed
  <2>5. stopped' \/ opening[c].row = 0  BY <1>10 DEF StopRequest
  <2>6. /\ stopped' \in BOOLEAN /\ (stopped => stopped')
        /\ holder' \in Submitters \cup {Nobody}
    BY <1>0, <1>10 DEF StopRequest, IntakeTypeOK
  <2>7. QED
    BY <1>0, <1>10, <2>1, <2>2, <2>3, <2>4, <2>5, <2>6, IdleAgain, RequestMoved
    DEF StopRequest, IntakeTypeOK, Numbering
<1>11. ASSUME NEW i \in 1..MaxInvestigations, NEW status \in {"COMPLETED", "FAILED"}, RunEnds(i, status)
       PROVE  IInv'
  <2> DEFINE r == [rows[i] EXCEPT !.status = status]
  <2>1. i \in 1..Len(rows) /\ rows' = [rows EXCEPT ![i] = r]  BY <1>0, <1>11 DEF RunEnds
  <2>2. r \in Row /\ r.id = rows[i].id /\ Settled(r) /\ (Duplicate(r) => Duplicate(rows[i]))
    BY <1>0, <1>11, <2>1 DEF RunEnds, Row, Settled, Duplicate
  <2> HIDE DEF r
  <2>3. QED  BY <1>0, <1>11, <2>1, <2>2, RowUpdated, Around DEF RunEnds, IntakeTypeOK
<1>12. ASSUME NEW i \in 1..MaxInvestigations, WindowPasses(i) PROVE IInv'
  <2> DEFINE r == [rows[i] EXCEPT !.recent = FALSE]
  <2>1. i \in 1..Len(rows) /\ rows' = [rows EXCEPT ![i] = r]  BY <1>0, <1>12 DEF WindowPasses
  <2>2. r \in Row /\ r.id = rows[i].id /\ (Settled(rows[i]) => Settled(r)) /\ ~Duplicate(r)
    BY <1>0, <2>1 DEF Row, Settled, Duplicate
  <2> HIDE DEF r
  <2>3. QED  BY <1>0, <1>12, <2>1, <2>2, RowUpdated, Around DEF WindowPasses, IntakeTypeOK
<1>13. ASSUME NEW i \in 1..MaxInvestigations, DeleteRow(i) PROVE IInv'
  <2> DEFINE r == [rows[i] EXCEPT !.deleted = TRUE]
  <2>1. i \in 1..Len(rows) /\ rows' = [rows EXCEPT ![i] = r]  BY <1>0, <1>13 DEF DeleteRow
  <2>2. r \in Row /\ r.id = rows[i].id /\ Settled(r) /\ ~Duplicate(r)
    BY <1>0, <2>1 DEF Row, Settled, Duplicate
  <2> HIDE DEF r
  <2>3. QED  BY <1>0, <1>13, <2>1, <2>2, RowUpdated, Around DEF DeleteRow, IntakeTypeOK
<1>14. CASE ProbeAges
  BY <1>0, <1>14, RowsUnchanged, Around DEF ProbeAges, IntakeTypeOK
<1>15. CASE BrokerChanges
  BY <1>0, <1>15, RowsUnchanged, Around DEF BrokerChanges, IntakeTypeOK
<1>16. CASE UNCHANGED intakeVars
  BY <1>0, <1>16, RowsUnchanged, Around DEF intakeVars, IntakeTypeOK
<1>17. QED
  BY <1>1, <1>2, <1>3, <1>4, <1>5, <1>6, <1>7, <1>8, <1>9, <1>10, <1>11, <1>12, <1>13, <1>14,
     <1>15, <1>16
  DEF IntakeNext

\* The number of an investigation is the place of its row.
LEMMA Implied == IInv => IntakeInvariant
<1> SUFFICES ASSUME IInv PROVE IntakeInvariant  OBVIOUS
<1>1. NumbersNeverReused  BY DEF IInv, CounterCounts, NumbersNeverReused
<1>2. NumberFound  BY DEF IInv, Placed, NumberFound
<1>3. QED  BY <1>1, <1>2 DEF IInv, IntakeInvariant

\* However requests, stops and the broker interleave, no number of the year is
\* given twice, the loser of the race for its first row gets one, and unless a
\* process has stopped nothing is left queued that nobody hands over.
THEOREM IntakeSafe == IntakeSpec => []IntakeInvariant
<1>1. QED  BY InitIInv, StepIInv, Implied, PTL DEF IntakeSpec

\* Requests that do not overlap submit the same content once in the window.
THEOREM OnceEach == IntakeSpec => SubmittedOnce
<1> DEFINE Once == apart => \A c \in Submitters :
                     CommitRow(c) /\ opening[c].op = "create" => Duplicates = {}
<1>1. IInv /\ [IntakeNext]_intakeVars => [Once]_intakeVars
  BY DEF IInv, LookedAlone, CommitRow, Numbering
<1>2. QED  BY <1>1, InitIInv, StepIInv, PTL DEF IntakeSpec, SubmittedOnce
=============================================================================
