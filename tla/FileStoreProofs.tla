--------------------------- MODULE FileStoreProofs ---------------------------
(* No file is left behind, and none goes too early: for any number of      *)
(* calls, users and contents.                                              *)
EXTENDS FileStore, TLAPS

USE FileStoreAssumption

\* What is known of the calls when a step begins.
Typed == TypeOK /\ KnownKey

-----------------------------------------------------------------------------
(* Types.                                                                  *)

\* A call that moves on, ends, or begins is a call again.
LEMMA MoveTyped ==
  ASSUME Typed, NEW c \in Callers, NEW pc \in Phases \ {"idle", "next"}, To(c, pc),
         calls[c].pc \notin {"idle", "next"}, pc \in Uploading => calls[c].pc \in Uploading
  PROVE  calls' \in [Callers -> Calls] /\ KnownKey'
BY DEF Typed, TypeOK, KnownKey, To, Calls, Phases

LEMMA EndTyped ==
  ASSUME Typed, NEW c \in Callers, End(c)
  PROVE  calls' \in [Callers -> Calls] /\ KnownKey'
BY DEF Typed, TypeOK, KnownKey, End, NoCall, Calls, Phases, Ops, Uploading

LEMMA BeginTyped ==
  ASSUME Typed, NEW c \in Callers, NEW call \in Calls, calls' = [calls EXCEPT ![c] = call],
         call.pc = "next" \/ call.key \in Keys, call.pc \in Uploading => call.op = "upload"
  PROVE  calls' \in [Callers -> Calls] /\ KnownKey'
BY DEF Typed, TypeOK, KnownKey, Uploading

LEMMA AfterDeleteTyped ==
  ASSUME Typed, NEW c \in Callers, AfterDelete(c)
  PROVE  calls' \in [Callers -> Calls] /\ KnownKey'
<1>1. CASE calls[c].op # "account"  BY <1>1, EndTyped DEF AfterDelete
<1>2. CASE calls[c].op = "account"
  BY <1>2 DEF AfterDelete, Typed, TypeOK, KnownKey, Calls, Phases, Uploading
<1>3. QED  BY <1>1, <1>2

\* The rest of TypeOK, for the steps that leave the records alone.
LEMMA SameRecords ==
  ASSUME Typed, UNCHANGED <<overlap, users, rows, created, recent>>,
         files' \subseteq Keys, leaked' \subseteq Keys,
         calls' \in [Callers -> Calls], KnownKey'
  PROVE  Typed'
BY DEF Typed, TypeOK

LEMMA InitTyped == Init => Typed
<1> SUFFICES ASSUME Init PROVE Typed  OBVIOUS
<1>1. NoCall \in Calls  BY DEF NoCall, Calls, Ops, Phases
<1>2. calls \in [Callers -> Calls] /\ KnownKey  BY <1>1 DEF Init, KnownKey, NoCall, Uploading
<1>3. QED  BY <1>2 DEF Init, Typed, TypeOK

LEMMA BeginsTyped ==
  ASSUME Typed, NEW c \in Callers,
         \/ \E u \in Users : (\E k \in Keys : Upload(c, u, k)) \/ DeleteAccount(c, u)
         \/ \E r \in rows : Reanalyze(c, r) \/ Delete(c, r)
  PROVE  Typed'
<1>0. \A r \in rows : r.id \in Ids /\ r.owner \in Users /\ r.key \in Keys
  BY DEF Typed, TypeOK, Investigation
<1>1. ASSUME NEW u \in Users, NEW k \in Keys, Upload(c, u, k)  PROVE Typed'
  <2> DEFINE call == [op |-> "upload", pc |-> "received", user |-> u, key |-> k, row |-> 0,
                      todo |-> {}]
  <2>1. call \in Calls  BY DEF Calls, Ops, Phases
  <2>2. calls' = [calls EXCEPT ![c] = call]  BY <1>1 DEF Upload, Begin
  <2>3. calls' \in [Callers -> Calls] /\ KnownKey'  BY <2>1, <2>2, BeginTyped DEF Uploading
  <2>4. QED  BY <1>1, <2>3, SameRecords DEF Upload, Begin, Typed, TypeOK
<1>2. ASSUME NEW u \in Users, DeleteAccount(c, u)  PROVE Typed'
  <2> DEFINE call == [op |-> "account", pc |-> "next", user |-> u, key |-> None, row |-> 0,
                      todo |-> {r.id : r \in Owned(u)}]
  <2>1. {r.id : r \in Owned(u)} \subseteq Ids  BY <1>0 DEF Owned
  <2>2. call \in Calls  BY <2>1 DEF Calls, Ops, Phases
  <2>3. calls' = [calls EXCEPT ![c] = call]  BY <1>2 DEF DeleteAccount, Begin
  <2>4. calls' \in [Callers -> Calls] /\ KnownKey'  BY <2>2, <2>3, BeginTyped DEF Uploading
  <2>5. QED  BY <1>2, <2>4, SameRecords DEF DeleteAccount, Begin, Typed, TypeOK
<1>3. ASSUME NEW r \in rows, Reanalyze(c, r) \/ Delete(c, r)  PROVE Typed'
  <2> DEFINE call(op, pc) == [op |-> op, pc |-> pc, user |-> r.owner, key |-> r.key,
                              row |-> r.id, todo |-> {}]
  <2>1. call("reanalyze", "checking") \in Calls /\ call("delete", "found") \in Calls
    BY <1>0 DEF Calls, Ops, Phases, Ids
  <2>2. calls' \in [Callers -> Calls] /\ KnownKey'
    <3>1. CASE Reanalyze(c, r)
      BY <1>0, <2>1, <3>1, BeginTyped DEF Reanalyze, Begin, Uploading
    <3>2. CASE Delete(c, r)
      BY <1>0, <2>1, <3>2, BeginTyped DEF Delete, Begin, Uploading
    <3>3. QED  BY <1>3, <3>1, <3>2
  <2>3. QED  BY <1>3, <2>2, SameRecords DEF Reanalyze, Delete, Begin, Typed, TypeOK
<1>4. QED  BY <1>1, <1>2, <1>3

LEMMA StepTyped ==
  ASSUME Typed, NEW c \in Callers, CallStep(c) \/ Crash(c)
  PROVE  Typed'
<1>1. CASE PutLook(c) \/ PutEnd(c) \/ FindDuplicate(c) \/ CheckFile(c)
  BY <1>1, MoveTyped, EndTyped, SameRecords
     DEF PutLook, PutEnd, FindDuplicate, CheckFile, Phases, Uploading, Typed, TypeOK, KnownKey
<1>2. CASE Insert(c)
  <2>1. calls' \in [Callers -> Calls] /\ KnownKey'  BY <1>2, EndTyped DEF Insert
  <2>2. calls[c].key \in Keys  BY <1>2 DEF Insert, Typed, KnownKey
  <2>3. CASE calls[c].user \in users
    <3> DEFINE new == [id |-> created + 1, owner |-> calls[c].user, key |-> calls[c].key]
    <3>1. created \in Nat /\ created < MaxRows /\ created' = created + 1
          /\ rows' = rows \cup {new} /\ recent' = recent \cup {created + 1}
      BY <1>2, <2>3 DEF Insert, Typed, TypeOK
    <3>2. new \in Investigation
      <4>1. created + 1 \in Ids /\ calls[c].user \in Users
        BY <2>3, <3>1 DEF Typed, TypeOK, Ids
      <4>2. QED  BY <2>2, <4>1 DEF Investigation
    <3>3. \A r \in rows : r.id \in Ids /\ r.id <= created
      BY DEF Typed, TypeOK, Investigation
    <3>4. /\ \A r \in rows' : r.id <= created'
          /\ \A r, s \in rows' : r.id = s.id => r = s
      BY <3>1, <3>3 DEF Typed, TypeOK, Ids
    <3>5. UNCHANGED <<overlap, users, files, leaked>>  BY <1>2, <2>3 DEF Insert
    <3>6. /\ rows' \subseteq Investigation /\ created' \in 0..MaxRows
          /\ recent' \subseteq 1..created'
      BY <3>1, <3>2 DEF Typed, TypeOK
    <3> HIDE DEF new
    <3>7. QED  BY <2>1, <3>4, <3>5, <3>6 DEF Typed, TypeOK
  <2>4. CASE calls[c].user \notin users
    <3>1. leaked' \subseteq Keys  BY <1>2, <2>2, <2>4 DEF Insert, Typed, TypeOK
    <3>2. QED  BY <1>2, <2>1, <2>4, <3>1, SameRecords DEF Insert, Typed, TypeOK
  <2>5. QED  BY <2>3, <2>4
<1>3. CASE DeleteCommit(c)
  BY <1>3, MoveTyped DEF DeleteCommit, Phases, Uploading, Typed, TypeOK
<1>4. CASE Count(c) \/ Unlink(c)
  BY <1>4, MoveTyped, AfterDeleteTyped, SameRecords DEF Count, Unlink, Phases, Uploading, Typed, TypeOK
<1>5. ASSUME NEW i \in Ids, DeleteNext(c, i)  PROVE Typed'
  <2>1. \A r \in rows : r.key \in Keys  BY DEF Typed, TypeOK, Investigation
  <2>2. calls' \in [Callers -> Calls] /\ KnownKey'
    <3> DEFINE left == calls[c].todo \ {i}
    <3>1. /\ calls[c] \in Calls /\ left \in SUBSET Ids
          /\ calls[c].pc = "next"
      BY <1>5 DEF DeleteNext, Typed, TypeOK, Calls
    <3>2. CASE calls' = [calls EXCEPT ![c].todo = left]
      <4>1. calls' = [calls EXCEPT ![c] = [calls[c] EXCEPT !.todo = left]]  BY <3>2
      <4>2. [calls[c] EXCEPT !.todo = left] \in Calls
            /\ [calls[c] EXCEPT !.todo = left].pc = "next"
        BY <3>1 DEF Calls
      <4>3. QED  BY <4>1, <4>2, BeginTyped DEF Uploading
    <3>3. ASSUME NEW r \in rows,
                 calls' = [calls EXCEPT ![c].pc = "found", ![c].row = i,
                                        ![c].key = r.key, ![c].todo = left]
          PROVE  calls' \in [Callers -> Calls] /\ KnownKey'
      <4> DEFINE call == [calls[c] EXCEPT !.pc = "found", !.row = i, !.key = r.key, !.todo = left]
      <4>1. calls' = [calls EXCEPT ![c] = call]  BY <3>3
      <4>2. call \in Calls /\ call.key \in Keys
        <5>1. r.key \in Keys /\ i \in 0..MaxRows  BY <2>1 DEF Ids
        <5>2. "found" \in Phases  BY DEF Phases
        <5> HIDE DEF left
        <5>3. QED  BY <3>1, <5>1, <5>2 DEF Calls
      <4>3. call.pc = "found"  BY <3>1 DEF Calls
      <4>4. QED  BY <4>1, <4>2, <4>3, BeginTyped DEF Uploading
    <3>4. QED  BY <1>5, <3>2, <3>3 DEF DeleteNext
  <2>3. QED  BY <1>5, <2>2, SameRecords DEF DeleteNext, Typed, TypeOK
<1>6. CASE DeleteUser(c)
  <2>1. \A r \in rows : r.key \in Keys  BY DEF Typed, TypeOK, Investigation
  <2>2. leaked' \subseteq Keys  BY <1>6, <2>1 DEF DeleteUser, Owned, Typed, TypeOK
  <2>3. QED  BY <1>6, <2>2, EndTyped DEF DeleteUser, Typed, TypeOK
<1>7. CASE Crash(c)
  BY <1>7, EndTyped, SameRecords DEF Crash, Typed, TypeOK
<1>8. QED  BY <1>1, <1>2, <1>3, <1>4, <1>5, <1>6, <1>7 DEF CallStep

LEMMA NextTyped == Typed /\ [Next]_vars => Typed'
<1> SUFFICES ASSUME Typed, [Next]_vars PROVE Typed'  OBVIOUS
<1>1. ASSUME NEW i \in Ids, WindowPasses(i)  PROVE Typed'
  BY <1>1 DEF WindowPasses, Typed, TypeOK, KnownKey
<1>2. CASE UNCHANGED vars
  BY <1>2 DEF vars, Typed, TypeOK, KnownKey
<1>3. QED  BY <1>1, <1>2, BeginsTyped, StepTyped DEF Next

-----------------------------------------------------------------------------
(* What a call that deletes knows of its investigation.                    *)

\* A step leaves the other calls as they were.
LEMMA OtherCalls ==
  ASSUME Typed, NEW c \in Callers, CallStep(c) \/ Crash(c)
  PROVE  \A e \in Callers : e # c => calls'[e] = calls[e]
BY DEF CallStep, Crash, PutLook, PutEnd, FindDuplicate, Insert, CheckFile, DeleteCommit, Count,
       Unlink, DeleteNext, DeleteUser, AfterDelete, To, End, Typed, TypeOK

\* What To, End and AfterDelete make of the call of c.
LEMMA Moved ==
  ASSUME Typed, NEW c \in Callers, NEW pc, To(c, pc)
  PROVE  /\ calls'[c].pc = pc /\ calls'[c].op = calls[c].op /\ calls'[c].user = calls[c].user
         /\ calls'[c].key = calls[c].key /\ calls'[c].row = calls[c].row
         /\ calls'[c].todo = calls[c].todo
BY DEF Typed, TypeOK, To, Calls

LEMMA Ended ==
  ASSUME Typed, NEW c \in Callers, End(c)
  PROVE  calls'[c] = NoCall /\ calls'[c].pc = "idle"
BY DEF Typed, TypeOK, End, NoCall

LEMMA Deleted ==
  ASSUME Typed, NEW c \in Callers, AfterDelete(c)
  PROVE  \/ calls'[c].pc = "idle"
         \/ /\ calls'[c].pc = "next" /\ calls'[c].op = "account"
            /\ calls[c].op = "account" /\ calls'[c].user = calls[c].user
            /\ calls'[c].todo = calls[c].todo
<1>1. CASE calls[c].op # "account"  BY <1>1, Ended DEF AfterDelete
<1>2. CASE calls[c].op = "account"  BY <1>2 DEF AfterDelete, Typed, TypeOK, Calls
<1>3. QED  BY <1>1, <1>2

\* Taking the next investigation of the account.
LEMMA Taken ==
  ASSUME Typed, NEW c \in Callers, NEW i \in Ids, DeleteNext(c, i)
  PROVE  /\ calls'[c].op = calls[c].op /\ calls'[c].user = calls[c].user
         /\ calls'[c].todo = calls[c].todo \ {i}
         /\ \/ /\ calls'[c].pc = "found" /\ calls'[c].row = i
               /\ \E r \in rows : r.id = i /\ calls'[c].key = r.key
            \/ calls'[c].pc = "next" /\ \A r \in rows : r.id # i
<1>1. calls[c] \in Calls  BY DEF Typed, TypeOK
<1>2. CASE \A r \in rows : r.id # i
  <2>1. calls' = [calls EXCEPT ![c].todo = @ \ {i}] /\ calls[c].pc = "next"
    BY <1>2 DEF DeleteNext
  <2>2. QED  BY <1>1, <1>2, <2>1 DEF Typed, TypeOK, Calls
<1>3. ASSUME NEW r \in rows, r.id = i,
             calls' = [calls EXCEPT ![c].pc = "found", ![c].row = i,
                                    ![c].key = r.key, ![c].todo = @ \ {i}]
      PROVE  /\ calls'[c].op = calls[c].op /\ calls'[c].user = calls[c].user
             /\ calls'[c].todo = calls[c].todo \ {i}
             /\ calls'[c].pc = "found" /\ calls'[c].row = i /\ calls'[c].key = r.key
  BY <1>1, <1>3 DEF Typed, TypeOK, Calls
<1>4. QED  BY <1>2, <1>3 DEF DeleteNext

\* Identifiers are not used again, and inputs are never updated.
LEMMA RowsKept ==
  ASSUME Typed, NEW c \in Callers, CallStep(c) \/ Crash(c)
  PROVE  created <= created' /\ \A r \in rows' : r \in rows \/ r.id > created
<1> USE DEF Typed, TypeOK
<1>1. CASE Insert(c)
  BY <1>1 DEF Insert
<1>2. CASE DeleteCommit(c) \/ DeleteUser(c)
  BY <1>2 DEF DeleteCommit, DeleteUser
<1>3. CASE UNCHANGED <<rows, created>>
  BY <1>3
<1>4. QED
  BY <1>1, <1>2, <1>3 DEF CallStep, Crash, PutLook, PutEnd, FindDuplicate, CheckFile, Count,
     Unlink, DeleteNext

LEMMA NextRowSeen == Typed /\ RowSeen /\ [Next]_vars => RowSeen'
<1> SUFFICES ASSUME Typed, RowSeen, [Next]_vars PROVE RowSeen'  OBVIOUS
<1>1. ASSUME NEW c \in Callers, CallStep(c) \/ Crash(c)  PROVE RowSeen'
  <2>1. ASSUME NEW d \in Callers, d # c, calls'[d].pc = "found"
        PROVE  /\ calls'[d].row <= created'
               /\ \A r \in rows' : r.id = calls'[d].row => r.key = calls'[d].key
    BY <1>1, <2>1, OtherCalls, RowsKept, NextTyped DEF RowSeen, Typed, TypeOK, Calls, Next
  <2>2. ASSUME calls'[c].pc = "found"
        PROVE  /\ calls'[c].row <= created'
               /\ \A r \in rows' : r.id = calls'[c].row => r.key = calls'[c].key
    <3>1. PICK i \in Ids : DeleteNext(c, i)
      BY <1>1, <2>2, Moved, Ended, Deleted DEF CallStep, Crash, PutLook, PutEnd, FindDuplicate,
         Insert, CheckFile, DeleteCommit, Count, Unlink, DeleteUser
    <3>2. PICK r \in rows : r.id = i /\ calls'[c].row = i /\ calls'[c].key = r.key
      BY <2>2, <3>1, Taken
    <3>3. QED  BY <3>1, <3>2 DEF DeleteNext, Typed, TypeOK
  <2>3. QED  BY <2>1, <2>2 DEF RowSeen
<1>2. ASSUME NEW c \in Callers, NEW call, Begin(c, call),
             call.pc = "found" => \E r \in rows : call.row = r.id /\ call.key = r.key
      PROVE  RowSeen'
  BY <1>2 DEF Begin, RowSeen, Typed, TypeOK
<1>3. ASSUME NEW c \in Callers, NEW u \in Users,
             (\E k \in Keys : Upload(c, u, k)) \/ DeleteAccount(c, u)
      PROVE  RowSeen'
  BY <1>2, <1>3 DEF Upload, DeleteAccount
<1>4. ASSUME NEW c \in Callers, NEW r \in rows, Reanalyze(c, r) \/ Delete(c, r)  PROVE RowSeen'
  BY <1>2, <1>4 DEF Reanalyze, Delete
<1>5. CASE (\E i \in Ids : WindowPasses(i)) \/ UNCHANGED vars
  BY <1>5 DEF WindowPasses, vars, RowSeen
<1>6. QED  BY <1>1, <1>3, <1>4, <1>5 DEF Next

-----------------------------------------------------------------------------
(* No file is left behind.                                                 *)

\* What a step of c must show: every stored file is one it has just put in its
\* own charge, or was accounted for and still is.
LEMMA StillAccounted ==
  ASSUME NoFileLeftBehind, Typed, NEW c \in Callers,
         \A e \in Callers : e # c => calls'[e] = calls[e],
         leaked \cap files' \subseteq leaked',
         \A k \in files' : k \in files \/ InCharge(c, k)',
         \A k \in files' : References(k) # {} \/ InCharge(c, k) =>
                           References(k)' # {} \/ InCharge(c, k)' \/ k \in leaked'
  PROVE  NoFileLeftBehind'
<1>1. ASSUME NEW d \in Callers, d # c, NEW k, InCharge(d, k)  PROVE InCharge(d, k)'
  BY <1>1 DEF InCharge
<1>2. QED  BY <1>1 DEF NoFileLeftBehind

LEMMA BeginsAccounted ==
  ASSUME Typed, NoFileLeftBehind, NEW c \in Callers, NEW call, Begin(c, call)
  PROVE  NoFileLeftBehind'
<1>1. \A e \in Callers : e # c => calls'[e] = calls[e]  BY DEF Begin, Typed, TypeOK
<1>2. \A k : ~InCharge(c, k)  BY DEF Begin, MayBegin, InCharge
<1>3. QED  BY <1>1, <1>2, StillAccounted DEF Begin, References

LEMMA StepAccounted ==
  ASSUME Typed, RowSeen, NoFileLeftBehind, NEW c \in Callers, CallStep(c) \/ Crash(c)
  PROVE  NoFileLeftBehind'
<1>0. calls[c] \in Calls /\ \A e \in Callers : e # c => calls'[e] = calls[e]
  BY OtherCalls DEF Typed, TypeOK
<1>1. CASE PutLook(c) \/ CheckFile(c)
  <2>1. \A k : ~InCharge(c, k)  BY <1>1 DEF PutLook, CheckFile, InCharge
  <2>2. QED  BY <1>0, <1>1, <2>1, StillAccounted DEF PutLook, CheckFile, References
<1>2. CASE PutEnd(c)
  <2>1. calls'[c].pc = "stored" /\ calls'[c].key = calls[c].key
    BY <1>2, Moved DEF PutEnd
  <2>3. \A k : ~InCharge(c, k)  BY <1>2 DEF PutEnd, InCharge
  <2>4. \A k \in files' : k \in files \/ InCharge(c, k)'
    <3>1. files' \subseteq files \cup {calls[c].key}  BY <1>2 DEF PutEnd
    <3>2. \A k : k = calls[c].key => InCharge(c, k)'  BY <2>1 DEF InCharge
    <3>3. QED  BY <3>1, <3>2
  <2>5. UNCHANGED <<rows, leaked>> /\ \A k : References(k)' = References(k)
    BY <1>2 DEF PutEnd, References
  <2>6. QED  BY <1>0, <2>3, <2>4, <2>5, StillAccounted
<1>3. CASE FindDuplicate(c)
  <2>1. ASSUME NEW k, InCharge(c, k), Duplicates(calls[c].user, calls[c].key) # {}
        PROVE  References(k) # {}
    BY <2>1 DEF InCharge, Duplicates, References
  <2>2. ASSUME NEW k, InCharge(c, k), To(c, "inserting")  PROVE InCharge(c, k)'
    <3>1. calls[c].op = "upload" /\ calls[c].key = k
      BY <1>3, <2>2 DEF FindDuplicate, InCharge, Typed, KnownKey, Uploading
    <3>2. calls'[c].pc = "inserting" /\ calls'[c].op = "upload" /\ calls'[c].key = k
      BY <2>2, <3>1, Moved
    <3>3. QED  BY <3>2 DEF InCharge
  <2>3. UNCHANGED <<rows, files, leaked>> /\ \A k : References(k)' = References(k)
    BY <1>3 DEF FindDuplicate, References
  <2>4. ASSUME NEW k, InCharge(c, k)  PROVE References(k) # {} \/ InCharge(c, k)'
    <3>1. CASE Duplicates(calls[c].user, calls[c].key) # {}  BY <2>1, <2>4, <3>1
    <3>2. CASE Duplicates(calls[c].user, calls[c].key) = {}
      <4>1. To(c, "inserting")  BY <1>3, <3>2 DEF FindDuplicate
      <4>2. QED  BY <2>2, <2>4, <4>1
    <3>3. QED  BY <3>1, <3>2
  <2>5. QED  BY <1>0, <2>3, <2>4, StillAccounted
<1>4. CASE Insert(c)
  <2>1. ASSUME NEW k, InCharge(c, k)  PROVE References(k)' # {} \/ k \in leaked'
    <3>1. CASE calls[c].user \in users
      <4>1. [id |-> created + 1, owner |-> calls[c].user, key |-> k] \in rows'
        BY <1>4, <2>1, <3>1 DEF Insert, InCharge
      <4>2. QED  BY <4>1 DEF References
    <3>2. CASE calls[c].user \notin users
      BY <1>4, <2>1, <3>2 DEF Insert, InCharge
    <3>3. QED  BY <3>1, <3>2
  <2>2. rows \subseteq rows' /\ leaked \subseteq leaked' /\ files' = files
    BY <1>4 DEF Insert
  <2>3. QED  BY <1>0, <2>1, <2>2, StillAccounted DEF References
<1>5. CASE DeleteCommit(c)
  <2>1. calls'[c].pc = "counting" /\ calls'[c].key = calls[c].key
    BY <1>5, Moved DEF DeleteCommit
  <2>2. ASSUME NEW r \in rows, r \notin rows'  PROVE InCharge(c, r.key)'
    BY <1>5, <2>1, <2>2 DEF DeleteCommit, RowSeen, InCharge
  <2>3. \A k : ~InCharge(c, k)  BY <1>5 DEF DeleteCommit, InCharge
  <2>4. QED  BY <1>0, <1>5, <2>2, <2>3, StillAccounted DEF DeleteCommit, References
<1>6. CASE Count(c)
  <2>1. ASSUME NEW k, InCharge(c, k)  PROVE References(k) # {} \/ InCharge(c, k)'
    BY <1>6, <2>1, Moved DEF Count, InCharge
  <2>2. QED  BY <1>0, <1>6, <2>1, StillAccounted DEF Count, References
<1>7. CASE Unlink(c)
  <2>1. \A k : InCharge(c, k) => k = calls[c].key  BY DEF InCharge
  <2>2. QED  BY <1>0, <1>7, <2>1, StillAccounted DEF Unlink, References
<1>8. CASE (\E i \in Ids : DeleteNext(c, i)) \/ DeleteUser(c)
  <2>1. \A k : ~InCharge(c, k)  BY <1>8 DEF DeleteNext, DeleteUser, InCharge
  <2>2. files' = files /\ leaked \subseteq leaked'  BY <1>8 DEF DeleteNext, DeleteUser
  <2>3. ASSUME NEW r \in rows  PROVE r \in rows' \/ r.key \in leaked'
    BY <1>8 DEF DeleteNext, DeleteUser
  <2>4. QED  BY <1>0, <2>1, <2>2, <2>3, StillAccounted DEF References
<1>9. CASE Crash(c)
  <2>1. ASSUME NEW k \in files, InCharge(c, k)  PROVE k \in leaked'
    BY <1>9, <2>1 DEF Crash, Typed, TypeOK
  <2>2. QED  BY <1>0, <1>9, <2>1, StillAccounted DEF Crash, References
<1>10. QED  BY <1>1, <1>2, <1>3, <1>4, <1>5, <1>6, <1>7, <1>8, <1>9 DEF CallStep

LEMMA NextAccounted == Typed /\ RowSeen /\ NoFileLeftBehind /\ [Next]_vars => NoFileLeftBehind'
<1> SUFFICES ASSUME Typed, RowSeen, NoFileLeftBehind, [Next]_vars PROVE NoFileLeftBehind'
  OBVIOUS
<1>1. CASE (\E i \in Ids : WindowPasses(i)) \/ UNCHANGED vars
  BY <1>1 DEF WindowPasses, vars, NoFileLeftBehind, References, InCharge
<1>2. QED
  BY <1>1, BeginsAccounted, StepAccounted DEF Next, Upload, DeleteAccount, Reanalyze, Delete

-----------------------------------------------------------------------------
(* One call at a time.                                                     *)

\* The open call is the only one that has seen anything.
LEMMA BeginsSerial ==
  ASSUME Typed, ~overlap, OneCall, FilesOutliveReferences, NEW c \in Callers,
         \/ \E u \in Users : (\E k \in Keys : Upload(c, u, k)) \/ DeleteAccount(c, u)
         \/ \E r \in rows : Reanalyze(c, r) \/ Delete(c, r)
  PROVE  (SerialInv /\ FilesOutliveReferences)'
<1>1. ASSUME NEW call, Begin(c, call)
      PROVE  /\ \A d \in Callers : d # c => calls'[d].pc = "idle"
             /\ calls'[c] = call /\ UNCHANGED <<overlap, rows, files>>
  BY <1>1 DEF Begin, MayBegin, Typed, TypeOK
<1>2. ASSUME NEW d \in Callers, calls'[d].pc = "idle"  PROVE StillSo(d)'
  BY <1>2 DEF StillSo
<1>3. ASSUME NEW u \in Users, NEW k \in Keys, Upload(c, u, k)
      PROVE  (SerialInv /\ FilesOutliveReferences)'
  <2>1. StillSo(c)'  BY <1>1, <1>3 DEF Upload, StillSo
  <2>2. QED
    BY <1>1, <1>2, <1>3, <2>1 DEF Upload, SerialInv, OneCall, FilesOutliveReferences
<1>4. ASSUME NEW u \in Users, DeleteAccount(c, u)
      PROVE  (SerialInv /\ FilesOutliveReferences)'
  <2>1. StillSo(c)'  BY <1>1, <1>4 DEF DeleteAccount, StillSo, Owned
  <2>2. QED
    BY <1>1, <1>2, <1>4, <2>1 DEF DeleteAccount, SerialInv, OneCall, FilesOutliveReferences
<1>5. ASSUME NEW r \in rows, Reanalyze(c, r) \/ Delete(c, r)
      PROVE  (SerialInv /\ FilesOutliveReferences)'
  <2>1. StillSo(c)'  BY <1>1, <1>5 DEF Reanalyze, Delete, StillSo
  <2>2. QED
    BY <1>1, <1>2, <1>5, <2>1 DEF Reanalyze, Delete, SerialInv, OneCall, FilesOutliveReferences
<1>6. QED  BY <1>3, <1>4, <1>5

\* What the one open call has seen is still so when it goes on.
LEMMA StepSerial ==
  ASSUME Typed, ~overlap, OneCall, NEW c \in Callers, StillSo(c), FilesOutliveReferences,
         CallStep(c) \/ Crash(c)
  PROVE  StillSo(c)' /\ FilesOutliveReferences'
<1>0. ASSUME calls'[c].pc = "idle"  PROVE StillSo(c)'
  BY <1>0 DEF StillSo
<1>1. CASE PutLook(c) \/ CheckFile(c) \/ FindDuplicate(c)
  <2>1. UNCHANGED <<overlap, rows, files>>
    BY <1>1 DEF PutLook, CheckFile, FindDuplicate
  <2>2. CASE End(c)  BY <1>0, <2>1, <2>2, Ended DEF FilesOutliveReferences
  <2>3. ASSUME NEW pc \in {"dropping", "moving", "inserting"}, To(c, pc),
               pc = "moving" \/ calls[c].key \in files
        PROVE  StillSo(c)' /\ FilesOutliveReferences'
    BY <1>1, <2>1, <2>3, Moved DEF PutLook, CheckFile, FindDuplicate, StillSo, Owned, References,
       FilesOutliveReferences
  <2>4. QED  BY <1>1, <2>2, <2>3 DEF PutLook, CheckFile, FindDuplicate, StillSo
<1>2. CASE PutEnd(c)
  <2>1. /\ calls'[c].pc = "stored" /\ calls'[c].op = "upload" /\ calls'[c].key = calls[c].key
        /\ calls[c].key \in files' /\ files \subseteq files' /\ UNCHANGED <<overlap, rows>>
    BY <1>2, Moved DEF PutEnd, StillSo, Typed, KnownKey, Uploading
  <2>2. QED  BY <2>1 DEF StillSo, FilesOutliveReferences
<1>3. CASE Insert(c)
  <2>1. \A r \in rows' : r \in rows \/ r.key = calls[c].key  BY <1>3 DEF Insert
  <2>2. calls[c].key \in files /\ UNCHANGED <<overlap, files>>  BY <1>3 DEF Insert, StillSo
  <2>3. QED  BY <1>0, <1>3, <2>1, <2>2, Ended DEF Insert, FilesOutliveReferences
<1>4. CASE DeleteCommit(c)
  <2>1. rows' \subseteq rows /\ UNCHANGED <<overlap, files>>
        /\ \A r \in rows' : r.id # calls[c].row
    BY <1>4 DEF DeleteCommit
  <2>2. StillSo(c)'  BY <1>4, <2>1, Moved DEF DeleteCommit, StillSo, Owned
  <2>3. QED  BY <2>1, <2>2 DEF FilesOutliveReferences
<1>5. ASSUME AfterDelete(c), rows' = rows, calls[c].pc \in {"counting", "unlinking"}
      PROVE  StillSo(c)'
  BY <1>0, <1>5, Deleted DEF StillSo, Owned
<1>6. CASE Count(c)
  <2>1. UNCHANGED <<overlap, rows, files>>  BY <1>6 DEF Count
  <2>2. ASSUME To(c, "unlinking"), References(calls[c].key) = {}  PROVE StillSo(c)'
    BY <1>6, <2>1, <2>2, Moved DEF Count, StillSo, Owned, References
  <2>3. QED  BY <1>5, <1>6, <2>1, <2>2 DEF Count, FilesOutliveReferences
<1>7. CASE Unlink(c)
  <2>1. \A r \in rows : r.key # calls[c].key  BY <1>7 DEF Unlink, StillSo, References
  <2>2. QED  BY <1>5, <1>7, <2>1 DEF Unlink, FilesOutliveReferences
<1>8. ASSUME NEW i \in Ids, DeleteNext(c, i)
      PROVE  StillSo(c)' /\ FilesOutliveReferences'
  <2>1. UNCHANGED <<overlap, rows, files>> /\ calls[c].pc = "next"  BY <1>8 DEF DeleteNext
  <2>2. \A r \in Owned(calls[c].user) : r.id \in calls[c].todo  BY <2>1 DEF StillSo
  <2>3. StillSo(c)'  BY <1>8, <2>1, <2>2, Taken DEF StillSo, Owned
  <2>4. QED  BY <2>1, <2>3 DEF FilesOutliveReferences
<1>9. CASE DeleteUser(c) \/ Crash(c)
  <2>1. rows' \subseteq rows /\ UNCHANGED <<overlap, files>> /\ End(c)
    BY <1>9 DEF DeleteUser, Crash
  <2>2. QED  BY <1>0, <2>1, Ended DEF FilesOutliveReferences
<1>10. QED  BY <1>1, <1>2, <1>3, <1>4, <1>6, <1>7, <1>8, <1>9 DEF CallStep

\* Every step of a deployment whose calls do not overlap.
LEMMA NextSerial ==
  ASSUME Typed, SerialInv, FilesOutliveReferences, [Next]_vars, ~overlap
  PROVE  (SerialInv /\ FilesOutliveReferences)'
<1>1. OneCall /\ \A c \in Callers : StillSo(c)  BY DEF SerialInv
<1>2. ASSUME NEW c \in Callers, CallStep(c) \/ Crash(c)
      PROVE  (SerialInv /\ FilesOutliveReferences)'
  <2>1. StillSo(c)' /\ FilesOutliveReferences'  BY <1>1, <1>2, StepSerial
  <2>2. calls[c].pc # "idle"
    BY <1>2 DEF CallStep, Crash, PutLook, PutEnd, FindDuplicate, Insert, CheckFile, DeleteCommit,
       Count, Unlink, DeleteNext, DeleteUser
  <2>3. ASSUME NEW d \in Callers, d # c  PROVE calls'[d].pc = "idle"
    BY <1>1, <1>2, <2>2, <2>3, OtherCalls DEF OneCall
  <2>4. ASSUME NEW d \in Callers, d # c  PROVE StillSo(d)'
    BY <2>3, <2>4 DEF StillSo
  <2>5. QED  BY <2>1, <2>3, <2>4 DEF SerialInv, OneCall
<1>3. CASE (\E i \in Ids : WindowPasses(i)) \/ UNCHANGED vars
  BY <1>1, <1>3 DEF WindowPasses, vars, SerialInv, OneCall, StillSo, Owned, References,
     FilesOutliveReferences
<1>4. QED  BY <1>1, <1>2, <1>3, BeginsSerial DEF Next

-----------------------------------------------------------------------------
(* Theorems.                                                               *)

LEMMA InitInv == Init => IInv
<1> SUFFICES ASSUME Init PROVE IInv  OBVIOUS
<1>1. Typed  BY InitTyped
<1>2. \A c \in Callers : calls[c].pc = "idle" /\ calls[c].op = "upload"  BY DEF Init, NoCall
<1>3. RowSeen /\ NoFileLeftBehind /\ FilesOutliveReferences
  BY <1>2 DEF Init, RowSeen, NoFileLeftBehind, FilesOutliveReferences
<1>4. SerialInv  BY <1>2 DEF SerialInv, OneCall, StillSo
<1>5. QED  BY <1>1, <1>3, <1>4 DEF IInv, Typed

LEMMA OverlapFixed == [Next]_vars => overlap' = overlap
<1>1. ASSUME NEW c \in Callers, CallStep(c) \/ Crash(c)  PROVE overlap' = overlap
  BY <1>1 DEF CallStep, PutLook, PutEnd, FindDuplicate, Insert, CheckFile, DeleteCommit,
     Count, Unlink, DeleteNext, DeleteUser, Crash
<1>2. ASSUME NEW c \in Callers, NEW call, Begin(c, call)  PROVE overlap' = overlap
  BY <1>2 DEF Begin
<1>3. ASSUME NEW c \in Callers,
             \/ \E u \in Users : (\E k \in Keys : Upload(c, u, k)) \/ DeleteAccount(c, u)
             \/ \E r \in rows : Reanalyze(c, r) \/ Delete(c, r)
      PROVE  overlap' = overlap
  BY <1>2, <1>3 DEF Upload, DeleteAccount, Reanalyze, Delete
<1>4. ASSUME NEW i \in Ids, WindowPasses(i)  PROVE overlap' = overlap
  BY <1>4 DEF WindowPasses
<1>5. QED  BY <1>1, <1>3, <1>4 DEF Next, vars

LEMMA NextInv == IInv /\ [Next]_vars => IInv'
<1> SUFFICES ASSUME IInv, [Next]_vars PROVE IInv'  OBVIOUS
<1>1. Typed' /\ RowSeen' /\ NoFileLeftBehind'
  BY NextTyped, NextRowSeen, NextAccounted DEF IInv, Typed
<1>2. overlap => (SerialInv /\ FilesOutliveReferences)'
  BY OverlapFixed DEF SerialInv, FilesOutliveReferences
<1>3. ~overlap => (SerialInv /\ FilesOutliveReferences)'
  BY NextSerial DEF IInv, Typed
<1>4. (SerialInv /\ FilesOutliveReferences)'  BY <1>2, <1>3 DEF IInv
<1>5. QED  BY <1>1, <1>4 DEF IInv, Typed

\* The invariant the others follow from: where each call stands relative to the
\* rows and files it has read (service.py, storage.py).
THEOREM Invariance == Spec => []IInv
BY InitInv, NextInv, PTL DEF Spec

\* Every variable keeps its shape and identifiers are not used twice, for any
\* callers, users and contents (files.py, service.py, ids.py).
THEOREM TypeCorrect == Spec => []TypeOK
<1>1. IInv => TypeOK  BY DEF IInv
<1>2. QED  BY Invariance, <1>1, PTL

\* No file is left behind, however uploads, reanalyses and deletions overlap
\* (service.delete, create_file_investigation).
THEOREM NoneLeftBehind == Spec => []NoFileLeftBehind
<1>1. IInv => NoFileLeftBehind  BY DEF IInv
<1>2. QED  BY Invariance, <1>1, PTL

\* Where calls do not overlap, no file goes before its last reference, wherever
\* a call is cut off (service.delete, LocalStorage.put, reanalyze).
THEOREM NoneGoneTooEarly == Spec => []FilesOutliveReferences
<1>1. IInv => FilesOutliveReferences  BY DEF IInv
<1>2. QED  BY Invariance, <1>1, PTL

\* Where calls do not overlap, an account's investigations are all deleted, with
\* their files, before the account is (delete_account).
THEOREM AccountEmptied == Spec => NothingLeftToCascade
<1>1. IInv /\ [Next]_vars => [~overlap => \A u \in users \ users' : Owned(u) = {}]_vars
  <2> SUFFICES ASSUME IInv, Next, ~overlap, NEW u \in users \ users'  PROVE Owned(u) = {}
    OBVIOUS
  <2>1. PICK c \in Callers : DeleteUser(c)
    BY DEF Next, CallStep, Upload, DeleteAccount, Reanalyze, Delete, Begin, PutLook, PutEnd,
       FindDuplicate, Insert, CheckFile, DeleteCommit, Count, Unlink, DeleteNext, Crash,
       WindowPasses
  <2>2. u = calls[c].user  BY <2>1 DEF DeleteUser
  <2>3. QED  BY <2>1, <2>2 DEF DeleteUser, IInv, SerialInv, StillSo
<1>2. QED  BY Invariance, <1>1, PTL DEF Spec, NothingLeftToCascade
=============================================================================
