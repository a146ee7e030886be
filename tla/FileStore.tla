------------------------------ MODULE FileStore ------------------------------
(***************************************************************************)
(* Uploaded files and the investigations that refer to them: receiving a   *)
(* file, the duplicate guard, reanalysis, deletion, and the deletion of an *)
(* account.                                                                *)
(*                                                                         *)
(* Files are stored under their digest, so a key stands for a content and  *)
(* investigations of the same content share one file.  No transaction      *)
(* spans the database and the file system: every query, every commit and   *)
(* every access to the directory is an action.  The temporary file of an   *)
(* upload is its call's own; no other call sees it.                        *)
(***************************************************************************)
EXTENDS Naturals, FiniteSets

CONSTANTS Callers,    \* calls that may be open at the same time
          Users, Keys,
          None,       \* no user, no key
          MaxRows     \* bound: investigations ever created

ASSUME FileStoreAssumption == None \notin Users \cup Keys /\ MaxRows \in Nat

VARIABLES
  overlap,   \* whether calls may be open at the same time; never changes
  users,     \* the accounts that exist
  rows,      \* investigations over files, each with its input
  created,   \* how many there have been
  recent,    \* those recent_duplicate may return: in its window, not FAILED
  files,     \* keys in the storage directory
  calls,     \* where the call of each caller is
  leaked     \* history: keys that were in the charge of a call that was cut off,
             \* or of an investigation that went with its workspace

vars == <<overlap, users, rows, created, recent, files, calls, leaked>>

Ids == 1..MaxRows
Investigation == [id : Ids, owner : Users, key : Keys]

\* What a call does next: look in the directory, drop or move its temporary
\* file, look for a duplicate, insert; look whether the file is there; commit
\* the deletion, count references, unlink; take the next investigation of the
\* account.  row is the investigation it deletes, todo those of its account.
Uploading == {"received", "dropping", "moving", "stored"}
Ops == {"upload", "reanalyze", "delete", "account"}
Phases == {"idle", "received", "dropping", "moving", "stored", "inserting",
           "checking", "found", "counting", "unlinking", "next"}
Calls == [op : Ops, pc : Phases, user : Users \cup {None}, key : Keys \cup {None},
          row : 0..MaxRows, todo : SUBSET Ids]

NoCall == [op |-> "upload", pc |-> "idle", user |-> None, key |-> None, row |-> 0, todo |-> {}]

TypeOK ==
  /\ overlap \in BOOLEAN /\ users \subseteq Users
  /\ rows \subseteq Investigation /\ created \in 0..MaxRows
  /\ \A r \in rows : r.id <= created
  /\ \A r, s \in rows : r.id = s.id => r = s
  /\ recent \subseteq 1..created
  /\ files \subseteq Keys /\ leaked \subseteq Keys
  /\ calls \in [Callers -> Calls]

Init ==
  /\ overlap \in BOOLEAN /\ users = Users
  /\ rows = {} /\ created = 0 /\ recent = {}
  /\ files = {} /\ leaked = {}
  /\ calls = [c \in Callers |-> NoCall]

References(k) == {r \in rows : r.key = k}
To(c, pc) == calls' = [calls EXCEPT ![c].pc = pc]
End(c) == calls' = [calls EXCEPT ![c] = NoCall]

\* c begins a call.
MayBegin(c) == calls[c].pc = "idle" /\ (overlap \/ \A d \in Callers : calls[d].pc = "idle")
Begin(c, call) ==
  /\ MayBegin(c)
  /\ calls' = [calls EXCEPT ![c] = call]
  /\ UNCHANGED <<overlap, users, rows, created, recent, files, leaked>>

-----------------------------------------------------------------------------
(* Uploading.                                                              *)

\* receive has written and hashed the temporary file.  A rejected one is gone.
Upload(c, u, k) ==
  /\ u \in users
  /\ Begin(c, [op |-> "upload", pc |-> "received", user |-> u, key |-> k, row |-> 0, todo |-> {}])

\* put: is the content stored already?
PutLook(c) ==
  /\ calls[c].pc = "received"
  /\ To(c, IF calls[c].key \in files THEN "dropping" ELSE "moving")
  /\ UNCHANGED <<overlap, users, rows, created, recent, files, leaked>>

PutEnd(c) ==
  /\ calls[c].pc \in {"dropping", "moving"}
  /\ files' = IF calls[c].pc = "moving" THEN files \cup {calls[c].key} ELSE files
  /\ To(c, "stored")
  /\ UNCHANGED <<overlap, users, rows, created, recent, leaked>>

\* recent_duplicate: the caller's own investigation of the same content.
Duplicates(u, k) == {r \in References(k) : r.owner = u /\ r.id \in recent}
FindDuplicate(c) ==
  /\ calls[c].pc = "stored"
  /\ IF Duplicates(calls[c].user, calls[c].key) # {} THEN End(c) ELSE To(c, "inserting")
  /\ UNCHANGED <<overlap, users, rows, created, recent, files, leaked>>

\* The commit of create_file_investigation and of reanalyze.  It violates the
\* foreign keys when the owner's account and workspace are gone.
Insert(c) ==
  /\ calls[c].pc = "inserting"
  /\ End(c)
  /\ IF calls[c].user \in users
     THEN /\ created < MaxRows
          /\ created' = created + 1
          /\ rows' = rows \cup {[id |-> created + 1, owner |-> calls[c].user, key |-> calls[c].key]}
          /\ recent' = recent \cup {created + 1}
          /\ UNCHANGED leaked
     ELSE /\ leaked' = IF calls[c].op = "upload" THEN leaked \cup {calls[c].key} ELSE leaked
          /\ UNCHANGED <<rows, created, recent>>
  /\ UNCHANGED <<overlap, users, files>>

-----------------------------------------------------------------------------
(* Reanalysis: a new investigation with the input of r, for its owner.     *)

Reanalyze(c, r) ==
  /\ r \in rows
  /\ Begin(c, [op |-> "reanalyze", pc |-> "checking", user |-> r.owner, key |-> r.key,
               row |-> r.id, todo |-> {}])

CheckFile(c) ==
  /\ calls[c].pc = "checking"
  /\ IF calls[c].key \in files THEN To(c, "inserting") ELSE End(c)
  /\ UNCHANGED <<overlap, users, rows, created, recent, files, leaked>>

-----------------------------------------------------------------------------
(* Deleting an investigation, and all of an account.                       *)

\* Mutant of Delete: the references are counted before the commit.
DeleteCounted(c, r) ==
  /\ r \in rows
  /\ Begin(c, [op |-> "delete", pc |-> "found", user |-> r.owner,
               key |-> IF References(r.key) = {r} THEN r.key ELSE None, row |-> r.id, todo |-> {}])

\* find, and the keys of its inputs.  Had it gone in between, there were none.
Delete(c, r) ==
  /\ r \in rows
  /\ Begin(c, [op |-> "delete", pc |-> "found", user |-> r.owner, key |-> r.key,
               row |-> r.id, todo |-> {}])

\* A call that has deleted its investigation is at an end, or goes on to the
\* next one of the account.
AfterDelete(c) ==
  IF calls[c].op # "account" THEN End(c)
  ELSE calls' = [calls EXCEPT ![c].pc = "next", ![c].key = None, ![c].row = 0]

DeleteCommit(c) ==
  /\ calls[c].pc = "found"
  /\ rows' = {r \in rows : r.id # calls[c].row}
  /\ To(c, "counting")
  /\ UNCHANGED <<overlap, users, created, recent, files, leaked>>

\* Mutant of Count: the investigation's file goes, whoever else has it.
CountNothing(c) ==
  /\ calls[c].pc = "counting"
  /\ To(c, "unlinking")
  /\ UNCHANGED <<overlap, users, rows, created, recent, files, leaked>>

Count(c) ==
  /\ calls[c].pc = "counting"
  /\ IF References(calls[c].key) = {} THEN To(c, "unlinking") ELSE AfterDelete(c)
  /\ UNCHANGED <<overlap, users, rows, created, recent, files, leaked>>

Unlink(c) ==
  /\ calls[c].pc = "unlinking"
  /\ files' = files \ {calls[c].key}
  /\ leaked' = leaked \ {calls[c].key}
  /\ AfterDelete(c)
  /\ UNCHANGED <<overlap, users, rows, created, recent>>

Owned(u) == {r \in rows : r.owner = u}

\* Mutant of DeleteAccount: only the investigations of the last seconds.
DeleteAccountRecent(c, u) ==
  /\ u \in users
  /\ Begin(c, [op |-> "account", pc |-> "next", user |-> u, key |-> None, row |-> 0,
               todo |-> {r.id : r \in {s \in Owned(u) : s.id \in recent}}])

\* delete_account reads the user's investigations once ...
DeleteAccount(c, u) ==
  /\ u \in users
  /\ Begin(c, [op |-> "account", pc |-> "next", user |-> u, key |-> None, row |-> 0,
               todo |-> {r.id : r \in Owned(u)}])

\* ... deletes them one by one ...
DeleteNext(c, i) ==
  /\ calls[c].pc = "next" /\ i \in calls[c].todo
  /\ \/ \E r \in rows : /\ r.id = i
                        /\ calls' = [calls EXCEPT ![c].pc = "found", ![c].row = i,
                                                  ![c].key = r.key, ![c].todo = @ \ {i}]
     \/ /\ \A r \in rows : r.id # i      \* somebody else has deleted it
        /\ calls' = [calls EXCEPT ![c].todo = @ \ {i}]
  /\ UNCHANGED <<overlap, users, rows, created, recent, files, leaked>>

\* ... and then the workspace and the user.  Investigations belong to the
\* workspace (org_id, ON DELETE CASCADE): one created meanwhile goes without
\* its file.
DeleteUser(c) ==
  /\ calls[c].pc = "next" /\ calls[c].todo = {}
  /\ users' = users \ {calls[c].user}
  /\ rows' = rows \ Owned(calls[c].user)
  /\ leaked' = leaked \cup {r.key : r \in Owned(calls[c].user)}
  /\ End(c)
  /\ UNCHANGED <<overlap, created, recent, files>>

-----------------------------------------------------------------------------
\* c will refer to the stored file k, or look whether anybody does.
InCharge(c, k) ==
  /\ calls[c].key = k
  /\ \/ calls[c].pc \in {"stored", "counting", "unlinking"}
     \/ calls[c].pc = "inserting" /\ calls[c].op = "upload"

\* The process of a call dies.
Crash(c) ==
  /\ calls[c].pc # "idle"
  /\ leaked' = leaked \cup {k \in Keys : InCharge(c, k)}
  /\ End(c)
  /\ UNCHANGED <<overlap, users, rows, created, recent, files>>

\* The duplicate window of investigation i ends, or its run fails.
WindowPasses(i) ==
  /\ i \in recent /\ recent' = recent \ {i}
  /\ UNCHANGED <<overlap, users, rows, created, files, calls, leaked>>

CallStep(c) ==
  \/ PutLook(c) \/ PutEnd(c) \/ FindDuplicate(c) \/ Insert(c) \/ CheckFile(c)
  \/ DeleteCommit(c) \/ Count(c) \/ Unlink(c)
  \/ (\E i \in Ids : DeleteNext(c, i)) \/ DeleteUser(c)

Next ==
  \/ \E c \in Callers :
       \/ \E u \in Users : (\E k \in Keys : Upload(c, u, k)) \/ DeleteAccount(c, u)
       \/ \E r \in rows : Reanalyze(c, r) \/ Delete(c, r)
       \/ CallStep(c) \/ Crash(c)
  \/ \E i \in Ids : WindowPasses(i)

Spec == Init /\ [][Next]_vars

-----------------------------------------------------------------------------
(* Properties.                                                             *)

\* No file is left behind: whatever uploads, reanalyses and deletions overlap,
\* a file is referred to, or a call will still refer to it or look whether to
\* remove it, or its last reference was lost with a call that was cut off or
\* with the account (service.delete counts references after its commit).
NoFileLeftBehind ==
  \A k \in files :
    References(k) # {} \/ k \in leaked \/ \E c \in Callers : InCharge(c, k)

\* "The file is deleted with the last investigation that references it"
\* (docs/DATABASE.md), and not before: here, as long as calls do not overlap,
\* wherever they are cut off.
FilesOutliveReferences == ~overlap => \A r \in rows : r.key \in files

\* Deleting an account deletes its investigations one by one, with their files,
\* and leaves none to the cascade (services/account.py), even when an earlier
\* attempt was cut off; as long as calls do not overlap.
NothingLeftToCascade ==
  [][~overlap => \A u \in users \ users' : Owned(u) = {}]_vars

\* Why these hold.  Of any two calls one is idle unless they overlap; then a
\* call knows of the files and rows what it has seen.
KnownKey ==
  \A c \in Callers :
    /\ calls[c].pc \notin {"idle", "next"} => calls[c].key \in Keys
    /\ calls[c].pc \in Uploading => calls[c].op = "upload"

RowSeen ==
  \A c \in Callers : calls[c].pc = "found" =>
    calls[c].row <= created /\ \A r \in rows : r.id = calls[c].row => r.key = calls[c].key

OneCall ==
  \A c, d \in Callers : calls[c].pc # "idle" /\ calls[d].pc # "idle" => c = d

StillSo(c) ==
  /\ calls[c].pc \in {"dropping", "stored", "inserting"} => calls[c].key \in files
  /\ calls[c].pc = "unlinking" => References(calls[c].key) = {}
  /\ calls[c].pc = "next" \/ (calls[c].op = "account" /\ calls[c].pc # "idle") =>
       \A r \in Owned(calls[c].user) :
         r.id \in calls[c].todo \/ (calls[c].pc = "found" /\ r.id = calls[c].row)

SerialInv == ~overlap => OneCall /\ \A c \in Callers : StillSo(c)

IInv == /\ TypeOK /\ KnownKey /\ RowSeen
        /\ NoFileLeftBehind /\ SerialInv /\ FilesOutliveReferences

\* docs/DATABASE.md:118 says of a stored file "the file is deleted with the last
\* investigation that references it".
ReferencedFileStored == \A r \in rows : r.key \in files
=============================================================================
