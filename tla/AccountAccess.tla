---------------------------- MODULE AccountAccess ----------------------------
(***************************************************************************)
(* Getting into one account: sign-up, sign-in with a password behind the   *)
(* failure counter, and one-time codes.  Counter and code are entries of   *)
(* the cache: Redis, or, when Redis could not be reached at start, a dict  *)
(* in each server process.  Every read and write of the cache and every    *)
(* commit is an action; nothing locks the address between them.            *)
(*                                                                         *)
(* A code is drawn at random: here each has a number of its own, at most   *)
(* MaxCodes of them.  Entries may disappear at any time (their time to     *)
(* live, the 512-entry limit of the dict, a restart).  With Redis the      *)
(* processes are alike, and one stands for all.                            *)
(***************************************************************************)
EXTENDS Naturals

CONSTANTS Clients,       \* requests that may be open at the same time
          Servers,       \* API processes
          MaxFailures,   \* LOGIN_MAX_FAILURES
          MaxAttempts,   \* OTP_MAX_ATTEMPTS
          MaxCodes       \* bound: codes issued

ASSUME AccessAssumption ==
  /\ MaxFailures \in Nat \ {0} /\ MaxAttempts \in Nat \ {0} /\ MaxCodes \in Nat
  /\ Servers # {}

Redis == "redis"
ASSUME RedisIsNoServer == Redis \notin Servers

VARIABLES
  together,     \* whether requests may be open at the same time; never changes
  shared,       \* whether Redis could be reached at start; never changes
  cache,        \* entries of the address: loginfail:<hash> and otp:<email>
  user,         \* its users row
  workspaces,   \* organizations the user is a member of
  requests,     \* the open request of each client
  issued,       \* codes issued so far
  overAge,      \* those issued more than OTP_TTL_SECONDS ago
  told,         \* wrong passwords answered 401, by the store that counted them
  uses          \* how often each code has signed somebody in (2: or more)

accessVars == <<together, shared, cache, user, workspaces, requests, issued, overAge,
                told, uses>>

Stores == Servers \cup {Redis}
Codes == 1..MaxCodes
NoCode == [code |-> 0, attempts |-> 0]
Empty == [count |-> 0, otp |-> NoCode]

Kinds == {"signin", "signup", "otp", "verify"}
Request == [kind : Kinds, pc : {"idle", "sent", "judged", "failing", "counting", "clearing",
                                "inserting", "dropping", "missing", "using", "admitting",
                                "entering", "founding"},
            server : Servers, code : 0..MaxCodes, right : BOOLEAN,
            read : 0..MaxFailures + MaxAttempts + 2, of : 0..MaxCodes]
NoRequest == [kind |-> "signin", pc |-> "idle", server |-> CHOOSE s \in Servers : TRUE,
              code |-> 0, right |-> FALSE, read |-> 0, of |-> 0]

AccessTypeOK ==
  /\ together \in BOOLEAN /\ shared \in BOOLEAN
  /\ cache \in [Stores -> [count : 0..MaxFailures,
                           otp : [code : 0..MaxCodes, attempts : 0..MaxAttempts]]]
  /\ user \in {"none", "active", "disabled"}
  /\ workspaces \in 0..2
  /\ requests \in [Clients -> Request]
  /\ issued \in 0..MaxCodes /\ overAge \subseteq 1..issued
  /\ told \in [Stores -> 0..MaxFailures + 1]
  /\ uses \in [Codes -> 0..2]

\* Where the machine starts, for one choice of together and shared.
AccessStart(t, s) ==
  /\ together = t /\ shared = s
  /\ cache = [st \in Stores |-> Empty]
  /\ user = "none" /\ workspaces = 0
  /\ requests = [c \in Clients |-> NoRequest]
  /\ issued = 0 /\ overAge = {}
  /\ told = [st \in Stores |-> 0]
  /\ uses = [k \in Codes |-> 0]

AccessInit == \E t, s \in BOOLEAN : AccessStart(t, s)

-----------------------------------------------------------------------------
(* The cache, as one process sees it.                                      *)

backend(c) == IF shared THEN Redis ELSE requests[c].server
Count(c) == cache[backend(c)].count
OTP(c) == cache[backend(c)].otp

\* Nothing but the comparison with LOGIN_MAX_FAILURES reads the count: it saturates.
SetCount(c, n) ==
  cache' = [cache EXCEPT ![backend(c)].count = IF n < MaxFailures THEN n ELSE MaxFailures]
SetOTP(c, record) == cache' = [cache EXCEPT ![backend(c)].otp = record]

At(c, kind, pc) == requests[c].kind = kind /\ requests[c].pc = pc
Step(c, pc) == requests' = [requests EXCEPT ![c].pc = pc]
End(c) == requests' = [requests EXCEPT ![c] = NoRequest]
Fixed == together' = together /\ shared' = shared

-----------------------------------------------------------------------------
(* Requests come and go.                                                   *)

Submit(c, kind, server, code, right) ==
  /\ requests[c].pc = "idle" /\ (together \/ \A d \in Clients : requests[d].pc = "idle")
  /\ requests' = [requests EXCEPT ![c] = [NoRequest EXCEPT !.kind = kind, !.pc = "sent",
                                            !.server = server, !.code = code, !.right = right]]
  /\ Fixed /\ UNCHANGED <<cache, user, workspaces, issued, overAge, told, uses>>

\* A request ends in an error, or with the process that serves it.
Abort(c) ==
  /\ requests[c].pc # "idle"
  /\ End(c)
  /\ Fixed /\ UNCHANGED <<cache, user, workspaces, issued, overAge, told, uses>>

\* A process stops: its requests end, and so does a cache of its own.
StopServer(s) ==
  /\ requests' = [c \in Clients |-> IF requests[c].server = s THEN NoRequest ELSE requests[c]]
  /\ cache' = [cache EXCEPT ![s] = Empty]
  /\ told' = [told EXCEPT ![s] = 0]
  /\ Fixed /\ UNCHANGED <<user, workspaces, issued, overAge, uses>>

\* An entry of the cache runs out.
CountRunsOut(s) ==
  /\ cache[s].count # 0
  /\ cache' = [cache EXCEPT ![s].count = 0]
  /\ told' = [told EXCEPT ![s] = 0]
  /\ Fixed /\ UNCHANGED <<user, workspaces, requests, issued, overAge, uses>>

CodeRunsOut(k) ==
  /\ k \in (1..issued) \ overAge
  /\ overAge' = overAge \cup {k}
  /\ Fixed /\ UNCHANGED <<cache, user, workspaces, requests, issued, told, uses>>

\* An administrator disables the account, or enables it.
SetActive ==
  /\ user # "none"
  /\ user' = IF user = "active" THEN "disabled" ELSE "active"
  /\ Fixed /\ UNCHANGED <<cache, workspaces, requests, issued, overAge, told, uses>>

-----------------------------------------------------------------------------
(* signin.                                                                 *)

\* The user is read, and the password checked: read is 1 for valid, 2 for
\* valid but disabled.
Judge(c) ==
  /\ At(c, "signin", "sent")
  /\ LET valid == user # "none" /\ requests[c].right
     IN requests' = [requests EXCEPT ![c].pc = "judged",
                                     ![c].read = IF ~valid THEN 0 ELSE IF user = "active" THEN 1 ELSE 2]
  /\ Fixed /\ UNCHANGED <<cache, user, workspaces, issued, overAge, told, uses>>

is_locked(c) == Count(c) >= MaxFailures

CheckLock(c) ==
  /\ At(c, "signin", "judged")
  /\ \/ (is_locked(c) \/ requests[c].read = 2) /\ End(c)
     \/ ~is_locked(c) /\ requests[c].read = 0 /\ Step(c, "failing")
     \/ ~is_locked(c) /\ requests[c].read = 1 /\ Step(c, "clearing")
  /\ Fixed /\ UNCHANGED <<cache, user, workspaces, issued, overAge, told, uses>>

\* LoginThrottle.failure, its read and its write; then the 401.
ReadCount(c) ==
  /\ At(c, "signin", "failing")
  /\ requests' = [requests EXCEPT ![c].pc = "counting", ![c].read = Count(c)]
  /\ Fixed /\ UNCHANGED <<cache, user, workspaces, issued, overAge, told, uses>>

\* Mutant of WriteCount: only the first failure is counted.
WriteCountOnce(c) ==
  /\ At(c, "signin", "counting")
  /\ SetCount(c, IF requests[c].read = 0 THEN 1 ELSE requests[c].read)
  /\ told' = IF together \/ told[backend(c)] > MaxFailures THEN told
             ELSE [told EXCEPT ![backend(c)] = @ + 1]
  /\ End(c)
  /\ Fixed /\ UNCHANGED <<user, workspaces, issued, overAge, uses>>

WriteCount(c) ==
  /\ At(c, "signin", "counting")
  /\ SetCount(c, requests[c].read + 1)
  /\ told' = IF together \/ told[backend(c)] > MaxFailures THEN told
             ELSE [told EXCEPT ![backend(c)] = @ + 1]
  /\ End(c)
  /\ Fixed /\ UNCHANGED <<user, workspaces, issued, overAge, uses>>

\* LoginThrottle.clear.
Clear(c) ==
  /\ At(c, "signin", "clearing")
  /\ SetCount(c, 0)
  /\ told' = [told EXCEPT ![backend(c)] = 0]
  /\ Step(c, "entering")
  /\ Fixed /\ UNCHANGED <<user, workspaces, issued, overAge, uses>>

-----------------------------------------------------------------------------
(* signup, and ensure_user of verify_otp: look for the user, then insert.  *)

FindUser(c) ==
  /\ At(c, "signup", "sent") \/ At(c, "verify", "admitting")
  /\ IF user = "none" THEN Step(c, "inserting")
     ELSE IF requests[c].kind = "signup" THEN End(c) ELSE Step(c, "entering")
  /\ Fixed /\ UNCHANGED <<cache, user, workspaces, issued, overAge, told, uses>>

\* users.email is unique: the second insert is an error.
InsertUser(c) ==
  /\ requests[c].pc = "inserting"
  /\ IF user = "none" THEN user' = "active" /\ Step(c, "entering")
     ELSE End(c) /\ UNCHANGED user
  /\ Fixed /\ UNCHANGED <<cache, workspaces, issued, overAge, told, uses>>

\* ensure_personal_org: the query, and the commit of a new one.  No constraint
\* keeps a user from having two.
FindWorkspace(c) ==
  /\ requests[c].pc = "entering"
  /\ IF workspaces = 0 THEN Step(c, "founding") ELSE End(c)
  /\ Fixed /\ UNCHANGED <<cache, user, workspaces, issued, overAge, told, uses>>

CreateWorkspace(c) ==
  /\ requests[c].pc = "founding"
  /\ workspaces' = IF workspaces < 2 THEN workspaces + 1 ELSE 2
  /\ End(c)
  /\ Fixed /\ UNCHANGED <<cache, user, issued, overAge, told, uses>>

-----------------------------------------------------------------------------
(* One-time codes.                                                         *)

\* OTPStore.issue.
IssueCode(c) ==
  /\ At(c, "otp", "sent") /\ issued < MaxCodes
  /\ issued' = issued + 1
  /\ SetOTP(c, [code |-> issued + 1, attempts |-> 0])
  /\ End(c)
  /\ Fixed /\ UNCHANGED <<user, workspaces, overAge, told, uses>>

\* OTPStore.verify reads the record and decides what to do with it.
ReadCode(c) ==
  /\ At(c, "verify", "sent")
  /\ LET record == OTP(c)
     IN IF record = NoCode THEN End(c)
        ELSE requests' = [requests EXCEPT ![c].read = record.attempts, ![c].of = record.code,
               ![c].pc = IF record.attempts >= MaxAttempts \/ record.code \in overAge THEN "dropping"
                         ELSE IF requests[c].code # record.code THEN "missing" ELSE "using"]
  /\ Fixed /\ UNCHANGED <<cache, user, workspaces, issued, overAge, told, uses>>

\* Too many attempts, or too old: the record is deleted.
DropCode(c) ==
  /\ requests[c].pc = "dropping"
  /\ SetOTP(c, NoCode)
  /\ End(c)
  /\ Fixed /\ UNCHANGED <<user, workspaces, issued, overAge, told, uses>>

\* A wrong code: the record as read is written back with one attempt more.
MissCode(c) ==
  /\ requests[c].pc = "missing"
  /\ SetOTP(c, [code |-> requests[c].of,
                attempts |-> IF requests[c].read < MaxAttempts THEN requests[c].read + 1 ELSE MaxAttempts])
  /\ End(c)
  /\ Fixed /\ UNCHANGED <<user, workspaces, issued, overAge, told, uses>>

\* Mutant of UseCode: the code is kept.
UseCodeKept(c) ==
  /\ requests[c].pc = "using"
  /\ uses' = [uses EXCEPT ![requests[c].of] = IF @ < 2 THEN @ + 1 ELSE 2]
  /\ Step(c, "admitting")
  /\ Fixed /\ UNCHANGED <<cache, user, workspaces, issued, overAge, told>>

\* The right code: deleted, and verify returns True.
UseCode(c) ==
  /\ requests[c].pc = "using"
  /\ SetOTP(c, NoCode)
  /\ uses' = IF together THEN uses ELSE [uses EXCEPT ![requests[c].of] = IF @ < 2 THEN @ + 1 ELSE 2]
  /\ Step(c, "admitting")
  /\ Fixed /\ UNCHANGED <<user, workspaces, issued, overAge, told>>

AccessStep(c) ==
  \/ Judge(c) \/ CheckLock(c) \/ ReadCount(c) \/ WriteCount(c) \/ Clear(c)
  \/ FindUser(c) \/ InsertUser(c) \/ FindWorkspace(c) \/ CreateWorkspace(c)
  \/ IssueCode(c) \/ ReadCode(c) \/ DropCode(c) \/ MissCode(c) \/ UseCode(c)

AccessNext ==
  \/ \E c \in Clients, s \in IF shared THEN {NoRequest.server} ELSE Servers :
       \/ \E right \in BOOLEAN : Submit(c, "signin", s, 0, right)
       \/ Submit(c, "signup", s, 0, TRUE)
       \/ issued < MaxCodes /\ Submit(c, "otp", s, 0, TRUE)
       \/ \E k \in 0..issued : Submit(c, "verify", s, k, TRUE)
  \/ \E c \in Clients : AccessStep(c) \/ Abort(c)
  \/ \E s \in Servers : StopServer(s)
  \/ \E s \in Stores : CountRunsOut(s)
  \/ \E k \in Codes : CodeRunsOut(k)
  \/ SetActive

AccessSpec == AccessInit /\ [][AccessNext]_accessVars

-----------------------------------------------------------------------------
(* Properties.                                                             *)

\* Requests one at a time: between two moments at which the counter is absent,
\* no more than LOGIN_MAX_FAILURES wrong passwords are answered by a store,
\* whatever sign-ins, codes and restarts come between.
FailuresBounded ==
  ~together => \A s \in Stores : told[s] <= MaxFailures

\* Requests one at a time: a code signs in once, although wrong attempts write
\* its record back and other codes are issued meanwhile.
CodeSignsInOnce == ~together => \A k \in Codes : uses[k] <= 1

\* Requests one at a time: a user has one workspace at most, although a process
\* may stop between the commit of the user and that of the workspace.
OneWorkspace == ~together => workspaces <= 1

\* The three of them, over the shapes of the variables.
AccessInvariant == AccessTypeOK /\ FailuresBounded /\ CodeSignsInOnce /\ OneWorkspace

\* However failures overlap in Redis, and although overlapping ones are counted once and
\* a slow one writes back an older count: wrong passwords cannot be answered
\* for ever without the address being locked or the counter being absent.
FailuresLock ==
  []<><<\E c \in Clients : WriteCount(c)>>_accessVars =>
    []<>(cache[Redis].count \in {0, MaxFailures})

\* The same for a code: wrong codes cannot be answered for ever without the
\* code being used up or gone.
CodeWearsOut ==
  []<><<\E c \in Clients : MissCode(c)>>_accessVars =>
    []<>(cache[Redis].otp.code = 0 \/ cache[Redis].otp.attempts = MaxAttempts)

\* The two of them: guessing wears out, however the guesses overlap.
GuessingWearsOut == FailuresLock /\ CodeWearsOut
=============================================================================
