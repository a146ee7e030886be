----------------------- MODULE RequestHandlingProofs -----------------------
(***************************************************************************)
(* Theorems about machines of MCRequestHandling, one after the other:      *)
(* access to an account, the evidence store, the cache of fact-check feeds *)
(* and reviews.  They share no state, and no fact.  In each part an        *)
(* invariant ...Inv holds at the start (...Starts), is kept by every step  *)
(* (...Steps), and implies what the run checks.  Sessions, intake and the  *)
(* decisions have modules of their own.                                    *)
(***************************************************************************)
EXTENDS AccountAccess, EvidenceStore, FactCheckFeeds, Reviews, FiniteSetTheorems, TLAPS

-----------------------------------------------------------------------------
(* Access to an account.                                                   *)

Entry == [count : 0..MaxFailures, otp : [code : 0..MaxCodes, attempts : 0..MaxAttempts]]
BackendOf(r) == IF shared THEN Redis ELSE r.server

\* What an open request has read still holds of the store it was read from.
ReadHolds(r) ==
  /\ r.pc = "failing" => cache[BackendOf(r)].count < MaxFailures
  /\ r.pc = "counting" => r.read < MaxFailures /\ told[BackendOf(r)] <= r.read
  /\ r.pc \in {"missing", "using"} =>
       /\ r.of \in 1..issued /\ uses[r.of] = 0
       /\ \A s \in Stores : cache[s].otp.code = r.of => s = BackendOf(r)
  /\ r.pc = "founding" => workspaces = 0

\* No wrong password is answered that is not counted where it was answered.
Counts == \A s \in Stores : told[s] <= cache[s].count

\* A code is in one store at most, and in none once it has signed somebody in.
CodesOnce ==
  /\ \A s \in Stores : cache[s].otp.code = 0 => cache[s].otp = NoCode
  /\ \A s, t \in Stores : cache[s].otp.code = cache[t].otp.code /\ cache[s].otp.code # 0 => s = t
  /\ \A s \in Stores : cache[s].otp.code # 0 =>
       cache[s].otp.code <= issued /\ uses[cache[s].otp.code] = 0
  /\ \A k \in Codes : uses[k] <= 1 /\ (k > issued => uses[k] = 0)

\* What makes AccessInvariant inductive: requests one at a time, so that what was
\* read is still so when it is written.
Alone ==
  ~together =>
    /\ \A c, d \in Clients : requests[c].pc # "idle" /\ requests[d].pc # "idle" => c = d
    /\ \A c \in Clients : ReadHolds(requests[c])
    /\ Counts /\ CodesOnce /\ workspaces <= 1

AccessInv == AccessTypeOK /\ Alone

LEMMA AccessImplied == AccessInv => AccessInvariant
<1> SUFFICES ASSUME AccessInv PROVE AccessInvariant  OBVIOUS
<1>1. FailuresBounded
  <2> SUFFICES ASSUME ~together, NEW s \in Stores PROVE told[s] <= MaxFailures
    BY DEF FailuresBounded
  <2>1. told[s] <= cache[s].count  BY DEF AccessInv, Alone, Counts
  <2>2. told[s] \in Nat /\ cache[s].count \in 0..MaxFailures
    BY AccessAssumption DEF AccessInv, AccessTypeOK
  <2>3. QED  BY <2>1, <2>2, AccessAssumption
<1>2. CodeSignsInOnce /\ OneWorkspace
  BY DEF AccessInv, Alone, CodesOnce, CodeSignsInOnce, OneWorkspace
<1>3. QED  BY <1>1, <1>2 DEF AccessInv, AccessInvariant

LEMMA NoRequestIs == NoRequest \in Request /\ NoRequest.pc = "idle"
<1>1. (CHOOSE s \in Servers : TRUE) \in Servers  BY AccessAssumption
<1>2. QED  BY <1>1, AccessAssumption DEF NoRequest, Request, Kinds

LEMMA AccessStarts == AccessInit => AccessInv
<1> SUFFICES ASSUME NEW t \in BOOLEAN, NEW s \in BOOLEAN, AccessStart(t, s) PROVE AccessInv
  BY DEF AccessInit
<1>1. /\ \A c \in Clients : requests[c] = NoRequest
      /\ \A st \in Stores : cache[st] = Empty /\ told[st] = 0
      /\ \A k \in Codes : uses[k] = 0
  BY DEF AccessStart
<1>2. Empty \in Entry /\ Empty.count = 0 /\ Empty.otp.code = 0
  BY AccessAssumption DEF Empty, NoCode, Entry
<1>3. AccessTypeOK
  BY <1>2, NoRequestIs, AccessAssumption DEF AccessStart, AccessTypeOK, Entry
<1>4. Alone
  BY <1>1, <1>2, NoRequestIs DEF AccessStart, Alone, ReadHolds, Counts, CodesOnce, Empty
<1>5. QED  BY <1>3, <1>4 DEF AccessInv

\* A step of one request that leaves the cache.
LEMMA RequestMoved ==
  ASSUME AccessInv, NEW c \in Clients, NEW r \in Request,
         requests' = [requests EXCEPT ![c] = r],
         Fixed, UNCHANGED <<cache, issued, overAge, told, uses>>,
         user' \in {"none", "active", "disabled"}, workspaces' \in 0..2,
         ~together =>
           /\ r.pc # "idle" => \A d \in Clients : requests[d].pc # "idle" => d = c
           /\ workspaces' # workspaces => requests[c].pc # "idle" /\ workspaces' <= 1
           /\ ReadHolds(r)
           /\ r.pc = "founding" => workspaces' = 0
  PROVE  AccessInv'
<1>1. \A d \in Clients : requests'[d] = IF d = c THEN r ELSE requests[d]
  BY DEF AccessInv, AccessTypeOK
<1>2. AccessTypeOK'  BY DEF AccessInv, AccessTypeOK, Fixed
<1>3. CASE together  BY <1>2, <1>3 DEF AccessInv, Alone, Fixed
<1>4. CASE ~together
  <2>1. /\ Alone /\ Counts /\ CodesOnce /\ workspaces <= 1 /\ ~together'
        /\ \A d, e \in Clients : requests[d].pc # "idle" /\ requests[e].pc # "idle" => d = e
        /\ \A d \in Clients : ReadHolds(requests[d])
    BY <1>4 DEF AccessInv, Alone, Fixed
  <2>2. Counts' /\ CodesOnce'  BY <2>1 DEF Counts, CodesOnce
  <2>3. \A d \in Clients : ReadHolds(requests[d])'
    BY <1>1, <1>4, <2>1 DEF ReadHolds, BackendOf, Fixed
  <2>4. workspaces' <= 1  BY <1>4, <2>1
  <2>5. \A d, e \in Clients : requests'[d].pc # "idle" /\ requests'[e].pc # "idle" => d = e
    BY <1>1, <1>4, <2>1
  <2>6. QED  BY <1>2, <2>1, <2>2, <2>3, <2>4, <2>5 DEF AccessInv, Alone
<1>5. QED  BY <1>3, <1>4

\* A step that writes the store of an open request, and leaves it with nothing
\* read that would have to hold.
LEMMA EntryWritten ==
  ASSUME AccessInv, NEW c \in Clients, NEW r \in Request, NEW e \in Entry,
         requests' = [requests EXCEPT ![c] = r], requests[c].pc # "idle",
         r.pc \in {"idle", "entering", "admitting"},
         cache' = [cache EXCEPT ![backend(c)] = e],
         Fixed, UNCHANGED <<user, workspaces, overAge>>,
         issued' \in issued..MaxCodes,
         told' \in [Stores -> 0..MaxFailures + 1], uses' \in [Codes -> 0..2],
         ~together =>
           /\ \A s \in Stores : told'[s] <= IF s = backend(c) THEN e.count ELSE cache[s].count
           /\ e.otp.code = 0 => e.otp = NoCode
           /\ e.otp.code # 0 =>
                /\ e.otp.code <= issued' /\ uses'[e.otp.code] = 0
                /\ \A s \in Stores \ {backend(c)} : cache[s].otp.code # e.otp.code
           /\ \A k \in Codes : uses'[k] <= 1 /\ (k > issued' => uses'[k] = 0)
           /\ \A s \in Stores \ {backend(c)} :
                cache[s].otp.code # 0 => uses'[cache[s].otp.code] = 0
  PROVE  AccessInv'
<1> DEFINE b == backend(c)
<1>0. AccessTypeOK /\ Alone  BY DEF AccessInv
<1>1. \A d \in Clients : requests'[d] = IF d = c THEN r ELSE requests[d]
  BY <1>0 DEF AccessTypeOK
<1>2. \A s \in Stores : cache'[s] = IF s = b THEN e ELSE cache[s]
  BY <1>0 DEF AccessTypeOK
<1>3. AccessTypeOK'
  <2>1. issued \in 0..MaxCodes /\ MaxCodes \in Nat  BY <1>0, AccessAssumption DEF AccessTypeOK
  <2>2. issued' \in 0..MaxCodes /\ overAge' \subseteq 1..issued'
    BY <1>0, <2>1 DEF AccessTypeOK
  <2>3. cache' \in [Stores -> Entry] /\ requests' \in [Clients -> Request]
    BY <1>0 DEF AccessTypeOK, Entry
  <2>4. QED  BY <1>0, <2>2, <2>3 DEF AccessTypeOK, Entry, Fixed
<1> HIDE DEF b
<1>4. CASE together  BY <1>3, <1>4 DEF AccessInv, Alone, Fixed
<1>5. CASE ~together
  <2>1. \A d \in Clients \ {c} : requests'[d].pc = "idle"
    BY <1>0, <1>1, <1>5 DEF Alone
  <2>2. \A d \in Clients : requests'[d].pc \in {"idle", "entering", "admitting"}
    BY <1>1, <2>1
  <2>3. \A d \in Clients : ReadHolds(requests[d])'  BY <2>2 DEF ReadHolds
  <2>4. Counts'  BY <1>2, <1>5 DEF Counts, b
  <2>5. CodesOnce'
    <3>1. \A s, t \in Stores : cache'[s].otp.code = cache'[t].otp.code /\ cache'[s].otp.code # 0
             => s = t
      BY <1>0, <1>2, <1>5 DEF Alone, CodesOnce, b
    <3>2. \A s \in Stores : cache'[s].otp.code # 0 =>
             cache'[s].otp.code <= issued' /\ uses'[cache'[s].otp.code] = 0
      <4> SUFFICES ASSUME NEW s \in Stores, cache'[s].otp.code # 0
                   PROVE  cache'[s].otp.code <= issued' /\ uses'[cache'[s].otp.code] = 0
        OBVIOUS
      <4>1. CASE s = b  BY <1>2, <1>5, <4>1 DEF b
      <4>2. CASE s # b
        <5>1. cache'[s] = cache[s] /\ cache[s].otp.code <= issued /\ cache[s].otp.code \in Nat
          BY <1>0, <1>2, <1>5, <4>2 DEF Alone, CodesOnce, AccessTypeOK
        <5>2. issued <= issued' /\ issued \in Nat /\ issued' \in Nat
          BY <1>0, AccessAssumption DEF AccessTypeOK
        <5>3. QED  BY <1>5, <4>2, <5>1, <5>2 DEF b
      <4>3. QED  BY <4>1, <4>2
    <3>3. \A s \in Stores : cache'[s].otp.code = 0 => cache'[s].otp = NoCode
      BY <1>0, <1>2, <1>5 DEF Alone, CodesOnce, b
    <3>4. QED  BY <1>5, <3>1, <3>2, <3>3 DEF CodesOnce
  <2>6. QED  BY <1>0, <1>3, <1>5, <2>1, <2>3, <2>4, <2>5 DEF AccessInv, Alone, Fixed
<1>6. QED  BY <1>4, <1>5

AccessPlaces == {"idle", "sent", "judged", "failing", "counting", "clearing", "inserting",
                 "dropping", "missing", "using", "admitting", "entering", "founding"}
Reading == {"failing", "counting", "missing", "using", "founding"}

LEMMA Stepped ==
  ASSUME AccessInv, NEW c \in Clients, NEW pc \in AccessPlaces, Step(c, pc)
  PROVE  \E r \in Request :
           /\ requests' = [requests EXCEPT ![c] = r]
           /\ r.pc = pc /\ r.server = requests[c].server /\ r.read = requests[c].read
<1> DEFINE r == [requests[c] EXCEPT !.pc = pc]
<1>1. requests[c] \in Request  BY DEF AccessInv, AccessTypeOK
<1>2. r \in Request /\ r.pc = pc /\ r.server = requests[c].server /\ r.read = requests[c].read
  BY <1>1 DEF Request, AccessPlaces
<1>3. requests' = [requests EXCEPT ![c] = r]  BY DEF Step
<1> HIDE DEF r
<1>4. QED  BY <1>2, <1>3

\* The steps of a request that only read, and go where nothing they read has to hold.
LEMMA Plain ==
  ASSUME AccessInv, NEW c \in Clients, requests[c].pc # "idle",
         NEW pc \in AccessPlaces \ Reading, Step(c, pc) \/ End(c),
         Fixed, UNCHANGED <<cache, issued, overAge, told, uses>>,
         user' \in {"none", "active", "disabled"}, workspaces' \in 0..2,
         ~together => workspaces' <= 1
  PROVE  AccessInv'
<1>1. \E r \in Request :
        requests' = [requests EXCEPT ![c] = r] /\ r.pc \in AccessPlaces \ Reading
  <2>1. "idle" \in AccessPlaces \ Reading  BY DEF AccessPlaces, Reading
  <2>2. CASE End(c)  BY <2>1, <2>2, NoRequestIs DEF End
  <2>3. CASE Step(c, pc)  BY <2>3, Stepped
  <2>4. QED  BY <2>2, <2>3
<1>2. ~together => \A d \in Clients : requests[d].pc # "idle" => d = c
  BY DEF AccessInv, Alone
<1>3. \A r \in Request : r.pc \in AccessPlaces \ Reading => ReadHolds(r) /\ r.pc # "founding"
  BY DEF ReadHolds, Reading
<1>4. QED  BY <1>1, <1>2, <1>3, RequestMoved

LEMMA AccessSteps == AccessInv /\ [AccessNext]_accessVars => AccessInv'
<1> SUFFICES ASSUME AccessInv, [AccessNext]_accessVars PROVE AccessInv'  OBVIOUS
<1>0. /\ AccessTypeOK /\ Alone
      /\ MaxFailures \in Nat \ {0} /\ MaxAttempts \in Nat \ {0} /\ MaxCodes \in Nat
      /\ \A c \in Clients : requests[c] \in Request
      /\ \A s \in Stores : cache[s] \in Entry
      /\ user \in {"none", "active", "disabled"} /\ workspaces \in 0..2 /\ issued \in 0..MaxCodes
      /\ ~together => workspaces <= 1
  BY AccessAssumption DEF AccessInv, AccessTypeOK, Entry, Alone
<1>a. ASSUME NEW c \in Clients, NEW kind, NEW pc, At(c, kind, pc)
      PROVE  requests[c].pc = pc
  BY <1>a DEF At
<1>b. \A c \in Clients : backend(c) \in Stores /\ backend(c) = BackendOf(requests[c])
  BY <1>0 DEF backend, BackendOf, Stores, Request
<1>1. ASSUME NEW c \in Clients, NEW kind \in Kinds, NEW server \in Servers,
             NEW code \in 0..MaxCodes, NEW right \in BOOLEAN, Submit(c, kind, server, code, right)
      PROVE  AccessInv'
  <2> DEFINE r == [NoRequest EXCEPT !.kind = kind, !.pc = "sent", !.server = server,
                                    !.code = code, !.right = right]
  <2>1. r \in Request /\ r.pc = "sent"  BY NoRequestIs DEF Request
  <2>2. requests' = [requests EXCEPT ![c] = r]  BY <1>1 DEF Submit
  <2> HIDE DEF r
  <2>3. ReadHolds(r) /\ r.pc # "founding"  BY <2>1 DEF ReadHolds
  <2>4. ~together => \A d \in Clients : requests[d].pc = "idle"  BY <1>1 DEF Submit
  <2>5. Fixed /\ UNCHANGED <<cache, user, workspaces, issued, overAge, told, uses>>
    BY <1>1 DEF Submit
  <2>6. QED  BY <1>0, <2>1, <2>2, <2>3, <2>4, <2>5, RequestMoved
<1>2. ASSUME NEW c \in Clients, Abort(c) PROVE AccessInv'
  <2>1. "idle" \in AccessPlaces \ Reading  BY DEF AccessPlaces, Reading
  <2>2. QED  BY <1>0, <1>2, <2>1, Plain DEF Abort
<1>3. ASSUME NEW c \in Clients, Judge(c) PROVE AccessInv'
  <2>1. PICK n \in 0..2 : requests' = [requests EXCEPT ![c].pc = "judged", ![c].read = n]
    <3> DEFINE valid == user # "none" /\ requests[c].right
               n == IF ~valid THEN 0 ELSE IF user = "active" THEN 1 ELSE 2
    <3>1. requests' = [requests EXCEPT ![c].pc = "judged", ![c].read = n]  BY <1>3 DEF Judge
    <3>2. n \in 0..2  OBVIOUS
    <3> HIDE DEF n
    <3>3. QED  BY <3>1, <3>2
  <2> DEFINE r == [requests[c] EXCEPT !.pc = "judged", !.read = n]
  <2>2. r \in Request /\ r.pc = "judged"
    <3>1. n \in 0..MaxFailures + MaxAttempts + 2  BY <1>0
    <3>2. QED  BY <1>0, <3>1 DEF Request
  <2>3. requests' = [requests EXCEPT ![c] = r]  BY <1>0, <2>1 DEF AccessTypeOK
  <2> HIDE DEF r
  <2>4. ReadHolds(r) /\ r.pc # "founding"  BY <2>2 DEF ReadHolds
  <2>5. ~together => \A d \in Clients : requests[d].pc # "idle" => d = c
    BY <1>0, <1>3, <1>a DEF Judge, Alone
  <2>6. QED  BY <1>0, <1>3, <2>2, <2>3, <2>4, <2>5, RequestMoved DEF Judge
<1>4. ASSUME NEW c \in Clients, CheckLock(c) PROVE AccessInv'
  <2>1. /\ requests[c].pc # "idle" /\ Fixed
        /\ UNCHANGED <<cache, user, workspaces, issued, overAge, told, uses>>
        /\ End(c) \/ Step(c, "clearing") \/ (~is_locked(c) /\ Step(c, "failing"))
    BY <1>4, <1>a DEF CheckLock
  <2>2. CASE End(c) \/ Step(c, "clearing")
    <3>1. "clearing" \in AccessPlaces \ Reading  BY DEF AccessPlaces, Reading
    <3>2. QED  BY <1>0, <2>1, <2>2, <3>1, Plain
  <2>3. CASE ~is_locked(c) /\ Step(c, "failing")
    <3>1. PICK r \in Request : /\ requests' = [requests EXCEPT ![c] = r]
                               /\ r.pc = "failing" /\ r.server = requests[c].server
      BY <2>3, Stepped DEF AccessPlaces
    <3>2. cache[BackendOf(r)].count < MaxFailures
      <4>1. BackendOf(r) = backend(c)  BY <3>1 DEF BackendOf, backend
      <4>2. cache[backend(c)].count \in Nat  BY <1>0, <1>b DEF Entry
      <4>3. QED  BY <1>0, <2>3, <4>1, <4>2 DEF is_locked, Count
    <3>3. ReadHolds(r) /\ r.pc # "founding"  BY <3>1, <3>2 DEF ReadHolds
    <3>4. ~together => \A d \in Clients : requests[d].pc # "idle" => d = c
      BY <1>0, <2>1 DEF Alone
    <3>5. QED  BY <1>0, <2>1, <3>1, <3>3, <3>4, RequestMoved
  <2>4. QED  BY <2>1, <2>2, <2>3
<1>5. ASSUME NEW c \in Clients, ReadCount(c) PROVE AccessInv'
  <2> DEFINE r == [requests[c] EXCEPT !.pc = "counting", !.read = Count(c)]
  <2>1. Count(c) \in 0..MaxFailures  BY <1>0, <1>b DEF Count, Entry
  <2>2. /\ r \in Request /\ r.pc = "counting" /\ r.read = Count(c)
        /\ r.server = requests[c].server
    <3>1. Count(c) \in 0..MaxFailures + MaxAttempts + 2  BY <1>0, <2>1
    <3>2. QED  BY <1>0, <3>1 DEF Request
  <2>3. requests' = [requests EXCEPT ![c] = r]  BY <1>0, <1>5 DEF ReadCount, AccessTypeOK
  <2> HIDE DEF r
  <2>4. ~together => ReadHolds(r) /\ \A d \in Clients : requests[d].pc # "idle" => d = c
    <3> SUFFICES ASSUME ~together
                 PROVE  ReadHolds(r) /\ \A d \in Clients : requests[d].pc # "idle" => d = c
      OBVIOUS
    <3>1. BackendOf(r) = backend(c)  BY <2>2 DEF BackendOf, backend
    <3>2. ReadHolds(requests[c]) /\ Counts /\ requests[c].pc = "failing"
      BY <1>0, <1>5, <1>a DEF Alone, ReadCount
    <3>3. Count(c) < MaxFailures /\ told[backend(c)] <= Count(c)
      BY <1>b, <3>2 DEF ReadHolds, Counts, Count
    <3>4. ReadHolds(r)  BY <2>2, <3>1, <3>3 DEF ReadHolds
    <3>5. QED  BY <1>0, <3>2, <3>4 DEF Alone
  <2>5. QED  BY <1>0, <1>5, <2>2, <2>3, <2>4, RequestMoved DEF ReadCount
<1>6. ASSUME NEW c \in Clients, WriteCount(c) PROVE AccessInv'
  <2> DEFINE b == backend(c)
             n == requests[c].read + 1
             m == IF n < MaxFailures THEN n ELSE MaxFailures
             e == [cache[b] EXCEPT !.count = m]
  <2>1. requests[c].read \in Nat /\ m \in 0..MaxFailures /\ requests[c].pc = "counting"
    BY <1>0, <1>6, <1>a DEF WriteCount, Request
  <2>2. cache' = [cache EXCEPT ![b].count = m]  BY <1>6 DEF WriteCount, SetCount
  <2> HIDE DEF m
  <2>3. e \in Entry /\ e.count = m /\ e.otp = cache[b].otp /\ cache' = [cache EXCEPT ![b] = e]
    BY <1>0, <1>b, <2>1, <2>2 DEF Entry, AccessTypeOK
  <2> HIDE DEF e, b
  <2>4. /\ told \in [Stores -> 0..MaxFailures + 1] /\ b \in Stores
        /\ told' = IF together \/ told[b] > MaxFailures THEN told ELSE [told EXCEPT ![b] = told[b] + 1]
    BY <1>0, <1>6, <1>b DEF WriteCount, AccessTypeOK, b
  <2>5. told' \in [Stores -> 0..MaxFailures + 1]  BY <1>0, <2>4
  <2>6. ~together => /\ \A s \in Stores : told'[s] <= IF s = b THEN m ELSE cache[s].count
                     /\ CodesOnce
    <3> SUFFICES ASSUME ~together
                 PROVE  /\ \A s \in Stores : told'[s] <= IF s = b THEN m ELSE cache[s].count
                        /\ CodesOnce
      OBVIOUS
    <3>1. ReadHolds(requests[c]) /\ Counts /\ CodesOnce  BY <1>0 DEF Alone
    <3>2. requests[c].read < MaxFailures /\ told[b] <= requests[c].read
      BY <1>b, <2>1, <3>1 DEF ReadHolds, b
    <3>3. m = requests[c].read + 1  BY <1>0, <2>1, <3>2 DEF m
    <3>4. told[b] \in Nat  BY <1>0, <2>4
    <3>5. told' = [told EXCEPT ![b] = told[b] + 1] /\ told[b] + 1 <= m
      BY <1>0, <2>1, <2>4, <3>2, <3>3, <3>4
    <3>6. QED  BY <2>4, <3>1, <3>5 DEF Counts
  <2>7. /\ requests' = [requests EXCEPT ![c] = NoRequest] /\ requests[c].pc # "idle"
        /\ Fixed /\ UNCHANGED <<user, workspaces, issued, overAge, uses>>
        /\ issued' \in issued..MaxCodes /\ uses' \in [Codes -> 0..2]
    BY <1>0, <1>6, <2>1 DEF WriteCount, End, AccessTypeOK
  <2>8. ~together => /\ e.otp.code # 0 =>
                          /\ e.otp.code <= issued' /\ uses'[e.otp.code] = 0
                          /\ \A s \in Stores \ {b} : cache[s].otp.code # e.otp.code
                     /\ e.otp.code = 0 => e.otp = NoCode
                     /\ \A k \in Codes : uses'[k] <= 1 /\ (k > issued' => uses'[k] = 0)
                     /\ \A s \in Stores \ {b} :
                          cache[s].otp.code # 0 => uses'[cache[s].otp.code] = 0
    BY <2>3, <2>4, <2>6, <2>7 DEF CodesOnce
  <2>9. QED  BY <2>3, <2>5, <2>6, <2>7, <2>8, NoRequestIs, EntryWritten DEF b
<1>7. ASSUME NEW c \in Clients, Clear(c) PROVE AccessInv'
  <2> DEFINE b == backend(c)
             m == IF 0 < MaxFailures THEN 0 ELSE MaxFailures
             e == [cache[b] EXCEPT !.count = 0]
  <2>1. m = 0  BY <1>0
  <2>2. cache' = [cache EXCEPT ![b].count = 0]  BY <1>7, <2>1 DEF Clear, SetCount
  <2>3. e \in Entry /\ e.count = 0 /\ e.otp = cache[b].otp /\ cache' = [cache EXCEPT ![b] = e]
    BY <1>0, <1>b, <2>2 DEF Entry, AccessTypeOK
  <2> HIDE DEF e, b
  <2>4. PICK r \in Request : requests' = [requests EXCEPT ![c] = r] /\ r.pc = "entering"
    BY <1>7, Stepped DEF Clear, AccessPlaces
  <2>5. /\ told \in [Stores -> 0..MaxFailures + 1] /\ b \in Stores
        /\ told' = [told EXCEPT ![b] = 0] /\ told' \in [Stores -> 0..MaxFailures + 1]
    BY <1>0, <1>7, <1>b DEF Clear, AccessTypeOK, b
  <2>6. /\ requests[c].pc # "idle" /\ Fixed
        /\ UNCHANGED <<user, workspaces, issued, overAge, uses>>
        /\ issued' \in issued..MaxCodes /\ uses' \in [Codes -> 0..2]
    BY <1>0, <1>7, <1>a DEF Clear, AccessTypeOK
  <2>7. ~together => /\ \A s \in Stores : told'[s] <= IF s = b THEN e.count ELSE cache[s].count
                     /\ e.otp.code # 0 =>
                          /\ e.otp.code <= issued' /\ uses'[e.otp.code] = 0
                          /\ \A s \in Stores \ {b} : cache[s].otp.code # e.otp.code
                     /\ e.otp.code = 0 => e.otp = NoCode
                     /\ \A k \in Codes : uses'[k] <= 1 /\ (k > issued' => uses'[k] = 0)
                     /\ \A s \in Stores \ {b} :
                          cache[s].otp.code # 0 => uses'[cache[s].otp.code] = 0
    BY <1>0, <2>3, <2>5, <2>6 DEF Alone, Counts, CodesOnce
  <2>8. QED  BY <2>3, <2>4, <2>5, <2>6, <2>7, EntryWritten DEF b
<1>8. ASSUME NEW c \in Clients, FindUser(c) PROVE AccessInv'
  <2>1. {"inserting", "entering"} \subseteq AccessPlaces \ Reading  BY DEF AccessPlaces, Reading
  <2>2. /\ requests[c].pc # "idle" /\ Fixed
        /\ UNCHANGED <<cache, user, workspaces, issued, overAge, told, uses>>
        /\ End(c) \/ \E pc \in {"inserting", "entering"} : Step(c, pc)
    BY <1>8, <1>a DEF FindUser
  <2>3. QED  BY <1>0, <2>1, <2>2, Plain
<1>9. ASSUME NEW c \in Clients, InsertUser(c) PROVE AccessInv'
  <2>1. "entering" \in AccessPlaces \ Reading  BY DEF AccessPlaces, Reading
  <2>2. /\ requests[c].pc # "idle" /\ Fixed /\ user' \in {"none", "active", "disabled"}
        /\ UNCHANGED <<cache, workspaces, issued, overAge, told, uses>>
        /\ End(c) \/ Step(c, "entering")
    BY <1>0, <1>9 DEF InsertUser
  <2>3. QED  BY <1>0, <2>1, <2>2, Plain
<1>10. ASSUME NEW c \in Clients, FindWorkspace(c) PROVE AccessInv'
  <2>1. /\ requests[c].pc # "idle" /\ Fixed
        /\ UNCHANGED <<cache, user, workspaces, issued, overAge, told, uses>>
    BY <1>10 DEF FindWorkspace
  <2>2. CASE workspaces = 0 /\ Step(c, "founding")
    <3>1. PICK r \in Request : requests' = [requests EXCEPT ![c] = r] /\ r.pc = "founding"
      BY <2>2, Stepped DEF AccessPlaces
    <3>2. ReadHolds(r)  BY <2>2, <3>1 DEF ReadHolds
    <3>3. ~together => \A d \in Clients : requests[d].pc # "idle" => d = c
      BY <1>0, <2>1 DEF Alone
    <3>4. QED  BY <1>0, <2>1, <2>2, <3>1, <3>2, <3>3, RequestMoved
  <2>3. CASE End(c)
    <3>1. "idle" \in AccessPlaces \ Reading  BY DEF AccessPlaces, Reading
    <3>2. QED  BY <1>0, <2>1, <2>3, <3>1, Plain
  <2>4. QED  BY <1>10, <2>2, <2>3 DEF FindWorkspace
<1>11. ASSUME NEW c \in Clients, CreateWorkspace(c) PROVE AccessInv'
  <2>1. /\ requests[c].pc = "founding" /\ Fixed /\ End(c) /\ workspaces' \in 0..2
        /\ UNCHANGED <<cache, user, issued, overAge, told, uses>>
        /\ workspaces = 0 => workspaces' = 1
    BY <1>0, <1>11 DEF CreateWorkspace
  <2>2. ~together => workspaces = 0  BY <1>0, <2>1 DEF Alone, ReadHolds
  <2>3. "idle" \in AccessPlaces \ Reading  BY DEF AccessPlaces, Reading
  <2>4. QED  BY <1>0, <2>1, <2>2, <2>3, Plain
<1>12. ASSUME NEW c \in Clients, IssueCode(c) PROVE AccessInv'
  <2> DEFINE b == backend(c)
             o == [code |-> issued + 1, attempts |-> 0]
             e == [cache[b] EXCEPT !.otp = o]
  <2>1. o.code = issued + 1 /\ o \in [code : 0..MaxCodes, attempts : 0..MaxAttempts]
    BY <1>0, <1>12 DEF IssueCode
  <2>2. cache' = [cache EXCEPT ![b].otp = o]  BY <1>12 DEF IssueCode, SetOTP
  <2> HIDE DEF o
  <2>3. /\ e \in Entry /\ e.count = cache[b].count /\ e.otp = o
        /\ cache' = [cache EXCEPT ![b] = e] /\ b \in Stores
    BY <1>0, <1>b, <2>1, <2>2 DEF Entry, AccessTypeOK
  <2> HIDE DEF e, b
  <2>4. /\ requests' = [requests EXCEPT ![c] = NoRequest] /\ requests[c].pc # "idle" /\ Fixed
        /\ UNCHANGED <<user, workspaces, overAge, told, uses>>
        /\ issued' = issued + 1 /\ issued' \in issued..MaxCodes /\ issued + 1 \in Codes
        /\ told' \in [Stores -> 0..MaxFailures + 1] /\ uses' \in [Codes -> 0..2]
    BY <1>0, <1>12, <1>a DEF IssueCode, End, AccessTypeOK, Codes
  <2>5. ~together => /\ \A s \in Stores : told'[s] <= IF s = b THEN e.count ELSE cache[s].count
                     /\ e.otp.code = 0 => e.otp = NoCode
                     /\ e.otp.code # 0 =>
                          /\ e.otp.code <= issued' /\ uses'[e.otp.code] = 0
                          /\ \A s \in Stores \ {b} : cache[s].otp.code # e.otp.code
                     /\ \A k \in Codes : uses'[k] <= 1 /\ (k > issued' => uses'[k] = 0)
                     /\ \A s \in Stores \ {b} :
                          cache[s].otp.code # 0 => uses'[cache[s].otp.code] = 0
    BY <1>0, <2>1, <2>3, <2>4 DEF Alone, Counts, CodesOnce, Codes, Entry
  <2>6. QED  BY <2>3, <2>4, <2>5, NoRequestIs, EntryWritten DEF b
<1>13. ASSUME NEW c \in Clients, ReadCode(c) PROVE AccessInv'
  <2> DEFINE record == OTP(c)
             place == IF record.attempts >= MaxAttempts \/ record.code \in overAge THEN "dropping"
                      ELSE IF requests[c].code # record.code THEN "missing" ELSE "using"
             r == [requests[c] EXCEPT !.read = record.attempts, !.of = record.code, !.pc = place]
  <2>1. /\ requests[c].pc = "sent" /\ Fixed
        /\ UNCHANGED <<cache, user, workspaces, issued, overAge, told, uses>>
    BY <1>13, <1>a DEF ReadCode
  <2>2. CASE End(c)
    <3>1. "idle" \in AccessPlaces \ Reading  BY DEF AccessPlaces, Reading
    <3>2. QED  BY <1>0, <2>1, <2>2, <3>1, Plain
  <2>3. CASE record # NoCode /\ requests' = [requests EXCEPT ![c].read = record.attempts,
               ![c].of = record.code, ![c].pc = place]
    <3>1. record \in [code : 0..MaxCodes, attempts : 0..MaxAttempts] /\ backend(c) \in Stores
          /\ record = cache[backend(c)].otp
      BY <1>0, <1>b DEF OTP, Entry
    <3>2. place \in {"dropping", "missing", "using"}  OBVIOUS
    <3> HIDE DEF record, place
    <3>3. requests' = [requests EXCEPT ![c] = r]  BY <1>0, <2>3 DEF AccessTypeOK
    <3>4. /\ r \in Request /\ r.pc = place /\ r.of = record.code
          /\ r.server = requests[c].server
      <4>1. record.attempts \in 0..MaxFailures + MaxAttempts + 2 /\ record.code \in 0..MaxCodes
        BY <1>0, <3>1
      <4>2. QED  BY <1>0, <3>2, <4>1 DEF Request
    <3> HIDE DEF r
    <3>5. ~together => ReadHolds(r) /\ \A d \in Clients : requests[d].pc # "idle" => d = c
      <4> SUFFICES ASSUME ~together
                   PROVE  ReadHolds(r) /\ \A d \in Clients : requests[d].pc # "idle" => d = c
        OBVIOUS
      <4>1. CodesOnce /\ BackendOf(r) = backend(c)
        BY <1>0, <3>4 DEF Alone, BackendOf, backend
      <4>2. record.code # 0  BY <2>3, <3>1, <4>1 DEF CodesOnce
      <4>3. record.code \in 1..issued /\ uses[record.code] = 0
        BY <1>0, <3>1, <4>1, <4>2 DEF CodesOnce
      <4>4. \A s \in Stores : cache[s].otp.code = record.code => s = backend(c)
        BY <3>1, <4>1, <4>2 DEF CodesOnce
      <4>5. ReadHolds(r)  BY <3>2, <3>4, <4>1, <4>3, <4>4 DEF ReadHolds
      <4>6. QED  BY <1>0, <2>1, <4>5 DEF Alone
    <3>6. r.pc # "founding"  BY <3>2, <3>4
    <3>7. QED  BY <1>0, <2>1, <3>3, <3>4, <3>5, <3>6, RequestMoved
  <2>4. QED  BY <1>13, <2>2, <2>3 DEF ReadCode
<1>14. ASSUME NEW c \in Clients, DropCode(c) PROVE AccessInv'
  <2> DEFINE b == backend(c)
             e == [cache[b] EXCEPT !.otp = NoCode]
  <2>1. NoCode \in [code : 0..MaxCodes, attempts : 0..MaxAttempts] /\ NoCode.code = 0
    BY <1>0 DEF NoCode
  <2>2. cache' = [cache EXCEPT ![b].otp = NoCode]  BY <1>14 DEF DropCode, SetOTP
  <2>3. /\ e \in Entry /\ e.count = cache[b].count /\ e.otp = NoCode
        /\ cache' = [cache EXCEPT ![b] = e] /\ b \in Stores
    BY <1>0, <1>b, <2>1, <2>2 DEF Entry, AccessTypeOK
  <2> HIDE DEF e, b
  <2>4. /\ requests' = [requests EXCEPT ![c] = NoRequest] /\ requests[c].pc # "idle" /\ Fixed
        /\ UNCHANGED <<user, workspaces, issued, overAge, told, uses>>
        /\ issued' \in issued..MaxCodes
        /\ told' \in [Stores -> 0..MaxFailures + 1] /\ uses' \in [Codes -> 0..2]
    BY <1>0, <1>14 DEF DropCode, End, AccessTypeOK
  <2>5. ~together => /\ \A s \in Stores : told'[s] <= IF s = b THEN e.count ELSE cache[s].count
                     /\ \A k \in Codes : uses'[k] <= 1 /\ (k > issued' => uses'[k] = 0)
                     /\ \A s \in Stores \ {b} :
                          cache[s].otp.code # 0 => uses'[cache[s].otp.code] = 0
    BY <1>0, <2>3, <2>4 DEF Alone, Counts, CodesOnce
  <2>6. QED  BY <2>1, <2>3, <2>4, <2>5, NoRequestIs, EntryWritten DEF b
<1>15. ASSUME NEW c \in Clients, MissCode(c) PROVE AccessInv'
  <2> DEFINE b == backend(c)
             n == IF requests[c].read < MaxAttempts THEN requests[c].read + 1 ELSE MaxAttempts
             o == [code |-> requests[c].of, attempts |-> n]
             e == [cache[b] EXCEPT !.otp = o]
  <2>1. o.code = requests[c].of /\ o \in [code : 0..MaxCodes, attempts : 0..MaxAttempts]
    BY <1>0 DEF Request
  <2>2. cache' = [cache EXCEPT ![b].otp = o]  BY <1>15 DEF MissCode, SetOTP
  <2> HIDE DEF o
  <2>3. /\ e \in Entry /\ e.count = cache[b].count /\ e.otp = o
        /\ cache' = [cache EXCEPT ![b] = e] /\ b \in Stores
    BY <1>0, <1>b, <2>1, <2>2 DEF Entry, AccessTypeOK
  <2> HIDE DEF e, b
  <2>4. /\ requests' = [requests EXCEPT ![c] = NoRequest] /\ requests[c].pc = "missing" /\ Fixed
        /\ UNCHANGED <<user, workspaces, issued, overAge, told, uses>>
        /\ issued' \in issued..MaxCodes
        /\ told' \in [Stores -> 0..MaxFailures + 1] /\ uses' \in [Codes -> 0..2]
    BY <1>0, <1>15 DEF MissCode, End, AccessTypeOK
  <2>5. ~together => /\ o.code \in 1..issued /\ uses[o.code] = 0
                     /\ \A s \in Stores : cache[s].otp.code = o.code => s = b
    BY <1>0, <1>b, <2>1, <2>4 DEF Alone, ReadHolds, b
  <2>6. ~together => /\ \A s \in Stores : told'[s] <= IF s = b THEN e.count ELSE cache[s].count
                     /\ e.otp.code # 0 =>
                          /\ e.otp.code <= issued' /\ uses'[e.otp.code] = 0
                          /\ \A s \in Stores \ {b} : cache[s].otp.code # e.otp.code
                     /\ e.otp.code # 0
                     /\ \A k \in Codes : uses'[k] <= 1 /\ (k > issued' => uses'[k] = 0)
                     /\ \A s \in Stores \ {b} :
                          cache[s].otp.code # 0 => uses'[cache[s].otp.code] = 0
    BY <1>0, <2>3, <2>4, <2>5 DEF Alone, Counts, CodesOnce
  <2>7. QED  BY <2>3, <2>4, <2>6, NoRequestIs, EntryWritten DEF b
<1>16. ASSUME NEW c \in Clients, UseCode(c) PROVE AccessInv'
  <2> DEFINE b == backend(c)
             e == [cache[b] EXCEPT !.otp = NoCode]
             k == requests[c].of
  <2>1. NoCode \in [code : 0..MaxCodes, attempts : 0..MaxAttempts] /\ NoCode.code = 0
    BY <1>0 DEF NoCode
  <2>2. cache' = [cache EXCEPT ![b].otp = NoCode]  BY <1>16 DEF UseCode, SetOTP
  <2>3. /\ e \in Entry /\ e.count = cache[b].count /\ e.otp = NoCode
        /\ cache' = [cache EXCEPT ![b] = e] /\ b \in Stores
    BY <1>0, <1>b, <2>1, <2>2 DEF Entry, AccessTypeOK
  <2> HIDE DEF e, b
  <2>4. /\ requests[c].pc = "using" /\ Fixed
        /\ UNCHANGED <<user, workspaces, issued, overAge, told>>
        /\ issued' \in issued..MaxCodes
        /\ told' \in [Stores -> 0..MaxFailures + 1] /\ uses \in [Codes -> 0..2]
        /\ uses' = IF together THEN uses
                   ELSE [uses EXCEPT ![k] = IF uses[k] < 2 THEN uses[k] + 1 ELSE 2]
    BY <1>0, <1>16 DEF UseCode, AccessTypeOK
  <2>5. PICK r \in Request : requests' = [requests EXCEPT ![c] = r] /\ r.pc = "admitting"
    BY <1>16, Stepped DEF UseCode, AccessPlaces
  <2>6. ~together => /\ k \in 1..issued /\ uses[k] = 0
                     /\ \A s \in Stores : cache[s].otp.code = k => s = b
    BY <1>0, <1>b, <2>4 DEF Alone, ReadHolds, b
  <2> HIDE DEF k
  <2>7. uses' \in [Codes -> 0..2] /\ (~together => uses' = [uses EXCEPT ![k] = 1] /\ k \in Codes)
    <3>1. CASE together  BY <2>4, <3>1
    <3>2. CASE ~together
      <4>1. k \in Codes /\ uses[k] = 0  BY <1>0, <2>6, <3>2 DEF Codes
      <4>2. uses' = [uses EXCEPT ![k] = 1]  BY <2>4, <3>2, <4>1
      <4>3. QED  BY <2>4, <4>1, <4>2
    <3>3. QED  BY <3>1, <3>2
  <2>8. ~together => /\ \A s \in Stores : told'[s] <= IF s = b THEN e.count ELSE cache[s].count
                     /\ \A j \in Codes : uses'[j] <= 1 /\ (j > issued' => uses'[j] = 0)
                     /\ \A s \in Stores \ {b} :
                          cache[s].otp.code # 0 => uses'[cache[s].otp.code] = 0
    <3> SUFFICES ASSUME ~together
                 PROVE  /\ \A s \in Stores : told'[s] <= IF s = b THEN e.count ELSE cache[s].count
                        /\ \A j \in Codes : uses'[j] <= 1 /\ (j > issued' => uses'[j] = 0)
                        /\ \A s \in Stores \ {b} :
                             cache[s].otp.code # 0 => uses'[cache[s].otp.code] = 0
      OBVIOUS
    <3>1. \A j \in Codes : uses'[j] = IF j = k THEN 1 ELSE uses[j]  BY <2>4, <2>7
    <3>2. \A s \in Stores : cache[s].otp.code # 0 => cache[s].otp.code \in Codes
      BY <1>0 DEF Entry, Codes
    <3>3. QED  BY <1>0, <2>3, <2>4, <2>6, <3>1, <3>2 DEF Alone, Counts, CodesOnce, Codes
  <2>9. QED  BY <2>1, <2>3, <2>4, <2>5, <2>7, <2>8, EntryWritten DEF b
<1>17. ASSUME NEW s \in Servers, StopServer(s) PROVE AccessInv'
  <2>1. /\ requests' = [c \in Clients |-> IF requests[c].server = s THEN NoRequest ELSE requests[c]]
        /\ cache' = [cache EXCEPT ![s] = Empty] /\ told' = [told EXCEPT ![s] = 0]
        /\ Fixed /\ UNCHANGED <<user, workspaces, issued, overAge, uses>> /\ s \in Stores
    BY <1>17 DEF StopServer, Stores
  <2>2. Empty \in Entry /\ Empty.count = 0 /\ Empty.otp = NoCode /\ NoCode.code = 0
    BY <1>0 DEF Empty, NoCode, Entry
  <2>3. AccessTypeOK'
    <3>1. requests' \in [Clients -> Request]  BY <1>0, <2>1, NoRequestIs
    <3>2. cache' \in [Stores -> Entry]  BY <1>0, <2>1, <2>2 DEF AccessTypeOK, Entry
    <3>3. told' \in [Stores -> 0..MaxFailures + 1]  BY <1>0, <2>1 DEF AccessTypeOK
    <3>4. QED  BY <1>0, <2>1, <3>1, <3>2, <3>3 DEF AccessTypeOK, Entry, Fixed
  <2>4. CASE together  BY <2>1, <2>3, <2>4 DEF AccessInv, Alone, Fixed
  <2>5. CASE ~together
    <3>1. \A t \in Stores : /\ cache'[t] = IF t = s THEN Empty ELSE cache[t]
                            /\ told'[t] = IF t = s THEN 0 ELSE told[t]
      BY <1>0, <2>1 DEF AccessTypeOK
    <3>2. Counts' /\ CodesOnce'
      BY <1>0, <2>1, <2>2, <2>5, <3>1 DEF Alone, Counts, CodesOnce
    <3>3. ASSUME NEW c \in Clients PROVE ReadHolds(requests[c])'
      <4>1. CASE requests[c].server = s
        <5>1. requests'[c] = NoRequest  BY <2>1, <4>1
        <5>2. QED  BY <5>1, NoRequestIs DEF ReadHolds
      <4>2. CASE requests[c].server # s
        <5>1. requests'[c] = requests[c] /\ ReadHolds(requests[c])
          BY <1>0, <2>1, <2>5, <4>2 DEF Alone
        <5>2. BackendOf(requests[c])' = BackendOf(requests[c]) /\ BackendOf(requests[c]) # s
          BY <2>1, <4>2, <5>1, RedisIsNoServer DEF BackendOf, Fixed
        <5>3. BackendOf(requests[c]) \in Stores  BY <1>0 DEF BackendOf, Stores, Request
        <5>4. \A t \in Stores : cache'[t].otp.code # 0 => cache'[t] = cache[t]
          BY <2>2, <3>1
        <5>5. requests[c].of \in 1..issued => requests[c].of # 0  BY <1>0
        <5>6. QED  BY <2>1, <3>1, <5>1, <5>2, <5>3, <5>4, <5>5 DEF ReadHolds
      <4>3. QED  BY <4>1, <4>2
    <3>4. \A c, d \in Clients : requests'[c].pc # "idle" /\ requests'[d].pc # "idle" => c = d
      BY <1>0, <2>1, <2>5, NoRequestIs DEF Alone
    <3>5. QED  BY <1>0, <2>1, <2>3, <2>5, <3>2, <3>3, <3>4 DEF AccessInv, Alone, Fixed
  <2>6. QED  BY <2>4, <2>5
<1>18. ASSUME NEW s \in Stores, CountRunsOut(s) PROVE AccessInv'
  <2> DEFINE e == [cache[s] EXCEPT !.count = 0]
  <2>1. e \in Entry /\ e.count = 0 /\ e.otp = cache[s].otp  BY <1>0 DEF Entry
  <2>2. cache' = [cache EXCEPT ![s] = e] /\ told' = [told EXCEPT ![s] = 0]
    BY <1>0, <1>18 DEF CountRunsOut, AccessTypeOK
  <2> HIDE DEF e
  <2>3. Fixed /\ UNCHANGED <<user, workspaces, requests, issued, overAge, uses>>
    BY <1>18 DEF CountRunsOut
  <2>4. AccessTypeOK'
    <3>1. cache' \in [Stores -> Entry]  BY <1>0, <2>1, <2>2 DEF AccessTypeOK, Entry
    <3>2. told' \in [Stores -> 0..MaxFailures + 1]  BY <1>0, <2>2 DEF AccessTypeOK
    <3>3. QED  BY <1>0, <2>3, <3>1, <3>2 DEF AccessTypeOK, Entry, Fixed
  <2>5. CASE together  BY <2>3, <2>4, <2>5 DEF AccessInv, Alone, Fixed
  <2>6. CASE ~together
    <3>1. \A t \in Stores : /\ cache'[t].count = IF t = s THEN 0 ELSE cache[t].count
                            /\ cache'[t].otp = cache[t].otp
                            /\ told'[t] = IF t = s THEN 0 ELSE told[t]
      BY <1>0, <2>1, <2>2 DEF AccessTypeOK
    <3>2. Counts' /\ CodesOnce'
      BY <1>0, <2>3, <2>6, <3>1 DEF Alone, Counts, CodesOnce
    <3>3. ASSUME NEW c \in Clients PROVE ReadHolds(requests[c])'
      <4>1. /\ requests'[c] = requests[c] /\ ReadHolds(requests[c])
            /\ BackendOf(requests[c])' = BackendOf(requests[c])
        BY <1>0, <2>3, <2>6 DEF Alone, BackendOf, Fixed
      <4>2. BackendOf(requests[c]) \in Stores  BY <1>0 DEF BackendOf, Stores, Request
      <4>3. requests[c].read \in Nat  BY <1>0 DEF Request
      <4>4. QED  BY <1>0, <2>3, <3>1, <4>1, <4>2, <4>3 DEF ReadHolds
    <3>4. QED  BY <1>0, <2>3, <2>4, <2>6, <3>2, <3>3 DEF AccessInv, Alone, Fixed
  <2>7. QED  BY <2>5, <2>6
<1>19. ASSUME NEW k \in Codes, CodeRunsOut(k) PROVE AccessInv'
  BY <1>0, <1>19 DEF CodeRunsOut, AccessInv, AccessTypeOK, Alone, ReadHolds, BackendOf, Counts, CodesOnce, Fixed
<1>20. CASE SetActive
  BY <1>0, <1>20 DEF SetActive, AccessInv, AccessTypeOK, Alone, ReadHolds, BackendOf, Counts, CodesOnce, Fixed
<1>21. CASE UNCHANGED accessVars
  BY <1>0, <1>21 DEF accessVars, AccessInv, AccessTypeOK, Alone, ReadHolds, BackendOf, Counts, CodesOnce
<1>22. ASSUME NEW c \in Clients, NEW s \in IF shared THEN {NoRequest.server} ELSE Servers,
              \/ \E right \in BOOLEAN : Submit(c, "signin", s, 0, right)
              \/ Submit(c, "signup", s, 0, TRUE)
              \/ issued < MaxCodes /\ Submit(c, "otp", s, 0, TRUE)
              \/ \E k \in 0..issued : Submit(c, "verify", s, k, TRUE)
       PROVE  AccessInv'
  <2>1. s \in Servers  BY NoRequestIs DEF Request
  <2>2. 0 \in 0..MaxCodes /\ \A k \in 0..issued : k \in 0..MaxCodes  BY <1>0
  <2>3. QED  BY <1>1, <1>22, <2>1, <2>2 DEF Kinds
<1>23. QED
  BY <1>2, <1>3, <1>4, <1>5, <1>6, <1>7, <1>8, <1>9, <1>10, <1>11, <1>12, <1>13, <1>14, <1>15,
     <1>16, <1>17, <1>18, <1>19, <1>20, <1>21, <1>22
  DEF AccessNext, AccessStep

\* For any clients, processes and limits, requests one at a time, though processes
\* stop and entries of the cache disappear between any two of their steps: a store
\* answers no more wrong passwords than the limit before it locks or forgets, a
\* code signs in once, and a user has one workspace.
THEOREM AccessSafe == AccessSpec => []AccessInvariant
<1>1. QED  BY AccessStarts, AccessSteps, AccessImplied, PTL DEF AccessSpec

-----------------------------------------------------------------------------
(* The evidence store.                                                     *)

CheckRecord ==
  [at : {"idle", "search", "ingest", "found"},
   live : {"none", "not_needed", "unavailable", "failed", "used"},
   content : Contents \cup {0}, source : SourceRows, document : Contents \cup {0},
   chunks : SUBSET Chunks, model : Models]

StoreShapes ==
  /\ source \in SourceRows /\ document \in Contents \cup {0}
  /\ chunks \subseteq Chunks /\ model \in Models /\ inTurn \in BOOLEAN
  /\ check \in [Checks -> CheckRecord]

Under(c) == check[c].at \in {"search", "ingest"}
OldModel(k) == k.model # model
OfContent == \E k \in chunks : k.content = document

\* The rows: what was there when it was read still is, whatever it says now.
RowsStay ==
  /\ document # 0 => source.known /\ OfContent
  /\ document = 0 => chunks = {}
  /\ source.curated => source.known
  /\ \A c \in Checks :
       /\ Under(c) /\ check[c].source.known => source.known
       /\ Under(c) /\ check[c].document # 0 => document # 0
       /\ check[c].at = "ingest" => check[c].content # 0 /\ check[c].model = model

\* What is left from before a change of the embedding model is replaced as a whole
\* by the first ingest after it: until then all chunks are old, and every ingest
\* under way has read them; so an ingest that re-embeds a document it read before
\* another replaced it leaves a chunk of what the document says now.
OldReplacedTogether ==
  /\ \A j, k \in chunks : OldModel(j) => OldModel(k)
  /\ \A c \in Checks : check[c].at = "ingest" =>
       /\ \A k \in chunks : OldModel(k) => k \in check[c].chunks
       /\ \A j, k \in check[c].chunks : OldModel(j) => OldModel(k)
  /\ \A c \in Checks :
       check[c].at = "search" /\ check[c].document # 0 /\ (\E k \in chunks : OldModel(k)) =>
         check[c].document = document
  /\ \A c \in Checks :
       /\ check[c].at = "ingest" /\ check[c].content = check[c].document
       /\ \E k \in check[c].chunks : OldModel(k)
       => \/ document = check[c].document
          \/ \E k \in chunks \ check[c].chunks : k.content = document

\* Where ingests take turns, what the one under way has read is what there is.
TakingTurns ==
  inTurn =>
    /\ \A c, d \in Checks : Under(c) /\ Under(d) => c = d
    /\ \A c \in Checks :
         /\ Under(c) => check[c].source = source /\ check[c].document = document
         /\ check[c].at = "ingest" => check[c].chunks = chunks
    /\ \A k \in chunks : k.content = document
    /\ \A j, k \in chunks : j = k

StoreInv == StoreShapes /\ RowsStay /\ OldReplacedTogether /\ TakingTurns /\ CurationKept

LEMMA OneAtMost ==
  ASSUME NEW S, \A a, b \in S : a = b
  PROVE  Cardinality(S) <= 1
<1>1. CASE S = {}  BY <1>1, FS_EmptySet
<1>2. CASE S # {}
  <2>1. PICK a : S = {a}  BY <1>2
  <2>2. QED  BY <2>1, FS_Singleton
<1>3. QED  BY <1>1, <1>2

LEMMA StoreImplied == StoreInv => StoreInvariant
<1> SUFFICES ASSUME StoreInv PROVE StoreInvariant  OBVIOUS
<1>1. StoreTypeOK
  BY DEF StoreInv, StoreShapes, RowsStay, OfContent, StoreTypeOK, CheckRecord
<1>2. ChunksAreOfContent  BY OneAtMost DEF StoreInv, TakingTurns, ChunksAreOfContent
<1>3. QED  BY <1>1, <1>2 DEF StoreInv, StoreInvariant

LEMMA NoCheckIs == NoCheck \in CheckRecord /\ NoCheck.at = "idle" /\ NoSource \in SourceRows
BY DEF NoCheck, CheckRecord, NoSource, SourceRows, Models

LEMMA StoreStarts == (\E alone \in BOOLEAN : StoreStart(alone)) => StoreInv
<1> SUFFICES ASSUME NEW alone \in BOOLEAN, StoreStart(alone) PROVE StoreInv  OBVIOUS
<1>1. \A c \in Checks : check[c] = NoCheck  BY DEF StoreStart
<1>2. StoreShapes  BY NoCheckIs DEF StoreStart, StoreShapes, Models
<1>3. RowsStay  BY <1>1, NoCheckIs DEF StoreStart, RowsStay, Under, NoSource
<1>4. OldReplacedTogether  BY <1>1, NoCheckIs DEF StoreStart, OldReplacedTogether
<1>5. TakingTurns  BY <1>1, NoCheckIs DEF StoreStart, TakingTurns, Under
<1>6. CurationKept  BY DEF StoreStart, CurationKept, NoSource
<1>7. QED  BY <1>2, <1>3, <1>4, <1>5, <1>6 DEF StoreInv

\* A step of one check that leaves the rows: what it has read is what there is, or
\* was there and still is.
LEMMA CheckMoved ==
  ASSUME StoreInv, NEW c \in Checks, NEW r \in CheckRecord,
         check' = [check EXCEPT ![c] = r],
         UNCHANGED <<source, document, chunks, model, inTurn>>,
         r.at \in {"search", "ingest"} =>
           /\ r.source.known => source.known
           /\ r.document # 0 => document # 0
           /\ inTurn => /\ r.source = source /\ r.document = document
                        /\ \A d \in Checks : Under(d) => d = c
           /\ r.document # 0 /\ (\E k \in chunks : OldModel(k)) => r.document = document,
         r.at = "ingest" => r.content # 0 /\ r.model = model /\ r.chunks = chunks
  PROVE  StoreInv'
<1>0. StoreShapes /\ RowsStay /\ OldReplacedTogether /\ TakingTurns /\ CurationKept
  BY DEF StoreInv
<1>1. \A d \in Checks : check'[d] = IF d = c THEN r ELSE check[d]
  BY <1>0 DEF StoreShapes
<1>2. StoreShapes'  BY <1>0 DEF StoreShapes
<1>3. RowsStay'  BY <1>0, <1>1 DEF RowsStay, Under, OfContent
<1>4. OldReplacedTogether'  BY <1>0, <1>1 DEF OldReplacedTogether, OldModel
<1>5. TakingTurns'  BY <1>0, <1>1 DEF TakingTurns, Under
<1>6. CurationKept'  BY <1>0 DEF CurationKept
<1>7. QED  BY <1>2, <1>3, <1>4, <1>5, <1>6 DEF StoreInv

\* The same for a check that is over, and reads nothing.
LEMMA CheckOver ==
  ASSUME StoreInv, NEW c \in Checks, NEW place \in {"idle", "found"},
         NEW live \in {"none", "not_needed", "unavailable", "failed", "used"},
         Become(c, [NoCheck EXCEPT !.at = place, !.live = live]),
         UNCHANGED <<source, document, chunks, model, inTurn>>
  PROVE  StoreInv'
<1> DEFINE r == [NoCheck EXCEPT !.at = place, !.live = live]
<1>1. r \in CheckRecord /\ r.at = place
  BY NoCheckIs DEF CheckRecord
<1>2. check' = [check EXCEPT ![c] = r]  BY DEF Become
<1> HIDE DEF r
<1>3. QED  BY <1>1, <1>2, CheckMoved

LEMMA IngestStep ==
  ASSUME StoreInv, NEW c \in Checks, Ingest(c)
  PROVE  StoreInv'
<1> DEFINE q == check[c]
           r == [NoCheck EXCEPT !.at = "found", !.live = "used"]
<1>0. /\ StoreShapes /\ RowsStay /\ OldReplacedTogether /\ TakingTurns /\ CurationKept
      /\ q.at = "ingest" /\ Under(c) /\ q \in CheckRecord
  BY DEF StoreInv, Ingest, Under, StoreShapes
<1>1. /\ ~Conflict(q) /\ source' = Rated(q.source) /\ UNCHANGED <<model, inTurn>>
      /\ \/ Unchanged(q) /\ UNCHANGED <<document, chunks>>
         \/ ~Unchanged(q) /\ document' = Document(q) /\ chunks' = Replaced(c)
  BY DEF Ingest
<1>2. /\ r \in CheckRecord /\ r.at = "found" /\ check' = [check EXCEPT ![c] = r]
  BY NoCheckIs DEF Ingest, Become, CheckRecord
<1> HIDE DEF r
<1>3. /\ \A d \in Checks : check'[d] = IF d = c THEN r ELSE check[d]
      /\ check' \in [Checks -> CheckRecord]
  BY <1>0, <1>2 DEF StoreShapes
<1>4. source' \in SourceRows /\ source'.known /\ CurationKept' /\ (source'.curated => source.curated)
  <2>1. /\ q.source.known => source.known
        /\ source.curated => source.known
        /\ ~q.source.known => ~source.known
        /\ inTurn => q.source = source
    BY <1>0, <1>1 DEF RowsStay, Conflict, TakingTurns
  <2>2. CASE ~q.source.known \/ ~q.source.curated
    <3>1. source' = [source EXCEPT !.known = TRUE, !.rating = "provider"]
      BY <1>1, <2>2 DEF Rated
    <3>2. source' \in SourceRows /\ source'.known /\ source'.curated = source.curated
      BY <1>0, <3>1 DEF StoreShapes, SourceRows
    <3>3. inTurn => ~source.curated  BY <2>1, <2>2
    <3>4. QED  BY <1>1, <3>2, <3>3 DEF CurationKept
  <2>3. CASE q.source.known /\ q.source.curated
    <3>1. source' = source  BY <1>1, <2>3 DEF Rated
    <3>2. QED  BY <1>0, <1>1, <2>1, <2>3, <3>1 DEF StoreShapes, CurationKept
  <2>4. QED  BY <2>2, <2>3
<1>5. CASE Unchanged(q) /\ UNCHANGED <<document, chunks>>
  <2>1. StoreShapes'  BY <1>0, <1>1, <1>3, <1>4, <1>5 DEF StoreShapes
  <2>2. RowsStay'  BY <1>0, <1>1, <1>2, <1>3, <1>4, <1>5 DEF RowsStay, Under, OfContent
  <2>3. OldReplacedTogether'
    BY <1>0, <1>1, <1>2, <1>3, <1>5 DEF OldReplacedTogether, OldModel
  <2>4. TakingTurns'  BY <1>0, <1>1, <1>2, <1>3, <1>5 DEF TakingTurns, Under
  <2>5. QED  BY <1>4, <2>1, <2>2, <2>3, <2>4 DEF StoreInv
<1>6. CASE ~Unchanged(q) /\ document' = Document(q) /\ chunks' = Replaced(c)
  <2> DEFINE n == New(c)
  <2>1. /\ n \in Chunks /\ n.content = q.content /\ n.model = model /\ q.content # 0
        /\ q.model = model /\ chunks' = (chunks \ q.chunks) \cup {n}
    BY <1>0, <1>6 DEF New, Chunks, CheckRecord, RowsStay, Replaced
  <2> HIDE DEF n
  <2>2. \A k \in chunks' : ~OldModel(k)
    BY <1>0, <2>1 DEF OldReplacedTogether, OldModel
  <2>3. /\ document' = IF q.content = q.document THEN document ELSE q.content
        /\ document' \in Contents /\ document' # 0
    BY <1>0, <1>6, <2>1, StoreAssumption DEF Document, RowsStay, StoreShapes, CheckRecord
  <2>4. \E k \in chunks' : k.content = document'
    <3>1. CASE q.content # q.document  BY <2>1, <2>3, <3>1
    <3>2. CASE q.content = q.document
      <4>1. \E k \in q.chunks : OldModel(k)  BY <1>6, <2>1, <3>2 DEF Unchanged, OldModel
      <4>2. document = q.document \/ \E k \in chunks \ q.chunks : k.content = document
        BY <1>0, <3>2, <4>1 DEF OldReplacedTogether
      <4>3. QED  BY <2>1, <2>3, <3>2, <4>2
    <3>3. QED  BY <3>1, <3>2
  <2>5. StoreShapes'  BY <1>0, <1>1, <1>3, <1>4, <2>1, <2>3 DEF StoreShapes
  <2>6. RowsStay'
    BY <1>0, <1>1, <1>2, <1>3, <1>4, <2>3, <2>4 DEF RowsStay, Under, OfContent
  <2>7. OldReplacedTogether'
    <3>1. \A k \in chunks' : k.model = model'  BY <1>1, <2>2 DEF OldModel
    <3>2. \A d \in Checks : check'[d].at = "ingest" =>
            /\ check[d].at = "ingest" /\ check'[d] = check[d]
            /\ \A j, k \in check'[d].chunks : j.model # model' => k.model # model'
      BY <1>0, <1>1, <1>2, <1>3 DEF OldReplacedTogether, OldModel
    <3>3. ASSUME NEW d \in Checks, check'[d].at = "ingest",
                 NEW j \in check'[d].chunks, j.model # model'
          PROVE  \E k \in chunks' \ check'[d].chunks : k.content = document'
      <4>1. PICK k \in chunks' : k.content = document'  BY <2>4
      <4>2. k \notin check'[d].chunks  BY <3>1, <3>2, <3>3
      <4>3. QED  BY <4>1, <4>2
    <3>4. QED  BY <3>1, <3>2, <3>3 DEF OldReplacedTogether, OldModel
  <2>8. TakingTurns'
    <3>1. inTurn => q.chunks = chunks /\ q.document = document
      BY <1>0 DEF TakingTurns
    <3>2. inTurn => chunks' = {n} /\ document' = n.content  BY <2>1, <2>3, <3>1
    <3>3. inTurn => \A d \in Checks : check'[d].at \notin {"search", "ingest"}
      BY <1>0, <1>2, <1>3 DEF TakingTurns, Under
    <3>4. SUFFICES ASSUME inTurn PROVE TakingTurns'  BY <1>1 DEF TakingTurns
    <3>5. (\A k \in chunks' : k.content = document') /\ (\A j, k \in chunks' : j = k)
      BY <3>2, <3>4
    <3>6. QED  BY <3>3, <3>4, <3>5 DEF TakingTurns, Under
  <2>9. QED  BY <1>4, <2>5, <2>6, <2>7, <2>8 DEF StoreInv
<1>7. QED  BY <1>1, <1>5, <1>6

LEMMA StoreSteps == StoreInv /\ [StoreNext]_storeVars => StoreInv'
<1> SUFFICES ASSUME StoreInv, [StoreNext]_storeVars PROVE StoreInv'  OBVIOUS
<1>0. /\ StoreShapes /\ RowsStay /\ OldReplacedTogether /\ TakingTurns /\ CurationKept
      /\ \A c \in Checks : check[c] \in CheckRecord
  BY DEF StoreInv, StoreShapes
<1>1. ASSUME NEW c \in Checks, SearchStore(c) PROVE StoreInv'
  <2>1. CASE Become(c, [NoCheck EXCEPT !.at = "found", !.live = "not_needed"])
    BY <1>1, <2>1, CheckOver DEF SearchStore
  <2>2. CASE /\ inTurn => ~Busy
             /\ Become(c, [NoCheck EXCEPT !.at = "search", !.source = source, !.document = document])
    <3> DEFINE r == [NoCheck EXCEPT !.at = "search", !.source = source, !.document = document]
    <3>1. r \in CheckRecord /\ r.at = "search" /\ r.source = source /\ r.document = document
      BY <1>0, NoCheckIs DEF CheckRecord, StoreShapes
    <3>2. check' = [check EXCEPT ![c] = r]  BY <2>2 DEF Become
    <3>3. inTurn => \A d \in Checks : ~Under(d)  BY <2>2 DEF Busy, Under
    <3> HIDE DEF r
    <3>4. QED  BY <1>1, <3>1, <3>2, <3>3, CheckMoved DEF SearchStore
  <2>3. QED  BY <1>1, <2>1, <2>2 DEF SearchStore
<1>2. ASSUME NEW c \in Checks, SearchFails(c) PROVE StoreInv'
  BY <1>2, CheckOver DEF SearchFails
<1>3. ASSUME NEW c \in Checks, SearchFinds(c) PROVE StoreInv'
  <2>1. CASE Become(c, [NoCheck EXCEPT !.at = "found", !.live = "used"])
    BY <1>3, <2>1, CheckOver DEF SearchFinds
  <2>2. ASSUME NEW content \in Contents,
               NEW early \in IF check[c].document = 0 THEN {FALSE} ELSE BOOLEAN,
               Become(c, [at |-> "ingest", live |-> "used", content |-> content,
                          source |-> IF early THEN check[c].source ELSE source,
                          document |-> IF early THEN check[c].document ELSE document,
                          chunks |-> chunks, model |-> model])
        PROVE  StoreInv'
    <3> DEFINE r == [at |-> "ingest", live |-> "used", content |-> content,
                     source |-> IF early THEN check[c].source ELSE source,
                     document |-> IF early THEN check[c].document ELSE document,
                     chunks |-> chunks, model |-> model]
    <3>1. /\ r \in CheckRecord /\ r.at = "ingest" /\ r.content = content /\ content # 0
          /\ r.source \in {source, check[c].source}
          /\ \/ r.document = document
             \/ r.document = check[c].document
          /\ r.chunks = chunks /\ r.model = model
      BY <1>0, StoreAssumption DEF CheckRecord, StoreShapes
    <3>2. check' = [check EXCEPT ![c] = r]  BY <2>2 DEF Become
    <3>3. check[c].at = "search" /\ Under(c) /\ UNCHANGED <<source, document, chunks, model, inTurn>>
      BY <1>3 DEF SearchFinds, Under
    <3> HIDE DEF r
    <3>4. /\ r.source.known => source.known
          /\ r.document # 0 => document # 0
      BY <1>0, <3>1, <3>3 DEF RowsStay
    <3>5. inTurn => /\ r.source = source /\ r.document = document
                    /\ \A d \in Checks : Under(d) => d = c
      BY <1>0, <3>1, <3>3 DEF TakingTurns
    <3>6. r.document # 0 /\ (\E k \in chunks : OldModel(k)) => r.document = document
      BY <1>0, <3>1, <3>3 DEF OldReplacedTogether
    <3>7. QED  BY <3>1, <3>2, <3>3, <3>4, <3>5, <3>6, CheckMoved
  <2>3. QED  BY <1>3, <2>1, <2>2 DEF SearchFinds
<1>4. ASSUME NEW c \in Checks, Ingest(c) PROVE StoreInv'
  BY <1>4, IngestStep
<1>5. ASSUME NEW c \in Checks, IngestFails(c) PROVE StoreInv'
  BY <1>5, CheckOver DEF IngestFails
<1>6. ASSUME NEW c \in Checks, Rate(c) PROVE StoreInv'
  <2>1. check' = [check EXCEPT ![c] = NoCheck]  BY <1>6 DEF Rate, Become
  <2>2. QED  BY <1>6, <2>1, NoCheckIs, CheckMoved DEF Rate
<1>7. CASE Curate
  <2>1. /\ source' \in SourceRows /\ source'.known /\ source'.rating = "admin"
        /\ UNCHANGED <<document, chunks, model, check, inTurn>>
        /\ inTurn => \A c \in Checks : ~Under(c)
    BY <1>0, <1>7 DEF Curate, StoreShapes, SourceRows, Busy, Under
  <2>2. StoreShapes'  BY <1>0, <2>1 DEF StoreShapes
  <2>3. RowsStay'  BY <1>0, <2>1 DEF RowsStay, Under, OfContent
  <2>4. OldReplacedTogether'  BY <1>0, <2>1 DEF OldReplacedTogether, OldModel
  <2>5. TakingTurns'  BY <1>0, <2>1 DEF TakingTurns, Under
  <2>6. CurationKept'  BY <2>1 DEF CurationKept
  <2>7. QED  BY <2>2, <2>3, <2>4, <2>5, <2>6 DEF StoreInv
<1>8. CASE ChangeModel
  <2>1. /\ \A c \in Checks : check[c].at = "idle"
        /\ model' \in Models /\ model' # model
        /\ UNCHANGED <<source, document, chunks, check, inTurn>>
    BY <1>8 DEF ChangeModel
  <2>2. StoreShapes'  BY <1>0, <2>1 DEF StoreShapes
  <2>3. RowsStay'  BY <1>0, <2>1 DEF RowsStay, Under, OfContent
  <2>4. OldReplacedTogether'
    <3>1. \A k \in chunks : k.model \in Models  BY <1>0 DEF StoreShapes, Chunks
    <3>2. \A k \in chunks : OldModel(k)' <=> ~OldModel(k)
      BY <1>0, <2>1, <3>1 DEF OldModel, Models, StoreShapes
    <3>3. QED  BY <1>0, <2>1, <3>2 DEF OldReplacedTogether
  <2>5. TakingTurns'  BY <1>0, <2>1 DEF TakingTurns, Under
  <2>6. CurationKept'  BY <1>0, <2>1 DEF CurationKept
  <2>7. QED  BY <2>2, <2>3, <2>4, <2>5, <2>6 DEF StoreInv
<1>9. CASE UNCHANGED storeVars
  BY <1>0, <1>9
  DEF storeVars, StoreInv, StoreShapes, RowsStay, OfContent, OldReplacedTogether, OldModel,
      TakingTurns, Under, CurationKept
<1>10. QED
  BY <1>1, <1>2, <1>3, <1>4, <1>5, <1>6, <1>7, <1>8, <1>9 DEF StoreNext

\* For any checks and contents: however ingests overlap, a document has its source
\* and a chunk of what it says; where they take turns no chunk of an earlier
\* content or model is left, and a curated rating is kept.
THEOREM StoreSafe == StoreSpec => []StoreInvariant
<1>1. QED  BY StoreStarts, StoreSteps, StoreImplied, PTL DEF StoreSpec

-----------------------------------------------------------------------------
(* The fact-checkers' feeds.                                               *)

\* FeedsInvariant, with the lock as a relation among threads.
FeedsInv == FeedsInvariant /\ \A r, q \in feedLock : r = q

LEMMA FeedsSteps == FeedsInv /\ [FeedsNext]_feedVars => FeedsInv'
<1> SUFFICES ASSUME FeedsInv, [FeedsNext]_feedVars PROVE FeedsInv'  OBVIOUS
<1> USE FeedsAssumption
<1> USE DEF FeedsInv, FeedsInvariant, FeedsTypeOK, OneDownload, Held, Move, Leave
<1>1. ASSUME NEW r \in Readers, Look(r) PROVE FeedsInv'  BY <1>1 DEF Look
<1>2. ASSUME NEW r \in Readers, Lock(r) PROVE FeedsInv'  BY <1>2 DEF Lock
<1>3. ASSUME NEW r \in Readers, LookAgain(r) PROVE FeedsInv'  BY <1>3 DEF LookAgain
<1>4. ASSUME NEW r \in Readers, Fetch(r) PROVE FeedsInv'  BY <1>4 DEF Fetch, Write
<1>5. ASSUME NEW r \in Readers, Stamp(r) PROVE FeedsInv'  BY <1>5 DEF Stamp
<1>6. CASE Outdated  BY <1>6 DEF Outdated
<1>7. CASE UNCHANGED feedVars  BY <1>7 DEF feedVars
<1>8. QED  BY <1>1, <1>2, <1>3, <1>4, <1>5, <1>6, <1>7 DEF FeedsNext

LEMMA FeedsStarts == FeedsInit => FeedsInv
<1> SUFFICES ASSUME FeedsInit PROVE FeedsInv  OBVIOUS
<1>1. feedLock = {r \in Readers : reader[r] \notin {"out", "waiting"}}  BY DEF FeedsInit
<1>2. reader \in [Readers -> {"out", "waiting", "inside", "fetching", "writing", "stamping"}]
  BY DEF FeedsInit
<1>3. fetches \in 0..MaxFetches  BY FeedsAssumption DEF FeedsInit
<1>4. FeedsTypeOK  BY <1>1, <1>2, <1>3 DEF FeedsInit, FeedsTypeOK
<1>5. OneDownload  BY DEF FeedsInit, OneDownload
<1>6. QED  BY <1>4, <1>5 DEF FeedsInit, FeedsInv, FeedsInvariant

\* However many threads find the entries too old together, one downloads them,
\* and only when they are.
THEOREM FeedsSafe == FeedsSpec => []FeedsInvariant
<1>1. FeedsInv => FeedsInvariant  BY DEF FeedsInv
<1>2. QED  BY <1>1, FeedsStarts, FeedsSteps, PTL DEF FeedsSpec

-----------------------------------------------------------------------------
(* Reviews, for any people and bound on the rows.                          *)

OpenAppeal(r) == r.kind = "appeal" /\ r.status = "open"
FeedbackBy(p, r) == r.kind = "feedback" /\ r.author = p /\ r.status = "recorded"
ReviewShape(r) ==
  /\ r \in Review
  /\ r.status = "resolved" <=> r.label # Unset
  /\ r.reviewer # Unset => r.status = "resolved"

\* What an open request d of person p has seen still holds: the row it means is
\* there, a decision it saw has not vanished, and when nobody else is at work
\* what it saw is what is there.
DeskFits(p, d) ==
  /\ d.pc \in {"replacing", "deciding"} => d.row \in 1..Len(reviews)
  /\ d.pc = "deciding" =>
       d.label \in REVIEWER_LABELS /\ (d.oldLabel # Unset => reviews[d.row].label # Unset)
  /\ singly /\ d.pc = "deciding" =>
       d.oldReviewer = reviews[d.row].reviewer /\ d.oldLabel = reviews[d.row].label
  /\ singly /\ d.pc = "submitting" =>
       \A i \in 1..Len(reviews) : /\ d.kind = "appeal" => ~OpenAppeal(reviews[i])
                                  /\ d.kind = "feedback" => ~FeedbackBy(p, reviews[i])

\* The rows of requests one at a time.
RowsAlone ==
  singly => \A i, j \in 1..Len(reviews) :
    /\ OpenAppeal(reviews[i]) /\ OpenAppeal(reviews[j]) => i = j
    /\ \A p \in People : FeedbackBy(p, reviews[i]) /\ FeedbackBy(p, reviews[j]) => i = j

DesksAlone ==
  singly => \A p, q \in People : desk[p].pc # "idle" /\ desk[q].pc # "idle" => p = q

ReviewsInv ==
  /\ ReviewsTypeOK /\ RowsAlone /\ DesksAlone /\ DecisionAttributed
  /\ \A p \in People : DeskFits(p, desk[p])

LEMMA ReviewShapes ==
  ASSUME ReviewsInv
  PROVE  /\ reviews \in Seq(Review) /\ Len(reviews) \in 0..MaxRows
         /\ \A i \in 1..Len(reviews) : ReviewShape(reviews[i])
         /\ \A p \in People : desk[p] \in Desk
         /\ desk \in [People -> Desk]
         /\ decided \in [People -> SUBSET ((1..MaxRows) \X REVIEWER_LABELS)]
         /\ Unset \notin People /\ MaxRows \in Nat
BY ReviewsAssumption DEF ReviewsInv, ReviewsTypeOK, ReviewShape

LEMMA ClosedDesk == NoDesk \in Desk /\ NoDesk.pc = "idle"
BY ReviewsAssumption DEF NoDesk, Desk

-----------------------------------------------------------------------------
\* A request is taken up or dropped; no row changes.
LEMMA DeskMoved ==
  ASSUME ReviewsInv, NEW p \in People, NEW d \in Desk, desk' = [desk EXCEPT ![p] = d],
         UNCHANGED <<singly, reviews, decided>>, DeskFits(p, d),
         d.pc # "idle" => MayAsk(p)
  PROVE  ReviewsInv'
<1>1. \A q \in People : desk'[q] = IF q = p THEN d ELSE desk[q]  BY ReviewShapes
<1>2. ReviewsTypeOK'  BY ReviewShapes DEF ReviewsInv, ReviewsTypeOK
<1>3. RowsAlone' /\ DecisionAttributed'
  BY DEF ReviewsInv, RowsAlone, DecisionAttributed, OpenAppeal, FeedbackBy
<1>4. DesksAlone'  BY <1>1 DEF ReviewsInv, DesksAlone, MayAsk
<1>5. ASSUME NEW q \in People PROVE DeskFits(q, desk[q])'
  BY <1>1 DEF ReviewsInv, DeskFits, OpenAppeal, FeedbackBy
<1>6. QED  BY <1>2, <1>3, <1>4, <1>5 DEF ReviewsInv

\* Rows may be decided, or detached from p, whose request is then done or goes
\* on; alone, nobody is at work then.  No row becomes an open appeal or a recorded
\* feedback.
LEMMA RowsDecided ==
  ASSUME ReviewsInv, NEW p \in People, UNCHANGED singly,
         NEW d \in {NoDesk, desk[p]}, desk' = [desk EXCEPT ![p] = d],
         singly => \A q \in People : desk'[q].pc = "idle",
         reviews' \in Seq(Review), Len(reviews') = Len(reviews),
         decided' \in [People -> SUBSET ((1..MaxRows) \X REVIEWER_LABELS)],
         DecisionAttributed',
         \A i \in 1..Len(reviews) :
           /\ ReviewShape(reviews'[i])
           /\ reviews[i].status = "resolved" => reviews'[i].status = "resolved"
           /\ OpenAppeal(reviews'[i]) => OpenAppeal(reviews[i])
           /\ \A q \in People : FeedbackBy(q, reviews'[i]) => FeedbackBy(q, reviews[i])
  PROVE  ReviewsInv'
<1>1. \A q \in People : desk'[q] \in {NoDesk, desk[q]}  BY ReviewShapes
<1>2. ReviewsTypeOK'
  <2>1. d \in Desk  BY ReviewShapes, ClosedDesk
  <2>2. QED  BY <2>1, ReviewShapes DEF ReviewsInv, ReviewsTypeOK, ReviewShape
<1>3. RowsAlone'  BY DEF ReviewsInv, RowsAlone
<1>4. DesksAlone'  BY DEF DesksAlone
<1>5. ASSUME NEW q \in People PROVE DeskFits(q, desk[q])'
  <2>1. CASE desk'[q].pc = "idle"  BY <2>1 DEF DeskFits
  <2>2. CASE desk'[q].pc # "idle"
    <3>1. desk'[q] = desk[q] /\ DeskFits(q, desk[q]) /\ ~singly
      BY <1>1, <2>2, ClosedDesk DEF ReviewsInv
    <3>2. \A i \in 1..Len(reviews) : reviews[i].label # Unset => reviews'[i].label # Unset
      BY ReviewShapes DEF ReviewShape
    <3>3. QED  BY <3>1, <3>2 DEF DeskFits
  <2>3. QED  BY <2>1, <2>2
<1>6. QED  BY <1>2, <1>3, <1>4, <1>5 DEF ReviewsInv

\* A commit adds the one appeal there is, or the one feedback of its author.
LEMMA RowAdded == ASSUME ReviewsInv, NEW p \in People, CommitReview(p) PROVE ReviewsInv'
<1> DEFINE r == [kind |-> desk[p].kind, author |-> p, reviewer |-> Unset, label |-> Unset,
                 status |-> IF desk[p].kind = "appeal" THEN "open" ELSE "recorded"]
<1>1. /\ desk[p].pc = "submitting" /\ Len(reviews) < MaxRows /\ reviews' = Append(reviews, r)
      /\ desk' = [desk EXCEPT ![p] = NoDesk] /\ UNCHANGED <<singly, decided>>
  BY DEF CommitReview
<1>2. /\ ReviewShape(r) /\ r.status # "resolved" /\ r.reviewer = Unset
      /\ OpenAppeal(r) => desk[p].kind = "appeal"
      /\ \A q \in People : FeedbackBy(q, r) => q = p /\ desk[p].kind = "feedback"
  BY ReviewShapes DEF ReviewShape, Review, Desk, OpenAppeal, FeedbackBy
<1> HIDE DEF r
<1>3. /\ reviews' \in Seq(Review) /\ Len(reviews') = Len(reviews) + 1
      /\ Len(reviews) \in Nat
      /\ \A i \in 1..Len(reviews) : reviews'[i] = reviews[i]
      /\ reviews'[Len(reviews) + 1] = r
  BY <1>1, <1>2, ReviewShapes DEF ReviewShape
<1>4. \A i \in 1..Len(reviews') : i \in 1..Len(reviews) \/ i = Len(reviews) + 1  BY <1>3
<1>5. \A q \in People : desk'[q] = IF q = p THEN NoDesk ELSE desk[q]  BY <1>1, ReviewShapes
<1>6. ReviewsTypeOK'
  <2>1. \A i \in 1..Len(reviews') : ReviewShape(reviews'[i])  BY <1>2, <1>3, <1>4, ReviewShapes
  <2>2. Len(reviews') <= MaxRows  BY <1>1, <1>3, ReviewShapes
  <2>3. QED  BY <1>1, <1>3, <2>1, <2>2, ReviewShapes, ClosedDesk DEF ReviewsInv, ReviewsTypeOK, ReviewShape
<1>7. RowsAlone'
  <2> SUFFICES ASSUME singly, NEW i \in 1..Len(reviews'), NEW j \in 1..Len(reviews'), i # j
               PROVE  /\ ~(OpenAppeal(reviews'[i]) /\ OpenAppeal(reviews'[j]))
                      /\ \A q \in People : ~(FeedbackBy(q, reviews'[i]) /\ FeedbackBy(q, reviews'[j]))
    BY <1>1 DEF RowsAlone
  <2>1. DeskFits(p, desk[p]) /\ RowsAlone  BY DEF ReviewsInv
  <2>2. CASE i \in 1..Len(reviews) /\ j \in 1..Len(reviews)  BY <1>3, <2>1, <2>2 DEF RowsAlone
  <2>3. CASE i = Len(reviews) + 1 /\ j \in 1..Len(reviews)
    BY <1>1, <1>2, <1>3, <2>1, <2>3 DEF DeskFits
  <2>4. CASE j = Len(reviews) + 1 /\ i \in 1..Len(reviews)
    BY <1>1, <1>2, <1>3, <2>1, <2>4 DEF DeskFits
  <2>5. QED  BY <1>4, <2>2, <2>3, <2>4
<1>8. DesksAlone'  BY <1>1, <1>5, ClosedDesk DEF ReviewsInv, DesksAlone
<1>9. DecisionAttributed'
  BY <1>1, <1>2, <1>3, <1>4 DEF ReviewsInv, DecisionAttributed
<1>10. ASSUME NEW q \in People PROVE DeskFits(q, desk[q])'
  <2>1. CASE q = p  BY <1>5, <2>1, ClosedDesk DEF DeskFits
  <2>2. CASE q # p
    <3>1. desk'[q] = desk[q] /\ DeskFits(q, desk[q]) /\ desk[q] \in Desk
      BY <1>5, <2>2, ReviewShapes DEF ReviewsInv
    <3>2. singly => desk[q].pc = "idle"  BY <1>1, <2>2 DEF ReviewsInv, DesksAlone
    <3>3. QED  BY <1>1, <1>3, <3>1, <3>2 DEF DeskFits
  <2>3. QED  BY <2>1, <2>2
<1>11. QED  BY <1>6, <1>7, <1>8, <1>9, <1>10 DEF ReviewsInv

\* A decision: nobody else's, when nobody else is at work.
LEMMA RowDecided ==
  ASSUME ReviewsInv, NEW p \in People, Decide(p)
  PROVE  /\ ReviewsInv' /\ Len(reviews') = Len(reviews)
         /\ \A j \in 1..Len(reviews) :
              reviews[j].status = "resolved" => reviews'[j].status = "resolved"
<1> DEFINE i == desk[p].row
           r == [reviews[i] EXCEPT
                   !.status = "resolved",
                   !.reviewer = IF p = desk[p].oldReviewer THEN reviews[i].reviewer ELSE p,
                   !.label = IF desk[p].label = desk[p].oldLabel THEN reviews[i].label
                             ELSE desk[p].label]
<1>1. /\ desk[p].pc = "deciding" /\ desk' = [desk EXCEPT ![p] = NoDesk] /\ UNCHANGED singly
      /\ decided' = IF singly THEN [decided EXCEPT ![p] = @ \cup {<<i, desk[p].label>>}] ELSE decided
  BY DEF Decide
<1>2. /\ i \in 1..Len(reviews) /\ i \in 1..MaxRows /\ desk[p].label \in REVIEWER_LABELS
      /\ desk[p].oldLabel # Unset => reviews[i].label # Unset
      /\ singly => desk[p].oldReviewer = reviews[i].reviewer /\ desk[p].oldLabel = reviews[i].label
  BY <1>1, ReviewShapes DEF ReviewsInv, DeskFits
<1>3. reviews' = [reviews EXCEPT ![i] = r]  BY <1>2, ReviewShapes DEF Decide
<1>4. /\ r.status = "resolved" /\ ReviewShape(r)
      /\ singly => r.reviewer = p /\ r.label = desk[p].label
  <2>1. reviews[i] \in Review  BY <1>2, ReviewShapes DEF ReviewShape
  <2>2. r \in Review /\ r.status = "resolved"  BY <1>2, <2>1 DEF Review
  <2>3. r.label # Unset
    <3>1. desk[p].label # Unset  BY <1>2 DEF REVIEWER_LABELS, Unset
    <3>2. r.label = IF desk[p].label = desk[p].oldLabel THEN reviews[i].label ELSE desk[p].label
      BY <2>1 DEF Review
    <3> HIDE DEF r
    <3>3. QED  BY <1>2, <3>1, <3>2
  <2>4. singly => r.reviewer = p /\ r.label = desk[p].label  BY <1>2, <2>1 DEF Review
  <2>5. QED  BY <2>2, <2>3, <2>4 DEF ReviewShape
<1> HIDE DEF r
<1>5. reviews' \in Seq(Review) /\ Len(reviews') = Len(reviews)
  BY <1>2, <1>3, <1>4, ReviewShapes DEF ReviewShape
<1>6. \A j \in 1..Len(reviews) : reviews'[j] = IF j = i THEN r ELSE reviews[j]
  BY <1>2, <1>3, ReviewShapes
<1>7. decided' \in [People -> SUBSET ((1..MaxRows) \X REVIEWER_LABELS)]
  BY <1>1, <1>2, ReviewShapes
<1>8. DecisionAttributed'
  <2> SUFFICES ASSUME singly, NEW j \in 1..Len(reviews), reviews'[j].reviewer # Unset
               PROVE  <<j, reviews'[j].label>> \in decided'[reviews'[j].reviewer]
    BY <1>1, <1>5 DEF DecisionAttributed
  <2>1. decided' = [decided EXCEPT ![p] = @ \cup {<<i, desk[p].label>>}]  BY <1>1
  <2>2. CASE j = i  BY <1>4, <1>6, <2>1, <2>2, ReviewShapes
  <2>3. CASE j # i
    <3>1. reviews'[j] = reviews[j] /\ reviews[j].reviewer \in People
      BY <1>6, <2>3, ReviewShapes DEF ReviewShape, Review
    <3>2. <<j, reviews[j].label>> \in decided[reviews[j].reviewer]
      BY <3>1 DEF ReviewsInv, DecisionAttributed
    <3>3. QED  BY <2>1, <3>1, <3>2, ReviewShapes
  <2>4. QED  BY <2>2, <2>3
<1>9. ASSUME NEW j \in 1..Len(reviews)
      PROVE  /\ ReviewShape(reviews'[j])
             /\ reviews[j].status = "resolved" => reviews'[j].status = "resolved"
             /\ OpenAppeal(reviews'[j]) => OpenAppeal(reviews[j])
             /\ \A q \in People : FeedbackBy(q, reviews'[j]) => FeedbackBy(q, reviews[j])
  BY <1>4, <1>6, ReviewShapes DEF OpenAppeal, FeedbackBy
<1>10. singly => \A q \in People : desk'[q].pc = "idle"
  BY <1>1, ReviewShapes, ClosedDesk DEF ReviewsInv, DesksAlone
<1>11. ReviewsInv'  BY <1>1, <1>5, <1>7, <1>8, <1>9, <1>10, RowsDecided
<1>12. QED  BY <1>5, <1>9, <1>11

\* Somebody is gone: what they decided stays decided.
LEMMA AccountGone ==
  ASSUME ReviewsInv, NEW p \in People, AccountLeaves(p)
  PROVE  /\ ReviewsInv' /\ Len(reviews') = Len(reviews)
         /\ \A j \in 1..Len(reviews) :
              reviews[j].status = "resolved" => reviews'[j].status = "resolved"
<1>1. /\ singly => \A q \in People : desk[q].pc = "idle"
      /\ reviews' = [i \in 1..Len(reviews) |-> Detached(p, reviews[i])]
      /\ desk' = [desk EXCEPT ![p] = Unfinished(p)]
      /\ decided' = [decided EXCEPT ![p] = {}] /\ UNCHANGED singly
  BY DEF AccountLeaves
<1>2. ASSUME NEW j \in 1..Len(reviews)
      PROVE  /\ ReviewShape(reviews'[j])
             /\ reviews'[j].status = reviews[j].status /\ reviews'[j].kind = reviews[j].kind
             /\ reviews'[j].label = reviews[j].label
             /\ reviews'[j].author \in {reviews[j].author, Unset}
             /\ reviews'[j].reviewer = IF reviews[j].reviewer = p THEN Unset ELSE reviews[j].reviewer
  BY <1>1, ReviewShapes DEF ReviewShape, Review, Detached
<1>3. reviews' \in Seq(Review) /\ Len(reviews') = Len(reviews)
  <2>1. Len(reviews) \in Nat  BY ReviewShapes
  <2>2. reviews' \in [1..Len(reviews) -> Review]  BY <1>1, <1>2 DEF ReviewShape
  <2>3. QED  BY <2>1, <2>2
<1>4. ASSUME NEW j \in 1..Len(reviews)
      PROVE  /\ OpenAppeal(reviews'[j]) => OpenAppeal(reviews[j])
             /\ \A q \in People : FeedbackBy(q, reviews'[j]) => FeedbackBy(q, reviews[j])
  BY <1>2, ReviewShapes DEF OpenAppeal, FeedbackBy
<1>5. DecisionAttributed'
  <2> SUFFICES ASSUME singly, NEW j \in 1..Len(reviews), reviews'[j].reviewer # Unset
               PROVE  <<j, reviews'[j].label>> \in decided'[reviews'[j].reviewer]
    BY <1>1, <1>3 DEF DecisionAttributed
  <2>1. reviews[j].reviewer # p /\ reviews'[j].reviewer = reviews[j].reviewer
        /\ reviews[j].reviewer # Unset /\ reviews[j].reviewer \in People
        /\ reviews'[j].label = reviews[j].label
    BY <1>2, ReviewShapes DEF ReviewShape, Review
  <2>2. <<j, reviews[j].label>> \in decided[reviews[j].reviewer]
    BY <2>1 DEF ReviewsInv, DecisionAttributed
  <2>3. QED  BY <1>1, <2>1, <2>2, ReviewShapes
<1>6. Unfinished(p) \in {NoDesk, desk[p]}  BY DEF Unfinished
<1>7. singly => \A q \in People : desk'[q].pc = "idle"
  BY <1>1, <1>6, ReviewShapes, ClosedDesk
<1>8. decided' \in [People -> SUBSET ((1..MaxRows) \X REVIEWER_LABELS)]
  BY <1>1, ReviewShapes
<1>9. ReviewsInv'  BY <1>1, <1>2, <1>3, <1>4, <1>5, <1>6, <1>7, <1>8, RowsDecided
<1>10. QED  BY <1>2, <1>3, <1>9

-----------------------------------------------------------------------------
LEMMA ReviewsStarts == ReviewsInit => ReviewsInv
<1> SUFFICES ASSUME ReviewsInit PROVE ReviewsInv  OBVIOUS
<1>1. /\ singly \in BOOLEAN /\ reviews = <<>> /\ reviews \in Seq(Review) /\ Len(reviews) = 0
      /\ desk = [p \in People |-> NoDesk] /\ decided = [p \in People |-> {}]
  BY DEF ReviewsInit, ReviewsStart
<1>2. \A p \in People : desk[p].pc = "idle"  BY <1>1, ClosedDesk
<1>3. ReviewsTypeOK  BY <1>1, ClosedDesk, ReviewsAssumption DEF ReviewsTypeOK
<1>4. QED  BY <1>1, <1>2, <1>3 DEF ReviewsInv, RowsAlone, DesksAlone, DecisionAttributed, DeskFits

LEMMA ReviewsSteps == ReviewsInv /\ [ReviewsNext]_reviewVars => ReviewsInv'
<1> SUFFICES ASSUME ReviewsInv, [ReviewsNext]_reviewVars PROVE ReviewsInv'  OBVIOUS
<1>1. ASSUME NEW p \in People, Appeal(p) PROVE ReviewsInv'
  <2> DEFINE d == [desk[p] EXCEPT !.pc = "submitting", !.kind = "appeal"]
  <2>1. desk' = [desk EXCEPT ![p] = d]  BY <1>1, ReviewShapes DEF Appeal
  <2>2. d \in Desk /\ d.pc = "submitting" /\ d.kind = "appeal"  BY ReviewShapes DEF Desk
  <2> HIDE DEF d
  <2>3. \A i \in 1..Len(reviews) : ~OpenAppeal(reviews[i])
    BY <1>1 DEF Appeal, OpenAppeals, OpenAppeal
  <2>4. DeskFits(p, d)  BY <2>2, <2>3 DEF DeskFits
  <2>5. QED  BY <1>1, <2>1, <2>2, <2>4, DeskMoved DEF Appeal
<1>2. ASSUME NEW p \in People, GiveFeedback(p) PROVE ReviewsInv'
  <2>1. FeedbackOf(p) \subseteq 1..Len(reviews) /\ Len(reviews) \in 0..MaxRows
    BY ReviewShapes DEF FeedbackOf
  <2>2. CASE FeedbackOf(p) = {}
    <3> DEFINE d == [desk[p] EXCEPT !.pc = "submitting", !.kind = "feedback", !.row = 0]
    <3>1. desk' = [desk EXCEPT ![p] = d]  BY <1>2, <2>2, ReviewShapes DEF GiveFeedback
    <3>2. d \in Desk /\ d.pc = "submitting" /\ d.kind = "feedback"
      <4>1. 0 \in 0..MaxRows  BY ReviewShapes
      <4>2. QED  BY <4>1, ReviewShapes DEF Desk
    <3> HIDE DEF d
    <3>3. \A i \in 1..Len(reviews) : ~FeedbackBy(p, reviews[i])
      BY <2>2 DEF FeedbackOf, FeedbackBy
    <3>4. DeskFits(p, d)  BY <3>2, <3>3 DEF DeskFits
    <3>5. QED  BY <1>2, <3>1, <3>2, <3>4, DeskMoved DEF GiveFeedback
  <2>3. CASE FeedbackOf(p) # {}
    <3>1. PICK i \in FeedbackOf(p) :
            desk' = [desk EXCEPT ![p].pc = "replacing", ![p].kind = "feedback", ![p].row = i]
      BY <1>2, <2>3 DEF GiveFeedback
    <3> DEFINE d == [desk[p] EXCEPT !.pc = "replacing", !.kind = "feedback", !.row = i]
    <3>2. desk' = [desk EXCEPT ![p] = d]  BY <3>1, ReviewShapes
    <3>3. i \in 1..Len(reviews) /\ i \in 0..MaxRows  BY <2>1, <3>1, ReviewShapes
    <3>4. d \in Desk /\ d.pc = "replacing" /\ d.row = i  BY <3>3, ReviewShapes DEF Desk
    <3> HIDE DEF d
    <3>5. DeskFits(p, d)  BY <3>3, <3>4 DEF DeskFits
    <3>6. QED  BY <1>2, <3>2, <3>4, <3>5, DeskMoved DEF GiveFeedback
  <2>4. QED  BY <2>2, <2>3
<1>3. ASSUME NEW p \in People, CommitReview(p) PROVE ReviewsInv'  BY <1>3, RowAdded
<1>4. ASSUME NEW p \in People, CommitReplacement(p) PROVE ReviewsInv'
  <2>1. DeskFits(p, NoDesk)  BY ClosedDesk DEF DeskFits
  <2>2. QED  BY <1>4, <2>1, ClosedDesk, DeskMoved DEF CommitReplacement
<1>5. ASSUME NEW p \in People, NEW i \in 1..MaxRows, NEW label \in REVIEWER_LABELS,
             TakeUp(p, i, label)
      PROVE  ReviewsInv'
  <2> DEFINE d == [desk[p] EXCEPT !.pc = "deciding", !.row = i, !.label = label,
                     !.oldReviewer = reviews[i].reviewer, !.oldLabel = reviews[i].label]
  <2>1. desk' = [desk EXCEPT ![p] = d]  BY <1>5, ReviewShapes DEF TakeUp
  <2>2. i \in 1..Len(reviews) /\ i \in 0..MaxRows /\ reviews[i] \in Review
    BY <1>5, ReviewShapes DEF TakeUp, ReviewShape
  <2>3. /\ d \in Desk /\ d.pc = "deciding" /\ d.row = i /\ d.label = label
        /\ d.oldReviewer = reviews[i].reviewer /\ d.oldLabel = reviews[i].label
    BY <2>2, ReviewShapes DEF Desk, Review
  <2> HIDE DEF d
  <2>4. DeskFits(p, d)  BY <2>2, <2>3 DEF DeskFits
  <2>5. QED  BY <1>5, <2>1, <2>3, <2>4, DeskMoved DEF TakeUp
<1>6. ASSUME NEW p \in People, Decide(p) PROVE ReviewsInv'  BY <1>6, RowDecided
<1>7. ASSUME NEW p \in People, AccountLeaves(p) PROVE ReviewsInv'  BY <1>7, AccountGone
<1>8. CASE UNCHANGED reviewVars
  BY <1>8 DEF reviewVars, ReviewsInv, ReviewsTypeOK, RowsAlone, DesksAlone, DecisionAttributed, DeskFits
<1>9. QED  BY <1>1, <1>2, <1>3, <1>4, <1>5, <1>6, <1>7, <1>8 DEF ReviewsNext

LEMMA ReviewsImplied == ReviewsInv => ReviewsInvariant
<1> SUFFICES ASSUME ReviewsInv PROVE ReviewsInvariant  OBVIOUS
<1>1. OneOpenAppeal
  <2>1. singly => \A i, j \in OpenAppeals : i = j
    BY DEF ReviewsInv, RowsAlone, OpenAppeals, OpenAppeal
  <2>2. QED  BY <2>1, OneAtMost DEF OneOpenAppeal
<1>2. OneFeedbackEach
  <2>1. singly => \A p \in People : \A i, j \in FeedbackOf(p) : i = j
    BY DEF ReviewsInv, RowsAlone, FeedbackOf, FeedbackBy
  <2>2. QED  BY <2>1, OneAtMost DEF OneFeedbackEach
<1>3. QED  BY <1>1, <1>2 DEF ReviewsInv, ReviewsInvariant

\* Requests one at a time, an investigation never has two open appeals nor a
\* person two recorded feedbacks, and every decision shown is its reviewer's.
THEOREM ReviewsSafe == ReviewsSpec => []ReviewsInvariant
<1>1. QED  BY ReviewsStarts, ReviewsSteps, ReviewsImplied, PTL DEF ReviewsSpec

\* However submitters and reviewers interleave, a decided review stays decided.
THEOREM Decided == ReviewsSpec => DecidedForGood
<1> DEFINE Good == \A i \in 1..Len(reviews) :
                     reviews[i].status = "resolved" => reviews'[i].status = "resolved"
<1>1. ReviewsInv /\ [ReviewsNext]_reviewVars => [Good]_reviewVars
  <2> SUFFICES ASSUME ReviewsInv, ReviewsNext PROVE Good  OBVIOUS
  <2>1. ASSUME NEW p \in People, CommitReview(p) PROVE Good
    BY <2>1, ReviewShapes DEF CommitReview
  <2>2. ASSUME NEW p \in People, Decide(p) \/ AccountLeaves(p) PROVE Good
    BY <2>2, RowDecided, AccountGone
  <2>3. CASE UNCHANGED reviews  BY <2>3
  <2>4. QED
    BY <2>1, <2>2, <2>3 DEF ReviewsNext, Appeal, GiveFeedback, CommitReplacement, TakeUp
<1>2. QED  BY <1>1, ReviewsStarts, ReviewsSteps, PTL DEF ReviewsSpec, DecidedForGood
=============================================================================
