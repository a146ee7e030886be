---------------------------- MODULE BrowserSession ----------------------------
(***************************************************************************)
(* The tabs of one browser and the session they share: the store of every  *)
(* tab, its copy in localStorage, the storage events that tell the other   *)
(* tabs, and the requests that find their access token expired.  The       *)
(* server is SessionTokens.                                                *)
(*                                                                         *)
(* JavaScript runs to completion: what follows an awaited answer without   *)
(* awaiting anything the network or another tab must do is one step.       *)
(* rehydrate() reads localStorage at once.  A session in a store is named  *)
(* by its refresh token; the access token that came with it is in stale    *)
(* once it has expired.                                                    *)
(***************************************************************************)
EXTENDS Naturals, Sequences, FiniteSets

CONSTANTS Tabs, Requests,   \* Requests: API requests a tab has open at once
          MaxTokens,        \* bound: tokens ever issued
          MaxOpen,          \* bound: API requests open at once in all tabs
          May               \* which of Hazards happen

\* Calls to /auth overlap; an answer is lost; a tab is reloaded; the user signs
\* out; the account is disabled or deleted.
Hazards == {"overlap", "lose", "reload", "signOut", "account"}

ASSUME BrowserAssumption == MaxTokens \in Nat \ {0} /\ MaxOpen \in Nat /\ May \subseteq Hazards

\* A tab may have two calls to /auth open, a refresh and a sign-in or sign-out;
\* a call of a page that was reloaded goes on without it.
Slots == Tabs \X {"refresh", "sign", "left"}

VARIABLES
  tokens, account, calls, held,   \* the server
  storage,      \* the session in localStorage, 0 for none
  store,        \* the session in the store of each tab, 0 for none
  refreshing,   \* the token the tab's refreshSession presented, 0 when none runs
  requests,     \* API requests: the session they carry, whether they were retried
  event,        \* tabs with a storage event to handle
  stale         \* sessions whose access token has expired

S == INSTANCE SessionTokens WITH Callers <- Slots, overlap <- TRUE

server == <<tokens, account, calls, held>>
browser == <<storage, store, refreshing, requests, event, stale>>
vars == <<server, browser>>

Sessions == 0..MaxTokens
NoRequest == [pc |-> "idle", access |-> 0, retried |-> FALSE]

\* The shapes, and: a tab's refresh is under way exactly while its call is open,
\* and requests wait for nothing else.
TypeOK ==
  /\ S!TypeOK
  /\ storage \in Sessions /\ store \in [Tabs -> Sessions] /\ refreshing \in [Tabs -> Sessions]
  /\ requests \in [Tabs -> [Requests -> [pc : {"idle", "sent", "waiting"},
                                         access : Sessions, retried : BOOLEAN]]]
  /\ event \in [Tabs -> BOOLEAN] /\ stale \subseteq 1..Len(tokens)
  /\ \A b \in Tabs : /\ refreshing[b] # 0 <=> calls[<<b, "refresh">>].pc # "idle"
                     /\ \A r \in Requests : requests[b][r].pc = "waiting" => refreshing[b] # 0

Init ==
  /\ S!Init
  /\ storage = 0 /\ store = [b \in Tabs |-> 0]
  /\ refreshing = [b \in Tabs |-> 0]
  /\ requests = [b \in Tabs |-> [r \in Requests |-> NoRequest]]
  /\ event = [b \in Tabs |-> FALSE] /\ stale = {}

\* A tab sends a call to /auth only when no other is open, unless they overlap.
MaySend == "overlap" \in May \/ \A s \in Slots : calls[s].pc = "idle"

\* setSession and clear: the store is written through to localStorage, and the
\* browser tells the other tabs if that changed it.
Write(b, t) ==
  /\ store' = [store EXCEPT ![b] = t]
  /\ storage' = t
  /\ event' = IF t = storage THEN event ELSE [x \in Tabs |-> x # b \/ event[x]]

\* rehydrate: the store is read from localStorage.
Rehydrate(b) == store' = [store EXCEPT ![b] = storage] /\ UNCHANGED <<storage, event>>

-----------------------------------------------------------------------------
(* request                                                                 *)

\* A request of tab b moves on.
SetRequest(b, r, q) == requests' = [requests EXCEPT ![b][r] = q]

Open == {x \in Tabs \X Requests : requests[x[1]][x[2]].pc # "idle"}

Request(b, r) ==
  /\ store[b] # 0 /\ requests[b][r] = NoRequest /\ Cardinality(Open) < MaxOpen
  /\ SetRequest(b, r, [pc |-> "sent", access |-> store[b], retried |-> FALSE])
  /\ UNCHANGED <<server, storage, store, refreshing, event, stale>>

\* current_principal: the access token is not expired and the account active.
Authorized(t) == account = "active" /\ t \notin stale

\* The request is answered, or fails as offline.
Answered(b, r) ==
  /\ requests[b][r].pc = "sent"
  /\ Authorized(requests[b][r].access) \/ "lose" \in May
  /\ SetRequest(b, r, NoRequest)
  /\ UNCHANGED <<server, storage, store, refreshing, event, stale>>

\* Mutant of StartRefresh: the session is not read from localStorage first.
StartRefreshFromStore(b, r) ==
  /\ MaySend
  /\ S!Send(<<b, "refresh">>, "refresh", store[b])
  /\ refreshing' = [refreshing EXCEPT ![b] = store[b]]
  /\ SetRequest(b, r, [requests[b][r] EXCEPT !.pc = "waiting"])
  /\ UNCHANGED <<storage, store, event, stale>>

\* refreshSession, when none is under way in this tab.
StartRefresh(b, r) ==
  /\ MaySend
  /\ Rehydrate(b) /\ UNCHANGED stale
  /\ IF storage = 0
     THEN /\ SetRequest(b, r, NoRequest)      \* false, and clear() has nothing to do
          /\ UNCHANGED <<server, refreshing>>
     ELSE /\ S!Send(<<b, "refresh">>, "refresh", storage)
          /\ refreshing' = [refreshing EXCEPT ![b] = storage]
          /\ SetRequest(b, r, [requests[b][r] EXCEPT !.pc = "waiting"])

Unauthorized(b, r) == requests[b][r].pc = "sent" /\ ~Authorized(requests[b][r].access)

\* Mutant of Refresh: the promise of a refresh under way is not shared.
RefreshAgain(b, r) ==
  /\ Unauthorized(b, r) /\ ~requests[b][r].retried /\ store[b] # 0
  /\ IF refreshing[b] # 0
     THEN /\ S!Send(<<b, "left">>, "refresh", storage)
          /\ SetRequest(b, r, [requests[b][r] EXCEPT !.pc = "waiting"])
          /\ UNCHANGED <<storage, store, refreshing, event, stale>>
     ELSE StartRefresh(b, r)

\* 401: the first one joins the tab's refresh or starts one ...
Refresh(b, r) ==
  /\ Unauthorized(b, r) /\ ~requests[b][r].retried /\ store[b] # 0
  /\ IF refreshing[b] # 0
     THEN /\ SetRequest(b, r, [requests[b][r] EXCEPT !.pc = "waiting"])
          /\ UNCHANGED <<server, storage, store, refreshing, event, stale>>
     ELSE StartRefresh(b, r)

\* ... the second one, or one without a session, ends the session.
GiveUp(b, r) ==
  /\ Unauthorized(b, r) /\ (requests[b][r].retried \/ store[b] = 0)
  /\ Write(b, 0)
  /\ SetRequest(b, r, NoRequest)
  /\ UNCHANGED <<server, refreshing, stale>>

-----------------------------------------------------------------------------
(* The end of refreshSession, and of the requests that wait for it.        *)

\* true: they are sent again with session t; false (t = 0): they give up.
Resume(b, t) ==
  /\ requests' = [requests EXCEPT ![b] = [r \in Requests |->
       IF @[r].pc # "waiting" THEN @[r]
       ELSE IF t = 0 THEN NoRequest
       ELSE [pc |-> "sent", access |-> t, retried |-> TRUE]]]
  /\ refreshing' = [refreshing EXCEPT ![b] = 0]

Refreshed(b) ==
  LET call == calls[<<b, "refresh">>]
  IN /\ refreshing[b] # 0 /\ call.pc = "done"
     /\ S!Receive(<<b, "refresh">>)
     /\ Write(b, call.made) /\ Resume(b, call.made)
     /\ UNCHANGED stale

\* Mutant of NotRefreshed: the promise is not forgotten.
NotRefreshedForever(b) ==
  IF storage \notin {0, refreshing[b]}
  THEN Rehydrate(b) /\ Resume(b, storage)
  ELSE Write(b, 0) /\ UNCHANGED <<requests, refreshing>>

\* !response.ok: another tab may have a newer session in localStorage;
\* otherwise this one is over.
NotRefreshed(b) ==
  IF storage \notin {0, refreshing[b]}
  THEN Rehydrate(b) /\ Resume(b, storage)
  ELSE Write(b, 0) /\ Resume(b, 0)

RefreshRefused(b) ==
  /\ refreshing[b] # 0 /\ calls[<<b, "refresh">>].pc = "refused"
  /\ S!Receive(<<b, "refresh">>)
  /\ NotRefreshed(b)
  /\ UNCHANGED stale

\* The server answers 5xx, or fetch throws: refreshSession is false, and the
\* requests' own 401 ends the session.
RefreshLost(b) ==
  /\ "lose" \in May /\ refreshing[b] # 0
  /\ S!Lose(<<b, "refresh">>)
  /\ NotRefreshed(b) \/ (Write(b, 0) /\ Resume(b, 0))
  /\ UNCHANGED stale

-----------------------------------------------------------------------------
(* Signing in and out, other tabs, reloading.                              *)

SignIn(b) ==
  /\ store[b] = 0 /\ MaySend
  /\ S!Send(<<b, "sign">>, "signin", 0)
  /\ UNCHANGED browser

SignOut(b) ==
  /\ "signOut" \in May /\ store[b] # 0 /\ MaySend
  /\ S!Send(<<b, "sign">>, "logout", store[b])
  /\ UNCHANGED browser

SignedIn(b) ==
  LET call == calls[<<b, "sign">>]
  IN /\ call.op = "signin" /\ call.pc = "done"
     /\ S!Receive(<<b, "sign">>)
     /\ Write(b, call.made)
     /\ UNCHANGED <<refreshing, requests, stale>>

\* The page shows an error.
SignInFails(b) ==
  /\ calls[<<b, "sign">>].op = "signin"
  /\ \/ calls[<<b, "sign">>].pc = "refused" /\ S!Receive(<<b, "sign">>)
     \/ "lose" \in May /\ S!Lose(<<b, "sign">>)
  /\ UNCHANGED browser

\* The session is cleared whatever became of the call.
SignedOut(b) ==
  /\ calls[<<b, "sign">>].op = "logout"
  /\ S!Receive(<<b, "sign">>) \/ ("lose" \in May /\ S!Lose(<<b, "sign">>))
  /\ Write(b, 0)
  /\ UNCHANGED <<refreshing, requests, stale>>

\* Mutant of StorageEvent: the listener does not rehydrate.
StorageEventIgnored(b) ==
  /\ event[b] /\ event' = [event EXCEPT ![b] = FALSE]
  /\ UNCHANGED <<server, storage, store, refreshing, requests, stale>>

StorageEvent(b) ==
  /\ event[b]
  /\ event' = [event EXCEPT ![b] = FALSE]
  /\ store' = [store EXCEPT ![b] = storage]
  /\ UNCHANGED <<server, storage, refreshing, requests, stale>>

\* The page is reloaded; the server finishes its refresh call, if any.
Reload(b) ==
  /\ "reload" \in May
  /\ calls[<<b, "left">>].pc = "idle" /\ calls[<<b, "sign">>].pc = "idle"
  /\ calls' = [calls EXCEPT ![<<b, "left">>] = calls[<<b, "refresh">>],
                            ![<<b, "refresh">>] = S!NoCall]
  /\ store' = [store EXCEPT ![b] = storage]
  /\ event' = [event EXCEPT ![b] = FALSE]
  /\ refreshing' = [refreshing EXCEPT ![b] = 0]
  /\ requests' = [requests EXCEPT ![b] = [r \in Requests |-> NoRequest]]
  /\ UNCHANGED <<tokens, account, held, storage, stale>>

\* Nobody takes the answer of a call whose page is gone.
Unheard(b) ==
  /\ calls[<<b, "left">>].pc \in {"done", "refused"}
  /\ S!Lose(<<b, "left">>)
  /\ UNCHANGED browser

-----------------------------------------------------------------------------
AccessExpires(t) ==
  /\ t \notin stale /\ \E b \in Tabs : store[b] = t
  /\ stale' = stale \cup {t}
  /\ UNCHANGED <<server, storage, store, refreshing, requests, event>>

ServerStep(s) == S!ServerStep(s) /\ UNCHANGED browser

Next ==
  \/ \E b \in Tabs :
       \/ \E r \in Requests : Request(b, r) \/ Answered(b, r) \/ Refresh(b, r) \/ GiveUp(b, r)
       \/ Refreshed(b) \/ RefreshRefused(b) \/ RefreshLost(b)
       \/ SignIn(b) \/ SignedIn(b) \/ SignInFails(b) \/ SignOut(b) \/ SignedOut(b)
       \/ StorageEvent(b) \/ Reload(b) \/ Unheard(b)
  \/ \E s \in Slots : ServerStep(s)
  \/ \E t \in 1..Len(tokens) : AccessExpires(t)
  \/ "account" \in May /\ \E a \in {"active", "disabled", "deleted"} :
       S!SetAccount(a) /\ UNCHANGED browser

Spec == Init /\ [][Next]_vars

\* The server goes on with the calls it has begun, a tab goes on when the answer
\* to its refresh is there, and a request gets its answer.  It fails, as a fetch
\* does in the end, only when other calls keep a refresh from its turn.  Nothing
\* obliges an answer to be lost, a tab to be told of another's session, or the
\* access token to expire.
Fairness ==
  /\ WF_vars(\E s \in Slots : ServerStep(s))
  /\ \A b \in Tabs :
       /\ WF_vars(Refreshed(b) \/ RefreshRefused(b))
       /\ \A r \in Requests :
            WF_vars(\/ (Authorized(requests[b][r].access) \/ ~MaySend) /\ Answered(b, r)
                    \/ Refresh(b, r) \/ GiveUp(b, r))

FairSpec == Spec /\ Fairness

-----------------------------------------------------------------------------
(* Properties.                                                             *)

\* A tab holds the session of localStorage, unless it has a storage event to
\* handle, in whatever order tabs refreshed, signed in and out and were reloaded
\* (stores/auth.ts: "Keep every open tab on the same session").
TabsAgree == \A b \in Tabs : event[b] \/ store[b] = storage

Quiet == \A s \in Slots : calls[s].pc = "idle"

\* The session a browser keeps can still be refreshed.  lib/api.ts:63 says
\* "losing a race to another tab is not a reason to end the session".
SessionUsable == Quiet /\ storage # 0 => ~tokens[storage].revoked

\* A tab never presents a token that was exchanged before: concurrent 401s share
\* one refresh (lib/api.ts: "Single-flight refresh"), and the session is read
\* from localStorage before it is refreshed.
NeverReused == \A s \in Slots : calls[s].pc # "spent"

\* A call that needs a token is at the bound on tokens.
AtBound(s) ==
  /\ Len(tokens) = MaxTokens /\ account = "active"
  /\ calls[s].pc = "found" \/ (calls[s].pc = "sent" /\ calls[s].op = "signin")

\* An API request comes to an end, whether it was retried with a refreshed
\* session or not: it does not wait for a refresh that is over (unless a call is
\* stuck at the bound on tokens).
RequestEnds(b, r) ==
  requests[b][r].pc # "idle" ~> (requests[b][r].pc = "idle" \/ \E s \in Slots : AtBound(s))
=============================================================================
