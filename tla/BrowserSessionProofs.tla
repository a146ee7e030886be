------------------------- MODULE BrowserSessionProofs -------------------------
(***************************************************************************)
(* For any number of tabs, requests and tokens: tabs agree on their        *)
(* session; what they ask of the server is what SessionTokens' callers     *)
(* ask; and calls made one at a time keep the session usable.              *)
(***************************************************************************)
EXTENDS BrowserSession, TLAPS

-----------------------------------------------------------------------------
(* Tabs agree.                                                             *)

\* The stores and the storage events are indexed by the tabs.
Shapes == store = [b \in Tabs |-> store[b]] /\ event = [b \in Tabs |-> event[b]]

Inv == Shapes /\ TabsAgree

\* Writing a session through to localStorage tells every other tab of it.
LEMMA WriteInv ==
  ASSUME Inv, NEW b \in Tabs, NEW t, Write(b, t)
  PROVE  Inv'
<1>1. /\ store' = [x \in Tabs |-> IF x = b THEN t ELSE store[x]]
      /\ storage' = t
  BY DEF Write, Inv, Shapes
<1>2. CASE t = storage
  BY <1>1, <1>2 DEF Write, Inv, Shapes, TabsAgree
<1>3. CASE t # storage
  <2>1. event' = [x \in Tabs |-> x # b \/ event[x]]  BY <1>3 DEF Write
  <2>2. QED  BY <1>1, <2>1 DEF Inv, Shapes, TabsAgree
<1>4. QED  BY <1>2, <1>3

\* Reading it brings the tab up to date, whether or not it had an event to handle.
LEMMA ReadInv ==
  ASSUME Inv, NEW b \in Tabs, store' = [store EXCEPT ![b] = storage], storage' = storage,
         event' = event \/ event' = [event EXCEPT ![b] = FALSE]
  PROVE  Inv'
<1>1. store' = [x \in Tabs |-> IF x = b THEN storage ELSE store[x]]  BY DEF Inv, Shapes
<1>2. CASE event' = event  BY <1>1, <1>2 DEF Inv, Shapes, TabsAgree
<1>3. CASE event' = [event EXCEPT ![b] = FALSE]
  <2>1. event' = [x \in Tabs |-> IF x = b THEN FALSE ELSE event[x]]  BY <1>3 DEF Inv, Shapes
  <2>2. QED  BY <1>1, <2>1 DEF Inv, Shapes, TabsAgree
<1>4. QED  BY <1>2, <1>3

\* Most steps touch neither the stores nor localStorage.
LEMMA SameInv ==
  ASSUME Inv, UNCHANGED <<storage, store, event>>
  PROVE  Inv'
BY DEF Inv, Shapes, TabsAgree

\* What a refused or failed refresh does to the session.
LEMMA NotRefreshedInv ==
  ASSUME Inv, NEW b \in Tabs, NotRefreshed(b)
  PROVE  Inv'
BY WriteInv, ReadInv DEF NotRefreshed, Rehydrate

\* The steps of a tab's requests.
LEMMA RequestInv ==
  ASSUME Inv, NEW b \in Tabs, NEW r \in Requests,
         Request(b, r) \/ Answered(b, r) \/ Refresh(b, r) \/ GiveUp(b, r)
  PROVE  Inv'
<1>1. CASE Request(b, r) \/ Answered(b, r)  BY <1>1, SameInv DEF Request, Answered
<1>2. CASE Refresh(b, r) /\ refreshing[b] # 0  BY <1>2, SameInv DEF Refresh
<1>3. CASE Refresh(b, r) /\ refreshing[b] = 0
  BY <1>3, ReadInv DEF Refresh, StartRefresh, Rehydrate
<1>4. CASE GiveUp(b, r)  BY <1>4, WriteInv DEF GiveUp
<1>5. QED  BY <1>1, <1>2, <1>3, <1>4

\* Every step of every tab, of the server and of time.
LEMMA NextInv == Inv /\ [Next]_vars => Inv'
<1> SUFFICES ASSUME Inv, [Next]_vars PROVE Inv'  OBVIOUS
<1>1. CASE UNCHANGED vars  BY <1>1, SameInv DEF vars, browser
<1>2. ASSUME NEW b \in Tabs, Refreshed(b) PROVE Inv'
  BY <1>2, WriteInv DEF Refreshed
<1>3. ASSUME NEW b \in Tabs, RefreshRefused(b) \/ RefreshLost(b) PROVE Inv'
  BY <1>3, WriteInv, NotRefreshedInv DEF RefreshRefused, RefreshLost
<1>4. ASSUME NEW b \in Tabs, SignedIn(b) \/ SignedOut(b) PROVE Inv'
  BY <1>4, WriteInv DEF SignedIn, SignedOut
<1>5. ASSUME NEW b \in Tabs, SignIn(b) \/ SignInFails(b) \/ SignOut(b) \/ Unheard(b) PROVE Inv'
  BY <1>5, SameInv DEF SignIn, SignInFails, SignOut, Unheard, browser
<1>6. ASSUME NEW b \in Tabs, StorageEvent(b) \/ Reload(b) PROVE Inv'
  BY <1>6, ReadInv DEF StorageEvent, Reload
<1>7. ASSUME NEW s \in Slots, ServerStep(s) PROVE Inv'
  BY <1>7, SameInv DEF ServerStep, browser
<1>8. ASSUME NEW t \in 1..Len(tokens), AccessExpires(t) PROVE Inv'
  BY <1>8, SameInv DEF AccessExpires
<1>9. CASE \E a \in {"active", "disabled", "deleted"} : S!SetAccount(a) /\ UNCHANGED browser
  BY <1>9, SameInv DEF browser
<1>10. QED
  BY <1>1, <1>2, <1>3, <1>4, <1>5, <1>6, <1>7, <1>8, <1>9, RequestInv DEF Next

\* A tab never rests on another session than localStorage's: either it holds
\* that one or it has been told that there is another.
THEOREM TabsAlwaysAgree == Spec => []TabsAgree
<1>1. Init => Inv  BY DEF Init, Inv, Shapes, TabsAgree
<1>2. Inv => TabsAgree  BY DEF Inv
<1>3. QED  BY <1>1, <1>2, NextInv, PTL DEF Spec

-----------------------------------------------------------------------------
(* The browser as SessionTokens' callers.  Callers present only tokens     *)
(* they were given, one call at a time unless calls overlap; what          *)
(* SessionTokensProofs shows then holds of the server the browser uses.    *)

Server == INSTANCE SessionTokensProofs WITH Callers <- Slots, overlap <- "overlap" \in May

\* Every session in a store or in localStorage, and every token a refresh
\* presents, was given to the browser.
Given == held \cup {0}
SessionsGiven ==
  storage \in Given /\ store \in [Tabs -> Given] /\ refreshing \in [Tabs -> Given]

\* The server's actions do not depend on whether calls overlap.
LEMMA SameServer ==
  ASSUME NEW s \in Slots
  PROVE  /\ S!ServerStep(s) => Server!ServerStep(s)
         /\ S!Receive(s) => Server!Receive(s)
         /\ S!Lose(s) => Server!Lose(s)
         /\ \A a \in {"active", "disabled", "deleted"} : S!SetAccount(a) => Server!SetAccount(a)
<1>1. S!ServerStep(s) => Server!ServerStep(s)
  BY DEF S!ServerStep, S!SignIn, S!Lookup, S!RevokeFamily, S!Issue, S!Spend, S!Insert, S!To, S!Known,
         S!Revoke, S!Family, Server!ServerStep, Server!SignIn, Server!Lookup, Server!RevokeFamily,
         Server!Issue, Server!Spend, Server!Insert, Server!To, Server!Known, Server!Revoke, Server!Family
<1>2. S!Receive(s) => Server!Receive(s)
  BY DEF S!Receive, S!NoCall, Server!Receive, Server!NoCall
<1>3. S!Lose(s) => Server!Lose(s)
  BY DEF S!Lose, S!NoCall, Server!Lose, Server!NoCall
<1>4. \A a \in {"active", "disabled", "deleted"} : S!SetAccount(a) => Server!SetAccount(a)
  BY DEF S!SetAccount, Server!SetAccount
<1>5. QED  BY <1>1, <1>2, <1>3, <1>4

\* A tab sends a call when a caller may.
LEMMA SameSend ==
  ASSUME NEW s \in Slots, NEW op, NEW t, MaySend, S!Send(s, op, t)
  PROVE  Server!Send(s, op, t)
BY DEF MaySend, S!Send, Server!Send

\* The browser keeps what it was given, and keeps nothing else.
LEMMA GivenKept ==
  ASSUME SessionsGiven, held \subseteq held', storage' \in Given',
         store' \in [Tabs -> Given'], refreshing' \in [Tabs -> Given']
  PROVE  SessionsGiven'
BY DEF SessionsGiven

\* Writing a session through, and the end of a refresh, keep given sessions.
LEMMA WriteGiven ==
  ASSUME SessionsGiven, held \subseteq held', NEW b \in Tabs, NEW t \in Given', Write(b, t),
         refreshing' = refreshing \/ refreshing' = [refreshing EXCEPT ![b] = 0]
  PROVE  SessionsGiven'
<1>1. Given \subseteq Given' /\ 0 \in Given'  BY DEF Given
<1>2. store' \in [Tabs -> Given'] /\ storage' \in Given'
  BY <1>1 DEF Write, SessionsGiven
<1>3. refreshing' \in [Tabs -> Given']  BY <1>1 DEF SessionsGiven
<1>4. QED  BY <1>2, <1>3, GivenKept

\* So does reading localStorage.
LEMMA ReadGiven ==
  ASSUME SessionsGiven, held \subseteq held', NEW b \in Tabs,
         store' = [store EXCEPT ![b] = storage] \/ store' = store, storage' = storage,
         \E t \in {0, storage} : refreshing' \in {refreshing, [refreshing EXCEPT ![b] = t]}
  PROVE  SessionsGiven'
<1>1. Given \subseteq Given' /\ 0 \in Given'  BY DEF Given
<1>2. store' \in [Tabs -> Given'] /\ storage' \in Given' /\ refreshing' \in [Tabs -> Given']
  BY <1>1 DEF SessionsGiven
<1>3. QED  BY <1>2, GivenKept

\* The steps that leave both alone.
LEMMA SameGiven ==
  ASSUME SessionsGiven, held \subseteq held', UNCHANGED <<storage, store, refreshing>>
  PROVE  SessionsGiven'
<1>1. Given \subseteq Given'  BY DEF Given
<1>2. QED  BY <1>1, GivenKept DEF SessionsGiven

\* A step of a tab, of the server or of time is a step of SessionTokens or
\* leaves the server alone, unless a page is reloaded: its call then goes on
\* in another slot.
LEMMA BrowserStep ==
  ASSUME SessionsGiven, [Next]_vars, "reload" \notin May
  PROVE  SessionsGiven' /\ [Server!Next]_(Server!vars)
<1>1. CASE UNCHANGED vars
  BY <1>1, SameGiven DEF vars, server, browser, Server!vars
<1>2. ASSUME NEW b \in Tabs, NEW r \in Requests, Request(b, r) \/ Answered(b, r) \/ GiveUp(b, r)
      PROVE  SessionsGiven' /\ [Server!Next]_(Server!vars)
  <2>1. UNCHANGED server /\ UNCHANGED refreshing /\ held \subseteq held'
    BY <1>2 DEF Request, Answered, GiveUp, server
  <2>2. [Server!Next]_(Server!vars)  BY <2>1 DEF server, Server!vars
  <2>3. CASE UNCHANGED <<storage, store>>  BY <2>1, <2>2, <2>3, SameGiven
  <2>4. CASE GiveUp(b, r)
    <3>1. Write(b, 0) /\ 0 \in Given'  BY <2>4 DEF GiveUp, Given
    <3>2. QED  BY <2>1, <2>2, <3>1, WriteGiven
  <2>5. QED  BY <1>2, <2>3, <2>4 DEF Request, Answered
<1>3. ASSUME NEW b \in Tabs, NEW r \in Requests, Refresh(b, r)
      PROVE  SessionsGiven' /\ [Server!Next]_(Server!vars)
  <2>1. CASE UNCHANGED server
    <3>1. [Server!Next]_(Server!vars) /\ held \subseteq held'  BY <2>1 DEF server, Server!vars
    <3>2. CASE refreshing[b] # 0
      BY <1>3, <3>1, <3>2, SameGiven DEF Refresh
    <3>3. CASE refreshing[b] = 0
      <4>1. /\ store' = [store EXCEPT ![b] = storage] /\ storage' = storage
            /\ \E t \in {0, storage} : refreshing' \in {refreshing, [refreshing EXCEPT ![b] = t]}
        BY <1>3, <3>3 DEF Refresh, StartRefresh, Rehydrate
      <4>2. QED  BY <3>1, <4>1, ReadGiven
    <3>4. QED  BY <3>2, <3>3
  <2>2. CASE ~UNCHANGED server
    <3>1. /\ S!Send(<<b, "refresh">>, "refresh", storage) /\ MaySend /\ storage # 0
          /\ store' = [store EXCEPT ![b] = storage] /\ storage' = storage
          /\ refreshing' = [refreshing EXCEPT ![b] = storage]
      BY <1>3, <2>2 DEF Refresh, StartRefresh, Rehydrate
    <3>2. <<b, "refresh">> \in Slots /\ storage \in held
      BY <3>1 DEF Slots, SessionsGiven, Given
    <3>3. Server!Send(<<b, "refresh">>, "refresh", storage)
      BY <3>1, <3>2, SameSend
    <3>4. Server!Next  BY <3>2, <3>3 DEF Server!Next
    <3>5. held \subseteq held'  BY <3>1 DEF S!Send
    <3>6. QED  BY <3>1, <3>4, <3>5, ReadGiven
  <2>3. QED  BY <2>1, <2>2
<1>4. ASSUME NEW b \in Tabs, Refreshed(b) \/ RefreshRefused(b) \/ RefreshLost(b)
      PROVE  SessionsGiven' /\ [Server!Next]_(Server!vars)
  <2>1. <<b, "refresh">> \in Slots  BY DEF Slots
  <2>2. S!Receive(<<b, "refresh">>) \/ S!Lose(<<b, "refresh">>)
    BY <1>4 DEF Refreshed, RefreshRefused, RefreshLost
  <2>3. held \subseteq held'  BY <2>2 DEF S!Receive, S!Lose
  <2>4. [Server!Next]_(Server!vars)  BY <2>1, <2>2, SameServer DEF Server!Next
  <2>5. CASE Refreshed(b)
    <3>1. /\ Write(b, calls[<<b, "refresh">>].made) /\ refreshing' = [refreshing EXCEPT ![b] = 0]
          /\ calls[<<b, "refresh">>].pc = "done" /\ S!Receive(<<b, "refresh">>)
      BY <2>5 DEF Refreshed, Resume
    <3>2. calls[<<b, "refresh">>].made \in Given'  BY <3>1 DEF Given, S!Receive
    <3>3. QED  BY <2>3, <2>4, <3>1, <3>2, WriteGiven
  <2>6. CASE Write(b, 0) /\ Resume(b, 0)
    <3>1. 0 \in Given'  BY DEF Given
    <3>2. QED  BY <2>3, <2>4, <2>6, <3>1, WriteGiven DEF Resume
  <2>7. CASE Rehydrate(b) /\ Resume(b, storage)
    BY <2>3, <2>4, <2>7, ReadGiven DEF Rehydrate, Resume
  <2>8. QED  BY <1>4, <2>5, <2>6, <2>7 DEF RefreshRefused, RefreshLost, NotRefreshed
<1>5. ASSUME NEW b \in Tabs, SignIn(b) \/ SignOut(b)
      PROVE  SessionsGiven' /\ [Server!Next]_(Server!vars)
  <2>1. <<b, "sign">> \in Slots /\ MaySend  BY <1>5 DEF Slots, SignIn, SignOut
  <2>2. UNCHANGED <<storage, store, refreshing>>  BY <1>5 DEF SignIn, SignOut, browser
  <2>3. held \subseteq held'  BY <1>5 DEF SignIn, SignOut, S!Send
  <2>4. CASE SignIn(b)
    <3>1. Server!Send(<<b, "sign">>, "signin", 0)  BY <2>1, <2>4, SameSend DEF SignIn
    <3>2. QED  BY <2>1, <2>2, <2>3, <3>1, SameGiven DEF Server!Next
  <2>5. CASE SignOut(b)
    <3>1. Server!Send(<<b, "sign">>, "logout", store[b])  BY <2>1, <2>5, SameSend DEF SignOut
    <3>2. store[b] \in held  BY <2>5 DEF SignOut, SessionsGiven, Given
    <3>3. Server!Next  BY <2>1, <3>1, <3>2 DEF Server!Next
    <3>4. QED  BY <2>2, <2>3, <3>3, SameGiven
  <2>6. QED  BY <1>5, <2>4, <2>5
<1>6. ASSUME NEW b \in Tabs, SignedIn(b) \/ SignInFails(b) \/ SignedOut(b)
      PROVE  SessionsGiven' /\ [Server!Next]_(Server!vars)
  <2>1. <<b, "sign">> \in Slots  BY DEF Slots
  <2>2. S!Receive(<<b, "sign">>) \/ S!Lose(<<b, "sign">>)
    BY <1>6 DEF SignedIn, SignInFails, SignedOut
  <2>3. held \subseteq held'  BY <2>2 DEF S!Receive, S!Lose
  <2>4. [Server!Next]_(Server!vars)  BY <2>1, <2>2, SameServer DEF Server!Next
  <2>5. CASE SignedIn(b)
    <3>1. calls[<<b, "sign">>].made \in Given'  BY <2>5 DEF SignedIn, Given, S!Receive
    <3>2. QED  BY <2>3, <2>4, <2>5, <3>1, WriteGiven DEF SignedIn
  <2>6. CASE SignInFails(b)
    BY <2>3, <2>4, <2>6, SameGiven DEF SignInFails, browser
  <2>7. CASE SignedOut(b)
    <3>1. 0 \in Given'  BY DEF Given
    <3>2. QED  BY <2>3, <2>4, <2>7, <3>1, WriteGiven DEF SignedOut
  <2>8. QED  BY <1>6, <2>5, <2>6, <2>7
<1>7. ASSUME NEW b \in Tabs, StorageEvent(b)
      PROVE  SessionsGiven' /\ [Server!Next]_(Server!vars)
  <2>1. UNCHANGED server /\ held \subseteq held'  BY <1>7 DEF StorageEvent, server
  <2>2. SessionsGiven'  BY <1>7, <2>1, ReadGiven DEF StorageEvent
  <2>3. QED  BY <2>1, <2>2 DEF server, Server!vars
<1>8. ASSUME NEW b \in Tabs, Unheard(b)
      PROVE  SessionsGiven' /\ [Server!Next]_(Server!vars)
  <2>1. <<b, "left">> \in Slots  BY DEF Slots
  <2>2. Server!Next  BY <1>8, <2>1, SameServer DEF Unheard, Server!Next
  <2>3. held \subseteq held'  BY <1>8 DEF Unheard, S!Lose
  <2>4. QED  BY <1>8, <2>2, <2>3, SameGiven DEF Unheard, browser
<1>9. ASSUME NEW s \in Slots, ServerStep(s)
      PROVE  SessionsGiven' /\ [Server!Next]_(Server!vars)
  <2>1. Server!Next  BY <1>9, SameServer DEF ServerStep, Server!Next
  <2>2. held \subseteq held'
    BY <1>9 DEF ServerStep, S!ServerStep, S!SignIn, S!Lookup, S!RevokeFamily, S!Issue, S!Spend
  <2>3. QED  BY <1>9, <2>1, <2>2, SameGiven DEF ServerStep, browser
<1>10. ASSUME NEW t \in 1..Len(tokens), AccessExpires(t)
       PROVE  SessionsGiven' /\ [Server!Next]_(Server!vars)
  BY <1>10, SameGiven DEF AccessExpires, server, Server!vars
<1>11. ASSUME NEW a \in {"active", "disabled", "deleted"}, S!SetAccount(a), UNCHANGED browser
       PROVE  SessionsGiven' /\ [Server!Next]_(Server!vars)
  <2>1. Server!SetAccount(a) /\ held \subseteq held'
    BY <1>11 DEF S!SetAccount, Server!SetAccount
  <2>2. QED  BY <1>11, <2>1, SameGiven DEF browser, Server!Next
<1>12. ~ \E b \in Tabs : Reload(b)  BY DEF Reload
<1>13. QED
  BY <1>1, <1>2, <1>3, <1>4, <1>5, <1>6, <1>7, <1>8, <1>9, <1>10, <1>11, <1>12 DEF Next

\* The browser signed in nowhere yet.
LEMMA BrowserStarts == Init => SessionsGiven /\ Server!Init
BY DEF Init, S!Init, S!NoCall, Server!Init, Server!NoCall, SessionsGiven, Given

\* A browser whose pages are not reloaded asks of the server what SessionTokens'
\* callers ask: it presents tokens it was given, to one open call of a slot.
THEOREM ImplementsTokens ==
  ASSUME "reload" \notin May
  PROVE  Spec => Server!Spec
<1>1. SessionsGiven /\ [Next]_vars => SessionsGiven' /\ [Server!Next]_(Server!vars)
  BY BrowserStep
<1>2. QED  BY <1>1, BrowserStarts, PTL DEF Spec, Server!Spec

\* The invariant SessionTokensProofs shows then holds of it.
LEMMA BrowserTokens ==
  ASSUME "reload" \notin May
  PROVE  Spec => [](Server!Inv /\ SessionsGiven)
<1>1. SessionsGiven /\ [Next]_vars => SessionsGiven'
  BY BrowserStep
<1>2. Server!Spec => []Server!Inv  BY BrowserAssumption, Server!Invariance
<1>3. QED  BY <1>1, <1>2, BrowserStarts, ImplementsTokens, PTL DEF Spec

\* And what it shows of SessionTokens' callers: a session that is over stays
\* over, and a browser that makes its calls one at a time never has two usable
\* tokens of one session.
THEOREM BrowserOneUsable ==
  ASSUME "reload" \notin May
  PROVE  Spec => []Server!OneUsableToken /\ Server!OverForGood
<1>1. Server!Spec => []Server!OneUsableToken  BY BrowserAssumption, Server!OneUsable
<1>2. Server!Spec => Server!OverForGood  BY BrowserAssumption, Server!OverIsFinal
<1>3. QED  BY <1>1, <1>2, ImplementsTokens, PTL

-----------------------------------------------------------------------------
(* Calls made one at a time, by pages that are not reloaded: no token is   *)
(* presented twice, and the session that is kept can be refreshed.  The    *)
(* invariant says, of the one open call, which tokens are still good at    *)
(* each commit of the server; only a call that has revoked the session of  *)
(* localStorage, and whose answer is still out, leaves a bad one there.    *)

OneAtATime == "overlap" \notin May /\ "reload" \notin May

Fresh(t) == t \in 1..Len(tokens) /\ ~tokens[t].revoked

\* At most one call is open.
OneCall == \A s, u \in Slots : calls[s].pc # "idle" /\ calls[u].pc # "idle" => s = u

\* What is open where, and that a refresh finds the session it presented, or
\* none, in localStorage when it ends.
CallsOfTabs ==
  \A b \in Tabs :
    /\ refreshing[b] # 0 <=> calls[<<b, "refresh">>].pc # "idle"
    /\ refreshing[b] # 0 => /\ calls[<<b, "refresh">>].op = "refresh"
                            /\ calls[<<b, "refresh">>].token = refreshing[b]
                            /\ storage \in {0, refreshing[b]}
    /\ calls[<<b, "sign">>].pc # "idle" => calls[<<b, "sign">>].op # "refresh"
    /\ calls[<<b, "left">>].pc = "idle"

\* The tokens a call presents or brings are good until it revokes them.
CallSound(s) ==
  LET call == calls[s]
  IN /\ call.pc # "spent"
     /\ call.pc \in {"found", "issued"} => call.op = "refresh"
     /\ call.pc = "revoking" => call.op = "logout"
     /\ call.op = "refresh" /\ call.pc \in {"sent", "found", "issued"} => Fresh(call.token)
     /\ call.pc = "issued" \/ (call.pc = "done" /\ call.op # "logout") => Fresh(call.made)

\* A refresh or a logout has revoked what it was asked to.
HasRevoked == \E s \in Slots : calls[s].pc = "done" /\ calls[s].op # "signin"

StorageSound ==
  storage # 0 => storage \in 1..Len(tokens) /\ (~tokens[storage].revoked \/ HasRevoked)

UsableInv == OneCall /\ CallsOfTabs /\ (\A s \in Slots : CallSound(s)) /\ StorageSound

\* When no call is open, no refresh is and the session is good.
LEMMA QuietFresh ==
  ASSUME UsableInv, Quiet
  PROVE  /\ \A b \in Tabs : refreshing[b] = 0
         /\ storage # 0 => Fresh(storage)
<1>1. \A b \in Tabs : <<b, "refresh">> \in Slots  BY DEF Slots
<1>2. QED  BY <1>1 DEF UsableInv, Quiet, CallsOfTabs, StorageSound, HasRevoked, Fresh

\* And the other way round.
LEMMA QuietKeeps ==
  ASSUME Quiet', \A b \in Tabs : refreshing'[b] = 0, storage' # 0 => Fresh(storage)'
  PROVE  UsableInv'
<1>1. \A b \in Tabs : <<b, "refresh">> \in Slots /\ <<b, "sign">> \in Slots /\ <<b, "left">> \in Slots
  BY DEF Slots
<1>2. OneCall' /\ CallsOfTabs'  BY <1>1 DEF Quiet, OneCall, CallsOfTabs
<1>3. \A s \in Slots : CallSound(s)'  BY DEF Quiet, CallSound
<1>4. StorageSound'  BY DEF StorageSound, Fresh
<1>5. QED  BY <1>2, <1>3, <1>4 DEF UsableInv

\* A step without the server, that at most clears localStorage.
LEMMA TabKeeps ==
  ASSUME UsableInv, UNCHANGED <<tokens, calls, refreshing>>, storage' \in {storage, 0}
  PROVE  UsableInv'
<1>1. OneCall' /\ CallsOfTabs'  BY DEF UsableInv, OneCall, CallsOfTabs
<1>2. \A s \in Slots : CallSound(s)'  BY DEF UsableInv, CallSound, Fresh
<1>3. StorageSound'  BY DEF UsableInv, StorageSound, HasRevoked
<1>4. QED  BY <1>1, <1>2, <1>3 DEF UsableInv

\* The end of the one open call.
LEMMA EndsQuiet ==
  ASSUME Server!Inv, UsableInv, NEW s \in Slots, calls[s].pc # "idle",
         calls' = [calls EXCEPT ![s] = Server!NoCall]
  PROVE  Quiet'
<1>1. \A u \in Slots : u # s => calls[u].pc = "idle"  BY DEF UsableInv, OneCall
<1>2. calls \in [Slots -> Server!Calls]  BY DEF Server!Inv, Server!TypeInv, Server!TypeOK
<1>3. QED  BY <1>1, <1>2 DEF Quiet, Server!NoCall

\* Sending the one call.
LEMMA SendKeeps ==
  ASSUME Server!Inv, UsableInv, Quiet, NEW b \in Tabs, NEW kind \in {"refresh", "sign"},
         NEW op \in {"refresh", "signin", "logout"}, NEW t, Server!Send(<<b, kind>>, op, t),
         storage' = storage,
         kind = "sign" => op # "refresh" /\ refreshing' = refreshing,
         kind = "refresh" => /\ op = "refresh" /\ t = storage /\ storage # 0
                             /\ refreshing' = [refreshing EXCEPT ![b] = storage],
         refreshing \in [Tabs -> Given]
  PROVE  UsableInv'
<1>1. /\ calls \in [Slots -> Server!Calls] /\ <<b, kind>> \in Slots
      /\ \A x \in Tabs : <<x, "refresh">> \in Slots /\ <<x, "sign">> \in Slots /\ <<x, "left">> \in Slots
  BY DEF Server!Inv, Server!TypeInv, Server!TypeOK, Slots
<1>2. /\ calls' = [calls EXCEPT ![<<b, kind>>] = [op |-> op, pc |-> "sent", token |-> t, made |-> 0]]
      /\ tokens' = tokens
  BY DEF Server!Send
<1>3. /\ \A u \in Slots : u # <<b, kind>> => calls'[u].pc = "idle"
      /\ calls'[<<b, kind>>] = [op |-> op, pc |-> "sent", token |-> t, made |-> 0]
  BY <1>1, <1>2 DEF Quiet
<1>4. (\A x \in Tabs : refreshing[x] = 0) /\ (storage # 0 => Fresh(storage))
  BY QuietFresh
<1>5. OneCall'  BY <1>3 DEF OneCall
<1>6. CallsOfTabs'
  <2>1. \A x \in Tabs :
          /\ <<x, "left">> # <<b, kind>>
          /\ <<x, "sign">> = <<b, kind>> => kind = "sign"
          /\ <<x, "refresh">> = <<b, kind>> <=> x = b /\ kind = "refresh"
    OBVIOUS
  <2>2. ASSUME NEW x \in Tabs
        PROVE  /\ calls'[<<x, "left">>].pc = "idle"
               /\ calls'[<<x, "sign">>].pc # "idle" => calls'[<<x, "sign">>].op # "refresh"
    <3>1. calls'[<<x, "left">>].pc = "idle"
      BY <1>1, <1>3, <2>1
    <3>2. CASE <<x, "sign">> = <<b, kind>>
      <4>1. calls'[<<x, "sign">>].op = op /\ op # "refresh"
        BY <1>3, <2>1, <3>2
      <4>2. QED  BY <3>1, <4>1
    <3>3. CASE <<x, "sign">> # <<b, kind>>
      BY <1>1, <1>3, <3>1, <3>3
    <3>4. QED  BY <3>2, <3>3
  <2>3. \A x \in Tabs :
          refreshing'[x] = IF x = b /\ kind = "refresh" THEN storage ELSE 0
    BY <1>4
  <2>4. ASSUME NEW x \in Tabs
        PROVE  /\ refreshing'[x] # 0 <=> calls'[<<x, "refresh">>].pc # "idle"
               /\ refreshing'[x] # 0 => /\ calls'[<<x, "refresh">>].op = "refresh"
                                        /\ calls'[<<x, "refresh">>].token = refreshing'[x]
                                        /\ storage' \in {0, refreshing'[x]}
    <3>1. CASE x = b /\ kind = "refresh"
      <4>1. calls'[<<x, "refresh">>] = [op |-> op, pc |-> "sent", token |-> storage, made |-> 0]
        BY <1>3, <3>1
      <4>2. QED  BY <2>3, <3>1, <4>1
    <3>2. CASE ~(x = b /\ kind = "refresh")
      <4>1. calls'[<<x, "refresh">>].pc = "idle"  BY <1>1, <1>3, <2>1, <3>2
      <4>2. QED  BY <2>3, <3>2, <4>1
    <3>3. QED  BY <3>1, <3>2
  <2>5. QED  BY <2>2, <2>4 DEF CallsOfTabs
<1>7. \A u \in Slots : CallSound(u)'
  <2>1. CallSound(<<b, kind>>)'
    <3>1. op = "refresh" => Fresh(t)'  BY <1>2, <1>4 DEF Fresh
    <3>2. QED  BY <1>3, <3>1 DEF CallSound
  <2>2. \A u \in Slots : u # <<b, kind>> => CallSound(u)'  BY <1>3 DEF CallSound
  <2>3. QED  BY <2>1, <2>2
<1>8. StorageSound'  BY <1>2, <1>4 DEF StorageSound, Fresh
<1>9. QED  BY <1>5, <1>6, <1>7, <1>8 DEF UsableInv

\* A step of the server on the open call.
LEMMA MoveKeeps ==
  ASSUME UsableInv, UNCHANGED <<storage, refreshing>>, NEW s \in Slots,
         calls[s].pc # "idle", calls'[s].pc # "idle",
         calls'[s].op = calls[s].op, calls'[s].token = calls[s].token,
         \A u \in Slots : u # s => calls'[u] = calls[u],
         CallSound(s)', StorageSound'
  PROVE  UsableInv'
<1>1. \A u \in Slots : /\ calls'[u].pc = "idle" <=> calls[u].pc = "idle"
                       /\ calls'[u].op = calls[u].op /\ calls'[u].token = calls[u].token
  OBVIOUS
<1>2. \A x \in Tabs : <<x, "refresh">> \in Slots /\ <<x, "sign">> \in Slots /\ <<x, "left">> \in Slots
  BY DEF Slots
<1>3. OneCall'  BY <1>1 DEF UsableInv, OneCall
<1>4. CallsOfTabs'  BY <1>1, <1>2 DEF UsableInv, CallsOfTabs
<1>5. \A u \in Slots : CallSound(u)'
  <2>1. ASSUME NEW u \in Slots, u # s PROVE CallSound(u)'
    <3>1. calls'[u].pc = "idle"  BY <1>1, <2>1 DEF UsableInv, OneCall
    <3>2. QED  BY <3>1 DEF CallSound
  <2>2. QED  BY <2>1
<1>6. QED  BY <1>3, <1>4, <1>5 DEF UsableInv

\* Inserting a token spoils none and brings a good one.
LEMMA InsertedFresh ==
  ASSUME Server!Inv, NEW f \in Server!Numbers, NEW s \in Slots, NEW pc \in Server!Phases,
         Server!Insert(s, f, pc)
  PROVE  /\ \A t : Fresh(t) => Fresh(t)'
         /\ Len(tokens') = Len(tokens) + 1 /\ Len(tokens) \in Nat
         /\ \A t \in 1..Len(tokens) : t \in 1..Len(tokens') /\ tokens'[t].revoked = tokens[t].revoked
         /\ calls'[s].pc = pc /\ calls'[s].op = calls[s].op /\ calls'[s].token = calls[s].token
         /\ Len(tokens) + 1 \in 1..Len(tokens') /\ ~tokens'[Len(tokens) + 1].revoked
         /\ calls'[s].made = Len(tokens) + 1
         /\ \A u \in Slots : u # s => calls'[u] = calls[u]
<1>1. Server!TypeOK  BY DEF Server!Inv, Server!TypeInv
<1>2. /\ Len(tokens') = Len(tokens) + 1
      /\ \A t \in 1..Len(tokens) : t \in 1..Len(tokens') /\ tokens'[t] = tokens[t]
      /\ tokens'[Len(tokens) + 1] = [family |-> f, revoked |-> FALSE, expired |-> FALSE, replaced |-> 0]
      /\ calls' = [calls EXCEPT ![s].pc = pc, ![s].made = Len(tokens) + 1]
  BY <1>1, BrowserAssumption, Server!Inserted
<1>3. Len(tokens) \in Nat /\ calls \in [Slots -> Server!Calls]  BY <1>1 DEF Server!TypeOK
<1>4. Len(tokens) + 1 \in 1..Len(tokens')  BY <1>2, <1>3
<1>5. /\ calls'[s].pc = pc /\ calls'[s].made = Len(tokens) + 1
      /\ calls'[s].op = calls[s].op /\ calls'[s].token = calls[s].token
      /\ \A u \in Slots : u # s => calls'[u] = calls[u]
  BY <1>2, <1>3 DEF Server!Calls
<1>6. ~tokens'[Len(tokens) + 1].revoked  BY <1>2
<1>7. \A t : Fresh(t) => Fresh(t)'  BY <1>2 DEF Fresh
<1>8. QED  BY <1>2, <1>3, <1>4, <1>5, <1>6, <1>7

\* Whatever the server does to the open call.
LEMMA ServerKeeps ==
  ASSUME Server!Inv, UsableInv, NEW s \in Slots, Server!ServerStep(s), UNCHANGED browser
  PROVE  UsableInv'
<1>1. /\ Server!TypeOK /\ calls \in [Slots -> Server!Calls] /\ calls[s] \in Server!Calls
      /\ tokens \in Seq(Server!RefreshToken) /\ Len(tokens) \in Nat
      /\ CallSound(s) /\ StorageSound
      /\ UNCHANGED <<storage, refreshing>>
  BY DEF Server!Inv, Server!TypeInv, Server!TypeOK, UsableInv, browser
<1>2. ASSUME calls[s].pc # "idle" PROVE \A u \in Slots : u # s => calls[u].pc = "idle"
  BY <1>2 DEF UsableInv, OneCall
<1>3. ASSUME NEW pc \in {"found", "revoking", "refused", "done"}, Server!To(s, pc)
      PROVE  /\ calls'[s].pc = pc /\ calls'[s].op = calls[s].op /\ calls'[s].token = calls[s].token
             /\ calls'[s].made = calls[s].made
             /\ \A u \in Slots : u # s => calls'[u] = calls[u]
  BY <1>1, <1>3 DEF Server!To, Server!Calls
\* Until the call has revoked something, the session of localStorage is good.
<1>4. ASSUME calls[s].pc \notin {"idle", "done"} PROVE storage # 0 => Fresh(storage)
  BY <1>1, <1>2, <1>4 DEF StorageSound, HasRevoked, Fresh
<1>5. CASE Server!SignIn(s)
  <2>1. calls[s].pc = "sent" /\ calls[s].op = "signin"  BY <1>5 DEF Server!SignIn
  <2>2. CASE account = "active"
    <3>1. Server!Insert(s, Len(tokens) + 1, "done")  BY <1>5, <2>2 DEF Server!SignIn
    <3>2. Len(tokens) + 1 \in Server!Numbers /\ "done" \in Server!Phases
      BY <1>1, <3>1, BrowserAssumption DEF Server!Insert, Server!Numbers, Server!Phases
    <3>3. /\ \A t : Fresh(t) => Fresh(t)'
          /\ calls'[s].pc = "done" /\ calls'[s].op = calls[s].op /\ calls'[s].token = calls[s].token
          /\ Len(tokens) + 1 \in 1..Len(tokens') /\ ~tokens'[Len(tokens) + 1].revoked
          /\ calls'[s].made = Len(tokens) + 1
          /\ \A u \in Slots : u # s => calls'[u] = calls[u]
      BY <3>1, <3>2, InsertedFresh
    <3>4. CallSound(s)'  BY <2>1, <3>3 DEF CallSound, Fresh
    <3>5. StorageSound'  BY <1>1, <1>4, <2>1, <3>3 DEF StorageSound, Fresh
    <3>6. QED  BY <1>1, <2>1, <3>3, <3>4, <3>5, MoveKeeps
  <2>3. CASE account # "active"
    <3>1. Server!To(s, "refused") /\ tokens' = tokens  BY <1>5, <2>3 DEF Server!SignIn
    <3>2. CallSound(s)'  BY <1>3, <3>1 DEF CallSound
    <3>3. StorageSound'  BY <1>1, <1>4, <2>1, <3>1 DEF StorageSound, Fresh
    <3>4. QED  BY <1>1, <1>3, <2>1, <3>1, <3>2, <3>3, MoveKeeps
  <2>4. QED  BY <2>2, <2>3
<1>6. CASE Server!Lookup(s)
  <2>1. calls[s].pc = "sent" /\ tokens' = tokens  BY <1>6 DEF Server!Lookup
  <2>2. calls[s].op = "refresh" => Fresh(calls[s].token)  BY <1>1, <2>1 DEF CallSound
  <2>3. PICK pc \in {"found", "revoking", "refused"} :
          /\ Server!To(s, pc)
          /\ pc = "found" => calls[s].op = "refresh"
          /\ pc = "revoking" => calls[s].op = "logout"
    BY <1>1, <1>6, <2>2 DEF Server!Lookup, Server!Calls, Server!Ops, Fresh
  <2>4. CallSound(s)'
    <3>1. Fresh(calls[s].token) => Fresh(calls[s].token)'
      BY <1>3, <2>1, <2>3 DEF Fresh
    <3>2. QED  BY <1>3, <2>2, <2>3, <3>1 DEF CallSound
  <2>5. StorageSound'  BY <1>1, <1>4, <2>1 DEF StorageSound, Fresh
  <2>6. QED  BY <1>1, <1>3, <2>1, <2>3, <2>4, <2>5, MoveKeeps
<1>7. CASE Server!RevokeFamily(s)
  <2>1. /\ calls[s].pc = "revoking" /\ calls[s].op = "logout" /\ Server!To(s, "done")
        /\ tokens' = tokens \/ tokens' = Server!Revoke(Server!Family(calls[s].token))
    BY <1>1, <1>7 DEF Server!RevokeFamily, CallSound
  <2>2. Len(tokens') = Len(tokens)
    <3>1. CASE tokens' = tokens  BY <3>1
    <3>2. CASE tokens' = Server!Revoke(Server!Family(calls[s].token))
      BY <1>1, <3>2, BrowserAssumption, Server!Revoked
    <3>3. QED  BY <2>1, <3>1, <3>2
  <2>3. CallSound(s)'  BY <1>3, <2>1 DEF CallSound
  <2>4. HasRevoked'  BY <1>3, <2>1 DEF HasRevoked
  <2>5. StorageSound'  BY <1>1, <2>2, <2>4 DEF StorageSound
  <2>6. QED  BY <1>1, <1>3, <2>1, <2>3, <2>5, MoveKeeps
<1>8. CASE Server!Issue(s)
  <2>1. calls[s].pc = "found" /\ calls[s].op = "refresh" /\ Fresh(calls[s].token)
    BY <1>1, <1>8 DEF Server!Issue, CallSound
  <2>2. CASE account = "active"
    <3>1. Server!Insert(s, Server!Family(calls[s].token), "issued")  BY <1>8, <2>2 DEF Server!Issue
    <3>2. Server!Family(calls[s].token) \in Server!Numbers /\ "issued" \in Server!Phases
      <4>1. tokens[calls[s].token] \in Server!RefreshToken  BY <1>1, <2>1 DEF Fresh
      <4>2. QED  BY <4>1 DEF Server!Family, Server!RefreshToken, Server!Phases
    <3>3. /\ \A t : Fresh(t) => Fresh(t)'
          /\ calls'[s].pc = "issued" /\ calls'[s].op = calls[s].op /\ calls'[s].token = calls[s].token
          /\ Len(tokens) + 1 \in 1..Len(tokens') /\ ~tokens'[Len(tokens) + 1].revoked
          /\ calls'[s].made = Len(tokens) + 1
          /\ \A u \in Slots : u # s => calls'[u] = calls[u]
      BY <3>1, <3>2, InsertedFresh
    <3>4. CallSound(s)'  BY <2>1, <3>3 DEF CallSound, Fresh
    <3>5. StorageSound'  BY <1>1, <1>4, <2>1, <3>3 DEF StorageSound, Fresh
    <3>6. QED  BY <1>1, <2>1, <3>3, <3>4, <3>5, MoveKeeps
  <2>3. CASE account # "active"
    <3>1. Server!To(s, "refused") /\ tokens' = tokens  BY <1>8, <2>3 DEF Server!Issue
    <3>2. CallSound(s)'  BY <1>3, <3>1 DEF CallSound
    <3>3. StorageSound'  BY <1>1, <1>4, <2>1, <3>1 DEF StorageSound, Fresh
    <3>4. QED  BY <1>1, <1>3, <2>1, <3>1, <3>2, <3>3, MoveKeeps
  <2>4. QED  BY <2>2, <2>3
<1>9. CASE Server!Spend(s)
  <2> DEFINE t == calls[s].token
             n == calls[s].made
  <2>1. calls[s].pc = "issued" /\ calls[s].op = "refresh" /\ Fresh(t) /\ Fresh(n)
    BY <1>1, <1>9 DEF Server!Spend, CallSound
  <2>2. CASE account = "deleted"
    <3>1. Server!To(s, "refused") /\ tokens' = tokens  BY <1>9, <2>2 DEF Server!Spend
    <3>2. CallSound(s)'  BY <1>3, <3>1 DEF CallSound
    <3>3. StorageSound'  BY <1>1, <1>4, <2>1, <3>1 DEF StorageSound, Fresh
    <3>4. QED  BY <1>1, <1>3, <2>1, <3>1, <3>2, <3>3, MoveKeeps
  <2>3. CASE account # "deleted"
    <3>1. Server!To(s, "done") /\ tokens' = [tokens EXCEPT ![t].revoked = TRUE, ![t].replaced = n]
      BY <1>9, <2>3 DEF Server!Spend
    <3>2. n \in (t + 1)..Len(tokens)  BY <2>1 DEF Server!Inv, Server!TypeInv, Server!CallPlaced
    <3>3. t \in 1..Len(tokens) /\ n \in 1..Len(tokens) /\ n # t /\ ~tokens[n].revoked
      BY <1>1, <2>1, <3>2 DEF Fresh
    <3>4. Len(tokens') = Len(tokens) /\ tokens'[n] = tokens[n]
      BY <1>1, <3>1, <3>3
    <3>5. calls'[s].made = n /\ calls'[s].op = "refresh" /\ calls'[s].pc = "done"  BY <1>3, <2>1, <3>1
    <3>6. CallSound(s)'  BY <3>3, <3>4, <3>5 DEF CallSound, Fresh
    <3>7. HasRevoked'  BY <3>5 DEF HasRevoked
    <3>8. StorageSound'  BY <1>1, <3>4, <3>7 DEF StorageSound
    <3>9. QED  BY <1>1, <1>3, <2>1, <3>1, <3>6, <3>8, MoveKeeps
  <2>4. QED  BY <2>2, <2>3
<1>10. QED  BY <1>5, <1>6, <1>7, <1>8, <1>9 DEF Server!ServerStep

\* The end of a tab's refresh: what it brought is good, and what it did not
\* bring leaves no session, as nobody else can have stored a newer one.
LEMMA RefreshEndKeeps ==
  ASSUME Server!Inv, SessionsGiven, UsableInv, NEW b \in Tabs,
         Refreshed(b) \/ RefreshRefused(b) \/ RefreshLost(b)
  PROVE  UsableInv'
<1> DEFINE s == <<b, "refresh">>
<1>1. s \in Slots /\ refreshing[b] # 0 /\ calls[s].pc # "idle" /\ refreshing \in [Tabs -> Given]
  BY DEF Slots, Refreshed, RefreshRefused, RefreshLost, UsableInv, CallsOfTabs, SessionsGiven
<1>2. calls' = [calls EXCEPT ![s] = Server!NoCall] /\ tokens' = tokens
  BY DEF Refreshed, RefreshRefused, RefreshLost, S!Receive, S!Lose, S!NoCall, Server!NoCall
<1>3. Quiet'  BY <1>1, <1>2, EndsQuiet
<1>4. calls[s].op = "refresh" /\ calls[s].token = refreshing[b] /\ storage \in {0, refreshing[b]}
  BY <1>1 DEF UsableInv, CallsOfTabs
<1>5. \E t : Resume(b, t)
  BY DEF Refreshed, RefreshRefused, RefreshLost, NotRefreshed
<1>6. ASSUME NEW x \in Tabs PROVE refreshing'[x] = 0
  <2>1. CASE x = b  BY <1>1, <1>5, <2>1 DEF Resume
  <2>2. CASE x # b
    <3>1. <<x, "refresh">> \in Slots /\ <<x, "refresh">> # s  BY <2>2 DEF Slots
    <3>2. calls[<<x, "refresh">>].pc = "idle"  BY <1>1, <3>1 DEF UsableInv, OneCall
    <3>3. refreshing[x] = 0  BY <3>2 DEF UsableInv, CallsOfTabs
    <3>4. QED  BY <1>1, <1>5, <2>2, <3>3 DEF Resume
  <2>3. QED  BY <2>1, <2>2
<1>7. CASE Refreshed(b)
  <2>1. storage' = calls[s].made /\ calls[s].pc = "done"  BY <1>7 DEF Refreshed, Write
  <2>2. Fresh(calls[s].made)  BY <1>1, <1>4, <2>1 DEF UsableInv, CallSound
  <2>3. Fresh(storage)'  BY <1>2, <2>1, <2>2 DEF Fresh
  <2>4. QED  BY <1>3, <1>6, <2>3, QuietKeeps
<1>8. CASE ~Refreshed(b)
  <2>1. storage' = 0
    BY <1>4, <1>8 DEF RefreshRefused, RefreshLost, NotRefreshed, Write
  <2>2. QED  BY <1>3, <1>6, <2>1, QuietKeeps
<1>9. QED  BY <1>7, <1>8

\* The end of a sign-in or a sign-out.
LEMMA SignEndKeeps ==
  ASSUME Server!Inv, UsableInv, NEW b \in Tabs, SignedIn(b) \/ SignInFails(b) \/ SignedOut(b)
  PROVE  UsableInv'
<1> DEFINE s == <<b, "sign">>
<1>1. s \in Slots /\ calls[s].pc # "idle"
  BY DEF Slots, SignedIn, SignInFails, SignedOut, S!Receive, S!Lose
<1>2. calls' = [calls EXCEPT ![s] = Server!NoCall] /\ tokens' = tokens /\ refreshing' = refreshing
  BY DEF SignedIn, SignInFails, SignedOut, S!Receive, S!Lose, S!NoCall, Server!NoCall, browser
<1>3. Quiet'  BY <1>1, <1>2, EndsQuiet
<1>4. ASSUME NEW x \in Tabs PROVE refreshing'[x] = 0
  <2>1. <<x, "refresh">> \in Slots /\ <<x, "refresh">> # s  BY DEF Slots
  <2>2. calls[<<x, "refresh">>].pc = "idle"  BY <1>1, <2>1 DEF UsableInv, OneCall
  <2>3. QED  BY <1>2, <2>2 DEF UsableInv, CallsOfTabs
<1>5. CASE SignedIn(b)
  <2>1. storage' = calls[s].made /\ calls[s].pc = "done" /\ calls[s].op = "signin"
    BY <1>5 DEF SignedIn, Write
  <2>2. Fresh(calls[s].made)  BY <1>1, <2>1 DEF UsableInv, CallSound
  <2>3. Fresh(storage)'  BY <1>2, <2>1, <2>2 DEF Fresh
  <2>4. QED  BY <1>3, <1>4, <2>3, QuietKeeps
<1>6. CASE SignInFails(b)
  <2>1. calls[s].op = "signin" /\ storage' = storage  BY <1>6 DEF SignInFails, browser
  <2>2. ~HasRevoked  BY <1>1, <2>1 DEF HasRevoked, UsableInv, OneCall
  <2>3. storage' # 0 => Fresh(storage)'
    BY <1>2, <2>1, <2>2 DEF UsableInv, StorageSound, Fresh
  <2>4. QED  BY <1>3, <1>4, <2>3, QuietKeeps
<1>7. CASE SignedOut(b)
  <2>1. storage' = 0  BY <1>7 DEF SignedOut, Write
  <2>2. QED  BY <1>3, <1>4, <2>1, QuietKeeps
<1>8. QED  BY <1>5, <1>6, <1>7

\* Every step, when calls are made one at a time.
LEMMA UsableStep ==
  ASSUME OneAtATime, Server!Inv, SessionsGiven, UsableInv, [Next]_vars
  PROVE  UsableInv'
<1>1. CASE UNCHANGED vars
  <2>1. UNCHANGED <<tokens, calls, refreshing>> /\ storage' \in {storage, 0}
    BY <1>1 DEF vars, server, browser
  <2>2. QED  BY <2>1, TabKeeps
<1>2. MaySend => Quiet  BY DEF MaySend, OneAtATime, Quiet
<1>3. ASSUME NEW b \in Tabs, NEW r \in Requests, Request(b, r) \/ Answered(b, r) \/ GiveUp(b, r)
      PROVE  UsableInv'
  <2>1. UNCHANGED <<tokens, calls, refreshing>> /\ storage' \in {storage, 0}
    BY <1>3 DEF Request, Answered, GiveUp, Write, server
  <2>2. QED  BY <2>1, TabKeeps
<1>4. ASSUME NEW b \in Tabs, NEW r \in Requests, Refresh(b, r) PROVE UsableInv'
  <2>1. CASE UNCHANGED <<tokens, calls, refreshing>>
    <3>1. storage' = storage  BY <1>4 DEF Refresh, StartRefresh, Rehydrate
    <3>2. QED  BY <2>1, <3>1, TabKeeps
  <2>2. CASE ~UNCHANGED <<tokens, calls, refreshing>>
    <3>1. /\ MaySend /\ S!Send(<<b, "refresh">>, "refresh", storage) /\ storage # 0
          /\ storage' = storage /\ refreshing' = [refreshing EXCEPT ![b] = storage]
      BY <1>4, <2>2 DEF Refresh, StartRefresh, Rehydrate, server
    <3>2. Server!Send(<<b, "refresh">>, "refresh", storage)
      BY <3>1, SameSend DEF Slots
    <3>3. QED  BY <1>2, <3>1, <3>2, SendKeeps DEF SessionsGiven
  <2>3. QED  BY <2>1, <2>2
<1>5. ASSUME NEW b \in Tabs, SignIn(b) \/ SignOut(b) PROVE UsableInv'
  <2>1. <<b, "sign">> \in Slots /\ MaySend /\ UNCHANGED <<storage, refreshing>>
    BY <1>5 DEF Slots, SignIn, SignOut, browser
  <2>2. PICK op \in {"signin", "logout"}, t \in {0, store[b]} : S!Send(<<b, "sign">>, op, t)
    BY <1>5 DEF SignIn, SignOut
  <2>3. Server!Send(<<b, "sign">>, op, t)  BY <2>1, <2>2, SameSend
  <2>4. QED  BY <1>2, <2>1, <2>3, SendKeeps DEF SessionsGiven
<1>6. ASSUME NEW b \in Tabs, StorageEvent(b) PROVE UsableInv'
  BY <1>6, TabKeeps DEF StorageEvent, server
<1>7. ASSUME NEW b \in Tabs PROVE ~Reload(b) /\ ~Unheard(b)
  BY DEF OneAtATime, Reload, Unheard, UsableInv, CallsOfTabs
<1>8. ASSUME NEW s \in Slots, ServerStep(s) PROVE UsableInv'
  BY <1>8, SameServer, ServerKeeps DEF ServerStep
<1>9. ASSUME NEW t \in 1..Len(tokens), AccessExpires(t) PROVE UsableInv'
  BY <1>9, TabKeeps DEF AccessExpires, server
<1>10. ASSUME NEW a \in {"active", "disabled", "deleted"}, S!SetAccount(a), UNCHANGED browser
       PROVE  UsableInv'
  BY <1>10, TabKeeps DEF S!SetAccount, browser
<1>11. QED
  BY <1>1, <1>3, <1>4, <1>5, <1>6, <1>7, <1>8, <1>9, <1>10, RefreshEndKeeps, SignEndKeeps DEF Next

\* UsableInv holds throughout.
LEMMA UsableAlways ==
  ASSUME OneAtATime
  PROVE  Spec => [](UsableInv /\ Server!Inv /\ SessionsGiven)
<1>1. Init => UsableInv
  <2>1. Init => Quiet /\ storage = 0 /\ \A b \in Tabs : refreshing[b] = 0
    BY DEF Init, S!Init, S!NoCall, Quiet
  <2>2. ASSUME Quiet, storage = 0, \A b \in Tabs : refreshing[b] = 0 PROVE UsableInv
    <3>1. \A b \in Tabs : <<b, "refresh">> \in Slots /\ <<b, "sign">> \in Slots /\ <<b, "left">> \in Slots
      BY DEF Slots
    <3>2. OneCall /\ CallsOfTabs  BY <2>2, <3>1 DEF Quiet, OneCall, CallsOfTabs
    <3>3. (\A s \in Slots : CallSound(s)) /\ StorageSound
      BY <2>2 DEF Quiet, CallSound, StorageSound
    <3>4. QED  BY <3>2, <3>3 DEF UsableInv
  <2>3. QED  BY <2>1, <2>2
<1>2. Spec => [](Server!Inv /\ SessionsGiven)  BY BrowserTokens DEF OneAtATime
<1>3. Server!Inv /\ SessionsGiven /\ UsableInv /\ [Next]_vars => UsableInv'
  BY UsableStep
<1>4. QED  BY <1>1, <1>2, <1>3, PTL DEF Spec

\* Calls made one at a time never present a token that was exchanged before,
\* although a tab's store may be out of date and answers are lost.
THEOREM BrowserNeverReuses ==
  ASSUME OneAtATime
  PROVE  Spec => []NeverReused
<1>1. UsableInv => NeverReused  BY DEF UsableInv, CallSound, NeverReused
<1>2. QED  BY <1>1, UsableAlways, PTL

\* Whenever none of them is open, the session in localStorage can be refreshed,
\* whatever answer was lost and whoever signed out in between.
THEOREM BrowserUsable ==
  ASSUME OneAtATime
  PROVE  Spec => []SessionUsable
<1>1. UsableInv => SessionUsable
  BY QuietFresh DEF SessionUsable, Fresh
<1>2. QED  BY <1>1, UsableAlways, PTL
=============================================================================
