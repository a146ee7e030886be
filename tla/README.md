# TruthShield in TLA+

Models, model-checking runs and proofs of TruthShield: of the parts whose
correctness depends on the order in which things happen (the requests, worker
processes, threads, database sessions and browser tabs that share a row, an entry
or a file), and of the pure decisions, whose correctness is a matter of many rules
that meet.

## 1. The system

TruthShield is a FastAPI application (`truthshield/`) with a React client
(`frontend/`). A signed-in user submits text, a link, an email or a file; an
*investigation* runs it through a fixed pipeline of twelve stages and stores a
risk score with its reasons. The older 1.x API analyses a submission in one call,
in a stream of events, or in a queued job, and gives a trust score.

| component | state it keeps | operations | interacts with |
|---|---|---|---|
| Investigation pipeline (`investigations/pipeline.py`, `tasks.py`, `types.py`) | the row's status and current stage, the timeline (`investigation_events`), risk factors, predictions, claims, the result | run, stage begin/end/skip/fail, clean up an interrupted attempt, complete, abort | service (same row), Celery (redelivery), engines |
| Investigation service (`investigations/service.py`, `api/investigations.py`) | investigations and their inputs | create, find a recent duplicate, dispatch, refuse, expire stale runs, reanalyze, delete | pipeline, storage, broker |
| Public identifiers (`investigations/ids.py`) | one counter row per year | next id | service |
| Celery app (`infra/celery_app.py`) | the queue; the cached broker probe | deliver, redeliver, kill at the time limit, probe | pipeline, service, 1.x jobs |
| File intake and storage (`investigations/files.py`, `storage.py`) | temp files, content-addressed files | receive, put, delete | service |
| Account deletion (`services/account.py`) | - | delete everything of a user | service, sessions |
| Sign-in sessions (`services/auth.py`, `api/routes.py`) | refresh-token families, failed sign-ins, one-time codes, accounts and their workspace | issue, rotate, revoke; sign up, sign in, throttle, code | cache, browser |
| Cache (`infra/cache.py`) | Redis, or a dict of each process | get, set, delete | sign-in |
| Browser session (`frontend/src/lib/api.ts`, `stores/auth.ts`) | one session per tab and a shared copy in localStorage | refresh once per tab, adopt another tab's token, sign out | auth routes |
| Reviews (`investigations/reviews.py`) | feedback, appeals, decisions | submit, decide | service |
| Provider resilience (`providers/resilience.py`) | one circuit breaker per provider | call with retries | language models |
| 1.x analysis API (`api/stream.py`, `api/routes.py`, `infra/celery_app.py`, `services/`) | the report's row and its evidence; the events of an open stream | enqueue, run, retry, store; stream | Celery, detectors, verdict engine |
| Evidence retrieval (`infra/evidence/`) | searches under way, the lock and breakers of the web search, the feeds' cache | fan out, collect, stop; search the web; download feeds | verdict engine |
| Evidence memory (`rag/`, `domain/rag/`) | sources, documents and chunks; an index of earlier claims in each process | ingest, curate, search; rebuild | evidence engine |
| Threat feed (`infra/threat_feed.py`, `url_guard.py`) | the entries of a feed file, with its time | look up, reload | URL engine |
| Verdict engine (`domain/verdict/`) | - | decide a claim | evidence engine |
| Fraud detectors (`fraud/`) | - | scan a message, its links, its headers; combine | text and URL engines |
| Analysis engines (`investigations/engines/`, `explain.py`, `interpret.py`, `report.py`) | - | find signals in an input; conclude, advise, report | pipeline |
| Risk engine (`investigations/risk.py`, `risk_config.py`) | - | score signals, attribute points, confidence, abstain | pipeline |
| Detectors and trust (`detectors/`, `services/ingest.py`, `domain/scoring/`) | - | read a submission, run detectors, weigh | 1.x API |
| Middleware, settings, audit, metrics, analytics, pages | none, or only counters | - | - |

### What is hard here

* *Several sessions write one row.* The runner, page views (each may call
  `expire_stale`), uploads and the owner each hold their own database session.
  `SessionLocal` has `expire_on_commit=False`, so a session keeps the values it
  loaded, and a commit writes the columns whose value it changed and no others.
* *Late acknowledgement.* A Celery worker that dies has its task redelivered:
  a run may start over on the remains of another.
* *Nothing supervises in-process runs.* A background task dies with the API
  process; only a timeout, checked when somebody looks, ends the investigation.
* *Check, then act* across commits and cache accesses: duplicates, the first number
  of a year, refresh tokens, counters and codes, open appeals, the last reference
  to a stored file, sources of the evidence store.
* *Threads that do not come back.* The evidence of a claim is asked of a dozen
  sources at once, under a deadline that a first result shortens; the search
  library hangs for ever when two threads use it.
* *Breakers told late.* A circuit breaker is asked before a call and told after it.
* *Rules that meet.* Scores saturate, are capped, floored, rounded apart and shared
  out; a rule about one sign changes what another counts for.

### What makes each component correct

* Pipeline: the timeline is one attempt's, in order; COMPLETED means all of it
  is there; a second attempt leaves no trace of the first; every investigation
  ends.
* Service and identifiers: one submission, one run; a refused one is never run; one
  accepted is handed over; deleting removes everything; no number is reissued.
* Storage: a file exists exactly as long as an investigation refers to it.
* Sessions: a refresh token is exchanged once; after a reuse or a sign-out no
  token of the family works; tabs do not sign each other out.
* Access: guessing wears out; a code signs in once; a user has one workspace.
* Reviews: one open appeal; a decision is final in kind and its reviewer's own.
* Resilience: a thread whose call failed does not call again before the cool-off is
  over, and a provider that is back is used.
* 1.x jobs and streams: a report has the evidence of its own run; an accepted job
  settles; a stream ends with its task.
* Retrieval: a search returns in time whoever hangs; one thread in the library.
* Memory and feeds: no chunk of an earlier content is cited; a curated source stays
  so; one rebuild, one download; a new feed file is loaded.
* Decisions: what is concluded rests on what was found; more that is held against
  something never makes it look better; the numbers shown add up.

`PROJECT.json` lists the hazards with their lines and the properties aimed at
them.

## 2. The modules

| module | models | checked in run | proved in |
|---|---|---|---|
| `InvestigationLifecycle`, abstract `Timeline` | one investigation and all who write it (section 3) | `lifecycle`, `lifecycle_liveness`, `summary_columns` | `InvestigationLifecycleProofs` |
| `SessionTokens` | refresh tokens of one account (section 4) | `request_handling` | `SessionTokensProofs` |
| `BrowserSession` | the tabs of a browser, composed with `SessionTokens` (section 4) | `browser_tabs`, `browser_one_at_a_time`, `browser_lost_race` | `BrowserSessionProofs` |
| `FileStore` | uploads, reanalysis, deletion, account deletion over stored files (section 5) | `file_store`, `referenced_file` | `FileStoreProofs` |
| `Intake` | duplicates, numbers, hand-over to the queue (section 6) | `request_handling` | `IntakeProofs` |
| `Reviews` | feedback, appeals, decisions (section 6) | `request_handling` | `RequestHandlingProofs` |
| `AccountAccess` | sign-up, sign-in, one-time codes over the cache (section 6) | `request_handling`, `background_work` | `RequestHandlingProofs` |
| `EvidenceStore` | ingestion and curation of sources (section 6) | `request_handling` | `RequestHandlingProofs` |
| `FactCheckFeeds` | the cache of fact-check feeds (section 6) | `request_handling` | `RequestHandlingProofs` |
| `CircuitBreaker` | breaker and retries of a provider (section 7) | `background_work` | `BackgroundWorkProofs` |
| `AnalysisJobs`, `AnalysisStream` | queued and streamed 1.x analyses (section 7) | `background_work` | `BackgroundWorkProofs` (`AnalysisJobs`) |
| `EvidenceSearch` | the fan-out over sources (section 7) | `background_work` | `BackgroundWorkProofs` |
| `WebSearch` | the threads that search the web (section 7) | `background_work` | `BackgroundWorkProofs` |
| `ThreatFeed`, `ClaimMemory` | two files or tables kept in memory and reloaded (section 7) | `background_work`, `claim_memory` | `BackgroundWorkProofs` |
| `VerdictEngine`, `ClaimAssessment` | a claim and its evidence (section 8) | `request_handling` | `DecisionProofs` |
| `RiskScore`, `FraudSigns`, `FileSigns`, `InvestigationSigns`, `Conclusions` | signals, what finds them, what is told of them (section 8) | `request_handling`, `displayed_points` | - |
| `TrustScore` | the 1.x trust of a submission (section 8) | `request_handling` | - |

The decision modules build on one another by EXTENDS, the way the code calls:
`ClaimAssessment` on `VerdictEngine`; `Conclusions` and `TrustScore` on
`InvestigationSigns`, that on `FileSigns`, that on `FraudSigns`, that on
`RiskScore`. `MCDecisions` extends `ClaimAssessment`, instantiates the others, and feeds
them all. `BrowserSession` instantiates `SessionTokens` with the calls of its tabs.

**Two runs check many machines.** `MCRequestHandling` and `MCBackgroundWork` put
machines with disjoint variables in one specification: the first state chooses the
machine that runs, and the others stay where they start. Their interleavings would
add states and show nothing, because they share no variable; the interactions that
matter are inside a machine. `MCRequestHandling` holds the machines of
requests over shared rows, checked for safety only; `MCBackgroundWork` those where
something has to happen in the end, with their fairness.

Whether requests of a machine may overlap is chosen in its first state too
(`overlap`, `together`, `apart`, `singly`, `inTurn`). Where the code reads, decides
and writes without a lock, what it promises holds for requests that come one
at a time, each cut off anywhere, and the properties say so; those without such a
premise hold for all.

Bounds throughout: two or three processes of each kind (one suffices where the
property is about a pair of different kinds), one or two items, and one
repetition of whatever may repeat. Each is named in the cfg.

## 3. InvestigationLifecycle

One investigation, from the commit of `create_investigation` to the end of
every process that may write it.

### State

| variable | code |
|---|---|
| `row`, `present` | the row of `investigations`: status, current_stage, error, result, summary columns (`scored`) |
| `events` | its `investigation_events` |
| `stored` | which attempts have stored risk factors, predictions and claims |
| `executor` | where this investigation runs: `INVESTIGATION_EXECUTOR`, or inline on the `/analyze` routes |
| `request` | the submitting request: created, dispatched, refusing, refused, died |
| `task`, `deliveries` | the message in the broker (or the background task), how often it was started |
| `runner` | `InvestigationRunner`: where it is, the stage, the recorder's `seq`, its session's copy of the row (`mem`) |
| `loaded` | rows that page views and uploads hold between their read and their commit |
| `age` | minutes since creation, since `started_at`, since the runner began, saturating |

`result` and `scored` hold the number of the attempt that wrote them, which is
all the properties need to tell values apart. `Flush(db, mem, new)` is the
UPDATE a commit emits: a column is written only if the session changed it.

### Actions

| action | code |
|---|---|
| `Dispatch`, `DispatchRaises`, `RecordRefusal` | `service.dispatch`, `_dispatch_or_fail`; `delay()` may raise after the broker took the message |
| `RejectType`, `MisrouteSelect`, `MisrouteCommit` | `_analyze_file_inline` on a new row, and on the existing row `recent_duplicate` returned |
| `Begin`, `ClearPartialAttempt` | `InvestigationRunner.run`, `_clear_partial_attempt` |
| `EnterStage`, `EndStage`, `Store`, `FailStage`, `LoseStage` | `EventRecorder.stage` around each stage of `_execute`; `Store` is STORAGE; `LoseStage` is a commit that raises |
| `Abort`, `Complete`, `Return` | the end of `_run` |
| `WorkerLost`, `TimeLimitHit`, `ApiRestart` | a dead worker (message goes back), Celery's hard limit (message acknowledged), a restarted API |
| `SweepSelect`, `SweepCommit` | `expire_stale`, called by a page view of a row that is not terminal. `find` reads the row and `expire_stale` selects it again; only the second read decides, so it is the one modelled |
| `Delete` | `service.delete`: the foreign keys cascade |
| `Tick` | time |

What the engines compute is abstracted to how a stage ends: completed, skipped
(only the four stages whose body can raise `StageSkipped`), failed, or lost with
its commit. The evidence thread overlaps two stages but its result is collected
at its own stage and touches no shared row, so it adds no step here. Celery's
eager mode is the inline executor.

### Properties and runs

| run | bounds | shows |
|---|---|---|
| `lifecycle` | in process and over Celery, one sweeper, one misrouted upload, two deliveries | `TimelineInOrder`, `CompletedIsWhole`, `ArtefactsMatchResult`, `ProgressIsLive`, `CompletedRecordKept`, `FailureIsFinal`, the inductive invariant `IInv` |
| `lifecycle_liveness` | all three executors, two deliveries, a stage that may be skipped | `EventuallySettled`, and `ImplementsTimeline`: the refinement of `Timeline` |
| `summary_columns` | Celery, two deliveries | refutes `SummaryMatchesResult`; see Findings |

Two deliveries are enough for one attempt to run into the remains of another;
a third would meet what the second met. One sweeper and one misrouted upload
suffice because each keeps a row between its read and its commit and so plays
against the runner; two sweepers write the same values. All timeouts are 1: what
matters is which of the ages has passed its limit, and with saturating ages every
combination is reached. The proofs cover all other values.

Stages that may be skipped differ from others only in one event, so one of the four
is enough, in the run that has the refinement.

`ProgressIsLive` speaks of runs in process only. After a redelivery it does not
hold: `_clear_partial_attempt` refreshes the session, a late refusal or sweep may
have made the row FAILED by then, and a status the session did not load as
running is overwritten differently. The status shown in that window is wrong
until the next stage whose status differs.

### Fairness

`EventuallySettled` assumes weak fairness of time, of a started runner's own
steps, of the hard limit, of the refusing request and of the page views; strong
fairness of a sweep's commit, because a page view takes milliseconds and
restarts do not cut off every one of them. Nothing obliges the broker to deliver,
a worker to take the task, or a process to survive. The page views are the
polling of the result page, for which `find` calls `expire_stale`; without anybody
looking, a dead run stays in its running status, as the code intends.

### Proved

`InvestigationLifecycleProofs` proves, for every set of executors, sweepers and
uploads, every timeout and every number of redeliveries (assumption:
`ConstantsAssumption`):

* `RecordFitsRunner` - the inductive invariant `IInv`;
* `TypeCorrect` - from `TypeInv`, which adds to `TypeOK` that a runner at work has
  stages left;
* `TimelineOrdered`, `CompletedWhole`, `ArtefactsOnce` - the safety invariants;
* `ProgressShown` - `ProgressIsLive`;
* `RecordKept`, `FailureFinal` - the action properties;
* `Refinement` - the specification implements `Timeline`.

None of the invariants is inductive: that COMPLETED means a whole record depends
on what the runner has stored when it gets to its last commit, and that on what a
session of an earlier attempt may still write. `IInv` adds where the runner is
relative to the timeline (`RunnerPlaced`), that an attempt's number is new
(`AttemptsNumbered`), what the row and the session hold of the result
(`ResultOfAttempt`), that a result has its artefacts (`ResultBacked`) and that a
run in progress is not shown COMPLETED (`UnfinishedRun`). The step proof has one
lemma per runner action; the steps of other requests share `OtherCommit`, which
says that they change the status and the error and never complete anything.
`FailureFinal` needs no invariant.

`ProgressShown` needs an invariant of its own, `ProgressInv`. That the row shows the
stage the runner is in depends on three things other than the row: no request holds a
failed row (`CopiesUnfailed`), so that whoever writes the row makes it FAILED or leaves
it; the task is queued once, and its run begins on a row without a stage (`OnlyRun`);
and the runner's session holds the stage it entered last (`SessionInStage`), so that
every stage entered changes the session's stage and is written. Then the row agrees with
the session or shows no running status (`RowInStep`).

Only model-checked: `EventuallySettled` (liveness is beyond the prover), and the
refuted `SummaryMatchesResult`.

## 4. SessionTokens and BrowserSession

### SessionTokens

The refresh tokens of one account on the server. A call holds no lock between
its commits, so every read and every commit is an action.

| variable | code |
|---|---|
| `tokens` | the rows of `refresh_tokens`, numbered in order of insertion: family, revoked, expired, replaced_by_id |
| `account` | the user: active, disabled, deleted (the cascade takes the tokens: `Known`) |
| `calls` | the open call of each caller and where `signin`, `refresh` or `logout` is with it |
| `held` | tokens a caller was given the raw value of; only these are presented |

| action | code |
|---|---|
| `Send`, `Receive`, `Lose` | a request, its answer, and a server or connection that goes away anywhere within it |
| `SignIn` | `_session_tokens`: a token of a new family |
| `Lookup` | the query and the checks of `rotate_refresh_token`, and the query of `revoke_refresh_token` |
| `RevokeFamily` | `revoke_family`, after a spent token or for a sign-out |
| `Issue`, `Spend` | the two commits of a rotation |
| `Expire`, `SetAccount` | time; an administrator or the owner |

A rotation commits the new token before it revokes the old one. Two calls that
overlap can therefore both exchange a token, although the docstring of
`rotate_refresh_token` says single use, and a rotation that passed its checks
before a sign-out issues a token into the revoked family. Both need two calls
within milliseconds, and no run is spent on them. What the code does guarantee is
checked in `request_handling`, with two interchangeable callers and three tokens:

* `OverForGood`: once no token of a family can be exchanged and no exchange is past
  its checks, none becomes usable again, whatever overlaps;
* `ReplacementsLeadForward`: `replaced_by_id` leads from spent tokens to younger ones
  of their family;
* `OneUsableToken`: with one call at a time, wherever it is cut off, no caller is left
  with two usable tokens of a session.

Two callers are enough for any pair of calls to interleave at every commit; three
tokens let a token be exchanged, its successor be exchanged, and another family
or a second successor exist beside them.

### BrowserSession

The tabs of one browser. `S == INSTANCE SessionTokens` with `Callers <- Slots`:
each tab can have a refresh and a sign-in or sign-out open, and a page that was
reloaded leaves its refresh running at the server (slot `"left"`). A reload in
the middle of a sign-in or sign-out, and a second reload while the first page's
refresh still runs, are left out.

| variable | code |
|---|---|
| `storage` | the session in localStorage (`ts.session`), named by its refresh token |
| `store` | `useAuth` of each tab |
| `refreshing` | the module's `refreshing` promise, by the token it presented |
| `requests` | calls of `request()`: the session they carry, whether they were retried |
| `event` | tabs the browser has a storage event for |
| `stale` | sessions whose access token has expired |

JavaScript runs to completion, so what follows an awaited answer up to the next
`await` is one step: `Refreshed`, `RefreshRefused` and `RefreshLost` end the
promise and resume every request that waits for it, `Refresh` joins it or starts
one after rehydrating the store, `GiveUp` is the final 401. `SignIn`, `SignedIn`,
`SignOut`, `SignedOut` are the Login page and the shell's menu; `StorageEvent`
is the listener of `stores/auth.ts`.

The constant `May` names what happens in a run: calls of different tabs that
overlap at the server, lost answers, reloads, sign-outs, changes to the account.

| run | bounds | shows |
|---|---|---|
| `browser_tabs` | two tabs, two tokens, overlap, reload, an account that is disabled or deleted | `TabsAgree` |
| `browser_one_at_a_time` | two tabs of two requests, two requests open at once, three tokens, lost answers, sign-out, calls that do not overlap | `NeverReused`: no spent token is presented, although a tab's store may be out of date and answers are lost; `SessionUsable`: the session kept can be refreshed; `RequestsEnd`: a request comes to an end, whether it was retried or not |
| `browser_lost_race` | two tabs, three tokens, overlap | refutes `SessionUsable` |

`SessionUsable` and `NeverReused` need calls that do not overlap: with two tabs in
the middle of a refresh the loser presents a spent token and the server revokes
the family, the winner's token included. `NeverReused` is about an answer that is
lost, too: the tab then ends its session rather than try the token again.

`FairSpec` assumes weak fairness of the server (it goes on with the calls it has
begun), of a tab whose refresh has its answer, and of a request that has been sent.
An answer need not be lost: a request that was retried, or whose refresh can begin,
must get on by itself, and only one that other calls keep from its turn fails as a
fetch does in the end. Nothing obliges a user to do anything, a storage event to
arrive, or an access token to expire. `RequestsEnd` makes one exception: while a call
that needs a token stands at the bound (`AtBound`), the model cannot issue it. With
three tokens a session is signed in to, refreshed and refreshed again, so requests are
retried, find the retry's token expired, and join the refresh of another before any
call meets the bound. That retries are bounded at all is `retried`, one retry per
request; with finitely many tokens the run says nothing of a request retried without
end. `MCBrowserSession` states the property of one request, as tabs and requests are
interchangeable.

### Proved

`SessionTokensProofs`, for any callers and number of tokens: `TypeCorrect`,
`ReplacementsForward`, `OverIsFinal`, `OneUsable`. The invariant adds to `TypeOK`
what an open call knows of the tokens it names: the token it presented exists, the
one it made is younger and of the same family, and a family's name is its first
token (`Inv`). `OverIsFinal` follows from it step by step (`OverStep`): only `Issue`
adds a token to a family, and its call is one of `Exchanging`. `OneUsable` needs an
invariant of its own (`OneInv`): with one call at a time, the token being exchanged
is the only usable one of its family in a caller's hands, and a token about to be
handed over has no usable rival there.

`BrowserSessionProofs`, for any number of tabs, requests and tokens:

* `TabsAlwaysAgree`.
* `ImplementsTokens`: the browser implements `SessionTokens`, instantiated as `Server`
  with a caller for each call a tab can have open. The step proof is by the actions of
  the browser; what it needs to know is that a tab presents tokens the browser was given
  (`SessionsGiven`). It is stated without reloads: a page that is reloaded leaves its
  call to go on in another slot, which is no step of a caller. `BrowserOneUsable` then
  holds of the browser because `OneUsable` and `OverIsFinal` hold of `SessionTokens`.
* `BrowserNeverReuses`, `BrowserUsable`: `NeverReused` and `SessionUsable` for calls made
  one at a time by pages that are not reloaded (`OneAtATime`), as in
  `browser_one_at_a_time`. Overlapping calls refute `SessionUsable` (`browser_lost_race`),
  and the call of a page that was reloaded overlaps the next. The invariant (`UsableInv`)
  says of the one open call which tokens are still good after each commit: up to `Spend`
  the token it presented, from `Issue` on the one it made. LocalStorage holds a revoked
  token only while a call that revoked it has its answer still out, and that answer
  replaces or clears it.

## 5. FileStore

Uploaded files and the investigations that refer to them. Storage is
content-addressed, so a key stands for a content and investigations of one
content share a file. No transaction spans the database and the directory: each
query, each commit and each access to the file system is an action.

| variable | code |
|---|---|
| `users` | accounts, each with the one workspace sign-up gives it |
| `rows`, `created` | investigations over files with owner and storage key; the counter of `ids.py` |
| `recent` | those `recent_duplicate` may return: within its window and not FAILED |
| `files` | the storage directory |
| `calls` | the open call of each caller: upload, reanalysis, deletion, account deletion |
| `overlap` | whether calls may be open at the same time, chosen in `Init` |
| `leaked` | history: keys whose call was cut off while in charge of them, or whose investigation went with its workspace |

| action | code |
|---|---|
| `Upload`, `PutLook`, `PutEnd` | `files.receive`, `LocalStorage.put` (its look and its move or removal are two steps). The temporary file is the call's own and is left out; a rejected upload leaves nothing |
| `FindDuplicate`, `Insert` | `create_file_investigation`; `Insert` is also the end of `reanalyze`. It fails on the foreign keys when the account is gone |
| `Reanalyze`, `CheckFile` | `reanalyze`. The run it repeats is over; which of the rows are is left open |
| `Delete`, `DeleteCommit`, `Count`, `Unlink` | `service.delete`: read the keys, commit, count references, remove the file |
| `DeleteAccount`, `DeleteNext`, `DeleteUser` | `delete_account`: read the investigations once, delete each as above, then the workspace and the user; the workspace's cascade takes investigations created meanwhile |
| `Crash` | the server process dies anywhere within a call |
| `WindowPasses` | the duplicate window ends, or the run fails |

`AccountDeletionBlocked` cannot occur (no route adds a second member to a
workspace), and the 1.x reports go in one statement.

| run | bounds | shows |
|---|---|---|
| `file_store` | two callers, two users, two contents, three investigations | `NoFileLeftBehind` under any overlap; `FilesOutliveReferences` and `NothingLeftToCascade` when calls do not overlap, wherever they are cut off; the inductive `IInv` |
| `referenced_file` | two callers, one user, one content, two investigations | refutes `ReferencedFileStored` |

Two callers let every pair of calls interleave. Three investigations allow two
that share a file and one that does not, two users one who is deleted while the
other refers to the same content.

### Proved

`FileStoreProofs`, for any callers, users, contents and number of investigations:
`Invariance` (the inductive invariant), `TypeCorrect`, `NoneLeftBehind`,
`NoneGoneTooEarly`, `AccountEmptied`. The inductive `IInv` adds to the properties what a call knows: its key (`KnownKey`),
that the investigation it read has that key as long as it exists (`RowSeen`), and
for calls that do not overlap (`SerialInv`) that there is one call, whose looks at
the directory and counts of references still hold (`StillSo`). `NoFileLeftBehind`
needs only the first two: the last deletion to commit counts no reference, and
whoever moved or found the file in place is in charge of it until its commit.

## 6. Requests over shared rows (`request_handling`)

`MCRequestHandling` checks these with `SessionTokens` (section 4) and the decisions
(section 8). No fairness: everything here is safety.

### Intake

| variable | code |
|---|---|
| `rows` | committed investigations of one content: number, status, within the duplicate window, handed over, deleted |
| `counter`, `holder` | the year's `investigation_counters` row, and the transaction that has written it |
| `opening` | the open request of each submitter |
| `broker`, `probe` | the broker, and what `broker_reachable` remembers of it |

`Post`, `LookForDuplicate`, `UpdateCounter`, `CreateCounter`, `CommitRow`, `AskProbe`,
`Enqueue`, `ProbeAgain`, `DispatchFailed` follow one request through
`create_investigation` or `reanalyze`, `next_public_id` and `_dispatch_or_fail`;
`StopRequest` cuts it off anywhere. PostgreSQL holds a written row until the
transaction ends; that is what makes the loser of the first number wait. Bounds: two
submitters, two investigations, three rounds.

`IntakeInvariant`: `NumbersNeverReused` (deletions included), `NumberFound` (the
`RuntimeError` after the last round is never raised), `NothingStranded` (whatever
the probe remembered, an investigation that nobody is working on is handed over or
failed, unless a process stopped in between). `SubmittedOnce`: for requests one at a
time, one investigation per window. For requests that overlap it does not hold:
nothing locks the look and the commit.

### Reviews

The rows of `investigation_reviews` of one investigation and the open request of each
person. `GiveFeedback`, `Appeal` and `TakeUp` are the reads, `CommitReview`,
`CommitReplacement` and `Decide` the commits; a commit writes the columns whose
assigned value differs from the loaded one, which is why a replacement of feedback does
not undo a decision (`DecidedForGood`, overlapping or not). `ReviewsInvariant`, one at
a time: `OneOpenAppeal`, `OneFeedbackEach`, `DecisionAttributed`. `AccountLeaves` is the
deletion of an author's or a reviewer's account: both columns become NULL, a decision
stays without whoever made it, and a commit that would write the id of somebody who is
gone fails on the foreign key. Bounds: two people, two rows; the labels "legitimate" and "inconclusive" are treated alike by the code.

### AccountAccess

One address: its `users` row and workspaces, the failure counter and the one-time code
in the cache, which is Redis or a dict of each server. Every cache access and every
commit is an action; `together` allows overlap. `AccessInvariant`, one at a time:
`FailuresBounded`, `CodeSignsInOnce`, `OneWorkspace`. Checked in this run with calls one
at a time, two servers and both kinds of cache. Overlapping guesses are counted once
and may write back an older count; what then still holds is `GuessingWearsOut`,
checked in `background_work`: wrong passwords (or codes) cannot be answered for ever
without the address being locked (the code used up) or the entry having run out.

### EvidenceStore, FactCheckFeeds

`EvidenceStore` follows one document and its source: a check of a claim searches the
store, then the web, and ingests what it finds in one transaction, on what its session
has read before. `StoreInvariant`: chunks are of the content the document has now, of
one model (`ChunksAreOfContent`); a curated rating is an administrator's
(`CurationKept`); both where ingests and curations take turns (`inTurn`), since nothing
locks them. In every run a document has a source and a chunk of its content.

`FactCheckFeeds` is the feeds' cache in `retriever.py`: looked at without the lock, again
under it. `FeedsInvariant`: whoever downloads does so because the entries are too old,
and alone (`OneDownload`). Three readers, three downloads.

### Proved

* `IntakeProofs`: `IntakeSafe`, `OnceEach`. `NumbersNeverReused` follows from
  `CounterCounts`: the counter is the number of rows ever committed, because it is
  rolled back with them, and a row's number is its place. `NumberFound` needs where a
  request is relative to the counter (`Placed`): a request that goes round has seen
  the row created, so the next UPDATE finds it; two rounds suffice, and the assumption
  is `MaxRounds` of at least 2. `SubmittedOnce` needs `LookedAlone`.
* `RequestHandlingProofs`:
  * `ReviewsSafe`, `Decided`, for any people, accounts deleted meanwhile. The invariant
    (`ReviewsInv`) adds what an open request saw and that it still holds (`DeskFits`):
    of the decision it read only the label surely does, because the account of whoever
    made it may be gone.
  * `AccessSafe`, for any clients, servers and limits (assumption: there is a server).
    With requests one at a time, what the open one has read still holds of the store it
    was read from (`ReadHolds`): a count, a code, or that there is no workspace. A code is
    in one store at most, and in none once it has signed somebody in (`CodesOnce`); no
    wrong password is answered that was not counted (`Counts`).
  * `StoreSafe`, for any checks and contents. Where ingests and curations take turns, what
    the one under way has read is what there is (`TakingTurns`). What is left from before a
    change of the embedding model is replaced as a whole (`OldReplacedTogether`), which
    needs no turns: until then every ingest under way has read all of it.
  * `FeedsSafe`. The lock has one holder.

## 7. What has to happen in the end (`background_work`)

| module | bounds | checked | fairness, and why |
|---|---|---|---|
| `CircuitBreaker` | three threads, threshold 3, three attempts | `BreakerInvariant`: the count agrees with the time of opening; a thread whose call failed in the open window does not call again in it. `ProviderUsedAgain` | time passes; threads go on calling (the property is void otherwise); strong fairness of an answer: a provider that is up does not leave every call without one |
| `AnalysisJobs` | four runs, two retries | `JobsInvariant`: the evidence of a complete report is its run's; an accepted job is settled or still in the queue. `JobSettles` | a worker takes the message and goes on; workers are lost while the bound on runs allows another |
| `AnalysisStream` | three suspensions, two claims | `StreamEnds`, in `WorkEnds` | the event loop runs what is ready; the client may leave and need not read |
| `EvidenceSearch` | four sources: one that answers well, one with much that is weak, one with little, one with nothing; deadline 4, retry limit 2 | `SearchInvariant`: over by the deadline (`EndsOnTime`), one second between all stragglers (`OneGraceForAll`). `SearchEnds`, in `WorkEnds` | time passes, the search's own steps; no source need answer |
| `WebSearch` | two threads, two engines, threshold 2 | `WebInvariant`: one thread in the library; an engine is not skipped before as many failures were reported as the threshold asks for, and no report counts more than there were. `SearchesEnd`, in `WorkEnds` | each thread's own steps; a thread in the library need not come back |
| `ThreatFeed` | two lookups, three versions | `NewFileIsLoaded` | addresses are looked up, and the check ages |
| `ClaimMemory` | two analyses, two reports | `MemoryInvariant`: one rebuild at a time, and only of an old index | - |
| `AccountAccess` | overlapping requests, Redis | `GuessingWearsOut` | - |

The breaker's count saturates at the threshold, because nothing else reads it. Three
threads with three attempts let a success of a call that began before the failures be
told between them, and threads of the window before meet the one now open. In
`AnalysisJobs` `jobFaults`, chosen at the start, says what fails besides workers: a
commit, the hard limit, the broker after its probe. `AcceptedNotLost` and `JobSettles`
say of which failures they speak; with a failed commit or the hard limit a row may stay
"queued" for ever. In `EvidenceSearch` time is counted in seconds and passes only while
the search waits; an answer is the number of relevant and strong items. In `WebSearch`
the two dictionaries of the breaker have no lock: every read and every write of one is a
step of its own, a thread keeps the count it read until it writes it, and `failed`, which
the code does not store, counts what was reported. So an engine that has just answered may
be left open with a count of 0 (a failure writes its count, a success pops both entries,
the failure opens), which `SkippedForCause` allows: it promises only that failures are
never made up. Counts beyond the threshold are compared with nothing else and stand as the
threshold.

`claim_memory` refutes `ScoresAreTheirs`; see Findings.

### Proved

`BackgroundWorkProofs`, machine by machine:

* `BreakerSafe`, for any threads, threshold and attempts. The invariant adds that only the
  window now open burns a thread, and that a thread waiting for its retry has an attempt
  left (`Paid`). Without the first a thread burned in an earlier window could
  still be on its way to a call.
* `JobsSafe`, for any number of runs and retries. The invariant adds where the task is
  relative to its message (`Delivered`): a run has a message that a worker took, and
  without a failed commit or the hard limit a run that is over has settled the row.
* `SearchSafe`, for any finite set of sources, whatever they yield, and any deadline and
  retry limit. The invariant adds that the search is never asleep past the limit it
  computed (`Timely`), whichever of the deadline, the grace and the retry that is; the
  lemmas on `Number` say how an answer adds to what was found.
* `WebSafe`, for any threads, engines and threshold of at least 2. The invariant (`WebInv`)
  says of the dictionaries what `SkippedForCause` does (`Dictionaries`), and of a thread in
  the middle of a check or a report that what it has read was justified (`ReadFits`): who
  found an entry, or is about to write one, saw the threshold reached. It stays true
  because reported failures stay reported, whatever others write in between.
* `ThreatSafe`: one lookup reloads at a time, and entries are never remembered as newer
  than they are (`ThreatTypeOK`, stated by no run: it is what makes a new file be loaded).
* `MemorySafe`, for any analyses and reports. Between two rebuilds the embeddings are those
  of the claims (`Rebuilt`).

## 8. Decisions (`request_handling`, `displayed_points`)

Functions without state, checked over inputs that grow: a *dossier* is what a decision
is about and the items found so far; each step adds one of a fixed set of items, up to
three (two in `displayed_points`), so that every sequence of items is met and a property
can compare a decision with the one before the last item (`MoreNeverLess`). Texts, pages
and pictures are records of what the rules tell apart in them; similarities, scores and
shares are integers of the code's precision.

| kind of dossier | module | items | properties |
|---|---|---|---|
| claim | `VerdictEngine`, `ClaimAssessment` | pieces of evidence: their words in common with the claim, stance, credibility, rating, publisher | `ClaimsJudged`: a directional verdict has an evidentiary base (`RestsOnEvidence`); an item that comes to deny the claim never makes it true (`DebunkingCounts`); a decided claim shows a credible source that argues so (`ReliesOnSources`); a contradiction raises a signal (`ContradictionIsSignalled`) |
| risk | `RiskScore` | signals of a family, severity and weight, under a deployment's own weights and thresholds | `PointsAreTheScore`, `ConfidenceIsEarned`; `SignalsOnlyAdd` |
| scan | `FraudSigns` | patterns, links, headers of a message | `AuthenticationNeverClears`, `OneSignIsNoProof`, `SignInPagesAreFine`; `SignsOnlyAdd` |
| case, file | `InvestigationSigns`, `FileSigns`, `Conclusions` | the same with techniques, sentences, pages, QR codes, and an engine that fails | `SignalsCountOnce`, `NothingFoundIsEarned`, `CodesAreExamined`, `BreadthFlags`, `ConclusionsAgree`, `ReportBearsOut`; `InputsOnlyAdd` |
| reading | `Conclusions` | sentences of a language model | `ReadingIsGrounded` |
| trust | `TrustScore` | checked claims of a 1.x submission, on servers with fewer libraries | `NothingCheckedNoVerdict`, `DialAgrees`, `MissingSaysNothing`; `FalsehoodOnlyAdds` |

`RisksScored` and `MoreNeverLess` collect those of all kinds but the first. Where a
logarithm or a root decides only how something is shared (the risk among families),
any split stands for it and the property is checked for several.

The bounds: three items meet every pair of rules and a third sign beside it. What the
items are is chosen so that each rule fires, and each threshold is met from both
sides by some combination. Sampling remains: the set of items is a selection.

`Shown` is the number of sources an investigation displays (2 in the cfgs).

### Proved

`DecisionProofs` proves what is said of a claim, for any finite vocabulary, any claim
over it, any list of evidence and any number of sources on display (assumption: `Shown`
is a natural number), so for words, similarities and lengths of lists that no run has.

* `VerdictsRest` (`RestsOnEvidence`). The totals for and against are sums of what each
  item's stance weighs, so they are numbers (`WeighedType`), and a decision taken on them
  has its side not thin (`DecisionRests`, `NotThin`).
* `DebunkingNeverHelps` (`DebunkingCounts`). The item that comes to deny the claim changes
  its own stance only (`DebunkedStances`): it moves to the other side. The side it leaves
  gets no heavier and the other no lighter (`WeighedMonotone`), and a side that was thin
  stays so when it loses an item (`ThinMonotone`); so where the decision is taken with the
  denial, it is taken without it.
* `DecisionsRelyOnSources` (`ReliesOnSources`), for evidence of any kind: the assessment is
  withdrawn where no displayed source carries it.
* `ContradictionsAreSignalled` (`ContradictionIsSignalled`): no verdict FALSE of the rules
  has a confidence below the one a signal asks for (`FalseIsCertain`).
* `ClaimsAlwaysJudged`: `DecisionsSpec => ClaimsJudged`, from the four, for any `MaxItems`.
  The invariant is that a dossier on a claim consists of items found (`DossierType`);
  `Inputs` shows that the run's claims and items are such as the theorems are about.

The sums are those of the community modules, whose definition is recursive. The library's
induction theorems take an operator, which no prover here can instantiate; induction on the
subsets of a finite set is proved instead from its first-order theorem that a well-founded
relation has minimal elements (`SubsetInduction`), and with it that the recursion has a
solution (`IterExists`), that a sum of numbers is a number (`SumType`) and that it grows
with its terms (`SumMonotone`).

`RisksScored` and `MoreNeverLess` are only model-checked: their scores are products rounded
to the code's precision at every step, compared with dozens of thresholds.

## 9. Findings

Each is a `violation` run whose counterexample TLC finds.

1. `summary_columns` - an interrupted attempt that had reached STORAGE leaves risk
   score, level, confidence and classification on the row; the clean-up resets
   `result` only. If the second attempt fails, the FAILED investigation keeps a
   score no result backs.
2. `browser_lost_race` - `lib/api.ts` says that losing a race to another tab is no
   reason to end the session, and the loser adopts the winner's token; but by
   presenting the spent token it has made the server revoke that one too.
3. `referenced_file` - a reanalysis, or an upload of stored content, that overlaps
   the deletion of the last reference ends with an investigation whose file is gone.
4. `displayed_points` - `pipeline.py` looks the points of a signal up by its code.
   Where two engines report the same code (an e-mail with one suspicious link: the text
   engine and the URL engine), both signals show the points of one of them, and the
   breakdown does not add up to the score it explains.
5. `claim_memory` - `domain/rag/store.py` replaces the list of claims before it embeds
   them; a search in between pairs the scores of the old embeddings, or of the words of the old
   list, with the new list,
   so a score of a near-duplicate stands beside another claim.

Other places where code and documents part, met while modelling and not given a run:

* *Investigations.* The settings' comment takes a run older than
  `INVESTIGATION_STALE_MINUTES` for dead, but the in-process executors have no limit, so
  a slow run can be failed and complete over the failure. The timeline is called
  append-only, and the clean-up of an interrupted attempt deletes it. The documented
  chain of statuses has ANALYZING before COLLECTING_EVIDENCE only. A file posted to the
  `/analyze` route of the other media type may get the caller's finished investigation
  as a duplicate, and fails it. An upload that overlaps the deletion of its account can
  leave its file behind.
* *Requests that overlap.* Two submissions of one content both open an investigation;
  two appeals may be open; a refresh answered after a sign-out signs every tab in again;
  refresh tokens are single use only for calls that do not overlap; a curated source may
  be overwritten by an ingest that read it before.
* *1.x jobs and streams.* A job stays "queued" when its result cannot be stored, at the
  hard limit, or when the broker refuses after the commit. `stream.py` 135-136
  says that a dropped connection can be recovered by polling the report; the task is
  cancelled when the client has gone, and there may be no report to poll.
* *Retrieval.* `retriever.py` 97 speaks of consecutive failures; a success between the
  steps of a failing report leaves the engine open although it has just answered, and a
  report that overlaps another may be lost (126-134). Once the cool-off of a search engine has passed, every caller goes through
  until one fails (`retriever.py` 97-98 and 120 say one). The second search of the web may pass the deadline. Page scraping imports
  a module that does not exist (`backend.preprocessor`). "Off-topic results are pushed
  below" (465-467) does not always hold.
* *Scores.* A note of severity INFO counts towards "more than one indicator" and lifts a
  lone HIGH from 45.0 to 45.5. Of signals with one code the first is kept, so the order of
  links can change a score. Links of an e-mail are scored in two families. A weaker
  fourth technique of persuasion can lower a weighted mean. Weak signals beside an
  engine's failure still say "no strong warning signs".
* *Claims.* A claim found MISLEADING with little confidence is CONTRADICTED without a
  signal. Citations found not to match still count for the verdict. A fact-checker's
  rating of either tendency lifts the thin-evidence gate for both sides.
* *Documents.* A date that has the shape of one and is none (`document.py` 372-375) makes
  the engine fail. An encrypted PDF, pages past the limit and scans past the tenth leave
  text unread without a coverage gap. The report lists recognition of scanned pages as
  completed though every page failed.
* *Trust.* The aggregator says that a detector with strong evidence stands on its own
  where no claim is decided; the mean is taken, and a clean text dilutes it. The fraud
  detector's docstring says its score is not folded into the verdict; it enters the
  manipulation risk.

## 10. Only model-checked

Liveness (`EventuallySettled`, `RequestsEnd`, `ProviderUsedAgain`, `JobSettles`,
`WorkEnds`, `NewFileIsLoaded`, `GuessingWearsOut`): beyond the prover. `RisksScored`
and `MoreNeverLess` (section 8). The refuted properties. Every other property of a run is stated by a
theorem. No proof rests on more than the named assumptions of the constants.

## 11. Not modelled

* Request ids, body limits, rate limiting (a library), metrics, audit, settings: no
  state that an order of steps could break. Settings appear as constants.
* Lists, dashboards and analytics: they only read. Migrations are declarations.
* Pages of the web client: rendering; their polling is the page views of section 3.
* Redaction (`fraud/privacy.py`), claim extraction, keyword and sentence patterns: they
  work on wording, character by character.
* Language models, embeddings, similarity and media features: numbers computed by
  libraries, taken as inputs. The lazy loading of models sets its flag before the
  load, so that callers during the load are told there is none.
* A Redis that fails between two calls (`infra/cache.py`): a value written to the fallback
  is then not the one read. Models of its callers would have to let every entry have two
  values at any time, and no promise of the code speaks of that; the cache is chosen at
  the start instead.
* An answer in the browser that outlives its session (`api.ts` 139): the page clears
  whatever session there is, and nothing in the code says which it should.
* API keys, JWT and password hashing; sharing, which sets a column.

`PROJECT.json` gives the reason for each component.
