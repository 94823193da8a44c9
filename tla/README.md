# MinSim: TLA+ models and proofs

MinSim (`src/`, package `koresim`) runs LLM persona simulations: a FastAPI process accepts a run, an RQ
worker asks a few hundred personas through an LLM gateway, and the result is an envelope stored in SQLite.
This directory models the protocols between those processes, the services around them and what is computed from the
answers, checks the models with TLC and proves the central safety properties with TLAPS. All paths below are relative to
the repository root `src/`.

## 1. The system

### Processes and what they share

| Actor | Code | How it is scheduled |
| --- | --- | --- |
| API event loop | `src/api/routes.py`, `src/services/run_service.py` | one uvicorn process; `async def` routes run to their next `await`, and the run routes have none between store calls |
| API threadpool | `def` routes: focus groups, follow-ups, persuasion, interview threads | threads of the same process, preemptive |
| focus-group threads | `src/services/focus_group_service.py:350-368` | daemon threads, die with the API |
| RQ workers | `scripts/run_worker.py`, `src/jobs/worker.py`, `src/jobs/queue.py` | `WORKER_COUNT` processes, one job at a time (`SimpleWorker`) |
| clients | the React app, MCP hosts | poll or stream; may cancel, disconnect and reconnect at any time |

They share one SQLite file in WAL mode (`src/jobs/store.py`) and one Redis. Each store method opens its own
connection and commits at its end (`_connect`, store.py:3299), so **one store call is one atomic step, and
two calls of one handler never are**. Python's `sqlite3` opens the write transaction at the first DML statement:
a `SELECT` before it is not protected unless the method says `BEGIN IMMEDIATE`. Foreign keys
are declared and not enforced. Redis is only the queue (RQ list, started and failed registries) and the shared
LLM rate window.

### Components, their state and what makes each correct

| Component | State | Operations | Correct if | Status |
| --- | --- | --- | --- | --- |
| run API | none of its own | create (quota, admission, insert, enqueue), cancel | a run is accepted once; a refusal changes nothing; a finished run is not canceled | modelled: `RunLifecycle` |
| run store | `runs`, `run_events`, `run_results`, `run_partial_results`, `usage_ledger` | one transaction per method | a published run has its result, and so has a billed one | partly: without the administrator's ledger edits |
| worker | local variables of the job, `partial_buffer` | start-up sweep, job, exception handlers, RQ failure hook | one executor per run; every accepted job settles; cancels are obeyed; an envelope survives failures | modelled: `RunLifecycle`, `AgentWorkflow` |
| job queue (RQ) | list, started registry | enqueue, dequeue, abandoned-job maintenance | external: modelled from its use | external part of `RunLifecycle`, `FocusGroup` |
| live progress | cursor of a generator, `Last-Event-ID` of the client | connect, poll, yield, end | each event once, in order, none lost over reconnects, the stream ends | modelled: `RunEventStream` |
| focus groups | `focus_groups` row: status, `updated_at` | create if idle, charge, schedule, execute, reclaim | at most one active session, none stuck, a result is kept | modelled: `FocusGroup` |
| account deletion | all tables keyed by account or run | one transaction | nothing of the account is published afterwards; the bill of a run is written afterwards only if its completion was under way | modelled in each module that has accounts |
| batch simulator, adapter | semaphore, count of results, shared HTTP client | fan-out, attempt, time limit, back-off, reconnect, close | every persona is counted once, requests of a running batch go out on an open client, and the batch ends | modelled: `LlmFanout` |
| LLM rate limiter | Redis sorted set, local deque | acquire, degrade, reconnect | no more than the budget in any window | modelled: `RpmLimiter` |
| LLM gateway's routing, tracing | none | choose a model, log | - | partly: the adapter in `LlmFanout` |
| agent workflow, quality gate | envelope, checkpoints, agent runs | grade, three agents, gate, records | a bad panel is never waved through; the records tell the envelope's story | modelled: `AgentWorkflow` |
| envelope and aggregators | none | read an answer, count it, conclude | everybody counted once; conclusions follow from the counts | partly: seven modules, one per kind of report |
| personas and sampling | none | stratified draw, weights, classification | the sample represents the population | partly: `StratifiedSample`, `CampusReport` |
| interview threads, follow-ups | messages with ordinals | open, ask, append; ask a cohort, persuade | whole exchanges in order; the right people are asked | modelled: `ProjectWorkspace`, `CohortQuestions` |
| interactive quota | timestamped rows | consume units | no more than the limit in any window | modelled: `ProjectWorkspace` |
| projects | project, task and snapshot rows | create, archive, start a run, attach it | a run belongs to its owner's project | partly: `ProjectWorkspace` |
| retention prune | all run tables | one transaction | only settled runs disappear, with what was said about them | modelled: `ProjectWorkspace` |
| MCP OAuth | codes, grants, token pairs | consent, exchange, rotate, revoke | a code is spent once, nothing survives a revoked grant | modelled: `OAuthTokens` |
| MCP tools | none | dispatch a batch of calls | what was written is answered | partly: `McpDispatch` |
| intake sessions | messages, snapshot, owner, run | plan, save, claim, link | one history per session, kept by its owner | modelled: `IntakeSession` |
| authentication | signed cookies | login, callback, log-out, guards | a session only for who was confirmed in that browser | partly: `LoginFlow` |
| Cloudflare Access script | the remote application and its policies | apply, disable, provider | repeatable until it reports ok | modelled: `AccessPolicy` |
| event mode, health | none | reports | - | partly: the admission test in `CreateCheck` |
| drafting helpers, React frontend | none here | - | - | not modelled, see section 8 |

### What is hard to test here

* A worker and the API write `runs.status` in turn, each after having read it in an earlier transaction.
* Redis may apply a push whose caller sees a timeout, so a run can be FAILED and queued at once.
* RQ calls `handle_failed_job` for jobs that raised and for jobs whose worker died after they had settled.
* A worker that starts up sweeps `running` rows that may belong to its living siblings.
* An exception in a callback of the fan-out does not stop the other personas: `asyncio.gather` leaves them alive
  while the simulator's `finally` awaits `client.close()`: they send on the closed client and may open one that nobody closes.
* A status becomes terminal one transaction before its event is logged, while a generator polls both.
* A focus group can be reclaimed by a reader while its executor is alive.
* An interview answer is computed for seconds from a history read before; meanwhile the thread grows or its run is pruned.
* Of the store's read-then-write methods some lock first (`BEGIN IMMEDIATE`) and some do not.
* Coroutines share an HTTP client which each of them may replace; worker processes share a rate budget that fails now and then.
* A code is spent in one transaction, its tokens are issued in the next.
* Two tabs hold whole snapshots of one intake session; two logins of one browser share one state cookie.
* Answers are text: each kind of report has its own reader, and what it accepts beyond what was offered has to be counted somewhere.
* Draws, rotations and weights round; a tier can be smaller than its minimum and a stratum empty.

`PROJECT.json` lists these hazards with the line where each bites and the property that watches it.

## 2. Modules

| Module | Models | Builds on |
| --- | --- | --- |
| `RunBilling` | abstract contract: accept, publish, bill, forget | - |
| `RunLifecycle` | run API, store, queue and workers | instantiates `RunBilling` |
| `RunEventStream` | the SSE generator and its client over the lifecycle's log | extends `RunLifecycle` |
| `FocusGroup` | sessions of one run, their two kinds of executors, time | - |
| `OAuthTokens` | grants, codes and token pairs of the MCP OAuth server | - |
| `ProjectWorkspace` | projects, runs in them, interview threads, allowance, prune | - |
| `IntakeSession` | one intake conversation kept by several tabs | - |
| `RpmLimiter` | the shared Redis window and the local ones | - |
| `LoginFlow` | Google sign-in, sessions, guards | - |
| `McpDispatch` | one batch posted to `/mcp` | - |
| `LlmFanout` | the coroutines of one batch and their HTTP client | - |
| `AgentWorkflow` | grade, agents, gate, records (the step `Agents` of `RunLifecycle` taken apart) | - |
| `PanelProtocol` | panels of several questions per persona | - |
| `ChoicePolls` | panels of one question, ten forms of it | - |
| `CampusReport`, `PriorityPoll`, `StratifiedSample` | the campus polls: report, ranking, draw and weights | - |
| `SegmentTags`, `Calibration`, `OpportunityMatrix` | merged labels, post-stratification, verdicts | - |
| `CohortQuestions` | questions to the panel of a finished run | - |
| `AccessPolicy` | the Cloudflare Access script and the remote account | - |
| `FiniteSums` | lemmas: induction over finite sets, sums over a set, its parts and its groups | - |
| `RunLifecycle_proofs`, `RunEventStream_proofs`, `FocusGroup_proofs` | theorems of one module each | extend it and `TLAPS` |
| `SignIn_proofs` | theorems of `OAuthTokens`, `LoginFlow` and `McpDispatch` | extends them |
| `Services_proofs` | theorems of `ProjectWorkspace`, `IntakeSession`, `RpmLimiter`; the types of all six services | extends `MCServices`, `SignIn_proofs`, `FiniteSums` |
| `Panel_proofs` | theorems of `LlmFanout`, `AgentWorkflow`, `PanelProtocol`, `CohortQuestions`, `AccessPolicy` | extends them and `FiniteSums` |
| `Reports_proofs` | theorems of the draw and of the six kinds of report; all parts of an evaluation together | extends `MCEvaluation`, `Panel_proofs` |
| `MCRunLifecycle`, `MCRunEventStream`, `MCFocusGroup` | model values for TLC | extend their module |
| `MCServices`, `MCEvaluation` | several components in one run | extend them |

`MCServices` and `MCEvaluation` put components side by side that share no rows and never wait for each other. A variable
(`part`, `stage`) is chosen once; a behaviour moves that component and leaves the others as they began. The states explored are
the sum, not the product, of those of the components: exactly what separate runs would explore.

Operators named `<Action>_<Word>` next to an action are deliberate misreadings of the code (a dropped check, an inverted test);
substituting one must break the property that watches the action.

### RunLifecycle

*State.* `status`, `done`, `result`, `partials`, `events`, `ledger` are the SQLite columns of a run (`status` is `"new"` before
the row exists and `"gone"` after deletion; `events` is the run's `run_events` in rowid order). `rq`, `started` are
RQ's list and started registry. `apc`, `arun` say where the one API handler in flight stands; one is enough because the
run routes are coroutines that do not await between their store calls. `wpc`, `wrun`, `wn`, `wbuf`, `wnext`, `wsnap` are the
local variables of each worker's job: program point, run, answers so far, unflushed answers, where the `finally` block leads, and the
rows the start-up sweep selected.

*Actions.* One per store call, with the guard of the code that leads to it:

* `CreateCheck`, `CreateInsert`, `Enqueue`, `NoteQueued`, `CreateFail` are `create_run_for_user` (run_service.py:25-123). With `"redis"` the
  push may fail before or after it took effect, and a failing QUEUED event is treated like a failing enqueue.
* `CancelRead`, `CancelSet`, `CancelEvent` are `cancel_run` (routes.py:1612-1647).
* `DeleteUser` is `delete_user_data`. A worker that has written COMPLETED inserts its `usage_ledger` row (`Charge`) afterwards all the same, because `complete_free_run` looks at
  the ledger and not at the run; ids of accounts are derived from the login, so an account that comes back inherits that row (`UsedRuns`), and a second deletion removes it.
* `Boot`, `Sweep`: `scripts/run_worker.py:32-36` and `mark_active_runs_interrupted`, whose SELECT is not in the write transaction.
* `Dequeue`, `Start`, `SetRunning`, `EvRunning`: worker.py:141-156. `Respond`, `FlushCheck`, `FlushSave`, `FlushEvent`, `ProgCheck`, `ProgSave`,
  `ProgEvent`: one persona's `on_result` and `on_progress`. `FanoutDone`, `Drain`, `DrainEvent`: the `finally` block.
* `SaveEnvelope`, `Agents`, `SaveFinal`, `SetCompleted`, `Charge`, `EvCompleted`: the rest of the try body.
* `SetCanceled`, `EvCanceled`, `Salvage`, `SetFailed`, `EvFailed`: the exception handlers. `HookRead`, `HookSet`, `HookEvent`: `handle_failed_job`.
* Environment: `Raise` (any exception in the try body, including RQ's job timeout), `Escape` (a failing store call outside of it),
  `Crash`, `Restart`, `ApiCrash`, `Abandon` (RQ's maintenance finds the expired entry of a dead worker's job).

`SingleExecutor` makes the SELECT and INSERT of `complete_free_run` one step; it is proved, not assumed.

`Requested` is the `total_count` of the row, `Total` the number of personas that answer: a stratified draw returns up to four for a request of one to three (stratified.py:61-70),
a filtered one may return fewer (sampler.py:109). `Shown` is what a client is shown of the two, as `_run_snapshot` computes it.

*Left out.* Accounts that bypass the quota; runs without an account (they are never charged); `done_count` during `done = total`
repeated reports; all text.

### RunEventStream

Adds the generator of `get_run_events` (`conn`, `cursor`, `batch`) and an EventSource client (`lastId`, `seen`). A `yield` awaits the
network, so the log may grow between two events of one batch; the connection may break at any point (`MaxDrops` times).

### FocusGroup

*State.* `status` and `age` (ticks since `updated_at`) of each session, `cpc` of the request that created it, `pc` and `turn` of its two
possible executors (an RQ job and a thread), `life` of the RQ job. *Actions* follow `create_focus_group_session`,
`_schedule_execution`, `execute_focus_group_job`, `_focus_group_job_failure` and `reclaim_stale_focus_groups`. `Tick` advances
the clocks of active sessions and running jobs and may not pass a job's timeout. A thread has no timeout. The commit of the result and the return are two steps
within one `try`: in between an exception or the timeout still reaches the handler, which marks the completed session failed (focus_group_service.py:516-539).

### Services

* `OAuthTokens`. `grants`, `codes`, `pairs` are the `oauth_*` rows with their ages, `pairs[p].parent` the refresh token a pair was
  rotated from, `oreq` the request that has consumed something and not yet issued its successor. Handlers are coroutines that do not
  await between store calls, so requests do not interleave but `OAuthCrash` may hit between two calls of one (`ExchangeCode` then
  `IssuePair`, `Consent` then `ConsentCode`). Redirect URI and PKCE are one fact, `proved`.
* `ProjectWorkspace`. A request enters by `_owned_project_run` (`Enter`) and goes on store call by store call, each reading anew what the call before it saw: `Consume` spends a unit whether or not the run is
  still there, `ShowSubject` and `OpenThread` may have a prune or a deletion between them, which leaves a thread nobody finds (`late`). `AskPay`, `AskFind`, `AskHistory`, `AskAnswer`, `AppendRead`, `AppendWrite` are the store calls of one question in a pool
  thread (`askers`), interleaved with every other; a row remembers how much history its author had seen. `PruneRun` and `DeleteOwner`
  are the two ways a thread disappears. The allowance is a window of timestamped units under `BEGIN IMMEDIATE`.
* `IntakeSession`. Each tab has its copy of the snapshot; `Save` and `Advance` send it whole, `Upserted` is the row's
  COALESCE, `Replaced` the rewriting of its messages, of which `Usable` keeps those with a text and a known role; `EditByHand` is an API client that sends others.
* `RpmLimiter`. `zset` and `local` are bags of slot ages; `RedisAcquire` is the Lua script with its overloaded answer 1, `RedisError` and
  `LocalAcquire` the degrade path. A tick is a millisecond.
* `LoginFlow`. Cookies are the state: `stateCookie`, `sessions`. `OpenCallback` checks the state, `FinishCallback` sets the session after two
  awaits; `logins` is a history of what Google confirmed for whom.
* `McpDispatch`. `TakeItem` executes one item with its effect (`effects`) and reply. A tool may raise anything, before or after it wrote: `service` and `invalid` are answered, what `escapes` ends the
  request. An `ask` item never returns a result.

### Evaluation

* `LlmFanout`. `coro[p]` is where persona `p`'s coroutine stands and the client it holds, `pool` the current client, `open` the ones not closed. `CloseOwned` begins the awaited close of the
  `finally` block, `Unwind` is its end: results are returned, or `asyncio.run` cancels who is left.
* `AgentWorkflow`. `envelope` is the dictionary in the worker's hand, `stored` the row; a panel is its pair of totals (`Samples`).
* `PanelProtocol`. `member[p]` is the step, readings and cost of a persona, `received` what the provider actually answered.
* `StratifiedSample`, `PriorityPoll`, `CampusReport`. Tiers are populations, a persona is a seat in the sample's order; the report's
  figures are kept as fractions over a common denominator. `PriorityPoll` takes samples of either kind, drawn tier by tier or at random. Housing that is not one of the near ones is classified as commuting.
* `ChoicePolls`. One respondent replies at a time with anything its form's reader can tell apart, then the form's aggregator concludes.
* `SegmentTags`, `Calibration`, `OpportunityMatrix`. Algorithms of two or three loops; labels, strata and bands in every constellation the bounds allow.
* `CohortQuestions`. Rows of a finished run in every combination of stance and failure; strangers stand for personas the run did not ask; a cohort is one of the named ones or the uuid of anybody.
* `AccessPolicy`. Every request of the script may fail before or after Cloudflare carried it out; the script then ends, and is started again.

## 3. Runs

| Run | Instance | Question |
| --- | --- | --- |
| `lifecycle_faults` | 1 run, 1 worker, 3 personas in strides of 2, every environment event; 580,000 states | Are the safety properties and the refinement kept whatever fails? |
| `lifecycle_siblings` | 1 run, 2 workers that crash, sweep and take over; 74,000 states | Single executor; does every queued job settle for good? |
| `lifecycle_live` | 1 run, 1 worker, cancels, exceptions, enqueue failures; 54,000 states | Is a cancel during the fan-out obeyed, and does a failed job keep an envelope? |
| `event_stream` | 1 run, 1 worker, 1 client, 1 broken connection; 147,000 states | Order, completeness and end of the stream |
| `focus_group` | 1 session, 3 reports, RQ job and thread, every fault; 15,000 states | Is a live session safe from reclaim, a finished one from everything late, and does every session settle? |
| `services` | the six services of section 2, each on its own; 889,000 states | Do chains, threads, allowances, snapshots, budgets, logins and batches stay whole? |
| `evaluation` | the twelve parts of an evaluation, each on its own; 318,000 states | Is everybody counted once, do conclusions follow, does a batch end? |
| `claim_completed_not_canceled` | 1 run, cancel | violated: a completed run turns canceled |
| `claim_hook_spares_completed` | 1 run, crash | violated: a completed run turns failed |
| `claim_quota_enforced` | 2 runs of one account, limit 1 | violated: both complete and are billed |
| `claim_one_active_focus_group` | 2 sessions, no fault at all | violated: two active sessions |
| `claim_conditional_converts` | 2 respondents, 1 stranger | violated: a conditional yes is not counted |

*Deadlock* is not checked: nobody is obliged to create a run, so a system at rest is a legal end of a behaviour.

*Bounds of the lifecycle runs.* Runs never read each other's rows; they meet only in the queue, in a worker and in an account's quota. One run against one
worker and the API therefore shows every race on a run's rows, two workers every race between an executor and the sweep, and two
runs of one account the quota. Three personas in strides of two give a flush on the stride, a last partial stride, and a progress report on each;
`Requested` 2 is below the three that answer, so that `done_count` passes `total_count`.
`lifecycle_siblings` keeps one persona: what matters there is who holds the run. Sessions share no row and no process's state but the test for an active one,
which is what the two sessions of `claim_one_active_focus_group` are for; the other run has one, so that liveness is checked with every fault, and the theorems hold for any number.
The timeouts 1 and 2 (3 and 4) keep the order of the code's 30 and 35 minutes. `Env` switches on the environment
events a run needs; `lifecycle_faults` has all of them.

*Bounds of `services`.* One account with two hosts, two grants and three pairs: a code exchanged, rotated twice, repeated and revoked, with the second
grant as the one that must not be touched; the three lifetimes are ordered as in the code. Two pool threads on one subject, an allowance of
three per window of two ticks: a question of several units meets the limit, and a window passes. `MaxOrdinal` 4 is two exchanges. Two tabs and snapshots of four
messages, one of them unusable (`MaxUnusable`). Two processes, a budget of three per three ticks (`Rpm` above the number of processes, so that the local share is not the floor of one),
one misread answer (`MaxUnlisted`). Two browsers, two people and two logins. Batches of up to three items of every kind.

*Bounds of `evaluation`.* A part that does not move begins in a chosen initial state, which TLC takes to be the first of each set. Three personas over two places with two attempts and three successive clients: two of them break the same client while the third waits.
Panels on both sides of every threshold of the grade (`MCSampleSet`). Tiers of 0, 1, 45 and 70 people against requests of 1, 3, 50 and 200, so that minimums exceed
the request, a tier is smaller than its minimum, and the remainder has somebody to go to. Four personas and three items, so that the batches are uneven, a ranking needs more than half of the answers (`MinRate`), and four tierings: in blocks, scattered, and of one persona. Three respondents in
two groups and one letter beyond those offered. Voters of a level and of a housing the classification does not know. Four labels with every symmetric resemblance among them and a cap of two, the least with a chain of
two merges and a fold. Bands with accept shares, moods and mentions on both sides of the thresholds. Two allowlists and two path sets, at most two
remote objects of a name, which is where a duplicate would show.

The theorems hold for all values of the constants.

## 4. Properties

*RunLifecycle.* `ResultBacked`: a completed status, a completed event or a bill implies a completed envelope. `BilledOnce`: one ledger
row, never later than the event. `PartialsCoverProgress`: fewer than a stride of the reported answers are unsaved. `ProgressMonotonic`: what a client is shown never goes
back, and `done_count` itself only when the run is completed.
`CancelSettled`: a canceled run that no process holds stays canceled and is not started. `SingleExecutor`. `FailedKeepsEnvelope`
(while the store works and the account is not deleted). `EverySettles`, `CancelObeyed` (liveness). `ImplementsBilling`: the
processes implement `RunBilling`; a forgotten run is not accepted or published again, and of its bills only one that was being written at the deletion still arrives (`owed`, or `Waive` if its worker fails first).

*RunEventStream.* `SeenIsPrefix`: the client holds a prefix of the log whatever broke. `CaughtUp`: it ends up with all of it. `StreamEnds`.

*FocusGroup.* `TalkingNotStale`: a session an RQ worker talks in cannot be reclaimed. `CompletedSticks`: once its executor has left the `try` block, a completed session keeps its status, unless RQ and a
thread both execute it. `EverySessionSettles`.

*Services.* `OneRefreshChain`: the pairs of a grant form one chain of rotations with one usable refresh token. `RevocationFinal`: nothing is served under a
revoked grant again. `ThreadsConsistent`: whole exchanges numbered without gaps, answers that know what the same client was told before, nothing of a removed run but the messages of
a turn and the opening that were under way. `AllowanceKept`: no window holds more than the limit. `SnapshotConsistent`: history, usable messages and turn count of a session agree.
`ClaimAndLinkKept`: a stale tab neither unlinks a session nor takes it over. `FleetAtMostTwice`: a minute holds at most twice the budget, whatever mix of Redis answers and errors the
processes see. `LoginsStayApart`: who is signed in was confirmed for a login of that browser; a lone login is not disturbed. `EffectsReported`: what a batch wrote is answered, unless an exception that is neither a refusal nor a rejected argument took the reply down.

*Evaluation.* Each of these is the conjunction of the named claims of a module. `BatchKeepsCount` (`LlmFanout`): while the batch runs the current client is open, who reported is counted once, and a batch that returns has closed its client. After a raising callback neither holds: see section 7. `BatchEnds`.
`ReviewConsistent` (`AgentWorkflow`): no model waves through what the grade flagged, the best grade is never under review, records match the envelope. `PanelAccounted`: failures and intents add up to
the panel, conditions to the refusals, usage to the answers received. `SampleRepresents`: the sample has its size and every tier, and weights that undo the distortion. `PollFair`: every item in every place equally
often, for the panel and for each tier that was drawn as such (not for the age bands of the nationwide pool, which is drawn at random), scores are won duels, a tier is ranked by its own votes. `CohortRespected`: a cohort that has members is asked and nobody else, an empty one is replaced by the panel or by strangers as the run was drawn, the opposers asked again are all of them or none by the same test, and nobody is counted on a side not taken. `EveryoneCountedOnce`: the choices of six of the ten forms
(readers of the other four take letters beyond those offered) and all breakdowns, the cells of the policy matrix and the merged segments each hold every readable answer once. `ConclusionsFollow`: the recommended price, the weighted headline, the calibrated shares and the verdicts are borne out by the counts. `AccessSettles`: the script
can be repeated until it reports ok, and then the rules are those of its last run.

## 5. Fairness

* A worker that can step steps (`WF` per worker, `Restart` included): workers are supervised processes and `worker.work` loops.
* Workers crash any number of times, but not for ever (`<>[][~Crash]`): a worker that crashes each time it takes a job makes no
  progress in the code either.
* An API handler that is in its body finishes it. Nobody has to create, cancel or delete.
* The SSE generator is polled and the EventSource reconnects; both only in `event_stream`.
* Requests, executors and time progress in `FocusGroup`, and the results page goes on polling the sessions, which is what
  calls `reclaim_stale_focus_groups`. Without a reader a stuck session stays stuck: the code has no timer for it.
* In `LlmFanout` only what the event loop owes: a coroutine that can enter the semaphore, wake from its back-off or report does so, the time
  limit of an attempt fires, `gather` and the closing of the client go on, and what follows the close does (`Unwind`: the close itself, which has no time limit, is taken to return). Nothing is assumed of the provider, of the
  connection or of the rate limiter: `BatchEnds` holds although no request is ever answered.

## 6. Proofs

All proofs are for arbitrary constants under the assumptions that the module in question names (`LifecycleConstants`, `FocusGroupConstants`, ...).
`FocusGroup_proofs` also uses `StaleAboveTimeout`: the job timeout does not exceed the stale limit, as the comment in the code asks.

*RunLifecycle_proofs.* `TypeOK` is not inductive: that `wn` stays below `Total` and that a run is in hand wherever the program point says
so depend on one another. `TypeInv` adds `BufferOK` (a buffer holds no more than what was answered) and `InHand`. On it rest

* `LifecycleImplementsBilling`: a run forgotten while its worker is at `Charge` becomes `owed` and nothing else of it can become so, because who stands there has written COMPLETED and no bill (`Uncharged`). `CompletionBacked` and `NeverBilledTwice`, like it, from `BillingInv`: the rows of a run that does not exist are empty where
  they must be, a worker past `SaveEnvelope` has a completed envelope in the table (`Backed`), and a worker past `Charge` a ledger row. It is this
  *backing by program point* that makes the properties inductive. Step lemmas (`StatusWritten`, `ResultWritten`,
  `LedgerWritten`, `LogWritten`, ...) say once which steps write a column and what; the theorems cite those instead of the actions.
* `CanceledStays`, from `RunsTaken`: which steps put a run in a process's hands.
* `OneExecutor`, from `Exclusive`: every run is in at most one of the queue, the workers and the creating request.
* `ProgressNeverBack`, from `Exclusive` and `Reported`: a worker never has fewer answers than the row reports, up to completion. `Requested` and `Total` are independent constants here: more or fewer may answer than were requested, and
  what is `Shown` is cut at the request.
* `ProgressIsSaved`, from `ProgressInv`: a worker that holds answers has rows for all but its buffer (`Saved`), and its buffer
  stays below a stride wherever progress is reported (`Bounded`). The buffer does outgrow a stride, but only between an exception and the end of the
  fan-out, which is why `Bounded` speaks of `wnext`. `Complete` carries the bound past `setCompleted`: a sweep of another worker may turn such a run into an
  interrupted one, and the property then speaks about its progress again. The count itself is `FewUnsaved`, from the library's facts on intervals.
* `FailureKeepsEnvelope`, from `EnvelopeInv`, under `Undisturbed` (no deletion, no failing store, no crash): the hook is reached only behind the handler's save, because
  a run in hand has its row and no job is without its worker (`StartedHeld`). Each of the three conditions is needed: the hook of an abandoned job saves nothing.

*FocusGroup_proofs.* `LiveSessionNotStale` from `TouchedInLife`: the row of a talking job is never older than the job, and a job never outlives
its timeout. `CompletedStays` from `SettledBy`: who completed a session has committed its result, whether it is past its `try` block, before its return or in its handler (`Concluded`), and executors appear only after scheduling.

*RunEventStream_proofs.* `StreamInOrder` and `StreamTyped`, while the run is not deleted: `LogsGrow` (no process but the deletion shortens a log or changes an entry) and `StreamInv` (the
generator stands right behind what the client has, the batch on the wire is in the log).

*SignIn_proofs.* `OneRefreshChainHolds` from `ChainInv`: a parent of a pair is spent (`ParentsSpent`), a code with a pair is spent, and the pair a request is about to issue has no
competitor (`CodesSpent`). `RevocationIsFinal` needs only the types: the bearer check reads the grant at each call. `LoginsApart` from `LoginInv`: an open callback is in the browser its
login began in (`CallbacksAtHome`), and a cookie names a login that was begun (`CookiesBegun`). `EffectsAlwaysReported` from `DispatchInv`, for batches of any length.

*FiniteSums.* The library's induction theorems cannot be instantiated by the installed provers, and `MapThenSumSet` is a `CHOOSE` over recursive functions. `FiniteSums` proves both from
what can be cited: a set of subsets that holds the empty set and grows by any element holds every finite set (the least size of a counterexample, `LeastNatural`), the fold exists
and is unique, and so a sum grows by the element that is added. On these rest sums over disjoint parts, over the groups of a set (`TotalFibers`, `CardinalityFibers`), of multiples, and in two orders (`CountedTwice`).

*Services_proofs.*

* `AllowanceHolds`, from `AllowanceInv`: the units an account spent on an action within the hour sum up to no more than the limit; time, expiry and a consumption under
  the lock keep it so. The sums are those of `FiniteSums`.
* `ThreadsRead`, from `ThreadsInv`: what is stored (`StoredInv`: gapless ordinals, whole exchanges) and what each question in flight may still rely on (`TurnInv`). A question that was found keeps its thread unless
  the run goes; one that has read `MAX(ordinal)` has all rows below it, and of two
  with the same number the unique index lets one write. With both facts the unlocked read does no harm.
* `SnapshotHolds` and `ClaimAndLinkStay`, from `IntakeInv`: every snapshot a tab holds has the turn count of its own messages, and the stored messages are the usable ones of a snapshot (`Mirrors`). Without this a stale tab's save could not be argued about.
* `FleetBudget`, from `RpmInv`: the shared window holds at most `Rpm` listed and `MaxUnlisted` unlisted slots, each local one its share; the sum over the processes is `FiniteSums`.
* `ServicesTyped`, from `ServicesInv`: the inductive invariants of all six services, of which a step of `MCServices` moves one.

*Panel_proofs.*

* `BatchBooks`, from `BooksInv`: while the batch runs a coroutine that replaced the client holds an older one (`ResetsOlder`), so what it closes is not the current one; a batch in which all are done leaves nobody to replace the client between the close and the return; the count is the cardinality of who reported. `FanoutTypes` adds that a
  coroutine that sleeps has an attempt left and that places are given out once.
* `ReviewHolds`, from `WorkflowInv`: what was said before the gate (`BeforeTheGate`: an unusable panel and a silent agent both ask for a review), what the gate made of it (`AfterTheGate`), and
  how far the records are (`Recorded`).
* `PanelAddsAllUp`, from `PanelInv`: what a persona holds at each step of its protocol (`AtStep`, `AtAttempt`), and that its calls are the answers received for it. `SeatsKept` bounds who is inside.
* `CohortHolds`, from `CohortInv`: whom the default pool yields for a run of each origin (`DrawAgain`), and how the answers are counted; `AccessComesToRest`, from `AccessInv`: what the script at work has found is there (`WorkKnows`), so what it then creates is the first of its name (`OneNamed`).

*Reports_proofs.* Every part of an evaluation has an inductive invariant, `EvaluationInv` is their conjunction, and `EvaluationHolds` proves it for `EvaluationSpec`: a part that does not move begins in one of its
initial states (`EveryPartBegins`) and a step moves one (`EveryPartSteps`). The properties of the run `evaluation` follow:

* `SampleSpeaks`, from `DrawInv`: after the minimums every tier with people has somebody (`Heeded`), and what is left to hand out is the request less what was drawn, never negative but for a request below four.
  That the weights restore the population is a sum over the tiers, cleared of its denominators.
* `PollIsFair`, from `PollInv`: every batch hands over its own people once (`Handed`), and an available ranking is made of the votes. Who sees an item in a place are the people of one residue class (`ShownWhen`); in any block of consecutive
  people two classes differ by one at most (`Dealt`, by induction over the length of the block). The sample as a whole is a block; a tier is one where the sample is `DrawnByTier`, which the theorem assumes of the sample at hand and not of all samples. A score is the number of duels won, by summing in two orders (`BordaIsDuels`); what everybody prefers ranks before (`Unanimous`).
* `CountedOnce`, from `ChoiceInv` and `CampusInv` (a report says of the answers what its parts say of them) and `TagInv`. The answers fall into groups and the sizes of the groups add up. For labels: while they are merged, each kept one holds the people of those that joined it (`Kept`);
  folding takes the rest one by one into the residual label (`FoldLabels`), after which everybody is shown (`Shows`) and an alias leads to the label its people are counted under (`Explained`), in two hops if need be.
* `ReportsConclude`, from the same and `CalibrationInv`, `MatrixInv`. The weighted headline is a sum over the cells of support, each between the least and the greatest (`CellsMakeTheHeadline`, `AverageWithin`). The calibrated shares reach the target unless
  a weight is capped or a stratum has nobody (`Reaches`). A better band has more opportunity (`BetterIsMore`), hence no worse verdict.
* `EvaluationTyped`: the types of all parts.

`Calibration` is written for its proof: it keeps a weight as a whole number of `Parts`, of which the size of every stratum is a divisor, so that the quotients of the code are exact. `PriorityPoll` admits
samples of both kinds: drawn tier by tier, as the stratified draw of a campus pool returns them, and at random, as the nationwide default pool does (campus_priority.py:376-383). The balance within a tier is claimed under `DrawnByTier` only; it is false for the second kind.

*Only model-checked.* Liveness (`EverySettles`, `CancelObeyed`, `CaughtUp`, `StreamEnds`, `EverySessionSettles`, `BatchEnds`): liveness under fairness and `ENABLED` are outside of what TLAPS proves here. Every other
property of a passing run is stated by a theorem.

## 7. Where code and documents disagree

The five `claim_*` runs check a sentence of a document, a test or a message against the code and are violated; `PROJECT.json` quotes them.
Three further statements about runs were refuted by TLC and have no run of their own:

* docs/design/evaluation-framework.md:190 expects one CANCELED event: a canceled running job logs a second one (worker.py:291).
* docs/design/agentic-workflow-deep.md:431 lets a cancel win: one that lands after the last progress check is overwritten by COMPLETED (worker.py:274).
* docs/design/react-fastapi-migration.md:190 calls lost work INTERRUPTED: a job abandoned by a dead worker becomes FAILED (run_worker.py:79).

Behaviour that the models of the services and of the evaluation show, and that a reader of the code might not expect:

* *Prices.* The candidates are sorted (schemas.py:120-127) and the recommended price is the first maximum of a demand that never rises (generic_suite.py:200-202): always the cheapest. `ConclusionsFollow` states it.
  A preferred price of 0 is treated as none (`wtp or preferred`) and broken down by intent (common.py:303).
* *Segments.* `segments` uses the labels before the merge (generic_suite.py:452), `segment_counts` those after it, so the risk matrix under-counts a merged segment (opp_risk.py:61-66).
  An alias may lead to a label that is itself an alias (tagging.py:79-91).
* *Verdicts.* opp_risk.py:4-6 asks to stay in sync with the frontend; it rounds to integers (262-263) where the frontend keeps one decimal (minsimReport.ts:1517). Without a sweet spot the overall verdict is that of the first band.
* *Readers.* Readers of statements, campaigns and products accept letters beyond those offered; `PollAddsUp` excludes those forms. A label that is not recognised becomes the first word of the allowed list (common.py:190).
* *Campus policy.* The dominant stance counts people, the net support weighs them: a dominant "for" may stand beside a negative net support (campus_policy.py:222-239, 374-380). An unreadable age is 30대 in one axis and unknown in another (respondent_axes.py:122-127).
* *Persuasion* (`claim_conditional_converts`). The prompt offers "조건부찬성", the converted set counts it (persuasion_service.py:10, 29; tests/test_persuasion_service.py:20), the parser rejects it (campus_policy.py:35; tests/test_campus_policy_parse.py:81-82).
* *Follow-ups.* An empty cohort, or a uuid the run does not know, is replaced by a fresh panel under the cohort's name (followup_service.py:158-176), although registry.py:345 speaks of a question to a cohort of the run; a campus run's is then answered by people it never asked.
  Persuasion draws again from the default pool without the run's pool and filter (persuasion_service.py:107-109): of a campus poll, whose opposers docs/design/dgist-campus-poll.md:205 wants asked again, nobody is. `CohortRespected` states both as they are.
* *Deletion.* A run whose worker is between COMPLETED and the charge when its account is deleted still gets a ledger row (store.py:1386-1407), which an account that logs in again starts with; a thread being opened stays without a run.
* *Focus groups.* Until its executor has left the `try` block, a completed session can still turn failed: the timeout may strike between the commit and the return (focus_group_service.py:516-539).
* *Clients.* simulator.py:68 says that an owned client is closed when `run()` ends. When a callback raises (a cancel does), `gather` leaves the other coroutines running while `close()` is awaited (137-142); they send on the closed
  client, and one that meets a connection error replaces it (openai_compatible_adapter.py:65-71) by one that nobody closes. `BatchKeepsCount` therefore speaks of running and of returning batches.
* *Progress.* For requests of one to three a stratified draw may answer with four: `done_count` passes `total_count` and falls back at completion (worker.py:277); the percentage a client sees is cut at 100 and does not.
* *Priority poll.* Duplicate or ordinal-prefixed items pass validation (schemas.py:200-208) and make answers unreadable. *Draw.* A request below one seat per tier yields a larger sample (stratified.py:64-70).
* *Failures by step.* Summaries attribute every failure to the first step (price_research_v2.py:426-437, startup_item_validation.py:472-489).
* *Review.* `build_minimal_envelope` asks for a review (result_envelope.py:213; tests/test_worker_resilience.py:108-109) and the gate takes it back (worker.py:367). `ReviewConsistent` excludes that envelope.
* *MCP.* The asynchronous endpoint calls `ask_followup` and `ask_interview` synchronously; they start an event loop inside the running one and raise after the unit was spent (mcp/http.py:58-90, registry.py:222-247). README.md:395 lists the tools.
* *Login.* A callback deletes the state cookie of a newer login of the same browser (auth.py:201-203); `LoginsStayApart` promises peace to lone logins only.
* *Rate limit.* A wait of exactly 1 ms is read as a slot (rate_limiter.py:146), and the retry after a broken connection asks for no new slot.
* *Access script.* It reads the first page of applications only, and two operators at once create duplicates; `AccessSettles` assumes one at a time.

## 8. Not modelled

The wording of prompts and insights, quotes, cost estimates; reading the persona files and filtering them; model routing and tracing (no state); signatures and response
headers; the drafting helpers (stateless conversions of one answer); the administrator's usage adjustment and reset, model traces and memory entries (single statements nothing else reads; the reset reads and writes in two
transactions, store.py:1380, so that two at once, or one beside a completing run, leave a sum nobody intended); the reports of health and admin pages; the React application, of which only the polling of sessions, the reconnection of an
EventSource and the snapshots of the planner are used. `run_noop_job`, `run_creative_testing_job` and the `run_inline` mode of focus groups, which no route uses.

One listed hazard has no property: a run that is inserted and never enqueued because the API dies in between (run_service.py:103) has nobody to settle it. The stream of a run that is deleted while streaming (routes.py:1710) is left out of `event_stream`.

## 9. Plan

1. done: `RunLifecycle` with `RunBilling`, `RunEventStream`, `FocusGroup`; all their safety properties proved.
2. done: `OAuthTokens`, `RpmLimiter`, `ProjectWorkspace` (threads, allowance, prune), `IntakeSession`, `LoginFlow`, `McpDispatch`.
3. done: `LlmFanout`, `AgentWorkflow`, the aggregates, the draw, the questions to a panel, the access script.
4. done: every safety property of every passing run is proved, and the inductive invariants of the services and of the evaluation as a whole.
5. The administrator's ledger beside a completing run; the run that is inserted and never enqueued (run_service.py:103).
6. `LlmFanout` as a refinement of the `Respond` steps of `RunLifecycle`.
