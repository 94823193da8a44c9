--------------------------- MODULE RunLifecycle ---------------------------
(***************************************************************************)
(* The life of a simulation run: the FastAPI process that accepts, cancels *)
(* and deletes runs, the RQ workers that execute them, the Redis queue     *)
(* between them and the SQLite tables both sides write.                    *)
(*                                                                         *)
(* Every SQLiteRunStore method opens its own connection and commits, so    *)
(* one store call is one atomic step and any other process may run between *)
(* two calls of the same handler.  The FastAPI handlers that touch runs    *)
(* are coroutines of one event loop that never await between their store   *)
(* calls: at most one of them is in flight (variable apc), but workers are *)
(* separate processes and interleave with it freely.                       *)
(***************************************************************************)
EXTENDS Naturals, Sequences, FiniteSets, FiniteSetsExt

CONSTANTS
  Runs,        \* run identifiers (uuid4: never used twice)
  Users,       \* registered accounts
  Owner,       \* [Runs -> Users], runs.user_id
  Workers,     \* RQ worker processes (WORKER_COUNT)
  NoRun,       \* "no run in hand"
  Total,       \* personas drawn for a run, each of which answers once
  Requested,   \* runs.total_count, the sample size that was asked for
  Stride,      \* max(1, total_count // 50): personas per progress report
  FreeLimit,   \* KORESIM_FREE_RUN_LIMIT, 0 = unlimited
  MaxQueued,   \* EVENT_MAX_QUEUED_RUNS, the admission limit
  InterruptOnStartup, \* INTERRUPT_ACTIVE_RUNS_ON_STARTUP
  Env          \* which environment events this instance allows, see EnvEvents

\* "cancel"  a client cancels a run        "delete"  an admin deletes an account
\* "raise"   an exception (LLM, SQLite lock, RQ job timeout) in the job's try body
\* "store"   a store call fails outside the job's try body, as in its handlers
\* "redis"   the enqueue step raises, before or after the push took effect
\* "crash"   a worker or the API process dies and is started again
EnvEvents == {"cancel", "delete", "raise", "store", "redis", "crash"}

\* A filter may match fewer personas than were requested (sampler.py:109), and
\* the minimum of one per tier draws more for a request below four
\* (stratified.py:61), so Total may lie on either side of Requested.
ASSUME LifecycleConstants ==
  /\ NoRun \notin Runs
  /\ Owner \in [Runs -> Users]
  /\ Total \in Nat \ {0}
  /\ Requested \in Nat \ {0}
  /\ Stride \in 1..Requested
  /\ FreeLimit \in Nat
  /\ MaxQueued \in Nat
  /\ InterruptOnStartup \in BOOLEAN
  /\ Env \subseteq EnvEvents

VARIABLES
  status,    \* runs.status, "new" before the row exists, "gone" after deletion
  done,      \* runs.done_count
  result,    \* status field of the envelope in run_results, "none" without a row
  partials,  \* persona ordinals with a row in run_partial_results
  events,    \* run_events in rowid order
  ledger,    \* number of run_completed rows of the run in usage_ledger
  rq,        \* the RQ list: runs whose job waits for a worker
  started,   \* RQ's StartedJobRegistry
  apc, arun, \* the API handler in flight and its run
  wpc, wrun, \* where each worker stands, and its run
  wn, wbuf,  \* personas answered, and answered personas not yet flushed
  wnext,     \* where the worker goes once the fan-out's finally block ends
  wsnap      \* rows the start-up sweep selected

db     == <<status, done, result, partials, events, ledger>>
redis  == <<rq, started>>
api    == <<apc, arun>>
worker == <<wpc, wrun, wn, wbuf, wnext, wsnap>>
vars   == <<db, redis, api, worker>>

TerminalStatus == {"completed", "failed", "canceled", "interrupted"}
RowStatus == {"queued", "running"} \cup TerminalStatus
RunEvent  == {"created", "queued", "running", "progress", "partial_result"}
               \cup TerminalStatus
Envelope  == {"none", "completed", "failed"}

\* Program points inside asyncio.run(run_registered_simulation(...)).
FanoutPc == {"fanout", "flushCheck", "flushSave", "flushEvent",
             "progCheck", "progSave", "progEvent"}
DrainPc  == {"drain", "drainEvent"}
\* The rest of the job's try body where an exception reaches "except Exception".
TryPc    == {"setRunning", "evRunning", "saveEnvelope", "saveFinal",
             "setCompleted", "charge", "evCompleted"}
ExceptPc == {"setCanceled", "evCanceled", "salvage", "setFailed", "evFailed"}
HookPc   == {"hookRead", "hookSet", "hookEvent"}
WorkerPc == {"dead", "boot", "sweep", "idle", "start", "agents"}
              \cup FanoutPc \cup DrainPc \cup TryPc \cup ExceptPc \cup HookPc
ApiPc    == {"idle", "insert", "enqueue", "note", "createFail",
             "cancelSet", "cancelEvent"}

Exists(r)    == status[r] \in RowStatus
Terminal(r)  == status[r] \in TerminalStatus
Logged(r, e) == \E i \in DOMAIN events[r] : events[r][i] = e
UsedRuns(u)  == MapThenSumSet(LAMBDA r : ledger[r], {r \in Runs : Owner[r] = u})

---------------------------------------------------------------------------
(* Store calls.  Each is one SQLite transaction.                           *)

\* update_run_status: no condition on the status it overwrites.
Update(r, s) == /\ Exists(r)
                /\ status' = [status EXCEPT ![r] = s]

\* append_event: inserts whether or not the run still exists (foreign keys
\* are declared but never enforced).
AppendEvent(r, e) == events' = [events EXCEPT ![r] = Append(@, e)]

\* The answered personas in the worker's buffer.
Buffered(w) == (wn[w] - wbuf[w] + 1)..wn[w]

---------------------------------------------------------------------------
Init ==
  /\ status   = [r \in Runs |-> "new"]
  /\ done     = [r \in Runs |-> 0]
  /\ result   = [r \in Runs |-> "none"]
  /\ partials = [r \in Runs |-> {}]
  /\ events   = [r \in Runs |-> <<>>]
  /\ ledger   = [r \in Runs |-> 0]
  /\ rq = <<>> /\ started = {}
  /\ apc = "idle" /\ arun = NoRun
  /\ wpc   = [w \in Workers |-> "boot"]
  /\ wrun  = [w \in Workers |-> NoRun]
  /\ wn    = [w \in Workers |-> 0]
  /\ wbuf  = [w \in Workers |-> 0]
  /\ wnext = [w \in Workers |-> "saveEnvelope"]
  /\ wsnap = [w \in Workers |-> {}]

---------------------------------------------------------------------------
(* The API process: create_run_for_user, cancel_run, delete_user_data.     *)

ApiGoto(pc, r) == apc' = pc /\ arun' = r

\* The quota read and the admission read.  A refusal (403, 503) changes
\* nothing; used_runs counts charged completions only.  User ids are derived
\* from the login, so a deleted account that comes back is the same account.
CreateCheck(r) ==
  /\ apc = "idle" /\ status[r] = "new"
  /\ FreeLimit = 0 \/ UsedRuns(Owner[r]) < FreeLimit
  /\ Len(rq) < MaxQueued
  /\ ApiGoto("insert", r)
  /\ UNCHANGED <<db, redis, worker>>

CreateInsert ==
  /\ apc = "insert"
  /\ status' = [status EXCEPT ![arun] = "queued"]
  /\ events' = [events EXCEPT ![arun] = @ \o <<"created", "queued">>]
  /\ ApiGoto("enqueue", arun)
  /\ UNCHANGED <<done, result, partials, ledger, redis, worker>>

\* Variant: the enqueue is retried after an error that hid a successful push.
Enqueue_Retried ==
  /\ apc = "enqueue"
  /\ \/ rq' = Append(rq, arun) /\ ApiGoto("note", arun)
     \/ "redis" \in Env /\ Len(rq) < 2 /\ rq' = Append(rq, arun) /\ ApiGoto("enqueue", arun)
  /\ UNCHANGED <<db, started, worker>>

\* enqueue_run talks to Redis with a 0.5 s socket timeout: the push may be
\* lost, and it may be applied although the caller sees an exception.
Enqueue ==
  /\ apc = "enqueue"
  /\ \/ rq' = Append(rq, arun) /\ ApiGoto("note", arun)
     \/ "redis" \in Env /\ UNCHANGED rq /\ ApiGoto("createFail", arun)
     \/ "redis" \in Env /\ rq' = Append(rq, arun) /\ ApiGoto("createFail", arun)
  /\ UNCHANGED <<db, started, worker>>

\* The second QUEUED event carries the job id; a failing append is treated
\* as a failing enqueue although the job is already queued.
NoteQueued ==
  /\ apc = "note"
  /\ \/ AppendEvent(arun, "queued") /\ ApiGoto("idle", NoRun)
     \/ "redis" \in Env /\ UNCHANGED events /\ ApiGoto("createFail", arun)
  /\ UNCHANGED <<status, done, result, partials, ledger, redis, worker>>

\* except: FAILED without an event, then 503.
CreateFail ==
  /\ apc = "createFail"
  /\ Update(arun, "failed")
  /\ ApiGoto("idle", NoRun)
  /\ UNCHANGED <<done, result, partials, events, ledger, redis, worker>>

CancelRead(r) ==
  /\ "cancel" \in Env
  /\ apc = "idle" /\ Exists(r) /\ ~Terminal(r)
  /\ ApiGoto("cancelSet", r)
  /\ UNCHANGED <<db, redis, worker>>

CancelSet ==
  /\ apc = "cancelSet"
  /\ Update(arun, "canceled")
  /\ ApiGoto("cancelEvent", arun)
  /\ UNCHANGED <<done, result, partials, events, ledger, redis, worker>>

CancelEvent ==
  /\ apc = "cancelEvent"
  /\ AppendEvent(arun, "canceled")
  /\ ApiGoto("idle", NoRun)
  /\ UNCHANGED <<status, done, result, partials, ledger, redis, worker>>

\* delete_user_data drops the account's runs, their children and its ledger in
\* one transaction, whether or not a worker is executing one of them.  What a
\* worker writes afterwards stays, until the account is deleted once more.
DeleteUser(u) ==
  LET rows  == {r \in Runs : Owner[r] = u /\ Exists(r)}
      bills == {r \in Runs : Owner[r] = u /\ ledger[r] > 0}
      Wipe(f, v) == [r \in Runs |-> IF r \in rows THEN v ELSE f[r]]
  IN /\ "delete" \in Env
     /\ apc = "idle" /\ rows \cup bills # {}
     /\ status'   = Wipe(status, "gone")
     /\ done'     = Wipe(done, 0)
     /\ result'   = Wipe(result, "none")
     /\ partials' = Wipe(partials, {})
     /\ events'   = Wipe(events, <<>>)
     /\ ledger'   = [r \in Runs |-> IF r \in bills THEN 0 ELSE ledger[r]]
     /\ UNCHANGED <<redis, api, worker>>

ApiCrash ==
  /\ "crash" \in Env /\ apc # "idle"
  /\ ApiGoto("idle", NoRun)
  /\ UNCHANGED <<db, redis, worker>>

Api ==
  \/ \E r \in Runs : CreateCheck(r) \/ CancelRead(r)
  \/ CreateInsert \/ Enqueue \/ NoteQueued \/ CreateFail
  \/ CancelSet \/ CancelEvent
  \/ \E u \in Users : DeleteUser(u)
  \/ ApiCrash

---------------------------------------------------------------------------
(* A worker process: scripts/run_worker.py around run_simulation_job.      *)

Goto(w, pc) == wpc' = [wpc EXCEPT ![w] = pc]
At(w, pc, next) == wpc[w] = pc /\ Goto(w, next)

\* The job's local variables go with it.
Forget(w) ==
  /\ wn'    = [wn EXCEPT ![w] = 0]
  /\ wbuf'  = [wbuf EXCEPT ![w] = 0]
  /\ wnext' = [wnext EXCEPT ![w] = "saveEnvelope"]

\* The job leaves the worker: RQ drops it from the started registry.
Finish(w) ==
  /\ Goto(w, "idle")
  /\ wrun' = [wrun EXCEPT ![w] = NoRun]
  /\ started' = started \ {wrun[w]}
  /\ Forget(w)
  /\ UNCHANGED <<rq, wsnap>>

\* The job raised: RQ files it as failed, then calls handle_failed_job.
JobFailed(w) ==
  /\ Goto(w, "hookRead")
  /\ started' = started \ {wrun[w]}
  /\ Forget(w)
  /\ UNCHANGED <<rq, wrun, wsnap>>

Jump(w, pc) == Goto(w, pc) /\ UNCHANGED <<redis, wrun, wn, wbuf, wnext, wsnap>>

\* An exception in a callback ends that persona's task, and the first one ends
\* the gather.  The other tasks live on while the simulator's finally awaits
\* client.close(), until asyncio.run cancels them.
Unwind(w, why) ==
  /\ Goto(w, "fanout")
  /\ wnext' = [wnext EXCEPT ![w] = IF @ = "saveEnvelope" THEN why ELSE @]
  /\ UNCHANGED <<redis, wrun, wn, wbuf, wsnap>>

\* Process start: optionally select every RUNNING row ...
Boot(w) ==
  /\ wpc[w] = "boot"
  /\ IF InterruptOnStartup
     THEN /\ Goto(w, "sweep")
          /\ wsnap' = [wsnap EXCEPT ![w] = {r \in Runs : status[r] = "running"}]
     ELSE Goto(w, "idle") /\ UNCHANGED wsnap
  /\ UNCHANGED <<db, redis, api, wrun, wn, wbuf, wnext>>

\* ... and mark the selected rows interrupted, whatever they are by then.
Sweep(w) ==
  /\ At(w, "sweep", "idle")
  /\ status' = [r \in Runs |-> IF r \in wsnap[w] /\ Exists(r)
                               THEN "interrupted" ELSE status[r]]
  /\ events' = [r \in Runs |-> IF r \in wsnap[w]
                               THEN Append(events[r], "interrupted") ELSE events[r]]
  /\ wsnap' = [wsnap EXCEPT ![w] = {}]
  /\ UNCHANGED <<done, result, partials, ledger, redis, api, wrun, wn, wbuf, wnext>>

Dequeue(w) ==
  /\ rq # <<>>
  /\ At(w, "idle", "start")
  /\ wrun' = [wrun EXCEPT ![w] = Head(rq)]
  /\ rq' = Tail(rq) /\ started' = started \cup {Head(rq)}
  /\ UNCHANGED <<db, api, wn, wbuf, wnext, wsnap>>

\* Variant: the job does not look at the status before it starts.
Start_NoCheck(w) ==
  /\ wpc[w] = "start"
  /\ \/ ~Exists(wrun[w]) /\ JobFailed(w)
     \/ Exists(wrun[w]) /\ Jump(w, "setRunning")
  /\ UNCHANGED <<db, api>>

\* get_run: a missing row raises, a canceled run is skipped.
Start(w) ==
  /\ wpc[w] = "start"
  /\ \/ ~Exists(wrun[w]) /\ JobFailed(w)
     \/ status[wrun[w]] = "canceled" /\ Finish(w)
     \/ Exists(wrun[w]) /\ status[wrun[w]] # "canceled" /\ Jump(w, "setRunning")
  /\ UNCHANGED <<db, api>>

SetRunning(w) ==
  /\ wpc[w] = "setRunning"
  /\ \/ /\ Update(wrun[w], "running") /\ done' = [done EXCEPT ![wrun[w]] = 0]
        /\ Goto(w, "evRunning")
     \/ ~Exists(wrun[w]) /\ UNCHANGED <<status, done>> /\ Goto(w, "salvage")
  /\ UNCHANGED <<result, partials, events, ledger, redis, api,
                 wrun, wn, wbuf, wnext, wsnap>>

\* append_event for the run in hand, then on to the next program point.
LogStep(w, pc, e, next) ==
  /\ At(w, pc, next)
  /\ AppendEvent(wrun[w], e)
  /\ UNCHANGED <<status, done, result, partials, ledger, redis, api,
                 wrun, wn, wnext, wsnap>>

EvRunning(w) == LogStep(w, "evRunning", "running", "fanout") /\ UNCHANGED wbuf

---------------------------------------------------------------------------
(* The persona fan-out: on_result, then on_progress, for each answer.      *)

\* on_progress reports every Stride answers and on the last one.
ReportPc(n) == IF n % Stride = 0 \/ n = Total THEN "progCheck" ELSE "fanout"

\* Variants: one answer too many; a buffer flushed one answer too late.
Respond_Extra(w) ==
  /\ wpc[w] = "fanout" /\ wn[w] <= Total
  /\ wn' = [wn EXCEPT ![w] = @ + 1]
  /\ wbuf' = [wbuf EXCEPT ![w] = @ + 1]
  /\ Goto(w, IF wbuf[w] + 1 >= Stride THEN "flushCheck" ELSE ReportPc(wn[w] + 1))
  /\ UNCHANGED <<db, redis, api, wrun, wnext, wsnap>>

Respond_LateFlush(w) ==
  /\ wpc[w] = "fanout" /\ wn[w] < Total
  /\ wn' = [wn EXCEPT ![w] = @ + 1]
  /\ wbuf' = [wbuf EXCEPT ![w] = @ + 1]
  /\ Goto(w, IF wbuf[w] + 1 > Stride THEN "flushCheck" ELSE ReportPc(wn[w] + 1))
  /\ UNCHANGED <<db, redis, api, wrun, wnext, wsnap>>

\* One persona's LLM call ends (an LLM error is an answer too).
Respond(w) ==
  /\ wpc[w] = "fanout" /\ wn[w] < Total
  /\ wn' = [wn EXCEPT ![w] = @ + 1]
  /\ wbuf' = [wbuf EXCEPT ![w] = @ + 1]
  /\ Goto(w, IF wbuf[w] + 1 >= Stride THEN "flushCheck" ELSE ReportPc(wn[w] + 1))
  /\ UNCHANGED <<db, redis, api, wrun, wnext, wsnap>>

\* Variant: progress is written without looking for a cancellation.
CheckCanceled_Skipped(w, pc, next) ==
  /\ wpc[w] = pc
  /\ Jump(w, next)
  /\ UNCHANGED <<db, api>>

\* _check_canceled.
CheckCanceled(w, pc, next) ==
  /\ wpc[w] = pc
  /\ IF status[wrun[w]] = "canceled" THEN Unwind(w, "setCanceled") ELSE Jump(w, next)
  /\ UNCHANGED <<db, api>>

FlushCheck(w) == CheckCanceled(w, "flushCheck", "flushSave")

SavePartials(w) ==
  partials' = [partials EXCEPT ![wrun[w]] = @ \cup Buffered(w)]

FlushSave(w) ==
  /\ At(w, "flushSave", "flushEvent")
  /\ SavePartials(w)
  /\ UNCHANGED <<status, done, result, events, ledger, redis, api,
                 wrun, wn, wbuf, wnext, wsnap>>

FlushEvent(w) ==
  /\ LogStep(w, "flushEvent", "partial_result", ReportPc(wn[w]))
  /\ wbuf' = [wbuf EXCEPT ![w] = 0]

ProgCheck(w) == CheckCanceled(w, "progCheck", "progSave")

ProgSave(w) ==
  /\ wpc[w] = "progSave"
  /\ \/ /\ Update(wrun[w], "running") /\ done' = [done EXCEPT ![wrun[w]] = wn[w]]
        /\ Jump(w, "progEvent")
     \/ ~Exists(wrun[w]) /\ UNCHANGED <<status, done>> /\ Unwind(w, "salvage")
  /\ UNCHANGED <<result, partials, events, ledger, api>>

ProgEvent(w) == LogStep(w, "progEvent", "progress", "fanout") /\ UNCHANGED wbuf

FanoutDone(w) ==
  /\ wpc[w] = "fanout" /\ (wn[w] = Total \/ wnext[w] # "saveEnvelope")
  /\ Jump(w, "drain")
  /\ UNCHANGED <<db, api>>

\* finally: with suppress(Exception): _flush_partials().
Drain(w) ==
  /\ wpc[w] = "drain"
  /\ \/ wbuf[w] = 0 /\ UNCHANGED partials /\ Jump(w, wnext[w])
     \/ wbuf[w] > 0 /\ SavePartials(w) /\ Jump(w, "drainEvent")
     \/ wbuf[w] > 0 /\ "raise" \in Env /\ UNCHANGED partials /\ Jump(w, wnext[w])
  /\ UNCHANGED <<status, done, result, events, ledger, api>>

DrainEvent(w) ==
  /\ wpc[w] = "drainEvent"
  /\ \/ AppendEvent(wrun[w], "partial_result") /\ wbuf' = [wbuf EXCEPT ![w] = 0]
     \/ "raise" \in Env /\ UNCHANGED <<events, wbuf>>
  /\ Goto(w, wnext[w])
  /\ UNCHANGED <<status, done, result, partials, ledger, redis, api,
                 wrun, wn, wnext, wsnap>>

---------------------------------------------------------------------------
(* After the fan-out: envelope, agents, completion, billing.               *)

\* save_result: an upsert that does not look at the runs row.
SaveResult(w, e) == result' = [result EXCEPT ![wrun[w]] = e]

\* Phase A.  A failing aggregation yields a minimal envelope, also completed.
SaveEnvelope(w) ==
  /\ At(w, "saveEnvelope", "agents")
  /\ SaveResult(w, "completed")
  /\ UNCHANGED <<status, done, partials, events, ledger, redis, api,
                 wrun, wn, wbuf, wnext, wsnap>>

\* Phase B degrades inside the envelope and cannot raise; the raw results are
\* upserted as partial rows, and a failure of that is suppressed.
Agents(w) ==
  /\ At(w, "agents", "saveFinal")
  /\ \/ partials' = [partials EXCEPT ![wrun[w]] = 1..Total]
     \/ "raise" \in Env /\ UNCHANGED partials
  /\ UNCHANGED <<status, done, result, events, ledger, redis, api,
                 wrun, wn, wbuf, wnext, wsnap>>

SaveFinal(w) ==
  /\ At(w, "saveFinal", "setCompleted")
  /\ SaveResult(w, "completed")
  /\ UNCHANGED <<status, done, partials, events, ledger, redis, api,
                 wrun, wn, wbuf, wnext, wsnap>>

\* Variant: a run whose row is gone is charged all the same.
SetCompleted_Gone(w) ==
  /\ wpc[w] = "setCompleted"
  /\ \/ /\ Update(wrun[w], "completed") /\ done' = [done EXCEPT ![wrun[w]] = Requested]
     \/ ~Exists(wrun[w]) /\ UNCHANGED <<status, done>>
  /\ Jump(w, "charge")
  /\ UNCHANGED <<result, partials, events, ledger, api>>

\* COMPLETED without another look at the status, and total_count as done_count
\* however many answered.
SetCompleted(w) ==
  /\ wpc[w] = "setCompleted"
  /\ \/ /\ Update(wrun[w], "completed") /\ done' = [done EXCEPT ![wrun[w]] = Requested]
        /\ Jump(w, "charge")
     \/ ~Exists(wrun[w]) /\ UNCHANGED <<status, done>> /\ Jump(w, "salvage")
  /\ UNCHANGED <<result, partials, events, ledger, api>>

\* Variant: a ledger failure is suppressed and the run still completes.
Charge_Suppressed(w) ==
  /\ At(w, "charge", "evCompleted")
  /\ \/ ledger' = [ledger EXCEPT ![wrun[w]] = @ + 1]
     \/ UNCHANGED ledger
  /\ UNCHANGED <<status, done, result, partials, events, redis, api,
                 wrun, wn, wbuf, wnext, wsnap>>

\* complete_free_run: one run_completed row per run.  Its SELECT and INSERT are
\* one step because only the run's executor calls it (SingleExecutor).
Charge(w) ==
  /\ At(w, "charge", "evCompleted")
  /\ ledger' = IF ledger[wrun[w]] > 0 THEN ledger
               ELSE [ledger EXCEPT ![wrun[w]] = @ + 1]
  /\ UNCHANGED <<status, done, result, partials, events, redis, api,
                 wrun, wn, wbuf, wnext, wsnap>>

\* The job's last event, after which it returns.
LogAndFinish(w, pc, e) ==
  /\ wpc[w] = pc
  /\ AppendEvent(wrun[w], e)
  /\ Finish(w)
  /\ UNCHANGED <<status, done, result, partials, ledger, api>>

EvCompleted(w) == LogAndFinish(w, "evCompleted", "completed")

---------------------------------------------------------------------------
(* The exception handlers of the job.                                      *)

\* except WorkerCanceled.  A KeyError here leaves the job.
SetCanceled(w) ==
  /\ wpc[w] = "setCanceled"
  /\ \/ Update(wrun[w], "canceled") /\ Jump(w, "evCanceled")
     \/ ~Exists(wrun[w]) /\ UNCHANGED status /\ JobFailed(w)
  /\ UNCHANGED <<done, result, partials, events, ledger, api>>

EvCanceled(w) == LogAndFinish(w, "evCanceled", "canceled")

\* Variants: the failed envelope replaces any other; has_result is not negated.
Salvage_Overwrite(w) ==
  /\ At(w, "salvage", "setFailed")
  /\ SaveResult(w, "failed")
  /\ UNCHANGED <<status, done, partials, events, ledger, redis, api,
                 wrun, wn, wbuf, wnext, wsnap>>

Salvage_Inverted(w) ==
  /\ At(w, "salvage", "setFailed")
  /\ result' = IF result[wrun[w]] # "none"
               THEN [result EXCEPT ![wrun[w]] = "failed"] ELSE result
  /\ UNCHANGED <<status, done, partials, events, ledger, redis, api,
                 wrun, wn, wbuf, wnext, wsnap>>

\* except Exception: keep an envelope that exists, else save a failed one;
\* an error in doing so is suppressed.
Salvage(w) ==
  /\ At(w, "salvage", "setFailed")
  /\ \/ result' = IF result[wrun[w]] = "none"
                  THEN [result EXCEPT ![wrun[w]] = "failed"] ELSE result
     \/ "store" \in Env /\ UNCHANGED result
  /\ UNCHANGED <<status, done, partials, events, ledger, redis, api,
                 wrun, wn, wbuf, wnext, wsnap>>

SetFailed(w) ==
  /\ wpc[w] = "setFailed"
  /\ \/ Update(wrun[w], "failed") /\ Jump(w, "evFailed")
     \/ ~Exists(wrun[w]) /\ UNCHANGED status /\ JobFailed(w)
  /\ UNCHANGED <<done, result, partials, events, ledger, api>>

\* The FAILED event, then the exception is raised again.
EvFailed(w) ==
  /\ wpc[w] = "evFailed"
  /\ AppendEvent(wrun[w], "failed")
  /\ JobFailed(w)
  /\ UNCHANGED <<status, done, result, partials, ledger, api>>

\* Variant: the hook only looks after runs that were already running.
HookRead_RunningOnly(w) ==
  /\ wpc[w] = "hookRead"
  /\ IF status[wrun[w]] # "running" THEN Finish(w) ELSE Jump(w, "hookSet")
  /\ UNCHANGED <<db, api>>

\* handle_failed_job.  COMPLETED is not among the statuses it leaves alone.
HookRead(w) ==
  /\ wpc[w] = "hookRead"
  /\ IF ~Exists(wrun[w]) \/ status[wrun[w]] \in {"failed", "canceled", "interrupted"}
     THEN Finish(w) ELSE Jump(w, "hookSet")
  /\ UNCHANGED <<db, api>>

\* A KeyError in the hook ends the worker's loop, and the process with it.
HookSet(w) ==
  /\ wpc[w] = "hookSet"
  /\ \/ Update(wrun[w], "failed") /\ Jump(w, "hookEvent")
     \/ /\ ~Exists(wrun[w])
        /\ Goto(w, "dead") /\ wrun' = [wrun EXCEPT ![w] = NoRun]
        /\ UNCHANGED <<status, redis, wn, wbuf, wnext, wsnap>>
  /\ UNCHANGED <<done, result, partials, events, ledger, api>>

HookEvent(w) == LogAndFinish(w, "hookEvent", "failed")

---------------------------------------------------------------------------
(* What the environment does to a worker.                                  *)

\* An exception in the try body: a SQLite error, a failing sampler or parser,
\* RQ's 30 min job timeout.
Raise(w) ==
  /\ "raise" \in Env
  /\ \/ wpc[w] \in FanoutPc /\ Unwind(w, "salvage")
     \/ wpc[w] \in TryPc /\ Jump(w, "salvage")
  /\ UNCHANGED <<db, api>>

\* An exception before the try body or inside an exception handler leaves the
\* job.
Escape(w) ==
  /\ "store" \in Env
  /\ wpc[w] \in {"start", "setCanceled", "evCanceled", "setFailed", "evFailed"}
  /\ JobFailed(w)
  /\ UNCHANGED <<db, api>>

\* The process dies; RQ still lists the job as started.
Crash(w) ==
  /\ "crash" \in Env /\ wpc[w] # "dead"
  /\ Goto(w, "dead")
  /\ wrun'  = [wrun EXCEPT ![w] = NoRun]
  /\ wsnap' = [wsnap EXCEPT ![w] = {}]
  /\ Forget(w)
  /\ UNCHANGED <<db, redis, api>>

Restart(w) ==
  /\ At(w, "dead", "boot")
  /\ UNCHANGED <<db, redis, api, wrun, wn, wbuf, wnext, wsnap>>

\* Variant: the registry entry expires while the job is still executing.
Abandon_Live(w, r) ==
  /\ r \in started
  /\ At(w, "idle", "hookRead")
  /\ wrun' = [wrun EXCEPT ![w] = r]
  /\ UNCHANGED <<db, redis, api, wn, wbuf, wnext, wsnap>>

\* A started job whose executor is dead outlives its registry entry (31 min);
\* an idle worker's maintenance calls the exception handler for it.
Abandon(w, r) ==
  /\ r \in started /\ \A v \in Workers : wrun[v] # r
  /\ At(w, "idle", "hookRead")
  /\ wrun' = [wrun EXCEPT ![w] = r]
  /\ UNCHANGED <<db, redis, api, wn, wbuf, wnext, wsnap>>

WorkerStep(w) ==
  \/ Restart(w) \/ Boot(w) \/ Sweep(w) \/ Dequeue(w) \/ Start(w)
  \/ SetRunning(w) \/ EvRunning(w)
  \/ Respond(w) \/ FlushCheck(w) \/ FlushSave(w) \/ FlushEvent(w)
  \/ ProgCheck(w) \/ ProgSave(w) \/ ProgEvent(w)
  \/ FanoutDone(w) \/ Drain(w) \/ DrainEvent(w)
  \/ SaveEnvelope(w) \/ Agents(w) \/ SaveFinal(w)
  \/ SetCompleted(w) \/ Charge(w) \/ EvCompleted(w)
  \/ SetCanceled(w) \/ EvCanceled(w)
  \/ Salvage(w) \/ SetFailed(w) \/ EvFailed(w)
  \/ HookRead(w) \/ HookSet(w) \/ HookEvent(w)
  \/ \E r \in Runs : Abandon(w, r)

WorkerFault(w) == Raise(w) \/ Escape(w) \/ Crash(w)

Next == Api \/ \E w \in Workers : WorkerStep(w) \/ WorkerFault(w)

Spec == Init /\ [][Next]_vars

\* Workers keep running and dead ones are restarted; the API finishes the
\* handler it is in.  Nobody is obliged to create, cancel or delete, and
\* faults may hit any number of times but not forever.
Fairness ==
  /\ \A w \in Workers : WF_vars(WorkerStep(w))
  /\ WF_vars(CreateInsert \/ Enqueue \/ NoteQueued \/ CreateFail
             \/ CancelSet \/ CancelEvent)
  /\ <>[][~ \E w \in Workers : Crash(w)]_vars

FairSpec == Spec /\ Fairness

---------------------------------------------------------------------------
TypeOK ==
  /\ status   \in [Runs -> RowStatus \cup {"new", "gone"}]
  /\ done     \in [Runs -> (0..Total) \cup {Requested}]
  /\ result   \in [Runs -> Envelope]
  /\ partials \in [Runs -> SUBSET (1..Total)]
  /\ events   \in [Runs -> Seq(RunEvent)]
  /\ ledger   \in [Runs -> Nat]
  /\ rq \in Seq(Runs) /\ started \subseteq Runs
  /\ apc \in ApiPc /\ arun \in Runs \cup {NoRun}
  /\ wpc   \in [Workers -> WorkerPc]
  /\ wrun  \in [Workers -> Runs \cup {NoRun}]
  /\ wn    \in [Workers -> 0..Total]
  /\ wbuf  \in [Workers -> 0..Total]
  /\ wnext \in [Workers -> {"saveEnvelope", "setCanceled", "salvage"}]
  /\ wsnap \in [Workers -> SUBSET Runs]

---------------------------------------------------------------------------
(* Properties that hold with every environment event enabled.              *)

\* A run is executed by one worker at a time, and a queued run by none.
SingleExecutor ==
  /\ \A v, w \in Workers : wrun[v] = wrun[w] /\ wrun[v] # NoRun => v = w
  /\ \A i \in DOMAIN rq : \A w \in Workers : wrun[w] # rq[i]
  /\ \A i, j \in DOMAIN rq : rq[i] = rq[j] => i = j

\* Whoever sees COMPLETED as a status or an event, and whoever is billed, finds
\* a completed envelope, whatever failed or was retried after it was saved.
ResultBacked ==
  \A r \in Runs :
    /\ Exists(r)
    /\ status[r] = "completed" \/ Logged(r, "completed") \/ ledger[r] > 0
    => result[r] = "completed"

\* At most one ledger row per run, and a COMPLETED event only after it.
BilledOnce ==
  \A r \in Runs : /\ ledger[r] <= 1
                  /\ Exists(r) /\ Logged(r, "completed") => ledger[r] = 1

\* The answers a run reports that have no partial row.
Unsaved(r) == ((1..done[r]) \cap (1..Total)) \ partials[r]

\* What a run that is running or was interrupted reports as done can be shown:
\* fewer than Stride of the reported answers are not yet saved as partial rows,
\* even when a flush failed on the way.
PartialsCoverProgress ==
  \A r \in Runs :
    status[r] \in {"running", "interrupted"} => Cardinality(Unsaved(r)) < Stride

\* The progress a client sees, done_count over total_count cut at 100 per cent.
Shown(n) == IF n < Requested THEN n ELSE Requested

\* Neither the progress a client sees nor, before the run is completed, the
\* done_count behind it ever goes back.  Completion may set done_count back:
\* a draw larger than the request has counted past total_count by then.
ProgressMonotonic ==
  [][\A r \in Runs :
       (Exists(r))' => /\ Shown(done'[r]) >= Shown(done[r])
                       /\ status'[r] = "completed" \/ done'[r] >= done[r]]_vars

\* Someone will still write the status of r without looking at it again.
Held(r) ==
  \/ \E w \in Workers : \/ wrun[w] = r /\ wpc[w] \notin {"start", "hookRead"}
                        \/ r \in wsnap[w]
  \/ arun = r

\* A canceled run that nobody holds stays canceled and is never started.
CancelSettled ==
  [][\A r \in Runs :
       status[r] = "canceled" /\ ~Held(r)
         => status'[r] \in {"canceled", "gone"} /\ (~Held(r))']_vars

(* Properties of restricted environments.                                  *)

\* D-1 invariants I1 to I3: while the store works and nobody deletes the run, a
\* run that failed in a worker still has an envelope.
FailedKeepsEnvelope ==
  \A r \in Runs : Logged(r, "failed") => result[r] # "none"

\* A queued job ends in a terminal status and stays there, even if the workers
\* crash on the way.
EverySettles ==
  \A r \in Runs : (\E i \in DOMAIN rq : rq[i] = r)
                     ~> [](Terminal(r) \/ status[r] = "gone")

\* A cancel that lands while personas are still being asked is obeyed: nothing
\* the job does afterwards completes the run, it ends canceled (or failed, when
\* an exception came first).
CancelObeyed ==
  \A r \in Runs :
    (/\ status[r] = "canceled"
     /\ \E w \in Workers : wrun[w] = r /\ wpc[w] = "fanout" /\ wn[w] < Total)
      ~> [](Terminal(r) /\ status[r] # "completed")

(* The contract with the customer that the lifecycle implements.          *)
Billing == INSTANCE RunBilling WITH
  accepted  <- {r \in Runs : Exists(r)},
  forgotten <- {r \in Runs : status[r] = "gone"},
  published <- {r \in Runs : Exists(r) /\ result[r] = "completed"},
  billed    <- {r \in Runs : ledger[r] > 0},
  owed      <- {r \in Runs : /\ status[r] = "gone"
                              /\ \E w \in Workers : wrun[w] = r /\ wpc[w] = "charge"}

\* Each step of the processes is a step of RunBilling or invisible to it.
ImplementsBilling == Billing!Spec

(* What the documents say, and the code does not do.                       *)

\* tests/test_api_app.py:706, a completed run cannot be canceled.
CompletedNotCanceled ==
  [][\A r \in Runs : status[r] = "completed" => status'[r] # "canceled"]_vars

\* scripts/run_worker.py:71, "Worker failed before the run completed."
HookSparesCompleted ==
  [][\A r \in Runs : status[r] = "completed" => status'[r] # "failed"]_vars

\* README.md:26, a positive limit is enforced per account.
QuotaEnforced ==
  FreeLimit > 0 => \A u \in Users : UsedRuns(u) <= FreeLimit

=============================================================================
