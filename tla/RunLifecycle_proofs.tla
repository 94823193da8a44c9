------------------------- MODULE RunLifecycle_proofs -------------------------
(***************************************************************************)
(* Proofs about RunLifecycle for any numbers of runs, accounts and worker  *)
(* processes, any request, draw and stride, and every environment event.   *)
(***************************************************************************)
EXTENDS RunLifecycle, FiniteSetTheorems, TLAPS

\* A worker never holds more unflushed answers than it has received.
BufferOK == \A w \in Workers : wbuf[w] <= wn[w]

\* Program points at which a worker has no run.
Free == {"dead", "boot", "sweep", "idle"}

\* Whoever is inside a handler or a job has a run in hand.
InHand == /\ apc # "idle" => arun \in Runs
          /\ \A w \in Workers : wpc[w] \notin Free <=> wrun[w] \in Runs

\* The two halves of the type invariant: the SQLite tables and the rest.
StoreTypes ==
  /\ status   \in [Runs -> RowStatus \cup {"new", "gone"}]
  /\ done     \in [Runs -> (0..Total) \cup {Requested}]
  /\ result   \in [Runs -> Envelope]
  /\ partials \in [Runs -> SUBSET (1..Total)]
  /\ events   \in [Runs -> Seq(RunEvent)]
  /\ ledger   \in [Runs -> Nat]

ControlTypes ==
  /\ rq \in Seq(Runs) /\ started \subseteq Runs
  /\ apc \in ApiPc /\ arun \in Runs \cup {NoRun}
  /\ wpc   \in [Workers -> WorkerPc]
  /\ wrun  \in [Workers -> Runs \cup {NoRun}]
  /\ wn    \in [Workers -> 0..Total]
  /\ wbuf  \in [Workers -> 0..Total]
  /\ wnext \in [Workers -> {"saveEnvelope", "setCanceled", "salvage"}]
  /\ wsnap \in [Workers -> SUBSET Runs]
  /\ BufferOK
  /\ InHand

TypeInv == StoreTypes /\ ControlTypes

\* A queue or a log of typed entries stays one.
LEMMA SequenceTypes ==
  ASSUME NEW S, NEW s \in Seq(S)
  PROVE  /\ s # <<>> => Head(s) \in S /\ Tail(s) \in Seq(S)
         /\ \A x \in S : Append(s, x) \in Seq(S)
OBVIOUS

\* append_event keeps the logs typed.
LEMMA LogTypes ==
  ASSUME NEW r, NEW e \in RunEvent, events \in [Runs -> Seq(RunEvent)], AppendEvent(r, e)
  PROVE  events' \in [Runs -> Seq(RunEvent)]
<1>1. ASSUME NEW q \in Runs PROVE Append(events[q], e) \in Seq(RunEvent)
  BY SequenceTypes
<1>2. QED BY <1>1 DEF AppendEvent

\* The steps of the API process keep the types.
LEMMA ApiTypes == TypeInv /\ Api => TypeInv'
<1> SUFFICES ASSUME TypeInv, Api PROVE TypeInv'
  OBVIOUS
<1> USE LifecycleConstants DEF TypeInv, StoreTypes, ControlTypes, BufferOK, InHand, db, redis, worker, ApiGoto, ApiPc,
        RowStatus, TerminalStatus, Envelope
<1>1. ASSUME NEW r \in Runs, CreateCheck(r) \/ CancelRead(r) PROVE TypeInv'
  BY <1>1 DEF CreateCheck, CancelRead
<1>2. CASE CreateInsert
  <2>1. ASSUME NEW s \in Seq(RunEvent) PROVE s \o <<"created", "queued">> \in Seq(RunEvent)
    BY DEF RunEvent
  <2>2. events' \in [Runs -> Seq(RunEvent)]
    BY <1>2, <2>1 DEF CreateInsert
  <2>3. QED BY <1>2, <2>2 DEF CreateInsert
<1>3. CASE Enqueue
  <2>1. Append(rq, arun) \in Seq(Runs)
    BY <1>3, SequenceTypes DEF Enqueue
  <2>2. QED BY <1>3, <2>1 DEF Enqueue
<1>4. CASE NoteQueued \/ CancelEvent
  <2>1. events' \in [Runs -> Seq(RunEvent)]
    BY <1>4, LogTypes DEF NoteQueued, CancelEvent, RunEvent
  <2>2. QED BY <1>4, <2>1 DEF NoteQueued, CancelEvent
<1>5. CASE CreateFail \/ CancelSet
  BY <1>5 DEF CreateFail, CancelSet, Update
<1>6. ASSUME NEW u \in Users, DeleteUser(u) PROVE TypeInv'
  BY <1>6 DEF DeleteUser, api, Exists
<1>7. CASE ApiCrash
  BY <1>7 DEF ApiCrash
<1>8. QED BY <1>1, <1>2, <1>3, <1>4, <1>5, <1>6, <1>7 DEF Api


\* What a worker does to its control state: it moves within its job, leaves
\* the job, or hands the job to the failure hook.
LEMMA MoveTypes ==
  ASSUME ControlTypes, NEW w \in Workers, NEW pc \in WorkerPc \ Free,
         wpc[w] \notin Free, Goto(w, pc),
         UNCHANGED <<redis, api, wrun, wn, wsnap>>,
         wbuf' = wbuf \/ wbuf' = [wbuf EXCEPT ![w] = 0],
         NEW why \in {"saveEnvelope", "setCanceled", "salvage"},
         wnext' = wnext \/ wnext' = [wnext EXCEPT ![w] = why]
  PROVE  ControlTypes'
<1> USE DEF ControlTypes, Goto, redis, api
<1>1. BufferOK'
  <2> SUFFICES ASSUME NEW v \in Workers PROVE wbuf'[v] <= wn'[v]
    BY DEF BufferOK
  <2>1. wbuf[v] <= wn[v] /\ wn[v] \in Nat
    BY LifecycleConstants DEF BufferOK
  <2>2. wbuf'[v] = wbuf[v] \/ wbuf'[v] = 0
    OBVIOUS
  <2>3. QED BY <2>1, <2>2
<1>2. InHand'
  BY DEF InHand
<1>3. wbuf' \in [Workers -> 0..Total]
  BY LifecycleConstants
<1>4. QED BY <1>1, <1>2, <1>3

\* Leaving a job resets its local variables and keeps the types.
LEMMA LeaveTypes ==
  ASSUME ControlTypes, NEW w \in Workers, wpc[w] \notin Free,
         Finish(w) \/ JobFailed(w), UNCHANGED api
  PROVE  ControlTypes'
<1>1. PICK pc \in {"idle", "hookRead"} :
        /\ wpc' = [wpc EXCEPT ![w] = pc]
        /\ wrun' = IF pc = "idle" THEN [wrun EXCEPT ![w] = NoRun] ELSE wrun
  BY DEF Finish, JobFailed, Goto
<1>2. /\ wn' = [wn EXCEPT ![w] = 0] /\ wbuf' = [wbuf EXCEPT ![w] = 0]
      /\ wnext' = [wnext EXCEPT ![w] = "saveEnvelope"]
      /\ started' \subseteq started /\ UNCHANGED <<rq, wsnap>>
  BY DEF Finish, JobFailed, Forget
<1> USE LifecycleConstants DEF ControlTypes
<1>3. BufferOK'
  <2> SUFFICES ASSUME NEW v \in Workers PROVE wbuf'[v] <= wn'[v]
    BY DEF BufferOK
  <2>1. QED BY <1>2 DEF BufferOK
<1>4. InHand'
  BY <1>1 DEF InHand, Free, api
<1>5. wpc' \in [Workers -> WorkerPc] /\ wrun' \in [Workers -> Runs \cup {NoRun}]
  BY <1>1 DEF WorkerPc, HookPc
<1>6. wn' \in [Workers -> 0..Total] /\ wbuf' \in [Workers -> 0..Total]
  BY <1>2
<1>7. QED BY <1>2, <1>3, <1>4, <1>5, <1>6 DEF api

\* The steps of a worker and its faults keep the control state typed.
LEMMA WorkerControl ==
  ASSUME TypeInv, NEW w \in Workers, WorkerStep(w) \/ WorkerFault(w)
  PROVE  ControlTypes'
<1>0. ControlTypes
  BY DEF TypeInv
<1> USE DEF Jump, At
<1>1. CASE FlushSave(w) \/ SaveEnvelope(w) \/ Agents(w) \/ SaveFinal(w) \/ Charge(w) \/ Salvage(w)
  <2>1. PICK pc \in {"flushEvent", "agents", "saveFinal", "setCompleted", "evCompleted", "setFailed"} :
          /\ wpc[w] \notin Free /\ Goto(w, pc)
          /\ UNCHANGED <<redis, api, wrun, wn, wbuf, wnext, wsnap>>
    BY <1>1 DEF FlushSave, SaveEnvelope, Agents, SaveFinal, Charge, Salvage, Free
  <2>2. pc \in WorkerPc \ Free
    BY DEF WorkerPc, FanoutPc, TryPc, ExceptPc, Free
  <2>3. QED BY <1>0, <2>1, <2>2, MoveTypes
<1>2. CASE EvRunning(w) \/ FlushEvent(w) \/ ProgEvent(w)
  <2>1. PICK pc \in {"fanout", "progCheck"} :
          /\ wpc[w] \notin Free /\ Goto(w, pc)
          /\ UNCHANGED <<redis, api, wrun, wn, wnext, wsnap>>
          /\ wbuf' = wbuf \/ wbuf' = [wbuf EXCEPT ![w] = 0]
    BY <1>2 DEF EvRunning, FlushEvent, ProgEvent, LogStep, ReportPc, Free
  <2>2. pc \in WorkerPc \ Free
    BY DEF WorkerPc, FanoutPc, Free
  <2>3. QED BY <1>0, <2>1, <2>2, MoveTypes
<1>3. CASE Drain(w) \/ DrainEvent(w)
  <2>1. wnext[w] \in {"saveEnvelope", "setCanceled", "salvage"}
    BY <1>0 DEF ControlTypes
  <2>2. PICK pc \in {"drainEvent", "saveEnvelope", "setCanceled", "salvage"} :
          /\ wpc[w] \notin Free /\ Goto(w, pc)
          /\ UNCHANGED <<redis, api, wrun, wn, wnext, wsnap>>
          /\ wbuf' = wbuf \/ wbuf' = [wbuf EXCEPT ![w] = 0]
    BY <1>3, <2>1 DEF Drain, DrainEvent, Free
  <2>3. pc \in WorkerPc \ Free
    BY DEF WorkerPc, DrainPc, TryPc, ExceptPc, Free
  <2>4. QED BY <1>0, <2>2, <2>3, MoveTypes
<1>4. CASE FlushCheck(w) \/ ProgCheck(w) \/ FanoutDone(w) \/ Raise(w) \/ SetRunning(w) \/ ProgSave(w)
           \/ SetCompleted(w)
  <2>1. PICK pc \in {"flushSave", "progSave", "drain", "fanout", "salvage", "evRunning", "progEvent", "charge"} :
          \E why \in {"saveEnvelope", "setCanceled", "salvage"} :
            /\ wpc[w] \notin Free /\ Goto(w, pc)
            /\ UNCHANGED <<redis, api, wrun, wn, wbuf, wsnap>>
            /\ wnext' = wnext \/ wnext' = [wnext EXCEPT ![w] = why]
    BY <1>0, <1>4 DEF FlushCheck, ProgCheck, CheckCanceled, FanoutDone, Raise, SetRunning, ProgSave,
       SetCompleted, Unwind, FanoutPc, TryPc, Free, ControlTypes
  <2>2. pc \in WorkerPc \ Free
    BY DEF WorkerPc, FanoutPc, DrainPc, TryPc, ExceptPc, Free
  <2>3. QED BY <1>0, <2>1, <2>2, MoveTypes
<1>5. CASE Start(w) \/ HookRead(w) \/ SetCanceled(w) \/ SetFailed(w) \/ Escape(w)
           \/ EvCompleted(w) \/ EvCanceled(w) \/ HookEvent(w) \/ EvFailed(w)
  <2>1. wpc[w] \notin Free /\ UNCHANGED api
    BY <1>5 DEF Start, HookRead, SetCanceled, SetFailed, Escape, EvCompleted, EvCanceled, HookEvent,
       EvFailed, LogAndFinish, Free
  <2>2. CASE Finish(w) \/ JobFailed(w)
    BY <1>0, <2>1, <2>2, LeaveTypes
  <2>3. CASE ~Finish(w) /\ ~JobFailed(w)
    <3>1. PICK pc \in {"setRunning", "hookSet", "evCanceled", "evFailed"} : Jump(w, pc)
      BY <1>5, <2>3 DEF Start, HookRead, SetCanceled, SetFailed, Escape, EvCompleted, EvCanceled,
         HookEvent, EvFailed, LogAndFinish
    <3>2. pc \in WorkerPc \ Free
      BY DEF WorkerPc, TryPc, ExceptPc, HookPc, Free
    <3>3. QED BY <1>0, <2>1, <3>1, <3>2, MoveTypes
  <2>4. QED BY <2>2, <2>3
<1>6. CASE HookSet(w)
  <2>1. wpc[w] \notin Free /\ UNCHANGED api
    BY <1>6 DEF HookSet, Free
  <2>2. CASE Jump(w, "hookEvent")
    BY <1>0, <2>1, <2>2, MoveTypes DEF WorkerPc, HookPc, Free
  <2>3. CASE /\ Goto(w, "dead") /\ wrun' = [wrun EXCEPT ![w] = NoRun]
             /\ UNCHANGED <<redis, wn, wbuf, wnext, wsnap>>
    <3>1. wpc' \in [Workers -> WorkerPc] /\ wrun' \in [Workers -> Runs \cup {NoRun}]
      BY <1>0, <2>3 DEF ControlTypes, Goto, WorkerPc
    <3>2. BufferOK' /\ InHand'
      BY <1>0, <2>1, <2>3, LifecycleConstants DEF ControlTypes, Goto, BufferOK, InHand, Free, api
    <3>3. QED BY <1>0, <2>1, <2>3, <3>1, <3>2 DEF ControlTypes, api, redis
  <2>4. QED BY <1>6, <2>2, <2>3 DEF HookSet
<1>7. CASE Restart(w) \/ Boot(w) \/ Sweep(w) \/ Crash(w)
  <2> USE LifecycleConstants DEF ControlTypes, Goto, api, redis, Forget
  <2>1. wpc' \in [Workers -> WorkerPc] /\ wrun' \in [Workers -> Runs \cup {NoRun}]
    BY <1>0, <1>7 DEF Restart, Boot, Sweep, Crash, WorkerPc
  <2>2. InHand'
    BY <1>0, <1>7 DEF Restart, Boot, Sweep, Crash, InHand, Free
  <2>3. CASE Crash(w)
    <3>1. ASSUME NEW v \in Workers PROVE wbuf'[v] <= wn'[v]
      <4>1. wbuf[v] <= wn[v]
        BY <1>0 DEF BufferOK
      <4>2. \/ wbuf'[v] = 0 /\ wn'[v] = 0
            \/ wbuf'[v] = wbuf[v] /\ wn'[v] = wn[v]
        BY <1>0, <2>3 DEF Crash
      <4>3. QED BY <4>1, <4>2
    <3>2. wn' \in [Workers -> 0..Total] /\ wbuf' \in [Workers -> 0..Total]
      BY <1>0, <2>3 DEF Crash
    <3>3. wnext' \in [Workers -> {"saveEnvelope", "setCanceled", "salvage"}]
      BY <1>0, <2>3 DEF Crash
    <3>4. wsnap' \in [Workers -> SUBSET Runs]
      BY <1>0, <2>3 DEF Crash
    <3>5. QED BY <1>0, <2>1, <2>2, <2>3, <3>1, <3>2, <3>3, <3>4 DEF Crash, BufferOK
  <2>4. CASE Restart(w) \/ Boot(w) \/ Sweep(w)
    <3>1. wsnap' \in [Workers -> SUBSET Runs]
      <4>1. PICK rows \in SUBSET Runs : wsnap' = wsnap \/ wsnap' = [wsnap EXCEPT ![w] = rows]
        BY <2>4 DEF Restart, Boot, Sweep
      <4>2. QED BY <1>0, <4>1
    <3>2. UNCHANGED <<wn, wbuf, wnext, rq, started, apc, arun>>
      BY <2>4 DEF Restart, Boot, Sweep
    <3>3. BufferOK'
      BY <1>0, <3>2 DEF BufferOK
    <3>4. QED BY <1>0, <2>1, <2>2, <3>1, <3>2, <3>3
  <2>5. QED BY <1>7, <2>3, <2>4
<1>8. CASE Dequeue(w)
  <2>1. Head(rq) \in Runs /\ Tail(rq) \in Seq(Runs)
    BY <1>0, <1>8, SequenceTypes DEF Dequeue, ControlTypes
  <2>2. QED BY <1>0, <1>8, <2>1
        DEF Dequeue, ControlTypes, BufferOK, InHand, Free, WorkerPc, Goto, api
<1>9. ASSUME NEW r \in Runs, Abandon(w, r) PROVE ControlTypes'
  BY <1>0, <1>9 DEF Abandon, ControlTypes, BufferOK, InHand, Free, WorkerPc, HookPc, Goto, api, redis
<1>10. CASE Respond(w)
  <2> USE LifecycleConstants DEF ControlTypes, Respond, Goto, redis, api
  <2>1. ReportPc(wn[w] + 1) \in {"progCheck", "fanout"}
    BY DEF ReportPc
  <2>2. BufferOK' /\ InHand'
    BY <1>0, <1>10, <2>1 DEF BufferOK, InHand, Free
  <2>3. wpc' \in [Workers -> WorkerPc]
    BY <1>0, <1>10, <2>1 DEF WorkerPc, FanoutPc
  <2>4. wn' \in [Workers -> 0..Total] /\ wbuf' \in [Workers -> 0..Total]
    BY <1>0, <1>10 DEF BufferOK
  <2>5. QED BY <1>0, <1>10, <2>2, <2>3, <2>4
<1>11. QED
  BY <1>1, <1>2, <1>3, <1>4, <1>5, <1>6, <1>7, <1>8, <1>9, <1>10 DEF WorkerStep, WorkerFault

\* ... and the tables.
LEMMA WorkerStore ==
  ASSUME TypeInv, NEW w \in Workers, WorkerStep(w) \/ WorkerFault(w)
  PROVE  StoreTypes'
<1>0. StoreTypes /\ ControlTypes
  BY DEF TypeInv
<1> USE LifecycleConstants DEF StoreTypes, db
<1>1. CASE UNCHANGED db
  BY <1>0, <1>1
<1>2. CASE SetRunning(w) \/ ProgSave(w) \/ SetCompleted(w) \/ SetCanceled(w) \/ SetFailed(w) \/ HookSet(w)
  <2>1. status' \in [Runs -> RowStatus \cup {"new", "gone"}]
    BY <1>0, <1>2 DEF SetRunning, ProgSave, SetCompleted, SetCanceled, SetFailed, HookSet, Update,
       RowStatus, TerminalStatus
  <2>2. done' \in [Runs -> (0..Total) \cup {Requested}]
    <3>1. 0 \in 0..Total /\ wn[w] \in 0..Total
      BY <1>0 DEF ControlTypes
    <3>2. done' = done \/ \E n \in (0..Total) \cup {Requested} : done' = [done EXCEPT ![wrun[w]] = n]
      BY <1>2, <3>1 DEF SetRunning, ProgSave, SetCompleted, SetCanceled, SetFailed, HookSet
    <3>3. QED BY ONLY <1>0, <3>2 DEF StoreTypes
  <2>3. UNCHANGED <<result, partials, events, ledger>>
    BY <1>2 DEF SetRunning, ProgSave, SetCompleted, SetCanceled, SetFailed, HookSet
  <2>4. QED BY <1>0, <2>1, <2>2, <2>3
<1>3. CASE \E e \in RunEvent : AppendEvent(wrun[w], e) /\ UNCHANGED <<status, done, result, partials, ledger>>
  <2>1. events' \in [Runs -> Seq(RunEvent)]
    BY <1>0, <1>3, LogTypes
  <2>2. QED BY <1>0, <1>3, <2>1
<1>4. CASE Sweep(w)
  <2>1. ASSUME NEW r \in Runs PROVE Append(events[r], "interrupted") \in Seq(RunEvent)
    BY <1>0, SequenceTypes DEF RunEvent, TerminalStatus
  <2>2. events' \in [Runs -> Seq(RunEvent)]
    BY <1>0, <1>4, <2>1 DEF Sweep
  <2>3. status' \in [Runs -> RowStatus \cup {"new", "gone"}]
    BY <1>0, <1>4 DEF Sweep, RowStatus, TerminalStatus
  <2>4. QED BY <1>0, <1>4, <2>2, <2>3 DEF Sweep
<1>5. CASE FlushSave(w) \/ Drain(w) \/ Agents(w)
  <2>1. Buffered(w) \subseteq 1..Total
    BY <1>0 DEF ControlTypes, BufferOK, Buffered
  <2>2. partials' \in [Runs -> SUBSET (1..Total)]
    <3>1. \/ partials' = partials
          \/ partials' = [partials EXCEPT ![wrun[w]] = @ \cup Buffered(w)]
          \/ partials' = [partials EXCEPT ![wrun[w]] = 1..Total]
      BY <1>5 DEF FlushSave, Drain, Agents, SavePartials
    <3>2. partials \in [Runs -> SUBSET (1..Total)]
      BY <1>0
    <3>3. ASSUME NEW r \in Runs PROVE partials[r] \cup Buffered(w) \in SUBSET (1..Total)
      BY ONLY <2>1, <3>2
    <3>4. ASSUME NEW P, \A r \in Runs : r = wrun[w] => P[r] \in SUBSET (1..Total),
                 partials' = [partials EXCEPT ![wrun[w]] = P[wrun[w]]]
          PROVE  partials' \in [Runs -> SUBSET (1..Total)]
      BY ONLY <3>2, <3>4
    <3>5. CASE partials' = [partials EXCEPT ![wrun[w]] = @ \cup Buffered(w)]
      <4> DEFINE P == [r \in Runs |-> partials[r] \cup Buffered(w)]
      <4>1. CASE wrun[w] \in Runs
        <5>1. partials' = [partials EXCEPT ![wrun[w]] = P[wrun[w]]]
          BY <3>5, <4>1
        <5>2. \A r \in Runs : r = wrun[w] => P[r] \in SUBSET (1..Total)
          BY <3>3
        <5> HIDE DEF P
        <5>3. QED BY <3>4, <5>1, <5>2
      <4>2. CASE wrun[w] \notin Runs
        BY ONLY <3>2, <3>5, <4>2
      <4>3. QED BY <4>1, <4>2
    <3>6. CASE partials' = [partials EXCEPT ![wrun[w]] = 1..Total]
      BY ONLY <3>2, <3>6
    <3>7. QED BY <3>1, <3>2, <3>5, <3>6
  <2>3. QED BY <1>0, <1>5, <2>2 DEF FlushSave, Drain, Agents
<1>6. CASE SaveEnvelope(w) \/ SaveFinal(w) \/ Salvage(w)
  <2>1. result' \in [Runs -> Envelope]
    BY <1>0, <1>6 DEF SaveEnvelope, SaveFinal, Salvage, SaveResult, Envelope
  <2>2. QED BY <1>0, <1>6, <2>1 DEF SaveEnvelope, SaveFinal, Salvage
<1>7. CASE Charge(w)
  <2>1. wrun[w] \in Runs /\ ledger[wrun[w]] \in Nat
    BY <1>0, <1>7 DEF Charge, ControlTypes, InHand, Free, At
  <2>2. ledger' \in [Runs -> Nat]
    BY <1>0, <1>7, <2>1 DEF Charge
  <2>3. QED BY <1>0, <1>7, <2>2 DEF Charge
<1>8. ASSUME EvRunning(w) \/ FlushEvent(w) \/ ProgEvent(w) \/ DrainEvent(w) \/ EvCompleted(w) \/ EvCanceled(w)
             \/ HookEvent(w) \/ EvFailed(w), ~UNCHANGED db
      PROVE  \E e \in RunEvent : AppendEvent(wrun[w], e) /\ UNCHANGED <<status, done, result, partials, ledger>>
  <2>1. {"running", "partial_result", "progress", "completed", "canceled", "failed"} \subseteq RunEvent
    BY DEF RunEvent, TerminalStatus
  <2>2. QED
    BY <1>8, <2>1 DEF EvRunning, FlushEvent, ProgEvent, DrainEvent, EvCompleted, EvCanceled, HookEvent,
       EvFailed, LogStep, LogAndFinish
<1>9. QED
  BY <1>1, <1>2, <1>3, <1>4, <1>5, <1>6, <1>7, <1>8
  DEF WorkerStep, WorkerFault, Restart, Boot, Dequeue, Start, Respond, FlushCheck, ProgCheck, CheckCanceled,
      FanoutDone, HookRead, Abandon, Raise, Escape, Crash

\* Every variable of the lifecycle keeps its type, a worker's buffer never
\* outgrows what it received, and handlers and jobs always have a run in hand.
LEMMA TypeInvariant == Spec => []TypeInv
<1>1. Init => TypeInv
  BY LifecycleConstants DEF Init, TypeInv, StoreTypes, ControlTypes, BufferOK, InHand, Free, RowStatus, Envelope, ApiPc, WorkerPc
<1>2. TypeInv /\ [Next]_vars => TypeInv'
  <2>1. TypeInv /\ UNCHANGED vars => TypeInv'
    BY DEF vars, db, redis, api, worker, TypeInv, StoreTypes, ControlTypes, BufferOK, InHand
  <2>2. QED BY <2>1, ApiTypes, WorkerControl, WorkerStore DEF Next, TypeInv
<1>3. QED BY <1>1, <1>2, PTL DEF Spec

\* Every variable of the lifecycle keeps its type.
THEOREM TypeCorrect == Spec => []TypeOK
<1>1. TypeInv => TypeOK
  BY DEF TypeInv, TypeOK, StoreTypes, ControlTypes
<1>2. QED BY <1>1, TypeInvariant, PTL
---------------------------------------------------------------------------
(* What one step of a worker can do to each table: the lemmas about Next   *)
(* that the invariants below rest on.                                      *)

\* The status of a run without a row is never written, and only setCompleted
\* writes COMPLETED.
LEMMA StatusWritten ==
  ASSUME TypeInv, NEW w \in Workers, WorkerStep(w) \/ WorkerFault(w), NEW r \in Runs
  PROVE  \/ status'[r] = status[r]
         \/ /\ Exists(r) /\ status'[r] \in RowStatus
            /\ (wrun[w] = r /\ wpc[w] \notin {"start", "hookRead"}) \/ r \in wsnap[w]
            /\ status'[r] = "completed" => wpc[w] = "setCompleted" /\ wrun[w] = r
<1> USE DEF TypeInv, StoreTypes, Update, RowStatus, TerminalStatus, Exists
<1>1. CASE SetRunning(w) \/ ProgSave(w) \/ SetCompleted(w) \/ SetCanceled(w) \/ SetFailed(w) \/ HookSet(w)
  BY <1>1 DEF SetRunning, ProgSave, SetCompleted, SetCanceled, SetFailed, HookSet
<1>2. CASE Sweep(w)
  BY <1>2 DEF Sweep
<1>3. CASE status' = status
  BY <1>3
<1>4. QED
  BY <1>1, <1>2, <1>3
  DEF WorkerStep, WorkerFault, db, Restart, Boot, Dequeue, Start, EvRunning, LogStep, Respond, FlushCheck,
      FlushSave, FlushEvent, ProgCheck, ProgEvent, CheckCanceled, FanoutDone, Drain, DrainEvent, SaveEnvelope,
      Agents, SaveFinal, Charge, EvCompleted, EvCanceled, LogAndFinish, Salvage, EvFailed, HookRead, HookEvent,
      Abandon, Raise, Escape, Crash

\* save_result of the try block writes a completed envelope over anything, the
\* exception handler a failed one over nothing.
LEMMA ResultWritten ==
  ASSUME TypeInv, NEW w \in Workers, WorkerStep(w) \/ WorkerFault(w), NEW r \in Runs
  PROVE  /\ \/ result'[r] = result[r]
            \/ r = wrun[w] /\ (result'[r] = "completed" \/ result[r] = "none")
         /\ wpc[w] = "saveEnvelope" /\ wpc'[w] = "agents" /\ r = wrun[w] => result'[r] = "completed"
<1> USE DEF TypeInv, StoreTypes, ControlTypes, SaveResult, At, Goto
<1>1. CASE SaveEnvelope(w) \/ SaveFinal(w) \/ Salvage(w)
  BY <1>1 DEF SaveEnvelope, SaveFinal, Salvage
<1>2. CASE Raise(w) /\ wpc[w] = "saveEnvelope"
  BY <1>2 DEF Raise, db, Jump, Unwind
<1>3. CASE result' = result /\ wpc[w] # "saveEnvelope"
  BY <1>3
<1>4. CASE Crash(w)
  BY <1>4 DEF Crash, db
<1>5. QED
  BY <1>1, <1>2, <1>3, <1>4
  DEF WorkerStep, WorkerFault, db, Restart, Boot, Sweep, Dequeue, Start, SetRunning, EvRunning, LogStep, Respond,
      FlushCheck, FlushSave, FlushEvent, ProgCheck, ProgSave, ProgEvent, CheckCanceled, FanoutDone, Drain,
      DrainEvent, Agents, SetCompleted, Charge, SetCanceled, EvCompleted, EvCanceled, LogAndFinish, SetFailed,
      EvFailed, HookRead, HookSet, HookEvent, Abandon, Raise, Escape

\* complete_free_run adds the first ledger row of the run in hand, or none.
LEMMA LedgerWritten ==
  ASSUME TypeInv, NEW w \in Workers, WorkerStep(w) \/ WorkerFault(w), NEW r \in Runs
  PROVE  /\ \/ ledger'[r] = ledger[r]
            \/ /\ r = wrun[w] /\ wpc[w] = "charge" /\ ledger[r] = 0 /\ ledger'[r] = 1
               /\ result' = result
         /\ wpc[w] = "charge" /\ wpc'[w] = "evCompleted" /\ r = wrun[w] => ledger'[r] > 0
<1> USE DEF TypeInv, StoreTypes, ControlTypes, At, Goto
<1>1. CASE Charge(w)
  BY <1>1 DEF Charge
<1>2. CASE Raise(w) \/ Crash(w)
  BY <1>2 DEF Raise, Crash, db, Jump, Unwind
<1>3. CASE ledger' = ledger /\ wpc[w] # "charge"
  BY <1>3
<1>4. QED
  BY <1>1, <1>2, <1>3
  DEF WorkerStep, WorkerFault, db, Restart, Boot, Sweep, Dequeue, Start, SetRunning, EvRunning, LogStep, Respond,
      FlushCheck, FlushSave, FlushEvent, ProgCheck, ProgSave, ProgEvent, CheckCanceled, FanoutDone, Drain,
      DrainEvent, SaveEnvelope, Agents, SaveFinal, SetCompleted, SetCanceled, EvCompleted, EvCanceled,
      LogAndFinish, Salvage, SetFailed, EvFailed, HookRead, HookSet, HookEvent, Abandon, Escape

\* Appending an event shows that event and no other.
LEMMA AppendLogged ==
  ASSUME NEW s \in Seq(RunEvent), NEW e \in RunEvent, NEW x, x # e,
         \E i \in DOMAIN Append(s, e) : Append(s, e)[i] = x
  PROVE  \E i \in DOMAIN s : s[i] = x
OBVIOUS

\* Only a job that was charged logs COMPLETED, and a run without a row that no
\* worker holds logs nothing.
LEMMA LogWritten ==
  ASSUME TypeInv, NEW w \in Workers, WorkerStep(w) \/ WorkerFault(w), NEW r \in Runs
  PROVE  /\ Logged(r, "completed")' => \/ Logged(r, "completed")
                                       \/ r = wrun[w] /\ wpc[w] = "evCompleted"
         /\ r # wrun[w] /\ r \notin wsnap[w] => events'[r] = events[r]
<1> USE DEF TypeInv, StoreTypes
<1>1. CASE events' = events
  BY <1>1 DEF Logged
<1>2. ASSUME NEW e \in RunEvent \ {"completed"}, AppendEvent(wrun[w], e)
      PROVE  /\ Logged(r, "completed")' => Logged(r, "completed")
             /\ r # wrun[w] => events'[r] = events[r]
  BY <1>2, AppendLogged DEF AppendEvent, Logged
<1>3. CASE EvRunning(w) \/ FlushEvent(w) \/ ProgEvent(w) \/ DrainEvent(w) \/ EvCanceled(w)
           \/ HookEvent(w) \/ EvFailed(w)
  <2>1. {"running", "partial_result", "progress", "canceled", "failed"} \subseteq RunEvent \ {"completed"}
    BY DEF RunEvent, TerminalStatus
  <2>2. \/ events' = events
        \/ \E e \in RunEvent \ {"completed"} : AppendEvent(wrun[w], e)
    BY <1>3, <2>1 DEF EvRunning, FlushEvent, ProgEvent, DrainEvent, EvCanceled, HookEvent, EvFailed,
       LogStep, LogAndFinish
  <2>3. QED BY <1>1, <1>2, <2>2
<1>4. CASE EvCompleted(w)
  BY <1>4 DEF EvCompleted, LogAndFinish, AppendEvent, Logged
<1>5. CASE Sweep(w)
  <2>1. "interrupted" \in RunEvent
    BY DEF RunEvent, TerminalStatus
  <2>2. events'[r] = events[r] \/ events'[r] = Append(events[r], "interrupted")
    BY <1>5 DEF Sweep
  <2>3. Logged(r, "completed")' => Logged(r, "completed")
    <3>1. CASE events'[r] = events[r]
      BY <3>1 DEF Logged
    <3>2. CASE events'[r] = Append(events[r], "interrupted")
      BY <2>1, <3>2, AppendLogged DEF Logged
    <3>3. QED BY <2>2, <3>1, <3>2
  <2>4. QED BY <1>5, <2>3 DEF Sweep
<1>6. QED
  BY <1>1, <1>3, <1>4, <1>5
  DEF WorkerStep, WorkerFault, db, Restart, Boot, Dequeue, Start, SetRunning, Respond, FlushCheck, FlushSave,
      ProgCheck, ProgSave, CheckCanceled, FanoutDone, Drain, SaveEnvelope, Agents, SaveFinal, SetCompleted, Charge,
      SetCanceled, Salvage, SetFailed, HookRead, HookSet, Abandon, Raise, Escape, Crash

\* Where a worker finds its runs: it keeps the one in hand, takes the head of
\* the queue or an abandoned job, and sweeps only running rows.
LEMMA RunsTaken ==
  ASSUME TypeInv, NEW w \in Workers, WorkerStep(w) \/ WorkerFault(w)
  PROVE  /\ \A v \in Workers \ {w} : wpc'[v] = wpc[v] /\ wrun'[v] = wrun[v] /\ wsnap'[v] = wsnap[v]
         /\ UNCHANGED api
         /\ rq' = rq \/ (rq # <<>> /\ rq' = Tail(rq))
         /\ started' \subseteq started \cup (IF rq = <<>> THEN {} ELSE {Head(rq)})
         /\ \/ wrun'[w] \in {wrun[w], NoRun} /\ rq' = rq /\ started' \subseteq started
            \/ wrun'[w] \in started /\ (\A v \in Workers : wrun[v] # wrun'[w]) /\ UNCHANGED redis
            \/ rq # <<>> /\ wrun'[w] = Head(rq) /\ rq' = Tail(rq) /\ started' = started \cup {Head(rq)}
         /\ wsnap'[w] \subseteq wsnap[w] \cup {r \in Runs : status[r] = "running"}
<1> USE DEF TypeInv, ControlTypes, Goto, At, Jump, redis, api, Forget
<1>1. CASE Restart(w) \/ Boot(w) \/ Sweep(w) \/ Crash(w)
  BY <1>1 DEF Restart, Boot, Sweep, Crash
<1>2. CASE Dequeue(w)
  BY <1>2 DEF Dequeue
<1>3. CASE Start(w) \/ HookRead(w) \/ HookSet(w) \/ Raise(w) \/ Escape(w)
  BY <1>3 DEF Start, HookRead, HookSet, Raise, Escape, Finish, JobFailed, Unwind
<1>4. CASE SetRunning(w) \/ EvRunning(w) \/ Respond(w) \/ FlushCheck(w) \/ FlushSave(w) \/ FlushEvent(w)
           \/ ProgCheck(w) \/ ProgSave(w) \/ ProgEvent(w) \/ FanoutDone(w) \/ Drain(w) \/ DrainEvent(w)
  BY <1>4 DEF SetRunning, EvRunning, LogStep, Respond, FlushCheck, FlushSave, FlushEvent, ProgCheck, ProgSave,
     ProgEvent, CheckCanceled, FanoutDone, Drain, DrainEvent, Unwind
<1>5. CASE SaveEnvelope(w) \/ Agents(w) \/ SaveFinal(w) \/ SetCompleted(w) \/ Charge(w) \/ Salvage(w)
  BY <1>5 DEF SaveEnvelope, Agents, SaveFinal, SetCompleted, Charge, Salvage
<1>6. CASE SetCanceled(w) \/ SetFailed(w)
  BY <1>6 DEF SetCanceled, SetFailed, JobFailed
<1>7. CASE EvCompleted(w) \/ EvCanceled(w) \/ HookEvent(w) \/ EvFailed(w)
  BY <1>7 DEF EvCompleted, EvCanceled, HookEvent, EvFailed, LogAndFinish, Finish, JobFailed
<1>8. ASSUME NEW r \in Runs, Abandon(w, r)
      PROVE  /\ \A v \in Workers \ {w} : wpc'[v] = wpc[v] /\ wrun'[v] = wrun[v] /\ wsnap'[v] = wsnap[v]
             /\ UNCHANGED <<redis, api>> /\ wrun'[w] \in started /\ wsnap' = wsnap
             /\ \A v \in Workers : wrun[v] # wrun'[w]
  BY <1>8 DEF Abandon
<1>9. QED BY <1>1, <1>2, <1>3, <1>4, <1>5, <1>6, <1>7, <1>8 DEF WorkerStep, WorkerFault

\* Program points behind the first save of a completed envelope.
Earned == {"agents", "saveFinal", "setCompleted", "charge", "evCompleted"}

\* They are reached in order, from the save of the envelope on.
LEMMA EarnedReached ==
  ASSUME TypeInv, NEW w \in Workers, WorkerStep(w) \/ WorkerFault(w), wpc'[w] \in Earned
  PROVE  /\ wrun'[w] = wrun[w]
         /\ wpc[w] \in Earned \/ (wpc[w] = "saveEnvelope" /\ wpc'[w] = "agents")
         /\ wpc'[w] = "evCompleted" => wpc[w] = "charge"
<1> USE DEF TypeInv, ControlTypes, Goto, At, Jump, Earned
<1>1. CASE SaveEnvelope(w) \/ Agents(w) \/ SaveFinal(w) \/ SetCompleted(w) \/ Charge(w) \/ Salvage(w)
  BY <1>1 DEF SaveEnvelope, Agents, SaveFinal, SetCompleted, Charge, Salvage
<1>2. CASE Restart(w) \/ Boot(w) \/ Sweep(w) \/ Crash(w) \/ Dequeue(w) \/ \E r \in Runs : Abandon(w, r)
  BY <1>2 DEF Restart, Boot, Sweep, Crash, Dequeue, Abandon
<1>3. CASE Start(w) \/ HookRead(w) \/ HookSet(w) \/ Raise(w) \/ Escape(w) \/ SetCanceled(w) \/ SetFailed(w)
  BY <1>3 DEF Start, HookRead, HookSet, Raise, Escape, SetCanceled, SetFailed, Finish, JobFailed, Unwind
<1>4. CASE SetRunning(w) \/ EvRunning(w) \/ Respond(w) \/ FlushCheck(w) \/ FlushSave(w) \/ FlushEvent(w)
           \/ ProgCheck(w) \/ ProgSave(w) \/ ProgEvent(w) \/ FanoutDone(w)
  BY <1>4 DEF SetRunning, EvRunning, LogStep, Respond, FlushCheck, FlushSave, FlushEvent, ProgCheck, ProgSave,
     ProgEvent, CheckCanceled, FanoutDone, Unwind, ReportPc
<1>5. CASE Drain(w) \/ DrainEvent(w)
  BY <1>5 DEF Drain, DrainEvent
<1>6. CASE EvCompleted(w) \/ EvCanceled(w) \/ HookEvent(w) \/ EvFailed(w)
  BY <1>6 DEF EvCompleted, EvCanceled, HookEvent, EvFailed, LogAndFinish, Finish, JobFailed
<1>7. QED BY <1>1, <1>2, <1>3, <1>4, <1>5, <1>6 DEF WorkerStep, WorkerFault

---------------------------------------------------------------------------
(* Nobody knows a run before its row is inserted.                          *)

Unknown(r) ==
  /\ events[r] = <<>> /\ ledger[r] = 0 /\ result[r] = "none"
  /\ r \notin started /\ \A i \in DOMAIN rq : rq[i] # r
  /\ \A w \in Workers : wrun[w] # r /\ r \notin wsnap[w]
  /\ arun = r => apc = "insert"

Fresh == /\ \A r \in Runs : status[r] = "new" => Unknown(r)
         /\ apc = "insert" => status[arun] = "new"

\* Taking the head of the queue, or appending to it, brings in no other run.
LEMMA TailMembers ==
  ASSUME NEW S, NEW q \in Seq(S), NEW x, q # <<>>, \A i \in DOMAIN q : q[i] # x
  PROVE  Head(q) # x /\ \A i \in DOMAIN Tail(q) : Tail(q)[i] # x
OBVIOUS

\* Nor does appending another run.
LEMMA AppendMembers ==
  ASSUME NEW S, NEW q \in Seq(S), NEW x, NEW y \in S, x # y, \A i \in DOMAIN q : q[i] # x
  PROVE  \A i \in DOMAIN Append(q, y) : Append(q, y)[i] # x
OBVIOUS

\* No step of a worker reaches a run without a row.
LEMMA FreshWorker ==
  ASSUME TypeInv, Fresh, NEW w \in Workers, WorkerStep(w) \/ WorkerFault(w)
  PROVE  Fresh'
<1>1. ASSUME NEW r \in Runs, status'[r] = "new" PROVE Unknown(r)'
  <2>1. status[r] = "new"
    BY <1>1, StatusWritten DEF RowStatus, TerminalStatus
  <2>2. Unknown(r)
    BY <2>1 DEF Fresh
  <2>3. events'[r] = <<>> /\ ledger'[r] = 0 /\ result'[r] = "none"
    BY <2>2, LogWritten, LedgerWritten, ResultWritten DEF Unknown
  <2>4. rq # <<>> => Head(rq) # r /\ \A i \in DOMAIN Tail(rq) : Tail(rq)[i] # r
    BY <2>2, TailMembers DEF Unknown, TypeInv, ControlTypes
  <2>5. r \notin started' /\ (\A i \in DOMAIN rq : rq[i] # r)' /\ (arun = r => apc = "insert")'
    BY <2>2, <2>4, RunsTaken DEF Unknown, api
  <2>6. ASSUME NEW v \in Workers PROVE wrun'[v] # r /\ r \notin wsnap'[v]
    <3>1. CASE v = w
      BY <2>1, <2>2, <2>4, <3>1, RunsTaken, LifecycleConstants DEF Unknown
    <3>2. CASE v # w
      BY <2>2, <3>2, RunsTaken DEF Unknown
    <3>3. QED BY <3>1, <3>2
  <2>7. QED BY <2>3, <2>5, <2>6 DEF Unknown
<1>2. (apc = "insert" => status[arun] = "new")'
  <2> SUFFICES ASSUME apc' = "insert" PROVE status'[arun'] = "new"
    OBVIOUS
  <2>1. apc = "insert" /\ arun' = arun /\ arun \in Runs
    BY RunsTaken DEF api, TypeInv, ControlTypes, InHand
  <2>2. QED BY <2>1, StatusWritten DEF Fresh, Exists, RowStatus, TerminalStatus
<1>3. QED BY <1>1, <1>2 DEF Fresh

\* No step of the API does, except the one that inserts the row.
LEMMA FreshApi == TypeInv /\ Fresh /\ Api => Fresh'
<1> SUFFICES ASSUME TypeInv, Fresh, Api PROVE Fresh'
  OBVIOUS
<1> USE LifecycleConstants
    DEF TypeInv, StoreTypes, ControlTypes, InHand, Fresh, Unknown, db, redis, worker, ApiGoto, Exists,
        RowStatus, TerminalStatus
<1>1. ASSUME NEW r \in Runs, CreateCheck(r) \/ CancelRead(r) PROVE Fresh'
  BY <1>1 DEF CreateCheck, CancelRead
<1>2. CASE CreateInsert
  BY <1>2 DEF CreateInsert
<1>3. CASE Enqueue
  <2>1. arun \in Runs /\ rq \in Seq(Runs)
    BY <1>3 DEF Enqueue
  <2>2. ASSUME NEW r \in Runs, status[r] = "new" PROVE Unknown(r)'
    <3>1. arun # r /\ arun' # r
      BY <1>3, <2>1, <2>2 DEF Enqueue
    <3>2. \A i \in DOMAIN rq' : rq'[i] # r
      <4>1. \A i \in DOMAIN Append(rq, arun) : Append(rq, arun)[i] # r
        <5>1. \A i \in DOMAIN rq : rq[i] # r
          BY <2>2
        <5>2. QED BY ONLY <2>1, <3>1, <5>1, AppendMembers
      <4>2. rq' = rq \/ rq' = Append(rq, arun)
        BY <1>3 DEF Enqueue
      <4>3. QED BY <2>2, <4>1, <4>2
    <3>3. QED BY <1>3, <2>2, <3>1, <3>2 DEF Enqueue
  <2>3. QED BY <1>3, <2>2 DEF Enqueue
<1>4. CASE NoteQueued \/ CancelEvent
  BY <1>4 DEF NoteQueued, CancelEvent, AppendEvent
<1>5. CASE CreateFail \/ CancelSet
  BY <1>5 DEF CreateFail, CancelSet, Update
<1>6. ASSUME NEW u \in Users, DeleteUser(u) PROVE Fresh'
  BY <1>6 DEF DeleteUser, api
<1>7. CASE ApiCrash
  BY <1>7 DEF ApiCrash
<1>8. QED BY <1>1, <1>2, <1>3, <1>4, <1>5, <1>6, <1>7 DEF Api

---------------------------------------------------------------------------
(* What is reported as completed, and what is billed.                      *)

\* A job that is past its first save finds the completed envelope still there,
\* and one that logs COMPLETED has been charged.
Backed ==
  \A w \in Workers :
    /\ wpc[w] \in Earned /\ Exists(wrun[w]) => result[wrun[w]] = "completed"
    /\ wpc[w] = "evCompleted" /\ Exists(wrun[w]) => ledger[wrun[w]] = 1

BillingInv == Fresh /\ Backed /\ ResultBacked /\ BilledOnce

\* No step of a worker breaks the billing invariant: COMPLETED is written, logged
\* and charged only at points behind the save of a completed envelope.
LEMMA BillingWorker ==
  ASSUME TypeInv, BillingInv, NEW w \in Workers, WorkerStep(w) \/ WorkerFault(w)
  PROVE  BillingInv'
<1>1. Fresh'
  BY FreshWorker DEF BillingInv
<1>2. ASSUME NEW r \in Runs, Exists(r)' PROVE Exists(r)
  BY <1>2, StatusWritten DEF Exists
<1>3. ASSUME NEW r \in Runs, result[r] = "completed" PROVE result'[r] = "completed"
  BY <1>3, ResultWritten
<1>4. ASSUME NEW r \in Runs PROVE ledger[r] <= 1 /\ ledger[r] \in Nat
  BY DEF BillingInv, BilledOnce, TypeInv, StoreTypes
<1>5. ASSUME NEW r \in Runs PROVE ledger'[r] <= 1 /\ ledger'[r] \in Nat /\ ledger'[r] >= ledger[r]
  BY <1>4, LedgerWritten
<1>6. Backed'
  <2> SUFFICES ASSUME NEW v \in Workers, wpc'[v] \in Earned, Exists(wrun[v])'
               PROVE  /\ result'[wrun'[v]] = "completed"
                      /\ wpc'[v] = "evCompleted" => ledger'[wrun'[v]] = 1
    BY DEF Backed, Earned
  <2>1. wrun'[v] = wrun[v]
    BY EarnedReached, RunsTaken
  <2>2. wrun'[v] \in Runs
    BY WorkerControl DEF ControlTypes, InHand, Earned, Free
  <2>3. Exists(wrun[v])
    BY <1>2, <2>1, <2>2 DEF Exists
  <2>4. CASE v = w
    <3>1. result'[wrun[v]] = "completed"
      BY <1>3, <2>1, <2>2, <2>3, <2>4, EarnedReached, ResultWritten DEF BillingInv, Backed
    <3>2. wpc'[v] = "evCompleted" => ledger'[wrun[v]] = 1
      BY <1>5, <2>1, <2>2, <2>4, EarnedReached, LedgerWritten
    <3>3. QED BY <2>1, <3>1, <3>2
  <2>5. CASE v # w
    <3>1. wpc'[v] = wpc[v]
      BY <2>5, RunsTaken
    <3>2. QED BY <1>3, <1>4, <1>5, <2>1, <2>2, <2>3, <3>1 DEF BillingInv, Backed
  <2>6. QED BY <2>4, <2>5
<1>7. ResultBacked'
  <2> SUFFICES ASSUME NEW r \in Runs, Exists(r)',
                      \/ status'[r] = "completed" \/ Logged(r, "completed")' \/ ledger'[r] > 0
               PROVE  result'[r] = "completed"
    BY DEF ResultBacked
  <2>1. Exists(r)
    BY <1>2
  <2>2. CASE status[r] = "completed" \/ Logged(r, "completed") \/ ledger[r] > 0
    BY <1>3, <2>1, <2>2 DEF BillingInv, ResultBacked
  <2>3. CASE wrun[w] = r /\ wpc[w] \in Earned
    BY <1>3, <2>1, <2>3 DEF BillingInv, Backed
  <2>4. QED BY <2>2, <2>3, StatusWritten, LogWritten, LedgerWritten DEF Earned
<1>8. BilledOnce'
  <2> SUFFICES ASSUME NEW r \in Runs, Exists(r)', Logged(r, "completed")' PROVE ledger'[r] = 1
    BY <1>5 DEF BilledOnce
  <2>1. Exists(r)
    BY <1>2
  <2>2. ledger[r] = 1
    BY <2>1, LogWritten DEF BillingInv, BilledOnce, Backed
  <2>3. QED BY <1>5, <2>2
<1>9. QED BY <1>1, <1>6, <1>7, <1>8 DEF BillingInv

\* No step of the API does: it writes no COMPLETED, and a new row has no past.
LEMMA BillingApi == TypeInv /\ BillingInv /\ Api => BillingInv'
<1> SUFFICES ASSUME TypeInv, BillingInv, Api PROVE BillingInv'
  OBVIOUS
<1>1. Fresh'
  BY FreshApi DEF BillingInv
<1>2. ASSUME NEW r \in Runs, Exists(r)'
      PROVE  /\ Exists(r) \/ status[r] = "new"
             /\ status'[r] = "completed" => status[r] = "completed"
             /\ Logged(r, "completed")' => Logged(r, "completed")
             /\ result'[r] = result[r] /\ ledger'[r] = ledger[r]
  <2> USE DEF TypeInv, StoreTypes, ControlTypes, InHand, Exists, db
  <2>1. CASE UNCHANGED db
    BY <1>2, <2>1 DEF Logged
  <2>2. CASE CreateInsert
    <3>1. arun \in Runs /\ status[arun] = "new" /\ events[arun] = <<>>
      BY <2>2 DEF CreateInsert, BillingInv, Fresh, Unknown
    <3>2. events'[r] = events[r] \/ (r = arun /\ events'[r] = <<"created", "queued">>)
      BY <2>2, <3>1 DEF CreateInsert
    <3>3. Logged(r, "completed")' => Logged(r, "completed")
      <4>1. CASE events'[r] = events[r]
        BY <4>1 DEF Logged
      <4>2. CASE events'[r] = <<"created", "queued">>
        <5>1. \A i \in DOMAIN events'[r] : events'[r][i] \in {"created", "queued"}
          BY <4>2
        <5>2. QED BY <5>1 DEF Logged
      <4>3. QED BY <3>2, <4>1, <4>2
    <3>4. QED BY <1>2, <2>2, <3>1, <3>3 DEF CreateInsert
  <2>3. CASE NoteQueued \/ CancelEvent
    <3>1. {"queued", "canceled"} \subseteq RunEvent
      BY DEF RunEvent, TerminalStatus
    <3>2. \/ events'[r] = events[r]
          \/ \E e \in {"queued", "canceled"} : events'[r] = Append(events[r], e)
      BY <2>3 DEF NoteQueued, CancelEvent, AppendEvent
    <3>3. Logged(r, "completed")' => Logged(r, "completed")
      <4>1. CASE events'[r] = events[r]
        BY <4>1 DEF Logged
      <4>2. ASSUME NEW e \in {"queued", "canceled"}, events'[r] = Append(events[r], e),
                   Logged(r, "completed")'
            PROVE  Logged(r, "completed")
        <5>1. \E i \in DOMAIN Append(events[r], e) : Append(events[r], e)[i] = "completed"
          BY <4>2 DEF Logged
        <5>2. e \in RunEvent /\ e # "completed" /\ events[r] \in Seq(RunEvent)
          BY <3>1
        <5>3. QED BY <5>1, <5>2, AppendLogged DEF Logged
      <4>3. QED BY <3>2, <4>1, <4>2
    <3>4. QED BY <1>2, <2>3, <3>3 DEF NoteQueued, CancelEvent
  <2>4. CASE CreateFail \/ CancelSet
    BY <1>2, <2>4 DEF CreateFail, CancelSet, Update, Logged
  <2>5. ASSUME NEW u \in Users, DeleteUser(u)
        PROVE  /\ status'[r] = status[r] /\ events'[r] = events[r]
               /\ result'[r] = result[r] /\ ledger'[r] = ledger[r]
    BY <1>2, <2>5 DEF DeleteUser, RowStatus, TerminalStatus
  <2>6. QED
    BY <1>2, <2>1, <2>2, <2>3, <2>4, <2>5 DEF Api, CreateCheck, CancelRead, Enqueue, ApiCrash, Logged
<1>3. UNCHANGED <<wpc, wrun>>
  BY DEF Api, CreateCheck, CreateInsert, Enqueue, NoteQueued, CreateFail, CancelRead, CancelSet, CancelEvent,
     DeleteUser, ApiCrash, worker
<1>4. ASSUME NEW r \in Runs, Exists(r)', status[r] = "new"
      PROVE  /\ status'[r] # "completed" /\ ~Logged(r, "completed")' /\ ledger'[r] = 0
             /\ \A w \in Workers : wrun[w] # r
  BY <1>2, <1>4 DEF BillingInv, Fresh, Unknown, Logged
<1>5. Backed'
  <2> SUFFICES ASSUME NEW w \in Workers, wpc[w] \in Earned, Exists(wrun[w])'
               PROVE  /\ result'[wrun[w]] = "completed"
                      /\ wpc[w] = "evCompleted" => ledger'[wrun[w]] = 1
    BY <1>3 DEF Backed, Exists, Earned
  <2>1. wrun[w] \in Runs
    BY DEF TypeInv, ControlTypes, InHand, Earned, Free
  <2>2. Exists(wrun[w])
    BY <1>2, <1>3, <1>4, <2>1 DEF Exists
  <2>3. QED BY <1>2, <1>3, <2>1, <2>2 DEF BillingInv, Backed, Exists
<1>6. ResultBacked'
  BY <1>2, <1>4 DEF BillingInv, ResultBacked
<1>7. BilledOnce'
  <2>1. ASSUME NEW r \in Runs PROVE ledger'[r] <= 1
    <3>1. ledger[r] <= 1
      BY DEF BillingInv, BilledOnce
    <3>2. ledger'[r] \in {ledger[r], 0}
      BY DEF Api, CreateCheck, CreateInsert, Enqueue, NoteQueued, CreateFail, CancelRead, CancelSet, CancelEvent,
         DeleteUser, ApiCrash, db
    <3>3. QED BY <3>1, <3>2
  <2>2. QED BY <1>2, <1>4, <2>1 DEF BillingInv, BilledOnce
<1>8. QED BY <1>1, <1>5, <1>6, <1>7 DEF BillingInv

\* The billing invariant holds throughout.
LEMMA BillingInvariant == Spec => []BillingInv
<1>1. Init => BillingInv
  BY LifecycleConstants
  DEF Init, BillingInv, Fresh, Unknown, Backed, ResultBacked, BilledOnce, Logged, Exists, Earned, RowStatus,
      TerminalStatus
<1>2. TypeInv /\ BillingInv /\ UNCHANGED vars => BillingInv'
  BY DEF vars, db, redis, api, worker, BillingInv, Fresh, Unknown, Backed, ResultBacked, BilledOnce, Logged, Exists
<1>3. TypeInv /\ BillingInv /\ [Next]_vars => BillingInv'
  BY <1>2, BillingApi, BillingWorker DEF Next
<1>4. QED BY <1>1, <1>3, TypeInvariant, PTL DEF Spec

\* Whatever fails, is retried, crashes or is deleted: a run that shows COMPLETED
\* as its status or in its log, and a run that was billed, has a completed
\* envelope that can be fetched.
THEOREM CompletionBacked == Spec => []ResultBacked
<1>1. BillingInv => ResultBacked
  BY DEF BillingInv
<1>2. QED BY <1>1, BillingInvariant, PTL

\* No run is billed twice, and none logs COMPLETED without having been billed.
THEOREM NeverBilledTwice == Spec => []BilledOnce
<1>1. BillingInv => BilledOnce
  BY DEF BillingInv
<1>2. QED BY <1>1, BillingInvariant, PTL

---------------------------------------------------------------------------
(* A canceled run that nobody holds.                                       *)

\* No step of a worker takes hold of a canceled run.
LEMMA NotTaken ==
  ASSUME TypeInv, NEW w \in Workers, WorkerStep(w) \/ WorkerFault(w),
         NEW r \in Runs, status[r] = "canceled", ~Held(r)
  PROVE  (~Held(r))'
<1>1. arun' # r /\ \A v \in Workers \ {w} : ~(\/ wrun'[v] = r /\ wpc'[v] \notin {"start", "hookRead"}
                                             \/ r \in wsnap'[v])
  BY RunsTaken DEF Held, api
<1>2. r \notin wsnap'[w]
  BY RunsTaken DEF Held
<1>3. wrun'[w] = r => wpc'[w] \in {"start", "hookRead"}
  <2> SUFFICES ASSUME wrun'[w] = r PROVE wpc'[w] \in {"start", "hookRead"}
    OBVIOUS
  <2> USE LifecycleConstants DEF TypeInv, ControlTypes, Goto, At, Jump
  <2>1. CASE wrun[w] = r
    <3>1. wpc[w] \in {"start", "hookRead"} /\ Exists(r)
      BY <2>1 DEF Held, Exists, RowStatus, TerminalStatus
    <3>2. CASE Start(w) \/ HookRead(w)
      BY <2>1, <3>1, <3>2 DEF Start, HookRead, Finish
    <3>3. CASE wpc'[w] = wpc[w]
      BY <3>1, <3>3
    <3>4. CASE Crash(w)
      BY <2>1, <3>4 DEF Crash
    <3>5. CASE Escape(w)
      BY <2>1, <3>5 DEF Escape, JobFailed
    <3>6. QED
      BY <3>1, <3>2, <3>3, <3>4, <3>5
      DEF WorkerStep, WorkerFault, Restart, Boot, Sweep, Dequeue, SetRunning, EvRunning, LogStep, Respond,
          FlushCheck, FlushSave, FlushEvent, ProgCheck, ProgSave, ProgEvent, CheckCanceled, FanoutDone, Drain,
          DrainEvent, SaveEnvelope, Agents, SaveFinal, SetCompleted, Charge, SetCanceled, EvCompleted, EvCanceled,
          LogAndFinish, Salvage, SetFailed, EvFailed, HookSet, HookEvent, Abandon, Raise, FanoutPc, TryPc
  <2>2. CASE wrun[w] # r
    <3>1. CASE Dequeue(w) \/ \E q \in Runs : Abandon(w, q)
      BY <3>1 DEF Dequeue, Abandon
    <3>2. CASE wrun'[w] \in {wrun[w], NoRun}
      BY <2>2, <3>2
    <3>3. QED
      BY <3>1, <3>2
      DEF WorkerStep, WorkerFault, Restart, Boot, Sweep, Start, SetRunning, EvRunning, LogStep, Respond,
          FlushCheck, FlushSave, FlushEvent, ProgCheck, ProgSave, ProgEvent, CheckCanceled, FanoutDone, Drain,
          DrainEvent, SaveEnvelope, Agents, SaveFinal, SetCompleted, Charge, SetCanceled, EvCompleted, EvCanceled,
          LogAndFinish, Salvage, SetFailed, EvFailed, HookRead, HookSet, HookEvent, Raise, Escape, Crash,
          Finish, JobFailed, Unwind
  <2>3. QED BY <2>1, <2>2
<1>4. QED BY <1>1, <1>2, <1>3 DEF Held

\* Once no worker, sweep or handler holds a canceled run, nothing starts it again
\* and nothing but its deletion changes its status.
THEOREM CanceledStays == Spec => CancelSettled
<1> DEFINE Settled == \A r \in Runs :
                        status[r] = "canceled" /\ ~Held(r)
                          => status'[r] \in {"canceled", "gone"} /\ (~Held(r))'
<1>1. TypeInv /\ [Next]_vars => [Settled]_vars
  <2> SUFFICES ASSUME TypeInv, Next, NEW r \in Runs, status[r] = "canceled", ~Held(r)
               PROVE  status'[r] \in {"canceled", "gone"} /\ (~Held(r))'
    OBVIOUS
  <2>1. ASSUME NEW w \in Workers, WorkerStep(w) \/ WorkerFault(w)
        PROVE  status'[r] \in {"canceled", "gone"} /\ (~Held(r))'
    BY <2>1, NotTaken, StatusWritten DEF Held
  <2>2. CASE Api
    <3>1. arun # r
      BY DEF Held
    <3>2. arun' # r /\ status'[r] \in {"canceled", "gone"}
      BY <2>2, <3>1, LifecycleConstants
      DEF Api, CreateCheck, CreateInsert, Enqueue, NoteQueued, CreateFail, CancelRead, CancelSet, CancelEvent,
          DeleteUser, ApiCrash, ApiGoto, Update, Terminal, TerminalStatus, TypeInv, StoreTypes, db, api
    <3>3. UNCHANGED worker
      BY <2>2 DEF Api, CreateCheck, CreateInsert, Enqueue, NoteQueued, CreateFail, CancelRead, CancelSet,
         CancelEvent, DeleteUser, ApiCrash
    <3>4. QED BY <3>2, <3>3 DEF Held, worker
  <2>3. QED BY <2>1, <2>2 DEF Next
<1>2. QED BY <1>1, TypeInvariant, PTL DEF Spec, CancelSettled

---------------------------------------------------------------------------
(* One executor per run.                                                   *)

\* A job is in one place: on its way into the queue, in it, or with a worker
\* or the started registry.
Exclusive ==
  /\ SingleExecutor
  /\ \A i \in DOMAIN rq : rq[i] \notin started
  /\ apc = "enqueue" => /\ arun \notin started /\ \A i \in DOMAIN rq : rq[i] # arun
                        /\ \A w \in Workers : wrun[w] # arun

\* The first entry of a queue without repetitions is not in the rest of it.
LEMMA HeadUnique ==
  ASSUME NEW S, NEW q \in Seq(S), q # <<>>, \A i, j \in DOMAIN q : q[i] = q[j] => i = j
  PROVE  /\ \E i \in DOMAIN q : q[i] = Head(q)
         /\ \A i \in DOMAIN Tail(q) : Tail(q)[i] # Head(q)
         /\ \A i, j \in DOMAIN Tail(q) : Tail(q)[i] = Tail(q)[j] => i = j
         /\ \A i \in DOMAIN Tail(q) : \E j \in DOMAIN q : Tail(q)[i] = q[j]
OBVIOUS

\* A worker takes the head of the queue or an abandoned job, which no one has.
LEMMA ExclusiveWorker ==
  ASSUME TypeInv, Exclusive, NEW w \in Workers, WorkerStep(w) \/ WorkerFault(w)
  PROVE  Exclusive'
<1> USE DEF Exclusive, SingleExecutor
<1>1. UNCHANGED <<apc, arun>> /\ \A v \in Workers \ {w} : wrun'[v] = wrun[v]
  BY RunsTaken DEF api
<1>2. rq \in Seq(Runs) /\ \A i \in DOMAIN rq : rq[i] \in Runs
  BY DEF TypeInv, ControlTypes
<1>3. NoRun \notin Runs /\ (apc = "enqueue" => arun \in Runs)
  BY LifecycleConstants DEF TypeInv, ControlTypes, InHand
<1>4. CASE wrun'[w] \in {wrun[w], NoRun} /\ rq' = rq /\ started' \subseteq started
  <2>1. \A v \in Workers : wrun'[v] \in {wrun[v], NoRun}
    BY <1>1, <1>4
  <2>2. SingleExecutor'
    BY <1>2, <1>3, <1>4, <2>1
  <2>3. QED BY <1>1, <1>3, <1>4, <2>1, <2>2
<1>5. CASE wrun'[w] \in started /\ (\A v \in Workers : wrun[v] # wrun'[w]) /\ UNCHANGED redis
  <2>1. SingleExecutor'
    BY <1>1, <1>5 DEF redis
  <2>2. QED BY <1>1, <1>5, <2>1 DEF redis
<1>6. CASE rq # <<>> /\ wrun'[w] = Head(rq) /\ rq' = Tail(rq) /\ started' = started \cup {Head(rq)}
  <2>1. /\ \E i \in DOMAIN rq : rq[i] = Head(rq)
        /\ \A i \in DOMAIN rq' : rq'[i] # Head(rq)
        /\ \A i, j \in DOMAIN rq' : rq'[i] = rq'[j] => i = j
        /\ \A i \in DOMAIN rq' : \E j \in DOMAIN rq : rq'[i] = rq[j]
    BY <1>2, <1>6, HeadUnique
  <2>2. \A u, v \in Workers : wrun'[u] = wrun'[v] /\ wrun'[u] # NoRun => u = v
    BY <1>1, <1>6, <2>1
  <2>3. \A i \in DOMAIN rq' : \A v \in Workers : wrun'[v] # rq'[i]
    BY <1>1, <1>6, <2>1
  <2>4. \A i \in DOMAIN rq' : rq'[i] \notin started'
    BY <1>6, <2>1
  <2>5. apc = "enqueue" => /\ arun \notin started' /\ \A i \in DOMAIN rq' : rq'[i] # arun
                           /\ \A v \in Workers : wrun'[v] # arun
    BY <1>1, <1>6, <2>1
  <2>6. QED BY <1>1, <2>1, <2>2, <2>3, <2>4, <2>5
<1>7. QED BY <1>4, <1>5, <1>6, RunsTaken

\* The API enqueues a run once, before any worker can know it.
LEMMA ExclusiveApi == TypeInv /\ BillingInv /\ Exclusive /\ Api => Exclusive'
<1> SUFFICES ASSUME TypeInv, BillingInv, Exclusive, Api PROVE Exclusive'
  OBVIOUS
<1> USE DEF Exclusive, SingleExecutor, TypeInv, ControlTypes, InHand, redis, worker, ApiGoto
<1>1. CASE CreateInsert
  <2>1. Unknown(arun)
    BY <1>1 DEF CreateInsert, BillingInv, Fresh
  <2>2. QED BY <1>1, <2>1 DEF CreateInsert, Unknown
<1>2. CASE Enqueue
  <2>1. arun \in Runs /\ apc' # "enqueue" /\ UNCHANGED <<wrun, started>>
    BY <1>2 DEF Enqueue
  <2>2. CASE rq' = rq
    BY <2>1, <2>2
  <2>3. CASE rq' = Append(rq, arun)
    <3>1. /\ rq \in Seq(Runs)
          /\ \A i, j \in DOMAIN rq : rq[i] = rq[j] => i = j
          /\ \A i \in DOMAIN rq : rq[i] # arun
      BY <1>2 DEF Enqueue
    <3>2. \A i \in DOMAIN rq' : rq'[i] = arun \/ \E j \in DOMAIN rq : rq'[i] = rq[j]
      BY ONLY <2>1, <2>3, <3>1
    <3>3. \A i, j \in DOMAIN rq' : rq'[i] = rq'[j] => i = j
      BY ONLY <2>1, <2>3, <3>1
    <3>4. QED BY <1>2, <2>1, <3>2, <3>3 DEF Enqueue
  <2>4. QED BY <1>2, <2>2, <2>3 DEF Enqueue
<1>3. ASSUME UNCHANGED <<redis, wrun>>, apc' # "enqueue" PROVE Exclusive'
  BY <1>3
<1>4. QED
  BY <1>1, <1>2, <1>3 DEF Api, CreateCheck, NoteQueued, CreateFail, CancelRead, CancelSet, CancelEvent,
     DeleteUser, ApiCrash, api

\* A job is in one place at a time, throughout.
LEMMA ExclusiveInvariant == Spec => []Exclusive
<1>1. Init => Exclusive
  BY LifecycleConstants DEF Init, Exclusive, SingleExecutor
<1>2. Exclusive /\ UNCHANGED vars => Exclusive'
  BY DEF vars, redis, api, worker, Exclusive, SingleExecutor
<1>3. TypeInv /\ BillingInv /\ Exclusive /\ [Next]_vars => Exclusive'
  BY <1>2, ExclusiveWorker, ExclusiveApi DEF Next
<1>4. QED BY <1>1, <1>3, TypeInvariant, BillingInvariant, PTL DEF Spec

\* However workers crash, restart and take over abandoned jobs, no run is ever
\* in the hands of two workers, and none is queued while a worker has it.
THEOREM OneExecutor == Spec => []SingleExecutor
<1>1. Exclusive => SingleExecutor
  BY DEF Exclusive
<1>2. QED BY <1>1, ExclusiveInvariant, PTL

---------------------------------------------------------------------------
(* The lifecycle implements RunBilling.                                    *)

\* Program points of a job that has not been charged yet.
Unpaid == {"start", "setRunning", "evRunning", "saveEnvelope", "agents", "saveFinal", "setCompleted", "charge"}
            \cup FanoutPc \cup DrainPc

\* On its way to a worker, and with it up to the charge, a run has no bill.
Uncharged ==
  /\ apc = "enqueue" => ledger[arun] = 0
  /\ \A i \in DOMAIN rq : ledger[rq[i]] = 0
  /\ \A w \in Workers : wpc[w] \in Unpaid => ledger[wrun[w]] = 0

\* A worker comes there with a job from the queue, and leaves with the charge.
LEMMA UnpaidReached ==
  ASSUME TypeInv, NEW w \in Workers, WorkerStep(w) \/ WorkerFault(w), wpc'[w] \in Unpaid
  PROVE  /\ ledger' = ledger
         /\ \/ wpc[w] \in Unpaid /\ wrun'[w] = wrun[w]
            \/ rq # <<>> /\ wrun'[w] = Head(rq)
<1> USE DEF TypeInv, ControlTypes, InHand, Goto, At, Jump, Unpaid, FanoutPc, DrainPc, Free, db
<1>1. CASE Restart(w) \/ Boot(w) \/ Sweep(w) \/ Crash(w) \/ Dequeue(w) \/ \E r \in Runs : Abandon(w, r)
  BY <1>1 DEF Restart, Boot, Sweep, Crash, Dequeue, Abandon
<1>2. CASE Start(w) \/ HookRead(w) \/ HookSet(w) \/ Escape(w) \/ SetCanceled(w) \/ SetFailed(w)
  BY <1>2 DEF Start, HookRead, HookSet, Escape, SetCanceled, SetFailed, Finish, JobFailed
<1>3. CASE EvCompleted(w) \/ EvCanceled(w) \/ HookEvent(w) \/ EvFailed(w)
  BY <1>3 DEF EvCompleted, EvCanceled, HookEvent, EvFailed, LogAndFinish, Finish, JobFailed
<1>4. CASE SetRunning(w) \/ EvRunning(w) \/ Respond(w) \/ FlushCheck(w) \/ FlushSave(w) \/ FlushEvent(w)
           \/ ProgCheck(w) \/ ProgSave(w) \/ ProgEvent(w) \/ FanoutDone(w)
  BY <1>4 DEF SetRunning, EvRunning, LogStep, Respond, FlushCheck, FlushSave, FlushEvent, ProgCheck, ProgSave,
     ProgEvent, CheckCanceled, FanoutDone, Unwind, ReportPc
<1>5. CASE Drain(w) \/ DrainEvent(w)
  BY <1>5 DEF Drain, DrainEvent
<1>6. CASE SaveEnvelope(w) \/ Agents(w) \/ SaveFinal(w) \/ SetCompleted(w) \/ Charge(w) \/ Salvage(w)
  BY <1>6 DEF SaveEnvelope, Agents, SaveFinal, SetCompleted, Charge, Salvage
<1>7. CASE Raise(w)
  BY <1>7 DEF Raise, Unwind, TryPc
<1>8. QED BY <1>1, <1>2, <1>3, <1>4, <1>5, <1>6, <1>7 DEF WorkerStep, WorkerFault

\* A worker charges its own run only, which is nowhere else.
LEMMA UnchargedWorker ==
  ASSUME TypeInv, Exclusive, Uncharged, NEW w \in Workers, WorkerStep(w) \/ WorkerFault(w)
  PROVE  Uncharged'
<1>1. ASSUME NEW r \in Runs, r # wrun[w] PROVE ledger'[r] = ledger[r]
  BY <1>1, LedgerWritten
<1>2. (apc = "enqueue" => ledger[arun] = 0)'
  <2> SUFFICES ASSUME apc' = "enqueue" PROVE ledger'[arun'] = 0
    OBVIOUS
  <2>1. apc = "enqueue" /\ arun' = arun /\ arun \in Runs /\ wrun[w] # arun
    BY RunsTaken DEF api, TypeInv, ControlTypes, InHand, Exclusive
  <2>2. QED BY <1>1, <2>1 DEF Uncharged
<1>3. ASSUME NEW i \in DOMAIN rq' PROVE ledger'[rq'[i]] = 0
  <2>1. rq \in Seq(Runs)
    BY DEF TypeInv, ControlTypes
  <2>2. rq' = rq \/ (rq # <<>> /\ rq' = Tail(rq))
    BY RunsTaken
  <2>3. PICK j \in DOMAIN rq : rq'[i] = rq[j]
    BY ONLY <1>3, <2>1, <2>2
  <2>4. rq[j] \in Runs /\ rq[j] # wrun[w] /\ ledger[rq[j]] = 0
    BY <2>1 DEF Exclusive, SingleExecutor, Uncharged
  <2>5. QED BY <1>1, <2>3, <2>4
<1>4. ASSUME NEW v \in Workers, wpc'[v] \in Unpaid PROVE ledger'[wrun'[v]] = 0
  <2>1. CASE v # w
    <3>1. wpc'[v] = wpc[v] /\ wrun'[v] = wrun[v]
      BY <2>1, RunsTaken
    <3>2. wrun[v] \in Runs
      BY <1>4, <3>1 DEF TypeInv, ControlTypes, InHand, Free, Unpaid, FanoutPc, DrainPc
    <3>3. wrun[v] # wrun[w]
      BY <2>1, <3>2, LifecycleConstants DEF Exclusive, SingleExecutor
    <3>4. QED BY <1>1, <1>4, <3>1, <3>2, <3>3 DEF Uncharged
  <2>2. CASE v = w
    <3>1. rq # <<>> => ledger[Head(rq)] = 0
      BY HeadUnique DEF Uncharged, Exclusive, SingleExecutor, TypeInv, ControlTypes
    <3>2. QED BY <1>4, <2>2, <3>1, UnpaidReached DEF Uncharged
  <2>3. QED BY <2>1, <2>2
<1>5. QED BY <1>2, <1>3, <1>4 DEF Uncharged

\* The API charges nothing.
LEMMA UnchargedApi == TypeInv /\ BillingInv /\ Uncharged /\ Api => Uncharged'
<1> SUFFICES ASSUME TypeInv, BillingInv, Uncharged, Api PROVE Uncharged'
  OBVIOUS
<1> USE DEF Uncharged, TypeInv, StoreTypes, ControlTypes, InHand, Unpaid, FanoutPc, DrainPc, Free, worker, redis, ApiGoto
<1>1. CASE CreateInsert
  <2>1. arun \in Runs /\ ledger[arun] = 0
    BY <1>1 DEF CreateInsert, BillingInv, Fresh, Unknown
  <2>2. QED BY <1>1, <2>1 DEF CreateInsert
<1>2. CASE Enqueue
  <2>1. /\ apc' # "enqueue" /\ rq \in Seq(Runs) /\ arun \in Runs /\ ledger[arun] = 0
        /\ rq' = rq \/ rq' = Append(rq, arun)
    BY <1>2 DEF Enqueue
  <2>2. \A i \in DOMAIN rq' : rq'[i] = arun \/ \E j \in DOMAIN rq : rq'[i] = rq[j]
    BY ONLY <2>1
  <2>3. UNCHANGED <<ledger, wpc, wrun>>
    BY <1>2 DEF Enqueue, db
  <2>4. \A i \in DOMAIN rq' : ledger'[rq'[i]] = 0
    <3>1. \A j \in DOMAIN rq : ledger[rq[j]] = 0
      OBVIOUS
    <3>2. QED BY ONLY <2>1, <2>2, <2>3, <3>1
  <2>5. QED BY <2>1, <2>3, <2>4
<1>3. ASSUME UNCHANGED <<ledger, redis, worker>>, apc' # "enqueue" PROVE Uncharged'
  BY <1>3
<1>4. ASSUME NEW u \in Users, DeleteUser(u) PROVE Uncharged'
  <2>1. \A r \in Runs : ledger'[r] \in {ledger[r], 0}
    BY <1>4 DEF DeleteUser
  <2>2. UNCHANGED <<redis, worker, apc, arun>>
    BY <1>4 DEF DeleteUser, api
  <2>3. \A i \in DOMAIN rq : rq[i] \in Runs
    OBVIOUS
  <2>4. ASSUME NEW w \in Workers, wpc[w] \in Unpaid PROVE wrun[w] \in Runs
    BY <2>4
  <2>5. QED BY <2>1, <2>2, <2>3, <2>4
<1>5. QED
  BY <1>1, <1>2, <1>3, <1>4 DEF Api, CreateCheck, NoteQueued, CreateFail, CancelRead, CancelSet, CancelEvent,
     ApiCrash, db

\* No run has a bill before its charge, throughout.
LEMMA UnchargedInvariant == Spec => []Uncharged
<1>1. Init => Uncharged
  BY LifecycleConstants DEF Init, Uncharged, Unpaid, FanoutPc, DrainPc
<1>2. Uncharged /\ UNCHANGED vars => Uncharged'
  BY DEF vars, db, redis, api, worker, Uncharged
<1>3. TypeInv /\ BillingInv /\ Exclusive /\ Uncharged /\ [Next]_vars => Uncharged'
  BY <1>2, UnchargedWorker, UnchargedApi DEF Next
<1>4. QED BY <1>1, <1>3, TypeInvariant, BillingInvariant, ExclusiveInvariant, PTL DEF Spec

Accepted  == {r \in Runs : Exists(r)}
Forgotten == {r \in Runs : status[r] = "gone"}
Published == {r \in Runs : Exists(r) /\ result[r] = "completed"}
Billed    == {r \in Runs : ledger[r] > 0}
Paying(r) == \E w \in Workers : wrun[w] = r /\ wpc[w] = "charge"
Owed      == {r \in Runs : status[r] = "gone" /\ Paying(r)}

\* A worker comes to the charge by completing a run whose row is there, and a step
\* from there leaves it, with the charge or without.
LEMMA ChargeReached ==
  ASSUME TypeInv, NEW w \in Workers, WorkerStep(w) \/ WorkerFault(w)
  PROVE  /\ wpc'[w] = "charge" => /\ wpc[w] = "setCompleted" /\ wrun'[w] = wrun[w]
                                  /\ status'[wrun[w]] = "completed"
         /\ wpc[w] = "charge" => /\ UNCHANGED <<status, result>> /\ wpc'[w] # "charge"
                                 /\ ledger' = ledger \/ Charge(w)
<1> USE DEF TypeInv, StoreTypes, ControlTypes, Goto, At, Jump, db
<1>1. CASE SaveEnvelope(w) \/ Agents(w) \/ SaveFinal(w) \/ Charge(w) \/ Salvage(w)
  BY <1>1 DEF SaveEnvelope, Agents, SaveFinal, Charge, Salvage
<1>2. CASE SetCompleted(w)
  <2>1. wpc[w] = "setCompleted" /\ wrun[w] \in Runs
    BY <1>2 DEF SetCompleted, InHand, Free
  <2>2. QED BY <1>2, <2>1 DEF SetCompleted, Update
<1>3. CASE Restart(w) \/ Boot(w) \/ Sweep(w) \/ Crash(w) \/ Dequeue(w) \/ \E r \in Runs : Abandon(w, r)
  BY <1>3 DEF Restart, Boot, Sweep, Crash, Dequeue, Abandon
<1>4. CASE Start(w) \/ HookRead(w) \/ HookSet(w) \/ Raise(w) \/ Escape(w) \/ SetCanceled(w) \/ SetFailed(w)
  BY <1>4 DEF Start, HookRead, HookSet, Raise, Escape, SetCanceled, SetFailed, Finish, JobFailed, Unwind, FanoutPc
<1>5. CASE SetRunning(w) \/ EvRunning(w) \/ Respond(w) \/ FlushCheck(w) \/ FlushSave(w) \/ FlushEvent(w)
           \/ ProgCheck(w) \/ ProgSave(w) \/ ProgEvent(w) \/ FanoutDone(w)
  BY <1>5 DEF SetRunning, EvRunning, LogStep, Respond, FlushCheck, FlushSave, FlushEvent, ProgCheck, ProgSave,
     ProgEvent, CheckCanceled, FanoutDone, Unwind, ReportPc
<1>6. CASE Drain(w) \/ DrainEvent(w)
  BY <1>6 DEF Drain, DrainEvent
<1>7. CASE EvCompleted(w) \/ EvCanceled(w) \/ HookEvent(w) \/ EvFailed(w)
  BY <1>7 DEF EvCompleted, EvCanceled, HookEvent, EvFailed, LogAndFinish, Finish, JobFailed
<1>8. QED BY <1>1, <1>2, <1>3, <1>4, <1>5, <1>6, <1>7 DEF WorkerStep, WorkerFault

\* A worker publishes or bills the run in hand, gives its bill up, or does nothing
\* anyone can see.
LEMMA WorkerImplements ==
  ASSUME TypeInv, BillingInv, Exclusive, Uncharged, NEW w \in Workers, WorkerStep(w) \/ WorkerFault(w)
  PROVE  [Billing!Next]_(Billing!vars)
<1> USE DEF Accepted, Forgotten, Published, Billed, Owed
<1>1. ASSUME NEW r \in Runs
      PROVE  /\ Exists(r)' <=> Exists(r)
             /\ status'[r] = "gone" <=> status[r] = "gone"
  BY <1>1, StatusWritten DEF Exists, RowStatus, TerminalStatus
<1>2. Accepted' = Accepted /\ Forgotten' = Forgotten
  BY <1>1
<1>3. \A v \in Workers \ {w} : wpc'[v] = wpc[v] /\ wrun'[v] = wrun[v]
  BY RunsTaken
<1>4. CASE wpc[w] = "charge"
  <2>1. PICK r \in Runs : r = wrun[w]
    BY <1>4 DEF TypeInv, ControlTypes, InHand, Free
  <2>2. UNCHANGED <<status, result>> /\ wpc'[w] # "charge" /\ (ledger' = ledger \/ Charge(w))
    BY <1>4, ChargeReached
  <2>3. \A v \in Workers : wrun[v] = r => v = w
    BY <2>1, LifecycleConstants DEF Exclusive, SingleExecutor
  <2>4. Paying(r) /\ ~Paying(r)'
    BY <1>3, <1>4, <2>1, <2>2, <2>3 DEF Paying
  <2>5. \A q \in Runs \ {r} : Paying(q)' <=> Paying(q)
    BY <1>3, <1>4, <2>1, <2>2 DEF Paying
  <2>6. Owed' = Owed \ {r} /\ Published' = Published
    BY <2>2, <2>4, <2>5 DEF Exists
  <2>7. CASE ledger' = ledger
    <3>1. Billed' = Billed
      BY <2>7
    <3>2. CASE r \in Owed
      <4>1. Billing!Waive(r)
        BY <1>2, <2>6, <3>1, <3>2 DEF Billing!Waive, Paying
      <4>2. QED BY <4>1 DEF Billing!Next
    <3>3. CASE r \notin Owed
      <4>1. Owed' = Owed
        BY <2>6, <3>3
      <4>2. QED BY <1>2, <2>6, <3>1, <4>1 DEF Billing!vars, Paying
    <3>4. QED BY <3>2, <3>3
  <2>8. CASE Charge(w)
    <3>1. ledger[r] = 0
      BY <1>4, <2>1 DEF Uncharged, Unpaid
    <3>2. Billed' = Billed \cup {r} /\ r \notin Billed
      BY <2>1, <2>8, <3>1 DEF Charge, TypeInv, StoreTypes
    <3>3. r \in Published \cup Owed
      <4>1. status[r] # "new"
        BY <2>1 DEF BillingInv, Fresh, Unknown
      <4>2. Exists(r) \/ status[r] = "gone"
        BY <4>1 DEF TypeInv, StoreTypes, Exists
      <4>3. Exists(r) => result[r] = "completed"
        BY <1>4, <2>1 DEF BillingInv, Backed, Earned
      <4>4. QED BY <2>4, <4>2, <4>3
    <3>4. Billing!Bill(r)
      BY <1>2, <2>6, <3>2, <3>3 DEF Billing!Bill, Paying
    <3>5. QED BY <3>4 DEF Billing!Next
  <2>9. QED BY <2>2, <2>7, <2>8
<1>5. CASE wpc[w] # "charge"
  <2>1. Billed' = Billed
    <3>1. \A r \in Runs : ledger'[r] = ledger[r]
      BY <1>5, LedgerWritten
    <3>2. QED BY <3>1
  <2>2. Owed' = Owed
    <3>1. ASSUME NEW r \in Runs, status[r] = "gone" PROVE Paying(r)' <=> Paying(r)
      <4>1. wpc'[w] = "charge" => wrun'[w] # r
        BY <1>1, <3>1, ChargeReached
      <4>2. QED BY <1>3, <1>5, <4>1 DEF Paying
    <3>2. QED BY <1>1, <3>1
  <2>3. ASSUME NEW r \in Runs, r # wrun[w] \/ ~Exists(r) PROVE r \in Published' <=> r \in Published
    BY <1>1, <2>3, ResultWritten
  <2>4. CASE \E r \in Runs : r \in Published' \ Published
    <3>1. PICK r \in Runs : r \in Published' \ Published
      BY <2>4
    <3>2. r = wrun[w] /\ Exists(r)
      BY <2>3, <3>1
    <3>3. Published' = Published \cup {r}
      BY <2>3, <3>1, <3>2
    <3>4. Billing!Publish(r)
      BY <1>2, <2>1, <2>2, <3>1, <3>2, <3>3 DEF Billing!Publish, Paying
    <3>5. QED BY <3>4 DEF Billing!Next
  <2>5. CASE ~ \E r \in Runs : r \in Published' \ Published
    <3>1. \A r \in Runs : r \in Published => r \in Published'
      BY <1>1, ResultWritten
    <3>2. Published' = Published
      BY <2>5, <3>1
    <3>3. QED BY <1>2, <2>1, <2>2, <3>2 DEF Billing!vars, Paying
  <2>6. QED BY <2>4, <2>5
<1>6. QED BY <1>4, <1>5

\* The API accepts a run when it inserts the row, and forgets an account together
\* with its bills; only a run on its way to the charge is then owed one.
LEMMA ApiImplements ==
  ASSUME TypeInv, BillingInv, Uncharged, Api
  PROVE  [Billing!Next]_(Billing!vars)
<1> USE DEF TypeInv, StoreTypes, ControlTypes, InHand
<1>0. UNCHANGED <<wpc, wrun>>
  BY DEF Api, CreateCheck, CreateInsert, Enqueue, NoteQueued, CreateFail, CancelRead, CancelSet, CancelEvent,
     DeleteUser, ApiCrash, worker
<1>1. CASE CreateInsert
  <2>1. arun \in Runs /\ status[arun] = "new" /\ Unknown(arun)
    BY <1>1 DEF CreateInsert, BillingInv, Fresh
  <2>2. Accepted' = Accepted \cup {arun} /\ arun \notin Accepted \cup Forgotten
    BY <1>1, <2>1 DEF CreateInsert, Accepted, Forgotten, Exists, RowStatus, TerminalStatus
  <2>3. Forgotten' = Forgotten /\ Published' = Published /\ Billed' = Billed /\ Owed' = Owed
    BY <1>0, <1>1, <2>1 DEF CreateInsert, Forgotten, Published, Billed, Owed, Paying, Unknown, Exists, RowStatus,
       TerminalStatus
  <2>4. Billing!Accept(arun)
    BY <2>2, <2>3 DEF Billing!Accept, Accepted, Forgotten, Published, Billed, Owed, Paying
  <2>5. QED BY <2>1, <2>4 DEF Billing!Next
<1>2. ASSUME NEW u \in Users, DeleteUser(u) PROVE Billing!Next
  <2> DEFINE mine  == {r \in Accepted : Owner[r] = u}
             bills == {r \in Billed : Owner[r] = u}
             late  == {r \in mine : Paying(r)}
  <2>1. mine \cup bills # {} /\ Accepted' = Accepted \ mine /\ Forgotten' = Forgotten \cup mine
    BY <1>2 DEF DeleteUser, Accepted, Forgotten, Billed, Exists, RowStatus, TerminalStatus
  <2>2. Published' = Published \ mine
    BY <1>2 DEF DeleteUser, Accepted, Published, Exists, RowStatus, TerminalStatus
  <2>3. Billed' = Billed \ bills
    BY <1>2 DEF DeleteUser, Billed
  <2>4. Owed' = Owed \cup late
    BY <1>0, <1>2 DEF DeleteUser, Owed, Paying, Accepted, Exists, RowStatus, TerminalStatus
  <2>5. ASSUME NEW r \in late PROVE r \in (mine \cap Published) \ Billed
    <3>1. r \in Runs /\ Exists(r) /\ r \in mine
      BY DEF Accepted
    <3>2. PICK w \in Workers : wrun[w] = r /\ wpc[w] = "charge"
      BY DEF Paying
    <3>3. result[r] = "completed" /\ ledger[r] = 0
      BY <3>1, <3>2 DEF BillingInv, Backed, Earned, Uncharged, Unpaid
    <3>4. QED BY <3>1, <3>3 DEF Published, Billed
  <2>6. late \in SUBSET ((mine \cap Published) \ Billed)
    BY <2>5
  <2>7. Billing!Forget(u)
    BY <2>1, <2>2, <2>3, <2>4, <2>6 DEF Billing!Forget, Accepted, Forgotten, Published, Billed, Owed, Paying
  <2>8. QED BY <1>2, <2>7 DEF Billing!Next
<1>3. CASE CreateFail \/ CancelSet
  <2>1. /\ Accepted' = Accepted /\ Forgotten' = Forgotten /\ Published' = Published /\ Billed' = Billed
        /\ Owed' = Owed
    BY <1>0, <1>3 DEF CreateFail, CancelSet, Update, Accepted, Forgotten, Published, Billed, Owed, Paying, Exists,
       RowStatus, TerminalStatus
  <2>2. QED BY <2>1 DEF Billing!vars, Accepted, Forgotten, Published, Billed, Owed, Paying
<1>4. CASE UNCHANGED <<status, result, ledger>>
  BY <1>0, <1>4 DEF Billing!vars, Exists
<1>5. QED
  BY <1>1, <1>2, <1>3, <1>4 DEF Api, CreateCheck, Enqueue, NoteQueued, CancelRead, CancelEvent, ApiCrash, db

\* The processes, tables and queue of the lifecycle keep the contract with the
\* customer: results are published for accepted runs only and withdrawn by
\* deletion only, a run is billed once and after its result was published, and
\* behind a deletion only a bill that was being written can still arrive.
THEOREM LifecycleImplementsBilling == Spec => ImplementsBilling
<1>1. Init => Billing!Init
  BY DEF Init, Billing!Init, Exists, RowStatus, TerminalStatus
<1>2. UNCHANGED vars => [Billing!Next]_(Billing!vars)
  BY DEF vars, db, worker, Billing!vars, Exists
<1>3. TypeInv /\ BillingInv /\ Exclusive /\ Uncharged /\ [Next]_vars => [Billing!Next]_(Billing!vars)
  BY <1>2, WorkerImplements, ApiImplements DEF Next
<1>4. QED
  BY <1>1, <1>3, TypeInvariant, BillingInvariant, ExclusiveInvariant, UnchargedInvariant, PTL
  DEF Spec, ImplementsBilling, Billing!Spec

---------------------------------------------------------------------------
(* The progress a client polls.                                            *)

\* A run that was not started has reported nothing, and an executor has not
\* reported more than it received.
Reported ==
  /\ \A r \in Runs : status[r] = "new" => done[r] = 0
  /\ apc = "enqueue" => done[arun] = 0
  /\ \A i \in DOMAIN rq : done[rq[i]] = 0
  /\ \A w \in Workers :
       /\ wpc[w] \in {"start", "setRunning"} => done[wrun[w]] = 0
       /\ wpc[w] \in {"evRunning"} \cup FanoutPc => done[wrun[w]] <= wn[w]

\* The three writes of done_count.
LEMMA DoneWritten ==
  ASSUME TypeInv, NEW w \in Workers, WorkerStep(w) \/ WorkerFault(w), NEW r \in Runs
  PROVE  \/ done'[r] = done[r]
         \/ /\ r = wrun[w] /\ wn' = wn
            /\ \/ wpc[w] = "setRunning" /\ done'[r] = 0
               \/ wpc[w] = "progSave" /\ done'[r] = wn[w]
               \/ wpc[w] = "setCompleted" /\ status'[r] = "completed" /\ done'[r] = Requested
<1> USE DEF TypeInv, StoreTypes, ControlTypes
<1>1. CASE SetRunning(w) \/ ProgSave(w) \/ SetCompleted(w)
  BY <1>1 DEF SetRunning, ProgSave, SetCompleted, Jump, Goto, Unwind, Update
<1>2. CASE done' = done
  BY <1>2
<1>3. QED
  BY <1>1, <1>2
  DEF WorkerStep, WorkerFault, db, Restart, Boot, Sweep, Dequeue, Start, EvRunning, LogStep, Respond, FlushCheck,
      FlushSave, FlushEvent, ProgCheck, ProgEvent, CheckCanceled, FanoutDone, Drain, DrainEvent, SaveEnvelope,
      Agents, SaveFinal, Charge, SetCanceled, EvCompleted, EvCanceled, LogAndFinish, Salvage, SetFailed, EvFailed,
      HookRead, HookSet, HookEvent, Abandon, Raise, Escape, Crash

\* A worker's answers are its own.
LEMMA OtherAnswers ==
  ASSUME TypeInv, NEW w \in Workers, WorkerStep(w) \/ WorkerFault(w), NEW v \in Workers \ {w}
  PROVE  wn'[v] = wn[v]
<1> USE DEF TypeInv, ControlTypes, Jump, Finish, JobFailed, Forget, Unwind
<1>1. CASE Respond(w)
  BY <1>1 DEF Respond
<1>2. CASE Start(w) \/ HookRead(w) \/ HookSet(w) \/ Escape(w) \/ Crash(w) \/ SetCanceled(w) \/ SetFailed(w)
           \/ EvCompleted(w) \/ EvCanceled(w) \/ HookEvent(w) \/ EvFailed(w)
  BY <1>2 DEF Start, HookRead, HookSet, Escape, Crash, SetCanceled, SetFailed, EvCompleted, EvCanceled, HookEvent,
     EvFailed, LogAndFinish
<1>3. CASE wn' = wn
  BY <1>3
<1>4. QED
  BY <1>1, <1>2, <1>3
  DEF WorkerStep, WorkerFault, Restart, Boot, Sweep, Dequeue, SetRunning, EvRunning, LogStep, FlushCheck,
      FlushSave, FlushEvent, ProgCheck, ProgSave, ProgEvent, CheckCanceled, FanoutDone, Drain, DrainEvent,
      SaveEnvelope, Agents, SaveFinal, SetCompleted, Charge, Salvage, Abandon, Raise

\* How a worker comes to the points that Reported speaks of.
LEMMA StartReached ==
  ASSUME TypeInv, NEW w \in Workers, WorkerStep(w) \/ WorkerFault(w)
  PROVE  /\ wpc'[w] = "start" =>
              \/ wpc[w] = "start" /\ wrun'[w] = wrun[w]
              \/ rq # <<>> /\ wrun'[w] = Head(rq) /\ done' = done
         /\ wpc'[w] = "setRunning" => wpc[w] \in {"start", "setRunning"} /\ wrun'[w] = wrun[w] /\ done' = done
         /\ wpc'[w] \in {"evRunning"} \cup FanoutPc =>
              /\ wpc[w] \in {"setRunning", "evRunning"} \cup FanoutPc
              /\ wrun'[w] = wrun[w] /\ wn'[w] >= wn[w]
              /\ wpc[w] = "setRunning" => done'[wrun[w]] = 0
<1> USE DEF TypeInv, StoreTypes, ControlTypes, InHand, Free, Goto, At, Jump, FanoutPc
<1>0. wn[w] \in Nat /\ wn[w] >= wn[w] /\ wn[w] + 1 >= wn[w]
  BY LifecycleConstants
<1>1. CASE SaveEnvelope(w) \/ Agents(w) \/ SaveFinal(w) \/ SetCompleted(w) \/ Charge(w) \/ Salvage(w)
  BY <1>1 DEF SaveEnvelope, Agents, SaveFinal, SetCompleted, Charge, Salvage
<1>2. CASE Restart(w) \/ Boot(w) \/ Sweep(w) \/ Crash(w) \/ Dequeue(w) \/ \E r \in Runs : Abandon(w, r)
  BY <1>2 DEF Restart, Boot, Sweep, Crash, Dequeue, Abandon, db
<1>3. CASE Start(w) \/ HookRead(w) \/ HookSet(w) \/ Escape(w) \/ SetCanceled(w) \/ SetFailed(w)
  BY <1>3 DEF Start, HookRead, HookSet, Escape, SetCanceled, SetFailed, Finish, JobFailed, db
<1>4. CASE Raise(w)
  BY <1>4 DEF Raise, Unwind, TryPc
<1>5. CASE SetRunning(w)
  BY <1>5 DEF SetRunning
<1>6. CASE Respond(w)
  <2>1. /\ wpc[w] = "fanout" /\ wrun'[w] = wrun[w] /\ wn'[w] = wn[w] + 1
        /\ wpc'[w] \notin {"start", "setRunning"}
    BY <1>6 DEF Respond, ReportPc
  <2>2. QED BY <1>0, <2>1
<1>7. CASE EvRunning(w) \/ FlushCheck(w) \/ FlushSave(w) \/ FlushEvent(w)
           \/ ProgCheck(w) \/ ProgSave(w) \/ ProgEvent(w) \/ FanoutDone(w)
  <2>1. /\ wpc[w] \in {"evRunning"} \cup FanoutPc /\ wrun'[w] = wrun[w] /\ wn'[w] = wn[w]
    BY <1>7 DEF EvRunning, LogStep, FlushCheck, FlushSave, FlushEvent, ProgCheck, ProgSave, ProgEvent,
       CheckCanceled, FanoutDone, Unwind
  <2>2. wpc'[w] \notin {"start", "setRunning"}
    BY <1>7 DEF EvRunning, LogStep, FlushCheck, FlushSave, FlushEvent, ProgCheck, ProgSave, ProgEvent,
       CheckCanceled, FanoutDone, Unwind, ReportPc
  <2>3. QED BY <1>0, <2>1, <2>2
<1>8. CASE Drain(w) \/ DrainEvent(w)
  BY <1>8 DEF Drain, DrainEvent
<1>9. CASE EvCompleted(w) \/ EvCanceled(w) \/ HookEvent(w) \/ EvFailed(w)
  BY <1>9 DEF EvCompleted, EvCanceled, HookEvent, EvFailed, LogAndFinish, Finish, JobFailed
<1>10. QED BY <1>1, <1>2, <1>3, <1>4, <1>5, <1>6, <1>7, <1>8, <1>9 DEF WorkerStep, WorkerFault

\* A worker reports what it received, and only its own run's progress.
LEMMA ReportedWorker ==
  ASSUME TypeInv, BillingInv, Exclusive, Reported, NEW w \in Workers, WorkerStep(w) \/ WorkerFault(w)
  PROVE  Reported'
<1>1. ASSUME NEW r \in Runs, r # wrun[w] \/ wpc[w] \notin {"progSave", "setCompleted"}
      PROVE  done[r] = 0 => done'[r] = 0
  BY <1>1, DoneWritten
<1>2. ASSUME NEW r \in Runs, status'[r] = "new" PROVE done'[r] = 0
  <2>1. status[r] = "new" /\ r # wrun[w]
    BY <1>2, StatusWritten DEF BillingInv, Fresh, Unknown, RowStatus, TerminalStatus
  <2>2. QED BY <1>1, <2>1 DEF Reported
<1>3. (apc = "enqueue" => done[arun] = 0)'
  <2> SUFFICES ASSUME apc' = "enqueue" PROVE done'[arun'] = 0
    OBVIOUS
  <2>1. apc = "enqueue" /\ arun' = arun /\ arun \in Runs /\ wrun[w] # arun
    BY RunsTaken DEF api, TypeInv, ControlTypes, InHand, Exclusive
  <2>2. QED BY <1>1, <2>1 DEF Reported
<1>4. ASSUME NEW i \in DOMAIN rq' PROVE done'[rq'[i]] = 0
  <2>1. rq \in Seq(Runs)
    BY DEF TypeInv, ControlTypes
  <2>2. rq' = rq \/ (rq # <<>> /\ rq' = Tail(rq))
    BY RunsTaken
  <2>3. PICK j \in DOMAIN rq : rq'[i] = rq[j]
    BY ONLY <1>4, <2>1, <2>2
  <2>4. rq[j] \in Runs /\ rq[j] # wrun[w] /\ done[rq[j]] = 0
    BY <2>1 DEF Exclusive, SingleExecutor, Reported
  <2>5. QED BY <1>1, <2>3, <2>4
<1>5. ASSUME NEW v \in Workers, v # w
      PROVE  /\ wpc'[v] \in {"start", "setRunning"} => done'[wrun'[v]] = 0
             /\ wpc'[v] \in {"evRunning"} \cup FanoutPc => done'[wrun'[v]] <= wn'[v]
  <2>1. wpc'[v] = wpc[v] /\ wrun'[v] = wrun[v]
    BY <1>5, RunsTaken
  <2> SUFFICES ASSUME wpc[v] \in {"start", "setRunning", "evRunning"} \cup FanoutPc
               PROVE  done'[wrun[v]] = done[wrun[v]] /\ wn'[v] = wn[v]
    BY <2>1 DEF Reported
  <2>2. wrun[v] \in Runs
    BY DEF TypeInv, ControlTypes, InHand, Free, FanoutPc
  <2>3. wrun[v] # wrun[w]
    BY <1>5, <2>2, LifecycleConstants DEF Exclusive, SingleExecutor
  <2>4. wn'[v] = wn[v]
    BY <1>5, OtherAnswers
  <2>5. QED BY <2>2, <2>3, <2>4, DoneWritten
<1>6. /\ wpc'[w] \in {"start", "setRunning"} => done'[wrun'[w]] = 0
      /\ wpc'[w] \in {"evRunning"} \cup FanoutPc => done'[wrun'[w]] <= wn'[w]
  <2>1. CASE wpc'[w] = "start"
    <3>1. rq # <<>> => done[Head(rq)] = 0
      BY HeadUnique DEF Reported, Exclusive, SingleExecutor, TypeInv, ControlTypes
    <3>2. wpc[w] = "start" => done[wrun[w]] = 0 /\ wrun[w] \in Runs
      BY DEF Reported, TypeInv, ControlTypes, InHand, Free
    <3>3. QED BY <1>1, <2>1, <3>1, <3>2, StartReached DEF FanoutPc
  <2>2. CASE wpc'[w] = "setRunning"
    BY <2>2, StartReached DEF Reported, FanoutPc
  <2>3. CASE wpc'[w] \in {"evRunning"} \cup FanoutPc
    <3>1. /\ wpc[w] \in {"setRunning", "evRunning"} \cup FanoutPc /\ wrun'[w] = wrun[w] /\ wn'[w] >= wn[w]
          /\ wpc[w] = "setRunning" => done'[wrun[w]] = 0
      BY <2>3, StartReached
    <3>2. wrun[w] \in Runs
      BY <3>1 DEF TypeInv, ControlTypes, InHand, Free, FanoutPc
    <3>3. /\ done[wrun[w]] \in Nat /\ wn[w] \in Nat /\ wn'[w] \in Nat
          /\ done'[wrun[w]] \in Nat
      <4>1. done' \in [Runs -> (0..Total) \cup {Requested}] /\ wn' \in [Workers -> 0..Total]
        BY WorkerControl, WorkerStore DEF StoreTypes, ControlTypes
      <4>2. done \in [Runs -> (0..Total) \cup {Requested}] /\ wn \in [Workers -> 0..Total]
        BY DEF TypeInv, StoreTypes, ControlTypes
      <4>3. QED BY ONLY <3>2, <4>1, <4>2, LifecycleConstants, w \in Workers
    <3>4. done'[wrun[w]] <= wn[w]
      BY <3>1, <3>2, <3>3, DoneWritten DEF Reported, FanoutPc
    <3>5. QED BY <2>3, <3>1, <3>3, <3>4 DEF FanoutPc
  <2>4. QED BY <2>1, <2>2, <2>3
<1>7. QED BY <1>2, <1>3, <1>4, <1>5, <1>6 DEF Reported

\* The API reports no progress.
LEMMA ReportedApi == TypeInv /\ BillingInv /\ Reported /\ Api => Reported'
<1> SUFFICES ASSUME TypeInv, BillingInv, Reported, Api PROVE Reported'
  OBVIOUS
<1> USE DEF Reported, TypeInv, StoreTypes, ControlTypes, InHand, FanoutPc, Free, worker, redis, ApiGoto
<1>1. CASE CreateInsert
  <2>1. arun \in Runs /\ done[arun] = 0
    BY <1>1 DEF CreateInsert, BillingInv, Fresh
  <2>2. QED BY <1>1, <2>1 DEF CreateInsert
<1>2. CASE Enqueue
  <2>1. /\ apc' # "enqueue" /\ rq \in Seq(Runs) /\ arun \in Runs /\ done[arun] = 0
        /\ rq' = rq \/ rq' = Append(rq, arun)
    BY <1>2 DEF Enqueue
  <2>2. \A i \in DOMAIN rq' : rq'[i] = arun \/ \E j \in DOMAIN rq : rq'[i] = rq[j]
    BY ONLY <2>1
  <2>3. UNCHANGED <<status, done, wpc, wrun, wn>>
    BY <1>2 DEF Enqueue, db
  <2>4. \A i \in DOMAIN rq' : done'[rq'[i]] = 0
    <3>1. \A j \in DOMAIN rq : done[rq[j]] = 0
      OBVIOUS
    <3>2. QED BY ONLY <2>1, <2>2, <2>3, <3>1
  <2>5. QED BY <2>1, <2>3, <2>4
<1>3. ASSUME UNCHANGED <<done, redis, worker>>, apc' # "enqueue",
             \A r \in Runs : status'[r] = "new" => status[r] = "new"
      PROVE  Reported'
  BY <1>3
<1>4. ASSUME NEW u \in Users, DeleteUser(u) PROVE Reported'
  <2>1. \A r \in Runs : done'[r] \in {done[r], 0} /\ (status'[r] = "new" => status[r] = "new")
    BY <1>4 DEF DeleteUser
  <2>2. UNCHANGED <<redis, worker, apc, arun>>
    BY <1>4 DEF DeleteUser, api
  <2>3. \A i \in DOMAIN rq : rq[i] \in Runs
    OBVIOUS
  <2>4. ASSUME NEW w \in Workers, wpc[w] \in {"start", "setRunning", "evRunning"} \cup FanoutPc
        PROVE  done'[wrun[w]] \in {done[wrun[w]], 0} /\ 0 <= wn[w]
    <3>1. wrun[w] \in Runs
      BY <2>4
    <3>2. wn[w] \in 0..Total
      OBVIOUS
    <3>3. QED BY <2>1, <3>1, <3>2, LifecycleConstants
  <2>5. \A w \in Workers :
          /\ wpc[w] \in {"start", "setRunning"} => done'[wrun[w]] = 0
          /\ wpc[w] \in {"evRunning"} \cup FanoutPc => done'[wrun[w]] <= wn[w]
    BY <2>4
  <2>6. QED BY <2>1, <2>2, <2>3, <2>5
<1>5. QED
  BY <1>1, <1>2, <1>3, <1>4 DEF Api, CreateCheck, NoteQueued, CreateFail, CancelRead, CancelSet, CancelEvent,
     ApiCrash, Update, db

\* No executor is ahead of what it received, throughout.
LEMMA ReportedInvariant == Spec => []Reported
<1>1. Init => Reported
  BY LifecycleConstants DEF Init, Reported, FanoutPc
<1>2. Reported /\ UNCHANGED vars => Reported'
  BY DEF vars, db, redis, api, worker, Reported
<1>3. TypeInv /\ BillingInv /\ Exclusive /\ Reported /\ [Next]_vars => Reported'
  BY <1>2, ReportedWorker, ReportedApi DEF Next
<1>4. QED BY <1>1, <1>3, TypeInvariant, BillingInvariant, ExclusiveInvariant, PTL DEF Spec

\* While a run exists, what a client sees of its progress never goes back, and
\* before completion neither does done_count: a job is executed once and by one
\* worker, whether more or fewer personas answer than were requested.
THEOREM ProgressNeverBack == Spec => ProgressMonotonic
<1> DEFINE Onward(r) == /\ Shown(done'[r]) >= Shown(done[r])
                        /\ status'[r] = "completed" \/ done'[r] >= done[r]
           Forward   == \A r \in Runs : (Exists(r))' => Onward(r)
<1>1. TypeInv /\ Reported /\ [Next]_vars => [Forward]_vars
  <2> SUFFICES ASSUME TypeInv, Reported, Next, NEW r \in Runs, (Exists(r))'
               PROVE  Onward(r)
    OBVIOUS
  <2>1. done[r] \in Nat /\ wn \in [Workers -> 0..Total] /\ Total \in Nat /\ Requested \in Nat
    BY LifecycleConstants DEF TypeInv, StoreTypes, ControlTypes
  <2>2. ASSUME done'[r] \in Nat, done'[r] >= done[r] PROVE Onward(r)
    BY ONLY <2>1, <2>2 DEF Shown
  <2>3. ASSUME NEW w \in Workers, WorkerStep(w) \/ WorkerFault(w) PROVE Onward(r)
    <3>1. /\ r = wrun[w] /\ wpc[w] = "setRunning" => done[r] = 0
          /\ r = wrun[w] /\ wpc[w] = "progSave" => done[r] <= wn[w] /\ wn[w] \in Nat
      BY <2>1 DEF Reported, FanoutPc
    <3>2. CASE status'[r] = "completed" /\ done'[r] = Requested
      BY ONLY <2>1, <3>2 DEF Shown
    <3>3. CASE done'[r] \in Nat /\ done'[r] >= done[r]
      BY <2>2, <3>3
    <3>4. QED BY <2>1, <2>3, <3>1, <3>2, <3>3, DoneWritten
  <2>4. CASE Api
    <3>1. ASSUME NEW u \in Users, DeleteUser(u) PROVE done'[r] = done[r]
      BY <3>1 DEF DeleteUser, Exists, RowStatus, TerminalStatus, TypeInv, StoreTypes
    <3>2. (\A u \in Users : ~DeleteUser(u)) => done' = done
      BY <2>4 DEF Api, CreateCheck, CreateInsert, Enqueue, NoteQueued, CreateFail, CancelRead, CancelSet,
         CancelEvent, ApiCrash, db
    <3>3. QED BY <2>1, <2>2, <3>1, <3>2
  <2>5. QED BY <2>3, <2>4 DEF Next
<1>2. QED BY <1>1, TypeInvariant, ReportedInvariant, PTL DEF Spec, ProgressMonotonic

---------------------------------------------------------------------------
(* Partial rows keep up with the reported progress.                        *)

\* Points at which a worker has received no answer of a run, points at which it
\* holds some, and those behind a fan-out that came to its end.
Unasked == Free \cup {"start", "setRunning", "evRunning"} \cup HookPc
Closing == {"saveEnvelope", "agents", "saveFinal", "setCompleted"}
Holding == FanoutPc \cup DrainPc \cup Closing

\* All answers but those in the buffer have their rows; behind a save, all.
Saved(w) ==
  /\ wpc[w] \in Holding /\ Exists(wrun[w]) => 1..(wn[w] - wbuf[w]) \subseteq partials[wrun[w]]
  /\ wpc[w] \in {"flushEvent", "drainEvent"} /\ Exists(wrun[w]) => 1..wn[w] \subseteq partials[wrun[w]]

\* Where progress is reported the buffer is shorter than a stride, and so it is in
\* a fan-out that nothing has ended before its time.
Bounded(w) ==
  /\ wpc[w] \in Unasked => wn[w] = 0
  /\ wpc[w] \in {"progCheck", "progSave", "progEvent"} \cup Closing => wbuf[w] < Stride
  /\ wpc[w] \in {"fanout"} \cup DrainPc /\ wnext[w] = "saveEnvelope" => wbuf[w] < Stride

\* Only a fan-out that received every answer goes on to the envelope.
Complete(w) ==
  /\ wpc[w] \in DrainPc /\ wnext[w] = "saveEnvelope" => wn[w] = Total
  /\ wpc[w] \in Closing => wn[w] = Total

\* The answers without a row of a run that reports n of them, when P have rows.
Lacking(n, P) == ((1..n) \cap (1..Total)) \ P

ProgressInv ==
  /\ \A w \in Workers : Saved(w) /\ Bounded(w) /\ Complete(w)
  /\ \A r \in Runs : Cardinality(Unsaved(r)) < Stride

\* Rows of partial answers are only ever added by a worker.
LEMMA PartialsGrow ==
  ASSUME TypeInv, NEW w \in Workers, WorkerStep(w) \/ WorkerFault(w), NEW r \in Runs
  PROVE  partials[r] \subseteq partials'[r]
<1> USE DEF TypeInv, StoreTypes
<1>1. CASE FlushSave(w) \/ Drain(w)
  BY <1>1 DEF FlushSave, Drain, SavePartials
<1>2. CASE Agents(w)
  BY <1>2 DEF Agents
<1>3. CASE partials' = partials
  BY <1>3
<1>4. QED
  BY <1>1, <1>2, <1>3
  DEF WorkerStep, WorkerFault, db, Restart, Boot, Sweep, Dequeue, Start, SetRunning, EvRunning, LogStep, Respond,
      FlushCheck, FlushEvent, ProgCheck, ProgSave, ProgEvent, CheckCanceled, FanoutDone, DrainEvent, SaveEnvelope,
      SaveFinal, SetCompleted, Charge, SetCanceled, EvCompleted, EvCanceled, LogAndFinish, Salvage, SetFailed,
      EvFailed, HookRead, HookSet, HookEvent, Abandon, Raise, Escape, Crash

\* How a worker comes to hold answers, and what a step does with them: they
\* come one at a time, and a buffer is emptied only behind the save of its rows.
LEMMA HoldingReached ==
  ASSUME TypeInv, NEW w \in Workers, WorkerStep(w) \/ WorkerFault(w), wpc'[w] \in Holding
  PROVE  /\ wrun'[w] = wrun[w]
         /\ wpc[w] \in {"evRunning"} \cup Holding
         /\ \/ wn'[w] = wn[w] /\ wbuf'[w] = wbuf[w]
            \/ wpc[w] = "fanout" /\ wn'[w] = wn[w] + 1 /\ wbuf'[w] = wbuf[w] + 1
            \/ wpc[w] \in {"flushEvent", "drainEvent"} /\ wn'[w] = wn[w] /\ wbuf'[w] = 0
         /\ wpc'[w] \in {"flushEvent", "drainEvent"} =>
              /\ wpc[w] \in {"flushSave", "drain"} /\ wn'[w] = wn[w]
              /\ partials'[wrun[w]] = partials[wrun[w]] \cup Buffered(w)
<1> USE DEF TypeInv, StoreTypes, ControlTypes, InHand, Goto, At, Jump, Holding, FanoutPc, DrainPc, Closing, Free
<1>1. CASE Restart(w) \/ Boot(w) \/ Sweep(w) \/ Crash(w) \/ Dequeue(w) \/ \E r \in Runs : Abandon(w, r)
  BY <1>1 DEF Restart, Boot, Sweep, Crash, Dequeue, Abandon
<1>2. CASE Start(w) \/ HookRead(w) \/ HookSet(w) \/ Escape(w) \/ SetCanceled(w) \/ SetFailed(w)
  BY <1>2 DEF Start, HookRead, HookSet, Escape, SetCanceled, SetFailed, Finish, JobFailed
<1>3. CASE EvCompleted(w) \/ EvCanceled(w) \/ HookEvent(w) \/ EvFailed(w)
  BY <1>3 DEF EvCompleted, EvCanceled, HookEvent, EvFailed, LogAndFinish, Finish, JobFailed
<1>4. CASE SetRunning(w) \/ EvRunning(w) \/ FlushCheck(w) \/ ProgCheck(w) \/ ProgSave(w) \/ ProgEvent(w)
           \/ FanoutDone(w)
  BY <1>4 DEF SetRunning, EvRunning, LogStep, FlushCheck, ProgCheck, ProgSave, ProgEvent, CheckCanceled,
     FanoutDone, Unwind
<1>5. CASE Respond(w)
  BY <1>5 DEF Respond, ReportPc
<1>6. CASE FlushSave(w) \/ FlushEvent(w)
  BY <1>6 DEF FlushSave, FlushEvent, LogStep, SavePartials, ReportPc
<1>7. CASE Drain(w) \/ DrainEvent(w)
  BY <1>7 DEF Drain, DrainEvent, SavePartials
<1>8. CASE SaveEnvelope(w) \/ Agents(w) \/ SaveFinal(w) \/ SetCompleted(w) \/ Charge(w) \/ Salvage(w)
  BY <1>8 DEF SaveEnvelope, Agents, SaveFinal, SetCompleted, Charge, Salvage
<1>9. CASE Raise(w)
  BY <1>9 DEF Raise, Unwind, TryPc
<1>10. QED BY <1>1, <1>2, <1>3, <1>4, <1>5, <1>6, <1>7, <1>8, <1>9 DEF WorkerStep, WorkerFault

\* A step of the worker keeps its own saved answers saved.
LEMMA SavedOwn ==
  ASSUME TypeInv, NEW w \in Workers, WorkerStep(w) \/ WorkerFault(w), Saved(w), Bounded(w)
  PROVE  Saved(w)'
<1> SUFFICES ASSUME wpc'[w] \in Holding, Exists(wrun[w])', wrun'[w] = wrun[w], wrun[w] \in Runs
             PROVE  /\ 1..(wn'[w] - wbuf'[w]) \subseteq partials'[wrun[w]]
                    /\ wpc'[w] \in {"flushEvent", "drainEvent"} => 1..wn'[w] \subseteq partials'[wrun[w]]
  <2>1. wpc'[w] \in {"flushEvent", "drainEvent"} => wpc'[w] \in Holding
    BY DEF Holding, FanoutPc, DrainPc
  <2>2. wpc'[w] \in Holding => wrun'[w] = wrun[w] /\ wrun[w] \in Runs
    BY HoldingReached DEF TypeInv, ControlTypes, InHand, Holding, FanoutPc, DrainPc, Closing, Free
  <2>3. QED BY <2>1, <2>2 DEF Saved, Exists
<1>1. Exists(wrun[w])
  BY StatusWritten DEF Exists
<1>2. partials[wrun[w]] \subseteq partials'[wrun[w]]
  BY PartialsGrow
<1>3. wn[w] \in Nat /\ wbuf[w] \in Nat /\ wbuf[w] <= wn[w]
  BY LifecycleConstants DEF TypeInv, ControlTypes, BufferOK
<1>4. 1..(wn[w] - wbuf[w]) \subseteq partials[wrun[w]]
  <2>1. CASE wpc[w] \in Holding
    BY <1>1, <2>1 DEF Saved
  <2>2. CASE wpc[w] = "evRunning"
    <3>1. wn[w] = 0 /\ wbuf[w] = 0
      BY <1>3, <2>2 DEF Bounded, Unasked
    <3>2. QED BY <3>1
  <2>3. QED BY <2>1, <2>2, HoldingReached
<1>5. 1..(wn'[w] - wbuf'[w]) \subseteq partials'[wrun[w]]
  <2>1. CASE wn'[w] - wbuf'[w] = wn[w] - wbuf[w]
    BY <1>2, <1>4, <2>1
  <2>2. CASE wpc[w] \in {"flushEvent", "drainEvent"} /\ wn'[w] = wn[w] /\ wbuf'[w] = 0
    <3>1. 1..wn[w] \subseteq partials[wrun[w]]
      BY <1>1, <2>2 DEF Saved
    <3>2. wn'[w] - wbuf'[w] = wn[w]
      BY <1>3, <2>2
    <3>3. QED BY <1>2, <3>1, <3>2
  <2>3. \/ wn'[w] = wn[w] /\ wbuf'[w] = wbuf[w]
        \/ wn'[w] = wn[w] + 1 /\ wbuf'[w] = wbuf[w] + 1
        \/ wpc[w] \in {"flushEvent", "drainEvent"} /\ wn'[w] = wn[w] /\ wbuf'[w] = 0
    BY HoldingReached
  <2>4. CASE wn'[w] = wn[w] + 1 /\ wbuf'[w] = wbuf[w] + 1
    <3>1. wn'[w] - wbuf'[w] = wn[w] - wbuf[w]
      BY <1>3, <2>4
    <3>2. QED BY <2>1, <3>1
  <2>5. CASE wn'[w] = wn[w] /\ wbuf'[w] = wbuf[w]
    BY <2>1, <2>5
  <2>6. QED BY <2>2, <2>3, <2>4, <2>5
<1>6. wpc'[w] \in {"flushEvent", "drainEvent"} => 1..wn'[w] \subseteq partials'[wrun[w]]
  <2> SUFFICES ASSUME wpc'[w] \in {"flushEvent", "drainEvent"} PROVE 1..wn'[w] \subseteq partials'[wrun[w]]
    OBVIOUS
  <2>1. wn'[w] = wn[w] /\ partials'[wrun[w]] = partials[wrun[w]] \cup ((wn[w] - wbuf[w] + 1)..wn[w])
    BY HoldingReached DEF Buffered
  <2>2. 1..wn[w] \subseteq (1..(wn[w] - wbuf[w])) \cup ((wn[w] - wbuf[w] + 1)..wn[w])
    BY <1>3
  <2>3. QED BY <1>4, <2>1, <2>2
<1>7. QED BY <1>5, <1>6

\* A step of the worker keeps its buffer bounded, and its fan-out complete.
LEMMA BoundedOwn ==
  ASSUME TypeInv, NEW w \in Workers, WorkerStep(w) \/ WorkerFault(w), Bounded(w), Complete(w)
  PROVE  Bounded(w)' /\ Complete(w)'
<1> USE DEF Bounded, Complete, TypeInv, ControlTypes, Goto, At, Jump, Holding, FanoutPc, DrainPc, Closing, Free,
            Unasked, HookPc
<1>0. wn[w] \in Nat /\ wbuf[w] \in Nat /\ Total \in Nat /\ Stride \in Nat /\ Stride > 0
  BY LifecycleConstants
<1>1. CASE Restart(w) \/ Boot(w) \/ Sweep(w) \/ Crash(w) \/ Dequeue(w) \/ \E r \in Runs : Abandon(w, r)
  BY <1>1 DEF Restart, Boot, Sweep, Crash, Dequeue, Abandon, Forget
<1>2. CASE Start(w) \/ HookRead(w) \/ HookSet(w) \/ Escape(w) \/ SetCanceled(w) \/ SetFailed(w)
  BY <1>2 DEF Start, HookRead, HookSet, Escape, SetCanceled, SetFailed, Finish, JobFailed, Forget
<1>3. CASE EvCompleted(w) \/ EvCanceled(w) \/ HookEvent(w) \/ EvFailed(w)
  BY <1>3 DEF EvCompleted, EvCanceled, HookEvent, EvFailed, LogAndFinish, Finish, JobFailed, Forget
<1>4. CASE SetRunning(w)
  BY <1>4 DEF SetRunning
<1>5. CASE EvRunning(w)
  <2>1. wbuf[w] = 0
    BY <1>0, <1>5 DEF EvRunning, LogStep, BufferOK
  <2>2. QED BY <1>0, <1>5, <2>1 DEF EvRunning, LogStep
<1>6. CASE FlushCheck(w) \/ ProgCheck(w) \/ ProgSave(w) \/ ProgEvent(w) \/ FlushSave(w)
  BY <1>6 DEF FlushCheck, ProgCheck, ProgSave, ProgEvent, FlushSave, LogStep, CheckCanceled, Unwind
<1>7. CASE FanoutDone(w)
  BY <1>7 DEF FanoutDone
<1>8. CASE Respond(w)
  <2>1. /\ wpc[w] = "fanout" /\ wn'[w] = wn[w] + 1 /\ wbuf'[w] = wbuf[w] + 1 /\ wnext'[w] = wnext[w]
        /\ wpc'[w] = IF wbuf[w] + 1 >= Stride THEN "flushCheck" ELSE ReportPc(wn[w] + 1)
    BY <1>8 DEF Respond
  <2>2. ReportPc(wn[w] + 1) \in {"progCheck", "fanout"}
    BY DEF ReportPc
  <2>3. QED BY <1>0, <2>1, <2>2
<1>9. CASE FlushEvent(w)
  <2>1. /\ wpc[w] = "flushEvent" /\ wbuf'[w] = 0 /\ wn' = wn
        /\ wpc'[w] \in {"progCheck", "fanout"}
    BY <1>9 DEF FlushEvent, LogStep, ReportPc
  <2>2. QED BY <1>0, <2>1
<1>10. CASE Drain(w) \/ DrainEvent(w)
  BY <1>0, <1>10 DEF Drain, DrainEvent
<1>11. CASE SaveEnvelope(w) \/ Agents(w) \/ SaveFinal(w) \/ SetCompleted(w) \/ Charge(w) \/ Salvage(w)
  BY <1>11 DEF SaveEnvelope, Agents, SaveFinal, SetCompleted, Charge, Salvage
<1>12. CASE Raise(w)
  BY <1>12 DEF Raise, Unwind, TryPc
<1>13. QED
  BY <1>1, <1>2, <1>3, <1>4, <1>5, <1>6, <1>7, <1>8, <1>9, <1>10, <1>11, <1>12 DEF WorkerStep, WorkerFault

\* The buffer and the exit of a worker are its own.
LEMMA OtherBuffers ==
  ASSUME TypeInv, NEW w \in Workers, WorkerStep(w) \/ WorkerFault(w), NEW v \in Workers \ {w}
  PROVE  wbuf'[v] = wbuf[v] /\ wnext'[v] = wnext[v]
<1> USE DEF TypeInv, ControlTypes, Jump, Finish, JobFailed, Forget, Unwind
<1>1. CASE Respond(w) \/ FlushEvent(w) \/ DrainEvent(w)
  BY <1>1 DEF Respond, FlushEvent, DrainEvent, LogStep
<1>2. CASE Start(w) \/ HookRead(w) \/ HookSet(w) \/ Escape(w) \/ Crash(w) \/ SetCanceled(w) \/ SetFailed(w)
           \/ EvCompleted(w) \/ EvCanceled(w) \/ HookEvent(w) \/ EvFailed(w)
  BY <1>2 DEF Start, HookRead, HookSet, Escape, Crash, SetCanceled, SetFailed, EvCompleted, EvCanceled, HookEvent,
     EvFailed, LogAndFinish
<1>3. CASE FlushCheck(w) \/ ProgCheck(w) \/ ProgSave(w) \/ Raise(w)
  BY <1>3 DEF FlushCheck, ProgCheck, ProgSave, Raise, CheckCanceled
<1>4. CASE wbuf' = wbuf /\ wnext' = wnext
  BY <1>4
<1>5. QED
  BY <1>1, <1>2, <1>3, <1>4
  DEF WorkerStep, WorkerFault, Restart, Boot, Sweep, Dequeue, SetRunning, EvRunning, LogStep, FlushSave,
      ProgEvent, FanoutDone, Drain, SaveEnvelope, Agents, SaveFinal, SetCompleted, Charge, Salvage, Abandon

---------------------------------------------------------------------------
(* Counting what is unsaved.                                               *)

\* If all but b of the first n answers have rows and b is below Stride, fewer than
\* Stride lack one; and no others are missing when those n are all there are.
LEMMA FewUnsaved ==
  ASSUME NEW n \in Nat, NEW b \in Nat, NEW P, b <= n, b < Stride, 1..(n - b) \subseteq P,
         NEW m \in Nat, m <= n \/ n = Total
  PROVE  Cardinality(Lacking(m, P)) < Stride
<1>1. Lacking(m, P) \subseteq (n - b + 1)..n
  BY LifecycleConstants DEF Lacking
<1>2. IsFiniteSet((n - b + 1)..n) /\ Cardinality((n - b + 1)..n) = b
  <2>1. n - b + 1 \in Int /\ n \in Int /\ n - (n - b + 1) + 1 = b /\ (n - b + 1 > n => b = 0)
    OBVIOUS
  <2>2. QED BY <2>1, FS_Interval
<1>3. Cardinality(Lacking(m, P)) <= b /\ Cardinality(Lacking(m, P)) \in Nat
  BY <1>1, <1>2, FS_Subset, FS_CardinalityType
<1>4. QED BY <1>3, LifecycleConstants

\* More rows leave no more answers unsaved.
LEMMA FewerUnsaved ==
  ASSUME NEW n \in Nat, NEW P, NEW Q, P \subseteq Q, Cardinality(Lacking(n, P)) < Stride
  PROVE  Cardinality(Lacking(n, Q)) < Stride
<1>1. Lacking(n, Q) \subseteq Lacking(n, P) /\ Lacking(n, P) \subseteq 1..n
  BY DEF Lacking
<1>2. IsFiniteSet(Lacking(n, P)) /\ IsFiniteSet(Lacking(n, Q))
  <2>1. IsFiniteSet(1..n)
    BY FS_Interval
  <2>2. QED BY <1>1, <2>1, FS_Subset
<1>3. Cardinality(Lacking(n, Q)) <= Cardinality(Lacking(n, P))
  BY <1>1, <1>2, FS_Subset
<1>4. Cardinality(Lacking(n, P)) \in Nat /\ Cardinality(Lacking(n, Q)) \in Nat
  BY <1>2, FS_CardinalityType
<1>5. QED BY <1>3, <1>4, LifecycleConstants

\* A run that reported nothing has nothing unsaved.
LEMMA NoneUnsaved == \A P : Cardinality(Lacking(0, P)) < Stride
<1> SUFFICES ASSUME NEW P PROVE Cardinality(Lacking(0, P)) < Stride
  OBVIOUS
<1>1. Lacking(0, P) = {}
  BY DEF Lacking
<1>2. QED BY <1>1, FS_EmptySet, LifecycleConstants

---------------------------------------------------------------------------
(* Progress is written for a run that exists.                              *)
LEMMA DoneOfRow ==
  ASSUME TypeInv, NEW w \in Workers, WorkerStep(w) \/ WorkerFault(w), NEW r \in Runs, done'[r] # done[r]
  PROVE  Exists(r)
<1> USE DEF TypeInv, StoreTypes, ControlTypes
<1>1. CASE SetRunning(w) \/ ProgSave(w) \/ SetCompleted(w)
  BY <1>1 DEF SetRunning, ProgSave, SetCompleted, Update
<1>2. CASE done' = done
  BY <1>2
<1>3. QED
  BY <1>1, <1>2
  DEF WorkerStep, WorkerFault, db, Restart, Boot, Sweep, Dequeue, Start, EvRunning, LogStep, Respond, FlushCheck,
      FlushSave, FlushEvent, ProgCheck, ProgEvent, CheckCanceled, FanoutDone, Drain, DrainEvent, SaveEnvelope,
      Agents, SaveFinal, Charge, SetCanceled, EvCompleted, EvCanceled, LogAndFinish, Salvage, SetFailed, EvFailed,
      HookRead, HookSet, HookEvent, Abandon, Raise, Escape, Crash

\* What a worker reports is what it received, so all but its buffer is saved.
LEMMA ProgressWorker ==
  ASSUME TypeInv, ProgressInv, NEW w \in Workers, WorkerStep(w) \/ WorkerFault(w)
  PROVE  ProgressInv'
<1>1. ASSUME NEW v \in Workers PROVE (Saved(v) /\ Bounded(v) /\ Complete(v))'
  <2>1. Saved(v) /\ Bounded(v) /\ Complete(v)
    BY DEF ProgressInv
  <2>2. CASE v = w
    BY <2>1, <2>2, SavedOwn, BoundedOwn
  <2>3. CASE v # w
    <3>1. /\ wpc'[v] = wpc[v] /\ wrun'[v] = wrun[v] /\ wn'[v] = wn[v]
          /\ wbuf'[v] = wbuf[v] /\ wnext'[v] = wnext[v]
      BY <2>3, RunsTaken, OtherAnswers, OtherBuffers
    <3>2. wpc[v] \in Holding \cup {"flushEvent", "drainEvent"} => wrun[v] \in Runs
      BY DEF TypeInv, ControlTypes, InHand, Free, Holding, FanoutPc, DrainPc, Closing
    <3>3. ASSUME wrun[v] \in Runs
          PROVE  /\ partials[wrun[v]] \subseteq partials'[wrun[v]]
                 /\ Exists(wrun[v])' => Exists(wrun[v])
      BY <3>1, <3>3, PartialsGrow, StatusWritten DEF Exists
    <3>4. Saved(v)'
      BY <2>1, <3>1, <3>2, <3>3 DEF Saved
    <3>5. Bounded(v)' /\ Complete(v)'
      BY <2>1, <3>1 DEF Bounded, Complete
    <3>6. QED BY <3>4, <3>5
  <2>4. QED BY <2>2, <2>3
<1>2. ASSUME NEW r \in Runs PROVE Cardinality(Lacking(done'[r], partials'[r])) < Stride
  <2>1. /\ partials[r] \subseteq partials'[r] /\ Cardinality(Lacking(done[r], partials[r])) < Stride
        /\ done[r] \in Nat /\ Requested \in Nat
    BY PartialsGrow, LifecycleConstants DEF ProgressInv, Unsaved, Lacking, TypeInv, StoreTypes
  <2>2. CASE done'[r] = done[r]
    BY <2>1, <2>2, FewerUnsaved
  <2>3. CASE done'[r] = 0
    BY <2>3, NoneUnsaved
  <2>4. CASE done'[r] # done[r] /\ done'[r] # 0
    <3>1. Exists(r) /\ r = wrun[w]
      BY <2>4, DoneOfRow, DoneWritten
    <3>2. /\ wpc[w] \in {"progSave", "setCompleted"}
          /\ done'[r] = wn[w] \/ (done'[r] = Requested /\ wn[w] = Total)
      BY <2>4, DoneWritten DEF ProgressInv, Complete, Closing
    <3>3. 1..(wn[w] - wbuf[w]) \subseteq partials'[r]
      BY <2>1, <3>1, <3>2 DEF ProgressInv, Saved, Holding, FanoutPc, Closing
    <3>4. wbuf[w] < Stride
      BY <3>2 DEF ProgressInv, Bounded, Closing
    <3>5. wn[w] \in Nat /\ wbuf[w] \in Nat /\ wbuf[w] <= wn[w]
      BY LifecycleConstants DEF TypeInv, ControlTypes, BufferOK
    <3>6. done'[r] \in Nat /\ (done'[r] <= wn[w] \/ wn[w] = Total)
      BY <2>1, <3>2, <3>5
    <3>7. QED BY <3>3, <3>4, <3>5, <3>6, FewUnsaved
  <2>5. QED BY <2>2, <2>3, <2>4
<1>3. QED BY <1>1, <1>2 DEF ProgressInv, Unsaved, Lacking

\* The API neither reports progress nor takes rows of a run that remains.
LEMMA ProgressApi == TypeInv /\ BillingInv /\ ProgressInv /\ Api => ProgressInv'
<1> SUFFICES ASSUME TypeInv, BillingInv, ProgressInv, Api PROVE ProgressInv'
  OBVIOUS
<1>1. UNCHANGED worker
  BY DEF Api, CreateCheck, CreateInsert, Enqueue, NoteQueued, CreateFail, CancelRead, CancelSet, CancelEvent,
     DeleteUser, ApiCrash
<1>2. ASSUME NEW r \in Runs PROVE \/ UNCHANGED <<done[r], partials[r]>>
                                  \/ done'[r] = 0 /\ ~Exists(r)'
  <2>1. ASSUME NEW u \in Users, DeleteUser(u)
        PROVE  UNCHANGED <<done[r], partials[r]>> \/ (done'[r] = 0 /\ status'[r] = "gone")
    BY <2>1 DEF DeleteUser
  <2>2. UNCHANGED <<done, partials>> \/ \E u \in Users : DeleteUser(u)
    BY DEF Api, CreateCheck, CreateInsert, Enqueue, NoteQueued, CreateFail, CancelRead, CancelSet, CancelEvent,
       ApiCrash, db
  <2>3. QED BY <2>1, <2>2 DEF Exists, RowStatus, TerminalStatus
<1>3. ASSUME NEW r \in Runs, Exists(r)' PROVE Exists(r) \/ status[r] = "new"
  <2>1. ASSUME NEW u \in Users, DeleteUser(u) PROVE status'[r] \in {status[r], "gone"}
    BY <2>1 DEF DeleteUser
  <2>2. CASE CreateInsert
    BY <1>3, <2>2 DEF CreateInsert, BillingInv, Fresh, TypeInv, StoreTypes, Exists
  <2>3. CASE CreateFail \/ CancelSet
    BY <1>3, <2>3 DEF CreateFail, CancelSet, Update, TypeInv, StoreTypes, Exists
  <2>4. CASE status' = status
    BY <1>3, <2>4 DEF Exists
  <2>5. QED
    BY <1>3, <2>1, <2>2, <2>3, <2>4
    DEF Api, CreateCheck, Enqueue, NoteQueued, CancelRead, CancelEvent, ApiCrash, db, Exists, RowStatus,
        TerminalStatus
<1>4. ASSUME NEW v \in Workers PROVE (Saved(v) /\ Bounded(v) /\ Complete(v))'
  <2>1. Saved(v) /\ Bounded(v) /\ Complete(v)
    BY DEF ProgressInv
  <2>2. wpc[v] \in Holding \cup {"flushEvent", "drainEvent"} => wrun[v] \in Runs
    BY DEF TypeInv, ControlTypes, InHand, Free, Holding, FanoutPc, DrainPc, Closing
  <2>3. wpc' = wpc /\ wrun' = wrun /\ wn' = wn /\ wbuf' = wbuf /\ wnext' = wnext
    BY <1>1 DEF worker
  <2>4. ASSUME NEW r \in Runs, wrun[v] = r, status'[r] \in RowStatus
        PROVE  status[r] \in RowStatus /\ partials'[r] = partials[r]
    <3>1. status[r] # "new"
      BY <2>4 DEF BillingInv, Fresh, Unknown
    <3>2. QED BY <1>2, <1>3, <2>4, <3>1 DEF Exists
  <2>5. Saved(v)'
    BY <2>1, <2>2, <2>3, <2>4 DEF Saved, Exists
  <2>6. Bounded(v)' /\ Complete(v)'
    BY <2>1, <2>3 DEF Bounded, Complete
  <2>7. QED BY <2>5, <2>6
<1>5. ASSUME NEW r \in Runs PROVE Cardinality(Lacking(done'[r], partials'[r])) < Stride
  <2>1. Cardinality(Lacking(done[r], partials[r])) < Stride
    BY DEF ProgressInv, Unsaved, Lacking
  <2>2. QED BY <1>2, <2>1, NoneUnsaved
<1>6. QED BY <1>4, <1>5 DEF ProgressInv, Unsaved, Lacking

\* All but fewer than a stride are saved, throughout.
LEMMA ProgressInvariant == Spec => []ProgressInv
<1>1. Init => ProgressInv
  <2> SUFFICES ASSUME Init PROVE ProgressInv
    OBVIOUS
  <2>1. ASSUME NEW w \in Workers PROVE Saved(w) /\ Bounded(w) /\ Complete(w)
    BY DEF Init, Saved, Bounded, Complete, Holding, FanoutPc, DrainPc, Closing
  <2>2. ASSUME NEW r \in Runs PROVE Cardinality(Unsaved(r)) < Stride
    BY NoneUnsaved DEF Init, Unsaved, Lacking
  <2>3. QED BY <2>1, <2>2 DEF ProgressInv
<1>2. ProgressInv /\ UNCHANGED vars => ProgressInv'
  BY DEF vars, db, redis, api, worker, ProgressInv, Saved, Bounded, Complete, Unsaved, Exists
<1>3. TypeInv /\ BillingInv /\ ProgressInv /\ [Next]_vars => ProgressInv'
  BY <1>2, ProgressWorker, ProgressApi DEF Next
<1>4. QED BY <1>1, <1>3, TypeInvariant, BillingInvariant, PTL DEF Spec

\* Of the answers a run reports, fewer than Stride have no partial row, whatever
\* flush failed on the way: what a client polls can be shown to it.
THEOREM ProgressIsSaved == Spec => []PartialsCoverProgress
<1>1. ProgressInv => PartialsCoverProgress
  BY DEF ProgressInv, PartialsCoverProgress, Unsaved
<1>2. QED BY <1>1, ProgressInvariant, PTL

---------------------------------------------------------------------------
(* A failed run keeps an envelope, where the store works, workers live and *)
(* no account is deleted.                                                  *)

Undisturbed == {"delete", "store", "crash"} \cap Env = {}

\* No job is without its worker, and no run is taken from under it.
StartedHeld == \A r \in started : \E w \in Workers : wrun[w] = r
NoneGone    == \A r \in Runs : status[r] # "gone"

\* Points behind the exception handler's save.
FailingPc == {"setFailed", "evFailed"} \cup HookPc
Kept      == \A w \in Workers : wpc[w] \in FailingPc => result[wrun[w]] # "none"

EnvelopeInv == StartedHeld /\ NoneGone /\ Kept /\ FailedKeepsEnvelope

\* A run in hand has its row.
LEMMA HeldExists ==
  ASSUME TypeInv, Fresh, NoneGone, NEW w \in Workers, wrun[w] \in Runs
  PROVE  Exists(wrun[w])
BY DEF TypeInv, StoreTypes, Fresh, Unknown, NoneGone, Exists

\* FAILED is logged behind the exception handler's save, or by the hook.
LEMMA FailedLogged ==
  ASSUME TypeInv, NEW w \in Workers, WorkerStep(w) \/ WorkerFault(w), NEW r \in Runs, Logged(r, "failed")'
  PROVE  Logged(r, "failed") \/ (r = wrun[w] /\ wpc[w] \in FailingPc)
<1> USE DEF TypeInv, StoreTypes, FailingPc, HookPc
<1>1. CASE events' = events
  BY <1>1 DEF Logged
<1>2. ASSUME NEW e \in RunEvent \ {"failed"}, AppendEvent(wrun[w], e) PROVE Logged(r, "failed")
  BY <1>2, AppendLogged DEF AppendEvent, Logged
<1>3. CASE EvRunning(w) \/ FlushEvent(w) \/ ProgEvent(w) \/ DrainEvent(w) \/ EvCanceled(w) \/ EvCompleted(w)
  <2>1. {"running", "partial_result", "progress", "canceled", "completed"} \subseteq RunEvent \ {"failed"}
    BY DEF RunEvent, TerminalStatus
  <2>2. \/ events' = events
        \/ \E e \in RunEvent \ {"failed"} : AppendEvent(wrun[w], e)
    BY <1>3, <2>1 DEF EvRunning, FlushEvent, ProgEvent, DrainEvent, EvCanceled, EvCompleted, LogStep, LogAndFinish
  <2>3. QED BY <1>1, <1>2, <2>2
<1>4. CASE HookEvent(w) \/ EvFailed(w)
  BY <1>4 DEF HookEvent, EvFailed, LogAndFinish, AppendEvent, Logged
<1>5. CASE Sweep(w)
  <2>1. "interrupted" \in RunEvent
    BY DEF RunEvent, TerminalStatus
  <2>2. events'[r] = events[r] \/ events'[r] = Append(events[r], "interrupted")
    BY <1>5 DEF Sweep
  <2>3. CASE events'[r] = events[r]
    BY <2>3 DEF Logged
  <2>4. CASE events'[r] = Append(events[r], "interrupted")
    BY <2>1, <2>4, AppendLogged DEF Logged
  <2>5. QED BY <2>2, <2>3, <2>4
<1>6. QED
  BY <1>1, <1>3, <1>4, <1>5
  DEF WorkerStep, WorkerFault, db, Restart, Boot, Dequeue, Start, SetRunning, Respond, FlushCheck, FlushSave,
      ProgCheck, ProgSave, CheckCanceled, FanoutDone, Drain, SaveEnvelope, Agents, SaveFinal, SetCompleted, Charge,
      SetCanceled, Salvage, SetFailed, HookRead, HookSet, Abandon, Raise, Escape, Crash

\* A worker fails a run only behind that save: with its row there the job does not
\* fail before it, and no job is abandoned.
LEMMA FailingReached ==
  ASSUME Undisturbed, TypeInv, Fresh, NoneGone, StartedHeld, NEW w \in Workers,
         WorkerStep(w) \/ WorkerFault(w), wpc'[w] \in FailingPc
  PROVE  /\ wrun'[w] = wrun[w] /\ wrun[w] \in Runs
         /\ wpc[w] \in FailingPc \/ result'[wrun[w]] # "none"
<1> USE DEF TypeInv, ControlTypes, InHand, Free, Goto, At, Jump, FailingPc, HookPc
<1>0. wrun[w] \in Runs => Exists(wrun[w])
  BY HeldExists
<1>1. CASE Restart(w) \/ Boot(w) \/ Sweep(w) \/ Dequeue(w)
  BY <1>1 DEF Restart, Boot, Sweep, Dequeue
<1>2. CASE Crash(w) \/ Escape(w)
  BY <1>2 DEF Crash, Escape, Undisturbed
<1>3. ASSUME NEW r \in Runs, Abandon(w, r) PROVE FALSE
  BY <1>3 DEF Abandon, StartedHeld
<1>4. CASE Start(w) \/ HookRead(w) \/ HookSet(w) \/ SetCanceled(w) \/ SetFailed(w)
  BY <1>0, <1>4 DEF Start, HookRead, HookSet, SetCanceled, SetFailed, Finish
<1>5. CASE EvCompleted(w) \/ EvCanceled(w) \/ HookEvent(w) \/ EvFailed(w)
  BY <1>5 DEF EvCompleted, EvCanceled, HookEvent, EvFailed, LogAndFinish, Finish, JobFailed
<1>6. CASE SetRunning(w) \/ EvRunning(w) \/ Respond(w) \/ FlushCheck(w) \/ FlushSave(w) \/ FlushEvent(w)
           \/ ProgCheck(w) \/ ProgSave(w) \/ ProgEvent(w) \/ FanoutDone(w)
  BY <1>6 DEF SetRunning, EvRunning, LogStep, Respond, FlushCheck, FlushSave, FlushEvent, ProgCheck, ProgSave,
     ProgEvent, CheckCanceled, FanoutDone, Unwind, ReportPc
<1>7. CASE Drain(w) \/ DrainEvent(w)
  BY <1>7 DEF Drain, DrainEvent
<1>8. CASE SaveEnvelope(w) \/ Agents(w) \/ SaveFinal(w) \/ SetCompleted(w) \/ Charge(w)
  BY <1>8 DEF SaveEnvelope, Agents, SaveFinal, SetCompleted, Charge
<1>9. CASE Salvage(w)
  <2>1. wrun'[w] = wrun[w] /\ wrun[w] \in Runs
    BY <1>9 DEF Salvage
  <2>2. "store" \notin Env
    BY DEF Undisturbed
  <2>3. result'[wrun[w]] # "none"
    BY <1>9, <2>1, <2>2 DEF Salvage, StoreTypes
  <2>4. QED BY <2>1, <2>3
<1>10. CASE Raise(w)
  BY <1>10 DEF Raise, Unwind, TryPc
<1>11. QED
  BY <1>1, <1>2, <1>3, <1>4, <1>5, <1>6, <1>7, <1>8, <1>9, <1>10 DEF WorkerStep, WorkerFault

\* A worker that lives drops a run only together with its job.
LEMMA HeldWorker ==
  ASSUME Undisturbed, TypeInv, Fresh, NoneGone, StartedHeld, NEW w \in Workers, WorkerStep(w) \/ WorkerFault(w)
  PROVE  StartedHeld'
<1> SUFFICES ASSUME NEW r \in started' PROVE \E v \in Workers : wrun'[v] = r
  BY DEF StartedHeld
<1> USE DEF TypeInv, ControlTypes, InHand, Free, Goto, At, Jump, redis
<1>0. wrun[w] \in Runs => Exists(wrun[w])
  BY HeldExists
<1>1. CASE Dequeue(w)
  <2>1. started' = started \cup {Head(rq)} /\ wrun'[w] = Head(rq) /\ wrun[w] \notin Runs
    BY <1>1 DEF Dequeue
  <2>2. CASE r \in started
    <3>1. PICK v \in Workers : wrun[v] = r
      BY <2>2 DEF StartedHeld
    <3>2. v # w
      BY <2>1, <2>2, <3>1
    <3>3. QED BY <3>1, <3>2, RunsTaken
  <2>3. QED BY <2>1, <2>2
<1>2. CASE started' = started /\ wrun' = wrun
  BY <1>2 DEF StartedHeld
<1>3. CASE started' = started \ {wrun[w]} /\ wrun'[w] \in {wrun[w], NoRun}
  <2>1. PICK v \in Workers : wrun[v] = r
    BY <1>3 DEF StartedHeld
  <2>2. v # w
    BY <1>3, <2>1
  <2>3. QED BY <2>1, <2>2, RunsTaken
<1>4. CASE Crash(w)
  BY <1>4 DEF Crash, Undisturbed
<1>5. ASSUME NEW q \in Runs, Abandon(w, q) PROVE FALSE
  BY <1>5 DEF Abandon, StartedHeld
<1>6. CASE Start(w) \/ HookRead(w) \/ HookSet(w) \/ SetCanceled(w) \/ SetFailed(w) \/ Escape(w)
  BY <1>0, <1>2, <1>3, <1>6 DEF Start, HookRead, HookSet, SetCanceled, SetFailed, Escape, Finish, JobFailed
<1>7. CASE EvCompleted(w) \/ EvCanceled(w) \/ HookEvent(w) \/ EvFailed(w)
  BY <1>3, <1>7 DEF EvCompleted, EvCanceled, HookEvent, EvFailed, LogAndFinish, Finish, JobFailed
<1>8. QED
  BY <1>1, <1>2, <1>4, <1>5, <1>6, <1>7
  DEF WorkerStep, WorkerFault, Restart, Boot, Sweep, SetRunning, EvRunning, LogStep, Respond, FlushCheck, FlushSave,
      FlushEvent, ProgCheck, ProgSave, ProgEvent, CheckCanceled, FanoutDone, Unwind, Drain, DrainEvent,
      SaveEnvelope, Agents, SaveFinal, SetCompleted, Charge, Salvage, Raise

\* No step of a worker fails a run without an envelope.
LEMMA EnvelopeWorker ==
  ASSUME Undisturbed, TypeInv, Fresh, EnvelopeInv, NEW w \in Workers, WorkerStep(w) \/ WorkerFault(w)
  PROVE  EnvelopeInv'
<1>1. StartedHeld'
  BY HeldWorker DEF EnvelopeInv
<1>2. NoneGone'
  BY StatusWritten DEF EnvelopeInv, NoneGone, RowStatus, TerminalStatus
<1>3. ASSUME NEW r \in Runs, result[r] # "none" PROVE result'[r] # "none"
  BY <1>3, ResultWritten
<1>4. Kept'
  <2> SUFFICES ASSUME NEW v \in Workers, wpc'[v] \in FailingPc PROVE result'[wrun'[v]] # "none"
    BY DEF Kept
  <2>1. CASE v = w
    BY <1>3, <2>1, FailingReached DEF EnvelopeInv, Kept
  <2>2. CASE v # w
    <3>1. wpc'[v] = wpc[v] /\ wrun'[v] = wrun[v]
      BY <2>2, RunsTaken
    <3>2. wrun[v] \in Runs
      BY <3>1 DEF TypeInv, ControlTypes, InHand, Free, FailingPc, HookPc
    <3>3. QED BY <1>3, <3>1, <3>2 DEF EnvelopeInv, Kept
  <2>3. QED BY <2>1, <2>2
<1>5. FailedKeepsEnvelope'
  <2> SUFFICES ASSUME NEW r \in Runs, Logged(r, "failed")' PROVE result'[r] # "none"
    BY DEF FailedKeepsEnvelope
  <2>1. QED BY <1>3, FailedLogged DEF EnvelopeInv, Kept, FailedKeepsEnvelope
<1>6. QED BY <1>1, <1>2, <1>4, <1>5 DEF EnvelopeInv

\* Nor does the API, which logs no failure.
LEMMA EnvelopeApi == Undisturbed /\ TypeInv /\ Fresh /\ EnvelopeInv /\ Api => EnvelopeInv'
<1> SUFFICES ASSUME Undisturbed, TypeInv, Fresh, EnvelopeInv, Api PROVE EnvelopeInv'
  OBVIOUS
<1>0. ASSUME NEW u \in Users, DeleteUser(u) PROVE FALSE
  BY <1>0 DEF DeleteUser, Undisturbed
<1>1. UNCHANGED <<started, result, wpc, wrun>>
  BY <1>0 DEF Api, CreateCheck, CreateInsert, Enqueue, NoteQueued, CreateFail, CancelRead, CancelSet, CancelEvent,
     ApiCrash, db, redis, worker
<1>2. NoneGone'
  BY <1>0 DEF EnvelopeInv, NoneGone, TypeInv, StoreTypes, Api, CreateCheck, CreateInsert, Enqueue, NoteQueued,
     CreateFail, CancelRead, CancelSet, CancelEvent, ApiCrash, db, Update
<1>3. ASSUME NEW r \in Runs, Logged(r, "failed")' PROVE Logged(r, "failed")
  <2> USE DEF TypeInv, StoreTypes, ControlTypes, InHand, db
  <2>1. CASE events' = events
    BY <1>3, <2>1 DEF Logged
  <2>2. CASE CreateInsert
    <3>1. arun \in Runs /\ events[arun] = <<>>
      BY <2>2 DEF CreateInsert, Fresh, Unknown
    <3>2. events'[r] = events[r] \/ events'[r] = <<"created", "queued">>
      BY <2>2, <3>1 DEF CreateInsert
    <3>3. ASSUME events'[r] = <<"created", "queued">> PROVE FALSE
      <4>1. \A i \in DOMAIN events'[r] : events'[r][i] \in {"created", "queued"}
        BY <3>3
      <4>2. QED BY <1>3, <4>1 DEF Logged
    <3>4. QED BY <1>3, <3>2, <3>3 DEF Logged
  <2>3. CASE NoteQueued \/ CancelEvent
    <3>1. {"queued", "canceled"} \subseteq RunEvent \ {"failed"}
      BY DEF RunEvent, TerminalStatus
    <3>2. \/ events'[r] = events[r]
          \/ \E e \in {"queued", "canceled"} : events'[r] = Append(events[r], e)
      BY <2>3 DEF NoteQueued, CancelEvent, AppendEvent
    <3>3. CASE events'[r] = events[r]
      BY <1>3, <3>3 DEF Logged
    <3>4. ASSUME NEW e \in {"queued", "canceled"}, events'[r] = Append(events[r], e)
          PROVE  Logged(r, "failed")
      <4>1. \E i \in DOMAIN Append(events[r], e) : Append(events[r], e)[i] = "failed"
        BY <1>3, <3>4 DEF Logged
      <4>2. e \in RunEvent /\ e # "failed" /\ events[r] \in Seq(RunEvent)
        BY <3>1
      <4>3. QED BY <4>1, <4>2, AppendLogged DEF Logged
    <3>5. QED BY <3>2, <3>3, <3>4
  <2>4. QED
    BY <1>0, <2>1, <2>2, <2>3 DEF Api, CreateCheck, Enqueue, CreateFail, CancelRead, CancelSet, ApiCrash
<1>4. StartedHeld' /\ Kept' /\ FailedKeepsEnvelope'
  BY <1>1, <1>3 DEF EnvelopeInv, StartedHeld, Kept, FailedKeepsEnvelope
<1>5. QED BY <1>2, <1>4 DEF EnvelopeInv

\* Where the store works, workers live and no account is deleted, a run whose
\* failure is logged has an envelope: the job saves one before it fails the run,
\* and the hook is not called for a job that never came so far.
THEOREM FailureKeepsEnvelope ==
  ASSUME Undisturbed
  PROVE  Spec => []FailedKeepsEnvelope
<1>1. Init => EnvelopeInv
  BY DEF Init, EnvelopeInv, StartedHeld, NoneGone, Kept, FailingPc, HookPc, FailedKeepsEnvelope, Logged
<1>2. EnvelopeInv /\ UNCHANGED vars => EnvelopeInv'
  BY DEF vars, db, redis, api, worker, EnvelopeInv, StartedHeld, NoneGone, Kept, FailedKeepsEnvelope, Logged
<1>3. TypeInv /\ BillingInv /\ EnvelopeInv /\ [Next]_vars => EnvelopeInv'
  BY <1>2, Undisturbed, EnvelopeWorker, EnvelopeApi DEF Next, BillingInv
<1>4. EnvelopeInv => FailedKeepsEnvelope
  BY DEF EnvelopeInv
<1>5. QED BY <1>1, <1>3, <1>4, TypeInvariant, BillingInvariant, PTL DEF Spec
=============================================================================
