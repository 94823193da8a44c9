----------------------- MODULE RunEventStream_proofs -----------------------
(***************************************************************************)
(* The order of a stream for any number of runs, workers and broken        *)
(* connections, and every environment event except the deletion of the     *)
(* run that is followed (its log is then empty).                           *)
(***************************************************************************)
EXTENDS RunEventStream, RunLifecycle_proofs

\* t goes on where s ends.
Continues(s, t) ==
    /\ Len(s) <= Len(t)
    /\ \A i \in 1..Len(s) : t[i] = s[i]

\* An appended event, or a pair of them, continues a log; so does nothing.
LEMMA AppendContinues ==
  ASSUME NEW s \in Seq(RunEvent)
  PROVE  /\ Continues(s, s)
         /\ \A e \in RunEvent : Continues(s, Append(s, e))
         /\ \A e, f \in RunEvent : Continues(s, s \o <<e, f>>)
BY DEF Continues

\* AppendEvent touches one log, at its end.
LEMMA AppendEventContinues ==
  ASSUME TypeInv, NEW r, NEW e \in RunEvent, AppendEvent(r, e), NEW q \in Runs
  PROVE  Continues(events[q], events'[q])
<1>1. events[q] \in Seq(RunEvent)
  BY DEF TypeInv, StoreTypes
<1>2. events'[q] = events[q] \/ events'[q] = Append(events[q], e)
  BY DEF AppendEvent, TypeInv, StoreTypes
<1>3. QED BY <1>1, <1>2, AppendContinues

\* Logs only grow: neither the API nor a worker, whatever it runs into, changes
\* or removes an event that is in a log.
LEMMA LogsGrow ==
  ASSUME TypeInv, "delete" \notin Env, Next, NEW q \in Runs
  PROVE  Continues(events[q], events'[q])
<1>1. events[q] \in Seq(RunEvent)
  BY DEF TypeInv, StoreTypes
<1>2. CASE events' = events
  BY <1>1, <1>2, AppendContinues
<1>3. {"created", "queued", "running", "partial_result", "progress", "canceled", "completed", "failed",
       "interrupted"} \subseteq RunEvent
  BY DEF RunEvent, TerminalStatus
<1>4. CASE CreateInsert
  <2>1. events'[q] = events[q] \/ events'[q] = events[q] \o <<"created", "queued">>
    BY <1>4 DEF CreateInsert, TypeInv, StoreTypes
  <2>2. QED BY <1>1, <1>3, <2>1, AppendContinues
<1>5. CASE NoteQueued \/ CancelEvent
  BY <1>2, <1>3, <1>5, AppendEventContinues DEF NoteQueued, CancelEvent
<1>6. ASSUME NEW u \in Users, DeleteUser(u) PROVE FALSE
  BY <1>6 DEF DeleteUser
<1>7. CASE Api
  <2>1. CASE \/ \E r \in Runs : CreateCheck(r) \/ CancelRead(r)
             \/ Enqueue \/ CreateFail \/ CancelSet \/ ApiCrash
    BY <1>2, <2>1 DEF CreateCheck, CancelRead, Enqueue, CreateFail, CancelSet, ApiCrash, db
  <2>2. QED BY <1>4, <1>5, <1>6, <1>7, <2>1 DEF Api
<1>8. ASSUME NEW w \in Workers, WorkerStep(w) \/ WorkerFault(w) PROVE Continues(events[q], events'[q])
  <2>1. CASE Sweep(w)
    <3>1. events'[q] = events[q] \/ events'[q] = Append(events[q], "interrupted")
      BY <2>1 DEF Sweep
    <3>2. QED BY <1>1, <1>3, <3>1, AppendContinues
  <2>2. CASE EvRunning(w) \/ FlushEvent(w) \/ ProgEvent(w) \/ DrainEvent(w)
    <3>1. events' = events \/ \E e \in RunEvent : AppendEvent(wrun[w], e)
      BY <1>3, <2>2 DEF EvRunning, FlushEvent, ProgEvent, DrainEvent, LogStep
    <3>2. QED BY <1>2, <3>1, AppendEventContinues
  <2>3. CASE EvCompleted(w) \/ EvCanceled(w) \/ HookEvent(w) \/ EvFailed(w)
    <3>1. events' = events \/ \E e \in RunEvent : AppendEvent(wrun[w], e)
      BY <1>3, <2>3 DEF EvCompleted, EvCanceled, HookEvent, EvFailed, LogAndFinish
    <3>2. QED BY <1>2, <3>1, AppendEventContinues
  <2>4. QED
    BY <1>2, <1>8, <2>1, <2>2, <2>3
    DEF WorkerStep, WorkerFault, db, Restart, Boot, Dequeue, Start, SetRunning, Respond, FlushCheck, FlushSave,
        ProgCheck, ProgSave, CheckCanceled, FanoutDone, Drain, SaveEnvelope, Agents, SaveFinal, SetCompleted, Charge,
        SetCanceled, Salvage, SetFailed, HookRead, HookSet, Abandon, Raise, Escape, Crash
<1>9. QED BY <1>7, <1>8 DEF Next

\* What the client has is the beginning of the log, the generator stands right
\* behind it, and the batch on the wire is in the log.
StreamInv ==
  /\ seen \in Seq(RunEvent) /\ cursor \in Nat /\ batch \in Nat /\ lastId \in Nat
  /\ Continues(seen, Log)
  /\ lastId = Len(seen)
  /\ conn # "closed" => cursor = Len(seen)
  /\ conn = "yield" => cursor <= batch /\ batch <= Len(Log)

\* A log that grows takes nothing from the client.
LEMMA StreamGrows ==
  ASSUME TypeInv, TypeInv', StreamInv, Continues(Log, Log'), UNCHANGED stream
  PROVE  StreamInv'
<1>1. Log \in Seq(RunEvent) /\ Log' \in Seq(RunEvent)
  BY StreamConstants DEF TypeInv, StoreTypes, Log
<1>2. Len(seen) \in Nat /\ Len(Log) \in Nat /\ Len(Log') \in Nat
  BY <1>1 DEF StreamInv
<1>3. UNCHANGED <<conn, cursor, batch, lastId, seen>>
  BY DEF stream
<1>4. Continues(seen, Log')
  BY <1>2 DEF StreamInv, Continues
<1>5. conn = "yield" => batch <= Len(Log')
  BY <1>2 DEF StreamInv, Continues
<1>6. QED BY <1>3, <1>4, <1>5 DEF StreamInv

\* One more event of the batch reaches the client.
LEMMA StreamYields ==
  ASSUME TypeInv, StreamInv, Yield
  PROVE  StreamInv'
<1>1. Log \in Seq(RunEvent) /\ Log' = Log
  BY StreamConstants DEF TypeInv, StoreTypes, Log, Yield, vars, db
<1>2. /\ conn = "yield" /\ cursor < batch /\ cursor' = cursor + 1 /\ lastId' = cursor + 1
      /\ seen' = Append(seen, Log[cursor + 1]) /\ UNCHANGED <<conn, batch>>
  BY DEF Yield
<1>3. cursor = Len(seen) /\ batch <= Len(Log) /\ Len(Log) \in Nat /\ cursor \in Nat /\ batch \in Nat
  BY <1>1, <1>2 DEF StreamInv
<1>4. cursor + 1 \in 1..Len(Log) /\ Log[cursor + 1] \in RunEvent
  BY <1>1, <1>2, <1>3
<1>5. /\ seen' \in Seq(RunEvent) /\ Len(seen') = cursor + 1
      /\ \A i \in 1..Len(seen) : seen'[i] = seen[i]
      /\ seen'[cursor + 1] = Log[cursor + 1]
  BY <1>2, <1>3, <1>4 DEF StreamInv
<1>6. Continues(seen', Log')
  <2>1. ASSUME NEW i \in 1..(cursor + 1) PROVE Log[i] = seen'[i]
    <3>1. i = cursor + 1 \/ i \in 1..cursor
      BY <1>3
    <3>2. QED BY <1>3, <1>5, <3>1 DEF StreamInv, Continues
  <2>2. QED BY <1>1, <1>4, <1>5, <2>1 DEF Continues
<1>7. QED BY <1>1, <1>2, <1>3, <1>5, <1>6 DEF StreamInv

\* The generator and the client keep the order.
LEMMA StreamKeeps ==
  ASSUME TypeInv, StreamInv, Stream
  PROVE  StreamInv'
<1>1. Log \in Seq(RunEvent) /\ Len(Log) \in Nat /\ Len(seen) \in Nat
  BY StreamConstants DEF TypeInv, StoreTypes, Log, StreamInv
<1>2. CASE Connect
  BY <1>2 DEF Connect, StreamInv, Log, vars, db
<1>3. CASE Fetch
  <2>1. Max({cursor, Len(Log)}) = Len(Log)
    <3>1. cursor <= Len(Log) /\ cursor \in Nat
      BY <1>1, <1>3 DEF Fetch, StreamInv, Continues
    <3>2. Len(Log) \in {cursor, Len(Log)} /\ \A y \in {cursor, Len(Log)} : Len(Log) >= y
      BY <1>1, <3>1
    <3>3. \A x \in {cursor, Len(Log)} : (\A y \in {cursor, Len(Log)} : x >= y) => x = Len(Log)
      BY <1>1, <3>1
    <3>4. QED BY <3>2, <3>3 DEF Max
  <2>2. cursor <= Len(Log)
    BY <1>1, <1>3 DEF Fetch, StreamInv, Continues
  <2>3. QED BY <1>1, <1>3, <2>1, <2>2 DEF Fetch, StreamInv, Log, vars, db
<1>4. CASE Yield
  BY <1>4, StreamYields
<1>5. CASE Advance
  BY <1>5 DEF Advance, StreamInv, Log, vars, db
<1>6. CASE Check
  BY <1>6 DEF Check, Close, StreamInv, Log, vars, db
<1>7. CASE Break
  BY <1>7 DEF Break, Close, StreamInv, Log, vars, db
<1>8. QED BY <1>2, <1>3, <1>4, <1>5, <1>6, <1>7 DEF Stream, Generator

\* Both invariants hold throughout while the run is not deleted.
LEMMA StreamInvariant == ASSUME "delete" \notin Env PROVE StreamSpec => [](TypeInv /\ StreamInv)
<1>1. StreamInit => TypeInv /\ StreamInv
  <2>1. Init => TypeInv
    BY LifecycleConstants
    DEF Init, TypeInv, StoreTypes, ControlTypes, BufferOK, InHand, Free, RowStatus, Envelope, ApiPc, WorkerPc
  <2>2. StreamInit => StreamInv
    BY StreamConstants DEF StreamInit, StreamInv, Init, Log, Continues
  <2>3. QED BY <2>1, <2>2 DEF StreamInit
<1>2. TypeInv /\ [Next]_vars => TypeInv'
  <2>1. TypeInv /\ UNCHANGED vars => TypeInv'
    BY DEF vars, db, redis, api, worker, TypeInv, StoreTypes, ControlTypes, BufferOK, InHand
  <2>2. QED BY <2>1, ApiTypes, WorkerControl, WorkerStore DEF Next, TypeInv
<1>3. TypeInv /\ StreamInv /\ [StreamNext]_allVars => (TypeInv /\ StreamInv)'
  <2> SUFFICES ASSUME TypeInv, StreamInv, [StreamNext]_allVars PROVE TypeInv' /\ StreamInv'
    OBVIOUS
  <2>1. CASE Next /\ UNCHANGED stream
    <3>1. Continues(Log, Log')
      BY <2>1, LogsGrow, StreamConstants DEF Log
    <3>2. QED BY <1>2, <2>1, <3>1, StreamGrows
  <2>2. CASE Stream
    <3>1. UNCHANGED vars
      BY <2>2 DEF Stream, Generator, Connect, Fetch, Yield, Advance, Check, Break
    <3>2. QED BY <1>2, <2>2, <3>1, StreamKeeps
  <2>3. CASE UNCHANGED allVars
    <3>1. UNCHANGED vars /\ UNCHANGED stream
      BY <2>3 DEF allVars
    <3>2. UNCHANGED <<conn, cursor, batch, lastId, seen, events>>
      BY <3>1 DEF stream, vars, db
    <3>3. QED BY <1>2, <3>1, <3>2 DEF StreamInv, Log, Continues
  <2>4. QED BY <2>1, <2>2, <2>3 DEF StreamNext
<1>4. QED BY <1>1, <1>3, PTL DEF StreamSpec

\* The order of a stream: while the run is not deleted, the client of its stream
\* holds the log from its first event on, in order, without a gap or a repetition,
\* however often it reconnects and whatever is appended while a batch is on the
\* wire (routes.py:1650-1726).
THEOREM StreamInOrder == ASSUME "delete" \notin Env PROVE StreamSpec => []SeenIsPrefix
<1>1. TypeInv /\ StreamInv => SeenIsPrefix
  <2> SUFFICES ASSUME TypeInv, StreamInv PROVE seen = SubSeq(Log, 1, Len(seen))
    BY DEF SeenIsPrefix
  <2>1. Log \in Seq(RunEvent) /\ seen \in Seq(RunEvent) /\ Len(seen) <= Len(Log)
    BY StreamConstants DEF TypeInv, StoreTypes, Log, StreamInv, Continues
  <2>2. \A i \in 1..Len(seen) : Log[i] = seen[i]
    BY DEF StreamInv, Continues
  <2>3. QED BY <2>1, <2>2
<1>2. QED BY <1>1, StreamInvariant, PTL

\* The generator's cursor and the client's last id stay positions of the log, and
\* what the client received stays events of it.
THEOREM StreamTyped == ASSUME "delete" \notin Env PROVE StreamSpec => []StreamTypeOK
<1> DEFINE Rest == conn \in {"closed", "fetch", "yield", "check"} /\ drops \in Nat
<1>1. StreamInit => Rest
  BY DEF StreamInit
<1>2. Rest /\ [StreamNext]_allVars => Rest'
  BY DEF StreamNext, Stream, Generator, Connect, Fetch, Yield, Advance, Check, Break, Close, stream, allVars
<1>3. StreamInv /\ Rest => StreamTypeOK
  BY DEF StreamInv, StreamTypeOK
<1>4. QED BY <1>1, <1>2, <1>3, StreamInvariant, PTL DEF StreamSpec
=============================================================================
