--------------------------- MODULE RunEventStream ---------------------------
(***************************************************************************)
(* GET /api/runs/{run_id}/events: the server-sent-events generator of      *)
(* get_run_events polls run_events while the processes of RunLifecycle     *)
(* write it, and an EventSource client reconnects with the id of the last  *)
(* event that reached it (the Last-Event-ID header).                       *)
(*                                                                         *)
(* The rows of a run that exists have increasing rowids, so the cursor     *)
(* condition "rowid > n" is a position in events[Watched].  Every yield    *)
(* awaits the network: the log may grow between two yields of one batch.   *)
(***************************************************************************)
EXTENDS RunLifecycle, Integers

CONSTANTS Watched,   \* the run the client follows
          MaxDrops   \* bound on connections that break

ASSUME StreamConstants == Watched \in Runs /\ MaxDrops \in Nat

VARIABLES
  conn,    \* "closed", or where the generator stands
  cursor,  \* the generator's cursor
  batch,   \* the rows list_events_after returned: cursor+1..batch
  lastId,  \* the client's Last-Event-ID
  seen,    \* the events the client received, in order
  drops    \* connections broken so far

stream == <<conn, cursor, batch, lastId, seen, drops>>

Log == events[Watched]

StreamInit ==
  /\ Init
  /\ conn = "closed" /\ cursor = 0 /\ batch = 0
  /\ lastId = 0 /\ seen = <<>> /\ drops = 0

\* Variants: an ended run is not streamed any more; the row the client already
\* has is sent again.
Connect_Live ==
  /\ conn = "closed" /\ Exists(Watched) /\ ~Terminal(Watched)
  /\ conn' = "fetch" /\ cursor' = lastId
  /\ UNCHANGED <<batch, lastId, seen, drops, vars>>

Connect_Inclusive ==
  /\ conn = "closed" /\ Exists(Watched)
  /\ conn' = "fetch" /\ cursor' = lastId - 1
  /\ UNCHANGED <<batch, lastId, seen, drops, vars>>

\* The request; an unknown run is a 404.  A snapshot is sent first.
Connect ==
  /\ conn = "closed" /\ Exists(Watched)
  /\ conn' = "fetch" /\ cursor' = lastId
  /\ UNCHANGED <<batch, lastId, seen, drops, vars>>

\* events = list_events_after(run_id, cursor).
Fetch ==
  /\ conn = "fetch"
  /\ conn' = "yield"
  /\ batch' = Max({cursor, Len(Log)})
  /\ UNCHANGED <<cursor, lastId, seen, drops, vars>>

\* yield format_sse_event(event).
Yield ==
  /\ conn = "yield" /\ cursor < batch
  /\ cursor' = cursor + 1 /\ lastId' = cursor + 1
  /\ seen' = Append(seen, Log[cursor + 1])
  /\ UNCHANGED <<conn, batch, drops, vars>>

\* Variant: the cursor is read off the log again instead of off the batch.
Advance_ReadAgain ==
  /\ conn = "yield" /\ cursor = batch
  /\ conn' = "check"
  /\ cursor' = Len(Log)
  /\ UNCHANGED <<batch, lastId, seen, drops, vars>>

\* cursor = events[-1].event_id, the last row of the batch.  (Yield has moved
\* the model's cursor there already: no one reads it in between.)
Advance ==
  /\ conn = "yield" /\ cursor = batch
  /\ conn' = "check"
  /\ UNCHANGED <<cursor, batch, lastId, seen, drops, vars>>

Close == conn' = "closed" /\ cursor' = 0 /\ batch' = 0

\* Variant: only a completed run ends its stream.
Check_CompletedOnly ==
  /\ conn = "check"
  /\ IF status[Watched] = "completed" THEN Close
     ELSE conn' = "fetch" /\ UNCHANGED <<cursor, batch>>
  /\ UNCHANGED <<lastId, seen, drops, vars>>

\* The status read: a terminal one ends the stream, else sleep and poll again.
Check ==
  /\ conn = "check"
  /\ IF Terminal(Watched) THEN Close
     ELSE conn' = "fetch" /\ UNCHANGED <<cursor, batch>>
  /\ UNCHANGED <<lastId, seen, drops, vars>>

\* The network breaks.
Break ==
  /\ conn # "closed" /\ drops < MaxDrops
  /\ Close /\ drops' = drops + 1
  /\ UNCHANGED <<lastId, seen, vars>>

Generator == Fetch \/ Yield \/ Advance \/ Check
Stream == Connect \/ Generator \/ Break

StreamNext == \/ Next /\ UNCHANGED stream
              \/ Stream

allVars == <<vars, stream>>

StreamSpec == StreamInit /\ [][StreamNext]_allVars

\* The lifecycle's fairness; the generator is polled, and the client reconnects whenever it is closed.
StreamFairSpec ==
  /\ StreamSpec /\ Fairness
  /\ WF_allVars(Generator)
  /\ WF_allVars(Connect)

---------------------------------------------------------------------------
StreamTypeOK ==
  /\ conn \in {"closed", "fetch", "yield", "check"}
  /\ {cursor, batch, lastId, drops} \subseteq Nat
  /\ seen \in Seq(RunEvent)

\* However often the connection breaks, and whatever the workers append while
\* a batch is on the wire, the client of a run that is not deleted has received
\* the log from its first event on, in order, without a gap or a repetition.
SeenIsPrefix == seen = SubSeq(Log, 1, Len(seen))

\* A client that keeps reconnecting ends up with the whole log, also with the
\* terminal event, which is logged only after the status that ends the stream.
CaughtUp == <>[](seen = Log)

\* A stream over a queued run ends: the run settles and the generator notices.
StreamEnds ==
  (conn # "closed" /\ (\E i \in DOMAIN rq : rq[i] = Watched)) ~> (conn = "closed")
=============================================================================
