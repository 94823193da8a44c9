---------------------------- MODULE McpDispatch ----------------------------
(***************************************************************************)
(* One POST to /mcp (src/mcp/http.py, src/mcp/registry.py): a JSON-RPC     *)
(* batch whose items are executed one after the other and answered all     *)
(* together.  The handler is a coroutine without an await in between, so   *)
(* nothing else happens on the event loop; but what an item has written is *)
(* committed whatever becomes of the items after it.                       *)
(***************************************************************************)
EXTENDS Naturals, Sequences, SequencesExt

CONSTANT MaxBatch   \* bound on the items of a batch

ASSUME McpConstants == MaxBatch \in Nat

VARIABLES
    batch,    \* the items of the request
    taken,    \* how many of them were executed
    effects,  \* positions of items that wrote something
    ended,    \* how the last item ended that was executed
    replies,  \* the answers so far: position and kind
    outcome   \* what the client gets

mcpVars == <<batch, taken, effects, ended, replies, outcome>>

\* A list or look-up; a creation or feedback; an interactive question; an item
\* that is no JSON-RPC object; a method, tool or resource that does not exist.
ItemKinds == {"read", "write", "ask", "malformed", "unknown"}
Item == [kind: ItemKinds, notification: BOOLEAN]
ReplyRow == [at: 1..MaxBatch, kind: {"result", "error"}]
EndKinds == {"result", "service", "invalid", "escapes"}
Outcomes == {"open", "batch", "accepted", "error500"}

McpTypeOK ==
    /\ batch \in BoundedSeq(Item, MaxBatch)
    /\ taken \in 0..Len(batch)
    /\ effects \subseteq 1..Len(batch) /\ ended \in EndKinds
    /\ replies \in Seq(ReplyRow) /\ Len(replies) <= taken
    /\ outcome \in Outcomes

\* Any request; a single item is a batch of one.
McpInit ==
    /\ batch \in BoundedSeq(Item, MaxBatch)
    /\ taken = 0 /\ effects = {} /\ ended = "result" /\ replies = <<>>
    /\ outcome = "open"

(***************************************************************************)
(* _handle_json_rpc_payload.  What an item may do: what it writes, and how *)
(* it ends: with a result, with an exception the handler turns into an     *)
(* error reply, or with one that it does not catch.                        *)
(***************************************************************************)
Ends == [wrote: BOOLEAN, end: EndKinds]

\* A tool may raise anything, the database's errors among it, before or after it
\* wrote: a run whose enqueue fails is answered by a service error and stays,
\* failed.  A question never gets a result: it spends its unit, and asyncio.run
\* refuses to start a second event loop in the thread of the first.
Executions(kind) ==
    {e \in Ends:
        CASE kind = "read" -> ~e.wrote
          [] kind = "write" -> e.wrote \/ e.end /= "result"
          [] kind = "ask" -> e.end /= "result"
          [] OTHER -> ~e.wrote /\ e.end = "invalid"}

\* Variant: service errors are not caught.
Caught_ValueOnly(e) == e.end = "invalid"

Caught(e) == e.end \in {"service", "invalid"}

\* Variant: notifications are executed.
Executed_Silently(item) == item.kind /= "malformed"

\* A notification is acknowledged and never executed; a malformed item is
\* answered even without an id.
Executed(item) == item.kind /= "malformed" /\ ~item.notification

\* Variant: positions counted from 0.
Answered_FromZero(kind) == Append(replies, [at |-> taken, kind |-> kind])

Answered(kind) == Append(replies, [at |-> taken + 1, kind |-> kind])

NextItem == batch[taken + 1]

TakeItem ==
    /\ outcome = "open" /\ taken < Len(batch)
    /\ taken' = taken + 1
    /\ IF ~Executed(NextItem)
       THEN /\ replies' = IF NextItem.kind = "malformed" THEN Answered("error") ELSE replies
            /\ UNCHANGED <<effects, ended, outcome>>
       ELSE \E e \in Executions(NextItem.kind):
            /\ ended' = e.end
            /\ effects' = IF e.wrote THEN effects \cup {taken + 1} ELSE effects
            /\ replies' = IF NextItem.notification THEN replies
                          ELSE IF Caught(e) THEN Answered("error")
                          ELSE IF e.end = "result" THEN Answered("result") ELSE replies
            /\ outcome' = IF e.end = "result" \/ Caught(e) THEN "open" ELSE "error500"
    /\ UNCHANGED batch

\* 202 when no item wants an answer.
SendReplies ==
    /\ outcome = "open" /\ taken = Len(batch)
    /\ outcome' = IF replies = <<>> THEN "accepted" ELSE "batch"
    /\ UNCHANGED <<batch, taken, effects, ended, replies>>

McpNext == TakeItem \/ SendReplies

McpSpec == McpInit /\ [][McpNext]_mcpVars

(***************************************************************************)
(* Properties.                                                             *)
(***************************************************************************)
\* The client of a batch learns of everything that was written for it: every item
\* with an effect is answered in the reply, and whatever an item is refused for,
\* the items around it get their answers.  Only an exception that is neither a
\* refusal nor a rejected argument, as an interactive question raises past its
\* allowance, costs the whole reply (http.py:88-115).
EffectsReported ==
    /\ outcome \in {"batch", "accepted"} =>
         \A i \in effects: \E n \in DOMAIN replies: replies[n].at = i
    /\ outcome = "error500" => ended = "escapes"
=============================================================================
