---------------------------- MODULE AgentWorkflow ----------------------------
(***************************************************************************)
(* What happens to the result of a finished panel before it is shown: the  *)
(* envelope is built and saved, three agents (analysis, report, qa)        *)
(* comment on it one after the other, the quality gate decides whether a   *)
(* human has to look at it, and the records of the agents are written      *)
(* (src/jobs/worker.py:205-262 and 316-420, src/orchestration).            *)
(* RunLifecycle sees all of this as one step; here it is taken apart.      *)
(***************************************************************************)
EXTENDS Naturals, Sequences

CONSTANT Samples   \* pairs <<total_responses, parse_failed>> of finished panels

ASSUME SampleConstants ==
    \A s \in Samples: s[1] \in Nat /\ s[2] \in 0..s[1]

VARIABLES
    envelope,     \* the envelope in the hands of the worker
    stored,       \* the row of run_results
    agentOutputs, \* what each agent said
    workflow,     \* the point the worker has reached
    checkpoints,  \* agents with a row in orchestration_checkpoints
    agentRuns     \* agents with a row in agent_runs

workflowVars == <<envelope, stored, agentOutputs, workflow, checkpoints, agentRuns>>

Agents == <<"analysis", "report", "qa">>
AgentNames == {"analysis", "report", "qa"}
Modes == {"none", "deterministic", "fail_closed", "llm", "fallback"}
Severities == {"pass", "directional_only", "warning", "fail"}
Output == [mode: Modes, passed: BOOLEAN, severity: Severities]
NoOutput == [mode |-> "none", passed |-> FALSE, severity |-> "fail"]

\* complete is FALSE for the minimal envelope made of partial results; ranking is
\* metrics.ranking_available where the simulation ranks options.
Envelope ==
    [total: Nat, failed: Nat, complete: BOOLEAN, ranking: {"none", "yes", "no"},
     grade: {"A", "B", "C", "D"}, review: BOOLEAN,
     orchestration: {"none", "completed", "degraded"}]

(***************************************************************************)
(* quality() of src/simulations/common.py.                                 *)
(***************************************************************************)
\* Tenths of a percent, rounded.
ParseRate(total, failed) ==
    IF total = 0 THEN 0 ELSE (2000 * (total - failed) + total) \div (2 * total)

LowYield(total, failed) ==
    total = failed \/ (total >= 20 /\ ParseRate(total, failed) < 150)

Grade(total, failed) ==
    IF total > 0 /\ total = failed THEN "D"
    ELSE IF ParseRate(total, failed) >= 900 /\ total >= 50 THEN "A"
    ELSE IF ParseRate(total, failed) >= 800 /\ total >= 10 THEN "B"
    ELSE IF ParseRate(total, failed) < 150 /\ total >= 20 THEN "D" ELSE "C"

Built(s, complete, ranking) ==
    [total |-> s[1], failed |-> s[2], complete |-> complete, ranking |-> ranking,
     grade |-> Grade(s[1], s[2]), review |-> ~complete \/ LowYield(s[1], s[2]),
     orchestration |-> "none"]

WorkflowInit ==
    /\ \E s \in Samples:
         \/ \E ranking \in {"none", "yes", "no"}: envelope = Built(s, TRUE, ranking)
         \/ envelope = Built(s, FALSE, "none")
    /\ stored = envelope   \* the first save_result
    /\ agentOutputs = [a \in AgentNames |-> NoOutput]
    /\ workflow = "start"
    /\ checkpoints = <<>> /\ agentRuns = <<>>

AgentTypeOK ==
    /\ envelope \in Envelope /\ stored \in Envelope
    /\ envelope.failed <= envelope.total /\ stored.total = envelope.total
    /\ agentOutputs \in [AgentNames -> Output]
    /\ workflow \in {"start", "analysis", "report", "qa", "gate", "records", "save", "done"}
    /\ \E n \in 0..3: checkpoints = SubSeq(Agents, 1, n)
    /\ \E n \in 0..3: agentRuns = SubSeq(Agents, 1, n)

(***************************************************************************)
(* The deterministic agents.                                               *)
(***************************************************************************)
\* Variant: only a panel without any usable answer is refused.
InsufficientYield_None(e) == e.total = e.failed

\* _insufficient_parse_yield; its rate is not rounded.
InsufficientYield(e) ==
    \/ e.total = e.failed
    \/ e.ranking = "no"
    \/ e.total >= 20 /\ (e.total - e.failed < 20 \/ 100 * (e.total - e.failed) < 15 * e.total)

\* _qa_severity, for a panel with a usable answer.
QaSeverity(e) ==
    IF 100 * e.failed > 15 * e.total THEN "warning"
    ELSE IF e.total < 30 THEN "directional_only"
    ELSE IF e.failed > 0 THEN "warning" ELSE "pass"

RunAgents(e) ==
    [a \in AgentNames |->
        IF InsufficientYield(e)
        THEN [mode |-> "fail_closed", passed |-> FALSE, severity |-> "fail"]
        ELSE [mode |-> "deterministic", passed |-> TRUE, severity |-> QaSeverity(e)]]

Keep == UNCHANGED <<envelope, stored, checkpoints, agentRuns>>

\* ENABLE_LLM_AGENTS is off, or no model is asked to name a winner of nothing.
AnswerWithoutModel ==
    /\ workflow = "start"
    /\ agentOutputs' = RunAgents(envelope)
    /\ workflow' = "gate"
    /\ Keep

StartGraph ==
    /\ workflow = "start" /\ ~InsufficientYield(envelope)
    /\ workflow' = "analysis"
    /\ UNCHANGED agentOutputs /\ Keep

After(a) == CASE a = "analysis" -> "report" [] a = "report" -> "qa" [] OTHER -> "gate"

\* The model's answer: any verdict of qa passes the normalisation.
AgentAnswers(a) ==
    /\ workflow = a
    /\ \E o \in Output:
         /\ o.mode = "llm" /\ (a /= "qa" => o = [NoOutput EXCEPT !.mode = "llm"])
         /\ agentOutputs' = [agentOutputs EXCEPT ![a] = o]
    /\ workflow' = After(a)
    /\ Keep

\* The call or the parsing raises: the deterministic answer takes the place.
AgentFallsBack(a) ==
    /\ workflow = a
    /\ agentOutputs' = [agentOutputs EXCEPT ![a] =
         [RunAgents(envelope)[a] EXCEPT !.mode = "fallback"]]
    /\ workflow' = After(a)
    /\ Keep

(***************************************************************************)
(* The gate.                                                               *)
(***************************************************************************)
Under(e, review) ==
    [e EXCEPT !.review = review, !.grade = IF review /\ @ = "A" THEN "B" ELSE @]

NeedsReview(outputs) ==
    \/ \E a \in AgentNames: outputs[a].mode = "fallback"
    \/ ~outputs["qa"].passed
    \/ outputs["qa"].severity \in {"warning", "fail"}

\* Variant: the grade is not looked at again.
Gated_SameGrade(e) == [e EXCEPT !.review = NeedsReview(agentOutputs), !.orchestration = "completed"]

\* _apply_agent_quality_gate replaces what quality() or the minimal envelope said.
Gated(e) == [Under(e, NeedsReview(agentOutputs)) EXCEPT !.orchestration = "completed"]

ApplyGate ==
    /\ workflow = "gate"
    /\ envelope' = Gated(envelope)
    /\ workflow' = "records"
    /\ UNCHANGED <<stored, agentOutputs, checkpoints, agentRuns>>

\* mark_orchestration_degraded: the workflow, the gate or the count of the tokens
\* raised; the records are skipped.
Degrade ==
    /\ workflow \in {"start", "analysis", "report", "qa", "gate"}
    /\ envelope' = [Under(envelope, TRUE) EXCEPT !.orchestration = "degraded"]
    /\ workflow' = "save"
    /\ UNCHANGED <<stored, agentOutputs, checkpoints, agentRuns>>

(***************************************************************************)
(* The records, and the envelope once more.                                *)
(***************************************************************************)
\* Variant: each checkpoint is saved under the name of the first agent.
SaveCheckpoint_FirstName ==
    /\ workflow = "records" /\ Len(checkpoints) < 3
    /\ checkpoints' = Append(checkpoints, Agents[1])
    /\ UNCHANGED <<envelope, stored, agentOutputs, workflow, agentRuns>>

SaveCheckpoint ==
    /\ workflow = "records" /\ Len(checkpoints) < 3
    /\ checkpoints' = SubSeq(Agents, 1, Len(checkpoints) + 1)
    /\ UNCHANGED <<envelope, stored, agentOutputs, workflow, agentRuns>>

\* Variant: the agent runs are written without waiting for the checkpoints.
SaveAgentRun_Early ==
    /\ workflow = "records" /\ Len(agentRuns) < 3
    /\ agentRuns' = SubSeq(Agents, 1, Len(agentRuns) + 1)
    /\ workflow' = IF Len(agentRuns') = 3 THEN "save" ELSE "records"
    /\ UNCHANGED <<envelope, stored, agentOutputs, checkpoints>>

SaveAgentRun ==
    /\ workflow = "records" /\ Len(checkpoints) = 3
    /\ agentRuns' = SubSeq(Agents, 1, Len(agentRuns) + 1)
    /\ workflow' = IF Len(agentRuns') = 3 THEN "save" ELSE "records"
    /\ UNCHANGED <<envelope, stored, agentOutputs, checkpoints>>

\* One of these writes fails: a warning, and the rest is skipped.
RecordsFail ==
    /\ workflow = "records"
    /\ workflow' = "save"
    /\ UNCHANGED <<envelope, stored, agentOutputs, checkpoints, agentRuns>>

SaveEnvelope ==
    /\ workflow = "save"
    /\ stored' = envelope
    /\ workflow' = "done"
    /\ UNCHANGED <<envelope, agentOutputs, checkpoints, agentRuns>>

WorkflowNext ==
    \/ AnswerWithoutModel \/ StartGraph
    \/ \E a \in AgentNames: AgentAnswers(a) \/ AgentFallsBack(a)
    \/ ApplyGate \/ Degrade
    \/ SaveCheckpoint \/ SaveAgentRun \/ RecordsFail \/ SaveEnvelope

WorkflowSpec == WorkflowInit /\ [][WorkflowNext]_workflowVars

(***************************************************************************)
(* Properties.                                                             *)
(***************************************************************************)
\* Whatever a model says and whichever agent fell back, a complete result that asks
\* for no review has a usable yield, no suppressed ranking and three agents that
\* answered (worker.py:343-384, agents.py:87-101): a model cannot wave through
\* what quality() flagged.  The minimal envelope is excluded: the gate takes back
\* the review that build_minimal_envelope asked for.
UnreviewedIsUsable ==
    workflow = "done" /\ stored.complete /\ ~stored.review =>
        /\ ~LowYield(stored.total, stored.failed) /\ stored.ranking /= "no"
        /\ stored.orchestration = "completed"
        /\ \A a \in AgentNames: agentOutputs[a].mode \in {"llm", "deterministic"}

\* The best grade and a call for review are never shown together, neither in the
\* result saved before the agents ran nor in the final one.
NoTopGradeUnderReview == stored.complete /\ stored.review => stored.grade /= "A"

\* The records tell the story of the envelope: agent runs only after all the
\* checkpoints, and none of either under an orchestration reported as degraded.
RecordsMatchEnvelope ==
    /\ agentRuns /= <<>> => Len(checkpoints) = 3
    /\ envelope.orchestration = "degraded" => checkpoints = <<>>

\* What the agents leave behind agrees with itself: the review flag with the yield
\* and the grade, the records with the envelope.
ReviewConsistent == UnreviewedIsUsable /\ NoTopGradeUnderReview /\ RecordsMatchEnvelope
=============================================================================
