------------------------------ MODULE Pipeline ------------------------------
(***************************************************************************)
(* One run of run_pipeline (pipeline.py): coerce the packet, ask the       *)
(* contract's Stage A+B prompt, then Stage C, then Stage D, and stop at    *)
(* the first no-go.  Each prompt goes through execute_prompt (runtime.py)  *)
(* and the Gemini adapter (gemini_adapter.py); the SDK under the adapter   *)
(* retries within the attempt budget that config.py hands it.              *)
(*                                                                         *)
(* The provider is the environment: it may answer anything, fail for a     *)
(* while, or fail for good.                                                *)
(***************************************************************************)
EXTENDS PromptRuntime, Sequences

CONSTANTS
  MaxRetries,   \* GeminiStartupConfig.max_retries
  Payloads      \* the payloads the provider may send

ASSUME RetriesAssumption == MaxRetries \in Nat
ASSUME PayloadsAssumption == Payloads \subseteq Payload

VARIABLES
  packet,      \* the argument of run_pipeline
  stage,       \* where run_pipeline stands
  call,        \* the execute_prompt call of this stage: "idle", "open" or "answered"
  attempts,    \* HTTP attempts the SDK has spent on this call
  response,    \* the answer under validation
  contract_analysis, proposed_setup,   \* locals of run_pipeline
  result,      \* the PipelineExecutionResult, once returned
  error,       \* the exception that escaped run_pipeline
  requests     \* history: the requests sent, one per execute_prompt call

vars == <<packet, stage, call, attempts, response, contract_analysis, proposed_setup,
          result, error, requests>>

\* GeminiStartupConfig.total_attempts, HttpRetryOptions.attempts.
TotalAttempts == MaxRetries + 1

\* A mapping is validated on entry; a HistoricalPacket instance is taken as it
\* is, and the model is mutable, so its parts may have come to disagree.
Packet ==
  [form: {"mapping", "instance"}, contract_metadata: Contracts, market_packet: Contracts,
   contract_specific_extension: Contracts, limits_match: BOOLEAN]

HistoricalPacketValid(p) ==
  /\ p.contract_metadata = p.market_packet
  /\ p.contract_specific_extension = p.market_packet
  /\ p.limits_match

Errors == {"ValidationError", "ValueError", "TypeError", "GeminiAdapterError"}
Asking == {"stage_ab", "stage_c", "stage_d"}
Stage == Asking \cup {"coerce", "returned", "raised"}

PipelineExecutionResult ==
  [contract: Contracts, termination_stage: TerminationStage,
   final_decision: FinalDecision \cup GateStatus,
   sufficiency_gate_output: SufficiencyGateOutput \cup {Null},
   contract_analysis: ContractAnalysis \cup {Null},
   proposed_setup: ProposedSetup \cup {Null},
   risk_authorization: RiskAuthorization \cup {Null}]

ASSUME NoneAssumption ==
  Null \notin Response /\ Null \notin PipelineExecutionResult /\ Null \notin Errors

TypeOK ==
  /\ packet \in Packet
  /\ stage \in Stage
  /\ call \in {"idle", "open", "answered"}
  /\ attempts \in 0..TotalAttempts
  /\ response \in Response \cup {Null}
  /\ contract_analysis \in ContractAnalysis \cup {Null}
  /\ proposed_setup \in ProposedSetup \cup {Null}
  /\ result \in PipelineExecutionResult \cup {Null}
  /\ error \in Errors \cup {Null}
  /\ requests \in Seq([prompt: 1..10, slots: SUBSET Contracts])

-----------------------------------------------------------------------------
\* Mutant: the prompt ids of Stage C and Stage D swapped.
PromptOfSwapped(s) ==
  IF s = "stage_ab" THEN STAGE_AB_PROMPT_BY_CONTRACT[packet.market_packet]
  ELSE IF s = "stage_c" THEN 9 ELSE 8

\* The prompt asked at a stage, and the contracts in its contract-bearing slots.
PromptOf(s) ==
  IF s = "stage_ab" THEN STAGE_AB_PROMPT_BY_CONTRACT[packet.market_packet]
  ELSE IF s = "stage_c" THEN 8 ELSE 9

SlotContracts(s) ==
  CASE s = "stage_ab" -> {packet.contract_metadata, packet.market_packet,
                          packet.contract_specific_extension}
    [] s = "stage_c" -> {packet.contract_metadata, contract_analysis.contract}
    [] OTHER -> {packet.contract_metadata, proposed_setup.contract}

Init ==
  /\ packet \in Packet
  /\ stage = "coerce" /\ call = "idle" /\ attempts = 0 /\ response = Null
  /\ contract_analysis = Null /\ proposed_setup = Null
  /\ result = Null /\ error = Null
  /\ requests = <<>>

\* An exception leaves run_pipeline: whatever was computed is gone.
Raise(kind) ==
  /\ stage' = "raised" /\ error' = kind /\ call' = "idle" /\ response' = Null
  /\ UNCHANGED <<packet, attempts, contract_analysis, proposed_setup, result, requests>>

\* _coerce_packet.
CoercePacket ==
  /\ stage = "coerce"
  /\ packet.form = "instance" \/ HistoricalPacketValid(packet)
  /\ stage' = "stage_ab"
  /\ UNCHANGED <<packet, call, attempts, response, contract_analysis, proposed_setup,
                 result, error, requests>>

RefusePacket ==
  /\ stage = "coerce"
  /\ packet.form = "mapping" /\ ~HistoricalPacketValid(packet)
  /\ Raise("ValidationError")

\* execute_prompt up to the provider call: check the scope, render, send.
SendRequest ==
  /\ stage \in Asking /\ call = "idle"
  /\ ContractScopeValid(PromptOf(stage), SlotContracts(stage))
  /\ call' = "open" /\ attempts' = 1
  /\ requests' = Append(requests, [prompt |-> PromptOf(stage), slots |-> SlotContracts(stage)])
  /\ UNCHANGED <<packet, stage, response, contract_analysis, proposed_setup, result, error>>

RefuseScope ==
  /\ stage \in Asking /\ call = "idle"
  /\ ~ContractScopeValid(PromptOf(stage), SlotContracts(stage))
  /\ Raise("ValueError")

-----------------------------------------------------------------------------
(* The SDK call.  A retryable status is retried while attempts are left;   *)
(* any failure that is not retried reaches the adapter, which wraps it.    *)

\* Mutants: one attempt too many; an attempt counter that starts over.
RetryAttemptOneMore ==
  /\ call = "open" /\ attempts <= TotalAttempts
  /\ attempts' = attempts + 1
  /\ UNCHANGED <<packet, stage, call, response, contract_analysis, proposed_setup,
                 result, error, requests>>

RetryAttemptForever ==
  /\ call = "open"
  /\ attempts' = IF attempts < TotalAttempts THEN attempts + 1 ELSE 1
  /\ UNCHANGED <<packet, stage, call, response, contract_analysis, proposed_setup,
                 result, error, requests>>

RetryAttempt ==
  /\ call = "open" /\ attempts < TotalAttempts
  /\ attempts' = attempts + 1
  /\ UNCHANGED <<packet, stage, call, response, contract_analysis, proposed_setup,
                 result, error, requests>>

ProviderFails(retryable) ==
  /\ call = "open"
  /\ retryable => attempts = TotalAttempts
  /\ Raise("GeminiAdapterError")

Responses ==
  [shape: UntypedShape \cup BrokenShape, boundary: {"unlisted"}, payload: {Malformed}]
    \cup [shape: {"envelope"}, boundary: DeclaredBoundary, payload: Payloads]

ProviderAnswers ==
  /\ call = "open"
  /\ call' = "answered" /\ response' \in Responses
  /\ UNCHANGED <<packet, stage, attempts, contract_analysis, proposed_setup,
                 result, error, requests>>

-----------------------------------------------------------------------------
(* Back in execute_prompt and run_pipeline.  The contract every slot was   *)
(* checked to carry is the one of the metadata.                            *)

ExpectedContract == packet.contract_metadata

Answer == response.payload

RejectAnswer ==
  /\ call = "answered"
  /\ ~Accepted(PromptOf(stage), ExpectedContract, response)
  /\ Raise(RaisedBy(PromptOf(stage), response))

AnswerAccepted(s, boundary) ==
  /\ stage = s /\ call = "answered"
  /\ Accepted(PromptOf(s), ExpectedContract, response)
  /\ boundary \in Matches(PromptOf(s), Answer)

\* Mutant: the result is built but the function goes on.
ReturnForgotten(r) ==
  /\ result' = r /\ call' = "idle" /\ response' = Null
  /\ UNCHANGED <<packet, stage, attempts, contract_analysis, proposed_setup, error, requests>>

Return(r) ==
  /\ stage' = "returned" /\ result' = r /\ call' = "idle" /\ response' = Null
  /\ UNCHANGED <<packet, attempts, contract_analysis, proposed_setup, error, requests>>

Continue(s) ==
  /\ stage' = s /\ call' = "idle" /\ attempts' = 0 /\ response' = Null
  /\ UNCHANGED <<packet, result, error, requests>>

StopAtGate ==
  /\ AnswerAccepted("stage_ab", "sufficiency_gate_output")
  /\ Return([contract |-> packet.market_packet,
             termination_stage |-> "sufficiency_gate",
             final_decision |-> Answer.status,
             sufficiency_gate_output |-> Answer,
             contract_analysis |-> Null, proposed_setup |-> Null,
             risk_authorization |-> Null])

StopAtMarketRead ==
  /\ AnswerAccepted("stage_ab", "contract_analysis")
  /\ Answer.outcome = "NO_TRADE"
  /\ Return([contract |-> packet.market_packet,
             termination_stage |-> "contract_market_read",
             final_decision |-> "NO_TRADE",
             sufficiency_gate_output |-> Null,
             contract_analysis |-> Answer, proposed_setup |-> Null,
             risk_authorization |-> Null])

ContinueToSetup ==
  /\ AnswerAccepted("stage_ab", "contract_analysis")
  /\ Answer.outcome # "NO_TRADE"
  /\ contract_analysis' = Answer
  /\ Continue("stage_c") /\ UNCHANGED proposed_setup

StopAtSetup ==
  /\ AnswerAccepted("stage_c", "proposed_setup")
  /\ Answer.outcome = "NO_TRADE"
  /\ Return([contract |-> packet.market_packet,
             termination_stage |-> "setup_construction",
             final_decision |-> "NO_TRADE",
             sufficiency_gate_output |-> Null,
             contract_analysis |-> contract_analysis, proposed_setup |-> Answer,
             risk_authorization |-> Null])

\* Mutant: Stage D is asked without looking at the setup's outcome.
ContinueToRiskUnchecked ==
  /\ AnswerAccepted("stage_c", "proposed_setup")
  /\ proposed_setup' = Answer
  /\ Continue("stage_d") /\ UNCHANGED contract_analysis

ContinueToRisk ==
  /\ AnswerAccepted("stage_c", "proposed_setup")
  /\ Answer.outcome # "NO_TRADE"
  /\ proposed_setup' = Answer
  /\ Continue("stage_d") /\ UNCHANGED contract_analysis

\* _map_stage_d_final_decision.
StageDFinalDecision ==
  [APPROVED |-> "TRADE_APPROVED", REDUCED |-> "TRADE_REDUCED", REJECTED |-> "TRADE_REJECTED"]

\* Mutant: the model's own decision is reported unmapped.
StopAtRiskUnmapped ==
  /\ AnswerAccepted("stage_d", "risk_authorization")
  /\ Return([contract |-> packet.market_packet,
             termination_stage |-> "risk_authorization",
             final_decision |-> Answer.decision,
             sufficiency_gate_output |-> Null,
             contract_analysis |-> contract_analysis, proposed_setup |-> proposed_setup,
             risk_authorization |-> Answer])

StopAtRisk ==
  /\ AnswerAccepted("stage_d", "risk_authorization")
  /\ Return([contract |-> packet.market_packet,
             termination_stage |-> "risk_authorization",
             final_decision |-> StageDFinalDecision[Answer.decision],
             sufficiency_gate_output |-> Null,
             contract_analysis |-> contract_analysis, proposed_setup |-> proposed_setup,
             risk_authorization |-> Answer])

-----------------------------------------------------------------------------
Provider ==
  \/ RetryAttempt
  \/ \E retryable \in BOOLEAN : ProviderFails(retryable)
  \/ ProviderAnswers

Routing ==
  \/ RejectAnswer
  \/ StopAtGate \/ StopAtMarketRead \/ ContinueToSetup
  \/ StopAtSetup \/ ContinueToRisk
  \/ StopAtRisk

Next ==
  \/ CoercePacket \/ RefusePacket
  \/ SendRequest \/ RefuseScope
  \/ Provider
  \/ Routing

\* Sequential code never pauses of its own accord, and the HTTP timeout makes
\* every attempt end, in an answer or in a failure.
Spec == Init /\ [][Next]_vars /\ WF_vars(Next)

-----------------------------------------------------------------------------
(* Properties.                                                             *)

\* A trade decision is only ever returned on top of a full chain of valid stage
\* outputs, all for the packet's contract: a completed read, a proposed setup
\* and an authorization whose decision is the one reported (run_pipeline's
\* Stage D return, "explicit final decision mapping at Stage D").
AuthorizationIsEarned ==
  (result # Null /\ result.termination_stage = "risk_authorization") =>
    /\ Validates("contract_analysis", result.contract_analysis)
    /\ Validates("proposed_setup", result.proposed_setup)
    /\ Validates("risk_authorization", result.risk_authorization)
    /\ result.contract_analysis.outcome = "ANALYSIS_COMPLETE"
    /\ result.proposed_setup.outcome = "SETUP_PROPOSED"
    /\ result.final_decision = StageDFinalDecision[result.risk_authorization.decision]

\* Nothing of another contract gets into an evaluation: every request sent
\* carries one contract, the market packet's, and so does every output in the
\* result, also when an instance whose parts disagree was passed in.
SingleContract ==
  /\ \A i \in 1..Len(requests) : requests[i].slots = {packet.market_packet}
  /\ result # Null =>
       \A o \in {result.sufficiency_gate_output, result.contract_analysis,
                 result.proposed_setup, result.risk_authorization} \ {Null} :
         o.contract = result.contract

\* Every stage is asked at most once and in order, starting with the prompt of
\* the packet's own contract ("prompt-bound contract routing").
PromptOrder ==
  LET order == <<STAGE_AB_PROMPT_BY_CONTRACT[packet.market_packet], 8, 9>>
  IN  /\ Len(requests) <= 3
      /\ \A i \in 1..Len(requests) : requests[i].prompt = order[i]

\* An evaluation ends in a result or in an exception, never in both, and a
\* no-trade verdict never carries a later stage's output (fail-closed
\* termination at the first valid no-go stage).
FailClosed ==
  /\ (stage = "returned") <=> (result # Null)
  /\ (stage = "raised") <=> (error # Null)
  /\ result # Null =>
       /\ result.termination_stage # "risk_authorization" =>
            /\ result.risk_authorization = Null
            /\ result.final_decision \notin {"TRADE_APPROVED", "TRADE_REDUCED", "TRADE_REJECTED"}
       /\ result.termination_stage \in {"sufficiency_gate", "contract_market_read"} =>
            result.proposed_setup = Null

\* Every evaluation ends, whatever the provider does ("bounded Gemini request
\* policy"): the attempt budget of the three stages is finite.
Terminates == <>(stage \in {"returned", "raised"})

-----------------------------------------------------------------------------
(* The refinement: a run of the pipeline is an abstract evaluation.         *)

AbstractPhase ==
  IF stage \in {"returned", "raised"} THEN "closed"
  ELSE IF stage = "stage_c" THEN "C"
  ELSE IF stage = "stage_d" THEN "D" ELSE "A"

AbstractVerdict ==
  IF error # Null THEN "ERROR" ELSE IF result # Null THEN result.final_decision ELSE Null

Evaluation ==
  INSTANCE AbstractEvaluation
    WITH phase <- AbstractPhase, spent <- attempts, verdict <- AbstractVerdict,
         Unset <- Null, AttemptBudget <- TotalAttempts

\* The one step of the code that the staged evaluation does not have: a gate
\* that found the packet READY ends the run (StopAtGate asks no status).
EndsAtReady == AbstractPhase = "A" /\ Evaluation!Conclude("READY")

\* Whatever the provider answers, run_pipeline walks the funnel the
\* documentation describes, and that step is the only one that leaves it.
DepartsOnlyAtReady ==
  Evaluation!Init /\ [][Evaluation!Next \/ EndsAtReady]_(Evaluation!vars)

\* A payload that reports a READY gate, which the adapter asks the provider not
\* to send (gemini_adapter.py: "If the Stage A status is READY, continue to
\* Stage B and return contract_analysis").
ReadyGate(p) == p.schema = "sufficiency_gate_output" /\ p.status = "READY"

\* "If Stage A returns READY, the system proceeds to Stage B": no run is ended
\* by a gate that let the packet pass (the return for sufficiency_gate_output).
ReadyProceeds ==
  (result # Null /\ result.termination_stage = "sufficiency_gate") =>
    result.final_decision # "READY"
=============================================================================
