---------------------------- MODULE StageOutputs ----------------------------
(***************************************************************************)
(* The structured outputs of the four evaluation stages and the pydantic   *)
(* validators that accept or refuse them (schemas/outputs.py).  A payload  *)
(* is a record of the fields the validators and the pipeline look at:      *)
(*   - a list that is only tested for emptiness is a BOOLEAN, TRUE when it *)
(*     has an entry; an optional value that is only tested for None is a   *)
(*     BOOLEAN, TRUE when it is present;                                   *)
(*   - "schema" names the one model whose field set the payload has.  The  *)
(*     models are strict (extra fields are forbidden) and their required   *)
(*     fields differ, so no mapping has the shape of two of them.          *)
(* Fields that no validator relates to another one (prices, texts, regime, *)
(* bias) are part of "has the shape" and are not repeated here.            *)
(***************************************************************************)
EXTENDS Integers

CONSTANTS
  Contracts,   \* the contracts in play, some of ContractSymbol
  Null,        \* None
  Scores,      \* integers a provider may send as evidence_score
  Conflicts,   \* lengths of conflicting_signals a provider may send
  Sizes        \* integers a provider may send as a position size

ContractSymbol == {"ES", "NQ", "CL", "ZN", "6E", "MGC"}

ASSUME ContractsAssumption == Contracts \subseteq ContractSymbol /\ Contracts # {}
ASSUME DataAssumption == Scores \subseteq Int /\ Conflicts \subseteq Nat /\ Sizes \subseteq Int
GateStatus == {"READY", "NEED_INPUT", "INSUFFICIENT_DATA", "EVENT_LOCKOUT"}
RiskDecision == {"APPROVED", "REJECTED", "REDUCED"}
ConfidenceBand == {"LOW", "MEDIUM", "HIGH"}
TerminationStage ==
  {"sufficiency_gate", "contract_market_read", "setup_construction", "risk_authorization"}

\* The literal type every final decision is declared to have.
FinalDecision ==
  {"TRADE_APPROVED", "TRADE_REDUCED", "TRADE_REJECTED", "NO_TRADE",
   "INSUFFICIENT_DATA", "NEED_INPUT", "EVENT_LOCKOUT"}

-----------------------------------------------------------------------------
(* Payloads of the right shape, before the model validators have run.      *)

SufficiencyGateOutput ==
  [schema: {"sufficiency_gate_output"}, contract: Contracts, status: GateStatus,
   missing_inputs: BOOLEAN, disqualifiers: BOOLEAN, event_lockout_detail: BOOLEAN]

ContractAnalysis ==
  [schema: {"contract_analysis"}, contract: Contracts, evidence_score: Scores,
   confidence_band: ConfidenceBand, conflicting_signals: Conflicts,
   outcome: {"ANALYSIS_COMPLETE", "NO_TRADE"}]

\* setup_fields: how many of the setup fields other than position_size and
\* target_2 are non-null.
ProposedSetup ==
  [schema: {"proposed_setup"}, contract: Contracts, outcome: {"SETUP_PROPOSED", "NO_TRADE"},
   no_trade_reason: {"null", "empty", "text"}, setup_fields: {"none", "some", "all"},
   position_size: Sizes \cup {Null}, target_2: BOOLEAN]

\* checks_in_order: the list holds check_id 1..13 in this order;
\* checks_passed: every one of them has passed = True.
RiskAuthorization ==
  [schema: {"risk_authorization"}, contract: Contracts, decision: RiskDecision,
   checks_in_order: BOOLEAN, checks_passed: BOOLEAN, rejection_reasons: BOOLEAN,
   adjusted_position_size: Sizes \cup {Null}, adjusted_risk_dollars: BOOLEAN]

\* A mapping no stage model accepts, and a payload that is not even a mapping.
Malformed == [schema |-> "malformed"]
NotMapping == [schema |-> "not_a_mapping"]

Payload ==
  SufficiencyGateOutput \cup ContractAnalysis \cup ProposedSetup
    \cup RiskAuthorization \cup {Malformed, NotMapping}

ASSUME NullAssumption == Null \notin Int /\ Null \notin Payload

-----------------------------------------------------------------------------
(* The model validators.                                                    *)

SufficiencyGateValid(o) ==
  /\ o.status = "READY" => ~o.missing_inputs
  /\ o.status = "NEED_INPUT" => o.missing_inputs
  /\ o.status = "EVENT_LOCKOUT" => o.disqualifiers
  /\ o.event_lockout_detail <=> o.status = "EVENT_LOCKOUT"

BandOf(score) ==
  IF score <= 3 THEN "LOW" ELSE IF score <= 6 THEN "MEDIUM" ELSE "HIGH"

ContractAnalysisValid(o) ==
  /\ o.evidence_score \in 1..10
  /\ o.confidence_band = BandOf(o.evidence_score)
  /\ o.conflicting_signals >= 3 => o.evidence_score <= 4
  /\ o.conflicting_signals >= 2 => o.evidence_score <= 6

SetupNoTradeShape(o) ==
  /\ o.no_trade_reason = "text"
  /\ o.setup_fields = "none" /\ o.position_size = Null /\ ~o.target_2

SetupProposedShape(o) ==
  /\ o.no_trade_reason = "null"
  /\ o.setup_fields = "all" /\ o.position_size # Null
  /\ o.target_2 <=> o.position_size # 1

ProposedSetupValid(o) ==
  /\ o.position_size # Null => o.position_size >= 1
  /\ IF o.outcome = "NO_TRADE" THEN SetupNoTradeShape(o) ELSE SetupProposedShape(o)

RiskAuthorizationValid(o) ==
  /\ o.adjusted_position_size # Null => o.adjusted_position_size >= 1
  /\ o.checks_in_order
  /\ IF o.decision = "REDUCED"
     THEN o.adjusted_position_size # Null /\ o.adjusted_risk_dollars
     ELSE o.adjusted_position_size = Null /\ ~o.adjusted_risk_dollars
  /\ o.decision = "REJECTED" => o.rejection_reasons

\* BOUNDARY_MODEL_REGISTRY[boundary].model_validate(payload) succeeds.
Validates(boundary, payload) ==
  /\ payload.schema = boundary
  /\ boundary = "sufficiency_gate_output" => SufficiencyGateValid(payload)
  /\ boundary = "contract_analysis" => ContractAnalysisValid(payload)
  /\ boundary = "proposed_setup" => ProposedSetupValid(payload)
  /\ boundary = "risk_authorization" => RiskAuthorizationValid(payload)
=============================================================================
