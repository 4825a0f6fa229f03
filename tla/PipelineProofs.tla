--------------------------- MODULE PipelineProofs ---------------------------
(***************************************************************************)
(* Theorems about Pipeline for every set of contracts, every retry budget  *)
(* and every pool of payloads a provider may send.                         *)
(***************************************************************************)
EXTENDS Pipeline, TLAPS

(***************************************************************************)
(* The inductive invariant.  The properties speak of the end of a run; to  *)
(* be inductive they need what is known on the way there: that the packet  *)
(* was found to be of one contract before the first answer is looked at,   *)
(* that the outputs held by the later stages were accepted, and how many   *)
(* requests each point of the run has behind it.                           *)
(***************************************************************************)
Ended == stage \in {"returned", "raised"}

OneContractPacket ==
  /\ packet.contract_metadata = packet.market_packet
  /\ packet.contract_specific_extension = packet.market_packet

ScopeSettled ==
  (call # "idle" \/ stage \in {"stage_c", "stage_d"}) => OneContractPacket

CallDiscipline ==
  /\ call # "idle" => stage \in Asking
  /\ call = "answered" => response \in Responses
  /\ call # "idle" => attempts >= 1
  /\ call = "idle" /\ stage \in Asking \cup {"coerce"} => attempts = 0

GoodAnalysis(a) ==
  /\ a \in ContractAnalysis /\ Validates("contract_analysis", a)
  /\ a.contract = packet.market_packet /\ a.outcome = "ANALYSIS_COMPLETE"

GoodSetup(s) ==
  /\ s \in ProposedSetup /\ Validates("proposed_setup", s)
  /\ s.contract = packet.market_packet /\ s.outcome = "SETUP_PROPOSED"

Chain ==
  /\ stage \in {"stage_c", "stage_d"} => GoodAnalysis(contract_analysis)
  /\ stage = "stage_d" => GoodSetup(proposed_setup)

RequestsBehind ==
  /\ stage = "coerce" => Len(requests) = 0
  /\ stage = "stage_ab" => Len(requests) = (IF call = "idle" THEN 0 ELSE 1)
  /\ stage = "stage_c" => Len(requests) = (IF call = "idle" THEN 1 ELSE 2)
  /\ stage = "stage_d" => Len(requests) = (IF call = "idle" THEN 2 ELSE 3)

IInv ==
  /\ TypeOK
  /\ ScopeSettled /\ CallDiscipline /\ Chain /\ RequestsBehind
  /\ FailClosed /\ PromptOrder /\ SingleContract /\ AuthorizationIsEarned

-----------------------------------------------------------------------------
\* What the provider sends is a response (Responses is a part of Response).
LEMMA ResponsesTyped == Responses \subseteq Response
  BY PayloadsAssumption DEF Responses, Response, Payload, Malformed, DeclaredBoundary, Boundary

\* The schema of a payload decides which of the four output models it has.
LEMMA PayloadOfSchema ==
  \A p \in Payload :
    /\ p.schema = "sufficiency_gate_output" => p \in SufficiencyGateOutput
    /\ p.schema = "contract_analysis" => p \in ContractAnalysis
    /\ p.schema = "proposed_setup" => p \in ProposedSetup
    /\ p.schema = "risk_authorization" => p \in RiskAuthorization
  BY DEF Payload, SufficiencyGateOutput, ContractAnalysis, ProposedSetup, RiskAuthorization,
         Malformed, NotMapping

\* The prompts sent are prompts of the registry.
LEMMA PromptTyped ==
  TypeOK => \A s \in Asking : PromptOf(s) \in 1..10
  BY ContractsAssumption
     DEF TypeOK, Packet, PromptOf, STAGE_AB_PROMPT_BY_CONTRACT, ContractSymbol, Asking

\* An accepted answer is a valid output of the boundary it matches, for the
\* contract that was asked about.
LEMMA AcceptedAnswer ==
  ASSUME TypeOK, CallDiscipline,
         NEW s \in Asking, NEW b \in Boundary, AnswerAccepted(s, b)
  PROVE  /\ Answer \in Payload
         /\ Validates(b, Answer)
         /\ Answer.schema = b
         /\ Answer.contract = packet.contract_metadata
<1>1. response \in Response
  BY ResponsesTyped DEF AnswerAccepted, CallDiscipline
<1>2. Answer \in Payload
  BY <1>1 DEF Response, Answer
<1>3. Validates(b, Answer)
  BY DEF AnswerAccepted, Matches
<1>4. Answer.contract = packet.contract_metadata
  BY DEF AnswerAccepted, Accepted, ExpectedContract, Answer
<1>5. QED
  BY <1>2, <1>3, <1>4 DEF Validates

-----------------------------------------------------------------------------
LEMMA InitInvariant == Init => IInv
<1> SUFFICES ASSUME Init PROVE IInv
  OBVIOUS
<1>1. TypeOK
  <2>1. attempts \in 0..TotalAttempts
    BY RetriesAssumption DEF Init, TotalAttempts
  <2>2. requests \in Seq([prompt: 1..10, slots: SUBSET Contracts])
    BY DEF Init
  <2>3. QED
    BY <2>1, <2>2 DEF Init, TypeOK, Stage
<1>2. Len(requests) = 0 /\ 1..Len(requests) = {}
  BY DEF Init
<1>3. ScopeSettled /\ CallDiscipline /\ Chain /\ RequestsBehind
  BY <1>2 DEF Init, ScopeSettled, CallDiscipline, Chain, RequestsBehind
<1>4. FailClosed /\ AuthorizationIsEarned
  BY DEF Init, FailClosed, AuthorizationIsEarned
<1>5. PromptOrder /\ SingleContract
  BY <1>2 DEF Init, PromptOrder, SingleContract
<1>6. QED
  BY <1>1, <1>3, <1>4, <1>5 DEF IInv

\* Raising an exception keeps the invariant: no result is returned.
LEMMA RaisePreserves ==
  ASSUME IInv, ~Ended, NEW kind \in Errors, Raise(kind)
  PROVE  IInv'
<1> USE DEF IInv, Raise, Ended
<1>1. TypeOK'
  BY DEF TypeOK, Stage
<1>2. result = Null /\ result' = Null
  BY DEF FailClosed
<1>3. (ScopeSettled /\ CallDiscipline /\ Chain /\ RequestsBehind)'
  BY DEF ScopeSettled, CallDiscipline, Chain, RequestsBehind, Asking
<1>4. kind # Null
  BY NoneAssumption
<1>5. (FailClosed /\ AuthorizationIsEarned)'
  BY <1>2, <1>4 DEF FailClosed, AuthorizationIsEarned
<1>6. (PromptOrder /\ SingleContract)'
  BY <1>2 DEF PromptOrder, SingleContract
<1>7. QED
  BY <1>1, <1>3, <1>5, <1>6

\* Sending a request appends it at its place in the order of the prompts.
LEMMA SendPreserves ==
  ASSUME IInv, SendRequest
  PROVE  IInv'
<1> USE DEF IInv, SendRequest
<1> DEFINE req == [prompt |-> PromptOf(stage), slots |-> SlotContracts(stage)]
<1>0. /\ stage \in Asking
      /\ stage = "stage_ab" => Len(requests) = 0
      /\ stage = "stage_c" => Len(requests) = 1
      /\ stage = "stage_d" => Len(requests) = 2
  BY DEF RequestsBehind
<1>1. SlotContracts(stage) \in SUBSET Contracts
  BY DEF TypeOK, Packet, SlotContracts, Chain, GoodAnalysis, GoodSetup, ContractAnalysis,
         ProposedSetup, Asking
<1>2. req \in [prompt: 1..10, slots: SUBSET Contracts]
  BY <1>1, PromptTyped
<1>3. TypeOK'
  BY <1>2, RetriesAssumption DEF TypeOK, TotalAttempts
<1>4. OneContractPacket
  <2>1. CASE stage = "stage_ab"
    BY <2>1 DEF ContractScopeValid, SlotContracts, OneContractPacket
  <2>2. CASE stage \in {"stage_c", "stage_d"}
    BY <2>2 DEF ScopeSettled
  <2>3. QED
    BY <2>1, <2>2 DEF Asking
<1>5. (ScopeSettled /\ CallDiscipline /\ Chain)'
  BY <1>4 DEF ScopeSettled, CallDiscipline, Chain, OneContractPacket, GoodAnalysis, GoodSetup
<1>6. SlotContracts(stage) = {packet.market_packet}
  BY <1>4 DEF SlotContracts, OneContractPacket, Chain, GoodAnalysis, GoodSetup, Asking
<1>7. /\ requests \in Seq([prompt: 1..10, slots: SUBSET Contracts])
      /\ requests' = Append(requests, req)
      /\ Len(requests') = Len(requests) + 1
      /\ \A i \in 1..Len(requests) : requests'[i] = requests[i]
      /\ requests'[Len(requests) + 1] = req
  BY <1>2 DEF TypeOK
<1>8. RequestsBehind'
  BY <1>7 DEF RequestsBehind, Asking
<1>9. PromptOrder'
  <2>1. Len(requests) \in 0..2 /\ Len(requests) \in Nat
    BY <1>0 DEF Asking
  <2>2. req.prompt =
          <<STAGE_AB_PROMPT_BY_CONTRACT[packet.market_packet], 8, 9>>[Len(requests) + 1]
    <3>1. CASE stage = "stage_ab"
      <4>1. Len(requests) = 0
        BY <1>0, <3>1
      <4>2. QED
        BY <3>1, <4>1 DEF PromptOf
    <3>2. CASE stage = "stage_c"
      <4>1. Len(requests) = 1
        BY <1>0, <3>2
      <4>2. QED
        BY <3>2, <4>1 DEF PromptOf
    <3>3. CASE stage = "stage_d"
      <4>1. Len(requests) = 2
        BY <1>0, <3>3
      <4>2. QED
        BY <3>3, <4>1 DEF PromptOf
    <3>4. QED
      BY <3>1, <3>2, <3>3 DEF Asking
  <2>3. \A i \in 1..Len(requests') : i \in 1..Len(requests) \/ i = Len(requests) + 1
    BY <1>7, <2>1
  <2> DEFINE order == <<STAGE_AB_PROMPT_BY_CONTRACT[packet.market_packet], 8, 9>>
  <2>4. \A i \in 1..Len(requests) : requests[i].prompt = order[i]
    BY DEF PromptOrder
  <2>5. \A i \in 1..Len(requests') : requests'[i].prompt = order[i]
    <3> HIDE DEF order, req
    <3> QED
      BY <1>7, <2>2, <2>3, <2>4 DEF order
  <2>6. Len(requests') <= 3
    BY <1>7, <2>1
  <2>7. packet' = packet
    OBVIOUS
  <2>8. QED
    BY <2>5, <2>6, <2>7 DEF PromptOrder
<1>10. (FailClosed /\ AuthorizationIsEarned)'
  BY DEF FailClosed, AuthorizationIsEarned, Asking
<1>11. SingleContract'
  <2>1. \A i \in 1..Len(requests') : i \in 1..Len(requests) \/ i = Len(requests) + 1
    BY <1>7 DEF RequestsBehind, Asking
  <2>2. \A i \in 1..Len(requests') : requests'[i].slots = {packet'.market_packet}
    BY <1>6, <1>7, <2>1 DEF SingleContract
  <2>3. QED
    BY <2>2 DEF SingleContract, FailClosed, Asking
<1>12. QED
  BY <1>3, <1>5, <1>8, <1>9, <1>10, <1>11

-----------------------------------------------------------------------------
\* Steps that change neither the outputs nor the requests.
LEMMA QuietPreserves ==
  ASSUME IInv, CoercePacket \/ RetryAttempt \/ ProviderAnswers
  PROVE  IInv'
<1> USE DEF IInv
<1>1. CASE CoercePacket
  BY <1>1 DEF CoercePacket, TypeOK, Stage, Asking, ScopeSettled, OneContractPacket,
     CallDiscipline, Chain, RequestsBehind, FailClosed, PromptOrder, SingleContract,
     AuthorizationIsEarned
<1>2. CASE RetryAttempt
  <2>1. attempts' \in 0..TotalAttempts
    BY <1>2, RetriesAssumption DEF RetryAttempt, TypeOK, TotalAttempts
  <2>2. QED
    BY <1>2, <2>1 DEF RetryAttempt, TypeOK, ScopeSettled, OneContractPacket, CallDiscipline,
       Chain, GoodAnalysis, GoodSetup, RequestsBehind, FailClosed, PromptOrder,
       SingleContract, AuthorizationIsEarned
<1>3. CASE ProviderAnswers
  <2>1. response' \in Response /\ response' \in Responses
    BY <1>3, ResponsesTyped DEF ProviderAnswers
  <2>2. QED
    BY <1>3, <2>1 DEF ProviderAnswers, TypeOK, ScopeSettled, OneContractPacket, CallDiscipline,
       Chain, GoodAnalysis, GoodSetup, RequestsBehind, FailClosed, PromptOrder,
       SingleContract, AuthorizationIsEarned
<1>4. QED
  BY <1>1, <1>2, <1>3

\* Returning a result keeps the invariant when the result is the packet's own
\* and its outputs and decision fit its termination stage.
LEMMA ReturnPreserves ==
  ASSUME IInv, NEW r \in PipelineExecutionResult, Return(r), stage \in Asking,
         r.contract = packet.market_packet,
         \A o \in {r.sufficiency_gate_output, r.contract_analysis, r.proposed_setup,
                   r.risk_authorization} \ {Null} : o.contract = r.contract,
         r.termination_stage = "risk_authorization" =>
           /\ Validates("contract_analysis", r.contract_analysis)
           /\ Validates("proposed_setup", r.proposed_setup)
           /\ Validates("risk_authorization", r.risk_authorization)
           /\ r.contract_analysis.outcome = "ANALYSIS_COMPLETE"
           /\ r.proposed_setup.outcome = "SETUP_PROPOSED"
           /\ r.final_decision = StageDFinalDecision[r.risk_authorization.decision],
         r.termination_stage # "risk_authorization" =>
           /\ r.risk_authorization = Null
           /\ r.final_decision \notin {"TRADE_APPROVED", "TRADE_REDUCED", "TRADE_REJECTED"},
         r.termination_stage \in {"sufficiency_gate", "contract_market_read"} =>
           r.proposed_setup = Null
  PROVE  IInv'
<1> USE DEF IInv, Return
<1>1. r # Null
  BY NoneAssumption
<1>2. TypeOK'
  BY DEF TypeOK, Stage
<1>3. (ScopeSettled /\ CallDiscipline /\ Chain /\ RequestsBehind)'
  BY DEF ScopeSettled, CallDiscipline, Chain, RequestsBehind, Asking
<1>4. error = Null
  BY DEF FailClosed, Asking
<1>5. FailClosed'
  BY <1>1, <1>4 DEF FailClosed
<1>6. AuthorizationIsEarned'
  BY DEF AuthorizationIsEarned
<1>7. PromptOrder'
  BY DEF PromptOrder
<1>8. SingleContract'
  BY DEF SingleContract
<1>9. QED
  BY <1>2, <1>3, <1>5, <1>6, <1>7, <1>8

-----------------------------------------------------------------------------
\* The four places where run_pipeline returns, and the two where it goes on.
LEMMA StopAtGatePreserves ==
  ASSUME IInv, StopAtGate
  PROVE  IInv'
<1> USE DEF IInv, StopAtGate
<1>1. /\ Answer \in SufficiencyGateOutput
      /\ Answer.contract = packet.market_packet
      /\ stage = "stage_ab"
  <2>1. stage = "stage_ab" /\ call = "answered"
    BY DEF AnswerAccepted
  <2>2. Answer \in Payload /\ Answer.schema = "sufficiency_gate_output"
        /\ Answer.contract = packet.contract_metadata
    BY AcceptedAnswer DEF Asking, Boundary
  <2>3. QED
    BY <2>1, <2>2, PayloadOfSchema DEF ScopeSettled, OneContractPacket
<1> DEFINE r == [contract |-> packet.market_packet,
                 termination_stage |-> "sufficiency_gate",
                 final_decision |-> Answer.status,
                 sufficiency_gate_output |-> Answer,
                 contract_analysis |-> Null, proposed_setup |-> Null,
                 risk_authorization |-> Null]
<1>2. r \in PipelineExecutionResult
  BY <1>1 DEF PipelineExecutionResult, TypeOK, Packet, TerminationStage, SufficiencyGateOutput
<1>3. Answer.status \in GateStatus
  BY <1>1 DEF SufficiencyGateOutput
<1>4. QED
  BY <1>1, <1>2, <1>3, ReturnPreserves DEF Asking, GateStatus

LEMMA StopAtMarketReadPreserves ==
  ASSUME IInv, StopAtMarketRead
  PROVE  IInv'
<1> USE DEF IInv, StopAtMarketRead
<1>1. /\ Answer \in ContractAnalysis
      /\ Answer.contract = packet.market_packet
      /\ stage = "stage_ab"
  <2>1. stage = "stage_ab" /\ call = "answered"
    BY DEF AnswerAccepted
  <2>2. Answer \in Payload /\ Answer.schema = "contract_analysis"
        /\ Answer.contract = packet.contract_metadata
    BY AcceptedAnswer DEF Asking, Boundary
  <2>3. QED
    BY <2>1, <2>2, PayloadOfSchema DEF ScopeSettled, OneContractPacket
<1> DEFINE r == [contract |-> packet.market_packet,
                 termination_stage |-> "contract_market_read",
                 final_decision |-> "NO_TRADE",
                 sufficiency_gate_output |-> Null,
                 contract_analysis |-> Answer, proposed_setup |-> Null,
                 risk_authorization |-> Null]
<1>2. r \in PipelineExecutionResult
  BY <1>1 DEF PipelineExecutionResult, TypeOK, Packet, TerminationStage, FinalDecision
<1>3. QED
  BY <1>1, <1>2, ReturnPreserves DEF Asking

LEMMA StopAtSetupPreserves ==
  ASSUME IInv, StopAtSetup
  PROVE  IInv'
<1> USE DEF IInv, StopAtSetup
<1>1. /\ Answer \in ProposedSetup
      /\ Answer.contract = packet.market_packet
      /\ stage = "stage_c"
      /\ GoodAnalysis(contract_analysis)
  <2>1. stage = "stage_c" /\ call = "answered"
    BY DEF AnswerAccepted
  <2>2. Answer \in Payload /\ Answer.schema = "proposed_setup"
        /\ Answer.contract = packet.contract_metadata
    BY AcceptedAnswer DEF Asking, Boundary
  <2>3. QED
    BY <2>1, <2>2, PayloadOfSchema DEF ScopeSettled, OneContractPacket, Chain
<1> DEFINE r == [contract |-> packet.market_packet,
                 termination_stage |-> "setup_construction",
                 final_decision |-> "NO_TRADE",
                 sufficiency_gate_output |-> Null,
                 contract_analysis |-> contract_analysis, proposed_setup |-> Answer,
                 risk_authorization |-> Null]
<1>2. r \in PipelineExecutionResult
  BY <1>1 DEF PipelineExecutionResult, TypeOK, Packet, TerminationStage, FinalDecision,
     GoodAnalysis
<1>3. QED
  BY <1>1, <1>2, ReturnPreserves DEF Asking, GoodAnalysis

LEMMA StopAtRiskPreserves ==
  ASSUME IInv, StopAtRisk
  PROVE  IInv'
<1> USE DEF IInv, StopAtRisk
<1>1. /\ Answer \in RiskAuthorization /\ Validates("risk_authorization", Answer)
      /\ Answer.contract = packet.market_packet
      /\ stage = "stage_d"
      /\ GoodAnalysis(contract_analysis) /\ GoodSetup(proposed_setup)
  <2>1. stage = "stage_d" /\ call = "answered"
    BY DEF AnswerAccepted
  <2>2. /\ Answer \in Payload /\ Answer.schema = "risk_authorization"
        /\ Answer.contract = packet.contract_metadata
        /\ Validates("risk_authorization", Answer)
    BY AcceptedAnswer DEF Asking, Boundary
  <2>3. QED
    BY <2>1, <2>2, PayloadOfSchema DEF ScopeSettled, OneContractPacket, Chain
<1> DEFINE r == [contract |-> packet.market_packet,
                 termination_stage |-> "risk_authorization",
                 final_decision |-> StageDFinalDecision[Answer.decision],
                 sufficiency_gate_output |-> Null,
                 contract_analysis |-> contract_analysis, proposed_setup |-> proposed_setup,
                 risk_authorization |-> Answer]
<1>2. StageDFinalDecision[Answer.decision] \in FinalDecision
  BY <1>1 DEF RiskAuthorization, RiskDecision, StageDFinalDecision, FinalDecision
<1>3. r \in PipelineExecutionResult
  BY <1>1, <1>2 DEF PipelineExecutionResult, TypeOK, Packet, TerminationStage,
     GoodAnalysis, GoodSetup
<1>4. QED
  BY <1>1, <1>3, ReturnPreserves DEF Asking, GoodAnalysis, GoodSetup

LEMMA ContinueToSetupPreserves ==
  ASSUME IInv, ContinueToSetup
  PROVE  IInv'
<1> USE DEF IInv, ContinueToSetup, Continue
<1>1. stage = "stage_ab" /\ call = "answered"
  BY DEF AnswerAccepted
<1>2. GoodAnalysis(Answer)
  <2>1. /\ Answer \in Payload /\ Answer.schema = "contract_analysis"
        /\ Answer.contract = packet.contract_metadata
        /\ Validates("contract_analysis", Answer)
    BY AcceptedAnswer DEF Asking, Boundary
  <2>2. Answer \in ContractAnalysis
    BY <2>1, PayloadOfSchema
  <2>3. Answer.outcome = "ANALYSIS_COMPLETE"
    BY <2>2 DEF ContractAnalysis
  <2>4. QED
    BY <1>1, <2>1, <2>2, <2>3 DEF GoodAnalysis, ScopeSettled, OneContractPacket
<1>3. TypeOK'
  BY <1>2, RetriesAssumption DEF TypeOK, Stage, Asking, GoodAnalysis, TotalAttempts
<1>4. OneContractPacket
  BY <1>1 DEF ScopeSettled
<1>5. (ScopeSettled /\ CallDiscipline /\ RequestsBehind)'
  BY <1>1, <1>4 DEF ScopeSettled, OneContractPacket, CallDiscipline, RequestsBehind
<1>6. Chain'
  BY <1>2 DEF Chain, GoodAnalysis
<1>7. (FailClosed /\ AuthorizationIsEarned /\ PromptOrder /\ SingleContract)'
  BY <1>1 DEF FailClosed, AuthorizationIsEarned, PromptOrder, SingleContract
<1>8. QED
  BY <1>3, <1>5, <1>6, <1>7

LEMMA ContinueToRiskPreserves ==
  ASSUME IInv, ContinueToRisk
  PROVE  IInv'
<1> USE DEF IInv, ContinueToRisk, Continue
<1>1. stage = "stage_c" /\ call = "answered"
  BY DEF AnswerAccepted
<1>2. GoodSetup(Answer)
  <2>1. /\ Answer \in Payload /\ Answer.schema = "proposed_setup"
        /\ Answer.contract = packet.contract_metadata
        /\ Validates("proposed_setup", Answer)
    BY AcceptedAnswer DEF Asking, Boundary
  <2>2. Answer \in ProposedSetup
    BY <2>1, PayloadOfSchema
  <2>3. Answer.outcome = "SETUP_PROPOSED"
    BY <2>2 DEF ProposedSetup
  <2>4. QED
    BY <1>1, <2>1, <2>2, <2>3 DEF GoodSetup, ScopeSettled, OneContractPacket
<1>3. TypeOK'
  BY <1>2, RetriesAssumption DEF TypeOK, Stage, Asking, GoodSetup, TotalAttempts
<1>4. OneContractPacket
  BY <1>1 DEF ScopeSettled
<1>5. (ScopeSettled /\ CallDiscipline /\ RequestsBehind)'
  BY <1>1, <1>4 DEF ScopeSettled, OneContractPacket, CallDiscipline, RequestsBehind
<1>6. Chain'
  BY <1>1, <1>2 DEF Chain, GoodAnalysis, GoodSetup
<1>7. (FailClosed /\ AuthorizationIsEarned /\ PromptOrder /\ SingleContract)'
  BY <1>1 DEF FailClosed, AuthorizationIsEarned, PromptOrder, SingleContract
<1>8. QED
  BY <1>3, <1>5, <1>6, <1>7

\* The steps that end in an exception.
LEMMA FailurePreserves ==
  ASSUME IInv,
         \/ RefusePacket \/ RefuseScope \/ RejectAnswer
         \/ \E retryable \in BOOLEAN : ProviderFails(retryable)
  PROVE  IInv'
<1>1. ~Ended
  BY DEF IInv, CallDiscipline, RefusePacket, RefuseScope, RejectAnswer, ProviderFails, Asking,
     Ended
<1>2. CASE RefusePacket
  BY <1>1, <1>2, RaisePreserves DEF RefusePacket, Errors
<1>3. CASE RefuseScope
  BY <1>1, <1>3, RaisePreserves DEF RefuseScope, Errors
<1>4. CASE RejectAnswer
  <2>1. RaisedBy(PromptOf(stage), response) \in Errors
    BY DEF RaisedBy, Errors
  <2>2. QED
    BY <1>1, <1>4, <2>1, RaisePreserves DEF RejectAnswer
<1>5. CASE \E retryable \in BOOLEAN : ProviderFails(retryable)
  BY <1>1, <1>5, RaisePreserves DEF ProviderFails, Errors
<1>6. QED
  BY <1>2, <1>3, <1>4, <1>5

-----------------------------------------------------------------------------
\* IInv holds in every state of every run.
THEOREM Invariance == Spec => []IInv
<1>1. IInv /\ [Next]_vars => IInv'
  <2> SUFFICES ASSUME IInv, [Next]_vars PROVE IInv'
    OBVIOUS
  <2>1. CASE Next
    BY <2>1, QuietPreserves, SendPreserves, FailurePreserves, StopAtGatePreserves,
       StopAtMarketReadPreserves, StopAtSetupPreserves, StopAtRiskPreserves,
       ContinueToSetupPreserves, ContinueToRiskPreserves
       DEF Next, Provider, Routing
  <2>2. CASE UNCHANGED vars
    BY <2>2 DEF vars, IInv, TypeOK, ScopeSettled, OneContractPacket, CallDiscipline, Chain,
       GoodAnalysis, GoodSetup, RequestsBehind, FailClosed, PromptOrder, SingleContract,
       AuthorizationIsEarned
  <2>3. QED
    BY <2>1, <2>2
<1>2. QED
  BY InitInvariant, <1>1, PTL DEF Spec

\* Every state of a run is a state of the declared types.
THEOREM TypeCorrect == Spec => []TypeOK
  BY Invariance, PTL DEF IInv

\* A trade decision always stands on a valid read, a proposed setup and an
\* authorization that says the same (run_pipeline, Stage D).
THEOREM AuthorizationEarned == Spec => []AuthorizationIsEarned
  BY Invariance, PTL DEF IInv

\* No request and no result mixes two contracts (_validate_contract_scope and
\* the output contract check of execute_prompt).
THEOREM ContractsNeverMix == Spec => []SingleContract
  BY Invariance, PTL DEF IInv

\* Prompts are asked in order, each at most once.
THEOREM PromptsInOrder == Spec => []PromptOrder
  BY Invariance, PTL DEF IInv

\* A run ends in a result or in an exception, and a no-go carries nothing of
\* the stages after it.
THEOREM FailsClosed == Spec => []FailClosed
  BY Invariance, PTL DEF IInv

-----------------------------------------------------------------------------
(* The refinement.  Fairness apart (a formula about ENABLED, checked by    *)
(* TLC), a run of the pipeline is a run of AbstractEvaluation.             *)

LEMMA InitRefines == Init => Evaluation!Init
  BY DEF Init, Evaluation!Init, AbstractPhase, AbstractVerdict

\* While a stage is being asked there is no verdict, and its phase is open.
LEMMA OpenPhase ==
  ASSUME IInv, stage \in Asking \cup {"coerce"}
  PROVE  /\ result = Null /\ error = Null /\ AbstractVerdict = Null
         /\ AbstractPhase \in {"A", "C", "D"}
<1>1. result = Null /\ error = Null
  BY DEF IInv, FailClosed, Asking
<1>2. QED
  BY <1>1 DEF AbstractVerdict, AbstractPhase, Asking

LEMMA RaiseAborts ==
  ASSUME IInv, stage \in Asking \cup {"coerce"}, NEW kind \in Errors, Raise(kind)
  PROVE  Evaluation!Abort
<1>1. kind # Null
  BY NoneAssumption
<1>2. AbstractPhase' = "closed" /\ AbstractVerdict' = "ERROR" /\ attempts' = attempts
  BY <1>1 DEF Raise, AbstractPhase, AbstractVerdict
<1>3. AbstractPhase # "closed"
  BY OpenPhase
<1>4. QED
  BY <1>2, <1>3 DEF Evaluation!Abort

LEMMA ReturnConcludes ==
  ASSUME IInv, stage \in Asking, call = "answered", NEW r \in PipelineExecutionResult,
         Return(r)
  PROVE  /\ Evaluation!Conclude(r.final_decision)
         /\ r.final_decision \in Evaluation!Verdicts[AbstractPhase] => Evaluation!Decide
<1>1. error = Null /\ AbstractPhase # "closed"
  BY OpenPhase
<1>2. r # Null
  BY NoneAssumption
<1>3. /\ AbstractPhase' = "closed" /\ AbstractVerdict' = r.final_decision
      /\ attempts' = attempts
  BY <1>1, <1>2 DEF Return, AbstractPhase, AbstractVerdict
<1>4. attempts > 0
  BY DEF IInv, CallDiscipline, TypeOK, TotalAttempts
<1>5. QED
  BY <1>1, <1>3, <1>4 DEF Evaluation!Decide, Evaluation!Conclude

\* The gate says READY and the run ends there.
StopsReady == StopAtGate /\ Answer.status = "READY"

\* Every step of the pipeline is a step of the abstract evaluation or leaves
\* its phase, its expense and its verdict alone, a stop at READY excepted.
LEMMA StepRefines ==
  ASSUME IInv, [Next]_vars
  PROVE  [Evaluation!Next]_(Evaluation!vars) \/ (StopsReady /\ EndsAtReady)
<1> USE DEF Evaluation!Next
<1> DEFINE Same == UNCHANGED Evaluation!vars
<1>1. CASE CoercePacket
  <2>1. Same
    BY <1>1 DEF CoercePacket, Evaluation!vars, AbstractPhase, AbstractVerdict
  <2>2. QED
    BY <2>1
<1>2. CASE SendRequest \/ RetryAttempt
  <2>1. stage \in Asking /\ stage' = stage /\ result' = result /\ error' = error
    BY <1>2 DEF SendRequest, RetryAttempt, IInv, CallDiscipline
  <2>2. AbstractPhase' = AbstractPhase /\ AbstractVerdict' = AbstractVerdict
    BY <2>1 DEF AbstractPhase, AbstractVerdict
  <2>3. attempts' = attempts + 1 /\ attempts < TotalAttempts
    BY <1>2, <2>1, RetriesAssumption
       DEF SendRequest, RetryAttempt, IInv, CallDiscipline, TotalAttempts
  <2>4. Evaluation!Attempt
    BY <2>1, <2>2, <2>3, OpenPhase DEF Evaluation!Attempt
  <2>5. QED
    BY <2>4
<1>3. CASE ProviderAnswers
  <2>1. Same
    BY <1>3 DEF ProviderAnswers, Evaluation!vars, AbstractPhase, AbstractVerdict
  <2>2. QED
    BY <2>1
<1>4. CASE \/ RefusePacket \/ RefuseScope \/ RejectAnswer
           \/ \E retryable \in BOOLEAN : ProviderFails(retryable)
  <2>1. stage \in Asking \cup {"coerce"}
    BY <1>4 DEF RefusePacket, RefuseScope, RejectAnswer, ProviderFails, IInv, CallDiscipline
  <2>2. PICK kind \in Errors : Raise(kind)
    <3>1. RaisedBy(PromptOf(stage), response) \in Errors
      BY DEF RaisedBy, Errors
    <3>2. QED
      BY <1>4, <3>1 DEF RefusePacket, RefuseScope, RejectAnswer, ProviderFails, Errors
  <2>3. QED
    BY <2>1, <2>2, RaiseAborts
<1>5. CASE ContinueToSetup \/ ContinueToRisk
  <2>1. /\ call = "answered" /\ stage \in {"stage_ab", "stage_c"}
        /\ attempts' = 0 /\ result' = result /\ error' = error
        /\ stage = "stage_ab" => stage' = "stage_c"
        /\ stage = "stage_c" => stage' = "stage_d"
    BY <1>5 DEF ContinueToSetup, ContinueToRisk, AnswerAccepted, Continue
  <2>2. attempts > 0
    BY <2>1 DEF IInv, CallDiscipline, TypeOK, TotalAttempts
  <2>3. AbstractPhase \in {"A", "C"} /\ AbstractPhase' = Evaluation!NextPhase[AbstractPhase]
    BY <2>1 DEF AbstractPhase, Evaluation!NextPhase
  <2>4. AbstractVerdict' = AbstractVerdict
    BY <2>1 DEF AbstractVerdict
  <2>5. Evaluation!Advance
    BY <2>1, <2>2, <2>3, <2>4 DEF Evaluation!Advance, Evaluation!NextPhase
  <2>6. QED
    BY <2>5
<1>6. CASE StopAtGate \/ StopAtMarketRead
  <2>1. stage = "stage_ab" /\ call = "answered"
    BY <1>6 DEF StopAtGate, StopAtMarketRead, AnswerAccepted
  <2>2. IInv'
    BY <1>6, StopAtGatePreserves, StopAtMarketReadPreserves
  <2>3. result' \in PipelineExecutionResult /\ Return(result')
    <3>1. Return(result') /\ stage' = "returned"
      BY <1>6 DEF StopAtGate, StopAtMarketRead, Return
    <3>2. QED
      BY <2>2, <3>1 DEF IInv, FailClosed, TypeOK
  <2>4. \/ result'.final_decision \in (GateStatus \ {"READY"}) \cup {"NO_TRADE"}
        \/ StopsReady /\ result'.final_decision = "READY"
    <3>1. CASE StopAtGate
      <4>1. Answer \in SufficiencyGateOutput
        BY <2>1, <3>1, AcceptedAnswer, PayloadOfSchema DEF StopAtGate, IInv, Asking, Boundary
      <4>2. result'.final_decision = Answer.status
        BY <3>1 DEF StopAtGate, Return
      <4>3. QED
        BY <3>1, <4>1, <4>2 DEF SufficiencyGateOutput, StopsReady
    <3>2. CASE StopAtMarketRead
      BY <3>2 DEF StopAtMarketRead, Return
    <3>3. QED
      BY <1>6, <3>1, <3>2
  <2>5. Evaluation!Conclude(result'.final_decision)
    BY <2>1, <2>3, ReturnConcludes DEF Asking
  <2>6. CASE result'.final_decision \in (GateStatus \ {"READY"}) \cup {"NO_TRADE"}
    <3>1. result'.final_decision \in Evaluation!Verdicts[AbstractPhase]
      BY <2>1, <2>6 DEF AbstractPhase, Evaluation!Verdicts, GateStatus
    <3>2. QED
      BY <2>1, <2>3, <3>1, ReturnConcludes DEF Asking
  <2>7. CASE StopsReady /\ result'.final_decision = "READY"
    BY <2>1, <2>5, <2>7 DEF EndsAtReady, AbstractPhase
  <2>8. QED
    BY <2>4, <2>6, <2>7
<1>7. CASE StopAtSetup
  <2>1. stage = "stage_c" /\ call = "answered"
    BY <1>7 DEF StopAtSetup, AnswerAccepted
  <2>2. IInv'
    BY <1>7, StopAtSetupPreserves
  <2>3. /\ result' \in PipelineExecutionResult /\ Return(result')
        /\ result'.final_decision = "NO_TRADE"
    <3>1. Return(result') /\ stage' = "returned" /\ result'.final_decision = "NO_TRADE"
      BY <1>7 DEF StopAtSetup, Return
    <3>2. QED
      BY <2>2, <3>1 DEF IInv, FailClosed, TypeOK
  <2>4. result'.final_decision \in Evaluation!Verdicts[AbstractPhase]
    BY <2>1, <2>3 DEF AbstractPhase, Evaluation!Verdicts
  <2>5. QED
    BY <2>1, <2>3, <2>4, ReturnConcludes DEF Asking
<1>8. CASE StopAtRisk
  <2>1. stage = "stage_d" /\ call = "answered"
    BY <1>8 DEF StopAtRisk, AnswerAccepted
  <2>2. IInv'
    BY <1>8, StopAtRiskPreserves
  <2>3. result' \in PipelineExecutionResult /\ Return(result')
    <3>1. Return(result') /\ stage' = "returned"
      BY <1>8 DEF StopAtRisk, Return
    <3>2. QED
      BY <2>2, <3>1 DEF IInv, FailClosed, TypeOK
  <2>4. Answer \in RiskAuthorization
    BY <1>8, <2>1, AcceptedAnswer, PayloadOfSchema DEF StopAtRisk, IInv, Asking, Boundary
  <2>5. result'.final_decision = StageDFinalDecision[Answer.decision]
    BY <1>8 DEF StopAtRisk, Return
  <2>6. result'.final_decision \in Evaluation!Verdicts[AbstractPhase]
    BY <2>1, <2>4, <2>5 DEF AbstractPhase, Evaluation!Verdicts, StageDFinalDecision,
       RiskAuthorization, RiskDecision
  <2>7. QED
    BY <2>1, <2>3, <2>6, ReturnConcludes DEF Asking
<1>9. CASE UNCHANGED vars
  BY <1>9 DEF vars, Evaluation!vars, AbstractPhase, AbstractVerdict
<1>10. QED
  BY <1>1, <1>2, <1>3, <1>4, <1>5, <1>6, <1>7, <1>8, <1>9 DEF Next, Provider, Routing

\* Whatever the provider answers, the only step of run_pipeline that the staged
\* evaluation of the documentation does not have is the end at a READY gate.
THEOREM LeavesTheFunnelAtReady == Spec => DepartsOnlyAtReady
<1>1. IInv /\ [Next]_vars => [Evaluation!Next \/ EndsAtReady]_(Evaluation!vars)
  BY StepRefines
<1>2. QED
  BY InitRefines, <1>1, Invariance, PTL DEF Spec, DepartsOnlyAtReady

\* With a provider that never reports a READY gate, as the adapter asks of it,
\* run_pipeline starts like the documented evaluation and every step of it is a
\* step of one (the safety part of Evaluation!Spec).
THEOREM PipelineRefinesEvaluation ==
  ASSUME \A p \in Payloads : ~ReadyGate(p)
  PROVE  Spec => Evaluation!Init /\ [][Evaluation!Next]_(Evaluation!vars)
<1>1. IInv => ~StopsReady
  <2> SUFFICES ASSUME IInv, StopsReady PROVE FALSE
    OBVIOUS
  <2>1. /\ call = "answered" /\ stage = "stage_ab"
        /\ Accepted(PromptOf("stage_ab"), ExpectedContract, response)
        /\ Validates("sufficiency_gate_output", Answer) /\ Answer.status = "READY"
    BY DEF StopsReady, StopAtGate, AnswerAccepted, Matches
  <2>2. response \in Responses /\ response.shape = "envelope"
    BY <2>1 DEF IInv, CallDiscipline, Accepted
  <2>3. Answer \in Payloads
    BY <2>2 DEF Responses, Answer, UntypedShape, BrokenShape
  <2>4. ReadyGate(Answer)
    BY <2>1 DEF ReadyGate, Validates
  <2>5. QED
    BY <2>3, <2>4
<1>2. IInv /\ [Next]_vars => [Evaluation!Next]_(Evaluation!vars)
  BY <1>1, StepRefines
<1>3. QED
  BY InitRefines, <1>2, Invariance, PTL DEF Spec
=============================================================================
