---------------------------- MODULE PromptRuntime ----------------------------
(***************************************************************************)
(* The prompt registry (prompt_assets.py), the checks execute_prompt makes *)
(* around one provider call (runtime.py), and the checks the Gemini        *)
(* adapter makes on what the provider sends (gemini_adapter.py).  All of   *)
(* them are pure: they either let the call go on or name the exception     *)
(* they raise.                                                             *)
(***************************************************************************)
EXTENDS StageOutputs

Boundary ==
  {"sufficiency_gate_output", "contract_analysis", "proposed_setup", "risk_authorization"}

STAGE_AB_PROMPT_BY_CONTRACT ==
  [c \in ContractSymbol |->
     CASE c = "ES" -> 2 [] c = "NQ" -> 3 [] c = "CL" -> 4
       [] c = "ZN" -> 5 [] c = "6E" -> 6 [] OTHER -> 7]

\* PromptAsset.contract_scope: prompts 2..7 are bound to one contract each.
ContractScope(prompt) ==
  IF \E c \in ContractSymbol : STAGE_AB_PROMPT_BY_CONTRACT[c] = prompt
  THEN CHOOSE c \in ContractSymbol : STAGE_AB_PROMPT_BY_CONTRACT[c] = prompt
  ELSE "shared"

\* PromptAsset.expected_output_boundaries.
ExpectedOutputBoundaries(prompt) ==
  CASE prompt \in 2..7 -> {"sufficiency_gate_output", "contract_analysis"}
    [] prompt = 8 -> {"proposed_setup"}
    [] prompt = 9 -> {"risk_authorization"}
    [] OTHER -> {}

\* _validate_contract_scope on the contracts found in the contract-bearing slots.
ContractScopeValid(prompt, slot_contracts) ==
  /\ \A c, d \in slot_contracts : c = d
  /\ ContractScope(prompt) # "shared" => slot_contracts = {ContractScope(prompt)}

-----------------------------------------------------------------------------
(* What the provider may send back: an HTTP body whose text is missing, is *)
(* not a string, is not JSON, is not an object or lacks a key, or an       *)
(* envelope naming a boundary and carrying a payload.                      *)

UntypedShape == {"text_not_string", "not_an_object"}
BrokenShape == {"no_text", "invalid_json", "missing_keys"}
DeclaredBoundary == Boundary \cup {"not_a_string", "unlisted"}

Response ==
  [shape: UntypedShape \cup BrokenShape \cup {"envelope"},
   boundary: DeclaredBoundary, payload: Payload]

\* _validate_structured_output: the boundaries whose model accepts the payload.
Matches(prompt, payload) ==
  {b \in ExpectedOutputBoundaries(prompt) : Validates(b, payload)}

\* Mutant: the contract of the validated output is not compared.
AcceptedAnyContract(prompt, contract, r) ==
  /\ r.shape = "envelope"
  /\ r.boundary \in ExpectedOutputBoundaries(prompt)
  /\ \E b \in Boundary : Matches(prompt, r.payload) = {b}

\* execute_prompt accepts the answer: envelope, boundary, schema and contract.
Accepted(prompt, contract, r) ==
  /\ r.shape = "envelope"
  /\ r.boundary \in ExpectedOutputBoundaries(prompt)
  /\ \E b \in Boundary : Matches(prompt, r.payload) = {b}
  /\ r.payload.contract = contract

\* The exception an answer that is not accepted ends in, in checking order.
RaisedBy(prompt, r) ==
  CASE r.shape \in UntypedShape -> "TypeError"
    [] r.shape \in BrokenShape -> "GeminiAdapterError"
    [] r.boundary = "not_a_string" -> "TypeError"
    [] r.boundary \notin ExpectedOutputBoundaries(prompt) -> "GeminiAdapterError"
    [] r.payload.schema = "not_a_mapping" -> "TypeError"
    [] OTHER -> "ValueError"
=============================================================================
