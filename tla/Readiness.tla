------------------------------ MODULE Readiness ------------------------------
(***************************************************************************)
(* One call of run_readiness (runtime.py): the trigger it normalizes, the  *)
(* runtime inputs it evaluates, the answer it accepts or refuses           *)
(* (schemas/outputs.py, gemini_adapter.py), and the exception it raises    *)
(* otherwise.  Everything here is pure; who calls it, how often it asks    *)
(* and what becomes of the exception is ReadinessDesk's.                   *)
(***************************************************************************)
EXTENDS Naturals, FiniteSets

CONSTANTS
  Contracts,  \* supported contracts in play
  Null        \* None

-----------------------------------------------------------------------------
(* The readiness output.  "complete": the list of gates has one entry for  *)
(* each; a reason of which only the presence matters is a BOOLEAN.         *)

ReadinessDoctrineGate ==
  {"data_sufficiency_gate", "context_alignment_gate", "structure_quality_gate",
   "trigger_gate", "risk_window_gate", "lockout_gate"}

ReadinessTopLevelStatus == {"READY", "WAIT_FOR_TRIGGER", "LOCKED_OUT", "INSUFFICIENT_DATA"}

ReadinessTriggerFamily == {"recheck_at_time", "price_level_touch"}

\* insufficient_data_reasons; the other four are not told apart.
Reason == {"missing_trigger_context", "other"}

ReadinessTriggerData ==
  [family : ReadinessTriggerFamily, recheck_at_time : BOOLEAN, price_level : BOOLEAN]

ReadinessEngineOutput ==
  [contract : Contracts, status : ReadinessTopLevelStatus, complete : BOOLEAN,
   gates : [ReadinessDoctrineGate -> {"PASS", "FAIL", "WAIT"}],
   trigger_data : ReadinessTriggerData \cup {Null},
   wait_for_trigger_reason : BOOLEAN, lockout_reason : BOOLEAN,
   insufficient_data_reasons : SUBSET Reason, missing_inputs : BOOLEAN]

\* A payload with fields the model does not have, or without some it has.
Malformed == [malformed |-> TRUE]

\* validate_family_shape
FamilyShape(data) ==
  IF data.family = "recheck_at_time" THEN data.recheck_at_time /\ ~data.price_level
  ELSE data.price_level /\ ~data.recheck_at_time

\* Every gate but one passes.
OthersPass(o, gate) == \A g \in ReadinessDoctrineGate \ {gate} : o.gates[g] = "PASS"

\* Mutant: missing_trigger_context beside a trigger is let through.
TriggerOneSided(o) ==
  IF o.trigger_data = Null
  THEN o.status = "INSUFFICIENT_DATA"
       /\ "missing_trigger_context" \in o.insufficient_data_reasons
  ELSE FamilyShape(o.trigger_data)

\* The rule for a missing trigger, and for missing_trigger_context when there is one.
TriggerAccounted(o) ==
  IF o.trigger_data = Null
  THEN o.status = "INSUFFICIENT_DATA"
       /\ "missing_trigger_context" \in o.insufficient_data_reasons
  ELSE /\ FamilyShape(o.trigger_data)
       /\ ~(o.status = "INSUFFICIENT_DATA"
            /\ "missing_trigger_context" \in o.insufficient_data_reasons)

\* The part of the validator each status has.
StatusBacked(o) ==
  IF o.status = "READY"
  THEN /\ \A g \in ReadinessDoctrineGate : o.gates[g] = "PASS"
       /\ ~o.wait_for_trigger_reason /\ ~o.lockout_reason
       /\ o.insufficient_data_reasons = {} /\ ~o.missing_inputs
  ELSE IF o.status = "WAIT_FOR_TRIGGER"
  THEN /\ o.gates["trigger_gate"] = "WAIT" /\ OthersPass(o, "trigger_gate")
       /\ o.wait_for_trigger_reason /\ ~o.lockout_reason
       /\ o.insufficient_data_reasons = {} /\ ~o.missing_inputs
  ELSE IF o.status = "LOCKED_OUT"
  THEN /\ o.gates["lockout_gate"] = "FAIL" /\ OthersPass(o, "lockout_gate")
       /\ o.lockout_reason /\ ~o.wait_for_trigger_reason
       /\ o.insufficient_data_reasons = {} /\ ~o.missing_inputs
  ELSE /\ o.gates["data_sufficiency_gate"] = "FAIL" /\ OthersPass(o, "data_sufficiency_gate")
       /\ o.insufficient_data_reasons # {} /\ o.missing_inputs
       /\ ~o.wait_for_trigger_reason /\ ~o.lockout_reason

\* ReadinessEngineOutput.model_validate
Validates(o) == o # Malformed /\ o.complete /\ TriggerAccounted(o) /\ StatusBacked(o)

-----------------------------------------------------------------------------
(* The trigger.  A value that is there has the right type or not; a time   *)
(* may also be unreadable or lack its offset.                              *)

TriggerPayload ==
  [trigger_family : ReadinessTriggerFamily \cup {"unsupported", "blank"},
   recheck_at_time : {"absent", "unreadable", "naive", "aware"},
   price_level : {"absent", "boolean", "number"}]

\* _normalize_readiness_trigger lets it pass.
Normalizes(t) ==
  /\ t.trigger_family \in ReadinessTriggerFamily
  /\ IF t.trigger_family = "recheck_at_time" THEN t.recheck_at_time # "absent"
     ELSE t.price_level = "number"

-----------------------------------------------------------------------------
(* What a call runs on: the contract of the packet, or of the slots, and   *)
(* what is wrong with it.  "packet": it does not validate; "slots": a part *)
(* is missing, or there is one too many.                                   *)

Input == [contract : Contracts, fault : {"none", "packet", "slots"}]

\* The exceptions a call can end in.  The two ValueErrors that the messages of
\* execute_prompt tell apart have names of their own.
Exceptions ==
  {"ConfigError", "ImportError", "ReadinessVerificationError", "ContractMismatchError",
   "GeminiAdapterError", "ValidationError", "SchemaValueError", "ContractValueError",
   "ValueError", "TypeError", "KeyError", "OSError"}

\* run_readiness before it asks: the trigger, the packet, the trigger's time as the
\* Watchman reads it and compares it, the prompt's slots.
Refusal(input, t) ==
  IF ~Normalizes(t) THEN "ValueError"
  ELSE IF input.fault = "packet" THEN "ValidationError"
  ELSE IF input.fault = "slots" THEN "ValueError"
  ELSE IF t.trigger_family = "recheck_at_time" /\ t.recheck_at_time = "unreadable" THEN "ValueError"
  ELSE IF t.trigger_family = "recheck_at_time" /\ t.recheck_at_time = "naive" THEN "TypeError"
  ELSE Null

\* What the provider may answer: nothing of the right type, an envelope that is broken
\* or names another boundary, or a payload.
Answer ==
  [shape : {"untyped", "broken", "payload"}, output : ReadinessEngineOutput \cup {Malformed}]

\* Mutant: the answer's contract is not compared.
AnswerAnyContract(input, a) ==
  IF a.shape = "untyped" THEN "TypeError"
  ELSE IF a.shape = "broken" THEN "GeminiAdapterError"
  ELSE IF ~Validates(a.output) THEN "SchemaValueError"
  ELSE Null

\* The exception an answer ends in, Null when execute_prompt accepts it.
AnswerError(input, a) ==
  IF a.shape = "untyped" THEN "TypeError"
  ELSE IF a.shape = "broken" THEN "GeminiAdapterError"
  ELSE IF ~Validates(a.output) THEN "SchemaValueError"
  ELSE IF a.output.contract # input.contract THEN "ContractValueError"
  ELSE Null

\* _classify_failure
FailureClasses ==
  {"configuration_error", "input_error", "provider_error", "schema_validation_error",
   "contract_mismatch_error", "unexpected_runtime_error"}

\* The exceptions that are ValueErrors: those the program defines all are.
ValueErrors ==
  {"ConfigError", "GeminiAdapterError", "ValidationError", "SchemaValueError", "ContractValueError",
   "ValueError", "ReadinessVerificationError", "ContractMismatchError"}

\* Mutant: the clause for broken JSON catches the class above it, which is everyone's.
ClassifyValueErrors(exc) ==
  IF exc = "ConfigError" THEN "configuration_error"
  ELSE IF exc = "ContractMismatchError" THEN "contract_mismatch_error"
  ELSE IF exc \in ValueErrors THEN "input_error"
  ELSE "unexpected_runtime_error"

ClassifyFailure(exc) ==
  IF exc = "ConfigError" THEN "configuration_error"
  ELSE IF exc = "ContractMismatchError" THEN "contract_mismatch_error"
  ELSE IF exc = "ReadinessVerificationError" THEN "input_error"
  ELSE IF exc = "GeminiAdapterError" THEN "provider_error"
  ELSE IF exc \in {"ValidationError", "SchemaValueError"} THEN "schema_validation_error"
  ELSE IF exc = "ContractValueError" THEN "contract_mismatch_error"
  ELSE "unexpected_runtime_error"

\* The except clauses of the server, in their order; what neither names is answered
\* by wsgiref.
StatusOf(exc) ==
  IF exc \in ValueErrors THEN "400"
  ELSE IF exc \in {"GeminiAdapterError", "ImportError"} THEN "502"
  ELSE "500"
=============================================================================
