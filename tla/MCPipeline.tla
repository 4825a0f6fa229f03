----------------------------- MODULE MCPipeline -----------------------------
(***************************************************************************)
(* Every combination of fields the validators distinguish for ES, and every *)
(* valid NQ payload, to be mixed up with ES's; and the same without the    *)
(* gate outputs the adapter asks the provider not to send.                 *)
(***************************************************************************)
EXTENDS Pipeline

Shaped == SufficiencyGateOutput \cup ContractAnalysis \cup ProposedSetup \cup RiskAuthorization

WidePayloads ==
  {p \in Shaped : p.contract = "ES" \/ Validates(p.schema, p)} \cup {Malformed, NotMapping}
=============================================================================
