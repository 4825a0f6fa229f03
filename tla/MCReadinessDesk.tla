--------------------------- MODULE MCReadinessDesk ---------------------------
(***************************************************************************)
(* Two contracts, one of which has the fixture.  A file of each shape, and *)
(* an answer of each kind for each contract.                               *)
(***************************************************************************)
EXTENDS ReadinessDesk, TLC

AllPass == [g \in ReadinessDoctrineGate |-> "PASS"]
OnTime == [family |-> "recheck_at_time", recheck_at_time |-> TRUE, price_level |-> FALSE]

Ready(c) ==
  [contract |-> c, status |-> "READY", complete |-> TRUE, gates |-> AllPass,
   trigger_data |-> OnTime, wait_for_trigger_reason |-> FALSE, lockout_reason |-> FALSE,
   insufficient_data_reasons |-> {}, missing_inputs |-> FALSE]

\* Valid answers, and answers that come close.
OutputsOf(c) ==
  {Ready(c),
   [Ready(c) EXCEPT !.trigger_data = Null],
   [Ready(c) EXCEPT !.status = "LOCKED_OUT", !.lockout_reason = TRUE,
                    !.gates = [AllPass EXCEPT !["lockout_gate"] = "FAIL"]],
   [Ready(c) EXCEPT !.lockout_reason = TRUE]}
  \cup
  {[Ready(c) EXCEPT !.status = "INSUFFICIENT_DATA", !.missing_inputs = TRUE, !.trigger_data = data,
                    !.insufficient_data_reasons = {"missing_trigger_context"},
                    !.gates = [AllPass EXCEPT !["data_sufficiency_gate"] = "FAIL"]] :
     data \in {Null, OnTime}}

SomeAnswers ==
  [shape : {"payload"}, output : UNION {OutputsOf(c) : c \in Contracts} \cup {Malformed}]
    \cup [shape : {"untyped", "broken"}, output : {Malformed}]

\* Every output of which at most two gates are not PASS.
FewGates == {g \in [ReadinessDoctrineGate -> {"PASS", "FAIL", "WAIT"}] :
               Cardinality({d \in ReadinessDoctrineGate : g[d] # "PASS"}) <= 2}

SomeOutputs ==
  [contract : {"ZN"}, status : ReadinessTopLevelStatus, complete : {TRUE}, gates : FewGates,
   trigger_data : ReadinessTriggerData \cup {Null},
   wait_for_trigger_reason : BOOLEAN, lockout_reason : BOOLEAN,
   insufficient_data_reasons : SUBSET Reason, missing_inputs : BOOLEAN]

Recheck(time) ==
  [trigger_family |-> "recheck_at_time", recheck_at_time |-> time, price_level |-> "absent"]

SomeTriggers == {Recheck("aware"), Recheck("naive"), Recheck("absent")}

Good(c) == [contract |-> c, fault |-> "none"]
NoParts == [c \in Contracts |-> Null]
Whole == [c \in Contracts |-> Good(c)]

Single(shape, i) == [shape |-> shape, one |-> i, parts |-> NoParts]
Bundle(parts) == [shape |-> "bundle", one |-> Null, parts |-> parts]

\* Among the bundles: one without a contract, one with a packet in the wrong place.
SomeFiles ==
  {Single("unusable", Null), Single("packet", Good("ZN")), Single("slots", Good("CL")),
   Single("slots", [contract |-> "ZN", fault |-> "slots"]),
   Single("packet", [contract |-> "ZN", fault |-> "slots"]),
   Bundle(Whole), Bundle([Whole EXCEPT !["CL"] = Null]),
   Bundle([Whole EXCEPT !["CL"] = Good("ZN")]),
   Bundle([Whole EXCEPT !["CL"] = [contract |-> "CL", fault |-> "packet"]]),
   Bundle([Whole EXCEPT !["ZN"] = [contract |-> "ZN", fault |-> "slots"]])}
=============================================================================
