------------------------- MODULE AbstractEvaluation -------------------------
(***************************************************************************)
(* What one evaluation promises its caller, whatever prompts, providers,   *)
(* retries and schemas it is made of: a funnel of three model stages that  *)
(* is walked forwards, left at the first no-go with a verdict that belongs *)
(* to that stage, and left exactly once, with a verdict or with an error.  *)
(* READY is no verdict: a gate that is passed leads on to the market read  *)
(* (docs/user-workflow-narrative.md, steps 2 and 3; FinalDecision).        *)
(* Each stage may cost a bounded number of provider attempts.              *)
(***************************************************************************)
EXTENDS Naturals

CONSTANTS
  Unset,           \* no verdict yet
  AttemptBudget    \* provider attempts one stage may cost

VARIABLES
  phase,    \* the stage being asked: "A" (gate and read), "C", "D"; then "closed"
  spent,    \* provider attempts the current stage has cost
  verdict   \* Unset, a final decision, or "ERROR"

vars == <<phase, spent, verdict>>

Verdicts ==
  [A |-> {"NEED_INPUT", "INSUFFICIENT_DATA", "EVENT_LOCKOUT", "NO_TRADE"},
   C |-> {"NO_TRADE"},
   D |-> {"TRADE_APPROVED", "TRADE_REDUCED", "TRADE_REJECTED"}]

NextPhase == [A |-> "C", C |-> "D"]

Init == phase = "A" /\ spent = 0 /\ verdict = Unset

\* One more attempt at getting the current stage answered.
Attempt ==
  /\ phase # "closed" /\ spent < AttemptBudget
  /\ spent' = spent + 1
  /\ UNCHANGED <<phase, verdict>>

\* The stage was answered favourably: on to the next one.
Advance ==
  /\ phase \in DOMAIN NextPhase /\ spent > 0
  /\ phase' = NextPhase[phase]
  /\ spent' = 0
  /\ UNCHANGED verdict

\* The stage's answer settles the evaluation.
Conclude(v) ==
  /\ spent > 0
  /\ verdict' = v /\ phase' = "closed"
  /\ UNCHANGED spent

\* Nothing valid came back, or the inputs were refused: no decision at all.
Abort ==
  /\ phase # "closed"
  /\ verdict' = "ERROR" /\ phase' = "closed"
  /\ UNCHANGED spent

Decide == phase # "closed" /\ \E v \in Verdicts[phase] : Conclude(v)

Next == Attempt \/ Advance \/ Decide \/ Abort

Spec == Init /\ [][Next]_vars /\ WF_vars(Next)
=============================================================================
