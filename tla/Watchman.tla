------------------------------ MODULE Watchman ------------------------------
(***************************************************************************)
(* The deterministic pre-model check (watchman.py): from one contract's    *)
(* packet, an evaluation time and a readiness trigger to the context that  *)
(* says whether anything locks the contract out.  Time is in minutes; the  *)
(* price, volume and macro labels of the context are left out, for none of *)
(* them can lock anything out.                                             *)
(***************************************************************************)
EXTENDS Integers, Sequences

CONSTANTS
  Contracts,
  Null,
  Day,                  \* minutes in a day
  Hours,                \* contract_metadata: allowed_hours_start_et .. allowed_hours_end_et
  Limits,               \* the rules of challenge_state
  StalenessThreshold,   \* WATCHMAN_STALENESS_THRESHOLD_SECONDS, 300 s
  WindDownMinutes,      \* WATCHMAN_WIND_DOWN_MINUTES, 30
  ElevatedWindow        \* WATCHMAN_EVENT_ELEVATED_WINDOW_MINUTES, 30

ASSUME TimeAssumption ==
  /\ Day \in Nat \ {0}
  /\ StalenessThreshold \in Nat /\ WindDownMinutes \in Nat /\ ElevatedWindow \in Nat
  /\ Hours \in [Contracts -> [start: 0..(Day - 1), end: 0..(Day - 1)]]

ASSUME LimitsAssumption ==
  Limits \in [daily_loss_stop_dollars: Nat, max_trades_per_day: Int,
              max_trades_per_contract_per_day: Int,
              max_position_size_by_contract: [Contracts -> Int],
              cooldown_after_stopout_minutes: Nat,
              event_lockout_minutes_before: Nat, event_lockout_minutes_after: Nat]

Charts == {"daily", "higher_timeframe", "tpo", "volume_profile", "execution"}

Optional == {"cross_market_context", "data_quality_flags"}

\* The standing of the account as challenge_state reports it.
ChallengeState ==
  [daily_realized_pnl: Int, trades_today_all: Nat, trades_today_by_contract: [Contracts -> Nat],
   open_size: [Contracts -> Nat],
   last_stopout_time_by_contract: [Contracts -> Nat \cup {Null}] \cup {Null}]

\* EventCalendarEntry and EiaTiming: minutes_until of an upcoming event,
\* minutes_since of a released one, both as of the packet's timestamp.
Event == [tier: {1, 2}, event_state: {"upcoming", "released"}, minutes: Int]

MarketPacket ==
  [timestamp: Nat, events: Seq(Event), visuals: SUBSET Charts, absent: SUBSET Optional,
   well_formed: BOOLEAN]

\* A recheck time written without an offset parses to a naive datetime.
Trigger ==
  [trigger_family: {"recheck_at_time"}, recheck_at_time: Nat, aware: BOOLEAN]
    \cup [trigger_family: {"price_level_touch"}]

-----------------------------------------------------------------------------
TimeOfDay(t) == t % Day

\* _is_inside_allowed_hours: the window of the evaluation's own ET day.
InsideAllowedHours(c, e) ==
  Hours[c].start <= TimeOfDay(e) /\ TimeOfDay(e) <= Hours[c].end

SessionWindDownState(c, e) ==
  IF ~InsideAllowedHours(c, e) THEN "closed"
  ELSE IF Hours[c].end - TimeOfDay(e) <= WindDownMinutes THEN "winding_down" ELSE "normal"

\* Mutant: timedelta.seconds, which drops the days.
StaleWithinDay(packet, e) == (e - packet.timestamp) % Day > StalenessThreshold

Stale(packet, e) == e - packet.timestamp > StalenessThreshold

VisualReadinessState(packet) ==
  IF {"execution", "daily"} \subseteq packet.visuals THEN "sufficient"
  ELSE IF packet.visuals \cap {"execution", "daily", "higher_timeframe", "volume_profile"} # {}
  THEN "partial" ELSE "insufficient"

-----------------------------------------------------------------------------
(* _classify_event_risk.                                                   *)

\* Mutant: the window after a release is the one before it.
LockoutMinutesOneSided(event) == Limits.event_lockout_minutes_before

LockoutMinutes(event) ==
  IF event.event_state = "upcoming" THEN Limits.event_lockout_minutes_before
  ELSE Limits.event_lockout_minutes_after

EventRisk(event) ==
  IF event.tier # 1 THEN "clear"
  ELSE IF event.minutes <= LockoutMinutes(event) THEN "lockout_active"
  ELSE IF event.minutes <= ElevatedWindow THEN "elevated" ELSE "clear"

SomeEvent(packet, risk) == \E i \in 1..Len(packet.events) : EventRisk(packet.events[i]) = risk

\* One variable is assigned in the loop: the last event that is not clear wins.
EventRiskState(packet) ==
  LET risky == {i \in 1..Len(packet.events) : EventRisk(packet.events[i]) # "clear"}
  IN  IF risky = {} THEN "clear"
      ELSE EventRisk(packet.events[CHOOSE i \in risky : \A j \in risky : j <= i])

-----------------------------------------------------------------------------
(* _apply_governance_flags.                                                *)

LastStopout(challenge, c) ==
  IF challenge.last_stopout_time_by_contract = Null THEN Null
  ELSE challenge.last_stopout_time_by_contract[c]

\* Mutant: the cooldown ends a minute early.
CoolingDownShort(challenge, c, e) ==
  /\ LastStopout(challenge, c) # Null
  /\ e + 1 < LastStopout(challenge, c) + Limits.cooldown_after_stopout_minutes

CoolingDown(challenge, c, e) ==
  /\ LastStopout(challenge, c) # Null
  /\ e < LastStopout(challenge, c) + Limits.cooldown_after_stopout_minutes

\* Mutant: the stop bites only once the loss is past it.
BreachPastLoss(challenge, c) ==
  [daily_loss_stop_reached |->
     challenge.daily_realized_pnl < -Limits.daily_loss_stop_dollars,
   max_trades_reached |-> challenge.trades_today_all >= Limits.max_trades_per_day,
   contract_trade_limit_reached |->
     challenge.trades_today_by_contract[c] >= Limits.max_trades_per_contract_per_day,
   max_position_size_reached |->
     challenge.open_size[c] >= Limits.max_position_size_by_contract[c]]

\* Mutant: the contract's limit is held against the trades still open.
BreachByOpenTrades(challenge, c) ==
  [daily_loss_stop_reached |->
     challenge.daily_realized_pnl <= -Limits.daily_loss_stop_dollars,
   max_trades_reached |-> challenge.trades_today_all >= Limits.max_trades_per_day,
   contract_trade_limit_reached |->
     challenge.open_size[c] >= Limits.max_trades_per_contract_per_day,
   max_position_size_reached |->
     challenge.open_size[c] >= Limits.max_position_size_by_contract[c]]

\* Mutant: the account's limit is held against the contract's own trades.
BreachByContract(challenge, c) ==
  [daily_loss_stop_reached |->
     challenge.daily_realized_pnl <= -Limits.daily_loss_stop_dollars,
   max_trades_reached |-> challenge.trades_today_by_contract[c] >= Limits.max_trades_per_day,
   contract_trade_limit_reached |->
     challenge.trades_today_by_contract[c] >= Limits.max_trades_per_contract_per_day,
   max_position_size_reached |->
     challenge.open_size[c] >= Limits.max_position_size_by_contract[c]]

Breach(challenge, c) ==
  [daily_loss_stop_reached |->
     challenge.daily_realized_pnl <= -Limits.daily_loss_stop_dollars,
   max_trades_reached |-> challenge.trades_today_all >= Limits.max_trades_per_day,
   contract_trade_limit_reached |->
     challenge.trades_today_by_contract[c] >= Limits.max_trades_per_contract_per_day,
   max_position_size_reached |->
     challenge.open_size[c] >= Limits.max_position_size_by_contract[c]]

-----------------------------------------------------------------------------
HardLockoutFlags(c, packet, challenge, e) ==
  {f \in DOMAIN Breach(challenge, c) : Breach(challenge, c)[f]}
    \cup {f \in {"outside_allowed_hours"} : ~InsideAllowedHours(c, e)}
    \cup {f \in {"stale_market_packet"} : Stale(packet, e)}
    \cup {f \in {"event_lockout_active"} : SomeEvent(packet, "lockout_active")}
    \cup {f \in {"cooldown_active"} : CoolingDown(challenge, c, e)}

AwarenessFlags(c, packet, challenge, e) ==
  {f \in {"session_winding_down"} : SessionWindDownState(c, e) = "winding_down"}
    \cup {f \in {"visual_context_partial"} : VisualReadinessState(packet) = "partial"}
    \cup {f \in {"visual_context_insufficient"} : VisualReadinessState(packet) = "insufficient"}
    \cup {f \in {"event_risk_elevated"} : SomeEvent(packet, "elevated")}
    \cup {f \in {"open_positions_present"} : \E d \in Contracts : challenge.open_size[d] > 0}

\* _collect_missing_inputs, without the contract-specific ones.
MissingInputs(packet, challenge) ==
  packet.absent
    \cup {f \in {"last_stopout_time_by_contract"} : challenge.last_stopout_time_by_contract = Null}

TriggerContextState(trigger, e) ==
  IF trigger.trigger_family = "price_level_touch" THEN "price_level"
  ELSE IF e >= trigger.recheck_at_time THEN "scheduled_recheck_due"
  ELSE "scheduled_recheck_pending"

\* WatchmanReadinessContext.
Context(c, packet, challenge, trigger, e) ==
  [contract |-> c, timestamp |-> e,
   event_risk_state |-> EventRiskState(packet),
   session_wind_down_state |-> SessionWindDownState(c, e),
   stale |-> Stale(packet, e),
   trigger_context_state |-> TriggerContextState(trigger, e),
   hard_lockout_flags |-> HardLockoutFlags(c, packet, challenge, e),
   awareness_flags |-> AwarenessFlags(c, packet, challenge, e),
   missing_inputs |-> MissingInputs(packet, challenge)]

\* What build_watchman_context_from_runtime_inputs raises, Null if nothing: the
\* packet must validate, the evaluation may not precede it, and comparing a
\* naive recheck time with the aware evaluation time is a TypeError.
Refusal(packet, trigger, e) ==
  IF ~packet.well_formed \/ e < packet.timestamp THEN "ValueError"
  ELSE IF trigger.trigger_family = "recheck_at_time" /\ ~trigger.aware THEN "TypeError"
  ELSE Null
=============================================================================
