------------------------------ MODULE MarketRead ------------------------------
(***************************************************************************)
(* What the Watchman reads from the prices and volumes of a packet         *)
(* (watchman.py).  Prices are whole ticks, so a tick is 1; a quotient is   *)
(* the record of its two numbers, as in HistoricalSource.  "fields" are    *)
(* the market fields of a packet.                                          *)
(***************************************************************************)
EXTENDS Integers, Sequences

\* How many ticks apart two prices are.
Apart(x, y) == IF x < y THEN y - x ELSE x - y

\* Mutant: the value area is the previous session's.
ValueLocationYesterday(fields) ==
  IF fields.current_price > fields.previous_session.vah THEN "above_value"
  ELSE IF fields.current_price < fields.previous_session.val THEN "below_value"
  ELSE "inside_value"

\* The developing value area's ends are inside it.
ValueLocation(fields) ==
  IF fields.current_price > fields.current_session.vah THEN "above_value"
  ELSE IF fields.current_price < fields.current_session.val THEN "below_value"
  ELSE "inside_value"

\* Within half a tick of it the price is at VWAP.
VwapPosture(fields) ==
  LET price == fields.current_price * fields.vwap.volume
  IN  IF 2 * Apart(price, fields.vwap.value) <= fields.vwap.volume THEN "price_at_vwap"
      ELSE IF price > fields.vwap.value THEN "price_above_vwap"
      ELSE "price_below_vwap"

\* The first tier with a level near enough; "given" holds the operator's own levels.
Tiers(fields, given) ==
  <<[state |-> "near_prior_day_level", levels |-> {fields.prior_day.high, fields.prior_day.low}],
    [state |-> "near_overnight_level", levels |-> {fields.overnight.high, fields.overnight.low}],
    [state |-> "near_previous_session_value_level",
     levels |-> {fields.previous_session.vah, fields.previous_session.val,
                 fields.previous_session.poc}],
    [state |-> "near_major_htf_level", levels |-> given.major_higher_timeframe_levels],
    [state |-> "near_key_hvn_lvn", levels |-> given.key_hvns \cup given.key_lvns]>>

LevelProximity(fields, given, threshold) ==
  LET tiers == Tiers(fields, given)
      near == {i \in DOMAIN tiers :
                 \E level \in tiers[i].levels : Apart(fields.current_price, level) <= threshold}
  IN  IF near = {} THEN "clear_of_structure"
      ELSE tiers[CHOOSE i \in near : \A j \in near : i <= j].state

\* session_range / avg_20d_session_range, at least 1.2 or at most 0.8.
RangeExpansion(fields) ==
  LET range == fields.session_range * fields.avg_20d_session_range.sessions
      average == fields.avg_20d_session_range.sum
  IN  IF 5 * range >= 6 * average THEN "expanded"
      ELSE IF 5 * range <= 4 * average THEN "compressed"
      ELSE "normal"

\* current_volume_vs_average, at least 1.15 or at most 0.85 once rounded to four places:
\* at least 1.14995 or at most 0.85005.
VolumeParticipation(fields) ==
  LET ratio == fields.current_volume_vs_average
  IN  IF 20000 * ratio.volume >= 22999 * ratio.matched THEN "elevated"
      ELSE IF 20000 * ratio.volume <= 17001 * ratio.matched THEN "subdued"
      ELSE "normal"

DeltaAgreement(fields) ==
  LET change == fields.current_price - fields.session_open
      delta == fields.cumulative_delta
  IN  IF change = 0 /\ delta = 0 THEN "neutral"
      ELSE IF change > 0 /\ delta > 0 THEN "bullish_agreement"
      ELSE IF change < 0 /\ delta < 0 THEN "bearish_agreement"
      ELSE "mixed"

\* A price-level trigger; its level is given in half ticks.
TriggerLevelState(fields, level) ==
  LET price == 2 * fields.current_price
  IN  IF Apart(price, level) <= 1 THEN "at_trigger_level"
      ELSE IF price > level THEN "above_trigger_level"
      ELSE "below_trigger_level"

MarketRead(fields, given, threshold, level) ==
  [value_location_state |-> ValueLocation(fields),
   vwap_posture_state |-> VwapPosture(fields),
   level_proximity_state |-> LevelProximity(fields, given, threshold),
   range_expansion_state |-> RangeExpansion(fields),
   volume_participation_state |-> VolumeParticipation(fields),
   delta_agreement_state |-> DeltaAgreement(fields),
   trigger_context_state |-> TriggerLevelState(fields, level)]
=============================================================================
