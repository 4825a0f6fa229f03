----------------------------- MODULE SessionRead -----------------------------
(***************************************************************************)
(* The compiler and the Watchman together: the session that the sources    *)
(* derive from the market as it trades (HistoricalSource), and what the    *)
(* Watchman reads in the packets made of it (MarketRead, MacroRead).  Both *)
(* only look at one packet; the properties here hold from the tape to the  *)
(* label, and from one packet of a session to the next.                    *)
(***************************************************************************)
EXTENDS HistoricalSource, MarketRead, MacroRead

CONSTANTS
  LEVEL_PROXIMITY_THRESHOLD_TICKS,  \* of each contract
  OperatorLevels,                   \* the levels the operator typed into the overlay
  TriggerLevels                     \* price-level triggers, in half ticks

ASSUME ReadAssumption ==
  /\ LEVEL_PROXIMITY_THRESHOLD_TICKS \in [Contracts -> Nat]
  /\ OperatorLevels \in
       [major_higher_timeframe_levels: SUBSET Int, key_hvns: SUBSET Int, key_lvns: SUBSET Int]
  /\ TriggerLevels \subseteq Int

\* The Watchman's reading of the packet compiled last.
Reading(fields, level) ==
  MarketRead(fields, OperatorLevels, LEVEL_PROXIMITY_THRESHOLD_TICKS[contract], level)

-----------------------------------------------------------------------------
(* Properties.                                                             *)

\* A session trade that came in after the bars, which the profile has and the bars do
\* not; 6E's profile ends with its bars.
Overtaken == contract # "6E" /\ \E i \in SessionTrades : i > 2 * Max(Current) + 1

Traded(side) ==
  \A i \in DOMAIN tape \cap Bounds(Today) : i <= now => tape[i].side = side

Evaluations == packet.fields.timestamp..Minute(now)

\* ES is aligned with a session that only bought and rose, or only sold and fell, when
\* the operator saw the same of breadth and cash.
ESReadingFits ==
  \A typed \in TypedES :
    LET fields == packet.fields
        aligned == MacroES(packet, typed).contract_specific_macro_state = "breadth_cash_delta_aligned"
    IN  /\ Traded("B") /\ fields.current_price > fields.session_open =>
             (aligned <=> "positive" \in typed.breadth /\ typed.index_cash_tone = "bullish")
        /\ Traded("A") /\ fields.current_price < fields.session_open =>
             (aligned <=> "negative" \in typed.breadth /\ typed.index_cash_tone = "bearish")
        /\ aligned => DeltaAgreement(fields) #
             (IF typed.index_cash_tone = "bullish" THEN "bearish_agreement" ELSE "bullish_agreement")

\* A Nasdaq that rose against ES is not fragile unless its megacaps fell, and one that
\* fell against it does not lead.
NQReadingFits ==
  \A typed \in TypedNQ :
    LET state == MacroNQ(packet, typed).contract_specific_macro_state
        falling == {n \in DOMAIN typed.megacap_leadership_table : typed.megacap_leadership_table[n] = "down"}
    IN  /\ state = "relative_strength_fragile" /\ falling = {} =>
             packet.relative_strength_vs_es.nq < packet.relative_strength_vs_es.es
        /\ state = "relative_strength_leader" =>
             packet.relative_strength_vs_es.nq > packet.relative_strength_vs_es.es

\* CL's compiler and the Watchman each measure the session's range against the average
\* one: the first calls it elevated when the second calls it expanded, and neither calls
\* compressed what the other calls wide.
CLReadingFits ==
  \A typed \in TypedCL :
    LET state == MacroCL(packet, typed).contract_specific_macro_state
        range == RangeExpansion(packet.fields)
    IN  /\ typed.eia_status = "not_today" => (state = "volatility_elevated" <=> range = "expanded")
        /\ packet.realized_volatility_context = "compressed" => range = "compressed"

\* A 6E price at the high of all that was traded since midnight is flagged above Asia, one
\* at the low below it, and one strictly within what Asia traded is not flagged.
SixEReadingFits ==
  \A typed \in TypedSixE, m \in Evaluations :
    LET price == packet.fields.current_price
        flags == MacroSixE(packet, typed, m % DayLength).awareness_flags
        day == {minute \in bars : Date(minute) = Today}
    IN  /\ price = High(day) => "above_asia_high" \in flags
        /\ price = Low(day) => "below_asia_low" \in flags
        /\ \A i, j \in In({minute \in day : minute % DayLength <= Segments.asia.end}) :
             tape[i].price < price /\ price < tape[j].price =>
               flags \cap {"above_asia_high", "below_asia_low"} = {}

\* A price at the top of its session is not read as below value or below VWAP, nor one
\* at the bottom as above them; a level the session has not come near to is not read as
\* reached; a session that only bought and rose agrees upwards, and one that only sold
\* and fell downwards.
PriceReadingFits ==
  ~Overtaken =>
    \A level \in TriggerLevels :
      LET fields == packet.fields
          read == Reading(fields, level)
          price == fields.current_price
      IN  /\ price = High(Current) =>
               read.value_location_state # "below_value" /\ read.vwap_posture_state # "price_below_vwap"
          /\ price = Low(Current) =>
               read.value_location_state # "above_value" /\ read.vwap_posture_state # "price_above_vwap"
          /\ level > 2 * High(Current) + 1 => read.trigger_context_state = "below_trigger_level"
          /\ level < 2 * Low(Current) - 1 => read.trigger_context_state = "above_trigger_level"
          /\ Traded("B") /\ price > fields.session_open =>
               read.delta_agreement_state = "bullish_agreement"
          /\ Traded("A") /\ price < fields.session_open =>
               read.delta_agreement_state = "bearish_agreement"

\* What the Watchman says of a packet fits what was traded: of its price, and of the
\* contract's own macro state.
ReadingFitsTape ==
  step = "compiled" =>
    /\ PriceReadingFits
    /\ contract = "ES" => ESReadingFits
    /\ contract = "NQ" => NQReadingFits
    /\ contract = "CL" => CLReadingFits
    /\ contract = "6E" => SixEReadingFits

\* The market so far has traded every day alike.
Repeats ==
  \A i \in DOMAIN tape :
    \A day \in 0..Today :
      LET j == 2 * DayLength * day + (i % (2 * DayLength))
      IN  j \in DOMAIN tape /\ tape[j] = tape[i]

\* On a market that trades every day alike, the day reads as an average one: its
\* volume at every moment the operator looks, since it is compared with the same
\* stretch of the prior sessions, and its range and value area when it is over.  Of
\* 6E that takes a range of seven ticks: the average is rounded to four places and the
\* range is not, and a day like every other of five ticks may read expanded.  A
\* price at one of the day's own value levels is then near yesterday's too.
AverageDayReadsAverage ==
  step = "compiled" /\ Repeats =>
    LET fields == packet.fields
        read == Reading(fields, 0)
    IN  /\ read.volume_participation_state = "normal"
        /\ fields.timestamp = At(Today, Window[contract].end) =>
             /\ contract # "6E" \/ fields.session_range > 6 => read.range_expansion_state = "normal"
             /\ fields.current_session = fields.previous_session
             /\ fields.current_price \in {fields.current_session.vah, fields.current_session.val,
                                          fields.current_session.poc} =>
                  read.level_proximity_state \notin
                    {"clear_of_structure", "near_major_htf_level", "near_key_hvn_lvn"}

\* compressed, normal and expanded, in the order of the ratio.
Expanded(fields) == [compressed |-> 0, normal |-> 1, expanded |-> 2][RangeExpansion(fields)]

\* From one packet of a session to the next, what lies behind is the same, time does not
\* run back and the range is not read as narrower; the initial balance only widens
\* while its hour lasts, and is final when the hour is over.
EarlierPacketsStand ==
  [][step = "compile" /\ packet # Null =>
       LET old == packet.fields  new == packet'.fields
       IN  /\ new.session_open = old.session_open
           /\ new.prior_day = old.prior_day
           /\ new.overnight = old.overnight
           /\ new.previous_session = old.previous_session
           /\ new.avg_20d_session_range = old.avg_20d_session_range
           /\ old.timestamp <= new.timestamp
           /\ Expanded(old) <= Expanded(new)
           /\ contract = "ES" =>
                LET before == packet.initial_balance  after == packet'.initial_balance
                IN  /\ packet'.weekly_open = packet.weekly_open
                    /\ after.low <= before.low /\ before.high <= after.high
                    /\ old.timestamp >= Min(Current) + BalanceMinutes - 1 => after = before
           /\ contract = "6E" =>
                /\ packet'.asia_high_low = packet.asia_high_low
                /\ packet'.london_high_low = packet.london_high_low
                /\ packet'.ny_high_low_so_far.low <= packet.ny_high_low_so_far.low
                /\ packet.ny_high_low_so_far.high <= packet'.ny_high_low_so_far.high]_packet
=============================================================================
