--------------------------- MODULE HistoricalSource ---------------------------
(***************************************************************************)
(* Sourcing a contract's session from Databento (packet_compiler/          *)
(* sources.py) and deriving its market fields (sources.py; es.py for ES),  *)
(* while the market goes on trading.  One run asks for one-minute bars,    *)
(* then for trades, and ES a third time for its cumulative delta; the      *)
(* three answers are of three moments.  The operator runs it again and     *)
(* again through the session.                                              *)
(*                                                                         *)
(* A minute m has the instants 2*m, where its bar is stamped, and 2*m + 1. *)
(* Prices and sizes are whole; a quotient is kept as its two numbers.      *)
(***************************************************************************)
EXTENDS ProfileLevels

CONSTANTS
  Tapes,      \* what the market may trade: functions from instants to trades
  DayLength,  \* minutes in a day
  Window,     \* the session of each contract, minutes of the day
  Segments,   \* the Asia and London sessions of 6E
  Today,      \* current_session_date, as a number of days
  WeekStart,  \* the Monday of its week
  Lookback,   \* prior sessions needed, 20
  HalvesUp,   \* of each tape, whether floats round 6E's average up where two are as near
  Comparisons,\* what the operator's ES comparison may say, for NQ
  BalanceMinutes, BalanceSpan,  \* 60 and 30
  FirstInstant, LastInstant,    \* bounds of the exploration
  Compiles,                     \* and how often the operator runs it
  Null

Contracts == {"ES", "CL", "NQ", "6E", "MGC"}

Trade == [price: Int, size: Nat \ {0}, side: {"A", "B", "N"}]

ASSUME ComparisonAssumption ==
  Comparisons \subseteq [es_session_open: Nat \ {0}, es_current_price: Nat \ {0}]

ASSUME WindowAssumption ==
  /\ Window \in [Contracts -> [start: Nat, end: Nat]]
  /\ Window["NQ"] = Window["ES"]
  /\ \A c \in Contracts : Window[c].start <= Window[c].end /\ Window[c].end < DayLength
  /\ \A deals \in Tapes : DOMAIN deals \subseteq Nat /\ \A i \in DOMAIN deals : deals[i] \in Trade

ASSUME FloatAssumption == HalvesUp \in [Tapes -> BOOLEAN]

ASSUME CalendarAssumption ==
  /\ DayLength \in Nat \ {0}
  /\ Today \in Nat /\ WeekStart \in 0..Today
  /\ Lookback \in Nat \ {0}
  /\ FirstInstant \in Nat
  /\ BalanceMinutes \in Nat \ {0}

\* Asia begins with the day, and it and London are over before New York, 6E's own session.
ASSUME SegmentAssumption ==
  /\ Segments \in [{"asia", "london"} -> [start: Nat, end: Nat]] /\ Segments.asia.start = 0
  /\ \A segment \in DOMAIN Segments : Segments[segment].end < Window["6E"].start

VARIABLES
  tape,       \* what it does trade, known to nobody in advance
  contract,   \* --contract of the operator's runs
  now,
  step,       \* where the run is
  bars,       \* the minutes of the bars received
  trades,     \* the instants of the trades received
  delta,      \* the cumulative delta of ES
  input,      \* what the source hands to the compiler, Null before
  packet,     \* what the last compilation derived, Null before
  runs

vars == <<tape, contract, now, step, bars, trades, delta, input, packet, runs>>

-----------------------------------------------------------------------------
(* Bars and trades.  A bar is known by its minute; the provider has it     *)
(* once the minute is over.                                                *)

Minute(i) == i \div 2

Date(m) == m \div DayLength

At(day, minute) == day * DayLength + minute

QueryEnd == At(Today, Window[contract].end) + 1

BarsNow == {Minute(i) : i \in {j \in DOMAIN tape : Minute(j) < QueryEnd /\ 2 * Minute(j) + 2 <= now}}

TradesNow == {i \in DOMAIN tape : i <= now /\ Minute(i) < QueryEnd}

In(minutes) == DOMAIN tape \cap UNION {{2 * m, 2 * m + 1} : m \in minutes}

High(minutes) == Max({tape[i].price : i \in In(minutes)})

Low(minutes) == Min({tape[i].price : i \in In(minutes)})

OpenOf(minutes) == tape[Min(In(minutes))].price

CloseOf(minutes) == tape[Max(In(minutes))].price

Volume(minutes) == MapThenSumSet(LAMBDA i : tape[i].size, In(minutes))

\* _vwap, as value and volume; three times the typical price is whole.
TypicalValue(minutes) ==
  MapThenSumSet(LAMBDA m : (High({m}) + Low({m}) + CloseOf({m})) * Volume({m}), minutes)

-----------------------------------------------------------------------------
(* Sessions.                                                               *)

\* _is_session_bar and _is_utc_window_bar: both ends of a window included.
InWindow(window, day) == {m \in bars : Date(m) = day /\ m % DayLength \in window.start..window.end}

Session(day) == InWindow(Window[contract], day)

Current == Session(Today)

PriorDates == {day \in 0..(Today - 1) : Session(day) # {}}

LookbackDates ==
  LET dates == PriorDates
  IN  {day \in dates : Cardinality({d \in dates : d > day}) < Lookback}

Prior == Session(Max(PriorDates))

\* Mutant: overnight ends with the last bar seen.
OvernightToNow ==
  LET prior == Max(Prior)  last == Max(Current)
  IN  {m \in bars : prior < m /\ m < last}

Overnight ==
  LET prior == Max(Prior)  current == Min(Current)
  IN  {m \in bars : prior < m /\ m < current}

HasSessions == Current # {} /\ Cardinality(PriorDates) >= Lookback /\ Overnight # {}

\* Mutant: a prior session is cut before the minute that matches the last bar.
MatchedBefore(day) ==
  LET session == Session(day)
      cutoff == Min(session) + (Max(Current) - Min(Current))
  IN  {m \in session : m < cutoff}

\* The part of a prior session as long as what today's has shown so far.
MatchedWindow(day) ==
  LET session == Session(day)
      cutoff == Min(session) + (Max(Current) - Min(Current))
  IN  {m \in session : m <= cutoff}

MatchedVolume == MapThenSumSet(LAMBDA day : Volume(MatchedWindow(day)), LookbackDates)

SessionRange(minutes) == High(minutes) - Low(minutes)

RangeSum == MapThenSumSet(LAMBDA day : SessionRange(Session(day)), LookbackDates)

\* round(average, 4).  The tick of 6E is half of the fourth place, so its average becomes an
\* even number of ticks; an average of twenty of the other contracts' ranges has four places.
EvenTicks(sum, n, up) ==
  LET pairs == sum \div (2 * n)
      rest == sum % (2 * n)
  IN  2 * (IF rest > n \/ (rest = n /\ up) THEN pairs + 1 ELSE pairs)

AverageRange(deals, c, sum) ==
  IF c = "6E" THEN [sum |-> EvenTicks(sum, Lookback, HalvesUp[deals]), sessions |-> 1]
  ELSE [sum |-> sum, sessions |-> Lookback]

\* _rth_bounds and its siblings, as instants: the window up to its last minute.
Bounds(day) == (2 * At(day, Window[contract].start))..(2 * At(day, Window[contract].end))

\* Mutant: 6E is profiled like its siblings, over the whole window.
ObservedWindow == Bounds(Today)

\* 6E's current profile and delta end where its last bar begins.
Observed == (2 * Min(Current))..(2 * Max(Current))

Profile(instants) == Aggregate(tape, instants \cap trades)

\* Every trade of the session must name a side, and there must be one.
Sided(instants) == instants # {} /\ \A i \in instants : tape[i].side \in {"A", "B"}

SignedDelta(instants) ==
  MapThenSumSet(LAMBDA i : IF tape[i].side = "B" THEN tape[i].size ELSE -tape[i].size, instants)

-----------------------------------------------------------------------------
(* The market fields.                                                      *)

MarketFields(profile, previous, signed) ==
  [timestamp |-> Max(Current),
   current_price |-> CloseOf(Current),
   session_open |-> OpenOf(Current),
   prior_day |-> [high |-> High(Prior), low |-> Low(Prior), close |-> CloseOf(Prior)],
   overnight |-> [high |-> High(Overnight), low |-> Low(Overnight)],
   current_session |-> DeriveProfileLevels(profile),
   previous_session |-> DeriveProfileLevels(previous),
   vwap |-> [value |-> TypicalValue(Current), volume |-> 3 * Volume(Current)],
   session_range |-> SessionRange(Current),
   avg_20d_session_range |-> AverageRange(tape, contract, RangeSum),
   cumulative_delta |-> signed,
   current_volume_vs_average |-> [volume |-> Volume(Current) * Lookback, matched |-> MatchedVolume]]

LevelsOrdered(levels) == levels.vah >= levels.poc /\ levels.poc >= levels.val

\* validate_cl_market_fields and its copies for NQ, 6E and MGC.
MarketFieldsValid(fields) ==
  /\ fields.prior_day.high >= fields.prior_day.low
  /\ fields.overnight.high >= fields.overnight.low
  /\ LevelsOrdered(fields.current_session) /\ LevelsOrdered(fields.previous_session)
  /\ fields.session_range >= 0
  /\ fields.avg_20d_session_range.sum > 0
  /\ fields.current_volume_vs_average.volume > 0

\* The bars handed to the ES compiler, whose checks are validate_bar_sets.
ESInput ==
  [prior_rth_bars |-> Prior, overnight_bars |-> Overnight, current_rth_bars |-> Current,
   weekly_open_bar |-> Min({m \in bars : Date(m) \in WeekStart..Today /\ m \in Session(Date(m))}),
   prior_20_rth_sessions |->
     [day \in LookbackDates |-> [high |-> High(Session(day)), low |-> Low(Session(day))]],
   prior_20_rth_observed_volumes |-> [day \in LookbackDates |-> Volume(MatchedWindow(day))]]

BarSetsValid(given) ==
  LET current == {Date(m) : m \in given.current_rth_bars}
      prior == {Date(m) : m \in given.prior_rth_bars}
      sessions == given.prior_20_rth_sessions
      lookback == DOMAIN sessions
      start == Min(given.current_rth_bars)
      end == Max(given.prior_rth_bars)
  IN  /\ {} \notin {given.current_rth_bars, given.prior_rth_bars, given.overnight_bars}
      /\ Cardinality(current) = 1 /\ Cardinality(prior) = 1 /\ Max(prior) < Max(current)
      /\ Cardinality(lookback) = Lookback /\ Max(lookback) = Max(prior)
      /\ DOMAIN given.prior_20_rth_observed_volumes = lookback
      /\ given.weekly_open_bar <= start
      /\ \A m \in given.overnight_bars : end < m /\ m < start
      /\ sessions[Max(lookback)] = [high |-> High(given.prior_rth_bars), low |-> Low(given.prior_rth_bars)]

\* HistoricalSessionRangeInput and _validate_volume_profile: a flat session, or
\* one of fewer than three prices, has no ES packet.
MarketHasMoved(profiles) ==
  /\ \A day \in LookbackDates : SessionRange(Session(day)) > 0
  /\ \A levels \in profiles : Len(levels) >= 3

DayProfile(day) == Profile(Bounds(day))

LoadsES ==
  LET profiles == {DayProfile(Today), DayProfile(Max(PriorDates))}
  IN  HasSessions /\ MarketHasMoved(profiles) /\ BarSetsValid(ESInput)

\* The other contracts' sources derive the market fields themselves.
SourceFields(instants) ==
  MarketFields(Profile(instants), DayProfile(Max(PriorDates)), SignedDelta(instants))

LoadsFields(instants) ==
  /\ HasSessions
  /\ Profile(instants) # <<>> /\ DayProfile(Max(PriorDates)) # <<>>
  /\ Sided(instants)
  /\ MarketFieldsValid(SourceFields(instants))

SegmentsCovered == \A segment \in DOMAIN Segments : InWindow(Segments[segment], Today) # {}

-----------------------------------------------------------------------------
(* A run.                                                                  *)

Init ==
  /\ tape \in Tapes /\ contract \in Contracts
  /\ now = FirstInstant
  /\ step = "bars"
  /\ bars = {} /\ trades = {} /\ delta = 0
  /\ input = Null /\ packet = Null
  /\ runs = 0

\* Between its requests a run does not look at the market: time passes
\* before each of them.
Tick ==
  /\ step \in {"bars", "trades", "delta"}
  /\ now < LastInstant
  /\ now' = now + 1
  /\ UNCHANGED <<tape, contract, step, bars, trades, delta, input, packet, runs>>

GetBars ==
  /\ step = "bars"
  /\ bars' = BarsNow
  /\ step' = "trades"
  /\ UNCHANGED <<tape, contract, now, trades, delta, input, packet, runs>>

GetTrades ==
  /\ step = "trades"
  /\ trades' = TradesNow
  /\ step' = "source"
  /\ UNCHANGED <<tape, contract, now, bars, delta, input, packet, runs>>

Loaded(given, next) ==
  /\ step = "source"
  /\ input' = given
  /\ step' = next
  /\ UNCHANGED <<tape, contract, now, bars, trades, delta, packet, runs>>

Refused ==
  /\ step' = "refused"
  /\ UNCHANGED <<tape, contract, now, bars, trades, delta, input, packet, runs>>

\* load_es_input; its delta is asked for afterwards.
LoadES ==
  /\ contract = "ES" /\ step = "source"
  /\ IF LoadsES THEN Loaded(ESInput, "delta") ELSE Refused

\* load_cl_input, load_nq_input and load_mgc_input differ in their windows.
LoadFields(instants) ==
  IF LoadsFields(instants) THEN Loaded(SourceFields(instants), "compile") ELSE Refused

SessionTrades == Bounds(Today) \cap trades

LoadCL == contract = "CL" /\ step = "source" /\ LoadFields(SessionTrades)

LoadNQ == contract = "NQ" /\ step = "source" /\ LoadFields(SessionTrades)

LoadMGC == contract = "MGC" /\ step = "source" /\ LoadFields(SessionTrades)

\* load_six_e_input.
LoadSixE ==
  /\ contract = "6E" /\ step = "source"
  /\ \/ SegmentsCovered /\ Current # {} /\ LoadFields(Observed \cap trades)
     \/ ~(SegmentsCovered /\ Current # {}) /\ Refused

DeltaTrades == Bounds(Today) \cap TradesNow

\* load_es_cumulative_delta, from a third request.
GetDelta ==
  /\ step = "delta"
  /\ \/ /\ Sided(DeltaTrades)
        /\ delta' = SignedDelta(DeltaTrades)
        /\ step' = "compile"
        /\ UNCHANGED <<tape, contract, now, bars, trades, input, packet, runs>>
     \/ ~Sided(DeltaTrades) /\ Refused

\* Mutant: the hour is counted back from the last bar.
LastHour(minutes) == {m \in minutes : Max(minutes) - m < BalanceMinutes}

InitialBalanceBars(minutes) == {m \in minutes : m < Min(minutes) + BalanceMinutes}

InitialBalance(minutes) ==
  [high |-> High(InitialBalanceBars(minutes)), low |-> Low(InitialBalanceBars(minutes))]

\* Two bars at least, half the window apart at least.
BalanceObserved(minutes) ==
  LET balance == InitialBalanceBars(minutes)
  IN  Cardinality(balance) >= 2 /\ Max(balance) - Min(balance) >= BalanceSpan

\* compile_es_packet.
CompileES ==
  /\ contract = "ES" /\ step = "compile"
  /\ \/ /\ BalanceObserved(input.current_rth_bars)
        /\ packet' = [fields |-> MarketFields(DayProfile(Today), DayProfile(Max(PriorDates)), delta),
                      initial_balance |-> InitialBalance(input.current_rth_bars),
                      weekly_open |-> OpenOf({input.weekly_open_bar})]
        /\ step' = "compiled"
        /\ UNCHANGED <<tape, contract, now, bars, trades, delta, input, runs>>
     \/ ~BalanceObserved(input.current_rth_bars) /\ Refused

\* The other compilers take the source's fields as they are.
CompileFields(derived) ==
  /\ step = "compile"
  /\ packet' = derived
  /\ step' = "compiled"
  /\ UNCHANGED <<tape, contract, now, bars, trades, delta, input, runs>>

CompileMGC == contract = "MGC" /\ CompileFields([fields |-> input])

\* _derive_realized_volatility_context: at least 1.2 or at most 0.6 of the average.
RealizedVolatilityContext(fields) ==
  LET range == fields.session_range * fields.avg_20d_session_range.sessions
      average == fields.avg_20d_session_range.sum
  IN  IF 5 * range >= 6 * average THEN "elevated"
      ELSE IF 5 * range <= 3 * average THEN "compressed" ELSE "normal"

CompileCL ==
  /\ contract = "CL"
  /\ CompileFields([fields |-> input,
                    realized_volatility_context |-> RealizedVolatilityContext(input)])

\* _derive_relative_strength_vs_es, as its two numbers: price by open of NQ over the
\* same of ES, the latter positive.  A comparison of another moment is refused, and there
\* is none with an open of zero.
RelativeStrength(fields, es) ==
  LET open == fields.session_open
      price == fields.current_price
  IN  [nq |-> (IF open > 0 THEN price ELSE -price) * es.es_session_open,
       es |-> (IF open > 0 THEN open ELSE -open) * es.es_current_price]

CompileNQ ==
  /\ contract = "NQ" /\ step = "compile"
  /\ \/ /\ input.session_open # 0
        /\ \E es \in Comparisons :
             CompileFields([fields |-> input,
                            relative_strength_vs_es |-> RelativeStrength(input, es)])
     \/ Refused

\* _derive_session_range of the bars of a segment.
RangeOf(minutes) == [high |-> High(minutes), low |-> Low(minutes)]

CompileSixE ==
  /\ contract = "6E"
  /\ CompileFields([fields |-> input,
                    asia_high_low |-> RangeOf(InWindow(Segments.asia, Today)),
                    london_high_low |-> RangeOf(InWindow(Segments.london, Today)),
                    ny_high_low_so_far |-> RangeOf(Current)])

\* The operator compiles once more.
Again ==
  /\ step \in {"compiled", "refused"} /\ runs + 1 < Compiles
  /\ runs' = runs + 1
  /\ step' = "bars"
  /\ bars' = {} /\ trades' = {} /\ delta' = 0 /\ input' = Null
  /\ UNCHANGED <<tape, contract, now, packet>>

Load == LoadES \/ LoadCL \/ LoadNQ \/ LoadMGC \/ LoadSixE

Compile == CompileES \/ CompileCL \/ CompileNQ \/ CompileMGC \/ CompileSixE

Next == Tick \/ GetBars \/ GetTrades \/ Load \/ GetDelta \/ Compile \/ Again

Spec == Init /\ [][Next]_vars

-----------------------------------------------------------------------------
(* Properties.                                                             *)

\* The checks of the ES input are written for hand-made files, where anything
\* may be wrong.  Of what the source makes they refuse only what the market
\* has not done yet: session, overnight, lookback and weekly bars always fit
\* together, at every moment of the day and with every gap in the tape.
OnlyTheMarketIsRefused ==
  step = "source" /\ contract = "ES" /\ HasSessions => BarSetsValid(ESInput)

\* A packet's price, average price and profile lie inside the range its own
\* session bars have shown, unless a trade came in between the bars and the
\* trades; 6E, whose profile ends with its bars, excludes even that.
PacketCoheres ==
  step = "compiled" =>
    LET fields == packet.fields
        inside(x) == Low(Current) <= x /\ x <= High(Current)
        overtaken == \E i \in SessionTrades : i > 2 * Max(Current) + 1
    IN  /\ inside(fields.current_price) /\ inside(fields.session_open)
        /\ Low(Current) * fields.vwap.volume <= fields.vwap.value
        /\ fields.vwap.value <= High(Current) * fields.vwap.volume
        /\ \/ overtaken /\ contract # "6E"
           \/ inside(fields.current_session.vah) /\ inside(fields.current_session.val)
=============================================================================
