------------------------------ MODULE MacroRead ------------------------------
(***************************************************************************)
(* The Watchman's contract-specific macro state and the awareness flags    *)
(* that come with it (watchman._classify_contract_specific_macro_state),   *)
(* for the contracts whose state depends on the market as well as on what  *)
(* the operator typed.  A text is modelled by what the code looks for in   *)
(* it; "packet" is what the compiler derived, "typed" the operator's part. *)
(***************************************************************************)
EXTENDS Integers, FiniteSets

CONSTANTS Megacaps, LondonClose  \* "11:30", as a minute of the day

ASSUME MegacapAssumption == IsFiniteSet(Megacaps)

TypedES == [breadth: SUBSET {"positive", "negative"},
            index_cash_tone: {"bullish", "bearish", "choppy", "flat"}]

\* The table may be empty or None, which the code takes for the same; a value that is
\* not a word for up or down counts for neither.
TypedNQ == [megacap_leadership_table: UNION {[names -> {"up", "down", "other"}] : names \in SUBSET Megacaps},
            bond_yields_rise: BOOLEAN]

TypedCL == [eia_status: {"not_today", "scheduled", "released"}, liquidity_summary: BOOLEAN]

TypedSixE == [dxy_context: {"strengthening", "weakening", "range-bound"}, drove_higher: BOOLEAN]

Macro(state, flags) == [contract_specific_macro_state |-> state, awareness_flags |-> flags]

\* An unchanged price counts as up.
MacroES(packet, typed) ==
  LET fields == packet.fields
      up == fields.current_price >= fields.session_open
      aligned ==
        IF up THEN /\ "positive" \in typed.breadth /\ typed.index_cash_tone = "bullish"
                   /\ fields.cumulative_delta >= 0
        ELSE /\ "negative" \in typed.breadth /\ typed.index_cash_tone = "bearish"
             /\ fields.cumulative_delta <= 0
  IN  IF aligned THEN Macro("breadth_cash_delta_aligned", {})
      ELSE IF typed.index_cash_tone \in {"flat", "choppy"}
      THEN Macro("cash_tone_unsettled", {"cash_tone_unsettled"})
      ELSE Macro("breadth_cash_divergent", {"breadth_cash_divergent"})

\* At least 1.02 and at most 0.98, once it was rounded to four places.
Leads(strength) == 20000 * strength.nq >= 20399 * strength.es

Trails(strength) == 20000 * strength.nq <= 19601 * strength.es

MacroNQ(packet, typed) ==
  LET table == typed.megacap_leadership_table
      moved(way) == Cardinality({name \in DOMAIN table : table[name] = way})
      flags == {f \in {"megacap_leadership_unavailable"} : DOMAIN table = {}}
                 \cup {f \in {"yield_headwind"} : typed.bond_yields_rise}
  IN  IF Leads(packet.relative_strength_vs_es) /\ moved("up") >= moved("down")
      THEN Macro("relative_strength_leader", flags \cup {"nq_relative_strength_leader"})
      ELSE IF Trails(packet.relative_strength_vs_es) \/ moved("down") > moved("up")
      THEN Macro("relative_strength_fragile", flags \cup {"nq_relative_strength_fragile"})
      ELSE Macro("mixed_tech_tone", flags)

MacroCL(packet, typed) ==
  IF typed.eia_status \in {"scheduled", "released"}
  THEN Macro("eia_sensitive", {"eia_timing_active"})
  ELSE IF packet.realized_volatility_context = "elevated"
  THEN Macro("volatility_elevated", {"elevated_realized_volatility"})
  ELSE IF typed.liquidity_summary
  THEN Macro("liquidity_sensitive", {"liquidity_instability_monitor"})
  ELSE Macro("balanced_energy_tone", {})

\* Both ends of Asia's range are outside it.
AsiaFlags(packet) ==
  LET price == packet.fields.current_price
  IN  {f \in {"below_asia_low"} : price <= packet.asia_high_low.low}
        \cup {f \in {"above_asia_high"} : price >= packet.asia_high_low.high}

\* minute: the evaluation's own, of its own day.
MacroSixE(packet, typed, minute) ==
  LET flags == AsiaFlags(packet)
  IN  IF minute >= LondonClose
      THEN Macro("london_close_thinning", flags \cup {"london_close_thinning"})
      ELSE IF /\ typed.dxy_context = "weakening" /\ typed.drove_higher
              /\ packet.fields.current_price >= packet.asia_high_low.high
      THEN Macro("dxy_supported_europe_drive", flags)
      ELSE IF typed.dxy_context = "strengthening"
      THEN Macro("dxy_pressure", flags \cup {"dxy_strengthening"})
      ELSE Macro("balanced_fx_tone", flags)
=============================================================================
