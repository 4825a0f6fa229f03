--------------------------- MODULE PacketCompiler ---------------------------
(***************************************************************************)
(* packet_compiler/cli.py and the six compilers es.py, cl.py, nq.py,       *)
(* sixe.py, zn.py and mgc.py: several runs of the compile command.  A run  *)
(* loads its inputs one after the other, compiles a packet and a record of *)
(* where every field of it came from, and writes the two files in place.   *)
(*                                                                         *)
(* A value is modelled by the input it was read from, so a packet is a set *)
(* of pairs <<field, input>> and its provenance a set of pairs             *)
(* <<field, source named>>.  A file is modelled by what has been written   *)
(* to it since it was last truncated.                                      *)
(***************************************************************************)
EXTENDS Naturals, Sequences

CONSTANTS
  Runs,      \* processes that run the compile command
  Options,   \* the command lines they may be given
  Files,     \* paths
  Default,   \* no --provenance-output
  WithSuffix,\* [Files -> Files]: the provenance path next to an output path
  Earlier    \* whoever wrote the files before

Contracts == {"ES", "CL", "NQ", "SixE", "ZN", "MGC"}

\* Fields of the manual overlay that may be left out.
AssistFields == {"attached_visuals", "major_higher_timeframe_levels", "key_hvns",
                 "key_lvns", "singles_excess_poor_high_low_notes",
                 "cross_market_context", "data_quality_flags"}

\* contract: --contract; databento: --historical-source databento; service: the
\* value that can come from a service does (ES cumulative delta, CL EIA timing,
\* ZN FRED yield); typed: assist fields the overlay gives; early: the EIA request's
\* session time precedes the scheduled release; same: the NQ comparison has the
\* timestamp of the historical input; the two paths.
OptionType ==
  [contract : Contracts, databento : BOOLEAN, service : BOOLEAN,
   typed : SUBSET AssistFields, early : BOOLEAN, same : BOOLEAN,
   output : Files, provenance_output : Files \cup {Default}]

Inputs == {"historical", "overlay", "calendar", "breadth", "index_cash_tone",
           "cumulative_delta", "relative_strength", "extension", "service",
           "default", "constant"}

ASSUME OptionsAssumption == Options \subseteq OptionType
ASSUME PathsAssumption == Default \notin Files /\ WithSuffix \in [Files -> Files]
ASSUME EarlierAssumption == Earlier \notin Runs

VARIABLES
  args,       \* [Runs -> Options]
  pc,         \* how far each run is
  todo,       \* inputs a run has still to load
  eia,        \* the status the EIA service gave a run
  published,  \* the EIA has published this week's figure
  packet,     \* compiled packet: <<field, input>>
  provenance, \* its field_provenance: <<field, source named>>
  files,      \* what lies in each file
  crossed     \* files in which the writes of two runs met

vars == <<args, pc, todo, eia, published, packet, provenance, files, crossed>>

-----------------------------------------------------------------------------
(* Loading. *)

\* The inputs of a run, in the order its branch of run_cli loads them.
Served(o) == IF o.service THEN <<"service">> ELSE <<>>

LoadsES == <<"historical", "overlay", "calendar", "breadth", "index_cash_tone",
             "cumulative_delta">>
LoadsCL(o) == <<"historical", "overlay", "extension">> \o Served(o)
LoadsNQ == <<"historical", "overlay", "relative_strength", "extension">>
LoadsSixE == <<"historical", "overlay", "extension">>
LoadsZN(o) == <<"historical", "overlay", "extension">> \o Served(o)
LoadsMGC == <<"historical", "overlay", "extension">>

Loads(o) == [ES |-> LoadsES, CL |-> LoadsCL(o), NQ |-> LoadsNQ, SixE |-> LoadsSixE,
             ZN |-> LoadsZN(o), MGC |-> LoadsMGC][o.contract]

Stopped == {"done", "refused", "unwritten", "cut"}

\* One of the inputs of a run is loaded and valid.
Load(r, inputs) ==
  /\ pc[r] = "loading" /\ todo[r] # <<>> /\ Head(todo[r]) \in inputs
  /\ todo' = [todo EXCEPT ![r] = Tail(@)]
  /\ UNCHANGED <<args, pc, published, packet, provenance, files, crossed>>

\* ZN is compiled from a file only.
LoadHistorical(r) ==
  /\ args[r].contract = "ZN" => ~args[r].databento
  /\ Load(r, {"historical"}) /\ UNCHANGED eia

LoadOverlay(r) == Load(r, {"overlay"}) /\ UNCHANGED eia
LoadComparison(r) == Load(r, {"relative_strength"}) /\ UNCHANGED eia
LoadUpstream(r) ==
  /\ Load(r, {"calendar", "breadth", "index_cash_tone", "cumulative_delta"})
  /\ UNCHANGED eia
LoadExtension(r) == Load(r, {"extension"}) /\ UNCHANGED eia

\* Mutant: the rows are counted only once the release is due.
StatusByClock(early, out) == IF early THEN "scheduled" ELSE
                             IF out THEN "released" ELSE "refused"

\* What the EIA answer and the request's own times make of the release.
EiaStatus(early, out) ==
  IF early /\ ~out THEN "scheduled" ELSE
  IF ~early /\ out THEN "released" ELSE "refused"

\* cash_10y_yield from FRED.
LoadYield(r) == args[r].contract = "ZN" /\ Load(r, {"service"}) /\ UNCHANGED eia

\* eia_timing from the EIA: the answer has to agree with the request's times.
LoadEiaTiming(r) ==
  LET status == EiaStatus(args[r].early, published)
  IN /\ args[r].contract = "CL" /\ status # "refused"
     /\ Load(r, {"service"})
     /\ eia' = [eia EXCEPT ![r] = status]

\* The EIA publishes while runs load.
Publish ==
  /\ ~published /\ published' = TRUE
  /\ UNCHANGED <<args, pc, todo, eia, packet, provenance, files, crossed>>

-----------------------------------------------------------------------------
(* Compiling: each compiler builds the packet and, apart from it, the      *)
(* record of where the fields come from.                                   *)

BarFields == {"timestamp", "current_price", "session_open", "prior_day_high",
              "prior_day_low", "prior_day_close", "overnight_high", "overnight_low",
              "vwap", "session_range"}
ProfileFields == {"current_session_vah", "current_session_val", "current_session_poc",
                  "previous_session_vah", "previous_session_val", "previous_session_poc"}
LookbackFields == {"avg_20d_session_range", "current_volume_vs_average"}
Measured == BarFields \cup ProfileFields \cup LookbackFields
Constants == {"contract_metadata", "contract", "session_type", "extension.contract"}

\* An overlay field has the typed value or the model's default.
OverlayFields(o) ==
  ({"challenge_state", "opening_type"} \cup o.typed) \X {"overlay"}
    \cup (AssistFields \ o.typed) \X {"default"}

\* What all six payloads have; five read the rest of the market from one input.
Payload(o) == Constants \X {"constant"} \cup OverlayFields(o)
                \cup Measured \X {"historical"}
WholeMarket(o) ==
  Payload(o) \cup {"cumulative_delta", "event_calendar_remainder"} \X {"historical"}

\* The extension's field the service's answer replaces, if it was asked.
Replaced(o, f) == {<<f, IF o.service THEN "service" ELSE "extension">>}

PacketES(o) ==
  Payload(o) \cup
  {<<"cumulative_delta", "cumulative_delta">>, <<"event_calendar_remainder", "calendar">>,
   <<"breadth", "breadth">>, <<"index_cash_tone", "index_cash_tone">>}
PacketCL(o) ==
  WholeMarket(o) \cup Replaced(o, "eia_timing") \cup
  {"oil_specific_headlines", "liquidity_sweep_summary", "dom_liquidity_summary"}
    \X {"extension"} \cup {<<"realized_volatility_context", "historical">>}
PacketNQ(o) ==
  WholeMarket(o) \cup {<<"relative_strength_vs_es", "historical">>,
    <<"relative_strength_vs_es", "relative_strength">>,
    <<"megacap_leadership_table", "extension">>}
PacketSixE(o) ==
  WholeMarket(o) \cup {"asia_high_low", "london_high_low", "ny_high_low_so_far"}
    \X {"historical"} \cup {"dxy_context", "europe_initiative_status"} \X {"extension"}
PacketZN(o) ==
  WholeMarket(o) \cup Replaced(o, "cash_10y_yield") \cup
  {"treasury_auction_schedule", "macro_release_context", "absorption_summary"}
    \X {"extension"}
PacketMGC(o) ==
  WholeMarket(o) \cup {"dxy_context", "yield_context",
    "swing_penetration_volume_summary", "macro_fear_catalyst_summary"} \X {"extension"}

\* Mutant: a field left out of the overlay is recorded as the operator's.
AllTyped(o) == (AssistFields \cup {"opening_type", "challenge_state"}) \X {"manual_overlay"}

\* _overlay_provenance, once in every compiler: a field is the overlay's when the
\* overlay gave it, whatever its value.
OverlayProvenance(o) ==
  {"challenge_state"} \X {"manual_overlay"} \cup
  {<<f, IF f \in o.typed \cup {"opening_type"} THEN "manual_overlay" ELSE "overlay_assist">> :
     f \in AssistFields \cup {"opening_type"}}

ConstantProvenance == Constants \X {"compiler_constant"}

WholeMarketProvenance(o) ==
  ConstantProvenance \cup OverlayProvenance(o) \cup
  (Measured \cup {"cumulative_delta", "event_calendar_remainder"}) \X {"historical_input"}

ProvenanceES(o) ==
  ConstantProvenance \cup OverlayProvenance(o) \cup
  BarFields \X {"historical_bars"} \cup ProfileFields \X {"historical_profile"} \cup
  LookbackFields \X {"historical_lookback"} \cup
  {<<"cumulative_delta", "upstream_cumulative_delta">>,
   <<"event_calendar_remainder", "upstream_calendar">>,
   <<"breadth", "upstream_breadth">>, <<"index_cash_tone", "upstream_index_cash_tone">>}
ProvenanceCL(o) ==
  WholeMarketProvenance(o) \cup
  {"eia_timing", "oil_specific_headlines", "liquidity_sweep_summary",
   "dom_liquidity_summary"} \X {"upstream_extension"} \cup
  {<<"realized_volatility_context", "historical_input">>}
ProvenanceNQ(o) ==
  WholeMarketProvenance(o) \cup {<<"relative_strength_vs_es", "comparative_input">>,
    <<"megacap_leadership_table", "upstream_extension">>}
ProvenanceSixE(o) ==
  WholeMarketProvenance(o) \cup
  {"asia_high_low", "london_high_low", "ny_high_low_so_far"}
    \X {"derived_from_historical_input"} \cup
  {"dxy_context", "europe_initiative_status"} \X {"upstream_extension"}
ProvenanceZN(o) ==
  WholeMarketProvenance(o) \cup
  {"cash_10y_yield", "treasury_auction_schedule", "macro_release_context",
   "absorption_summary"} \X {"upstream_extension"}
ProvenanceMGC(o) ==
  WholeMarketProvenance(o) \cup {"dxy_context", "yield_context",
    "swing_penetration_volume_summary", "macro_fear_catalyst_summary"}
    \X {"upstream_extension"}

Compile(r, fields, record) ==
  /\ pc[r] = "loading" /\ todo[r] = <<>>
  /\ pc' = [pc EXCEPT ![r] = "compiled"]
  /\ packet' = [packet EXCEPT ![r] = fields]
  /\ provenance' = [provenance EXCEPT ![r] = record]
  /\ UNCHANGED <<args, todo, eia, published, files, crossed>>

CompileES(r) == /\ args[r].contract = "ES"
                /\ Compile(r, PacketES(args[r]), ProvenanceES(args[r]))
CompileCL(r) == /\ args[r].contract = "CL"
                /\ Compile(r, PacketCL(args[r]), ProvenanceCL(args[r]))
CompileNQ(r) == /\ args[r].contract = "NQ" /\ args[r].same
                /\ Compile(r, PacketNQ(args[r]), ProvenanceNQ(args[r]))
CompileSixE(r) == /\ args[r].contract = "SixE"
                  /\ Compile(r, PacketSixE(args[r]), ProvenanceSixE(args[r]))
CompileZN(r) == /\ args[r].contract = "ZN"
                /\ Compile(r, PacketZN(args[r]), ProvenanceZN(args[r]))
CompileMGC(r) == /\ args[r].contract = "MGC"
                 /\ Compile(r, PacketMGC(args[r]), ProvenanceMGC(args[r]))

\* Mutant: the packet is validated once it is written.
RefuseWritten(r) ==
  /\ pc[r] \in {"loading", "packet"}
  /\ pc' = [pc EXCEPT ![r] = "refused"]
  /\ UNCHANGED <<args, todo, eia, published, packet, provenance, files, crossed>>

\* A load or the compilation raises an error the command reports: exit status 2.
Refuse(r) ==
  /\ pc[r] = "loading"
  /\ pc' = [pc EXCEPT ![r] = "refused"]
  /\ UNCHANGED <<args, todo, eia, published, packet, provenance, files, crossed>>

-----------------------------------------------------------------------------
(* write_compiled_packet: the packet, then the provenance, each opened for *)
(* writing (which empties it) and written in place.                        *)

ProvenancePath(o) ==
  IF o.provenance_output = Default THEN WithSuffix[o.output] ELSE o.provenance_output

PacketFile(r) == args[r].output
ProvenanceFile(r) == ProvenancePath(args[r])
Paths(r) == {PacketFile(r), ProvenanceFile(r)}
Writing == {"opened", "packet", "reopened"}

\* Files r shares with a run that is between its first open and its last write.
Meets(r) == UNION {Paths(r) \cap Paths(q) : q \in {p \in Runs \ {r} : pc[p] \in Writing}}

OpenPacket(r) ==
  /\ pc[r] = "compiled"
  /\ pc' = [pc EXCEPT ![r] = "opened"]
  /\ files' = [files EXCEPT ![PacketFile(r)] = {}]
  /\ crossed' = crossed \cup Meets(r)
  /\ UNCHANGED <<args, todo, eia, published, packet, provenance>>

\* Bytes of another run written since r opened the file stay behind its own when
\* they are more.
Write(r, f, part) ==
  \E rest \in {{}, files[f]} : files' = [files EXCEPT ![f] = rest \cup {<<r, part>>}]

WritePacket(r) ==
  /\ pc[r] = "opened"
  /\ pc' = [pc EXCEPT ![r] = "packet"]
  /\ Write(r, PacketFile(r), "packet")
  /\ UNCHANGED <<args, todo, eia, published, packet, provenance, crossed>>

\* A character the locale cannot encode is a ValueError: exit status 2, after the
\* file was emptied.
FailToEncode(r) ==
  /\ pc[r] = "opened"
  /\ pc' = [pc EXCEPT ![r] = "unwritten"]
  /\ UNCHANGED <<args, todo, eia, published, packet, provenance, files, crossed>>

\* Mutant: the provenance is opened for appending.
AppendProvenance(r) ==
  /\ pc[r] = "packet"
  /\ pc' = [pc EXCEPT ![r] = "reopened"]
  /\ UNCHANGED <<args, todo, eia, published, packet, provenance, files, crossed>>

OpenProvenance(r) ==
  /\ pc[r] = "packet"
  /\ pc' = [pc EXCEPT ![r] = "reopened"]
  /\ files' = [files EXCEPT ![ProvenanceFile(r)] = {}]
  /\ UNCHANGED <<args, todo, eia, published, packet, provenance, crossed>>

WriteProvenance(r) ==
  /\ pc[r] = "reopened"
  /\ pc' = [pc EXCEPT ![r] = "done"]
  /\ Write(r, ProvenanceFile(r), "provenance")
  /\ UNCHANGED <<args, todo, eia, published, packet, provenance, crossed>>

\* A signal, a crash, or an error run_cli does not catch (OSError, KeyError, the
\* providers' own) ends the run where it is.
Cut(r) ==
  /\ pc[r] \notin Stopped
  /\ pc' = [pc EXCEPT ![r] = "cut"]
  /\ UNCHANGED <<args, todo, eia, published, packet, provenance, files, crossed>>

-----------------------------------------------------------------------------
Init ==
  /\ args \in [Runs -> Options]
  /\ pc = [r \in Runs |-> "loading"]
  /\ todo = [r \in Runs |-> Loads(args[r])]
  /\ eia = [r \in Runs |-> "unasked"]
  /\ published \in BOOLEAN
  /\ packet = [r \in Runs |-> {}]
  /\ provenance = [r \in Runs |-> {}]
  /\ files = [f \in Files |-> {<<Earlier, "file">>}]
  /\ crossed = {}

Next ==
  \/ Publish
  \/ \E r \in Runs :
       \/ LoadHistorical(r) \/ LoadOverlay(r) \/ LoadUpstream(r) \/ LoadComparison(r)
       \/ LoadExtension(r) \/ LoadYield(r) \/ LoadEiaTiming(r) \/ Refuse(r)
       \/ CompileES(r) \/ CompileCL(r) \/ CompileNQ(r)
       \/ CompileSixE(r) \/ CompileZN(r) \/ CompileMGC(r)
       \/ OpenPacket(r) \/ WritePacket(r) \/ FailToEncode(r)
       \/ OpenProvenance(r) \/ WriteProvenance(r) \/ Cut(r)

Spec == Init /\ [][Next]_vars

-----------------------------------------------------------------------------
(* What a packet and its provenance are worth. *)

Sources == {"manual_overlay", "overlay_assist", "compiler_constant", "historical_input",
            "historical_bars", "historical_profile", "historical_lookback",
            "upstream_cumulative_delta", "upstream_calendar", "upstream_breadth",
            "upstream_index_cash_tone", "upstream_extension", "comparative_input",
            "derived_from_historical_input"}

\* The inputs a named source stands for.
Means ==
  [manual_overlay |-> {"overlay"}, overlay_assist |-> {"default"},
   compiler_constant |-> {"constant"}, historical_input |-> {"historical"},
   historical_bars |-> {"historical"}, historical_profile |-> {"historical"},
   historical_lookback |-> {"historical"},
   upstream_cumulative_delta |-> {"cumulative_delta"}, upstream_calendar |-> {"calendar"},
   upstream_breadth |-> {"breadth"}, upstream_index_cash_tone |-> {"index_cash_tone"},
   upstream_extension |-> {"extension"},
   comparative_input |-> {"historical", "relative_strength"},
   derived_from_historical_input |-> {"historical"}]

Fields == AssistFields \cup Measured \cup Constants \cup
  {"challenge_state", "opening_type", "cumulative_delta", "event_calendar_remainder",
   "breadth", "index_cash_tone", "eia_timing", "oil_specific_headlines",
   "liquidity_sweep_summary", "dom_liquidity_summary", "realized_volatility_context",
   "relative_strength_vs_es", "megacap_leadership_table", "asia_high_low",
   "london_high_low", "ny_high_low_so_far", "dxy_context", "europe_initiative_status",
   "cash_10y_yield", "treasury_auction_schedule", "macro_release_context",
   "absorption_summary", "yield_context", "swing_penetration_volume_summary",
   "macro_fear_catalyst_summary"}

Parts == Runs \X {"packet", "provenance"} \cup {<<Earlier, "file">>}

\* Every variable has its type.
TypeOK ==
  /\ args \in [Runs -> Options]
  /\ pc \in [Runs -> {"loading", "compiled"} \cup Writing \cup Stopped]
  /\ todo \in [Runs -> Seq(Inputs)]
  /\ eia \in [Runs -> {"unasked", "scheduled", "released"}]
  /\ published \in BOOLEAN
  /\ packet \in [Runs -> SUBSET (Fields \X Inputs)]
  /\ provenance \in [Runs -> SUBSET (Fields \X Sources)]
  /\ files \in [Files -> SUBSET Parts]
  /\ crossed \subseteq Files

\* The two tables of every compiler agree: each field of a packet has an entry, no
\* entry is for a field the packet lacks, and the entry names the input the value
\* came from.  The one exception, in either direction, is a value a service gave:
\* the entry of the replaced field still names the extension file.
ProvenanceTrue ==
  \A r \in Runs :
    /\ {p[1] : p \in packet[r]} = {c[1] : c \in provenance[r]}
    /\ \A p \in packet[r], c \in provenance[r] :
         p[1] = c[1] => (p[2] \in Means[c[2]] <=> p[2] # "service")

\* Other runs use none of r's paths, or exactly its pair of them.
Apart(r) ==
  \A q \in Runs \ {r} :
    \/ Paths(q) \cap Paths(r) = {}
    \/ PacketFile(q) = PacketFile(r) /\ ProvenanceFile(q) = ProvenanceFile(r)

\* A packet that lies whole in its file lies beside its own provenance once its run
\* has reported success: a packet with another run's provenance (or an earlier one)
\* takes a run stopped between its two writes, two runs writing at the same time,
\* or paths that overlap without being the same pair.
PairMatches ==
  \A r \in Runs :
    /\ pc[r] = "done" /\ Apart(r) /\ Paths(r) \cap crossed = {}
    /\ PacketFile(r) # ProvenanceFile(r)
    /\ files[PacketFile(r)] = {<<r, "packet">>}
    => files[ProvenanceFile(r)] = {<<r, "provenance">>}

\* A run that refuses its inputs has put nothing into any file, and what only it
\* names is as it was; one that cannot encode its packet has lost the packet file
\* but not touched the provenance.
FailedRunKeepsFiles ==
  \A r \in Runs :
    /\ pc[r] \in {"refused", "unwritten"} =>
         \A f \in Files, part \in {"packet", "provenance"} : <<r, part>> \notin files[f]
    /\ \A f \in Paths(r) :
         /\ pc[r] = "refused" \/ (pc[r] = "unwritten" /\ f # PacketFile(r))
         /\ \A q \in Runs \ {r} : f \notin Paths(q)
         => files[f] = {<<Earlier, "file">>}

\* The EIA answers never go back: once a run was told the figure is out, no run that
\* asks later is told it is still scheduled, whatever times its request names.
EiaNeverGoesBack ==
  [][(\E q \in Runs : eia[q] = "released") =>
       \A r \in Runs : eia'[r] = "scheduled" => eia[r] = "scheduled"]_vars
=============================================================================
