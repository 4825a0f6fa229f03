----------------------------- MODULE WatchDesk -----------------------------
(***************************************************************************)
(* The Watchman at work (execution_facade.sweep_watchman, readiness_       *)
(* adapter, runtime.run_readiness): while the clock runs, events fall due  *)
(* and the account trades, the operator renews the market packets and the  *)
(* account report of a bundle, each in its own time, and asks for contexts *)
(* - of the whole bundle, or of one contract through runtime inputs.       *)
(***************************************************************************)
EXTENDS Watchman

CONSTANTS
  Horizon,     \* the last minute of a run
  Skew,        \* how far a feed's timestamp may run ahead of the local clock
  Schedules,   \* the event calendars: contract to sequence of [tier, time], EIA last for CL
  Triggers,    \* the readiness triggers in use
  TradeBound,  \* trades in a run
  Features     \* the [visuals, absent, well_formed] a packet may have

ASSUME DeskAssumption ==
  /\ Horizon \in Nat /\ Skew \in Nat /\ TradeBound \in Nat
  /\ Schedules \subseteq [Contracts -> Seq([tier: {1, 2}, time: Nat])]
  /\ Triggers \subseteq Trigger
  /\ Features \subseteq [visuals: SUBSET Charts, absent: SUBSET Optional, well_formed: BOOLEAN]
  /\ Null \notin MarketPacket /\ Null \notin Nat
  /\ Null \notin [Contracts -> Nat \cup {Null}] /\ Null \notin {"ValueError", "TypeError"}

VARIABLES
  now,         \* wall-clock minute
  calendar,    \* the day's scheduled events
  account,     \* how the account really stands
  challenge,   \* bundle: shared.challenge_state
  packets,     \* bundle: contracts[c].market_packet, Null where there is none
  contexts,    \* the last contexts the operator was given
  fault        \* the exception of the last call

vars == <<now, calendar, account, challenge, packets, contexts, fault>>

HardFlag ==
  {"outside_allowed_hours", "stale_market_packet", "event_lockout_active", "cooldown_active",
   "daily_loss_stop_reached", "max_trades_reached", "contract_trade_limit_reached",
   "max_position_size_reached"}

AwarenessFlag ==
  {"session_winding_down", "visual_context_partial", "visual_context_insufficient",
   "event_risk_elevated", "open_positions_present"}

WatchmanReadinessContext ==
  [contract: Contracts, timestamp: Nat,
   event_risk_state: {"clear", "elevated", "lockout_active"},
   session_wind_down_state: {"normal", "winding_down", "closed"},
   stale: BOOLEAN,
   trigger_context_state: {"price_level", "scheduled_recheck_due", "scheduled_recheck_pending"},
   hard_lockout_flags: SUBSET HardFlag, awareness_flags: SUBSET AwarenessFlag,
   missing_inputs: SUBSET (Optional \cup {"last_stopout_time_by_contract"})]

TypeOK ==
  /\ now \in 0..Horizon
  /\ calendar \in Schedules
  /\ account \in ChallengeState /\ account.last_stopout_time_by_contract # Null
  /\ challenge \in ChallengeState
  /\ packets \in [Contracts -> MarketPacket \cup {Null}]
  /\ contexts \in [Contracts -> WatchmanReadinessContext \cup {Null}]
  /\ fault \in {Null, "ValueError", "TypeError"}

-----------------------------------------------------------------------------
Report(pnl, all, trades, size, stopout) ==
  [daily_realized_pnl |-> pnl, trades_today_all |-> all, trades_today_by_contract |-> trades,
   open_size |-> size, last_stopout_time_by_contract |-> stopout]

None == [c \in Contracts |-> 0]

Never == [c \in Contracts |-> Null]

Init ==
  /\ now = 0
  /\ calendar \in Schedules
  /\ account = Report(0, 0, None, None, Never)
  /\ challenge \in {account, Report(0, 0, None, None, Null)}
  /\ packets = [c \in Contracts |-> Null]
  /\ contexts = [c \in Contracts |-> Null]
  /\ fault = Null

Tick ==
  /\ now < Horizon
  /\ now' = now + 1
  /\ UNCHANGED <<calendar, account, challenge, packets, contexts, fault>>

-----------------------------------------------------------------------------
(* The account trades elsewhere; the operator writes the bundle.           *)

OpenPosition(c) ==
  /\ account.trades_today_all < TradeBound
  /\ account' = Report(account.daily_realized_pnl,
                       account.trades_today_all + 1,
                       [account.trades_today_by_contract EXCEPT ![c] = @ + 1],
                       [account.open_size EXCEPT ![c] = @ + 1],
                       account.last_stopout_time_by_contract)
  /\ UNCHANGED <<now, calendar, challenge, packets, contexts, fault>>

\* Mutant: a stop-out without a position.
StopOutUnguarded(c) ==
  /\ account.trades_today_all > 0
  /\ account' = Report(account.daily_realized_pnl - 1,
                       account.trades_today_all,
                       account.trades_today_by_contract,
                       [account.open_size EXCEPT ![c] = @ - 1],
                       [account.last_stopout_time_by_contract EXCEPT ![c] = now])
  /\ UNCHANGED <<now, calendar, challenge, packets, contexts, fault>>

StopOut(c) ==
  /\ account.open_size[c] > 0
  /\ account' = Report(account.daily_realized_pnl - 1,
                       account.trades_today_all,
                       account.trades_today_by_contract,
                       [account.open_size EXCEPT ![c] = @ - 1],
                       [account.last_stopout_time_by_contract EXCEPT ![c] = now])
  /\ UNCHANGED <<now, calendar, challenge, packets, contexts, fault>>

\* Closed at a profit, which is no stop-out.
TakeProfit(c) ==
  /\ account.open_size[c] > 0
  /\ account' = Report(account.daily_realized_pnl + 1,
                       account.trades_today_all,
                       account.trades_today_by_contract,
                       [account.open_size EXCEPT ![c] = @ - 1],
                       account.last_stopout_time_by_contract)
  /\ UNCHANGED <<now, calendar, challenge, packets, contexts, fault>>

RenewAccountReport ==
  /\ challenge # account
  /\ challenge' = account
  /\ UNCHANGED <<now, calendar, account, packets, contexts, fault>>

\* An event as the packet of time t lists it: whole minutes to or from the
\* scheduled time, as the EIA source counts them.
Listed(event, t) ==
  IF t < event.time
  THEN [tier |-> event.tier, event_state |-> "upcoming", minutes |-> event.time - t]
  ELSE [tier |-> event.tier, event_state |-> "released", minutes |-> t - event.time]

\* A packet lists the calendar from its k-th event on: the whole of it when the
\* operator writes it, EIA alone (the last) or nothing at all when a source
\* compiled it, for the sources of CL, NQ, 6E and MGC know no calendar.
PacketOf(c, t, f, k) ==
  [timestamp |-> t,
   events |-> [i \in 1..(Len(calendar[c]) + 1 - k) |-> Listed(calendar[c][k + i - 1], t)],
   visuals |-> f.visuals, absent |-> f.absent, well_formed |-> f.well_formed]

RenewPacket(c) ==
  \E t \in {now, now + Skew}, f \in Features, k \in 1..(Len(calendar[c]) + 1) :
    /\ packets' = [packets EXCEPT ![c] = PacketOf(c, t, f, k)]
    /\ UNCHANGED <<now, calendar, account, challenge, contexts, fault>>

-----------------------------------------------------------------------------
(* Asking the Watchman.                                                    *)

Bundled == {c \in Contracts : packets[c] # Null}

\* Packet-backed runtime inputs carry the packet's own timestamp
\* (build_readiness_runtime_inputs_from_packet).
PacketTime(c) == packets[c].timestamp

SweepRefused(trigger) ==
  \E c \in Bundled : Refusal(packets[c], trigger, PacketTime(c)) # Null

SweepWatchman(trigger) ==
  /\ Bundled # {}
  /\ ~SweepRefused(trigger)
  /\ contexts' = [c \in Contracts |->
       IF c \in Bundled THEN Context(c, packets[c], challenge, trigger, PacketTime(c)) ELSE Null]
  /\ fault' = Null
  /\ UNCHANGED <<now, calendar, account, challenge, packets>>

\* The first contract that is refused raises out of the sweep.
SweepFails(trigger) ==
  \E c \in Bundled :
    /\ Refusal(packets[c], trigger, PacketTime(c)) # Null
    /\ fault' = Refusal(packets[c], trigger, PacketTime(c))
    /\ UNCHANGED <<now, calendar, account, challenge, packets, contexts>>

\* Runtime inputs state the evaluation time themselves.
WatchContract(c, trigger) ==
  /\ c \in Bundled
  /\ Refusal(packets[c], trigger, now) = Null
  /\ contexts' = [contexts EXCEPT ![c] = Context(c, packets[c], challenge, trigger, now)]
  /\ fault' = Null
  /\ UNCHANGED <<now, calendar, account, challenge, packets>>

WatchContractFails(c, trigger) ==
  /\ c \in Bundled
  /\ Refusal(packets[c], trigger, now) # Null
  /\ fault' = Refusal(packets[c], trigger, now)
  /\ UNCHANGED <<now, calendar, account, challenge, packets, contexts>>

World == Tick \/ \E c \in Contracts : OpenPosition(c) \/ StopOut(c) \/ TakeProfit(c)

Operator == RenewAccountReport \/ \E c \in Contracts : RenewPacket(c)

Watch ==
  \E trigger \in Triggers :
    \/ SweepWatchman(trigger) \/ SweepFails(trigger)
    \/ \E c \in Contracts : WatchContract(c, trigger) \/ WatchContractFails(c, trigger)

Next == World \/ Operator \/ Watch

Spec == Init /\ [][Next]_vars

-----------------------------------------------------------------------------
(* Properties.                                                             *)

\* How far the real event was from the evaluation: outside its lockout
\* window, give or take the age a packet may have (_classify_event_risk reads
\* minutes that were counted when the packet was made).
ClearOfEvent(event, e) ==
  \/ event.tier # 1
  \/ event.time - e > Limits.event_lockout_minutes_before - StalenessThreshold
  \/ e - event.time > Limits.event_lockout_minutes_after

\* The events of the day that the contract's packet knows of: as many as it
\* lists, counted from the end of the calendar.
Known(c) == (Len(calendar[c]) - Len(packets[c].events) + 1)..Len(calendar[c])

NewlyClear(c) ==
  /\ contexts'[c] # contexts[c] /\ contexts'[c] # Null
  /\ contexts'[c].hard_lockout_flags = {}

\* A new context without lockout flags is of a contract whose market is open at
\* the evaluated minute and clear of every real event its packet knows of,
\* whatever the age and the clock of the packet.
ClearMeansOpen ==
  [][\A c \in Contracts : NewlyClear(c) =>
       /\ InsideAllowedHours(c, contexts'[c].timestamp)
       /\ \A i \in Known(c) : ClearOfEvent(calendar[c][i], contexts'[c].timestamp)]_vars

\* Every rule of challenge_state, held against the account itself.
WithinLimits(c, e) ==
  /\ account.daily_realized_pnl > -Limits.daily_loss_stop_dollars
  /\ account.trades_today_all < Limits.max_trades_per_day
  /\ account.trades_today_by_contract[c] < Limits.max_trades_per_contract_per_day
  /\ account.open_size[c] < Limits.max_position_size_by_contract[c]
  /\ account.last_stopout_time_by_contract[c] # Null =>
       e - account.last_stopout_time_by_contract[c] >= Limits.cooldown_after_stopout_minutes

\* A new context without lockout flags, made of an account report that is up to
\* date, is of a contract the account may still trade: its daily loss stop, the
\* trades of the day and of the contract, its open size and its cooldown.
ClearMeansWithinLimits ==
  [][\A c \in Contracts :
       NewlyClear(c) /\ challenge = account => WithinLimits(c, contexts'[c].timestamp)]_vars

\* Looking again later at the same bundle never unlocks a contract, except that
\* its hours begin or its cooldown ends: age and events only get worse.
OnlyTimeReleases ==
  \A c \in Bundled : \A e1, e2 \in packets[c].timestamp..Horizon :
    e1 <= e2 =>
      HardLockoutFlags(c, packets[c], challenge, e1)
        \subseteq HardLockoutFlags(c, packets[c], challenge, e2)
                    \cup {"outside_allowed_hours", "cooldown_active"}

\* The limit on the day's trades is of the account, not of a contract: once one
\* contract has been locked out for it, every context made afterwards, of
\* whatever contract and however late the account report, is locked out too.
TradeLimitIsShared ==
  [][\A c, d \in Contracts :
      (/\ contexts[d] # Null /\ "max_trades_reached" \in contexts[d].hard_lockout_flags
       /\ contexts'[c] # contexts[c] /\ contexts'[c] # Null)
      => "max_trades_reached" \in contexts'[c].hard_lockout_flags]_vars

-----------------------------------------------------------------------------
(* A claim the code does not keep.                                         *)

\* The lockout state and the lockout flag are two names of one fact.
LockoutStateAgrees ==
  \A c \in Contracts : contexts[c] # Null =>
    (contexts[c].event_risk_state = "lockout_active"
       <=> "event_lockout_active" \in contexts[c].hard_lockout_flags)
=============================================================================
