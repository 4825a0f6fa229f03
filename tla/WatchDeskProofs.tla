-------------------------- MODULE WatchDeskProofs --------------------------
(***************************************************************************)
(* Proofs about WatchDesk: its types, and what a context without lockout   *)
(* flags means, for every calendar, limit and pair of thresholds, and for  *)
(* packets that list all, some or none of the calendar.                    *)
(***************************************************************************)
EXTENDS WatchDesk, TLAPS

\* A packet lists the last of the scheduled events, all of them or fewer, as of
\* its timestamp.
ListsTail(packet, schedule) ==
  \E k \in 1..(Len(schedule) + 1) :
    packet.events = [i \in 1..(Len(schedule) + 1 - k) |->
                       Listed(schedule[k + i - 1], packet.timestamp)]

ListsCalendar ==
  \A c \in Contracts : packets[c] # Null =>
    packets[c] \in MarketPacket /\ ListsTail(packets[c], calendar[c])

IInv == TypeOK /\ ListsCalendar

-----------------------------------------------------------------------------
(* Types.                                                                  *)

\* An event in a packet is well typed at any time.
LEMMA ListedType ==
  ASSUME NEW event \in [tier: {1, 2}, time: Nat], NEW t \in Nat
  PROVE  Listed(event, t) \in Event
BY DEF Listed, Event

\* Every context the Watchman builds is well typed.
LEMMA ContextType ==
  ASSUME NEW c \in Contracts, NEW packet \in MarketPacket, NEW report \in ChallengeState,
         NEW trigger \in Trigger, NEW e \in Nat
  PROVE  Context(c, packet, report, trigger, e) \in WatchmanReadinessContext
<1> USE DeskAssumption, TimeAssumption, LimitsAssumption
<1>1. packet.events \in Seq(Event) /\ packet.absent \subseteq Optional
  BY DEF MarketPacket
<1>2. \A i \in 1..Len(packet.events) :
        EventRisk(packet.events[i]) \in {"clear", "elevated", "lockout_active"}
  BY DEF EventRisk
<1>3. EventRiskState(packet) \in {"clear", "elevated", "lockout_active"}
  <2> DEFINE risky == {i \in 1..Len(packet.events) : EventRisk(packet.events[i]) # "clear"}
             last == CHOOSE i \in risky : \A j \in risky : j <= i
  <2>1. CASE risky = {}
    BY <2>1 DEF EventRiskState
  <2>2. CASE risky # {}
    <3>1. EventRiskState(packet) = EventRisk(packet.events[last])
      BY <2>2 DEF EventRiskState
    <3>2. EventRisk(packet.events[last]) \in {"clear", "elevated", "lockout_active"}
      BY DEF EventRisk
    <3> QED BY <3>1, <3>2
  <2> QED BY <2>1, <2>2
<1>4. SessionWindDownState(c, e) \in {"normal", "winding_down", "closed"}
  BY DEF SessionWindDownState
<1>5. Stale(packet, e) \in BOOLEAN
  BY DEF Stale
<1>6. TriggerContextState(trigger, e)
        \in {"price_level", "scheduled_recheck_due", "scheduled_recheck_pending"}
  BY DEF TriggerContextState
<1>7. HardLockoutFlags(c, packet, report, e) \subseteq HardFlag
  BY DEF HardLockoutFlags, HardFlag, Breach
<1>8. AwarenessFlags(c, packet, report, e) \subseteq AwarenessFlag
  BY DEF AwarenessFlags, AwarenessFlag
<1>9. MissingInputs(packet, report) \subseteq (Optional \cup {"last_stopout_time_by_contract"})
  BY <1>1 DEF MissingInputs
<1> QED
  BY <1>3, <1>4, <1>5, <1>6, <1>7, <1>8, <1>9 DEF Context, WatchmanReadinessContext

-----------------------------------------------------------------------------
(* Facts about what the Watchman leaves out of the flags.                  *)

\* A context without lockout flags is inside its hours, fresh, without an event
\* in its window, out of its cooldown and within the limits.
LEMMA NoFlags ==
  ASSUME NEW c, NEW packet, NEW report, NEW e,
         HardLockoutFlags(c, packet, report, e) = {}
  PROVE  /\ InsideAllowedHours(c, e)
         /\ ~Stale(packet, e)
         /\ ~SomeEvent(packet, "lockout_active")
         /\ ~CoolingDown(report, c, e)
         /\ ~(report.daily_realized_pnl <= -Limits.daily_loss_stop_dollars)
         /\ ~(report.trades_today_all >= Limits.max_trades_per_day)
         /\ ~(report.trades_today_by_contract[c] >= Limits.max_trades_per_contract_per_day)
         /\ ~(report.open_size[c] >= Limits.max_position_size_by_contract[c])
<1>1. \A f \in DOMAIN Breach(report, c) : ~Breach(report, c)[f]
  BY DEF HardLockoutFlags
<1>2. /\ ~Breach(report, c).daily_loss_stop_reached
      /\ ~Breach(report, c).max_trades_reached
      /\ ~Breach(report, c).contract_trade_limit_reached
      /\ ~Breach(report, c).max_position_size_reached
  BY <1>1 DEF Breach
<1>3. /\ {f \in {"outside_allowed_hours"} : ~InsideAllowedHours(c, e)} = {}
      /\ {f \in {"stale_market_packet"} : Stale(packet, e)} = {}
      /\ {f \in {"event_lockout_active"} : SomeEvent(packet, "lockout_active")} = {}
      /\ {f \in {"cooldown_active"} : CoolingDown(report, c, e)} = {}
  BY DEF HardLockoutFlags
<1> QED
  BY <1>2, <1>3 DEF Breach

\* An event that a fresh packet lists outside its window is, at the evaluation,
\* no nearer to its window than the packet is old.
LEMMA FreshAndClear ==
  ASSUME NEW event \in [tier: {1, 2}, time: Nat], NEW t \in Nat, NEW e \in Nat,
         t <= e, e - t <= StalenessThreshold,
         EventRisk(Listed(event, t)) # "lockout_active"
  PROVE  ClearOfEvent(event, e)
<1> USE TimeAssumption, LimitsAssumption
<1>1. CASE event.tier # 1
  BY <1>1 DEF ClearOfEvent
<1>2. CASE event.tier = 1 /\ t < event.time
  <2>1. event.time - t > Limits.event_lockout_minutes_before
    BY <1>2 DEF EventRisk, Listed, LockoutMinutes
  <2> QED
    BY <2>1 DEF ClearOfEvent
<1>3. CASE event.tier = 1 /\ ~(t < event.time)
  <2>1. t - event.time > Limits.event_lockout_minutes_after
    BY <1>3 DEF EventRisk, Listed, LockoutMinutes
  <2> QED
    BY <2>1 DEF ClearOfEvent
<1> QED BY <1>1, <1>2, <1>3

-----------------------------------------------------------------------------
(* The inductive invariant.                                                *)

LEMMA InitInv == Init => IInv
<1> SUFFICES ASSUME Init PROVE IInv
  OBVIOUS
<1> USE DeskAssumption
<1>1. Report(0, 0, None, None, Never) \in ChallengeState
  BY DEF Report, None, Never, ChallengeState
<1>2. Report(0, 0, None, None, Null) \in ChallengeState
  BY DEF Report, None, ChallengeState
<1>3. TypeOK
  <2>1. Never \in [Contracts -> Nat \cup {Null}] /\ Never # Null
    BY DEF Never
  <2>2. account.last_stopout_time_by_contract # Null
    BY <2>1 DEF Init, Report
  <2>3. /\ now \in 0..Horizon /\ calendar \in Schedules
        /\ account \in ChallengeState /\ challenge \in ChallengeState
        /\ fault \in {Null, "ValueError", "TypeError"}
    BY <1>1, <1>2 DEF Init
  <2>4. /\ packets \in [Contracts -> MarketPacket \cup {Null}]
        /\ contexts \in [Contracts -> WatchmanReadinessContext \cup {Null}]
    BY DEF Init
  <2> QED BY <2>2, <2>3, <2>4 DEF TypeOK
<1>4. ListsCalendar
  BY DEF Init, ListsCalendar
<1> QED BY <1>3, <1>4 DEF IInv

\* The account stays well typed as it trades.
LEMMA AccountStep ==
  ASSUME TypeOK, NEW c \in Contracts, OpenPosition(c) \/ StopOut(c) \/ TakeProfit(c)
  PROVE  account' \in ChallengeState /\ account'.last_stopout_time_by_contract # Null
<1> USE DeskAssumption
<1> DEFINE stopouts == account.last_stopout_time_by_contract
<1>1. /\ account.daily_realized_pnl \in Int /\ account.trades_today_all \in Nat
      /\ account.trades_today_by_contract \in [Contracts -> Nat]
      /\ account.open_size \in [Contracts -> Nat]
      /\ stopouts \in [Contracts -> Nat \cup {Null}]
      /\ now \in Nat
  BY DEF TypeOK, ChallengeState
<1>2. CASE OpenPosition(c)
  <2>1. [account.trades_today_by_contract EXCEPT ![c] = @ + 1] \in [Contracts -> Nat]
    BY <1>1
  <2>2. [account.open_size EXCEPT ![c] = @ + 1] \in [Contracts -> Nat]
    BY <1>1
  <2> QED BY <1>1, <1>2, <2>1, <2>2 DEF OpenPosition, Report, ChallengeState
<1>3. CASE StopOut(c)
  <2>1. [account.open_size EXCEPT ![c] = @ - 1] \in [Contracts -> Nat]
    <3>1. account.open_size[c] - 1 \in Nat
      BY <1>1, <1>3 DEF StopOut
    <3> QED BY <1>1, <3>1
  <2>2. [stopouts EXCEPT ![c] = now] \in [Contracts -> Nat \cup {Null}]
    BY <1>1
  <2>3. [stopouts EXCEPT ![c] = now] # Null
    BY <2>2
  <2>4. account.daily_realized_pnl - 1 \in Int
    BY <1>1
  <2> QED BY <1>1, <1>3, <2>1, <2>2, <2>3, <2>4 DEF StopOut, Report, ChallengeState
<1>4. CASE TakeProfit(c)
  <2>1. [account.open_size EXCEPT ![c] = @ - 1] \in [Contracts -> Nat]
    <3>1. account.open_size[c] - 1 \in Nat
      BY <1>1, <1>4 DEF TakeProfit
    <3> QED BY <1>1, <3>1
  <2>2. account.daily_realized_pnl + 1 \in Int
    BY <1>1
  <2>3. stopouts # Null
    BY DEF TypeOK
  <2> QED BY <1>1, <1>4, <2>1, <2>2, <2>3 DEF TakeProfit, Report, ChallengeState
<1> QED BY <1>2, <1>3, <1>4

\* An entry of a sequence is in the set the sequence is over.
LEMMA EntryType ==
  ASSUME NEW S, NEW s \in Seq(S), NEW i \in 1..Len(s)
  PROVE  s[i] \in S
OBVIOUS

\* A packet made of the calendar is well typed.
LEMMA PacketType ==
  ASSUME TypeOK, NEW c \in Contracts, NEW t \in Nat, NEW f \in Features,
         NEW k \in 1..(Len(calendar[c]) + 1)
  PROVE  PacketOf(c, t, f, k) \in MarketPacket
<1> USE DeskAssumption
<1>1. calendar[c] \in Seq([tier: {1, 2}, time: Nat])
  BY DEF TypeOK
<1>2. ASSUME NEW i \in 1..(Len(calendar[c]) + 1 - k)
      PROVE  Listed(calendar[c][k + i - 1], t) \in Event
  <2>1. Len(calendar[c]) \in Nat
    BY <1>1
  <2>2. k + i - 1 \in 1..Len(calendar[c])
    BY <2>1
  <2>3. calendar[c][k + i - 1] \in [tier: {1, 2}, time: Nat]
    BY <1>1, <2>2, EntryType
  <2> QED BY <2>3, ListedType
<1>3. [i \in 1..(Len(calendar[c]) + 1 - k) |-> Listed(calendar[c][k + i - 1], t)] \in Seq(Event)
  <2>1. Len(calendar[c]) + 1 - k \in Nat
    BY <1>1
  <2> QED BY <1>2, <2>1
<1> QED BY <1>3 DEF PacketOf, MarketPacket

\* A renewed packet is well typed and lists the calendar as of its timestamp.
LEMMA RenewPacketStep ==
  ASSUME IInv, NEW c \in Contracts, RenewPacket(c)
  PROVE  IInv'
<1> USE DeskAssumption
<1>1. PICK t \in {now, now + Skew}, f \in Features, k \in 1..(Len(calendar[c]) + 1) :
        packets' = [packets EXCEPT ![c] = PacketOf(c, t, f, k)]
  BY DEF RenewPacket
<1>2. PacketOf(c, t, f, k) \in MarketPacket
  <2>1. t \in Nat
    BY DEF IInv, TypeOK
  <2> QED BY <2>1, PacketType DEF IInv
<1>3. packets \in [Contracts -> MarketPacket \cup {Null}]
  BY DEF IInv, TypeOK
<1>4. packets' \in [Contracts -> MarketPacket \cup {Null}]
  BY <1>1, <1>2, <1>3
<1>5. TypeOK'
  BY <1>4 DEF IInv, TypeOK, RenewPacket
<1>6. calendar' = calendar
  BY DEF RenewPacket
<1>7. ASSUME NEW d \in Contracts, packets'[d] # Null
      PROVE  /\ packets'[d] \in MarketPacket
             /\ ListsTail(packets'[d], calendar[d])
  <2>1. CASE d = c
    <3>1. packets'[d] = PacketOf(c, t, f, k)
      BY <2>1, <1>1, <1>3
    <3>2. packets'[d].timestamp = t
      BY <3>1 DEF PacketOf
    <3>3. packets'[d].events = [i \in 1..(Len(calendar[c]) + 1 - k) |->
                                  Listed(calendar[c][k + i - 1], t)]
      BY <3>1 DEF PacketOf
    <3>4. ListsTail(packets'[d], calendar[d])
      BY <2>1, <3>2, <3>3 DEF ListsTail
    <3> QED BY <1>2, <3>1, <3>4
  <2>2. CASE d # c
    <3>1. packets'[d] = packets[d]
      BY <2>2, <1>1, <1>3
    <3> QED BY <1>7, <3>1 DEF IInv, ListsCalendar
  <2> QED BY <2>1, <2>2
<1>8. ListsCalendar'
  BY <1>6, <1>7 DEF ListsCalendar
<1> QED BY <1>5, <1>8 DEF IInv

\* The context of a bundled contract is well typed.
LEMMA WatchedType ==
  ASSUME IInv, NEW c \in Bundled, NEW trigger \in Triggers, NEW e \in Nat
  PROVE  Context(c, packets[c], challenge, trigger, e) \in WatchmanReadinessContext
<1>1. packets[c] \in MarketPacket /\ c \in Contracts
  BY DEF IInv, ListsCalendar, Bundled
<1>2. challenge \in ChallengeState /\ trigger \in Trigger
  BY DeskAssumption DEF IInv, TypeOK
<1> QED BY <1>1, <1>2, ContextType

LEMMA RefusalType ==
  ASSUME NEW packet, NEW trigger, NEW e
  PROVE  Refusal(packet, trigger, e) \in {Null, "ValueError", "TypeError"}
BY DEF Refusal

LEMMA WatchStep ==
  ASSUME IInv, NEW trigger \in Triggers, NEW c \in Contracts,
         \/ SweepWatchman(trigger) \/ SweepFails(trigger)
         \/ WatchContract(c, trigger) \/ WatchContractFails(c, trigger)
  PROVE  IInv'
<1>1. UNCHANGED <<now, calendar, account, challenge, packets>>
  BY DEF SweepWatchman, SweepFails, WatchContract, WatchContractFails
<1>2. ListsCalendar'
  BY <1>1 DEF IInv, ListsCalendar
<1>3. fault' \in {Null, "ValueError", "TypeError"}
  BY RefusalType DEF SweepWatchman, SweepFails, WatchContract, WatchContractFails
<1>4. contexts' \in [Contracts -> WatchmanReadinessContext \cup {Null}]
  <2>1. CASE SweepWatchman(trigger)
    <3>1. \A d \in Bundled : PacketTime(d) \in Nat
      BY DEF IInv, ListsCalendar, Bundled, PacketTime, MarketPacket
    <3>2. \A d \in Bundled : Context(d, packets[d], challenge, trigger, PacketTime(d))
                               \in WatchmanReadinessContext
      BY <3>1, WatchedType
    <3> QED BY <2>1, <3>2 DEF SweepWatchman
  <2>2. CASE SweepFails(trigger) \/ WatchContractFails(c, trigger)
    BY <2>2 DEF SweepFails, WatchContractFails, IInv, TypeOK
  <2>3. CASE WatchContract(c, trigger)
    <3>1. now \in Nat /\ c \in Bundled
      BY <2>3, DeskAssumption DEF IInv, TypeOK, WatchContract
    <3>2. Context(c, packets[c], challenge, trigger, now) \in WatchmanReadinessContext
      BY <3>1, WatchedType
    <3> QED BY <2>3, <3>2 DEF WatchContract, IInv, TypeOK
  <2> QED BY <2>1, <2>2, <2>3
<1>5. TypeOK'
  BY <1>1, <1>3, <1>4 DEF IInv, TypeOK
<1> QED BY <1>2, <1>5 DEF IInv

LEMMA NextInv == IInv /\ [Next]_vars => IInv'
<1> SUFFICES ASSUME IInv, [Next]_vars PROVE IInv'
  OBVIOUS
<1> USE DeskAssumption
<1>1. CASE Tick
  <2>1. now' \in 0..Horizon
    BY <1>1 DEF Tick, IInv, TypeOK
  <2>2. TypeOK'
    BY <1>1, <2>1 DEF Tick, IInv, TypeOK
  <2>3. ListsCalendar'
    BY <1>1 DEF Tick, IInv, ListsCalendar
  <2> QED BY <2>2, <2>3 DEF IInv
<1>2. ASSUME NEW c \in Contracts, OpenPosition(c) \/ StopOut(c) \/ TakeProfit(c)
      PROVE  IInv'
  <2>1. UNCHANGED <<now, calendar, challenge, packets, contexts, fault>>
    BY <1>2 DEF OpenPosition, StopOut, TakeProfit
  <2>2. account' \in ChallengeState /\ account'.last_stopout_time_by_contract # Null
    BY <1>2, AccountStep DEF IInv
  <2> QED BY <2>1, <2>2 DEF IInv, TypeOK, ListsCalendar
<1>3. CASE RenewAccountReport
  BY <1>3 DEF RenewAccountReport, IInv, TypeOK, ListsCalendar
<1>4. ASSUME NEW c \in Contracts, RenewPacket(c)
      PROVE  IInv'
  BY <1>4, RenewPacketStep
<1>5. CASE Watch
  <2>1. PICK trigger \in Triggers :
          \/ SweepWatchman(trigger) \/ SweepFails(trigger)
          \/ \E c \in Contracts : WatchContract(c, trigger) \/ WatchContractFails(c, trigger)
    BY <1>5 DEF Watch
  <2>2. \E c \in Contracts : TRUE
    BY <2>1 DEF SweepWatchman, SweepFails, Bundled
  <2> QED BY <2>1, <2>2, WatchStep
<1>6. CASE UNCHANGED vars
  BY <1>6 DEF vars, IInv, TypeOK, ListsCalendar
<1> QED BY <1>1, <1>2, <1>3, <1>4, <1>5, <1>6 DEF Next, World, Operator

LEMMA Invariance == Spec => []IInv
<1> QED BY InitInv, NextInv, PTL DEF Spec

\* Every reachable state of the desk is well typed.
THEOREM TypeCorrect == Spec => []TypeOK
<1>1. IInv => TypeOK
  BY DEF IInv
<1> QED BY <1>1, Invariance, PTL

-----------------------------------------------------------------------------
(* The safety of the Watchman.                                             *)

\* Time only ever adds lockouts, but for the opening of the hours and the end
\* of a cooldown, in every reachable state.
THEOREM LockoutsOnlyGrow == Spec => []OnlyTimeReleases
<1>1. IInv => OnlyTimeReleases
  <2> SUFFICES ASSUME IInv, NEW c \in Bundled,
                      NEW e1 \in packets[c].timestamp..Horizon,
                      NEW e2 \in packets[c].timestamp..Horizon,
                      e1 <= e2
               PROVE  HardLockoutFlags(c, packets[c], challenge, e1)
                        \subseteq HardLockoutFlags(c, packets[c], challenge, e2)
                                    \cup {"outside_allowed_hours", "cooldown_active"}
    BY DEF OnlyTimeReleases
  <2>1. packets[c].timestamp \in Nat
    BY DEF IInv, ListsCalendar, Bundled, MarketPacket
  <2>2. Stale(packets[c], e1) => Stale(packets[c], e2)
    BY <2>1, TimeAssumption, DeskAssumption DEF Stale
  <2> QED BY <2>2 DEF HardLockoutFlags
<1> QED BY <1>1, Invariance, PTL

\* What a listed packet evaluated at time e says of the market when no flag is
\* raised.
LEMMA OpenWhenClear ==
  ASSUME IInv, NEW c \in Bundled, NEW trigger \in Triggers, NEW e \in Nat,
         Refusal(packets[c], trigger, e) = Null,
         HardLockoutFlags(c, packets[c], challenge, e) = {}
  PROVE  /\ InsideAllowedHours(c, e)
         /\ \A i \in Known(c) : ClearOfEvent(calendar[c][i], e)
<1> USE DeskAssumption, TimeAssumption
<1> DEFINE packet == packets[c]
           t == packet.timestamp
<1>1. c \in Contracts /\ packet \in MarketPacket
  BY DEF IInv, ListsCalendar, Bundled
<1>2. PICK k \in 1..(Len(calendar[c]) + 1) :
        packet.events = [i \in 1..(Len(calendar[c]) + 1 - k) |->
                           Listed(calendar[c][k + i - 1], t)]
  BY DEF IInv, ListsCalendar, Bundled, ListsTail
<1>3. /\ InsideAllowedHours(c, e)
      /\ ~Stale(packet, e)
      /\ ~SomeEvent(packet, "lockout_active")
  <2>1. HardLockoutFlags(c, packet, challenge, e) = {}
    OBVIOUS
  <2> HIDE DEF packet
  <2> QED BY <2>1, NoFlags
<1>4. t \in Nat /\ t <= e /\ e - t <= StalenessThreshold
  <2>1. t \in Nat
    BY <1>1 DEF MarketPacket
  <2>2. t <= e
    BY <2>1 DEF Refusal
  <2>3. ~(e - t > StalenessThreshold)
    BY <1>3 DEF Stale
  <2> HIDE DEF t
  <2> QED BY <2>1, <2>2, <2>3
<1>5. calendar[c] \in Seq([tier: {1, 2}, time: Nat])
  BY <1>1 DEF IInv, TypeOK
<1>6. /\ Len(calendar[c]) \in Nat /\ k \in Nat /\ 1 <= k
      /\ Len(packet.events) = Len(calendar[c]) + 1 - k
  BY <1>2, <1>5
<1>7. ASSUME NEW i \in Known(c)
      PROVE  ClearOfEvent(calendar[c][i], e)
  <2>1. i \in k..Len(calendar[c])
    BY <1>6 DEF Known
  <2>2. i \in 1..Len(calendar[c])
    BY <1>6, <2>1
  <2>3. calendar[c][i] \in [tier: {1, 2}, time: Nat]
    BY <1>5, <2>2, EntryType
  <2> DEFINE j == i + 1 - k
  <2>4. j \in 1..(Len(calendar[c]) + 1 - k) /\ k + j - 1 = i
    BY <1>6, <2>1
  <2>5. packet.events[j] = Listed(calendar[c][i], t)
    <3> HIDE DEF j, packet, t
    <3> QED BY <1>2, <2>4
  <2>6. j \in 1..Len(packet.events)
    BY <1>6, <2>4
  <2>7. EventRisk(Listed(calendar[c][i], t)) # "lockout_active"
    <3> HIDE DEF j, packet, t
    <3> QED BY <1>3, <2>5, <2>6 DEF SomeEvent
  <2> HIDE DEF t
  <2> QED BY <1>4, <2>3, <2>7, FreshAndClear
<1> QED BY <1>3, <1>7

\* What it says of the account when, besides, the report is up to date.
LEMMA WithinWhenClear ==
  ASSUME IInv, NEW c \in Contracts, NEW e \in Nat, challenge = account,
         HardLockoutFlags(c, packets[c], challenge, e) = {}
  PROVE  WithinLimits(c, e)
<1> USE DeskAssumption, LimitsAssumption
<1> DEFINE packet == packets[c]
           stopouts == account.last_stopout_time_by_contract
<1>1. /\ account.daily_realized_pnl \in Int /\ account.trades_today_all \in Nat
      /\ account.trades_today_by_contract \in [Contracts -> Nat]
      /\ account.open_size \in [Contracts -> Nat]
      /\ stopouts \in [Contracts -> Nat \cup {Null}] /\ stopouts # Null
  BY DEF IInv, TypeOK, ChallengeState
<1>2. /\ ~CoolingDown(account, c, e)
      /\ ~(account.daily_realized_pnl <= -Limits.daily_loss_stop_dollars)
      /\ ~(account.trades_today_all >= Limits.max_trades_per_day)
      /\ ~(account.trades_today_by_contract[c] >= Limits.max_trades_per_contract_per_day)
      /\ ~(account.open_size[c] >= Limits.max_position_size_by_contract[c])
  <2>1. HardLockoutFlags(c, packet, account, e) = {}
    OBVIOUS
  <2> HIDE DEF packet
  <2> QED BY <2>1, NoFlags
<1>3. /\ Limits.daily_loss_stop_dollars \in Nat /\ Limits.max_trades_per_day \in Int
      /\ Limits.max_trades_per_contract_per_day \in Int
      /\ Limits.max_position_size_by_contract[c] \in Int
      /\ Limits.cooldown_after_stopout_minutes \in Nat
  OBVIOUS
<1>4. account.trades_today_by_contract[c] \in Nat /\ account.open_size[c] \in Nat
  BY <1>1
<1>5. /\ account.daily_realized_pnl > -Limits.daily_loss_stop_dollars
      /\ account.trades_today_all < Limits.max_trades_per_day
      /\ account.trades_today_by_contract[c] < Limits.max_trades_per_contract_per_day
      /\ account.open_size[c] < Limits.max_position_size_by_contract[c]
  <2> HIDE DeskAssumption, LimitsAssumption
  <2> HIDE DEF packet, stopouts
  <2> QED BY <1>1, <1>2, <1>3, <1>4
<1>6. ASSUME stopouts[c] # Null
      PROVE  e - stopouts[c] >= Limits.cooldown_after_stopout_minutes
  <2>1. stopouts[c] \in Nat
    BY <1>1, <1>6
  <2>2. LastStopout(account, c) = stopouts[c]
    BY <1>1 DEF LastStopout
  <2>3. ~(e < stopouts[c] + Limits.cooldown_after_stopout_minutes)
    BY <1>2, <1>6, <2>2 DEF CoolingDown
  <2> HIDE DEF stopouts
  <2> QED BY <1>3, <2>1, <2>3
<1> QED BY <1>5, <1>6 DEF WithinLimits

\* A new context is one the Watchman built of the bundle as it is.
LEMMA NewContext ==
  ASSUME IInv, Next, NEW c \in Contracts, contexts'[c] # contexts[c], contexts'[c] # Null
  PROVE  \E trigger \in Triggers, e \in Nat :
           /\ c \in Bundled /\ Refusal(packets[c], trigger, e) = Null
           /\ contexts'[c] = Context(c, packets[c], challenge, trigger, e)
<1>1. contexts' # contexts
  OBVIOUS
<1>2. Watch
  BY <1>1 DEF Next, World, Operator, Tick, OpenPosition, StopOut, TakeProfit,
              RenewAccountReport, RenewPacket
<1>3. PICK trigger \in Triggers :
        SweepWatchman(trigger) \/ \E d \in Contracts : WatchContract(d, trigger)
  BY <1>1, <1>2 DEF Watch, SweepFails, WatchContractFails
<1>4. CASE SweepWatchman(trigger)
  <2>1. /\ c \in Bundled
        /\ contexts'[c] = Context(c, packets[c], challenge, trigger, PacketTime(c))
        /\ Refusal(packets[c], trigger, PacketTime(c)) = Null
    BY <1>4 DEF SweepWatchman, SweepRefused
  <2>2. PacketTime(c) \in Nat
    BY <2>1 DEF IInv, ListsCalendar, Bundled, PacketTime, MarketPacket
  <2> QED BY <2>1, <2>2
<1>5. ASSUME NEW d \in Contracts, WatchContract(d, trigger)
      PROVE  /\ now \in Nat /\ c \in Bundled /\ Refusal(packets[c], trigger, now) = Null
             /\ contexts'[c] = Context(c, packets[c], challenge, trigger, now)
  <2>1. contexts \in [Contracts -> WatchmanReadinessContext \cup {Null}] /\ now \in Nat
    BY DeskAssumption DEF IInv, TypeOK
  <2>2. d = c
    BY <1>5, <2>1 DEF WatchContract
  <2> QED BY <1>5, <2>1, <2>2 DEF WatchContract
<1> QED BY <1>3, <1>4, <1>5

\* A newly clear context is of a packet that was accepted at the context's own
\* time, and raised no flag there.
LEMMA NewlyClearOf ==
  ASSUME IInv, Next, NEW c \in Contracts, NewlyClear(c)
  PROVE  /\ c \in Bundled /\ contexts'[c].timestamp \in Nat
         /\ HardLockoutFlags(c, packets[c], challenge, contexts'[c].timestamp) = {}
         /\ \E trigger \in Triggers :
              Refusal(packets[c], trigger, contexts'[c].timestamp) = Null
<1>1. PICK trigger \in Triggers, e \in Nat :
        /\ c \in Bundled /\ Refusal(packets[c], trigger, e) = Null
        /\ contexts'[c] = Context(c, packets[c], challenge, trigger, e)
  BY NewContext DEF NewlyClear
<1>2. /\ Context(c, packets[c], challenge, trigger, e).timestamp = e
      /\ Context(c, packets[c], challenge, trigger, e).hard_lockout_flags
           = HardLockoutFlags(c, packets[c], challenge, e)
  BY DEF Context
<1>3. contexts'[c].hard_lockout_flags = {}
  BY DEF NewlyClear
<1>4. /\ contexts'[c].timestamp = e
      /\ HardLockoutFlags(c, packets[c], challenge, e) = {}
  BY <1>1, <1>2, <1>3
<1> QED BY <1>1, <1>4

\* Every new context without lockout flags is of a contract inside its hours and
\* clear of the real events its packet knows of, on every behaviour of the desk.
THEOREM ClearIsOpen == Spec => ClearMeansOpen
<1> DEFINE Step == \A c \in Contracts : NewlyClear(c) =>
      /\ InsideAllowedHours(c, contexts'[c].timestamp)
      /\ \A i \in Known(c) : ClearOfEvent(calendar[c][i], contexts'[c].timestamp)
<1>1. ASSUME IInv, [Next]_vars PROVE [Step]_vars
  <2> SUFFICES ASSUME Next, NEW c \in Contracts, NewlyClear(c)
               PROVE  /\ InsideAllowedHours(c, contexts'[c].timestamp)
                      /\ \A i \in Known(c) :
                           ClearOfEvent(calendar[c][i], contexts'[c].timestamp)
    BY <1>1
  <2> QED BY <1>1, NewlyClearOf, OpenWhenClear
<1>2. Spec => [][Step]_vars
  BY <1>1, Invariance, PTL DEF Spec
<1> QED BY <1>2 DEF ClearMeansOpen

\* Every new context without lockout flags, made of an up-to-date report, is of
\* a contract within every limit of the account, on every behaviour of the desk.
THEOREM ClearIsWithinLimits == Spec => ClearMeansWithinLimits
<1> DEFINE Step == \A c \in Contracts :
      NewlyClear(c) /\ challenge = account => WithinLimits(c, contexts'[c].timestamp)
<1>1. ASSUME IInv, [Next]_vars PROVE [Step]_vars
  <2> SUFFICES ASSUME Next, NEW c \in Contracts, NewlyClear(c), challenge = account
               PROVE  WithinLimits(c, contexts'[c].timestamp)
    BY <1>1
  <2> QED BY <1>1, NewlyClearOf, WithinWhenClear
<1>2. Spec => [][Step]_vars
  BY <1>1, Invariance, PTL DEF Spec
<1> QED BY <1>2 DEF ClearMeansWithinLimits

-----------------------------------------------------------------------------
(* The day's trade limit.                                                  *)

LimitReached == challenge.trades_today_all >= Limits.max_trades_per_day

\* The report is never ahead of the account, and who was locked out for the
\* limit was told so by a report that had reached it.
Shared ==
  /\ challenge.trades_today_all <= account.trades_today_all
  /\ \A d \in Contracts :
       contexts[d] # Null /\ "max_trades_reached" \in contexts[d].hard_lockout_flags
         => LimitReached

\* The flag is the limit of the report, whatever the contract and the time.
LEMMA LimitFlag ==
  ASSUME NEW c, NEW trigger, NEW e
  PROVE  "max_trades_reached" \in Context(c, packets[c], challenge, trigger, e).hard_lockout_flags
           <=> LimitReached
<1> DEFINE breach == Breach(challenge, c)
<1>1. "max_trades_reached" \in DOMAIN breach /\ (breach["max_trades_reached"] <=> LimitReached)
  BY DEF Breach, LimitReached
<1>2. "max_trades_reached" \in HardLockoutFlags(c, packets[c], challenge, e)
        <=> "max_trades_reached" \in {f \in DOMAIN breach : breach[f]}
  BY DEF HardLockoutFlags
<1> HIDE DEF breach
<1> QED BY <1>1, <1>2 DEF Context

LEMMA SharedStep == IInv /\ Shared /\ [Next]_vars => Shared'
<1> SUFFICES ASSUME IInv, Shared, [Next]_vars PROVE Shared'
  OBVIOUS
<1>1. /\ account.trades_today_all \in Nat /\ challenge.trades_today_all \in Nat
      /\ Limits.max_trades_per_day \in Int
  BY LimitsAssumption DEF IInv, TypeOK, ChallengeState
<1>2. CASE Watch
  <2>1. challenge' = challenge /\ account' = account
    BY <1>2 DEF Watch, SweepWatchman, SweepFails, WatchContract, WatchContractFails
  <2>2. ASSUME NEW d \in Contracts, contexts'[d] # Null,
               "max_trades_reached" \in contexts'[d].hard_lockout_flags
        PROVE  LimitReached
    <3>1. CASE contexts'[d] = contexts[d]
      BY <2>2, <3>1 DEF Shared
    <3>2. CASE contexts'[d] # contexts[d]
      BY <1>2, <2>2, <3>2, NewContext, LimitFlag DEF Next
    <3> QED BY <3>1, <3>2
  <2> QED BY <2>1, <2>2 DEF Shared, LimitReached
<1>3. CASE \E c \in Contracts : OpenPosition(c) \/ StopOut(c) \/ TakeProfit(c)
  <2>1. challenge' = challenge /\ contexts' = contexts
    BY <1>3 DEF OpenPosition, StopOut, TakeProfit
  <2>2. account'.trades_today_all >= account.trades_today_all
    BY <1>1, <1>3 DEF OpenPosition, StopOut, TakeProfit, Report
  <2>3. account'.trades_today_all \in Nat
    BY <1>1, <1>3 DEF OpenPosition, StopOut, TakeProfit, Report
  <2>4. challenge.trades_today_all <= account'.trades_today_all
    BY <1>1, <2>2, <2>3 DEF Shared
  <2> QED BY <2>1, <2>4 DEF Shared, LimitReached
<1>4. CASE RenewAccountReport
  <2>1. challenge' = account /\ account' = account /\ contexts' = contexts
    BY <1>4 DEF RenewAccountReport
  <2>2. LimitReached => LimitReached'
    BY <1>1, <2>1 DEF Shared, LimitReached
  <2> QED BY <1>1, <2>1, <2>2 DEF Shared
<1>5. CASE Tick \/ (\E c \in Contracts : RenewPacket(c)) \/ UNCHANGED vars
  BY <1>5 DEF Tick, RenewPacket, vars, Shared, LimitReached
<1> QED BY <1>2, <1>3, <1>4, <1>5 DEF Next, World, Operator

\* Who was locked out for the day's trades keeps every later context locked.
THEOREM TradeLimitShared == Spec => TradeLimitIsShared
<1> DEFINE Step == \A c, d \in Contracts :
      (/\ contexts[d] # Null /\ "max_trades_reached" \in contexts[d].hard_lockout_flags
       /\ contexts'[c] # contexts[c] /\ contexts'[c] # Null)
      => "max_trades_reached" \in contexts'[c].hard_lockout_flags
<1>1. Init => Shared
  <2>1. Init => challenge.trades_today_all = 0 /\ account.trades_today_all = 0
    BY DEF Init, Report
  <2>2. ASSUME Init, NEW d \in Contracts PROVE contexts[d] = Null
    BY <2>2 DEF Init
  <2> QED BY <2>1, <2>2 DEF Shared
<1>2. ASSUME IInv, Shared, [Next]_vars PROVE [Step]_vars
  <2> SUFFICES ASSUME Next, NEW c \in Contracts, NEW d \in Contracts,
                      contexts[d] # Null,
                      "max_trades_reached" \in contexts[d].hard_lockout_flags,
                      contexts'[c] # contexts[c], contexts'[c] # Null
               PROVE  "max_trades_reached" \in contexts'[c].hard_lockout_flags
    BY <1>2
  <2>1. LimitReached
    BY <1>2 DEF Shared
  <2> QED BY <1>2, <2>1, NewContext, LimitFlag
<1>3. Spec => [](IInv /\ Shared)
  BY <1>1, SharedStep, InitInv, NextInv, PTL DEF Spec
<1>4. Spec => [][Step]_vars
  BY <1>2, <1>3, PTL DEF Spec
<1> QED BY <1>4 DEF TradeLimitIsShared
=============================================================================
