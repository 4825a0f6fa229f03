---------------------------- MODULE MCWatchDesk ----------------------------
(***************************************************************************)
(* Small days for WatchDesk: a day of 7 minutes, packets good for one     *)
(* minute, a release in the middle of the day.                             *)
(***************************************************************************)
EXTENDS WatchDesk, TLC

\* The contracts of a bundle are alike: same hours, limits and calendar.
ContractSymmetry == Permutations(Contracts)

OneDay == [c \in Contracts |-> [start |-> 1, end |-> 5]]

TightLimits ==
  [daily_loss_stop_dollars |-> 2, max_trades_per_day |-> 2,
   max_trades_per_contract_per_day |-> 2,
   max_position_size_by_contract |-> [c \in Contracts |-> 2],
   cooldown_after_stopout_minutes |-> 2,
   event_lockout_minutes_before |-> 2, event_lockout_minutes_after |-> 3]

\* Three trades over two contracts can meet each limit while no other is met.
AccountLimits ==
  [TightLimits EXCEPT !.max_trades_per_day = 3,
                      !.max_position_size_by_contract = [c \in Contracts |-> 1]]

Release(tier, time) == [tier |-> tier, time |-> time]

\* No event, a release; a release after a nearer one, and after a lesser one.
Days ==
  {[c \in Contracts |-> s] :
     s \in {<<>>, <<Release(1, 4)>>, <<Release(1, 2), Release(1, 6)>>,
            <<Release(2, 1), Release(1, 3)>>}}

NoRelease == {[c \in Contracts |-> <<>>]}

Recheck(time, aware) ==
  [trigger_family |-> "recheck_at_time", recheck_at_time |-> time, aware |-> aware]

AllTriggers == {Recheck(2, TRUE), Recheck(2, FALSE), [trigger_family |-> "price_level_touch"]}

OneTrigger == {Recheck(2, TRUE)}

DailyOnly(sound) ==
  [visuals |-> {"daily"}, absent |-> {"data_quality_flags"}, well_formed |-> sound]

AnyFeature == {DailyOnly(TRUE), DailyOnly(FALSE)}

SoundFeature == {DailyOnly(TRUE)}
=============================================================================
