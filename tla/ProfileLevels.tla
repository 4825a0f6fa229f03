---------------------------- MODULE ProfileLevels ----------------------------
(***************************************************************************)
(* Volume profiles and the levels the data sources take from them          *)
(* (packet_compiler/sources.py): point of control, value area high, value  *)
(* area low.  Prices and volumes are whole numbers of ticks and contracts, *)
(* so the 70% target is compared without rounding.                         *)
(***************************************************************************)
EXTENDS Integers, Sequences, FiniteSets, Functions, FiniteSetsExt

Level == [price: Int, volume: Nat \ {0}]

Volumes(levels, low, high) ==
  SumFunctionOnSet([i \in 1..Len(levels) |-> levels[i].volume], low..high)

Total(levels) == Volumes(levels, 1, Len(levels))

Distance(x, y) == IF x < y THEN y - x ELSE x - y

\* Twice the distance from the session midpoint, which may be half a tick.
FromMidpoint(levels, i) == Distance(2 * levels[i].price, levels[1].price + levels[Len(levels)].price)

\* The first of the heaviest levels, by distance from the midpoint, then price.
PointOfControl(levels) ==
  LET heaviest == {i \in 1..Len(levels) : \A j \in 1..Len(levels) : levels[j].volume <= levels[i].volume}
  IN  CHOOSE i \in heaviest : \A j \in heaviest :
        \/ FromMidpoint(levels, i) < FromMidpoint(levels, j)
        \/ FromMidpoint(levels, i) = FromMidpoint(levels, j) /\ levels[i].price <= levels[j].price

TargetReached(volume, levels) == 10 * volume >= 7 * Total(levels)

\* Ties go to the side nearer to the midpoint, then to the lower one.
Upwards(levels, lower, upper) ==
  /\ upper <= Len(levels)
  /\ \/ lower < 1
     \/ levels[upper].volume > levels[lower].volume
     \/ /\ levels[upper].volume = levels[lower].volume
        /\ FromMidpoint(levels, upper) < FromMidpoint(levels, lower)

Widened(levels, area) ==
  IF TargetReached(Volumes(levels, area.low, area.high), levels) THEN area
  ELSE IF Upwards(levels, area.low - 1, area.high + 1) THEN [low |-> area.low, high |-> area.high + 1]
  ELSE [low |-> area.low - 1, high |-> area.high]

\* An area of n levels is complete after n steps.
DeriveProfileLevels(levels) ==
  LET poc == PointOfControl(levels)
      area[k \in 0..Len(levels)] ==
        IF k = 0 THEN [low |-> poc, high |-> poc] ELSE Widened(levels, area[k - 1])
  IN  [poc |-> levels[poc].price,
       vah |-> levels[area[Len(levels)].high].price,
       val |-> levels[area[Len(levels)].low].price]

\* _aggregate_profile_for_bounds: one level a price, sorted.  The tape has a
\* trade, [price, size], at each instant of its domain.
Aggregate(tape, within) ==
  LET trades == DOMAIN tape \cap within
      prices == {tape[i].price : i \in trades}
      nth(n) == CHOOSE p \in prices : Cardinality({q \in prices : q <= p}) = n
  IN  [n \in 1..Cardinality(prices) |->
         LET price == nth(n)
         IN  [price |-> price,
              volume |-> MapThenSumSet(LAMBDA i : tape[i].size, {i \in trades : tape[i].price = price})]]
=============================================================================
