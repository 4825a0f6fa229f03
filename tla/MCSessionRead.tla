---------------------------- MODULE MCSessionRead ----------------------------
(***************************************************************************)
(* Four days of ten minutes, of which the last is traded while the         *)
(* operator compiles; three prior days, of which two are needed.           *)
(***************************************************************************)
EXTENDS SessionRead

CONSTANTS m1, m2

MCWindow ==
  [c \in Contracts |->
     IF c \in {"ES", "NQ"} THEN [start |-> 5, end |-> 8]
     ELSE IF c = "CL" THEN [start |-> 4, end |-> 7]
     ELSE IF c = "MGC" THEN [start |-> 4, end |-> 6]
     ELSE [start |-> 6, end |-> 8]]

MCSegments == [asia |-> [start |-> 0, end |-> 2], london |-> [start |-> 3, end |-> 5]]

Day == 2 * DayLength

All == 0..(4 * Day - 1)

\* Prices that go back and forth over a few ticks, by instant of the day.
Wave(i) == 10 + ((3 * (i % Day)) % 8)

Deal(price, size, side) == [price |-> price, size |-> size, side |-> side]

Steady == [i \in All |-> Deal(Wave(i), 1 + (i % 3), IF i % 2 = 0 THEN "A" ELSE "B")]

Alike == [i \in All |-> Deal(Wave(i), 1 + ((i % Day) % 3), IF i % 2 = 0 THEN "A" ELSE "B")]

\* The same market a tick higher, where floats fall the other way.
Higher == [i \in All |-> [Alike[i] EXCEPT !.price = @ + 1]]

Without(deals, gone) == [i \in DOMAIN deals \ gone |-> deals[i]]

DayOf(i) == i \div Day

MinuteOf(i) == (i % Day) \div 2

Trend == [i \in All |-> IF DayOf(i) = 3 THEN Deal(20 + MinuteOf(i), 1, "B") ELSE Alike[i]]

Fall == [i \in All |-> IF DayOf(i) = 3 THEN Deal(20 - MinuteOf(i), 1, "A") ELSE Alike[i]]

\* An early close on the day before, a late open today.
Short == Without(Steady, {i \in All : \/ DayOf(i) = 2 /\ MinuteOf(i) > 6
                                      \/ DayOf(i) = 3 /\ MinuteOf(i) = 5})

\* A holiday, and only one trade a minute.
Thin == Without(Steady, {i \in All : DayOf(i) = 1 \/ i % 2 = 1})

\* No trade in Asia, and one without a side.
Night == [Without(Alike, {i \in All : MinuteOf(i) < 3}) EXCEPT ![3 * Day + 15].side = "N"]

Flat == [i \in All |-> IF DayOf(i) = 2 THEN Deal(12, 1, "A") ELSE Alike[i]]

MCTapes == {Alike, Higher, Trend, Fall, Short, Thin, Night, Flat}

MCHalvesUp == [deals \in MCTapes |-> deals # Higher]

Compared(open, current) == [es_session_open |-> open, es_current_price |-> current]

\* ES up a little, up two percent and down as much.
MCComparisons == {Compared(100, 101), Compared(98, 100), Compared(100, 98)}

\* CL reads levels a tick away, the others only at their price.
MCThreshold == [c \in Contracts |-> IF c = "CL" THEN 1 ELSE 0]

MCLevels == [major_higher_timeframe_levels |-> {40}, key_hvns |-> {12}, key_lvns |-> {13}]

\* Below, within and above the prices of the tapes; whole and half ticks.
MCTriggers == {17, 24, 29, 43, 60}
=============================================================================
