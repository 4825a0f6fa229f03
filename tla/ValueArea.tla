------------------------------ MODULE ValueArea ------------------------------
(***************************************************************************)
(* The ES compiler's derivation of the value area (packet_compiler/es.py), *)
(* step by step: it starts at the point of control and takes in one        *)
(* neighbour at a time until 70% of the volume is inside.  The data        *)
(* sources carry a copy of this code (ProfileLevels); the packet of ES is  *)
(* made by this one and those of CL, NQ, 6E and MGC by the other.          *)
(***************************************************************************)
EXTENDS Integers, Sequences

CONSTANTS Profiles, Null

Copy == INSTANCE ProfileLevels

Level == [price: Int, volume: Nat \ {0}]

ASSUME ProfilesAssumption ==
  \A levels \in Profiles :
    /\ levels \in Seq(Level) /\ Len(levels) > 0
    /\ \A i, j \in 1..Len(levels) : i < j => levels[i].price < levels[j].price

ASSUME NullAssumption == Null \notin [poc: Int, vah: Int, val: Int]

VARIABLES
  levels,      \* the profile being summarised
  low, high,   \* low_index, high_index: the area so far
  poc,         \* poc_index
  included,    \* included_indices
  cumulative,  \* cumulative_volume
  answer       \* what is returned, Null until then

vars == <<levels, low, high, poc, included, cumulative, answer>>

Indices == 1..Len(levels)

TypeOK ==
  /\ levels \in Profiles
  /\ poc \in Indices /\ low \in Indices /\ high \in Indices
  /\ included \in SUBSET Indices
  /\ cumulative \in Int
  /\ answer \in [poc: Int, vah: Int, val: Int] \cup {Null}

-----------------------------------------------------------------------------
Abs(x) == IF x < 0 THEN -x ELSE x

\* Twice the price's distance from _profile_session_midpoint.
FromMidpoint(i) == Abs(2 * levels[i].price - (levels[1].price + levels[Len(levels)].price))

\* _profile_poc_index: min over the candidates by (distance, price).
IsPoc(i) ==
  /\ \A j \in Indices : levels[j].volume <= levels[i].volume
  /\ \A j \in Indices :
       levels[j].volume = levels[i].volume =>
         \/ FromMidpoint(i) < FromMidpoint(j)
         \/ FromMidpoint(i) = FromMidpoint(j) /\ i <= j

Target == Copy!Total(levels)

Init ==
  /\ levels \in Profiles
  /\ poc \in {i \in Indices : IsPoc(i)}
  /\ low = poc /\ high = poc
  /\ included = {poc}
  /\ cumulative = levels[poc].volume
  /\ answer = Null

\* Mutant: the loop goes on at the target.
NotAboveTarget == 10 * cumulative <= 7 * Target

BelowTarget == 10 * cumulative < 7 * Target

CanLower == low > 1

CanUpper == high < Len(levels)

\* Mutant: a tie of volumes goes to the upper side.
ChoosesLowerUnlessTied ==
  /\ CanLower
  /\ CanUpper => levels[low - 1].volume > levels[high + 1].volume

\* _choose_profile_expansion_side.
ChoosesLower ==
  /\ CanLower
  /\ CanUpper =>
       \/ levels[low - 1].volume > levels[high + 1].volume
       \/ /\ levels[low - 1].volume = levels[high + 1].volume
          /\ FromMidpoint(low - 1) <= FromMidpoint(high + 1)

ChoosesUpper == CanUpper /\ ~ChoosesLower

\* Mutant: only the last level taken in is remembered.
IncludeOnly(i) ==
  /\ included' = {i}
  /\ cumulative' = cumulative + levels[i].volume
  /\ UNCHANGED <<levels, poc, answer>>

Include(i) ==
  /\ included' = included \cup {i}
  /\ cumulative' = cumulative + levels[i].volume
  /\ UNCHANGED <<levels, poc, answer>>

ExpandLower ==
  /\ answer = Null /\ BelowTarget /\ ChoosesLower
  /\ Include(low - 1)
  /\ low' = low - 1
  /\ UNCHANGED high

ExpandUpper ==
  /\ answer = Null /\ BelowTarget /\ ChoosesUpper
  /\ Include(high + 1)
  /\ high' = high + 1
  /\ UNCHANGED low

First(S) == CHOOSE i \in S : \A j \in S : i <= j

Last(S) == CHOOSE i \in S : \A j \in S : j <= i

\* Mutant: the loop ends only at exactly 70%.
ReturnOnTarget ==
  /\ answer = Null /\ 10 * cumulative = 7 * Target
  /\ answer' = [poc |-> levels[poc].price,
                vah |-> levels[Last(included)].price,
                val |-> levels[First(included)].price]
  /\ UNCHANGED <<levels, low, high, poc, included, cumulative>>

\* The loop ends at the target, or with no neighbour left to take in.
Return ==
  /\ answer = Null
  /\ ~BelowTarget \/ ~(CanLower \/ CanUpper)
  /\ answer' = [poc |-> levels[poc].price,
                vah |-> levels[Last(included)].price,
                val |-> levels[First(included)].price]
  /\ UNCHANGED <<levels, low, high, poc, included, cumulative>>

Next == ExpandLower \/ ExpandUpper \/ Return

Spec == Init /\ [][Next]_vars /\ WF_vars(Next)

-----------------------------------------------------------------------------
(* Properties.                                                             *)

\* included_indices, which the answer is read from, is at every step the run
\* of levels between low_index and high_index, which the choices are made
\* from, and contains the point of control.
OneRunAroundPoc == included = low..high /\ low <= poc /\ poc <= high

\* The area returned holds at least 70% of the volume, although the loop may
\* also end because the profile does; and the last level it took in was
\* needed: without one of its ends it holds less.
SeventyPercentAndNoMore ==
  answer # Null =>
    /\ 10 * Copy!Volumes(levels, low, high) >= 7 * Target
    /\ low < high =>
         \/ low < poc /\ 10 * Copy!Volumes(levels, low + 1, high) < 7 * Target
         \/ poc < high /\ 10 * Copy!Volumes(levels, low, high - 1) < 7 * Target

\* The two copies of the algorithm give the same levels for the same profile.
CopiesAgree == answer # Null => answer = Copy!DeriveProfileLevels(levels)

\* The loop ends: some answer is always returned.
Returns == <>(answer # Null)
=============================================================================
