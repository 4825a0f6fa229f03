---------------------------- MODULE MCValueArea ----------------------------
(***************************************************************************)
(* Every profile of up to five levels with volumes of one to three on      *)
(* three ladders: even, with a gap below and with a gap in the middle.     *)
(***************************************************************************)
EXTENDS ValueArea

Ladders == {<<1, 2, 3, 4, 5>>, <<1, 4, 5, 6, 7>>, <<1, 2, 5, 6, 7>>}

SmallProfiles ==
  {[i \in 1..n |-> [price |-> ladder[i], volume |-> volume[i]]] :
     n \in 1..5, ladder \in Ladders, volume \in [1..5 -> 1..3]}
=============================================================================
