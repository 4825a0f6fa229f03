--------------------------- MODULE MCRunHistory ---------------------------
(***************************************************************************)
(* Two callers, two contracts, three calls between them.*)
(***************************************************************************)
EXTENDS RunHistory, TLC

CONSTANTS p1, p2

\* Two statuses that differ by missing inputs only.
Ready == [state |-> "calm", hard |-> {}, aware |-> {}, missing |-> {}]
Seen == {Ready, [Ready EXCEPT !.missing = {"flag"}]}

BothContracts == {Contracts}

OneDecision == {"NO_TRADE"}

\* Callers differ in nothing but their name.
CallerSymmetry == Permutations(Callers)
=============================================================================
