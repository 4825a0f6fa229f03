--------------------------- MODULE MCOperatorCli ---------------------------
(***************************************************************************)
(* A few runs that share an audit log.                                     *)
(***************************************************************************)
EXTENDS OperatorCli, TLC

OneDecision == {"NO_TRADE"}

\* Audited runs differ in nothing but their name.
RunSymmetry == Permutations(Audited)
=============================================================================
