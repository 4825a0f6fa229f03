-------------------------- MODULE MCPacketCompiler --------------------------
(***************************************************************************)
(* Two runs of the compile command: every contract, with and without the   *)
(* services, over paths that are the same, disjoint or overlapping.        *)
(***************************************************************************)
EXTENDS PacketCompiler

CONSTANTS r1, r2, a, b, p, q, NoPath

Sidecar == [f \in {a, b, p, q} |-> IF f = a THEN p ELSE q]

Plain == [contract |-> "MGC", databento |-> FALSE, service |-> FALSE, typed |-> {},
          early |-> FALSE, same |-> TRUE, output |-> a, provenance_output |-> NoPath]

\* Every compiler, all on the same pair of paths.
EveryContract ==
  {[Plain EXCEPT !.contract = "ES", !.databento = TRUE, !.typed = AssistFields],
   [Plain EXCEPT !.contract = "CL", !.typed = {"key_hvns"}],
   [Plain EXCEPT !.contract = "CL", !.service = TRUE, !.early = TRUE],
   [Plain EXCEPT !.contract = "CL", !.service = TRUE],
   [Plain EXCEPT !.contract = "NQ", !.typed = {"data_quality_flags"}],
   [Plain EXCEPT !.contract = "NQ", !.same = FALSE],
   [Plain EXCEPT !.contract = "SixE", !.typed = {"attached_visuals"}],
   [Plain EXCEPT !.contract = "ZN", !.databento = TRUE],
   [Plain EXCEPT !.contract = "ZN", !.service = TRUE]}

\* Other paths: the same pair, another pair, a shared provenance, one path for both.
EveryPath ==
  {Plain, [Plain EXCEPT !.output = b], [Plain EXCEPT !.output = b, !.provenance_output = p],
   [Plain EXCEPT !.provenance_output = a]}

TheOptions == EveryContract \cup EveryPath
=============================================================================
