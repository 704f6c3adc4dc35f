----------------------------- MODULE MCExporter -----------------------------
(* Instances of Exporter. *)
EXTENDS Exporter

(* Minimums that only both directions together reach, that one direction  *)
(* exceeds, and that it reaches exactly.                                  *)
MCMin == [flow |-> [pps |-> 3, mbps |-> 0], ip |-> [pps |-> 1, mbps |-> 2]]
=============================================================================
