----------------------------- MODULE MCArmCache -----------------------------
(* ArmCache for TLC: two projects, two goroutines in their loops at once.   *)
(* No symmetry: the run also checks a liveness property.                    *)
EXTENDS ArmCache
=============================================================================
