---------------------------- MODULE MCPackBuild ----------------------------
(***************************************************************************)
(* TLC instance of the pack command: two invocations, for one output or    *)
(* for two, of two files each; the invocations, outputs and files are      *)
(* interchangeable.                                                        *)
(***************************************************************************)
EXTENDS PackBuild, TLC

MC_Symmetry == Permutations(Procs) \cup Permutations(Outputs) \cup Permutations(Files)
=============================================================================
