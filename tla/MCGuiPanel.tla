----------------------------- MODULE MCGuiPanel -----------------------------
(***************************************************************************)
(* TLC instances of the GUI: two runs on one panel, where the completion   *)
(* signals of the first meet the second, and two runs over two panels,     *)
(* which are interchangeable, where both workers are alive at once.        *)
(***************************************************************************)
EXTENDS GuiPanel, TLC

MC_Symmetry == Permutations(Panels)
=============================================================================
