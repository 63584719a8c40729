--------------------------- MODULE MCStreamImage ---------------------------
(***************************************************************************)
(* TLC instance of the spool-free builders: more logical blocks than the   *)
(* window holds, so that it fills, drains and wraps around; sources that   *)
(* turn out shorter or longer than declared; payloads that are kept, that  *)
(* gain too little and that outgrow the source; a file that kept its size  *)
(* between the two stat() calls and one that lost a block.                 *)
(***************************************************************************)
EXTENDS StreamImage

MC_Lens == {1, 5}
MC_FileCompressed == {1, 4, 5}
MC_FileLens == {10, 18}
MC_StatSizes == {14, 18}
MC_StreamLens == {12, 14, 17}
=============================================================================
