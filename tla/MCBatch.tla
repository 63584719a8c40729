------------------------------ MODULE MCBatch ------------------------------
(***************************************************************************)
(* TLC instance of the batch command: two folders and an image file to     *)
(* pack, between entries that are left out.                                *)
(***************************************************************************)
EXTENDS Batch

MC_Entries == <<"folder", "hidden", "image", "other", "folder">>
=============================================================================
