--------------------------- MODULE MCExfatVolume ---------------------------
(***************************************************************************)
(* TLC instance of packing a folder: the marker in its directory, a file   *)
(* that can shrink, grow within and beyond its clusters or vanish, a file  *)
(* that differs from it in case, a symbolic link and a file with an        *)
(* ignored name; hashes that are equal, neighbours, or at the end of the   *)
(* table; bitmaps that need more than one round.                           *)
(***************************************************************************)
EXTENDS ExfatVolume, TLC

MC_Files == {3, 4, 5, 7, 8}
MC_Dirs == {6}
MC_Parent == 1 :> 0 @@ 2 :> 0 @@ 3 :> 0 @@ 4 :> 0 @@ 5 :> 0 @@ 6 :> 0 @@ 7 :> 6 @@ 8 :> 0
MC_Key == 3 :> 3 @@ 4 :> 3 @@ 5 :> 5 @@ 7 :> 7 @@ 8 :> 8

Option(e, c, f, v) == [enabled |-> e, create |-> c, force |-> f, validate |-> v]
MC_Options == {Option(FALSE, FALSE, FALSE, TRUE), Option(TRUE, FALSE, FALSE, TRUE),
               Option(TRUE, TRUE, FALSE, TRUE), Option(TRUE, TRUE, FALSE, FALSE),
               Option(TRUE, TRUE, TRUE, TRUE)}

Folder(file, twin, link, marker, ignored) ==
  3 :> file @@ 4 :> twin @@ 5 :> link @@ 7 :> marker @@ 8 :> ignored
MC_Folders == {Folder(3, Gone, Gone, 1, 1), Folder(2, 1, 2, 1, Gone), Folder(0, Gone, 2, 1, Gone),
               Folder(4, Gone, Gone, Gone, Gone)}
MC_Earlier == {Folder(3, Gone, Gone, 1, 1), Folder(2, 1, 2, 1, Gone)}
MC_Edits == {[file |-> 3, size |-> s] : s \in {Gone, 1, 4}} \cup {[file |-> 4, size |-> 1]}
=============================================================================
