--------------------------- MODULE MCExfatUnpack ---------------------------
(***************************************************************************)
(* TLC instance of reading a volume: a directory with a file, a file of    *)
(* several clusters, one that differs from it in case and comes after it   *)
(* in the scan but before it in the sorted folder, a dotfile, a symbolic   *)
(* link and an ignored name that is no metadata to the verification; two   *)
(* clusters to a PFSC block and a cache of two blocks, so that the FAT is  *)
(* thrown out and decoded again.                                           *)
(***************************************************************************)
EXTENDS ExfatUnpack, TLC

MC_Files == {3, 4, 5, 6, 8, 9, 10}
MC_Dirs == {7}
MC_Parent == [n \in 1..10 |-> IF n \in {8, 9} THEN 7 ELSE 0]
MC_Key == [f \in MC_Files |-> IF f = 5 THEN 4 ELSE f]
MC_Sorted == [f \in MC_Files |-> IF f = 5 THEN 0 ELSE f]
MC_Options == {[enabled |-> FALSE, create |-> FALSE, force |-> FALSE, validate |-> TRUE]}

Folder(dot, file, twin, link, marker, inner, ignored) ==
  3 :> dot @@ 4 :> file @@ 5 :> twin @@ 6 :> link @@ 8 :> marker @@ 9 :> inner @@ 10 :> ignored
MC_Folders == {Folder(Gone, 5, Gone, Gone, 0, 3, Gone), Folder(1, 2, Gone, Gone, 1, 2, Gone),
               Folder(1, 3, Gone, 2, 1, Gone, 1), Folder(Gone, 2, 1, Gone, Gone, 2, Gone),
               Folder(Gone, 1, Gone, Gone, Gone, 1, 1), Folder(Gone, 1, Gone, Gone, 1, Gone, Gone)}
MC_Edits == {[file |-> 3, size |-> 2], [file |-> 4, size |-> 3], [file |-> 9, size |-> Gone]}

MC_Modes == {"deep", "tree", "raw", "verify"}
MC_Selections == {{}, {7}, {4}, {9, 6}}
MC_DamagedBlocks == {NoBlock} \cup 0..7
MC_Occupants == {[at |-> 0, kind |-> "none"], [at |-> 0, kind |-> "file"], [at |-> 7, kind |-> "file"],
                 [at |-> 9, kind |-> "file"], [at |-> 4, kind |-> "dir"]}
=============================================================================
