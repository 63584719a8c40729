---------------------------- MODULE MCTreeCheck ----------------------------
(***************************************************************************)
(* TLC instance of the tree: nested and sibling directories, files at      *)
(* every level, an ignored directory and a name that is not ASCII; two     *)
(* hash values, so that there are groups of every size, two groups, or a   *)
(* group beside a single path.                                             *)
(***************************************************************************)
EXTENDS TreeCheck, TLC

MC_Dirs == {1, 2, 6, 9}
MC_Files == {3, 4, 5, 7, 8, 10}
MC_Parent == 1 :> 0 @@ 2 :> 1 @@ 3 :> 1 @@ 4 :> 2 @@ 5 :> 0 @@ 6 :> 0 @@ 7 :> 6 @@ 8 :> 1
  @@ 9 :> 0 @@ 10 :> 9
MC_Sources == {{}, {3}, {3, 4, 7}, {3, 10}, {5, 8}}
MC_Ignored == {6}
MC_Occupants == {[node |-> -9, kind |-> "none"], [node |-> 0, kind |-> "file"],
                 [node |-> 1, kind |-> "file"], [node |-> 4, kind |-> "file"]}
=============================================================================
