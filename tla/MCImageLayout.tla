--------------------------- MODULE MCImageLayout ---------------------------
(***************************************************************************)
(* TLC instance of the image layout: two direct blocks and two records per *)
(* indirect block, so that payloads of 1 to 8 blocks use every pointer and *)
(* 9 blocks exceed the capacity; two inodes per inode-table block.         *)
(***************************************************************************)
EXTENDS ImageLayout

MC_BlockCounts == {1, 3, 5, 8, 9}
=============================================================================
