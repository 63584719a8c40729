---------------------------- MODULE ExfatVolume ----------------------------
(***************************************************************************)
(* `mkpfs pack folder`: ensure_ampr_index and then iter_exfat_image, which *)
(* scans the folder, assigns clusters, solves for the allocation bitmap    *)
(* and emits the volume in order, reading the files as they are by then.   *)
(* Nodes are numbered in the order of the scan, a pre-order; a volume is a *)
(* sequence of units, C to a cluster, the boot region and the FAT before   *)
(* it left out.                                                            *)
(***************************************************************************)
EXTENDS AmprIndex

CONSTANTS
  Dirs,          \* the directories of the folder, ignored ones apart
  Parent,        \* the directory of every node, Root at the top
  IndexNode,     \* ampr_emu.index
  TmpNode,       \* ampr_emu.index.tmp
  C,             \* cluster size in units
  BitmapPerCluster  \* clusters one cluster of the bitmap stands for

Root == 0
AllNodes == Files \cup Dirs \cup {IndexNode, TmpNode}
LastNode == Cardinality(AllNodes)

ASSUME VolumeAssumption ==
  /\ IsFiniteSet(AllNodes) /\ AllNodes = 1..LastNode
  /\ Files \cap Dirs = {}
  /\ Parent \in [AllNodes -> Dirs \cup {Root}]
  /\ \A n \in AllNodes : Parent[n] < n
  /\ IndexNode # TmpNode /\ {IndexNode, TmpNode} \cap (Files \cup Dirs) = {}
  /\ C \in Nat \ {0} /\ BitmapPerCluster \in Nat \ {0, 1}

VARIABLES
  nodes,     \* the scanned nodes without the root
  size,      \* their sizes at the scan
  content,   \* content_clusters
  bitmap,    \* bitmap_clusters
  first,     \* first_cluster, 0 for none
  count,     \* cluster_count
  fat,       \* the next cluster, or EndOfChain
  image,     \* the units emitted
  current,   \* the last node whose emission was begun
  got        \* units read from each file

volumeVars == <<nodes, size, content, bitmap, first, count, fat, image, current, got>>

Ceil(a, b) == (a + b - 1) \div b
EndOfChain == -1

(* Units: data of a file, the entry of a node, or something else.          *)
Data(f, k) == [kind |-> "data", of |-> f, at |-> k]
EntryUnit(n) == [kind |-> "entry", of |-> n, at |-> 0]
Meta(what) == [kind |-> what, of |-> 0, at |-> 0]
Zero == Meta("zero")
Zeros(n) == [k \in 1..n |-> Zero]

VolumeInit ==
  /\ IndexInit
  /\ nodes = {} /\ size = <<>> /\ content = 0 /\ bitmap = 0
  /\ first = <<>> /\ count = <<>> /\ fat = <<>>
  /\ image = <<>> /\ current = Root /\ got = <<>>

-----------------------------------------------------------------------------
(* Layout                                                                  *)

ChildrenOf(d, S) == {n \in S : Parent[n] = d}
IsDirectory(n) == n \in Dirs \cup {Root}

(* One unit per child; the root also lists label, bitmap and up-case table.*)
EntryUnits(d, S) == Cardinality(ChildrenOf(d, S)) + (IF d = Root THEN 3 ELSE 0)
ClustersOf(n, S, sizes) ==
  IF IsDirectory(n) THEN LET k == Ceil(EntryUnits(n, S), C) IN IF k = 0 THEN 1 ELSE k
  ELSE Ceil(sizes[n], C)

(* What the nodes in front of n take.                                      *)
ClustersBefore(n, S, sizes) ==
  SumBefore([m \in 0..LastNode |->
               IF m \in S \cup {Root} THEN ClustersOf(m, S, sizes) ELSE 0], n)

(* _scan_tree: ignored names and symbolic links are left out, an index and *)
(* its .tmp are taken along.                                               *)
ScanTree ==
  /\ pc = "scan"
  /\ nodes' = (Kept(folder) \ Links) \cup Dirs
                \cup (IF index.there THEN {IndexNode} ELSE {})
                \cup (IF tmpLeft THEN {TmpNode} ELSE {})
  /\ size' = [n \in nodes' \ Dirs |->
                IF n = IndexNode THEN Len(index.rows) ELSE IF n = TmpNode THEN 1 ELSE folder[n]]
  /\ content' = 1 + ClustersBefore(LastNode + 1, nodes', size')
  /\ bitmap' = 1
  /\ pc' = "bitmap"
  /\ UNCHANGED <<indexVars, first, count, fat, image, current, got>>

(* scandir or stat raises: a directory or a file cannot be looked at.      *)
ScanFails ==
  /\ pc = "scan"
  /\ pc' = "failed"
  /\ UNCHANGED <<indexVars, volumeVars>>

ClusterCount == bitmap + content
Need == Ceil(ClusterCount, BitmapPerCluster)

(* The bitmap covers itself: repeat until it needs what it has.            *)
SolveBitmap ==
  /\ pc = "bitmap"
  /\ IF Need = bitmap THEN pc' = "assign" /\ UNCHANGED bitmap
     ELSE bitmap' = Need /\ UNCHANGED pc
  /\ UNCHANGED <<indexVars, nodes, size, content, first, count, fat, image, current, got>>

(* Bitmap, up-case table, root, then the nodes in pre-order; a file of no  *)
(* bytes has no cluster.                                                   *)
Assign ==
  LET placed == nodes \cup {Root}
      taken == [n \in placed |-> ClustersOf(n, nodes, size)]
      Start(n) == 2 + bitmap + 1 + ClustersBefore(n, nodes, size)
  IN  /\ pc = "assign"
      /\ count' = taken
      /\ first' = [n \in placed |-> IF taken[n] = 0 THEN 0 ELSE Start(n)]
      /\ pc' = "fat"
      /\ UNCHANGED <<indexVars, nodes, size, content, bitmap, fat, image, current, got>>

(* A chain for every run: [start, length].                                 *)
BuildFat ==
  LET runs == {<<2, bitmap>>, <<2 + bitmap, 1>>}
                \cup {<<first[n], count[n]>> : n \in {m \in nodes \cup {Root} : first[m] >= 2}}
      LastOf(run) == run[1] + run[2] - 1
  IN  /\ pc = "fat"
      /\ fat' = [c \in UNION {run[1]..LastOf(run) : run \in runs} |->
                   IF \E run \in runs : c = LastOf(run) THEN EndOfChain ELSE c + 1]
      /\ pc' = "heap"
      /\ UNCHANGED <<indexVars, nodes, size, content, bitmap, first, count, image, current, got>>

-----------------------------------------------------------------------------
(* Emission                                                                *)

DirectoryUnits(d) ==
  LET listed == InOrder(ChildrenOf(d, nodes))
      body == (IF d = Root THEN <<Meta("label"), Meta("bitmap"), Meta("upcase")>> ELSE <<>>)
                \o [k \in 1..Len(listed) |-> EntryUnit(listed[k])]
  IN  body \o Zeros(count[d] * C - Len(body))

EmitRegions ==
  /\ pc = "heap"
  /\ image' = [k \in 1..(bitmap * C) |-> Meta("bits")] \o [k \in 1..C |-> Meta("upcases")]
                \o DirectoryUnits(Root)
  /\ pc' = "emit"
  /\ UNCHANGED <<indexVars, nodes, size, content, bitmap, first, count, fat, current, got>>

Rest == {n \in nodes : n > current}
NextNode == CHOOSE n \in Rest : \A m \in Rest : n <= m

HasBytes(n) == ~IsDirectory(n) /\ size[n] > 0

(* Directories and files without bytes take no file to be opened.          *)
EmitNode ==
  /\ pc = "emit" /\ Rest # {}
  /\ ~HasBytes(NextNode)
  /\ image' = IF IsDirectory(NextNode) THEN image \o DirectoryUnits(NextNode) ELSE image
  /\ current' = NextNode
  /\ UNCHANGED <<indexVars, nodes, size, content, bitmap, first, count, fat, got, pc>>

OpenFile ==
  /\ pc = "emit" /\ Rest # {}
  /\ HasBytes(NextNode)
  /\ current' = NextNode
  /\ got' = Put(got, NextNode, 0)
  /\ pc' = IF NextNode \in Files /\ folder[NextNode] = Gone THEN "failed" ELSE "read"
  /\ UNCHANGED <<indexVars, nodes, size, content, bitmap, first, count, fat, image>>

(* What the file holds by now; one that is removed stays readable.         *)
Length(n) == IF n \in Files /\ folder[n] # Gone THEN folder[n] ELSE size[n]

ReadChunk ==
  /\ pc = "read" /\ got[current] < Length(current)
  /\ image' = Append(image, Data(current, got[current]))
  /\ got' = [got EXCEPT ![current] = @ + 1]
  /\ UNCHANGED <<indexVars, nodes, size, content, bitmap, first, count, fat, current, pc>>

Padding == count[current] * C - got[current]

(* Mutant: a file that has outgrown its run is let through.                *)
PadFileAnyway ==
  /\ pc = "read" /\ got[current] >= Length(current)
  /\ image' = image \o (IF Padding > 0 THEN Zeros(Padding) ELSE <<>>)
  /\ pc' = "emit"
  /\ UNCHANGED <<indexVars, nodes, size, content, bitmap, first, count, fat, current, got>>

(* The run is filled up; bytes() of a negative number raises.              *)
PadFile ==
  /\ pc = "read" /\ got[current] >= Length(current)
  /\ IF Padding < 0 THEN pc' = "failed" /\ UNCHANGED image
     ELSE pc' = "emit" /\ image' = image \o Zeros(Padding)
  /\ UNCHANGED <<indexVars, nodes, size, content, bitmap, first, count, fat, current, got>>

EndVolume ==
  /\ pc = "emit" /\ Rest = {}
  /\ pc' = "volume"
  /\ UNCHANGED <<indexVars, volumeVars>>

Emit ==
  \/ ScanTree \/ ScanFails \/ SolveBitmap \/ Assign \/ BuildFat
  \/ EmitRegions \/ EmitNode \/ OpenFile \/ ReadChunk \/ PadFile \/ EndVolume

-----------------------------------------------------------------------------
(* Reading the volume                                                      *)

(* _iter_clusters: the chain from a first cluster, at most n long.         *)
Clusters(start, n) ==
  LET c[k \in 1..n] == IF k = 1 THEN start ELSE fat[c[k - 1]]
  IN  [k \in 1..n |-> c[k]]

ClusterUnits(c) == SubSeq(image, (c - 2) * C + 1, (c - 1) * C)

DataOf(n) ==
  LET run == Clusters(first[n], count[n])
  IN  [k \in 1..(Len(run) * C) |-> ClusterUnits(run[(k - 1) \div C + 1])[((k - 1) % C) + 1]]

(* The entries of a directory end at the first zero.                       *)
Listed(d) ==
  LET units == DataOf(d)
      ends == {k \in 1..Len(units) : units[k] = Zero}
      last == IF ends = {} THEN Len(units) ELSE Min(ends) - 1
  IN  {units[k].of : k \in {j \in 1..last : units[j].kind = "entry"}}

-----------------------------------------------------------------------------
FolderNext ==
  \/ Ensure /\ UNCHANGED volumeVars
  \/ Emit
  \/ pc # "volume" /\ pc # "failed" /\ (\E e \in Edits : Edit(e)) /\ UNCHANGED volumeVars

folderVars == <<indexVars, pc, volumeVars>>

FolderSpec == VolumeInit /\ [][FolderNext]_folderVars

(* Properties                                                              *)

(* A volume that was completed is as long as announced, its bitmap covers  *)
(* every cluster, the directories list exactly what was scanned, and every *)
(* file has at its place what was read from it, padded with zeros: files   *)
(* that shrink, grow or vanish never move another.                         *)
VolumeReadsBack ==
  pc = "volume" =>
    /\ Len(image) = ClusterCount * C
    /\ bitmap * BitmapPerCluster >= ClusterCount
    /\ \A d \in Dirs \cup {Root} : Listed(d) = ChildrenOf(d, nodes)
    /\ \A f \in nodes \ Dirs : \A k \in 1..size[f] :
         DataOf(f)[k] = IF k <= got[f] THEN Data(f, k - 1) ELSE Zero

(* When the index was generated for this folder, every file of the volume  *)
(* is found by probing from the hash of its path, at its size; of files    *)
(* that differ only in case, one is.                                       *)
PackedFilesFound ==
  pc = "volume" /\ fresh =>
    /\ \A f \in nodes \cap Files :
         \E k \in 1..Len(index.rows) :
           /\ Key[index.rows[k].file] = Key[f]
           /\ index.rows[k].file = f => index.rows[k].size = size[f]
           /\ Reached(k)
    /\ ProbesEnd
=============================================================================
