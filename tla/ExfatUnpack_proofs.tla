------------------------- MODULE ExfatUnpack_proofs -------------------------
(***************************************************************************)
(* Proofs about a volume that is written and read back (ExfatVolume and    *)
(* ExfatUnpack), for any folder, any cluster and block size and any cache. *)
(***************************************************************************)
EXTENDS ExfatUnpack, Lemmas, FiniteSetTheorems, FunctionTheorems, SequenceTheorems, TLAPS

-----------------------------------------------------------------------------
(* The volume                                                              *)

(* The stages after the scan, after the bitmap's fixed point, and so on.   *)
Emitting == {"emit", "read", "volume"}
Chained == {"heap"} \cup Emitting
Laid == {"fat"} \cup Chained
Solved == {"assign"} \cup Laid
Scanned == {"bitmap"} \cup Solved

(* A scan: nodes with their sizes.                                         *)
IsScan(N, S) == Dirs \subseteq N /\ N \subseteq AllNodes /\ S \in [N \ Dirs -> Nat]

Placed == nodes \cup {Root}
Before(n) == ClustersBefore(n, nodes, size)

(* Where the units of a node begin in the image.                           *)
Offset(n) == (bitmap + 1 + Before(n)) * C

FolderTyped ==
  /\ walked \subseteq Files
  /\ folder \in [Files -> Nat \cup {Gone}]
  /\ rows \in Seq([file : Files, size : Nat \cup {Gone}])
  /\ index.rows \in Seq([file : Files, size : Nat \cup {Gone}])

ScanSound ==
  pc \in Scanned =>
    /\ IsScan(nodes, size)
    /\ content = 1 + Before(LastNode + 1)
    /\ bitmap \in Nat

LayoutSound ==
  /\ pc \in Solved => Need = bitmap
  /\ pc \in Laid =>
       /\ count = [n \in Placed |-> ClustersOf(n, nodes, size)]
       /\ first = [n \in Placed |-> IF count[n] = 0 THEN 0 ELSE 3 + bitmap + Before(n)]
  /\ pc \in Chained =>
       \A n \in Placed :
         /\ \A c \in first[n]..(first[n] + count[n] - 2) : fat[c] = c + 1
         /\ count[n] # 0 => fat[first[n] + count[n] - 1] = EndOfChain

(* The unit a node has at its place.                                       *)
UnitOf(n, k) ==
  IF IsDirectory(n) THEN DirectoryUnits(n)[k]
  ELSE IF k <= got[n] THEN Data(n, k - 1) ELSE Zero

Written(n) == \A k \in 1..(count[n] * C) : image[Offset(n) + k] = UnitOf(n, k)

Units ==
  [kind : {"data", "entry", "label", "bitmap", "upcase", "bits", "upcases", "zero"},
   of : Nat, at : Nat]

EmissionSound ==
  /\ pc \notin Emitting \cup {"failed"} => current = Root
  /\ pc \in Emitting =>
       /\ image \in Seq(Units)
       /\ current \in Placed
       /\ \A n \in Placed : n < current => Written(n)
       /\ \A n \in Placed : n <= current /\ HasBytes(n) => n \in DOMAIN got /\ got[n] \in Nat
  /\ pc \in {"emit", "volume"} =>
       /\ Len(image) = Offset(current + 1)
       /\ Written(current)
  /\ pc = "read" =>
       /\ HasBytes(current)
       /\ Len(image) = Offset(current) + got[current]
       /\ \A k \in 1..got[current] : image[Offset(current) + k] = Data(current, k - 1)
  /\ pc = "volume" => Rest = {}

(* A step of the writer, an edit of the folder at any time, or no step.    *)
VolumeStep ==
  \/ Ensure /\ UNCHANGED volumeVars
  \/ Emit
  \/ (\E e \in Edits : Edit(e)) /\ UNCHANGED volumeVars
  \/ UNCHANGED folderVars

VolumeInv == FolderTyped /\ ScanSound /\ LayoutSound /\ EmissionSound

(* Rounding up: enough, and nothing for nothing.                           *)
LEMMA CeilEnough ==
  ASSUME NEW a \in Nat, NEW b \in Nat \ {0}
  PROVE  /\ Ceil(a, b) \in Nat
         /\ Ceil(a, b) * b >= a
         /\ a = 0 => Ceil(a, b) = 0
         /\ a # 0 => Ceil(a, b) # 0
<1> DEFINE e == a + b - 1
<1>1. e \in Nat
  OBVIOUS
<1>2. PICK q \in Nat, r \in 0..(b - 1) : q = e \div b /\ r = e % b /\ e = q * b + r
  BY <1>1, DivMod
<1>3. Ceil(a, b) = q
  BY <1>2 DEF Ceil
<1>4. q * b \in Nat
  OBVIOUS
<1>5. q * b >= a
  BY <1>2, <1>4
<1>6. a = 0 => q = 0
  <2> SUFFICES ASSUME a = 0, q # 0 PROVE FALSE
    OBVIOUS
  <2>1. q * b >= b
    BY <1>2
  <2> QED BY <1>2, <1>4, <2>1
<1>7. a # 0 => q # 0
  BY <1>5
<1> QED BY <1>3, <1>5, <1>6, <1>7

LEMMA ScanFacts ==
  ASSUME NEW N, NEW S, IsScan(N, S)
  PROVE  /\ LastNode \in Nat
         /\ IsFiniteSet(N) /\ N \subseteq 1..LastNode /\ Root \notin N
         /\ \A d : IsFiniteSet(ChildrenOf(d, N)) /\ EntryUnits(d, N) \in Nat
         /\ \A n \in N \cup {Root} : ClustersOf(n, N, S) \in Nat
         /\ \A n \in N : ~IsDirectory(n) => n \in N \ Dirs
<1>1. LastNode \in Nat /\ IsFiniteSet(N) /\ N \subseteq 1..LastNode
  BY VolumeAssumption, FS_Subset, FS_CardinalityType DEF IsScan, LastNode
<1>2. Root \notin N
  BY <1>1 DEF Root
<1>3. ASSUME NEW d PROVE IsFiniteSet(ChildrenOf(d, N)) /\ EntryUnits(d, N) \in Nat
  <2>1. ChildrenOf(d, N) \subseteq N
    BY DEF ChildrenOf
  <2>2. IsFiniteSet(ChildrenOf(d, N)) /\ Cardinality(ChildrenOf(d, N)) \in Nat
    BY <1>1, <2>1, FS_Subset, FS_CardinalityType
  <2> QED BY <2>2 DEF EntryUnits
<1>4. ASSUME NEW n \in N \cup {Root} PROVE ClustersOf(n, N, S) \in Nat
  <2>1. CASE IsDirectory(n)
    <3>1. Ceil(EntryUnits(n, N), C) \in Nat
      BY <1>3, VolumeAssumption, CeilEnough
    <3> QED BY <2>1, <3>1 DEF ClustersOf
  <2>2. CASE ~IsDirectory(n)
    <3>1. S[n] \in Nat
      BY <2>2 DEF IsDirectory, IsScan
    <3> QED BY <2>2, <3>1, VolumeAssumption, CeilEnough DEF ClustersOf
  <2> QED BY <2>1, <2>2
<1> QED BY <1>1, <1>2, <1>3, <1>4 DEF IsDirectory

(* What the nodes take, one after the other, leaving nothing out between.  *)
LEMMA InFront ==
  ASSUME NEW N, NEW S, IsScan(N, S)
  PROVE  /\ ClustersBefore(0, N, S) = 0
         /\ \A n \in 0..(LastNode + 1) : ClustersBefore(n, N, S) \in Nat
         /\ \A n \in N \cup {Root} :
              ClustersBefore(n + 1, N, S) = ClustersBefore(n, N, S) + ClustersOf(n, N, S)
         /\ \A n \in N \cup {Root} : \A m \in (n + 1)..(LastNode + 1) :
              ClustersBefore(n, N, S) + ClustersOf(n, N, S) <= ClustersBefore(m, N, S)
         /\ \A m \in 0..(LastNode + 1) : \A n \in m..(LastNode + 1) :
              (\A k \in m..(n - 1) : k \notin N \cup {Root})
              => ClustersBefore(m, N, S) = ClustersBefore(n, N, S)
<1> DEFINE f == [m \in 0..LastNode |-> IF m \in N \cup {Root} THEN ClustersOf(m, N, S) ELSE 0]
<1>1. \A n : ClustersBefore(n, N, S) = SumBefore(f, n)
  BY DEF ClustersBefore
<1>2. LastNode \in Nat /\ N \cup {Root} \subseteq 0..LastNode
  BY ScanFacts DEF Root
<1>3. /\ \A k \in 0..LastNode : f[k] \in Nat
      /\ \A k \in N \cup {Root} : f[k] = ClustersOf(k, N, S)
      /\ \A k \in 0..LastNode : k \notin N \cup {Root} => f[k] = 0
  BY <1>2, ScanFacts
<1> HIDE DEF f
<1>4. \A n \in 0..(LastNode + 1) : SumBefore(f, n) \in Nat
  <2> TAKE n \in 0..(LastNode + 1)
  <2>1. n \in Nat /\ \A k \in 0..(n - 1) : f[k] \in Nat
    BY <1>2, <1>3
  <2> QED BY <2>1, SumNat
<1>5. \A n \in N \cup {Root} : SumBefore(f, n + 1) = SumBefore(f, n) + f[n]
  BY <1>2, RunningSum
<1>6. \A n \in N \cup {Root} : \A m \in (n + 1)..(LastNode + 1) :
        SumBefore(f, n) + f[n] <= SumBefore(f, m)
  <2> TAKE n \in N \cup {Root} 
  <2> TAKE m \in (n + 1)..(LastNode + 1)
  <2>1. n \in 0..(m - 1) /\ m \in Nat /\ \A k \in 0..(m - 1) : f[k] \in Nat
    BY <1>2, <1>3
  <2> QED BY <2>1, SumGrows
<1>7. \A m \in 0..(LastNode + 1) : \A n \in m..(LastNode + 1) :
        (\A k \in m..(n - 1) : k \notin N \cup {Root}) => SumBefore(f, m) = SumBefore(f, n)
  <2> TAKE m \in 0..(LastNode + 1) 
  <2> TAKE n \in m..(LastNode + 1)
  <2> HAVE \A k \in m..(n - 1) : k \notin N \cup {Root}
  <2>1. n \in Nat /\ m \in 0..n /\ \A k \in 0..(n - 1) : f[k] \in Nat
    BY <1>2, <1>3
  <2>2. \A k \in m..(n - 1) : f[k] = 0
    BY <1>2, <1>3
  <2> QED BY <2>1, <2>2, SumFlat
<1>8. SumBefore(f, 0) = 0
  BY RunningSum
<1> QED BY <1>1, <1>3, <1>4, <1>5, <1>6, <1>7, <1>8

LEMMA FilesFinite == Files \subseteq Nat /\ IsFiniteSet(Files)
BY VolumeAssumption, FolderAssumption, FS_Subset DEF AllNodes

LEMMA FolderTypedInit == VolumeInit => FolderTyped
<1> SUFFICES ASSUME VolumeInit PROVE FolderTyped
  OBVIOUS
<1>1. folder \in [Files -> Nat \cup {Gone}] /\ walked \subseteq Files
  BY FolderAssumption DEF VolumeInit, IndexInit
<1>2. rows \in Seq([file : Files, size : Nat \cup {Gone}])
  BY DEF VolumeInit, IndexInit
<1>3. index \in {NoIndex, Corrupt} \cup {IndexOf(content_) : content_ \in Earlier}
  BY DEF VolumeInit, IndexInit
<1>4. CASE index \in {NoIndex, Corrupt}
  <2>1. index.rows = <<>>
    BY <1>4 DEF NoIndex, Corrupt
  <2> QED BY <1>1, <1>2, <2>1 DEF FolderTyped
<1>5. ASSUME NEW held \in Earlier, index = IndexOf(held)
      PROVE  FolderTyped
  <2> DEFINE named == {f \in Kept(held) : ~\E g \in Kept(held) : g < f /\ Key[g] = Key[f]}
             listed == InOrder(named)
  <2>1. named \subseteq Files /\ named \subseteq Nat /\ IsFiniteSet(named)
    BY FilesFinite, FS_Subset DEF Kept
  <2>2. listed \in Seq(named)
    <3> HIDE DEF named
    <3> QED BY <2>1, InOrderSorts
  <2>3. index.rows = [k \in 1..Len(listed) |-> [file |-> listed[k], size |-> held[listed[k]]]]
    BY <1>5 DEF IndexOf
  <2>4. held \in [Files -> Nat \cup {Gone}]
    BY FolderAssumption
  <2> HIDE DEF named, listed
  <2>5. index.rows \in Seq([file : Files, size : Nat \cup {Gone}])
    <3>1. \A k \in 1..Len(listed) : listed[k] \in Files
      BY <2>1, <2>2, ElementOfSeq
    <3> QED BY <2>2, <2>3, <2>4, <3>1
  <2> QED BY <1>1, <1>2, <2>5 DEF FolderTyped
<1> QED BY <1>3, <1>4, <1>5

LEMMA FolderTypedStep == FolderTyped /\ VolumeStep => FolderTyped'
<1> SUFFICES ASSUME FolderTyped, VolumeStep PROVE FolderTyped'
  OBVIOUS
<1>1. CASE UNCHANGED <<folder, rows, index, walked>>
  BY <1>1 DEF FolderTyped
<1>2. CASE WalkFile
  <2>1. PICK f : f = CHOOSE g \in Files \ walked : \A x \in Files \ walked : g <= x
    OBVIOUS
  <2>2. \E g \in Files \ walked : \A x \in Files \ walked : g <= x
    <3>1. Files \ walked # {} /\ Files \ walked \subseteq Nat
      BY <1>2, FilesFinite DEF WalkFile, FolderTyped
    <3> QED BY <3>1, LeastElement
  <2>3. f \in Files
    BY <2>1, <2>2
  <2>4. [file |-> f, size |-> folder[f]] \in [file : Files, size : Nat \cup {Gone}]
    BY <2>3 DEF FolderTyped
  <2>5. /\ walked' = walked \cup {f} /\ UNCHANGED <<folder, index>>
        /\ rows' = rows \/ rows' = Append(rows, [file |-> f, size |-> folder[f]])
    BY <1>2, <2>1 DEF WalkFile
  <2>6. rows' \in Seq([file : Files, size : Nat \cup {Gone}])
    <3>1. PICK row : row = [file |-> f, size |-> folder[f]]
      OBVIOUS
    <3>2. rows \in Seq([file : Files, size : Nat \cup {Gone}])
      BY DEF FolderTyped
    <3>3. Append(rows, row) \in Seq([file : Files, size : Nat \cup {Gone}])
      BY <2>4, <3>1, <3>2, AppendProperties
    <3> QED BY <2>5, <3>1, <3>2, <3>3
  <2> QED BY <2>3, <2>5, <2>6 DEF FolderTyped
<1>3. CASE WriteIndex
  BY <1>3 DEF WriteIndex, FolderTyped
<1>4. CASE \E e \in Edits : Edit(e)
  <2>1. PICK e \in Edits : Edit(e)
    BY <1>4
  <2>2. e.file \in Files /\ e.size \in Nat \cup {Gone}
    BY FolderAssumption
  <2> QED BY <2>1, <2>2 DEF Edit, FolderTyped
<1>5. \/ UNCHANGED <<folder, rows, index, walked>> \/ WalkFile \/ WriteIndex
      \/ \E e \in Edits : Edit(e)
  <2>1. CASE Ensure
    BY <2>1 DEF Ensure, EnsureSkips, EnsureBuilds, EndWalk, FillSlot, indexVars
  <2>2. CASE Emit
    BY <2>2 DEF Emit, ScanTree, ScanFails, volumeVars, SolveBitmap, Assign, BuildFat, EmitRegions, EmitNode, OpenFile,
                ReadChunk, PadFile, EndVolume, indexVars
  <2>3. CASE UNCHANGED folderVars
    BY <2>3 DEF folderVars, indexVars
  <2> QED BY <2>1, <2>2, <2>3 DEF VolumeStep
<1> QED BY <1>1, <1>2, <1>3, <1>4, <1>5

-----------------------------------------------------------------------------
(* Scan and layout                                                         *)

LEMMA ScanTreeSound == FolderTyped /\ ScanTree => ScanSound' /\ LayoutSound'
<1> SUFFICES ASSUME FolderTyped, ScanTree PROVE ScanSound' /\ LayoutSound'
  OBVIOUS
<1>1. pc' = "bitmap" /\ bitmap' = 1
  BY DEF ScanTree
<1>2. content' = 1 + ClustersBefore(LastNode + 1, nodes', size')
  BY DEF ScanTree
<1>3. Dirs \subseteq nodes' /\ nodes' \subseteq AllNodes
      /\ \A n \in nodes' \ Dirs : n \in {IndexNode, TmpNode} \/ n \in Present
  BY DEF ScanTree, AllNodes, Present, Kept
<1>4. size' \in [nodes' \ Dirs -> Nat]
  <2>1. size' = [n \in nodes' \ Dirs |->
                   IF n = IndexNode THEN Len(index.rows) ELSE IF n = TmpNode THEN 1 ELSE folder[n]]
    BY DEF ScanTree
  <2>2. Len(index.rows) \in Nat
    BY DEF FolderTyped
  <2>3. \A n \in Present : folder[n] \in Nat
    BY DEF FolderTyped, Present
  <2> QED BY <1>3, <2>1, <2>2, <2>3
<1> QED BY <1>1, <1>2, <1>3, <1>4
     DEF ScanSound, LayoutSound, IsScan, Before, Scanned, Solved, Laid, Chained, Emitting

LEMMA SolveBitmapSound == ScanSound /\ SolveBitmap => ScanSound' /\ LayoutSound'
<1> SUFFICES ASSUME ScanSound, SolveBitmap PROVE ScanSound' /\ LayoutSound'
  OBVIOUS
<1>1. /\ UNCHANGED <<nodes, size, content>> /\ pc = "bitmap"
      /\ \/ Need = bitmap /\ pc' = "assign" /\ bitmap' = bitmap
         \/ bitmap' = Need /\ pc' = "bitmap"
  <2>1. CASE Need = bitmap
    BY <2>1 DEF SolveBitmap
  <2>2. CASE Need # bitmap
    BY <2>2 DEF SolveBitmap
  <2> QED BY <2>1, <2>2
<1>2. IsScan(nodes, size) /\ content = 1 + Before(LastNode + 1) /\ bitmap \in Nat
  BY <1>1 DEF ScanSound, Scanned
<1>3. Before(LastNode + 1) \in Nat
  <2>1. LastNode + 1 \in 0..(LastNode + 1)
    BY <1>2, ScanFacts
  <2> QED BY <1>2, <2>1, InFront DEF Before
<1>4. Need \in Nat
  <2>1. ClusterCount \in Nat
    BY <1>2, <1>3 DEF ClusterCount
  <2> QED BY <2>1, VolumeAssumption, CeilEnough DEF Need
<1>5. Before(LastNode + 1)' = Before(LastNode + 1)
  BY <1>1 DEF Before
<1>6. ScanSound'
  BY <1>1, <1>2, <1>4, <1>5 DEF ScanSound, IsScan
<1>7. pc' = "assign" => Need' = bitmap'
  BY <1>1 DEF Need, ClusterCount
<1>8. LayoutSound'
  BY <1>1, <1>7 DEF LayoutSound, Solved, Laid, Chained, Emitting
<1> QED BY <1>6, <1>8

LEMMA AssignSound == ScanSound /\ LayoutSound /\ Assign => ScanSound' /\ LayoutSound'
<1> SUFFICES ASSUME ScanSound, LayoutSound, Assign PROVE ScanSound' /\ LayoutSound'
  OBVIOUS
<1>1. UNCHANGED <<nodes, size, content, bitmap>> /\ pc = "assign" /\ pc' = "fat"
  BY DEF Assign
<1>2. /\ count' = [n \in Placed |-> ClustersOf(n, nodes, size)]
      /\ first' = [n \in Placed |-> IF count'[n] = 0 THEN 0 ELSE 3 + bitmap + Before(n)]
  <2>1. bitmap \in Nat /\ IsScan(nodes, size)
    BY <1>1 DEF ScanSound, Scanned, Solved
  <2>2. \A n \in Placed : Before(n) \in Nat
    <3>1. LastNode \in Nat /\ Placed \subseteq 0..(LastNode + 1)
      BY <2>1, ScanFacts DEF Placed, Root
    <3> QED BY <2>1, <3>1, InFront DEF Before
  <2>3. \A n \in Placed : 2 + bitmap + 1 + Before(n) = 3 + bitmap + Before(n)
    BY <2>1, <2>2
  <2>4. count' = [n \in Placed |-> ClustersOf(n, nodes, size)]
    BY DEF Assign, Placed
  <2>5. first' = [n \in Placed |-> IF count'[n] = 0 THEN 0 ELSE 2 + bitmap + 1 + Before(n)]
    BY DEF Assign, Placed, Before
  <2> QED BY <2>3, <2>4, <2>5
<1>3. \A n : Before(n)' = Before(n)
  BY <1>1 DEF Before
<1>4. ScanSound'
  BY <1>1, <1>3 DEF ScanSound, IsScan, Scanned, Solved, Laid
<1>5. Need' = bitmap'
  BY <1>1 DEF Need, ClusterCount, LayoutSound, Solved
<1>6. Placed' = Placed
  BY <1>1 DEF Placed
<1>7. LayoutSound'
  BY <1>1, <1>2, <1>3, <1>5, <1>6 DEF LayoutSound, Solved, Laid, Chained, Emitting
<1> QED BY <1>4, <1>7

(* The runs of clusters are apart, so that no chain ends within another.   *)
LEMMA BuildFatSound == ScanSound /\ LayoutSound /\ BuildFat => ScanSound' /\ LayoutSound'
<1> SUFFICES ASSUME ScanSound, LayoutSound, BuildFat PROVE ScanSound' /\ LayoutSound'
  OBVIOUS
<1>1. UNCHANGED <<nodes, size, content, bitmap, first, count>> /\ pc = "fat" /\ pc' = "heap"
  BY DEF BuildFat
<1>2. \A n : Before(n)' = Before(n)
  BY <1>1 DEF Before
<1>3. ScanSound'
  BY <1>1, <1>2 DEF ScanSound, IsScan, Scanned, Solved, Laid, Chained
<1>4. Need' = bitmap' /\ Placed' = Placed
  BY <1>1 DEF Need, ClusterCount, Placed, LayoutSound, Solved, Laid
<1>5. /\ count = [n \in Placed |-> ClustersOf(n, nodes, size)]
      /\ first = [n \in Placed |-> IF count[n] = 0 THEN 0 ELSE 3 + bitmap + Before(n)]
      /\ bitmap \in Nat /\ IsScan(nodes, size)
  BY <1>1 DEF LayoutSound, ScanSound, Scanned, Solved, Laid
<1>6. LastNode \in Nat /\ Placed \subseteq 0..LastNode
      /\ \A n \in Placed : count[n] \in Nat /\ Before(n) \in Nat
  <2>1. LastNode \in Nat /\ Placed \subseteq 0..LastNode /\ \A n \in Placed : count[n] \in Nat
    BY <1>5, ScanFacts DEF Placed, Root
  <2>2. \A n \in Placed : n \in 0..(LastNode + 1)
    BY <2>1
  <2> QED BY <1>5, <2>1, <2>2, InFront DEF Before
<1>7. ASSUME NEW n \in Placed, NEW c \in first[n]..(first[n] + count[n] - 2)
      PROVE  fat'[c] = c + 1
  <2> DEFINE runs == {<<2, bitmap>>, <<2 + bitmap, 1>>}
                       \cup {<<first[m], count[m]>> :
                      m \in {x \in nodes \cup {Root} : first[x] >= 2}}
             EndOf(run) == run[1] + run[2] - 1
  <2>1. fat' = [x \in UNION {run[1]..EndOf(run) : run \in runs} |->
                  IF \E run \in runs : x = EndOf(run) THEN EndOfChain ELSE x + 1]
    BY DEF BuildFat
  <2>2. count[n] # 0 /\ first[n] = 3 + bitmap + Before(n) /\ c \in Int
    BY <1>5, <1>6, <1>7
  <2>3. first[n] >= 2 /\ first[n] \in Nat
    BY <1>5, <1>6, <2>2
  <2>4. <<first[n], count[n]>> \in runs
    BY <2>3 DEF Placed
  <2>5. c \in <<first[n], count[n]>>[1]..EndOf(<<first[n], count[n]>>)
    BY <1>6, <2>2, <2>3
  <2>6. c \in UNION {run[1]..EndOf(run) : run \in runs}
    <3> HIDE DEF runs, EndOf
    <3> QED BY <2>4, <2>5
  <2>7. ASSUME NEW m \in Placed, first[m] >= 2
        PROVE  c # first[m] + count[m] - 1
    <3>1. count[m] # 0 /\ first[m] = 3 + bitmap + Before(m)
      BY <1>5, <1>6, <2>7
    <3>2. CASE m = n
      BY <1>6, <2>2, <2>3, <3>2
    <3>3. CASE m < n
      <4>1. n \in (m + 1)..(LastNode + 1)
        BY <1>6, <3>3
      <4>2. Before(m) + count[m] <= Before(n)
        BY <1>5, <4>1, InFront DEF Before, Placed
      <4> QED BY <1>5, <1>6, <2>2, <3>1, <4>2
    <3>4. CASE m > n
      <4>1. m \in (n + 1)..(LastNode + 1)
        BY <1>6, <3>4
      <4>2. Before(n) + count[n] <= Before(m)
        BY <1>5, <4>1, InFront DEF Before, Placed
      <4> QED BY <1>5, <1>6, <2>2, <3>1, <4>2
    <3> QED BY <1>6, <3>2, <3>3, <3>4
  <2>8. \A run \in runs : c # EndOf(run)
    <3>1. c # 2 + bitmap - 1 /\ c # 2 + bitmap + 1 - 1
      BY <1>5, <1>6, <2>2
    <3> QED BY <2>7, <3>1 DEF Placed
  <2> HIDE DEF runs, EndOf
  <2> QED BY <2>1, <2>6, <2>8
<1>8. ASSUME NEW n \in Placed, count[n] # 0
      PROVE  fat'[first[n] + count[n] - 1] = EndOfChain
  <2> DEFINE runs == {<<2, bitmap>>, <<2 + bitmap, 1>>}
                       \cup {<<first[m], count[m]>> :
                      m \in {x \in nodes \cup {Root} : first[x] >= 2}}
             EndOf(run) == run[1] + run[2] - 1
             run_ == <<first[n], count[n]>>
  <2>1. fat' = [x \in UNION {run[1]..EndOf(run) : run \in runs} |->
                  IF \E run \in runs : x = EndOf(run) THEN EndOfChain ELSE x + 1]
    BY DEF BuildFat
  <2>2. first[n] \in Nat /\ first[n] >= 2
    BY <1>5, <1>6, <1>8
  <2>3. run_ \in runs
    BY <2>2 DEF Placed
  <2>4. EndOf(run_) = first[n] + count[n] - 1 /\ EndOf(run_) \in run_[1]..EndOf(run_)
    BY <1>6, <1>8, <2>2
  <2> HIDE DEF runs, EndOf, run_
  <2>5. EndOf(run_) \in UNION {run[1]..EndOf(run) : run \in runs}
    BY <2>3, <2>4
  <2> QED BY <2>1, <2>3, <2>4, <2>5
<1>9. LayoutSound'
  BY <1>1, <1>2, <1>4, <1>5, <1>7, <1>8 DEF LayoutSound
<1> QED BY <1>3, <1>9

LEMMA LayoutStep ==
  FolderTyped /\ ScanSound /\ LayoutSound /\ VolumeStep => ScanSound' /\ LayoutSound'
<1> SUFFICES ASSUME FolderTyped, ScanSound, LayoutSound, VolumeStep
             PROVE  ScanSound' /\ LayoutSound'
  OBVIOUS
<1>1. ASSUME UNCHANGED <<nodes, size, content, bitmap, count, first, fat>>,
             pc' = pc \/ (pc \in Chained /\ pc' \in Chained) \/ pc' \notin Scanned
      PROVE  ScanSound' /\ LayoutSound'
  <2>1. \A n : Before(n)' = Before(n)
    BY <1>1 DEF Before
  <2>2. Need' = Need /\ Placed' = Placed
    BY <1>1 DEF Need, ClusterCount, Placed
  <2>3. ScanSound'
    BY <1>1, <2>1 DEF ScanSound, IsScan, Scanned, Solved, Laid
  <2>4. LayoutSound'
    BY <1>1, <2>1, <2>2 DEF LayoutSound, Scanned, Solved, Laid
  <2> QED BY <2>3, <2>4
<1>2. CASE ScanTree
  BY <1>2, ScanTreeSound
<1>3. CASE SolveBitmap
  BY <1>3, SolveBitmapSound
<1>10. CASE ScanFails
  BY <1>1, <1>10 DEF ScanFails, volumeVars, Scanned, Solved, Laid, Chained, Emitting
<1>4. CASE Assign
  BY <1>4, AssignSound
<1>5. CASE BuildFat
  BY <1>5, BuildFatSound
<1>6. CASE EmitRegions \/ EmitNode \/ OpenFile \/ ReadChunk \/ PadFile \/ EndVolume
  BY <1>1, <1>6 DEF EmitRegions, EmitNode, OpenFile, ReadChunk, PadFile, EndVolume, volumeVars,
                    Scanned, Solved, Laid, Chained, Emitting
<1>7. CASE Ensure /\ UNCHANGED volumeVars
  BY <1>1, <1>7 DEF Ensure, EnsureSkips, EnsureBuilds, WalkFile, EndWalk, FillSlot, WriteIndex,
                    volumeVars, Scanned, Solved, Laid, Chained, Emitting
<1>8. CASE (\E e \in Edits : Edit(e)) /\ UNCHANGED volumeVars
  BY <1>1, <1>8 DEF Edit, volumeVars
<1>9. CASE UNCHANGED folderVars
  BY <1>1, <1>9 DEF folderVars, volumeVars
<1> QED BY <1>2, <1>3, <1>4, <1>5, <1>6, <1>7, <1>8, <1>9, <1>10 DEF VolumeStep, Emit

-----------------------------------------------------------------------------
(* Emission                                                                *)

LEMMA ZerosAre ==
  ASSUME NEW n \in Nat
  PROVE  Zeros(n) \in Seq(Units) /\ Len(Zeros(n)) = n /\ \A k \in 1..n : Zeros(n)[k] = Zero
<1>1. Zero \in Units
  BY DEF Zero, Meta, Units
<1> QED BY <1>1 DEF Zeros

(* A directory's units: the root's own three, one per child in ascending   *)
(* order, and zeros up to the end of its last cluster.                     *)
OwnUnits(d) == IF d = Root THEN 3 ELSE 0

LEMMA DirectoryUnitsAre ==
  ASSUME IsScan(nodes, size), NEW d, IsDirectory(d),
         count[d] = ClustersOf(d, nodes, size)
  PROVE  LET units == DirectoryUnits(d)
             listed == InOrder(ChildrenOf(d, nodes))
             own == OwnUnits(d)
         IN  /\ units \in Seq(Units)
             /\ Len(units) = count[d] * C
             /\ own + Len(listed) <= count[d] * C
             /\ \A k \in 1..own : units[k] # Zero /\ units[k].kind # "entry"
             /\ \A k \in 1..Len(listed) : units[own + k] = EntryUnit(listed[k])
             /\ \A k \in (own + Len(listed) + 1)..(count[d] * C) : units[k] = Zero
<1> DEFINE kids == ChildrenOf(d, nodes)
           listed == InOrder(kids)
           head == IF d = Root THEN <<Meta("label"), Meta("bitmap"), Meta("upcase")>> ELSE <<>>
           entries == [k \in 1..Len(listed) |-> EntryUnit(listed[k])]
           body == head \o entries
           units == body \o Zeros(count[d] * C - Len(body))
           own == OwnUnits(d)
<1>1. DirectoryUnits(d) = units
  BY DEF DirectoryUnits
<1>2. kids \subseteq Nat /\ IsFiniteSet(kids)
  BY ScanFacts DEF ChildrenOf
<1>3. listed \in Seq(kids) /\ Len(listed) = Cardinality(kids)
  <2> HIDE DEF kids
  <2> QED BY <1>2, InOrderSorts
<1>4. head \in Seq(Units) /\ Len(head) = own /\ own \in Nat
      /\ \A k \in 1..own : head[k] # Zero /\ head[k].kind # "entry"
  <2>1. \A what \in {"label", "bitmap", "upcase"} :
          Meta(what) \in Units /\ Meta(what) # Zero /\ Meta(what).kind # "entry"
    BY DEF Meta, Units, Zero
  <2>2. CASE d = Root
    <3>1. PICK l \in Units, b \in Units, u \in Units :
            /\ l = Meta("label") /\ b = Meta("bitmap") /\ u = Meta("upcase")
            /\ l # Zero /\ b # Zero /\ u # Zero
            /\ l.kind # "entry" /\ b.kind # "entry" /\ u.kind # "entry"
      BY <2>1
    <3>2. head = <<l, b, u>> /\ own = 3
      BY <2>2, <3>1 DEF OwnUnits
    <3>3. <<l, b, u>> \in Seq(Units) /\ Len(<<l, b, u>>) = 3
      OBVIOUS
    <3>4. \A k \in 1..3 : <<l, b, u>>[k] \in {l, b, u}
      OBVIOUS
    <3> QED BY <3>1, <3>2, <3>3, <3>4
  <2>3. CASE d # Root
    <3>1. head = <<>> /\ own = 0
      BY <2>3 DEF OwnUnits
    <3> QED BY <3>1
  <2> QED BY <2>2, <2>3
<1>5. PICK n \in Nat : n = Len(listed)
  BY <1>3
<1>6. /\ entries \in Seq(Units) /\ Len(entries) = n
      /\ \A k \in 1..n : entries[k] = EntryUnit(listed[k])
  <2>1. \A k \in 1..Len(listed) : listed[k] \in Nat
    BY <1>2, <1>3, ElementOfSeq
  <2> HIDE DEF listed
  <2>2. \A k \in 1..Len(listed) : EntryUnit(listed[k]) \in Units
    BY <2>1 DEF EntryUnit, Units
  <2> QED BY <1>5, <2>2
<1> HIDE DEF head, entries, listed, own
<1>7. body \in Seq(Units) /\ Len(body) = own + n
      /\ \A k \in 1..(own + n) : body[k] = IF k <= own THEN head[k] ELSE entries[k - own]
  BY <1>4, <1>6, ConcatProperties
<1> HIDE DEF body
<1>8. PICK room \in Nat : room = count[d] * C /\ own + n <= room
  <2>1. EntryUnits(d, nodes) = own + n
    BY <1>3, <1>5, <1>4 DEF EntryUnits, own, OwnUnits, kids
  <2>2. PICK c \in Nat : c = Ceil(own + n, C) /\ c * C >= own + n /\ (own + n # 0 => c # 0)
    <3>1. own + n \in Nat /\ C \in Nat \ {0}
      BY <1>4, VolumeAssumption
    <3>2. PICK a \in Nat : a = own + n
      BY <3>1
    <3> QED BY <3>1, <3>2, CeilEnough
  <2>3. count[d] = IF c = 0 THEN 1 ELSE c
    BY <2>1, <2>2 DEF ClustersOf
  <2> QED BY <1>4, <2>2, <2>3, VolumeAssumption
<1>9. PICK rest \in Nat : rest = room - (own + n) /\ units = body \o Zeros(rest)
  <2>1. room - (own + n) \in Nat
    BY <1>4, <1>8
  <2> QED BY <1>7, <1>8, <2>1
<1> HIDE DEF units
<1>10. units \in Seq(Units) /\ Len(units) = room
       /\ \A k \in 1..room : units[k] = IF k <= own + n THEN body[k] ELSE Zero
  <2>1. /\ Zeros(rest) \in Seq(Units) /\ Len(Zeros(rest)) = rest
        /\ \A k \in 1..rest : Zeros(rest)[k] = Zero
    BY ZerosAre
  <2>2. PICK z : z = Zeros(rest)
    OBVIOUS
  <2>3. units \in Seq(Units) /\ Len(units) = own + n + rest
        /\ \A k \in 1..(own + n + rest) :
             units[k] = IF k <= own + n THEN body[k] ELSE z[k - (own + n)]
    <3>1. units = body \o z /\ z \in Seq(Units) /\ Len(z) = rest
      BY <1>9, <2>1, <2>2
    <3>2. PICK b \in Seq(Units) : b = body
      BY <1>7
    <3>3. /\ b \o z \in Seq(Units) /\ Len(b \o z) = Len(b) + Len(z)
          /\ \A k \in 1..(Len(b) + Len(z)) :
               (b \o z)[k] = IF k <= Len(b) THEN b[k] ELSE z[k - Len(b)]
      BY <3>1, ConcatProperties
    <3>4. Len(b) = own + n /\ units = b \o z
      BY <1>7, <3>1, <3>2
    <3> QED BY <3>1, <3>2, <3>3, <3>4
  <2>4. own + n + rest = room /\ \A k \in 1..room : k > own + n => k - (own + n) \in 1..rest
    BY <1>4, <1>8, <1>9
  <2>5. ASSUME NEW k \in 1..room
        PROVE  units[k] = IF k <= own + n THEN body[k] ELSE Zero
    <3>1. k \in 1..(own + n + rest) /\ k \in Int /\ own + n \in Int
      BY <1>4, <2>4
    <3>2. CASE k <= own + n
      BY <2>3, <3>1, <3>2
    <3>3. CASE k > own + n
      BY <2>1, <2>2, <2>3, <2>4, <3>1, <3>3
    <3> QED BY <3>1, <3>2, <3>3
  <2> QED BY <2>3, <2>4, <2>5
<1>11. \A k \in 1..own : units[k] # Zero /\ units[k].kind # "entry"
  BY <1>4, <1>7, <1>8, <1>10
<1>12. \A k \in 1..n : units[own + k] = EntryUnit(listed[k])
  <2> TAKE k \in 1..n
  <2>1. own + k \in 1..room /\ own + k \in 1..(own + n) /\ own + k <= own + n /\ ~(own + k <= own)
        /\ (own + k) - own = k
    BY <1>4, <1>8
  <2> QED BY <1>6, <1>7, <1>10, <2>1
<1>13. \A k \in (own + n + 1)..room : units[k] = Zero
  BY <1>4, <1>8, <1>10
<1> QED BY <1>1, <1>5, <1>8, <1>10, <1>11, <1>12, <1>13 DEF own, listed, kids

LEMMA Multiples ==
  ASSUME NEW a \in Nat, NEW b \in Nat, NEW c \in Nat
  PROVE  /\ a * c \in Nat
         /\ (a + b) * c = a * c + b * c
         /\ a <= b => a * c <= b * c
OBVIOUS

(* Where the nodes are: one behind the other.                              *)
LEMMA Places ==
  ASSUME ScanSound, LayoutSound, pc \in Laid
  PROVE  /\ LastNode \in Nat /\ Placed \subseteq 0..LastNode /\ bitmap \in Nat
         /\ IsScan(nodes, size)
         /\ \A n \in 0..(LastNode + 1) : Offset(n) \in Nat
         /\ \A n \in Placed : /\ count[n] \in Nat /\ count[n] * C \in Nat
                              /\ count[n] = ClustersOf(n, nodes, size)
                              /\ Offset(n + 1) = Offset(n) + count[n] * C
         /\ \A n \in Placed : \A m \in (n + 1)..(LastNode + 1) :
              Offset(n) + count[n] * C <= Offset(m)
         /\ \A m \in 0..(LastNode + 1) : \A n \in m..(LastNode + 1) :
              (\A k \in m..(n - 1) : k \notin Placed) => Offset(m) = Offset(n)
         /\ \A n \in Placed : ~IsDirectory(n) =>
              /\ n \in nodes \ Dirs /\ size[n] \in Nat
              /\ size[n] <= count[n] * C
              /\ size[n] = 0 => count[n] = 0
         /\ Offset(Root) = (bitmap + 1) * C
<1>1. IsScan(nodes, size) /\ bitmap \in Nat /\ count = [n \in Placed |-> ClustersOf(n, nodes, size)]
  BY DEF ScanSound, LayoutSound, Scanned, Solved, Laid
<1>2. /\ LastNode \in Nat /\ Placed \subseteq 0..LastNode
      /\ \A n \in Placed : count[n] = ClustersOf(n, nodes, size) /\ count[n] \in Nat
  BY <1>1, ScanFacts DEF Placed, Root
<1>3. C \in Nat \ {0}
  BY VolumeAssumption
<1>4. /\ Before(0) = 0
      /\ \A n \in 0..(LastNode + 1) : Before(n) \in Nat
      /\ \A n \in Placed : Before(n + 1) = Before(n) + count[n]
      /\ \A n \in Placed : \A m \in (n + 1)..(LastNode + 1) : Before(n) + count[n] <= Before(m)
      /\ \A m \in 0..(LastNode + 1) : \A n \in m..(LastNode + 1) :
              (\A k \in m..(n - 1) : k \notin Placed) => Before(m) = Before(n)
  BY <1>1, <1>2, InFront DEF Before, Placed
<1>5. \A n \in 0..(LastNode + 1) : Offset(n) \in Nat /\ bitmap + 1 + Before(n) \in Nat
  BY <1>1, <1>3, <1>4, Multiples DEF Offset
<1>6. ASSUME NEW n \in Placed
      PROVE  /\ count[n] * C \in Nat
             /\ (bitmap + 1 + Before(n) + count[n]) * C = Offset(n) + count[n] * C
  <2>1. n \in 0..(LastNode + 1)
    BY <1>2
  <2>2. bitmap + 1 + Before(n) \in Nat /\ count[n] \in Nat
    BY <1>2, <1>5, <2>1
  <2> QED BY <1>3, <2>2, Multiples DEF Offset
<1>7. \A n \in Placed : Offset(n + 1) = Offset(n) + count[n] * C
  <2> TAKE n \in Placed
  <2>1. n \in 0..(LastNode + 1)
    BY <1>2
  <2>2. bitmap + 1 + Before(n + 1) = bitmap + 1 + Before(n) + count[n]
    <3>1. Before(n) \in Nat /\ count[n] \in Nat /\ Before(n + 1) = Before(n) + count[n]
      BY <1>2, <1>4, <2>1
    <3> QED BY <1>1, <3>1
  <2> QED BY <1>6, <2>2 DEF Offset
<1>8. ASSUME NEW n \in Placed, NEW m \in (n + 1)..(LastNode + 1)
      PROVE  Offset(n) + count[n] * C <= Offset(m)
  <2>1. m \in 0..(LastNode + 1) /\ n \in 0..(LastNode + 1)
    BY <1>2
  <2>2. Before(n) + count[n] <= Before(m)
    BY <1>4
  <2>3. PICK a \in Nat, b \in Nat : /\ a = bitmap + 1 + Before(n) + count[n]
                                   /\ b = bitmap + 1 + Before(m)
    <3>1. bitmap + 1 + Before(n) + count[n] \in Nat /\ bitmap + 1 + Before(m) \in Nat
      BY <1>2, <1>5, <2>1
    <3> QED BY <3>1
  <2>4. a <= b
    <3>1. Before(n) \in Nat /\ Before(m) \in Nat /\ count[n] \in Nat
      BY <1>2, <1>4, <2>1
    <3> QED BY <1>1, <2>2, <2>3, <3>1
  <2>5. a * C <= b * C
    BY <1>3, <2>4, Multiples
  <2> QED BY <1>6, <2>3, <2>5 DEF Offset
<1>9. \A n \in Placed : ~IsDirectory(n) =>
        /\ n \in nodes \ Dirs /\ size[n] \in Nat
        /\ size[n] <= count[n] * C
        /\ size[n] = 0 => count[n] = 0
  <2> TAKE n \in Placed
  <2> HAVE ~IsDirectory(n)
  <2>1. n \in nodes \ Dirs
    BY DEF Placed, IsDirectory
  <2>2. size[n] \in Nat /\ count[n] = Ceil(size[n], C)
    BY <1>1, <1>2, <2>1 DEF IsScan, ClustersOf
  <2> QED BY <1>3, <2>1, <2>2, CeilEnough
<1>10. Offset(Root) = (bitmap + 1) * C
  BY <1>1, <1>4 DEF Offset, Root
<1>11. \A m \in 0..(LastNode + 1) : \A n \in m..(LastNode + 1) :
         (\A k \in m..(n - 1) : k \notin Placed) => Offset(m) = Offset(n)
  BY <1>4 DEF Offset
<1> QED BY <1>1, <1>2, <1>5, <1>6, <1>7, <1>8, <1>9, <1>10, <1>11

LEMMA Fixed ==
  ASSUME UNCHANGED <<nodes, size, bitmap, count>>
  PROVE  /\ Placed' = Placed
         /\ \A n : /\ Offset(n)' = Offset(n)
                   /\ DirectoryUnits(n)' = DirectoryUnits(n)
                   /\ HasBytes(n)' = HasBytes(n)
<1>1. Placed' = Placed
  BY DEF Placed
<1>2. \A n : Before(n)' = Before(n)
  BY DEF Before
<1>3. \A n : Offset(n)' = Offset(n)
  BY <1>2 DEF Offset
<1>4. \A n : DirectoryUnits(n)' = DirectoryUnits(n)
  BY DEF DirectoryUnits
<1>5. \A n : HasBytes(n)' = HasBytes(n)
  BY DEF HasBytes
<1> QED BY <1>1, <1>3, <1>4, <1>5

(* What was emitted stays, as long as nothing in front of the end changes. *)
LEMMA WrittenStays ==
  ASSUME ScanSound, LayoutSound, pc \in Laid,
         UNCHANGED <<nodes, size, bitmap, count>>,
         NEW n \in Placed, Written(n),
         Len(image) \in Nat, Offset(n) + count[n] * C <= Len(image),
         \A j \in 1..Len(image) : image'[j] = image[j],
         HasBytes(n) => got'[n] = got[n]
  PROVE  Written(n)'
<1>1. Offset(n)' = Offset(n) /\ DirectoryUnits(n)' = DirectoryUnits(n) /\ count' = count
  BY Fixed
<1>2. n \in 0..(LastNode + 1) /\ Offset(n) \in Nat /\ count[n] * C \in Nat
  BY Places
<1> SUFFICES ASSUME NEW k \in 1..(count[n] * C)
             PROVE  image'[Offset(n) + k] = UnitOf(n, k)'
  BY <1>1 DEF Written
<1>3. image'[Offset(n) + k] = UnitOf(n, k)
  <2>1. Offset(n) + k \in 1..Len(image)
    BY <1>2
  <2> QED BY <2>1 DEF Written
<1>4. UnitOf(n, k)' = UnitOf(n, k)
  <2>1. CASE IsDirectory(n)
    BY <1>1, <2>1 DEF UnitOf
  <2>2. CASE HasBytes(n)
    BY <2>2 DEF UnitOf, HasBytes
  <2>3. CASE ~IsDirectory(n) /\ ~HasBytes(n)
    <3>1. size[n] = 0 /\ count[n] = 0
      BY <2>3, Places DEF HasBytes
    <3>2. 1..(count[n] * C) = {}
      BY <3>1, VolumeAssumption
    <3> QED BY <3>2
  <2> QED BY <2>1, <2>2, <2>3
<1> QED BY <1>3, <1>4

LEMMA Longer ==
  ASSUME image \in Seq(Units), NEW u \in Seq(Units), image' = image \o u
  PROVE  /\ image' \in Seq(Units) /\ Len(image) \in Nat
         /\ Len(image') = Len(image) + Len(u)
         /\ \A j \in 1..Len(image) : image'[j] = image[j]
         /\ \A k \in 1..Len(u) : image'[Len(image) + k] = u[k]
<1>1. PICK a \in Seq(Units) : a = image
  OBVIOUS
<1>2. /\ a \o u \in Seq(Units) /\ Len(a \o u) = Len(a) + Len(u)
      /\ \A k \in 1..(Len(a) + Len(u)) : (a \o u)[k] = IF k <= Len(a) THEN a[k] ELSE u[k - Len(a)]
  BY ConcatProperties
<1>3. PICK b : b = a \o u
  OBVIOUS
<1>4. PICK l \in Nat, m \in Nat : l = Len(a) /\ m = Len(u)
  OBVIOUS
<1>5. \A j \in 1..l : b[j] = a[j]
  BY <1>2, <1>3, <1>4
<1>6. \A k \in 1..m : b[l + k] = u[k]
  <2> TAKE k \in 1..m
  <2>1. l + k \in 1..(l + m) /\ ~(l + k <= l) /\ (l + k) - l = k
    OBVIOUS
  <2> QED BY <1>2, <1>3, <1>4, <2>1
<1> QED BY <1>1, <1>2, <1>3, <1>4, <1>5, <1>6

(* What holds of a node in the next state holds of the node emitted then.  *)
LEMMA AtCurrent ==
  ASSUME NEW n, n = current', UNCHANGED <<nodes, size, bitmap, count>>
  PROVE  /\ Offset(current)' = Offset(n)
         /\ Offset(current + 1)' = Offset(n + 1)
         /\ HasBytes(current)' <=> HasBytes(n)
         /\ Written(current)' <=> Written(n)'
<1>1. Offset(current)' = Offset(n) /\ Offset(current + 1)' = Offset(n + 1)
  BY DEF Offset, Before
<1>2. HasBytes(current)' <=> HasBytes(n)
  BY DEF HasBytes
<1>3. Written(current)' <=> Written(n)'
  BY DEF Written, UnitOf, Offset, Before, DirectoryUnits
<1> QED BY <1>1, <1>2, <1>3

LEMMA EmitRegionsSound ==
  ScanSound /\ LayoutSound /\ EmissionSound /\ EmitRegions => EmissionSound'
<1> SUFFICES ASSUME ScanSound, LayoutSound, EmissionSound, EmitRegions PROVE EmissionSound'
  OBVIOUS
<1>1. /\ pc = "heap" /\ pc' = "emit" /\ current = Root /\ current' = Root
      /\ UNCHANGED <<nodes, size, bitmap, count, got>>
      /\ pc \in Laid
  BY DEF EmitRegions, EmissionSound, Laid, Chained, Emitting
<1>2. bitmap \in Nat /\ C \in Nat \ {0} /\ IsScan(nodes, size) /\ Root \in Placed
      /\ Placed \subseteq 0..LastNode /\ LastNode \in Nat
  BY <1>1, Places, VolumeAssumption DEF Placed
<1>3. IsDirectory(Root) /\ ~HasBytes(Root)
  BY DEF IsDirectory, HasBytes
<1> DEFINE bits == [k \in 1..(bitmap * C) |-> Meta("bits")]
           table == [k \in 1..C |-> Meta("upcases")]
           units == DirectoryUnits(Root)
<1>4. Meta("bits") \in Units /\ Meta("upcases") \in Units
  BY DEF Meta, Units
<1>5. bits \in Seq(Units) /\ Len(bits) = bitmap * C /\ table \in Seq(Units) /\ Len(table) = C
  <2>1. PICK n \in Nat : n = bitmap * C
    BY <1>2
  <2> QED BY <1>2, <1>4, <2>1
<1>6. units \in Seq(Units) /\ Len(units) = count[Root] * C /\ count[Root] * C \in Nat
  <2>1. count[Root] = ClustersOf(Root, nodes, size) /\ count[Root] * C \in Nat
    BY <1>1, <1>2, Places
  <2> QED BY <1>2, <1>3, <2>1, DirectoryUnitsAre
<1>7. image' = (bits \o table) \o units
  BY DEF EmitRegions
<1>8. (bitmap + 1) * C = bitmap * C + C /\ bitmap * C \in Nat
  BY <1>2
<1>9. Offset(Root) = bitmap * C + C /\ Offset(Root + 1) = Offset(Root) + count[Root] * C
  BY <1>1, <1>2, <1>8, Places
<1> HIDE DEF bits, table, units
<1>10. PICK front \in Seq(Units) : front = bits \o table /\ Len(front) = bitmap * C + C
  <2>1. bits \o table \in Seq(Units) /\ Len(bits \o table) = Len(bits) + Len(table)
    BY <1>5, ConcatProperties
  <2> QED BY <1>5, <2>1
<1>11. /\ image' \in Seq(Units) /\ Len(image') = Len(front) + Len(units)
       /\ \A k \in 1..Len(units) : image'[Len(front) + k] = units[k]
  <2>1. /\ front \o units \in Seq(Units) /\ Len(front \o units) = Len(front) + Len(units)
        /\ \A k \in 1..(Len(front) + Len(units)) :
             (front \o units)[k] = IF k <= Len(front) THEN front[k] ELSE units[k - Len(front)]
    BY <1>6, ConcatProperties
  <2>2. PICK l \in Nat, m \in Nat : l = Len(front) /\ m = Len(units)
    BY <1>6
  <2>3. \A k \in 1..m : (front \o units)[l + k] = units[k]
    <3> TAKE k \in 1..m
    <3>1. l + k \in 1..(l + m) /\ ~(l + k <= l) /\ (l + k) - l = k
      OBVIOUS
    <3> QED BY <2>1, <2>2, <3>1
  <2> QED BY <1>7, <1>10, <2>1, <2>2, <2>3
<1>12. Len(image') = Offset(Root + 1)
  BY <1>6, <1>9, <1>10, <1>11
<1>13. \A k \in 1..(count[Root] * C) : image'[Offset(Root) + k] = units[k]
  BY <1>6, <1>9, <1>10, <1>11
<1>14. Written(Root)'
  BY <1>1, <1>3, <1>13, Fixed DEF Written, UnitOf, units
<1>15. PICK r : r = Root /\ r = current'
  BY <1>1
<1>18. Len(image)' = Offset(current + 1)' /\ Written(current)'
  BY <1>1, <1>12, <1>14, <1>15, AtCurrent
<1>16. \A n \in Placed : ~(n < Root) /\ (n <= Root => n = Root)
  BY <1>2 DEF Root
<1>17. Placed' = Placed /\ (\A n : HasBytes(n)' = HasBytes(n))
  BY <1>1, Fixed
<1>19. /\ image' \in Seq(Units) /\ current' \in Placed'
       /\ \A n \in Placed' : n < current' => Written(n)'
       /\ \A n \in Placed' : n <= current' /\ HasBytes(n)' => n \in DOMAIN got' /\ got'[n] \in Nat
  BY <1>1, <1>2, <1>3, <1>11, <1>16, <1>17
<1> QED BY <1>1, <1>18, <1>19 DEF EmissionSound, Emitting

(* The next node comes right behind what was emitted, and nothing else was *)
(* placed between.                                                         *)
LEMMA NextFacts ==
  ASSUME ScanSound, LayoutSound, EmissionSound, pc = "emit", Rest # {}
  PROVE  /\ NextNode \in nodes /\ NextNode \in Placed /\ NextNode \in Nat
         /\ current < NextNode
         /\ Len(image) = Offset(NextNode) /\ Len(image) \in Nat
         /\ \A n \in Placed : n < NextNode => n <= current
<1>1. pc \in Laid /\ current \in Placed /\ image \in Seq(Units) /\ Len(image) = Offset(current + 1)
  BY DEF EmissionSound, Emitting, Laid, Chained
<1>2. LastNode \in Nat /\ Placed \subseteq 0..LastNode
  BY <1>1, Places
<1>3. Rest \subseteq Nat /\ nodes \subseteq Placed
  BY <1>2 DEF Rest, Placed
<1>4. NextNode \in Rest /\ \A m \in Rest : NextNode <= m
  <2>1. \E n \in Rest : \A m \in Rest : n <= m
    BY <1>3, LeastElement
  <2> QED BY <2>1 DEF NextNode
<1>5. NextNode \in nodes /\ NextNode \in Placed /\ NextNode \in Nat /\ current < NextNode
  BY <1>2, <1>3, <1>4 DEF Rest
<1>6. \A n \in Placed : n < NextNode => n <= current
  <2> SUFFICES ASSUME NEW n \in Placed, n < NextNode, ~(n <= current) PROVE FALSE
    OBVIOUS
  <2>1. n \in Nat /\ current \in Nat /\ n > current
    BY <1>1, <1>2
  <2>2. n \in Rest
    BY <2>1 DEF Rest, Placed, Root
  <2> QED BY <1>4, <1>5, <2>1, <2>2
<1>7. Offset(current + 1) = Offset(NextNode)
  <2>1. PICK m \in 0..(LastNode + 1) : m = current + 1
    BY <1>1, <1>2
  <2>2. NextNode \in m..(LastNode + 1)
    BY <1>1, <1>2, <1>5, <2>1
  <2>3. \A k \in m..(NextNode - 1) : k \notin Placed
    BY <1>1, <1>2, <1>5, <1>6, <2>1
  <2> QED BY <1>1, <2>1, <2>2, <2>3, Places
<1> QED BY <1>1, <1>5, <1>6, <1>7

(* Everything before the node at the end stays, whatever is appended.      *)
LEMMA StaysInFront ==
  ASSUME ScanSound, LayoutSound, EmissionSound, pc \in Emitting,
         UNCHANGED <<nodes, size, bitmap, count>>,
         NEW m \in Placed, Offset(m) <= Len(image),
         \A n \in Placed : n < m => Written(n),
         \A j \in 1..Len(image) : image'[j] = image[j],
         \A n \in Placed : n < m => (HasBytes(n) => got'[n] = got[n])
  PROVE  \A n \in Placed : n < m => Written(n)'
<1>1. pc \in Laid /\ Len(image) \in Nat
  BY DEF EmissionSound, Laid, Chained
<1>2. LastNode \in Nat /\ Placed \subseteq 0..LastNode /\ Offset(m) \in Nat
  BY <1>1, Places
<1> TAKE n \in Placed
<1> HAVE n < m
<1>3. m \in (n + 1)..(LastNode + 1) /\ n \in 0..(LastNode + 1)
  BY <1>2
<1>4. Offset(n) + count[n] * C <= Offset(m) /\ Offset(n) \in Nat /\ count[n] * C \in Nat
  BY <1>1, <1>3, Places
<1>5. Offset(n) + count[n] * C <= Len(image)
  <2>1. PICK a \in Nat, b \in Nat : a = Offset(n) /\ b = count[n] * C
    BY <1>4
  <2> QED BY <1>1, <1>2, <1>4, <2>1
<1> QED BY <1>1, <1>5, WrittenStays

LEMMA EmitNodeSound ==
  ScanSound /\ LayoutSound /\ EmissionSound /\ EmitNode => EmissionSound'
<1> SUFFICES ASSUME ScanSound, LayoutSound, EmissionSound, EmitNode PROVE EmissionSound'
  OBVIOUS
<1>1. /\ pc = "emit" /\ pc' = "emit" /\ Rest # {} /\ ~HasBytes(NextNode)
      /\ current' = NextNode
      /\ image' = IF IsDirectory(NextNode) THEN image \o DirectoryUnits(NextNode) ELSE image
      /\ UNCHANGED <<nodes, size, bitmap, count, got>>
      /\ pc \in Laid /\ pc \in Emitting
  BY DEF EmitNode, Laid, Chained, Emitting
<1>2. PICK m \in Placed : m = NextNode
  BY <1>1, NextFacts
<1>3. /\ m \in Nat /\ current < m /\ Len(image) = Offset(m) /\ Len(image) \in Nat
      /\ \A n \in Placed : n < m => n <= current
  BY <1>1, <1>2, NextFacts
<1>4. /\ image \in Seq(Units) /\ current \in Placed
      /\ \A n \in Placed : n < m => Written(n)
      /\ \A n \in Placed : n <= current /\ HasBytes(n) => n \in DOMAIN got /\ got[n] \in Nat
  <2>1. current \in Placed /\ Placed \subseteq Nat
    BY <1>1, Places DEF EmissionSound
  <2>2. \A n \in Placed : n <= current => n < current \/ n = current
    BY <2>1
  <2> QED BY <1>1, <1>3, <2>1, <2>2 DEF EmissionSound
<1>5. IsScan(nodes, size) /\ C \in Nat \ {0} /\ Placed \subseteq 0..LastNode
      /\ count[m] = ClustersOf(m, nodes, size) /\ count[m] * C \in Nat
      /\ Offset(m + 1) = Offset(m) + count[m] * C
  BY <1>1, Places, VolumeAssumption
<1>6. /\ image' \in Seq(Units)
      /\ Len(image') = Len(image) + count[m] * C
      /\ \A j \in 1..Len(image) : image'[j] = image[j]
      /\ \A k \in 1..(count[m] * C) : image'[Len(image) + k] = UnitOf(m, k)
  <2>1. CASE IsDirectory(m)
    <3>1. DirectoryUnits(m) \in Seq(Units) /\ Len(DirectoryUnits(m)) = count[m] * C
      BY <1>5, <2>1, DirectoryUnitsAre
    <3>2. PICK u \in Seq(Units) : u = DirectoryUnits(m) /\ image' = image \o u
      BY <1>1, <1>2, <2>1, <3>1
    <3>3. \A k \in 1..(count[m] * C) : UnitOf(m, k) = u[k]
      BY <2>1, <3>2 DEF UnitOf
    <3> QED BY <1>4, <3>1, <3>2, <3>3, Longer
  <2>2. CASE ~IsDirectory(m)
    <3>1. count[m] = 0
      BY <1>1, <1>2, <2>2, Places DEF HasBytes
    <3>2. count[m] * C = 0 /\ 1..0 = {}
      BY <1>5, <3>1
    <3> QED BY <1>1, <1>2, <1>3, <1>4, <2>2, <3>2
  <2> QED BY <2>1, <2>2
<1>7. \A n \in Placed : n < m => Written(n)'
  <2>1. Offset(m) <= Len(image)
    BY <1>3
  <2> QED BY <1>1, <1>4, <1>6, <2>1, StaysInFront
<1>8. Written(m)'
  <2>1. Offset(m)' = Offset(m) /\ DirectoryUnits(m)' = DirectoryUnits(m)
    BY <1>1, Fixed
  <2>2. \A k : UnitOf(m, k)' = UnitOf(m, k)
    BY <1>1, <2>1 DEF UnitOf
  <2> QED BY <1>1, <1>3, <1>6, <2>1, <2>2 DEF Written
<1>9. Len(image)' = Offset(current + 1)' /\ Written(current)'
  <2>1. m = current'
    BY <1>1, <1>2
  <2> QED BY <1>1, <1>3, <1>5, <1>6, <1>8, <2>1, AtCurrent
<1>10. \A n \in Placed : n <= m /\ HasBytes(n) => n \in DOMAIN got' /\ got'[n] \in Nat
  <2> SUFFICES ASSUME NEW n \in Placed, n <= m, HasBytes(n)
               PROVE  n \in DOMAIN got /\ got[n] \in Nat
    BY <1>1
  <2>1. n # m
    BY <1>1, <1>2
  <2>2. n < m
    BY <1>5, <2>1
  <2> QED BY <1>3, <1>4, <2>2
<1>11. /\ current' \in Placed'
       /\ \A n \in Placed' : n < current' => Written(n)'
       /\ \A n \in Placed' : n <= current' /\ HasBytes(n)' => n \in DOMAIN got' /\ got'[n] \in Nat
  BY <1>1, <1>2, <1>7, <1>10, Fixed
<1> QED BY <1>1, <1>6, <1>9, <1>11 DEF EmissionSound, Emitting

LEMMA OpenFileSound ==
  ScanSound /\ LayoutSound /\ EmissionSound /\ OpenFile => EmissionSound'
<1> SUFFICES ASSUME ScanSound, LayoutSound, EmissionSound, OpenFile PROVE EmissionSound'
  OBVIOUS
<1>1. /\ pc = "emit" /\ pc' \in {"failed", "read"} /\ Rest # {} /\ HasBytes(NextNode)
      /\ current' = NextNode /\ got' = Put(got, NextNode, 0)
      /\ UNCHANGED <<nodes, size, bitmap, count, image>>
      /\ pc \in Laid /\ pc \in Emitting
  BY DEF OpenFile, Laid, Chained, Emitting
<1>2. PICK m \in Placed : m = NextNode
  BY <1>1, NextFacts
<1>3. /\ m \in Nat /\ current < m /\ Len(image) = Offset(m) /\ Len(image) \in Nat
      /\ \A n \in Placed : n < m => n <= current
  BY <1>1, <1>2, NextFacts
<1>4. /\ image \in Seq(Units) /\ current \in Placed /\ Placed \subseteq Nat
      /\ \A n \in Placed : n < m => Written(n)
      /\ \A n \in Placed : n <= current /\ HasBytes(n) => n \in DOMAIN got /\ got[n] \in Nat
  <2>1. current \in Placed /\ Placed \subseteq Nat
    BY <1>1, Places DEF EmissionSound
  <2>2. \A n \in Placed : n <= current => n < current \/ n = current
    BY <2>1
  <2> QED BY <1>1, <1>3, <2>1, <2>2 DEF EmissionSound
<1>5. /\ m \in DOMAIN got' /\ got'[m] = 0
      /\ \A n \in DOMAIN got : n # m => n \in DOMAIN got' /\ got'[n] = got[n]
  BY <1>1, <1>2 DEF Put
<1>6. \A n \in Placed : n < m => (HasBytes(n) => got'[n] = got[n])
  BY <1>3, <1>4, <1>5
<1>7. \A n \in Placed : n < m => Written(n)'
  <2>1. Offset(m) <= Len(image) /\ \A j \in 1..Len(image) : image'[j] = image[j]
    BY <1>1, <1>3
  <2> QED BY <1>1, <1>4, <1>6, <2>1, StaysInFront
<1>8. \A n \in Placed : n <= m /\ HasBytes(n) => n \in DOMAIN got' /\ got'[n] \in Nat
  <2> TAKE n \in Placed
  <2>1. CASE n = m
    BY <1>5, <2>1
  <2>2. CASE n # m
    <3>1. n <= m => n < m
      BY <1>4, <2>2
    <3> QED BY <1>3, <1>4, <1>5, <2>2, <3>1
  <2> QED BY <2>1, <2>2
<1>9. m = current'
  BY <1>1, <1>2
<1>10. /\ HasBytes(current)'
       /\ Len(image)' = Offset(current)' + got'[current']
       /\ \A k \in 1..got'[current'] : image'[(Offset(current) + k)'] = Data(current', k - 1)
  <2>1. HasBytes(current)' /\ Offset(current)' = Offset(m)
    BY <1>1, <1>2, <1>9, AtCurrent
  <2>2. got'[current'] = 0 /\ Offset(m) \in Nat /\ 1..0 = {}
    BY <1>3, <1>5, <1>9
  <2> QED BY <1>1, <1>3, <2>1, <2>2
<1>11. /\ image' \in Seq(Units) /\ current' \in Placed'
       /\ \A n \in Placed' : n < current' => Written(n)'
       /\ \A n \in Placed' : n <= current' /\ HasBytes(n)' => n \in DOMAIN got' /\ got'[n] \in Nat
  BY <1>1, <1>4, <1>7, <1>8, <1>9, Fixed
<1>12. CASE pc' = "read"
  BY <1>10, <1>11, <1>12 DEF EmissionSound, Emitting
<1>13. CASE pc' = "failed"
  BY <1>13 DEF EmissionSound, Emitting
<1> QED BY <1>1, <1>12, <1>13

(* What holds while a file is read.                                        *)
LEMMA Reading ==
  ASSUME ScanSound, LayoutSound, EmissionSound, pc = "read"
  PROVE  /\ pc \in Laid /\ pc \in Emitting
         /\ image \in Seq(Units) /\ Len(image) \in Nat
         /\ current \in Placed /\ current \in nodes \ Dirs /\ Placed \subseteq Nat
         /\ current \in DOMAIN got /\ got[current] \in Nat
         /\ Offset(current) \in Nat /\ count[current] * C \in Nat
         /\ Offset(current + 1) = Offset(current) + count[current] * C
         /\ Len(image) = Offset(current) + got[current]
         /\ Offset(current) <= Len(image)
<1>1. pc \in Laid /\ pc \in Emitting
  BY DEF Laid, Chained, Emitting
<1>2. /\ image \in Seq(Units) /\ current \in Placed /\ HasBytes(current)
      /\ Len(image) = Offset(current) + got[current]
      /\ \A n \in Placed : n <= current /\ HasBytes(n) => n \in DOMAIN got /\ got[n] \in Nat
  BY <1>1 DEF EmissionSound
<1>3. Placed \subseteq 0..LastNode /\ LastNode \in Nat
  BY <1>1, Places
<1>4. Offset(current) \in Nat /\ count[current] * C \in Nat
      /\ Offset(current + 1) = Offset(current) + count[current] * C
  BY <1>1, <1>2, <1>3, Places
<1>5. current \in nodes \ Dirs
  BY <1>2 DEF HasBytes, IsDirectory, Placed
<1>6. current <= current
  BY <1>2, <1>3
<1>7. current \in DOMAIN got /\ got[current] \in Nat
  BY <1>2, <1>6
<1> QED BY <1>1, <1>2, <1>3, <1>4, <1>5, <1>7

LEMMA ReadChunkSound ==
  ScanSound /\ LayoutSound /\ EmissionSound /\ ReadChunk => EmissionSound'
<1> SUFFICES ASSUME ScanSound, LayoutSound, EmissionSound, ReadChunk PROVE EmissionSound'
  OBVIOUS
<1>1. /\ pc = "read" /\ pc' = "read"
      /\ image' = Append(image, Data(current, got[current]))
      /\ got' = [got EXCEPT ![current] = @ + 1]
      /\ UNCHANGED <<nodes, size, bitmap, count, current>>
  BY DEF ReadChunk
<1>2. PICK c \in Placed : c = current
  BY <1>1, Reading
<1>3. PICK g \in Nat : g = got[c]
  BY <1>1, <1>2, Reading
<1>4. /\ pc \in Laid /\ pc \in Emitting
      /\ image \in Seq(Units) /\ Len(image) \in Nat
      /\ Placed \subseteq Nat /\ c \in DOMAIN got
      /\ Offset(c) \in Nat /\ Len(image) = Offset(c) + g /\ Offset(c) <= Len(image)
  BY <1>1, <1>2, <1>3, Reading
<1>5. /\ HasBytes(c)
      /\ \A k \in 1..g : image[Offset(c) + k] = Data(c, k - 1)
      /\ \A n \in Placed : n < c => Written(n)
      /\ \A n \in Placed : n <= c /\ HasBytes(n) => n \in DOMAIN got /\ got[n] \in Nat
  BY <1>1, <1>2, <1>3, <1>4 DEF EmissionSound
<1>6. Data(c, g) \in Units
  BY <1>4 DEF Data, Units
<1>7. /\ image' \in Seq(Units) /\ Len(image') = Len(image) + 1
      /\ \A j \in 1..Len(image) : image'[j] = image[j]
      /\ image'[Len(image) + 1] = Data(c, g)
  <2>1. PICK u : u = Data(c, g) /\ u \in Units
    BY <1>6
  <2>2. image' = Append(image, u)
    BY <1>1, <1>2, <1>3, <2>1
  <2> QED BY <1>4, <2>1, <2>2, AppendProperties
<1>8. /\ DOMAIN got' = DOMAIN got /\ got'[c] = g + 1
      /\ \A n \in DOMAIN got : n # c => got'[n] = got[n]
  BY <1>1, <1>2, <1>3, <1>4
<1>9. \A n \in Placed : n < c => Written(n)'
  <2>1. \A n \in Placed : n < c => (HasBytes(n) => got'[n] = got[n])
    BY <1>4, <1>5, <1>8
  <2> QED BY <1>1, <1>2, <1>4, <1>5, <1>7, <2>1, StaysInFront
<1>10. \A n \in Placed : n <= c /\ HasBytes(n) => n \in DOMAIN got' /\ got'[n] \in Nat
  BY <1>5, <1>8
<1>11. \A k \in 1..(g + 1) : image'[Offset(c) + k] = Data(c, k - 1)
  <2> TAKE k \in 1..(g + 1)
  <2>1. CASE k = g + 1
    <3>1. Offset(c) + k = Len(image) + 1 /\ k - 1 = g
      BY <1>4, <2>1
    <3> QED BY <1>7, <3>1
  <2>2. CASE k # g + 1
    <3>1. k \in 1..g /\ Offset(c) + k \in 1..Len(image)
      BY <1>4, <2>2
    <3> QED BY <1>5, <1>7, <3>1
  <2> QED BY <2>1, <2>2
<1>12. c = current'
  BY <1>1, <1>2
<1>13. /\ HasBytes(current)'
       /\ Len(image)' = Offset(current)' + got'[current']
       /\ \A k \in 1..got'[current'] : image'[(Offset(current) + k)'] = Data(current', k - 1)
  <2>1. HasBytes(current)' /\ Offset(current)' = Offset(c)
    BY <1>1, <1>5, <1>12, AtCurrent
  <2>2. Len(image)' = Offset(c) + (g + 1)
    BY <1>4, <1>7
  <2> QED BY <1>8, <1>11, <1>12, <2>1, <2>2
<1>14. /\ current' \in Placed'
       /\ \A n \in Placed' : n < current' => Written(n)'
       /\ \A n \in Placed' : n <= current' /\ HasBytes(n)' => n \in DOMAIN got' /\ got'[n] \in Nat
  BY <1>1, <1>9, <1>10, <1>12, Fixed
<1> QED BY <1>1, <1>7, <1>13, <1>14 DEF EmissionSound, Emitting

LEMMA PadFileSound ==
  ScanSound /\ LayoutSound /\ EmissionSound /\ PadFile => EmissionSound'
<1> SUFFICES ASSUME ScanSound, LayoutSound, EmissionSound, PadFile PROVE EmissionSound'
  OBVIOUS
<1>1. /\ pc = "read"
      /\ UNCHANGED <<nodes, size, bitmap, count, current, got>>
      /\ \/ pc' = "failed"
         \/ ~(Padding < 0) /\ pc' = "emit" /\ image' = image \o Zeros(Padding)
  BY DEF PadFile
<1>2. CASE pc' = "failed"
  BY <1>2 DEF EmissionSound, Emitting
<1>3. CASE ~(Padding < 0) /\ pc' = "emit" /\ image' = image \o Zeros(Padding)
  <2>1. PICK c \in Placed : c = current
    BY <1>1, Reading
  <2>2. PICK g \in Nat : g = got[c]
    BY <1>1, <2>1, Reading
  <2>3. PICK room \in Nat : room = count[c] * C
    BY <1>1, <2>1, Reading
  <2>4. /\ pc \in Laid /\ pc \in Emitting
        /\ image \in Seq(Units) /\ Len(image) \in Nat
        /\ Placed \subseteq Nat
        /\ Offset(c) \in Nat /\ Len(image) = Offset(c) + g /\ Offset(c) <= Len(image)
        /\ Offset(c + 1) = Offset(c) + room
    BY <1>1, <2>1, <2>2, <2>3, Reading
  <2>5. /\ HasBytes(c)
        /\ \A k \in 1..g : image[Offset(c) + k] = Data(c, k - 1)
        /\ \A n \in Placed : n < c => Written(n)
        /\ \A n \in Placed : n <= c /\ HasBytes(n) => n \in DOMAIN got /\ got[n] \in Nat
    BY <1>1, <2>1, <2>2, <2>4 DEF EmissionSound
  <2>6. PICK p \in Nat : p = Padding /\ p = room - g
    <3>1. Padding = room - g
      BY <2>1, <2>2, <2>3 DEF Padding
    <3> QED BY <1>3, <3>1
  <2>7. PICK z \in Seq(Units) : z = Zeros(p) /\ Len(z) = p /\ \A k \in 1..p : z[k] = Zero
    BY ZerosAre
  <2>8. /\ image' \in Seq(Units) /\ Len(image') = Len(image) + p
        /\ \A j \in 1..Len(image) : image'[j] = image[j]
        /\ \A k \in 1..p : image'[Len(image) + k] = Zero
    <3>1. image' = image \o z
      BY <1>3, <2>6, <2>7
    <3> QED BY <2>4, <2>7, <3>1, Longer
  <2>9. \A n \in Placed : n < c => Written(n)'
    <3>1. \A n \in Placed : n < c => (HasBytes(n) => got'[n] = got[n])
      BY <1>1
    <3> QED BY <1>1, <2>4, <2>5, <2>8, <3>1, StaysInFront
  <2>10. Written(c)'
    <3> SUFFICES ASSUME NEW k \in 1..room
                 PROVE  image'[Offset(c) + k] = IF k <= g THEN Data(c, k - 1) ELSE Zero
      <4>1. ~IsDirectory(c)
        BY <2>5 DEF HasBytes
      <4>2. Offset(c)' = Offset(c) /\ got'[c] = g /\ count'[c] * C = room
        BY <1>1, <2>2, <2>3, Fixed
      <4> QED BY <4>1, <4>2 DEF Written, UnitOf
    <3>1. CASE k <= g
      <4>1. k \in 1..g /\ Offset(c) + k \in 1..Len(image)
        BY <2>4, <3>1
      <4> QED BY <2>5, <2>8, <3>1, <4>1
    <3>2. CASE ~(k <= g)
      <4>1. k - g \in 1..p /\ Offset(c) + k = Len(image) + (k - g)
        BY <2>4, <2>6, <3>2
      <4> QED BY <2>8, <3>2, <4>1
    <3> QED BY <3>1, <3>2
  <2>11. c = current'
    BY <1>1, <2>1
  <2>12. Len(image)' = Offset(current + 1)' /\ Written(current)'
    <3>1. Len(image') = Offset(c + 1)
      BY <2>4, <2>6, <2>8
    <3> QED BY <1>1, <2>10, <2>11, <3>1, AtCurrent
  <2>13. /\ current' \in Placed'
         /\ \A n \in Placed' : n < current' => Written(n)'
         /\ \A n \in Placed' : n <= current' /\ HasBytes(n)' => n \in DOMAIN got' /\ got'[n] \in Nat
    BY <1>1, <2>5, <2>9, <2>11, Fixed
  <2> QED BY <1>3, <2>8, <2>12, <2>13 DEF EmissionSound, Emitting
<1> QED BY <1>1, <1>2, <1>3

LEMMA EmissionUnchanged ==
  ASSUME EmissionSound,
         UNCHANGED <<nodes, size, bitmap, count, image, current, got>>,
         pc' = pc \/ (pc = "emit" /\ pc' = "volume" /\ Rest = {})
  PROVE  EmissionSound'
<1>1. Rest' = Rest /\ (\A n : Written(n)' <=> Written(n))
  <2>1. \A n : Offset(n)' = Offset(n) /\ DirectoryUnits(n)' = DirectoryUnits(n)
    BY Fixed
  <2>2. \A n, k : UnitOf(n, k)' = UnitOf(n, k)
    BY <2>1 DEF UnitOf
  <2> QED BY <2>1, <2>2 DEF Rest, Written
<1>2. PICK c : c = current'
  OBVIOUS
<1>3. /\ Offset(current)' = Offset(current) /\ Offset(current + 1)' = Offset(current + 1)
      /\ (HasBytes(current)' <=> HasBytes(current))
      /\ (Written(current)' <=> Written(current))
  BY <1>1, <1>2, AtCurrent
<1>4. Placed' = Placed /\ (\A n : HasBytes(n)' = HasBytes(n))
  BY Fixed
<1> QED BY <1>1, <1>3, <1>4 DEF EmissionSound, Emitting

LEMMA EmissionStep ==
  ASSUME ScanSound, LayoutSound, EmissionSound, VolumeStep
  PROVE  EmissionSound'
<1>1. ASSUME pc \notin Emitting \cup {"failed"}, pc' \notin Emitting, current' = current
      PROVE  EmissionSound'
  BY <1>1 DEF EmissionSound, Emitting
<1>2. CASE ScanTree \/ ScanFails \/ SolveBitmap \/ Assign \/ BuildFat
  BY <1>1, <1>2 DEF ScanTree, ScanFails, volumeVars, SolveBitmap, Assign, BuildFat, Emitting
<1>3. CASE EmitRegions
  BY <1>3, EmitRegionsSound
<1>4. CASE EmitNode
  BY <1>4, EmitNodeSound
<1>5. CASE OpenFile
  BY <1>5, OpenFileSound
<1>6. CASE ReadChunk
  BY <1>6, ReadChunkSound
<1>7. CASE PadFile
  BY <1>7, PadFileSound
<1>8. CASE EndVolume
  BY <1>8, EmissionUnchanged DEF EndVolume, volumeVars
<1>9. CASE Ensure /\ UNCHANGED volumeVars
  BY <1>1, <1>9, EmissionUnchanged
     DEF Ensure, EnsureSkips, EnsureBuilds, WalkFile, EndWalk, FillSlot, WriteIndex, volumeVars,
         Emitting
<1>10. CASE (\E e \in Edits : Edit(e)) /\ UNCHANGED volumeVars
  BY <1>10, EmissionUnchanged DEF Edit, volumeVars
<1>11. CASE UNCHANGED folderVars
  BY <1>11, EmissionUnchanged DEF folderVars, volumeVars
<1> QED BY <1>2, <1>3, <1>4, <1>5, <1>6, <1>7, <1>8, <1>9, <1>10, <1>11 DEF VolumeStep, Emit

-----------------------------------------------------------------------------
(* Reading the volume back                                                 *)

(* A chain whose clusters lead to the next one is followed to its end.     *)
LEMMA ClustersAre ==
  ASSUME NEW start \in Nat, NEW n \in Nat,
         \A c \in start..(start + n - 2) : fat[c] = c + 1
  PROVE  Clusters(start, n) = [k \in 1..n |-> start + k - 1]
<1> DEFINE Follows(c) == c = [k \in 1..n |-> IF k = 1 THEN start ELSE fat[c[k - 1]]]
           chain == CHOOSE c : Follows(c)
           straight == [k \in 1..n |-> start + k - 1]
<1>1. Clusters(start, n) = [k \in 1..n |-> chain[k]]
  BY Zenon DEF Clusters
<1>2. Follows(straight)
  <2>1. ASSUME NEW k \in 1..n
        PROVE  start + k - 1 = IF k = 1 THEN start ELSE fat[straight[k - 1]]
    <3>1. CASE k = 1
      BY <3>1
    <3>2. CASE k # 1
      <4>1. k - 1 \in 1..n /\ straight[k - 1] = start + k - 2
        BY <3>2
      <4>2. start + k - 2 \in start..(start + n - 2)
        BY <3>2
      <4> QED BY <3>2, <4>1, <4>2
    <3> QED BY <3>1, <3>2
  <2>2. PICK s : /\ s = straight
                 /\ \A k \in 1..n : start + k - 1 = IF k = 1 THEN start ELSE fat[s[k - 1]]
    BY <2>1
  <2>3. s = [k \in 1..n |-> IF k = 1 THEN start ELSE fat[s[k - 1]]]
    BY <2>2
  <2> QED BY <2>2, <2>3
<1>3. Follows(chain)
  <2> HIDE DEF Follows, straight
  <2> QED BY <1>2
<1>4. ASSUME NEW c, Follows(c), NEW k \in 1..n
      PROVE  c[k] = IF k = 1 THEN start ELSE fat[c[k - 1]]
  BY <1>4
<1> HIDE DEF Follows, chain, straight
<1>5. \A k \in 1..n : chain[k] = straight[k]
  <2> DEFINE off == {k \in 1..n : chain[k] # straight[k]}
  <2>1. SUFFICES ASSUME off # {} PROVE FALSE
    OBVIOUS
  <2>2. PICK k \in off : \A j \in off : k <= j
    <3>1. off \subseteq Nat
      OBVIOUS
    <3> HIDE DEF off
    <3> QED BY <2>1, <3>1, LeastElement
  <2>3. /\ chain[k] = IF k = 1 THEN start ELSE fat[chain[k - 1]]
        /\ straight[k] = IF k = 1 THEN start ELSE fat[straight[k - 1]]
    BY <1>2, <1>3, <1>4
  <2>4. k # 1 => k - 1 \in 1..n /\ k - 1 \notin off
    BY <2>2
  <2> QED BY <2>2, <2>3, <2>4
<1> QED BY <1>1, <1>5 DEF straight

(* When the volume is complete every node is at its place, the last of     *)
(* them at the end.                                                        *)
LEMMA AllWritten ==
  ASSUME ScanSound, LayoutSound, EmissionSound, pc = "volume"
  PROVE  /\ pc \in Chained /\ pc \in Laid /\ pc \in Solved /\ pc \in Scanned
         /\ image \in Seq(Units) /\ Len(image) \in Nat
         /\ \A n \in Placed : Written(n)
         /\ Len(image) = Offset(LastNode + 1)
         /\ \A n \in Placed : Offset(n) + count[n] * C <= Len(image)
<1>1. pc \in Chained /\ pc \in Laid /\ pc \in Solved /\ pc \in Scanned
  BY DEF Scanned, Solved, Laid, Chained, Emitting
<1>2. /\ image \in Seq(Units) /\ current \in Placed /\ Rest = {}
      /\ Len(image) = Offset(current + 1) /\ Written(current)
      /\ \A n \in Placed : n < current => Written(n)
  BY DEF EmissionSound, Emitting
<1>3. LastNode \in Nat /\ Placed \subseteq 0..LastNode
  BY <1>1, Places
<1>4. \A n \in Placed : n <= current
  BY <1>2, <1>3 DEF Rest, Placed, Root
<1>5. \A n \in Placed : Written(n)
  <2> TAKE n \in Placed
  <2>1. n = current \/ n < current
    BY <1>2, <1>3, <1>4
  <2> QED BY <1>2, <2>1
<1>6. Offset(current + 1) = Offset(LastNode + 1)
  <2>1. PICK m \in Nat, l \in Nat : /\ m = current + 1 /\ l = LastNode + 1
                                   /\ m \in 0..(LastNode + 1) /\ l \in m..(LastNode + 1)
    BY <1>2, <1>3
  <2>2. \A k \in m..(l - 1) : k \notin Placed
    BY <1>2, <1>3, <1>4, <2>1
  <2> QED BY <1>1, <2>1, <2>2, Places
<1>7. \A n \in Placed : Offset(n) + count[n] * C <= Len(image)
  <2> TAKE n \in Placed
  <2>1. PICK l \in (n + 1)..(LastNode + 1) : l = LastNode + 1
    BY <1>3
  <2>2. Offset(n) + count[n] * C <= Offset(l)
    BY <1>1, <2>1, Places
  <2> QED BY <1>2, <1>6, <2>1, <2>2
<1> QED BY <1>1, <1>2, <1>5, <1>6, <1>7

(* A cluster of a node's run has the units of the node.                    *)
LEMMA ClusterIs ==
  ASSUME ScanSound, LayoutSound, EmissionSound, pc = "volume",
         NEW n \in Placed, NEW q \in Nat, q < count[n]
  PROVE  LET units == ClusterUnits(first[n] + q)
         IN  /\ units \in Seq(Units) /\ Len(units) = C
             /\ \A i \in 1..C : units[i] = UnitOf(n, q * C + i)
<1>1. pc \in Chained /\ pc \in Laid /\ image \in Seq(Units) /\ Len(image) \in Nat /\ Written(n)
      /\ Offset(n) + count[n] * C <= Len(image)
  BY AllWritten
<1>2. /\ C \in Nat \ {0} /\ bitmap \in Nat /\ count[n] \in Nat /\ Offset(n) \in Nat
      /\ Before(n) \in Nat
  <2>1. n \in 0..(LastNode + 1) /\ IsScan(nodes, size)
    BY <1>1, Places
  <2> QED BY <1>1, <2>1, Places, InFront, VolumeAssumption DEF Before
<1>3. PICK b \in Nat, c \in Nat :
        b = Before(n) /\ c = first[n] + q /\ c = 3 + bitmap + b + q
  <2>1. first[n] = 3 + bitmap + Before(n)
    BY <1>1, <1>2 DEF LayoutSound
  <2> QED BY <1>2, <2>1
<1>4. PICK o \in Nat, base \in Nat, room \in Nat :
        o = Offset(n) /\ o = (bitmap + 1 + b) * C /\ base = q * C /\ room = count[n] * C
  <2>1. Offset(n) = (bitmap + 1 + b) * C
    BY <1>3 DEF Offset
  <2>2. q * C \in Nat /\ count[n] * C \in Nat
    BY <1>2
  <2> QED BY <1>2, <2>1, <2>2
<1>5. (c - 2) * C = o + base /\ (c - 1) * C = o + base + C
  <2>1. PICK x \in Nat : x = bitmap + 1 + b
    BY <1>2
  <2>2. c - 2 = x + q /\ c - 1 = x + q + 1
    BY <1>2, <1>3, <2>1
  <2>3. (x + q) * C = o + base /\ (x + q + 1) * C = o + base + C
    BY <1>2, <1>4, <2>1, Multiples
  <2> QED BY <2>2, <2>3
<1>6. base + C <= room
  <2>1. (q + 1) * C <= count[n] * C /\ (q + 1) * C = base + C
    BY <1>2, <1>4, Multiples
  <2> QED BY <1>4, <2>1
<1>7. PICK u \in Int, v \in Int : u = o + base + 1 /\ v = o + base + C
  BY <1>2
<1>8. ClusterUnits(c) = SubSeq(image, u, v)
  BY <1>5, <1>7 DEF ClusterUnits
<1>9. \A i \in u..v : image[i] \in Units
  <2> TAKE i \in u..v
  <2>0. PICK l \in Nat : l = Len(image) /\ o + room <= l
    BY <1>1, <1>4
  <2>1. i \in 1..Len(image)
    BY <1>2, <1>6, <1>7, <2>0
  <2> QED BY <1>1, <2>1, ElementOfSeq
<1>10. /\ SubSeq(image, u, v) \in Seq(Units)
       /\ Len(SubSeq(image, u, v)) = C
       /\ \A i \in 1..C : SubSeq(image, u, v)[i] = image[u + i - 1]
  <2>1. v - u + 1 = C /\ u <= v
    BY <1>2, <1>7
  <2>2. /\ SubSeq(image, u, v) \in Seq(Units)
        /\ Len(SubSeq(image, u, v)) = IF u <= v THEN v - u + 1 ELSE 0
        /\ \A i \in 1..(v - u + 1) : SubSeq(image, u, v)[i] = image[u + i - 1]
    BY <1>9, SubSeqProperties
  <2> QED BY <2>1, <2>2
<1>11. \A i \in 1..C : image[u + i - 1] = UnitOf(n, base + i)
  <2> TAKE i \in 1..C
  <2>1. base + i \in 1..room /\ u + i - 1 = o + (base + i)
    BY <1>2, <1>6, <1>7
  <2> QED BY <1>1, <1>4, <2>1 DEF Written
<1> QED BY <1>3, <1>4, <1>8, <1>10, <1>11

(* Following a node's chain through the image gives what the node has.     *)
LEMMA DataOfIs ==
  ASSUME ScanSound, LayoutSound, EmissionSound, pc = "volume", NEW n \in Placed
  PROVE  DataOf(n) = [k \in 1..(count[n] * C) |-> UnitOf(n, k)]
<1>1. pc \in Chained /\ pc \in Laid
  BY AllWritten
<1>2. C \in Nat \ {0} /\ bitmap \in Nat /\ count[n] \in Nat /\ Before(n) \in Nat
  <2>1. n \in 0..(LastNode + 1) /\ IsScan(nodes, size)
    BY <1>1, Places
  <2> QED BY <1>1, <2>1, Places, InFront, VolumeAssumption DEF Before
<1>3. PICK m \in Nat : m = count[n]
  BY <1>2
<1> DEFINE start == first[n]
           run == Clusters(start, m)
<1>4. start \in Nat
  <2>1. first[n] = IF count[n] = 0 THEN 0 ELSE 3 + bitmap + Before(n)
    BY <1>1 DEF LayoutSound
  <2> QED BY <1>2, <2>1
<1>5. run = [k \in 1..m |-> start + k - 1]
  <2>1. \A c \in start..(start + m - 2) : fat[c] = c + 1
    BY <1>1, <1>3 DEF LayoutSound
  <2> HIDE DEF start
  <2> QED BY <1>4, <2>1, ClustersAre
<1>6. Len(run) = m
  BY <1>5
<1>7. DataOf(n) = [k \in 1..(m * C) |-> ClusterUnits(run[(k - 1) \div C + 1])[((k - 1) % C) + 1]]
  BY <1>3, <1>6 DEF DataOf
<1>8. ASSUME NEW k \in 1..(m * C)
      PROVE  ClusterUnits(run[(k - 1) \div C + 1])[((k - 1) % C) + 1] = UnitOf(n, k)
  <2>0. m * C \in Nat
    BY <1>2
  <2>1. PICK q \in Nat, r \in 0..(C - 1) :
          q = (k - 1) \div C /\ r = (k - 1) % C /\ k - 1 = q * C + r
    <3>1. PICK a \in Nat : a = k - 1
      BY <2>0
    <3> QED BY <1>2, <3>1, DivMod
  <2>2. q < m
    <3> SUFFICES ASSUME q >= m PROVE FALSE
      BY <1>3, <2>1
    <3>1. m * C <= q * C
      BY <1>2, Multiples
    <3> QED BY <1>2, <2>0, <2>1, <3>1
  <2>3. run[q + 1] = start + q
    <3> HIDE DEF start, run
    <3> QED BY <1>4, <1>5, <2>2
  <2>4. PICK base \in Nat : base = q * C
    BY <1>2
  <2>5. r + 1 \in 1..C /\ base + (r + 1) = k
    BY <1>2, <2>0, <2>1, <2>4
  <2>6. ClusterUnits(start + q)[r + 1] = UnitOf(n, base + (r + 1))
    BY <1>3, <2>2, <2>4, <2>5, ClusterIs
  <2> QED BY <2>1, <2>3, <2>5, <2>6
<1> HIDE DEF start, run
<1> QED BY <1>3, <1>7, <1>8

(* A directory lists the children it was scanned with.                     *)
LEMMA ListedAre ==
  ASSUME ScanSound, LayoutSound, EmissionSound, pc = "volume",
         NEW d \in Dirs \cup {Root}
  PROVE  Listed(d) = ChildrenOf(d, nodes)
<1>1. pc \in Laid /\ IsDirectory(d) /\ IsScan(nodes, size)
  BY AllWritten, Places DEF IsDirectory
<1>2. d \in Placed
  BY <1>1 DEF Placed, IsScan
<1> DEFINE kids == ChildrenOf(d, nodes)
           listed == InOrder(kids)
           units == DataOf(d)
           own == OwnUnits(d)
<1>3. /\ IsFiniteSet(kids) /\ kids \subseteq Nat
      /\ listed \in Seq(kids)
      /\ \A e \in kids : \E k \in 1..Len(listed) : listed[k] = e
  <2>0. IsFiniteSet(kids) /\ nodes \subseteq 1..LastNode
    BY <1>1, ScanFacts
  <2>1. IsFiniteSet(kids) /\ kids \subseteq Nat
    <3>1. kids \subseteq nodes
      BY DEF ChildrenOf
    <3>2. 1..LastNode \subseteq Nat
      OBVIOUS
    <3> QED BY <2>0, <3>1, <3>2
  <2> HIDE DEF kids
  <2> QED BY <2>1, InOrderSorts
<1>4. PICK total \in Nat : total = count[d] * C
  BY <1>1, <1>2, Places
<1>5. /\ units = [k \in 1..total |-> DirectoryUnits(d)[k]]
  <2>1. \A k : UnitOf(d, k) = DirectoryUnits(d)[k]
    BY <1>1 DEF UnitOf
  <2> QED BY <1>2, <1>4, <2>1, DataOfIs
<1>6. PICK len \in Nat, mine \in Nat : len = Len(listed) /\ mine = own
  BY <1>3 DEF OwnUnits
<1>7. /\ mine + len <= total
      /\ \A k \in 1..mine : units[k] # Zero /\ units[k].kind # "entry"
      /\ \A k \in 1..len : units[mine + k] = EntryUnit(listed[k])
      /\ \A k \in (mine + len + 1)..total : units[k] = Zero
  <2>1. PICK e : e = DirectoryUnits(d)
    OBVIOUS
  <2>2. /\ mine + len <= total
        /\ \A k \in 1..mine : e[k] # Zero /\ e[k].kind # "entry"
        /\ \A k \in 1..len : e[mine + k] = EntryUnit(listed[k])
        /\ \A k \in (mine + len + 1)..total : e[k] = Zero
    BY <1>1, <1>2, <1>4, <1>6, <2>1, Places, DirectoryUnitsAre
  <2>3. units = [k \in 1..total |-> e[k]]
    BY <1>5, <2>1
  <2> HIDE DEF units
  <2>4. \A k \in 1..total : units[k] = e[k]
    BY <2>3
  <2>5. \A k \in 1..mine : k \in 1..total
    BY <2>2
  <2>6. \A k \in 1..len : mine + k \in 1..total
    BY <2>2
  <2>7. \A k \in (mine + len + 1)..total : k \in 1..total
    OBVIOUS
  <2> QED BY <2>2, <2>4, <2>5, <2>6, <2>7
<1>8. Len(units) = total
  BY <1>5
<1> HIDE DEF units
<1>9. \A n : EntryUnit(n).kind = "entry" /\ EntryUnit(n) # Zero /\ EntryUnit(n).of = n
  BY DEF EntryUnit, Zero, Meta
<1> DEFINE ends == {k \in 1..Len(units) : units[k] = Zero}
           last == IF ends = {} THEN Len(units) ELSE Min(ends) - 1
<1>10. Listed(d) = {units[k].of : k \in {j \in 1..last : units[j].kind = "entry"}}
  BY DEF Listed, units
<1>11. \A k \in 1..(mine + len) : units[k] # Zero
  <2> TAKE k \in 1..(mine + len)
  <2>1. CASE k <= mine
    BY <1>7, <2>1
  <2>2. CASE k > mine
    <3>1. k - mine \in 1..len /\ mine + (k - mine) = k
      BY <2>2
    <3> QED BY <1>7, <1>9, <3>1
  <2> QED BY <2>1, <2>2
<1>12. ends = (mine + len + 1)..total
  BY <1>7, <1>8, <1>11
<1> HIDE DEF ends
<1>13. last = mine + len
  <2>1. CASE ends = {}
    <3>1. ~(mine + len + 1 <= total)
      BY <1>12, <2>1
    <3> QED BY <1>7, <1>8, <2>1, <3>1
  <2>2. CASE ends # {}
    <3>1. PICK m : m = mine + len + 1 /\ m \in Nat
      OBVIOUS
    <3>2. m \in ends /\ \A y \in ends : m =< y
      BY <1>12, <2>2, <3>1
    <3>3. PICK E \in SUBSET Nat : E = ends
      BY <1>12
    <3>4. Min(E) \in E /\ \A y \in E : Min(E) =< y
      <4>1. \E x \in E : \A y \in E : x =< y
        BY <3>2, <3>3
      <4> QED BY <4>1 DEF Min
    <3>5. Min(E) = m
      <4>1. PICK x \in Nat : x = Min(E)
        BY <3>4
      <4>2. x =< m /\ m =< x
        BY <3>2, <3>3, <3>4, <4>1
      <4> QED BY <3>1, <4>1, <4>2
    <3>6. Min(ends) = m
      BY <3>3, <3>5
    <3> QED BY <2>2, <3>1, <3>6
  <2> QED BY <2>1, <2>2
<1> HIDE DEF last, ends
<1>14. {units[k].of : k \in {j \in 1..last : units[j].kind = "entry"}} = {listed[k] : k \in 1..len}
  <2>1. ASSUME NEW k \in 1..last, units[k].kind = "entry"
        PROVE  \E i \in 1..len : units[k].of = listed[i]
    <3>1. k > mine
      BY <1>7, <1>13, <2>1
    <3>2. k - mine \in 1..len /\ mine + (k - mine) = k
      BY <1>13, <3>1
    <3>3. units[k] = EntryUnit(listed[k - mine])
      BY <1>7, <3>2
    <3> QED BY <1>9, <3>2, <3>3
  <2>2. ASSUME NEW i \in 1..len
        PROVE  \E k \in {j \in 1..last : units[j].kind = "entry"} : units[k].of = listed[i]
    <3>1. mine + i \in 1..last /\ units[mine + i] = EntryUnit(listed[i])
      BY <1>7, <1>13
    <3> QED BY <1>9, <3>1
  <2> HIDE DEF listed
  <2> QED BY <2>1, <2>2
<1>15. {listed[k] : k \in 1..len} = kids
  <2>1. \A k \in 1..len : listed[k] \in kids
    BY <1>3, <1>6, ElementOfSeq
  <2> HIDE DEF listed, kids
  <2> QED BY <1>3, <1>6, <2>1
<1> QED BY <1>10, <1>14, <1>15

LEMMA ReadsBack ==
  ASSUME ScanSound, LayoutSound, EmissionSound
  PROVE  VolumeReadsBack
<1> SUFFICES ASSUME pc = "volume"
             PROVE  /\ Len(image) = ClusterCount * C
                    /\ bitmap * BitmapPerCluster >= ClusterCount
                    /\ \A d \in Dirs \cup {Root} : Listed(d) = ChildrenOf(d, nodes)
                    /\ \A f \in nodes \ Dirs : \A k \in 1..size[f] :
                         DataOf(f)[k] = IF k <= got[f] THEN Data(f, k - 1) ELSE Zero
  BY DEF VolumeReadsBack
<1>1. /\ pc \in Scanned /\ pc \in Solved /\ pc \in Laid
      /\ Len(image) = Offset(LastNode + 1)
  BY AllWritten
<1>2. /\ IsScan(nodes, size) /\ bitmap \in Nat /\ content = 1 + Before(LastNode + 1)
      /\ Need = bitmap
  BY <1>1 DEF ScanSound, LayoutSound
<1>3. LastNode \in Nat /\ Before(LastNode + 1) \in Nat
  <2>1. LastNode \in Nat /\ LastNode + 1 \in 0..(LastNode + 1)
    BY <1>2, ScanFacts
  <2> QED BY <1>2, <2>1, InFront DEF Before
<1>4. ClusterCount = bitmap + 1 + Before(LastNode + 1) /\ ClusterCount \in Nat
  BY <1>2, <1>3 DEF ClusterCount
<1>5. Len(image) = ClusterCount * C
  BY <1>1, <1>4 DEF Offset
<1>6. bitmap * BitmapPerCluster >= ClusterCount
  BY <1>2, <1>4, CeilEnough, VolumeAssumption DEF Need
<1>7. ASSUME NEW f \in nodes \ Dirs, NEW k \in 1..size[f]
      PROVE  DataOf(f)[k] = IF k <= got[f] THEN Data(f, k - 1) ELSE Zero
  <2>1. f \in Placed /\ ~IsDirectory(f)
    BY <1>2, ScanFacts DEF Placed, IsDirectory
  <2>2. k \in 1..(count[f] * C)
    <3>1. size[f] \in Nat /\ size[f] <= count[f] * C /\ count[f] * C \in Nat
      BY <1>1, <2>1, Places
    <3> QED BY <3>1
  <2>3. DataOf(f)[k] = UnitOf(f, k)
    BY <2>1, <2>2, DataOfIs
  <2> QED BY <2>1, <2>3 DEF UnitOf
<1> QED BY <1>5, <1>6, <1>7, ListedAre

LEMMA VolumeInvInit == VolumeInit => VolumeInv
<1> SUFFICES ASSUME VolumeInit PROVE VolumeInv
  OBVIOUS
<1>1. pc = "ensure" /\ current = Root
  BY DEF VolumeInit, IndexInit
<1>2. ScanSound /\ LayoutSound /\ EmissionSound
  BY <1>1 DEF ScanSound, LayoutSound, EmissionSound, Scanned, Solved, Laid, Chained, Emitting
<1> QED BY <1>2, FolderTypedInit DEF VolumeInv

LEMMA VolumeInvStep == VolumeInv /\ VolumeStep => VolumeInv'
BY FolderTypedStep, LayoutStep, EmissionStep DEF VolumeInv

(* A volume that was completed is as long as announced, its bitmap covers  *)
(* every cluster, the directories list exactly what was scanned, and every *)
(* file has what was read from it, padded with zeros, for every folder,    *)
(* cluster size and every edit while it is written.                        *)
THEOREM VolumeIsRead == FolderSpec => []VolumeReadsBack
<1>1. VolumeInv => VolumeReadsBack
  BY ReadsBack DEF VolumeInv
<1>2. [FolderNext]_folderVars => VolumeStep
  BY DEF FolderNext, VolumeStep
<1> QED BY <1>1, <1>2, VolumeInvInit, VolumeInvStep, PTL DEF FolderSpec

-----------------------------------------------------------------------------
(* The index                                                               *)

(* Probing from hash h meets row k behind slots that are taken, flagged    *)
(* where they have the same hash.                                          *)
Probed(table, k, h) ==
  \E d \in 0..(Len(table) - 1) :
    /\ table[((h + d) % Len(table)) + 1].row = k
    /\ table[((h + d) % Len(table)) + 1].hash = h
    /\ \A e \in 0..(d - 1) :
         LET slot == table[((h + e) % Len(table)) + 1]
         IN  slot.row # 0 /\ (slot.hash = h => slot.dup)

(* A table for the rows R of which the first m are in.                     *)
TableSound(table, R, m) ==
  /\ table \in Seq([hash : Nat, row : 0..m, dup : BOOLEAN])
  /\ Len(table) = SlotCount(Len(R))
  /\ \A p, q \in 1..Len(table) : table[p].row = table[q].row /\ table[p].row # 0 => p = q
  /\ \A k \in 1..m : Probed(table, k, HashOf(R[k].file))

(* Rows as the folder has them, and one for the key of every file of W.    *)
RowsDescribe(R, W) ==
  /\ \A k \in 1..Len(R) : R[k].size = folder[R[k].file]
  /\ \A f \in W \cap Kept(folder) : \E k \in 1..Len(R) : Key[R[k].file] = Key[f]

(* An index that is fresh describes the folder at every stage of its making. *)
FreshSound ==
  /\ keyHash \in [{Key[f] : f \in Files} -> HashValues]
  /\ pc = "ensure" => rows = <<>> /\ walked = {} /\ ~fresh
  /\ fresh /\ pc = "index" => RowsDescribe(rows, walked)
  /\ fresh /\ pc = "slots" =>
       /\ RowsDescribe(rows, Files) /\ rows # <<>>
       /\ \E m \in 0..Len(rows) : TableSound(slots, rows, m)
  /\ fresh /\ pc \notin {"ensure", "index", "slots"} =>
       /\ RowsDescribe(index.rows, Files) /\ index.rows # <<>>
       /\ TableSound(index.slots, index.rows, Len(index.rows))
  /\ fresh /\ pc \in Scanned =>
       \A f \in nodes \cap Files : f \in Kept(folder) /\ size[f] = folder[f]

(* Doubling gives two slots to every row.                                  *)
LEMMA SlotsEnough ==
  ASSUME NEW n \in Nat
  PROVE  SlotCount(n) \in Nat /\ SlotCount(n) >= 2 * n
<1> DEFINE Turn(g, t) ==
             IF t = 0 THEN 2
             ELSE IF g[t - 1] < 2 * n THEN 2 * g[t - 1] ELSE g[t - 1]
           Grows(g, m) == g = [t \in 0..m |-> Turn(g, t)]
           the == CHOOSE g : Grows(g, n)
<1>1. ASSUME NEW m \in Nat, NEW g, Grows(g, m), NEW t \in 0..m
      PROVE  g[t] = Turn(g, t)
  <2> HIDE DEF Turn
  <2> QED BY <1>1
<1>2. \A m \in Nat : \E g : Grows(g, m)
  <2> DEFINE S == {m \in Nat : ~\E g : Grows(g, m)}
  <2> SUFFICES ASSUME S # {} PROVE FALSE
    OBVIOUS
  <2>1. PICK m \in S : \A x \in S : m <= x
    <3>1. S \subseteq Nat
      OBVIOUS
    <3> HIDE DEF S
    <3> QED BY <3>1, LeastElement
  <2>2. m # 0
    <3>1. Grows([t \in 0..0 |-> 2], 0)
      OBVIOUS
    <3> HIDE DEF Grows
    <3> QED BY <2>1, <3>1
  <2>3. PICK g : Grows(g, m - 1)
    <3> HIDE DEF Grows
    <3>1. m - 1 \in Nat /\ m - 1 \notin S
      BY <2>1, <2>2
    <3> QED BY <3>1
  <2> DEFINE h == [t \in 0..m |-> IF t = m THEN Turn(g, m) ELSE g[t]]
  <2>4. Grows(h, m)
    <3>1. m \in Nat \ {0}
      BY <2>1, <2>2
    <3> SUFFICES ASSUME NEW t \in 0..m PROVE h[t] = Turn(h, t)
      OBVIOUS
    <3>2. CASE t = m
      BY <3>1, <3>2
    <3>3. CASE t # m
      <4>1. t \in 0..(m - 1) /\ m - 1 \in Nat
        BY <3>1, <3>3
      <4>2. g[t] = Turn(g, t)
        <5> HIDE DEF Turn, Grows
        <5> QED BY <1>1, <2>3, <4>1
      <4> QED BY <3>1, <3>3, <4>1, <4>2
    <3> QED BY <3>2, <3>3
  <2> HIDE DEF Grows, h
  <2> QED BY <2>1, <2>4
<1>3. SlotCount(n) = IF n = 0 THEN 0 ELSE the[n]
  BY Zenon DEF SlotCount
<1>4. Grows(the, n)
  <2> HIDE DEF Grows
  <2> QED BY <1>2
<1>5. \A t \in 0..n : the[t] = Turn(the, t)
  <2> HIDE DEF Turn, Grows, the
  <2> QED BY <1>1, <1>4
<1> HIDE DEF the, Grows
<1>6. \A t \in 0..n : the[t] \in Nat /\ (the[t] >= 2 * n \/ the[t] >= 2 * (t + 1))
  <2> DEFINE S == {t \in 0..n : ~(the[t] \in Nat /\ (the[t] >= 2 * n \/ the[t] >= 2 * (t + 1)))}
  <2> SUFFICES ASSUME S # {} PROVE FALSE
    OBVIOUS
  <2>1. PICK t \in S : \A x \in S : t <= x
    <3>1. S \subseteq Nat
      OBVIOUS
    <3> HIDE DEF S
    <3> QED BY <3>1, LeastElement
  <2>2. t # 0
    BY <1>5, <2>1
  <2>3. t - 1 \in 0..n /\ t - 1 \notin S
    BY <2>1, <2>2
  <2>4. the[t - 1] \in Nat /\ (the[t - 1] >= 2 * n \/ the[t - 1] >= 2 * t)
    BY <2>2, <2>3
  <2>5. the[t] = IF the[t - 1] < 2 * n THEN 2 * the[t - 1] ELSE the[t - 1]
    BY <1>5, <2>1, <2>2
  <2> QED BY <2>1, <2>2, <2>4, <2>5
<1> QED BY <1>3, <1>6

(* From any hash on, probing comes past every slot.                        *)
LEMMA Wraps ==
  ASSUME NEW h \in Nat, NEW L \in Nat \ {0}
  PROVE  /\ \A d \in Nat : ((h + d) % L) + 1 \in 1..L
         /\ \A p \in 1..L : \E d \in 0..(L - 1) : ((h + d) % L) + 1 = p
<1>1. \A d \in Nat : ((h + d) % L) + 1 \in 1..L
  OBVIOUS
<1>2. PICK q \in Nat, r \in 0..(L - 1) : h = q * L + r
  BY DivMod
<1>3. ASSUME NEW p \in 1..L
      PROVE  \E d \in 0..(L - 1) : ((h + d) % L) + 1 = p
  <2>1. CASE r <= p - 1
    <3>1. (p - 1) - r \in 0..(L - 1) /\ h + ((p - 1) - r) = q * L + (p - 1) /\ p - 1 \in 0..(L - 1)
      BY <1>2, <2>1
    <3>2. (q * L + (p - 1)) % L = p - 1
      BY <3>1, DivUnique
    <3>3. (h + ((p - 1) - r)) % L = p - 1
      BY <3>1, <3>2
    <3> QED BY <3>1, <3>3
  <2>2. CASE ~(r <= p - 1)
    <3>1. (q + 1) * L = q * L + L
      OBVIOUS
    <3>2. PICK d \in 0..(L - 1) : d = (p - 1) - r + L
      BY <1>2, <2>2
    <3>3. p - 1 \in 0..(L - 1) /\ q + 1 \in Nat /\ h + d = (q + 1) * L + (p - 1)
      BY <1>2, <2>2, <3>1, <3>2
    <3>4. ((q + 1) * L + (p - 1)) % L = p - 1
      BY <3>3, DivUnique
    <3>5. (h + d) % L = p - 1
      BY <3>3, <3>4
    <3>6. ((h + d) % L) + 1 = p
      BY <3>5
    <3> QED BY <3>2, <3>6
  <2> QED BY <2>1, <2>2
<1> QED BY <1>1, <1>3

(* A table with more slots than rows has a free one.                       *)
LEMMA SomeFree ==
  ASSUME NEW table, NEW R, NEW m \in Nat, TableSound(table, R, m), m < Len(table)
  PROVE  \E p \in 1..Len(table) : table[p].row = 0
<1> SUFFICES ASSUME \A p \in 1..Len(table) : table[p].row # 0
             PROVE  FALSE
  OBVIOUS
<1>1. PICK L \in Nat : L = Len(table) /\ \A p \in 1..L : table[p].row \in 0..m
  <2>1. PICK S : S = [hash : Nat, row : 0..m, dup : BOOLEAN] /\ table \in Seq(S)
    BY DEF TableSound
  <2>2. Len(table) \in Nat /\ \A p \in 1..Len(table) : table[p] \in S
    BY <2>1, LenProperties
  <2> QED BY <2>1, <2>2
<1> DEFINE f == [p \in 1..L |-> table[p].row]
<1>2. f \in [1..L -> 1..m]
  BY <1>1
<1>3. /\ IsFiniteSet(1..L) /\ Cardinality(1..L) = L
      /\ IsFiniteSet(1..m) /\ Cardinality(1..m) = m
  <2>1. \A n \in Nat : IsFiniteSet(1..n) /\ Cardinality(1..n) = n
    <3> TAKE n \in Nat
    <3>1. 1 \in Int /\ n \in Int /\ n - 1 + 1 = n /\ (1 > n => n = 0)
      OBVIOUS
    <3> QED BY <3>1, FS_Interval
  <2> QED BY <1>1, <2>1
<1>4. \E x, y \in 1..L : x # y /\ f[x] = f[y]
  <2>1. Cardinality(1..m) < Cardinality(1..L)
    BY <1>1, <1>3
  <2> HIDE DEF f
  <2> QED BY <1>2, <1>3, <2>1, FS_PigeonHole
<1> QED BY <1>1, <1>4 DEF TableSound

(* Inserting the next row leaves every row before it reachable.            *)
LEMMA InsertedSound ==
  ASSUME NEW table, NEW R, Len(R) \in Nat, NEW m \in 0..(Len(R) - 1), TableSound(table, R, m),
         \A k \in 1..Len(R) : HashOf(R[k].file) \in Nat,
         NEW h \in Nat, h = HashOf(R[m + 1].file)
  PROVE  TableSound(Inserted(table, m + 1, h), R, m + 1)
<1> DEFINE Slots == [hash : Nat, row : 0..m, dup : BOOLEAN]
           More == [hash : Nat, row : 0..(m + 1), dup : BOOLEAN]
<1>1. PICK L \in Nat \ {0} :
        /\ L = Len(table) /\ m < L /\ table \in [1..L -> Slots] /\ L = SlotCount(Len(R))
  <2>1. table \in Seq(Slots) /\ Len(table) = SlotCount(Len(R))
    BY DEF TableSound
  <2>2. Len(table) \in Nat /\ table \in [1..Len(table) -> Slots]
    <3> HIDE DEF Slots
    <3> QED BY <2>1, LenProperties
  <2>3. Len(table) >= 2 * Len(R)
    BY <2>1, SlotsEnough
  <2>4. PICK L : L = Len(table)
    OBVIOUS
  <2>5. L \in Nat \ {0} /\ m < L
    BY <2>2, <2>3, <2>4
  <2> HIDE DEF Slots
  <2> QED BY <2>1, <2>2, <2>4, <2>5
<1> DEFINE Pos(d) == ((h + d) % L) + 1
           First(d) == table[Pos(d)].row = 0 /\ \A e \in 0..(d - 1) : table[Pos(e)].row # 0
           s == CHOOSE d \in 0..(L - 1) : First(d)
           passed == {Pos(d) : d \in 0..(s - 1)}
           new == Inserted(table, m + 1, h)
<1>2. new = [p \in 1..L |->
               IF p = Pos(s) THEN [hash |-> h, row |-> m + 1, dup |-> FALSE]
               ELSE [table[p] EXCEPT !.dup = @ \/ (p \in passed /\ table[p].hash = h)]]
  BY <1>1 DEF Inserted
<1>3. s \in 0..(L - 1) /\ First(s)
  <2>1. \E p \in 1..L : table[p].row = 0
    BY <1>1, SomeFree
  <2>2. \E d \in 0..(L - 1) : table[Pos(d)].row = 0
    <3>1. PICK p \in 1..L : table[p].row = 0
      BY <2>1
    <3>2. PICK d \in 0..(L - 1) : Pos(d) = p
      BY Wraps
    <3> HIDE DEF Pos
    <3> QED BY <3>1, <3>2
  <2> DEFINE S == {d \in 0..(L - 1) : table[Pos(d)].row = 0}
  <2>3. PICK d \in S : \A x \in S : d <= x
    <3>1. S \subseteq Nat /\ S # {}
      <4> HIDE DEF Pos
      <4> QED BY <2>2
    <3> HIDE DEF S
    <3> QED BY <3>1, LeastElement
  <2>4. First(d)
    <3>1. \A e \in 0..(d - 1) : e \in 0..(L - 1) /\ ~(d <= e)
      BY <2>3
    <3> HIDE DEF Pos
    <3> QED BY <2>3, <3>1
  <2> HIDE DEF First
  <2> QED BY <2>3, <2>4
<1>4. \A d \in Nat : Pos(d) \in 1..L
  BY Wraps
<1> HIDE DEF s, new
<1>5. PICK t : t = new /\ t \in [1..L -> More]
               /\ t[Pos(s)] = [hash |-> h, row |-> m + 1, dup |-> FALSE]
               /\ \A p \in 1..L : p # Pos(s) =>
                    /\ t[p].row = table[p].row /\ t[p].hash = table[p].hash
                    /\ table[p].dup \/ (p \in passed /\ table[p].hash = h) => t[p].dup
  <2> HIDE DEF Pos, passed
  <2>1. Pos(s) \in 1..L
    BY <1>3, <1>4
  <2>2. ASSUME NEW p \in 1..L, p # Pos(s)
        PROVE  /\ new[p] = [table[p] EXCEPT !.dup = @ \/ (p \in passed /\ table[p].hash = h)]
               /\ new[p] \in More
               /\ new[p].row = table[p].row /\ new[p].hash = table[p].hash
               /\ table[p].dup \/ (p \in passed /\ table[p].hash = h) => new[p].dup
    <3>1. new[p] = [table[p] EXCEPT !.dup = @ \/ (p \in passed /\ table[p].hash = h)]
      BY <1>2, <2>2
    <3>2. PICK x \in Slots : x = table[p]
      BY <1>1
    <3>3. PICK y \in BOOLEAN : y = (x.dup \/ (p \in passed /\ x.hash = h))
      OBVIOUS
    <3>4. new[p] = [x EXCEPT !.dup = y]
      BY <3>1, <3>2, <3>3
    <3>5. /\ new[p] \in More
          /\ new[p].row = x.row /\ new[p].hash = x.hash /\ new[p].dup = y
      <4>1. PICK a \in Nat, b \in 0..m, c \in BOOLEAN : x = [hash |-> a, row |-> b, dup |-> c]
        BY <3>2
      <4>2. new[p] = [hash |-> a, row |-> b, dup |-> y]
        BY <3>4, <4>1
      <4>3. b \in 0..(m + 1)
        OBVIOUS
      <4> QED BY <3>3, <4>1, <4>2, <4>3
    <3> QED BY <3>1, <3>2, <3>3, <3>5
  <2>3. new[Pos(s)] = [hash |-> h, row |-> m + 1, dup |-> FALSE]
    BY <1>2, <2>1
  <2>4. new[Pos(s)] \in More
    BY <2>3
  <2>5. new \in [1..L -> More]
    <3>1. \A p \in 1..L : new[p] \in More
      BY <2>2, <2>4
    <3> HIDE DEF More
    <3> QED BY <1>2, <3>1
  <2> HIDE DEF More
  <2> QED BY <2>2, <2>3, <2>5
<1>6. t \in Seq(More) /\ Len(t) = L
  <2> HIDE DEF More
  <2> QED BY <1>1, <1>5
<1>7. ASSUME NEW p \in 1..L, NEW q \in 1..L, t[p].row = t[q].row, t[p].row # 0
      PROVE  p = q
  <2>1. \A i \in 1..L : table[i].row \in 0..m
    BY <1>1
  <2>2. \A i \in 1..L : t[i].row = IF i = Pos(s) THEN m + 1 ELSE table[i].row
    <3> HIDE DEF Pos, passed
    <3> QED BY <1>5
  <2>3. \A i, j \in 1..L : table[i].row = table[j].row /\ table[i].row # 0 => i = j
    BY <1>1 DEF TableSound
  <2>4. PICK c : c = Pos(s)
    OBVIOUS
  <2>5. t[p].row = (IF p = c THEN m + 1 ELSE table[p].row)
        /\ t[q].row = (IF q = c THEN m + 1 ELSE table[q].row)
    BY <2>2, <2>4
  <2>6. table[p].row \in 0..m /\ table[q].row \in 0..m
    BY <2>1
  <2>7. table[p].row = table[q].row /\ table[p].row # 0 => p = q
    BY <2>3
  <2>8. m \in Nat
    OBVIOUS
  <2> HIDE DEF Pos
  <2>9. ~(p = c /\ q # c) /\ ~(q = c /\ p # c)
    <3>1. PICK a, b : a = table[p].row /\ b = table[q].row /\ a \in 0..m /\ b \in 0..m
      BY <2>6
    <3>2. a # m + 1 /\ b # m + 1
      BY <2>8, <3>1
    <3> QED BY <1>7, <2>5, <3>1, <3>2
  <2>10. p # c /\ q # c => p = q
    BY <1>7, <2>5, <2>7
  <2> QED BY <2>9, <2>10
<1>8. ASSUME NEW k \in 1..m
      PROVE  Probed(t, k, HashOf(R[k].file))
  <2> DEFINE g == HashOf(R[k].file)
             At(d) == ((g + d) % L) + 1
  <2>1. Probed(table, k, g)
    BY DEF TableSound
  <2> HIDE DEF g
  <2>2. PICK d \in 0..(L - 1) :
          /\ table[At(d)].row = k /\ table[At(d)].hash = g
          /\ \A e \in 0..(d - 1) :
               table[At(e)].row # 0 /\ (table[At(e)].hash = g => table[At(e)].dup)
    BY <1>1, <2>1 DEF Probed
  <2>3. \A e \in 0..d : At(e) \in 1..L
    <3>1. g \in Nat
      BY DEF g
    <3> QED BY <3>1, Wraps
  <2> HIDE DEF At, Pos
  <2>4. \A e \in 0..d : At(e) # Pos(s)
    <3>1. \A e \in 0..d : table[At(e)].row # 0
      <4> TAKE e \in 0..d
      <4>1. e = d \/ e \in 0..(d - 1)
        OBVIOUS
      <4> QED BY <2>2, <4>1
    <3> QED BY <1>3, <3>1
  <2>5. t[At(d)].row = k /\ t[At(d)].hash = g
    <3>1. At(d) \in 1..L /\ At(d) # Pos(s)
      BY <2>3, <2>4
    <3>2. PICK p \in 1..L : p = At(d) /\ p # Pos(s)
      BY <3>1
    <3> HIDE DEF passed
    <3>3. t[p].row = table[p].row /\ t[p].hash = table[p].hash
      BY <1>5, <3>2
    <3> QED BY <2>2, <3>2, <3>3
  <2>6. \A e \in 0..(d - 1) : t[At(e)].row # 0 /\ (t[At(e)].hash = g => t[At(e)].dup)
    <3> TAKE e \in 0..(d - 1)
    <3>1. At(e) \in 1..L /\ At(e) # Pos(s)
      BY <2>3, <2>4
    <3>2. PICK p \in 1..L : p = At(e) /\ p # Pos(s)
      BY <3>1
    <3>3. table[p].row # 0 /\ (table[p].hash = g => table[p].dup)
      BY <2>2, <3>2
    <3> HIDE DEF passed
    <3>4. t[p].row = table[p].row /\ t[p].hash = table[p].hash /\ (table[p].dup => t[p].dup)
      BY <1>5, <3>2
    <3> QED BY <3>2, <3>3, <3>4
  <2> QED BY <1>6, <2>2, <2>5, <2>6 DEF Probed, At, g
<1>9. Probed(t, m + 1, h)
  <2>1. \A e \in 0..(s - 1) : Pos(e) \in passed /\ Pos(e) \in 1..L /\ Pos(e) # Pos(s)
                              /\ table[Pos(e)].row # 0
    <3>1. \A e \in 0..(s - 1) : Pos(e) \in passed /\ Pos(e) \in 1..L /\ table[Pos(e)].row # 0
      <4> HIDE DEF Pos
      <4> QED BY <1>3, <1>4
    <3> HIDE DEF Pos, passed
    <3> QED BY <1>3, <3>1
  <2>2. \A e \in 0..(s - 1) : t[Pos(e)].row # 0 /\ (t[Pos(e)].hash = h => t[Pos(e)].dup)
    <3> HIDE DEF Pos, passed
    <3> QED BY <1>5, <2>1
  <2>3. t[Pos(s)].row = m + 1 /\ t[Pos(s)].hash = h
    <3> HIDE DEF Pos
    <3> QED BY <1>5
  <2> QED BY <1>3, <1>6, <2>2, <2>3 DEF Probed
<1>10. \A k \in 1..(m + 1) : Probed(t, k, HashOf(R[k].file))
  <2> TAKE k \in 1..(m + 1)
  <2>1. k = m + 1 \/ k \in 1..m
    OBVIOUS
  <2> QED BY <1>8, <1>9, <2>1
<1>11. TableSound(t, R, m + 1)
  <2> HIDE DEF Pos, passed
  <2> QED BY <1>1, <1>6, <1>7, <1>10 DEF TableSound
<1> QED BY <1>1, <1>5, <1>11 DEF new

LEMMA HashesKnown ==
  ASSUME keyHash \in [{Key[f] : f \in Files} -> HashValues]
  PROVE  \A f \in Files : HashOf(f) \in Nat
<1>1. HashValues \subseteq Nat
  BY FolderAssumption
<1>2. \A f \in Files : keyHash[Key[f]] \in HashValues
  OBVIOUS
<1> QED BY <1>1, <1>2 DEF HashOf

(* The rows that are in are counted by the greatest of them.               *)
LEMMA FilledIs ==
  ASSUME NEW R, NEW m \in Nat, NEW table, table = slots, TableSound(table, R, m),
         \A k \in 1..m : HashOf(R[k].file) \in Nat
  PROVE  Filled = m
<1> DEFINE Slots == [hash : Nat, row : 0..m, dup : BOOLEAN]
           S == {0} \cup {table[p].row : p \in 1..Len(table)}
<1>1. Len(table) \in Nat /\ \A p \in 1..Len(table) : table[p].row \in 0..m
  <2>1. table \in Seq(Slots)
    BY DEF TableSound
  <2>2. Len(table) \in Nat /\ \A p \in 1..Len(table) : table[p] \in Slots
    <3> HIDE DEF Slots
    <3> QED BY <2>1, LenProperties
  <2> QED BY <2>2
<1>2. m \in S
  <2> SUFFICES ASSUME m # 0 PROVE \E p \in 1..Len(table) : table[p].row = m
    OBVIOUS
  <2>1. PICK h \in Nat : h = HashOf(R[m].file)
    OBVIOUS
  <2>2. Probed(table, m, h)
    BY <2>1 DEF TableSound
  <2>3. PICK d \in 0..(Len(table) - 1) : table[((h + d) % Len(table)) + 1].row = m
    BY <2>2 DEF Probed
  <2>4. ((h + d) % Len(table)) + 1 \in 1..Len(table)
    BY <1>1, Wraps
  <2> QED BY <2>3, <2>4
<1>3. \A y \in S : y \in Nat /\ y <= m
  BY <1>1
<1>4. Filled = Max(S)
  BY DEF Filled
<1>5. Max(S) = CHOOSE x \in S : \A y \in S : x >= y
  BY DEF Max
<1>6. \A x \in S : (\A y \in S : x >= y) <=> x = m
  <2> HIDE DEF S
  <2> QED BY <1>2, <1>3
<1> HIDE DEF S
<1> QED BY <1>2, <1>4, <1>5, <1>6

LEMMA EmptySound ==
  ASSUME NEW R, Len(R) \in Nat
  PROVE  TableSound(EmptySlots(Len(R)), R, 0)
<1>1. PICK L \in Nat : L = SlotCount(Len(R))
  BY SlotsEnough
<1>2. EmptySlots(Len(R)) = [p \in 1..L |-> Free]
  BY <1>1 DEF EmptySlots
<1>3. Free \in [hash : Nat, row : 0..0, dup : BOOLEAN] /\ Free.row = 0
  BY DEF Free
<1>4. PICK t : t = [p \in 1..L |-> Free]
  OBVIOUS
<1>5. t \in Seq([hash : Nat, row : 0..0, dup : BOOLEAN]) /\ Len(t) = L
  BY <1>3, <1>4
<1>6. \A p \in 1..L : t[p].row = 0
  BY <1>3, <1>4
<1>7. TableSound(t, R, 0)
  BY <1>1, <1>5, <1>6 DEF TableSound
<1> QED BY <1>2, <1>4, <1>7

LEMMA TableNext ==
  ASSUME UNCHANGED keyHash, NEW t, NEW R, NEW m, TableSound(t, R, m)
  PROVE  /\ t = slots' /\ R = rows' => TableSound(slots, rows, m)'
         /\ t = index.slots' /\ R = index.rows' /\ m = Len(R) =>
              TableSound(index.slots, index.rows, Len(index.rows))'
<1>1. \A f : HashOf(f)' = HashOf(f)
  BY DEF HashOf
<1>2. ASSUME t = slots', R = rows'
      PROVE  TableSound(slots, rows, m)'
  BY <1>1, <1>2, Zenon DEF TableSound
<1>3. ASSUME t = index.slots', R = index.rows', m = Len(R)
      PROVE  TableSound(index.slots, index.rows, Len(index.rows))'
  BY <1>1, <1>3, Zenon DEF TableSound
<1> QED BY <1>2, <1>3

LEMMA RowsNext ==
  ASSUME UNCHANGED folder, NEW R, NEW W, RowsDescribe(R, W)
  PROVE  /\ R = rows' /\ W = walked' => RowsDescribe(rows, walked)'
         /\ R = rows' /\ W = Files => RowsDescribe(rows, Files)'
         /\ R = index.rows' /\ W = Files => RowsDescribe(index.rows, Files)'
BY DEF RowsDescribe, Present

LEMMA FreshInit == VolumeInit => FreshSound
BY DEF VolumeInit, IndexInit, FreshSound, Scanned, Solved, Laid, Chained, Emitting

(* Building: the walk, the table and its writing.                          *)
LEMMA WalkFileFresh ==
  ASSUME FolderTyped, FreshSound, WalkFile
  PROVE  FreshSound'
<1> DEFINE f == CHOOSE f \in Files \ walked : \A g \in Files \ walked : f <= g
<1>1. /\ pc = "index" /\ pc' = "index" /\ UNCHANGED <<folder, keyHash, fresh>>
      /\ walked' = walked \cup {f}
      /\ IF f \notin Kept(folder) \/ \E k \in 1..Len(rows) : Key[rows[k].file] = Key[f]
         THEN UNCHANGED rows
         ELSE rows' = Append(rows, [file |-> f, size |-> folder[f]])
  BY DEF WalkFile
<1> HIDE DEF f
<1>2. PICK n, r : /\ n \in Nat /\ n = Len(rows) /\ r = rows
                  /\ r \in Seq([file : Files, size : Nat \cup {Gone}])
  BY DEF FolderTyped
<1>3. ASSUME fresh
      PROVE  RowsDescribe(rows, walked)'
  <2>1. /\ \A k \in 1..n : r[k].size = folder[r[k].file]
        /\ \A g \in walked \cap Kept(folder) : \E k \in 1..n : Key[r[k].file] = Key[g]
    BY <1>1, <1>2, <1>3 DEF FreshSound, RowsDescribe
  <2>2. CASE f \notin Kept(folder) \/ \E k \in 1..n : Key[r[k].file] = Key[f]
    <3>1. rows' = r
      BY <1>1, <1>2, <2>2
    <3>2. \A g \in (walked \cup {f}) \cap Kept(folder) : \E k \in 1..n : Key[r[k].file] = Key[g]
      BY <2>1, <2>2
    <3>3. RowsDescribe(r, walked \cup {f})
      BY <1>2, <2>1, <3>2 DEF RowsDescribe
    <3> QED BY <1>1, <3>1, <3>3, RowsNext
  <2>3. CASE ~(f \notin Kept(folder) \/ \E k \in 1..n : Key[r[k].file] = Key[f])
    <3>1. PICK s : s = Append(r, [file |-> f, size |-> folder[f]])
      OBVIOUS
    <3>2. rows' = s
      BY <1>1, <1>2, <2>3, <3>1
    <3>3. /\ Len(s) = n + 1 /\ s[n + 1] = [file |-> f, size |-> folder[f]]
          /\ \A k \in 1..n : s[k] = r[k]
      <4>1. PICK T : T = [file : Files, size : Nat \cup {Gone}]
                            \cup {[file |-> f, size |-> folder[f]]}
        OBVIOUS
      <4>2. r \in Seq(T) /\ [file |-> f, size |-> folder[f]] \in T
        BY <1>2, <4>1, SeqMonotonic
      <4> QED BY <1>2, <3>1, <4>2, AppendProperties
    <3>4. \A k \in 1..(n + 1) : s[k].size = folder[s[k].file]
      <4> TAKE k \in 1..(n + 1)
      <4>1. k = n + 1 \/ k \in 1..n
        BY <1>2
      <4> QED BY <2>1, <3>3, <4>1
    <3>5. \A g \in (walked \cup {f}) \cap Kept(folder) : \E k \in 1..(n + 1) : Key[s[k].file] = Key[g]
      <4> TAKE g \in (walked \cup {f}) \cap Kept(folder)
      <4>1. CASE g = f
        <5>1. s[n + 1].file = f /\ n + 1 \in 1..(n + 1)
          BY <1>2, <3>3
        <5> QED BY <4>1, <5>1
      <4>2. CASE g # f
        <5>1. PICK k \in 1..n : Key[r[k].file] = Key[g]
          BY <2>1, <4>2
        <5>2. k \in 1..(n + 1)
          BY <1>2
        <5> QED BY <3>3, <5>1, <5>2
      <4> QED BY <4>1, <4>2
    <3>6. RowsDescribe(s, walked \cup {f})
      BY <3>3, <3>4, <3>5 DEF RowsDescribe
    <3> QED BY <1>1, <3>2, <3>6, RowsNext
  <2> QED BY <2>2, <2>3
<1> QED BY <1>1, <1>3 DEF FreshSound, Scanned, Solved, Laid, Chained, Emitting

LEMMA BuildFresh ==
  ASSUME FolderTyped, FreshSound, EndWalk \/ FillSlot \/ WriteIndex
  PROVE  FreshSound'
<1> DEFINE Row == [file : Files, size : Nat \cup {Gone}]
<1>1. PICK n, r : n \in Nat /\ n = Len(rows) /\ r = rows /\ r \in Seq(Row) /\ (r # <<>> <=> n # 0)
  <2>1. rows \in Seq(Row)
    BY DEF FolderTyped
  <2> HIDE DEF Row
  <2> QED BY <2>1
<1>2. \A k \in 1..n : HashOf(r[k].file) \in Nat
  <2>1. \A k \in 1..n : r[k] \in Row
    <3> HIDE DEF Row
    <3> QED BY <1>1, ElementOfSeq
  <2> QED BY <1>1, <2>1, HashesKnown DEF FreshSound
<1>3. UNCHANGED <<folder, keyHash, rows>> /\ Files' = Files
  BY DEF EndWalk, FillSlot, WriteIndex
<1>4. ASSUME fresh, pc = "slots"
      PROVE  /\ RowsDescribe(r, Files) /\ r # <<>>
             /\ TableSound(slots, r, Filled) /\ Filled \in 0..n
  <2>1. /\ RowsDescribe(r, Files) /\ r # <<>>
        /\ \E m \in 0..n : TableSound(slots, r, m)
    BY <1>1, <1>4 DEF FreshSound
  <2>2. PICK m, table : m \in 0..n /\ table = slots /\ TableSound(table, r, m)
    BY <2>1
  <2>3. Filled = m
    <3>1. m \in Nat /\ \A k \in 1..m : HashOf(r[k].file) \in Nat
      BY <1>1, <1>2, <2>2
    <3> QED BY <2>2, <3>1, FilledIs
  <2> QED BY <2>1, <2>2, <2>3
<1>5. CASE EndWalk
  <2>1. /\ pc = "index" /\ pc' \in {"scan", "slots"} /\ slots' = EmptySlots(n)
        /\ fresh' => fresh /\ pc' = "slots" /\ r # <<>> /\ walked = Files
    BY <1>1, <1>5 DEF EndWalk
  <2>2. ASSUME fresh'
        PROVE  RowsDescribe(rows, Files)' /\ TableSound(slots, rows, 0)'
    <3>1. RowsDescribe(r, Files)
      BY <1>1, <2>1, <2>2 DEF FreshSound
    <3>2. PICK t : t = slots' /\ TableSound(t, r, 0)
      BY <1>1, <2>1, EmptySound
    <3> QED BY <1>1, <1>3, <3>1, <3>2, RowsNext, TableNext
  <2>3. 0 \in 0..Len(rows')
    BY <1>1, <1>3
  <2> QED BY <1>1, <1>3, <2>1, <2>2, <2>3
          DEF FreshSound, Scanned, Solved, Laid, Chained, Emitting
<1>6. CASE FillSlot
  <2>1. /\ pc = "slots" /\ pc' = "slots" /\ fresh' = fresh
        /\ Filled < n
        /\ slots' = Inserted(slots, Filled + 1, HashOf(r[Filled + 1].file))
    BY <1>1, <1>6 DEF FillSlot
  <2>2. ASSUME fresh
        PROVE  RowsDescribe(rows, Files)' /\ rows' # <<>>
               /\ \E m \in 0..Len(rows') : TableSound(slots, rows, m)'
    <3>1. PICK m, table, h :
            /\ m \in 0..(n - 1) /\ m = Filled /\ table = slots /\ h = HashOf(r[m + 1].file)
            /\ TableSound(table, r, m)
      BY <1>1, <1>4, <2>1, <2>2
    <3>2. PICK t : t = slots' /\ t = Inserted(table, m + 1, h)
      BY <2>1, <3>1
    <3>3. TableSound(t, r, m + 1)
      <4>1. h \in Nat /\ m + 1 \in 1..n
        BY <1>1, <1>2, <3>1
      <4> QED BY <1>1, <1>2, <3>1, <3>2, <4>1, InsertedSound
    <3>4. TableSound(slots, rows, m + 1)'
      BY <1>1, <1>3, <3>2, <3>3, TableNext
    <3>5. m + 1 \in 0..Len(rows')
      BY <1>1, <1>3, <3>1
    <3>6. RowsDescribe(rows, Files)' /\ rows' # <<>>
      BY <1>1, <1>3, <1>4, <2>1, <2>2, RowsNext
    <3> QED BY <3>4, <3>5, <3>6
  <2> QED BY <1>3, <2>1, <2>2 DEF FreshSound, Scanned, Solved, Laid, Chained, Emitting
<1>7. CASE WriteIndex
  <2>1. /\ pc = "slots" /\ pc' = "scan" /\ Filled = n
        /\ fresh' => fresh /\ index'.rows = r /\ index'.slots = slots
    BY <1>1, <1>7 DEF WriteIndex
  <2>2. ASSUME fresh'
        PROVE  /\ RowsDescribe(index.rows, Files)' /\ index'.rows # <<>>
               /\ TableSound(index.slots, index.rows, Len(index.rows))'
    <3>1. RowsDescribe(r, Files) /\ r # <<>> /\ TableSound(slots, r, n)
      BY <1>4, <2>1, <2>2
    <3>2. PICK t : t = slots /\ TableSound(t, r, n)
      BY <3>1
    <3> QED BY <1>1, <1>3, <2>1, <2>2, <3>1, <3>2, RowsNext, TableNext
  <2> QED BY <1>3, <2>1, <2>2 DEF FreshSound, Scanned, Solved, Laid, Chained, Emitting
<1> QED BY <1>5, <1>6, <1>7

LEMMA ScanFresh ==
  ASSUME FreshSound, ScanTree
  PROVE  FreshSound'
<1>1. /\ nodes' = (Kept(folder) \ Links) \cup Dirs
                    \cup (IF index.there THEN {IndexNode} ELSE {})
                    \cup (IF tmpLeft THEN {TmpNode} ELSE {})
      /\ size' = [n \in nodes' \ Dirs |-> IF n = IndexNode THEN Len(index.rows)
                                          ELSE IF n = TmpNode THEN 1 ELSE folder[n]]
      /\ pc = "scan" /\ pc' = "bitmap" /\ UNCHANGED <<folder, keyHash, fresh, index>>
  BY DEF ScanTree, indexVars
<1>2. nodes' \cap Files \subseteq Kept(folder)
  BY <1>1, VolumeAssumption
<1>3. \A f \in nodes' \cap Files : size'[f] = folder[f]
  BY <1>1, VolumeAssumption
<1>4. \A f \in nodes' \cap Files : f \in Kept(folder)' /\ size'[f] = folder'[f]
  BY <1>1, <1>2, <1>3 DEF Kept
<1>5. fresh => /\ RowsDescribe(index.rows, Files)' /\ index.rows # <<>>
               /\ TableSound(index.slots, index.rows, Len(index.rows))'
  <2> SUFFICES ASSUME fresh
               PROVE  /\ RowsDescribe(index.rows, Files)' /\ index.rows # <<>>
                      /\ TableSound(index.slots, index.rows, Len(index.rows))'
    OBVIOUS
  <2>1. PICK r, t : r = index.rows /\ t = index.slots
    OBVIOUS
  <2>2. RowsDescribe(r, Files) /\ index.rows # <<>> /\ TableSound(t, r, Len(r))
    BY <1>1, <2>1 DEF FreshSound
  <2> QED BY <1>1, <2>1, <2>2, RowsNext, TableNext
<1> QED BY <1>1, <1>4, <1>5 DEF FreshSound

LEMMA FreshStep == FolderTyped /\ FreshSound /\ VolumeStep => FreshSound'
<1> SUFFICES ASSUME FolderTyped, FreshSound, VolumeStep PROVE FreshSound'
  OBVIOUS
<1>1. CASE EnsureSkips
  BY <1>1 DEF EnsureSkips, indexVars, FreshSound, Scanned, Solved, Laid, Chained, Emitting
<1>2. CASE EnsureBuilds
  <2>1. /\ pc = "ensure" /\ pc' = "index" /\ rows' = <<>> /\ walked' = {} /\ UNCHANGED keyHash
    BY <1>2 DEF EnsureBuilds, FreshSound
  <2>2. RowsDescribe(rows, walked)'
    BY <2>1 DEF RowsDescribe
  <2> QED BY <2>1, <2>2 DEF FreshSound, Scanned, Solved, Laid, Chained, Emitting
<1>3. CASE \E e \in Edits : Edit(e)
  BY <1>3 DEF Edit, FreshSound
(* Nothing that the index is about changes.                                *)
<1>4. ASSUME UNCHANGED indexVars, UNCHANGED <<nodes, size>>,
             pc' = pc \/ {pc, pc'} \cap {"ensure", "index", "slots"} = {},
             pc' \in Scanned => pc \in Scanned
      PROVE  FreshSound'
  <2>1. UNCHANGED <<folder, keyHash, fresh, index, rows, slots, walked>>
        /\ Kept(folder)' = Kept(folder)
    BY <1>4 DEF indexVars, Kept
  <2>2. PICK r, t, w : r = rows /\ t = slots /\ w = walked
    OBVIOUS
  <2>3. PICK q, u : q = index.rows /\ u = index.slots
    OBVIOUS
  <2>4. RowsDescribe(r, w) => RowsDescribe(rows, walked)'
    BY <2>1, <2>2, RowsNext
  <2>5. RowsDescribe(r, Files) => RowsDescribe(rows, Files)'
    BY <2>1, <2>2, RowsNext
  <2>6. RowsDescribe(q, Files) => RowsDescribe(index.rows, Files)'
    BY <2>1, <2>3, RowsNext
  <2>7. \A m : TableSound(t, r, m) => TableSound(slots, rows, m)'
    BY <2>1, <2>2, TableNext
  <2>8. TableSound(u, q, Len(q)) => TableSound(index.slots, index.rows, Len(index.rows))'
    BY <2>1, <2>3, TableNext
  <2> QED BY <1>4, <2>1, <2>2, <2>3, <2>4, <2>5, <2>6, <2>7, <2>8 DEF FreshSound
<1>5. CASE ScanFails \/ SolveBitmap \/ Assign \/ BuildFat
  BY <1>4, <1>5 DEF ScanFails, volumeVars, SolveBitmap, Assign, BuildFat, Scanned, Solved, Laid, Chained, Emitting
<1>6. CASE EmitRegions \/ EmitNode \/ OpenFile
  BY <1>4, <1>6 DEF EmitRegions, EmitNode, OpenFile, Scanned, Solved, Laid, Chained, Emitting
<1>7. CASE ReadChunk \/ PadFile \/ EndVolume
  BY <1>4, <1>7
     DEF ReadChunk, PadFile, EndVolume, volumeVars, Scanned, Solved, Laid, Chained, Emitting
<1>8. CASE UNCHANGED folderVars
  BY <1>4, <1>8 DEF folderVars, volumeVars
<1> QED BY <1>1, <1>2, <1>3, <1>5, <1>6, <1>7, <1>8, WalkFileFresh, BuildFresh, ScanFresh
        DEF VolumeStep, Ensure, Emit

(* When the index was generated for this folder, every file of the volume  *)
(* is found by probing from the hash of its path, at its size, whatever    *)
(* the hashes, the number of files and the edits before and meanwhile.     *)
THEOREM PackedFilesAreFound == FolderSpec => []PackedFilesFound
<1>1. FolderTyped /\ FreshSound => PackedFilesFound
  <2> SUFFICES ASSUME FolderTyped, FreshSound, pc = "volume", fresh
               PROVE  /\ \A f \in nodes \cap Files :
                           \E k \in 1..Len(index.rows) :
                             /\ Key[index.rows[k].file] = Key[f]
                             /\ index.rows[k].file = f => index.rows[k].size = size[f]
                             /\ Reached(k)
                      /\ ProbesEnd
    BY DEF PackedFilesFound
  <2>1. PICK r, t, n : r = index.rows /\ t = index.slots /\ n = Len(r)
    OBVIOUS
  <2>2. /\ RowsDescribe(r, Files) /\ r # <<>> /\ TableSound(t, r, n)
        /\ \A f \in nodes \cap Files : f \in Kept(folder) /\ size[f] = folder[f]
    BY <2>1 DEF FreshSound, Scanned, Solved, Laid, Chained, Emitting
  <2>3. n \in Nat \ {0} /\ Len(t) = SlotCount(n)
    BY <2>1, <2>2 DEF FolderTyped, TableSound
  <2>4. Len(t) \in Nat /\ n < Len(t)
    BY <2>3, SlotsEnough
  <2>5. \A k \in 1..n : Reached(k)
    <3> TAKE k \in 1..n
    <3>1. Probed(t, k, HashOf(r[k].file))
      BY <2>2 DEF TableSound
    <3> QED BY <2>1, <3>1 DEF Probed, Reached
  <2>6. ProbesEnd
    BY <2>1, <2>2, <2>3, <2>4, SomeFree DEF ProbesEnd
  <2>7. ASSUME NEW f \in nodes \cap Files
        PROVE  \E k \in 1..n : /\ Key[r[k].file] = Key[f]
                               /\ r[k].file = f => r[k].size = size[f]
    BY <2>1, <2>2 DEF RowsDescribe
  <2> QED BY <2>1, <2>5, <2>6, <2>7
<1>2. [FolderNext]_folderVars => VolumeStep
  BY DEF FolderNext, VolumeStep
<1> QED BY <1>1, <1>2, FolderTypedInit, FolderTypedStep, FreshInit, FreshStep, PTL DEF FolderSpec

-----------------------------------------------------------------------------
(* The cache                                                               *)

(* The eviction list names every cached block once, and each was decoded.  *)
CacheInv ==
  /\ order \in Seq(decoded)
  /\ Len(order) <= Cap
  /\ DOMAIN cache = {order[k] : k \in 1..Len(order)}
  /\ \A j, k \in 1..Len(order) : order[j] = order[k] => j = k
  /\ \A b \in DOMAIN cache : cache[b] = b

(* A list without repetitions has as many elements as members.             *)
LEMMA OnceEach ==
  ASSUME NEW S, NEW s \in Seq(S),
         \A j, k \in 1..Len(s) : s[j] = s[k] => j = k
  PROVE  Cardinality({s[k] : k \in 1..Len(s)}) = Len(s)
<1> DEFINE members == {s[k] : k \in 1..Len(s)}
           at_ == [k \in 1..Len(s) |-> s[k]]
<1>1. Len(s) \in Nat
  OBVIOUS
<1>2. IsFiniteSet(1..Len(s)) /\ Cardinality(1..Len(s)) = Len(s)
  <2>1. PICK n \in Nat : n = Len(s)
    BY <1>1
  <2>2. IsFiniteSet(1..n) /\ Cardinality(1..n) = IF 1 > n THEN 0 ELSE n - 1 + 1
    BY FS_Interval
  <2>3. Cardinality(1..n) = n
    BY <2>2
  <2> QED BY <2>1, <2>2, <2>3
<1>3. at_ \in Bijection(1..Len(s), members)
  BY DEF Bijection, Injection, Surjection, IsInjective
<1>4. ExistsBijection(1..Len(s), members)
  BY <1>3 DEF ExistsBijection
<1> HIDE DEF members
<1>5. Cardinality(members) = Cardinality(1..Len(s))
  BY <1>2, <1>4, FS_Bijection
<1> QED BY <1>2, <1>5 DEF members

LEMMA CacheInvSuffices == CacheInv => CacheSound
<1> SUFFICES ASSUME CacheInv PROVE CacheSound
  OBVIOUS
<1>1. Cardinality({order[k] : k \in 1..Len(order)}) = Len(order)
  BY OnceEach DEF CacheInv
<1> QED BY <1>1 DEF CacheInv, CacheSound

(* Decoding a block that is not kept keeps the list and the cache in step, *)
(* with and without throwing out the one decoded first.                    *)
LEMMA DecodeKeepsCache ==
  ASSUME CacheInv, NEW b, b \notin DOMAIN cache, Decode(b)
  PROVE  CacheInv'
<1> DEFINE n == Len(order)
<1>1. order \in Seq(decoded) /\ n \in Nat /\ Cap \in Nat \ {0} /\ n <= Cap
  BY UnpackAssumption DEF CacheInv
<1>2. decoded' = decoded \cup {b} /\ b \in decoded' /\ order \in Seq(decoded')
  BY <1>1, SeqMonotonic DEF Decode
<1>3. \A k \in 1..n : order[k] \in DOMAIN cache /\ order[k] # b
  BY DEF CacheInv
<1>4. CASE n < Cap
  <2>1. /\ order' = Append(order, b)
        /\ cache' = [k \in DOMAIN cache \cup {b} |-> IF k = b THEN b ELSE cache[k]]
    BY <1>1, <1>4 DEF Decode
  <2>2. order' \in Seq(decoded') /\ Len(order') = n + 1
        /\ (\A k \in 1..n : order'[k] = order[k]) /\ order'[n + 1] = b
    BY <1>1, <1>2, <2>1
  <2>3. DOMAIN cache' = {b} \cup DOMAIN cache
        /\ cache'[b] = b /\ \A k \in DOMAIN cache : cache'[k] = cache[k]
    BY <1>3, <2>1
  <2> HIDE DEF n
  <2>4. DOMAIN cache' = {order'[k] : k \in 1..Len(order')}
    <3>1. \A k \in 1..(n + 1) : k \in 1..n \/ k = n + 1
      BY <1>1
    <3>2. \A k \in 1..n : k \in 1..(n + 1)
      BY <1>1
    <3>3. n + 1 \in 1..(n + 1)
      BY <1>1
    <3> QED BY <2>2, <2>3, <3>1, <3>2, <3>3 DEF CacheInv, n
  <2>5. \A j, k \in 1..(n + 1) : order'[j] = order'[k] => j = k
    BY <1>1, <1>3, <2>2 DEF CacheInv, n
  <2>6. \A x \in DOMAIN cache' : cache'[x] = x
    BY <2>3 DEF CacheInv
  <2>7. Len(order') <= Cap
    BY <1>1, <1>4, <2>2
  <2> QED BY <2>2, <2>4, <2>5, <2>6, <2>7 DEF CacheInv
<1>5. CASE ~(n < Cap)
  <2>1. n = Cap /\ n >= 1 /\ order # <<>>
    BY <1>1, <1>5
  <2>2. order' = Append(Tail(order), b)
        /\ cache' = [k \in (DOMAIN cache \cup {b}) \ {Head(order)} |->
                       IF k = b THEN b ELSE cache[k]]
    BY <1>1, <1>5 DEF Decode
  <2>3. Tail(order) \in Seq(decoded') /\ Len(Tail(order)) = n - 1
        /\ \A k \in 1..(n - 1) : Tail(order)[k] = order[k + 1]
    BY <1>1, <1>2, <2>1
  <2>4. order' \in Seq(decoded') /\ Len(order') = n
        /\ (\A k \in 1..(n - 1) : order'[k] = order[k + 1]) /\ order'[n] = b
    BY <1>1, <1>2, <2>1, <2>2, <2>3
  <2>5. Head(order) = order[1] /\ order[1] # b
    BY <1>1, <1>3, <2>1
  <2> HIDE DEF n
  <2>6. DOMAIN cache' = {order'[k] : k \in 1..n}
    <3>1. \A k \in 2..n : order[k] # order[1] /\ order[k] \in DOMAIN cache
      BY <1>1, <1>3, <2>1 DEF CacheInv, n
    <3>2. ASSUME NEW x \in DOMAIN cache, x # order[1]
          PROVE  \E k \in 1..n : order'[k] = x
      <4>1. PICK k \in 1..n : order[k] = x
        BY <3>2 DEF CacheInv, n
      <4>2. k - 1 \in 1..(n - 1) /\ k - 1 \in 1..n /\ k - 1 + 1 = k
        BY <1>1, <3>2, <4>1
      <4> QED BY <2>4, <4>1, <4>2
    <3>3. ASSUME NEW k \in 1..n
          PROVE  order'[k] \in (DOMAIN cache \cup {b}) \ {order[1]}
      <4>1. CASE k = n
        BY <2>4, <2>5, <4>1
      <4>2. CASE k # n
        <5>1. k \in 1..(n - 1) /\ k + 1 \in 2..n
          BY <1>1, <4>2
        <5> QED BY <2>4, <3>1, <5>1
      <4> QED BY <4>1, <4>2
    <3>4. n \in 1..n
      BY <1>1, <2>1
    <3> QED BY <2>2, <2>4, <2>5, <3>2, <3>3, <3>4
  <2>7. \A j, k \in 1..n : order'[j] = order'[k] => j = k
    <3> SUFFICES ASSUME NEW j \in 1..n, NEW k \in 1..n, order'[j] = order'[k], j < k
                 PROVE  FALSE
      BY <1>1
    <3>1. j \in 1..(n - 1) /\ order'[j] = order[j + 1] /\ j + 1 \in 1..n
      BY <1>1, <2>4
    <3>2. CASE k = n
      BY <1>3, <2>4, <3>1, <3>2 DEF n
    <3>3. CASE k # n
      <4>1. k \in 1..(n - 1) /\ order'[k] = order[k + 1] /\ k + 1 \in 1..n
        BY <1>1, <2>4, <3>3
      <4>2. j + 1 = k + 1
        BY <3>1, <4>1 DEF CacheInv, n
      <4> QED BY <1>1, <4>2
    <3> QED BY <3>2, <3>3
  <2>8. \A k \in DOMAIN cache' : cache'[k] = k
    BY <2>2 DEF CacheInv
  <2> QED BY <1>1, <2>1, <2>4, <2>6, <2>7, <2>8 DEF CacheInv
<1> QED BY <1>4, <1>5

LEMMA NextCache == CacheInv /\ [UnpackNext]_<<folderVars, unpackVars>> => CacheInv'
<1> SUFFICES ASSUME CacheInv, [UnpackNext]_<<folderVars, unpackVars>> PROVE CacheInv'
  OBVIOUS
<1>1. ASSUME UNCHANGED viewVars PROVE CacheInv'
  BY <1>1 DEF viewVars, CacheInv
<1>2. ASSUME NEW b, ReadBlock(b) PROVE CacheInv'
  BY <1>1, <1>2, DecodeKeepsCache DEF ReadBlock
<1>3. CASE ReadSignature \/ ReadBoot \/ ReadCluster \/ ReadFat
  BY <1>2, <1>3 DEF ReadSignature, ReadBoot, ReadCluster, ReadFat
<1>4. CASE DecodeFails \/ Open \/ EndDirectory \/ Plan \/ NextFile \/ EndFile \/ EndFiles
           \/ Compare
  BY <1>1, <1>4
     DEF DecodeFails, Open, EndDirectory, Plan, NextFile, EndFile, EndFiles, Compare
<1>5. CASE UNCHANGED unpackVars
  BY <1>1, <1>5 DEF unpackVars
<1>6. CASE UNCHANGED <<folderVars, unpackVars>>
  BY <1>5, <1>6
<1> QED BY <1>3, <1>4, <1>5, <1>6 DEF UnpackNext, Unpack

(* However many blocks are decoded, the cache holds at most Cap of them,   *)
(* each under its own number and each listed once for eviction.            *)
THEOREM CacheIsSound == UnpackSpec => []CacheSound
<1>1. UnpackInit => CacheInv
  BY UnpackAssumption DEF UnpackInit, CacheInv
<1>2. UnpackSpec => []CacheInv
  BY <1>1, NextCache, PTL DEF UnpackSpec
<1> QED BY <1>2, CacheInvSuffices, PTL

-----------------------------------------------------------------------------
(* Reading                                                                 *)

(* After q clusters of node n: what was read of it, and where the reader   *)
(* stands.                                                                 *)
Gathers(a, n, c, units) ==
  \E q \in 0..count[n] :
    /\ units \in Seq(Units) /\ Len(units) = q * C
    /\ \A k \in 1..(q * C) : units[k] = UnitOf(n, k)
    /\ a = "cluster" => c = IF q = count[n] THEN EndOfChain ELSE first[n] + q
    /\ a = "fat" => /\ q # 0 /\ c = first[n] + q - 1
                    /\ q = count[n] => n = Root

Reads == at \in {"cluster", "fat"}

ChainSound ==
  /\ at # "open" => pc = "volume"
  /\ Reads => reading \in Placed /\ Gathers(at, reading, cluster, buffer)

ReadsFile == Reads /\ ~IsDirectory(reading)

(* A directory that was found is still to be walked, or all that is in it  *)
(* was found.                                                              *)
Walked(d) == ChildrenOf(d, nodes) \subseteq found

WalkSound ==
  /\ at \in {"open", "signature", "boot"} => found = {} /\ pending = <<>>
  /\ pending \in Seq(nodes \cap Dirs)
  /\ found \subseteq nodes
  /\ Reads /\ IsDirectory(reading) =>
       \A d \in (found \cap Dirs) \cup {Root} :
         Walked(d) \/ d = reading \/ d \in ToSet(pending)
  /\ at \in {"plan", "next", "compare"} \/ ReadsFile => found = nodes

(* The files that are asked for.                                           *)
Targets ==
  {n \in nodes : ~IsDirectory(n) /\ IF mode = "verify" THEN n \notin Metadata ELSE Selected(n)}

Whole(f) == written[f] = [k \in 1..size[f] |-> UnitOf(f, k)]

Extracts == mode \in {"deep", "raw"}

AskedDirs == {d \in nodes \cap Dirs : Selected(d)}

OutputSound ==
  /\ at \in {"open", "signature", "boot", "plan"} \/ (Reads /\ IsDirectory(reading)) =>
       written = <<>>
  /\ at = "next" \/ ReadsFile =>
       /\ queue \in Seq(Targets)
       /\ DOMAIN written \cup ToSet(queue) = Targets
       /\ \A f \in DOMAIN written : Whole(f) \/ (ReadsFile /\ f = reading)
       /\ Extracts => AskedDirs \subseteq dirsMade
  /\ ReadsFile => reading \in DOMAIN written
  /\ at = "compare" => mode = "verify" /\ DOMAIN written = Targets /\ \A f \in Targets : Whole(f)
  /\ Extracts /\ at = "done" =>
       \/ errors \cap {"output", "extract"} # {}
       \/ /\ DOMAIN written = Targets /\ \A f \in Targets : Whole(f)
          /\ AskedDirs \subseteq dirsMade
  /\ mode = "verify" =>
       IF at = "done"
       THEN DOMAIN written = Targets /\ (\A f \in Targets : Whole(f)) /\ errors = Differences
       ELSE errors = {}

(* The data blocks of directories and of files that were asked for.        *)
AskedBlocks ==
  {BlockOf(c) : c \in UNION {first[n]..(first[n] + count[n] - 1) :
                               n \in {m \in Placed : IsDirectory(m) \/ Selected(m)}}}

DecodedSound ==
  /\ at = "open" => decoded = {}
  /\ at # "open" => decoded \subseteq {0, 1} \cup AskedBlocks

(* As long as nothing was edited, what was read is what is there.          *)
UneditedSound ==
  ~edited =>
    /\ pc \in Scanned =>
         /\ nodes \cap Files = Kept(folder) \ Links
         /\ \A f \in nodes \cap Files : size[f] = folder[f]
    /\ pc \in Emitting =>
         \A n \in nodes \cap Files : n <= current /\ HasBytes(n) =>
           IF pc = "read" /\ n = current THEN got[n] <= size[n] ELSE got[n] = size[n]

ReaderInv == CacheInv /\ ChainSound /\ WalkSound /\ OutputSound /\ DecodedSound

-----------------------------------------------------------------------------
(* A folder that nobody edits                                              *)

LEMMA UneditedScan ==
  ASSUME FolderTyped, ScanTree
  PROVE  UneditedSound'
<1>1. /\ nodes' = (Kept(folder) \ Links) \cup Dirs
                    \cup (IF index.there THEN {IndexNode} ELSE {})
                    \cup (IF tmpLeft THEN {TmpNode} ELSE {})
      /\ size' = [n \in nodes' \ Dirs |-> IF n = IndexNode THEN Len(index.rows)
                                          ELSE IF n = TmpNode THEN 1 ELSE folder[n]]
      /\ pc' = "bitmap" /\ folder' = folder
  BY DEF ScanTree, indexVars
<1>2. Kept(folder)' = Kept(folder)
  BY <1>1 DEF Kept
<1>3. nodes' \cap Files = Kept(folder) \ Links
  BY <1>1, VolumeAssumption DEF Kept
<1>4. \A f \in nodes' \cap Files : size'[f] = folder[f]
  BY <1>1, VolumeAssumption
<1> QED BY <1>1, <1>2, <1>3, <1>4 DEF UneditedSound, Emitting

LEMMA UneditedKept ==
  ASSUME UneditedSound, UNCHANGED <<nodes, size, folder, edited>>
  PROVE  /\ ~edited' => ~edited
         /\ ~edited' /\ pc \in Scanned =>
              /\ nodes' \cap Files = Kept(folder)' \ Links
              /\ \A f \in nodes' \cap Files : size'[f] = folder'[f]
  BY DEF UneditedSound, Kept

LEMMA UneditedStep == VolumeInv /\ UneditedSound /\ VolumeStep => UneditedSound'
<1> SUFFICES ASSUME VolumeInv, UneditedSound, VolumeStep PROVE UneditedSound'
  OBVIOUS
<1>1. FolderTyped /\ ScanSound /\ LayoutSound /\ EmissionSound
  BY DEF VolumeInv
<1>2. ASSUME UNCHANGED <<nodes, size, folder, edited, current, got>>,
             pc' \in Scanned => pc \in Scanned,
             pc' \in Emitting => pc \in Emitting /\ (pc' = "read" <=> pc = "read")
      PROVE  UneditedSound'
  <2>1. \A n : HasBytes(n)' = HasBytes(n)
    BY <1>2 DEF HasBytes
  <2> QED BY <1>2, <2>1, UneditedKept DEF UneditedSound
<1>3. CASE ScanTree
  BY <1>1, <1>3, UneditedScan
<1>4. CASE ScanFails \/ SolveBitmap \/ Assign \/ BuildFat \/ EndVolume
  BY <1>2, <1>4 DEF ScanFails, SolveBitmap, Assign, BuildFat, EndVolume, indexVars, volumeVars,
                    Scanned, Solved, Laid, Chained, Emitting
<1>5. CASE Ensure /\ UNCHANGED volumeVars
  <2>1. UNCHANGED <<nodes, size, folder, edited, current, got>> /\ pc' \notin Scanned
    BY <1>5 DEF Ensure, EnsureSkips, EnsureBuilds, WalkFile, EndWalk, FillSlot, WriteIndex,
                indexVars, volumeVars, Scanned, Solved, Laid, Chained, Emitting
  <2> QED BY <1>2, <2>1 DEF Scanned, Solved, Laid, Chained
<1>6. CASE (\E e \in Edits : Edit(e)) /\ UNCHANGED volumeVars
  BY <1>6 DEF Edit, UneditedSound
<1>7. CASE UNCHANGED folderVars
  BY <1>2, <1>7 DEF folderVars, indexVars, volumeVars
<1>8. ASSUME UNCHANGED <<nodes, size, folder, edited>>, pc \in Laid,
             pc' \in Emitting =>
               \A n \in nodes \cap Files : ~edited /\ n <= current' /\ HasBytes(n) =>
                 IF pc' = "read" /\ n = current' THEN got'[n] <= size[n] ELSE got'[n] = size[n]
      PROVE  UneditedSound'
  <2>1. \A n : HasBytes(n)' = HasBytes(n)
    BY <1>8 DEF HasBytes
  <2>2. pc \in Scanned
    BY <1>8 DEF Scanned, Solved
  <2> QED BY <1>8, <2>1, <2>2, UneditedKept DEF UneditedSound
<1>9. ASSUME pc \in Laid
      PROVE  nodes \subseteq Placed /\ nodes \subseteq Nat \ {0} /\ Placed \subseteq Nat
  <2>1. Placed \subseteq 0..LastNode /\ IsScan(nodes, size)
    BY <1>1, <1>9, Places
  <2> QED BY <2>1, ScanFacts DEF Placed
<1>10. ASSUME pc \in Emitting, ~edited, NEW n \in nodes \cap Files, n <= current, HasBytes(n)
       PROVE  IF pc = "read" /\ n = current THEN got[n] <= size[n] ELSE got[n] = size[n]
  BY <1>10 DEF UneditedSound
<1>17. ASSUME pc \in Laid, NEW n \in nodes, HasBytes(n)
       PROVE  size[n] \in Nat
  BY <1>1, <1>9, <1>17, Places DEF HasBytes
<1>11. CASE EmitRegions
  <2>1. pc \in Laid /\ current' = 0 /\ UNCHANGED <<nodes, size, folder, edited>>
    BY <1>1, <1>11 DEF EmitRegions, indexVars, EmissionSound, Laid, Chained, Emitting, Root
  <2>2. \A n \in nodes : ~(n <= current')
    BY <1>9, <2>1
  <2> QED BY <1>8, <2>1, <2>2
<1>12. CASE EmitNode
  <2>1. /\ pc = "emit" /\ pc' = "emit" /\ current' = NextNode /\ ~HasBytes(NextNode) /\ Rest # {}
        /\ UNCHANGED <<nodes, size, folder, edited, got>>
        /\ pc \in Laid /\ pc \in Emitting
    BY <1>12 DEF EmitNode, indexVars, Laid, Chained, Emitting
  <2>2. NextNode \in Nat /\ \A n \in Placed : n < NextNode => n <= current
    BY <1>1, <2>1, NextFacts
  <2>3. ASSUME NEW n \in nodes \cap Files, ~edited, n <= current', HasBytes(n)
        PROVE  got'[n] = size[n]
    <3>1. n # NextNode /\ n \in Nat /\ n \in Placed
      BY <1>9, <2>1, <2>3
    <3>2. n <= current
      BY <2>1, <2>2, <2>3, <3>1
    <3> QED BY <1>10, <2>1, <2>3, <3>2
  <2> QED BY <1>8, <2>1, <2>3
<1>13. CASE OpenFile
  <2>1. /\ pc = "emit" /\ pc' \in {"read", "failed"} /\ current' = NextNode /\ Rest # {}
        /\ got' = Put(got, NextNode, 0)
        /\ UNCHANGED <<nodes, size, folder, edited>>
        /\ pc \in Laid /\ pc \in Emitting
    BY <1>13 DEF OpenFile, indexVars, Laid, Chained, Emitting
  <2>2. /\ NextNode \in Nat /\ NextNode \in nodes
        /\ \A n \in Placed : n < NextNode => n <= current
    BY <1>1, <2>1, NextFacts
  <2>3. ASSUME NEW n \in nodes \cap Files, ~edited, n <= current', HasBytes(n)
        PROVE  IF n = current' THEN got'[n] <= size[n] ELSE got'[n] = size[n]
    <3>1. CASE n = NextNode
      <4>1. got'[n] = 0
        BY <2>1, <3>1 DEF Put
      <4>2. size[n] \in Nat
        BY <1>17, <2>1, <2>3
      <4> QED BY <2>1, <3>1, <4>1, <4>2
    <3>2. CASE n # NextNode
      <4>1. n \in Nat /\ n \in Placed
        BY <1>9, <2>1
      <4>2. n <= current
        BY <2>1, <2>2, <2>3, <3>2, <4>1
      <4>3. got[n] = size[n]
        BY <1>10, <2>1, <2>3, <4>2
      <4>4. n \in DOMAIN got
        BY <1>1, <2>1, <2>3, <4>1, <4>2 DEF EmissionSound
      <4> QED BY <2>1, <3>2, <4>3, <4>4 DEF Put
    <3> QED BY <3>1, <3>2
  <2> QED BY <1>8, <2>1, <2>3 DEF Emitting
<1>14. ASSUME pc = "read", ~edited, NEW n \in nodes \cap Files, n = current
       PROVE  Length(n) = size[n] /\ size[n] \in Nat
  <2>1. pc \in Scanned /\ pc \in Laid /\ n \in Placed
    BY <1>14, <1>9 DEF Scanned, Solved, Laid, Chained, Emitting
  <2>2. size[n] = folder[n]
    BY <1>14, <2>1 DEF UneditedSound
  <2>3. HasBytes(n)
    BY <1>1, <1>14 DEF EmissionSound, Emitting
  <2>4. size[n] \in Nat
    BY <1>17, <2>1, <2>3
  <2> QED BY <1>14, <2>2, <2>4 DEF Length
<1>15. CASE ReadChunk
  <2>1. /\ pc = "read" /\ pc' = "read" /\ got[current] < Length(current)
        /\ got' = [got EXCEPT ![current] = @ + 1]
        /\ UNCHANGED <<nodes, size, folder, edited, current>>
        /\ pc \in Laid /\ pc \in Emitting
    BY <1>15 DEF ReadChunk, indexVars, Laid, Chained, Emitting
  <2>2. current \in nodes \ Dirs /\ current \in DOMAIN got /\ got[current] \in Nat
    BY <1>1, <2>1, Reading
  <2>3. ASSUME NEW n \in nodes \cap Files, ~edited, n <= current, HasBytes(n)
        PROVE  IF n = current THEN got'[n] <= size[n] ELSE got'[n] = size[n]
    <3>1. CASE n = current
      <4>1. got'[n] = got[n] + 1 /\ got[n] < size[n] /\ size[n] \in Nat
        BY <1>14, <2>1, <2>2, <2>3, <3>1
      <4> QED BY <2>2, <3>1, <4>1
    <3>2. CASE n # current
      <4>1. got[n] = size[n] /\ n \in DOMAIN got
        BY <1>1, <1>9, <1>10, <2>1, <2>3, <3>2 DEF EmissionSound
      <4> QED BY <2>1, <3>2, <4>1
    <3> QED BY <3>1, <3>2
  <2> QED BY <1>8, <2>1, <2>3
<1>16. CASE PadFile
  <2>1. /\ pc = "read" /\ pc' \in {"emit", "failed"} /\ got[current] >= Length(current)
        /\ UNCHANGED <<nodes, size, folder, edited, current, got>>
        /\ pc \in Laid /\ pc \in Emitting
    BY <1>16 DEF PadFile, indexVars, Laid, Chained, Emitting
  <2>2. got[current] \in Nat
    BY <1>1, <2>1, Reading
  <2>3. ASSUME NEW n \in nodes \cap Files, ~edited, n <= current, HasBytes(n)
        PROVE  got[n] = size[n]
    <3>1. CASE n = current
      <4>1. got[n] <= size[n] /\ got[n] >= size[n] /\ size[n] \in Nat
        BY <1>10, <1>14, <2>1, <2>3, <3>1
      <4> QED BY <2>2, <3>1, <4>1
    <3>2. CASE n # current
      BY <1>10, <2>1, <2>3, <3>2
    <3> QED BY <3>1, <3>2
  <2> QED BY <1>8, <2>1, <2>3
<1> QED BY <1>3, <1>4, <1>5, <1>6, <1>7, <1>11, <1>12, <1>13, <1>15, <1>16 DEF VolumeStep, Emit

-----------------------------------------------------------------------------
(* Following the chains                                                    *)

(* A step is one of the reader, none, or one before the reader begins.     *)
LEMMA UnpackSteps ==
  ASSUME ChainSound, [UnpackNext]_<<folderVars, unpackVars>>
  PROVE  /\ VolumeStep
         /\ \/ Unpack /\ UNCHANGED folderVars /\ pc = "volume" /\ at' # "open"
            \/ UNCHANGED <<folderVars, unpackVars>>
            \/ at = "open" /\ UNCHANGED unpackVars
<1>1. CASE UNCHANGED <<folderVars, unpackVars>>
  BY <1>1 DEF VolumeStep
<1>2. CASE Emit /\ UNCHANGED unpackVars
  <2>1. pc # "volume"
    BY <1>2 DEF Emit, ScanTree, ScanFails, SolveBitmap, Assign, BuildFat, EmitRegions, EmitNode, OpenFile,
                ReadChunk, PadFile, EndVolume
  <2> QED BY <1>2, <2>1 DEF ChainSound, VolumeStep
<1>3. CASE Ensure /\ UNCHANGED <<volumeVars, unpackVars>>
  <2>1. pc # "volume"
    BY <1>3 DEF Ensure, EnsureSkips, EnsureBuilds, WalkFile, EndWalk, FillSlot, WriteIndex
  <2> QED BY <1>3, <2>1 DEF ChainSound, VolumeStep
<1>4. CASE /\ pc = "volume" /\ at = "open"
           /\ (\E e \in Edits : Edit(e)) /\ UNCHANGED <<volumeVars, unpackVars>>
  BY <1>4 DEF VolumeStep
<1>5. CASE Unpack
  <2>1. UNCHANGED folderVars /\ (at # "open" \/ pc = "volume") /\ at' # "open"
    <3>1. CASE DecodeFails \/ Open \/ ReadSignature \/ ReadBoot \/ ReadCluster \/ ReadFat
      BY <3>1 DEF DecodeFails, Open, ReadSignature, ReadBoot, ReadCluster, ReadFat
    <3>2. CASE EndDirectory \/ Plan \/ NextFile \/ EndFile \/ EndFiles \/ Compare
      BY <3>2 DEF EndDirectory, Plan, NextFile, EndFile, EndFiles, Compare
    <3> QED BY <1>5, <3>1, <3>2 DEF Unpack
  <2> QED BY <1>5, <2>1 DEF ChainSound, VolumeStep
<1> QED BY <1>1, <1>2, <1>3, <1>4, <1>5 DEF UnpackNext

LEMMA UnpackFixes ==
  ASSUME UNCHANGED folderVars
  PROVE  /\ UNCHANGED <<pc, nodes, size, bitmap, count, first, fat, got, image, folder, edited>>
         /\ Placed' = Placed
         /\ \A n, k : UnitOf(n, k)' = UnitOf(n, k)
         /\ Present' = Present
<1>1. UNCHANGED <<pc, nodes, size, bitmap, count, first, fat, got, image, folder, edited>>
  BY DEF folderVars, volumeVars, indexVars
<1>2. \A n : DirectoryUnits(n)' = DirectoryUnits(n)
  BY <1>1, Fixed
<1> QED BY <1>1, <1>2 DEF Placed, UnitOf, Present

LEMMA GathersNext ==
  ASSUME UNCHANGED folderVars, NEW a, NEW n, NEW c, NEW s,
         a = at', n = reading', c = cluster', s = buffer',
         Gathers(a, n, c, s)
  PROVE  Gathers(at, reading, cluster, buffer)'
<1>1. UNCHANGED <<nodes, count, first, got>>
  BY UnpackFixes
<1> QED BY <1>1 DEF Gathers, UnitOf, DirectoryUnits

(* The volume as the reader meets it.                                      *)
LEMMA Runs ==
  ASSUME VolumeInv, pc = "volume"
  PROVE  /\ ScanSound /\ LayoutSound /\ EmissionSound
         /\ C \in Nat \ {0} /\ LastNode \in Nat
         /\ Placed \subseteq 0..LastNode /\ Root \in Placed /\ nodes \subseteq Nat \ {0}
         /\ IsScan(nodes, size) /\ Dirs \subseteq nodes
         /\ \A n \in Placed :
              /\ count[n] \in Nat /\ first[n] \in Nat
              /\ first[n] = 0 <=> count[n] = 0
              /\ count[n] # 0 => first[n] >= 3
              /\ IsDirectory(n) => count[n] # 0
              /\ \A q \in 1..(count[n] - 1) : fat[first[n] + q - 1] = first[n] + q
              /\ count[n] # 0 => fat[first[n] + count[n] - 1] = EndOfChain
<1>1. ScanSound /\ LayoutSound /\ EmissionSound /\ pc \in Laid /\ pc \in Chained
  BY AllWritten DEF VolumeInv
<1>2. /\ LastNode \in Nat /\ Placed \subseteq 0..LastNode /\ IsScan(nodes, size) /\ bitmap \in Nat
      /\ \A n \in Placed : count[n] \in Nat /\ count[n] = ClustersOf(n, nodes, size)
  BY <1>1, Places
<1>3. C \in Nat \ {0} /\ Root \in Placed /\ nodes \subseteq Nat \ {0} /\ Dirs \subseteq nodes
  BY <1>2, ScanFacts, VolumeAssumption DEF Placed, IsScan
<1>4. \A n \in Placed : Before(n) \in Nat
  <2> TAKE n \in Placed
  <2>1. n \in 0..(LastNode + 1)
    BY <1>2
  <2> QED BY <1>2, <2>1, InFront DEF Before
<1>5. \A n \in Placed : first[n] = IF count[n] = 0 THEN 0 ELSE 3 + bitmap + Before(n)
  BY <1>1 DEF LayoutSound
<1>6. \A n \in Placed : /\ first[n] \in Nat
                        /\ first[n] = 0 <=> count[n] = 0
                        /\ count[n] # 0 => first[n] >= 3
  BY <1>2, <1>4, <1>5
<1>7. \A n \in Placed : IsDirectory(n) => count[n] # 0
  BY <1>2 DEF ClustersOf
<1>8. ASSUME NEW n \in Placed, NEW q \in 1..(count[n] - 1)
      PROVE  fat[first[n] + q - 1] = first[n] + q
  <2>1. PICK c \in Nat : c = first[n] + q - 1 /\ c \in first[n]..(first[n] + count[n] - 2)
                         /\ c + 1 = first[n] + q
    BY <1>2, <1>6
  <2>2. fat[c] = c + 1
    BY <1>1, <2>1 DEF LayoutSound
  <2> QED BY <2>1, <2>2
<1>9. \A n \in Placed : count[n] # 0 => fat[first[n] + count[n] - 1] = EndOfChain
  BY <1>1 DEF LayoutSound
<1> QED BY <1>1, <1>2, <1>3, <1>6, <1>7, <1>8, <1>9

LEMMA StartGathers ==
  ASSUME VolumeInv, pc = "volume", NEW n \in Placed
  PROVE  Gathers("cluster", n, StartAt(n), <<>>)
<1>1. /\ C \in Nat \ {0} /\ count[n] \in Nat /\ first[n] \in Nat
      /\ first[n] = 0 <=> count[n] = 0
  BY Runs
<1>2. StartAt(n) = IF 0 = count[n] THEN EndOfChain ELSE first[n] + 0
  BY <1>1 DEF StartAt
<1>3. <<>> \in Seq(Units) /\ Len(<<>>) = 0 /\ 0 * C = 0 /\ 1..0 = {}
  BY <1>1
<1>4. 0 \in 0..count[n]
  BY <1>1
<1> QED BY <1>2, <1>3, <1>4 DEF Gathers

(* A cached block has the content of the block it is looked up for.        *)
LEMMA Undisturbed ==
  ASSUME CacheInv
  PROVE  /\ \A b : Content(b) = b
         /\ \A c \in Nat : c >= 2 => UnitsAt(c) = ClusterUnits(c)
<1>1. \A b : Content(b) = b
  BY DEF CacheInv, Content
<1>2. ASSUME NEW c \in Nat, c >= 2
      PROVE  UnitsAt(c) = ClusterUnits(c)
  <2>1. K \in Nat \ {0} /\ c - 2 \in Nat
    BY <1>2, UnpackAssumption
  <2>2. PICK b \in Int : b = BlockOf(c)
    BY <2>1 DEF BlockOf
  <2>3. c + (b - b) * K = c
    BY <2>1
  <2> QED BY <1>1, <2>2, <2>3 DEF UnitsAt
<1> QED BY <1>1, <1>2

(* Where the reader stands in a run.                                       *)
LEMMA Standing ==
  ASSUME VolumeInv, ChainSound, Reads
  PROVE  /\ pc = "volume" /\ reading \in Placed
         /\ \E q \in 0..count[reading] :
              /\ buffer \in Seq(Units) /\ Len(buffer) = q * C
              /\ \A k \in 1..(q * C) : buffer[k] = UnitOf(reading, k)
              /\ at = "cluster" =>
                   cluster = IF q = count[reading] THEN EndOfChain ELSE first[reading] + q
              /\ at = "fat" => /\ q # 0 /\ cluster = first[reading] + q - 1
                               /\ q = count[reading] => reading = Root
BY DEF ChainSound, Gathers, Reads

(* The end of a directory is in its last cluster.                          *)
LEMMA EndInLast ==
  ASSUME VolumeInv, pc = "volume", NEW n \in Placed, IsDirectory(n),
         NEW q \in Nat, q < count[n],
         NEW i \in 1..C, DirectoryUnits(n)[q * C + i] = Zero
  PROVE  q + 1 = count[n]
<1>1. /\ ScanSound /\ LayoutSound /\ EmissionSound
      /\ C \in Nat \ {0} /\ IsScan(nodes, size) /\ count[n] \in Nat
  BY Runs
<1>2. count[n] = ClustersOf(n, nodes, size)
  BY <1>1 DEF LayoutSound, Laid, Chained, Emitting
<1>3. PICK used \in Nat : used = EntryUnits(n, nodes)
  BY <1>1, ScanFacts
<1>4. used <= q * C + i - 1
  <2>1. PICK units, listed, own : /\ units = DirectoryUnits(n)
                                  /\ listed = InOrder(ChildrenOf(n, nodes)) /\ own = OwnUnits(n)
    OBVIOUS
  <2>2. /\ \A k \in 1..own : units[k] # Zero
        /\ \A k \in 1..Len(listed) : units[own + k] = EntryUnit(listed[k])
    BY <1>1, <1>2, <2>1, DirectoryUnitsAre
  <2>3. Len(listed) \in Nat /\ own \in Nat /\ used = own + Len(listed)
    <3> DEFINE kids == ChildrenOf(n, nodes)
    <3>1. nodes \subseteq 1..LastNode /\ IsFiniteSet(kids)
      BY <1>1, ScanFacts
    <3>2. kids \subseteq Nat
      <4>1. kids \subseteq nodes
        BY DEF ChildrenOf
      <4>2. 1..LastNode \subseteq Nat
        OBVIOUS
      <4> QED BY <3>1, <4>1, <4>2
    <3>3. listed = InOrder(kids) /\ EntryUnits(n, nodes) = Cardinality(kids) + OwnUnits(n)
      BY <2>1 DEF EntryUnits, OwnUnits
    <3>4. listed \in Seq(kids) /\ Len(listed) = Cardinality(kids)
      <4> HIDE DEF kids
      <4> QED BY <3>1, <3>2, <3>3, InOrderSorts
    <3>5. Cardinality(kids) \in Nat /\ OwnUnits(n) \in Nat
      BY <3>1, FS_CardinalityType DEF OwnUnits
    <3> QED BY <1>3, <2>1, <3>3, <3>4, <3>5
  <2>4. PICK k \in Nat : k = q * C + i /\ k >= 1
    BY <1>1
  <2>5. \A e : EntryUnit(e) # Zero
    BY DEF EntryUnit, Zero, Meta
  <2>6. ASSUME k <= used PROVE FALSE
    <3>1. CASE k <= own
      BY <2>1, <2>2, <2>3, <2>4, <3>1
    <3>2. CASE k > own
      <4>1. k - own \in 1..Len(listed) /\ own + (k - own) = k
        BY <2>3, <2>4, <2>6, <3>2
      <4> QED BY <2>1, <2>2, <2>4, <2>5, <4>1
    <3> QED BY <2>3, <2>4, <3>1, <3>2
  <2> QED BY <1>1, <2>4, <2>6
<1>5. PICK r \in Nat, s \in 0..(C - 1) : /\ r = (used + C - 1) \div C
                                       /\ used + C - 1 = r * C + s
  <2>1. used + C - 1 \in Nat
    BY <1>1
  <2> QED BY <1>1, <2>1, DivMod
<1>6. count[n] = IF r = 0 THEN 1 ELSE r
  BY <1>2, <1>3, <1>5 DEF ClustersOf, Ceil
<1>7. r * C <= (q + 1) * C + C - 1
  <2>1. q * C \in Nat /\ (q + 1) * C = q * C + C
    BY <1>1
  <2> QED BY <1>1, <1>4, <1>5, <2>1
<1>8. ASSUME r >= q + 2 PROVE FALSE
  <2>1. (q + 2) * C <= r * C /\ (q + 2) * C = (q + 1) * C + C /\ (q + 1) * C \in Nat
    BY <1>1, <1>8, Multiples
  <2> QED BY <1>1, <1>7, <2>1
<1> QED BY <1>6, <1>8

LEMMA ReadClusterChain ==
  ASSUME VolumeInv, CacheInv, ChainSound, ReadCluster
  PROVE  Gathers(at, reading, cluster, buffer)'
<1>1. /\ at = "cluster" /\ cluster # EndOfChain /\ UNCHANGED folderVars
      /\ reading' = reading /\ buffer' = buffer \o UnitsAt(cluster)
      /\ IF Enough(reading, Len(buffer')) \/ EndsIn(reading, UnitsAt(cluster))
         THEN at' = "cluster" /\ cluster' = EndOfChain
         ELSE at' = "fat" /\ cluster' = cluster
  BY DEF ReadCluster
<1>2. Reads /\ pc = "volume"
  BY <1>1 DEF Reads, ChainSound
<1>3. PICK n \in Placed : n = reading
  BY <1>2, Standing
<1>4. C \in Nat \ {0} /\ count[n] \in Nat /\ first[n] \in Nat
      /\ (count[n] # 0 => first[n] >= 3)
  BY <1>2, <1>3, Runs
<1>5. PICK q \in Nat : /\ q < count[n]
                       /\ buffer \in Seq(Units) /\ Len(buffer) = q * C
                       /\ \A k \in 1..(q * C) : buffer[k] = UnitOf(n, k)
                       /\ cluster = first[n] + q
  <2>1. PICK q \in 0..count[n] :
          /\ buffer \in Seq(Units) /\ Len(buffer) = q * C
          /\ \A k \in 1..(q * C) : buffer[k] = UnitOf(n, k)
          /\ cluster = IF q = count[n] THEN EndOfChain ELSE first[n] + q
    BY <1>1, <1>2, <1>3, Standing
  <2>2. q # count[n]
    BY <1>1, <2>1
  <2>3. q \in Nat /\ q < count[n]
    BY <1>4, <2>2
  <2> QED BY <2>1, <2>2, <2>3
<1>6. PICK u \in Seq(Units) : /\ u = UnitsAt(cluster) /\ Len(u) = C
                              /\ \A i \in 1..C : u[i] = UnitOf(n, q * C + i)
  <2>1. UnitsAt(cluster) = ClusterUnits(first[n] + q)
    <3>1. PICK c \in Nat : c = cluster /\ c = first[n] + q /\ c >= 2
      BY <1>4, <1>5
    <3> QED BY <3>1, Undisturbed
  <2>2. ScanSound /\ LayoutSound /\ EmissionSound
    BY DEF VolumeInv
  <2> QED BY <1>2, <1>5, <2>1, <2>2, ClusterIs
<1>7. PICK base \in Nat, room \in Nat :
        base = q * C /\ room = count[n] * C /\ (q + 1) * C = base + C
        /\ (base + C >= room <=> q + 1 = count[n])
  <2>1. q * C \in Nat /\ count[n] * C \in Nat /\ (q + 1) * C = q * C + C
    BY <1>4
  <2>2. q + 1 = count[n] => q * C + C >= count[n] * C
    BY <1>4, <2>1
  <2>3. q + 1 # count[n] => q * C + C < count[n] * C
    <3> SUFFICES ASSUME q + 2 <= count[n] PROVE q * C + C < count[n] * C
      BY <1>4, <1>5
    <3>0. PICK a \in Nat, b \in Nat : a = q + 2 /\ b = count[n] /\ a <= b
      BY <1>4
    <3>1. (q + 2) * C <= count[n] * C
      BY <1>4, <3>0, Multiples
    <3>2. (q + 2) * C = q * C + 2 * C
      BY <1>4, Multiples
    <3> QED BY <1>4, <2>1, <3>1, <3>2
  <2> QED BY <2>1, <2>2, <2>3, <1>4
<1>8. PICK s \in Seq(Units) : s = buffer /\ Len(s) = base /\ \A k \in 1..base : s[k] = UnitOf(n, k)
  BY <1>5, <1>7
<1>9. PICK t \in Seq(Units) : /\ t = buffer' /\ Len(t) = base + C
                              /\ \A k \in 1..(base + C) : t[k] = UnitOf(n, k)
  <2>1. /\ s \o u \in Seq(Units) /\ Len(s \o u) = base + C
        /\ \A k \in 1..(base + C) : (s \o u)[k] = IF k <= base THEN s[k] ELSE u[k - base]
    <3>1. /\ s \o u \in Seq(Units) /\ Len(s \o u) = Len(s) + Len(u)
          /\ \A k \in 1..(Len(s) + Len(u)) :
               (s \o u)[k] = IF k <= Len(s) THEN s[k] ELSE u[k - Len(s)]
      BY ConcatProperties
    <3> QED BY <1>6, <1>8, <3>1
  <2>2. ASSUME NEW k \in 1..(base + C)
        PROVE  (s \o u)[k] = UnitOf(n, k)
    <3>1. CASE k <= base
      BY <1>8, <2>1, <3>1
    <3>2. CASE ~(k <= base)
      <4>1. k - base \in 1..C /\ base + (k - base) = k
        BY <1>4, <3>2
      <4> QED BY <1>6, <1>7, <2>1, <3>2, <4>1
    <3> QED BY <3>1, <3>2
  <2> QED BY <1>1, <1>6, <1>8, <2>1, <2>2
<1>10. PICK a, c : a = at' /\ c = cluster'
  OBVIOUS
<1>11. Gathers(a, n, c, t)
  <2>1. q + 1 \in 0..count[n] /\ q + 1 # 0
    BY <1>4, <1>5
  <2>2. Len(t) = (q + 1) * C /\ \A k \in 1..((q + 1) * C) : t[k] = UnitOf(n, k)
    BY <1>7, <1>9
  <2>3. Enough(n, base + C) <=> n # Root /\ q + 1 = count[n]
    BY <1>7 DEF Enough
  <2>6. EndsIn(n, u) => q + 1 = count[n]
    <3> SUFFICES ASSUME IsDirectory(n), NEW i \in 1..Len(u), u[i] = Zero PROVE q + 1 = count[n]
      BY DEF EndsIn
    <3>1. i \in 1..C /\ DirectoryUnits(n)[q * C + i] = Zero
      BY <1>6 DEF UnitOf
    <3> QED BY <1>2, <1>5, <3>1, EndInLast
  <2>4. IF (n # Root /\ q + 1 = count[n]) \/ EndsIn(n, u)
        THEN a = "cluster" /\ c = EndOfChain /\ q + 1 = count[n]
        ELSE a = "fat" /\ c = first[n] + q
    BY <1>1, <1>3, <1>5, <1>6, <1>9, <1>10, <2>3, <2>6
  <2>5. first[n] + (q + 1) - 1 = first[n] + q
    BY <1>4
  <2> QED BY <2>1, <2>2, <2>4, <2>5 DEF Gathers
<1> QED BY <1>1, <1>3, <1>9, <1>10, <1>11, GathersNext

LEMMA ReadFatChain ==
  ASSUME VolumeInv, CacheInv, ChainSound, ReadFat
  PROVE  Gathers(at, reading, cluster, buffer)'
<1>1. /\ at = "fat" /\ at' = "cluster" /\ UNCHANGED folderVars
      /\ reading' = reading /\ buffer' = buffer
      /\ cluster' = fat[cluster]
  BY Undisturbed DEF ReadFat
<1>2. Reads /\ pc = "volume"
  BY <1>1 DEF Reads, ChainSound
<1>3. PICK n \in Placed : n = reading
  BY <1>2, Standing
<1>4. /\ count[n] \in Nat /\ first[n] \in Nat
      /\ \A q \in 1..(count[n] - 1) : fat[first[n] + q - 1] = first[n] + q
      /\ count[n] # 0 => fat[first[n] + count[n] - 1] = EndOfChain
  BY <1>2, Runs
<1>5. PICK q \in 0..count[n] : /\ q # 0
                               /\ buffer \in Seq(Units) /\ Len(buffer) = q * C
                               /\ \A k \in 1..(q * C) : buffer[k] = UnitOf(n, k)
                               /\ cluster = first[n] + q - 1
  BY <1>1, <1>2, <1>3, Standing
<1>6. fat[cluster] = IF q = count[n] THEN EndOfChain ELSE first[n] + q
  <2>1. CASE q = count[n]
    BY <1>4, <1>5, <2>1
  <2>2. CASE q # count[n]
    <3>1. q \in 1..(count[n] - 1)
      BY <1>4, <1>5, <2>2
    <3> QED BY <1>4, <1>5, <2>2, <3>1
  <2> QED BY <2>1, <2>2
<1>7. PICK a, c, s : a = at' /\ c = cluster' /\ s = buffer'
  OBVIOUS
<1>8. Gathers(a, n, c, s)
  BY <1>1, <1>5, <1>6, <1>7 DEF Gathers
<1> QED BY <1>1, <1>3, <1>7, <1>8, GathersNext

-----------------------------------------------------------------------------
(* Walking the directories                                                 *)

(* What a sequence holds, when it is joined, split or made from a set.     *)
LEMMA ToSetConcat ==
  ASSUME NEW S, NEW s \in Seq(S), NEW t \in Seq(S)
  PROVE  s \o t \in Seq(S) /\ ToSet(s \o t) = ToSet(s) \cup ToSet(t)
<1>1. PICK m \in Nat, n \in Nat : m = Len(s) /\ n = Len(t)
  OBVIOUS
<1>2. PICK u \in Seq(S) : /\ u = s \o t /\ Len(u) = m + n
                          /\ \A k \in 1..(m + n) : u[k] = IF k <= m THEN s[k] ELSE t[k - m]
  <2>1. /\ s \o t \in Seq(S) /\ Len(s \o t) = Len(s) + Len(t)
        /\ \A k \in 1..(Len(s) + Len(t)) :
             (s \o t)[k] = IF k <= Len(s) THEN s[k] ELSE t[k - Len(s)]
    BY ConcatProperties
  <2> QED BY <1>1, <2>1
<1>3. DOMAIN s = 1..m /\ DOMAIN t = 1..n /\ DOMAIN u = 1..(m + n)
  BY <1>1, <1>2
<1>4. ToSet(u) \subseteq ToSet(s) \cup ToSet(t)
  <2> SUFFICES ASSUME NEW k \in 1..(m + n) PROVE u[k] \in ToSet(s) \cup ToSet(t)
    BY <1>3 DEF ToSet
  <2>1. CASE k <= m
    BY <1>2, <1>3, <2>1 DEF ToSet
  <2>2. CASE ~(k <= m)
    <3>1. k - m \in 1..n
      BY <2>2
    <3> QED BY <1>2, <1>3, <2>2, <3>1 DEF ToSet
  <2> QED BY <2>1, <2>2
<1>5. ToSet(s) \subseteq ToSet(u)
  <2> SUFFICES ASSUME NEW k \in 1..m PROVE s[k] \in ToSet(u)
    BY <1>3 DEF ToSet
  <2>1. k \in 1..(m + n) /\ u[k] = s[k]
    BY <1>2
  <2> QED BY <1>3, <2>1 DEF ToSet
<1>6. ToSet(t) \subseteq ToSet(u)
  <2> SUFFICES ASSUME NEW k \in 1..n PROVE t[k] \in ToSet(u)
    BY <1>3 DEF ToSet
  <2>1. m + k \in 1..(m + n) /\ ~(m + k <= m) /\ (m + k) - m = k
    OBVIOUS
  <2>2. u[m + k] = t[k]
    BY <1>2, <2>1
  <2> QED BY <1>3, <2>1, <2>2 DEF ToSet
<1> QED BY <1>2, <1>4, <1>5, <1>6

LEMMA ToSetSplit ==
  ASSUME NEW S, NEW s \in Seq(S), s # <<>>
  PROVE  /\ Head(s) \in S /\ Tail(s) \in Seq(S)
         /\ ToSet(s) = {Head(s)} \cup ToSet(Tail(s))
<1>1. PICK n \in Nat : n = Len(s) /\ n >= 1
  OBVIOUS
<1>2. /\ Head(s) \in S /\ Head(s) = s[1]
      /\ Tail(s) \in Seq(S) /\ Len(Tail(s)) = n - 1
      /\ \A k \in 1..(n - 1) : Tail(s)[k] = s[k + 1]
  BY <1>1, HeadTailProperties
<1>3. PICK t \in Seq(S) : t = Tail(s) /\ Len(t) = n - 1 /\ \A k \in 1..(n - 1) : t[k] = s[k + 1]
  BY <1>2
<1>4. DOMAIN s = 1..n /\ DOMAIN t = 1..(n - 1)
  BY <1>1, <1>3
<1>5. ToSet(s) \subseteq {s[1]} \cup ToSet(t)
  <2> SUFFICES ASSUME NEW k \in 1..n, k # 1 PROVE s[k] \in ToSet(t)
    BY <1>4 DEF ToSet
  <2>1. k - 1 \in 1..(n - 1) /\ (k - 1) + 1 = k
    BY <1>1
  <2>2. t[k - 1] = s[k]
    BY <1>3, <2>1
  <2> QED BY <1>4, <2>1, <2>2 DEF ToSet
<1>6. {s[1]} \cup ToSet(t) \subseteq ToSet(s)
  <2>1. s[1] \in ToSet(s)
    BY <1>1, <1>4 DEF ToSet
  <2>2. ASSUME NEW k \in 1..(n - 1) PROVE t[k] \in ToSet(s)
    <3>1. k + 1 \in 1..n
      BY <1>1
    <3> QED BY <1>3, <1>4, <3>1 DEF ToSet
  <2> QED BY <1>4, <2>1, <2>2 DEF ToSet
<1> QED BY <1>2, <1>3, <1>5, <1>6

LEMMA ToSetInOrder ==
  ASSUME NEW S, S \subseteq Nat, IsFiniteSet(S)
  PROVE  InOrder(S) \in Seq(S) /\ ToSet(InOrder(S)) = S
<1>1. PICK s \in Seq(S) : s = InOrder(S) /\ \A e \in S : \E k \in 1..Len(s) : s[k] = e
  BY InOrderSorts
<1>2. DOMAIN s = 1..Len(s) /\ \A k \in 1..Len(s) : s[k] \in S
  BY ElementOfSeq
<1> QED BY <1>1, <1>2 DEF ToSet

(* When all that is in the root and in the directories found was found,    *)
(* everything was: the parent comes before the child.                      *)
LEMMA AllFound ==
  ASSUME VolumeInv, pc = "volume", NEW F, F \subseteq nodes,
         \A d \in (F \cap Dirs) \cup {Root} : ChildrenOf(d, nodes) \subseteq F
  PROVE  F = nodes
<1>1. nodes \subseteq Nat \ {0} /\ Dirs \subseteq nodes /\ nodes \subseteq AllNodes
  BY Runs DEF IsScan
<1> SUFFICES ASSUME nodes \ F # {} PROVE FALSE
  OBVIOUS
<1>2. PICK n \in nodes \ F : \A m \in nodes \ F : n <= m
  <2>1. nodes \ F \subseteq Nat
    BY <1>1
  <2> QED BY <2>1, LeastElement
<1>3. Parent[n] \in Dirs \cup {Root} /\ Parent[n] < n
  BY <1>1, VolumeAssumption
<1>4. Parent[n] \in (F \cap Dirs) \cup {Root}
  <2>1. CASE Parent[n] \in Dirs
    <3>1. Parent[n] \in nodes /\ Parent[n] \in Nat /\ n \in Nat
      BY <1>1, <2>1
    <3> QED BY <1>2, <1>3, <2>1, <3>1
  <2> QED BY <1>3, <2>1
<1> QED BY <1>2, <1>4 DEF ChildrenOf

(* At the end of its chain a node has been read in full.                   *)
LEMMA Gathered ==
  ASSUME VolumeInv, ChainSound, at = "cluster", cluster = EndOfChain
  PROVE  /\ pc = "volume" /\ reading \in Placed
         /\ buffer \in Seq(Units) /\ Len(buffer) = count[reading] * C
         /\ buffer = DataOf(reading)
         /\ \A k \in 1..(count[reading] * C) : buffer[k] = UnitOf(reading, k)
<1>1. Reads /\ pc = "volume" /\ reading \in Placed
  BY Standing DEF Reads
<1>2. count[reading] \in Nat /\ first[reading] \in Nat
  BY <1>1, Runs
<1>3. PICK q \in 0..count[reading] :
        /\ buffer \in Seq(Units) /\ Len(buffer) = q * C
        /\ \A k \in 1..(q * C) : buffer[k] = UnitOf(reading, k)
        /\ cluster = IF q = count[reading] THEN EndOfChain ELSE first[reading] + q
  BY <1>1, Standing
<1>4. q = count[reading]
  BY <1>2, <1>3 DEF EndOfChain
<1>5. DataOf(reading) = [k \in 1..(count[reading] * C) |-> UnitOf(reading, k)]
  BY <1>1, DataOfIs DEF VolumeInv
<1>6. buffer = DataOf(reading)
  <2>1. PICK s \in Seq(Units) : s = buffer /\ Len(s) = count[reading] * C
    BY <1>3, <1>4
  <2>2. s = [k \in 1..Len(s) |-> s[k]]
    OBVIOUS
  <2>3. PICK l : l = Len(s) /\ l = count[reading] * C
    BY <2>1
  <2>4. \A k \in 1..l : s[k] = UnitOf(reading, k)
    BY <1>3, <1>4, <2>1, <2>3
  <2> QED BY <1>5, <2>1, <2>2, <2>3, <2>4
<1> QED BY <1>1, <1>3, <1>4, <1>6

LEMMA EndDirectoryWalk ==
  ASSUME VolumeInv, ChainSound, WalkSound, EndDirectory
  PROVE  /\ WalkSound'
         /\ \/ at' = "plan"
            \/ at' = "cluster" /\ reading' \in nodes \cap Dirs
               /\ cluster' = StartAt(reading') /\ buffer' = <<>>
<1> DEFINE entries == EntriesIn(buffer)
           dirs == {n \in entries : IsDirectory(n)}
           next == InOrder(dirs) \o pending
<1>1. /\ at = "cluster" /\ cluster = EndOfChain /\ IsDirectory(reading)
      /\ found' = found \cup entries
      /\ IF next = <<>>
         THEN at' = "plan" /\ reading' = reading /\ pending' = pending
         ELSE /\ reading' = Head(next) /\ pending' = Tail(next)
              /\ cluster' = StartAt(Head(next)) /\ buffer' = <<>>
              /\ at' = at
      /\ UNCHANGED folderVars
  BY DEF EndDirectory
<1>2. pc = "volume" /\ reading \in Dirs \cup {Root} /\ buffer = DataOf(reading)
  BY <1>1, Gathered DEF IsDirectory
<1>3. entries = ChildrenOf(reading, nodes)
  <2>1. entries = Listed(reading)
    BY <1>2 DEF EntriesIn, Listed
  <2> QED BY <1>2, <2>1, ListedAre DEF VolumeInv
<1> HIDE DEF entries
<1>4. /\ nodes \subseteq Nat \ {0} /\ Dirs \subseteq nodes /\ IsFiniteSet(entries)
      /\ entries \subseteq nodes
  <2>1. IsScan(nodes, size) /\ nodes \subseteq Nat \ {0} /\ Dirs \subseteq nodes
    BY <1>2, Runs
  <2>2. IsFiniteSet(entries)
    BY <1>3, <2>1, ScanFacts
  <2> QED BY <1>3, <2>1, <2>2 DEF ChildrenOf
<1>5. dirs = entries \cap Dirs /\ dirs \subseteq nodes \cap Dirs
  BY <1>4 DEF IsDirectory, Root
<1>6. InOrder(dirs) \in Seq(nodes \cap Dirs) /\ ToSet(InOrder(dirs)) = dirs
  <2>1. IsFiniteSet(dirs) /\ dirs \subseteq Nat
    BY <1>4, <1>5, FS_Subset
  <2> HIDE DEF dirs
  <2>2. InOrder(dirs) \in Seq(dirs) /\ ToSet(InOrder(dirs)) = dirs
    BY <2>1, ToSetInOrder
  <2> QED BY <1>5, <2>2, SeqMonotonic
<1> HIDE DEF dirs
<1>7. next \in Seq(nodes \cap Dirs) /\ ToSet(next) = dirs \cup ToSet(pending)
  BY <1>6, ToSetConcat DEF WalkSound
<1> HIDE DEF next
<1>8. Reads /\ found \subseteq nodes
      /\ \A d \in (found \cap Dirs) \cup {Root} : Walked(d) \/ d = reading \/ d \in ToSet(pending)
  BY <1>1 DEF WalkSound, Reads
<1>9. \A d \in (found' \cap Dirs) \cup {Root} :
        ChildrenOf(d, nodes) \subseteq found' \/ d \in ToSet(next)
  <2> TAKE d \in (found' \cap Dirs) \cup {Root}
  <2>1. CASE d = reading
    BY <1>1, <1>3, <2>1
  <2>2. CASE d \in ToSet(pending) \/ d \in dirs
    BY <1>7, <2>2
  <2>3. CASE d \in (found \cap Dirs) \cup {Root} /\ d # reading /\ d \notin ToSet(pending)
    BY <1>1, <1>8, <2>3 DEF Walked
  <2> QED BY <1>1, <1>5, <2>1, <2>2, <2>3
<1>10. found' \subseteq nodes /\ nodes' = nodes
  BY <1>1, <1>4, <1>8, UnpackFixes
<1>11. CASE next = <<>>
  <2>1. ToSet(next) = {}
    BY <1>11 DEF ToSet
  <2>2. found' = nodes
    BY <1>2, <1>9, <1>10, <2>1, AllFound
  <2> QED BY <1>1, <1>10, <1>11, <2>2 DEF WalkSound, Reads, ReadsFile
<1>12. CASE next # <<>>
  <2>1. /\ reading' \in nodes \cap Dirs /\ pending' \in Seq(nodes \cap Dirs)
        /\ ToSet(next) = {reading'} \cup ToSet(pending')
    <3>1. /\ Head(next) \in nodes \cap Dirs /\ Tail(next) \in Seq(nodes \cap Dirs)
          /\ ToSet(next) = {Head(next)} \cup ToSet(Tail(next))
      BY <1>7, <1>12, ToSetSplit
    <3> QED BY <1>1, <1>12, <3>1
  <2>2. IsDirectory(reading')
    BY <2>1 DEF IsDirectory
  <2>3. \A d \in (found' \cap Dirs) \cup {Root} :
          Walked(d)' \/ d = reading' \/ d \in ToSet(pending')
    BY <1>9, <1>10, <2>1 DEF Walked
  <2>4. at' = "cluster"
    BY <1>1, <1>12
  <2>5. WalkSound'
    BY <1>10, <2>1, <2>2, <2>3, <2>4 DEF WalkSound, Reads, ReadsFile
  <2> QED BY <1>1, <1>12, <2>1, <2>4, <2>5
<1> QED BY <1>11, <1>12

(* What Plan and NextFile do.                                              *)
LEMMA PlanIs ==
  ASSUME Plan
  PROVE  /\ at = "plan" /\ at' \in {"done", "next", "raised"}
         /\ UNCHANGED folderVars /\ UNCHANGED <<inputs, viewVars, found, pending, written>>
         /\ mode = "verify" => at' = "next" /\ UNCHANGED errors
         /\ Extracts =>
              /\ at' = "done" => "output" \in errors'
              /\ at' = "next" => {d \in found : IsDirectory(d) /\ Selected(d)} \subseteq dirsMade'
         /\ at' = "next" => queue' = ToRead
<1>1. /\ at = "plan" /\ UNCHANGED folderVars /\ UNCHANGED <<inputs, viewVars, found, pending>>
  BY DEF Plan
<1>2. CASE mode = "tree"
  <2>1. at' = "done" /\ UNCHANGED <<queue, outputVars>>
    BY <1>2 DEF Plan
  <2> QED BY <1>1, <1>2, <2>1 DEF outputVars, Extracts
<1>3. CASE mode = "verify"
  <2>1. at' = "next" /\ queue' = ToRead /\ UNCHANGED outputVars
    BY <1>3 DEF Plan
  <2> QED BY <1>1, <1>3, <2>1 DEF outputVars, Extracts
<1>4. CASE mode = "raw" /\ occupant = [at |-> Root, kind |-> "file"]
  <2>1. at' = "done" /\ errors' = errors \cup {"output"} /\ UNCHANGED <<queue, written, dirsMade>>
    BY <1>4 DEF Plan
  <2> QED BY <1>1, <1>4, <2>1
<1>5. CASE /\ mode # "tree" /\ mode # "verify"
           /\ ~(mode = "raw" /\ occupant = [at |-> Root, kind |-> "file"])
  <2>1. /\ dirsMade' = {Root} \cup {d \in DirsToMake : \A b \in DirsToMake : b <= d => ~Blocked(b)}
        /\ IF \E d \in DirsToMake : Blocked(d)
           THEN at' = "raised" /\ UNCHANGED <<queue, errors>>
           ELSE /\ at' = "next" /\ queue' = ToRead
                /\ errors' = errors \cup (IF Unmatched = {} THEN {} ELSE {"unmatched"})
        /\ UNCHANGED written
    BY <1>5 DEF Plan
  <2>2. at' = "next" => DirsToMake \subseteq dirsMade'
    BY <2>1
  <2> QED BY <1>1, <1>5, <2>1, <2>2 DEF DirsToMake
<1> QED BY <1>2, <1>3, <1>4, <1>5

LEMMA NextFileIs ==
  ASSUME NextFile
  PROVE  /\ at = "next" /\ queue # <<>>
         /\ UNCHANGED folderVars /\ UNCHANGED <<inputs, viewVars, found, pending>>
         /\ \/ at' = "raised" /\ mode # "verify" /\ UNCHANGED errors
            \/ at' = "done" /\ mode # "verify" /\ "extract" \in errors'
            \/ /\ at' = "cluster" /\ reading' = Head(queue)
               /\ cluster' = StartAt(reading') /\ buffer' = <<>>
               /\ queue' = Tail(queue) /\ written' = Put(written, reading', <<>>)
               /\ Extracts => dirsMade \subseteq dirsMade'
               /\ UNCHANGED errors
BY DEF NextFile, walkVars, outputVars, Extracts

LEMMA ChainStep ==
  ASSUME VolumeInv, CacheInv, ChainSound, WalkSound, OutputSound,
         [UnpackNext]_<<folderVars, unpackVars>>
  PROVE  ChainSound'
<1>1. CASE at = "open" /\ UNCHANGED unpackVars
  BY <1>1 DEF ChainSound, Reads, unpackVars
<1>2. CASE UNCHANGED <<folderVars, unpackVars>>
  <2>1. UNCHANGED <<at, reading, cluster, buffer>> /\ pc' = pc /\ Placed' = Placed
    BY <1>2, UnpackFixes DEF unpackVars, walkVars
  <2>2. PICK a, n, c, s : a = at /\ n = reading /\ c = cluster /\ s = buffer
    OBVIOUS
  <2>3. Reads => Gathers(a, n, c, s)
    BY <2>2 DEF ChainSound
  <2>4. Reads => Gathers(at, reading, cluster, buffer)'
    BY <1>2, <2>1, <2>2, <2>3, GathersNext
  <2> QED BY <2>1, <2>4 DEF ChainSound, Reads
<1>3. ASSUME UNCHANGED folderVars, pc = "volume", at' \notin {"cluster", "fat"}
      PROVE  ChainSound'
  BY <1>3, UnpackFixes DEF ChainSound, Reads
<1>4. ASSUME UNCHANGED folderVars, pc = "volume", at' = "cluster", NEW n \in Placed,
             reading' = n, cluster' = StartAt(n), buffer' = <<>>
      PROVE  ChainSound'
  <2>1. Gathers("cluster", n, StartAt(n), <<>>)
    BY <1>4, StartGathers
  <2>2. PICK a, c, s : /\ a = at' /\ c = cluster' /\ s = buffer'
                       /\ a = "cluster" /\ c = StartAt(n) /\ s = <<>>
    BY <1>4
  <2>3. Gathers(a, n, c, s)
    BY <2>1, <2>2
  <2>4. Gathers(at, reading, cluster, buffer)'
    BY <1>4, <2>2, <2>3, GathersNext
  <2> QED BY <1>4, <2>4, UnpackFixes DEF ChainSound
<1>5. CASE Unpack /\ UNCHANGED folderVars /\ pc = "volume"
  <2>1. CASE DecodeFails \/ Open \/ ReadSignature \/ EndFile \/ EndFiles \/ Compare
    BY <1>3, <1>5, <2>1 DEF DecodeFails, Open, ReadSignature, EndFile, EndFiles, Compare
  <2>2. CASE ReadBoot
    <3>1. \/ at' = "done"
          \/ at' = "cluster" /\ reading' = Root /\ cluster' = StartAt(Root) /\ buffer' = <<>>
      BY <2>2 DEF ReadBoot
    <3>2. Root \in Placed
      BY DEF Placed
    <3> QED BY <1>3, <1>4, <1>5, <3>1, <3>2
  <2>3. CASE ReadCluster \/ ReadFat
    <3>1. reading' = reading /\ Reads
      BY <2>3 DEF ReadCluster, ReadFat, Reads
    <3>2. Gathers(at, reading, cluster, buffer)'
      BY <2>3, ReadClusterChain, ReadFatChain
    <3> QED BY <1>5, <3>1, <3>2, UnpackFixes DEF ChainSound
  <2>4. CASE EndDirectory
    <3>1. \/ at' = "plan"
          \/ at' = "cluster" /\ reading' \in nodes \cap Dirs
             /\ cluster' = StartAt(reading') /\ buffer' = <<>>
      BY <2>4, EndDirectoryWalk
    <3>2. PICK n : n = reading'
      OBVIOUS
    <3>3. \/ at' = "plan"
          \/ at' = "cluster" /\ n \in Placed /\ cluster' = StartAt(n) /\ buffer' = <<>>
      BY <3>1, <3>2 DEF StartAt, Placed
    <3> QED BY <1>3, <1>4, <1>5, <3>2, <3>3
  <2>5. CASE Plan
    BY <1>3, <1>5, <2>5, PlanIs
  <2>6. CASE NextFile
    <3>1. \/ at' \in {"raised", "done"}
          \/ at' = "cluster" /\ reading' = Head(queue)
             /\ cluster' = StartAt(reading') /\ buffer' = <<>>
      BY <2>6, NextFileIs
    <3>2. Head(queue) \in Placed
      <4>1. queue # <<>> /\ queue \in Seq(Targets)
        BY <2>6, NextFileIs DEF OutputSound
      <4>2. Head(queue) \in Targets
        BY <4>1, ToSetSplit
      <4> QED BY <4>2 DEF Targets, Placed
    <3>3. PICK n \in Placed : n = Head(queue)
      BY <3>2
    <3>4. \/ at' \in {"raised", "done"}
          \/ at' = "cluster" /\ reading' = n /\ cluster' = StartAt(n) /\ buffer' = <<>>
      BY <3>1, <3>3 DEF StartAt
    <3> QED BY <1>3, <1>4, <1>5, <3>4
  <2> QED BY <1>5, <2>1, <2>2, <2>3, <2>4, <2>5, <2>6 DEF Unpack
<1> QED BY <1>1, <1>2, <1>5, UnpackSteps

LEMMA WalkStep ==
  ASSUME VolumeInv, ChainSound, WalkSound, OutputSound,
         [UnpackNext]_<<folderVars, unpackVars>>
  PROVE  WalkSound'
<1>1. CASE at = "open" /\ UNCHANGED unpackVars
  <2>1. at' = "open" /\ found' = {} /\ pending' = <<>>
    BY <1>1 DEF unpackVars, walkVars, WalkSound
  <2> QED BY <2>1 DEF WalkSound, Reads, ReadsFile
<1>2. ASSUME UNCHANGED folderVars, UNCHANGED <<found, pending>>,
             at' \notin {"open", "signature", "boot"} \/ at \in {"open", "signature", "boot"},
             Reads' => \/ at = "next" /\ ~IsDirectory(reading')
                       \/ Reads /\ reading' = reading
                       \/ at \in {"open", "signature", "boot"} /\ reading' = Root,
             at' \in {"plan", "next", "compare"}
               => at \in {"plan", "next", "compare"} \/ ReadsFile
      PROVE  WalkSound'
  <2>1. nodes' = nodes /\ \A d : Walked(d)' = Walked(d)
    BY <1>2, UnpackFixes DEF Walked
  <2>2. IsDirectory(Root)
    BY DEF IsDirectory
  <2> QED BY <1>2, <2>1, <2>2 DEF WalkSound, Reads, ReadsFile
<1>3. CASE UNCHANGED <<folderVars, unpackVars>>
  BY <1>2, <1>3 DEF unpackVars, walkVars, Reads, ReadsFile
<1>4. CASE Unpack /\ UNCHANGED folderVars /\ pc = "volume"
  <2>1. CASE DecodeFails \/ Open \/ ReadSignature \/ EndFile \/ EndFiles \/ Compare
    BY <1>2, <1>4, <2>1
       DEF DecodeFails, Open, ReadSignature, EndFile, EndFiles, Compare, walkVars, Reads, ReadsFile
  <2>2. CASE ReadBoot
    BY <1>2, <1>4, <2>2 DEF ReadBoot, walkVars, Reads, ReadsFile
  <2>3. CASE ReadCluster \/ ReadFat
    BY <1>2, <1>4, <2>3 DEF ReadCluster, ReadFat, Reads, ReadsFile
  <2>4. CASE EndDirectory
    BY <2>4, EndDirectoryWalk
  <2>5. CASE Plan
    BY <1>2, <1>4, <2>5, PlanIs DEF Reads, ReadsFile
  <2>6. CASE NextFile
    <3>1. queue # <<>> /\ queue \in Seq(Targets)
      BY <2>6, NextFileIs DEF OutputSound
    <3>2. ~IsDirectory(Head(queue))
      BY <3>1, ToSetSplit DEF Targets
    <3> QED BY <1>2, <1>4, <2>6, <3>2, NextFileIs DEF Reads, ReadsFile
  <2> QED BY <1>4, <2>1, <2>2, <2>3, <2>4, <2>5, <2>6 DEF Unpack
<1> QED BY <1>1, <1>3, <1>4, UnpackSteps

-----------------------------------------------------------------------------
(* What is written                                                         *)

(* What is asked for does not change while the volume is read.             *)
LEMMA AskedSame ==
  ASSUME UNCHANGED folderVars, UNCHANGED inputs
  PROVE  /\ UNCHANGED <<mode, only, nodes, size, pc>>
         /\ Targets' = Targets /\ AskedDirs' = AskedDirs
         /\ \A f : Selected(f)' = Selected(f)
         /\ \A f : written'[f] = written[f] /\ Whole(f) => Whole(f)'
<1>1. UNCHANGED <<mode, only, damaged, occupant>>
  BY DEF inputs
<1>2. /\ UNCHANGED <<nodes, size, pc>>
      /\ \A n, k : UnitOf(n, k)' = UnitOf(n, k)
  BY UnpackFixes
<1>3. \A f : Selected(f)' = Selected(f)
  BY <1>1 DEF Selected
<1>4. Targets' = Targets /\ AskedDirs' = AskedDirs
  BY <1>1, <1>2, <1>3 DEF Targets, AskedDirs
<1>5. \A f : written'[f] = written[f] /\ Whole(f) => Whole(f)'
  BY <1>2 DEF Whole
<1> QED BY <1>1, <1>2, <1>3, <1>4, <1>5

(* The chain of a file is long enough for it.                              *)
LEMMA FileIsWhole ==
  ASSUME VolumeInv, ChainSound, EndFile
  PROVE  /\ at' = "next" /\ UNCHANGED errors
         /\ written' = [written EXCEPT ![reading] = [k \in 1..size[reading] |-> UnitOf(reading, k)]]
<1>1. /\ at = "cluster" /\ cluster = EndOfChain /\ ~IsDirectory(reading)
      /\ IF Len(buffer) < size[reading]
         THEN at' = "done" /\ errors' = errors \cup {"extract"}
         ELSE at' = "next" /\ UNCHANGED errors
      /\ written' = [written EXCEPT ![reading] =
                       SubSeq(buffer, 1, Min({Len(buffer), size[reading]}))]
  BY DEF EndFile
<1>2. PICK room, length, s : /\ room = count[reading] * C /\ length = size[reading] /\ s = buffer
  OBVIOUS
<1>3. /\ pc = "volume" /\ reading \in Placed /\ s \in Seq(Units) /\ Len(s) = room
      /\ \A k \in 1..room : s[k] = UnitOf(reading, k)
  BY <1>1, <1>2, Gathered
<1>4. room \in Nat /\ length \in Nat /\ length <= room
  <2>1. ScanSound /\ LayoutSound /\ pc \in Laid
    BY <1>3 DEF VolumeInv, Laid, Chained, Emitting
  <2> QED BY <1>1, <1>2, <1>3, <2>1, Places
<1>5. Min({Len(s), length}) = length
  <2>1. Min({room, length}) = CHOOSE x \in {room, length} : \A y \in {room, length} : x =< y
    BY DEF Min
  <2>2. \A x \in {room, length} : (\A y \in {room, length} : x =< y) <=> x = length
    BY <1>4
  <2>3. length \in {room, length}
    OBVIOUS
  <2>4. Min({room, length}) = length
    BY <2>1, <2>2, <2>3
  <2> QED BY <1>3, <2>4
<1>6. SubSeq(s, 1, length) = [k \in 1..length |-> UnitOf(reading, k)]
  <2>1. /\ SubSeq(s, 1, length) = [k \in 1..length |-> s[k]]
    BY <1>3, <1>4
  <2>2. \A k \in 1..length : s[k] = UnitOf(reading, k)
    BY <1>3, <1>4
  <2> QED BY <2>1, <2>2
<1>7. ~(Len(buffer) < size[reading])
  BY <1>2, <1>3, <1>4
<1> QED BY <1>1, <1>2, <1>5, <1>6, <1>7

LEMMA OutputStep ==
  ASSUME VolumeInv, ChainSound, WalkSound, OutputSound,
         [UnpackNext]_<<folderVars, unpackVars>>
  PROVE  OutputSound'
<1>1. CASE at = "open" /\ UNCHANGED unpackVars
  <2>1. at' = "open" /\ written' = <<>> /\ (mode' = "verify" => errors' = {})
    BY <1>1 DEF unpackVars, inputs, outputVars, OutputSound
  <2> QED BY <2>1 DEF OutputSound, Reads, ReadsFile
(* What was there stays, and the reader is still about the same.           *)
<1>2. ASSUME UNCHANGED folderVars, UNCHANGED <<inputs, queue, outputVars>>,
             \/ at' \in {"open", "signature", "boot", "plan"} \/ (Reads' /\ IsDirectory(reading'))
             \/ ReadsFile' /\ ReadsFile /\ reading' = reading
             \/ at' = at /\ ~Reads
             \/ at' = "raised" /\ at # "done",
             at' \in {"open", "signature", "boot", "plan"} \/ (Reads' /\ IsDirectory(reading'))
               => at \in {"open", "signature", "boot", "plan"} \/ (Reads /\ IsDirectory(reading))
      PROVE  OutputSound'
  <2>1. UNCHANGED <<written, dirsMade, errors, queue>>
    BY <1>2 DEF outputVars
  <2>2. /\ UNCHANGED <<mode, only, nodes, size, pc>>
        /\ Targets' = Targets /\ AskedDirs' = AskedDirs
        /\ \A f : Whole(f) => Whole(f)'
    BY <1>2, <2>1, AskedSame
  <2>3. Extracts' = Extracts /\ Differences' = Differences
    <3>1. UNCHANGED folder
      BY <1>2, UnpackFixes
    <3> QED BY <2>1, <2>2, <3>1
            DEF Extracts, Differences, SourceMap, VolumeMap, LastOf, Present, SourceUnits
  <2>4. CASE at' \in {"open", "signature", "boot", "plan"} \/ (Reads' /\ IsDirectory(reading'))
    BY <1>2, <2>1, <2>2, <2>4 DEF OutputSound, Reads, ReadsFile
  <2>5. CASE ReadsFile' /\ ReadsFile /\ reading' = reading
    BY <2>1, <2>2, <2>3, <2>5 DEF OutputSound, Reads, ReadsFile, IsDirectory
  <2>6. CASE at' = at /\ ~Reads
    BY <1>2, <2>1, <2>2, <2>3, <2>6 DEF OutputSound, Reads, ReadsFile
  <2>7. CASE at' = "raised" /\ at # "done"
    BY <2>1, <2>2, <2>7 DEF OutputSound, Reads, ReadsFile
  <2> QED BY <1>2, <2>4, <2>5, <2>6, <2>7
<1>3. CASE UNCHANGED <<folderVars, unpackVars>>
  BY <1>2, <1>3 DEF unpackVars, walkVars, Reads, ReadsFile
<1>4. CASE Unpack /\ UNCHANGED folderVars /\ pc = "volume"
  <2> USE <1>4
  <2>1. CASE DecodeFails \/ Open \/ ReadSignature
    BY <1>2, <2>1 DEF DecodeFails, Open, ReadSignature, walkVars, Reads, ReadsFile
  <2>2. CASE ReadBoot
    <3>1. /\ at = "boot" /\ UNCHANGED inputs /\ written' = written
          /\ \/ at' = "done" /\ mode = "deep" /\ "output" \in errors'
             \/ at' = "cluster" /\ reading' = Root /\ errors' = errors
      BY <2>2 DEF ReadBoot
    <3>2. mode' = mode /\ Extracts' = Extracts /\ written' = <<>> /\ IsDirectory(Root)
      BY <3>1 DEF inputs, Extracts, OutputSound, IsDirectory
    <3>3. CASE at' = "done"
      BY <3>1, <3>2, <3>3 DEF OutputSound, Reads, ReadsFile
    <3>4. CASE at' = "cluster" /\ reading' = Root /\ errors' = errors
      BY <3>1, <3>2, <3>4 DEF OutputSound, Reads, ReadsFile
    <3> QED BY <3>1, <3>3, <3>4
  <2>3. CASE ReadCluster \/ ReadFat
    BY <1>2, <2>3 DEF ReadCluster, ReadFat, Reads, ReadsFile
  <2>4. CASE EndDirectory
    <3>1. \/ at' = "plan"
          \/ at' = "cluster" /\ IsDirectory(reading')
      BY <2>4, EndDirectoryWalk DEF IsDirectory
    <3> QED BY <1>2, <2>4, <3>1 DEF EndDirectory, Reads, ReadsFile
  <2>5. CASE Plan
    <3>1. /\ at = "plan" /\ at' \in {"done", "next", "raised"}
          /\ UNCHANGED inputs /\ written' = <<>> /\ found = nodes
          /\ mode = "verify" => at' = "next" /\ errors' = {}
          /\ Extracts =>
               /\ at' = "done" => "output" \in errors'
               /\ at' = "next" => {d \in found : IsDirectory(d) /\ Selected(d)} \subseteq dirsMade'
          /\ at' = "next" => queue' = ToRead
      BY <2>5, PlanIs DEF OutputSound, WalkSound
    <3>2. /\ mode' = mode /\ Extracts' = Extracts
          /\ Targets' = Targets /\ AskedDirs' = AskedDirs
      BY <3>1, AskedSame DEF Extracts
    <3>3. at' = "next" => queue' \in Seq(Targets) /\ ToSet(queue') = Targets
      <4>1. Targets \subseteq Nat /\ IsFiniteSet(Targets)
        <5>1. nodes \subseteq Nat \ {0} /\ IsFiniteSet(nodes)
          BY Runs, ScanFacts
        <5> QED BY <5>1, FS_Subset DEF Targets
      <4>2. ToRead = InOrder(Targets)
        BY <3>1 DEF ToRead, Targets
      <4> QED BY <3>1, <4>1, <4>2, ToSetInOrder
    <3>4. Extracts /\ at' = "next" => AskedDirs \subseteq dirsMade'
      BY <3>1 DEF AskedDirs, IsDirectory
    <3>5. DOMAIN written' = {}
      BY <3>1
    <3>6. CASE at' = "next"
      BY <3>1, <3>2, <3>3, <3>4, <3>5, <3>6 DEF OutputSound, Reads, ReadsFile
    <3>7. CASE at' \in {"done", "raised"}
      BY <3>1, <3>2, <3>7 DEF OutputSound, Reads, ReadsFile
    <3> QED BY <3>1, <3>6, <3>7
  <2>6. CASE NextFile
    <3>1. /\ at = "next" /\ queue # <<>> /\ UNCHANGED inputs
          /\ \/ at' = "raised" /\ mode # "verify" /\ UNCHANGED errors
             \/ at' = "done" /\ mode # "verify" /\ "extract" \in errors'
             \/ /\ at' = "cluster" /\ reading' = Head(queue)
                /\ queue' = Tail(queue) /\ written' = Put(written, reading', <<>>)
                /\ Extracts => dirsMade \subseteq dirsMade'
                /\ UNCHANGED errors
      BY <2>6, NextFileIs
    <3>2. /\ mode' = mode /\ Extracts' = Extracts
          /\ Targets' = Targets /\ AskedDirs' = AskedDirs
          /\ \A f : written'[f] = written[f] /\ Whole(f) => Whole(f)'
      BY <3>1, AskedSame DEF Extracts
    <3>3. /\ queue \in Seq(Targets)
          /\ DOMAIN written \cup ToSet(queue) = Targets
          /\ \A f \in DOMAIN written : Whole(f)
          /\ Extracts => AskedDirs \subseteq dirsMade
          /\ mode = "verify" => errors = {}
      BY <3>1 DEF OutputSound, ReadsFile, Reads
    <3>4. CASE at' = "raised" \/ at' = "done"
      BY <3>1, <3>2, <3>4 DEF OutputSound, Reads, ReadsFile
    <3>5. CASE at' = "cluster"
      <4>1. PICK f \in Targets : /\ f = Head(queue) /\ Tail(queue) \in Seq(Targets)
                                 /\ ToSet(queue) = {f} \cup ToSet(Tail(queue))
        BY <3>1, <3>3, ToSetSplit
      <4>2. /\ reading' = f /\ queue' = Tail(queue) /\ written' = Put(written, f, <<>>)
            /\ errors' = errors /\ (Extracts => dirsMade \subseteq dirsMade')
        BY <3>1, <3>5, <4>1
      <4>3. /\ DOMAIN written' = DOMAIN written \cup {f}
            /\ \A g \in DOMAIN written : g # f => written'[g] = written[g]
        BY <4>2 DEF Put
      <4>4. \A g \in DOMAIN written' : g = f \/ Whole(g)'
        BY <3>2, <3>3, <4>3
      <4>5. ReadsFile'
        BY <3>5, <4>1, <4>2 DEF ReadsFile, Reads, Targets, IsDirectory
      <4>6. /\ queue' \in Seq(Targets')
            /\ DOMAIN written' \cup ToSet(queue') = Targets'
        BY <3>2, <3>3, <4>1, <4>2, <4>3
      <4>7. Extracts' => AskedDirs' \subseteq dirsMade'
        BY <3>2, <3>3, <4>2
      <4> QED BY <3>2, <3>3, <3>5, <4>2, <4>3, <4>4, <4>5, <4>6, <4>7
              DEF OutputSound, Reads, ReadsFile
    <3> QED BY <3>1, <3>4, <3>5
  <2>7. CASE EndFile
    <3>1. /\ at = "cluster" /\ ~IsDirectory(reading) /\ UNCHANGED <<inputs, queue, dirsMade>>
      BY <2>7 DEF EndFile, walkVars
    <3>2. /\ at' = "next" /\ UNCHANGED errors
          /\ written' = [written EXCEPT ![reading] =
                           [k \in 1..size[reading] |-> UnitOf(reading, k)]]
      BY <2>7, FileIsWhole
    <3>3. /\ mode' = mode /\ size' = size /\ Extracts' = Extracts
          /\ Targets' = Targets /\ AskedDirs' = AskedDirs
          /\ \A f : written'[f] = written[f] /\ Whole(f) => Whole(f)'
      BY <3>1, AskedSame DEF Extracts
    <3>4. /\ ReadsFile
          /\ queue \in Seq(Targets)
          /\ DOMAIN written \cup ToSet(queue) = Targets
          /\ \A f \in DOMAIN written : Whole(f) \/ f = reading
          /\ Extracts => AskedDirs \subseteq dirsMade
          /\ reading \in DOMAIN written
          /\ mode = "verify" => errors = {}
      BY <3>1 DEF OutputSound, ReadsFile, Reads
    <3>5. /\ DOMAIN written' = DOMAIN written
          /\ \A f \in DOMAIN written : f # reading => written'[f] = written[f]
          /\ written'[reading] = [k \in 1..size[reading] |-> UnitOf(reading, k)]
      BY <3>2, <3>4
    <3>6. PICK n : n = reading
      OBVIOUS
    <3>7. Whole(n)'
      <4>1. \A k : UnitOf(n, k)' = UnitOf(n, k)
        BY UnpackFixes
      <4> QED BY <3>3, <3>5, <3>6, <4>1 DEF Whole
    <3>8. \A f \in DOMAIN written' : Whole(f)'
      BY <3>3, <3>4, <3>5, <3>6, <3>7
    <3> QED BY <3>1, <3>2, <3>3, <3>4, <3>5, <3>8 DEF OutputSound, Reads, ReadsFile
  <2>8. CASE EndFiles
    <3>1. /\ at = "next" /\ queue = <<>> /\ UNCHANGED <<inputs, outputVars>>
          /\ at' = IF mode = "verify" THEN "compare" ELSE "done"
      BY <2>8 DEF EndFiles
    <3>2. UNCHANGED <<written, dirsMade, errors>>
      BY <3>1 DEF outputVars
    <3>3. /\ mode' = mode /\ Extracts' = Extracts
          /\ Targets' = Targets /\ AskedDirs' = AskedDirs
          /\ \A f : Whole(f) => Whole(f)'
      BY <3>1, <3>2, AskedSame DEF Extracts
    <3>4. ToSet(queue) = {}
      BY <3>1 DEF ToSet
    <3>5. /\ DOMAIN written = Targets
          /\ \A f \in Targets : Whole(f)
          /\ Extracts => AskedDirs \subseteq dirsMade
          /\ mode = "verify" => errors = {}
      BY <3>1, <3>4 DEF OutputSound, ReadsFile, Reads
    <3> QED BY <3>1, <3>2, <3>3, <3>5 DEF OutputSound, Reads, ReadsFile, Extracts
  <2>9. CASE Compare
    <3>1. /\ at = "compare" /\ at' = "done" /\ UNCHANGED <<inputs, written, dirsMade>>
          /\ errors' = errors \cup Differences
      BY <2>9 DEF Compare
    <3>2. /\ mode' = mode /\ Extracts' = Extracts /\ Targets' = Targets
          /\ \A f : Whole(f) => Whole(f)'
      BY <3>1, AskedSame DEF Extracts
    <3>3. /\ mode = "verify" /\ DOMAIN written = Targets
          /\ \A f \in Targets : Whole(f)
          /\ errors = {}
      BY <3>1 DEF OutputSound
    <3>4. Differences' = Differences
      <4>1. UNCHANGED <<folder, written>>
        BY <3>1, UnpackFixes
      <4> QED BY <4>1 DEF Differences, SourceMap, VolumeMap, LastOf, Present, SourceUnits
    <3> QED BY <3>1, <3>2, <3>3, <3>4 DEF OutputSound, Reads, ReadsFile, Extracts
  <2> QED BY <2>1, <2>2, <2>3, <2>4, <2>5, <2>6, <2>7, <2>8, <2>9 DEF Unpack
<1> QED BY <1>1, <1>3, <1>4, UnpackSteps

-----------------------------------------------------------------------------
(* What is decoded                                                         *)

LEMMA DecodedStep ==
  ASSUME VolumeInv, ChainSound, WalkSound, OutputSound, DecodedSound,
         [UnpackNext]_<<folderVars, unpackVars>>
  PROVE  DecodedSound'
<1>1. CASE at = "open" /\ UNCHANGED unpackVars
  BY <1>1 DEF unpackVars, viewVars, DecodedSound
<1>2. ASSUME UNCHANGED folderVars, UNCHANGED inputs, pc = "volume",
             at' = "open" <=> at = "open",
             NEW b \in {0, 1} \cup AskedBlocks, decoded' \subseteq decoded \cup {b},
             at = "open" => decoded' = decoded
      PROVE  DecodedSound'
  <2>1. \A n : Selected(n)' = Selected(n)
    BY <1>2, AskedSame
  <2>2. UNCHANGED <<count, first>> /\ Placed' = Placed
    BY <1>2, UnpackFixes
  <2>3. AskedBlocks' = AskedBlocks
    BY <2>1, <2>2 DEF AskedBlocks
  <2> QED BY <1>2, <2>3 DEF DecodedSound
<1>3. ASSUME UNCHANGED folderVars, UNCHANGED <<inputs, viewVars>>, pc = "volume", at' # "open"
      PROVE  DecodedSound'
  <2>1. UNCHANGED decoded /\ \A n : Selected(n)' = Selected(n)
    BY <1>3, AskedSame DEF viewVars
  <2>2. UNCHANGED <<count, first>> /\ Placed' = Placed
    BY <1>3, UnpackFixes
  <2>3. AskedBlocks' = AskedBlocks
    BY <2>1, <2>2 DEF AskedBlocks
  <2> QED BY <1>3, <2>1, <2>3 DEF DecodedSound
<1>4. CASE UNCHANGED <<folderVars, unpackVars>>
  <2>1. CASE at = "open"
    BY <1>1, <1>4, <2>1
  <2>2. CASE at # "open"
    BY <1>3, <1>4, <2>2 DEF unpackVars, ChainSound
  <2> QED BY <2>1, <2>2
<1>5. ASSUME NEW b, ReadBlock(b)
      PROVE  decoded' \subseteq decoded \cup {b} /\ (~Viewed => decoded' = decoded)
  BY <1>5 DEF ReadBlock, Decode, viewVars
<1>6. CASE Unpack /\ UNCHANGED folderVars /\ pc = "volume"
  <2>1. CASE DecodeFails \/ Open
    BY <1>3, <1>6, <2>1 DEF DecodeFails, Open
  <2>2. CASE EndDirectory \/ EndFile \/ EndFiles \/ Compare
    BY <1>3, <1>6, <2>2 DEF EndDirectory, EndFile, EndFiles, Compare
  <2>3. CASE Plan \/ NextFile
    BY <1>3, <1>6, <2>3, PlanIs, NextFileIs
  <2>4. CASE ReadSignature \/ ReadBoot
    <3>1. ReadBlock(0) /\ at \in {"signature", "boot"} /\ at' # "open" /\ UNCHANGED inputs
      BY <2>4 DEF ReadSignature, ReadBoot
    <3>2. decoded' \subseteq decoded \cup {0}
      BY <1>5, <3>1
    <3> QED BY <1>2, <1>6, <3>1, <3>2
  <2>5. CASE ReadFat
    <3>1. ReadBlock(1) /\ at = "fat" /\ at' # "open" /\ UNCHANGED inputs
      BY <2>5 DEF ReadFat
    <3>2. decoded' \subseteq decoded \cup {1}
      BY <1>5, <3>1
    <3> QED BY <1>2, <1>6, <3>1, <3>2
  <2>6. CASE ReadCluster
    <3>1. PICK n, c, b :
            /\ n = reading /\ c = cluster /\ b = BlockOf(c) /\ ReadBlock(b)
            /\ at = "cluster" /\ c # EndOfChain /\ at' # "open" /\ UNCHANGED inputs
      BY <2>6 DEF ReadCluster
    <3>2. c \in first[n]..(first[n] + count[n] - 1) /\ n \in Placed
      <4>1. Reads /\ n \in Placed
        BY <3>1, Standing DEF Reads
      <4>2. count[n] \in Nat /\ first[n] \in Nat
        BY <1>6, <4>1, Runs
      <4>3. PICK q \in 0..count[n] : c = IF q = count[n] THEN EndOfChain ELSE first[n] + q
        BY <3>1, <4>1, Standing
      <4> QED BY <3>1, <4>1, <4>2, <4>3
    <3>3. Viewed => IsDirectory(n) \/ Selected(n)
      <4> SUFFICES ASSUME Viewed, ~IsDirectory(n) PROVE Selected(n)
        OBVIOUS
      <4>1. ReadsFile
        BY <3>1 DEF ReadsFile, Reads
      <4>2. n \in Targets
        BY <3>1, <4>1 DEF OutputSound
      <4> QED BY <4>2 DEF Targets, Viewed
    <3>4. Viewed => b \in AskedBlocks
      BY <3>1, <3>2, <3>3 DEF AskedBlocks
    <3>5. decoded' \subseteq decoded \cup {b} /\ (~Viewed => decoded' = decoded)
      BY <1>5, <3>1
    <3>6. CASE Viewed
      BY <1>2, <1>6, <3>1, <3>4, <3>5, <3>6
    <3>7. CASE ~Viewed
      <4>1. decoded' \subseteq decoded \cup {0}
        BY <3>5, <3>7
      <4> QED BY <1>2, <1>6, <3>1, <4>1
    <3> QED BY <3>6, <3>7
  <2> QED BY <1>6, <2>1, <2>2, <2>3, <2>4, <2>5, <2>6 DEF Unpack
<1> QED BY <1>1, <1>4, <1>6, UnpackSteps

-----------------------------------------------------------------------------
(* The reader                                                              *)

UnpackInv == VolumeInv /\ ReaderInv /\ UneditedSound

LEMMA UnpackInvInit == UnpackInit => UnpackInv
<1> SUFFICES ASSUME UnpackInit PROVE UnpackInv
  OBVIOUS
<1>1. /\ VolumeInit /\ at = "open" /\ cache = <<>> /\ order = <<>> /\ decoded = {}
      /\ pending = <<>> /\ found = {} /\ written = <<>> /\ errors = {} /\ pc = "ensure"
  BY DEF UnpackInit, VolumeInit, IndexInit
<1>2. CacheInv
  BY <1>1, UnpackAssumption DEF CacheInv
<1>3. ChainSound /\ WalkSound /\ OutputSound /\ DecodedSound
  BY <1>1 DEF ChainSound, WalkSound, OutputSound, DecodedSound, Reads, ReadsFile
<1>4. UneditedSound
  BY <1>1 DEF UneditedSound, Scanned, Solved, Laid, Chained, Emitting
<1> QED BY <1>1, <1>2, <1>3, <1>4, VolumeInvInit DEF UnpackInv, ReaderInv

LEMMA UnpackInvStep == UnpackInv /\ [UnpackNext]_<<folderVars, unpackVars>> => UnpackInv'
<1> SUFFICES ASSUME UnpackInv, [UnpackNext]_<<folderVars, unpackVars>> PROVE UnpackInv'
  OBVIOUS
<1>1. /\ VolumeInv /\ CacheInv /\ ChainSound /\ WalkSound /\ OutputSound /\ DecodedSound
      /\ UneditedSound
  BY DEF UnpackInv, ReaderInv
<1>2. VolumeStep
  BY <1>1, UnpackSteps
<1>3. VolumeInv' /\ UneditedSound'
  BY <1>1, <1>2, VolumeInvStep, UneditedStep
<1>4. CacheInv' /\ ChainSound' /\ WalkSound' /\ OutputSound' /\ DecodedSound'
  BY <1>1, NextCache, ChainStep, WalkStep, OutputStep, DecodedStep
<1> QED BY <1>3, <1>4 DEF UnpackInv, ReaderInv

(* Where every node lies, how far a chain has been followed, what was found,*)
(* written and decoded: all of it holds together, of writer and reader.    *)
THEOREM UnpackInvariant == UnpackSpec => []UnpackInv
BY UnpackInvInit, UnpackInvStep, PTL DEF UnpackSpec

(* "Only the matching entries are read": whatever the selection and the    *)
(* size of a block, none is decoded but the boot region, the FAT and those *)
(* with clusters of directories and of selected files.                     *)
THEOREM OnlyMatchingIsRead == UnpackSpec => []OnlyMatchingRead
<1>1. UnpackInv => OnlyMatchingRead
  <2> SUFFICES ASSUME UnpackInv, pc = "volume" PROVE OnlyMatchingRead
    BY DEF OnlyMatchingRead
  <2>1. decoded \subseteq {0, 1} \cup AskedBlocks
    BY DEF UnpackInv, ReaderInv, DecodedSound
  <2> QED BY <2>1 DEF OnlyMatchingRead, AskedBlocks, Placed
<1> QED BY <1>1, UnpackInvariant, PTL

(* In the volume, what is no directory is a node with a size.              *)
LEMMA FilesOfVolume ==
  ASSUME VolumeInv, pc = "volume"
  PROVE  /\ {n \in nodes : ~IsDirectory(n)} = nodes \ Dirs
         /\ \A n \in nodes \ Dirs : n \in Nat /\ size[n] \in Nat
<1>1. nodes \subseteq Nat \ {0} /\ nodes \subseteq Placed
  BY Runs DEF Placed
<1>2. {n \in nodes : ~IsDirectory(n)} = nodes \ Dirs
  BY <1>1 DEF IsDirectory, Root
<1>3. ScanSound /\ LayoutSound /\ pc \in Laid
  BY DEF VolumeInv, Laid, Chained, Emitting
<1>4. \A n \in nodes \ Dirs : size[n] \in Nat
  BY <1>1, <1>2, <1>3, Places
<1> QED BY <1>1, <1>2, <1>4

(* An unpack that reports no error, of any volume and any selection, has   *)
(* written every selected file, no other, each whole, and has made every   *)
(* selected directory.                                                     *)
THEOREM SelectedIsWhole == UnpackSpec => []SelectedWhole
<1>1. UnpackInv => SelectedWhole
  <2> SUFFICES ASSUME UnpackInv, mode \in {"deep", "raw"}, at = "done",
                      errors \subseteq {"unmatched"}
               PROVE  /\ DOMAIN written = {f \in nodes \ Dirs : Selected(f)}
                      /\ \A f \in DOMAIN written :
                           /\ Len(written[f]) = size[f]
                           /\ \A k \in 1..size[f] :
                                written[f][k] = IF k <= got[f] THEN Data(f, k - 1) ELSE Zero
                      /\ {d \in nodes \cap Dirs : Selected(d)} \subseteq dirsMade
    BY DEF SelectedWhole
  <2>1. VolumeInv /\ OutputSound /\ pc = "volume"
    BY DEF UnpackInv, ReaderInv, ChainSound
  <2>2. errors \cap {"output", "extract"} = {}
    OBVIOUS
  <2>3. DOMAIN written = Targets /\ (\A f \in Targets : Whole(f)) /\ AskedDirs \subseteq dirsMade
    BY <2>1, <2>2 DEF OutputSound, Extracts
  <2>4. Targets = {f \in nodes \ Dirs : Selected(f)}
    BY <2>1, FilesOfVolume DEF Targets
  <2>5. ASSUME NEW f \in Targets
        PROVE  /\ Len(written[f]) = size[f]
               /\ \A k \in 1..size[f] :
                    written[f][k] = IF k <= got[f] THEN Data(f, k - 1) ELSE Zero
    <3>1. PICK length \in Nat : length = size[f]
      BY <2>1, <2>4, FilesOfVolume
    <3>2. ~IsDirectory(f)
      BY DEF Targets
    <3>3. written[f] = [k \in 1..length |-> IF k <= got[f] THEN Data(f, k - 1) ELSE Zero]
      BY <2>3, <3>1, <3>2 DEF Whole, UnitOf
    <3> QED BY <3>1, <3>3
  <2> QED BY <2>3, <2>4, <2>5 DEF AskedDirs
<1> QED BY <1>1, UnpackInvariant, PTL

(* Of the files of one key there is a last.                                *)
LEMMA LastExists ==
  ASSUME NEW S, S \subseteq Files, NEW place \in [Files -> Nat], NEW f \in S
  PROVE  \E g \in LastOf(S, place) : Key[g] = Key[f]
<1> DEFINE twins == {g \in S : Key[g] = Key[f]}
           places == {place[g] : g \in twins}
<1>1. IsFiniteSet(places) /\ places \subseteq Nat
  <2>1. IsFiniteSet(DOMAIN place) /\ places \subseteq {place[g] : g \in DOMAIN place}
    BY FilesFinite
  <2>2. IsFiniteSet(places)
    <3> HIDE DEF places
    <3> QED BY <2>1, FiniteRange
  <2> QED BY <2>2
<1>2. PICK m \in Nat : \A x \in places : x <= m
  <2> HIDE DEF places
  <2> QED BY <1>1, Bounded
<1> DEFINE gaps == {m - x : x \in places}
<1>3. gaps \subseteq Nat /\ gaps # {}
  BY <1>1, <1>2
<1>4. PICK least \in gaps : \A y \in gaps : least <= y
  <2> HIDE DEF gaps
  <2> QED BY <1>3, LeastElement
<1>5. PICK g \in twins : least = m - place[g]
  BY <1>4
<1>6. \A h \in twins : m - place[h] \in gaps
  OBVIOUS
<1>7. ASSUME NEW h \in twins
      PROVE  place[h] <= place[g]
  <2>1. place[h] \in Nat /\ place[g] \in Nat /\ least <= m - place[h]
    BY <1>4, <1>6
  <2> QED BY <1>5, <2>1
<1>8. g \in S /\ Key[g] = Key[f] /\ \A h \in S : Key[h] = Key[g] => place[h] <= place[g]
  BY <1>5, <1>7
<1>9. g \in LastOf(S, place)
  BY <1>8 DEF LastOf
<1> QED BY <1>8, <1>9

(* A verification that reports nothing has found every file of the folder  *)
(* with its content of now; and what it reports of a folder that nobody    *)
(* edited comes of ignored names and of names that differ in case, for     *)
(* every folder, whatever its names.                                       *)
THEOREM VerificationIsRight == UnpackSpec => []VerifyRight
<1>1. UnpackInv => VerifyRight
  <2> SUFFICES ASSUME UnpackInv, mode = "verify", at = "done"
               PROVE  /\ errors = {} =>
                           \A f \in SourceMap : \E g \in DOMAIN written \cap Files :
                             Key[g] = Key[f] /\ written[g] = SourceUnits(f)
                      /\ ~edited /\ Present \cap Links = {} =>
                           /\ "extra" \notin errors
                           /\ "missing" \in errors <=> ~(Present \cap Ignored \subseteq Metadata)
                           /\ "content" \in errors =>
                                \E f, g \in Present : f # g /\ Key[f] = Key[g]
    BY DEF VerifyRight
  <2>1. VolumeInv /\ UneditedSound /\ pc = "volume"
    BY DEF UnpackInv, ReaderInv, ChainSound
  <2>2. DOMAIN written = Targets /\ (\A f \in Targets : Whole(f)) /\ errors = Differences
    BY DEF UnpackInv, ReaderInv, OutputSound
  <2>3. ASSUME errors = {}, NEW f \in SourceMap
        PROVE  \E g \in DOMAIN written \cap Files : Key[g] = Key[f] /\ written[g] = SourceUnits(f)
    <3>1. PICK h \in VolumeMap : Key[h] = Key[f]
      BY <2>2, <2>3 DEF Differences
    <3>2. SourceUnits(f) = written[h]
      BY <2>2, <2>3, <3>1 DEF Differences
    <3> QED BY <3>1, <3>2 DEF VolumeMap, LastOf
  <2>4. ASSUME ~edited, Present \cap Links = {}
        PROVE  /\ "extra" \notin Differences
               /\ "missing" \in Differences <=> ~(Present \cap Ignored \subseteq Metadata)
               /\ "content" \in Differences =>
                    \E f, g \in Present : f # g /\ Key[f] = Key[g]
    <3>1. /\ nodes \cap Files = Kept(folder)
          /\ \A f \in nodes \cap Files : size[f] = folder[f]
      BY <2>1, <2>4 DEF UneditedSound, Present, Kept, Scanned, Solved, Laid, Chained, Emitting
    <3>2. /\ {n \in nodes : ~IsDirectory(n)} = nodes \ Dirs
          /\ \A n \in nodes \ Dirs : n \in Nat /\ size[n] \in Nat
      BY <2>1, FilesOfVolume
    <3>3. Files \cap Dirs = {}
      BY VolumeAssumption
    <3>4. DOMAIN written \cap Files = {f \in Present : f \notin Metadata /\ f \notin Ignored}
      BY <2>2, <3>1, <3>2, <3>3 DEF Targets, Present, Kept
    <3>5. VolumeMap \subseteq Targets \cap Kept(folder) /\ VolumeMap \subseteq Present
      BY <2>2, <3>1, <3>4 DEF VolumeMap, LastOf, Present, Kept
    <3>6. ASSUME NEW f \in Present, f \notin Metadata
          PROVE  \E g \in SourceMap : Key[g] = Key[f]
      BY <3>6, UnpackAssumption, LastExists DEF SourceMap, Present
    <3>7. ASSUME NEW f \in Present, f \notin Metadata, f \notin Ignored
          PROVE  \E g \in VolumeMap : Key[g] = Key[f]
      <4>1. f \in DOMAIN written \cap Files /\ [g \in Files |-> g] \in [Files -> Nat]
        BY <3>4, <3>7, FilesFinite
      <4> QED BY <4>1, LastExists DEF VolumeMap
    <3>8. \A f \in VolumeMap : f \in Present /\ f \notin Metadata /\ f \notin Ignored
      BY <3>4 DEF VolumeMap, LastOf
    <3>9. "extra" \notin Differences
      BY <3>6, <3>8 DEF Differences
    <3>10. SourceMap \subseteq {f \in Present : f \notin Metadata}
      BY DEF SourceMap, LastOf
    <3>11. ASSUME Present \cap Ignored \subseteq Metadata
           PROVE  "missing" \notin Differences
      BY <3>7, <3>10, <3>11 DEF Differences
    <3>12. ASSUME NEW f \in Present, f \in Ignored, f \notin Metadata
           PROVE  "missing" \in Differences
      <4>1. PICK g \in SourceMap : Key[g] = Key[f]
        BY <3>6, <3>12
      <4>2. g \in Files /\ f \in Files /\ g \in Ignored
        BY <3>10, <3>12, <4>1, FolderAssumption DEF Present
      <4>3. \A h \in VolumeMap : Key[g] # Key[h]
        BY <3>8, <4>2, FolderAssumption DEF Present
      <4> QED BY <4>1, <4>3 DEF Differences
    <3>13. ASSUME NEW f \in VolumeMap
           PROVE  SourceUnits(f) = written[f]
      <4>1. /\ f \in nodes \cap Files /\ f \in nodes \ Dirs /\ ~IsDirectory(f)
            /\ Whole(f) /\ size[f] = folder[f] /\ size[f] \in Nat /\ f \in Nat
        BY <2>2, <3>1, <3>2, <3>3, <3>5
      <4>2. size[f] # 0 => got[f] = size[f]
        <5>1. size[f] # 0 => HasBytes(f)
          BY <4>1 DEF HasBytes
        <5>2. f <= current
          <6>1. Rest = {} /\ current \in Placed
            BY <2>1 DEF VolumeInv, EmissionSound, Emitting
          <6>2. current \in Nat
            BY <2>1, <6>1, Runs
          <6> QED BY <4>1, <6>1, <6>2 DEF Rest
        <5> QED BY <2>1, <2>4, <4>1, <5>1, <5>2 DEF UneditedSound, Emitting
      <4>3. PICK length \in Nat : length = size[f]
        BY <4>1
      <4>4. written[f] = [k \in 1..length |-> UnitOf(f, k)]
        BY <4>1, <4>3 DEF Whole
      <4>5. \A k \in 1..length : UnitOf(f, k) = Data(f, k - 1)
        BY <4>1, <4>2, <4>3 DEF UnitOf
      <4>6. SourceUnits(f) = [k \in 1..length |-> Data(f, k - 1)]
        BY <4>1, <4>3 DEF SourceUnits
      <4> QED BY <4>4, <4>5, <4>6
    <3>14. ASSUME "content" \in Differences
           PROVE  \E f, g \in Present : f # g /\ Key[f] = Key[g]
      <4>1. PICK g \in SourceMap, h \in VolumeMap : Key[g] = Key[h] /\ SourceUnits(g) # written[h]
        BY <3>14 DEF Differences
      <4>2. g # h
        BY <3>13, <4>1
      <4> QED BY <3>8, <3>10, <4>1, <4>2
    <3> QED BY <3>9, <3>11, <3>12, <3>14
  <2> QED BY <2>2, <2>3, <2>4
<1> QED BY <1>1, UnpackInvariant, PTL
=============================================================================
