-------------------------- MODULE TreeCheck_proofs --------------------------
(***************************************************************************)
(* Proofs about inspecting and extracting an image (TreeCheck), for any    *)
(* source tree, any hash function and any damage of a link.                *)
(***************************************************************************)
EXTENDS TreeCheck, Lemmas, FiniteSetTheorems, FunctionTheorems, SequenceTheorems, TLAPS

-----------------------------------------------------------------------------
(* Extraction                                                              *)

(* At most one file is half-written: the one that is open.                 *)
Partial == {n \in Nodes \cup {Root} : out[n] = "partial"}

(* Nothing the extraction is going to make or open is a file that lies     *)
(* there already.                                                          *)
Free(n) == n \in Nodes \cup {Root} => out[n] # "file"

TargetsFree ==
  /\ Free(Root)
  /\ \A p \in DOMAIN dirIno \ {<<>>} : Free(TargetOf(p))
  /\ \A p \in DOMAIN fileIno : Free(TargetOf(p))

ExtractInv ==
  /\ there \in Occupants
  /\ DOMAIN out = Nodes \cup {Root} /\ out = [n \in DOMAIN out |-> out[n]]
  /\ there.kind = "file" => out[there.node] = "file"
  /\ stage \in {"dirs", "files"} => TargetsFree
  /\ stage \notin {"files", "ended"} => Partial = {}
  /\ stage = "files" =>
       /\ queue \subseteq DOMAIN fileIno
       /\ Partial \subseteq {TargetOf(p) : p \in OpenPaths}
       /\ \A n, m \in Partial : n = m
  /\ stage = "ended" => \A n, m \in Partial : n = m

LEMMA ExtractInit == Init => ExtractInv
<1> SUFFICES ASSUME Init PROVE ExtractInv
  OBVIOUS
<1>1. there \in Occupants /\ stage = "scan"
  BY DEF Init, BuildInit
<1>2. PICK o : o = there
  OBVIOUS
<1>3. o.kind \in {"none", "file", "dir"} /\ (o.kind # "none" => o.node \in Nodes \cup {Root})
  BY <1>1, <1>2, OccupantsAssumption
<1> DEFINE kind(n) == IF n = o.node THEN o.kind
                      ELSE IF o.node \in Nodes /\ n \in Parts[o.node] \cup {Root} THEN "dir"
                      ELSE "none"
<1>4. out = [n \in Nodes \cup {Root} |-> kind(n)]
  BY <1>2 DEF Init
<1>5. \A n \in Nodes \cup {Root} : kind(n) # "partial"
  BY <1>3
<1>6. o.kind = "file" => kind(o.node) = "file"
  OBVIOUS
<1> HIDE DEF kind
<1>7. DOMAIN out = Nodes \cup {Root} /\ out = [n \in DOMAIN out |-> out[n]]
  BY <1>4
<1>8. \A n \in Nodes \cup {Root} : out[n] = kind(n)
  BY <1>4
<1> QED BY <1>1, <1>2, <1>3, <1>5, <1>6, <1>7, <1>8 DEF ExtractInv, Partial

(* Until the extraction is planned nothing touches the output directory.   *)
Before == {"scan", "refused", "number", "link", "collide", "table", "image", "indexes",
           "walk", "inspected"}

LEMMA StepsBefore ==
  ASSUME Build \/ Store \/ ParseIndexes \/ WalkBad \/ WalkFile \/ WalkDir \/ WalkUp
           \/ FinishInspection
  PROVE  UNCHANGED outVars /\ stage \in Before /\ stage' \in Before
<1>1. CASE Build
  BY <1>1 DEF Build, Before, Scan, Number, Link, Collide, Table
<1>2. CASE Store
  BY <1>2 DEF Store, Before, Undamaged, DamageEntry, DamageTable, DamageResolver,
              DamageSuper, Hit
<1>3. CASE ParseIndexes
  BY <1>3 DEF ParseIndexes, Before
<1>4. CASE WalkBad
  BY <1>4 DEF WalkBad, Walking, Before
<1>5. CASE WalkFile
  BY <1>5 DEF WalkFile, Walking, Before
<1>6. CASE WalkDir
  BY <1>6 DEF WalkDir, Walking, Before
<1>7. CASE WalkUp
  BY <1>7 DEF WalkUp, Before
<1>8. CASE FinishInspection
  BY <1>8 DEF FinishInspection, Before
<1> QED BY <1>1, <1>2, <1>3, <1>4, <1>5, <1>6, <1>7, <1>8

(* What was found and what is looked for do not change any more.           *)
LEMMA PlanFrees ==
  ASSUME Plan
  PROVE  /\ stage = "inspected" /\ stage' \in {"dirs", "ended"}
         /\ UNCHANGED <<buildVars, foundVars, outVars>>
         /\ stage' = "dirs" => TargetsFree
<1>1. /\ stage = "inspected" /\ stage' \in {"dirs", "ended"}
      /\ UNCHANGED <<buildVars, foundVars, outVars>>
  BY DEF Plan
<1>2. ASSUME stage' = "dirs" PROVE TargetConflicts = {}
  <2>1. mode = "unpack" /\ errors' = {}
    BY <1>2 DEF Plan
  <2>2. errors' = errors \cup (IF mode = "unpack" /\ errors = {} THEN TargetConflicts ELSE {})
    BY DEF Plan, Complain
  <2> QED BY <2>1, <2>2
<1>3. TargetConflicts = {} => TargetsFree
  BY DEF TargetConflicts, When, TargetsFree, Free
<1> QED BY <1>1, <1>2, <1>3

LEMMA ExtractStep == ExtractInv /\ [Next]_vars => ExtractInv'
<1> SUFFICES ASSUME ExtractInv, [Next]_vars PROVE ExtractInv'
  OBVIOUS
<1>1. CASE UNCHANGED outVars /\ stage \in Before /\ stage' \in Before
  BY <1>1 DEF ExtractInv, Before, outVars, Partial
<1>2. CASE Plan
  <2>1. /\ stage = "inspected" /\ stage' \in {"dirs", "ended"}
        /\ UNCHANGED <<out, there, queue, dirIno, fileIno>>
        /\ stage' = "dirs" => TargetsFree
    BY <1>2, PlanFrees DEF outVars, foundVars
  <2>2. TargetsFree => TargetsFree'
    BY <2>1 DEF TargetsFree, Free
  <2>3. Partial' = Partial /\ Partial = {}
    BY <2>1 DEF Partial, ExtractInv
  <2> QED BY <2>1, <2>2, <2>3 DEF ExtractInv
<1>3. CASE MakeDirs
  <2>1. /\ stage = "dirs" /\ UNCHANGED <<there, dirIno, fileIno>>
        /\ stage' \in {"files", "ended", "raised"}
        /\ stage' = "files" => queue' = DOMAIN fileIno
    BY <1>3 DEF MakeDirs, foundVars
  <2>2. PICK made \in SUBSET DirNodes : out' = [n \in DOMAIN out |-> IF n \in made THEN "dir" ELSE out[n]]
    <3> DEFINE Made(m) == out' = [n \in DOMAIN out |-> IF n \in m THEN "dir" ELSE out[n]]
    <3>1. Root \in DirNodes
      BY DEF DirNodes
    <3>2. CASE Made(DirNodes)
      BY <3>2
    <3>3. ASSUME NEW m \in SUBSET DirNodes,
                 out' = [n \in DOMAIN out |-> IF n \in m \cup {Root} THEN "dir" ELSE out[n]]
          PROVE  \E w \in SUBSET DirNodes : Made(w)
      <4>1. m \cup {Root} \in SUBSET DirNodes /\ Made(m \cup {Root})
        BY <3>1, <3>3
      <4> QED BY <4>1
    <3>4. CASE out' = out
      <4>1. out = [n \in DOMAIN out |-> out[n]]
        BY DEF ExtractInv
      <4>2. {} \in SUBSET DirNodes /\ Made({})
        BY <3>4, <4>1
      <4> QED BY <4>2
    <3>5. \/ Made(DirNodes)
          \/ \E m \in SUBSET DirNodes :
               out' = [n \in DOMAIN out |-> IF n \in m \cup {Root} THEN "dir" ELSE out[n]]
          \/ out' = out
      BY <1>3 DEF MakeDirs
    <3> QED BY <3>2, <3>3, <3>4, <3>5
  <2>3. TargetsFree /\ DOMAIN out = Nodes \cup {Root} /\ Partial = {}
    BY <2>1 DEF ExtractInv
  <2>4. \A n \in DirNodes : Free(n)
    BY <2>3 DEF DirNodes, TargetsFree
  <2>5. DOMAIN out' = Nodes \cup {Root} /\ out' = [n \in DOMAIN out' |-> out'[n]]
    BY <2>2, <2>3
  <2>6. \A n : n \in DOMAIN out => (out[n] = "file" <=> out'[n] = "file")
    BY <2>2, <2>3, <2>4 DEF Free
  <2>7. there.kind = "file" => there.node \in DOMAIN out
    BY <2>3, OccupantsAssumption DEF ExtractInv
  <2>8. there'.kind = "file" => out'[there'.node] = "file"
    BY <2>1, <2>6, <2>7 DEF ExtractInv
  <2>9. Partial' = {}
    BY <2>2, <2>3 DEF Partial
  <2>10. TargetsFree'
    <3>1. \A n : Free(n) => Free(n)'
      BY <2>3, <2>6 DEF Free
    <3> QED BY <2>1, <2>3, <2>6, <3>1 DEF TargetsFree
  <2> QED BY <2>1, <2>3, <2>5, <2>8, <2>9, <2>10 DEF ExtractInv
<1>4. CASE OpenTarget
  <2>1. /\ stage = "files" /\ UNCHANGED <<there, queue, dirIno, fileIno>>
        /\ stage' \in {"files", "ended"} /\ OpenPaths = {}
        /\ stage' = "ended" => out' = out
    BY <1>4 DEF OpenTarget, foundVars
  <2>2. /\ queue \subseteq DOMAIN fileIno /\ Partial = {} /\ TargetsFree
        /\ DOMAIN out = Nodes \cup {Root} /\ out = [n \in DOMAIN out |-> out[n]]
    BY <2>1 DEF ExtractInv
  <2>3. CASE out' = out
    <3>1. TargetsFree' /\ Partial' = {}
      BY <2>1, <2>2, <2>3 DEF TargetsFree, Free, Partial
    <3> QED BY <2>1, <2>2, <2>3, <3>1 DEF ExtractInv
  <2>4. CASE out' # out
    <3>1. PICK p \in queue : out' = [out EXCEPT ![TargetOf(p)] = "partial"]
      BY <1>4, <2>4 DEF OpenTarget
    <3>2. PICK t : t = TargetOf(p)
      OBVIOUS
    <3>3. t \in DOMAIN out /\ out[t] # "file"
      BY <2>2, <2>4, <3>1, <3>2 DEF TargetsFree, Free
    <3>4. /\ DOMAIN out' = DOMAIN out /\ out' = [n \in DOMAIN out' |-> out'[n]]
          /\ \A n \in DOMAIN out : out'[n] = IF n = t THEN "partial" ELSE out[n]
      BY <2>2, <3>1, <3>2
    <3>5. Partial' \subseteq {t}
      BY <2>2, <3>4 DEF Partial
    <3>6. p \in OpenPaths'
      BY <2>1, <3>2, <3>3, <3>4 DEF OpenPaths
    <3>7. there.kind = "file" => there.node \in DOMAIN out /\ there.node # t
      BY <2>2, <3>3, OccupantsAssumption DEF ExtractInv
    <3>8. TargetsFree'
      <4>1. \A n : Free(n) => Free(n)'
        BY <2>2, <3>4 DEF Free
      <4> QED BY <2>1, <2>2, <4>1 DEF TargetsFree
    <3> QED BY <2>1, <2>2, <3>2, <3>4, <3>5, <3>6, <3>7, <3>8 DEF ExtractInv
  <2> QED BY <2>3, <2>4
<1>5. CASE WriteTarget
  <2>1. /\ stage = "files" /\ UNCHANGED <<there, dirIno, fileIno>>
        /\ queue' \subseteq queue /\ stage' \in {"files", "ended"}
    BY <1>5 DEF WriteTarget, foundVars
  <2>2. /\ queue \subseteq DOMAIN fileIno /\ TargetsFree
        /\ Partial \subseteq {TargetOf(p) : p \in OpenPaths} /\ \A n, m \in Partial : n = m
        /\ DOMAIN out = Nodes \cup {Root} /\ out = [n \in DOMAIN out |-> out[n]]
    BY <2>1 DEF ExtractInv
  <2>3. PICK p \in OpenPaths :
          \/ /\ out' = [out EXCEPT ![TargetOf(p)] = "whole"] /\ stage' = "files"
             /\ queue' = queue \ {p}
          \/ UNCHANGED <<out, queue>> /\ stage' = "ended"
    BY <1>5 DEF WriteTarget
  <2>4. CASE UNCHANGED <<out, queue>> /\ stage' = "ended"
    BY <2>1, <2>2, <2>4 DEF ExtractInv, Partial
  <2>5. CASE /\ out' = [out EXCEPT ![TargetOf(p)] = "whole"] /\ stage' = "files"
             /\ queue' = queue \ {p}
    <3>1. PICK t : t = TargetOf(p)
      OBVIOUS
    <3>2. out[t] = "partial"
      BY <3>1 DEF OpenPaths
    <3>3. /\ DOMAIN out' = DOMAIN out /\ out' = [n \in DOMAIN out' |-> out'[n]]
          /\ \A n \in DOMAIN out : out'[n] = IF n = t THEN "whole" ELSE out[n]
      BY <2>2, <2>5, <3>1
    <3>4. /\ Partial' \subseteq {TargetOf(q) : q \in OpenPaths'}
          /\ \A n, m \in Partial' : n = m
      <4>1. CASE t \in DOMAIN out
        <5>1. t \in Partial
          BY <2>2, <3>2, <4>1 DEF Partial
        <5>2. Partial' = {}
          BY <2>2, <3>3, <5>1 DEF Partial
        <5> QED BY <5>2
      <4>2. CASE t \notin DOMAIN out
        <5>1. out' = out
          BY <2>2, <3>3, <4>2
        <5>2. Partial' = Partial
          BY <5>1 DEF Partial
        <5>3. ASSUME NEW q \in OpenPaths, TargetOf(q) \in DOMAIN out
              PROVE  q \in OpenPaths'
          BY <2>5, <3>1, <4>2, <5>1, <5>3 DEF OpenPaths
        <5> QED BY <2>2, <5>2, <5>3 DEF Partial
      <4> QED BY <4>1, <4>2
    <3>5. there.kind = "file" => there.node \in DOMAIN out /\ there.node # t
      BY <2>2, <3>2, OccupantsAssumption DEF ExtractInv
    <3>6. TargetsFree'
      <4>1. \A n : Free(n) => Free(n)'
        BY <2>2, <3>3 DEF Free
      <4> QED BY <2>1, <2>2, <4>1 DEF TargetsFree
    <3> QED BY <2>1, <2>2, <2>5, <3>3, <3>4, <3>5, <3>6 DEF ExtractInv
  <2> QED BY <2>3, <2>4, <2>5
<1>6. CASE FinishExtraction
  <2>1. stage = "files" /\ stage' = "ended" /\ UNCHANGED <<out, there>>
    BY <1>6 DEF FinishExtraction, outVars
  <2> QED BY <2>1 DEF ExtractInv, Partial
<1>7. CASE UNCHANGED vars
  BY <1>7 DEF ExtractInv, vars, outVars, inspectVars, foundVars, Partial, OpenPaths,
              TargetsFree, Free
<1> QED BY <1>1, <1>2, <1>3, <1>4, <1>5, <1>6, <1>7, StepsBefore DEF Next

(* An extraction never touches a file that lay in the output directory,    *)
(* and leaves one file half-written at most, in whatever image.            *)
THEOREM ForeignIsKept == Spec => []ForeignKept
<1>1. ExtractInv => ForeignKept
  <2> DEFINE S == {n \in Nodes : out[n] = "partial"}
  <2> SUFFICES ASSUME ExtractInv PROVE Cardinality(S) <= 1
    BY DEF ExtractInv, ForeignKept
  <2>1. \A n, m \in S : n = m
    BY DEF ExtractInv, Partial
  <2> HIDE DEF S
  <2>2. CASE S = {}
    BY <2>2, FS_EmptySet
  <2>3. CASE S # {}
    <3>1. PICK n : S = {n}
      BY <2>1, <2>3
    <3>2. Cardinality(S) = 1
      BY <3>1, FS_Singleton
    <3> QED BY <3>2
  <2> QED BY <2>2, <2>3
<1> QED BY <1>1, ExtractInit, ExtractStep, PTL DEF Spec

-----------------------------------------------------------------------------
(* The flat path table                                                     *)

(* The walk finds finitely many files and directories.                     *)
FoundFinite == IsFiniteSet(DOMAIN fileIno) /\ IsFiniteSet(DOMAIN dirIno)

LEMMA OneMore ==
  ASSUME NEW f, IsFiniteSet(DOMAIN f), NEW x, NEW y
  PROVE  IsFiniteSet(DOMAIN Put(f, x, y))
<1>1. DOMAIN Put(f, x, y) = DOMAIN f \cup {x}
  BY DEF Put
<1> QED BY <1>1, FS_AddElement

LEMMA FoundFiniteStep == FoundFinite /\ [Next]_vars => FoundFinite'
<1> SUFFICES ASSUME FoundFinite, [Next]_vars PROVE FoundFinite'
  OBVIOUS
<1>1. CASE UNCHANGED <<fileIno, dirIno>>
  BY <1>1 DEF FoundFinite
<1>2. CASE ParseIndexes
  <2>1. fileIno' = fileIno
    BY <1>2 DEF ParseIndexes
  <2>2. CASE dirIno' = dirIno
    BY <2>1, <2>2 DEF FoundFinite
  <2>3. CASE dirIno' = Put(<<>>, <<>>, Special(Root))
    <3>1. DOMAIN dirIno' = {<<>>}
      BY <2>3 DEF Put
    <3>2. IsFiniteSet(DOMAIN dirIno')
      <4>1. IsFiniteSet({<<>>})
        BY FS_Singleton, Zenon
      <4> QED BY <3>1, <4>1
    <3>3. IsFiniteSet(DOMAIN fileIno')
      BY <2>1 DEF FoundFinite
    <3> QED BY <3>2, <3>3 DEF FoundFinite
  <2>4. dirIno' = dirIno \/ dirIno' = Put(<<>>, <<>>, Special(Root))
    BY <1>2 DEF ParseIndexes
  <2> QED BY <2>2, <2>3, <2>4
<1>3. CASE WalkFile
  BY <1>3, OneMore DEF WalkFile, FoundFinite
<1>4. CASE WalkDir
  BY <1>4, OneMore DEF WalkDir, FoundFinite
<1>5. UNCHANGED <<fileIno, dirIno>> \/ ParseIndexes \/ WalkFile \/ WalkDir
  BY DEF Next, Build, Store, WalkBad, WalkUp, FinishInspection, Plan, MakeDirs, OpenTarget,
         WriteTarget, FinishExtraction, vars, inspectVars, foundVars
<1> QED BY <1>1, <1>2, <1>3, <1>4, <1>5

LEMMA ExpectedFinite ==
  ASSUME FoundFinite, NEW S, S \subseteq Expected
  PROVE  IsFiniteSet(S)
<1> DEFINE d == [p \in DOMAIN dirIno \ {<<>>} |-> [path |-> p, dir |-> TRUE, ino |-> dirIno[p]]]
           f == [p \in DOMAIN fileIno |-> [path |-> p, dir |-> FALSE, ino |-> fileIno[p]]]
           D == {d[p] : p \in DOMAIN d}
           F == {f[p] : p \in DOMAIN f}
<1>1. Expected = D \cup F
  BY DEF Expected
<1>2. IsFiniteSet(DOMAIN d) /\ IsFiniteSet(DOMAIN f)
  <2>1. DOMAIN d = DOMAIN dirIno \ {<<>>} /\ DOMAIN f = DOMAIN fileIno
    OBVIOUS
  <2> HIDE DEF d, f
  <2>2. IsFiniteSet(DOMAIN dirIno) /\ IsFiniteSet(DOMAIN fileIno)
    BY DEF FoundFinite
  <2> QED BY <2>1, <2>2, FS_Subset
<1>3. IsFiniteSet(D)
  <2> HIDE DEF d
  <2> QED BY <1>2, FiniteRange
<1>4. IsFiniteSet(F)
  <2> HIDE DEF f
  <2> QED BY <1>2, FiniteRange
<1> HIDE DEF D, F
<1> QED BY <1>1, <1>3, <1>4, FS_Union, FS_Subset

(* A table with which validate_fpt_maps finds nothing leads to every path. *)
LEMMA NoErrorsMeansFound ==
  ASSUME FoundFinite, MapErrors = {}, NEW e \in Expected
  PROVE  Found(e)
<1> DEFINE h == HashOf(e.path)
           H == {HashOf(x.path) : x \in Expected}
<1>1. MapErrors = MapErrorsByHash \cup UNION {RowErrors(g) : g \in H \cap DOMAIN FptMap}
  BY DEF MapErrors
<1>2. MapErrorsByHash = When(H \ DOMAIN FptMap # {}, "missing hash")
                          \cup When(DOMAIN FptMap \ H # {}, "unexpected hash")
  BY DEF MapErrorsByHash
<1>3. h \in H
  OBVIOUS
<1>4. e \in ExpectedAt(h)
  BY DEF ExpectedAt
<1>5. IsFiniteSet(ExpectedAt(h))
  BY ExpectedFinite DEF ExpectedAt
<1> HIDE DEF H
<1>6. h \in DOMAIN FptMap
  BY <1>1, <1>2, <1>3 DEF When
<1>7. RowErrors(h) = {}
  <2> HIDE DEF h
  <2> QED BY <1>1, <1>3, <1>6
<1>8. CASE Cardinality(ExpectedAt(h)) = 1
  <2>1. ExpectedAt(h) = {e}
    <3> HIDE DEF h
    <3> QED BY <1>4, <1>5, <1>8, FS_Singleton
  <2>2. ~(\A x \in ExpectedAt(h) : FptMap[h].group \/ FptMap[h].dir # x.dir \/ FptMap[h].at # x.ino)
    <3> HIDE DEF h
    <3> QED BY <1>7, <1>8 DEF When, RowErrors
  <2>3. ~FptMap[h].group /\ FptMap[h].dir = e.dir /\ FptMap[h].at = e.ino
    BY <2>1, <2>2
  <2> QED BY <1>6, <2>3 DEF Found
<1>9. CASE Cardinality(ExpectedAt(h)) # 1
  <2>1. FptMap[h].group /\ {AsEntry(x) : x \in ExpectedAt(h)} \subseteq GroupAt(h)
    <3> HIDE DEF h
    <3> QED BY <1>7, <1>9 DEF When, RowErrors
  <2> QED BY <1>4, <1>6, <2>1 DEF Found
<1> QED BY <1>8, <1>9

(* What the table and the walk say stays as it is from the inspection on.  *)
LEMMA MapErrorsStay ==
  ASSUME UNCHANGED <<buildVars, fileIno, dirIno>>
  PROVE  MapErrors' = MapErrors
<1> USE DEF buildVars
<1>1. \A name : Special(name)' = Special(name)
  BY DEF Special
<1>2. TableSeq' = TableSeq
  BY <1>1 DEF TableSeq
<1>3. FptMap' = FptMap
  BY <1>2 DEF FptMap
<1>4. BlobLen' = BlobLen
  BY <1>1 DEF BlobLen, ResolverRead, InRange, Object
<1>5. \A k : RunFrom(k)' = RunFrom(k)
  BY DEF RunFrom
<1>6. \A h : GroupAt(h)' = GroupAt(h)
  BY <1>3, <1>4, <1>5 DEF GroupAt
<1>7. \A p : HashOf(p)' = HashOf(p)
  BY DEF HashOf
<1>8. Expected' = Expected
  BY DEF Expected
<1>9. \A h : ExpectedAt(h)' = ExpectedAt(h)
  BY <1>7, <1>8 DEF ExpectedAt
<1>10. MapErrorsByHash' = MapErrorsByHash
  BY <1>3, <1>7, <1>8 DEF MapErrorsByHash
<1>11. \A h : RowErrors(h)' = RowErrors(h)
  BY <1>3, <1>6, <1>9 DEF RowErrors
<1> QED BY <1>3, <1>7, <1>8, <1>10, <1>11 DEF MapErrors

(* An inspection without findings has compared the table with the tree.    *)
TableCompared == Inspected /\ errors = {} => MapErrors = {}

LEMMA TableComparedStep == TableCompared /\ [Next]_vars => TableCompared'
<1> SUFFICES ASSUME TableCompared, [Next]_vars, Inspected', errors' = {}
             PROVE  MapErrors' = {}
  BY DEF TableCompared
<1>1. CASE Inspected /\ errors \subseteq errors' /\ UNCHANGED <<buildVars, fileIno, dirIno>>
  BY <1>1, MapErrorsStay DEF TableCompared
<1>2. CASE FinishInspection
  <2>1. MapErrors \subseteq errors' /\ UNCHANGED <<buildVars, fileIno, dirIno>>
    BY <1>2 DEF FinishInspection, Complain
  <2> QED BY <2>1, MapErrorsStay
<1>3. CASE ParseIndexes
  <2>1. Special(Root) = None /\ IndexErrors \subseteq errors'
    BY <1>3 DEF ParseIndexes, Complain, Inspected
  <2>2. "no root" \in IndexErrors
    BY <2>1 DEF IndexErrors, When
  <2> QED BY <2>1, <2>2
<1>4. CASE Plan \/ MakeDirs \/ OpenTarget \/ WriteTarget \/ FinishExtraction \/ UNCHANGED vars
  <2>1. UNCHANGED <<buildVars, fileIno, dirIno>>
    BY <1>4 DEF Plan, MakeDirs, OpenTarget, WriteTarget, FinishExtraction, vars, inspectVars,
                foundVars
  <2>2. errors \subseteq errors'
    BY <1>4 DEF Plan, MakeDirs, OpenTarget, WriteTarget, FinishExtraction, vars, inspectVars,
                Complain
  <2>3. Inspected
    BY <1>4 DEF Plan, MakeDirs, OpenTarget, WriteTarget, FinishExtraction, vars, Inspected
  <2> QED BY <1>1, <2>1, <2>2, <2>3
<1>5. CASE Build \/ Store \/ WalkBad \/ WalkFile \/ WalkDir \/ WalkUp
  <2>1. stage' \notin {"inspected", "dirs", "files", "ended", "raised"}
    BY <1>5 DEF Build, Scan, Number, Link, Collide, Table, Store, Undamaged, DamageEntry,
                DamageTable, DamageResolver, DamageSuper, Hit, WalkBad, WalkFile, WalkDir,
                WalkUp, Walking
  <2> QED BY <2>1 DEF Inspected
<1> QED BY <1>2, <1>3, <1>4, <1>5 DEF Next

(* An inspection that finds nothing means that the path table leads to     *)
(* every file and directory of the walk, whatever the hashes are and       *)
(* whichever link was damaged: validate_fpt_maps looks at enough of it.    *)
THEOREM TableLeadsEverywhere == Spec => []TableFindsEveryPath
<1>1. Init => FoundFinite /\ TableCompared
  <2> SUFFICES ASSUME Init PROVE FoundFinite /\ TableCompared
    OBVIOUS
  <2>1. DOMAIN fileIno = {} /\ DOMAIN dirIno = {} /\ ~Inspected
    BY DEF Init, BuildInit, Inspected
  <2> QED BY <2>1, FS_EmptySet DEF FoundFinite, TableCompared
<1>2. FoundFinite /\ TableCompared => TableFindsEveryPath
  BY NoErrorsMeansFound DEF TableCompared, TableFindsEveryPath
<1> QED BY <1>1, <1>2, FoundFiniteStep, TableComparedStep, PTL DEF Spec

-----------------------------------------------------------------------------
(* The source tree                                                         *)

Places == Nodes \cup {Root}

LEMMA PlacesFacts ==
  /\ Places \subseteq Nat /\ IsFiniteSet(Places) /\ Root \in Places
  /\ \A n \in Nodes : Parent[n] \in Places /\ Parent[n] < n /\ Parent[n] \in Nat
  /\ \A n \in Nodes : n \in Nat /\ n # Root
<1>1. Places \subseteq Nat /\ Root \in Places
  BY TreeAssumption DEF Places, Root
<1>2. IsFiniteSet(Places)
  BY TreeAssumption, FS_AddElement DEF Places
<1>3. \A n \in Nodes : Parent[n] \in Places /\ Parent[n] < n
  BY TreeAssumption DEF Places, Nodes
<1> QED BY <1>1, <1>2, <1>3, TreeAssumption DEF Root, Places

(* A function that is given at the root, and elsewhere by its value at the *)
(* parent, exists.                                                         *)
Descends(f, V, a, step) ==
  /\ f \in [Places -> V]
  /\ \A n \in Places : f[n] = IF n = Root THEN a ELSE step[<<n, f[Parent[n]]>>]

LEMMA DownTheTree ==
  ASSUME NEW V, NEW a, NEW step, a \in V, step \in [Places \X V -> V]
  PROVE  \E f : Descends(f, V, a, step)
<1> DEFINE D == Places
           up == Parent
<1>0. /\ D \subseteq Nat /\ IsFiniteSet(D) /\ 0 \in D
      /\ \A n \in D \ {0} : up[n] \in D /\ up[n] < n
      /\ step \in [D \X V -> V]
  BY PlacesFacts DEF Places, Root
<1> HIDE DEF D, up
<1> DEFINE Down(g, m) == \A n \in D : n <= m => g[n] = IF n = 0 THEN a ELSE step[<<n, g[up[n]]>>]
           S == {m \in Nat : ~\E g \in [D -> V] : Down(g, m)}
<1>1. S = {}
  <2> SUFFICES ASSUME S # {} PROVE FALSE
    OBVIOUS
  <2>1. PICK m \in S : \A x \in S : m <= x
    <3>1. S \subseteq Nat
      OBVIOUS
    <3> HIDE DEF S
    <3> QED BY <3>1, LeastElement
  <2>2. m # 0
    <3>1. [n \in D |-> a] \in [D -> V] /\ Down([n \in D |-> a], 0)
      BY <1>0
    <3> HIDE DEF Down
    <3> QED BY <2>1, <3>1
  <2>3. PICK g \in [D -> V] : Down(g, m - 1)
    <3> HIDE DEF Down
    <3>1. m - 1 \in Nat /\ m - 1 \notin S
      BY <2>1, <2>2
    <3> QED BY <3>1
  <2>4. m \in D
    <3>1. m \notin D => Down(g, m)
      BY <1>0, <2>1, <2>3
    <3> HIDE DEF Down
    <3> QED BY <2>1, <2>3, <3>1
  <2>5. m \in D \ {0} /\ m \in Nat /\ up[m] \in D
    BY <1>0, <2>1, <2>2, <2>4
  <2> DEFINE h == [g EXCEPT ![m] = step[<<m, g[up[m]]>>]]
  <2>6. h \in [D -> V] /\ h[m] = step[<<m, g[up[m]]>>] /\ \A n \in D : n # m => h[n] = g[n]
    BY <1>0, <2>3, <2>5
  <2> HIDE DEF h
  <2>7. ASSUME NEW n \in D, n <= m
        PROVE  h[n] = IF n = 0 THEN a ELSE step[<<n, h[up[n]]>>]
    <3>1. CASE n = m
      <4>1. up[m] # m /\ up[m] \in D
        BY <1>0, <2>5
      <4> QED BY <2>2, <2>6, <3>1, <4>1
    <3>2. CASE n # m
      <4>1. n <= m - 1
        BY <1>0, <2>5, <2>7, <3>2
      <4>2. g[n] = IF n = 0 THEN a ELSE step[<<n, g[up[n]]>>]
        BY <2>3, <4>1
      <4>3. n # 0 => up[n] \in D /\ up[n] # m
        BY <1>0, <2>5, <2>7
      <4> QED BY <2>6, <3>2, <4>2, <4>3
    <3> QED BY <3>1, <3>2
  <2>8. Down(h, m)
    BY <2>7
  <2> HIDE DEF Down
  <2> QED BY <2>1, <2>6, <2>8
<1>2. PICK m \in Nat : \A x \in D : x <= m
  BY <1>0, Bounded
<1>3. PICK g \in [D -> V] : Down(g, m)
  <2> HIDE DEF Down
  <2> QED BY <1>1, <1>2
<1>4. \A n \in D : g[n] = IF n = 0 THEN a ELSE step[<<n, g[up[n]]>>]
  BY <1>2, <1>3
<1> QED BY <1>3, <1>4 DEF D, up, Root, Descends

(* The parts of a path are the node's and those of its directory.          *)
LEMMA PartsAre ==
  /\ Parts[Root] = {}
  /\ \A n \in Nodes : Parts[n] = {n} \cup Parts[Parent[n]]
  /\ \A n \in Places : Parts[n] \subseteq Nodes
<1> DEFINE V == SUBSET Nodes
           step == [x \in Places \X V |-> ({x[1]} \cup x[2]) \cap Nodes]
           Is(f) == f = [n \in Places |-> IF n = Root THEN {} ELSE {n} \cup f[Parent[n]]]
<1>1. PICK f : Descends(f, V, {}, step)
  <2>1. step \in [Places \X V -> V]
    OBVIOUS
  <2>2. {} \in V
    BY EmptySeq
  <2> HIDE DEF step, V
  <2> QED BY <2>1, <2>2, DownTheTree
<1>2. \A n \in Places : f[n] = IF n = Root THEN {} ELSE {n} \cup f[Parent[n]]
  <2>1. ASSUME NEW n \in Places, n # Root
        PROVE  step[<<n, f[Parent[n]]>>] = {n} \cup f[Parent[n]]
    <3>1. n \in Nodes /\ Parent[n] \in Places
      BY <2>1, PlacesFacts DEF Places
    <3>2. f[Parent[n]] \in V
      <4> HIDE DEF V, step
      <4> QED BY <1>1, <3>1 DEF Descends
    <3> QED BY <3>1, <3>2 DEF Places
  <2> HIDE DEF step, V
  <2> QED BY <1>1, <2>1 DEF Descends
<1>3. Is(f)
  <2>1. f \in [Places -> V]
    <3> HIDE DEF V, step
    <3> QED BY <1>1 DEF Descends
  <2> HIDE DEF V
  <2> QED BY <1>2, <2>1
<1>4. Parts = CHOOSE g : Is(g)
  BY Zenon DEF Parts, Places
<1>5. Is(Parts)
  <2> HIDE DEF Is
  <2> QED BY <1>3, <1>4
<1>6. \A n \in Places : Parts[n] = IF n = Root THEN {} ELSE {n} \cup Parts[Parent[n]]
  BY <1>5
<1>7. \A n \in Places : Parts[n] \subseteq Nodes
  <2> DEFINE S == {n \in Places : ~(Parts[n] \subseteq Nodes)}
  <2> SUFFICES ASSUME S # {} PROVE FALSE
    OBVIOUS
  <2>1. PICK n \in S : \A x \in S : n <= x
    <3>1. S \subseteq Nat
      BY PlacesFacts
    <3> HIDE DEF S
    <3> QED BY <3>1, LeastElement
  <2>2. n \in Nodes
    BY <1>6, <2>1 DEF Places
  <2>3. Parent[n] \in Places /\ Parent[n] \notin S
    BY <2>1, <2>2, PlacesFacts
  <2> QED BY <1>6, <2>1, <2>2, <2>3
<1> QED BY <1>6, <1>7, PlacesFacts DEF Places

LEMMA PathsAre ==
  /\ PathOf[Root] = <<>>
  /\ \A n \in Nodes : PathOf[n] = Append(PathOf[Parent[n]], n)
  /\ \A n \in Places : PathOf[n] \in Seq(Nodes)
<1> DEFINE V == Seq(Nodes)
           step == [x \in Places \X V |-> IF x[1] \in Nodes THEN Append(x[2], x[1]) ELSE <<>>]
           Is(f) == f = [n \in Places |-> IF n = Root THEN <<>> ELSE Append(f[Parent[n]], n)]
<1>1. PICK f : Descends(f, V, <<>>, step)
  <2>1. step \in [Places \X V -> V]
    <3>1. \A x \in Places \X V :
            (IF x[1] \in Nodes THEN Append(x[2], x[1]) ELSE <<>>) \in V
      BY AppendProperties, EmptySeq
    <3> HIDE DEF V
    <3> QED BY <3>1
  <2>2. <<>> \in V
    BY EmptySeq
  <2> HIDE DEF step, V
  <2> QED BY <2>1, <2>2, DownTheTree
<1>2. \A n \in Places : f[n] = IF n = Root THEN <<>> ELSE Append(f[Parent[n]], n)
  <2>1. ASSUME NEW n \in Places, n # Root
        PROVE  step[<<n, f[Parent[n]]>>] = Append(f[Parent[n]], n)
    <3>1. n \in Nodes /\ Parent[n] \in Places
      BY <2>1, PlacesFacts DEF Places
    <3>2. f[Parent[n]] \in V
      <4> HIDE DEF V, step
      <4> QED BY <1>1, <3>1 DEF Descends
    <3> HIDE DEF V
    <3> QED BY <3>1, <3>2 DEF Places
  <2> HIDE DEF step, V
  <2> QED BY <1>1, <2>1 DEF Descends
<1>3. Is(f)
  <2>1. f \in [Places -> V]
    <3> HIDE DEF V, step
    <3> QED BY <1>1 DEF Descends
  <2> HIDE DEF V
  <2> QED BY <1>2, <2>1
<1>4. PathOf = CHOOSE g : Is(g)
  BY Zenon DEF PathOf, Places
<1>5. Is(PathOf)
  <2> HIDE DEF Is
  <2> QED BY <1>3, <1>4
<1>6. \A n \in Places : PathOf[n] = IF n = Root THEN <<>> ELSE Append(PathOf[Parent[n]], n)
  BY <1>5
<1>7. \A n \in Places : PathOf[n] \in V
  <2> DEFINE S == {n \in Places : PathOf[n] \notin V}
  <2> SUFFICES ASSUME S # {} PROVE FALSE
    OBVIOUS
  <2>1. PICK n \in S : \A x \in S : n <= x
    <3>1. S \subseteq Nat
      BY PlacesFacts
    <3> HIDE DEF S
    <3> QED BY <3>1, LeastElement
  <2>2. n \in Nodes
    BY <1>6, <2>1, EmptySeq DEF Places
  <2>3. Parent[n] \in Places /\ Parent[n] \notin S
    BY <2>1, <2>2, PlacesFacts
  <2>4. PathOf[Parent[n]] \in Seq(Nodes) /\ PathOf[n] = Append(PathOf[Parent[n]], n)
    BY <1>6, <2>1, <2>2, <2>3, PlacesFacts DEF Places
  <2>5. PathOf[n] \in Seq(Nodes)
    BY <2>2, <2>4, AppendProperties
  <2> QED BY <2>1, <2>5
<1> QED BY <1>6, <1>7, PlacesFacts DEF Places

(* The last part of a path is the node, so that paths tell nodes apart.    *)
LEMMA LastOfPath ==
  /\ \A n \in Nodes : Last(PathOf[n]) = n /\ PathOf[n] # <<>>
  /\ \A n, m \in Places : PathOf[n] = PathOf[m] => n = m
<1>1. ASSUME NEW n \in Nodes
      PROVE  Last(PathOf[n]) = n /\ PathOf[n] # <<>>
  <2>1. PICK p : p = PathOf[Parent[n]] /\ p \in Seq(Nodes) /\ PathOf[n] = Append(p, n)
    BY PathsAre, PlacesFacts
  <2>2. Len(Append(p, n)) = Len(p) + 1 /\ Append(p, n)[Len(p) + 1] = n /\ Len(p) \in Nat
    BY <2>1, AppendProperties
  <2>3. PathOf[n] # <<>>
    <3>1. PICK q : q = Append(p, n) /\ Len(q) = Len(p) + 1
      BY <2>2
    <3>2. q # <<>>
      BY <2>2, <3>1
    <3> QED BY <2>1, <3>1, <3>2
  <2>4. Last(PathOf[n]) = PathOf[n][Len(PathOf[n])]
    BY DEF Last
  <2> QED BY <2>1, <2>2, <2>3, <2>4
<1> QED BY <1>1, PathsAre DEF Places

(* A directory consists of directories, and of all above each of them.     *)
LEMMA Ancestry ==
  /\ \A d \in Dirs \cup {Root} : Parts[d] \subseteq Dirs
  /\ \A n \in Places : \A m \in Parts[n] :
       m <= n /\ Parent[m] \in Parts[n] \cup {Root}
<1> DEFINE Fine(n) == /\ n \in Dirs \cup {Root} => Parts[n] \subseteq Dirs
                      /\ \A m \in Parts[n] : m <= n /\ Parent[m] \in Parts[n] \cup {Root}
           S == {n \in Places : ~Fine(n)}
<1>1. S = {}
  <2> SUFFICES ASSUME S # {} PROVE FALSE
    OBVIOUS
  <2>1. PICK n \in S : \A x \in S : n <= x
    <3>1. S \subseteq Nat
      BY PlacesFacts
    <3> HIDE DEF S
    <3> QED BY <3>1, LeastElement
  <2>2. n # Root
    <3>1. Fine(Root)
      BY PartsAre
    <3> HIDE DEF Fine
    <3> QED BY <2>1, <3>1
  <2>3. PICK p : p = Parent[n] /\ p \in Places /\ p < n /\ p \in Nat /\ n \in Nodes /\ n \in Nat
    BY <2>1, <2>2, PlacesFacts DEF Places
  <2>4. Fine(p)
    <3> HIDE DEF Fine
    <3> QED BY <2>1, <2>3, PlacesFacts
  <2>5. p \in Dirs \cup {Root} /\ Parts[n] = {n} \cup Parts[p] /\ Parts[p] \subseteq Nodes
    BY <2>3, PartsAre, TreeAssumption
  <2>6. \A m \in Parts[p] : m \in Nat /\ m <= n
    <3> TAKE m \in Parts[p]
    <3>1. m <= p
      BY <2>4
    <3>2. m \in Nat
      BY <2>5, PlacesFacts
    <3> HIDE DEF Fine
    <3> QED BY <2>3, <3>1, <3>2
  <2>7. p = Root \/ p \in Parts[p]
    BY <2>3, PartsAre DEF Places
  <2>8. n \in Dirs \cup {Root} => n \in Dirs
    BY <2>2
  <2>9. Fine(n)
    BY <2>3, <2>4, <2>5, <2>6, <2>7, <2>8
  <2> HIDE DEF Fine
  <2> QED BY <2>1, <2>9
<1>2. \A n \in Places : Fine(n)
  <2> HIDE DEF Fine
  <2> QED BY <1>1
<1> QED BY <1>2 DEF Places, Nodes

(* What the scan found is of the source, and hashed.                       *)
ScanSound ==
  /\ source \subseteq Files
  /\ packed \subseteq Visible({})
  /\ DOMAIN hash = UNION {Parts[f] : f \in Visible({})}
  /\ \A n \in DOMAIN hash : hash[n] \in Hashes

LEMMA NodesPacked ==
  ASSUME ScanSound
  PROVE  /\ packed \subseteq Files /\ PackedDirs \subseteq Dirs
         /\ PathNodes \subseteq Nodes /\ PathNodes \subseteq DOMAIN hash
         /\ IsFiniteSet(packed) /\ IsFiniteSet(PackedDirs)
         /\ \A n \in PathNodes : Parent[n] \in PackedDirs \cup {Root}
         /\ \A f \in packed : Parts[f] \subseteq PathNodes
<1>1. packed \subseteq Files /\ packed \subseteq Nodes
  BY DEF ScanSound, Visible, Nodes
<1>2. ASSUME NEW f \in packed
      PROVE  /\ Parts[f] \ {f} \subseteq Dirs /\ f \in Parts[f] /\ Parts[f] \subseteq Nodes
             /\ \A m \in Parts[f] : Parent[m] \in (Parts[f] \ {f}) \cup {Root}
  <2>1. f \in Nodes /\ f \in Places /\ Parent[f] \in Dirs \cup {Root}
    BY <1>1, TreeAssumption DEF Places
  <2>2. Parts[f] = {f} \cup Parts[Parent[f]] /\ Parts[Parent[f]] \subseteq Dirs
        /\ Parts[f] \subseteq Nodes
    BY <2>1, PartsAre, Ancestry
  <2>3. ASSUME NEW m \in Parts[f]
        PROVE  Parent[m] \in (Parts[f] \ {f}) \cup {Root}
    <3>1. Parent[m] \in Parts[f] \cup {Root} /\ m <= f /\ m \in Nodes
      BY <2>1, <2>2, Ancestry
    <3>2. Parent[m] # f
      BY <2>1, <3>1, PlacesFacts
    <3> QED BY <3>1, <3>2
  <2> QED BY <2>2, <2>3
<1>3. PackedDirs \subseteq Dirs
  BY <1>2 DEF PackedDirs
<1>4. PathNodes \subseteq Nodes
  BY <1>1, <1>3 DEF PathNodes, Nodes
<1>5. IsFiniteSet(packed) /\ IsFiniteSet(PackedDirs)
  <2>1. packed \subseteq Nodes /\ PackedDirs \subseteq Nodes
    BY <1>4 DEF PathNodes
  <2> QED BY <2>1, TreeAssumption, FS_Subset
<1>6. \A f \in packed : Parts[f] \subseteq PathNodes
  BY DEF PathNodes, PackedDirs
<1>7. \A n \in PathNodes : \E f \in packed : n \in Parts[f]
  BY <1>2 DEF PathNodes, PackedDirs
<1>8. PathNodes \subseteq DOMAIN hash
  BY <1>7 DEF ScanSound
<1>9. \A n \in PathNodes : Parent[n] \in PackedDirs \cup {Root}
  BY <1>2, <1>7 DEF PackedDirs
<1> QED BY <1>1, <1>3, <1>4, <1>5, <1>6, <1>8, <1>9

(* The inodes and their numbers, with the resolver's or without.           *)
IndexSound(has) ==
  /\ Len(order) \in Nat /\ Len(order) >= 3
  /\ order[1] = Super /\ order[2] = Fpt /\ (~has => order[3] = Root)
  /\ \A k \in 1..Len(order) : order[k] \in DOMAIN number
  /\ \A o \in DOMAIN number : number[o] \in 0..(Len(order) - 1) /\ order[number[o] + 1] = o
  /\ DOMAIN number = {Super, Fpt, Root} \cup PathNodes \cup (IF has THEN {Resolver} ELSE {})
  /\ \A j, k \in 1..Len(order) : order[j] = order[k] => j = k

LEMMA NumberedAre ==
  ASSUME NEW s, NEW n \in Nat, DOMAIN s = 1..n, Len(s) = n
  PROVE  /\ DOMAIN Numbered(s) = Range(s)
         /\ \A k \in 1..n : s[k] \in Range(s)
         /\ \A o \in Range(s) : \E k \in 1..n : s[k] = o
         /\ \A o \in Range(s) : Numbered(s)[o] \in 0..(n - 1) /\ s[Numbered(s)[o] + 1] = o
<1> DEFINE at(o) == CHOOSE k \in 1..n : s[k] = o
<1>1. /\ \A k \in 1..n : s[k] \in Range(s)
      /\ \A o \in Range(s) : \E k \in 1..n : s[k] = o
  BY DEF Range
<1>2. \A o \in Range(s) : at(o) \in 1..n /\ s[at(o)] = o
  BY <1>1
<1>3. Numbered(s) = [o \in Range(s) |-> at(o) - 1]
  BY DEF Numbered
<1> HIDE DEF at
<1>4. ASSUME NEW o \in Range(s)
      PROVE  Numbered(s)[o] \in 0..(n - 1) /\ s[Numbered(s)[o] + 1] = o
  <2>1. PICK k \in 1..n : k = at(o) /\ s[k] = o
    BY <1>2
  <2>2. Numbered(s)[o] = k - 1
    BY <1>3, <2>1
  <2>3. (k - 1) + 1 = k /\ k - 1 \in 0..(n - 1)
    OBVIOUS
  <2> QED BY <2>1, <2>2, <2>3
<1> QED BY <1>1, <1>3, <1>4

LEMMA Numbering ==
  ASSUME ScanSound, Number
  PROVE  ScanSound' /\ IndexSound(FALSE)'
<1>1. /\ UNCHANGED <<source, hash, packed>>
      /\ order' = <<Super, Fpt, Root>> \o InOrder(PackedDirs) \o InOrder(packed)
      /\ number' = Numbered(order')
  BY DEF Number
<1>2. ScanSound'
  BY <1>1 DEF ScanSound, Visible
<1>3. PICK a, b, c : /\ a = <<Super, Fpt, Root>>
                     /\ b = InOrder(PackedDirs) /\ c = InOrder(packed)
  OBVIOUS
<1>4. /\ packed \subseteq Nat /\ IsFiniteSet(packed) /\ PackedDirs \subseteq Nat /\ IsFiniteSet(PackedDirs)
      /\ packed \cap PackedDirs = {} /\ \A n \in PathNodes : n \in Nat \ {0}
  BY NodesPacked, TreeAssumption, PlacesFacts DEF PathNodes, Nodes, Root
<1>5. /\ b \in Seq(PackedDirs) /\ \A j, k \in 1..Len(b) : j < k => b[j] < b[k]
      /\ \A e \in PackedDirs : \E k \in 1..Len(b) : b[k] = e
  BY <1>3, <1>4, InOrderSorts
<1>6. /\ c \in Seq(packed) /\ \A j, k \in 1..Len(c) : j < k => c[j] < c[k]
      /\ \A e \in packed : \E k \in 1..Len(c) : c[k] = e
  BY <1>3, <1>4, InOrderSorts
<1> DEFINE T == {Super, Fpt, Root} \cup PathNodes
<1>7. PICK p, q : p = Len(b) /\ q = Len(c) /\ p \in Nat /\ q \in Nat
  BY <1>5, <1>6, LenProperties
<1>8. PICK s : s = a \o b \o c
  OBVIOUS
<1>9. /\ DOMAIN s = 1..(3 + p + q) /\ Len(s) = 3 + p + q
      /\ \A k \in 1..3 : s[k] = a[k]
      /\ \A k \in 1..p : s[3 + k] = b[k]
      /\ \A k \in 1..q : s[3 + p + k] = c[k]
      /\ \A k \in 1..(3 + p + q) :
           \/ k \in 1..3
           \/ k > 3 /\ k - 3 \in 1..p /\ s[k] = b[k - 3]
           \/ k > 3 + p /\ k - 3 - p \in 1..q /\ s[k] = c[k - 3 - p]
  <2>1. a \in Seq(T) /\ b \in Seq(T) /\ c \in Seq(T) /\ Len(a) = 3
    <3>1. a \in Seq(T) /\ Len(a) = 3
      <4>1. Super \in T /\ Fpt \in T /\ Root \in T
        OBVIOUS
      <4> HIDE DEF T
      <4> QED BY <1>3, <4>1
    <3>2. PackedDirs \subseteq T /\ packed \subseteq T
      BY DEF PathNodes
    <3> HIDE DEF T
    <3> QED BY <1>5, <1>6, <3>1, <3>2, SeqMonotonic
  <2> HIDE DEF T
  <2>2. 3 = Len(a) /\ p = Len(b) /\ q = Len(c)
    BY <1>7, <2>1
  <2>3. PICK x, y, z \in Nat : Consists(a \o b \o c, a, b, c, x, y, z)
    BY <2>1, ThreeParts
  <2>4. x = 3 /\ y = p /\ z = q
    BY <2>2, <2>3 DEF Consists
  <2> QED BY <1>8, <2>3, <2>4 DEF Consists
<1>9a. s[1] = Super /\ s[2] = Fpt /\ s[3] = Root
  BY <1>3, <1>9
<1> DEFINE n == 3 + p + q
<1>10. \A k \in 1..n : k \in 1..3 \/ (k > 3 /\ k - 3 \in 1..p /\ s[k] = b[k - 3])
                       \/ (k > 3 + p /\ k - 3 - p \in 1..q /\ s[k] = c[k - 3 - p])
  BY <1>9
<1>11. \A k \in 1..p : b[k] \in PackedDirs
  BY <1>5, <1>7, ElementOfSeq
<1>12. \A k \in 1..q : c[k] \in packed
  BY <1>6, <1>7, ElementOfSeq
<1>13. Range(s) = T
  <2>1. \A k \in 1..n : s[k] \in T
    <3> TAKE k \in 1..n
    <3>1. CASE k \in 1..3
      BY <1>9a, <3>1
    <3>2. CASE ~(k \in 1..3)
      BY <1>10, <1>11, <1>12, <3>2 DEF PathNodes
    <3> QED BY <3>1, <3>2
  <2>2. \A o \in T : \E k \in 1..n : s[k] = o
    <3> TAKE o \in T
    <3>1. CASE o \in {Super, Fpt, Root}
      <4>1. 1 \in 1..n /\ 2 \in 1..n /\ 3 \in 1..n
        BY <1>7
      <4> QED BY <1>9a, <3>1, <4>1
    <3>2. CASE o \in PackedDirs
      <4>1. PICK k \in 1..p : b[k] = o
        BY <1>5, <1>7, <3>2
      <4>2. 3 + k \in 1..n
        BY <1>7
      <4> QED BY <1>9, <4>1, <4>2
    <3>3. CASE o \in packed
      <4>1. PICK k \in 1..q : c[k] = o
        BY <1>6, <1>7, <3>3
      <4>2. 3 + p + k \in 1..n
        BY <1>7
      <4> QED BY <1>9, <4>1, <4>2
    <3> QED BY <3>1, <3>2, <3>3 DEF PathNodes
  <2>3. Range(s) = {s[k] : k \in 1..n}
    BY <1>9 DEF Range
  <2> HIDE DEF T, n
  <2> QED BY <2>1, <2>2, <2>3
<1>14. \A j, k \in 1..n : s[j] = s[k] => j = k
  <2>1. \A k \in 1..p : b[k] \in Nat \ {0}
    BY <1>4, <1>11 DEF PathNodes
  <2>2. \A k \in 1..q : c[k] \in Nat \ {0}
    BY <1>4, <1>12 DEF PathNodes
  <2>3. \A j, k \in 1..p : b[j] = b[k] => j = k
    <3> TAKE j, k \in 1..p
    <3>1. j < k => b[j] < b[k]
      BY <1>5, <1>7
    <3>2. k < j => b[k] < b[j]
      BY <1>5, <1>7
    <3> QED BY <2>1, <3>1, <3>2
  <2>4. \A j, k \in 1..q : c[j] = c[k] => j = k
    <3> TAKE j, k \in 1..q
    <3>1. j < k => c[j] < c[k]
      BY <1>6, <1>7
    <3>2. k < j => c[k] < c[j]
      BY <1>6, <1>7
    <3> QED BY <2>2, <3>1, <3>2
  <2>5. \A j \in 1..p : \A k \in 1..q : b[j] # c[k]
    BY <1>4, <1>11, <1>12
  <2> TAKE j, k \in 1..n
  <2>6. \A i \in 1..n : i > 3 => s[i] \in Nat \ {0}
    BY <1>10, <2>1, <2>2
  <2>7. s[1] = -3 /\ s[2] = -4 /\ s[3] = 0
    BY <1>9a DEF Super, Fpt, Root
  <2>8. CASE j \in 1..3 \/ k \in 1..3
    BY <2>6, <2>7, <2>8
  <2>9. CASE ~(j \in 1..3 \/ k \in 1..3)
    <3>1. ASSUME s[j] = s[k]
          PROVE  j = k
      <4>1. CASE j - 3 \in 1..p /\ s[j] = b[j - 3] /\ k - 3 \in 1..p /\ s[k] = b[k - 3]
        <5>1. j - 3 = k - 3
          BY <2>3, <3>1, <4>1
        <5> QED BY <5>1
      <4>2. CASE j - 3 - p \in 1..q /\ s[j] = c[j - 3 - p] /\ k - 3 - p \in 1..q /\ s[k] = c[k - 3 - p]
        <5>1. j - 3 - p = k - 3 - p
          BY <2>4, <3>1, <4>2
        <5> QED BY <1>7, <5>1
      <4> QED BY <1>10, <2>5, <2>9, <3>1, <4>1, <4>2
    <3> QED BY <3>1
  <2> QED BY <2>8, <2>9
<1>15. /\ DOMAIN Numbered(s) = Range(s)
       /\ \A k \in 1..n : s[k] \in Range(s)
       /\ \A o \in Range(s) : Numbered(s)[o] \in 0..(n - 1) /\ s[Numbered(s)[o] + 1] = o
  <2>1. n \in Nat
    BY <1>7
  <2> HIDE DEF n
  <2> QED BY <1>9, <2>1, NumberedAre DEF n
<1>16. order' = s /\ number' = Numbered(s) /\ PathNodes' = PathNodes
  BY <1>1, <1>3, <1>8 DEF PathNodes, PackedDirs
<1>17. n \in Nat /\ n >= 3
  BY <1>7
<1>18. IndexSound(FALSE)'
  <2> HIDE DEF n
  <2>1. Len(s) = n
    BY <1>9 DEF n
  <2>2. DOMAIN Numbered(s) = T
    BY <1>13, <1>15
  <2>3. DOMAIN Numbered(s) = {Super, Fpt, Root} \cup PathNodes
    BY <2>2
  <2> HIDE DEF T
  <2> QED BY <1>9, <1>9a, <1>14, <1>15, <1>16, <1>17, <2>1, <2>3 DEF IndexSound
<1> QED BY <1>2, <1>18

(* The entries of a directory: its own two, then one for each child.       *)
DirSound(E, num, d) ==
  /\ Len(E) \in Nat /\ Len(E) >= 2 /\ DOMAIN E = 1..Len(E)
  /\ E[1] = Ent(num[d], "dot", Dot)
  /\ E[2] = Ent(num[IF d = Root THEN Root ELSE Parent[d]], "dotdot", DotDot)
  /\ \A k \in 3..Len(E) : /\ E[k].name \in PathNodes /\ Parent[E[k].name] = d
                          /\ E[k] = Ent(num[E[k].name], TypeOf(E[k].name), E[k].name)
  /\ \A j, k \in 3..Len(E) : E[j].name = E[k].name => j = k
  /\ \A c \in PathNodes : Parent[c] = d => \E k \in 3..Len(E) : E[k].name = c

TreeSound(D) ==
  /\ DOMAIN D = PackedDirs \cup {Root}
  /\ \A d \in PackedDirs \cup {Root} : DirSound(D[d], number, d)

AreChildren(s, S, d) ==
  /\ s = Children(d, S) /\ s \in Seq(S) /\ Len(s) \in Nat
  /\ \A k \in 1..Len(s) : s[k] \in S /\ Parent[s[k]] = d
  /\ \A j, k \in 1..Len(s) : s[j] = s[k] => j = k
  /\ \A c \in S : Parent[c] = d => \E k \in 1..Len(s) : s[k] = c

LEMMA ChildrenAre ==
  ASSUME NEW S, S \subseteq Nat, IsFiniteSet(S), NEW d
  PROVE  \E s : AreChildren(s, S, d)
<1> DEFINE C == {n \in S : Parent[n] = d}
<1>0. PICK s : s = Children(d, S)
  OBVIOUS
<1>1. C \subseteq Nat /\ IsFiniteSet(C) /\ C \subseteq S
  BY FS_Subset
<1>2. s = InOrder(C)
  BY <1>0 DEF Children
<1> HIDE DEF C
<1>3. /\ s \in Seq(C) /\ \A j, k \in 1..Len(s) : j < k => s[j] < s[k]
      /\ \A e \in C : \E k \in 1..Len(s) : s[k] = e
  BY <1>1, <1>2, InOrderSorts
<1>4. s \in Seq(S) /\ Len(s) \in Nat
  BY <1>1, <1>3, SeqMonotonic, LenProperties
<1>5. \A k \in 1..Len(s) : s[k] \in C
  BY <1>3, ElementOfSeq
<1>6. \A j, k \in 1..Len(s) : s[j] = s[k] => j = k
  <2> TAKE j, k \in 1..Len(s)
  <2>1. s[j] \in Nat /\ s[k] \in Nat
    BY <1>1, <1>5
  <2>2. (j < k => s[j] < s[k]) /\ (k < j => s[k] < s[j])
    BY <1>3
  <2> QED BY <2>1, <2>2
<1> QED BY <1>0, <1>3, <1>4, <1>5, <1>6 DEF C, AreChildren

LEMMA EntriesAre ==
  ASSUME ScanSound, NEW d \in PackedDirs \cup {Root}
  PROVE  DirSound(EntriesOf(d), number, d)
<1> DEFINE up == IF d = Root THEN Root ELSE Parent[d]
<1>8. /\ packed \subseteq Nat /\ IsFiniteSet(packed) /\ PackedDirs \subseteq Nat /\ IsFiniteSet(PackedDirs)
      /\ packed \subseteq Files /\ PackedDirs \subseteq Dirs
  BY NodesPacked, TreeAssumption, PlacesFacts DEF PathNodes, Nodes, Root
<1>9. PICK u, p :
        /\ u = Children(d, PackedDirs) /\ p = Len(u) /\ u \in Seq(PackedDirs) /\ p \in Nat
        /\ \A k \in 1..p : u[k] \in PackedDirs /\ Parent[u[k]] = d
        /\ \A j, k \in 1..p : u[j] = u[k] => j = k
        /\ \A x \in PackedDirs : Parent[x] = d => \E k \in 1..p : u[k] = x
  <2>1. PackedDirs \subseteq Nat /\ IsFiniteSet(PackedDirs)
    BY <1>8
  <2>2. PICK s : AreChildren(s, PackedDirs, d)
    BY <2>1, ChildrenAre
  <2> QED BY <2>2 DEF AreChildren
<1>10. PICK v, q :
        /\ v = Children(d, packed) /\ q = Len(v) /\ v \in Seq(packed) /\ q \in Nat
        /\ \A k \in 1..q : v[k] \in packed /\ Parent[v[k]] = d
        /\ \A j, k \in 1..q : v[j] = v[k] => j = k
        /\ \A x \in packed : Parent[x] = d => \E k \in 1..q : v[k] = x
  <2>1. packed \subseteq Nat /\ IsFiniteSet(packed)
    BY <1>8
  <2>2. PICK s : AreChildren(s, packed, d)
    BY <2>1, ChildrenAre
  <2> QED BY <2>2 DEF AreChildren
<1>3. PICK b : b = [k \in 1..p |-> Ent(number[u[k]], "dir", u[k])]
  OBVIOUS
<1>4. PICK c : c = [k \in 1..q |-> Ent(number[v[k]], "file", v[k])]
  OBVIOUS
<1>5. PICK a : a = <<Ent(number[d], "dot", Dot), Ent(number[up], "dotdot", DotDot)>>
  OBVIOUS
<1>6. PICK E : E = a \o b \o c
  OBVIOUS
<1>7. EntriesOf(d) = E
  BY <1>9, <1>10, <1>3, <1>4, <1>5, <1>6 DEF EntriesOf
<1>11. \E T : a \in Seq(T) /\ b \in Seq(T) /\ c \in Seq(T)
  <2> DEFINE T == {a[1], a[2]} \cup {b[k] : k \in 1..p} \cup {c[k] : k \in 1..q}
  <2>1. a \in Seq(T)
    BY <1>5
  <2>2. \A k \in 1..p : b[k] \in T
    OBVIOUS
  <2>3. \A k \in 1..q : c[k] \in T
    OBVIOUS
  <2>4. b = [k \in 1..p |-> b[k]] /\ c = [k \in 1..q |-> c[k]]
    BY <1>3, <1>4
  <2> HIDE DEF T
  <2>5. b \in Seq(T) /\ c \in Seq(T)
    <3>1. PICK m : m \in Nat /\ m = p
      BY <1>9
    <3>2. PICK n : n \in Nat /\ n = q
      BY <1>10
    <3>3. b \in [1..m -> T] /\ c \in [1..n -> T]
      BY <2>2, <2>3, <2>4, <3>1, <3>2
    <3> QED BY <3>1, <3>2, <3>3
  <2> QED BY <2>1, <2>5
<1>12. Len(a) = 2 /\ Len(b) = p /\ Len(c) = q
  BY <1>3, <1>4, <1>5, <1>9, <1>10
<1>13. /\ Len(E) = 2 + p + q /\ DOMAIN E = 1..(2 + p + q)
       /\ \A k \in 1..2 : E[k] = a[k]
       /\ \A k \in 1..p : E[2 + k] = b[k]
       /\ \A k \in 1..q : E[2 + p + k] = c[k]
       /\ \A k \in 1..(2 + p + q) :
            \/ k \in 1..2
            \/ k > 2 /\ k - 2 \in 1..p /\ E[k] = b[k - 2]
            \/ k > 2 + p /\ k - 2 - p \in 1..q /\ E[k] = c[k - 2 - p]
  <2>1. PICK T : a \in Seq(T) /\ b \in Seq(T) /\ c \in Seq(T)
    BY <1>11
  <2>2. 2 = Len(a) /\ p = Len(b) /\ q = Len(c)
    BY <1>12
  <2>3. PICK x, y, z \in Nat : Consists(a \o b \o c, a, b, c, x, y, z)
    BY <2>1, ThreeParts
  <2>4. x = 2 /\ y = p /\ z = q
    BY <2>2, <2>3 DEF Consists
  <2> QED BY <1>6, <2>3, <2>4 DEF Consists
<1> DEFINE n == 2 + p + q
<1>14. E[1] = Ent(number[d], "dot", Dot) /\ E[2] = Ent(number[up], "dotdot", DotDot)
  BY <1>5, <1>13
<1>15. \A k \in 1..p : b[k] = Ent(number[u[k]], TypeOf(u[k]), u[k]) /\ b[k].name = u[k]
  <2> TAKE k \in 1..p
  <2>1. TypeOf(u[k]) = "dir"
    BY <1>8, <1>9 DEF TypeOf
  <2> QED BY <1>3, <2>1 DEF Ent
<1>16. \A k \in 1..q : c[k] = Ent(number[v[k]], TypeOf(v[k]), v[k]) /\ c[k].name = v[k]
  <2> TAKE k \in 1..q
  <2>1. TypeOf(v[k]) = "file"
    BY <1>8, <1>10, TreeAssumption DEF TypeOf
  <2> QED BY <1>4, <2>1 DEF Ent
<1>17. ASSUME NEW k \in 3..n
       PROVE  \/ /\ k - 2 \in 1..p /\ E[k] = b[k - 2] /\ E[k].name = u[k - 2]
                 /\ E[k].name \in PackedDirs /\ Parent[E[k].name] = d
                 /\ E[k] = Ent(number[E[k].name], TypeOf(E[k].name), E[k].name)
              \/ /\ k - 2 - p \in 1..q /\ E[k] = c[k - 2 - p] /\ E[k].name = v[k - 2 - p]
                 /\ E[k].name \in packed /\ Parent[E[k].name] = d
                 /\ E[k] = Ent(number[E[k].name], TypeOf(E[k].name), E[k].name)
  <2>1. k \in 1..n /\ ~(k \in 1..2)
    BY <1>9, <1>10
  <2>2. CASE k - 2 \in 1..p /\ E[k] = b[k - 2]
    BY <1>9, <1>15, <2>2
  <2>3. CASE k - 2 - p \in 1..q /\ E[k] = c[k - 2 - p]
    BY <1>10, <1>16, <2>3
  <2> QED BY <1>13, <2>1, <2>2, <2>3
<1>18. \A j, k \in 3..n : E[j].name = E[k].name => j = k
  <2> TAKE j, k \in 3..n
  <2>1. packed \cap PackedDirs = {}
    BY <1>8, TreeAssumption
  <2> SUFFICES ASSUME E[j].name = E[k].name PROVE j = k
    OBVIOUS
  <2>2. CASE E[j].name \in PackedDirs
    <3>1. j - 2 \in 1..p /\ k - 2 \in 1..p /\ u[j - 2] = u[k - 2]
      BY <1>17, <2>1, <2>2
    <3>2. j - 2 = k - 2
      BY <1>9, <3>1
    <3> QED BY <3>2
  <2>3. CASE E[j].name \notin PackedDirs
    <3>1. j - 2 - p \in 1..q /\ k - 2 - p \in 1..q /\ v[j - 2 - p] = v[k - 2 - p]
      BY <1>17, <2>1, <2>3
    <3>2. j - 2 - p = k - 2 - p
      BY <1>10, <3>1
    <3> QED BY <1>9, <3>2
  <2> QED BY <2>2, <2>3
<1>19. ASSUME NEW x \in PathNodes, Parent[x] = d
       PROVE  \E k \in 3..n : E[k].name = x
  <2>1. CASE x \in PackedDirs
    <3>1. PICK k \in 1..p : u[k] = x
      BY <1>9, <1>19, <2>1
    <3>2. 2 + k \in 3..n
      BY <1>9, <1>10
    <3>3. E[2 + k].name = x
      BY <1>13, <1>15, <3>1
    <3> QED BY <3>2, <3>3
  <2>2. CASE x \in packed
    <3>1. PICK k \in 1..q : v[k] = x
      BY <1>10, <1>19, <2>2
    <3>2. 2 + p + k \in 3..n
      BY <1>9, <1>10
    <3>3. E[2 + p + k].name = x
      BY <1>13, <1>16, <3>1
    <3> QED BY <3>2, <3>3
  <2> QED BY <2>1, <2>2 DEF PathNodes
<1>20. n \in Nat /\ n >= 2
  BY <1>9, <1>10
<1>21. DirSound(E, number, d)
  <2>1. Len(E) = n /\ DOMAIN E = 1..n
    BY <1>13
  <2> HIDE DEF n
  <2>2. \A k \in 3..n : /\ E[k].name \in PathNodes /\ Parent[E[k].name] = d
                        /\ E[k] = Ent(number[E[k].name], TypeOf(E[k].name), E[k].name)
    BY <1>17 DEF PathNodes
  <2> QED BY <1>14, <1>18, <1>19, <1>20, <2>1, <2>2 DEF DirSound
<1> QED BY <1>7, <1>21

-----------------------------------------------------------------------------
(* The image that is built                                                 *)

LEMMA TreeStays ==
  ASSUME UNCHANGED <<packed, number>>, NEW D, TreeSound(D)
  PROVE  TreeSound(D)'
<1>1. packed' = packed /\ number' = number /\ PackedDirs' = PackedDirs /\ PathNodes' = PathNodes
  BY DEF PackedDirs, PathNodes
<1>2. ASSUME NEW E, NEW d, DirSound(E, number, d)
      PROVE  DirSound(E, number, d)'
  BY <1>1, <1>2 DEF DirSound, TypeOf, Ent
<1> QED BY <1>1, <1>2 DEF TreeSound

LEMMA Linking ==
  ASSUME ScanSound, Link
  PROVE  TreeSound(dirents)' /\ UNCHANGED <<source, hash, packed, order, number>>
<1>1. /\ UNCHANGED <<source, hash, packed, order, number>>
      /\ dirents' = [d \in PackedDirs \cup {Root} |-> EntriesOf(d)]
  BY DEF Link
<1>2. PICK D : D = [d \in PackedDirs \cup {Root} |-> EntriesOf(d)]
  OBVIOUS
<1>3. TreeSound(D)
  BY <1>2, EntriesAre DEF TreeSound
<1>4. TreeSound(D)'
  BY <1>1, <1>3, TreeStays
<1>5. dirents' = D
  BY <1>1, <1>2
<1>6. TreeSound(D)' <=> TreeSound(dirents)'
  BY <1>5 DEF TreeSound
<1> QED BY <1>1, <1>4, <1>6

Inserted(n, s, num) ==
  /\ n = Len(order) /\ s = WithResolver /\ num = Numbered(s)
  /\ n \in Nat /\ n >= 3 /\ Len(s) = n + 1
  /\ s[1] = Super /\ s[2] = Fpt
  /\ \A k \in 1..(n + 1) : s[k] \in DOMAIN num
  /\ \A o \in DOMAIN num : num[o] \in 0..n /\ s[num[o] + 1] = o
  /\ DOMAIN num = {Super, Fpt, Root} \cup PathNodes \cup {Resolver}
  /\ \A j, k \in 1..(n + 1) : s[j] = s[k] => j = k

LEMMA ResolverInserted ==
  ASSUME ScanSound, IndexSound(FALSE)
  PROVE  \E n, s, num : Inserted(n, s, num)
<1>0. PICK n \in Nat : n = Len(order)
  BY DEF IndexSound
<1>0a. PICK s : s = WithResolver
  OBVIOUS
<1>0b. PICK num : num = Numbered(s)
  OBVIOUS
<1>1. s = [k \in 1..(n + 1) |-> IF k <= 2 THEN order[k] ELSE IF k = 3 THEN Resolver ELSE order[k - 1]]
  BY <1>0, <1>0a DEF WithResolver
<1>2. /\ n >= 3 /\ order[1] = Super /\ order[2] = Fpt
      /\ \A k \in 1..n : order[k] \in DOMAIN number
      /\ \A o \in DOMAIN number : number[o] \in 0..(n - 1) /\ order[number[o] + 1] = o
      /\ DOMAIN number = {Super, Fpt, Root} \cup PathNodes
      /\ \A j, k \in 1..n : order[j] = order[k] => j = k
  BY <1>0 DEF IndexSound
<1>3. Resolver \notin DOMAIN number
  <2>1. \A x \in PathNodes : x \in Nat
    BY NodesPacked, PlacesFacts
  <2> QED BY <1>2, <2>1 DEF Resolver, Super, Fpt, Root
<1>4. Len(s) = n + 1 /\ DOMAIN s = 1..(n + 1) /\ n + 1 \in Nat
  BY <1>1
<1>5. \A k \in 1..(n + 1) : \/ k = 3 /\ s[k] = Resolver
                            \/ k \in 1..2 /\ k \in 1..n /\ s[k] = order[k]
                            \/ k > 3 /\ k - 1 \in 1..n /\ s[k] = order[k - 1]
  BY <1>1, <1>2
<1>6. Range(s) = DOMAIN number \cup {Resolver}
  <2>1. \A k \in 1..(n + 1) : s[k] \in DOMAIN number \cup {Resolver}
    BY <1>2, <1>5
  <2>2. ASSUME NEW o \in DOMAIN number \cup {Resolver}
        PROVE  \E k \in 1..(n + 1) : s[k] = o
    <3>1. CASE o = Resolver
      <4>1. 3 \in 1..(n + 1) /\ s[3] = Resolver
        BY <1>1, <1>2
      <4> QED BY <3>1, <4>1
    <3>2. CASE o \in DOMAIN number
      <4>1. PICK j \in 1..n : order[j] = o
        <5>1. number[o] + 1 \in 1..n
          BY <1>2, <3>2
        <5> QED BY <1>2, <3>2, <5>1
      <4>2. CASE j <= 2
        <5>1. j \in 1..(n + 1) /\ s[j] = order[j]
          BY <1>1, <4>2
        <5> QED BY <4>1, <5>1
      <4>3. CASE ~(j <= 2)
        <5>1. j + 1 \in 1..(n + 1) /\ (j + 1) - 1 = j /\ ~(j + 1 <= 2) /\ j + 1 # 3
          BY <4>3
        <5>2. s[j + 1] = order[j]
          BY <1>1, <5>1
        <5> QED BY <4>1, <5>1, <5>2
      <4> QED BY <4>2, <4>3
    <3> QED BY <3>1, <3>2
  <2>3. Range(s) = {s[k] : k \in 1..(n + 1)}
    BY <1>4 DEF Range
  <2> QED BY <2>1, <2>2, <2>3
<1>7. ASSUME NEW j \in 1..(n + 1), NEW k \in 1..(n + 1), s[j] = s[k]
      PROVE  j = k
  <2>1. CASE j = 3
    BY <1>2, <1>3, <1>5, <1>7, <2>1
  <2>2. CASE k = 3
    BY <1>2, <1>3, <1>5, <1>7, <2>2
  <2>3. CASE j # 3 /\ k # 3
    <3> DEFINE pred(i) == IF i <= 2 THEN i ELSE i - 1
    <3>1. pred(j) \in 1..n /\ pred(k) \in 1..n /\ s[j] = order[pred(j)] /\ s[k] = order[pred(k)]
      BY <1>1, <1>2, <2>3
    <3>2. pred(j) = pred(k)
      BY <1>2, <1>7, <3>1
    <3> QED BY <2>3, <3>2
  <2> QED BY <2>1, <2>2, <2>3
<1>8. /\ DOMAIN num = Range(s)
      /\ \A k \in 1..(n + 1) : s[k] \in Range(s)
      /\ \A o \in Range(s) : num[o] \in 0..((n + 1) - 1) /\ s[num[o] + 1] = o
  <2>1. PICK m \in Nat : m = n + 1
    BY <1>4
  <2>2. /\ DOMAIN Numbered(s) = Range(s)
        /\ \A k \in 1..m : s[k] \in Range(s)
        /\ \A o \in Range(s) : Numbered(s)[o] \in 0..(m - 1) /\ s[Numbered(s)[o] + 1] = o
    BY <1>4, <2>1, NumberedAre
  <2> QED BY <1>0b, <2>1, <2>2
<1>9. (n + 1) - 1 = n
  OBVIOUS
<1>10. s[1] = Super /\ s[2] = Fpt
  BY <1>1, <1>2
<1>11. DOMAIN num = {Super, Fpt, Root} \cup PathNodes \cup {Resolver}
  BY <1>2, <1>6, <1>8
<1>12. /\ \A k \in 1..(n + 1) : s[k] \in DOMAIN num
       /\ \A o \in DOMAIN num : num[o] \in 0..n /\ s[num[o] + 1] = o
  BY <1>8, <1>9
<1>13. \A j, k \in 1..(n + 1) : s[j] = s[k] => j = k
  BY <1>7, Zenon
<1>14. n >= 3
  BY <1>2
<1>15. Inserted(n, s, num)
  BY <1>0, <1>0a, <1>0b, <1>4, <1>10, <1>11, <1>12, <1>13, <1>14, Zenon DEF Inserted
<1> QED BY <1>15

(* The numbers of the entries follow the inodes.                           *)
LEMMA Renumbered ==
  ASSUME ScanSound, IndexSound(FALSE), NEW E, NEW d \in PackedDirs \cup {Root},
         DirSound(E, number, d), NEW num,
         NEW F, F = [k \in 1..Len(E) |-> [E[k] EXCEPT !.ino = num[order[@ + 1]]]]
  PROVE  DirSound(F, num, d)
<1> DEFINE up == IF d = Root THEN Root ELSE Parent[d]
<1>1. PICK m : m = Len(E)
  OBVIOUS
<1>2. /\ m \in Nat /\ m >= 2
      /\ E[1] = Ent(number[d], "dot", Dot) /\ E[2] = Ent(number[up], "dotdot", DotDot)
      /\ \A k \in 3..m : /\ E[k].name \in PathNodes /\ Parent[E[k].name] = d
                         /\ E[k] = Ent(number[E[k].name], TypeOf(E[k].name), E[k].name)
      /\ \A j, k \in 3..m : E[j].name = E[k].name => j = k
      /\ \A c \in PathNodes : Parent[c] = d => \E k \in 3..m : E[k].name = c
  BY <1>1 DEF DirSound
<1>3. \A o \in {Root} \cup PathNodes : order[number[o] + 1] = o
  BY DEF IndexSound
<1>4. up \in {Root} \cup PathNodes /\ d \in {Root} \cup PathNodes
  <2>1. PackedDirs \subseteq PathNodes
    BY DEF PathNodes
  <2>2. d # Root => Parent[d] \in PackedDirs \cup {Root}
    BY <2>1, NodesPacked
  <2> QED BY <2>1, <2>2
<1> HIDE DEF up
<1>5. \A k \in 1..m : \A o \in {Root} \cup PathNodes :
        E[k].ino = number[o] => F[k] = [E[k] EXCEPT !.ino = num[o]]
  <2> TAKE k \in 1..m
  <2> TAKE o \in {Root} \cup PathNodes
  <2> HAVE E[k].ino = number[o]
  <2>1. F[k] = [E[k] EXCEPT !.ino = num[order[E[k].ino + 1]]]
    BY <1>1
  <2>2. order[E[k].ino + 1] = o
    BY <1>3
  <2> QED BY <2>1, <2>2
<1>6. F[1] = Ent(num[d], "dot", Dot) /\ F[2] = Ent(num[up], "dotdot", DotDot)
  <2>1. 1 \in 1..m /\ 2 \in 1..m
    BY <1>2
  <2>2. E[1].ino = number[d] /\ E[2].ino = number[up]
    BY <1>2 DEF Ent
  <2>3. F[1] = [E[1] EXCEPT !.ino = num[d]]
    BY <1>4, <1>5, <2>1, <2>2
  <2>4. F[2] = [E[2] EXCEPT !.ino = num[up]]
    BY <1>4, <1>5, <2>1, <2>2
  <2> QED BY <1>2, <2>3, <2>4 DEF Ent
<1>7. ASSUME NEW k \in 3..m
      PROVE  /\ F[k] = Ent(num[E[k].name], TypeOf(E[k].name), E[k].name)
             /\ F[k].name = E[k].name
  <2>1. PICK c : c = E[k].name /\ c \in {Root} \cup PathNodes
                 /\ E[k] = Ent(number[c], TypeOf(c), c)
    BY <1>2
  <2>2. k \in 1..m /\ E[k].ino = number[c]
    BY <1>2, <2>1 DEF Ent
  <2>3. F[k] = [E[k] EXCEPT !.ino = num[c]]
    BY <1>5, <2>1, <2>2
  <2>4. F[k] = Ent(num[c], TypeOf(c), c)
    <3> HIDE DEF TypeOf
    <3> QED BY <2>1, <2>3 DEF Ent
  <2>5. F[k].name = c
    BY <2>4 DEF Ent
  <2> QED BY <2>1, <2>4, <2>5
<1>8. \A k \in 3..m : F[k].name = E[k].name
  BY <1>7
<1>9. Len(F) = m /\ DOMAIN F = 1..m
  <2>1. PICK n \in Nat : n = m
    BY <1>2
  <2> DEFINE G == [k \in 1..n |-> [E[k] EXCEPT !.ino = num[order[@ + 1]]]]
  <2>2. F = G
    BY <1>1, <2>1
  <2>3. Len(G) = n /\ DOMAIN G = 1..n
    BY <2>1
  <2> QED BY <2>1, <2>2, <2>3
<1>10. \A j, k \in 3..m : F[j].name = F[k].name => j = k
  BY <1>2, <1>8, Zenon
<1>11. \A c \in PathNodes : Parent[c] = d => \E k \in 3..m : F[k].name = c
  <2> TAKE c \in PathNodes
  <2> SUFFICES ASSUME Parent[c] = d PROVE \E k \in 3..m : F[k].name = c
    OBVIOUS
  <2>1. PICK k \in 3..m : E[k].name = c
    BY <1>2, Zenon
  <2>2. F[k].name = c
    BY <1>8, <2>1, Zenon
  <2> QED BY <2>2, Zenon
<1>12. \A k \in 3..m : /\ F[k].name \in PathNodes /\ Parent[F[k].name] = d
                       /\ F[k] = Ent(num[F[k].name], TypeOf(F[k].name), F[k].name)
  <2> TAKE k \in 3..m
  <2>1. F[k].name = E[k].name /\ F[k] = Ent(num[E[k].name], TypeOf(E[k].name), E[k].name)
    BY <1>7, Zenon
  <2>2. E[k].name \in PathNodes /\ Parent[E[k].name] = d
    BY <1>2, Zenon
  <2> QED BY <2>1, <2>2, Zenon
<1> QED BY <1>2, <1>6, <1>9, <1>10, <1>11, <1>12 DEF DirSound, up

LEMMA Colliding ==
  ASSUME ScanSound, IndexSound(FALSE), TreeSound(dirents), Collide
  PROVE  /\ UNCHANGED <<source, hash, packed>>
         /\ IndexSound(Collision)' /\ TreeSound(dirents)'
<1>1. UNCHANGED <<source, hash, packed>>
  BY DEF Collide
<1>2. PackedDirs' = PackedDirs /\ PathNodes' = PathNodes
  BY <1>1 DEF PackedDirs, PathNodes
<1>3. Collision' = Collision
  BY <1>1, <1>2 DEF Collision, HashesUsed, WithHash
<1>4. CASE ~Collision
  <2>1. UNCHANGED <<order, number, dirents>>
    BY <1>4 DEF Collide
  <2>2. IndexSound(FALSE)'
    BY <1>2, <2>1 DEF IndexSound
  <2>3. TreeSound(dirents)'
    <3>1. PICK D : D = dirents
      OBVIOUS
    <3>2. TreeSound(D)'
      BY <1>1, <2>1, <3>1, TreeStays
    <3> QED BY <2>1, <3>1, <3>2 DEF TreeSound
  <2> QED BY <1>1, <1>3, <1>4, <2>2, <2>3 DEF IndexSound
<1>5. CASE Collision
  <2>1. PICK n, s, num : Inserted(n, s, num)
    BY ResolverInserted
  <2>2. order' = s /\ number' = num
    BY <1>5, <2>1 DEF Collide, Inserted
  <2>4. /\ n \in Nat /\ n >= 3 /\ Len(s) = n + 1
        /\ s[1] = Super /\ s[2] = Fpt
        /\ \A k \in 1..(n + 1) : s[k] \in DOMAIN num
        /\ \A o \in DOMAIN num : num[o] \in 0..n /\ s[num[o] + 1] = o
        /\ DOMAIN num = {Super, Fpt, Root} \cup PathNodes \cup {Resolver}
        /\ \A j, k \in 1..(n + 1) : s[j] = s[k] => j = k
    BY <2>1 DEF Inserted
  <2>5. IndexSound(TRUE)'
    <3>1. Len(s) \in Nat /\ Len(s) >= 3 /\ Len(s) - 1 = n
      BY <2>4
    <3> QED BY <1>2, <2>2, <2>4, <3>1 DEF IndexSound
  <2>6. PICK D : D = dirents
    OBVIOUS
  <2>7. PICK F : F = [d \in DOMAIN D |->
               [k \in 1..Len(D[d]) |->
                  [D[d][k] EXCEPT !.ino = num[order[@ + 1]]]]]
    OBVIOUS
  <2>8. dirents' = F
    BY <1>5, <2>2, <2>6, <2>7 DEF Collide
  <2>9. DOMAIN F = PackedDirs \cup {Root}
    BY <2>6, <2>7 DEF TreeSound
  <2>10. \A d \in PackedDirs \cup {Root} : DirSound(F[d], num, d)
    <3> TAKE d \in PackedDirs \cup {Root}
    <3>1. DirSound(D[d], number, d) /\ d \in DOMAIN D
      BY <2>6 DEF TreeSound
    <3>2. F[d] = [k \in 1..Len(D[d]) |-> [D[d][k] EXCEPT !.ino = num[order[@ + 1]]]]
      BY <2>7, <3>1
    <3> QED BY <3>1, <3>2, Renumbered
  <2>11. TreeSound(dirents)'
    <3>1. ASSUME NEW d \in PackedDirs \cup {Root}
          PROVE  DirSound(F[d], number, d)'
      <4>1. DirSound(F[d], num, d)
        BY <2>10
      <4> QED BY <1>2, <2>2, <4>1 DEF DirSound, TypeOf, Ent
    <3> QED BY <1>2, <2>8, <2>9, <3>1 DEF TreeSound
  <2> QED BY <1>1, <1>3, <1>5, <2>5, <2>11 DEF IndexSound
<1> QED BY <1>4, <1>5

LEMMA TablesStay ==
  ASSUME UNCHANGED <<hash, packed, number>>
  PROVE  /\ Rows' = Rows /\ Blob' = Blob /\ SuperEntries' = SuperEntries
         /\ Collision' = Collision /\ PathNodes' = PathNodes /\ PackedDirs' = PackedDirs
<1>1. PackedDirs' = PackedDirs /\ PathNodes' = PathNodes
  BY DEF PackedDirs, PathNodes
<1>2. HashesUsed' = HashesUsed
  BY <1>1 DEF HashesUsed
<1>3. \A h : WithHash(h)' = WithHash(h)
  BY <1>1 DEF WithHash
<1>4. Collision' = Collision
  BY <1>2, <1>3 DEF Collision
<1>5. \A h : GroupOf(h)' = GroupOf(h)
  BY <1>3 DEF GroupOf
<1>6. GroupSeq' = GroupSeq
  BY <1>2, <1>5 DEF GroupSeq
<1>7. Blob' = Blob /\ \A h : OffsetOf(h)' = OffsetOf(h)
  BY <1>2, <1>6 DEF Blob, OffsetOf
<1>8. \A h : Row(h)' = Row(h)
  BY <1>3, <1>7 DEF Row
<1>9. Rows' = Rows
  BY <1>2, <1>8 DEF Rows
<1>10. SuperEntries' = SuperEntries
  BY <1>4 DEF SuperEntries
<1> QED BY <1>1, <1>4, <1>7, <1>9, <1>10

(* What a damage of each kind makes of the tree D, and of the tables.      *)
EntryHit(D, E, inos) ==
  \E d \in DOMAIN D : \E k \in 1..Len(D[d]) :
    \/ E = [D EXCEPT ![d] = Without(@, k)]
    \/ E = [D EXCEPT ![d] = Doubled(@, k)]
    \/ \E i \in inos \ {D[d][k].ino} : E = [D EXCEPT ![d][k].ino = i]
    \/ \E t \in {"dir", "file", "dot", "dotdot", "none"} \ {D[d][k].type} :
         E = [D EXCEPT ![d][k].type = t]

TableHit(t) ==
  \E k \in 1..Len(t) :
    \/ fpt = Without(t, k)
    \/ fpt = Doubled(t, k)
    \/ \E v \in [group : BOOLEAN, dir : BOOLEAN, at : InoRange] :
         /\ v # [group |-> t[k].group, dir |-> t[k].dir, at |-> t[k].at]
         /\ ~(v.group /\ t[k].group /\ v.at = t[k].at)
         /\ fpt = [t EXCEPT ![k] =
                     [hash |-> @.hash, group |-> v.group, dir |-> v.dir, at |-> v.at]]

ResolverHit(b) ==
  \E k \in 1..Len(b) :
    /\ b[k] # Zeros
    /\ \/ resolver = Without(b, k)
       \/ \E i \in InoRange \ {b[k].ino} : resolver = [b EXCEPT ![k].ino = i]
       \/ resolver = [b EXCEPT ![k].type = IF @ = "dir" THEN "file" ELSE "dir"]

SuperHit(s) ==
  \E k \in 1..Len(s) :
    \/ super = Without(s, k)
    \/ \E i \in InoRange \ {s[k].ino} : super = [s EXCEPT ![k].ino = i]

(* At most one link is not as it was built.                                *)
Links(D) ==
  /\ damage \in {"none", "entry", "table", "resolver", "super"}
  /\ IF damage = "entry" THEN EntryHit(D, dirents, InoRange) ELSE dirents = D
  /\ IF damage = "table" THEN TableHit(Rows) ELSE fpt = Rows
  /\ IF damage = "resolver" THEN ResolverHit(Blob) ELSE resolver = Blob
  /\ IF damage = "super" THEN SuperHit(SuperEntries) ELSE super = SuperEntries

Complete == stage \in {"indexes", "walk", "inspected", "dirs", "files", "ended", "raised"}

ImageInv ==
  /\ ScanSound
  /\ stage = "link" => IndexSound(FALSE)
  /\ stage = "collide" => IndexSound(FALSE) /\ TreeSound(dirents)
  /\ stage = "table" => IndexSound(Collision) /\ TreeSound(dirents)
  /\ stage = "image" => /\ IndexSound(Collision) /\ TreeSound(dirents)
                        /\ fpt = Rows /\ resolver = Blob /\ super = SuperEntries
  /\ Complete => /\ IndexSound(Collision)
                 /\ \E D : TreeSound(D) /\ Links(D)
                 /\ badFile \in packed \cup {Root}
                 /\ damage # "none" => mode = "unpack"

LEMMA ImageInit == Init => ImageInv
<1> SUFFICES ASSUME Init PROVE ImageInv
  OBVIOUS
<1>1. stage = "scan"
  BY DEF Init, BuildInit
<1>2. ScanSound
  <2>1. source \in Sources /\ packed = {}
        /\ hash \in [UNION {Parts[f] : f \in Visible({})} -> Hashes]
    BY DEF Init, BuildInit
  <2>2. source \subseteq Files
    BY <2>1, TreeAssumption
  <2>3. /\ DOMAIN hash = UNION {Parts[f] : f \in Visible({})}
        /\ \A n \in DOMAIN hash : hash[n] \in Hashes
    BY <2>1
  <2> QED BY <2>1, <2>2, <2>3 DEF ScanSound
<1> QED BY <1>1, <1>2 DEF ImageInv, Complete

(* The image is not touched while it is looked at.                         *)
LEMMA ImageRests ==
  ASSUME UNCHANGED <<buildVars, damage, badFile, mode>>, Complete, Complete', ImageInv
  PROVE  ImageInv'
<1>1. UNCHANGED <<source, hash, packed, order, number, dirents, fpt, resolver, super>>
  BY DEF buildVars
<1>2. ScanSound'
  BY <1>1 DEF ScanSound, Visible, ImageInv
<1>3. /\ Rows' = Rows /\ Blob' = Blob /\ SuperEntries' = SuperEntries
      /\ Collision' = Collision /\ PathNodes' = PathNodes /\ PackedDirs' = PackedDirs
  BY <1>1, TablesStay
<1>4. IndexSound(Collision)'
  BY <1>1, <1>3 DEF ImageInv, IndexSound
<1>5. PICK D : TreeSound(D) /\ Links(D)
  BY DEF ImageInv
<1>6. TreeSound(D)'
  BY <1>1, <1>5, TreeStays
<1>7. Links(D)'
  <2>1. InoRange' = InoRange /\ dirents' = dirents
    BY <1>1 DEF InoRange
  <2>2. TableHit(Rows) => TableHit(Rows)'
    BY <1>1, <1>3, <2>1 DEF TableHit
  <2>3. ResolverHit(Blob) => ResolverHit(Blob)'
    BY <1>1, <1>3, <2>1 DEF ResolverHit
  <2>4. SuperHit(SuperEntries) => SuperHit(SuperEntries)'
    BY <1>1, <1>3, <2>1 DEF SuperHit
  <2> QED BY <1>1, <1>3, <1>5, <2>1, <2>2, <2>3, <2>4 DEF Links
<1>8. badFile' \in packed' \cup {Root} /\ (damage' # "none" => mode' = "unpack")
  BY <1>1 DEF ImageInv
<1>9. stage' \notin {"link", "collide", "table", "image"}
  BY DEF Complete
<1> QED BY <1>2, <1>4, <1>6, <1>7, <1>8, <1>9 DEF ImageInv

(* A stored image differs from the one built in one link at most.          *)
LEMMA Storing ==
  ASSUME ImageInv, Store
  PROVE  ImageInv'
<1>1. stage = "image" /\ stage' = "indexes"
      /\ UNCHANGED <<source, hash, packed, order, number, mode>>
  BY DEF Store, Undamaged, DamageEntry, DamageTable, DamageResolver, DamageSuper, Hit
<1>2. /\ ScanSound /\ IndexSound(Collision) /\ TreeSound(dirents)
      /\ fpt = Rows /\ resolver = Blob /\ super = SuperEntries
  BY <1>1 DEF ImageInv
<1>3. ScanSound'
  BY <1>1, <1>2 DEF ScanSound, Visible
<1>4. /\ Rows' = Rows /\ Blob' = Blob /\ SuperEntries' = SuperEntries
      /\ Collision' = Collision /\ PathNodes' = PathNodes /\ PackedDirs' = PackedDirs
  BY <1>1, TablesStay
<1>5. IndexSound(Collision)'
  BY <1>1, <1>2, <1>4 DEF IndexSound
<1>6. PICK D : D = dirents
  OBVIOUS
<1>7. TreeSound(D)'
  BY <1>1, <1>2, <1>6, TreeStays
<1>8. Links(D)'
  <2>1. InoRange' = InoRange
    BY <1>1 DEF InoRange
  <2>2. CASE Undamaged
    BY <1>2, <1>4, <1>6, <2>2 DEF Undamaged, Hit, Links
  <2>3. CASE DamageEntry
    <3>1. damage' = "entry" /\ UNCHANGED <<fpt, resolver, super>>
      BY <2>3 DEF DamageEntry, Hit
    <3>2. EntryHit(dirents, dirents', InoRange)
      BY <2>3, Zenon DEF DamageEntry, EntryHit
    <3>3. EntryHit(D, dirents', InoRange')
      BY <1>6, <2>1, <3>2
    <3> QED BY <1>2, <1>4, <3>1, <3>3 DEF Links
  <2>4. CASE DamageTable
    <3>1. damage' = "table" /\ UNCHANGED <<dirents, resolver, super>>
      BY <2>4 DEF DamageTable, Hit
    <3>2. PICK t : t = Rows
      OBVIOUS
    <3>3. TableHit(t)'
      BY <1>2, <2>1, <2>4, <3>2 DEF DamageTable, TableHit
    <3>4. TableHit(t)' <=> TableHit(Rows)'
      BY <1>4, <3>2 DEF TableHit
    <3> QED BY <1>2, <1>4, <1>6, <3>1, <3>3, <3>4 DEF Links
  <2>5. CASE DamageResolver
    <3>1. damage' = "resolver" /\ UNCHANGED <<dirents, fpt, super>>
      BY <2>5 DEF DamageResolver, Hit
    <3>2. PICK t : t = Blob
      OBVIOUS
    <3>3. ResolverHit(t)'
      BY <1>2, <2>1, <2>5, <3>2 DEF DamageResolver, ResolverHit
    <3>4. ResolverHit(t)' <=> ResolverHit(Blob)'
      BY <1>4, <3>2 DEF ResolverHit
    <3> QED BY <1>2, <1>4, <1>6, <3>1, <3>3, <3>4 DEF Links
  <2>6. CASE DamageSuper
    <3>1. damage' = "super" /\ UNCHANGED <<dirents, fpt, resolver>>
      BY <2>6 DEF DamageSuper, Hit
    <3>2. PICK t : t = SuperEntries
      OBVIOUS
    <3>3. SuperHit(t)'
      BY <1>2, <2>1, <2>6, <3>2 DEF DamageSuper, SuperHit
    <3>4. SuperHit(t)' <=> SuperHit(SuperEntries)'
      BY <1>4, <3>2 DEF SuperHit
    <3> QED BY <1>2, <1>4, <1>6, <3>1, <3>3, <3>4 DEF Links
  <2> QED BY <2>2, <2>3, <2>4, <2>5, <2>6 DEF Store
<1>9. badFile' \in packed' \cup {Root}
  BY <1>1 DEF Store
<1>10. damage' # "none" => mode' = "unpack"
  BY DEF Store, Undamaged, DamageEntry, DamageTable, DamageResolver, DamageSuper, Hit
<1> QED BY <1>1, <1>3, <1>5, <1>7, <1>8, <1>9, <1>10 DEF ImageInv, Complete

LEMMA Building ==
  ASSUME ImageInv, Build
  PROVE  ImageInv'
<1>3. ASSUME NEW unreadable, Scan(unreadable)
      PROVE  ImageInv'
  <2>1. /\ stage = "scan" /\ stage' \in {"refused", "number"} /\ UNCHANGED <<source, hash>>
        /\ packed' = Visible(unreadable)
    BY <1>3 DEF Scan
  <2>2. Visible(unreadable) \subseteq Visible({})
    BY DEF Visible
  <2>3. ScanSound'
    BY <2>1, <2>2 DEF ImageInv, ScanSound, Visible
  <2> QED BY <2>1, <2>3 DEF ImageInv, Complete
<1>4. CASE Number
  <2>1. stage = "number" /\ stage' = "link"
    BY <1>4 DEF Number
  <2>2. ScanSound' /\ IndexSound(FALSE)'
    BY <1>4, Numbering DEF ImageInv
  <2> QED BY <2>1, <2>2 DEF ImageInv, Complete
<1>5. CASE Link
  <2>1. stage = "link" /\ stage' = "collide"
    BY <1>5 DEF Link
  <2>2. TreeSound(dirents)' /\ UNCHANGED <<source, hash, packed, order, number>>
    BY <1>5, Linking DEF ImageInv
  <2>3. ScanSound'
    BY <2>2 DEF ScanSound, Visible, ImageInv
  <2>4. IndexSound(FALSE)'
    <3>1. IndexSound(FALSE) /\ PathNodes' = PathNodes
      BY <2>1, <2>2 DEF ImageInv, PathNodes, PackedDirs
    <3> QED BY <2>2, <3>1 DEF IndexSound
  <2> QED BY <2>1, <2>2, <2>3, <2>4 DEF ImageInv, Complete
<1>6. CASE Collide
  <2>1. stage = "collide" /\ stage' = "table"
    BY <1>6 DEF Collide
  <2>2. /\ UNCHANGED <<source, hash, packed>>
        /\ IndexSound(Collision)' /\ TreeSound(dirents)'
    BY <1>6, <2>1, Colliding DEF ImageInv
  <2>3. ScanSound'
    BY <2>2 DEF ScanSound, Visible, ImageInv
  <2> QED BY <2>1, <2>2, <2>3 DEF ImageInv, Complete
<1>7. CASE Table
  <2>1. /\ stage = "table" /\ stage' = "image"
        /\ UNCHANGED <<source, hash, packed, order, number, dirents>>
        /\ fpt' = Rows /\ resolver' = Blob /\ super' = SuperEntries
    BY <1>7 DEF Table
  <2>2. /\ Rows' = Rows /\ Blob' = Blob /\ SuperEntries' = SuperEntries
        /\ Collision' = Collision /\ PathNodes' = PathNodes
    BY <2>1, TablesStay
  <2>3. ScanSound'
    BY <2>1 DEF ScanSound, Visible, ImageInv
  <2>4. IndexSound(Collision)'
    BY <2>1, <2>2 DEF ImageInv, IndexSound
  <2>5. PICK D : D = dirents
    OBVIOUS
  <2>6. TreeSound(D)'
    BY <2>1, <2>5, TreeStays DEF ImageInv
  <2>7. TreeSound(dirents)'
    BY <2>1, <2>5, <2>6 DEF TreeSound
  <2> QED BY <2>1, <2>2, <2>3, <2>4, <2>7 DEF ImageInv, Complete
<1> QED BY <1>3, <1>4, <1>5, <1>6, <1>7 DEF Build

(* The steps after the image was stored.                                   *)
Looking ==
  \/ ParseIndexes \/ WalkBad \/ WalkFile \/ WalkDir \/ WalkUp \/ FinishInspection
  \/ Plan \/ MakeDirs \/ OpenTarget \/ WriteTarget \/ FinishExtraction

LEMMA LooksOnly ==
  ASSUME Looking
  PROVE  UNCHANGED <<buildVars, damage, badFile, mode>> /\ Complete /\ Complete'
<1>1. CASE ParseIndexes
  BY <1>1 DEF ParseIndexes, Complete
<1>2. CASE WalkBad \/ WalkFile \/ WalkDir \/ WalkUp
  BY <1>2 DEF WalkBad, WalkFile, WalkDir, WalkUp, Walking, Complete
<1>3. CASE FinishInspection
  BY <1>3 DEF FinishInspection, Complete
<1>4. CASE Plan \/ MakeDirs
  BY <1>4 DEF Plan, MakeDirs, Complete, foundVars
<1>5. CASE OpenTarget \/ WriteTarget \/ FinishExtraction
  BY <1>5 DEF OpenTarget, WriteTarget, FinishExtraction, Complete, foundVars, inspectVars
<1> QED BY <1>1, <1>2, <1>3, <1>4, <1>5 DEF Looking

LEMMA ImageStep == ImageInv /\ [Next]_vars => ImageInv'
<1> SUFFICES ASSUME ImageInv, [Next]_vars PROVE ImageInv'
  OBVIOUS
<1>1. CASE Looking
  BY <1>1, LooksOnly, ImageRests
<1>2. CASE UNCHANGED vars
  <2>1. UNCHANGED <<buildVars, damage, badFile, mode, stage>>
    BY <1>2 DEF vars, inspectVars, foundVars
  <2>2. CASE Complete
    <3>1. Complete'
      BY <2>1, <2>2 DEF Complete
    <3> QED BY <2>1, <2>2, <3>1, ImageRests
  <2>3. CASE ~Complete
    <3>1. UNCHANGED <<source, hash, packed, order, number, dirents, fpt, resolver, super>>
      BY <2>1 DEF buildVars
    <3>2. ScanSound'
      BY <3>1 DEF ScanSound, Visible, ImageInv
    <3>3. /\ Rows' = Rows /\ Blob' = Blob /\ SuperEntries' = SuperEntries
          /\ Collision' = Collision /\ PathNodes' = PathNodes /\ PackedDirs' = PackedDirs
      BY <3>1, TablesStay
    <3>4. PICK D : D = dirents
      OBVIOUS
    <3>5. TreeSound(dirents) => TreeSound(dirents)'
      <4>1. TreeSound(D) => TreeSound(D)'
        BY <3>1, TreeStays
      <4> QED BY <3>1, <3>4, <4>1 DEF TreeSound
    <3>6. (IndexSound(FALSE) => IndexSound(FALSE)') /\ (IndexSound(Collision) => IndexSound(Collision)')
      BY <3>1, <3>3 DEF IndexSound
    <3> QED BY <2>1, <2>3, <3>1, <3>2, <3>3, <3>5, <3>6 DEF ImageInv, Complete
  <2> QED BY <2>2, <2>3
<1>3. CASE Build
  BY <1>3, Building
<1>4. CASE Store
  BY <1>4, Storing
<1> QED BY <1>1, <1>2, <1>3, <1>4 DEF Next, Looking

-----------------------------------------------------------------------------
(* The walk                                                                *)

IsSeq(s) == \E T : s \in Seq(T)

(* u is s with x on top.                                                   *)
OnTop(u, x, s) ==
  /\ IsSeq(u) /\ IsSeq(s) /\ Len(s) \in Nat /\ Len(u) = Len(s) + 1
  /\ u[1] = x
  /\ \A k \in 1..Len(s) : u[k + 1] = s[k]
  /\ \A k \in 2..Len(u) : k - 1 \in 1..Len(s) /\ u[k] = s[k - 1]

LEMMA Pushed ==
  ASSUME NEW s, IsSeq(s), NEW x
  PROVE  OnTop(<<x>> \o s, x, s)
<1>1. PICK T : s \in Seq(T)
  BY DEF IsSeq
<1> DEFINE U == T \cup {x}
<1>2. s \in Seq(U) /\ <<x>> \in Seq(U) /\ Len(<<x>>) = 1 /\ <<x>>[1] = x
  <2>1. s \in Seq(U)
    BY <1>1, SeqMonotonic
  <2> QED BY <2>1
<1> HIDE DEF U
<1>3. PICK a : a = <<x>>
  OBVIOUS
<1>4. PICK u : u = a \o s
  OBVIOUS
<1>5. PICK n \in Nat : n = Len(s)
  BY <1>2, LenProperties
<1>6. u \in Seq(U) /\ Len(u) = 1 + n
      /\ \A k \in 1..(1 + n) : u[k] = IF k <= 1 THEN a[k] ELSE s[k - 1]
  BY <1>2, <1>3, <1>4, <1>5, ConcatProperties
<1>7. u[1] = x
  <2>1. 1 \in 1..(1 + n)
    OBVIOUS
  <2> QED BY <1>2, <1>3, <1>6, <2>1
<1>8. \A k \in 1..n : u[k + 1] = s[k]
  <2> TAKE k \in 1..n
  <2>1. k + 1 \in 1..(1 + n) /\ ~(k + 1 <= 1) /\ (k + 1) - 1 = k
    OBVIOUS
  <2> QED BY <1>6, <2>1
<1>9. \A k \in 2..(n + 1) : k - 1 \in 1..n /\ u[k] = s[k - 1]
  <2> TAKE k \in 2..(n + 1)
  <2>1. k \in 1..(1 + n) /\ ~(k <= 1)
    OBVIOUS
  <2> QED BY <1>6, <2>1
<1> QED BY <1>2, <1>3, <1>4, <1>5, <1>6, <1>7, <1>8, <1>9 DEF OnTop, IsSeq

LEMMA Popped ==
  ASSUME NEW s, IsSeq(s), s # <<>>
  PROVE  OnTop(s, Head(s), Tail(s)) /\ IsSeq(Tail(s))
<1>1. PICK T : s \in Seq(T)
  BY DEF IsSeq
<1>2. PICK n \in Nat \ {0} : n = Len(s)
  BY <1>1, LenProperties, EmptySeq
<1>3. PICK t : t = Tail(s)
  OBVIOUS
<1>4. /\ t \in Seq(T) /\ Len(t) = n - 1 /\ \A k \in 1..(n - 1) : t[k] = s[k + 1]
      /\ Head(s) = s[1]
  BY <1>1, <1>2, <1>3, HeadTailProperties
<1>5. \A k \in 2..n : k - 1 \in 1..(n - 1) /\ s[k] = t[k - 1]
  <2> TAKE k \in 2..n
  <2>1. k - 1 \in 1..(n - 1) /\ (k - 1) + 1 = k
    OBVIOUS
  <2> QED BY <1>4, <2>1
<1>6. n - 1 \in Nat /\ n = (n - 1) + 1
  OBVIOUS
<1> QED BY <1>1, <1>2, <1>3, <1>4, <1>5, <1>6 DEF OnTop, IsSeq

(* What the walk goes by does not change.                                  *)
LEMMA SeenSame ==
  ASSUME UNCHANGED buildVars
  PROVE  /\ \A i : InRange(i)' = InRange(i) /\ IsDir(i)' = IsDir(i) /\ Object(i)' = Object(i)
         /\ \A i : Payload(i)' = Payload(i) /\ Listed(i)' = Listed(i)
         /\ \A i, p : DotErrors(i, p)' = DotErrors(i, p)
         /\ \A x : Special(x)' = Special(x)
         /\ IndexErrors' = IndexErrors
<1> USE DEF buildVars
<1>1. \A i : InRange(i)' = InRange(i) /\ IsDir(i)' = IsDir(i) /\ Object(i)' = Object(i)
  BY DEF InRange, IsDir, Object
<1>2. \A i : Payload(i)' = Payload(i)
  BY <1>1 DEF Payload
<1>3. \A i : Listed(i)' = Listed(i)
  BY <1>2 DEF Listed
<1>4. \A i, x : Named(i, x)' = Named(i, x)
  BY <1>2 DEF Named
<1>5. \A i, x, j, t : Wrong(i, x, j, t)' = Wrong(i, x, j, t)
  BY <1>2, <1>4 DEF Wrong
<1>6. \A i, p : DotErrors(i, p)' = DotErrors(i, p)
  BY <1>4, <1>5 DEF DotErrors
<1>7. \A x : Special(x)' = Special(x)
  BY DEF Special
<1>8. TableSeq' = TableSeq
  BY <1>7 DEF TableSeq
<1>9. FptMap' = FptMap /\ Groups' = Groups
  BY <1>8 DEF FptMap, Groups
<1>10. BlobLen' = BlobLen /\ ResolverRead' = ResolverRead
  BY <1>1, <1>7 DEF BlobLen, ResolverRead
<1>11. IndexErrors' = IndexErrors
  <2>1. /\ Special(Fpt)' = Special(Fpt) /\ Special(Root)' = Special(Root)
        /\ Special(Resolver)' = Special(Resolver)
    BY <1>7
  <2>2. PICK t, m, g, b, r : t = TableSeq /\ m = FptMap /\ g = Groups /\ b = BlobLen /\ r = ResolverRead
    OBVIOUS
  <2>3. TableSeq' = t /\ FptMap' = m /\ Groups' = g /\ BlobLen' = b /\ ResolverRead' = r
    BY <1>8, <1>9, <1>10, <2>2
  <2> QED BY <2>1, <2>2, <2>3 DEF IndexErrors
<1> QED BY <1>1, <1>2, <1>3, <1>6, <1>7, <1>11

(* A function on 1..n is a sequence of length n.                           *)
LEMMA Sequential ==
  ASSUME NEW n \in Nat, NEW F, F = [j \in 1..n |-> F[j]]
  PROVE  IsSeq(F) /\ Len(F) = n /\ DOMAIN F = 1..n
<1> DEFINE T == {F[j] : j \in 1..n}
<1>1. F \in [1..n -> T]
  OBVIOUS
<1>2. F \in Seq(T)
  BY <1>1
<1>3. DOMAIN F = 1..n
  BY <1>1
<1>4. Len(F) = n
  <2>1. Len(F) \in Nat /\ DOMAIN F = 1..Len(F)
    BY <1>2, LenProperties
  <2> QED BY <1>3, <2>1
<1> QED BY <1>2, <1>3, <1>4 DEF IsSeq

(* How the entries E of the damaged directory became F.                    *)
ListHit(E, F, k, inos) ==
  \/ F = Without(E, k)
  \/ F = Doubled(E, k)
  \/ \E i \in inos \ {E[k].ino} : F = [E EXCEPT ![k] = [E[k] EXCEPT !.ino = i]]
  \/ \E t \in {"dir", "file", "dot", "dotdot", "none"} \ {E[k].type} :
       F = [E EXCEPT ![k] = [E[k] EXCEPT !.type = t]]

HitAt(D, d, k) ==
  /\ d \in PackedDirs \cup {Root} /\ k \in 1..Len(D[d])
  /\ DOMAIN dirents = PackedDirs \cup {Root}
  /\ \A e \in PackedDirs \cup {Root} : e # d => dirents[e] = D[e]
  /\ ListHit(D[d], dirents[d], k, InoRange)

LEMMA WhereHit ==
  ASSUME NEW D, TreeSound(D), EntryHit(D, dirents, InoRange)
  PROVE  \E d, k : HitAt(D, d, k)
<1>1. DOMAIN D = PackedDirs \cup {Root}
  BY DEF TreeSound
<1>1a. PICK d \in DOMAIN D : \E k \in 1..Len(D[d]) :
    \/ dirents = [D EXCEPT ![d] = Without(@, k)]
    \/ dirents = [D EXCEPT ![d] = Doubled(@, k)]
    \/ \E i \in InoRange \ {D[d][k].ino} : dirents = [D EXCEPT ![d][k].ino = i]
    \/ \E t \in {"dir", "file", "dot", "dotdot", "none"} \ {D[d][k].type} :
         dirents = [D EXCEPT ![d][k].type = t]
  BY Zenon DEF EntryHit
<1>2. PICK k \in 1..Len(D[d]) :
    \/ dirents = [D EXCEPT ![d] = Without(@, k)]
    \/ dirents = [D EXCEPT ![d] = Doubled(@, k)]
    \/ \E i \in InoRange \ {D[d][k].ino} : dirents = [D EXCEPT ![d][k].ino = i]
    \/ \E t \in {"dir", "file", "dot", "dotdot", "none"} \ {D[d][k].type} :
         dirents = [D EXCEPT ![d][k].type = t]
  BY <1>1a
<1>3. ASSUME NEW F, dirents = [D EXCEPT ![d] = F]
      PROVE  /\ DOMAIN dirents = PackedDirs \cup {Root} /\ dirents[d] = F
             /\ \A e \in PackedDirs \cup {Root} : e # d => dirents[e] = D[e]
  BY <1>1, <1>3
<1>4. CASE dirents = [D EXCEPT ![d] = Without(@, k)]
  <2>1. ListHit(D[d], dirents[d], k, InoRange)
    BY <1>3, <1>4 DEF ListHit
  <2> QED BY <1>1, <1>3, <1>4, <2>1 DEF HitAt
<1>5. CASE dirents = [D EXCEPT ![d] = Doubled(@, k)]
  <2>1. ListHit(D[d], dirents[d], k, InoRange)
    BY <1>3, <1>5 DEF ListHit
  <2> QED BY <1>1, <1>3, <1>5, <2>1 DEF HitAt
<1>6. CASE \E i \in InoRange \ {D[d][k].ino} : dirents = [D EXCEPT ![d][k].ino = i]
  <2>1. PICK i \in InoRange \ {D[d][k].ino} : dirents = [D EXCEPT ![d][k].ino = i]
    BY <1>6
  <2>2. dirents = [D EXCEPT ![d] = [D[d] EXCEPT ![k] = [D[d][k] EXCEPT !.ino = i]]]
    BY <2>1
  <2>3. ListHit(D[d], dirents[d], k, InoRange)
    BY <1>3, <2>2 DEF ListHit
  <2> QED BY <1>1, <1>3, <2>2, <2>3 DEF HitAt
<1>7. CASE \E t \in {"dir", "file", "dot", "dotdot", "none"} \ {D[d][k].type} :
             dirents = [D EXCEPT ![d][k].type = t]
  <2>1. PICK t \in {"dir", "file", "dot", "dotdot", "none"} \ {D[d][k].type} :
             dirents = [D EXCEPT ![d][k].type = t]
    BY <1>7
  <2>2. dirents = [D EXCEPT ![d] = [D[d] EXCEPT ![k] = [D[d][k] EXCEPT !.type = t]]]
    BY <2>1
  <2>3. ListHit(D[d], dirents[d], k, InoRange)
    BY <1>3, <2>2 DEF ListHit
  <2> QED BY <1>1, <1>3, <2>2, <2>3 DEF HitAt
<1> QED BY <1>2, <1>4, <1>5, <1>6, <1>7

(* A list that was hit is a list.                                          *)
LEMMA HitLength ==
  ASSUME NEW n \in Nat, NEW E, Len(E) = n, DOMAIN E = 1..n, NEW k \in 1..n, NEW F,
         \/ F = Without(E, k) \/ F = Doubled(E, k)
         \/ \E e : F = [E EXCEPT ![k] = e]
  PROVE  Len(F) \in Nat /\ DOMAIN F = 1..Len(F)
<1>1. CASE F = Without(E, k)
  <2>1. F = [j \in 1..(n - 1) |-> F[j]] /\ n - 1 \in Nat
    BY <1>1 DEF Without
  <2> QED BY <2>1, Sequential
<1>2. CASE F = Doubled(E, k)
  <2>1. F = [j \in 1..(n + 1) |-> F[j]] /\ n + 1 \in Nat
    BY <1>2 DEF Doubled
  <2> QED BY <2>1, Sequential
<1>3. CASE \E e : F = [E EXCEPT ![k] = e]
  <2>1. F = [j \in 1..n |-> F[j]]
    BY <1>3
  <2> QED BY <2>1, Sequential
<1> QED BY <1>1, <1>2, <1>3

LEMMA ListHitLength ==
  ASSUME NEW E, Len(E) \in Nat, DOMAIN E = 1..Len(E), NEW k \in 1..Len(E), NEW F, NEW inos,
         ListHit(E, F, k, inos)
  PROVE  Len(F) \in Nat /\ DOMAIN F = 1..Len(F)
<1>1. PICK n \in Nat : n = Len(E)
  BY Zenon
<1>2. \/ F = Without(E, k) \/ F = Doubled(E, k)
      \/ \E e : F = [E EXCEPT ![k] = e]
  BY DEF ListHit
<1> QED BY <1>1, <1>2, HitLength

(* The super-root, entry by entry.                                         *)
LEMMA SuperAre ==
  /\ Collision => /\ Len(SuperEntries) = 3
                  /\ SuperEntries[1] = Ent(number[Fpt], "file", Fpt)
                  /\ SuperEntries[2] = Ent(number[Resolver], "file", Resolver)
                  /\ SuperEntries[3] = Ent(number[Root], "dir", Root)
  /\ ~Collision => /\ Len(SuperEntries) = 2
                   /\ SuperEntries[1] = Ent(number[Fpt], "file", Fpt)
                   /\ SuperEntries[2] = Ent(number[Root], "dir", Root)
  /\ Len(SuperEntries) \in Nat /\ DOMAIN SuperEntries = 1..Len(SuperEntries)
<1>1. CASE Collision
  <2>1. SuperEntries = <<Ent(number[Fpt], "file", Fpt)>> \o <<Ent(number[Resolver], "file", Resolver)>>
                         \o <<Ent(number[Root], "dir", Root)>>
    BY <1>1 DEF SuperEntries
  <2> QED BY <1>1, <2>1
<1>2. CASE ~Collision
  <2>1. SuperEntries = <<Ent(number[Fpt], "file", Fpt)>> \o <<>> \o <<Ent(number[Root], "dir", Root)>>
    BY <1>2 DEF SuperEntries
  <2> QED BY <1>2, <2>1
<1> QED BY <1>1, <1>2

LEMMA SuperLength ==
  ASSUME SuperHit(SuperEntries) \/ super = SuperEntries
  PROVE  Len(super) \in Nat /\ DOMAIN super = 1..Len(super)
<1>1. PICK s : s = SuperEntries
  OBVIOUS
<1>2. Len(s) \in Nat /\ DOMAIN s = 1..Len(s)
  BY <1>1, SuperAre
<1>3. CASE super = s
  BY <1>2, <1>3
<1>4. CASE SuperHit(s)
  <2>1. PICK k \in 1..Len(s) : super = Without(s, k) \/ \E i : super = [s EXCEPT ![k].ino = i]
    BY <1>4 DEF SuperHit
  <2>2. super = Without(s, k) \/ \E e : super = [s EXCEPT ![k] = e]
    <3>1. ASSUME NEW i, super = [s EXCEPT ![k].ino = i]
          PROVE  super = [s EXCEPT ![k] = [s[k] EXCEPT !.ino = i]]
      BY <3>1, Zenon
    <3> QED BY <2>1, <3>1
  <2>3. PICK n \in Nat : n = Len(s)
    BY <1>2
  <2> QED BY <1>2, <2>1, <2>2, <2>3, HitLength
<1> QED BY <1>1, <1>3, <1>4

(* Inodes and their numbers correspond.                                    *)
LEMMA Placed ==
  ASSUME NEW has, IndexSound(has)
  PROVE  /\ \A i : InRange(i) => Object(i) \in DOMAIN number /\ number[Object(i)] = i /\ i \in Nat
         /\ \A o \in DOMAIN number : InRange(number[o]) /\ Object(number[o]) = o
         /\ \A o, p \in DOMAIN number : number[o] = number[p] => o = p
<1>1. PICK n \in Nat : n = Len(order)
  BY DEF IndexSound
<1>2. /\ \A k \in 1..n : order[k] \in DOMAIN number
      /\ \A o \in DOMAIN number : number[o] \in 0..(n - 1) /\ order[number[o] + 1] = o
      /\ \A j, k \in 1..n : order[j] = order[k] => j = k
  BY <1>1 DEF IndexSound
<1>3. ASSUME NEW i, InRange(i)
      PROVE  Object(i) \in DOMAIN number /\ number[Object(i)] = i /\ i \in Nat
  <2>1. i \in 0..(n - 1) /\ i + 1 \in 1..n
    BY <1>1, <1>3 DEF InRange
  <2>2. PICK o : o = order[i + 1] /\ o \in DOMAIN number
    BY <1>2, <2>1
  <2>3. number[o] \in 0..(n - 1) /\ number[o] + 1 \in 1..n /\ order[number[o] + 1] = order[i + 1]
    BY <1>2, <2>2
  <2>4. number[o] + 1 = i + 1
    BY <1>2, <2>1, <2>3
  <2> QED BY <2>1, <2>2, <2>3, <2>4 DEF Object
<1>4. \A o \in DOMAIN number : InRange(number[o]) /\ Object(number[o]) = o
  BY <1>1, <1>2 DEF InRange, Object
<1>5. \A o, p \in DOMAIN number : number[o] = number[p] => o = p
  BY <1>2
<1> QED BY <1>3, <1>4, <1>5

(* Numbers of the inodes that are not nodes.                               *)
LEMMA Reserved ==
  ASSUME ScanSound, NEW has, IndexSound(has)
  PROVE  /\ Super \in DOMAIN number /\ Fpt \in DOMAIN number /\ Root \in DOMAIN number
         /\ number[Super] = 0 /\ number[Fpt] = 1
         /\ (has <=> Resolver \in DOMAIN number)
         /\ PathNodes \subseteq DOMAIN number
         /\ \A o \in DOMAIN number : o \in PathNodes \/ o \in {Super, Fpt, Root, Resolver}
         /\ \A c \in PathNodes : c \in Nodes /\ c \notin {Super, Fpt, Root, Resolver, Dot, DotDot}
<1>1. DOMAIN number = {Super, Fpt, Root} \cup PathNodes \cup (IF has THEN {Resolver} ELSE {})
  BY DEF IndexSound
<1>2. \A c \in PathNodes : c \in Nodes /\ c \notin {Super, Fpt, Root, Resolver, Dot, DotDot}
  BY NodesPacked, PlacesFacts DEF Super, Fpt, Root, Resolver, Dot, DotDot
<1>3. Object(0) = Super /\ Object(1) = Fpt /\ InRange(0) /\ InRange(1)
  BY DEF Object, InRange, IndexSound
<1>4. number[Super] = 0 /\ number[Fpt] = 1
  BY <1>3, Placed
<1>5. Resolver \notin {Super, Fpt, Root}
  BY DEF Super, Fpt, Root, Resolver
<1> QED BY <1>1, <1>2, <1>4, <1>5

LEMMA PayloadsAre ==
  ASSUME ImageInv, Complete, NEW i, InRange(i), IsDir(i)
  PROVE  /\ Object(i) = Super \/ Object(i) \in PackedDirs \cup {Root}
         /\ Object(i) \in DOMAIN number /\ number[Object(i)] = i
         /\ Len(Payload(i)) \in Nat
<1>1. ScanSound /\ IndexSound(Collision)
  BY DEF ImageInv
<1>2. PICK o : o = Object(i) /\ o \in DOMAIN number /\ number[o] = i
  BY <1>1, Placed
<1>3. o = Super \/ o \in PackedDirs \cup {Root}
  <2>1. o \in Dirs \cup {Root, Super}
    BY <1>2 DEF IsDir
  <2>2. ~(Fpt \in Dirs) /\ ~(Resolver \in Dirs)
    BY PlacesFacts DEF Nodes, Fpt, Resolver
  <2>3. Fpt \notin {Root, Super} /\ Resolver \notin {Root, Super}
    BY DEF Fpt, Root, Super, Resolver
  <2>4. packed \cap Dirs = {}
    BY <1>1, NodesPacked, TreeAssumption
  <2>5. o \in PathNodes \/ o \in {Super, Fpt, Root, Resolver}
    BY <1>1, <1>2, Reserved
  <2> QED BY <2>1, <2>2, <2>3, <2>4, <2>5 DEF PathNodes
<1>4. PICK D : TreeSound(D) /\ Links(D)
  BY DEF ImageInv
<1>5. CASE o = Super
  <2>1. Payload(i) = super
    BY <1>2, <1>5 DEF Payload
  <2>2. SuperHit(SuperEntries) \/ super = SuperEntries
    BY <1>4 DEF Links
  <2> QED BY <1>2, <1>3, <2>1, <2>2, SuperLength
<1>6. CASE o # Super
  <2>1. Payload(i) = dirents[o] /\ o \in PackedDirs \cup {Root}
    BY <1>2, <1>3, <1>6 DEF Payload
  <2>2. \A e \in PackedDirs \cup {Root} : Len(D[e]) \in Nat /\ DOMAIN D[e] = 1..Len(D[e])
    BY <1>4 DEF TreeSound, DirSound
  <2>3. CASE dirents = D
    BY <1>2, <1>3, <2>1, <2>2, <2>3
  <2>4. CASE EntryHit(D, dirents, InoRange)
    <3>1. PICK d, k : HitAt(D, d, k)
      BY <1>4, <2>4, WhereHit
    <3>2. /\ d \in PackedDirs \cup {Root} /\ k \in 1..Len(D[d])
          /\ \A e \in PackedDirs \cup {Root} : e # d => dirents[e] = D[e]
          /\ ListHit(D[d], dirents[d], k, InoRange)
      BY <3>1 DEF HitAt
    <3>3. Len(dirents[d]) \in Nat
      BY <2>2, <3>2, ListHitLength
    <3> QED BY <1>2, <1>3, <2>1, <2>2, <3>2, <3>3
  <2> QED BY <1>4, <2>3, <2>4 DEF Links
<1> QED BY <1>5, <1>6

(* L is what the list P holds apart from the entries of a directory's own. *)
ListsOf(L, P) ==
  /\ Len(L) \in Nat
  /\ \A k \in 1..Len(L) : \E j \in 1..Len(P) : L[k] = P[j] /\ P[j].name \notin {Dot, DotDot}
  /\ \A j \in 1..Len(P) : P[j].name \notin {Dot, DotDot} => \E k \in 1..Len(L) : L[k] = P[j]

LEMMA ListedAre ==
  ASSUME NEW i, Len(Payload(i)) \in Nat
  PROVE  /\ ListsOf(Listed(i), Payload(i))
         /\ \A j, k \in 1..Len(Payload(i)) :
              /\ j < k /\ Payload(i)[j].name = Payload(i)[k].name
              /\ Payload(i)[j].name \notin {Dot, DotDot}
              => \E x, y \in 1..Len(Listed(i)) :
                   x < y /\ Listed(i)[x] = Payload(i)[j] /\ Listed(i)[y] = Payload(i)[k]
         /\ (\A j, k \in 1..Len(Payload(i)) :
               /\ Payload(i)[j].name = Payload(i)[k].name
               /\ Payload(i)[j].name \notin {Dot, DotDot}
               => j = k)
            => \A x, y \in 1..Len(Listed(i)) : Listed(i)[x].name = Listed(i)[y].name => x = y
<1>1. PICK P : P = Payload(i)
  OBVIOUS
<1>2. PICK n \in Nat : n = Len(P)
  BY <1>1
<1> DEFINE S == {k \in 1..n : P[k].name \notin {Dot, DotDot}}
<1>3. PICK at : at = InOrder(S)
  OBVIOUS
<1>4. S \subseteq Nat /\ IsFiniteSet(S)
  <2>1. IsFiniteSet(1..n)
    BY FS_Interval
  <2>2. S \in SUBSET (1..n) /\ S \subseteq Nat
    OBVIOUS
  <2> HIDE DEF S
  <2> QED BY <2>1, <2>2, FS_Subset
<1>5. /\ at \in Seq(S)
      /\ \A j, k \in 1..Len(at) : j < k => at[j] < at[k]
      /\ \A e \in S : \E k \in 1..Len(at) : at[k] = e
  <2> HIDE DEF S
  <2> QED BY <1>3, <1>4, InOrderSorts
<1>6. PICK m \in Nat : m = Len(at)
  BY <1>5, LenProperties
<1>7. PICK L : L = [j \in 1..m |-> P[at[j]]]
  OBVIOUS
<1>8. Listed(i) = L
  BY <1>1, <1>2, <1>3, <1>6, <1>7 DEF Listed
<1>9. Len(L) = m
  BY <1>7
<1>10. \A k \in 1..m : at[k] \in S
  <2> HIDE DEF S
  <2> QED BY <1>5, <1>6, ElementOfSeq
<1>11. ListsOf(L, P)
  <2>1. \A k \in 1..m : \E j \in 1..n : L[k] = P[j] /\ P[j].name \notin {Dot, DotDot}
    BY <1>7, <1>10
  <2>2. \A j \in 1..n : P[j].name \notin {Dot, DotDot} => \E k \in 1..m : L[k] = P[j]
    BY <1>5, <1>6, <1>7
  <2> QED BY <1>2, <1>6, <1>9, <2>1, <2>2 DEF ListsOf
<1>12. ASSUME NEW j \in 1..n, NEW k \in 1..n, j < k, P[j].name = P[k].name, P[j].name \notin {Dot, DotDot}
       PROVE  \E x, y \in 1..m : x < y /\ L[x] = P[j] /\ L[y] = P[k]
  <2>1. j \in S /\ k \in S
    BY <1>12
  <2>2. PICK x \in 1..m : at[x] = j
    BY <1>5, <1>6, <2>1
  <2>3. PICK y \in 1..m : at[y] = k
    BY <1>5, <1>6, <2>1
  <2>4. x < y
    <3>1. x # y
      BY <1>12, <2>2, <2>3
    <3>2. y < x => at[y] < at[x]
      BY <1>5, <1>6
    <3>3. ~(at[y] < at[x])
      BY <1>12, <2>2, <2>3
    <3> QED BY <3>1, <3>2, <3>3
  <2> QED BY <1>7, <2>2, <2>3, <2>4
<1>13. ASSUME \A j, k \in 1..n : /\ P[j].name = P[k].name /\ P[j].name \notin {Dot, DotDot}
                                 => j = k,
              NEW x \in 1..m, NEW y \in 1..m, L[x].name = L[y].name
       PROVE  x = y
  <2>1. at[x] \in S /\ at[y] \in S /\ L[x] = P[at[x]] /\ L[y] = P[at[y]]
    BY <1>7, <1>10
  <2>2. at[x] = at[y]
    BY <1>13, <2>1
  <2>3. (x < y => at[x] < at[y]) /\ (y < x => at[y] < at[x])
    BY <1>5, <1>6
  <2>4. at[x] \in Nat
    BY <2>1
  <2> QED BY <2>2, <2>3, <2>4
<1> QED BY <1>1, <1>2, <1>8, <1>9, <1>11, <1>12, <1>13

Started == stage \in {"walk", "inspected", "dirs", "files", "ended", "raised"}

Frame(i, p, n) == [ino |-> i, path |-> p, entries |-> Listed(i), next |-> n]

(* The directory up has an entry of this type for i.                       *)
Child(up, i, type) ==
  \E k \in 1..Len(Listed(up)) : Listed(up)[k].ino = i /\ Listed(up)[k].type = type

(* What walk() asks of the k-th entry of i before it goes on with it.      *)
EntryFine(i, k) ==
  LET e == Listed(i)[k]
  IN  /\ \A j \in 1..(k - 1) : Listed(i)[j].name # e.name
      /\ InRange(e.ino) /\ e.type \in {"dir", "file"} /\ ((e.type = "dir") = IsDir(e.ino))

(* The walk so far: its frames s, the inodes V it entered, the files F and *)
(* directories G it found.                                                 *)
FramesOk(s, V) ==
  \A j \in 1..Len(s) : \E i \in V : \E p : \E n \in Nat \ {0} : s[j] = Frame(i, p, n)

Entered(V) ==
  \A i \in V :
    /\ InRange(i) /\ IsDir(i)
    /\ \E up \in V : /\ DotErrors(i, up) = {}
                     /\ (i = Special(Root) /\ up = i) \/ Child(up, i, "dir")

FilesLinked(F, V) ==
  \A p \in DOMAIN F : /\ InRange(F[p]) /\ ~IsDir(F[p])
                      /\ \E up \in V : Child(up, F[p], "file")

EntriesFine(s, V) ==
  \A i \in V : \A k \in 1..Len(Listed(i)) :
    EntryFine(i, k) \/ \E j \in 1..Len(s) : s[j].ino = i /\ s[j].next <= k

WalkedWith(s, V, F, G) ==
  /\ IndexErrors = {}
  /\ FramesOk(s, V) /\ Entered(V) /\ FilesLinked(F, V) /\ EntriesFine(s, V)
  /\ \A p \in DOMAIN G : G[p] \in V
  /\ V # {} => Special(Root) \in V /\ DotErrors(Special(Root), Special(Root)) = {}

(* An inspection has compared the walk with the rest.                      *)
Finished ==
  /\ stack = <<>> /\ MapErrors = {}
  /\ \A i : InRange(i) => i \in Reachable
  /\ mode # "unpack" =>
       /\ {PathOf[f] : f \in compared} = DOMAIN fileIno
       /\ badFile # Root => \A p \in DOMAIN fileIno : Object(fileIno[p]) # badFile

WalkInv ==
  /\ IsSeq(stack)
  /\ ~Started => errors = {} /\ visited = {} /\ stack = <<>> /\ DOMAIN fileIno = {}
  /\ Started /\ errors = {} => visited # {} /\ WalkedWith(stack, visited, fileIno, dirIno)
  /\ Inspected /\ errors = {} => Finished

LEMMA WalkedSame ==
  ASSUME UNCHANGED buildVars, NEW s, NEW V, NEW F, NEW G, WalkedWith(s, V, F, G)
  PROVE  WalkedWith(s, V, F, G)'
<1>1. /\ \A i : InRange(i)' = InRange(i) /\ IsDir(i)' = IsDir(i)
      /\ \A i : Listed(i)' = Listed(i)
      /\ \A i, p : DotErrors(i, p)' = DotErrors(i, p)
      /\ Special(Root)' = Special(Root)
      /\ IndexErrors' = IndexErrors
  BY SeenSame
<1>2. \A i, p, n : Frame(i, p, n)' = Frame(i, p, n)
  BY <1>1 DEF Frame
<1>3. \A up, i, t : Child(up, i, t)' = Child(up, i, t)
  BY <1>1 DEF Child
<1>4. \A i, k : EntryFine(i, k)' = EntryFine(i, k)
  BY <1>1 DEF EntryFine
<1>5. FramesOk(s, V)'
  BY <1>2 DEF FramesOk, WalkedWith
<1>6. Entered(V)'
  BY <1>1, <1>3 DEF Entered, WalkedWith
<1>7. FilesLinked(F, V)'
  BY <1>1, <1>3 DEF FilesLinked, WalkedWith
<1>8. EntriesFine(s, V)'
  BY <1>1, <1>4 DEF EntriesFine, WalkedWith
<1> QED BY <1>1, <1>5, <1>6, <1>7, <1>8 DEF WalkedWith

LEMMA ListedLength ==
  ASSUME ImageInv, Complete, NEW V, Entered(V), NEW i \in V
  PROVE  Len(Listed(i)) \in Nat
<1>1. InRange(i) /\ IsDir(i)
  BY DEF Entered
<1>2. Len(Payload(i)) \in Nat
  BY <1>1, PayloadsAre
<1>3. ListsOf(Listed(i), Payload(i))
  BY <1>2, ListedAre
<1> QED BY <1>3 DEF ListsOf

(* The topmost frame returns.                                              *)
LEMMA FrameEnds ==
  ASSUME ImageInv, Complete, NEW s, IsSeq(s), s # <<>>,
         NEW V, NEW F, NEW G, WalkedWith(s, V, F, G),
         NEW i \in V, NEW p, NEW n \in Nat \ {0}, Head(s) = Frame(i, p, n), n > Len(Listed(i))
  PROVE  WalkedWith(Tail(s), V, F, G)
<1>1. PICK x, t : x = Head(s) /\ t = Tail(s)
  OBVIOUS
<1>2. /\ OnTop(s, x, t)
  BY <1>1, Popped
<1>3. /\ Len(t) \in Nat /\ Len(s) = Len(t) + 1 /\ s[1] = x
      /\ \A k \in 1..Len(t) : s[k + 1] = t[k]
      /\ \A k \in 2..Len(s) : k - 1 \in 1..Len(t) /\ s[k] = t[k - 1]
  BY <1>2 DEF OnTop
<1>4. FramesOk(t, V)
  <2> SUFFICES ASSUME NEW j \in 1..Len(t)
               PROVE  \E a \in V : \E b : \E c \in Nat \ {0} : t[j] = Frame(a, b, c)
    BY DEF FramesOk
  <2>1. j + 1 \in 1..Len(s) /\ s[j + 1] = t[j]
    BY <1>3
  <2> QED BY <2>1 DEF FramesOk, WalkedWith
<1>5. EntriesFine(t, V)
  <2> SUFFICES ASSUME NEW a \in V, NEW k \in 1..Len(Listed(a)), ~EntryFine(a, k)
               PROVE  \E j \in 1..Len(t) : t[j].ino = a /\ t[j].next <= k
    BY DEF EntriesFine
  <2>1. PICK j \in 1..Len(s) : s[j].ino = a /\ s[j].next <= k
    BY DEF EntriesFine, WalkedWith
  <2>2. j # 1
    <3>1. CASE j = 1
      <4>1. a = i /\ n <= k
        BY <1>1, <1>3, <2>1, <3>1 DEF Frame
      <4>2. Len(Listed(i)) \in Nat
        BY ListedLength DEF WalkedWith
      <4> QED BY <4>1, <4>2
    <3> QED BY <3>1
  <2>3. j - 1 \in 1..Len(t) /\ s[j] = t[j - 1]
    BY <1>3, <2>2
  <2> QED BY <2>1, <2>3
<1> QED BY <1>1, <1>4, <1>5 DEF WalkedWith

(* The topmost frame goes on to its next entry.                            *)
LEMMA FrameAdvances ==
  ASSUME ImageInv, Complete, NEW s, IsSeq(s), s # <<>>,
         NEW V, NEW F, NEW G, WalkedWith(s, V, F, G),
         NEW i \in V, NEW p, NEW n \in Nat \ {0}, Head(s) = Frame(i, p, n), EntryFine(i, n)
  PROVE  WalkedWith(<<Frame(i, p, n + 1)>> \o Tail(s), V, F, G)
<1>1. PICK x, y, t : x = Head(s) /\ t = Tail(s) /\ y = Frame(i, p, n + 1)
  OBVIOUS
<1>2. PICK u : u = <<y>> \o t
  OBVIOUS
<1>3. OnTop(s, x, t) /\ IsSeq(t)
  BY <1>1, Popped
<1>4. OnTop(u, y, t)
  BY <1>2, <1>3, Pushed
<1>5. /\ Len(t) \in Nat /\ Len(s) = Len(t) + 1 /\ s[1] = x
      /\ \A k \in 2..Len(s) : k - 1 \in 1..Len(t) /\ s[k] = t[k - 1]
      /\ \A k \in 1..Len(t) : s[k + 1] = t[k]
  BY <1>3 DEF OnTop
<1>6. /\ Len(u) = Len(t) + 1 /\ u[1] = y
      /\ \A k \in 1..Len(t) : u[k + 1] = t[k]
      /\ \A k \in 2..Len(u) : k - 1 \in 1..Len(t) /\ u[k] = t[k - 1]
  BY <1>4 DEF OnTop
<1>7. \A j \in 2..Len(s) : u[j] = s[j]
  BY <1>5, <1>6
<1>8. FramesOk(u, V)
  <2> SUFFICES ASSUME NEW j \in 1..Len(u)
               PROVE  \E a \in V : \E b : \E c \in Nat \ {0} : u[j] = Frame(a, b, c)
    BY DEF FramesOk
  <2>1. CASE j = 1
    <3>1. u[j] = Frame(i, p, n + 1) /\ n + 1 \in Nat \ {0}
      BY <1>1, <1>6, <2>1
    <3> QED BY <3>1
  <2>2. CASE j # 1
    <3>1. j \in 2..Len(s) /\ j \in 1..Len(s)
      BY <1>5, <1>6, <2>2
    <3> QED BY <1>7, <3>1 DEF FramesOk, WalkedWith
  <2> QED BY <2>1, <2>2
<1>9. EntriesFine(u, V)
  <2> SUFFICES ASSUME NEW a \in V, NEW k \in 1..Len(Listed(a)), ~EntryFine(a, k)
               PROVE  \E j \in 1..Len(u) : u[j].ino = a /\ u[j].next <= k
    BY DEF EntriesFine
  <2>1. PICK j \in 1..Len(s) : s[j].ino = a /\ s[j].next <= k
    BY DEF EntriesFine, WalkedWith
  <2>2. CASE j = 1
    <3>1. a = i /\ n <= k
      BY <1>1, <1>5, <2>1, <2>2 DEF Frame
    <3>2. n + 1 <= k
      BY <3>1
    <3>3. 1 \in 1..Len(u) /\ u[1].ino = a /\ u[1].next <= k
      BY <1>1, <1>5, <1>6, <3>1, <3>2 DEF Frame
    <3> QED BY <3>3
  <2>3. CASE j # 1
    <3>1. j \in 2..Len(s) /\ j \in 1..Len(u)
      BY <1>5, <1>6, <2>3
    <3> QED BY <1>7, <2>1, <3>1
  <2> QED BY <2>2, <2>3
<1> QED BY <1>1, <1>2, <1>8, <1>9 DEF WalkedWith

(* walk() enters a directory.                                              *)
LEMMA FrameStarts ==
  ASSUME NEW s, IsSeq(s), NEW V, NEW F, NEW G, WalkedWith(s, V, F, G),
         NEW i, NEW p, NEW up \in V \cup {i}, InRange(i), IsDir(i), DotErrors(i, up) = {},
         (i = Special(Root) /\ up = i) \/ (up \in V /\ Child(up, i, "dir"))
  PROVE  WalkedWith(<<Frame(i, p, 1)>> \o s, V \cup {i}, F, G)
<1>1. PICK x, W : x = Frame(i, p, 1) /\ W = V \cup {i}
  OBVIOUS
<1>2. PICK u : u = <<x>> \o s
  OBVIOUS
<1>3. /\ Len(s) \in Nat /\ Len(u) = Len(s) + 1 /\ u[1] = x
      /\ \A k \in 1..Len(s) : u[k + 1] = s[k]
      /\ \A k \in 2..Len(u) : k - 1 \in 1..Len(s) /\ u[k] = s[k - 1]
  <2>1. OnTop(u, x, s)
    BY <1>2, Pushed
  <2> QED BY <2>1 DEF OnTop
<1>4. FramesOk(u, W)
  <2> SUFFICES ASSUME NEW j \in 1..Len(u)
               PROVE  \E a \in W : \E b : \E c \in Nat \ {0} : u[j] = Frame(a, b, c)
    BY DEF FramesOk
  <2>1. CASE j = 1
    <3>1. u[j] = Frame(i, p, 1) /\ 1 \in Nat \ {0} /\ i \in W
      BY <1>1, <1>3, <2>1
    <3> QED BY <3>1
  <2>2. CASE j # 1
    <3>1. j - 1 \in 1..Len(s) /\ u[j] = s[j - 1]
      BY <1>3, <2>2
    <3> QED BY <1>1, <3>1 DEF FramesOk, WalkedWith
  <2> QED BY <2>1, <2>2
<1>5. Entered(W)
  BY <1>1 DEF Entered, WalkedWith
<1>6. FilesLinked(F, W)
  BY <1>1 DEF FilesLinked, WalkedWith
<1>7. EntriesFine(u, W)
  <2> SUFFICES ASSUME NEW a \in W, NEW k \in 1..Len(Listed(a)), ~EntryFine(a, k)
               PROVE  \E j \in 1..Len(u) : u[j].ino = a /\ u[j].next <= k
    BY DEF EntriesFine
  <2>1. CASE a = i
    <3>1. 1 \in 1..Len(u) /\ u[1].ino = a /\ u[1].next <= k
      BY <1>1, <1>3, <2>1 DEF Frame
    <3> QED BY <3>1
  <2>2. CASE a \in V
    <3>1. PICK j \in 1..Len(s) : s[j].ino = a /\ s[j].next <= k
      BY <2>2 DEF EntriesFine, WalkedWith
    <3>2. j + 1 \in 1..Len(u) /\ u[j + 1] = s[j]
      BY <1>3
    <3> QED BY <3>1, <3>2
  <2> QED BY <1>1, <2>1, <2>2
<1>8. \A q \in DOMAIN G : G[q] \in W
  BY <1>1 DEF WalkedWith
<1>9. Special(Root) \in W /\ DotErrors(Special(Root), Special(Root)) = {}
  <2>1. CASE i = Special(Root) /\ up = i
    BY <1>1, <2>1
  <2>2. CASE up \in V
    BY <1>1, <2>2 DEF WalkedWith
  <2> QED BY <2>1, <2>2
<1> QED BY <1>1, <1>2, <1>4, <1>5, <1>6, <1>7, <1>8, <1>9 DEF WalkedWith

LEMMA TopFrame ==
  ASSUME WalkInv, Started, errors = {}, stack # <<>>
  PROVE  \E i \in visited : \E p : \E n \in Nat \ {0} : Top = Frame(i, p, n)
<1>1. PICK s : s = stack
  OBVIOUS
<1>2. OnTop(s, Head(s), Tail(s))
  BY <1>1, Popped DEF WalkInv
<1>3. 1 \in 1..Len(s) /\ s[1] = Head(s)
  BY <1>2 DEF OnTop
<1>4. FramesOk(s, visited)
  BY <1>1 DEF WalkInv, WalkedWith
<1> QED BY <1>1, <1>3, <1>4 DEF FramesOk, Top

LEMMA TopEntry ==
  ASSUME NEW i, NEW p, NEW n \in Nat \ {0}, Top = Frame(i, p, n)
  PROVE  /\ Top.ino = i /\ Top.path = p /\ Top.next = n /\ Top.entries = Listed(i)
         /\ Entry = Listed(i)[n] /\ ChildPath = Append(p, Listed(i)[n].name)
         /\ Advanced = <<Frame(i, p, n + 1)>> \o Tail(stack)
         /\ EntryErrors = {} => EntryFine(i, n)
<1>1. Top.ino = i /\ Top.path = p /\ Top.next = n /\ Top.entries = Listed(i)
  BY DEF Frame
<1>2. Entry = Listed(i)[n]
  BY <1>1 DEF Entry
<1>3. ChildPath = Append(p, Listed(i)[n].name)
  BY <1>1, <1>2 DEF ChildPath
<1>4. [Top EXCEPT !.next = @ + 1] = Frame(i, p, n + 1)
  BY DEF Frame
<1>5. Advanced = <<Frame(i, p, n + 1)>> \o Tail(stack)
  BY <1>4 DEF Advanced
<1>6. ASSUME EntryErrors = {} PROVE EntryFine(i, n)
  <2>1. PICK e, L : e = Entry /\ L = Listed(i) /\ e = L[n]
    BY <1>2
  <2>2. ~\E k \in 1..(n - 1) : L[k].name = e.name
    BY <1>1, <1>6, <2>1 DEF EntryErrors
  <2>3. InRange(e.ino)
    BY <1>1, <1>6, <2>1 DEF EntryErrors
  <2>4. e.type \in {"dir", "file"} /\ ~((e.type = "dir") # IsDir(e.ino))
    BY <1>1, <1>6, <2>1 DEF EntryErrors
  <2> QED BY <2>1, <2>2, <2>3, <2>4 DEF EntryFine
<1> QED BY <1>1, <1>2, <1>3, <1>5, <1>6

LEMMA WalkOn ==
  ASSUME ImageInv, WalkInv, WalkFile \/ WalkDir \/ WalkUp, errors' = {}
  PROVE  /\ WalkedWith(stack, visited, fileIno, dirIno)' /\ IsSeq(stack)'
         /\ visited \subseteq visited'
<1>0. visited \subseteq visited'
  BY DEF WalkFile, WalkDir, WalkUp, Enter
<1>1. stage = "walk" /\ stack # <<>> /\ UNCHANGED buildVars /\ errors \subseteq errors'
  BY DEF WalkFile, WalkDir, WalkUp, Walking, Enter, Complain
<1>2. Started /\ Complete /\ errors = {}
  BY <1>1 DEF Started, Complete
<1>3. PICK s, V, F, G : s = stack /\ V = visited /\ F = fileIno /\ G = dirIno
  OBVIOUS
<1>4. PICK t, W, H, K : t = stack' /\ W = visited' /\ H = fileIno' /\ K = dirIno'
  OBVIOUS
<1>5. WalkedWith(s, V, F, G) /\ IsSeq(s)
  BY <1>2, <1>3 DEF WalkInv
<1>6. PICK i \in V : \E p : \E n \in Nat \ {0} : Top = Frame(i, p, n)
  BY <1>1, <1>2, <1>3, TopFrame
<1>7. PICK p : \E n \in Nat \ {0} : Top = Frame(i, p, n)
  BY <1>6
<1>8. PICK n \in Nat \ {0} : Top = Frame(i, p, n)
  BY <1>7
<1>9. /\ Top.ino = i /\ Top.path = p /\ Top.next = n /\ Top.entries = Listed(i)
      /\ Entry = Listed(i)[n] /\ ChildPath = Append(p, Listed(i)[n].name)
      /\ Advanced = <<Frame(i, p, n + 1)>> \o Tail(s)
      /\ EntryErrors = {} => EntryFine(i, n)
  BY <1>3, <1>8, TopEntry
<1>10. Head(s) = Frame(i, p, n) /\ s # <<>>
  BY <1>1, <1>3, <1>8 DEF Top
<1>11. IsSeq(Tail(s)) /\ \A x : IsSeq(<<x>> \o Tail(s))
  <2>1. IsSeq(Tail(s))
    BY <1>5, <1>10, Popped
  <2> QED BY <2>1, Pushed DEF OnTop
<1>12. ASSUME WalkedWith(t, W, H, K), IsSeq(t)
       PROVE  WalkedWith(stack, visited, fileIno, dirIno)' /\ IsSeq(stack)'
  <2>1. WalkedWith(t, W, H, K)'
    BY <1>1, <1>12, WalkedSame
  <2>2. IsSeq(t)'
    BY <1>12 DEF IsSeq
  <2>3. FramesOk(t, W)' => FramesOk(stack, visited)'
    BY <1>4 DEF FramesOk
  <2>4. Entered(W)' => Entered(visited)'
    BY <1>4 DEF Entered
  <2>5. FilesLinked(H, W)' => FilesLinked(fileIno, visited)'
    BY <1>4 DEF FilesLinked
  <2>6. EntriesFine(t, W)' => EntriesFine(stack, visited)'
    BY <1>4 DEF EntriesFine
  <2>7. \A q \in DOMAIN dirIno' : dirIno'[q] \in visited'
    BY <1>4, <1>12 DEF WalkedWith
  <2>8. visited' # {} => Special(Root)' \in visited' /\ DotErrors(Special(Root), Special(Root))' = {}
    BY <1>4, <2>1 DEF WalkedWith
  <2> QED BY <1>4, <2>1, <2>2, <2>3, <2>4, <2>5, <2>6, <2>7, <2>8 DEF WalkedWith, IsSeq
<1>13. ASSUME Walking, EntryErrors = {}
       PROVE  /\ WalkedWith(<<Frame(i, p, n + 1)>> \o Tail(s), V, F, G)
              /\ n \in 1..Len(Listed(i)) /\ EntryFine(i, n)
  <2>1. EntryFine(i, n)
    BY <1>9, <1>13
  <2>2. WalkedWith(<<Frame(i, p, n + 1)>> \o Tail(s), V, F, G)
    BY <1>2, <1>5, <1>10, <2>1, FrameAdvances
  <2>3. n <= Len(Listed(i))
    BY <1>9, <1>13 DEF Walking
  <2>4. Len(Listed(i)) \in Nat
    BY <1>2, <1>5, ListedLength DEF WalkedWith
  <2> QED BY <2>1, <2>2, <2>3, <2>4
<1>14. CASE WalkUp
  <2>1. t = Tail(s) /\ W = V /\ H = F /\ K = G /\ n > Len(Listed(i))
    BY <1>3, <1>4, <1>9, <1>14 DEF WalkUp
  <2>2. WalkedWith(t, W, H, K)
    BY <1>2, <1>5, <1>10, <2>1, FrameEnds
  <2> QED BY <1>0, <1>11, <1>12, <2>1, <2>2
<1>15. CASE WalkFile
  <2>1. /\ Walking /\ EntryErrors = {} /\ Entry.type = "file"
        /\ H = Put(F, ChildPath, Entry.ino) /\ t = Advanced /\ W = V /\ K = G
    BY <1>3, <1>4, <1>15 DEF WalkFile
  <2>2. PICK e, c : e = Listed(i)[n] /\ e = Entry /\ c = ChildPath
    BY <1>9
  <2>3. /\ WalkedWith(t, V, F, G) /\ IsSeq(t) /\ n \in 1..Len(Listed(i)) /\ EntryFine(i, n)
    BY <1>9, <1>11, <1>13, <2>1
  <2>4. H = Put(F, c, e.ino) /\ e.type = "file"
    BY <2>1, <2>2
  <2>5. InRange(e.ino) /\ ~IsDir(e.ino)
    BY <2>2, <2>3, <2>4 DEF EntryFine
  <2>6. Child(i, e.ino, "file")
    BY <2>2, <2>3, <2>4 DEF Child
  <2>7. FilesLinked(H, V)
    <3> SUFFICES ASSUME NEW q \in DOMAIN H
                 PROVE  InRange(H[q]) /\ ~IsDir(H[q]) /\ \E up \in V : Child(up, H[q], "file")
      BY DEF FilesLinked
    <3>1. CASE q = c
      <4>1. H[q] = e.ino
        BY <2>4, <3>1 DEF Put
      <4> QED BY <2>5, <2>6, <4>1
    <3>2. CASE q # c
      <4>1. q \in DOMAIN F /\ H[q] = F[q]
        BY <2>4, <3>2 DEF Put
      <4> QED BY <2>3, <4>1 DEF WalkedWith, FilesLinked
    <3> QED BY <3>1, <3>2
  <2>8. WalkedWith(t, W, H, K)
    BY <2>1, <2>3, <2>7 DEF WalkedWith
  <2> QED BY <1>0, <1>12, <2>3, <2>8
<1>16. CASE WalkDir
  <2>1. PICK e, c : e = Listed(i)[n] /\ e = Entry /\ c = ChildPath
    BY <1>9
  <2>2. PICK u : u = <<Frame(i, p, n + 1)>> \o Tail(s)
    OBVIOUS
  <2>3. /\ Walking /\ EntryErrors = {} /\ e.type = "dir"
        /\ K = Put(G, c, e.ino) /\ H = F /\ W = V \cup {e.ino}
        /\ Enter(e.ino, c, i, u, {})
    BY <1>3, <1>4, <1>9, <1>16, <2>1, <2>2 DEF WalkDir, Enter
  <2>4. /\ WalkedWith(u, V, F, G) /\ IsSeq(u) /\ n \in 1..Len(Listed(i)) /\ EntryFine(i, n)
    BY <1>11, <1>13, <2>2, <2>3
  <2>5. InRange(e.ino) /\ IsDir(e.ino)
    BY <2>1, <2>3, <2>4 DEF EntryFine
  <2>6. Child(i, e.ino, "dir")
    BY <2>1, <2>3, <2>4 DEF Child
  <2>7. /\ e.ino \in V => t = u
        /\ e.ino \notin V => DotErrors(e.ino, i) = {} /\ t = <<Frame(e.ino, c, 1)>> \o u
    <3>1. e.ino \in V => t = u
      BY <1>3, <1>4, <2>3 DEF Enter
    <3>2. e.ino \notin V => Complain({} \cup DotErrors(e.ino, i)) /\ t = <<Frame(e.ino, c, 1)>> \o u
      BY <1>3, <1>4, <2>3, <2>5 DEF Enter, Frame, Complain
    <3> QED BY <3>1, <3>2 DEF Complain
  <2>8. WalkedWith(t, W, F, G) /\ IsSeq(t)
    <3>1. CASE e.ino \in V
      <4>1. t = u /\ W = V
        BY <2>3, <2>7, <3>1
      <4> QED BY <2>4, <4>1
    <3>2. CASE e.ino \notin V
      <4>1. DotErrors(e.ino, i) = {} /\ i \in V \cup {e.ino}
        BY <2>7, <3>2
      <4>2. WalkedWith(<<Frame(e.ino, c, 1)>> \o u, V \cup {e.ino}, F, G)
        BY <2>4, <2>5, <2>6, <4>1, FrameStarts
      <4>3. IsSeq(<<Frame(e.ino, c, 1)>> \o u)
        BY <2>4, Pushed DEF OnTop
      <4> QED BY <2>3, <2>7, <3>2, <4>2, <4>3
    <3> QED BY <3>1, <3>2
  <2>9. \A q \in DOMAIN K : K[q] \in W
    <3> TAKE q \in DOMAIN K
    <3>1. q = c => K[q] = e.ino
      BY <2>3 DEF Put
    <3>2. q # c => q \in DOMAIN G /\ K[q] = G[q]
      BY <2>3 DEF Put
    <3> QED BY <2>3, <2>4, <3>1, <3>2 DEF WalkedWith
  <2>10. WalkedWith(t, W, H, K)
    BY <2>3, <2>8, <2>9 DEF WalkedWith
  <2> QED BY <1>0, <1>12, <2>8, <2>10
<1> QED BY <1>14, <1>15, <1>16

LEMMA WalkStarts ==
  ASSUME ImageInv, WalkInv, ParseIndexes, errors' = {}
  PROVE  /\ WalkedWith(stack, visited, fileIno, dirIno)' /\ IsSeq(stack)' /\ stage' = "walk"
         /\ visited' # {}
<1>1. stage = "indexes" /\ UNCHANGED <<buildVars, fileIno>>
  BY DEF ParseIndexes
<1>2. visited = {} /\ DOMAIN fileIno = {}
  BY <1>1 DEF WalkInv, Started, Inspected
<1>3. IndexErrors = {} /\ Special(Root) # None /\ stage' = "walk"
  <2>1. CASE Special(Root) = None
    <3>1. IndexErrors \subseteq errors' /\ "no root" \in IndexErrors
      BY <2>1 DEF ParseIndexes, Complain, IndexErrors, When
    <3> QED BY <3>1
  <2>2. CASE Special(Root) # None
    <3>1. IndexErrors \subseteq errors'
      BY <2>2 DEF ParseIndexes, Enter, Complain
    <3> QED BY <2>2, <3>1 DEF ParseIndexes
  <2> QED BY <2>1, <2>2
<1>4. PICK i, F : i = Special(Root) /\ F = fileIno
  OBVIOUS
<1>5. PICK t, W, K : t = stack' /\ W = visited' /\ K = dirIno'
  OBVIOUS
<1>6. K = Put(<<>>, <<>>, i) /\ W = {i} /\ Enter(i, <<>>, i, <<>>, IndexErrors)
  BY <1>2, <1>3, <1>4, <1>5 DEF ParseIndexes, Enter
<1>7. /\ InRange(i) /\ IsDir(i) /\ DotErrors(i, i) = {}
      /\ t = <<Frame(i, <<>>, 1)>> \o <<>>
  <2>1. i \notin visited
    BY <1>2
  <2>2. InRange(i) /\ IsDir(i)
    BY <1>6, <2>1 DEF Enter, Complain
  <2> QED BY <1>3, <1>5, <1>6, <2>1, <2>2 DEF Enter, Complain, Frame
<1>8. IsSeq(<<>>)
  BY EmptySeq DEF IsSeq
<1>9. WalkedWith(<<>>, {}, F, <<>>)
  <2>1. FramesOk(<<>>, {}) /\ Entered({}) /\ EntriesFine(<<>>, {})
    BY EmptySeq DEF FramesOk, Entered, EntriesFine
  <2>2. FilesLinked(F, {})
    BY <1>2, <1>4 DEF FilesLinked
  <2> QED BY <1>3, <2>1, <2>2 DEF WalkedWith
<1>10. WalkedWith(<<Frame(i, <<>>, 1)>> \o <<>>, {} \cup {i}, F, <<>>)
  BY <1>4, <1>7, <1>8, <1>9, FrameStarts
<1>11. WalkedWith(t, W, F, <<>>)
  BY <1>6, <1>7, <1>10
<1>12. \A q \in DOMAIN K : K[q] \in W
  BY <1>6 DEF Put
<1>13. WalkedWith(t, W, F, K)
  BY <1>11, <1>12 DEF WalkedWith
<1>14. WalkedWith(t, W, F, K)'
  BY <1>1, <1>13, WalkedSame
<1>15. IsSeq(t)
  BY <1>7, <1>8, Pushed DEF OnTop
<1>16. WalkedWith(stack, visited, fileIno, dirIno)'
  <2>1. fileIno' = F
    BY <1>1, <1>4
  <2>2. FramesOk(t, W)' => FramesOk(stack, visited)'
    BY <1>5 DEF FramesOk
  <2>3. Entered(W)' => Entered(visited)'
    BY <1>5 DEF Entered
  <2>4. FilesLinked(F, W)' => FilesLinked(fileIno, visited)'
    BY <1>5, <2>1 DEF FilesLinked
  <2>5. EntriesFine(t, W)' => EntriesFine(stack, visited)'
    BY <1>5 DEF EntriesFine
  <2>6. visited' # {} => Special(Root)' \in visited' /\ DotErrors(Special(Root), Special(Root))' = {}
    BY <1>5, <1>14 DEF WalkedWith
  <2> QED BY <1>5, <1>12, <1>14, <2>2, <2>3, <2>4, <2>5, <2>6 DEF WalkedWith
<1> QED BY <1>3, <1>5, <1>6, <1>15, <1>16 DEF IsSeq

(* What the walk left stays as it is.                                      *)
LEMMA WalkedRests ==
  ASSUME UNCHANGED <<buildVars, stack, visited, fileIno, dirIno>>,
         WalkedWith(stack, visited, fileIno, dirIno)
  PROVE  WalkedWith(stack, visited, fileIno, dirIno)'
<1>1. PICK s, V, F, G : s = stack /\ V = visited /\ F = fileIno /\ G = dirIno
  OBVIOUS
<1>2. WalkedWith(s, V, F, G)'
  BY <1>1, WalkedSame
<1>3. s = stack' /\ V = visited' /\ F = fileIno' /\ G = dirIno'
  BY <1>1
<1>4. FramesOk(s, V)' => FramesOk(stack, visited)'
  BY <1>3 DEF FramesOk
<1>5. Entered(V)' => Entered(visited)'
  BY <1>3 DEF Entered
<1>6. FilesLinked(F, V)' => FilesLinked(fileIno, visited)'
  BY <1>3 DEF FilesLinked
<1>7. EntriesFine(s, V)' => EntriesFine(stack, visited)'
  BY <1>3 DEF EntriesFine
<1>8. \A q \in DOMAIN dirIno' : dirIno'[q] \in visited'
  BY <1>2, <1>3 DEF WalkedWith
<1>9. visited' # {} => Special(Root)' \in visited' /\ DotErrors(Special(Root), Special(Root))' = {}
  BY <1>2, <1>3 DEF WalkedWith
<1> QED BY <1>2, <1>4, <1>5, <1>6, <1>7, <1>8, <1>9 DEF WalkedWith

LEMMA ReachableRests ==
  ASSUME UNCHANGED <<buildVars, fileIno, dirIno>>
  PROVE  Reachable' = Reachable
<1>1. Special(Fpt)' = Special(Fpt) /\ Special(Resolver)' = Special(Resolver)
      /\ Special(Root)' = Special(Root)
  BY SeenSame
<1> QED BY <1>1 DEF Reachable, ImageRange

LEMMA FinishedRests ==
  ASSUME Finished, UNCHANGED <<buildVars, foundVars>>
  PROVE  Finished'
<1>1. UNCHANGED <<stack, fileIno, dirIno, compared, badFile, mode>>
  BY DEF foundVars
<1>2. MapErrors' = MapErrors
  BY <1>1, MapErrorsStay
<1>3. Reachable' = Reachable
  BY <1>1, ReachableRests
<1>4. \A i : InRange(i)' = InRange(i) /\ Object(i)' = Object(i)
  BY SeenSame
<1> QED BY <1>1, <1>2, <1>3, <1>4 DEF Finished

LEMMA InspectionEnds ==
  ASSUME FinishInspection, errors' = {}
  PROVE  Finished'
<1>1. /\ stack = <<>> /\ UNCHANGED <<buildVars, stack, fileIno, dirIno, badFile, mode>>
      /\ MapErrors \subseteq errors'
      /\ When(\E i \in 0..(Len(order) - 1) : i \notin Reachable, "orphan") \subseteq errors'
  BY DEF FinishInspection, Complain
<1>2. MapErrors' = {}
  BY <1>1, MapErrorsStay
<1>3. Reachable' = Reachable
  BY <1>1, ReachableRests
<1>4. \A i : InRange(i)' = InRange(i) /\ Object(i)' = Object(i)
  BY <1>1, SeenSame
<1>5. \A i : InRange(i) => i \in Reachable
  BY <1>1 DEF When, InRange
<1>6. ASSUME mode # "unpack"
      PROVE  /\ {PathOf[f] : f \in compared'} = DOMAIN fileIno
             /\ badFile # Root => \A p \in DOMAIN fileIno : Object(fileIno[p]) # badFile
  <2>1. PICK unreadable :
          /\ compared' = Visible(unreadable)
          /\ When(badFile # Root /\ \E p \in DOMAIN fileIno : Object(fileIno[p]) = badFile, "payload")
               \subseteq errors'
          /\ When(SourcePaths(unreadable) # DOMAIN fileIno, "source") \subseteq errors'
    BY <1>6 DEF FinishInspection, Complain
  <2>2. SourcePaths(unreadable) = DOMAIN fileIno
    BY <2>1 DEF When
  <2> QED BY <2>1, <2>2 DEF When, SourcePaths
<1> QED BY <1>1, <1>2, <1>3, <1>4, <1>5, <1>6 DEF Finished

LEMMA WalkInit == Init => WalkInv
<1> SUFFICES ASSUME Init PROVE WalkInv
  OBVIOUS
<1>1. stage = "scan" /\ errors = {} /\ visited = {} /\ stack = <<>> /\ fileIno = <<>>
  BY DEF Init, BuildInit
<1>2. IsSeq(stack)
  BY <1>1, EmptySeq DEF IsSeq
<1> QED BY <1>1, <1>2, EmptySeq DEF WalkInv, Started, Inspected

LEMMA WalkStep == ImageInv /\ WalkInv /\ [Next]_vars => WalkInv'
<1> SUFFICES ASSUME ImageInv, WalkInv, [Next]_vars PROVE WalkInv'
  OBVIOUS
<1>1. CASE Build \/ Store
  <2>1. /\ UNCHANGED <<errors, visited, stack, fileIno>>
        /\ stage \notin {"walk", "inspected", "dirs", "files", "ended", "raised"}
        /\ stage' \notin {"walk", "inspected", "dirs", "files", "ended", "raised"}
    BY <1>1 DEF Build, Scan, Number, Link, Collide, Table, Store, Undamaged, DamageEntry,
                DamageTable, DamageResolver, DamageSuper, Hit, inspectVars, foundVars
  <2> QED BY <2>1 DEF WalkInv, Started, Inspected, IsSeq
<1>2. CASE ParseIndexes
  <2>1. Started' /\ (errors' = {} => stage' = "walk")
    BY <1>2, WalkStarts DEF ParseIndexes, Started
  <2>2. IsSeq(stack)'
    <3>1. stack' = stack \/ stack' = <<>> \/ \E x : stack' = <<x>> \o <<>>
      BY <1>2 DEF ParseIndexes, Enter
    <3>2. IsSeq(<<>>) /\ IsSeq(stack)
      BY EmptySeq DEF IsSeq, WalkInv
    <3>3. \A x : IsSeq(<<x>> \o <<>>)
      BY <3>2, Pushed DEF OnTop
    <3> QED BY <3>1, <3>2, <3>3 DEF IsSeq
  <2> QED BY <1>2, <2>1, <2>2, WalkStarts DEF WalkInv, Inspected
<1>3. CASE WalkFile \/ WalkDir \/ WalkUp \/ WalkBad
  <2>1. stage = "walk" /\ stage' = "walk" /\ stack # <<>>
    BY <1>3 DEF WalkFile, WalkDir, WalkUp, WalkBad, Walking
  <2>2. WalkBad => errors' # {}
    BY DEF WalkBad, Complain
  <2>3. IsSeq(stack)'
    <3>1. PICK s : s = stack
      OBVIOUS
    <3>2. IsSeq(Tail(s))
      BY <2>1, <3>1, Popped DEF WalkInv
    <3>3. \A x : IsSeq(<<x>> \o Tail(s))
      BY <3>2, Pushed DEF OnTop
    <3>4. \A x, y : IsSeq(<<y>> \o (<<x>> \o Tail(s)))
      BY <3>3, Pushed DEF OnTop
    <3>5. \/ stack' = Tail(s) \/ \E x : stack' = <<x>> \o Tail(s)
          \/ \E x, y : stack' = <<y>> \o (<<x>> \o Tail(s))
      BY <1>3, <3>1 DEF WalkFile, WalkDir, WalkUp, WalkBad, Enter, Advanced
    <3> QED BY <3>2, <3>3, <3>4, <3>5 DEF IsSeq
  <2>4. errors' = {} => /\ WalkedWith(stack, visited, fileIno, dirIno)'
                         /\ visited \subseteq visited'
    BY <1>3, <2>2, WalkOn
  <2>5. errors' = {} => errors = {}
    BY <1>3 DEF WalkFile, WalkDir, WalkUp, WalkBad, Enter, Complain
  <2> QED BY <2>1, <2>3, <2>4, <2>5 DEF WalkInv, Started, Inspected
<1>4. CASE FinishInspection
  <2>1. /\ UNCHANGED <<buildVars, stack, visited, fileIno, dirIno>> /\ errors \subseteq errors'
        /\ stage = "walk" /\ stage' = "inspected"
    BY <1>4 DEF FinishInspection, Complain
  <2>2. errors' = {} => Finished'
    BY <1>4, InspectionEnds
  <2>3. errors' = {} => visited' # {} /\ WalkedWith(stack, visited, fileIno, dirIno)'
    BY <2>1, WalkedRests DEF WalkInv, Started
  <2> QED BY <2>1, <2>2, <2>3 DEF WalkInv, Started, Inspected, IsSeq
<1>5. CASE Plan \/ MakeDirs \/ OpenTarget \/ WriteTarget \/ FinishExtraction \/ UNCHANGED vars
  <2>1. /\ UNCHANGED <<buildVars, foundVars>> /\ errors \subseteq errors'
        /\ \/ Inspected /\ Inspected'
           \/ UNCHANGED <<stage, errors>>
    BY <1>5 DEF Plan, MakeDirs, OpenTarget, WriteTarget, FinishExtraction, vars, inspectVars,
                Complain, Inspected
  <2>2. UNCHANGED <<stack, visited, fileIno, dirIno>>
    BY <2>1 DEF foundVars
  <2>3. ASSUME Inspected', errors' = {}
        PROVE  Finished'
    <3>1. Finished
      BY <2>1, <2>3 DEF WalkInv, Inspected
    <3> QED BY <2>1, <3>1, FinishedRests
  <2>4. ASSUME Started', errors' = {}
        PROVE  visited' # {} /\ WalkedWith(stack, visited, fileIno, dirIno)'
    <3>1. Started /\ errors = {}
      BY <2>1, <2>4 DEF Started, Inspected
    <3> QED BY <2>1, <2>2, <3>1, WalkedRests DEF WalkInv
  <2>5. ~Started' => ~Started /\ UNCHANGED errors
    BY <2>1 DEF Started, Inspected
  <2>6. IsSeq(stack)'
    BY <2>2 DEF WalkInv, IsSeq
  <2> QED BY <2>2, <2>3, <2>4, <2>5, <2>6 DEF WalkInv
<1> QED BY <1>1, <1>2, <1>3, <1>4, <1>5 DEF Next

-----------------------------------------------------------------------------
(* The super-root                                                          *)

LEMMA SpecialFound ==
  ASSUME NEW k \in 1..Len(super), NEW name, super[k].name = name,
         \A j \in 1..Len(super) : super[j].name = name => j = k
  PROVE  Special(name) = super[k].ino
<1> DEFINE at == {j \in 1..Len(super) : super[j].name = name}
<1>1. at = {k}
  OBVIOUS
<1>2. Special(name) = IF at = {} THEN None ELSE super[CHOOSE j \in at : \A i \in at : i <= j].ino
  BY DEF Special
<1>3. (CHOOSE j \in {k} : \A i \in {k} : i <= j) = k
  OBVIOUS
<1> HIDE DEF at
<1> QED BY <1>1, <1>2, <1>3

LEMMA SpecialMissing ==
  ASSUME NEW name, \A j \in 1..Len(super) : super[j].name # name
  PROVE  Special(name) = None
BY DEF Special

(* The number the super-root gives a reserved name.                        *)
Given(name) == IF name = Resolver /\ ~Collision THEN None ELSE number[name]
ReservedNames == {Fpt, Resolver, Root}

LEMMA SuperNames ==
  LET s == SuperEntries
  IN  /\ Len(s) \in Nat /\ DOMAIN s = 1..Len(s)
      /\ \A k \in 1..Len(s) : /\ s[k].name \in ReservedNames
                              /\ s[k].name = Resolver => Collision
                              /\ s[k].ino = number[s[k].name]
      /\ \A j, k \in 1..Len(s) : s[j].name = s[k].name => j = k
      /\ \A name \in ReservedNames :
           (name = Resolver => Collision) => \E k \in 1..Len(s) : s[k].name = name
<1>1. PICK s : s = SuperEntries
  OBVIOUS
<1>2. Fpt # Resolver /\ Fpt # Root /\ Resolver # Root
  BY DEF Fpt, Resolver, Root
<1>3. CASE Collision
  <2>1. /\ Len(s) = 3
        /\ s[1].name = Fpt /\ s[2].name = Resolver /\ s[3].name = Root
        /\ s[1].ino = number[Fpt] /\ s[2].ino = number[Resolver] /\ s[3].ino = number[Root]
    BY <1>1, <1>3, SuperAre DEF Ent
  <2>2. \A k \in 1..Len(s) : k = 1 \/ k = 2 \/ k = 3
    BY <2>1
  <2>3. 1 \in 1..Len(s) /\ 2 \in 1..Len(s) /\ 3 \in 1..Len(s)
    BY <2>1
  <2>4. Len(s) \in Nat /\ DOMAIN s = 1..Len(s)
    BY <1>1, SuperAre
  <2> QED BY <1>1, <1>2, <1>3, <2>1, <2>2, <2>3, <2>4 DEF ReservedNames
<1>4. CASE ~Collision
  <2>1. /\ Len(s) = 2
        /\ s[1].name = Fpt /\ s[2].name = Root
        /\ s[1].ino = number[Fpt] /\ s[2].ino = number[Root]
    BY <1>1, <1>4, SuperAre DEF Ent
  <2>2. \A k \in 1..Len(s) : k = 1 \/ k = 2
    BY <2>1
  <2>3. 1 \in 1..Len(s) /\ 2 \in 1..Len(s)
    BY <2>1
  <2>4. Len(s) \in Nat /\ DOMAIN s = 1..Len(s)
    BY <1>1, SuperAre
  <2> QED BY <1>1, <1>2, <1>4, <2>1, <2>2, <2>3, <2>4 DEF ReservedNames
<1> QED BY <1>3, <1>4

LEMMA SuperWhole ==
  ASSUME super = SuperEntries
  PROVE  \A name \in ReservedNames : Special(name) = Given(name)
<1>1. /\ Len(super) \in Nat
      /\ \A k \in 1..Len(super) : /\ super[k].name \in ReservedNames
                                  /\ super[k].name = Resolver => Collision
                                  /\ super[k].ino = number[super[k].name]
      /\ \A j, k \in 1..Len(super) : super[j].name = super[k].name => j = k
      /\ \A name \in ReservedNames :
           (name = Resolver => Collision) => \E k \in 1..Len(super) : super[k].name = name
  BY SuperNames
<1> TAKE name \in ReservedNames
<1>2. CASE name = Resolver => Collision
  <2>1. PICK k \in 1..Len(super) : super[k].name = name
    BY <1>1, <1>2
  <2>2. Special(name) = super[k].ino
    BY <1>1, <2>1, SpecialFound
  <2> QED BY <1>1, <1>2, <2>1, <2>2 DEF Given
<1>3. CASE ~(name = Resolver => Collision)
  <2>1. \A j \in 1..Len(super) : super[j].name # name
    BY <1>1, <1>3
  <2> QED BY <1>3, <2>1, SpecialMissing DEF Given
<1> QED BY <1>2, <1>3

(* One of the reserved names is lost, or leads elsewhere.                  *)
Misled(name) ==
  /\ name \in ReservedNames /\ (name = Resolver => Collision)
  /\ Special(name) # number[name]
  /\ Special(name) = None \/ Special(name) \in InoRange
  /\ \A other \in ReservedNames : other # name => Special(other) = Given(other)

LEMMA SuperDamaged ==
  ASSUME ImageInv, Complete, SuperHit(SuperEntries)
  PROVE  \E name : Misled(name)
<1>1. PICK s : s = SuperEntries
  BY Zenon
<1>2. PICK n \in Nat : n = Len(s)
  BY <1>1, SuperNames
<1>3. /\ DOMAIN s = 1..n
      /\ \A k \in 1..n : /\ s[k].name \in ReservedNames
                         /\ s[k].name = Resolver => Collision
                         /\ s[k].ino = number[s[k].name]
      /\ \A j, k \in 1..n : s[j].name = s[k].name => j = k
      /\ \A name \in ReservedNames :
           (name = Resolver => Collision) => \E k \in 1..n : s[k].name = name
  BY <1>1, <1>2, SuperNames
<1>4. PICK k \in 1..n :
        super = Without(s, k) \/ \E i \in InoRange \ {s[k].ino} : super = [s EXCEPT ![k].ino = i]
  BY <1>1, <1>2 DEF SuperHit
<1>5. PICK lost : lost = s[k].name /\ lost \in ReservedNames /\ (lost = Resolver => Collision)
  BY <1>3
<1>6. number[lost] # None
  <2>1. ScanSound /\ IndexSound(Collision)
    BY DEF ImageInv
  <2>2. lost \in DOMAIN number
    BY <1>5, <2>1, Reserved DEF ReservedNames
  <2>3. number[lost] \in Nat
    BY <2>1, <2>2, Placed
  <2> QED BY <2>3 DEF None
<1>7. CASE super = Without(s, k)
  <2>1. super = [j \in 1..(n - 1) |-> IF j < k THEN s[j] ELSE s[j + 1]]
    BY <1>2, <1>7 DEF Without
  <2>2. Len(super) = n - 1
    BY <2>1
  <2>3. \A j \in 1..(n - 1) : \E i \in 1..n : /\ i # k /\ super[j] = s[i]
                                              /\ j = IF i < k THEN i ELSE i - 1
    <3> TAKE j \in 1..(n - 1)
    <3>1. CASE j < k
      BY <2>1, <3>1
    <3>2. CASE ~(j < k)
      <4>1. j + 1 \in 1..n /\ j + 1 # k /\ super[j] = s[j + 1] /\ ~(j + 1 < k) /\ j = (j + 1) - 1
        BY <2>1, <3>2
      <4> QED BY <4>1
    <3> QED BY <3>1, <3>2
  <2>4. Special(lost) = None
    <3>1. \A j \in 1..Len(super) : super[j].name # lost
      BY <1>3, <1>5, <2>2, <2>3
    <3> QED BY <3>1, SpecialMissing
  <2>5. ASSUME NEW other \in ReservedNames, other # lost
        PROVE  Special(other) = Given(other)
    <3>1. CASE other = Resolver => Collision
      <4>1. PICK i \in 1..n : s[i].name = other
        BY <1>3, <3>1
      <4>2. PICK j : j = IF i < k THEN i ELSE i - 1
        OBVIOUS
      <4>3. i # k
        BY <1>5, <2>5, <4>1
      <4>4. j \in 1..(n - 1) /\ super[j] = s[i]
        BY <2>1, <4>2, <4>3
      <4>5. \A x \in 1..Len(super) : super[x].name = other => x = j
        <5> TAKE x \in 1..Len(super)
        <5>1. PICK y \in 1..n : /\ y # k /\ super[x] = s[y] /\ x = IF y < k THEN y ELSE y - 1
          BY <2>2, <2>3
        <5> QED BY <1>3, <4>1, <4>2, <5>1
      <4>6. Special(other) = super[j].ino
        BY <2>2, <4>1, <4>4, <4>5, SpecialFound
      <4> QED BY <1>3, <3>1, <4>1, <4>4, <4>6 DEF Given
    <3>2. CASE ~(other = Resolver => Collision)
      <4>1. \A j \in 1..Len(super) : super[j].name # other
        BY <1>3, <2>2, <2>3, <3>2
      <4> QED BY <3>2, <4>1, SpecialMissing DEF Given
    <3> QED BY <3>1, <3>2
  <2> QED BY <1>5, <1>6, <2>4, <2>5 DEF Misled
<1>8. CASE \E i \in InoRange \ {s[k].ino} : super = [s EXCEPT ![k].ino = i]
  <2>1. PICK i \in InoRange \ {s[k].ino} : super = [s EXCEPT ![k].ino = i]
    BY <1>8
  <2>2. super = [j \in 1..n |-> IF j = k THEN [s[k] EXCEPT !.ino = i] ELSE s[j]]
    BY <1>3, <2>1
  <2>3. Len(super) = n
    BY <2>2
  <2>4. \A j \in 1..n : super[j].name = s[j].name
    BY <2>2
  <2>5. super[k].ino = i /\ \A j \in 1..n : j # k => super[j].ino = s[j].ino
    <3>1. PICK e : e = s[k] /\ e = [ino |-> e.ino, type |-> e.type, name |-> e.name]
      <4>1. \A j \in 1..n : \E a, b, c : s[j] = Ent(a, b, c)
        <5>1. CASE Collision
          <6>1. n = 3 /\ \A x \in {1, 2, 3} : \E a, b, c : s[x] = Ent(a, b, c)
            BY <1>1, <1>2, <5>1, SuperAre
          <6> QED BY <6>1
        <5>2. CASE ~Collision
          <6>1. n = 2 /\ \A x \in {1, 2} : \E a, b, c : s[x] = Ent(a, b, c)
            BY <1>1, <1>2, <5>2, SuperAre
          <6> QED BY <6>1
        <5> QED BY <5>1, <5>2
      <4> QED BY <4>1 DEF Ent
    <3>2. [e EXCEPT !.ino = i].ino = i
      BY <3>1
    <3> QED BY <2>2, <3>1, <3>2
  <2>6. Special(lost) = i
    <3>1. \A j \in 1..Len(super) : super[j].name = lost => j = k
      BY <1>3, <1>5, <2>3, <2>4
    <3>2. super[k].name = lost /\ k \in 1..Len(super)
      BY <1>5, <2>3, <2>4
    <3> QED BY <2>5, <3>1, <3>2, SpecialFound
  <2>7. ASSUME NEW other \in ReservedNames, other # lost
        PROVE  Special(other) = Given(other)
    <3>1. CASE other = Resolver => Collision
      <4>1. PICK j \in 1..n : s[j].name = other
        BY <1>3, <3>1
      <4>2. j # k /\ super[j].ino = number[other] /\ super[j].name = other /\ j \in 1..Len(super)
        BY <1>3, <1>5, <2>3, <2>4, <2>5, <2>7, <4>1
      <4>3. \A x \in 1..Len(super) : super[x].name = other => x = j
        BY <1>3, <2>3, <2>4, <4>1
      <4>4. Special(other) = super[j].ino
        BY <4>2, <4>3, SpecialFound
      <4> QED BY <3>1, <4>2, <4>4 DEF Given
    <3>2. CASE ~(other = Resolver => Collision)
      <4>1. \A j \in 1..Len(super) : super[j].name # other
        BY <1>3, <2>3, <2>4, <3>2
      <4> QED BY <3>2, <4>1, SpecialMissing DEF Given
    <3> QED BY <3>1, <3>2
  <2>8. Special(lost) # number[lost]
    BY <1>3, <1>5, <2>1, <2>6
  <2> QED BY <1>5, <2>1, <2>6, <2>7, <2>8 DEF Misled
<1> QED BY <1>4, <1>7, <1>8

LEMMA SuperNoDots ==
  ASSUME SuperHit(SuperEntries) \/ super = SuperEntries
  PROVE  \A k \in 1..Len(super) : super[k].name \notin {Dot, DotDot}
<1>1. PICK s : s = SuperEntries
  OBVIOUS
<1>2. PICK n \in Nat : n = Len(s)
  BY <1>1, SuperNames
<1>3. DOMAIN s = 1..n /\ \A k \in 1..n : s[k].name \in ReservedNames
  BY <1>1, <1>2, SuperNames
<1>4. \A k \in 1..n : s[k].name \notin {Dot, DotDot}
  BY <1>3 DEF ReservedNames, Fpt, Resolver, Root, Dot, DotDot
<1>5. CASE super = s
  BY <1>2, <1>4, <1>5
<1>6. CASE SuperHit(s)
  <2>1. PICK k \in 1..n : super = Without(s, k) \/ \E i : super = [s EXCEPT ![k].ino = i]
    BY <1>2, <1>6 DEF SuperHit
  <2>2. CASE super = Without(s, k)
    <3>1. super = [j \in 1..(n - 1) |-> IF j < k THEN s[j] ELSE s[j + 1]]
      BY <1>2, <2>2 DEF Without
    <3>2. Len(super) = n - 1
      BY <3>1
    <3>3. \A j \in 1..(n - 1) : j \in 1..n /\ j + 1 \in 1..n
      OBVIOUS
    <3> QED BY <1>4, <3>1, <3>2, <3>3
  <2>3. CASE \E i : super = [s EXCEPT ![k].ino = i]
    <3>1. PICK i : super = [s EXCEPT ![k].ino = i]
      BY <2>3
    <3>2. super = [j \in 1..n |-> IF j = k THEN [s[k] EXCEPT !.ino = i] ELSE s[j]]
      BY <1>3, <3>1
    <3>3. Len(super) = n /\ \A j \in 1..n : super[j].name = s[j].name
      BY <3>2
    <3> QED BY <1>4, <3>3
  <2> QED BY <2>1, <2>2, <2>3, Zenon
<1> QED BY <1>1, <1>5, <1>6, Zenon

(* One "." and one "..", and where they lead.                              *)
OneEntry(i, name, ino, type) ==
  \E k \in 1..Len(Payload(i)) :
    /\ Named(i, name) = {k}
    /\ Payload(i)[k].ino = ino /\ Payload(i)[k].type = type

LEMMA OneName ==
  ASSUME NEW i, Len(Payload(i)) \in Nat, NEW name, NEW ino, NEW type,
         Cardinality(Named(i, name)) = 1, ~Wrong(i, name, ino, type)
  PROVE  OneEntry(i, name, ino, type)
<1>1. Named(i, name) \in SUBSET (1..Len(Payload(i)))
  BY DEF Named
<1>2. PICK S : S = Named(i, name)
  OBVIOUS
<1>3. IsFiniteSet(S)
  <2>1. PICK n \in Nat : n = Len(Payload(i))
    OBVIOUS
  <2>2. IsFiniteSet(1..n)
    BY FS_Interval
  <2> QED BY <1>1, <1>2, <2>1, <2>2, FS_Subset
<1>4. PICK k : S = {k}
  BY <1>2, <1>3, FS_Singleton
<1>5. k \in 1..Len(Payload(i)) /\ k \in Named(i, name) /\ \A j \in Named(i, name) : k <= j
  BY <1>1, <1>2, <1>4
<1>6. Payload(i)[k].ino = ino /\ Payload(i)[k].type = type
  BY <1>5 DEF Wrong
<1> QED BY <1>2, <1>4, <1>5, <1>6 DEF OneEntry

LEMMA DotsFine ==
  ASSUME NEW i, Len(Payload(i)) \in Nat, NEW p, DotErrors(i, p) = {}
  PROVE  OneEntry(i, Dot, i, "dot") /\ OneEntry(i, DotDot, p, "dotdot")
<1>1. /\ Cardinality(Named(i, Dot)) = 1 /\ ~Wrong(i, Dot, i, "dot")
      /\ Cardinality(Named(i, DotDot)) = 1 /\ ~Wrong(i, DotDot, p, "dotdot")
  <2>1. \A c, w : When(c, w) = {} => ~c
    BY DEF When
  <2>2. /\ When(Cardinality(Named(i, Dot)) # 1, "dot count") = {}
        /\ When(Wrong(i, Dot, i, "dot"), "dot") = {}
        /\ When(Cardinality(Named(i, DotDot)) # 1, "dotdot count") = {}
        /\ When(Wrong(i, DotDot, p, "dotdot"), "dotdot") = {}
    BY DEF DotErrors
  <2> QED BY <2>2 DEF When
<1> QED BY <1>1, OneName

(* The entries of a directory that was not hit.                            *)
LEMMA DotsAre ==
  ASSUME ScanSound, NEW has, IndexSound(has), NEW d \in PackedDirs \cup {Root},
         NEW E, DirSound(E, number, d)
  PROVE  /\ Len(E) \in Nat /\ Len(E) >= 2
         /\ \A k \in 1..Len(E) : /\ E[k].name = Dot <=> k = 1
                                 /\ E[k].name = DotDot <=> k = 2
         /\ E[1].ino = number[d] /\ E[1].type = "dot"
         /\ E[2].ino = number[IF d = Root THEN Root ELSE Parent[d]] /\ E[2].type = "dotdot"
<1>1. E[1].name = Dot /\ E[1].ino = number[d] /\ E[1].type = "dot"
  BY DEF DirSound, Ent
<1>2. /\ E[2].name = DotDot /\ E[2].ino = number[IF d = Root THEN Root ELSE Parent[d]]
      /\ E[2].type = "dotdot"
  BY DEF DirSound, Ent
<1>3. Len(E) \in Nat /\ Len(E) >= 2
  BY DEF DirSound
<1>4. \A k \in 3..Len(E) : E[k].name \in PathNodes
  BY DEF DirSound
<1>5. \A k \in 1..Len(E) : k = 1 \/ k = 2 \/ k \in 3..Len(E)
  BY <1>3
<1>6. Dot # DotDot /\ \A c \in PathNodes : c \notin {Dot, DotDot}
  BY Reserved DEF Dot, DotDot
<1>7. 1 \notin 3..Len(E) /\ 2 \notin 3..Len(E) /\ 1 # 2
  OBVIOUS
<1> QED BY <1>1, <1>2, <1>3, <1>4, <1>5, <1>6, <1>7

(* An entry a walk lists is a child's.                                     *)
ChildEntry(e, d) ==
  /\ e.name \in PathNodes /\ Parent[e.name] = d
  /\ e = Ent(number[e.name], TypeOf(e.name), e.name)

LEMMA ListedIs ==
  ASSUME ImageInv, Complete, NEW d \in PackedDirs \cup {Root}, NEW i, i = number[d],
         DirSound(dirents[d], number, d)
  PROVE  /\ Payload(i) = dirents[d] /\ Len(Listed(i)) \in Nat
         /\ \A k \in 1..Len(Listed(i)) : ChildEntry(Listed(i)[k], d)
         /\ \A c \in PathNodes : Parent[c] = d =>
              \E k \in 1..Len(Listed(i)) : Listed(i)[k] = Ent(number[c], TypeOf(c), c)
         /\ \A j, k \in 1..Len(Listed(i)) : Listed(i)[j].name = Listed(i)[k].name => j = k
<1>1. ScanSound /\ IndexSound(Collision)
  BY DEF ImageInv
<1>2. d \in DOMAIN number /\ d # Super
  <2>1. d \in PathNodes \cup {Root}
    BY DEF PathNodes
  <2>2. Root \in DOMAIN number /\ PathNodes \subseteq DOMAIN number
    BY <1>1, Reserved
  <2>3. Root # Super /\ \A c \in PathNodes : c # Super
    BY <1>1, Reserved DEF Root, Super
  <2> QED BY <2>1, <2>2, <2>3
<1>3. Payload(i) = dirents[d]
  BY <1>1, <1>2, Placed DEF Payload
<1>4. PICK E : E = dirents[d] /\ DirSound(E, number, d)
  OBVIOUS
<1>5. PICK n \in Nat : n = Len(E)
  BY <1>4 DEF DirSound
<1>6. \A k \in 1..n : (E[k].name = Dot <=> k = 1) /\ (E[k].name = DotDot <=> k = 2)
  BY <1>1, <1>4, <1>5, DotsAre
<1>7. \A k \in 1..n : E[k].name \notin {Dot, DotDot} <=> k \in 3..n
  BY <1>6
<1>8. /\ \A k \in 3..n : ChildEntry(E[k], d)
      /\ \A j, k \in 3..n : E[j].name = E[k].name => j = k
      /\ \A c \in PathNodes : Parent[c] = d => \E k \in 3..n : E[k].name = c
  BY <1>4, <1>5 DEF DirSound, ChildEntry
<1>9. PICK L : L = Listed(i)
  OBVIOUS
<1>10. /\ ListsOf(L, E)
       /\ (\A j, k \in 1..n : E[j].name = E[k].name /\ E[j].name \notin {Dot, DotDot} => j = k)
          => \A x, y \in 1..Len(L) : L[x].name = L[y].name => x = y
  BY <1>3, <1>4, <1>5, <1>9, ListedAre
<1>11. \A j, k \in 1..n : E[j].name = E[k].name /\ E[j].name \notin {Dot, DotDot} => j = k
  BY <1>7, <1>8
<1>12. \A k \in 1..Len(L) : ChildEntry(L[k], d)
  <2> TAKE k \in 1..Len(L)
  <2>1. PICK j \in 1..n : L[k] = E[j] /\ E[j].name \notin {Dot, DotDot}
    BY <1>5, <1>10 DEF ListsOf
  <2> QED BY <1>7, <1>8, <2>1
<1>13. ASSUME NEW c \in PathNodes, Parent[c] = d
       PROVE  \E k \in 1..Len(L) : L[k] = Ent(number[c], TypeOf(c), c)
  <2>1. PICK j \in 3..n : E[j].name = c
    BY <1>8, <1>13
  <2>2. j \in 1..n /\ E[j].name \notin {Dot, DotDot}
    BY <1>7
  <2>3. PICK k \in 1..Len(L) : L[k] = E[j]
    BY <1>5, <1>10, <2>2 DEF ListsOf
  <2>4. E[j] = Ent(number[c], TypeOf(c), c)
    BY <1>8, <2>1 DEF ChildEntry
  <2> QED BY <2>3, <2>4
<1> QED BY <1>3, <1>4, <1>9, <1>10, <1>11, <1>12, <1>13 DEF ListsOf

-----------------------------------------------------------------------------
(* What an inspection without findings has seen                            *)

Clean == ImageInv /\ WalkInv /\ Started /\ errors = {}

LEMMA CleanMeans ==
  ASSUME Clean
  PROVE  /\ ImageInv /\ WalkInv /\ Complete /\ ScanSound /\ IndexSound(Collision)
         /\ WalkedWith(stack, visited, fileIno, dirIno)
         /\ Special(Root) \in visited /\ DotErrors(Special(Root), Special(Root)) = {}
         /\ SuperHit(SuperEntries) \/ super = SuperEntries
<1>1. ImageInv /\ WalkInv /\ Complete
  BY DEF Clean, Started, Complete
<1>2. WalkedWith(stack, visited, fileIno, dirIno) /\ visited # {}
  BY DEF Clean, WalkInv
<1>3. SuperHit(SuperEntries) \/ super = SuperEntries
  <2>1. PICK D : Links(D)
    BY <1>1 DEF ImageInv
  <2> QED BY <2>1 DEF Links
<1> QED BY <1>1, <1>2, <1>3 DEF WalkedWith, ImageInv

(* Only packed directories are entered, each from one that lists it.       *)
LEMMA VisitedAre ==
  ASSUME Clean, NEW i \in visited
  PROVE  /\ Object(i) \in PackedDirs \cup {Root} /\ number[Object(i)] = i
         /\ InRange(i) /\ IsDir(i) /\ Len(Payload(i)) \in Nat
         /\ OneEntry(i, Dot, i, "dot")
         /\ \E up \in visited : /\ OneEntry(i, DotDot, up, "dotdot")
                                /\ (i = Special(Root) /\ up = i) \/ Child(up, i, "dir")
<1>1. PICK up \in visited : /\ InRange(i) /\ IsDir(i) /\ DotErrors(i, up) = {}
                            /\ (i = Special(Root) /\ up = i) \/ Child(up, i, "dir")
  BY CleanMeans DEF WalkedWith, Entered
<1>2. /\ Object(i) = Super \/ Object(i) \in PackedDirs \cup {Root}
      /\ number[Object(i)] = i /\ Len(Payload(i)) \in Nat
  BY <1>1, CleanMeans, PayloadsAre
<1>3. OneEntry(i, Dot, i, "dot") /\ OneEntry(i, DotDot, up, "dotdot")
  BY <1>1, <1>2, DotsFine
<1>4. Object(i) # Super
  <2> SUFFICES ASSUME Object(i) = Super PROVE FALSE
    OBVIOUS
  <2>1. Payload(i) = super
    BY DEF Payload
  <2>2. PICK k \in 1..Len(super) : k \in Named(i, Dot)
    BY <1>3, <2>1 DEF OneEntry
  <2>3. super[k].name = Dot
    BY <2>1, <2>2 DEF Named
  <2> QED BY <2>3, CleanMeans, SuperNoDots
<1> QED BY <1>1, <1>2, <1>3, <1>4

(* Where the tree was not hit, it is the one that was built.               *)
LEMMA TreeWhole ==
  ASSUME ImageInv, Complete, damage # "entry"
  PROVE  TreeSound(dirents)
BY DEF ImageInv, Links

LEMMA RootIsRoot ==
  ASSUME Clean
  PROVE  Special(Root) = number[Root]
<1>1. CASE super = SuperEntries
  BY <1>1, SuperWhole DEF Given, ReservedNames, Root, Resolver
<1>2. CASE super # SuperEntries
  <2>1. PICK D : TreeSound(D) /\ Links(D)
    BY CleanMeans DEF ImageInv
  <2>2. TreeSound(dirents) /\ SuperHit(SuperEntries)
    BY <1>2, <2>1 DEF Links
  <2>3. PICK lost : Misled(lost)
    BY <2>2, CleanMeans, SuperDamaged
  <2>4. CASE lost # Root
    BY <2>3, <2>4 DEF Misled, Given, ReservedNames, Root, Resolver
  <2>5. CASE lost = Root
    <3>1. PICK r : r = Special(Root) /\ r \in visited /\ DotErrors(r, r) = {} /\ r # number[Root]
      BY <2>3, <2>5, CleanMeans DEF Misled
    <3>2. Len(Payload(r)) \in Nat /\ Object(r) \in PackedDirs \cup {Root} /\ number[Object(r)] = r
      BY <3>1, VisitedAre
    <3>3. PICK d : d = Object(r) /\ d \in PackedDirs /\ number[d] = r
      BY <3>1, <3>2
    <3>4. OneEntry(r, DotDot, r, "dotdot")
      BY <3>1, <3>2, DotsFine
    <3>5. DirSound(dirents[d], number, d)
      BY <2>2, <3>3 DEF TreeSound
    <3>6. d # Root /\ d # Super /\ d \in PathNodes /\ Parent[d] \in PackedDirs \cup {Root}
          /\ Parent[d] # d
      <4>1. d \in PathNodes
        BY <3>3 DEF PathNodes
      <4>2. d \in Nodes /\ Parent[d] < d /\ d \in Nat
        BY <4>1, CleanMeans, NodesPacked, PlacesFacts
      <4> QED BY <4>1, <4>2, CleanMeans, NodesPacked, PlacesFacts DEF Root, Super
    <3>7. Payload(r) = dirents[d]
      BY <3>3, <3>6 DEF Payload
    <3>8. PICK E : E = dirents[d]
      OBVIOUS
    <3>9. /\ \A k \in 1..Len(E) : E[k].name = DotDot => k = 2
          /\ E[2].ino = number[Parent[d]]
      <4>1. d \in PackedDirs \cup {Root}
        BY <3>3
      <4> QED BY <3>5, <3>6, <3>8, <4>1, CleanMeans, DotsAre
    <3>10. number[Parent[d]] = number[d]
      <4>1. PICK k \in 1..Len(E) : k \in Named(r, DotDot) /\ E[k].ino = r
        BY <3>4, <3>7, <3>8 DEF OneEntry
      <4>2. E[k].name = DotDot
        BY <3>7, <3>8, <4>1 DEF Named
      <4> QED BY <3>3, <3>9, <4>1, <4>2
    <3>11. d \in DOMAIN number /\ Parent[d] \in DOMAIN number
      <4>1. PathNodes \subseteq DOMAIN number /\ Root \in DOMAIN number
        BY CleanMeans, Reserved
      <4> QED BY <3>6, <4>1 DEF PathNodes
    <3>12. Parent[d] = d
      BY <3>10, <3>11, CleanMeans, Placed
    <3> QED BY <3>6, <3>12
  <2> QED BY <2>4, <2>5
<1> QED BY <1>1, <1>2

(* In a directory that was not hit every entry walked over is a child's.   *)
LEMMA LinkedAre ==
  ASSUME Clean, NEW up \in visited, NEW i, NEW t, Child(up, i, t),
         TreeSound(dirents) \/ DirSound(dirents[Object(up)], number, Object(up))
  PROVE  \E c \in PathNodes : i = number[c] /\ t = TypeOf(c) /\ Parent[c] = Object(up)
<1>1. PICK d : d = Object(up) /\ d \in PackedDirs \cup {Root} /\ up = number[d]
  BY VisitedAre
<1>2. DirSound(dirents[d], number, d)
  BY <1>1 DEF TreeSound
<1>3. PICK u : u = up
  OBVIOUS
<1>4. \A k \in 1..Len(Listed(u)) : ChildEntry(Listed(u)[k], d)
  BY <1>1, <1>2, <1>3, CleanMeans, ListedIs
<1>5. PICK k \in 1..Len(Listed(u)) : Listed(u)[k].ino = i /\ Listed(u)[k].type = t
  BY <1>3 DEF Child
<1>6. PICK e : e = Listed(u)[k] /\ ChildEntry(e, d)
  BY <1>4
<1>7. e.name \in PathNodes /\ e.ino = number[e.name] /\ e.type = TypeOf(e.name) /\ Parent[e.name] = d
  BY <1>6 DEF ChildEntry, Ent
<1> QED BY <1>1, <1>5, <1>6, <1>7

LEMMA SuperReported ==
  ASSUME Clean, Inspected
  PROVE  super = SuperEntries
<1> SUFFICES ASSUME super # SuperEntries PROVE FALSE
  OBVIOUS
<1>1. TreeSound(dirents) /\ SuperHit(SuperEntries)
  <2>1. PICK D : TreeSound(D) /\ Links(D)
    BY CleanMeans DEF ImageInv
  <2> QED BY <2>1 DEF Links
<1>2. PICK lost : Misled(lost)
  BY <1>1, CleanMeans, SuperDamaged
<1>3. lost \in {Fpt, Resolver} /\ (lost = Resolver => Collision)
  BY <1>2, RootIsRoot DEF Misled, ReservedNames
<1>4. lost \in DOMAIN number /\ lost \notin PathNodes /\ lost \notin Dirs \cup {Root, Super}
  <2>1. lost \in DOMAIN number /\ lost \notin PathNodes
    BY <1>3, CleanMeans, Reserved
  <2>2. lost \notin Dirs
    BY <1>3, PlacesFacts DEF Nodes, Fpt, Resolver
  <2> QED BY <1>3, <2>1, <2>2 DEF Fpt, Resolver, Root, Super
<1>5. PICK i : i = number[lost] /\ InRange(i) /\ Object(i) = lost
  BY <1>4, CleanMeans, Placed
<1>6. ~IsDir(i)
  BY <1>4, <1>5 DEF IsDir
<1>7. i \in Reachable
  BY <1>5 DEF Clean, WalkInv, Finished
<1>8. i \notin ImageRange(dirIno)
  <2> SUFFICES ASSUME NEW p \in DOMAIN dirIno, i = dirIno[p] PROVE FALSE
    BY DEF ImageRange
  <2>1. i \in visited
    BY CleanMeans DEF WalkedWith
  <2> QED BY <1>6, <2>1, VisitedAre
<1>9. i \notin ImageRange(fileIno)
  <2> SUFFICES ASSUME NEW p \in DOMAIN fileIno, i = fileIno[p] PROVE FALSE
    BY DEF ImageRange
  <2>1. PICK up \in visited : Child(up, i, "file")
    BY CleanMeans DEF WalkedWith, FilesLinked
  <2>2. PICK c \in PathNodes : i = number[c]
    BY <1>1, <2>1, LinkedAre
  <2>3. c \in DOMAIN number
    BY CleanMeans, Reserved
  <2>4. c = lost
    BY <1>4, <1>5, <2>2, <2>3, CleanMeans, Placed
  <2> QED BY <1>4, <2>4
<1>10. i # 0
  <2>1. number[Super] = 0 /\ Super \in DOMAIN number
    BY CleanMeans, Reserved
  <2>2. lost # Super
    BY <1>4
  <2> QED BY <1>4, <1>5, <2>1, <2>2, CleanMeans, Placed
<1>11. ASSUME NEW name \in ReservedNames, Special(name) = i
       PROVE  FALSE
  <2>1. name # lost
    BY <1>2, <1>5, <1>11 DEF Misled
  <2>2. Special(name) = Given(name)
    BY <1>2, <2>1 DEF Misled
  <2>3. i \in Nat
    BY <1>5, CleanMeans, Placed
  <2>4. Special(name) = number[name] /\ name \in DOMAIN number
    <3>1. Given(name) # None
      BY <1>11, <2>2, <2>3 DEF None
    <3>2. Special(name) = number[name] /\ (name = Resolver => Collision)
      BY <2>2, <3>1 DEF Given
    <3> QED BY <3>2, CleanMeans, Reserved DEF ReservedNames
  <2> QED BY <1>4, <1>5, <1>11, <2>1, <2>4, CleanMeans, Placed
<1> QED BY <1>7, <1>8, <1>9, <1>10, <1>11 DEF Reachable, ReservedNames

(* An image without orphans was walked over completely.                    *)
LEMMA AllEntered ==
  ASSUME Clean, Inspected
  PROVE  /\ \A d \in PackedDirs \cup {Root} : number[d] \in visited
         /\ \A d \in PackedDirs : \E p \in DOMAIN dirIno : dirIno[p] = number[d]
         /\ \A f \in packed : \E p \in DOMAIN fileIno : fileIno[p] = number[f]
<1>1. \A name \in ReservedNames : Special(name) = Given(name)
  BY SuperReported, SuperWhole
<1>2. ASSUME NEW n \in PathNodes
      PROVE  /\ InRange(number[n]) /\ Object(number[n]) = n /\ number[n] \in Reachable
             /\ n \in DOMAIN number /\ n \in Nodes
             /\ number[n] # 0
             /\ \A name \in ReservedNames : number[n] # Special(name)
  <2>1. n \in DOMAIN number /\ n \in Nodes /\ n \notin {Super, Fpt, Root, Resolver}
    BY CleanMeans, Reserved
  <2>2. InRange(number[n]) /\ Object(number[n]) = n
    BY <2>1, CleanMeans, Placed
  <2>3. number[n] \in Reachable
    BY <2>2 DEF Clean, WalkInv, Finished
  <2>4. number[n] # 0
    <3>1. number[Super] = 0 /\ Super \in DOMAIN number
      BY CleanMeans, Reserved
    <3> QED BY <2>1, <3>1, CleanMeans, Placed
  <2>5. ASSUME NEW name \in ReservedNames
        PROVE  number[n] # Special(name)
    <3>1. Special(name) = Given(name)
      BY <1>1
    <3>2. CASE name = Resolver /\ ~Collision
      <4>1. number[n] \in Nat
        BY <2>2, CleanMeans, Placed
      <4> QED BY <3>1, <3>2, <4>1 DEF Given, None
    <3>3. CASE ~(name = Resolver /\ ~Collision)
      <4>1. Special(name) = number[name] /\ name \in DOMAIN number
        BY <3>1, <3>3, CleanMeans, Reserved DEF Given, ReservedNames
      <4>2. n # name
        BY <2>1 DEF ReservedNames
      <4> QED BY <2>1, <4>1, <4>2, CleanMeans, Placed
    <3> QED BY <3>2, <3>3
  <2> QED BY <2>1, <2>2, <2>3, <2>4, <2>5
<1>3. ASSUME NEW n \in PathNodes
      PROVE  \/ \E p \in DOMAIN fileIno : fileIno[p] = number[n]
             \/ \E p \in DOMAIN dirIno : dirIno[p] = number[n]
  BY <1>2 DEF Reachable, ImageRange, ReservedNames
<1>4. ASSUME NEW d \in PackedDirs
      PROVE  number[d] \in visited /\ \E p \in DOMAIN dirIno : dirIno[p] = number[d]
  <2>1. d \in PathNodes /\ d \in Dirs
    BY CleanMeans, NodesPacked DEF PathNodes
  <2>2. PICK i : i = number[d]
    OBVIOUS
  <2>3. IsDir(i)
    BY <1>2, <2>1, <2>2 DEF IsDir
  <2>4. ~\E p \in DOMAIN fileIno : fileIno[p] = i
    BY <2>3, CleanMeans DEF WalkedWith, FilesLinked
  <2>5. \E p \in DOMAIN dirIno : dirIno[p] = i
    BY <1>3, <2>1, <2>2, <2>4
  <2> QED BY <2>2, <2>5, CleanMeans DEF WalkedWith
<1>5. number[Root] \in visited
  BY CleanMeans, RootIsRoot
<1>6. ASSUME NEW f \in packed
      PROVE  \E p \in DOMAIN fileIno : fileIno[p] = number[f]
  <2>1. f \in PathNodes /\ f \in Files
    BY CleanMeans, NodesPacked DEF PathNodes
  <2>2. PICK i : i = number[f]
    OBVIOUS
  <2>3. Object(i) = f /\ f \in Nodes
    BY <1>2, <2>1, <2>2
  <2>4. ~IsDir(i)
    <3>1. f \notin Dirs /\ f # Root /\ f # Super
      BY <2>1, <2>3, TreeAssumption, PlacesFacts DEF Super
    <3> QED BY <2>3, <3>1 DEF IsDir
  <2>5. ~\E p \in DOMAIN dirIno : dirIno[p] = i
    <3> SUFFICES ASSUME NEW p \in DOMAIN dirIno, dirIno[p] = i PROVE FALSE
      OBVIOUS
    <3>1. i \in visited
      BY CleanMeans DEF WalkedWith
    <3> QED BY <2>4, <3>1, VisitedAre
  <2> QED BY <1>3, <2>1, <2>2, <2>5
<1> QED BY <1>4, <1>5, <1>6

-----------------------------------------------------------------------------
(* A damaged directory                                                     *)

(* The k-th of the entries E is lost, doubled or altered in F.             *)
Lost(E, F, k) == \A x \in 1..Len(F) : \E j \in 1..Len(E) : j # k /\ F[x] = E[j]

Twice(E, F, k) ==
  /\ k \in 1..Len(F) /\ k + 1 \in 1..Len(F) /\ F[k] = E[k] /\ F[k + 1] = E[k]
  /\ \A x \in 1..Len(F) : \E j \in 1..Len(E) : F[x] = E[j]

Altered(E, F, k) ==
  /\ k \in 1..Len(F) /\ F[k].name = E[k].name
  /\ \/ F[k].ino # E[k].ino /\ F[k].type = E[k].type
     \/ F[k].ino = E[k].ino /\ F[k].type # E[k].type
  /\ \A x \in 1..Len(F) : x \in 1..Len(E) /\ (x # k => F[x] = E[x])

LEMMA HitCases ==
  ASSUME NEW n \in Nat, NEW E, Len(E) = n, DOMAIN E = 1..n, NEW k \in 1..n,
         NEW a, NEW b, NEW c, E[k] = Ent(a, b, c), NEW F, NEW inos, ListHit(E, F, k, inos)
  PROVE  Lost(E, F, k) \/ Twice(E, F, k) \/ Altered(E, F, k)
<1>1. CASE F = Without(E, k)
  <2>1. F = [j \in 1..(n - 1) |-> IF j < k THEN E[j] ELSE E[j + 1]]
    BY <1>1 DEF Without
  <2>2. Len(F) = n - 1
    BY <2>1
  <2>3. ASSUME NEW x \in 1..(n - 1)
        PROVE  \E j \in 1..n : j # k /\ F[x] = E[j]
    <3>1. CASE x < k
      BY <2>1, <3>1
    <3>2. CASE ~(x < k)
      <4>1. x + 1 \in 1..n /\ x + 1 # k /\ F[x] = E[x + 1]
        BY <2>1, <3>2
      <4> QED BY <4>1
    <3> QED BY <3>1, <3>2
  <2> QED BY <2>2, <2>3 DEF Lost
<1>2. CASE F = Doubled(E, k)
  <2>1. F = [j \in 1..(n + 1) |-> IF j <= k THEN E[j] ELSE E[j - 1]]
    BY <1>2 DEF Doubled
  <2>2. Len(F) = n + 1
    BY <2>1
  <2>3. ASSUME NEW x \in 1..(n + 1)
        PROVE  \E j \in 1..n : F[x] = E[j]
    <3>1. CASE x <= k
      <4>1. x \in 1..n /\ F[x] = E[x]
        BY <2>1, <3>1
      <4> QED BY <4>1
    <3>2. CASE ~(x <= k)
      <4>1. x - 1 \in 1..n /\ F[x] = E[x - 1]
        BY <2>1, <3>2
      <4> QED BY <4>1
    <3> QED BY <3>1, <3>2
  <2>4. k \in 1..(n + 1) /\ k + 1 \in 1..(n + 1) /\ F[k] = E[k]
    BY <2>1
  <2>5. F[k + 1] = E[k]
    <3>1. F[k + 1] = E[(k + 1) - 1] /\ (k + 1) - 1 = k
      BY <2>1
    <3> QED BY <3>1
  <2> QED BY <2>2, <2>3, <2>4, <2>5 DEF Twice
<1>3. ASSUME NEW e, F = [E EXCEPT ![k] = e]
      PROVE  Len(F) = n /\ F[k] = e /\ \A x \in 1..n : x # k => F[x] = E[x]
  <2>1. F = [x \in 1..n |-> IF x = k THEN e ELSE E[x]]
    BY <1>3
  <2> QED BY <2>1
<1>4. CASE \E i \in inos \ {E[k].ino} : F = [E EXCEPT ![k] = [E[k] EXCEPT !.ino = i]]
  <2>1. PICK i \in inos \ {E[k].ino} : F = [E EXCEPT ![k] = [E[k] EXCEPT !.ino = i]]
    BY <1>4
  <2>2. PICK e : e = [E[k] EXCEPT !.ino = i]
    OBVIOUS
  <2>3. e.ino = i /\ e.type = E[k].type /\ e.name = E[k].name
    BY <2>2 DEF Ent
  <2>4. Len(F) = n /\ F[k] = e /\ \A x \in 1..n : x # k => F[x] = E[x]
    BY <1>3, <2>1, <2>2
  <2>5. F[k].name = E[k].name /\ F[k].ino # E[k].ino /\ F[k].type = E[k].type
    BY <2>1, <2>3, <2>4
  <2> QED BY <2>4, <2>5 DEF Altered
<1>5. CASE \E t \in {"dir", "file", "dot", "dotdot", "none"} \ {E[k].type} :
             F = [E EXCEPT ![k] = [E[k] EXCEPT !.type = t]]
  <2>1. PICK t : t # E[k].type /\ F = [E EXCEPT ![k] = [E[k] EXCEPT !.type = t]]
    BY <1>5
  <2>2. PICK e : e = [E[k] EXCEPT !.type = t]
    OBVIOUS
  <2>3. e.ino = E[k].ino /\ e.type = t /\ e.name = E[k].name
    BY <2>2 DEF Ent
  <2>4. Len(F) = n /\ F[k] = e /\ \A x \in 1..n : x # k => F[x] = E[x]
    BY <1>3, <2>1, <2>2
  <2>5. F[k].name = E[k].name /\ F[k].ino = E[k].ino /\ F[k].type # E[k].type
    BY <2>1, <2>3, <2>4
  <2> QED BY <2>4, <2>5 DEF Altered
<1> QED BY <1>1, <1>2, <1>4, <1>5 DEF ListHit

(* Of the entries with one name, the only one was left as it is.           *)
LEMMA OneLeft ==
  ASSUME NEW E, Len(E) \in Nat, NEW k \in 1..Len(E), NEW i, NEW ino,
         Lost(E, Payload(i), k) \/ Twice(E, Payload(i), k) \/ Altered(E, Payload(i), k),
         \A j \in 1..Len(E) : E[j].name = E[k].name => j = k,
         OneEntry(i, E[k].name, ino, E[k].type)
  PROVE  ino # E[k].ino
<1>1. PICK x \in 1..Len(Payload(i)) :
        /\ Named(i, E[k].name) = {x}
        /\ Payload(i)[x].ino = ino /\ Payload(i)[x].type = E[k].type
  BY DEF OneEntry
<1>2. \A y \in 1..Len(Payload(i)) : Payload(i)[y].name = E[k].name => y = x
  BY <1>1 DEF Named
<1>3. Payload(i)[x].name = E[k].name
  BY <1>1 DEF Named
<1>4. CASE Lost(E, Payload(i), k)
  BY <1>3, <1>4 DEF Lost
<1>5. CASE Twice(E, Payload(i), k)
  <2>1. k = x /\ k + 1 = x
    BY <1>2, <1>5 DEF Twice
  <2> QED BY <2>1
<1>6. CASE Altered(E, Payload(i), k)
  <2>1. k = x
    BY <1>2, <1>6 DEF Altered
  <2> QED BY <1>1, <1>6, <2>1 DEF Altered
<1> QED BY <1>4, <1>5, <1>6

(* A child's number is named by an entry that was walked over.             *)
LEMMA NamedSomewhere ==
  ASSUME Clean, Inspected, NEW c \in PathNodes
  PROVE  \E up \in visited : \E t : Child(up, number[c], t)
<1>1. PICK i : i = number[c]
  OBVIOUS
<1>2. c \in DOMAIN number /\ c # Root
  BY CleanMeans, Reserved
<1>3. CASE c \in PackedDirs
  <2>1. i \in visited
    BY <1>1, <1>3, AllEntered
  <2>2. i # Special(Root)
    <3>1. Root \in DOMAIN number
      BY CleanMeans, Reserved
    <3> QED BY <1>1, <1>2, <3>1, RootIsRoot, CleanMeans, Placed
  <2>3. PICK up \in visited : Child(up, i, "dir")
    BY <2>1, <2>2, VisitedAre
  <2> QED BY <1>1, <2>3
<1>4. CASE c \in packed
  <2>1. PICK p \in DOMAIN fileIno : fileIno[p] = i
    BY <1>1, <1>4, AllEntered
  <2>2. PICK up \in visited : Child(up, i, "file")
    BY <2>1, CleanMeans DEF WalkedWith, FilesLinked
  <2> QED BY <1>1, <2>2
<1> QED BY <1>3, <1>4 DEF PathNodes

(* A walk without findings: the tree was not hit.                          *)
LEMMA EntryReported ==
  ASSUME Clean, Inspected
  PROVE  damage # "entry"
<1> SUFFICES ASSUME damage = "entry" PROVE FALSE
  OBVIOUS
<1>1. PICK D : TreeSound(D) /\ EntryHit(D, dirents, InoRange)
  BY CleanMeans DEF ImageInv, Links
<1>2. PICK d, k : HitAt(D, d, k)
  BY <1>1, WhereHit
<1>3. PICK E, F : E = D[d] /\ F = dirents[d]
  OBVIOUS
<1>4. /\ d \in PackedDirs \cup {Root} /\ DirSound(E, number, d)
      /\ k \in 1..Len(E) /\ ListHit(E, F, k, InoRange)
      /\ \A e \in PackedDirs \cup {Root} : e # d => dirents[e] = D[e] /\ DirSound(dirents[e], number, e)
  BY <1>1, <1>2, <1>3 DEF HitAt, TreeSound
<1>5. /\ Len(E) \in Nat /\ DOMAIN E = 1..Len(E)
      /\ \A j \in 1..Len(E) : /\ E[j].name = Dot <=> j = 1
                              /\ E[j].name = DotDot <=> j = 2
      /\ E[1].ino = number[d] /\ E[1].type = "dot"
      /\ E[2].ino = number[IF d = Root THEN Root ELSE Parent[d]] /\ E[2].type = "dotdot"
  <2>1. DOMAIN E = 1..Len(E)
    BY <1>4 DEF DirSound
  <2> QED BY <1>4, <2>1, CleanMeans, DotsAre
<1>6. /\ \A j \in 3..Len(E) : ChildEntry(E[j], d)
      /\ \A i, j \in 3..Len(E) : E[i].name = E[j].name => i = j
  BY <1>4 DEF DirSound, ChildEntry
<1>7. Lost(E, F, k) \/ Twice(E, F, k) \/ Altered(E, F, k)
  <2>1. \E a, b, c : E[k] = Ent(a, b, c)
    <3>1. k = 1 \/ k = 2 \/ k \in 3..Len(E)
      BY <1>4, <1>5
    <3> QED BY <1>4, <1>6, <3>1 DEF DirSound, ChildEntry
  <2>2. PICK a, b, c : E[k] = Ent(a, b, c)
    BY <2>1, Zenon
  <2>3. PICK n \in Nat : n = Len(E)
    BY <1>5
  <2>4. PICK inos : ListHit(E, F, k, inos)
    BY <1>4
  <2> QED BY <1>4, <1>5, <2>2, <2>3, <2>4, HitCases
<1>8. PICK i : i = number[d] /\ i \in visited
  BY <1>4, AllEntered
<1>9. /\ Object(i) = d /\ Payload(i) = F /\ Len(Payload(i)) \in Nat /\ d \in DOMAIN number
  <2>1. Object(i) \in PackedDirs \cup {Root} /\ number[Object(i)] = i /\ Len(Payload(i)) \in Nat
    BY <1>8, VisitedAre
  <2>2. PackedDirs \cup {Root} \subseteq DOMAIN number
    BY CleanMeans, Reserved DEF PathNodes
  <2>3. Object(i) = d
    BY <1>4, <1>8, <2>1, <2>2, CleanMeans, Placed
  <2>4. d # Super
    <3>1. Root # Super
      BY DEF Root, Super
    <3>2. \A c \in PackedDirs : c # Super
      BY CleanMeans, Reserved DEF PathNodes
    <3> QED BY <1>4, <3>1, <3>2
  <2> QED BY <1>3, <1>4, <2>1, <2>2, <2>3, <2>4 DEF Payload
<1>10. OneEntry(i, Dot, i, "dot")
  BY <1>8, VisitedAre
<1>11. PICK up \in visited : /\ OneEntry(i, DotDot, up, "dotdot")
                             /\ (i = Special(Root) /\ up = i) \/ Child(up, i, "dir")
  BY <1>8, VisitedAre
<1>12. ListsOf(Listed(i), F)
  BY <1>9, ListedAre
<1>13. stack = <<>> /\ Len(stack) = 0
  <2>1. stack = <<>>
    BY DEF Clean, WalkInv, Finished
  <2> QED BY <2>1
<1>14. \A x \in 1..Len(Listed(i)) : EntryFine(i, x)
  <2>1. EntriesFine(stack, visited)
    BY CleanMeans DEF WalkedWith
  <2>2. 1..Len(stack) = {}
    BY <1>13
  <2> QED BY <1>8, <2>1, <2>2 DEF EntriesFine
(* Its own entry is right.                                                 *)
<1>15. k # 1
  <2> SUFFICES ASSUME k = 1 PROVE FALSE
    OBVIOUS
  <2>1. E[k].name = Dot /\ E[k].type = "dot" /\ E[k].ino = i
    BY <1>4, <1>5, <1>8
  <2>2. \A j \in 1..Len(E) : E[j].name = E[k].name => j = k
    BY <1>5, <2>1
  <2>3. OneEntry(i, E[k].name, i, E[k].type)
    BY <1>10, <2>1
  <2>4. Lost(E, Payload(i), k) \/ Twice(E, Payload(i), k) \/ Altered(E, Payload(i), k)
    BY <1>7, <1>9
  <2>5. Len(E) \in Nat /\ k \in 1..Len(E)
    BY <1>4, <1>5
  <2>6. i # E[k].ino
    BY <2>2, <2>3, <2>4, <2>5, OneLeft
  <2> QED BY <2>1, <2>6
(* An entry left as it was is a child's, or one of the first two.          *)
<1>16. ASSUME NEW x \in 1..Len(F), NEW j \in 1..Len(E), F[x] = E[j], F[x].name \notin {Dot, DotDot}
       PROVE  j \in 3..Len(E) /\ ChildEntry(F[x], d)
  <2>1. j # 1 /\ j # 2
    BY <1>5, <1>16
  <2>2. j \in 3..Len(E)
    BY <1>5, <2>1
  <2> QED BY <1>6, <1>16, <2>2
(* So is the one of its parent.                                            *)
<1>17. k # 2
  <2> SUFFICES ASSUME k = 2 PROVE FALSE
    OBVIOUS
  <2>1. E[k].name = DotDot /\ E[k].type = "dotdot"
        /\ E[k].ino = number[IF d = Root THEN Root ELSE Parent[d]]
    BY <1>4, <1>5
  <2>2. \A j \in 1..Len(E) : E[j].name = E[k].name => j = k
    BY <1>5, <2>1
  <2>3. up # E[k].ino
    <3>1. OneEntry(i, E[k].name, up, E[k].type)
      BY <1>11, <2>1
    <3>2. Lost(E, Payload(i), k) \/ Twice(E, Payload(i), k) \/ Altered(E, Payload(i), k)
      BY <1>7, <1>9
    <3>3. Len(E) \in Nat /\ k \in 1..Len(E)
      BY <1>4, <1>5
    <3> QED BY <2>2, <3>1, <3>2, <3>3, OneLeft
  <2>4. CASE i = Special(Root) /\ up = i
    <3>1. d = Root
      <4>1. Root \in DOMAIN number
        BY CleanMeans, Reserved
      <4> QED BY <1>8, <1>9, <2>4, <4>1, RootIsRoot, CleanMeans, Placed
    <3> QED BY <1>8, <2>1, <2>3, <2>4, <3>1
  <2>5. CASE Child(up, i, "dir")
    <3>1. PICK e : e = Object(up) /\ e \in PackedDirs \cup {Root} /\ up = number[e]
      BY VisitedAre
    <3>2. \E c \in PathNodes : i = number[c] /\ Parent[c] = e
      <4>1. CASE e # d
        <5>1. DirSound(dirents[e], number, e)
          BY <1>4, <3>1, <4>1
        <5> QED BY <2>5, <3>1, <5>1, LinkedAre
      <4>2. CASE e = d
        <5>1. Payload(up) = F /\ up = i
          BY <1>8, <1>9, <3>1, <4>2
        <5>2. PICK y \in 1..Len(Listed(up)) : Listed(up)[y].ino = i
          BY <2>5 DEF Child
        <5>3. PICK x \in 1..Len(F) : F[x].ino = i /\ F[x].name \notin {Dot, DotDot}
          BY <1>12, <5>1, <5>2 DEF ListsOf
        <5>4. \E j \in 1..Len(E) : F[x] = E[j]
          <6>1. CASE Lost(E, F, k) \/ Twice(E, F, k)
            BY <6>1 DEF Lost, Twice
          <6>2. CASE Altered(E, F, k)
            BY <2>1, <5>3, <6>2 DEF Altered
          <6> QED BY <1>7, <6>1, <6>2
        <5>5. ChildEntry(F[x], d)
          BY <1>16, <5>3, <5>4
        <5>6. F[x].name \in PathNodes /\ F[x].ino = number[F[x].name] /\ Parent[F[x].name] = d
          BY <5>5 DEF ChildEntry, Ent
        <5> QED BY <4>2, <5>3, <5>6
      <4> QED BY <4>1, <4>2
    <3>3. PICK c \in PathNodes : i = number[c] /\ Parent[c] = e
      BY <3>2
    <3>4. c = d /\ c # Root
      <4>1. c \in DOMAIN number /\ c # Root
        BY CleanMeans, Reserved
      <4> QED BY <1>8, <1>9, <3>3, <4>1, CleanMeans, Placed
    <3> QED BY <2>1, <2>3, <3>1, <3>3, <3>4
  <2> QED BY <1>11, <2>4, <2>5
(* A child's entry cannot be missing, double or wrong.                     *)
<1>18. k \in 3..Len(E)
  BY <1>4, <1>5, <1>15, <1>17
<1>19. PICK c : c = E[k].name /\ ChildEntry(E[k], d)
  BY <1>6, <1>18
<1>20. /\ c \in PathNodes /\ Parent[c] = d /\ c \in DOMAIN number
       /\ E[k].ino = number[c] /\ E[k].type = TypeOf(c) /\ c \notin {Dot, DotDot}
  <2>1. c \in PathNodes /\ Parent[c] = d /\ E[k] = Ent(number[c], TypeOf(c), c)
    BY <1>19 DEF ChildEntry
  <2>2. c \in DOMAIN number /\ c \notin {Dot, DotDot}
    BY <2>1, CleanMeans, Reserved
  <2> QED BY <2>1, <2>2 DEF Ent
<1>21. ~Twice(E, F, k)
  <2> SUFFICES ASSUME Twice(E, F, k) PROVE FALSE
    OBVIOUS
  <2>1. /\ k \in 1..Len(F) /\ k + 1 \in 1..Len(F) /\ k < k + 1
        /\ F[k].name = c /\ F[k + 1].name = c
    BY <1>19 DEF Twice
  <2>2. PICK x, y \in 1..Len(Listed(i)) :
          x < y /\ Listed(i)[x] = F[k] /\ Listed(i)[y] = F[k + 1]
    <3>1. \A a, b \in 1..Len(Payload(i)) :
              /\ a < b /\ Payload(i)[a].name = Payload(i)[b].name
              /\ Payload(i)[a].name \notin {Dot, DotDot}
              => \E x, y \in 1..Len(Listed(i)) :
                   x < y /\ Listed(i)[x] = Payload(i)[a] /\ Listed(i)[y] = Payload(i)[b]
      BY <1>9, ListedAre
    <3> QED BY <1>9, <1>20, <2>1, <3>1
  <2>3. x \in 1..(y - 1)
    BY <1>12, <2>2 DEF ListsOf
  <2> QED BY <1>14, <2>1, <2>2, <2>3 DEF EntryFine
<1>22. PICK over \in visited : \E t : Child(over, number[c], t)
  BY <1>20, NamedSomewhere
<1>23. PICK t : Child(over, number[c], t)
  BY <1>22
<1>24. PICK e : e = Object(over) /\ e \in PackedDirs \cup {Root} /\ over = number[e]
  BY VisitedAre
<1>25. e = d
  <2> SUFFICES ASSUME e # d PROVE FALSE
    OBVIOUS
  <2>1. DirSound(dirents[e], number, e)
    BY <1>4, <1>24
  <2>2. PICK b \in PathNodes : number[c] = number[b] /\ Parent[b] = e
    BY <1>23, <1>24, <2>1, LinkedAre
  <2>3. b \in DOMAIN number
    BY CleanMeans, Reserved
  <2> QED BY <1>20, <2>2, <2>3, CleanMeans, Placed
<1>26. PICK x \in 1..Len(F) : F[x].ino = number[c] /\ F[x].name \notin {Dot, DotDot}
  <2>1. over = i
    BY <1>8, <1>24, <1>25
  <2>2. PICK y \in 1..Len(Listed(i)) : Listed(i)[y].ino = number[c]
    BY <1>23, <2>1 DEF Child
  <2>3. PICK z \in 1..Len(F) : Listed(i)[y] = F[z] /\ F[z].name \notin {Dot, DotDot}
    BY <1>12, <2>2 DEF ListsOf
  <2> QED BY <2>2, <2>3
<1>27. \A j \in 1..Len(E) : F[x] = E[j] => j = k
  <2> TAKE j \in 1..Len(E)
  <2> HAVE F[x] = E[j]
  <2>1. j \in 3..Len(E) /\ ChildEntry(F[x], d)
    BY <1>16, <1>26
  <2>2. F[x].name \in PathNodes /\ number[F[x].name] = number[c]
    BY <1>26, <2>1 DEF ChildEntry, Ent
  <2>3. F[x].name = c
    BY <1>20, <2>2, CleanMeans, Reserved, Placed
  <2> QED BY <1>6, <1>18, <1>19, <2>1, <2>3
<1>28. ~Lost(E, F, k)
  BY <1>27 DEF Lost
<1>29. Altered(E, F, k)
  BY <1>7, <1>21, <1>28
<1>30. x = k
  <2> SUFFICES ASSUME x # k PROVE FALSE
    OBVIOUS
  <2>1. x \in 1..Len(E) /\ F[x] = E[x]
    BY <1>29 DEF Altered
  <2> QED BY <1>27, <2>1
<1>31. F[k].type # TypeOf(c)
  BY <1>20, <1>26, <1>29, <1>30 DEF Altered
<1>32. PICK y \in 1..Len(Listed(i)) : Listed(i)[y] = F[k]
  BY <1>12, <1>26, <1>30 DEF ListsOf
<1>33. F[k].type \in {"dir", "file"} /\ ((F[k].type = "dir") = IsDir(number[c]))
  BY <1>14, <1>26, <1>30, <1>32 DEF EntryFine
<1>34. Object(number[c]) = c
  BY <1>20, CleanMeans, Placed
<1>35. IsDir(number[c]) <=> c \in Dirs
  <2>1. c # Root /\ c # Super
    BY <1>20, CleanMeans, Reserved
  <2> QED BY <1>34, <2>1 DEF IsDir
<1> QED BY <1>31, <1>33, <1>35 DEF TypeOf

-----------------------------------------------------------------------------
(* The paths the walk makes up                                             *)

(* The path an inode has in the source tree.                               *)
PathFits(i, p) == p = IF i = Special(Root) THEN <<>> ELSE PathOf[Object(i)]

PathsWith(s, F, G) ==
  /\ \A j \in 1..Len(s) : PathFits(s[j].ino, s[j].path)
  /\ \A p \in DOMAIN F : PathFits(F[p], p)
  /\ \A p \in DOMAIN G : PathFits(G[p], p)

PathsInv ==
  Started /\ errors = {} /\ damage # "entry" => PathsWith(stack, fileIno, dirIno)

LEMMA PathFitsMeans ==
  ASSUME Clean, NEW i, NEW p, PathFits(i, p)
  PROVE  p = PathOf[Object(i)]
<1>1. Object(Special(Root)) = Root
  <2>1. Root \in DOMAIN number
    BY CleanMeans, Reserved
  <2> QED BY <2>1, RootIsRoot, CleanMeans, Placed
<1> QED BY <1>1, PathsAre DEF PathFits

(* The path of an entry that is walked over is its node's.                 *)
LEMMA EntryPath ==
  ASSUME Clean, TreeSound(dirents), NEW up \in visited, NEW p, PathFits(up, p),
         NEW k \in 1..Len(Listed(up))
  PROVE  PathFits(Listed(up)[k].ino, Append(p, Listed(up)[k].name))
<1>1. PICK d : d = Object(up) /\ d \in PackedDirs \cup {Root} /\ up = number[d]
  BY VisitedAre
<1>2. PICK u : u = up
  OBVIOUS
<1>3. PICK e : e = Listed(u)[k] /\ ChildEntry(e, d)
  <2>1. DirSound(dirents[d], number, d)
    BY <1>1 DEF TreeSound
  <2>2. \A j \in 1..Len(Listed(u)) : ChildEntry(Listed(u)[j], d)
    BY <1>1, <1>2, <2>1, CleanMeans, ListedIs
  <2> QED BY <1>2, <2>2
<1>4. PICK c : c = e.name /\ c \in PathNodes /\ Parent[c] = d /\ e.ino = number[c]
  BY <1>3 DEF ChildEntry, Ent
<1>5. c \in DOMAIN number /\ c \in Nodes /\ c # Root
  BY <1>4, CleanMeans, Reserved
<1>6. p = PathOf[d]
  BY <1>1, PathFitsMeans
<1>7. PathOf[c] = Append(p, c)
  BY <1>4, <1>5, <1>6, PathsAre
<1>8. Object(e.ino) = c
  BY <1>4, <1>5, CleanMeans, Placed
<1>9. e.ino # Special(Root)
  <2>1. Root \in DOMAIN number
    BY CleanMeans, Reserved
  <2> QED BY <1>4, <1>5, <2>1, RootIsRoot, CleanMeans, Placed
<1> QED BY <1>2, <1>3, <1>4, <1>7, <1>8, <1>9 DEF PathFits

LEMMA PathsGoOn ==
  ASSUME Clean, PathsInv, damage # "entry", WalkFile \/ WalkDir \/ WalkUp
  PROVE  PathsWith(stack', fileIno', dirIno')
<1>1. PathsWith(stack, fileIno, dirIno) /\ stack # <<>>
  BY DEF PathsInv, Clean, WalkFile, WalkDir, WalkUp, Walking
<1>2. IsSeq(stack)
  BY DEF Clean, WalkInv
<1>3. PICK s, F, G : s = stack /\ F = fileIno /\ G = dirIno
  OBVIOUS
<1>4. PICK i \in visited : \E p : \E n \in Nat \ {0} : Top = Frame(i, p, n)
  BY <1>1, TopFrame DEF Clean
<1>5. PICK p : \E n \in Nat \ {0} : Top = Frame(i, p, n)
  BY <1>4
<1>6. PICK n \in Nat \ {0} : Top = Frame(i, p, n)
  BY <1>5
<1>7. /\ Top.ino = i /\ Top.path = p /\ Top.next = n /\ Top.entries = Listed(i)
      /\ Entry = Listed(i)[n] /\ ChildPath = Append(p, Listed(i)[n].name)
      /\ Advanced = <<Frame(i, p, n + 1)>> \o Tail(s)
  BY <1>3, <1>6, TopEntry
<1>8. PICK t : t = Tail(s) /\ OnTop(s, Head(s), t) /\ IsSeq(t)
  BY <1>1, <1>2, <1>3, Popped
<1>9. PathFits(i, p) /\ \A j \in 1..Len(t) : PathFits(t[j].ino, t[j].path)
  <2>1. /\ 1 \in 1..Len(s) /\ s[1] = Top
        /\ \A j \in 1..Len(t) : j + 1 \in 1..Len(s) /\ s[j + 1] = t[j]
    BY <1>3, <1>8 DEF OnTop, Top
  <2> QED BY <1>1, <1>3, <1>7, <2>1 DEF PathsWith
<1>10. ASSUME NEW u, IsSeq(u), \A j \in 1..Len(u) : PathFits(u[j].ino, u[j].path),
              NEW a, NEW b, PathFits(a, b), NEW x, x.ino = a, x.path = b,
              NEW w, w = <<x>> \o u
       PROVE  IsSeq(w) /\ \A j \in 1..Len(w) : PathFits(w[j].ino, w[j].path)
  <2>1. OnTop(w, x, u)
    BY <1>10, Pushed
  <2>2. ASSUME NEW j \in 1..Len(w)
        PROVE  PathFits(w[j].ino, w[j].path)
    <3>1. j = 1 \/ j \in 2..Len(w)
      BY <2>1 DEF OnTop
    <3>2. CASE j = 1
      BY <1>10, <2>1, <3>2 DEF OnTop
    <3>3. CASE j \in 2..Len(w)
      BY <1>10, <2>1, <3>3 DEF OnTop
    <3> QED BY <3>1, <3>2, <3>3
  <2> QED BY <2>1, <2>2 DEF OnTop
<1>11. PICK u : u = Advanced
  OBVIOUS
<1>12. IsSeq(u) /\ \A j \in 1..Len(u) : PathFits(u[j].ino, u[j].path)
  <2>1. Frame(i, p, n + 1).ino = i /\ Frame(i, p, n + 1).path = p
    BY DEF Frame
  <2>2. PICK x : x = Frame(i, p, n + 1)
    BY Zenon
  <2>3. u = <<x>> \o t
    BY <1>7, <1>8, <1>11, <2>2 DEF Top
  <2>4. x.ino = i /\ x.path = p
    BY <2>1, <2>2
  <2>5. IsSeq(t)
    BY <1>8
  <2>6. u = <<x>> \o t /\ x.ino = i /\ x.path = p
    BY <2>3, <2>4
  <2> QED BY <1>9, <1>10, <2>5, <2>6
<1>13. CASE WalkUp
  <2>1. stack' = t /\ fileIno' = F /\ dirIno' = G
    BY <1>3, <1>8, <1>13 DEF WalkUp
  <2> QED BY <1>1, <1>3, <1>9, <2>1 DEF PathsWith
<1>14. PICK e, c : e = Entry /\ c = ChildPath
  OBVIOUS
<1>15. ASSUME Walking
       PROVE  PathFits(e.ino, c)
  <2>1. n \in 1..Len(Listed(i))
    <3>1. n <= Len(Listed(i))
      BY <1>7, <1>15 DEF Walking
    <3>2. Len(Listed(i)) \in Nat
      BY CleanMeans, ListedLength DEF WalkedWith
    <3> QED BY <3>1, <3>2
  <2>2. TreeSound(dirents)
    BY CleanMeans, TreeWhole
  <2>3. PathFits(Listed(i)[n].ino, Append(p, Listed(i)[n].name))
    BY <1>9, <2>1, <2>2, EntryPath
  <2> QED BY <1>7, <1>14, <2>3
<1>16. CASE WalkFile
  <2>1. stack' = u /\ fileIno' = Put(F, c, e.ino) /\ dirIno' = G /\ Walking
    BY <1>3, <1>11, <1>14, <1>16 DEF WalkFile
  <2>2. ASSUME NEW q \in DOMAIN fileIno'
        PROVE  PathFits(fileIno'[q], q)
    <3>1. (q = c /\ fileIno'[q] = e.ino) \/ (q \in DOMAIN F /\ fileIno'[q] = F[q])
      BY <2>1 DEF Put
    <3> QED BY <1>1, <1>3, <1>15, <2>1, <3>1 DEF PathsWith
  <2>3. \A j \in 1..Len(stack') : PathFits(stack'[j].ino, stack'[j].path)
    BY <1>12, <2>1
  <2>4. \A q \in DOMAIN dirIno' : PathFits(dirIno'[q], q)
    BY <1>1, <1>3, <2>1 DEF PathsWith
  <2> QED BY <2>2, <2>3, <2>4 DEF PathsWith
<1>17. CASE WalkDir
  <2>1. /\ fileIno' = F /\ dirIno' = Put(G, c, e.ino) /\ Walking
        /\ Enter(e.ino, c, i, u, {})
    BY <1>3, <1>7, <1>11, <1>14, <1>17 DEF WalkDir
  <2>2. ASSUME NEW q \in DOMAIN dirIno'
        PROVE  PathFits(dirIno'[q], q)
    <3>1. (q = c /\ dirIno'[q] = e.ino) \/ (q \in DOMAIN G /\ dirIno'[q] = G[q])
      BY <2>1 DEF Put
    <3> QED BY <1>1, <1>3, <1>15, <2>1, <3>1 DEF PathsWith
  <2>3. \A q \in DOMAIN fileIno' : PathFits(fileIno'[q], q)
    BY <1>1, <1>3, <2>1 DEF PathsWith
  <2>4. \/ stack' = u
        \/ stack' = <<Frame(e.ino, c, 1)>> \o u
    BY <2>1 DEF Enter, Frame
  <2>5. \A j \in 1..Len(stack') : PathFits(stack'[j].ino, stack'[j].path)
    <3>1. CASE stack' = u
      BY <1>12, <3>1
    <3>2. CASE stack' = <<Frame(e.ino, c, 1)>> \o u
      <4>1. Frame(e.ino, c, 1).ino = e.ino /\ Frame(e.ino, c, 1).path = c
        BY DEF Frame
      <4> QED BY <1>10, <1>12, <1>15, <2>1, <3>2, <4>1
    <3> QED BY <2>4, <3>1, <3>2
  <2> QED BY <2>2, <2>3, <2>5 DEF PathsWith
<1> QED BY <1>13, <1>16, <1>17

LEMMA PathsInit == Init => PathsInv
BY DEF Init, BuildInit, PathsInv, Started

LEMMA PathsStep == ImageInv /\ WalkInv /\ PathsInv /\ [Next]_vars => PathsInv'
<1> SUFFICES ASSUME ImageInv, WalkInv, PathsInv, [Next]_vars PROVE PathsInv'
  OBVIOUS
<1>1. ASSUME UNCHANGED buildVars, NEW s, NEW F, NEW G, PathsWith(s, F, G),
             s = stack', F = fileIno', G = dirIno'
      PROVE  PathsInv'
  <2>1. \A i, p : PathFits(i, p)' = PathFits(i, p)
    <3>1. Special(Root)' = Special(Root) /\ \A i : Object(i)' = Object(i)
      BY <1>1, SeenSame
    <3> QED BY <3>1 DEF PathFits
  <2>2. PathsWith(stack, fileIno, dirIno)'
    BY <1>1, <2>1 DEF PathsWith
  <2> QED BY <2>2 DEF PathsInv
<1>2. CASE Build \/ Store
  <2>1. ~Started'
    BY <1>2 DEF Build, Scan, Number, Link, Collide, Table, Store, Undamaged, DamageEntry,
                DamageTable, DamageResolver, DamageSuper, Hit, Started
  <2> QED BY <2>1 DEF PathsInv
<1>3. CASE ParseIndexes
  <2> SUFFICES ASSUME errors' = {} PROVE PathsInv'
    BY DEF PathsInv
  <2>1. UNCHANGED <<buildVars, fileIno>>
    BY <1>3 DEF ParseIndexes
  <2>2. visited = {} /\ DOMAIN fileIno = {}
    BY <1>3 DEF WalkInv, Started, ParseIndexes
  <2>3. IndexErrors = {} /\ Special(Root) # None
    <3>1. CASE Special(Root) = None
      <4>1. "no root" \in IndexErrors /\ IndexErrors \subseteq errors'
        BY <1>3, <3>1 DEF ParseIndexes, Complain, IndexErrors, When
      <4> QED BY <4>1
    <3>2. CASE Special(Root) # None
      BY <1>3, <3>2 DEF ParseIndexes, Enter, Complain
    <3> QED BY <3>1, <3>2
  <2>4. PICK r : r = Special(Root)
    OBVIOUS
  <2>5. dirIno' = Put(<<>>, <<>>, r) /\ Enter(r, <<>>, r, <<>>, IndexErrors)
    BY <1>3, <2>3, <2>4 DEF ParseIndexes
  <2>6. stack' = <<>> \/ stack' = <<Frame(r, <<>>, 1)>> \o <<>>
    BY <2>5 DEF Enter, Frame
  <2>7. PathFits(r, <<>>)
    BY <2>4 DEF PathFits
  <2>8. \A j \in 1..Len(stack') : PathFits(stack'[j].ino, stack'[j].path)
    <3>1. CASE stack' = <<>>
      BY <3>1
    <3>2. CASE stack' = <<Frame(r, <<>>, 1)>> \o <<>>
      <4>1. IsSeq(<<>>) /\ Len(<<>>) = 0
        BY EmptySeq DEF IsSeq
      <4>2. OnTop(stack', Frame(r, <<>>, 1), <<>>)
        BY <3>2, <4>1, Pushed
      <4>3. Len(stack') = 1 /\ stack'[1] = Frame(r, <<>>, 1)
        BY <4>1, <4>2 DEF OnTop
      <4> QED BY <2>7, <4>3 DEF Frame
    <3> QED BY <2>6, <3>1, <3>2
  <2>9. PICK s, F, G : s = stack' /\ F = fileIno' /\ G = dirIno'
    OBVIOUS
  <2>10. \A p \in DOMAIN G : PathFits(G[p], p)
    BY <2>5, <2>7, <2>9 DEF Put
  <2>11. PathsWith(s, F, G)
    BY <2>1, <2>2, <2>8, <2>9, <2>10 DEF PathsWith
  <2> QED BY <1>1, <2>1, <2>9, <2>11
<1>4. CASE WalkBad
  BY <1>4 DEF WalkBad, Complain, PathsInv
<1>5. CASE WalkFile \/ WalkDir \/ WalkUp
  <2> SUFFICES ASSUME errors' = {}, damage' # "entry" PROVE PathsInv'
    BY DEF PathsInv
  <2>1. UNCHANGED <<buildVars, damage>> /\ Started /\ errors \subseteq errors'
    BY <1>5 DEF WalkFile, WalkDir, WalkUp, Walking, Enter, Complain, Started
  <2>2. Clean
    BY <2>1 DEF Clean
  <2>3. PICK s, F, G : s = stack' /\ F = fileIno' /\ G = dirIno'
    OBVIOUS
  <2>4. PathsWith(s, F, G)
    <3>1. PathsWith(stack', fileIno', dirIno')
      BY <1>5, <2>1, <2>2, PathsGoOn
    <3> QED BY <2>3, <3>1
  <2> QED BY <1>1, <2>1, <2>3, <2>4
<1>6. CASE FinishInspection \/ Plan \/ MakeDirs \/ OpenTarget \/ WriteTarget \/ FinishExtraction
             \/ UNCHANGED vars
  <2> SUFFICES ASSUME Started', errors' = {}, damage' # "entry" PROVE PathsInv'
    BY DEF PathsInv
  <2>1. UNCHANGED <<buildVars, damage, stack, fileIno, dirIno>> /\ errors \subseteq errors'
        /\ Started
    BY <1>6 DEF FinishInspection, Plan, MakeDirs, OpenTarget, WriteTarget, FinishExtraction, vars,
                inspectVars, foundVars, Complain, Started
  <2>2. PICK s, F, G : s = stack /\ F = fileIno /\ G = dirIno
    OBVIOUS
  <2>3. PathsWith(s, F, G)
    BY <2>1, <2>2 DEF PathsInv
  <2>4. s = stack' /\ F = fileIno' /\ G = dirIno'
    BY <2>1, <2>2
  <2> QED BY <1>1, <2>1, <2>3, <2>4
<1> QED BY <1>2, <1>3, <1>4, <1>5, <1>6 DEF Next

(* What was found are dictionaries, the root is among the directories, and *)
(* the source is compared by its files.                                    *)
FoundInv ==
  /\ fileIno = [p \in DOMAIN fileIno |-> fileIno[p]]
  /\ dirIno = [p \in DOMAIN dirIno |-> dirIno[p]]
  /\ Started /\ errors = {} => <<>> \in DOMAIN dirIno
  /\ compared \subseteq Nodes

LEMMA FoundInit == Init => FoundInv
<1> SUFFICES ASSUME Init PROVE FoundInv
  OBVIOUS
<1>1. fileIno = <<>> /\ dirIno = <<>> /\ compared = {} /\ stage = "scan"
  BY DEF Init, BuildInit
<1>2. <<>> = [p \in DOMAIN <<>> |-> <<>>[p]]
  OBVIOUS
<1> QED BY <1>1, <1>2 DEF FoundInv, Started

LEMMA FoundStep == ImageInv /\ FoundInv /\ [Next]_vars => FoundInv'
<1> SUFFICES ASSUME ImageInv, FoundInv, [Next]_vars PROVE FoundInv'
  OBVIOUS
<1>1. \A f, x, y : Put(f, x, y) = [z \in DOMAIN Put(f, x, y) |-> Put(f, x, y)[z]]
  BY DEF Put
<1>2. CASE Build \/ Store
  <2>1. UNCHANGED <<fileIno, dirIno, compared>> /\ ~Started'
    BY <1>2 DEF Build, Scan, Number, Link, Collide, Table, Store, Undamaged, DamageEntry,
                DamageTable, DamageResolver, DamageSuper, Hit, Started, inspectVars, foundVars
  <2> QED BY <2>1 DEF FoundInv
<1>3. CASE ParseIndexes
  <2>1. UNCHANGED <<fileIno, compared>>
    BY <1>3 DEF ParseIndexes
  <2>2. CASE Special(Root) = None
    <3>1. dirIno' = dirIno
      BY <1>3, <2>2 DEF ParseIndexes
    <3>2. errors' # {}
      BY <1>3, <2>2 DEF ParseIndexes, Complain, IndexErrors, When
    <3> QED BY <2>1, <3>1, <3>2 DEF FoundInv
  <2>3. CASE Special(Root) # None
    <3>1. PICK r : dirIno' = Put(<<>>, <<>>, r)
      BY <1>3, <2>3 DEF ParseIndexes
    <3>2. <<>> \in DOMAIN dirIno'
      BY <3>1 DEF Put
    <3>3. dirIno' = [p \in DOMAIN dirIno' |-> dirIno'[p]]
      BY <1>1, <3>1
    <3> QED BY <2>1, <3>2, <3>3 DEF FoundInv
  <2> QED BY <2>2, <2>3
<1>4. CASE WalkBad \/ WalkFile \/ WalkDir \/ WalkUp
  <2>1. /\ compared' = compared /\ errors \subseteq errors' /\ Started
        /\ fileIno' = fileIno \/ \E x, y : fileIno' = Put(fileIno, x, y)
        /\ dirIno' = dirIno \/ \E x, y : dirIno' = Put(dirIno, x, y)
    BY <1>4 DEF WalkBad, WalkFile, WalkDir, WalkUp, Walking, Enter, Complain, Started
  <2>2. fileIno' = [p \in DOMAIN fileIno' |-> fileIno'[p]]
    <3>1. CASE fileIno' = fileIno
      BY <3>1 DEF FoundInv
    <3>2. CASE \E x, y : fileIno' = Put(fileIno, x, y)
      <4>1. PICK x, y : fileIno' = Put(fileIno, x, y)
        BY <3>2
      <4> QED BY <1>1, <4>1
    <3> QED BY <2>1, <3>1, <3>2
  <2>3. dirIno' = [p \in DOMAIN dirIno' |-> dirIno'[p]] /\ DOMAIN dirIno \subseteq DOMAIN dirIno'
    <3>1. CASE dirIno' = dirIno
      BY <3>1 DEF FoundInv
    <3>2. CASE \E x, y : dirIno' = Put(dirIno, x, y)
      <4>1. PICK x, y : dirIno' = Put(dirIno, x, y)
        BY <3>2
      <4>2. DOMAIN dirIno \subseteq DOMAIN dirIno'
        BY <4>1 DEF Put
      <4> QED BY <1>1, <4>1, <4>2
    <3> QED BY <2>1, <3>1, <3>2
  <2> QED BY <2>1, <2>2, <2>3 DEF FoundInv
<1>5. CASE FinishInspection
  <2>1. UNCHANGED <<fileIno, dirIno>> /\ errors \subseteq errors' /\ Started
    BY <1>5 DEF FinishInspection, Complain, Started
  <2>2. PICK unreadable : compared' = Visible(unreadable)
    BY <1>5 DEF FinishInspection
  <2>3. compared' \subseteq Nodes
    BY <2>2 DEF Visible, ImageInv, ScanSound, Nodes
  <2> QED BY <2>1, <2>3 DEF FoundInv
<1>6. CASE Plan \/ MakeDirs \/ OpenTarget \/ WriteTarget \/ FinishExtraction \/ UNCHANGED vars
  <2>1. UNCHANGED <<fileIno, dirIno, compared>> /\ errors \subseteq errors' /\ (Started' => Started)
    BY <1>6 DEF Plan, MakeDirs, OpenTarget, WriteTarget, FinishExtraction, vars,
                inspectVars, foundVars, Complain, Started
  <2> QED BY <2>1 DEF FoundInv
<1> QED BY <1>2, <1>3, <1>4, <1>5, <1>6 DEF Next

(* Everything found is where it was packed.                                *)
LEMMA FoundAre ==
  ASSUME Clean, PathsInv, damage # "entry"
  PROVE  /\ \A p \in DOMAIN fileIno : \E f \in packed : p = PathOf[f] /\ fileIno[p] = number[f]
         /\ \A p \in DOMAIN dirIno : \E d \in PackedDirs \cup {Root} :
              p = PathOf[d] /\ dirIno[p] = number[d]
<1>1. PathsWith(stack, fileIno, dirIno)
  BY DEF PathsInv, Clean
<1>2. ASSUME NEW p \in DOMAIN fileIno
      PROVE  \E f \in packed : p = PathOf[f] /\ fileIno[p] = number[f]
  <2>1. PICK i : i = fileIno[p] /\ PathFits(i, p)
    BY <1>1 DEF PathsWith
  <2>2. PICK up \in visited : Child(up, i, "file")
    BY <2>1, CleanMeans DEF WalkedWith, FilesLinked
  <2>3. TreeSound(dirents)
    BY CleanMeans, TreeWhole
  <2>4. PICK c \in PathNodes : i = number[c] /\ TypeOf(c) = "file"
    BY <2>2, <2>3, LinkedAre
  <2>5. c \in packed
    BY <2>4, CleanMeans, NodesPacked DEF PathNodes, TypeOf
  <2>6. Object(i) = c
    BY <2>4, CleanMeans, Reserved, Placed
  <2> QED BY <2>1, <2>4, <2>5, <2>6, PathFitsMeans
<1>3. ASSUME NEW p \in DOMAIN dirIno
      PROVE  \E d \in PackedDirs \cup {Root} : p = PathOf[d] /\ dirIno[p] = number[d]
  <2>1. PICK i : i = dirIno[p] /\ PathFits(i, p)
    BY <1>1 DEF PathsWith
  <2>2. i \in visited
    BY <2>1, CleanMeans DEF WalkedWith
  <2>3. Object(i) \in PackedDirs \cup {Root} /\ number[Object(i)] = i
    BY <2>2, VisitedAre
  <2> QED BY <2>1, <2>3, PathFitsMeans
<1> QED BY <1>2, <1>3

(* And everything packed is found.                                         *)
LEMMA AllFound ==
  ASSUME Clean, Inspected, PathsInv, FoundInv
  PROVE  /\ \A f \in packed : PathOf[f] \in DOMAIN fileIno /\ fileIno[PathOf[f]] = number[f]
         /\ \A d \in PackedDirs \cup {Root} :
              PathOf[d] \in DOMAIN dirIno /\ dirIno[PathOf[d]] = number[d]
         /\ \A p \in DOMAIN fileIno : \E f \in packed : p = PathOf[f] /\ fileIno[p] = number[f]
         /\ \A p \in DOMAIN dirIno : \E d \in PackedDirs \cup {Root} :
              p = PathOf[d] /\ dirIno[p] = number[d]
<1>1. /\ \A p \in DOMAIN fileIno : \E f \in packed : p = PathOf[f] /\ fileIno[p] = number[f]
      /\ \A p \in DOMAIN dirIno : \E d \in PackedDirs \cup {Root} :
           p = PathOf[d] /\ dirIno[p] = number[d]
  BY EntryReported, FoundAre
<1>2. PackedDirs \cup {Root} \subseteq DOMAIN number /\ packed \subseteq DOMAIN number
  BY CleanMeans, Reserved DEF PathNodes
<1>3. ASSUME NEW f \in packed
      PROVE  PathOf[f] \in DOMAIN fileIno /\ fileIno[PathOf[f]] = number[f]
  <2>1. PICK p \in DOMAIN fileIno : fileIno[p] = number[f]
    BY AllEntered
  <2>2. PICK g \in packed : p = PathOf[g] /\ fileIno[p] = number[g]
    BY <1>1
  <2>3. g = f
    BY <1>2, <2>1, <2>2, CleanMeans, Placed
  <2> QED BY <2>1, <2>2, <2>3
<1>4. ASSUME NEW d \in PackedDirs \cup {Root}
      PROVE  PathOf[d] \in DOMAIN dirIno /\ dirIno[PathOf[d]] = number[d]
  <2>1. PICK p \in DOMAIN dirIno : d # Root => dirIno[p] = number[d]
    <3>1. <<>> \in DOMAIN dirIno
      BY DEF FoundInv, Clean
    <3> QED BY <3>1, AllEntered
  <2>2. CASE d # Root
    <3>1. PICK g \in PackedDirs \cup {Root} : p = PathOf[g] /\ dirIno[p] = number[g]
      BY <1>1
    <3>2. g = d
      BY <1>2, <2>1, <2>2, <3>1, CleanMeans, Placed
    <3> QED BY <2>1, <2>2, <3>1, <3>2
  <2>3. CASE d = Root
    <3>1. PathOf[d] = <<>> /\ <<>> \in DOMAIN dirIno
      BY <2>3, PathsAre DEF FoundInv, Clean
    <3>2. PICK g \in PackedDirs \cup {Root} : PathOf[d] = PathOf[g] /\ dirIno[PathOf[d]] = number[g]
      BY <1>1, <3>1
    <3>3. g \in Places /\ d \in Places
      BY <2>3, CleanMeans, NodesPacked DEF Places, PathNodes
    <3>4. g = d
      BY <3>2, <3>3, LastOfPath
    <3> QED BY <3>1, <3>2, <3>4
  <2> QED BY <2>2, <2>3
<1> QED BY <1>1, <1>3, <1>4

(* What the inspection knows, together.                                    *)
InspectInv == ImageInv /\ WalkInv /\ PathsInv /\ FoundInv

LEMMA Inspecting == Spec => []InspectInv
<1>1. Init => InspectInv
  BY ImageInit, WalkInit, PathsInit, FoundInit DEF InspectInv
<1>2. InspectInv /\ [Next]_vars => InspectInv'
  BY ImageStep, WalkStep, PathsStep, FoundStep DEF InspectInv
<1> QED BY <1>1, <1>2, PTL DEF Spec

(* A verification without findings has compared the very files that were   *)
(* packed, every one of which decodes.                                     *)
THEOREM CleanVerificationIsSame == Spec => []CleanMeansSame
<1>1. InspectInv => CleanMeansSame
  <2> SUFFICES ASSUME InspectInv, Inspected, mode = "verify", errors = {}
               PROVE  packed = compared /\ badFile = Root
    BY DEF CleanMeansSame
  <2>1. Clean /\ PathsInv /\ FoundInv
    BY DEF Clean, InspectInv, Started, Inspected
  <2>2. /\ \A f \in packed : PathOf[f] \in DOMAIN fileIno /\ fileIno[PathOf[f]] = number[f]
        /\ \A p \in DOMAIN fileIno : \E f \in packed : p = PathOf[f] /\ fileIno[p] = number[f]
    BY <2>1, AllFound
  <2>3. /\ {PathOf[f] : f \in compared} = DOMAIN fileIno
        /\ badFile # Root => \A p \in DOMAIN fileIno : Object(fileIno[p]) # badFile
    BY <2>1 DEF Clean, WalkInv, Finished
  <2>4. packed \subseteq Places /\ compared \subseteq Places
    BY <2>1, CleanMeans, NodesPacked DEF FoundInv, Places, PathNodes
  <2>5. ASSUME NEW f \in packed
        PROVE  f \in compared
    <3>1. PICK g \in compared : PathOf[g] = PathOf[f]
      BY <2>2, <2>3
    <3> QED BY <2>4, <3>1, LastOfPath
  <2>6. ASSUME NEW g \in compared
        PROVE  g \in packed
    <3>1. PICK f \in packed : PathOf[g] = PathOf[f]
      BY <2>2, <2>3
    <3> QED BY <2>4, <3>1, LastOfPath
  <2>7. badFile \in packed \cup {Root}
    BY <2>1, CleanMeans DEF ImageInv
  <2>8. badFile \notin packed
    <3> SUFFICES ASSUME badFile \in packed PROVE FALSE
      OBVIOUS
    <3>1. badFile \in DOMAIN number /\ badFile # Root
      BY <2>1, CleanMeans, Reserved DEF PathNodes
    <3>2. Object(number[badFile]) = badFile
      BY <2>1, <3>1, CleanMeans, Placed
    <3> QED BY <2>2, <2>3, <3>1, <3>2
  <2> QED BY <2>5, <2>6, <2>7, <2>8
<1> QED BY <1>1, Inspecting, PTL

-----------------------------------------------------------------------------
(* The path table and the resolver as they are built                       *)

(* s holds every member of C once.                                         *)
Lists(s, C) ==
  /\ s \in Seq(C) /\ Len(s) \in Nat /\ DOMAIN s = 1..Len(s)
  /\ \A k \in 1..Len(s) : s[k] \in C
  /\ \A j, k \in 1..Len(s) : s[j] = s[k] => j = k
  /\ \A e \in C : \E k \in 1..Len(s) : s[k] = e

LEMMA OrderLists ==
  ASSUME NEW C, C \subseteq Nat, IsFiniteSet(C)
  PROVE  Lists(InOrder(C), C)
<1>1. PICK s : s = InOrder(C)
  OBVIOUS
<1>2. /\ s \in Seq(C) /\ \A j, k \in 1..Len(s) : j < k => s[j] < s[k]
      /\ \A e \in C : \E k \in 1..Len(s) : s[k] = e
  BY <1>1, InOrderSorts
<1>3. Len(s) \in Nat /\ DOMAIN s = 1..Len(s)
  BY <1>2, LenProperties
<1>4. \A k \in 1..Len(s) : s[k] \in C
  BY <1>2, ElementOfSeq
<1>5. \A j, k \in 1..Len(s) : s[j] = s[k] => j = k
  <2> TAKE j, k \in 1..Len(s)
  <2>1. s[j] \in Nat /\ s[k] \in Nat
    BY <1>4
  <2>2. (j < k => s[j] < s[k]) /\ (k < j => s[k] < s[j])
    BY <1>2
  <2> QED BY <1>3, <2>1, <2>2
<1> QED BY <1>1, <1>2, <1>3, <1>4, <1>5 DEF Lists

(* The nodes of one hash.                                                  *)
LEMMA GroupLists ==
  ASSUME ScanSound, NEW h
  PROVE  Lists(WithHash(h), {n \in PathNodes : hash[n] = h})
<1> DEFINE A == {n \in PackedDirs : hash[n] = h}
           B == {n \in packed : hash[n] = h}
           C == {n \in PathNodes : hash[n] = h}
<1>1. /\ A \subseteq Nat /\ IsFiniteSet(A) /\ B \subseteq Nat /\ IsFiniteSet(B)
      /\ C = A \cup B /\ A \cap B = {}
  <2>1. packed \subseteq Nat /\ PackedDirs \subseteq Nat
    BY NodesPacked, PlacesFacts DEF PathNodes
  <2>2. IsFiniteSet(A) /\ IsFiniteSet(B)
    BY NodesPacked, FS_Subset
  <2>3. A \cap B = {}
    BY NodesPacked, TreeAssumption
  <2> QED BY <2>1, <2>2, <2>3 DEF PathNodes
<1>2. PICK a, b : a = InOrder(A) /\ b = InOrder(B) /\ WithHash(h) = a \o b
  BY DEF WithHash
<1> HIDE DEF A, B, C
<1>3. Lists(a, A) /\ Lists(b, B)
  BY <1>1, <1>2, OrderLists
<1>4. a \in Seq(C) /\ b \in Seq(C)
  BY <1>1, <1>3, SeqMonotonic DEF Lists
<1>5. PICK s, m, n : s = a \o b /\ m = Len(a) /\ n = Len(b)
  OBVIOUS
<1>6. /\ s \in Seq(C) /\ m \in Nat /\ n \in Nat /\ Len(s) = m + n /\ DOMAIN s = 1..(m + n)
      /\ \A k \in 1..m : s[k] = a[k]
      /\ \A k \in 1..n : s[m + k] = b[k]
      /\ \A k \in 1..(m + n) : k \in 1..m \/ (k > m /\ k - m \in 1..n /\ s[k] = b[k - m])
  BY <1>4, <1>5, TwoParts
<1>7. \A k \in 1..m : a[k] \in A
  BY <1>3, <1>5 DEF Lists
<1>8. \A k \in 1..n : b[k] \in B
  BY <1>3, <1>5 DEF Lists
<1>9. \A k \in 1..(m + n) : s[k] \in C
  BY <1>1, <1>6, <1>7, <1>8
<1>10. ASSUME NEW j \in 1..(m + n), NEW k \in 1..(m + n), s[j] = s[k]
       PROVE  j = k
  <2>1. CASE j \in 1..m /\ k \in 1..m
    <3>1. a[j] = a[k]
      BY <1>6, <1>10, <2>1
    <3> QED BY <1>3, <1>5, <2>1, <3>1 DEF Lists
  <2>2. CASE j \in 1..m /\ k \notin 1..m
    <3>1. s[j] \in A /\ s[k] \in B
      BY <1>6, <1>7, <1>8, <2>2
    <3> QED BY <1>1, <1>10, <3>1
  <2>3. CASE j \notin 1..m /\ k \in 1..m
    <3>1. s[j] \in B /\ s[k] \in A
      BY <1>6, <1>7, <1>8, <2>3
    <3> QED BY <1>1, <1>10, <3>1
  <2>4. CASE j \notin 1..m /\ k \notin 1..m
    <3>1. j - m \in 1..n /\ k - m \in 1..n /\ b[j - m] = b[k - m]
      BY <1>6, <1>10, <2>4
    <3>2. j - m = k - m
      BY <1>3, <1>5, <3>1 DEF Lists
    <3> QED BY <1>6, <3>2
  <2> QED BY <2>1, <2>2, <2>3, <2>4
<1>11. ASSUME NEW e \in C
       PROVE  \E k \in 1..(m + n) : s[k] = e
  <2>1. CASE e \in A
    <3>1. PICK k \in 1..m : a[k] = e
      BY <1>3, <1>5, <2>1 DEF Lists
    <3>2. k \in 1..(m + n) /\ s[k] = e
      BY <1>6, <3>1
    <3> QED BY <3>2
  <2>2. CASE e \in B
    <3>1. PICK k \in 1..n : b[k] = e
      BY <1>3, <1>5, <2>2 DEF Lists
    <3>2. m + k \in 1..(m + n) /\ s[m + k] = e
      BY <1>6, <3>1
    <3> QED BY <3>2
  <2> QED BY <1>1, <2>1, <2>2
<1>12. Lists(s, C)
  <2>1. Len(s) \in Nat /\ DOMAIN s = 1..Len(s)
    BY <1>6
  <2> QED BY <1>6, <1>9, <1>10, <1>11, <2>1 DEF Lists
<1> QED BY <1>2, <1>5, <1>12 DEF C

(* The group of one hash, closed by zeros if there is one.                 *)
LinkTo(n) == Ent(number[n], TypeOf(n), n)

GroupSound(h, s, G) ==
  /\ s = WithHash(h) /\ G = GroupOf(h)
  /\ Len(s) = 1 => G = <<>> /\ Len(G) = 0
  /\ Len(s) # 1 => /\ Len(G) = Len(s) + 1 /\ G[Len(s) + 1] = Zeros
                   /\ \A k \in 1..Len(s) : G[k] = LinkTo(s[k])
  /\ G \in Seq({LinkTo(n) : n \in PathNodes} \cup {Zeros})
  /\ G = <<>> \/ G[Len(G)] = Zeros

LEMMA GroupsAre ==
  ASSUME ScanSound, NEW h
  PROVE  \E s, G : GroupSound(h, s, G) /\ Lists(s, {n \in PathNodes : hash[n] = h})
<1> DEFINE T == {LinkTo(n) : n \in PathNodes} \cup {Zeros}
<1>1. PICK s, G : s = WithHash(h) /\ G = GroupOf(h)
  OBVIOUS
<1>2. Lists(s, {n \in PathNodes : hash[n] = h})
  BY <1>1, GroupLists
<1>3. CASE Len(s) = 1
  <2>1. G = <<>>
    BY <1>1, <1>3 DEF GroupOf
  <2> QED BY <1>1, <1>2, <1>3, <2>1, EmptySeq DEF GroupSound
<1>4. CASE Len(s) # 1
  <2>1. PICK m \in Nat : m = Len(s)
    BY <1>2 DEF Lists
  <2>2. PICK g : g = [k \in 1..m |-> LinkTo(s[k])]
    OBVIOUS
  <2>3. G = Append(g, Zeros)
    BY <1>1, <1>4, <2>1, <2>2 DEF GroupOf, LinkTo
  <2>4. \A k \in 1..m : s[k] \in PathNodes
    BY <1>2, <2>1 DEF Lists
  <2>5. g \in Seq(T) /\ Len(g) = m
    <3>1. \A k \in 1..m : LinkTo(s[k]) \in T
      BY <2>4
    <3> HIDE DEF T
    <3>2. g \in [1..m -> T]
      BY <2>2, <3>1
    <3> QED BY <2>2, <3>2
  <2>6. Zeros \in T
    OBVIOUS
  <2> HIDE DEF T
  <2>7. /\ G \in Seq(T) /\ Len(G) = m + 1 /\ G[m + 1] = Zeros
        /\ \A k \in 1..m : G[k] = g[k]
    BY <2>3, <2>5, <2>6, AppendProperties
  <2>8. \A k \in 1..m : G[k] = LinkTo(s[k])
    BY <2>2, <2>7
  <2>9. G[Len(G)] = Zeros
    BY <2>7
  <2> QED BY <1>1, <1>2, <1>4, <2>1, <2>7, <2>8, <2>9 DEF GroupSound, T
<1> QED BY <1>3, <1>4

LEMMA HashesAre ==
  ASSUME ScanSound
  PROVE  /\ HashesUsed \subseteq Nat /\ IsFiniteSet(HashesUsed)
         /\ \A n \in PathNodes : hash[n] \in HashesUsed
         /\ \A h \in HashesUsed : \E n \in PathNodes : hash[n] = h
         /\ IsFiniteSet(PathNodes)
<1>1. PathNodes \subseteq DOMAIN hash /\ IsFiniteSet(PathNodes)
  BY NodesPacked, FS_Union DEF PathNodes
<1>2. HashesUsed \subseteq Nat
  <2>1. \A n \in DOMAIN hash : hash[n] \in Nat
    BY TreeAssumption DEF ScanSound
  <2> QED BY <1>1, <2>1 DEF HashesUsed
<1>3. IsFiniteSet(HashesUsed)
  <2>1. PICK f : f = [n \in PathNodes |-> hash[n]]
    OBVIOUS
  <2>2. HashesUsed \subseteq {f[x] : x \in DOMAIN f} /\ DOMAIN f = PathNodes
    BY <2>1 DEF HashesUsed
  <2> QED BY <1>1, <2>2, FiniteRange
<1> QED BY <1>1, <1>2, <1>3 DEF HashesUsed

(* Where the groups are in the resolver: each at its offset, which is the  *)
(* start or comes after zeros, and nothing besides.                        *)
BlobSound ==
  /\ Len(Blob) \in Nat
  /\ \A h \in HashesUsed :
       /\ OffsetOf(h) \in Nat
       /\ OffsetOf(h) = 0 \/ (OffsetOf(h) <= Len(Blob) /\ Blob[OffsetOf(h)] = Zeros)
       /\ Len(GroupOf(h)) \in Nat /\ OffsetOf(h) + Len(GroupOf(h)) <= Len(Blob)
       /\ \A j \in 1..Len(GroupOf(h)) : Blob[OffsetOf(h) + j] = GroupOf(h)[j]
  /\ \A x \in 1..Len(Blob) : \E h \in HashesUsed : x - OffsetOf(h) \in 1..Len(GroupOf(h))

LEMMA BlobIs ==
  ASSUME ScanSound
  PROVE  BlobSound /\ DOMAIN Blob = 1..Len(Blob)
<1>1. PICK N : N = Cardinality(HashesUsed)
  OBVIOUS
<1>2. PICK hs : hs = InOrder(HashesUsed)
  OBVIOUS
<1>3. /\ N \in Nat /\ Len(hs) = N
      /\ \A k \in 1..N : hs[k] \in HashesUsed
      /\ \A h \in HashesUsed : \E k \in 1..N : hs[k] = h
      /\ \A k \in 1..N : Cardinality({g \in HashesUsed : g < hs[k]}) = k - 1
  <2>1. Lists(hs, HashesUsed)
    BY <1>2, HashesAre, OrderLists
  <2>2. Len(hs) = N /\ \A k \in 1..Len(hs) : Cardinality({g \in HashesUsed : g < hs[k]}) = k - 1
    <3>1. PICK H : H = HashesUsed
      OBVIOUS
    <3>2. H \subseteq Nat /\ IsFiniteSet(H) /\ hs = InOrder(H)
      BY <1>2, <3>1, HashesAre
    <3>3. Len(hs) = N
      BY <1>1, <3>1, <3>2, InOrderSorts
    <3>4. \A k \in 1..Len(InOrder(H)) : Cardinality({d \in H : d < InOrder(H)[k]}) = k - 1
      BY <3>2, InOrderSorts, Zenon
    <3>5. \A k \in 1..Len(hs) : Cardinality({g \in H : g < hs[k]}) = k - 1
      BY <3>2, <3>4, Zenon
    <3> QED BY <3>1, <3>3, <3>5
  <2> QED BY <2>1, <2>2 DEF Lists
<1>4. PICK s : s = GroupSeq
  OBVIOUS
<1>5. \A k \in 1..N : s[k] = GroupOf(hs[k])
  BY <1>1, <1>2, <1>4 DEF GroupSeq
<1>6. PICK T : T = {LinkTo(n) : n \in PathNodes} \cup {Zeros}
  OBVIOUS
<1>7. \A h : GroupOf(h) \in Seq(T) /\ (GroupOf(h) = <<>> \/ GroupOf(h)[Len(GroupOf(h))] = Zeros)
  <2> TAKE h
  <2>1. PICK w, G : GroupSound(h, w, G)
    BY GroupsAre
  <2> QED BY <1>6, <2>1 DEF GroupSound
<1>8. PICK J : Joining(J, s, N, Zeros)
  <2>1. \A k \in 1..N : s[k] \in Seq(T) /\ (s[k] = <<>> \/ s[k][Len(s[k])] = Zeros)
    BY <1>5, <1>7
  <2> QED BY <1>3, <2>1, JoinedParts
<1>9. /\ \A m \in 0..N : /\ J[m] = Joined(s, m) /\ Len(J[m]) \in Nat
                         /\ Len(J[m]) = 0 \/ J[m][Len(J[m])] = Zeros
                         /\ Len(J[m]) <= Len(J[N])
                         /\ \A k \in 1..Len(J[m]) : J[N][k] = J[m][k]
      /\ \A m \in 1..N : /\ Len(s[m]) \in Nat /\ Len(J[m]) = Len(J[m - 1]) + Len(s[m])
                         /\ \A j \in 1..Len(s[m]) : J[N][Len(J[m - 1]) + j] = s[m][j]
      /\ \A k \in 1..Len(J[N]) : \E m \in 1..N : k - Len(J[m - 1]) \in 1..Len(s[m])
  BY <1>8 DEF Joining
<1>10. PICK b : b = Blob
  OBVIOUS
<1>11. b = J[N]
  <2>1. N \in 0..N
    BY <1>3
  <2> QED BY <1>1, <1>4, <1>9, <1>10, <2>1 DEF Blob
<1>12. \A k \in 1..N : OffsetOf(hs[k]) = Len(J[k - 1])
  <2> TAKE k \in 1..N
  <2>1. k - 1 \in 0..N
    BY <1>3
  <2> QED BY <1>3, <1>4, <1>9, <2>1 DEF OffsetOf
<1>13. Len(b) \in Nat
  BY <1>3, <1>9, <1>11
<1>14. ASSUME NEW h \in HashesUsed
       PROVE  /\ OffsetOf(h) \in Nat
              /\ OffsetOf(h) = 0 \/ (OffsetOf(h) <= Len(b) /\ b[OffsetOf(h)] = Zeros)
              /\ Len(GroupOf(h)) \in Nat /\ OffsetOf(h) + Len(GroupOf(h)) <= Len(b)
              /\ \A j \in 1..Len(GroupOf(h)) : b[OffsetOf(h) + j] = GroupOf(h)[j]
  <2>1. PICK k \in 1..N : hs[k] = h
    BY <1>3
  <2>2. PICK p, q, G : p = OffsetOf(h) /\ G = GroupOf(h) /\ q = Len(G)
    OBVIOUS
  <2>3. p = Len(J[k - 1]) /\ G = s[k] /\ k - 1 \in 0..N /\ k \in 0..N
    BY <1>3, <1>5, <1>12, <2>1, <2>2
  <2>4. p \in Nat /\ q \in Nat /\ Len(J[k]) = p + q /\ p + q <= Len(b) /\ p <= Len(b)
    <3>1. p \in Nat /\ p <= Len(b)
      BY <1>9, <1>11, <2>3
    <3>2. q \in Nat /\ Len(J[k]) = p + q
      BY <1>9, <2>2, <2>3
    <3>3. Len(J[k]) <= Len(b)
      BY <1>9, <1>11, <2>3
    <3> QED BY <3>1, <3>2, <3>3
  <2>5. p = 0 \/ b[p] = Zeros
    <3>1. p # 0 => p \in 1..Len(J[k - 1])
      BY <2>3, <2>4
    <3> QED BY <1>9, <1>11, <2>3, <3>1
  <2>6. \A j \in 1..q : b[p + j] = G[j]
    <3>1. \A j \in 1..Len(s[k]) : J[N][Len(J[k - 1]) + j] = s[k][j]
      BY <1>9
    <3> QED BY <1>11, <2>2, <2>3, <3>1
  <2> QED BY <2>2, <2>4, <2>5, <2>6
<1>15. ASSUME NEW x \in 1..Len(b)
       PROVE  \E h \in HashesUsed : x - OffsetOf(h) \in 1..Len(GroupOf(h))
  <2>1. PICK m \in 1..N : x - Len(J[m - 1]) \in 1..Len(s[m])
    BY <1>9, <1>11
  <2>2. hs[m] \in HashesUsed /\ OffsetOf(hs[m]) = Len(J[m - 1]) /\ s[m] = GroupOf(hs[m])
    BY <1>3, <1>5, <1>12
  <2> QED BY <2>1, <2>2
<1>16. DOMAIN b = 1..Len(b)
  <2>1. N \in 0..N
    BY <1>3
  <2> QED BY <1>8, <1>11, <2>1 DEF Joining
<1> QED BY <1>10, <1>13, <1>14, <1>15, <1>16 DEF BlobSound

(* What the walk expects of the path table: one line per packed node.      *)
ExpectedOf(n) == [path |-> PathOf[n], dir |-> n \in PackedDirs, ino |-> number[n]]

(* The files and directories found are the packed ones, with their numbers.*)
FoundRight ==
  /\ \A f \in packed : PathOf[f] \in DOMAIN fileIno /\ fileIno[PathOf[f]] = number[f]
  /\ \A d \in PackedDirs \cup {Root} :
       PathOf[d] \in DOMAIN dirIno /\ dirIno[PathOf[d]] = number[d]
  /\ \A p \in DOMAIN fileIno : \E f \in packed : p = PathOf[f] /\ fileIno[p] = number[f]
  /\ \A p \in DOMAIN dirIno : \E d \in PackedDirs \cup {Root} :
       p = PathOf[d] /\ dirIno[p] = number[d]

LEMMA ExpectedAre ==
  ASSUME ScanSound, FoundRight
  PROVE  Expected = {ExpectedOf(n) : n \in PathNodes}
<1>1. /\ \A f \in packed : PathOf[f] \in DOMAIN fileIno /\ fileIno[PathOf[f]] = number[f]
      /\ \A d \in PackedDirs \cup {Root} :
           PathOf[d] \in DOMAIN dirIno /\ dirIno[PathOf[d]] = number[d]
      /\ \A p \in DOMAIN fileIno : \E f \in packed : p = PathOf[f] /\ fileIno[p] = number[f]
      /\ \A p \in DOMAIN dirIno : \E d \in PackedDirs \cup {Root} :
           p = PathOf[d] /\ dirIno[p] = number[d]
  BY DEF FoundRight
<1>2. PathOf[Root] = <<>> /\ \A n \in PathNodes : PathOf[n] # <<>>
  BY NodesPacked, PathsAre, LastOfPath
<1>3. packed \cap PackedDirs = {}
  BY NodesPacked, TreeAssumption
<1>4. ASSUME NEW e \in Expected
      PROVE  \E n \in PathNodes : e = ExpectedOf(n)
  <2>1. CASE \E p \in DOMAIN dirIno \ {<<>>} : e = [path |-> p, dir |-> TRUE, ino |-> dirIno[p]]
    <3>1. PICK p \in DOMAIN dirIno \ {<<>>} : e = [path |-> p, dir |-> TRUE, ino |-> dirIno[p]]
      BY <2>1
    <3>2. PICK d \in PackedDirs \cup {Root} : p = PathOf[d] /\ dirIno[p] = number[d]
      BY <1>1
    <3>3. d \in PackedDirs
      BY <1>2, <3>2
    <3> QED BY <3>1, <3>2, <3>3 DEF ExpectedOf, PathNodes
  <2>2. CASE \E p \in DOMAIN fileIno : e = [path |-> p, dir |-> FALSE, ino |-> fileIno[p]]
    <3>1. PICK p \in DOMAIN fileIno : e = [path |-> p, dir |-> FALSE, ino |-> fileIno[p]]
      BY <2>2
    <3>2. PICK f \in packed : p = PathOf[f] /\ fileIno[p] = number[f]
      BY <1>1
    <3>3. f \in PathNodes /\ (f \in PackedDirs) = FALSE
      BY <1>3 DEF PathNodes
    <3> QED BY <3>1, <3>2, <3>3 DEF ExpectedOf
  <2> QED BY <2>1, <2>2 DEF Expected
<1>5. ASSUME NEW n \in PathNodes
      PROVE  ExpectedOf(n) \in Expected
  <2>1. CASE n \in PackedDirs
    <3>1. PathOf[n] \in DOMAIN dirIno \ {<<>>} /\ dirIno[PathOf[n]] = number[n]
      BY <1>1, <1>2, <2>1
    <3>2. ExpectedOf(n) = [path |-> PathOf[n], dir |-> TRUE, ino |-> dirIno[PathOf[n]]]
      BY <2>1, <3>1 DEF ExpectedOf
    <3> QED BY <3>1, <3>2 DEF Expected
  <2>2. CASE n \in packed
    <3>1. PathOf[n] \in DOMAIN fileIno /\ fileIno[PathOf[n]] = number[n]
      BY <1>1, <2>2
    <3>2. (n \in PackedDirs) = FALSE
      BY <1>3, <2>2
    <3>3. ExpectedOf(n) = [path |-> PathOf[n], dir |-> FALSE, ino |-> fileIno[PathOf[n]]]
      BY <3>1, <3>2 DEF ExpectedOf
    <3> QED BY <3>1, <3>3 DEF Expected
  <2> QED BY <2>1, <2>2 DEF PathNodes
<1> QED BY <1>4, <1>5

LEMMA ExpectedFacts ==
  ASSUME ScanSound, NEW n \in PathNodes
  PROVE  /\ HashOf(ExpectedOf(n).path) = hash[n] /\ hash[n] \in HashesUsed
         /\ AsEntry(ExpectedOf(n)) = LinkTo(n)
         /\ ExpectedOf(n).dir = (n \in Dirs) /\ ExpectedOf(n).ino = number[n]
         /\ \A m \in PathNodes : ExpectedOf(m) = ExpectedOf(n) => m = n
<1>1. n \in Nodes /\ n \in DOMAIN hash /\ n \in Places
  BY NodesPacked DEF Places
<1>2. Last(PathOf[n]) = n
  BY <1>1, LastOfPath
<1>3. HashOf(PathOf[n]) = hash[n] /\ hash[n] \in HashesUsed
  BY <1>1, <1>2 DEF HashOf, HashesUsed
<1>4. n \in PackedDirs <=> n \in Dirs
  BY NodesPacked, TreeAssumption DEF PathNodes
<1>5. ExpectedOf(n).path = PathOf[n] /\ ExpectedOf(n).dir = (n \in PackedDirs)
      /\ ExpectedOf(n).ino = number[n]
  BY DEF ExpectedOf
<1>6. AsEntry(ExpectedOf(n)) = LinkTo(n)
  BY <1>2, <1>4, <1>5 DEF AsEntry, LinkTo, TypeOf
<1>7. ASSUME NEW m \in PathNodes, ExpectedOf(m) = ExpectedOf(n)
      PROVE  m = n
  <2>1. PathOf[m] = PathOf[n]
    BY <1>7 DEF ExpectedOf
  <2>2. m \in Places
    BY NodesPacked DEF Places
  <2> QED BY <1>1, <2>1, <2>2, LastOfPath
<1> QED BY <1>3, <1>4, <1>5, <1>6, <1>7

LEMMA ExpectedAtAre ==
  ASSUME ScanSound, Expected = {ExpectedOf(n) : n \in PathNodes}, NEW h
  PROVE  /\ \A n \in PathNodes : hash[n] = h => ExpectedOf(n) \in ExpectedAt(h)
         /\ \A e \in ExpectedAt(h) : \E n \in PathNodes : hash[n] = h /\ e = ExpectedOf(n)
<1>1. ASSUME NEW n \in PathNodes, hash[n] = h
      PROVE  ExpectedOf(n) \in ExpectedAt(h)
  BY <1>1, ExpectedFacts DEF ExpectedAt
<1>2. ASSUME NEW e \in ExpectedAt(h)
      PROVE  \E n \in PathNodes : hash[n] = h /\ e = ExpectedOf(n)
  <2>1. PICK n \in PathNodes : e = ExpectedOf(n)
    BY <1>2 DEF ExpectedAt
  <2>2. HashOf(e.path) = h
    BY <1>2 DEF ExpectedAt
  <2> QED BY <2>1, <2>2, ExpectedFacts
<1> QED BY <1>1, <1>2

LEMMA OneExpected ==
  ASSUME ScanSound, Expected = {ExpectedOf(n) : n \in PathNodes}, NEW h \in HashesUsed
  PROVE  /\ Cardinality(ExpectedAt(h)) = 1 <=> Len(WithHash(h)) = 1
         /\ IsFiniteSet(ExpectedAt(h))
<1>1. PICK s : s = WithHash(h) /\ Lists(s, {n \in PathNodes : hash[n] = h})
  BY GroupLists
<1>2. PICK X : X = ExpectedAt(h)
  OBVIOUS
<1>3. /\ Len(s) \in Nat
      /\ \A k \in 1..Len(s) : s[k] \in PathNodes /\ hash[s[k]] = h
      /\ \A j, k \in 1..Len(s) : s[j] = s[k] => j = k
      /\ \A n \in PathNodes : hash[n] = h => \E k \in 1..Len(s) : s[k] = n
  BY <1>1 DEF Lists
<1>4. /\ \A k \in 1..Len(s) : ExpectedOf(s[k]) \in X
      /\ \A e \in X : \E k \in 1..Len(s) : e = ExpectedOf(s[k])
  <2>1. \A k \in 1..Len(s) : ExpectedOf(s[k]) \in X
    BY <1>2, <1>3, ExpectedAtAre
  <2>2. ASSUME NEW e \in X
        PROVE  \E k \in 1..Len(s) : e = ExpectedOf(s[k])
    <3>1. PICK n \in PathNodes : hash[n] = h /\ e = ExpectedOf(n)
      BY <1>2, ExpectedAtAre
    <3> QED BY <1>3, <3>1
  <2> QED BY <2>1, <2>2
<1>5. IsFiniteSet(X)
  <2>1. PICK f : f = [k \in 1..Len(s) |-> ExpectedOf(s[k])]
    OBVIOUS
  <2>2. X \subseteq {f[k] : k \in DOMAIN f} /\ DOMAIN f = 1..Len(s)
    BY <1>4, <2>1
  <2>3. IsFiniteSet(1..Len(s))
    BY <1>3, FS_Interval
  <2> QED BY <2>2, <2>3, FiniteRange
<1>6. ASSUME Len(s) = 1
      PROVE  Cardinality(X) = 1
  <2>1. X = {ExpectedOf(s[1])}
    BY <1>4, <1>6
  <2> QED BY <2>1, FS_Singleton
<1>7. ASSUME Cardinality(X) = 1
      PROVE  Len(s) = 1
  <2>1. PICK e : X = {e}
    BY <1>5, <1>7, FS_Singleton
  <2>2. \A j, k \in 1..Len(s) : j = k
    <3> TAKE j, k \in 1..Len(s)
    <3>1. ExpectedOf(s[j]) = ExpectedOf(s[k])
      BY <1>4, <2>1
    <3> QED BY <1>3, <3>1, ExpectedFacts
  <2>3. \E k \in 1..Len(s) : TRUE
    BY <1>4, <2>1
  <2>4. PICK m : m = Len(s)
    OBVIOUS
  <2>5. m \in Nat /\ (\A j, k \in 1..m : j = k) /\ m # 0
    BY <1>3, <2>2, <2>3, <2>4
  <2>6. m < 2
    <3> SUFFICES ASSUME ~(m < 2) PROVE FALSE
      OBVIOUS
    <3>1. 1 \in 1..m /\ 2 \in 1..m
      BY <2>5
    <3> QED BY <2>5, <3>1
  <2> QED BY <2>4, <2>5, <2>6
<1> QED BY <1>1, <1>2, <1>5, <1>6, <1>7

(* Every hash that is used is a hash of a line, and the other way round.   *)
LEMMA HashesExpected ==
  ASSUME ScanSound, Expected = {ExpectedOf(n) : n \in PathNodes}
  PROVE  {HashOf(e.path) : e \in Expected} = HashesUsed
<1>1. ASSUME NEW e \in Expected
      PROVE  HashOf(e.path) \in HashesUsed
  <2>1. PICK n \in PathNodes : e = ExpectedOf(n)
    OBVIOUS
  <2> QED BY <2>1, ExpectedFacts
<1>2. ASSUME NEW h \in HashesUsed
      PROVE  \E e \in Expected : HashOf(e.path) = h
  <2>1. PICK n \in PathNodes : hash[n] = h
    BY DEF HashesUsed
  <2>2. ExpectedOf(n) \in Expected
    OBVIOUS
  <2> QED BY <2>1, <2>2, ExpectedFacts
<1> QED BY <1>1, <1>2

(* A table that names a hash once maps it to its line.                     *)
LEMMA MapFound ==
  ASSUME NEW k \in 1..Len(TableSeq), NEW h, TableSeq[k].hash = h,
         \A j \in 1..Len(TableSeq) : TableSeq[j].hash = h => j = k, Len(TableSeq) \in Nat
  PROVE  h \in DOMAIN FptMap /\ FptMap[h] = TableSeq[k]
<1>1. PICK T : T = TableSeq
  OBVIOUS
<1> DEFINE at == {j \in 1..Len(T) : T[j].hash = h}
<1>2. at = {k}
  BY <1>1
<1>3. (CHOOSE m \in at : \A j \in at : j <= m) = k
  BY <1>1, <1>2
<1>4. h \in {T[j].hash : j \in 1..Len(T)}
  BY <1>1
<1>5. /\ DOMAIN FptMap = {T[j].hash : j \in 1..Len(T)}
      /\ FptMap[h] = T[CHOOSE m \in at : \A j \in at : j <= m]
  BY <1>1, <1>4 DEF FptMap
<1> QED BY <1>1, <1>3, <1>4, <1>5

(* An inspection without findings: the table read is the one that is       *)
(* there, and it says of every hash what the walk expects.                 *)
LEMMA MapMeans ==
  ASSUME Clean, Inspected, PathsInv, FoundInv
  PROVE  /\ TableSeq = fpt /\ DOMAIN FptMap = HashesUsed
         /\ ~\E j, k \in 1..Len(fpt) : j < k /\ fpt[j].hash = fpt[k].hash
         /\ \A n \in PathNodes :
              IF Len(WithHash(hash[n])) = 1
              THEN /\ ~FptMap[hash[n]].group /\ FptMap[hash[n]].dir = (n \in Dirs)
                   /\ FptMap[hash[n]].at = number[n]
              ELSE FptMap[hash[n]].group /\ LinkTo(n) \in GroupAt(hash[n])
<1>1. Expected = {ExpectedOf(n) : n \in PathNodes}
  BY AllFound, CleanMeans, ExpectedAre DEF FoundRight
<1>2. ScanSound /\ IndexErrors = {} /\ MapErrors = {}
  <2>1. ScanSound /\ WalkInv /\ WalkedWith(stack, visited, fileIno, dirIno) /\ errors = {}
    BY CleanMeans DEF Clean
  <2>2. MapErrors = {}
    BY <2>1 DEF WalkInv, Finished
  <2> QED BY <2>1, <2>2 DEF WalkedWith
<1>3. TableSeq = fpt
  <2>1. super = SuperEntries
    BY SuperReported
  <2>2. Special(Fpt) = number[Fpt]
    BY <2>1, SuperWhole DEF Given, ReservedNames, Fpt, Resolver
  <2> QED BY <2>2 DEF TableSeq
<1>4. ~\E j, k \in 1..Len(fpt) : j < k /\ fpt[j].hash = fpt[k].hash
  BY <1>2, <1>3 DEF IndexErrors, When
<1>5. {HashOf(e.path) : e \in Expected} = HashesUsed
  BY <1>1, <1>2, HashesExpected
<1>6. DOMAIN FptMap = HashesUsed
  BY <1>2, <1>5 DEF MapErrors, MapErrorsByHash, When
<1>7. \A h \in HashesUsed : RowErrors(h) = {}
  <2>1. \A h \in {HashOf(e.path) : e \in Expected} \cap DOMAIN FptMap : RowErrors(h) = {}
    BY <1>2 DEF MapErrors
  <2> QED BY <1>5, <1>6, <2>1
<1>8. ASSUME NEW n \in PathNodes
      PROVE  IF Len(WithHash(hash[n])) = 1
             THEN /\ ~FptMap[hash[n]].group /\ FptMap[hash[n]].dir = (n \in Dirs)
                  /\ FptMap[hash[n]].at = number[n]
             ELSE FptMap[hash[n]].group /\ LinkTo(n) \in GroupAt(hash[n])
  <2>1. PICK h : h = hash[n]
    OBVIOUS
  <2>2. PICK e : e = ExpectedOf(n)
    OBVIOUS
  <2>3. PICK X, v : X = ExpectedAt(h) /\ v = FptMap[h]
    OBVIOUS
  <2>4. /\ h \in HashesUsed /\ AsEntry(e) = LinkTo(n)
        /\ e.dir = (n \in Dirs) /\ e.ino = number[n]
    BY <1>2, <2>1, <2>2, ExpectedFacts
  <2>5. e \in X /\ (Cardinality(X) = 1 <=> Len(WithHash(h)) = 1)
    BY <1>1, <1>2, <2>1, <2>2, <2>3, <2>4, ExpectedAtAre, OneExpected
  <2>6. RowErrors(h) = {}
    BY <1>7, <2>4
  <2>7. CASE Len(WithHash(h)) = 1
    <3>1. \A x \in X : ~(v.group \/ v.dir # x.dir \/ v.at # x.ino)
      <4>1. Cardinality(X) = 1
        BY <2>5, <2>7
      <4>2. ~\A x \in X : v.group \/ v.dir # x.dir \/ v.at # x.ino
        BY <2>3, <2>6, <4>1 DEF RowErrors, When
      <4>3. PICK x \in X : ~(v.group \/ v.dir # x.dir \/ v.at # x.ino)
        BY <4>2
      <4>4. IsFiniteSet(X)
        BY <1>1, <1>2, <2>3, <2>4, OneExpected
      <4>5. \E y : X = {y}
        BY <4>1, <4>4, FS_Singleton
      <4> QED BY <4>3, <4>5
    <3> QED BY <2>1, <2>3, <2>4, <2>5, <2>7, <3>1
  <2>8. CASE Len(WithHash(h)) # 1
    <3>1. v.group /\ {AsEntry(x) : x \in X} \subseteq GroupAt(h)
      BY <2>3, <2>5, <2>6, <2>8 DEF RowErrors, When
    <3> QED BY <2>1, <2>3, <2>4, <2>5, <2>8, <3>1
  <2> QED BY <2>1, <2>7, <2>8
<1> QED BY <1>3, <1>4, <1>6, <1>8

-----------------------------------------------------------------------------
(* A damaged table                                                         *)

(* What is read of the resolver from an offset on: up to the first zeros.  *)
LEMMA RunIs ==
  ASSUME Len(resolver) \in Nat, NEW at \in Nat
  PROVE  /\ \A e \in RunFrom(at) : \E k \in (at + 1)..Len(resolver) :
              e = resolver[k] /\ \A j \in (at + 1)..k : resolver[j] # Zeros
         /\ \A k \in (at + 1)..Len(resolver) :
              (\A j \in (at + 1)..k : resolver[j] # Zeros) => resolver[k] \in RunFrom(at)
<1>1. PICK n, b : b = resolver /\ n = Len(b)
  OBVIOUS
<1> DEFINE ends == {k \in (at + 1)..n : b[k] = Zeros}
           first == CHOOSE k \in ends : \A j \in ends : k <= j
           last == IF ends = {} THEN n ELSE first - 1
<1>2. RunFrom(at) = {b[k] : k \in (at + 1)..last}
  BY <1>1 DEF RunFrom
<1>3. n \in Nat /\ ends \subseteq Nat /\ \A k \in ends : k \in (at + 1)..n /\ b[k] = Zeros
  BY <1>1
<1>4. \A k \in (at + 1)..n : b[k] = Zeros => k \in ends
  OBVIOUS
<1> HIDE DEF ends
<1>5. ends # {} => first \in ends /\ \A j \in ends : first <= j
  <2> SUFFICES ASSUME ends # {} PROVE \E k \in ends : \A j \in ends : k <= j
    OBVIOUS
  <2> QED BY <1>3, LeastElement
<1>6. last \in Nat /\ last <= n /\ \A j \in ends : j > last
  <2>1. CASE ends = {}
    BY <1>3, <2>1
  <2>2. CASE ends # {}
    <3>1. PICK m : m = first
      OBVIOUS
    <3>2. last = m - 1 /\ m \in ends /\ (\A j \in ends : m <= j) /\ m \in (at + 1)..n
      BY <1>3, <1>5, <2>2, <3>1
    <3> HIDE DEF last
    <3> QED BY <1>3, <3>2
  <2> QED BY <2>1, <2>2
<1>7. last # n => last + 1 \in ends
  <2>1. CASE ends = {}
    BY <2>1
  <2>2. CASE ends # {}
    <3>1. PICK m : m = first
      OBVIOUS
    <3>2. last = m - 1 /\ m \in ends /\ m \in Nat
      BY <1>3, <1>5, <2>2, <3>1
    <3> HIDE DEF last
    <3> QED BY <3>2
  <2> QED BY <2>1, <2>2
<1> HIDE DEF last
<1>8. ASSUME NEW e \in RunFrom(at)
      PROVE  \E k \in (at + 1)..n : e = b[k] /\ \A j \in (at + 1)..k : b[j] # Zeros
  <2>1. PICK k \in (at + 1)..last : e = b[k]
    BY <1>2
  <2>2. k \in (at + 1)..n
    BY <1>3, <1>6
  <2>3. \A j \in (at + 1)..k : b[j] # Zeros
    <3> TAKE j \in (at + 1)..k
    <3>1. j \in (at + 1)..n /\ ~(j > last)
      BY <1>3, <1>6
    <3> QED BY <1>4, <1>6, <3>1
  <2> QED BY <2>1, <2>2, <2>3
<1>9. ASSUME NEW k \in (at + 1)..n, \A j \in (at + 1)..k : b[j] # Zeros
      PROVE  b[k] \in RunFrom(at)
  <2>1. k \in (at + 1)..last
    <3> SUFFICES ASSUME ~(k <= last) PROVE FALSE
      BY <1>6
    <3>1. last + 1 \in ends
      BY <1>3, <1>6, <1>7
    <3>2. last + 1 \in (at + 1)..k
      BY <1>3, <1>6, <3>1
    <3> QED BY <1>3, <1>9, <3>1, <3>2
  <2> QED BY <1>2, <2>1
<1> QED BY <1>1, <1>8, <1>9

LEMMA LinksDiffer ==
  ASSUME ScanSound, NEW n \in PathNodes
  PROVE  LinkTo(n) # Zeros /\ \A m : LinkTo(m) = LinkTo(n) => m = n
<1>1. LinkTo(n).type \in {"dir", "file"}
  BY DEF LinkTo, Ent, TypeOf
<1>2. Zeros.type = "none"
  BY DEF Zeros, Ent
<1>3. ASSUME NEW m, LinkTo(m) = LinkTo(n)
      PROVE  m = n
  <2>1. LinkTo(m).name = m /\ LinkTo(n).name = n
    BY DEF LinkTo, Ent
  <2> QED BY <1>3, <2>1
<1> QED BY <1>1, <1>2, <1>3

(* An entry of the resolver that is not zeros belongs to one group, and    *)
(* occurs once.                                                            *)
LEMMA EntriesOnce ==
  ASSUME ScanSound
  PROVE  /\ \A x \in 1..Len(Blob) : Blob[x] # Zeros =>
              \E n \in PathNodes : Blob[x] = LinkTo(n) /\ Len(WithHash(hash[n])) # 1
         /\ \A x, y \in 1..Len(Blob) : Blob[x] = Blob[y] /\ Blob[x] # Zeros => x = y
<1>1. PICK b : b = Blob
  OBVIOUS
<1>2. BlobSound
  BY BlobIs
<1>3. ASSUME NEW x \in 1..Len(b), b[x] # Zeros
      PROVE  \E n \in PathNodes : \E j \in 1..Len(WithHash(hash[n])) :
               /\ b[x] = LinkTo(n) /\ Len(WithHash(hash[n])) # 1
               /\ x = OffsetOf(hash[n]) + j /\ WithHash(hash[n])[j] = n
  <2>1. PICK h \in HashesUsed : x - OffsetOf(h) \in 1..Len(GroupOf(h))
    BY <1>1, <1>2 DEF BlobSound
  <2>2. PICK s, G : GroupSound(h, s, G) /\ Lists(s, {n \in PathNodes : hash[n] = h})
    BY GroupsAre
  <2>3. PICK j, p, g : j = x - p /\ p = OffsetOf(h) /\ g = Len(G)
    OBVIOUS
  <2>4. s = WithHash(h) /\ G = GroupOf(h) /\ j \in 1..g
    BY <2>1, <2>2, <2>3 DEF GroupSound
  <2>5. b[p + j] = G[j] /\ p \in Nat
    BY <1>1, <1>2, <2>3, <2>4 DEF BlobSound
  <2>6. x = p + j
    BY <1>1, <1>2, <2>3, <2>5 DEF BlobSound
  <2>7. Len(s) # 1 /\ g = Len(s) + 1 /\ G[Len(s) + 1] = Zeros
        /\ \A k \in 1..Len(s) : G[k] = LinkTo(s[k])
    <3>1. Len(s) # 1
      BY <2>2, <2>3, <2>4 DEF GroupSound
    <3> QED BY <2>2, <2>3, <3>1 DEF GroupSound
  <2>8. j \in 1..Len(s)
    <3>1. j # Len(s) + 1
      BY <1>3, <2>5, <2>6, <2>7
    <3>2. Len(s) \in Nat
      BY <2>2 DEF Lists
    <3> QED BY <2>4, <2>7, <3>1, <3>2
  <2>9. PICK n : n = s[j]
    OBVIOUS
  <2>10. n \in PathNodes /\ hash[n] = h
    BY <2>2, <2>8, <2>9 DEF Lists
  <2>11. b[x] = LinkTo(n)
    BY <2>5, <2>6, <2>7, <2>8, <2>9
  <2>12. x = OffsetOf(hash[n]) + j /\ WithHash(hash[n])[j] = n /\ j \in 1..Len(WithHash(hash[n]))
    BY <2>3, <2>4, <2>6, <2>8, <2>9, <2>10
  <2>13. Len(WithHash(hash[n])) # 1
    BY <2>4, <2>7, <2>10
  <2> QED BY <2>10, <2>11, <2>12, <2>13, Zenon
<1>4. ASSUME NEW x \in 1..Len(b), NEW y \in 1..Len(b), b[x] = b[y], b[x] # Zeros
      PROVE  x = y
  <2>1. PICK n \in PathNodes : \E j \in 1..Len(WithHash(hash[n])) :
          b[x] = LinkTo(n) /\ x = OffsetOf(hash[n]) + j /\ WithHash(hash[n])[j] = n
    BY <1>3, <1>4
  <2>2. PICK m \in PathNodes : \E j \in 1..Len(WithHash(hash[m])) :
          b[y] = LinkTo(m) /\ y = OffsetOf(hash[m]) + j /\ WithHash(hash[m])[j] = m
    BY <1>3, <1>4
  <2>3. m = n
    BY <1>4, <2>1, <2>2, LinksDiffer
  <2>4. PICK i \in 1..Len(WithHash(hash[n])) :
          x = OffsetOf(hash[n]) + i /\ WithHash(hash[n])[i] = n
    BY <2>1
  <2>5. PICK j \in 1..Len(WithHash(hash[n])) :
          y = OffsetOf(hash[n]) + j /\ WithHash(hash[n])[j] = n
    BY <2>2, <2>3
  <2>6. i = j
    <3>1. PICK s : s = WithHash(hash[n])
      OBVIOUS
    <3>2. Lists(s, {m0 \in PathNodes : hash[m0] = hash[n]})
      BY <3>1, GroupLists
    <3>3. \A k, m0 \in 1..Len(s) : s[k] = s[m0] => k = m0
      BY <3>2 DEF Lists
    <3>4. i \in 1..Len(s) /\ j \in 1..Len(s) /\ s[i] = s[j]
      BY <2>4, <2>5, <3>1
    <3> QED BY <3>3, <3>4, Zenon
  <2> QED BY <2>4, <2>5, <2>6
<1> QED BY <1>1, <1>3, <1>4

(* The rows, one per hash, in the order of the hashes.                     *)
RowsOf(hs, t) ==
  /\ Lists(hs, HashesUsed) /\ Len(t) = Len(hs) /\ DOMAIN t = 1..Len(hs) /\ Len(hs) \in Nat
  /\ \A k \in 1..Len(hs) : t[k] = Row(hs[k])

LEMMA RowsAre ==
  ASSUME ScanSound
  PROVE  \E hs : RowsOf(hs, Rows)
<1>1. PICK H : H = HashesUsed
  OBVIOUS
<1>2. PICK hs : hs = InOrder(H)
  OBVIOUS
<1>3. H \subseteq Nat /\ IsFiniteSet(H)
  BY <1>1, HashesAre
<1>4. Lists(hs, H) /\ Len(hs) = Cardinality(H)
  <2>1. Len(InOrder(H)) = Cardinality(H)
    BY <1>3, InOrderSorts
  <2> QED BY <1>2, <1>3, <2>1, OrderLists
<1>5. PICK n : n = Len(hs)
  OBVIOUS
<1>6. n \in Nat
  BY <1>4, <1>5 DEF Lists
<1>7. Rows = [k \in 1..n |-> Row(hs[k])]
  BY <1>1, <1>2, <1>4, <1>5 DEF Rows
<1> QED BY <1>1, <1>4, <1>5, <1>6, <1>7 DEF RowsOf

LEMMA RowIs ==
  ASSUME NEW h
  PROVE  /\ Row(h).hash = h
         /\ Len(WithHash(h)) = 1 => /\ Row(h).group = FALSE
                                    /\ Row(h).dir = (WithHash(h)[1] \in Dirs)
                                    /\ Row(h).at = number[WithHash(h)[1]]
         /\ Len(WithHash(h)) # 1 => Row(h).group = TRUE /\ Row(h).at = OffsetOf(h)
BY DEF Row

(* The entries of a group are one after the other from its offset on.      *)
LEMMA GroupStarts ==
  ASSUME ScanSound, NEW h \in HashesUsed, Len(WithHash(h)) # 1
  PROVE  /\ OffsetOf(h) \in Nat /\ Len(WithHash(h)) \in Nat /\ Len(WithHash(h)) >= 2
         /\ OffsetOf(h) + Len(WithHash(h)) + 1 <= Len(Blob) /\ Len(Blob) \in Nat
         /\ OffsetOf(h) # 0 => Blob[OffsetOf(h)] = Zeros
         /\ \A k \in 1..Len(WithHash(h)) :
              Blob[OffsetOf(h) + k] = LinkTo(WithHash(h)[k])
         /\ Blob[OffsetOf(h) + Len(WithHash(h)) + 1] = Zeros
<1>1. PICK s, G : GroupSound(h, s, G) /\ Lists(s, {n \in PathNodes : hash[n] = h})
  BY GroupsAre
<1>2. PICK p, g, m, b : p = OffsetOf(h) /\ g = Len(G) /\ m = Len(s) /\ b = Blob
  OBVIOUS
<1>3. s = WithHash(h) /\ G = GroupOf(h) /\ m # 1
  BY <1>1, <1>2 DEF GroupSound
<1>4. g = m + 1 /\ G[m + 1] = Zeros /\ \A k \in 1..m : G[k] = LinkTo(s[k])
  BY <1>1, <1>2, <1>3 DEF GroupSound
<1>5. m \in Nat /\ m >= 2
  <2>1. m \in Nat
    BY <1>1, <1>2 DEF Lists
  <2>2. PICK n \in PathNodes : hash[n] = h
    BY DEF HashesUsed
  <2>3. \E k \in 1..m : s[k] = n
    BY <1>1, <1>2, <2>2 DEF Lists
  <2> QED BY <1>3, <2>1, <2>3
<1>6. /\ p \in Nat /\ p + g <= Len(b) /\ Len(b) \in Nat
      /\ p = 0 \/ b[p] = Zeros
      /\ \A j \in 1..g : b[p + j] = G[j]
  BY <1>2, <1>3, BlobIs DEF BlobSound
<1>7. ASSUME NEW k \in 1..m
      PROVE  b[p + k] = LinkTo(s[k])
  <2>1. k \in 1..g
    BY <1>4, <1>5
  <2> QED BY <1>4, <1>6, <2>1
<1>8. b[p + m + 1] = Zeros
  <2>1. m + 1 \in 1..g /\ p + m + 1 = p + (m + 1)
    BY <1>4, <1>5, <1>6
  <2> QED BY <1>4, <1>6, <2>1
<1>9. p + m + 1 <= Len(b)
  BY <1>4, <1>5, <1>6
<1> QED BY <1>2, <1>3, <1>5, <1>6, <1>7, <1>8, <1>9

(* A table read whole maps every hash to its row.                          *)
LEMMA MapWhole ==
  ASSUME ScanSound, TableSeq = Rows
  PROVE  DOMAIN FptMap = HashesUsed /\ \A h \in HashesUsed : FptMap[h] = Row(h)
<1>1. PICK hs, t : RowsOf(hs, t) /\ t = Rows
  BY RowsAre
<1>2. /\ Len(t) \in Nat /\ \A k \in 1..Len(t) : t[k].hash = hs[k] /\ t[k] = Row(hs[k])
      /\ \A k \in 1..Len(t) : hs[k] \in HashesUsed
      /\ \A j, k \in 1..Len(t) : hs[j] = hs[k] => j = k
      /\ \A h \in HashesUsed : \E k \in 1..Len(t) : hs[k] = h
  BY <1>1, RowIs DEF RowsOf, Lists
<1>3. DOMAIN FptMap = HashesUsed
  <2>1. DOMAIN FptMap = {t[k].hash : k \in 1..Len(t)}
    BY <1>1 DEF FptMap
  <2> QED BY <1>2, <2>1
<1>4. ASSUME NEW h \in HashesUsed
      PROVE  FptMap[h] = Row(h)
  <2>1. PICK k \in 1..Len(t) : hs[k] = h
    BY <1>2
  <2>2. \A j \in 1..Len(t) : t[j].hash = h => j = k
    BY <1>2, <2>1
  <2>3. FptMap[h] = t[k]
    BY <1>1, <1>2, <2>1, <2>2, MapFound
  <2> QED BY <1>2, <2>1, <2>3
<1> QED BY <1>3, <1>4

(* A path table that was hit is reported.                                  *)
LEMMA TableReported ==
  ASSUME Clean, Inspected, PathsInv, FoundInv
  PROVE  damage # "table"
<1> SUFFICES ASSUME damage = "table" PROVE FALSE
  OBVIOUS
<1>1. TableHit(Rows) /\ resolver = Blob /\ ScanSound
  <2>1. PICK D : Links(D)
    BY CleanMeans DEF ImageInv
  <2> QED BY <2>1, CleanMeans DEF Links
<1>2. PICK hs, t : RowsOf(hs, t) /\ t = Rows
  BY <1>1, RowsAre
<1>3. PICK n : n = Len(t)
  OBVIOUS
<1>4. /\ n \in Nat /\ DOMAIN t = 1..n
      /\ \A k \in 1..n : t[k] = Row(hs[k]) /\ t[k].hash = hs[k] /\ hs[k] \in HashesUsed
      /\ \A j, k \in 1..n : hs[j] = hs[k] => j = k
      /\ \A h \in HashesUsed : \E k \in 1..n : hs[k] = h
  <2>1. n \in Nat /\ DOMAIN t = 1..n /\ Len(hs) = n /\ \A k \in 1..n : t[k] = Row(hs[k])
    BY <1>2, <1>3 DEF RowsOf, Lists
  <2>2. /\ \A k \in 1..n : hs[k] \in HashesUsed
        /\ \A j, k \in 1..n : hs[j] = hs[k] => j = k
        /\ \A h \in HashesUsed : \E k \in 1..n : hs[k] = h
    BY <1>2, <2>1 DEF RowsOf, Lists
  <2>3. \A k \in 1..n : t[k].hash = hs[k]
    BY <2>1, RowIs
  <2> QED BY <2>1, <2>2, <2>3
<1>5. PICK F : F = fpt
  OBVIOUS
<1>6. /\ TableSeq = F /\ DOMAIN FptMap = HashesUsed
      /\ ~\E j, k \in 1..Len(F) : j < k /\ F[j].hash = F[k].hash
  BY <1>5, MapMeans
<1>7. DOMAIN FptMap = {F[x].hash : x \in 1..Len(F)}
  BY <1>6 DEF FptMap
<1>8. PICK k \in 1..n :
        \/ F = Without(t, k)
        \/ F = Doubled(t, k)
        \/ \E v \in [group : BOOLEAN, dir : BOOLEAN, at : InoRange] :
             /\ v # [group |-> t[k].group, dir |-> t[k].dir, at |-> t[k].at]
             /\ ~(v.group /\ t[k].group /\ v.at = t[k].at)
             /\ F = [t EXCEPT ![k] =
                       [hash |-> @.hash, group |-> v.group, dir |-> v.dir, at |-> v.at]]
  BY <1>1, <1>2, <1>3, <1>5 DEF TableHit
<1>9. PICK h : h = hs[k]
  OBVIOUS
<1>10. h \in HashesUsed /\ t[k] = Row(h)
  BY <1>4, <1>9
<1>11. CASE F = Without(t, k)
  <2>1. F = [j \in 1..(n - 1) |-> IF j < k THEN t[j] ELSE t[j + 1]]
    BY <1>3, <1>11 DEF Without
  <2>2. Len(F) = n - 1
    BY <1>4, <2>1
  <2>3. PICK x \in 1..(n - 1) : F[x].hash = h
    BY <1>6, <1>7, <1>10, <2>2
  <2>4. PICK j \in 1..n : j # k /\ F[x] = t[j]
    <3>1. CASE x < k
      <4>1. x \in 1..n /\ F[x] = t[x]
        BY <1>4, <2>1, <3>1
      <4> QED BY <3>1, <4>1
    <3>2. CASE ~(x < k)
      <4>1. x + 1 \in 1..n /\ x + 1 # k /\ F[x] = t[x + 1]
        BY <1>4, <2>1, <3>2
      <4> QED BY <4>1
    <3> QED BY <3>1, <3>2
  <2>5. hs[j] = hs[k]
    BY <1>4, <1>9, <2>3, <2>4
  <2> QED BY <1>4, <2>4, <2>5
<1>12. CASE F = Doubled(t, k)
  <2>1. F = [j \in 1..(n + 1) |-> IF j <= k THEN t[j] ELSE t[j - 1]]
    BY <1>3, <1>12 DEF Doubled
  <2>2. Len(F) = n + 1 /\ k \in 1..(n + 1) /\ k + 1 \in 1..(n + 1)
    BY <1>4, <2>1
  <2>3. F[k] = t[k] /\ F[k + 1] = t[k]
    <3>1. F[k + 1] = t[(k + 1) - 1] /\ (k + 1) - 1 = k
      BY <2>1, <2>2
    <3>2. F[k] = t[k]
      BY <2>1, <2>2
    <3> QED BY <3>1, <3>2
  <2>4. k < k + 1
    OBVIOUS
  <2> QED BY <1>6, <2>2, <2>3, <2>4
<1>13. CASE \E v \in [group : BOOLEAN, dir : BOOLEAN, at : InoRange] :
              /\ v # [group |-> t[k].group, dir |-> t[k].dir, at |-> t[k].at]
              /\ ~(v.group /\ t[k].group /\ v.at = t[k].at)
              /\ F = [t EXCEPT ![k] =
                        [hash |-> @.hash, group |-> v.group, dir |-> v.dir, at |-> v.at]]
  <2>1. PICK v \in [group : BOOLEAN, dir : BOOLEAN, at : InoRange] :
          /\ v # [group |-> t[k].group, dir |-> t[k].dir, at |-> t[k].at]
          /\ ~(v.group /\ t[k].group /\ v.at = t[k].at)
          /\ F = [t EXCEPT ![k] =
                    [hash |-> @.hash, group |-> v.group, dir |-> v.dir, at |-> v.at]]
    BY <1>13
  <2>2. PICK r : r = [hash |-> h, group |-> v.group, dir |-> v.dir, at |-> v.at]
    OBVIOUS
  <2>3. F = [x \in 1..n |-> IF x = k THEN r ELSE t[x]]
    BY <1>4, <1>9, <2>1, <2>2
  <2>4. Len(F) = n /\ F[k] = r
    BY <1>4, <2>3
  <2>5. FptMap[h] = r
    <3>1. r.hash = h
      BY <2>2
    <3>2. ASSUME NEW j \in 1..n, F[j].hash = h
          PROVE  j = k
      <4>1. ~(j < k) /\ ~(k < j)
        BY <1>6, <2>4, <3>1, <3>2
      <4> QED BY <1>4, <4>1
    <3> QED BY <1>4, <1>6, <2>4, <3>1, <3>2, MapFound
  <2>6. PICK s : s = WithHash(h) /\ Lists(s, {m \in PathNodes : hash[m] = h})
    BY <1>1, GroupLists
  <2>7. Len(s) \in Nat /\ Len(s) # 0
    <3>1. PICK m \in PathNodes : hash[m] = h
      BY <1>10 DEF HashesUsed
    <3>2. Len(s) \in Nat /\ \E x \in 1..Len(s) : s[x] = m
      BY <2>6, <3>1 DEF Lists
    <3> QED BY <3>2
  <2>8. PICK m : m = s[1]
    OBVIOUS
  <2>9. m \in PathNodes /\ hash[m] = h
    <3>1. 1 \in 1..Len(s)
      BY <2>7
    <3> QED BY <2>6, <2>8, <3>1 DEF Lists
  <2>10. v.group \in BOOLEAN /\ v.dir \in BOOLEAN /\ v.at \in InoRange
         /\ v = [group |-> v.group, dir |-> v.dir, at |-> v.at]
    OBVIOUS
  <2>11. r.group = v.group /\ r.dir = v.dir /\ r.at = v.at
    BY <2>2
  <2>12. CASE Len(s) = 1
    <3>1. ~v.group /\ v.dir = (m \in Dirs) /\ v.at = number[m]
      BY <2>5, <2>6, <2>9, <2>11, <2>12, MapMeans
    <3>2. t[k].group = FALSE /\ t[k].dir = (m \in Dirs) /\ t[k].at = number[m]
      <4>1. /\ Row(h).group = FALSE /\ Row(h).dir = (WithHash(h)[1] \in Dirs)
            /\ Row(h).at = number[WithHash(h)[1]]
        BY <2>6, <2>12, RowIs
      <4>2. WithHash(h)[1] = m
        BY <2>6, <2>8
      <4> QED BY <1>10, <4>1, <4>2
    <3>3. v.group = FALSE
      BY <2>10, <3>1
    <3> QED BY <2>1, <2>10, <3>1, <3>2, <3>3
  <2>13. CASE Len(s) # 1
    <3>1. v.group /\ LinkTo(m) \in GroupAt(h)
      BY <2>5, <2>6, <2>9, <2>11, <2>13, MapMeans
    <3>2. PICK a, p, b, M : a = v.at /\ p = OffsetOf(h) /\ b = Blob /\ M = Len(b)
      OBVIOUS
    <3>3. t[k].group = TRUE /\ t[k].at = p
      BY <1>10, <2>6, <2>13, <3>2, RowIs
    <3>4. a # p /\ a \in Nat
      <4>1. Len(order) \in Nat
        BY CleanMeans DEF IndexSound
      <4>2. InoRange \subseteq Nat
        BY <4>1 DEF InoRange
      <4> QED BY <2>1, <2>10, <3>1, <3>2, <3>3, <4>2
    <3>5. p \in Nat /\ p + 1 <= M /\ M \in Nat /\ (p # 0 => b[p] = Zeros)
      <4>1. p + Len(s) + 1 <= M /\ p \in Nat /\ M \in Nat /\ (p # 0 => b[p] = Zeros)
        BY <1>1, <1>10, <2>6, <2>13, <3>2, GroupStarts
      <4> QED BY <2>7, <4>1
    <3>6. b[p + 1] = LinkTo(m)
      <4>1. 1 \in 1..Len(s)
        BY <2>7
      <4> QED BY <1>1, <1>10, <2>6, <2>8, <2>13, <3>2, <4>1, GroupStarts
    <3>7. LinkTo(m) \in RunFrom(a)
      BY <2>5, <2>11, <3>1, <3>2 DEF GroupAt
    <3>8. PICK x \in (a + 1)..M : b[x] = LinkTo(m) /\ \A j \in (a + 1)..x : b[j] # Zeros
      BY <1>1, <3>2, <3>4, <3>5, <3>7, RunIs
    <3>9. x = p + 1
      <4>1. x \in 1..M /\ p + 1 \in 1..M
        BY <3>4, <3>5
      <4>2. b[x] = b[p + 1] /\ b[x] # Zeros
        BY <1>1, <2>9, <3>6, <3>8, LinksDiffer
      <4> QED BY <1>1, <3>2, <4>1, <4>2, EntriesOnce
    <3>10. p \in (a + 1)..x /\ p # 0
      BY <3>4, <3>5, <3>9
    <3> QED BY <3>5, <3>8, <3>10
  <2> QED BY <2>12, <2>13
<1> QED BY <1>8, <1>11, <1>12, <1>13

-----------------------------------------------------------------------------
(* A damaged resolver                                                      *)

(* A resolver that was hit no longer holds some entry it held.             *)
LEMMA EntryGone ==
  ASSUME ScanSound, ResolverHit(Blob)
  PROVE  \E n \in PathNodes : /\ Len(WithHash(hash[n])) # 1
                              /\ \A x \in 1..Len(resolver) : resolver[x] # LinkTo(n)
<1>1. PICK b, m, F : b = Blob /\ m = Len(b) /\ F = resolver
  OBVIOUS
<1>2. m \in Nat /\ DOMAIN b = 1..m
  BY <1>1, BlobIs DEF BlobSound
<1>3. PICK k \in 1..m :
        /\ b[k] # Zeros
        /\ \/ F = Without(b, k)
           \/ \E i \in InoRange \ {b[k].ino} : F = [b EXCEPT ![k].ino = i]
           \/ F = [b EXCEPT ![k].type = IF @ = "dir" THEN "file" ELSE "dir"]
  BY <1>1 DEF ResolverHit
<1>4. PICK n \in PathNodes : b[k] = LinkTo(n) /\ Len(WithHash(hash[n])) # 1
  BY <1>1, <1>3, EntriesOnce
<1>5. \A x \in 1..m : b[x] = LinkTo(n) => x = k
  BY <1>1, <1>3, <1>4, EntriesOnce
<1>6. LinkTo(n).ino = number[n] /\ LinkTo(n).type = TypeOf(n)
  BY DEF LinkTo, Ent
<1>7. ASSUME NEW e, F = [b EXCEPT ![k] = e], e # LinkTo(n)
      PROVE  \A x \in 1..Len(F) : F[x] # LinkTo(n)
  <2>1. F = [x \in 1..m |-> IF x = k THEN e ELSE b[x]]
    BY <1>2, <1>7
  <2>2. Len(F) = m
    BY <1>2, <2>1
  <2> QED BY <1>5, <1>7, <2>1, <2>2
<1>8. \A x \in 1..Len(F) : F[x] # LinkTo(n)
  <2>1. CASE F = Without(b, k)
    <3>1. F = [j \in 1..(m - 1) |-> IF j < k THEN b[j] ELSE b[j + 1]]
      BY <1>1, <2>1 DEF Without
    <3>2. Len(F) = m - 1
      BY <1>2, <3>1
    <3>3. ASSUME NEW x \in 1..(m - 1)
          PROVE  F[x] # LinkTo(n)
      <4>1. CASE x < k
        <5>1. x \in 1..m /\ F[x] = b[x] /\ x # k
          BY <1>2, <3>1, <4>1
        <5> QED BY <1>5, <5>1
      <4>2. CASE ~(x < k)
        <5>1. x + 1 \in 1..m /\ x + 1 # k /\ F[x] = b[x + 1]
          BY <1>2, <3>1, <4>2
        <5> QED BY <1>5, <5>1
      <4> QED BY <4>1, <4>2
    <3> QED BY <3>2, <3>3
  <2>2. CASE \E i \in InoRange \ {b[k].ino} : F = [b EXCEPT ![k].ino = i]
    <3>1. PICK i : i # b[k].ino /\ F = [b EXCEPT ![k] = [b[k] EXCEPT !.ino = i]]
      BY <2>2
    <3>2. PICK e : e = [b[k] EXCEPT !.ino = i]
      OBVIOUS
    <3>3. e.ino = i
      BY <1>4, <3>2 DEF LinkTo, Ent
    <3>4. e # LinkTo(n)
      BY <1>4, <3>1, <3>3
    <3> QED BY <1>7, <3>1, <3>2, <3>4
  <2>3. CASE F = [b EXCEPT ![k].type = IF @ = "dir" THEN "file" ELSE "dir"]
    <3>1. PICK t : t = IF b[k].type = "dir" THEN "file" ELSE "dir"
      OBVIOUS
    <3>2. PICK e : e = [b[k] EXCEPT !.type = t]
      OBVIOUS
    <3>3. F = [b EXCEPT ![k] = e]
      BY <2>3, <3>1, <3>2
    <3>4. e.type = t /\ t # b[k].type
      BY <1>4, <3>1, <3>2 DEF LinkTo, Ent
    <3>5. e # LinkTo(n)
      BY <1>4, <3>4
    <3> QED BY <1>7, <3>3, <3>5
  <2> QED BY <1>3, <2>1, <2>2, <2>3
<1> QED BY <1>1, <1>4, <1>8

LEMMA ResolverReported ==
  ASSUME Clean, Inspected, PathsInv, FoundInv
  PROVE  damage # "resolver"
<1> SUFFICES ASSUME damage = "resolver" PROVE FALSE
  OBVIOUS
<1>1. ResolverHit(Blob) /\ fpt = Rows /\ ScanSound
  <2>1. PICK D : Links(D)
    BY CleanMeans DEF ImageInv
  <2> QED BY <2>1, CleanMeans DEF Links
<1>2. PICK n \in PathNodes : /\ Len(WithHash(hash[n])) # 1
                             /\ \A x \in 1..Len(resolver) : resolver[x] # LinkTo(n)
  BY <1>1, EntryGone
<1>3. PICK h : h = hash[n]
  OBVIOUS
<1>4. h \in HashesUsed
  BY <1>1, <1>3, HashesAre
<1>5. LinkTo(n) \in GroupAt(h)
  BY <1>2, <1>3, MapMeans
<1>6. LinkTo(n) \in RunFrom(FptMap[h].at)
  BY <1>5 DEF GroupAt
<1>7. RunFrom(FptMap[h].at) \subseteq {resolver[x] : x \in 1..Len(resolver)}
  <2>1. FptMap[h] = Row(h)
    <3>1. TableSeq = Rows
      BY <1>1, MapMeans
    <3> QED BY <1>1, <1>4, <3>1, MapWhole
  <2>2. PICK a : a = FptMap[h].at
    OBVIOUS
  <2>3. a \in Nat
    <3>1. Len(WithHash(h)) # 1
      BY <1>2, <1>3
    <3>2. Row(h).at = OffsetOf(h)
      BY <3>1, RowIs
    <3>3. OffsetOf(h) \in Nat
      BY <1>1, <1>4, <3>1, GroupStarts
    <3> QED BY <2>1, <2>2, <3>2, <3>3
  <2>4. Len(resolver) \in Nat
    <3>1. PICK b, m : b = Blob /\ m = Len(b)
      OBVIOUS
    <3>2. m \in Nat /\ DOMAIN b = 1..m
      BY <1>1, <3>1, BlobIs DEF BlobSound
    <3>3. PICK k \in 1..m :
            \/ resolver = Without(b, k)
            \/ \E i : resolver = [b EXCEPT ![k].ino = i]
            \/ resolver = [b EXCEPT ![k].type = IF @ = "dir" THEN "file" ELSE "dir"]
      BY <1>1, <3>1 DEF ResolverHit
    <3>4. CASE resolver = Without(b, k)
      <4>1. resolver = [j \in 1..(m - 1) |-> IF j < k THEN b[j] ELSE b[j + 1]]
        BY <3>1, <3>4 DEF Without
      <4>2. Len(resolver) = m - 1
        BY <3>2, <4>1
      <4> QED BY <3>2, <4>2
    <3>5. CASE \E e : resolver = [b EXCEPT ![k] = e]
      <4>1. DOMAIN resolver = 1..m
        BY <3>2, <3>5
      <4>2. Len(resolver) = m
        BY <3>2, <3>5
      <4> QED BY <3>2, <4>2
    <3> QED BY <3>3, <3>4, <3>5
  <2>5. ASSUME NEW e \in RunFrom(a)
        PROVE  \E x \in 1..Len(resolver) : e = resolver[x]
    <3>1. PICK x \in (a + 1)..Len(resolver) : e = resolver[x]
      BY <2>3, <2>4, RunIs
    <3>2. x \in 1..Len(resolver)
      BY <2>3, <2>4
    <3> QED BY <3>1, <3>2
  <2> QED BY <2>2, <2>5
<1> QED BY <1>2, <1>6, <1>7

(* Every damage of a link is reported.                                     *)
LEMMA AnyReported ==
  ASSUME Clean, Inspected, PathsInv, FoundInv
  PROVE  damage = "none"
<1>1. PICK D : Links(D)
  BY CleanMeans DEF ImageInv
<1>2. damage # "super"
  <2> SUFFICES ASSUME damage = "super" PROVE FALSE
    OBVIOUS
  <2>1. SuperHit(SuperEntries)
    BY <1>1 DEF Links
  <2>2. PICK name : Misled(name)
    BY <2>1, CleanMeans, SuperDamaged
  <2>3. super = SuperEntries
    BY SuperReported
  <2> QED BY <2>2, <2>3, SuperWhole DEF Misled, Given
<1> QED BY <1>1, <1>2, EntryReported, TableReported, ResolverReported DEF Links

(* A link that was lost, doubled or redirected is reported whatever it     *)
(* links: the walk, the dots, the comparison with the path table and the   *)
(* search for orphans leave no damage of one link unnoticed, for any tree  *)
(* and any hash function.                                                  *)
THEOREM DamageIsReported == Spec => []DamageReported
<1>1. InspectInv => DamageReported
  <2> SUFFICES ASSUME InspectInv, Inspected, errors = {} PROVE damage = "none"
    BY DEF DamageReported
  <2>1. Clean /\ PathsInv /\ FoundInv
    BY DEF Clean, InspectInv, Started, Inspected
  <2> QED BY <2>1, AnyReported
<1> QED BY <1>1, Inspecting, PTL

-----------------------------------------------------------------------------
(* What an extraction writes                                               *)

LEMMA Targets ==
  ASSUME Clean, Inspected, PathsInv, FoundInv
  PROVE  /\ DOMAIN fileIno = {PathOf[f] : f \in packed}
         /\ PackedDirs \subseteq DirNodes
         /\ \A f \in packed : /\ TargetOf(PathOf[f]) = f /\ f \in Nodes /\ f \notin PackedDirs
                              /\ \A g \in packed : PathOf[g] = PathOf[f] => g = f
         /\ PackedDirs \subseteq Nodes
<1>1. /\ \A f \in packed : PathOf[f] \in DOMAIN fileIno
      /\ \A d \in PackedDirs : PathOf[d] \in DOMAIN dirIno
      /\ \A p \in DOMAIN fileIno : \E f \in packed : p = PathOf[f]
  BY AllFound
<1>2. packed \subseteq Nodes /\ PackedDirs \subseteq Nodes /\ packed \cap PackedDirs = {}
  BY CleanMeans, NodesPacked, TreeAssumption DEF PathNodes
<1>3. \A n \in Nodes : TargetOf(PathOf[n]) = n /\ PathOf[n] # <<>>
  BY LastOfPath DEF TargetOf
<1>4. DOMAIN fileIno = {PathOf[f] : f \in packed}
  BY <1>1
<1>5. PackedDirs \subseteq DirNodes
  <2> SUFFICES ASSUME NEW d \in PackedDirs PROVE d \in DirNodes
    OBVIOUS
  <2>1. PathOf[d] \in DOMAIN dirIno \ {<<>>} /\ TargetOf(PathOf[d]) = d
    BY <1>1, <1>2, <1>3
  <2> QED BY <2>1 DEF DirNodes
<1>6. \A f, g \in packed : PathOf[g] = PathOf[f] => g = f
  BY <1>2, <1>3
<1> QED BY <1>2, <1>3, <1>4, <1>5, <1>6

(* What is not written yet is still in the queue.                          *)
WrittenInv ==
  /\ stage = "files" /\ errors = {} =>
       /\ \A f \in packed : PathOf[f] \in queue \/ out[f] = "whole"
       /\ \A d \in PackedDirs : out[d] = "dir"
       /\ queue \subseteq {PathOf[f] : f \in packed}
  /\ ExtractedWhole

LEMMA WrittenStep ==
  InspectInv /\ ExtractInv /\ WrittenInv /\ [Next]_vars => WrittenInv'
<1> SUFFICES ASSUME InspectInv, ExtractInv, WrittenInv, [Next]_vars PROVE WrittenInv'
  OBVIOUS
<1>1. ASSUME stage' \notin {"files", "ended"}
      PROVE  WrittenInv'
  BY <1>1 DEF WrittenInv, ExtractedWhole
<1>2. CASE Build \/ Store \/ ParseIndexes \/ WalkBad \/ WalkFile \/ WalkDir \/ WalkUp
             \/ FinishInspection
  BY <1>1, <1>2, StepsBefore DEF Before
<1>3. CASE Plan
  BY <1>3 DEF Plan, WrittenInv, ExtractedWhole, foundVars
<1>4. CASE UNCHANGED vars
  <2>1. UNCHANGED <<stage, errors, mode, packed, queue, out>>
    BY <1>4 DEF vars, buildVars, inspectVars, foundVars, outVars
  <2>2. PackedDirs' = PackedDirs
    BY <2>1 DEF PackedDirs
  <2> QED BY <2>1, <2>2 DEF WrittenInv, ExtractedWhole
<1>5. CASE MakeDirs \/ OpenTarget \/ WriteTarget \/ FinishExtraction
  <2>1. /\ packed' = packed /\ errors \subseteq errors' /\ stage \in {"dirs", "files"}
        /\ mode' = mode
    BY <1>5 DEF MakeDirs, OpenTarget, WriteTarget, FinishExtraction, buildVars, inspectVars,
                foundVars, Complain
  <2>2. PackedDirs' = PackedDirs
    BY <2>1 DEF PackedDirs
  <2>3. CASE errors' # {}
    BY <2>3 DEF WrittenInv, ExtractedWhole
  <2>4. CASE errors' = {}
    <3>1. Clean /\ Inspected /\ PathsInv /\ FoundInv /\ errors = {}
      BY <2>1, <2>4 DEF InspectInv, Clean, Started, Inspected
    <3>2. PICK P, Q, D : P = packed /\ Q = PackedDirs /\ D = Nodes \cup {Root}
      OBVIOUS
    <3>3. /\ DOMAIN fileIno = {PathOf[f] : f \in P} /\ Q \subseteq DirNodes
          /\ P \subseteq D /\ Q \subseteq D /\ P \cap Q = {}
          /\ \A f \in P : TargetOf(PathOf[f]) = f
          /\ \A f, g \in P : PathOf[g] = PathOf[f] => g = f
      BY <3>1, <3>2, Targets
    <3>4. DOMAIN out = D
      BY <3>2 DEF ExtractInv
    <3>5. stage = "files" =>
            /\ \A f \in P : PathOf[f] \in queue \/ out[f] = "whole"
            /\ \A d \in Q : out[d] = "dir"
            /\ queue \subseteq {PathOf[f] : f \in P}
      BY <3>1, <3>2 DEF WrittenInv
    <3>6. SUFFICES /\ stage' = "files" =>
                       /\ \A f \in P : PathOf[f] \in queue' \/ out'[f] = "whole"
                       /\ \A d \in Q : out'[d] = "dir"
                       /\ queue' \subseteq {PathOf[f] : f \in P}
                   /\ stage' = "ended" =>
                       /\ \A f \in P : out'[f] = "whole"
                       /\ \A d \in Q : out'[d] = "dir"
      BY <2>1, <2>2, <3>2 DEF WrittenInv, ExtractedWhole
    <3>7. CASE MakeDirs
      <4>1. CASE stage' = "raised"
        BY <4>1
      <4>2. CASE stage' # "raised"
        <5>1. /\ out' = [n \in DOMAIN out |-> IF n \in DirNodes THEN "dir" ELSE out[n]]
              /\ queue' = DOMAIN fileIno /\ stage' = "files"
          BY <2>4, <3>7, <4>2 DEF MakeDirs, Complain
        <5> QED BY <3>3, <3>4, <5>1
      <4> QED BY <4>1, <4>2
    <3>8. CASE OpenTarget
      <4>1. /\ stage = "files" /\ stage' = stage /\ queue' = queue
            /\ \E p \in queue : out' = [out EXCEPT ![TargetOf(p)] = "partial"]
        BY <2>4, <3>8 DEF OpenTarget, Complain
      <4>2. PICK p \in queue : out' = [out EXCEPT ![TargetOf(p)] = "partial"]
        BY <4>1
      <4>3. PICK g \in P : p = PathOf[g]
        BY <3>5, <4>1
      <4>4. out' = [out EXCEPT ![g] = "partial"]
        BY <3>3, <4>2, <4>3
      <4>5. \A n \in D : n # g => out'[n] = out[n]
        BY <3>4, <4>4
      <4> QED BY <3>3, <3>5, <4>1, <4>3, <4>5
    <3>9. CASE WriteTarget
      <4>1. stage = "files" /\ stage' = stage
            /\ \E p \in OpenPaths : /\ out' = [out EXCEPT ![TargetOf(p)] = "whole"]
                                    /\ queue' = queue \ {p}
        BY <2>4, <3>9 DEF WriteTarget, Complain
      <4>2. PICK p \in queue : /\ out' = [out EXCEPT ![TargetOf(p)] = "whole"]
                               /\ queue' = queue \ {p}
        BY <4>1 DEF OpenPaths
      <4>3. PICK g \in P : p = PathOf[g]
        BY <3>5, <4>1
      <4>4. out' = [out EXCEPT ![g] = "whole"]
        BY <3>3, <4>2, <4>3
      <4>5. (\A n \in D : n # g => out'[n] = out[n]) /\ out'[g] = "whole"
        BY <3>3, <3>4, <4>4
      <4> QED BY <3>3, <3>5, <4>1, <4>2, <4>3, <4>5
    <3>10. CASE FinishExtraction
      <4>1. queue = {} /\ out' = out /\ stage = "files" /\ stage' = "ended"
        BY <3>10 DEF FinishExtraction, outVars
      <4> QED BY <3>5, <4>1
    <3> QED BY <1>5, <3>7, <3>8, <3>9, <3>10
  <2> QED BY <2>3, <2>4
<1> QED BY <1>2, <1>3, <1>4, <1>5 DEF Next

(* An extraction without errors has written every packed file whole, and   *)
(* every packed directory is there: extract_pfs_image plans by the maps of *)
(* the walk, which hold them all when nothing was reported.                *)
THEOREM ExtractionIsWhole == Spec => []ExtractedWhole
<1>1. Init => InspectInv /\ ExtractInv /\ WrittenInv
  <2>1. Init => WrittenInv
    BY DEF Init, BuildInit, WrittenInv, ExtractedWhole
  <2> QED BY <2>1, ImageInit, WalkInit, PathsInit, FoundInit, ExtractInit DEF InspectInv
<1>2. /\ InspectInv /\ [Next]_vars => InspectInv'
      /\ ExtractInv /\ [Next]_vars => ExtractInv'
      /\ InspectInv /\ ExtractInv /\ WrittenInv /\ [Next]_vars => WrittenInv'
  BY ImageStep, WalkStep, PathsStep, FoundStep, ExtractStep, WrittenStep DEF InspectInv
<1>3. WrittenInv => ExtractedWhole
  BY DEF WrittenInv
<1> QED BY <1>1, <1>2, <1>3, PTL DEF Spec

-----------------------------------------------------------------------------
(* What the inspection makes of an image that was not damaged              *)

LEMMA WholeMeans ==
  ASSUME ImageInv, Complete, damage = "none"
  PROVE  /\ ScanSound /\ IndexSound(Collision) /\ TreeSound(dirents)
         /\ fpt = Rows /\ resolver = Blob
         /\ Special(Fpt) = number[Fpt] /\ Special(Root) = number[Root]
         /\ Collision => Special(Resolver) = number[Resolver]
         /\ \A o \in DOMAIN number : number[o] \in Nat /\ InRange(number[o]) /\ Object(number[o]) = o
         /\ Fpt \in DOMAIN number /\ Root \in DOMAIN number
         /\ Collision => Resolver \in DOMAIN number
<1>1. PICK D : TreeSound(D) /\ Links(D)
  BY DEF ImageInv
<1>2. /\ ScanSound /\ IndexSound(Collision) /\ TreeSound(dirents)
      /\ fpt = Rows /\ resolver = Blob /\ super = SuperEntries
  BY <1>1 DEF Links, ImageInv
<1>3. \A name \in ReservedNames : Special(name) = Given(name)
  BY <1>2, SuperWhole
<1>4. /\ Special(Fpt) = number[Fpt] /\ Special(Root) = number[Root]
      /\ Collision => Special(Resolver) = number[Resolver]
  BY <1>3 DEF Given, ReservedNames, Fpt, Root, Resolver
<1>5. /\ Fpt \in DOMAIN number /\ Root \in DOMAIN number
      /\ Collision => Resolver \in DOMAIN number
  BY <1>2, Reserved
<1>6. \A o \in DOMAIN number : InRange(number[o]) /\ Object(number[o]) = o /\ number[o] \in Nat
  BY <1>2, Placed
<1> QED BY <1>2, <1>4, <1>5, <1>6

(* The groups of the table, and where they are read.                       *)
LEMMA GroupsRead ==
  ASSUME ImageInv, Complete, damage = "none"
  PROVE  /\ TableSeq = Rows /\ DOMAIN FptMap = HashesUsed
         /\ \A h \in HashesUsed : FptMap[h] = Row(h)
         /\ \A h \in HashesUsed : Len(WithHash(h)) # 1 =>
              /\ Collision /\ OffsetOf(h) < BlobLen /\ GroupAt(h) = RunFrom(OffsetOf(h))
         /\ \A h \in Groups : h \in HashesUsed /\ Len(WithHash(h)) # 1
<1>1. TableSeq = Rows /\ ScanSound
  BY WholeMeans DEF TableSeq
<1>2. DOMAIN FptMap = HashesUsed /\ \A h \in HashesUsed : FptMap[h] = Row(h)
  BY <1>1, MapWhole
<1>3. ASSUME NEW h \in HashesUsed, Len(WithHash(h)) # 1
      PROVE  Collision /\ OffsetOf(h) < BlobLen /\ GroupAt(h) = RunFrom(OffsetOf(h))
  <2>1. PICK p, m, M : p = OffsetOf(h) /\ m = Len(WithHash(h)) /\ M = Len(Blob)
    OBVIOUS
  <2>2. p \in Nat /\ m \in Nat /\ m >= 2 /\ p + m + 1 <= M /\ M \in Nat
    BY <1>1, <1>3, <2>1, GroupStarts
  <2>3. Collision
    <3>1. m > 1
      BY <2>2
    <3> QED BY <2>1, <3>1 DEF Collision
  <2>4. BlobLen = M
    <3>1. Special(Resolver) = number[Resolver] /\ Resolver \in DOMAIN number /\ resolver = Blob
      BY <2>3, WholeMeans
    <3>2. number[Resolver] \in Nat /\ InRange(number[Resolver]) /\ Object(number[Resolver]) = Resolver
      BY <3>1, WholeMeans
    <3>3. number[Resolver] # None
      BY <3>2 DEF None
    <3> QED BY <2>1, <3>1, <3>2, <3>3 DEF BlobLen, ResolverRead
  <2>5. FptMap[h].at = p
    BY <1>2, <1>3, <2>1, RowIs
  <2>6. p < M
    BY <2>2
  <2> QED BY <2>1, <2>3, <2>4, <2>5, <2>6 DEF GroupAt
<1>4. ASSUME NEW h \in Groups
      PROVE  h \in HashesUsed /\ Len(WithHash(h)) # 1
  <2>1. h \in DOMAIN FptMap /\ FptMap[h].group
    BY <1>4 DEF Groups
  <2>2. h \in HashesUsed /\ Row(h).group
    BY <1>2, <2>1
  <2> QED BY <2>2, RowIs
<1> QED BY <1>1, <1>2, <1>3, <1>4

LEMMA IndexAccepted ==
  ASSUME ImageInv, Complete, damage = "none"
  PROVE  IndexErrors = {}
<1>1. Special(Fpt) # None /\ Special(Root) # None
  BY WholeMeans DEF None
<1>2. ~\E j, k \in 1..Len(TableSeq) : j < k /\ TableSeq[j].hash = TableSeq[k].hash
  <2>1. PICK hs, t : RowsOf(hs, t) /\ t = Rows
    BY WholeMeans, RowsAre
  <2>2. /\ Len(t) \in Nat /\ \A k \in 1..Len(t) : t[k].hash = hs[k]
        /\ \A j, k \in 1..Len(t) : hs[j] = hs[k] => j = k
    BY <2>1, RowIs DEF RowsOf, Lists
  <2>3. TableSeq = t
    BY <2>1, GroupsRead
  <2>4. ASSUME NEW j \in 1..Len(t), NEW k \in 1..Len(t), j < k, t[j].hash = t[k].hash
        PROVE  FALSE
    <3>1. j = k
      BY <2>2, <2>4
    <3> QED BY <2>2, <2>4, <3>1
  <2> QED BY <2>3, <2>4
<1>3. ~(Groups # {} /\ Special(Resolver) = None)
  <2> SUFFICES ASSUME NEW h \in Groups PROVE Special(Resolver) # None
    OBVIOUS
  <2>1. Collision
    BY GroupsRead
  <2> QED BY <2>1, WholeMeans DEF None
<1>4. ~\E h \in Groups : FptMap[h].at >= BlobLen
  <2> SUFFICES ASSUME NEW h \in Groups PROVE ~(FptMap[h].at >= BlobLen)
    OBVIOUS
  <2>1. h \in HashesUsed /\ Len(WithHash(h)) # 1
    BY GroupsRead
  <2>2. PICK p, L : p = OffsetOf(h) /\ L = BlobLen
    OBVIOUS
  <2>3. p < L /\ FptMap[h].at = p
    BY <2>1, <2>2, GroupsRead, RowIs
  <2>4. p \in Nat /\ L \in Nat
    <3>1. p \in Nat /\ Len(resolver) \in Nat
      BY <2>1, <2>2, WholeMeans, GroupStarts
    <3> QED BY <2>2, <3>1 DEF BlobLen
  <2> QED BY <2>2, <2>3, <2>4
<1> QED BY <1>1, <1>2, <1>3, <1>4 DEF IndexErrors, When

(* A directory as it was packed has its dots in place.                     *)
LEMMA DirAccepted ==
  ASSUME ImageInv, Complete, damage = "none", NEW d \in PackedDirs \cup {Root}
  PROVE  /\ InRange(number[d]) /\ IsDir(number[d]) /\ Object(number[d]) = d /\ d \in DOMAIN number
         /\ DotErrors(number[d], number[IF d = Root THEN Root ELSE Parent[d]]) = {}
<1>1. d \in DOMAIN number /\ DirSound(dirents[d], number, d) /\ ScanSound /\ IndexSound(Collision)
  BY WholeMeans, Reserved DEF TreeSound, PathNodes
<1>2. PICK i : i = number[d]
  OBVIOUS
<1>3. InRange(i) /\ Object(i) = d
  BY <1>1, <1>2, WholeMeans
<1>4. d \in Dirs \cup {Root} /\ IsDir(i)
  BY <1>1, <1>3, NodesPacked DEF IsDir
<1>5. PICK E : E = dirents[d]
  OBVIOUS
<1>6. Payload(i) = E
  <2>1. d # Super
    BY <1>4, TreeAssumption, PlacesFacts DEF Super, Root, Nodes
  <2> QED BY <1>3, <1>5, <2>1 DEF Payload
<1>7. PICK up : up = number[IF d = Root THEN Root ELSE Parent[d]]
  OBVIOUS
<1>8. /\ Len(E) \in Nat /\ Len(E) >= 2
      /\ \A k \in 1..Len(E) : /\ E[k].name = Dot <=> k = 1
                              /\ E[k].name = DotDot <=> k = 2
      /\ E[1].ino = i /\ E[1].type = "dot"
      /\ E[2].ino = up /\ E[2].type = "dotdot"
  BY <1>1, <1>2, <1>5, <1>7, DotsAre
<1>9. Named(i, Dot) = {1} /\ Named(i, DotDot) = {2}
  BY <1>6, <1>8 DEF Named
<1>10. Cardinality(Named(i, Dot)) = 1 /\ Cardinality(Named(i, DotDot)) = 1
  BY <1>9, FS_Singleton
<1>11. ~Wrong(i, Dot, i, "dot") /\ ~Wrong(i, DotDot, up, "dotdot")
  BY <1>6, <1>8, <1>9 DEF Wrong
<1> QED BY <1>1, <1>2, <1>3, <1>4, <1>7, <1>10, <1>11 DEF DotErrors, When

(* Where the walk of such an image stands: c was found, or is still ahead. *)
ArrivedIn(V, F, G, c) ==
  IF c \in packed THEN PathOf[c] \in DOMAIN F ELSE number[c] \in V /\ PathOf[c] \in DOMAIN G

Waits(s, c) ==
  \E j \in 1..Len(s) : \E k \in s[j].next..Len(s[j].entries) : s[j].entries[k].name = c

Reached(s, V, F, G) ==
  \A c \in PathNodes : number[Parent[c]] \in V => ArrivedIn(V, F, G, c) \/ Waits(s, c)

(* A directory has one path, and an inner frame is for a lower node.       *)
DirPathsFit(P) == \A i \in DOMAIN P : \E d \in PackedDirs \cup {Root} : i = number[d] /\ P[i] = PathOf[d]

Falls(s) == \A j, k \in 1..Len(s) : j < k => Object(s[j].ino) > Object(s[k].ino)

Whole == Clean /\ PathsInv /\ FoundInv /\ damage = "none"

(* c is the child the walk looks at next.                                  *)
NextIs(c, n) ==
  /\ c \in PathNodes /\ n \in Nat \ {0} /\ Parent[c] \in PackedDirs \cup {Root}
  /\ number[Parent[c]] \in visited
  /\ Top = Frame(number[Parent[c]], PathOf[Parent[c]], n)
  /\ n \in 1..Len(Listed(number[Parent[c]])) /\ Entry = Listed(number[Parent[c]])[n]
  /\ Entry = LinkTo(c) /\ ChildPath = PathOf[c]
  /\ \A j \in 1..(n - 1) : Listed(number[Parent[c]])[j].name # c

LEMMA NextChild ==
  ASSUME Whole, Walking
  PROVE  \E c, n : NextIs(c, n)
<1>1. /\ ImageInv /\ WalkInv /\ Started /\ Complete /\ errors = {} /\ stack # <<>>
      /\ ScanSound /\ IndexSound(Collision) /\ Entered(visited)
  BY CleanMeans DEF Whole, Clean, Walking, WalkedWith
<1>2. PICK i \in visited : \E p : \E n \in Nat \ {0} : Top = Frame(i, p, n)
  BY <1>1, TopFrame
<1>3. PICK p : \E n \in Nat \ {0} : Top = Frame(i, p, n)
  BY <1>2
<1>4. PICK n \in Nat \ {0} : Top = Frame(i, p, n)
  BY <1>3
<1>5. /\ Top.ino = i /\ Top.path = p /\ Top.next = n /\ Top.entries = Listed(i)
      /\ Entry = Listed(i)[n] /\ ChildPath = Append(p, Listed(i)[n].name)
  BY <1>4, TopEntry
<1>6. PICK d : d = Object(i)
  OBVIOUS
<1>7. d \in PackedDirs \cup {Root} /\ number[d] = i
  BY <1>6, VisitedAre DEF Whole
<1>8. p = PathOf[d]
  <2>1. PathsWith(stack, fileIno, dirIno)
    BY <1>1 DEF Whole, PathsInv
  <2>2. OnTop(stack, Top, Tail(stack))
    BY <1>1, Popped DEF WalkInv, Top
  <2>3. 1 \in 1..Len(stack) /\ stack[1] = Top
    BY <2>2 DEF OnTop
  <2>4. PathFits(i, p)
    BY <1>5, <2>1, <2>3 DEF PathsWith
  <2> QED BY <1>6, <2>4, PathFitsMeans DEF Whole
<1>9. n \in 1..Len(Listed(i))
  <2>1. n <= Len(Listed(i))
    BY <1>5 DEF Walking
  <2>2. Len(Listed(i)) \in Nat
    BY <1>1, ListedLength
  <2> QED BY <2>1, <2>2
<1>10. DirSound(dirents[d], number, d)
  BY <1>1, <1>7, WholeMeans DEF TreeSound, Whole
<1>11. ChildEntry(Listed(i)[n], d)
       /\ \A j, k \in 1..Len(Listed(i)) : Listed(i)[j].name = Listed(i)[k].name => j = k
  <2>1. /\ \A x \in 1..Len(Listed(i)) : ChildEntry(Listed(i)[x], d)
        /\ \A j, k \in 1..Len(Listed(i)) : Listed(i)[j].name = Listed(i)[k].name => j = k
    BY <1>1, <1>7, <1>10, ListedIs
  <2> QED BY <1>9, <2>1
<1>12. PICK c : c = Listed(i)[n].name
  OBVIOUS
<1>13. c \in PathNodes /\ Parent[c] = d /\ Entry = LinkTo(c)
  BY <1>5, <1>11, <1>12 DEF ChildEntry, LinkTo
<1>14. ChildPath = PathOf[c]
  <2>1. c \in Nodes
    BY <1>1, <1>13, NodesPacked
  <2> QED BY <1>5, <1>8, <1>12, <1>13, <2>1, PathsAre
<1>15. \A j \in 1..(n - 1) : Listed(i)[j].name # c
  <2> TAKE j \in 1..(n - 1)
  <2>1. PICK L : L = Len(Listed(i))
    OBVIOUS
  <2>2. j \in 1..L /\ n \in 1..L /\ j # n
    <3>1. L \in Nat
      BY <1>1, <2>1, ListedLength
    <3> QED BY <1>9, <2>1, <3>1
  <2> QED BY <1>11, <1>12, <2>1, <2>2
<1> QED BY <1>4, <1>5, <1>7, <1>8, <1>9, <1>13, <1>14, <1>15 DEF NextIs

LEMMA NextAccepted ==
  ASSUME Whole, Walking, DirPathsFit(dirPath), Falls(stack), NEW c, NEW n, NextIs(c, n)
  PROVE  /\ EntryErrors = {} /\ Entry.ino = number[c] /\ Entry.type = TypeOf(c)
         /\ Entry.name = c
         /\ c \in PackedDirs <=> TypeOf(c) = "dir"
         /\ c \in packed <=> TypeOf(c) = "file"
<1>1. /\ ImageInv /\ WalkInv /\ Complete /\ stack # <<>> /\ c \in PathNodes
      /\ ScanSound /\ IndexSound(Collision)
  BY CleanMeans DEF Whole, Clean, Walking, NextIs
<1>2. Entry.ino = number[c] /\ Entry.type = TypeOf(c) /\ Entry.name = c
  BY DEF NextIs, LinkTo, Ent
<1>3. /\ c \in DOMAIN number /\ InRange(number[c]) /\ Object(number[c]) = c /\ c \in Nodes
      /\ c \notin {Root, Super}
  BY <1>1, Reserved, WholeMeans DEF Whole
<1>4. /\ c \in PackedDirs <=> TypeOf(c) = "dir"
      /\ c \in packed <=> TypeOf(c) = "file"
      /\ TypeOf(c) \in {"dir", "file"}
      /\ IsDir(number[c]) <=> TypeOf(c) = "dir"
  <2>1. c \in PackedDirs <=> c \in Dirs
    BY <1>1, NodesPacked, TreeAssumption DEF PathNodes
  <2>2. c \in packed <=> c \notin Dirs
    BY <1>1, NodesPacked, TreeAssumption DEF PathNodes
  <2>3. IsDir(number[c]) <=> c \in Dirs
    BY <1>3 DEF IsDir
  <2> QED BY <2>1, <2>2, <2>3 DEF TypeOf
<1>5. ~\E k \in 1..(Top.next - 1) : Top.entries[k].name = Entry.name
  <2>1. Top.next = n /\ Top.entries = Listed(number[Parent[c]])
    BY DEF NextIs, Frame
  <2> QED BY <1>2, <2>1 DEF NextIs
<1>6. number[c] \notin Ancestors
  <2> SUFFICES ASSUME NEW j \in 1..Len(stack), stack[j].ino = number[c] PROVE FALSE
    BY DEF Ancestors
  <2>1. Object(stack[j].ino) = c
    BY <1>3
  <2>2. OnTop(stack, Top, Tail(stack))
    BY <1>1, Popped DEF WalkInv, Top
  <2>3. 1 \in 1..Len(stack) /\ stack[1] = Top /\ Len(stack) \in Nat
    BY <2>2 DEF OnTop
  <2>4. Object(stack[1].ino) = Parent[c]
    <3>1. stack[1].ino = number[Parent[c]] /\ Parent[c] \in PackedDirs \cup {Root}
      BY <2>3 DEF NextIs, Frame
    <3>2. Parent[c] \in DOMAIN number
      BY <1>1, <3>1, Reserved DEF PathNodes
    <3> QED BY <1>1, <3>1, <3>2, WholeMeans DEF Whole
  <2>5. Parent[c] < c /\ c \in Nat /\ Parent[c] \in Nat
    BY <1>3, PlacesFacts
  <2>6. CASE j = 1
    BY <2>1, <2>4, <2>5, <2>6
  <2>7. CASE 1 < j
    <3>1. Object(stack[1].ino) > Object(stack[j].ino)
      BY <2>3, <2>7 DEF Falls
    <3> QED BY <2>1, <2>4, <2>5, <3>1
  <2> QED BY <2>3, <2>6, <2>7
<1>7. number[c] \in DOMAIN dirPath => dirPath[number[c]] = PathOf[c]
  <2> SUFFICES ASSUME number[c] \in DOMAIN dirPath PROVE dirPath[number[c]] = PathOf[c]
    OBVIOUS
  <2>1. PICK d \in PackedDirs \cup {Root} : number[c] = number[d] /\ dirPath[number[c]] = PathOf[d]
    BY DEF DirPathsFit
  <2>2. d \in DOMAIN number
    BY <1>1, Reserved DEF PathNodes
  <2> QED BY <1>1, <1>3, <2>1, <2>2, Placed
<1>8. (Entry.type = "dir") = IsDir(Entry.ino)
  <2>1. Entry.type = "dir" <=> IsDir(Entry.ino)
    BY <1>2, <1>4
  <2>2. IsDir(Entry.ino) \in BOOLEAN
    BY DEF IsDir
  <2> QED BY <2>1, <2>2
<1>9. EntryErrors = {}
  BY <1>2, <1>3, <1>4, <1>5, <1>6, <1>7, <1>8 DEF EntryErrors, When, NextIs
<1> QED BY <1>2, <1>4, <1>9

Ahead(x, c) == \E k \in x.next..Len(x.entries) : x.entries[k].name = c

LEMMA WaitsOnTop ==
  ASSUME NEW u, NEW x, NEW s, OnTop(u, x, s), NEW c
  PROVE  Waits(u, c) <=> Ahead(x, c) \/ Waits(s, c)
<1>1. /\ Len(s) \in Nat /\ Len(u) = Len(s) + 1 /\ u[1] = x
      /\ \A k \in 1..Len(s) : u[k + 1] = s[k]
      /\ \A k \in 2..Len(u) : k - 1 \in 1..Len(s) /\ u[k] = s[k - 1]
  BY DEF OnTop
<1>2. PICK P : P = [j \in 1..Len(u) |-> Ahead(u[j], c)]
  OBVIOUS
<1>3. PICK Q : Q = [j \in 1..Len(s) |-> Ahead(s[j], c)]
  OBVIOUS
<1>4. Waits(u, c) <=> \E j \in 1..Len(u) : P[j]
  BY <1>2 DEF Waits, Ahead
<1>5. Waits(s, c) <=> \E j \in 1..Len(s) : Q[j]
  BY <1>3 DEF Waits, Ahead
<1>6. 1 \in 1..Len(u) /\ P[1] = Ahead(x, c)
  BY <1>1, <1>2
<1>7. \A j \in 1..Len(s) : j + 1 \in 1..Len(u) /\ P[j + 1] = Q[j]
  <2> TAKE j \in 1..Len(s)
  <2>1. j + 1 \in 1..Len(u) /\ u[j + 1] = s[j]
    BY <1>1
  <2> QED BY <1>2, <1>3, <2>1
<1>8. \A j \in 1..Len(u) : j = 1 \/ (j - 1 \in 1..Len(s) /\ P[j] = Q[j - 1])
  <2> TAKE j \in 1..Len(u)
  <2>1. CASE j = 1
    BY <2>1
  <2>2. CASE j # 1
    <3>1. j \in 2..Len(u)
      BY <1>1, <2>2
    <3>2. j - 1 \in 1..Len(s) /\ u[j] = s[j - 1]
      BY <1>1, <3>1
    <3> QED BY <1>2, <1>3, <3>2
  <2> QED BY <2>1, <2>2
<1> QED BY <1>4, <1>5, <1>6, <1>7, <1>8

LEMMA FallsOnTop ==
  ASSUME NEW u, NEW x, NEW s, OnTop(u, x, s)
  PROVE  Falls(u) <=> Falls(s) /\ \A j \in 1..Len(s) : Object(x.ino) > Object(s[j].ino)
<1>1. PICK m, n : m = Len(s) /\ n = Len(u)
  OBVIOUS
<1>2. /\ m \in Nat /\ n = m + 1 /\ u[1] = x
      /\ \A k \in 1..m : u[k + 1] = s[k]
      /\ \A k \in 2..n : k - 1 \in 1..m /\ u[k] = s[k - 1]
  BY <1>1 DEF OnTop
<1>3. ASSUME Falls(u)
      PROVE  Falls(s) /\ \A j \in 1..m : Object(x.ino) > Object(s[j].ino)
  <2>1. \A j, k \in 1..n : j < k => Object(u[j].ino) > Object(u[k].ino)
    BY <1>1, <1>3 DEF Falls
  <2>2. ASSUME NEW j \in 1..m, NEW k \in 1..m, j < k
        PROVE  Object(s[j].ino) > Object(s[k].ino)
    <3>1. j + 1 \in 1..n /\ k + 1 \in 1..n /\ j + 1 < k + 1 /\ u[j + 1] = s[j] /\ u[k + 1] = s[k]
      BY <1>2, <2>2
    <3>2. Object(u[j + 1].ino) > Object(u[k + 1].ino)
      BY <2>1, <3>1
    <3> QED BY <3>1, <3>2
  <2>3. ASSUME NEW j \in 1..m
        PROVE  Object(x.ino) > Object(s[j].ino)
    <3>1. 1 \in 1..n /\ j + 1 \in 1..n /\ 1 < j + 1 /\ u[j + 1] = s[j] /\ u[1] = x
      BY <1>2
    <3>2. Object(u[1].ino) > Object(u[j + 1].ino)
      BY <2>1, <3>1
    <3> QED BY <3>1, <3>2
  <2> QED BY <1>1, <2>2, <2>3 DEF Falls
<1>4. ASSUME Falls(s), \A j \in 1..m : Object(x.ino) > Object(s[j].ino)
      PROVE  Falls(u)
  <2>1. ASSUME NEW j \in 1..n, NEW k \in 1..n, j < k
        PROVE  Object(u[j].ino) > Object(u[k].ino)
    <3>1. k \in 2..n
      BY <1>2, <2>1
    <3>2. k - 1 \in 1..m /\ u[k] = s[k - 1]
      BY <1>2, <3>1
    <3>3. CASE j = 1
      BY <1>2, <1>4, <3>2, <3>3
    <3>4. CASE j # 1
      <4>1. j \in 2..n
        BY <1>2, <3>4
      <4>2. j - 1 \in 1..m /\ u[j] = s[j - 1] /\ j - 1 < k - 1
        BY <1>2, <2>1, <4>1
      <4>3. Object(s[j - 1].ino) > Object(s[k - 1].ino)
        BY <1>1, <1>4, <3>2, <4>2 DEF Falls
      <4> QED BY <3>2, <4>2, <4>3
    <3> QED BY <3>3, <3>4
  <2> QED BY <1>1, <2>1 DEF Falls
<1> QED BY <1>1, <1>3, <1>4

(* A frame of an undamaged walk stands for a packed directory.             *)
LEMMA FramesPacked ==
  ASSUME Whole, NEW j \in 1..Len(stack)
  PROVE  Object(stack[j].ino) \in PackedDirs \cup {Root} /\ Object(stack[j].ino) \in Nat
<1>1. PICK i \in visited : \E p : \E n \in Nat \ {0} : stack[j] = Frame(i, p, n)
  BY CleanMeans DEF Whole, WalkedWith, FramesOk
<1>2. stack[j].ino = i
  BY <1>1 DEF Frame
<1>3. Object(i) \in PackedDirs \cup {Root}
  BY VisitedAre DEF Whole
<1>4. Object(i) \in Nat
  BY <1>3, CleanMeans, NodesPacked, PlacesFacts DEF Whole, Places, PathNodes, Root
<1> QED BY <1>2, <1>3, <1>4

(* A file or directory the walk passes arrives, and its children wait.     *)
WalkStands(s, V, F, G, P) == Falls(s) /\ Reached(s, V, F, G) /\ DirPathsFit(P)

LEMMA FramePassed ==
  ASSUME Whole, Walking, Falls(stack), NEW c, NEW n, NextIs(c, n)
  PROVE  /\ Falls(Advanced) /\ IsSeq(Advanced)
         /\ \A x : Waits(stack, x) => Waits(Advanced, x) \/ x = c
         /\ \A j \in 1..Len(Advanced) : c > Object(Advanced[j].ino)
<1>1. PICK i, p, t : i = number[Parent[c]] /\ p = PathOf[Parent[c]] /\ t = Tail(stack)
  OBVIOUS
<1>2. PICK x : x = Frame(i, p, n)
  OBVIOUS
<1>3. PICK y : y = Frame(i, p, n + 1)
  OBVIOUS
<1>4. PICK u : u = Advanced
  OBVIOUS
<1>5. Top = x /\ n \in Nat \ {0} /\ n \in 1..Len(Listed(i)) /\ Listed(i)[n].name = c
      /\ i \in visited /\ c \in PathNodes
  <2>1. /\ Top = Frame(i, p, n) /\ n \in Nat \ {0} /\ n \in 1..Len(Listed(i))
        /\ Listed(i)[n] = LinkTo(c) /\ i \in visited /\ c \in PathNodes
    BY <1>1 DEF NextIs
  <2>2. LinkTo(c).name = c
    BY DEF LinkTo, Ent
  <2> QED BY <1>2, <2>1, <2>2
<1>6. OnTop(stack, x, t) /\ IsSeq(t)
  BY <1>1, <1>5, Popped DEF Whole, Clean, WalkInv, Walking, Top
<1>7. OnTop(u, y, t)
  <2>1. u = <<y>> \o t
    BY <1>1, <1>2, <1>3, <1>4, <1>5, TopEntry
  <2> QED BY <1>6, <2>1, Pushed
<1>8. x.ino = i /\ y.ino = i /\ x.next = n /\ y.next = n + 1
      /\ x.entries = Listed(i) /\ y.entries = Listed(i)
  BY <1>2, <1>3 DEF Frame
<1>9. Falls(t) /\ \A j \in 1..Len(t) : Object(i) > Object(t[j].ino)
  BY <1>6, <1>8, FallsOnTop
<1>10. Falls(u)
  BY <1>7, <1>8, <1>9, FallsOnTop
<1>11. Len(Listed(i)) \in Nat
  BY <1>5, CleanMeans, ListedLength DEF Whole, WalkedWith
<1>12. \A z : Ahead(x, z) => Ahead(y, z) \/ z = c
  <2> SUFFICES ASSUME NEW z, Ahead(x, z), z # c PROVE Ahead(y, z)
    OBVIOUS
  <2>1. PICK k \in n..Len(Listed(i)) : Listed(i)[k].name = z
    BY <1>8 DEF Ahead
  <2>2. k # n
    BY <1>5, <2>1
  <2>3. k \in (n + 1)..Len(Listed(i))
    BY <1>5, <1>11, <2>2
  <2> QED BY <1>8, <2>1, <2>3 DEF Ahead
<1>13. \A z : Waits(stack, z) => Waits(u, z) \/ z = c
  BY <1>6, <1>7, <1>12, WaitsOnTop
<1>14. ASSUME NEW j \in 1..Len(u)
       PROVE  c > Object(u[j].ino)
  <2>1. Object(i) = Parent[c] /\ Parent[c] < c /\ c \in Nat /\ Parent[c] \in Nat
    <3>1. c \in Nodes /\ ScanSound /\ IndexSound(Collision) /\ ImageInv /\ Complete
      BY <1>5, CleanMeans, NodesPacked DEF Whole
    <3>2. Parent[c] \in PackedDirs \cup {Root}
      BY DEF NextIs
    <3>3. Parent[c] \in DOMAIN number
      BY <3>1, <3>2, Reserved DEF PathNodes
    <3>4. Object(i) = Parent[c]
      BY <1>1, <3>1, <3>3, WholeMeans DEF Whole
    <3> QED BY <3>1, <3>4, PlacesFacts
  <2>2. CASE j = 1
    BY <1>7, <1>8, <2>1, <2>2 DEF OnTop
  <2>3. CASE j # 1
    <3>1. j \in 2..Len(u)
      BY <1>7, <2>3 DEF OnTop
    <3>2. j - 1 \in 1..Len(t) /\ u[j] = t[j - 1]
      BY <1>7, <3>1 DEF OnTop
    <3>3. Object(i) > Object(t[j - 1].ino)
      BY <1>9, <3>2
    <3>4. Object(t[j - 1].ino) \in Nat
      <4>1. (j - 1) + 1 \in 1..Len(stack) /\ stack[(j - 1) + 1] = t[j - 1]
        BY <1>6, <3>2 DEF OnTop
      <4> QED BY <4>1, FramesPacked
    <3> QED BY <2>1, <3>2, <3>3, <3>4
  <2> QED BY <2>2, <2>3
<1> QED BY <1>4, <1>7, <1>10, <1>13, <1>14 DEF OnTop

(* The children of a directory that is entered wait.                       *)
LEMMA ChildrenWait ==
  ASSUME ImageInv, Complete, damage = "none", NEW d \in PackedDirs \cup {Root},
         NEW x, x = Frame(number[d], PathOf[d], 1), NEW c \in PathNodes, Parent[c] = d
  PROVE  Ahead(x, c)
<1>1. DirSound(dirents[d], number, d)
  BY WholeMeans DEF TreeSound
<1>2. PICK i : i = number[d]
  OBVIOUS
<1>3. PICK k \in 1..Len(Listed(i)) : Listed(i)[k] = Ent(number[c], TypeOf(c), c)
  BY <1>1, <1>2, ListedIs
<1>4. Listed(i)[k].name = c /\ x.next = 1 /\ x.entries = Listed(i)
  BY <1>2, <1>3 DEF Frame, Ent
<1> QED BY <1>4 DEF Ahead

LEMMA WalkAccepted ==
  ASSUME Whole, WalkStands(stack, visited, fileIno, dirIno, dirPath),
         WalkBad \/ WalkFile \/ WalkDir \/ WalkUp
  PROVE  errors' = {} /\ WalkStands(stack', visited', fileIno', dirIno', dirPath')
<1>1. /\ errors = {} /\ stage = "walk" /\ Falls(stack) /\ DirPathsFit(dirPath)
      /\ Reached(stack, visited, fileIno, dirIno)
  BY DEF Whole, Clean, WalkBad, WalkFile, WalkDir, WalkUp, Walking, WalkStands
<1>2. CASE WalkUp
  <2>1. /\ stack' = Tail(stack) /\ errors' = errors /\ stack # <<>> /\ Top.next > Len(Top.entries)
        /\ UNCHANGED <<visited, fileIno, dirIno, dirPath>>
    BY <1>2 DEF WalkUp
  <2>2. OnTop(stack, Top, Tail(stack))
    BY <2>1, Popped DEF Whole, Clean, WalkInv, Top
  <2>3. Falls(stack')
    BY <1>1, <2>1, <2>2, FallsOnTop
  <2>4. \A x : ~Ahead(Top, x)
    <3>1. PICK i \in visited : \E p : \E n \in Nat \ {0} : Top = Frame(i, p, n)
      BY <2>1, TopFrame DEF Whole, Clean
    <3>2. PICK p, n : n \in Nat /\ Top = Frame(i, p, n)
      BY <3>1
    <3>3. PICK m : m = Len(Listed(i))
      OBVIOUS
    <3>4. m \in Nat
      BY <3>3, CleanMeans, ListedLength DEF Whole, WalkedWith
    <3>5. Top.next = n /\ Top.entries = Listed(i) /\ n > m
      BY <2>1, <3>2, <3>3 DEF Frame
    <3> QED BY <3>2, <3>3, <3>4, <3>5 DEF Ahead
  <2>5. \A x : Waits(stack, x) => Waits(stack', x)
    BY <2>1, <2>2, <2>4, WaitsOnTop
  <2>6. Reached(stack', visited, fileIno, dirIno)
    BY <1>1, <2>5 DEF Reached
  <2> QED BY <1>1, <2>1, <2>3, <2>6 DEF WalkStands
<1>3. CASE WalkBad \/ WalkFile \/ WalkDir
  <2>1. Walking
    BY <1>3 DEF WalkBad, WalkFile, WalkDir
  <2>2. PICK c, n : NextIs(c, n)
    BY <2>1, NextChild
  <2>3. /\ EntryErrors = {} /\ Entry.ino = number[c] /\ Entry.type = TypeOf(c)
        /\ Entry.name = c
        /\ c \in PackedDirs <=> TypeOf(c) = "dir"
        /\ c \in packed <=> TypeOf(c) = "file"
    BY <1>1, <2>1, <2>2, NextAccepted
  <2>4. /\ Falls(Advanced) /\ IsSeq(Advanced)
        /\ \A x : Waits(stack, x) => Waits(Advanced, x) \/ x = c
        /\ \A j \in 1..Len(Advanced) : c > Object(Advanced[j].ino)
    BY <1>1, <2>1, <2>2, FramePassed
  <2>5. PICK u, i : u = Advanced /\ i = number[c]
    OBVIOUS
  <2>6. ChildPath = PathOf[c] /\ c \in PathNodes
    BY <2>2 DEF NextIs
  <2>7. ~WalkBad
    BY <2>3 DEF WalkBad
  <2>8. CASE WalkFile
    <3>1. /\ stack' = u /\ errors' = errors /\ fileIno' = Put(fileIno, PathOf[c], i)
          /\ UNCHANGED <<visited, dirIno, dirPath>> /\ Entry.type = "file"
      BY <2>3, <2>5, <2>6, <2>8 DEF WalkFile
    <3>2. DOMAIN fileIno \subseteq DOMAIN fileIno' /\ PathOf[c] \in DOMAIN fileIno'
      BY <3>1 DEF Put
    <3>3. ASSUME NEW x \in PathNodes, number[Parent[x]] \in visited
          PROVE  ArrivedIn(visited, fileIno', dirIno, x) \/ Waits(u, x)
      <4>1. CASE x = c
        BY <2>3, <3>1, <3>2, <4>1 DEF ArrivedIn
      <4>2. CASE x # c
        <5>1. ArrivedIn(visited, fileIno, dirIno, x) \/ Waits(stack, x)
          BY <1>1, <3>3 DEF Reached
        <5>2. ArrivedIn(visited, fileIno, dirIno, x) => ArrivedIn(visited, fileIno', dirIno, x)
          BY <3>2 DEF ArrivedIn
        <5> QED BY <2>4, <2>5, <4>2, <5>1, <5>2
      <4> QED BY <4>1, <4>2
    <3>4. Reached(u, visited, fileIno', dirIno)
      BY <3>3 DEF Reached
    <3> QED BY <1>1, <2>4, <2>5, <3>1, <3>4 DEF WalkStands
  <2>9. CASE WalkDir
    <3>1. /\ fileIno' = fileIno /\ dirIno' = Put(dirIno, PathOf[c], i)
          /\ dirPath' = Put(dirPath, i, PathOf[c])
          /\ Enter(i, PathOf[c], number[Parent[c]], u, {}) /\ Entry.type = "dir"
      <4>1. Top.ino = number[Parent[c]]
        BY <2>2 DEF NextIs, Frame
      <4> QED BY <2>3, <2>5, <2>6, <2>9, <4>1 DEF WalkDir
    <3>2. c \in PackedDirs /\ c \notin packed /\ c # Root
      <4>1. c \in PackedDirs /\ c \notin packed
        BY <2>3, <3>1
      <4>2. c \in Nodes
        BY <2>6, CleanMeans, NodesPacked DEF Whole
      <4> QED BY <4>1, <4>2, PlacesFacts
    <3>3. InRange(i) /\ IsDir(i) /\ Object(i) = c /\ DotErrors(i, number[Parent[c]]) = {}
      BY <2>5, <3>2, CleanMeans, DirAccepted DEF Whole
    <3>4. PICK f : f = Frame(i, PathOf[c], 1)
      OBVIOUS
    <3>5. PICK V : V = visited'
      OBVIOUS
    <3>6. /\ V = visited \cup {i} /\ errors' = {}
          /\ (i \in visited /\ stack' = u) \/ (i \notin visited /\ stack' = <<f>> \o u)
      BY <1>1, <3>1, <3>3, <3>4, <3>5 DEF Enter, Complain, Frame
    <3>7. DOMAIN dirIno \subseteq DOMAIN dirIno' /\ PathOf[c] \in DOMAIN dirIno'
      BY <3>1 DEF Put
    <3>8. DirPathsFit(dirPath')
      <4> SUFFICES ASSUME NEW z \in DOMAIN dirPath'
                   PROVE  \E d \in PackedDirs \cup {Root} : z = number[d] /\ dirPath'[z] = PathOf[d]
        BY DEF DirPathsFit
      <4>1. (z = i /\ dirPath'[z] = PathOf[c]) \/ (z \in DOMAIN dirPath /\ dirPath'[z] = dirPath[z])
        BY <3>1 DEF Put
      <4> QED BY <1>1, <2>5, <3>2, <4>1 DEF DirPathsFit
    <3>9. Falls(stack') /\ \A x : Waits(u, x) => Waits(stack', x)
      <4>1. CASE stack' = u
        BY <2>4, <2>5, <4>1
      <4>2. CASE stack' = <<f>> \o u
        <5>1. PICK w : w = <<f>> \o u
          OBVIOUS
        <5>2. OnTop(w, f, u)
          BY <2>4, <2>5, <5>1, Pushed
        <5>3. f.ino = i
          BY <3>4 DEF Frame
        <5>4. Falls(w)
          BY <2>4, <2>5, <3>3, <5>2, <5>3, FallsOnTop
        <5>5. \A x : Waits(u, x) => Waits(w, x)
          BY <5>2, WaitsOnTop
        <5> QED BY <4>2, <5>1, <5>4, <5>5
      <4> QED BY <3>6, <4>1, <4>2
    <3>10. ASSUME NEW x \in PathNodes, number[Parent[x]] \in V
           PROVE  ArrivedIn(V, fileIno, dirIno', x) \/ Waits(stack', x)
      <4>1. CASE x = c
        BY <2>5, <3>2, <3>6, <3>7, <4>1 DEF ArrivedIn
      <4>2. CASE x # c /\ number[Parent[x]] \in visited
        <5>1. ArrivedIn(visited, fileIno, dirIno, x) \/ Waits(stack, x)
          BY <1>1, <3>10, <4>2 DEF Reached
        <5>2. ArrivedIn(visited, fileIno, dirIno, x) => ArrivedIn(V, fileIno, dirIno', x)
          BY <3>6, <3>7 DEF ArrivedIn
        <5>3. Waits(stack, x) => Waits(stack', x)
          BY <2>4, <2>5, <3>9, <4>2
        <5> QED BY <5>1, <5>2, <5>3
      <4>3. CASE number[Parent[x]] \notin visited
        <5>1. number[Parent[x]] = i /\ i \notin visited
          BY <3>6, <3>10, <4>3
        <5>2. Parent[x] = c
          <6>1. Parent[x] \in PackedDirs \cup {Root} /\ c \in PackedDirs
            BY <3>2, <3>10, CleanMeans, NodesPacked DEF Whole
          <6>2. Parent[x] \in DOMAIN number /\ c \in DOMAIN number
            BY <6>1, CleanMeans, Reserved DEF Whole, PathNodes
          <6> QED BY <2>5, <5>1, <6>2, CleanMeans, Placed DEF Whole
        <5>3. Ahead(f, x)
          <6>1. ImageInv /\ Complete /\ damage = "none"
            BY CleanMeans DEF Whole
          <6> QED BY <2>5, <3>2, <3>4, <3>10, <5>2, <6>1, ChildrenWait
        <5>4. stack' = <<f>> \o u
          BY <3>6, <5>1
        <5>5. OnTop(<<f>> \o u, f, u)
          BY <2>4, <2>5, Pushed
        <5> QED BY <5>3, <5>4, <5>5, WaitsOnTop
      <4> QED BY <4>1, <4>2, <4>3
    <3>11. Reached(stack', V, fileIno, dirIno')
      BY <3>10 DEF Reached
    <3> QED BY <3>1, <3>5, <3>6, <3>8, <3>9, <3>11 DEF WalkStands
  <2> QED BY <1>3, <2>7, <2>8, <2>9
<1> QED BY <1>2, <1>3

(* At its end the walk has been everywhere.                                *)
LEMMA AllReached ==
  ASSUME Whole, Reached(<<>>, visited, fileIno, dirIno)
  PROVE  \A c \in PathNodes : ArrivedIn(visited, fileIno, dirIno, c)
<1>1. ScanSound /\ Clean /\ PathNodes \subseteq Nat
  BY CleanMeans, NodesPacked, PlacesFacts DEF Whole
<1>2. PICK S : S = {c \in PathNodes : ~ArrivedIn(visited, fileIno, dirIno, c)}
  OBVIOUS
<1>3. SUFFICES ASSUME S # {} PROVE FALSE
  BY <1>2
<1>4. PICK c \in S : \A e \in S : c <= e
  BY <1>1, <1>2, <1>3, LeastElement
<1>5. c \in PathNodes /\ ~ArrivedIn(visited, fileIno, dirIno, c)
  BY <1>2, <1>4
<1>6. number[Parent[c]] \in visited
  <2>1. Parent[c] \in PackedDirs \cup {Root}
    BY <1>1, <1>5, NodesPacked
  <2>2. CASE Parent[c] = Root
    BY <1>1, <2>2, CleanMeans, RootIsRoot
  <2>3. CASE Parent[c] \in PackedDirs
    <3>1. Parent[c] < c /\ Parent[c] \in Nat /\ c \in Nat
      BY <1>1, <1>5, NodesPacked, PlacesFacts
    <3>2. Parent[c] \notin S
      BY <1>4, <3>1
    <3>3. ArrivedIn(visited, fileIno, dirIno, Parent[c])
      BY <1>2, <2>3, <3>2 DEF PathNodes
    <3>4. Parent[c] \notin packed
      BY <1>1, <2>3, NodesPacked, TreeAssumption
    <3> QED BY <3>3, <3>4 DEF ArrivedIn
  <2> QED BY <2>1, <2>2, <2>3
<1>7. ~Waits(<<>>, c)
  <2>1. Len(<<>>) = 0
    OBVIOUS
  <2> QED BY <2>1 DEF Waits
<1> QED BY <1>5, <1>6, <1>7 DEF Reached

LEMMA FoundWhole ==
  ASSUME Whole, Reached(<<>>, visited, fileIno, dirIno)
  PROVE  FoundRight
<1>1. ScanSound /\ Clean
  BY CleanMeans DEF Whole
<1>2. /\ \A p \in DOMAIN fileIno : \E f \in packed : p = PathOf[f] /\ fileIno[p] = number[f]
      /\ \A p \in DOMAIN dirIno : \E d \in PackedDirs \cup {Root} :
           p = PathOf[d] /\ dirIno[p] = number[d]
  BY FoundAre DEF Whole
<1>3. packed \subseteq Places /\ PackedDirs \cup {Root} \subseteq Places /\ packed \cap PackedDirs = {}
  BY <1>1, NodesPacked, TreeAssumption DEF Places, PathNodes
<1>4. ASSUME NEW f \in packed
      PROVE  PathOf[f] \in DOMAIN fileIno /\ fileIno[PathOf[f]] = number[f]
  <2>1. PathOf[f] \in DOMAIN fileIno
    BY AllReached DEF ArrivedIn, PathNodes
  <2>2. PICK g \in packed : PathOf[f] = PathOf[g] /\ fileIno[PathOf[f]] = number[g]
    BY <1>2, <2>1
  <2> QED BY <1>3, <2>1, <2>2, LastOfPath
<1>5. ASSUME NEW d \in PackedDirs \cup {Root}
      PROVE  PathOf[d] \in DOMAIN dirIno /\ dirIno[PathOf[d]] = number[d]
  <2>1. PathOf[d] \in DOMAIN dirIno
    <3>1. CASE d = Root
      BY <1>1, <3>1, PathsAre DEF Clean, FoundInv, Whole
    <3>2. CASE d \in PackedDirs
      BY <1>3, <3>2, AllReached DEF ArrivedIn, PathNodes
    <3> QED BY <3>1, <3>2
  <2>2. PICK g \in PackedDirs \cup {Root} : PathOf[d] = PathOf[g] /\ dirIno[PathOf[d]] = number[g]
    BY <1>2, <2>1
  <2> QED BY <1>3, <2>1, <2>2, LastOfPath
<1> QED BY <1>2, <1>4, <1>5 DEF FoundRight

(* The dictionaries, written out.                                          *)
FoundExactly ==
  /\ fileIno = [p \in {PathOf[f] : f \in packed} |-> number[Last(p)]]
  /\ dirIno = [p \in {PathOf[d] : d \in PackedDirs \cup {Root}} |->
                 IF p = <<>> THEN number[Root] ELSE number[Last(p)]]

LEMMA FoundIsExact ==
  ASSUME ScanSound, FoundInv, FoundRight
  PROVE  FoundExactly
<1>1. packed \subseteq Nodes /\ PackedDirs \subseteq Nodes
  BY NodesPacked DEF PathNodes
<1>2. \A n \in Nodes : Last(PathOf[n]) = n /\ PathOf[n] # <<>>
  BY LastOfPath
<1>3. PICK P : P = {PathOf[f] : f \in packed}
  OBVIOUS
<1>4. PICK Q : Q = {PathOf[d] : d \in PackedDirs \cup {Root}}
  OBVIOUS
<1>5. DOMAIN fileIno = P /\ \A p \in P : fileIno[p] = number[Last(p)]
  <2>1. DOMAIN fileIno = P
    BY <1>3 DEF FoundRight
  <2>2. ASSUME NEW p \in P
        PROVE  fileIno[p] = number[Last(p)]
    <3>1. PICK f \in packed : p = PathOf[f] /\ fileIno[p] = number[f]
      BY <2>1, <2>2 DEF FoundRight
    <3> QED BY <1>1, <1>2, <3>1
  <2> QED BY <2>1, <2>2
<1>6. DOMAIN dirIno = Q
        /\ \A p \in Q : dirIno[p] = IF p = <<>> THEN number[Root] ELSE number[Last(p)]
  <2>1. DOMAIN dirIno = Q
    BY <1>4 DEF FoundRight
  <2>2. ASSUME NEW p \in Q
        PROVE  dirIno[p] = IF p = <<>> THEN number[Root] ELSE number[Last(p)]
    <3>1. PICK d \in PackedDirs \cup {Root} : p = PathOf[d] /\ dirIno[p] = number[d]
      BY <2>1, <2>2 DEF FoundRight
    <3>2. CASE d = Root
      BY <3>1, <3>2, PathsAre
    <3>3. CASE d # Root
      BY <1>1, <1>2, <3>1, <3>3
    <3> QED BY <3>2, <3>3
  <2> QED BY <2>1, <2>2
<1>7. fileIno = [p \in DOMAIN fileIno |-> fileIno[p]] /\ dirIno = [p \in DOMAIN dirIno |-> dirIno[p]]
  BY DEF FoundInv
<1>8. fileIno = [p \in P |-> number[Last(p)]]
  BY <1>5, <1>7
<1>9. dirIno = [p \in Q |-> IF p = <<>> THEN number[Root] ELSE number[Last(p)]]
  BY <1>6, <1>7
<1> QED BY <1>3, <1>4, <1>8, <1>9 DEF FoundExactly

(* The path table of an undamaged image agrees with what was found.        *)
LEMMA RowAccepted ==
  ASSUME Whole, FoundRight, NEW h \in HashesUsed
  PROVE  RowErrors(h) = {}
<1>1. ImageInv /\ Complete /\ damage = "none" /\ ScanSound
  BY CleanMeans DEF Whole
<1>2. Expected = {ExpectedOf(n) : n \in PathNodes}
  BY <1>1, ExpectedAre
<1>3. PICK X, v : X = ExpectedAt(h) /\ v = FptMap[h]
  OBVIOUS
<1>4. PICK s : s = WithHash(h) /\ Lists(s, {n \in PathNodes : hash[n] = h})
  BY <1>1, GroupLists
<1>5. v = Row(h)
  BY <1>1, <1>3, GroupsRead
<1>6. Cardinality(X) = 1 <=> Len(s) = 1
  BY <1>1, <1>2, <1>3, <1>4, OneExpected
<1>7. \A e \in X : \E n \in PathNodes : hash[n] = h /\ e = ExpectedOf(n)
  BY <1>1, <1>2, <1>3, ExpectedAtAre
<1>8. \A n \in PathNodes : hash[n] = h => \E k \in 1..Len(s) : s[k] = n
  BY <1>4 DEF Lists
<1>9. CASE Len(s) = 1
  <2>1. v.group = FALSE /\ v.dir = (s[1] \in Dirs) /\ v.at = number[s[1]]
    BY <1>4, <1>5, <1>9, RowIs
  <2>2. ASSUME NEW e \in X
        PROVE  ~(v.group \/ v.dir # e.dir \/ v.at # e.ino)
    <3>1. PICK n \in PathNodes : hash[n] = h /\ e = ExpectedOf(n)
      BY <1>7
    <3>2. s[1] = n
      <4>1. PICK k \in 1..Len(s) : s[k] = n
        BY <1>8, <3>1
      <4> QED BY <1>9, <4>1
    <3>3. e.dir = (n \in Dirs) /\ e.ino = number[n]
      BY <1>1, <3>1, ExpectedFacts
    <3> QED BY <2>1, <3>2, <3>3
  <2>3. \E e \in X : TRUE
    <3>1. Cardinality(X) = 1
      BY <1>6, <1>9
    <3>2. X # {}
      BY <3>1, FS_EmptySet
    <3> QED BY <3>2
  <2>4. ~\A e \in X : v.group \/ v.dir # e.dir \/ v.at # e.ino
    BY <2>2, <2>3
  <2> QED BY <1>3, <1>6, <1>9, <2>4 DEF RowErrors, When
<1>10. CASE Len(s) # 1
  <2>1. v.group = TRUE /\ GroupAt(h) = RunFrom(OffsetOf(h))
    BY <1>1, <1>4, <1>5, <1>10, RowIs, GroupsRead
  <2>2. PICK p, b, m : p = OffsetOf(h) /\ b = Blob /\ m = Len(s)
    OBVIOUS
  <2>3. resolver = b /\ p \in Nat /\ m \in Nat /\ Len(b) \in Nat /\ p + m + 1 <= Len(b)
        /\ \A k \in 1..m : b[p + k] = LinkTo(s[k])
    BY <1>1, <1>4, <1>10, <2>2, WholeMeans, GroupStarts
  <2>4. \A k \in 1..m : b[p + k] # Zeros
    BY <1>1, <1>4, <2>2, <2>3, LinksDiffer DEF Lists
  <2>5. ASSUME NEW k \in 1..m
        PROVE  LinkTo(s[k]) \in RunFrom(p)
    <3>1. p + k \in (p + 1)..Len(b)
      BY <2>3
    <3>2. ASSUME NEW j \in (p + 1)..(p + k)
          PROVE  b[j] # Zeros
      <4>1. j - p \in 1..m /\ j = p + (j - p)
        BY <2>3
      <4> QED BY <2>4, <4>1
    <3>3. b[p + k] \in RunFrom(p)
      BY <2>3, <3>1, <3>2, RunIs
    <3> QED BY <2>3, <3>3
  <2>6. ASSUME NEW e \in X
        PROVE  AsEntry(e) \in GroupAt(h)
    <3>1. PICK n \in PathNodes : hash[n] = h /\ e = ExpectedOf(n)
      BY <1>7
    <3>2. PICK k \in 1..m : s[k] = n
      BY <1>8, <2>2, <3>1
    <3>3. AsEntry(e) = LinkTo(n)
      BY <1>1, <3>1, ExpectedFacts
    <3> QED BY <2>1, <2>2, <2>5, <3>2, <3>3
  <2>7. {AsEntry(e) : e \in X} \subseteq GroupAt(h)
    BY <2>6
  <2> QED BY <1>3, <1>6, <1>10, <2>1, <2>7 DEF RowErrors, When
<1> QED BY <1>9, <1>10

LEMMA MapAccepted ==
  ASSUME Whole, FoundRight
  PROVE  MapErrors = {}
<1>1. ImageInv /\ Complete /\ damage = "none" /\ ScanSound
  BY CleanMeans DEF Whole
<1>2. {HashOf(e.path) : e \in Expected} = HashesUsed
  BY <1>1, ExpectedAre, HashesExpected
<1>3. DOMAIN FptMap = HashesUsed
  BY <1>1, GroupsRead
<1>4. MapErrorsByHash = {}
  BY <1>2, <1>3 DEF MapErrorsByHash, When
<1>5. \A h \in {HashOf(e.path) : e \in Expected} \cap DOMAIN FptMap : RowErrors(h) = {}
  BY <1>2, RowAccepted
<1> QED BY <1>4, <1>5 DEF MapErrors

(* Every inode of it is something that was found.                          *)
LEMMA NoOrphans ==
  ASSUME Whole, FoundRight
  PROVE  \A i \in 0..(Len(order) - 1) : i \in Reachable
<1>1. ImageInv /\ Complete /\ damage = "none" /\ ScanSound /\ IndexSound(Collision)
  BY CleanMeans DEF Whole
<1> SUFFICES ASSUME NEW i \in 0..(Len(order) - 1) PROVE i \in Reachable
  OBVIOUS
<1>2. PICK o : o = Object(i)
  OBVIOUS
<1>3. o \in DOMAIN number /\ number[o] = i
  BY <1>1, <1>2, Placed DEF InRange
<1>4. CASE o = Super
  BY <1>1, <1>3, <1>4, Reserved DEF Reachable
<1>5. CASE o = Fpt \/ o = Root
  BY <1>1, <1>3, <1>5, WholeMeans DEF Reachable
<1>6. CASE o = Resolver
  <2>1. Collision
    BY <1>1, <1>3, <1>6, Reserved
  <2> QED BY <1>1, <1>3, <1>6, <2>1, WholeMeans DEF Reachable
<1>7. CASE o \in packed
  <2>1. PathOf[o] \in DOMAIN fileIno /\ fileIno[PathOf[o]] = i
    BY <1>3, <1>7 DEF FoundRight
  <2> QED BY <2>1 DEF Reachable, ImageRange
<1>8. CASE o \in PackedDirs
  <2>1. PathOf[o] \in DOMAIN dirIno /\ dirIno[PathOf[o]] = i
    BY <1>3, <1>8 DEF FoundRight
  <2> QED BY <2>1 DEF Reachable, ImageRange
<1>9. o \in PathNodes \/ o \in {Super, Fpt, Root, Resolver}
  BY <1>1, <1>3, Reserved
<1> QED BY <1>4, <1>5, <1>6, <1>7, <1>8, <1>9 DEF PathNodes

(* The walk of an undamaged image starts, and goes on, without findings.   *)
LEMMA FirstStands ==
  ASSUME InspectInv, ParseIndexes, damage = "none"
  PROVE  /\ stage' = "walk" /\ errors' = {}
         /\ WalkStands(stack', visited', fileIno', dirIno', dirPath')
<1>1. /\ stage = "indexes" /\ UNCHANGED fileIno /\ ImageInv /\ Complete
      /\ errors = {} /\ visited = {} /\ DOMAIN fileIno = {}
  BY DEF ParseIndexes, InspectInv, WalkInv, Started, Complete
<1>2. PICK r : r = number[Root]
  OBVIOUS
<1>3. Special(Root) = r /\ r # None /\ IndexErrors = {} /\ ScanSound /\ IndexSound(Collision)
  BY <1>1, <1>2, WholeMeans, IndexAccepted DEF None
<1>4. InRange(r) /\ IsDir(r) /\ Object(r) = Root /\ DotErrors(r, r) = {}
  BY <1>1, <1>2, DirAccepted
<1>5. PathOf[Root] = <<>>
  BY PathsAre
<1>6. PICK f : f = Frame(r, PathOf[Root], 1)
  OBVIOUS
<1>7. /\ stage' = "walk" /\ dirPath' = Put(<<>>, r, <<>>) /\ Enter(r, <<>>, r, <<>>, {})
  BY <1>3 DEF ParseIndexes
<1>8. errors' = {} /\ visited' = {r} /\ stack' = <<f>> \o <<>>
  BY <1>1, <1>4, <1>5, <1>6, <1>7 DEF Enter, Complain, Frame
<1>9. PICK u : u = <<f>> \o <<>>
  OBVIOUS
<1>10. OnTop(u, f, <<>>) /\ Len(<<>>) = 0
  BY <1>9, Pushed, EmptySeq DEF IsSeq
<1>11. Falls(u)
  <2>1. Falls(<<>>)
    BY <1>10 DEF Falls
  <2> QED BY <1>10, <2>1, FallsOnTop
<1>12. DirPathsFit(dirPath')
  BY <1>2, <1>5, <1>7 DEF DirPathsFit, Put
<1>13. ASSUME NEW c \in PathNodes, number[Parent[c]] \in {r}
       PROVE  Waits(u, c)
  <2>1. Parent[c] = Root
    <3>1. Parent[c] \in DOMAIN number /\ Root \in DOMAIN number
      BY <1>3, NodesPacked, Reserved DEF PathNodes
    <3> QED BY <1>2, <1>3, <1>13, <3>1, Placed
  <2>2. Ahead(f, c)
    BY <1>1, <1>2, <1>6, <2>1, ChildrenWait
  <2> QED BY <1>10, <2>2, WaitsOnTop
<1>14. Reached(u, {r}, fileIno', dirIno')
  BY <1>13 DEF Reached
<1> QED BY <1>7, <1>8, <1>9, <1>11, <1>12, <1>14 DEF WalkStands

LEMMA StandsSame ==
  ASSUME UNCHANGED buildVars, NEW s, NEW V, NEW F, NEW G, NEW P, WalkStands(s, V, F, G, P)
  PROVE  WalkStands(s, V, F, G, P)'
<1>1. \A i : Object(i)' = Object(i)
  BY SeenSame
<1>2. number' = number /\ packed' = packed /\ PathNodes' = PathNodes /\ PackedDirs' = PackedDirs
  BY TablesStay DEF buildVars
<1>3. Falls(s)'
  BY <1>1 DEF WalkStands, Falls
<1>4. DirPathsFit(P)'
  BY <1>2 DEF WalkStands, DirPathsFit
<1>5. \A c : ArrivedIn(V, F, G, c)' = ArrivedIn(V, F, G, c)
  BY <1>2 DEF ArrivedIn
<1>6. Reached(s, V, F, G)'
  BY <1>2, <1>5 DEF WalkStands, Reached, Waits
<1> QED BY <1>3, <1>4, <1>6 DEF WalkStands

(* Until the walk ends it has no findings, and stands where it should.     *)
AcceptInv ==
  /\ damage = "none" /\ stage = "walk" =>
       errors = {} /\ WalkStands(stack, visited, fileIno, dirIno, dirPath)
  /\ BuilderAccepted

LEMMA AcceptedSame ==
  ASSUME UNCHANGED buildVars, stage' = "walk", errors' = {},
         WalkStands(stack', visited', fileIno', dirIno', dirPath')
  PROVE  AcceptInv'
<1>1. PICK s, V, F, G, P : s = stack' /\ V = visited' /\ F = fileIno' /\ G = dirIno' /\ P = dirPath'
  OBVIOUS
<1>2. WalkStands(s, V, F, G, P)
  BY <1>1
<1>3. WalkStands(s, V, F, G, P)'
  BY <1>2, StandsSame
<1>4. WalkStands(stack, visited, fileIno, dirIno, dirPath)'
  <2>1. Falls(s)' => Falls(stack)'
    BY <1>1 DEF Falls
  <2>2. Reached(s, V, F, G)' => Reached(stack, visited, fileIno, dirIno)'
    BY <1>1 DEF Reached, Waits, ArrivedIn
  <2>3. DirPathsFit(P)' => DirPathsFit(dirPath)'
    BY <1>1 DEF DirPathsFit
  <2> QED BY <1>3, <2>1, <2>2, <2>3 DEF WalkStands
<1>5. ~Inspected'
  BY DEF Inspected
<1> QED BY <1>4, <1>5 DEF AcceptInv, BuilderAccepted

Tolerated ==
  {"payload", "source", "output is a file", "conflict", "exists", "mkdir", "open", "decode"}

LEMMA FoundSame ==
  ASSUME UNCHANGED <<buildVars, fileIno, dirIno>>
  PROVE  FoundExactly' <=> FoundExactly
<1>1. number' = number /\ packed' = packed /\ PackedDirs' = PackedDirs
  BY TablesStay DEF buildVars
<1> QED BY <1>1 DEF FoundExactly

LEMMA AcceptedMeans == BuilderAccepted <=> (Inspected /\ damage = "none" => errors \subseteq Tolerated /\ FoundExactly)
BY DEF BuilderAccepted, Tolerated, FoundExactly

LEMMA AcceptedRests ==
  ASSUME UNCHANGED <<buildVars, damage, fileIno, dirIno>>, BuilderAccepted, Inspected,
         errors' \subseteq errors \cup Tolerated, stage' # "walk"
  PROVE  AcceptInv'
<1>1. ASSUME damage' = "none"
      PROVE  errors' \subseteq Tolerated /\ FoundExactly'
  <2>1. errors \subseteq Tolerated /\ FoundExactly
    BY <1>1, AcceptedMeans
  <2> QED BY <2>1, FoundSame
<1> QED BY <1>1 DEF AcceptInv, BuilderAccepted, Tolerated, FoundExactly

LEMMA InspectionAccepts ==
  ASSUME InspectInv, AcceptInv, FinishInspection
  PROVE  AcceptInv'
<1>1. /\ stage = "walk" /\ stack = <<>> /\ stage' = "inspected"
      /\ UNCHANGED <<buildVars, damage, fileIno, dirIno>>
  BY DEF FinishInspection
<1> SUFFICES ASSUME damage = "none" PROVE errors' \subseteq Tolerated /\ FoundExactly'
  BY <1>1 DEF AcceptInv, BuilderAccepted, Tolerated, FoundExactly
<1>2. errors = {} /\ WalkStands(stack, visited, fileIno, dirIno, dirPath)
  BY <1>1 DEF AcceptInv
<1>3. Whole
  BY <1>1, <1>2 DEF Whole, Clean, InspectInv, Started
<1>4. ScanSound /\ FoundInv
  BY <1>3, CleanMeans DEF Whole
<1>5. FoundRight
  <2>1. Reached(<<>>, visited, fileIno, dirIno)
    BY <1>1, <1>2 DEF WalkStands
  <2> QED BY <1>3, <2>1, FoundWhole
<1>6. MapErrors = {} /\ ~\E i \in 0..(Len(order) - 1) : i \notin Reachable
  BY <1>3, <1>5, MapAccepted, NoOrphans
<1>7. errors' \subseteq {"payload", "source"}
  BY <1>2, <1>6 DEF FinishInspection, Complain, When
<1>8. FoundExactly'
  BY <1>1, <1>4, <1>5, FoundIsExact, FoundSame
<1> QED BY <1>7, <1>8 DEF Tolerated

LEMMA AcceptInit == Init => AcceptInv
BY DEF Init, BuildInit, AcceptInv, BuilderAccepted, Inspected

LEMMA AcceptStep == InspectInv /\ AcceptInv /\ [Next]_vars => AcceptInv'
<1> SUFFICES ASSUME InspectInv, AcceptInv, [Next]_vars PROVE AcceptInv'
  OBVIOUS
<1>1. CASE Build \/ Store
  <2>1. stage' \notin {"walk", "inspected", "dirs", "files", "ended", "raised"}
    BY <1>1 DEF Build, Scan, Number, Link, Collide, Table, Store, Undamaged, DamageEntry,
                DamageTable, DamageResolver, DamageSuper, Hit, Inspected
  <2> QED BY <2>1 DEF AcceptInv, BuilderAccepted, Inspected
<1>2. CASE ParseIndexes
  <2>1. UNCHANGED <<buildVars, damage>> /\ stage' \in {"walk", "inspected"}
    BY <1>2 DEF ParseIndexes
  <2>2. CASE damage = "none"
    BY <1>2, <2>1, <2>2, FirstStands, AcceptedSame
  <2>3. CASE damage # "none"
    BY <2>1, <2>3 DEF AcceptInv, BuilderAccepted
  <2> QED BY <2>2, <2>3
<1>3. CASE WalkBad \/ WalkFile \/ WalkDir \/ WalkUp
  <2>1. UNCHANGED <<buildVars, damage, stage>> /\ stage = "walk"
    BY <1>3 DEF WalkBad, WalkFile, WalkDir, WalkUp, Walking
  <2>2. CASE damage = "none"
    <3>1. errors = {} /\ WalkStands(stack, visited, fileIno, dirIno, dirPath)
      BY <2>1, <2>2 DEF AcceptInv
    <3>2. Whole
      BY <2>1, <2>2, <3>1 DEF Whole, Clean, InspectInv, Started
    <3>3. errors' = {} /\ WalkStands(stack', visited', fileIno', dirIno', dirPath')
      BY <1>3, <3>1, <3>2, WalkAccepted
    <3> QED BY <2>1, <3>3, AcceptedSame
  <2>3. CASE damage # "none"
    BY <2>1, <2>3 DEF AcceptInv, BuilderAccepted
  <2> QED BY <2>2, <2>3
<1>4. CASE FinishInspection
  BY <1>4, InspectionAccepts
<1>5. CASE Plan
  <2>1. TargetConflicts \subseteq Tolerated
    BY DEF TargetConflicts, When, Tolerated
  <2>2. /\ UNCHANGED <<buildVars, damage, fileIno, dirIno>> /\ Inspected /\ stage' # "walk"
        /\ errors' \subseteq errors \cup Tolerated
    BY <1>5, <2>1 DEF Plan, Complain, Inspected, foundVars
  <2> QED BY <2>2, AcceptedRests DEF AcceptInv
<1>6. CASE MakeDirs \/ OpenTarget \/ WriteTarget \/ FinishExtraction
  <2>1. UNCHANGED <<buildVars, damage, fileIno, dirIno>> /\ Inspected /\ stage' # "walk"
    BY <1>6 DEF MakeDirs, OpenTarget, WriteTarget, FinishExtraction, Inspected, foundVars, inspectVars
  <2>2. errors' \subseteq errors \cup Tolerated
    BY <1>6 DEF MakeDirs, OpenTarget, WriteTarget, FinishExtraction, Complain, inspectVars, Tolerated
  <2> QED BY <2>1, <2>2, AcceptedRests DEF AcceptInv
<1>7. CASE UNCHANGED vars
  <2>1. /\ UNCHANGED <<buildVars, damage, stage, errors, stack, visited, fileIno, dirIno, dirPath>>
    BY <1>7 DEF vars, inspectVars, foundVars
  <2>2. CASE stage = "walk" /\ damage = "none"
    <3>1. errors' = {} /\ WalkStands(stack', visited', fileIno', dirIno', dirPath')
      BY <2>1, <2>2 DEF AcceptInv
    <3> QED BY <2>1, <2>2, <3>1, AcceptedSame
  <2>3. CASE Inspected
    BY <2>1, <2>3, AcceptedRests DEF AcceptInv, Inspected
  <2>4. CASE ~Inspected /\ ~(stage = "walk" /\ damage = "none")
    BY <2>1, <2>4 DEF AcceptInv, BuilderAccepted, Inspected
  <2> QED BY <2>2, <2>3, <2>4
<1> QED BY <1>1, <1>2, <1>3, <1>4, <1>5, <1>6, <1>7 DEF Next

(* What the builder writes the inspection accepts: of an undamaged image   *)
(* it has no finding of its own, and it finds exactly the packed files and *)
(* directories, with their numbers.                                        *)
THEOREM BuilderIsAccepted == Spec => []BuilderAccepted
<1>1. AcceptInv => BuilderAccepted
  BY DEF AcceptInv
<1> QED BY <1>1, AcceptInit, AcceptStep, Inspecting, PTL DEF Spec
=============================================================================
