----------------------------- MODULE TreeCheck -----------------------------
(***************************************************************************)
(* What inspect_pfs_image finds in the image PathTable wrote, after at     *)
(* most one link of it was damaged, and what extract_pfs_image makes of an *)
(* image that was found sound: the super-root, the walk from the root, the *)
(* path table, orphans, the comparison with the source; then the targets,  *)
(* the directories and one file after the other.                           *)
(***************************************************************************)
EXTENDS PathTable

CONSTANTS
  Modes,       \* "verify": inspect with payloads and source; "unpack"
  DamageKinds, \* which links may be damaged, besides none
  Occupants    \* what the output directory may hold: [node, kind]

(* What lies in the output directory beforehand is nothing, or something  *)
(* at the place of a node.                                                 *)
ASSUME OccupantsAssumption ==
  \A o \in Occupants :
    /\ o.kind \in {"none", "file", "dir"}
    /\ o.kind # "none" => o.node \in Nodes \cup {Root}

VARIABLES
  mode,      \* input
  damage,    \* what was damaged
  badFile,   \* a packed file whose payload does not decode, or Root
  errors,    \* inspection.errors, then result.errors
  stack,     \* the walk() calls: [ino, path, entries, next]
  visited,   \* inodes walk() entered
  dirPath,   \* dir_path_by_inode
  fileIno,   \* file_inodes
  dirIno,    \* dir_inodes
  compared,  \* the source files validate_source_paths listed
  there,     \* what the output directory held before (input)
  out,       \* the output directory
  queue      \* paths of the files still to write

foundVars == <<mode, damage, badFile, stack, visited, dirPath, fileIno, dirIno, compared>>
inspectVars == <<errors, foundVars>>
outVars == <<there, out, queue>>
vars == <<buildVars, stage, inspectVars, outVars>>

None == -9
Init ==
  /\ BuildInit
  /\ mode \in Modes
  /\ damage = "none"
  /\ badFile = Root
  /\ errors = {}
  /\ stack = <<>> /\ visited = {}
  /\ dirPath = <<>> /\ fileIno = <<>> /\ dirIno = <<>> /\ compared = {}
  /\ there \in Occupants
  /\ mode = "verify" => there.kind = "none"
  /\ out = [n \in Nodes \cup {Root} |->
              IF n = there.node THEN there.kind
              ELSE IF there.node \in Nodes /\ n \in Parts[there.node] \cup {Root} THEN "dir"
              ELSE "none"]
  /\ queue = {}

Build ==
  /\ \/ \E unreadable \in SUBSET (Dirs \cap DOMAIN hash) : Scan(unreadable)
     \/ Number \/ Link \/ Collide \/ Table
  /\ UNCHANGED <<inspectVars, outVars>>

-----------------------------------------------------------------------------
(* The image on disk                                                       *)

Without(s, k) == [j \in 1..(Len(s) - 1) |-> IF j < k THEN s[j] ELSE s[j + 1]]
Doubled(s, k) == [j \in 1..(Len(s) + 1) |-> IF j <= k THEN s[j] ELSE s[j - 1]]

(* A complete image is damaged, and looked at before it is unpacked: a     *)
(* verification only adds checks.                                          *)
Hit(kind) ==
  /\ stage = "image"
  /\ kind \in DamageKinds
  /\ kind # "none" => mode = "unpack" /\ there.kind = "none" /\ packed = Visible({})
  /\ damage' = kind
  /\ stage' = "indexes"

(* One inode number beyond the table is enough to be out of range.         *)
InoRange == 0..Len(order)

DamageEntry ==
  /\ Hit("entry")
  /\ \E d \in DOMAIN dirents : \E k \in 1..Len(dirents[d]) :
       \/ dirents' = [dirents EXCEPT ![d] = Without(@, k)]
       \/ dirents' = [dirents EXCEPT ![d] = Doubled(@, k)]
       \/ \E i \in InoRange \ {dirents[d][k].ino} :
            dirents' = [dirents EXCEPT ![d][k].ino = i]
       \/ \E t \in {"dir", "file", "dot", "dotdot", "none"} \ {dirents[d][k].type} :
            dirents' = [dirents EXCEPT ![d][k].type = t]
  /\ UNCHANGED <<fpt, resolver, super>>

DamageTable ==
  /\ Hit("table")
  /\ \E k \in 1..Len(fpt) :
       \/ fpt' = Without(fpt, k)
       \/ fpt' = Doubled(fpt, k)
       \/ \E v \in [group : BOOLEAN, dir : BOOLEAN, at : InoRange] :
            /\ v # [group |-> fpt[k].group, dir |-> fpt[k].dir, at |-> fpt[k].at]
            /\ ~(v.group /\ fpt[k].group /\ v.at = fpt[k].at)
            /\ fpt' = [fpt EXCEPT ![k] =
                         [hash |-> @.hash, group |-> v.group, dir |-> v.dir, at |-> v.at]]
  /\ UNCHANGED <<dirents, resolver, super>>

(* An entry of a group is lost or points elsewhere.                        *)
DamageResolver ==
  /\ Hit("resolver")
  /\ \E k \in 1..Len(resolver) :
       /\ resolver[k] # Zeros
       /\ \/ resolver' = Without(resolver, k)
          \/ \E i \in InoRange \ {resolver[k].ino} :
               resolver' = [resolver EXCEPT ![k].ino = i]
          \/ resolver' = [resolver EXCEPT ![k].type = IF @ = "dir" THEN "file" ELSE "dir"]
  /\ UNCHANGED <<dirents, fpt, super>>

DamageSuper ==
  /\ Hit("super")
  /\ \E k \in 1..Len(super) :
       \/ super' = Without(super, k)
       \/ \E i \in InoRange \ {super[k].ino} : super' = [super EXCEPT ![k].ino = i]
  /\ UNCHANGED <<dirents, fpt, resolver>>

Undamaged == Hit("none") /\ UNCHANGED <<dirents, fpt, resolver, super>>

(* A payload that does not decode is another kind of damage.               *)
Store ==
  /\ Undamaged \/ DamageEntry \/ DamageTable \/ DamageResolver \/ DamageSuper
  /\ badFile' \in IF damage' = "none" THEN packed \cup {Root} ELSE {Root}
  /\ UNCHANGED <<source, hash, packed, order, number, mode, errors, stack, visited, dirPath, fileIno, dirIno, compared, outVars>>

InRange(i) == i \in 0..(Len(order) - 1)
Object(i) == order[i + 1]
IsDir(i) == Object(i) \in Dirs \cup {Root, Super}

(* The entries a directory inode's payload parses to.                      *)
Payload(i) == IF Object(i) = Super THEN super ELSE dirents[Object(i)]

(* parse_image_dirents stops at the first entry that is all zeros.         *)
RunFrom(offset) ==
  LET ends == {k \in (offset + 1)..Len(resolver) : resolver[k] = Zeros}
      last == IF ends = {} THEN Len(resolver) ELSE (CHOOSE k \in ends : \A j \in ends : k <= j) - 1
  IN  {resolver[k] : k \in (offset + 1)..last}

(* The last entry of a name in the super-root counts.                      *)
Special(name) ==
  LET at == {k \in 1..Len(super) : super[k].name = name}
  IN  IF at = {} THEN None ELSE super[CHOOSE k \in at : \A j \in at : j <= k].ino

(* The table and the resolver are what their inodes hold; another inode's  *)
(* payload has no entry of theirs.                                         *)
TableSeq == IF Special(Fpt) = number[Fpt] THEN fpt ELSE <<>>
FptMap == [h \in {TableSeq[k].hash : k \in 1..Len(TableSeq)} |->
             LET at == {k \in 1..Len(TableSeq) : TableSeq[k].hash = h}
             IN  TableSeq[CHOOSE k \in at : \A j \in at : j <= k]]
Groups == {h \in DOMAIN FptMap : FptMap[h].group}
ResolverRead == Special(Resolver) # None /\ InRange(Special(Resolver))
BlobLen ==
  IF ResolverRead /\ Object(Special(Resolver)) = Resolver THEN Len(resolver) ELSE 0
GroupAt(h) == IF FptMap[h].at < BlobLen THEN RunFrom(FptMap[h].at) ELSE {}

Complain(found) == errors' = errors \cup found
When(condition, what) == IF condition THEN {what} ELSE {}

-----------------------------------------------------------------------------
(* inspect_pfs_image                                                       *)

IndexErrors ==
  When(Special(Fpt) = None, "no path table")
    \cup When(Special(Root) = None, "no root")
    \cup When(\E j, k \in 1..Len(TableSeq) : j < k /\ TableSeq[j].hash = TableSeq[k].hash,
              "duplicate hash")
    \cup When(Groups # {} /\ Special(Resolver) = None, "no resolver")
    \cup When(ResolverRead /\ \E h \in Groups : FptMap[h].at >= BlobLen, "offset out of range")

(* Where a directory has a name; the first one counts.                     *)
Named(i, name) == {k \in 1..Len(Payload(i)) : Payload(i)[k].name = name}
Wrong(i, name, ino, type) ==
  \E k \in Named(i, name) :
    /\ \A j \in Named(i, name) : k <= j
    /\ Payload(i)[k].ino # ino \/ Payload(i)[k].type # type

(* "." and "..": exactly one each, the right inode and the right type; the *)
(* root is its own parent.                                                 *)
DotErrors(i, parent) ==
  When(Cardinality(Named(i, Dot)) # 1, "dot count")
    \cup When(Wrong(i, Dot, i, "dot"), "dot")
    \cup When(Cardinality(Named(i, DotDot)) # 1, "dotdot count")
    \cup When(Wrong(i, DotDot, parent, "dotdot"), "dotdot")

(* The entries walk() looks at.                                            *)
Listed(i) ==
  LET at == InOrder({k \in 1..Len(Payload(i)) : Payload(i)[k].name \notin {Dot, DotDot}})
  IN  [j \in 1..Len(at) |-> Payload(i)[at[j]]]

(* The start of walk(): an inode is entered once.                          *)
Enter(i, path, parent, below, found) ==
  /\ visited' = visited \cup {i}
  /\ IF i \in visited THEN Complain(found) /\ stack' = below
     ELSE IF ~InRange(i) \/ ~IsDir(i)
     THEN Complain(found \cup {"not a directory"}) /\ stack' = below
     ELSE /\ Complain(found \cup DotErrors(i, parent))
          /\ stack' = <<[ino |-> i, path |-> path, entries |-> Listed(i), next |-> 1]>> \o below

(* parse_superroot_and_indexes; without a root the tree is not looked at.  *)
ParseIndexes ==
  /\ stage = "indexes"
  /\ IF Special(Root) = None
     THEN /\ Complain(IndexErrors)
          /\ stage' = "inspected"
          /\ UNCHANGED <<stack, visited, dirPath, dirIno>>
     ELSE /\ stage' = "walk"
          /\ dirPath' = Put(<<>>, Special(Root), <<>>)
          /\ dirIno' = Put(<<>>, <<>>, Special(Root))
          /\ Enter(Special(Root), <<>>, Special(Root), <<>>, IndexErrors)
  /\ UNCHANGED <<buildVars, mode, damage, badFile, fileIno, compared, outVars>>

Top == Head(stack)
Entry == Top.entries[Top.next]
ChildPath == Append(Top.path, Entry.name)
Ancestors == {stack[k].ino : k \in 1..Len(stack)}

(* The frame after its next entry.                                         *)
Advanced == <<[Top EXCEPT !.next = @ + 1]>> \o Tail(stack)

EntryErrors ==
  IF \E k \in 1..(Top.next - 1) : Top.entries[k].name = Entry.name
  THEN {"duplicate entry"}
  ELSE IF ~InRange(Entry.ino) THEN {"entry out of range"}
  ELSE IF Entry.type \notin {"dir", "file"} THEN {"entry type"}
  ELSE IF (Entry.type = "dir") # IsDir(Entry.ino) THEN {"entry mode"}
  ELSE IF Entry.type = "file" THEN {}
  ELSE IF Entry.ino \in Ancestors THEN {"cycle"}
  ELSE When(Entry.ino \in DOMAIN dirPath /\ dirPath[Entry.ino] # ChildPath, "several paths")

Walking == stage = "walk" /\ stack # <<>> /\ Top.next <= Len(Top.entries)

(* Mutant: the walk stays at an entry that has something wrong.            *)
WalkBadStays ==
  /\ Walking /\ EntryErrors # {}
  /\ Complain(EntryErrors)
  /\ UNCHANGED <<buildVars, stage, mode, damage, badFile, stack, visited, dirPath, fileIno, dirIno, compared, outVars>>

WalkBad ==
  /\ Walking /\ EntryErrors # {}
  /\ Complain(EntryErrors)
  /\ stack' = Advanced
  /\ UNCHANGED <<buildVars, stage, mode, damage, badFile, visited, dirPath, fileIno, dirIno, compared, outVars>>

WalkFile ==
  /\ Walking /\ EntryErrors = {} /\ Entry.type = "file"
  /\ fileIno' = Put(fileIno, ChildPath, Entry.ino)
  /\ stack' = Advanced
  /\ UNCHANGED <<buildVars, stage, mode, damage, badFile, errors, visited, dirPath, dirIno, compared, outVars>>

WalkDir ==
  /\ Walking /\ EntryErrors = {} /\ Entry.type = "dir"
  /\ dirPath' = Put(dirPath, Entry.ino, ChildPath)
  /\ dirIno' = Put(dirIno, ChildPath, Entry.ino)
  /\ Enter(Entry.ino, ChildPath, Top.ino, Advanced, {})
  /\ UNCHANGED <<buildVars, stage, mode, damage, badFile, fileIno, compared, outVars>>

(* walk() returns.                                                         *)
WalkUp ==
  /\ stage = "walk"
  /\ stack # <<>> /\ Top.next > Len(Top.entries)
  /\ stack' = Tail(stack)
  /\ UNCHANGED <<buildVars, stage, mode, damage, badFile, errors, visited, dirPath, fileIno, dirIno, compared, outVars>>

(* The hash of a path; a path the source does not have gets one of its own.*)
StrayHash(p) == 1000 + FoldLeft(LAMBDA acc, x : 32 * acc + x + 6, 0, p)
HashOf(p) == IF \E n \in DOMAIN hash : PathOf[n] = p THEN hash[Last(p)] ELSE StrayHash(p)

Expected ==
  {[path |-> p, dir |-> TRUE, ino |-> dirIno[p]] : p \in DOMAIN dirIno \ {<<>>}}
    \cup {[path |-> p, dir |-> FALSE, ino |-> fileIno[p]] : p \in DOMAIN fileIno}
ExpectedAt(h) == {e \in Expected : HashOf(e.path) = h}

AsEntry(e) == Ent(e.ino, IF e.dir THEN "dir" ELSE "file", Last(e.path))

(* Mutant: only the hashes are compared.                                   *)
MapErrorsByHash ==
  LET expected == {HashOf(e.path) : e \in Expected}
  IN  When(expected \ DOMAIN FptMap # {}, "missing hash")
        \cup When(DOMAIN FptMap \ expected # {}, "unexpected hash")

(* Mutant: a group that has entries is not looked at.                      *)
MapErrorsGroupUnread ==
  MapErrorsByHash
    \cup UNION {LET exp == ExpectedAt(h)
                    val == FptMap[h]
                IN  IF Cardinality(exp) # 1 THEN When(~val.group, "no group")
                    ELSE When(\A e \in exp : val.group \/ val.dir # e.dir \/ val.at # e.ino, "row")
                : h \in {HashOf(e.path) : e \in Expected} \cap DOMAIN FptMap}

(* validate_fpt_maps, for one hash: a group may hold more than is expected *)
(* of it.                                                                  *)
RowErrors(h) ==
  LET exp == ExpectedAt(h)
      val == FptMap[h]
  IN  IF Cardinality(exp) = 1
      THEN When(\A e \in exp : val.group \/ val.dir # e.dir \/ val.at # e.ino, "row")
      ELSE When(~val.group, "no group")
             \cup When(val.group /\ ~({AsEntry(e) : e \in exp} \subseteq GroupAt(h)), "group")

MapErrors ==
  MapErrorsByHash
    \cup UNION {RowErrors(h) : h \in {HashOf(e.path) : e \in Expected} \cap DOMAIN FptMap}

ImageRange(f) == {f[x] : x \in DOMAIN f}
Reachable ==
  ImageRange(fileIno) \cup ImageRange(dirIno)
    \cup {0, Special(Fpt), Special(Resolver), Special(Root)}

(* Mutant: the image is compared with what the scan found.                 *)
SourcePathsAsScanned(unreadable) == {PathOf[f] : f \in packed}

(* rglob passes over directories it cannot list, as the scan does.         *)
SourcePaths(unreadable) == {PathOf[f] : f \in Visible(unreadable)}

(* The rest of the inspection: table, payloads, orphans, source paths. Left*)
(* out: the checklist of header fields, the comparison of the contents with*)
(* the source and the checksums a caller may expect.                       *)
FinishInspection ==
  /\ stage = "walk" /\ stack = <<>>
  /\ \E unreadable \in IF mode = "verify" THEN SUBSET (Dirs \cap DOMAIN hash) ELSE {{}} :
       /\ compared' = Visible(unreadable)
       /\ Complain(MapErrors
            \cup When(\E i \in 0..(Len(order) - 1) : i \notin Reachable, "orphan")
            \cup (IF mode = "unpack" THEN {}
                  ELSE When(badFile # Root /\ \E p \in DOMAIN fileIno :
                              Object(fileIno[p]) = badFile, "payload")
                         \cup When(SourcePaths(unreadable) # DOMAIN fileIno, "source")))
  /\ stage' = "inspected"
  /\ UNCHANGED <<buildVars, mode, damage, badFile, stack, visited, dirPath, fileIno, dirIno, outVars>>

-----------------------------------------------------------------------------
(* extract_pfs_image                                                       *)

(* _safe_extract_target: where a path of the image goes.  Names are plain  *)
(* and the output directory holds no links, so that it refuses nothing.    *)
TargetOf(p) == Last(p)

TargetConflicts ==
  When(out[Root] = "file", "output is a file")
    \cup When(\E p \in DOMAIN dirIno \ {<<>>} : out[TargetOf(p)] = "file", "conflict")
    \cup When(\E p \in DOMAIN fileIno : out[TargetOf(p)] # "none", "exists")

(* Mutant: only files in the way of directories are looked for.            *)
PlanForced ==
  /\ stage = "inspected"
  /\ LET found == When(\E p \in DOMAIN dirIno \ {<<>>} : out[TargetOf(p)] = "file", "conflict")
     IN  /\ Complain(IF mode = "unpack" /\ errors = {} THEN found ELSE {})
         /\ stage' = IF mode = "unpack" /\ errors' = {} THEN "dirs" ELSE "ended"
  /\ UNCHANGED <<buildVars, foundVars, outVars>>

(* An image with findings is not extracted, nor is one whose files would   *)
(* replace what is there.                                                  *)
Plan ==
  /\ stage = "inspected"
  /\ Complain(IF mode = "unpack" /\ errors = {} THEN TargetConflicts ELSE {})
  /\ stage' = IF mode = "unpack" /\ errors' = {} THEN "dirs" ELSE "ended"
  /\ UNCHANGED <<buildVars, foundVars, outVars>>

DirNodes == {TargetOf(p) : p \in DOMAIN dirIno \ {<<>>}} \cup {Root}

(* Directories are made from the top; any mkdir may fail.  What goes wrong  *)
(* with the output directory itself is not turned into a finding: the      *)
(* exception leaves extract_pfs_image without a result.                    *)
MakeDirs ==
  /\ stage = "dirs"
  /\ \/ /\ out' = [n \in DOMAIN out |-> IF n \in DirNodes THEN "dir" ELSE out[n]]
        /\ queue' = DOMAIN fileIno
        /\ stage' = "files"
        /\ UNCHANGED errors
     \/ /\ \E made \in SUBSET DirNodes :
             out' = [n \in DOMAIN out |-> IF n \in made \cup {Root} THEN "dir" ELSE out[n]]
        /\ Complain({"mkdir"})
        /\ stage' = "ended"
        /\ UNCHANGED queue
     \/ stage' = "raised" /\ UNCHANGED <<out, queue, errors>>
  /\ UNCHANGED <<buildVars, there, foundVars>>

(* The file that is open, if one is.                                       *)
OpenPaths == {p \in queue : out[TargetOf(p)] = "partial"}

(* The files are written in the order of their paths.                      *)
OpenTarget ==
  /\ stage = "files" /\ queue # {} /\ OpenPaths = {}
  /\ \/ /\ \E p \in queue :
             /\ \A q \in queue : TargetOf(p) <= TargetOf(q)
             /\ out' = [out EXCEPT ![TargetOf(p)] = "partial"]
        /\ UNCHANGED <<errors, stage>>
     \/ Complain({"open"}) /\ stage' = "ended" /\ UNCHANGED out
  /\ UNCHANGED <<buildVars, there, queue, foundVars>>

(* Mutant: a payload that does not decode is counted as written.           *)
WriteTargetUnchecked ==
  /\ stage = "files"
  /\ \E p \in OpenPaths :
       /\ queue' = queue \ {p}
       /\ out' = IF Object(fileIno[p]) = badFile THEN out ELSE [out EXCEPT ![TargetOf(p)] = "whole"]
  /\ UNCHANGED <<buildVars, stage, there, errors, foundVars>>

(* The payload is written block by block; one that does not decode, or an  *)
(* I/O error, leaves what was written and ends the extraction.             *)
WriteTarget ==
  /\ stage = "files"
  /\ \E p \in OpenPaths :
       \/ /\ Object(fileIno[p]) # badFile
          /\ out' = [out EXCEPT ![TargetOf(p)] = "whole"]
          /\ queue' = queue \ {p}
          /\ UNCHANGED <<errors, stage>>
       \/ /\ Complain({"decode"})
          /\ stage' = "ended"
          /\ UNCHANGED <<out, queue>>
  /\ UNCHANGED <<buildVars, there, foundVars>>

FinishExtraction ==
  /\ stage = "files" /\ queue = {}
  /\ stage' = "ended"
  /\ UNCHANGED <<buildVars, inspectVars, outVars>>

Next ==
  \/ Build \/ Store
  \/ ParseIndexes \/ WalkBad \/ WalkFile \/ WalkDir \/ WalkUp \/ FinishInspection
  \/ Plan \/ MakeDirs \/ OpenTarget \/ WriteTarget \/ FinishExtraction

(* One thread that always goes on.                                         *)
Spec == Init /\ [][Next]_vars /\ WF_vars(Next)

-----------------------------------------------------------------------------
(* Properties                                                              *)

Inspected == stage \in {"inspected", "dirs", "files", "ended", "raised"}

(* What the builder writes the inspection accepts, whatever paths share a  *)
(* hash: both number, renumber and offset the same way.                    *)
BuilderAccepted ==
  Inspected /\ damage = "none" =>
    /\ errors \subseteq {"payload", "source", "output is a file", "conflict", "exists",
                         "mkdir", "open", "decode"}
    /\ fileIno = [p \in {PathOf[f] : f \in packed} |-> number[Last(p)]]
    /\ dirIno = [p \in {PathOf[d] : d \in PackedDirs \cup {Root}} |->
                   IF p = <<>> THEN number[Root] ELSE number[Last(p)]]

(* A link of the image that is lost, doubled or redirected never goes      *)
(* unnoticed, whichever of the redundant structures it is in.              *)
DamageReported == Inspected /\ damage # "none" => errors # {}

(* What the console does: look the hash up, and the path in its group.     *)
Found(e) ==
  LET row == FptMap[HashOf(e.path)]
  IN  /\ HashOf(e.path) \in DOMAIN FptMap
      /\ IF row.group THEN AsEntry(e) \in GroupAt(HashOf(e.path))
         ELSE row.at = e.ino /\ row.dir = e.dir

(* In an image without findings the path table leads to every file and     *)
(* directory, and to the inode the directories name.                       *)
TableFindsEveryPath == Inspected /\ errors = {} => \A e \in Expected : Found(e)

(* A verification without findings means that the image holds exactly the  *)
(* files the source shows by then: one that the scan had to pass over is   *)
(* reported, unless the verification could not list it either.  And every  *)
(* payload decodes.                                                        *)
CleanMeansSame ==
  Inspected /\ mode = "verify" /\ errors = {} => packed = compared /\ badFile = Root

(* An extraction without errors has written every file of the image whole. *)
ExtractedWhole ==
  stage = "ended" /\ mode = "unpack" /\ errors = {} =>
    /\ \A f \in packed : out[f] = "whole"
    /\ \A d \in PackedDirs : out[d] = "dir"

(* A file that was in the output directory before is never touched, and    *)
(* at most one file is left half-written.                                  *)
ForeignKept ==
  /\ there.kind = "file" => out[there.node] = "file"
  /\ Cardinality({n \in Nodes : out[n] = "partial"}) <= 1

(* The walk of any damaged tree comes to an end, and so does what follows. *)
CheckEnds == <>(stage \in {"refused", "ended", "raised"})
=============================================================================
