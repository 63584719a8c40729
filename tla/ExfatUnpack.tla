---------------------------- MODULE ExfatUnpack ----------------------------
(***************************************************************************)
(* What reads an exFAT volume back: `unpack --deep` and `tree --deep`      *)
(* through _LogicalFileView, which decodes the PFSC blocks of the one file *)
(* of an image on demand; `unpack` and `verify --source-dir` of a raw      *)
(* volume.  The volume is the one ExfatVolume wrote.  Block 0 holds the    *)
(* boot region and block 1 the FAT; the clusters follow, K to a block.     *)
(***************************************************************************)
EXTENDS ExfatVolume

CONSTANTS
  Modes,       \* of "deep", "tree", "raw", "verify"
  Selections,  \* the --only arguments: sets of nodes, {} for no selection
  DamagedBlocks, \* blocks that may have become undecodable, NoBlock for none
  Occupants,   \* what may be at the output: [at, kind]
  Metadata,    \* files _is_metadata_path leaves out: dotfiles, thumbs.db
  Sorted,      \* place of each file in sorted(source.rglob("*"))
  K,           \* clusters in a PFSC block
  Cap          \* _CACHE_BLOCKS

NoBlock == -1
ASSUME UnpackAssumption ==
  /\ Modes \subseteq {"deep", "tree", "raw", "verify"}
  /\ Metadata \subseteq Files
  /\ \A f, g \in Files : Key[f] = Key[g] => (f \in Metadata <=> g \in Metadata)
  /\ Sorted \in [Files -> Nat]
  /\ \A f, g \in Files : Sorted[f] = Sorted[g] => f = g
  /\ K \in Nat \ {0} /\ Cap \in Nat \ {0}

VARIABLES
  mode, only, damaged, occupant,  \* inputs
  at,        \* where the reader stands
  cache,     \* block -> the block whose content is kept for it
  order,     \* the cached blocks in order of decoding
  decoded,   \* blocks ever decoded
  reading,   \* the directory or file being read
  cluster,   \* its next cluster, EndOfChain after the last
  buffer,    \* the units read of it
  pending,   \* directories found and not yet walked
  found,     \* the entries found
  queue,     \* files still to be read
  written,   \* file -> units in the output
  dirsMade,  \* directories made in the output
  errors     \* errors and warnings of the result

inputs == <<mode, only, damaged, occupant>>
walkVars == <<reading, cluster, buffer, pending, found, queue>>
viewVars == <<cache, order, decoded>>
outputVars == <<written, dirsMade, errors>>
unpackVars == <<inputs, at, viewVars, walkVars, outputVars>>

UnpackInit ==
  /\ VolumeInit
  /\ mode \in Modes /\ only \in Selections
  /\ damaged \in DamagedBlocks /\ occupant \in Occupants
  /\ only # {} => mode = "deep"
  /\ damaged # NoBlock => mode \in {"deep", "tree"}
  /\ occupant.kind # "none" => mode \in {"deep", "raw"}
  /\ at = "open"
  /\ cache = <<>> /\ order = <<>> /\ decoded = {}
  /\ reading = Root /\ cluster = EndOfChain /\ buffer = <<>>
  /\ pending = <<>> /\ found = {} /\ queue = <<>>
  /\ written = <<>> /\ dirsMade = {} /\ errors = {}

-----------------------------------------------------------------------------
(* _LogicalFileView                                                        *)

BlockOf(c) == 2 + (c - 2) \div K

(* Mutant: the block decoded last is thrown out instead of the first.      *)
DecodeDropsNewest(b) ==
  /\ decoded' = decoded \cup {b}
  /\ order' = Append(order, b)
  /\ cache' = IF Len(order') > Cap THEN cache ELSE Put(cache, b, b)

(* _decode_block: kept, the one decoded first leaves when there are too    *)
(* many.                                                                   *)
Decode(b) ==
  /\ decoded' = decoded \cup {b}
  /\ LET full == Len(order) >= Cap
     IN  /\ order' = Append(IF full THEN Tail(order) ELSE order, b)
         /\ cache' = [k \in (DOMAIN cache \cup {b}) \ (IF full THEN {Head(order)} ELSE {}) |->
                        IF k = b THEN b ELSE cache[k]]

Viewed == mode \in {"deep", "tree"}

(* A read of block b gives the content of block Content(b).                *)
Content(b) == IF Viewed /\ b \in DOMAIN cache THEN cache[b] ELSE b

CanRead(b) == ~Viewed \/ b \in DOMAIN cache \/ b # damaged

ReadBlock(b) ==
  /\ CanRead(b)
  /\ IF Viewed /\ b \notin DOMAIN cache THEN Decode(b) ELSE UNCHANGED viewVars

(* The units of cluster c, taken from the content of its block.            *)
UnitsAt(c) == ClusterUnits(c + (Content(BlockOf(c)) - BlockOf(c)) * K)

(* Mutant: a block that does not decode is tried again.                    *)
DecodeFailsRetried ==
  /\ pc = "volume" /\ at = "cluster" /\ cluster # EndOfChain
  /\ ~CanRead(BlockOf(cluster))
  /\ UNCHANGED <<folderVars, unpackVars>>

(* CompressionError is no OSError and no ValueError: nobody catches it.    *)
DecodeFails ==
  LET b == CASE at \in {"signature", "boot"} -> 0
             [] at = "fat" -> 1
             [] OTHER -> BlockOf(cluster)
  IN  /\ pc = "volume"
      /\ at \in {"signature", "boot", "fat"} \/ (at = "cluster" /\ cluster # EndOfChain)
      /\ ~CanRead(b)
      /\ at' = "raised"
      /\ UNCHANGED <<folderVars, inputs, viewVars, walkVars, outputVars>>

-----------------------------------------------------------------------------
(* ExfatReader                                                             *)

(* detect_image_format, open_inner_file_view.                              *)
Open ==
  /\ pc = "volume" /\ at = "open"
  /\ at' = IF Viewed THEN "signature" ELSE "boot"
  /\ UNCHANGED <<folderVars, inputs, viewVars, walkVars, outputVars>>

ReadSignature ==
  /\ at = "signature"
  /\ ReadBlock(0)
  /\ at' = "boot"
  /\ UNCHANGED <<folderVars, inputs, walkVars, outputVars>>

StartAt(n) == IF first[n] = 0 THEN EndOfChain ELSE first[n]

(* A deep unpack looks at its output before it walks the directories.      *)
ReadBoot ==
  /\ at = "boot"
  /\ ReadBlock(0)
  /\ IF mode = "deep" /\ occupant = [at |-> Root, kind |-> "file"]
     THEN /\ at' = "done" /\ errors' = errors \cup {"output"}
          /\ UNCHANGED <<walkVars, dirsMade>>
     ELSE /\ at' = "cluster"
          /\ reading' = Root /\ cluster' = StartAt(Root) /\ buffer' = <<>>
          /\ dirsMade' = IF mode = "deep" THEN {Root} ELSE {}
          /\ UNCHANGED <<pending, found, queue, errors>>
  /\ UNCHANGED <<folderVars, inputs, written>>

(* The length of the root is unknown: its chain is followed to its end. Of *)
(* another node as many clusters are read as its length takes, and of any  *)
(* directory none after the one that holds its end.                        *)
Enough(n, got_) == n # Root /\ got_ >= count[n] * C
EndsIn(n, units) == IsDirectory(n) /\ \E k \in 1..Len(units) : units[k] = Zero

ReadCluster ==
  /\ at = "cluster" /\ cluster # EndOfChain
  /\ ReadBlock(BlockOf(cluster))
  /\ buffer' = buffer \o UnitsAt(cluster)
  /\ IF Enough(reading, Len(buffer')) \/ EndsIn(reading, UnitsAt(cluster))
     THEN at' = "cluster" /\ cluster' = EndOfChain
     ELSE at' = "fat" /\ UNCHANGED cluster
  /\ UNCHANGED <<folderVars, inputs, reading, pending, found, queue, outputVars>>

ReadFat ==
  /\ at = "fat"
  /\ ReadBlock(1)
  /\ cluster' = IF Content(1) = 1 THEN fat[cluster] ELSE EndOfChain
  /\ at' = "cluster"
  /\ UNCHANGED <<folderVars, inputs, reading, buffer, pending, found, queue, outputVars>>

EntriesIn(units) ==
  LET ends == {k \in 1..Len(units) : units[k] = Zero}
      last == IF ends = {} THEN Len(units) ELSE Min(ends) - 1
  IN  {units[k].of : k \in {j \in 1..last : units[j].kind = "entry"}}

(* _walk_directory: the entries in order, each directory before the next.  *)
EndDirectory ==
  LET entries == EntriesIn(buffer)
      next == InOrder({n \in entries : IsDirectory(n)}) \o pending
  IN  /\ at = "cluster" /\ cluster = EndOfChain /\ IsDirectory(reading)
      /\ found' = found \cup entries
      /\ IF next = <<>>
         THEN /\ at' = "plan"
              /\ UNCHANGED <<reading, cluster, buffer, pending>>
         ELSE /\ reading' = Head(next) /\ pending' = Tail(next)
              /\ cluster' = StartAt(Head(next)) /\ buffer' = <<>>
              /\ UNCHANGED at
      /\ UNCHANGED <<folderVars, inputs, viewVars, queue, outputVars>>

-----------------------------------------------------------------------------
(* What is done with the entries                                           *)

(* A node and the directories it is in, the root left out.                 *)
Lineage[n \in AllNodes \cup {Root}] ==
  IF n = Root THEN {} ELSE {n} \cup Lineage[Parent[n]]

Selected(n) == only = {} \/ only \cap Lineage[n] # {}

(* Mutant: the selection is made when a file has been read.                *)
ToReadAll == InOrder({n \in found : ~IsDirectory(n) /\ (mode = "verify" => n \notin Metadata)})

ToRead ==
  InOrder({n \in found : ~IsDirectory(n)
             /\ IF mode = "verify" THEN n \notin Metadata ELSE Selected(n)})
DirsToMake == {n \in found : IsDirectory(n) /\ Selected(n)}
Unmatched == {s \in only : \A n \in found : s \notin Lineage[n]}

(* mkdir(parents=True, exist_ok=True) meets a file.                        *)
Blocked(d) == occupant.kind = "file" /\ occupant.at \in Lineage[d]

(* tree ends here.  A file where a directory has to be made ends the run   *)
(* with an exception, before anything is extracted.                        *)
Plan ==
  /\ at = "plan"
  /\ CASE mode = "tree" ->
            at' = "done" /\ UNCHANGED <<queue, outputVars>>
       [] mode = "verify" ->
            at' = "next" /\ queue' = ToRead /\ UNCHANGED outputVars
       [] mode = "raw" /\ occupant = [at |-> Root, kind |-> "file"] ->
            at' = "done" /\ errors' = errors \cup {"output"} /\ UNCHANGED <<queue, written, dirsMade>>
       [] OTHER ->
            /\ dirsMade' = {Root} \cup {d \in DirsToMake : \A b \in DirsToMake : b <= d => ~Blocked(b)}
            /\ IF \E d \in DirsToMake : Blocked(d)
               THEN at' = "raised" /\ UNCHANGED <<queue, errors>>
               ELSE /\ at' = "next" /\ queue' = ToRead
                    /\ errors' = errors \cup (IF Unmatched = {} THEN {} ELSE {"unmatched"})
            /\ UNCHANGED written
  /\ UNCHANGED <<folderVars, inputs, viewVars, reading, cluster, buffer, pending, found>>

(* The parents are made outside the try; a file that is there is truncated.*)
NextFile ==
  /\ at = "next" /\ queue # <<>>
  /\ LET f == Head(queue)
     IN  IF mode # "verify" /\ Blocked(Parent[f])
         THEN at' = "raised" /\ UNCHANGED <<walkVars, outputVars>>
         ELSE IF mode # "verify" /\ occupant = [at |-> f, kind |-> "dir"]
         THEN /\ at' = "done" /\ errors' = errors \cup {"extract"}
              /\ dirsMade' = dirsMade \cup (Lineage[f] \ {f})
              /\ UNCHANGED <<walkVars, written>>
         ELSE /\ at' = "cluster" /\ reading' = f /\ cluster' = StartAt(f) /\ buffer' = <<>>
              /\ queue' = Tail(queue)
              /\ written' = Put(written, f, <<>>)
              /\ dirsMade' = IF mode = "verify" THEN {} ELSE dirsMade \cup (Lineage[f] \ {f})
              /\ UNCHANGED <<pending, found, errors>>
  /\ UNCHANGED <<folderVars, inputs, viewVars>>

(* Mutant: the last cluster is written out to its end.                     *)
EndFilePadded ==
  /\ at = "cluster" /\ cluster = EndOfChain /\ ~IsDirectory(reading)
  /\ at' = "next"
  /\ written' = [written EXCEPT ![reading] = buffer]
  /\ UNCHANGED <<folderVars, inputs, viewVars, walkVars, dirsMade, errors>>

(* The last cluster counts up to the length of the file.                   *)
EndFile ==
  /\ at = "cluster" /\ cluster = EndOfChain /\ ~IsDirectory(reading)
  /\ IF Len(buffer) < size[reading]
     THEN at' = "done" /\ errors' = errors \cup {"extract"}
     ELSE at' = "next" /\ UNCHANGED errors
  /\ written' = [written EXCEPT ![reading] = SubSeq(buffer, 1, Min({Len(buffer), size[reading]}))]
  /\ UNCHANGED <<folderVars, inputs, viewVars, walkVars, dirsMade>>

EndFiles ==
  /\ at = "next" /\ queue = <<>>
  /\ at' = IF mode = "verify" THEN "compare" ELSE "done"
  /\ UNCHANGED <<folderVars, inputs, viewVars, walkVars, outputVars>>

-----------------------------------------------------------------------------
(* verify_exfat_image                                                      *)

(* What a file of the folder hashes to: links are followed.                *)
SourceUnits(f) == [k \in 1..folder[f] |-> Data(f, k - 1)]

(* Of files that differ only in case, the last one counts: in the folder   *)
(* by the paths as they are, where A is before a, in the volume in the     *)
(* order in which the scan met them.                                       *)
LastOf(S, place) == {f \in S : \A g \in S : Key[g] = Key[f] => place[g] <= place[f]}
SourceMap == LastOf({f \in Present : f \notin Metadata}, Sorted)
VolumeMap == LastOf(DOMAIN written \cap Files, [f \in Files |-> f])

(* Mutant: only the names are compared.                                    *)
DifferencesInNames ==
  {"missing" : f \in {g \in SourceMap : \A h \in VolumeMap : Key[g] # Key[h]}}
    \cup {"extra" : f \in {g \in VolumeMap : \A h \in SourceMap : Key[g] # Key[h]}}

Differences ==
  {"missing" : f \in {g \in SourceMap : \A h \in VolumeMap : Key[g] # Key[h]}}
    \cup {"extra" : f \in {g \in VolumeMap : \A h \in SourceMap : Key[g] # Key[h]}}
    \cup {"content" : f \in {g \in SourceMap : \E h \in VolumeMap :
                               Key[g] = Key[h] /\ SourceUnits(g) # written[h]}}

Compare ==
  /\ at = "compare"
  /\ errors' = errors \cup Differences
  /\ at' = "done"
  /\ UNCHANGED <<folderVars, inputs, viewVars, walkVars, written, dirsMade>>

Unpack ==
  \/ DecodeFails \/ Open \/ ReadSignature \/ ReadBoot \/ ReadCluster \/ ReadFat
  \/ EndDirectory \/ Plan \/ NextFile \/ EndFile \/ EndFiles \/ Compare

UnpackNext ==
  \/ Emit /\ UNCHANGED unpackVars
  \/ Ensure /\ UNCHANGED <<volumeVars, unpackVars>>
  \/ Unpack
  \/ pc = "volume" /\ at = "open" /\ (\E e \in Edits : Edit(e)) /\ UNCHANGED <<volumeVars, unpackVars>>

UnpackSpec ==
  UnpackInit /\ [][UnpackNext]_<<folderVars, unpackVars>>
    /\ WF_<<folderVars, unpackVars>>(Emit /\ UNCHANGED unpackVars)
    /\ WF_<<folderVars, unpackVars>>(Ensure /\ UNCHANGED <<volumeVars, unpackVars>>)
    /\ WF_<<folderVars, unpackVars>>(Unpack)

(* Properties                                                              *)

(* The cache holds at most Cap blocks, each under its own number and each  *)
(* listed once for eviction.                                               *)
CacheSound ==
  /\ Len(order) <= Cap
  /\ DOMAIN cache = {order[k] : k \in 1..Len(order)}
  /\ Cardinality(DOMAIN cache) = Len(order)
  /\ \A b \in DOMAIN cache : cache[b] = b

(* An unpack that reports no error has written every selected file and no  *)
(* other, each with the bytes that went into the volume, and has made every*)
(* selected directory.                                                     *)
SelectedWhole ==
  mode \in {"deep", "raw"} /\ at = "done" /\ errors \subseteq {"unmatched"} =>
    /\ DOMAIN written = {f \in nodes \ Dirs : Selected(f)}
    /\ \A f \in DOMAIN written :
         /\ Len(written[f]) = size[f]
         /\ \A k \in 1..size[f] : written[f][k] = IF k <= got[f] THEN Data(f, k - 1) ELSE Zero
    /\ {d \in nodes \cap Dirs : Selected(d)} \subseteq dirsMade

(* "Only the matching entries are read": of the data, no block is decoded  *)
(* but those of directories and of selected files.                         *)
OnlyMatchingRead ==
  pc = "volume" =>
    decoded \subseteq {0, 1} \cup
      {BlockOf(c) : c \in UNION {first[n]..(first[n] + count[n] - 1) :
                                   n \in {m \in nodes \cup {Root} : IsDirectory(m) \/ Selected(m)}}}

(* A verification that reports nothing has found every file of the folder, *)
(* metadata apart, with its content of now, of names that differ only in   *)
(* case the last.  Of a folder without symbolic links that did not change  *)
(* since it was packed it reports no file as extra, files as missing if and*)
(* only if there are ignored ones that are not metadata to it as well, and *)
(* a content only where names differ in nothing but case.                  *)
VerifyRight ==
  mode = "verify" /\ at = "done" =>
    /\ errors = {} =>
         \A f \in SourceMap : \E g \in DOMAIN written \cap Files :
           Key[g] = Key[f] /\ written[g] = SourceUnits(f)
    /\ ~edited /\ Present \cap Links = {} =>
         /\ "extra" \notin errors
         /\ "missing" \in errors <=> ~(Present \cap Ignored \subseteq Metadata)
         /\ "content" \in errors => \E f, g \in Present : f # g /\ Key[f] = Key[g]

(* "Returns: a structured extraction result": a damaged block is among its *)
(* errors.                                                                 *)
DeepReportsDamage ==
  mode = "deep" /\ occupant.kind = "none" => at # "raised"

(* A reader comes to an end, damaged blocks or not.                        *)
UnpackEnds == <>(at \in {"done", "raised"} \/ pc = "failed")
=============================================================================
