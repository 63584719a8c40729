----------------------------- MODULE PathTable -----------------------------
(***************************************************************************)
(* How build_pfs turns a scanned source tree into inode numbers, directory *)
(* entries and the flat path table: scan_source_tree, the numbering, the   *)
(* renumbering a hash collision asks for, make_fpt_and_collision_blob and  *)
(* the super-root.  A name is the number of its node; nodes are numbered   *)
(* in the order of the lower-cased paths, the order of every sort here.    *)
(***************************************************************************)
EXTENDS Integers, Sequences, FiniteSets, SequencesExt, Builtins

CONSTANTS
  Dirs, Files,  \* the nodes below the source root
  Parent,       \* the directory of a node
  Ignored,      \* nodes whose name is_ignored_name refuses
  NonAscii,     \* nodes whose name is not ASCII
  Hashes,       \* the hash values of the paths
  Sources       \* the sets of files the source folder may hold

Nodes == Dirs \cup Files
Root == 0

(* A folder is finite, and a parent comes before its children.             *)
ASSUME TreeAssumption ==
  /\ Nodes \subseteq Nat \ {Root} /\ IsFiniteSet(Nodes)
  /\ Dirs \cap Files = {}
  /\ Parent \in [Nodes -> Dirs \cup {Root}]
  /\ \A n \in Nodes : Parent[n] < n
  /\ Ignored \subseteq Nodes /\ NonAscii \subseteq Nodes
  /\ Hashes \subseteq Nat
  /\ Sources \subseteq SUBSET Files

(* The inodes that are no node, and the two reserved names.                *)
Super == -3
Fpt == -4
Resolver == -5
Dot == -1
DotDot == -2

VARIABLES
  source,    \* the files of the source folder (input)
  hash,      \* fpt_hash of every node's path (input)
  packed,    \* the files the scan found
  order,     \* inodes, in the order of the table
  number,    \* Inode.number
  dirents,   \* the entries of every directory
  fpt,       \* flat_path_table: [hash, group, dir, at]
  resolver,  \* collision_resolver: entries, each group closed by zeros
  super,     \* the super-root's entries
  stage

buildVars == <<source, hash, packed, order, number, dirents, fpt, resolver, super>>

(* The parts of a path, the node itself included.                          *)
Parts[n \in Nodes \cup {Root}] ==
  IF n = Root THEN {} ELSE {n} \cup Parts[Parent[n]]

PathOf[n \in Nodes \cup {Root}] ==
  IF n = Root THEN <<>> ELSE Append(PathOf[Parent[n]], n)

Ent(ino, type, name) == [ino |-> ino, type |-> type, name |-> name]
Zeros == Ent(0, "none", 0)

-----------------------------------------------------------------------------
(* What os.scandir shows: nothing below an ignored name, and nothing below *)
(* a directory that cannot be listed.                                      *)
Visible(unreadable) ==
  {f \in source : Parts[f] \cap (Ignored \cup unreadable) = {}}

BuildInit ==
  /\ source \in Sources
  /\ hash \in [UNION {Parts[f] : f \in Visible({})} -> Hashes]
  /\ packed = {}
  /\ order = <<>> /\ number = <<>> /\ dirents = <<>>
  /\ fpt = <<>> /\ resolver = <<>> /\ super = <<>>
  /\ stage = "scan"

(* Directories without files are not packed: they come from the files.     *)
PackedDirs == UNION {Parts[f] \ {f} : f \in packed}

Scan(unreadable) ==
  /\ stage = "scan"
  /\ packed' = Visible(unreadable)
  /\ stage' = IF \E f \in packed' : Parts[f] \cap NonAscii # {} THEN "refused" ELSE "number"
  /\ UNCHANGED <<source, hash, order, number, dirents, fpt, resolver, super>>

Numbered(objects) ==
  [o \in Range(objects) |-> (CHOOSE k \in 1..Len(objects) : objects[k] = o) - 1]

(* Super-root, path table and root come first, then directories, then      *)
(* files.                                                                  *)
Number ==
  /\ stage = "number"
  /\ order' = <<Super, Fpt, Root>> \o InOrder(PackedDirs) \o InOrder(packed)
  /\ number' = Numbered(order')
  /\ stage' = "link"
  /\ UNCHANGED <<source, hash, packed, dirents, fpt, resolver, super>>

Children(d, S) == InOrder({n \in S : Parent[n] = d})

EntriesOf(d) ==
  LET up == IF d = Root THEN Root ELSE Parent[d]
      Ents(S, type) == [k \in 1..Len(Children(d, S)) |->
                          Ent(number[Children(d, S)[k]], type, Children(d, S)[k])]
  IN  <<Ent(number[d], "dot", Dot), Ent(number[up], "dotdot", DotDot)>>
        \o Ents(PackedDirs, "dir") \o Ents(packed, "file")

(* The entries carry the numbers of this moment.                           *)
Link ==
  /\ stage = "link"
  /\ dirents' = [d \in PackedDirs \cup {Root} |-> EntriesOf(d)]
  /\ stage' = "collide"
  /\ UNCHANGED <<source, hash, packed, order, number, fpt, resolver, super>>

PathNodes == PackedDirs \cup packed
HashesUsed == {hash[n] : n \in PathNodes}
WithHash(h) == InOrder({n \in PackedDirs : hash[n] = h}) \o InOrder({n \in packed : hash[n] = h})
Collision == \E h \in HashesUsed : Len(WithHash(h)) > 1

(* The resolver's inode comes between the path table's and the root's.     *)
WithResolver ==
  [k \in 1..(Len(order) + 1) |->
     IF k <= 2 THEN order[k] ELSE IF k = 3 THEN Resolver ELSE order[k - 1]]

(* Mutant: the entries keep the numbers from before.                       *)
CollideNoRemap ==
  /\ stage = "collide"
  /\ IF Collision
     THEN order' = WithResolver /\ number' = Numbered(WithResolver)
     ELSE UNCHANGED <<order, number>>
  /\ stage' = "table"
  /\ UNCHANGED <<source, hash, packed, dirents, fpt, resolver, super>>

(* A collision inserts the resolver's inode: everything from the root on   *)
(* gets a new number, and the entries are mapped from old to new.          *)
Collide ==
  /\ stage = "collide"
  /\ IF Collision
     THEN /\ order' = WithResolver
          /\ number' = Numbered(WithResolver)
          /\ dirents' = [d \in DOMAIN dirents |->
               [k \in 1..Len(dirents[d]) |->
                  [dirents[d][k] EXCEPT !.ino = number'[order[@ + 1]]]]]
     ELSE UNCHANGED <<order, number, dirents>>
  /\ stage' = "table"
  /\ UNCHANGED <<source, hash, packed, fpt, resolver, super>>

TypeOf(n) == IF n \in Dirs THEN "dir" ELSE "file"

(* The resolver holds one run of entries per shared hash.                  *)
GroupOf(h) ==
  IF Len(WithHash(h)) = 1 THEN <<>>
  ELSE Append([k \in 1..Len(WithHash(h)) |->
                 Ent(number[WithHash(h)[k]], TypeOf(WithHash(h)[k]), WithHash(h)[k])],
              Zeros)

GroupSeq == [k \in 1..Cardinality(HashesUsed) |-> GroupOf(InOrder(HashesUsed)[k])]

Blob == Joined(GroupSeq, Cardinality(HashesUsed))

(* Where the group of h starts: after the groups of the smaller hashes.    *)
OffsetOf(h) == Len(Joined(GroupSeq, Cardinality({g \in HashesUsed : g < h})))

Row(h) ==
  LET nodes == WithHash(h)
  IN  IF Len(nodes) = 1
      THEN [hash |-> h, group |-> FALSE, dir |-> nodes[1] \in Dirs, at |-> number[nodes[1]]]
      ELSE [hash |-> h, group |-> TRUE, dir |-> FALSE, at |-> OffsetOf(h)]

Rows == [k \in 1..Cardinality(HashesUsed) |-> Row(InOrder(HashesUsed)[k])]

SuperEntries ==
  <<Ent(number[Fpt], "file", Fpt)>>
    \o (IF Collision THEN <<Ent(number[Resolver], "file", Resolver)>> ELSE <<>>)
    \o <<Ent(number[Root], "dir", Root)>>

Table ==
  /\ stage = "table"
  /\ fpt' = Rows
  /\ resolver' = Blob
  /\ super' = SuperEntries
  /\ stage' = "image"
  /\ UNCHANGED <<source, hash, packed, order, number, dirents>>
=============================================================================
