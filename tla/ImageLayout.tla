---------------------------- MODULE ImageLayout ----------------------------
(***************************************************************************)
(* The block layout of a PFS image (build_pfs of mkpfs/pfs.py): where each *)
(* inode's payload goes, the indirect blocks and signature slots of signed *)
(* images, the order in which slots are filled, and the way a reader finds *)
(* the payload again and verifies the signatures.                          *)
(* A block's bytes are what was written to it; a signature is the number   *)
(* of slots the signed block held when it was hashed.                      *)
(***************************************************************************)
EXTENDS Naturals, Sequences, FiniteSets, SequencesExt

CONSTANTS
  Direct,          \* MAX_DIRECT_BLOCKS
  SigsPerBlock,    \* records of an indirect block
  InodesPerBlock,
  HeaderSlots,     \* 40-byte entries of the header's InodeBlockSig
  InodeCounts,     \* numbers of inodes an image may have
  BlockCounts      \* payload sizes, in blocks

ASSUME LayoutAssumption ==
  /\ Direct \in Nat \ {0} /\ SigsPerBlock \in Nat \ {0}
  /\ InodesPerBlock \in Nat \ {0} /\ HeaderSlots \in Nat \ {0}
  /\ InodeCounts \subseteq Nat \ 0..3
  /\ BlockCounts \subseteq Nat \ {0}

VARIABLES
  signed,      \* --signed
  collision,   \* a collision_resolver inode follows the flat path table
  size,        \* payload blocks of every inode, by inode number
  phase,       \* "layout", "write", "sign", "verify", or how it ended
  next,        \* ndblock: the next free block
  node,        \* the inode to be laid out, written or verified next
  ptr,         \* db and ib of every inode that has been laid out
  records,     \* indirect_block_records
  targets,     \* signature_targets
  reserved,    \* reserved_empty_blocks
  content,     \* what each block was last written with
  level,       \* signature level being filled
  slots,       \* per block: signature slots filled in it
  sig,         \* per signature target: its block's slot count when hashed
  seedIntact,  \* the seed in the header is the one the key was derived from
  bound        \* inode whose ib[0] records the verifier holds in `records`

layoutVars == <<next, ptr, records, targets, reserved>>
inputs == <<signed, collision, size>>
vars == <<signed, collision, size, phase, next, node, ptr, records, targets,
          reserved, content, level, slots, sig, seedIntact, bound>>

Inodes == DOMAIN size
NoInode == Cardinality(Inodes)
UrootInode == IF collision THEN 3 ELSE 2
InodeBlocks == (Cardinality(Inodes) + InodesPerBlock - 1) \div InodesPerBlock

CeilDiv(n, d) == (n + d - 1) \div d
Least(a, b) == IF a <= b THEN a ELSE b
Capacity == Direct + SigsPerBlock + SigsPerBlock * SigsPerBlock

-----------------------------------------------------------------------------
(* assign_signed_inode_layout                                              *)

(* The blocks taken by a payload of n blocks, from block b on: direct      *)
(* blocks, the first indirect block and its children, then the second one  *)
(* with each child indirect block in front of its own children.            *)
Place(n, b) ==
  LET direct == Least(n, Direct)
      simple == Least(n - direct, SigsPerBlock)
      rest   == n - direct - simple
      groups == CeilDiv(rest, SigsPerBlock)
      ib0    == b + direct
      ib1    == ib0 + simple + 1
      Group(j) == ib1 + 1 + (j - 1) * (SigsPerBlock + 1)
      InGroup(j) == Least(rest - (j - 1) * SigsPerBlock, SigsPerBlock)
  IN  [db     |-> [k \in 1..direct |-> b + k - 1],
       ib     |-> <<IF n > direct THEN ib0 ELSE 0, IF rest > 0 THEN ib1 ELSE 0>>,
       simple |-> [k \in 1..simple |-> ib0 + k],
       groups |-> [j \in 1..groups |-> Group(j)],
       leaves |-> [j \in 1..groups |-> [k \in 1..InGroup(j) |-> Group(j) + k]],
       next   |-> b + n + groups + (IF n > direct THEN 1 ELSE 0)
                            + (IF rest > 0 THEN 1 ELSE 0)]

(* The records of the indirect blocks of one inode.                        *)
RecordsOf(place) ==
  [b \in ({place.ib[1], place.ib[2]} \cup ToSet(place.groups)) \ {0} |->
     IF b = place.ib[1] THEN place.simple
     ELSE IF b = place.ib[2] THEN place.groups
     ELSE place.leaves[CHOOSE j \in DOMAIN place.groups : place.groups[j] = b]]

(* A slot is the block it lies in and its position there.                  *)
InodeSlot(i, index) == <<1 + (i \div InodesPerBlock), <<i % InodesPerBlock, index>> >>
RecordSlot(b, k) == <<b, <<k>> >>
HeaderSlot(k) == <<0, <<k>> >>

(* The slots of the header are 40 bytes each from 0xB8 on; behind the last *)
(* of them, at the same stride, lie the seed and the header digest.        *)
SeedSlot == HeaderSlot(HeaderSlots)
DigestSlot == HeaderSlot(HeaderSlots + 1)

Target(b, s, l) == [block |-> b, slot |-> s, level |-> l]

(* Mutant: the first indirect block is signed along with the data blocks.  *)
TargetsOfFlat(i, place) ==
  {Target(place.db[k], InodeSlot(i, k - 1), 0) : k \in DOMAIN place.db}
  \cup {Target(place.ib[k], InodeSlot(i, Direct + k - 1), 0) :
          k \in {x \in 1..2 : place.ib[x] # 0}}
  \cup UNION {{Target(RecordsOf(place)[b][k], RecordSlot(b, k),
                      IF b = place.ib[2] THEN 1 ELSE 0) :
                 k \in DOMAIN RecordsOf(place)[b]} : b \in DOMAIN RecordsOf(place)}

TargetsOf(i, place) ==
  {Target(place.db[k], InodeSlot(i, k - 1), 0) : k \in DOMAIN place.db}
  \cup {Target(place.ib[k], InodeSlot(i, Direct + k - 1), k) :
          k \in {x \in 1..2 : place.ib[x] # 0}}
  \cup UNION {{Target(RecordsOf(place)[b][k], RecordSlot(b, k),
                      IF b = place.ib[2] THEN 1 ELSE 0) :
                 k \in DOMAIN RecordsOf(place)[b]} : b \in DOMAIN RecordsOf(place)}

-----------------------------------------------------------------------------
(* build_pfs                                                               *)

(* Blocks left empty before inode i: two in signed images, one instead of  *)
(* the collision resolver in the others.                                   *)
Gap(i) ==
  IF i # UrootInode THEN {}
  ELSE IF signed THEN {next, next + 1}
  ELSE IF collision THEN {} ELSE {next}

(* File payloads are checked against the capacity before anything is laid  *)
(* out; the super root is always one block.                                *)
Init ==
  /\ signed \in BOOLEAN /\ collision \in BOOLEAN
  /\ \E n \in InodeCounts :
       size \in [0..(n - 1) -> BlockCounts] /\ size[0] = 1
  /\ phase = "layout"
  /\ next = 1 + InodeBlocks
  /\ node = 0
  /\ ptr = << >>
  /\ records = << >>
  /\ targets = IF signed
               THEN {Target(1 + k, HeaderSlot(k), 3) : k \in 0..(InodeBlocks - 1)}
               ELSE {}
  /\ reserved = {}
  /\ content = << >>
  /\ level = 0
  /\ slots = << >>
  /\ sig = << >>
  /\ seedIntact = TRUE
  /\ bound = NoInode

Override(f, g) == [x \in DOMAIN f \cup DOMAIN g |->
                     IF x \in DOMAIN g THEN g[x] ELSE f[x]]
Single(x, y) == [z \in {x} |-> y]

(* Mutant: the reserved blocks are noted but not skipped.                  *)
LayOutUngapped ==
  /\ phase = "layout" /\ node # NoInode
  /\ signed => size[node] <= Capacity
  /\ LET place == Place(size[node], next)
         plain == [db |-> <<next>>, ib |-> <<0, 0>>]
     IN  /\ ptr' = Override(ptr, Single(node,
                     IF signed THEN [db |-> place.db, ib |-> place.ib] ELSE plain))
         /\ next' = IF signed THEN place.next ELSE next + size[node]
         /\ records' = IF signed THEN Override(records, RecordsOf(place)) ELSE records
         /\ targets' = IF signed THEN targets \cup TargetsOf(node, place) ELSE targets
  /\ reserved' = reserved \cup Gap(node)
  /\ node' = node + 1
  /\ UNCHANGED <<inputs, phase, content, level, slots, sig, seedIntact, bound>>

(* One inode: assign_signed_inode_layout, or a contiguous run of blocks.   *)
LayOut ==
  /\ phase = "layout" /\ node # NoInode
  /\ signed => size[node] <= Capacity
  /\ LET first == next + Cardinality(Gap(node))
         place == Place(size[node], first)
         plain == [db |-> <<first>>, ib |-> <<0, 0>>]
     IN  /\ ptr' = Override(ptr, Single(node,
                     IF signed THEN [db |-> place.db, ib |-> place.ib] ELSE plain))
         /\ next' = IF signed THEN place.next ELSE first + size[node]
         /\ records' = IF signed THEN Override(records, RecordsOf(place)) ELSE records
         /\ targets' = IF signed THEN targets \cup TargetsOf(node, place) ELSE targets
  /\ reserved' = reserved \cup Gap(node)
  /\ node' = node + 1
  /\ UNCHANGED <<inputs, phase, content, level, slots, sig, seedIntact, bound>>

(* "exceeds current signed layout capacity": nothing has been written yet. *)
TooLarge ==
  /\ phase = "layout" /\ node # NoInode
  /\ signed /\ size[node] > Capacity
  /\ phase' = "refused"
  /\ UNCHANGED <<inputs, layoutVars, node, content, level, slots, sig, seedIntact, bound>>

(* The layout is complete; the digest of the header is the last target.    *)
LaidOut ==
  /\ phase = "layout" /\ node = NoInode
  /\ phase' = "write"
  /\ node' = 0
  /\ targets' = IF signed THEN targets \cup {Target(0, DigestSlot, 4)} ELSE targets
  /\ UNCHANGED <<inputs, next, ptr, records, reserved, content, level, slots, sig,
                 seedIntact, bound>>

(* collect_signed_block_numbers, and its twin resolve_signed_inode_blocks, *)
(* which reads the same records back from the image.                       *)
SignedBlocks(i) ==
  LET Take(s, n) == SubSeq(s, 1, Least(Len(s), n))
      direct  == Take(ptr[i].db, size[i])
      simple  == IF ptr[i].ib[1] = 0 THEN << >>
                 ELSE Take(records[ptr[i].ib[1]], SigsPerBlock)
      grouped == IF ptr[i].ib[2] = 0 THEN << >>
                 ELSE FlattenSeq([j \in DOMAIN records[ptr[i].ib[2]] |->
                        Take(records[records[ptr[i].ib[2]][j]], SigsPerBlock)])
  IN  Take(direct \o simple \o grouped, size[i])

(* read_image_inode_payload: unsigned payloads are contiguous.             *)
PayloadBlocks(i) ==
  IF signed THEN SignedBlocks(i)
  ELSE [k \in 1..size[i] |-> ptr[i].db[1] + k - 1]

(* Mutant: signed payloads are written as one run from their first block.  *)
WriteInodeContiguous ==
  /\ phase = "write" /\ node # NoInode
  /\ content' = Override(content,
       [b \in ptr[node].db[1]..(ptr[node].db[1] + size[node] - 1) |->
          <<node, b - ptr[node].db[1] + 1>>])
  /\ node' = node + 1
  /\ UNCHANGED <<inputs, phase, layoutVars, level, slots, sig, seedIntact, bound>>

(* write_payload_to_blocks and its variants, for one inode.                *)
WriteInode ==
  /\ phase = "write" /\ node # NoInode
  /\ content' = Override(content,
       [b \in ToSet(PayloadBlocks(node)) |->
          <<node, CHOOSE k \in 1..size[node] : PayloadBlocks(node)[k] = b>>])
  /\ node' = node + 1
  /\ UNCHANGED <<inputs, phase, layoutVars, level, slots, sig, seedIntact, bound>>

Written ==
  /\ phase = "write" /\ node = NoInode
  /\ phase' = IF signed THEN "sign" ELSE "done"
  /\ node' = 0
  /\ slots' = [b \in 0..(next - 1) |-> 0]
  /\ UNCHANGED <<inputs, layoutVars, content, level, sig, seedIntact, bound>>

(* One level of signatures: hash every target's block, fill its slot.      *)
SignLevel ==
  /\ phase = "sign" /\ level <= 4
  /\ LET now == {t \in targets : t.level = level}
         Filled(b) == {t \in now : t.slot[1] = b /\ t.block # b}
     IN  /\ sig' = Override(sig, [t \in now |-> slots[t.block]])
         /\ slots' = [b \in DOMAIN slots |-> slots[b] + Cardinality(Filled(b))]
         /\ seedIntact' = (seedIntact /\ \A t \in now : t.slot # SeedSlot)
  /\ level' = level + 1
  /\ UNCHANGED <<inputs, phase, layoutVars, node, content, bound>>

(* The signed image is complete.  verify_signed_image_signatures starts    *)
(* with the inode table and the header digest.                             *)
Signed ==
  /\ phase = "sign" /\ level = 5
  /\ phase' = "verify"
  /\ UNCHANGED <<inputs, layoutVars, node, content, level, slots, sig, seedIntact, bound>>

(* The signature found in a target's slot matches its block as it is now.  *)
Matches(t) ==
  /\ seedIntact
  /\ sig[t] = slots[t.block]
  /\ \A u \in targets \ {t} : u.slot = t.slot => u.level < t.level

(* One inode.  The records of ib[0] are parsed only if its signature does  *)
(* not match; using them before that is an UnboundLocalError.              *)
VerifyInode ==
  /\ phase = "verify" /\ node # NoInode
  /\ LET chained == size[node] > Direct
         ib0Bad  == chained /\ \E t \in targets :
                      t.slot = InodeSlot(node, Direct) /\ ~Matches(t)
     IN  /\ bound' = IF ib0Bad THEN node ELSE bound
         /\ phase' = IF chained /\ bound' = NoInode THEN "crashed" ELSE "verify"
  /\ node' = node + 1
  /\ UNCHANGED <<inputs, layoutVars, content, level, slots, sig, seedIntact>>

Verified ==
  /\ phase = "verify" /\ node = NoInode
  /\ phase' = IF \A t \in targets : Matches(t) THEN "clean" ELSE "mismatch"
  /\ UNCHANGED <<inputs, layoutVars, node, content, level, slots, sig, seedIntact, bound>>

Next ==
  \/ LayOut \/ TooLarge \/ LaidOut \/ WriteInode \/ Written
  \/ SignLevel \/ Signed \/ VerifyInode \/ Verified

Spec == Init /\ [][Next]_vars

-----------------------------------------------------------------------------
(* Properties                                                              *)

HasLayout == phase \notin {"layout", "refused"}
HasContent == HasLayout /\ phase # "write"

(* No block is handed out twice and none is lost: the header, the inode    *)
(* table, the reserved blocks, the indirect blocks and the payloads share  *)
(* out the image exactly.                                                  *)
BlocksPartitioned ==
  HasLayout =>
    LET payload == [i \in Inodes |-> ToSet(PayloadBlocks(i))]
        indirect == DOMAIN records
        fixed == 0..InodeBlocks
    IN  /\ fixed \cup reserved \cup indirect \cup UNION {payload[i] : i \in Inodes}
             = 0..(next - 1)
        /\ fixed \cap reserved = {} /\ (fixed \cup reserved) \cap indirect = {}
        /\ \A i \in Inodes : payload[i] \cap (fixed \cup reserved \cup indirect) = {}
        /\ \A i, j \in Inodes : i # j => payload[i] \cap payload[j] = {}

(* Every payload is read back block by block as it was written, whatever   *)
(* was written after it.                                                   *)
PayloadsReadBack ==
  HasContent =>
    \A i \in Inodes :
      LET blocks == PayloadBlocks(i)
      IN  /\ Len(blocks) = size[i]
          /\ ToSet(blocks) \subseteq DOMAIN content
          /\ \A k \in 1..size[i] : content[blocks[k]] = <<i, k>>

(* Every signature is taken over the final bytes of its block: no level    *)
(* fills a slot in a block that an earlier or the same level has hashed.   *)
SignaturesHold ==
  phase \in {"verify", "clean", "mismatch", "crashed"} =>
    \A t \in targets : Matches(t)

=============================================================================
