------------------------ MODULE StreamImage_proofs ------------------------
(***************************************************************************)
(* Proofs about the pooled PFSC encoder (PfscWindow) and the spool-free    *)
(* builders around it (StreamImage), for any number of workers, any        *)
(* window, any block sizes and any source.                                 *)
(* The encoder: every block held by the pool is in the deque               *)
(* (HeldIsPending), the deque holds the blocks that follow the image, in   *)
(* order (PendingInOrder), and therefore what the driver pops is the next  *)
(* block of the source.                                                    *)
(* The builders: a builder takes no step of the encoder's that the encoder *)
(* would not take by itself (EncoderUnchanged), so that what PfscWindow    *)
(* promises holds inside the builder.  What is published reads back since  *)
(* the region follows the encoder's offsets (RegionFollows), the raw form  *)
(* covers every byte (RawStored), and the inode is patched to the size of  *)
(* whichever of the two was stored (PatchedReads).                         *)
(***************************************************************************)
EXTENDS StreamImage, Lemmas, FiniteSetTheorems, FunctionTheorems, SequenceTheorems, TLAPS

-----------------------------------------------------------------------------
(* Arithmetic of the container                                             *)

(* ceil_div returns a natural number.                                      *)
LEMMA CeilDivNat ==
  ASSUME NEW n \in Nat, NEW d \in Nat \ {0}
  PROVE  CeilDiv(n, d) \in Nat
  BY DEF CeilDiv

(* ceil_div rounds up: that many pieces of size d cover n.                 *)
LEMMA CeilDivCovers ==
  ASSUME NEW n \in Nat, NEW d \in Nat \ {0}
  PROVE  CeilDiv(n, d) * d >= n
  BY DEF CeilDiv

(* The declared number of blocks and the header size are naturals.         *)
LEMMA BlockCountNat ==
  ASSUME NEW n \in Nat
  PROVE  BlockCount(n) \in Nat
  BY CeilDivNat, FormatAssumption DEF BlockCount

(* _pfsc_header_size: the header has room for the whole offset table, for  *)
(* every number of blocks.                                                 *)
THEOREM HeaderHoldsTable ==
  ASSUME NEW blocks \in Nat
  PROVE  /\ HeaderSize(blocks) \in Nat
         /\ TableOffset + (blocks + 1) * EntrySize <= HeaderSize(blocks)
<1> DEFINE table == (blocks + 1) * EntrySize
           room  == DataOffset - TableOffset
           extra == CeilDiv(table - room, BlockSize)
<1>1. table \in Nat /\ room \in Nat
  BY FormatAssumption
<1> HIDE DEF table, room
<1>2. CASE table > room
  <2>1. table - room \in Nat
    BY <1>1, <1>2
  <2>2. extra \in Nat /\ extra * BlockSize >= table - room
    BY <2>1, CeilDivNat, CeilDivCovers, FormatAssumption
  <2>3. extra * BlockSize \in Nat
    BY <2>2, FormatAssumption
  <2>4. HeaderSize(blocks) = DataOffset + extra * BlockSize
    BY <1>2 DEF HeaderSize, table, room
  <2> HIDE DEF extra
  <2>5. HeaderSize(blocks) >= DataOffset + (table - room)
    BY <1>1, <2>2, <2>3, <2>4, FormatAssumption
  <2>6. QED
    BY <1>1, <2>3, <2>4, <2>5, FormatAssumption DEF table, room
<1>3. CASE ~(table > room)
  <2>1. HeaderSize(blocks) = DataOffset
    BY <1>3 DEF HeaderSize, table, room
  <2>2. QED
    BY <1>1, <1>3, <2>1, FormatAssumption DEF table, room
<1>4. QED
  BY <1>2, <1>3

(* A stored block never exceeds the logical block size, and the decoder's  *)
(* reading of its span is the form the encoder stored it in.               *)
LEMMA StoredSpan ==
  ASSUME NEW c \in Nat
  PROVE  /\ StoredLen(c) \in Nat
         /\ StoredLen(c) <= BlockSize
         /\ DecodesAs(StoredLen(c)) = IF StoresPacked(c) THEN "packed" ELSE "plain"
  BY FormatAssumption DEF StoredLen, StoresPacked, DecodesAs

LEMMA BlocksNat ==
  /\ Blocks \in Nat
  /\ HeaderSize(Blocks) \in Nat
  BY BlockCountNat, HeaderHoldsTable, SourceAssumption DEF Blocks

LEMMA IntervalCardinality ==
  ASSUME NEW n \in Nat
  PROVE  IsFiniteSet(1..n) /\ Cardinality(1..n) = n
<1>1. IsFiniteSet(1..n) /\ Cardinality(1..n) = IF 1 > n THEN 0 ELSE n - 1 + 1
  BY FS_Interval
<1>2. QED
  BY <1>1

LEMMA WindowNat == MaxInFlight \in Nat \ {0}
<1>1. Cardinality(Workers) \in Nat \ {0}
  BY WindowAssumption, FS_CardinalityType, FS_EmptySet
<1>2. QED
  BY <1>1, WindowAssumption DEF MaxInFlight

-----------------------------------------------------------------------------
(* The inductive invariant                                                 *)

(* The deque holds the blocks that follow the image, oldest first.         *)
PendingInOrder ==
  /\ Submitted <= SourceBlocks
  /\ Len(pending) <= MaxInFlight
  /\ phase = "encoding" => \A k \in 1..Len(pending) : pending[k] = Len(image) + k

(* Whatever the pool still holds is in the deque.                          *)
HeldIsPending == \A b \in InFlight : \E k \in 1..Len(pending) : pending[k] = b

(* No two workers hold the same block, and a held block is running.        *)
JobsMatchTasks ==
  /\ \A w \in Workers : job[w] # 0 => task[job[w]] = "running"
  /\ \A v, w \in Workers : job[v] = job[w] /\ job[v] # 0 => v = w

(* A payload is kept only when every declared block was written.           *)
PackedIsComplete == phase = "packed" => Len(image) = Blocks

(* Blocks start after the header, and none takes more than the logical     *)
(* block size.                                                             *)
OffsetsBounded ==
  \A k \in 1..Len(offsets) :
    /\ HeaderSize(Blocks) <= offsets[k]
    /\ offsets[k] <= HeaderSize(Blocks) + (k - 1) * BlockSize

IInv ==
  /\ TypeOK
  /\ ImageIsSourcePrefix
  /\ PendingInOrder
  /\ HeldIsPending
  /\ JobsMatchTasks
  /\ PackedIsComplete
  /\ OffsetsBounded

LEMMA SourceBlocksNat ==
  ASSUME srcLen \in SourceLens
  PROVE  SourceBlocks \in Nat
  BY BlocksNat, BlockCountNat, SourceAssumption DEF SourceBlocks

(* The initial states satisfy the invariant.                               *)
LEMMA InitIInv == Init => IInv
<1> SUFFICES ASSUME Init PROVE IInv
  OBVIOUS
<1> USE DEF Init, SInit
<1>0. SourceBlocks \in Nat
  BY SourceBlocksNat
<1>1. TypeOK
  BY <1>0, BlocksNat, WindowAssumption
     DEF TypeOK, STypeOK, StoredBlock, BlockIds, TaskState
<1>2. ImageIsSourcePrefix
  BY <1>0 DEF ImageIsSourcePrefix
<1>3. PendingInOrder
  BY <1>0, WindowNat DEF PendingInOrder, Submitted
<1>4. HeldIsPending /\ JobsMatchTasks /\ PackedIsComplete
  BY DEF HeldIsPending, JobsMatchTasks, PackedIsComplete, InFlight
<1>5. OffsetsBounded
  BY BlocksNat, FormatAssumption DEF OffsetsBounded
<1>6. QED
  BY <1>1, <1>2, <1>3, <1>4, <1>5 DEF IInv

(* Submitting the next block of the source.                                *)
LEMMA SubmitIInv == IInv /\ Submit => IInv'
<1> SUFFICES ASSUME IInv, Submit PROVE IInv'
  OBVIOUS
<1> USE DEF Submit
<1>0. /\ SourceBlocks \in Nat /\ SourceBlocks' = SourceBlocks /\ BlockIds' = BlockIds
      /\ Len(pending) \in Nat /\ Len(image) \in Nat
      /\ Submitted + 1 \in BlockIds
  BY SourceBlocksNat DEF IInv, TypeOK, STypeOK, SourceBlocks, BlockIds, Submitted
<1>1. TypeOK'
  BY <1>0 DEF IInv, TypeOK, STypeOK, StoredBlock, TaskState
<1>2. ImageIsSourcePrefix'
  BY <1>0 DEF IInv, ImageIsSourcePrefix, Stored
<1>3. PendingInOrder'
  <2>1. /\ Len(pending') = Len(pending) + 1
        /\ \A k \in 1..Len(pending) : pending'[k] = pending[k]
        /\ pending'[Len(pending) + 1] = Submitted + 1
    BY <1>0 DEF IInv, TypeOK
  <2>2. QED
    BY <1>0, <2>1, WindowNat DEF IInv, PendingInOrder, Submitted
<1>4. HeldIsPending'
  BY <1>0 DEF IInv, TypeOK, HeldIsPending, InFlight
<1>5. JobsMatchTasks'
  <2>1. \A w \in Workers : job[w] # Submitted + 1
    <3>1. SUFFICES ASSUME NEW w \in Workers, job[w] = Submitted + 1 PROVE FALSE
      OBVIOUS
    <3>2. Submitted + 1 \in InFlight
      BY <1>0, <3>1 DEF IInv, JobsMatchTasks, InFlight, BlockIds
    <3>3. PICK k \in 1..Len(pending) : pending[k] = Submitted + 1
      BY <3>2 DEF IInv, HeldIsPending
    <3>4. QED
      BY <1>0, <3>3 DEF IInv, PendingInOrder, Submitted
  <2>2. QED
    BY <1>0, <2>1 DEF IInv, TypeOK, JobsMatchTasks
<1>6. PackedIsComplete' /\ OffsetsBounded'
  BY DEF IInv, PackedIsComplete, OffsetsBounded
<1>7. QED
  BY <1>1, <1>2, <1>3, <1>4, <1>5, <1>6 DEF IInv

(* Appending the block that follows the image keeps the image a prefix of  *)
(* the source and the table within its bound.                              *)
LEMMA AppendNext ==
  ASSUME IInv, Len(image) + 1 \in BlockIds, AppendBlock(Len(image) + 1),
         UNCHANGED <<srcLen, clen>>
  PROVE  /\ image' \in Seq(StoredBlock) /\ offsets' \in Seq(Nat)
         /\ Len(image') = Len(image) + 1
         /\ ImageIsSourcePrefix'
         /\ OffsetsBounded'
<1> DEFINE b == Len(image) + 1
<1>0. /\ SourceBlocks \in Nat /\ SourceBlocks' = SourceBlocks
      /\ Len(image) \in Nat /\ b \in 1..SourceBlocks
      /\ image \in Seq(StoredBlock) /\ offsets \in Seq(Nat)
      /\ Len(offsets) = b
  BY SourceBlocksNat
     DEF IInv, TypeOK, STypeOK, SourceBlocks, BlockIds, ImageIsSourcePrefix
<1>1. clen[b] \in Nat
  BY <1>0, SourceAssumption DEF IInv, TypeOK, STypeOK
<1>2. StoredLen(clen[b]) \in Nat /\ StoredLen(clen[b]) <= BlockSize
  BY <1>1, StoredSpan
<1>3. Stored(b) \in StoredBlock
  BY <1>0 DEF Stored, StoredBlock, StoresPacked
<1>4. PayloadEnd \in Nat /\ PayloadEnd = offsets[b]
  BY <1>0 DEF PayloadEnd
<1>5. /\ image' = Append(image, Stored(b))
      /\ offsets' = Append(offsets, PayloadEnd + StoredLen(clen[b]))
  BY DEF AppendBlock
<1>6. /\ image' \in Seq(StoredBlock) /\ Len(image') = b
      /\ \A k \in 1..Len(image) : image'[k] = image[k]
      /\ image'[b] = Stored(b)
  BY <1>0, <1>3, <1>5, AppendProperties
<1>7. /\ offsets' \in Seq(Nat) /\ Len(offsets') = b + 1
      /\ \A k \in 1..b : offsets'[k] = offsets[k]
      /\ offsets'[b + 1] = offsets[b] + StoredLen(clen[b])
  BY <1>0, <1>2, <1>4, <1>5, AppendProperties
<1>8. \A k \in 1..SourceBlocks : Stored(k)' = Stored(k)
  BY DEF Stored
<1>9. ImageIsSourcePrefix'
  <2>1. \A k \in 1..Len(image) :
          image[k] = Stored(k) /\ offsets[k + 1] = offsets[k] + StoredLen(clen[k])
    BY DEF IInv, ImageIsSourcePrefix
  <2>2. ASSUME NEW k \in 1..b
        PROVE  /\ image'[k] = Stored(k)'
               /\ offsets'[k + 1] = offsets'[k] + StoredLen(clen'[k])
    <3>1. CASE k = b
      BY <3>1, <1>0, <1>6, <1>7, <1>8
    <3>2. CASE k # b
      <4>1. k \in 1..Len(image) /\ k + 1 \in 1..b /\ k \in 1..SourceBlocks
        BY <3>2, <1>0
      <4>2. QED
        BY <4>1, <2>1, <1>6, <1>7, <1>8
    <3>3. QED
      BY <3>1, <3>2
  <2>3. offsets'[1] = HeaderSize(Blocks)
    BY <1>0, <1>7 DEF IInv, ImageIsSourcePrefix
  <2>4. QED
    BY <2>2, <2>3, <1>0, <1>6, <1>7 DEF ImageIsSourcePrefix
<1>10. OffsetsBounded'
  <2>1. \A k \in 1..b :
          /\ HeaderSize(Blocks) <= offsets[k]
          /\ offsets[k] <= HeaderSize(Blocks) + (k - 1) * BlockSize
    BY <1>0 DEF IInv, OffsetsBounded
  <2>2. /\ Len(image) * BlockSize \in Nat
        /\ b * BlockSize = Len(image) * BlockSize + BlockSize
        /\ b - 1 = Len(image) /\ (b + 1) - 1 = b /\ b \in 1..b
    BY <1>0, FormatAssumption
  <2>3. /\ offsets[b] \in Nat /\ HeaderSize(Blocks) <= offsets[b]
        /\ offsets[b] <= HeaderSize(Blocks) + Len(image) * BlockSize
    BY <2>1, <2>2, <1>4
  <2>4. /\ HeaderSize(Blocks) <= offsets'[b + 1]
        /\ offsets'[b + 1] <= HeaderSize(Blocks) + ((b + 1) - 1) * BlockSize
    <3> DEFINE product == Len(image) * BlockSize
               stored  == StoredLen(clen[b])
    <3>1. /\ product \in Nat /\ stored \in Nat /\ stored <= BlockSize
          /\ b * BlockSize = product + BlockSize
          /\ offsets[b] <= HeaderSize(Blocks) + product
      BY <2>2, <2>3, <1>2
    <3>2. offsets'[b + 1] = offsets[b] + stored
      BY <1>7
    <3> HIDE DEF product, stored
    <3>3. /\ HeaderSize(Blocks) <= offsets[b] + stored
          /\ offsets[b] + stored <= HeaderSize(Blocks) + (product + BlockSize)
      BY <3>1, <2>3, BlocksNat, FormatAssumption
    <3>4. QED
      BY <3>1, <3>2, <3>3, <2>2
  <2>5. ASSUME NEW k \in 1..Len(offsets')
        PROVE  /\ HeaderSize(Blocks) <= offsets'[k]
               /\ offsets'[k] <= HeaderSize(Blocks) + (k - 1) * BlockSize
    <3>1. k \in 1..b \/ k = b + 1
      BY <1>0, <1>7
    <3>2. QED
      BY <3>1, <2>1, <2>4, <1>7
  <2>6. QED
    BY <2>5 DEF OffsetsBounded
<1>11. QED
  BY <1>0, <1>6, <1>7, <1>9, <1>10

(* Taking the oldest future off the deque, whatever becomes of its result. *)
LEMMA PopOldest ==
  ASSUME IInv, pending # <<>>, phase = "encoding",
         task[Head(pending)] \in {"done", "error"},
         pending' = Tail(pending),
         task' = [task EXCEPT ![Head(pending)] = "returned"],
         UNCHANGED <<srcLen, job, deaths>>
  PROVE  /\ Head(pending) = Len(image) + 1 /\ Head(pending) \in BlockIds
         /\ SourceBlocks' = SourceBlocks /\ BlockIds' = BlockIds
         /\ pending' \in Seq(BlockIds) /\ Len(pending') = Len(pending) - 1
         /\ \A k \in 1..Len(pending') : pending'[k] = Len(image) + 1 + k
         /\ task' \in [BlockIds -> TaskState]
         /\ HeldIsPending' /\ JobsMatchTasks'
<1>0. /\ SourceBlocks' = SourceBlocks /\ BlockIds' = BlockIds
      /\ pending \in Seq(BlockIds) /\ Len(pending) \in Nat /\ Len(image) \in Nat
      /\ task \in [BlockIds -> TaskState]
      /\ job \in [Workers -> BlockIds \cup {0}]
  BY DEF IInv, TypeOK, STypeOK, SourceBlocks, BlockIds
<1>1. /\ Head(pending) \in BlockIds /\ Head(pending) = pending[1]
      /\ Len(pending) >= 1
      /\ pending' \in Seq(BlockIds) /\ Len(pending') = Len(pending) - 1
      /\ \A k \in 1..Len(pending') : pending'[k] = pending[k + 1]
  BY <1>0
<1>2. \A k \in 1..Len(pending) : pending[k] = Len(image) + k
  BY DEF IInv, PendingInOrder
<1>3. Head(pending) = Len(image) + 1
  BY <1>0, <1>1, <1>2
<1>4. \A k \in 1..Len(pending') : pending'[k] = Len(image) + 1 + k
  BY <1>0, <1>1, <1>2
<1>5. task' \in [BlockIds -> TaskState]
  BY <1>0 DEF TaskState
<1>6. HeldIsPending'
  <2>1. SUFFICES ASSUME NEW b \in InFlight' PROVE \E k \in 1..Len(pending') : pending'[k] = b
    BY DEF HeldIsPending
  <2>2. b \in InFlight /\ b # Head(pending)
    BY <1>0, <1>1 DEF InFlight
  <2>3. PICK k \in 1..Len(pending) : pending[k] = b
    BY <2>2 DEF IInv, HeldIsPending
  <2>4. k - 1 \in 1..Len(pending') /\ pending'[k - 1] = b
    BY <2>2, <2>3, <1>0, <1>1
  <2>5. QED
    BY <2>4
<1>7. JobsMatchTasks'
  BY <1>0, <1>1 DEF IInv, JobsMatchTasks
<1>8. QED
  BY <1>0, <1>1, <1>3, <1>4, <1>5, <1>6, <1>7

(* Writing the oldest finished block.                                      *)
LEMMA WriteOldestIInv == IInv /\ WriteOldest => IInv'
<1> SUFFICES ASSUME IInv, WriteOldest PROVE IInv'
  OBVIOUS
<1>0. /\ pending # <<>> /\ phase = "encoding" /\ task[Head(pending)] = "done"
      /\ AppendBlock(Head(pending)) /\ pending' = Tail(pending)
      /\ task' = [task EXCEPT ![Head(pending)] = "returned"]
      /\ phase' \in {"encoding", "unwinding"}
      /\ UNCHANGED <<srcLen, clen, job, deaths>>
  BY DEF WriteOldest, TakesResult
<1>1. /\ Head(pending) = Len(image) + 1 /\ Head(pending) \in BlockIds
      /\ SourceBlocks' = SourceBlocks /\ BlockIds' = BlockIds
      /\ pending' \in Seq(BlockIds) /\ Len(pending') = Len(pending) - 1
      /\ \A k \in 1..Len(pending') : pending'[k] = Len(image) + 1 + k
      /\ task' \in [BlockIds -> TaskState]
      /\ HeldIsPending' /\ JobsMatchTasks'
  BY <1>0, PopOldest
<1>2. /\ image' \in Seq(StoredBlock) /\ offsets' \in Seq(Nat)
      /\ Len(image') = Len(image) + 1
      /\ ImageIsSourcePrefix' /\ OffsetsBounded'
  BY <1>0, <1>1, AppendNext
<1>3. StoredBlock' = StoredBlock
  BY <1>1 DEF StoredBlock
<1>4. TypeOK'
  BY <1>0, <1>1, <1>2, <1>3 DEF IInv, TypeOK, STypeOK
<1>5. PendingInOrder'
  <2>1. /\ Len(pending) \in Nat /\ Len(image) \in Nat
        /\ Len(image) + Len(pending) <= SourceBlocks /\ Len(pending) <= MaxInFlight
        /\ SourceBlocks \in Nat /\ MaxInFlight \in Nat
    BY SourceBlocksNat, WindowNat DEF IInv, TypeOK, STypeOK, PendingInOrder, Submitted
  <2>2. /\ Len(image') + Len(pending') <= SourceBlocks' /\ Len(pending') <= MaxInFlight
        /\ \A k \in 1..Len(pending') : pending'[k] = Len(image') + k
    BY <2>1, <1>1, <1>2
  <2>3. QED
    BY <2>2 DEF PendingInOrder, Submitted
<1>6. PackedIsComplete'
  BY <1>0 DEF PackedIsComplete
<1>7. QED
  BY <1>1, <1>2, <1>4, <1>5, <1>6 DEF IInv

(* The oldest future raising in the driver.                                *)
LEMMA RaiseOldestIInv == IInv /\ RaiseOldest => IInv'
<1> SUFFICES ASSUME IInv, RaiseOldest PROVE IInv'
  OBVIOUS
<1>0. /\ pending # <<>> /\ phase = "encoding"
      /\ task[Head(pending)] \in {"done", "error"}
      /\ pending' = Tail(pending)
      /\ task' = [task EXCEPT ![Head(pending)] = "returned"]
      /\ phase' = "unwinding"
      /\ UNCHANGED <<srcLen, clen, image, offsets, job, deaths>>
  BY DEF RaiseOldest, TakesResult
<1>1. /\ SourceBlocks' = SourceBlocks /\ BlockIds' = BlockIds
      /\ pending' \in Seq(BlockIds) /\ Len(pending') = Len(pending) - 1
      /\ task' \in [BlockIds -> TaskState]
      /\ HeldIsPending' /\ JobsMatchTasks'
  BY <1>0, PopOldest
<1>2. TypeOK'
  BY <1>0, <1>1 DEF IInv, TypeOK, STypeOK, StoredBlock
<1>3. ImageIsSourcePrefix' /\ OffsetsBounded' /\ PackedIsComplete'
  BY <1>0, <1>1
     DEF IInv, ImageIsSourcePrefix, OffsetsBounded, PackedIsComplete, Stored
<1>4. PendingInOrder'
  BY <1>0, <1>1, SourceBlocksNat, WindowNat
     DEF IInv, TypeOK, STypeOK, PendingInOrder, Submitted
<1>5. QED
  BY <1>1, <1>2, <1>3, <1>4 DEF IInv

(* The steps of the driver that move no block.                             *)
LEMMA DriverEndsIInv == IInv /\ (SourceRaises \/ PoolExit \/ Finish) => IInv'
<1> SUFFICES ASSUME IInv, SourceRaises \/ PoolExit \/ Finish PROVE IInv'
  OBVIOUS
<1>0. /\ UNCHANGED <<srcLen, clen, image, offsets, pending, deaths>>
      /\ SourceBlocks' = SourceBlocks /\ BlockIds' = BlockIds
  BY DEF SourceRaises, PoolExit, Finish, SourceBlocks, BlockIds
<1>1. phase' \in {"unwinding", "failed", "packed", "raw"}
  BY DEF SourceRaises, PoolExit, Finish, Outcome
<1>2. /\ task' \in [BlockIds -> TaskState]
      /\ job' \in [Workers -> BlockIds \cup {0}]
      /\ InFlight' \subseteq InFlight
      /\ JobsMatchTasks'
  <2>1. CASE UNCHANGED <<task, job>>
    BY <2>1, <1>0 DEF IInv, TypeOK, InFlight, JobsMatchTasks
  <2>2. CASE PoolExit /\ ~UNCHANGED <<task, job>>
    BY <2>2, <1>0 DEF PoolExit, IInv, TypeOK, TaskState, InFlight, JobsMatchTasks
  <2>3. QED
    BY <2>1, <2>2 DEF SourceRaises, Finish
<1>3. TypeOK'
  BY <1>0, <1>1, <1>2 DEF IInv, TypeOK, STypeOK, StoredBlock
<1>4. ImageIsSourcePrefix' /\ OffsetsBounded'
  BY <1>0 DEF IInv, ImageIsSourcePrefix, OffsetsBounded, Stored
<1>5. PendingInOrder'
  BY <1>0, <1>1 DEF IInv, PendingInOrder, Submitted
<1>6. HeldIsPending'
  BY <1>0, <1>2 DEF IInv, HeldIsPending
<1>7. PackedIsComplete'
  <2>1. CASE Finish
    BY <2>1, <1>0 DEF Finish, Outcome, PackedIsComplete, SourceBlocks
  <2>2. CASE SourceRaises \/ PoolExit
    BY <2>2 DEF SourceRaises, PoolExit, PackedIsComplete
  <2>3. QED
    BY <2>1, <2>2
<1>8. QED
  BY <1>2, <1>3, <1>4, <1>5, <1>6, <1>7 DEF IInv

(* The steps of the workers.                                               *)
LEMMA WorkerIInv ==
  ASSUME IInv, NEW w \in Workers, Take(w) \/ Complete(w) \/ Die(w)
  PROVE  IInv'
<1>0. /\ UNCHANGED <<srcLen, clen, image, offsets, phase, pending>>
      /\ SourceBlocks' = SourceBlocks /\ BlockIds' = BlockIds
  BY DEF Take, Complete, Die, SourceBlocks, BlockIds
<1>1. /\ task \in [BlockIds -> TaskState]
      /\ job \in [Workers -> BlockIds \cup {0}]
      /\ 0 \notin BlockIds
      /\ JobsMatchTasks
  BY DEF IInv, TypeOK, BlockIds
<1>2. /\ task' \in [BlockIds -> TaskState]
      /\ job' \in [Workers -> BlockIds \cup {0}]
      /\ InFlight' \subseteq InFlight
      /\ JobsMatchTasks'
      /\ deaths' \in 0..MaxDeaths
  <2>1. CASE Take(w)
    <3>1. PICK b \in BlockIds :
            /\ task[b] = "queued" /\ job[w] = 0
            /\ job' = [job EXCEPT ![w] = b]
            /\ task' = [task EXCEPT ![b] = "running"]
      BY <2>1 DEF Take
    <3>2. \A v \in Workers : job[v] # b
      BY <3>1, <1>1 DEF JobsMatchTasks
    <3>3. JobsMatchTasks'
      BY <3>1, <3>2, <1>1 DEF JobsMatchTasks
    <3>4. InFlight' \subseteq InFlight
      BY <3>1, <1>0, <1>1 DEF InFlight
    <3>5. QED
      BY <2>1, <3>1, <3>3, <3>4, <1>1 DEF Take, TaskState, IInv, TypeOK
  <2>2. CASE Complete(w) \/ Die(w)
    <3>1. PICK outcome \in {"done", "error", "lost"} :
            /\ task' = [task EXCEPT ![job[w]] = outcome]
            /\ job' = [job EXCEPT ![w] = 0]
            /\ job[w] \in BlockIds
      BY <2>2, <1>1 DEF Complete, Die
    <3>2. JobsMatchTasks'
      <4>1. ASSUME NEW v \in Workers, job'[v] # 0
            PROVE  v # w /\ job'[v] = job[v] /\ task'[job'[v]] = "running"
        BY <4>1, <3>1, <1>1 DEF JobsMatchTasks
      <4>2. QED
        BY <4>1, <1>1 DEF JobsMatchTasks
    <3>3. task[job[w]] = "running"
      BY <3>1, <1>1 DEF JobsMatchTasks
    <3>4. InFlight' \subseteq InFlight
      BY <3>1, <3>3, <1>0, <1>1 DEF InFlight
    <3>5. deaths' \in 0..MaxDeaths
      BY <2>2, WindowAssumption DEF Complete, Die, IInv, TypeOK
    <3>6. QED
      BY <3>1, <3>2, <3>4, <3>5, <1>1 DEF TaskState
  <2>3. QED
    BY <2>1, <2>2
<1>3. TypeOK'
  BY <1>0, <1>2 DEF IInv, TypeOK, STypeOK, StoredBlock
<1>4. ImageIsSourcePrefix' /\ OffsetsBounded' /\ PackedIsComplete'
  BY <1>0 DEF IInv, ImageIsSourcePrefix, OffsetsBounded, PackedIsComplete, Stored
<1>5. PendingInOrder' /\ HeldIsPending'
  BY <1>0, <1>2 DEF IInv, PendingInOrder, Submitted, HeldIsPending
<1>6. QED
  BY <1>2, <1>3, <1>4, <1>5 DEF IInv

-----------------------------------------------------------------------------
(* Theorems                                                                *)

(* The strengthened invariant holds in every reachable state.              *)
THEOREM Invariance == Spec => []IInv
<1>1. IInv /\ [Next]_wvars => IInv'
  <2> SUFFICES ASSUME IInv, [Next]_wvars PROVE IInv'
    OBVIOUS
  <2>1. CASE Submit
    BY <2>1, SubmitIInv
  <2>2. CASE WriteOldest
    BY <2>2, WriteOldestIInv
  <2>3. CASE RaiseOldest
    BY <2>3, RaiseOldestIInv
  <2>4. CASE SourceRaises \/ PoolExit \/ Finish
    BY <2>4, DriverEndsIInv
  <2>5. ASSUME NEW w \in Workers, Take(w) \/ Complete(w) \/ Die(w)
        PROVE  IInv'
    BY <2>5, WorkerIInv
  <2>6. CASE UNCHANGED wvars
    BY <2>6
       DEF wvars, IInv, TypeOK, STypeOK, StoredBlock, ImageIsSourcePrefix, Stored,
           PendingInOrder, Submitted, HeldIsPending, InFlight, JobsMatchTasks,
           PackedIsComplete, OffsetsBounded, BlockIds, SourceBlocks
  <2>7. QED
    BY <2>1, <2>2, <2>3, <2>4, <2>5, <2>6 DEF Next, Driver
<1>2. QED
  BY InitIInv, <1>1, PTL DEF Spec

(* Type correctness of the pooled encoder.                                 *)
THEOREM TypeCorrect == Spec => []TypeOK
<1>1. IInv => TypeOK
  BY DEF IInv
<1>2. QED
  BY Invariance, <1>1, PTL

(* In-order output: whatever order the workers finish in, the image is at  *)
(* every moment a prefix of the source and the table describes it.         *)
THEOREM InOrderOutput == Spec => []ImageIsSourcePrefix
<1>1. IInv => ImageIsSourcePrefix
  BY DEF IInv
<1>2. QED
  BY Invariance, <1>1, PTL

(* Bounded memory: the blocks held by the pool never exceed the window.    *)
THEOREM BoundedMemory == Spec => []MemoryBounded
<1>1. IInv => MemoryBounded
  <2> SUFFICES ASSUME IInv PROVE MemoryBounded
    OBVIOUS
  <2> DEFINE n == Len(pending)
             R == {pending[k] : k \in 1..n}
             f == [k \in 1..n |-> pending[k]]
  <2>1. n \in Nat /\ n <= MaxInFlight /\ MaxInFlight \in Nat
    BY WindowNat DEF IInv, TypeOK, PendingInOrder
  <2>2. IsFiniteSet(1..n) /\ Cardinality(1..n) = n
    BY <2>1, IntervalCardinality
  <2>3. f \in Surjection(1..n, R)
    <3>1. f \in [1..n -> R] /\ \A r \in R : \E k \in 1..n : f[k] = r
      OBVIOUS
    <3> HIDE DEF f, R
    <3>2. QED
      BY <3>1, Fun_IsSurj
  <2> HIDE DEF f
  <2>4. IsFiniteSet(R) /\ Cardinality(R) <= n
    BY <2>2, <2>3, FS_Surjection
  <2>5. InFlight \in SUBSET R
    BY DEF IInv, HeldIsPending
  <2> HIDE DEF R
  <2>6. IsFiniteSet(InFlight) /\ Cardinality(InFlight) <= Cardinality(R)
    BY <2>4, <2>5, FS_Subset
  <2>7. Cardinality(R) \in Nat /\ Cardinality(InFlight) \in Nat
    BY <2>4, <2>6, FS_CardinalityType
  <2>8. QED
    BY <2>1, <2>4, <2>6, <2>7 DEF MemoryBounded
<1>2. QED
  BY Invariance, <1>1, PTL

(* Round trip: the decoder accepts every payload the encoder kept and      *)
(* reads each block in the form it was stored in.                          *)
THEOREM PayloadRoundTrip == Spec => []PackedPayloadDecodes
<1>1. IInv => PackedPayloadDecodes
  <2> SUFFICES ASSUME IInv, phase = "packed" PROVE PackedPayloadDecodes
    BY DEF PackedPayloadDecodes
  <2>1. /\ Len(image) = Blocks /\ Blocks \in Nat /\ HeaderSize(Blocks) \in Nat
        /\ Len(offsets) = Blocks + 1 /\ offsets[1] = HeaderSize(Blocks)
        /\ offsets \in Seq(Nat) /\ Blocks <= SourceBlocks /\ SourceBlocks \in Nat
        /\ TableOffset + (Blocks + 1) * EntrySize <= HeaderSize(Blocks)
    BY BlocksNat, HeaderHoldsTable, SourceBlocksNat
       DEF IInv, PackedIsComplete, ImageIsSourcePrefix, TypeOK, STypeOK
  <2>2. ASSUME NEW k \in 1..Blocks
        PROVE  /\ image[k] = Stored(k) /\ clen[k] \in Nat
               /\ offsets[k] \in Nat
               /\ offsets[k + 1] = offsets[k] + StoredLen(clen[k])
    <3>1. k \in 1..SourceBlocks
      BY <2>1
    <3>2. clen[k] \in Nat
      BY <3>1, SourceAssumption DEF IInv, TypeOK, STypeOK
    <3>3. QED
      BY <2>1, <3>2 DEF IInv, ImageIsSourcePrefix
  <2>3. ASSUME NEW k \in 1..Blocks
        PROVE  /\ image[k].block = k
               /\ DecodesAs(offsets[k + 1] - offsets[k])
                    = IF image[k].packed THEN "packed" ELSE "plain"
               /\ offsets[k] <= offsets[k + 1]
    <3>1. StoredLen(clen[k]) \in Nat
      BY <2>2, StoredSpan
    <3>2. offsets[k + 1] - offsets[k] = StoredLen(clen[k]) /\ offsets[k] <= offsets[k + 1]
      BY <2>2, <3>1
    <3>3. DecodesAs(StoredLen(clen[k])) = IF StoresPacked(clen[k]) THEN "packed" ELSE "plain"
      BY <2>2, StoredSpan
    <3>4. image[k] = [block |-> k, packed |-> StoresPacked(clen[k])]
      BY <2>2 DEF Stored
    <3>5. image[k].block = k /\ image[k].packed = StoresPacked(clen[k])
      <4>1. StoresPacked(clen[k]) \in BOOLEAN
        BY DEF StoresPacked
      <4>2. image[k].block = k
        BY <3>4
      <4>3. image[k].packed = StoresPacked(clen[k])
        BY <3>4, <4>1
      <4>4. QED
        BY <4>2, <4>3
    <3>6. DecodesAs(offsets[k + 1] - offsets[k]) = IF image[k].packed THEN "packed" ELSE "plain"
      BY <3>2, <3>3, <3>5, Zenon
    <3>7. QED
      BY <3>2, <3>5, <3>6
  <2>4. PayloadEnd \in Nat /\ HeaderSize(Blocks) <= PayloadEnd
    BY <2>1 DEF IInv, OffsetsBounded, PayloadEnd
  <2>5. TableAccepted(offsets, PayloadEnd, Blocks, HeaderSize(Blocks))
    <3>1. offsets[Len(offsets)] <= PayloadEnd
      BY <2>4 DEF PayloadEnd
    <3>2. QED
      BY <2>1, <2>3, <2>4, <3>1 DEF TableAccepted
  <2>6. QED
    BY <2>3, <2>5 DEF PackedPayloadDecodes
<1>2. QED
  BY Invariance, <1>1, PTL

(* The space preflight is enough: the spool never outgrows the estimate    *)
(* made from the size of the file.                                         *)
THEOREM SpoolFits == Spec => []SpoolWithinEstimate
<1>1. IInv => SpoolWithinEstimate
  <2> SUFFICES ASSUME IInv, Variant = "file" PROVE PayloadEnd <= SpoolEstimate(RawSize)
    BY DEF SpoolWithinEstimate
  <2> DEFINE n == Len(image)
  <2>1. /\ n \in Nat /\ Blocks \in Nat /\ n <= Blocks /\ HeaderSize(Blocks) \in Nat
        /\ Len(offsets) = n + 1 /\ offsets \in Seq(Nat)
    BY BlocksNat DEF IInv, TypeOK, STypeOK, ImageIsSourcePrefix, SourceBlocks
  <2>2. PayloadEnd \in Nat /\ PayloadEnd <= HeaderSize(Blocks) + ((n + 1) - 1) * BlockSize
    BY <2>1 DEF IInv, OffsetsBounded, PayloadEnd
  <2> HIDE DEF n
  <2>3. PayloadEnd <= HeaderSize(Blocks) + n * BlockSize
    <3>1. (n + 1) - 1 = n
      BY <2>1
    <3>2. QED
      BY <2>2, <3>1
  <2>4. n * BlockSize <= Blocks * BlockSize /\ n * BlockSize \in Nat /\ Blocks * BlockSize \in Nat
    BY <2>1, FormatAssumption
  <2>5. SpoolEstimate(RawSize) = HeaderSize(Blocks) + Blocks * BlockSize
    BY SourceAssumption DEF SpoolEstimate, Blocks
  <2>6. QED
    BY <2>1, <2>2, <2>3, <2>4, <2>5
<1>2. QED
  BY Invariance, <1>1, PTL

(* The pooled encoder implements the single-worker loop.                   *)
THEOREM Refinement == Spec => ImplementsSerial
<1>0. /\ Serial!Blocks = Blocks /\ Serial!SourceBlocks = SourceBlocks
      /\ Serial!PayloadEnd = PayloadEnd /\ Serial!PackedBlocks = PackedBlocks
      /\ Serial!HeaderSize(Blocks) = HeaderSize(Blocks)
      /\ Serial!Outcome = Outcome
      /\ \A b : Serial!Stored(b) = Stored(b) /\ Serial!StoredLen(clen[b]) = StoredLen(clen[b])
  <2>1. Serial!PackedBlocks = PackedBlocks
    BY Zenon DEF Serial!PackedBlocks, PackedBlocks, Serial!Cardinality, Cardinality
  <2>2. QED
    BY <2>1
       DEF Serial!Blocks, Serial!SourceBlocks, Serial!BlockCount, Serial!CeilDiv,
           Serial!PayloadEnd, Serial!HeaderSize, Serial!Outcome,
           Serial!KeepsPayload, Serial!Stored, Serial!StoredLen, Serial!StoresPacked,
           Blocks, SourceBlocks, BlockCount, CeilDiv, PayloadEnd, HeaderSize,
           Outcome, KeepsPayload, Stored, StoredLen, StoresPacked
<1>1. Init => Serial!SInit
  BY <1>0 DEF Init, SInit, Serial!SInit
<1>2. IInv /\ [Next]_wvars => [Serial!SNext]_Serial!svars
  <2> SUFFICES ASSUME IInv, [Next]_wvars PROVE [Serial!SNext]_Serial!svars
    OBVIOUS
  <2> USE DEF Serial!svars, Serial!SNext
  <2>1. CASE WriteOldest
    <3>1. /\ Head(pending) = Len(image) + 1 /\ Head(pending) \in BlockIds
      BY <2>1, PopOldest DEF WriteOldest, TakesResult
    <3>2. Len(image) < SourceBlocks
      BY <3>1, SourceBlocksNat DEF BlockIds, IInv, TypeOK, STypeOK
    <3>3. Serial!AppendBlock(Len(image) + 1)
      BY <2>1, <3>1, <1>0 DEF WriteOldest, AppendBlock, Serial!AppendBlock
    <3>4. Serial!SEncode
      BY <2>1, <3>2, <3>3, <1>0 DEF WriteOldest, TakesResult, Serial!SEncode
    <3>5. QED
      BY <3>4
  <2>2. CASE RaiseOldest \/ SourceRaises
    BY <2>2 DEF RaiseOldest, SourceRaises, TakesResult, Serial!SFail
  <2>3. CASE Finish
    <3>1. Outcome # "unwinding"
      BY DEF Outcome
    <3>2. Serial!SFinish
      BY <2>3, <3>1, <1>0 DEF Finish, Serial!SFinish
    <3>3. QED
      BY <3>2
  <2>4. CASE Submit \/ PoolExit
    BY <2>4 DEF Submit, PoolExit
  <2>5. ASSUME NEW w \in Workers, Take(w) \/ Complete(w) \/ Die(w)
        PROVE  UNCHANGED Serial!svars
    BY <2>5 DEF Take, Complete, Die
  <2>6. CASE UNCHANGED wvars
    BY <2>6 DEF wvars
  <2>7. QED
    BY <2>1, <2>2, <2>3, <2>4, <2>5, <2>6 DEF Next, Driver
<1>3. QED
  BY Invariance, <1>1, <1>2, PTL DEF Spec, ImplementsSerial, Serial!SSpec

-----------------------------------------------------------------------------
(* The encoder inside the builder                                          *)

(* A step of the builder is a step of the encoder or leaves it alone.      *)
LEMMA StepKeepsEncoder == [StreamNext]_vars => [Next]_wvars
<1> SUFFICES ASSUME [StreamNext]_vars PROVE [Next]_wvars
  OBVIOUS
<1>1. CASE EncoderStep(Driver)
  BY <1>1 DEF EncoderStep, Next
<1>2. CASE EncoderStep(SourceRaises)
  BY <1>2 DEF EncoderStep, Next
<1>3. ASSUME NEW w \in Workers, EncoderStep(Take(w) \/ Complete(w) \/ Die(w))
      PROVE  [Next]_wvars
  BY <1>3 DEF EncoderStep, Next
<1>4. CASE Refuse \/ DryRun \/ OpenTmp \/ WriteFront \/ StoreRaw \/ Patch \/ Encrypt
  BY <1>4 DEF Refuse, DryRun, OpenTmp, WriteFront, StoreRaw, Patch, Encrypt
<1>5. CASE Validate \/ Move \/ Announce \/ Unwind \/ Raise \/ HandlerRaises \/ Kill
  BY <1>5 DEF Validate, Move, Announce, Unwind, Raise, HandlerRaises, Kill
<1>6. CASE UNCHANGED vars
  BY <1>6 DEF vars
<1>7. QED
  BY <1>1, <1>2, <1>3, <1>4, <1>5, <1>6 DEF StreamNext, Builder

(* The builder runs the encoder as it is: every behaviour of a builder is  *)
(* one of the pooled encoder, which may pause for ever.                    *)
THEOREM EncoderUnchanged == StreamSpec => Spec
<1>1. StreamInit => Init
  BY DEF StreamInit
<1>2. QED
  BY <1>1, StepKeepsEncoder, PTL DEF StreamSpec, Spec

(* Therefore memory stays bounded while a folder is streamed.              *)
THEOREM BuilderMemoryBounded == StreamSpec => []MemoryBounded
  BY EncoderUnchanged, BoundedMemory, PTL

(* The payload in the image's final region is the one-worker encoder's.    *)
THEOREM BuilderImplementsSerial == StreamSpec => ImplementsSerial
  BY EncoderUnchanged, Refinement, PTL

(* A payload the encoder kept decodes, inside the image as in a spool.     *)
THEOREM BuilderPayloadDecodes == StreamSpec => []PackedPayloadDecodes
  BY EncoderUnchanged, PayloadRoundTrip, PTL


-----------------------------------------------------------------------------
(* The inductive invariant of the builder                                  *)

Marks == {"zero", "source", "table", "pfsc", "cut"}
FrontMarks == {"zero", "header", "inodes", "super_root", "fpt", "uroot"}

InodeFields == [final : Nat, blocks : Nat, size : Nat, packed : BOOLEAN, raw : Nat]

TmpImage == [kind : {"image"}, front : [0..UrootAt -> FrontMarks], meta : InodeFields,
             region : [Cells -> Marks], length : Nat, sealed : SUBSET Nat]

Open == {"front", "payload", "stored", "patched", "sealed", "validated"}

(* While the builder works on it, the .tmp is an image.                    *)
TmpIsImage == stage \in Open => tmp \in TmpImage

(* The encoder runs only for a file that is to be compressed, and only a   *)
(* seekable source has a raw form to fall back to.                         *)
RawIsSeekable ==
  /\ encrypted \in BOOLEAN
  /\ size \in Nat \ {0}
  /\ ~compress => Variant = "file" /\ phase = "encoding"
  /\ phase = "raw" => Variant = "file"

FrontWritten ==
  stage \in Open \ {"front"} =>
    /\ tmp.front[InodesAt] = "inodes" /\ tmp.front[SuperRootAt] = "super_root"
    /\ tmp.front[FptAt] = "fpt"       /\ tmp.front[UrootAt] = "uroot"

(* Nothing is encoded before the metadata in front is written.             *)
EncoderFresh ==
  stage \in {"start", "front"} => phase = "encoding" /\ PayloadEnd = HeaderSize(Blocks)

(* The region holds what the encoder has written, up to its last offset.   *)
RegionFollows ==
  stage = "payload" =>
    \A p \in Cells :
      /\ HeaderSize(Blocks) <= p /\ p < PayloadEnd => tmp.region[p] = "pfsc"
      /\ phase = "packed" /\ p < HeaderSize(Blocks) => tmp.region[p] = "table"

(* The raw form covers the region to the last byte of the source.          *)
RawStored ==
  stage = "stored" =>
    /\ phase # "packed" /\ Variant = "file"
    /\ \A p \in Cells : p < size => tmp.region[p] = "source"

(* What a reader needs, but for the encryption.                            *)
PlainReadsBack(f) ==
  /\ f.front[InodesAt] = "inodes" /\ f.front[SuperRootAt] = "super_root"
  /\ f.front[FptAt] = "fpt"       /\ f.front[UrootAt] = "uroot"
  /\ f.meta.final = f.length /\ f.length = FileAt + f.meta.blocks
  /\ f.meta.size <= f.meta.blocks * PfsBlock
  /\ f.meta.raw = size
  /\ \A p \in 0..(f.meta.size - 1) :
       f.region[p] = IF ~f.meta.packed THEN "source"
                     ELSE IF p < HeaderSize(Blocks) THEN "table" ELSE "pfsc"

PatchedReads == stage \in {"patched", "sealed", "validated"} => PlainReadsBack(tmp)

SealedReads == stage \in {"sealed", "validated"} => ReadsBack(tmp)

(* What the output name shows.                                             *)
OutReads == out.kind = "image" => ReadsBack(out) /\ out.meta.raw = size

BInv ==
  /\ TmpIsImage
  /\ RawIsSeekable
  /\ FrontWritten
  /\ EncoderFresh
  /\ RegionFollows
  /\ RawStored
  /\ PatchedReads
  /\ SealedReads
  /\ OutReads

(* The initial states satisfy it.                                          *)
LEMMA InitBInv == StreamInit => BInv
  BY SourceAssumption, StatAssumption
     DEF StreamInit, Init, SInit, BInv, TmpIsImage, RawIsSeekable, FrontWritten, EncoderFresh,
         PayloadEnd, RegionFollows, RawStored, PatchedReads, SealedReads,
         OutReads, Open, NoFile, Earlier

(* What is constant stays as it is.                                        *)
LEMMA Constants ==
  /\ srcLen' = srcLen /\ size' = size => Cells' = Cells
  /\ Blocks' = Blocks /\ HeaderSize(Blocks)' = HeaderSize(Blocks)
  BY DEF Cells, SourceBlocks, Blocks, HeaderSize, BlockCount, CeilDiv


(* The region is long enough for either form of the payload.               *)
LEMMA CellsReach ==
  ASSUME IInv, size \in Nat
  PROVE  /\ PayloadEnd \in Nat /\ HeaderSize(Blocks) \in Nat
         /\ HeaderSize(Blocks) <= PayloadEnd
         /\ 0..(PayloadEnd - 1) \subseteq Cells
         /\ 0..(size - 1) \subseteq Cells
         /\ Cells \subseteq Nat
<1> DEFINE n == Len(image)
           head == HeaderSize(Blocks)
<1>1. /\ n \in Nat /\ SourceBlocks \in Nat /\ n <= SourceBlocks
      /\ Len(offsets) = n + 1 /\ offsets \in Seq(Nat)
  BY SourceBlocksNat DEF IInv, TypeOK, STypeOK, ImageIsSourcePrefix
<1>2. head \in Nat /\ Blocks \in Nat
  BY BlocksNat
<1>3. PayloadEnd \in Nat /\ head <= PayloadEnd /\ PayloadEnd <= head + n * BlockSize
  <2>1. n + 1 \in 1..Len(offsets)
    BY <1>1
  <2>2. head <= offsets[n + 1] /\ offsets[n + 1] <= head + ((n + 1) - 1) * BlockSize
    BY <2>1 DEF IInv, OffsetsBounded
  <2>3. (n + 1) - 1 = n
    BY <1>1
  <2>4. QED
    BY <1>1, <2>1, <2>2, <2>3 DEF PayloadEnd
<1> DEFINE top == head + (SourceBlocks + 1) * BlockSize + size + PfsBlock
<1>4. /\ n * BlockSize \in Nat /\ (SourceBlocks + 1) * BlockSize \in Nat
      /\ SourceBlocks * BlockSize \in Nat
      /\ n * BlockSize <= (SourceBlocks + 1) * BlockSize
      /\ SourceBlocks * BlockSize <= (SourceBlocks + 1) * BlockSize
  BY <1>1, FormatAssumption
<1>5. Cells = 0..top
  BY DEF Cells
<1> HIDE DEF n, head
<1>6. PayloadEnd <= top /\ top \in Nat /\ size <= top
  BY <1>2, <1>3, <1>4, PfsBlockAssumption
<1> HIDE DEF top
<1>7. QED
  BY <1>3, <1>5, <1>6, <1>2 DEF head

(* The encoder's bytes go where its offsets say; it keeps the payload only *)
(* in a step that writes none.                                             *)
LEMMA EncoderMoves ==
  ASSUME IInv, [Next]_wvars
  PROVE  /\ srcLen' = srcLen
         /\ phase' = "packed" => offsets' = offsets
         /\ phase' = "raw" /\ phase # "raw" => Variant = "file"
<1>1. CASE Submit
  BY <1>1 DEF Submit
<1>2. CASE WriteOldest
  BY <1>2 DEF WriteOldest
<1>3. CASE RaiseOldest \/ PoolExit \/ SourceRaises
  BY <1>3 DEF RaiseOldest, PoolExit, SourceRaises
<1>4. CASE Finish
  BY <1>4, SourceAssumption DEF Finish, Outcome
<1>5. ASSUME NEW w \in Workers, Take(w) \/ Complete(w) \/ Die(w)
      PROVE  srcLen' = srcLen /\ offsets' = offsets /\ phase' = phase
  BY <1>5 DEF Take, Complete, Die
<1>6. CASE UNCHANGED wvars
  BY <1>6 DEF wvars
<1>7. QED
  BY <1>1, <1>2, <1>3, <1>4, <1>5, <1>6 DEF Next, Driver

LEMMA FillType ==
  ASSUME NEW region \in [Cells -> Marks], NEW from, NEW to, NEW what \in Marks
  PROVE  Fill(region, from, to, what) \in [Cells -> Marks]
  BY DEF Fill


-----------------------------------------------------------------------------
(* The steps                                                               *)

(* A step of the encoder inside the builder.                               *)
LEMMA EncoderBInv ==
  ASSUME BInv, IInv, IInv', [Next]_wvars,
         stage = "payload", compress, UNCHANGED <<stage, size, compress, encrypted, out>>,
         tmp' = [tmp EXCEPT !.region =
                   IF phase' = "packed"
                   THEN Fill(@, 0, HeaderSize(Blocks), "table")
                   ELSE Fill(@, PayloadEnd, offsets'[Len(offsets')], "pfsc")]
  PROVE  BInv'
<1> DEFINE head == HeaderSize(Blocks)
           end == offsets'[Len(offsets')]
           filled == IF phase' = "packed" THEN Fill(tmp.region, 0, head, "table")
                     ELSE Fill(tmp.region, PayloadEnd, end, "pfsc")
<1>1. /\ srcLen' = srcLen /\ Cells' = Cells /\ Blocks' = Blocks
      /\ HeaderSize(Blocks)' = head
      /\ PayloadEnd' = end
      /\ tmp \in TmpImage /\ stage' = "payload"
  BY EncoderMoves, Constants DEF BInv, TmpIsImage, Open, PayloadEnd
<1>2. PayloadEnd \in Nat /\ head \in Nat /\ Cells \subseteq Nat /\ end \in Nat
  <2>1. Len(offsets') = Len(image') + 1 /\ offsets' \in Seq(Nat) /\ image' \in Seq(StoredBlock)'
    BY DEF IInv, TypeOK, STypeOK, ImageIsSourcePrefix
  <2>2. Len(offsets') \in 1..Len(offsets')
    BY <2>1
  <2>3. end \in Nat
    BY <2>1, <2>2
  <2>4. size \in Nat
    BY DEF BInv, RawIsSeekable
  <2>5. QED
    BY <2>3, <2>4, CellsReach
<1>3. tmp' = [tmp EXCEPT !.region = filled] /\ tmp.region \in [Cells -> Marks]
  BY <1>1 DEF TmpImage
<1>4. filled \in [Cells -> Marks]
  BY <1>3, FillType DEF Marks
<1>5. ASSUME NEW p \in Cells
      PROVE  filled[p] = IF phase' = "packed"
                         THEN IF p < head THEN "table" ELSE tmp.region[p]
                         ELSE IF PayloadEnd <= p /\ p < end THEN "pfsc" ELSE tmp.region[p]
  <2>1. p \in Nat
    BY <1>2
  <2>2. CASE phase' = "packed"
    BY <2>1, <2>2 DEF Fill
  <2>3. CASE phase' # "packed"
    BY <2>3 DEF Fill
  <2>4. QED
    BY <2>2, <2>3
<1> HIDE DEF filled, head, end
<1>6. tmp' \in TmpImage' /\ tmp'.region = filled
  BY <1>1, <1>3, <1>4
     DEF TmpImage, Marks, FrontMarks, InodeFields, UrootAt, EmptyAt, FptAt, SuperRootAt, InodesAt
<1>7. TmpIsImage' /\ FrontWritten' /\ EncoderFresh' /\ RawStored' /\ PatchedReads' /\ SealedReads'
  BY <1>1, <1>3, <1>6
     DEF BInv, TmpIsImage, FrontWritten, EncoderFresh, RawStored, PatchedReads, SealedReads,
         Open, TmpImage
<1>8. RawIsSeekable'
  BY EncoderMoves DEF BInv, RawIsSeekable
<1>9. RegionFollows'
  <2> SUFFICES ASSUME NEW p \in Cells
               PROVE  /\ head <= p /\ p < end => filled[p] = "pfsc"
                      /\ phase' = "packed" /\ p < head => filled[p] = "table"
    BY <1>1, <1>6 DEF RegionFollows
  <2>1. head <= p /\ p < PayloadEnd => tmp.region[p] = "pfsc"
    BY DEF BInv, RegionFollows, head
  <2>2. phase' = "packed" => end = PayloadEnd
    BY EncoderMoves DEF PayloadEnd, end
  <2>3. p \in Nat
    BY <1>2
  <2>4. QED
    BY <1>2, <1>5, <2>1, <2>2, <2>3
<1>10. OutReads'
  BY <1>1 DEF BInv, OutReads, ReadsBack, head
<1>11. QED
  BY <1>7, <1>8, <1>9, <1>10 DEF BInv

(* Where the encoder stands still, so does what depends on it.             *)
LEMMA EncoderStill ==
  ASSUME UNCHANGED wvars, size' = size
  PROVE  /\ Cells' = Cells /\ Blocks' = Blocks
         /\ HeaderSize(Blocks)' = HeaderSize(Blocks)
         /\ PayloadEnd' = PayloadEnd /\ phase' = phase
  BY Constants DEF wvars, PayloadEnd

(* The .tmp is opened and the metadata in front of the payload written.    *)
LEMMA FrontBInv == BInv /\ IInv /\ (OpenTmp \/ WriteFront) => BInv'
<1> SUFFICES ASSUME BInv, IInv, OpenTmp \/ WriteFront PROVE BInv'
  OBVIOUS
<1>1. /\ UNCHANGED wvars /\ UNCHANGED <<size, compress, encrypted, out>>
      /\ stage' \in {"front", "payload"}
  BY DEF OpenTmp, WriteFront
<1>2. TmpIsImage' /\ FrontWritten'
  <2>1. CASE OpenTmp
    <3>1. /\ stage' = "front"
          /\ tmp' = [kind |-> "image", front |-> [b \in 0..UrootAt |-> "zero"],
                     meta |-> Provisional, region |-> Hole, length |-> 0, sealed |-> {}]
      BY <2>1 DEF OpenTmp
    <3>2. Provisional \in InodeFields /\ Hole \in [Cells' -> Marks]
      BY <1>1, EncoderStill DEF Provisional, InodeFields, Hole, Marks
    <3>3. [b \in 0..UrootAt |-> "zero"] \in [0..UrootAt -> FrontMarks]
      BY DEF FrontMarks
    <3>4. QED
      BY <3>1, <3>2, <3>3 DEF TmpIsImage, FrontWritten, TmpImage, Open
  <2>2. CASE WriteFront
    <3> DEFINE front == [b \in 0..UrootAt |->
                CASE b = HeaderAt    -> "header"
                  [] b = InodesAt    -> "inodes"
                  [] b = SuperRootAt -> "super_root"
                  [] b = FptAt       -> "fpt"
                  [] b = EmptyAt     -> "zero"
                  [] b = UrootAt     -> "uroot"]
    <3>1. stage = "front" /\ stage' = "payload" /\ tmp' = [tmp EXCEPT !.front = front]
      BY <2>2 DEF WriteFront
    <3>2. tmp \in TmpImage
      BY <3>1 DEF BInv, TmpIsImage, Open
    <3>3. /\ front \in [0..UrootAt -> FrontMarks]
          /\ front[InodesAt] = "inodes" /\ front[SuperRootAt] = "super_root"
          /\ front[FptAt] = "fpt" /\ front[UrootAt] = "uroot"
      BY DEF FrontMarks, HeaderAt, UrootAt, EmptyAt, FptAt, SuperRootAt, InodesAt
    <3> HIDE DEF front
    <3>4. tmp' \in TmpImage' /\ tmp'.front = front
      BY <1>1, <3>1, <3>2, <3>3, EncoderStill DEF TmpImage
    <3>5. QED
      BY <3>1, <3>3, <3>4 DEF TmpIsImage, FrontWritten
  <2>3. QED
    BY <2>1, <2>2
<1>3. RawIsSeekable' /\ EncoderFresh'
  BY <1>1, EncoderStill DEF BInv, RawIsSeekable, EncoderFresh, OpenTmp, WriteFront
<1>4. RegionFollows'
  <2>1. CASE OpenTmp
    BY <2>1 DEF OpenTmp, RegionFollows
  <2>2. CASE WriteFront
    <3>1. phase' = "encoding" /\ PayloadEnd' = HeaderSize(Blocks)'
      BY <2>2, <1>1, EncoderStill DEF BInv, EncoderFresh, WriteFront
    <3>2. HeaderSize(Blocks)' \in Nat /\ Cells' \subseteq Nat
      BY <1>1, EncoderStill, CellsReach DEF BInv, RawIsSeekable
    <3>3. ASSUME NEW p \in Cells'
          PROVE  ~(HeaderSize(Blocks)' <= p /\ p < PayloadEnd')
      BY <3>1, <3>2
    <3>4. QED
      BY <3>1, <3>3 DEF RegionFollows
  <2>3. QED
    BY <2>1, <2>2
<1>5. RawStored' /\ PatchedReads' /\ SealedReads'
  BY <1>1 DEF RawStored, PatchedReads, SealedReads
<1>6. OutReads'
  BY <1>1, EncoderStill DEF BInv, OutReads, ReadsBack
<1>7. QED
  BY <1>2, <1>3, <1>4, <1>5, <1>6 DEF BInv

(* The source is copied over whatever the encoder left.                    *)
LEMMA StoreRawBInv == BInv /\ IInv /\ StoreRaw => BInv'
<1> SUFFICES ASSUME BInv, IInv, StoreRaw PROVE BInv'
  OBVIOUS
<1> DEFINE copied == Fill(tmp.region, 0, size, "source")
           filled == Fill(copied, size, tmp.meta.blocks * PfsBlock, "zero")
<1>1. /\ stage = "payload" /\ stage' = "stored" /\ tmp' = [tmp EXCEPT !.region = filled]
      /\ UNCHANGED wvars /\ UNCHANGED <<size, compress, encrypted, out>>
      /\ tmp \in TmpImage /\ tmp.region \in [Cells -> Marks] /\ Variant = "file" /\ phase # "packed"
      /\ size \in Nat
  BY DEF StoreRaw, BInv, TmpIsImage, TmpImage, Open, RawIsSeekable
<1>2. filled \in [Cells -> Marks]
  BY <1>1, FillType DEF Marks
<1>3. ASSUME NEW p \in Cells, p < size
      PROVE  filled[p] = "source"
  <2>1. p \in Nat /\ 0 <= p
    BY <1>1, CellsReach
  <2>2. copied[p] = "source"
    BY <1>3, <2>1 DEF Fill
  <2>3. filled[p] = IF size <= p /\ p < tmp.meta.blocks * PfsBlock THEN "zero" ELSE copied[p]
    BY DEF Fill
  <2>4. QED
    BY <1>1, <1>3, <2>1, <2>2, <2>3
<1> HIDE DEF filled
<1>4. tmp' \in TmpImage' /\ tmp'.region = filled
  BY <1>1, <1>2, EncoderStill DEF TmpImage
<1>5. TmpIsImage' /\ FrontWritten'
  BY <1>1, <1>4 DEF BInv, TmpIsImage, FrontWritten, Open, TmpImage
<1>6. RawStored'
  BY <1>1, <1>3, <1>4, EncoderStill DEF RawStored
<1>7. RawIsSeekable' /\ EncoderFresh' /\ RegionFollows' /\ PatchedReads' /\ SealedReads'
  BY <1>1, EncoderStill
     DEF BInv, RawIsSeekable, EncoderFresh, RegionFollows, PatchedReads, SealedReads
<1>8. OutReads'
  BY <1>1, EncoderStill DEF BInv, OutReads, ReadsBack
<1>9. QED
  BY <1>5, <1>6, <1>7, <1>8 DEF BInv

(* The metadata is patched to the form that was stored.                    *)
LEMMA PatchBInv == BInv /\ IInv /\ Patch => BInv'
<1> SUFFICES ASSUME BInv, IInv, Patch PROVE BInv'
  OBVIOUS
<1> DEFINE blocks == CeilDiv(StoredSize, PfsBlock)
           meta == [final |-> FileAt + blocks, blocks |-> blocks, size |-> StoredSize,
                    packed |-> phase = "packed", raw |-> size]
           kept == [p \in Cells |-> IF p < blocks * PfsBlock THEN tmp.region[p] ELSE "cut"]
<1>1. /\ PayloadStored /\ stage \in Open /\ stage \in {"payload", "stored"} /\ stage' = "patched"
      /\ tmp' = [tmp EXCEPT !.meta = meta, !.region = kept, !.length = FileAt + blocks]
      /\ UNCHANGED wvars /\ UNCHANGED <<size, compress, encrypted, out>>
      /\ tmp \in TmpImage /\ size \in Nat
  BY DEF Patch, PayloadStored, BInv, TmpIsImage, Open, RawIsSeekable
<1>2. /\ StoredSize \in Nat /\ Cells \subseteq Nat /\ 0..(StoredSize - 1) \subseteq Cells
      /\ HeaderSize(Blocks) \in Nat
  <2>1. CASE phase = "packed"
    BY <1>1, <2>1, CellsReach DEF StoredSize
  <2>2. CASE phase # "packed"
    BY <1>1, <2>2, CellsReach DEF StoredSize, BInv, RawStored, PayloadStored
  <2>3. QED
    BY <2>1, <2>2
<1>3. blocks \in Nat /\ StoredSize <= blocks * PfsBlock /\ blocks * PfsBlock \in Nat
  <2>1. blocks \in Nat /\ blocks * PfsBlock >= StoredSize
    BY <1>2, CeilDivNat, CeilDivCovers, PfsBlockAssumption
  <2> HIDE DEF blocks
  <2>2. QED
    BY <1>2, <2>1, PfsBlockAssumption
<1> HIDE DEF blocks
<1>4. ASSUME NEW p \in 0..(StoredSize - 1)
      PROVE  kept[p] = IF phase # "packed" THEN "source"
                       ELSE IF p < HeaderSize(Blocks) THEN "table" ELSE "pfsc"
  <2>1. p \in Cells /\ p \in Nat /\ p < StoredSize
    BY <1>2
  <2>2. kept[p] = tmp.region[p]
    BY <1>2, <1>3, <2>1
  <2>3. CASE phase # "packed"
    BY <1>1, <2>1, <2>2, <2>3 DEF BInv, RawStored, PayloadStored, StoredSize
  <2>4. CASE phase = "packed"
    <3>1. stage = "payload" /\ p < PayloadEnd
      BY <1>1, <2>1, <2>4 DEF BInv, RawStored, StoredSize
    <3>2. QED
      BY <1>2, <2>1, <2>2, <2>4, <3>1 DEF BInv, RegionFollows
  <2>5. QED
    BY <2>3, <2>4
<1>5. meta \in InodeFields /\ kept \in [Cells -> Marks] /\ FileAt \in Nat
  BY <1>1, <1>2, <1>3, SourceAssumption
     DEF InodeFields, TmpImage, Marks, FileAt, UrootAt, EmptyAt, FptAt, SuperRootAt, InodesAt
<1>6. /\ meta = [final |-> FileAt + blocks, blocks |-> blocks, size |-> StoredSize,
                 packed |-> phase = "packed", raw |-> size]
      /\ meta.packed = (phase = "packed")
  OBVIOUS
<1> HIDE DEF kept, meta
<1>7. /\ tmp' \in TmpImage'
      /\ tmp'.meta = meta /\ tmp'.region = kept /\ tmp'.length = FileAt + blocks
      /\ tmp'.front = tmp.front
  <2>1. FileAt + blocks \in Nat /\ Cells' = Cells
    BY <1>1, <1>3, <1>5, EncoderStill
  <2> HIDE DEF FileAt
  <2>2. QED
    BY <1>1, <1>5, <2>1 DEF TmpImage
<1>8. TmpIsImage' /\ FrontWritten'
  BY <1>1, <1>7 DEF BInv, TmpIsImage, FrontWritten, Open
<1>9. PatchedReads'
  <2>1. /\ tmp'.front[InodesAt] = "inodes" /\ tmp'.front[SuperRootAt] = "super_root"
        /\ tmp'.front[FptAt] = "fpt"       /\ tmp'.front[UrootAt] = "uroot"
    BY <1>1, <1>7 DEF BInv, FrontWritten
  <2>2. /\ tmp'.meta.final = tmp'.length /\ tmp'.length = FileAt + tmp'.meta.blocks
        /\ tmp'.meta.size <= tmp'.meta.blocks * PfsBlock
        /\ tmp'.meta.raw = size
    BY <1>3, <1>6, <1>7
  <2>3. \A p \in 0..(tmp'.meta.size - 1) :
          tmp'.region[p] = IF ~tmp'.meta.packed THEN "source"
                           ELSE IF p < HeaderSize(Blocks) THEN "table" ELSE "pfsc"
    <3>1. tmp'.meta.size = StoredSize /\ tmp'.region = kept
      BY <1>6, <1>7
    <3>2. tmp'.meta.packed = (phase = "packed")
      BY <1>6, <1>7, Zenon
    <3>3. CASE phase = "packed"
      BY <1>4, <3>1, <3>2, <3>3
    <3>4. CASE phase # "packed"
      BY <1>4, <3>1, <3>2, <3>4
    <3>5. QED
      BY <3>3, <3>4
  <2>4. size' = size
    BY <1>1
  <2>5. QED
    BY <2>1, <2>2, <2>3, <2>4 DEF PatchedReads, PlainReadsBack
<1>10. RawIsSeekable' /\ EncoderFresh' /\ RegionFollows' /\ RawStored' /\ SealedReads'
  BY <1>1, EncoderStill
     DEF BInv, RawIsSeekable, EncoderFresh, RegionFollows, RawStored, SealedReads
<1>11. OutReads'
  BY <1>1, EncoderStill DEF BInv, OutReads, ReadsBack
<1>12. QED
  BY <1>8, <1>9, <1>10, <1>11 DEF BInv

(* Encryption, validation, the move and the last message.                  *)
LEMMA PublishBInv == BInv /\ IInv /\ (Encrypt \/ Validate \/ Move \/ Announce) => BInv'
<1> SUFFICES ASSUME BInv, IInv, Encrypt \/ Validate \/ Move \/ Announce PROVE BInv'
  OBVIOUS
<1>1. UNCHANGED wvars /\ UNCHANGED <<size, compress, encrypted>>
  BY DEF Encrypt, Validate, Move, Announce
<1>2. RawIsSeekable' /\ EncoderFresh' /\ RegionFollows' /\ RawStored'
  BY <1>1, EncoderStill
     DEF BInv, RawIsSeekable, EncoderFresh, RegionFollows, RawStored, Encrypt,
         Validate, Move, Announce
<1>3. CASE Encrypt
  <2> DEFINE sealed == IF encrypted THEN (InodesAt..(tmp.length - 1)) \ {EmptyAt} ELSE {}
  <2>1. /\ stage = "patched" /\ stage' = "sealed" /\ tmp' = [tmp EXCEPT !.sealed = sealed]
        /\ out' = out /\ tmp \in TmpImage /\ PlainReadsBack(tmp)
    BY <1>3 DEF Encrypt, BInv, TmpIsImage, PatchedReads, Open
  <2>2. tmp.length \in Nat /\ sealed \in SUBSET Nat
    BY <2>1 DEF TmpImage, InodesAt
  <2>3. \A b \in {InodesAt, SuperRootAt, FptAt, UrootAt} \cup (FileAt..(tmp.length - 1)) :
          b \in sealed <=> encrypted
    <3>1. tmp.length \in Nat /\ tmp.length >= FileAt
      BY <2>1
         DEF PlainReadsBack, TmpImage, InodeFields,
             FileAt, UrootAt, EmptyAt, FptAt, SuperRootAt, InodesAt
    <3>2. QED
      BY <3>1 DEF FileAt, UrootAt, EmptyAt, FptAt, SuperRootAt, InodesAt
  <2> HIDE DEF sealed
  <2>4. /\ tmp' \in TmpImage' /\ tmp'.sealed = sealed /\ tmp'.front = tmp.front
        /\ tmp'.meta = tmp.meta /\ tmp'.region = tmp.region /\ tmp'.length = tmp.length
    BY <1>1, <2>1, <2>2, EncoderStill DEF TmpImage
  <2>5. PlainReadsBack(tmp)' /\ ReadsBack(tmp)'
    <3>1. HeaderSize(Blocks)' = HeaderSize(Blocks) /\ encrypted' = encrypted /\ size' = size
      BY <1>1, EncoderStill
    <3>2. PlainReadsBack(tmp)'
      BY <2>1, <2>4, <3>1 DEF PlainReadsBack
    <3>3. QED
      BY <2>3, <2>4, <3>1, <3>2 DEF PlainReadsBack, ReadsBack
  <2>6. TmpIsImage' /\ FrontWritten' /\ PatchedReads' /\ SealedReads'
    BY <2>1, <2>4, <2>5 DEF BInv, TmpIsImage, FrontWritten, PatchedReads, SealedReads, Open
  <2>7. OutReads'
    BY <1>1, <2>1, EncoderStill DEF BInv, OutReads, ReadsBack
  <2>8. QED
    BY <1>2, <2>6, <2>7 DEF BInv
<1>4. CASE Validate
  <2>1. /\ stage = "sealed" /\ stage' = "validated" /\ UNCHANGED <<tmp, out>>
    BY <1>4 DEF Validate
  <2>2. TmpIsImage' /\ FrontWritten' /\ PatchedReads' /\ SealedReads' /\ OutReads'
    BY <1>1, <2>1, EncoderStill
       DEF BInv, TmpIsImage, FrontWritten, PatchedReads, SealedReads, OutReads, Open,
           TmpImage, PlainReadsBack, ReadsBack
  <2>3. QED
    BY <1>2, <2>2 DEF BInv
<1>5. CASE Move \/ Announce
  <2>1. stage' \notin Open
    BY <1>5 DEF Move, Announce, Open
  <2>2. TmpIsImage' /\ FrontWritten' /\ PatchedReads' /\ SealedReads'
    BY <2>1 DEF TmpIsImage, FrontWritten, PatchedReads, SealedReads, Open
  <2>3. OutReads'
    <3>1. out' = out \/ (out' = tmp /\ ReadsBack(tmp) /\ tmp.meta.raw = size)
      BY <1>5 DEF Move, Announce, BInv, SealedReads, PatchedReads, PlainReadsBack
    <3>2. QED
      BY <1>1, <3>1, EncoderStill DEF BInv, OutReads, ReadsBack
  <2>4. QED
    BY <1>2, <2>2, <2>3 DEF BInv
<1>6. QED
  BY <1>3, <1>4, <1>5

(* Ends and errors do not touch the output.                                *)
LEMMA EndBInv == BInv /\ (Refuse \/ DryRun \/ Unwind \/ Raise \/ HandlerRaises \/ Kill) => BInv'
<1> SUFFICES ASSUME BInv, Refuse \/ DryRun \/ Unwind \/ Raise \/ HandlerRaises \/ Kill PROVE BInv'
  OBVIOUS
<1>1. /\ UNCHANGED wvars /\ UNCHANGED <<size, compress, encrypted, out>>
      /\ stage' \in {"refused", "reported", "raised", "unwind", "stuck", "killed"}
  BY DEF Refuse, DryRun, Unwind, Raise, HandlerRaises, Kill
<1>2. TmpIsImage' /\ FrontWritten' /\ EncoderFresh' /\ RegionFollows' /\ RawStored'
      /\ PatchedReads' /\ SealedReads'
  BY <1>1
     DEF TmpIsImage, FrontWritten, EncoderFresh, RegionFollows, RawStored, PatchedReads,
         SealedReads, Open
<1>3. RawIsSeekable' /\ OutReads'
  BY <1>1, EncoderStill DEF BInv, RawIsSeekable, OutReads, ReadsBack
<1>4. QED
  BY <1>2, <1>3 DEF BInv

-----------------------------------------------------------------------------
(* Theorems about the image                                                *)

(* The strengthened invariant is preserved by every step.                  *)
LEMMA StepBInv == BInv /\ IInv /\ IInv' /\ [StreamNext]_vars => BInv'
<1> SUFFICES ASSUME BInv, IInv, IInv', [StreamNext]_vars PROVE BInv'
  OBVIOUS
<1>1. [Next]_wvars
  BY StepKeepsEncoder
<1>2. CASE EncoderStep(Driver)
  BY <1>1, <1>2, EncoderBInv DEF EncoderStep
<1>3. CASE EncoderStep(SourceRaises)
  BY <1>1, <1>3, EncoderBInv DEF EncoderStep
<1>4. ASSUME NEW w \in Workers, EncoderStep(Take(w) \/ Complete(w) \/ Die(w))
      PROVE  BInv'
  BY <1>1, <1>4, EncoderBInv DEF EncoderStep
<1>5. CASE OpenTmp \/ WriteFront
  BY <1>5, FrontBInv
<1>6. CASE StoreRaw
  BY <1>6, StoreRawBInv
<1>7. CASE Patch
  BY <1>7, PatchBInv
<1>8. CASE Encrypt \/ Validate \/ Move \/ Announce
  BY <1>8, PublishBInv
<1>9. CASE Refuse \/ DryRun \/ Unwind \/ Raise \/ HandlerRaises \/ Kill
  BY <1>9, EndBInv
<1>10. CASE UNCHANGED vars
  <2>1. UNCHANGED wvars /\ UNCHANGED <<stage, size, compress, encrypted, tmp, out>>
    BY <1>10 DEF vars, ivars
  <2>2. QED
    BY <2>1, EncoderStill
       DEF BInv, TmpIsImage, RawIsSeekable, FrontWritten, EncoderFresh, RegionFollows, RawStored,
           PatchedReads, SealedReads, OutReads, TmpImage, PlainReadsBack, ReadsBack
<1>11. QED
  BY <1>2, <1>3, <1>4, <1>5, <1>6, <1>7, <1>8, <1>9, <1>10 DEF StreamNext, Builder

(* What the output name shows reads back, for every encoder, block size    *)
(* and source, wherever the builder fails, is cancelled or is killed, and  *)
(* whatever the source does between the two stat() calls, but for one: a   *)
(* file that lost a block then is refused by the decoder.                  *)
THEOREM WholeOutput == StreamSpec => []PublishedReadsBack
<1>1. BInv => PublishedReadsBack
  <2> SUFFICES ASSUME BInv, out.kind = "image", BlockCount(size) <= Blocks
               PROVE  size <= Blocks * BlockSize
    BY DEF BInv, OutReads, PublishedReadsBack, Decodes
  <2>1. size \in Nat /\ Blocks \in Nat /\ BlockSize \in Nat \ {0}
    BY BlocksNat, FormatAssumption DEF BInv, RawIsSeekable
  <2> DEFINE c == BlockCount(size)
  <2>2. c \in Nat /\ size <= c * BlockSize
    BY <2>1, BlockCountNat, CeilDivCovers DEF BlockCount
  <2> HIDE DEF c
  <2>3. c * BlockSize <= Blocks * BlockSize
    <3>1. PICK d \in Nat : Blocks = c + d
      <4>1. c <= Blocks
        BY DEF c
      <4> QED BY <2>1, <2>2, <4>1
    <3>2. Blocks * BlockSize = c * BlockSize + d * BlockSize /\ d * BlockSize \in Nat
      BY <2>1, <2>2, <3>1
    <3>3. c * BlockSize \in Nat
      BY <2>1, <2>2
    <3> QED BY <3>2, <3>3
  <2> QED BY <2>1, <2>2, <2>3
<1>2. QED
  BY EncoderUnchanged, Invariance, InitBInv, StepBInv, <1>1, PTL DEF StreamSpec

(* No error leaves a .tmp behind that can be removed.                      *)
THEOREM ErrorsCleanUp == StreamSpec => []NoTmpAfterEnd
<1> DEFINE Clean == stage \in {"moved", "done", "raised"} => tmp = NoFile
<1>1. StreamInit => Clean
  BY DEF StreamInit
<1>2. Clean /\ [StreamNext]_vars => Clean'
  <2> SUFFICES ASSUME Clean, [StreamNext]_vars PROVE Clean'
    OBVIOUS
  <2>1. CASE stage' \notin {"moved", "done", "raised"}
    BY <2>1
  <2>2. CASE Move \/ Announce \/ Unwind
    BY <2>2 DEF Move, Announce, Unwind
  <2>3. CASE UNCHANGED <<stage, tmp>>
    BY <2>3
  <2>4. \/ stage' \notin {"moved", "done", "raised"}
        \/ Move \/ Announce \/ Unwind \/ UNCHANGED <<stage, tmp>>
    BY DEF StreamNext, Builder, EncoderStep, Refuse, DryRun, OpenTmp, WriteFront, StoreRaw, Patch,
           Encrypt, Validate, Raise, HandlerRaises, Kill, vars, ivars
  <2>5. QED
    BY <2>1, <2>2, <2>3, <2>4
<1>3. Clean => NoTmpAfterEnd
  BY DEF NoTmpAfterEnd
<1>4. QED
  BY <1>1, <1>2, <1>3, PTL DEF StreamSpec

-----------------------------------------------------------------------------
(* The dry run                                                             *)

(* The encoder's verdict is that of its loop over the whole file, and the  *)
(* inode is patched by it.                                                 *)
VerdictKnown ==
  /\ Variant = "file" /\ phase \in {"packed", "raw"} =>
       /\ Len(image) = Blocks
       /\ phase = "packed" <=> KeepsPayload(PackedBlocks, PayloadEnd, RawSize)
  /\ stage \in {"stored", "patched"} => (compress <=> phase \in {"packed", "raw"})
  /\ compress \in BOOLEAN
  /\ stage = "patched" =>
       tmp.meta.size = StoredSize /\ (tmp.meta.packed <=> phase = "packed")

LEMMA VerdictInit == StreamInit => VerdictKnown
  BY DEF StreamInit, Init, SInit, VerdictKnown

LEMMA VerdictStep == BInv /\ IInv /\ VerdictKnown /\ [StreamNext]_vars => VerdictKnown'
<1> SUFFICES ASSUME BInv, IInv, VerdictKnown, [StreamNext]_vars PROVE VerdictKnown'
  OBVIOUS
<1> DEFINE Loop == Variant = "file" /\ phase \in {"packed", "raw"} =>
                     /\ Len(image) = Blocks
                     /\ phase = "packed" <=> KeepsPayload(PackedBlocks, PayloadEnd, RawSize)
<1>1. Loop'
  <2>1. CASE Finish
    BY <2>1 DEF Finish, Outcome, SourceBlocks, Blocks, BlockCount, CeilDiv, KeepsPayload,
                PackedBlocks, PayloadEnd
  <2>2. CASE UNCHANGED <<image, offsets, phase>>
    BY <2>2 DEF VerdictKnown, Blocks, BlockCount, CeilDiv, KeepsPayload, PackedBlocks, PayloadEnd
  <2>3. CASE phase' \notin {"packed", "raw"}
    BY <2>3
  <2>4. Finish \/ UNCHANGED <<image, offsets, phase>> \/ phase' \notin {"packed", "raw"}
    <3>1. [Next]_wvars
      BY StepKeepsEncoder
    <3> QED BY <3>1 DEF Next, Driver, Submit, WriteOldest, RaiseOldest, PoolExit, SourceRaises,
                        Take, Complete, Die, wvars
  <2> HIDE DEF Loop
  <2> QED BY <2>1, <2>2, <2>3, <2>4
<1>2. ASSUME NEW A, EncoderStep(A)
      PROVE  stage' = "payload" /\ compress' = compress
  BY <1>2 DEF EncoderStep
<1>3. CASE stage' \notin {"stored", "patched"} /\ compress' = compress
  BY <1>1, <1>3 DEF VerdictKnown
<1>4. CASE StoreRaw
  <2>1. /\ stage' = "stored" /\ phase' = phase /\ compress' = compress
        /\ ~compress \/ phase = "raw"
    BY <1>4 DEF StoreRaw, wvars
  <2>2. ~compress => phase = "encoding"
    BY DEF BInv, RawIsSeekable
  <2> QED BY <1>1, <2>1, <2>2 DEF VerdictKnown
<1>5. CASE Patch
  <2>1. /\ stage' = "patched" /\ phase' = phase /\ compress' = compress
        /\ PayloadStored /\ offsets' = offsets /\ size' = size
    BY <1>5 DEF Patch, wvars
  <2>2. compress <=> phase \in {"packed", "raw"}
    BY <2>1 DEF VerdictKnown, PayloadStored
  <2>3. tmp'.meta.size = StoredSize /\ tmp'.meta.packed = (phase = "packed")
    <3>1. tmp \in TmpImage
      BY <2>1 DEF BInv, TmpIsImage, Open, PayloadStored
    <3> QED BY <1>5, <3>1 DEF Patch, TmpImage
  <2>4. StoredSize' = StoredSize
    BY <2>1 DEF StoredSize, PayloadEnd
  <2> QED BY <1>1, <2>1, <2>2, <2>3, <2>4 DEF VerdictKnown
<1>6. CASE UNCHANGED vars
  BY <1>1, <1>6 DEF VerdictKnown, vars, wvars, ivars, StoredSize, PayloadEnd
<1>7. \/ stage' \notin {"stored", "patched"} /\ compress' = compress
      \/ StoreRaw \/ Patch \/ UNCHANGED vars
  BY <1>2 DEF StreamNext, Builder, Refuse, DryRun, OpenTmp, WriteFront, Encrypt,
              Validate, Move, Announce, Raise, Unwind, HandlerRaises, Kill
<1> QED BY <1>3, <1>4, <1>5, <1>6, <1>7

(* What the analysis adds up over a whole file is where the encoder's last *)
(* block ends.                                                             *)
LEMMA AnalysisIsPayloadEnd ==
  ASSUME IInv, Len(image) = Blocks
  PROVE  AnalyzedSize = PayloadEnd
<1>1. PICK n \in Nat : n = Blocks
  BY BlocksNat
<1> DEFINE Adds(f) == f = [k \in 0..Blocks |-> 
                             IF k = 0 THEN HeaderSize(Blocks)
                             ELSE f[k - 1] + StoredLen(clen[k])]
           total == CHOOSE f : Adds(f)
           ends == [k \in 0..n |-> offsets[k + 1]]
<1>2. /\ Len(offsets) = n + 1 /\ offsets[1] = HeaderSize(Blocks)
      /\ \A k \in 1..n : offsets[k + 1] = offsets[k] + StoredLen(clen[k])
  BY <1>1 DEF IInv, ImageIsSourcePrefix
<1>3. Adds(ends)
  <2> SUFFICES ASSUME NEW k \in 0..n
               PROVE  ends[k] = IF k = 0 THEN HeaderSize(Blocks)
                                ELSE ends[k - 1] + StoredLen(clen[k])
    BY <1>1
  <2>1. CASE k = 0
    BY <1>2, <2>1
  <2>2. CASE k # 0
    <3>1. k \in 1..n /\ k - 1 \in 0..n /\ (k - 1) + 1 = k
      BY <2>2
    <3> QED BY <1>2, <2>2, <3>1
  <2> QED BY <2>1, <2>2
<1>4. Adds(total)
  <2> HIDE DEF Adds, ends
  <2> QED BY <1>3
<1>5. \A k \in 0..n : total[k] = ends[k]
  <2> DEFINE S == {k \in 0..n : total[k] # ends[k]}
  <2> SUFFICES ASSUME S # {} PROVE FALSE
    OBVIOUS
  <2>1. PICK k \in S : \A j \in S : k <= j
    <3> HIDE DEF total, ends
    <3>1. S \subseteq Nat
      OBVIOUS
    <3> HIDE DEF S
    <3> QED BY <3>1, LeastElement
  <2>2. \A f : Adds(f) => \A j \in 0..n : f[j] = IF j = 0 THEN HeaderSize(Blocks)
                                               ELSE f[j - 1] + StoredLen(clen[j])
    BY <1>1
  <2> HIDE DEF Adds, total, ends
  <2>3. k # 0
    BY <1>3, <1>4, <2>1, <2>2
  <2>4. k - 1 \in 0..n /\ ~(k - 1 \in S)
    BY <2>1, <2>3
  <2>5. total[k - 1] = ends[k - 1]
    BY <2>4
  <2>6. total[k] = ends[k]
    BY <1>3, <1>4, <2>1, <2>2, <2>3, <2>5
  <2> QED BY <2>1, <2>6
<1>6. AnalyzedSize = total[n]
  BY <1>1, Zenon DEF AnalyzedSize
<1>7. ends[n] = PayloadEnd
  BY <1>2 DEF PayloadEnd
<1> QED BY <1>5, <1>6, <1>7

(* A dry run reports the stored size and the verdict the build of the same *)
(* file arrives at, for every file, block size and threshold, and whatever *)
(* the pool: _analyze_pfsc_file_storage and the encoder share no code.     *)
THEOREM DryRunIsRight == StreamSpec => []DryRunForetells
<1>1. BInv /\ IInv /\ VerdictKnown => DryRunForetells
  <2> SUFFICES ASSUME BInv, IInv, VerdictKnown, Variant = "file", size = RawSize, stage = "patched"
               PROVE  /\ tmp.meta.size = Analysis
                      /\ tmp.meta.packed <=> Analysis # size
    BY DEF DryRunForetells
  <2>1. /\ tmp.meta.size = StoredSize /\ (tmp.meta.packed <=> phase = "packed")
        /\ compress <=> phase \in {"packed", "raw"}
    BY DEF VerdictKnown
  <2>2. CASE ~compress
    BY <2>1, <2>2 DEF Analysis, StoredSize
  <2>3. CASE compress
    <3>1. Len(image) = Blocks /\ (phase = "packed" <=> KeepsPayload(PackedBlocks, PayloadEnd, RawSize))
      BY <2>1, <2>3 DEF VerdictKnown
    <3>2. AnalyzedSize = PayloadEnd
      BY <3>1, AnalysisIsPayloadEnd
    <3>3. PackedBlocks = Cardinality({b \in 1..Blocks : StoresPacked(clen[b])})
      <4>1. \A k \in 1..Blocks : image[k].packed <=> StoresPacked(clen[k])
        BY <3>1 DEF IInv, ImageIsSourcePrefix, Stored
      <4>2. {k \in 1..Len(image) : image[k].packed} = {b \in 1..Blocks : StoresPacked(clen[b])}
        BY <3>1, <4>1
      <4> QED BY <4>2 DEF PackedBlocks
    <3>4. Analysis = IF phase = "packed" THEN PayloadEnd ELSE RawSize
      BY <2>3, <3>1, <3>2, <3>3 DEF Analysis
    <3>5. phase = "packed" => PayloadEnd < RawSize
      BY <3>1 DEF KeepsPayload
    <3>6. PayloadEnd \in Nat
      BY CellsReach DEF BInv, RawIsSeekable
    <3> QED BY <2>1, <3>4, <3>5, <3>6, SourceAssumption DEF StoredSize
  <2> QED BY <2>2, <2>3
<1> QED BY EncoderUnchanged, Invariance, InitBInv, StepBInv, VerdictInit, VerdictStep, <1>1, PTL
        DEF StreamSpec
=============================================================================
