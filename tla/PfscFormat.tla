----------------------------- MODULE PfscFormat -----------------------------
(***************************************************************************)
(* The PFSC container of mkpfs/pfs.py as pure operators: the size of the   *)
(* header, the per-block choice between zlib bytes and padded raw bytes,   *)
(* the whole-file verdict and what the decoder makes of a stored span.     *)
(* Bytes are abstracted to lengths: a logical block b has a zlib length    *)
(* and is stored either packed (zlib) or plain (padded to the block size). *)
(***************************************************************************)
EXTENDS Integers, Sequences

CONSTANTS
  BlockSize,      \* PFSC_LOGICAL_BLOCK_SIZE
  TableOffset,    \* PFSC_BLOCK_OFFSETS_OFFSET
  EntrySize,      \* PFSC_OFFSET_ENTRY_SIZE
  DataOffset,     \* PFSC_INITIAL_DATA_OFFSET
  ThresholdGain,  \* minimum per-block gain, percent
  MinFileGain     \* minimum whole-file gain, percent

ASSUME FormatAssumption ==
  /\ BlockSize \in Nat \ {0}
  /\ TableOffset \in Nat
  /\ EntrySize \in Nat \ {0}
  /\ DataOffset \in Nat
  /\ TableOffset <= DataOffset
  /\ ThresholdGain \in 0..100
  /\ MinFileGain \in 0..100

CeilDiv(n, d) == (n + d - 1) \div d

BlockCount(rawSize) == CeilDiv(rawSize, BlockSize)

(* The offset table has one entry more than there are blocks; what does    *)
(* not fit between TableOffset and DataOffset takes whole extra blocks.    *)
HeaderSize(blocks) ==
  LET table == (blocks + 1) * EntrySize
      room  == DataOffset - TableOffset
  IN  IF table > room
      THEN DataOffset + CeilDiv(table - room, BlockSize) * BlockSize
      ELSE DataOffset

(* Mutant: a block whose zlib bytes are as long as the block is packed.    *)
StoresPackedAtEqualSize(clen) ==
  /\ clen <= BlockSize
  /\ (BlockSize - clen) * 100 >= ThresholdGain * BlockSize

(* gain_pct >= threshold_gain, cleared of its float division.              *)
StoresPacked(clen) ==
  /\ clen < BlockSize
  /\ (BlockSize - clen) * 100 >= ThresholdGain * BlockSize

(* Mutant: the zlib bytes are stored even when they outgrew the block.     *)
StoredLenAlwaysZlib(clen) == clen

StoredLen(clen) == IF StoresPacked(clen) THEN clen ELSE BlockSize

(* The bytes a spool of this raw size may take while it is being written:  *)
(* what the free-space preflight of the pack commands asks for.            *)
SpoolEstimate(rawSize) ==
  IF rawSize = 0 THEN 0
  ELSE HeaderSize(BlockCount(rawSize)) + BlockCount(rawSize) * BlockSize

(* The encoder keeps the payload only if some block shrank, the whole is   *)
(* smaller than the source, and the gain reaches the per-file minimum.     *)
KeepsPayload(packedBlocks, encodedSize, rawSize) ==
  /\ packedBlocks > 0
  /\ encodedSize < rawSize
  /\ (rawSize - encodedSize) * 100 >= MinFileGain * rawSize

(* The decoder tells the two storage forms apart by the span alone.        *)
DecodesAs(span) ==
  IF span = BlockSize THEN "plain"
  ELSE IF span < BlockSize THEN "packed"
  ELSE "error"

(* decode_pfsc_payload accepts the table and never reads past the payload. *)
TableAccepted(offsets, payloadSize, blocks, dataStart) ==
  /\ dataStart <= payloadSize
  /\ TableOffset + (blocks + 1) * EntrySize <= dataStart
  /\ Len(offsets) = blocks + 1
  /\ offsets[1] = dataStart
  /\ offsets[Len(offsets)] <= payloadSize
  /\ \A i \in 1..blocks : offsets[i] <= offsets[i + 1]
=============================================================================
