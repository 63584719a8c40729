----------------------------- MODULE PfscSerial -----------------------------
(***************************************************************************)
(* What a PFSC encoder promises: the single-worker loop shared by          *)
(* _encode_pfsc_stream_into_handle and _encode_pfsc_into_handle, which     *)
(* takes the source blocks one after the other, appends each one's stored  *)
(* form and its end offset, and decides at the end.  PfscWindow, the       *)
(* pooled branch of the same two functions, is shown to implement it.      *)
(***************************************************************************)
EXTENDS PfscFormat, FiniteSets

CONSTANTS
  Variant,          \* "stream" (forward iterator) or "file" (seekable source)
  RawSize,          \* the size the caller declares, or the encoder's own stat()
  SourceLens,       \* lengths the source may turn out to have when it is read
  CompressedLens    \* zlib lengths a padded block may have

ASSUME SourceAssumption ==
  /\ Variant \in {"stream", "file"}
  /\ RawSize \in Nat \ {0}
  /\ SourceLens \subseteq Nat
  /\ CompressedLens \subseteq Nat

VARIABLES
  srcLen,    \* length of the source as read (input)
  clen,      \* zlib length of every source block (input)
  image,     \* stored blocks in file order: [block, packed]
  offsets,   \* the block offset table being collected
  phase      \* "encoding", then "packed", "raw" or "failed"

svars == <<srcLen, clen, image, offsets, phase>>

Blocks == BlockCount(RawSize)

(* A forward stream yields as many blocks as it has bytes for; the file    *)
(* loop runs over range(block_count) and pads what it cannot read.         *)
SourceBlocks == IF Variant = "stream" THEN BlockCount(srcLen) ELSE Blocks

Stored(b) == [block |-> b, packed |-> StoresPacked(clen[b])]

PackedBlocks == Cardinality({k \in 1..Len(image) : image[k].packed})

PayloadEnd == offsets[Len(offsets)]

AppendBlock(b) ==
  /\ image' = Append(image, Stored(b))
  /\ offsets' = Append(offsets, PayloadEnd + StoredLen(clen[b]))

(* The decision after the last block: the stream variant compares the      *)
(* number of blocks it saw, the file variant may fall back to raw.         *)
Outcome ==
  IF Variant = "stream"
  THEN IF Len(image) = Blocks THEN "packed" ELSE "failed"
  ELSE IF KeepsPayload(PackedBlocks, PayloadEnd, RawSize) THEN "packed" ELSE "raw"

SInit ==
  /\ srcLen \in SourceLens
  /\ clen \in [1..SourceBlocks -> CompressedLens]
  /\ image = <<>>
  /\ offsets = <<HeaderSize(Blocks)>>
  /\ phase = "encoding"

(* One turn of the loop; progress_callback may raise after the write.      *)
SEncode ==
  /\ phase = "encoding"
  /\ Len(image) < SourceBlocks
  /\ AppendBlock(Len(image) + 1)
  /\ phase' \in {"encoding", "failed"}
  /\ UNCHANGED <<srcLen, clen>>

(* The source, zlib or the output raises before the block is recorded.     *)
SFail ==
  /\ phase = "encoding"
  /\ phase' = "failed"
  /\ UNCHANGED <<srcLen, clen, image, offsets>>

SFinish ==
  /\ phase = "encoding"
  /\ Len(image) = SourceBlocks
  /\ phase' = Outcome
  /\ UNCHANGED <<srcLen, clen, image, offsets>>

SNext == SEncode \/ SFail \/ SFinish

SSpec == SInit /\ [][SNext]_svars

-----------------------------------------------------------------------------
(* Properties                                                              *)

StoredBlock == [block : 1..SourceBlocks, packed : BOOLEAN]

(* The variables shared with the pooled branch keep their shape.           *)
STypeOK ==
  /\ srcLen \in SourceLens
  /\ clen \in [1..SourceBlocks -> CompressedLens]
  /\ image \in Seq(StoredBlock)
  /\ offsets \in Seq(Nat)
  /\ phase \in {"encoding", "unwinding", "packed", "raw", "failed"}

(* Whatever was written so far is a prefix of the source: the k-th stored  *)
(* block is block k, and the table holds the span it occupies.             *)
ImageIsSourcePrefix ==
  /\ Len(image) <= SourceBlocks
  /\ Len(offsets) = Len(image) + 1
  /\ offsets[1] = HeaderSize(Blocks)
  /\ \A k \in 1..Len(image) :
       /\ image[k] = Stored(k)
       /\ offsets[k + 1] = offsets[k] + StoredLen(clen[k])

(* A payload the encoder kept is accepted by decode_pfsc_payload and every *)
(* logical block is read back in the form it was written in.               *)
PackedPayloadDecodes ==
  phase = "packed" =>
    /\ TableAccepted(offsets, PayloadEnd, Blocks, HeaderSize(Blocks))
    /\ \A k \in 1..Blocks :
         /\ image[k].block = k
         /\ DecodesAs(offsets[k + 1] - offsets[k])
              = IF image[k].packed THEN "packed" ELSE "plain"

(* The free-space preflight asks for enough: at no time does the spool of  *)
(* a file reach beyond the estimate made from its stat() size.             *)
SpoolWithinEstimate ==
  Variant = "file" => PayloadEnd <= SpoolEstimate(RawSize)

=============================================================================
