---------------------------- MODULE StreamImage ----------------------------
(***************************************************************************)
(* The spool-free builders of mkpfs/pfs.py: build_pfs_stream_single_file   *)
(* (Variant "file") and build_pfs_stream_from_exfat (Variant "stream").    *)
(* They write provisional metadata into <output>.tmp, let the encoder of   *)
(* PfscWindow put the payload straight into its final region, store the    *)
(* source raw over that region when the encoder declines, patch the        *)
(* metadata, truncate, encrypt, validate and move the file into place.     *)
(* The size of a single file is taken twice: the builder's own stat() is   *)
(* `size', the one _encode_pfsc_into_handle makes later is RawSize, and    *)
(* the file may have changed in between.                                   *)
(***************************************************************************)
EXTENDS PfscWindow

CONSTANTS
  PfsBlock,    \* block size of the PFS image
  StatSizes    \* sizes the builder's own stat() may have seen

ASSUME PfsBlockAssumption == PfsBlock \in Nat \ {0}

ASSUME StatAssumption == StatSizes \subseteq Nat \ {0}

VARIABLES
  stage,      \* where the builder is
  size,       \* raw_size of the builder (input)
  compress,   \* should_compress: the file is eligible (input)
  encrypted,  \* the image is to be encrypted (input)
  tmp,        \* the file <output>.tmp
  out         \* the file under the output name

ivars == <<stage, size, compress, encrypted, tmp, out>>
vars == <<wvars, ivars>>

NoFile == [kind |-> "none"]
Leftover == [kind |-> "leftover"]   \* .tmp of a run that was killed
Earlier == [kind |-> "earlier"]     \* output of an earlier run

Ended == {"refused", "reported", "done", "raised", "stuck", "killed"}

-----------------------------------------------------------------------------
(* Block numbers.  Four inodes, one path and three dirents fit one block   *)
(* each for every block size the command line accepts.                     *)

HeaderAt == 0
InodesAt == 1
SuperRootAt == InodesAt + 1
FptAt == SuperRootAt + 1
EmptyAt == FptAt + 1          \* stands for the absent collision resolver
UrootAt == EmptyAt + 1
FileAt == UrootAt + 1

Provisional == [final |-> 0, blocks |-> 1, size |-> 0, packed |-> FALSE, raw |-> 0]

(* The payload region, in bytes from file.db[0] * block size.              *)
Cells == 0..(HeaderSize(Blocks) + (SourceBlocks + 1) * BlockSize + size + PfsBlock)

Fill(region, from, to, what) ==
  [p \in Cells |-> IF from <= p /\ p < to THEN what ELSE region[p]]

Hole == [p \in Cells |-> "zero"]

StreamInit ==
  /\ Init
  /\ stage = "start"
  /\ size \in IF Variant = "stream" THEN {RawSize} ELSE StatSizes
  /\ compress \in BOOLEAN
  /\ Variant = "stream" => compress
  /\ encrypted \in BOOLEAN
  /\ tmp \in {NoFile, Leftover}
  /\ out \in {NoFile, Earlier}

-----------------------------------------------------------------------------
(* Before anything is written                                              *)

(* The source is missing, or the exFAT layout cannot be planned.           *)
Refuse ==
  /\ stage = "start"
  /\ stage' = "refused"
  /\ UNCHANGED <<wvars, size, compress, encrypted, tmp, out>>

(* dry_run: the storage decision is measured and nothing is written.       *)
DryRun ==
  /\ stage = "start"
  /\ Variant = "file"
  /\ stage' = "reported"
  /\ UNCHANGED <<wvars, size, compress, encrypted, tmp, out>>

(* open("w+b") truncates whatever a killed run has left.                   *)
OpenTmp ==
  /\ stage = "start"
  /\ stage' = "front"
  /\ tmp' = [kind |-> "image", front |-> [b \in 0..UrootAt |-> "zero"],
             meta |-> Provisional, region |-> Hole, length |-> 0, sealed |-> {}]
  /\ UNCHANGED <<wvars, size, compress, encrypted, out>>

(* Header, inode table, super root, path table and root directory, each    *)
(* at the block its inode points to.                                       *)
WriteFront ==
  /\ stage = "front"
  /\ stage' = "payload"
  /\ tmp' = [tmp EXCEPT !.front =
              [b \in 0..UrootAt |->
                CASE b = HeaderAt    -> "header"
                  [] b = InodesAt    -> "inodes"
                  [] b = SuperRootAt -> "super_root"
                  [] b = FptAt       -> "fpt"
                  [] b = EmptyAt     -> "zero"
                  [] b = UrootAt     -> "uroot"]]
  /\ UNCHANGED <<wvars, size, compress, encrypted, out>>

-----------------------------------------------------------------------------
(* The payload                                                             *)

EncoderStep(A) ==
  /\ stage = "payload"
  /\ compress
  /\ A
  /\ tmp' = [tmp EXCEPT !.region =
              IF phase' = "packed"
              THEN Fill(@, 0, HeaderSize(Blocks), "table")
              ELSE Fill(@, PayloadEnd, offsets'[Len(offsets')], "pfsc")]
  /\ UNCHANGED <<stage, size, compress, encrypted, out>>

(* The source is copied over the region, whatever the encoder left there,  *)
(* and the rest of the inode's one provisional block is zeroed.  A source  *)
(* that has become shorter makes _copy_exact_bytes raise instead.          *)
StoreRaw ==
  /\ stage = "payload"
  /\ ~compress \/ phase = "raw"
  /\ srcLen >= size
  /\ stage' = "stored"
  /\ tmp' = [tmp EXCEPT !.region =
              Fill(Fill(@, 0, size, "source"),
                   size, tmp.meta.blocks * PfsBlock, "zero")]
  /\ UNCHANGED <<wvars, size, compress, encrypted, out>>

PayloadStored == stage = "stored" \/ (stage = "payload" /\ compress /\ phase = "packed")

StoredSize == IF phase = "packed" THEN PayloadEnd ELSE size

(* Mutant: the file is cut after the provisional block.                    *)
PatchProvisional ==
  /\ PayloadStored
  /\ stage' = "patched"
  /\ tmp' = [tmp EXCEPT
       !.meta = [final |-> FileAt + 1, blocks |-> 1, size |-> StoredSize,
                 packed |-> phase = "packed", raw |-> size],
       !.region = Fill(@, PfsBlock, size + PfsBlock, "cut"),
       !.length = FileAt + 1]
  /\ UNCHANGED <<wvars, size, compress, encrypted, out>>

(* The inode gets its sizes, header and inode table are written again and  *)
(* the file is truncated, or extended with zeros, to final_ndblock blocks. *)
Patch ==
  /\ PayloadStored
  /\ stage' = "patched"
  /\ LET blocks == CeilDiv(StoredSize, PfsBlock)
     IN  tmp' = [tmp EXCEPT
           !.meta = [final |-> FileAt + blocks, blocks |-> blocks, size |-> StoredSize,
                     packed |-> phase = "packed", raw |-> size],
           !.region = [p \in Cells |-> IF p < blocks * PfsBlock THEN @[p] ELSE "cut"],
           !.length = FileAt + blocks]
  /\ UNCHANGED <<wvars, size, compress, encrypted, out>>

(* encrypt_image_filesystem: every block after the header but the empty    *)
(* one is encrypted in place.                                              *)
Encrypt ==
  /\ stage = "patched"
  /\ stage' = "sealed"
  /\ tmp' = [tmp EXCEPT !.sealed =
              IF encrypted THEN (InodesAt..(tmp.length - 1)) \ {EmptyAt} ELSE {}]
  /\ UNCHANGED <<wvars, size, compress, encrypted, out>>

-----------------------------------------------------------------------------
(* Publication                                                             *)

(* validate_image_quick parses the header and the inodes it just wrote; it *)
(* looks at neither the payload nor the length of the file.                *)
Validate ==
  /\ stage = "sealed"
  /\ stage' = "validated"
  /\ UNCHANGED <<wvars, size, compress, encrypted, tmp, out>>

(* Path.replace, or shutil.move within one directory.                      *)
Move ==
  /\ stage = "validated"
  /\ stage' = "moved"
  /\ out' = tmp
  /\ tmp' = NoFile
  /\ UNCHANGED <<wvars, size, compress, encrypted>>

Announce ==
  /\ stage = "moved"
  /\ stage' = "done"
  /\ UNCHANGED <<wvars, size, compress, encrypted, tmp, out>>

EncoderIdle == ~compress \/ Submitted = 0 \/ phase \in {"packed", "raw", "failed"}

(* Any call of the try block may raise; while the encoder runs, it raises  *)
(* through the encoder, which leaves its pool first.                       *)
Raise ==
  /\ stage \in {"front", "payload", "stored", "patched", "sealed", "validated", "moved"}
  /\ stage = "payload" => EncoderIdle
  /\ stage' = "unwind"
  /\ UNCHANGED <<wvars, size, compress, encrypted, tmp, out>>

(* Mutant: only the errors of the encoder remove the file.                 *)
UnwindEncoderOnly ==
  /\ stage = "unwind"
  /\ stage' = "raised"
  /\ tmp' = IF phase = "failed" THEN NoFile ELSE tmp
  /\ UNCHANGED <<wvars, size, compress, encrypted, out>>

(* except Exception: the .tmp is removed if it is there, and the error     *)
(* goes on.                                                                *)
Unwind ==
  /\ stage = "unwind"
  /\ stage' = "raised"
  /\ tmp' = NoFile
  /\ UNCHANGED <<wvars, size, compress, encrypted, out>>

(* Only FileNotFoundError is suppressed: another OSError of the unlink      *)
(* leaves the handler in place of the error, and the .tmp stays.           *)
HandlerRaises ==
  /\ stage = "unwind"
  /\ stage' = "stuck"
  /\ UNCHANGED <<wvars, size, compress, encrypted, tmp, out>>

(* A KeyboardInterrupt is no Exception: like a kill, it leaves the .tmp.   *)
Kill ==
  /\ stage \notin Ended
  /\ stage' = "killed"
  /\ UNCHANGED <<wvars, size, compress, encrypted, tmp, out>>

Builder ==
  \/ Refuse \/ DryRun \/ OpenTmp \/ WriteFront
  \/ EncoderStep(Driver)
  \/ StoreRaw \/ Patch \/ Encrypt \/ Validate \/ Move \/ Announce \/ Unwind

(* The encoder failed, or the source shrank: the exception is certain.     *)
MustRaise ==
  /\ stage = "payload"
  /\ \/ compress /\ phase = "failed"
     \/ (~compress \/ phase = "raw") /\ srcLen < size

StreamNext ==
  \/ Builder
  \/ Raise \/ HandlerRaises
  \/ Kill
  \/ EncoderStep(SourceRaises)
  \/ \E w \in Workers : EncoderStep(Take(w) \/ Complete(w) \/ Die(w))

(* The builder and the workers keep running; failures are not forced,      *)
(* except where the code has no other way on.                              *)
StreamFairness ==
  /\ WF_vars(Builder)
  /\ WF_vars(MustRaise /\ Raise)
  /\ \A w \in Workers : WF_vars(EncoderStep(Take(w) \/ Complete(w)))

StreamSpec == StreamInit /\ [][StreamNext]_vars /\ StreamFairness

-----------------------------------------------------------------------------
(* Properties                                                              *)

(* A reader of this image finds every byte of the payload where the inode  *)
(* says it is, decrypts exactly the blocks that were encrypted, and finds  *)
(* the metadata at the blocks the fixed inodes point to.                   *)
ReadsBack(f) ==
  /\ f.front[InodesAt] = "inodes" /\ f.front[SuperRootAt] = "super_root"
  /\ f.front[FptAt] = "fpt"       /\ f.front[UrootAt] = "uroot"
  /\ f.meta.final = f.length /\ f.length = FileAt + f.meta.blocks
  /\ f.meta.size <= f.meta.blocks * PfsBlock
  /\ \A p \in 0..(f.meta.size - 1) :
       f.region[p] = IF ~f.meta.packed THEN "source"
                     ELSE IF p < HeaderSize(Blocks) THEN "table" ELSE "pfsc"
  /\ \A b \in {InodesAt, SuperRootAt, FptAt, UrootAt} \cup (FileAt..(f.length - 1)) :
       b \in f.sealed <=> encrypted

(* The decoder takes the header of the stream for the blocks it has, and   *)
(* refuses an inode that promises more bytes than they hold.               *)
Decodes(f) == f.meta.packed => f.meta.raw <= Blocks * BlockSize

(* The output name never shows provisional metadata, a payload the encoder *)
(* declined, or an image that was cut short: what appears there reads back,*)
(* at whatever point the builder fails or is killed.  Only a file that     *)
(* lost a block or more between the two stat() calls is published with an  *)
(* inode the decoder refuses; any other comes out at its full size.        *)
PublishedReadsBack ==
  out.kind = "image" =>
    /\ ReadsBack(out)
    /\ out.meta.packed => out.meta.raw = size
    /\ BlockCount(size) <= Blocks => Decodes(out)

(* Whichever step raises, the builder ends without its .tmp; only a kill,  *)
(* or a .tmp that cannot be removed, leaves it, and the next run           *)
(* overwrites it.                                                          *)
NoTmpAfterEnd == stage \in {"done", "raised"} => tmp = NoFile

(* Mutant: the header and its offset table are forgotten.                  *)
AnalyzedSizeWithoutTable ==
  LET upTo[n \in 0..Blocks] ==
        IF n = 0 THEN 0 ELSE upTo[n - 1] + StoredLen(clen[n])
  IN  upTo[Blocks]

(* What _analyze_pfsc_file_storage adds up, block after block, without     *)
(* writing anything.                                                       *)
AnalyzedSize ==
  LET upTo[n \in 0..Blocks] ==
        IF n = 0 THEN HeaderSize(Blocks) ELSE upTo[n - 1] + StoredLen(clen[n])
  IN  upTo[Blocks]

Analysis ==
  IF compress /\ KeepsPayload(Cardinality({b \in 1..Blocks : StoresPacked(clen[b])}),
                              AnalyzedSize, RawSize)
  THEN AnalyzedSize
  ELSE size

(* A dry run reports the size and the verdict the build of the same file   *)
(* arrives at, although it is a separate implementation; it is about a     *)
(* file that keeps its size.                                               *)
DryRunForetells ==
  Variant = "file" /\ size = RawSize /\ stage = "patched" =>
    /\ tmp.meta.size = Analysis
    /\ tmp.meta.packed <=> Analysis # size

(* A build comes to an end, unless it waits on a block whose worker was    *)
(* killed.                                                                 *)
StreamEnds == <>(stage \in Ended \/ WaitsOnLostBlock)

=============================================================================
