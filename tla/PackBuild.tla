----------------------------- MODULE PackBuild -----------------------------
(***************************************************************************)
(* One `mkpfs pack folder --raw` (or `pack file --use-spool`) from its     *)
(* preflight to its exit code: _run_pack_build of mkpfs/cli.py around      *)
(* build_pfs of mkpfs/pfs.py.  Several invocations share the temp folder,  *)
(* where each compresses its files into spools before the image is written *)
(* next to the output as .tmp, validated and renamed.  An invocation can   *)
(* be killed at any point; a later one may be for the same output.         *)
(***************************************************************************)
EXTENDS Naturals, FiniteSets

CONSTANTS
  Procs,      \* invocations
  Outputs,    \* output paths
  Files,      \* source files of every invocation that are worth a spool
  Parallel    \* worker_count: 1 is the in-process path, more is the pool

ASSUME PackAssumption ==
  /\ IsFiniteSet(Files) /\ Files # {}
  /\ Parallel \in Nat \ {0}

VARIABLES
  target,   \* output path of each invocation
  pc,       \* where each invocation is
  cause,    \* the exception it is unwinding from
  listed,   \* spools its sweep has found and not looked at yet
  storage,  \* per invocation and file: progress of the storage decision
  spool,    \* spool files in the temp folder
  old,      \* those of them not written to for stale_age_seconds
  tmp,      \* <output>.tmp, per output path
  image,    \* the output file
  wrote,    \* history: the invocation got as far as opening its .tmp
  stuck     \* history: the error handler of the invocation raised itself

vars == <<target, pc, cause, listed, storage, spool, old, tmp, image, wrote, stuck>>
fsVars == <<spool, old, tmp, image>>

Absent == [by |-> "none", files |-> {}]
Previous == [by |-> "earlier", files |-> Files]

SpoolIds == Procs \X Files
SpoolsOf(p) == {p} \X Files

Ended == {"refused", "declined", "failed", "cancelled", "rejected", "ok", "killed"}
Running(p) == pc[p] \notin Ended \cup {"idle"}

Init ==
  /\ target \in [Procs -> Outputs]
  /\ pc = [p \in Procs |-> "idle"]
  /\ cause = [p \in Procs |-> "none"]
  /\ listed = [p \in Procs |-> {}]
  /\ storage = [p \in Procs |-> [f \in Files |-> "todo"]]
  /\ spool = [s \in SpoolIds |-> "none"]
  /\ old = {}
  /\ tmp = [o \in Outputs |-> Absent]
  /\ image \in [Outputs -> {Absent, Previous}]
  /\ wrote = {}
  /\ stuck = {}

(* Unlinking a set of spools; a missing one is not an error.               *)
Unlink(S) ==
  /\ spool' = [s \in SpoolIds |-> IF s \in S THEN "none" ELSE spool[s]]
  /\ old' = old \ S

Goto(p, to) == pc' = [pc EXCEPT ![p] = to]

-----------------------------------------------------------------------------
(* cli._run_pack_build                                                     *)

(* Configuration, validate_input and the free-space preflight, which may   *)
(* refuse; then cleanup_pack_temp_artifacts removes a leftover .tmp and    *)
(* lists the spools.  Only one invocation at a time works on an output.    *)
Start(p) ==
  /\ pc[p] = "idle"
  /\ \A q \in Procs : Running(q) => target[q] # target[p]
  /\ \/ /\ Goto(p, "refused")
        /\ UNCHANGED <<tmp, listed>>
     \/ /\ Goto(p, "sweep")
        /\ tmp' = [tmp EXCEPT ![target[p]] = Absent]
        /\ listed' = [listed EXCEPT ![p] = {s \in SpoolIds : spool[s] # "none"}]
  /\ UNCHANGED <<target, cause, storage, spool, old, image, wrote, stuck>>

(* cleanup_pack_temp_artifacts looks at the spools one by one and unlinks  *)
(* those that are old by then, whoever they belong to.                     *)
SweepSpool(p) ==
  /\ pc[p] = "sweep"
  /\ \E s \in listed[p] :
       /\ listed' = [listed EXCEPT ![p] = @ \ {s}]
       /\ Unlink({s} \cap old)
  /\ UNCHANGED <<target, pc, cause, storage, tmp, image, wrote, stuck>>

(* prompt_overwrite: an accepted overwrite removes the old image at once.  *)
Prompt(p) ==
  /\ pc[p] = "sweep"
  /\ listed[p] = {}
  /\ \/ /\ image[target[p]] = Absent
        /\ Goto(p, "compress")
        /\ UNCHANGED <<image, tmp>>
     \/ /\ image[target[p]] # Absent
        /\ Goto(p, "compress")
        /\ image' = [image EXCEPT ![target[p]] = Absent]
        /\ tmp' = [tmp EXCEPT ![target[p]] = Absent]
     \/ /\ image[target[p]] # Absent
        /\ Goto(p, "declined")
        /\ UNCHANGED <<image, tmp>>
  /\ UNCHANGED <<target, cause, listed, storage, spool, old, wrote, stuck>>

-----------------------------------------------------------------------------
(* pfs.build_pfs, compression                                              *)

In(p, states) == {f \in Files : storage[p][f] \in states}

(* A pool worker, or the in-process loop, takes the next file.             *)
BeginEncode(p, f) ==
  /\ pc[p] = "compress"
  /\ storage[p][f] = "todo"
  /\ Cardinality(In(p, {"encoding"})) < Parallel
  /\ Parallel = 1 => In(p, {"encoded"}) = {}
  /\ storage' = [storage EXCEPT ![p][f] = "encoding"]
  /\ spool' = [spool EXCEPT ![<<p, f>>] = "partial"]
  /\ old' = old \ {<<p, f>>}
  /\ UNCHANGED <<target, pc, cause, listed, tmp, image, wrote, stuck>>

(* The payload is kept, or the spool is unlinked and the file stays raw;   *)
(* the result waits for the main process.                                  *)
EndEncode(p, f) ==
  /\ pc[p] = "compress"
  /\ storage[p][f] = "encoding"
  /\ storage' = [storage EXCEPT ![p][f] = "encoded"]
  /\ \E kept \in {"complete", "none"} : spool' = [spool EXCEPT ![<<p, f>>] = kept]
  /\ UNCHANGED <<target, pc, cause, listed, old, tmp, image, wrote, stuck>>

(* results.next(), in completion order: the node learns its stored source. *)
TakeResult(p, f) ==
  /\ pc[p] = "compress"
  /\ storage[p][f] = "encoded"
  /\ storage' = [storage EXCEPT ![p][f] =
                   IF spool[<<p, f>>] = "none" THEN "raw" ELSE "spooled"]
  /\ UNCHANGED <<target, pc, cause, listed, fsVars, wrote, stuck>>

(* An OSError: the encoder drops its own spool, build_pfs the spools of the*)
(* results it has taken; a pool is terminated in the middle of its tasks.  *)
CompressOSError(p, f) ==
  /\ pc[p] = "compress"
  /\ storage[p][f] = "encoding"
  /\ Unlink({p} \X ({f} \cup In(p, {"spooled"})))
  /\ Goto(p, "failed")
  /\ UNCHANGED <<target, cause, listed, storage, tmp, image, wrote, stuck>>

(* Any other exception (CompressionError, OperationCancelled, BuildError)  *)
(* until the image is opened leaves the spools where they are.             *)
RaiseBeforeWrite(p) ==
  /\ pc[p] \in {"compress", "layout"}
  /\ \E c \in {"failed", "cancelled"} : Goto(p, c)
  /\ UNCHANGED <<target, cause, listed, storage, fsVars, wrote, stuck>>

(* All results are in; inode numbers, path table, block layout and the     *)
(* 32-bit range check follow.                                              *)
EndCompress(p) ==
  /\ pc[p] = "compress"
  /\ In(p, {"raw", "spooled"}) = Files
  /\ Goto(p, "layout")
  /\ UNCHANGED <<target, cause, listed, storage, fsVars, wrote, stuck>>

-----------------------------------------------------------------------------
(* pfs.build_pfs, writing                                                  *)

(* tmp_path.open("w+b"): header, inode table and path table.               *)
OpenTmp(p) ==
  /\ pc[p] = "layout"
  /\ Goto(p, "write")
  /\ tmp' = [tmp EXCEPT ![target[p]] = [by |-> p, files |-> {}]]
  /\ wrote' = wrote \cup {p}
  /\ UNCHANGED <<target, cause, listed, storage, spool, old, image, stuck>>

SourceReadable(p, f) == storage[p][f] = "spooled" => spool[<<p, f>>] = "complete"

(* Mutant: a stored source that has vanished is written as empty.          *)
WritePayloadLenient(p, f) ==
  /\ pc[p] = "write"
  /\ tmp' = [tmp EXCEPT ![target[p]].files =
               IF SourceReadable(p, f) THEN @ \cup {f} ELSE @]
  /\ storage' = [storage EXCEPT ![p][f] = "written"]
  /\ UNCHANGED <<target, pc, cause, listed, spool, old, image, wrote, stuck>>

(* write_source_to_offset opens the stored source only now.                *)
WritePayload(p, f) ==
  /\ pc[p] = "write"
  /\ storage[p][f] # "written"
  /\ SourceReadable(p, f)
  /\ tmp' = [tmp EXCEPT ![target[p]].files = @ \cup {f}]
  /\ storage' = [storage EXCEPT ![p][f] = "written"]
  /\ UNCHANGED <<target, pc, cause, listed, spool, old, image, wrote, stuck>>

(* The handle is closed; validate_image_quick looks at header and inodes.  *)
Validate(p) ==
  /\ pc[p] = "write"
  /\ In(p, {"written"}) = Files
  /\ Goto(p, "rename")
  /\ UNCHANGED <<target, cause, listed, storage, fsVars, wrote, stuck>>

Rename(p) ==
  /\ pc[p] = "rename"
  /\ Goto(p, "unspool")
  /\ image' = [image EXCEPT ![target[p]] = tmp[target[p]]]
  /\ tmp' = [tmp EXCEPT ![target[p]] = Absent]
  /\ UNCHANGED <<target, cause, listed, storage, spool, old, wrote, stuck>>

(* temporary_payload_paths is unlinked one by one, at the clean end and in *)
(* the handler alike.                                                      *)
DropSpool(p) ==
  /\ pc[p] \in {"unspool", "clear"}
  /\ \E s \in SpoolsOf(p) :
       /\ spool[s] # "none"
       /\ Unlink({s})
  /\ UNCHANGED <<target, pc, cause, listed, storage, tmp, image, wrote, stuck>>

(* The final status message has been shown; post-pack verification is next.*)
Built(p) ==
  /\ pc[p] = "unspool"
  /\ \A s \in SpoolsOf(p) : spool[s] = "none"
  /\ Goto(p, "verify")
  /\ UNCHANGED <<target, cause, listed, storage, fsVars, wrote, stuck>>

(* Mutant: the handler is entered without an exception to re-raise.        *)
RaiseInWriteUncaused(p) ==
  /\ pc[p] \in {"write", "rename", "unspool"}
  /\ Goto(p, "except")
  /\ UNCHANGED <<target, cause, listed, storage, fsVars, wrote, stuck>>

(* A missing spool, a full disk, a failed validation, or a cancel request  *)
(* that progress.step or the final progress.status finds set.              *)
RaiseInWrite(p) ==
  /\ pc[p] \in {"write", "rename", "unspool"}
  /\ Goto(p, "except")
  /\ \E c \in {"failed", "cancelled"} : cause' = [cause EXCEPT ![p] = c]
  /\ UNCHANGED <<target, listed, storage, fsVars, wrote, stuck>>

(* except Exception: the .tmp is removed first, if it is there.            *)
RemoveTmp(p) ==
  /\ pc[p] = "except"
  /\ Goto(p, "clear")
  /\ tmp' = [tmp EXCEPT ![target[p]] = Absent]
  /\ UNCHANGED <<target, cause, listed, storage, spool, old, image, wrote, stuck>>

(* Mutant: the handler removes the .tmp only.                              *)
ReraiseAtOnce(p) ==
  /\ pc[p] = "clear"
  /\ Goto(p, cause[p])
  /\ UNCHANGED <<target, cause, listed, storage, fsVars, wrote, stuck>>

(* Mutant: the handler forgets to re-raise.                                *)
ReraiseForgotten(p) ==
  /\ pc[p] = "clear"
  /\ \A s \in SpoolsOf(p) : spool[s] = "none"
  /\ Goto(p, "verify")
  /\ UNCHANGED <<target, cause, listed, storage, fsVars, wrote, stuck>>

(* The exception goes on when the last spool is gone.                      *)
Reraise(p) ==
  /\ pc[p] = "clear"
  /\ \A s \in SpoolsOf(p) : spool[s] = "none"
  /\ Goto(p, cause[p])
  /\ UNCHANGED <<target, cause, listed, storage, fsVars, wrote, stuck>>

(* Only FileNotFoundError is suppressed: any other OSError of an unlink    *)
(* leaves the handler in place of the exception it was to re-raise, and    *)
(* whatever was still to be removed stays.                                 *)
HandlerRaises(p) ==
  /\ pc[p] \in {"except", "clear"}
  /\ Goto(p, "failed")
  /\ stuck' = stuck \cup {p}
  /\ UNCHANGED <<target, cause, listed, storage, fsVars, wrote>>

(* _run_post_pack_verify, or none: errors leave the image in place.        *)
Verify(p) ==
  /\ pc[p] = "verify"
  /\ \E result \in {"ok", "rejected"} : Goto(p, result)
  /\ UNCHANGED <<target, cause, listed, storage, fsVars, wrote, stuck>>

-----------------------------------------------------------------------------
(* The environment                                                         *)

(* A kill, a power loss, or a KeyboardInterrupt, which no handler catches. *)
Kill(p) ==
  /\ Running(p)
  /\ Goto(p, "killed")
  /\ UNCHANGED <<target, cause, listed, storage, fsVars, wrote, stuck>>

(* Time passes over a spool that nobody is writing to.                     *)
Age ==
  /\ \E p \in Procs, f \in Files :
       /\ spool[<<p, f>>] # "none" /\ <<p, f>> \notin old
       /\ ~(pc[p] = "compress" /\ storage[p][f] = "encoding")
       /\ old' = old \cup {<<p, f>>}
  /\ UNCHANGED <<target, pc, cause, listed, storage, spool, tmp, image, wrote, stuck>>

Next ==
  \/ \E p \in Procs :
       \/ Start(p) \/ SweepSpool(p) \/ Prompt(p)
       \/ RaiseBeforeWrite(p) \/ EndCompress(p)
       \/ OpenTmp(p) \/ Validate(p) \/ Rename(p) \/ DropSpool(p) \/ Built(p)
       \/ RaiseInWrite(p) \/ RemoveTmp(p) \/ Reraise(p) \/ HandlerRaises(p)
       \/ Verify(p) \/ Kill(p)
       \/ \E f \in Files :
            \/ BeginEncode(p, f) \/ EndEncode(p, f) \/ TakeResult(p, f)
            \/ CompressOSError(p, f) \/ WritePayload(p, f)
  \/ Age

Spec == Init /\ [][Next]_vars

-----------------------------------------------------------------------------
(* Properties                                                              *)

ImageState == [by : Procs \cup {"none", "earlier"}, files : SUBSET Files]

(* Every variable keeps its shape; only existing spools can be old.        *)
TypeOK ==
  /\ target \in [Procs -> Outputs]
  /\ pc \in [Procs -> Ended \cup {"idle", "sweep", "compress", "layout", "write",
                                  "rename", "unspool", "except", "clear",
                                  "verify"}]
  /\ cause \in [Procs -> {"none", "failed", "cancelled"}]
  /\ listed \in [Procs -> SUBSET SpoolIds]
  /\ storage \in [Procs -> [Files -> {"todo", "encoding", "encoded", "raw",
                                      "spooled", "written"}]]
  /\ spool \in [SpoolIds -> {"none", "partial", "complete"}]
  /\ old \subseteq {s \in SpoolIds : spool[s] # "none"}
  /\ tmp \in [Outputs -> ImageState]
  /\ image \in [Outputs -> ImageState]
  /\ wrote \subseteq Procs
  /\ stuck \subseteq Procs

(* Whatever is found under an output name is a whole image: no crash, no   *)
(* failure and no spool swept away by another invocation in the meantime   *)
(* leaves a partial one there.                                             *)
ImageWholeOrAbsent ==
  \A o \in Outputs : image[o] # Absent => image[o].files = Files

(* An invocation that got as far as writing leaves neither its .tmp nor a  *)
(* spool behind, however it ends: succeeded, cancelled, or with an error   *)
(* in any step.  Two ways out are excepted: a kill, and a handler that was *)
(* itself refused an unlink.                                               *)
NoLeftoversAfterWrite ==
  /\ \A p \in wrote \ stuck : pc[p] \in Ended \ {"killed"} =>
       \A s \in SpoolsOf(p) : spool[s] = "none"
  /\ \A o \in Outputs : tmp[o] # Absent =>
       LET p == tmp[o].by IN Running(p) \/ pc[p] = "killed" \/ p \in stuck

(* Exit code 0 after a build, or a verification report, is about the image *)
(* this invocation wrote, as long as nobody started on that output since.  *)
SuccessMeansOwnImage ==
  \A p \in Procs :
    /\ pc[p] \in {"verify", "ok", "rejected"}
    /\ \A q \in Procs \ {p} : target[q] = target[p] => pc[q] \in {"idle", "refused"}
    => image[target[p]].by = p

=============================================================================
