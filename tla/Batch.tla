------------------------------- MODULE Batch -------------------------------
(***************************************************************************)
(* `mkpfs batch`: discover_batch_items, run_batch and the handler          *)
(* cli_mkpfs_batch_run.  One item after the other is skipped, planned or   *)
(* built and possibly verified; sources can disappear meanwhile, printing  *)
(* can fail, and the GUI can request a cancellation.  A build is one step  *)
(* here: what it leaves behind is what StreamImage shows of it, unless the *)
(* disk spoils it.                                                         *)
(***************************************************************************)
EXTENDS Integers, Sequences, FiniteSets, Builtins

CONSTANTS
  Entries,     \* class of every entry of source_dir, in name.lower() order
  FolderFiles  \* relative paths of the files in a source folder

ASSUME EntriesAssumption ==
  /\ Entries \in Seq({"folder", "image", "other", "hidden"})
  /\ "inner.exfat" \notin FolderFiles

VARIABLES
  opts,      \* [overwrite, dryRun, verify] (input)
  source,    \* "present" or "gone", which is unreadable too, per entry
  out,       \* output_dir/<name>.ffpfsc, per entry
  list,      \* batch_items, as entry numbers
  idx,       \* the item of the loop
  pc,        \* where the loop is
  results,   \* summary.results: [item, status]
  cancel,    \* the GUI's cancel event: 0, or the item it was set at
  exit       \* "running", then how the command ended

vars == <<opts, source, out, list, idx, pc, results, cancel, exit>>

EntryIds == 1..Len(Entries)
Packable == {e \in EntryIds : Entries[e] \in {"folder", "image"}}
Item == list[idx]

Init ==
  /\ opts \in [overwrite : BOOLEAN, dryRun : BOOLEAN, verify : BOOLEAN]
  /\ source = [e \in EntryIds |-> "present"]
  /\ out \in [EntryIds -> {"none", "earlier"}]
  /\ \A e \in EntryIds \ Packable : out[e] = "none"
  /\ list = <<>>
  /\ idx = 1
  /\ pc = "discover"
  /\ results = <<>>
  /\ cancel = 0
  /\ exit = "running"

Goto(to) == pc' = to /\ UNCHANGED exit

(* An exception nothing catches between here and the shell.                *)
Escape == pc' = "ended" /\ exit' = "traceback"

Report(status) == results' = Append(results, [item |-> Item, status |-> status])

-----------------------------------------------------------------------------
(* Before the loop                                                         *)

(* discover_batch_items, the items sorted by their position.  The options  *)
(* or directories are refused, which is a BuildError; a source             *)
(* without items is a success; printing the header may fail.               *)
Discover ==
  /\ pc = "discover"
  /\ list' = InOrder({e \in Packable : source[e] = "present"})
  /\ \/ pc' = "ended" /\ exit' = "one"
     \/ list' = <<>> /\ pc' = "ended" /\ exit' = "zero"
     \/ list' # <<>> /\ Goto("item")
     \/ Escape
  /\ UNCHANGED <<opts, source, out, idx, results, cancel>>

-----------------------------------------------------------------------------
(* One turn of the loop                                                    *)

(* _estimate_raw_size: stat() of a file that is gone raises; a folder that *)
(* is gone has no files.                                                   *)
SizeKnown == Entries[Item] = "folder" \/ source[Item] = "present"

AtItem == pc = "item" /\ idx <= Len(list)
Skips == out[Item] # "none" /\ ~opts.overwrite

(* An existing output is kept, or the run is only a plan.                  *)
SkipOrPlan ==
  /\ AtItem
  /\ Skips \/ opts.dryRun
  /\ SizeKnown
  /\ Report(IF Skips THEN "skipped" ELSE "dry_run")
  /\ Goto("show")
  /\ UNCHANGED <<opts, source, out, list, idx, cancel>>

(* The sizes are taken outside the try: a source that is gone or may not be*)
(* read, a file of it that goes meanwhile, an output that is removed before*)
(* its size is asked for.                                                  *)
SizeRaises ==
  /\ AtItem
  /\ Skips \/ opts.dryRun
  /\ Escape
  /\ UNCHANGED <<opts, source, out, list, idx, results, cancel>>

(* info("Converting ...") is printed outside the try.                      *)
AnnounceItem ==
  /\ AtItem
  /\ ~Skips /\ ~opts.dryRun
  /\ Goto("build") \/ Escape
  /\ UNCHANGED <<opts, source, out, list, idx, results, cancel>>

(* Mutant: a cancellation is only looked at when a build ends.             *)
BeginBuildUnasked ==
  /\ pc = "build"
  /\ \/ source[Item] = "present" /\ Goto("building")
     \/ Goto("caught")
  /\ UNCHANGED <<opts, source, out, list, idx, results, cancel>>

(* The builders check their source and call progress.status before they    *)
(* open anything: a pending cancellation is raised there.                  *)
BeginBuild ==
  /\ pc = "build"
  /\ \/ source[Item] = "present" /\ cancel = 0 /\ Goto("building")
     \/ Goto("caught")
  /\ UNCHANGED <<opts, source, out, list, idx, results, cancel>>

(* An image built now, as it was written or as a failing disk or another   *)
(* program has left it.                                                    *)
Images == {"own", "damaged"}
HasImage(e) == out[e] \in Images

(* The image is in place; or the build raised before, or just after, it    *)
(* was moved there.                                                        *)
EndBuild ==
  /\ pc = "building"
  /\ \/ (\E image \in Images : out' = [out EXCEPT ![Item] = image]) /\ Goto("built")
     \/ (\E image \in Images : out' = [out EXCEPT ![Item] = image]) /\ Goto("caught")
     \/ UNCHANGED out /\ Goto("caught")
  /\ UNCHANGED <<opts, source, list, idx, results, cancel>>

Converted ==
  /\ pc = "built"
  /\ Report("converted")
  /\ Goto(IF opts.verify THEN "verify" ELSE "show_built")
  /\ UNCHANGED <<opts, source, out, list, idx, cancel>>

(* What the image built for an item lists, and what verify_pfs_image is    *)
(* given to compare it with: validate_source_paths wants the same paths.   *)
ImagePaths(e) == {"inner.exfat"}
SourcePaths(e) == IF Entries[e] = "folder" THEN FolderFiles ELSE ImagePaths(e)

SetLast(status) == results' = [results EXCEPT ![Len(results)].status = status]

(* Mutant: the findings of the inspection are dropped.                     *)
VerifyIgnored ==
  /\ pc = "verify"
  /\ Goto("show_built")
  /\ UNCHANGED <<opts, source, out, list, idx, results, cancel>>

(* The errors of the inspection: of the image itself and of the comparison.*)
Finds == out[Item] = "damaged" \/ SourcePaths(Item) # ImagePaths(Item)

(* A folder item is compared with its source folder, a file with nothing;  *)
(* findings and exceptions turn the result into an error.                  *)
Verify ==
  /\ pc = "verify"
  /\ \/ ~Finds /\ UNCHANGED results
     \/ (Finds \/ source[Item] = "gone") /\ SetLast("error")
  /\ Goto("show_built")
  /\ UNCHANGED <<opts, source, out, list, idx, cancel>>

(* print_item_status, inside the try for an item that was built, outside   *)
(* it for one that was skipped or planned.                                 *)
Show ==
  /\ pc \in {"show", "show_built"}
  /\ \/ Goto("item") /\ idx' = idx + 1
     \/ pc = "show_built" /\ Goto("caught") /\ UNCHANGED idx
     \/ pc = "show" /\ Escape /\ UNCHANGED idx
  /\ UNCHANGED <<opts, source, out, list, results, cancel>>

(* Mutant: the catch-all goes on without recording.                        *)
CatchUnrecorded ==
  /\ pc = "caught"
  /\ Goto("item") /\ idx' = idx + 1
  /\ UNCHANGED <<opts, source, out, list, results, cancel>>

(* except BuildError and except Exception, OperationCancelled included:    *)
(* the error is recorded, a warning printed, and the loop goes on.         *)
Catch ==
  /\ pc = "caught"
  /\ Report("error")
  /\ \/ Goto("item") /\ idx' = idx + 1
     \/ Escape /\ UNCHANGED idx
  /\ UNCHANGED <<opts, source, out, list, cancel>>

Errors == {k \in 1..Len(results) : results[k].status = "error"}

(* The summary is printed and the exit status follows from its errors.     *)
Finish ==
  /\ pc = "item"
  /\ idx > Len(list)
  /\ \/ pc' = "ended" /\ exit' = IF Errors = {} THEN "zero" ELSE "one"
     \/ Escape
  /\ UNCHANGED <<opts, source, out, list, idx, results, cancel>>

Command ==
  \/ Discover \/ SkipOrPlan \/ SizeRaises \/ AnnounceItem \/ BeginBuild
  \/ EndBuild \/ Converted \/ Verify \/ Show \/ Catch \/ Finish

-----------------------------------------------------------------------------
(* Around it                                                               *)

Vanish(e) ==
  /\ exit = "running"
  /\ source[e] = "present"
  /\ source' = [source EXCEPT ![e] = "gone"]
  /\ UNCHANGED <<opts, out, list, idx, pc, results, cancel, exit>>

RequestCancel ==
  /\ exit = "running"
  /\ cancel = 0
  /\ cancel' = idx
  /\ UNCHANGED <<opts, source, out, list, idx, pc, results, exit>>

(* A KeyboardInterrupt or a kill.                                          *)
Interrupt ==
  /\ exit = "running"
  /\ pc' = "ended" /\ exit' = "killed"
  /\ UNCHANGED <<opts, source, out, list, idx, results, cancel>>

Next ==
  \/ Command
  \/ \E e \in Packable : Vanish(e)
  \/ RequestCancel
  \/ Interrupt

Spec == Init /\ [][Next]_vars

-----------------------------------------------------------------------------
(* Properties                                                              *)

ResultsOf(e) == {k \in 1..Len(results) : results[k].item = e}

(* "on error -> record and continue": when the loop has passed an item it  *)
(* has a result, in the order of the list; at most a build whose status    *)
(* line could not be printed has a second one, next to it, and then that   *)
(* is an error.  Exit status 0 means that every item has its image: one    *)
(* built now, found sound if that was asked for, or, when nothing may be   *)
(* overwritten, the one that was there.                                    *)
EveryItemRecorded ==
  /\ \A k \in 1..(idx - 1) : \E j \in 1..Len(results) :
       \/ ResultsOf(list[k]) = {j}
       \/ ResultsOf(list[k]) = {j, j + 1} /\ results[j + 1].status = "error"
  /\ \A j, k \in 1..Len(results) : j <= k => results[j].item <= results[k].item
  /\ exit = "zero" /\ ~opts.dryRun =>
       \A k \in 1..Len(list) :
         \/ out[list[k]] = "own"
         \/ out[list[k]] = "damaged" /\ ~opts.verify
         \/ out[list[k]] = "earlier" /\ ~opts.overwrite

(* A converted item that was to be verified has an undamaged image that    *)
(* holds what it was compared with.                                        *)
ConvertedMeansVerified ==
  opts.verify /\ pc # "verify" /\ exit # "killed" =>
    \A k \in 1..Len(results) :
      results[k].status = "converted" =>
        /\ out[results[k].item] # "damaged"
        /\ SourcePaths(results[k].item) = ImagePaths(results[k].item)

(* The loop goes on after a cancellation, but nothing is built any more:   *)
(* the items after the one it was requested at get no image.               *)
CancelStopsBuilding ==
  cancel # 0 => \A k \in (cancel + 1)..Len(list) : ~HasImage(list[k])

(* "--verify with a clean inspection keeps status='converted'": an image   *)
(* that was built from an undisturbed folder, and is as it was built,      *)
(* passes its verification.                                                *)
VerifyAcceptsOwnImage ==
  [][pc = "verify" /\ source[Item] = "present" /\ out[Item] = "own"
       => results'[Len(results)].status = "converted"]_vars
=============================================================================
