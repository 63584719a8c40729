-------------------------- MODULE PackBuild_proofs --------------------------
(***************************************************************************)
(* Proofs of the safety of the pack command (PackBuild) for any number of  *)
(* invocations, outputs and source files and any worker count.             *)
(***************************************************************************)
EXTENDS PackBuild, TLAPS

-----------------------------------------------------------------------------
(* The inductive invariant                                                 *)

(* A spool that is being written to is not old, so no sweep takes it.      *)
EncodingIsFresh ==
  \A p \in Procs, f \in Files :
    pc[p] = "compress" /\ storage[p][f] = "encoding" => <<p, f>> \notin old

(* One invocation at a time works on an output.                            *)
OutputsExclusive ==
  \A p, q \in Procs :
    Running(p) /\ Running(q) /\ target[p] = target[q] => p = q

(* What an invocation has decided and written before, between and after    *)
(* its two loops over the files.                                           *)
LoopsComplete ==
  \A p \in Procs, f \in Files :
    /\ pc[p] \in {"idle", "sweep"} => storage[p][f] = "todo"
    /\ pc[p] = "layout" => storage[p][f] \in {"raw", "spooled"}
    /\ pc[p] = "rename" => storage[p][f] = "written"

(* The .tmp of an invocation that is writing is its own and has exactly    *)
(* the payloads it has written.                                            *)
TmpIsOwn ==
  \A p \in Procs : pc[p] \in {"write", "rename"} =>
    /\ tmp[target[p]].by = p
    /\ \A f \in Files : f \in tmp[target[p]].files <=> storage[p][f] = "written"

(* A .tmp is there while its invocation works on it or after it was killed.*)
TmpHasOwner ==
  \A o \in Outputs : tmp[o] # Absent =>
    /\ tmp[o].by \in Procs
    /\ target[tmp[o].by] = o
    /\ \/ pc[tmp[o].by] \in {"write", "rename", "except", "killed"}
       \/ tmp[o].by \in stuck /\ pc[tmp[o].by] = "failed"

(* Only an invocation that opened its .tmp gets to these places, and those *)
(* that did end in none of the others.                                     *)
WroteInOrder ==
  \A p \in Procs :
    p \in wrote => pc[p] \in {"write", "rename", "unspool", "except", "clear", "verify",
                              "ok", "rejected", "failed", "cancelled", "killed"}

CauseKnown ==
  \A p \in Procs : pc[p] \in {"except", "clear"} => cause[p] \in {"failed", "cancelled"}

SpoolsGone ==
  \A p \in Procs :
    \/ pc[p] \in {"verify", "ok", "rejected"}
    \/ p \in wrote \ stuck /\ pc[p] \in {"failed", "cancelled"}
    => \A s \in SpoolsOf(p) : spool[s] = "none"

(* From the rename on the output is one's own until somebody else starts.  *)
ImageIsOwn ==
  \A p \in Procs :
    /\ pc[p] \in {"unspool", "verify", "ok", "rejected"}
    /\ \A q \in Procs \ {p} : target[q] = target[p] => pc[q] \in {"idle", "refused"}
    => image[target[p]].by = p

IInv ==
  /\ TypeOK
  /\ EncodingIsFresh
  /\ OutputsExclusive
  /\ LoopsComplete
  /\ TmpIsOwn
  /\ TmpHasOwner
  /\ ImageWholeOrAbsent
  /\ WroteInOrder
  /\ CauseKnown
  /\ SpoolsGone
  /\ ImageIsOwn


(* Goto moves one invocation and no other.                                 *)
LEMMA GotoMoves ==
  ASSUME TypeOK, NEW p \in Procs, NEW to, Goto(p, to)
  PROVE  /\ pc'[p] = to
         /\ \A q \in Procs : q # p => pc'[q] = pc[q]
  BY DEF TypeOK, Goto

(* Whoever enters the except clause of build_pfs has something to re-      *)
(* raise.                                                                  *)
LEMMA CauseKnownKept ==
  ASSUME TypeOK, CauseKnown, [Next]_vars
  PROVE  CauseKnown'
<1>1. ASSUME NEW p \in Procs, RaiseInWrite(p)
      PROVE  CauseKnown'
  BY <1>1 DEF RaiseInWrite, Goto, CauseKnown, TypeOK
<1>2. ASSUME NEW p \in Procs,
             \/ Start(p) \/ SweepSpool(p) \/ Prompt(p) \/ RaiseBeforeWrite(p)
             \/ EndCompress(p) \/ OpenTmp(p) \/ Validate(p) \/ Rename(p) \/ DropSpool(p)
             \/ Built(p) \/ RemoveTmp(p) \/ Reraise(p) \/ HandlerRaises(p) \/ Verify(p) \/ Kill(p)
      PROVE  CauseKnown'
  <2>1. cause' = cause
    BY <1>2 DEF Start, SweepSpool, Prompt, RaiseBeforeWrite, EndCompress, OpenTmp,
                Validate, Rename, DropSpool, Built, RemoveTmp, Reraise, HandlerRaises, Verify, Kill
  <2>2. \A q \in Procs : pc'[q] \in {"except", "clear"} => pc[q] \in {"except", "clear"}
    BY <1>2, GotoMoves DEF Start, SweepSpool, Prompt, RaiseBeforeWrite, EndCompress,
         OpenTmp, Validate, Rename, DropSpool, Built, RemoveTmp, Reraise, HandlerRaises, Verify, Kill, CauseKnown
  <2>3. QED
    BY <2>1, <2>2 DEF CauseKnown
<1>3. ASSUME NEW p \in Procs, NEW f \in Files,
             \/ BeginEncode(p, f) \/ EndEncode(p, f) \/ TakeResult(p, f)
             \/ CompressOSError(p, f) \/ WritePayload(p, f)
      PROVE  CauseKnown'
  <2>1. cause' = cause
    BY <1>3 DEF BeginEncode, EndEncode, TakeResult, CompressOSError, WritePayload
  <2>2. \A q \in Procs : pc'[q] \in {"except", "clear"} => pc[q] \in {"except", "clear"}
    BY <1>3, GotoMoves DEF BeginEncode, EndEncode, TakeResult, CompressOSError,
         WritePayload
  <2>3. QED
    BY <2>1, <2>2 DEF CauseKnown
<1>4. CASE Age \/ UNCHANGED vars
  BY <1>4 DEF Age, vars, CauseKnown
<1>5. QED
  BY <1>1, <1>2, <1>3, <1>4 DEF Next

(* The two loops over the files are left only when every file is done.     *)
LEMMA LoopsCompleteKept ==
  ASSUME TypeOK, LoopsComplete, CauseKnown, [Next]_vars
  PROVE  LoopsComplete'
<1>1. ASSUME NEW p \in Procs, EndCompress(p) \/ Validate(p)
      PROVE  LoopsComplete'
  <2>1. storage' = storage /\ \A q \in Procs : q # p => pc'[q] = pc[q]
    BY <1>1, GotoMoves DEF EndCompress, Validate
  <2>2. CASE EndCompress(p)
    <3>1. pc'[p] = "layout"
      BY <2>2, GotoMoves DEF EndCompress
    <3>2. \A f \in Files : storage[p][f] \in {"raw", "spooled"}
      BY <2>2 DEF EndCompress, In
    <3>3. QED
      BY <2>1, <3>1, <3>2 DEF LoopsComplete
  <2>3. CASE Validate(p)
    <3>1. pc'[p] = "rename"
      BY <2>3, GotoMoves DEF Validate
    <3>2. \A f \in Files : storage[p][f] = "written"
      BY <2>3 DEF Validate, In
    <3>3. QED
      BY <2>1, <3>1, <3>2 DEF LoopsComplete
  <2>4. QED
    BY <1>1, <2>2, <2>3
<1>2. ASSUME NEW p \in Procs,
             \/ Start(p) \/ SweepSpool(p) \/ Prompt(p) \/ RaiseBeforeWrite(p) \/ OpenTmp(p)
             \/ Rename(p) \/ DropSpool(p) \/ Built(p) \/ RaiseInWrite(p) \/ RemoveTmp(p) \/ Reraise(p)
             \/ HandlerRaises(p) \/ Verify(p) \/ Kill(p)
      PROVE  LoopsComplete'
  <2>1. storage' = storage
    BY <1>2 DEF Start, SweepSpool, Prompt, RaiseBeforeWrite, OpenTmp, Rename, DropSpool,
                Built, RaiseInWrite, RemoveTmp, Reraise, HandlerRaises, Verify, Kill
  <2>2. \A q \in Procs : /\ pc'[q] \in {"layout", "rename"} => pc'[q] = pc[q]
                         /\ pc'[q] \in {"idle", "sweep"} => pc[q] \in {"idle", "sweep"}
    BY <1>2, GotoMoves DEF Start, SweepSpool, Prompt, RaiseBeforeWrite, OpenTmp, Rename,
         DropSpool, Built, RaiseInWrite, RemoveTmp, Reraise, HandlerRaises, Verify, Kill, CauseKnown
  <2>3. QED
    BY <2>1, <2>2 DEF LoopsComplete
<1>3. ASSUME NEW p \in Procs, NEW f \in Files,
             \/ BeginEncode(p, f) \/ EndEncode(p, f) \/ TakeResult(p, f)
             \/ CompressOSError(p, f) \/ WritePayload(p, f)
      PROVE  LoopsComplete'
  <2>1. \A q \in Procs : q # p => pc'[q] = pc[q] /\ storage'[q] = storage[q]
    BY <1>3, GotoMoves DEF BeginEncode, EndEncode, TakeResult, CompressOSError,
         WritePayload, TypeOK
  <2>2. pc'[p] \in {"compress", "failed", "write"}
    BY <1>3, GotoMoves DEF BeginEncode, EndEncode, TakeResult, CompressOSError,
         WritePayload
  <2>3. QED
    BY <2>1, <2>2 DEF LoopsComplete
<1>4. CASE Age \/ UNCHANGED vars
  BY <1>4 DEF Age, vars, LoopsComplete
<1>5. QED
  BY <1>1, <1>2, <1>3, <1>4 DEF Next

(* Only a spool that nobody is writing to gets old; an invocation that     *)
(* starts to compress has no file under way.                               *)
LEMMA EncodingIsFreshKept ==
  ASSUME TypeOK, EncodingIsFresh, LoopsComplete, CauseKnown, [Next]_vars
  PROVE  EncodingIsFresh'
<1>1. ASSUME NEW p \in Procs, Prompt(p)
      PROVE  EncodingIsFresh'
  <2>1. \A f \in Files : storage[p][f] = "todo"
    BY <1>1 DEF Prompt, LoopsComplete
  <2>2. UNCHANGED <<storage, old>> /\ \A q \in Procs : q # p => pc'[q] = pc[q]
    BY <1>1, GotoMoves DEF Prompt
  <2>3. QED
    BY <2>1, <2>2 DEF EncodingIsFresh
<1>2. ASSUME NEW p \in Procs, NEW f \in Files, BeginEncode(p, f)
      PROVE  EncodingIsFresh'
  <2>1. /\ old' = old \ {<<p, f>>}
        /\ storage' = [storage EXCEPT ![p][f] = "encoding"]
        /\ pc' = pc
    BY <1>2 DEF BeginEncode
  <2>2. \A q \in Procs, g \in Files : <<q, g>> # <<p, f>> => storage'[q][g] = storage[q][g]
    BY <2>1 DEF TypeOK
  <2>3. QED
    BY <2>1, <2>2 DEF EncodingIsFresh
<1>3. ASSUME NEW p \in Procs,
             \/ Start(p) \/ SweepSpool(p) \/ RaiseBeforeWrite(p) \/ EndCompress(p)
             \/ OpenTmp(p) \/ Validate(p) \/ Rename(p) \/ DropSpool(p) \/ Built(p)
             \/ RaiseInWrite(p) \/ RemoveTmp(p) \/ Reraise(p) \/ HandlerRaises(p) \/ Verify(p) \/ Kill(p)
      PROVE  EncodingIsFresh'
  <2>1. storage' = storage
    BY <1>3 DEF Start, SweepSpool, RaiseBeforeWrite, EndCompress, OpenTmp, Validate,
                Rename, DropSpool, Built, RaiseInWrite, RemoveTmp, Reraise, HandlerRaises, Verify, Kill
  <2>2. old' \subseteq old
    BY <1>3 DEF Start, SweepSpool, RaiseBeforeWrite, EndCompress, OpenTmp, Validate,
                Rename, DropSpool, Built, RaiseInWrite, RemoveTmp, Reraise, HandlerRaises, Verify, Kill, Unlink, fsVars
  <2>3. \A q \in Procs : pc'[q] = "compress" => pc[q] = "compress"
    BY <1>3, GotoMoves DEF Start, SweepSpool, RaiseBeforeWrite, EndCompress, OpenTmp,
         Validate, Rename, DropSpool, Built, RaiseInWrite, RemoveTmp, Reraise, HandlerRaises, Verify, Kill, CauseKnown
  <2>4. QED
    BY <2>1, <2>2, <2>3 DEF EncodingIsFresh
<1>4. ASSUME NEW p \in Procs, NEW f \in Files,
             \/ EndEncode(p, f) \/ TakeResult(p, f) \/ CompressOSError(p, f)
             \/ WritePayload(p, f)
      PROVE  EncodingIsFresh'
  <2>1. old' \subseteq old
    BY <1>4 DEF EndEncode, TakeResult, CompressOSError, WritePayload, Unlink, fsVars
  <2>2. \A q \in Procs : pc'[q] = "compress" => pc[q] = "compress"
    BY <1>4, GotoMoves DEF EndEncode, TakeResult, CompressOSError, WritePayload
  <2>3. \A q \in Procs, g \in Files :
          storage'[q][g] = "encoding" => storage[q][g] = "encoding"
    <3>1. \/ storage' = storage
          \/ \E v \in {"encoded", "raw", "spooled", "written"} :
               storage' = [storage EXCEPT ![p][f] = v]
      BY <1>4 DEF EndEncode, TakeResult, CompressOSError, WritePayload
    <3>2. storage \in [Procs -> [Files -> {"todo", "encoding", "encoded", "raw",
                                          "spooled", "written"}]]
      BY DEF TypeOK
    <3>3. QED
      BY <3>1, <3>2
  <2>4. QED
    BY <2>1, <2>2, <2>3 DEF EncodingIsFresh
<1>5. CASE Age
  <2>1. PICK p \in Procs, f \in Files :
          /\ ~(pc[p] = "compress" /\ storage[p][f] = "encoding")
          /\ old' = old \cup {<<p, f>>}
    BY <1>5 DEF Age
  <2>2. UNCHANGED <<pc, storage>>
    BY <1>5 DEF Age
  <2>3. QED
    BY <2>1, <2>2 DEF EncodingIsFresh
<1>6. CASE UNCHANGED vars
  BY <1>6 DEF vars, EncodingIsFresh
<1>7. QED
  BY <1>1, <1>2, <1>3, <1>4, <1>5, <1>6 DEF Next

(* Only the start of an invocation makes it run, and it waits for the      *)
(* output.                                                                 *)
LEMMA OutputsExclusiveKept ==
  ASSUME TypeOK, OutputsExclusive, CauseKnown, [Next]_vars
  PROVE  OutputsExclusive'
<1>1. ASSUME NEW p \in Procs, Start(p)
      PROVE  OutputsExclusive'
  <2>1. target' = target /\ \A q \in Procs : Running(q) => target[q] # target[p]
    BY <1>1 DEF Start
  <2>2. \A q \in Procs : q # p => pc'[q] = pc[q]
    BY <1>1, GotoMoves DEF Start
  <2>3. QED
    BY <2>1, <2>2 DEF OutputsExclusive, Running
<1>2. ASSUME target' = target, \A q \in Procs : Running(q)' => Running(q)
      PROVE  OutputsExclusive'
  BY <1>2 DEF OutputsExclusive
<1>3. ASSUME NEW p \in Procs,
             \/ SweepSpool(p) \/ Prompt(p) \/ RaiseBeforeWrite(p) \/ EndCompress(p)
             \/ OpenTmp(p) \/ Validate(p) \/ Rename(p) \/ DropSpool(p) \/ Built(p)
             \/ RaiseInWrite(p) \/ RemoveTmp(p) \/ Reraise(p) \/ HandlerRaises(p) \/ Verify(p) \/ Kill(p)
      PROVE  OutputsExclusive'
  <2>1. target' = target /\ Running(p)
    BY <1>3 DEF SweepSpool, Prompt, RaiseBeforeWrite, EndCompress, OpenTmp, Validate,
         Rename, DropSpool, Built, RaiseInWrite, RemoveTmp, Reraise, HandlerRaises, Verify, Kill, Running, Ended
  <2>2. \A q \in Procs : q # p => pc'[q] = pc[q]
    BY <1>3, GotoMoves DEF SweepSpool, Prompt, RaiseBeforeWrite, EndCompress, OpenTmp,
         Validate, Rename, DropSpool, Built, RaiseInWrite, RemoveTmp, Reraise, HandlerRaises, Verify, Kill
  <2>3. QED
    BY <1>2, <2>1, <2>2 DEF Running
<1>4. ASSUME NEW p \in Procs, NEW f \in Files,
             \/ BeginEncode(p, f) \/ EndEncode(p, f) \/ TakeResult(p, f)
             \/ CompressOSError(p, f) \/ WritePayload(p, f)
      PROVE  OutputsExclusive'
  <2>1. target' = target /\ Running(p)
    BY <1>4 DEF BeginEncode, EndEncode, TakeResult, CompressOSError, WritePayload,
         Running, Ended
  <2>2. \A q \in Procs : q # p => pc'[q] = pc[q]
    BY <1>4, GotoMoves DEF BeginEncode, EndEncode, TakeResult, CompressOSError,
         WritePayload
  <2>3. QED
    BY <1>2, <2>1, <2>2 DEF Running
<1>5. CASE Age \/ UNCHANGED vars
  BY <1>5 DEF Age, vars, OutputsExclusive, Running
<1>6. QED
  BY <1>1, <1>3, <1>4, <1>5 DEF Next

(* What is assigned to the .tmp of one output, and to no other.            *)
LEMMA TmpSet ==
  ASSUME TypeOK, NEW p \in Procs, NEW x,
         tmp' = [tmp EXCEPT ![target[p]] = x]
  PROVE  /\ tmp'[target[p]] = x
         /\ \A o \in Outputs : o # target[p] => tmp'[o] = tmp[o]
  BY DEF TypeOK

(* Writing one payload adds it to the .tmp and changes nothing else of it. *)
LEMMA TmpFileAdded ==
  ASSUME TypeOK, NEW p \in Procs, NEW f \in Files,
         tmp' = [tmp EXCEPT ![target[p]].files = @ \cup {f}]
  PROVE  /\ tmp'[target[p]].by = tmp[target[p]].by
         /\ tmp'[target[p]].files = tmp[target[p]].files \cup {f}
         /\ tmp'[target[p]] \in ImageState
         /\ \A o \in Outputs : o # target[p] => tmp'[o] = tmp[o]
<1>1. tmp[target[p]] \in ImageState /\ target[p] \in Outputs
  BY DEF TypeOK
<1>2. \A t \in ImageState : /\ [t EXCEPT !.files = t.files \cup {f}] \in ImageState
                            /\ [t EXCEPT !.files = t.files \cup {f}].by = t.by
                            /\ [t EXCEPT !.files = t.files \cup {f}].files = t.files \cup {f}
  BY DEF ImageState
<1> DEFINE new == [tmp[target[p]] EXCEPT !.files = tmp[target[p]].files \cup {f}]
<1>3. tmp' = [tmp EXCEPT ![target[p]] = new]
  OBVIOUS
<1>4. /\ new \in ImageState
      /\ new.by = tmp[target[p]].by
      /\ new.files = tmp[target[p]].files \cup {f}
  BY <1>1, <1>2
<1> HIDE DEF new
<1>5. QED
  BY <1>3, <1>4, TmpSet

(* Two running invocations work on different outputs.                      *)
LEMMA OthersElsewhere ==
  ASSUME TypeOK, OutputsExclusive, NEW p \in Procs, NEW q \in Procs, p # q,
         Running(p), Running(q)
  PROVE  target[q] # target[p]
  BY DEF OutputsExclusive

(* Nobody touches the .tmp of another running invocation.                  *)
LEMMA TmpIsOwnKept ==
  ASSUME TypeOK, TmpIsOwn, OutputsExclusive, LoopsComplete, CauseKnown, [Next]_vars
  PROVE  TmpIsOwn'
<1>1. ASSUME NEW p \in Procs, Start(p)
      PROVE  TmpIsOwn'
  <2>1. \A q \in Procs : pc'[q] \in {"write", "rename"} =>
          q # p /\ pc'[q] = pc[q] /\ target[q] # target[p]
    BY <1>1, GotoMoves DEF Start, Running, Ended
  <2>2. \A q \in Procs : pc'[q] \in {"write", "rename"} => tmp'[target[q]] = tmp[target[q]]
    BY <1>1, <2>1, TmpSet DEF Start, TypeOK
  <2>3. UNCHANGED <<target, storage>>
    BY <1>1 DEF Start
  <2>4. QED
    BY <2>1, <2>2, <2>3 DEF TmpIsOwn
<1>2. ASSUME NEW p \in Procs, Prompt(p) \/ Rename(p) \/ RemoveTmp(p)
      PROVE  TmpIsOwn'
  <2>1. Running(p) /\ UNCHANGED <<target, storage>>
    BY <1>2 DEF Prompt, Rename, RemoveTmp, Running, Ended
  <2>2. \A q \in Procs : pc'[q] \in {"write", "rename"} => q # p /\ pc'[q] = pc[q]
    BY <1>2, GotoMoves DEF Prompt, Rename, RemoveTmp, CauseKnown
  <2>3. \A q \in Procs : pc'[q] \in {"write", "rename"} => target[q] # target[p]
    BY <2>1, <2>2, OthersElsewhere DEF Running, Ended
  <2>4. \A q \in Procs : pc'[q] \in {"write", "rename"} => tmp'[target[q]] = tmp[target[q]]
    BY <1>2, <2>3, TmpSet DEF Prompt, Rename, RemoveTmp, TypeOK
  <2>5. QED
    BY <2>1, <2>2, <2>4 DEF TmpIsOwn
<1>3. ASSUME NEW p \in Procs, OpenTmp(p)
      PROVE  TmpIsOwn'
  <2>1. /\ pc[p] = "layout" /\ Goto(p, "write")
        /\ tmp' = [tmp EXCEPT ![target[p]] = [by |-> p, files |-> {}]]
        /\ UNCHANGED <<target, storage>>
    BY <1>3 DEF OpenTmp
  <2>2. \A q \in Procs : pc'[q] \in {"write", "rename"} /\ q # p =>
          pc'[q] = pc[q] /\ target[q] # target[p]
    BY <2>1, GotoMoves, OthersElsewhere DEF Running, Ended
  <2>3. \A q \in Procs : pc'[q] \in {"write", "rename"} /\ q # p =>
          tmp'[target[q]] = tmp[target[q]]
    BY <2>1, <2>2, TmpSet DEF TypeOK
  <2>4. tmp'[target[p]] = [by |-> p, files |-> {}]
    BY <2>1, TmpSet
  <2>5. \A f \in Files : storage[p][f] # "written"
    BY <2>1 DEF LoopsComplete
  <2>6. QED
    BY <2>1, <2>2, <2>3, <2>4, <2>5 DEF TmpIsOwn
<1>4. ASSUME NEW p \in Procs, NEW f \in Files, WritePayload(p, f)
      PROVE  TmpIsOwn'
  <2>1. /\ pc[p] = "write"
        /\ tmp' = [tmp EXCEPT ![target[p]].files = @ \cup {f}]
        /\ storage' = [storage EXCEPT ![p][f] = "written"]
        /\ UNCHANGED <<pc, target>>
    BY <1>4 DEF WritePayload
  <2>2. \A q \in Procs : pc[q] \in {"write", "rename"} /\ q # p => target[q] # target[p]
    BY <2>1, OthersElsewhere DEF Running, Ended
  <2>3. \A q \in Procs : pc[q] \in {"write", "rename"} /\ q # p =>
          tmp'[target[q]] = tmp[target[q]]
    BY <2>1, <2>2, TmpFileAdded DEF TypeOK
  <2>4. /\ tmp'[target[p]].by = tmp[target[p]].by
        /\ tmp'[target[p]].files = tmp[target[p]].files \cup {f}
    BY <2>1, TmpFileAdded
  <2>5. \A q \in Procs, g \in Files :
          storage'[q][g] = IF q = p /\ g = f THEN "written" ELSE storage[q][g]
    BY <2>1 DEF TypeOK
  <2>6. QED
    BY <2>1, <2>3, <2>4, <2>5 DEF TmpIsOwn
<1>5. ASSUME NEW p \in Procs,
             \/ SweepSpool(p) \/ DropSpool(p) \/ RaiseBeforeWrite(p) \/ EndCompress(p)
             \/ Validate(p) \/ Built(p) \/ RaiseInWrite(p) \/ Reraise(p)
             \/ HandlerRaises(p) \/ Verify(p) \/ Kill(p)
      PROVE  TmpIsOwn'
  <2>1. UNCHANGED <<target, storage, tmp>>
    BY <1>5 DEF SweepSpool, DropSpool, RaiseBeforeWrite, EndCompress, Validate, Built,
                RaiseInWrite, Reraise, HandlerRaises, Verify, Kill, fsVars
  <2>2. \A q \in Procs : pc'[q] \in {"write", "rename"} => pc[q] \in {"write", "rename"}
    BY <1>5, GotoMoves DEF SweepSpool, DropSpool, RaiseBeforeWrite, EndCompress,
         Validate, Built, RaiseInWrite, Reraise, HandlerRaises, Verify, Kill, CauseKnown
  <2>3. QED
    BY <2>1, <2>2 DEF TmpIsOwn
<1>6. ASSUME NEW p \in Procs, NEW f \in Files,
             \/ BeginEncode(p, f) \/ EndEncode(p, f) \/ TakeResult(p, f)
             \/ CompressOSError(p, f)
      PROVE  TmpIsOwn'
  <2>1. pc[p] = "compress" /\ UNCHANGED <<target, tmp>>
    BY <1>6 DEF BeginEncode, EndEncode, TakeResult, CompressOSError, fsVars
  <2>2. \A q \in Procs : pc'[q] \in {"write", "rename"} => q # p /\ pc'[q] = pc[q]
    BY <1>6, GotoMoves DEF BeginEncode, EndEncode, TakeResult, CompressOSError
  <2>3. \A q \in Procs : q # p => storage'[q] = storage[q]
    BY <1>6 DEF BeginEncode, EndEncode, TakeResult, CompressOSError, TypeOK
  <2>4. QED
    BY <2>1, <2>2, <2>3 DEF TmpIsOwn
<1>7. CASE Age \/ UNCHANGED vars
  BY <1>7 DEF Age, vars, TmpIsOwn
<1>8. QED
  BY <1>1, <1>2, <1>3, <1>4, <1>5, <1>6, <1>7 DEF Next

(* A .tmp is renamed or removed before its invocation ends, unless it is   *)
(* killed.                                                                 *)
LEMMA TmpHasOwnerKept ==
  ASSUME TypeOK, TmpHasOwner, TmpIsOwn, OutputsExclusive, CauseKnown, [Next]_vars
  PROVE  TmpHasOwner'
<1> DEFINE Holds(q) == \/ pc[q] \in {"write", "rename", "except", "killed"}
                       \/ q \in stuck /\ pc[q] = "failed"
<1>1. ASSUME NEW p \in Procs, Start(p) \/ Prompt(p) \/ Rename(p) \/ RemoveTmp(p)
      PROVE  TmpHasOwner'
  <2>1. UNCHANGED <<target, stuck>>
    BY <1>1 DEF Start, Prompt, Rename, RemoveTmp
  <2>2. \A q \in Procs : q # p => pc'[q] = pc[q]
    BY <1>1, GotoMoves DEF Start, Prompt, Rename, RemoveTmp
  <2>3. CASE pc[p] \in {"idle", "sweep"} /\ tmp' = tmp
    BY <2>1, <2>2, <2>3 DEF TmpHasOwner
  <2>4. CASE tmp' = [tmp EXCEPT ![target[p]] = Absent]
    <3>1. \A o \in Outputs : tmp'[o] # Absent => o # target[p] /\ tmp'[o] = tmp[o]
      BY <2>4, TmpSet
    <3>2. QED
      BY <2>1, <2>2, <3>1 DEF TmpHasOwner
  <2>5. QED
    BY <1>1, <2>3, <2>4 DEF Start, Prompt, Rename, RemoveTmp
<1>2. ASSUME NEW p \in Procs, OpenTmp(p)
      PROVE  TmpHasOwner'
  <2>1. /\ pc[p] = "layout" /\ Goto(p, "write")
        /\ tmp' = [tmp EXCEPT ![target[p]] = [by |-> p, files |-> {}]]
        /\ UNCHANGED <<target, stuck>>
    BY <1>2 DEF OpenTmp
  <2>2. /\ tmp'[target[p]] = [by |-> p, files |-> {}]
        /\ \A o \in Outputs : o # target[p] => tmp'[o] = tmp[o]
    BY <2>1, TmpSet
  <2>3. pc'[p] = "write" /\ \A q \in Procs : q # p => pc'[q] = pc[q]
    BY <2>1, GotoMoves
  <2>4. QED
    BY <2>1, <2>2, <2>3 DEF TmpHasOwner
<1>3. ASSUME NEW p \in Procs, NEW f \in Files, WritePayload(p, f)
      PROVE  TmpHasOwner'
  <2>1. /\ pc[p] = "write"
        /\ tmp' = [tmp EXCEPT ![target[p]].files = @ \cup {f}]
        /\ UNCHANGED <<pc, target, stuck>>
    BY <1>3 DEF WritePayload
  <2>2. /\ tmp'[target[p]].by = p
        /\ \A o \in Outputs : o # target[p] => tmp'[o] = tmp[o]
    BY <2>1, TmpFileAdded DEF TmpIsOwn
  <2>3. QED
    BY <2>1, <2>2 DEF TmpHasOwner
<1>4. ASSUME NEW p \in Procs,
             \/ SweepSpool(p) \/ DropSpool(p) \/ RaiseBeforeWrite(p) \/ EndCompress(p)
             \/ Validate(p) \/ Built(p) \/ RaiseInWrite(p) \/ Reraise(p)
             \/ HandlerRaises(p) \/ Verify(p) \/ Kill(p)
      PROVE  TmpHasOwner'
  <2>1. UNCHANGED <<target, tmp>>
    BY <1>4 DEF SweepSpool, DropSpool, RaiseBeforeWrite, EndCompress, Validate, Built,
                RaiseInWrite, Reraise, HandlerRaises, Verify, Kill, fsVars
  <2>2. \A q \in Procs : Holds(q) => Holds(q)'
    BY <1>4, GotoMoves DEF SweepSpool, DropSpool, RaiseBeforeWrite, EndCompress,
         Validate, Built, RaiseInWrite, Reraise, HandlerRaises, Verify, Kill, Running, Ended
  <2>3. QED
    BY <2>1, <2>2 DEF TmpHasOwner
<1>5. ASSUME NEW p \in Procs, NEW f \in Files,
             \/ BeginEncode(p, f) \/ EndEncode(p, f) \/ TakeResult(p, f)
             \/ CompressOSError(p, f)
      PROVE  TmpHasOwner'
  <2>1. pc[p] = "compress" /\ UNCHANGED <<target, tmp, stuck>>
    BY <1>5 DEF BeginEncode, EndEncode, TakeResult, CompressOSError, fsVars
  <2>2. \A q \in Procs : q # p => pc'[q] = pc[q]
    BY <1>5, GotoMoves DEF BeginEncode, EndEncode, TakeResult, CompressOSError
  <2>3. QED
    BY <2>1, <2>2 DEF TmpHasOwner
<1>6. CASE Age \/ UNCHANGED vars
  BY <1>6 DEF Age, vars, TmpHasOwner
<1>7. QED
  BY <1>1, <1>2, <1>3, <1>4, <1>5, <1>6 DEF Next

(* Only a complete .tmp is renamed to the output.                          *)
LEMMA ImageWholeOrAbsentKept ==
  ASSUME TypeOK, ImageWholeOrAbsent, TmpIsOwn, LoopsComplete, [Next]_vars
  PROVE  ImageWholeOrAbsent'
<1>1. ASSUME NEW p \in Procs, Rename(p)
      PROVE  ImageWholeOrAbsent'
  <2>1. pc[p] = "rename" /\ image' = [image EXCEPT ![target[p]] = tmp[target[p]]]
    BY <1>1 DEF Rename
  <2>2. tmp[target[p]].files \subseteq Files
    BY DEF TypeOK, ImageState
  <2>3. tmp[target[p]].files = Files
    BY <2>1, <2>2 DEF TmpIsOwn, LoopsComplete
  <2>4. QED
    BY <2>1, <2>3 DEF ImageWholeOrAbsent, TypeOK
<1>2. ASSUME NEW p \in Procs, Prompt(p)
      PROVE  ImageWholeOrAbsent'
  <2>1. image' = image \/ image' = [image EXCEPT ![target[p]] = Absent]
    BY <1>2 DEF Prompt
  <2>2. QED
    BY <2>1 DEF ImageWholeOrAbsent, TypeOK
<1>3. ASSUME image' = image
      PROVE  ImageWholeOrAbsent'
  BY <1>3 DEF ImageWholeOrAbsent
<1>4. ASSUME NEW p \in Procs,
             \/ Start(p) \/ SweepSpool(p) \/ RaiseBeforeWrite(p) \/ EndCompress(p)
             \/ OpenTmp(p) \/ Validate(p) \/ DropSpool(p) \/ Built(p) \/ RaiseInWrite(p)
             \/ RemoveTmp(p) \/ Reraise(p) \/ HandlerRaises(p) \/ Verify(p) \/ Kill(p)
      PROVE  ImageWholeOrAbsent'
  BY <1>3, <1>4 DEF Start, SweepSpool, RaiseBeforeWrite, EndCompress, OpenTmp, Validate,
       DropSpool, Built, RaiseInWrite, RemoveTmp, Reraise, HandlerRaises, Verify, Kill, fsVars
<1>5. ASSUME NEW p \in Procs, NEW f \in Files,
             \/ BeginEncode(p, f) \/ EndEncode(p, f) \/ TakeResult(p, f)
             \/ CompressOSError(p, f) \/ WritePayload(p, f)
      PROVE  ImageWholeOrAbsent'
  BY <1>3, <1>5 DEF BeginEncode, EndEncode, TakeResult, CompressOSError, WritePayload,
       fsVars
<1>6. CASE Age \/ UNCHANGED vars
  BY <1>3, <1>6 DEF Age, vars
<1>7. QED
  BY <1>1, <1>2, <1>4, <1>5, <1>6 DEF Next

(* After the .tmp was opened there is no way back to compression.          *)
LEMMA WroteInOrderKept ==
  ASSUME TypeOK, WroteInOrder, CauseKnown, [Next]_vars
  PROVE  WroteInOrder'
<1>1. ASSUME NEW p \in Procs, OpenTmp(p)
      PROVE  WroteInOrder'
  BY <1>1, GotoMoves DEF OpenTmp, WroteInOrder
<1>2. ASSUME NEW p \in Procs,
             \/ Start(p) \/ SweepSpool(p) \/ Prompt(p) \/ RaiseBeforeWrite(p)
             \/ EndCompress(p) \/ Validate(p) \/ Rename(p) \/ DropSpool(p) \/ Built(p)
             \/ RaiseInWrite(p) \/ RemoveTmp(p) \/ Reraise(p) \/ HandlerRaises(p) \/ Verify(p) \/ Kill(p)
      PROVE  WroteInOrder'
  BY <1>2, GotoMoves DEF Start, SweepSpool, Prompt, RaiseBeforeWrite, EndCompress,
       Validate, Rename, DropSpool, Built, RaiseInWrite, RemoveTmp, Reraise, HandlerRaises, Verify, Kill,
       WroteInOrder, CauseKnown
<1>3. ASSUME NEW p \in Procs, NEW f \in Files,
             \/ BeginEncode(p, f) \/ EndEncode(p, f) \/ TakeResult(p, f)
             \/ CompressOSError(p, f) \/ WritePayload(p, f)
      PROVE  WroteInOrder'
  BY <1>3, GotoMoves DEF BeginEncode, EndEncode, TakeResult, CompressOSError,
       WritePayload, WroteInOrder
<1>4. CASE Age \/ UNCHANGED vars
  BY <1>4 DEF Age, vars, WroteInOrder
<1>5. QED
  BY <1>1, <1>2, <1>3, <1>4 DEF Next

(* The clean end and the except clause both remove all spools, and none is *)
(* created after them.                                                     *)
LEMMA SpoolsGoneKept ==
  ASSUME TypeOK, SpoolsGone, WroteInOrder, CauseKnown, [Next]_vars
  PROVE  SpoolsGone'
<1> DEFINE Clean(q) == \/ pc[q] \in {"verify", "ok", "rejected"}
                       \/ q \in wrote \ stuck /\ pc[q] \in {"failed", "cancelled"}
<1>1. ASSUME NEW p \in Procs, Built(p) \/ Reraise(p)
      PROVE  SpoolsGone'
  <2>1. \A q \in Procs : q # p => pc'[q] = pc[q]
    BY <1>1, GotoMoves DEF Built, Reraise
  <2>2. UNCHANGED <<wrote, stuck>> /\ \A s \in SpoolIds : spool'[s] # "none" => spool[s] # "none"
    BY <1>1 DEF Built, Reraise, Unlink, fsVars
  <2>3. \A s \in SpoolsOf(p) : s \in SpoolIds /\ spool'[s] = "none"
    BY <1>1 DEF Built, Reraise, Unlink, fsVars, SpoolsOf, SpoolIds
  <2>4. \A q \in Procs : \A s \in SpoolsOf(q) : s \in SpoolIds
    BY DEF SpoolsOf, SpoolIds
  <2>5. QED
    BY <2>1, <2>2, <2>3, <2>4 DEF SpoolsGone
<1>2. ASSUME \A q \in Procs : Clean(q)' => Clean(q),
             \A q \in Procs : Clean(q) => \A s \in SpoolsOf(q) :
                                spool'[s] # "none" => spool[s] # "none"
      PROVE  SpoolsGone'
  BY <1>2 DEF SpoolsGone
<1>3. ASSUME NEW p \in Procs,
             \/ Start(p) \/ SweepSpool(p) \/ Prompt(p) \/ RaiseBeforeWrite(p)
             \/ EndCompress(p) \/ OpenTmp(p) \/ Validate(p) \/ Rename(p) \/ DropSpool(p)
             \/ RaiseInWrite(p) \/ RemoveTmp(p) \/ HandlerRaises(p) \/ Verify(p) \/ Kill(p)
      PROVE  SpoolsGone'
  <2>1. \A q \in Procs : Clean(q)' => Clean(q)
    BY <1>3, GotoMoves DEF Start, SweepSpool, Prompt, RaiseBeforeWrite, EndCompress,
         OpenTmp, Validate, Rename, DropSpool, RaiseInWrite, RemoveTmp, HandlerRaises, Verify, Kill, WroteInOrder
  <2>2. \A s \in SpoolIds : spool'[s] # "none" => spool[s] # "none"
    BY <1>3 DEF Start, SweepSpool, Prompt, RaiseBeforeWrite, EndCompress, OpenTmp,
         Validate, Rename, DropSpool, RaiseInWrite, RemoveTmp, HandlerRaises, Verify, Kill, Unlink, fsVars
  <2>3. QED
    BY <1>2, <2>1, <2>2 DEF SpoolsOf, SpoolIds
<1>4. ASSUME NEW p \in Procs, NEW f \in Files,
             \/ BeginEncode(p, f) \/ EndEncode(p, f) \/ TakeResult(p, f)
             \/ CompressOSError(p, f) \/ WritePayload(p, f)
      PROVE  SpoolsGone'
  <2>1. ~Clean(p) /\ \A q \in Procs : Clean(q)' => Clean(q)
    BY <1>4, GotoMoves DEF BeginEncode, EndEncode, TakeResult, CompressOSError,
         WritePayload, WroteInOrder
  <2>2. \A q \in Procs : q # p => \A s \in SpoolsOf(q) :
          spool'[s] # "none" => spool[s] # "none"
    BY <1>4 DEF BeginEncode, EndEncode, TakeResult, CompressOSError, WritePayload,
         Unlink, fsVars, SpoolsOf, SpoolIds, TypeOK
  <2>3. QED
    BY <1>2, <2>1, <2>2
<1>5. CASE Age \/ UNCHANGED vars
  BY <1>5 DEF Age, vars, SpoolsGone
<1>6. QED
  BY <1>1, <1>3, <1>4, <1>5 DEF Next

(* Between the rename and the start of the next invocation nobody replaces *)
(* the output.                                                             *)
LEMMA ImageIsOwnKept ==
  ASSUME TypeOK, ImageIsOwn, TmpIsOwn, CauseKnown, [Next]_vars
  PROVE  ImageIsOwn'
<1> DEFINE Past(q) == pc[q] \in {"unspool", "verify", "ok", "rejected"}
           Aside(q) == pc[q] \in {"idle", "refused"}
           Owns(q) == /\ Past(q)
                      /\ \A r \in Procs \ {q} : target[r] = target[q] => Aside(r)
<1>1. ASSUME NEW p \in Procs, Prompt(p) \/ Rename(p)
      PROVE  ImageIsOwn'
  <2>1. target' = target /\ \A q \in Procs : q # p => pc'[q] = pc[q]
    BY <1>1, GotoMoves DEF Prompt, Rename
  <2>2. ~Aside(p)'
    BY <1>1, GotoMoves DEF Prompt, Rename
  <2>3. \A o \in Outputs : o # target[p] => image'[o] = image[o]
    BY <1>1 DEF Prompt, Rename, TypeOK
  <2>4. \A q \in Procs : q # p /\ Owns(q)' => Owns(q) /\ target[q] # target[p]
    BY <2>1, <2>2
  <2>5. Past(p)' => image'[target[p]].by = p
    BY <1>1, GotoMoves DEF Prompt, Rename, TmpIsOwn, TypeOK
  <2>6. QED
    BY <2>1, <2>3, <2>4, <2>5 DEF ImageIsOwn, TypeOK
<1>2. ASSUME NEW p \in Procs, UNCHANGED <<target, image>>,
             Past(p)' => Past(p), Aside(p)' => Aside(p),
             \A q \in Procs : q # p => pc'[q] = pc[q]
      PROVE  ImageIsOwn'
  BY <1>2 DEF ImageIsOwn
<1>3. ASSUME NEW p \in Procs,
             \/ Start(p) \/ SweepSpool(p) \/ RaiseBeforeWrite(p) \/ EndCompress(p)
             \/ OpenTmp(p) \/ Validate(p) \/ DropSpool(p) \/ Built(p) \/ RaiseInWrite(p)
             \/ RemoveTmp(p) \/ Reraise(p) \/ HandlerRaises(p) \/ Verify(p) \/ Kill(p)
      PROVE  ImageIsOwn'
  <2>1. UNCHANGED <<target, image>>
    BY <1>3 DEF Start, SweepSpool, RaiseBeforeWrite, EndCompress, OpenTmp, Validate,
         DropSpool, Built, RaiseInWrite, RemoveTmp, Reraise, HandlerRaises, Verify, Kill, fsVars
  <2>2. \A q \in Procs : q # p => pc'[q] = pc[q]
    BY <1>3, GotoMoves DEF Start, SweepSpool, RaiseBeforeWrite, EndCompress, OpenTmp,
         Validate, DropSpool, Built, RaiseInWrite, RemoveTmp, Reraise, HandlerRaises, Verify, Kill
  <2>3. (Past(p)' => Past(p)) /\ (Aside(p)' => Aside(p))
    BY <1>3, GotoMoves DEF Start, SweepSpool, RaiseBeforeWrite, EndCompress, OpenTmp,
         Validate, DropSpool, Built, RaiseInWrite, RemoveTmp, Reraise, HandlerRaises, Verify, Kill, CauseKnown
  <2>4. QED
    BY <1>2, <2>1, <2>2, <2>3
<1>4. ASSUME NEW p \in Procs, NEW f \in Files,
             \/ BeginEncode(p, f) \/ EndEncode(p, f) \/ TakeResult(p, f)
             \/ CompressOSError(p, f) \/ WritePayload(p, f)
      PROVE  ImageIsOwn'
  <2>1. UNCHANGED <<target, image>> /\ \A q \in Procs : q # p => pc'[q] = pc[q]
    BY <1>4, GotoMoves DEF BeginEncode, EndEncode, TakeResult, CompressOSError,
         WritePayload, fsVars
  <2>2. ~Past(p)' /\ ~Aside(p)'
    BY <1>4, GotoMoves DEF BeginEncode, EndEncode, TakeResult, CompressOSError,
         WritePayload
  <2>3. QED
    BY <1>2, <2>1, <2>2
<1>5. CASE Age \/ UNCHANGED vars
  BY <1>5 DEF Age, vars, ImageIsOwn
<1>6. QED
  BY <1>1, <1>3, <1>4, <1>5 DEF Next

(* Removing a .tmp or an output keeps the shape of the file system.        *)
LEMMA AbsentTyped ==
  ASSUME TypeOK, NEW p \in Procs
  PROVE  /\ [tmp EXCEPT ![target[p]] = Absent] \in [Outputs -> ImageState]
         /\ [image EXCEPT ![target[p]] = Absent] \in [Outputs -> ImageState]
<1>1. Absent \in ImageState
  BY DEF Absent, ImageState
<1>2. QED
  BY <1>1 DEF TypeOK

(* Every step keeps the shape of the variables.                            *)
LEMMA TypeOKKept ==
  ASSUME TypeOK, EncodingIsFresh, CauseKnown, [Next]_vars
  PROVE  TypeOK'
<1>1. ASSUME NEW p \in Procs, Start(p)
      PROVE  TypeOK'
  <2>1. tmp' \in [Outputs -> ImageState]
    BY <1>1, AbsentTyped DEF Start, TypeOK
  <2>2. pc' \in [Procs -> Ended \cup {"idle", "sweep", "compress", "layout", "write",
                                      "rename", "unspool", "except", "clear",
                                      "verify"}]
    BY <1>1 DEF Start, TypeOK, Goto, Ended
  <2>3. listed' \in [Procs -> SUBSET SpoolIds]
    BY <1>1 DEF Start, TypeOK
  <2>4. QED
    BY <1>1, <2>1, <2>2, <2>3 DEF Start, TypeOK
<1>2. ASSUME NEW p \in Procs, SweepSpool(p) \/ DropSpool(p)
      PROVE  TypeOK'
  <2>1. /\ spool' \in [SpoolIds -> {"none", "partial", "complete"}]
        /\ old' \subseteq {s \in SpoolIds : spool'[s] # "none"}
    BY <1>2 DEF SweepSpool, DropSpool, Unlink, TypeOK
  <2>2. listed' \in [Procs -> SUBSET SpoolIds]
    BY <1>2 DEF SweepSpool, DropSpool, TypeOK
  <2>3. QED
    BY <1>2, <2>1, <2>2 DEF SweepSpool, DropSpool, TypeOK
<1>3. ASSUME NEW p \in Procs, Prompt(p)
      PROVE  TypeOK'
  <2>1. tmp' \in [Outputs -> ImageState] /\ image' \in [Outputs -> ImageState]
    <3>1. /\ tmp' = tmp \/ tmp' = [tmp EXCEPT ![target[p]] = Absent]
          /\ image' = image \/ image' = [image EXCEPT ![target[p]] = Absent]
      BY <1>3 DEF Prompt
    <3>2. tmp \in [Outputs -> ImageState] /\ image \in [Outputs -> ImageState]
      BY DEF TypeOK
    <3>3. QED
      BY <3>1, <3>2, AbsentTyped
  <2>2. pc' \in [Procs -> Ended \cup {"idle", "sweep", "compress", "layout", "write",
                                      "rename", "unspool", "except", "clear",
                                      "verify"}]
    BY <1>3 DEF Prompt, TypeOK, Goto, Ended
  <2>3. QED
    BY <1>3, <2>1, <2>2 DEF Prompt, TypeOK
<1>4. ASSUME NEW p \in Procs,
             \/ RaiseBeforeWrite(p) \/ EndCompress(p) \/ Validate(p) \/ Built(p)
             \/ RaiseInWrite(p) \/ Reraise(p) \/ HandlerRaises(p) \/ Verify(p) \/ Kill(p)
      PROVE  TypeOK'
  <2>1. pc' \in [Procs -> Ended \cup {"idle", "sweep", "compress", "layout", "write",
                                      "rename", "unspool", "except", "clear",
                                      "verify"}]
    BY <1>4 DEF RaiseBeforeWrite, EndCompress, Validate, Built, RaiseInWrite, Reraise,
         HandlerRaises, Verify, Kill, CauseKnown,
         TypeOK, Goto, Ended
  <2>2. cause' \in [Procs -> {"none", "failed", "cancelled"}]
    BY <1>4 DEF RaiseBeforeWrite, EndCompress, Validate, Built, RaiseInWrite, Reraise,
         HandlerRaises, Verify, Kill, CauseKnown, TypeOK
  <2>3. UNCHANGED <<target, listed, storage, spool, old, tmp, image, wrote>>
    BY <1>4 DEF RaiseBeforeWrite, EndCompress, Validate, Built, RaiseInWrite, Reraise,
         HandlerRaises, Verify, Kill, fsVars
  <2>4. stuck' \subseteq Procs
    BY <1>4 DEF RaiseBeforeWrite, EndCompress, Validate, Built, RaiseInWrite, Reraise,
         HandlerRaises, Verify, Kill, TypeOK
  <2>5. QED
    BY <2>1, <2>2, <2>3, <2>4 DEF TypeOK
<1>5. ASSUME NEW p \in Procs, OpenTmp(p)
      PROVE  TypeOK'
  BY <1>5 DEF OpenTmp, TypeOK, Goto, ImageState
<1>6. ASSUME NEW p \in Procs, Rename(p)
      PROVE  TypeOK'
  BY <1>6 DEF Rename, TypeOK, Goto, Absent, ImageState
<1>7. ASSUME NEW p \in Procs, RemoveTmp(p)
      PROVE  TypeOK'
  BY <1>7 DEF RemoveTmp, TypeOK, Goto, Ended, Absent, ImageState, CauseKnown
<1>8. ASSUME NEW p \in Procs, NEW f \in Files,
             \/ BeginEncode(p, f) \/ EndEncode(p, f) \/ CompressOSError(p, f)
      PROVE  TypeOK'
  <2>1. storage' \in [Procs -> [Files -> {"todo", "encoding", "encoded", "raw",
                                          "spooled", "written"}]]
    <3>1. \/ storage' = storage
          \/ \E v \in {"encoding", "encoded"} : storage' = [storage EXCEPT ![p][f] = v]
      BY <1>8 DEF BeginEncode, EndEncode, CompressOSError
    <3> DEFINE S == {"todo", "encoding", "encoded", "raw", "spooled", "written"}
    <3>2. storage \in [Procs -> [Files -> S]]
      BY DEF TypeOK
    <3>3. ASSUME NEW v \in {"encoding", "encoded"}, storage' = [storage EXCEPT ![p][f] = v]
          PROVE  storage' \in [Procs -> [Files -> S]]
      <4> DEFINE row == [storage[p] EXCEPT ![f] = v]
      <4>1. v \in S /\ storage[p] \in [Files -> S] /\ storage' = [storage EXCEPT ![p] = row]
        BY <3>2, <3>3
      <4> HIDE DEF S
      <4>2. row \in [Files -> S]
        BY <4>1
      <4> HIDE DEF row
      <4>3. QED
        BY <3>2, <4>1, <4>2
    <3>4. QED
      BY <3>1, <3>2, <3>3
  <2>2. <<p, f>> \in SpoolIds /\ (EndEncode(p, f) => <<p, f>> \notin old)
    BY <1>8 DEF SpoolIds, EndEncode, EncodingIsFresh
  <2>3. /\ spool' \in [SpoolIds -> {"none", "partial", "complete"}]
        /\ old' \subseteq {s \in SpoolIds : spool'[s] # "none"}
    <3>1. CASE BeginEncode(p, f)
      BY <2>2, <3>1 DEF BeginEncode, TypeOK
    <3>2. CASE EndEncode(p, f)
      BY <2>2, <3>2 DEF EndEncode, TypeOK
    <3>3. CASE CompressOSError(p, f)
      BY <3>3 DEF CompressOSError, Unlink, TypeOK
    <3>4. QED
      BY <1>8, <3>1, <3>2, <3>3
  <2>4. pc' \in [Procs -> Ended \cup {"idle", "sweep", "compress", "layout", "write",
                                      "rename", "unspool", "except", "clear",
                                      "verify"}]
    BY <1>8 DEF BeginEncode, EndEncode, CompressOSError, TypeOK, Goto, Ended
  <2>5. QED
    BY <1>8, <2>1, <2>3, <2>4 DEF BeginEncode, EndEncode, CompressOSError, TypeOK
<1>9. ASSUME NEW p \in Procs, NEW f \in Files, TakeResult(p, f)
      PROVE  TypeOK'
  BY <1>9 DEF TakeResult, TypeOK, fsVars
<1>10. ASSUME NEW p \in Procs, NEW f \in Files, WritePayload(p, f)
       PROVE  TypeOK'
  <2>1. tmp' = [tmp EXCEPT ![target[p]].files = @ \cup {f}]
    BY <1>10 DEF WritePayload
  <2>2. tmp' \in [Outputs -> ImageState]
    <3>1. \A o \in Outputs : tmp'[o] \in ImageState
      BY <2>1, TmpFileAdded DEF TypeOK
    <3>2. \E x : tmp' = [tmp EXCEPT ![target[p]] = x]
      BY <2>1
    <3>3. QED
      BY <3>1, <3>2 DEF TypeOK
  <2>3. storage' \in [Procs -> [Files -> {"todo", "encoding", "encoded", "raw",
                                          "spooled", "written"}]]
    BY <1>10 DEF WritePayload, TypeOK
  <2>4. QED
    BY <1>10, <2>2, <2>3 DEF WritePayload, TypeOK
<1>11. CASE Age
  <2>1. PICK p \in Procs, f \in Files : spool[<<p, f>>] # "none" /\ old' = old \cup {<<p, f>>}
    BY <1>11 DEF Age
  <2>2. <<p, f>> \in SpoolIds
    BY DEF SpoolIds
  <2>3. QED
    BY <1>11, <2>1, <2>2 DEF Age, TypeOK
<1>12. CASE UNCHANGED vars
  BY <1>12 DEF vars, TypeOK
<1>13. QED
  BY <1>1, <1>2, <1>3, <1>4, <1>5, <1>6, <1>7, <1>8, <1>9, <1>10, <1>11, <1>12 DEF Next

-----------------------------------------------------------------------------
(* The theorems                                                            *)

(* The inductive invariant holds in every reachable state.                 *)
THEOREM Invariance == Spec => []IInv
<1>1. Init => IInv
  <2>1. ASSUME Init
        PROVE  TypeOK
    BY <2>1 DEF Init, TypeOK, Ended, Absent, Previous, ImageState
  <2>2. ASSUME Init
        PROVE  ImageWholeOrAbsent
    BY <2>1, <2>2 DEF Init, ImageWholeOrAbsent, Absent, Previous
  <2>3. ASSUME Init
        PROVE  /\ EncodingIsFresh /\ OutputsExclusive /\ LoopsComplete /\ TmpIsOwn
               /\ TmpHasOwner /\ WroteInOrder /\ CauseKnown /\ SpoolsGone /\ ImageIsOwn
    BY <2>3 DEF Init, EncodingIsFresh, OutputsExclusive, LoopsComplete, TmpIsOwn,
         TmpHasOwner, WroteInOrder, CauseKnown, SpoolsGone, ImageIsOwn, Running
  <2>4. QED
    BY <2>1, <2>2, <2>3 DEF IInv
<1>2. IInv /\ [Next]_vars => IInv'
  BY TypeOKKept, EncodingIsFreshKept, OutputsExclusiveKept, LoopsCompleteKept,
     TmpIsOwnKept, TmpHasOwnerKept, ImageWholeOrAbsentKept, WroteInOrderKept,
     CauseKnownKept, SpoolsGoneKept, ImageIsOwnKept
     DEF IInv
<1>3. QED
  BY <1>1, <1>2, PTL DEF Spec

(* Type correctness, for every number of invocations, outputs and files.   *)
THEOREM TypeCorrect == Spec => []TypeOK
<1>1. IInv => TypeOK
  BY DEF IInv
<1>2. QED
  BY <1>1, Invariance, PTL

(* The output is a whole image or absent, whatever fails, is cancelled or  *)
(* killed, and whatever other invocations sweep away meanwhile.            *)
THEOREM WholeImages == Spec => []ImageWholeOrAbsent
<1>1. IInv => ImageWholeOrAbsent
  BY DEF IInv
<1>2. QED
  BY <1>1, Invariance, PTL

(* Once writing has begun, the error path leaves nothing behind, unless it *)
(* is killed or refused an unlink itself.                                  *)
THEOREM NothingLeftBehind == Spec => []NoLeftoversAfterWrite
<1>1. IInv => NoLeftoversAfterWrite
  <2>1. ASSUME IInv, NEW p \in wrote \ stuck, pc[p] \in Ended \ {"killed"}
        PROVE  \A s \in SpoolsOf(p) : spool[s] = "none"
    BY <2>1 DEF IInv, TypeOK, WroteInOrder, SpoolsGone, Ended
  <2>2. ASSUME IInv, NEW o \in Outputs, tmp[o] # Absent
        PROVE  Running(tmp[o].by) \/ pc[tmp[o].by] = "killed" \/ tmp[o].by \in stuck
    BY <2>2 DEF IInv, TmpHasOwner, Running, Ended
  <2>3. QED
    BY <2>1, <2>2 DEF NoLeftoversAfterWrite
<1>2. QED
  BY <1>1, Invariance, PTL

(* What a successful invocation reports on is the image it wrote.          *)
THEOREM ReportsOwnImage == Spec => []SuccessMeansOwnImage
<1>1. IInv => SuccessMeansOwnImage
  BY DEF IInv, ImageIsOwn, SuccessMeansOwnImage
<1>2. QED
  BY <1>1, Invariance, PTL
=============================================================================
