----------------------------- MODULE PfscWindow -----------------------------
(***************************************************************************)
(* The pooled branch of _encode_pfsc_stream_into_handle (a thread pool,    *)
(* the driver reads the source) and of _encode_pfsc_into_handle (a process *)
(* pool, the workers read it).  The driver submits blocks up to a window   *)
(* ahead of the one it is writing, workers finish them in any order, and   *)
(* the driver writes the oldest submitted block once its result is in.     *)
(***************************************************************************)
EXTENDS PfscSerial

CONSTANTS
  Workers,        \* pool workers
  WindowFactor,   \* blocks in flight per worker (4, or MKPFS_PFSC_WINDOW_FACTOR)
  MaxDeaths       \* bound: worker processes killed from outside during one run

ASSUME WindowAssumption ==
  /\ IsFiniteSet(Workers) /\ Workers # {}
  /\ WindowFactor \in Nat \ {0}
  /\ MaxDeaths \in Nat

VARIABLES
  pending,   \* the deque of futures, oldest first, as block numbers
  task,      \* state of the task of every submitted block
  job,       \* what each worker is compressing, 0 when idle
  deaths     \* workers lost so far

wvars == <<srcLen, clen, image, offsets, phase, pending, task, job, deaths>>

MaxInFlight == Cardinality(Workers) * WindowFactor

Submitted == Len(image) + Len(pending)

(* "returned" is a future whose result was taken by the driver.            *)
TaskState == {"new", "queued", "running", "done", "error", "lost", "returned"}

BlockIds == 1..SourceBlocks

Init ==
  /\ SInit
  /\ pending = <<>>
  /\ task = [b \in BlockIds |-> "new"]
  /\ job = [w \in Workers |-> 0]
  /\ deaths = 0

-----------------------------------------------------------------------------
(* The driver                                                              *)

(* Mutant: work is handed out as fast as the source can be read.           *)
SubmitUnbounded ==
  /\ phase = "encoding"
  /\ Submitted < SourceBlocks
  /\ pending' = Append(pending, Submitted + 1)
  /\ task' = [task EXCEPT ![Submitted + 1] = "queued"]
  /\ UNCHANGED <<srcLen, clen, image, offsets, phase, job, deaths>>

(* Mutant: the end of the source is not noticed.                           *)
SubmitPastEnd ==
  /\ phase = "encoding"
  /\ Len(pending) < MaxInFlight
  /\ Submitted <= SourceBlocks
  /\ pending' = Append(pending, Submitted + 1)
  /\ task' = [b \in DOMAIN task \cup {Submitted + 1} |->
               IF b = Submitted + 1 THEN "queued" ELSE task[b]]
  /\ UNCHANGED <<srcLen, clen, image, offsets, phase, job, deaths>>

(* pending.append(pool.submit(...)), with room in the window.              *)
Submit ==
  /\ phase = "encoding"
  /\ Submitted < SourceBlocks
  /\ Len(pending) < MaxInFlight
  /\ pending' = Append(pending, Submitted + 1)
  /\ task' = [task EXCEPT ![Submitted + 1] = "queued"]
  /\ UNCHANGED <<srcLen, clen, image, offsets, phase, job, deaths>>

(* Mutant: off by one, the driver waits for a window it never fills.       *)
TakesResultOffByOne ==
  /\ phase = "encoding"
  /\ pending # <<>>
  /\ Len(pending) > MaxInFlight \/ Submitted = SourceBlocks

(* The driver only takes a result when the window is full or the source    *)
(* is exhausted, and then blocks on the oldest future.                     *)
TakesResult ==
  /\ phase = "encoding"
  /\ pending # <<>>
  /\ Len(pending) >= MaxInFlight \/ Submitted = SourceBlocks

(* Mutant: results are written as they complete.                           *)
WriteFirstDone ==
  /\ TakesResult
  /\ \E k \in 1..Len(pending) :
       /\ task[pending[k]] = "done"
       /\ AppendBlock(pending[k])
       /\ pending' = SelectSeq(pending, LAMBDA b : b # pending[k])
       /\ task' = [task EXCEPT ![pending[k]] = "returned"]
  /\ phase' \in {"encoding", "unwinding"}
  /\ UNCHANGED <<srcLen, clen, job, deaths>>

(* _write(pending.popleft().result()): the progress callback at its end    *)
(* may raise, after the block and its offset were recorded.                *)
WriteOldest ==
  /\ TakesResult
  /\ task[Head(pending)] = "done"
  /\ AppendBlock(Head(pending))
  /\ pending' = Tail(pending)
  /\ task' = [task EXCEPT ![Head(pending)] = "returned"]
  /\ phase' \in {"encoding", "unwinding"}
  /\ UNCHANGED <<srcLen, clen, job, deaths>>

(* The oldest future re-raises its worker's exception in the driver, or    *)
(* out.write raises before the block and its offset are recorded.          *)
RaiseOldest ==
  /\ TakesResult
  /\ task[Head(pending)] \in {"done", "error"}
  /\ pending' = Tail(pending)
  /\ task' = [task EXCEPT ![Head(pending)] = "returned"]
  /\ phase' = "unwinding"
  /\ UNCHANGED <<srcLen, clen, image, offsets, job, deaths>>

(* The stream iterator raises while the driver pulls the next block.       *)
SourceRaises ==
  /\ phase = "encoding"
  /\ Variant = "stream"
  /\ Submitted < SourceBlocks
  /\ phase' = "unwinding"
  /\ UNCHANGED <<srcLen, clen, image, offsets, pending, task, job, deaths>>

(* Leaving the with block on an exception: a thread pool waits until its   *)
(* queue has run dry, a process pool is terminated with its tasks.         *)
PoolExit ==
  /\ phase = "unwinding"
  /\ IF Variant = "stream"
     THEN /\ \A w \in Workers : job[w] = 0
          /\ \A b \in BlockIds : task[b] # "queued"
          /\ UNCHANGED <<task, job>>
     ELSE /\ task' = [b \in BlockIds |->
                       IF task[b] \in {"queued", "running"} THEN "lost" ELSE task[b]]
          /\ job' = [w \in Workers |-> 0]
  /\ phase' = "failed"
  /\ UNCHANGED <<srcLen, clen, image, offsets, pending, deaths>>

(* Mutant: the loop that drains the deque after the last block is missing. *)
FinishUndrained ==
  /\ phase = "encoding"
  /\ Submitted = SourceBlocks
  /\ phase' = Outcome
  /\ UNCHANGED <<srcLen, clen, image, offsets, pending, task, job, deaths>>

(* The loop and the deque have run out: the verdict on the payload.        *)
Finish ==
  /\ phase = "encoding"
  /\ pending = <<>>
  /\ Len(image) = SourceBlocks
  /\ phase' = Outcome
  /\ UNCHANGED <<srcLen, clen, image, offsets, pending, task, job, deaths>>

-----------------------------------------------------------------------------
(* The workers                                                             *)

PoolAlive == phase \in {"encoding", "unwinding"}

(* The pool's task queue is first in, first out.                           *)
Take(w) ==
  /\ PoolAlive
  /\ job[w] = 0
  /\ \E b \in BlockIds :
       /\ task[b] = "queued"
       /\ \A c \in BlockIds : task[c] = "queued" => b <= c
       /\ job' = [job EXCEPT ![w] = b]
       /\ task' = [task EXCEPT ![b] = "running"]
  /\ UNCHANGED <<srcLen, clen, image, offsets, phase, pending, deaths>>

(* compress_block returns, or raises a CompressionError or an OSError.     *)
Complete(w) ==
  /\ PoolAlive
  /\ job[w] # 0
  /\ \E outcome \in {"done", "error"} : task' = [task EXCEPT ![job[w]] = outcome]
  /\ job' = [job EXCEPT ![w] = 0]
  /\ UNCHANGED <<srcLen, clen, image, offsets, phase, pending, deaths>>

(* A worker process is killed: mp.Pool replaces it, its task is lost and   *)
(* nobody ever completes the future.                                       *)
Die(w) ==
  /\ Variant = "file"
  /\ PoolAlive
  /\ deaths < MaxDeaths
  /\ job[w] # 0
  /\ task' = [task EXCEPT ![job[w]] = "lost"]
  /\ job' = [job EXCEPT ![w] = 0]
  /\ deaths' = deaths + 1
  /\ UNCHANGED <<srcLen, clen, image, offsets, phase, pending>>

Driver == Submit \/ WriteOldest \/ RaiseOldest \/ PoolExit \/ Finish

Next ==
  \/ Driver
  \/ SourceRaises
  \/ \E w \in Workers : Take(w) \/ Complete(w) \/ Die(w)

Spec == Init /\ [][Next]_wvars

-----------------------------------------------------------------------------
(* Properties                                                              *)

(* Every variable keeps its shape.                                         *)
TypeOK ==
  /\ STypeOK
  /\ pending \in Seq(BlockIds)
  /\ task \in [BlockIds -> TaskState]
  /\ job \in [Workers -> BlockIds \cup {0}]
  /\ deaths \in 0..MaxDeaths

(* Blocks that were handed to the pool and whose bytes are not yet in the  *)
(* file: each of them holds its raw or compressed bytes in memory.         *)
InFlight == {b \in BlockIds : task[b] \notin {"new", "returned"}}

(* "Memory stays bounded by the in-flight window": however far the workers *)
(* run ahead of the single writer, no more blocks than the window are held.*)
MemoryBounded == Cardinality(InFlight) <= MaxInFlight

(* The pooled branch has no behaviour that the single-worker loop does not *)
(* have: completion order never shows in the image, the table or the       *)
(* outcome.  While the pool is being left, the abstract encoder has failed.*)
Serial == INSTANCE PfscSerial
            WITH phase <- IF phase = "unwinding" THEN "failed" ELSE phase

ImplementsSerial == Serial!SSpec

(* The driver waits on the future of a block whose worker was killed.      *)
WaitsOnLostBlock ==
  phase = "encoding" /\ TakesResult /\ task[Head(pending)] = "lost"
=============================================================================
