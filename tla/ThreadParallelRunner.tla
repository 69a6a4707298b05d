------------------------- MODULE ThreadParallelRunner -------------------------
(***************************************************************************)
(* jpegxl::ThreadParallelRunner (lib/threads/thread_parallel_runner_       *)
(* internal.{h,cc}): a fixed pool of workers, driven by one caller through *)
(* a command word, a "ready" counter and two condition variables, with     *)
(* tasks handed out in guided chunks from one atomic counter.              *)
(*                                                                         *)
(* Grain.  mutex_ guards the command and the ready counter and is never    *)
(* held across a wait or a call of the data function, so each section      *)
(* under it is one action; every access to the atomics depth_ and          *)
(* num_reserved_ and every call and return of the data function is an      *)
(* action too.  A worker is in a condition-variable wait set exactly when  *)
(* its pc is "wait", the caller when its pc is "barrierWait".              *)
(***************************************************************************)
EXTENDS Integers, FiniteSets

CONSTANTS
  NumWorkers,      (* num_worker_threads_                                  *)
  M,               (* 2^32 in the code: the number of uint32_t values      *)
  Ranges,          (* the <<start_range, end_range>> a caller may ask for  *)
  MaxDepth         (* bound on depth_, so on overlapping calls             *)

ASSUME NumWorkersAssumption == NumWorkers \in Nat \ {0}
ASSUME MAssumption == M \in Nat /\ M > 3 /\ NumWorkers < M
ASSUME RangesAssumption == Ranges \subseteq (0 .. M - 1) \X (0 .. M - 1)
ASSUME MaxDepthAssumption == MaxDepth \in Nat

Worker == 0 .. NumWorkers - 1
UInt32 == 0 .. M - 1

(***************************************************************************)
(* The command word: three reserved values, and all ranges.                *)
(***************************************************************************)
kWorkerWait == M * M - 2
kWorkerOnce == M * M - 3
kWorkerExit == M * M - 4

RangeCommand(start, end) == start * M + end
CommandBegin(command) == command \div M
CommandEnd(command) == command % M

VARIABLES
  main,       (* program counter of the thread that owns the runner        *)
  job,        (* what its current StartWorkers / barrier pair is for       *)
  range,      (* <<start_range, end_range>> of the current call            *)
  result,     (* what the last call of Runner returned                     *)
  overlaps,   (* history: calls that arrived while depth_ was not 0        *)
  threads,    (* threads_.size()                                           *)
  pc,         (* program counter of each worker                            *)
  local,      (* RunRange's locals in each worker                          *)
  command,    (* worker_start_command_                                     *)
  ready,      (* workers_ready_                                            *)
  reserved,   (* num_reserved_                                             *)
  depth,      (* depth_                                                    *)
  calls       (* history: data function calls per task in the current job  *)

callerVars == <<main, job, range, result, overlaps, threads, depth>>
vars == <<callerVars, pc, local, command, ready, reserved, calls>>

Local == [begin : UInt32, end : UInt32, size : UInt32,
          task : UInt32, stop : UInt32]

TypeOK ==
  /\ main \in {"spawn", "warmup", "idle", "prepare", "start", "notify",
               "barrier", "barrierWait", "leave", "join", "gone"}
  /\ job \in {"ctor", "warmup", "run", "exit"}
  /\ range \in UInt32 \X UInt32
  /\ result \in {"none", "ok", "error", "init"}
  /\ overlaps \in Nat
  /\ threads \in 0 .. NumWorkers
  /\ pc \in [Worker -> {"unborn", "arrive", "wait", "woken", "load", "reserve",
                        "next", "call", "once", "exited"}]
  /\ local \in [Worker -> Local]
  /\ command \in 0 .. M * M - 2
  /\ ready \in Nat
  /\ reserved \in UInt32
  /\ depth \in Nat
  /\ calls \in [UInt32 -> Nat]

NoCalls == [t \in UInt32 |-> 0]

Init ==
  /\ main = "spawn"
  /\ job = "ctor"
  /\ range = <<0, 0>>
  /\ result = "none"
  /\ overlaps = 0
  /\ threads = 0
  /\ pc = [w \in Worker |-> "unborn"]
  /\ local = [w \in Worker |->
               [begin |-> 0, end |-> 0, size |-> 0, task |-> 0, stop |-> 0]]
  /\ command = kWorkerWait
  /\ ready = 0
  /\ reserved = 0
  /\ depth = 0
  /\ calls = NoCalls

-------------------------------------------------------------------------------
(***************************************************************************)
(* The thread that owns the runner: construction, Runner(), destruction.   *)
(***************************************************************************)

(* threads_.emplace_back(ThreadFunc, this, i)                              *)
SpawnWorker ==
  /\ main = "spawn"
  /\ threads' = threads + 1
  /\ pc' = [pc EXCEPT ![threads] = "arrive"]
  /\ main' = IF threads + 1 = NumWorkers THEN "barrier" ELSE "spawn"
  /\ UNCHANGED <<job, range, result, overlaps, depth, local, command, ready,
                 reserved, calls>>

(* RunOnEachThread, up to its StartWorkers(kWorkerOnce)                    *)
WarmUp ==
  /\ main = "warmup"
  /\ main' = "start"
  /\ job' = "warmup"
  /\ range' = <<0, NumWorkers>>
  /\ calls' = NoCalls
  /\ UNCHANGED <<result, overlaps, threads, depth, pc, local, command, ready,
                 reserved>>

(* Runner returns before it touches the pool: an empty or reversed range,  *)
(* an init function that fails, or depth_ found nonzero.                   *)
RunEmpty(r) ==
  /\ main = "idle"
  /\ r[1] >= r[2]
  /\ result' = IF r[1] > r[2] THEN "error" ELSE "ok"
  /\ UNCHANGED <<main, job, range, overlaps, threads, depth, pc, local, command, ready,
                 reserved, calls>>

RunInitFailsEntered(r) ==
  /\ main = "idle"
  /\ r[1] < r[2]
  /\ depth' = depth + 1
  /\ result' = "init"
  /\ UNCHANGED <<main, job, range, overlaps, threads, pc, local, command, ready,
                 reserved, calls>>

RunInitFails(r) ==
  /\ main = "idle"
  /\ r[1] < r[2]
  /\ result' = "init"
  /\ UNCHANGED <<main, job, range, overlaps, threads, depth, pc, local, command, ready,
                 reserved, calls>>

RunRejected(r) ==
  /\ main = "idle"
  /\ r[1] < r[2]
  /\ depth # 0
  /\ depth < MaxDepth
  /\ depth' = depth + 1
  /\ result' = "error"
  /\ overlaps' = overlaps + 1
  /\ UNCHANGED <<main, job, range, threads, pc, local, command, ready, reserved,
                 calls>>

RunEnter(r) ==
  /\ main = "idle"
  /\ r[1] < r[2]
  /\ depth = 0
  /\ depth' = 1
  /\ range' = r
  /\ job' = "run"
  /\ calls' = NoCalls
  /\ main' = "prepare"
  /\ UNCHANGED <<result, overlaps, threads, pc, local, command, ready, reserved>>

(* data_func_, jpegxl_opaque_ and num_reserved_ are stored.                *)
RunPrepare ==
  /\ main = "prepare"
  /\ reserved' = 0
  /\ main' = "start"
  /\ UNCHANGED <<job, range, result, overlaps, threads, depth, pc, local,
                 command, ready, calls>>

(* A second call of Runner while one is in progress, from the data         *)
(* function or from another thread: it only counts depth_ up.              *)
Overlap ==
  /\ job = "run"
  /\ main \in {"prepare", "start", "notify", "barrier", "barrierWait", "leave"}
  /\ depth < MaxDepth
  /\ depth' = depth + 1
  /\ overlaps' = overlaps + 1
  /\ UNCHANGED <<main, job, range, result, threads, pc, local, command, ready,
                 reserved, calls>>

(* StartWorkers: the command is set under the lock ...                     *)
StartWorkers ==
  /\ main = "start"
  /\ command' = CASE job = "warmup" -> kWorkerOnce
                  [] job = "run" -> RangeCommand(range[1], range[2])
                  [] job = "exit" -> kWorkerExit
  /\ main' = "notify"
  /\ UNCHANGED <<job, range, result, overlaps, threads, depth, pc, local,
                 ready, reserved, calls>>

(* Mutant: the destructor waits at the barrier before it joins.            *)
NotifyThenBarrier ==
  /\ main = "notify"
  /\ pc' = [w \in Worker |-> IF pc[w] = "wait" THEN "woken" ELSE pc[w]]
  /\ main' = "barrier"
  /\ UNCHANGED <<job, range, result, overlaps, threads, depth, local, command,
                 ready, reserved, calls>>

(* ... and every waiting worker is notified after it is released.          *)
NotifyWorkers ==
  /\ main = "notify"
  /\ pc' = [w \in Worker |-> IF pc[w] = "wait" THEN "woken" ELSE pc[w]]
  /\ main' = IF job = "exit" THEN "join" ELSE "barrier"
  /\ UNCHANGED <<job, range, result, overlaps, threads, depth, local, command,
                 ready, reserved, calls>>

BarrierPassEarly ==
  /\ main = "barrier"
  /\ ready >= threads - 1
  /\ ready' = 0
  /\ command' = kWorkerWait
  /\ main' = CASE job = "ctor" -> "warmup"
               [] job = "warmup" -> "idle"
               [] job = "run" -> "leave"
  /\ UNCHANGED <<job, range, result, overlaps, threads, depth, pc, local,
                 reserved, calls>>

(* WorkersReadyBarrier: one evaluation of its while condition.             *)
BarrierPass ==
  /\ main = "barrier"
  /\ ready = threads
  /\ ready' = 0
  /\ command' = kWorkerWait
  /\ main' = CASE job = "ctor" -> "warmup"
               [] job = "warmup" -> "idle"
               [] job = "run" -> "leave"
  /\ UNCHANGED <<job, range, result, overlaps, threads, depth, pc, local,
                 reserved, calls>>

BarrierBlock ==
  /\ main = "barrier"
  /\ ready # threads
  /\ main' = "barrierWait"
  /\ UNCHANGED <<job, range, result, overlaps, threads, depth, pc, local,
                 command, ready, reserved, calls>>

(* The barrier's loop is there for wakeups nobody asked for.               *)
SpuriousCallerWakeup ==
  /\ main = "barrierWait"
  /\ main' = "barrier"
  /\ UNCHANGED <<job, range, result, overlaps, threads, depth, pc, local,
                 command, ready, reserved, calls>>

(* Runner's last fetch_add on depth_ decides what it returns.              *)
RunLeave ==
  /\ main = "leave"
  /\ depth' = depth - 1
  /\ result' = IF depth = 1 THEN "ok" ELSE "error"
  /\ main' = "idle"
  /\ UNCHANGED <<job, range, overlaps, threads, pc, local, command, ready,
                 reserved, calls>>

(* ~ThreadParallelRunner: the exit command, then join.                     *)
Destroy ==
  /\ main = "idle"
  /\ job' = "exit"
  /\ main' = "start"
  /\ UNCHANGED <<range, result, overlaps, threads, depth, pc, local, command,
                 ready, reserved, calls>>

Join ==
  /\ main = "join"
  /\ \A w \in Worker : pc[w] = "exited"
  /\ main' = "gone"
  /\ UNCHANGED <<job, range, result, overlaps, threads, depth, pc, local,
                 command, ready, reserved, calls>>

Destroyed == main = "gone" /\ UNCHANGED vars

-------------------------------------------------------------------------------
(***************************************************************************)
(* A worker: ThreadFunc, and RunRange inside it.  Workers wake only when   *)
(* they are notified here; SpuriousNext adds the other wakeups.            *)
(***************************************************************************)

(* Mutant: the count before the increment decides about the notification.  *)
ArriveNotifiesLate(w) ==
  /\ pc[w] = "arrive"
  /\ pc' = [pc EXCEPT ![w] = "wait"]
  /\ ready' = ready + 1
  /\ main' = IF ready = NumWorkers /\ main = "barrierWait" THEN "barrier" ELSE main
  /\ UNCHANGED <<job, range, result, overlaps, threads, depth, local, command,
                 reserved, calls>>

(* Report readiness, then wait on worker_start_cv_.                        *)
Arrive(w) ==
  /\ pc[w] = "arrive"
  /\ pc' = [pc EXCEPT ![w] = "wait"]
  /\ ready' = ready + 1
  /\ main' = IF ready + 1 = NumWorkers /\ main = "barrierWait"
             THEN "barrier" ELSE main
  /\ UNCHANGED <<job, range, result, overlaps, threads, depth, local, command,
                 reserved, calls>>

(* Back under the lock, the worker acts on the command it finds there.     *)
WakeToOnce(w) ==
  /\ pc[w] = "woken"
  /\ command = kWorkerOnce
  /\ pc' = [pc EXCEPT ![w] = "once"]
  /\ calls' = [calls EXCEPT ![w] = @ + 1]
  /\ UNCHANGED <<callerVars, local, command, ready, reserved>>

WakeToExit(w) ==
  /\ pc[w] = "woken"
  /\ command = kWorkerExit
  /\ pc' = [pc EXCEPT ![w] = "exited"]
  /\ UNCHANGED <<callerVars, local, command, ready, reserved, calls>>

WakeToRange(w) ==
  /\ pc[w] = "woken"
  /\ command \notin {kWorkerWait, kWorkerOnce, kWorkerExit}
  /\ pc' = [pc EXCEPT ![w] = "load"]
  /\ local' = [local EXCEPT ![w].begin = CommandBegin(command),
                            ![w].end = CommandEnd(command)]
  /\ UNCHANGED <<callerVars, command, ready, reserved, calls>>

OnceReturns(w) ==
  /\ pc[w] = "once"
  /\ pc' = [pc EXCEPT ![w] = "arrive"]
  /\ UNCHANGED <<callerVars, local, command, ready, reserved, calls>>

(* Mutant: no chunk of one task when the share rounds down to none.        *)
ChunkSizeNoMinimum(numTasks, numReserved) ==
  (IF numReserved < numTasks THEN numTasks - numReserved ELSE 0)
    \div (NumWorkers * 4)

(* The guided chunk size for what a load of num_reserved_ says is left.    *)
ChunkSize(numTasks, numReserved) ==
  LET remaining == IF numReserved < numTasks THEN numTasks - numReserved ELSE 0
      share == remaining \div (NumWorkers * 4)
  IN  IF share > 1 THEN share ELSE 1

LoadReserved(w) ==
  /\ pc[w] = "load"
  /\ local' = [local EXCEPT ![w].size =
                 ChunkSize((local[w].end - local[w].begin) % M, reserved)]
  /\ pc' = [pc EXCEPT ![w] = "reserve"]
  /\ UNCHANGED <<callerVars, command, ready, reserved, calls>>

(* Mutant: the chunk that crosses the end of the range is not clamped.     *)
ReserveUnclamped(w) ==
  LET myBegin == (local[w].begin + reserved) % M
      myEnd == (myBegin + local[w].size) % M
  IN  /\ pc[w] = "reserve"
      /\ reserved' = (reserved + local[w].size) % M
      /\ local' = [local EXCEPT ![w].task = myBegin, ![w].stop = myEnd]
      /\ pc' = [pc EXCEPT ![w] = IF myBegin >= local[w].end THEN "arrive" ELSE "next"]
      /\ UNCHANGED <<callerVars, command, ready, calls>>

(* fetch_add on num_reserved_, all in uint32_t.                            *)
ReserveChunk(w) ==
  LET myBegin == (local[w].begin + reserved) % M
      sizeEnd == (myBegin + local[w].size) % M
      myEnd == IF sizeEnd < local[w].end THEN sizeEnd ELSE local[w].end
  IN  /\ pc[w] = "reserve"
      /\ reserved' = (reserved + local[w].size) % M
      /\ local' = [local EXCEPT ![w].task = myBegin, ![w].stop = myEnd]
      /\ pc' = [pc EXCEPT ![w] = IF myBegin >= myEnd THEN "arrive" ELSE "next"]
      /\ UNCHANGED <<callerVars, command, ready, calls>>

(* Mutant: the loop over the chunk includes its end.                       *)
CallTaskInclusive(w) ==
  /\ pc[w] = "next"
  /\ local[w].task <= local[w].stop
  /\ pc' = [pc EXCEPT ![w] = "call"]
  /\ calls' = [calls EXCEPT ![local[w].task] = @ + 1]
  /\ UNCHANGED <<callerVars, local, command, ready, reserved>>

(* The loop over the chunk calls the data function, or is done.            *)
CallTask(w) ==
  /\ pc[w] = "next"
  /\ local[w].task < local[w].stop
  /\ pc' = [pc EXCEPT ![w] = "call"]
  /\ calls' = [calls EXCEPT ![local[w].task] = @ + 1]
  /\ UNCHANGED <<callerVars, local, command, ready, reserved>>

ChunkDone(w) ==
  /\ pc[w] = "next"
  /\ local[w].task >= local[w].stop
  /\ pc' = [pc EXCEPT ![w] = "load"]
  /\ UNCHANGED <<callerVars, local, command, ready, reserved, calls>>

TaskReturns(w) ==
  /\ pc[w] = "call"
  /\ local' = [local EXCEPT ![w].task = (@ + 1) % M]
  /\ pc' = [pc EXCEPT ![w] = "next"]
  /\ UNCHANGED <<callerVars, command, ready, reserved, calls>>

-------------------------------------------------------------------------------
WorkerStep(w) ==
  \/ Arrive(w)
  \/ WakeToOnce(w) \/ WakeToExit(w) \/ WakeToRange(w)
  \/ OnceReturns(w)
  \/ LoadReserved(w) \/ ReserveChunk(w)
  \/ CallTask(w) \/ ChunkDone(w) \/ TaskReturns(w)

CallerStep ==
  \/ SpawnWorker \/ WarmUp \/ RunPrepare
  \/ StartWorkers \/ NotifyWorkers
  \/ BarrierPass \/ BarrierBlock
  \/ RunLeave \/ Join

ClientStep ==
  \/ \E r \in Ranges : RunEmpty(r) \/ RunInitFails(r) \/ RunRejected(r) \/ RunEnter(r)
  \/ Overlap
  \/ Destroy

Next ==
  \/ CallerStep
  \/ ClientStep
  \/ SpuriousCallerWakeup
  \/ Destroyed
  \/ \E w \in Worker : WorkerStep(w)

(* Threads that can run do run, a mutex that is released again and again   *)
(* is eventually given to each thread that wants it, and the data function *)
(* returns.  Clients need never call anything.                             *)
Fairness ==
  /\ WF_vars(CallerStep)
  /\ \A w \in Worker : WF_vars(WorkerStep(w))

Spec == Init /\ [][Next]_vars /\ Fairness

-------------------------------------------------------------------------------
(***************************************************************************)
(* Correctness.                                                            *)
(***************************************************************************)

(* No sum of the task numbers and chunk sizes of a call reaches 2^32: the  *)
(* largest chunk may cross the end once, and is then reserved past the end *)
(* once more by each worker.                                               *)
NoWrap ==
  \A r \in Ranges : r[1] < r[2] =>
    r[2] + (NumWorkers + 1) * ChunkSize(r[2] - r[1], 0) <= M

InRange(t) == range[1] <= t /\ t < range[2]

(* "Clients need to know when all tasks have completed": when Runner, or   *)
(* the constructor's warm-up, is past its barrier, the data function has   *)
(* been called exactly once for each number of the range, every call has   *)
(* returned, and no worker is anywhere but back in its wait.               *)
ReturnsComplete ==
  main \in {"leave", "idle"} /\ job \in {"warmup", "run"} =>
    /\ \A w \in Worker : pc[w] = "wait"
    /\ \A t \in UInt32 : InRange(t) => calls[t] = 1

(* At no time has the data function been called twice for a number, or for *)
(* a number outside the range (several workers reserve past the end).      *)
CalledOnceInRange ==
  \A t \in UInt32 : calls[t] <= 1 /\ (calls[t] > 0 => InRange(t))

(* The precondition StartWorkers states: a notification reaches every      *)
(* worker only if all of them wait when it is sent.                        *)
AllReadyBeforeStart ==
  main \in {"start", "notify"} => \A w \in Worker : pc[w] = "wait"

(* The ready counter the caller and the workers share is, at every check   *)
(* of the barrier, the number of workers that are back.                    *)
ReadyCountsWaiting ==
  main \in {"barrier", "barrierWait"} =>
    ready = Cardinality({w \in Worker : pc[w] = "wait"})

(* The caller never sleeps in the barrier once the last worker reported:   *)
(* its single notify_one is not lost.                                      *)
NoLostBarrierWakeup == main = "barrierWait" => ready # threads

(* While any worker is inside RunRange or the data function, the caller    *)
(* replaces neither the command nor the call's range, and the shared       *)
(* counter is not taken back.                                              *)
StableUnderWorkers ==
  [][(\E w \in Worker : pc[w] \in {"load", "reserve", "next", "call", "once"})
       => UNCHANGED <<command, range>> /\ reserved' >= reserved]_vars

(* depth_ is exact: one for the call in progress and one for each call     *)
(* that ever overlapped another.  No path out of Runner, a failing init    *)
(* function included, loses or leaks a count.                              *)
DepthExact ==
  depth = overlaps + (IF job = "run" /\ main # "idle" THEN 1 ELSE 0)

(* Every call of Runner that enters the pool returns.                      *)
RunReturns == main = "prepare" ~> main = "idle"

(* Destruction joins all workers.                                          *)
DestroyCompletes == job = "exit" ~> main = "gone"

(* The pool implements the abstract runner: RunEnter and the constructor's *)
(* warm-up begin a call, the last barrier passed returns from it.          *)
JobRunning ==
  \/ job = "run" /\ main # "idle"
  \/ job = "warmup" /\ main # "idle"

Todo == {t \in UInt32 : JobRunning /\ InRange(t) /\ calls[t] = 0}

Active ==
  {<<w, local[w].task>> : w \in {v \in Worker : pc[v] = "call"}}
  \cup {<<w, w>> : w \in {v \in Worker : pc[v] = "once"}}

PR == INSTANCE ParallelRunner WITH
  Task <- UInt32,
  MaxThread <- NumWorkers,
  running <- JobRunning,
  numThreads <- NumWorkers,
  todo <- Todo,
  active <- Active

ImplementsParallelRunner == PR!Init /\ [][PR!Next]_PR!vars

-------------------------------------------------------------------------------
(***************************************************************************)
(* The inductive invariant behind the safety properties, in named parts.   *)
(***************************************************************************)
Waiting == {w \in Worker : pc[w] = "wait"}

AtBarrier == main \in {"barrier", "barrierWait"}

(* The command that belongs to the current job.                            *)
JobCommand ==
  CASE job = "ctor" -> kWorkerWait
    [] job = "warmup" -> kWorkerOnce
    [] job = "run" -> RangeCommand(range[1], range[2])
    [] job = "exit" -> kWorkerExit

(* Where the caller is tells what it is doing and which command is out.    *)
JobInv ==
  /\ main \in {"spawn", "warmup"} => job = "ctor"
  /\ main \in {"prepare", "leave"} => job = "run"
  /\ AtBarrier => job # "exit"
  /\ main \in {"start", "notify"} => job # "ctor"
  /\ main = "idle" => job \in {"warmup", "run"}
  /\ main \in {"join", "gone"} => job = "exit"
  /\ job = "run" => range \in Ranges /\ range[1] < range[2]
  /\ job = "warmup" => range = <<0, NumWorkers>>
  /\ command = IF AtBarrier \/ main \in {"notify", "join", "gone"}
               THEN JobCommand ELSE kWorkerWait

(* Where a worker can be while the caller waits for it.                    *)
Out ==
  CASE job = "ctor" -> {"arrive", "wait"}
    [] job = "warmup" -> {"woken", "once", "arrive", "wait"}
    [] job = "run" -> {"woken", "load", "reserve", "next", "call", "arrive", "wait"}
    [] job = "exit" -> {}

(* Workers leave their wait only for the job the caller waits for.         *)
PlaceInv ==
  /\ threads = NumWorkers <=> main # "spawn"
  /\ main = "spawn" =>
       \A w \in Worker : pc[w] \in IF w < threads THEN {"arrive", "wait"} ELSE {"unborn"}
  /\ main \in {"warmup", "idle", "prepare", "start", "notify", "leave"} =>
       ready = 0 /\ \A w \in Worker : pc[w] = "wait"
  /\ AtBarrier => \A w \in Worker : pc[w] \in Out
  /\ main = "join" => \A w \in Worker : pc[w] \in {"woken", "exited"}
  /\ main = "gone" => \A w \in Worker : pc[w] = "exited"

(* The ready counter counts.                                               *)
CountInv ==
  /\ main = "spawn" \/ AtBarrier => ready = Cardinality(Waiting)
  /\ main = "barrierWait" => ready # threads

SyncInv == TypeOK /\ DepthExact /\ JobInv /\ PlaceInv /\ CountInv

-------------------------------------------------------------------------------
(* The largest chunk of the current call, where its reservations stop, and *)
(* the workers that already reserved past its end.                         *)
LargestChunk == ChunkSize(range[2] - range[1], 0)
Limit == range[1] + reserved
Over == {w \in Worker : pc[w] \in {"arrive", "wait"}}

(* Task t is in the chunk w has reserved, and not yet called.              *)
Holds(w, t) ==
  \/ pc[w] = "next" /\ local[w].task <= t /\ t < local[w].stop
  \/ pc[w] = "call" /\ local[w].task < t /\ t < local[w].stop

(* The locals of each worker inside RunRange.                              *)
ChunkInv ==
  \A w \in Worker :
    /\ pc[w] \in {"load", "reserve", "next", "call"} =>
         local[w].begin = range[1] /\ local[w].end = range[2]
    /\ pc[w] = "reserve" => 1 <= local[w].size /\ local[w].size <= LargestChunk
    /\ pc[w] \in {"next", "call"} =>
         /\ range[1] <= local[w].task /\ local[w].task <= local[w].stop
         /\ local[w].stop <= range[2] /\ local[w].stop <= Limit
    /\ pc[w] = "call" => local[w].task < local[w].stop
    /\ pc[w] \in {"arrive", "wait"} => range[2] <= Limit

(* Reserved tasks are called, or held by exactly one worker.               *)
OwnerInv ==
  /\ \A w \in Worker, t \in UInt32 : Holds(w, t) => calls[t] = 0
  /\ \A v, w \in Worker : v # w => \A t \in UInt32 : ~(Holds(v, t) /\ Holds(w, t))
  /\ \A t \in UInt32 : InRange(t) /\ t < Limit /\ calls[t] = 0 =>
       \E w \in Worker : Holds(w, t)
  /\ \A t \in UInt32 : calls[t] > 0 => t < Limit

(* Far from 2^32: the chunk that crosses the end, then one per worker.     *)
BoundInv ==
  reserved <= range[2] - range[1] - 1 + LargestChunk * (Cardinality(Over) + 1)

RangeInv == ChunkInv /\ OwnerInv /\ BoundInv

RunInv ==
  job = "run" =>
    /\ AtBarrier => RangeInv
    /\ main \in {"start", "notify"} => reserved = 0
    /\ main \in {"prepare", "start", "notify"} => calls = NoCalls

WarmUpInv ==
  job = "warmup" =>
    /\ AtBarrier => \A w \in Worker : calls[w] = IF pc[w] = "woken" THEN 0 ELSE 1
    /\ main \in {"start", "notify"} => calls = NoCalls

TaskInv == CalledOnceInRange /\ ReturnsComplete /\ RunInv /\ WarmUpInv

IInv == SyncInv /\ TaskInv

-------------------------------------------------------------------------------
(***************************************************************************)
(* The pool on a C++ runtime that may wake a thread waiting on a condition *)
(* variable when nobody notified it, as the standard allows and as the     *)
(* comments beside kWorkerWait expect.                                     *)
(***************************************************************************)
MaxReady == 2 (* bound: no spurious wakeup past this many reports          *)

SpuriousWorkerWakeup(w) ==
  /\ ready <= MaxReady
  /\ pc[w] = "wait"
  /\ pc' = [pc EXCEPT ![w] = "woken"]
  /\ UNCHANGED <<callerVars, local, command, ready, reserved, calls>>

(* RESUME_WAIT: the worker finds no command and waits again.               *)
WakeToWait(w) ==
  /\ pc[w] = "woken"
  /\ command = kWorkerWait
  /\ pc' = [pc EXCEPT ![w] = "wait"]
  /\ UNCHANGED <<callerVars, local, command, ready, reserved, calls>>

SpuriousNext ==
  \/ Next
  \/ \E w \in Worker : SpuriousWorkerWakeup(w) \/ WakeToWait(w)

SpuriousSpec ==
  /\ Init /\ [][SpuriousNext]_vars
  /\ WF_vars(CallerStep)
  /\ \A w \in Worker : WF_vars(WorkerStep(w) \/ WakeToWait(w))

(* When Runner is past its barrier, every task has been called once and    *)
(* none is still running: "clients need to know when all tasks have        *)
(* completed".                                                             *)
TasksCompleteOnReturn ==
  main = "leave" =>
    /\ \A t \in UInt32 : InRange(t) => calls[t] = 1
    /\ \A w \in Worker : pc[w] # "call"

-------------------------------------------------------------------------------
(* Values of Ranges for model checking.                                    *)

(* Empty, reversed, one-task and few-task ranges, and one wide enough for  *)
(* chunks of two tasks; all far from 2^32.                                 *)
SomeRanges == {<<2, 2>>, <<3, 1>>, <<1, 2>>, <<0, 3>>, <<0, 16>>}

(* The least there is to do, for SpuriousSpec.                             *)
OneTask == {<<0, 1>>}
===============================================================================
