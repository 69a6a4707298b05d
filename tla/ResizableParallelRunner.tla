------------------------ MODULE ResizableParallelRunner ------------------------
(***************************************************************************)
(* jpegxl::ResizeableParallelRunner (lib/threads/resizable_parallel_       *)
(* runner.cc): a pool whose caller takes part in the work and may change   *)
(* the number of workers between runs.                                     *)
(*                                                                         *)
(* Thread 0 is the caller and thread w + 1 is the worker with worker_id w, *)
(* as in the thread ids DequeueTasks passes on.  Each section under        *)
(* state_mutex_ is one action, as is each access of the atomic next_task_  *)
(* and each call and return of the data function.  A thread is in a        *)
(* condition variable's wait set exactly when its pc is "wait".            *)
(***************************************************************************)
EXTENDS Integers, FiniteSets

CONSTANTS
  MaxWorkers,  (* bound on the workers a client asks for                   *)
  M,           (* 2^32 in the code: the number of uint32_t values          *)
  Ranges       (* the <<start, end>> a client may ask for                  *)

ASSUME MaxWorkersAssumption == MaxWorkers \in Nat
ASSUME MAssumption == M \in Nat /\ M > MaxWorkers + 1
ASSUME RangesAssumption == Ranges \subseteq (0 .. M - 1) \X (0 .. M - 1)

Thread == 0 .. MaxWorkers
UInt32 == 0 .. M - 1

VARIABLES
  pc,          (* program counter of each thread                           *)
  task,        (* DequeueTasks' local                                      *)
  closing,     (* the destructor has been entered                          *)
  num,         (* SetNumThreads' argument, less the caller                 *)
  size,        (* workers_.size()                                          *)
  desired,     (* num_desired_workers_                                     *)
  maxRunning,  (* max_running_workers_                                     *)
  running,     (* num_running_workers_                                     *)
  available,   (* work_available_                                          *)
  next,        (* next_task_                                               *)
  end,         (* end_task_                                                *)
  range,       (* <<start, end>> of the current or last run                *)
  announced,   (* what that run's init function was told                   *)
  result,      (* what the last run returned                               *)
  calls        (* history: calls of the data function per task in this run *)

poolVars == <<closing, num, size, desired>>
runVars == <<range, announced, result>>
vars == <<pc, task, maxRunning, running, available, next, end, calls,
          poolVars, runVars>>

TypeOK ==
  /\ pc \in [Thread -> {"none", "idle", "spawn", "join", "single", "publish",
                        "dequeue", "call", "inline", "leave", "await", "check",
                        "wait", "return", "exited", "gone"}]
  /\ task \in [Thread -> UInt32]
  /\ closing \in BOOLEAN
  /\ {num, size, desired} \subseteq 0 .. MaxWorkers
  /\ maxRunning \in UInt32
  /\ running \in Nat
  /\ available \in BOOLEAN
  /\ next \in UInt32 /\ end \in UInt32
  /\ range \in UInt32 \X UInt32
  /\ announced \in 0 .. MaxWorkers + 1
  /\ result \in {"none", "ok", "init"}
  /\ calls \in [UInt32 -> Nat]

NoCalls == [t \in UInt32 |-> 0]

Init ==
  /\ pc = [t \in Thread |-> IF t = 0 THEN "idle" ELSE "none"]
  /\ task = [t \in Thread |-> 0]
  /\ closing = FALSE
  /\ num = 0 /\ size = 0 /\ desired = 0
  /\ maxRunning = 0 /\ running = 0 /\ available = FALSE
  /\ next = 0 /\ end = 0 /\ range = <<0, 0>>
  /\ announced = 1
  /\ result = "none"
  /\ calls = NoCalls

-------------------------------------------------------------------------------
(* Mutant: sleeping workers are not told that they are too many.           *)
DesireSilently(n, close) ==
  /\ pc[0] = "idle"
  /\ num' = n
  /\ desired' = n
  /\ closing' = close
  /\ pc' = [pc EXCEPT ![0] = "spawn"]
  /\ UNCHANGED <<task, size, maxRunning, running, available, next, end, calls,
                 runVars>>

(* SetNumThreads: the desired number is published and everyone woken ...   *)
Desire(n, close) ==
  /\ pc[0] = "idle"
  /\ num' = n
  /\ desired' = n
  /\ closing' = close
  /\ pc' = [t \in Thread |-> CASE t = 0 -> "spawn"
                               [] t > 0 /\ pc[t] = "wait" -> "check"
                               [] OTHER -> pc[t]]
  /\ UNCHANGED <<task, size, maxRunning, running, available, next, end, calls,
                 runVars>>

SetNumThreads(n) == Desire(IF n > 0 THEN n - 1 ELSE n, FALSE)

Destroy == Desire(0, TRUE)

(* ... then workers are started, if there are too few ...                  *)
SpawnWorker ==
  /\ pc[0] = "spawn"
  /\ size < num
  /\ size' = size + 1
  /\ pc' = [pc EXCEPT ![size + 1] = "check"]
  /\ UNCHANGED <<task, closing, num, desired, maxRunning, running, available,
                 next, end, calls, runVars>>

SpawnDone ==
  /\ pc[0] = "spawn"
  /\ size >= num
  /\ pc' = [pc EXCEPT ![0] = "join"]
  /\ UNCHANGED <<task, maxRunning, running, available, next, end, calls,
                 poolVars, runVars>>

(* ... or joined, one after the other, if there are too many.              *)
JoinWorkers ==
  /\ pc[0] = "join"
  /\ \A t \in num + 1 .. size : pc[t] = "exited"
  /\ size' = num
  /\ pc' = [t \in Thread |->
             CASE t = 0 -> (IF closing THEN "gone" ELSE "idle")
               [] t \in num + 1 .. size -> "none"
               [] OTHER -> pc[t]]
  /\ UNCHANGED <<task, closing, num, desired, maxRunning, running, available,
                 next, end, calls, runVars>>

Destroyed == pc[0] = "gone" /\ UNCHANGED vars

-------------------------------------------------------------------------------
(* Run: what the init function is told.                                    *)
OneTask(r) == (r[1] + 1) % M = r[2]

Announced(r) ==
  LET tasks == (r[2] - r[1]) % M
  IN  CASE OneTask(r) -> 1
        [] ~OneTask(r) /\ tasks < size + 1 -> tasks
        [] OTHER -> size + 1

RunInitFails(r) ==
  /\ pc[0] = "idle"
  /\ result' = "init"
  /\ UNCHANGED <<pc, task, maxRunning, running, available, next, end, calls,
                 poolVars, range, announced>>

(* One task is run by the caller alone, any other range by the pool.       *)
RunAccepted(r) ==
  /\ pc[0] = "idle"
  /\ range' = r
  /\ announced' = Announced(r)
  /\ calls' = NoCalls
  /\ pc' = [pc EXCEPT ![0] = IF OneTask(r) THEN "single" ELSE "publish"]
  /\ UNCHANGED <<task, maxRunning, running, available, next, end, poolVars, result>>

CallInline ==
  /\ pc[0] = "single"
  /\ task' = [task EXCEPT ![0] = range[1]]
  /\ calls' = [calls EXCEPT ![range[1]] = @ + 1]
  /\ pc' = [pc EXCEPT ![0] = "inline"]
  /\ UNCHANGED <<maxRunning, running, available, next, end, poolVars, runVars>>

InlineReturns ==
  /\ pc[0] = "inline"
  /\ pc' = [pc EXCEPT ![0] = "return"]
  /\ UNCHANGED <<task, maxRunning, running, available, next, end, calls,
                 poolVars, runVars>>

(* Mutant: the caller does not count itself among the running.             *)
PublishUncounted ==
  /\ pc[0] = "publish"
  /\ maxRunning' = (range[2] - range[1] - 1) % M
  /\ next' = range[1]
  /\ end' = range[2]
  /\ available' = TRUE
  /\ pc' = [t \in Thread |-> CASE t = 0 -> "dequeue"
                               [] t > 0 /\ pc[t] = "wait" -> "check"
                               [] OTHER -> pc[t]]
  /\ UNCHANGED <<task, running, calls, poolVars, runVars>>

(* Mutant: the workers are woken for one task more than they are for.      *)
PublishOneMore ==
  /\ pc[0] = "publish"
  /\ maxRunning' = (range[2] - range[1]) % M
  /\ next' = range[1]
  /\ end' = range[2]
  /\ available' = TRUE
  /\ running' = running + 1
  /\ pc' = [t \in Thread |-> CASE t = 0 -> "dequeue"
                               [] t > 0 /\ pc[t] = "wait" -> "check"
                               [] OTHER -> pc[t]]
  /\ UNCHANGED <<task, calls, poolVars, runVars>>

(* Mutant: workers are not told.                                           *)
PublishSilently ==
  /\ pc[0] = "publish"
  /\ maxRunning' = (range[2] - range[1] - 1) % M
  /\ next' = range[1]
  /\ end' = range[2]
  /\ available' = TRUE
  /\ running' = running + 1
  /\ pc' = [pc EXCEPT ![0] = "dequeue"]
  /\ UNCHANGED <<task, calls, poolVars, runVars>>

(* The run is published under the lock and all workers are woken.          *)
Publish ==
  /\ pc[0] = "publish"
  /\ maxRunning' = (range[2] - range[1] - 1) % M
  /\ next' = range[1]
  /\ end' = range[2]
  /\ available' = TRUE
  /\ running' = running + 1
  /\ pc' = [t \in Thread |-> CASE t = 0 -> "dequeue"
                               [] t > 0 /\ pc[t] = "wait" -> "check"
                               [] OTHER -> pc[t]]
  /\ UNCHANGED <<task, calls, poolVars, runVars>>

(* The wait loop after the caller's own DequeueTasks.                      *)
Await ==
  /\ pc[0] = "await"
  /\ pc' = [pc EXCEPT ![0] = IF running = 0 THEN "return" ELSE "wait"]
  /\ UNCHANGED <<task, maxRunning, running, available, next, end, calls,
                 poolVars, runVars>>

Return ==
  /\ pc[0] = "return"
  /\ result' = "ok"
  /\ pc' = [pc EXCEPT ![0] = "idle"]
  /\ UNCHANGED <<task, maxRunning, running, available, next, end, calls,
                 poolVars, range, announced>>

-------------------------------------------------------------------------------
(* WorkerBody: exit, wait or join in, decided under the lock.              *)
HasWork(t) == available /\ t - 1 < maxRunning

WorkerExits(t) ==
  /\ pc[t] = "check"
  /\ t - 1 >= desired
  /\ pc' = [pc EXCEPT ![t] = "exited"]
  /\ UNCHANGED <<task, maxRunning, running, available, next, end, calls,
                 poolVars, runVars>>

WorkerWaits(t) ==
  /\ pc[t] = "check"
  /\ t - 1 < desired
  /\ ~HasWork(t)
  /\ pc' = [pc EXCEPT ![t] = "wait"]
  /\ UNCHANGED <<task, maxRunning, running, available, next, end, calls,
                 poolVars, runVars>>

WorkerJoinsIn(t) ==
  /\ pc[t] = "check"
  /\ t - 1 < desired
  /\ HasWork(t)
  /\ running' = running + 1
  /\ pc' = [pc EXCEPT ![t] = "dequeue"]
  /\ UNCHANGED <<task, maxRunning, available, next, end, calls, poolVars, runVars>>

(* Mutant: the end of the range is handed out too.                         *)
DequeueInclusive(t) ==
  /\ pc[t] = "dequeue"
  /\ task' = [task EXCEPT ![t] = next]
  /\ next' = (next + 1) % M
  /\ IF next > end
     THEN pc' = [pc EXCEPT ![t] = "leave"] /\ calls' = calls
     ELSE pc' = [pc EXCEPT ![t] = "call"] /\ calls' = [calls EXCEPT ![next] = @ + 1]
  /\ UNCHANGED <<maxRunning, running, available, end, poolVars, runVars>>

(* DequeueTasks: take the next number, call the data function for it.      *)
Dequeue(t) ==
  /\ pc[t] = "dequeue"
  /\ task' = [task EXCEPT ![t] = next]
  /\ next' = (next + 1) % M
  /\ IF next >= end
     THEN pc' = [pc EXCEPT ![t] = "leave"] /\ calls' = calls
     ELSE pc' = [pc EXCEPT ![t] = "call"] /\ calls' = [calls EXCEPT ![next] = @ + 1]
  /\ UNCHANGED <<maxRunning, running, available, end, poolVars, runVars>>

TaskReturns(t) ==
  /\ pc[t] = "call"
  /\ pc' = [pc EXCEPT ![t] = "dequeue"]
  /\ UNCHANGED <<task, maxRunning, running, available, next, end, calls,
                 poolVars, runVars>>

(* Mutant: the count is looked at before it is taken down.                 *)
LeaveTellsLate(t) ==
  /\ pc[t] = "leave"
  /\ running' = running - 1
  /\ available' = FALSE
  /\ pc' = [u \in Thread |->
             CASE u = t -> (IF t = 0 THEN "await" ELSE "check")
               [] u # t /\ u = 0 /\ pc[0] = "wait" /\ running = 0 -> "await"
               [] OTHER -> pc[u]]
  /\ UNCHANGED <<task, maxRunning, next, end, calls, poolVars, runVars>>

(* The numbers have run out: leave, and tell the caller if it was the last *)
(* thread to.                                                              *)
Leave(t) ==
  /\ pc[t] = "leave"
  /\ running' = running - 1
  /\ available' = FALSE
  /\ pc' = [u \in Thread |->
             CASE u = t -> (IF t = 0 THEN "await" ELSE "check")
               [] u # t /\ u = 0 /\ pc[0] = "wait" /\ running = 1 -> "await"
               [] OTHER -> pc[u]]
  /\ UNCHANGED <<task, maxRunning, next, end, calls, poolVars, runVars>>

(* A wait that returns though nobody notified.                             *)
SpuriousWakeup(t) ==
  /\ pc[t] = "wait"
  /\ pc' = [pc EXCEPT ![t] = IF t = 0 THEN "await" ELSE "check"]
  /\ UNCHANGED <<task, maxRunning, running, available, next, end, calls,
                 poolVars, runVars>>

-------------------------------------------------------------------------------
DequeueTasks(t) == Dequeue(t) \/ TaskReturns(t) \/ Leave(t)

CallerStep ==
  \/ SpawnWorker \/ SpawnDone \/ JoinWorkers
  \/ CallInline \/ InlineReturns
  \/ Publish \/ DequeueTasks(0) \/ Await
  \/ Return

WorkerStep(t) ==
  WorkerExits(t) \/ WorkerWaits(t) \/ WorkerJoinsIn(t) \/ DequeueTasks(t)

ClientStep ==
  \/ \E n \in 0 .. MaxWorkers + 1 : SetNumThreads(n)
  \/ \E r \in Ranges : RunInitFails(r) \/ RunAccepted(r)
  \/ Destroy

Next ==
  \/ CallerStep
  \/ ClientStep
  \/ \E t \in Thread \ {0} : WorkerStep(t)
  \/ \E t \in Thread : SpuriousWakeup(t)
  \/ Destroyed

(* Threads run, the mutex is given to each thread that keeps asking, and   *)
(* the data function returns.  Clients need not call anything.             *)
Fairness ==
  /\ WF_vars(CallerStep)
  /\ \A t \in Thread \ {0} : WF_vars(WorkerStep(t))

Spec == Init /\ [][Next]_vars /\ Fairness

-------------------------------------------------------------------------------
(***************************************************************************)
(* Correctness.                                                            *)
(***************************************************************************)
InRange(t) == range[1] <= t /\ t < range[2]

Busy == {t \in Thread : pc[t] \in {"dequeue", "call", "leave"}}

(* next_task_ starts at one end of the range and passes the larger one at  *)
(* most once per thread: that must stay below 2^32.  Were it to wrap, also *)
(* on an empty or a reversed range, tasks would be called from 0 on.       *)
NoWrap == \A r \in Ranges : r[1] + MaxWorkers + 1 < M /\ r[2] + MaxWorkers + 1 < M

(* ThreadPool::Run hands no empty range to a runner; one would have its    *)
(* init function told that there are no threads.                           *)
NoEmptyRange == \A r \in Ranges : r[1] # r[2]

(* num_running_workers_ is exactly the number of threads in DequeueTasks,  *)
(* the caller included, whatever worker joins in late or leaves early.     *)
RunningIsExact == running = Cardinality(Busy)

(* No lost wakeup: a worker sleeps only when it is wanted and has nothing  *)
(* to do, the caller only while some thread is still in DequeueTasks.      *)
NoLostWakeup ==
  /\ \A t \in Thread \ {0} : pc[t] = "wait" => t - 1 < desired /\ ~HasWork(t)
  /\ pc[0] = "wait" => running > 0

(* A number once taken is not offered again while a run lasts: no thread   *)
(* of an earlier run is left to see the counter reset under it.            *)
ResetOnlyWhenQuiet == [][next' < next \/ end' # end => Busy = {}]_vars

(* A run that its init function accepted returns.                          *)
RunReturns == pc[0] \in {"single", "publish"} ~> pc[0] = "idle"

(* SetNumThreads and the destructor return: every worker they join exits.  *)
ResizeReturns == pc[0] = "spawn" ~> pc[0] \in {"idle", "gone"}

(* The pool implements the abstract runner.                                *)
Running == pc[0] \notin {"idle", "spawn", "join", "gone"}

PR == INSTANCE ParallelRunner WITH
  Task <- UInt32,
  MaxThread <- MaxWorkers + 1,
  running <- Running,
  numThreads <- announced,
  todo <- {t \in UInt32 : Running /\ InRange(t) /\ calls[t] = 0},
  active <- {<<t, task[t]>> : t \in {u \in Thread : pc[u] \in {"call", "inline"}}}

ImplementsParallelRunner == PR!Init /\ [][PR!Next]_PR!vars

-------------------------------------------------------------------------------
(***************************************************************************)
(* The inductive invariant.                                                *)
(***************************************************************************)
InPool == pc[0] \in {"dequeue", "call", "leave", "await", "wait"}

(* The caller's places, the workers' places, and the size of the pool,     *)
(* which is the desired one unless the caller is changing it.              *)
SizeInv ==
  /\ pc[0] \notin {"none", "check", "exited"}
  /\ \A t \in Thread \ {0} :
       /\ pc[t] \in {"none", "check", "wait", "dequeue", "call", "leave", "exited"}
       /\ pc[t] = "none" <=> t > size
       /\ pc[t] = "exited" => t - 1 >= desired
  /\ num = desired
  /\ pc[0] = "join" => size >= num
  /\ pc[0] \notin {"spawn", "join"} => size = num
  /\ closing => pc[0] \in {"spawn", "join", "gone"}

(* Threads are in DequeueTasks only while the caller's run lasts, and none *)
(* can join in once one has left.                                          *)
CountInv ==
  /\ RunningIsExact
  /\ NoLostWakeup
  /\ available => pc[0] \in {"dequeue", "call", "leave"}
  /\ ~InPool => running = 0

(* What the run was published with, and who takes part in it.              *)
TeamInv ==
  /\ Running => range \in Ranges /\ announced = Announced(range)
  /\ pc[0] \in {"single", "inline"} => OneTask(range)
  /\ pc[0] = "publish" => ~OneTask(range)
  /\ InPool =>
       /\ ~OneTask(range)
       /\ end = range[2]
       /\ maxRunning = (range[2] - range[1] - 1) % M
       /\ \A t \in Busy : t = 0 \/ t - 1 < maxRunning

(* Threads that have found the numbers run out, or may not look any more.  *)
Spent ==
  IF available THEN {t \in Thread : pc[t] = "leave"}
  ELSE {t \in Thread : pc[t] \notin {"dequeue", "call"}}

(* next_task_ passes the range by at most one for each of them, and has    *)
(* passed it as soon as there is one.                                      *)
NextInv ==
  InPool =>
    /\ range[1] <= next
    /\ \/ next <= range[1] + Cardinality(Spent)
       \/ next <= range[2] + Cardinality(Spent)
    /\ Spent # {} => range[2] <= next

(* The tasks called are those below next_task_, each once, and each thread *)
(* in the data function is there for one of them.                          *)
CallsInv ==
  /\ pc[0] \in {"single", "publish"} => calls = NoCalls
  /\ pc[0] = "inline" =>
       task[0] = range[1] /\ calls = [NoCalls EXCEPT ![range[1]] = 1]
  /\ InPool =>
       /\ \A t \in UInt32 : calls[t] = IF InRange(t) /\ t < next THEN 1 ELSE 0
       /\ \A t \in Thread : pc[t] = "call" => InRange(task[t]) /\ task[t] < next
  /\ pc[0] = "return" => \A t \in UInt32 : InRange(t) => calls[t] = 1

(* The pool's part holds on any ranges, the runs' part needs NoWrap.       *)
PoolInv == TypeOK /\ SizeInv /\ CountInv
RunInv == TeamInv /\ NextInv /\ CallsInv
IInv == PoolInv /\ RunInv

-------------------------------------------------------------------------------
(* Values of Ranges for model checking.                                    *)

(* Reversed, one-task, fewer and more tasks than threads.                  *)
SmallRanges == {<<3, 1>>, <<1, 2>>, <<2, 4>>, <<0, 4>>}
===============================================================================
