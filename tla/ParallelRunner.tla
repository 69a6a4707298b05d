---------------------------- MODULE ParallelRunner ----------------------------
(***************************************************************************)
(* What include/jxl/parallel_runner.h asks of every JxlParallelRunner: the *)
(* data function is called once for every number of the range, on threads  *)
(* whose ids lie below the number announced to the init function, and the  *)
(* runner returns only when every one of those calls has returned.         *)
(*                                                                         *)
(* This is the abstract fork-join specification.  ThreadParallelRunner and *)
(* ResizableParallelRunner are both shown to implement it.                 *)
(***************************************************************************)
EXTENDS Naturals

CONSTANTS
  Task,     (* the numbers a range may contain                             *)
  MaxThread (* the largest num_threads an init function may be told        *)

VARIABLES
  running,    (* a call of the runner is in progress                       *)
  numThreads, (* what the init function of that call was told              *)
  todo,       (* numbers of the range the data function was not called for *)
  active      (* <<thread, task>>: calls of the data function in progress  *)

vars == <<running, numThreads, todo, active>>

TypeOK ==
  /\ running \in BOOLEAN
  /\ numThreads \in 1 .. MaxThread
  /\ todo \subseteq Task
  /\ active \subseteq ((0 .. MaxThread - 1) \X Task)

Init ==
  /\ running = FALSE
  /\ numThreads \in 1 .. MaxThread
  /\ todo = {}
  /\ active = {}

(* The init function was told n threads and has accepted the call.         *)
Begin(n) ==
  /\ ~running
  /\ running' = TRUE
  /\ numThreads' = n
  /\ todo' \in SUBSET Task
  /\ UNCHANGED active

(* A thread calls the data function: an idle thread, a number not yet      *)
(* passed to any thread.                                                   *)
Call(thread, task) ==
  /\ running
  /\ thread < numThreads
  /\ task \in todo
  /\ \A a \in active : a[1] # thread
  /\ todo' = todo \ {task}
  /\ active' = active \cup {<<thread, task>>}
  /\ UNCHANGED <<running, numThreads>>

(* A call of the data function returns.                                    *)
Finish(thread, task) ==
  /\ <<thread, task>> \in active
  /\ active' = active \ {<<thread, task>>}
  /\ UNCHANGED <<running, numThreads, todo>>

(* The runner returns to its caller.                                       *)
Return ==
  /\ running
  /\ todo = {}
  /\ active = {}
  /\ running' = FALSE
  /\ UNCHANGED <<numThreads, todo, active>>

Next ==
  \/ \E n \in 1 .. MaxThread : Begin(n)
  \/ \E thread \in 0 .. MaxThread - 1, task \in Task :
       Call(thread, task) \/ Finish(thread, task)
  \/ Return

Spec == Init /\ [][Next]_vars
===============================================================================
