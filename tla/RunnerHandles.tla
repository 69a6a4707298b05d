----------------------------- MODULE RunnerHandles -----------------------------
(***************************************************************************)
(* The C functions that make and destroy runners                            *)
(* (src/lib/threads/thread_parallel_runner.cc and the end of                *)
(* resizable_parallel_runner.cc).  A fixed pool lives in memory from the    *)
(* caller's memory manager and keeps a copy of that manager inside, which   *)
(* is gone by the time it is needed; a resizable pool is made by new, and   *)
(* the manager it is given goes unused.                                     *)
(*                                                                          *)
(* Pools are known to their users as handles.  A handle that a call is      *)
(* given is live or null: others are not the caller's to use.               *)
(***************************************************************************)
EXTENDS Integers, FiniteSets

CONSTANTS Handles, \* names for the runners there may be at a time
          Opaques  \* identities of memory managers of callers

Default == "malloc and free"
Operators == "new and delete"

Assumptions == Opaques \cap {"", Default, Operators} = {}

(* A JxlMemoryManager of a caller: which functions it has.                  *)
Managers == [opaque : Opaques, alloc : BOOLEAN, free : BOOLEAN]

VARIABLES mine,    \* the JxlMemoryManager a caller has, to be changed at will
          block,   \* who allocated the memory of a runner; "" if it has none
          object,  \* the memory_manager in a runner; "" where there is no runner
          log      \* history: <<who allocated, who freed, runner still there>>

vars == <<mine, block, object, log>>

Init ==
  /\ mine \in Managers
  /\ block = [h \in Handles |-> ""] /\ object = [h \in Handles |-> ""]
  /\ log = {}

CallerChangesManager ==
  /\ mine' \in Managers /\ mine' # mine
  /\ UNCHANGED <<block, object, log>>

(* ThreadMemoryManagerInit: the functions are both there or both missing.   *)
InitSucceeds(m) == m.alloc = m.free
Initialized(m) == IF m.alloc THEN m.opaque ELSE Default

(* JxlThreadParallelRunnerCreate with the caller's manager or none.  Where  *)
(* it returns null nothing has changed.                                     *)
CreateIn(h, manager) ==
  /\ block[h] = ""
  /\ block' = [block EXCEPT ![h] = manager]
  /\ object' = [object EXCEPT ![h] = manager]
  /\ UNCHANGED <<mine, log>>

ThreadParallelRunnerCreate(h) ==
  \/ InitSucceeds(mine) /\ CreateIn(h, Initialized(mine))
  \/ CreateIn(h, Default)

(* JxlThreadParallelRunnerDestroy: the manager is copied, the pool is       *)
(* destroyed, which joins its threads, and its memory given back.           *)
ThreadParallelRunnerDestroy(h) ==
  /\ block[h] \notin {"", Operators}
  /\ object' = [object EXCEPT ![h] = ""]
  /\ log' = log \cup {<<block[h], object[h], object'[h] # "">>}
  /\ block' = [block EXCEPT ![h] = ""]
  /\ UNCHANGED mine

(* JxlResizableParallelRunnerCreate and Destroy.                            *)
ResizableParallelRunnerCreate(h) ==
  /\ block[h] = ""
  /\ block' = [block EXCEPT ![h] = Operators]
  /\ UNCHANGED <<mine, object, log>>

ResizableParallelRunnerDestroy(h) ==
  /\ block[h] = Operators
  /\ block' = [block EXCEPT ![h] = ""]
  /\ log' = log \cup {<<block[h], Operators, FALSE>>}
  /\ UNCHANGED <<mine, object>>

Next ==
  \/ CallerChangesManager
  \/ \E h \in Handles :
       \/ ThreadParallelRunnerCreate(h) \/ ThreadParallelRunnerDestroy(h)
       \/ ResizableParallelRunnerCreate(h) \/ ResizableParallelRunnerDestroy(h)

Spec == Init /\ [][Next]_vars

-----------------------------------------------------------------------------
TypeOK ==
  /\ mine \in Managers
  /\ \A h \in Handles :
       /\ block[h] \in Opaques \cup {"", Default, Operators}
       /\ object[h] \in Opaques \cup {"", Default}

(* The memory of a runner goes back where it came from, though the caller's *)
(* manager may be another by then, and only once nothing lives in it        *)
(* (thread_parallel_runner.cc:70-96, resizable_parallel_runner.cc:174-187). *)
MemoryReturned ==
  /\ \A e \in log : e[1] = e[2] /\ ~e[3]
  /\ \A h \in Handles : object[h] # "" => object[h] = block[h]
=============================================================================
