--------------------------- MODULE SequentialRunner ---------------------------
(***************************************************************************)
(* Running tasks on the calling thread: ThreadPool::SequentialRunnerStatic *)
(* (lib/jxl/base/data_parallel.cc), which RunOnPool uses when it is given  *)
(* no pool, and ThreadParallelRunner::Runner with no worker threads; each  *)
(* called directly through the C interface, or through ThreadPool::Run,    *)
(* which turns a Status into a return code and back.                       *)
(***************************************************************************)
EXTENDS Integers, Sequences

CONSTANTS
  M,          (* 2^32 in the code: the number of uint32_t values           *)
  Ranges,     (* the <<start_range, end_range>> a caller may ask for       *)
  InitCode    (* an init function's own nonzero return code                *)

(* What the code assumes of them.                                          *)
Assumptions ==
  /\ M \in Nat \ {0}
  /\ Ranges \subseteq (0 .. M - 1) \X (0 .. M - 1)
  /\ InitCode \in Int \ {0, -1}

Runners == {"static", "noWorkers"}
Facades == {"direct", "pool"}

VARIABLES
  pc,       (* where the calling thread is                                 *)
  runner,   (* which of the two runners                                    *)
  facade,   (* called directly or through ThreadPool::Run                  *)
  range,    (* the range of the call                                       *)
  i,        (* the loop variable                                           *)
  told,     (* what the init function was told; 0 when it was not called   *)
  refused,  (* history: the init function returned false                   *)
  ret,      (* the runner's return code                                    *)
  status,   (* ThreadPool::Run's result, "code" when called directly       *)
  calls     (* history: the numbers the data function was called for       *)

vars == <<pc, runner, facade, range, i, told, refused, ret, status, calls>>

TypeOK ==
  /\ pc \in {"idle", "enter", "loop", "call", "leave"}
  /\ runner \in Runners /\ facade \in Facades
  /\ range \in (0 .. M - 1) \X (0 .. M - 1)
  /\ i \in 0 .. M - 1
  /\ told \in {0, 1} /\ refused \in BOOLEAN
  /\ ret \in {0, -1, InitCode}
  /\ status \in {"true", "false", "code"}
  /\ calls \in Seq(0 .. M - 1)

Init ==
  /\ pc = "idle" /\ runner = "static" /\ facade = "direct"
  /\ range = <<0, 0>> /\ i = 0 /\ told = 0 /\ ret = 0 /\ status = "code"
  /\ refused = FALSE /\ calls = <<>>

(* ThreadPool::Run asserts begin <= end, and does not call the runner for  *)
(* an empty range.                                                         *)
Call(k, f, r) ==
  /\ pc = "idle"
  /\ f = "pool" => r[1] <= r[2]
  /\ runner' = k /\ facade' = f /\ range' = r
  /\ told' = 0 /\ refused' = FALSE /\ ret' = 0 /\ calls' = <<>> /\ i' = r[1]
  /\ IF f = "pool" /\ r[1] = r[2]
     THEN pc' = "idle" /\ status' = "true"
     ELSE pc' = "enter" /\ status' = "code"

(* Mutant: the length of a reversed range is returned as an error code.    *)
RangeRejectedByLength ==
  /\ pc = "enter" /\ runner = "noWorkers"
  /\ range[1] >= range[2]
  /\ ret' = range[2] - range[1]
  /\ pc' = "leave"
  /\ UNCHANGED <<runner, facade, range, i, told, refused, status, calls>>

(* Runner, but not SequentialRunnerStatic, looks at the range first.       *)
RangeRejected ==
  /\ pc = "enter" /\ runner = "noWorkers"
  /\ range[1] >= range[2]
  /\ ret' = IF range[1] > range[2] THEN -1 ELSE 0
  /\ pc' = "leave"
  /\ UNCHANGED <<runner, facade, range, i, told, refused, status, calls>>

(* The init function is told one thread; CallInitFunc makes -1 of false.   *)
CallInit(ok) ==
  /\ pc = "enter"
  /\ runner = "noWorkers" => range[1] < range[2]
  /\ told' = 1 /\ refused' = ~ok
  /\ ret' = IF ok THEN 0 ELSE IF facade = "pool" THEN -1 ELSE InitCode
  /\ pc' = IF ok THEN "loop" ELSE "leave"
  /\ UNCHANGED <<runner, facade, range, i, status, calls>>

CallTask ==
  /\ pc = "loop"
  /\ i < range[2]
  /\ calls' = Append(calls, i)
  /\ pc' = "call"
  /\ UNCHANGED <<runner, facade, range, i, told, refused, ret, status>>

TaskReturns ==
  /\ pc = "call"
  /\ i' = (i + 1) % M
  /\ pc' = "loop"
  /\ UNCHANGED <<runner, facade, range, told, refused, ret, status, calls>>

LoopEnds ==
  /\ pc = "loop"
  /\ i >= range[2]
  /\ pc' = "leave"
  /\ UNCHANGED <<runner, facade, range, i, told, refused, ret, status, calls>>

(* Mutant: the return code is read as the comment above the conversion has *)
(* it, "returns 0 in case of error".                                       *)
LeaveAsCommented ==
  /\ pc = "leave"
  /\ pc' = "idle"
  /\ status' = IF facade = "direct" THEN "code"
               ELSE IF ret = 0 THEN "false" ELSE "true"
  /\ UNCHANGED <<runner, facade, range, i, told, refused, ret, calls>>

(* ThreadPool::Run makes a Status of the code: 0 is success.                *)
Leave ==
  /\ pc = "leave"
  /\ pc' = "idle"
  /\ status' = IF facade = "direct" THEN "code"
               ELSE IF ret = 0 THEN "true" ELSE "false"
  /\ UNCHANGED <<runner, facade, range, i, told, refused, ret, calls>>

Next ==
  \/ \E k \in Runners, f \in Facades, r \in Ranges : Call(k, f, r)
  \/ RangeRejected
  \/ \E ok \in BOOLEAN : CallInit(ok)
  \/ CallTask \/ TaskReturns \/ LoopEnds
  \/ Leave

Spec == Init /\ [][Next]_vars

-------------------------------------------------------------------------------
(* The caller's view of a finished call: the Status of ThreadPool::Run, or  *)
(* the return code of the C interface.                                     *)
Succeeded == IF facade = "pool" THEN status = "true" ELSE ret = 0
ReversedRange == runner = "noWorkers" /\ range[1] > range[2]

(* What a caller is told is what happened.  On success the whole range ran, *)
(* each number once and in order, and a nonempty range was announced first: *)
(* a client that allocates per-thread storage in init may rely on it.  On   *)
(* failure nothing ran, so that the caller may start over.  A Status is     *)
(* false for an init function that refused and for nothing else, and a      *)
(* return code is the init function's own or the -1 of a reversed range:    *)
(* the three conversions on the way (Status to code in CallInitFunc, the    *)
(* runner's code, code to Status in Run) agree.  The sequential loop,      *)
(* unlike the pools, is right up to the last uint32_t value.               *)
SuccessIsComplete ==
  pc = "idle" =>
    /\ calls = [k \in 1 .. Len(calls) |-> range[1] + k - 1]
    /\ Len(calls) = IF Succeeded /\ range[1] < range[2] THEN range[2] - range[1] ELSE 0
    /\ calls # <<>> => told = 1
    /\ Succeeded <=> ~refused /\ ~ReversedRange
    /\ facade = "direct" =>
         ret = IF refused THEN InitCode ELSE IF ReversedRange THEN -1 ELSE 0
===============================================================================
