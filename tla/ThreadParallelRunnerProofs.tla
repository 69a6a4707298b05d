---------------------- MODULE ThreadParallelRunnerProofs ----------------------
(***************************************************************************)
(* Proofs about ThreadParallelRunner, for every number of workers, every   *)
(* word size and every set of ranges.                                      *)
(***************************************************************************)
EXTENDS ThreadParallelRunner, FiniteSetTheorems, TLAPS

(* Arithmetic of the word size.                                            *)
LEMMA ModType == ASSUME NEW x \in Int PROVE x % M \in UInt32
  BY MAssumption, SMT DEF UInt32

(* A uint32_t value is its own residue. *)
LEMMA ModSmall == ASSUME NEW x \in UInt32 PROVE x % M = x
  BY MAssumption, SMT DEF UInt32

(* Integer division of naturals does not grow. *)
LEMMA DivType == ASSUME NEW a \in Nat, NEW d \in Nat \ {0} PROVE a \div d \in 0 .. a
  BY SMT

(* RunRange's shift and mask recover the range Runner encoded. *)
LEMMA CommandDecodes ==
  ASSUME NEW s \in UInt32, NEW e \in UInt32
  PROVE  /\ CommandBegin(RangeCommand(s, e)) = s
         /\ CommandEnd(RangeCommand(s, e)) = e
  BY MAssumption, SMT DEF UInt32, CommandBegin, CommandEnd, RangeCommand

(* Every non-empty range is a command word none of the reserved three equals. *)
LEMMA RangeNotReserved ==
  ASSUME NEW s \in UInt32, NEW e \in UInt32, s < e
  PROVE  /\ RangeCommand(s, e) \in 0 .. M * M - 2
         /\ RangeCommand(s, e) \notin {kWorkerWait, kWorkerOnce, kWorkerExit}
<1>1. s * M <= (M - 2) * M
  BY MAssumption, SMT DEF UInt32
<1>2. (M - 2) * M = M * M - 2 * M
  BY MAssumption, SMT
<1>3. s * M \in Nat /\ M * M \in Nat
  BY MAssumption, SMT DEF UInt32
<1> QED
  BY <1>1, <1>2, <1>3, MAssumption, SMT
     DEF UInt32, RangeCommand, kWorkerWait, kWorkerOnce, kWorkerExit

(* A guided chunk has at least one task and fits a uint32_t. *)
LEMMA ChunkSizeType ==
  ASSUME NEW n \in UInt32, NEW r \in UInt32
  PROVE  ChunkSize(n, r) \in 1 .. M - 1
<1> DEFINE remaining == IF r < n THEN n - r ELSE 0
<1>1. remaining \in 0 .. n
  BY MAssumption DEF UInt32
<1>2. NumWorkers * 4 \in Nat \ {0}
  BY NumWorkersAssumption
<1>3. remaining \div (NumWorkers * 4) \in 0 .. remaining
  BY <1>1, <1>2, DivType, MAssumption DEF UInt32
<1> QED
  BY <1>1, <1>3, MAssumption DEF ChunkSize, UInt32

(* The three reserved words are distinct command words. *)
LEMMA ReservedCommands ==
  /\ kWorkerWait \in 0 .. M * M - 2
  /\ kWorkerOnce \in 0 .. M * M - 2
  /\ kWorkerExit \in 0 .. M * M - 2
  /\ kWorkerWait # kWorkerOnce /\ kWorkerWait # kWorkerExit /\ kWorkerOnce # kWorkerExit
<1>1. M * M \in Nat /\ M * M >= 4
  BY MAssumption, SMT
<1> QED
  BY <1>1 DEF kWorkerWait, kWorkerOnce, kWorkerExit

(* Workers are finitely many, and so are those that wait.                  *)
LEMMA WaitingFinite ==
  /\ IsFiniteSet(Worker) /\ Cardinality(Worker) = NumWorkers
  /\ IsFiniteSet(Waiting) /\ Cardinality(Waiting) \in Nat
<1>1. IsFiniteSet(Worker) /\ Cardinality(Worker) = NumWorkers
  BY FS_Interval, NumWorkersAssumption DEF Worker
<1>2. Waiting \in SUBSET Worker
  BY DEF Waiting
<1>3. IsFiniteSet(Waiting)
  BY <1>1, <1>2, FS_Subset
<1> QED
  BY <1>1, <1>3, FS_CardinalityType

(* A full ready counter means that every worker waits.                     *)
LEMMA AllWaiting ==
  ASSUME SyncInv, AtBarrier, ready = threads
  PROVE  \A w \in Worker : pc[w] = "wait"
<1>1. Cardinality(Waiting) = Cardinality(Worker)
  BY WaitingFinite DEF SyncInv, PlaceInv, CountInv, AtBarrier
<1>2. Waiting = Worker
  BY <1>1, WaitingFinite, FS_Subset DEF Waiting
<1> QED
  BY <1>2 DEF Waiting

(* A woken worker finds the command of the job the caller waits for.       *)
LEMMA WokenCommand ==
  ASSUME SyncInv, NEW w \in Worker, pc[w] = "woken"
  PROVE  /\ AtBarrier \/ main = "join"
         /\ command = kWorkerOnce => AtBarrier /\ job = "warmup"
         /\ command = kWorkerExit => main = "join"
         /\ command \notin {kWorkerWait, kWorkerOnce, kWorkerExit} =>
              /\ AtBarrier /\ job = "run"
              /\ command = RangeCommand(range[1], range[2])
<1>1. AtBarrier \/ main = "join"
  BY DEF SyncInv, TypeOK, PlaceInv, AtBarrier
<1>2. job = "run" => command \notin {kWorkerWait, kWorkerOnce, kWorkerExit} \/ ~AtBarrier
  BY RangeNotReserved DEF SyncInv, TypeOK, JobInv, JobCommand, AtBarrier
<1>3. AtBarrier => job # "ctor"
  BY DEF SyncInv, PlaceInv, Out
<1> QED
  BY <1>1, <1>2, <1>3, ReservedCommands
     DEF SyncInv, TypeOK, JobInv, JobCommand, AtBarrier

(* Every step keeps the types. *)
LEMMA TypeStep == SyncInv /\ [Next]_vars => TypeOK'
<1> SUFFICES ASSUME SyncInv, [Next]_vars PROVE TypeOK'
  OBVIOUS
<1> USE DEF SyncInv, TypeOK, callerVars, Worker
<1>1. ASSUME SpawnWorker PROVE TypeOK'
  BY <1>1, NumWorkersAssumption DEF SpawnWorker, PlaceInv
<1>2. ASSUME WarmUp PROVE TypeOK'
  BY <1>2, NumWorkersAssumption, MAssumption DEF WarmUp, NoCalls, UInt32
<1>3. ASSUME RunPrepare PROVE TypeOK'
  BY <1>3, MAssumption DEF RunPrepare, UInt32
<1>4. ASSUME StartWorkers PROVE TypeOK'
  BY <1>4, ReservedCommands, RangeNotReserved DEF StartWorkers, JobInv
<1>5. ASSUME NotifyWorkers PROVE TypeOK'
  BY <1>5 DEF NotifyWorkers
<1>6. ASSUME BarrierPass PROVE TypeOK'
  BY <1>6, ReservedCommands DEF BarrierPass, JobInv, AtBarrier
<1>7. ASSUME BarrierBlock PROVE TypeOK'
  BY <1>7 DEF BarrierBlock
<1>8. ASSUME RunLeave PROVE TypeOK'
  BY <1>8, SMT DEF RunLeave, DepthExact, JobInv
<1>9. ASSUME Join PROVE TypeOK'
  BY <1>9 DEF Join
<1>10. ASSUME Overlap PROVE TypeOK'
  BY <1>10 DEF Overlap
<1>11. ASSUME Destroy PROVE TypeOK'
  BY <1>11 DEF Destroy
<1>12. ASSUME SpuriousCallerWakeup PROVE TypeOK'
  BY <1>12 DEF SpuriousCallerWakeup
<1>13. ASSUME NEW r \in Ranges, RunEmpty(r) PROVE TypeOK'
  BY <1>13 DEF RunEmpty
<1>14. ASSUME NEW r \in Ranges, RunInitFails(r) PROVE TypeOK'
  BY <1>14 DEF RunInitFails
<1>15. ASSUME NEW r \in Ranges, RunRejected(r) PROVE TypeOK'
  BY <1>15 DEF RunRejected
<1>16. ASSUME NEW r \in Ranges, RunEnter(r) PROVE TypeOK'
  BY <1>16, RangesAssumption DEF RunEnter, UInt32, NoCalls
<1>17. ASSUME NEW w \in Worker, Arrive(w) PROVE TypeOK'
  BY <1>17 DEF Arrive
<1>18. ASSUME NEW w \in Worker, WakeToOnce(w) PROVE TypeOK'
  BY <1>18, NumWorkersAssumption, MAssumption DEF WakeToOnce, UInt32
<1>19. ASSUME NEW w \in Worker, WakeToExit(w) PROVE TypeOK'
  BY <1>19 DEF WakeToExit
<1>20. ASSUME NEW w \in Worker, WakeToRange(w) PROVE TypeOK'
<2>1. pc[w] = "woken"
  BY <1>20 DEF WakeToRange
<2>2. command = RangeCommand(range[1], range[2]) /\ range[1] \in UInt32 /\ range[2] \in UInt32
  BY <2>1, <1>20, WokenCommand DEF WakeToRange
<2>3. CommandBegin(command) \in UInt32 /\ CommandEnd(command) \in UInt32
  BY <2>2, CommandDecodes
<2> QED
  BY <1>20, <2>3 DEF WakeToRange, Local
<1>21. ASSUME NEW w \in Worker, OnceReturns(w) PROVE TypeOK'
  BY <1>21 DEF OnceReturns
<1>22. ASSUME NEW w \in Worker, LoadReserved(w) PROVE TypeOK'
<2>1. local[w] \in Local /\ reserved \in UInt32
  OBVIOUS
<2>2. local[w].end - local[w].begin \in Int
  BY <2>1, MAssumption DEF Local, UInt32
<2>3. (local[w].end - local[w].begin) % M \in UInt32
  BY <2>2, ModType
<2>4. ChunkSize((local[w].end - local[w].begin) % M, reserved) \in 1 .. M - 1
  BY <2>1, <2>3, ChunkSizeType
<2>5. 1 .. M - 1 \subseteq UInt32
  BY MAssumption DEF UInt32
<2> QED
  BY <1>22, <2>4, <2>5 DEF LoadReserved, Local
<1>23. ASSUME NEW w \in Worker, ReserveChunk(w) PROVE TypeOK'
<2>1. local[w] \in Local /\ reserved \in UInt32
  OBVIOUS
<2>2. reserved + local[w].size \in Int /\ local[w].begin + reserved \in Int
  <3>1. local[w].size \in Int /\ local[w].begin \in Int
    BY <2>1, MAssumption DEF Local, UInt32
  <3>2. reserved \in Int
    BY <2>1, MAssumption DEF UInt32
  <3> QED
    BY <3>1, <3>2
<2>3. (reserved + local[w].size) % M \in UInt32 /\ (local[w].begin + reserved) % M \in UInt32
  BY <2>2, ModType
<2>4. ((local[w].begin + reserved) % M) + local[w].size \in Int
  BY <2>1, <2>3, MAssumption DEF Local, UInt32
<2>5. (((local[w].begin + reserved) % M) + local[w].size) % M \in UInt32
  BY <2>4, ModType
<2> QED
  BY <1>23, <2>1, <2>3, <2>5 DEF ReserveChunk, Local
<1>24. ASSUME NEW w \in Worker, CallTask(w) PROVE TypeOK'
<2>1. local[w].task \in UInt32 /\ calls[local[w].task] + 1 \in Nat
  BY DEF Local
<2> QED
  BY <1>24, <2>1 DEF CallTask
<1>25. ASSUME NEW w \in Worker, ChunkDone(w) PROVE TypeOK'
  BY <1>25 DEF ChunkDone
<1>26. ASSUME NEW w \in Worker, TaskReturns(w) PROVE TypeOK'
<2>1. local[w] \in Local /\ reserved \in UInt32
  OBVIOUS
<2>2. local[w].task + 1 \in Int
  BY <2>1, MAssumption DEF Local, UInt32
<2>3. (local[w].task + 1) % M \in UInt32
  BY <2>2, ModType
<2> QED
  BY <1>26, <2>1, <2>3 DEF TaskReturns, Local
<1>27. ASSUME UNCHANGED vars PROVE TypeOK'
  BY <1>27 DEF vars, callerVars
<1> QED
  BY <1>1, <1>2, <1>3, <1>4, <1>5, <1>6, <1>7, <1>8, <1>9, <1>10, <1>11, <1>12, <1>13, <1>14, <1>15, <1>16, <1>17, <1>18, <1>19, <1>20, <1>21, <1>22, <1>23, <1>24, <1>25, <1>26, <1>27
     DEF Next, CallerStep, ClientStep, WorkerStep, Destroyed

(* Every step keeps depth_ exact. *)
LEMMA DepthStep == SyncInv /\ [Next]_vars => DepthExact'
<1> SUFFICES ASSUME SyncInv, [Next]_vars PROVE DepthExact'
  OBVIOUS
<1> USE DEF SyncInv, TypeOK, DepthExact, JobInv, AtBarrier, callerVars
<1>1. ASSUME SpawnWorker PROVE DepthExact'
  BY <1>1 DEF SpawnWorker
<1>2. ASSUME WarmUp PROVE DepthExact'
  BY <1>2 DEF WarmUp
<1>3. ASSUME RunPrepare PROVE DepthExact'
  BY <1>3 DEF RunPrepare
<1>4. ASSUME StartWorkers PROVE DepthExact'
  BY <1>4 DEF StartWorkers
<1>5. ASSUME NotifyWorkers PROVE DepthExact'
  BY <1>5 DEF NotifyWorkers
<1>6. ASSUME BarrierPass PROVE DepthExact'
  BY <1>6 DEF BarrierPass
<1>7. ASSUME BarrierBlock PROVE DepthExact'
  BY <1>7 DEF BarrierBlock
<1>8. ASSUME RunLeave PROVE DepthExact'
  BY <1>8 DEF RunLeave
<1>9. ASSUME Join PROVE DepthExact'
  BY <1>9 DEF Join
<1>10. ASSUME Overlap PROVE DepthExact'
  BY <1>10 DEF Overlap
<1>11. ASSUME Destroy PROVE DepthExact'
  BY <1>11 DEF Destroy
<1>12. ASSUME SpuriousCallerWakeup PROVE DepthExact'
  BY <1>12 DEF SpuriousCallerWakeup
<1>13. ASSUME NEW r \in Ranges, RunEmpty(r) PROVE DepthExact'
  BY <1>13 DEF RunEmpty
<1>14. ASSUME NEW r \in Ranges, RunInitFails(r) PROVE DepthExact'
  BY <1>14 DEF RunInitFails
<1>15. ASSUME NEW r \in Ranges, RunRejected(r) PROVE DepthExact'
  BY <1>15 DEF RunRejected
<1>16. ASSUME NEW r \in Ranges, RunEnter(r) PROVE DepthExact'
  BY <1>16 DEF RunEnter
<1>17. ASSUME NEW w \in Worker, Arrive(w) PROVE DepthExact'
  BY <1>17 DEF Arrive
<1>18. ASSUME NEW w \in Worker, WakeToOnce(w) PROVE DepthExact'
  BY <1>18 DEF WakeToOnce
<1>19. ASSUME NEW w \in Worker, WakeToExit(w) PROVE DepthExact'
  BY <1>19 DEF WakeToExit
<1>20. ASSUME NEW w \in Worker, WakeToRange(w) PROVE DepthExact'
  BY <1>20 DEF WakeToRange
<1>21. ASSUME NEW w \in Worker, OnceReturns(w) PROVE DepthExact'
  BY <1>21 DEF OnceReturns
<1>22. ASSUME NEW w \in Worker, LoadReserved(w) PROVE DepthExact'
  BY <1>22 DEF LoadReserved
<1>23. ASSUME NEW w \in Worker, ReserveChunk(w) PROVE DepthExact'
  BY <1>23 DEF ReserveChunk
<1>24. ASSUME NEW w \in Worker, CallTask(w) PROVE DepthExact'
  BY <1>24 DEF CallTask
<1>25. ASSUME NEW w \in Worker, ChunkDone(w) PROVE DepthExact'
  BY <1>25 DEF ChunkDone
<1>26. ASSUME NEW w \in Worker, TaskReturns(w) PROVE DepthExact'
  BY <1>26 DEF TaskReturns
<1>27. ASSUME UNCHANGED vars PROVE DepthExact'
  BY <1>27 DEF vars, callerVars
<1> QED
  BY <1>1, <1>2, <1>3, <1>4, <1>5, <1>6, <1>7, <1>8, <1>9, <1>10, <1>11, <1>12, <1>13, <1>14, <1>15, <1>16, <1>17, <1>18, <1>19, <1>20, <1>21, <1>22, <1>23, <1>24, <1>25, <1>26, <1>27
     DEF Next, CallerStep, ClientStep, WorkerStep, Destroyed

(* Every step keeps the caller's place and the command word in agreement. *)
LEMMA JobStep == SyncInv /\ [Next]_vars => JobInv'
<1> SUFFICES ASSUME SyncInv, [Next]_vars PROVE JobInv'
  OBVIOUS
<1> USE DEF SyncInv, TypeOK, JobInv, AtBarrier, JobCommand, callerVars
<1>1. ASSUME SpawnWorker PROVE JobInv'
  BY <1>1 DEF SpawnWorker
<1>2. ASSUME WarmUp PROVE JobInv'
  BY <1>2 DEF WarmUp
<1>3. ASSUME RunPrepare PROVE JobInv'
  BY <1>3 DEF RunPrepare
<1>4. ASSUME StartWorkers PROVE JobInv'
  BY <1>4 DEF StartWorkers
<1>5. ASSUME NotifyWorkers PROVE JobInv'
  BY <1>5 DEF NotifyWorkers
<1>6. ASSUME BarrierPass PROVE JobInv'
  BY <1>6 DEF BarrierPass
<1>7. ASSUME BarrierBlock PROVE JobInv'
  BY <1>7 DEF BarrierBlock
<1>8. ASSUME RunLeave PROVE JobInv'
  BY <1>8 DEF RunLeave
<1>9. ASSUME Join PROVE JobInv'
  BY <1>9 DEF Join
<1>10. ASSUME Overlap PROVE JobInv'
  BY <1>10 DEF Overlap
<1>11. ASSUME Destroy PROVE JobInv'
  BY <1>11 DEF Destroy
<1>12. ASSUME SpuriousCallerWakeup PROVE JobInv'
  BY <1>12 DEF SpuriousCallerWakeup
<1>13. ASSUME NEW r \in Ranges, RunEmpty(r) PROVE JobInv'
  BY <1>13 DEF RunEmpty
<1>14. ASSUME NEW r \in Ranges, RunInitFails(r) PROVE JobInv'
  BY <1>14 DEF RunInitFails
<1>15. ASSUME NEW r \in Ranges, RunRejected(r) PROVE JobInv'
  BY <1>15 DEF RunRejected
<1>16. ASSUME NEW r \in Ranges, RunEnter(r) PROVE JobInv'
  BY <1>16 DEF RunEnter
<1>17. ASSUME NEW w \in Worker, Arrive(w) PROVE JobInv'
  BY <1>17 DEF Arrive
<1>18. ASSUME NEW w \in Worker, WakeToOnce(w) PROVE JobInv'
  BY <1>18 DEF WakeToOnce
<1>19. ASSUME NEW w \in Worker, WakeToExit(w) PROVE JobInv'
  BY <1>19 DEF WakeToExit
<1>20. ASSUME NEW w \in Worker, WakeToRange(w) PROVE JobInv'
  BY <1>20 DEF WakeToRange
<1>21. ASSUME NEW w \in Worker, OnceReturns(w) PROVE JobInv'
  BY <1>21 DEF OnceReturns
<1>22. ASSUME NEW w \in Worker, LoadReserved(w) PROVE JobInv'
  BY <1>22 DEF LoadReserved
<1>23. ASSUME NEW w \in Worker, ReserveChunk(w) PROVE JobInv'
  BY <1>23 DEF ReserveChunk
<1>24. ASSUME NEW w \in Worker, CallTask(w) PROVE JobInv'
  BY <1>24 DEF CallTask
<1>25. ASSUME NEW w \in Worker, ChunkDone(w) PROVE JobInv'
  BY <1>25 DEF ChunkDone
<1>26. ASSUME NEW w \in Worker, TaskReturns(w) PROVE JobInv'
  BY <1>26 DEF TaskReturns
<1>27. ASSUME UNCHANGED vars PROVE JobInv'
  BY <1>27 DEF vars, callerVars
<1> QED
  BY <1>1, <1>2, <1>3, <1>4, <1>5, <1>6, <1>7, <1>8, <1>9, <1>10, <1>11, <1>12, <1>13, <1>14, <1>15, <1>16, <1>17, <1>18, <1>19, <1>20, <1>21, <1>22, <1>23, <1>24, <1>25, <1>26, <1>27
     DEF Next, CallerStep, ClientStep, WorkerStep, Destroyed

(* Every step keeps the workers where the caller expects them. *)
LEMMA PlaceStep == SyncInv /\ [Next]_vars => PlaceInv'
<1> SUFFICES ASSUME SyncInv, [Next]_vars PROVE PlaceInv'
  OBVIOUS
<1> USE DEF SyncInv, TypeOK, PlaceInv, AtBarrier, Out, JobInv, Worker, callerVars
<1>1. ASSUME SpawnWorker PROVE PlaceInv'
  BY <1>1 DEF SpawnWorker
<1>2. ASSUME WarmUp PROVE PlaceInv'
  BY <1>2 DEF WarmUp
<1>3. ASSUME RunPrepare PROVE PlaceInv'
  BY <1>3 DEF RunPrepare
<1>4. ASSUME StartWorkers PROVE PlaceInv'
  BY <1>4 DEF StartWorkers
<1>5. ASSUME NotifyWorkers PROVE PlaceInv'
  BY <1>5 DEF NotifyWorkers
<1>6. ASSUME BarrierPass PROVE PlaceInv'
  BY <1>6, AllWaiting DEF BarrierPass
<1>7. ASSUME BarrierBlock PROVE PlaceInv'
  BY <1>7 DEF BarrierBlock
<1>8. ASSUME RunLeave PROVE PlaceInv'
  BY <1>8 DEF RunLeave
<1>9. ASSUME Join PROVE PlaceInv'
  BY <1>9 DEF Join
<1>10. ASSUME Overlap PROVE PlaceInv'
  BY <1>10 DEF Overlap
<1>11. ASSUME Destroy PROVE PlaceInv'
  BY <1>11 DEF Destroy
<1>12. ASSUME SpuriousCallerWakeup PROVE PlaceInv'
  BY <1>12 DEF SpuriousCallerWakeup
<1>13. ASSUME NEW r \in Ranges, RunEmpty(r) PROVE PlaceInv'
  BY <1>13 DEF RunEmpty
<1>14. ASSUME NEW r \in Ranges, RunInitFails(r) PROVE PlaceInv'
  BY <1>14 DEF RunInitFails
<1>15. ASSUME NEW r \in Ranges, RunRejected(r) PROVE PlaceInv'
  BY <1>15 DEF RunRejected
<1>16. ASSUME NEW r \in Ranges, RunEnter(r) PROVE PlaceInv'
  BY <1>16 DEF RunEnter
<1>17. ASSUME NEW w \in Worker, Arrive(w) PROVE PlaceInv'
  BY <1>17 DEF Arrive
<1>18. ASSUME NEW w \in Worker, WakeToOnce(w) PROVE PlaceInv'
  BY <1>18, WokenCommand DEF WakeToOnce
<1>19. ASSUME NEW w \in Worker, WakeToExit(w) PROVE PlaceInv'
  BY <1>19, WokenCommand DEF WakeToExit
<1>20. ASSUME NEW w \in Worker, WakeToRange(w) PROVE PlaceInv'
  BY <1>20, WokenCommand DEF WakeToRange
<1>21. ASSUME NEW w \in Worker, OnceReturns(w) PROVE PlaceInv'
  BY <1>21 DEF OnceReturns
<1>22. ASSUME NEW w \in Worker, LoadReserved(w) PROVE PlaceInv'
  BY <1>22 DEF LoadReserved
<1>23. ASSUME NEW w \in Worker, ReserveChunk(w) PROVE PlaceInv'
  BY <1>23 DEF ReserveChunk
<1>24. ASSUME NEW w \in Worker, CallTask(w) PROVE PlaceInv'
  BY <1>24 DEF CallTask
<1>25. ASSUME NEW w \in Worker, ChunkDone(w) PROVE PlaceInv'
  BY <1>25 DEF ChunkDone
<1>26. ASSUME NEW w \in Worker, TaskReturns(w) PROVE PlaceInv'
  BY <1>26 DEF TaskReturns
<1>27. ASSUME UNCHANGED vars PROVE PlaceInv'
  BY <1>27 DEF vars, callerVars
<1> QED
  BY <1>1, <1>2, <1>3, <1>4, <1>5, <1>6, <1>7, <1>8, <1>9, <1>10, <1>11, <1>12, <1>13, <1>14, <1>15, <1>16, <1>17, <1>18, <1>19, <1>20, <1>21, <1>22, <1>23, <1>24, <1>25, <1>26, <1>27
     DEF Next, CallerStep, ClientStep, WorkerStep, Destroyed

(* Every step keeps the ready counter equal to the number of waiting workers. *)
LEMMA CountStep == SyncInv /\ [Next]_vars => CountInv'
<1> SUFFICES ASSUME SyncInv, [Next]_vars PROVE CountInv'
  OBVIOUS
<1> USE DEF SyncInv, TypeOK, PlaceInv, CountInv, AtBarrier, Out, JobInv, callerVars
<1>1. ASSUME SpawnWorker PROVE CountInv'
<2>1. Waiting' = Waiting
  BY <1>1 DEF SpawnWorker, Waiting
<2> QED
  BY <1>1, <2>1 DEF SpawnWorker
<1>2. ASSUME WarmUp PROVE CountInv'
  BY <1>2 DEF WarmUp, Waiting
<1>3. ASSUME RunPrepare PROVE CountInv'
  BY <1>3 DEF RunPrepare, Waiting
<1>4. ASSUME StartWorkers PROVE CountInv'
  BY <1>4 DEF StartWorkers, Waiting
<1>5. ASSUME NotifyWorkers PROVE CountInv'
<2>1. Waiting' = {}
  BY <1>5 DEF NotifyWorkers, Waiting
<2> QED
  BY <1>5, <2>1, FS_EmptySet, NumWorkersAssumption DEF NotifyWorkers
<1>6. ASSUME BarrierPass PROVE CountInv'
  BY <1>6 DEF BarrierPass, Waiting
<1>7. ASSUME BarrierBlock PROVE CountInv'
  BY <1>7 DEF BarrierBlock, Waiting
<1>8. ASSUME RunLeave PROVE CountInv'
  BY <1>8 DEF RunLeave, Waiting
<1>9. ASSUME Join PROVE CountInv'
  BY <1>9 DEF Join, Waiting
<1>10. ASSUME Overlap PROVE CountInv'
  BY <1>10 DEF Overlap, Waiting
<1>11. ASSUME Destroy PROVE CountInv'
  BY <1>11 DEF Destroy, Waiting
<1>12. ASSUME SpuriousCallerWakeup PROVE CountInv'
  BY <1>12 DEF SpuriousCallerWakeup, Waiting
<1>13. ASSUME NEW r \in Ranges, RunEmpty(r) PROVE CountInv'
  BY <1>13 DEF RunEmpty, Waiting
<1>14. ASSUME NEW r \in Ranges, RunInitFails(r) PROVE CountInv'
  BY <1>14 DEF RunInitFails, Waiting
<1>15. ASSUME NEW r \in Ranges, RunRejected(r) PROVE CountInv'
  BY <1>15 DEF RunRejected, Waiting
<1>16. ASSUME NEW r \in Ranges, RunEnter(r) PROVE CountInv'
  BY <1>16 DEF RunEnter, Waiting
<1>17. ASSUME NEW w \in Worker, Arrive(w) PROVE CountInv'
<2>1. Waiting' = Waiting \cup {w} /\ w \notin Waiting
  BY <1>17 DEF Arrive, Waiting
<2>2. Cardinality(Waiting') = Cardinality(Waiting) + 1
  BY <2>1, WaitingFinite, FS_AddElement
<2>3. main = "spawn" \/ AtBarrier
  BY <1>17 DEF Arrive
<2> QED
  BY <1>17, <2>2, <2>3 DEF Arrive
<1>18. ASSUME NEW w \in Worker, WakeToOnce(w) PROVE CountInv'
  BY <1>18 DEF WakeToOnce, Waiting
<1>19. ASSUME NEW w \in Worker, WakeToExit(w) PROVE CountInv'
  BY <1>19 DEF WakeToExit, Waiting
<1>20. ASSUME NEW w \in Worker, WakeToRange(w) PROVE CountInv'
  BY <1>20 DEF WakeToRange, Waiting
<1>21. ASSUME NEW w \in Worker, OnceReturns(w) PROVE CountInv'
  BY <1>21 DEF OnceReturns, Waiting
<1>22. ASSUME NEW w \in Worker, LoadReserved(w) PROVE CountInv'
  BY <1>22 DEF LoadReserved, Waiting
<1>23. ASSUME NEW w \in Worker, ReserveChunk(w) PROVE CountInv'
  BY <1>23 DEF ReserveChunk, Waiting
<1>24. ASSUME NEW w \in Worker, CallTask(w) PROVE CountInv'
  BY <1>24 DEF CallTask, Waiting
<1>25. ASSUME NEW w \in Worker, ChunkDone(w) PROVE CountInv'
  BY <1>25 DEF ChunkDone, Waiting
<1>26. ASSUME NEW w \in Worker, TaskReturns(w) PROVE CountInv'
  BY <1>26 DEF TaskReturns, Waiting
<1>27. ASSUME UNCHANGED vars PROVE CountInv'
  BY <1>27 DEF vars, callerVars, Waiting
<1> QED
  BY <1>1, <1>2, <1>3, <1>4, <1>5, <1>6, <1>7, <1>8, <1>9, <1>10, <1>11, <1>12, <1>13, <1>14, <1>15, <1>16, <1>17, <1>18, <1>19, <1>20, <1>21, <1>22, <1>23, <1>24, <1>25, <1>26, <1>27
     DEF Next, CallerStep, ClientStep, WorkerStep, Destroyed

(* The synchronisation part of the invariant.                              *)
THEOREM Synchronisation == Spec => []SyncInv
<1>1. Init => SyncInv
  <2> SUFFICES ASSUME Init PROVE SyncInv
    OBVIOUS
  <2> USE DEF Init
  <2>1. TypeOK
    BY NumWorkersAssumption, MAssumption, ReservedCommands
       DEF TypeOK, UInt32, Local, NoCalls
  <2>2. DepthExact /\ JobInv /\ PlaceInv
    BY NumWorkersAssumption DEF DepthExact, JobInv, PlaceInv, AtBarrier, Worker
  <2>3. Waiting = {}
    BY DEF Waiting
  <2> QED
    BY <2>1, <2>2, <2>3, FS_EmptySet DEF SyncInv, CountInv, AtBarrier
<1>2. SyncInv /\ [Next]_vars => SyncInv'
  BY TypeStep, DepthStep, JobStep, PlaceStep, CountStep DEF SyncInv
<1> QED
  BY <1>1, <1>2, PTL DEF Spec

-------------------------------------------------------------------------------
(* Arithmetic of the guided chunks.                                        *)
LEMMA MulMono ==
  ASSUME NEW a \in Nat, NEW b \in Nat, NEW c \in Nat, b <= c
  PROVE  a * b <= a * c /\ a * b \in Nat /\ a * (b + 1) = a * b + a
  BY SMT

(* Integer division is monotonic. *)
LEMMA DivMono ==
  ASSUME NEW a \in Nat, NEW b \in Nat, NEW d \in Nat \ {0}, a <= b
  PROVE  a \div d <= b \div d
  BY SMT

(* No chunk of a call is larger than the one computed with nothing reserved. *)
LEMMA ChunkMono ==
  ASSUME NEW n \in UInt32, NEW r \in UInt32
  PROVE  ChunkSize(n, r) <= ChunkSize(n, 0)
<1> DEFINE remaining == IF r < n THEN n - r ELSE 0
           rest == IF 0 < n THEN n - 0 ELSE 0
           d == NumWorkers * 4
<1>1. remaining \in Nat /\ rest \in Nat /\ remaining <= rest
  BY MAssumption DEF UInt32
<1>2. d \in Nat \ {0}
  BY NumWorkersAssumption
<1>3. remaining \div d <= rest \div d
  BY <1>1, <1>2, DivMono
<1>4. remaining \div d \in Int /\ rest \div d \in Int
  BY <1>1, <1>2, DivType
<1> QED
  BY <1>3, <1>4 DEF ChunkSize

(* A worker inside RunRange serves the current, nonempty range.            *)
LEMMA InRunRange ==
  ASSUME SyncInv, NEW w \in Worker, pc[w] \in {"load", "reserve", "next", "call"}
  PROVE  /\ job = "run" /\ AtBarrier /\ range \in Ranges
         /\ range[1] \in UInt32 /\ range[2] \in UInt32 /\ range[1] < range[2]
<1>1. AtBarrier
  BY DEF SyncInv, TypeOK, PlaceInv, AtBarrier
<1>2. job = "run"
  BY <1>1 DEF SyncInv, TypeOK, JobInv, PlaceInv, Out
<1> QED
  BY <1>1, <1>2 DEF SyncInv, TypeOK, JobInv

(* Reserving never wraps when the ranges stay away from 2^32.              *)
LEMMA ReserveNoWrap ==
  ASSUME NoWrap, SyncInv, RangeInv, NEW w \in Worker, pc[w] = "reserve"
  PROVE  /\ local[w].begin + reserved = Limit
         /\ Limit % M = Limit
         /\ (Limit + local[w].size) % M = Limit + local[w].size
         /\ (reserved + local[w].size) % M = reserved + local[w].size
<1> DEFINE n == range[2] - range[1]
           over == Cardinality(Over)
<1>1. range[1] \in UInt32 /\ range[2] \in UInt32 /\ range[1] < range[2] /\ range \in Ranges
  BY InRunRange
<1>2. n \in UInt32 /\ n \in Nat /\ range[1] \in Nat /\ range[2] \in Nat
  BY <1>1, MAssumption DEF UInt32
<1>3. LargestChunk \in Nat
  BY <1>2, ChunkSizeType, MAssumption DEF LargestChunk, UInt32
<1>4. over \in Nat /\ over + 1 <= NumWorkers
  <2>1. Over \in SUBSET Worker /\ w \notin Over /\ Over \cup {w} \in SUBSET Worker
    BY DEF Over
  <2>2. IsFiniteSet(Over) /\ over \in Nat
    BY <2>1, WaitingFinite, FS_Subset, FS_CardinalityType
  <2>3. Cardinality(Over \cup {w}) = over + 1
    BY <2>1, <2>2, FS_AddElement
  <2> QED
    BY <2>1, <2>2, <2>3, WaitingFinite, FS_Subset
<1>5. LargestChunk * (over + 1) <= LargestChunk * NumWorkers
  BY <1>3, <1>4, MulMono, NumWorkersAssumption
<1>6. LargestChunk * (NumWorkers + 1) = LargestChunk * NumWorkers + LargestChunk
  BY <1>3, MulMono, NumWorkersAssumption
<1>7. LargestChunk * (over + 1) \in Nat /\ LargestChunk * NumWorkers \in Nat
  BY <1>3, <1>4, MulMono, NumWorkersAssumption
<1>8. range[2] + (NumWorkers + 1) * LargestChunk <= M
  BY <1>1 DEF NoWrap, LargestChunk
<1>9. (NumWorkers + 1) * LargestChunk = LargestChunk * (NumWorkers + 1)
  BY <1>3, NumWorkersAssumption, SMT
<1>10. local[w].begin = range[1] /\ 1 <= local[w].size /\ local[w].size <= LargestChunk
  BY DEF RangeInv, ChunkInv
<1>11. reserved <= n - 1 + LargestChunk * (over + 1)
  BY DEF RangeInv, BoundInv
<1>12. local[w].size \in Nat /\ reserved \in Nat
  BY MAssumption DEF SyncInv, TypeOK, Local, UInt32
<1>13. range[1] + reserved + local[w].size < M
  BY <1>2, <1>3, <1>5, <1>6, <1>7, <1>8, <1>9, <1>10, <1>11, <1>12, MAssumption
<1>14. /\ range[1] + reserved \in UInt32
       /\ range[1] + reserved + local[w].size \in UInt32
       /\ reserved + local[w].size \in UInt32
  BY <1>2, <1>12, <1>13, MAssumption DEF UInt32
<1> QED
  BY <1>10, <1>14, ModSmall DEF Limit


-------------------------------------------------------------------------------
(***************************************************************************)
(* The steps of a worker in RunRange keep RangeInv and CalledOnceInRange.  *)
(***************************************************************************)
LEMMA LocalsNat ==
  ASSUME SyncInv, NEW v \in Worker
  PROVE  /\ local[v].task \in Nat /\ local[v].stop \in Nat /\ local[v].size \in Nat
         /\ reserved \in Nat
<1>1. local[v] \in Local /\ reserved \in UInt32
  BY DEF SyncInv, TypeOK
<1>2. \A t \in UInt32 : t \in Nat
  BY MAssumption DEF UInt32
<1> QED
  BY <1>1, <1>2 DEF Local

(* A worker that decodes its range owns no task yet. *)
LEMMA WakeKeepsRange ==
  ASSUME SyncInv, RangeInv, NEW w \in Worker, WakeToRange(w)
  PROVE  RangeInv'
<1> USE DEF SyncInv, TypeOK, RangeInv, callerVars
<1>1. pc[w] = "woken" /\ command = RangeCommand(range[1], range[2])
  BY WokenCommand DEF WakeToRange
<1>2. local'[w].begin = range[1] /\ local'[w].end = range[2]
  BY <1>1, CommandDecodes DEF WakeToRange, Local
<1>3. \A v \in Worker : v # w => local'[v] = local[v] /\ pc'[v] = pc[v]
  BY DEF WakeToRange
<1>4. pc'[w] = "load" /\ range' = range /\ calls' = calls /\ reserved' = reserved
  BY DEF WakeToRange
<1>5. ChunkInv'
  BY <1>2, <1>3, <1>4 DEF ChunkInv, LargestChunk, Limit
<1>6. \A v \in Worker, t \in UInt32 : Holds(v, t)' <=> Holds(v, t)
  BY <1>1, <1>3, <1>4 DEF Holds
<1>7. OwnerInv'
  BY <1>4, <1>6 DEF OwnerInv, InRange, Limit
<1>8. Over' = Over
  BY <1>1, <1>3, <1>4 DEF Over
<1> QED
  BY <1>4, <1>5, <1>7, <1>8 DEF BoundInv, LargestChunk

(* Computing a chunk size moves no task. *)
LEMMA LoadKeepsRange ==
  ASSUME SyncInv, RangeInv, NEW w \in Worker, LoadReserved(w)
  PROVE  RangeInv'
<1> USE DEF SyncInv, TypeOK, RangeInv, callerVars
<1>1. /\ pc[w] = "load" /\ pc'[w] = "reserve"
      /\ range' = range /\ calls' = calls /\ reserved' = reserved
  BY DEF LoadReserved
<1>2. /\ range[1] \in UInt32 /\ range[2] \in UInt32 /\ range[1] < range[2]
      /\ local[w].begin = range[1] /\ local[w].end = range[2]
  BY <1>1, InRunRange DEF ChunkInv
<1>3. range[2] - range[1] \in UInt32
  BY <1>2, MAssumption DEF UInt32
<1>4. (local[w].end - local[w].begin) % M = range[2] - range[1]
  BY <1>2, <1>3, ModSmall
<1>5. local'[w].size = ChunkSize(range[2] - range[1], reserved)
  BY <1>4 DEF LoadReserved, Local
<1>6. local'[w].begin = range[1] /\ local'[w].end = range[2]
  BY <1>2 DEF LoadReserved, Local
<1>7. 1 <= local'[w].size /\ local'[w].size <= LargestChunk
  BY <1>3, <1>5, ChunkSizeType, ChunkMono DEF LargestChunk
<1>8. \A v \in Worker : v # w => local'[v] = local[v] /\ pc'[v] = pc[v]
  BY DEF LoadReserved
<1>9. ChunkInv'
  BY <1>1, <1>6, <1>7, <1>8 DEF ChunkInv, LargestChunk, Limit
<1>10. \A v \in Worker, t \in UInt32 : Holds(v, t)' <=> Holds(v, t)
  BY <1>1, <1>8 DEF Holds
<1>11. OwnerInv'
  BY <1>1, <1>10 DEF OwnerInv, InRange, Limit
<1>12. Over' = Over
  BY <1>1, <1>8 DEF Over
<1> QED
  BY <1>1, <1>9, <1>11, <1>12 DEF BoundInv, LargestChunk

(* fetch_add gives the reserved numbers to exactly one worker. *)
LEMMA ReserveKeepsRange ==
  ASSUME NoWrap, SyncInv, RangeInv, NEW w \in Worker, ReserveChunk(w)
  PROVE  RangeInv' /\ reserved' >= reserved
<1> USE DEF SyncInv, TypeOK, RangeInv, callerVars
<1> DEFINE size == local[w].size
           stop == IF Limit + size < range[2] THEN Limit + size ELSE range[2]
           n == range[2] - range[1]
           over == Cardinality(Over)
<1>1. pc[w] = "reserve" /\ range' = range /\ calls' = calls
  BY DEF ReserveChunk
<1>2. /\ range[1] \in UInt32 /\ range[2] \in UInt32 /\ range[1] < range[2]
      /\ local[w].begin = range[1] /\ local[w].end = range[2]
      /\ 1 <= size /\ size <= LargestChunk
  BY <1>1, InRunRange DEF ChunkInv
<1>3. range[1] \in Nat /\ range[2] \in Nat /\ n \in UInt32 /\ reserved \in Nat
  BY <1>2, MAssumption DEF UInt32
<1>4. size \in Nat /\ LargestChunk \in Nat
  <2>1. 0 \in UInt32
    BY MAssumption DEF UInt32
  <2>2. ChunkSize(n, 0) \in 1 .. M - 1
    BY <1>3, <2>1, ChunkSizeType
  <2>3. LargestChunk \in Nat
    BY <2>2, MAssumption DEF LargestChunk
  <2> QED
    BY <2>3, LocalsNat
<1>5. /\ local[w].begin + reserved = Limit
      /\ Limit % M = Limit
      /\ (Limit + size) % M = Limit + size
      /\ (reserved + size) % M = reserved + size
  BY <1>1, ReserveNoWrap
<1>6. /\ reserved' = reserved + size
      /\ pc' = [pc EXCEPT ![w] = IF Limit >= stop THEN "arrive" ELSE "next"]
      /\ local' = [local EXCEPT ![w].task = Limit, ![w].stop = stop]
  BY <1>2, <1>5 DEF ReserveChunk
<1>7. /\ local'[w].task = Limit /\ local'[w].stop = stop
      /\ local'[w].begin = range[1] /\ local'[w].end = range[2]
      /\ pc'[w] = IF Limit >= stop THEN "arrive" ELSE "next"
  BY <1>2, <1>6 DEF Local
<1>8. \A v \in Worker : v # w => local'[v] = local[v] /\ pc'[v] = pc[v]
  BY <1>6
<1>9. Limit' = Limit + size /\ Limit \in Nat /\ range[1] <= Limit
  BY <1>1, <1>3, <1>4, <1>6 DEF Limit
<1>10. Limit >= stop <=> range[2] <= Limit
  BY <1>2, <1>3, <1>4, <1>9
<1>11. ChunkInv'
  <2>1. \A v \in Worker : v # w =>
          /\ pc'[v] \in {"next", "call"} => local'[v].stop <= Limit'
          /\ pc'[v] \in {"arrive", "wait"} => range[2] <= Limit'
    <3>1. \A v \in Worker : local[v].stop \in Nat
      BY LocalsNat
    <3> QED
      BY <1>3, <1>4, <1>8, <1>9, <3>1 DEF ChunkInv
  <2>2. /\ pc'[w] = "next" =>
             range[1] <= Limit /\ Limit <= stop /\ stop <= range[2] /\ stop <= Limit'
        /\ pc'[w] = "arrive" => range[2] <= Limit'
    BY <1>3, <1>4, <1>7, <1>9, <1>10
  <2> QED
    BY <1>1, <1>7, <1>8, <2>1, <2>2 DEF ChunkInv, LargestChunk
<1>12. OwnerInv'
  <2>1. \A v \in Worker, t \in UInt32 : v # w => (Holds(v, t)' <=> Holds(v, t))
    BY <1>8 DEF Holds
  <2>2. \A t \in UInt32 : ~Holds(w, t)
    BY <1>1 DEF Holds
  <2>3. \A t \in UInt32 : Holds(w, t)' <=> Limit < stop /\ Limit <= t /\ t < stop
    <3>1. pc'[w] = "next" <=> Limit < stop
      BY <1>3, <1>4, <1>7, <1>9
    <3>2. pc'[w] # "call"
      BY <1>7
    <3> QED
      BY <1>7, <3>1, <3>2 DEF Holds
  <2>4. \A t \in UInt32 : t \in Nat
    BY MAssumption DEF UInt32
  <2>5. \A t \in UInt32 : Limit <= t => calls[t] = 0
    BY <1>9, <2>4 DEF OwnerInv
  <2>6. \A v \in Worker, t \in UInt32 : Holds(v, t) => t < Limit
    <3>1. \A v \in Worker : local[v].stop \in Nat
      BY LocalsNat
    <3> QED
      BY <1>9, <2>4, <3>1 DEF Holds, ChunkInv
  <2>7. \A t \in UInt32 : InRange(t) /\ Limit <= t /\ t < Limit' => Holds(w, t)'
    BY <1>3, <1>4, <1>9, <2>3, <2>4 DEF InRange
  <2>8. \A t \in UInt32 : InRange(t)' <=> InRange(t)
    BY <1>1 DEF InRange
  <2>9. \A v \in Worker, t \in UInt32 : Holds(v, t)' => calls'[t] = 0
    BY <1>1, <2>1, <2>3, <2>5 DEF OwnerInv
  <2>10. \A u, v \in Worker : u # v => \A t \in UInt32 : ~(Holds(u, t)' /\ Holds(v, t)')
    BY <1>9, <2>1, <2>3, <2>4, <2>6 DEF OwnerInv
  <2>11. \A t \in UInt32 : InRange(t)' /\ t < Limit' /\ calls'[t] = 0 =>
           \E v \in Worker : Holds(v, t)'
    BY <1>1, <1>9, <2>1, <2>2, <2>4, <2>7, <2>8 DEF OwnerInv
  <2>12. \A t \in UInt32 : calls'[t] > 0 => t < Limit'
    BY <1>1, <1>4, <1>9, <2>4 DEF OwnerInv
  <2> QED
    BY <2>9, <2>10, <2>11, <2>12 DEF OwnerInv
<1>13. BoundInv'
  <2>1. Over \in SUBSET Worker /\ w \notin Over
    BY <1>1 DEF Over
  <2>2. IsFiniteSet(Over) /\ over \in Nat
    BY <2>1, WaitingFinite, FS_Subset, FS_CardinalityType
  <2>3. /\ LargestChunk * (over + 1) = LargestChunk * over + LargestChunk
        /\ LargestChunk * ((over + 1) + 1) = LargestChunk * (over + 1) + LargestChunk
        /\ LargestChunk * over \in Nat /\ LargestChunk * (over + 1) \in Nat
    BY <1>4, <2>2, MulMono
  <2>4. CASE Limit >= stop
    <3>1. Over' = Over \cup {w}
      BY <1>7, <1>8, <2>4 DEF Over
    <3>2. Cardinality(Over') = over + 1
      BY <2>1, <2>2, <3>1, FS_AddElement
    <3>3. reserved <= n - 1 + LargestChunk * (over + 1)
      BY DEF BoundInv
    <3>4. reserved + size <= n - 1 + LargestChunk * ((over + 1) + 1)
      BY <1>2, <1>3, <1>4, <2>3, <3>3
    <3> QED
      BY <1>1, <1>6, <3>2, <3>4 DEF BoundInv, LargestChunk
  <2>5. CASE Limit < stop
    <3>1. Over' = Over
      BY <1>1, <1>3, <1>4, <1>7, <1>8, <1>9, <2>5 DEF Over
    <3>2. reserved <= n - 1
      BY <1>3, <1>4, <1>9, <2>5 DEF Limit
    <3>3. reserved + size <= n - 1 + LargestChunk * (over + 1)
      BY <1>2, <1>3, <1>4, <2>3, <3>2
    <3> QED
      BY <1>1, <1>6, <3>1, <3>3 DEF BoundInv, LargestChunk
  <2> QED
    BY <1>3, <1>4, <1>9, <2>4, <2>5
<1> QED
  BY <1>3, <1>4, <1>6, <1>11, <1>12, <1>13

(* Calling the data function takes one number out of the chunk, the first time. *)
LEMMA CallKeepsRange ==
  ASSUME SyncInv, RangeInv, CalledOnceInRange, NEW w \in Worker, CallTask(w)
  PROVE  RangeInv' /\ CalledOnceInRange'
<1> USE DEF SyncInv, TypeOK, RangeInv, callerVars
<1> DEFINE task == local[w].task
<1>1. /\ pc[w] = "next" /\ pc'[w] = "call" /\ task < local[w].stop
      /\ range' = range /\ local' = local /\ reserved' = reserved
      /\ calls' = [calls EXCEPT ![task] = @ + 1]
  BY DEF CallTask
<1>2. /\ range[1] \in UInt32 /\ range[2] \in UInt32
      /\ task \in UInt32 /\ local[w].stop \in UInt32
      /\ range[1] <= task /\ local[w].stop <= range[2] /\ local[w].stop <= Limit
  BY <1>1, InRunRange DEF ChunkInv, Local
<1>3. \A v \in Worker : v # w => pc'[v] = pc[v]
  BY DEF CallTask
<1>4. \A t \in UInt32 : t \in Nat
  BY MAssumption DEF UInt32
<1>5. Holds(w, task)
  BY <1>1, <1>2, <1>4 DEF Holds
<1>6. calls[task] = 0 /\ calls'[task] = 1
  BY <1>1, <1>2, <1>5 DEF OwnerInv
<1>7. \A t \in UInt32 : t # task => calls'[t] = calls[t]
  BY <1>1
<1>8. ChunkInv'
  BY <1>1, <1>3 DEF ChunkInv, LargestChunk, Limit
<1>9. Limit \in Int
  BY <1>2, <1>4 DEF Limit
<1>10. InRange(task) /\ task < Limit
  BY <1>1, <1>2, <1>4, <1>9 DEF InRange
<1>11. CalledOnceInRange'
  BY <1>1, <1>6, <1>7, <1>10 DEF CalledOnceInRange, InRange
<1>12. \A v \in Worker, t \in UInt32 : v # w => (Holds(v, t)' <=> Holds(v, t))
  BY <1>1, <1>3 DEF Holds
<1>13. \A t \in UInt32 : Holds(w, t)' <=> Holds(w, t) /\ t # task
  BY <1>1, <1>2, <1>4 DEF Holds
<1>14. OwnerInv'
  BY <1>1, <1>2, <1>5, <1>6, <1>7, <1>10, <1>12, <1>13 DEF OwnerInv, InRange, Limit
<1>15. Over' = Over
  BY <1>1, <1>3 DEF Over
<1> QED
  BY <1>1, <1>8, <1>11, <1>14, <1>15 DEF BoundInv, LargestChunk

(* A worker that finished its chunk holds nothing. *)
LEMMA ChunkDoneKeepsRange ==
  ASSUME SyncInv, RangeInv, NEW w \in Worker, ChunkDone(w)
  PROVE  RangeInv'
<1> USE DEF SyncInv, TypeOK, RangeInv, callerVars
<1>1. /\ pc[w] = "next" /\ pc'[w] = "load" /\ local[w].task >= local[w].stop
      /\ range' = range /\ local' = local /\ reserved' = reserved /\ calls' = calls
  BY DEF ChunkDone
<1>2. \A v \in Worker : v # w => pc'[v] = pc[v]
  BY DEF ChunkDone
<1>3. ChunkInv'
  BY <1>1, <1>2 DEF ChunkInv, LargestChunk, Limit
<1>4. \A v \in Worker, t \in UInt32 : Holds(v, t)' <=> Holds(v, t)
  <2>1. \A v \in Worker : local[v].task \in Nat /\ local[v].stop \in Nat
    BY LocalsNat
  <2>2. \A t \in UInt32 : t \in Nat
    BY MAssumption DEF UInt32
  <2> QED
    BY <1>1, <1>2, <2>1, <2>2 DEF Holds
<1>5. OwnerInv'
  BY <1>1, <1>4 DEF OwnerInv, InRange, Limit
<1>6. Over' = Over
  BY <1>1, <1>2 DEF Over
<1> QED
  BY <1>1, <1>3, <1>5, <1>6 DEF BoundInv, LargestChunk

(* The loop variable moves on past the number just called. *)
LEMMA ReturnKeepsRange ==
  ASSUME SyncInv, RangeInv, NEW w \in Worker, TaskReturns(w)
  PROVE  RangeInv'
<1> USE DEF SyncInv, TypeOK, RangeInv, callerVars
<1>1. /\ pc[w] = "call" /\ pc'[w] = "next"
      /\ range' = range /\ reserved' = reserved /\ calls' = calls
  BY DEF TaskReturns
<1>2. /\ local[w].task \in UInt32 /\ local[w].stop \in UInt32
      /\ local[w].task < local[w].stop
  BY <1>1 DEF ChunkInv, Local
<1>3. local[w].task + 1 \in UInt32
  BY <1>2, MAssumption DEF UInt32
<1>4. (local[w].task + 1) % M = local[w].task + 1
  BY <1>3, ModSmall
<1>5. /\ local'[w].task = local[w].task + 1 /\ local'[w].stop = local[w].stop
      /\ local'[w].begin = local[w].begin /\ local'[w].end = local[w].end
  BY <1>4 DEF TaskReturns, Local
<1>6. \A v \in Worker : v # w => local'[v] = local[v] /\ pc'[v] = pc[v]
  BY DEF TaskReturns
<1>7. ChunkInv'
  <2>1. /\ range[1] <= local[w].task /\ local[w].stop <= range[2]
        /\ local[w].stop <= Limit /\ range[1] \in UInt32
        /\ local[w].begin = range[1] /\ local[w].end = range[2]
    BY <1>1, InRunRange DEF ChunkInv
  <2>2. range[1] <= local[w].task + 1 /\ local[w].task + 1 <= local[w].stop
    BY <1>2, <2>1, MAssumption DEF UInt32
  <2> QED
    BY <1>1, <1>5, <1>6, <2>1, <2>2 DEF ChunkInv, LargestChunk, Limit
<1>8. \A v \in Worker, t \in UInt32 : Holds(v, t)' <=> Holds(v, t)
  <2>1. \A v \in Worker, t \in UInt32 : v # w => (Holds(v, t)' <=> Holds(v, t))
    BY <1>6 DEF Holds
  <2>2. \A t \in UInt32 : local[w].task + 1 <= t <=> local[w].task < t
    BY SMTT(40), <1>2, MAssumption DEF UInt32
  <2> QED
    BY <1>1, <1>5, <2>1, <2>2 DEF Holds
<1>9. OwnerInv'
  BY <1>1, <1>8 DEF OwnerInv, InRange, Limit
<1>10. Over' = Over
  BY <1>1, <1>6 DEF Over
<1> QED
  BY <1>1, <1>7, <1>9, <1>10 DEF BoundInv, LargestChunk

(* Reporting ready moves no task. *)
LEMMA ArriveKeepsRange ==
  ASSUME SyncInv, RangeInv, NEW w \in Worker, Arrive(w)
  PROVE  RangeInv'
<1> USE DEF SyncInv, TypeOK, RangeInv
<1>1. /\ pc[w] = "arrive" /\ pc'[w] = "wait"
      /\ range' = range /\ local' = local /\ reserved' = reserved /\ calls' = calls
  BY DEF Arrive
<1>2. \A v \in Worker : v # w => pc'[v] = pc[v]
  BY DEF Arrive
<1>3. ChunkInv'
  BY <1>1, <1>2 DEF ChunkInv, LargestChunk, Limit
<1>4. \A v \in Worker, t \in UInt32 : Holds(v, t)' <=> Holds(v, t)
  BY <1>1, <1>2 DEF Holds
<1>5. OwnerInv'
  BY <1>1, <1>4 DEF OwnerInv, InRange, Limit
<1>6. Over' = Over
  BY <1>1, <1>2 DEF Over
<1> QED
  BY <1>1, <1>3, <1>5, <1>6 DEF BoundInv, LargestChunk

(* RangeInv depends on nothing but these variables. *)
LEMMA RangeFrame ==
  ASSUME RangeInv, UNCHANGED <<pc, local, calls, range, reserved>>
  PROVE  RangeInv'
  BY DEF RangeInv, ChunkInv, OwnerInv, BoundInv, Holds, Limit, LargestChunk, Over, InRange

(* When every worker is back, every task of the range has been called.     *)
LEMMA BarrierDone ==
  ASSUME IInv, AtBarrier, ready = threads, job \in {"warmup", "run"}
  PROVE  /\ \A w \in Worker : pc[w] = "wait"
         /\ \A t \in UInt32 : InRange(t) => calls[t] = 1
<1> USE DEF IInv, TaskInv
<1>1. \A w \in Worker : pc[w] = "wait"
  BY AllWaiting
<1>2. 0 \in Worker
  BY NumWorkersAssumption DEF Worker
<1>3. \A t \in UInt32 : t \in Nat /\ calls[t] \in Nat
  BY MAssumption DEF UInt32, SyncInv, TypeOK
<1>4. CASE job = "warmup"
  <2>1. range = <<0, NumWorkers>>
    BY <1>4 DEF SyncInv, JobInv
  <2>2. \A t \in UInt32 : InRange(t) => t \in Worker
    BY <1>3, <2>1, NumWorkersAssumption DEF InRange, Worker
  <2> QED
    BY <1>1, <1>4, <2>2 DEF WarmUpInv
<1>5. CASE job = "run"
  <2>1. RangeInv /\ range[2] <= Limit
    BY <1>1, <1>2, <1>5 DEF RunInv, RangeInv, ChunkInv
  <2>2. \A w \in Worker, t \in UInt32 : ~Holds(w, t)
    BY <1>1 DEF Holds
  <2>3. range[2] \in Nat /\ Limit \in Nat
    <3>1. range[1] \in UInt32 /\ range[2] \in UInt32
      BY DEF SyncInv, TypeOK
    <3>2. range[1] \in Nat /\ range[2] \in Nat
      BY <1>3, <3>1
    <3> QED
      BY <1>2, <3>2, LocalsNat DEF IInv, Limit
  <2>4. \A t \in UInt32 : InRange(t) => calls[t] # 0
    BY <1>3, <2>1, <2>2, <2>3 DEF RangeInv, OwnerInv, InRange
  <2> QED
    BY <1>1, <1>3, <2>4 DEF CalledOnceInRange
<1> QED
  BY <1>4, <1>5

(* The steps other than those inside RunRange.                             *)
LEMMA NotifyKeepsTasks ==
  ASSUME NoWrap, IInv, NotifyWorkers PROVE TaskInv'
<1> USE DEF IInv, SyncInv, TypeOK
<1>1. /\ main = "notify" /\ job \in {"warmup", "run", "exit"}
      /\ \A w \in Worker : pc[w] = "wait" /\ pc'[w] = "woken"
      /\ UNCHANGED <<job, range, local, reserved, calls>>
      /\ main' \in {"join", "barrier"} /\ (job = "exit" <=> main' = "join")
  BY DEF NotifyWorkers, JobInv, PlaceInv
<1>2. CalledOnceInRange'
  BY <1>1 DEF TaskInv, CalledOnceInRange, InRange
<1>3. ReturnsComplete'
  BY <1>1 DEF ReturnsComplete
<1>4. WarmUpInv'
  <2>1. \A w \in Worker : w \in UInt32
    BY NumWorkersAssumption, MAssumption DEF Worker, UInt32
  <2> QED
    BY <1>1, <2>1 DEF TaskInv, WarmUpInv, NoCalls, AtBarrier
<1>5. RunInv'
  <2> SUFFICES ASSUME job = "run" PROVE RangeInv'
    BY <1>1 DEF RunInv
  <2>1. reserved = 0 /\ calls = NoCalls
    BY <1>1 DEF TaskInv, RunInv
  <2>2. range \in Ranges /\ range[1] \in UInt32 /\ range[2] \in UInt32 /\ range[1] < range[2]
    BY DEF JobInv
  <2>3. \A t \in UInt32 : t \in Nat
    BY MAssumption DEF UInt32
  <2>4. ChunkInv'
    BY <1>1 DEF ChunkInv
  <2>5. \A w \in Worker, t \in UInt32 : ~Holds(w, t)'
    BY <1>1 DEF Holds
  <2>6. Limit' = range[1]
    <3>1. reserved' = 0 /\ range'[1] = range[1] /\ range[1] \in Nat
      BY <1>1, <2>1, <2>2, <2>3
    <3> QED
      BY <3>1 DEF Limit
  <2>7. \A t \in UInt32 : calls'[t] = 0
    BY <1>1, <2>1 DEF NoCalls
  <2>8. OwnerInv'
    BY <1>1, <2>2, <2>3, <2>5, <2>6, <2>7 DEF OwnerInv, InRange
  <2>9. Over' = {}
    BY <1>1 DEF Over
  <2>10. BoundInv'
    <3>1. range[2] - range[1] \in UInt32 /\ 0 \in UInt32
      BY <2>2, MAssumption DEF UInt32
    <3>2. LargestChunk \in 1 .. M - 1
      BY <3>1, ChunkSizeType DEF LargestChunk
    <3>3. Cardinality(Over') = 0
      BY <2>9, FS_EmptySet
    <3>4. LargestChunk' = LargestChunk /\ LargestChunk * (0 + 1) = LargestChunk
      BY <1>1, <3>2 DEF LargestChunk
    <3>5. reserved' = 0 /\ range' = range
      BY <1>1, <2>1
    <3>6. 0 <= range[2] - range[1] - 1 + LargestChunk
      BY <2>2, <2>3, <3>2
    <3> QED
      BY <3>3, <3>4, <3>5, <3>6 DEF BoundInv
  <2> QED
    BY <2>4, <2>8, <2>10 DEF RangeInv
<1> QED
  BY <1>2, <1>3, <1>4, <1>5 DEF TaskInv

(* Passing the barrier keeps the task invariant: all work is done there. *)
LEMMA BarrierKeepsTasks ==
  ASSUME NoWrap, IInv, BarrierPass PROVE TaskInv'
<1> USE DEF IInv, SyncInv, TypeOK
<1>1. /\ main = "barrier" /\ ready = threads /\ job \in {"ctor", "warmup", "run"}
      /\ UNCHANGED <<job, range, pc, local, reserved, calls>>
      /\ job = "ctor" <=> main' = "warmup"
      /\ job = "warmup" <=> main' = "idle"
      /\ job = "run" <=> main' = "leave"
  BY DEF BarrierPass, JobInv, AtBarrier
<1>2. CalledOnceInRange'
  BY <1>1 DEF TaskInv, CalledOnceInRange, InRange
<1>3. ReturnsComplete'
  <2>1. job \in {"warmup", "run"} =>
          /\ \A w \in Worker : pc[w] = "wait"
          /\ \A t \in UInt32 : InRange(t) => calls[t] = 1
    BY <1>1, BarrierDone DEF AtBarrier
  <2> QED
    BY <1>1, <2>1 DEF ReturnsComplete, InRange
<1>4. RunInv' /\ WarmUpInv'
  BY <1>1 DEF RunInv, WarmUpInv, AtBarrier
<1> QED
  BY <1>2, <1>3, <1>4 DEF TaskInv

(* The steps of RunRange keep the task invariant. *)
LEMMA RunRangeKeepsTasks ==
  ASSUME NoWrap, IInv, NEW w \in Worker,
         \/ WakeToRange(w) \/ LoadReserved(w) \/ ReserveChunk(w)
         \/ CallTask(w) \/ ChunkDone(w) \/ TaskReturns(w)
  PROVE  TaskInv'
<1> USE DEF IInv
<1>1. job = "run" /\ AtBarrier
  BY WokenCommand, InRunRange
     DEF WakeToRange, LoadReserved, ReserveChunk, CallTask, ChunkDone, TaskReturns
<1>2. RangeInv /\ CalledOnceInRange
  BY <1>1 DEF TaskInv, RunInv
<1>3. main' = main /\ job' = job /\ range' = range
  BY DEF WakeToRange, LoadReserved, ReserveChunk, CallTask, ChunkDone, TaskReturns,
         callerVars
<1>4. RangeInv'
  BY <1>2, WakeKeepsRange, LoadKeepsRange, ReserveKeepsRange, CallKeepsRange,
     ChunkDoneKeepsRange, ReturnKeepsRange
<1>5. CASE CallTask(w)
  BY <1>1, <1>2, <1>3, <1>4, <1>5, CallKeepsRange
     DEF TaskInv, ReturnsComplete, RunInv, WarmUpInv, AtBarrier
<1>6. CASE ~CallTask(w)
  <2>1. calls' = calls
    BY <1>6 DEF WakeToRange, LoadReserved, ReserveChunk, ChunkDone, TaskReturns
  <2> QED
    BY <1>1, <1>2, <1>3, <1>4, <2>1
       DEF TaskInv, CalledOnceInRange, ReturnsComplete, RunInv, WarmUpInv, AtBarrier, InRange
<1> QED
  BY <1>5, <1>6

(* Reporting ready keeps the task invariant. *)
LEMMA ArriveKeepsTasks ==
  ASSUME NoWrap, IInv, NEW w \in Worker, Arrive(w) PROVE TaskInv'
<1> USE DEF IInv, SyncInv, TypeOK
<1>1. /\ pc[w] = "arrive" /\ pc' = [pc EXCEPT ![w] = "wait"]
      /\ UNCHANGED <<job, range, local, reserved, calls>>
      /\ main = "spawn" \/ AtBarrier
      /\ main' = main \/ (main = "barrierWait" /\ main' = "barrier")
  BY DEF Arrive, PlaceInv, AtBarrier
<1>2. CalledOnceInRange'
  BY <1>1 DEF TaskInv, CalledOnceInRange, InRange
<1>3. ReturnsComplete'
  BY <1>1 DEF ReturnsComplete, AtBarrier
<1>4. job = "run" /\ AtBarrier => RangeInv'
  BY ArriveKeepsRange DEF TaskInv, RunInv
<1>5. RunInv'
  BY <1>1, <1>4 DEF RunInv, AtBarrier, JobInv
<1>6. WarmUpInv'
  BY <1>1 DEF TaskInv, WarmUpInv, AtBarrier, JobInv
<1> QED
  BY <1>2, <1>3, <1>5, <1>6 DEF TaskInv

(* The warm-up calls of the constructor keep the task invariant. *)
LEMMA OnceKeepsTasks ==
  ASSUME NoWrap, IInv, NEW w \in Worker, WakeToOnce(w) \/ OnceReturns(w)
  PROVE  TaskInv'
<1> USE DEF IInv, SyncInv, TypeOK
<1>1. AtBarrier /\ job = "warmup"
  <2>1. CASE WakeToOnce(w)
    BY <2>1, WokenCommand DEF WakeToOnce
  <2>2. CASE OnceReturns(w)
    BY <2>2 DEF OnceReturns, PlaceInv, AtBarrier, Out, JobInv
  <2> QED
    BY <2>1, <2>2
<1>2. main' = main /\ job' = job /\ range' = range
  BY DEF WakeToOnce, OnceReturns, callerVars
<1>3. w \in UInt32 /\ InRange(w)
  BY <1>1, NumWorkersAssumption, MAssumption DEF Worker, UInt32, InRange, JobInv
<1>4. CASE WakeToOnce(w)
  <2>1. pc[w] = "woken" /\ pc' = [pc EXCEPT ![w] = "once"] /\ calls' = [calls EXCEPT ![w] = @ + 1]
    BY <1>4 DEF WakeToOnce
  <2>2. calls[w] = 0 /\ calls'[w] = 1 /\ \A t \in UInt32 : t # w => calls'[t] = calls[t]
    BY <1>1, <1>3, <2>1 DEF TaskInv, WarmUpInv
  <2>3. CalledOnceInRange'
    BY <1>2, <1>3, <2>2 DEF TaskInv, CalledOnceInRange, InRange
  <2>4. \A v \in Worker : v \in UInt32
    BY NumWorkersAssumption, MAssumption DEF Worker, UInt32
  <2>5. WarmUpInv'
    BY <1>1, <1>2, <2>1, <2>2, <2>4 DEF TaskInv, WarmUpInv, AtBarrier
  <2> QED
    BY <1>1, <1>2, <2>3, <2>5 DEF TaskInv, ReturnsComplete, RunInv, AtBarrier
<1>5. CASE OnceReturns(w)
  <2>1. pc[w] = "once" /\ pc' = [pc EXCEPT ![w] = "arrive"] /\ calls' = calls
    BY <1>5 DEF OnceReturns
  <2>2. WarmUpInv'
    BY <1>1, <1>2, <2>1 DEF TaskInv, WarmUpInv, AtBarrier
  <2> QED
    BY <1>1, <1>2, <2>1, <2>2
       DEF TaskInv, CalledOnceInRange, ReturnsComplete, RunInv, AtBarrier, InRange
<1> QED
  BY <1>4, <1>5

(* Every step keeps the task invariant. *)
LEMMA TaskStep == NoWrap /\ IInv /\ [Next]_vars => TaskInv'
<1> SUFFICES ASSUME NoWrap, IInv, [Next]_vars PROVE TaskInv'
  OBVIOUS
<1> USE DEF IInv, SyncInv, TypeOK, TaskInv
<1>1. ASSUME SpawnWorker PROVE TaskInv'
  BY <1>1 DEF SpawnWorker, CalledOnceInRange, ReturnsComplete, RunInv, WarmUpInv, AtBarrier, InRange, JobInv, PlaceInv
<1>2. ASSUME WarmUp PROVE TaskInv'
  BY <1>2 DEF WarmUp, CalledOnceInRange, ReturnsComplete, RunInv, WarmUpInv, AtBarrier, InRange, JobInv, PlaceInv, NoCalls
<1>3. ASSUME RunPrepare PROVE TaskInv'
  BY <1>3 DEF RunPrepare, CalledOnceInRange, ReturnsComplete, RunInv, WarmUpInv, AtBarrier, InRange, JobInv, PlaceInv
<1>4. ASSUME StartWorkers PROVE TaskInv'
  BY <1>4 DEF StartWorkers, CalledOnceInRange, ReturnsComplete, RunInv, WarmUpInv, AtBarrier, InRange, JobInv, PlaceInv
<1>5. ASSUME BarrierBlock PROVE TaskInv'
  BY <1>5, RangeFrame DEF BarrierBlock, CalledOnceInRange, ReturnsComplete, RunInv, WarmUpInv, AtBarrier, InRange, JobInv, PlaceInv
<1>6. ASSUME RunLeave PROVE TaskInv'
  BY <1>6 DEF RunLeave, CalledOnceInRange, ReturnsComplete, RunInv, WarmUpInv, AtBarrier, InRange, JobInv, PlaceInv
<1>7. ASSUME Join PROVE TaskInv'
  BY <1>7 DEF Join, CalledOnceInRange, ReturnsComplete, RunInv, WarmUpInv, AtBarrier, InRange, JobInv, PlaceInv
<1>8. ASSUME Overlap PROVE TaskInv'
  BY <1>8, RangeFrame DEF Overlap, CalledOnceInRange, ReturnsComplete, RunInv, WarmUpInv, AtBarrier, InRange, JobInv, PlaceInv
<1>9. ASSUME Destroy PROVE TaskInv'
  BY <1>9 DEF Destroy, CalledOnceInRange, ReturnsComplete, RunInv, WarmUpInv, AtBarrier, InRange, JobInv, PlaceInv
<1>10. ASSUME SpuriousCallerWakeup PROVE TaskInv'
  BY <1>10, RangeFrame DEF SpuriousCallerWakeup, CalledOnceInRange, ReturnsComplete, RunInv, WarmUpInv, AtBarrier, InRange, JobInv, PlaceInv
<1>11. ASSUME NEW r \in Ranges, RunEmpty(r) PROVE TaskInv'
  BY <1>11 DEF RunEmpty, CalledOnceInRange, ReturnsComplete, RunInv, WarmUpInv, AtBarrier, InRange, JobInv, PlaceInv
<1>12. ASSUME NEW r \in Ranges, RunInitFails(r) PROVE TaskInv'
  BY <1>12 DEF RunInitFails, CalledOnceInRange, ReturnsComplete, RunInv, WarmUpInv, AtBarrier, InRange, JobInv, PlaceInv
<1>13. ASSUME NEW r \in Ranges, RunRejected(r) PROVE TaskInv'
  BY <1>13 DEF RunRejected, CalledOnceInRange, ReturnsComplete, RunInv, WarmUpInv, AtBarrier, InRange, JobInv, PlaceInv
<1>14. ASSUME NEW r \in Ranges, RunEnter(r) PROVE TaskInv'
  BY <1>14 DEF RunEnter, CalledOnceInRange, ReturnsComplete, RunInv, WarmUpInv, AtBarrier, InRange, JobInv, PlaceInv, NoCalls
<1>15. ASSUME NEW w \in Worker, WakeToExit(w) PROVE TaskInv'
  BY <1>15, WokenCommand DEF WakeToExit, callerVars, CalledOnceInRange, ReturnsComplete, RunInv, WarmUpInv, AtBarrier, InRange, JobInv
<1>16. ASSUME UNCHANGED vars PROVE TaskInv'
  BY <1>16, RangeFrame DEF vars, callerVars, CalledOnceInRange, ReturnsComplete, RunInv, WarmUpInv, AtBarrier, InRange
<1> QED
  BY <1>1, <1>2, <1>3, <1>4, <1>5, <1>6, <1>7, <1>8, <1>9, <1>10, <1>11, <1>12, <1>13, <1>14, <1>15, <1>16,
     NotifyKeepsTasks, BarrierKeepsTasks, RunRangeKeepsTasks, ArriveKeepsTasks,
     OnceKeepsTasks
     DEF Next, CallerStep, ClientStep, WorkerStep, Destroyed

(* The whole inductive invariant holds in every reachable state when no
   call comes near 2^32 (NoWrap). *)
THEOREM Tasks == ASSUME NoWrap PROVE Spec => []IInv
<1>1. Init => TaskInv
  BY MAssumption, SMT
     DEF Init, TaskInv, CalledOnceInRange, ReturnsComplete, RunInv, WarmUpInv,
         NoCalls, UInt32
<1>2. NoWrap /\ IInv /\ [Next]_vars => TaskInv'
  BY TaskStep
<1>3. SyncInv /\ TaskInv /\ [Next]_vars => TaskInv'
  BY <1>2 DEF IInv
<1>4. IInv <=> SyncInv /\ TaskInv
  BY DEF IInv
<1> QED
  BY <1>1, <1>3, <1>4, Synchronisation, PTL DEF Spec

-------------------------------------------------------------------------------
(***************************************************************************)
(* The results.                                                            *)
(***************************************************************************)

(* Every variable of the pool keeps its type, whatever the callers do.     *)
THEOREM TypeCorrect == Spec => []TypeOK
<1>1. SyncInv => TypeOK
  BY DEF SyncInv
<1> QED
  BY <1>1, Synchronisation, PTL

(* StartWorkers' precondition: no notification is ever sent while a worker *)
(* is away from its wait.                                                  *)
THEOREM StartPrecondition == Spec => []AllReadyBeforeStart
<1>1. SyncInv => AllReadyBeforeStart
  BY DEF SyncInv, PlaceInv, AllReadyBeforeStart
<1> QED
  BY <1>1, Synchronisation, PTL

(* The barrier counts the workers that are back, and its single wakeup is  *)
(* never lost.                                                             *)
THEOREM BarrierExact == Spec => [](ReadyCountsWaiting /\ NoLostBarrierWakeup)
<1>1. SyncInv => ReadyCountsWaiting /\ NoLostBarrierWakeup
  BY DEF SyncInv, CountInv, AtBarrier, Waiting, ReadyCountsWaiting, NoLostBarrierWakeup
<1> QED
  BY <1>1, Synchronisation, PTL

(* depth_ is never lost or leaked by a path out of Runner.                 *)
THEOREM DepthCorrect == Spec => []DepthExact
<1>1. SyncInv => DepthExact
  BY DEF SyncInv
<1> QED
  BY <1>1, Synchronisation, PTL

(* Away from 2^32, no task is called twice and none outside the range.     *)
THEOREM TasksCalledOnce == ASSUME NoWrap PROVE Spec => []CalledOnceInRange
<1>1. IInv => CalledOnceInRange
  BY DEF IInv, TaskInv
<1> QED
  BY <1>1, Tasks, PTL

(* Away from 2^32, Runner returns with every task called and every worker  *)
(* back in its wait.                                                       *)
THEOREM RunnerReturnsComplete == ASSUME NoWrap PROVE Spec => []ReturnsComplete
<1>1. IInv => ReturnsComplete
  BY DEF IInv, TaskInv
<1> QED
  BY <1>1, Tasks, PTL

-------------------------------------------------------------------------------
(***************************************************************************)
(* A step property, and the refinement of the abstract runner.             *)
(***************************************************************************)

(* While a worker is at work the caller leaves the command, the range and  *)
(* the task counter alone.                                                 *)
THEOREM StableCommand == ASSUME NoWrap PROVE Spec => StableUnderWorkers
<1> DEFINE AtWork == \E w \in Worker : pc[w] \in {"load", "reserve", "next", "call", "once"}
           Stable == UNCHANGED <<command, range>> /\ reserved' >= reserved
<1>1. IInv /\ [Next]_vars => (AtWork => Stable)
  <2> SUFFICES ASSUME IInv, [Next]_vars, NEW w \in Worker,
                      pc[w] \in {"load", "reserve", "next", "call", "once"}
               PROVE  Stable
    OBVIOUS
  <2>1. AtBarrier
    BY DEF IInv, SyncInv, TypeOK, PlaceInv, AtBarrier
  <2>2. ready # threads
    BY <2>1, AllWaiting DEF IInv
  <2>3. reserved \in Nat
    BY LocalsNat DEF IInv
  <2>4. ASSUME NEW v \in Worker, ReserveChunk(v) PROVE Stable
    <3>1. pc[v] = "reserve" /\ job = "run"
      BY <2>4, InRunRange DEF ReserveChunk, IInv
    <3>2. RangeInv
      BY <2>1, <3>1 DEF IInv, TaskInv, RunInv
    <3>3. reserved' >= reserved
      BY <2>4, <3>2, ReserveKeepsRange DEF IInv
    <3> QED
      BY <2>4, <3>3 DEF ReserveChunk, callerVars
  <2>5. ASSUME UNCHANGED <<command, range, reserved>> PROVE Stable
    BY <2>3, <2>5
  <2>6. ASSUME CallerStep \/ ClientStep \/ SpuriousCallerWakeup
        PROVE  UNCHANGED <<command, range, reserved>>
    BY <2>1, <2>2, <2>6
       DEF AtBarrier, CallerStep, ClientStep, SpawnWorker, WarmUp, RunPrepare,
           StartWorkers, NotifyWorkers, BarrierPass, BarrierBlock, RunLeave, Join,
           RunEmpty, RunInitFails, RunRejected, RunEnter, Overlap, Destroy,
           SpuriousCallerWakeup
  <2>7. ASSUME NEW v \in Worker, WorkerStep(v), ~ReserveChunk(v)
        PROVE  UNCHANGED <<command, range, reserved>>
    BY <2>7 DEF WorkerStep, Arrive, WakeToOnce, WakeToExit, WakeToRange, OnceReturns,
                LoadReserved, CallTask, ChunkDone, TaskReturns, callerVars
  <2>8. ASSUME UNCHANGED vars PROVE UNCHANGED <<command, range, reserved>>
    BY <2>8 DEF vars, callerVars
  <2> QED
    BY <2>4, <2>5, <2>6, <2>7, <2>8 DEF Next, Destroyed
<1>2. IInv /\ [Next]_vars => [AtWork => Stable]_vars
  BY <1>1
<1> QED
  BY <1>2, Tasks, PTL DEF Spec, StableUnderWorkers

(* With every worker in its wait, no call is in progress.                  *)
LEMMA IdleInactive ==
  ASSUME \A w \in Worker : pc[w] \notin {"call", "once"}
  PROVE  Active = {}
  BY DEF Active

(* A step that ends no call, calls nothing and leaves the caller in its    *)
(* job is a stutter of the abstract runner.                                *)
LEMMA Stutters ==
  ASSUME UNCHANGED <<range, calls>>, JobRunning' = JobRunning,
         \A w \in Worker : /\ pc'[w] = "call" <=> pc[w] = "call"
                           /\ pc'[w] = "once" <=> pc[w] = "once"
                           /\ pc[w] = "call" => local'[w].task = local[w].task
  PROVE  UNCHANGED PR!vars
<1>1. Todo' = Todo
  BY DEF Todo, InRange
<1>2. Active' = Active
  BY DEF Active
<1> QED
  BY <1>1, <1>2 DEF PR!vars

(* Every step of the pool is a step of the abstract runner or a stutter. *)
LEMMA StepRefines == NoWrap /\ IInv /\ [Next]_vars => [PR!Next]_PR!vars
<1> SUFFICES ASSUME NoWrap, IInv, [Next]_vars PROVE [PR!Next]_PR!vars
  OBVIOUS
<1> USE DEF IInv, SyncInv, TypeOK
<1>1. \A w \in Worker : w \in Nat /\ w < NumWorkers /\ w \in UInt32
  BY NumWorkersAssumption, MAssumption DEF Worker, UInt32
<1>2. NumWorkers \in 1 .. NumWorkers /\ Worker = 0 .. NumWorkers - 1
  BY NumWorkersAssumption DEF Worker
<1>3. ASSUME WarmUp \/ \E r \in Ranges : RunEnter(r) PROVE PR!Next
  <2>1. \A w \in Worker : pc[w] = "wait" /\ pc'[w] = "wait"
    BY <1>3 DEF WarmUp, RunEnter, PlaceInv
  <2>2. Active = {} /\ Active' = {}
    BY <2>1, IdleInactive DEF Active
  <2>3. ~JobRunning /\ JobRunning'
    BY <1>3 DEF WarmUp, RunEnter, JobRunning, JobInv
  <2>4. Todo' \in SUBSET UInt32
    BY DEF Todo
  <2>5. PR!Begin(NumWorkers)
    BY <2>2, <2>3, <2>4 DEF PR!Begin
  <2> QED
    BY <1>2, <2>5 DEF PR!Next
<1>4. ASSUME BarrierPass \/ RunLeave, ~(BarrierPass /\ job # "warmup") PROVE PR!Next
  <2>1. /\ JobRunning /\ ~JobRunning'
        /\ pc' = pc
    BY <1>4 DEF BarrierPass, RunLeave, JobRunning, JobInv
  <2>2. /\ \A w \in Worker : pc[w] = "wait"
        /\ \A t \in UInt32 : InRange(t) => calls[t] = 1
    <3>1. CASE BarrierPass
      BY <1>4, <3>1, BarrierDone DEF BarrierPass, AtBarrier
    <3>2. CASE RunLeave
      BY <3>2 DEF RunLeave, TaskInv, ReturnsComplete, JobInv
    <3> QED
      BY <1>4, <3>1, <3>2
  <2>3. Active = {} /\ Active' = {}
    BY <2>1, <2>2, IdleInactive DEF Active
  <2>4. Todo = {} /\ Todo' = {}
    BY <2>1, <2>2 DEF Todo
  <2> QED
    BY <2>1, <2>3, <2>4 DEF PR!Next, PR!Return
<1>5. ASSUME BarrierPass, job # "warmup" PROVE UNCHANGED PR!vars
  <2>1. JobRunning' = JobRunning
    BY <1>5 DEF BarrierPass, JobRunning, JobInv, AtBarrier
  <2> QED
    BY <1>5, <2>1, Stutters DEF BarrierPass
<1>6. ASSUME NEW w \in Worker, CallTask(w) PROVE PR!Next
  <2> DEFINE task == local[w].task
  <2>1. /\ pc[w] = "next" /\ pc' = [pc EXCEPT ![w] = "call"] /\ task < local[w].stop
        /\ UNCHANGED <<main, job, range, local>>
        /\ calls' = [calls EXCEPT ![task] = @ + 1]
    BY <1>6 DEF CallTask, callerVars
  <2>2. job = "run" /\ AtBarrier /\ range[1] \in UInt32 /\ range[2] \in UInt32
    BY <2>1, InRunRange
  <2>3. RangeInv
    BY <2>2 DEF TaskInv, RunInv
  <2>4. task \in UInt32 /\ task \in Nat /\ local[w].stop \in Nat
    <3>1. task \in UInt32
      BY DEF Local
    <3> QED
      BY <3>1, LocalsNat
  <2>5. range[1] <= task /\ local[w].stop <= range[2]
    BY <2>1, <2>3 DEF RangeInv, ChunkInv
  <2>6. InRange(task)
    <3>1. range[2] \in Nat
      BY <2>2, MAssumption DEF UInt32
    <3> QED
      BY <2>1, <2>4, <2>5, <3>1 DEF InRange
  <2>7. Holds(w, task)
    BY <2>1, <2>4 DEF Holds
  <2>8. calls[task] = 0
    BY <2>3, <2>4, <2>7 DEF RangeInv, OwnerInv
  <2>9. JobRunning /\ JobRunning'
    BY <2>1, <2>2 DEF JobRunning, AtBarrier
  <2>10. task \in Todo
    BY <2>4, <2>6, <2>8, <2>9 DEF Todo
  <2>11. Todo' = Todo \ {task}
    BY <2>1, <2>4, <2>8, <2>9 DEF Todo, InRange
  <2>12. \A a \in Active : a[1] # w
    BY <2>1 DEF Active
  <2>13. Active' = Active \cup {<<w, task>>}
    BY <2>1 DEF Active
  <2>14. PR!Call(w, task)
    BY <1>1, <2>9, <2>10, <2>11, <2>12, <2>13 DEF PR!Call
  <2> QED
    BY <1>2, <2>4, <2>14 DEF PR!Next
<1>7. ASSUME NEW w \in Worker, WakeToOnce(w) PROVE PR!Next
  <2>1. /\ pc[w] = "woken" /\ pc' = [pc EXCEPT ![w] = "once"]
        /\ UNCHANGED <<main, job, range, local>>
        /\ calls' = [calls EXCEPT ![w] = @ + 1]
    BY <1>7 DEF WakeToOnce, callerVars
  <2>2. job = "warmup" /\ AtBarrier
    BY <1>7, <2>1, WokenCommand DEF WakeToOnce
  <2>3. calls[w] = 0 /\ InRange(w)
    BY <1>1, <2>1, <2>2 DEF TaskInv, WarmUpInv, JobInv, InRange
  <2>4. JobRunning /\ JobRunning'
    BY <2>1, <2>2 DEF JobRunning, AtBarrier
  <2>5. w \in Todo
    BY <1>1, <2>3, <2>4 DEF Todo
  <2>6. Todo' = Todo \ {w}
    BY <1>1, <2>1, <2>3, <2>4 DEF Todo, InRange
  <2>7. \A a \in Active : a[1] # w
    BY <2>1 DEF Active
  <2>8. Active' = Active \cup {<<w, w>>}
    BY <2>1 DEF Active
  <2>9. PR!Call(w, w)
    BY <1>1, <2>4, <2>5, <2>6, <2>7, <2>8 DEF PR!Call
  <2> QED
    BY <1>1, <1>2, <2>9 DEF PR!Next
<1>8. ASSUME NEW w \in Worker, TaskReturns(w) PROVE PR!Next
  <2> DEFINE task == local[w].task
  <2>1. /\ pc[w] = "call" /\ pc' = [pc EXCEPT ![w] = "next"]
        /\ UNCHANGED <<main, job, range, calls>>
        /\ \A v \in Worker : v # w => local'[v] = local[v]
    BY <1>8 DEF TaskReturns, callerVars
  <2>2. task \in UInt32 /\ <<w, task>> \in Active
    BY <2>1 DEF Active, Local
  <2>3. Active' = Active \ {<<w, task>>}
    BY <2>1 DEF Active
  <2>4. Todo' = Todo /\ JobRunning' = JobRunning
    BY <2>1 DEF Todo, JobRunning, InRange
  <2>5. PR!Finish(w, task)
    BY <2>2, <2>3, <2>4 DEF PR!Finish
  <2> QED
    BY <1>2, <2>2, <2>5 DEF PR!Next
<1>9. ASSUME NEW w \in Worker, OnceReturns(w) PROVE PR!Next
  <2>1. /\ pc[w] = "once" /\ pc' = [pc EXCEPT ![w] = "arrive"]
        /\ UNCHANGED <<main, job, range, calls, local>>
    BY <1>9 DEF OnceReturns, callerVars
  <2>2. <<w, w>> \in Active
    BY <2>1 DEF Active
  <2>3. job = "warmup" /\ \A v \in Worker : pc[v] # "call"
    BY <2>1 DEF PlaceInv, AtBarrier, Out, JobInv
  <2>4. Active' = Active \ {<<w, w>>}
    BY <2>1, <2>3 DEF Active
  <2>5. Todo' = Todo /\ JobRunning' = JobRunning
    BY <2>1 DEF Todo, JobRunning, InRange
  <2>6. PR!Finish(w, w)
    BY <2>2, <2>4, <2>5 DEF PR!Finish
  <2> QED
    BY <1>1, <1>2, <2>6 DEF PR!Next
<1>10. ASSUME SpawnWorker PROVE UNCHANGED PR!vars
  BY <1>10, Stutters DEF SpawnWorker, JobRunning, JobInv, PlaceInv, Local
<1>11. ASSUME RunPrepare PROVE UNCHANGED PR!vars
  BY <1>11, Stutters DEF RunPrepare, JobRunning, JobInv, PlaceInv, Local
<1>12. ASSUME StartWorkers PROVE UNCHANGED PR!vars
  BY <1>12, Stutters DEF StartWorkers, JobRunning, JobInv, PlaceInv, Local
<1>13. ASSUME NotifyWorkers PROVE UNCHANGED PR!vars
  BY <1>13, Stutters DEF NotifyWorkers, JobRunning, JobInv, PlaceInv, Local
<1>14. ASSUME BarrierBlock PROVE UNCHANGED PR!vars
  BY <1>14, Stutters DEF BarrierBlock, JobRunning, JobInv, PlaceInv, Local
<1>15. ASSUME Join PROVE UNCHANGED PR!vars
  BY <1>15, Stutters DEF Join, JobRunning, JobInv, PlaceInv, Local
<1>16. ASSUME Overlap PROVE UNCHANGED PR!vars
  BY <1>16, Stutters DEF Overlap, JobRunning, JobInv, PlaceInv, Local
<1>17. ASSUME Destroy PROVE UNCHANGED PR!vars
  BY <1>17, Stutters DEF Destroy, JobRunning, JobInv, PlaceInv, Local
<1>18. ASSUME SpuriousCallerWakeup PROVE UNCHANGED PR!vars
  BY <1>18, Stutters DEF SpuriousCallerWakeup, JobRunning, JobInv, PlaceInv, Local
<1>19. ASSUME NEW r \in Ranges, RunEmpty(r) PROVE UNCHANGED PR!vars
  BY <1>19, Stutters DEF RunEmpty, JobRunning, JobInv, PlaceInv, Local
<1>20. ASSUME NEW r \in Ranges, RunInitFails(r) PROVE UNCHANGED PR!vars
  BY <1>20, Stutters DEF RunInitFails, JobRunning, JobInv, PlaceInv, Local
<1>21. ASSUME NEW r \in Ranges, RunRejected(r) PROVE UNCHANGED PR!vars
  BY <1>21, Stutters DEF RunRejected, JobRunning, JobInv, PlaceInv, Local
<1>22. ASSUME NEW w \in Worker, Arrive(w) PROVE UNCHANGED PR!vars
  BY <1>22, Stutters DEF Arrive, JobRunning, JobInv, PlaceInv, Local, callerVars
<1>23. ASSUME NEW w \in Worker, WakeToExit(w) PROVE UNCHANGED PR!vars
  BY <1>23, Stutters DEF WakeToExit, JobRunning, JobInv, PlaceInv, Local, callerVars
<1>24. ASSUME NEW w \in Worker, WakeToRange(w) PROVE UNCHANGED PR!vars
  BY <1>24, Stutters DEF WakeToRange, JobRunning, JobInv, PlaceInv, Local, callerVars
<1>25. ASSUME NEW w \in Worker, LoadReserved(w) PROVE UNCHANGED PR!vars
  BY <1>25, Stutters DEF LoadReserved, JobRunning, JobInv, PlaceInv, Local, callerVars
<1>26. ASSUME NEW w \in Worker, ReserveChunk(w) PROVE UNCHANGED PR!vars
  BY <1>26, Stutters DEF ReserveChunk, JobRunning, JobInv, PlaceInv, Local, callerVars
<1>27. ASSUME NEW w \in Worker, ChunkDone(w) PROVE UNCHANGED PR!vars
  BY <1>27, Stutters DEF ChunkDone, JobRunning, JobInv, PlaceInv, Local, callerVars
<1>28. ASSUME UNCHANGED vars PROVE UNCHANGED PR!vars
  BY <1>28, Stutters DEF vars, callerVars, JobRunning
<1> QED
  BY <1>3, <1>4, <1>5, <1>6, <1>7, <1>8, <1>9, <1>10, <1>11, <1>12, <1>13, <1>14, <1>15, <1>16,
     <1>17, <1>18, <1>19, <1>20, <1>21, <1>22, <1>23, <1>24, <1>25, <1>26, <1>27, <1>28
     DEF Next, CallerStep, ClientStep, WorkerStep, Destroyed

(* The pool implements the abstract fork-join runner, away from 2^32.      *)
THEOREM Refinement == ASSUME NoWrap PROVE Spec => ImplementsParallelRunner
<1>1. Init => PR!Init
  BY NumWorkersAssumption, IdleInactive
     DEF Init, PR!Init, JobRunning, Todo, Active
<1>2. IInv /\ [Next]_vars => [PR!Next]_PR!vars
  BY StepRefines
<1> QED
  BY <1>1, <1>2, Tasks, PTL DEF Spec, ImplementsParallelRunner
===============================================================================
