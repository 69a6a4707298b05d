--------------------- MODULE ResizableParallelRunnerProofs ---------------------
(***************************************************************************)
(* Proofs about ResizableParallelRunner, for every number of workers, every*)
(* word size and every set of ranges.                                      *)
(***************************************************************************)
EXTENDS ResizableParallelRunner, FiniteSetTheorems, TLAPS

(* The steps of the pool: what Next offers, without its grouping.          *)
LEMMA StepCases ==
  ASSUME [Next]_vars
  PROVE  \/ SpawnWorker \/ SpawnDone \/ JoinWorkers \/ CallInline \/ InlineReturns
         \/ Publish \/ Await \/ Return
         \/ \E n \in 0 .. MaxWorkers, close \in BOOLEAN : Desire(n, close)
         \/ \E r \in Ranges : RunInitFails(r) \/ RunAccepted(r)
         \/ \E t \in Thread : Dequeue(t) \/ TaskReturns(t) \/ Leave(t)
         \/ \E t \in Thread \ {0} : WorkerExits(t) \/ WorkerWaits(t) \/ WorkerJoinsIn(t)
         \/ \E t \in Thread : SpuriousWakeup(t)
         \/ UNCHANGED vars
<1>1. ASSUME NEW n \in 0 .. MaxWorkers + 1, SetNumThreads(n)
      PROVE  \E m \in 0 .. MaxWorkers, close \in BOOLEAN : Desire(m, close)
  <2>1. (IF n > 0 THEN n - 1 ELSE n) \in 0 .. MaxWorkers
    BY MaxWorkersAssumption
  <2> QED
    BY <1>1, <2>1 DEF SetNumThreads
<1>2. ASSUME Destroy
      PROVE  \E m \in 0 .. MaxWorkers, close \in BOOLEAN : Desire(m, close)
  <2>1. 0 \in 0 .. MaxWorkers
    BY MaxWorkersAssumption
  <2> QED
    BY <1>2, <2>1 DEF Destroy
<1>3. 0 \in Thread /\ \A t \in Thread \ {0} : t \in Thread
  BY MaxWorkersAssumption DEF Thread
<1> QED
  BY <1>1, <1>2, <1>3 DEF Next, CallerStep, ClientStep, WorkerStep, DequeueTasks, Destroyed

(* Arithmetic of the word size.                                            *)
LEMMA ModType == ASSUME NEW x \in Int PROVE x % M \in UInt32
  BY MaxWorkersAssumption, MAssumption, SMT DEF UInt32

(* A uint32_t value is its own residue.                                    *)
LEMMA ModSmall == ASSUME NEW x \in UInt32 PROVE x % M = x
  BY MaxWorkersAssumption, MAssumption, SMT DEF UInt32

(* Words are naturals, and so are threads, the caller among them.          *)
LEMMA Numbers ==
  /\ MaxWorkers \in Nat /\ M \in Nat /\ M > MaxWorkers + 1
  /\ \A x \in UInt32 : x \in Nat
  /\ 0 \in UInt32 /\ 0 \in Thread
  /\ \A t \in Thread : t \in Nat /\ t <= MaxWorkers
  /\ \A x \in 0 .. MaxWorkers : x \in Nat
  /\ \A r \in Ranges : r[1] \in UInt32 /\ r[2] \in UInt32
BY MaxWorkersAssumption, MAssumption, RangesAssumption DEF UInt32, Thread

(* Threads are finitely many, and so are those of any kind.                *)
LEMMA ThreadsFinite ==
  /\ IsFiniteSet(Thread) /\ Cardinality(Thread) = MaxWorkers + 1
  /\ \A S \in SUBSET Thread :
       IsFiniteSet(S) /\ Cardinality(S) \in Nat /\ Cardinality(S) <= MaxWorkers + 1
<1>1. IsFiniteSet(Thread) /\ Cardinality(Thread) = MaxWorkers + 1
  BY FS_Interval, MaxWorkersAssumption DEF Thread
<1> QED
  BY <1>1, FS_Subset, FS_CardinalityType

(* What the init function is told.                                         *)
LEMMA AnnouncedType ==
  ASSUME TypeOK, NEW r \in Ranges
  PROVE  /\ Announced(r) \in 0 .. MaxWorkers + 1
         /\ Announced(r) <= size + 1
         /\ r[1] # r[2] => Announced(r) >= 1
<1>1. r[1] \in UInt32 /\ r[2] \in UInt32 /\ size \in 0 .. MaxWorkers
  BY Numbers DEF TypeOK
<1>2. r[2] - r[1] \in Int
  BY <1>1, Numbers
<1>3. (r[2] - r[1]) % M \in UInt32
  BY <1>2, ModType
<1>4. r[1] # r[2] => (r[2] - r[1]) % M # 0
  BY <1>1, Numbers, SMT DEF UInt32
<1> QED
  BY <1>1, <1>3, <1>4, Numbers DEF Announced

(* The worker that is started next is none yet.                            *)
LEMMA NextWorker ==
  ASSUME TypeOK, SizeInv, SpawnWorker
  PROVE  /\ size + 1 \in 0 .. MaxWorkers /\ size + 1 \in Thread \ {0}
         /\ pc[size + 1] = "none"
         /\ \A t \in Thread \ {0} : t > size + 1 <=> t > size /\ t # size + 1
<1>1. size \in 0 .. MaxWorkers /\ num \in 0 .. MaxWorkers /\ size < num
  BY DEF TypeOK, SpawnWorker
<1>2. size + 1 \in 0 .. MaxWorkers /\ size + 1 # 0
  BY <1>1, Numbers
<1>3. size + 1 \in Thread \ {0}
  BY <1>2 DEF Thread
<1> QED
  BY <1>1, <1>2, <1>3, Numbers DEF SizeInv

-------------------------------------------------------------------------------
(* Every step keeps the types. *)
LEMMA TypeStep == PoolInv /\ [Next]_vars => TypeOK'
<1> SUFFICES ASSUME PoolInv, [Next]_vars PROVE TypeOK'
  OBVIOUS
<1> USE DEF PoolInv, TypeOK, poolVars, runVars
<1>1. ASSUME SpawnWorker PROVE TypeOK'
  BY <1>1, NextWorker, Numbers DEF SpawnWorker
<1>2. ASSUME SpawnDone PROVE TypeOK'
  BY <1>2 DEF SpawnDone
<1>3. ASSUME JoinWorkers PROVE TypeOK'
  BY <1>3 DEF JoinWorkers
<1>4. ASSUME CallInline PROVE TypeOK'
  <2>1. range[1] \in UInt32 /\ calls[range[1]] + 1 \in Nat
    OBVIOUS
  <2> QED
    BY <1>4, <2>1 DEF CallInline
<1>5. ASSUME InlineReturns PROVE TypeOK'
  BY <1>5 DEF InlineReturns
<1>6. ASSUME Publish PROVE TypeOK'
<2>1. (range[2] - range[1] - 1) % M \in UInt32
    BY Numbers, ModType
  <2> QED
    BY <1>6, <2>1 DEF Publish
<1>7. ASSUME Await PROVE TypeOK'
  BY <1>7 DEF Await
<1>8. ASSUME Return PROVE TypeOK'
  BY <1>8 DEF Return
<1>9. ASSUME NEW n \in 0 .. MaxWorkers, NEW close \in BOOLEAN, Desire(n, close) PROVE TypeOK'
  BY <1>9 DEF Desire
<1>10. ASSUME NEW r \in Ranges, RunInitFails(r) PROVE TypeOK'
  BY <1>10 DEF RunInitFails
<1>11. ASSUME NEW r \in Ranges, RunAccepted(r) PROVE TypeOK'
  <2>1. Announced(r) \in 0 .. MaxWorkers + 1
    BY AnnouncedType DEF TypeOK
  <2> QED
    BY <1>11, <2>1, RangesAssumption, Numbers DEF RunAccepted, UInt32, NoCalls
<1>12. ASSUME NEW t \in Thread, Dequeue(t) PROVE TypeOK'
  <2>1. next + 1 \in Int /\ calls[next] + 1 \in Nat
    BY Numbers
  <2>2. (next + 1) % M \in UInt32
    BY <2>1, ModType
  <2> QED
    BY <1>12, <2>1, <2>2 DEF Dequeue
<1>13. ASSUME NEW t \in Thread, TaskReturns(t) PROVE TypeOK'
  BY <1>13 DEF TaskReturns
<1>14. ASSUME NEW t \in Thread, Leave(t) PROVE TypeOK'
  <2>1. running - 1 \in Nat
    <3>1. t \in Busy /\ Busy \in SUBSET Thread
      BY <1>14 DEF Leave, Busy
    <3>2. Cardinality(Busy) \in Nat /\ Cardinality(Busy) # 0
      BY <3>1, ThreadsFinite, FS_EmptySet
    <3> QED
      BY <3>2 DEF CountInv, RunningIsExact
  <2> QED
    BY <1>14, <2>1 DEF Leave
<1>15. ASSUME NEW t \in Thread \ {0}, WorkerExits(t) PROVE TypeOK'
  BY <1>15 DEF WorkerExits, Thread
<1>16. ASSUME NEW t \in Thread \ {0}, WorkerWaits(t) PROVE TypeOK'
  BY <1>16 DEF WorkerWaits, Thread
<1>17. ASSUME NEW t \in Thread \ {0}, WorkerJoinsIn(t) PROVE TypeOK'
  BY <1>17 DEF WorkerJoinsIn
<1>18. ASSUME NEW t \in Thread, SpuriousWakeup(t) PROVE TypeOK'
  BY <1>18 DEF SpuriousWakeup
<1>19. ASSUME UNCHANGED vars PROVE TypeOK'
  BY <1>19 DEF vars, poolVars, runVars
<1> QED
  BY <1>1, <1>2, <1>3, <1>4, <1>5, <1>6, <1>7, <1>8, <1>9, <1>10,
     <1>11, <1>12, <1>13, <1>14, <1>15, <1>16, <1>17, <1>18, <1>19, StepCases

(* Every step keeps the pool at its size, or at changing it. *)
LEMMA SizeStep == PoolInv /\ [Next]_vars => SizeInv'
<1> SUFFICES ASSUME PoolInv, [Next]_vars PROVE SizeInv'
  OBVIOUS
<1> USE DEF PoolInv, TypeOK, SizeInv, poolVars, runVars
<1>1. ASSUME SpawnWorker PROVE SizeInv'
  BY <1>1, NextWorker, Numbers DEF SpawnWorker
<1>2. ASSUME SpawnDone PROVE SizeInv'
  BY <1>2, Numbers DEF SpawnDone
<1>3. ASSUME JoinWorkers PROVE SizeInv'
  <2>1. \A t \in Thread \ {0} : t \in num + 1 .. size <=> t > num /\ t <= size
    BY Numbers
  <2>2. \A t \in Thread \ {0} : pc'[t] = IF t > num THEN "none" ELSE pc[t]
    BY <1>3, <2>1, Numbers DEF JoinWorkers
  <2>3. pc'[0] = IF closing THEN "gone" ELSE "idle"
    BY <1>3, Numbers DEF JoinWorkers
  <2> QED
    BY <1>3, <2>2, <2>3, Numbers DEF JoinWorkers
<1>4. ASSUME CallInline PROVE SizeInv'
  BY <1>4, Numbers DEF CallInline
<1>5. ASSUME InlineReturns PROVE SizeInv'
  BY <1>5, Numbers DEF InlineReturns
<1>6. ASSUME Publish PROVE SizeInv'
  BY <1>6, Numbers DEF Publish
<1>7. ASSUME Await PROVE SizeInv'
  BY <1>7, Numbers DEF Await
<1>8. ASSUME Return PROVE SizeInv'
  BY <1>8, Numbers DEF Return
<1>9. ASSUME NEW n \in 0 .. MaxWorkers, NEW close \in BOOLEAN, Desire(n, close) PROVE SizeInv'
  <2>1. pc'[0] = "spawn" /\ size = desired
    BY <1>9, Numbers DEF Desire
  <2>2. \A t \in Thread \ {0} : pc'[t] = IF pc[t] = "wait" THEN "check" ELSE pc[t]
    BY <1>9, Numbers DEF Desire
  <2>3. \A t \in Thread \ {0} : pc'[t] # "exited"
    BY <2>1, <2>2, Numbers
  <2> QED
    BY <1>9, <2>1, <2>2, <2>3 DEF Desire
<1>10. ASSUME NEW r \in Ranges, RunInitFails(r) PROVE SizeInv'
  BY <1>10, Numbers DEF RunInitFails
<1>11. ASSUME NEW r \in Ranges, RunAccepted(r) PROVE SizeInv'
  BY <1>11, Numbers DEF RunAccepted
<1>12. ASSUME NEW t \in Thread, Dequeue(t) PROVE SizeInv'
  BY <1>12, Numbers DEF Dequeue
<1>13. ASSUME NEW t \in Thread, TaskReturns(t) PROVE SizeInv'
  BY <1>13, Numbers DEF TaskReturns
<1>14. ASSUME NEW t \in Thread, Leave(t) PROVE SizeInv'
  BY <1>14, Numbers DEF Leave
<1>15. ASSUME NEW t \in Thread \ {0}, WorkerExits(t) PROVE SizeInv'
  BY <1>15, Numbers DEF WorkerExits
<1>16. ASSUME NEW t \in Thread \ {0}, WorkerWaits(t) PROVE SizeInv'
  BY <1>16, Numbers DEF WorkerWaits
<1>17. ASSUME NEW t \in Thread \ {0}, WorkerJoinsIn(t) PROVE SizeInv'
  BY <1>17, Numbers DEF WorkerJoinsIn
<1>18. ASSUME NEW t \in Thread, SpuriousWakeup(t) PROVE SizeInv'
  BY <1>18, Numbers DEF SpuriousWakeup
<1>19. ASSUME UNCHANGED vars PROVE SizeInv'
  BY <1>19, Numbers DEF vars, poolVars, runVars
<1> QED
  BY <1>1, <1>2, <1>3, <1>4, <1>5, <1>6, <1>7, <1>8, <1>9, <1>10,
     <1>11, <1>12, <1>13, <1>14, <1>15, <1>16, <1>17, <1>18, <1>19, StepCases

(* Threads in DequeueTasks are finitely many, and there only in a run.     *)
LEMMA BusyFinite ==
  ASSUME PoolInv
  PROVE  /\ IsFiniteSet(Busy) /\ Busy \in SUBSET Thread
         /\ running = Cardinality(Busy)
         /\ Busy # {} => running > 0 /\ InPool
<1>1. Busy \in SUBSET Thread
  BY DEF Busy
<1>2. Busy # {} => Cardinality(Busy) # 0
  BY <1>1, ThreadsFinite, FS_EmptySet
<1> QED
  BY <1>1, <1>2, ThreadsFinite DEF PoolInv, TypeOK, CountInv, RunningIsExact


(* Every step keeps the count of the threads in DequeueTasks. *)
LEMMA CountStep == PoolInv /\ [Next]_vars => CountInv'
<1> SUFFICES ASSUME PoolInv, [Next]_vars PROVE CountInv'
  OBVIOUS
<1> USE DEF PoolInv, TypeOK, SizeInv, CountInv, RunningIsExact, NoLostWakeup, HasWork, InPool, poolVars, runVars
<1>1. ASSUME SpawnWorker PROVE CountInv'
  <2>1. Busy' = Busy
    BY <1>1, NextWorker, Numbers DEF SpawnWorker, Busy
  <2> QED
    BY <1>1, <2>1, NextWorker, Numbers DEF SpawnWorker
<1>2. ASSUME SpawnDone PROVE CountInv'
  BY <1>2, Numbers, BusyFinite DEF SpawnDone, Busy
<1>3. ASSUME JoinWorkers PROVE CountInv'
  BY <1>3, Numbers, BusyFinite DEF JoinWorkers, Busy
<1>4. ASSUME CallInline PROVE CountInv'
  BY <1>4, Numbers, BusyFinite DEF CallInline, Busy
<1>5. ASSUME InlineReturns PROVE CountInv'
  BY <1>5, Numbers, BusyFinite DEF InlineReturns, Busy
<1>6. ASSUME Publish PROVE CountInv'
  <2>1. Busy' = Busy \cup {0} /\ 0 \notin Busy
    BY <1>6, Numbers DEF Publish, Busy
  <2>2. running' = Cardinality(Busy')
    BY <1>6, <2>1, BusyFinite, FS_AddElement DEF Publish
  <2>3. \A t \in Thread : pc'[t] # "wait"
    BY <1>6, Numbers DEF Publish
  <2> QED
    BY <1>6, <2>2, <2>3, Numbers DEF Publish
<1>7. ASSUME Await PROVE CountInv'
  <2>1. Busy' = Busy
    BY <1>7, Numbers DEF Await, Busy
  <2>2. pc'[0] = IF running = 0 THEN "return" ELSE "wait"
    BY <1>7, Numbers DEF Await
  <2>3. \A t \in Thread \ {0} : pc'[t] = pc[t]
    BY <1>7 DEF Await
  <2> QED
    BY <1>7, <2>1, <2>2, <2>3, Numbers DEF Await
<1>8. ASSUME Return PROVE CountInv'
  BY <1>8, Numbers, BusyFinite DEF Return, Busy
<1>9. ASSUME NEW n \in 0 .. MaxWorkers, NEW close \in BOOLEAN, Desire(n, close) PROVE CountInv'
  <2>1. Busy' = Busy
    BY <1>9, Numbers DEF Desire, Busy
  <2>2. pc'[0] = "spawn" /\ \A t \in Thread : pc'[t] # "wait"
    BY <1>9, Numbers DEF Desire
  <2> QED
    BY <1>9, <2>1, <2>2, Numbers DEF Desire
<1>10. ASSUME NEW r \in Ranges, RunInitFails(r) PROVE CountInv'
  BY <1>10, Numbers, BusyFinite DEF RunInitFails, Busy
<1>11. ASSUME NEW r \in Ranges, RunAccepted(r) PROVE CountInv'
  BY <1>11, Numbers, BusyFinite DEF RunAccepted, Busy
<1>12. ASSUME NEW t \in Thread, Dequeue(t) PROVE CountInv'
  BY <1>12, Numbers, BusyFinite DEF Dequeue, Busy
<1>13. ASSUME NEW t \in Thread, TaskReturns(t) PROVE CountInv'
  BY <1>13, Numbers, BusyFinite DEF TaskReturns, Busy
<1>14. ASSUME NEW t \in Thread, Leave(t) PROVE CountInv'
  <2>1. t \in Busy /\ Busy' = Busy \ {t}
    BY <1>14, Numbers DEF Leave, Busy
  <2>2. running' = Cardinality(Busy')
    BY <1>14, <2>1, BusyFinite, FS_RemoveElement DEF Leave
  <2>3. pc'[0] = "wait" => pc[0] = "wait" /\ running # 1
    BY <1>14, Numbers DEF Leave
  <2>4. running' \in Nat /\ (pc'[0] = "wait" => running' > 0)
    BY <1>14, <2>3, TypeStep DEF Leave
  <2>5. \A u \in Thread \ {0} : pc'[u] = "wait" => pc[u] = "wait"
    BY <1>14, Numbers DEF Leave
  <2>6. pc[0] \in {"dequeue", "call", "leave", "await", "wait"}
    BY <2>1, BusyFinite
  <2>7. pc'[0] \in {"dequeue", "call", "leave", "await", "wait"}
    BY <1>14, <2>6, Numbers DEF Leave
  <2> QED
    BY <1>14, <2>2, <2>4, <2>5, <2>7 DEF Leave
<1>15. ASSUME NEW t \in Thread \ {0}, WorkerExits(t) PROVE CountInv'
  BY <1>15, Numbers, BusyFinite DEF WorkerExits, Busy
<1>16. ASSUME NEW t \in Thread \ {0}, WorkerWaits(t) PROVE CountInv'
  BY <1>16, Numbers, BusyFinite DEF WorkerWaits, Busy
<1>17. ASSUME NEW t \in Thread \ {0}, WorkerJoinsIn(t) PROVE CountInv'
  <2>1. Busy' = Busy \cup {t} /\ t \notin Busy
    BY <1>17 DEF WorkerJoinsIn, Busy
  <2>2. running' = Cardinality(Busy')
    BY <1>17, <2>1, BusyFinite, FS_AddElement DEF WorkerJoinsIn
  <2> QED
    BY <1>17, <2>2, Numbers DEF WorkerJoinsIn
<1>18. ASSUME NEW t \in Thread, SpuriousWakeup(t) PROVE CountInv'
  BY <1>18, Numbers, BusyFinite DEF SpuriousWakeup, Busy
<1>19. ASSUME UNCHANGED vars PROVE CountInv'
  BY <1>19, Numbers, BusyFinite DEF vars, poolVars, runVars, Busy
<1> QED
  BY <1>1, <1>2, <1>3, <1>4, <1>5, <1>6, <1>7, <1>8, <1>9, <1>10,
     <1>11, <1>12, <1>13, <1>14, <1>15, <1>16, <1>17, <1>18, <1>19, StepCases

(* The pool starts with no worker and no run.                              *)
LEMMA InitPool == Init => PoolInv
<1> SUFFICES ASSUME Init PROVE PoolInv
  OBVIOUS
<1> USE DEF Init
<1>1. TypeOK
  <2>1. 0 \in 0 .. MaxWorkers /\ 1 \in 0 .. MaxWorkers + 1
    BY Numbers
  <2>2. calls \in [UInt32 -> Nat] /\ <<0, 0>> \in UInt32 \X UInt32
    BY Numbers DEF NoCalls
  <2> QED
    BY <2>1, <2>2, Numbers DEF TypeOK
<1>2. SizeInv
  BY Numbers DEF SizeInv
<1>3. Busy = {}
  BY Numbers DEF Busy
<1>4. CountInv
  BY <1>3, FS_EmptySet, Numbers DEF CountInv, RunningIsExact, NoLostWakeup, InPool
<1> QED
  BY <1>1, <1>2, <1>4 DEF PoolInv

(* The types, the size of the pool and the count of its running threads,   *)
(* on any ranges, even those on which next_task_ wraps.                    *)
THEOREM PoolIsSound == Spec => []PoolInv
<1>1. PoolInv /\ [Next]_vars => PoolInv'
  BY TypeStep, SizeStep, CountStep DEF PoolInv
<1> QED
  BY <1>1, InitPool, PTL DEF Spec

(* num_running_workers_ counts exactly the threads in DequeueTasks.        *)
THEOREM RunningExact == Spec => []RunningIsExact
<1>1. PoolInv => RunningIsExact
  BY DEF PoolInv, CountInv
<1> QED
  BY <1>1, PoolIsSound, PTL

(* No worker sleeps through work or its dismissal, and the caller does not *)
(* sleep through the end of its run.                                       *)
THEOREM WakeupsNotLost == Spec => []NoLostWakeup
<1>1. PoolInv => NoLostWakeup
  BY DEF PoolInv, CountInv
<1> QED
  BY <1>1, PoolIsSound, PTL

-------------------------------------------------------------------------------
(* Every step keeps a run's team and what it was told. *)
LEMMA TeamStep == PoolInv /\ TeamInv /\ [Next]_vars => TeamInv'
<1> SUFFICES ASSUME PoolInv /\ TeamInv, [Next]_vars PROVE TeamInv'
  OBVIOUS
<1> USE DEF PoolInv, TypeOK, SizeInv, CountInv, TeamInv, InPool, Running, poolVars, runVars
<1>1. ASSUME SpawnWorker PROVE TeamInv'
  BY <1>1, Numbers DEF SpawnWorker, Busy, Announced
<1>2. ASSUME SpawnDone PROVE TeamInv'
  BY <1>2, Numbers DEF SpawnDone, Busy, Announced
<1>3. ASSUME JoinWorkers PROVE TeamInv'
  BY <1>3, Numbers DEF JoinWorkers, Busy, Announced
<1>4. ASSUME CallInline PROVE TeamInv'
  BY <1>4, Numbers DEF CallInline, Busy, Announced
<1>5. ASSUME InlineReturns PROVE TeamInv'
  BY <1>5, Numbers DEF InlineReturns, Busy, Announced
<1>6. ASSUME Publish PROVE TeamInv'
  <2>1. \A t \in Thread : pc'[t] \in {"dequeue", "call", "leave"} => t = 0
    BY <1>6, BusyFinite, Numbers DEF Publish, Busy
  <2> QED
    BY <1>6, <2>1, Numbers DEF Publish, Busy, Announced
<1>7. ASSUME Await PROVE TeamInv'
  BY <1>7, Numbers DEF Await, Busy, Announced
<1>8. ASSUME Return PROVE TeamInv'
  BY <1>8, Numbers DEF Return, Busy, Announced
<1>9. ASSUME NEW n \in 0 .. MaxWorkers, NEW close \in BOOLEAN, Desire(n, close) PROVE TeamInv'
  BY <1>9, Numbers DEF Desire, Busy, Announced
<1>10. ASSUME NEW r \in Ranges, RunInitFails(r) PROVE TeamInv'
  BY <1>10, Numbers DEF RunInitFails, Busy, Announced
<1>11. ASSUME NEW r \in Ranges, RunAccepted(r) PROVE TeamInv'
  BY <1>11, Numbers DEF RunAccepted, Busy, Announced
<1>12. ASSUME NEW t \in Thread, Dequeue(t) PROVE TeamInv'
  BY <1>12, Numbers DEF Dequeue, Busy, Announced
<1>13. ASSUME NEW t \in Thread, TaskReturns(t) PROVE TeamInv'
  BY <1>13, Numbers DEF TaskReturns, Busy, Announced
<1>14. ASSUME NEW t \in Thread, Leave(t) PROVE TeamInv'
  BY <1>14, Numbers DEF Leave, Busy, Announced
<1>15. ASSUME NEW t \in Thread \ {0}, WorkerExits(t) PROVE TeamInv'
  BY <1>15, Numbers DEF WorkerExits, Busy, Announced
<1>16. ASSUME NEW t \in Thread \ {0}, WorkerWaits(t) PROVE TeamInv'
  BY <1>16, Numbers DEF WorkerWaits, Busy, Announced
<1>17. ASSUME NEW t \in Thread \ {0}, WorkerJoinsIn(t) PROVE TeamInv'
  BY <1>17, BusyFinite, Numbers DEF WorkerJoinsIn, Busy, Announced, HasWork
<1>18. ASSUME NEW t \in Thread, SpuriousWakeup(t) PROVE TeamInv'
  BY <1>18, Numbers DEF SpuriousWakeup, Busy, Announced
<1>19. ASSUME UNCHANGED vars PROVE TeamInv'
  BY <1>19, Numbers DEF vars, poolVars, runVars, Busy, Announced
<1> QED
  BY <1>1, <1>2, <1>3, <1>4, <1>5, <1>6, <1>7, <1>8, <1>9, <1>10,
     <1>11, <1>12, <1>13, <1>14, <1>15, <1>16, <1>17, <1>18, <1>19, StepCases

(* Two sets of threads, one within the other.                              *)
LEMMA MoreThreads ==
  ASSUME NEW S \in SUBSET Thread, NEW T \in SUBSET Thread, S \subseteq T
  PROVE  /\ Cardinality(S) \in Nat /\ Cardinality(T) \in Nat
         /\ Cardinality(S) <= Cardinality(T)
BY ThreadsFinite, FS_Subset

(* NextInv where no number is taken: the spent threads may only get more.  *)
LEMMA NextKept ==
  ASSUME TypeOK, NextInv, InPool' => InPool, next' = next, range' = range,
         InPool => Spent \subseteq Spent' /\ (Spent = {} => Spent' = {})
  PROVE  NextInv'
<1>1. Spent \in SUBSET Thread /\ Spent' \in SUBSET Thread
  BY DEF Spent
<1>2. InPool => /\ Cardinality(Spent) \in Nat /\ Cardinality(Spent') \in Nat
                /\ Cardinality(Spent) <= Cardinality(Spent')
  BY <1>1, MoreThreads
<1>3. next \in Nat /\ range[1] \in Nat /\ range[2] \in Nat
  BY Numbers DEF TypeOK
<1> QED
  BY <1>2, <1>3 DEF NextInv

(* next_task_ does not wrap, and one thread more is spent by passing it.   *)
LEMMA DequeueCounts ==
  ASSUME NoWrap, PoolInv, TeamInv, NextInv, NEW t \in Thread, Dequeue(t)
  PROVE  /\ InPool /\ range' = range /\ end = range[2] /\ next' = next + 1
         /\ next \in Nat /\ range[1] \in Nat /\ range[2] \in Nat
         /\ next < range[2] => Spent' = {}
         /\ range[2] <= next => Cardinality(Spent') = Cardinality(Spent) + 1
<1> USE DEF PoolInv, TypeOK
<1>1. t \in Busy /\ pc[t] = "dequeue" /\ range' = range
  BY DEF Dequeue, Busy, runVars
<1>2. InPool /\ range \in Ranges /\ end = range[2]
  BY <1>1, BusyFinite DEF TeamInv, InPool, Running
<1>3. next \in Nat /\ range[1] \in Nat /\ range[2] \in Nat
  BY Numbers
<1>4. Spent \in SUBSET Thread /\ t \notin Spent
  BY <1>1 DEF Spent
<1>5. IsFiniteSet(Spent) /\ Cardinality(Spent \cup {t}) = Cardinality(Spent) + 1
  BY <1>4, ThreadsFinite, FS_AddElement
<1>6. Spent \cup {t} \in SUBSET Thread
  BY <1>4
<1>7. Cardinality(Spent) \in Nat /\ Cardinality(Spent) + 1 <= MaxWorkers + 1
  BY <1>4, <1>5, <1>6, ThreadsFinite
<1>8. range[1] + MaxWorkers + 1 < M /\ range[2] + MaxWorkers + 1 < M
  BY <1>2 DEF NoWrap
<1>9. next + 1 < M
  BY <1>2, <1>3, <1>7, <1>8, Numbers DEF NextInv
<1>10. next + 1 \in UInt32
  BY <1>3, <1>9, Numbers DEF UInt32
<1>11. next' = next + 1
  BY <1>10, ModSmall DEF Dequeue
<1>12. ASSUME next < range[2] PROVE Spent' = {}
  <2>1. Spent = {}
    BY <1>2, <1>3, <1>12 DEF NextInv
  <2>2. pc' = [pc EXCEPT ![t] = "call"] /\ available' = available
    BY <1>2, <1>3, <1>12 DEF Dequeue
  <2> QED
    BY <2>1, <2>2 DEF Spent
<1>13. ASSUME range[2] <= next PROVE Spent' = Spent \cup {t}
  <2>1. pc' = [pc EXCEPT ![t] = "leave"] /\ available' = available
    BY <1>2, <1>3, <1>13 DEF Dequeue
  <2> QED
    BY <1>1, <2>1 DEF Spent
<1> QED
  BY <1>1, <1>2, <1>3, <1>5, <1>11, <1>12, <1>13

(* Every step keeps next_task_ below what the spent threads allow. *)
LEMMA NextStep == NoWrap /\ PoolInv /\ TeamInv /\ NextInv /\ [Next]_vars => NextInv'
<1> SUFFICES ASSUME NoWrap, PoolInv /\ TeamInv /\ NextInv, [Next]_vars PROVE NextInv'
  OBVIOUS
<1> USE DEF PoolInv, TypeOK, SizeInv, CountInv, InPool, poolVars, runVars
<1>1. ASSUME SpawnWorker PROVE NextInv'
  BY <1>1, Numbers, NextKept DEF SpawnWorker, Spent
<1>2. ASSUME SpawnDone PROVE NextInv'
  BY <1>2, Numbers, NextKept DEF SpawnDone, Spent
<1>3. ASSUME JoinWorkers PROVE NextInv'
  BY <1>3, Numbers, NextKept DEF JoinWorkers, Spent
<1>4. ASSUME CallInline PROVE NextInv'
  BY <1>4, Numbers, NextKept DEF CallInline, Spent
<1>5. ASSUME InlineReturns PROVE NextInv'
  BY <1>5, Numbers, NextKept DEF InlineReturns, Spent
<1>6. ASSUME Publish PROVE NextInv'
  <2>1. Spent' = {}
    BY <1>6, BusyFinite, Numbers DEF Publish, Busy, Spent
  <2> QED
    BY <1>6, <2>1, FS_EmptySet, Numbers DEF Publish, NextInv
<1>7. ASSUME Await PROVE NextInv'
  BY <1>7, Numbers, NextKept DEF Await, Spent
<1>8. ASSUME Return PROVE NextInv'
  BY <1>8, Numbers, NextKept DEF Return, Spent
<1>9. ASSUME NEW n \in 0 .. MaxWorkers, NEW close \in BOOLEAN, Desire(n, close) PROVE NextInv'
  BY <1>9, Numbers, NextKept DEF Desire, Spent
<1>10. ASSUME NEW r \in Ranges, RunInitFails(r) PROVE NextInv'
  BY <1>10, Numbers, NextKept DEF RunInitFails, Spent
<1>11. ASSUME NEW r \in Ranges, RunAccepted(r) PROVE NextInv'
  BY <1>11 DEF RunAccepted, NextInv
<1>12. ASSUME NEW t \in Thread, Dequeue(t) PROVE NextInv'
  <2>1. Spent \in SUBSET Thread
    BY DEF Spent
  <2>2. Cardinality(Spent) \in Nat
    BY <2>1, ThreadsFinite
  <2> QED
    BY SMTT(30), <1>12, <2>2, DequeueCounts, FS_EmptySet, Numbers DEF NextInv
<1>13. ASSUME NEW t \in Thread, TaskReturns(t) PROVE NextInv'
  BY <1>13, Numbers, NextKept DEF TaskReturns, Spent
<1>14. ASSUME NEW t \in Thread, Leave(t) PROVE NextInv'
  BY <1>14, Numbers, NextKept DEF Leave, Spent
<1>15. ASSUME NEW t \in Thread \ {0}, WorkerExits(t) PROVE NextInv'
  BY <1>15, Numbers, NextKept DEF WorkerExits, Spent
<1>16. ASSUME NEW t \in Thread \ {0}, WorkerWaits(t) PROVE NextInv'
  BY <1>16, Numbers, NextKept DEF WorkerWaits, Spent
<1>17. ASSUME NEW t \in Thread \ {0}, WorkerJoinsIn(t) PROVE NextInv'
  BY <1>17, NextKept DEF WorkerJoinsIn, HasWork, Spent
<1>18. ASSUME NEW t \in Thread, SpuriousWakeup(t) PROVE NextInv'
  BY <1>18, Numbers, NextKept DEF SpuriousWakeup, Spent
<1>19. ASSUME UNCHANGED vars PROVE NextInv'
  BY <1>19, Numbers, NextKept DEF vars, poolVars, runVars, Spent
<1> QED
  BY <1>1, <1>2, <1>3, <1>4, <1>5, <1>6, <1>7, <1>8, <1>9, <1>10,
     <1>11, <1>12, <1>13, <1>14, <1>15, <1>16, <1>17, <1>18, <1>19, StepCases

(* A range of one task that stays below 2^32 holds nothing but its start.  *)
LEMMA OneTaskRange ==
  ASSUME NoWrap, TypeOK, NEW r \in Ranges, OneTask(r)
  PROVE  r[2] = r[1] + 1
<1>1. r[1] \in UInt32 /\ r[1] + 1 \in UInt32
  BY Numbers DEF NoWrap, UInt32
<1> QED
  BY <1>1, ModSmall DEF OneTask

(* Every step keeps the calls made in step with next_task_. *)
LEMMA CallsStep == NoWrap /\ PoolInv /\ RunInv /\ [Next]_vars => CallsInv'
<1> SUFFICES ASSUME NoWrap, PoolInv /\ RunInv, [Next]_vars PROVE CallsInv'
  OBVIOUS
<1> USE DEF PoolInv, TypeOK, SizeInv, CountInv, RunInv, InPool, InRange, CallsInv, poolVars, runVars
<1>1. ASSUME SpawnWorker PROVE CallsInv'
  BY <1>1, Numbers DEF SpawnWorker
<1>2. ASSUME SpawnDone PROVE CallsInv'
  BY <1>2, Numbers DEF SpawnDone
<1>3. ASSUME JoinWorkers PROVE CallsInv'
  BY <1>3, Numbers DEF JoinWorkers
<1>4. ASSUME CallInline PROVE CallsInv'
  <2>1. calls = NoCalls /\ range[1] \in UInt32
    BY <1>4 DEF CallInline
  <2>2. calls' = [NoCalls EXCEPT ![range[1]] = 1]
    BY <1>4, <2>1 DEF CallInline, NoCalls
  <2>3. task'[0] = range[1] /\ pc'[0] = "inline" /\ range' = range
    BY <1>4, Numbers DEF CallInline
  <2> QED
    BY <2>2, <2>3
<1>5. ASSUME InlineReturns PROVE CallsInv'
  <2>1. range[2] = range[1] + 1
    BY <1>5, OneTaskRange DEF InlineReturns, TeamInv, Running
  <2> QED
    BY <1>5, <2>1, Numbers DEF InlineReturns, NoCalls
<1>6. ASSUME Publish PROVE CallsInv'
  <2>1. \A t \in Thread : pc'[t] # "call"
    BY <1>6, BusyFinite, Numbers DEF Publish, Busy
  <2> QED
    BY <1>6, <2>1, Numbers DEF Publish, NoCalls
<1>7. ASSUME Await PROVE CallsInv'
  <2>1. Spent = {t \in Thread : pc[t] \notin {"dequeue", "call"}} /\ 0 \in Spent
    BY <1>7, Numbers DEF Await, Spent
  <2>2. range[2] <= next
    BY <1>7, <2>1 DEF Await, NextInv
  <2> QED
    BY <1>7, <2>2, Numbers DEF Await
<1>8. ASSUME Return PROVE CallsInv'
  BY <1>8, Numbers DEF Return
<1>9. ASSUME NEW n \in 0 .. MaxWorkers, NEW close \in BOOLEAN, Desire(n, close) PROVE CallsInv'
  BY <1>9, Numbers DEF Desire
<1>10. ASSUME NEW r \in Ranges, RunInitFails(r) PROVE CallsInv'
  BY <1>10, Numbers DEF RunInitFails
<1>11. ASSUME NEW r \in Ranges, RunAccepted(r) PROVE CallsInv'
  BY <1>11, Numbers DEF RunAccepted
<1>12. ASSUME NEW t \in Thread, Dequeue(t) PROVE CallsInv'
  <2>1. /\ range' = range /\ end = range[2] /\ next' = next + 1
        /\ next \in Nat /\ range[1] <= next /\ range[2] \in Nat
    BY <1>12, DequeueCounts DEF NextInv
  <2>2. pc[t] = "dequeue" /\ task' = [task EXCEPT ![t] = next]
    BY <1>12 DEF Dequeue
  <2>3. InPool
    BY <1>12, DequeueCounts
  <2>4. CASE next >= end
    <3>1. calls' = calls /\ pc' = [pc EXCEPT ![t] = "leave"]
      BY <1>12, <2>4 DEF Dequeue
    <3>2. \A u \in UInt32 : calls'[u] = IF InRange(u) /\ u < next + 1 THEN 1 ELSE 0
      BY <2>1, <2>3, <2>4, <3>1, Numbers
    <3>3. \A u \in Thread : pc'[u] = "call" => InRange(task'[u]) /\ task'[u] < next + 1
      <4>1. \A u \in Thread : pc'[u] = "call" => u # t /\ pc[u] = "call" /\ task'[u] = task[u]
        BY <2>2, <3>1
      <4>2. \A u \in Thread : task[u] \in Nat
        BY Numbers
      <4> QED
        BY <2>1, <2>3, <4>1, <4>2
    <3>4. pc'[0] \notin {"single", "publish", "inline", "return"}
      BY <2>3, <3>1
    <3> QED
      BY <2>1, <3>2, <3>3, <3>4
  <2>5. CASE next < end
    <3>1. calls' = [calls EXCEPT ![next] = @ + 1] /\ pc' = [pc EXCEPT ![t] = "call"]
      BY <1>12, <2>1, <2>5 DEF Dequeue
    <3>2. \A u \in UInt32 : calls'[u] = IF InRange(u) /\ u < next + 1 THEN 1 ELSE 0
      BY <2>1, <2>3, <2>5, <3>1, Numbers
    <3>3. \A u \in Thread : pc'[u] = "call" => InRange(task'[u]) /\ task'[u] < next + 1
      <4>1. \A u \in Thread \ {t} :
              pc'[u] = "call" => pc[u] = "call" /\ task'[u] = task[u]
        BY <2>2, <3>1
      <4>2. task'[t] = next /\ \A u \in Thread : task[u] \in Nat
        BY <2>2, Numbers
      <4> QED
        BY <2>1, <2>3, <2>5, <4>1, <4>2
    <3>4. pc'[0] \notin {"single", "publish", "inline", "return"}
      BY <2>3, <3>1
    <3> QED
      BY <2>1, <3>2, <3>3, <3>4
  <2> QED
    BY <2>1, <2>4, <2>5
<1>13. ASSUME NEW t \in Thread, TaskReturns(t) PROVE CallsInv'
  BY <1>13, Numbers DEF TaskReturns
<1>14. ASSUME NEW t \in Thread, Leave(t) PROVE CallsInv'
  BY <1>14, Numbers DEF Leave
<1>15. ASSUME NEW t \in Thread \ {0}, WorkerExits(t) PROVE CallsInv'
  BY <1>15, Numbers DEF WorkerExits
<1>16. ASSUME NEW t \in Thread \ {0}, WorkerWaits(t) PROVE CallsInv'
  BY <1>16, Numbers DEF WorkerWaits
<1>17. ASSUME NEW t \in Thread \ {0}, WorkerJoinsIn(t) PROVE CallsInv'
  BY <1>17, Numbers DEF WorkerJoinsIn
<1>18. ASSUME NEW t \in Thread, SpuriousWakeup(t) PROVE CallsInv'
  BY <1>18, Numbers DEF SpuriousWakeup
<1>19. ASSUME UNCHANGED vars PROVE CallsInv'
  BY <1>19, Numbers DEF vars, poolVars, runVars
<1> QED
  BY <1>1, <1>2, <1>3, <1>4, <1>5, <1>6, <1>7, <1>8, <1>9, <1>10,
     <1>11, <1>12, <1>13, <1>14, <1>15, <1>16, <1>17, <1>18, <1>19, StepCases

(* Every run keeps its team, its numbers and its calls, where no range is  *)
(* so near 2^32 that next_task_ could wrap.                                *)
THEOREM RunIsSound == ASSUME NoWrap PROVE Spec => []IInv
<1>1. Init => IInv
  BY InitPool, Numbers DEF Init, IInv, RunInv, TeamInv, NextInv, CallsInv, Running, InPool
<1>2. IInv /\ [Next]_vars => IInv'
  BY TypeStep, SizeStep, CountStep, TeamStep, NextStep, CallsStep
     DEF IInv, PoolInv, RunInv
<1> QED
  BY <1>1, <1>2, PTL DEF Spec

(* The numbers are reset, and the end moved, only when no thread is left   *)
(* that could still take one of the earlier run.                           *)
THEOREM ResetWhenQuiet == ASSUME NoWrap PROVE Spec => ResetOnlyWhenQuiet
<1>1. IInv /\ [Next]_vars => [next' < next \/ end' # end => Busy = {}]_vars
  <2> SUFFICES ASSUME IInv, [Next]_vars PROVE next' < next \/ end' # end => Busy = {}
    OBVIOUS
  <2>1. next \in Nat
    BY Numbers DEF IInv, PoolInv, TypeOK
  <2>2. ASSUME Publish PROVE Busy = {}
    BY <2>2, BusyFinite DEF Publish, IInv, InPool
  <2>3. ASSUME NEW t \in Thread, Dequeue(t) PROVE next' = next + 1 /\ end' = end
    BY <2>3, DequeueCounts DEF IInv, RunInv, Dequeue
  <2>4. \/ Publish
        \/ \E t \in Thread : Dequeue(t)
        \/ next' = next /\ end' = end
    BY StepCases
       DEF SpawnWorker, SpawnDone, JoinWorkers, CallInline, InlineReturns, Await,
           Return, Desire, RunInitFails, RunAccepted, TaskReturns, Leave,
           WorkerExits, WorkerWaits, WorkerJoinsIn, SpuriousWakeup, vars
  <2> QED
    BY <2>1, <2>2, <2>3, <2>4
<1> QED
  BY <1>1, RunIsSound, PTL DEF Spec, ResetOnlyWhenQuiet

-------------------------------------------------------------------------------
(***************************************************************************)
(* The pool implements the abstract runner: a run begins when it is        *)
(* accepted, a number that is taken is a call, and Return is Return.       *)
(***************************************************************************)
InTask(t) == pc[t] \in {"call", "inline"}

(* A step that leaves these alone is none of the abstract runner's.        *)
LEMMA Stutters ==
  ASSUME Running' = Running, range' = range, announced' = announced, calls' = calls,
         \A t \in Thread : InTask(t)' = InTask(t),
         \A t \in Thread : InTask(t) => task'[t] = task[t]
  PROVE  UNCHANGED PR!vars
<1>1. {<<t, task[t]>> : t \in {u \in Thread : pc[u] \in {"call", "inline"}}}' =
      {<<t, task[t]>> : t \in {u \in Thread : pc[u] \in {"call", "inline"}}}
  BY DEF InTask
<1>2. {t \in UInt32 : Running /\ InRange(t) /\ calls[t] = 0}' =
      {t \in UInt32 : Running /\ InRange(t) /\ calls[t] = 0}
  BY DEF InRange
<1> QED
  BY <1>1, <1>2 DEF PR!vars

(* A thread that takes a number, or the caller alone, calls the data       *)
(* function for a task of the range that none was called for.              *)
LEMMA Calls ==
  ASSUME IInv, NEW t \in Thread, NEW i \in UInt32,
         Running, Running', range' = range, announced' = announced,
         InRange(i), calls[i] = 0, calls' = [calls EXCEPT ![i] = @ + 1],
         ~InTask(t), InTask(t)', task' = [task EXCEPT ![t] = i],
         \A u \in Thread \ {t} : InTask(u)' = InTask(u),
         t < announced
  PROVE  PR!Next
<1> DEFINE active == {<<u, task[u]>> : u \in {v \in Thread : pc[v] \in {"call", "inline"}}}
           todo == {j \in UInt32 : Running /\ InRange(j) /\ calls[j] = 0}
<1>1. calls \in [UInt32 -> Nat] /\ task \in [Thread -> UInt32] /\ announced \in Nat
  BY Numbers DEF IInv, PoolInv, TypeOK
<1>2. t \in 0 .. (MaxWorkers + 1) - 1
  BY Numbers
<1>3. i \in todo /\ todo' = todo \ {i}
  BY <1>1 DEF InRange
<1>4. \A a \in active : a[1] # t
  BY DEF InTask
<1>5. active' = active \cup {<<t, i>>}
  <2>1. \A u \in Thread \ {t} : task'[u] = task[u]
    BY <1>1
  <2>2. task'[t] = i
    BY <1>1
  <2> QED
    BY <2>1, <2>2 DEF InTask
<1>6. PR!Call(t, i)
  BY <1>3, <1>4, <1>5 DEF PR!Call
<1> QED
  BY <1>2, <1>6 DEF PR!Next

(* A call of the data function returns.                                    *)
LEMMA Finishes ==
  ASSUME IInv, NEW t \in Thread, Running, Running',
         range' = range, announced' = announced, calls' = calls, task' = task,
         InTask(t), ~InTask(t)', \A u \in Thread \ {t} : InTask(u)' = InTask(u)
  PROVE  PR!Next
<1> DEFINE active == {<<u, task[u]>> : u \in {v \in Thread : pc[v] \in {"call", "inline"}}}
<1>1. task[t] \in UInt32 /\ t \in 0 .. (MaxWorkers + 1) - 1
  BY Numbers DEF IInv, PoolInv, TypeOK
<1>2. PICK i \in UInt32 : i = task[t]
  BY <1>1
<1>3. <<t, i>> \in active /\ active' = active \ {<<t, i>>}
  BY <1>2 DEF InTask
<1>4. PR!Finish(t, i)
  BY <1>3 DEF PR!Finish, InRange
<1> QED
  BY <1>1, <1>2, <1>4 DEF PR!Next


(* A thread that takes a task has an id below what the init function was   *)
(* told: it is one of the workers, and it was let in for a task.           *)
LEMMA Busiest ==
  ASSUME IInv, InPool, NEW t \in Thread, pc[t] = "dequeue", range[1] <= next, next < range[2]
  PROVE  t < announced
<1> PoolInv /\ TypeOK /\ SizeInv /\ TeamInv
  BY DEF IInv, PoolInv, RunInv
<1>1. range \in Ranges /\ announced = Announced(range) /\ ~OneTask(range)
  BY DEF TeamInv, InPool, Running
<1>2. /\ range[1] \in UInt32 /\ range[2] \in UInt32 /\ next \in UInt32
      /\ size \in 0 .. MaxWorkers
  BY Numbers DEF TypeOK
<1>3. range[2] - range[1] \in UInt32 /\ range[2] - range[1] - 1 \in UInt32
  BY <1>2, Numbers DEF UInt32
<1>4. /\ (range[2] - range[1]) % M = range[2] - range[1]
      /\ (range[2] - range[1] - 1) % M = range[2] - range[1] - 1
  BY <1>3, ModSmall
<1>5. t = 0 \/ t - 1 < range[2] - range[1] - 1
  BY <1>4 DEF TeamInv, Busy
<1>6. t <= size
  BY <1>2, Numbers DEF SizeInv
<1> QED
  BY <1>1, <1>2, <1>4, <1>5, <1>6, Numbers DEF Announced

(* Every step of the pool is one of the abstract runner, or stutters. *)
LEMMA RefinementStep == NoWrap /\ NoEmptyRange /\ IInv /\ [Next]_vars => [PR!Next]_PR!vars
<1> SUFFICES ASSUME NoWrap /\ NoEmptyRange, IInv, [Next]_vars PROVE PR!Next \/ UNCHANGED PR!vars
  OBVIOUS
<1> USE DEF poolVars, runVars
<1> USE DEF TypeOK
<1> PoolInv /\ TypeOK /\ SizeInv /\ CountInv /\ TeamInv /\ NextInv /\ CallsInv
  BY DEF IInv, PoolInv, RunInv
<1>1. ASSUME SpawnWorker PROVE PR!Next \/ UNCHANGED PR!vars
  BY <1>1, NextWorker, Numbers, Stutters DEF SpawnWorker, InTask, Running, TypeOK
<1>2. ASSUME SpawnDone PROVE PR!Next \/ UNCHANGED PR!vars
  BY <1>2, Numbers, Stutters DEF SpawnDone, InTask, Running
<1>3. ASSUME JoinWorkers PROVE PR!Next \/ UNCHANGED PR!vars
  BY <1>3, Numbers, Stutters DEF JoinWorkers, InTask, Running
<1>4. ASSUME CallInline PROVE PR!Next \/ UNCHANGED PR!vars
  <2>1. /\ range[1] \in UInt32 /\ range[2] = range[1] + 1
        /\ announced = 1 /\ calls = NoCalls
    BY <1>4, OneTaskRange, Numbers DEF CallInline, TeamInv, CallsInv, Announced, Running
  <2>2. InRange(range[1]) /\ calls[range[1]] = 0
    BY <2>1, Numbers DEF InRange, NoCalls
  <2>3. \A u \in Thread \ {0} : InTask(u)' = InTask(u)
    BY <1>4 DEF CallInline, InTask
  <2>4. ~InTask(0) /\ InTask(0)'
    BY <1>4, Numbers DEF CallInline, InTask
  <2>5. Running /\ Running'
    BY <1>4, Numbers DEF CallInline, Running
  <2>6. /\ 0 \in Thread /\ 0 < announced /\ range' = range /\ announced' = announced
        /\ task' = [task EXCEPT ![0] = range[1]]
        /\ calls' = [calls EXCEPT ![range[1]] = @ + 1]
    BY <1>4, <2>1, Numbers DEF CallInline
  <2> QED
    BY <2>1, <2>2, <2>3, <2>4, <2>5, <2>6, Calls
<1>5. ASSUME InlineReturns PROVE PR!Next \/ UNCHANGED PR!vars
  <2>1. \A u \in Thread \ {0} : InTask(u)' = InTask(u)
    BY <1>5 DEF InlineReturns, InTask
  <2>2. InTask(0) /\ ~InTask(0)'
    BY <1>5, Numbers DEF InlineReturns, InTask
  <2>3. Running /\ Running'
    BY <1>5, Numbers DEF InlineReturns, Running
  <2> QED
    BY <1>5, <2>1, <2>2, <2>3, Finishes, Numbers DEF InlineReturns
<1>6. ASSUME Publish PROVE PR!Next \/ UNCHANGED PR!vars
  BY <1>6, Numbers, Stutters DEF Publish, InTask, Running
<1>7. ASSUME Await PROVE PR!Next \/ UNCHANGED PR!vars
  BY <1>7, Numbers, Stutters DEF Await, InTask, Running
<1>8. ASSUME Return PROVE PR!Next \/ UNCHANGED PR!vars
  <2>1. \A t \in Thread : ~InTask(t) /\ ~InTask(t)'
    BY <1>8, BusyFinite, Numbers DEF Return, InTask, InPool, Busy, SizeInv
  <2>2. Running /\ ~Running'
    BY <1>8, Numbers DEF Return, Running
  <2>3. \A t \in UInt32 : ~(InRange(t) /\ calls[t] = 0)
    BY <1>8 DEF Return, CallsInv
  <2>4. PR!Return
    BY <1>8, <2>1, <2>2, <2>3 DEF Return, PR!Return, InTask, InRange
  <2> QED
    BY <2>4 DEF PR!Next
<1>9. ASSUME NEW n \in 0 .. MaxWorkers, NEW close \in BOOLEAN, Desire(n, close) PROVE PR!Next \/ UNCHANGED PR!vars
  BY <1>9, Numbers, Stutters DEF Desire, InTask, Running
<1>10. ASSUME NEW r \in Ranges, RunInitFails(r) PROVE PR!Next \/ UNCHANGED PR!vars
  BY <1>10, Numbers, Stutters DEF RunInitFails, InTask, Running
<1>11. ASSUME NEW r \in Ranges, RunAccepted(r) PROVE PR!Next \/ UNCHANGED PR!vars
  <2>1. PICK told \in 1 .. MaxWorkers + 1 : told = Announced(r)
    BY AnnouncedType, Numbers DEF NoEmptyRange
  <2>2. ~Running /\ Running' /\ announced' = told
    BY <1>11, <2>1, Numbers DEF RunAccepted, Running
  <2>3. \A t \in Thread : ~InTask(t) /\ ~InTask(t)'
    BY <1>11, BusyFinite, Numbers DEF RunAccepted, InTask, InPool, Busy, SizeInv
  <2>4. PR!Begin(told)
    BY <2>2, <2>3 DEF PR!Begin, InTask
  <2> QED
    BY <2>4 DEF PR!Next
<1>12. ASSUME NEW t \in Thread, Dequeue(t) PROVE PR!Next \/ UNCHANGED PR!vars
  <2>1. /\ InPool /\ end = range[2] /\ pc[t] = "dequeue" /\ next \in UInt32
    BY <1>12, DequeueCounts DEF Dequeue, TypeOK
  <2>2. Running /\ Running'
    BY <1>12, <2>1, Numbers DEF Dequeue, InPool, Running
  <2>3. \A u \in Thread \ {t} : InTask(u)' = InTask(u) /\ task'[u] = task[u]
    BY <1>12 DEF Dequeue, InTask, TypeOK
  <2>4. CASE next >= end
    <3>1. ~InTask(t) /\ ~InTask(t)' /\ calls' = calls
      BY <1>12, <2>4 DEF Dequeue, InTask
    <3>2. \A u \in Thread : InTask(u)' = InTask(u) /\ (InTask(u) => task'[u] = task[u])
      BY <2>3, <3>1 DEF InTask
    <3>3. range' = range /\ announced' = announced /\ Running' = Running
      BY <1>12, <2>2 DEF Dequeue
    <3> QED
      BY <3>1, <3>2, <3>3, Stutters
  <2>5. CASE next < end
    <3>1. ~InTask(t) /\ InTask(t)' /\ calls' = [calls EXCEPT ![next] = @ + 1]
      BY <1>12, <2>5, Numbers DEF Dequeue, InTask
    <3>2. InRange(next) /\ calls[next] = 0
      BY <2>1, <2>5, Numbers DEF CallsInv, NextInv, InRange
    <3>3. t < announced
      <4>1. range[1] <= next /\ next < range[2]
        BY <2>1, <2>5 DEF NextInv
      <4> QED
        BY <2>1, <4>1, Busiest
    <3> QED
      BY <1>12, <2>1, <2>2, <2>3, <3>1, <3>2, <3>3, Calls DEF Dequeue
  <2> QED
    BY <2>1, <2>4, <2>5, Numbers
<1>13. ASSUME NEW t \in Thread, TaskReturns(t) PROVE PR!Next \/ UNCHANGED PR!vars
  <2>1. \A u \in Thread \ {t} : InTask(u)' = InTask(u)
    BY <1>13 DEF TaskReturns, InTask, TypeOK
  <2>2. InPool
    BY <1>13, BusyFinite DEF TaskReturns, Busy
  <2>3. Running /\ Running'
    BY <1>13, <2>2, Numbers DEF TaskReturns, InPool, Running
  <2>4. InTask(t) /\ ~InTask(t)'
    BY <1>13 DEF TaskReturns, InTask
  <2> QED
    BY <1>13, <2>1, <2>3, <2>4, Finishes DEF TaskReturns
<1>14. ASSUME NEW t \in Thread, Leave(t) PROVE PR!Next \/ UNCHANGED PR!vars
  BY <1>14, Numbers, Stutters DEF Leave, InTask, Running
<1>15. ASSUME NEW t \in Thread \ {0}, WorkerExits(t) PROVE PR!Next \/ UNCHANGED PR!vars
  BY <1>15, Numbers, Stutters DEF WorkerExits, InTask, Running
<1>16. ASSUME NEW t \in Thread \ {0}, WorkerWaits(t) PROVE PR!Next \/ UNCHANGED PR!vars
  BY <1>16, Numbers, Stutters DEF WorkerWaits, InTask, Running
<1>17. ASSUME NEW t \in Thread \ {0}, WorkerJoinsIn(t) PROVE PR!Next \/ UNCHANGED PR!vars
  BY <1>17, Numbers, Stutters DEF WorkerJoinsIn, InTask, Running
<1>18. ASSUME NEW t \in Thread, SpuriousWakeup(t) PROVE PR!Next \/ UNCHANGED PR!vars
  BY <1>18, Numbers, Stutters DEF SpuriousWakeup, InTask, Running
<1>19. ASSUME UNCHANGED vars PROVE PR!Next \/ UNCHANGED PR!vars
  BY <1>19, Stutters DEF vars, poolVars, runVars, InTask, Running
<1> QED
  BY <1>1, <1>2, <1>3, <1>4, <1>5, <1>6, <1>7, <1>8, <1>9, <1>10,
     <1>11, <1>12, <1>13, <1>14, <1>15, <1>16, <1>17, <1>18, <1>19, StepCases

(* The pool is a runner as parallel_runner.h asks for, for every number of *)
(* workers and however often it changes.                                   *)
THEOREM Refinement ==
  ASSUME NoWrap, NoEmptyRange PROVE Spec => ImplementsParallelRunner
<1>1. Init => PR!Init
  <2> SUFFICES ASSUME Init PROVE PR!Init
    OBVIOUS
  <2>1. announced \in 1 .. MaxWorkers + 1
    BY Numbers DEF Init
  <2> QED
    BY <2>1, Numbers DEF Init, PR!Init, Running
<1>2. IInv /\ [Next]_vars => [PR!Next]_PR!vars
  BY RefinementStep
<1> QED
  BY <1>1, <1>2, RunIsSound, PTL DEF Spec, ImplementsParallelRunner
===============================================================================
