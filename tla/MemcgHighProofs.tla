--------------------------- MODULE MemcgHighProofs ---------------------------
(***************************************************************************)
(* Proofs about MemcgHigh, for any number of tasks, any limits and any     *)
(* number of charges.                                                      *)
(*                                                                         *)
(* OverHighAttended is not inductive: a task may leave try_charge without  *)
(* scheduling the work, and so may the last check of high_work_func, when  *)
(* the excess was charged by others meanwhile. QuietBound says how large   *)
(* the excess is when neither the work nor a writer of memory.high will    *)
(* look again: at most one batch for each task that has charged and has    *)
(* yet to compare the counter with the present limit.                      *)
(***************************************************************************)
EXTENDS MemcgHigh, FiniteSetTheorems, TLAPS

\* Tasks that will compare the counter with the limit as it is now. One that
\* has read an older limit charged before that limit was replaced.
Open == {t \in Tasks : tpc[t] = "readhigh" \/ (tpc[t] = "readcurr" /\ thigh[t] = high)}

\* Neither high_work_func nor memory_high_write will schedule the work.
Quiet ==
  /\ ~work /\ hpc = "idle"
  /\ wpc = "idle" \/ (wpc = "resched" /\ wmem <= high)

QuietBound == Quiet => memory <= high + Batch * Cardinality(Open)

\* All tasks together charge at most MAX_RECLAIM_OFFLOAD pages at once: 64 tasks
\* with the kernel's batch of 32 pages.
SmallCrowd == IsFiniteSet(Tasks) /\ Batch * Cardinality(Tasks) <= MaxOffload

\* high_work_func reads the limit into whigh before it compares with it, so the
\* excess it asks reclaim for is positive.
WorkerInv == wpc = "reclaim" => wmem > whigh

IInv == TypeOK /\ WorkerInv /\ QuietBound

-----------------------------------------------------------------------------
\* Types, and an idle worker, at the start.
LEMMA TypeInit == Init => TypeOK /\ WorkerInv
<1> SUFFICES ASSUME Init PROVE TypeOK /\ WorkerInv
  OBVIOUS
<1>1. work \in BOOLEAN
  BY DEF Init
<1>2. TypeOK
  BY <1>1, MemcgAssumption DEF Init, TypeOK
<1> QED
  BY <1>2 DEF Init, WorkerInv

\* The counter stays a natural number: reclaim evicts pages that are charged.
LEMMA TypeNext == ASSUME TypeOK, WorkerInv, [Next]_vars PROVE TypeOK' /\ WorkerInv'
<1> USE MemcgAssumption DEF TypeOK, WorkerInv
<1> USE DEF vars, workerVars, taskVars
<1>1. CASE Worker
  BY <1>1 DEF Worker, WorkStart, WorkReadHigh, WorkReadMemory, WorkRecheckMemory,
       WorkResched
<1>2. ASSUME NEW k \in 0..MaxOffload, WorkReclaim(k) PROVE TypeOK' /\ WorkerInv'
  <2>1. memory' \in Nat
    BY <1>2 DEF WorkReclaim, ReclaimHigh
  <2> QED
    BY <1>2, <2>1 DEF WorkReclaim
<1>3. ASSUME NEW t \in Tasks, NEW n \in 1..Batch, Charge(t, n)
      PROVE  TypeOK' /\ WorkerInv'
  BY <1>3 DEF Charge
<1>4. ASSUME NEW t \in Tasks, TaskStep(t) PROVE TypeOK' /\ WorkerInv'
  <2>1. CASE ReadHigh(t)
    BY <2>1 DEF ReadHigh
  <2>2. CASE CheckHigh(t)
    <3>1. work' \in BOOLEAN
      BY <2>2 DEF CheckHigh
    <3>2. debt' \in [Tasks -> Nat]
      BY <2>2 DEF CheckHigh
    <3> QED
      BY <2>2, <3>1, <3>2 DEF CheckHigh
  <2> QED
    BY <1>4, <2>1, <2>2 DEF TaskStep
<1>5. ASSUME NEW t \in Tasks, NEW k \in 0..debt[t], HandleOverHigh(t, k)
      PROVE  TypeOK' /\ WorkerInv'
  BY <1>5 DEF HandleOverHigh, ReclaimHigh
<1>6. CASE Uncharge
  BY <1>6 DEF Uncharge
<1>7. ASSUME NEW h \in Highs, HighWrite(h) PROVE TypeOK' /\ WorkerInv'
  BY <1>7 DEF HighWrite
<1>8. CASE HighSchedule
  BY <1>8 DEF HighSchedule
<1>9. CASE UNCHANGED vars
  BY <1>9
<1> QED
  BY <1>1, <1>2, <1>3, <1>4, <1>5, <1>6, <1>7, <1>8, <1>9 DEF Next

\* Whatever tasks charge and whoever writes memory.high, all variables keep
\* their types; memcg->memory never goes below zero.
THEOREM TypeCorrect == Spec => []TypeOK
<1>1. TypeOK /\ WorkerInv /\ [Next]_vars => TypeOK' /\ WorkerInv'
  BY TypeNext
<1> QED
  BY TypeInit, <1>1, PTL DEF Spec

-----------------------------------------------------------------------------
\* There are finitely many open tasks, no more than tasks.
LEMMA OpenFinite ==
  ASSUME SmallCrowd
  PROVE  /\ IsFiniteSet(Open) /\ Cardinality(Open) \in Nat
         /\ Batch * Cardinality(Open) \in Nat /\ Batch * Cardinality(Open) <= MaxOffload
<1>1. Open \subseteq Tasks
  BY DEF Open
<1>2. IsFiniteSet(Open) /\ Cardinality(Open) <= Cardinality(Tasks)
  BY <1>1, FS_Subset DEF SmallCrowd
<1>3. Cardinality(Open) \in Nat /\ Cardinality(Tasks) \in Nat
  BY <1>2, FS_CardinalityType DEF SmallCrowd
<1>4. \A a, b, c \in Nat : b <= c => a * b <= a * c /\ a * b \in Nat
  OBVIOUS
<1>5. Batch * Cardinality(Open) <= Batch * Cardinality(Tasks)
  BY <1>2, <1>3, <1>4, MemcgAssumption
<1> QED
  BY <1>2, <1>3, <1>4, <1>5, MemcgAssumption DEF SmallCrowd

\* A step that keeps the limit and the open tasks, adds no page and does not
\* make the system quiet keeps the bound.
LEMMA BoundKept ==
  ASSUME TypeOK, SmallCrowd, QuietBound, memory' \in Nat, memory' <= memory,
         high' = high, Open' = Open, Quiet' => Quiet
  PROVE  QuietBound'
<1>1. Quiet' => memory <= high + Batch * Cardinality(Open)
  BY DEF QuietBound
<1>2. Quiet' => memory' <= high' + Batch * Cardinality(Open')
  BY <1>1, OpenFinite, MemcgAssumption DEF TypeOK
<1> QED
  BY <1>2 DEF QuietBound

\* A charge adds at most one batch, and an open task.
LEMMA BoundCharge ==
  ASSUME TypeOK, SmallCrowd, QuietBound, NEW t \in Tasks, NEW n \in 1..Batch,
         Charge(t, n)
  PROVE  QuietBound'
<1> USE MemcgAssumption
<1>1. t \notin Open /\ Open' = Open \cup {t}
  BY DEF Charge, Open, TypeOK
<1>2. Cardinality(Open') = Cardinality(Open) + 1
  BY <1>1, OpenFinite, FS_AddElement
<1>3. Cardinality(Open) \in Nat /\ Batch * Cardinality(Open) \in Nat
  BY OpenFinite
<1>4. Batch * Cardinality(Open') = Batch * Cardinality(Open) + Batch
  BY <1>2, <1>3
<1>5. (Quiet' <=> Quiet) /\ memory' = memory + n /\ high' = high
  BY DEF Quiet, Charge, workerVars
<1>6. Quiet' => memory <= high + Batch * Cardinality(Open)
  BY <1>5 DEF QuietBound
<1>7. Quiet' => memory' <= high' + Batch * Cardinality(Open')
  BY <1>3, <1>4, <1>5, <1>6 DEF TypeOK
<1> QED
  BY <1>7 DEF QuietBound

\* A task that leaves try_charge without scheduling the work has found the
\* counter below its limit, or an excess that a small crowd cannot have
\* charged; a limit that is not the present one was replaced later.
LEMMA BoundCheck ==
  ASSUME TypeOK, SmallCrowd, QuietBound, NEW t \in Tasks, CheckHigh(t)
  PROVE  QuietBound'
<1> USE MemcgAssumption
<1> SUFFICES ASSUME Quiet' PROVE memory' <= high' + Batch * Cardinality(Open')
  BY DEF QuietBound
<1>1. memory' = memory /\ high' = high /\ memory \in Nat /\ high \in Nat
  BY DEF CheckHigh, TypeOK
<1>2. CASE t \notin Open
  <2>1. Open' = Open
    BY <1>2 DEF CheckHigh, Open, TypeOK
  <2>2. ~work
    BY DEF CheckHigh, Quiet
  <2>3. Quiet
    BY <2>2 DEF Quiet, CheckHigh, workerVars
  <2> QED
    BY <1>1, <2>1, <2>3 DEF QuietBound
<1>3. CASE t \in Open
  <2>1. thigh[t] = high
    BY <1>3 DEF CheckHigh, Open
  <2>2. ~work /\ (memory <= thigh[t] \/ memory - thigh[t] > MaxOffload)
    BY DEF CheckHigh, Quiet
  <2>3. Quiet
    BY <2>2 DEF Quiet, CheckHigh, workerVars
  <2>4. memory <= high + Batch * Cardinality(Open)
    BY <2>3 DEF QuietBound
  <2>5. Batch * Cardinality(Open) \in Nat /\ Batch * Cardinality(Open) <= MaxOffload
    BY OpenFinite
  <2>6. memory <= high
    BY <1>1, <2>1, <2>2, <2>4, <2>5
  <2>7. Open' = Open \ {t}
    BY DEF CheckHigh, Open, TypeOK
  <2>8. Cardinality(Open') \in Nat
    BY <2>7, OpenFinite, FS_RemoveElement, FS_CardinalityType
  <2>9. Batch * Cardinality(Open') \in Nat
    BY <2>8
  <2> QED
    BY <1>1, <2>6, <2>9
<1> QED
  BY <1>2, <1>3

\* Every step keeps the bound on what the tasks have charged unattended.
LEMMA BoundNext ==
  ASSUME TypeOK, TypeOK', SmallCrowd, QuietBound, [Next]_vars
  PROVE  QuietBound'
<1> USE MemcgAssumption
<1> USE DEF vars, workerVars, taskVars
<1>0. memory \in Nat /\ memory' \in Nat /\ high \in Nat /\ high' \in Nat
  BY DEF TypeOK
<1>1. ASSUME memory' <= memory, high' = high, UNCHANGED <<tpc, thigh>>, Quiet' => Quiet
      PROVE  QuietBound'
  <2>1. Open' = Open
    BY <1>1 DEF Open
  <2> QED
    BY <1>0, <1>1, <2>1, BoundKept
<1>2. ASSUME ~Quiet' PROVE QuietBound'
  BY <1>2 DEF QuietBound
<1>3. CASE WorkStart \/ WorkReadHigh
  BY <1>2, <1>3 DEF WorkStart, WorkReadHigh, Quiet
<1>4. CASE WorkReadMemory
  BY <1>2, <1>4 DEF WorkReadMemory, Quiet
<1>5. CASE WorkRecheckMemory
  <2> SUFFICES ASSUME Quiet' PROVE memory' <= high' + Batch * Cardinality(Open')
    BY DEF QuietBound
  <2>1. memory' <= high'
    BY <1>5 DEF WorkRecheckMemory, Quiet
  <2>2. Open' = Open
    BY <1>5 DEF WorkRecheckMemory, Open
  <2> QED
    BY <1>0, <2>1, <2>2, OpenFinite
<1>6. CASE WorkResched
  <2>1. ~work' => ~work /\ ~(wmem > high)
    BY <1>6 DEF WorkResched
  <2>2. ~(wmem > high) => wmem <= high
    BY <1>0 DEF TypeOK
  <2>3. Quiet' => Quiet
    BY <1>6, <2>1, <2>2 DEF WorkResched, Quiet
  <2> QED
    BY <1>0, <1>1, <1>6, <2>3 DEF WorkResched
<1>7. ASSUME NEW k \in 0..MaxOffload, WorkReclaim(k) PROVE QuietBound'
  BY <1>2, <1>7 DEF WorkReclaim, Quiet
<1>8. ASSUME NEW t \in Tasks, NEW n \in 1..Batch, Charge(t, n) PROVE QuietBound'
  BY <1>8, BoundCharge
<1>9. ASSUME NEW t \in Tasks, ReadHigh(t) PROVE QuietBound'
  <2>1. Open' = Open
    BY <1>9 DEF ReadHigh, Open, TypeOK
  <2>2. (Quiet' => Quiet) /\ memory' <= memory /\ high' = high
    BY <1>0, <1>9 DEF ReadHigh, Quiet
  <2> QED
    BY <1>0, <2>1, <2>2, BoundKept
<1>10. ASSUME NEW t \in Tasks, CheckHigh(t) PROVE QuietBound'
  BY <1>10, BoundCheck
<1>11. ASSUME NEW t \in Tasks, NEW k \in 0..debt[t], HandleOverHigh(t, k)
       PROVE  QuietBound'
  <2>1. memory' <= memory
    BY <1>0, <1>11 DEF HandleOverHigh, ReclaimHigh, TypeOK
  <2>2. (Quiet' => Quiet) /\ high' = high /\ UNCHANGED <<tpc, thigh>>
    BY <1>11 DEF HandleOverHigh, Quiet
  <2> QED
    BY <1>1, <2>1, <2>2
<1>12. CASE Uncharge
  <2>1. (Quiet' => Quiet) /\ high' = high /\ UNCHANGED <<tpc, thigh>>
    BY <1>12 DEF Uncharge, Quiet
  <2>2. memory' <= memory
    BY <1>0, <1>12 DEF Uncharge
  <2> QED
    BY <1>1, <2>1, <2>2
<1>13. ASSUME NEW h \in Highs, HighWrite(h) PROVE QuietBound'
  BY <1>2, <1>13 DEF HighWrite, Quiet
<1>14. CASE HighSchedule
  BY <1>2, <1>14 DEF HighSchedule, Quiet
<1>15. CASE UNCHANGED vars
  <2>1. Quiet' => Quiet
    BY <1>15 DEF Quiet
  <2> QED
    BY <1>0, <1>1, <1>15, <2>1
<1> QED
  BY <1>3, <1>4, <1>5, <1>6, <1>7, <1>8, <1>9, <1>10, <1>11, <1>12, <1>13,
     <1>14, <1>15 DEF Next, Worker, TaskStep

\* Nothing is charged at the start.
LEMMA BoundInit == ASSUME Init, SmallCrowd PROVE QuietBound
<1>1. memory = 0 /\ high \in Nat
  BY MemcgAssumption DEF Init
<1> QED
  BY <1>1, OpenFinite DEF QuietBound

\* With no task open the bound leaves nothing above memory.high unattended.
LEMMA BoundAttends == ASSUME TypeOK, SmallCrowd, QuietBound PROVE OverHighAttended
<1> SUFFICES ASSUME memory > high, ~Attended PROVE FALSE
  BY DEF OverHighAttended
<1>1. Quiet
  BY DEF Attended, Quiet
<1>2. Open = {}
  BY DEF Attended, Open
<1>3. Batch * Cardinality(Open) = 0
  BY <1>2, FS_EmptySet, MemcgAssumption
<1> QED
  BY <1>1, <1>3, MemcgAssumption DEF QuietBound, TypeOK

\* No wake-up of high_work_func is lost: for any number of tasks that cannot
\* charge more than MAX_RECLAIM_OFFLOAD pages at once, a cgroup above its limit
\* has somebody who will look at the limit again.
THEOREM AttendedCorrect == SmallCrowd => (Spec => []OverHighAttended)
<1> SUFFICES ASSUME SmallCrowd PROVE Spec => []OverHighAttended
  OBVIOUS
<1>1. Init => IInv
  BY TypeInit, BoundInit DEF IInv
<1>2. IInv /\ [Next]_vars => IInv'
  BY TypeNext, BoundNext DEF IInv
<1>3. IInv => OverHighAttended
  BY BoundAttends DEF IInv
<1> QED
  BY <1>1, <1>2, <1>3, PTL DEF Spec
=============================================================================
