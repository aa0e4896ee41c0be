-------------------------- MODULE FaultReadyProofs --------------------------
(***************************************************************************)
(* Proof of FaultReady for any number of CPUs, threads, pages and requests *)
(* and whatever fails, for a kernel in which the page allocation of        *)
(* read_swap_cache_sync does not move the thread to another CPU. (Where it *)
(* may, the property is false: the run stale_cpu shows how.)               *)
(*                                                                         *)
(* The CPU number that swapin_readahead remembers is then the one whose    *)
(* queue takes the read (AllocInv), so the drain of that queue waits for   *)
(* the read of the fault's own page: until the page is ready, the thread   *)
(* is about to post its read, or the read is in flight on the queue of the *)
(* remembered CPU (ReadyInv). What others do cannot take the page away     *)
(* again: it is referenced (RefInv).                                       *)
(***************************************************************************)
EXTENDS SwapDataProofs

\* From the CPU number that is read to the one whose queue is used.
AllocInv == \A t \in Threads : pc[t] = "alloc" => cpu[t] = fcpu[t]

\* A fault that brought its page in is in its loads, or waits for the page lock.
FreshInv ==
  \A t \in Threads :
    fresh[t] =>
      /\ fpage[t] \in Pages /\ pc[t] \notin {"idle", "alloc", "stored"}
      /\ pc[t] \in PostPcs \cup PollPcs => dq[t][2] # "WRITE_SYNC"

PageReady(p) == ~locked[p] /\ uptodate[p]

\* Thread t is in the call that posts the read of its fault's page.
Posting(t) ==
  pc[t] \in PostPcs \cup PollPcs /\ dpage[t] = fpage[t] /\ dq[t] = <<fcpu[t], "READ_SYNC">>

\* The read of the fault's page is in flight on the queue to be drained.
FlightStates == {"posted", "cqe", "reaped"}
InFlight(t) ==
  /\ pc[t] # "lockpage"
  /\ pc[t] \in PollPcs /\ loop[t] = "drain" => dq[t] = <<fcpu[t], "READ_SYNC">>
  /\ \E r \in Reqs : /\ rstate[r] \in FlightStates
                     /\ rpage[r] = fpage[t] /\ rq[r] = <<fcpu[t], "READ_SYNC">>

ReadyInv ==
  \A t \in Threads :
    fresh[t] /\ pc[t] # "dead" => PageReady(fpage[t]) \/ Posting(t) \/ InFlight(t)

RInv == AllocInv /\ FreshInv /\ ReadyInv

-----------------------------------------------------------------------------
\* Nothing moves a thread that allocates.
LEMMA AllocStep == ASSUME ~MigrateInAlloc, IInv, DInv, HandInv, RInv, [Next]_vars PROVE AllocInv'
<1> USE ObjectAssumption, CallerAssumption, QueueAssumption
<1> USE DEF vars, driverVars, queueVars, hcaVars, reqVars, callVars, workVars,
            flagVars, dataVars, faultVars, KernelSame
<1>0. ~MigrateInAlloc /\ TypeOK /\ ReqInv /\ CallInv /\ FaultInv /\ OwnerInv /\ HolderInv
      /\ ServesInv /\ DmaExclusive /\ RefInv /\ PostInv /\ AllocInv /\ FreshInv /\ ReadyInv
  BY DEF IInv, DInv, HandInv, RInv
<1>1. ASSUME NEW t \in Threads, Throttle(t), KernelSame
      PROVE  AllocInv'
  BY <1>0, <1>1 DEF Throttle, TypeOK, ThreadTypeOK, FaultTypeOK, AllocInv
<1>2. ASSUME NEW t \in Threads, Admit(t), KernelSame
      PROVE  AllocInv'
  BY <1>0, <1>2 DEF Admit, TypeOK, ThreadTypeOK, FaultTypeOK, AllocInv
<1>3. ASSUME NEW t \in Threads, CountReq(t), KernelSame
      PROVE  AllocInv'
  BY <1>0, <1>3 DEF CountReq, TypeOK, ThreadTypeOK, FaultTypeOK, AllocInv
<1>4. ASSUME NEW t \in Threads, ReqFailed(t), KernelSame
      PROVE  AllocInv'
  BY <1>0, <1>4 DEF ReqFailed, LeaveDriver, TypeOK, ThreadTypeOK, FaultTypeOK,
       AllocInv
<1>5. ASSUME NEW t \in Threads, PostSend(t), KernelSame
      PROVE  AllocInv'
  BY <1>0, <1>5 DEF PostSend, AfterPost, EnterDrain, LeaveDriver, TypeOK,
       ThreadTypeOK, FaultTypeOK, AllocInv
<1>6. ASSUME NEW t \in Threads, PostRefused(t), KernelSame
      PROVE  AllocInv'
  BY <1>0, <1>6 DEF PostRefused, LeaveDriver, TypeOK, ThreadTypeOK,
       FaultTypeOK, AllocInv
<1>7. ASSUME NEW t \in Threads, LockCq(t), KernelSame
      PROVE  AllocInv'
  BY <1>0, <1>7 DEF LockCq, TypeOK, ThreadTypeOK, FaultTypeOK, AllocInv
<1>8. ASSUME NEW t \in Threads, UnlockCq(t), KernelSame
      PROVE  AllocInv'
  BY <1>0, <1>8 DEF UnlockCq, TypeOK, ThreadTypeOK, FaultTypeOK, AllocInv
<1>9. ASSUME NEW t \in Threads, PollTargetDone(t), KernelSame
      PROVE  AllocInv'
  BY <1>0, <1>9 DEF PollTargetDone, TypeOK, ThreadTypeOK, FaultTypeOK,
       AllocInv
<1>10. ASSUME NEW t \in Threads, DrainDone(t), KernelSame
      PROVE  AllocInv'
  BY <1>0, <1>10 DEF DrainDone, LeaveDriver, TypeOK, ThreadTypeOK,
       FaultTypeOK, AllocInv
<1>11. ASSUME NEW t \in Threads, ThreadCountDown(t), KernelSame
      PROVE  AllocInv'
  BY <1>0, <1>11 DEF ThreadCountDown, CountDown, TypeOK, ThreadTypeOK,
       FaultTypeOK, AllocInv
<1>12. ASSUME NEW t \in Threads, NEW r \in Reqs, Reap(t, r), KernelSame
      PROVE  AllocInv'
  BY <1>0, <1>12 DEF Reap, TypeOK, ThreadTypeOK, FaultTypeOK, AllocInv
<1>13. ASSUME NEW c \in CPUs, NEW r \in Reqs, SoftirqReap(c, r), KernelSame
      PROVE  AllocInv'
  BY <1>0, <1>13 DEF SoftirqReap, TypeOK, ThreadTypeOK, FaultTypeOK, AllocInv
<1>14. ASSUME NEW c \in CPUs, SoftirqCountDown(c), KernelSame
      PROVE  AllocInv'
  BY <1>0, <1>14 DEF SoftirqCountDown, CountDown, TypeOK, ThreadTypeOK,
       FaultTypeOK, AllocInv
<1>15. ASSUME NEW r \in Reqs, ReadDonePage(r), KernelSame
      PROVE  AllocInv'
  BY <1>0, <1>15 DEF ReadDonePage, IsRead, TypeOK, ThreadTypeOK, FaultTypeOK,
       AllocInv
<1>16. ASSUME NEW r \in Reqs, HcaExecute(r), KernelSame
      PROVE  AllocInv'
  BY <1>0, <1>16 DEF HcaExecute, TypeOK, ThreadTypeOK, FaultTypeOK, AllocInv
<1>17. ASSUME NEW r \in Reqs, HcaFail(r), KernelSame
      PROVE  AllocInv'
  BY <1>0, <1>17 DEF HcaFail, TypeOK, ThreadTypeOK, FaultTypeOK, AllocInv
<1>18. ASSUME NEW p \in Pages, NEW v \in Vals, Touch(p, v)
      PROVE  AllocInv'
  BY <1>0, <1>18 DEF Touch, TypeOK, ThreadTypeOK, FaultTypeOK, AllocInv
<1>19. ASSUME NEW t \in Threads, NEW p \in Pages, NEW c \in CPUs, SwapOut(t, p, c)
      PROVE  AllocInv'
  BY <1>0, <1>19 DEF SwapOut, EnterPost, TypeOK, ThreadTypeOK, FaultTypeOK,
       AllocInv
<1>20. ASSUME NEW t \in Threads, StoreReturned(t)
      PROVE  AllocInv'
  BY <1>0, <1>20 DEF StoreReturned, TypeOK, ThreadTypeOK, FaultTypeOK,
       AllocInv
<1>21. ASSUME NEW p \in Pages, ReclaimCached(p)
      PROVE  AllocInv'
  BY <1>0, <1>21 DEF ReclaimCached, TypeOK, ThreadTypeOK, FaultTypeOK,
       AllocInv
<1>22. ASSUME NEW t \in Threads, NEW p \in Pages, NEW c \in CPUs, SwapIn(t, p, c)
      PROVE  AllocInv'
  BY <1>0, <1>22 DEF SwapIn, TypeOK, ThreadTypeOK, FaultTypeOK, AllocInv
<1>23. ASSUME NEW t \in Threads, NEW p \in Pages, NEW c \in CPUs, ReadAhead(t, p, c)
      PROVE  AllocInv'
  BY <1>0, <1>23 DEF ReadAhead, NewFrame, EnterPost, TypeOK, ThreadTypeOK,
       FaultTypeOK, AllocInv
<1>24. ASSUME NEW t \in Threads, AllocSleep(t)
      PROVE  AllocInv'
  BY <1>0, <1>24 DEF AllocSleep, TypeOK, ThreadTypeOK, FaultTypeOK, AllocInv
<1>25. ASSUME NEW t \in Threads, MapFault(t)
      PROVE  AllocInv'
  BY <1>0, <1>25 DEF MapFault, TypeOK, ThreadTypeOK, FaultTypeOK, AllocInv
<1>26. ASSUME NEW t \in Threads, NEW c \in CPUs, ReadFault(t, c)
      PROVE  AllocInv'
  BY <1>0, <1>26 DEF ReadFault, NewFrame, EnterPost, TypeOK, ThreadTypeOK,
       FaultTypeOK, AllocInv
<1>27. ASSUME NEW t \in Threads, NEW c \in CPUs, PollLoad(t, c)
      PROVE  AllocInv'
  BY <1>0, <1>27 DEF PollLoad, EnterDrain, TypeOK, ThreadTypeOK, FaultTypeOK,
       AllocInv
<1>28. CASE UNCHANGED vars
  BY <1>0, <1>28 DEF TypeOK, ThreadTypeOK, FaultTypeOK, AllocInv
<1> QED
  BY <1>1, <1>2, <1>3, <1>4, <1>5, <1>6, <1>7, <1>8, <1>9, <1>10, <1>11,
       <1>12, <1>13, <1>14, <1>15, <1>16, <1>17, <1>18, <1>19, <1>20, <1>21,
       <1>22, <1>23, <1>24, <1>25, <1>26, <1>27, <1>28 DEF Next, DriverStep,
       ThreadStep, ApplicationStep, ReclaimStep, FaultStep

\* page_was_allocated is set and cleared with the fault it belongs to.
LEMMA FreshStep == ASSUME ~MigrateInAlloc, IInv, DInv, HandInv, RInv, [Next]_vars PROVE FreshInv'
<1> USE ObjectAssumption, CallerAssumption, QueueAssumption
<1> USE DEF vars, driverVars, queueVars, hcaVars, reqVars, callVars, workVars,
            flagVars, dataVars, faultVars, KernelSame
<1>0. ~MigrateInAlloc /\ TypeOK /\ ReqInv /\ CallInv /\ FaultInv /\ OwnerInv /\ HolderInv
      /\ ServesInv /\ DmaExclusive /\ RefInv /\ PostInv /\ AllocInv /\ FreshInv /\ ReadyInv
  BY DEF IInv, DInv, HandInv, RInv
<1>1. ASSUME NEW t \in Threads, Throttle(t), KernelSame
      PROVE  FreshInv'
  BY <1>0, <1>1 DEF Throttle, TypeOK, ThreadTypeOK, FaultTypeOK, FreshInv,
       PostPcs, PollPcs
<1>2. ASSUME NEW t \in Threads, Admit(t), KernelSame
      PROVE  FreshInv'
  BY <1>0, <1>2 DEF Admit, TypeOK, ThreadTypeOK, FaultTypeOK, FreshInv,
       PostPcs, PollPcs
<1>3. ASSUME NEW t \in Threads, CountReq(t), KernelSame
      PROVE  FreshInv'
  BY <1>0, <1>3 DEF CountReq, TypeOK, ThreadTypeOK, FaultTypeOK, FreshInv,
       PostPcs, PollPcs
<1>4. ASSUME NEW t \in Threads, ReqFailed(t), KernelSame
      PROVE  FreshInv'
  BY <1>0, <1>4 DEF ReqFailed, LeaveDriver, TypeOK, ThreadTypeOK, FaultTypeOK,
       FreshInv, PostPcs, PollPcs
<1>5. ASSUME NEW t \in Threads, PostSend(t), KernelSame
      PROVE  FreshInv'
  BY <1>0, <1>5 DEF PostSend, AfterPost, EnterDrain, LeaveDriver, TypeOK,
       ThreadTypeOK, FaultTypeOK, FreshInv, PostPcs, PollPcs
<1>6. ASSUME NEW t \in Threads, PostRefused(t), KernelSame
      PROVE  FreshInv'
  BY <1>0, <1>6 DEF PostRefused, LeaveDriver, TypeOK, ThreadTypeOK,
       FaultTypeOK, FreshInv, PostPcs, PollPcs
<1>7. ASSUME NEW t \in Threads, LockCq(t), KernelSame
      PROVE  FreshInv'
  BY <1>0, <1>7 DEF LockCq, TypeOK, ThreadTypeOK, FaultTypeOK, FreshInv,
       PostPcs, PollPcs
<1>8. ASSUME NEW t \in Threads, UnlockCq(t), KernelSame
      PROVE  FreshInv'
  BY <1>0, <1>8 DEF UnlockCq, TypeOK, ThreadTypeOK, FaultTypeOK, FreshInv,
       PostPcs, PollPcs
<1>9. ASSUME NEW t \in Threads, PollTargetDone(t), KernelSame
      PROVE  FreshInv'
  BY <1>0, <1>9 DEF PollTargetDone, TypeOK, ThreadTypeOK, FaultTypeOK,
       FreshInv, PostPcs, PollPcs
<1>10. ASSUME NEW t \in Threads, DrainDone(t), KernelSame
      PROVE  FreshInv'
  BY <1>0, <1>10 DEF DrainDone, LeaveDriver, TypeOK, ThreadTypeOK,
       FaultTypeOK, FreshInv, PostPcs, PollPcs
<1>11. ASSUME NEW t \in Threads, ThreadCountDown(t), KernelSame
      PROVE  FreshInv'
  BY <1>0, <1>11 DEF ThreadCountDown, CountDown, TypeOK, ThreadTypeOK,
       FaultTypeOK, FreshInv, PostPcs, PollPcs
<1>12. ASSUME NEW t \in Threads, NEW r \in Reqs, Reap(t, r), KernelSame
      PROVE  FreshInv'
  BY <1>0, <1>12 DEF Reap, TypeOK, ThreadTypeOK, FaultTypeOK, FreshInv,
       PostPcs, PollPcs
<1>13. ASSUME NEW c \in CPUs, NEW r \in Reqs, SoftirqReap(c, r), KernelSame
      PROVE  FreshInv'
  BY <1>0, <1>13 DEF SoftirqReap, TypeOK, ThreadTypeOK, FaultTypeOK, FreshInv,
       PostPcs, PollPcs
<1>14. ASSUME NEW c \in CPUs, SoftirqCountDown(c), KernelSame
      PROVE  FreshInv'
  BY <1>0, <1>14 DEF SoftirqCountDown, CountDown, TypeOK, ThreadTypeOK,
       FaultTypeOK, FreshInv, PostPcs, PollPcs
<1>15. ASSUME NEW r \in Reqs, ReadDonePage(r), KernelSame
      PROVE  FreshInv'
  BY <1>0, <1>15 DEF ReadDonePage, IsRead, TypeOK, ThreadTypeOK, FaultTypeOK,
       FreshInv, PostPcs, PollPcs
<1>16. ASSUME NEW r \in Reqs, HcaExecute(r), KernelSame
      PROVE  FreshInv'
  BY <1>0, <1>16 DEF HcaExecute, TypeOK, ThreadTypeOK, FaultTypeOK, FreshInv,
       PostPcs, PollPcs
<1>17. ASSUME NEW r \in Reqs, HcaFail(r), KernelSame
      PROVE  FreshInv'
  BY <1>0, <1>17 DEF HcaFail, TypeOK, ThreadTypeOK, FaultTypeOK, FreshInv,
       PostPcs, PollPcs
<1>18. ASSUME NEW p \in Pages, NEW v \in Vals, Touch(p, v)
      PROVE  FreshInv'
  BY <1>0, <1>18 DEF Touch, TypeOK, ThreadTypeOK, FaultTypeOK, FreshInv,
       PostPcs, PollPcs
<1>19. ASSUME NEW t \in Threads, NEW p \in Pages, NEW c \in CPUs, SwapOut(t, p, c)
      PROVE  FreshInv'
  BY <1>0, <1>19 DEF SwapOut, EnterPost, sswap_rdma_get_queue, TypeOK,
       ThreadTypeOK, FaultTypeOK, FreshInv, PostPcs, PollPcs
<1>20. ASSUME NEW t \in Threads, StoreReturned(t)
      PROVE  FreshInv'
  BY <1>0, <1>20 DEF StoreReturned, TypeOK, ThreadTypeOK, FaultTypeOK,
       FreshInv, PostPcs, PollPcs
<1>21. ASSUME NEW p \in Pages, ReclaimCached(p)
      PROVE  FreshInv'
  BY <1>0, <1>21 DEF ReclaimCached, TypeOK, ThreadTypeOK, FaultTypeOK,
       FreshInv, PostPcs, PollPcs
<1>22. ASSUME NEW t \in Threads, NEW p \in Pages, NEW c \in CPUs, SwapIn(t, p, c)
      PROVE  FreshInv'
  BY <1>0, <1>22 DEF SwapIn, TypeOK, ThreadTypeOK, FaultTypeOK, FreshInv,
       PostPcs, PollPcs
<1>23. ASSUME NEW t \in Threads, NEW p \in Pages, NEW c \in CPUs, ReadAhead(t, p, c)
      PROVE  FreshInv'
  BY <1>0, <1>23 DEF ReadAhead, NewFrame, EnterPost, sswap_rdma_get_queue,
       TypeOK, ThreadTypeOK, FaultTypeOK, FreshInv, PostPcs, PollPcs
<1>24. ASSUME NEW t \in Threads, AllocSleep(t)
      PROVE  FreshInv'
  BY <1>0, <1>24 DEF AllocSleep, TypeOK, ThreadTypeOK, FaultTypeOK, FreshInv,
       PostPcs, PollPcs
<1>25. ASSUME NEW t \in Threads, MapFault(t)
      PROVE  FreshInv'
  BY <1>0, <1>25 DEF MapFault, TypeOK, ThreadTypeOK, FaultTypeOK, FreshInv,
       PostPcs, PollPcs
<1>26. ASSUME NEW t \in Threads, NEW c \in CPUs, ReadFault(t, c)
      PROVE  FreshInv'
  BY <1>0, <1>26 DEF ReadFault, NewFrame, EnterPost, sswap_rdma_get_queue,
       FaultInv, TypeOK, ThreadTypeOK, FaultTypeOK, FreshInv, PostPcs, PollPcs
<1>27. ASSUME NEW t \in Threads, NEW c \in CPUs, PollLoad(t, c)
      PROVE  FreshInv'
  BY <1>0, <1>27 DEF PollLoad, EnterDrain, sswap_rdma_get_queue, TypeOK,
       ThreadTypeOK, FaultTypeOK, FreshInv, PostPcs, PollPcs
<1>28. CASE UNCHANGED vars
  BY <1>0, <1>28 DEF TypeOK, ThreadTypeOK, FaultTypeOK, FreshInv, PostPcs,
       PollPcs
<1> QED
  BY <1>1, <1>2, <1>3, <1>4, <1>5, <1>6, <1>7, <1>8, <1>9, <1>10, <1>11,
       <1>12, <1>13, <1>14, <1>15, <1>16, <1>17, <1>18, <1>19, <1>20, <1>21,
       <1>22, <1>23, <1>24, <1>25, <1>26, <1>27, <1>28 DEF Next, DriverStep,
       ThreadStep, ApplicationStep, ReclaimStep, FaultStep

\* A page that is ready stays so while a fault references it.
LEMMA StaysReady == ASSUME IInv, DInv, HandInv, NEW p \in Pages, ~locked[p], uptodate[p],
         Referenced(p), [Next]_vars PROVE ~locked'[p] /\ uptodate'[p]
<1> USE ObjectAssumption, CallerAssumption, QueueAssumption
<1> USE DEF vars, driverVars, queueVars, hcaVars, reqVars, callVars, workVars,
            flagVars, dataVars, faultVars, KernelSame
<1>0. TypeOK /\ HolderInv /\ DmaExclusive /\ FaultInv /\ CallInv /\ OwnerInv /\ RefInv
  BY DEF IInv, DInv, HandInv
<1>1. ASSUME NEW t \in Threads, Throttle(t), KernelSame
      PROVE  ~locked'[p] /\ uptodate'[p]
  BY <1>0, <1>1 DEF Throttle, TypeOK, PageTypeOK
<1>2. ASSUME NEW t \in Threads, Admit(t), KernelSame
      PROVE  ~locked'[p] /\ uptodate'[p]
  BY <1>0, <1>2 DEF Admit, TypeOK, PageTypeOK
<1>3. ASSUME NEW t \in Threads, CountReq(t), KernelSame
      PROVE  ~locked'[p] /\ uptodate'[p]
  BY <1>0, <1>3 DEF CountReq, TypeOK, PageTypeOK
<1>4. ASSUME NEW t \in Threads, ReqFailed(t), KernelSame
      PROVE  ~locked'[p] /\ uptodate'[p]
  BY <1>0, <1>4 DEF ReqFailed, LeaveDriver, CallInv, PostPcs, TypeOK,
       PageTypeOK
<1>5. ASSUME NEW t \in Threads, PostSend(t), KernelSame
      PROVE  ~locked'[p] /\ uptodate'[p]
  BY <1>0, <1>5 DEF PostSend, AfterPost, EnterDrain, LeaveDriver, TypeOK,
       PageTypeOK
<1>6. ASSUME NEW t \in Threads, PostRefused(t), KernelSame
      PROVE  ~locked'[p] /\ uptodate'[p]
  BY <1>0, <1>6 DEF PostRefused, LeaveDriver, CallInv, PostPcs, TypeOK,
       PageTypeOK
<1>7. ASSUME NEW t \in Threads, LockCq(t), KernelSame
      PROVE  ~locked'[p] /\ uptodate'[p]
  BY <1>0, <1>7 DEF LockCq, TypeOK, PageTypeOK
<1>8. ASSUME NEW t \in Threads, UnlockCq(t), KernelSame
      PROVE  ~locked'[p] /\ uptodate'[p]
  BY <1>0, <1>8 DEF UnlockCq, TypeOK, PageTypeOK
<1>9. ASSUME NEW t \in Threads, PollTargetDone(t), KernelSame
      PROVE  ~locked'[p] /\ uptodate'[p]
  BY <1>0, <1>9 DEF PollTargetDone, TypeOK, PageTypeOK
<1>10. ASSUME NEW t \in Threads, DrainDone(t), KernelSame
      PROVE  ~locked'[p] /\ uptodate'[p]
  BY <1>0, <1>10 DEF DrainDone, LeaveDriver, TypeOK, PageTypeOK
<1>11. ASSUME NEW t \in Threads, ThreadCountDown(t), KernelSame
      PROVE  ~locked'[p] /\ uptodate'[p]
  BY <1>0, <1>11 DEF ThreadCountDown, CountDown, TypeOK, PageTypeOK
<1>12. ASSUME NEW t \in Threads, NEW r \in Reqs, Reap(t, r), KernelSame
      PROVE  ~locked'[p] /\ uptodate'[p]
  BY <1>0, <1>12 DEF Reap, TypeOK, PageTypeOK
<1>13. ASSUME NEW c \in CPUs, NEW r \in Reqs, SoftirqReap(c, r), KernelSame
      PROVE  ~locked'[p] /\ uptodate'[p]
  BY <1>0, <1>13 DEF SoftirqReap, TypeOK, PageTypeOK
<1>14. ASSUME NEW c \in CPUs, SoftirqCountDown(c), KernelSame
      PROVE  ~locked'[p] /\ uptodate'[p]
  BY <1>0, <1>14 DEF SoftirqCountDown, CountDown, TypeOK, PageTypeOK
<1>15. ASSUME NEW r \in Reqs, ReadDonePage(r), KernelSame
      PROVE  ~locked'[p] /\ uptodate'[p]
  BY <1>0, <1>15 DEF ReadDonePage, IsRead, TypeOK, PageTypeOK
<1>16. ASSUME NEW r \in Reqs, HcaExecute(r), KernelSame
      PROVE  ~locked'[p] /\ uptodate'[p]
  BY <1>0, <1>16 DEF HcaExecute, TypeOK, PageTypeOK
<1>17. ASSUME NEW r \in Reqs, HcaFail(r), KernelSame
      PROVE  ~locked'[p] /\ uptodate'[p]
  BY <1>0, <1>17 DEF HcaFail, TypeOK, PageTypeOK
<1>18. ASSUME NEW x \in Pages, NEW v \in Vals, Touch(x, v)
      PROVE  ~locked'[p] /\ uptodate'[p]
  BY <1>18 DEF Touch
<1>19. ASSUME NEW t \in Threads, NEW x \in Pages, NEW c \in CPUs, SwapOut(t, x, c)
      PROVE  ~locked'[p] /\ uptodate'[p]
  BY <1>0, <1>19 DEF SwapOut, EnterPost, TypeOK, PageTypeOK
<1>20. ASSUME NEW t \in Threads, StoreReturned(t)
      PROVE  ~locked'[p] /\ uptodate'[p]
  BY <1>0, <1>20 DEF StoreReturned, TypeOK, PageTypeOK
<1>21. ASSUME NEW x \in Pages, ReclaimCached(x)
      PROVE  ~locked'[p] /\ uptodate'[p]
  BY <1>21 DEF ReclaimCached
<1>22. ASSUME NEW t \in Threads, NEW x \in Pages, NEW c \in CPUs, SwapIn(t, x, c)
      PROVE  ~locked'[p] /\ uptodate'[p]
  BY <1>0, <1>22 DEF SwapIn, TypeOK, PageTypeOK
<1>23. ASSUME NEW t \in Threads, NEW x \in Pages, NEW c \in CPUs, ReadAhead(t, x, c)
      PROVE  ~locked'[p] /\ uptodate'[p]
  BY <1>0, <1>23 DEF ReadAhead, NewFrame, EnterPost, RefInv, Referenced,
       TypeOK, PageTypeOK
<1>24. ASSUME NEW t \in Threads, AllocSleep(t)
      PROVE  ~locked'[p] /\ uptodate'[p]
  BY <1>0, <1>24 DEF AllocSleep, TypeOK, PageTypeOK
<1>25. ASSUME NEW t \in Threads, MapFault(t)
      PROVE  ~locked'[p] /\ uptodate'[p]
  BY <1>0, <1>25 DEF MapFault, TypeOK, PageTypeOK
<1>26. ASSUME NEW t \in Threads, NEW c \in CPUs, ReadFault(t, c)
      PROVE  ~locked'[p] /\ uptodate'[p]
  BY <1>0, <1>26 DEF ReadFault, NewFrame, EnterPost, RefInv, Referenced,
       FaultInv, TypeOK, PageTypeOK
<1>27. ASSUME NEW t \in Threads, NEW c \in CPUs, PollLoad(t, c)
      PROVE  ~locked'[p] /\ uptodate'[p]
  BY <1>0, <1>27 DEF PollLoad, EnterDrain, TypeOK, PageTypeOK
<1>28. CASE UNCHANGED vars
  BY <1>0, <1>28 DEF TypeOK, PageTypeOK
<1> QED
  BY <1>1, <1>2, <1>3, <1>4, <1>5, <1>6, <1>7, <1>8, <1>9, <1>10, <1>11,
       <1>12, <1>13, <1>14, <1>15, <1>16, <1>17, <1>18, <1>19, <1>20, <1>21,
       <1>22, <1>23, <1>24, <1>25, <1>26, <1>27, <1>28 DEF Next, DriverStep,
       ThreadStep, ApplicationStep, ReclaimStep, FaultStep

\* A read in flight stays so until its handler has made the page ready.
LEMMA FlightKept ==
  ASSUME IInv, NEW s \in Reqs, rstate[s] \in FlightStates, IsRead(s), [Next]_vars
  PROVE  rq'[s] = rq[s] /\ rpage'[s] = rpage[s]
      /\ (rstate'[s] \in FlightStates \/ (~locked'[rpage[s]] /\ uptodate'[rpage[s]]))
<1> USE ObjectAssumption, CallerAssumption, QueueAssumption
<1> USE DEF vars, driverVars, queueVars, hcaVars, reqVars, callVars, workVars,
            flagVars, dataVars, faultVars, KernelSame
<1>0. TypeOK /\ ReqInv /\ OwnerInv /\ CallInv
  BY DEF IInv
<1>1. ASSUME NEW t \in Threads, Throttle(t), KernelSame
      PROVE  rq'[s] = rq[s] /\ rpage'[s] = rpage[s]
      /\ (rstate'[s] \in FlightStates \/ (~locked'[rpage[s]] /\ uptodate'[rpage[s]]))
  BY <1>0, <1>1 DEF Throttle, TypeOK, RequestTypeOK, PageTypeOK, FlightStates
<1>2. ASSUME NEW t \in Threads, Admit(t), KernelSame
      PROVE  rq'[s] = rq[s] /\ rpage'[s] = rpage[s]
      /\ (rstate'[s] \in FlightStates \/ (~locked'[rpage[s]] /\ uptodate'[rpage[s]]))
  BY <1>0, <1>2 DEF Admit, TypeOK, RequestTypeOK, PageTypeOK, FlightStates
<1>3. ASSUME NEW t \in Threads, CountReq(t), KernelSame
      PROVE  rq'[s] = rq[s] /\ rpage'[s] = rpage[s]
      /\ (rstate'[s] \in FlightStates \/ (~locked'[rpage[s]] /\ uptodate'[rpage[s]]))
  BY <1>0, <1>3 DEF CountReq, TypeOK, RequestTypeOK, PageTypeOK, FlightStates
<1>4. ASSUME NEW t \in Threads, ReqFailed(t), KernelSame
      PROVE  rq'[s] = rq[s] /\ rpage'[s] = rpage[s]
      /\ (rstate'[s] \in FlightStates \/ (~locked'[rpage[s]] /\ uptodate'[rpage[s]]))
  BY <1>0, <1>4 DEF ReqFailed, LeaveDriver, TypeOK, RequestTypeOK, PageTypeOK,
       FlightStates
<1>5. ASSUME NEW t \in Threads, PostSend(t), KernelSame
      PROVE  rq'[s] = rq[s] /\ rpage'[s] = rpage[s]
      /\ (rstate'[s] \in FlightStates \/ (~locked'[rpage[s]] /\ uptodate'[rpage[s]]))
  BY <1>0, <1>5 DEF PostSend, AfterPost, EnterDrain, LeaveDriver, OwnerInv,
       TypeOK, RequestTypeOK, PageTypeOK, FlightStates
<1>6. ASSUME NEW t \in Threads, PostRefused(t), KernelSame
      PROVE  rq'[s] = rq[s] /\ rpage'[s] = rpage[s]
      /\ (rstate'[s] \in FlightStates \/ (~locked'[rpage[s]] /\ uptodate'[rpage[s]]))
  BY <1>0, <1>6 DEF PostRefused, LeaveDriver, OwnerInv, TypeOK, RequestTypeOK,
       PageTypeOK, FlightStates
<1>7. ASSUME NEW t \in Threads, LockCq(t), KernelSame
      PROVE  rq'[s] = rq[s] /\ rpage'[s] = rpage[s]
      /\ (rstate'[s] \in FlightStates \/ (~locked'[rpage[s]] /\ uptodate'[rpage[s]]))
  BY <1>0, <1>7 DEF LockCq, TypeOK, RequestTypeOK, PageTypeOK, FlightStates
<1>8. ASSUME NEW t \in Threads, UnlockCq(t), KernelSame
      PROVE  rq'[s] = rq[s] /\ rpage'[s] = rpage[s]
      /\ (rstate'[s] \in FlightStates \/ (~locked'[rpage[s]] /\ uptodate'[rpage[s]]))
  BY <1>0, <1>8 DEF UnlockCq, TypeOK, RequestTypeOK, PageTypeOK, FlightStates
<1>9. ASSUME NEW t \in Threads, PollTargetDone(t), KernelSame
      PROVE  rq'[s] = rq[s] /\ rpage'[s] = rpage[s]
      /\ (rstate'[s] \in FlightStates \/ (~locked'[rpage[s]] /\ uptodate'[rpage[s]]))
  BY <1>0, <1>9 DEF PollTargetDone, TypeOK, RequestTypeOK, PageTypeOK,
       FlightStates
<1>10. ASSUME NEW t \in Threads, DrainDone(t), KernelSame
      PROVE  rq'[s] = rq[s] /\ rpage'[s] = rpage[s]
      /\ (rstate'[s] \in FlightStates \/ (~locked'[rpage[s]] /\ uptodate'[rpage[s]]))
  BY <1>0, <1>10 DEF DrainDone, LeaveDriver, TypeOK, RequestTypeOK,
       PageTypeOK, FlightStates
<1>11. ASSUME NEW t \in Threads, ThreadCountDown(t), KernelSame
      PROVE  rq'[s] = rq[s] /\ rpage'[s] = rpage[s]
      /\ (rstate'[s] \in FlightStates \/ (~locked'[rpage[s]] /\ uptodate'[rpage[s]]))
  BY <1>0, <1>11 DEF ThreadCountDown, CountDown, OwnerInv, OwnedDone,
       ReadyToCount, IsRead, TypeOK, RequestTypeOK, PageTypeOK, FlightStates
<1>12. ASSUME NEW t \in Threads, NEW r \in Reqs, Reap(t, r), KernelSame
      PROVE  rq'[s] = rq[s] /\ rpage'[s] = rpage[s]
      /\ (rstate'[s] \in FlightStates \/ (~locked'[rpage[s]] /\ uptodate'[rpage[s]]))
  BY <1>0, <1>12 DEF Reap, TypeOK, RequestTypeOK, PageTypeOK, FlightStates
<1>13. ASSUME NEW c \in CPUs, NEW r \in Reqs, SoftirqReap(c, r), KernelSame
      PROVE  rq'[s] = rq[s] /\ rpage'[s] = rpage[s]
      /\ (rstate'[s] \in FlightStates \/ (~locked'[rpage[s]] /\ uptodate'[rpage[s]]))
  BY <1>0, <1>13 DEF SoftirqReap, TypeOK, RequestTypeOK, PageTypeOK,
       FlightStates
<1>14. ASSUME NEW c \in CPUs, SoftirqCountDown(c), KernelSame
      PROVE  rq'[s] = rq[s] /\ rpage'[s] = rpage[s]
      /\ (rstate'[s] \in FlightStates \/ (~locked'[rpage[s]] /\ uptodate'[rpage[s]]))
  BY <1>0, <1>14 DEF SoftirqCountDown, CountDown, OwnerInv, OwnedDone,
       ReadyToCount, IsRead, TypeOK, RequestTypeOK, PageTypeOK, FlightStates
<1>15. ASSUME NEW r \in Reqs, ReadDonePage(r), KernelSame
      PROVE  rq'[s] = rq[s] /\ rpage'[s] = rpage[s]
      /\ (rstate'[s] \in FlightStates \/ (~locked'[rpage[s]] /\ uptodate'[rpage[s]]))
  BY <1>0, <1>15 DEF ReadDonePage, IsRead, ReqInv, TypeOK, RequestTypeOK,
       PageTypeOK, FlightStates
<1>16. ASSUME NEW r \in Reqs, HcaExecute(r), KernelSame
      PROVE  rq'[s] = rq[s] /\ rpage'[s] = rpage[s]
      /\ (rstate'[s] \in FlightStates \/ (~locked'[rpage[s]] /\ uptodate'[rpage[s]]))
  BY <1>0, <1>16 DEF HcaExecute, TypeOK, RequestTypeOK, PageTypeOK,
       FlightStates
<1>17. ASSUME NEW r \in Reqs, HcaFail(r), KernelSame
      PROVE  rq'[s] = rq[s] /\ rpage'[s] = rpage[s]
      /\ (rstate'[s] \in FlightStates \/ (~locked'[rpage[s]] /\ uptodate'[rpage[s]]))
  BY <1>0, <1>17 DEF HcaFail, TypeOK, RequestTypeOK, PageTypeOK, FlightStates
<1>18. ASSUME NEW p \in Pages, NEW v \in Vals, Touch(p, v)
      PROVE  rq'[s] = rq[s] /\ rpage'[s] = rpage[s]
      /\ (rstate'[s] \in FlightStates \/ (~locked'[rpage[s]] /\ uptodate'[rpage[s]]))
  BY <1>0, <1>18 DEF Touch, TypeOK, RequestTypeOK, PageTypeOK, FlightStates
<1>19. ASSUME NEW t \in Threads, NEW p \in Pages, NEW c \in CPUs, SwapOut(t, p, c)
      PROVE  rq'[s] = rq[s] /\ rpage'[s] = rpage[s]
      /\ (rstate'[s] \in FlightStates \/ (~locked'[rpage[s]] /\ uptodate'[rpage[s]]))
  BY <1>0, <1>19 DEF SwapOut, EnterPost, TypeOK, RequestTypeOK, PageTypeOK,
       FlightStates
<1>20. ASSUME NEW t \in Threads, StoreReturned(t)
      PROVE  rq'[s] = rq[s] /\ rpage'[s] = rpage[s]
      /\ (rstate'[s] \in FlightStates \/ (~locked'[rpage[s]] /\ uptodate'[rpage[s]]))
  BY <1>0, <1>20 DEF StoreReturned, TypeOK, RequestTypeOK, PageTypeOK,
       FlightStates
<1>21. ASSUME NEW p \in Pages, ReclaimCached(p)
      PROVE  rq'[s] = rq[s] /\ rpage'[s] = rpage[s]
      /\ (rstate'[s] \in FlightStates \/ (~locked'[rpage[s]] /\ uptodate'[rpage[s]]))
  BY <1>0, <1>21 DEF ReclaimCached, TypeOK, RequestTypeOK, PageTypeOK,
       FlightStates
<1>22. ASSUME NEW t \in Threads, NEW p \in Pages, NEW c \in CPUs, SwapIn(t, p, c)
      PROVE  rq'[s] = rq[s] /\ rpage'[s] = rpage[s]
      /\ (rstate'[s] \in FlightStates \/ (~locked'[rpage[s]] /\ uptodate'[rpage[s]]))
  BY <1>0, <1>22 DEF SwapIn, TypeOK, RequestTypeOK, PageTypeOK, FlightStates
<1>23. ASSUME NEW t \in Threads, NEW p \in Pages, NEW c \in CPUs, ReadAhead(t, p, c)
      PROVE  rq'[s] = rq[s] /\ rpage'[s] = rpage[s]
      /\ (rstate'[s] \in FlightStates \/ (~locked'[rpage[s]] /\ uptodate'[rpage[s]]))
  BY <1>0, <1>23 DEF ReadAhead, NewFrame, EnterPost, TypeOK, RequestTypeOK,
       PageTypeOK, FlightStates
<1>24. ASSUME NEW t \in Threads, AllocSleep(t)
      PROVE  rq'[s] = rq[s] /\ rpage'[s] = rpage[s]
      /\ (rstate'[s] \in FlightStates \/ (~locked'[rpage[s]] /\ uptodate'[rpage[s]]))
  BY <1>0, <1>24 DEF AllocSleep, TypeOK, RequestTypeOK, PageTypeOK,
       FlightStates
<1>25. ASSUME NEW t \in Threads, MapFault(t)
      PROVE  rq'[s] = rq[s] /\ rpage'[s] = rpage[s]
      /\ (rstate'[s] \in FlightStates \/ (~locked'[rpage[s]] /\ uptodate'[rpage[s]]))
  BY <1>0, <1>25 DEF MapFault, TypeOK, RequestTypeOK, PageTypeOK, FlightStates
<1>26. ASSUME NEW t \in Threads, NEW c \in CPUs, ReadFault(t, c)
      PROVE  rq'[s] = rq[s] /\ rpage'[s] = rpage[s]
      /\ (rstate'[s] \in FlightStates \/ (~locked'[rpage[s]] /\ uptodate'[rpage[s]]))
  BY <1>0, <1>26 DEF ReadFault, NewFrame, EnterPost, TypeOK, RequestTypeOK,
       PageTypeOK, FlightStates
<1>27. ASSUME NEW t \in Threads, NEW c \in CPUs, PollLoad(t, c)
      PROVE  rq'[s] = rq[s] /\ rpage'[s] = rpage[s]
      /\ (rstate'[s] \in FlightStates \/ (~locked'[rpage[s]] /\ uptodate'[rpage[s]]))
  BY <1>0, <1>27 DEF PollLoad, EnterDrain, TypeOK, RequestTypeOK, PageTypeOK,
       FlightStates
<1>28. CASE UNCHANGED vars
  BY <1>0, <1>28 DEF TypeOK, RequestTypeOK, PageTypeOK, FlightStates
<1> QED
  BY <1>1, <1>2, <1>3, <1>4, <1>5, <1>6, <1>7, <1>8, <1>9, <1>10, <1>11,
       <1>12, <1>13, <1>14, <1>15, <1>16, <1>17, <1>18, <1>19, <1>20, <1>21,
       <1>22, <1>23, <1>24, <1>25, <1>26, <1>27, <1>28 DEF Next, DriverStep,
       ThreadStep, ApplicationStep, ReclaimStep, FaultStep

\* A fault that brought its page in loses sight of it in no step.
LEMMA ReadyStep ==
  ASSUME ~MigrateInAlloc, IInv, DInv, HandInv, RInv, [Next]_vars PROVE ReadyInv'
<1> USE ObjectAssumption, CallerAssumption, QueueAssumption
<1> USE DEF vars, driverVars, queueVars, hcaVars, reqVars, callVars, workVars,
            flagVars, dataVars, faultVars, KernelSame
<1>0. ~MigrateInAlloc /\ TypeOK /\ ReqInv /\ CallInv /\ FaultInv /\ OwnerInv /\ HolderInv
      /\ ServesInv /\ DmaExclusive /\ RefInv /\ PostInv /\ AllocInv /\ FreshInv /\ ReadyInv
  BY DEF IInv, DInv, HandInv, RInv
<1> SUFFICES ASSUME NEW u \in Threads, fresh'[u], pc'[u] # "dead"
             PROVE  (PageReady(fpage[u]) \/ Posting(u) \/ InFlight(u))'
  BY DEF ReadyInv
<1> DEFINE Same(t) == /\ pc'[t] = pc[t] /\ dq'[t] = dq[t] /\ dpage'[t] = dpage[t]
                      /\ loop'[t] = loop[t] /\ fpage'[t] = fpage[t]
                      /\ fcpu'[t] = fcpu[t] /\ fresh'[t] = fresh[t]
           Goal == (PageReady(fpage[u]) \/ Posting(u) \/ InFlight(u))'
           Before == PageReady(fpage[u]) \/ Posting(u) \/ InFlight(u)
           Kept == fresh[u] /\ pc[u] # "dead" /\ fpage'[u] = fpage[u] /\ fcpu'[u] = fcpu[u]
\* What an unfinished fault carries over whichever step is taken.
<1>1. ASSUME Kept, PageReady(fpage[u])
      PROVE  PageReady(fpage[u])'
  <2>1. PICK p \in Pages : p = fpage[u]
    BY <1>0, <1>1 DEF FreshInv
  <2>2. ~locked[p] /\ uptodate[p] /\ Referenced(p)
    BY <1>0, <1>1, <2>1 DEF PageReady, Referenced, FreshInv
  <2>3. ~locked'[p] /\ uptodate'[p]
    BY <2>2, StaysReady
  <2> QED
    BY <1>1, <2>1, <2>3 DEF PageReady
<1>2. ASSUME Kept, InFlight(u),
             pc'[u] # "lockpage",
             pc'[u] \in PollPcs /\ loop'[u] = "drain" => dq'[u] = <<fcpu[u], "READ_SYNC">>
      PROVE  Goal
  <2>1. PICK s \in Reqs : /\ rstate[s] \in FlightStates
                          /\ rpage[s] = fpage[u] /\ rq[s] = <<fcpu[u], "READ_SYNC">>
    BY <1>2 DEF InFlight
  <2>2. IsRead(s)
    BY <2>1 DEF IsRead
  <2>3. /\ rq'[s] = rq[s] /\ rpage'[s] = rpage[s]
        /\ rstate'[s] \in FlightStates \/ (~locked'[rpage[s]] /\ uptodate'[rpage[s]])
    BY <2>1, <2>2, FlightKept
  <2>4. CASE rstate'[s] \in FlightStates
    BY <1>2, <2>1, <2>3, <2>4 DEF InFlight
  <2>5. CASE ~locked'[rpage[s]] /\ uptodate'[rpage[s]]
    BY <1>2, <2>1, <2>5 DEF PageReady
  <2> QED
    BY <2>3, <2>4, <2>5
<1>3. ASSUME Same(u) PROVE Goal
  <2>1. Kept /\ Before
    BY <1>0, <1>3 DEF ReadyInv
  <2>2. CASE Posting(u)
    BY <1>3, <2>2 DEF Posting
  <2>3. CASE InFlight(u)
    <3>1. /\ pc'[u] # "lockpage"
          /\ pc'[u] \in PollPcs /\ loop'[u] = "drain" => dq'[u] = <<fcpu[u], "READ_SYNC">>
      BY <1>3, <2>3 DEF InFlight
    <3> QED
      BY <1>2, <2>1, <2>3, <3>1
  <2> QED
    BY <1>1, <2>1, <2>2, <2>3
\* A step of thread u inside a call that it stays in, or returns from without
\* its page: Posting carries over, or cannot have been.
<1>4. ASSUME Kept, Posting(u) => Goal, pc'[u] # "lockpage",
             pc'[u] \in PollPcs /\ loop'[u] = "drain" => dq'[u] = <<fcpu[u], "READ_SYNC">>
      PROVE  Goal
  BY <1>0, <1>1, <1>2, <1>4 DEF ReadyInv
<1>5. ASSUME NEW t \in Threads, Throttle(t), KernelSame PROVE Goal
  <2>1. CASE t # u
    BY <1>0, <1>3, <1>5, <2>1 DEF Throttle, TypeOK, ThreadTypeOK, FaultTypeOK
  <2>2. CASE t = u
    <3>1. Kept
      BY <1>0, <1>5, <2>2 DEF Throttle, TypeOK, ThreadTypeOK, FaultTypeOK
    <3>2. pc[u] \in PostPcs \cup PollPcs /\ pc'[u] \in PostPcs \cup PollPcs /\ dq'[u] = dq[u]
          /\ dpage'[u] = dpage[u]
      BY <1>0, <1>5, <2>2 DEF Throttle, TypeOK, ThreadTypeOK, PostPcs, PollPcs
    <3>3. Posting(u) => Goal
      BY <3>1, <3>2 DEF Posting
    <3>4. pc'[u] \in PollPcs /\ loop'[u] = "drain" => pc[u] \in PollPcs /\ loop[u] = "drain"
      BY <1>0, <1>5, <2>2 DEF Throttle, TypeOK, ThreadTypeOK, PostPcs, PollPcs
    <3>5. InFlight(u)
            => (pc'[u] \in PollPcs /\ loop'[u] = "drain" => dq'[u] = <<fcpu[u], "READ_SYNC">>)
      BY <3>2, <3>4 DEF InFlight
    <3>6. pc'[u] # "lockpage"
      BY <3>2 DEF PostPcs, PollPcs
    <3> QED
      BY <1>0, <1>1, <1>2, <3>1, <3>3, <3>5, <3>6 DEF ReadyInv
  <2> QED
    BY <2>1, <2>2
<1>6. ASSUME NEW t \in Threads, Admit(t), KernelSame PROVE Goal
  <2>1. CASE t # u
    BY <1>0, <1>3, <1>6, <2>1 DEF Admit, TypeOK, ThreadTypeOK, FaultTypeOK
  <2>2. CASE t = u
    <3>1. Kept
      BY <1>0, <1>6, <2>2 DEF Admit, TypeOK, ThreadTypeOK, FaultTypeOK
    <3>2. pc[u] \in PostPcs \cup PollPcs /\ pc'[u] \in PostPcs \cup PollPcs /\ dq'[u] = dq[u]
          /\ dpage'[u] = dpage[u]
      BY <1>0, <1>6, <2>2 DEF Admit, TypeOK, ThreadTypeOK, PostPcs, PollPcs
    <3>3. Posting(u) => Goal
      BY <3>1, <3>2 DEF Posting
    <3>4. pc'[u] \in PollPcs /\ loop'[u] = "drain" => pc[u] \in PollPcs /\ loop[u] = "drain"
      BY <1>0, <1>6, <2>2 DEF Admit, TypeOK, ThreadTypeOK, PostPcs, PollPcs
    <3>5. InFlight(u)
            => (pc'[u] \in PollPcs /\ loop'[u] = "drain" => dq'[u] = <<fcpu[u], "READ_SYNC">>)
      BY <3>2, <3>4 DEF InFlight
    <3>6. pc'[u] # "lockpage"
      BY <3>2 DEF PostPcs, PollPcs
    <3> QED
      BY <1>0, <1>1, <1>2, <3>1, <3>3, <3>5, <3>6 DEF ReadyInv
  <2> QED
    BY <2>1, <2>2
<1>7. ASSUME NEW t \in Threads, CountReq(t), KernelSame PROVE Goal
  <2>1. CASE t # u
    BY <1>0, <1>3, <1>7, <2>1 DEF CountReq, TypeOK, ThreadTypeOK, FaultTypeOK
  <2>2. CASE t = u
    <3>1. Kept
      BY <1>0, <1>7, <2>2 DEF CountReq, TypeOK, ThreadTypeOK, FaultTypeOK
    <3>2. pc[u] \in PostPcs \cup PollPcs /\ pc'[u] \in PostPcs \cup PollPcs /\ dq'[u] = dq[u]
          /\ dpage'[u] = dpage[u]
      BY <1>0, <1>7, <2>2 DEF CountReq, TypeOK, ThreadTypeOK, PostPcs, PollPcs
    <3>3. Posting(u) => Goal
      BY <3>1, <3>2 DEF Posting
    <3>4. pc'[u] \in PollPcs /\ loop'[u] = "drain" => pc[u] \in PollPcs /\ loop[u] = "drain"
      BY <1>0, <1>7, <2>2 DEF CountReq, TypeOK, ThreadTypeOK, PostPcs, PollPcs
    <3>5. InFlight(u)
            => (pc'[u] \in PollPcs /\ loop'[u] = "drain" => dq'[u] = <<fcpu[u], "READ_SYNC">>)
      BY <3>2, <3>4 DEF InFlight
    <3>6. pc'[u] # "lockpage"
      BY <3>2 DEF PostPcs, PollPcs
    <3> QED
      BY <1>0, <1>1, <1>2, <3>1, <3>3, <3>5, <3>6 DEF ReadyInv
  <2> QED
    BY <2>1, <2>2
<1>8. ASSUME NEW t \in Threads, LockCq(t), KernelSame PROVE Goal
  <2>1. CASE t # u
    BY <1>0, <1>3, <1>8, <2>1 DEF LockCq, TypeOK, ThreadTypeOK, FaultTypeOK
  <2>2. CASE t = u
    <3>1. Kept
      BY <1>0, <1>8, <2>2 DEF LockCq, TypeOK, ThreadTypeOK, FaultTypeOK
    <3>2. pc[u] \in PostPcs \cup PollPcs /\ pc'[u] \in PostPcs \cup PollPcs /\ dq'[u] = dq[u]
          /\ dpage'[u] = dpage[u]
      BY <1>0, <1>8, <2>2 DEF LockCq, TypeOK, ThreadTypeOK, PostPcs, PollPcs
    <3>3. Posting(u) => Goal
      BY <3>1, <3>2 DEF Posting
    <3>4. pc'[u] \in PollPcs /\ loop'[u] = "drain" => pc[u] \in PollPcs /\ loop[u] = "drain"
      BY <1>0, <1>8, <2>2 DEF LockCq, TypeOK, ThreadTypeOK, PostPcs, PollPcs
    <3>5. InFlight(u)
            => (pc'[u] \in PollPcs /\ loop'[u] = "drain" => dq'[u] = <<fcpu[u], "READ_SYNC">>)
      BY <3>2, <3>4 DEF InFlight
    <3>6. pc'[u] # "lockpage"
      BY <3>2 DEF PostPcs, PollPcs
    <3> QED
      BY <1>0, <1>1, <1>2, <3>1, <3>3, <3>5, <3>6 DEF ReadyInv
  <2> QED
    BY <2>1, <2>2
<1>9. ASSUME NEW t \in Threads, UnlockCq(t), KernelSame PROVE Goal
  <2>1. CASE t # u
    BY <1>0, <1>3, <1>9, <2>1 DEF UnlockCq, TypeOK, ThreadTypeOK, FaultTypeOK
  <2>2. CASE t = u
    <3>1. Kept
      BY <1>0, <1>9, <2>2 DEF UnlockCq, TypeOK, ThreadTypeOK, FaultTypeOK
    <3>2. pc[u] \in PostPcs \cup PollPcs /\ pc'[u] \in PostPcs \cup PollPcs /\ dq'[u] = dq[u]
          /\ dpage'[u] = dpage[u]
      BY <1>0, <1>9, <2>2 DEF UnlockCq, TypeOK, ThreadTypeOK, PostPcs, PollPcs
    <3>3. Posting(u) => Goal
      BY <3>1, <3>2 DEF Posting
    <3>4. pc'[u] \in PollPcs /\ loop'[u] = "drain" => pc[u] \in PollPcs /\ loop[u] = "drain"
      BY <1>0, <1>9, <2>2 DEF UnlockCq, TypeOK, ThreadTypeOK, PostPcs, PollPcs
    <3>5. InFlight(u)
            => (pc'[u] \in PollPcs /\ loop'[u] = "drain" => dq'[u] = <<fcpu[u], "READ_SYNC">>)
      BY <3>2, <3>4 DEF InFlight
    <3>6. pc'[u] # "lockpage"
      BY <3>2 DEF PostPcs, PollPcs
    <3> QED
      BY <1>0, <1>1, <1>2, <3>1, <3>3, <3>5, <3>6 DEF ReadyInv
  <2> QED
    BY <2>1, <2>2
<1>10. ASSUME NEW t \in Threads, PollTargetDone(t), KernelSame PROVE Goal
  <2>1. CASE t # u
    BY <1>0, <1>3, <1>10, <2>1 DEF PollTargetDone, TypeOK, ThreadTypeOK, FaultTypeOK
  <2>2. CASE t = u
    <3>1. Kept
      BY <1>0, <1>10, <2>2 DEF PollTargetDone, TypeOK, ThreadTypeOK, FaultTypeOK
    <3>2. pc[u] \in PostPcs \cup PollPcs /\ pc'[u] \in PostPcs \cup PollPcs /\ dq'[u] = dq[u]
          /\ dpage'[u] = dpage[u]
      BY <1>0, <1>10, <2>2 DEF PollTargetDone, TypeOK, ThreadTypeOK, PostPcs,
           PollPcs
    <3>3. Posting(u) => Goal
      BY <3>1, <3>2 DEF Posting
    <3>4. pc'[u] \in PollPcs /\ loop'[u] = "drain" => pc[u] \in PollPcs /\ loop[u] = "drain"
      BY <1>0, <1>10, <2>2 DEF PollTargetDone, TypeOK, ThreadTypeOK, PostPcs,
           PollPcs
    <3>5. InFlight(u)
            => (pc'[u] \in PollPcs /\ loop'[u] = "drain" => dq'[u] = <<fcpu[u], "READ_SYNC">>)
      BY <3>2, <3>4 DEF InFlight
    <3>6. pc'[u] # "lockpage"
      BY <3>2 DEF PostPcs, PollPcs
    <3> QED
      BY <1>0, <1>1, <1>2, <3>1, <3>3, <3>5, <3>6 DEF ReadyInv
  <2> QED
    BY <2>1, <2>2
<1>11. ASSUME NEW t \in Threads, ThreadCountDown(t), KernelSame PROVE Goal
  <2>1. CASE t # u
    BY <1>0, <1>3, <1>11, <2>1 DEF ThreadCountDown, TypeOK, ThreadTypeOK,
         FaultTypeOK
  <2>2. CASE t = u
    <3>1. Kept
      BY <1>0, <1>11, <2>2 DEF ThreadCountDown, TypeOK, ThreadTypeOK, FaultTypeOK
    <3>2. pc[u] \in PostPcs \cup PollPcs /\ pc'[u] \in PostPcs \cup PollPcs /\ dq'[u] = dq[u]
          /\ dpage'[u] = dpage[u]
      BY <1>0, <1>11, <2>2 DEF ThreadCountDown, TypeOK, ThreadTypeOK, PostPcs,
           PollPcs
    <3>3. Posting(u) => Goal
      BY <3>1, <3>2 DEF Posting
    <3>4. pc'[u] \in PollPcs /\ loop'[u] = "drain" => pc[u] \in PollPcs /\ loop[u] = "drain"
      BY <1>0, <1>11, <2>2 DEF ThreadCountDown, TypeOK, ThreadTypeOK, PostPcs,
           PollPcs
    <3>5. InFlight(u)
            => (pc'[u] \in PollPcs /\ loop'[u] = "drain" => dq'[u] = <<fcpu[u], "READ_SYNC">>)
      BY <3>2, <3>4 DEF InFlight
    <3>6. pc'[u] # "lockpage"
      BY <3>2 DEF PostPcs, PollPcs
    <3> QED
      BY <1>0, <1>1, <1>2, <3>1, <3>3, <3>5, <3>6 DEF ReadyInv
  <2> QED
    BY <2>1, <2>2
<1>12. ASSUME NEW t \in Threads, NEW r \in Reqs, Reap(t, r), KernelSame PROVE Goal
  <2>1. CASE t # u
    BY <1>0, <1>3, <1>12, <2>1 DEF Reap, TypeOK, ThreadTypeOK, FaultTypeOK
  <2>2. CASE t = u
    <3>1. Kept
      BY <1>0, <1>12, <2>2 DEF Reap, TypeOK, ThreadTypeOK, FaultTypeOK
    <3>2. pc[u] \in PostPcs \cup PollPcs /\ pc'[u] \in PostPcs \cup PollPcs /\ dq'[u] = dq[u]
          /\ dpage'[u] = dpage[u]
      BY <1>0, <1>12, <2>2 DEF Reap, TypeOK, ThreadTypeOK, PostPcs, PollPcs
    <3>3. Posting(u) => Goal
      BY <3>1, <3>2 DEF Posting
    <3>4. pc'[u] \in PollPcs /\ loop'[u] = "drain" => pc[u] \in PollPcs /\ loop[u] = "drain"
      BY <1>0, <1>12, <2>2 DEF Reap, TypeOK, ThreadTypeOK, PostPcs, PollPcs
    <3>5. InFlight(u)
            => (pc'[u] \in PollPcs /\ loop'[u] = "drain" => dq'[u] = <<fcpu[u], "READ_SYNC">>)
      BY <3>2, <3>4 DEF InFlight
    <3>6. pc'[u] # "lockpage"
      BY <3>2 DEF PostPcs, PollPcs
    <3> QED
      BY <1>0, <1>1, <1>2, <3>1, <3>3, <3>5, <3>6 DEF ReadyInv
  <2> QED
    BY <2>1, <2>2
<1>13. ASSUME NEW t \in Threads, ReqFailed(t), KernelSame PROVE Goal
  <2>1. CASE t # u
    BY <1>0, <1>3, <1>13, <2>1 DEF ReqFailed, LeaveDriver, TypeOK, ThreadTypeOK,
         FaultTypeOK
  <2>2. CASE t = u
    <3>1. Kept
      BY <1>0, <1>13, <2>2 DEF ReqFailed, TypeOK, ThreadTypeOK, FaultTypeOK
    <3>2. pc'[u] = "readahead" /\ dq[u][2] = "READ_ASYNC"
      BY <1>0, <1>13, <2>2 DEF ReqFailed, LeaveDriver, TypeOK, ThreadTypeOK
    <3>3. ~Posting(u)
      BY <3>2 DEF Posting
    <3> QED
      BY <1>4, <3>1, <3>2, <3>3 DEF PollPcs
  <2> QED
    BY <2>1, <2>2
<1>14. ASSUME NEW t \in Threads, PostRefused(t), KernelSame PROVE Goal
  <2>1. CASE t # u
    BY <1>0, <1>3, <1>14, <2>1 DEF PostRefused, LeaveDriver, TypeOK, ThreadTypeOK,
         FaultTypeOK
  <2>2. CASE t = u
    <3>1. Kept
      BY <1>0, <1>14, <2>2 DEF PostRefused, TypeOK, ThreadTypeOK, FaultTypeOK
    <3>2. pc'[u] = "readahead" /\ dq[u][2] = "READ_ASYNC"
      BY <1>0, <1>14, <2>2 DEF PostRefused, LeaveDriver, TypeOK, ThreadTypeOK
    <3>3. ~Posting(u)
      BY <3>2 DEF Posting
    <3> QED
      BY <1>4, <3>1, <3>2, <3>3 DEF PollPcs
  <2> QED
    BY <2>1, <2>2
<1>15. ASSUME NEW t \in Threads, PostSend(t), KernelSame PROVE Goal
  <2>1. CASE t # u
    BY <1>0, <1>3, <1>15, <2>1 DEF PostSend, AfterPost, EnterDrain, LeaveDriver,
         TypeOK, ThreadTypeOK, FaultTypeOK
  <2>2. CASE t = u
    <3>1. Kept
      BY <1>0, <1>15, <2>2 DEF PostSend, TypeOK, ThreadTypeOK, FaultTypeOK
    <3>2. dq[u][2] # "WRITE_SYNC"
      BY <1>0, <1>15, <2>2, <3>1 DEF PostSend, FreshInv, PostPcs
    <3>3. pc'[u] = "readahead"
      BY <1>0, <1>15, <2>2, <3>2 DEF PostSend, AfterPost, LeaveDriver, TypeOK,
           ThreadTypeOK
    <3>4. dreq[u] \in Reqs /\ rpage[dreq[u]] = dpage[u] /\ rq[dreq[u]] = dq[u]
      BY <1>0, <1>15, <2>2 DEF PostSend, OwnerInv, PostInv
    <3>5. rstate'[dreq[u]] = "posted" /\ UNCHANGED <<rpage, rq>>
      BY <1>0, <1>15, <2>2, <3>4 DEF PostSend, TypeOK, RequestTypeOK
    <3>6. Posting(u) => Goal
      <4>1. PICK s \in Reqs : s = dreq[u]
        BY <3>4
      <4> QED
        BY <3>1, <3>3, <3>4, <3>5, <4>1 DEF Posting, InFlight, FlightStates, PollPcs
    <3> QED
      BY <1>4, <3>1, <3>3, <3>6 DEF PollPcs
  <2> QED
    BY <2>1, <2>2
<1>16. ASSUME NEW t \in Threads, DrainDone(t), KernelSame PROVE Goal
  <2>1. CASE t # u
    BY <1>0, <1>3, <1>16, <2>1 DEF DrainDone, LeaveDriver, TypeOK, ThreadTypeOK,
         FaultTypeOK
  <2>2. CASE t = u
    <3>1. Kept
      BY <1>0, <1>16, <2>2 DEF DrainDone, TypeOK, ThreadTypeOK, FaultTypeOK
    <3>2. dq[u] \in Queues /\ pc[u] = "spin" /\ loop[u] = "drain" /\ ~(pending[dq[u]] > 0)
      BY <1>0, <1>16, <2>2 DEF DrainDone, KeepPolling, CallInv, PollPcs
    <3>3. dq[u][2] # "WRITE_SYNC"
      BY <1>0, <3>1, <3>2 DEF FreshInv, PollPcs
    <3>4. ~Posting(u)
      BY <1>0, <3>1, <3>2, <3>3 DEF Posting, FreshInv, HolderInv, PostPcs
    <3>5. ~InFlight(u)
      BY <1>0, <3>2, Drained DEF InFlight, FlightStates, CountedStates, PollPcs,
           IInv
    <3> QED
      BY <1>0, <1>1, <3>1, <3>4, <3>5 DEF ReadyInv
  <2> QED
    BY <2>1, <2>2
<1>17. ASSUME KernelSame,
              \/ \E c \in CPUs, r \in Reqs : SoftirqReap(c, r)
              \/ \E c \in CPUs : SoftirqCountDown(c)
              \/ \E r \in Reqs : ReadDonePage(r) \/ HcaExecute(r) \/ HcaFail(r)
       PROVE  Goal
  <2>1. UNCHANGED <<callVars, loop>>
    BY <1>17 DEF SoftirqReap, SoftirqCountDown, ReadDonePage, HcaExecute, HcaFail
  <2> QED
    BY <1>3, <1>17, <2>1
<1>18. ASSUME \E p \in Pages : ReclaimCached(p) \/ \E v \in Vals : Touch(p, v)
       PROVE  Goal
  <2>1. UNCHANGED <<callVars, loop, faultVars>>
    BY <1>18 DEF Touch, ReclaimCached
  <2> QED
    BY <1>3, <2>1
<1>19. ASSUME NEW t \in Threads, NEW p \in Pages, NEW c \in CPUs, SwapOut(t, p, c) PROVE Goal
  <2>1. CASE t # u
    BY <1>0, <1>3, <1>19, <2>1 DEF SwapOut, EnterPost, TypeOK, ThreadTypeOK,
         FaultTypeOK
  <2>2. CASE t = u
    BY <1>0, <1>19, <2>2 DEF SwapOut, EnterPost, FreshInv, TypeOK, FaultTypeOK
  <2> QED
    BY <2>1, <2>2
<1>20. ASSUME NEW t \in Threads, StoreReturned(t) PROVE Goal
  <2>1. CASE t # u
    BY <1>0, <1>3, <1>20, <2>1 DEF StoreReturned, TypeOK, ThreadTypeOK, FaultTypeOK
  <2>2. CASE t = u
    BY <1>0, <1>20, <2>2 DEF StoreReturned, FreshInv, TypeOK, FaultTypeOK
  <2> QED
    BY <2>1, <2>2
<1>21. ASSUME NEW t \in Threads, NEW p \in Pages, NEW c \in CPUs, SwapIn(t, p, c) PROVE Goal
  <2>1. CASE t # u
    BY <1>0, <1>3, <1>21, <2>1 DEF SwapIn, TypeOK, ThreadTypeOK, FaultTypeOK
  <2>2. CASE t = u
    BY <1>0, <1>21, <2>2 DEF SwapIn, FreshInv, TypeOK, FaultTypeOK
  <2> QED
    BY <2>1, <2>2
<1>22. ASSUME NEW t \in Threads, MapFault(t) PROVE Goal
  <2>1. CASE t # u
    BY <1>0, <1>3, <1>22, <2>1 DEF MapFault, TypeOK, ThreadTypeOK, FaultTypeOK
  <2>2. CASE t = u
    BY <1>0, <1>22, <2>2 DEF MapFault, FreshInv, TypeOK, FaultTypeOK
  <2> QED
    BY <2>1, <2>2
<1>23. ASSUME NEW t \in Threads, NEW p \in Pages, NEW c \in CPUs, ReadAhead(t, p, c) PROVE Goal
  <2>1. CASE t # u
    BY <1>0, <1>3, <1>23, <2>1 DEF ReadAhead, EnterPost, TypeOK, ThreadTypeOK,
         FaultTypeOK
  <2>2. CASE t = u
    <3>1. Kept
      BY <1>0, <1>23, <2>2 DEF ReadAhead, TypeOK, ThreadTypeOK, FaultTypeOK
    <3>2. pc[u] = "readahead" /\ pc'[u] = "check"
      BY <1>0, <1>23, <2>2 DEF ReadAhead, EnterPost, TypeOK, ThreadTypeOK
    <3>3. ~Posting(u)
      BY <3>2 DEF Posting, PostPcs, PollPcs
    <3> QED
      BY <1>4, <3>1, <3>2, <3>3 DEF PollPcs
  <2> QED
    BY <2>1, <2>2
<1>24. ASSUME NEW t \in Threads, NEW c \in CPUs, ReadFault(t, c) PROVE Goal
  <2>1. CASE t # u
    BY <1>0, <1>3, <1>24, <2>1 DEF ReadFault, EnterPost, TypeOK, ThreadTypeOK,
         FaultTypeOK
  <2>2. CASE t = u
    <3>1. ~fresh[u] /\ cpu[u] = fcpu[u] /\ fcpu[u] \in CPUs
      BY <1>0, <1>24, <2>2 DEF ReadFault, FreshInv, AllocInv, FaultInv
    <3>2. EnterPost(u, c, "READ_SYNC", fpage[u]) /\ c = fcpu[u] /\ UNCHANGED <<fpage, fcpu>>
      BY <1>0, <1>24, <2>2, <3>1 DEF ReadFault
    <3>3. Posting(u)'
      BY <1>0, <3>2 DEF EnterPost, sswap_rdma_get_queue, Posting, PostPcs, TypeOK,
           ThreadTypeOK
    <3> QED
      BY <3>3
  <2> QED
    BY <2>1, <2>2
<1>25. ASSUME NEW t \in Threads, NEW c \in CPUs, PollLoad(t, c) PROVE Goal
  <2>1. CASE t # u
    BY <1>0, <1>3, <1>25, <2>1 DEF PollLoad, EnterDrain, TypeOK, ThreadTypeOK,
         FaultTypeOK
  <2>2. CASE t = u
    <3>1. Kept
      BY <1>0, <1>25, <2>2 DEF PollLoad, TypeOK, ThreadTypeOK, FaultTypeOK
    <3>2. pc[u] = "readahead" /\ pc'[u] = "spin" /\ dq'[u] = <<fcpu[u], "READ_SYNC">>
      BY <1>0, <1>25, <2>2 DEF PollLoad, EnterDrain, sswap_rdma_get_queue, TypeOK,
           ThreadTypeOK
    <3>3. ~Posting(u)
      BY <3>2 DEF Posting, PostPcs, PollPcs
    <3> QED
      BY <1>4, <3>1, <3>2, <3>3
  <2> QED
    BY <2>1, <2>2
<1>26. CASE UNCHANGED vars
  BY <1>3, <1>26
<1> QED
  BY <1>0, <1>5, <1>6, <1>7, <1>8, <1>9, <1>10, <1>11, <1>12, <1>13, <1>14,
       <1>15, <1>16, <1>17, <1>18, <1>19, <1>20, <1>21, <1>22, <1>23, <1>24,
       <1>25, <1>26 DEF Next, DriverStep, ThreadStep, ApplicationStep,
       ReclaimStep, FaultStep, AllocSleep

\* No thread is at a fault at the start.
LEMMA InitRInv == Init => RInv
<1> SUFFICES ASSUME Init PROVE RInv
  OBVIOUS
<1>1. \A t \in Threads : ~fresh[t] /\ pc[t] = "idle"
  BY DEF Init, DriverInit
<1> QED
  BY <1>1 DEF RInv, AllocInv, FreshInv, ReadyInv

\* When the allocation does not migrate the thread, frontswap_poll_load returns
\* to a fault that started the read of its page with the page unlocked and up to
\* date, on any number of CPUs, with prefetches in between, and also when
\* requests fail.
THEOREM FaultReadyCorrect == ~MigrateInAlloc => (Spec => []FaultReady)
<1> SUFFICES ASSUME ~MigrateInAlloc PROVE Spec => []FaultReady
  OBVIOUS
<1>1. IInv /\ DInv /\ HandInv /\ RInv /\ [Next]_vars => RInv'
  BY AllocStep, FreshStep, ReadyStep DEF RInv
<1>2. FreshInv /\ ReadyInv => FaultReady
  BY DEF FreshInv, ReadyInv, FaultReady, PageReady, Posting, InFlight, PostPcs,
       PollPcs
<1>3. RInv => FaultReady
  BY <1>2 DEF RInv
<1> QED
  BY CopiesKept, InitRInv, <1>1, <1>3, PTL DEF Spec
=============================================================================
