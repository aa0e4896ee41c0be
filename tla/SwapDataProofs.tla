--------------------------- MODULE SwapDataProofs ---------------------------
(***************************************************************************)
(* Proofs about the contents of the pages: Integrity and the refinement of *)
(* FarMemory as long as nothing fails, for any number of CPUs, threads,    *)
(* pages, requests and contents.                                           *)
(*                                                                         *)
(* Integrity speaks of mapped pages only; what carries it round the swap   *)
(* cache is where the page's one good copy is at each moment (PageData):   *)
(* in the frame until the store has been drained, on the server until the  *)
(* read has been executed. The uptodate flag tells the two apart (FlagInv),*)
(* a completion says that both copies agree (WireData), and a store that   *)
(* drains its queue either sees them agree or has its write still to be    *)
(* executed (StoreData).                                                   *)
(***************************************************************************)
EXTENDS DmaProofs

\* A fault's page stays in memory once it is referenced.
RefInv ==
  \A t \in Threads : fpage[t] # None /\ pc[t] # "alloc" => where[fpage[t]] # "out"

\* The request a thread is about to post is for the page it was called with.
PostInv == \A t \in Threads : pc[t] = "post" => rpage[dreq[t]] = dpage[t]

HandInv == RefInv /\ PostInv

\* No queue pair is in the error state.
NoFault == \A q \in Queues : ~qpErr[q]

\* PageUptodate: set on what the application may see, on what is being stored,
\* and clear on what is being read.
PageFlag ==
  \A p \in Pages :
    where[p] = "mapped" \/ (where[p] = "cached" /\ ~locked[p]) => uptodate[p]
CallFlag ==
  \A t \in Threads :
    dpage[t] # None => (uptodate[dpage[t]] <=> pc[t] = "stored" \/ dq[t][2] = "WRITE_SYNC")
WireFlag ==
  \A r \in Reqs : rstate[r] \in DmaStates => (uptodate[rpage[r]] <=> ~IsRead(r))

FlagInv == PageFlag /\ CallFlag /\ WireFlag

\* Where the good copy of a page is.
PageData ==
  \A p \in Pages :
    /\ where[p] = "mapped" => val[p] = app[p]
    /\ where[p] = "cached" /\ uptodate[p] => val[p] = app[p]
    /\ where[p] = "out" \/ (where[p] = "cached" /\ ~(locked[p] /\ uptodate[p]))
         => remote[p] = app[p]

\* An executed request has made frame and slot equal.
WireData ==
  \A r \in Reqs : rstate[r] \in {"cqe", "reaped"} => val[rpage[r]] = remote[rpage[r]]

\* A store that drains, and one that has returned.
StoreData ==
  \A t \in Threads :
    dpage[t] # None =>
      /\ pc[t] = "stored" => val[dpage[t]] = remote[dpage[t]]
      /\ pc[t] \in PollPcs /\ loop[t] = "drain" =>
           \/ val[dpage[t]] = remote[dpage[t]]
           \/ \E r \in Reqs : rstate[r] = "posted" /\ rpage[r] = dpage[t]

DataInv == PageData /\ WireData /\ StoreData

\* The invariant of the runs in which nothing has failed yet.
CleanInv == faults = 0 => NoFault /\ FlagInv /\ DataInv

-----------------------------------------------------------------------------
\* Reclaim drops no page that a fault references.
LEMMA RefStep == ASSUME IInv, DInv, HandInv, [Next]_vars PROVE RefInv'
<1> USE ObjectAssumption, CallerAssumption, QueueAssumption
<1> USE DEF vars, driverVars, queueVars, hcaVars, reqVars, callVars, workVars,
            flagVars, dataVars, faultVars, KernelSame
<1>0. TypeOK /\ ReqInv /\ CallInv /\ FaultInv /\ OwnerInv /\ HolderInv /\ DmaExclusive
      /\ RefInv /\ PostInv
  BY DEF IInv, DInv, HandInv
<1>1. ASSUME NEW t \in Threads, Throttle(t), KernelSame
      PROVE  RefInv'
  BY <1>0, <1>1 DEF Throttle, TypeOK, ThreadTypeOK, FaultTypeOK, PageTypeOK,
       RefInv
<1>2. ASSUME NEW t \in Threads, Admit(t), KernelSame
      PROVE  RefInv'
  BY <1>0, <1>2 DEF Admit, TypeOK, ThreadTypeOK, FaultTypeOK, PageTypeOK,
       RefInv
<1>3. ASSUME NEW t \in Threads, CountReq(t), KernelSame
      PROVE  RefInv'
  BY <1>0, <1>3 DEF CountReq, TypeOK, ThreadTypeOK, FaultTypeOK, PageTypeOK,
       RefInv
<1>4. ASSUME NEW t \in Threads, ReqFailed(t), KernelSame
      PROVE  RefInv'
  BY <1>0, <1>4 DEF ReqFailed, LeaveDriver, TypeOK, ThreadTypeOK, FaultTypeOK,
       PageTypeOK, RefInv
<1>5. ASSUME NEW t \in Threads, PostSend(t), KernelSame
      PROVE  RefInv'
  BY <1>0, <1>5 DEF PostSend, AfterPost, EnterDrain, LeaveDriver, TypeOK,
       ThreadTypeOK, FaultTypeOK, PageTypeOK, RefInv
<1>6. ASSUME NEW t \in Threads, PostRefused(t), KernelSame
      PROVE  RefInv'
  BY <1>0, <1>6 DEF PostRefused, LeaveDriver, TypeOK, ThreadTypeOK,
       FaultTypeOK, PageTypeOK, RefInv
<1>7. ASSUME NEW t \in Threads, LockCq(t), KernelSame
      PROVE  RefInv'
  BY <1>0, <1>7 DEF LockCq, TypeOK, ThreadTypeOK, FaultTypeOK, PageTypeOK,
       RefInv
<1>8. ASSUME NEW t \in Threads, UnlockCq(t), KernelSame
      PROVE  RefInv'
  BY <1>0, <1>8 DEF UnlockCq, TypeOK, ThreadTypeOK, FaultTypeOK, PageTypeOK,
       RefInv
<1>9. ASSUME NEW t \in Threads, PollTargetDone(t), KernelSame
      PROVE  RefInv'
  BY <1>0, <1>9 DEF PollTargetDone, TypeOK, ThreadTypeOK, FaultTypeOK,
       PageTypeOK, RefInv
<1>10. ASSUME NEW t \in Threads, DrainDone(t), KernelSame
      PROVE  RefInv'
  BY <1>0, <1>10 DEF DrainDone, LeaveDriver, TypeOK, ThreadTypeOK,
       FaultTypeOK, PageTypeOK, RefInv
<1>11. ASSUME NEW t \in Threads, ThreadCountDown(t), KernelSame
      PROVE  RefInv'
  BY <1>0, <1>11 DEF ThreadCountDown, CountDown, TypeOK, ThreadTypeOK,
       FaultTypeOK, PageTypeOK, RefInv
<1>12. ASSUME NEW t \in Threads, NEW r \in Reqs, Reap(t, r), KernelSame
      PROVE  RefInv'
  BY <1>0, <1>12 DEF Reap, TypeOK, ThreadTypeOK, FaultTypeOK, PageTypeOK,
       RefInv
<1>13. ASSUME NEW c \in CPUs, NEW r \in Reqs, SoftirqReap(c, r), KernelSame
      PROVE  RefInv'
  BY <1>0, <1>13 DEF SoftirqReap, TypeOK, ThreadTypeOK, FaultTypeOK,
       PageTypeOK, RefInv
<1>14. ASSUME NEW c \in CPUs, SoftirqCountDown(c), KernelSame
      PROVE  RefInv'
  BY <1>0, <1>14 DEF SoftirqCountDown, CountDown, TypeOK, ThreadTypeOK,
       FaultTypeOK, PageTypeOK, RefInv
<1>15. ASSUME NEW r \in Reqs, ReadDonePage(r), KernelSame
      PROVE  RefInv'
  BY <1>0, <1>15 DEF ReadDonePage, IsRead, TypeOK, ThreadTypeOK, FaultTypeOK,
       PageTypeOK, RefInv
<1>16. ASSUME NEW r \in Reqs, HcaExecute(r) \/ HcaFail(r), KernelSame
      PROVE  RefInv'
  BY <1>0, <1>16 DEF HcaExecute, HcaFail, TypeOK, ThreadTypeOK, FaultTypeOK,
       PageTypeOK, RefInv
<1>17. ASSUME NEW p \in Pages, NEW v \in Vals, Touch(p, v)
      PROVE  RefInv'
  BY <1>0, <1>17 DEF Touch, TypeOK, ThreadTypeOK, FaultTypeOK, PageTypeOK,
       RefInv
<1>18. ASSUME NEW t \in Threads, NEW p \in Pages, NEW c \in CPUs, SwapOut(t, p, c)
      PROVE  RefInv'
  BY <1>0, <1>18 DEF SwapOut, EnterPost, TypeOK, ThreadTypeOK, FaultTypeOK,
       PageTypeOK, RefInv
<1>19. ASSUME NEW t \in Threads, StoreReturned(t)
      PROVE  RefInv'
  BY <1>0, <1>19 DEF StoreReturned, TypeOK, ThreadTypeOK, FaultTypeOK,
       PageTypeOK, RefInv
<1>20. ASSUME NEW p \in Pages, ReclaimCached(p)
      PROVE  RefInv'
  BY <1>0, <1>20 DEF ReclaimCached, Referenced, TypeOK, ThreadTypeOK,
       FaultTypeOK, PageTypeOK, RefInv
<1>21. ASSUME NEW t \in Threads, NEW p \in Pages, NEW c \in CPUs, SwapIn(t, p, c)
      PROVE  RefInv'
  BY <1>0, <1>21 DEF SwapIn, TypeOK, ThreadTypeOK, FaultTypeOK, PageTypeOK,
       RefInv
<1>22. ASSUME NEW t \in Threads, NEW p \in Pages, NEW c \in CPUs, ReadAhead(t, p, c)
      PROVE  RefInv'
  BY <1>0, <1>22 DEF ReadAhead, NewFrame, EnterPost, TypeOK, ThreadTypeOK,
       FaultTypeOK, PageTypeOK, RefInv
<1>23. ASSUME NEW t \in Threads, AllocSleep(t)
      PROVE  RefInv'
  BY <1>0, <1>23 DEF AllocSleep, TypeOK, ThreadTypeOK, FaultTypeOK,
       PageTypeOK, RefInv
<1>24. ASSUME NEW t \in Threads, MapFault(t)
      PROVE  RefInv'
  BY <1>0, <1>24 DEF MapFault, TypeOK, ThreadTypeOK, FaultTypeOK, PageTypeOK,
       RefInv
<1>25. ASSUME NEW t \in Threads, NEW c \in CPUs, ReadFault(t, c)
      PROVE  RefInv'
  BY <1>0, <1>25 DEF ReadFault, NewFrame, EnterPost, FaultInv, TypeOK,
       ThreadTypeOK, FaultTypeOK, PageTypeOK, RefInv
<1>26. ASSUME NEW t \in Threads, NEW c \in CPUs, PollLoad(t, c)
      PROVE  RefInv'
  BY <1>0, <1>26 DEF PollLoad, EnterDrain, TypeOK, ThreadTypeOK, FaultTypeOK,
       PageTypeOK, RefInv
<1>27. CASE UNCHANGED vars
  BY <1>0, <1>27 DEF TypeOK, ThreadTypeOK, FaultTypeOK, PageTypeOK, RefInv
<1> QED
  BY <1>1, <1>2, <1>3, <1>4, <1>5, <1>6, <1>7, <1>8, <1>9, <1>10, <1>11,
       <1>12, <1>13, <1>14, <1>15, <1>16, <1>17, <1>18, <1>19, <1>20, <1>21,
       <1>22, <1>23, <1>24, <1>25, <1>26, <1>27 DEF Next, DriverStep,
       ThreadStep, ApplicationStep, ReclaimStep, FaultStep

\* A request keeps its page until its handler gives it back.
LEMMA PostStep == ASSUME IInv, DInv, HandInv, [Next]_vars PROVE PostInv'
<1> USE ObjectAssumption, CallerAssumption, QueueAssumption
<1> USE DEF vars, driverVars, queueVars, hcaVars, reqVars, callVars, workVars,
            flagVars, dataVars, faultVars, KernelSame
<1>0. TypeOK /\ ReqInv /\ CallInv /\ FaultInv /\ OwnerInv /\ HolderInv /\ DmaExclusive
      /\ RefInv /\ PostInv
  BY DEF IInv, DInv, HandInv
<1>1. ASSUME NEW t \in Threads, Throttle(t), KernelSame
      PROVE  PostInv'
  BY <1>0, <1>1 DEF Throttle, TypeOK, RequestTypeOK, ThreadTypeOK, PostInv,
       OwnerInv
<1>2. ASSUME NEW t \in Threads, Admit(t), KernelSame
      PROVE  PostInv'
  BY <1>0, <1>2 DEF Admit, TypeOK, RequestTypeOK, ThreadTypeOK, PostInv,
       OwnerInv
<1>3. ASSUME NEW t \in Threads, CountReq(t), KernelSame
      PROVE  PostInv'
  BY <1>0, <1>3 DEF CountReq, TypeOK, RequestTypeOK, ThreadTypeOK, PostInv,
       OwnerInv
<1>4. ASSUME NEW t \in Threads, ReqFailed(t), KernelSame
      PROVE  PostInv'
  BY <1>0, <1>4 DEF ReqFailed, LeaveDriver, TypeOK, RequestTypeOK,
       ThreadTypeOK, PostInv, OwnerInv
<1>5. ASSUME NEW t \in Threads, PostSend(t), KernelSame
      PROVE  PostInv'
  BY <1>0, <1>5 DEF PostSend, AfterPost, EnterDrain, LeaveDriver, TypeOK,
       RequestTypeOK, ThreadTypeOK, PostInv, OwnerInv
<1>6. ASSUME NEW t \in Threads, PostRefused(t), KernelSame
      PROVE  PostInv'
  BY <1>0, <1>6 DEF PostRefused, LeaveDriver, TypeOK, RequestTypeOK,
       ThreadTypeOK, PostInv, OwnerInv
<1>7. ASSUME NEW t \in Threads, LockCq(t), KernelSame
      PROVE  PostInv'
  BY <1>0, <1>7 DEF LockCq, TypeOK, RequestTypeOK, ThreadTypeOK, PostInv,
       OwnerInv
<1>8. ASSUME NEW t \in Threads, UnlockCq(t), KernelSame
      PROVE  PostInv'
  BY <1>0, <1>8 DEF UnlockCq, TypeOK, RequestTypeOK, ThreadTypeOK, PostInv,
       OwnerInv
<1>9. ASSUME NEW t \in Threads, PollTargetDone(t), KernelSame
      PROVE  PostInv'
  BY <1>0, <1>9 DEF PollTargetDone, TypeOK, RequestTypeOK, ThreadTypeOK,
       PostInv, OwnerInv
<1>10. ASSUME NEW t \in Threads, DrainDone(t), KernelSame
      PROVE  PostInv'
  BY <1>0, <1>10 DEF DrainDone, LeaveDriver, TypeOK, RequestTypeOK,
       ThreadTypeOK, PostInv, OwnerInv
<1>11. ASSUME NEW t \in Threads, ThreadCountDown(t), KernelSame
      PROVE  PostInv'
  BY <1>0, <1>11 DEF ThreadCountDown, CountDown, OwnedDone, TypeOK,
       RequestTypeOK, ThreadTypeOK, PostInv, OwnerInv
<1>12. ASSUME NEW t \in Threads, NEW r \in Reqs, Reap(t, r), KernelSame
      PROVE  PostInv'
  BY <1>0, <1>12 DEF Reap, TypeOK, RequestTypeOK, ThreadTypeOK, PostInv,
       OwnerInv
<1>13. ASSUME NEW c \in CPUs, NEW r \in Reqs, SoftirqReap(c, r), KernelSame
      PROVE  PostInv'
  BY <1>0, <1>13 DEF SoftirqReap, TypeOK, RequestTypeOK, ThreadTypeOK,
       PostInv, OwnerInv
<1>14. ASSUME NEW c \in CPUs, SoftirqCountDown(c), KernelSame
      PROVE  PostInv'
  BY <1>0, <1>14 DEF SoftirqCountDown, CountDown, OwnedDone, TypeOK,
       RequestTypeOK, ThreadTypeOK, PostInv, OwnerInv
<1>15. ASSUME NEW r \in Reqs, ReadDonePage(r), KernelSame
      PROVE  PostInv'
  BY <1>0, <1>15 DEF ReadDonePage, IsRead, TypeOK, RequestTypeOK,
       ThreadTypeOK, PostInv, OwnerInv
<1>16. ASSUME NEW r \in Reqs, HcaExecute(r) \/ HcaFail(r), KernelSame
      PROVE  PostInv'
  BY <1>0, <1>16 DEF HcaExecute, HcaFail, TypeOK, RequestTypeOK, ThreadTypeOK,
       PostInv, OwnerInv
<1>17. ASSUME NEW p \in Pages, NEW v \in Vals, Touch(p, v)
      PROVE  PostInv'
  BY <1>0, <1>17 DEF Touch, TypeOK, RequestTypeOK, ThreadTypeOK, PostInv,
       OwnerInv
<1>18. ASSUME NEW t \in Threads, NEW p \in Pages, NEW c \in CPUs, SwapOut(t, p, c)
      PROVE  PostInv'
  BY <1>0, <1>18 DEF SwapOut, EnterPost, TypeOK, RequestTypeOK, ThreadTypeOK,
       PostInv, OwnerInv
<1>19. ASSUME NEW t \in Threads, StoreReturned(t)
      PROVE  PostInv'
  BY <1>0, <1>19 DEF StoreReturned, TypeOK, RequestTypeOK, ThreadTypeOK,
       PostInv, OwnerInv
<1>20. ASSUME NEW p \in Pages, ReclaimCached(p)
      PROVE  PostInv'
  BY <1>0, <1>20 DEF ReclaimCached, TypeOK, RequestTypeOK, ThreadTypeOK,
       PostInv, OwnerInv
<1>21. ASSUME NEW t \in Threads, NEW p \in Pages, NEW c \in CPUs, SwapIn(t, p, c)
      PROVE  PostInv'
  BY <1>0, <1>21 DEF SwapIn, TypeOK, RequestTypeOK, ThreadTypeOK, PostInv,
       OwnerInv
<1>22. ASSUME NEW t \in Threads, NEW p \in Pages, NEW c \in CPUs, ReadAhead(t, p, c)
      PROVE  PostInv'
  BY <1>0, <1>22 DEF ReadAhead, NewFrame, EnterPost, TypeOK, RequestTypeOK,
       ThreadTypeOK, PostInv, OwnerInv
<1>23. ASSUME NEW t \in Threads, AllocSleep(t)
      PROVE  PostInv'
  BY <1>0, <1>23 DEF AllocSleep, TypeOK, RequestTypeOK, ThreadTypeOK, PostInv,
       OwnerInv
<1>24. ASSUME NEW t \in Threads, MapFault(t)
      PROVE  PostInv'
  BY <1>0, <1>24 DEF MapFault, TypeOK, RequestTypeOK, ThreadTypeOK, PostInv,
       OwnerInv
<1>25. ASSUME NEW t \in Threads, NEW c \in CPUs, ReadFault(t, c)
      PROVE  PostInv'
  BY <1>0, <1>25 DEF ReadFault, NewFrame, EnterPost, TypeOK, RequestTypeOK,
       ThreadTypeOK, PostInv, OwnerInv
<1>26. ASSUME NEW t \in Threads, NEW c \in CPUs, PollLoad(t, c)
      PROVE  PostInv'
  BY <1>0, <1>26 DEF PollLoad, EnterDrain, TypeOK, RequestTypeOK,
       ThreadTypeOK, PostInv, OwnerInv
<1>27. CASE UNCHANGED vars
  BY <1>0, <1>27 DEF TypeOK, RequestTypeOK, ThreadTypeOK, PostInv, OwnerInv
<1> QED
  BY <1>1, <1>2, <1>3, <1>4, <1>5, <1>6, <1>7, <1>8, <1>9, <1>10, <1>11,
       <1>12, <1>13, <1>14, <1>15, <1>16, <1>17, <1>18, <1>19, <1>20, <1>21,
       <1>22, <1>23, <1>24, <1>25, <1>26, <1>27 DEF Next, DriverStep,
       ThreadStep, ApplicationStep, ReclaimStep, FaultStep

\* ... which is a state the system can only have come to without a failure.
Healthy == faults = 0 /\ NoFault /\ FlagInv /\ DataInv

\* A page is unlocked with its uptodate flag set.
LEMMA PageFlagStep ==
  ASSUME IInv, DInv, HandInv, Healthy, faults' = 0, [Next]_vars
  PROVE  PageFlag'
<1> USE ObjectAssumption, CallerAssumption, QueueAssumption
<1> USE DEF vars, driverVars, queueVars, hcaVars, reqVars, callVars, workVars,
            flagVars, dataVars, faultVars, KernelSame
<1>0. TypeOK /\ ReqInv /\ CallInv /\ FaultInv /\ OwnerInv /\ HolderInv /\ ServesInv
      /\ DmaExclusive
      /\ RefInv /\ PostInv /\ NoFault /\ PageFlag /\ CallFlag /\ WireFlag
      /\ PageData /\ WireData /\ StoreData /\ faults = 0 /\ faults' = 0
  BY DEF IInv, DInv, HandInv, Healthy, FlagInv, DataInv
<1>1. ASSUME NEW t \in Threads, Throttle(t), KernelSame
      PROVE  PageFlag'
  BY <1>0, <1>1 DEF Throttle, TypeOK, RequestTypeOK, ThreadTypeOK, PageTypeOK,
       PageFlag
<1>2. ASSUME NEW t \in Threads, Admit(t), KernelSame
      PROVE  PageFlag'
  BY <1>0, <1>2 DEF Admit, TypeOK, RequestTypeOK, ThreadTypeOK, PageTypeOK,
       PageFlag
<1>3. ASSUME NEW t \in Threads, CountReq(t), KernelSame
      PROVE  PageFlag'
  BY <1>0, <1>3 DEF CountReq, TypeOK, RequestTypeOK, ThreadTypeOK, PageTypeOK,
       PageFlag
<1>4. ASSUME NEW t \in Threads, ReqFailed(t), KernelSame
      PROVE  PageFlag'
  BY <1>0, <1>4 DEF ReqFailed
<1>5. ASSUME NEW t \in Threads, PostSend(t), KernelSame
      PROVE  PageFlag'
  BY <1>0, <1>5 DEF PostSend, AfterPost, EnterDrain, LeaveDriver, TypeOK,
       RequestTypeOK, ThreadTypeOK, PageTypeOK, PageFlag
<1>6. ASSUME NEW t \in Threads, PostRefused(t), KernelSame
      PROVE  PageFlag'
  BY <1>0, <1>6 DEF PostRefused
<1>7. ASSUME NEW t \in Threads, LockCq(t), KernelSame
      PROVE  PageFlag'
  BY <1>0, <1>7 DEF LockCq, TypeOK, RequestTypeOK, ThreadTypeOK, PageTypeOK,
       PageFlag
<1>8. ASSUME NEW t \in Threads, UnlockCq(t), KernelSame
      PROVE  PageFlag'
  BY <1>0, <1>8 DEF UnlockCq, TypeOK, RequestTypeOK, ThreadTypeOK, PageTypeOK,
       PageFlag
<1>9. ASSUME NEW t \in Threads, PollTargetDone(t), KernelSame
      PROVE  PageFlag'
  BY <1>0, <1>9 DEF PollTargetDone, TypeOK, RequestTypeOK, ThreadTypeOK,
       PageTypeOK, PageFlag
<1>10. ASSUME NEW t \in Threads, DrainDone(t), KernelSame
      PROVE  PageFlag'
  BY <1>0, <1>10 DEF DrainDone, LeaveDriver, TypeOK, RequestTypeOK,
       ThreadTypeOK, PageTypeOK, PageFlag
<1>11. ASSUME NEW t \in Threads, ThreadCountDown(t), KernelSame
      PROVE  PageFlag'
  BY <1>0, <1>11 DEF ThreadCountDown, CountDown, TypeOK, RequestTypeOK,
       ThreadTypeOK, PageTypeOK, PageFlag
<1>12. ASSUME NEW t \in Threads, NEW r \in Reqs, Reap(t, r), KernelSame
      PROVE  PageFlag'
  BY <1>0, <1>12 DEF Reap, TypeOK, RequestTypeOK, ThreadTypeOK, PageTypeOK,
       PageFlag
<1>13. ASSUME NEW c \in CPUs, NEW r \in Reqs, SoftirqReap(c, r), KernelSame
      PROVE  PageFlag'
  BY <1>0, <1>13 DEF SoftirqReap, TypeOK, RequestTypeOK, ThreadTypeOK,
       PageTypeOK, PageFlag
<1>14. ASSUME NEW c \in CPUs, SoftirqCountDown(c), KernelSame
      PROVE  PageFlag'
  BY <1>0, <1>14 DEF SoftirqCountDown, CountDown, TypeOK, RequestTypeOK,
       ThreadTypeOK, PageTypeOK, PageFlag
<1>15. ASSUME NEW r \in Reqs, ReadDonePage(r), KernelSame
      PROVE  PageFlag'
  BY <1>0, <1>15 DEF ReadDonePage, IsRead, TypeOK, RequestTypeOK,
       ThreadTypeOK, PageTypeOK, PageFlag
<1>16. ASSUME NEW r \in Reqs, HcaExecute(r), KernelSame
      PROVE  PageFlag'
  BY <1>0, <1>16 DEF HcaExecute, Transfer, IsRead, TypeOK, RequestTypeOK,
       ThreadTypeOK, PageTypeOK, PageFlag
<1>17. ASSUME NEW r \in Reqs, HcaFail(r), KernelSame
      PROVE  PageFlag'
  <2>1. ~qpErr[rq[r]]
    BY <1>0, <1>17 DEF HcaFail, ReqInv, NoFault
  <2> QED
    BY <1>0, <1>17, <2>1 DEF HcaFail
<1>18. ASSUME NEW p \in Pages, NEW v \in Vals, Touch(p, v)
      PROVE  PageFlag'
  BY <1>0, <1>18 DEF Touch, TypeOK, RequestTypeOK, ThreadTypeOK, PageTypeOK,
       PageFlag
<1>19. ASSUME NEW t \in Threads, NEW p \in Pages, NEW c \in CPUs, SwapOut(t, p, c)
      PROVE  PageFlag'
  BY <1>0, <1>19 DEF SwapOut, EnterPost, TypeOK, RequestTypeOK, ThreadTypeOK,
       PageTypeOK, PageFlag
<1>20. ASSUME NEW t \in Threads, StoreReturned(t)
      PROVE  PageFlag'
  BY <1>0, <1>20 DEF StoreReturned, CallFlag, HolderInv, TypeOK,
       RequestTypeOK, ThreadTypeOK, PageTypeOK, PageFlag
<1>21. ASSUME NEW p \in Pages, ReclaimCached(p)
      PROVE  PageFlag'
  BY <1>0, <1>21 DEF ReclaimCached, TypeOK, RequestTypeOK, ThreadTypeOK,
       PageTypeOK, PageFlag
<1>22. ASSUME NEW t \in Threads, NEW p \in Pages, NEW c \in CPUs, SwapIn(t, p, c)
      PROVE  PageFlag'
  BY <1>0, <1>22 DEF SwapIn, TypeOK, RequestTypeOK, ThreadTypeOK, PageTypeOK,
       PageFlag
<1>23. ASSUME NEW t \in Threads, NEW p \in Pages, NEW c \in CPUs, ReadAhead(t, p, c)
      PROVE  PageFlag'
  BY <1>0, <1>23 DEF ReadAhead, NewFrame, EnterPost, TypeOK, RequestTypeOK,
       ThreadTypeOK, PageTypeOK, PageFlag
<1>24. ASSUME NEW t \in Threads, AllocSleep(t)
      PROVE  PageFlag'
  BY <1>0, <1>24 DEF AllocSleep, TypeOK, RequestTypeOK, ThreadTypeOK,
       PageTypeOK, PageFlag
<1>25. ASSUME NEW t \in Threads, MapFault(t)
      PROVE  PageFlag'
  BY <1>0, <1>25 DEF MapFault, TypeOK, RequestTypeOK, ThreadTypeOK,
       PageTypeOK, PageFlag
<1>26. ASSUME NEW t \in Threads, NEW c \in CPUs, ReadFault(t, c)
      PROVE  PageFlag'
  BY <1>0, <1>26 DEF ReadFault, NewFrame, EnterPost, TypeOK, RequestTypeOK,
       ThreadTypeOK, PageTypeOK, PageFlag
<1>27. ASSUME NEW t \in Threads, NEW c \in CPUs, PollLoad(t, c)
      PROVE  PageFlag'
  BY <1>0, <1>27 DEF PollLoad, EnterDrain, TypeOK, RequestTypeOK,
       ThreadTypeOK, PageTypeOK, PageFlag
<1>28. CASE UNCHANGED vars
  BY <1>0, <1>28 DEF TypeOK, RequestTypeOK, ThreadTypeOK, PageTypeOK, PageFlag
<1> QED
  BY <1>1, <1>2, <1>3, <1>4, <1>5, <1>6, <1>7, <1>8, <1>9, <1>10, <1>11,
       <1>12, <1>13, <1>14, <1>15, <1>16, <1>17, <1>18, <1>19, <1>20, <1>21,
       <1>22, <1>23, <1>24, <1>25, <1>26, <1>27, <1>28 DEF Next, DriverStep,
       ThreadStep, ApplicationStep, ReclaimStep, FaultStep

\* A call keeps its page and the type of its queue.
LEMMA CallFlagStep ==
  ASSUME IInv, DInv, HandInv, Healthy, faults' = 0, [Next]_vars
  PROVE  CallFlag'
<1> USE ObjectAssumption, CallerAssumption, QueueAssumption
<1> USE DEF vars, driverVars, queueVars, hcaVars, reqVars, callVars, workVars,
            flagVars, dataVars, faultVars, KernelSame
<1>0. TypeOK /\ ReqInv /\ CallInv /\ FaultInv /\ OwnerInv /\ HolderInv /\ ServesInv
      /\ DmaExclusive
      /\ RefInv /\ PostInv /\ NoFault /\ PageFlag /\ CallFlag /\ WireFlag
      /\ PageData /\ WireData /\ StoreData /\ faults = 0 /\ faults' = 0
  BY DEF IInv, DInv, HandInv, Healthy, FlagInv, DataInv
<1>1. ASSUME NEW t \in Threads, Throttle(t), KernelSame
      PROVE  CallFlag'
  BY <1>0, <1>1 DEF Throttle, TypeOK, RequestTypeOK, ThreadTypeOK, PageTypeOK,
       CallFlag
<1>2. ASSUME NEW t \in Threads, Admit(t), KernelSame
      PROVE  CallFlag'
  BY <1>0, <1>2 DEF Admit, TypeOK, RequestTypeOK, ThreadTypeOK, PageTypeOK,
       CallFlag
<1>3. ASSUME NEW t \in Threads, CountReq(t), KernelSame
      PROVE  CallFlag'
  BY <1>0, <1>3 DEF CountReq, TypeOK, RequestTypeOK, ThreadTypeOK, PageTypeOK,
       CallFlag
<1>4. ASSUME NEW t \in Threads, ReqFailed(t), KernelSame
      PROVE  CallFlag'
  BY <1>0, <1>4 DEF ReqFailed
<1>5. ASSUME NEW t \in Threads, PostSend(t), KernelSame
      PROVE  CallFlag'
  BY <1>0, <1>5 DEF PostSend, AfterPost, EnterDrain, LeaveDriver, TypeOK,
       RequestTypeOK, ThreadTypeOK, PageTypeOK, CallFlag
<1>6. ASSUME NEW t \in Threads, PostRefused(t), KernelSame
      PROVE  CallFlag'
  BY <1>0, <1>6 DEF PostRefused
<1>7. ASSUME NEW t \in Threads, LockCq(t), KernelSame
      PROVE  CallFlag'
  BY <1>0, <1>7 DEF LockCq, TypeOK, RequestTypeOK, ThreadTypeOK, PageTypeOK,
       CallFlag
<1>8. ASSUME NEW t \in Threads, UnlockCq(t), KernelSame
      PROVE  CallFlag'
  BY <1>0, <1>8 DEF UnlockCq, TypeOK, RequestTypeOK, ThreadTypeOK, PageTypeOK,
       CallFlag
<1>9. ASSUME NEW t \in Threads, PollTargetDone(t), KernelSame
      PROVE  CallFlag'
  BY <1>0, <1>9 DEF PollTargetDone, TypeOK, RequestTypeOK, ThreadTypeOK,
       PageTypeOK, CallFlag
<1>10. ASSUME NEW t \in Threads, DrainDone(t), KernelSame
      PROVE  CallFlag'
  BY <1>0, <1>10 DEF DrainDone, LeaveDriver, HolderInv, PostPcs, PollPcs,
       TypeOK, RequestTypeOK, ThreadTypeOK, PageTypeOK, CallFlag
<1>11. ASSUME NEW t \in Threads, ThreadCountDown(t), KernelSame
      PROVE  CallFlag'
  BY <1>0, <1>11 DEF ThreadCountDown, CountDown, TypeOK, RequestTypeOK,
       ThreadTypeOK, PageTypeOK, CallFlag
<1>12. ASSUME NEW t \in Threads, NEW r \in Reqs, Reap(t, r), KernelSame
      PROVE  CallFlag'
  BY <1>0, <1>12 DEF Reap, TypeOK, RequestTypeOK, ThreadTypeOK, PageTypeOK,
       CallFlag
<1>13. ASSUME NEW c \in CPUs, NEW r \in Reqs, SoftirqReap(c, r), KernelSame
      PROVE  CallFlag'
  BY <1>0, <1>13 DEF SoftirqReap, TypeOK, RequestTypeOK, ThreadTypeOK,
       PageTypeOK, CallFlag
<1>14. ASSUME NEW c \in CPUs, SoftirqCountDown(c), KernelSame
      PROVE  CallFlag'
  BY <1>0, <1>14 DEF SoftirqCountDown, CountDown, TypeOK, RequestTypeOK,
       ThreadTypeOK, PageTypeOK, CallFlag
<1>15. ASSUME NEW r \in Reqs, ReadDonePage(r), KernelSame
      PROVE  CallFlag'
  <2>1. \A u \in Threads : dpage[u] # rpage[r]
    BY <1>0, <1>15 DEF ReadDonePage, IsRead, ServesInv, OwnerInv, DmaStates
  <2> QED
    BY <1>0, <1>15, <2>1 DEF ReadDonePage, TypeOK, ThreadTypeOK, PageTypeOK,
         CallFlag
<1>16. ASSUME NEW r \in Reqs, HcaExecute(r), KernelSame
      PROVE  CallFlag'
  BY <1>0, <1>16 DEF HcaExecute, Transfer, IsRead, TypeOK, RequestTypeOK,
       ThreadTypeOK, PageTypeOK, CallFlag
<1>17. ASSUME NEW r \in Reqs, HcaFail(r), KernelSame
      PROVE  CallFlag'
  <2>1. ~qpErr[rq[r]]
    BY <1>0, <1>17 DEF HcaFail, ReqInv, NoFault
  <2> QED
    BY <1>0, <1>17, <2>1 DEF HcaFail
<1>18. ASSUME NEW p \in Pages, NEW v \in Vals, Touch(p, v)
      PROVE  CallFlag'
  BY <1>0, <1>18 DEF Touch, TypeOK, RequestTypeOK, ThreadTypeOK, PageTypeOK,
       CallFlag
<1>19. ASSUME NEW t \in Threads, NEW p \in Pages, NEW c \in CPUs, SwapOut(t, p, c)
      PROVE  CallFlag'
  BY <1>0, <1>19 DEF SwapOut, EnterPost, PageFlag, sswap_rdma_get_queue,
       TypeOK, RequestTypeOK, ThreadTypeOK, PageTypeOK, CallFlag
<1>20. ASSUME NEW t \in Threads, StoreReturned(t)
      PROVE  CallFlag'
  BY <1>0, <1>20 DEF StoreReturned, TypeOK, RequestTypeOK, ThreadTypeOK,
       PageTypeOK, CallFlag
<1>21. ASSUME NEW p \in Pages, ReclaimCached(p)
      PROVE  CallFlag'
  BY <1>0, <1>21 DEF ReclaimCached, TypeOK, RequestTypeOK, ThreadTypeOK,
       PageTypeOK, CallFlag
<1>22. ASSUME NEW t \in Threads, NEW p \in Pages, NEW c \in CPUs, SwapIn(t, p, c)
      PROVE  CallFlag'
  BY <1>0, <1>22 DEF SwapIn, TypeOK, RequestTypeOK, ThreadTypeOK, PageTypeOK,
       CallFlag
<1>23. ASSUME NEW t \in Threads, NEW p \in Pages, NEW c \in CPUs, ReadAhead(t, p, c)
      PROVE  CallFlag'
  BY <1>0, <1>23 DEF ReadAhead, NewFrame, EnterPost, HolderInv,
       sswap_rdma_get_queue, TypeOK, RequestTypeOK, ThreadTypeOK, PageTypeOK,
       CallFlag
<1>24. ASSUME NEW t \in Threads, AllocSleep(t)
      PROVE  CallFlag'
  BY <1>0, <1>24 DEF AllocSleep, TypeOK, RequestTypeOK, ThreadTypeOK,
       PageTypeOK, CallFlag
<1>25. ASSUME NEW t \in Threads, MapFault(t)
      PROVE  CallFlag'
  BY <1>0, <1>25 DEF MapFault, TypeOK, RequestTypeOK, ThreadTypeOK,
       PageTypeOK, CallFlag
<1>26. ASSUME NEW t \in Threads, NEW c \in CPUs, ReadFault(t, c)
      PROVE  CallFlag'
  BY <1>0, <1>26 DEF ReadFault, NewFrame, EnterPost, HolderInv, FaultInv,
       sswap_rdma_get_queue, TypeOK, RequestTypeOK, ThreadTypeOK, PageTypeOK,
       CallFlag
<1>27. ASSUME NEW t \in Threads, NEW c \in CPUs, PollLoad(t, c)
      PROVE  CallFlag'
  BY <1>0, <1>27 DEF PollLoad, EnterDrain, HolderInv, PostPcs, PollPcs,
       TypeOK, RequestTypeOK, ThreadTypeOK, PageTypeOK, CallFlag
<1>28. CASE UNCHANGED vars
  BY <1>0, <1>28 DEF TypeOK, RequestTypeOK, ThreadTypeOK, PageTypeOK, CallFlag
<1> QED
  BY <1>1, <1>2, <1>3, <1>4, <1>5, <1>6, <1>7, <1>8, <1>9, <1>10, <1>11,
       <1>12, <1>13, <1>14, <1>15, <1>16, <1>17, <1>18, <1>19, <1>20, <1>21,
       <1>22, <1>23, <1>24, <1>25, <1>26, <1>27, <1>28 DEF Next, DriverStep,
       ThreadStep, ApplicationStep, ReclaimStep, FaultStep

\* A request keeps its page and the type of its queue.
LEMMA WireFlagStep ==
  ASSUME IInv, DInv, HandInv, Healthy, faults' = 0, [Next]_vars
  PROVE  WireFlag'
<1> USE ObjectAssumption, CallerAssumption, QueueAssumption
<1> USE DEF vars, driverVars, queueVars, hcaVars, reqVars, callVars, workVars,
            flagVars, dataVars, faultVars, KernelSame
<1>0. TypeOK /\ ReqInv /\ CallInv /\ FaultInv /\ OwnerInv /\ HolderInv /\ ServesInv
      /\ DmaExclusive
      /\ RefInv /\ PostInv /\ NoFault /\ PageFlag /\ CallFlag /\ WireFlag
      /\ PageData /\ WireData /\ StoreData /\ faults = 0 /\ faults' = 0
  BY DEF IInv, DInv, HandInv, Healthy, FlagInv, DataInv
<1>1. ASSUME NEW t \in Threads, Throttle(t), KernelSame
      PROVE  WireFlag'
  BY <1>0, <1>1 DEF Throttle, TypeOK, RequestTypeOK, ThreadTypeOK, PageTypeOK,
       WireFlag, IsRead, DmaStates
<1>2. ASSUME NEW t \in Threads, Admit(t), KernelSame
      PROVE  WireFlag'
  BY <1>0, <1>2 DEF Admit, TypeOK, RequestTypeOK, ThreadTypeOK, PageTypeOK,
       WireFlag, IsRead, DmaStates
<1>3. ASSUME NEW t \in Threads, CountReq(t), KernelSame
      PROVE  WireFlag'
  <2>1. PICK r \in Reqs :
          /\ rstate' = [rstate EXCEPT ![r] = "counted"]
          /\ rq' = [rq EXCEPT ![r] = dq[t]]
          /\ rpage' = [rpage EXCEPT ![r] = dpage[t]]
    BY <1>3 DEF CountReq
  <2>2. dpage[t] \in Pages /\ (uptodate[dpage[t]] <=> ~(dq[t][2] # "WRITE_SYNC"))
    BY <1>0, <1>3 DEF CountReq, CallInv, CallFlag, PostPcs
  <2>3. UNCHANGED uptodate
    BY <1>3 DEF CountReq
  <2> QED
    BY <1>0, <2>1, <2>2, <2>3 DEF TypeOK, RequestTypeOK, WireFlag, IsRead
<1>4. ASSUME NEW t \in Threads, ReqFailed(t), KernelSame
      PROVE  WireFlag'
  BY <1>0, <1>4 DEF ReqFailed
<1>5. ASSUME NEW t \in Threads, PostSend(t), KernelSame
      PROVE  WireFlag'
  BY <1>0, <1>5 DEF PostSend, AfterPost, EnterDrain, LeaveDriver, OwnerInv,
       TypeOK, RequestTypeOK, ThreadTypeOK, PageTypeOK, WireFlag, IsRead,
       DmaStates
<1>6. ASSUME NEW t \in Threads, PostRefused(t), KernelSame
      PROVE  WireFlag'
  BY <1>0, <1>6 DEF PostRefused
<1>7. ASSUME NEW t \in Threads, LockCq(t), KernelSame
      PROVE  WireFlag'
  BY <1>0, <1>7 DEF LockCq, TypeOK, RequestTypeOK, ThreadTypeOK, PageTypeOK,
       WireFlag, IsRead, DmaStates
<1>8. ASSUME NEW t \in Threads, UnlockCq(t), KernelSame
      PROVE  WireFlag'
  BY <1>0, <1>8 DEF UnlockCq, TypeOK, RequestTypeOK, ThreadTypeOK, PageTypeOK,
       WireFlag, IsRead, DmaStates
<1>9. ASSUME NEW t \in Threads, PollTargetDone(t), KernelSame
      PROVE  WireFlag'
  BY <1>0, <1>9 DEF PollTargetDone, TypeOK, RequestTypeOK, ThreadTypeOK,
       PageTypeOK, WireFlag, IsRead, DmaStates
<1>10. ASSUME NEW t \in Threads, DrainDone(t), KernelSame
      PROVE  WireFlag'
  BY <1>0, <1>10 DEF DrainDone, LeaveDriver, TypeOK, RequestTypeOK,
       ThreadTypeOK, PageTypeOK, WireFlag, IsRead, DmaStates
<1>11. ASSUME NEW t \in Threads, ThreadCountDown(t), KernelSame
      PROVE  WireFlag'
  BY <1>0, <1>11 DEF ThreadCountDown, CountDown, TypeOK, RequestTypeOK,
       ThreadTypeOK, PageTypeOK, WireFlag, IsRead, DmaStates
<1>12. ASSUME NEW t \in Threads, NEW r \in Reqs, Reap(t, r), KernelSame
      PROVE  WireFlag'
  BY <1>0, <1>12 DEF Reap, TypeOK, RequestTypeOK, ThreadTypeOK, PageTypeOK,
       WireFlag, IsRead, DmaStates
<1>13. ASSUME NEW c \in CPUs, NEW r \in Reqs, SoftirqReap(c, r), KernelSame
      PROVE  WireFlag'
  BY <1>0, <1>13 DEF SoftirqReap, TypeOK, RequestTypeOK, ThreadTypeOK,
       PageTypeOK, WireFlag, IsRead, DmaStates
<1>14. ASSUME NEW c \in CPUs, SoftirqCountDown(c), KernelSame
      PROVE  WireFlag'
  BY <1>0, <1>14 DEF SoftirqCountDown, CountDown, TypeOK, RequestTypeOK,
       ThreadTypeOK, PageTypeOK, WireFlag, IsRead, DmaStates
<1>15. ASSUME NEW r \in Reqs, ReadDonePage(r), KernelSame
      PROVE  WireFlag'
  BY <1>0, <1>15 DEF ReadDonePage, IsRead, DmaExclusive, TypeOK,
       RequestTypeOK, ThreadTypeOK, PageTypeOK, WireFlag, IsRead, DmaStates
<1>16. ASSUME NEW r \in Reqs, HcaExecute(r), KernelSame
      PROVE  WireFlag'
  BY <1>0, <1>16 DEF HcaExecute, Transfer, IsRead, TypeOK, RequestTypeOK,
       ThreadTypeOK, PageTypeOK, WireFlag, IsRead, DmaStates
<1>17. ASSUME NEW r \in Reqs, HcaFail(r), KernelSame
      PROVE  WireFlag'
  <2>1. ~qpErr[rq[r]]
    BY <1>0, <1>17 DEF HcaFail, ReqInv, NoFault
  <2> QED
    BY <1>0, <1>17, <2>1 DEF HcaFail
<1>18. ASSUME NEW p \in Pages, NEW v \in Vals, Touch(p, v)
      PROVE  WireFlag'
  BY <1>0, <1>18 DEF Touch, TypeOK, RequestTypeOK, ThreadTypeOK, PageTypeOK,
       WireFlag, IsRead, DmaStates
<1>19. ASSUME NEW t \in Threads, NEW p \in Pages, NEW c \in CPUs, SwapOut(t, p, c)
      PROVE  WireFlag'
  BY <1>0, <1>19 DEF SwapOut, EnterPost, TypeOK, RequestTypeOK, ThreadTypeOK,
       PageTypeOK, WireFlag, IsRead, DmaStates
<1>20. ASSUME NEW t \in Threads, StoreReturned(t)
      PROVE  WireFlag'
  BY <1>0, <1>20 DEF StoreReturned, TypeOK, RequestTypeOK, ThreadTypeOK,
       PageTypeOK, WireFlag, IsRead, DmaStates
<1>21. ASSUME NEW p \in Pages, ReclaimCached(p)
      PROVE  WireFlag'
  BY <1>0, <1>21 DEF ReclaimCached, TypeOK, RequestTypeOK, ThreadTypeOK,
       PageTypeOK, WireFlag, IsRead, DmaStates
<1>22. ASSUME NEW t \in Threads, NEW p \in Pages, NEW c \in CPUs, SwapIn(t, p, c)
      PROVE  WireFlag'
  BY <1>0, <1>22 DEF SwapIn, TypeOK, RequestTypeOK, ThreadTypeOK, PageTypeOK,
       WireFlag, IsRead, DmaStates
<1>23. ASSUME NEW t \in Threads, NEW p \in Pages, NEW c \in CPUs, ReadAhead(t, p, c)
      PROVE  WireFlag'
  BY <1>0, <1>23 DEF ReadAhead, NewFrame, EnterPost, DmaExclusive, TypeOK,
       RequestTypeOK, ThreadTypeOK, PageTypeOK, WireFlag, IsRead, DmaStates
<1>24. ASSUME NEW t \in Threads, AllocSleep(t)
      PROVE  WireFlag'
  BY <1>0, <1>24 DEF AllocSleep, TypeOK, RequestTypeOK, ThreadTypeOK,
       PageTypeOK, WireFlag, IsRead, DmaStates
<1>25. ASSUME NEW t \in Threads, MapFault(t)
      PROVE  WireFlag'
  BY <1>0, <1>25 DEF MapFault, TypeOK, RequestTypeOK, ThreadTypeOK,
       PageTypeOK, WireFlag, IsRead, DmaStates
<1>26. ASSUME NEW t \in Threads, NEW c \in CPUs, ReadFault(t, c)
      PROVE  WireFlag'
  <2>1. UNCHANGED reqVars /\ fpage[t] \in Pages
    BY <1>0, <1>26 DEF ReadFault, FaultInv
  <2>2. \A p \in Pages : where[p] # "out" => uptodate'[p] = uptodate[p]
    BY <1>0, <1>26, <2>1 DEF ReadFault, NewFrame, TypeOK, PageTypeOK
  <2> QED
    BY <1>0, <2>1, <2>2 DEF DmaExclusive, ReqInv, WireFlag, IsRead, DmaStates
<1>27. ASSUME NEW t \in Threads, NEW c \in CPUs, PollLoad(t, c)
      PROVE  WireFlag'
  BY <1>0, <1>27 DEF PollLoad, EnterDrain, TypeOK, RequestTypeOK,
       ThreadTypeOK, PageTypeOK, WireFlag, IsRead, DmaStates
<1>28. CASE UNCHANGED vars
  BY <1>0, <1>28 DEF TypeOK, RequestTypeOK, ThreadTypeOK, PageTypeOK,
       WireFlag, IsRead, DmaStates
<1> QED
  BY <1>1, <1>2, <1>3, <1>4, <1>5, <1>6, <1>7, <1>8, <1>9, <1>10, <1>11,
       <1>12, <1>13, <1>14, <1>15, <1>16, <1>17, <1>18, <1>19, <1>20, <1>21,
       <1>22, <1>23, <1>24, <1>25, <1>26, <1>27, <1>28 DEF Next, DriverStep,
       ThreadStep, ApplicationStep, ReclaimStep, FaultStep

\* The good copy of a page is never the one that is overwritten or dropped.
LEMMA PageDataStep ==
  ASSUME IInv, DInv, HandInv, Healthy, faults' = 0, [Next]_vars
  PROVE  PageData'
<1> USE ObjectAssumption, CallerAssumption, QueueAssumption
<1> USE DEF vars, driverVars, queueVars, hcaVars, reqVars, callVars, workVars,
            flagVars, dataVars, faultVars, KernelSame
<1>0. TypeOK /\ ReqInv /\ CallInv /\ FaultInv /\ OwnerInv /\ HolderInv /\ ServesInv
      /\ DmaExclusive
      /\ RefInv /\ PostInv /\ NoFault /\ PageFlag /\ CallFlag /\ WireFlag
      /\ PageData /\ WireData /\ StoreData /\ faults = 0 /\ faults' = 0
  BY DEF IInv, DInv, HandInv, Healthy, FlagInv, DataInv
<1>1. ASSUME NEW t \in Threads, Throttle(t), KernelSame
      PROVE  PageData'
  BY <1>0, <1>1 DEF Throttle, TypeOK, RequestTypeOK, ThreadTypeOK, PageTypeOK,
       PageData
<1>2. ASSUME NEW t \in Threads, Admit(t), KernelSame
      PROVE  PageData'
  BY <1>0, <1>2 DEF Admit, TypeOK, RequestTypeOK, ThreadTypeOK, PageTypeOK,
       PageData
<1>3. ASSUME NEW t \in Threads, CountReq(t), KernelSame
      PROVE  PageData'
  BY <1>0, <1>3 DEF CountReq, TypeOK, RequestTypeOK, ThreadTypeOK, PageTypeOK,
       PageData
<1>4. ASSUME NEW t \in Threads, ReqFailed(t), KernelSame
      PROVE  PageData'
  BY <1>0, <1>4 DEF ReqFailed
<1>5. ASSUME NEW t \in Threads, PostSend(t), KernelSame
      PROVE  PageData'
  BY <1>0, <1>5 DEF PostSend, AfterPost, EnterDrain, LeaveDriver, TypeOK,
       RequestTypeOK, ThreadTypeOK, PageTypeOK, PageData
<1>6. ASSUME NEW t \in Threads, PostRefused(t), KernelSame
      PROVE  PageData'
  BY <1>0, <1>6 DEF PostRefused
<1>7. ASSUME NEW t \in Threads, LockCq(t), KernelSame
      PROVE  PageData'
  BY <1>0, <1>7 DEF LockCq, TypeOK, RequestTypeOK, ThreadTypeOK, PageTypeOK,
       PageData
<1>8. ASSUME NEW t \in Threads, UnlockCq(t), KernelSame
      PROVE  PageData'
  BY <1>0, <1>8 DEF UnlockCq, TypeOK, RequestTypeOK, ThreadTypeOK, PageTypeOK,
       PageData
<1>9. ASSUME NEW t \in Threads, PollTargetDone(t), KernelSame
      PROVE  PageData'
  BY <1>0, <1>9 DEF PollTargetDone, TypeOK, RequestTypeOK, ThreadTypeOK,
       PageTypeOK, PageData
<1>10. ASSUME NEW t \in Threads, DrainDone(t), KernelSame
      PROVE  PageData'
  BY <1>0, <1>10 DEF DrainDone, LeaveDriver, TypeOK, RequestTypeOK,
       ThreadTypeOK, PageTypeOK, PageData
<1>11. ASSUME NEW t \in Threads, ThreadCountDown(t), KernelSame
      PROVE  PageData'
  BY <1>0, <1>11 DEF ThreadCountDown, CountDown, TypeOK, RequestTypeOK,
       ThreadTypeOK, PageTypeOK, PageData
<1>12. ASSUME NEW t \in Threads, NEW r \in Reqs, Reap(t, r), KernelSame
      PROVE  PageData'
  BY <1>0, <1>12 DEF Reap, TypeOK, RequestTypeOK, ThreadTypeOK, PageTypeOK,
       PageData
<1>13. ASSUME NEW c \in CPUs, NEW r \in Reqs, SoftirqReap(c, r), KernelSame
      PROVE  PageData'
  BY <1>0, <1>13 DEF SoftirqReap, TypeOK, RequestTypeOK, ThreadTypeOK,
       PageTypeOK, PageData
<1>14. ASSUME NEW c \in CPUs, SoftirqCountDown(c), KernelSame
      PROVE  PageData'
  BY <1>0, <1>14 DEF SoftirqCountDown, CountDown, TypeOK, RequestTypeOK,
       ThreadTypeOK, PageTypeOK, PageData
<1>15. ASSUME NEW r \in Reqs, ReadDonePage(r), KernelSame
      PROVE  PageData'
  <2>1. rpage[r] \in Pages /\ locked[rpage[r]] /\ where[rpage[r]] = "cached"
    BY <1>0, <1>15 DEF ReadDonePage, ReqInv, DmaExclusive, DmaStates
  <2>2. ~uptodate[rpage[r]] /\ val[rpage[r]] = remote[rpage[r]]
    BY <1>0, <1>15 DEF ReadDonePage, WireFlag, WireData, DmaStates
  <2> QED
    BY <1>0, <1>15, <2>1, <2>2 DEF ReadDonePage, TypeOK, PageTypeOK, PageData
<1>16. ASSUME NEW r \in Reqs, HcaExecute(r), KernelSame
      PROVE  PageData'
  <2>1. rpage[r] \in Pages /\ locked[rpage[r]] /\ where[rpage[r]] = "cached"
    BY <1>0, <1>16 DEF HcaExecute, ReqInv, DmaExclusive, DmaStates
  <2>2. uptodate[rpage[r]] <=> ~IsRead(r)
    BY <1>0, <1>16 DEF HcaExecute, WireFlag, DmaStates
  <2>3. UNCHANGED <<where, app, locked, uptodate>>
    BY <1>16 DEF HcaExecute
  <2>4. CASE IsRead(r)
    BY <1>0, <1>16, <2>1, <2>2, <2>3, <2>4 DEF HcaExecute, Transfer, TypeOK,
         PageTypeOK, PageData
  <2>5. CASE ~IsRead(r)
    BY <1>0, <1>16, <2>1, <2>2, <2>3, <2>5 DEF HcaExecute, Transfer, TypeOK,
         PageTypeOK, PageData
  <2> QED
    BY <2>4, <2>5
<1>17. ASSUME NEW r \in Reqs, HcaFail(r), KernelSame
      PROVE  PageData'
  <2>1. ~qpErr[rq[r]]
    BY <1>0, <1>17 DEF HcaFail, ReqInv, NoFault
  <2> QED
    BY <1>0, <1>17, <2>1 DEF HcaFail
<1>18. ASSUME NEW p \in Pages, NEW v \in Vals, Touch(p, v)
      PROVE  PageData'
  BY <1>0, <1>18 DEF Touch, TypeOK, RequestTypeOK, ThreadTypeOK, PageTypeOK,
       PageData
<1>19. ASSUME NEW t \in Threads, NEW p \in Pages, NEW c \in CPUs, SwapOut(t, p, c)
      PROVE  PageData'
  BY <1>0, <1>19 DEF SwapOut, EnterPost, PageFlag, TypeOK, RequestTypeOK,
       ThreadTypeOK, PageTypeOK, PageData
<1>20. ASSUME NEW t \in Threads, StoreReturned(t)
      PROVE  PageData'
  BY <1>0, <1>20 DEF StoreReturned, StoreData, HolderInv, CallFlag, TypeOK,
       RequestTypeOK, ThreadTypeOK, PageTypeOK, PageData
<1>21. ASSUME NEW p \in Pages, ReclaimCached(p)
      PROVE  PageData'
  BY <1>0, <1>21 DEF ReclaimCached, TypeOK, RequestTypeOK, ThreadTypeOK,
       PageTypeOK, PageData
<1>22. ASSUME NEW t \in Threads, NEW p \in Pages, NEW c \in CPUs, SwapIn(t, p, c)
      PROVE  PageData'
  BY <1>0, <1>22 DEF SwapIn, TypeOK, RequestTypeOK, ThreadTypeOK, PageTypeOK,
       PageData
<1>23. ASSUME NEW t \in Threads, NEW p \in Pages, NEW c \in CPUs, ReadAhead(t, p, c)
      PROVE  PageData'
  BY <1>0, <1>23 DEF ReadAhead, NewFrame, EnterPost, TypeOK, RequestTypeOK,
       ThreadTypeOK, PageTypeOK, PageData
<1>24. ASSUME NEW t \in Threads, AllocSleep(t)
      PROVE  PageData'
  BY <1>0, <1>24 DEF AllocSleep, TypeOK, RequestTypeOK, ThreadTypeOK,
       PageTypeOK, PageData
<1>25. ASSUME NEW t \in Threads, MapFault(t)
      PROVE  PageData'
  <2>1. fpage[t] \in Pages => where[fpage[t]] # "out"
    BY <1>0, <1>25, ObjectAssumption DEF MapFault, RefInv
  <2> QED
    BY <1>0, <1>25, <2>1 DEF MapFault, TypeOK, PageTypeOK, PageData
<1>26. ASSUME NEW t \in Threads, NEW c \in CPUs, ReadFault(t, c)
      PROVE  PageData'
  <2>1. UNCHANGED <<app, dataVars>> /\ fpage[t] \in Pages
    BY <1>0, <1>26 DEF ReadFault, FaultInv
  <2>2. CASE UNCHANGED <<where, flagVars>>
    BY <1>0, <2>1, <2>2 DEF PageData
  <2>3. CASE where[fpage[t]] = "out" /\ NewFrame(fpage[t])
    BY <1>0, <2>1, <2>3 DEF NewFrame, TypeOK, PageTypeOK, PageData
  <2> QED
    BY <1>26, <2>2, <2>3 DEF ReadFault
<1>27. ASSUME NEW t \in Threads, NEW c \in CPUs, PollLoad(t, c)
      PROVE  PageData'
  BY <1>0, <1>27 DEF PollLoad, EnterDrain, TypeOK, RequestTypeOK,
       ThreadTypeOK, PageTypeOK, PageData
<1>28. CASE UNCHANGED vars
  BY <1>0, <1>28 DEF TypeOK, RequestTypeOK, ThreadTypeOK, PageTypeOK, PageData
<1> QED
  BY <1>1, <1>2, <1>3, <1>4, <1>5, <1>6, <1>7, <1>8, <1>9, <1>10, <1>11,
       <1>12, <1>13, <1>14, <1>15, <1>16, <1>17, <1>18, <1>19, <1>20, <1>21,
       <1>22, <1>23, <1>24, <1>25, <1>26, <1>27, <1>28 DEF Next, DriverStep,
       ThreadStep, ApplicationStep, ReclaimStep, FaultStep

\* Nobody touches frame or slot between the execution and the handler.
LEMMA WireDataStep ==
  ASSUME IInv, DInv, HandInv, Healthy, faults' = 0, [Next]_vars
  PROVE  WireData'
<1> USE ObjectAssumption, CallerAssumption, QueueAssumption
<1> USE DEF vars, driverVars, queueVars, hcaVars, reqVars, callVars, workVars,
            flagVars, dataVars, faultVars, KernelSame
<1>0. TypeOK /\ ReqInv /\ CallInv /\ FaultInv /\ OwnerInv /\ HolderInv /\ ServesInv
      /\ DmaExclusive
      /\ RefInv /\ PostInv /\ NoFault /\ PageFlag /\ CallFlag /\ WireFlag
      /\ PageData /\ WireData /\ StoreData /\ faults = 0 /\ faults' = 0
  BY DEF IInv, DInv, HandInv, Healthy, FlagInv, DataInv
<1>1. ASSUME NEW t \in Threads, Throttle(t), KernelSame
      PROVE  WireData'
  BY <1>0, <1>1 DEF Throttle, TypeOK, RequestTypeOK, ThreadTypeOK, PageTypeOK,
       WireData, DmaStates
<1>2. ASSUME NEW t \in Threads, Admit(t), KernelSame
      PROVE  WireData'
  BY <1>0, <1>2 DEF Admit, TypeOK, RequestTypeOK, ThreadTypeOK, PageTypeOK,
       WireData, DmaStates
<1>3. ASSUME NEW t \in Threads, CountReq(t), KernelSame
      PROVE  WireData'
  <2>1. PICK r \in Reqs :
          /\ rstate' = [rstate EXCEPT ![r] = "counted"]
          /\ rpage' = [rpage EXCEPT ![r] = dpage[t]]
    BY <1>3 DEF CountReq
  <2>2. UNCHANGED <<val, remote>>
    BY <1>3 DEF CountReq
  <2> QED
    BY <1>0, <2>1, <2>2 DEF TypeOK, RequestTypeOK, WireData
<1>4. ASSUME NEW t \in Threads, ReqFailed(t), KernelSame
      PROVE  WireData'
  BY <1>0, <1>4 DEF ReqFailed
<1>5. ASSUME NEW t \in Threads, PostSend(t), KernelSame
      PROVE  WireData'
  BY <1>0, <1>5 DEF PostSend, AfterPost, EnterDrain, LeaveDriver, OwnerInv,
       TypeOK, RequestTypeOK, ThreadTypeOK, PageTypeOK, WireData, DmaStates
<1>6. ASSUME NEW t \in Threads, PostRefused(t), KernelSame
      PROVE  WireData'
  BY <1>0, <1>6 DEF PostRefused
<1>7. ASSUME NEW t \in Threads, LockCq(t), KernelSame
      PROVE  WireData'
  BY <1>0, <1>7 DEF LockCq, TypeOK, RequestTypeOK, ThreadTypeOK, PageTypeOK,
       WireData, DmaStates
<1>8. ASSUME NEW t \in Threads, UnlockCq(t), KernelSame
      PROVE  WireData'
  BY <1>0, <1>8 DEF UnlockCq, TypeOK, RequestTypeOK, ThreadTypeOK, PageTypeOK,
       WireData, DmaStates
<1>9. ASSUME NEW t \in Threads, PollTargetDone(t), KernelSame
      PROVE  WireData'
  BY <1>0, <1>9 DEF PollTargetDone, TypeOK, RequestTypeOK, ThreadTypeOK,
       PageTypeOK, WireData, DmaStates
<1>10. ASSUME NEW t \in Threads, DrainDone(t), KernelSame
      PROVE  WireData'
  BY <1>0, <1>10 DEF DrainDone, LeaveDriver, TypeOK, RequestTypeOK,
       ThreadTypeOK, PageTypeOK, WireData, DmaStates
<1>11. ASSUME NEW t \in Threads, ThreadCountDown(t), KernelSame
      PROVE  WireData'
  BY <1>0, <1>11 DEF ThreadCountDown, CountDown, TypeOK, RequestTypeOK,
       ThreadTypeOK, PageTypeOK, WireData, DmaStates
<1>12. ASSUME NEW t \in Threads, NEW r \in Reqs, Reap(t, r), KernelSame
      PROVE  WireData'
  BY <1>0, <1>12 DEF Reap, TypeOK, RequestTypeOK, ThreadTypeOK, PageTypeOK,
       WireData, DmaStates
<1>13. ASSUME NEW c \in CPUs, NEW r \in Reqs, SoftirqReap(c, r), KernelSame
      PROVE  WireData'
  BY <1>0, <1>13 DEF SoftirqReap, TypeOK, RequestTypeOK, ThreadTypeOK,
       PageTypeOK, WireData, DmaStates
<1>14. ASSUME NEW c \in CPUs, SoftirqCountDown(c), KernelSame
      PROVE  WireData'
  BY <1>0, <1>14 DEF SoftirqCountDown, CountDown, TypeOK, RequestTypeOK,
       ThreadTypeOK, PageTypeOK, WireData, DmaStates
<1>15. ASSUME NEW r \in Reqs, ReadDonePage(r), KernelSame
      PROVE  WireData'
  BY <1>0, <1>15 DEF ReadDonePage, IsRead, TypeOK, RequestTypeOK,
       ThreadTypeOK, PageTypeOK, WireData, DmaStates
<1>16. ASSUME NEW r \in Reqs, HcaExecute(r), KernelSame
      PROVE  WireData'
  <2>1. \A s \in Reqs \ {r} : rstate[s] \in {"cqe", "reaped"}
          => rpage[s] # rpage[r] /\ rpage[s] \in Pages
    BY <1>0, <1>16 DEF HcaExecute, DmaExclusive, ReqInv, DmaStates
  <2>2. rpage[r] \in Pages
    BY <1>0, <1>16 DEF HcaExecute, ReqInv
  <2>3. CASE IsRead(r)
    BY <1>0, <1>16, <2>1, <2>2, <2>3 DEF HcaExecute, Transfer, TypeOK,
         RequestTypeOK, PageTypeOK, WireData
  <2>4. CASE ~IsRead(r)
    BY <1>0, <1>16, <2>1, <2>2, <2>4 DEF HcaExecute, Transfer, TypeOK,
         RequestTypeOK, PageTypeOK, WireData
  <2> QED
    BY <2>3, <2>4
<1>17. ASSUME NEW r \in Reqs, HcaFail(r), KernelSame
      PROVE  WireData'
  <2>1. ~qpErr[rq[r]]
    BY <1>0, <1>17 DEF HcaFail, ReqInv, NoFault
  <2> QED
    BY <1>0, <1>17, <2>1 DEF HcaFail
<1>18. ASSUME NEW p \in Pages, NEW v \in Vals, Touch(p, v)
      PROVE  WireData'
  BY <1>0, <1>18 DEF Touch, DmaExclusive, ReqInv, TypeOK, RequestTypeOK,
       ThreadTypeOK, PageTypeOK, WireData, DmaStates
<1>19. ASSUME NEW t \in Threads, NEW p \in Pages, NEW c \in CPUs, SwapOut(t, p, c)
      PROVE  WireData'
  BY <1>0, <1>19 DEF SwapOut, EnterPost, TypeOK, RequestTypeOK, ThreadTypeOK,
       PageTypeOK, WireData, DmaStates
<1>20. ASSUME NEW t \in Threads, StoreReturned(t)
      PROVE  WireData'
  BY <1>0, <1>20 DEF StoreReturned, TypeOK, RequestTypeOK, ThreadTypeOK,
       PageTypeOK, WireData, DmaStates
<1>21. ASSUME NEW p \in Pages, ReclaimCached(p)
      PROVE  WireData'
  BY <1>0, <1>21 DEF ReclaimCached, DmaExclusive, ReqInv, TypeOK,
       RequestTypeOK, ThreadTypeOK, PageTypeOK, WireData, DmaStates
<1>22. ASSUME NEW t \in Threads, NEW p \in Pages, NEW c \in CPUs, SwapIn(t, p, c)
      PROVE  WireData'
  BY <1>0, <1>22 DEF SwapIn, TypeOK, RequestTypeOK, ThreadTypeOK, PageTypeOK,
       WireData, DmaStates
<1>23. ASSUME NEW t \in Threads, NEW p \in Pages, NEW c \in CPUs, ReadAhead(t, p, c)
      PROVE  WireData'
  BY <1>0, <1>23 DEF ReadAhead, NewFrame, EnterPost, TypeOK, RequestTypeOK,
       ThreadTypeOK, PageTypeOK, WireData, DmaStates
<1>24. ASSUME NEW t \in Threads, AllocSleep(t)
      PROVE  WireData'
  BY <1>0, <1>24 DEF AllocSleep, TypeOK, RequestTypeOK, ThreadTypeOK,
       PageTypeOK, WireData, DmaStates
<1>25. ASSUME NEW t \in Threads, MapFault(t)
      PROVE  WireData'
  BY <1>0, <1>25 DEF MapFault, TypeOK, RequestTypeOK, ThreadTypeOK,
       PageTypeOK, WireData, DmaStates
<1>26. ASSUME NEW t \in Threads, NEW c \in CPUs, ReadFault(t, c)
      PROVE  WireData'
  BY <1>0, <1>26 DEF ReadFault, NewFrame, EnterPost, TypeOK, RequestTypeOK,
       ThreadTypeOK, PageTypeOK, WireData, DmaStates
<1>27. ASSUME NEW t \in Threads, NEW c \in CPUs, PollLoad(t, c)
      PROVE  WireData'
  BY <1>0, <1>27 DEF PollLoad, EnterDrain, TypeOK, RequestTypeOK,
       ThreadTypeOK, PageTypeOK, WireData, DmaStates
<1>28. CASE UNCHANGED vars
  BY <1>0, <1>28 DEF TypeOK, RequestTypeOK, ThreadTypeOK, PageTypeOK,
       WireData, DmaStates
<1> QED
  BY <1>1, <1>2, <1>3, <1>4, <1>5, <1>6, <1>7, <1>8, <1>9, <1>10, <1>11,
       <1>12, <1>13, <1>14, <1>15, <1>16, <1>17, <1>18, <1>19, <1>20, <1>21,
       <1>22, <1>23, <1>24, <1>25, <1>26, <1>27, <1>28 DEF Next, DriverStep,
       ThreadStep, ApplicationStep, ReclaimStep, FaultStep

\* A store that returns has been executed.
LEMMA StoreDataStep ==
  ASSUME IInv, DInv, HandInv, Healthy, faults' = 0, [Next]_vars
  PROVE  StoreData'
<1> USE ObjectAssumption, CallerAssumption, QueueAssumption
<1> USE DEF vars, driverVars, queueVars, hcaVars, reqVars, callVars, workVars,
            flagVars, dataVars, faultVars, KernelSame
<1>0. TypeOK /\ ReqInv /\ CallInv /\ FaultInv /\ OwnerInv /\ HolderInv /\ ServesInv
      /\ DmaExclusive
      /\ RefInv /\ PostInv /\ NoFault /\ PageFlag /\ CallFlag /\ WireFlag
      /\ PageData /\ WireData /\ StoreData /\ faults = 0 /\ faults' = 0
  BY DEF IInv, DInv, HandInv, Healthy, FlagInv, DataInv
<1>1. ASSUME NEW t \in Threads, Throttle(t), KernelSame
      PROVE  StoreData'
  BY <1>0, <1>1 DEF Throttle, TypeOK, RequestTypeOK, ThreadTypeOK, PageTypeOK,
       StoreData, PostPcs, PollPcs
<1>2. ASSUME NEW t \in Threads, Admit(t), KernelSame
      PROVE  StoreData'
  BY <1>0, <1>2 DEF Admit, TypeOK, RequestTypeOK, ThreadTypeOK, PageTypeOK,
       StoreData, PostPcs, PollPcs
<1>3. ASSUME NEW t \in Threads, CountReq(t), KernelSame
      PROVE  StoreData'
  BY <1>0, <1>3 DEF CountReq, TypeOK, RequestTypeOK, ThreadTypeOK, PageTypeOK,
       StoreData, PostPcs, PollPcs
<1>4. ASSUME NEW t \in Threads, ReqFailed(t), KernelSame
      PROVE  StoreData'
  BY <1>0, <1>4 DEF ReqFailed
<1>5. ASSUME NEW t \in Threads, PostSend(t), KernelSame
      PROVE  StoreData'
  <2>1. dreq[t] \in Reqs /\ rpage[dreq[t]] = dpage[t]
    BY <1>0, <1>5 DEF PostSend, OwnerInv, PostInv
  <2>2. UNCHANGED <<val, remote, rpage>> /\ rstate' = [rstate EXCEPT ![dreq[t]] = "posted"]
    BY <1>5 DEF PostSend
  <2>3. \A s \in Reqs : rstate[s] = "posted" => rstate'[s] = "posted"
    BY <1>0, <2>1, <2>2 DEF TypeOK, RequestTypeOK
  <2>4. rstate'[dreq[t]] = "posted"
    BY <1>0, <2>1, <2>2 DEF TypeOK, RequestTypeOK
  <2>5. CASE dq[t][2] = "WRITE_SYNC"
    <3>1. dpage' = dpage /\ pc' = [pc EXCEPT ![t] = "spin"]
          /\ loop' = [loop EXCEPT ![t] = "drain"]
      BY <1>5, <2>5 DEF PostSend, AfterPost, EnterDrain
    <3> QED
      BY <1>0, <2>1, <2>2, <2>3, <2>4, <3>1 DEF TypeOK, ThreadTypeOK, StoreData,
           PollPcs
  <2>6. CASE dq[t][2] # "WRITE_SYNC"
    <3>1. dpage' = [dpage EXCEPT ![t] = None] /\ pc' = [pc EXCEPT ![t] = "readahead"]
          /\ loop' = loop
      BY <1>5, <2>6 DEF PostSend, AfterPost, LeaveDriver
    <3> QED
      BY <1>0, <2>1, <2>2, <2>3, <3>1 DEF TypeOK, ThreadTypeOK, StoreData, PollPcs
  <2> QED
    BY <2>5, <2>6
<1>6. ASSUME NEW t \in Threads, PostRefused(t), KernelSame
      PROVE  StoreData'
  BY <1>0, <1>6 DEF PostRefused
<1>7. ASSUME NEW t \in Threads, LockCq(t), KernelSame
      PROVE  StoreData'
  BY <1>0, <1>7 DEF LockCq, TypeOK, RequestTypeOK, ThreadTypeOK, PageTypeOK,
       StoreData, PostPcs, PollPcs
<1>8. ASSUME NEW t \in Threads, UnlockCq(t), KernelSame
      PROVE  StoreData'
  BY <1>0, <1>8 DEF UnlockCq, TypeOK, RequestTypeOK, ThreadTypeOK, PageTypeOK,
       StoreData, PostPcs, PollPcs
<1>9. ASSUME NEW t \in Threads, PollTargetDone(t), KernelSame
      PROVE  StoreData'
  BY <1>0, <1>9 DEF PollTargetDone, TypeOK, RequestTypeOK, ThreadTypeOK,
       PageTypeOK, StoreData, PostPcs, PollPcs
<1>10. ASSUME NEW t \in Threads, DrainDone(t), KernelSame
      PROVE  StoreData'
  <2>1. dq[t] \in Queues /\ pc[t] = "spin" /\ loop[t] = "drain"
    BY <1>0, <1>10 DEF DrainDone, CallInv, PostPcs, PollPcs
  <2>2. ~(pending[dq[t]] > 0)
    BY <1>10 DEF DrainDone, KeepPolling
  <2>3. \A s \in Reqs : rstate[s] = "posted" => rq[s] # dq[t]
    BY <1>0, <2>1, <2>2, Drained DEF IInv, CountedStates
  <2>4. \A s \in Reqs : rstate[s] = "posted" => rpage[s] # dpage[t]
    BY <1>0, <2>1, <2>3 DEF ServesInv, DmaStates
  <2> QED
    BY <1>0, <1>10, <2>1, <2>4 DEF DrainDone, LeaveDriver, TypeOK, ThreadTypeOK,
         StoreData, PollPcs
<1>11. ASSUME NEW t \in Threads, ThreadCountDown(t), KernelSame
      PROVE  StoreData'
  <2>1. \A s \in Reqs : rstate[s] = "posted" => rstate'[s] = "posted" /\ rpage'[s] = rpage[s]
    <3>1. \A s \in Reqs : rstate[s] = "posted" => \A x \in OwnedDone : rstate[s] # x
      BY DEF OwnedDone
    <3> QED
      BY <1>0, <3>1, <1>11 DEF ThreadCountDown, CountDown, OwnerInv, TypeOK,
           RequestTypeOK
  <2> QED
    BY <1>0, <1>11, <2>1 DEF ThreadCountDown, TypeOK, ThreadTypeOK, StoreData,
         PollPcs
<1>12. ASSUME NEW t \in Threads, NEW r \in Reqs, Reap(t, r), KernelSame
      PROVE  StoreData'
  BY <1>0, <1>12 DEF Reap, TypeOK, RequestTypeOK, ThreadTypeOK, PageTypeOK,
       StoreData, PostPcs, PollPcs
<1>13. ASSUME NEW c \in CPUs, NEW r \in Reqs, SoftirqReap(c, r), KernelSame
      PROVE  StoreData'
  BY <1>0, <1>13 DEF SoftirqReap, TypeOK, RequestTypeOK, ThreadTypeOK,
       PageTypeOK, StoreData, PostPcs, PollPcs
<1>14. ASSUME NEW c \in CPUs, SoftirqCountDown(c), KernelSame
      PROVE  StoreData'
  <2>1. \A s \in Reqs : rstate[s] = "posted" => rstate'[s] = "posted" /\ rpage'[s] = rpage[s]
    <3>1. \A s \in Reqs : rstate[s] = "posted" => \A x \in OwnedDone : rstate[s] # x
      BY DEF OwnedDone
    <3> QED
      BY <1>0, <3>1, <1>14 DEF SoftirqCountDown, CountDown, OwnerInv, TypeOK,
           RequestTypeOK
  <2> QED
    BY <1>0, <1>14, <2>1 DEF SoftirqCountDown, StoreData
<1>15. ASSUME NEW r \in Reqs, ReadDonePage(r), KernelSame
      PROVE  StoreData'
  BY <1>0, <1>15 DEF ReadDonePage, IsRead, TypeOK, RequestTypeOK,
       ThreadTypeOK, PageTypeOK, StoreData, PostPcs, PollPcs
<1>16. ASSUME NEW r \in Reqs, HcaExecute(r), KernelSame
      PROVE  StoreData'
  <2>1. UNCHANGED <<dpage, pc, loop, rpage>> /\ rpage[r] \in Pages
    BY <1>0, <1>16 DEF HcaExecute, ReqInv
  <2>2. rstate' = [rstate EXCEPT ![r] = "cqe"]
    BY <1>16 DEF HcaExecute
  <2>3. val'[rpage[r]] = remote'[rpage[r]]
    BY <1>0, <1>16, <2>1 DEF HcaExecute, Transfer, TypeOK, PageTypeOK
  <2>4. \A p \in Pages \ {rpage[r]} : val'[p] = val[p] /\ remote'[p] = remote[p]
    BY <1>0, <1>16, <2>1 DEF HcaExecute, Transfer, TypeOK, PageTypeOK
  <2> QED
    BY <1>0, <2>1, <2>2, <2>3, <2>4 DEF TypeOK, RequestTypeOK, ThreadTypeOK,
         StoreData
<1>17. ASSUME NEW r \in Reqs, HcaFail(r), KernelSame
      PROVE  StoreData'
  <2>1. ~qpErr[rq[r]]
    BY <1>0, <1>17 DEF HcaFail, ReqInv, NoFault
  <2> QED
    BY <1>0, <1>17, <2>1 DEF HcaFail
<1>18. ASSUME NEW p \in Pages, NEW v \in Vals, Touch(p, v)
      PROVE  StoreData'
  BY <1>0, <1>18 DEF Touch, HolderInv, TypeOK, RequestTypeOK, ThreadTypeOK,
       PageTypeOK, StoreData, PostPcs, PollPcs
<1>19. ASSUME NEW t \in Threads, NEW p \in Pages, NEW c \in CPUs, SwapOut(t, p, c)
      PROVE  StoreData'
  BY <1>0, <1>19 DEF SwapOut, EnterPost, TypeOK, RequestTypeOK, ThreadTypeOK,
       PageTypeOK, StoreData, PostPcs, PollPcs
<1>20. ASSUME NEW t \in Threads, StoreReturned(t)
      PROVE  StoreData'
  BY <1>0, <1>20 DEF StoreReturned, TypeOK, RequestTypeOK, ThreadTypeOK,
       PageTypeOK, StoreData, PostPcs, PollPcs
<1>21. ASSUME NEW p \in Pages, ReclaimCached(p)
      PROVE  StoreData'
  BY <1>0, <1>21 DEF ReclaimCached, HolderInv, TypeOK, RequestTypeOK,
       ThreadTypeOK, PageTypeOK, StoreData, PostPcs, PollPcs
<1>22. ASSUME NEW t \in Threads, NEW p \in Pages, NEW c \in CPUs, SwapIn(t, p, c)
      PROVE  StoreData'
  BY <1>0, <1>22 DEF SwapIn, TypeOK, RequestTypeOK, ThreadTypeOK, PageTypeOK,
       StoreData, PostPcs, PollPcs
<1>23. ASSUME NEW t \in Threads, NEW p \in Pages, NEW c \in CPUs, ReadAhead(t, p, c)
      PROVE  StoreData'
  BY <1>0, <1>23 DEF ReadAhead, NewFrame, EnterPost, TypeOK, RequestTypeOK,
       ThreadTypeOK, PageTypeOK, StoreData, PostPcs, PollPcs
<1>24. ASSUME NEW t \in Threads, AllocSleep(t)
      PROVE  StoreData'
  BY <1>0, <1>24 DEF AllocSleep, TypeOK, RequestTypeOK, ThreadTypeOK,
       PageTypeOK, StoreData, PostPcs, PollPcs
<1>25. ASSUME NEW t \in Threads, MapFault(t)
      PROVE  StoreData'
  BY <1>0, <1>25 DEF MapFault, TypeOK, RequestTypeOK, ThreadTypeOK,
       PageTypeOK, StoreData, PostPcs, PollPcs
<1>26. ASSUME NEW t \in Threads, NEW c \in CPUs, ReadFault(t, c)
      PROVE  StoreData'
  BY <1>0, <1>26 DEF ReadFault, NewFrame, EnterPost, TypeOK, RequestTypeOK,
       ThreadTypeOK, PageTypeOK, StoreData, PostPcs, PollPcs
<1>27. ASSUME NEW t \in Threads, NEW c \in CPUs, PollLoad(t, c)
      PROVE  StoreData'
  BY <1>0, <1>27 DEF PollLoad, EnterDrain, HolderInv, TypeOK, RequestTypeOK,
       ThreadTypeOK, PageTypeOK, StoreData, PostPcs, PollPcs
<1>28. CASE UNCHANGED vars
  BY <1>0, <1>28 DEF TypeOK, RequestTypeOK, ThreadTypeOK, PageTypeOK,
       StoreData, PostPcs, PollPcs
<1> QED
  BY <1>1, <1>2, <1>3, <1>4, <1>5, <1>6, <1>7, <1>8, <1>9, <1>10, <1>11,
       <1>12, <1>13, <1>14, <1>15, <1>16, <1>17, <1>18, <1>19, <1>20, <1>21,
       <1>22, <1>23, <1>24, <1>25, <1>26, <1>27, <1>28 DEF Next, DriverStep,
       ThreadStep, ApplicationStep, ReclaimStep, FaultStep

\* Faults are counted, never forgotten.
LEMMA FaultsGrow == ASSUME IInv, [Next]_vars, faults' = 0 PROVE faults = 0
<1> USE DEF vars, driverVars, queueVars, hcaVars, reqVars, callVars, workVars,
            flagVars, dataVars, faultVars
<1>1. faults \in Nat
  BY QueueAssumption DEF IInv, TypeOK, QueueTypeOK
<1>2. faults' = faults \/ faults' = faults + 1
  BY DEF Next, DriverStep, ThreadStep, ApplicationStep, ReclaimStep, FaultStep,
       Throttle, Admit, CountReq, PostSend, LockCq, UnlockCq, PollTargetDone, DrainDone,
       ThreadCountDown, ReqFailed, PostRefused, Reap, SoftirqReap, SoftirqCountDown,
       ReadDonePage, HcaExecute, HcaFail, Touch, SwapOut, StoreReturned, ReclaimCached,
       SwapIn, ReadAhead, AllocSleep, MapFault, ReadFault, PollLoad
<1> QED
  BY <1>1, <1>2

\* Without a failure no queue pair enters the error state.
LEMMA NoFaultStep ==
  ASSUME IInv, NoFault, faults = 0, faults' = 0, [Next]_vars PROVE NoFault'
<1> USE DEF vars, driverVars, queueVars, hcaVars, reqVars, callVars, workVars,
            flagVars, dataVars, faultVars
<1>1. UNCHANGED qpErr
  BY DEF Next, DriverStep, ThreadStep, ApplicationStep, ReclaimStep, FaultStep,
       Throttle, Admit, CountReq, PostSend, LockCq, UnlockCq, PollTargetDone, DrainDone,
       ThreadCountDown, ReqFailed, PostRefused, Reap, SoftirqReap, SoftirqCountDown,
       ReadDonePage, HcaExecute, HcaFail, Touch, SwapOut, StoreReturned, ReclaimCached,
       SwapIn, ReadAhead, AllocSleep, MapFault, ReadFault, PollLoad
<1> QED
  BY <1>1 DEF NoFault

\* A step without a fault keeps flags and data.
LEMMA CleanStep ==
  ASSUME IInv, DInv, HandInv, CleanInv, [Next]_vars PROVE CleanInv'
<1> SUFFICES ASSUME faults' = 0 PROVE NoFault' /\ FlagInv' /\ DataInv'
  BY DEF CleanInv
<1>1. Healthy
  BY FaultsGrow DEF CleanInv, Healthy
<1>2. NoFault'
  BY <1>1, NoFaultStep DEF Healthy
<1>3. FlagInv'
  BY <1>1, PageFlagStep, CallFlagStep, WireFlagStep DEF FlagInv
<1>4. DataInv'
  BY <1>1, PageDataStep, WireDataStep, StoreDataStep DEF DataInv
<1> QED
  BY <1>2, <1>3, <1>4

\* Every page is mapped and up to date at the start.
LEMMA InitClean == Init => HandInv /\ CleanInv
<1> SUFFICES ASSUME Init PROVE HandInv /\ CleanInv
  OBVIOUS
<1>1. \A t \in Threads : fpage[t] = None /\ dpage[t] = None /\ pc[t] = "idle"
  BY DEF Init, DriverInit
<1>2. \A r \in Reqs : rstate[r] = "free"
  BY DEF Init, DriverInit
<1>3. \A p \in Pages : where[p] = "mapped" /\ uptodate[p] /\ val[p] = app[p]
  BY DEF Init
<1>4. HandInv
  BY <1>1 DEF HandInv, RefInv, PostInv
<1>5. NoFault
  BY DEF Init, DriverInit, NoFault
<1>6. FlagInv
  BY <1>1, <1>2, <1>3 DEF FlagInv, PageFlag, CallFlag, WireFlag, DmaStates
<1>7. DataInv
  BY <1>1, <1>2, <1>3 DEF DataInv, PageData, WireData, StoreData
<1> QED
  BY <1>4, <1>5, <1>6, <1>7 DEF CleanInv

\* Where every page's good copy is, as an invariant of SwapPath.
THEOREM CopiesKept == Spec => [](IInv /\ DInv /\ HandInv /\ CleanInv)
<1>1. IInv /\ DInv /\ HandInv /\ CleanInv /\ [Next]_vars => HandInv' /\ CleanInv'
  BY RefStep, PostStep, CleanStep DEF HandInv
<1> QED
  BY HoldersKept, InitClean, <1>1, PTL DEF Spec

\* As long as no request, post or completion has failed, a mapped page holds
\* what the application last wrote to it, on any number of CPUs and however the
\* stores, prefetches, faults and migrations interleave.
THEOREM IntegrityCorrect == Spec => [](faults = 0 => Integrity)
<1>1. CleanInv => (faults = 0 => Integrity)
  BY DEF CleanInv, DataInv, PageData, Integrity
<1> QED
  BY <1>1, CopiesKept, PTL

-----------------------------------------------------------------------------
(* The refinement: every step of SwapPath that moves a page or its contents *)
(* is one step of FarMemory, and every other step is none.                 *)

\* What PhaseOf reads off a page, before and after a step.
LEMMA PhaseCases ==
  ASSUME NEW p \in Pages
  PROVE  /\ where[p] = "mapped" => PhaseOf(p) = "mapped"
         /\ where[p] = "out" => PhaseOf(p) = "out"
         /\ where[p] = "cached" /\ ~locked[p] => PhaseOf(p) = "cached"
         /\ where[p] = "cached" /\ locked[p] /\ uptodate[p] => PhaseOf(p) = "storing"
         /\ where[p] = "cached" /\ locked[p] /\ ~uptodate[p] => PhaseOf(p) = "loading"
  BY DEF PhaseOf

\* The same after a step.
LEMMA PhaseCasesNext ==
  ASSUME NEW p \in Pages
  PROVE  /\ where'[p] = "mapped" => PhaseOf(p)' = "mapped"
         /\ where'[p] = "out" => PhaseOf(p)' = "out"
         /\ where'[p] = "cached" /\ ~locked'[p] => PhaseOf(p)' = "cached"
         /\ where'[p] = "cached" /\ locked'[p] /\ uptodate'[p] => PhaseOf(p)' = "storing"
         /\ where'[p] = "cached" /\ locked'[p] /\ ~uptodate'[p] => PhaseOf(p)' = "loading"
  BY DEF PhaseOf

\* A page whose place and flags stay the same keeps its phase.
LEMMA PhaseSame ==
  ASSUME NEW p \in Pages, where'[p] = where[p], locked'[p] = locked[p],
         uptodate'[p] = uptodate[p]
  PROVE  PhaseOf(p)' = PhaseOf(p)
  BY DEF PhaseOf

\* What changes no place and no flag changes no phase.
LEMMA PhasesSame ==
  ASSUME UNCHANGED <<where, locked, uptodate>>
  PROVE  UNCHANGED [p \in Pages |-> PhaseOf(p)]
  BY PhaseSame

\* A step that changes the phase of one page is a Move of FarMemory.
LEMMA PhaseMove ==
  ASSUME NEW x \in Pages, NEW from, NEW to, PhaseOf(x) = from, PhaseOf(x)' = to,
         \A p \in Pages \ {x} :
           where'[p] = where[p] /\ locked'[p] = locked[p] /\ uptodate'[p] = uptodate[p]
  PROVE  FM!Move(x, from, to)
<1>1. \A p \in Pages \ {x} : PhaseOf(p)' = PhaseOf(p)
  BY PhaseSame
<1>2. [p \in Pages |-> PhaseOf(p)]' = [[p \in Pages |-> PhaseOf(p)] EXCEPT ![x] = to]
  BY <1>1
<1> QED
  BY <1>2 DEF FM!Move

\* Every step of a run without faults is a step of FarMemory or leaves it alone.
LEMMA RefineStep ==
  ASSUME IInv, DInv, HandInv, Healthy, faults' = 0, [Next]_vars
  PROVE  [FM!FMNext]_(FM!fmVars)
<1> USE ObjectAssumption, CallerAssumption, QueueAssumption
<1> USE DEF vars, driverVars, queueVars, hcaVars, reqVars, callVars, workVars,
            flagVars, dataVars, faultVars, KernelSame
<1>0. TypeOK /\ ReqInv /\ CallInv /\ FaultInv /\ OwnerInv /\ HolderInv /\ ServesInv
      /\ DmaExclusive
      /\ RefInv /\ PostInv /\ NoFault /\ PageFlag /\ CallFlag /\ WireFlag
      /\ PageData /\ WireData /\ StoreData /\ faults = 0 /\ faults' = 0
  BY DEF IInv, DInv, HandInv, Healthy, FlagInv, DataInv
<1>1. UNCHANGED <<where, flagVars, dataVars>> => UNCHANGED FM!fmVars
  BY PhasesSame DEF FM!fmVars
<1>2. ASSUME NEW t \in Threads, ThreadStep(t), KernelSame
      PROVE  UNCHANGED <<where, flagVars, dataVars>>
  BY <1>2 DEF ThreadStep, Throttle, Admit, CountReq, PostSend, LockCq, UnlockCq,
       PollTargetDone, DrainDone, ThreadCountDown
<1>3. ASSUME NEW t \in Threads, ReqFailed(t) \/ PostRefused(t)
      PROVE  FALSE
  BY <1>0, <1>3 DEF ReqFailed, PostRefused
<1>4. ASSUME NEW r \in Reqs, HcaFail(r)
      PROVE  FALSE
  <2>1. ~qpErr[rq[r]]
    BY <1>0, <1>4 DEF HcaFail, ReqInv, NoFault
  <2> QED
    BY <1>0, <1>4, <2>1 DEF HcaFail
<1>5. /\ \A t \in Threads, r \in Reqs : Reap(t, r) => UNCHANGED <<flagVars, dataVars>>
      /\ \A c \in CPUs, r \in Reqs : SoftirqReap(c, r) => UNCHANGED <<flagVars, dataVars>>
      /\ \A c \in CPUs : SoftirqCountDown(c) => UNCHANGED <<flagVars, dataVars>>
  BY DEF Reap, SoftirqReap, SoftirqCountDown
<1>6. ASSUME NEW r \in Reqs, HcaExecute(r), KernelSame
      PROVE  FM!FMNext
  <2>1. rpage[r] \in Pages /\ locked[rpage[r]] /\ where[rpage[r]] = "cached"
    BY <1>0, <1>6 DEF HcaExecute, ReqInv, DmaExclusive, DmaStates
  <2>2. uptodate[rpage[r]] <=> ~IsRead(r)
    BY <1>0, <1>6 DEF HcaExecute, WireFlag, DmaStates
  <2>3. UNCHANGED <<where, locked, uptodate>>
    BY <1>6 DEF HcaExecute
  <2>4. UNCHANGED [p \in Pages |-> PhaseOf(p)]
    BY <2>3, PhasesSame
  <2>5. CASE IsRead(r)
    <3>1. PhaseOf(rpage[r]) = "loading"
      BY <2>1, <2>2, <2>5, PhaseCases
    <3>2. FM!Get(rpage[r])
      BY <1>6, <2>1, <2>4, <2>5, <3>1 DEF HcaExecute, Transfer, FM!Get
    <3> QED
      BY <2>1, <3>2 DEF FM!FMNext
  <2>6. CASE ~IsRead(r)
    <3>1. PhaseOf(rpage[r]) = "storing"
      BY <2>1, <2>2, <2>6, PhaseCases
    <3>2. FM!Put(rpage[r])
      BY <1>6, <2>1, <2>4, <2>6, <3>1 DEF HcaExecute, Transfer, FM!Put
    <3> QED
      BY <2>1, <3>2 DEF FM!FMNext
  <2> QED
    BY <2>5, <2>6
<1>7. ASSUME NEW r \in Reqs, ReadDonePage(r), KernelSame
      PROVE  FM!FMNext
  <2>0. PICK p \in Pages : p = rpage[r]
    BY <1>0, <1>7 DEF ReadDonePage, ReqInv
  <2>1. locked[p] /\ where[p] = "cached"
    BY <1>0, <1>7, <2>0 DEF ReadDonePage, DmaExclusive, DmaStates
  <2>2. ~uptodate[p] /\ val[p] = remote[p]
    BY <1>0, <1>7, <2>0 DEF ReadDonePage, WireFlag, WireData, DmaStates
  <2>3. PhaseOf(p) = "loading"
    BY <2>1, <2>2, PhaseCases
  <2>4. where'[p] = "cached" /\ ~locked'[p]
    BY <1>0, <1>7, <2>0, <2>1 DEF ReadDonePage, TypeOK, PageTypeOK
  <2>5. PhaseOf(p)' = "cached"
    BY <2>1, <2>4, PhaseCasesNext
  <2>6. FM!Move(p, "loading", "cached")
    BY <1>0, <1>7, <2>0, <2>1, <2>3, <2>5, PhaseMove DEF ReadDonePage, TypeOK,
         PageTypeOK
  <2>7. FM!EndLoad(p)
    BY <1>7, <2>2, <2>6 DEF ReadDonePage, FM!EndLoad
  <2> QED
    BY <2>1, <2>7 DEF FM!FMNext
<1>8. ASSUME NEW p \in Pages, NEW v \in Vals, Touch(p, v)
      PROVE  FM!FMNext
  <2>1. UNCHANGED [q \in Pages |-> PhaseOf(q)]
    BY <1>8, PhasesSame DEF Touch
  <2>2. PhaseOf(p) = "mapped"
    BY <1>8, PhaseCases DEF Touch
  <2>3. FM!Write(p, v)
    BY <1>8, <2>1, <2>2 DEF Touch, FM!Write
  <2> QED
    BY <2>3 DEF FM!FMNext
<1>9. ASSUME NEW t \in Threads, NEW p \in Pages, NEW c \in CPUs, SwapOut(t, p, c)
      PROVE  FM!FMNext
  <2>1. PhaseOf(p) = "mapped" /\ uptodate[p]
    BY <1>0, <1>9, PhaseCases DEF SwapOut, PageFlag
  <2>2. where'[p] = "cached" /\ locked'[p] /\ uptodate'[p]
    BY <1>0, <1>9, <2>1 DEF SwapOut, TypeOK, PageTypeOK
  <2>3. PhaseOf(p)' = "storing"
    BY <2>2, PhaseCasesNext
  <2>4. FM!Move(p, "mapped", "storing")
    BY <1>0, <1>9, <2>1, <2>3, PhaseMove DEF SwapOut, TypeOK, PageTypeOK
  <2>5. FM!BeginStore(p)
    BY <1>9, <2>4 DEF SwapOut, FM!BeginStore
  <2> QED
    BY <2>5 DEF FM!FMNext
<1>10. ASSUME NEW t \in Threads, StoreReturned(t)
      PROVE  [FM!FMNext]_(FM!fmVars)
  <2>1. CASE dpage[t] \notin Pages
    BY <1>0, <1>1, <1>10, <2>1 DEF StoreReturned, TypeOK, PageTypeOK
  <2>2. CASE dpage[t] \in Pages
    <3>0. PICK p \in Pages : p = dpage[t]
      BY <2>2
    <3>1. dpage[t] # None /\ pc[t] = "stored"
      BY <1>10, <2>2 DEF StoreReturned
    <3>2. where[p] = "cached" /\ locked[p] /\ uptodate[p] /\ val[p] = remote[p]
      BY <1>0, <3>0, <3>1 DEF HolderInv, CallFlag, StoreData
    <3>3. PhaseOf(p) = "storing"
      BY <3>2, PhaseCases
    <3>4. where'[p] = "cached" /\ ~locked'[p]
      BY <1>0, <1>10, <3>0, <3>2 DEF StoreReturned, TypeOK, PageTypeOK
    <3>5. PhaseOf(p)' = "cached"
      BY <3>4, PhaseCasesNext
    <3>6. FM!Move(p, "storing", "cached")
      BY <1>0, <1>10, <3>0, <3>3, <3>5, PhaseMove DEF StoreReturned, TypeOK,
           PageTypeOK
    <3>7. FM!EndStore(p)
      BY <1>10, <3>2, <3>6 DEF StoreReturned, FM!EndStore
    <3> QED
      BY <3>7 DEF FM!FMNext
  <2> QED
    BY <2>1, <2>2
<1>11. ASSUME NEW p \in Pages, ReclaimCached(p)
      PROVE  FM!FMNext
  <2>1. PhaseOf(p) = "cached"
    BY <1>11, PhaseCases DEF ReclaimCached
  <2>2. PhaseOf(p)' = "out"
    BY <1>0, <1>11, PhaseCasesNext DEF ReclaimCached, TypeOK, PageTypeOK
  <2>3. FM!Move(p, "cached", "out")
    BY <1>0, <1>11, <2>1, <2>2, PhaseMove DEF ReclaimCached, TypeOK, PageTypeOK
  <2>4. FM!Drop(p)
    BY <1>11, <2>3 DEF ReclaimCached, FM!Drop
  <2> QED
    BY <2>4 DEF FM!FMNext
<1>12. \A t \in Threads :
         /\ \A p \in Pages, c \in CPUs : SwapIn(t, p, c)
           => UNCHANGED <<where, flagVars, dataVars>>
         /\ AllocSleep(t) => UNCHANGED <<where, flagVars, dataVars>>
         /\ \A c \in CPUs : PollLoad(t, c) => UNCHANGED <<where, flagVars, dataVars>>
  BY DEF SwapIn, AllocSleep, PollLoad
<1>13. ASSUME NEW p \in Pages, where[p] = "out", NewFrame(p), UNCHANGED dataVars
      PROVE  FM!FMNext
  <2>1. PhaseOf(p) = "out"
    BY <1>13, PhaseCases
  <2>2. where'[p] = "cached" /\ locked'[p] /\ ~uptodate'[p]
    BY <1>0, <1>13 DEF NewFrame, TypeOK, PageTypeOK
  <2>3. PhaseOf(p)' = "loading"
    BY <2>2, PhaseCasesNext
  <2>4. FM!Move(p, "out", "loading")
    BY <1>0, <1>13, <2>1, <2>3, PhaseMove DEF NewFrame, TypeOK, PageTypeOK
  <2>5. FM!BeginLoad(p)
    BY <1>13, <2>4 DEF FM!BeginLoad
  <2> QED
    BY <2>5 DEF FM!FMNext
<1>14. ASSUME NEW t \in Threads, NEW p \in Pages, NEW c \in CPUs, ReadAhead(t, p, c)
      PROVE  FM!FMNext
  BY <1>13, <1>14 DEF ReadAhead
<1>15. ASSUME NEW t \in Threads, NEW c \in CPUs, ReadFault(t, c)
      PROVE  [FM!FMNext]_(FM!fmVars)
  <2>1. fpage[t] \in Pages /\ UNCHANGED dataVars
    BY <1>0, <1>15 DEF ReadFault, FaultInv
  <2>2. \/ where[fpage[t]] = "out" /\ NewFrame(fpage[t])
        \/ UNCHANGED <<where, flagVars>>
    BY <1>15 DEF ReadFault
  <2> QED
    BY <1>1, <1>13, <2>1, <2>2
<1>16. ASSUME NEW t \in Threads, MapFault(t)
      PROVE  [FM!FMNext]_(FM!fmVars)
  <2>1. CASE fpage[t] \notin Pages \/ where[fpage[t]] = "mapped"
    BY <1>0, <1>1, <1>16, <2>1 DEF MapFault, TypeOK, PageTypeOK
  <2>2. CASE fpage[t] \in Pages /\ where[fpage[t]] # "mapped"
    <3>0. PICK p \in Pages : p = fpage[t]
      BY <2>2
    <3>1. p # None /\ where[p] = "cached" /\ ~locked[p]
      BY <1>0, <1>16, <2>2, <3>0 DEF MapFault, RefInv, TypeOK, PageTypeOK
    <3>2. PhaseOf(p) = "cached"
      BY <3>1, PhaseCases
    <3>3. where'[p] = "mapped"
      BY <1>0, <1>16, <3>0 DEF MapFault, TypeOK, PageTypeOK
    <3>4. PhaseOf(p)' = "mapped"
      BY <3>3, PhaseCasesNext
    <3>5. FM!Move(p, "cached", "mapped")
      BY <1>0, <1>16, <3>0, <3>2, <3>4, PhaseMove DEF MapFault, TypeOK, PageTypeOK
    <3>6. FM!MapIn(p)
      BY <1>16, <3>5 DEF MapFault, FM!MapIn
    <3> QED
      BY <3>6 DEF FM!FMNext
  <2> QED
    BY <2>1, <2>2
<1>17. CASE UNCHANGED vars
  BY <1>1, <1>17
<1>18. ASSUME DriverStep, KernelSame
      PROVE  [FM!FMNext]_(FM!fmVars)
  BY <1>1, <1>2, <1>3, <1>4, <1>5, <1>6, <1>7, <1>18 DEF DriverStep
<1> QED
  BY <1>1, <1>8, <1>9, <1>10, <1>11, <1>12, <1>14, <1>15, <1>16, <1>17, <1>18
     DEF Next, ApplicationStep, ReclaimStep, FaultStep

\* The initial states are initial states of FarMemory.
LEMMA RefineInit == Init => FM!FMInit
<1> SUFFICES ASSUME Init PROVE FM!FMInit
  OBVIOUS
<1>1. \A p \in Pages : PhaseOf(p) = "mapped"
  BY PhaseCases DEF Init
<1> QED
  BY <1>1 DEF Init, FM!FMInit

\* As long as nothing fails the swap path over the RDMA driver implements
\* FarMemory: a store that returned is on the server, and what a load hands back
\* is what was stored.
THEOREM RefinementCorrect == Spec /\ [](faults = 0) => ImplementsFarMemory
<1>1. IInv /\ DInv /\ HandInv /\ CleanInv /\ faults = 0 /\ (faults = 0)' /\ [Next]_vars
      => [FM!FMNext]_(FM!fmVars)
  BY RefineStep DEF CleanInv, Healthy
<1> QED
  BY <1>1, RefineInit, CopiesKept, PTL DEF Spec, ImplementsFarMemory, FM!FMSpec
=============================================================================
