----------------------------- MODULE DmaProofs -----------------------------
(***************************************************************************)
(* Proof of DmaExclusive for any number of CPUs, threads, pages, requests  *)
(* and faults.                                                             *)
(*                                                                         *)
(* What makes it inductive is who may release a page lock. A thread holds  *)
(* the lock of dpage[t], and no two threads hold the same (HolderInv). A   *)
(* request whose page a thread still holds is the one that thread is about *)
(* to post, or a write that thread is draining the queue of (ServesInv),   *)
(* so nobody but the completion handler releases the page of a read, and a *)
(* store releases its page only when its queue has been drained.           *)
(***************************************************************************)
EXTENDS SwapPathProofs

\* A thread with a page in hand has it locked in the swap cache, is in a call
\* that was given the page or back from a store, and shares it with no other.
HolderInv ==
  /\ \A t \in Threads :
       dpage[t] # None =>
         /\ locked[dpage[t]] /\ where[dpage[t]] = "cached"
         /\ \/ pc[t] \in PostPcs \cup {"stored"}
            \/ pc[t] \in PollPcs /\ (loop[t] = "poll" \/ dq[t][2] = "WRITE_SYNC")
  /\ \A t, u \in Threads : t # u /\ dpage[t] = dpage[u] => dpage[t] = None

\* A request for a page that a thread holds.
ServesInv ==
  \A r \in Reqs, t \in Threads :
    rstate[r] \in DmaStates /\ dpage[t] = rpage[r] =>
      \/ pc[t] = "post" /\ dreq[t] = r
      \/ /\ pc[t] \in PollPcs /\ loop[t] = "drain"
         /\ dq[t] = rq[r] /\ dq[t][2] = "WRITE_SYNC"

DInv == HolderInv /\ ServesInv /\ DmaExclusive

-----------------------------------------------------------------------------
\* Nobody releases the lock of a page that a thread holds.
LEMMA HolderStep == ASSUME IInv, DInv, [Next]_vars PROVE HolderInv'
<1> USE ObjectAssumption, CallerAssumption, QueueAssumption
<1> USE DEF vars, driverVars, queueVars, hcaVars, reqVars, callVars, workVars,
            flagVars, dataVars, faultVars, KernelSame
<1>0. TypeOK /\ HolderInv /\ ServesInv /\ OwnerInv /\ FaultInv /\ ReqInv
  BY DEF IInv, DInv
<1>1. ASSUME NEW t \in Threads, Throttle(t), KernelSame
      PROVE  HolderInv'
  BY <1>0, <1>1 DEF Throttle, TypeOK, ThreadTypeOK, PageTypeOK, HolderInv,
       PostPcs, PollPcs
<1>2. ASSUME NEW t \in Threads, Admit(t), KernelSame
      PROVE  HolderInv'
  BY <1>0, <1>2 DEF Admit, TypeOK, ThreadTypeOK, PageTypeOK, HolderInv,
       PostPcs, PollPcs
<1>3. ASSUME NEW t \in Threads, CountReq(t), KernelSame
      PROVE  HolderInv'
  BY <1>0, <1>3 DEF CountReq, TypeOK, ThreadTypeOK, PageTypeOK, HolderInv,
       PostPcs, PollPcs
<1>4. ASSUME NEW t \in Threads, ReqFailed(t), KernelSame
      PROVE  HolderInv'
  BY <1>0, <1>4 DEF ReqFailed, LeaveDriver, TypeOK, ThreadTypeOK, PageTypeOK,
       HolderInv, PostPcs, PollPcs
<1>5. ASSUME NEW t \in Threads, PostSend(t), KernelSame
      PROVE  HolderInv'
  BY <1>0, <1>5 DEF PostSend, AfterPost, EnterDrain, LeaveDriver, TypeOK,
       ThreadTypeOK, PageTypeOK, HolderInv, PostPcs, PollPcs
<1>6. ASSUME NEW t \in Threads, PostRefused(t), KernelSame
      PROVE  HolderInv'
  BY <1>0, <1>6 DEF PostRefused, LeaveDriver, TypeOK, ThreadTypeOK,
       PageTypeOK, HolderInv, PostPcs, PollPcs
<1>7. ASSUME NEW t \in Threads, LockCq(t), KernelSame
      PROVE  HolderInv'
  BY <1>0, <1>7 DEF LockCq, TypeOK, ThreadTypeOK, PageTypeOK, HolderInv,
       PostPcs, PollPcs
<1>8. ASSUME NEW t \in Threads, UnlockCq(t), KernelSame
      PROVE  HolderInv'
  BY <1>0, <1>8 DEF UnlockCq, TypeOK, ThreadTypeOK, PageTypeOK, HolderInv,
       PostPcs, PollPcs
<1>9. ASSUME NEW t \in Threads, PollTargetDone(t), KernelSame
      PROVE  HolderInv'
  BY <1>0, <1>9 DEF PollTargetDone, TypeOK, ThreadTypeOK, PageTypeOK,
       HolderInv, PostPcs, PollPcs
<1>10. ASSUME NEW t \in Threads, DrainDone(t), KernelSame
      PROVE  HolderInv'
  BY <1>0, <1>10 DEF DrainDone, LeaveDriver, TypeOK, ThreadTypeOK, PageTypeOK,
       HolderInv, PostPcs, PollPcs
<1>11. ASSUME NEW t \in Threads, ThreadCountDown(t), KernelSame
      PROVE  HolderInv'
  BY <1>0, <1>11 DEF ThreadCountDown, CountDown, TypeOK, ThreadTypeOK,
       PageTypeOK, HolderInv, PostPcs, PollPcs
<1>12. ASSUME NEW t \in Threads, NEW r \in Reqs, Reap(t, r), KernelSame
      PROVE  HolderInv'
  BY <1>0, <1>12 DEF Reap, TypeOK, ThreadTypeOK, PageTypeOK, HolderInv,
       PostPcs, PollPcs
<1>13. ASSUME NEW c \in CPUs, NEW r \in Reqs, SoftirqReap(c, r), KernelSame
      PROVE  HolderInv'
  BY <1>0, <1>13 DEF SoftirqReap, TypeOK, ThreadTypeOK, PageTypeOK, HolderInv,
       PostPcs, PollPcs
<1>14. ASSUME NEW c \in CPUs, SoftirqCountDown(c), KernelSame
      PROVE  HolderInv'
  BY <1>0, <1>14 DEF SoftirqCountDown, CountDown, TypeOK, ThreadTypeOK,
       PageTypeOK, HolderInv, PostPcs, PollPcs
<1>15. ASSUME NEW r \in Reqs, ReadDonePage(r), KernelSame
      PROVE  HolderInv'
  BY <1>0, <1>15 DEF ReadDonePage, IsRead, ServesInv, DmaStates, OwnerInv,
       RequestTypeOK, ReqInv, TypeOK, ThreadTypeOK, PageTypeOK, HolderInv,
       PostPcs, PollPcs
<1>16. ASSUME NEW r \in Reqs, HcaExecute(r) \/ HcaFail(r), KernelSame
      PROVE  HolderInv'
  BY <1>0, <1>16 DEF HcaExecute, HcaFail, TypeOK, ThreadTypeOK, PageTypeOK,
       HolderInv, PostPcs, PollPcs
<1>17. ASSUME NEW p \in Pages, NEW v \in Vals, Touch(p, v)
      PROVE  HolderInv'
  BY <1>0, <1>17 DEF Touch, TypeOK, ThreadTypeOK, PageTypeOK, HolderInv,
       PostPcs, PollPcs
<1>18. ASSUME NEW t \in Threads, NEW p \in Pages, NEW c \in CPUs, SwapOut(t, p, c)
      PROVE  HolderInv'
  BY <1>0, <1>18 DEF SwapOut, EnterPost, TypeOK, ThreadTypeOK, PageTypeOK,
       HolderInv, PostPcs, PollPcs
<1>19. ASSUME NEW t \in Threads, StoreReturned(t)
      PROVE  HolderInv'
  BY <1>0, <1>19 DEF StoreReturned, TypeOK, ThreadTypeOK, PageTypeOK,
       HolderInv, PostPcs, PollPcs
<1>20. ASSUME NEW p \in Pages, ReclaimCached(p)
      PROVE  HolderInv'
  BY <1>0, <1>20 DEF ReclaimCached, TypeOK, ThreadTypeOK, PageTypeOK,
       HolderInv, PostPcs, PollPcs
<1>21. ASSUME NEW t \in Threads, NEW p \in Pages, NEW c \in CPUs, SwapIn(t, p, c)
      PROVE  HolderInv'
  BY <1>0, <1>21 DEF SwapIn, TypeOK, ThreadTypeOK, PageTypeOK, HolderInv,
       PostPcs, PollPcs
<1>22. ASSUME NEW t \in Threads, NEW p \in Pages, NEW c \in CPUs, ReadAhead(t, p, c)
      PROVE  HolderInv'
  BY <1>0, <1>22 DEF ReadAhead, NewFrame, EnterPost, TypeOK, ThreadTypeOK,
       PageTypeOK, HolderInv, PostPcs, PollPcs
<1>23. ASSUME NEW t \in Threads, AllocSleep(t)
      PROVE  HolderInv'
  BY <1>0, <1>23 DEF AllocSleep, TypeOK, ThreadTypeOK, PageTypeOK, HolderInv,
       PostPcs, PollPcs
<1>24. ASSUME NEW t \in Threads, MapFault(t)
      PROVE  HolderInv'
  BY <1>0, <1>24 DEF MapFault, TypeOK, ThreadTypeOK, PageTypeOK, HolderInv,
       PostPcs, PollPcs
<1>25. ASSUME NEW t \in Threads, NEW c \in CPUs, ReadFault(t, c)
      PROVE  HolderInv'
  BY <1>0, <1>25 DEF ReadFault, NewFrame, EnterPost, FaultInv, TypeOK,
       ThreadTypeOK, PageTypeOK, HolderInv, PostPcs, PollPcs
<1>26. ASSUME NEW t \in Threads, NEW c \in CPUs, PollLoad(t, c)
      PROVE  HolderInv'
  BY <1>0, <1>26 DEF PollLoad, EnterDrain, TypeOK, ThreadTypeOK, PageTypeOK,
       HolderInv, PostPcs, PollPcs
<1>27. CASE UNCHANGED vars
  BY <1>0, <1>27 DEF TypeOK, ThreadTypeOK, PageTypeOK, HolderInv, PostPcs,
       PollPcs
<1> QED
  BY <1>1, <1>2, <1>3, <1>4, <1>5, <1>6, <1>7, <1>8, <1>9, <1>10, <1>11,
       <1>12, <1>13, <1>14, <1>15, <1>16, <1>17, <1>18, <1>19, <1>20, <1>21,
       <1>22, <1>23, <1>24, <1>25, <1>26, <1>27 DEF Next, DriverStep,
       ThreadStep, ApplicationStep, ReclaimStep, FaultStep

\* A queue whose pending counter is zero has no request left.
LEMMA Drained ==
  ASSUME TypeOK, ChargeInv, NEW q \in Queues, ~(pending[q] > 0),
         NEW r \in Reqs, rstate[r] \in CountedStates
  PROVE  rq[r] # q
<1>1. Cardinality(Charge(q)) = 0
  BY ChargeFinite DEF ChargeInv
<1>2. Charge(q) = {}
  BY <1>1, ChargeFinite, FS_EmptySet
<1> QED
  BY <1>2 DEF Charge, ChargedStates, CountedStates

\* The page of a request stays with the thread that posts it, or drains it.
LEMMA ServesStep == ASSUME IInv, DInv, [Next]_vars PROVE ServesInv'
<1> USE ObjectAssumption, CallerAssumption, QueueAssumption
<1> USE DEF vars, driverVars, queueVars, hcaVars, reqVars, callVars, workVars,
            flagVars, dataVars, faultVars, KernelSame
<1>0. TypeOK /\ HolderInv /\ ServesInv /\ DmaExclusive /\ OwnerInv /\ FaultInv /\ ReqInv
      /\ CallInv
  BY DEF IInv, DInv
<1>1. ASSUME NEW t \in Threads, Throttle(t), KernelSame
      PROVE  ServesInv'
  BY <1>0, <1>1 DEF Throttle, TypeOK, RequestTypeOK, ThreadTypeOK, ServesInv,
       DmaStates, PostPcs, PollPcs
<1>2. ASSUME NEW t \in Threads, Admit(t), KernelSame
      PROVE  ServesInv'
  BY <1>0, <1>2 DEF Admit, TypeOK, RequestTypeOK, ThreadTypeOK, ServesInv,
       DmaStates, PostPcs, PollPcs
<1>3. ASSUME NEW t \in Threads, CountReq(t), KernelSame
      PROVE  ServesInv'
  <2>1. PICK r \in Reqs :
          /\ rstate[r] = "free"
          /\ rstate' = [rstate EXCEPT ![r] = "counted"]
          /\ rq' = [rq EXCEPT ![r] = dq[t]]
          /\ rpage' = [rpage EXCEPT ![r] = dpage[t]]
          /\ dreq' = [dreq EXCEPT ![t] = r]
    BY <1>3 DEF CountReq
  <2>2. dpage[t] \in Pages /\ \A u \in Threads \ {t} : dpage[u] # dpage[t]
    BY <1>0, <1>3 DEF CountReq, CallInv, HolderInv, PostPcs
  <2>3. pc' = [pc EXCEPT ![t] = "post"] /\ pc[t] = "inc" /\ UNCHANGED <<dpage, dq, loop>>
    BY <1>3 DEF CountReq
  <2>4. ASSUME NEW s \in Reqs, NEW u \in Threads, rstate'[s] \in DmaStates, dpage'[u] = rpage'[s],
               s # r
        PROVE  \/ pc'[u] = "post" /\ dreq'[u] = s
               \/ /\ pc'[u] \in PollPcs /\ loop'[u] = "drain"
                  /\ dq'[u] = rq'[s] /\ dq'[u][2] = "WRITE_SYNC"
    <3>1. rstate[s] \in DmaStates /\ dpage[u] = rpage[s] /\ rq'[s] = rq[s]
      BY <1>0, <2>1, <2>3, <2>4 DEF TypeOK, RequestTypeOK
    <3>2. u # t
      BY <1>0, <2>3, <3>1 DEF ServesInv, PollPcs
    <3> QED
      BY <1>0, <2>1, <2>3, <3>1, <3>2 DEF ServesInv, TypeOK, ThreadTypeOK
  <2>5. ASSUME NEW u \in Threads, dpage'[u] = rpage'[r]
        PROVE  pc'[u] = "post" /\ dreq'[u] = r
    BY <1>0, <2>1, <2>2, <2>3, <2>5 DEF TypeOK, ThreadTypeOK, RequestTypeOK
  <2> QED
    BY <2>4, <2>5 DEF ServesInv
<1>4. ASSUME NEW t \in Threads, ReqFailed(t), KernelSame
      PROVE  ServesInv'
  <2>1. \A r \in Reqs : rstate[r] \in DmaStates => rpage[r] \in Pages /\ rpage[r] # None
    BY <1>0 DEF ReqInv, DmaStates
  <2>2. pc[t] \notin {"post"} \cup PollPcs
    BY <1>4 DEF ReqFailed, PollPcs
  <2>3. UNCHANGED reqVars
    BY <1>4 DEF ReqFailed
  <2>4. ASSUME NEW r \in Reqs, NEW u \in Threads, rstate'[r] \in DmaStates, dpage'[u] = rpage'[r]
        PROVE  \/ pc'[u] = "post" /\ dreq'[u] = r
               \/ /\ pc'[u] \in PollPcs /\ loop'[u] = "drain"
                  /\ dq'[u] = rq'[r] /\ dq'[u][2] = "WRITE_SYNC"
    <3>1. rstate[r] \in DmaStates /\ rpage'[r] = rpage[r] /\ rq'[r] = rq[r]
      BY <2>3, <2>4, <1>4 DEF ReqFailed
    <3>2. CASE u # t
      BY <1>0, <1>4, <2>4, <3>1, <3>2 DEF ReqFailed, LeaveDriver, TypeOK,
           ThreadTypeOK, ServesInv
    <3>3. CASE u = t
      BY <1>0, <1>4, <2>1, <2>2, <2>4, <3>1, <3>3 DEF ReqFailed, LeaveDriver,
           TypeOK, ThreadTypeOK, ServesInv, PollPcs
    <3> QED
      BY <3>2, <3>3
  <2> QED
    BY <2>4 DEF ServesInv
<1>5. ASSUME NEW t \in Threads, PostSend(t), KernelSame
      PROVE  ServesInv'
  <2>1. \A r \in Reqs : rstate[r] \in DmaStates => rpage[r] \in Pages /\ rpage[r] # None
    BY <1>0 DEF ReqInv, DmaStates
  <2>2. dreq[t] \in Reqs /\ rstate[dreq[t]] = "counted" /\ rq[dreq[t]] = dq[t] /\ pc[t] = "post"
    BY <1>0, <1>5 DEF OwnerInv, PostSend
  <2>3. \A s \in Reqs : rstate'[s] \in DmaStates => rstate[s] \in DmaStates
    BY <1>0, <2>2, <1>5 DEF PostSend, TypeOK, RequestTypeOK, DmaStates
  <2>4. ASSUME NEW r \in Reqs, NEW u \in Threads, rstate'[r] \in DmaStates, dpage'[u] = rpage'[r]
        PROVE  \/ pc'[u] = "post" /\ dreq'[u] = r
               \/ /\ pc'[u] \in PollPcs /\ loop'[u] = "drain"
                  /\ dq'[u] = rq'[r] /\ dq'[u][2] = "WRITE_SYNC"
    <3>1. rstate[r] \in DmaStates /\ rpage'[r] = rpage[r] /\ rq'[r] = rq[r]
      BY <2>3, <2>4, <1>5 DEF PostSend
    <3>2. CASE u # t
      BY <1>0, <1>5, <2>4, <3>1, <3>2 DEF PostSend, AfterPost, EnterDrain,
           LeaveDriver, TypeOK, ThreadTypeOK, ServesInv
    <3>3. CASE u = t
      BY <1>0, <1>5, <2>1, <2>2, <2>4, <3>1, <3>3 DEF PostSend, AfterPost,
           EnterDrain, LeaveDriver, TypeOK, ThreadTypeOK, ServesInv, PollPcs
    <3> QED
      BY <3>2, <3>3
  <2> QED
    BY <2>4 DEF ServesInv
<1>6. ASSUME NEW t \in Threads, PostRefused(t), KernelSame
      PROVE  ServesInv'
  <2>1. \A r \in Reqs : rstate[r] \in DmaStates => rpage[r] \in Pages /\ rpage[r] # None
    BY <1>0 DEF ReqInv, DmaStates
  <2>2. dreq[t] \in Reqs /\ rstate[dreq[t]] = "counted" /\ rq[dreq[t]] = dq[t] /\ pc[t] = "post"
    BY <1>0, <1>6 DEF OwnerInv, PostRefused
  <2>3. \A s \in Reqs : rstate'[s] \in DmaStates => rstate[s] \in DmaStates
    BY <1>0, <2>2, <1>6 DEF PostRefused, TypeOK, RequestTypeOK, DmaStates
  <2>4. ASSUME NEW r \in Reqs, NEW u \in Threads, rstate'[r] \in DmaStates, dpage'[u] = rpage'[r]
        PROVE  \/ pc'[u] = "post" /\ dreq'[u] = r
               \/ /\ pc'[u] \in PollPcs /\ loop'[u] = "drain"
                  /\ dq'[u] = rq'[r] /\ dq'[u][2] = "WRITE_SYNC"
    <3>1. rstate[r] \in DmaStates /\ rpage'[r] = rpage[r] /\ rq'[r] = rq[r]
      BY <2>3, <2>4, <1>6 DEF PostRefused
    <3>2. CASE u # t
      BY <1>0, <1>6, <2>4, <3>1, <3>2 DEF PostRefused, LeaveDriver, TypeOK,
           ThreadTypeOK, ServesInv
    <3>3. CASE u = t
      BY <1>0, <1>6, <2>1, <2>2, <2>4, <3>1, <3>3 DEF PostRefused, LeaveDriver,
           TypeOK, ThreadTypeOK, ServesInv, PollPcs
    <3> QED
      BY <3>2, <3>3
  <2> QED
    BY <2>4 DEF ServesInv
<1>7. ASSUME NEW t \in Threads, LockCq(t), KernelSame
      PROVE  ServesInv'
  BY <1>0, <1>7 DEF LockCq, TypeOK, RequestTypeOK, ThreadTypeOK, ServesInv,
       DmaStates, PostPcs, PollPcs
<1>8. ASSUME NEW t \in Threads, UnlockCq(t), KernelSame
      PROVE  ServesInv'
  BY <1>0, <1>8 DEF UnlockCq, TypeOK, RequestTypeOK, ThreadTypeOK, ServesInv,
       DmaStates, PostPcs, PollPcs
<1>9. ASSUME NEW t \in Threads, PollTargetDone(t), KernelSame
      PROVE  ServesInv'
  BY <1>0, <1>9 DEF PollTargetDone, TypeOK, RequestTypeOK, ThreadTypeOK,
       ServesInv, DmaStates, PostPcs, PollPcs
<1>10. ASSUME NEW t \in Threads, DrainDone(t), KernelSame
      PROVE  ServesInv'
  <2>1. dq[t] \in Queues /\ pc[t] = "spin" /\ loop[t] = "drain"
    BY <1>0, <1>10 DEF DrainDone, CallInv, PostPcs, PollPcs
  <2>2. ~(pending[dq[t]] > 0)
    BY <1>10 DEF DrainDone, KeepPolling
  <2>3. \A r \in Reqs : rstate[r] \in DmaStates => rq[r] # dq[t]
    BY <1>0, <2>1, <2>2, Drained DEF IInv, DmaStates, CountedStates
  <2> QED
    BY <1>0, <1>10, <2>1, <2>3 DEF DrainDone, LeaveDriver, TypeOK, RequestTypeOK,
         ThreadTypeOK, ServesInv, DmaStates, PostPcs, PollPcs
<1>11. ASSUME NEW t \in Threads, ThreadCountDown(t), KernelSame
      PROVE  ServesInv'
  BY <1>0, <1>11 DEF ThreadCountDown, CountDown, TypeOK, RequestTypeOK,
       ThreadTypeOK, ServesInv, DmaStates, PostPcs, PollPcs
<1>12. ASSUME NEW t \in Threads, NEW r \in Reqs, Reap(t, r), KernelSame
      PROVE  ServesInv'
  BY <1>0, <1>12 DEF Reap, OwnerInv, TypeOK, RequestTypeOK, ThreadTypeOK,
       ServesInv, DmaStates, PostPcs, PollPcs
<1>13. ASSUME NEW c \in CPUs, NEW r \in Reqs, SoftirqReap(c, r), KernelSame
      PROVE  ServesInv'
  BY <1>0, <1>13 DEF SoftirqReap, TypeOK, RequestTypeOK, ThreadTypeOK,
       ServesInv, DmaStates, PostPcs, PollPcs
<1>14. ASSUME NEW c \in CPUs, SoftirqCountDown(c), KernelSame
      PROVE  ServesInv'
  BY <1>0, <1>14 DEF SoftirqCountDown, CountDown, TypeOK, RequestTypeOK,
       ThreadTypeOK, ServesInv, DmaStates, PostPcs, PollPcs
<1>15. ASSUME NEW r \in Reqs, ReadDonePage(r), KernelSame
      PROVE  ServesInv'
  BY <1>0, <1>15 DEF ReadDonePage, IsRead, TypeOK, RequestTypeOK,
       ThreadTypeOK, ServesInv, DmaStates, PostPcs, PollPcs
<1>16. ASSUME NEW r \in Reqs, HcaExecute(r) \/ HcaFail(r), KernelSame
      PROVE  ServesInv'
  BY <1>0, <1>16 DEF HcaExecute, HcaFail, TypeOK, RequestTypeOK, ThreadTypeOK,
       ServesInv, DmaStates, PostPcs, PollPcs
<1>17. ASSUME NEW p \in Pages, NEW v \in Vals, Touch(p, v)
      PROVE  ServesInv'
  BY <1>0, <1>17 DEF Touch, TypeOK, RequestTypeOK, ThreadTypeOK, ServesInv,
       DmaStates, PostPcs, PollPcs
<1>18. ASSUME NEW t \in Threads, NEW p \in Pages, NEW c \in CPUs, SwapOut(t, p, c)
      PROVE  ServesInv'
  BY <1>0, <1>18 DEF SwapOut, EnterPost, DmaExclusive, HolderInv, TypeOK,
       RequestTypeOK, ThreadTypeOK, ServesInv, DmaStates, PostPcs, PollPcs
<1>19. ASSUME NEW t \in Threads, StoreReturned(t)
      PROVE  ServesInv'
  <2>1. \A r \in Reqs : rstate[r] \in DmaStates => rpage[r] \in Pages /\ rpage[r] # None
    BY <1>0 DEF ReqInv, DmaStates
  <2>2. pc[t] \notin {"post"} \cup PollPcs
    BY <1>19 DEF StoreReturned, PollPcs
  <2>3. UNCHANGED reqVars
    BY <1>19 DEF StoreReturned
  <2>4. ASSUME NEW r \in Reqs, NEW u \in Threads, rstate'[r] \in DmaStates, dpage'[u] = rpage'[r]
        PROVE  \/ pc'[u] = "post" /\ dreq'[u] = r
               \/ /\ pc'[u] \in PollPcs /\ loop'[u] = "drain"
                  /\ dq'[u] = rq'[r] /\ dq'[u][2] = "WRITE_SYNC"
    <3>1. rstate[r] \in DmaStates /\ rpage'[r] = rpage[r] /\ rq'[r] = rq[r]
      BY <2>3, <2>4, <1>19 DEF StoreReturned
    <3>2. CASE u # t
      BY <1>0, <1>19, <2>4, <3>1, <3>2 DEF StoreReturned, TypeOK, ThreadTypeOK,
           ServesInv
    <3>3. CASE u = t
      BY <1>0, <1>19, <2>1, <2>2, <2>4, <3>1, <3>3 DEF StoreReturned, TypeOK,
           ThreadTypeOK, ServesInv, PollPcs
    <3> QED
      BY <3>2, <3>3
  <2> QED
    BY <2>4 DEF ServesInv
<1>20. ASSUME NEW p \in Pages, ReclaimCached(p)
      PROVE  ServesInv'
  BY <1>0, <1>20 DEF ReclaimCached, TypeOK, RequestTypeOK, ThreadTypeOK,
       ServesInv, DmaStates, PostPcs, PollPcs
<1>21. ASSUME NEW t \in Threads, NEW p \in Pages, NEW c \in CPUs, SwapIn(t, p, c)
      PROVE  ServesInv'
  BY <1>0, <1>21 DEF SwapIn, HolderInv, TypeOK, RequestTypeOK, ThreadTypeOK,
       ServesInv, DmaStates, PostPcs, PollPcs
<1>22. ASSUME NEW t \in Threads, NEW p \in Pages, NEW c \in CPUs, ReadAhead(t, p, c)
      PROVE  ServesInv'
  BY <1>0, <1>22 DEF ReadAhead, NewFrame, EnterPost, DmaExclusive, HolderInv,
       TypeOK, RequestTypeOK, ThreadTypeOK, ServesInv, DmaStates, PostPcs,
       PollPcs
<1>23. ASSUME NEW t \in Threads, AllocSleep(t)
      PROVE  ServesInv'
  BY <1>0, <1>23 DEF AllocSleep, TypeOK, RequestTypeOK, ThreadTypeOK,
       ServesInv, DmaStates, PostPcs, PollPcs
<1>24. ASSUME NEW t \in Threads, MapFault(t)
      PROVE  ServesInv'
  BY <1>0, <1>24 DEF MapFault, TypeOK, RequestTypeOK, ThreadTypeOK, ServesInv,
       DmaStates, PostPcs, PollPcs
<1>25. ASSUME NEW t \in Threads, NEW c \in CPUs, ReadFault(t, c)
      PROVE  ServesInv'
  BY <1>0, <1>25 DEF ReadFault, NewFrame, EnterPost, DmaExclusive, HolderInv,
       FaultInv, TypeOK, RequestTypeOK, ThreadTypeOK, ServesInv, DmaStates,
       PostPcs, PollPcs
<1>26. ASSUME NEW t \in Threads, NEW c \in CPUs, PollLoad(t, c)
      PROVE  ServesInv'
  BY <1>0, <1>26 DEF PollLoad, EnterDrain, HolderInv, TypeOK, RequestTypeOK,
       ThreadTypeOK, ServesInv, DmaStates, PostPcs, PollPcs
<1>27. CASE UNCHANGED vars
  BY <1>0, <1>27 DEF TypeOK, RequestTypeOK, ThreadTypeOK, ServesInv,
       DmaStates, PostPcs, PollPcs
<1> QED
  BY <1>1, <1>2, <1>3, <1>4, <1>5, <1>6, <1>7, <1>8, <1>9, <1>10, <1>11,
       <1>12, <1>13, <1>14, <1>15, <1>16, <1>17, <1>18, <1>19, <1>20, <1>21,
       <1>22, <1>23, <1>24, <1>25, <1>26, <1>27 DEF Next, DriverStep,
       ThreadStep, ApplicationStep, ReclaimStep, FaultStep

\* A page in use by the adapter is neither unlocked, nor mapped, nor used twice.
LEMMA DmaStep == ASSUME IInv, DInv, [Next]_vars PROVE DmaExclusive'
<1> USE ObjectAssumption, CallerAssumption, QueueAssumption
<1> USE DEF vars, driverVars, queueVars, hcaVars, reqVars, callVars, workVars,
            flagVars, dataVars, faultVars, KernelSame
<1>0. TypeOK /\ HolderInv /\ ServesInv /\ DmaExclusive /\ OwnerInv /\ FaultInv /\ ReqInv
      /\ CallInv
  BY DEF IInv, DInv
<1>1. ASSUME NEW t \in Threads, Throttle(t), KernelSame
      PROVE  DmaExclusive'
  BY <1>0, <1>1 DEF Throttle, TypeOK, RequestTypeOK, ThreadTypeOK, PageTypeOK,
       DmaExclusive, DmaStates
<1>2. ASSUME NEW t \in Threads, Admit(t), KernelSame
      PROVE  DmaExclusive'
  BY <1>0, <1>2 DEF Admit, TypeOK, RequestTypeOK, ThreadTypeOK, PageTypeOK,
       DmaExclusive, DmaStates
<1>3. ASSUME NEW t \in Threads, CountReq(t), KernelSame
      PROVE  DmaExclusive'
  BY <1>0, <1>3 DEF CountReq, HolderInv, ServesInv, PostPcs, PollPcs, CallInv,
       TypeOK, RequestTypeOK, ThreadTypeOK, PageTypeOK, DmaExclusive,
       DmaStates
<1>4. ASSUME NEW t \in Threads, ReqFailed(t), KernelSame
      PROVE  DmaExclusive'
  <2>1. \A s \in Reqs : rstate'[s] \in DmaStates => rstate[s] \in DmaStates /\ rpage[s] \in Pages
    BY <1>0, <1>4 DEF ReqFailed, DmaStates, ReqInv
  <2>2. \A s \in Reqs : rstate'[s] \in DmaStates => rpage[s] # dpage[t]
    BY <1>0, <2>1, <1>4 DEF ReqFailed, ServesInv, PollPcs
  <2>3. \A p \in Pages : p # dpage[t] => locked'[p] = locked[p]
    BY <1>0, <1>4 DEF ReqFailed, TypeOK, PageTypeOK
  <2>4. UNCHANGED <<where, rpage>>
    BY <1>4 DEF ReqFailed
  <2> QED
    BY <1>0, <2>1, <2>2, <2>3, <2>4 DEF DmaExclusive
<1>5. ASSUME NEW t \in Threads, PostSend(t), KernelSame
      PROVE  DmaExclusive'
  BY <1>0, <1>5 DEF PostSend, AfterPost, EnterDrain, LeaveDriver, OwnerInv,
       TypeOK, RequestTypeOK, ThreadTypeOK, PageTypeOK, DmaExclusive,
       DmaStates
<1>6. ASSUME NEW t \in Threads, PostRefused(t), KernelSame
      PROVE  DmaExclusive'
  <2>0. dreq[t] \in Reqs /\ rstate[dreq[t]] = "counted" /\ rq[dreq[t]] = dq[t] /\ pc[t] = "post"
    BY <1>0, <1>6 DEF OwnerInv, PostRefused
  <2>1. \A s \in Reqs : rstate'[s] \in DmaStates
          => rstate[s] \in DmaStates /\ rpage[s] \in Pages /\ s # dreq[t]
    BY <1>0, <2>0, <1>6 DEF PostRefused, TypeOK, RequestTypeOK, DmaStates, ReqInv
  <2>2. \A s \in Reqs : rstate'[s] \in DmaStates => rpage[s] # dpage[t]
    BY <1>0, <2>0, <2>1, <1>6 DEF ServesInv, PollPcs
  <2>3. \A p \in Pages : p # dpage[t] => locked'[p] = locked[p]
    BY <1>0, <1>6 DEF PostRefused, TypeOK, PageTypeOK
  <2>4. UNCHANGED <<where, rpage>>
    BY <1>6 DEF PostRefused
  <2> QED
    BY <1>0, <2>1, <2>2, <2>3, <2>4 DEF DmaExclusive
<1>7. ASSUME NEW t \in Threads, LockCq(t), KernelSame
      PROVE  DmaExclusive'
  BY <1>0, <1>7 DEF LockCq, TypeOK, RequestTypeOK, ThreadTypeOK, PageTypeOK,
       DmaExclusive, DmaStates
<1>8. ASSUME NEW t \in Threads, UnlockCq(t), KernelSame
      PROVE  DmaExclusive'
  BY <1>0, <1>8 DEF UnlockCq, TypeOK, RequestTypeOK, ThreadTypeOK, PageTypeOK,
       DmaExclusive, DmaStates
<1>9. ASSUME NEW t \in Threads, PollTargetDone(t), KernelSame
      PROVE  DmaExclusive'
  BY <1>0, <1>9 DEF PollTargetDone, TypeOK, RequestTypeOK, ThreadTypeOK,
       PageTypeOK, DmaExclusive, DmaStates
<1>10. ASSUME NEW t \in Threads, DrainDone(t), KernelSame
      PROVE  DmaExclusive'
  BY <1>0, <1>10 DEF DrainDone, LeaveDriver, TypeOK, RequestTypeOK,
       ThreadTypeOK, PageTypeOK, DmaExclusive, DmaStates
<1>11. ASSUME NEW t \in Threads, ThreadCountDown(t), KernelSame
      PROVE  DmaExclusive'
  BY <1>0, <1>11 DEF ThreadCountDown, CountDown, TypeOK, RequestTypeOK,
       ThreadTypeOK, PageTypeOK, DmaExclusive, DmaStates
<1>12. ASSUME NEW t \in Threads, NEW r \in Reqs, Reap(t, r), KernelSame
      PROVE  DmaExclusive'
  BY <1>0, <1>12 DEF Reap, TypeOK, RequestTypeOK, ThreadTypeOK, PageTypeOK,
       DmaExclusive, DmaStates
<1>13. ASSUME NEW c \in CPUs, NEW r \in Reqs, SoftirqReap(c, r), KernelSame
      PROVE  DmaExclusive'
  BY <1>0, <1>13 DEF SoftirqReap, TypeOK, RequestTypeOK, ThreadTypeOK,
       PageTypeOK, DmaExclusive, DmaStates
<1>14. ASSUME NEW c \in CPUs, SoftirqCountDown(c), KernelSame
      PROVE  DmaExclusive'
  BY <1>0, <1>14 DEF SoftirqCountDown, CountDown, TypeOK, RequestTypeOK,
       ThreadTypeOK, PageTypeOK, DmaExclusive, DmaStates
<1>15. ASSUME NEW r \in Reqs, ReadDonePage(r), KernelSame
      PROVE  DmaExclusive'
  BY <1>0, <1>15 DEF ReadDonePage, IsRead, ServesInv, PostPcs, PollPcs,
       TypeOK, RequestTypeOK, ThreadTypeOK, PageTypeOK, DmaExclusive,
       DmaStates
<1>16. ASSUME NEW r \in Reqs, HcaExecute(r) \/ HcaFail(r), KernelSame
      PROVE  DmaExclusive'
  BY <1>0, <1>16 DEF HcaExecute, HcaFail, TypeOK, RequestTypeOK, ThreadTypeOK,
       PageTypeOK, DmaExclusive, DmaStates
<1>17. ASSUME NEW p \in Pages, NEW v \in Vals, Touch(p, v)
      PROVE  DmaExclusive'
  BY <1>0, <1>17 DEF Touch, TypeOK, RequestTypeOK, ThreadTypeOK, PageTypeOK,
       DmaExclusive, DmaStates
<1>18. ASSUME NEW t \in Threads, NEW p \in Pages, NEW c \in CPUs, SwapOut(t, p, c)
      PROVE  DmaExclusive'
  BY <1>0, <1>18 DEF SwapOut, EnterPost, ReqInv, TypeOK, RequestTypeOK,
       ThreadTypeOK, PageTypeOK, DmaExclusive, DmaStates
<1>19. ASSUME NEW t \in Threads, StoreReturned(t)
      PROVE  DmaExclusive'
  BY <1>0, <1>19 DEF StoreReturned, ServesInv, PostPcs, PollPcs, TypeOK,
       RequestTypeOK, ThreadTypeOK, PageTypeOK, DmaExclusive, DmaStates
<1>20. ASSUME NEW p \in Pages, ReclaimCached(p)
      PROVE  DmaExclusive'
  BY <1>0, <1>20 DEF ReclaimCached, TypeOK, RequestTypeOK, ThreadTypeOK,
       PageTypeOK, DmaExclusive, DmaStates
<1>21. ASSUME NEW t \in Threads, NEW p \in Pages, NEW c \in CPUs, SwapIn(t, p, c)
      PROVE  DmaExclusive'
  BY <1>0, <1>21 DEF SwapIn, TypeOK, RequestTypeOK, ThreadTypeOK, PageTypeOK,
       DmaExclusive, DmaStates
<1>22. ASSUME NEW t \in Threads, NEW p \in Pages, NEW c \in CPUs, ReadAhead(t, p, c)
      PROVE  DmaExclusive'
  BY <1>0, <1>22 DEF ReadAhead, NewFrame, EnterPost, TypeOK, RequestTypeOK,
       ThreadTypeOK, PageTypeOK, DmaExclusive, DmaStates
<1>23. ASSUME NEW t \in Threads, AllocSleep(t)
      PROVE  DmaExclusive'
  BY <1>0, <1>23 DEF AllocSleep, TypeOK, RequestTypeOK, ThreadTypeOK,
       PageTypeOK, DmaExclusive, DmaStates
<1>24. ASSUME NEW t \in Threads, MapFault(t)
      PROVE  DmaExclusive'
  BY <1>0, <1>24 DEF MapFault, TypeOK, RequestTypeOK, ThreadTypeOK,
       PageTypeOK, DmaExclusive, DmaStates
<1>25. ASSUME NEW t \in Threads, NEW c \in CPUs, ReadFault(t, c)
      PROVE  DmaExclusive'
  <2>1. fpage[t] \in Pages
    BY <1>0, <1>25 DEF ReadFault, FaultInv
  <2>2. \A p \in Pages : locked[p] /\ where[p] = "cached" => locked'[p] /\ where'[p] = "cached"
    <3>1. CASE where[fpage[t]] = "out" /\ NewFrame(fpage[t])
      BY <1>0, <2>1, <3>1 DEF NewFrame, TypeOK, PageTypeOK
    <3>2. CASE UNCHANGED <<where, flagVars>>
      BY <3>2
    <3> QED
      BY <1>25, <3>1, <3>2 DEF ReadFault
  <2>3. UNCHANGED reqVars
    BY <1>25 DEF ReadFault
  <2> QED
    BY <1>0, <2>2, <2>3 DEF DmaExclusive, ReqInv, DmaStates
<1>26. ASSUME NEW t \in Threads, NEW c \in CPUs, PollLoad(t, c)
      PROVE  DmaExclusive'
  BY <1>0, <1>26 DEF PollLoad, EnterDrain, TypeOK, RequestTypeOK,
       ThreadTypeOK, PageTypeOK, DmaExclusive, DmaStates
<1>27. CASE UNCHANGED vars
  BY <1>0, <1>27 DEF TypeOK, RequestTypeOK, ThreadTypeOK, PageTypeOK,
       DmaExclusive, DmaStates
<1> QED
  BY <1>1, <1>2, <1>3, <1>4, <1>5, <1>6, <1>7, <1>8, <1>9, <1>10, <1>11,
       <1>12, <1>13, <1>14, <1>15, <1>16, <1>17, <1>18, <1>19, <1>20, <1>21,
       <1>22, <1>23, <1>24, <1>25, <1>26, <1>27 DEF Next, DriverStep,
       ThreadStep, ApplicationStep, ReclaimStep, FaultStep

\* No request exists at the start.
LEMMA InitDInv == Init => DInv
<1> SUFFICES ASSUME Init PROVE DInv
  OBVIOUS
<1>1. \A r \in Reqs : rstate[r] \notin DmaStates
  BY DEF Init, DriverInit, DmaStates
<1>2. \A t \in Threads : dpage[t] = None
  BY DEF Init, DriverInit
<1> QED
  BY <1>1, <1>2 DEF DInv, HolderInv, ServesInv, DmaExclusive

\* Who holds which page lock, as an invariant of SwapPath.
THEOREM HoldersKept == Spec => [](IInv /\ DInv)
<1>1. IInv /\ DInv /\ [Next]_vars => DInv'
  BY HolderStep, ServesStep, DmaStep DEF DInv
<1> QED
  BY InitIInv, NextIInv, InitDInv, <1>1, PTL DEF Spec

\* From get_req_for_page to the completion handler a page is locked, unmapped
\* and in no other request, for any number of CPUs and threads, with and
\* without migration, and whatever requests, posts and completions fail.
THEOREM DmaCorrect == Spec => []DmaExclusive
<1>1. DInv => DmaExclusive
  BY DEF DInv
<1> QED
  BY <1>1, HoldersKept, PTL
=============================================================================
