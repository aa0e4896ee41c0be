--------------------------- MODULE SwapPathProofs ---------------------------
(***************************************************************************)
(* Proofs about SwapPath, for any number of CPUs, threads, pages and       *)
(* requests, any queue size, with or without migration and with any number *)
(* of adapter faults.                                                      *)
(*                                                                         *)
(* pending[q] <= MaxSendWr is not inductive: between the back-pressure     *)
(* test and the atomic_inc a second poster could slip in. What excludes it *)
(* is that a thread posts only on a queue of the CPU it occupies (CallInv) *)
(* and that a CPU is occupied by one thread (CpuInv), so the value tested  *)
(* can only have fallen (AdmitInv). That the counter is the number of live *)
(* and of refused requests (ChargeInv) rests on each request having one    *)
(* owner (OwnerInv).                                                       *)
(***************************************************************************)
EXTENDS SwapPath, FiniteSetTheorems, TLAPS

PostPcs   == {"check", "inc", "post"}
PollPcs   == {"spin", "reap", "handler"}
OwnedDone == {"reaped", "unlocked"}

\* A request that is not free belongs to a queue and to a page.
ReqInv == \A r \in Reqs : rstate[r] # "free" => rq[r] \in Queues /\ rpage[r] \in Pages

\* Inside the driver a thread holds a CPU and a queue; while it may still
\* post, the queue is one of that CPU.
CallInv ==
  \A t \in Threads :
    /\ pc[t] \in PostPcs \cup PollPcs => dq[t] \in Queues /\ cpu[t] \in CPUs
    /\ pc[t] \in PostPcs \/ (pc[t] \in PollPcs /\ loop[t] = "poll")
         => dpage[t] \in Pages /\ dq[t][1] = cpu[t]

\* A fault knows its page and a CPU number until it maps the page.
FaultInv ==
  \A t \in Threads :
    pc[t] \in {"alloc", "readahead"}
    \/ (pc[t] \in PostPcs \cup PollPcs /\ dq[t][2] # "WRITE_SYNC")
      => fpage[t] \in Pages /\ fcpu[t] \in CPUs

\* A CPU is occupied by at most one thread.
CpuInv == \A t, u \in Threads : t # u /\ cpu[t] = cpu[u] => cpu[t] = None

\* A request about to be posted, or in a completion handler, has one owner.
OwnerInv ==
  /\ \A t \in Threads :
       pc[t] = "post" => dreq[t] \in Reqs /\ rstate[dreq[t]] = "counted" /\ rq[dreq[t]] = dq[t]
  /\ \A t \in Threads :
       pc[t] = "handler" => dreq[t] \in Reqs /\ rstate[dreq[t]] \in OwnedDone
  /\ \A c \in CPUs : irq[c] # None => irq[c] \in Reqs /\ rstate[irq[c]] \in OwnedDone
  /\ \A t, u \in Threads :
       t # u /\ pc[t] \in {"post", "handler"} /\ pc[u] \in {"post", "handler"}
         => dreq[t] # dreq[u]
  /\ \A t \in Threads, c \in CPUs : pc[t] = "handler" => dreq[t] # irq[c]
  /\ \A c, d \in CPUs : c # d /\ irq[c] # None => irq[c] # irq[d]

\* The back-pressure test still holds when the counter is incremented.
AdmitInv == \A t \in Threads : pc[t] = "inc" => pending[dq[t]] < Threshold(dq[t])

\* A request charged to its queue's counter: counted, or refused by
\* ib_post_send and never taken back.
ChargedStates == {"counted", "posted", "cqe", "reaped", "unlocked", "leaked"}
Charge(q)     == {r \in Reqs : rstate[r] \in ChargedStates /\ rq[r] = q}
ChargeInv     == \A q \in Queues : pending[q] = Cardinality(Charge(q))

\* The inductive invariant.
IInv ==
  /\ TypeOK /\ ReqInv /\ CallInv /\ FaultInv /\ CpuInv /\ OwnerInv
  /\ ChargeInv /\ AdmitInv /\ PendingBounded

-----------------------------------------------------------------------------
\* What a driver step leaves alone.
KernelSame == UNCHANGED <<where, app, faultVars>>

\* The requests pending on a queue are finitely many.
LEMMA ChargeFinite == ASSUME NEW q PROVE IsFiniteSet(Charge(q)) /\ Cardinality(Charge(q)) \in Nat
<1>1. Charge(q) \subseteq Reqs
  BY DEF Charge
<1>2. IsFiniteSet(Charge(q))
  BY <1>1, ObjectAssumption, FS_Subset
<1> QED
  BY <1>2, FS_CardinalityType

\* A queue is charged for its live requests and for those refused on it, which
\* are not the same ones.
LEMMA ChargeSplit == ChargeInv => PendingAccounts
<1> SUFFICES ASSUME ChargeInv, NEW q \in Queues
             PROVE  pending[q] = Cardinality(Live(q)) + Cardinality(Refused(q))
  BY DEF PendingAccounts
<1>1. Charge(q) = Live(q) \cup Refused(q) /\ Live(q) \cap Refused(q) = {}
  BY DEF Charge, Live, Refused, ChargedStates, CountedStates
<1>2. IsFiniteSet(Live(q)) /\ IsFiniteSet(Refused(q))
  BY <1>1, ChargeFinite, FS_Subset
<1>3. Cardinality(Live(q)) \in Nat /\ Cardinality(Refused(q)) \in Nat
  BY <1>2, FS_CardinalityType
<1>4. Cardinality(Live(q) \cap Refused(q)) = 0
  BY <1>1, FS_EmptySet
<1>5. Cardinality(Live(q) \cup Refused(q))
        = Cardinality(Live(q)) + Cardinality(Refused(q)) - Cardinality(Live(q) \cap Refused(q))
  BY <1>2, FS_Union
<1>6. pending[q] = Cardinality(Live(q) \cup Refused(q))
  BY <1>1 DEF ChargeInv
<1> QED
  BY <1>3, <1>4, <1>5, <1>6

\* The accounting survives steps that keep the set of counted requests.
LEMMA ChargeSame ==
  ASSUME ChargeInv, UNCHANGED <<pending, rq>>,
         \A r \in Reqs : rstate[r] \in ChargedStates <=> rstate'[r] \in ChargedStates
  PROVE  ChargeInv'
<1> SUFFICES ASSUME NEW q \in Queues PROVE pending'[q] = Cardinality(Charge(q)')
  BY DEF ChargeInv
<1>1. Charge(q)' = Charge(q)
  BY DEF Charge
<1> QED
  BY <1>1 DEF ChargeInv

\* A request that moves from one counted state to another stays counted.
LEMMA ChargeMove ==
  ASSUME TypeOK, ChargeInv, NEW r \in Reqs, rstate[r] \in ChargedStates,
         NEW x \in ChargedStates, rstate' = [rstate EXCEPT ![r] = x],
         UNCHANGED <<pending, rq>>
  PROVE  ChargeInv'
<1>1. \A s \in Reqs : rstate[s] \in ChargedStates <=> rstate'[s] \in ChargedStates
  BY DEF TypeOK, RequestTypeOK
<1> QED
  BY <1>1, ChargeSame

\* sswap_rdma_post_rdma counts a request that was free.
LEMMA ChargeAdd ==
  ASSUME TypeOK, ChargeInv, NEW t \in Threads, CountReq(t)
  PROVE  ChargeInv'
<1> SUFFICES ASSUME NEW q \in Queues PROVE pending'[q] = Cardinality(Charge(q)')
  BY DEF ChargeInv
<1>1. PICK r \in Reqs : /\ rstate[r] = "free"
                        /\ rstate' = [rstate EXCEPT ![r] = "counted"]
                        /\ rq' = [rq EXCEPT ![r] = dq[t]]
  BY DEF CountReq
<1>2. /\ IsFiniteSet(Charge(q)) /\ Cardinality(Charge(q)) \in Nat
      /\ pending[q] = Cardinality(Charge(q))
  BY ChargeFinite DEF ChargeInv
<1>3. r \notin Charge(q)
  BY <1>1 DEF Charge, ChargedStates
<1>4. CASE q = dq[t]
  <2>1. Charge(q)' = Charge(q) \cup {r}
    BY <1>1, <1>4 DEF Charge, ChargedStates, TypeOK, RequestTypeOK
  <2>2. Cardinality(Charge(q)') = Cardinality(Charge(q)) + 1
    BY <1>2, <1>3, <2>1, FS_AddElement
  <2> QED
    BY <1>2, <1>4, <2>2 DEF CountReq, TypeOK, QueueTypeOK
<1>5. CASE q # dq[t]
  <2>1. Charge(q)' = Charge(q)
    BY <1>1, <1>5 DEF Charge, ChargedStates, TypeOK, RequestTypeOK
  <2> QED
    BY <1>2, <1>5, <2>1 DEF CountReq, TypeOK, QueueTypeOK
<1> QED
  BY <1>4, <1>5

\* A completion handler gives back a request that was counted.
LEMMA ChargeRemove ==
  ASSUME TypeOK, ReqInv, ChargeInv, NEW r \in Reqs, rstate[r] \in OwnedDone, CountDown(r)
  PROVE  ChargeInv' /\ pending[rq[r]] > 0
<1>1. rq[r] \in Queues /\ r \in Charge(rq[r])
  BY DEF ReqInv, OwnedDone, Charge, ChargedStates
<1>2. ASSUME NEW q \in Queues
      PROVE  /\ IsFiniteSet(Charge(q)) /\ Cardinality(Charge(q)) \in Nat
             /\ pending[q] = Cardinality(Charge(q))
  BY ChargeFinite DEF ChargeInv
<1>3. Cardinality(Charge(rq[r])) > 0
  <2>1. Cardinality(Charge(rq[r])) # 0
    BY <1>1, <1>2, FS_EmptySet
  <2> QED
    BY <1>1, <1>2, <2>1
<1>4. ASSUME NEW q \in Queues PROVE pending'[q] = Cardinality(Charge(q)')
  <2>1. CASE q = rq[r]
    <3>1. Charge(q)' = Charge(q) \ {r}
      BY <2>1 DEF CountDown, Charge, ChargedStates, TypeOK, RequestTypeOK
    <3>2. Cardinality(Charge(q)') = Cardinality(Charge(q)) - 1
      BY <1>1, <1>2, <2>1, <3>1, FS_RemoveElement
    <3> QED
      BY <1>2, <2>1, <3>2 DEF CountDown, TypeOK, QueueTypeOK
  <2>2. CASE q # rq[r]
    <3>1. Charge(q)' = Charge(q)
      BY <2>2, ObjectAssumption DEF CountDown, Charge, ChargedStates, TypeOK, RequestTypeOK
    <3> QED
      BY <1>2, <2>2, <3>1 DEF CountDown, TypeOK, QueueTypeOK
  <2> QED
    BY <2>1, <2>2
<1> QED
  BY <1>1, <1>2, <1>3, <1>4 DEF ChargeInv
(* Types. The counter stays a natural number because a handler decrements  *)
(* it for a request that is live, hence counted.                           *)
LEMMA TypeStep == ASSUME IInv, [Next]_vars PROVE TypeOK'
<1> USE QueueAssumption, ObjectAssumption, CallerAssumption
<1> USE DEF vars, driverVars, queueVars, hcaVars, reqVars, callVars, workVars,
            flagVars, dataVars, faultVars, KernelSame
<1> USE DEF Queues, QpTypes, PcValues, CountedStates
<1>0. TypeOK /\ ReqInv /\ CallInv /\ OwnerInv /\ ChargeInv
  BY DEF IInv
<1>1. ASSUME NEW t \in Threads, Throttle(t), KernelSame PROVE TypeOK'
  BY <1>0, <1>1 DEF Throttle, TypeOK, QueueTypeOK, RequestTypeOK,
       ThreadTypeOK, PageTypeOK, FaultTypeOK
<1>2. ASSUME NEW t \in Threads, Admit(t), KernelSame PROVE TypeOK'
  BY <1>0, <1>2 DEF Admit, TypeOK, QueueTypeOK, RequestTypeOK, ThreadTypeOK,
       PageTypeOK, FaultTypeOK
<1>3. ASSUME NEW t \in Threads, CountReq(t), KernelSame PROVE TypeOK'
  <2>1. PICK r \in Reqs :
          /\ rstate' = [rstate EXCEPT ![r] = "counted"]
          /\ rq' = [rq EXCEPT ![r] = dq[t]]
          /\ rpage' = [rpage EXCEPT ![r] = dpage[t]]
          /\ dreq' = [dreq EXCEPT ![t] = r]
    BY <1>3 DEF CountReq
  <2>2. pending' = [pending EXCEPT ![dq[t]] = @ + 1] /\ UNCHANGED <<cqLock, hcaVars>>
    BY <1>3 DEF CountReq
  <2>3. QueueTypeOK'
    <3> HIDE DEF Queues
    <3>1. pending \in [Queues -> Nat] /\ dq[t] \in Queues
      BY <1>0, <1>3 DEF TypeOK, QueueTypeOK, CallInv, PostPcs, CountReq
    <3>2. pending' \in [Queues -> Nat]
      BY <2>2, <3>1
    <3> QED
      BY <1>0, <2>2, <3>2 DEF TypeOK, QueueTypeOK
  <2>4. RequestTypeOK'
    BY <1>0, <1>3, <2>1 DEF CountReq, TypeOK, RequestTypeOK, ThreadTypeOK
  <2>5. ThreadTypeOK'
    BY <1>0, <1>3, <2>1 DEF CountReq, TypeOK, ThreadTypeOK
  <2>6. PageTypeOK' /\ FaultTypeOK'
    BY <1>0, <1>3 DEF CountReq, TypeOK, PageTypeOK, FaultTypeOK
  <2> QED
    BY <2>3, <2>4, <2>5, <2>6 DEF TypeOK
<1>4. ASSUME NEW t \in Threads, PostSend(t), KernelSame PROVE TypeOK'
  <2>1. QueueTypeOK'
    BY <1>0, <1>4 DEF PostSend, AfterPost, EnterDrain, LeaveDriver, TypeOK,
         QueueTypeOK
  <2>2. RequestTypeOK'
    BY <1>0, <1>4 DEF PostSend, AfterPost, EnterDrain, LeaveDriver, TypeOK,
         RequestTypeOK
  <2>3. ThreadTypeOK'
    BY <1>0, <1>4 DEF PostSend, AfterPost, EnterDrain, LeaveDriver, TypeOK,
         ThreadTypeOK
  <2>4. PageTypeOK'
    BY <1>0, <1>4 DEF PostSend, AfterPost, EnterDrain, LeaveDriver, TypeOK,
         PageTypeOK
  <2>5. FaultTypeOK'
    BY <1>0, <1>4 DEF PostSend, AfterPost, EnterDrain, LeaveDriver, TypeOK,
         FaultTypeOK
  <2> QED
    BY <2>1, <2>2, <2>3, <2>4, <2>5 DEF TypeOK
<1>5. ASSUME NEW t \in Threads, PostRefused(t), KernelSame PROVE TypeOK'
  <2>1. QueueTypeOK'
    BY <1>0, <1>5 DEF PostRefused, LeaveDriver, TypeOK, QueueTypeOK
  <2>2. RequestTypeOK'
    BY <1>0, <1>5 DEF PostRefused, LeaveDriver, TypeOK, RequestTypeOK
  <2>3. ThreadTypeOK'
    BY <1>0, <1>5 DEF PostRefused, LeaveDriver, TypeOK, ThreadTypeOK
  <2>4. PageTypeOK'
    BY <1>0, <1>5 DEF PostRefused, LeaveDriver, TypeOK, PageTypeOK
  <2>5. FaultTypeOK'
    BY <1>0, <1>5 DEF PostRefused, LeaveDriver, TypeOK, FaultTypeOK
  <2> QED
    BY <2>1, <2>2, <2>3, <2>4, <2>5 DEF TypeOK
<1>6. ASSUME NEW t \in Threads, LockCq(t), KernelSame PROVE TypeOK'
  BY <1>0, <1>6 DEF LockCq, TypeOK, QueueTypeOK, RequestTypeOK, ThreadTypeOK,
       PageTypeOK, FaultTypeOK
<1>7. ASSUME NEW t \in Threads, UnlockCq(t), KernelSame PROVE TypeOK'
  BY <1>0, <1>7 DEF UnlockCq, TypeOK, QueueTypeOK, RequestTypeOK,
       ThreadTypeOK, PageTypeOK, FaultTypeOK
<1>8. ASSUME NEW t \in Threads, PollTargetDone(t), KernelSame PROVE TypeOK'
  BY <1>0, <1>8 DEF PollTargetDone, TypeOK, QueueTypeOK, RequestTypeOK,
       ThreadTypeOK, PageTypeOK, FaultTypeOK
<1>9. ASSUME NEW t \in Threads, DrainDone(t), KernelSame PROVE TypeOK'
  BY <1>0, <1>9 DEF DrainDone, LeaveDriver, TypeOK, QueueTypeOK,
       RequestTypeOK, ThreadTypeOK, PageTypeOK, FaultTypeOK
<1>10. ASSUME NEW t \in Threads, ThreadCountDown(t), KernelSame PROVE TypeOK'
  <2>1. pending[rq[dreq[t]]] > 0
    BY <1>0, <1>10, ChargeRemove DEF ThreadCountDown, OwnerInv
  <2>2. QueueTypeOK'
    BY <1>0, <1>10, <2>1 DEF ThreadCountDown, CountDown, TypeOK, QueueTypeOK,
         RequestTypeOK, ReqInv, OwnerInv, OwnedDone
  <2>3. RequestTypeOK'
    BY <1>0, <1>10 DEF ThreadCountDown, CountDown, TypeOK, RequestTypeOK
  <2>4. ThreadTypeOK'
    BY <1>0, <1>10 DEF ThreadCountDown, CountDown, TypeOK, ThreadTypeOK
  <2>5. PageTypeOK'
    BY <1>0, <1>10 DEF ThreadCountDown, CountDown, TypeOK, PageTypeOK
  <2>6. FaultTypeOK'
    BY <1>0, <1>10 DEF ThreadCountDown, CountDown, TypeOK, FaultTypeOK
  <2> QED
    BY <2>2, <2>3, <2>4, <2>5, <2>6 DEF TypeOK
<1>11. ASSUME NEW t \in Threads, NEW r \in Reqs, Reap(t, r), KernelSame PROVE TypeOK'
  BY <1>0, <1>11 DEF Reap, TypeOK, QueueTypeOK, RequestTypeOK, ThreadTypeOK,
       PageTypeOK, FaultTypeOK
<1>12. ASSUME NEW c \in CPUs, NEW r \in Reqs, SoftirqReap(c, r), KernelSame PROVE TypeOK'
  BY <1>0, <1>12 DEF SoftirqReap, TypeOK, QueueTypeOK, RequestTypeOK,
       ThreadTypeOK, PageTypeOK, FaultTypeOK
<1>13. ASSUME NEW c \in CPUs, SoftirqCountDown(c), KernelSame PROVE TypeOK'
  <2>1. pending[rq[irq[c]]] > 0
    BY <1>0, <1>13, ChargeRemove DEF SoftirqCountDown, OwnerInv
  <2>2. QueueTypeOK'
    BY <1>0, <1>13, <2>1 DEF SoftirqCountDown, CountDown, TypeOK, QueueTypeOK,
         RequestTypeOK, ReqInv, OwnerInv, OwnedDone
  <2>3. RequestTypeOK'
    BY <1>0, <1>13 DEF SoftirqCountDown, CountDown, TypeOK, RequestTypeOK
  <2>4. ThreadTypeOK'
    BY <1>0, <1>13 DEF SoftirqCountDown, CountDown, TypeOK, ThreadTypeOK
  <2>5. PageTypeOK'
    BY <1>0, <1>13 DEF SoftirqCountDown, CountDown, TypeOK, PageTypeOK
  <2>6. FaultTypeOK'
    BY <1>0, <1>13 DEF SoftirqCountDown, CountDown, TypeOK, FaultTypeOK
  <2> QED
    BY <2>2, <2>3, <2>4, <2>5, <2>6 DEF TypeOK
<1>14. ASSUME NEW r \in Reqs, ReadDonePage(r), KernelSame PROVE TypeOK'
  BY <1>0, <1>14 DEF ReadDonePage, TypeOK, QueueTypeOK, RequestTypeOK,
       ThreadTypeOK, PageTypeOK, FaultTypeOK
<1>15. ASSUME NEW r \in Reqs, HcaExecute(r), KernelSame PROVE TypeOK'
  <2>1. QueueTypeOK'
    BY <1>0, <1>15 DEF HcaExecute, Transfer, ReqInv, IInv, TypeOK, QueueTypeOK
  <2>2. RequestTypeOK'
    BY <1>0, <1>15 DEF HcaExecute, Transfer, ReqInv, IInv, TypeOK,
         RequestTypeOK
  <2>3. ThreadTypeOK'
    BY <1>0, <1>15 DEF HcaExecute, Transfer, ReqInv, IInv, TypeOK,
         ThreadTypeOK
  <2>4. PageTypeOK'
    BY <1>0, <1>15 DEF HcaExecute, Transfer, ReqInv, IInv, TypeOK, PageTypeOK
  <2>5. FaultTypeOK'
    BY <1>0, <1>15 DEF HcaExecute, Transfer, ReqInv, IInv, TypeOK, FaultTypeOK
  <2> QED
    BY <2>1, <2>2, <2>3, <2>4, <2>5 DEF TypeOK
<1>16. ASSUME NEW r \in Reqs, HcaFail(r), KernelSame PROVE TypeOK'
  <2>1. QueueTypeOK'
    <3>1. CASE UNCHANGED hcaVars
      BY <1>0, <1>16, <3>1 DEF HcaFail, TypeOK, QueueTypeOK
    <3>2. CASE faults < MaxFaults /\ faults' = faults + 1
               /\ qpErr' = [qpErr EXCEPT ![rq[r]] = TRUE]
      <4>1. faults' \in 0..MaxFaults
        BY <1>0, <3>2 DEF TypeOK, QueueTypeOK
      <4>2. qpErr' \in [Queues -> BOOLEAN]
        BY <1>0, <3>2 DEF TypeOK, QueueTypeOK
      <4> QED
        BY <1>0, <1>16, <4>1, <4>2 DEF HcaFail, TypeOK, QueueTypeOK
    <3> QED
      BY <1>16, <3>1, <3>2 DEF HcaFail
  <2>2. RequestTypeOK'
    BY <1>0, <1>16 DEF HcaFail, TypeOK, RequestTypeOK
  <2>3. ThreadTypeOK'
    BY <1>0, <1>16 DEF HcaFail, TypeOK, ThreadTypeOK
  <2>4. PageTypeOK'
    BY <1>0, <1>16 DEF HcaFail, TypeOK, PageTypeOK
  <2>5. FaultTypeOK'
    BY <1>0, <1>16 DEF HcaFail, TypeOK, FaultTypeOK
  <2> QED
    BY <2>1, <2>2, <2>3, <2>4, <2>5 DEF TypeOK
<1>17. ASSUME NEW p \in Pages, NEW v \in Vals, Touch(p, v) PROVE TypeOK'
  BY <1>0, <1>17 DEF Touch, TypeOK, QueueTypeOK, RequestTypeOK, ThreadTypeOK,
       PageTypeOK, FaultTypeOK
<1>18. ASSUME NEW t \in Threads, NEW p \in Pages, NEW c \in CPUs, SwapOut(t, p, c) PROVE TypeOK'
  BY <1>0, <1>18 DEF SwapOut, EnterPost, sswap_rdma_get_queue, TypeOK,
       QueueTypeOK, RequestTypeOK, ThreadTypeOK, PageTypeOK, FaultTypeOK
<1>19. ASSUME NEW t \in Threads, StoreReturned(t) PROVE TypeOK'
  BY <1>0, <1>19 DEF StoreReturned, TypeOK, QueueTypeOK, RequestTypeOK,
       ThreadTypeOK, PageTypeOK, FaultTypeOK
<1>20. ASSUME NEW p \in Pages, ReclaimCached(p) PROVE TypeOK'
  BY <1>0, <1>20 DEF ReclaimCached, TypeOK, QueueTypeOK, RequestTypeOK,
       ThreadTypeOK, PageTypeOK, FaultTypeOK
<1>21. ASSUME NEW t \in Threads, NEW p \in Pages, NEW c \in CPUs, SwapIn(t, p, c) PROVE TypeOK'
  <2>1. QueueTypeOK'
    BY <1>0, <1>21 DEF SwapIn, TypeOK, QueueTypeOK
  <2>2. RequestTypeOK'
    BY <1>0, <1>21 DEF SwapIn, TypeOK, RequestTypeOK
  <2>3. ThreadTypeOK'
    BY <1>0, <1>21 DEF SwapIn, TypeOK, ThreadTypeOK
  <2>4. PageTypeOK'
    BY <1>0, <1>21 DEF SwapIn, TypeOK, PageTypeOK
  <2>5. FaultTypeOK'
    BY <1>0, <1>21 DEF SwapIn, TypeOK, FaultTypeOK
  <2> QED
    BY <2>1, <2>2, <2>3, <2>4, <2>5 DEF TypeOK
<1>22. ASSUME NEW t \in Threads, NEW p \in Pages, NEW c \in CPUs, ReadAhead(t, p, c) PROVE TypeOK'
  BY <1>0, <1>22 DEF ReadAhead, EnterPost, NewFrame, sswap_rdma_get_queue,
       TypeOK, QueueTypeOK, RequestTypeOK, ThreadTypeOK, PageTypeOK,
       FaultTypeOK
<1>23. ASSUME NEW t \in Threads, AllocSleep(t) PROVE TypeOK'
  BY <1>0, <1>23 DEF AllocSleep, TypeOK, QueueTypeOK, RequestTypeOK,
       ThreadTypeOK, PageTypeOK, FaultTypeOK
<1>24. ASSUME NEW t \in Threads, MapFault(t) PROVE TypeOK'
  <2>1. QueueTypeOK'
    BY <1>0, <1>24 DEF MapFault, TypeOK, QueueTypeOK
  <2>2. RequestTypeOK'
    BY <1>0, <1>24 DEF MapFault, TypeOK, RequestTypeOK
  <2>3. ThreadTypeOK'
    BY <1>0, <1>24 DEF MapFault, TypeOK, ThreadTypeOK
  <2>4. PageTypeOK'
    BY <1>0, <1>24 DEF MapFault, TypeOK, PageTypeOK
  <2>5. FaultTypeOK'
    BY <1>0, <1>24 DEF MapFault, TypeOK, FaultTypeOK
  <2> QED
    BY <2>1, <2>2, <2>3, <2>4, <2>5 DEF TypeOK
<1>25. ASSUME NEW t \in Threads, NEW c \in CPUs, ReadFault(t, c) PROVE TypeOK'
  <2>1. QueueTypeOK'
    BY <1>0, <1>25 DEF ReadFault, EnterPost, NewFrame, sswap_rdma_get_queue,
         TypeOK, QueueTypeOK
  <2>2. RequestTypeOK'
    BY <1>0, <1>25 DEF ReadFault, EnterPost, NewFrame, sswap_rdma_get_queue,
         TypeOK, RequestTypeOK
  <2>3. ThreadTypeOK'
    BY <1>0, <1>25 DEF ReadFault, EnterPost, NewFrame, sswap_rdma_get_queue,
         TypeOK, ThreadTypeOK, FaultTypeOK
  <2>4. PageTypeOK'
    BY <1>0, <1>25 DEF ReadFault, EnterPost, NewFrame, sswap_rdma_get_queue,
         TypeOK, PageTypeOK
  <2>5. FaultTypeOK'
    BY <1>0, <1>25 DEF ReadFault, EnterPost, NewFrame, sswap_rdma_get_queue,
         TypeOK, FaultTypeOK
  <2> QED
    BY <2>1, <2>2, <2>3, <2>4, <2>5 DEF TypeOK
<1>26. ASSUME NEW t \in Threads, NEW c \in CPUs, PollLoad(t, c) PROVE TypeOK'
  BY <1>0, <1>26 DEF PollLoad, EnterDrain, sswap_rdma_get_queue, FaultInv,
       IInv, TypeOK, QueueTypeOK, RequestTypeOK, ThreadTypeOK, PageTypeOK,
       FaultTypeOK
<1>27. CASE UNCHANGED vars
  BY <1>0, <1>27 DEF TypeOK, QueueTypeOK, RequestTypeOK, ThreadTypeOK,
       PageTypeOK, FaultTypeOK
<1>28. ASSUME NEW t \in Threads, ReqFailed(t), KernelSame PROVE TypeOK'
  <2>1. QueueTypeOK'
    BY <1>0, <1>28 DEF ReqFailed, LeaveDriver, TypeOK, QueueTypeOK
  <2>2. RequestTypeOK'
    BY <1>0, <1>28 DEF ReqFailed, LeaveDriver, TypeOK, RequestTypeOK
  <2>3. ThreadTypeOK'
    BY <1>0, <1>28 DEF ReqFailed, LeaveDriver, TypeOK, ThreadTypeOK
  <2>4. PageTypeOK'
    BY <1>0, <1>28 DEF ReqFailed, LeaveDriver, TypeOK, PageTypeOK
  <2>5. FaultTypeOK'
    BY <1>0, <1>28 DEF ReqFailed, LeaveDriver, TypeOK, FaultTypeOK
  <2> QED
    BY <2>1, <2>2, <2>3, <2>4, <2>5 DEF TypeOK
<1> QED
  BY <1>1, <1>2, <1>3, <1>4, <1>5, <1>6, <1>7, <1>8, <1>9, <1>10, <1>11,
       <1>12, <1>13, <1>14, <1>15, <1>16, <1>17, <1>18, <1>19, <1>20, <1>21,
       <1>22, <1>23, <1>24, <1>25, <1>26, <1>27, <1>28 DEF Next, DriverStep,
       ThreadStep, ApplicationStep, ReclaimStep, FaultStep

\* A request gets its queue and its page before it leaves the free state.
LEMMA ReqInvStep == ASSUME IInv, [Next]_vars PROVE ReqInv'
<1> USE QueueAssumption, ObjectAssumption, CallerAssumption
<1> USE DEF vars, driverVars, queueVars, hcaVars, reqVars, callVars, workVars,
            flagVars, dataVars, faultVars, KernelSame
<1>0. TypeOK /\ ReqInv /\ CallInv /\ OwnerInv
  BY DEF IInv
<1>1. ASSUME NEW t \in Threads, Throttle(t), KernelSame
      PROVE  ReqInv'
  BY <1>0, <1>1, SMTT(30) DEF Throttle, TypeOK, QueueTypeOK, RequestTypeOK,
       ThreadTypeOK, FaultTypeOK, Queues, QpTypes, PcValues, CountedStates,
       ReqInv, CallInv, OwnerInv, PostPcs, PollPcs
<1>2. ASSUME NEW t \in Threads, Admit(t), KernelSame
      PROVE  ReqInv'
  BY <1>0, <1>2, SMTT(30) DEF Admit, TypeOK, QueueTypeOK, RequestTypeOK,
       ThreadTypeOK, FaultTypeOK, Queues, QpTypes, PcValues, CountedStates,
       ReqInv, CallInv, OwnerInv, PostPcs, PollPcs
<1>3. ASSUME NEW t \in Threads, CountReq(t), KernelSame
      PROVE  ReqInv'
  BY <1>0, <1>3, SMTT(30) DEF CountReq, TypeOK, QueueTypeOK, RequestTypeOK,
       ThreadTypeOK, FaultTypeOK, Queues, QpTypes, PcValues, CountedStates,
       ReqInv, CallInv, OwnerInv, PostPcs, PollPcs
<1>4. ASSUME NEW t \in Threads, PostSend(t), KernelSame
      PROVE  ReqInv'
  BY <1>0, <1>4, SMTT(30) DEF PostSend, AfterPost, EnterDrain, LeaveDriver,
       TypeOK, QueueTypeOK, RequestTypeOK, ThreadTypeOK, FaultTypeOK, Queues,
       QpTypes, PcValues, CountedStates, ReqInv, CallInv, OwnerInv, PostPcs,
       PollPcs
<1>5. ASSUME NEW t \in Threads, LockCq(t), KernelSame
      PROVE  ReqInv'
  BY <1>0, <1>5, SMTT(30) DEF LockCq, TypeOK, QueueTypeOK, RequestTypeOK,
       ThreadTypeOK, FaultTypeOK, Queues, QpTypes, PcValues, CountedStates,
       ReqInv, CallInv, OwnerInv, PostPcs, PollPcs
<1>6. ASSUME NEW t \in Threads, UnlockCq(t), KernelSame
      PROVE  ReqInv'
  BY <1>0, <1>6, SMTT(30) DEF UnlockCq, TypeOK, QueueTypeOK, RequestTypeOK,
       ThreadTypeOK, FaultTypeOK, Queues, QpTypes, PcValues, CountedStates,
       ReqInv, CallInv, OwnerInv, PostPcs, PollPcs
<1>7. ASSUME NEW t \in Threads, PollTargetDone(t), KernelSame
      PROVE  ReqInv'
  BY <1>0, <1>7, SMTT(30) DEF PollTargetDone, TypeOK, QueueTypeOK,
       RequestTypeOK, ThreadTypeOK, FaultTypeOK, Queues, QpTypes, PcValues,
       CountedStates, ReqInv, CallInv, OwnerInv, PostPcs, PollPcs
<1>8. ASSUME NEW t \in Threads, DrainDone(t), KernelSame
      PROVE  ReqInv'
  BY <1>0, <1>8, SMTT(30) DEF DrainDone, LeaveDriver, TypeOK, QueueTypeOK,
       RequestTypeOK, ThreadTypeOK, FaultTypeOK, Queues, QpTypes, PcValues,
       CountedStates, ReqInv, CallInv, OwnerInv, PostPcs, PollPcs
<1>9. ASSUME NEW t \in Threads, ThreadCountDown(t), KernelSame
      PROVE  ReqInv'
  BY <1>0, <1>9, SMTT(30) DEF ThreadCountDown, CountDown, ReadyToCount,
       IsRead, TypeOK, QueueTypeOK, RequestTypeOK, ThreadTypeOK, FaultTypeOK,
       Queues, QpTypes, PcValues, CountedStates, ReqInv, CallInv, OwnerInv,
       PostPcs, PollPcs
<1>10. ASSUME NEW t \in Threads, PostRefused(t), KernelSame
      PROVE  ReqInv'
  BY <1>0, <1>10, SMTT(30) DEF PostRefused, LeaveDriver, TypeOK, QueueTypeOK,
       RequestTypeOK, ThreadTypeOK, FaultTypeOK, Queues, QpTypes, PcValues,
       CountedStates, ReqInv, CallInv, OwnerInv, PostPcs, PollPcs
<1>11. ASSUME NEW t \in Threads, NEW r \in Reqs, Reap(t, r), KernelSame
      PROVE  ReqInv'
  BY <1>0, <1>11, SMTT(30) DEF Reap, TypeOK, QueueTypeOK, RequestTypeOK,
       ThreadTypeOK, FaultTypeOK, Queues, QpTypes, PcValues, CountedStates,
       ReqInv, CallInv, OwnerInv, PostPcs, PollPcs
<1>12. ASSUME NEW c \in CPUs, NEW r \in Reqs, SoftirqReap(c, r), KernelSame
      PROVE  ReqInv'
  BY <1>0, <1>12, SMTT(30) DEF SoftirqReap, TypeOK, QueueTypeOK,
       RequestTypeOK, ThreadTypeOK, FaultTypeOK, Queues, QpTypes, PcValues,
       CountedStates, ReqInv, CallInv, OwnerInv, PostPcs, PollPcs
<1>13. ASSUME NEW c \in CPUs, SoftirqCountDown(c), KernelSame
      PROVE  ReqInv'
  BY <1>0, <1>13, SMTT(30) DEF SoftirqCountDown, CountDown, TypeOK,
       QueueTypeOK, RequestTypeOK, ThreadTypeOK, FaultTypeOK, Queues, QpTypes,
       PcValues, CountedStates, ReqInv, CallInv, OwnerInv, PostPcs, PollPcs
<1>14. ASSUME NEW r \in Reqs, ReadDonePage(r) \/ HcaExecute(r) \/ HcaFail(r), KernelSame
      PROVE  ReqInv'
  BY <1>0, <1>14, SMTT(30) DEF ReadDonePage, HcaExecute, HcaFail, TypeOK,
       QueueTypeOK, RequestTypeOK, ThreadTypeOK, FaultTypeOK, Queues, QpTypes,
       PcValues, CountedStates, ReqInv, CallInv, OwnerInv, PostPcs, PollPcs
<1>15. ASSUME ApplicationStep
      PROVE  ReqInv'
  BY <1>0, <1>15, SMTT(30) DEF ApplicationStep, Touch, TypeOK, QueueTypeOK,
       RequestTypeOK, ThreadTypeOK, FaultTypeOK, Queues, QpTypes, PcValues,
       CountedStates, ReqInv, CallInv, OwnerInv, PostPcs, PollPcs
<1>16. ASSUME ReclaimStep
      PROVE  ReqInv'
  BY <1>0, <1>16, SMTT(30) DEF ReclaimStep, SwapOut, StoreReturned,
       ReclaimCached, EnterPost, sswap_rdma_get_queue, CpuFree, TypeOK,
       QueueTypeOK, RequestTypeOK, ThreadTypeOK, FaultTypeOK, Queues, QpTypes,
       PcValues, CountedStates, ReqInv, CallInv, OwnerInv, PostPcs, PollPcs
<1>17. ASSUME FaultStep
      PROVE  ReqInv'
  BY <1>0, <1>17, SMTT(30) DEF FaultStep, SwapIn, ReadAhead, AllocSleep,
       MapFault, ReadFault, PollLoad, EnterPost, EnterDrain, NewFrame,
       sswap_rdma_get_queue, CpuFree, TypeOK, QueueTypeOK, RequestTypeOK,
       ThreadTypeOK, FaultTypeOK, Queues, QpTypes, PcValues, CountedStates,
       ReqInv, CallInv, OwnerInv, PostPcs, PollPcs
<1>18. CASE UNCHANGED vars
  BY <1>0, <1>18 DEF ReqInv, CallInv, OwnerInv, PostPcs, PollPcs
<1>19. ASSUME NEW t \in Threads, ReqFailed(t), KernelSame
      PROVE  ReqInv'
  BY <1>0, <1>19, SMTT(30) DEF ReqFailed, LeaveDriver, TypeOK, QueueTypeOK,
       RequestTypeOK, ThreadTypeOK, FaultTypeOK, Queues, QpTypes, PcValues,
       CountedStates, ReqInv, CallInv, OwnerInv, PostPcs, PollPcs
<1> QED
  BY <1>1, <1>2, <1>3, <1>4, <1>5, <1>6, <1>7, <1>8, <1>9, <1>10, <1>11,
       <1>12, <1>13, <1>14, <1>15, <1>16, <1>17, <1>18, <1>19 DEF Next, DriverStep,
       ThreadStep

\* A thread takes its queue from the CPU it enters the driver on.
LEMMA CallInvStep == ASSUME IInv, [Next]_vars PROVE CallInv'
<1> USE QueueAssumption, ObjectAssumption, CallerAssumption
<1> USE DEF vars, driverVars, queueVars, hcaVars, reqVars, callVars, workVars,
            flagVars, dataVars, faultVars, KernelSame
<1>0. TypeOK /\ CallInv /\ FaultInv
  BY DEF IInv
<1>1. ASSUME NEW t \in Threads, ThreadStep(t), KernelSame
      PROVE  CallInv'
  BY <1>0, <1>1, SMTT(30) DEF ThreadStep, Throttle, Admit, CountReq, PostSend,
       LockCq, UnlockCq, PollTargetDone, DrainDone, ThreadCountDown,
       AfterPost, EnterDrain, LeaveDriver, CountDown, TypeOK, QueueTypeOK,
       RequestTypeOK, ThreadTypeOK, FaultTypeOK, Queues, QpTypes, PcValues,
       CountedStates, CallInv, FaultInv, PostPcs, PollPcs
<1>2. ASSUME NEW t \in Threads, PostRefused(t), KernelSame
      PROVE  CallInv'
  BY <1>0, <1>2, SMTT(30) DEF PostRefused, LeaveDriver, TypeOK, QueueTypeOK,
       RequestTypeOK, ThreadTypeOK, FaultTypeOK, Queues, QpTypes, PcValues,
       CountedStates, CallInv, FaultInv, PostPcs, PollPcs
<1>3. ASSUME NEW t \in Threads, NEW r \in Reqs, Reap(t, r), KernelSame
      PROVE  CallInv'
  BY <1>0, <1>3, SMTT(30) DEF Reap, TypeOK, QueueTypeOK, RequestTypeOK,
       ThreadTypeOK, FaultTypeOK, Queues, QpTypes, PcValues, CountedStates,
       CallInv, FaultInv, PostPcs, PollPcs
<1>4. ASSUME NEW c \in CPUs, NEW r \in Reqs, SoftirqReap(c, r), KernelSame
      PROVE  CallInv'
  BY <1>0, <1>4, SMTT(30) DEF SoftirqReap, TypeOK, QueueTypeOK, RequestTypeOK,
       ThreadTypeOK, FaultTypeOK, Queues, QpTypes, PcValues, CountedStates,
       CallInv, FaultInv, PostPcs, PollPcs
<1>5. ASSUME NEW c \in CPUs, SoftirqCountDown(c), KernelSame
      PROVE  CallInv'
  BY <1>0, <1>5, SMTT(30) DEF SoftirqCountDown, CountDown, TypeOK,
       QueueTypeOK, RequestTypeOK, ThreadTypeOK, FaultTypeOK, Queues, QpTypes,
       PcValues, CountedStates, CallInv, FaultInv, PostPcs, PollPcs
<1>6. ASSUME NEW r \in Reqs, ReadDonePage(r) \/ HcaExecute(r) \/ HcaFail(r), KernelSame
      PROVE  CallInv'
  BY <1>0, <1>6, SMTT(30) DEF ReadDonePage, HcaExecute, HcaFail, TypeOK,
       QueueTypeOK, RequestTypeOK, ThreadTypeOK, FaultTypeOK, Queues, QpTypes,
       PcValues, CountedStates, CallInv, FaultInv, PostPcs, PollPcs
<1>7. ASSUME ApplicationStep
      PROVE  CallInv'
  BY <1>0, <1>7, SMTT(30) DEF ApplicationStep, Touch, TypeOK, QueueTypeOK,
       RequestTypeOK, ThreadTypeOK, FaultTypeOK, Queues, QpTypes, PcValues,
       CountedStates, CallInv, FaultInv, PostPcs, PollPcs
<1>8. ASSUME ReclaimStep
      PROVE  CallInv'
  BY <1>0, <1>8, SMTT(30) DEF ReclaimStep, SwapOut, StoreReturned,
       ReclaimCached, EnterPost, sswap_rdma_get_queue, CpuFree, TypeOK,
       QueueTypeOK, RequestTypeOK, ThreadTypeOK, FaultTypeOK, Queues, QpTypes,
       PcValues, CountedStates, CallInv, FaultInv, PostPcs, PollPcs
<1>9. ASSUME FaultStep
      PROVE  CallInv'
  BY <1>0, <1>9, SMTT(30) DEF FaultStep, SwapIn, ReadAhead, AllocSleep,
       MapFault, ReadFault, PollLoad, EnterPost, EnterDrain, NewFrame,
       sswap_rdma_get_queue, CpuFree, TypeOK, QueueTypeOK, RequestTypeOK,
       ThreadTypeOK, FaultTypeOK, Queues, QpTypes, PcValues, CountedStates,
       CallInv, FaultInv, PostPcs, PollPcs
<1>10. CASE UNCHANGED vars
  BY <1>0, <1>10 DEF CallInv, FaultInv, PostPcs, PollPcs
<1>11. ASSUME NEW t \in Threads, ReqFailed(t), KernelSame
      PROVE  CallInv'
  BY <1>0, <1>11, SMTT(30) DEF ReqFailed, LeaveDriver, TypeOK, QueueTypeOK,
       RequestTypeOK, ThreadTypeOK, FaultTypeOK, Queues, QpTypes, PcValues,
       CountedStates, CallInv, FaultInv, PostPcs, PollPcs
<1> QED
  BY <1>1, <1>2, <1>3, <1>4, <1>5, <1>6, <1>7, <1>8, <1>9, <1>10, <1>11 DEF Next,
       DriverStep

\* A fault keeps its page and its CPU number through every driver call.
LEMMA FaultInvStep == ASSUME IInv, [Next]_vars PROVE FaultInv'
<1> USE QueueAssumption, ObjectAssumption, CallerAssumption
<1> USE DEF vars, driverVars, queueVars, hcaVars, reqVars, callVars, workVars,
            flagVars, dataVars, faultVars, KernelSame
<1>0. TypeOK /\ FaultInv /\ CallInv
  BY DEF IInv
<1>1. ASSUME NEW t \in Threads, ThreadStep(t), KernelSame
      PROVE  FaultInv'
  BY <1>0, <1>1, SMTT(30) DEF ThreadStep, Throttle, Admit, CountReq, PostSend,
       LockCq, UnlockCq, PollTargetDone, DrainDone, ThreadCountDown,
       AfterPost, EnterDrain, LeaveDriver, CountDown, TypeOK, QueueTypeOK,
       RequestTypeOK, ThreadTypeOK, FaultTypeOK, Queues, QpTypes, PcValues,
       CountedStates, FaultInv, CallInv, PostPcs, PollPcs
<1>2. ASSUME NEW t \in Threads, PostRefused(t), KernelSame
      PROVE  FaultInv'
  BY <1>0, <1>2, SMTT(30) DEF PostRefused, LeaveDriver, TypeOK, QueueTypeOK,
       RequestTypeOK, ThreadTypeOK, FaultTypeOK, Queues, QpTypes, PcValues,
       CountedStates, FaultInv, CallInv, PostPcs, PollPcs
<1>3. ASSUME NEW t \in Threads, NEW r \in Reqs, Reap(t, r), KernelSame
      PROVE  FaultInv'
  BY <1>0, <1>3, SMTT(30) DEF Reap, TypeOK, QueueTypeOK, RequestTypeOK,
       ThreadTypeOK, FaultTypeOK, Queues, QpTypes, PcValues, CountedStates,
       FaultInv, CallInv, PostPcs, PollPcs
<1>4. ASSUME NEW c \in CPUs, NEW r \in Reqs, SoftirqReap(c, r), KernelSame
      PROVE  FaultInv'
  BY <1>0, <1>4, SMTT(30) DEF SoftirqReap, TypeOK, QueueTypeOK, RequestTypeOK,
       ThreadTypeOK, FaultTypeOK, Queues, QpTypes, PcValues, CountedStates,
       FaultInv, CallInv, PostPcs, PollPcs
<1>5. ASSUME NEW c \in CPUs, SoftirqCountDown(c), KernelSame
      PROVE  FaultInv'
  BY <1>0, <1>5, SMTT(30) DEF SoftirqCountDown, CountDown, TypeOK,
       QueueTypeOK, RequestTypeOK, ThreadTypeOK, FaultTypeOK, Queues, QpTypes,
       PcValues, CountedStates, FaultInv, CallInv, PostPcs, PollPcs
<1>6. ASSUME NEW r \in Reqs, ReadDonePage(r) \/ HcaExecute(r) \/ HcaFail(r), KernelSame
      PROVE  FaultInv'
  BY <1>0, <1>6, SMTT(30) DEF ReadDonePage, HcaExecute, HcaFail, TypeOK,
       QueueTypeOK, RequestTypeOK, ThreadTypeOK, FaultTypeOK, Queues, QpTypes,
       PcValues, CountedStates, FaultInv, CallInv, PostPcs, PollPcs
<1>7. ASSUME ApplicationStep
      PROVE  FaultInv'
  BY <1>0, <1>7, SMTT(30) DEF ApplicationStep, Touch, TypeOK, QueueTypeOK,
       RequestTypeOK, ThreadTypeOK, FaultTypeOK, Queues, QpTypes, PcValues,
       CountedStates, FaultInv, CallInv, PostPcs, PollPcs
<1>8. ASSUME ReclaimStep
      PROVE  FaultInv'
  BY <1>0, <1>8, SMTT(30) DEF ReclaimStep, SwapOut, StoreReturned,
       ReclaimCached, EnterPost, sswap_rdma_get_queue, CpuFree, TypeOK,
       QueueTypeOK, RequestTypeOK, ThreadTypeOK, FaultTypeOK, Queues, QpTypes,
       PcValues, CountedStates, FaultInv, CallInv, PostPcs, PollPcs
<1>9. ASSUME FaultStep
      PROVE  FaultInv'
  BY <1>0, <1>9, SMTT(30) DEF FaultStep, SwapIn, ReadAhead, AllocSleep,
       MapFault, ReadFault, PollLoad, EnterPost, EnterDrain, NewFrame,
       sswap_rdma_get_queue, CpuFree, TypeOK, QueueTypeOK, RequestTypeOK,
       ThreadTypeOK, FaultTypeOK, Queues, QpTypes, PcValues, CountedStates,
       FaultInv, CallInv, PostPcs, PollPcs
<1>10. CASE UNCHANGED vars
  BY <1>0, <1>10 DEF FaultInv, CallInv, PostPcs, PollPcs
<1>11. ASSUME NEW t \in Threads, ReqFailed(t), KernelSame
      PROVE  FaultInv'
  BY <1>0, <1>11, SMTT(30) DEF ReqFailed, LeaveDriver, TypeOK, QueueTypeOK,
       RequestTypeOK, ThreadTypeOK, FaultTypeOK, Queues, QpTypes, PcValues,
       CountedStates, FaultInv, CallInv, PostPcs, PollPcs
<1> QED
  BY <1>1, <1>2, <1>3, <1>4, <1>5, <1>6, <1>7, <1>8, <1>9, <1>10, <1>11 DEF Next,
       DriverStep

\* A thread takes only a free CPU, or keeps the one it has.
LEMMA CpuInvStep == ASSUME IInv, [Next]_vars PROVE CpuInv'
<1> USE QueueAssumption, ObjectAssumption, CallerAssumption
<1> USE DEF vars, driverVars, queueVars, hcaVars, reqVars, callVars, workVars,
            flagVars, dataVars, faultVars, KernelSame
<1>0. TypeOK /\ CpuInv
  BY DEF IInv
<1>1. ASSUME NEW t \in Threads, ThreadStep(t), KernelSame
      PROVE  CpuInv'
  BY <1>0, <1>1, SMTT(30) DEF ThreadStep, Throttle, Admit, CountReq, PostSend,
       LockCq, UnlockCq, PollTargetDone, DrainDone, ThreadCountDown,
       AfterPost, EnterDrain, LeaveDriver, CountDown, TypeOK, QueueTypeOK,
       RequestTypeOK, ThreadTypeOK, FaultTypeOK, Queues, QpTypes, PcValues,
       CountedStates, CpuInv
<1>2. ASSUME NEW t \in Threads, PostRefused(t), KernelSame
      PROVE  CpuInv'
  BY <1>0, <1>2, SMTT(30) DEF PostRefused, LeaveDriver, TypeOK, QueueTypeOK,
       RequestTypeOK, ThreadTypeOK, FaultTypeOK, Queues, QpTypes, PcValues,
       CountedStates, CpuInv
<1>3. ASSUME NEW t \in Threads, NEW r \in Reqs, Reap(t, r), KernelSame
      PROVE  CpuInv'
  BY <1>0, <1>3, SMTT(30) DEF Reap, TypeOK, QueueTypeOK, RequestTypeOK,
       ThreadTypeOK, FaultTypeOK, Queues, QpTypes, PcValues, CountedStates,
       CpuInv
<1>4. ASSUME NEW c \in CPUs, NEW r \in Reqs, SoftirqReap(c, r), KernelSame
      PROVE  CpuInv'
  BY <1>0, <1>4, SMTT(30) DEF SoftirqReap, TypeOK, QueueTypeOK, RequestTypeOK,
       ThreadTypeOK, FaultTypeOK, Queues, QpTypes, PcValues, CountedStates,
       CpuInv
<1>5. ASSUME NEW c \in CPUs, SoftirqCountDown(c), KernelSame
      PROVE  CpuInv'
  BY <1>0, <1>5, SMTT(30) DEF SoftirqCountDown, CountDown, TypeOK,
       QueueTypeOK, RequestTypeOK, ThreadTypeOK, FaultTypeOK, Queues, QpTypes,
       PcValues, CountedStates, CpuInv
<1>6. ASSUME NEW r \in Reqs, ReadDonePage(r) \/ HcaExecute(r) \/ HcaFail(r), KernelSame
      PROVE  CpuInv'
  BY <1>0, <1>6, SMTT(30) DEF ReadDonePage, HcaExecute, HcaFail, TypeOK,
       QueueTypeOK, RequestTypeOK, ThreadTypeOK, FaultTypeOK, Queues, QpTypes,
       PcValues, CountedStates, CpuInv
<1>7. ASSUME ApplicationStep
      PROVE  CpuInv'
  BY <1>0, <1>7, SMTT(30) DEF ApplicationStep, Touch, TypeOK, QueueTypeOK,
       RequestTypeOK, ThreadTypeOK, FaultTypeOK, Queues, QpTypes, PcValues,
       CountedStates, CpuInv
<1>8. ASSUME ReclaimStep
      PROVE  CpuInv'
  BY <1>0, <1>8, SMTT(30) DEF ReclaimStep, SwapOut, StoreReturned,
       ReclaimCached, EnterPost, sswap_rdma_get_queue, CpuFree, TypeOK,
       QueueTypeOK, RequestTypeOK, ThreadTypeOK, FaultTypeOK, Queues, QpTypes,
       PcValues, CountedStates, CpuInv
<1>9. ASSUME NEW t \in Threads, NEW p \in Pages, NEW c \in CPUs, SwapIn(t, p, c)
      PROVE  CpuInv'
  BY <1>0, <1>9, SMTT(30) DEF SwapIn, CpuFree, TypeOK, QueueTypeOK,
       RequestTypeOK, ThreadTypeOK, FaultTypeOK, Queues, QpTypes, PcValues,
       CountedStates, CpuInv
<1>10. ASSUME NEW t \in Threads, NEW p \in Pages, NEW c \in CPUs, ReadAhead(t, p, c)
      PROVE  CpuInv'
  BY <1>0, <1>10, SMTT(30) DEF ReadAhead, EnterPost, NewFrame,
       sswap_rdma_get_queue, CpuFree, TypeOK, QueueTypeOK, RequestTypeOK,
       ThreadTypeOK, FaultTypeOK, Queues, QpTypes, PcValues, CountedStates,
       CpuInv
<1>11. ASSUME NEW t \in Threads, AllocSleep(t)
      PROVE  CpuInv'
  BY <1>0, <1>11, SMTT(30) DEF AllocSleep, TypeOK, QueueTypeOK, RequestTypeOK,
       ThreadTypeOK, FaultTypeOK, Queues, QpTypes, PcValues, CountedStates,
       CpuInv
<1>12. ASSUME NEW t \in Threads, MapFault(t)
      PROVE  CpuInv'
  BY <1>0, <1>12, SMTT(30) DEF MapFault, TypeOK, QueueTypeOK, RequestTypeOK,
       ThreadTypeOK, FaultTypeOK, Queues, QpTypes, PcValues, CountedStates,
       CpuInv
<1>13. ASSUME NEW t \in Threads, NEW c \in CPUs, ReadFault(t, c)
      PROVE  CpuInv'
  BY <1>0, <1>13, SMTT(30) DEF ReadFault, EnterPost, NewFrame,
       sswap_rdma_get_queue, CpuFree, TypeOK, QueueTypeOK, RequestTypeOK,
       ThreadTypeOK, FaultTypeOK, Queues, QpTypes, PcValues, CountedStates,
       CpuInv
<1>14. ASSUME NEW t \in Threads, NEW c \in CPUs, PollLoad(t, c)
      PROVE  CpuInv'
  BY <1>0, <1>14, SMTT(30) DEF PollLoad, EnterDrain, sswap_rdma_get_queue,
       CpuFree, TypeOK, QueueTypeOK, RequestTypeOK, ThreadTypeOK, FaultTypeOK,
       Queues, QpTypes, PcValues, CountedStates, CpuInv
<1>15. CASE UNCHANGED vars
  BY <1>0, <1>15 DEF CpuInv
<1>16. ASSUME NEW t \in Threads, ReqFailed(t), KernelSame
      PROVE  CpuInv'
  BY <1>0, <1>16, SMTT(30) DEF ReqFailed, LeaveDriver, TypeOK, QueueTypeOK,
       RequestTypeOK, ThreadTypeOK, FaultTypeOK, Queues, QpTypes, PcValues,
       CountedStates, CpuInv
<1> QED
  BY <1>1, <1>2, <1>3, <1>4, <1>5, <1>6, <1>7, <1>8, <1>9, <1>10, <1>11,
       <1>12, <1>13, <1>14, <1>15, <1>16 DEF Next, DriverStep, FaultStep

\* A request is handed from its poster to one reaper.
LEMMA OwnerInvStep == ASSUME IInv, [Next]_vars PROVE OwnerInv'
<1> USE QueueAssumption, ObjectAssumption, CallerAssumption
<1> USE DEF vars, driverVars, queueVars, hcaVars, reqVars, callVars, workVars,
            flagVars, dataVars, faultVars, KernelSame
<1>0. TypeOK /\ OwnerInv
  BY DEF IInv
<1>1. ASSUME NEW t \in Threads, Throttle(t), KernelSame
      PROVE  OwnerInv'
  BY <1>0, <1>1, SMTT(30) DEF Throttle, TypeOK, QueueTypeOK, RequestTypeOK,
       ThreadTypeOK, FaultTypeOK, Queues, QpTypes, PcValues, CountedStates,
       OwnerInv, OwnedDone
<1>2. ASSUME NEW t \in Threads, Admit(t), KernelSame
      PROVE  OwnerInv'
  BY <1>0, <1>2, SMTT(30) DEF Admit, TypeOK, QueueTypeOK, RequestTypeOK,
       ThreadTypeOK, FaultTypeOK, Queues, QpTypes, PcValues, CountedStates,
       OwnerInv, OwnedDone
<1>3. ASSUME NEW t \in Threads, CountReq(t), KernelSame
      PROVE  OwnerInv'
  BY <1>0, <1>3, SMTT(30) DEF CountReq, TypeOK, QueueTypeOK, RequestTypeOK,
       ThreadTypeOK, FaultTypeOK, Queues, QpTypes, PcValues, CountedStates,
       OwnerInv, OwnedDone
<1>4. ASSUME NEW t \in Threads, PostSend(t), KernelSame
      PROVE  OwnerInv'
  BY <1>0, <1>4, SMTT(30) DEF PostSend, AfterPost, EnterDrain, LeaveDriver,
       TypeOK, QueueTypeOK, RequestTypeOK, ThreadTypeOK, FaultTypeOK, Queues,
       QpTypes, PcValues, CountedStates, OwnerInv, OwnedDone
<1>5. ASSUME NEW t \in Threads, LockCq(t), KernelSame
      PROVE  OwnerInv'
  BY <1>0, <1>5, SMTT(30) DEF LockCq, TypeOK, QueueTypeOK, RequestTypeOK,
       ThreadTypeOK, FaultTypeOK, Queues, QpTypes, PcValues, CountedStates,
       OwnerInv, OwnedDone
<1>6. ASSUME NEW t \in Threads, UnlockCq(t), KernelSame
      PROVE  OwnerInv'
  BY <1>0, <1>6, SMTT(30) DEF UnlockCq, TypeOK, QueueTypeOK, RequestTypeOK,
       ThreadTypeOK, FaultTypeOK, Queues, QpTypes, PcValues, CountedStates,
       OwnerInv, OwnedDone
<1>7. ASSUME NEW t \in Threads, PollTargetDone(t), KernelSame
      PROVE  OwnerInv'
  BY <1>0, <1>7, SMTT(30) DEF PollTargetDone, TypeOK, QueueTypeOK,
       RequestTypeOK, ThreadTypeOK, FaultTypeOK, Queues, QpTypes, PcValues,
       CountedStates, OwnerInv, OwnedDone
<1>8. ASSUME NEW t \in Threads, DrainDone(t), KernelSame
      PROVE  OwnerInv'
  BY <1>0, <1>8, SMTT(30) DEF DrainDone, LeaveDriver, TypeOK, QueueTypeOK,
       RequestTypeOK, ThreadTypeOK, FaultTypeOK, Queues, QpTypes, PcValues,
       CountedStates, OwnerInv, OwnedDone
<1>9. ASSUME NEW t \in Threads, ThreadCountDown(t), KernelSame
      PROVE  OwnerInv'
  BY <1>0, <1>9, SMTT(30) DEF ThreadCountDown, CountDown, ReadyToCount,
       IsRead, TypeOK, QueueTypeOK, RequestTypeOK, ThreadTypeOK, FaultTypeOK,
       Queues, QpTypes, PcValues, CountedStates, OwnerInv, OwnedDone
<1>10. ASSUME NEW t \in Threads, PostRefused(t), KernelSame
      PROVE  OwnerInv'
  BY <1>0, <1>10, SMTT(30) DEF PostRefused, LeaveDriver, TypeOK, QueueTypeOK,
       RequestTypeOK, ThreadTypeOK, FaultTypeOK, Queues, QpTypes, PcValues,
       CountedStates, OwnerInv, OwnedDone
<1>11. ASSUME NEW t \in Threads, NEW r \in Reqs, Reap(t, r), KernelSame
      PROVE  OwnerInv'
  BY <1>0, <1>11, SMTT(30) DEF Reap, TypeOK, QueueTypeOK, RequestTypeOK,
       ThreadTypeOK, FaultTypeOK, Queues, QpTypes, PcValues, CountedStates,
       OwnerInv, OwnedDone
<1>12. ASSUME NEW c \in CPUs, NEW r \in Reqs, SoftirqReap(c, r), KernelSame
      PROVE  OwnerInv'
  BY <1>0, <1>12, SMTT(30) DEF SoftirqReap, TypeOK, QueueTypeOK,
       RequestTypeOK, ThreadTypeOK, FaultTypeOK, Queues, QpTypes, PcValues,
       CountedStates, OwnerInv, OwnedDone
<1>13. ASSUME NEW c \in CPUs, SoftirqCountDown(c), KernelSame
      PROVE  OwnerInv'
  BY <1>0, <1>13, SMTT(30) DEF SoftirqCountDown, CountDown, TypeOK,
       QueueTypeOK, RequestTypeOK, ThreadTypeOK, FaultTypeOK, Queues, QpTypes,
       PcValues, CountedStates, OwnerInv, OwnedDone
<1>14. ASSUME NEW r \in Reqs, ReadDonePage(r), KernelSame
      PROVE  OwnerInv'
  BY <1>0, <1>14, SMTT(30) DEF ReadDonePage, IsRead, TypeOK, QueueTypeOK,
       RequestTypeOK, ThreadTypeOK, FaultTypeOK, Queues, QpTypes, PcValues,
       CountedStates, OwnerInv, OwnedDone
<1>15. ASSUME NEW r \in Reqs, HcaExecute(r), KernelSame
      PROVE  OwnerInv'
  BY <1>0, <1>15, SMTT(30) DEF HcaExecute, TypeOK, QueueTypeOK, RequestTypeOK,
       ThreadTypeOK, FaultTypeOK, Queues, QpTypes, PcValues, CountedStates,
       OwnerInv, OwnedDone
<1>16. ASSUME NEW r \in Reqs, HcaFail(r), KernelSame
      PROVE  OwnerInv'
  BY <1>0, <1>16, SMTT(30) DEF HcaFail, TypeOK, QueueTypeOK, RequestTypeOK,
       ThreadTypeOK, FaultTypeOK, Queues, QpTypes, PcValues, CountedStates,
       OwnerInv, OwnedDone
<1>17. ASSUME ApplicationStep
      PROVE  OwnerInv'
  BY <1>0, <1>17, SMTT(30) DEF ApplicationStep, Touch, TypeOK, QueueTypeOK,
       RequestTypeOK, ThreadTypeOK, FaultTypeOK, Queues, QpTypes, PcValues,
       CountedStates, OwnerInv, OwnedDone
<1>18. ASSUME ReclaimStep
      PROVE  OwnerInv'
  BY <1>0, <1>18, SMTT(30) DEF ReclaimStep, SwapOut, StoreReturned,
       ReclaimCached, EnterPost, sswap_rdma_get_queue, CpuFree, TypeOK,
       QueueTypeOK, RequestTypeOK, ThreadTypeOK, FaultTypeOK, Queues, QpTypes,
       PcValues, CountedStates, OwnerInv, OwnedDone
<1>19. ASSUME FaultStep
      PROVE  OwnerInv'
  BY <1>0, <1>19, SMTT(30) DEF FaultStep, SwapIn, ReadAhead, AllocSleep,
       MapFault, ReadFault, PollLoad, EnterPost, EnterDrain, NewFrame,
       sswap_rdma_get_queue, CpuFree, TypeOK, QueueTypeOK, RequestTypeOK,
       ThreadTypeOK, FaultTypeOK, Queues, QpTypes, PcValues, CountedStates,
       OwnerInv, OwnedDone
<1>20. CASE UNCHANGED vars
  BY <1>0, <1>20 DEF OwnerInv, OwnedDone
<1>21. ASSUME NEW t \in Threads, ReqFailed(t), KernelSame
      PROVE  OwnerInv'
  <2>1. /\ UNCHANGED <<rstate, rq, irq, dreq>>
        /\ pc'[t] \notin {"post", "handler"}
        /\ \A u \in Threads \ {t} : pc'[u] = pc[u] /\ dq'[u] = dq[u]
    BY <1>0, <1>21 DEF ReqFailed, LeaveDriver, reqVars, workVars, TypeOK, ThreadTypeOK
  <2> QED
    BY <1>0, <2>1 DEF OwnerInv, OwnedDone
<1> QED
  BY <1>1, <1>2, <1>3, <1>4, <1>5, <1>6, <1>7, <1>8, <1>9, <1>10, <1>11,
       <1>12, <1>13, <1>14, <1>15, <1>16, <1>17, <1>18, <1>19, <1>20, <1>21 DEF Next,
       DriverStep, ThreadStep

\* Only the thread that occupies the CPU can raise the counter it tested.
LEMMA AdmitInvStep == ASSUME IInv, [Next]_vars PROVE AdmitInv'
<1> USE QueueAssumption, ObjectAssumption, CallerAssumption
<1> USE DEF vars, driverVars, queueVars, hcaVars, reqVars, callVars, workVars,
            flagVars, dataVars, faultVars, KernelSame
<1>0. TypeOK /\ CallInv /\ CpuInv /\ AdmitInv
  BY DEF IInv
<1>1. ASSUME NEW t \in Threads, Throttle(t), KernelSame
      PROVE  AdmitInv'
  BY <1>0, <1>1, SMTT(30) DEF Throttle, TypeOK, QueueTypeOK, RequestTypeOK,
       ThreadTypeOK, FaultTypeOK, Queues, QpTypes, PcValues, CountedStates,
       AdmitInv, CallInv, CpuInv, PostPcs, PollPcs, Threshold
<1>2. ASSUME NEW t \in Threads, Admit(t), KernelSame
      PROVE  AdmitInv'
  BY <1>0, <1>2, SMTT(30) DEF Admit, TypeOK, QueueTypeOK, RequestTypeOK,
       ThreadTypeOK, FaultTypeOK, Queues, QpTypes, PcValues, CountedStates,
       AdmitInv, CallInv, CpuInv, PostPcs, PollPcs, Threshold
<1>3. ASSUME NEW t \in Threads, CountReq(t), KernelSame
      PROVE  AdmitInv'
  BY <1>0, <1>3, SMTT(30) DEF CountReq, TypeOK, QueueTypeOK, RequestTypeOK,
       ThreadTypeOK, FaultTypeOK, Queues, QpTypes, PcValues, CountedStates,
       AdmitInv, CallInv, CpuInv, PostPcs, PollPcs, Threshold
<1>4. ASSUME NEW t \in Threads, PostSend(t), KernelSame
      PROVE  AdmitInv'
  BY <1>0, <1>4, SMTT(30) DEF PostSend, AfterPost, EnterDrain, LeaveDriver,
       TypeOK, QueueTypeOK, RequestTypeOK, ThreadTypeOK, FaultTypeOK, Queues,
       QpTypes, PcValues, CountedStates, AdmitInv, CallInv, CpuInv, PostPcs,
       PollPcs, Threshold
<1>5. ASSUME NEW t \in Threads, LockCq(t), KernelSame
      PROVE  AdmitInv'
  BY <1>0, <1>5, SMTT(30) DEF LockCq, TypeOK, QueueTypeOK, RequestTypeOK,
       ThreadTypeOK, FaultTypeOK, Queues, QpTypes, PcValues, CountedStates,
       AdmitInv, CallInv, CpuInv, PostPcs, PollPcs, Threshold
<1>6. ASSUME NEW t \in Threads, UnlockCq(t), KernelSame
      PROVE  AdmitInv'
  BY <1>0, <1>6, SMTT(30) DEF UnlockCq, TypeOK, QueueTypeOK, RequestTypeOK,
       ThreadTypeOK, FaultTypeOK, Queues, QpTypes, PcValues, CountedStates,
       AdmitInv, CallInv, CpuInv, PostPcs, PollPcs, Threshold
<1>7. ASSUME NEW t \in Threads, PollTargetDone(t), KernelSame
      PROVE  AdmitInv'
  BY <1>0, <1>7, SMTT(30) DEF PollTargetDone, TypeOK, QueueTypeOK,
       RequestTypeOK, ThreadTypeOK, FaultTypeOK, Queues, QpTypes, PcValues,
       CountedStates, AdmitInv, CallInv, CpuInv, PostPcs, PollPcs, Threshold
<1>8. ASSUME NEW t \in Threads, DrainDone(t), KernelSame
      PROVE  AdmitInv'
  BY <1>0, <1>8, SMTT(30) DEF DrainDone, LeaveDriver, TypeOK, QueueTypeOK,
       RequestTypeOK, ThreadTypeOK, FaultTypeOK, Queues, QpTypes, PcValues,
       CountedStates, AdmitInv, CallInv, CpuInv, PostPcs, PollPcs, Threshold
<1>9. ASSUME NEW t \in Threads, ThreadCountDown(t), KernelSame
      PROVE  AdmitInv'
  BY <1>0, <1>9, SMTT(30) DEF ThreadCountDown, CountDown, ReadyToCount,
       IsRead, TypeOK, QueueTypeOK, RequestTypeOK, ThreadTypeOK, FaultTypeOK,
       Queues, QpTypes, PcValues, CountedStates, AdmitInv, CallInv, CpuInv,
       PostPcs, PollPcs, Threshold
<1>10. ASSUME NEW t \in Threads, PostRefused(t), KernelSame
      PROVE  AdmitInv'
  BY <1>0, <1>10, SMTT(30) DEF PostRefused, LeaveDriver, TypeOK, QueueTypeOK,
       RequestTypeOK, ThreadTypeOK, FaultTypeOK, Queues, QpTypes, PcValues,
       CountedStates, AdmitInv, CallInv, CpuInv, PostPcs, PollPcs, Threshold
<1>11. ASSUME NEW t \in Threads, NEW r \in Reqs, Reap(t, r), KernelSame
      PROVE  AdmitInv'
  BY <1>0, <1>11, SMTT(30) DEF Reap, TypeOK, QueueTypeOK, RequestTypeOK,
       ThreadTypeOK, FaultTypeOK, Queues, QpTypes, PcValues, CountedStates,
       AdmitInv, CallInv, CpuInv, PostPcs, PollPcs, Threshold
<1>12. ASSUME NEW c \in CPUs, NEW r \in Reqs, SoftirqReap(c, r), KernelSame
      PROVE  AdmitInv'
  BY <1>0, <1>12, SMTT(30) DEF SoftirqReap, TypeOK, QueueTypeOK,
       RequestTypeOK, ThreadTypeOK, FaultTypeOK, Queues, QpTypes, PcValues,
       CountedStates, AdmitInv, CallInv, CpuInv, PostPcs, PollPcs, Threshold
<1>13. ASSUME NEW c \in CPUs, SoftirqCountDown(c), KernelSame
      PROVE  AdmitInv'
  BY <1>0, <1>13, SMTT(30) DEF SoftirqCountDown, CountDown, TypeOK,
       QueueTypeOK, RequestTypeOK, ThreadTypeOK, FaultTypeOK, Queues, QpTypes,
       PcValues, CountedStates, AdmitInv, CallInv, CpuInv, PostPcs, PollPcs,
       Threshold
<1>14. ASSUME NEW r \in Reqs, ReadDonePage(r) \/ HcaExecute(r) \/ HcaFail(r), KernelSame
      PROVE  AdmitInv'
  BY <1>0, <1>14, SMTT(30) DEF ReadDonePage, HcaExecute, HcaFail, TypeOK,
       QueueTypeOK, RequestTypeOK, ThreadTypeOK, FaultTypeOK, Queues, QpTypes,
       PcValues, CountedStates, AdmitInv, CallInv, CpuInv, PostPcs, PollPcs,
       Threshold
<1>15. ASSUME ApplicationStep
      PROVE  AdmitInv'
  BY <1>0, <1>15, SMTT(30) DEF ApplicationStep, Touch, TypeOK, QueueTypeOK,
       RequestTypeOK, ThreadTypeOK, FaultTypeOK, Queues, QpTypes, PcValues,
       CountedStates, AdmitInv, CallInv, CpuInv, PostPcs, PollPcs, Threshold
<1>16. ASSUME ReclaimStep
      PROVE  AdmitInv'
  BY <1>0, <1>16, SMTT(30) DEF ReclaimStep, SwapOut, StoreReturned,
       ReclaimCached, EnterPost, sswap_rdma_get_queue, CpuFree, TypeOK,
       QueueTypeOK, RequestTypeOK, ThreadTypeOK, FaultTypeOK, Queues, QpTypes,
       PcValues, CountedStates, AdmitInv, CallInv, CpuInv, PostPcs, PollPcs,
       Threshold
<1>17. ASSUME FaultStep
      PROVE  AdmitInv'
  BY <1>0, <1>17, SMTT(30) DEF FaultStep, SwapIn, ReadAhead, AllocSleep,
       MapFault, ReadFault, PollLoad, EnterPost, EnterDrain, NewFrame,
       sswap_rdma_get_queue, CpuFree, TypeOK, QueueTypeOK, RequestTypeOK,
       ThreadTypeOK, FaultTypeOK, Queues, QpTypes, PcValues, CountedStates,
       AdmitInv, CallInv, CpuInv, PostPcs, PollPcs, Threshold
<1>18. CASE UNCHANGED vars
  BY <1>0, <1>18 DEF AdmitInv, CallInv, CpuInv, PostPcs, PollPcs, Threshold
<1>19. ASSUME NEW t \in Threads, ReqFailed(t), KernelSame
      PROVE  AdmitInv'
  BY <1>0, <1>19, SMTT(30) DEF ReqFailed, LeaveDriver, TypeOK, QueueTypeOK,
       RequestTypeOK, ThreadTypeOK, FaultTypeOK, Queues, QpTypes, PcValues,
       CountedStates, AdmitInv, CallInv, CpuInv, PostPcs, PollPcs, Threshold
<1> QED
  BY <1>1, <1>2, <1>3, <1>4, <1>5, <1>6, <1>7, <1>8, <1>9, <1>10, <1>11,
       <1>12, <1>13, <1>14, <1>15, <1>16, <1>17, <1>18, <1>19 DEF Next, DriverStep,
       ThreadStep

\* The counter is raised only from below the threshold.
LEMMA PendingBoundedStep == ASSUME IInv, [Next]_vars PROVE PendingBounded'
<1> USE QueueAssumption, ObjectAssumption, CallerAssumption
<1> USE DEF vars, driverVars, queueVars, hcaVars, reqVars, callVars, workVars,
            flagVars, dataVars, faultVars, KernelSame
<1>0. TypeOK /\ AdmitInv /\ PendingBounded
  BY DEF IInv
<1>1. ASSUME NEW t \in Threads, ThreadStep(t), KernelSame
      PROVE  PendingBounded'
  BY <1>0, <1>1, SMTT(30) DEF ThreadStep, Throttle, Admit, CountReq, PostSend,
       LockCq, UnlockCq, PollTargetDone, DrainDone, ThreadCountDown,
       AfterPost, EnterDrain, LeaveDriver, CountDown, TypeOK, QueueTypeOK,
       RequestTypeOK, ThreadTypeOK, FaultTypeOK, Queues, QpTypes, PcValues,
       CountedStates, PendingBounded, AdmitInv, Threshold
<1>2. ASSUME NEW t \in Threads, PostRefused(t), KernelSame
      PROVE  PendingBounded'
  BY <1>0, <1>2, SMTT(30) DEF PostRefused, LeaveDriver, TypeOK, QueueTypeOK,
       RequestTypeOK, ThreadTypeOK, FaultTypeOK, Queues, QpTypes, PcValues,
       CountedStates, PendingBounded, AdmitInv, Threshold
<1>3. ASSUME NEW t \in Threads, NEW r \in Reqs, Reap(t, r), KernelSame
      PROVE  PendingBounded'
  BY <1>0, <1>3, SMTT(30) DEF Reap, TypeOK, QueueTypeOK, RequestTypeOK,
       ThreadTypeOK, FaultTypeOK, Queues, QpTypes, PcValues, CountedStates,
       PendingBounded, AdmitInv, Threshold
<1>4. ASSUME NEW c \in CPUs, NEW r \in Reqs, SoftirqReap(c, r), KernelSame
      PROVE  PendingBounded'
  BY <1>0, <1>4, SMTT(30) DEF SoftirqReap, TypeOK, QueueTypeOK, RequestTypeOK,
       ThreadTypeOK, FaultTypeOK, Queues, QpTypes, PcValues, CountedStates,
       PendingBounded, AdmitInv, Threshold
<1>5. ASSUME NEW c \in CPUs, SoftirqCountDown(c), KernelSame
      PROVE  PendingBounded'
  BY <1>0, <1>5, SMTT(30) DEF SoftirqCountDown, CountDown, TypeOK,
       QueueTypeOK, RequestTypeOK, ThreadTypeOK, FaultTypeOK, Queues, QpTypes,
       PcValues, CountedStates, PendingBounded, AdmitInv, Threshold
<1>6. ASSUME NEW r \in Reqs, ReadDonePage(r) \/ HcaExecute(r) \/ HcaFail(r), KernelSame
      PROVE  PendingBounded'
  BY <1>0, <1>6, SMTT(30) DEF ReadDonePage, HcaExecute, HcaFail, TypeOK,
       QueueTypeOK, RequestTypeOK, ThreadTypeOK, FaultTypeOK, Queues, QpTypes,
       PcValues, CountedStates, PendingBounded, AdmitInv, Threshold
<1>7. ASSUME ApplicationStep
      PROVE  PendingBounded'
  BY <1>0, <1>7, SMTT(30) DEF ApplicationStep, Touch, TypeOK, QueueTypeOK,
       RequestTypeOK, ThreadTypeOK, FaultTypeOK, Queues, QpTypes, PcValues,
       CountedStates, PendingBounded, AdmitInv, Threshold
<1>8. ASSUME ReclaimStep
      PROVE  PendingBounded'
  BY <1>0, <1>8, SMTT(30) DEF ReclaimStep, SwapOut, StoreReturned,
       ReclaimCached, EnterPost, sswap_rdma_get_queue, CpuFree, TypeOK,
       QueueTypeOK, RequestTypeOK, ThreadTypeOK, FaultTypeOK, Queues, QpTypes,
       PcValues, CountedStates, PendingBounded, AdmitInv, Threshold
<1>9. ASSUME FaultStep
      PROVE  PendingBounded'
  BY <1>0, <1>9, SMTT(30) DEF FaultStep, SwapIn, ReadAhead, AllocSleep,
       MapFault, ReadFault, PollLoad, EnterPost, EnterDrain, NewFrame,
       sswap_rdma_get_queue, CpuFree, TypeOK, QueueTypeOK, RequestTypeOK,
       ThreadTypeOK, FaultTypeOK, Queues, QpTypes, PcValues, CountedStates,
       PendingBounded, AdmitInv, Threshold
<1>10. CASE UNCHANGED vars
  BY <1>0, <1>10 DEF PendingBounded, AdmitInv, Threshold
<1>11. ASSUME NEW t \in Threads, ReqFailed(t), KernelSame
      PROVE  PendingBounded'
  BY <1>0, <1>11, SMTT(30) DEF ReqFailed, LeaveDriver, TypeOK, QueueTypeOK,
       RequestTypeOK, ThreadTypeOK, FaultTypeOK, Queues, QpTypes, PcValues,
       CountedStates, PendingBounded, AdmitInv, Threshold
<1> QED
  BY <1>1, <1>2, <1>3, <1>4, <1>5, <1>6, <1>7, <1>8, <1>9, <1>10, <1>11 DEF Next,
       DriverStep

\* The counter moves with the set of live requests.
LEMMA ChargeInvStep == ASSUME IInv, [Next]_vars PROVE ChargeInv'
<1> USE ObjectAssumption
<1> USE DEF vars, driverVars, queueVars, hcaVars, reqVars, callVars, workVars,
            flagVars, dataVars, faultVars
<1>0. TypeOK /\ ReqInv /\ OwnerInv /\ ChargeInv
  BY DEF IInv
<1>1. ASSUME NEW t \in Threads, CountReq(t) PROVE ChargeInv'
  BY <1>0, <1>1, ChargeAdd
<1>2. ASSUME NEW t \in Threads, ThreadCountDown(t) PROVE ChargeInv'
  BY <1>0, <1>2, ChargeRemove DEF ThreadCountDown, OwnerInv
<1>3. ASSUME NEW c \in CPUs, SoftirqCountDown(c) PROVE ChargeInv'
  BY <1>0, <1>3, ChargeRemove DEF SoftirqCountDown, OwnerInv
<1>4. ASSUME UNCHANGED <<pending, reqVars>> PROVE ChargeInv'
  BY <1>0, <1>4, ChargeSame
<1>5. ASSUME NEW t \in Threads, PostSend(t) \/ PostRefused(t) PROVE ChargeInv'
  BY <1>0, <1>5, ChargeMove DEF PostSend, PostRefused, OwnerInv, ChargedStates
<1>6. ASSUME NEW t \in Threads, NEW r \in Reqs, Reap(t, r) PROVE ChargeInv'
  BY <1>0, <1>6, ChargeMove DEF Reap, ChargedStates
<1>7. ASSUME NEW t \in Threads,
             \/ Throttle(t) \/ Admit(t) \/ LockCq(t) \/ UnlockCq(t)
             \/ PollTargetDone(t) \/ DrainDone(t)
      PROVE  ChargeInv'
  BY <1>4, <1>7 DEF Throttle, Admit, LockCq, UnlockCq, PollTargetDone, DrainDone
<1>8. ASSUME ApplicationStep \/ ReclaimStep \/ FaultStep PROVE ChargeInv'
  BY <1>4, <1>8 DEF ApplicationStep, ReclaimStep, FaultStep, Touch, SwapOut,
     StoreReturned, ReclaimCached, SwapIn, ReadAhead, AllocSleep, MapFault,
     ReadFault, PollLoad
<1>9. ASSUME NEW c \in CPUs, NEW r \in Reqs, SoftirqReap(c, r) PROVE ChargeInv'
  BY <1>0, <1>9, ChargeMove DEF SoftirqReap, ChargedStates
<1>10. ASSUME NEW r \in Reqs, ReadDonePage(r) \/ HcaExecute(r) \/ HcaFail(r)
       PROVE  ChargeInv'
  BY <1>0, <1>10, ChargeMove DEF ReadDonePage, HcaExecute, HcaFail, ChargedStates
<1>11. CASE UNCHANGED vars
  BY <1>4, <1>11
<1>12. ASSUME NEW t \in Threads, ReqFailed(t) PROVE ChargeInv'
  BY <1>4, <1>12 DEF ReqFailed
<1> QED
  BY <1>1, <1>2, <1>3, <1>5, <1>6, <1>7, <1>8, <1>9, <1>10, <1>11, <1>12
  DEF Next, DriverStep, ThreadStep

\* The inductive invariant holds before anything is posted.
LEMMA InitIInv == Init => IInv
<1> SUFFICES ASSUME Init PROVE IInv
  OBVIOUS
<1> USE QueueAssumption, ObjectAssumption, CallerAssumption DEF Init, DriverInit
<1>1. QueueTypeOK
  BY DEF QueueTypeOK
<1>2. RequestTypeOK
  BY DEF RequestTypeOK
<1>3. ThreadTypeOK
  BY DEF ThreadTypeOK, PcValues
<1>4. PageTypeOK
  BY DEF PageTypeOK
<1>5. FaultTypeOK
  BY DEF FaultTypeOK
<1>6. ReqInv /\ CallInv /\ FaultInv /\ CpuInv /\ OwnerInv /\ AdmitInv
  BY DEF ReqInv, CallInv, FaultInv, CpuInv, OwnerInv, AdmitInv, PostPcs, PollPcs
<1>7. PendingBounded
  BY DEF PendingBounded
<1>8. ChargeInv
  <2>1. \A q \in Queues : Charge(q) = {}
    BY DEF Charge, ChargedStates
  <2> QED
    BY <2>1, FS_EmptySet DEF ChargeInv
<1> QED
  BY <1>1, <1>2, <1>3, <1>4, <1>5, <1>6, <1>7, <1>8 DEF IInv, TypeOK

\* Every step keeps the inductive invariant.
LEMMA NextIInv == IInv /\ [Next]_vars => IInv'
  BY TypeStep, ReqInvStep, CallInvStep, FaultInvStep, CpuInvStep, OwnerInvStep,
     ChargeInvStep, AdmitInvStep, PendingBoundedStep DEF IInv

\* The conjunction that the actions preserve is an invariant of SwapPath.
THEOREM Invariance == Spec => []IInv
  BY InitIInv, NextIInv, PTL DEF Spec

\* For any number of CPUs, threads, pages, requests and adapter faults, every
\* variable keeps its type, and q->pending never goes negative.
THEOREM TypeCorrect == Spec => []TypeOK
<1>1. IInv => TypeOK
  BY DEF IInv
<1> QED
  BY <1>1, Invariance, PTL

\* Whatever completions, posts and requests fail, q->pending is the number of
\* requests counted on q and not yet handed back by a completion handler, plus
\* the number of posts ever refused on q.
THEOREM AccountingCorrect == Spec => []PendingAccounts
<1>1. IInv => PendingAccounts
  BY ChargeSplit DEF IInv
<1> QED
  BY <1>1, Invariance, PTL

\* The BUG_ONs of write_queue_add and begin_read cannot fire, whatever the
\* queue size, the thresholds and the number of threads.
THEOREM BackPressureCorrect == Spec => []PendingBounded
<1>1. IInv => PendingBounded
  BY DEF IInv
<1> QED
  BY <1>1, Invariance, PTL

\* A thread about to call ib_post_send owns a counted request that is not on
\* the ring, so the ring holds fewer requests than the counter says.
LEMMA RoomOnRing == IInv => PostHasRoom
<1> SUFFICES ASSUME IInv, NEW t \in Threads, pc[t] = "post"
             PROVE  Cardinality(InRing(dq[t])) < MaxSendWr
  BY DEF PostHasRoom
<1> DEFINE q == dq[t]
           r == dreq[t]
<1>1. q \in Queues /\ r \in Reqs /\ rstate[r] = "counted" /\ rq[r] = q
  BY DEF IInv, CallInv, OwnerInv, PostPcs
<1>2. /\ IsFiniteSet(Charge(q)) /\ Cardinality(Charge(q)) \in Nat
      /\ Cardinality(Charge(q)) <= MaxSendWr
  BY <1>1, ChargeFinite DEF IInv, ChargeInv, PendingBounded
<1>3. r \in Charge(q) /\ InRing(q) \subseteq Charge(q) \ {r}
  BY <1>1 DEF Charge, InRing, ChargedStates, RingStates
<1>4. /\ IsFiniteSet(Charge(q) \ {r})
      /\ Cardinality(Charge(q) \ {r}) = Cardinality(Charge(q)) - 1
  BY <1>2, <1>3, FS_RemoveElement
<1>5. /\ Cardinality(InRing(q)) <= Cardinality(Charge(q) \ {r})
      /\ Cardinality(InRing(q)) \in Nat
  BY <1>3, <1>4, FS_Subset, FS_CardinalityType
<1> QED
  BY <1>2, <1>4, <1>5, QueueAssumption

\* ib_post_send never meets a full send queue, for any number of CPUs and
\* threads and any queue size.
THEOREM RingCorrect == Spec => []PostHasRoom
  BY RoomOnRing, Invariance, PTL

\* Only drain_queue's return ends the drain of a thread.
LEMMA DrainEnds ==
  ASSUME TypeOK, [Next]_vars, NEW t \in Threads, loop[t] = "drain", loop'[t] = "none"
  PROVE  DrainDone(t)
<1> USE DEF vars, driverVars, queueVars, hcaVars, reqVars, callVars, workVars,
            flagVars, dataVars, faultVars, KernelSame
<1>0. loop \in [Threads -> {"none", "poll", "drain"}]
  BY DEF TypeOK, ThreadTypeOK
<1>1. loop' # loop
  OBVIOUS
<1>2. ASSUME NEW u \in Threads, Throttle(u) \/ PollTargetDone(u) PROVE FALSE
  BY <1>0, <1>2 DEF Throttle, PollTargetDone
<1>3. ASSUME NEW u \in Threads, PostSend(u) PROVE FALSE
  BY <1>0, <1>3 DEF PostSend, AfterPost, EnterDrain
<1>4. ASSUME NEW u \in Threads, DrainDone(u) PROVE u = t
  BY <1>0, <1>4 DEF DrainDone
<1>5. ASSUME NEW u \in Threads,
             \/ Admit(u) \/ CountReq(u) \/ LockCq(u) \/ UnlockCq(u)
             \/ ThreadCountDown(u) \/ ReqFailed(u) \/ PostRefused(u)
      PROVE  FALSE
  BY <1>1, <1>5 DEF Admit, CountReq, LockCq, UnlockCq, ThreadCountDown,
     ReqFailed, PostRefused
<1>6. ASSUME NEW u \in Threads, NEW r \in Reqs, Reap(u, r) PROVE FALSE
  BY <1>1, <1>6 DEF Reap
<1>7. ASSUME NEW c \in CPUs,
             (\E r \in Reqs : SoftirqReap(c, r)) \/ SoftirqCountDown(c)
      PROVE  FALSE
  BY <1>1, <1>7 DEF SoftirqReap, SoftirqCountDown
<1>8. ASSUME NEW r \in Reqs, ReadDonePage(r) \/ HcaExecute(r) \/ HcaFail(r) PROVE FALSE
  BY <1>1, <1>8 DEF ReadDonePage, HcaExecute, HcaFail
<1>9. ASSUME ApplicationStep \/ ReclaimStep PROVE FALSE
  BY <1>1, <1>9 DEF ApplicationStep, ReclaimStep, Touch, SwapOut,
     StoreReturned, ReclaimCached
<1>10. ASSUME NEW u \in Threads, NEW c \in CPUs, PollLoad(u, c) PROVE FALSE
  BY <1>0, <1>10 DEF PollLoad, EnterDrain
<1>11. ASSUME NEW u \in Threads,
              \/ \E p \in Pages, c \in CPUs : SwapIn(u, p, c) \/ ReadAhead(u, p, c)
              \/ AllocSleep(u) \/ MapFault(u)
              \/ \E c \in CPUs : ReadFault(u, c)
       PROVE  FALSE
  BY <1>1, <1>11 DEF SwapIn, ReadAhead, AllocSleep, MapFault, ReadFault
<1>12. DriverStep \/ ApplicationStep \/ ReclaimStep \/ FaultStep
  BY <1>1 DEF Next
<1>13. CASE DriverStep
  BY <1>2, <1>3, <1>4, <1>5, <1>6, <1>7, <1>8, <1>13 DEF DriverStep, ThreadStep
<1>14. CASE FaultStep
  BY <1>10, <1>11, <1>14 DEF FaultStep
<1> QED
  BY <1>9, <1>12, <1>13, <1>14

\* Whatever fails, a drain that returns leaves nothing outstanding on its
\* queue, and never returns from a queue on which a post was refused.
THEOREM DrainedCorrect == Spec => DrainedIsIdle
<1> DEFINE Idle == \A t \in Threads :
                     loop[t] = "drain" /\ loop'[t] = "none"
                       => Live(dq[t]) = {} /\ Refused(dq[t]) = {}
<1>1. ASSUME IInv, [Next]_vars PROVE Idle
  <2> SUFFICES ASSUME NEW t \in Threads, loop[t] = "drain", loop'[t] = "none"
               PROVE  Live(dq[t]) = {} /\ Refused(dq[t]) = {}
    OBVIOUS
  <2>1. DrainDone(t)
    BY <1>1, DrainEnds DEF IInv
  <2>2. dq[t] \in Queues /\ ~(pending[dq[t]] > 0)
    BY <1>1, <2>1 DEF DrainDone, KeepPolling, IInv, CallInv, PollPcs
  <2>3. pending[dq[t]] = Cardinality(Charge(dq[t]))
    BY <1>1, <2>2 DEF IInv, ChargeInv
  <2>4. Charge(dq[t]) = {}
    BY <2>2, <2>3, ChargeFinite, FS_EmptySet
  <2> QED
    BY <2>4 DEF Charge, Live, Refused, ChargedStates, CountedStates
<1>2. IInv /\ [Next]_vars => [Idle]_vars
  BY <1>1
<1> QED
  BY <1>2, Invariance, PTL DEF Spec, DrainedIsIdle
=============================================================================
