---------------------------- MODULE FastswapRdma ----------------------------
(***************************************************************************)
(* The data path of the RDMA backend driver, code/drivers/fastswap_rdma.c: *)
(* write_queue_add, begin_read, sswap_rdma_post_rdma, poll_target,         *)
(* drain_queue and the two completion handlers, run by kernel threads      *)
(* against the per-CPU queue pairs, together with the host channel adapter *)
(* (external) that executes the posted work requests.                      *)
(*                                                                         *)
(* A thread inside the driver owns its CPU: the repository's kernel config *)
(* is CONFIG_PREEMPT_VOLUNTARY and no driver function sleeps, so cpu[t] is *)
(* the CPU thread t spins on, and None whenever t is outside the driver.   *)
(* The module has no Next of its own: SwapPath composes it with the kernel *)
(* code that calls it.                                                     *)
(***************************************************************************)
EXTENDS Integers, FiniteSets

CONSTANTS
  CPUs,         \* the online CPUs (numcpus)
  Threads,      \* kernel threads that fault or reclaim
  Pages,        \* pages of the application; page p swaps to slot p
  Reqs,         \* struct rdma_req objects of req_cache
  Vals,         \* contents a page can have
  None,         \* "no CPU / page / request", and the contents of a new frame
  MaxSendWr,    \* QP_MAX_SEND_WR
  WriteSlack,   \* the 8 of write_queue_add's QP_MAX_SEND_WR - 8
  ReadTarget,   \* poll_target's target under read back pressure (8)
  WriteTarget,  \* poll_target's target under write back pressure (2048)
  DrainBudget,  \* budget of one ib_process_cq_direct in drain_queue (16)
  FaultKinds,   \* faults explored: "completion", "post", "alloc"
  MaxFaults     \* bound on the number of such faults

ASSUME QueueAssumption ==
  /\ MaxSendWr \in Nat /\ WriteSlack \in Nat /\ WriteSlack < MaxSendWr
  /\ ReadTarget \in Nat \ {0} /\ WriteTarget \in Nat \ {0}
  /\ DrainBudget \in Nat \ {0}
  /\ FaultKinds \subseteq {"completion", "post", "alloc"} /\ MaxFaults \in Nat

ASSUME ObjectAssumption ==
  /\ IsFiniteSet(Reqs)
  /\ None \notin CPUs \cup Threads \cup Pages \cup Reqs \cup Vals

VARIABLES
  pending,   \* q->pending of every queue
  cqLock,    \* holder of q->cq_lock
  qpErr,     \* queue pairs the adapter moved to the error state
  faults,    \* number of faults so far
  rstate,    \* life cycle of every request object
  rq,        \* queue a live request was posted on
  rpage,     \* req->page
  irq,       \* request the softirq of a CPU's READ_ASYNC queue is handling
  pc,        \* where thread t is
  cpu,       \* CPU that thread t occupies
  dq,        \* queue of the driver call thread t is in
  dpage,     \* page argument of that call
  dreq,      \* request it is about to post, or is handling
  loop,      \* polling loop it is in: "poll" (poll_target) or "drain"
  cnt,       \* completions processed in that loop
  locked,    \* PageLocked
  uptodate,  \* PageUptodate
  val,       \* contents of the local frame
  remote     \* contents of the page's slot on the far memory server

queueVars  == <<pending, cqLock>>
hcaVars    == <<qpErr, faults>>
reqVars    == <<rstate, rq, rpage>>
callVars   == <<pc, cpu, dq, dpage>>
workVars   == <<dreq, loop, cnt>>
flagVars   == <<locked, uptodate>>
dataVars   == <<val, remote>>
driverVars == <<queueVars, hcaVars, reqVars, irq, callVars, workVars,
                flagVars, dataVars>>

QpTypes == {"READ_SYNC", "READ_ASYNC", "WRITE_SYNC"}
Queues  == CPUs \X QpTypes

(* A request is counted in q->pending from the atomic_inc to the           *)
(* atomic_dec; "cqe" means its completion waits in the completion queue,   *)
(* "reaped" that its handler runs, "unlocked" that read_done has released  *)
(* the page but not yet decremented the counter. A request that            *)
(* ib_post_send refused is "leaked": it will never complete, and nothing   *)
(* takes its increment back or frees it.                                   *)
CountedStates == {"counted", "posted", "cqe", "reaped", "unlocked"}
RingStates    == {"posted", "cqe"}

Live(q)    == {r \in Reqs : rstate[r] \in CountedStates /\ rq[r] = q}
Refused(q) == {r \in Reqs : rstate[r] = "leaked" /\ rq[r] = q}
InRing(q)  == {r \in Reqs : rstate[r] \in RingStates /\ rq[r] = q}

\* Mutant: a kernel that preempts inside the driver lets two threads of one
\* CPU interleave there.
CpuFree_Preemptible(c) == TRUE

CpuFree(c) == \A t \in Threads : cpu[t] # c

sswap_rdma_get_queue(c, type) == <<c, type>>

\* Mutant: the back-pressure test uses > where the code uses >=.
Threshold_OffByOne(q) ==
  IF q[2] = "WRITE_SYNC" THEN MaxSendWr - WriteSlack + 1 ELSE MaxSendWr + 1

Threshold(q) == IF q[2] = "WRITE_SYNC" THEN MaxSendWr - WriteSlack ELSE MaxSendWr
Target(q)    == IF q[2] = "WRITE_SYNC" THEN WriteTarget ELSE ReadTarget
Budget(t)    == IF loop[t] = "drain" THEN DrainBudget ELSE Target(dq[t])

DriverInit ==
  /\ pending = [q \in Queues |-> 0]
  /\ cqLock = [q \in Queues |-> None]
  /\ qpErr = [q \in Queues |-> FALSE]
  /\ faults = 0
  /\ rstate = [r \in Reqs |-> "free"]
  /\ rq = [r \in Reqs |-> None]
  /\ rpage = [r \in Reqs |-> None]
  /\ irq = [c \in CPUs |-> None]
  /\ pc = [t \in Threads |-> "idle"]
  /\ cpu = [t \in Threads |-> None]
  /\ dq = [t \in Threads |-> None]
  /\ dpage = [t \in Threads |-> None]
  /\ dreq = [t \in Threads |-> None]
  /\ loop = [t \in Threads |-> "none"]
  /\ cnt = [t \in Threads |-> 0]

-----------------------------------------------------------------------------
(* Entering and leaving the driver (helpers of the actions below).         *)

\* Thread t, running on CPU c, calls write_queue_add or begin_read for page p.
EnterPost(t, c, type, p) ==
  /\ pc' = [pc EXCEPT ![t] = "check"]
  /\ cpu' = [cpu EXCEPT ![t] = c]
  /\ dq' = [dq EXCEPT ![t] = sswap_rdma_get_queue(c, type)]
  /\ dpage' = [dpage EXCEPT ![t] = p]

\* Thread t, running on CPU c, calls drain_queue(q).
EnterDrain(t, c, q) ==
  /\ pc' = [pc EXCEPT ![t] = "spin"]
  /\ cpu' = [cpu EXCEPT ![t] = c]
  /\ dq' = [dq EXCEPT ![t] = q]
  /\ loop' = [loop EXCEPT ![t] = "drain"]

\* Thread t returns to its caller, which goes on at `at`.
LeaveDriver(t, at) ==
  /\ pc' = [pc EXCEPT ![t] = at]
  /\ cpu' = [cpu EXCEPT ![t] = None]
  /\ dq' = [dq EXCEPT ![t] = None]

-----------------------------------------------------------------------------
(* Posting: write_queue_add and begin_read.                                *)

\* The back-pressure test fails: pending has reached the threshold, and
\* poll_target is called.
Throttle(t) ==
  /\ pc[t] = "check"
  /\ pending[dq[t]] >= Threshold(dq[t])
  /\ pc' = [pc EXCEPT ![t] = "spin"]
  /\ loop' = [loop EXCEPT ![t] = "poll"]
  /\ cnt' = [cnt EXCEPT ![t] = 0]
  /\ UNCHANGED <<queueVars, hcaVars, reqVars, irq, cpu, dq, dpage, dreq,
                 flagVars, dataVars>>

\* The back-pressure test passes.
Admit(t) ==
  /\ pc[t] = "check"
  /\ pending[dq[t]] < Threshold(dq[t])
  /\ pc' = [pc EXCEPT ![t] = "inc"]
  /\ UNCHANGED <<queueVars, hcaVars, reqVars, irq, cpu, dq, dpage, workVars,
                 flagVars, dataVars>>

\* Mutant: no atomic_inc before the request becomes visible to the adapter.
CountReq_Uncounted(t) ==
  /\ pc[t] = "inc"
  /\ \E r \in Reqs :
       /\ rstate[r] = "free"
       /\ rstate' = [rstate EXCEPT ![r] = "counted"]
       /\ rq' = [rq EXCEPT ![r] = dq[t]]
       /\ rpage' = [rpage EXCEPT ![r] = dpage[t]]
       /\ dreq' = [dreq EXCEPT ![t] = r]
  /\ pc' = [pc EXCEPT ![t] = "post"]
  /\ UNCHANGED <<queueVars, hcaVars, irq, cpu, dq, dpage, loop, cnt, flagVars,
                 dataVars>>

\* get_req_for_page, then atomic_inc(&q->pending) of sswap_rdma_post_rdma.
CountReq(t) ==
  /\ pc[t] = "inc"
  /\ \E r \in Reqs :
       /\ rstate[r] = "free"
       /\ rstate' = [rstate EXCEPT ![r] = "counted"]
       /\ rq' = [rq EXCEPT ![r] = dq[t]]
       /\ rpage' = [rpage EXCEPT ![r] = dpage[t]]
       /\ dreq' = [dreq EXCEPT ![t] = r]
  /\ pending' = [pending EXCEPT ![dq[t]] = @ + 1]
  /\ pc' = [pc EXCEPT ![t] = "post"]
  /\ UNCHANGED <<cqLock, hcaVars, irq, cpu, dq, dpage, loop, cnt, flagVars,
                 dataVars>>

\* get_req_for_page fails, before anything is counted. It tests and frees req
\* where it means *req: a request that cannot be allocated is a NULL pointer it
\* writes through, and the thread dies holding the page lock; after a mapping
\* error it frees an address of its stack, which kills the thread or goes
\* unnoticed. Then the caller's BUG_ON kills a store or a synchronous load, and
\* an asynchronous load falls back to the swap device.
ReqFailed(t) ==
  /\ pc[t] = "inc"
  /\ "alloc" \in FaultKinds /\ faults < MaxFaults
  /\ faults' = faults + 1
  /\ dpage' = [dpage EXCEPT ![t] = None]
  /\ \/ LeaveDriver(t, "dead") /\ UNCHANGED flagVars
     \/ /\ dq[t][2] = "READ_ASYNC"
        /\ LeaveDriver(t, "readahead")
        /\ locked' = [locked EXCEPT ![dpage[t]] = FALSE]
        /\ uptodate' = [uptodate EXCEPT ![dpage[t]] = TRUE]
  /\ UNCHANGED <<queueVars, qpErr, reqVars, irq, workVars, dataVars>>

\* Mutant: sswap_rdma_write returns without draining its queue.
AfterPost_NoDrain(t) ==
  IF dq[t][2] = "WRITE_SYNC"
  THEN LeaveDriver(t, "stored") /\ UNCHANGED <<dpage, loop>>
  ELSE /\ LeaveDriver(t, "readahead")
       /\ dpage' = [dpage EXCEPT ![t] = None]
       /\ UNCHANGED loop

\* What follows begin_read or write_queue_add: a store drains its queue,
\* a load returns to the kernel with the read in flight.
AfterPost(t) ==
  IF dq[t][2] = "WRITE_SYNC"
  THEN EnterDrain(t, cpu[t], dq[t]) /\ UNCHANGED dpage
  ELSE /\ LeaveDriver(t, "readahead")
       /\ dpage' = [dpage EXCEPT ![t] = None]
       /\ UNCHANGED loop

\* Mutant: the load marks the page up to date and unlocks it at once, as
\* swap_readpage did before the patch.
PostSend_UnlockAtOnce(t) ==
  /\ pc[t] = "post"
  /\ rstate' = [rstate EXCEPT ![dreq[t]] = "posted"]
  /\ dreq' = [dreq EXCEPT ![t] = None]
  /\ AfterPost(t)
  /\ locked' = [locked EXCEPT ![dpage[t]] = dq[t][2] = "WRITE_SYNC"]
  /\ uptodate' = [uptodate EXCEPT ![dpage[t]] = TRUE]
  /\ UNCHANGED <<queueVars, hcaVars, rq, rpage, irq, cnt, dataVars>>

\* ib_post_send puts the request on the send queue.
PostSend(t) ==
  /\ pc[t] = "post"
  /\ rstate' = [rstate EXCEPT ![dreq[t]] = "posted"]
  /\ dreq' = [dreq EXCEPT ![t] = None]
  /\ AfterPost(t)
  /\ UNCHANGED <<queueVars, hcaVars, rq, rpage, irq, cnt, flagVars, dataVars>>

\* ib_post_send refuses the request: the increment of the counter stays. A store or a
\* synchronous load runs into the BUG_ON of its caller; an asynchronous load
\* falls back to the swap device, which has never been given this page.
PostRefused(t) ==
  /\ pc[t] = "post"
  /\ "post" \in FaultKinds /\ faults < MaxFaults
  /\ faults' = faults + 1
  /\ rstate' = [rstate EXCEPT ![dreq[t]] = "leaked"]
  /\ dreq' = [dreq EXCEPT ![t] = None]
  /\ dpage' = [dpage EXCEPT ![t] = None]
  /\ \/ /\ dq[t][2] = "READ_ASYNC"
        /\ LeaveDriver(t, "readahead")
        /\ locked' = [locked EXCEPT ![dpage[t]] = FALSE]
        /\ uptodate' = [uptodate EXCEPT ![dpage[t]] = TRUE]
     \/ /\ dq[t][2] # "READ_ASYNC"
        /\ LeaveDriver(t, "dead")
        /\ UNCHANGED flagVars
  /\ UNCHANGED <<queueVars, qpErr, rq, rpage, irq, loop, cnt, dataVars>>

-----------------------------------------------------------------------------
(* Polling: the loops of poll_target and drain_queue, which process        *)
(* completions under q->cq_lock.                                           *)

\* Mutant: the loops stop one completion early.
KeepPolling_OneLeft(t) ==
  /\ pending[dq[t]] > 1
  /\ loop[t] = "poll" => cnt[t] < Target(dq[t])

KeepPolling(t) ==
  /\ pending[dq[t]] > 0
  /\ loop[t] = "poll" => cnt[t] < Target(dq[t])

\* Another round: take cq_lock and call ib_process_cq_direct.
LockCq(t) ==
  /\ pc[t] = "spin"
  /\ KeepPolling(t)
  /\ cqLock[dq[t]] = None
  /\ cqLock' = [cqLock EXCEPT ![dq[t]] = t]
  /\ pc' = [pc EXCEPT ![t] = "reap"]
  /\ cnt' = [cnt EXCEPT ![t] = IF loop[t] = "drain" THEN 0 ELSE @]
  /\ UNCHANGED <<pending, hcaVars, reqVars, irq, cpu, dq, dpage, dreq, loop,
                 flagVars, dataVars>>

\* ib_process_cq_direct polls one completion and calls its handler.
Reap(t, r) ==
  /\ pc[t] = "reap"
  /\ cnt[t] < Budget(t)
  /\ rstate[r] = "cqe" /\ rq[r] = dq[t]
  /\ rstate' = [rstate EXCEPT ![r] = "reaped"]
  /\ dreq' = [dreq EXCEPT ![t] = r]
  /\ cnt' = [cnt EXCEPT ![t] = @ + 1]
  /\ pc' = [pc EXCEPT ![t] = "handler"]
  /\ UNCHANGED <<queueVars, hcaVars, rq, rpage, irq, cpu, dq, dpage, loop,
                 flagVars, dataVars>>

\* ib_process_cq_direct finds the completion queue empty, or its budget used.
UnlockCq(t) ==
  /\ pc[t] = "reap"
  /\ \/ cnt[t] >= Budget(t)
     \/ \A r \in Reqs : ~(rstate[r] = "cqe" /\ rq[r] = dq[t])
  /\ cqLock' = [cqLock EXCEPT ![dq[t]] = None]
  /\ pc' = [pc EXCEPT ![t] = "spin"]
  /\ UNCHANGED <<pending, hcaVars, reqVars, irq, cpu, dq, dpage, workVars,
                 flagVars, dataVars>>

\* poll_target returns to the back-pressure loop.
PollTargetDone(t) ==
  /\ pc[t] = "spin" /\ loop[t] = "poll"
  /\ ~KeepPolling(t)
  /\ pc' = [pc EXCEPT ![t] = "check"]
  /\ loop' = [loop EXCEPT ![t] = "none"]
  /\ cnt' = [cnt EXCEPT ![t] = 0]
  /\ UNCHANGED <<queueVars, hcaVars, reqVars, irq, cpu, dq, dpage, dreq,
                 flagVars, dataVars>>

\* drain_queue returns: sswap_rdma_write and sswap_rdma_poll_load return too.
DrainDone(t) ==
  /\ pc[t] = "spin" /\ loop[t] = "drain"
  /\ ~KeepPolling(t)
  /\ LeaveDriver(t, IF dq[t][2] = "WRITE_SYNC" THEN "stored" ELSE "lockpage")
  /\ loop' = [loop EXCEPT ![t] = "none"]
  /\ cnt' = [cnt EXCEPT ![t] = 0]
  /\ UNCHANGED <<queueVars, hcaVars, reqVars, irq, dpage, dreq, flagVars,
                 dataVars>>

-----------------------------------------------------------------------------
(* Completion handlers. The status of the completion is only logged, so a  *)
(* failed request is handled exactly like a successful one.                *)

IsRead(r) == rq[r][2] # "WRITE_SYNC"

\* First half of sswap_rdma_read_done: SetPageUptodate and unlock_page.
ReadDonePage(r) ==
  /\ rstate[r] = "reaped" /\ IsRead(r)
  /\ rstate' = [rstate EXCEPT ![r] = "unlocked"]
  /\ uptodate' = [uptodate EXCEPT ![rpage[r]] = TRUE]
  /\ locked' = [locked EXCEPT ![rpage[r]] = FALSE]
  /\ UNCHANGED <<queueVars, hcaVars, rq, rpage, irq, callVars, workVars, dataVars>>

\* Mutant: the counter is decremented before the page is unlocked.
ReadyToCount_BeforeUnlock(r) == rstate[r] \in {"reaped", "unlocked"}

ReadyToCount(r) == rstate[r] = IF IsRead(r) THEN "unlocked" ELSE "reaped"

\* Mutant: the handler frees the request and forgets the counter.
CountDown_NoDecrement(r) ==
  /\ rstate' = [rstate EXCEPT ![r] = "free"]
  /\ rq' = [rq EXCEPT ![r] = None]
  /\ rpage' = [rpage EXCEPT ![r] = None]
  /\ UNCHANGED pending

\* Second half of both handlers: atomic_dec(&q->pending), kmem_cache_free.
CountDown(r) ==
  /\ pending' = [pending EXCEPT ![rq[r]] = @ - 1]
  /\ rstate' = [rstate EXCEPT ![r] = "free"]
  /\ rq' = [rq EXCEPT ![r] = None]
  /\ rpage' = [rpage EXCEPT ![r] = None]

\* ... run by a polling thread,
ThreadCountDown(t) ==
  /\ pc[t] = "handler"
  /\ ReadyToCount(dreq[t])
  /\ CountDown(dreq[t])
  /\ pc' = [pc EXCEPT ![t] = "reap"]
  /\ dreq' = [dreq EXCEPT ![t] = None]
  /\ UNCHANGED <<cqLock, hcaVars, irq, cpu, dq, dpage, loop, cnt, flagVars,
                 dataVars>>

\* Mutant: READ_ASYNC queues get an IB_POLL_DIRECT completion queue.
SoftirqReap_PollDirect(c, r) == FALSE

\* ... or by the softirq of a READ_ASYNC queue, which polls without cq_lock. Each
\* poll of a completion is one step here: that a polling thread and the softirq
\* share the array cq->wc is not modelled.
SoftirqReap(c, r) ==
  /\ irq[c] = None
  /\ rstate[r] = "cqe" /\ rq[r] = <<c, "READ_ASYNC">>
  /\ rstate' = [rstate EXCEPT ![r] = "reaped"]
  /\ irq' = [irq EXCEPT ![c] = r]
  /\ UNCHANGED <<queueVars, hcaVars, rq, rpage, callVars, workVars, flagVars,
                 dataVars>>

SoftirqCountDown(c) ==
  /\ irq[c] # None
  /\ ReadyToCount(irq[c])
  /\ CountDown(irq[c])
  /\ irq' = [irq EXCEPT ![c] = None]
  /\ UNCHANGED <<cqLock, hcaVars, callVars, workVars, flagVars, dataVars>>

-----------------------------------------------------------------------------
(* The adapter (external). Requests of one queue are all reads or all      *)
(* writes of distinct slots, so the order in which the adapter completes   *)
(* them is left open.                                                      *)

Transfer(r) ==
  IF IsRead(r)
  THEN /\ val' = [val EXCEPT ![rpage[r]] = remote[rpage[r]]]
       /\ UNCHANGED remote
  ELSE /\ remote' = [remote EXCEPT ![rpage[r]] = val[rpage[r]]]
       /\ UNCHANGED val

HcaExecute(r) ==
  /\ rstate[r] = "posted" /\ ~qpErr[rq[r]]
  /\ Transfer(r)
  /\ rstate' = [rstate EXCEPT ![r] = "cqe"]
  /\ UNCHANGED <<queueVars, hcaVars, rq, rpage, irq, callVars, workVars, flagVars>>

\* A request fails (retries exhausted, remote access error): its queue pair
\* enters the error state and every later request on it is flushed.
HcaFail(r) ==
  /\ rstate[r] = "posted"
  /\ \/ /\ ~qpErr[rq[r]] /\ "completion" \in FaultKinds /\ faults < MaxFaults
        /\ faults' = faults + 1
        /\ qpErr' = [qpErr EXCEPT ![rq[r]] = TRUE]
     \/ /\ qpErr[rq[r]]
        /\ UNCHANGED hcaVars
  /\ rstate' = [rstate EXCEPT ![r] = "cqe"]
  /\ UNCHANGED <<queueVars, rq, rpage, irq, callVars, workVars, flagVars, dataVars>>

-----------------------------------------------------------------------------
ThreadStep(t) ==
  \/ Throttle(t) \/ Admit(t) \/ CountReq(t) \/ PostSend(t)
  \/ LockCq(t) \/ UnlockCq(t) \/ PollTargetDone(t) \/ DrainDone(t)
  \/ ThreadCountDown(t)

DriverStep ==
  \/ \E t \in Threads : ThreadStep(t) \/ ReqFailed(t) \/ PostRefused(t)
  \/ \E t \in Threads, r \in Reqs : Reap(t, r)
  \/ \E c \in CPUs, r \in Reqs : SoftirqReap(c, r)
  \/ \E c \in CPUs : SoftirqCountDown(c)
  \/ \E r \in Reqs : ReadDonePage(r) \/ HcaExecute(r) \/ HcaFail(r)
=============================================================================
