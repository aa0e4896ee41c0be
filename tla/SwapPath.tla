------------------------------ MODULE SwapPath ------------------------------
(***************************************************************************)
(* The swap path as the kernel patch rewires it (code/kernel/kernel.patch),*)
(* composed with the RDMA driver: reclaim stores a page with               *)
(* frontswap_store and drains the write; a fault posts a synchronous read  *)
(* for the page it needs, asynchronous reads for its neighbours, then      *)
(* polls the queue of the CPU it remembers and waits for the page lock.    *)
(*                                                                         *)
(* The unpatched parts of the kernel that these functions run between      *)
(* (unmapping, do_swap_page's lock and map, the removal of a clean page    *)
(* from the swap cache) are modelled from how the patched code depends on  *)
(* them and are marked external in the map.                                *)
(***************************************************************************)
EXTENDS FastswapRdma

CONSTANTS
  MigrateInAlloc,  \* TRUE: the page allocation inside read_swap_cache_sync
                   \* may sleep and resume on another CPU. preempt_disable()
                   \* does not forbid it under CONFIG_PREEMPT_VOLUNTARY.
  RaWindow         \* most pages one fault reads ahead (swapin_nr_pages)

ASSUME CallerAssumption == MigrateInAlloc \in BOOLEAN /\ RaWindow \in Nat

VARIABLES
  where,   \* "mapped" in the application, "cached" (swap cache), or "out"
  app,     \* what the application last wrote to the page
  fpage,   \* the page thread t faulted on
  fcpu,    \* swapin_readahead's local variable cpu
  fresh,   \* read_swap_cache_sync's page_was_allocated
  ra       \* pages read ahead by this fault so far

faultVars == <<fpage, fcpu, fresh, ra>>
vars == <<driverVars, where, app, faultVars>>

Init ==
  /\ DriverInit
  /\ locked = [p \in Pages |-> FALSE]
  /\ uptodate = [p \in Pages |-> TRUE]
  /\ app \in [Pages -> Vals]
  /\ val = app
  /\ remote = [p \in Pages |-> None]
  /\ where = [p \in Pages |-> "mapped"]
  /\ fpage = [t \in Threads |-> None]
  /\ fcpu = [t \in Threads |-> None]
  /\ fresh = [t \in Threads |-> FALSE]
  /\ ra = [t \in Threads |-> 0]

\* A fault holds a reference on its page once it has found or allocated it.
Referenced(p) == \E t \in Threads : fpage[t] = p /\ pc[t] # "alloc"

-----------------------------------------------------------------------------
\* The application writes to a mapped page.
Touch(p, v) ==
  /\ where[p] = "mapped"
  /\ app' = [app EXCEPT ![p] = v]
  /\ val' = [val EXCEPT ![p] = v]
  /\ UNCHANGED <<queueVars, hcaVars, reqVars, irq, callVars, workVars, flagVars,
                 remote, where, faultVars>>

-----------------------------------------------------------------------------
(* Reclaim: frontswap_store, then the page is clean in the swap cache.     *)

\* Thread t on CPU c unmaps and locks page p and calls frontswap_store, which
\* calls sswap_store and sswap_rdma_write.
SwapOut(t, p, c) ==
  /\ pc[t] = "idle" /\ CpuFree(c)
  /\ where[p] = "mapped" /\ ~locked[p] /\ ~Referenced(p)
  /\ where' = [where EXCEPT ![p] = "cached"]
  /\ locked' = [locked EXCEPT ![p] = TRUE]
  /\ EnterPost(t, c, "WRITE_SYNC", p)
  /\ UNCHANGED <<queueVars, hcaVars, reqVars, irq, workVars, uptodate, dataVars,
                 app, faultVars>>

\* frontswap_store returned 0: swap_writepage unlocks the page.
StoreReturned(t) ==
  /\ pc[t] = "stored"
  /\ locked' = [locked EXCEPT ![dpage[t]] = FALSE]
  /\ dpage' = [dpage EXCEPT ![t] = None]
  /\ pc' = [pc EXCEPT ![t] = "idle"]
  /\ UNCHANGED <<queueVars, hcaVars, reqVars, irq, cpu, dq, workVars, uptodate,
                 dataVars, where, app, faultVars>>

\* Reclaim drops a clean, unlocked, unreferenced page from the swap cache.
ReclaimCached(p) ==
  /\ where[p] = "cached" /\ ~locked[p] /\ uptodate[p] /\ ~Referenced(p)
  /\ where' = [where EXCEPT ![p] = "out"]
  /\ val' = [val EXCEPT ![p] = None]
  /\ UNCHANGED <<queueVars, hcaVars, reqVars, irq, callVars, workVars, flagVars,
                 remote, app, faultVars>>

-----------------------------------------------------------------------------
(* A page fault: do_swap_page and swapin_readahead.                        *)

\* The faulting thread t runs on CPU c. A page in the swap cache is found by
\* lookup_swap_cache; otherwise swapin_readahead reads its CPU number and
\* calls read_swap_cache_sync.
SwapIn(t, p, c) ==
  /\ pc[t] = "idle" /\ CpuFree(c)
  /\ fpage' = [fpage EXCEPT ![t] = p]
  /\ \/ /\ where[p] = "out"
        /\ pc' = [pc EXCEPT ![t] = "alloc"]
        /\ cpu' = [cpu EXCEPT ![t] = c]
        /\ fcpu' = [fcpu EXCEPT ![t] = c]
     \/ /\ where[p] = "cached"
        /\ pc' = [pc EXCEPT ![t] = "lockpage"]
        /\ UNCHANGED <<cpu, fcpu>>
  /\ UNCHANGED <<queueVars, hcaVars, reqVars, irq, dq, dpage, workVars, flagVars,
                 dataVars, where, app, fresh, ra>>

\* The allocation in __read_swap_cache_async sleeps.
AllocSleep(t) ==
  /\ MigrateInAlloc
  /\ pc[t] = "alloc" /\ cpu[t] # None
  /\ cpu' = [cpu EXCEPT ![t] = None]
  /\ UNCHANGED <<queueVars, hcaVars, reqVars, irq, pc, dq, dpage, workVars,
                 flagVars, dataVars, where, app, faultVars>>

\* A new frame for page p: in the swap cache, locked, nothing in it yet.
NewFrame(p) ==
  /\ where' = [where EXCEPT ![p] = "cached"]
  /\ locked' = [locked EXCEPT ![p] = TRUE]
  /\ uptodate' = [uptodate EXCEPT ![p] = FALSE]

\* The allocation is done, on CPU c: when this thread brought the frame in, it
\* starts the synchronous read; when another one did, there is nothing to read.
ReadFault(t, c) ==
  /\ pc[t] = "alloc"
  /\ \/ cpu[t] = c
     \/ cpu[t] = None /\ CpuFree(c)
  /\ \/ /\ where[fpage[t]] = "out"
        /\ NewFrame(fpage[t])
        /\ EnterPost(t, c, "READ_SYNC", fpage[t])
        /\ fresh' = [fresh EXCEPT ![t] = TRUE]
     \/ /\ where[fpage[t]] # "out"
        /\ pc' = [pc EXCEPT ![t] = "readahead"]
        /\ cpu' = [cpu EXCEPT ![t] = None]
        /\ UNCHANGED <<where, flagVars, dq, dpage, fresh>>
  /\ UNCHANGED <<queueVars, hcaVars, reqVars, irq, workVars, dataVars, app,
                 fpage, fcpu, ra>>

\* One round of the read-ahead loop: read_swap_cache_async of a neighbour that
\* is neither cached nor mapped, on whatever CPU the thread runs by now.
ReadAhead(t, p, c) ==
  /\ pc[t] = "readahead" /\ CpuFree(c)
  /\ ra[t] < RaWindow /\ p # fpage[t] /\ where[p] = "out"
  /\ NewFrame(p)
  /\ EnterPost(t, c, "READ_ASYNC", p)
  /\ ra' = [ra EXCEPT ![t] = @ + 1]
  /\ UNCHANGED <<queueVars, hcaVars, reqVars, irq, workVars, dataVars, app,
                 fpage, fcpu, fresh>>

\* Mutant: the queue of the CPU the thread runs on by now is polled.
PollLoad_CurrentCpu(t, c) ==
  /\ pc[t] = "readahead" /\ CpuFree(c)
  /\ EnterDrain(t, c, sswap_rdma_get_queue(c, "READ_SYNC"))
  /\ UNCHANGED <<queueVars, hcaVars, reqVars, irq, dpage, dreq, cnt, flagVars,
                 dataVars, where, app, faultVars>>

\* frontswap_poll_load(cpu): drain the queue of the CPU number read earlier.
PollLoad(t, c) ==
  /\ pc[t] = "readahead" /\ CpuFree(c)
  /\ EnterDrain(t, c, sswap_rdma_get_queue(fcpu[t], "READ_SYNC"))
  /\ UNCHANGED <<queueVars, hcaVars, reqVars, irq, dpage, dreq, cnt, flagVars,
                 dataVars, where, app, faultVars>>

\* do_swap_page gets the page lock, maps the page unless another fault already
\* has, and releases the lock.
MapFault(t) ==
  /\ pc[t] = "lockpage"
  /\ ~locked[fpage[t]] /\ uptodate[fpage[t]]
  /\ where' = [where EXCEPT ![fpage[t]] = "mapped"]
  /\ pc' = [pc EXCEPT ![t] = "idle"]
  /\ fpage' = [fpage EXCEPT ![t] = None]
  /\ fcpu' = [fcpu EXCEPT ![t] = None]
  /\ fresh' = [fresh EXCEPT ![t] = FALSE]
  /\ ra' = [ra EXCEPT ![t] = 0]
  /\ UNCHANGED <<queueVars, hcaVars, reqVars, irq, cpu, dq, dpage, workVars,
                 flagVars, dataVars, app>>

-----------------------------------------------------------------------------
ApplicationStep == \E p \in Pages, v \in Vals : Touch(p, v)

ReclaimStep ==
  \/ \E t \in Threads, p \in Pages, c \in CPUs : SwapOut(t, p, c)
  \/ \E t \in Threads : StoreReturned(t)
  \/ \E p \in Pages : ReclaimCached(p)

FaultStep ==
  \/ \E t \in Threads, p \in Pages, c \in CPUs : SwapIn(t, p, c) \/ ReadAhead(t, p, c)
  \/ \E t \in Threads : AllocSleep(t) \/ MapFault(t)
  \/ \E t \in Threads, c \in CPUs : ReadFault(t, c) \/ PollLoad(t, c)

Next ==
  \/ DriverStep /\ UNCHANGED <<where, app, faultVars>>
  \/ ApplicationStep
  \/ ReclaimStep
  \/ FaultStep

Spec == Init /\ [][Next]_vars

(* Fairness. A thread that has its CPU keeps running, the adapter executes *)
(* or fails every posted request, raised softirqs run: weak fairness. The  *)
(* queue's spinlock is a fair ticket lock, completion queues are FIFO and  *)
(* the scheduler serves every runnable thread although CPUs are taken in   *)
(* between: strong fairness. Reclaim, the application and the decision to  *)
(* read ahead are under no fairness.                                       *)
Fairness ==
  /\ \A t \in Threads :
       /\ WF_driverVars(ThreadStep(t)) /\ SF_driverVars(LockCq(t))
       /\ WF_vars(StoreReturned(t)) /\ WF_vars(MapFault(t))
       /\ SF_vars(\E c \in CPUs : ReadFault(t, c))
       /\ SF_vars(\E c \in CPUs : PollLoad(t, c))
  /\ \A r \in Reqs :
       /\ WF_driverVars(HcaExecute(r) \/ HcaFail(r))
       /\ WF_driverVars(ReadDonePage(r))
       /\ SF_driverVars(\E t \in Threads : Reap(t, r))
       /\ WF_driverVars(\E c \in CPUs : SoftirqReap(c, r))
  /\ \A c \in CPUs : WF_driverVars(SoftirqCountDown(c))

FairSpec == Spec /\ Fairness

-----------------------------------------------------------------------------
(* Properties.                                                             *)

PcValues == {"idle", "alloc", "check", "inc", "post", "spin", "reap", "handler",
             "readahead", "stored", "lockpage", "dead"}

QueueTypeOK ==
  /\ pending \in [Queues -> Nat]
  /\ cqLock \in [Queues -> Threads \cup {None}]
  /\ qpErr \in [Queues -> BOOLEAN] /\ faults \in 0..MaxFaults

RequestTypeOK ==
  /\ rstate \in [Reqs -> CountedStates \cup {"free", "leaked"}]
  /\ rq \in [Reqs -> Queues \cup {None}] /\ rpage \in [Reqs -> Pages \cup {None}]
  /\ irq \in [CPUs -> Reqs \cup {None}]

ThreadTypeOK ==
  /\ pc \in [Threads -> PcValues] /\ cpu \in [Threads -> CPUs \cup {None}]
  /\ dq \in [Threads -> Queues \cup {None}]
  /\ dpage \in [Threads -> Pages \cup {None}]
  /\ dreq \in [Threads -> Reqs \cup {None}]
  /\ loop \in [Threads -> {"none", "poll", "drain"}] /\ cnt \in [Threads -> Nat]

PageTypeOK ==
  /\ locked \in [Pages -> BOOLEAN] /\ uptodate \in [Pages -> BOOLEAN]
  /\ val \in [Pages -> Vals \cup {None}] /\ remote \in [Pages -> Vals \cup {None}]
  /\ where \in [Pages -> {"mapped", "cached", "out"}] /\ app \in [Pages -> Vals]

FaultTypeOK ==
  /\ fpage \in [Threads -> Pages \cup {None}]
  /\ fcpu \in [Threads -> CPUs \cup {None}]
  /\ fresh \in [Threads -> BOOLEAN] /\ ra \in [Threads -> 0..RaWindow]

\* Every variable keeps its type; in particular the atomic counter q->pending,
\* decremented by handlers on several CPUs, never goes below zero.
TypeOK == QueueTypeOK /\ RequestTypeOK /\ ThreadTypeOK /\ PageTypeOK /\ FaultTypeOK

\* q->pending is exactly the number of requests of q between their atomic_inc
\* and their atomic_dec, whoever posts and whoever reaps, plus one for every
\* post that ib_post_send ever refused on q: sswap_rdma_post_rdma does not undo
\* its increment. drain_queue and the back-pressure loops rely on this counter.
PendingAccounts ==
  \A q \in Queues : pending[q] = Cardinality(Live(q)) + Cardinality(Refused(q))

\* A drain_queue that returns leaves its queue idle: of the requests counted
\* on it, none is posted, completing or in a handler, though other threads post
\* and poll there too and requests fail. And it returns only from a queue on
\* which no post was ever refused: such a queue stays above zero for good, and
\* the stores and synchronous loads that drain it spin for ever.
DrainedIsIdle ==
  [][\A t \in Threads :
       loop[t] = "drain" /\ loop'[t] = "none"
         => Live(dq[t]) = {} /\ Refused(dq[t]) = {}]_vars

\* The BUG_ON(inflight > QP_MAX_SEND_WR) of write_queue_add and begin_read
\* cannot fire: no queue ever has more than QP_MAX_SEND_WR requests pending,
\* although the test and the increment are separate steps.
PendingBounded == \A q \in Queues : pending[q] <= MaxSendWr

\* ib_post_send finds room on the send queue, whose size is QP_MAX_SEND_WR,
\* each time sswap_rdma_post_rdma reaches it.
PostHasRoom ==
  \A t \in Threads :
    pc[t] = "post" => Cardinality(InRing(dq[t])) < MaxSendWr

\* States in which the adapter or the handler still uses the request's page.
DmaStates == {"counted", "posted", "cqe", "reaped"}

\* "Don't touch the page with cpu after creating the request for it":
\* from get_req_for_page to the completion the page is locked in the swap
\* cache, unmapped, and no other request is in flight for it.
DmaExclusive ==
  \A r \in Reqs :
    rstate[r] \in DmaStates =>
      /\ locked[rpage[r]] /\ where[rpage[r]] = "cached"
      /\ \A s \in Reqs \ {r} : rstate[s] \in DmaStates => rpage[s] # rpage[r]

\* A mapped page holds what the application last wrote to it, however often it
\* was stored, dropped, prefetched and faulted in through different queues.
Integrity == \A p \in Pages : where[p] = "mapped" => val[p] = app[p]

\* When frontswap_poll_load returns to a fault that started the read of its
\* page, that page is unlocked and up to date.
FaultReady ==
  \A t \in Threads :
    pc[t] = "lockpage" /\ fresh[t] => ~locked[fpage[t]] /\ uptodate[fpage[t]]

\* A page locked for a store or a load is unlocked again: no completion is
\* left in a queue that nobody polls.
EventuallyUnlocked == \A p \in Pages : locked[p] ~> ~locked[p]

(* The far memory the kernel sees: a page's phase is read off its place,   *)
(* its lock and its uptodate flag.                                         *)
PhaseOf(p) ==
  CASE where[p] # "cached" -> where[p]
    [] where[p] = "cached" /\ ~locked[p] -> "cached"
    [] where[p] = "cached" /\ locked[p] /\ uptodate[p] -> "storing"
    [] OTHER -> "loading"

FM == INSTANCE FarMemory
        WITH phase <- [p \in Pages |-> PhaseOf(p)], frame <- val, mem <- remote

\* The swap path over the RDMA driver implements FarMemory: stores have reached
\* the server when they return, loads hand back what was stored.
ImplementsFarMemory == FM!FMSpec
=============================================================================
