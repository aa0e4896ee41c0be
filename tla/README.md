# Multi-backend-DM: a TLA+ verification project

This directory specifies and verifies the disaggregated-memory swap system of
this repository: a patched Linux 4.11 kernel sends swapped-out pages through
frontswap to a *backend* module, which keeps them in far memory, on another
machine over RDMA or in local DRAM. The modules are written from the source;
`PROJECT.json` maps every definition to the lines it models. Paths below are
relative to `code/` of the repository.

Contents: 1 inventory, 2 modules, 3 runs, 4 bounds, 5 fairness, 6 proofs,
7 findings, 8 what is not modelled, 9 plan, 10 running the checks.

## 1. Inventory

| Component | State | Operations | Interacts with |
|---|---|---|---|
| **RDMA driver, data path** `drivers/fastswap_rdma.c` | per queue: `pending` (atomic), `cq_lock`, send ring and completion queue; `req_cache` objects | `sswap_rdma_write`, `_read_sync`, `_read_async`, `_poll_load`; `write_queue_add`, `begin_read`, `poll_target`, `drain_queue`; the handlers `read_done`, `write_done` | called by the glue module, posts to the adapter, unlocks pages |
| **RDMA driver, queue layout** (same file) | `gctrl->queues[3 * numcpus]` | `get_queue_type`, `sswap_rdma_get_queue` | used by both other parts of the driver |
| **RDMA driver, set-up** (same file) | `cm_error`, `cm_done`, `cm_id`, queue pair and completion queue per queue, `servermr` | module init and exit, `init_queues` with its unwinding, CM event handler, `recv_remotemr` | CM messages with the server |
| **Far memory server** `farmemserver/rmserver.c` | `queue_ctr`, queue states, registered buffer | start, two event loops, `on_connect_request`, `on_connection`, `on_disconnect`, `die` | CM messages with the driver; afterwards passive (one-sided RDMA) |
| **Frontswap glue** `drivers/fastswap.c` | the registered `frontswap_ops` | `store`, `load`, `load_async`, `poll_load`, module init and exit | kernel on one side, the backend on the other |
| **Kernel patch, swap path** `kernel/kernel.patch` | page lock, `PageUptodate`, swap cache, frontswap bitmap | `swapin_readahead`, `read_swap_cache_sync`, `swap_readpage(_sync)`, `frontswap_*` | faulting threads and reclaim on every CPU |
| **Kernel patch, memory.high** (same file) | `memcg->high`, `high_work` | `high_work_func`, `try_charge`, `memory_high_write` | reclaim |
| **DRAM backend** `drivers/fastswap_dram.c` | one vmalloc'ed buffer | the same four backend functions, as copies; module init and exit | glue module |
| **Backend switch** `scripts/backendswitch.sh` | which modules are loaded, which swap is on | `swapoff`, `rmmod`, `insmod`, `swapon` in order | both backends, kernel |
| **Evaluation harness** `eval/` | containers, workload processes, cgroup limits | start, poll, stop | user processes |
| **Log processing, set-up scripts, benchmark programs** | – | – | – |

Behaviours that are hard here, and that the properties aim at:

* **Completions are shared.** Any thread that drains a queue runs the handlers of
  requests other threads posted; `READ_ASYNC` queues are also served by a
  softirq, without `cq_lock`. Correct waiting depends on `pending` alone.
* **Check, then act.** The back-pressure test and the `atomic_inc` are two steps
  with no lock around them. Only the ownership of a CPU keeps them together.
* **A CPU number that goes stale.** The fault path reads `smp_processor_id()`,
  may sleep in an allocation, and later polls that CPU's queue.
* **Order inside a handler.** Page unlock before decrement, or the drain that
  sees zero returns while the page is locked.
* **Write on one queue pair, read on another.** No ordering between queue pairs:
  the store must be complete before the page can be dropped and read again.
* **Faults of the adapter.** Completions with an error status; refused posts, whose
  increment of `pending` nobody takes back.
* **Connection set-up over several loads.** Timeouts that race a late event,
  unreported errors, a server that counts queues for its whole life, that ends
  or dies and is started again, verbs objects that several paths free and others
  forget, and one way to fail that leaves every queue connected.
* **A backend switched under a running system.** The glue module never
  unregisters: a call goes to the newest operations on frontswap's list whether
  their module is loaded or not, frontswap's bits outlive the buffer they refer
  to, and the script goes on when one of its commands has failed. A load that
  fails goes on to the next operations on the list, whose module is gone.
* **Slots without identity.** A page's address in the buffer is its slot's offset,
  nobody tells the backend that a slot was freed, and the same slot is stored by
  one page after another.

For each component, correctness means: *data path*, the counter is exact (up to
refused posts), rings never overflow, pages under DMA are exclusive, drained means
done, everything locked is unlocked; *swap path*, what the application wrote is what it reads;
*set-up*, a ready driver talks to the right server queues, one that is gone
leaves no connection unless it failed in `recv_remotemr`, frees what it frees once
and loses a known set of objects, an `insmod` ends; *server*, it stays
inside its queue array and is there when the driver is ready;
*switch*, *glue* and *DRAM backend*, what was stored is loaded, no page of a backend
outlives it, no call reaches a module that is gone while nothing of the RDMA backend fails; *memory.high*, the worker
neither stops early nor runs for ever.

The `hazards` of `PROJECT.json` list these at their lines, with the properties
that would catch each one.

## 2. Modules

```
FarMemory                abstract: store, drop, load, discard of pages
   ^ refined by            ^ refined by (careful administrator)
   |                     BackendSwitch --extends--> Frontswap
   |                       the switch script      bitmap, glue, DRAM buffer
SwapPath  ---extends---> FastswapRdma     kernel swap path over the driver
                           | its queues are pairs <<cpu, type>>, justified by
                           v
RdmaConnect --extends--> QueueIndex       set-up; index arithmetic
MemcgHigh                                 memory.high and its worker
MCSwapPath, MCRdmaConnect, MCBackendSwitch   instances for TLC

proofs, each extending the module to its right:
FaultReadyProofs -> SwapDataProofs -> DmaProofs -> SwapPathProofs -> SwapPath
RdmaConnectProofs -> RdmaConnect        MemcgHighProofs -> MemcgHigh
BackendSwitchProofs -> BackendSwitch
```

**`FastswapRdma`**, the driver's data path. A queue is a pair of a CPU and a type.
A request object has a life cycle `free → counted → posted → cqe → reaped →
(unlocked →) free`, whose steps are the atomic steps of the code that another
CPU can observe: `atomic_inc`, `ib_post_send`, execution by the adapter,
`ib_poll_cq`, page unlock, `atomic_dec`. A request that `ib_post_send` refused is
`leaked` for good: not live, but still in `pending`. Threads walk through
`check → inc → post` (post) and `spin → reap → handler` (poll).

| Actions | Code |
|---|---|
| `Throttle`, `Admit` | the `while (inflight >= ...)` loops of `write_queue_add` and `begin_read` |
| `ReqFailed`, `CountReq`, `PostSend`, `PostRefused` | `get_req_for_page` and `sswap_rdma_post_rdma`, and what their callers do with the result |
| `LockCq`, `Reap`, `UnlockCq`, `PollTargetDone`, `DrainDone` | `poll_target`, `drain_queue` around `ib_process_cq_direct` |
| `ReadDonePage`, `ThreadCountDown` | `sswap_rdma_read_done`, `sswap_rdma_write_done` called from a poll |
| `SoftirqReap`, `SoftirqCountDown` | the same handlers, called from the softirq of a `READ_ASYNC` queue |
| `HcaExecute`, `HcaFail` | the adapter (external): requests of a queue pair execute, or fail and put the queue pair in the error state |

A thread in the driver occupies its CPU (`cpu[t]`): the repository's kernel
configuration is `CONFIG_PREEMPT_VOLUNTARY` and nothing in the driver sleeps.

**`SwapPath`** adds the kernel: `SwapOut`, `StoreReturned`, `ReclaimCached` for
reclaim, and `SwapIn`, `AllocSleep`, `ReadFault`, `ReadAhead`, `PollLoad`,
`MapFault` for a fault, plus `Touch` by the application. The parts of the
kernel that the patch does not change are modelled from how the patched code
depends on them (marked external). `MigrateInAlloc` says whether the allocation
inside `read_swap_cache_sync` may sleep and resume on another CPU.

**`FarMemory`** is the promise: a store that has returned left the contents in
far memory, a load hands back what the last store put there. `SwapPath`
implements it under the mapping `PhaseOf` (a page's phase is read off its
place, its lock and its uptodate flag). `Discard`, giving up what is in far
memory for a page that is mapped, is a step of `BackendSwitch` only.

**`Frontswap`** takes a transfer as one step and looks at what surrounds it: swap
entries `<<type, offset>>` that are given out, freed and reused, `frontswap_map`,
the list of registered operations and the backend's buffer.

| Actions | Code |
|---|---|
| `Store` with `sswap_store`, `CopyOut` | `__frontswap_store`, the glue module's store, the copy into the buffer |
| `swap_readpage_sync`, `swap_readpage` with `CallLoad`, `sswap_load`, `CopyIn` | the patched read paths and the walk over the list of operations, with the `BUG_ON` of the first and the device read of the second |
| `TransferFails`, `CrashOnTransfer`, `AllLoadsFail` | a request that cannot be had or a post that is refused: `BUG_ON` in a store, the next operations on the list in a load, or none left |
| `PollLoad` | `frontswap_poll_load` |
| `FreeSlot` | `__frontswap_invalidate_page`, whose calls to the backend the patch comments out |
| `BeginStore`, `StoreReturned`, `Drop`, `BeginLoad`, `ReadDone`, `MapIn`, `Touch` | the kernel around them (external) |

A call into an unloaded module, a `BUG_ON` and an address outside the buffer
set `crash` and end the behaviour. `mishaps` remembers that a transfer has failed.

**`BackendSwitch`** adds `scripts/backendswitch.sh` command by command (`Start`,
`RmGlue`, `RmBackend`, `InsBackend`, `InsGlue`, `SwapOff`, `SwapOn`) with the init
and exit functions those commands run. An `insmod` of the RDMA backend that fails
leaves nothing that matters here, or its CM handlers (`StaleHandler` is an event
that calls one), or it crashes; `RdmaConnect` says when. The history variable `careful` records
whether the administrator kept to what the script needs but does not check: no
page in swap and no fault under way when a run starts, no page sent to swap
while it runs or without a backend, `ssd` only in a kernel that never had a
backend, memory for the DRAM buffer. It says nothing of transfers and `insmod`s,
which fail whoever administers.

**`QueueIndex`** is the arithmetic of the queue array.

**`RdmaConnect`** is the client's module life cycle (`InsMod`, `StartQueue`,
`QueueUp`, `QueueDown`, `DestroyCmId`, `Unwind`, `GetReqForBuf`, `PostRecv`,
`RegionReceived`, `RmMod`, `StopAndFree`), the CM handler (`AddrResolved`,
`RouteResolved`, `CmErrorEvent`, `Rejected`, `Established`, `Disconnected`) and the
server
(`StartServer`, `OnConnectRequest`, `OnConnection`, `OnDisconnect`,
`OnUnknownEvent`, each handler ending with the control of the loop it runs in,
`LoopControl`, or with `Die`). `ib` says which verbs objects a connection owns,
`kept` what else of each load is allocated (request cache, `ctrl`, queue array,
protection domain), `handler` whose CM handler its events call;
every allocation, verbs or CM call that can fail does so as a "resource" fault on
the client or a "server" fault on the server. The connection manager between
them is a set of messages; only requests keep their order. A wait can end by its
timeout at any moment, so a late event races it. The server is started, and
started again after it ended, for any number of CPUs in `Procs`, and only while
the driver is not loaded. When the memory region cannot be set up (`LeaveQueues`)
the module goes away as after any failed `insmod`, but with its queues connected:
its `fate` is `noregion`. Later loads and the server go on from there, and an event
of such a connection ends the behaviour with `crashed`, as does a NULL pointer that
the driver does not check for (`sswap_rdma_create_ctrl`, `GetReqForBuf`).

**`MemcgHigh`** is the offloaded eviction of the kernel patch: `Charge`, `ReadHigh`,
`CheckHigh` are `try_charge`, `HandleOverHigh` the return to user mode,
`HighWrite` and `HighSchedule` are `memory_high_write`, and the `Work...` actions
the reads, the reclaim and the re-check of `high_work_func`. Every read of the
counter and of the limit is a step of its own: the code takes no lock. The
state is one cgroup; its ancestors have no limit.

**Mutants.** Definitions named `X_Something` with a comment "Mutant:" are
deliberately wrong versions of `X`, used by `PROJECT.json` to show that each
property fails when the code has that bug. No specification uses them.

## 3. Runs

| Run | Checks | Shows |
|---|---|---|
| `datapath` | `TypeOK`, `PendingAccounts`, `PendingBounded`, `PostHasRoom`, `DmaExclusive`, `Integrity`, `ImplementsFarMemory` | two CPUs, two threads, two pages, with migration: counters, rings, page locks and contents are right in every interleaving, and every step is a step or a stutter of `FarMemory` |
| `faults` | `PostHasRoom`, `DmaExclusive`, `DrainedIsIdle` | two faults (failed completions, refused posts, failed requests): pages under DMA stay exclusive, posts find room, and a drain returns only from an idle queue. A refused post costs its queue a slot and every later drain of it: the counter never gets back to zero |
| `prefetch` | `FaultReady`, `EventuallyUnlocked` | one CPU, two threads, read-ahead: a fault that polled finds its page ready, every locked page is unlocked |
| `migration` | `FaultReady`, `EventuallyUnlocked` | two CPUs: polling another CPU's queue works, even over a failed queue pair, *provided* the thread did not migrate between reading its CPU number and posting |
| `connect` | `TypeOK`, `ReadyAligned`, `ReadyServed`, `QueueTable`, `NoHandlerAfterUnload`, `FreeOwned`, `LossesOfLoad`, `QueueCtrInRange`, `InsModEnds` | two loads against a server that is started, ends, dies and is started again, with two faults of any kind: a driver that becomes ready is aligned with a server that is there; one that is gone has connections left only if it failed in `recv_remotemr`, has freed nothing twice, and leaves allocated what `LossesOfLoad` says of each way to end; the first load after a server start ends |
| `backend` | `TypeOK`, `CarefulNoCrash`, `StoredIsKept`, `CarefulFarMemory` | two runs of the script between all backends, swapping meanwhile, with failing transfers, `insmod` and `vzalloc`: a careful administrator meets no crash but those that a failing transfer or RDMA `insmod` leads to, and has a far memory until a transfer fails; what is stored in the present buffer stays there whoever administers it |
| `offload` | `TypeOK`, `OverHighAttended`, `OverHighEnds` | two tasks, the worker and a writer of `memory.high`: no wake-up of the worker is lost, an excess is evicted |
| `stale_cpu`, `failed_read`, `region`, `switch`, `areas` | one property each | violated: see section 7 |

`CHECK_DEADLOCK FALSE` is set where the system really may stop: with
`MigrateInAlloc` a fault can wait for ever (finding 1), after a refused post a
thread dies in a `BUG_ON`, and a module that has been loaded the bounded number
of times may stay unloaded; a cgroup whose tasks are done has nothing left to do;
a crash ends a behaviour of `BackendSwitch` and of `RdmaConnect`.
The liveness runs `prefetch` and `migration` do
check for deadlock.

## 4. Bounds

* `MaxSendWr` stands for `QP_MAX_SEND_WR` (4096). Small values make back
  pressure happen all the time. The invariants about it are proved for every
  value, so the runs only need each branch to fire.
* Two threads are what interleaves: a poster and a poller, two posters of one
  CPU, two faults on one page. Softirqs and the adapter are further actors that
  `Threads` does not bound.
* Two pages: the page a fault needs, and a neighbour that is read ahead while
  somebody else stores or faults on it. One page where there is no read-ahead.
* Two values distinguish the latest contents from the ones before it.
* `Reqs` bounds `req_cache`: one object per page (`DmaExclusive` allows no more in
  flight), and in `datapath` one more for a request that has released its page
  but not yet its object. A thread that finds none waits until one is freed.
* `ReadTarget`, `WriteTarget`, `DrainBudget` are the loop budgets (8, 2048, 16).
  `prefetch` uses queues of two with the write slack of one and budgets of two,
  the other runs queues and budgets of one.
* `MaxFaults`, `FaultKinds`, `MaxAttempts` bound the faults and the loads. Two
  faults are needed for one fault to hit the recovery of another; two loads for
  what one leaves behind to meet the next. `Procs` is {1, 2} with one CPU in the
  client: a server told the right number and one told more. Three queues per CPU
  make the unwinding and the server's loops run several times.
* `BackendSwitch`: `MaxRuns` is two (to a backend, then to another one or to the
  same one again), after which operations of a gone module are on frontswap's list
  and, after a failed `insmod`, handlers of one may be registered; two pages, so that a freed slot is given to another page; two slots beside the
  header page, and a buffer of as many pages as the swap area (32 GB both in the
  repository). One swap area, two in `areas`. `switch` needs only one
  page and one value.
* `MemcgHigh`: `MaxOffload` is two with two tasks that charge one page each, so
  that the excess gets on both sides of the limit that `try_charge` tests.
  `OverHighAttended` depends on that proportion: with three tasks (or five huge
  pages for the real 2048) all chargers can find a large excess at the same
  time, none of them schedules the worker, and TLC finds the cgroup left above
  its limit. `MaxCharges` makes charging end, as `OverHighEnds` presumes.
* Symmetry: CPUs, threads, pages, requests and values are interchangeable;
  it is used in runs without liveness properties only (`ImplementsFarMemory` and
  `CarefulFarMemory` are step properties, symmetric in the same sets).

## 5. Fairness

`SwapPath!Fairness`: weak fairness on the steps of a thread that occupies a CPU
(it runs on), on the adapter (it completes or fails what is posted), on handlers
and on the softirq. Strong fairness where something is taken by others in
between: `LockCq` (queued spinlocks of the kernel are fair), `Reap` per request
(completion queues are FIFO), `ReadFault` and `PollLoad` (the scheduler gives a
runnable thread a CPU again and again). None on the application, on reclaim and
on the decision to read ahead.

`RdmaConnect!Fairness`: events are delivered, the server keeps taking them, an
`insmod` or `rmmod` that started keeps running. None on starting one, on
starting the server or on faults. `InsModEnds` is stated for the first load after
a server start and excludes a client that crashes and a server that dies before it
has sent the region: the driver's wait for the region has no timeout.

`BackendSwitch` states no fairness: the script and the application may stop.

`MemcgHigh!Fairness`: the worker and a task inside `try_charge` run on, a write to
`memory.high` finishes. Reclaim may evict nothing, but not always (strong
fairness on an eviction of at least one page): there is room in far memory.
Without it `high_work_func` reschedules itself for ever.

## 6. Proofs

Every theorem holds for **any** value of the constants that satisfies the
assumptions `QueueAssumption`, `ObjectAssumption` (`FastswapRdma`), `CallerAssumption`
(`SwapPath`), `NumCpusAssumption` (`QueueIndex`), `ConnectAssumption` (`RdmaConnect`),
`MemcgAssumption` (`MemcgHigh`), `FrontswapAssumption` (`Frontswap`) and
`SwitchAssumption` (`BackendSwitch`), which TLC evaluates in the runs, and under
the hypotheses the theorem states.

### The data path and the swap path

For any number of CPUs, threads, pages, values and requests (a finite set), any
queue size and budgets, with and without migration, and with any bound on failed
completions, refused posts and failed requests:

| Theorem | States |
|---|---|
| `SwapPathProofs!Invariance` | `Spec => []IInv` |
| `SwapPathProofs!TypeCorrect` | `Spec => []TypeOK`; in particular `pending` never goes below zero |
| `SwapPathProofs!AccountingCorrect` | `Spec => []PendingAccounts`: `pending` is the number of live requests, plus that of the posts ever refused on the queue |
| `SwapPathProofs!BackPressureCorrect` | `Spec => []PendingBounded`: the `BUG_ON`s on `QP_MAX_SEND_WR` cannot fire |
| `SwapPathProofs!RingCorrect` | `Spec => []PostHasRoom`: `ib_post_send` always finds room |
| `SwapPathProofs!DrainedCorrect` | `Spec => DrainedIsIdle`: a drain returns only from a queue with nothing outstanding and no refused post |
| `DmaProofs!DmaCorrect` | `Spec => []DmaExclusive`: a page under DMA is locked, unmapped and in one request |
| `SwapDataProofs!IntegrityCorrect` | `Spec => [](faults = 0 => Integrity)`: what the application wrote is what it reads |
| `SwapDataProofs!RefinementCorrect` | `Spec /\ [](faults = 0) => ImplementsFarMemory` |
| `FaultReadyProofs!FaultReadyCorrect` | `~MigrateInAlloc => (Spec => []FaultReady)`: a fault that polled finds its page ready |

`faults = 0` and `~MigrateInAlloc` are needed: with a failed completion `Integrity`
is false (finding 2), with a migration `FaultReady` is (finding 1).

*Counting.* `PendingBounded` is not inductive: between the test and the
increment another poster could slip in. `CallInv` says that a thread that may
still post uses a queue of the CPU it occupies, `CpuInv` that a CPU is occupied
by one thread; so between test and increment the tested counter can only fall,
which is `AdmitInv`. `PendingAccounts` (proved as `ChargeInv`, which counts live and
refused requests as one set; `ChargeSplit` takes it apart) needs that a request is in the hands of
one thread or softirq when it is posted or handled (`OwnerInv`), or a double
completion would decrement twice. `ReqInv` and `FaultInv` say which fields are
set where. Preservation is proved per conjunct, one case per action, over four
lemmas on how a step changes that set, `Charge(q)` (`ChargeSame`, `ChargeMove`,
`ChargeAdd`, `ChargeRemove`). `RingCorrect` follows since the requests on the ring,
with the one about to be posted, are among them; `DrainedCorrect` since only
`drain_queue`'s return ends a drain (`DrainEnds`), and it has read zero.

*Page locks.* `DmaExclusive` depends on who may unlock. A thread in a call holds the
lock of its page and shares it with no other thread (`HolderInv`). A request
whose page a thread still holds is the one it is about to post, or the write
whose queue it is draining (`ServesInv`). So only the completion handler releases
the page of a read, and a store releases its page only after its queue was
drained, when the accounting says that no request of it is left.

*Contents.* `Integrity` is about mapped pages; `PageData` says where the one good
copy of a page is on its way through the swap cache: in the frame until a store
has been drained, at the server until a read has been executed. The uptodate flag
tells the two apart (`PageFlag`, `CallFlag`, `WireFlag`), a completion says that
both copies agree (`WireData`), and a store that drains either sees them agree or
has its write still in flight (`StoreData`). Reclaim cannot drop the page of a
fault (`RefInv`). The same invariant gives the refinement: each action maps to
one action of `FarMemory` or changes neither phases nor contents.

*Polling.* With no migration the remembered CPU number is the one whose queue takes
the read (`AllocInv`). Until its page is ready a fault is about to post its read or
has it in flight on the queue it will drain (`ReadyInv`); the drain ends when
`pending` is zero, hence with nothing in flight.

### The queue array

`QueueIndex!QueueNumberCorrect`: for every number of CPUs an index is in the array,
the queue there has the type asked for, and no two CPUs or types share a queue.
This justifies naming queues by pairs in `FastswapRdma`.

### Connection set-up and the server

`RdmaConnectProofs`, for any number of CPUs, loads, faults of every kind, starts of
the server and values of its argument:

| Theorem | States |
|---|---|
| `TypeCorrect` | `Spec => []TypeOK`: among others, the server's first loop stays inside its array |
| `AlignedCorrect` | `Spec => []ReadyAligned`: a ready driver's queue *i* is on the server's queue *i* |
| `ServedCorrect` | `Spec => []ReadyServed`: and that server is up with its buffer |
| `QueueTableCorrect` | `Spec => []QueueTable`: every CPU has its queues where `sswap_rdma_get_queue` looks |
| `UnloadCorrect` | `Spec => []NoHandlerAfterUnload`: CM handlers of a module that is gone are those of loads that failed in `recv_remotemr` |
| `FreeCorrect` | `Spec => []FreeOwned`: nothing is freed twice |
| `LossesCorrect` | `Spec => []LossesOfLoad`: what each load that is over has left allocated |
| `QueueCtrCorrect` | `Spec => []QueueCtrInRange` |

`init_queues` sets up one queue at a time. So the connections of a load have
consecutive numbers (`NumberInv`, `ConsecutiveInv`), and all of them but the one
being set up are established or closed (`StateInv`); this is the client's part, and
gives `UnloadCorrect`, `FreeCorrect` and `QueueTableCorrect` (with `QtypeInv`).
Between the two sides a connection is requested once and answered once it is
accepted, and a server that is up knows every connection with a message in flight
(`UnsentInv`, `AnswerInv`, `KnownInv`). Requests are taken in order (`OrderInv`), so
a load gets consecutive server queues (`SequenceInv`); the region is sent on
queue 0 only (`RegionInv`). Hence a driver that got the region is aligned. It also
began at queue 0, so the server accepted nothing before it since it was started:
no message of an earlier load is left, and only what dooms the queue being
connected can end the server (`UpInv` with lemma `OwnMessages`). `CountInv` counts
the requests of the first load after a server start against `queue_ctr`. Only
connections of the present load ever change (`TouchStep`), so what a load has lost
when it ends (`EndOfLoad`, from `PresentInv`) stays lost, no more and no less:
`LossesCorrect`.

### Switching backends

`BackendSwitchProofs`, for any number of pages, slots, values and runs of the script
with failing transfers, `insmod` and `vzalloc`. `OneArea`: there is one swap area. `BufferFits`:
the buffer is as large as an area, as in the repository (32 GB both).

| Theorem | States |
|---|---|
| `TypeCorrect` | `Spec => []TypeOK` |
| `StoredIsKeptCorrect` | `OneArea => (Spec => []StoredIsKept)`, for a careless administrator too |
| `CarefulCorrect` | `BufferFits => (Spec => []CarefulNoCrash)`, for any number of areas: no bad address, and no crash but those a failed transfer or RDMA `insmod` leads to |
| `RefinementCorrect` | `OneArea /\ BufferFits => (Spec => CarefulFarMemory)`, while no transfer has failed |

`SlotInv` (no two pages share a slot) and `SinceInv` (the history is about the
present buffer) give `StoredIsKept`; with two areas it is false (finding 5).
What the administrator's care buys is `QuietInv`: while the script runs, and while
the glue module is not loaded, no page has a slot and no fault is under way. So
nobody calls through operations that dangle, and no buffer goes while it holds a
page. `CopyInv` (a clean page has its copy in the buffer) gives the refinement; it
is lost with the first load that fails and is read from the swap device instead.

### memory.high

`MemcgHighProofs`, for any limits, batches and numbers of charges:

| Theorem | States |
|---|---|
| `TypeCorrect` | `Spec => []TypeOK` |
| `AttendedCorrect` | `SmallCrowd => (Spec => []OverHighAttended)` |

`OverHighAttended` says that nobody leaves the cgroup above its limit with no one
to look again. It is not inductive: a task that finds a large excess schedules
nothing. `QuietBound` says how large the excess is when neither the worker nor a
writer will look: at most one batch for each task that has charged and has yet to
compare. With `SmallCrowd` (all tasks together charge at most `MAX_RECLAIM_OFFLOAD`
pages at once: 64 tasks with the kernel's batch of 32) the last of them sees an
excess for which it schedules the worker. The hypothesis is needed: section 4
tells what TLC finds without it.

### Only model-checked

Every invariant that a passing run checks is a theorem, and so are both
refinements. Liveness is beyond the prover and stays with TLC:
`EventuallyUnlocked`, `InsModEnds`, `OverHighEnds`. So do the five violations of
section 7.

## 7. Findings

1. **`stale_cpu` / `FaultReady`.** `swapin_readahead` takes its CPU number before
   `read_swap_cache_sync` allocates a page with a mask that may sleep.
   `preempt_disable()` does not prevent the migration in the repository's
   `CONFIG_PREEMPT_VOLUNTARY` kernel. The read is posted on the new CPU's queue
   and the old one's is drained, so `frontswap_poll_load` returns with the page
   locked; it is unlocked only when somebody else drains that queue. Run
   `migration` is the same instance without that migration, and holds.
2. **`failed_read` / `Integrity`.** Both completion handlers only log an error
   status. A failed store counts as done and a failed load marks the frame up to
   date, so the application can see a page that was never transferred.
3. **`region` / `RegionArrives`.** `queue_ctr` of the server is never reset and the
   memory region is sent on `queues[0]` only. After a load that failed, the next
   one has another server queue as its queue 0, and `sswap_rdma_wait_completion`
   spins without a timeout. The instance is a server started for two CPUs and a
   client with one online; with equal numbers the second load runs past the
   server's array instead (`smode = "overrun"`).
4. **`switch` / `Integrity`.** The readme offers the script for switching backends.
   It unloads the old backend without bringing its pages back, and neither
   `exit_sswap` nor the script clears frontswap's bits: the next fault of such a
   page reads the new backend's buffer, where nobody stored it. Run `backend`
   shows which discipline makes the switch safe.
5. **`areas` / `StoredIsKept`.** `sswap_store` and `sswap_load` ignore the swap type,
   so slots of equal offset in two swap areas share an address and overwrite each
   other. With one area the property holds (`backend`).

Observed while modelling, without a run:

* `get_req_for_page` tests and frees `req` where it means `*req` (`ReqFailed` has the
  consequences); `begin_read` maps the page `DMA_TO_DEVICE` and the handler unmaps it
  `DMA_FROM_DEVICE`.
* When the memory region cannot be set up, `init_module` returns an error with its
  queues up: CM handlers of a module that is gone stay registered, and the end of
  the server calls them. `NoHandlerAfterUnload` and `LossesOfLoad` state this as the
  one exception.
* No path frees the protection domain, `rdev` and the queue array of a load, not even
  module exit; a failed `insmod` frees neither the request cache nor `ctrl`; the
  allocation of `ctrl->queues` is not checked.
* After a switch, `__frontswap_load(_async)` goes from a failing load to the
  operations of the unloaded module behind the newest ones: the last crash
  that `CarefulNoCrash` names.
* A refused post leaves `pending` above zero for ever, so the next store on that
  CPU spins in `drain_queue` (`DrainedIsIdle`).
* The server's first loop advances on every event whose handler returns 1,
  connected or not, and then prints "done connecting all queues". `ReadyServed`
  shows that no ready driver is affected.
* The patch says at most `MAX_RECLAIM_OFFLOAD` pages are evicted at a time;
  `try_charge` accumulates that amount at every charge and the return to user mode
  evicts the sum.
* With the `ssd` target the script calls `swapoff -a` after it has unloaded the
  modules, and `swapoff` calls `invalidate_area` of their operations.

## 8. Not modelled

* IOMMU effects of the mapping direction, except as a completion that fails.
* The race of a poll and a softirq on the scratch array `cq->wc` of one
  `READ_ASYNC` completion queue: the model takes each `ib_poll_cq` as atomic, so no
  property here would catch a completion handled twice or lost because of it.
* A CPU that comes online after the module was loaded (`numcpus` is fixed then).
* The text of addresses (one of two outcomes of `sswap_rdma_create_ctrl`) and the
  `ib_client` callbacks (they only log).
* What happens after a crash of the client, and a server that is started while a
  driver is being loaded.
* In `Frontswap`, a transfer in progress while the modules change: `rmmod` waits
  for calls that are inside a module, and the steps of a transfer are
  `SwapPath`'s.
* Ancestors with limits of their own and the per-CPU charge stock (memory.high).
* The evaluation harness: Python supervision of benchmark processes, which shares
  no state with the swap system and whose only protocol is start, poll, stop.
* Log processing, installation scripts, benchmark programs: no protocol state.

## 9. Plan

The parts of the system that carry protocol state are modelled, and every invariant
and refinement the runs check is proved. What is left:

1. Action properties worth stating and proving from the same invariants: a page
   lock is released only by its holder or by the handler of its request, the
   server's queue counter only grows while it is up.
2. Shorter proofs: the case splits over the actions repeat the same frame
   argument, which a lemma per group of variables would take over.
3. `Integrity` under faults, with the failed transfers excluded page by page.

## 10. Running the checks

In this directory, with TLC and TLAPS installed:

```
tlc -workers 2 -config SwapPath_datapath.cfg MCSwapPath
tlc -workers 2 -config RdmaConnect_connect.cfg MCRdmaConnect
tlc -workers 2 -config BackendSwitch_backend.cfg MCBackendSwitch
for m in QueueIndex SwapPathProofs DmaProofs SwapDataProofs FaultReadyProofs \
         RdmaConnectProofs BackendSwitchProofs MemcgHighProofs; do tlapm $m.tla; done
```

`PROJECT.json` lists all runs with their modules, mutants and theorems.
