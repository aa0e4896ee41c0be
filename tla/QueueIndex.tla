----------------------------- MODULE QueueIndex -----------------------------
(***************************************************************************)
(* The layout of the driver's queue array: sswap_rdma_get_queue computes   *)
(* the index of a CPU's queue of a type, get_queue_type recovers the type  *)
(* of an index when the queue is created. SwapPath names a queue by the    *)
(* pair <<cpu, type>>; the theorem here is what makes that faithful.       *)
(***************************************************************************)
EXTENDS Integers, TLAPS

CONSTANT numcpus   \* num_online_cpus() when the module is loaded

ASSUME NumCpusAssumption == numcpus \in Nat \ {0}

numqueues == numcpus * 3

QueueTypes == {"READ_SYNC", "READ_ASYNC", "WRITE_SYNC"}

\* Mutant: an off-by-one in the first range.
get_queue_type_OffByOne(idx) ==
  CASE idx <= numcpus -> "READ_SYNC"
    [] idx > numcpus /\ idx < numcpus * 2 -> "READ_ASYNC"
    [] idx >= numcpus * 2 -> "WRITE_SYNC"

get_queue_type(idx) ==
  CASE idx < numcpus -> "READ_SYNC"
    [] idx >= numcpus /\ idx < numcpus * 2 -> "READ_ASYNC"
    [] idx >= numcpus * 2 -> "WRITE_SYNC"

QueueNumber(cpuid, type) ==
  CASE type = "READ_SYNC" -> cpuid
    [] type = "READ_ASYNC" -> cpuid + numcpus
    [] type = "WRITE_SYNC" -> cpuid + numcpus * 2

\* For every number of CPUs: a queue number stays inside the array that
\* sswap_rdma_create_ctrl allocates, the queue found there was created with
\* the type asked for, and no two CPUs or types share a queue.
THEOREM QueueNumberCorrect ==
  ASSUME NEW c \in 0..numcpus - 1, NEW type \in QueueTypes
  PROVE  /\ QueueNumber(c, type) \in 0..numqueues - 1
         /\ get_queue_type(QueueNumber(c, type)) = type
         /\ \A d \in 0..numcpus - 1, other \in QueueTypes :
              QueueNumber(c, type) = QueueNumber(d, other) => c = d /\ type = other
  BY NumCpusAssumption DEF numqueues, QueueTypes, get_queue_type, QueueNumber
=============================================================================
