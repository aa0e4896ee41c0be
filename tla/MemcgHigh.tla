------------------------------ MODULE MemcgHigh ------------------------------
(***************************************************************************)
(* The memory.high part of code/kernel/kernel.patch: tasks charge pages to *)
(* a cgroup, and eviction of what exceeds memory.high is offloaded to a    *)
(* work item on a reserved CPU, high_work_func, which try_charge and       *)
(* memory_high_write schedule and which reschedules itself.                *)
(*                                                                         *)
(* The cgroup's ancestors have no limit. The per-CPU charge stock, which   *)
(* changes neither the counter nor the limit, is left out. A work item     *)
(* (external) has a pending bit, cleared before its function starts, and   *)
(* never runs twice at a time.                                             *)
(***************************************************************************)
EXTENDS Integers, FiniteSets

CONSTANTS
  Tasks,       \* tasks of the cgroup
  Batch,       \* most pages one try_charge adds to the counter
  MaxOffload,  \* MAX_RECLAIM_OFFLOAD
  Highs,       \* values written to memory.high
  MaxCharges   \* bound on the number of charges

ASSUME MemcgAssumption ==
  /\ Batch \in Nat \ {0} /\ MaxOffload \in Nat \ {0} /\ MaxCharges \in Nat
  /\ Highs \subseteq Nat /\ Highs # {}

VARIABLES
  memory,   \* memcg->memory, in pages
  high,     \* memcg->high
  work,     \* pending bit of memcg->high_work
  wpc,      \* where high_work_func is
  whigh,    \* its local variable high
  wmem,     \* the counter value it read last
  tpc,      \* where task t is in try_charge
  thigh,    \* its local variable high_limit
  debt,     \* current->memcg_nr_pages_over_high
  hpc,      \* where memory_high_write is
  charges   \* charges so far

workerVars == <<wpc, whigh, wmem>>
taskVars   == <<tpc, thigh, debt>>
vars == <<memory, high, work, workerVars, taskVars, hpc, charges>>

Init ==
  /\ memory = 0 /\ high \in Highs
  /\ work = FALSE
  /\ wpc = "idle" /\ whigh = 0 /\ wmem = 0
  /\ tpc = [t \in Tasks |-> "run"]
  /\ thigh = [t \in Tasks |-> 0]
  /\ debt = [t \in Tasks |-> 0]
  /\ hpc = "idle" /\ charges = 0

LesserOf(a, b) == IF a < b THEN a ELSE b

\* Mutant: pages that were freed meanwhile are subtracted once more.
ReclaimHigh_Twice(n, k) ==
  /\ k <= n
  /\ memory' = IF memory > high THEN memory - k - 1 ELSE memory

\* reclaim_high asked for at most n pages evicts k of them, possibly none, and
\* only from a cgroup that is still above its limit.
ReclaimHigh(n, k) ==
  /\ k <= n /\ k <= memory
  /\ memory' = IF memory > high THEN memory - k ELSE memory

-----------------------------------------------------------------------------
(* try_charge and the return to user mode.                                 *)

Charge(t, n) ==
  /\ tpc[t] = "run" /\ charges < MaxCharges
  /\ memory' = memory + n
  /\ charges' = charges + 1
  /\ tpc' = [tpc EXCEPT ![t] = "readhigh"]
  /\ UNCHANGED <<high, work, workerVars, thigh, debt, hpc>>

ReadHigh(t) ==
  /\ tpc[t] = "readhigh"
  /\ thigh' = [thigh EXCEPT ![t] = high]
  /\ tpc' = [tpc EXCEPT ![t] = "readcurr"]
  /\ UNCHANGED <<memory, high, work, workerVars, debt, hpc, charges>>

\* The counter is read: a large excess found outside an interrupt is charged
\* to the task, any other one is left to the worker.
CheckHigh(t) ==
  /\ tpc[t] = "readcurr"
  /\ tpc' = [tpc EXCEPT ![t] = "run"]
  /\ \/ /\ memory <= thigh[t]
        /\ UNCHANGED <<debt, work>>
     \/ /\ memory - thigh[t] > MaxOffload
        /\ debt' = [debt EXCEPT ![t] = @ + MaxOffload]
        /\ UNCHANGED work
     \/ /\ memory > thigh[t]   \* small, or found in an interrupt
        /\ work' = TRUE
        /\ UNCHANGED debt
  /\ UNCHANGED <<memory, high, workerVars, thigh, hpc, charges>>

\* mem_cgroup_handle_over_high, when the task returns to user mode.
HandleOverHigh(t, k) ==
  /\ tpc[t] = "run" /\ debt[t] > 0
  /\ ReclaimHigh(debt[t], k)
  /\ debt' = [debt EXCEPT ![t] = 0]
  /\ UNCHANGED <<high, work, workerVars, tpc, thigh, hpc, charges>>

\* The application frees a page.
Uncharge ==
  /\ memory > 0
  /\ memory' = memory - 1
  /\ UNCHANGED <<high, work, workerVars, taskVars, hpc, charges>>

-----------------------------------------------------------------------------
(* memory_high_write.                                                      *)

HighWrite(h) ==
  /\ hpc = "idle"
  /\ high' = h
  /\ hpc' = "schedule"
  /\ UNCHANGED <<memory, work, workerVars, taskVars, charges>>

\* Mutant: the new limit waits for the next charge.
HighSchedule_Skipped ==
  /\ hpc = "schedule"
  /\ hpc' = "idle"
  /\ UNCHANGED <<memory, high, work, workerVars, taskVars, charges>>

HighSchedule ==
  /\ hpc = "schedule"
  /\ work' = TRUE
  /\ hpc' = "idle"
  /\ UNCHANGED <<memory, high, workerVars, taskVars, charges>>

-----------------------------------------------------------------------------
(* high_work_func.                                                         *)

WorkStart ==
  /\ wpc = "idle" /\ work
  /\ work' = FALSE
  /\ wpc' = "readhigh"
  /\ UNCHANGED <<memory, high, whigh, wmem, taskVars, hpc, charges>>

WorkReadHigh ==
  /\ wpc = "readhigh"
  /\ whigh' = high
  /\ wpc' = "readmem"
  /\ UNCHANGED <<memory, high, work, wmem, taskVars, hpc, charges>>

WorkReadMemory ==
  /\ wpc = "readmem"
  /\ wmem' = memory
  /\ wpc' = IF memory > whigh THEN "reclaim" ELSE "recheck"
  /\ UNCHANGED <<memory, high, work, whigh, taskVars, hpc, charges>>

WorkReclaim(k) ==
  /\ wpc = "reclaim"
  /\ ReclaimHigh(LesserOf(wmem - whigh, MaxOffload), k)
  /\ wpc' = "recheck"
  /\ UNCHANGED <<high, work, whigh, wmem, taskVars, hpc, charges>>

WorkRecheckMemory ==
  /\ wpc = "recheck"
  /\ wmem' = memory
  /\ wpc' = "resched"
  /\ UNCHANGED <<memory, high, work, whigh, taskVars, hpc, charges>>

\* Mutant: one round of reclaim per scheduling, as before the patch.
WorkResched_Never ==
  /\ wpc = "resched"
  /\ wpc' = "idle"
  /\ UNCHANGED <<memory, high, work, whigh, wmem, taskVars, hpc, charges>>

\* Still above the limit, as it is by now: the work schedules itself.
WorkResched ==
  /\ wpc = "resched"
  /\ work' = (work \/ wmem > high)
  /\ wpc' = "idle"
  /\ UNCHANGED <<memory, high, whigh, wmem, taskVars, hpc, charges>>

-----------------------------------------------------------------------------
Worker ==
  \/ WorkStart \/ WorkReadHigh \/ WorkReadMemory
  \/ WorkRecheckMemory \/ WorkResched

TaskStep(t) == ReadHigh(t) \/ CheckHigh(t)

Next ==
  \/ Worker \/ \E k \in 0..MaxOffload : WorkReclaim(k)
  \/ \E t \in Tasks, n \in 1..Batch : Charge(t, n)
  \/ \E t \in Tasks : TaskStep(t)
  \/ \E t \in Tasks : \E k \in 0..debt[t] : HandleOverHigh(t, k)
  \/ Uncharge
  \/ \E h \in Highs : HighWrite(h)
  \/ HighSchedule

Spec == Init /\ [][Next]_vars

(* Fairness. The worker and a task inside try_charge keep running, and a   *)
(* write to memory.high finishes. Reclaim may evict nothing now and then,  *)
(* but not for ever: there is room in far memory.                          *)
Fairness ==
  /\ WF_vars(Worker)
  /\ SF_vars(\E k \in 1..MaxOffload : WorkReclaim(k))
  /\ \A t \in Tasks : WF_vars(TaskStep(t))
  /\ WF_vars(HighSchedule)

FairSpec == Spec /\ Fairness

-----------------------------------------------------------------------------
(* Properties.                                                             *)

\* Every variable keeps its type; the page counter never goes below zero,
\* whoever evicts concurrently.
TypeOK ==
  /\ memory \in Nat /\ high \in Highs /\ work \in BOOLEAN
  /\ wpc \in {"idle", "readhigh", "readmem", "reclaim", "recheck", "resched"}
  /\ whigh \in Highs \cup {0} /\ wmem \in Nat
  /\ tpc \in [Tasks -> {"run", "readhigh", "readcurr"}]
  /\ thigh \in [Tasks -> Highs \cup {0}] /\ debt \in [Tasks -> Nat]
  /\ hpc \in {"idle", "schedule"} /\ charges \in 0..MaxCharges

\* Somebody will look at the limit again: the work is pending or has not yet
\* made its last check, a task has charged and not yet checked, or the writer
\* of memory.high has not yet scheduled the work.
Attended ==
  work \/ wpc # "idle" \/ hpc # "idle" \/ \E t \in Tasks : tpc[t] # "run"

\* No lost wake-up: a cgroup above memory.high is never left to itself,
\* although counter, limit and pending bit are read and written without a
\* lock. This needs that all tasks together cannot charge more than
\* MAX_RECLAIM_OFFLOAD at once; a larger crowd can all take the branch of
\* try_charge that does not schedule the work.
OverHighAttended == memory > high => Attended

\* "concurrent eviction on shrink": a cgroup above its limit gets below it
\* once its tasks stop charging, whatever is written to memory.high meanwhile.
OverHighEnds == memory > high ~> memory <= high
=============================================================================
