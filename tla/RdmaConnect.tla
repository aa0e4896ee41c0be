----------------------------- MODULE RdmaConnect -----------------------------
(***************************************************************************)
(* Connection set-up and tear-down between the driver                      *)
(* (code/drivers/fastswap_rdma.c: module init, init_queues, the CM event   *)
(* handler, recv_remotemr, module exit) and the far memory server          *)
(* (code/farmemserver/rmserver.c: its two event loops and its handlers).   *)
(*                                                                         *)
(* The RDMA connection manager between them (external) carries REQ, REP,   *)
(* RTU, REJ and DREQ messages of numbered connections, in any order except *)
(* that requests arrive in the order they were sent; every rdma_create_id  *)
(* of the client is a new connection. A server queue is named by its index *)
(* in gctrl->queues. The administrator starts the server, and starts it    *)
(* again after it has ended, only while the driver is not loaded.          *)
(***************************************************************************)
EXTENDS QueueIndex, FiniteSets

CONSTANTS
  Procs,        \* values of the server's argument "cpu num in client"
  MaxAttempts,  \* bound on the number of times the module is loaded
  FaultKinds,   \* faults explored: "timeout", "cm", "resource" (the client
                \* runs out of something), "server" (a TEST_Z or TEST_NZ fails)
  MaxFaults     \* bound on their number

ASSUME ConnectAssumption ==
  /\ Procs \subseteq Nat \ {0} /\ MaxAttempts \in Nat /\ MaxFaults \in Nat
  /\ FaultKinds \subseteq {"timeout", "cm", "resource", "server"}

VARIABLES
  cpc,        \* where the client is: unloaded, start, wait, destroy, unwind,
              \* remotemr, postrecv, waitmr, ready, cleanup
  qi,         \* the loop index i of init_queues and stopandfree_queues
  conn,       \* connection of each client queue (0: none)
  qtype,      \* queue->qp_type
  cmError,    \* queue->cm_error of the queue being connected
  cmDone,     \* its completion cm_done
  attempts,   \* module loads so far
  faults,     \* faults so far
  last,       \* last connection number used
  cst,        \* client's state of each connection
  ib,         \* what each connection owns of {"cq", "qp"}
  net,        \* messages in flight, <<kind, connection>>
  smode,      \* server: down, loop1, loop2, exited, died, or overrun
  NUM_QUEUES, \* size of its queue array
  si,         \* server's first loop index i
  queue_ctr,  \* server's queue counter
  sstate,     \* queue::INIT or queue::CONNECTED
  squeue,     \* server queue of each connection (-1: none)
  region,     \* connections on which the memory region has been sent
  buffer,     \* its buffer: none, registered or freed
  sloads,     \* history: loads of the driver since the server was started
  handler,    \* load whose CM handler a connection's events call (0: none)
  fate,       \* history: what became of each load: loaded, removed by rmmod,
              \* refused, or failed for want of the memory region (noregion)
  kept,       \* what of each load is still allocated: its request cache, its
              \* ctrl, its queue array, its protection domain (with the rdev)
  crashed     \* the client has called code that is gone or followed a NULL
              \* pointer; nothing that follows is modelled

clientVars == <<cpc, qi, conn, qtype, cmError, cmDone, attempts>>
connVars   == <<last, cst, ib>>
loadVars   == <<handler, fate, kept, crashed>>
serverVars == <<smode, NUM_QUEUES, si, queue_ctr, sstate, squeue, region, buffer,
                sloads>>
vars == <<clientVars, faults, connVars, net, serverVars,
                 loadVars>>

ClientQueues == 0..numqueues - 1
ServerQueues == 0..NUM_QUEUES - 1
Loads == 1..MaxAttempts
Conns == 1..(MaxAttempts * numqueues)

Init ==
  /\ cpc = "unloaded" /\ qi = 0 /\ attempts = 0
  /\ conn = [i \in ClientQueues |-> 0]
  /\ qtype = [i \in ClientQueues |-> "none"]
  /\ cmError = "none" /\ cmDone = FALSE
  /\ faults = 0 /\ last = 0
  /\ cst = [n \in Conns |-> "none"] /\ ib = [n \in Conns |-> {}]
  /\ net = {}
  /\ smode = "down" /\ NUM_QUEUES = 0 /\ si = 0 /\ queue_ctr = 0
  /\ sstate = <<>> /\ squeue = [n \in Conns |-> -1]
  /\ region = {} /\ buffer = "none" /\ sloads = 0
  /\ handler = [n \in Conns |-> 0] /\ fate = [l \in Loads |-> "none"]
  /\ kept = [l \in Loads |-> {}] /\ crashed = FALSE

Fault(kind) ==
  /\ kind \in FaultKinds /\ faults < MaxFaults
  /\ faults' = faults + 1

ServerUp == smode \in {"loop1", "loop2"}

-----------------------------------------------------------------------------
(* Client: sswap_rdma_init_queue and the CM handler.                       *)

\* The connection of the queue being set up.
Current == conn[qi]

\* What a new load comes to at once, and what it has allocated.
NewLoad(what, objects) ==
  /\ fate' = [fate EXCEPT ![attempts + 1] = what]
  /\ kept' = [kept EXCEPT ![attempts + 1] = objects]

\* insmod fails before its first queue, and frees nothing.
Refused(objects) ==
  /\ Fault("resource")
  /\ NewLoad("refused", objects)
  /\ UNCHANGED <<cpc, qi, sloads, crashed>>

\* sswap_rdma_create_ctrl goes on to its first queue, or fails for want of
\* memory for ctrl or of a good address. It does not look at what its
\* allocation of the queue array returns: the first queue is then at NULL.
sswap_rdma_create_ctrl ==
  \/ /\ cpc' = "start" /\ qi' = 0 /\ sloads' = sloads + 1
     /\ \/ /\ NewLoad("loaded", {"cache", "ctrl", "queues"})
           /\ UNCHANGED <<faults, crashed>>
        \/ /\ Fault("resource")
           /\ NewLoad("loaded", {"cache", "ctrl"})
           /\ crashed' = TRUE
  \/ Refused({"cache"})
  \/ Refused({"cache", "ctrl", "queues"})
  \/ Refused({"cache", "ctrl"})

\* insmod: sswap_rdma_init_module, whose first step makes the request cache.
InsMod ==
  /\ cpc = "unloaded" /\ attempts < MaxAttempts
  /\ attempts' = attempts + 1
  /\ sswap_rdma_create_ctrl \/ Refused({})
  /\ UNCHANGED <<conn, qtype, cmError, cmDone, connVars, net, smode, NUM_QUEUES,
                 si, queue_ctr, sstate, squeue, region, buffer, handler>>

\* sswap_rdma_init_queue up to the wait: rdma_create_id and rdma_resolve_addr
\* succeed, or one of them refuses.
StartQueue ==
  /\ cpc = "start"
  /\ qtype' = [qtype EXCEPT ![qi] = get_queue_type(qi)]
  /\ cmDone' = FALSE
  /\ \/ /\ Fault("resource")
        /\ cpc' = "unwind"
        /\ UNCHANGED <<conn, cmError, last, cst, handler>>
     \/ /\ last' = last + 1
        /\ handler' = [handler EXCEPT ![last + 1] = attempts]
        /\ conn' = [conn EXCEPT ![qi] = last + 1]
        /\ cmError' = "ETIMEDOUT"
        /\ \/ /\ cpc' = "wait"
              /\ cst' = [cst EXCEPT ![last + 1] = "address"]
              /\ UNCHANGED faults
           \/ /\ Fault("resource")
              /\ cpc' = "destroy"
              /\ cst' = [cst EXCEPT ![last + 1] = "stuck"]
  /\ UNCHANGED <<qi, attempts, ib, net, serverVars, fate, kept, crashed>>

\* RDMA_CM_EVENT_ADDR_RESOLVED: get_device, create_queue_ib (completion queue,
\* then queue pair) and rdma_resolve_route. The first call of get_device
\* allocates the protection domain of the load, or fails and is reported. A
\* failure of create_queue_ib frees the queue's objects and is reported; one of
\* rdma_resolve_route frees the completion queue only, is not reported and
\* leaves the connection stuck. Neither frees the protection domain.
AddrResolved(n) ==
  /\ cst[n] = "address"
  /\ \/ /\ cst' = [cst EXCEPT ![n] = "route"]
        /\ ib' = [ib EXCEPT ![n] = {"cq", "qp"}]
        /\ kept' = [kept EXCEPT ![handler[n]] = @ \cup {"pd"}]
        /\ UNCHANGED <<cmError, cmDone, faults>>
     \/ /\ Fault("resource")
        /\ cst' = [cst EXCEPT ![n] = "stuck"]
        /\ cmError' = "ENODEV" /\ cmDone' = TRUE
        /\ \/ "pd" \notin kept[handler[n]] /\ UNCHANGED kept
           \/ kept' = [kept EXCEPT ![handler[n]] = @ \cup {"pd"}]
        /\ UNCHANGED ib
     \/ /\ Fault("resource")
        /\ cst' = [cst EXCEPT ![n] = "stuck"]
        /\ ib' = [ib EXCEPT ![n] = {"qp"}]
        /\ kept' = [kept EXCEPT ![handler[n]] = @ \cup {"pd"}]
        /\ UNCHANGED <<cmError, cmDone>>
  /\ UNCHANGED <<cpc, qi, conn, qtype, attempts, last, net, serverVars, handler,
                 fate, crashed>>

\* RDMA_CM_EVENT_ROUTE_RESOLVED: rdma_connect, whose failure is handled like
\* that of rdma_resolve_route.
RouteResolved(n) ==
  /\ cst[n] = "route"
  /\ \/ /\ cst' = [cst EXCEPT ![n] = "request"]
        /\ net' = net \cup {<<"REQ", n>>}
        /\ UNCHANGED <<faults, ib>>
     \/ /\ Fault("resource")
        /\ cst' = [cst EXCEPT ![n] = "stuck"]
        /\ ib' = [ib EXCEPT ![n] = {"qp"}]
        /\ UNCHANGED net
  /\ UNCHANGED <<clientVars, last, serverVars, loadVars>>

\* ADDR_ERROR, ROUTE_ERROR, CONNECT_ERROR or UNREACHABLE.
CmErrorEvent(n) ==
  /\ cst[n] \in {"address", "route", "request"}
  /\ Fault("cm")
  /\ cst' = [cst EXCEPT ![n] = "stuck"]
  /\ cmError' = "ECONNRESET" /\ cmDone' = TRUE
  /\ UNCHANGED <<cpc, qi, conn, qtype, attempts, last, ib, net, serverVars, loadVars>>

\* REJECTED, because nobody listens: only logged.
Rejected(n) ==
  /\ cst[n] = "request" /\ ~ServerUp
  /\ cst' = [cst EXCEPT ![n] = "stuck"]
  /\ UNCHANGED <<clientVars, faults, last, ib, net, serverVars, loadVars>>

\* ESTABLISHED: the reply arrived, and the ready-to-use message goes out.
Established(n) ==
  /\ cst[n] = "request" /\ <<"REP", n>> \in net
  /\ cst' = [cst EXCEPT ![n] = "established"]
  /\ net' = (net \ {<<"REP", n>>}) \cup {<<"RTU", n>>}
  /\ cmError' = "none" /\ cmDone' = TRUE
  /\ UNCHANGED <<cpc, qi, conn, qtype, attempts, faults, last, ib, serverVars,
                 loadVars>>

-----------------------------------------------------------------------------
(* Client: the rest of module init and module exit.                        *)

\* sswap_rdma_wait_for_cm returns, on the completion, on its timeout or on a
\* signal, and reads cm_error. A stuck connection can only time out.
WaitEnds ==
  \/ cmDone /\ UNCHANGED faults
  \/ ~cmDone /\ cst[Current] = "stuck" /\ UNCHANGED faults
  \/ ~cmDone /\ cst[Current] # "stuck" /\ Fault("timeout")

\* Mutant: init_queues goes one queue too far.
QueueUp_OffByOne ==
  /\ cpc = "wait" /\ WaitEnds /\ cmError = "none"
  /\ qi' = qi + 1
  /\ cpc' = IF qi < numqueues THEN "start" ELSE "remotemr"
  /\ UNCHANGED <<conn, qtype, cmError, cmDone, attempts, connVars, net, serverVars,
                 loadVars>>

\* Mutant: a wait that timed out counts as success.
QueueUp_TimeoutIsSuccess ==
  /\ cpc = "wait" /\ WaitEnds /\ cmError \in {"none", "ETIMEDOUT"}
  /\ qi' = qi + 1
  /\ cpc' = IF qi + 1 < numqueues THEN "start" ELSE "remotemr"
  /\ UNCHANGED <<conn, qtype, cmError, cmDone, attempts, connVars, net, serverVars,
                 loadVars>>

\* The queue is up: init_queues goes to the next one.
QueueUp ==
  /\ cpc = "wait" /\ WaitEnds /\ cmError = "none"
  /\ qi' = qi + 1
  /\ cpc' = IF qi + 1 < numqueues THEN "start" ELSE "remotemr"
  /\ UNCHANGED <<conn, qtype, cmError, cmDone, attempts, connVars, net, serverVars,
                 loadVars>>

QueueDown ==
  /\ cpc = "wait" /\ WaitEnds /\ cmError # "none"
  /\ cpc' = "destroy"
  /\ UNCHANGED <<qi, conn, qtype, cmError, cmDone, attempts, connVars, net,
                 serverVars, loadVars>>

\* rdma_disconnect or rdma_destroy_id: the peer of an established connection
\* gets a DREQ, of a requested one a REJ.
Close(n) ==
  /\ cst' = [cst EXCEPT ![n] = "closed"]
  /\ net' = net
            \cup (IF cst[n] = "established" THEN {<<"DREQ", n>>} ELSE {})
            \cup (IF cst[n] = "request" THEN {<<"REJ", n>>} ELSE {})

\* out_destroy_cm_id: the queue pair and the completion queue stay behind.
DestroyCmId ==
  /\ cpc = "destroy"
  /\ cpc' = "unwind"
  /\ Close(Current)
  /\ UNCHANGED <<qi, conn, qtype, cmError, cmDone, attempts, faults, last, ib,
                 serverVars, loadVars>>

\* Mutant: a queue is stopped, but its queue pair and completion queue stay.
StopAndFreeQueue_OnlyStop(i) == Close(conn[i]) /\ UNCHANGED ib

\* sswap_rdma_stop_queue and sswap_rdma_free_queue of queue i.
StopAndFreeQueue(i) ==
  /\ Close(conn[i])
  /\ ib' = [ib EXCEPT ![conn[i]] = {}]

\* What becomes of the present load.
Ends(what) == fate' = [fate EXCEPT ![attempts] = what]

\* Mutant: the unwinding loop stops before queue 0.
Unwind_KeepsFirst ==
  /\ cpc = "unwind"
  /\ \/ /\ qi > 1 /\ qi' = qi - 1 /\ StopAndFreeQueue(qi - 1)
        /\ UNCHANGED <<cpc, fate>>
     \/ /\ qi <= 1 /\ cpc' = "unloaded" /\ Ends("refused")
        /\ UNCHANGED <<qi, cst, ib, net>>
  /\ UNCHANGED <<conn, qtype, cmError, cmDone, attempts, faults, last, serverVars,
                 handler, kept, crashed>>

\* The out_free_queues loop of sswap_rdma_init_queues; then insmod fails, and
\* frees nothing else.
Unwind ==
  /\ cpc = "unwind"
  /\ \/ /\ qi > 0 /\ qi' = qi - 1 /\ StopAndFreeQueue(qi - 1)
        /\ UNCHANGED <<cpc, fate>>
     \/ /\ qi = 0 /\ cpc' = "unloaded" /\ Ends("refused")
        /\ UNCHANGED <<qi, cst, ib, net>>
  /\ UNCHANGED <<conn, qtype, cmError, cmDone, attempts, faults, last, serverVars,
                 handler, kept, crashed>>

\* sswap_rdma_recv_remotemr fails and insmod with it: init_module returns with
\* every queue connected, and the module and its CM handler are gone.
LeaveQueues ==
  /\ Fault("resource")
  /\ cpc' = "unloaded" /\ qi' = 0
  /\ Ends("noregion")
  /\ UNCHANGED crashed

\* get_req_for_buf of ctrl->servermr. Without memory it follows a NULL pointer
\* (it tests req, not *req); a failed mapping frees the wrong pointer.
GetReqForBuf ==
  /\ cpc = "remotemr"
  /\ \/ cpc' = "postrecv" /\ UNCHANGED <<qi, faults, fate, crashed>>
     \/ LeaveQueues
     \/ Fault("resource") /\ crashed' = TRUE /\ UNCHANGED <<cpc, qi, fate>>
  /\ UNCHANGED <<conn, qtype, cmError, cmDone, attempts, connVars, net, serverVars,
                 handler, kept>>

\* sswap_rdma_post_recv; recv_remotemr frees its request if it fails.
PostRecv ==
  /\ cpc = "postrecv"
  /\ \/ cpc' = "waitmr" /\ UNCHANGED <<qi, faults, fate, crashed>>
     \/ LeaveQueues
  /\ UNCHANGED <<conn, qtype, cmError, cmDone, attempts, connVars, net, serverVars,
                 handler, kept>>

\* Mutant: sswap_rdma_wait_completion gives up after some time.
RegionReceived_GivesUp ==
  /\ cpc = "waitmr"
  /\ cpc' = "ready"
  /\ UNCHANGED <<qi, conn, qtype, cmError, cmDone, attempts, faults, connVars,
                 net, serverVars, loadVars>>

\* The memory region arrives on queue 0. The server's send waits for the
\* receive to be posted, because both sides ask for unlimited RNR retries. A
\* failed receive (recv_remotemr_done) does not end the wait.
RegionReceived ==
  /\ cpc = "waitmr"
  /\ conn[0] \in region
  /\ cpc' = "ready"
  /\ UNCHANGED <<qi, conn, qtype, cmError, cmDone, attempts, faults, connVars,
                 net, serverVars, loadVars>>

\* rmmod: sswap_rdma_cleanup_module.
RmMod ==
  /\ cpc = "ready"
  /\ cpc' = "cleanup" /\ qi' = 0
  /\ UNCHANGED <<conn, qtype, cmError, cmDone, attempts, faults, connVars, net,
                 serverVars, loadVars>>

\* stopandfree_queues; then ctrl and the request cache are freed, but neither
\* the queue array nor what get_device allocated.
StopAndFree ==
  /\ cpc = "cleanup"
  /\ \/ /\ qi < numqueues /\ qi' = qi + 1 /\ StopAndFreeQueue(qi)
        /\ UNCHANGED <<cpc, fate, kept>>
     \/ /\ qi = numqueues /\ cpc' = "unloaded" /\ qi' = 0 /\ Ends("removed")
        /\ kept' = [kept EXCEPT ![attempts] = @ \ {"ctrl", "cache"}]
        /\ UNCHANGED <<cst, ib, net>>
  /\ UNCHANGED <<conn, qtype, cmError, cmDone, attempts, faults, last, serverVars,
                 handler, crashed>>

\* The module whose CM handler the events of connection n call is gone.
HandlerGone(n) == cpc = "unloaded" \/ handler[n] < attempts

\* DISCONNECTED: the server of an established connection has ended. The handler
\* only logs it, if it is still there.
Disconnected(n) ==
  /\ cst[n] = "established" /\ HandlerGone(n)
  /\ ~(ServerUp /\ squeue[n] \in ServerQueues)
  /\ crashed' = TRUE
  /\ UNCHANGED <<clientVars, faults, connVars, net, serverVars, handler, fate, kept>>

-----------------------------------------------------------------------------
(* Server: main's loops around on_event.                                   *)

alloc_control(n) == sstate' = [q \in 0..n - 1 |-> "INIT"]

\* main up to its loops: arguments, alloc_control, bind, listen.
StartServer ==
  /\ cpc = "unloaded" /\ ~ServerUp
  /\ \/ smode' = "loop1" /\ UNCHANGED faults
     \/ smode' = "died" /\ Fault("server")
  /\ \E procs \in Procs : NUM_QUEUES' = procs * 3
  /\ alloc_control(NUM_QUEUES')
  /\ si' = 0 /\ queue_ctr' = 0 /\ squeue' = [n \in Conns |-> -1]
  /\ region' = {} /\ buffer' = "none" /\ sloads' = 0
  /\ net' = {}
  /\ UNCHANGED <<clientVars, connVars, loadVars>>

\* Mutant: main has no second loop.
LoopControl_NoSecondLoop(ret, st, buf) ==
  IF smode = "loop1"
  THEN LET next == ret # 0 \/ st[si] = "CONNECTED"
           ends == next /\ si + 1 = NUM_QUEUES
       IN  /\ si' = IF next THEN si + 1 ELSE si
           /\ smode' = IF ends THEN "exited" ELSE smode
           /\ buffer' = IF ends THEN "freed" ELSE buf
  ELSE UNCHANGED <<si, smode, buffer>>

\* After an event whose handler returned ret and left the queues' states as in
\* st and the buffer as buf: the first loop goes to its next queue, the second
\* one ends, and the server frees its buffer (destroy_device) and exits.
LoopControl(ret, st, buf) ==
  IF smode = "loop1"
  THEN LET next == ret # 0 \/ st[si] = "CONNECTED"
       IN  /\ si' = IF next THEN si + 1 ELSE si
           /\ smode' = IF next /\ si + 1 = NUM_QUEUES THEN "loop2" ELSE smode
           /\ buffer' = buf
  ELSE /\ si' = si
       /\ smode' = IF ret # 0 THEN "exited" ELSE smode
       /\ buffer' = IF ret # 0 THEN "freed" ELSE buf

\* A TEST_Z or TEST_NZ fails: die, and with the process its buffer is gone.
Die ==
  /\ smode' = "died" /\ buffer' = "freed"
  /\ UNCHANGED <<si, sstate, squeue, region>>

\* The buffer after get_device, whose first call allocates and registers it.
get_device == IF buffer = "none" THEN "registered" ELSE buffer

\* The next event is the connection request n.
Requested(n) ==
  /\ ServerUp /\ <<"REQ", n>> \in net
  /\ \A m \in 1..n - 1 : <<"REQ", m>> \notin net

\* Mutant: queues[++queue_ctr] where the code has queues[queue_ctr++].
OnConnectRequest_PreIncrement(n) ==
  /\ Requested(n)
  /\ queue_ctr' = queue_ctr + 1
  /\ \/ /\ queue_ctr' >= NUM_QUEUES
        /\ smode' = "overrun"
        /\ net' = net \ {<<"REQ", n>>}
        /\ UNCHANGED <<si, sstate, squeue, buffer>>
     \/ /\ queue_ctr' < NUM_QUEUES
        /\ squeue' = [squeue EXCEPT ![n] = queue_ctr']
        /\ net' = (net \ {<<"REQ", n>>}) \cup {<<"REP", n>>}
        /\ LoopControl(0, sstate, get_device)
        /\ UNCHANGED sstate
  /\ UNCHANGED <<clientVars, faults, connVars, loadVars, NUM_QUEUES, region, sloads>>

\* CONNECT_REQUEST: on_connect_request takes the next queue, whether or not
\* there is one, makes sure of the buffer and accepts. The server dies when
\* something fails on the way: an allocation, or the accept of a request its
\* client has given up.
OnConnectRequest(n) ==
  /\ Requested(n)
  /\ queue_ctr' = queue_ctr + 1
  /\ \/ /\ queue_ctr >= NUM_QUEUES
        /\ smode' = "overrun"
        /\ net' = net \ {<<"REQ", n>>}
        /\ UNCHANGED <<faults, si, sstate, squeue, region, buffer>>
     \/ /\ queue_ctr < NUM_QUEUES
        /\ \/ <<"REJ", n>> \in net /\ UNCHANGED faults
           \/ Fault("server")
        /\ net' = net \ {<<"REQ", n>>}
        /\ Die
     \/ /\ queue_ctr < NUM_QUEUES
        /\ squeue' = [squeue EXCEPT ![n] = queue_ctr]
        /\ net' = (net \ {<<"REQ", n>>}) \cup {<<"REP", n>>}
        /\ LoopControl(0, sstate, get_device)
        /\ UNCHANGED <<faults, sstate, region>>
  /\ UNCHANGED <<clientVars, connVars, loadVars, NUM_QUEUES, sloads>>

Connected(n) == ServerUp /\ <<"RTU", n>> \in net /\ squeue[n] \in ServerQueues

\* Mutant: no RNR retry, a region sent before the receive is posted is lost.
OnConnection_NoRnrRetry(n) ==
  /\ Connected(n)
  /\ net' = net \ {<<"RTU", n>>}
  /\ sstate' = [sstate EXCEPT ![squeue[n]] = "CONNECTED"]
  /\ region' = IF squeue[n] = 0 /\ cpc = "waitmr" THEN region \cup {n} ELSE region
  /\ LoopControl(0, sstate', buffer)
  /\ UNCHANGED <<clientVars, faults, connVars, loadVars, NUM_QUEUES, queue_ctr,
                 squeue, sloads>>

\* ESTABLISHED: on_connection; queue 0 sends the memory region, or dies trying.
OnConnection(n) ==
  /\ Connected(n)
  /\ net' = net \ {<<"RTU", n>>}
  /\ \/ /\ sstate' = [sstate EXCEPT ![squeue[n]] = "CONNECTED"]
        /\ region' = IF squeue[n] = 0 THEN region \cup {n} ELSE region
        /\ LoopControl(0, sstate', buffer)
        /\ UNCHANGED <<faults, squeue>>
     \/ squeue[n] = 0 /\ Fault("server") /\ Die
  /\ UNCHANGED <<clientVars, connVars, loadVars, NUM_QUEUES, queue_ctr, sloads>>

\* DISCONNECTED: on_disconnect, and on_event returns 1. A ready-to-use
\* message overtaken by it is dropped.
OnDisconnect(n) ==
  /\ ServerUp /\ <<"DREQ", n>> \in net
  /\ net' = net \ {<<"DREQ", n>>, <<"RTU", n>>}
  /\ sstate' = [sstate EXCEPT ![squeue[n]] = "INIT"]
  /\ LoopControl(1, sstate', buffer)
  /\ UNCHANGED <<clientVars, faults, connVars, loadVars, NUM_QUEUES, queue_ctr, squeue,
                 region, sloads>>

\* A reply that is rejected, or that its client no longer answers, is an
\* "unknown event": on_event returns 1.
OnUnknownEvent(n) ==
  /\ ServerUp /\ <<"REQ", n>> \notin net
  /\ \/ <<"REJ", n>> \in net
     \/ <<"REP", n>> \in net /\ cst[n] \in {"stuck", "closed"}
  /\ net' = net \ {<<"REJ", n>>, <<"REP", n>>}
  /\ LoopControl(1, sstate, buffer)
  /\ UNCHANGED <<clientVars, faults, connVars, loadVars, NUM_QUEUES, queue_ctr, sstate,
                 squeue, region, sloads>>

-----------------------------------------------------------------------------
ClientHandler ==
  \E n \in Conns :
    AddrResolved(n) \/ RouteResolved(n) \/ CmErrorEvent(n) \/ Rejected(n)
    \/ Established(n) \/ Disconnected(n)

ClientStep ==
  \/ InsMod \/ StartQueue \/ QueueUp \/ QueueDown \/ DestroyCmId \/ Unwind
  \/ GetReqForBuf \/ PostRecv \/ RegionReceived \/ RmMod \/ StopAndFree

ServerStep ==
  \E n \in Conns :
    OnConnectRequest(n) \/ OnConnection(n) \/ OnDisconnect(n) \/ OnUnknownEvent(n)

Next == ~crashed /\ (ClientHandler \/ ClientStep \/ StartServer \/ ServerStep)

Spec == Init /\ [][Next]_vars

\* Events are delivered, the server keeps taking them, and a started insmod
\* keeps running; loading and unloading the module and starting the server are
\* the administrator's.
Fairness ==
  /\ WF_vars(~crashed /\ ClientHandler) /\ WF_vars(~crashed /\ ServerStep)
  /\ WF_vars(~crashed /\ StartQueue) /\ WF_vars(~crashed /\ QueueUp)
  /\ WF_vars(~crashed /\ QueueDown) /\ WF_vars(~crashed /\ DestroyCmId)
  /\ WF_vars(~crashed /\ Unwind) /\ WF_vars(~crashed /\ GetReqForBuf)
  /\ WF_vars(~crashed /\ PostRecv) /\ WF_vars(~crashed /\ RegionReceived)
  /\ WF_vars(~crashed /\ StopAndFree)

FairSpec == Spec /\ Fairness

-----------------------------------------------------------------------------
(* Properties.                                                             *)

\* Every variable keeps its type, and a load makes no more connections than it
\* has queues.
TypeOK ==
  /\ cpc \in {"unloaded", "start", "wait", "destroy", "unwind", "remotemr",
              "postrecv", "waitmr", "ready", "cleanup"}
  /\ qi \in 0..numqueues
  /\ conn \in [ClientQueues -> Conns \cup {0}]
  /\ qtype \in [ClientQueues -> QueueTypes \cup {"none"}]
  /\ cmError \in {"none", "ETIMEDOUT", "ENODEV", "ECONNRESET"} /\ cmDone \in BOOLEAN
  /\ attempts \in 0..MaxAttempts /\ faults \in 0..MaxFaults
  /\ last \in 0..attempts * numqueues
  /\ cst \in [Conns -> {"none", "address", "route", "request", "established",
                        "stuck", "closed"}]
  /\ ib \in [Conns -> SUBSET {"cq", "qp"}]
  /\ net \subseteq {"REQ", "REP", "RTU", "REJ", "DREQ"} \X Conns
  /\ smode \in {"down", "loop1", "loop2", "exited", "died", "overrun"}
  /\ NUM_QUEUES \in {0} \cup {procs * 3 : procs \in Procs}
  /\ si \in 0..NUM_QUEUES /\ queue_ctr \in Nat
  /\ sstate \in [ServerQueues -> {"INIT", "CONNECTED"}]
  /\ squeue \in [Conns -> ServerQueues \cup {-1}]
  /\ region \subseteq Conns /\ buffer \in {"none", "registered", "freed"}
  /\ sloads \in 0..MaxAttempts
  /\ handler \in [Conns -> 0..MaxAttempts]
  /\ fate \in [Loads -> {"none", "loaded", "removed", "refused", "noregion"}]
  /\ kept \in [Loads -> SUBSET {"cache", "ctrl", "queues", "pd"}]
  /\ crashed \in BOOLEAN

\* A driver that reports "ctrl is ready for reqs" has connected its queue i to
\* the server's queue i for every i, and holds the region that server sent,
\* whatever failed and was retried before.
ReadyAligned ==
  cpc = "ready" =>
    /\ conn[0] \in region
    /\ \A i \in ClientQueues :
         cst[conn[i]] = "established" /\ squeue[conn[i]] = i

\* ... and that server is still there with the buffer the region describes: no
\* event of an earlier load or of this one has ended its loops.
ReadyServed == cpc = "ready" => ServerUp /\ buffer = "registered"

\* sswap_rdma_get_queue finds a queue of the type it was asked for.
QueueTable ==
  cpc = "ready" =>
    \A c \in 0..numcpus - 1, type \in QueueTypes :
      qtype[QueueNumber(c, type)] = type

\* A connection whose events would call the handler of a module that is gone is
\* one of a load that failed after all its queues were up (recv_remotemr, which
\* init_module does not clean up after). rmmod, and every other way in which
\* insmod fails, leaves none.
NoHandlerAfterUnload ==
  \A n \in Conns :
    cst[n] \notin {"none", "closed"} /\ HandlerGone(n)
      => fate[handler[n]] = "noregion"

\* Every queue that stopandfree or the unwinding of a failed load has yet to
\* free is connected and owns its queue pair and its completion queue: nothing
\* is freed twice and nothing that was never created.
FreeOwned ==
  \A i \in ClientQueues :
    \/ cpc = "unwind" /\ i < qi
    \/ cpc = "cleanup" /\ i >= qi
    => cst[conn[i]] = "established" /\ ib[conn[i]] = {"cq", "qp"}

\* What is lost of a load that is over. After rmmod, its queue array and its
\* protection domain, but no queue pair and no completion queue. After an
\* insmod that failed on a queue, the verbs objects of at most that queue, and
\* all else it has allocated. After one that failed in recv_remotemr,
\* everything: every queue it made is still connected.
LossesOfLoad ==
  \A l \in Loads :
    LET made == {n \in Conns : handler[n] = l}
    IN  /\ fate[l] = "removed" =>
             kept[l] = {"queues", "pd"} /\ \A n \in made : ib[n] = {}
        /\ fate[l] = "refused" /\ made # {} =>
             /\ {"cache", "ctrl", "queues"} \subseteq kept[l]
             /\ \A m, n \in made : ib[m] # {} /\ ib[n] # {} => m = n
        /\ fate[l] = "noregion" =>
             /\ kept[l] = {"cache", "ctrl", "queues", "pd"}
             /\ \A n \in made : cst[n] = "established" /\ ib[n] = {"cq", "qp"}

\* The first load after the server was started never runs it past its queue
\* array, whatever times out on the way, if the server was told of enough CPUs.
QueueCtrInRange ==
  sloads <= 1 /\ NUM_QUEUES >= numqueues => smode # "overrun"

\* The first load after the server was started ends: the driver gets ready, or
\* it fails and is gone, unless the client crashes or the server dies before it
\* sends the region.
InsModEnds ==
  cpc = "start" /\ sloads = 1
    ~> \/ cpc \in {"ready", "unloaded"} \/ crashed
       \/ cpc = "waitmr" /\ smode = "died"

\* "this delay doesn't really matter, only happens once": a driver that has
\* connected all its queues gets the memory region. It does not when an earlier
\* load of the module failed: the server's queue counter is never reset.
RegionArrives == cpc = "waitmr" ~> cpc = "ready"
=============================================================================
