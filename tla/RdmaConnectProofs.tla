-------------------------- MODULE RdmaConnectProofs --------------------------
(***************************************************************************)
(* Proofs about RdmaConnect, for any number of CPUs, of module loads and   *)
(* of faults. init_queues connects one queue at a time, so the connections *)
(* of a load are consecutive (NumberInv, ConsecutiveInv) and all but the   *)
(* one being set up are established or closed (StateInv). The server sees  *)
(* their requests in order (OrderInv), hence gives them consecutive queues *)
(* (SequenceInv), and sends the region on its queue 0 (RegionInv): a load  *)
(* that holds the region began at the server's queue 0, so no message of   *)
(* an earlier load is left that could end the server (UpInv). CountInv     *)
(* counts the requests of the first load. Only connections of the present  *)
(* load ever change (TouchStep), and PresentInv says what it has allocated *)
(* and given up, hence what it leaves behind when it ends.                 *)
(***************************************************************************)
EXTENDS RdmaConnect, TLAPS

\* init_queues has returned.
AllUp == {"remotemr", "postrecv", "waitmr", "ready"}

\* Queue qi is being connected, or given up.
Pending == cpc \in {"wait", "destroy"}

\* Queue i is connected: init_queues is past it, and neither its unwinding nor
\* module exit has stopped it.
Live(i) ==
  \/ cpc \in {"start", "wait", "destroy", "unwind"} /\ i < qi
  \/ cpc \in AllUp
  \/ cpc = "cleanup" /\ i >= qi

\* Connection n is one of the present load.
Mine(n) ==
  \/ \E i \in ClientQueues : Live(i) /\ conn[i] = n
  \/ Pending /\ conn[qi] = n

\* Connection n was left connected by a load that failed in recv_remotemr.
Orphan(n) ==
  /\ cst[n] = "established" /\ ib[n] = {"cq", "qp"}
  /\ handler[n] \in Loads /\ fate[handler[n]] = "noregion"

\* How many connections there are, and which queue has which.
NumberInv ==
  /\ cpc # "unloaded" => attempts > 0
  /\ cpc = "start" => qi < numqueues /\ last <= (attempts - 1) * numqueues + qi
  /\ Pending => /\ qi < numqueues /\ last > 0
                /\ last <= (attempts - 1) * numqueues + qi + 1
  /\ cpc = "unwind" => qi < numqueues
  /\ cpc \in AllUp => qi = numqueues

ConsecutiveInv ==
  /\ cpc \in AllUp \cup {"start"} =>
       \A i \in ClientQueues : i < qi => conn[i] = last + 1 + i - qi
  /\ Pending => \A i \in ClientQueues : i <= qi => conn[i] = last + i - qi
  /\ \A i \in ClientQueues : Live(i) => conn[i] \in 1..last
  /\ \A i, j \in ClientQueues : Live(i) /\ Live(j) /\ conn[i] = conn[j] => i = j

\* How far each connection is, as the client sees it.
StateInv ==
  /\ \A i \in ClientQueues :
       Live(i) => cst[conn[i]] = "established" /\ ib[conn[i]] = {"cq", "qp"}
  /\ Pending =>
       /\ cst[conn[qi]] \in {"address", "route", "request", "established", "stuck"}
       /\ cst[conn[qi]] \in {"route", "request", "established"}
            => ib[conn[qi]] = {"cq", "qp"}
       /\ cpc = "wait" /\ cmError = "none" => cst[conn[qi]] = "established"
  /\ \A n \in Conns : cst[n] \in {"none", "closed"} \/ Mine(n) \/ Orphan(n)
  /\ \A n \in Conns : n > last => cst[n] = "none"

QtypeInv ==
  \A i \in ClientQueues :
    Live(i) \/ (Pending /\ i = qi) => qtype[i] = get_queue_type(i)

-----------------------------------------------------------------------------
\* The type invariant in three parts.
ClientTypes ==
  /\ cpc \in {"unloaded", "start", "wait", "destroy", "unwind", "remotemr",
              "postrecv", "waitmr", "ready", "cleanup"}
  /\ qi \in 0..numqueues
  /\ conn \in [ClientQueues -> Conns \cup {0}]
  /\ qtype \in [ClientQueues -> QueueTypes \cup {"none"}]
  /\ cmError \in {"none", "ETIMEDOUT", "ENODEV", "ECONNRESET"} /\ cmDone \in BOOLEAN
  /\ attempts \in 0..MaxAttempts /\ faults \in 0..MaxFaults
  /\ last \in 0..attempts * numqueues
  /\ cst \in [Conns -> {"none", "address", "route", "request", "established",
                        "stuck", "closed"}]
  /\ ib \in [Conns -> SUBSET {"cq", "qp"}]
ServerTypes ==
  /\ net \subseteq {"REQ", "REP", "RTU", "REJ", "DREQ"} \X Conns
  /\ smode \in {"down", "loop1", "loop2", "exited", "died", "overrun"}
  /\ NUM_QUEUES \in {0} \cup {procs * 3 : procs \in Procs}
  /\ si \in 0..NUM_QUEUES /\ queue_ctr \in Nat
  /\ sstate \in [ServerQueues -> {"INIT", "CONNECTED"}]
  /\ squeue \in [Conns -> ServerQueues \cup {-1}]
  /\ region \subseteq Conns /\ buffer \in {"none", "registered", "freed"}
  /\ sloads \in 0..MaxAttempts
LoadTypes ==
  /\ handler \in [Conns -> 0..MaxAttempts]
  /\ fate \in [Loads -> {"none", "loaded", "removed", "refused", "noregion"}]
  /\ kept \in [Loads -> SUBSET {"cache", "ctrl", "queues", "pd"}]
  /\ crashed \in BOOLEAN

\* The parts of the type invariant make it up, before and after a step.
LEMMA TypeParts ==
  /\ TypeOK <=> ClientTypes /\ ServerTypes /\ LoadTypes
  /\ TypeOK' <=> ClientTypes' /\ ServerTypes' /\ LoadTypes'
  BY DEF TypeOK, ClientTypes, ServerTypes, LoadTypes

\* Which load each connection belongs to, and that the present one is not over.
LoadInv ==
  /\ LoadTypes
  /\ cpc # "unloaded" => fate[attempts] = "loaded"
  /\ \A n \in Conns : handler[n] <= attempts
  /\ \A n \in Conns : Mine(n) => handler[n] = attempts

ClientInv ==
  ClientTypes /\ LoadInv /\ NumberInv /\ ConsecutiveInv /\ StateInv /\ QtypeInv

\* There is a queue.
LEMMA QueuesNat == numqueues \in Nat \ {0}
  BY NumCpusAssumption DEF numqueues

\* There is a number for each connection of a load.
LEMMA Room ==
  ASSUME NEW a \in 1..MaxAttempts
  PROVE  /\ a * numqueues \in Nat /\ (a - 1) * numqueues \in Nat
         /\ (a - 1) * numqueues + numqueues = a * numqueues
         /\ a * numqueues <= MaxAttempts * numqueues
<1>1. \A x, y, z \in Nat : x <= y => x * z <= y * z
  OBVIOUS
<1>2. a \in Nat /\ a - 1 \in Nat /\ MaxAttempts \in Nat /\ a <= MaxAttempts
  BY ConnectAssumption
<1>3. \A x, z \in Nat : x * z \in Nat /\ (x + 1) * z = x * z + z
  OBVIOUS
<1>4. (a - 1) + 1 = a
  BY <1>2
<1> QED
  BY <1>1, <1>2, <1>3, <1>4, QueuesNat

\* What the server does is not seen by the client but as messages.
LEMMA ServerFrame ==
  ASSUME ServerStep \/ StartServer
  PROVE  UNCHANGED <<clientVars, connVars, loadVars>>
         /\ (UNCHANGED faults \/ \E k \in FaultKinds : Fault(k))
  BY DEF ServerStep, StartServer, OnConnectRequest, OnConnection, OnDisconnect,
       OnUnknownEvent, Fault

\* get_queue_type of a queue number is a queue type.
LEMMA TypeOfQueue == ASSUME NEW i \in ClientQueues PROVE get_queue_type(i) \in QueueTypes
  BY NumCpusAssumption DEF get_queue_type, QueueTypes, ClientQueues, numqueues

\* rdma_create_id finds a free number.
LEMMA FreshNumber ==
  ASSUME ClientInv, cpc = "start"
  PROVE  qi \in ClientQueues /\ last + 1 \in Conns /\ last + 1 <= attempts * numqueues
<1>1. attempts \in 1..MaxAttempts /\ qi < numqueues /\ qi \in 0..numqueues
  BY ConnectAssumption DEF ClientInv, ClientTypes, NumberInv
<1>2. last \in Nat
  BY <1>1, Room DEF ClientInv, ClientTypes
<1>3. last <= (attempts - 1) * numqueues + qi
  BY DEF ClientInv, NumberInv
<1>4. last + 1 <= attempts * numqueues /\ last + 1 <= MaxAttempts * numqueues
  <2>1. \A x, y, z, l, q, k \in Int :
          l <= x + q /\ q < k /\ x + k = y /\ y <= z => l + 1 <= y /\ l + 1 <= z
    OBVIOUS
  <2>2. (attempts - 1) * numqueues \in Int /\ attempts * numqueues \in Int
    BY <1>1, Room
  <2>3. MaxAttempts * numqueues \in Int /\ qi \in Int /\ last \in Int /\ numqueues \in Int
    BY <1>1, <1>2, ConnectAssumption, QueuesNat
  <2> QED
    BY <1>1, <1>3, <2>1, <2>2, <2>3, Room
<1>5. MaxAttempts * numqueues \in Int
  BY ConnectAssumption, QueuesNat
<1> QED
  BY <1>1, <1>2, <1>4, <1>5, QueuesNat DEF ClientQueues, Conns

\* What a failed recv_remotemr has left stays connected.
LEMMA OrphanStep ==
  ASSUME ClientInv, [Next]_vars, NEW n \in Conns, Orphan(n) PROVE Orphan(n)' \/ cst'[n] = "closed"
<1> USE ConnectAssumption, QueuesNat
<1> USE DEF vars, clientVars, connVars, serverVars, loadVars
<1>0. ClientTypes /\ LoadInv /\ NumberInv /\ ConsecutiveInv /\ StateInv /\ QtypeInv
  BY DEF ClientInv
<1>1. ASSUME NEW m \in Conns, AddrResolved(m) PROVE Orphan(n)' \/ cst'[n] = "closed"
  BY <1>0, <1>1 DEF AddrResolved, Fault, Orphan, LoadInv, LoadTypes, ClientTypes, Loads
<1>2. ASSUME NEW m \in Conns, RouteResolved(m) PROVE Orphan(n)' \/ cst'[n] = "closed"
  BY <1>0, <1>2 DEF RouteResolved, Fault, Orphan, LoadInv, LoadTypes, ClientTypes, Loads
<1>3. ASSUME NEW m \in Conns, CmErrorEvent(m) PROVE Orphan(n)' \/ cst'[n] = "closed"
  BY <1>0, <1>3 DEF CmErrorEvent, Fault, Orphan, LoadInv, LoadTypes, ClientTypes, Loads
<1>4. ASSUME NEW m \in Conns, Rejected(m) PROVE Orphan(n)' \/ cst'[n] = "closed"
  BY <1>0, <1>4 DEF Rejected, Fault, Orphan, LoadInv, LoadTypes, ClientTypes, Loads
<1>5. ASSUME NEW m \in Conns, Established(m) PROVE Orphan(n)' \/ cst'[n] = "closed"
  BY <1>0, <1>5 DEF Established, Fault, Orphan, LoadInv, LoadTypes, ClientTypes, Loads
<1>6. ASSUME InsMod PROVE Orphan(n)' \/ cst'[n] = "closed"
  BY <1>0, <1>6 DEF InsMod, sswap_rdma_create_ctrl, Refused, NewLoad, Fault, Orphan,
       LoadInv, LoadTypes, ClientTypes, Loads
<1>7. ASSUME StartQueue PROVE Orphan(n)' \/ cst'[n] = "closed"
  <2>1. last + 1 \in Conns /\ cst[last + 1] = "none" /\ last \in Nat
    BY <1>0, <1>7, FreshNumber DEF StartQueue, StateInv, ClientTypes
  <2>2. n # last + 1
    BY <2>1 DEF Orphan
  <2> QED
    BY <1>0, <1>7, <2>1, <2>2 DEF StartQueue, Orphan, LoadInv, LoadTypes, ClientTypes
<1>8. ASSUME QueueUp PROVE Orphan(n)' \/ cst'[n] = "closed"
  BY <1>0, <1>8 DEF QueueUp, WaitEnds, Fault, Orphan, LoadInv, LoadTypes, ClientTypes, Loads
<1>9. ASSUME QueueDown PROVE Orphan(n)' \/ cst'[n] = "closed"
  BY <1>0, <1>9 DEF QueueDown, WaitEnds, Fault, Orphan, LoadInv, LoadTypes, ClientTypes,
       Loads
<1>10. ASSUME DestroyCmId PROVE Orphan(n)' \/ cst'[n] = "closed"
  BY <1>0, <1>10 DEF DestroyCmId, Close, Current, Fault, Orphan, LoadInv, LoadTypes,
       ClientTypes, Loads
<1>11. ASSUME Unwind PROVE Orphan(n)' \/ cst'[n] = "closed"
  BY <1>0, <1>11 DEF Unwind, StopAndFreeQueue, Close, Ends, Fault, Orphan, LoadInv,
       LoadTypes, ClientTypes, Loads
<1>12. ASSUME GetReqForBuf PROVE Orphan(n)' \/ cst'[n] = "closed"
  BY <1>0, <1>12 DEF GetReqForBuf, LeaveQueues, Ends, Fault, Orphan, LoadInv, LoadTypes,
       ClientTypes, Loads
<1>13. ASSUME PostRecv PROVE Orphan(n)' \/ cst'[n] = "closed"
  BY <1>0, <1>13 DEF PostRecv, LeaveQueues, Ends, Fault, Orphan, LoadInv, LoadTypes,
       ClientTypes, Loads
<1>14. ASSUME RegionReceived PROVE Orphan(n)' \/ cst'[n] = "closed"
  BY <1>0, <1>14 DEF RegionReceived, Fault, Orphan, LoadInv, LoadTypes, ClientTypes, Loads
<1>15. ASSUME RmMod PROVE Orphan(n)' \/ cst'[n] = "closed"
  BY <1>0, <1>15 DEF RmMod, Fault, Orphan, LoadInv, LoadTypes, ClientTypes, Loads
<1>16. ASSUME StopAndFree PROVE Orphan(n)' \/ cst'[n] = "closed"
  BY <1>0, <1>16 DEF StopAndFree, StopAndFreeQueue, Close, Ends, Fault, Orphan, LoadInv,
       LoadTypes, ClientTypes, Loads
<1>17. ASSUME ServerStep \/ StartServer PROVE Orphan(n)' \/ cst'[n] = "closed"
  BY <1>0, <1>17, ServerFrame DEF Orphan, LoadInv, LoadTypes, ClientTypes, Loads
<1>18. CASE UNCHANGED vars
  BY <1>0, <1>18 DEF Orphan, LoadInv, LoadTypes, ClientTypes, Loads
<1>19. ASSUME NEW m \in Conns, Disconnected(m) PROVE Orphan(n)' \/ cst'[n] = "closed"
  BY <1>0, <1>19 DEF Disconnected, Orphan, LoadInv, LoadTypes, ClientTypes, Loads
<1> QED
  BY <1>1, <1>2, <1>3, <1>4, <1>5, <1>6, <1>7, <1>8, <1>9, <1>10, <1>11, <1>12, <1>13,
       <1>14, <1>15, <1>16, <1>17, <1>18, <1>19
     DEF Next, ClientHandler, ClientStep

\* The present load is the last one, and its connections are its own.
LEMMA LoadStep ==
  ASSUME ClientInv, [Next]_vars PROVE LoadInv'
<1> USE ConnectAssumption, QueuesNat
<1> USE DEF vars, clientVars, connVars, serverVars, loadVars
<1>0. ClientTypes /\ LoadInv /\ NumberInv /\ ConsecutiveInv /\ StateInv /\ QtypeInv
  BY DEF ClientInv
<1>1. ASSUME NEW m \in Conns, AddrResolved(m) PROVE LoadInv'
  BY <1>0, <1>1 DEF AddrResolved, Fault, LoadInv, LoadTypes, ClientTypes, Mine, Live,
       Pending, AllUp, ClientQueues, Loads
<1>2. ASSUME NEW m \in Conns, RouteResolved(m) PROVE LoadInv'
  BY <1>0, <1>2 DEF RouteResolved, Fault, LoadInv, LoadTypes, ClientTypes, Mine, Live,
       Pending, AllUp, ClientQueues, Loads
<1>3. ASSUME NEW m \in Conns, CmErrorEvent(m) PROVE LoadInv'
  BY <1>0, <1>3 DEF CmErrorEvent, Fault, LoadInv, LoadTypes, ClientTypes, Mine, Live,
       Pending, AllUp, ClientQueues, Loads
<1>4. ASSUME NEW m \in Conns, Rejected(m) PROVE LoadInv'
  BY <1>0, <1>4 DEF Rejected, Fault, LoadInv, LoadTypes, ClientTypes, Mine, Live, Pending,
       AllUp, ClientQueues, Loads
<1>5. ASSUME NEW m \in Conns, Established(m) PROVE LoadInv'
  BY <1>0, <1>5 DEF Established, Fault, LoadInv, LoadTypes, ClientTypes, Mine, Live,
       Pending, AllUp, ClientQueues, Loads
<1>6. ASSUME InsMod PROVE LoadInv'
  <2>1. attempts \in Nat /\ attempts' = attempts + 1 /\ attempts + 1 \in Loads
    BY <1>0, <1>6 DEF InsMod, ClientTypes, Loads
  <2>2. UNCHANGED handler /\ \A n \in Conns : ~Mine(n)'
    BY <1>6 DEF InsMod, sswap_rdma_create_ctrl, Refused, Mine, Live, Pending, AllUp,
         ClientQueues
  <2>3. \E w \in {"loaded", "refused"}, o \in SUBSET {"cache", "ctrl", "queues", "pd"} :
          NewLoad(w, o) /\ (cpc' # "unloaded" => w = "loaded")
    BY <1>6 DEF InsMod, sswap_rdma_create_ctrl, Refused
  <2>4. crashed' \in BOOLEAN
    <3>1. crashed' = TRUE \/ crashed' = crashed
      BY <1>6, Zenon DEF InsMod, sswap_rdma_create_ctrl, Refused
    <3> QED
      BY <1>0, <3>1, Zenon DEF LoadInv, LoadTypes
  <2>5. LoadTypes' /\ (cpc' # "unloaded" => fate'[attempts'] = "loaded")
    BY <1>0, <2>1, <2>2, <2>3, <2>4 DEF NewLoad, LoadInv, LoadTypes
  <2>6. \A n \in Conns : handler'[n] <= attempts'
    BY <1>0, <2>1, <2>2 DEF LoadInv, LoadTypes
  <2> QED
    BY <2>2, <2>5, <2>6 DEF LoadInv
<1>7. ASSUME StartQueue PROVE LoadInv'
  <2>1. last + 1 \in Conns /\ qi \in ClientQueues
    BY <1>0, <1>7, FreshNumber DEF StartQueue
  <2>2. /\ UNCHANGED <<attempts, fate, kept, crashed, qi>>
        /\ cpc = "start" /\ cpc' # "unloaded" /\ cpc' \notin AllUp \cup {"cleanup", "start"}
    BY <1>7 DEF StartQueue, AllUp
  <2>3. \/ UNCHANGED <<handler, conn>> /\ cpc' = "unwind"
        \/ /\ handler' = [handler EXCEPT ![last + 1] = attempts]
           /\ conn' = [conn EXCEPT ![qi] = last + 1]
    BY <1>7 DEF StartQueue
  <2>4. attempts \in 0..MaxAttempts
    BY <1>0 DEF ClientTypes
  <2>5. LoadTypes' /\ \A n \in Conns : handler'[n] <= attempts'
    BY <1>0, <2>1, <2>2, <2>3, <2>4 DEF LoadInv, LoadTypes
  <2>6. \A n \in Conns : Mine(n)' => Mine(n) \/ handler'[n] = attempts
    BY <1>0, <2>1, <2>2, <2>3 DEF Mine, Live, Pending, AllUp, ClientQueues, ClientTypes,
         LoadInv, LoadTypes
  <2>7. \A n \in Conns : handler[n] = attempts => handler'[n] = attempts
    BY <1>0, <2>1, <2>3 DEF LoadInv, LoadTypes
  <2> QED
    BY <1>0, <2>2, <2>5, <2>6, <2>7 DEF LoadInv
<1>8. ASSUME QueueUp PROVE LoadInv'
  BY <1>0, <1>8 DEF QueueUp, WaitEnds, Fault, LoadInv, LoadTypes, ClientTypes, Mine, Live,
       Pending, AllUp, ClientQueues, Loads
<1>9. ASSUME QueueDown PROVE LoadInv'
  BY <1>0, <1>9 DEF QueueDown, WaitEnds, Fault, LoadInv, LoadTypes, ClientTypes, Mine,
       Live, Pending, AllUp, ClientQueues, Loads
<1>10. ASSUME DestroyCmId PROVE LoadInv'
  BY <1>0, <1>10 DEF DestroyCmId, Close, Current, Fault, LoadInv, LoadTypes, ClientTypes,
       Mine, Live, Pending, AllUp, ClientQueues, Loads
<1>11. ASSUME Unwind PROVE LoadInv'
  BY <1>0, <1>11 DEF Unwind, StopAndFreeQueue, Close, Ends, Fault, LoadInv, LoadTypes,
       ClientTypes, Mine, Live, Pending, AllUp, ClientQueues, Loads
<1>12. ASSUME GetReqForBuf PROVE LoadInv'
  <2>1. UNCHANGED <<conn, handler, kept, attempts>> /\ cpc' \in {"unloaded", "postrecv", cpc}
    BY <1>12 DEF GetReqForBuf, LeaveQueues
  <2>2. crashed' \in BOOLEAN
    <3>1. crashed' = TRUE \/ crashed' = crashed
      BY <1>12, Zenon DEF GetReqForBuf, LeaveQueues
    <3> QED
      BY <1>0, <3>1, Zenon DEF LoadInv, LoadTypes
  <2>3. fate' = fate \/ (Ends("noregion") /\ cpc' = "unloaded")
    BY <1>12 DEF GetReqForBuf, LeaveQueues
  <2>4. \A n \in Conns : Mine(n)' => Mine(n)
    BY <1>12, <2>1 DEF GetReqForBuf, Mine, Live, Pending, AllUp
  <2>5. cpc # "unloaded"
    BY <1>12 DEF GetReqForBuf
  <2> QED
    BY <1>0, <2>1, <2>2, <2>3, <2>4, <2>5 DEF LoadInv, LoadTypes, Ends
<1>13. ASSUME PostRecv PROVE LoadInv'
  BY <1>0, <1>13 DEF PostRecv, LeaveQueues, Ends, Fault, LoadInv, LoadTypes, ClientTypes,
       Mine, Live, Pending, AllUp, ClientQueues, Loads
<1>14. ASSUME RegionReceived PROVE LoadInv'
  BY <1>0, <1>14 DEF RegionReceived, Fault, LoadInv, LoadTypes, ClientTypes, Mine, Live,
       Pending, AllUp, ClientQueues, Loads
<1>15. ASSUME RmMod PROVE LoadInv'
  BY <1>0, <1>15 DEF RmMod, Fault, LoadInv, LoadTypes, ClientTypes, Mine, Live, Pending,
       AllUp, ClientQueues, Loads
<1>16. ASSUME StopAndFree PROVE LoadInv'
  BY <1>0, <1>16 DEF StopAndFree, StopAndFreeQueue, Close, Ends, Fault, LoadInv, LoadTypes,
       ClientTypes, Mine, Live, Pending, AllUp, ClientQueues, Loads
<1>17. ASSUME ServerStep \/ StartServer PROVE LoadInv'
  BY <1>0, <1>17, ServerFrame DEF LoadInv, LoadTypes, ClientTypes, Mine, Live, Pending,
       AllUp, ClientQueues, Loads
<1>18. CASE UNCHANGED vars
  BY <1>0, <1>18 DEF LoadInv, LoadTypes, ClientTypes, Mine, Live, Pending, AllUp,
       ClientQueues, Loads
<1>19. ASSUME NEW m \in Conns, Disconnected(m) PROVE LoadInv'
  BY <1>0, <1>19 DEF Disconnected, LoadInv, LoadTypes, ClientTypes, Mine, Live, Pending,
       AllUp, ClientQueues, Loads
<1> QED
  BY <1>1, <1>2, <1>3, <1>4, <1>5, <1>6, <1>7, <1>8, <1>9, <1>10, <1>11, <1>12, <1>13,
       <1>14, <1>15, <1>16, <1>17, <1>18, <1>19
     DEF Next, ClientHandler, ClientStep

\* The client keeps its types: the numbers of its connections do not run out.
LEMMA ClientTypeStep ==
  ASSUME ClientInv, [Next]_vars PROVE ClientTypes'
<1> USE ConnectAssumption, QueuesNat
<1> USE DEF vars, clientVars, connVars, serverVars, loadVars
<1>0. ClientTypes /\ LoadInv /\ NumberInv /\ ConsecutiveInv /\ StateInv /\ QtypeInv
  BY DEF ClientInv
<1>1. ASSUME NEW n \in Conns, AddrResolved(n) PROVE ClientTypes'
  <2>1. /\ ib' \in [Conns -> SUBSET {"cq", "qp"}]
        /\ cst' \in [Conns -> {"none", "address", "route", "request", "established",
                               "stuck", "closed"}]
    BY <1>0, <1>1 DEF AddrResolved, ClientTypes
  <2>2. /\ cmError' \in {"none", "ETIMEDOUT", "ENODEV", "ECONNRESET"}
        /\ cmDone' \in BOOLEAN /\ faults' \in 0..MaxFaults
    <3>1. \/ UNCHANGED <<cmError, cmDone>>
          \/ cmError' = "ENODEV" /\ cmDone' = TRUE
      BY <1>1, Zenon DEF AddrResolved
    <3>2. faults' \in 0..MaxFaults
      BY <1>0, <1>1 DEF AddrResolved, Fault, ClientTypes
    <3> QED
      BY <1>0, <3>1, <3>2 DEF ClientTypes
  <2> QED
    BY <1>0, <1>1, <2>1, <2>2 DEF AddrResolved, ClientTypes
<1>2. ASSUME NEW n \in Conns, RouteResolved(n) PROVE ClientTypes'
  BY <1>0, <1>2 DEF RouteResolved, Fault, ClientTypes
<1>3. ASSUME NEW n \in Conns, CmErrorEvent(n) PROVE ClientTypes'
  BY <1>0, <1>3 DEF CmErrorEvent, Fault, ClientTypes
<1>4. ASSUME NEW n \in Conns, Rejected(n) PROVE ClientTypes'
  BY <1>0, <1>4 DEF Rejected, ClientTypes
<1>5. ASSUME NEW n \in Conns, Established(n) PROVE ClientTypes'
  BY <1>0, <1>5 DEF Established, ClientTypes
<1>6. ASSUME InsMod PROVE ClientTypes'
  BY <1>0, <1>6 DEF InsMod, sswap_rdma_create_ctrl, Refused, Fault, ClientTypes
<1>7. ASSUME StartQueue PROVE ClientTypes'
  <2>1. qi \in ClientQueues /\ last + 1 \in Conns /\ last + 1 <= attempts * numqueues
    BY <1>7, FreshNumber DEF StartQueue
  <2>2. /\ conn' \in [ClientQueues -> Conns \cup {0}]
        /\ cst' \in [Conns -> {"none", "address", "route", "request", "established",
                               "stuck", "closed"}]
        /\ qtype' \in [ClientQueues -> QueueTypes \cup {"none"}]
    BY <1>0, <1>7, <2>1, TypeOfQueue DEF StartQueue, ClientTypes
  <2>3. last' \in 0..attempts' * numqueues
    BY <1>0, <1>7, <2>1 DEF StartQueue, ClientTypes
  <2>4. cpc' \in {"wait", "destroy", "unwind"} /\ cmDone' = FALSE
        /\ cmError' \in {cmError, "ETIMEDOUT"}
    BY <1>7 DEF StartQueue
  <2>5. faults' \in 0..MaxFaults
    BY <1>0, <1>7 DEF StartQueue, Fault, ClientTypes
  <2> QED
    BY <1>0, <1>7, <2>2, <2>3, <2>4, <2>5 DEF StartQueue, ClientTypes
<1>8. ASSUME QueueUp PROVE ClientTypes'
  <2>1. qi < numqueues
    BY <1>0, <1>8 DEF QueueUp, NumberInv, Pending
  <2>2. faults' \in 0..MaxFaults
    BY <1>0, <1>8 DEF QueueUp, WaitEnds, Fault, ClientTypes
  <2> QED
    BY <1>0, <1>8, <2>1, <2>2 DEF QueueUp, ClientTypes
<1>9. ASSUME QueueDown PROVE ClientTypes'
  BY <1>0, <1>9 DEF QueueDown, WaitEnds, Fault, ClientTypes
<1>10. ASSUME DestroyCmId PROVE ClientTypes'
  BY <1>0, <1>10 DEF DestroyCmId, Close, Current, ClientTypes
<1>11. ASSUME Unwind PROVE ClientTypes'
  BY <1>0, <1>11 DEF Unwind, StopAndFreeQueue, Close, ClientTypes
<1>12. ASSUME GetReqForBuf PROVE ClientTypes'
  BY <1>0, <1>12 DEF GetReqForBuf, LeaveQueues, Fault, ClientTypes
<1>13. ASSUME PostRecv PROVE ClientTypes'
  BY <1>0, <1>13 DEF PostRecv, LeaveQueues, Fault, ClientTypes
<1>14. ASSUME RegionReceived PROVE ClientTypes'
  BY <1>0, <1>14 DEF RegionReceived, ClientTypes
<1>15. ASSUME RmMod PROVE ClientTypes'
  BY <1>0, <1>15 DEF RmMod, ClientTypes
<1>16. ASSUME StopAndFree PROVE ClientTypes'
  BY <1>0, <1>16 DEF StopAndFree, StopAndFreeQueue, Close, ClientTypes
<1>17. ASSUME ServerStep \/ StartServer PROVE ClientTypes'
  BY <1>0, <1>17, ServerFrame DEF ClientTypes, Fault
<1>18. CASE UNCHANGED vars
  BY <1>0, <1>18 DEF ClientTypes
<1>19. ASSUME NEW n \in Conns, Disconnected(n) PROVE ClientTypes'
  BY <1>0, <1>19 DEF Disconnected, ClientTypes
<1> QED
  BY <1>1, <1>2, <1>3, <1>4, <1>5, <1>6, <1>7, <1>8, <1>9, <1>10, <1>11, <1>12,
       <1>13, <1>14, <1>15, <1>16, <1>17, <1>18, <1>19 DEF Next, ClientHandler, ClientStep

\* A load makes no more connections than it has queues.
LEMMA NumberStep ==
  ASSUME ClientInv, [Next]_vars PROVE NumberInv'
<1> USE ConnectAssumption, QueuesNat
<1> USE DEF vars, clientVars, connVars, serverVars, loadVars
<1>0. ClientTypes /\ LoadInv /\ NumberInv /\ ConsecutiveInv /\ StateInv /\ QtypeInv
  BY DEF ClientInv
<1>1. ASSUME NEW n \in Conns, AddrResolved(n) PROVE NumberInv'
  BY <1>0, <1>1 DEF AddrResolved, Fault, ClientTypes, NumberInv, Pending, AllUp
<1>2. ASSUME NEW n \in Conns, RouteResolved(n) PROVE NumberInv'
  BY <1>0, <1>2 DEF RouteResolved, Fault, ClientTypes, NumberInv, Pending, AllUp
<1>3. ASSUME NEW n \in Conns, CmErrorEvent(n) PROVE NumberInv'
  BY <1>0, <1>3 DEF CmErrorEvent, Fault, ClientTypes, NumberInv, Pending, AllUp
<1>4. ASSUME NEW n \in Conns, Rejected(n) PROVE NumberInv'
  BY <1>0, <1>4 DEF Rejected, ClientTypes, NumberInv, Pending, AllUp
<1>5. ASSUME NEW n \in Conns, Established(n) PROVE NumberInv'
  BY <1>0, <1>5 DEF Established, ClientTypes, NumberInv, Pending, AllUp
<1>6. ASSUME InsMod PROVE NumberInv'
  BY <1>0, <1>6 DEF InsMod, sswap_rdma_create_ctrl, Refused, Fault, ClientTypes, NumberInv,
       Pending, AllUp
<1>7. ASSUME StartQueue PROVE NumberInv'
  BY <1>0, <1>7 DEF StartQueue, Fault, ClientTypes, NumberInv, Pending, AllUp
<1>8. ASSUME QueueUp PROVE NumberInv'
  BY <1>0, <1>8 DEF QueueUp, WaitEnds, Fault, ClientTypes, NumberInv, Pending, AllUp
<1>9. ASSUME QueueDown PROVE NumberInv'
  BY <1>0, <1>9 DEF QueueDown, WaitEnds, Fault, ClientTypes, NumberInv, Pending,
       AllUp
<1>10. ASSUME DestroyCmId PROVE NumberInv'
  BY <1>0, <1>10 DEF DestroyCmId, Close, Current, ClientTypes, NumberInv, Pending,
       AllUp
<1>11. ASSUME Unwind PROVE NumberInv'
  BY <1>0, <1>11 DEF Unwind, StopAndFreeQueue, Close, ClientTypes, NumberInv,
       Pending, AllUp
<1>12. ASSUME GetReqForBuf PROVE NumberInv'
  BY <1>0, <1>12 DEF GetReqForBuf, LeaveQueues, Fault, ClientTypes, NumberInv, Pending,
       AllUp
<1>13. ASSUME PostRecv PROVE NumberInv'
  BY <1>0, <1>13 DEF PostRecv, LeaveQueues, Fault, ClientTypes, NumberInv, Pending,
       AllUp
<1>14. ASSUME RegionReceived PROVE NumberInv'
  BY <1>0, <1>14 DEF RegionReceived, ClientTypes, NumberInv, Pending, AllUp
<1>15. ASSUME RmMod PROVE NumberInv'
  BY <1>0, <1>15 DEF RmMod, ClientTypes, NumberInv, Pending, AllUp
<1>16. ASSUME StopAndFree PROVE NumberInv'
  BY <1>0, <1>16 DEF StopAndFree, StopAndFreeQueue, Close, ClientTypes, NumberInv,
       Pending, AllUp
<1>17. ASSUME ServerStep \/ StartServer PROVE NumberInv'
  BY <1>0, <1>17, ServerFrame DEF ClientTypes, NumberInv, Pending, AllUp
<1>18. CASE UNCHANGED vars
  BY <1>0, <1>18 DEF ClientTypes, NumberInv, Pending, AllUp
<1>19. ASSUME NEW n \in Conns, Disconnected(n) PROVE NumberInv'
  BY <1>0, <1>19 DEF Disconnected, ClientTypes, NumberInv, Pending, AllUp
<1> QED
  BY <1>1, <1>2, <1>3, <1>4, <1>5, <1>6, <1>7, <1>8, <1>9, <1>10, <1>11, <1>12,
       <1>13, <1>14, <1>15, <1>16, <1>17, <1>18, <1>19 DEF Next, ClientHandler, ClientStep

\* The connections of a load are consecutive.
LEMMA ConsecutiveStep ==
  ASSUME ClientInv, [Next]_vars PROVE ConsecutiveInv'
<1> USE ConnectAssumption, QueuesNat
<1> USE DEF vars, clientVars, connVars, serverVars, loadVars
<1>0. ClientTypes /\ LoadInv /\ NumberInv /\ ConsecutiveInv /\ StateInv /\ QtypeInv
  BY DEF ClientInv
<1>1. ASSUME NEW n \in Conns, AddrResolved(n) PROVE ConsecutiveInv'
  BY <1>0, <1>1 DEF AddrResolved, Fault, ClientTypes, NumberInv, ConsecutiveInv,
       Live, Pending, AllUp, ClientQueues
<1>2. ASSUME NEW n \in Conns, RouteResolved(n) PROVE ConsecutiveInv'
  BY <1>0, <1>2 DEF RouteResolved, Fault, ClientTypes, NumberInv, ConsecutiveInv,
       Live, Pending, AllUp, ClientQueues
<1>3. ASSUME NEW n \in Conns, CmErrorEvent(n) PROVE ConsecutiveInv'
  BY <1>0, <1>3 DEF CmErrorEvent, Fault, ClientTypes, NumberInv, ConsecutiveInv,
       Live, Pending, AllUp, ClientQueues
<1>4. ASSUME NEW n \in Conns, Rejected(n) PROVE ConsecutiveInv'
  BY <1>0, <1>4 DEF Rejected, ClientTypes, NumberInv, ConsecutiveInv, Live, Pending,
       AllUp, ClientQueues
<1>5. ASSUME NEW n \in Conns, Established(n) PROVE ConsecutiveInv'
  BY <1>0, <1>5 DEF Established, ClientTypes, NumberInv, ConsecutiveInv, Live,
       Pending, AllUp, ClientQueues
<1>6. ASSUME InsMod PROVE ConsecutiveInv'
  BY <1>0, <1>6 DEF InsMod, sswap_rdma_create_ctrl, Refused, Fault, ClientTypes, NumberInv,
       ConsecutiveInv, Live, Pending, AllUp, ClientQueues
<1>7. ASSUME StartQueue PROVE ConsecutiveInv'
  <2>1. qi \in ClientQueues /\ last \in Nat
    BY <1>0, <1>7, FreshNumber DEF StartQueue, ClientTypes
  <2>2. CASE cpc' = "unwind"
    BY <1>0, <1>7, <2>1, <2>2 DEF StartQueue, ConsecutiveInv, Live, Pending, AllUp
  <2>3. CASE cpc' # "unwind"
    <3>1. last' = last + 1 /\ Pending' /\ qi' = qi
      BY <1>7, <2>3 DEF StartQueue, Pending
    <3>2. conn'[qi] = last'
      BY <1>0, <1>7, <2>1, <2>3, <3>1 DEF StartQueue, ClientTypes
    <3>3. \A i \in ClientQueues : i < qi => Live(i) /\ conn'[i] = conn[i]
      BY <1>0, <1>7, <2>1, <2>3 DEF StartQueue, ClientTypes, Live
    <3>4. \A i \in ClientQueues : i < qi => conn'[i] = last' + i - qi' /\ conn'[i] \in 1..last
      BY <1>0, <1>7, <2>1, <3>1, <3>3 DEF StartQueue, ConsecutiveInv, ClientQueues
    <3>5. \A i \in ClientQueues : i <= qi => conn'[i] = last' + i - qi'
      BY <2>1, <3>1, <3>2, <3>4 DEF ClientQueues
    <3>6. \A i \in ClientQueues : Live(i)' <=> i < qi
      BY <3>1 DEF Live, Pending, AllUp
    <3> QED
      BY <2>1, <3>1, <3>4, <3>5, <3>6 DEF ConsecutiveInv, Pending, AllUp,
           ClientQueues
  <2> QED
    BY <2>2, <2>3
<1>8. ASSUME QueueUp PROVE ConsecutiveInv'
  BY <1>0, <1>8 DEF QueueUp, WaitEnds, Fault, ClientTypes, NumberInv,
       ConsecutiveInv, Live, Pending, AllUp, ClientQueues
<1>9. ASSUME QueueDown PROVE ConsecutiveInv'
  BY <1>0, <1>9 DEF QueueDown, WaitEnds, Fault, ClientTypes, NumberInv,
       ConsecutiveInv, Live, Pending, AllUp, ClientQueues
<1>10. ASSUME DestroyCmId PROVE ConsecutiveInv'
  BY <1>0, <1>10 DEF DestroyCmId, Close, Current, ClientTypes, NumberInv,
       ConsecutiveInv, Live, Pending, AllUp, ClientQueues
<1>11. ASSUME Unwind PROVE ConsecutiveInv'
  BY <1>0, <1>11 DEF Unwind, StopAndFreeQueue, Close, ClientTypes, NumberInv,
       ConsecutiveInv, Live, Pending, AllUp, ClientQueues
<1>12. ASSUME GetReqForBuf PROVE ConsecutiveInv'
  BY <1>0, <1>12 DEF GetReqForBuf, LeaveQueues, Fault, ClientTypes, NumberInv,
       ConsecutiveInv, Live, Pending, AllUp, ClientQueues
<1>13. ASSUME PostRecv PROVE ConsecutiveInv'
  BY <1>0, <1>13 DEF PostRecv, LeaveQueues, Fault, ClientTypes, NumberInv,
       ConsecutiveInv, Live, Pending, AllUp, ClientQueues
<1>14. ASSUME RegionReceived PROVE ConsecutiveInv'
  BY <1>0, <1>14 DEF RegionReceived, ClientTypes, NumberInv, ConsecutiveInv, Live,
       Pending, AllUp, ClientQueues
<1>15. ASSUME RmMod PROVE ConsecutiveInv'
  BY <1>0, <1>15 DEF RmMod, ClientTypes, NumberInv, ConsecutiveInv, Live, Pending,
       AllUp, ClientQueues
<1>16. ASSUME StopAndFree PROVE ConsecutiveInv'
  BY <1>0, <1>16 DEF StopAndFree, StopAndFreeQueue, Close, ClientTypes, NumberInv,
       ConsecutiveInv, Live, Pending, AllUp, ClientQueues
<1>17. ASSUME ServerStep \/ StartServer PROVE ConsecutiveInv'
  BY <1>0, <1>17, ServerFrame DEF ClientTypes, NumberInv, ConsecutiveInv, Live,
       Pending, AllUp, ClientQueues
<1>18. CASE UNCHANGED vars
  BY <1>0, <1>18 DEF ClientTypes, NumberInv, ConsecutiveInv, Live, Pending, AllUp,
       ClientQueues
<1>19. ASSUME NEW n \in Conns, Disconnected(n) PROVE ConsecutiveInv'
  BY <1>0, <1>19 DEF Disconnected, ClientTypes, NumberInv, ConsecutiveInv, Live, Pending,
       AllUp,
       ClientQueues
<1> QED
  BY <1>1, <1>2, <1>3, <1>4, <1>5, <1>6, <1>7, <1>8, <1>9, <1>10, <1>11, <1>12,
       <1>13, <1>14, <1>15, <1>16, <1>17, <1>18, <1>19 DEF Next, ClientHandler, ClientStep

\* A failed recv_remotemr leaves every connection of its load.
LEMMA Leaving ==
  ASSUME ClientInv, LeaveQueues, cpc \in AllUp, UNCHANGED <<cst, ib, handler>>,
         NEW n \in Conns, Mine(n)
  PROVE  Orphan(n)'
<1>1. cst[n] = "established" /\ ib[n] = {"cq", "qp"}
  BY DEF ClientInv, StateInv, Mine, Pending, AllUp
<1>2. handler[n] = attempts /\ attempts \in Loads
  BY ConnectAssumption DEF ClientInv, LoadInv, NumberInv, ClientTypes, AllUp, Loads
<1>3. fate'[attempts] = "noregion"
  BY <1>2 DEF LeaveQueues, Ends, ClientInv, LoadInv, LoadTypes
<1> QED
  BY <1>1, <1>2, <1>3 DEF Orphan

\* Only the connection being set up is neither established nor closed.
LEMMA StateStep ==
  ASSUME ClientInv, [Next]_vars PROVE StateInv'
<1> USE ConnectAssumption, QueuesNat
<1> USE DEF vars, clientVars, connVars, serverVars, loadVars
<1>0. ClientTypes /\ LoadInv /\ NumberInv /\ ConsecutiveInv /\ StateInv /\ QtypeInv
  BY DEF ClientInv
<1>00. \A m \in Conns : Orphan(m) => Orphan(m)' \/ cst'[m] = "closed"
  BY OrphanStep
<1>1. ASSUME NEW n \in Conns, AddrResolved(n) PROVE StateInv'
  <2>1. Pending /\ n = conn[qi] /\ \A i \in ClientQueues : Live(i) => conn[i] # n
    BY <1>0, <1>1 DEF AddrResolved, StateInv, Mine, Orphan
  <2>2. /\ \A i \in ClientQueues : Live(i)' <=> Live(i)
        /\ \A m \in Conns : Mine(m)' <=> Mine(m)
        /\ Pending' <=> Pending
    BY <1>1 DEF AddrResolved, Live, Pending, Mine
  <2>3. \A m \in Conns : m # n => cst'[m] = cst[m] /\ ib'[m] = ib[m]
    BY <1>0, <1>1 DEF AddrResolved, ClientTypes
  <2>4. cst'[n] = "stuck" \/ (cst'[n] = "route" /\ ib'[n] = {"cq", "qp"})
    BY <1>0, <1>1 DEF AddrResolved, ClientTypes
  <2>5. cpc' = "wait" => cmError' # "none"
    BY <1>0, <1>1, <2>1 DEF AddrResolved, StateInv
  <2>6. UNCHANGED <<conn, qi, last>>
    BY <1>1 DEF AddrResolved
  <2>7. \A i \in ClientQueues : Live(i) => conn[i] \in Conns
    BY <1>0 DEF ConsecutiveInv, ClientTypes
  <2>8. ASSUME NEW i \in ClientQueues, Live(i)' 
        PROVE  cst'[conn'[i]] = "established" /\ ib'[conn'[i]] = {"cq", "qp"}
    BY <1>0, <2>1, <2>2, <2>3, <2>6, <2>7, <2>8 DEF StateInv
  <2>9. \A m \in Conns : cst'[m] \in {"none", "closed"} \/ Mine(m)' \/ Orphan(m)'
    BY <1>0, <1>00, <2>1, <2>2, <2>3 DEF StateInv, Mine
  <2>10. \A m \in Conns : m > last' => cst'[m] = "none"
    BY <1>0, <1>1, <2>3, <2>6 DEF AddrResolved, StateInv
  <2> QED
    BY <2>1, <2>2, <2>4, <2>5, <2>6, <2>8, <2>9, <2>10 DEF StateInv
<1>2. ASSUME NEW n \in Conns, RouteResolved(n) PROVE StateInv'
  <2>1. Pending /\ n = conn[qi] /\ \A i \in ClientQueues : Live(i) => conn[i] # n
    BY <1>0, <1>2 DEF RouteResolved, StateInv, Mine, Orphan
  <2>2. UNCHANGED <<cpc, qi, conn, last, cmError>>
    BY <1>2 DEF RouteResolved
  <2>3. /\ \A i \in ClientQueues : Live(i)' <=> Live(i)
        /\ \A m \in Conns : Mine(m)' <=> Mine(m)
        /\ Pending' <=> Pending
    BY <2>2 DEF Live, Pending, Mine
  <2>4. \A m \in Conns : m # n => cst'[m] = cst[m] /\ ib'[m] = ib[m]
    BY <1>0, <1>2 DEF RouteResolved, ClientTypes
  <2>5. /\ cst[n] = "route" /\ ib[n] = {"cq", "qp"}
        /\ cst'[n] = "stuck" \/ (cst'[n] = "request" /\ ib'[n] = {"cq", "qp"})
    BY <1>0, <1>2, <2>1 DEF RouteResolved, ClientTypes, StateInv
  <2>6. \A i \in ClientQueues : Live(i) => conn[i] \in Conns
    BY <1>0 DEF ConsecutiveInv, ClientTypes
  <2>7. \A i \in ClientQueues :
          Live(i)' => cst'[conn'[i]] = "established" /\ ib'[conn'[i]] = {"cq", "qp"}
    BY <1>0, <2>1, <2>2, <2>3, <2>4, <2>6 DEF StateInv
  <2>8. \A m \in Conns : cst'[m] \in {"none", "closed"} \/ Mine(m)' \/ Orphan(m)'
    BY <1>0, <1>00, <2>1, <2>3, <2>4 DEF StateInv, Mine
  <2>9. \A m \in Conns : m > last' => cst'[m] = "none"
    BY <1>0, <2>2, <2>4, <2>5 DEF StateInv
  <2>10. ~(cpc = "wait" /\ cmError = "none")
    BY <1>0, <2>1, <2>5 DEF StateInv
  <2> QED
    BY <2>1, <2>2, <2>3, <2>5, <2>7, <2>8, <2>9, <2>10 DEF StateInv
<1>3. ASSUME NEW n \in Conns, CmErrorEvent(n) PROVE StateInv'
  BY <1>0, <1>00, <1>3 DEF CmErrorEvent, Fault, ClientTypes, NumberInv, ConsecutiveInv,
       StateInv, Mine, Live, Pending, AllUp, ClientQueues
<1>4. ASSUME NEW n \in Conns, Rejected(n) PROVE StateInv'
  BY <1>0, <1>00, <1>4 DEF Rejected, ClientTypes, NumberInv, ConsecutiveInv, StateInv,
       Mine, Live, Pending, AllUp, ClientQueues
<1>5. ASSUME NEW n \in Conns, Established(n) PROVE StateInv'
  <2>1. ~Orphan(n)
    BY <1>5 DEF Established, Orphan
  <2> QED
    BY <1>0, <1>00, <1>5, <2>1 DEF Established, ClientTypes, NumberInv, ConsecutiveInv,
         StateInv, Mine, Live, Pending, AllUp, ClientQueues
<1>6. ASSUME InsMod PROVE StateInv'
  BY <1>0, <1>00, <1>6 DEF InsMod, sswap_rdma_create_ctrl, Refused, Fault, ClientTypes,
       NumberInv,
       ConsecutiveInv, StateInv, Mine, Live, Pending, AllUp, ClientQueues
<1>7. ASSUME StartQueue PROVE StateInv'
  <2>1. qi \in ClientQueues /\ last + 1 \in Conns /\ last \in Nat
    BY <1>0, <1>7, FreshNumber DEF StartQueue, ClientTypes
  <2>2. CASE cpc' = "unwind"
    <3>1. UNCHANGED <<conn, qi, last, cst, ib>>
      BY <1>7, <2>2 DEF StartQueue
    <3>2. /\ \A i \in ClientQueues : Live(i)' <=> Live(i)
          /\ ~Pending /\ ~Pending'
      BY <1>7, <2>2, <3>1 DEF StartQueue, Live, Pending, AllUp
    <3> QED
      BY <1>0, <1>00, <3>1, <3>2 DEF StateInv, Mine
  <2>3. CASE cpc' # "unwind"
    <3>1. last' = last + 1 /\ Pending' /\ qi' = qi /\ ~Pending /\ cmError' # "none"
      BY <1>7, <2>3 DEF StartQueue, Pending
    <3>2. conn'[qi] = last + 1 /\ cst'[last + 1] \in {"address", "stuck"}
      BY <1>0, <1>7, <2>1, <2>3 DEF StartQueue, ClientTypes
    <3>3. \A m \in Conns : m # last + 1 => cst'[m] = cst[m]
      BY <1>0, <1>7, <2>1, <2>3 DEF StartQueue, ClientTypes
    <3>4. \A i \in ClientQueues : Live(i)' => Live(i) /\ conn'[i] = conn[i] /\ i # qi
      BY <1>0, <1>7, <2>1, <3>1 DEF StartQueue, ClientTypes, Live, Pending, AllUp
    <3>5. \A i \in ClientQueues : Live(i) => Live(i)' /\ conn'[i] = conn[i]
      BY <1>0, <1>7, <2>1, <3>1 DEF StartQueue, ClientTypes, Live, Pending, AllUp
    <3>6. \A i \in ClientQueues : Live(i) => conn[i] \in Conns /\ conn[i] # last + 1
      BY <1>0, <2>1 DEF ConsecutiveInv, Conns
    <3>7. \A i \in ClientQueues :
            Live(i)' => cst'[conn'[i]] = "established" /\ ib'[conn'[i]] = {"cq", "qp"}
      BY <1>0, <1>7, <3>3, <3>4, <3>6 DEF StartQueue, StateInv
    <3>8. \A m \in Conns : cst'[m] \in {"none", "closed"} \/ Mine(m)' \/ Orphan(m)'
      BY <1>0, <1>00, <3>1, <3>2, <3>3, <3>5 DEF StateInv, Mine
    <3>9. \A m \in Conns : m > last' => cst'[m] = "none"
      BY <1>0, <2>1, <3>1, <3>3 DEF StateInv, Conns
    <3> QED
      BY <3>1, <3>2, <3>7, <3>8, <3>9 DEF StateInv
  <2> QED
    BY <2>2, <2>3
<1>8. ASSUME QueueUp PROVE StateInv'
  BY <1>0, <1>00, <1>8 DEF QueueUp, WaitEnds, Fault, ClientTypes, NumberInv,
       ConsecutiveInv, StateInv, Mine, Live, Pending, AllUp, ClientQueues
<1>9. ASSUME QueueDown PROVE StateInv'
  BY <1>0, <1>00, <1>9 DEF QueueDown, WaitEnds, Fault, ClientTypes, NumberInv,
       ConsecutiveInv, StateInv, Mine, Live, Pending, AllUp, ClientQueues
<1>10. ASSUME DestroyCmId PROVE StateInv'
  BY <1>0, <1>00, <1>10 DEF DestroyCmId, Close, Current, ClientTypes, NumberInv,
       ConsecutiveInv, StateInv, Mine, Live, Pending, AllUp, ClientQueues
<1>11. ASSUME Unwind PROVE StateInv'
  BY <1>0, <1>00, <1>11 DEF Unwind, StopAndFreeQueue, Close, ClientTypes, NumberInv,
       ConsecutiveInv, StateInv, Mine, Live, Pending, AllUp, ClientQueues
<1>12. ASSUME GetReqForBuf PROVE StateInv'
  <2>1. CASE cpc' # "unloaded"
    BY <1>0, <1>00, <1>12, <2>1 DEF GetReqForBuf, LeaveQueues, ClientTypes, StateInv, Mine,
         Live, Pending, AllUp, ClientQueues
  <2>2. CASE cpc' = "unloaded"
    <3>1. LeaveQueues /\ UNCHANGED <<conn, cst, ib, last, handler>> /\ cpc \in AllUp
      BY <1>12, <2>2 DEF GetReqForBuf, AllUp
    <3> QED
      BY <1>0, <1>00, <3>1, Leaving DEF StateInv, Live, Pending, LeaveQueues, AllUp
  <2> QED
    BY <2>1, <2>2
<1>13. ASSUME PostRecv PROVE StateInv'
  <2>1. CASE cpc' # "unloaded"
    BY <1>0, <1>00, <1>13, <2>1 DEF PostRecv, LeaveQueues, ClientTypes, StateInv, Mine,
         Live, Pending, AllUp, ClientQueues
  <2>2. CASE cpc' = "unloaded"
    <3>1. LeaveQueues /\ UNCHANGED <<conn, cst, ib, last, handler>> /\ cpc \in AllUp
      BY <1>13, <2>2 DEF PostRecv, AllUp
    <3> QED
      BY <1>0, <1>00, <3>1, Leaving DEF StateInv, Live, Pending, LeaveQueues, AllUp
  <2> QED
    BY <2>1, <2>2
<1>14. ASSUME RegionReceived PROVE StateInv'
  BY <1>0, <1>00, <1>14 DEF RegionReceived, ClientTypes, NumberInv, ConsecutiveInv,
       StateInv, Mine, Live, Pending, AllUp, ClientQueues
<1>15. ASSUME RmMod PROVE StateInv'
  BY <1>0, <1>00, <1>15 DEF RmMod, ClientTypes, NumberInv, ConsecutiveInv, StateInv, Mine,
       Live, Pending, AllUp, ClientQueues
<1>16. ASSUME StopAndFree PROVE StateInv'
  <2>1. CASE qi = numqueues
    BY <1>0, <1>00, <1>16, <2>1 DEF StopAndFree, StateInv, Mine, Live, Pending, AllUp,
         ClientQueues
  <2>2. CASE qi < numqueues
    <3>1. cpc = "cleanup" /\ cpc' = cpc /\ qi' = qi + 1 /\ UNCHANGED <<conn, last>>
      BY <1>16, <2>2 DEF StopAndFree
    <3>2. qi \in ClientQueues /\ Live(qi) /\ conn[qi] \in Conns
      BY <1>0, <2>2, <3>1 DEF ClientTypes, ConsecutiveInv, Live, ClientQueues
    <3>3. /\ cst' = [cst EXCEPT ![conn[qi]] = "closed"]
          /\ ib' = [ib EXCEPT ![conn[qi]] = {}]
      BY <1>16, <2>2 DEF StopAndFree, StopAndFreeQueue, Close
    <3>4. \A i \in ClientQueues : Live(i)' <=> Live(i) /\ i # qi
      BY <1>0, <3>1, <3>2 DEF Live, AllUp, ClientQueues
    <3>5. \A i \in ClientQueues : Live(i)' => conn[i] \in Conns /\ conn[i] # conn[qi]
      BY <1>0, <3>2, <3>4 DEF ConsecutiveInv, ClientTypes
    <3>6. \A i \in ClientQueues :
            Live(i)' => cst'[conn'[i]] = "established" /\ ib'[conn'[i]] = {"cq", "qp"}
      BY <1>0, <3>1, <3>3, <3>4, <3>5 DEF StateInv, ClientTypes
    <3>7. \A m \in Conns : cst'[m] \in {"none", "closed"} \/ Mine(m)' \/ Orphan(m)'
      BY <1>0, <1>00, <3>1, <3>2, <3>3, <3>4 DEF StateInv, Mine, Pending, ClientTypes
    <3>8. \A m \in Conns : m > last' => cst'[m] = "none"
      BY <1>0, <3>1, <3>2, <3>3 DEF StateInv, ConsecutiveInv, ClientTypes
    <3> QED
      BY <3>1, <3>6, <3>7, <3>8 DEF StateInv, Pending
  <2> QED
    BY <1>0, <2>1, <2>2 DEF ClientTypes
<1>17. ASSUME ServerStep \/ StartServer PROVE StateInv'
  BY <1>0, <1>00, <1>17, ServerFrame DEF ClientTypes, NumberInv, ConsecutiveInv, StateInv,
       Mine, Live, Pending, AllUp, ClientQueues
<1>18. CASE UNCHANGED vars
  BY <1>0, <1>00, <1>18 DEF ClientTypes, NumberInv, ConsecutiveInv, StateInv, Mine, Live,
       Pending, AllUp, ClientQueues
<1>19. ASSUME NEW n \in Conns, Disconnected(n) PROVE StateInv'
  BY <1>0, <1>00, <1>19 DEF Disconnected, ClientTypes, NumberInv, ConsecutiveInv, StateInv,
       Mine, Live,
       Pending, AllUp, ClientQueues
<1> QED
  BY <1>1, <1>2, <1>3, <1>4, <1>5, <1>6, <1>7, <1>8, <1>9, <1>10, <1>11, <1>12,
       <1>13, <1>14, <1>15, <1>16, <1>17, <1>18, <1>19 DEF Next, ClientHandler, ClientStep

\* Each queue is made with its type.
LEMMA QtypeStep ==
  ASSUME ClientInv, [Next]_vars PROVE QtypeInv'
<1> USE ConnectAssumption, QueuesNat
<1> USE DEF vars, clientVars, connVars, serverVars, loadVars
<1>0. ClientTypes /\ LoadInv /\ NumberInv /\ ConsecutiveInv /\ StateInv /\ QtypeInv
  BY DEF ClientInv
<1>1. ASSUME NEW n \in Conns, AddrResolved(n) PROVE QtypeInv'
  BY <1>0, <1>1 DEF AddrResolved, Fault, ClientTypes, NumberInv, QtypeInv, Live,
       Pending, AllUp, ClientQueues
<1>2. ASSUME NEW n \in Conns, RouteResolved(n) PROVE QtypeInv'
  BY <1>0, <1>2 DEF RouteResolved, Fault, ClientTypes, NumberInv, QtypeInv, Live,
       Pending, AllUp, ClientQueues
<1>3. ASSUME NEW n \in Conns, CmErrorEvent(n) PROVE QtypeInv'
  BY <1>0, <1>3 DEF CmErrorEvent, Fault, ClientTypes, NumberInv, QtypeInv, Live,
       Pending, AllUp, ClientQueues
<1>4. ASSUME NEW n \in Conns, Rejected(n) PROVE QtypeInv'
  BY <1>0, <1>4 DEF Rejected, ClientTypes, NumberInv, QtypeInv, Live, Pending,
       AllUp, ClientQueues
<1>5. ASSUME NEW n \in Conns, Established(n) PROVE QtypeInv'
  BY <1>0, <1>5 DEF Established, ClientTypes, NumberInv, QtypeInv, Live, Pending,
       AllUp, ClientQueues
<1>6. ASSUME InsMod PROVE QtypeInv'
  BY <1>0, <1>6 DEF InsMod, sswap_rdma_create_ctrl, Refused, Fault, ClientTypes, NumberInv,
       QtypeInv, Live, Pending, AllUp, ClientQueues
<1>7. ASSUME StartQueue PROVE QtypeInv'
  BY <1>0, <1>7 DEF StartQueue, Fault, ClientTypes, NumberInv, QtypeInv, Live,
       Pending, AllUp, ClientQueues
<1>8. ASSUME QueueUp PROVE QtypeInv'
  BY <1>0, <1>8 DEF QueueUp, WaitEnds, Fault, ClientTypes, NumberInv, QtypeInv,
       Live, Pending, AllUp, ClientQueues
<1>9. ASSUME QueueDown PROVE QtypeInv'
  BY <1>0, <1>9 DEF QueueDown, WaitEnds, Fault, ClientTypes, NumberInv, QtypeInv,
       Live, Pending, AllUp, ClientQueues
<1>10. ASSUME DestroyCmId PROVE QtypeInv'
  BY <1>0, <1>10 DEF DestroyCmId, Close, Current, ClientTypes, NumberInv, QtypeInv,
       Live, Pending, AllUp, ClientQueues
<1>11. ASSUME Unwind PROVE QtypeInv'
  BY <1>0, <1>11 DEF Unwind, StopAndFreeQueue, Close, ClientTypes, NumberInv,
       QtypeInv, Live, Pending, AllUp, ClientQueues
<1>12. ASSUME GetReqForBuf PROVE QtypeInv'
  BY <1>0, <1>12 DEF GetReqForBuf, LeaveQueues, Fault, ClientTypes, NumberInv,
       QtypeInv, Live, Pending, AllUp, ClientQueues
<1>13. ASSUME PostRecv PROVE QtypeInv'
  BY <1>0, <1>13 DEF PostRecv, LeaveQueues, Fault, ClientTypes, NumberInv, QtypeInv,
       Live, Pending, AllUp, ClientQueues
<1>14. ASSUME RegionReceived PROVE QtypeInv'
  BY <1>0, <1>14 DEF RegionReceived, ClientTypes, NumberInv, QtypeInv, Live,
       Pending, AllUp, ClientQueues
<1>15. ASSUME RmMod PROVE QtypeInv'
  BY <1>0, <1>15 DEF RmMod, ClientTypes, NumberInv, QtypeInv, Live, Pending, AllUp,
       ClientQueues
<1>16. ASSUME StopAndFree PROVE QtypeInv'
  BY <1>0, <1>16 DEF StopAndFree, StopAndFreeQueue, Close, ClientTypes, NumberInv,
       QtypeInv, Live, Pending, AllUp, ClientQueues
<1>17. ASSUME ServerStep \/ StartServer PROVE QtypeInv'
  BY <1>0, <1>17, ServerFrame DEF ClientTypes, NumberInv, QtypeInv, Live, Pending,
       AllUp, ClientQueues
<1>18. CASE UNCHANGED vars
  BY <1>0, <1>18 DEF ClientTypes, NumberInv, QtypeInv, Live, Pending, AllUp,
       ClientQueues
<1>19. ASSUME NEW n \in Conns, Disconnected(n) PROVE QtypeInv'
  BY <1>0, <1>19 DEF Disconnected, ClientTypes, NumberInv, QtypeInv, Live, Pending, AllUp,
       ClientQueues
<1> QED
  BY <1>1, <1>2, <1>3, <1>4, <1>5, <1>6, <1>7, <1>8, <1>9, <1>10, <1>11, <1>12,
       <1>13, <1>14, <1>15, <1>16, <1>17, <1>18, <1>19 DEF Next, ClientHandler, ClientStep

\* The client starts with no connection.
LEMMA InitClient == Init => ClientInv
<1> SUFFICES ASSUME Init PROVE ClientInv
  OBVIOUS
<1> USE ConnectAssumption, QueuesNat DEF Init
<1>1. ClientTypes
  <2>1. last \in 0..attempts * numqueues
    OBVIOUS
  <2>2. ib \in [Conns -> SUBSET {"cq", "qp"}]
    OBVIOUS
  <2>3. cmDone \in BOOLEAN
    OBVIOUS
  <2>4. /\ conn \in [ClientQueues -> Conns \cup {0}]
        /\ qtype \in [ClientQueues -> QueueTypes \cup {"none"}]
        /\ cst \in [Conns -> {"none", "address", "route", "request", "established",
                              "stuck", "closed"}]
    OBVIOUS
  <2> QED
    BY <2>1, <2>2, <2>3, <2>4 DEF ClientTypes
<1>2. NumberInv /\ ConsecutiveInv /\ StateInv /\ QtypeInv
  BY DEF NumberInv, ConsecutiveInv, StateInv, QtypeInv, Live, Pending, AllUp
<1>3. LoadInv
  <2>1. crashed \in BOOLEAN
    OBVIOUS
  <2>2. /\ handler \in [Conns -> 0..MaxAttempts]
        /\ fate \in [Loads -> {"none", "loaded", "removed", "refused", "noregion"}]
    OBVIOUS
  <2>3. kept \in [Loads -> SUBSET {"cache", "ctrl", "queues", "pd"}]
    OBVIOUS
  <2>4. \A n \in Conns : handler[n] <= attempts /\ ~Mine(n)
    BY DEF Mine, Live, Pending, AllUp
  <2> QED
    BY <2>1, <2>2, <2>3, <2>4 DEF LoadInv, LoadTypes
<1> QED
  BY <1>1, <1>2, <1>3 DEF ClientInv

\* What the client knows of its connections, as an invariant.
THEOREM ClientKept == Spec => []ClientInv
<1>1. ClientInv /\ [Next]_vars => ClientInv'
  BY ClientTypeStep, LoadStep, NumberStep, ConsecutiveStep, StateStep, QtypeStep
     DEF ClientInv
<1> QED
  BY <1>1, InitClient, PTL DEF Spec

\* While no module is loaded, what is not closed was left by a load that failed.
LEMMA UnloadedLeft ==
  ClientInv /\ cpc = "unloaded" =>
    \A n \in Conns : cst[n] \in {"none", "closed"} \/ Orphan(n)
  BY DEF ClientInv, StateInv, Mine, Live, Pending, AllUp

\* A connection whose handler is gone was left by a load that failed in
\* recv_remotemr: rmmod, and any other failure of insmod, closes every
\* connection it made, for any number of queues, loads and faults.
THEOREM UnloadCorrect == Spec => []NoHandlerAfterUnload
<1>1. ClientInv => NoHandlerAfterUnload
  <2> SUFFICES ASSUME ClientInv, NEW n \in Conns, cst[n] \notin {"none", "closed"},
                      HandlerGone(n)
               PROVE  fate[handler[n]] = "noregion"
    BY DEF NoHandlerAfterUnload
  <2>1. attempts \in Int /\ handler[n] \in Int
    BY ConnectAssumption DEF ClientInv, ClientTypes, LoadInv, LoadTypes
  <2>2. ~Mine(n)
    BY <2>1 DEF HandlerGone, ClientInv, LoadInv, Mine, Live, Pending, AllUp
  <2> QED
    BY <2>2 DEF ClientInv, StateInv, Orphan
<1> QED
  BY <1>1, ClientKept, PTL

\* Unwinding and module exit free what is there, and free it once.
THEOREM FreeCorrect == Spec => []FreeOwned
<1>1. ClientInv => FreeOwned
  BY DEF ClientInv, StateInv, Live, FreeOwned
<1> QED
  BY <1>1, ClientKept, PTL

\* A ready driver has a queue of each type for each CPU where
\* sswap_rdma_get_queue looks for it.
THEOREM QueueTableCorrect == Spec => []QueueTable
<1>1. ClientInv => QueueTable
  BY QueueNumberCorrect DEF ClientInv, QtypeInv, Live, AllUp, QueueTable,
       ClientQueues
<1> QED
  BY <1>1, ClientKept, PTL

-----------------------------------------------------------------------------
(* The server, and the messages between the two.                           *)

Kinds == {"REQ", "REP", "RTU", "REJ", "DREQ"}

\* The server has accepted connection n, on queue squeue[n].
Accepted(n) == squeue[n] # -1

\* A connection is requested once, and answered once it is accepted.
UnsentInv ==
  \A n \in Conns : cst[n] \in {"none", "address", "route"} =>
    ~Accepted(n) /\ \A k \in Kinds : <<k, n>> \notin net
AnswerInv ==
  \A n \in Conns :
    /\ Accepted(n) => <<"REQ", n>> \notin net
    /\ <<"REP", n>> \in net => Accepted(n)
    /\ cst[n] = "established" => /\ Accepted(n) \/ Orphan(n)
                                 /\ <<"REQ", n>> \notin net /\ <<"REP", n>> \notin net
    /\ <<"RTU", n>> \in net => cst[n] \in {"established", "closed"}
    /\ <<"REJ", n>> \in net \/ <<"DREQ", n>> \in net => cst[n] = "closed"
KnownInv ==
  ServerUp => \A n \in Conns :
    cst[n] = "request" \/ (\E k \in Kinds : <<k, n>> \in net)
      => Accepted(n) \/ <<"REQ", n>> \in net

\* The loops of the server, and its buffer.
LoopInv ==
  /\ smode = "loop1" => si < NUM_QUEUES
  /\ ServerUp => buffer # "freed"
  /\ ServerUp /\ (\E n \in Conns : Accepted(n)) => buffer = "registered"
  /\ sloads <= attempts

LinkInv == ServerTypes /\ LoopInv /\ UnsentInv /\ AnswerInv /\ KnownInv

\* A connection that is under way is the last one, and of the queue being set up.
LEMMA Sender ==
  ASSUME ClientInv, NEW n \in Conns,
         cst[n] \in {"address", "route", "request", "stuck"}
  PROVE  Pending /\ n = conn[qi] /\ n = last
<1>1. ClientTypes /\ NumberInv /\ ConsecutiveInv /\ StateInv
  BY DEF ClientInv
<1>2. Pending /\ n = conn[qi]
  BY <1>1 DEF StateInv, Mine, Orphan
<1>3. qi \in ClientQueues /\ last \in Nat
  BY <1>1, <1>2, QueuesNat DEF ClientTypes, NumberInv, ClientQueues
<1>4. conn[qi] = last + qi - qi
  BY <1>1, <1>2, <1>3 DEF ConsecutiveInv, ClientQueues
<1> QED
  BY <1>2, <1>3, <1>4 DEF ClientQueues

\* A connection of the present load is not one that another load has left.
LEMMA NotOrphan == ASSUME ClientInv, NEW n \in Conns, Mine(n) PROVE ~Orphan(n)
  BY DEF ClientInv, LoadInv, Orphan, Mine, Live, Pending, AllUp

\* So it is connected to a server that has accepted it.
LEMMA OwnAccepted ==
  ASSUME ClientInv, AnswerInv, NEW n \in Conns, Mine(n), cst[n] = "established"
  PROVE  Accepted(n)
  BY NotOrphan DEF AnswerInv

\* What closing a connection does to it and to the messages.
LEMMA CloseEffect ==
  ASSUME ClientTypes, NEW n \in Conns, Close(n)
  PROVE  /\ cst'[n] = "closed" /\ \A m \in Conns : m # n => cst'[m] = cst[m]
         /\ \A m \in Conns, k \in Kinds :
              <<k, m>> \in net' <=> \/ <<k, m>> \in net
                                    \/ m = n /\ k = "DREQ" /\ cst[n] = "established"
                                    \/ m = n /\ k = "REJ" /\ cst[n] = "request"
  BY DEF Close, ClientTypes

\* The three steps that close one.
LEMMA Closing ==
  ASSUME ClientInv, DestroyCmId \/ Unwind \/ StopAndFree
  PROVE  /\ UNCHANGED <<serverVars, last>>
         /\ cpc \in {"destroy", "unwind", "cleanup"}
         /\ cpc' \in {"unwind", "cleanup", "unloaded"}
         /\ \A n \in Conns : <<"REQ", n>> \in net' <=> <<"REQ", n>> \in net
         /\ \/ UNCHANGED <<cst, net>>
            \/ \E n \in Conns :
                 /\ Close(n) /\ ~Orphan(n)
                 /\ cst[n] \in {"address", "route", "request", "established", "stuck"}
<1> USE DEF clientVars, connVars, serverVars
<1>0. ClientTypes /\ LoadInv /\ NumberInv /\ ConsecutiveInv /\ StateInv
  BY DEF ClientInv
<1>1. \A i \in ClientQueues :
        Live(i) => /\ conn[i] \in Conns /\ cst[conn[i]] = "established"
                   /\ ~Orphan(conn[i])
  <2>1. \A i \in ClientQueues : Live(i) => conn[i] \in Conns /\ cst[conn[i]] = "established"
    BY <1>0 DEF ConsecutiveInv, StateInv, ClientTypes
  <2> QED
    BY <2>1, NotOrphan DEF Mine
<1>2. CASE DestroyCmId
  <2>1. Pending /\ conn[qi] = last /\ last > 0
    BY <1>0, <1>2, QueuesNat DEF DestroyCmId, NumberInv, ConsecutiveInv,
         ClientTypes,
         Pending, ClientQueues
  <2>2. conn[qi] \in Conns
    BY <1>0, <2>1, QueuesNat DEF ClientTypes, NumberInv, ClientQueues
  <2>3. ~Orphan(conn[qi])
    BY <2>1, <2>2, NotOrphan DEF Mine
  <2> QED
    BY <1>0, <1>2, <2>1, <2>2, <2>3 DEF DestroyCmId, Current, Close, StateInv
<1>3. CASE Unwind
  <2>1. qi > 0 => qi - 1 \in ClientQueues /\ Live(qi - 1)
    BY <1>0, <1>3, QueuesNat DEF Unwind, ClientTypes, NumberInv, Live, ClientQueues
  <2> QED
    BY <1>0, <1>1, <1>3, <2>1 DEF Unwind, StopAndFreeQueue, Close, ClientTypes
<1>4. CASE StopAndFree
  <2>1. qi < numqueues => qi \in ClientQueues /\ Live(qi)
    BY <1>0, <1>4, QueuesNat DEF StopAndFree, ClientTypes, Live, ClientQueues
  <2> QED
    BY <1>0, <1>1, <1>4, <2>1 DEF StopAndFree, StopAndFreeQueue, Close,
         ClientTypes
<1> QED
  BY <1>2, <1>3, <1>4

\* A connection that is begun was not there before.
LEMMA Beginning ==
  ASSUME ClientInv, StartQueue
  PROVE  /\ UNCHANGED <<serverVars, net>>
         /\ \/ UNCHANGED <<cst, last>>
            \/ /\ last' = last + 1 /\ last + 1 \in Conns /\ cst[last + 1] = "none"
               /\ cst'[last + 1] \in {"address", "stuck"}
               /\ \A m \in Conns : m # last + 1 => cst'[m] = cst[m]
<1>1. ClientTypes /\ StateInv
  BY DEF ClientInv
<1>2. last + 1 \in Conns /\ last \in Nat
  BY <1>1, FreshNumber DEF StartQueue, ClientTypes
<1>3. cst[last + 1] = "none"
  BY <1>1, <1>2 DEF StateInv
<1> QED
  BY <1>1, <1>2, <1>3 DEF StartQueue, ClientTypes, connVars

\* What the server's loops do with an event.
LEMMA LoopTypes ==
  ASSUME ServerTypes, LoopInv, ServerUp, NEW r, NEW st,
         NEW b \in {"none", "registered", "freed"}, LoopControl(r, st, b)
  PROVE  /\ si' \in 0..NUM_QUEUES /\ smode' \in {"loop1", "loop2", "exited"}
         /\ buffer' \in {"none", "registered", "freed"}
  BY ConnectAssumption DEF ServerTypes, LoopInv, ServerUp, LoopControl

\* The server keeps its types.
LEMMA ServerTypeStep ==
  ASSUME ClientInv, LinkInv, [Next]_vars PROVE ServerTypes'
<1> USE ConnectAssumption, QueuesNat
<1> USE DEF vars, clientVars, connVars, serverVars, loadVars
<1>0. ClientInv /\ ServerTypes /\ LoopInv /\ UnsentInv /\ AnswerInv /\ KnownInv
  BY DEF LinkInv
<1>1. ASSUME NEW n \in Conns, AddrResolved(n) PROVE ServerTypes'
  BY <1>0, <1>1 DEF AddrResolved, Fault, ServerTypes, ServerQueues
<1>2. ASSUME NEW n \in Conns, RouteResolved(n) PROVE ServerTypes'
  BY <1>0, <1>2 DEF RouteResolved, Fault, ServerTypes, ServerQueues
<1>3. ASSUME NEW n \in Conns, CmErrorEvent(n) PROVE ServerTypes'
  BY <1>0, <1>3 DEF CmErrorEvent, Fault, ServerTypes, ServerQueues
<1>4. ASSUME NEW n \in Conns, Rejected(n) PROVE ServerTypes'
  BY <1>0, <1>4 DEF Rejected, ServerTypes, ServerQueues
<1>5. ASSUME NEW n \in Conns, Established(n) PROVE ServerTypes'
  BY <1>0, <1>5 DEF Established, ServerTypes, ServerQueues
<1>6. ASSUME InsMod PROVE ServerTypes'
  BY <1>0, <1>6 DEF InsMod, sswap_rdma_create_ctrl, Refused, Fault, LoopInv, ClientInv,
       ClientTypes, ServerTypes, ServerQueues
<1>7. ASSUME StartQueue PROVE ServerTypes'
  BY <1>0, <1>7 DEF StartQueue, Fault, ServerTypes, ServerQueues
<1>8. ASSUME QueueUp PROVE ServerTypes'
  BY <1>0, <1>8 DEF QueueUp, WaitEnds, Fault, ServerTypes, ServerQueues
<1>9. ASSUME QueueDown PROVE ServerTypes'
  BY <1>0, <1>9 DEF QueueDown, WaitEnds, Fault, ServerTypes, ServerQueues
<1>10. ASSUME DestroyCmId PROVE ServerTypes'
  <2>1. CASE UNCHANGED <<cst, net>>
    BY <1>0, <1>10, <2>1, Closing DEF ServerTypes, ServerQueues, serverVars
  <2>2. ASSUME NEW n \in Conns, Close(n),
               cst[n] \in {"address", "route", "request", "established", "stuck"}
        PROVE  ServerTypes'
    BY <1>0, <1>10, <2>2, Closing DEF Close, ServerTypes, ServerQueues, serverVars
  <2> QED
    BY <1>10, <2>1, <2>2, Closing
<1>11. ASSUME Unwind PROVE ServerTypes'
  <2>1. CASE UNCHANGED <<cst, net>>
    BY <1>0, <1>11, <2>1, Closing DEF ServerTypes, ServerQueues, serverVars
  <2>2. ASSUME NEW n \in Conns, Close(n),
               cst[n] \in {"address", "route", "request", "established", "stuck"}
        PROVE  ServerTypes'
    BY <1>0, <1>11, <2>2, Closing DEF Close, ServerTypes, ServerQueues, serverVars
  <2> QED
    BY <1>11, <2>1, <2>2, Closing
<1>12. ASSUME GetReqForBuf PROVE ServerTypes'
  BY <1>0, <1>12 DEF GetReqForBuf, LeaveQueues, Fault, ServerTypes, ServerQueues
<1>13. ASSUME PostRecv PROVE ServerTypes'
  BY <1>0, <1>13 DEF PostRecv, LeaveQueues, Fault, ServerTypes, ServerQueues
<1>14. ASSUME RegionReceived PROVE ServerTypes'
  BY <1>0, <1>14 DEF RegionReceived, ServerTypes, ServerQueues
<1>15. ASSUME RmMod PROVE ServerTypes'
  BY <1>0, <1>15 DEF RmMod, ServerTypes, ServerQueues
<1>16. ASSUME StopAndFree PROVE ServerTypes'
  <2>1. CASE UNCHANGED <<cst, net>>
    BY <1>0, <1>16, <2>1, Closing DEF ServerTypes, ServerQueues, serverVars
  <2>2. ASSUME NEW n \in Conns, Close(n),
               cst[n] \in {"address", "route", "request", "established", "stuck"}
        PROVE  ServerTypes'
    BY <1>0, <1>16, <2>2, Closing DEF Close, ServerTypes, ServerQueues, serverVars
  <2> QED
    BY <1>16, <2>1, <2>2, Closing
<1>17. ASSUME StartServer PROVE ServerTypes'
  BY <1>0, <1>17 DEF StartServer, alloc_control, Fault, ServerTypes, ServerQueues
<1>18. ASSUME NEW n \in Conns, OnConnectRequest(n) PROVE ServerTypes'
  <2>1. /\ UNCHANGED <<NUM_QUEUES, sloads>> /\ queue_ctr' = queue_ctr + 1 /\ ServerUp
        /\ net' \subseteq net \cup {<<"REP", n>>}
    BY <1>18 DEF OnConnectRequest, Requested
  <2>2. UNCHANGED <<sstate, region>>
    BY <1>18 DEF OnConnectRequest, Die
  <2>3. squeue' \in [Conns -> ServerQueues \cup {-1}]
    BY <1>0, <1>18 DEF OnConnectRequest, Die, ServerTypes, ServerQueues
  <2>4. CASE LoopControl(0, sstate, get_device)
    <3>1. get_device \in {"none", "registered", "freed"}
      BY <1>0 DEF ServerTypes, get_device
    <3>2. /\ si' \in 0..NUM_QUEUES /\ smode' \in {"loop1", "loop2", "exited"}
          /\ buffer' \in {"none", "registered", "freed"}
      BY <1>0, <2>1, <2>4, <3>1, LoopTypes
    <3> QED
      BY <1>0, <2>1, <2>2, <2>3, <3>2 DEF ServerTypes, ServerQueues
  <2>5. CASE ~LoopControl(0, sstate, get_device)
    <3>1. /\ UNCHANGED si /\ smode' \in {"died", "overrun"}
          /\ buffer' \in {buffer, "freed"}
      BY <1>18, <2>5 DEF OnConnectRequest, Die
    <3> QED
      BY <1>0, <2>1, <2>2, <2>3, <3>1 DEF ServerTypes, ServerQueues
  <2> QED
    BY <2>4, <2>5
<1>19. ASSUME NEW n \in Conns, OnConnection(n) PROVE ServerTypes'
  <2>1. /\ UNCHANGED <<NUM_QUEUES, sloads, queue_ctr, squeue>> /\ ServerUp
        /\ net' \subseteq net /\ region' \in {region, region \cup {n}}
    BY <1>19 DEF OnConnection, Connected, Die
  <2>2. sstate' \in [ServerQueues -> {"INIT", "CONNECTED"}]
    BY <1>0, <1>19 DEF OnConnection, Die, ServerTypes
  <2>3. CASE LoopControl(0, sstate', buffer)
    <3>1. /\ si' \in 0..NUM_QUEUES /\ smode' \in {"loop1", "loop2", "exited"}
          /\ buffer' \in {"none", "registered", "freed"}
      BY <1>0, <2>1, <2>3, LoopTypes DEF ServerTypes
    <3> QED
      BY <1>0, <2>1, <2>2, <3>1 DEF ServerTypes, ServerQueues
  <2>4. CASE ~LoopControl(0, sstate', buffer)
    <3>1. UNCHANGED si /\ smode' = "died" /\ buffer' = "freed"
      BY <1>19, <2>4 DEF OnConnection, Die
    <3> QED
      BY <1>0, <2>1, <2>2, <3>1 DEF ServerTypes, ServerQueues
  <2> QED
    BY <2>3, <2>4
<1>20. ASSUME NEW n \in Conns, OnDisconnect(n) PROVE ServerTypes'
  <2>1. LoopControl(1, sstate', buffer) /\ ServerUp
    BY <1>20 DEF OnDisconnect
  <2>2. /\ si' \in 0..NUM_QUEUES /\ smode' \in {"loop1", "loop2", "exited"}
        /\ buffer' \in {"none", "registered", "freed"}
    BY <1>0, <2>1, LoopTypes DEF ServerTypes
  <2>3. UNCHANGED <<NUM_QUEUES, queue_ctr, squeue, region, sloads>> /\ net' \subseteq net
    BY <1>20 DEF OnDisconnect
  <2>4. sstate' \in [ServerQueues -> {"INIT", "CONNECTED"}]
    BY <1>0, <1>20 DEF OnDisconnect, ServerTypes
  <2> QED
    BY <1>0, <2>2, <2>3, <2>4 DEF ServerTypes, ServerQueues
<1>21. ASSUME NEW n \in Conns, OnUnknownEvent(n) PROVE ServerTypes'
  BY <1>0, <1>21 DEF OnUnknownEvent, LoopControl, get_device, LoopInv, ServerUp,
       ServerTypes, ServerQueues
<1>22. CASE UNCHANGED vars
  BY <1>0, <1>22 DEF ServerTypes, ServerQueues
<1>23. ASSUME NEW n \in Conns, Disconnected(n) PROVE ServerTypes'
  BY <1>0, <1>23 DEF Disconnected, ServerTypes, ServerQueues
<1> QED
  BY <1>1, <1>2, <1>3, <1>4, <1>5, <1>6, <1>7, <1>8, <1>9, <1>10, <1>11, <1>12,
       <1>13, <1>14, <1>15, <1>16, <1>17, <1>18, <1>19, <1>20, <1>21, <1>22, <1>23 DEF
       Next, ClientHandler, ClientStep, ServerStep

\* The loops of the server.
LEMMA LoopStep ==
  ASSUME ClientInv, LinkInv, [Next]_vars PROVE LoopInv'
<1> USE ConnectAssumption, QueuesNat
<1> USE DEF vars, clientVars, connVars, serverVars, loadVars
<1>0. ClientInv /\ ServerTypes /\ LoopInv /\ UnsentInv /\ AnswerInv /\ KnownInv
  BY DEF LinkInv
<1>1. ASSUME NEW n \in Conns, AddrResolved(n) PROVE LoopInv'
  BY <1>0, <1>1 DEF AddrResolved, Fault, LoopInv, ServerUp, Accepted
<1>2. ASSUME NEW n \in Conns, RouteResolved(n) PROVE LoopInv'
  BY <1>0, <1>2 DEF RouteResolved, Fault, LoopInv, ServerUp, Accepted
<1>3. ASSUME NEW n \in Conns, CmErrorEvent(n) PROVE LoopInv'
  BY <1>0, <1>3 DEF CmErrorEvent, Fault, LoopInv, ServerUp, Accepted
<1>4. ASSUME NEW n \in Conns, Rejected(n) PROVE LoopInv'
  BY <1>0, <1>4 DEF Rejected, LoopInv, ServerUp, Accepted
<1>5. ASSUME NEW n \in Conns, Established(n) PROVE LoopInv'
  BY <1>0, <1>5 DEF Established, LoopInv, ServerUp, Accepted
<1>6. ASSUME InsMod PROVE LoopInv'
  BY <1>0, <1>6 DEF InsMod, sswap_rdma_create_ctrl, Refused, Fault, ServerTypes, ClientInv,
       ClientTypes, LoopInv, ServerUp, Accepted
<1>7. ASSUME StartQueue PROVE LoopInv'
  BY <1>0, <1>7 DEF StartQueue, Fault, LoopInv, ServerUp, Accepted
<1>8. ASSUME QueueUp PROVE LoopInv'
  BY <1>0, <1>8 DEF QueueUp, WaitEnds, Fault, LoopInv, ServerUp, Accepted
<1>9. ASSUME QueueDown PROVE LoopInv'
  BY <1>0, <1>9 DEF QueueDown, WaitEnds, Fault, LoopInv, ServerUp, Accepted
<1>10. ASSUME DestroyCmId PROVE LoopInv'
  BY <1>0, <1>10 DEF DestroyCmId, Close, Current, LoopInv, ServerUp, Accepted
<1>11. ASSUME Unwind PROVE LoopInv'
  BY <1>0, <1>11 DEF Unwind, StopAndFreeQueue, Close, LoopInv, ServerUp, Accepted
<1>12. ASSUME GetReqForBuf PROVE LoopInv'
  BY <1>0, <1>12 DEF GetReqForBuf, LeaveQueues, Fault, LoopInv, ServerUp, Accepted
<1>13. ASSUME PostRecv PROVE LoopInv'
  BY <1>0, <1>13 DEF PostRecv, LeaveQueues, Fault, LoopInv, ServerUp, Accepted
<1>14. ASSUME RegionReceived PROVE LoopInv'
  BY <1>0, <1>14 DEF RegionReceived, LoopInv, ServerUp, Accepted
<1>15. ASSUME RmMod PROVE LoopInv'
  BY <1>0, <1>15 DEF RmMod, LoopInv, ServerUp, Accepted
<1>16. ASSUME StopAndFree PROVE LoopInv'
  BY <1>0, <1>16 DEF StopAndFree, StopAndFreeQueue, Close, LoopInv, ServerUp,
       Accepted
<1>17. ASSUME StartServer PROVE LoopInv'
  BY <1>0, <1>17 DEF StartServer, alloc_control, Fault, ServerTypes, ClientInv,
       ClientTypes, LoopInv, ServerUp, Accepted
<1>18. ASSUME NEW n \in Conns, OnConnectRequest(n) PROVE LoopInv'
  BY <1>0, <1>18 DEF OnConnectRequest, Requested, Die, Fault, LoopControl,
       get_device, ServerTypes, LoopInv, ServerUp, Accepted
<1>19. ASSUME NEW n \in Conns, OnConnection(n) PROVE LoopInv'
  BY <1>0, <1>19 DEF OnConnection, Connected, Die, Fault, LoopControl, get_device,
       ServerTypes, LoopInv, ServerUp, Accepted
<1>20. ASSUME NEW n \in Conns, OnDisconnect(n) PROVE LoopInv'
  BY <1>0, <1>20 DEF OnDisconnect, LoopControl, get_device, ServerTypes, LoopInv,
       ServerUp, Accepted
<1>21. ASSUME NEW n \in Conns, OnUnknownEvent(n) PROVE LoopInv'
  BY <1>0, <1>21 DEF OnUnknownEvent, LoopControl, get_device, ServerTypes, LoopInv,
       ServerUp, Accepted
<1>22. CASE UNCHANGED vars
  BY <1>0, <1>22 DEF LoopInv, ServerUp, Accepted
<1>23. ASSUME NEW n \in Conns, Disconnected(n) PROVE LoopInv'
  BY <1>0, <1>23 DEF Disconnected, LoopInv, ServerUp, Accepted
<1> QED
  BY <1>1, <1>2, <1>3, <1>4, <1>5, <1>6, <1>7, <1>8, <1>9, <1>10, <1>11, <1>12,
       <1>13, <1>14, <1>15, <1>16, <1>17, <1>18, <1>19, <1>20, <1>21, <1>22, <1>23 DEF
       Next, ClientHandler, ClientStep, ServerStep

\* No message before the request.
LEMMA UnsentStep ==
  ASSUME ClientInv, LinkInv, [Next]_vars PROVE UnsentInv'
<1> USE ConnectAssumption, QueuesNat
<1> USE DEF vars, clientVars, connVars, serverVars, loadVars
<1>0. ClientInv /\ ServerTypes /\ LoopInv /\ UnsentInv /\ AnswerInv /\ KnownInv
  BY DEF LinkInv
<1>1. ASSUME NEW n \in Conns, AddrResolved(n) PROVE UnsentInv'
  BY <1>0, <1>1 DEF AddrResolved, Fault, ClientInv, ClientTypes, UnsentInv,
       Accepted, Kinds
<1>2. ASSUME NEW n \in Conns, RouteResolved(n) PROVE UnsentInv'
  <2>1. UNCHANGED serverVars
    BY <1>2 DEF RouteResolved
  <2>2. CASE cst' = [cst EXCEPT ![n] = "request"] /\ net' = net \cup {<<"REQ", n>>}
    BY <1>0, <1>2, <2>1, <2>2 DEF RouteResolved, ClientInv, ClientTypes, UnsentInv,
         Accepted, Kinds, serverVars
  <2>3. CASE cst' = [cst EXCEPT ![n] = "stuck"] /\ net' = net
    BY <1>0, <1>2, <2>1, <2>3 DEF RouteResolved, ClientInv, ClientTypes, UnsentInv,
         Accepted, Kinds, serverVars
  <2> QED
    BY <1>2, <2>2, <2>3 DEF RouteResolved
<1>3. ASSUME NEW n \in Conns, CmErrorEvent(n) PROVE UnsentInv'
  BY <1>0, <1>3 DEF CmErrorEvent, Fault, ClientInv, ClientTypes, UnsentInv,
       Accepted, Kinds
<1>4. ASSUME NEW n \in Conns, Rejected(n) PROVE UnsentInv'
  BY <1>0, <1>4 DEF Rejected, ClientInv, ClientTypes, UnsentInv, Accepted, Kinds
<1>5. ASSUME NEW n \in Conns, Established(n) PROVE UnsentInv'
  BY <1>0, <1>5 DEF Established, ClientInv, ClientTypes, UnsentInv, Accepted, Kinds
<1>6. ASSUME InsMod PROVE UnsentInv'
  BY <1>0, <1>6 DEF InsMod, sswap_rdma_create_ctrl, Refused, Fault, UnsentInv, Accepted,
       Kinds
<1>7. ASSUME StartQueue PROVE UnsentInv'
  BY <1>0, <1>7, Beginning DEF UnsentInv, Accepted, Kinds, serverVars
<1>8. ASSUME QueueUp PROVE UnsentInv'
  BY <1>0, <1>8 DEF QueueUp, WaitEnds, Fault, UnsentInv, Accepted, Kinds
<1>9. ASSUME QueueDown PROVE UnsentInv'
  BY <1>0, <1>9 DEF QueueDown, WaitEnds, Fault, UnsentInv, Accepted, Kinds
<1>10. ASSUME DestroyCmId PROVE UnsentInv'
  <2>1. CASE UNCHANGED <<cst, net>>
    BY <1>0, <1>10, <2>1, Closing DEF UnsentInv, Accepted, Kinds, serverVars
  <2>2. ASSUME NEW n \in Conns, Close(n),
               cst[n] \in {"address", "route", "request", "established", "stuck"}
        PROVE  UnsentInv'
    BY <1>0, <1>10, <2>2, Closing, CloseEffect DEF ClientInv, UnsentInv, Accepted,
         Kinds, serverVars
  <2> QED
    BY <1>10, <2>1, <2>2, Closing
<1>11. ASSUME Unwind PROVE UnsentInv'
  <2>1. CASE UNCHANGED <<cst, net>>
    BY <1>0, <1>11, <2>1, Closing DEF UnsentInv, Accepted, Kinds, serverVars
  <2>2. ASSUME NEW n \in Conns, Close(n),
               cst[n] \in {"address", "route", "request", "established", "stuck"}
        PROVE  UnsentInv'
    BY <1>0, <1>11, <2>2, Closing, CloseEffect DEF ClientInv, UnsentInv, Accepted,
         Kinds, serverVars
  <2> QED
    BY <1>11, <2>1, <2>2, Closing
<1>12. ASSUME GetReqForBuf PROVE UnsentInv'
  BY <1>0, <1>12 DEF GetReqForBuf, LeaveQueues, Fault, UnsentInv, Accepted, Kinds
<1>13. ASSUME PostRecv PROVE UnsentInv'
  BY <1>0, <1>13 DEF PostRecv, LeaveQueues, Fault, UnsentInv, Accepted, Kinds
<1>14. ASSUME RegionReceived PROVE UnsentInv'
  BY <1>0, <1>14 DEF RegionReceived, UnsentInv, Accepted, Kinds
<1>15. ASSUME RmMod PROVE UnsentInv'
  BY <1>0, <1>15 DEF RmMod, UnsentInv, Accepted, Kinds
<1>16. ASSUME StopAndFree PROVE UnsentInv'
  <2>1. CASE UNCHANGED <<cst, net>>
    BY <1>0, <1>16, <2>1, Closing DEF UnsentInv, Accepted, Kinds, serverVars
  <2>2. ASSUME NEW n \in Conns, Close(n),
               cst[n] \in {"address", "route", "request", "established", "stuck"}
        PROVE  UnsentInv'
    BY <1>0, <1>16, <2>2, Closing, CloseEffect DEF ClientInv, UnsentInv, Accepted,
         Kinds, serverVars
  <2> QED
    BY <1>16, <2>1, <2>2, Closing
<1>17. ASSUME StartServer PROVE UnsentInv'
  BY <1>0, <1>17 DEF StartServer, alloc_control, Fault, UnsentInv, Accepted, Kinds
<1>18. ASSUME NEW n \in Conns, OnConnectRequest(n) PROVE UnsentInv'
  BY <1>0, <1>18 DEF OnConnectRequest, Requested, Die, Fault, ServerTypes,
       UnsentInv, Accepted, Kinds
<1>19. ASSUME NEW n \in Conns, OnConnection(n) PROVE UnsentInv'
  BY <1>0, <1>19 DEF OnConnection, Connected, Die, Fault, ServerTypes, UnsentInv,
       Accepted, Kinds
<1>20. ASSUME NEW n \in Conns, OnDisconnect(n) PROVE UnsentInv'
  BY <1>0, <1>20 DEF OnDisconnect, ServerTypes, UnsentInv, Accepted, Kinds
<1>21. ASSUME NEW n \in Conns, OnUnknownEvent(n) PROVE UnsentInv'
  BY <1>0, <1>21 DEF OnUnknownEvent, ServerTypes, UnsentInv, Accepted, Kinds
<1>22. CASE UNCHANGED vars
  BY <1>0, <1>22 DEF UnsentInv, Accepted, Kinds
<1>23. ASSUME NEW n \in Conns, Disconnected(n) PROVE UnsentInv'
  BY <1>0, <1>23 DEF Disconnected, UnsentInv, Accepted, Kinds
<1> QED
  BY <1>1, <1>2, <1>3, <1>4, <1>5, <1>6, <1>7, <1>8, <1>9, <1>10, <1>11, <1>12,
       <1>13, <1>14, <1>15, <1>16, <1>17, <1>18, <1>19, <1>20, <1>21, <1>22, <1>23 DEF
       Next, ClientHandler, ClientStep, ServerStep

\* One answer to a request.
LEMMA AnswerStep ==
  ASSUME ClientInv, LinkInv, [Next]_vars PROVE AnswerInv'
<1> USE ConnectAssumption, QueuesNat
<1> USE DEF vars, clientVars, connVars, serverVars, loadVars
<1>0. ClientInv /\ ServerTypes /\ LoopInv /\ UnsentInv /\ AnswerInv /\ KnownInv
  BY DEF LinkInv
<1>00. \A m \in Conns : Orphan(m) => Orphan(m)' \/ cst'[m] = "closed"
  BY OrphanStep
<1>1. ASSUME NEW n \in Conns, AddrResolved(n) PROVE AnswerInv'
  BY <1>0, <1>00, <1>1 DEF AddrResolved, Fault, ClientInv, ClientTypes, AnswerInv,
       UnsentInv, Accepted, Kinds
<1>2. ASSUME NEW n \in Conns, RouteResolved(n) PROVE AnswerInv'
  <2>1. UNCHANGED serverVars
    BY <1>2 DEF RouteResolved
  <2>2. CASE cst' = [cst EXCEPT ![n] = "request"] /\ net' = net \cup {<<"REQ", n>>}
    BY <1>0, <1>00, <1>2, <2>1, <2>2 DEF RouteResolved, ClientInv, ClientTypes, AnswerInv,
         UnsentInv, Accepted, Kinds, serverVars
  <2>3. CASE cst' = [cst EXCEPT ![n] = "stuck"] /\ net' = net
    BY <1>0, <1>00, <1>2, <2>1, <2>3 DEF RouteResolved, ClientInv, ClientTypes, AnswerInv,
         UnsentInv, Accepted, Kinds, serverVars
  <2> QED
    BY <1>2, <2>2, <2>3 DEF RouteResolved
<1>3. ASSUME NEW n \in Conns, CmErrorEvent(n) PROVE AnswerInv'
  BY <1>0, <1>00, <1>3 DEF CmErrorEvent, Fault, ClientInv, ClientTypes, AnswerInv,
       UnsentInv, Accepted, Kinds
<1>4. ASSUME NEW n \in Conns, Rejected(n) PROVE AnswerInv'
  BY <1>0, <1>00, <1>4 DEF Rejected, ClientInv, ClientTypes, AnswerInv, UnsentInv,
       Accepted, Kinds
<1>5. ASSUME NEW n \in Conns, Established(n) PROVE AnswerInv'
  BY <1>0, <1>00, <1>5 DEF Established, ClientInv, ClientTypes, AnswerInv, UnsentInv,
       Accepted, Kinds
<1>6. ASSUME InsMod PROVE AnswerInv'
  BY <1>0, <1>00, <1>6 DEF InsMod, sswap_rdma_create_ctrl, Refused, Fault, AnswerInv,
       UnsentInv,
       Accepted, Kinds
<1>7. ASSUME StartQueue PROVE AnswerInv'
  BY <1>0, <1>00, <1>7, Beginning DEF AnswerInv, UnsentInv, Accepted, Kinds, serverVars
<1>8. ASSUME QueueUp PROVE AnswerInv'
  BY <1>0, <1>00, <1>8 DEF QueueUp, WaitEnds, Fault, AnswerInv, UnsentInv, Accepted, Kinds
<1>9. ASSUME QueueDown PROVE AnswerInv'
  BY <1>0, <1>00, <1>9 DEF QueueDown, WaitEnds, Fault, AnswerInv, UnsentInv, Accepted,
       Kinds
<1>10. ASSUME DestroyCmId PROVE AnswerInv'
  <2>1. CASE UNCHANGED <<cst, net>>
    BY <1>0, <1>00, <1>10, <2>1, Closing DEF AnswerInv, UnsentInv, Accepted, Kinds,
         serverVars
  <2>2. ASSUME NEW n \in Conns, Close(n),
               cst[n] \in {"address", "route", "request", "established", "stuck"}
        PROVE  AnswerInv'
    <3>1. UNCHANGED squeue
      BY <1>0, <1>10, Closing DEF serverVars
    <3>2. /\ cst'[n] = "closed" /\ \A m \in Conns : m # n => cst'[m] = cst[m]
          /\ \A m \in Conns, k \in Kinds :
               <<k, m>> \in net' <=> \/ <<k, m>> \in net
                                     \/ m = n /\ k = "DREQ" /\ cst[n] = "established"
                                     \/ m = n /\ k = "REJ" /\ cst[n] = "request"
      BY <1>0, <2>2, CloseEffect DEF ClientInv
    <3> QED
      BY <1>0, <1>00, <3>1, <3>2 DEF AnswerInv, UnsentInv, Accepted, Kinds
  <2> QED
    BY <1>10, <2>1, <2>2, Closing
<1>11. ASSUME Unwind PROVE AnswerInv'
  <2>1. CASE UNCHANGED <<cst, net>>
    BY <1>0, <1>00, <1>11, <2>1, Closing DEF AnswerInv, UnsentInv, Accepted, Kinds,
         serverVars
  <2>2. ASSUME NEW n \in Conns, Close(n),
               cst[n] \in {"address", "route", "request", "established", "stuck"}
        PROVE  AnswerInv'
    <3>1. UNCHANGED squeue
      BY <1>0, <1>11, Closing DEF serverVars
    <3>2. /\ cst'[n] = "closed" /\ \A m \in Conns : m # n => cst'[m] = cst[m]
          /\ \A m \in Conns, k \in Kinds :
               <<k, m>> \in net' <=> \/ <<k, m>> \in net
                                     \/ m = n /\ k = "DREQ" /\ cst[n] = "established"
                                     \/ m = n /\ k = "REJ" /\ cst[n] = "request"
      BY <1>0, <2>2, CloseEffect DEF ClientInv
    <3> QED
      BY <1>0, <1>00, <3>1, <3>2 DEF AnswerInv, UnsentInv, Accepted, Kinds
  <2> QED
    BY <1>11, <2>1, <2>2, Closing
<1>12. ASSUME GetReqForBuf PROVE AnswerInv'
  BY <1>0, <1>00, <1>12 DEF GetReqForBuf, LeaveQueues, Fault, AnswerInv, UnsentInv,
       Accepted,
       Kinds
<1>13. ASSUME PostRecv PROVE AnswerInv'
  BY <1>0, <1>00, <1>13 DEF PostRecv, LeaveQueues, Fault, AnswerInv, UnsentInv, Accepted,
       Kinds
<1>14. ASSUME RegionReceived PROVE AnswerInv'
  BY <1>0, <1>00, <1>14 DEF RegionReceived, AnswerInv, UnsentInv, Accepted, Kinds
<1>15. ASSUME RmMod PROVE AnswerInv'
  BY <1>0, <1>00, <1>15 DEF RmMod, AnswerInv, UnsentInv, Accepted, Kinds
<1>16. ASSUME StopAndFree PROVE AnswerInv'
  <2>1. CASE UNCHANGED <<cst, net>>
    BY <1>0, <1>00, <1>16, <2>1, Closing DEF AnswerInv, UnsentInv, Accepted, Kinds,
         serverVars
  <2>2. ASSUME NEW n \in Conns, Close(n),
               cst[n] \in {"address", "route", "request", "established", "stuck"}
        PROVE  AnswerInv'
    <3>1. UNCHANGED squeue
      BY <1>0, <1>16, Closing DEF serverVars
    <3>2. /\ cst'[n] = "closed" /\ \A m \in Conns : m # n => cst'[m] = cst[m]
          /\ \A m \in Conns, k \in Kinds :
               <<k, m>> \in net' <=> \/ <<k, m>> \in net
                                     \/ m = n /\ k = "DREQ" /\ cst[n] = "established"
                                     \/ m = n /\ k = "REJ" /\ cst[n] = "request"
      BY <1>0, <2>2, CloseEffect DEF ClientInv
    <3> QED
      BY <1>0, <1>00, <3>1, <3>2 DEF AnswerInv, UnsentInv, Accepted, Kinds
  <2> QED
    BY <1>16, <2>1, <2>2, Closing
<1>17. ASSUME StartServer PROVE AnswerInv'
  BY <1>0, <1>00, <1>17, UnloadedLeft DEF StartServer, alloc_control, Fault,
       AnswerInv, UnsentInv, Accepted, Kinds
<1>18. ASSUME NEW n \in Conns, OnConnectRequest(n) PROVE AnswerInv'
  <2>1. <<"REQ", n>> \in net /\ UNCHANGED cst
    BY <1>18 DEF OnConnectRequest, Requested
  <2>2. CASE UNCHANGED squeue /\ net' = net \ {<<"REQ", n>>}
    BY <1>0, <1>00, <2>1, <2>2 DEF AnswerInv, UnsentInv, Accepted, Kinds, serverVars
  <2>3. CASE /\ squeue' = [squeue EXCEPT ![n] = queue_ctr]
             /\ net' = (net \ {<<"REQ", n>>}) \cup {<<"REP", n>>}
    <3>1. squeue'[n] # -1 /\ \A m \in Conns : m # n => squeue'[m] = squeue[m]
      BY <1>0, <1>00, <2>3 DEF ServerTypes
    <3>2. \A m \in Conns, k \in Kinds :
            m # n => (<<k, m>> \in net' <=> <<k, m>> \in net)
      BY <2>3
    <3>3. /\ <<"REQ", n>> \notin net' /\ <<"REP", n>> \in net'
          /\ \A k \in Kinds \ {"REQ", "REP"} : <<k, n>> \in net' <=> <<k, n>> \in net
      BY <2>3
    <3>4. cst[n] # "established"
      BY <1>0, <2>1 DEF AnswerInv
    <3> QED
      BY <1>0, <1>00, <2>1, <3>1, <3>2, <3>3, <3>4 DEF AnswerInv, UnsentInv, Accepted,
           Kinds, serverVars
  <2> QED
    BY <1>18, <2>2, <2>3 DEF OnConnectRequest, Die
<1>19. ASSUME NEW n \in Conns, OnConnection(n) PROVE AnswerInv'
  BY <1>0, <1>00, <1>19 DEF OnConnection, Connected, Die, Fault, ServerTypes, AnswerInv,
       UnsentInv, Accepted, Kinds
<1>20. ASSUME NEW n \in Conns, OnDisconnect(n) PROVE AnswerInv'
  BY <1>0, <1>00, <1>20 DEF OnDisconnect, ServerTypes, AnswerInv, UnsentInv, Accepted,
       Kinds
<1>21. ASSUME NEW n \in Conns, OnUnknownEvent(n) PROVE AnswerInv'
  BY <1>0, <1>00, <1>21 DEF OnUnknownEvent, ServerTypes, AnswerInv, UnsentInv, Accepted,
       Kinds
<1>22. CASE UNCHANGED vars
  BY <1>0, <1>00, <1>22 DEF AnswerInv, UnsentInv, Accepted, Kinds
<1>23. ASSUME NEW n \in Conns, Disconnected(n) PROVE AnswerInv'
  BY <1>0, <1>00, <1>23 DEF Disconnected, AnswerInv, UnsentInv, Accepted, Kinds
<1> QED
  BY <1>1, <1>2, <1>3, <1>4, <1>5, <1>6, <1>7, <1>8, <1>9, <1>10, <1>11, <1>12,
       <1>13, <1>14, <1>15, <1>16, <1>17, <1>18, <1>19, <1>20, <1>21, <1>22, <1>23 DEF
       Next, ClientHandler, ClientStep, ServerStep

\* A server that is up knows the connections it hears of.
LEMMA KnownStep ==
  ASSUME ClientInv, LinkInv, [Next]_vars PROVE KnownInv'
<1> USE ConnectAssumption, QueuesNat
<1> USE DEF vars, clientVars, connVars, serverVars, loadVars
<1>0. ClientInv /\ ServerTypes /\ LoopInv /\ UnsentInv /\ AnswerInv /\ KnownInv
  BY DEF LinkInv
<1>1. ASSUME NEW n \in Conns, AddrResolved(n) PROVE KnownInv'
  BY <1>0, <1>1 DEF AddrResolved, Fault, ClientInv, ClientTypes, KnownInv, Accepted,
       Kinds, ServerUp
<1>2. ASSUME NEW n \in Conns, RouteResolved(n) PROVE KnownInv'
  <2>1. UNCHANGED serverVars
    BY <1>2 DEF RouteResolved
  <2>2. CASE cst' = [cst EXCEPT ![n] = "request"] /\ net' = net \cup {<<"REQ", n>>}
    BY <1>0, <1>2, <2>1, <2>2 DEF RouteResolved, ClientInv, ClientTypes, KnownInv,
         AnswerInv, Accepted, Kinds, ServerUp, serverVars
  <2>3. CASE cst' = [cst EXCEPT ![n] = "stuck"] /\ net' = net
    BY <1>0, <1>2, <2>1, <2>3 DEF RouteResolved, ClientInv, ClientTypes, KnownInv,
         AnswerInv, Accepted, Kinds, ServerUp, serverVars
  <2> QED
    BY <1>2, <2>2, <2>3 DEF RouteResolved
<1>3. ASSUME NEW n \in Conns, CmErrorEvent(n) PROVE KnownInv'
  BY <1>0, <1>3 DEF CmErrorEvent, Fault, ClientInv, ClientTypes, KnownInv, Accepted,
       Kinds, ServerUp
<1>4. ASSUME NEW n \in Conns, Rejected(n) PROVE KnownInv'
  BY <1>0, <1>4 DEF Rejected, ClientInv, ClientTypes, KnownInv, Accepted, Kinds,
       ServerUp
<1>5. ASSUME NEW n \in Conns, Established(n) PROVE KnownInv'
  BY <1>0, <1>5 DEF Established, ClientInv, ClientTypes, KnownInv, Accepted, Kinds,
       ServerUp
<1>6. ASSUME InsMod PROVE KnownInv'
  BY <1>0, <1>6 DEF InsMod, sswap_rdma_create_ctrl, Refused, Fault, KnownInv, Accepted,
       Kinds, ServerUp
<1>7. ASSUME StartQueue PROVE KnownInv'
  BY <1>0, <1>7, Beginning DEF KnownInv, AnswerInv, Accepted, Kinds, ServerUp,
       serverVars
<1>8. ASSUME QueueUp PROVE KnownInv'
  BY <1>0, <1>8 DEF QueueUp, WaitEnds, Fault, KnownInv, Accepted, Kinds, ServerUp
<1>9. ASSUME QueueDown PROVE KnownInv'
  BY <1>0, <1>9 DEF QueueDown, WaitEnds, Fault, KnownInv, Accepted, Kinds, ServerUp
<1>10. ASSUME DestroyCmId PROVE KnownInv'
  <2>1. CASE UNCHANGED <<cst, net>>
    BY <1>0, <1>10, <2>1, Closing DEF KnownInv, AnswerInv, Accepted, Kinds,
         ServerUp, serverVars
  <2>2. ASSUME NEW n \in Conns, Close(n), ~Orphan(n),
               cst[n] \in {"address", "route", "request", "established", "stuck"}
        PROVE  KnownInv'
    BY <1>0, <1>10, <2>2, Closing, CloseEffect DEF ClientInv, KnownInv, AnswerInv,
         Accepted, Kinds, ServerUp, serverVars
  <2> QED
    BY <1>10, <2>1, <2>2, Closing
<1>11. ASSUME Unwind PROVE KnownInv'
  <2>1. CASE UNCHANGED <<cst, net>>
    BY <1>0, <1>11, <2>1, Closing DEF KnownInv, AnswerInv, Accepted, Kinds,
         ServerUp, serverVars
  <2>2. ASSUME NEW n \in Conns, Close(n), ~Orphan(n),
               cst[n] \in {"address", "route", "request", "established", "stuck"}
        PROVE  KnownInv'
    BY <1>0, <1>11, <2>2, Closing, CloseEffect DEF ClientInv, KnownInv, AnswerInv,
         Accepted, Kinds, ServerUp, serverVars
  <2> QED
    BY <1>11, <2>1, <2>2, Closing
<1>12. ASSUME GetReqForBuf PROVE KnownInv'
  BY <1>0, <1>12 DEF GetReqForBuf, LeaveQueues, Fault, KnownInv, Accepted, Kinds,
       ServerUp
<1>13. ASSUME PostRecv PROVE KnownInv'
  BY <1>0, <1>13 DEF PostRecv, LeaveQueues, Fault, KnownInv, Accepted, Kinds, ServerUp
<1>14. ASSUME RegionReceived PROVE KnownInv'
  BY <1>0, <1>14 DEF RegionReceived, KnownInv, Accepted, Kinds, ServerUp
<1>15. ASSUME RmMod PROVE KnownInv'
  BY <1>0, <1>15 DEF RmMod, KnownInv, Accepted, Kinds, ServerUp
<1>16. ASSUME StopAndFree PROVE KnownInv'
  <2>1. CASE UNCHANGED <<cst, net>>
    BY <1>0, <1>16, <2>1, Closing DEF KnownInv, AnswerInv, Accepted, Kinds,
         ServerUp, serverVars
  <2>2. ASSUME NEW n \in Conns, Close(n), ~Orphan(n),
               cst[n] \in {"address", "route", "request", "established", "stuck"}
        PROVE  KnownInv'
    BY <1>0, <1>16, <2>2, Closing, CloseEffect DEF ClientInv, KnownInv, AnswerInv,
         Accepted, Kinds, ServerUp, serverVars
  <2> QED
    BY <1>16, <2>1, <2>2, Closing
<1>17. ASSUME StartServer PROVE KnownInv'
  BY <1>0, <1>17, UnloadedLeft DEF StartServer, alloc_control, Fault,
       Orphan, KnownInv, Accepted, Kinds, ServerUp
<1>18. ASSUME NEW n \in Conns, OnConnectRequest(n) PROVE KnownInv'
  BY <1>0, <1>18 DEF OnConnectRequest, Requested, Die, Fault, ServerTypes, KnownInv,
       Accepted, Kinds, ServerUp
<1>19. ASSUME NEW n \in Conns, OnConnection(n) PROVE KnownInv'
  BY <1>0, <1>19 DEF OnConnection, Connected, Die, Fault, ServerTypes, KnownInv,
       Accepted, Kinds, ServerUp
<1>20. ASSUME NEW n \in Conns, OnDisconnect(n) PROVE KnownInv'
  BY <1>0, <1>20 DEF OnDisconnect, ServerTypes, KnownInv, Accepted, Kinds, ServerUp
<1>21. ASSUME NEW n \in Conns, OnUnknownEvent(n) PROVE KnownInv'
  BY <1>0, <1>21 DEF OnUnknownEvent, ServerTypes, KnownInv, Accepted, Kinds,
       ServerUp
<1>22. CASE UNCHANGED vars
  BY <1>0, <1>22 DEF KnownInv, Accepted, Kinds, ServerUp
<1>23. ASSUME NEW n \in Conns, Disconnected(n) PROVE KnownInv'
  BY <1>0, <1>23 DEF Disconnected, KnownInv, Accepted, Kinds, ServerUp
<1> QED
  BY <1>1, <1>2, <1>3, <1>4, <1>5, <1>6, <1>7, <1>8, <1>9, <1>10, <1>11, <1>12,
       <1>13, <1>14, <1>15, <1>16, <1>17, <1>18, <1>19, <1>20, <1>21, <1>22, <1>23 DEF
       Next, ClientHandler, ClientStep, ServerStep

\* The server is down and no message is in flight at the start.
LEMMA InitLink == Init => LinkInv
<1> SUFFICES ASSUME Init PROVE LinkInv
  OBVIOUS
<1> USE ConnectAssumption, QueuesNat DEF Init
<1>1. ServerTypes
  BY DEF ServerTypes, ServerQueues
<1>2. LoopInv /\ UnsentInv /\ AnswerInv /\ KnownInv
  BY DEF LoopInv, UnsentInv, AnswerInv, KnownInv, ServerUp, Accepted, Kinds
<1> QED
  BY <1>1, <1>2 DEF LinkInv

\* The server and the messages: a connection is requested once and answered once
\* it is accepted, and a server that is up knows every connection in use.
THEOREM LinkKept == Spec => [](ClientInv /\ LinkInv)
<1>1. ClientInv /\ LinkInv /\ [Next]_vars => LinkInv'
  BY ServerTypeStep, LoopStep, UnsentStep, AnswerStep, KnownStep DEF LinkInv
<1> QED
  BY <1>1, InitLink, ClientKept, PTL DEF Spec

\* Types of client, server and connections: no load runs out of connection
\* numbers, and the server's first loop stays inside its queue array.
THEOREM TypeCorrect == Spec => []TypeOK
<1>1. ClientInv /\ LinkInv => TypeOK
  BY TypeParts DEF ClientInv, LoadInv, LinkInv
<1> QED
  BY <1>1, LinkKept, PTL

-----------------------------------------------------------------------------
(* The order in which the server takes requests.                           *)

\* Requests are taken in the order of the connections, and the server's counter
\* is one past the queue it gave last.
OrderInv ==
  /\ \A n \in Conns : squeue[n] < queue_ctr
  /\ \A m, n \in Conns : Accepted(m) /\ Accepted(n) /\ m < n => squeue[m] < squeue[n]
  /\ \A m, n \in Conns : Accepted(m) /\ <<"REQ", n>> \in net => m < n
  /\ ServerUp /\ queue_ctr > 0 => \E m \in Conns : squeue[m] = queue_ctr - 1

\* So the queues of a load get consecutive queues of the server.
SequenceInv ==
  cpc \in AllUp \cup {"start", "wait"} =>
    \A i \in ClientQueues :
      Live(i) \/ (Pending /\ i = qi /\ Accepted(conn[i]))
        => squeue[conn[i]] = squeue[conn[0]] + i

\* The region is sent on the server's queue 0, once.
RegionInv ==
  /\ \A n \in region : /\ squeue[n] = 0 /\ <<"RTU", n>> \notin net
                       /\ cst[n] \in {"established", "closed"}
  /\ cpc = "ready" => conn[0] \in region

\* The first load after the server was started asks for each of its queues once.
CountInv ==
  /\ sloads = 0 => cpc = "unloaded" /\ queue_ctr = 0 /\ net = {}
  /\ sloads = 1 =>
       /\ queue_ctr <= numqueues
       /\ cpc = "start" => queue_ctr <= qi
       /\ Pending => /\ queue_ctr <= qi + 1
                     /\ cst[conn[qi]] \in {"address", "route"} => queue_ctr <= qi
       /\ cpc \in AllUp \cup {"start"} => \A n \in Conns : <<"REQ", n>> \notin net
       /\ Pending => \A n \in Conns :
            <<"REQ", n>> \in net => n = conn[qi] /\ queue_ctr <= qi
       /\ \A n \in Conns : <<"REQ", n>> \in net => queue_ctr < numqueues
       /\ \A m, n \in Conns : <<"REQ", n>> \in net /\ <<"REQ", m>> \in net => n = m

RunInv == OrderInv /\ SequenceInv /\ RegionInv

\* Requests are taken in order.
LEMMA OrderStep ==
  ASSUME ClientInv, LinkInv, RunInv, [Next]_vars PROVE OrderInv'
<1> USE ConnectAssumption, QueuesNat
<1> USE DEF vars, clientVars, connVars, serverVars, loadVars
<1>0. ClientInv /\ ServerTypes /\ LoopInv /\ UnsentInv /\ AnswerInv /\ KnownInv /\ OrderInv
      /\ SequenceInv /\ RegionInv
  BY DEF LinkInv, RunInv
<1>1. ASSUME NEW n \in Conns, AddrResolved(n) PROVE OrderInv'
  BY <1>0, <1>1 DEF AddrResolved, Fault, ClientInv, ClientTypes, OrderInv, Accepted,
       ServerUp
<1>2. ASSUME NEW n \in Conns, RouteResolved(n) PROVE OrderInv'
  <2>1. UNCHANGED serverVars
    BY <1>2 DEF RouteResolved
  <2>2. n = last
    BY <1>0, <1>2, Sender DEF RouteResolved
  <2>3. ASSUME NEW m \in Conns, Accepted(m) PROVE m < n
    <3>1. m # n
      BY <1>0, <1>2, <2>3 DEF RouteResolved, UnsentInv
    <3>2. ~(m > last)
      BY <1>0, <2>3 DEF ClientInv, StateInv, UnsentInv
    <3> QED
      BY <2>2, <3>1, <3>2 DEF Conns
  <2>4. \A k \in Conns : <<"REQ", k>> \in net' => k = n \/ <<"REQ", k>> \in net
    BY <1>2 DEF RouteResolved
  <2> QED
    BY <1>0, <2>1, <2>3, <2>4 DEF OrderInv, Accepted, ServerUp
<1>3. ASSUME NEW n \in Conns, CmErrorEvent(n) PROVE OrderInv'
  BY <1>0, <1>3 DEF CmErrorEvent, Fault, ClientInv, ClientTypes, OrderInv, Accepted,
       ServerUp
<1>4. ASSUME NEW n \in Conns, Rejected(n) PROVE OrderInv'
  BY <1>0, <1>4 DEF Rejected, ClientInv, ClientTypes, OrderInv, Accepted, ServerUp
<1>5. ASSUME NEW n \in Conns, Established(n) PROVE OrderInv'
  BY <1>0, <1>5 DEF Established, ClientInv, ClientTypes, OrderInv, Accepted,
       ServerUp
<1>6. ASSUME InsMod PROVE OrderInv'
  BY <1>0, <1>6 DEF InsMod, sswap_rdma_create_ctrl, Refused, Fault, OrderInv, Accepted,
       ServerUp
<1>7. ASSUME StartQueue PROVE OrderInv'
  BY <1>0, <1>7, Beginning DEF OrderInv, Accepted, Kinds, ServerUp, serverVars
<1>8. ASSUME QueueUp PROVE OrderInv'
  BY <1>0, <1>8 DEF QueueUp, WaitEnds, Fault, OrderInv, Accepted, ServerUp
<1>9. ASSUME QueueDown PROVE OrderInv'
  BY <1>0, <1>9 DEF QueueDown, WaitEnds, Fault, OrderInv, Accepted, ServerUp
<1>10. ASSUME DestroyCmId PROVE OrderInv'
  <2>1. CASE UNCHANGED <<cst, net>>
    BY <1>0, <1>10, <2>1, Closing DEF OrderInv, Accepted, Kinds, ServerUp,
         serverVars
  <2>2. ASSUME NEW n \in Conns, Close(n),
               cst[n] \in {"address", "route", "request", "established", "stuck"}
        PROVE  OrderInv'
    BY <1>0, <1>10, <2>2, Closing, CloseEffect DEF ClientInv, OrderInv, Accepted,
         Kinds, ServerUp, serverVars
  <2> QED
    BY <1>10, <2>1, <2>2, Closing
<1>11. ASSUME Unwind PROVE OrderInv'
  <2>1. CASE UNCHANGED <<cst, net>>
    BY <1>0, <1>11, <2>1, Closing DEF OrderInv, Accepted, Kinds, ServerUp,
         serverVars
  <2>2. ASSUME NEW n \in Conns, Close(n),
               cst[n] \in {"address", "route", "request", "established", "stuck"}
        PROVE  OrderInv'
    BY <1>0, <1>11, <2>2, Closing, CloseEffect DEF ClientInv, OrderInv, Accepted,
         Kinds, ServerUp, serverVars
  <2> QED
    BY <1>11, <2>1, <2>2, Closing
<1>12. ASSUME GetReqForBuf PROVE OrderInv'
  BY <1>0, <1>12 DEF GetReqForBuf, LeaveQueues, Fault, OrderInv, Accepted, ServerUp
<1>13. ASSUME PostRecv PROVE OrderInv'
  BY <1>0, <1>13 DEF PostRecv, LeaveQueues, Fault, OrderInv, Accepted, ServerUp
<1>14. ASSUME RegionReceived PROVE OrderInv'
  BY <1>0, <1>14 DEF RegionReceived, OrderInv, Accepted, ServerUp
<1>15. ASSUME RmMod PROVE OrderInv'
  BY <1>0, <1>15 DEF RmMod, OrderInv, Accepted, ServerUp
<1>16. ASSUME StopAndFree PROVE OrderInv'
  <2>1. CASE UNCHANGED <<cst, net>>
    BY <1>0, <1>16, <2>1, Closing DEF OrderInv, Accepted, Kinds, ServerUp,
         serverVars
  <2>2. ASSUME NEW n \in Conns, Close(n),
               cst[n] \in {"address", "route", "request", "established", "stuck"}
        PROVE  OrderInv'
    BY <1>0, <1>16, <2>2, Closing, CloseEffect DEF ClientInv, OrderInv, Accepted,
         Kinds, ServerUp, serverVars
  <2> QED
    BY <1>16, <2>1, <2>2, Closing
<1>17. ASSUME StartServer PROVE OrderInv'
  BY <1>0, <1>17 DEF StartServer, alloc_control, Fault, ServerTypes, OrderInv,
       Accepted, ServerUp
<1>18. ASSUME NEW n \in Conns, OnConnectRequest(n) PROVE OrderInv'
  <2>1. /\ <<"REQ", n>> \in net /\ \A m \in 1..n - 1 : <<"REQ", m>> \notin net
        /\ queue_ctr' = queue_ctr + 1 /\ ServerUp /\ UNCHANGED <<clientVars, connVars>>
    BY <1>18 DEF OnConnectRequest, Requested
  <2>2. /\ queue_ctr \in Nat /\ squeue \in [Conns -> Int]
    BY <1>0 DEF ServerTypes, ServerQueues
  <2>3. \A m \in Conns : Accepted(m) => m < n
    BY <1>0, <2>1 DEF OrderInv
  <2>4. CASE UNCHANGED squeue /\ net' = net \ {<<"REQ", n>>} /\ ~ServerUp'
    BY <1>0, <2>1, <2>2, <2>4 DEF OrderInv, Accepted
  <2>5. CASE /\ squeue' = [squeue EXCEPT ![n] = queue_ctr]
             /\ net' = (net \ {<<"REQ", n>>}) \cup {<<"REP", n>>}
    <3>1. squeue'[n] = queue_ctr /\ \A m \in Conns : m # n => squeue'[m] = squeue[m]
      BY <2>2, <2>5
    <3>2. \A k \in Conns : <<"REQ", k>> \in net' => n < k
      BY <2>1, <2>5 DEF Conns
    <3>3. \A m \in Conns : squeue'[m] < queue_ctr'
      BY <1>0, <2>1, <2>2, <3>1 DEF OrderInv
    <3>4. \A m, k \in Conns : Accepted(m)' /\ Accepted(k)' /\ m < k => squeue'[m] < squeue'[k]
      BY <1>0, <2>1, <2>2, <2>3, <3>1 DEF OrderInv, Accepted, Conns
    <3>5. \A m, k \in Conns : Accepted(m)' /\ <<"REQ", k>> \in net' => m < k
      BY <2>3, <3>1, <3>2 DEF Accepted, Conns
    <3>6. \E m \in Conns : squeue'[m] = queue_ctr' - 1
      BY <2>1, <2>2, <3>1
    <3> QED
      BY <3>3, <3>4, <3>5, <3>6 DEF OrderInv
  <2> QED
    BY <1>18, <2>4, <2>5 DEF OnConnectRequest, Die, ServerUp
<1>19. ASSUME NEW n \in Conns, OnConnection(n) PROVE OrderInv'
  BY <1>0, <1>19 DEF OnConnection, Connected, Die, Fault, ServerTypes, OrderInv,
       Accepted, ServerUp
<1>20. ASSUME NEW n \in Conns, OnDisconnect(n) PROVE OrderInv'
  BY <1>0, <1>20 DEF OnDisconnect, ServerTypes, OrderInv, Accepted, ServerUp
<1>21. ASSUME NEW n \in Conns, OnUnknownEvent(n) PROVE OrderInv'
  BY <1>0, <1>21 DEF OnUnknownEvent, ServerTypes, OrderInv, Accepted, ServerUp
<1>22. CASE UNCHANGED vars
  BY <1>0, <1>22 DEF OrderInv, Accepted, ServerUp
<1>23. ASSUME NEW n \in Conns, Disconnected(n) PROVE OrderInv'
  BY <1>0, <1>23 DEF Disconnected, OrderInv, Accepted, ServerUp
<1> QED
  BY <1>1, <1>2, <1>3, <1>4, <1>5, <1>6, <1>7, <1>8, <1>9, <1>10, <1>11, <1>12,
       <1>13, <1>14, <1>15, <1>16, <1>17, <1>18, <1>19, <1>20, <1>21, <1>22, <1>23 DEF
       Next, ClientHandler, ClientStep, ServerStep

\* ... and so their queues are consecutive.
LEMMA SequenceStep ==
  ASSUME ClientInv, LinkInv, RunInv, [Next]_vars PROVE SequenceInv'
<1> USE ConnectAssumption, QueuesNat
<1> USE DEF vars, clientVars, connVars, serverVars, loadVars
<1>0. ClientInv /\ ServerTypes /\ LoopInv /\ UnsentInv /\ AnswerInv /\ KnownInv /\ OrderInv
      /\ SequenceInv /\ RegionInv
  BY DEF LinkInv, RunInv
<1>1. ASSUME NEW n \in Conns, AddrResolved(n) PROVE SequenceInv'
  BY <1>0, <1>1 DEF AddrResolved, Fault, SequenceInv, Accepted, Live, Pending,
       AllUp, serverVars
<1>2. ASSUME NEW n \in Conns, RouteResolved(n) PROVE SequenceInv'
  BY <1>0, <1>2 DEF RouteResolved, Fault, SequenceInv, Accepted, Live, Pending,
       AllUp, serverVars
<1>3. ASSUME NEW n \in Conns, CmErrorEvent(n) PROVE SequenceInv'
  BY <1>0, <1>3 DEF CmErrorEvent, Fault, SequenceInv, Accepted, Live, Pending,
       AllUp, serverVars
<1>4. ASSUME NEW n \in Conns, Rejected(n) PROVE SequenceInv'
  BY <1>0, <1>4 DEF Rejected, SequenceInv, Accepted, Live, Pending, AllUp,
       serverVars
<1>5. ASSUME NEW n \in Conns, Established(n) PROVE SequenceInv'
  BY <1>0, <1>5 DEF Established, SequenceInv, Accepted, Live, Pending, AllUp,
       serverVars
<1>6. ASSUME InsMod PROVE SequenceInv'
  BY <1>0, <1>6 DEF InsMod, sswap_rdma_create_ctrl, Refused, Fault, ClientQueues,
       SequenceInv, Accepted, Live, Pending, AllUp, serverVars
<1>7. ASSUME StartQueue PROVE SequenceInv'
  <2>1. qi \in ClientQueues /\ last + 1 \in Conns /\ last \in Nat /\ UNCHANGED squeue
    BY <1>0, <1>7, FreshNumber DEF StartQueue, ClientInv, ClientTypes
  <2>2. CASE cpc' # "wait"
    BY <1>7, <2>2 DEF StartQueue, SequenceInv, AllUp
  <2>3. CASE cpc' = "wait"
    <3>1. conn' = [conn EXCEPT ![qi] = last + 1] /\ UNCHANGED qi
      BY <1>7, <2>3 DEF StartQueue
    <3>2. conn'[qi] = last + 1 /\ \A i \in ClientQueues : i # qi => conn'[i] = conn[i]
      BY <1>0, <2>1, <3>1 DEF ClientInv, ClientTypes
    <3>3. squeue[last + 1] = -1
      BY <1>0, <2>1 DEF ClientInv, StateInv, UnsentInv, Accepted
    <3>4. \A i \in ClientQueues : i < qi => squeue[conn[i]] = squeue[conn[0]] + i
      BY <1>0, <1>7 DEF StartQueue, SequenceInv, Live
    <3>5. \A i \in ClientQueues : Live(i)' => i < qi
      BY <2>3, <3>1 DEF Live, AllUp
    <3>6. \A i \in ClientQueues : i < qi => 0 \in ClientQueues /\ 0 # qi
      BY <2>1 DEF ClientQueues
    <3>7. \A i \in ClientQueues : i < qi => squeue[conn'[i]] = squeue[conn'[0]] + i
      BY <2>1, <3>2, <3>4, <3>6 DEF ClientQueues
    <3>8. ~Accepted(conn[qi])'
      BY <2>1, <3>1, <3>2, <3>3 DEF Accepted
    <3> QED
      BY <2>1, <3>1, <3>5, <3>7, <3>8 DEF SequenceInv
  <2> QED
    BY <2>2, <2>3
<1>8. ASSUME QueueUp PROVE SequenceInv'
  <2>1. Pending /\ cst[conn[qi]] = "established"
    BY <1>0, <1>8 DEF QueueUp, Pending, ClientInv, StateInv
  <2>2. qi \in ClientQueues /\ conn[qi] \in Conns
    BY <1>0, <2>1 DEF ClientInv, ClientTypes, NumberInv, ConsecutiveInv,
         ClientQueues
  <2>3. Accepted(conn[qi])
    BY <1>0, <2>1, <2>2, OwnAccepted DEF Mine
  <2>4. \A i \in ClientQueues : i <= qi => squeue[conn[i]] = squeue[conn[0]] + i
    BY <1>0, <1>8, <2>1, <2>2, <2>3 DEF QueueUp, SequenceInv, Live, ClientQueues
  <2>5. \A i \in ClientQueues : Live(i)' => i <= qi
    BY <1>0, <1>8, <2>2 DEF QueueUp, Live, AllUp, ClientQueues
  <2> QED
    BY <1>8, <2>4, <2>5 DEF QueueUp, SequenceInv, Pending
<1>9. ASSUME QueueDown PROVE SequenceInv'
  BY <1>0, <1>9 DEF QueueDown, WaitEnds, Fault, SequenceInv, Accepted, Live,
       Pending, AllUp, serverVars
<1>10. ASSUME DestroyCmId PROVE SequenceInv'
  BY <1>0, <1>10 DEF DestroyCmId, Close, Current, SequenceInv, Accepted, Live,
       Pending, AllUp, serverVars
<1>11. ASSUME Unwind PROVE SequenceInv'
  BY <1>0, <1>11 DEF Unwind, StopAndFreeQueue, Close, SequenceInv, Accepted, Live,
       Pending, AllUp, serverVars
<1>12. ASSUME GetReqForBuf PROVE SequenceInv'
  BY <1>0, <1>12 DEF GetReqForBuf, LeaveQueues, Fault, SequenceInv, Accepted, Live,
       Pending, AllUp, serverVars
<1>13. ASSUME PostRecv PROVE SequenceInv'
  BY <1>0, <1>13 DEF PostRecv, LeaveQueues, Fault, SequenceInv, Accepted, Live,
       Pending, AllUp, serverVars
<1>14. ASSUME RegionReceived PROVE SequenceInv'
  BY <1>0, <1>14 DEF RegionReceived, SequenceInv, Accepted, Live, Pending, AllUp,
       serverVars
<1>15. ASSUME RmMod PROVE SequenceInv'
  BY <1>0, <1>15 DEF RmMod, SequenceInv, Accepted, Live, Pending, AllUp, serverVars
<1>16. ASSUME StopAndFree PROVE SequenceInv'
  BY <1>0, <1>16 DEF StopAndFree, StopAndFreeQueue, Close, SequenceInv, Accepted,
       Live, Pending, AllUp, serverVars
<1>17. ASSUME StartServer PROVE SequenceInv'
  BY <1>0, <1>17 DEF StartServer, alloc_control, Fault, ServerTypes, SequenceInv,
       Accepted, Live, Pending, AllUp, serverVars
<1>18. ASSUME NEW n \in Conns, OnConnectRequest(n) PROVE SequenceInv'
  <2>1. /\ <<"REQ", n>> \in net /\ \A m \in 1..n - 1 : <<"REQ", m>> \notin net
        /\ queue_ctr' = queue_ctr + 1 /\ ServerUp /\ UNCHANGED <<clientVars, connVars>>
    BY <1>18 DEF OnConnectRequest, Requested
  <2>2. CASE UNCHANGED squeue
    BY <1>0, <2>1, <2>2 DEF SequenceInv, Accepted, Live, Pending, AllUp
  <2>3. CASE squeue' = [squeue EXCEPT ![n] = queue_ctr]
    <3>1. SUFFICES ASSUME cpc \in AllUp \cup {"start", "wait"}, NEW i \in ClientQueues,
                          Live(i) \/ (Pending /\ i = qi /\ Accepted(conn[i])')
                   PROVE  squeue'[conn[i]] = squeue'[conn[0]] + i
      BY <2>1 DEF SequenceInv, Live, Pending
    <3>2. /\ queue_ctr \in Nat /\ squeue \in [Conns -> Int] /\ last \in Nat
          /\ 0 \in ClientQueues /\ i \in Int /\ qi \in 0..numqueues
      BY <1>0 DEF ServerTypes, ServerQueues, ClientInv, ClientTypes, ClientQueues
    <3>3. \A j \in ClientQueues :
            Live(j) => conn[j] \in Conns /\ Accepted(conn[j]) /\ conn[j] # n
      <4>1. \A j \in ClientQueues :
              Live(j) => conn[j] \in Conns /\ cst[conn[j]] = "established"
        BY <1>0 DEF ClientInv, ClientTypes, ConsecutiveInv, StateInv
      <4>2. \A j \in ClientQueues : Live(j) => Accepted(conn[j])
        BY <1>0, <4>1, OwnAccepted DEF Mine
      <4> QED
        BY <1>0, <2>1, <4>1, <4>2 DEF AnswerInv
    <3>4. CASE Live(i)
      <4>1. Live(0)
        BY <3>1, <3>2, <3>4 DEF Live, ClientQueues, AllUp
      <4> QED
        BY <1>0, <2>3, <3>1, <3>2, <3>3, <3>4, <4>1 DEF SequenceInv
    <3>5. CASE Pending /\ i = qi /\ ~Live(i)
      <4>1. conn[qi] = last /\ conn[qi] \in Conns
        <5>1. ClientTypes /\ NumberInv /\ ConsecutiveInv
          BY <1>0 DEF ClientInv
        <5>2. last > 0 /\ conn[qi] \in Conns \cup {0}
          BY <3>5, <5>1 DEF ClientTypes, NumberInv
        <5>3. conn[qi] = last + qi - qi
          BY <3>2, <3>5, <5>1 DEF ConsecutiveInv
        <5> QED
          BY <3>2, <5>2, <5>3
      <4>2. CASE conn[qi] # n
        <5>1. Accepted(conn[qi])
          BY <2>1, <2>3, <3>1, <3>2, <3>5, <4>1, <4>2 DEF Accepted
        <5>2. squeue[conn[qi]] = squeue[conn[0]] + qi
          BY <1>0, <3>1, <3>5, <5>1 DEF SequenceInv
        <5>3. CASE qi = 0
          BY <2>3, <3>2, <3>5, <4>1, <4>2, <5>2, <5>3
        <5>4. CASE qi # 0
          <6>1. Live(0)
            BY <3>1, <3>2, <3>5, <5>4 DEF Live, Pending
          <6> QED
            BY <2>3, <3>2, <3>3, <3>5, <4>1, <4>2, <5>2, <6>1
        <5> QED
          BY <5>3, <5>4
      <4>3. CASE conn[qi] = n /\ qi = 0
        BY <2>3, <3>2, <3>5, <4>3
      <4>4. CASE conn[qi] = n /\ qi # 0
        <5>1. qi - 1 \in ClientQueues /\ Live(qi - 1) /\ Live(0)
          BY <3>1, <3>2, <3>5, <4>4 DEF Live, Pending, ClientQueues
        <5>2. conn[qi - 1] = n - 1 /\ Accepted(n - 1) /\ n - 1 \in Conns
          BY <1>0, <3>2, <3>3, <3>5, <4>1, <4>4, <5>1 DEF ClientInv, ConsecutiveInv,
               ClientQueues
        <5>3. squeue[n - 1] < queue_ctr /\ squeue[n - 1] >= 0
          BY <1>0, <5>2 DEF OrderInv, Accepted, ServerTypes, ServerQueues
        <5>4. PICK m \in Conns : squeue[m] = queue_ctr - 1
          BY <1>0, <2>1, <3>2, <5>2, <5>3 DEF OrderInv
        <5>5. Accepted(m)
          BY <3>2, <5>2, <5>3, <5>4 DEF Accepted
        <5>6. m < n
          BY <1>0, <2>1, <5>5 DEF OrderInv
        <5>7. ~(m < n - 1)
          BY <1>0, <3>2, <5>2, <5>3, <5>4, <5>5 DEF OrderInv
        <5>8. m = n - 1
          BY <5>6, <5>7 DEF Conns
        <5>9. squeue[conn[qi - 1]] = squeue[conn[0]] + (qi - 1)
          BY <1>0, <3>1, <5>1 DEF SequenceInv
        <5>10. queue_ctr = squeue[conn[0]] + qi
          <6>1. squeue[n - 1] = queue_ctr - 1 /\ squeue[n - 1] = squeue[conn[0]] + (qi - 1)
            BY <5>2, <5>4, <5>8, <5>9
          <6>2. squeue[conn[0]] \in Int
            BY <3>2, <3>3, <5>1
          <6> QED
            BY <3>2, <6>1, <6>2
        <5> QED
          BY <2>3, <3>2, <3>3, <3>5, <4>4, <5>1, <5>10
      <4> QED
        BY <4>2, <4>3, <4>4
    <3> QED
      BY <2>1, <3>1, <3>4, <3>5
  <2> QED
    BY <1>18, <2>2, <2>3 DEF OnConnectRequest, Die
<1>19. ASSUME NEW n \in Conns, OnConnection(n) PROVE SequenceInv'
  BY <1>0, <1>19 DEF OnConnection, Connected, Die, Fault, ServerTypes, SequenceInv,
       Accepted, Live, Pending, AllUp, serverVars
<1>20. ASSUME NEW n \in Conns, OnDisconnect(n) PROVE SequenceInv'
  BY <1>0, <1>20 DEF OnDisconnect, ServerTypes, SequenceInv, Accepted, Live,
       Pending, AllUp, serverVars
<1>21. ASSUME NEW n \in Conns, OnUnknownEvent(n) PROVE SequenceInv'
  BY <1>0, <1>21 DEF OnUnknownEvent, ServerTypes, SequenceInv, Accepted, Live,
       Pending, AllUp, serverVars
<1>22. CASE UNCHANGED vars
  BY <1>0, <1>22 DEF SequenceInv, Accepted, Live, Pending, AllUp, serverVars
<1>23. ASSUME NEW n \in Conns, Disconnected(n) PROVE SequenceInv'
  BY <1>0, <1>23 DEF Disconnected, SequenceInv, Accepted, Live, Pending, AllUp, serverVars
<1> QED
  BY <1>1, <1>2, <1>3, <1>4, <1>5, <1>6, <1>7, <1>8, <1>9, <1>10, <1>11, <1>12,
       <1>13, <1>14, <1>15, <1>16, <1>17, <1>18, <1>19, <1>20, <1>21, <1>22, <1>23 DEF
       Next, ClientHandler, ClientStep, ServerStep

\* The region is sent once.
LEMMA RegionStep ==
  ASSUME ClientInv, LinkInv, RunInv, [Next]_vars PROVE RegionInv'
<1> USE ConnectAssumption, QueuesNat
<1> USE DEF vars, clientVars, connVars, serverVars, loadVars
<1>0. ClientInv /\ ServerTypes /\ LoopInv /\ UnsentInv /\ AnswerInv /\ KnownInv /\ OrderInv
      /\ SequenceInv /\ RegionInv
  BY DEF LinkInv, RunInv
<1>1. ASSUME NEW n \in Conns, AddrResolved(n) PROVE RegionInv'
  BY <1>0, <1>1 DEF AddrResolved, Fault, ClientInv, ClientTypes, ServerTypes,
       RegionInv
<1>2. ASSUME NEW n \in Conns, RouteResolved(n) PROVE RegionInv'
  <2>1. UNCHANGED serverVars
    BY <1>2 DEF RouteResolved
  <2>2. CASE cst' = [cst EXCEPT ![n] = "request"] /\ net' = net \cup {<<"REQ", n>>}
    BY <1>0, <1>2, <2>1, <2>2 DEF RouteResolved, ClientInv, ClientTypes, RegionInv,
         Kinds, serverVars
  <2>3. CASE cst' = [cst EXCEPT ![n] = "stuck"] /\ net' = net
    BY <1>0, <1>2, <2>1, <2>3 DEF RouteResolved, ClientInv, ClientTypes, RegionInv,
         Kinds, serverVars
  <2> QED
    BY <1>2, <2>2, <2>3 DEF RouteResolved
<1>3. ASSUME NEW n \in Conns, CmErrorEvent(n) PROVE RegionInv'
  BY <1>0, <1>3 DEF CmErrorEvent, Fault, ClientInv, ClientTypes, RegionInv
<1>4. ASSUME NEW n \in Conns, Rejected(n) PROVE RegionInv'
  BY <1>0, <1>4 DEF Rejected, ClientInv, ClientTypes, RegionInv
<1>5. ASSUME NEW n \in Conns, Established(n) PROVE RegionInv'
  BY <1>0, <1>5 DEF Established, ClientInv, ClientTypes, RegionInv
<1>6. ASSUME InsMod PROVE RegionInv'
  BY <1>0, <1>6 DEF InsMod, sswap_rdma_create_ctrl, Refused, Fault, RegionInv
<1>7. ASSUME StartQueue PROVE RegionInv'
  <2>1. cpc' # "ready" /\ UNCHANGED <<region, squeue, net>> /\ region \subseteq Conns
    BY <1>0, <1>7 DEF StartQueue, ServerTypes
  <2> QED
    BY <1>0, <1>7, <2>1, Beginning DEF RegionInv
<1>8. ASSUME QueueUp PROVE RegionInv'
  BY <1>0, <1>8 DEF QueueUp, WaitEnds, Fault, RegionInv
<1>9. ASSUME QueueDown PROVE RegionInv'
  BY <1>0, <1>9 DEF QueueDown, WaitEnds, Fault, RegionInv
<1>10. ASSUME DestroyCmId PROVE RegionInv'
  <2>0. cpc' # "ready" /\ UNCHANGED <<region, squeue>> /\ region \subseteq Conns
    BY <1>0, <1>10, Closing DEF ServerTypes
  <2>1. CASE UNCHANGED <<cst, net>>
    BY <1>0, <2>0, <2>1 DEF RegionInv
  <2>2. ASSUME NEW n \in Conns, Close(n) PROVE RegionInv'
    BY <1>0, <2>0, <2>2, CloseEffect DEF ClientInv, RegionInv, Kinds
  <2> QED
    BY <1>10, <2>1, <2>2, Closing
<1>11. ASSUME Unwind PROVE RegionInv'
  <2>0. cpc' # "ready" /\ UNCHANGED <<region, squeue>> /\ region \subseteq Conns
    BY <1>0, <1>11, Closing DEF ServerTypes
  <2>1. CASE UNCHANGED <<cst, net>>
    BY <1>0, <2>0, <2>1 DEF RegionInv
  <2>2. ASSUME NEW n \in Conns, Close(n) PROVE RegionInv'
    BY <1>0, <2>0, <2>2, CloseEffect DEF ClientInv, RegionInv, Kinds
  <2> QED
    BY <1>11, <2>1, <2>2, Closing
<1>12. ASSUME GetReqForBuf PROVE RegionInv'
  BY <1>0, <1>12 DEF GetReqForBuf, LeaveQueues, Fault, RegionInv
<1>13. ASSUME PostRecv PROVE RegionInv'
  BY <1>0, <1>13 DEF PostRecv, LeaveQueues, Fault, RegionInv
<1>14. ASSUME RegionReceived PROVE RegionInv'
  BY <1>0, <1>14 DEF RegionReceived, RegionInv
<1>15. ASSUME RmMod PROVE RegionInv'
  BY <1>0, <1>15 DEF RmMod, RegionInv
<1>16. ASSUME StopAndFree PROVE RegionInv'
  <2>0. cpc' # "ready" /\ UNCHANGED <<region, squeue>> /\ region \subseteq Conns
    BY <1>0, <1>16, Closing DEF ServerTypes
  <2>1. CASE UNCHANGED <<cst, net>>
    BY <1>0, <2>0, <2>1 DEF RegionInv
  <2>2. ASSUME NEW n \in Conns, Close(n) PROVE RegionInv'
    BY <1>0, <2>0, <2>2, CloseEffect DEF ClientInv, RegionInv, Kinds
  <2> QED
    BY <1>16, <2>1, <2>2, Closing
<1>17. ASSUME StartServer PROVE RegionInv'
  BY <1>0, <1>17 DEF StartServer, alloc_control, Fault, ServerTypes, RegionInv
<1>18. ASSUME NEW n \in Conns, OnConnectRequest(n) PROVE RegionInv'
  <2>1. /\ <<"REQ", n>> \in net /\ \A m \in 1..n - 1 : <<"REQ", m>> \notin net
        /\ queue_ctr' = queue_ctr + 1 /\ ServerUp /\ UNCHANGED <<clientVars, connVars>>
    BY <1>18 DEF OnConnectRequest, Requested
  <2>2. UNCHANGED region /\ region \subseteq Conns /\ n \notin region
    <3>0. \A m \in region : squeue[m] = 0
      BY <1>0 DEF RegionInv
    <3>1. \A m \in region : Accepted(m)
      BY <3>0, 0 # -1 DEF Accepted
    <3>2. ~Accepted(n)
      BY <1>0, <2>1 DEF AnswerInv
    <3> QED
      BY <1>0, <1>18, <3>1, <3>2 DEF OnConnectRequest, Die, ServerTypes
  <2>3. \A m \in Conns : m # n => squeue'[m] = squeue[m]
    BY <1>0, <1>18 DEF OnConnectRequest, Die, ServerTypes
  <2>4. net' \subseteq net \cup {<<"REP", n>>}
    BY <1>18 DEF OnConnectRequest
  <2> QED
    BY <1>0, <2>1, <2>2, <2>3, <2>4 DEF RegionInv
<1>19. ASSUME NEW n \in Conns, OnConnection(n) PROVE RegionInv'
  <2>1. /\ UNCHANGED <<clientVars, connVars, squeue>> /\ <<"RTU", n>> \in net
        /\ net' = net \ {<<"RTU", n>>}
    BY <1>19 DEF OnConnection, Connected, Die
  <2>2. region' = region \/ (region' = region \cup {n} /\ squeue[n] = 0)
    BY <1>19 DEF OnConnection, Die
  <2>3. cst[n] \in {"established", "closed"}
    BY <1>0, <2>1 DEF AnswerInv
  <2> QED
    BY <1>0, <2>1, <2>2, <2>3 DEF RegionInv
<1>20. ASSUME NEW n \in Conns, OnDisconnect(n) PROVE RegionInv'
  BY <1>0, <1>20 DEF OnDisconnect, ServerTypes, RegionInv
<1>21. ASSUME NEW n \in Conns, OnUnknownEvent(n) PROVE RegionInv'
  BY <1>0, <1>21 DEF OnUnknownEvent, ServerTypes, RegionInv
<1>22. CASE UNCHANGED vars
  BY <1>0, <1>22 DEF RegionInv
<1>23. ASSUME NEW n \in Conns, Disconnected(n) PROVE RegionInv'
  BY <1>0, <1>23 DEF Disconnected, RegionInv
<1> QED
  BY <1>1, <1>2, <1>3, <1>4, <1>5, <1>6, <1>7, <1>8, <1>9, <1>10, <1>11, <1>12,
       <1>13, <1>14, <1>15, <1>16, <1>17, <1>18, <1>19, <1>20, <1>21, <1>22, <1>23 DEF
       Next, ClientHandler, ClientStep, ServerStep

\* Nothing is accepted and nothing asked for at the start.
LEMMA InitRun == Init => RunInv /\ CountInv
  BY ConnectAssumption, QueuesNat DEF Init, RunInv, OrderInv, SequenceInv,
       RegionInv, CountInv,
       Accepted, ServerUp, AllUp

\* The server takes requests in their order, so a load gets consecutive queues of
\* it, and the region is sent on its queue 0 and once.
THEOREM RunKept == Spec => [](ClientInv /\ LinkInv /\ RunInv)
<1>1. ClientInv /\ LinkInv /\ RunInv /\ [Next]_vars => RunInv'
  BY OrderStep, SequenceStep, RegionStep DEF RunInv
<1> QED
  BY <1>1, InitRun, LinkKept, PTL DEF Spec

\* A driver that reports it is ready has connected its queue i to the server's
\* queue i for every i, and holds the region that server sent: for any number of
\* CPUs and after any number of failed loads.
THEOREM AlignedCorrect == Spec => []ReadyAligned
<1>1. ClientInv /\ LinkInv /\ RunInv => ReadyAligned
  <2> SUFFICES ASSUME ClientInv, LinkInv, RunInv, cpc = "ready"
               PROVE  /\ conn[0] \in region
                      /\ \A i \in ClientQueues :
                           cst[conn[i]] = "established" /\ squeue[conn[i]] = i
    BY DEF ReadyAligned
  <2>1. conn[0] \in region /\ squeue[conn[0]] = 0
    BY DEF RunInv, RegionInv
  <2>2. \A i \in ClientQueues : Live(i)
    BY DEF Live, AllUp
  <2>3. \A i \in ClientQueues : cst[conn[i]] = "established"
    BY <2>2 DEF ClientInv, StateInv
  <2>4. \A i \in ClientQueues : squeue[conn[i]] = 0 + i
    BY <2>1, <2>2 DEF RunInv, SequenceInv, AllUp
  <2> QED
    BY <2>1, <2>3, <2>4, QueuesNat DEF ClientQueues
<1> QED
  BY <1>1, RunKept, PTL

-----------------------------------------------------------------------------
(* The first load after the server was started.                            *)

\* A load asks for a queue once.
LEMMA CountStep ==
  ASSUME ClientInv, LinkInv, CountInv, [Next]_vars PROVE CountInv'
<1> USE ConnectAssumption, QueuesNat
<1> USE DEF vars, clientVars, connVars, serverVars, loadVars
<1>0. ClientInv /\ ServerTypes /\ LoopInv /\ UnsentInv /\ AnswerInv /\ KnownInv /\ CountInv
  BY DEF LinkInv
<1>1. ASSUME NEW n \in Conns, AddrResolved(n) PROVE CountInv'
  <2>1. Pending /\ n = conn[qi] /\ cst[conn[qi]] = "address"
    BY <1>0, <1>1, Sender DEF AddrResolved
  <2>2. UNCHANGED <<cpc, qi, conn, net, serverVars>>
    BY <1>1 DEF AddrResolved
  <2> QED
    BY <1>0, <2>1, <2>2 DEF CountInv, Pending, AllUp
<1>2. ASSUME NEW n \in Conns, RouteResolved(n) PROVE CountInv'
  <2>1. Pending /\ n = conn[qi] /\ cst[conn[qi]] = "route"
    BY <1>0, <1>2, Sender DEF RouteResolved
  <2>2. /\ UNCHANGED <<cpc, qi, conn, serverVars>>
        /\ \A m \in Conns : <<"REQ", m>> \in net' => m = n \/ <<"REQ", m>> \in net
    BY <1>2 DEF RouteResolved
  <2>3. cpc \in {"wait", "destroy"} /\ qi < numqueues /\ qi \in Int /\ queue_ctr \in Int
    BY <1>0, <2>1 DEF Pending, ClientInv, NumberInv, ClientTypes, ServerTypes
  <2> QED
    BY <1>0, <2>1, <2>2, <2>3 DEF CountInv, Pending, AllUp
<1>3. ASSUME NEW n \in Conns, CmErrorEvent(n) PROVE CountInv'
  BY <1>0, <1>3 DEF CmErrorEvent, Fault, ClientInv, ClientTypes, CountInv, Pending,
       AllUp
<1>4. ASSUME NEW n \in Conns, Rejected(n) PROVE CountInv'
  BY <1>0, <1>4 DEF Rejected, ClientInv, ClientTypes, CountInv, Pending, AllUp
<1>5. ASSUME NEW n \in Conns, Established(n) PROVE CountInv'
  BY <1>0, <1>5 DEF Established, ClientInv, ClientTypes, CountInv, Pending, AllUp
<1>6. ASSUME InsMod PROVE CountInv'
  <2>1. UNCHANGED <<queue_ctr, net>> /\ cpc = "unloaded"
    BY <1>6 DEF InsMod
  <2>2. CASE cpc' = "start" /\ qi' = 0 /\ sloads' = sloads + 1
    BY <1>0, <2>1, <2>2 DEF CountInv, Pending, AllUp, ServerTypes
  <2>3. CASE UNCHANGED <<cpc, qi, sloads>>
    BY <1>0, <2>1, <2>3 DEF CountInv, Pending, AllUp
  <2> QED
    BY <1>6, <2>2, <2>3 DEF InsMod, sswap_rdma_create_ctrl, Refused
<1>7. ASSUME StartQueue PROVE CountInv'
  <2>1. /\ cpc = "start" /\ cpc' \in {"wait", "destroy", "unwind"}
        /\ UNCHANGED <<qi, net, serverVars>>
    BY <1>7 DEF StartQueue
  <2>2. qi \in Int /\ queue_ctr \in Int /\ numqueues \in Int
    BY <1>0 DEF ClientInv, ClientTypes, ServerTypes
  <2> QED
    BY <1>0, <2>1, <2>2 DEF CountInv, Pending, AllUp
<1>8. ASSUME QueueUp PROVE CountInv'
  <2>1. /\ Pending /\ cst[conn[qi]] = "established"
        /\ cpc' \in {"start", "remotemr"} /\ qi' = qi + 1 /\ UNCHANGED <<net, serverVars>>
    BY <1>0, <1>8 DEF QueueUp, Pending, ClientInv, StateInv
  <2>2. cpc # "unloaded"
    BY <1>8 DEF QueueUp
  <2>3. conn[qi] \in Conns
    BY <1>0, <2>1 DEF ClientInv, ClientTypes, NumberInv, ConsecutiveInv,
         ClientQueues
  <2>4. <<"REQ", conn[qi]>> \notin net
    BY <1>0, <2>1, <2>3 DEF AnswerInv
  <2> QED
    BY <1>0, <2>1, <2>2, <2>4 DEF CountInv, Pending, AllUp
<1>9. ASSUME QueueDown PROVE CountInv'
  BY <1>0, <1>9 DEF QueueDown, WaitEnds, Fault, CountInv, Pending, AllUp
<1>10. ASSUME DestroyCmId PROVE CountInv'
  <2>1. /\ cpc # "unloaded" /\ cpc' \notin AllUp \cup {"start"} /\ ~Pending'
        /\ \A n \in Conns : <<"REQ", n>> \in net' <=> <<"REQ", n>> \in net
        /\ UNCHANGED serverVars
    BY <1>10, Closing DEF AllUp, Pending
  <2> QED
    BY <1>0, <2>1 DEF CountInv
<1>11. ASSUME Unwind PROVE CountInv'
  <2>1. /\ cpc # "unloaded" /\ cpc' \notin AllUp \cup {"start"} /\ ~Pending'
        /\ \A n \in Conns : <<"REQ", n>> \in net' <=> <<"REQ", n>> \in net
        /\ UNCHANGED serverVars
    BY <1>11, Closing DEF AllUp, Pending
  <2> QED
    BY <1>0, <2>1 DEF CountInv
<1>12. ASSUME GetReqForBuf PROVE CountInv'
  BY <1>0, <1>12 DEF GetReqForBuf, LeaveQueues, Fault, CountInv, Pending, AllUp
<1>13. ASSUME PostRecv PROVE CountInv'
  BY <1>0, <1>13 DEF PostRecv, LeaveQueues, Fault, CountInv, Pending, AllUp
<1>14. ASSUME RegionReceived PROVE CountInv'
  BY <1>0, <1>14 DEF RegionReceived, CountInv, Pending, AllUp
<1>15. ASSUME RmMod PROVE CountInv'
  BY <1>0, <1>15 DEF RmMod, CountInv, Pending, AllUp
<1>16. ASSUME StopAndFree PROVE CountInv'
  <2>1. /\ cpc # "unloaded" /\ cpc' \notin AllUp \cup {"start"} /\ ~Pending'
        /\ \A n \in Conns : <<"REQ", n>> \in net' <=> <<"REQ", n>> \in net
        /\ UNCHANGED serverVars
    BY <1>16, Closing DEF AllUp, Pending
  <2> QED
    BY <1>0, <2>1 DEF CountInv
<1>17. ASSUME StartServer PROVE CountInv'
  BY <1>0, <1>17 DEF StartServer, alloc_control, Fault, ServerTypes, CountInv,
       Pending, AllUp
<1>18. ASSUME NEW n \in Conns, OnConnectRequest(n) PROVE CountInv'
  <2>1. /\ <<"REQ", n>> \in net /\ \A m \in 1..n - 1 : <<"REQ", m>> \notin net
        /\ queue_ctr' = queue_ctr + 1 /\ ServerUp /\ UNCHANGED <<clientVars, connVars>>
    BY <1>18 DEF OnConnectRequest, Requested
  <2>2. \A m \in Conns : <<"REQ", m>> \in net' => m # n /\ <<"REQ", m>> \in net
    BY <1>18 DEF OnConnectRequest, Die
  <2>3. UNCHANGED sloads
    BY <1>18 DEF OnConnectRequest
  <2>4. sloads # 0
    BY <1>0, <2>1 DEF CountInv
  <2>5. cst[n] \notin {"address", "route"}
    BY <1>0, <2>1 DEF UnsentInv, Kinds
  <2>6. qi \in Int /\ queue_ctr \in Int /\ numqueues \in Int
    BY <1>0 DEF ClientInv, ClientTypes, ServerTypes
  <2>7. sloads = 1 => \A m \in Conns : <<"REQ", m>> \notin net'
    BY <1>0, <2>1, <2>2 DEF CountInv
  <2>8. sloads = 1 => queue_ctr < numqueues
    BY <1>0, <2>1 DEF CountInv
  <2>9. sloads = 1 => cpc # "start" /\ (Pending => n = conn[qi] /\ queue_ctr <= qi)
    BY <1>0, <2>1 DEF CountInv
  <2> QED
    BY <2>1, <2>3, <2>4, <2>5, <2>6, <2>7, <2>8, <2>9 DEF CountInv, Pending
<1>19. ASSUME NEW n \in Conns, OnConnection(n) PROVE CountInv'
  BY <1>0, <1>19 DEF OnConnection, Connected, Die, Fault, ServerTypes, CountInv,
       Pending, AllUp
<1>20. ASSUME NEW n \in Conns, OnDisconnect(n) PROVE CountInv'
  BY <1>0, <1>20 DEF OnDisconnect, ServerTypes, CountInv, Pending, AllUp
<1>21. ASSUME NEW n \in Conns, OnUnknownEvent(n) PROVE CountInv'
  BY <1>0, <1>21 DEF OnUnknownEvent, ServerTypes, CountInv, Pending, AllUp
<1>22. CASE UNCHANGED vars
  BY <1>0, <1>22 DEF CountInv, Pending, AllUp
<1>23. ASSUME NEW n \in Conns, Disconnected(n) PROVE CountInv'
  BY <1>0, <1>23 DEF Disconnected, CountInv, Pending, AllUp
<1> QED
  BY <1>1, <1>2, <1>3, <1>4, <1>5, <1>6, <1>7, <1>8, <1>9, <1>10, <1>11, <1>12,
       <1>13, <1>14, <1>15, <1>16, <1>17, <1>18, <1>19, <1>20, <1>21, <1>22, <1>23 DEF
       Next, ClientHandler, ClientStep, ServerStep

\* The first load after the server was started never runs it past its queue
\* array, if the server was told of enough CPUs, whatever times out or fails.
THEOREM QueueCtrCorrect == Spec => []QueueCtrInRange
<1>1. Init => QueueCtrInRange
  BY DEF Init, QueueCtrInRange
<1>2. ASSUME ClientInv, LinkInv, CountInv, QueueCtrInRange, [Next]_vars
      PROVE  QueueCtrInRange'
  <2> USE DEF vars, clientVars, connVars, serverVars
  <2>1. CASE UNCHANGED <<smode, NUM_QUEUES, sloads>>
    BY <1>2, <2>1 DEF QueueCtrInRange
  <2>2. CASE InsMod
    BY <1>2, <2>2 DEF InsMod, sswap_rdma_create_ctrl, Refused, QueueCtrInRange, LinkInv,
         ServerTypes
  <2>3. CASE StartServer
    BY <2>3 DEF StartServer, QueueCtrInRange
  <2>4. ASSUME NEW n \in Conns, OnConnectRequest(n) PROVE QueueCtrInRange'
    <3>1. UNCHANGED <<NUM_QUEUES, sloads>> /\ <<"REQ", n>> \in net
      BY <2>4 DEF OnConnectRequest, Requested
    <3>2. smode' = "overrun" => queue_ctr >= NUM_QUEUES
      BY <1>2, <2>4 DEF OnConnectRequest, Requested, Die, LoopControl, ServerUp
    <3>3. sloads <= 1 => queue_ctr < numqueues
      BY <1>2, <3>1 DEF CountInv, LinkInv, ServerTypes
    <3>4. queue_ctr \in Nat /\ NUM_QUEUES \in Nat
      BY <1>2, ConnectAssumption DEF LinkInv, ServerTypes
    <3> QED
      BY <3>1, <3>2, <3>3, <3>4, QueuesNat DEF QueueCtrInRange
  <2>5. ASSUME NEW n \in Conns, OnConnection(n) \/ OnDisconnect(n) \/ OnUnknownEvent(n)
        PROVE  QueueCtrInRange'
    BY <1>2, <2>5 DEF OnConnection, Connected, OnDisconnect, OnUnknownEvent, Die,
         LoopControl, ServerUp, QueueCtrInRange
  <2>6. ClientHandler => UNCHANGED serverVars
    BY DEF ClientHandler, AddrResolved, RouteResolved, CmErrorEvent, Rejected,
         Established, Disconnected
  <2>7. ClientStep => InsMod \/ UNCHANGED serverVars
    BY DEF ClientStep, StartQueue, QueueUp, QueueDown, DestroyCmId, Unwind,
         GetReqForBuf,
         PostRecv, RegionReceived, RmMod, StopAndFree
  <2> QED
    BY <1>2, <2>1, <2>2, <2>3, <2>4, <2>5, <2>6, <2>7 DEF Next, ServerStep
<1>3. ClientInv /\ LinkInv /\ CountInv /\ [Next]_vars => CountInv'
  BY CountStep
<1> QED
  BY <1>1, <1>2, <1>3, InitRun, LinkKept, PTL DEF Spec

-----------------------------------------------------------------------------
(* A load that holds the region holds its server.                          *)

\* The load has a first queue, and the server has sent the region on it.
HasRegion ==
  /\ cpc \in AllUp \cup {"start", "wait"}
  /\ cpc = "wait" \/ qi > 0
  /\ conn[0] \in region

\* The queue being connected will not come up.
Doomed ==
  /\ cpc = "wait"
  /\ \/ cst[conn[qi]] = "stuck"
     \/ cst[conn[qi]] = "request" /\ ~Accepted(conn[qi])

\* Only what also dooms the queue being connected ends the server of such a load.
UpInv == HasRegion => ServerUp \/ Doomed

\* The first queue of a load that holds the region is the server's queue 0.
LEMMA FirstQueue ==
  ASSUME ClientInv, LinkInv, RunInv, conn[0] \in region
  PROVE  conn[0] \in Conns /\ squeue[conn[0]] = 0 /\ Accepted(conn[0])
<1>1. conn[0] \in Conns /\ squeue[conn[0]] = 0
  BY DEF LinkInv, ServerTypes, RunInv, RegionInv
<1> QED
  BY <1>1, 0 # -1 DEF Accepted

\* The connections of a load that has a first queue are those from it on.
LEMMA FromFirstOn ==
  ASSUME ClientInv, HasRegion, NEW n \in Conns, conn[0] <= n, n <= last
  PROVE  Mine(n)
<1>0. ClientTypes /\ NumberInv /\ ConsecutiveInv
  BY DEF ClientInv
<1>1. last \in Nat /\ n \in Nat /\ qi \in Nat
  BY <1>0, QueuesNat, ConnectAssumption DEF ClientTypes, Conns
<1>2. 0 \in ClientQueues
  BY QueuesNat DEF ClientQueues
<1>3. CASE cpc = "wait"
  <2>1. Pending /\ qi < numqueues
    BY <1>0, <1>3 DEF Pending, NumberInv
  <2>2. conn[0] = last + 0 - qi
    BY <1>0, <1>1, <1>2, <2>1 DEF ConsecutiveInv
  <2>3. n - conn[0] \in ClientQueues /\ n - conn[0] <= qi
    BY <1>1, <2>1, <2>2, QueuesNat DEF ClientQueues
  <2>4. conn[n - conn[0]] = last + (n - conn[0]) - qi
    BY <1>0, <2>1, <2>3 DEF ConsecutiveInv
  <2>5. conn[n - conn[0]] = n
    BY <1>1, <2>2, <2>4
  <2>6. n - conn[0] < qi => Live(n - conn[0])
    BY <1>3 DEF Live
  <2>7. n - conn[0] \in Int
    BY <2>3, QueuesNat DEF ClientQueues
  <2> QED
    BY <1>1, <2>1, <2>3, <2>5, <2>6, <2>7 DEF Mine
<1>4. CASE cpc \in AllUp \cup {"start"}
  <2>1. qi > 0 /\ qi <= numqueues
    BY <1>0, <1>4, QueuesNat DEF HasRegion, AllUp, ClientTypes
  <2>2. conn[0] = last + 1 + 0 - qi
    BY <1>0, <1>1, <1>2, <1>4, <2>1 DEF ConsecutiveInv
  <2>3. n - conn[0] \in ClientQueues /\ n - conn[0] < qi
    BY <1>1, <2>1, <2>2, QueuesNat DEF ClientQueues
  <2>4. conn[n - conn[0]] = last + 1 + (n - conn[0]) - qi
    BY <1>0, <1>4, <2>3 DEF ConsecutiveInv
  <2>5. conn[n - conn[0]] = n
    BY <1>1, <2>2, <2>4
  <2>6. Live(n - conn[0])
    BY <1>4, <2>3 DEF Live, AllUp
  <2> QED
    BY <2>3, <2>5, <2>6 DEF Mine
<1> QED
  BY <1>3, <1>4 DEF HasRegion

\* So no message of an earlier load is left, and of the present one only the
\* queue being connected has messages the server would end on.
LEMMA OwnMessages ==
  ASSUME ClientInv, LinkInv, RunInv, HasRegion, ServerUp,
         NEW n \in Conns, NEW k \in Kinds, <<k, n>> \in net
  PROVE  \/ cst[n] = "established"
         \/ cst[n] \in {"request", "stuck"} /\ cpc = "wait" /\ n = conn[qi]
<1>1. conn[0] \in Conns /\ squeue[conn[0]] = 0 /\ Accepted(conn[0])
  BY FirstQueue DEF HasRegion
<1>2. Accepted(n) \/ <<"REQ", n>> \in net
  BY DEF LinkInv, KnownInv
<1>3. n \in Int /\ conn[0] \in Int
  BY <1>1, QueuesNat, ConnectAssumption DEF Conns
<1>4. conn[0] <= n
  <2>1. CASE <<"REQ", n>> \in net
    BY <1>1, <1>3, <2>1 DEF RunInv, OrderInv
  <2>2. CASE Accepted(n)
    <3>1. n < conn[0] => squeue[n] < 0
      BY <1>1, <2>2 DEF RunInv, OrderInv
    <3>2. squeue[n] \in ServerQueues
      BY <2>2 DEF LinkInv, ServerTypes, Accepted
    <3>3. ~(squeue[n] < 0)
      BY <3>2, ConnectAssumption DEF LinkInv, ServerTypes, ServerQueues
    <3> QED
      BY <1>3, <3>1, <3>3
  <2> QED
    BY <1>2, <2>1, <2>2
<1>5. cst[n] \notin {"none", "address", "route"}
  BY DEF LinkInv, UnsentInv
<1>6. n <= last
  <2>1. ~(n > last)
    BY <1>5 DEF ClientInv, StateInv
  <2>2. last \in Int
    BY QueuesNat, ConnectAssumption DEF ClientInv, ClientTypes
  <2> QED
    BY <1>3, <2>1, <2>2
<1>7. Mine(n)
  BY <1>4, <1>6, FromFirstOn
<1>8. CASE \E i \in ClientQueues : Live(i) /\ conn[i] = n
  BY <1>8 DEF ClientInv, StateInv
<1>9. CASE Pending /\ conn[qi] = n
  <2>1. cst[n] \in {"address", "route", "request", "established", "stuck"}
    BY <1>9 DEF ClientInv, StateInv
  <2>2. cpc = "wait"
    BY <1>9 DEF Pending, HasRegion, AllUp
  <2> QED
    BY <1>5, <1>9, <2>1, <2>2
<1> QED
  BY <1>7, <1>8, <1>9 DEF Mine

\* A load that holds the region keeps its server, or fails.
LEMMA UpStep ==
  ASSUME ClientInv, LinkInv, RunInv, UpInv, [Next]_vars PROVE UpInv'
<1> USE ConnectAssumption, QueuesNat
<1> USE DEF vars, clientVars, connVars, serverVars, loadVars
<1>0. ClientInv /\ ServerTypes /\ LoopInv /\ UnsentInv /\ AnswerInv /\ KnownInv /\ RunInv /\ UpInv
  BY DEF LinkInv, RunInv
<1>1. ASSUME NEW n \in Conns, AddrResolved(n) PROVE UpInv'
  <2>1. UNCHANGED <<serverVars, cpc, qi, conn>> /\ (HasRegion' <=> HasRegion)
    BY <1>1 DEF AddrResolved, HasRegion
  <2>2. Pending /\ n = conn[qi]
    BY <1>0, <1>1, Sender DEF AddrResolved
  <2>3. ~Doomed
    BY <1>1, <2>2 DEF AddrResolved, Doomed
  <2> QED
    BY <1>0, <2>1, <2>3 DEF UpInv, ServerUp
<1>2. ASSUME NEW n \in Conns, RouteResolved(n) PROVE UpInv'
  <2>1. UNCHANGED <<serverVars, cpc, qi, conn>> /\ (HasRegion' <=> HasRegion)
    BY <1>2 DEF RouteResolved, HasRegion
  <2>2. Pending /\ n = conn[qi]
    BY <1>0, <1>2, Sender DEF RouteResolved
  <2>3. ~Doomed
    BY <1>2, <2>2 DEF RouteResolved, Doomed
  <2> QED
    BY <1>0, <2>1, <2>3 DEF UpInv, ServerUp
<1>3. ASSUME NEW n \in Conns, CmErrorEvent(n) PROVE UpInv'
  <2>1. UNCHANGED <<serverVars, cpc, qi, conn>> /\ (HasRegion' <=> HasRegion)
    BY <1>3 DEF CmErrorEvent, HasRegion
  <2>2. Pending /\ n = conn[qi]
    BY <1>0, <1>3, Sender DEF CmErrorEvent
  <2>3. cpc' = "wait" => Doomed'
    BY <1>0, <1>3, <2>1, <2>2 DEF CmErrorEvent, Doomed, ClientInv, ClientTypes
  <2>4. HasRegion => cpc = "wait"
    BY <2>2 DEF HasRegion, Pending, AllUp
  <2> QED
    BY <2>1, <2>3, <2>4 DEF UpInv
<1>4. ASSUME NEW n \in Conns, Rejected(n) PROVE UpInv'
  <2>1. UNCHANGED <<serverVars, cpc, qi, conn>> /\ (HasRegion' <=> HasRegion)
    BY <1>4 DEF Rejected, HasRegion
  <2>2. Pending /\ n = conn[qi]
    BY <1>0, <1>4, Sender DEF Rejected
  <2>3. cpc' = "wait" => Doomed'
    BY <1>0, <1>4, <2>1, <2>2 DEF Rejected, Doomed, ClientInv, ClientTypes
  <2>4. HasRegion => cpc = "wait"
    BY <2>2 DEF HasRegion, Pending, AllUp
  <2> QED
    BY <2>1, <2>3, <2>4 DEF UpInv
<1>5. ASSUME NEW n \in Conns, Established(n) PROVE UpInv'
  <2>1. UNCHANGED <<serverVars, cpc, qi, conn>> /\ (HasRegion' <=> HasRegion)
    BY <1>5 DEF Established, HasRegion
  <2>2. Pending /\ n = conn[qi]
    BY <1>0, <1>5, Sender DEF Established
  <2>3. ~Doomed
    BY <1>0, <1>5, <2>2 DEF Established, Doomed, AnswerInv
  <2> QED
    BY <1>0, <2>1, <2>3 DEF UpInv, ServerUp
<1>6. ASSUME InsMod PROVE UpInv'
  <2>1. ~HasRegion'
    BY <1>6 DEF InsMod, sswap_rdma_create_ctrl, Refused, HasRegion, AllUp
  <2> QED
    BY <2>1 DEF UpInv
<1>7. ASSUME StartQueue PROVE UpInv'
  <2>0. ClientTypes /\ StateInv /\ qi \in ClientQueues /\ last + 1 \in Conns /\ last \in Nat
    BY <1>0, <1>7, FreshNumber DEF StartQueue, ClientInv, ClientTypes
  <2>1. UNCHANGED <<serverVars, qi>> /\ cpc = "start"
    BY <1>7 DEF StartQueue
  <2>2. last + 1 \notin region
    <3>1. cst[last + 1] = "none"
      BY <2>0 DEF StateInv
    <3> QED
      BY <1>0, <3>1 DEF RunInv, RegionInv
  <2>3. HasRegion' => HasRegion
    <3>1. CASE qi = 0
      BY <2>0, <2>1, <2>2, <3>1, <1>7 DEF StartQueue, HasRegion, AllUp, ClientTypes
    <3>2. CASE qi # 0
      <4>1. qi > 0 /\ 0 \in ClientQueues
        BY <2>0, <3>2 DEF ClientQueues
      <4>2. conn'[0] = conn[0]
        BY <2>0, <3>2, <4>1, <1>7 DEF StartQueue, ClientTypes
      <4> QED
        BY <2>1, <4>1, <4>2 DEF HasRegion
    <3> QED
      BY <3>1, <3>2
  <2> QED
    BY <1>0, <2>1, <2>3 DEF UpInv, Doomed, ServerUp
<1>8. ASSUME QueueUp PROVE UpInv'
  <2>1. UNCHANGED <<serverVars, conn>> /\ cpc = "wait" /\ Pending /\ cmError = "none"
    BY <1>8 DEF QueueUp, Pending
  <2>2. ~Doomed
    BY <1>0, <2>1 DEF ClientInv, StateInv, Doomed
  <2>3. HasRegion' => HasRegion
    BY <2>1 DEF HasRegion
  <2> QED
    BY <1>0, <2>1, <2>2, <2>3 DEF UpInv, ServerUp
<1>9. ASSUME QueueDown PROVE UpInv'
  <2>1. ~HasRegion'
    BY <1>9 DEF QueueDown, HasRegion, AllUp
  <2> QED
    BY <2>1 DEF UpInv
<1>10. ASSUME DestroyCmId PROVE UpInv'
  <2>1. ~HasRegion'
    BY <1>0, <1>10, Closing DEF HasRegion, AllUp
  <2> QED
    BY <2>1 DEF UpInv
<1>11. ASSUME Unwind PROVE UpInv'
  <2>1. ~HasRegion'
    BY <1>0, <1>11, Closing DEF HasRegion, AllUp
  <2> QED
    BY <2>1 DEF UpInv
<1>12. ASSUME GetReqForBuf PROVE UpInv'
  <2>1. /\ UNCHANGED <<serverVars, conn>> /\ cpc \in AllUp
        /\ cpc' = "unloaded" \/ (cpc' \in AllUp /\ qi' = qi)
    BY <1>12 DEF GetReqForBuf, LeaveQueues, Fault, AllUp
  <2>2. (HasRegion' => HasRegion) /\ ~Doomed
    BY <2>1 DEF HasRegion, Doomed, AllUp
  <2> QED
    BY <1>0, <2>1, <2>2 DEF UpInv, ServerUp
<1>13. ASSUME PostRecv PROVE UpInv'
  <2>1. /\ UNCHANGED <<serverVars, conn>> /\ cpc \in AllUp
        /\ cpc' = "unloaded" \/ (cpc' \in AllUp /\ qi' = qi)
    BY <1>13 DEF PostRecv, LeaveQueues, Fault, AllUp
  <2>2. (HasRegion' => HasRegion) /\ ~Doomed
    BY <2>1 DEF HasRegion, Doomed, AllUp
  <2> QED
    BY <1>0, <2>1, <2>2 DEF UpInv, ServerUp
<1>14. ASSUME RegionReceived PROVE UpInv'
  <2>1. UNCHANGED <<serverVars, conn, qi>> /\ cpc \in AllUp /\ cpc' \in AllUp
    BY <1>14 DEF RegionReceived, AllUp
  <2>2. (HasRegion' => HasRegion) /\ ~Doomed
    BY <2>1 DEF HasRegion, Doomed, AllUp
  <2> QED
    BY <1>0, <2>1, <2>2 DEF UpInv, ServerUp
<1>15. ASSUME RmMod PROVE UpInv'
  <2>1. ~HasRegion'
    BY <1>15 DEF RmMod, HasRegion, AllUp
  <2> QED
    BY <2>1 DEF UpInv
<1>16. ASSUME StopAndFree PROVE UpInv'
  <2>1. ~HasRegion'
    BY <1>0, <1>16, Closing DEF HasRegion, AllUp
  <2> QED
    BY <2>1 DEF UpInv
<1>17. ASSUME StartServer PROVE UpInv'
  <2>1. ~HasRegion'
    BY <1>17 DEF StartServer, HasRegion, AllUp
  <2> QED
    BY <2>1 DEF UpInv
<1>18. ASSUME NEW n \in Conns, OnConnectRequest(n) PROVE UpInv'
  <2>1. ServerUp /\ <<"REQ", n>> \in net /\ UNCHANGED <<clientVars, connVars, region>>
    BY <1>18 DEF OnConnectRequest, Requested, Die
  <2>2. HasRegion' <=> HasRegion
    BY <2>1 DEF HasRegion
  <2>3. CASE LoopControl(0, sstate, get_device)
    BY <2>1, <2>3 DEF LoopControl, ServerUp, UpInv
  <2>4. CASE UNCHANGED squeue
    <3>1. ASSUME HasRegion PROVE Doomed'
      <4>1. ~Accepted(n)
        BY <1>0, <2>1 DEF AnswerInv
      <4>2. cst[n] \in {"request", "stuck"} /\ cpc = "wait" /\ n = conn[qi]
        BY <1>0, <2>1, <3>1, <4>1, OwnMessages DEF Kinds, AnswerInv
      <4> QED
        BY <2>1, <2>4, <4>1, <4>2 DEF Doomed, Accepted
    <3> QED
      BY <2>2, <3>1 DEF UpInv
  <2> QED
    BY <1>18, <2>3, <2>4 DEF OnConnectRequest, Die
<1>19. ASSUME NEW n \in Conns, OnConnection(n) PROVE UpInv'
  <2>1. ServerUp /\ <<"RTU", n>> \in net /\ UNCHANGED <<clientVars, connVars>>
    BY <1>19 DEF OnConnection, Connected
  <2>2. CASE LoopControl(0, sstate', buffer)
    BY <2>1, <2>2 DEF LoopControl, ServerUp, UpInv
  <2>3. CASE squeue[n] = 0 /\ UNCHANGED region
    <3>1. ASSUME HasRegion PROVE FALSE
      <4>1. conn[0] \in Conns /\ squeue[conn[0]] = 0 /\ Accepted(conn[0])
        BY <1>0, <3>1, FirstQueue DEF HasRegion
      <4>2. Accepted(n)
        BY <2>3, 0 # -1 DEF Accepted
      <4>3. n = conn[0]
        <5>1. n \in Int /\ conn[0] \in Int /\ ~(0 < 0)
          BY <4>1, QueuesNat, ConnectAssumption DEF Conns
        <5> QED
          BY <1>0, <2>3, <4>1, <4>2, <5>1 DEF RunInv, OrderInv
      <4> QED
        BY <1>0, <2>1, <3>1, <4>3 DEF RunInv, RegionInv, HasRegion
    <3> QED
      BY <2>1, <2>3, <3>1 DEF UpInv, HasRegion
  <2> QED
    BY <1>19, <2>2, <2>3 DEF OnConnection, Die
<1>20. ASSUME NEW n \in Conns, OnDisconnect(n) PROVE UpInv'
  <2>1. ServerUp /\ <<"DREQ", n>> \in net /\ UNCHANGED <<clientVars, connVars, region>>
    BY <1>20 DEF OnDisconnect
  <2>2. cst[n] = "closed"
    BY <1>0, <2>1 DEF AnswerInv
  <2>3. ~HasRegion
    BY <1>0, <2>1, <2>2, OwnMessages DEF Kinds
  <2> QED
    BY <2>1, <2>3 DEF UpInv, HasRegion
<1>21. ASSUME NEW n \in Conns, OnUnknownEvent(n) PROVE UpInv'
  <2>1. ServerUp /\ UNCHANGED <<clientVars, connVars, region>>
    BY <1>21 DEF OnUnknownEvent
  <2>2. \E k \in Kinds : <<k, n>> \in net /\ cst[n] \in {"stuck", "closed"}
    BY <1>0, <1>21 DEF OnUnknownEvent, AnswerInv, Kinds
  <2>3. HasRegion => Doomed
    BY <1>0, <2>1, <2>2, OwnMessages DEF Doomed
  <2>4. HasRegion' => HasRegion
    BY <2>1 DEF HasRegion
  <2>5. cst[conn[qi]] = "stuck" => (Doomed => Doomed')
    BY <2>1 DEF Doomed
  <2>6. HasRegion => cst[conn[qi]] = "stuck"
    BY <1>0, <2>1, <2>2, OwnMessages
  <2> QED
    BY <2>3, <2>4, <2>5, <2>6 DEF UpInv
<1>22. CASE UNCHANGED vars
  BY <1>0, <1>22 DEF UpInv, HasRegion, Doomed, Accepted, ServerUp, AllUp
<1>23. ASSUME NEW n \in Conns, Disconnected(n) PROVE UpInv'
  BY <1>0, <1>23 DEF Disconnected, UpInv, HasRegion, Doomed, Accepted, ServerUp, AllUp
<1> QED
  BY <1>1, <1>2, <1>3, <1>4, <1>5, <1>6, <1>7, <1>8, <1>9, <1>10, <1>11, <1>12,
       <1>13, <1>14, <1>15, <1>16, <1>17, <1>18, <1>19, <1>20, <1>21, <1>22, <1>23 DEF
       Next, ClientHandler, ClientStep, ServerStep

\* A ready driver has its server: no event of an earlier load or of the present
\* one has ended the server's loops and freed the buffer the region describes.
THEOREM ServedCorrect == Spec => []ReadyServed
<1>1. Init => UpInv
  BY DEF Init, UpInv, HasRegion, AllUp
<1>2. ClientInv /\ LinkInv /\ RunInv /\ UpInv /\ [Next]_vars => UpInv'
  BY UpStep
<1>3. ClientInv /\ LinkInv /\ RunInv /\ UpInv => ReadyServed
  <2> SUFFICES ASSUME ClientInv, LinkInv, RunInv, UpInv, cpc = "ready"
               PROVE  ServerUp /\ buffer = "registered"
    BY DEF ReadyServed
  <2>1. conn[0] \in region
    BY DEF RunInv, RegionInv
  <2>2. HasRegion
    BY <2>1, QueuesNat DEF HasRegion, AllUp, ClientInv, NumberInv
  <2>3. ServerUp
    BY <2>2 DEF UpInv, Doomed
  <2> QED
    BY <2>1, <2>3, FirstQueue DEF LinkInv, LoopInv
<1> QED
  BY <1>1, <1>2, <1>3, RunKept, PTL DEF Spec

-----------------------------------------------------------------------------
(* What loads leave behind.                                                *)

\* Connection n was made by the present load, which no longer has it.
GivenUp(n) == handler[n] = attempts /\ ~Mine(n)

\* What the present load has allocated, and what it has given up so far.
PresentInv ==
  /\ cpc # "unloaded" /\ ~crashed => {"cache", "ctrl", "queues"} \subseteq kept[attempts]
  /\ Pending /\ cst[conn[qi]] \in {"route", "request", "established"}
       => "pd" \in kept[attempts]
  /\ cpc \in AllUp \cup {"cleanup"} => "pd" \in kept[attempts]
  /\ cpc \in AllUp \cup {"start", "wait", "destroy"} => \A n \in Conns : ~GivenUp(n)
  /\ cpc = "unwind" =>
       \A m, n \in Conns :
         GivenUp(m) /\ GivenUp(n) /\ ib[m] # {} /\ ib[n] # {} => m = n
  /\ cpc = "cleanup" => \A n \in Conns : GivenUp(n) => ib[n] = {}

\* A step leaves connection n and its load alone, or n is of the present load.
Untouched(n) == handler'[n] = handler[n] /\ cst'[n] = cst[n] /\ ib'[n] = ib[n]
OfPresent(n) == cpc # "unloaded" /\ handler'[n] = attempts /\ attempts' = attempts

\* Only the connections of the present load change.
LEMMA TouchStep ==
  ASSUME ClientInv, [Next]_vars, NEW n \in Conns PROVE Untouched(n) \/ OfPresent(n)
<1> USE ConnectAssumption, QueuesNat
<1> USE DEF vars, clientVars, connVars, serverVars, loadVars
<1>0. ClientInv /\ ClientTypes /\ LoadInv /\ NumberInv /\ ConsecutiveInv /\ StateInv
  BY DEF ClientInv
<1>1. ASSUME NEW m \in Conns, AddrResolved(m) PROVE Untouched(n) \/ OfPresent(n)
  <2>1. Mine(m) /\ cpc # "unloaded"
    BY <1>0, <1>1, Sender DEF AddrResolved, Mine, Pending
  <2>2. handler[m] = attempts
    BY <1>0, <2>1 DEF LoadInv
  <2> QED
    BY <1>0, <1>1, <2>1, <2>2 DEF AddrResolved, Untouched, OfPresent, ClientTypes
<1>2. ASSUME NEW m \in Conns, RouteResolved(m) PROVE Untouched(n) \/ OfPresent(n)
  <2>1. Mine(m) /\ cpc # "unloaded"
    BY <1>0, <1>2, Sender DEF RouteResolved, Mine, Pending
  <2>2. handler[m] = attempts
    BY <1>0, <2>1 DEF LoadInv
  <2> QED
    BY <1>0, <1>2, <2>1, <2>2 DEF RouteResolved, Untouched, OfPresent, ClientTypes
<1>3. ASSUME NEW m \in Conns, CmErrorEvent(m) PROVE Untouched(n) \/ OfPresent(n)
  <2>1. Mine(m) /\ cpc # "unloaded"
    BY <1>0, <1>3, Sender DEF CmErrorEvent, Mine, Pending
  <2>2. handler[m] = attempts
    BY <1>0, <2>1 DEF LoadInv
  <2> QED
    BY <1>0, <1>3, <2>1, <2>2 DEF CmErrorEvent, Untouched, OfPresent, ClientTypes
<1>4. ASSUME NEW m \in Conns, Rejected(m) PROVE Untouched(n) \/ OfPresent(n)
  <2>1. Mine(m) /\ cpc # "unloaded"
    BY <1>0, <1>4, Sender DEF Rejected, Mine, Pending
  <2>2. handler[m] = attempts
    BY <1>0, <2>1 DEF LoadInv
  <2> QED
    BY <1>0, <1>4, <2>1, <2>2 DEF Rejected, Untouched, OfPresent, ClientTypes
<1>5. ASSUME NEW m \in Conns, Established(m) PROVE Untouched(n) \/ OfPresent(n)
  <2>1. Mine(m) /\ cpc # "unloaded"
    BY <1>0, <1>5, Sender DEF Established, Mine, Pending
  <2>2. handler[m] = attempts
    BY <1>0, <2>1 DEF LoadInv
  <2> QED
    BY <1>0, <1>5, <2>1, <2>2 DEF Established, Untouched, OfPresent, ClientTypes
<1>6. ASSUME InsMod PROVE Untouched(n) \/ OfPresent(n)
  BY <1>6 DEF InsMod, Untouched
<1>7. ASSUME StartQueue PROVE Untouched(n) \/ OfPresent(n)
  BY <1>0, <1>7, FreshNumber DEF StartQueue, Untouched, OfPresent, ClientTypes, LoadInv,
       LoadTypes
<1>8. ASSUME QueueUp PROVE Untouched(n) \/ OfPresent(n)
  BY <1>8 DEF QueueUp, Untouched
<1>9. ASSUME QueueDown PROVE Untouched(n) \/ OfPresent(n)
  BY <1>9 DEF QueueDown, Untouched
<1>10. ASSUME DestroyCmId PROVE Untouched(n) \/ OfPresent(n)
  <2>1. Mine(conn[qi]) /\ cpc # "unloaded" /\ UNCHANGED <<handler, attempts, ib>>
    BY <1>10 DEF DestroyCmId, Mine, Pending
  <2>2. n = conn[qi] => handler[n] = attempts
    BY <1>0, <2>1 DEF LoadInv
  <2> QED
    BY <1>0, <1>10, <2>1, <2>2 DEF DestroyCmId, Close, Current, Untouched, OfPresent,
         ClientTypes
<1>11. ASSUME Unwind PROVE Untouched(n) \/ OfPresent(n)
  <2>1. UNCHANGED <<handler, attempts, conn>>
    BY <1>11 DEF Unwind
  <2>2. \/ UNCHANGED <<cst, ib>>
        \/ \E i \in ClientQueues :
             /\ Live(i) /\ cpc # "unloaded"
             /\ cst' = [cst EXCEPT ![conn[i]] = "closed"]
             /\ ib' = [ib EXCEPT ![conn[i]] = {}]
    BY <1>0, <1>11 DEF Unwind, StopAndFreeQueue, Close, Live, AllUp, ClientQueues,
         ClientTypes,
         NumberInv
  <2>3. CASE UNCHANGED <<cst, ib>>
    BY <2>1, <2>3 DEF Untouched
  <2>4. ASSUME NEW i \in ClientQueues, Live(i), cpc # "unloaded",
               cst' = [cst EXCEPT ![conn[i]] = "closed"],
               ib' = [ib EXCEPT ![conn[i]] = {}]
        PROVE  Untouched(n) \/ OfPresent(n)
    <3>1. n = conn[i] => handler[n] = attempts
      BY <1>0, <2>4 DEF LoadInv, Mine
    <3> QED
      BY <1>0, <2>1, <2>4, <3>1 DEF Untouched, OfPresent, ClientTypes
  <2> QED
    BY <2>2, <2>3, <2>4
<1>12. ASSUME GetReqForBuf PROVE Untouched(n) \/ OfPresent(n)
  BY <1>12 DEF GetReqForBuf, Untouched
<1>13. ASSUME PostRecv PROVE Untouched(n) \/ OfPresent(n)
  BY <1>13 DEF PostRecv, Untouched
<1>14. ASSUME RegionReceived PROVE Untouched(n) \/ OfPresent(n)
  BY <1>14 DEF RegionReceived, Untouched
<1>15. ASSUME RmMod PROVE Untouched(n) \/ OfPresent(n)
  BY <1>15 DEF RmMod, Untouched
<1>16. ASSUME StopAndFree PROVE Untouched(n) \/ OfPresent(n)
  <2>1. UNCHANGED <<handler, attempts, conn>>
    BY <1>16 DEF StopAndFree
  <2>2. \/ UNCHANGED <<cst, ib>>
        \/ \E i \in ClientQueues :
             /\ Live(i) /\ cpc # "unloaded"
             /\ cst' = [cst EXCEPT ![conn[i]] = "closed"]
             /\ ib' = [ib EXCEPT ![conn[i]] = {}]
    BY <1>0, <1>16 DEF StopAndFree, StopAndFreeQueue, Close, Live, AllUp, ClientQueues,
         ClientTypes,
         NumberInv
  <2>3. CASE UNCHANGED <<cst, ib>>
    BY <2>1, <2>3 DEF Untouched
  <2>4. ASSUME NEW i \in ClientQueues, Live(i), cpc # "unloaded",
               cst' = [cst EXCEPT ![conn[i]] = "closed"],
               ib' = [ib EXCEPT ![conn[i]] = {}]
        PROVE  Untouched(n) \/ OfPresent(n)
    <3>1. n = conn[i] => handler[n] = attempts
      BY <1>0, <2>4 DEF LoadInv, Mine
    <3> QED
      BY <1>0, <2>1, <2>4, <3>1 DEF Untouched, OfPresent, ClientTypes
  <2> QED
    BY <2>2, <2>3, <2>4
<1>17. ASSUME ServerStep \/ StartServer PROVE Untouched(n) \/ OfPresent(n)
  BY <1>17, ServerFrame DEF Untouched
<1>18. CASE UNCHANGED vars
  BY <1>18 DEF Untouched
<1>19. ASSUME NEW m \in Conns, Disconnected(m) PROVE Untouched(n) \/ OfPresent(n)
  BY <1>19 DEF Disconnected, Untouched
<1> QED
  BY <1>1, <1>2, <1>3, <1>4, <1>5, <1>6, <1>7, <1>8, <1>9, <1>10, <1>11, <1>12, <1>13,
       <1>14, <1>15, <1>16, <1>17, <1>18, <1>19
     DEF Next, ClientHandler, ClientStep

\* Every step keeps what the present load has and has given up.
LEMMA PresentStep ==
  ASSUME ClientInv, PresentInv, ~crashed, [Next]_vars PROVE PresentInv'
<1> USE ConnectAssumption, QueuesNat
<1> USE DEF vars, clientVars, connVars, serverVars, loadVars
<1>0. /\ PresentInv /\ ClientInv /\ ~crashed /\ ClientTypes /\ LoadInv /\ NumberInv
      /\ ConsecutiveInv /\ StateInv
  BY DEF ClientInv
<1>1. ASSUME NEW m \in Conns, AddrResolved(m) PROVE PresentInv'
  <2>1. Pending /\ m = conn[qi] /\ Mine(m) /\ handler[m] = attempts /\ cpc # "unloaded"
    <3>1. Pending /\ m = conn[qi]
      BY <1>0, <1>1, Sender DEF AddrResolved
    <3> QED
      BY <1>0, <3>1 DEF Pending, Mine, LoadInv
  <2>2. UNCHANGED <<cpc, qi, conn, attempts, handler, crashed>>
    BY <1>1 DEF AddrResolved
  <2>3. /\ \A n \in Conns : (Mine(n)' <=> Mine(n)) /\ (GivenUp(n)' <=> GivenUp(n))
        /\ Pending' <=> Pending
    BY <2>2 DEF Mine, Live, Pending, GivenUp
  <2>4. ~GivenUp(m) /\ \A n \in Conns : n # m => ib'[n] = ib[n]
    BY <1>0, <1>1, <2>1 DEF AddrResolved, GivenUp, ClientTypes
  <2>5. kept[attempts] \subseteq kept'[attempts]
    BY <1>0, <1>1, <2>1 DEF AddrResolved, LoadInv, LoadTypes
  <2>6. cst'[m] \in {"route", "request", "established"} => "pd" \in kept'[attempts]
    BY <1>0, <1>1, <2>1, <2>5 DEF AddrResolved, LoadInv, LoadTypes, ClientTypes,
         PresentInv, Loads,
         NumberInv
  <2> QED
    BY <1>0, <2>1, <2>2, <2>3, <2>4, <2>5, <2>6 DEF PresentInv
<1>2. ASSUME NEW m \in Conns, RouteResolved(m) PROVE PresentInv'
  <2>1. Pending /\ m = conn[qi] /\ Mine(m) /\ handler[m] = attempts /\ cpc # "unloaded"
    <3>1. Pending /\ m = conn[qi]
      BY <1>0, <1>2, Sender DEF RouteResolved
    <3> QED
      BY <1>0, <3>1 DEF Pending, Mine, LoadInv
  <2>2. UNCHANGED <<cpc, qi, conn, attempts, handler, crashed>>
    BY <1>2 DEF RouteResolved
  <2>3. /\ \A n \in Conns : (Mine(n)' <=> Mine(n)) /\ (GivenUp(n)' <=> GivenUp(n))
        /\ Pending' <=> Pending
    BY <2>2 DEF Mine, Live, Pending, GivenUp
  <2>4. ~GivenUp(m) /\ \A n \in Conns : n # m => ib'[n] = ib[n]
    BY <1>0, <1>2, <2>1 DEF RouteResolved, GivenUp, ClientTypes
  <2>5. kept[attempts] \subseteq kept'[attempts]
    BY <1>0, <1>2, <2>1 DEF RouteResolved, LoadInv, LoadTypes
  <2>6. cst'[m] \in {"route", "request", "established"} => "pd" \in kept'[attempts]
    BY <1>0, <1>2, <2>1, <2>5 DEF RouteResolved, LoadInv, LoadTypes, ClientTypes,
         PresentInv, Loads,
         NumberInv
  <2> QED
    BY <1>0, <2>1, <2>2, <2>3, <2>4, <2>5, <2>6 DEF PresentInv
<1>3. ASSUME NEW m \in Conns, CmErrorEvent(m) PROVE PresentInv'
  <2>1. Pending /\ m = conn[qi] /\ Mine(m) /\ handler[m] = attempts /\ cpc # "unloaded"
    <3>1. Pending /\ m = conn[qi]
      BY <1>0, <1>3, Sender DEF CmErrorEvent
    <3> QED
      BY <1>0, <3>1 DEF Pending, Mine, LoadInv
  <2>2. UNCHANGED <<cpc, qi, conn, attempts, handler, crashed>>
    BY <1>3 DEF CmErrorEvent
  <2>3. /\ \A n \in Conns : (Mine(n)' <=> Mine(n)) /\ (GivenUp(n)' <=> GivenUp(n))
        /\ Pending' <=> Pending
    BY <2>2 DEF Mine, Live, Pending, GivenUp
  <2>4. ~GivenUp(m) /\ \A n \in Conns : n # m => ib'[n] = ib[n]
    BY <1>0, <1>3, <2>1 DEF CmErrorEvent, GivenUp, ClientTypes
  <2>5. kept[attempts] \subseteq kept'[attempts]
    BY <1>0, <1>3, <2>1 DEF CmErrorEvent, LoadInv, LoadTypes
  <2>6. cst'[m] \in {"route", "request", "established"} => "pd" \in kept'[attempts]
    BY <1>0, <1>3, <2>1, <2>5 DEF CmErrorEvent, LoadInv, LoadTypes, ClientTypes,
         PresentInv, Loads,
         NumberInv
  <2> QED
    BY <1>0, <2>1, <2>2, <2>3, <2>4, <2>5, <2>6 DEF PresentInv
<1>4. ASSUME NEW m \in Conns, Rejected(m) PROVE PresentInv'
  <2>1. Pending /\ m = conn[qi] /\ Mine(m) /\ handler[m] = attempts /\ cpc # "unloaded"
    <3>1. Pending /\ m = conn[qi]
      BY <1>0, <1>4, Sender DEF Rejected
    <3> QED
      BY <1>0, <3>1 DEF Pending, Mine, LoadInv
  <2>2. UNCHANGED <<cpc, qi, conn, attempts, handler, crashed>>
    BY <1>4 DEF Rejected
  <2>3. /\ \A n \in Conns : (Mine(n)' <=> Mine(n)) /\ (GivenUp(n)' <=> GivenUp(n))
        /\ Pending' <=> Pending
    BY <2>2 DEF Mine, Live, Pending, GivenUp
  <2>4. ~GivenUp(m) /\ \A n \in Conns : n # m => ib'[n] = ib[n]
    BY <1>0, <1>4, <2>1 DEF Rejected, GivenUp, ClientTypes
  <2>5. kept[attempts] \subseteq kept'[attempts]
    BY <1>0, <1>4, <2>1 DEF Rejected, LoadInv, LoadTypes
  <2>6. cst'[m] \in {"route", "request", "established"} => "pd" \in kept'[attempts]
    BY <1>0, <1>4, <2>1, <2>5 DEF Rejected, LoadInv, LoadTypes, ClientTypes, PresentInv,
         Loads,
         NumberInv
  <2> QED
    BY <1>0, <2>1, <2>2, <2>3, <2>4, <2>5, <2>6 DEF PresentInv
<1>5. ASSUME NEW m \in Conns, Established(m) PROVE PresentInv'
  <2>1. Pending /\ m = conn[qi] /\ Mine(m) /\ handler[m] = attempts /\ cpc # "unloaded"
    <3>1. Pending /\ m = conn[qi]
      BY <1>0, <1>5, Sender DEF Established
    <3> QED
      BY <1>0, <3>1 DEF Pending, Mine, LoadInv
  <2>2. UNCHANGED <<cpc, qi, conn, attempts, handler, crashed>>
    BY <1>5 DEF Established
  <2>3. /\ \A n \in Conns : (Mine(n)' <=> Mine(n)) /\ (GivenUp(n)' <=> GivenUp(n))
        /\ Pending' <=> Pending
    BY <2>2 DEF Mine, Live, Pending, GivenUp
  <2>4. ~GivenUp(m) /\ \A n \in Conns : n # m => ib'[n] = ib[n]
    BY <1>0, <1>5, <2>1 DEF Established, GivenUp, ClientTypes
  <2>5. kept[attempts] \subseteq kept'[attempts]
    BY <1>0, <1>5, <2>1 DEF Established, LoadInv, LoadTypes
  <2>6. cst'[m] \in {"route", "request", "established"} => "pd" \in kept'[attempts]
    BY <1>0, <1>5, <2>1, <2>5 DEF Established, LoadInv, LoadTypes, ClientTypes, PresentInv,
         Loads,
         NumberInv
  <2> QED
    BY <1>0, <2>1, <2>2, <2>3, <2>4, <2>5, <2>6 DEF PresentInv
<1>6. ASSUME InsMod PROVE PresentInv'
  <2>1. /\ cpc = "unloaded" /\ cpc' \in {"unloaded", "start"} /\ UNCHANGED handler
        /\ attempts' = attempts + 1
    BY <1>6 DEF InsMod, sswap_rdma_create_ctrl, Refused
  <2>2. attempts \in Nat /\ attempts + 1 \in Loads /\ \A n \in Conns : handler[n] \in Nat
    BY <1>0, <1>6 DEF InsMod, ClientTypes, LoadInv, LoadTypes, Loads
  <2>3. \A n \in Conns : ~GivenUp(n)'
    BY <1>0, <2>1, <2>2 DEF GivenUp, LoadInv
  <2>4. cpc' = "start" /\ ~crashed' => NewLoad("loaded", {"cache", "ctrl", "queues"})
    BY <1>6, <2>1 DEF InsMod, sswap_rdma_create_ctrl, Refused
  <2>5. cpc' = "start" /\ ~crashed' => {"cache", "ctrl", "queues"} \subseteq kept'[attempts']
    BY <1>0, <2>1, <2>2, <2>4 DEF NewLoad, LoadInv, LoadTypes
  <2> QED
    BY <2>1, <2>3, <2>5 DEF PresentInv, Pending, AllUp
<1>7. ASSUME StartQueue PROVE PresentInv'
  <2>1. qi \in ClientQueues /\ last + 1 \in Conns
    BY <1>0, <1>7, FreshNumber DEF StartQueue
  <2>2. /\ cpc = "start" /\ cpc' \in {"wait", "destroy", "unwind"}
        /\ UNCHANGED <<qi, attempts, kept, crashed>>
    BY <1>7 DEF StartQueue
  <2>3. \A n \in Conns : ~GivenUp(n) /\ (Mine(n) => \E i \in ClientQueues : i < qi /\ conn[i] = n)
    BY <1>0, <2>2 DEF PresentInv, Mine, Live, Pending, AllUp
  <2>4. \/ UNCHANGED <<handler, conn>>
        \/ /\ handler' = [handler EXCEPT ![last + 1] = attempts] /\ Pending'
           /\ conn' = [conn EXCEPT ![qi] = last + 1]
    BY <1>7 DEF StartQueue, Pending
  <2>5. \A n \in Conns : Mine(n) => Mine(n)'
    BY <1>0, <2>1, <2>2, <2>3, <2>4 DEF Mine, Live, ClientTypes, ClientQueues
  <2>6. \A n \in Conns : handler'[n] = attempts => handler[n] = attempts \/ Mine(n)'
    BY <1>0, <2>1, <2>2, <2>4 DEF Mine, ClientTypes, LoadInv, LoadTypes
  <2>7. \A n \in Conns : ~GivenUp(n)'
    BY <2>2, <2>3, <2>5, <2>6 DEF GivenUp
  <2>8. Pending' => cst'[conn'[qi]] \in {"address", "stuck"}
    BY <1>0, <1>7, <2>1 DEF StartQueue, Pending, ClientTypes
  <2> QED
    BY <1>0, <2>2, <2>7, <2>8 DEF PresentInv, AllUp
<1>8. ASSUME QueueUp PROVE PresentInv'
  <2>1. UNCHANGED <<conn, attempts, handler, kept, ib>>
    BY <1>8 DEF QueueUp
  <2>2. \A n \in Conns : Mine(n) => Mine(n)'
    BY <1>0, <1>8, <2>1 DEF QueueUp, Mine, Live, Pending, AllUp, ClientQueues, ClientTypes,
         NumberInv
  <2>3. \A n \in Conns : GivenUp(n)' => GivenUp(n)
    BY <2>1, <2>2 DEF GivenUp
  <2>4. /\ cpc = "wait" /\ cpc' \in {"start", "remotemr"} /\ UNCHANGED crashed
        /\ cst[conn[qi]] = "established"
    BY <1>0, <1>8 DEF QueueUp, StateInv, Pending
  <2>5. "pd" \in kept[attempts]
    BY <1>0, <2>4 DEF PresentInv, Pending
  <2> QED
    BY <1>0, <2>1, <2>3, <2>4, <2>5 DEF PresentInv, Pending, AllUp
<1>9. ASSUME QueueDown PROVE PresentInv'
  <2>1. UNCHANGED <<conn, attempts, handler, kept, ib>>
    BY <1>9 DEF QueueDown
  <2>2. \A n \in Conns : Mine(n) => Mine(n)'
    BY <1>0, <1>9, <2>1 DEF QueueDown, Mine, Live, Pending, AllUp, ClientQueues,
         ClientTypes,
         NumberInv
  <2>3. \A n \in Conns : GivenUp(n)' => GivenUp(n)
    BY <2>1, <2>2 DEF GivenUp
  <2>4. cpc = "wait" /\ cpc' = "destroy" /\ UNCHANGED <<qi, cst, crashed>>
    BY <1>9 DEF QueueDown
  <2> QED
    BY <1>0, <2>1, <2>3, <2>4 DEF PresentInv, Pending, AllUp
<1>10. ASSUME DestroyCmId PROVE PresentInv'
  <2>1. /\ cpc = "destroy" /\ cpc' = "unwind"
        /\ UNCHANGED <<qi, conn, attempts, handler, kept, ib, crashed>>
    BY <1>10 DEF DestroyCmId
  <2>2. \A n \in Conns : Mine(n) => Mine(n)' \/ n = conn[qi]
    BY <2>1 DEF Mine, Live, Pending, AllUp
  <2>3. \A n \in Conns : GivenUp(n)' => n = conn[qi]
    BY <1>0, <2>1, <2>2 DEF GivenUp, PresentInv
  <2> QED
    BY <1>0, <2>1, <2>3 DEF PresentInv, Pending, AllUp
<1>11. ASSUME Unwind PROVE PresentInv'
  <2>1. UNCHANGED <<conn, attempts, handler, crashed>> /\ cpc = "unwind" /\ ~Pending
    BY <1>11 DEF Unwind, Pending
  <2>2. CASE cpc' = "unloaded"
    BY <2>2 DEF PresentInv, Pending, AllUp
  <2>3. CASE cpc' # "unloaded"
    <3>1. /\ qi - 1 \in ClientQueues /\ Live(qi - 1) /\ qi' = qi - 1
          /\ StopAndFreeQueue(qi - 1) /\ UNCHANGED <<cpc, kept>>
      BY <1>0, <1>11, <2>3 DEF Unwind, ClientTypes, NumberInv, Live, ClientQueues
    <3>2. \A j \in ClientQueues : Live(j) /\ j # qi - 1 => Live(j)'
      BY <1>0, <2>1, <3>1 DEF Live, AllUp, ClientQueues, ClientTypes
    <3>3. \A n \in Conns : Mine(n) => Mine(n)' \/ n = conn[qi - 1]
      BY <2>1, <3>2 DEF Mine
    <3>4. \A n \in Conns : ib'[n] = IF n = conn[qi - 1] THEN {} ELSE ib[n]
      BY <1>0, <3>1 DEF StopAndFreeQueue, ClientTypes
    <3>5. \A n \in Conns : GivenUp(n)' => GivenUp(n) \/ ib'[n] = {}
      BY <2>1, <3>3, <3>4 DEF GivenUp
    <3>6. \A n \in Conns : ib'[n] # {} => ib[n] # {}
      BY <3>4
    <3> QED
      BY <1>0, <2>1, <3>1, <3>5, <3>6 DEF PresentInv, Pending, AllUp
  <2> QED
    BY <2>2, <2>3
<1>12. ASSUME GetReqForBuf PROVE PresentInv'
  <2>1. CASE cpc' = "unloaded"
    BY <2>1 DEF PresentInv, Pending, AllUp
  <2>2. CASE cpc' # "unloaded"
    <3>1. /\ UNCHANGED <<qi, conn, attempts, handler, kept, ib>> /\ ~Pending /\ ~Pending'
          /\ cpc \in AllUp /\ cpc' \in AllUp
      BY <1>12, <2>2 DEF GetReqForBuf, LeaveQueues, Pending, AllUp
    <3>2. \A n \in Conns : GivenUp(n)' <=> GivenUp(n)
      BY <3>1 DEF GivenUp, Mine, Live, AllUp
    <3> QED
      BY <1>0, <3>1, <3>2 DEF PresentInv, Pending, AllUp
  <2> QED
    BY <2>1, <2>2
<1>13. ASSUME PostRecv PROVE PresentInv'
  <2>1. CASE cpc' = "unloaded"
    BY <2>1 DEF PresentInv, Pending, AllUp
  <2>2. CASE cpc' # "unloaded"
    <3>1. /\ UNCHANGED <<qi, conn, attempts, handler, kept, ib>> /\ ~Pending /\ ~Pending'
          /\ cpc \in AllUp /\ cpc' \in AllUp
      BY <1>13, <2>2 DEF PostRecv, LeaveQueues, Pending, AllUp
    <3>2. \A n \in Conns : GivenUp(n)' <=> GivenUp(n)
      BY <3>1 DEF GivenUp, Mine, Live, AllUp
    <3> QED
      BY <1>0, <3>1, <3>2 DEF PresentInv, Pending, AllUp
  <2> QED
    BY <2>1, <2>2
<1>14. ASSUME RegionReceived PROVE PresentInv'
  <2>1. UNCHANGED <<conn, attempts, handler, kept, ib>>
    BY <1>14 DEF RegionReceived
  <2>2. \A n \in Conns : Mine(n) => Mine(n)'
    BY <1>0, <1>14, <2>1 DEF RegionReceived, Mine, Live, Pending, AllUp, ClientQueues,
         ClientTypes,
         NumberInv
  <2>3. \A n \in Conns : GivenUp(n)' => GivenUp(n)
    BY <2>1, <2>2 DEF GivenUp
  <2>4. cpc = "waitmr" /\ cpc' = "ready" /\ UNCHANGED crashed
    BY <1>14 DEF RegionReceived
  <2> QED
    BY <1>0, <2>1, <2>3, <2>4 DEF PresentInv, Pending, AllUp
<1>15. ASSUME RmMod PROVE PresentInv'
  <2>1. UNCHANGED <<conn, attempts, handler, kept, ib>>
    BY <1>15 DEF RmMod
  <2>2. \A n \in Conns : Mine(n) => Mine(n)'
    BY <1>0, <1>15, <2>1 DEF RmMod, Mine, Live, Pending, AllUp, ClientQueues, ClientTypes,
         NumberInv
  <2>3. \A n \in Conns : GivenUp(n)' => GivenUp(n)
    BY <2>1, <2>2 DEF GivenUp
  <2>4. cpc = "ready" /\ cpc' = "cleanup" /\ UNCHANGED crashed
    BY <1>15 DEF RmMod
  <2> QED
    BY <1>0, <2>1, <2>3, <2>4 DEF PresentInv, Pending, AllUp
<1>16. ASSUME StopAndFree PROVE PresentInv'
  <2>1. UNCHANGED <<conn, attempts, handler, crashed>> /\ cpc = "cleanup" /\ ~Pending
    BY <1>16 DEF StopAndFree, Pending
  <2>2. CASE cpc' = "unloaded"
    BY <2>2 DEF PresentInv, Pending, AllUp
  <2>3. CASE cpc' # "unloaded"
    <3>1. /\ qi \in ClientQueues /\ Live(qi) /\ qi' = qi + 1
          /\ StopAndFreeQueue(qi) /\ UNCHANGED <<cpc, kept>>
      BY <1>0, <1>16, <2>3 DEF StopAndFree, ClientTypes, NumberInv, Live, ClientQueues
    <3>2. \A j \in ClientQueues : Live(j) /\ j # qi => Live(j)'
      BY <1>0, <2>1, <3>1 DEF Live, AllUp, ClientQueues, ClientTypes
    <3>3. \A n \in Conns : Mine(n) => Mine(n)' \/ n = conn[qi]
      BY <2>1, <3>2 DEF Mine
    <3>4. \A n \in Conns : ib'[n] = IF n = conn[qi] THEN {} ELSE ib[n]
      BY <1>0, <3>1 DEF StopAndFreeQueue, ClientTypes
    <3>5. \A n \in Conns : GivenUp(n)' => GivenUp(n) \/ ib'[n] = {}
      BY <2>1, <3>3, <3>4 DEF GivenUp
    <3>6. \A n \in Conns : ib'[n] # {} => ib[n] # {}
      BY <3>4
    <3> QED
      BY <1>0, <2>1, <3>1, <3>5, <3>6 DEF PresentInv, Pending, AllUp
  <2> QED
    BY <2>2, <2>3
<1>17. ASSUME ServerStep \/ StartServer PROVE PresentInv'
  BY <1>0, <1>17, ServerFrame DEF PresentInv, GivenUp, Mine, Live, Pending
<1>18. CASE UNCHANGED vars
  BY <1>0, <1>18 DEF PresentInv, GivenUp, Mine, Live, Pending
<1>19. ASSUME NEW m \in Conns, Disconnected(m) PROVE PresentInv'
  BY <1>0, <1>19 DEF Disconnected, PresentInv, GivenUp, Mine, Live, Pending
<1> QED
  BY <1>1, <1>2, <1>3, <1>4, <1>5, <1>6, <1>7, <1>8, <1>9, <1>10, <1>11, <1>12, <1>13,
       <1>14, <1>15, <1>16, <1>17, <1>18, <1>19
     DEF Next, ClientHandler, ClientStep

\* Load l is lost as LossesOfLoad says.
Lost(l) ==
  LET made == {n \in Conns : handler[n] = l}
  IN  /\ fate[l] = "removed" =>
           kept[l] = {"queues", "pd"} /\ \A n \in made : ib[n] = {}
      /\ fate[l] = "refused" /\ made # {} =>
           /\ {"cache", "ctrl", "queues"} \subseteq kept[l]
           /\ \A m, n \in made : ib[m] # {} /\ ib[n] # {} => m = n
      /\ fate[l] = "noregion" =>
           /\ kept[l] = {"cache", "ctrl", "queues", "pd"}
           /\ \A n \in made : cst[n] = "established" /\ ib[n] = {"cq", "qp"}

\* Each of the three ways in which a load ends leaves what LossesOfLoad says.
LEMMA EndOfLoad ==
  ASSUME ClientInv, PresentInv, ~crashed, cpc' = "unloaded", cpc # "unloaded",
         UNCHANGED <<attempts, handler, ib, cst>>, NEW what, Ends(what),
         \/ what = "refused" /\ cpc = "unwind" /\ qi = 0 /\ UNCHANGED kept
         \/ what = "noregion" /\ cpc \in AllUp /\ UNCHANGED kept
         \/ /\ what = "removed" /\ cpc = "cleanup" /\ qi = numqueues
            /\ kept' = [kept EXCEPT ![attempts] = @ \ {"ctrl", "cache"}]
  PROVE  /\ Lost(attempts)'
         /\ \A l \in Loads : l # attempts => fate'[l] = fate[l] /\ kept'[l] = kept[l]
<1> USE ConnectAssumption, QueuesNat
<1>0. ClientTypes /\ LoadInv /\ NumberInv /\ StateInv /\ PresentInv
  BY DEF ClientInv
<1>1. attempts \in Loads
  BY <1>0 DEF ClientTypes, NumberInv, Loads
<1>2. /\ fate'[attempts] = what
      /\ \A l \in Loads : l # attempts => fate'[l] = fate[l] /\ kept'[l] = kept[l]
  BY <1>0, <1>1 DEF Ends, LoadInv, LoadTypes
<1>3. CASE what = "refused"
  <2>1. \A n \in Conns : handler[n] = attempts => GivenUp(n)
    BY <1>0, <1>3 DEF GivenUp, Mine, Live, Pending, AllUp, ClientQueues
  <2>2. UNCHANGED kept /\ {"cache", "ctrl", "queues"} \subseteq kept[attempts]
    BY <1>0, <1>3 DEF PresentInv
  <2>3. \A m, n \in Conns :
          GivenUp(m) /\ GivenUp(n) /\ ib[m] # {} /\ ib[n] # {} => m = n
    BY <1>0, <1>3 DEF PresentInv
  <2> QED
    BY <1>2, <1>3, <2>1, <2>2, <2>3 DEF Lost
<1>4. CASE what = "noregion"
  <2>1. \A n \in Conns : handler[n] = attempts => Mine(n)
    BY <1>0, <1>4 DEF GivenUp, PresentInv
  <2>2. \A n \in Conns : Mine(n) => cst[n] = "established" /\ ib[n] = {"cq", "qp"}
    BY <1>0, <1>4 DEF Mine, Pending, AllUp, StateInv
  <2>3. UNCHANGED kept /\ kept[attempts] = {"cache", "ctrl", "queues", "pd"}
    BY <1>0, <1>1, <1>4 DEF PresentInv, LoadInv, LoadTypes, AllUp
  <2> QED
    BY <1>2, <1>4, <2>1, <2>2, <2>3 DEF Lost
<1>5. CASE what = "removed"
  <2>1. \A n \in Conns : handler[n] = attempts => ib[n] = {}
    BY <1>0, <1>5 DEF GivenUp, PresentInv, Mine, Live, Pending, AllUp, ClientQueues
  <2>2. kept[attempts] = {"cache", "ctrl", "queues", "pd"}
    BY <1>0, <1>1, <1>5 DEF PresentInv, LoadInv, LoadTypes
  <2>3. kept'[attempts] = {"queues", "pd"}
    BY <1>0, <1>1, <1>5, <2>2 DEF LoadInv, LoadTypes
  <2> QED
    BY <1>2, <1>5, <2>1, <2>3 DEF Lost
<1> QED
  BY <1>2, <1>3, <1>4, <1>5

\* Every step keeps what is lost of the loads that are over.
LEMMA LossesStep ==
  ASSUME ClientInv, PresentInv, LossesOfLoad, Next PROVE LossesOfLoad'
<1> USE ConnectAssumption, QueuesNat
<1> USE DEF vars, clientVars, connVars, serverVars, loadVars
<1>0. ClientInv /\ PresentInv /\ ClientTypes /\ LoadInv /\ NumberInv /\ StateInv /\ ~crashed
  BY DEF ClientInv, Next
<1> SUFFICES ASSUME NEW l \in Loads
             PROVE  Lost(l)'
  BY DEF LossesOfLoad, Lost
<1>1. Lost(l)
  BY DEF LossesOfLoad, Lost
<1>2. CASE fate'[l] \in {"none", "loaded"}
  BY <1>2 DEF Lost
<1>3. ASSUME fate'[l] = fate[l], kept'[l] = kept[l] PROVE Lost(l)'
  <2>1. CASE fate[l] = "loaded"
    BY <1>2, <1>3, <2>1
  <2>2. CASE fate[l] # "loaded"
    <3>1. ASSUME NEW n \in Conns, handler'[n] = l PROVE Untouched(n)
      BY <1>0, <2>2, <3>1, TouchStep DEF OfPresent, LoadInv
    <3>2. \A n \in Conns :
            handler'[n] = l => handler[n] = l /\ cst'[n] = cst[n] /\ ib'[n] = ib[n]
      BY <3>1 DEF Untouched
    <3> QED
      BY <1>1, <1>3, <3>2 DEF Lost
  <2> QED
    BY <2>1, <2>2
<1>4. ASSUME NEW m \in Conns, AddrResolved(m) PROVE Lost(l)'
  <2>1. cpc # "unloaded" /\ handler[m] = attempts /\ UNCHANGED fate
    BY <1>0, <1>4, Sender DEF AddrResolved, Mine, Pending, LoadInv
  <2>2. CASE l = attempts
    BY <1>0, <1>2, <2>1, <2>2 DEF LoadInv
  <2>3. CASE l # attempts
    <3>1. kept'[l] = kept[l]
      BY <1>0, <1>4, <2>1, <2>3 DEF AddrResolved, LoadInv, LoadTypes
    <3> QED
      BY <1>3, <2>1, <3>1
  <2> QED
    BY <2>2, <2>3
<1>5. ASSUME InsMod PROVE Lost(l)'
  <2>1. PICK what, objects : NewLoad(what, objects) /\ what \in {"loaded", "refused"}
    BY <1>5 DEF InsMod, sswap_rdma_create_ctrl, Refused
  <2>2. UNCHANGED handler /\ \A n \in Conns : handler[n] # attempts + 1
    BY <1>0, <1>5 DEF InsMod, LoadInv, LoadTypes, ClientTypes
  <2>3. CASE l = attempts + 1
    BY <1>0, <2>1, <2>2, <2>3 DEF NewLoad, Lost, LoadInv, LoadTypes
  <2>4. CASE l # attempts + 1
    BY <1>0, <1>3, <2>1, <2>4 DEF NewLoad, LoadInv, LoadTypes
  <2> QED
    BY <2>3, <2>4
<1>6. ASSUME Unwind PROVE Lost(l)'
  <2>1. CASE UNCHANGED <<fate, kept>>
    BY <1>3, <2>1
  <2>2. CASE ~UNCHANGED <<fate, kept>>
    <3>1. /\ UNCHANGED <<attempts, handler, ib, cst>> /\ cpc' = "unloaded" /\ Ends("refused")
          /\ cpc = "unwind" /\ qi = 0 /\ UNCHANGED kept
      BY <1>0, <1>6, <2>2 DEF Unwind, AllUp, ClientTypes
    <3>2. cpc # "unloaded"
      BY <3>1 DEF AllUp
    <3>3. /\ Lost(attempts)'
          /\ \A k \in Loads : k # attempts => fate'[k] = fate[k] /\ kept'[k] = kept[k]
      BY <1>0, <3>1, <3>2, EndOfLoad
    <3> QED
      BY <1>3, <3>1, <3>3
  <2> QED
    BY <2>1, <2>2
<1>7. ASSUME GetReqForBuf PROVE Lost(l)'
  <2>1. CASE UNCHANGED <<fate, kept>>
    BY <1>3, <2>1
  <2>2. CASE ~UNCHANGED <<fate, kept>>
    <3>1. /\ UNCHANGED <<attempts, handler, ib, cst>> /\ cpc' = "unloaded" /\ Ends("noregion")
          /\ cpc \in AllUp /\ UNCHANGED kept
      BY <1>0, <1>7, <2>2 DEF GetReqForBuf, LeaveQueues, AllUp, ClientTypes
    <3>2. cpc # "unloaded"
      BY <3>1 DEF AllUp
    <3>3. /\ Lost(attempts)'
          /\ \A k \in Loads : k # attempts => fate'[k] = fate[k] /\ kept'[k] = kept[k]
      BY <1>0, <3>1, <3>2, EndOfLoad
    <3> QED
      BY <1>3, <3>1, <3>3
  <2> QED
    BY <2>1, <2>2
<1>8. ASSUME PostRecv PROVE Lost(l)'
  <2>1. CASE UNCHANGED <<fate, kept>>
    BY <1>3, <2>1
  <2>2. CASE ~UNCHANGED <<fate, kept>>
    <3>1. /\ UNCHANGED <<attempts, handler, ib, cst>> /\ cpc' = "unloaded" /\ Ends("noregion")
          /\ cpc \in AllUp /\ UNCHANGED kept
      BY <1>0, <1>8, <2>2 DEF PostRecv, LeaveQueues, AllUp, ClientTypes
    <3>2. cpc # "unloaded"
      BY <3>1 DEF AllUp
    <3>3. /\ Lost(attempts)'
          /\ \A k \in Loads : k # attempts => fate'[k] = fate[k] /\ kept'[k] = kept[k]
      BY <1>0, <3>1, <3>2, EndOfLoad
    <3> QED
      BY <1>3, <3>1, <3>3
  <2> QED
    BY <2>1, <2>2
<1>9. ASSUME StopAndFree PROVE Lost(l)'
  <2>1. CASE UNCHANGED <<fate, kept>>
    BY <1>3, <2>1
  <2>2. CASE ~UNCHANGED <<fate, kept>>
    <3>1. /\ UNCHANGED <<attempts, handler, ib, cst>> /\ cpc' = "unloaded" /\ Ends("removed")
          /\ cpc = "cleanup" /\ qi = numqueues
          /\ kept' = [kept EXCEPT ![attempts] = @ \ {"ctrl", "cache"}]
      BY <1>0, <1>9, <2>2 DEF StopAndFree, AllUp, ClientTypes
    <3>2. cpc # "unloaded"
      BY <3>1 DEF AllUp
    <3>3. /\ Lost(attempts)'
          /\ \A k \in Loads : k # attempts => fate'[k] = fate[k] /\ kept'[k] = kept[k]
      BY <1>0, <3>1, <3>2, EndOfLoad
    <3> QED
      BY <1>3, <3>1, <3>3
  <2> QED
    BY <2>1, <2>2
<1>10. CASE ServerStep \/ StartServer
  BY <1>3, <1>10, ServerFrame
<1>11. CASE UNCHANGED <<fate, kept>>
  BY <1>3, <1>11
<1> QED
  BY <1>4, <1>5, <1>6, <1>7, <1>8, <1>9, <1>10, <1>11
     DEF Next, ClientHandler, ClientStep, RouteResolved, CmErrorEvent, Rejected,
          Established,
         Disconnected, StartQueue, QueueUp, QueueDown, DestroyCmId, RegionReceived, RmMod

\* What a load that is over has left allocated: after rmmod the queue array and
\* the protection domain, after a failure on a queue at most that queue's verbs
\* objects and everything else, after a failure in recv_remotemr all of it.
THEOREM LossesCorrect == Spec => []LossesOfLoad
<1>1. Init => PresentInv /\ LossesOfLoad
  BY DEF Init, PresentInv, LossesOfLoad, Pending, AllUp
<1>2. ClientInv /\ PresentInv /\ LossesOfLoad /\ [Next]_vars
        => (PresentInv /\ LossesOfLoad)'
  <2>1. CASE ~Next
    BY <2>1 DEF vars, clientVars, connVars, loadVars, PresentInv, LossesOfLoad, Pending,
         GivenUp, Mine, Live
  <2>2. CASE Next
    BY <2>2, PresentStep, LossesStep DEF Next
  <2> QED
    BY <2>1, <2>2
<1> QED
  BY <1>1, <1>2, ClientKept, PTL DEF Spec

==============================================================================
