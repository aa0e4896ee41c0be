------------------------------ MODULE FarMemory ------------------------------
(***************************************************************************)
(* What a far memory backend promises the swap system, whichever transport *)
(* carries the pages: a store that has returned left the page's contents   *)
(* in far memory, and a frame that a load hands back holds what the last   *)
(* store of that page put there. Nothing here knows about queues, CPUs,    *)
(* completions or threads.                                                 *)
(***************************************************************************)
CONSTANTS Pages, Vals, None

VARIABLES
  phase,  \* mapped, storing, cached, out or loading
  frame,  \* contents of the page's local frame
  mem     \* contents of the page's slot in far memory

fmVars == <<phase, frame, mem>>

FMInit ==
  /\ phase = [p \in Pages |-> "mapped"]
  /\ frame \in [Pages -> Vals]
  /\ mem = [p \in Pages |-> None]

Move(p, from, to) == phase[p] = from /\ phase' = [phase EXCEPT ![p] = to]

Write(p, v) ==
  /\ phase[p] = "mapped"
  /\ frame' = [frame EXCEPT ![p] = v]
  /\ UNCHANGED <<phase, mem>>

\* The far copy of a page that is in memory is given up.
Discard(p) ==
  /\ phase[p] = "mapped"
  /\ mem' = [mem EXCEPT ![p] = None]
  /\ UNCHANGED <<phase, frame>>

BeginStore(p) == Move(p, "mapped", "storing") /\ UNCHANGED <<frame, mem>>

Put(p) ==
  /\ phase[p] = "storing"
  /\ mem' = [mem EXCEPT ![p] = frame[p]]
  /\ UNCHANGED <<phase, frame>>

EndStore(p) ==
  /\ Move(p, "storing", "cached")
  /\ mem[p] = frame[p]
  /\ UNCHANGED <<frame, mem>>

Drop(p) ==
  /\ Move(p, "cached", "out")
  /\ frame' = [frame EXCEPT ![p] = None]
  /\ UNCHANGED mem

BeginLoad(p) == Move(p, "out", "loading") /\ UNCHANGED <<frame, mem>>

Get(p) ==
  /\ phase[p] = "loading"
  /\ frame' = [frame EXCEPT ![p] = mem[p]]
  /\ UNCHANGED <<phase, mem>>

EndLoad(p) ==
  /\ Move(p, "loading", "cached")
  /\ frame[p] = mem[p]
  /\ UNCHANGED <<frame, mem>>

MapIn(p) == Move(p, "cached", "mapped") /\ UNCHANGED <<frame, mem>>

FMNext ==
  \E p \in Pages :
    \/ (\E v \in Vals : Write(p, v)) \/ Discard(p)
    \/ BeginStore(p) \/ Put(p) \/ EndStore(p) \/ Drop(p)
    \/ BeginLoad(p) \/ Get(p) \/ EndLoad(p) \/ MapIn(p)

FMSpec == FMInit /\ [][FMNext]_fmVars
=============================================================================
