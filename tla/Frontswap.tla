------------------------------ MODULE Frontswap ------------------------------
(***************************************************************************)
(* The frontswap layer as the kernel patch changes it (code/kernel/        *)
(* kernel.patch), the glue module that registers with it                   *)
(* (code/drivers/fastswap.c) and the buffer of the backend below           *)
(* (code/drivers/fastswap_dram.c; for RDMA the server's buffer, whose      *)
(* transfers SwapPath models step by step and this module takes as one     *)
(* step). Pages are given swap slots, stored, dropped, loaded and mapped,  *)
(* and slots are freed and reused.                                         *)
(*                                                                         *)
(* Loading and unloading the modules is BackendSwitch's. A call through    *)
(* the operations of a module that is gone, a BUG_ON or a bad address ends *)
(* the behaviour with `crash` set. Unloading waits for calls in progress   *)
(* (rmmod synchronizes with code that does not sleep), so each call into   *)
(* the glue module is one step.                                            *)
(***************************************************************************)
EXTENDS Naturals, FiniteSets

CONSTANTS
  Pages,      \* pages of the application
  Areas,      \* swap areas (the kernel's swap types)
  SwapPages,  \* pages of a swap area; page 0 holds its header
  BufPages,   \* pages of the backend's buffer
  Vals,       \* contents a page can have
  None,       \* no slot; contents that no store has written
  FaultKinds  \* failures explored: "transfer" (the RDMA driver gets no request
              \* or its post is refused), and those of BackendSwitch

ASSUME FrontswapAssumption ==
  /\ SwapPages \in Nat \ {0} /\ BufPages \in Nat
  /\ None \notin Vals /\ None \notin Areas \X (1..SwapPages - 1)

VARIABLES
  phase,    \* mapped, storing, cached, out, loading or filled
  val,      \* contents of the page's frame
  app,      \* what the application last wrote
  dirty,    \* PageDirty
  entry,    \* swap entry of the page, <<type, offset>>
  device,   \* contents of the swap areas
  fsmap,    \* entries whose bit is set in frontswap_map
  regs,     \* operations on the frontswap_ops list, newest first
  glue,     \* the fastswap module, and with it the newest operations, is loaded
  backend,  \* which backend module is loaded
  buf,      \* its buffer: contents of each page of it
  polls,    \* pages whose fault has yet to call frontswap_poll_load
  since,    \* history: what was last stored, in the present buffer, for each
            \* entry that is still in use
  mishaps,  \* history: what has failed of a transfer, and of an insmod that has
            \* left its connections behind ("handlers")
  crash     \* why the kernel has crashed

pageVars   == <<phase, val, app, dirty, entry, polls>>
moduleVars == <<regs, glue, backend, buf>>
swapVars   == <<device, fsmap, moduleVars, since, mishaps, crash>>

Slots == Areas \X (1..SwapPages - 1)
UsedSlots == {entry[p] : p \in Pages} \ {None}

Init0 ==
  /\ phase = [p \in Pages |-> "mapped"]
  /\ app \in [Pages -> Vals] /\ val = app
  /\ dirty = [p \in Pages |-> TRUE]
  /\ entry = [p \in Pages |-> None]
  /\ device = [s \in Slots |-> None]
  /\ fsmap = {} /\ polls = {} /\ since = <<>>
  /\ regs = 0 /\ glue = FALSE
  /\ backend = "none" /\ buf = <<>>
  /\ mishaps = {} /\ crash = "no"

\* The static key is incremented by every registration and never decremented.
frontswap_enabled == regs > 0

\* Mutant: the byte offset is computed in 32 bits and wraps around.
Address_Wraps(e) == e[2] % (BufPages \div 2)

\* pageid << PAGE_SHIFT, in pages: the swap type is not part of the address.
Address(e) == e[2]

Crash(why) ==
  /\ crash' = why
  /\ UNCHANGED <<pageVars, device, fsmap, moduleVars, since, mishaps>>

\* The RDMA driver cannot begin a transfer (get_req_for_page, ib_post_send). The
\* copies of the DRAM backend never fail.
TransferFails ==
  /\ backend = "rdma" /\ "transfer" \in FaultKinds
  /\ mishaps' = mishaps \cup {"transfer"}

\* ... and the kernel does not survive it.
CrashOnTransfer(why) ==
  /\ TransferFails
  /\ crash' = why
  /\ UNCHANGED <<pageVars, device, fsmap, moduleVars, since>>

\* Updates of the history variable `since`.
Forget(e) == since' = [x \in DOMAIN since \ {e} |-> since[x]]
Remember(e, v) ==
  since' = [x \in DOMAIN since \cup {e} |-> IF x = e THEN v ELSE since[x]]

Goto(p, from, to) == phase[p] = from /\ phase' = [phase EXCEPT ![p] = to]

-----------------------------------------------------------------------------
(* The application, and slots (external: memory.c, swapfile.c).            *)

Touch(p, v) ==
  /\ phase[p] = "mapped"
  /\ app' = [app EXCEPT ![p] = v]
  /\ val' = [val EXCEPT ![p] = v]
  /\ dirty' = [dirty EXCEPT ![p] = TRUE]
  /\ UNCHANGED <<phase, entry, polls, swapVars>>

\* Mutant: the loop over all registered operations that the patch comments
\* out, which also visits those of modules unloaded long ago.
FreeSlot_CallsOps(p) ==
  /\ phase[p] = "mapped" /\ entry[p] # None
  /\ \/ /\ entry[p] \in fsmap /\ regs > (IF glue THEN 1 ELSE 0)
        /\ Crash("dangling")
     \/ /\ ~(entry[p] \in fsmap /\ regs > (IF glue THEN 1 ELSE 0))
        /\ fsmap' = fsmap \ {entry[p]} /\ Forget(entry[p])
        /\ entry' = [entry EXCEPT ![p] = None]
        /\ dirty' = [dirty EXCEPT ![p] = TRUE]
        /\ UNCHANGED <<phase, val, app, polls, device, moduleVars, mishaps, crash>>

\* The slot of a page that is in memory is given up. __frontswap_invalidate_page
\* clears its bit; the backend is not told and keeps the old contents.
FreeSlot(p) ==
  /\ phase[p] = "mapped" /\ entry[p] # None
  /\ fsmap' = fsmap \ {entry[p]} /\ Forget(entry[p])
  /\ entry' = [entry EXCEPT ![p] = None]
  /\ dirty' = [dirty EXCEPT ![p] = TRUE]
  /\ UNCHANGED <<phase, val, app, polls, device, moduleVars, mishaps, crash>>

-----------------------------------------------------------------------------
(* Swapping out.                                                           *)

\* Reclaim unmaps and locks the page; a page without a slot gets a free one in
\* one of the areas in use.
BeginStore(p, areas) ==
  /\ Goto(p, "mapped", "storing")
  /\ \/ entry[p] # None /\ UNCHANGED entry
     \/ /\ entry[p] = None
        /\ \E s \in Slots \ UsedSlots :
             s[1] \in areas /\ entry' = [entry EXCEPT ![p] = s]
  /\ UNCHANGED <<val, app, dirty, polls, swapVars>>

\* The copies of the backend (sswap_rdma_write, sswap_rdma_read_async).
CopyOut(e, v) == buf' = [buf EXCEPT ![Address(e)] = v]
CopyIn(e) == buf[Address(e)]

\* Mutant: a slot that is in frontswap already is not copied again.
sswap_store_OnlyOnce(p) ==
  /\ Address(entry[p]) \in DOMAIN buf
  /\ IF entry[p] \in fsmap THEN UNCHANGED buf ELSE CopyOut(entry[p], val[p])
  /\ fsmap' = fsmap \cup {entry[p]} /\ Remember(entry[p], val[p])
  /\ dirty' = [dirty EXCEPT ![p] = FALSE]
  /\ UNCHANGED <<phase, val, app, entry, polls, device, regs, glue, backend, mishaps,
                 crash>>

\* sswap_store copies the page, and __frontswap_store sets the slot's bit. It
\* never returns a failure: BUG_ON(ret) in sswap_rdma_write comes first.
sswap_store(p) ==
  \/ /\ Address(entry[p]) \in DOMAIN buf
     /\ CopyOut(entry[p], val[p])
     /\ fsmap' = fsmap \cup {entry[p]} /\ Remember(entry[p], val[p])
     /\ dirty' = [dirty EXCEPT ![p] = FALSE]
     /\ UNCHANGED <<phase, val, app, entry, polls, device, regs, glue, backend,
                    mishaps, crash>>
  \/ /\ Address(entry[p]) \notin DOMAIN buf
     /\ Crash("address")
  \/ CrashOnTransfer("BUG_ON")

\* frontswap_store: with frontswap disabled the page goes to the swap device,
\* otherwise to the newest operations on the list, dangling or not. Of a slot
\* that is in frontswap already the bit is cleared first; no operations are told.
Store(p) ==
  /\ phase[p] = "storing" /\ dirty[p]
  /\ \/ /\ ~frontswap_enabled
        /\ device' = [device EXCEPT ![entry[p]] = val[p]]
        /\ dirty' = [dirty EXCEPT ![p] = FALSE]
        /\ UNCHANGED <<phase, val, app, entry, polls, fsmap, moduleVars, since,
                       mishaps, crash>>
     \/ frontswap_enabled /\ glue /\ sswap_store(p)
     \/ frontswap_enabled /\ ~glue /\ Crash("dangling")

\* swap_writepage unlocks the page; a clean page was not written at all.
StoreReturned(p) ==
  /\ ~dirty[p] /\ Goto(p, "storing", "cached")
  /\ UNCHANGED <<val, app, dirty, entry, polls, swapVars>>

Drop(p) ==
  /\ Goto(p, "cached", "out")
  /\ val' = [val EXCEPT ![p] = None]
  /\ UNCHANGED <<app, dirty, entry, polls, swapVars>>

-----------------------------------------------------------------------------
(* Swapping in.                                                            *)

\* A new, locked frame for the page is in the swap cache.
BeginLoad(p) ==
  /\ Goto(p, "out", "loading")
  /\ UNCHANGED <<val, app, dirty, entry, polls, swapVars>>

\* sswap_load and sswap_load_async succeed: they copy the page. The fault of a
\* page in `waiting` will poll for it.
sswap_load(p, waiting) ==
  \/ /\ Address(entry[p]) \in DOMAIN buf
     /\ Goto(p, "loading", "filled")
     /\ val' = [val EXCEPT ![p] = CopyIn(entry[p])]
     /\ polls' = polls \cup waiting
     /\ UNCHANGED <<app, dirty, entry, swapVars>>
  \/ /\ Address(entry[p]) \notin DOMAIN buf
     /\ Crash("address")

\* __frontswap_load or __frontswap_load_async of a slot whose bit is set calls
\* the newest operations, dangling or not, and when they fail the next ones on
\* the list, whose module is gone.
CallLoad(p, waiting) ==
  /\ entry[p] \in fsmap
  /\ \/ glue /\ sswap_load(p, waiting)
     \/ glue /\ regs > 1 /\ CrashOnTransfer("dangling")
     \/ ~glue /\ Crash("dangling")

\* The only operations on the list fail to load the page.
AllLoadsFail(p) == entry[p] \in fsmap /\ glue /\ regs = 1

\* swap_readpage_sync: BUG_ON(frontswap_load(page)). A load also fails when the
\* slot's bit is clear, and so whenever frontswap is disabled.
swap_readpage_sync(p) ==
  /\ phase[p] = "loading"
  /\ \/ CallLoad(p, {p})
     \/ AllLoadsFail(p) /\ CrashOnTransfer("BUG_ON")
     \/ entry[p] \notin fsmap /\ Crash("BUG_ON")

\* swap_readpage: the same load, but a page that is not in frontswap, or that
\* no operations load, is read from the swap device.
swap_readpage(p) ==
  /\ phase[p] = "loading"
  /\ \/ CallLoad(p, {})
     \/ /\ \/ AllLoadsFail(p) /\ TransferFails
           \/ entry[p] \notin fsmap /\ UNCHANGED mishaps
        /\ Goto(p, "loading", "filled")
        /\ val' = [val EXCEPT ![p] = device[entry[p]]]
        /\ UNCHANGED <<app, dirty, entry, polls, device, fsmap, moduleVars, since,
                       crash>>

\* The read is done, in the backend or on the device: SetPageUptodate and
\* unlock_page.
ReadDone(p) ==
  /\ Goto(p, "filled", "cached")
  /\ UNCHANGED <<val, app, dirty, entry, polls, swapVars>>

\* frontswap_poll_load at the end of the fault's swapin_readahead: the first
\* operations on the list are called unseen.
PollLoad(p) ==
  /\ p \in polls
  /\ \/ /\ glue
        /\ polls' = polls \ {p}
        /\ UNCHANGED <<phase, val, app, dirty, entry, swapVars>>
     \/ ~glue /\ Crash("dangling")

MapIn(p) ==
  /\ Goto(p, "cached", "mapped")
  /\ UNCHANGED <<val, app, dirty, entry, polls, swapVars>>

PageStep(p) ==
  \/ \E v \in Vals : Touch(p, v)
  \/ FreeSlot(p) \/ Store(p) \/ StoreReturned(p) \/ Drop(p)
  \/ BeginLoad(p) \/ swap_readpage_sync(p) \/ swap_readpage(p)
  \/ ReadDone(p) \/ PollLoad(p) \/ MapIn(p)
=============================================================================
