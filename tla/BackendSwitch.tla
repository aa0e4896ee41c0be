---------------------------- MODULE BackendSwitch ----------------------------
(***************************************************************************)
(* Switching backends under a running system: the script                   *)
(* code/scripts/backendswitch.sh, with the init and exit functions of the  *)
(* modules it loads and unloads (fastswap.c, fastswap_dram.c; the RDMA     *)
(* backend's own are RdmaConnect's; here they end in one step),            *)
(* interleaved with the swapping that Frontswap models.                    *)
(***************************************************************************)
EXTENDS Frontswap

CONSTANTS
  Targets,     \* backends the administrator switches to: dram, rdma, ssd
  MaxRuns      \* bound on the number of runs of the script

ASSUME SwitchAssumption ==
  /\ Targets \subseteq {"dram", "rdma", "ssd"} /\ MaxRuns \in Nat
  /\ FaultKinds \subseteq {"transfer", "insmod", "vzalloc"}

VARIABLES
  on,       \* swap areas in use
  spc,      \* where the script is
  target,   \* its argument backend
  runs,     \* runs of the script so far
  careful   \* history: the administrator started the script only while no
            \* page was in swap and no fault under way, no page was sent to swap
            \* while it ran or while no backend was loaded, the ssd target was
            \* left to a kernel that never had a backend, and there was memory
            \* for the DRAM backend

scriptVars == <<spc, target, runs>>
vars == <<pageVars, swapVars, on, scriptVars, careful>>

Init ==
  /\ Init0
  /\ on = Areas
  /\ spc = "idle" /\ target = "none" /\ runs = 0
  /\ careful = TRUE

-----------------------------------------------------------------------------
(* The script.                                                             *)

\* After the unloading part: swapoff for ssd, insmod for the other backends.
CaseLabel(t) == IF t = "ssd" THEN "swapoff" ELSE "insbackend"

\* ./backendswitch.sh t: lsmod tells whether there are modules to unload.
Start(t) ==
  /\ spc = "idle" /\ runs < MaxRuns
  /\ target' = t /\ runs' = runs + 1
  /\ spc' = IF backend = "none" THEN CaseLabel(t) ELSE "rmglue"
  /\ careful' = (careful /\ UsedSlots = {} /\ polls = {}
                 /\ (t = "ssd" => ~frontswap_enabled))
  /\ UNCHANGED <<pageVars, swapVars, on>>

\* rmmod fastswap: exit_sswap leaves the operations on frontswap's list.
RmGlue ==
  /\ spc = "rmglue"
  /\ glue' = FALSE
  /\ spc' = "rmbackend"
  /\ UNCHANGED <<pageVars, device, fsmap, regs, backend, buf, since, mishaps, crash,
                 on, target, runs, careful>>

\* rmmod fastswap_dram (vfree) or fastswap_rdma (the server frees its buffer
\* when the first queue disconnects): what the buffer held is gone.
RmBackend ==
  /\ spc = "rmbackend"
  /\ backend' = "none" /\ buf' = <<>> /\ since' = <<>>
  /\ spc' = CaseLabel(target)
  /\ UNCHANGED <<pageVars, device, fsmap, regs, glue, mishaps, crash, on, target,
                 runs, careful>>

\* insmod of fastswap_rdma fails, which does not stop the script. It may have
\* left its connections behind, with a CM handler that is gone, or crash itself
\* (RdmaConnect says when).
InsRdmaFails ==
  /\ target = "rdma" /\ "insmod" \in FaultKinds
  /\ \/ UNCHANGED <<mishaps, crash>>
     \/ mishaps' = mishaps \cup {"handlers"} /\ UNCHANGED crash
     \/ crash' = "insmod" /\ UNCHANGED mishaps
  /\ UNCHANGED <<backend, buf, careful>>

\* insmod of the backend. sswap_dram_init_module does not look at what vzalloc
\* returns.
InsBackend ==
  /\ spc = "insbackend"
  /\ spc' = "insglue"
  /\ \/ /\ backend' = target
        /\ buf' = [a \in 0..BufPages - 1 |-> None]
        /\ UNCHANGED <<careful, mishaps, crash>>
     \/ /\ target = "dram" /\ "vzalloc" \in FaultKinds
        /\ backend' = target /\ careful' = FALSE
        /\ UNCHANGED <<buf, mishaps, crash>>
     \/ InsRdmaFails
  /\ UNCHANGED <<pageVars, device, fsmap, regs, glue, since, on, target, runs>>

\* An event of connections that a failed insmod has left behind calls its CM
\* handler.
StaleHandler ==
  /\ "handlers" \in mishaps
  /\ Crash("handler")
  /\ UNCHANGED <<on, scriptVars, careful>>

\* Mutant: init_sswap registers its operations twice.
InsGlue_Twice ==
  /\ spc = "insglue" /\ backend # "none"
  /\ glue' = TRUE /\ regs' = regs + 2
  /\ spc' = "idle"
  /\ UNCHANGED <<pageVars, device, fsmap, backend, buf, since, mishaps, crash, on,
                 target, runs, careful>>

\* insmod fastswap: init_sswap puts its operations on the list. Without a
\* backend its symbols are unresolved and it is not loaded.
InsGlue ==
  /\ spc = "insglue"
  /\ spc' = "idle"
  /\ \/ backend # "none" /\ glue' = TRUE /\ regs' = regs + 1
     \/ backend = "none" /\ UNCHANGED <<glue, regs>>
  /\ UNCHANGED <<pageVars, device, fsmap, backend, buf, since, mishaps, crash, on,
                 target, runs, careful>>

\* swapoff -a reads every page back (from the device: with a bit set, frontswap
\* is enabled) and calls invalidate_area of all registered operations, whose
\* modules are gone by now.
SwapOff ==
  /\ spc = "swapoff"
  /\ \/ /\ frontswap_enabled
        /\ Crash("dangling")
        /\ UNCHANGED <<on, spc>>
     \/ /\ ~frontswap_enabled
        /\ \A p \in Pages : phase[p] \in {"mapped", "cached", "out"}
        /\ phase' = [p \in Pages |-> "mapped"]
        /\ val' = [p \in Pages |->
                     IF phase[p] = "out" THEN device[entry[p]] ELSE val[p]]
        /\ dirty' = [p \in Pages |-> dirty[p] \/ entry[p] # None]
        /\ entry' = [p \in Pages |-> None]
        /\ on' = {}
        /\ spc' = "swapon"
        /\ UNCHANGED <<app, polls, swapVars>>
  /\ UNCHANGED <<target, runs, careful>>

\* dd, mkswap and swapon of the file given to the script.
SwapOn ==
  /\ spc = "swapon"
  /\ \E a \in Areas : on' = {a}
  /\ spc' = "idle"
  /\ UNCHANGED <<pageVars, swapVars, target, runs, careful>>

ScriptStep ==
  \/ \E t \in Targets : Start(t)
  \/ RmGlue \/ RmBackend \/ InsBackend \/ InsGlue \/ SwapOff \/ SwapOn

-----------------------------------------------------------------------------
\* Memory pressure: reclaim takes a page, whatever the script is doing.
Reclaim(p) ==
  /\ BeginStore(p, on)
  /\ careful' = (careful /\ glue /\ spc = "idle")
  /\ UNCHANGED <<on, scriptVars>>

Next ==
  /\ crash = "no"
  /\ \/ ScriptStep
     \/ StaleHandler
     \/ \E p \in Pages : Reclaim(p)
     \/ \E p \in Pages : PageStep(p) /\ UNCHANGED <<on, scriptVars, careful>>

Spec == Init /\ [][Next]_vars

-----------------------------------------------------------------------------
(* Properties.                                                             *)

\* Every variable keeps its type; each load of the glue module registers once,
\* and the module is loaded only on top of a backend.
TypeOK ==
  /\ phase \in [Pages -> {"mapped", "storing", "cached", "out", "loading", "filled"}]
  /\ val \in [Pages -> Vals \cup {None}] /\ app \in [Pages -> Vals]
  /\ dirty \in [Pages -> BOOLEAN] /\ entry \in [Pages -> Slots \cup {None}]
  /\ device \in [Slots -> Vals \cup {None}]
  /\ fsmap \subseteq Slots /\ DOMAIN since \subseteq fsmap /\ polls \subseteq Pages
  /\ regs \in 0..runs /\ glue \in BOOLEAN /\ (glue => backend # "none")
  /\ backend \in {"none", "dram", "rdma"}
  /\ DOMAIN buf \in {{}, 0..BufPages - 1}
  /\ \A a \in DOMAIN buf : buf[a] \in Vals \cup {None}
  /\ mishaps \subseteq {"transfer", "handlers"}
  /\ crash \in {"no", "dangling", "BUG_ON", "address", "handler", "insmod"}
  /\ on \subseteq Areas /\ target \in Targets \cup {"none"} /\ runs \in 0..MaxRuns
  /\ spc \in {"idle", "rmglue", "rmbackend", "insbackend", "insglue", "swapoff",
              "swapon"}
  /\ careful \in BOOLEAN

\* A careful administrator crashes the kernel in no other way than these: an
\* insmod of the RDMA backend that crashes, or that failed and left its CM handler
\* behind; a transfer that failed, where BUG_ON waits for it or, after a switch,
\* operations of an unloaded module are next on frontswap's list. While nothing
\* of the RDMA backend fails there is no crash, although every switch leaves
\* such operations on the list.
CarefulNoCrash ==
  careful =>
    \/ crash \in {"no", "insmod"}
    \/ crash = "handler" /\ "handlers" \in mishaps
    \/ crash = "BUG_ON" /\ "transfer" \in mishaps
    \/ crash = "dangling" /\ "transfer" \in mishaps /\ regs > 1

\* Whatever was switched, lost or stored elsewhere before: what was stored in
\* the buffer of the present backend is there until its slot is stored again or
\* freed, across slots that were freed and given to other pages.
StoredIsKept == \A e \in DOMAIN since : buf[Address(e)] = since[e]

\* The application reads what it last wrote.
Integrity == \A p \in Pages : phase[p] = "mapped" => val[p] = app[p]

FM == INSTANCE FarMemory
        WITH phase <- [p \in Pages |-> IF phase[p] = "filled" THEN "loading"
                                       ELSE phase[p]],
             frame <- val,
             mem <- [p \in Pages |->
                       IF entry[p] \in fsmap /\ Address(entry[p]) \in DOMAIN buf
                       THEN buf[Address(entry[p])] ELSE None]

\* Under a careful administrator, and as long as no transfer fails, the backend
\* behind frontswap implements FarMemory, with slots that come and go and with
\* any number of switches.
CarefulFarMemory ==
  FM!FMInit
    /\ [][careful' /\ "transfer" \notin mishaps' => FM!FMNext]_(FM!fmVars)
=============================================================================
