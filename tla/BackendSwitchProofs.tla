------------------------- MODULE BackendSwitchProofs -------------------------
(***************************************************************************)
(* Proofs about BackendSwitch, for any number of pages, slots, contents    *)
(* and runs of the script, with failing transfers, insmod and vzalloc.     *)
(*                                                                         *)
(* What a careful administrator gets rests on one fact (CarefulInv): while *)
(* the script runs, and while the glue module is not loaded, no page has a *)
(* slot and no fault is under way. So nobody calls through operations that *)
(* dangle, and no buffer is freed or replaced while it holds a page. A     *)
(* page that is clean has its slot's bit set, and its copy is in the       *)
(* buffer (CopyInv).                                                       *)
(***************************************************************************)
EXTENDS BackendSwitch, TLAPS

\* How the script and the modules keep in step.
ScriptInv ==
  /\ glue => regs > 0
  /\ spc # "idle" => regs < runs /\ target \in Targets
  /\ spc \in {"rmbackend", "insbackend", "insglue", "swapoff"} => ~glue
  /\ spc \in {"insbackend", "swapoff"} => backend = "none"
  /\ spc \in {"insbackend", "insglue"} => target # "ssd"
  /\ spc \in {"swapoff", "swapon"} => target = "ssd"

\* A page outside the application's tables has a slot, and no two share one; a
\* page that left reclaim is clean.
SlotInv ==
  /\ \A p \in Pages : phase[p] # "mapped" => entry[p] \in Slots
  /\ \A p \in Pages : phase[p] \in {"cached", "out", "loading", "filled"} => ~dirty[p]
  /\ \A p, q \in Pages : p # q /\ entry[p] = entry[q] => entry[p] = None

\* What the history variable remembers is about the present buffer.
SinceInv ==
  /\ backend = "none" => DOMAIN since = {}
  /\ \A e \in DOMAIN since : Address(e) \in DOMAIN buf

SwitchInv == TypeOK /\ ScriptInv /\ SlotInv /\ SinceInv

\* What a careful administrator gets.
QuietInv == spc # "idle" \/ ~glue => polls = {} /\ \A p \in Pages : entry[p] = None
BufferInv == backend # "none" => DOMAIN buf = 0..BufPages - 1
CleanInv == \A p \in Pages : ~dirty[p] => entry[p] \in fsmap
FreshInv == spc # "idle" /\ target = "ssd" => regs = 0

\* The crashes that CarefulNoCrash allows.
Excused ==
  \/ crash \in {"no", "insmod"}
  \/ crash = "handler" /\ "handlers" \in mishaps
  \/ crash = "BUG_ON" /\ "transfer" \in mishaps
  \/ crash = "dangling" /\ "transfer" \in mishaps /\ regs > 1

CarefulInv == careful => Excused /\ QuietInv /\ BufferInv /\ CleanInv /\ FreshInv

\* ... and where the copies of his pages are, as long as no transfer fails.
UsedInv == \A e \in fsmap : \E p \in Pages : entry[p] = e
DataInv ==
  \A p \in Pages :
    ~dirty[p] /\ phase[p] \in {"mapped", "storing", "cached", "filled"}
      => val[p] = buf[Address(entry[p])]

CopyInv == careful /\ "transfer" \notin mishaps => UsedInv /\ DataInv

\* One swap area: then a slot's offset says which slot it is.
OneArea == \A a, b \in Areas : a = b

\* The buffer is as large as the swap area (32 GB both in the repository).
BufferFits == SwapPages <= BufPages

-----------------------------------------------------------------------------
\* What a step of the swap path leaves to the script.
ScriptSame == UNCHANGED <<on, scriptVars, careful>>

\* The type invariant in three parts.
PageTypes ==
  /\ phase \in [Pages -> {"mapped", "storing", "cached", "out", "loading", "filled"}]
  /\ val \in [Pages -> Vals \cup {None}] /\ app \in [Pages -> Vals]
  /\ dirty \in [Pages -> BOOLEAN] /\ entry \in [Pages -> Slots \cup {None}]
  /\ polls \subseteq Pages
SwapTypes ==
  /\ device \in [Slots -> Vals \cup {None}]
  /\ fsmap \subseteq Slots /\ DOMAIN since \subseteq fsmap
  /\ DOMAIN buf \in {{}, 0..BufPages - 1}
  /\ \A a \in DOMAIN buf : buf[a] \in Vals \cup {None}
ScriptTypes ==
  /\ regs \in 0..runs /\ glue \in BOOLEAN /\ (glue => backend # "none")
  /\ backend \in {"none", "dram", "rdma"}
  /\ mishaps \subseteq {"transfer", "handlers"}
  /\ crash \in {"no", "dangling", "BUG_ON", "address", "handler", "insmod"}
  /\ on \subseteq Areas /\ target \in Targets \cup {"none"} /\ runs \in 0..MaxRuns
  /\ spc \in {"idle", "rmglue", "rmbackend", "insbackend", "insglue", "swapoff",
              "swapon"}
  /\ careful \in BOOLEAN

\* The parts of the type invariant make it up, before and after a step.
LEMMA TypeParts ==
  /\ TypeOK <=> PageTypes /\ SwapTypes /\ ScriptTypes
  /\ TypeOK' <=> PageTypes' /\ SwapTypes' /\ ScriptTypes'
  BY DEF TypeOK, PageTypes, SwapTypes, ScriptTypes

\* Frames, slots and flags keep their types.
LEMMA PageTypeStep ==
  ASSUME SwitchInv, [Next]_vars PROVE PageTypes'
<1> USE FrontswapAssumption, SwitchAssumption
<1> USE DEF vars, pageVars, moduleVars, swapVars, scriptVars, ScriptSame
<1>0. PageTypes /\ SwapTypes /\ ScriptTypes /\ ScriptInv /\ SlotInv /\ SinceInv
  BY TypeParts DEF SwitchInv
<1>1. ASSUME NEW t \in Targets, Start(t) PROVE PageTypes'
  BY <1>0, <1>1 DEF Start, CaseLabel, PageTypes
<1>2. ASSUME RmGlue PROVE PageTypes'
  BY <1>0, <1>2 DEF RmGlue, PageTypes
<1>3. ASSUME RmBackend PROVE PageTypes'
  BY <1>0, <1>3 DEF RmBackend, CaseLabel, PageTypes
<1>4. ASSUME InsBackend PROVE PageTypes'
  BY <1>0, <1>4 DEF InsBackend, InsRdmaFails, PageTypes
<1>5. ASSUME InsGlue PROVE PageTypes'
  BY <1>0, <1>5 DEF InsGlue, PageTypes
<1>6. ASSUME SwapOff PROVE PageTypes'
  <2>1. CASE Crash("dangling")
    BY <1>0, <2>1 DEF Crash, PageTypes
  <2>2. CASE ~Crash("dangling")
    <3>1. phase' \in [Pages -> {"mapped", "storing", "cached", "out", "loading", "filled"}]
      BY <1>6, <2>2 DEF SwapOff
    <3>2. val' \in [Pages -> Vals \cup {None}]
      BY <1>0, <1>6, <2>2 DEF SwapOff, PageTypes, SwapTypes, SlotInv
    <3>3. dirty' \in [Pages -> BOOLEAN]
      BY <1>0, <1>6, <2>2 DEF SwapOff, PageTypes
    <3>4. entry' \in [Pages -> Slots \cup {None}]
      BY <1>6, <2>2 DEF SwapOff
    <3> QED
      BY <1>0, <1>6, <2>2, <3>1, <3>2, <3>3, <3>4 DEF SwapOff, PageTypes
  <2> QED
    BY <2>1, <2>2
<1>7. ASSUME SwapOn PROVE PageTypes'
  BY <1>0, <1>7 DEF SwapOn, PageTypes
<1>8. ASSUME NEW p \in Pages, Reclaim(p) PROVE PageTypes'
  BY <1>0, <1>8 DEF Reclaim, BeginStore, Goto, Slots, PageTypes
<1>9. ASSUME NEW p \in Pages, NEW v \in Vals, Touch(p, v), ScriptSame PROVE PageTypes'
  BY <1>0, <1>9 DEF Touch, PageTypes
<1>10. ASSUME NEW p \in Pages, FreeSlot(p), ScriptSame PROVE PageTypes'
  BY <1>0, <1>10 DEF FreeSlot, Forget, PageTypes
<1>11. ASSUME NEW p \in Pages, Store(p), ScriptSame PROVE PageTypes'
  BY <1>0, <1>11 DEF Store, sswap_store, CrashOnTransfer, TransferFails, CrashOnTransfer,
       TransferFails, CopyOut, Remember, Crash, PageTypes
<1>12. ASSUME NEW p \in Pages, StoreReturned(p), ScriptSame PROVE PageTypes'
  BY <1>0, <1>12 DEF StoreReturned, Goto, PageTypes
<1>13. ASSUME NEW p \in Pages, Drop(p), ScriptSame PROVE PageTypes'
  BY <1>0, <1>13 DEF Drop, Goto, PageTypes
<1>14. ASSUME NEW p \in Pages, BeginLoad(p), ScriptSame PROVE PageTypes'
  BY <1>0, <1>14 DEF BeginLoad, Goto, PageTypes
<1>15. ASSUME NEW p \in Pages, swap_readpage_sync(p) \/ swap_readpage(p), ScriptSame
       PROVE  PageTypes'
  BY <1>0, <1>15 DEF swap_readpage_sync, swap_readpage, CallLoad, sswap_load, AllLoadsFail,
       CrashOnTransfer, TransferFails, CopyIn, Goto, Crash, SwapTypes, SlotInv, PageTypes
<1>16. ASSUME NEW p \in Pages, ReadDone(p), ScriptSame PROVE PageTypes'
  BY <1>0, <1>16 DEF ReadDone, Goto, PageTypes
<1>17. ASSUME NEW p \in Pages, PollLoad(p), ScriptSame PROVE PageTypes'
  BY <1>0, <1>17 DEF PollLoad, Crash, PageTypes
<1>18. ASSUME NEW p \in Pages, MapIn(p), ScriptSame PROVE PageTypes'
  BY <1>0, <1>18 DEF MapIn, Goto, PageTypes
<1>19. CASE UNCHANGED vars
  BY <1>0, <1>19 DEF PageTypes
<1>20. ASSUME StaleHandler PROVE PageTypes'
  BY <1>0, <1>20 DEF StaleHandler, Crash, PageTypes
<1> QED
  BY <1>1, <1>2, <1>3, <1>4, <1>5, <1>6, <1>7, <1>8, <1>9, <1>10, <1>11, <1>12,
       <1>13, <1>14, <1>15, <1>16, <1>17, <1>18, <1>19, <1>20 DEF Next, ScriptStep,
       PageStep

\* The bits, the buffer and its history keep their types.
LEMMA SwapTypeStep ==
  ASSUME SwitchInv, [Next]_vars PROVE SwapTypes'
<1> USE FrontswapAssumption, SwitchAssumption
<1> USE DEF vars, pageVars, moduleVars, swapVars, scriptVars, ScriptSame
<1>0. PageTypes /\ SwapTypes /\ ScriptTypes /\ ScriptInv /\ SlotInv /\ SinceInv
  BY TypeParts DEF SwitchInv
<1>1. ASSUME NEW t \in Targets, Start(t) PROVE SwapTypes'
  BY <1>0, <1>1 DEF Start, CaseLabel, SwapTypes
<1>2. ASSUME RmGlue PROVE SwapTypes'
  BY <1>0, <1>2 DEF RmGlue, SwapTypes
<1>3. ASSUME RmBackend PROVE SwapTypes'
  BY <1>0, <1>3 DEF RmBackend, CaseLabel, SwapTypes
<1>4. ASSUME InsBackend PROVE SwapTypes'
  BY <1>0, <1>4 DEF InsBackend, InsRdmaFails, SwapTypes
<1>5. ASSUME InsGlue PROVE SwapTypes'
  BY <1>0, <1>5 DEF InsGlue, SwapTypes
<1>6. ASSUME SwapOff PROVE SwapTypes'
  BY <1>0, <1>6 DEF SwapOff, Crash, SwapTypes
<1>7. ASSUME SwapOn PROVE SwapTypes'
  BY <1>0, <1>7 DEF SwapOn, SwapTypes
<1>8. ASSUME NEW p \in Pages, Reclaim(p) PROVE SwapTypes'
  BY <1>0, <1>8 DEF Reclaim, BeginStore, Goto, SwapTypes
<1>9. ASSUME NEW p \in Pages, NEW v \in Vals, Touch(p, v), ScriptSame PROVE SwapTypes'
  BY <1>0, <1>9 DEF Touch, SwapTypes
<1>10. ASSUME NEW p \in Pages, FreeSlot(p), ScriptSame PROVE SwapTypes'
  BY <1>0, <1>10 DEF FreeSlot, Forget, SwapTypes
<1>11. ASSUME NEW p \in Pages, Store(p), ScriptSame PROVE SwapTypes'
  BY <1>0, <1>11 DEF Store, sswap_store, CrashOnTransfer, TransferFails, CrashOnTransfer,
       TransferFails, CopyOut, Remember, Crash, PageTypes,
       SlotInv, SwapTypes
<1>12. ASSUME NEW p \in Pages, StoreReturned(p), ScriptSame PROVE SwapTypes'
  BY <1>0, <1>12 DEF StoreReturned, Goto, SwapTypes
<1>13. ASSUME NEW p \in Pages, Drop(p), ScriptSame PROVE SwapTypes'
  BY <1>0, <1>13 DEF Drop, Goto, SwapTypes
<1>14. ASSUME NEW p \in Pages, BeginLoad(p), ScriptSame PROVE SwapTypes'
  BY <1>0, <1>14 DEF BeginLoad, Goto, SwapTypes
<1>15. ASSUME NEW p \in Pages, swap_readpage_sync(p) \/ swap_readpage(p), ScriptSame
       PROVE  SwapTypes'
  BY <1>0, <1>15 DEF swap_readpage_sync, swap_readpage, CallLoad, sswap_load, AllLoadsFail,
       CrashOnTransfer, TransferFails, CopyIn, Goto, Crash, SwapTypes
<1>16. ASSUME NEW p \in Pages, ReadDone(p), ScriptSame PROVE SwapTypes'
  BY <1>0, <1>16 DEF ReadDone, Goto, SwapTypes
<1>17. ASSUME NEW p \in Pages, PollLoad(p), ScriptSame PROVE SwapTypes'
  BY <1>0, <1>17 DEF PollLoad, Crash, SwapTypes
<1>18. ASSUME NEW p \in Pages, MapIn(p), ScriptSame PROVE SwapTypes'
  BY <1>0, <1>18 DEF MapIn, Goto, SwapTypes
<1>19. CASE UNCHANGED vars
  BY <1>0, <1>19 DEF SwapTypes
<1>20. ASSUME StaleHandler PROVE SwapTypes'
  BY <1>0, <1>20 DEF StaleHandler, Crash, SwapTypes
<1> QED
  BY <1>1, <1>2, <1>3, <1>4, <1>5, <1>6, <1>7, <1>8, <1>9, <1>10, <1>11, <1>12,
       <1>13, <1>14, <1>15, <1>16, <1>17, <1>18, <1>19, <1>20 DEF Next, ScriptStep,
       PageStep

\* The modules and the script keep their types.
LEMMA ScriptTypeStep ==
  ASSUME SwitchInv, [Next]_vars PROVE ScriptTypes'
<1> USE FrontswapAssumption, SwitchAssumption
<1> USE DEF vars, pageVars, moduleVars, swapVars, scriptVars, ScriptSame
<1>0. PageTypes /\ SwapTypes /\ ScriptTypes /\ ScriptInv /\ SlotInv /\ SinceInv
  BY TypeParts DEF SwitchInv
<1>1. ASSUME NEW t \in Targets, Start(t) PROVE ScriptTypes'
  BY <1>0, <1>1 DEF Start, CaseLabel, ScriptTypes, ScriptInv
<1>2. ASSUME RmGlue PROVE ScriptTypes'
  BY <1>0, <1>2 DEF RmGlue, ScriptTypes, ScriptInv
<1>3. ASSUME RmBackend PROVE ScriptTypes'
  BY <1>0, <1>3 DEF RmBackend, CaseLabel, ScriptTypes, ScriptInv
<1>4. ASSUME InsBackend PROVE ScriptTypes'
  BY <1>0, <1>4 DEF InsBackend, InsRdmaFails, ScriptTypes, ScriptInv
<1>5. ASSUME InsGlue PROVE ScriptTypes'
  <2>1. regs' \in 0..runs
    BY <1>0, <1>5 DEF InsGlue, ScriptTypes, ScriptInv
  <2>2. glue' \in BOOLEAN /\ (glue' => backend' # "none")
    <3>1. UNCHANGED backend
      BY <1>5 DEF InsGlue
    <3>2. CASE backend # "none" /\ glue' = TRUE
      BY <3>1, <3>2
    <3>3. CASE UNCHANGED glue
      BY <1>0, <3>1, <3>3 DEF ScriptTypes
    <3> QED
      BY <1>5, <3>2, <3>3 DEF InsGlue
  <2> QED
    BY <1>0, <1>5, <2>1, <2>2 DEF InsGlue, ScriptTypes
<1>6. ASSUME SwapOff PROVE ScriptTypes'
  BY <1>0, <1>6 DEF SwapOff, Crash, ScriptTypes, ScriptInv
<1>7. ASSUME SwapOn PROVE ScriptTypes'
  BY <1>0, <1>7 DEF SwapOn, ScriptTypes, ScriptInv
<1>8. ASSUME NEW p \in Pages, Reclaim(p) PROVE ScriptTypes'
  BY <1>0, <1>8 DEF Reclaim, BeginStore, Goto, ScriptTypes, ScriptInv
<1>9. ASSUME NEW p \in Pages, NEW v \in Vals, Touch(p, v), ScriptSame PROVE ScriptTypes'
  BY <1>0, <1>9 DEF Touch, ScriptTypes, ScriptInv
<1>10. ASSUME NEW p \in Pages, FreeSlot(p), ScriptSame PROVE ScriptTypes'
  BY <1>0, <1>10 DEF FreeSlot, Forget, ScriptTypes, ScriptInv
<1>11. ASSUME NEW p \in Pages, Store(p), ScriptSame PROVE ScriptTypes'
  BY <1>0, <1>11 DEF Store, sswap_store, CrashOnTransfer, TransferFails, CrashOnTransfer,
       TransferFails, CopyOut, Remember, Crash, ScriptTypes,
       ScriptInv
<1>12. ASSUME NEW p \in Pages, StoreReturned(p), ScriptSame PROVE ScriptTypes'
  BY <1>0, <1>12 DEF StoreReturned, Goto, ScriptTypes, ScriptInv
<1>13. ASSUME NEW p \in Pages, Drop(p), ScriptSame PROVE ScriptTypes'
  BY <1>0, <1>13 DEF Drop, Goto, ScriptTypes, ScriptInv
<1>14. ASSUME NEW p \in Pages, BeginLoad(p), ScriptSame PROVE ScriptTypes'
  BY <1>0, <1>14 DEF BeginLoad, Goto, ScriptTypes, ScriptInv
<1>15. ASSUME NEW p \in Pages, swap_readpage_sync(p) \/ swap_readpage(p), ScriptSame
       PROVE  ScriptTypes'
  <2>1. mishaps' \subseteq mishaps \cup {"transfer"} /\ UNCHANGED <<regs, glue, backend>>
    BY <1>15 DEF swap_readpage_sync, swap_readpage, CallLoad, sswap_load, Crash,
         CrashOnTransfer, TransferFails
  <2>2. crash' \in {crash, "dangling", "BUG_ON", "address"}
    BY <1>15 DEF swap_readpage_sync, swap_readpage, CallLoad, sswap_load, Crash,
         CrashOnTransfer
  <2> QED
    BY <1>0, <1>15, <2>1, <2>2 DEF ScriptTypes
<1>16. ASSUME NEW p \in Pages, ReadDone(p), ScriptSame PROVE ScriptTypes'
  BY <1>0, <1>16 DEF ReadDone, Goto, ScriptTypes, ScriptInv
<1>17. ASSUME NEW p \in Pages, PollLoad(p), ScriptSame PROVE ScriptTypes'
  <2>1. UNCHANGED <<mishaps, regs, glue, backend>> /\ crash' \in {crash, "dangling"}
    BY <1>17 DEF PollLoad, Crash
  <2> QED
    BY <1>0, <1>17, <2>1 DEF ScriptTypes
<1>18. ASSUME NEW p \in Pages, MapIn(p), ScriptSame PROVE ScriptTypes'
  BY <1>0, <1>18 DEF MapIn, Goto, ScriptTypes, ScriptInv
<1>19. CASE UNCHANGED vars
  BY <1>0, <1>19 DEF ScriptTypes, ScriptInv
<1>20. ASSUME StaleHandler PROVE ScriptTypes'
  BY <1>0, <1>20 DEF StaleHandler, Crash, ScriptTypes, ScriptInv
<1> QED
  BY <1>1, <1>2, <1>3, <1>4, <1>5, <1>6, <1>7, <1>8, <1>9, <1>10, <1>11, <1>12,
       <1>13, <1>14, <1>15, <1>16, <1>17, <1>18, <1>19, <1>20 DEF Next, ScriptStep,
       PageStep

\* The script registers once per run and unloads before it loads.
LEMMA ScriptStepInv ==
  ASSUME SwitchInv, [Next]_vars PROVE ScriptInv'
<1> USE FrontswapAssumption, SwitchAssumption
<1> USE DEF vars, pageVars, moduleVars, swapVars, scriptVars, ScriptSame
<1>0. PageTypes /\ SwapTypes /\ ScriptTypes /\ ScriptInv /\ SlotInv /\ SinceInv
  BY TypeParts DEF SwitchInv
<1>1. ASSUME NEW t \in Targets, Start(t) PROVE ScriptInv'
  BY <1>0, <1>1 DEF Start, CaseLabel, ScriptTypes, ScriptInv
<1>2. ASSUME RmGlue PROVE ScriptInv'
  BY <1>0, <1>2 DEF RmGlue, ScriptTypes, ScriptInv
<1>3. ASSUME RmBackend PROVE ScriptInv'
  BY <1>0, <1>3 DEF RmBackend, CaseLabel, ScriptTypes, ScriptInv
<1>4. ASSUME InsBackend PROVE ScriptInv'
  BY <1>0, <1>4 DEF InsBackend, InsRdmaFails, ScriptTypes, ScriptInv
<1>5. ASSUME InsGlue PROVE ScriptInv'
  BY <1>0, <1>5 DEF InsGlue, ScriptTypes, ScriptInv
<1>6. ASSUME SwapOff PROVE ScriptInv'
  BY <1>0, <1>6 DEF SwapOff, Crash, ScriptTypes, ScriptInv
<1>7. ASSUME SwapOn PROVE ScriptInv'
  BY <1>0, <1>7 DEF SwapOn, ScriptTypes, ScriptInv
<1>8. ASSUME NEW p \in Pages, Reclaim(p) PROVE ScriptInv'
  BY <1>0, <1>8 DEF Reclaim, BeginStore, Goto, ScriptTypes, ScriptInv
<1>9. ASSUME NEW p \in Pages, NEW v \in Vals, Touch(p, v), ScriptSame PROVE ScriptInv'
  BY <1>0, <1>9 DEF Touch, ScriptTypes, ScriptInv
<1>10. ASSUME NEW p \in Pages, FreeSlot(p), ScriptSame PROVE ScriptInv'
  BY <1>0, <1>10 DEF FreeSlot, Forget, ScriptTypes, ScriptInv
<1>11. ASSUME NEW p \in Pages, Store(p), ScriptSame PROVE ScriptInv'
  BY <1>0, <1>11 DEF Store, sswap_store, CrashOnTransfer, TransferFails, CrashOnTransfer,
       TransferFails, CopyOut, Remember, Crash, ScriptTypes,
       ScriptInv
<1>12. ASSUME NEW p \in Pages, StoreReturned(p), ScriptSame PROVE ScriptInv'
  BY <1>0, <1>12 DEF StoreReturned, Goto, ScriptTypes, ScriptInv
<1>13. ASSUME NEW p \in Pages, Drop(p), ScriptSame PROVE ScriptInv'
  BY <1>0, <1>13 DEF Drop, Goto, ScriptTypes, ScriptInv
<1>14. ASSUME NEW p \in Pages, BeginLoad(p), ScriptSame PROVE ScriptInv'
  BY <1>0, <1>14 DEF BeginLoad, Goto, ScriptTypes, ScriptInv
<1>15. ASSUME NEW p \in Pages, swap_readpage_sync(p) \/ swap_readpage(p), ScriptSame
       PROVE  ScriptInv'
  BY <1>0, <1>15 DEF swap_readpage_sync, swap_readpage, CallLoad, sswap_load, AllLoadsFail,
       CrashOnTransfer, TransferFails, CopyIn, Goto, Crash, ScriptTypes, ScriptInv
<1>16. ASSUME NEW p \in Pages, ReadDone(p), ScriptSame PROVE ScriptInv'
  BY <1>0, <1>16 DEF ReadDone, Goto, ScriptTypes, ScriptInv
<1>17. ASSUME NEW p \in Pages, PollLoad(p), ScriptSame PROVE ScriptInv'
  BY <1>0, <1>17 DEF PollLoad, Crash, ScriptTypes, ScriptInv
<1>18. ASSUME NEW p \in Pages, MapIn(p), ScriptSame PROVE ScriptInv'
  BY <1>0, <1>18 DEF MapIn, Goto, ScriptTypes, ScriptInv
<1>19. CASE UNCHANGED vars
  BY <1>0, <1>19 DEF ScriptTypes, ScriptInv
<1>20. ASSUME StaleHandler PROVE ScriptInv'
  BY <1>0, <1>20 DEF StaleHandler, Crash, ScriptTypes, ScriptInv
<1> QED
  BY <1>1, <1>2, <1>3, <1>4, <1>5, <1>6, <1>7, <1>8, <1>9, <1>10, <1>11, <1>12,
       <1>13, <1>14, <1>15, <1>16, <1>17, <1>18, <1>19, <1>20 DEF Next, ScriptStep,
       PageStep

\* A slot has one page.
LEMMA SlotStep ==
  ASSUME SwitchInv, [Next]_vars PROVE SlotInv'
<1> USE FrontswapAssumption, SwitchAssumption
<1> USE DEF vars, pageVars, moduleVars, swapVars, scriptVars, ScriptSame
<1>0. PageTypes /\ SwapTypes /\ ScriptTypes /\ ScriptInv /\ SlotInv /\ SinceInv
  BY TypeParts DEF SwitchInv
<1>1. ASSUME NEW t \in Targets, Start(t) PROVE SlotInv'
  BY <1>0, <1>1 DEF Start, CaseLabel, PageTypes, SlotInv
<1>2. ASSUME RmGlue PROVE SlotInv'
  BY <1>0, <1>2 DEF RmGlue, PageTypes, SlotInv
<1>3. ASSUME RmBackend PROVE SlotInv'
  BY <1>0, <1>3 DEF RmBackend, CaseLabel, PageTypes, SlotInv
<1>4. ASSUME InsBackend PROVE SlotInv'
  BY <1>0, <1>4 DEF InsBackend, InsRdmaFails, PageTypes, SlotInv
<1>5. ASSUME InsGlue PROVE SlotInv'
  BY <1>0, <1>5 DEF InsGlue, PageTypes, SlotInv
<1>6. ASSUME SwapOff PROVE SlotInv'
  BY <1>0, <1>6 DEF SwapOff, Crash, PageTypes, SlotInv
<1>7. ASSUME SwapOn PROVE SlotInv'
  BY <1>0, <1>7 DEF SwapOn, PageTypes, SlotInv
<1>8. ASSUME NEW p \in Pages, Reclaim(p) PROVE SlotInv'
  BY <1>0, <1>8 DEF Reclaim, BeginStore, Goto, UsedSlots, PageTypes, SlotInv
<1>9. ASSUME NEW p \in Pages, NEW v \in Vals, Touch(p, v), ScriptSame PROVE SlotInv'
  BY <1>0, <1>9 DEF Touch, PageTypes, SlotInv
<1>10. ASSUME NEW p \in Pages, FreeSlot(p), ScriptSame PROVE SlotInv'
  BY <1>0, <1>10 DEF FreeSlot, Forget, PageTypes, SlotInv
<1>11. ASSUME NEW p \in Pages, Store(p), ScriptSame PROVE SlotInv'
  BY <1>0, <1>11 DEF Store, sswap_store, CrashOnTransfer, TransferFails, CrashOnTransfer,
       TransferFails, CopyOut, Remember, Crash, PageTypes,
       SlotInv
<1>12. ASSUME NEW p \in Pages, StoreReturned(p), ScriptSame PROVE SlotInv'
  BY <1>0, <1>12 DEF StoreReturned, Goto, PageTypes, SlotInv
<1>13. ASSUME NEW p \in Pages, Drop(p), ScriptSame PROVE SlotInv'
  BY <1>0, <1>13 DEF Drop, Goto, PageTypes, SlotInv
<1>14. ASSUME NEW p \in Pages, BeginLoad(p), ScriptSame PROVE SlotInv'
  BY <1>0, <1>14 DEF BeginLoad, Goto, PageTypes, SlotInv
<1>15. ASSUME NEW p \in Pages, swap_readpage_sync(p) \/ swap_readpage(p), ScriptSame
       PROVE  SlotInv'
  BY <1>0, <1>15 DEF swap_readpage_sync, swap_readpage, CallLoad, sswap_load, AllLoadsFail,
       CrashOnTransfer, TransferFails, CopyIn, Goto, Crash, PageTypes, SlotInv
<1>16. ASSUME NEW p \in Pages, ReadDone(p), ScriptSame PROVE SlotInv'
  BY <1>0, <1>16 DEF ReadDone, Goto, PageTypes, SlotInv
<1>17. ASSUME NEW p \in Pages, PollLoad(p), ScriptSame PROVE SlotInv'
  BY <1>0, <1>17 DEF PollLoad, Crash, PageTypes, SlotInv
<1>18. ASSUME NEW p \in Pages, MapIn(p), ScriptSame PROVE SlotInv'
  BY <1>0, <1>18 DEF MapIn, Goto, PageTypes, SlotInv
<1>19. CASE UNCHANGED vars
  BY <1>0, <1>19 DEF PageTypes, SlotInv
<1>20. ASSUME StaleHandler PROVE SlotInv'
  BY <1>0, <1>20 DEF StaleHandler, Crash, PageTypes, SlotInv
<1> QED
  BY <1>1, <1>2, <1>3, <1>4, <1>5, <1>6, <1>7, <1>8, <1>9, <1>10, <1>11, <1>12,
       <1>13, <1>14, <1>15, <1>16, <1>17, <1>18, <1>19, <1>20 DEF Next, ScriptStep,
       PageStep

\* The history is forgotten with the buffer.
LEMMA SinceStep ==
  ASSUME SwitchInv, [Next]_vars PROVE SinceInv'
<1> USE FrontswapAssumption, SwitchAssumption
<1> USE DEF vars, pageVars, moduleVars, swapVars, scriptVars, ScriptSame
<1>0. PageTypes /\ SwapTypes /\ ScriptTypes /\ ScriptInv /\ SlotInv /\ SinceInv
  BY TypeParts DEF SwitchInv
<1>1. ASSUME NEW t \in Targets, Start(t) PROVE SinceInv'
  BY <1>0, <1>1 DEF Start, CaseLabel, SwapTypes, ScriptTypes, SinceInv
<1>2. ASSUME RmGlue PROVE SinceInv'
  BY <1>0, <1>2 DEF RmGlue, SwapTypes, ScriptTypes, SinceInv
<1>3. ASSUME RmBackend PROVE SinceInv'
  BY <1>0, <1>3 DEF RmBackend, CaseLabel, SwapTypes, ScriptTypes, SinceInv
<1>4. ASSUME InsBackend PROVE SinceInv'
  BY <1>0, <1>4 DEF InsBackend, InsRdmaFails, ScriptInv, SwapTypes, ScriptTypes, SinceInv
<1>5. ASSUME InsGlue PROVE SinceInv'
  BY <1>0, <1>5 DEF InsGlue, SwapTypes, ScriptTypes, SinceInv
<1>6. ASSUME SwapOff PROVE SinceInv'
  BY <1>0, <1>6 DEF SwapOff, Crash, SwapTypes, ScriptTypes, SinceInv
<1>7. ASSUME SwapOn PROVE SinceInv'
  BY <1>0, <1>7 DEF SwapOn, SwapTypes, ScriptTypes, SinceInv
<1>8. ASSUME NEW p \in Pages, Reclaim(p) PROVE SinceInv'
  BY <1>0, <1>8 DEF Reclaim, BeginStore, Goto, SwapTypes, ScriptTypes, SinceInv
<1>9. ASSUME NEW p \in Pages, NEW v \in Vals, Touch(p, v), ScriptSame PROVE SinceInv'
  BY <1>0, <1>9 DEF Touch, SwapTypes, ScriptTypes, SinceInv
<1>10. ASSUME NEW p \in Pages, FreeSlot(p), ScriptSame PROVE SinceInv'
  BY <1>0, <1>10 DEF FreeSlot, Forget, SwapTypes, ScriptTypes, SinceInv
<1>11. ASSUME NEW p \in Pages, Store(p), ScriptSame PROVE SinceInv'
  BY <1>0, <1>11 DEF Store, sswap_store, CrashOnTransfer, TransferFails, CrashOnTransfer,
       TransferFails, CopyOut, Remember, Crash, SwapTypes,
       ScriptTypes, SinceInv
<1>12. ASSUME NEW p \in Pages, StoreReturned(p), ScriptSame PROVE SinceInv'
  BY <1>0, <1>12 DEF StoreReturned, Goto, SwapTypes, ScriptTypes, SinceInv
<1>13. ASSUME NEW p \in Pages, Drop(p), ScriptSame PROVE SinceInv'
  BY <1>0, <1>13 DEF Drop, Goto, SwapTypes, ScriptTypes, SinceInv
<1>14. ASSUME NEW p \in Pages, BeginLoad(p), ScriptSame PROVE SinceInv'
  BY <1>0, <1>14 DEF BeginLoad, Goto, SwapTypes, ScriptTypes, SinceInv
<1>15. ASSUME NEW p \in Pages, swap_readpage_sync(p) \/ swap_readpage(p), ScriptSame
       PROVE  SinceInv'
  BY <1>0, <1>15 DEF swap_readpage_sync, swap_readpage, CallLoad, sswap_load, AllLoadsFail,
       CrashOnTransfer, TransferFails, CopyIn, Goto, Crash, SwapTypes, ScriptTypes, SinceInv
<1>16. ASSUME NEW p \in Pages, ReadDone(p), ScriptSame PROVE SinceInv'
  BY <1>0, <1>16 DEF ReadDone, Goto, SwapTypes, ScriptTypes, SinceInv
<1>17. ASSUME NEW p \in Pages, PollLoad(p), ScriptSame PROVE SinceInv'
  BY <1>0, <1>17 DEF PollLoad, Crash, SwapTypes, ScriptTypes, SinceInv
<1>18. ASSUME NEW p \in Pages, MapIn(p), ScriptSame PROVE SinceInv'
  BY <1>0, <1>18 DEF MapIn, Goto, SwapTypes, ScriptTypes, SinceInv
<1>19. CASE UNCHANGED vars
  BY <1>0, <1>19 DEF SwapTypes, ScriptTypes, SinceInv
<1>20. ASSUME StaleHandler PROVE SinceInv'
  BY <1>0, <1>20 DEF StaleHandler, Crash, SwapTypes, ScriptTypes, SinceInv
<1> QED
  BY <1>1, <1>2, <1>3, <1>4, <1>5, <1>6, <1>7, <1>8, <1>9, <1>10, <1>11, <1>12,
       <1>13, <1>14, <1>15, <1>16, <1>17, <1>18, <1>19, <1>20 DEF Next, ScriptStep,
       PageStep

\* Every invariant of this module holds when nothing has been swapped yet.
LEMMA InitSwitch == Init => SwitchInv /\ CarefulInv /\ CopyInv /\ StoredIsKept
<1> SUFFICES ASSUME Init PROVE SwitchInv /\ CarefulInv /\ CopyInv /\ StoredIsKept
  OBVIOUS
<1> USE FrontswapAssumption, SwitchAssumption DEF Init, Init0
<1>1. DOMAIN since = {} /\ DOMAIN buf = {}
  OBVIOUS
<1>2. PageTypes /\ SwapTypes /\ ScriptTypes
  <2>1. PageTypes
    BY DEF PageTypes
  <2>2. SwapTypes
    BY <1>1 DEF SwapTypes
  <2>3. regs \in 0..runs /\ runs \in 0..MaxRuns
    OBVIOUS
  <2>4. ScriptTypes
    BY <2>3, Zenon DEF ScriptTypes
  <2> QED
    BY <2>1, <2>2, <2>4
<1>3. ScriptInv /\ SlotInv /\ SinceInv
  BY <1>1 DEF ScriptInv, SlotInv, SinceInv
<1>4. CarefulInv /\ CopyInv
  BY DEF CarefulInv, Excused, QuietInv, BufferInv, CleanInv, FreshInv, CopyInv,
       UsedInv, DataInv
<1>5. StoredIsKept
  BY <1>1 DEF StoredIsKept
<1> QED
  BY <1>2, <1>3, <1>4, <1>5, TypeParts DEF SwitchInv

\* How script, modules, slots and history keep in step, as an invariant.
THEOREM SwitchKept == Spec => []SwitchInv
<1>1. SwitchInv /\ [Next]_vars => SwitchInv'
  BY PageTypeStep, SwapTypeStep, ScriptTypeStep, ScriptStepInv, SlotStep, SinceStep,
     TypeParts DEF SwitchInv
<1> QED
  BY InitSwitch, <1>1, PTL DEF Spec

\* Types, for any number of pages, slots and runs of the script: a run registers
\* at most once, and the glue module is loaded only on top of a backend.
THEOREM TypeCorrect == Spec => []TypeOK
<1>1. SwitchInv => TypeOK
  BY DEF SwitchInv
<1> QED
  BY <1>1, SwitchKept, PTL

-----------------------------------------------------------------------------
\* With one swap area no two slots have the same address.
LEMMA AddressInjective ==
  ASSUME OneArea, NEW e \in Slots, NEW f \in Slots, Address(e) = Address(f)
  PROVE  e = f
  BY DEF OneArea, Slots, Address

\* A slot's address is in a buffer as large as the area.
LEMMA AddressInRange ==
  ASSUME BufferFits, NEW e \in Slots PROVE Address(e) \in 0..BufPages - 1
  BY FrontswapAssumption DEF BufferFits, Slots, Address

\* A store overwrites no other slot.
LEMMA KeptStep ==
  ASSUME OneArea, SwitchInv, StoredIsKept, [Next]_vars PROVE StoredIsKept'
<1> USE FrontswapAssumption, SwitchAssumption
<1> USE DEF vars, pageVars, moduleVars, swapVars, scriptVars, ScriptSame
<1>0. PageTypes /\ SwapTypes /\ ScriptTypes /\ ScriptInv /\ SlotInv /\ SinceInv /\ StoredIsKept
  BY TypeParts DEF SwitchInv
<1>1. ASSUME NEW t \in Targets, Start(t) PROVE StoredIsKept'
  BY <1>0, <1>1 DEF Start, CaseLabel, StoredIsKept
<1>2. ASSUME RmGlue PROVE StoredIsKept'
  BY <1>0, <1>2 DEF RmGlue, StoredIsKept
<1>3. ASSUME RmBackend PROVE StoredIsKept'
  BY <1>0, <1>3 DEF RmBackend, CaseLabel, StoredIsKept
<1>4. ASSUME InsBackend PROVE StoredIsKept'
  BY <1>0, <1>4 DEF InsBackend, InsRdmaFails, ScriptInv, SinceInv, StoredIsKept
<1>5. ASSUME InsGlue PROVE StoredIsKept'
  BY <1>0, <1>5 DEF InsGlue, StoredIsKept
<1>6. ASSUME SwapOff PROVE StoredIsKept'
  BY <1>0, <1>6 DEF SwapOff, Crash, StoredIsKept
<1>7. ASSUME SwapOn PROVE StoredIsKept'
  BY <1>0, <1>7 DEF SwapOn, StoredIsKept
<1>8. ASSUME NEW p \in Pages, Reclaim(p) PROVE StoredIsKept'
  BY <1>0, <1>8 DEF Reclaim, BeginStore, Goto, StoredIsKept
<1>9. ASSUME NEW p \in Pages, NEW v \in Vals, Touch(p, v), ScriptSame PROVE StoredIsKept'
  BY <1>0, <1>9 DEF Touch, StoredIsKept
<1>10. ASSUME NEW p \in Pages, FreeSlot(p), ScriptSame PROVE StoredIsKept'
  BY <1>0, <1>10 DEF FreeSlot, Forget, StoredIsKept
<1>11. ASSUME NEW p \in Pages, Store(p), ScriptSame PROVE StoredIsKept'
  <2>1. CASE UNCHANGED <<buf, since>>
    BY <1>0, <2>1 DEF StoredIsKept, Address
  <2>2. CASE ~UNCHANGED <<buf, since>>
    <3>1. /\ Address(entry[p]) \in DOMAIN buf /\ CopyOut(entry[p], val[p])
          /\ Remember(entry[p], val[p])
      BY <1>11, <2>2 DEF Store, sswap_store, CrashOnTransfer, TransferFails, Crash
    <3>2. entry[p] \in Slots
      BY <1>0, <1>11 DEF Store, SlotInv
    <3>3. buf'[Address(entry[p])] = val[p]
      BY <3>1 DEF CopyOut
    <3>4. ASSUME NEW e \in DOMAIN since, e # entry[p]
          PROVE  buf'[Address(e)] = since[e]
      <4>1. e \in Slots /\ Address(e) \in DOMAIN buf
        BY <1>0 DEF SwapTypes, SinceInv
      <4>2. Address(e) # Address(entry[p])
        BY <3>2, <3>4, <4>1, AddressInjective
      <4> QED
        BY <1>0, <3>1, <4>1, <4>2 DEF CopyOut, StoredIsKept
    <3> QED
      BY <3>1, <3>3, <3>4 DEF Remember, StoredIsKept, Address
  <2> QED
    BY <2>1, <2>2
<1>12. ASSUME NEW p \in Pages, StoreReturned(p), ScriptSame PROVE StoredIsKept'
  BY <1>0, <1>12 DEF StoreReturned, Goto, StoredIsKept
<1>13. ASSUME NEW p \in Pages, Drop(p), ScriptSame PROVE StoredIsKept'
  BY <1>0, <1>13 DEF Drop, Goto, StoredIsKept
<1>14. ASSUME NEW p \in Pages, BeginLoad(p), ScriptSame PROVE StoredIsKept'
  BY <1>0, <1>14 DEF BeginLoad, Goto, StoredIsKept
<1>15. ASSUME NEW p \in Pages, swap_readpage_sync(p) \/ swap_readpage(p), ScriptSame
       PROVE  StoredIsKept'
  BY <1>0, <1>15 DEF swap_readpage_sync, swap_readpage, CallLoad, sswap_load, AllLoadsFail,
       CrashOnTransfer, TransferFails, CopyIn, Goto, Crash, StoredIsKept
<1>16. ASSUME NEW p \in Pages, ReadDone(p), ScriptSame PROVE StoredIsKept'
  BY <1>0, <1>16 DEF ReadDone, Goto, StoredIsKept
<1>17. ASSUME NEW p \in Pages, PollLoad(p), ScriptSame PROVE StoredIsKept'
  BY <1>0, <1>17 DEF PollLoad, Crash, StoredIsKept
<1>18. ASSUME NEW p \in Pages, MapIn(p), ScriptSame PROVE StoredIsKept'
  BY <1>0, <1>18 DEF MapIn, Goto, StoredIsKept
<1>19. CASE UNCHANGED vars
  BY <1>0, <1>19 DEF StoredIsKept
<1>20. ASSUME StaleHandler PROVE StoredIsKept'
  BY <1>0, <1>20 DEF StaleHandler, Crash, StoredIsKept
<1> QED
  BY <1>1, <1>2, <1>3, <1>4, <1>5, <1>6, <1>7, <1>8, <1>9, <1>10, <1>11, <1>12,
       <1>13, <1>14, <1>15, <1>16, <1>17, <1>18, <1>19, <1>20 DEF Next, ScriptStep,
       PageStep

\* With one swap area, what was stored in the buffer of the present backend is
\* there until its slot is stored again or freed, however careless the
\* administrator is and whatever fails.
THEOREM StoredIsKeptCorrect == OneArea => (Spec => []StoredIsKept)
<1> SUFFICES ASSUME OneArea PROVE Spec => []StoredIsKept
  OBVIOUS
<1>1. SwitchInv /\ StoredIsKept /\ [Next]_vars => StoredIsKept'
  BY KeptStep
<1> QED
  BY SwitchKept, InitSwitch, <1>1, PTL DEF Spec

-----------------------------------------------------------------------------
\* While a careful administrator's page is not mapped, it has a slot and the glue
\* module is loaded on a backend whose buffer has room for it.
LEMMA InUse ==
  ASSUME BufferFits, SwitchInv, CarefulInv, careful,
         NEW p \in Pages, phase[p] # "mapped"
  PROVE  /\ glue /\ spc = "idle" /\ regs > 0
         /\ entry[p] \in Slots /\ Address(entry[p]) \in DOMAIN buf
<1>0. entry[p] \in Slots
  BY DEF SwitchInv, SlotInv
<1>1. glue /\ spc = "idle"
  BY <1>0, FrontswapAssumption DEF CarefulInv, QuietInv, Slots
<1>2. backend # "none" /\ regs > 0
  BY <1>1 DEF SwitchInv, TypeOK, ScriptInv
<1>3. Address(entry[p]) \in DOMAIN buf
  BY <1>0, <1>2, AddressInRange DEF CarefulInv, BufferInv
<1> QED
  BY <1>0, <1>1, <1>2, <1>3

\* A transfer fails, and the kernel does not survive it.
FatalTransfer ==
  CrashOnTransfer("BUG_ON") \/ (regs > 1 /\ CrashOnTransfer("dangling"))

\* So his stores go to the buffer, or fail: no device, no dangling call, no bad
\* address.
LEMMA StoreEffect ==
  ASSUME BufferFits, SwitchInv, CarefulInv, careful, NEW p \in Pages, Store(p)
  PROVE  \/ FatalTransfer
         \/ /\ glue /\ spc = "idle" /\ entry[p] \in Slots
            /\ Address(entry[p]) \in DOMAIN buf
            /\ CopyOut(entry[p], val[p]) /\ fsmap' = fsmap \cup {entry[p]}
            /\ dirty' = [dirty EXCEPT ![p] = FALSE]
            /\ UNCHANGED <<phase, val, entry, polls, regs, glue, backend, crash>>
<1>1. phase[p] = "storing"
  BY DEF Store
<1>2. /\ glue /\ spc = "idle" /\ regs > 0
      /\ entry[p] \in Slots /\ Address(entry[p]) \in DOMAIN buf
  BY <1>1, InUse
<1>3. sswap_store(p)
  BY <1>2 DEF Store, frontswap_enabled
<1>4. CASE CrashOnTransfer("BUG_ON")
  BY <1>4, Zenon DEF FatalTransfer
<1>5. CASE ~CrashOnTransfer("BUG_ON")
  BY <1>2, <1>3, <1>5 DEF sswap_store
<1> QED
  BY <1>4, <1>5

\* What a load changes in no case but a crash.
LoadFrame == UNCHANGED <<dirty, entry, fsmap, regs, glue, backend, buf, crash>>

\* ... and his loads come from it. One that fails is read from the device, if
\* no crash comes first.
LEMMA LoadEffect ==
  ASSUME BufferFits, SwitchInv, CarefulInv, careful, NEW p \in Pages,
         swap_readpage_sync(p) \/ swap_readpage(p)
  PROVE  /\ glue /\ spc = "idle"
         /\ \/ FatalTransfer
            \/ TransferFails /\ LoadFrame
            \/ /\ entry[p] \in fsmap /\ Address(entry[p]) \in DOMAIN buf
               /\ Goto(p, "loading", "filled")
               /\ val' = [val EXCEPT ![p] = buf[Address(entry[p])]]
               /\ LoadFrame
<1>1. phase[p] = "loading"
  BY DEF swap_readpage_sync, swap_readpage
<1>2. /\ glue /\ spc = "idle"
      /\ entry[p] \in Slots /\ Address(entry[p]) \in DOMAIN buf
  BY <1>1, InUse
<1>3. entry[p] \in fsmap
  BY <1>1 DEF SwitchInv, SlotInv, CarefulInv, CleanInv
<1>4. \/ sswap_load(p, {}) \/ sswap_load(p, {p})
      \/ CrashOnTransfer("BUG_ON") \/ (regs > 1 /\ CrashOnTransfer("dangling"))
      \/ TransferFails /\ LoadFrame
  BY <1>2, <1>3 DEF swap_readpage_sync, swap_readpage, CallLoad, LoadFrame, moduleVars
<1>5. CASE sswap_load(p, {}) \/ sswap_load(p, {p})
  BY <1>2, <1>3, <1>5 DEF sswap_load, CopyIn, LoadFrame, swapVars, moduleVars
<1>6. CASE CrashOnTransfer("BUG_ON") \/ (regs > 1 /\ CrashOnTransfer("dangling"))
  BY <1>2, <1>6, Zenon DEF FatalTransfer
<1> QED
  BY <1>2, <1>4, <1>5, <1>6

\* A failure is not forgotten.
LEMMA MishapsPast == ASSUME [Next]_vars PROVE mishaps \subseteq mishaps'
<1> USE DEF vars, pageVars, moduleVars, swapVars, scriptVars
<1>1. ASSUME NEW p \in Pages, PageStep(p) PROVE mishaps \subseteq mishaps'
  <2>1. ASSUME Store(p) PROVE mishaps \subseteq mishaps'
    BY <2>1 DEF Store, sswap_store, Crash, CrashOnTransfer, TransferFails
  <2>2. ASSUME swap_readpage_sync(p) \/ swap_readpage(p) PROVE mishaps \subseteq mishaps'
    BY <2>2 DEF swap_readpage_sync, swap_readpage, CallLoad, sswap_load, Crash,
         CrashOnTransfer, TransferFails
  <2> QED
    BY <1>1, <2>1, <2>2 DEF PageStep, Touch, FreeSlot, StoreReturned, Drop, BeginLoad,
         ReadDone, PollLoad, MapIn, Crash
<1>2. ASSUME NEW p \in Pages, Reclaim(p) PROVE mishaps \subseteq mishaps'
  BY <1>2 DEF Reclaim, BeginStore
<1>3. ASSUME ScriptStep \/ StaleHandler PROVE mishaps \subseteq mishaps'
  BY <1>3 DEF ScriptStep, StaleHandler, Crash, Start, RmGlue, RmBackend, InsBackend,
       InsRdmaFails, InsGlue, SwapOff, SwapOn
<1> QED
  BY <1>1, <1>2, <1>3 DEF Next

\* Care once lost is not regained.
LEMMA CarefulPast ==
  ASSUME SwitchInv, [Next]_vars, careful' PROVE careful
  BY DEF Next, ScriptStep, Start, RmGlue, RmBackend, InsBackend, InsRdmaFails, InsGlue,
       SwapOff, SwapOn, StaleHandler, Reclaim, SwitchInv, TypeOK, vars

\* No step of a careful administrator crashes the kernel, but after a failure of
\* the RDMA backend.
LEMMA CarefulStep ==
  ASSUME BufferFits, SwitchInv, CarefulInv, Next PROVE CarefulInv'
<1> USE FrontswapAssumption, SwitchAssumption
<1> USE DEF vars, pageVars, moduleVars, swapVars, scriptVars, ScriptSame
<1> SUFFICES ASSUME careful'
             PROVE  Excused' /\ QuietInv' /\ BufferInv' /\ CleanInv' /\ FreshInv'
  BY DEF CarefulInv
<1> DEFINE Goal == Excused' /\ QuietInv' /\ BufferInv' /\ CleanInv' /\ FreshInv'
<1>0. PageTypes /\ SwapTypes /\ ScriptTypes /\ ScriptInv /\ SlotInv
  BY TypeParts DEF SwitchInv
<1>c. careful
  BY CarefulPast
<1>i. crash = "no" /\ QuietInv /\ BufferInv /\ CleanInv /\ FreshInv
  BY <1>c DEF CarefulInv, Next
<1>e. UNCHANGED crash => Excused'
  BY <1>i DEF Excused
<1>1. ASSUME NEW t \in Targets, Start(t) PROVE Goal
  <2>0. UsedSlots = {} /\ polls = {} /\ (t = "ssd" => ~frontswap_enabled)
    BY <1>1, Zenon DEF Start
  <2>1. t = "ssd" => regs = 0
    BY <1>0, <2>0 DEF frontswap_enabled, ScriptTypes
  <2>2. \A q \in Pages : entry[q] = None
    BY <2>0 DEF UsedSlots
  <2> QED
    BY <1>e, <1>i, <1>1, <2>0, <2>1, <2>2 DEF Start, QuietInv, BufferInv, CleanInv,
         FreshInv
<1>2. ASSUME RmGlue PROVE Goal
  BY <1>0, <1>e, <1>i, <1>2 DEF RmGlue, QuietInv, BufferInv, CleanInv, FreshInv,
       ScriptInv
<1>3. ASSUME RmBackend PROVE Goal
  BY <1>0, <1>e, <1>i, <1>3 DEF RmBackend, CaseLabel, QuietInv, BufferInv, CleanInv,
       FreshInv, ScriptInv
<1>4. ASSUME InsBackend PROVE Goal
  <2>1. Excused'
    BY <1>e, <1>i, <1>4 DEF InsBackend, InsRdmaFails, Excused
  <2>2. BufferInv'
    BY <1>0, <1>i, <1>4 DEF InsBackend, InsRdmaFails, BufferInv, ScriptInv
  <2> QED
    BY <1>0, <1>i, <1>4, <2>1, <2>2 DEF InsBackend, InsRdmaFails, QuietInv, CleanInv,
         FreshInv, ScriptInv
<1>5. ASSUME InsGlue PROVE Goal
  BY <1>0, <1>e, <1>i, <1>5 DEF InsGlue, QuietInv, BufferInv, CleanInv, FreshInv,
       ScriptInv
<1>6. ASSUME SwapOff PROVE Goal
  <2>1. regs = 0
    BY <1>0, <1>e, <1>i, <1>6 DEF SwapOff, ScriptInv, FreshInv
  <2>2. ~frontswap_enabled
    BY <2>1 DEF frontswap_enabled
  <2>3. \A p \in Pages : entry[p] = None
    BY <1>e, <1>i, <1>6 DEF SwapOff, QuietInv
  <2>4. \A p \in Pages : dirty[p]
    BY <1>0, <1>e, <1>i, <2>3 DEF CleanInv, SwapTypes, Slots
  <2>5. \A p \in Pages : dirty'[p] /\ entry'[p] = None
    BY <1>6, <2>2, <2>4 DEF SwapOff
  <2>6. CleanInv'
    BY <2>5 DEF CleanInv
  <2>7. QuietInv'
    BY <1>e, <1>i, <1>6, <2>2, <2>5 DEF SwapOff, QuietInv
  <2> QED
    BY <1>e, <1>i, <1>6, <2>1, <2>2, <2>6, <2>7 DEF SwapOff, BufferInv, FreshInv
<1>7. ASSUME SwapOn PROVE Goal
  BY <1>0, <1>e, <1>i, <1>7 DEF SwapOn, QuietInv, BufferInv, CleanInv, FreshInv,
       ScriptInv
<1>8. ASSUME NEW p \in Pages, Reclaim(p) PROVE Goal
  <2>1. glue /\ spc = "idle"
    BY <1>8 DEF Reclaim
  <2>2. QuietInv'
    BY <1>8, <2>1 DEF Reclaim, BeginStore, QuietInv
  <2>3. CleanInv'
    <3>1. \A q \in Pages : entry[q] \in fsmap => entry'[q] = entry[q]
      BY <1>0, <1>8 DEF Reclaim, BeginStore, PageTypes, SwapTypes, Slots
    <3> QED
      BY <1>e, <1>i, <1>8, <3>1 DEF Reclaim, BeginStore, CleanInv
  <2> QED
    BY <1>e, <1>i, <1>8, <2>1, <2>2, <2>3 DEF Reclaim, BeginStore, BufferInv, FreshInv
<1>9. ASSUME NEW p \in Pages, NEW v \in Vals, Touch(p, v), ScriptSame PROVE Goal
  <2>1. CleanInv'
    BY <1>0, <1>e, <1>i, <1>9 DEF Touch, CleanInv, PageTypes
  <2> QED
    BY <1>e, <1>i, <1>9, <2>1 DEF Touch, QuietInv, BufferInv, FreshInv
<1>10. ASSUME NEW p \in Pages, FreeSlot(p), ScriptSame PROVE Goal
  <2>1. CleanInv'
    <3>1. ASSUME NEW q \in Pages, q # p, ~dirty[q] PROVE entry'[q] \in fsmap'
      <4>1. entry[q] \in fsmap
        BY <1>e, <1>i, <3>1 DEF CleanInv
      <4>2. entry[q] # None
        BY <1>0, <4>1 DEF SwapTypes, Slots
      <4>3. entry[q] # entry[p]
        BY <1>0, <3>1, <4>2 DEF SlotInv
      <4> QED
        BY <1>0, <1>10, <3>1, <4>1, <4>3 DEF FreeSlot, PageTypes
    <3> QED
      BY <1>0, <1>10, <3>1 DEF FreeSlot, CleanInv, PageTypes
  <2>2. QuietInv'
    BY <1>0, <1>e, <1>i, <1>10 DEF FreeSlot, QuietInv, PageTypes
  <2> QED
    BY <1>e, <1>i, <1>10, <2>1, <2>2 DEF FreeSlot, BufferInv, FreshInv
<1>b. ASSUME FatalTransfer, ScriptSame PROVE Goal
  BY <1>i, <1>b DEF FatalTransfer, CrashOnTransfer, TransferFails, Excused, QuietInv,
       BufferInv, CleanInv, FreshInv
<1>11. ASSUME NEW p \in Pages, Store(p), ScriptSame PROVE Goal
  <2>1. CASE FatalTransfer
    BY <1>b, <1>11, <2>1
  <2>2. CASE ~FatalTransfer
    <3>1. /\ glue /\ spc = "idle" /\ entry[p] \in Slots
          /\ CopyOut(entry[p], val[p]) /\ fsmap' = fsmap \cup {entry[p]}
          /\ dirty' = [dirty EXCEPT ![p] = FALSE]
          /\ UNCHANGED <<entry, polls, regs, glue, backend, crash>>
      BY <1>c, <1>11, <2>2, StoreEffect
    <3>2. CleanInv'
      BY <1>0, <1>i, <3>1 DEF CleanInv, PageTypes
    <3>3. BufferInv'
      BY <1>i, <3>1 DEF BufferInv, CopyOut
    <3>4. QuietInv' /\ FreshInv'
      BY <1>11, <3>1 DEF QuietInv, FreshInv
    <3> QED
      BY <1>e, <3>1, <3>2, <3>3, <3>4
  <2> QED
    BY <2>1, <2>2
<1>12. ASSUME NEW p \in Pages, StoreReturned(p), ScriptSame PROVE Goal
  BY <1>0, <1>e, <1>i, <1>12 DEF StoreReturned, Goto, QuietInv, BufferInv, CleanInv,
       FreshInv, ScriptInv
<1>13. ASSUME NEW p \in Pages, Drop(p), ScriptSame PROVE Goal
  BY <1>0, <1>e, <1>i, <1>13 DEF Drop, Goto, QuietInv, BufferInv, CleanInv, FreshInv,
       ScriptInv
<1>14. ASSUME NEW p \in Pages, BeginLoad(p), ScriptSame PROVE Goal
  BY <1>0, <1>e, <1>i, <1>14 DEF BeginLoad, Goto, QuietInv, BufferInv, CleanInv,
       FreshInv, ScriptInv
<1>15. ASSUME NEW p \in Pages, swap_readpage_sync(p) \/ swap_readpage(p), ScriptSame PROVE Goal
  <2>1. CASE LoadFrame
    <3>1. glue /\ spc = "idle"
      BY <1>c, <1>15, LoadEffect
    <3> QED
      BY <1>e, <1>i, <1>15, <2>1, <3>1 DEF LoadFrame, QuietInv, BufferInv, CleanInv,
           FreshInv
  <2>2. CASE ~LoadFrame
    <3>1. FatalTransfer
      BY <1>c, <1>15, <2>2, LoadEffect
    <3> QED
      BY <1>b, <1>15, <3>1
  <2> QED
    BY <2>1, <2>2
<1>16. ASSUME NEW p \in Pages, ReadDone(p), ScriptSame PROVE Goal
  BY <1>0, <1>e, <1>i, <1>16 DEF ReadDone, Goto, QuietInv, BufferInv, CleanInv,
       FreshInv, ScriptInv
<1>17. ASSUME NEW p \in Pages, PollLoad(p), ScriptSame PROVE Goal
  <2>1. glue /\ spc = "idle"
    BY <1>e, <1>i, <1>17 DEF PollLoad, QuietInv
  <2>2. UNCHANGED <<dirty, entry, fsmap, regs, glue, backend, buf, crash>>
    BY <1>17, <2>1 DEF PollLoad
  <2> QED
    BY <1>e, <1>i, <1>17, <2>1, <2>2 DEF QuietInv, BufferInv, CleanInv, FreshInv
<1>18. ASSUME NEW p \in Pages, MapIn(p), ScriptSame PROVE Goal
  BY <1>0, <1>e, <1>i, <1>18 DEF MapIn, Goto, QuietInv, BufferInv, CleanInv, FreshInv,
       ScriptInv
<1>19. ASSUME StaleHandler PROVE Goal
  BY <1>i, <1>19 DEF StaleHandler, Crash, Excused, QuietInv, BufferInv, CleanInv,
       FreshInv
<1> QED
  BY <1>1, <1>2, <1>3, <1>4, <1>5, <1>6, <1>7, <1>8, <1>9, <1>10, <1>11, <1>12,
       <1>13, <1>14, <1>15, <1>16, <1>17, <1>18, <1>19 DEF Next, ScriptStep,
       PageStep

\* What a careful administrator has is kept, also when nothing happens.
LEMMA CarefulKeptStep ==
  ASSUME BufferFits, SwitchInv, CarefulInv, [Next]_vars PROVE CarefulInv'
<1>1. CASE UNCHANGED vars
  BY <1>1 DEF vars, pageVars, moduleVars, swapVars, scriptVars, CarefulInv, Excused,
       QuietInv, BufferInv, CleanInv, FreshInv
<1> QED
  BY <1>1, CarefulStep

\* When the buffer is as large as the swap area, a careful administrator crashes
\* the kernel only where a failure of the RDMA backend does: in its insmod, in
\* the handler that insmod left behind, at the BUG_ON of a transfer, or in the
\* operations next on the list, which he has if he has switched. Otherwise he
\* never does, however often he switches and whatever else fails, with the
\* operations of every module he unloaded still on frontswap's list.
THEOREM CarefulCorrect == BufferFits => (Spec => []CarefulNoCrash)
<1> SUFFICES ASSUME BufferFits PROVE Spec => []CarefulNoCrash
  OBVIOUS
<1>1. SwitchInv /\ CarefulInv /\ [Next]_vars => CarefulInv'
  BY CarefulKeptStep
<1>2. CarefulInv => CarefulNoCrash
  BY DEF CarefulInv, Excused, CarefulNoCrash
<1> QED
  BY SwitchKept, InitSwitch, <1>1, <1>2, PTL DEF Spec

-----------------------------------------------------------------------------
\* The copies stay where they are: no step of a careful administrator frees or
\* overwrites the copy of a page that is clean.
LEMMA CopyStep ==
  ASSUME OneArea, BufferFits, SwitchInv, CarefulInv, CopyInv, [Next]_vars PROVE CopyInv'
<1> USE FrontswapAssumption, SwitchAssumption
<1> USE DEF vars, pageVars, moduleVars, swapVars, scriptVars, ScriptSame
<1> SUFFICES ASSUME careful', "transfer" \notin mishaps' PROVE UsedInv' /\ DataInv'
  BY DEF CopyInv
<1>0. PageTypes /\ SwapTypes /\ ScriptTypes /\ SlotInv
  BY TypeParts DEF SwitchInv
<1>c. careful
  BY CarefulPast
<1>n. ~TransferFails
  BY DEF TransferFails
<1>i. QuietInv /\ CleanInv /\ UsedInv /\ DataInv
  BY <1>c, MishapsPast DEF CarefulInv, CopyInv
<1>q. ASSUME \A p \in Pages : entry[p] = None, fsmap' = fsmap, entry' = entry, dirty' = dirty
      PROVE  UsedInv' /\ DataInv'
  <2>1. \A p \in Pages : dirty[p]
    BY <1>0, <1>i, <1>q DEF CleanInv, SwapTypes, Slots
  <2> QED
    BY <1>i, <1>q, <2>1 DEF UsedInv, DataInv
<1>s. ASSUME NEW p \in Pages, ~dirty[p]
      PROVE  /\ entry[p] \in fsmap /\ entry[p] \in Slots
             /\ \A q \in Pages : q # p => entry[q] # entry[p]
  BY <1>0, <1>i, <1>s DEF CleanInv, SwapTypes, SlotInv, Slots
<1>1. ASSUME NEW t \in Targets, Start(t) PROVE UsedInv' /\ DataInv'
  BY <1>i, <1>1 DEF Start, CaseLabel, UsedInv, DataInv, Address
<1>2. ASSUME RmGlue PROVE UsedInv' /\ DataInv'
  <2>1. \A p \in Pages : entry[p] = None
    BY <1>i, <1>2 DEF RmGlue, QuietInv
  <2> QED
    BY <1>q, <1>2, <2>1 DEF RmGlue
<1>3. ASSUME RmBackend PROVE UsedInv' /\ DataInv'
  <2>1. \A p \in Pages : entry[p] = None
    BY <1>i, <1>3 DEF RmBackend, QuietInv
  <2> QED
    BY <1>q, <1>3, <2>1 DEF RmBackend
<1>4. ASSUME InsBackend PROVE UsedInv' /\ DataInv'
  <2>1. \A p \in Pages : entry[p] = None
    BY <1>i, <1>4 DEF InsBackend, InsRdmaFails, QuietInv
  <2> QED
    BY <1>q, <1>4, <2>1 DEF InsBackend
<1>5. ASSUME InsGlue PROVE UsedInv' /\ DataInv'
  <2>1. \A p \in Pages : entry[p] = None
    BY <1>i, <1>5 DEF InsGlue, QuietInv
  <2> QED
    BY <1>q, <1>5, <2>1 DEF InsGlue
<1>6. ASSUME SwapOff PROVE UsedInv' /\ DataInv'
  <2>1. \A p \in Pages : entry[p] = None
    BY <1>i, <1>6 DEF SwapOff, QuietInv
  <2>2. \A p \in Pages : dirty[p]
    BY <1>0, <1>i, <2>1 DEF CleanInv, SwapTypes, Slots
  <2>3. fsmap = {}
    BY <1>0, <1>i, <2>1 DEF UsedInv, SwapTypes, Slots
  <2>4. fsmap' = fsmap /\ \A p \in Pages : dirty'[p]
    BY <1>0, <1>6, <2>2 DEF SwapOff, Crash, PageTypes
  <2> QED
    BY <2>3, <2>4 DEF UsedInv, DataInv
<1>7. ASSUME SwapOn PROVE UsedInv' /\ DataInv'
  <2>1. \A p \in Pages : entry[p] = None
    BY <1>i, <1>7 DEF SwapOn, QuietInv
  <2> QED
    BY <1>q, <1>7, <2>1 DEF SwapOn
<1>8. ASSUME NEW p \in Pages, Reclaim(p) PROVE UsedInv' /\ DataInv'
  <2>1. \A q \in Pages : entry[q] # None => entry'[q] = entry[q]
    BY <1>0, <1>8 DEF Reclaim, BeginStore, PageTypes
  <2>2. UsedInv'
    <3>1. \A e \in fsmap : e # None
      BY <1>0 DEF SwapTypes, Slots
    <3> QED
      BY <1>i, <1>8, <2>1, <3>1 DEF Reclaim, BeginStore, UsedInv
  <2>3. DataInv'
    <3>1. ASSUME NEW q \in Pages, ~dirty[q],
                 phase'[q] \in {"mapped", "storing", "cached", "filled"}
          PROVE  val[q] = buf[Address(entry'[q])]
      <4>1. entry'[q] = entry[q]
        BY <1>s, <2>1, <3>1 DEF Slots
      <4>2. phase[q] \in {"mapped", "storing", "cached", "filled"}
        BY <1>0, <1>8, <3>1 DEF Reclaim, BeginStore, Goto, PageTypes
      <4> QED
        BY <1>i, <3>1, <4>1, <4>2 DEF DataInv
    <3> QED
      BY <1>8, <3>1 DEF Reclaim, BeginStore, DataInv, Address
  <2> QED
    BY <2>2, <2>3
<1>9. ASSUME NEW p \in Pages, NEW v \in Vals, Touch(p, v), ScriptSame PROVE UsedInv' /\ DataInv'
  <2>1. DataInv'
    BY <1>0, <1>i, <1>9 DEF Touch, DataInv, PageTypes, Address
  <2> QED
    BY <1>i, <1>9, <2>1 DEF Touch, UsedInv
<1>10. ASSUME NEW p \in Pages, FreeSlot(p), ScriptSame PROVE UsedInv' /\ DataInv'
  <2>1. \A q \in Pages : q # p => entry'[q] = entry[q] /\ dirty'[q] = dirty[q]
    BY <1>0, <1>10 DEF FreeSlot, PageTypes
  <2>2. dirty'[p]
    BY <1>0, <1>10 DEF FreeSlot, PageTypes
  <2>3. UsedInv'
    BY <1>i, <1>10, <2>1 DEF FreeSlot, UsedInv
  <2>4. DataInv'
    BY <1>i, <1>10, <2>1, <2>2 DEF FreeSlot, DataInv, Address
  <2> QED
    BY <2>3, <2>4
<1>11. ASSUME NEW p \in Pages, Store(p), ScriptSame PROVE UsedInv' /\ DataInv'
  <2>1. /\ entry[p] \in Slots /\ Address(entry[p]) \in DOMAIN buf
        /\ CopyOut(entry[p], val[p]) /\ fsmap' = fsmap \cup {entry[p]}
        /\ dirty' = [dirty EXCEPT ![p] = FALSE]
        /\ UNCHANGED <<phase, val, entry>>
    BY <1>c, <1>n, <1>11, StoreEffect DEF FatalTransfer, CrashOnTransfer
  <2>2. UsedInv'
    BY <1>i, <2>1 DEF UsedInv
  <2>3. val'[p] = buf'[Address(entry'[p])]
    BY <2>1 DEF CopyOut, Address
  <2>4. ASSUME NEW q \in Pages, q # p, ~dirty[q],
               phase[q] \in {"mapped", "storing", "cached", "filled"}
        PROVE  val[q] = buf'[Address(entry[q])]
    <3>1. entry[q] \in Slots /\ entry[q] # entry[p]
      BY <1>s, <2>4
    <3>2. Address(entry[q]) # Address(entry[p])
      BY <2>1, <3>1, AddressInjective
    <3>3. val[q] = buf[Address(entry[q])]
      BY <1>i, <2>4 DEF DataInv
    <3>4. Address(entry[q]) \in 0..BufPages - 1
      BY <3>1, AddressInRange
    <3>5. DOMAIN buf = 0..BufPages - 1
      BY <1>0, <2>1 DEF SwapTypes
    <3> QED
      BY <2>1, <3>2, <3>3, <3>4, <3>5 DEF CopyOut
  <2>5. DataInv'
    BY <1>0, <2>1, <2>3, <2>4 DEF DataInv, PageTypes, Address
  <2> QED
    BY <2>2, <2>5
<1>12. ASSUME NEW p \in Pages, StoreReturned(p), ScriptSame PROVE UsedInv' /\ DataInv'
  <2>1. DataInv'
    BY <1>0, <1>i, <1>12 DEF StoreReturned, Goto, DataInv, PageTypes, Address
  <2> QED
    BY <1>i, <1>12, <2>1 DEF StoreReturned, UsedInv
<1>13. ASSUME NEW p \in Pages, Drop(p), ScriptSame PROVE UsedInv' /\ DataInv'
  <2>1. DataInv'
    BY <1>0, <1>i, <1>13 DEF Drop, Goto, DataInv, PageTypes, Address
  <2> QED
    BY <1>i, <1>13, <2>1 DEF Drop, UsedInv
<1>14. ASSUME NEW p \in Pages, BeginLoad(p), ScriptSame PROVE UsedInv' /\ DataInv'
  <2>1. DataInv'
    BY <1>0, <1>i, <1>14 DEF BeginLoad, Goto, DataInv, PageTypes, Address
  <2> QED
    BY <1>i, <1>14, <2>1 DEF BeginLoad, UsedInv
<1>15. ASSUME NEW p \in Pages, swap_readpage_sync(p) \/ swap_readpage(p), ScriptSame
       PROVE  UsedInv' /\ DataInv'
  <2>1. /\ Goto(p, "loading", "filled")
        /\ val' = [val EXCEPT ![p] = buf[Address(entry[p])]]
        /\ UNCHANGED <<dirty, entry, fsmap, buf>>
    BY <1>c, <1>n, <1>15, LoadEffect DEF FatalTransfer, CrashOnTransfer, LoadFrame
  <2>2. DataInv'
    BY <1>0, <1>i, <2>1 DEF Goto, DataInv, PageTypes, Address
  <2> QED
    BY <1>i, <2>1, <2>2 DEF UsedInv
<1>16. ASSUME NEW p \in Pages, ReadDone(p), ScriptSame PROVE UsedInv' /\ DataInv'
  <2>1. DataInv'
    BY <1>0, <1>i, <1>16 DEF ReadDone, Goto, DataInv, PageTypes, Address
  <2> QED
    BY <1>i, <1>16, <2>1 DEF ReadDone, UsedInv
<1>17. ASSUME NEW p \in Pages, PollLoad(p), ScriptSame PROVE UsedInv' /\ DataInv'
  BY <1>i, <1>17 DEF PollLoad, Crash, UsedInv, DataInv, Address
<1>18. ASSUME NEW p \in Pages, MapIn(p), ScriptSame PROVE UsedInv' /\ DataInv'
  <2>1. DataInv'
    BY <1>0, <1>i, <1>18 DEF MapIn, Goto, DataInv, PageTypes, Address
  <2> QED
    BY <1>i, <1>18, <2>1 DEF MapIn, UsedInv
<1>19. CASE UNCHANGED vars
  BY <1>i, <1>19 DEF UsedInv, DataInv, Address
<1>20. ASSUME StaleHandler PROVE UsedInv' /\ DataInv'
  BY <1>i, <1>20 DEF StaleHandler, Crash, UsedInv, DataInv, Address
<1> QED
  BY <1>1, <1>2, <1>3, <1>4, <1>5, <1>6, <1>7, <1>8, <1>9, <1>10, <1>11, <1>12,
       <1>13, <1>14, <1>15, <1>16, <1>17, <1>18, <1>19, <1>20 DEF Next, ScriptStep,
       PageStep

-----------------------------------------------------------------------------
(* The refinement of FarMemory.                                            *)

\* What FM makes of a page: its phase, and the contents of its far memory.
FarPhase(p) == IF phase[p] = "filled" THEN "loading" ELSE phase[p]
FarMem(p) ==
  IF entry[p] \in fsmap /\ Address(entry[p]) \in DOMAIN buf
  THEN buf[Address(entry[p])] ELSE None

\* A page without a slot has nothing in far memory.
LEMMA NothingFar ==
  ASSUME NEW p \in Pages
  PROVE  /\ SwapTypes /\ entry[p] = None => FarMem(p) = None
         /\ SwapTypes' /\ entry'[p] = None => FarMem(p)' = None
  BY FrontswapAssumption DEF SwapTypes, FarMem, Slots

\* What leaves entries, maps and buffer alone leaves the far memory alone.
LEMMA FarSame ==
  /\ (\A p \in Pages : FarMem(p)' = FarMem(p)) => UNCHANGED [p \in Pages |-> FarMem(p)]
  /\ UNCHANGED <<entry, fsmap, buf>> => UNCHANGED [p \in Pages |-> FarMem(p)]
  /\ UNCHANGED phase => UNCHANGED [p \in Pages |-> FarPhase(p)]
  BY DEF FarMem, FarPhase, Address

\* A page whose far memory changes alone.
LEMMA FarChange ==
  ASSUME NEW p \in Pages, \A q \in Pages : q # p => FarMem(q)' = FarMem(q)
  PROVE  [q \in Pages |-> FarMem(q)]'
           = [[q \in Pages |-> FarMem(q)] EXCEPT ![p] = FarMem(p)']
  OBVIOUS

\* A page that moves is moved in FarMemory.
LEMMA FarMove ==
  ASSUME PageTypes, NEW p \in Pages, NEW from, NEW to, Goto(p, from, to)
  PROVE  /\ FarPhase(p) = (IF from = "filled" THEN "loading" ELSE from)
         /\ [q \in Pages |-> FarPhase(q)]'
              = [[q \in Pages |-> FarPhase(q)]
                   EXCEPT ![p] = IF to = "filled" THEN "loading" ELSE to]
<1>1. phase[p] = from /\ phase'[p] = to /\ \A q \in Pages : q # p => phase'[q] = phase[q]
  BY DEF Goto, PageTypes
<1>2. \A q \in Pages : q # p => FarPhase(q)' = FarPhase(q)
  BY <1>1 DEF FarPhase
<1>3. FarPhase(p)' = IF to = "filled" THEN "loading" ELSE to
  BY <1>1 DEF FarPhase
<1> QED
  BY <1>1, <1>2, <1>3 DEF FarPhase

\* Every step of a careful administrator's system is a step of FarMemory, or none.
LEMMA RefineStep ==
  ASSUME OneArea, BufferFits, SwitchInv, SwitchInv', CarefulInv, CopyInv, careful',
         "transfer" \notin mishaps', [Next]_vars
  PROVE  [FM!FMNext]_(FM!fmVars)
<1> USE FrontswapAssumption, SwitchAssumption
<1> USE DEF vars, pageVars, moduleVars, swapVars, scriptVars, ScriptSame
<1> DEFINE Phases == [p \in Pages |-> FarPhase(p)]
<1> DEFINE Mems == [p \in Pages |-> FarMem(p)]
<1>0. PageTypes /\ SwapTypes /\ ScriptTypes /\ SlotInv /\ ScriptInv /\ SwapTypes'
  BY TypeParts DEF SwitchInv
<1>c. careful
  BY CarefulPast
<1>n. ~TransferFails
  BY DEF TransferFails
<1>i. QuietInv /\ CleanInv /\ UsedInv /\ DataInv /\ FreshInv
  BY <1>c, MishapsPast DEF CarefulInv, CopyInv
<1>u. UNCHANGED <<Phases, Mems, val>> => UNCHANGED FM!fmVars
  BY DEF FM!fmVars, FarPhase, FarMem
<1>q. ASSUME spc # "idle", entry' = entry, phase' = phase, val' = val
      PROVE  UNCHANGED FM!fmVars
  <2>1. \A p \in Pages : entry[p] = None /\ entry'[p] = None
    BY <1>i, <1>q DEF QuietInv
  <2>2. \A p \in Pages : FarMem(p)' = FarMem(p)
    BY <1>0, <2>1, NothingFar
  <2> QED
    BY <1>q, <1>u, <2>2, FarSame
<1>1. ASSUME NEW t \in Targets, Start(t) PROVE UNCHANGED FM!fmVars
  BY <1>u, <1>1, FarSame DEF Start
<1>2. ASSUME RmGlue PROVE UNCHANGED FM!fmVars
  BY <1>q, <1>2 DEF RmGlue
<1>3. ASSUME RmBackend PROVE UNCHANGED FM!fmVars
  BY <1>q, <1>3 DEF RmBackend
<1>4. ASSUME InsBackend PROVE UNCHANGED FM!fmVars
  BY <1>q, <1>4 DEF InsBackend
<1>5. ASSUME InsGlue PROVE UNCHANGED FM!fmVars
  BY <1>q, <1>5 DEF InsGlue
<1>6. ASSUME SwapOff PROVE UNCHANGED FM!fmVars
  <2>1. regs = 0
    BY <1>0, <1>i, <1>6 DEF SwapOff, ScriptInv, FreshInv
  <2>2. ~frontswap_enabled
    BY <2>1 DEF frontswap_enabled
  <2>3. \A p \in Pages : entry[p] = None /\ phase[p] = "mapped"
    BY <1>0, <1>i, <1>6 DEF SwapOff, QuietInv, SlotInv, Slots
  <2>4. \A p \in Pages : entry'[p] = None /\ phase'[p] = phase[p] /\ val'[p] = val[p]
    BY <1>6, <2>2, <2>3 DEF SwapOff
  <2>5. entry' = entry /\ phase' = phase /\ val' = val
    BY <1>0, <1>6, <2>2, <2>3, <2>4 DEF SwapOff, PageTypes
  <2> QED
    BY <1>q, <1>6, <2>5 DEF SwapOff
<1>7. ASSUME SwapOn PROVE UNCHANGED FM!fmVars
  BY <1>q, <1>7 DEF SwapOn
<1>8. ASSUME NEW p \in Pages, Reclaim(p) PROVE FM!FMNext
  <2>1. \A q \in Pages : FarMem(q)' = FarMem(q)
    <3>1. ASSUME NEW s \in Slots \ UsedSlots, entry[p] = None,
                 entry' = [entry EXCEPT ![p] = s]
          PROVE  \A q \in Pages : FarMem(q)' = FarMem(q)
      <4>1. s \notin fsmap
        BY <1>0, <1>i, <3>1 DEF UsedInv, UsedSlots, SwapTypes, Slots
      <4>2. FarMem(p)' = None /\ FarMem(p) = None
        BY <1>0, <1>8, <3>1, <4>1, NothingFar DEF Reclaim, BeginStore, PageTypes,
             FarMem
      <4>3. \A q \in Pages : q # p => FarMem(q)' = FarMem(q)
        BY <1>0, <1>8, <3>1 DEF Reclaim, BeginStore, PageTypes, FarMem, Address
      <4> QED
        BY <4>2, <4>3
    <3>2. CASE UNCHANGED entry
      BY <1>8, <3>2 DEF Reclaim, BeginStore, FarMem, Address
    <3> QED
      BY <1>8, <3>1, <3>2 DEF Reclaim, BeginStore
  <2>2. UNCHANGED Mems /\ UNCHANGED val
    BY <1>8, <2>1, FarSame DEF Reclaim, BeginStore
  <2>3. FM!BeginStore(p)
    BY <1>0, <1>8, <2>2, FarMove DEF Reclaim, BeginStore, FM!BeginStore, FM!Move,
         FarPhase, FarMem
  <2> QED
    BY <2>3 DEF FM!FMNext
<1>9. ASSUME NEW p \in Pages, NEW v \in Vals, Touch(p, v), ScriptSame PROVE FM!FMNext
  <2>1. UNCHANGED <<Phases, Mems>> /\ FarPhase(p) = "mapped"
    BY <1>9, FarSame DEF Touch, FarPhase
  <2>2. FM!Write(p, v)
    BY <1>9, <2>1 DEF Touch, FM!Write, FarPhase, FarMem
  <2> QED
    BY <2>2 DEF FM!FMNext
<1>10. ASSUME NEW p \in Pages, FreeSlot(p), ScriptSame PROVE FM!FMNext
  <2>1. FarMem(p)' = None
    BY <1>0, <1>10, NothingFar DEF FreeSlot, PageTypes
  <2>2. ASSUME NEW q \in Pages, q # p PROVE FarMem(q)' = FarMem(q)
    <3>1. entry[q] # entry[p] /\ entry'[q] = entry[q]
      BY <1>0, <1>10, <2>2 DEF FreeSlot, SlotInv, PageTypes
    <3> QED
      BY <1>10, <3>1 DEF FreeSlot, FarMem, Address
  <2>3. Mems' = [Mems EXCEPT ![p] = None]
    BY <2>1, <2>2, FarChange
  <2>4. UNCHANGED <<Phases, val>> /\ FarPhase(p) = "mapped"
    BY <1>10, FarSame DEF FreeSlot, FarPhase
  <2>5. FM!Discard(p)
    BY <2>3, <2>4 DEF FM!Discard, FarPhase, FarMem
  <2> QED
    BY <2>5 DEF FM!FMNext
<1>11. ASSUME NEW p \in Pages, Store(p), ScriptSame PROVE FM!FMNext
  <2>1. /\ entry[p] \in Slots /\ Address(entry[p]) \in DOMAIN buf
        /\ CopyOut(entry[p], val[p]) /\ fsmap' = fsmap \cup {entry[p]}
        /\ UNCHANGED <<phase, val, entry>>
    BY <1>c, <1>n, <1>11, StoreEffect DEF FatalTransfer, CrashOnTransfer
  <2>2. FarMem(p)' = val[p]
    BY <2>1 DEF CopyOut, FarMem, Address
  <2>3. ASSUME NEW q \in Pages, q # p PROVE FarMem(q)' = FarMem(q)
    <3>1. entry[q] # entry[p]
      BY <1>0, <2>1, <2>3 DEF SlotInv, Slots
    <3>2. DOMAIN buf' = DOMAIN buf
      BY <2>1 DEF CopyOut
    <3>3. CASE entry[q] \in fsmap /\ Address(entry[q]) \in DOMAIN buf
      <4>1. Address(entry[q]) # Address(entry[p])
        BY <1>0, <2>1, <3>1, <3>3, AddressInjective DEF SwapTypes
      <4>2. buf'[Address(entry[q])] = buf[Address(entry[q])]
        BY <2>1, <3>3, <4>1 DEF CopyOut
      <4> QED
        BY <2>1, <3>2, <3>3, <4>2 DEF FarMem, Address
    <3>4. CASE ~(entry[q] \in fsmap /\ Address(entry[q]) \in DOMAIN buf)
      BY <2>1, <3>1, <3>2, <3>4 DEF FarMem, Address
    <3> QED
      BY <3>3, <3>4
  <2>4. Mems' = [Mems EXCEPT ![p] = val[p]]
    BY <2>2, <2>3, FarChange
  <2>5. UNCHANGED <<Phases, val>> /\ FarPhase(p) = "storing"
    BY <1>11, <2>1, FarSame DEF Store, FarPhase
  <2>6. FM!Put(p)
    BY <2>4, <2>5 DEF FM!Put, FarPhase, FarMem
  <2> QED
    BY <2>6 DEF FM!FMNext
<1>12. ASSUME NEW p \in Pages, StoreReturned(p), ScriptSame PROVE FM!FMNext
  <2>1. Goto(p, "storing", "cached") /\ UNCHANGED <<val, entry, fsmap, buf>>
    BY <1>12 DEF StoreReturned
  <2>2. UNCHANGED Mems
    BY <2>1, FarSame
  <2>3. FarPhase(p) = "storing" /\ Phases' = [Phases EXCEPT ![p] = "cached"]
    BY <1>0, <2>1, FarMove
  <2>4. FarMem(p) = val[p]
    <3>1. phase[p] = "storing" /\ ~dirty[p]
      BY <1>0, <1>12 DEF StoreReturned, Goto, SlotInv
    <3>2. entry[p] \in fsmap /\ val[p] = buf[Address(entry[p])]
      BY <1>i, <3>1 DEF CleanInv, DataInv
    <3>3. Address(entry[p]) \in DOMAIN buf
      BY <1>c, <3>1, InUse
    <3> QED
      BY <3>2, <3>3 DEF FarMem
  <2>5. FM!EndStore(p)
    BY <2>1, <2>2, <2>3, <2>4 DEF FM!EndStore, FM!Move, FarPhase, FarMem
  <2> QED
    BY <2>5 DEF FM!FMNext
<1>13. ASSUME NEW p \in Pages, Drop(p), ScriptSame PROVE FM!FMNext
  <2>1. Goto(p, "cached", "out") /\ UNCHANGED <<entry, fsmap, buf>>
    BY <1>13 DEF Drop
  <2>2. UNCHANGED Mems
    BY <2>1, FarSame
  <2>3. FarPhase(p) = "cached" /\ Phases' = [Phases EXCEPT ![p] = "out"]
    BY <1>0, <2>1, FarMove
  <2>4. FM!Drop(p)
    BY <1>13, <2>1, <2>2, <2>3 DEF Drop, FM!Drop, FM!Move, FarPhase, FarMem
  <2> QED
    BY <2>4 DEF FM!FMNext
<1>14. ASSUME NEW p \in Pages, BeginLoad(p), ScriptSame PROVE FM!FMNext
  <2>1. Goto(p, "out", "loading") /\ UNCHANGED <<val, entry, fsmap, buf>>
    BY <1>14 DEF BeginLoad
  <2>2. UNCHANGED Mems
    BY <2>1, FarSame
  <2>3. FarPhase(p) = "out" /\ Phases' = [Phases EXCEPT ![p] = "loading"]
    BY <1>0, <2>1, FarMove
  <2>4. FM!BeginLoad(p)
    BY <2>1, <2>2, <2>3 DEF FM!BeginLoad, FM!Move, FarPhase, FarMem
  <2> QED
    BY <2>4 DEF FM!FMNext
<1>15. ASSUME NEW p \in Pages, swap_readpage_sync(p) \/ swap_readpage(p), ScriptSame
       PROVE  FM!FMNext
  <2>1. /\ entry[p] \in fsmap /\ Address(entry[p]) \in DOMAIN buf
        /\ Goto(p, "loading", "filled")
        /\ val' = [val EXCEPT ![p] = buf[Address(entry[p])]]
        /\ UNCHANGED <<entry, fsmap, buf>>
    BY <1>c, <1>n, <1>15, LoadEffect DEF FatalTransfer, CrashOnTransfer, LoadFrame
  <2>2. UNCHANGED Mems /\ FarMem(p) = buf[Address(entry[p])]
    BY <2>1, FarSame DEF FarMem
  <2>3. FarPhase(p) = "loading" /\ Phases' = [Phases EXCEPT ![p] = "loading"]
    BY <1>0, <2>1, FarMove
  <2>4. UNCHANGED Phases
    BY <2>3
  <2>5. FM!Get(p)
    BY <2>1, <2>2, <2>3, <2>4 DEF FM!Get, FarPhase, FarMem
  <2> QED
    BY <2>5 DEF FM!FMNext
<1>16. ASSUME NEW p \in Pages, ReadDone(p), ScriptSame PROVE FM!FMNext
  <2>1. Goto(p, "filled", "cached") /\ UNCHANGED <<val, entry, fsmap, buf>>
    BY <1>16 DEF ReadDone
  <2>2. UNCHANGED Mems
    BY <2>1, FarSame
  <2>3. FarPhase(p) = "loading" /\ Phases' = [Phases EXCEPT ![p] = "cached"]
    BY <1>0, <2>1, FarMove
  <2>4. FarMem(p) = val[p]
    <3>1. phase[p] = "filled" /\ ~dirty[p]
      BY <1>0, <1>16 DEF ReadDone, Goto, SlotInv
    <3>2. entry[p] \in fsmap /\ val[p] = buf[Address(entry[p])]
      BY <1>i, <3>1 DEF CleanInv, DataInv
    <3>3. Address(entry[p]) \in DOMAIN buf
      BY <1>c, <3>1, InUse
    <3> QED
      BY <3>2, <3>3 DEF FarMem
  <2>5. FM!EndLoad(p)
    BY <2>1, <2>2, <2>3, <2>4 DEF FM!EndLoad, FM!Move, FarPhase, FarMem
  <2> QED
    BY <2>5 DEF FM!FMNext
<1>17. ASSUME NEW p \in Pages, PollLoad(p), ScriptSame PROVE UNCHANGED FM!fmVars
  <2>1. UNCHANGED <<phase, val, entry, fsmap, buf>>
    BY <1>17 DEF PollLoad, Crash
  <2> QED
    BY <1>u, <2>1, FarSame
<1>18. ASSUME NEW p \in Pages, MapIn(p), ScriptSame PROVE FM!FMNext
  <2>1. Goto(p, "cached", "mapped") /\ UNCHANGED <<val, entry, fsmap, buf>>
    BY <1>18 DEF MapIn
  <2>2. UNCHANGED Mems
    BY <2>1, FarSame
  <2>3. FarPhase(p) = "cached" /\ Phases' = [Phases EXCEPT ![p] = "mapped"]
    BY <1>0, <2>1, FarMove
  <2>4. FM!MapIn(p)
    BY <2>1, <2>2, <2>3 DEF FM!MapIn, FM!Move, FarPhase, FarMem
  <2> QED
    BY <2>4 DEF FM!FMNext
<1>19. CASE UNCHANGED vars
  BY <1>u, <1>19, FarSame
<1>20. ASSUME StaleHandler PROVE UNCHANGED FM!fmVars
  <2>1. UNCHANGED <<phase, val, entry, fsmap, buf>>
    BY <1>20 DEF StaleHandler, Crash
  <2> QED
    BY <1>u, <2>1, FarSame
<1> QED
  BY <1>1, <1>2, <1>3, <1>4, <1>5, <1>6, <1>7, <1>8, <1>9, <1>10, <1>11, <1>12,
       <1>13, <1>14, <1>15, <1>16, <1>17, <1>18, <1>19, <1>20 DEF Next, ScriptStep,
       PageStep

\* At the start every page is mapped and its far memory is empty.
LEMMA RefineInit == Init => FM!FMInit
  BY DEF Init, Init0, FM!FMInit

\* With one swap area and a buffer as large, a careful administrator's backend
\* implements FarMemory as long as no transfer fails, through any number of
\* switches and with slots that are freed and given to other pages: what is
\* loaded is what was stored.
THEOREM RefinementCorrect == OneArea /\ BufferFits => (Spec => CarefulFarMemory)
<1> SUFFICES ASSUME OneArea, BufferFits PROVE Spec => CarefulFarMemory
  OBVIOUS
<1>1. SwitchInv /\ CarefulInv /\ CopyInv /\ [Next]_vars => CarefulInv' /\ CopyInv'
  BY CarefulKeptStep, CopyStep
<1>2. SwitchInv /\ SwitchInv' /\ CarefulInv /\ CopyInv /\ [Next]_vars
      => [careful' /\ "transfer" \notin mishaps' => FM!FMNext]_(FM!fmVars)
  BY RefineStep
<1> QED
  BY SwitchKept, InitSwitch, RefineInit, <1>1, <1>2, PTL DEF Spec, CarefulFarMemory
==============================================================================
