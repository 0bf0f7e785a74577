------------------------------ MODULE DataSide ------------------------------
(***************************************************************************)
(* The data side of PipelineCPU: the EXE, MEM and WB stages of             *)
(* PipelineCPU::exec (pipelinecpu.cpp) over the DCache and its memory, in  *)
(* the order EMU::run (emu.cpp) calls them in every cycle:                 *)
(*                                                                         *)
(*    Memory::tick ; DCache::tick ; WB ; MEM ; EXE ; EXE->MEM ; ID->EXE    *)
(*                                                                         *)
(* Everything runs on one thread and callbacks are synchronous, so a cycle *)
(* is this sequence of actions; `phase' is the next one.  What the front   *)
(* end hands to EXE, and when, is left open (Issue): wrong-path and        *)
(* faulting instructions included, since PipelineCPU keeps issuing while   *)
(* it waits for a redirect.  The front end itself is not modelled here.    *)
(*                                                                         *)
(* The memory answers any time after it accepted a request (DRAM and       *)
(* device timing is outside the model).                                    *)
(***************************************************************************)
EXTENDS DCache

CONSTANTS
  RetireSize,        \* PipelineCPU::retire_size, the length of mem_req_list
  StallDelay,        \* mult_delay and the other configured delays
  NoInst             \* a stage whose valid bit is off

ASSUME DataSideAssumption ==
  /\ RetireSize \in Nat \ {0}
  /\ StallDelay \in Nat \ {0}

VARIABLES
  phase,
  wb_inst, mem_inst, exe_inst,  \* the stages; an Inst is NoInst when invalid
  exe_end,                      \* EXE has finished exe_inst
  exe_stall_cycle,
  mem_tail,                     \* the slot mem_req_list.back() points to
  mem_end_map,                  \* per slot: its access has been answered
  pending                       \* slots given to the cache and not answered
                                \* (mem_req_list between its head and tail,
                                \* without the slots of failed SCs)

stageVars == <<wb_inst, mem_inst, exe_inst, exe_end, exe_stall_cycle>>
listVars  == <<mem_tail, mem_end_map, pending>>
vars == <<cacheVars, stageVars, listVars, phase>>

Ids == 0 .. RetireSize - 1

(* What EXE and MEM distinguish: LOAD and LR; STORE, AMO and a succeeding  *)
(* SC; a failing SC; FENCE and SFENCE; the rest, which may stall EXE for   *)
(* some cycles first; and an instruction whose info->exception is set,     *)
(* whatever its type.                                                      *)
(* The address of a load or store matters only to the cache and is chosen  *)
(* when lookup() takes the request (ExeLookup).                            *)
MemKinds == {"load", "store", "scfail"}
Kinds == MemKinds \cup {"fence", "other", "exc"}
Inst == [kind : Kinds, mem_id : Ids]

(* The values that stand for an absent request and an absent instruction    *)
(* are none of the present ones.                                           *)
ASSUME NoReqAssumption == NoReq \notin CacheReq(Ids)
ASSUME NoInstAssumption == NoInst \notin Inst

Phases == {"memory", "dcache", "wb", "mem", "exe", "move", "issue"}

Init ==
  /\ CacheInit
  /\ phase = "memory"
  /\ wb_inst = NoInst /\ mem_inst = NoInst /\ exe_inst = NoInst
  /\ exe_end = FALSE /\ exe_stall_cycle = 0
  /\ mem_tail = 0
  /\ mem_end_map = [i \in Ids |-> FALSE]
  /\ pending = <<>>

-----------------------------------------------------------------------------
(* The callback PipelineCPU::afterLoad registers with the DCache.          *)
MemCallback(id) ==
  /\ pending' = Tail(pending)
  /\ mem_end_map' = [mem_end_map EXCEPT ![id] = TRUE]

(* Memory::tick: a response is delivered, or none is due. *)
MemoryResponse ==
  /\ phase = "memory"
  /\ Response
  /\ IF ResponseAnswers
       THEN MemCallback(lookup_req.id)
       ELSE UNCHANGED <<pending, mem_end_map>>
  /\ phase' = "dcache"
  /\ UNCHANGED <<stageVars, mem_tail>>

MemoryQuiet ==
  /\ phase = "memory"
  /\ phase' = "dcache"
  /\ UNCHANGED <<cacheVars, stageVars, listVars>>

DCacheTick ==
  /\ phase = "dcache"
  /\ Tick
  /\ IF TickAnswers
       THEN MemCallback(TickAnswerId)
       ELSE UNCHANGED <<pending, mem_end_map>>
  /\ phase' = "wb"
  /\ UNCHANGED <<stageVars, mem_tail>>

-----------------------------------------------------------------------------
(* WB: an instruction retires; one with an exception redirects.            *)

WbRetire ==
  /\ phase = "wb"
  /\ wb_inst # NoInst => wb_inst.kind # "exc"
  /\ wb_inst' = NoInst
  /\ phase' = "mem"
  /\ UNCHANGED <<cacheVars, mem_inst, exe_inst, exe_end, exe_stall_cycle,
                 listVars>>

(* PipelineCPU::excRedirect: the younger stages and the request ring are   *)
(* emptied and the DCache is redirected; mem_end_map is left as it is.     *)
ExcRedirect ==
  /\ phase = "wb"
  /\ wb_inst # NoInst /\ wb_inst.kind = "exc"
  /\ wb_inst' = NoInst /\ mem_inst' = NoInst /\ exe_inst' = NoInst
  /\ exe_end' = FALSE /\ exe_stall_cycle' = 0
  /\ pending' = <<>>
  /\ Redirect
  /\ phase' = "mem"
  /\ UNCHANGED <<mem_tail, mem_end_map>>

-----------------------------------------------------------------------------
(* MEM: a memory instruction waits for its slot of mem_end_map.            *)

MemAccessDone ==
  /\ phase = "mem"
  /\ mem_inst # NoInst /\ mem_inst.kind \in MemKinds
  /\ mem_end_map[mem_inst.mem_id]
  /\ mem_end_map' = [mem_end_map EXCEPT ![mem_inst.mem_id] = FALSE]
  /\ wb_inst' = mem_inst /\ mem_inst' = NoInst
  /\ phase' = "exe"
  /\ UNCHANGED <<cacheVars, exe_inst, exe_end, exe_stall_cycle, mem_tail, pending>>

MemPass ==
  /\ phase = "mem"
  /\ mem_inst # NoInst /\ mem_inst.kind \notin MemKinds
  /\ wb_inst' = mem_inst /\ mem_inst' = NoInst
  /\ phase' = "exe"
  /\ UNCHANGED <<cacheVars, exe_inst, exe_end, exe_stall_cycle, listVars>>

MemWait ==
  /\ phase = "mem"
  /\ mem_inst # NoInst =>
       mem_inst.kind \in MemKinds /\ ~mem_end_map[mem_inst.mem_id]
  /\ phase' = "exe"
  /\ UNCHANGED <<cacheVars, stageVars, listVars>>

-----------------------------------------------------------------------------
(* EXE *)

InExe(kinds) ==
  /\ phase = "exe"
  /\ exe_inst # NoInst /\ exe_inst.kind \in kinds
  /\ exe_stall_cycle = 0 /\ ~exe_end

ExeIdle ==
  /\ phase = "exe"
  /\ exe_inst = NoInst \/ (exe_end /\ exe_stall_cycle = 0)
  /\ phase' = "move"
  /\ UNCHANGED <<cacheVars, stageVars, listVars>>

ExeStall ==
  /\ phase = "exe"
  /\ exe_inst # NoInst /\ exe_stall_cycle > 0
  /\ exe_stall_cycle' = exe_stall_cycle - 1
  /\ exe_end' = (exe_stall_cycle = 1 \/ exe_end)
  /\ phase' = "move"
  /\ UNCHANGED <<cacheVars, wb_inst, mem_inst, exe_inst, listVars>>

ExeStartStall ==
  /\ InExe({"other"})
  /\ exe_stall_cycle' = StallDelay
  /\ phase' = "move"
  /\ UNCHANGED <<cacheVars, wb_inst, mem_inst, exe_inst, exe_end, listVars>>

ExePass ==
  /\ InExe({"other", "exc"})
  /\ exe_end' = TRUE
  /\ phase' = "move"
  /\ UNCHANGED <<cacheVars, wb_inst, mem_inst, exe_inst, exe_stall_cycle, listVars>>

(* Arch::flushCache(1) *)
ExeFence ==
  /\ InExe({"fence"})
  /\ Flush
  /\ exe_end' = TRUE
  /\ phase' = "move"
  /\ UNCHANGED <<wb_inst, mem_inst, exe_inst, exe_stall_cycle, listVars>>

(* Fault: the tail of the ring does not wrap. *)
NextSlotNoWrap(i) == i + 1

NextSlot(i) == (i + 1) % RetireSize

(* A failing SC takes a slot, marks it answered and never uses the cache.  *)
ExeScFail ==
  /\ InExe({"scfail"})
  /\ exe_end' = TRUE
  /\ exe_inst' = [exe_inst EXCEPT !.mem_id = mem_tail]
  /\ mem_end_map' = [mem_end_map EXCEPT ![mem_tail] = TRUE]
  /\ mem_tail' = NextSlot(mem_tail)
  /\ phase' = "move"
  /\ UNCHANGED <<cacheVars, wb_inst, mem_inst, exe_stall_cycle, pending>>

RequestOf(inst, line, id) ==
  [id |-> id, line |-> line,
   req |-> IF inst.kind = "load" THEN "READ_SHARED" ELSE "WRITE_BACK"]

ExeLookup(line) ==
  /\ InExe({"load", "store"})
  /\ Accept(RequestOf(exe_inst, line, mem_tail))
  /\ exe_end' = TRUE
  /\ exe_inst' = [exe_inst EXCEPT !.mem_id = mem_tail]
  /\ pending' = Append(pending, mem_tail)
  /\ mem_tail' = NextSlot(mem_tail)
  /\ phase' = "move"
  /\ UNCHANGED <<wb_inst, mem_inst, exe_stall_cycle, mem_end_map>>

ExeLookupRefused ==
  /\ InExe({"load", "store"})
  /\ ~CanAccept
  /\ exe_inst' = [exe_inst EXCEPT !.mem_id = mem_tail]
  /\ phase' = "move"
  /\ UNCHANGED <<cacheVars, wb_inst, mem_inst, exe_end, exe_stall_cycle, listVars>>

-----------------------------------------------------------------------------
(* EXE -> MEM, in the same exec() *)

MoveToMem ==
  /\ phase = "move"
  /\ exe_inst # NoInst /\ exe_end /\ mem_inst = NoInst
  /\ mem_inst' = exe_inst /\ exe_inst' = NoInst /\ exe_end' = FALSE
  /\ phase' = "issue"
  /\ UNCHANGED <<cacheVars, wb_inst, exe_stall_cycle, listVars>>

MoveWait ==
  /\ phase = "move"
  /\ ~(exe_inst # NoInst /\ exe_end /\ mem_inst = NoInst)
  /\ phase' = "issue"
  /\ UNCHANGED <<cacheVars, stageVars, listVars>>

(* ID -> EXE: the front end has an instruction, or has none. *)
Issue(kind) ==
  /\ phase = "issue"
  /\ exe_inst = NoInst
  /\ exe_inst' = [kind |-> kind, mem_id |-> 0]
  /\ phase' = "memory"
  /\ UNCHANGED <<cacheVars, wb_inst, mem_inst, exe_end, exe_stall_cycle, listVars>>

NoIssue ==
  /\ phase = "issue"
  /\ phase' = "memory"
  /\ UNCHANGED <<cacheVars, stageVars, listVars>>

-----------------------------------------------------------------------------
CpuStage ==
  \/ WbRetire \/ ExcRedirect
  \/ MemAccessDone \/ MemPass \/ MemWait
  \/ ExeIdle \/ ExeStall \/ ExeStartStall \/ ExePass \/ ExeFence
  \/ ExeScFail \/ (\E line \in Lines : ExeLookup(line)) \/ ExeLookupRefused
  \/ MoveToMem \/ MoveWait

Next ==
  \/ MemoryResponse \/ MemoryQuiet
  \/ DCacheTick
  \/ CpuStage
  \/ \E kind \in Kinds : Issue(kind)
  \/ NoIssue

Spec == Init /\ [][Next]_vars

(* EMU::run never stops calling tick and exec, so every phase is followed  *)
(* by the next one (weak fairness).  A memory that is asked again and      *)
(* again accepts, and answers what it accepted (strong fairness: both are  *)
(* enabled only in their phase of the cycle).                              *)
Fairness ==
  /\ WF_vars(Next)
  /\ SF_vars(MemoryResponse)
  /\ SF_vars(phase = "dcache" /\ SendMiss /\ DCacheTick)

FairSpec == Spec /\ Fairness

-----------------------------------------------------------------------------
(* Properties *)

StagesTypeOK ==
  /\ wb_inst \in Inst \cup {NoInst}
  /\ mem_inst \in Inst \cup {NoInst}
  /\ exe_inst \in Inst \cup {NoInst}
  /\ exe_end \in BOOLEAN
  /\ exe_stall_cycle \in 0 .. StallDelay

ListsTypeOK ==
  /\ mem_tail \in Ids
  /\ mem_end_map \in [Ids -> BOOLEAN]
  /\ pending \in Seq(Ids)

(* Every variable of the cache and of the stages stays in its range.       *)
TypeOK ==
  phase \in Phases /\ CacheTypeOK(Ids) /\ StagesTypeOK /\ ListsTypeOK

(* The slots whose request is inside the DCache and has not been answered, *)
(* oldest first.                                                           *)
Unanswered ==
  (IF state = "MISS" \/ (state = "LOOKUP" /\ ~match)
     THEN <<lookup_req.id>> ELSE <<>>)
  \o (IF idle_req # NoReq THEN <<idle_req.id>> ELSE <<>>)

(* What the CPU believes to be in the cache is in the cache: an accepted   *)
(* request is never overwritten by a later one, lost in a flush, or        *)
(* answered after the redirect that cancelled it (DCache::lookup,          *)
(* handleIdleReq, redirect, and the callback pop of mem_req_list).         *)
NoRequestLost == pending = Unanswered

(* DCache never has two requests at its parent, a response is always       *)
(* expected, and in MISS it is the response to the request being served:   *)
(* a fill is labelled with the line that was fetched.                      *)
OneOutstanding ==
  /\ Len(owed) <= 1
  /\ owed # <<>> => state = "MISS" \/ req_clear_wait
  /\ state = "MISS" => owed = <<lookup_req>> /\ ~req_clear_wait

(* An accepted request waits only for the tick of the same cycle boundary, *)
(* and that tick looks it up: no FENCE, redirect or response can come      *)
(* between DCache::lookup and handleIdleReq and leave the request (whose   *)
(* CacheReq the CPU reuses) waiting.                                       *)
LookedUpNextTick ==
  idle_req # NoReq =>
    TakesIdleReq /\ phase \in {"move", "issue", "memory", "dcache"}

ValidLines == {l \in Lines : Present(tagvs, l)}

(* A flush does not stop a fill already requested from landing in a set it *)
(* has cleared, but when it ends no more than that one line is left.       *)
FlushLeavesAtMostOne ==
  [][flush_num = 1 /\ flush_num' = 0 =>
       \A l, m \in ValidLines' : l = m]_vars

(* redirect() is to "remove current cache access, reset state" (cache.h);  *)
(* afterwards a response may be swallowed only if one is due.  When it is  *)
(* not, req_clear_wait stays set and no miss is ever sent again.           *)
Wedged == req_clear_wait /\ owed = <<>>
RedirectResets == ~Wedged

(* A memory instruction leaves MEM for WB only after its own access has    *)
(* been answered (mem_end_map).                                            *)
RetiredAfterAnswer ==
  wb_inst # NoInst /\ wb_inst.kind \in {"load", "store"} =>
    \A i \in DOMAIN pending : pending[i] # wb_inst.mem_id

(* Every access is answered or cancelled unless the cache is wedged, as    *)
(* long as the cache keeps getting ticks outside a flush: a FENCE that     *)
(* reaches EXE restarts the flush, and DCache::tick does nothing else      *)
(* while one lasts.                                                        *)
AccessEnds ==
  []<>(phase = "dcache" /\ ~flush_valid) =>
    (pending # <<>> ~> Wedged \/ pending = <<>>)

(* The data side implements a port that holds one access at a time.        *)
Port == INSTANCE MemoryPort WITH Slots <- Ids, queue <- pending,
                                 done <- mem_end_map
ImplementsPort == Port!Spec

(* Towards its memory the DCache is a caller with one read out at most,    *)
(* and every response is to a read that is out (the LOOKUP case of tick,   *)
(* req_clear_wait, and the callback of afterLoad).                         *)
Parent == INSTANCE ReadPort WITH Callers <- {"dcache"},
                                 out <- [c \in {"dcache"} |-> Len(owed)]
ImplementsParent == Parent!Spec

=============================================================================
