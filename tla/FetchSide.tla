----------------------------- MODULE FetchSide -----------------------------
(***************************************************************************)
(* The front end of PipelineCPU (pipelinecpu.cpp) over the ICache: fetch,  *)
(* ID, the branches EXE resolves and the redirects, in the order EMU::run  *)
(* calls them in every cycle:                                              *)
(*                                                                         *)
(*   Memory::tick ; ICache::tick ; WB ; MEM ; EXE ; EXE->MEM ; ID->EXE ;   *)
(*   the stalled instruction ; FETCH                                       *)
(*                                                                         *)
(* Timing and function are separate in this simulator: `pc' is where the   *)
(* functional state is, and an instruction executes functionally, once,    *)
(* when ID hands it to EXE (Arch::updateEnv).  What is fetched only sets   *)
(* the pace, and preId decodes whatever instruction is at `pc'.  The two   *)
(* must stay in step: this is what the properties are about.               *)
(*                                                                         *)
(* Addresses count half words and wrap at AddrSpace.  What is decoded      *)
(* (size, kind, prediction, fault) is chosen when it is decoded, so that   *)
(* interrupts and stores to code are included; where a control transfer    *)
(* goes is one of Targets.  The data side appears only as delays: a plain  *)
(* instruction may stay in EXE and a memory instruction in EXE and MEM.    *)
(***************************************************************************)
EXTENDS ICache, Integers

CONSTANTS
  AddrSpace,         \* half words of the address space
  LineSize,          \* half words of a cache line
  Targets,           \* where branches, traps and returns may go
  RetireSize,        \* PipelineCPU::retire_size
  NoInst             \* a stage whose valid bit is off

Addr == 0 .. AddrSpace - 1

ASSUME FetchSideAssumption ==
  /\ AddrSpace \in Nat \ {0} /\ LineSize \in Nat \ {0} /\ RetireSize \in Nat \ {0}
  /\ Targets \subseteq Addr
  /\ {a \div LineSize : a \in Addr} \subseteq Lines

VARIABLES
  phase,
  pc,                \* where the functional state is
  pred_pc,           \* where fetching goes on
  fetch_valid,       \* the youngest entry of cache_reqs has not been sent
  cache_reqs,        \* cache_req_list between its head and tail
  id_valid, id_inst, \* id_inst is read also when id_valid is off
  id_remain_size,    \* half words left of the chunk being decoded
  id_stall_valid, id_stall_dec_more, id_stall_inst_valid, id_stall_inst,
  id_wait_redirect,
  exe_inst, exe_end, mem_inst, wb_inst

fetchVars == <<pc, pred_pc, fetch_valid, cache_reqs>>
stallVars == <<id_stall_valid, id_stall_dec_more, id_stall_inst_valid, id_stall_inst>>
idVars    == <<id_valid, id_inst, id_remain_size, stallVars, id_wait_redirect>>
backVars  == <<exe_inst, exe_end, mem_inst, wb_inst>>
vars == <<cacheVars, fetchVars, idVars, backVars, phase>>

Phases == {"memory", "icache", "wb", "mem", "exe", "move", "id", "stall", "fetch"}

LineOf(a) == a \div LineSize
Plus(a, n) == (a + n) % AddrSpace

(* A chunk is what one request fetches: two half words. *)
ChunkSize == 2
InChunk(a, chunk) == \E i \in 0 .. ChunkSize - 1 : a = Plus(chunk, i)

Kinds == {"alu", "quick", "mem", "cond", "direct", "jump", "ifence", "satp"}

(* PipelineCPU::Inst, the fields ID reads: the chunk the instruction came   *)
(* in, its own address, what was decoded and predicted.  ring and age say   *)
(* which array of Inst objects it lives in and how many of that array have  *)
(* been handed out since.                                                   *)
Ages == [ring : {"req", "extra"}, age : 0 .. RetireSize]
IdInst == [chunk : Addr, real_pc : Addr, kind : Kinds, size : {1, 2},
           exc : BOOLEAN, taken : BOOLEAN, next_pc : Addr, obj : Ages]

(* The fields EXE, MEM and WB read: what the instruction does there (an    *)
(* alu or mem instruction may take its time, a branch that "redirects" was *)
(* mispredicted, one with an exception redirects at WB), real_target for   *)
(* those that redirect, and, for the properties, whether it has executed.  *)
BackKinds == {"alu", "quick", "mem", "ifence", "redirects", "exc"}
BackInst == [kind : BackKinds, target : Addr, done : BOOLEAN, obj : Ages]

ASSUME NoInstAssumption == NoInst \notin IdInst \cup BackInst

(* An Inst handed out for the chunk at a; nothing is decoded yet.  The     *)
(* fields it is given here are not read before they are written.           *)
FreshInst(a) ==
  [chunk |-> a, real_pc |-> 0, kind |-> "quick", size |-> 1,
   exc |-> FALSE, taken |-> FALSE, next_pc |-> 0,
   obj |-> [ring |-> "req", age |-> 0]]

(* What is read of id_inst once EXE has it: its chunk and its exception,   *)
(* by the copy preId makes for the next instruction of the chunk.          *)
Spent(inst) == [FreshInst(inst.chunk) EXCEPT !.exc = inst.exc, !.obj = inst.obj]

(* One more object of a ring has been handed out. *)
Older(inst, ring) ==
  IF inst # NoInst /\ inst.obj.ring = ring /\ inst.obj.age < RetireSize
    THEN [inst EXCEPT !.obj.age = @ + 1] ELSE inst

Init ==
  /\ CacheInit
  /\ phase = "memory"
  /\ pc = 0 /\ pred_pc = 0
  /\ fetch_valid = FALSE /\ cache_reqs = <<>>
  /\ id_valid = FALSE /\ id_inst = NoInst /\ id_remain_size = 0
  /\ id_stall_valid = FALSE /\ id_stall_dec_more = FALSE
  /\ id_stall_inst_valid = FALSE /\ id_stall_inst = NoInst
  /\ id_wait_redirect = FALSE
  /\ exe_inst = NoInst /\ exe_end = FALSE
  /\ mem_inst = NoInst /\ wb_inst = NoInst

-----------------------------------------------------------------------------
(* The redirects: what they do to the front end (the ICache part is        *)
(* ICache!Redirect, or is done by the handler that called back).           *)

ClearStall ==
  /\ id_stall_valid' = FALSE /\ id_stall_dec_more' = FALSE
  /\ id_stall_inst_valid' = FALSE
  /\ UNCHANGED id_stall_inst

(* Faults: a redirect from the back end keeps the half words counted, or   *)
(* goes on waiting for a redirect.                                         *)
ClearIdNotSize ==
  id_valid' = FALSE /\ id_wait_redirect' = FALSE /\ UNCHANGED id_remain_size
ClearIdNotWait ==
  id_valid' = FALSE /\ id_remain_size' = 0 /\ UNCHANGED id_wait_redirect

ClearId == id_valid' = FALSE /\ id_remain_size' = 0 /\ id_wait_redirect' = FALSE

RefetchFrom(a) ==
  /\ pred_pc' = a
  /\ fetch_valid' = FALSE
  /\ cache_reqs' = <<>>

-----------------------------------------------------------------------------
(* preId: what is at pc is decoded into base, the Inst it will use.        *)

(* The outcomes of translateAddr, decode and predict.  A branch taken by   *)
(* prediction goes to next_pc; a jump and a direct branch always do.  An   *)
(* interrupt, and an exception that decode finds, leave the type alone: a  *)
(* branch that traps is predicted, and redirects if it is taken.           *)
Decodes ==
  {d \in [fault : BOOLEAN, exc : BOOLEAN, kind : Kinds, size : {1, 2},
          taken : BOOLEAN, next_pc : Targets] :
     /\ d.kind \in {"direct", "jump"} => d.taken
     /\ d.kind \notin {"direct", "jump", "cond"} => ~d.taken
     /\ ~d.taken => d.next_pc = CHOOSE t \in Targets : TRUE
     /\ d.fault => ~d.exc
     /\ d.fault => d.kind = "quick" /\ d.size = 1}

(* Whether preId takes the Inst of the chunk or one of id_extra_insts,     *)
(* copied from id_inst (its exception too).                                *)
NewChunk == id_remain_size <= 0
Base(inst) ==
  IF NewChunk THEN inst ELSE [id_inst EXCEPT !.obj = [ring |-> "extra", age |-> 0]]

(* No decode: pc cannot be translated, or the copied exception says so.    *)
Faults(inst, d) == d.fault \/ Base(inst).exc
Redirects(inst, d) == ~Faults(inst, d) /\ d.taken

(* What id_inst becomes.  An instruction with an exception keeps its type  *)
(* and its prediction in the code, but once preId has counted its size and *)
(* followed its prediction nobody reads them: updateEnv, ID, EXE and MEM   *)
(* look at the exception first.                                            *)
Decoded(inst, d) ==
  IF Faults(inst, d) \/ d.exc THEN [Base(inst) EXCEPT !.exc = TRUE]
  ELSE [Base(inst) EXCEPT !.real_pc = pc, !.kind = d.kind, !.size = d.size, !.exc = FALSE,
          !.taken = d.taken, !.next_pc = IF d.taken THEN d.next_pc ELSE Plus(pc, d.size)]

(* Fault: the part of an instruction that lies in the next chunk is        *)
(* forgotten.                                                              *)
RemainFromZero(inst, d) ==
  LET before == IF NewChunk THEN ChunkSize ELSE id_remain_size
  IN  IF Redirects(inst, d) THEN 0
      ELSE IF Faults(inst, d) THEN before ELSE before - d.size

RemainAfter(inst, d) ==
  LET before == IF NewChunk THEN id_remain_size + ChunkSize ELSE id_remain_size
  IN  IF Redirects(inst, d) THEN 0
      ELSE IF Faults(inst, d) THEN before ELSE before - d.size

(* Fault: a chunk with nothing left is not finished. *)
FinishedLate(inst, d) == Faults(inst, d) \/ RemainAfter(inst, d) < 0

Finished(inst, d) == Faults(inst, d) \/ RemainAfter(inst, d) <= 0

(* preId proper; the rings age when it takes an extra Inst. *)
AgeAll(ring) ==
  /\ exe_inst' = Older(exe_inst, ring)
  /\ mem_inst' = Older(mem_inst, ring)
  /\ wb_inst' = Older(wb_inst, ring)

PreId(inst, d) ==
  /\ id_inst' = Decoded(inst, d)
  /\ id_remain_size' = RemainAfter(inst, d)
  /\ IF NewChunk THEN UNCHANGED <<exe_inst, mem_inst, wb_inst>> ELSE AgeAll("extra")

-----------------------------------------------------------------------------
(* The callback PipelineCPU::afterLoad registers with the ICache.          *)
Callback(d) ==
  LET inst == Head(cache_reqs) IN
    IF ~id_valid
      THEN /\ id_valid' = TRUE
           /\ PreId(inst, d)
           /\ id_stall_valid' = ~Finished(inst, d)
           /\ id_stall_dec_more' = ~Finished(inst, d)
           /\ IF Redirects(inst, d)
                THEN /\ RefetchFrom(d.next_pc)
                     /\ id_stall_inst_valid' = FALSE
                ELSE /\ cache_reqs' = Tail(cache_reqs)
                     /\ UNCHANGED <<pred_pc, fetch_valid, id_stall_inst_valid>>
           /\ UNCHANGED <<id_stall_inst, exe_end>>
      ELSE /\ id_stall_valid' = TRUE /\ id_stall_inst_valid' = TRUE
           /\ id_stall_inst' = inst
           /\ cache_reqs' = Tail(cache_reqs)
           /\ UNCHANGED <<id_valid, id_inst, id_remain_size, id_stall_dec_more,
                          pred_pc, fetch_valid, backVars>>

(* What the callback tells the ICache. *)
CallbackRedirects(d) == ~id_valid /\ Redirects(Head(cache_reqs), d)

MemoryResponse ==
  /\ phase = "memory"
  /\ IF ResponseAnswers
       THEN \E d \in Decodes : Callback(d) /\ Response(CallbackRedirects(d))
       ELSE Response(FALSE) /\ UNCHANGED <<pred_pc, fetch_valid, cache_reqs, id_valid,
              id_inst, id_remain_size, stallVars, backVars>>
  /\ phase' = "icache"
  /\ UNCHANGED <<pc, id_wait_redirect>>

MemoryQuiet ==
  /\ phase = "memory"
  /\ phase' = "icache"
  /\ UNCHANGED <<cacheVars, fetchVars, idVars, backVars>>

ICacheTick ==
  /\ phase = "icache"
  /\ IF TickAnswers
       THEN \E d \in Decodes : Callback(d) /\ Tick(CallbackRedirects(d))
       ELSE Tick(FALSE) /\ UNCHANGED <<pred_pc, fetch_valid, cache_reqs, id_valid,
              id_inst, id_remain_size, stallVars, backVars>>
  /\ phase' = "wb"
  /\ UNCHANGED <<pc, id_wait_redirect>>

-----------------------------------------------------------------------------
(* WB, MEM *)

WbRetire ==
  /\ phase = "wb"
  /\ wb_inst # NoInst => wb_inst.kind # "exc"
  /\ wb_inst' = NoInst
  /\ phase' = "mem"
  /\ UNCHANGED <<cacheVars, fetchVars, idVars, exe_inst, exe_end, mem_inst>>

(* PipelineCPU::excRedirect *)
ExcRedirect ==
  /\ phase = "wb"
  /\ wb_inst # NoInst /\ wb_inst.kind = "exc"
  /\ wb_inst' = NoInst /\ mem_inst' = NoInst /\ exe_inst' = NoInst
  /\ exe_end' = FALSE
  /\ ClearId /\ ClearStall
  /\ RefetchFrom(wb_inst.target)
  /\ Redirect
  /\ phase' = "mem"
  /\ UNCHANGED <<pc, id_inst>>

(* What is read of an instruction in MEM: whether it waits for an access,   *)
(* and its exception; in WB only that.                                     *)
PastExe(inst) ==
  IF inst.kind \in {"mem", "exc"} THEN inst ELSE [inst EXCEPT !.kind = "quick", !.target = 0]
PastMem(inst) == IF inst.kind = "exc" THEN inst ELSE [inst EXCEPT !.kind = "quick"]

(* Only a memory instruction without an exception waits in MEM. *)
MemToWb ==
  /\ phase = "mem" /\ mem_inst # NoInst
  /\ wb_inst' = PastMem(mem_inst) /\ mem_inst' = NoInst
  /\ phase' = "exe"
  /\ UNCHANGED <<cacheVars, fetchVars, idVars, exe_inst, exe_end>>

MemWait ==
  /\ phase = "mem"
  /\ mem_inst # NoInst => mem_inst.kind = "mem"
  /\ phase' = "exe"
  /\ UNCHANGED <<cacheVars, fetchVars, idVars, backVars>>

-----------------------------------------------------------------------------
(* EXE *)

InExe(kinds) ==
  /\ phase = "exe"
  /\ exe_inst # NoInst /\ ~exe_end
  /\ exe_inst.kind \in kinds

ExeIdle ==
  /\ phase = "exe"
  /\ exe_inst = NoInst \/ exe_end
  /\ phase' = "move"
  /\ UNCHANGED <<cacheVars, fetchVars, idVars, backVars>>

(* A multi-cycle operation, or a lookup the DCache refuses. *)
ExeStay ==
  /\ InExe({"alu", "mem"})
  /\ phase' = "move"
  /\ UNCHANGED <<cacheVars, fetchVars, idVars, backVars>>

ExePass ==
  /\ InExe({"alu", "quick", "mem", "exc"})
  /\ exe_end' = TRUE
  /\ phase' = "move"
  /\ UNCHANGED <<cacheVars, fetchVars, idVars, exe_inst, mem_inst, wb_inst>>

(* Arch::flushCache(0) *)
ExeIfence ==
  /\ InExe({"ifence"})
  /\ Flush
  /\ exe_end' = TRUE
  /\ phase' = "move"
  /\ UNCHANGED <<fetchVars, idVars, exe_inst, mem_inst, wb_inst>>

(* PipelineCPU::brRedirect *)
BrRedirect ==
  /\ InExe({"redirects"})
  /\ exe_end' = TRUE
  /\ ClearId /\ ClearStall
  /\ RefetchFrom(exe_inst.target)
  /\ Redirect
  /\ phase' = "move"
  /\ UNCHANGED <<pc, id_inst, exe_inst, mem_inst, wb_inst>>

MoveToMem ==
  /\ phase = "move"
  /\ exe_inst # NoInst /\ exe_end /\ mem_inst = NoInst
  /\ mem_inst' = PastExe(exe_inst) /\ exe_inst' = NoInst /\ exe_end' = FALSE
  /\ phase' = "id"
  /\ UNCHANGED <<cacheVars, fetchVars, idVars, wb_inst>>

MoveWait ==
  /\ phase = "move"
  /\ ~(exe_inst # NoInst /\ exe_end /\ mem_inst = NoInst)
  /\ phase' = "id"
  /\ UNCHANGED <<cacheVars, fetchVars, idVars, backVars>>

-----------------------------------------------------------------------------
(* ID -> EXE *)

(* Where Arch::updateEnv says the program goes on after inst: a trap and a *)
(* jump go anywhere, a branch to where it was predicted taken or, not      *)
(* predicted taken, anywhere; the rest falls through.                      *)
Successors(inst) ==
  IF inst.exc \/ inst.kind = "jump" THEN Targets
  ELSE IF inst.kind = "direct" THEN {inst.next_pc}
  ELSE {Plus(inst.real_pc, inst.size)} \cup
       (IF inst.kind # "cond" THEN {}
        ELSE IF inst.taken THEN {inst.next_pc} ELSE Targets)

(* pred_error or ~target_eq.  A branch to its own fall-through may be      *)
(* mispredicted all the same.                                              *)
PredFails(inst, real) ==
  {real # inst.next_pc}
  \cup (IF inst.kind = "cond" /\ real \in Targets /\ real = Plus(inst.real_pc, inst.size)
          THEN {TRUE} ELSE {})

(* What goes to EXE.  A branch carries its misprediction. *)
BackOf(inst, target, fail, done) ==
  LET kind == IF inst.exc THEN "exc"
              ELSE IF inst.kind \in {"cond", "jump"} /\ fail THEN "redirects"
              ELSE IF inst.kind \in {"alu", "mem", "ifence"} THEN inst.kind
              ELSE "quick"
  IN  [kind |-> kind, done |-> done, obj |-> inst.obj,
       target |-> IF kind \in {"redirects", "exc"} THEN target ELSE 0]

CanHandOver == phase = "id" /\ id_valid /\ exe_inst = NoInst

(* Fault: only a mispredicted branch is waited for. *)
WaitsForBranch(inst) == inst.kind = "redirects"

WaitsForRedirect(inst) == inst.kind \in {"redirects", "exc"}

(* The instruction executes; it may have to wait for a redirect. *)
HandOver(real, fail) ==
  /\ CanHandOver /\ ~id_wait_redirect
  /\ real \in Successors(id_inst)
  /\ fail \in PredFails(id_inst, real)
  /\ pc' = real
  /\ exe_inst' = BackOf(id_inst, real, fail, TRUE)
  /\ id_inst' = Spent(id_inst)
  /\ id_valid' = FALSE
  /\ id_wait_redirect' = WaitsForRedirect(exe_inst')
  /\ IF ~id_inst.exc /\ id_inst.kind = "satp"
       THEN /\ ClearStall /\ id_remain_size' = 0
            /\ RefetchFrom(real)
            /\ Redirect
       ELSE UNCHANGED <<stallVars, id_remain_size, pred_pc, fetch_valid,
                        cache_reqs, cacheVars>>
  /\ phase' = "stall"
  /\ UNCHANGED <<exe_end, mem_inst, wb_inst>>

(* A wrong-path instruction passes without executing.  A branch resolves   *)
(* all the same, against what its Inst held in real_target before.         *)
HandOverWrongPath(target, fail) ==
  /\ CanHandOver /\ id_wait_redirect
  /\ exe_inst' = BackOf(id_inst, target, fail, FALSE)
  /\ id_inst' = Spent(id_inst)
  /\ id_valid' = FALSE
  /\ phase' = "stall"
  /\ UNCHANGED <<cacheVars, fetchVars, id_remain_size, stallVars,
                 id_wait_redirect, exe_end, mem_inst, wb_inst>>

NoHandOver ==
  /\ phase = "id" /\ (~id_valid \/ exe_inst # NoInst)
  /\ phase' = "stall"
  /\ UNCHANGED <<cacheVars, fetchVars, idVars, backVars>>

-----------------------------------------------------------------------------
(* The rest of a chunk, or the instruction that came while ID was taken.   *)
StallStep(d) ==
  LET inst == id_stall_inst
      finish == Finished(inst, d)
      redirected == Redirects(inst, d)
      decMore == id_stall_dec_more /\ ~redirected
      instValid == id_stall_inst_valid /\ ~redirected
  IN
    /\ phase = "stall" /\ ~id_valid /\ id_stall_valid
    /\ PreId(inst, d)
    /\ id_valid' = TRUE
    /\ id_stall_dec_more' = (decMore /\ ~finish)
    /\ id_stall_inst_valid' = (instValid /\ (decMore \/ ~finish))
    /\ id_stall_valid' = IF decMore THEN ~(finish /\ ~instValid)
                         ELSE IF instValid THEN ~finish
                         ELSE ~redirected
    /\ IF redirected
         THEN RefetchFrom(d.next_pc) /\ Redirect
         ELSE UNCHANGED <<pred_pc, fetch_valid, cache_reqs, cacheVars>>
    /\ phase' = "fetch"
    /\ UNCHANGED <<pc, id_stall_inst, id_wait_redirect, exe_end>>

NoStall ==
  /\ phase = "stall" /\ (id_valid \/ ~id_stall_valid)
  /\ phase' = "fetch"
  /\ UNCHANGED <<cacheVars, fetchVars, idVars, backVars>>

-----------------------------------------------------------------------------
(* FETCH: the prepared request is sent, unless its address cannot be       *)
(* translated; then the next one is prepared.  Preparing takes an Inst.    *)

Prepared == cache_reqs[Len(cache_reqs)]

Prepare(reqs, aged) ==
  /\ cache_reqs' = Append([i \in DOMAIN reqs |-> Older(reqs[i], "req")],
                          FreshInst(pred_pc))
  /\ pred_pc' = Plus(pred_pc, ChunkSize)
  /\ fetch_valid' = TRUE
  /\ AgeAll("req")
  /\ id_inst' = Older(aged, "req")

FetchSend ==
  /\ phase = "fetch" /\ fetch_valid /\ ~id_valid /\ ~Prepared.exc
  /\ Accept(LineOf(Prepared.chunk))
  /\ Prepare(cache_reqs, id_inst)
  /\ phase' = "memory"
  /\ UNCHANGED <<pc, id_valid, id_remain_size, stallVars, id_wait_redirect, exe_end>>

(* Fault: a refused request is given up and the next one prepared. *)
RefusedSkips ==
  /\ phase = "fetch" /\ fetch_valid /\ ~id_valid /\ ~Prepared.exc
  /\ ~CanAccept
  /\ Prepare(SubSeq(cache_reqs, 1, Len(cache_reqs) - 1), id_inst)
  /\ phase' = "memory"
  /\ UNCHANGED <<cacheVars, pc, id_valid, id_remain_size, stallVars,
                 id_wait_redirect, exe_end>>

FetchRefused ==
  /\ phase = "fetch" /\ fetch_valid /\ ~id_valid /\ ~Prepared.exc
  /\ ~CanAccept
  /\ phase' = "memory"
  /\ UNCHANGED <<cacheVars, fetchVars, idVars, backVars>>

(* A page fault goes to ID when nothing older is on its way there. *)
OnlyPrepared == Len(cache_reqs) = 1 /\ ~id_stall_valid

FetchFault ==
  /\ phase = "fetch" /\ fetch_valid /\ ~id_valid
  /\ OnlyPrepared
  /\ id_valid' = TRUE
  /\ id_remain_size' = id_remain_size + ChunkSize
  /\ Prepare(<<>>, [Prepared EXCEPT !.exc = TRUE])
  /\ phase' = "memory"
  /\ UNCHANGED <<cacheVars, pc, stallVars, id_wait_redirect, exe_end>>

FetchFaultWaits ==
  /\ phase = "fetch" /\ fetch_valid /\ ~id_valid
  /\ ~OnlyPrepared
  /\ cache_reqs' = [cache_reqs EXCEPT ![Len(cache_reqs)].exc = TRUE]
  /\ phase' = "memory"
  /\ UNCHANGED <<cacheVars, pc, pred_pc, fetch_valid, idVars, backVars>>

FetchBusy ==
  /\ phase = "fetch" /\ fetch_valid /\ id_valid
  /\ phase' = "memory"
  /\ UNCHANGED <<cacheVars, fetchVars, idVars, backVars>>

FetchPrepare ==
  /\ phase = "fetch" /\ ~fetch_valid
  /\ Prepare(cache_reqs, id_inst)
  /\ phase' = "memory"
  /\ UNCHANGED <<cacheVars, pc, id_valid, id_remain_size, stallVars,
                 id_wait_redirect, exe_end>>

-----------------------------------------------------------------------------
Next ==
  \/ MemoryResponse \/ MemoryQuiet \/ ICacheTick
  \/ WbRetire \/ ExcRedirect \/ MemToWb \/ MemWait
  \/ ExeIdle \/ ExeStay \/ ExePass \/ ExeIfence \/ BrRedirect
  \/ MoveToMem \/ MoveWait
  \/ \E a \in Addr, fail \in BOOLEAN : HandOver(a, fail)
  \/ \E a \in Targets, fail \in BOOLEAN : HandOverWrongPath(a, fail)
  \/ NoHandOver
  \/ \E d \in Decodes : StallStep(d)
  \/ NoStall
  \/ FetchSend \/ FetchRefused \/ FetchFault \/ FetchFaultWaits
  \/ FetchBusy \/ FetchPrepare

Spec == Init /\ [][Next]_vars

(* EMU::run goes on for ever; the memory accepts a request that is asked   *)
(* again and again and answers it.  The counter of a multi-cycle operation *)
(* runs out in EXE, and the data side, unless it is wedged, takes an       *)
(* access and answers it (DataSide!AccessEnds).                            *)
Fairness ==
  /\ WF_vars(Next)
  /\ SF_vars(MemoryResponse)
  /\ SF_vars(phase = "icache" /\ SendMiss /\ ICacheTick)
  /\ SF_vars(ExePass)
  /\ SF_vars(MemToWb)

FairSpec == Spec /\ Fairness

-----------------------------------------------------------------------------
(* Properties *)

(* Every variable stays in its range; id_remain_size does not run away,    *)
(* though fetch faults behind a misprediction add to it (FetchFault).      *)
TypeOK ==
  /\ phase \in Phases
  /\ CacheTypeOK
  /\ pc \in Addr /\ pred_pc \in Addr /\ fetch_valid \in BOOLEAN
  /\ cache_reqs \in Seq(IdInst)
  /\ id_valid \in BOOLEAN /\ id_inst \in IdInst \cup {NoInst}
  /\ id_remain_size \in -1 .. 4 * ChunkSize
  /\ id_stall_valid \in BOOLEAN /\ id_stall_dec_more \in BOOLEAN
  /\ id_stall_inst_valid \in BOOLEAN /\ id_wait_redirect \in BOOLEAN
  /\ id_stall_inst \in IdInst \cup {NoInst}
  /\ {exe_inst, mem_inst, wb_inst} \subseteq BackInst \cup {NoInst}
  /\ exe_end \in BOOLEAN

(* The check of exec() that ends the simulation with "ID stage PC changed  *)
(* ... without redirect" never fires: what ID is about to execute is the   *)
(* instruction at the functional pc, and that address is inside the chunk  *)
(* fetched for it.  This is what keeps fetch and function in step through  *)
(* predictions, redirects, stalls and half-fetched instructions.           *)
FetchInStep ==
  id_valid /\ ~id_wait_redirect =>
    /\ InChunk(pc, id_inst.chunk)
    /\ ~id_inst.exc => id_inst.real_pc = pc

(* Function never runs ahead of a redirect: behind an instruction that     *)
(* will redirect, none in the pipeline has executed, so that what          *)
(* excRedirect and brRedirect drop need not be undone.                     *)
Stages == <<wb_inst, mem_inst, exe_inst>>
WillRedirect(i) ==
  /\ Stages[i] # NoInst
  /\ \/ Stages[i].kind = "exc"
     \/ Stages[i].kind = "redirects" /\ i = 3 /\ ~exe_end
NothingExecutedBehind ==
  \A i, j \in 1 .. 3 :
    i < j /\ WillRedirect(i) /\ Stages[j] # NoInst => ~Stages[j].done

(* id_wait_redirect is set only while the redirect that clears it is       *)
(* coming: an executed instruction with an exception or a misprediction is *)
(* in EXE, MEM or WB ("id wait redirect for 5000 cycle" never happens).    *)
RedirectIsComing ==
  id_wait_redirect => \E i \in 1 .. 3 : WillRedirect(i) /\ Stages[i].done

(* The ICache calls back only when ID is free, with the request it was     *)
(* given last: the callback's branch for a busy ID, which would keep one   *)
(* instruction only, is never taken, and the entry it pops is the answered *)
(* one.                                                                    *)
Sent == IF fetch_valid THEN SubSeq(cache_reqs, 1, Len(cache_reqs) - 1) ELSE cache_reqs
AnswersInOrder ==
  /\ Unanswered = [i \in DOMAIN Sent |-> LineOf(Sent[i].chunk)]
  /\ Sent # <<>> => ~id_valid /\ ~id_stall_valid

(* The stalled instruction comes out of the chunk ID is decoding: preId is *)
(* not called with id_stall_inst, which nothing has set.                   *)
StallHasRest ==
  id_stall_valid => id_stall_dec_more /\ id_remain_size > 0

(* No Inst is handed out again while a stage still uses it: the rings have *)
(* no check of their own.                                                  *)
InUse == {exe_inst, mem_inst, wb_inst, IF id_valid THEN id_inst ELSE NoInst} \ {NoInst}
NoInstReused == \A inst \in InUse : inst.obj.age < RetireSize

(* A response is swallowed only if one is due: a redirect never finds the  *)
(* ICache in REFILL except from its own callback, because no request is at *)
(* the parent when a fence.i starts the flush that would keep it there.    *)
RedirectResets == req_clear_wait => owed # <<>>

(* Towards its memory the ICache is a caller with one read out at most,    *)
(* and every response is to a read that is out.                            *)
Parent == INSTANCE ReadPort WITH Callers <- {"icache"},
                                 out <- [c \in {"icache"} |-> Len(owed)]
ImplementsParent == Parent!Spec

(* The program goes on: an instruction executes and goes to EXE again and  *)
(* again, whatever is mispredicted, flushed, faulted, interrupted or       *)
(* redirected.  Without it WB has nothing to retire, and exec() ends the   *)
(* simulation after 5000 ticks ("WB stage stalled").                       *)
Executes == \E a \in Addr, fail \in BOOLEAN : HandOver(a, fail)
InstsKeepExecuting == []<><<Executes>>_vars

=============================================================================
