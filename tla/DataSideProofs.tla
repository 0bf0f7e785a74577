--------------------------- MODULE DataSideProofs ---------------------------
(***************************************************************************)
(* Proofs about DataSide for every line set, cache geometry, ring length   *)
(* and delay: the type invariant, the three invariants that relate the     *)
(* DCache to its callers, that the data side implements MemoryPort and     *)
(* asks of its parent what ReadPort allows, and exactly when the two       *)
(* hazards of the violation runs bite: which redirects leave the DCache    *)
(* waiting, and which accesses retire early.                               *)
(*                                                                         *)
(* The conjunction IInv of the four invariants is inductive.  None of them *)
(* is inductive alone: a response may only be typed because one is owed,   *)
(* it may only be attributed because one is owed at most, and no request   *)
(* is lost only because an accepted one is looked up before anything else  *)
(* can happen to the cache.                                                *)
(***************************************************************************)
EXTENDS DataSide, CacheLemmas

IInv == TypeOK /\ NoRequestLost /\ OneOutstanding /\ LookedUpNextTick

-----------------------------------------------------------------------------
(* The handlers of DCache keep its variables typed.                        *)

(* DCache::lookup *)
LEMMA AcceptType ==
  ASSUME CacheTypeOK(Ids), NEW req \in CacheReq(Ids), Accept(req)
  PROVE  CacheTypeOK(Ids)'
  BY DEF CacheTypeOK, Accept

(* DCache::flush *)
LEMMA FlushType ==
  ASSUME CacheTypeOK(Ids), Flush
  PROVE  CacheTypeOK(Ids)'
  BY CacheAssumption DEF CacheTypeOK, Flush

(* DCache::redirect *)
LEMMA RedirectType ==
  ASSUME CacheTypeOK(Ids), Redirect
  PROVE  CacheTypeOK(Ids)'
  BY DEF CacheTypeOK, Redirect, CacheStates

(* DCache::tick *)
LEMMA TickType ==
  ASSUME CacheTypeOK(Ids), Tick
  PROVE  CacheTypeOK(Ids)'
<1>1. CASE FlushTick
  <2>1. SetSize - flush_num \in Sets /\ flush_num' \in 0 .. SetSize
    BY <1>1, CacheAssumption DEF FlushTick, CacheTypeOK, flush_valid, Sets
  <2>2. tagvs' \in TagArray
    BY <1>1, <2>1, ClearSetType DEF FlushTick, CacheTypeOK
  <2> QED
    BY <1>1, <2>1, <2>2 DEF FlushTick, CacheTypeOK
<1>2. CASE LookupTick
  BY <1>2 DEF LookupTick, TakesIdleReq, HandleIdleReq, CacheTypeOK, CacheStates,
              Present
<1>3. CASE SendMiss
  <2>1. lookup_req \in CacheReq(Ids) /\ lookup_req.line \in Lines
    BY <1>3 DEF SendMiss, CanSendMiss, CacheTypeOK, CacheReq
  <2>2. replace_way' \in Ways /\ lru' \in VictimLists
    BY <1>3, <2>1, SetOfInRange, VictimType DEF SendMiss, CacheTypeOK
  <2>3. owed' \in Seq(CacheReq(Ids))
    BY <1>3, <2>1 DEF SendMiss, CacheTypeOK
  <2> QED
    BY <1>3, <2>1, <2>2, <2>3, NoReqAssumption DEF SendMiss, CacheTypeOK, CacheStates
<1>4. CASE StepTick
  BY <1>4 DEF StepTick, NextState, CacheTypeOK, CacheStates
<1>5. CASE UNCHANGED cacheVars
  BY <1>5 DEF cacheVars, CacheTypeOK
<1> QED
  BY <1>1, <1>2, <1>3, <1>4, <1>5
     DEF Tick, ParentRefuses, WaitClearTick, RestTick

(* The parent's callback *)
LEMMA ResponseType ==
  ASSUME CacheTypeOK(Ids), Response
  PROVE  CacheTypeOK(Ids)'
<1>1. lookup_req \in CacheReq(Ids) /\ lookup_req.line \in Lines
  BY DEF Response, CacheTypeOK, CacheReq
<1>2. tagvs' \in TagArray
  BY <1>1, InstallType DEF Response, Fill, CacheTypeOK
<1>3. owed' \in Seq(CacheReq(Ids))
  BY DEF Response, CacheTypeOK
<1> QED
  BY <1>1, <1>2, <1>3, NoReqAssumption DEF Response, CacheTypeOK, CacheStates

(* The next slot of the request ring is a slot of it.                      *)
LEMMA NextSlotType ==
  ASSUME NEW i \in Ids
  PROVE  NextSlot(i) \in Ids
  BY DataSideAssumption DEF NextSlot, Ids

-----------------------------------------------------------------------------
(* The inductive step, one lemma per group of actions.                     *)

(* Sequences of at most one element, which is all the request ring and the *)
(* parent's queue ever hold: Head, Tail, Append and concatenation of them. *)
LEMMA SingletonSeq ==
  ASSUME NEW x, NEW S, x \in S
  PROVE  /\ <<x>> \in Seq(S) /\ <<x>> # <<>>
         /\ Len(<<x>>) = 1
         /\ Head(<<x>>) = x /\ Tail(<<x>>) = <<>>
         /\ <<x>> \o <<>> = <<x>> /\ <<>> \o <<x>> = <<x>>
         /\ Append(<<>>, x) = <<x>>
         /\ <<>> \o <<>> = <<>>
  OBVIOUS

(* A sequence of length at most one is empty or a singleton: the form in   *)
(* which OneOutstanding gives the parent's queue to the handlers.          *)
LEMMA LenOneSeq ==
  ASSUME NEW S, NEW q \in Seq(S), q # <<>>, Len(q) <= 1
  PROVE  Len(q) = 1 /\ Tail(q) = <<>>
<1>1. Len(q) = 1
  <2>1. Len(q) \in Nat \ {0}
    BY EmptySeq, Zenon
  <2> QED
    BY <2>1
<1>2. Tail(q) \in Seq(S) /\ Len(Tail(q)) = Len(q) - 1
  OBVIOUS
<1>3. Len(Tail(q)) = 0
  BY <1>1, <1>2
<1> QED
  BY <1>1, <1>2, <1>3, EmptySeq

(* What Unanswered is in the situations the handlers meet.                 *)
LEMMA UnansweredCases ==
  ASSUME CacheTypeOK(Ids), LookedUpNextTick
  PROVE  /\ idle_req # NoReq =>
              Unanswered = <<idle_req.id>> /\ idle_req.id \in Ids
         /\ idle_req = NoReq /\ (state = "MISS" \/ (state = "LOOKUP" /\ ~match)) =>
              Unanswered = <<lookup_req.id>> /\ lookup_req.id \in Ids
         /\ idle_req = NoReq /\ state # "MISS" /\ ~(state = "LOOKUP" /\ ~match) =>
              Unanswered = <<>>
<1>1. CASE idle_req # NoReq
  <2>1. idle_req.id \in Ids
    BY <1>1 DEF CacheTypeOK, CacheReq
  <2>2. state # "MISS" /\ ~(state = "LOOKUP" /\ ~match)
    BY <1>1 DEF LookedUpNextTick, TakesIdleReq
  <2> QED
    BY <1>1, <2>1, <2>2, SingletonSeq DEF Unanswered
<1>2. CASE idle_req = NoReq /\ (state = "MISS" \/ (state = "LOOKUP" /\ ~match))
  <2>1. lookup_req.id \in Ids
    BY <1>2 DEF CacheTypeOK, CacheReq
  <2> QED
    BY <1>2, <2>1, SingletonSeq DEF Unanswered
<1>3. CASE idle_req = NoReq /\ state # "MISS" /\ ~(state = "LOOKUP" /\ ~match)
  BY <1>3 DEF Unanswered
<1> QED
  BY <1>1, <1>2, <1>3

(* A stage that leaves the cache and the ring alone keeps the invariants   *)
(* that relate the two, if the phase it ends in may hold a waiting request.*)
LEMMA StageKeeps ==
  ASSUME NoRequestLost, OneOutstanding, LookedUpNextTick,
         UNCHANGED cacheVars, UNCHANGED pending,
         idle_req # NoReq => phase' \in {"move", "issue", "memory", "dcache"}
  PROVE  NoRequestLost' /\ OneOutstanding' /\ LookedUpNextTick'
<1>1. NoRequestLost'
  BY DEF NoRequestLost, Unanswered, cacheVars
<1>2. OneOutstanding'
  BY DEF OneOutstanding, cacheVars
<1>3. LookedUpNextTick'
  BY DEF LookedUpNextTick, TakesIdleReq, flush_valid, cacheVars
<1> QED
  BY <1>1, <1>2, <1>3

(* Memory::tick *)
LEMMA MemoryStep ==
  ASSUME IInv, MemoryResponse \/ MemoryQuiet
  PROVE  IInv'
<1> USE DEF IInv
<1>1. CASE MemoryQuiet
  <2>1. TypeOK'
    BY <1>1 DEF MemoryQuiet, TypeOK, CacheTypeOK, StagesTypeOK, ListsTypeOK,
                cacheVars, stageVars, listVars, Phases
  <2>2. NoRequestLost' /\ OneOutstanding' /\ LookedUpNextTick'
    BY <1>1, StageKeeps DEF MemoryQuiet, listVars
  <2> QED
    BY <2>1, <2>2
<1>2. CASE MemoryResponse
  <2>1. CacheTypeOK(Ids)'
    BY <1>2, ResponseType DEF MemoryResponse, TypeOK
  <2>2. owed # <<>> /\ lookup_req \in CacheReq(Ids) /\ lookup_req.id \in Ids
    BY <1>2 DEF MemoryResponse, Response, TypeOK, CacheTypeOK, CacheReq
  <2>3. Len(owed) = 1 /\ owed' = <<>>
    <3>1. owed \in Seq(CacheReq(Ids)) /\ Len(owed) <= 1 /\ owed # <<>>
      BY <2>2 DEF TypeOK, CacheTypeOK, OneOutstanding
    <3>2. Len(owed) = 1 /\ Tail(owed) = <<>>
      BY <3>1, LenOneSeq
    <3> QED
      BY <1>2, <3>2 DEF MemoryResponse, Response
  <2>4. CASE req_clear_wait
    <3>1. UNCHANGED <<state, idle_req, lookup_req, match, flush_num, pending,
                      mem_end_map>>
      BY <1>2, <2>4 DEF MemoryResponse, Response, ResponseAnswers
    <3>2. TypeOK'
      BY <1>2, <2>1, <3>1
         DEF MemoryResponse, TypeOK, StagesTypeOK, ListsTypeOK, stageVars, Phases
    <3>3. NoRequestLost'
      BY <3>1 DEF NoRequestLost, Unanswered
    <3>4. OneOutstanding'
      BY <2>3, <2>4, <3>1 DEF OneOutstanding
    <3>5. LookedUpNextTick'
      BY <1>2, <3>1 DEF MemoryResponse, LookedUpNextTick, TakesIdleReq, flush_valid
    <3> QED
      BY <3>2, <3>3, <3>4, <3>5
  <2>5. CASE ~req_clear_wait
    <3>1. state = "MISS" /\ idle_req = NoReq
      BY <2>2, <2>5 DEF OneOutstanding, LookedUpNextTick, TakesIdleReq
    <3>2. pending = <<lookup_req.id>>
      BY <3>1, UnansweredCases DEF TypeOK, NoRequestLost
    <3>3. pending' = <<>> /\ mem_end_map' = [mem_end_map EXCEPT ![lookup_req.id] = TRUE]
      BY <1>2, <2>2, <2>5, <3>2, SingletonSeq
         DEF MemoryResponse, ResponseAnswers, MemCallback
    <3>4. state' = "REFILL" /\ idle_req' = NoReq
      BY <1>2, <2>5, <3>1 DEF MemoryResponse, Response
    <3>5. TypeOK'
      <4>1. mem_end_map' \in [Ids -> BOOLEAN] /\ pending' \in Seq(Ids)
        BY <2>2, <3>3 DEF TypeOK, ListsTypeOK
      <4> QED
        BY <1>2, <2>1, <4>1
           DEF MemoryResponse, TypeOK, StagesTypeOK, ListsTypeOK, stageVars, Phases
    <3>6. NoRequestLost'
      BY <3>3, <3>4 DEF NoRequestLost, Unanswered
    <3>7. OneOutstanding' /\ LookedUpNextTick'
      BY <2>3, <3>4 DEF OneOutstanding, LookedUpNextTick
    <3> QED
      BY <3>5, <3>6, <3>7
  <2> QED
    BY <2>4, <2>5
<1> QED
  BY <1>1, <1>2

(* DCache::tick *)
LEMMA DCacheStep ==
  ASSUME IInv, DCacheTick
  PROVE  IInv'
<1> USE DEF IInv
<1>1. CacheTypeOK(Ids)'
  BY TickType DEF DCacheTick, TypeOK
<1>2. TypeOK'
  <2>1. CASE TickAnswers
    <3>1. pending = <<idle_req.id>> /\ idle_req.id \in Ids
      BY <2>1, UnansweredCases DEF TickAnswers, TakesIdleReq, TypeOK, NoRequestLost
    <3>2. LookupTick
      BY <2>1 DEF DCacheTick, Tick, TickAnswers, TakesIdleReq, FlushTick, SendMiss,
                  ParentRefuses, WaitClearTick, CanSendMiss, StepTick, RestTick
    <3>3. TickAnswerId \in Ids
      BY <3>1, <3>2 DEF TickAnswerId, LookupTick, HandleIdleReq
    <3>4. pending' = <<>>
      BY <2>1, <3>1, SingletonSeq DEF DCacheTick, MemCallback
    <3>5. mem_end_map' \in [Ids -> BOOLEAN]
      BY <2>1, <3>3 DEF DCacheTick, MemCallback, TypeOK, ListsTypeOK
    <3> QED
      BY <1>1, <3>4, <3>5 DEF DCacheTick, TypeOK, StagesTypeOK, ListsTypeOK,
                              stageVars, Phases
  <2>2. CASE ~TickAnswers
    BY <1>1, <2>2 DEF DCacheTick, TypeOK, StagesTypeOK, ListsTypeOK, stageVars, Phases
  <2> QED
    BY <2>1, <2>2
<1>3. CASE LookupTick
  <2>1. /\ idle_req # NoReq /\ pending = <<idle_req.id>>
        /\ lookup_req' = idle_req /\ idle_req' = NoReq /\ state' = "LOOKUP"
        /\ match' = Present(tagvs, idle_req.line)
        /\ state # "MISS" /\ UNCHANGED <<owed, req_clear_wait>>
    BY <1>3, UnansweredCases
       DEF LookupTick, TakesIdleReq, HandleIdleReq, NoRequestLost, TypeOK
  <2>2. NoRequestLost'
    <3>1. CASE Present(tagvs, idle_req.line)
      <4>1. pending' = <<>>
        BY <1>3, <2>1, <3>1, UnansweredCases, SingletonSeq
           DEF DCacheTick, TickAnswers, LookupTick, MemCallback, TypeOK
      <4> QED
        BY <2>1, <3>1, <4>1 DEF NoRequestLost, Unanswered
    <3>2. CASE ~Present(tagvs, idle_req.line)
      <4>1. pending' = <<idle_req.id>>
        BY <2>1, <3>2 DEF DCacheTick, TickAnswers
      <4>2. Unanswered' = <<idle_req.id>>
        BY <2>1, <3>2, SingletonSeq DEF Unanswered
      <4> QED
        BY <4>1, <4>2 DEF NoRequestLost
    <3> QED
      BY <3>1, <3>2
  <2>3. OneOutstanding' /\ LookedUpNextTick'
    BY <2>1 DEF OneOutstanding, LookedUpNextTick
  <2> QED
    BY <1>2, <2>2, <2>3
<1>4. CASE SendMiss
  <2>1. /\ idle_req = NoReq /\ owed = <<>> /\ lookup_req \in CacheReq(Ids)
        /\ state = "LOOKUP" /\ ~match /\ ~TickAnswers /\ ~req_clear_wait
    BY <1>4 DEF SendMiss, CanSendMiss, LookedUpNextTick, TakesIdleReq, TickAnswers,
                OneOutstanding, TypeOK, CacheTypeOK
  <2>2. /\ owed' = <<lookup_req>> /\ state' = "MISS"
        /\ UNCHANGED <<pending, idle_req, lookup_req, match, req_clear_wait>>
    BY <1>4, <2>1, SingletonSeq DEF SendMiss, DCacheTick
  <2>3. NoRequestLost'
    BY <2>1, <2>2 DEF NoRequestLost, Unanswered
  <2>4. OneOutstanding' /\ LookedUpNextTick'
    BY <2>1, <2>2, SingletonSeq DEF OneOutstanding, LookedUpNextTick
  <2> QED
    BY <1>2, <2>3, <2>4
<1>5. CASE StepTick
  <2>1. /\ idle_req = NoReq /\ idle_req' = NoReq
        /\ state \in {"LOOKUP", "WRITE", "REFILL"} /\ (state = "LOOKUP" => match)
        /\ state' \in {"WRITE", "IDLE"}
    BY <1>5 DEF StepTick, NextState, LookedUpNextTick, TakesIdleReq
  <2>2. UNCHANGED <<pending, owed, req_clear_wait, lookup_req>>
    BY <1>5, <2>1 DEF StepTick, DCacheTick, TickAnswers, TakesIdleReq
  <2>3. NoRequestLost'
    BY <2>1, <2>2 DEF NoRequestLost, Unanswered
  <2>4. OneOutstanding' /\ LookedUpNextTick'
    BY <2>1, <2>2 DEF OneOutstanding, LookedUpNextTick
  <2> QED
    BY <1>2, <2>3, <2>4
<1>6. CASE FlushTick \/ ParentRefuses \/ WaitClearTick \/ RestTick
  <2>1. idle_req = NoReq
    BY <1>6 DEF FlushTick, ParentRefuses, CanSendMiss, WaitClearTick, RestTick,
                LookedUpNextTick, TakesIdleReq, flush_valid
  <2>2. UNCHANGED <<pending, owed, req_clear_wait, lookup_req, match, state, idle_req>>
    BY <1>6, <2>1 DEF FlushTick, ParentRefuses, WaitClearTick, RestTick, cacheVars,
                      DCacheTick, TickAnswers, TakesIdleReq
  <2>3. NoRequestLost' /\ OneOutstanding' /\ LookedUpNextTick'
    BY <2>1, <2>2 DEF NoRequestLost, Unanswered, OneOutstanding, LookedUpNextTick
  <2> QED
    BY <1>2, <2>3
<1> QED
  BY <1>3, <1>4, <1>5, <1>6 DEF DCacheTick, Tick

(* WB: PipelineCPU::exec and excRedirect *)
LEMMA WbStep ==
  ASSUME IInv, WbRetire \/ ExcRedirect
  PROVE  IInv'
<1> USE DEF IInv
<1>1. CASE WbRetire
  <2>1. TypeOK'
    BY <1>1 DEF WbRetire, TypeOK, CacheTypeOK, StagesTypeOK, ListsTypeOK,
                cacheVars, listVars, Phases
  <2>2. idle_req = NoReq
    BY <1>1 DEF WbRetire, LookedUpNextTick
  <2>3. NoRequestLost' /\ OneOutstanding' /\ LookedUpNextTick'
    BY <1>1, <2>2, StageKeeps DEF WbRetire, listVars
  <2> QED
    BY <2>1, <2>3
<1>2. CASE ExcRedirect
  <2>1. TypeOK'
    <3>1. CacheTypeOK(Ids)'
      BY <1>2, RedirectType DEF ExcRedirect, TypeOK
    <3>2. StagesTypeOK'
      <4>1. 0 \in 0 .. StallDelay
        BY DataSideAssumption
      <4> QED
        BY <1>2, <4>1 DEF ExcRedirect, StagesTypeOK
    <3>3. ListsTypeOK'
      BY <1>2 DEF ExcRedirect, TypeOK, ListsTypeOK
    <3> QED
      BY <1>2, <3>1, <3>2, <3>3 DEF ExcRedirect, TypeOK, Phases
  <2>2. /\ idle_req' = NoReq /\ state' = "IDLE" /\ pending' = <<>>
        /\ owed' = owed /\ (owed # <<>> => req_clear_wait')
    BY <1>2 DEF ExcRedirect, Redirect, OneOutstanding
  <2>3. NoRequestLost'
    BY <2>2 DEF NoRequestLost, Unanswered
  <2>4. OneOutstanding' /\ LookedUpNextTick'
    BY <2>2 DEF OneOutstanding, LookedUpNextTick
  <2> QED
    BY <2>1, <2>3, <2>4
<1> QED
  BY <1>1, <1>2

(* MEM *)
LEMMA MemStep ==
  ASSUME IInv, MemAccessDone \/ MemPass \/ MemWait
  PROVE  IInv'
<1> USE DEF IInv
<1>1. TypeOK'
  BY DEF MemAccessDone, MemPass, MemWait, TypeOK, CacheTypeOK, StagesTypeOK,
         ListsTypeOK, cacheVars, stageVars, listVars, Phases, Inst
<1>2. idle_req = NoReq
  BY DEF MemAccessDone, MemPass, MemWait, LookedUpNextTick
<1>3. UNCHANGED cacheVars /\ UNCHANGED pending
  BY DEF MemAccessDone, MemPass, MemWait, listVars
<1> QED
  BY <1>1, <1>2, <1>3, StageKeeps

(* EXE, where nothing is asked of the cache *)
LEMMA ExeLocalStep ==
  ASSUME IInv, ExeIdle \/ ExeStall \/ ExeStartStall \/ ExePass \/ ExeScFail
               \/ ExeLookupRefused
  PROVE  IInv'
<1> USE DEF IInv
<1>1. UNCHANGED cacheVars /\ UNCHANGED pending /\ phase = "exe" /\ phase' = "move"
  BY DEF ExeIdle, ExeStall, ExeStartStall, ExePass, ExeScFail, ExeLookupRefused,
         InExe, listVars
<1>2. idle_req = NoReq
  BY <1>1 DEF LookedUpNextTick
<1>3. CacheTypeOK(Ids)'
  BY <1>1 DEF TypeOK, CacheTypeOK, cacheVars
<1>4. StagesTypeOK'
  <2>1. CASE ExeIdle
    BY <2>1 DEF ExeIdle, TypeOK, StagesTypeOK, stageVars
  <2>2. CASE ExeStall
    BY <2>2, DataSideAssumption DEF ExeStall, TypeOK, StagesTypeOK
  <2>3. CASE ExeStartStall
    BY <2>3, DataSideAssumption DEF ExeStartStall, TypeOK, StagesTypeOK
  <2>4. CASE ExePass
    BY <2>4 DEF ExePass, TypeOK, StagesTypeOK
  <2>5. CASE ExeScFail
    BY <2>5 DEF ExeScFail, InExe, TypeOK, StagesTypeOK, ListsTypeOK, Inst
  <2>6. CASE ExeLookupRefused
    BY <2>6 DEF ExeLookupRefused, InExe, TypeOK, StagesTypeOK, ListsTypeOK, Inst
  <2> QED
    BY <2>1, <2>2, <2>3, <2>4, <2>5, <2>6
<1>5. ListsTypeOK'
  <2>1. CASE ExeScFail
    BY <2>1, NextSlotType DEF ExeScFail, TypeOK, ListsTypeOK
  <2>2. CASE ~ExeScFail
    BY <2>2 DEF ExeIdle, ExeStall, ExeStartStall, ExePass, ExeLookupRefused,
                TypeOK, ListsTypeOK, listVars
  <2> QED
    BY <2>1, <2>2
<1> QED
  BY <1>1, <1>2, <1>3, <1>4, <1>5, StageKeeps DEF TypeOK, Phases

(* EXE: FENCE *)
LEMMA FenceStep ==
  ASSUME IInv, ExeFence
  PROVE  IInv'
<1> USE DEF IInv
<1>1. idle_req = NoReq
  BY DEF ExeFence, InExe, LookedUpNextTick
<1>2. TypeOK'
  BY FlushType DEF ExeFence, TypeOK, StagesTypeOK, ListsTypeOK, listVars, Phases
<1>3. UNCHANGED <<state, idle_req, lookup_req, match, req_clear_wait, owed, pending>>
  BY DEF ExeFence, Flush, listVars
<1>4. NoRequestLost' /\ OneOutstanding' /\ LookedUpNextTick'
  BY <1>1, <1>3 DEF NoRequestLost, Unanswered, OneOutstanding, LookedUpNextTick
<1> QED
  BY <1>2, <1>4

(* EXE: a load or store the cache accepts *)
LEMMA LookupStep ==
  ASSUME IInv, NEW line \in Lines, ExeLookup(line)
  PROVE  IInv'
<1> USE DEF IInv
<1> DEFINE req == RequestOf(exe_inst, line, mem_tail)
<1>1. req \in CacheReq(Ids) /\ req.id = mem_tail /\ mem_tail \in Ids
  BY DEF RequestOf, CacheReq, TypeOK, ListsTypeOK
<1>2. req # NoReq
  BY <1>1, NoReqAssumption
<1>3. idle_req = NoReq /\ pending = <<>>
  BY UnansweredCases
     DEF ExeLookup, InExe, Accept, CanAccept, LookedUpNextTick, NoRequestLost, TypeOK
<1>4. /\ CanAccept /\ idle_req' = req /\ pending' = <<mem_tail>> /\ phase' = "move"
      /\ UNCHANGED <<state, lookup_req, match, req_clear_wait, flush_num, owed>>
  BY <1>1, <1>3, SingletonSeq DEF ExeLookup, Accept
<1>5. TypeOK'
  <2>1. CacheTypeOK(Ids)'
    BY <1>1, AcceptType DEF ExeLookup, TypeOK
  <2>2. StagesTypeOK'
    BY DEF ExeLookup, InExe, TypeOK, StagesTypeOK, ListsTypeOK, Inst
  <2>3. ListsTypeOK'
    BY <1>1, <1>4, SingletonSeq, NextSlotType DEF ExeLookup, TypeOK, ListsTypeOK
  <2> QED
    BY <1>4, <2>1, <2>2, <2>3 DEF TypeOK, Phases
<1>6. LookedUpNextTick'
  BY <1>2, <1>4 DEF LookedUpNextTick, TakesIdleReq, CanAccept, flush_valid
<1>7. NoRequestLost'
  <2>1. state # "MISS" /\ ~(state = "LOOKUP" /\ ~match)
    BY <1>4 DEF CanAccept
  <2>2. Unanswered' = <<req.id>>
    BY <1>1, <1>2, <1>4, <2>1, SingletonSeq DEF Unanswered
  <2> QED
    BY <1>1, <1>4, <2>2 DEF NoRequestLost
<1>8. OneOutstanding'
  BY <1>4 DEF OneOutstanding
<1> QED
  BY <1>5, <1>6, <1>7, <1>8

(* EXE -> MEM and ID -> EXE *)
LEMMA MoveStep ==
  ASSUME IInv, MoveToMem \/ MoveWait \/ NoIssue \/ (\E kind \in Kinds : Issue(kind))
  PROVE  IInv'
<1> USE DEF IInv
<1>1. /\ UNCHANGED cacheVars /\ UNCHANGED pending
      /\ phase' \in {"issue", "memory"}
  BY DEF MoveToMem, MoveWait, NoIssue, Issue, listVars
<1>2. StagesTypeOK'
  <2>1. CASE MoveToMem
    BY <2>1 DEF MoveToMem, TypeOK, StagesTypeOK
  <2>2. CASE MoveWait \/ NoIssue
    BY <2>2 DEF MoveWait, NoIssue, TypeOK, StagesTypeOK, stageVars
  <2>3. CASE \E kind \in Kinds : Issue(kind)
    <3>1. PICK kind \in Kinds : Issue(kind)
      BY <2>3
    <3>2. exe_inst' \in Inst
      BY <3>1, DataSideAssumption DEF Issue, Inst, Ids
    <3> QED
      BY <3>1, <3>2 DEF Issue, TypeOK, StagesTypeOK
  <2> QED
    BY <2>1, <2>2, <2>3
<1>3. CacheTypeOK(Ids)' /\ ListsTypeOK'
  BY <1>1 DEF MoveToMem, MoveWait, NoIssue, Issue, TypeOK, CacheTypeOK, ListsTypeOK,
              cacheVars, listVars
<1> QED
  BY <1>1, <1>2, <1>3, StageKeeps DEF TypeOK, Phases

(* A stuttering step *)
LEMMA StutterStep ==
  ASSUME IInv, UNCHANGED vars
  PROVE  IInv'
  BY DEF IInv, vars, TypeOK, CacheTypeOK, StagesTypeOK, ListsTypeOK, NoRequestLost,
         Unanswered, OneOutstanding, LookedUpNextTick, TakesIdleReq, flush_valid,
         cacheVars, stageVars, listVars

-----------------------------------------------------------------------------
(* The theorems                                                            *)

(* The simulator starts in a state that satisfies the invariant.           *)
LEMMA InitIInv == Init => IInv
<1> SUFFICES ASSUME Init PROVE IInv
  OBVIOUS
<1>1. CacheTypeOK(Ids)
  <2>1. 0 \in Ways /\ 0 \in 0 .. SetSize
    BY CacheAssumption DEF Ways
  <2>2. owed \in Seq(CacheReq(Ids))
    BY DEF Init, CacheInit
  <2> QED
    BY <2>1, <2>2, EmptyTagsType, InitVictimsType
       DEF Init, CacheInit, CacheTypeOK, CacheStates
<1>2. TypeOK
  <2>1. pending \in Seq(Ids)
    BY DEF Init
  <2>2. 0 \in Ids /\ 0 \in 0 .. StallDelay
    BY DataSideAssumption DEF Ids
  <2> QED
    BY <1>1, <2>1, <2>2 DEF Init, TypeOK, StagesTypeOK, ListsTypeOK, Phases
<1>3. NoRequestLost /\ LookedUpNextTick
  BY DEF Init, CacheInit, NoRequestLost, Unanswered, LookedUpNextTick
<1>4. OneOutstanding
  BY DEF Init, CacheInit, OneOutstanding
<1> QED
  BY <1>2, <1>3, <1>4 DEF IInv

(* Every step of the data side keeps the invariant.                        *)
LEMMA NextIInv == IInv /\ [Next]_vars => IInv'
  BY MemoryStep, DCacheStep, WbStep, MemStep, ExeLocalStep, FenceStep, LookupStep,
     MoveStep, StutterStep
     DEF Next, CpuStage

(* The inductive invariant holds in every reachable state.                 *)
THEOREM Invariance == Spec => []IInv
  BY InitIInv, NextIInv, PTL DEF Spec

(* The variables of DCache, of the stages and of the request ring stay in  *)
(* their ranges.                                                           *)
THEOREM TypeCorrect == Spec => []TypeOK
  BY Invariance, PTL DEF IInv

(* No request the CPU gave to DCache::lookup is lost, overwritten or       *)
(* answered after it was cancelled.                                        *)
THEOREM RequestsKept == Spec => []NoRequestLost
  BY Invariance, PTL DEF IInv

(* The DCache has at most one request at its parent, and a fill is         *)
(* labelled with the line that was asked for.                              *)
THEOREM AtMostOneFill == Spec => []OneOutstanding
  BY Invariance, PTL DEF IInv

(* An accepted request is looked up by the next tick.                      *)
THEOREM PromptLookup == Spec => []LookedUpNextTick
  BY Invariance, PTL DEF IInv

-----------------------------------------------------------------------------
(* What a flush leaves.  FlushLeavesAtMostOne speaks of its last tick; the *)
(* invariant says what the sets already cleared hold on the way there:     *)
(* nothing while the fill requested before the flush is still owed, and    *)
(* nothing but its line afterwards, since no miss is sent during a flush.  *)

(* The lines in the sets that the running flush has cleared. *)
Left == {l \in Lines : Present(tagvs, l) /\ SetOf(l) < SetSize - flush_num}

FlushInv ==
  flush_valid =>
    /\ \A l, m \in Left : l = m
    /\ owed # <<>> => Left = {}

(* A step that leaves the arrays and the flush alone and sends no miss.    *)
LEMMA FlushUntouched ==
  ASSUME FlushInv, UNCHANGED <<tagvs, flush_num>>, owed' = owed \/ ~flush_valid
  PROVE  FlushInv'
<1>1. CASE flush_valid
  <2>1. owed' = owed
    BY <1>1
  <2>2. Left' = Left
    BY DEF Left
  <2> QED
    BY <1>1, <2>1, <2>2 DEF FlushInv, flush_valid
<1>2. CASE ~flush_valid
  BY <1>2 DEF FlushInv, flush_valid
<1> QED
  BY <1>1, <1>2

(* DCache::flush, also one that restarts a running flush: no set is        *)
(* cleared yet.                                                            *)
LEMMA FlushStarts ==
  ASSUME IInv, Flush
  PROVE  FlushInv'
<1>1. flush_num' = SetSize
  BY DEF Flush
<1>2. \A l \in Lines : ~(SetOf(l) < SetSize - SetSize)
  BY SetOfInRange, CacheAssumption DEF Sets
<1>3. Left' = {}
  BY <1>1, <1>2 DEF Left
<1> QED
  BY <1>3 DEF FlushInv

(* The tick of a flush: what it leaves in the cleared sets was in the sets *)
(* cleared before.                                                         *)
LEMMA FlushTickLeaves ==
  ASSUME IInv, FlushTick
  PROVE  Left' \subseteq Left
<1>1. PICK n : n = flush_num
  OBVIOUS
<1>2. n \in 1 .. SetSize /\ SetSize - n \in Sets /\ flush_num' = n - 1
  BY <1>1, CacheAssumption DEF IInv, TypeOK, CacheTypeOK, FlushTick, flush_valid, Sets
<1>3. tagvs \in TagArray /\ tagvs' = ClearSet(tagvs, SetSize - n)
  BY <1>1 DEF IInv, TypeOK, CacheTypeOK, FlushTick
<1>4. SUFFICES ASSUME NEW l \in Lines, Present(tagvs', l),
                      SetOf(l) < SetSize - (n - 1)
               PROVE  Present(tagvs, l) /\ SetOf(l) < SetSize - n
  BY <1>1, <1>2 DEF Left
<1>5. SetOf(l) # SetSize - n /\ Present(tagvs, l)
  BY <1>2, <1>3, <1>4, PresentAfterClear
<1>6. SetOf(l) \in Nat
  BY SetOfInRange DEF Sets
<1> QED
  BY <1>2, <1>4, <1>5, <1>6, CacheAssumption

(* DCache::tick *)
LEMMA TickKeepsFlush ==
  ASSUME IInv, FlushInv, Tick
  PROVE  FlushInv'
<1>1. CASE FlushTick
  <2>1. flush_valid /\ owed' = owed
    BY <1>1 DEF FlushTick
  <2> QED
    BY <1>1, <2>1, FlushTickLeaves DEF FlushInv
<1>2. CASE SendMiss
  <2>1. ~flush_valid /\ UNCHANGED <<tagvs, flush_num>>
    BY <1>2 DEF SendMiss, CanSendMiss
  <2> QED
    BY <2>1, FlushUntouched
<1>3. CASE ~FlushTick /\ ~SendMiss
  <2>1. UNCHANGED <<tagvs, flush_num, owed>>
    BY <1>3 DEF Tick, LookupTick, ParentRefuses, WaitClearTick, StepTick, RestTick,
                cacheVars
  <2> QED
    BY <2>1, FlushUntouched
<1> QED
  BY <1>1, <1>2, <1>3

(* The parent's callback: the one fill that a running flush can meet.      *)
LEMMA ResponseKeepsFlush ==
  ASSUME IInv, FlushInv, Response
  PROVE  FlushInv'
<1>1. flush_num' = flush_num /\ owed # <<>>
  BY DEF Response
<1>2. CASE flush_valid
  <2>1. Left = {}
    BY <1>1, <1>2 DEF FlushInv
  <2>2. /\ tagvs \in TagArray /\ replace_way \in Ways /\ lookup_req.line \in Lines
        /\ tagvs' = Install(tagvs, replace_way, lookup_req.line)
    BY <1>1 DEF IInv, TypeOK, CacheTypeOK, CacheReq, Response, Fill
  <2>3. Left' \subseteq {lookup_req.line}
    <3>1. \A l \in Lines :
            Present(tagvs', l) => l = lookup_req.line \/ Present(tagvs, l)
      BY <2>2, PresentAfterInstall
    <3> QED
      BY <1>1, <2>1, <3>1 DEF Left
  <2>4. owed' = <<>>
    <3>1. owed \in Seq(CacheReq(Ids)) /\ Len(owed) <= 1
      BY DEF IInv, TypeOK, CacheTypeOK, OneOutstanding
    <3> QED
      BY <1>1, <3>1, LenOneSeq DEF Response
  <2> QED
    BY <2>3, <2>4 DEF FlushInv
<1>3. CASE ~flush_valid
  BY <1>1, <1>3 DEF FlushInv, flush_valid
<1> QED
  BY <1>2, <1>3

(* Every step keeps what the cleared sets hold.                            *)
LEMMA NextFlushInv ==
  ASSUME IInv, FlushInv, [Next]_vars
  PROVE  FlushInv'
<1>1. CASE MemoryResponse
  BY <1>1, ResponseKeepsFlush DEF MemoryResponse
<1>2. CASE DCacheTick
  BY <1>2, TickKeepsFlush DEF DCacheTick
<1>3. CASE ExeFence
  BY <1>3, FlushStarts DEF ExeFence
<1>4. CASE ~MemoryResponse /\ ~DCacheTick /\ ~ExeFence
  <2>1. UNCHANGED <<tagvs, flush_num, owed>>
    BY <1>4 DEF Next, CpuStage, MemoryQuiet, WbRetire, ExcRedirect, Redirect,
                MemAccessDone, MemPass, MemWait, ExeIdle, ExeStall, ExeStartStall,
                ExePass, ExeScFail, ExeLookup, Accept, ExeLookupRefused, MoveToMem,
                MoveWait, Issue, NoIssue, vars, cacheVars
  <2> QED
    BY <2>1, FlushUntouched
<1> QED
  BY <1>1, <1>2, <1>3, <1>4

(* The step that ends a flush.                                             *)
LEMMA FlushEnds ==
  ASSUME IInv, FlushInv, [Next]_vars, flush_num = 1, flush_num' = 0
  PROVE  \A l, m \in ValidLines' : l = m
<1>1. FlushTick
  <2>1. CASE DCacheTick
    BY <2>1 DEF DCacheTick, Tick, LookupTick, SendMiss, ParentRefuses, WaitClearTick,
                StepTick, RestTick, cacheVars
  <2>2. CASE ExeFence
    BY <2>2, CacheAssumption DEF ExeFence, Flush
  <2>3. CASE ~DCacheTick /\ ~ExeFence
    BY <2>3 DEF Next, CpuStage, MemoryResponse, Response, MemoryQuiet, WbRetire,
                ExcRedirect, Redirect, MemAccessDone, MemPass, MemWait, ExeIdle,
                ExeStall, ExeStartStall, ExePass, ExeScFail, ExeLookup, Accept,
                ExeLookupRefused, MoveToMem, MoveWait, Issue, NoIssue, vars, cacheVars
  <2> QED
    BY <2>1, <2>2, <2>3
<1>2. \A l \in Lines : SetOf(l) < SetSize - 0
  BY SetOfInRange, CacheAssumption DEF Sets
<1>3. ValidLines' \subseteq Left'
  BY <1>2 DEF ValidLines, Left
<1>4. flush_valid
  BY DEF flush_valid
<1> QED
  BY <1>1, <1>3, <1>4, FlushTickLeaves DEF FlushInv

(* A flush cannot keep a fill requested before it from landing in a set it *)
(* has cleared, but when it ends no other line is left (DCache::flush and  *)
(* the flush branch of DCache::tick).                                      *)
THEOREM FlushLeavesOneFill == Spec => FlushLeavesAtMostOne
<1>1. Init => FlushInv
  BY DEF Init, CacheInit, FlushInv, flush_valid
<1>2. IInv /\ FlushInv /\ [Next]_vars => FlushInv'
  BY NextFlushInv
<1>3. IInv /\ FlushInv /\ [Next]_vars =>
        [flush_num = 1 /\ flush_num' = 0 => \A l, m \in ValidLines' : l = m]_vars
  BY FlushEnds
<1> QED
  BY <1>1, <1>2, <1>3, Invariance, PTL DEF Spec, FlushLeavesAtMostOne

-----------------------------------------------------------------------------
(* The data side implements MemoryPort.                                    *)

(* An answer of the cache is the answer to the oldest accepted access.     *)
LEMMA AnswerIsPortAnswer ==
  ASSUME IInv, MemoryResponse \/ DCacheTick
  PROVE  Port!Answer \/ UNCHANGED <<pending, mem_end_map>>
<1> USE DEF IInv
<1>1. CASE MemoryResponse /\ ResponseAnswers
  <2>1. state = "MISS" /\ idle_req = NoReq
    BY <1>1 DEF MemoryResponse, Response, ResponseAnswers, OneOutstanding,
                LookedUpNextTick, TakesIdleReq
  <2>2. pending = <<lookup_req.id>> /\ lookup_req.id \in Ids
    BY <2>1, UnansweredCases DEF TypeOK, NoRequestLost
  <2>3. pending # <<>> /\ Head(pending) = lookup_req.id
    BY <2>2, SingletonSeq
  <2> QED
    BY <1>1, <2>3 DEF MemoryResponse, MemCallback, Port!Answer
<1>2. CASE DCacheTick /\ TickAnswers
  <2>1. pending = <<idle_req.id>> /\ idle_req.id \in Ids
    BY <1>2, UnansweredCases DEF TickAnswers, TakesIdleReq, TypeOK, NoRequestLost
  <2>2. LookupTick
    BY <1>2 DEF DCacheTick, Tick, TickAnswers, TakesIdleReq, FlushTick, SendMiss,
                ParentRefuses, WaitClearTick, CanSendMiss, StepTick, RestTick
  <2>3. TickAnswerId = idle_req.id
    BY <2>2 DEF TickAnswerId, LookupTick, HandleIdleReq
  <2>4. pending # <<>> /\ Head(pending) = TickAnswerId
    BY <2>1, <2>3, SingletonSeq
  <2> QED
    BY <1>2, <2>4 DEF DCacheTick, MemCallback, Port!Answer
<1>3. CASE MemoryResponse /\ ~ResponseAnswers
  BY <1>3 DEF MemoryResponse
<1>4. CASE DCacheTick /\ ~TickAnswers
  BY <1>4 DEF DCacheTick
<1> QED
  BY <1>1, <1>2, <1>3, <1>4

(* Every step of the stages is a step of the port or leaves it alone.      *)
LEMMA StageIsPortStep ==
  ASSUME IInv, CpuStage
  PROVE  Port!Next \/ UNCHANGED <<pending, mem_end_map>>
<1> USE DEF IInv
<1>1. CASE ExcRedirect
  <2>1. Port!Drop
    BY <1>1 DEF ExcRedirect, Port!Drop
  <2> QED
    BY <2>1 DEF Port!Next
<1>2. CASE MemAccessDone
  <2>1. mem_inst.mem_id \in Ids
    BY <1>2 DEF MemAccessDone, TypeOK, StagesTypeOK, Inst
  <2>2. Port!Consume(mem_inst.mem_id)
    BY <1>2 DEF MemAccessDone, Port!Consume
  <2> QED
    BY <2>1, <2>2 DEF Port!Next
<1>3. CASE ExeScFail
  <2>1. mem_tail \in Ids /\ Port!Mark(mem_tail)
    BY <1>3 DEF ExeScFail, TypeOK, ListsTypeOK, Port!Mark
  <2> QED
    BY <2>1 DEF Port!Next
<1>4. CASE \E line \in Lines : ExeLookup(line)
  <2>1. PICK line \in Lines : ExeLookup(line)
    BY <1>4
  <2>2. pending = <<>>
    BY <2>1, UnansweredCases
       DEF ExeLookup, InExe, Accept, CanAccept, LookedUpNextTick, NoRequestLost, TypeOK
  <2>3. mem_tail \in Ids /\ Port!Accept(mem_tail)
    BY <2>1, <2>2, SingletonSeq DEF ExeLookup, TypeOK, ListsTypeOK, Port!Accept
  <2> QED
    BY <2>3 DEF Port!Next
<1>5. CASE \/ WbRetire \/ MemPass \/ MemWait \/ ExeIdle \/ ExeStall
           \/ ExeStartStall \/ ExePass \/ ExeFence \/ ExeLookupRefused
           \/ MoveToMem \/ MoveWait
  BY <1>5 DEF WbRetire, MemPass, MemWait, ExeIdle, ExeStall, ExeStartStall, ExePass,
              ExeFence, ExeLookupRefused, MoveToMem, MoveWait, listVars
<1> QED
  BY <1>1, <1>2, <1>3, <1>4, <1>5 DEF CpuStage

(* EXE, MEM and the DCache together implement the port: one access at a    *)
(* time, answered once and to its own slot, or dropped by a redirect.      *)
THEOREM Refinement == Spec => ImplementsPort
<1>1. Init => Port!Init
  BY DEF Init, Port!Init
<1>2. IInv /\ [Next]_vars => [Port!Next]_<<pending, mem_end_map>>
  <2> SUFFICES ASSUME IInv, [Next]_vars
               PROVE  Port!Next \/ UNCHANGED <<pending, mem_end_map>>
    OBVIOUS
  <2>1. CASE MemoryResponse \/ DCacheTick
    BY <2>1, AnswerIsPortAnswer DEF Port!Next
  <2>2. CASE CpuStage
    BY <2>2, StageIsPortStep
  <2>3. CASE MemoryQuiet \/ NoIssue \/ (\E kind \in Kinds : Issue(kind))
    BY <2>3 DEF MemoryQuiet, NoIssue, Issue, listVars
  <2>4. CASE UNCHANGED vars
    BY <2>4 DEF vars, listVars
  <2> QED
    BY <2>1, <2>2, <2>3, <2>4 DEF Next
<1> QED
  BY <1>1, <1>2, Invariance, PTL DEF Spec, ImplementsPort, Port!Spec

-----------------------------------------------------------------------------
(* Towards the memory the data side is a caller of ReadPort.               *)

(* Only a miss asks the parent and only its callback answers: between them *)
(* there is one read out and never a second.                               *)
LEMMA OwedChanges ==
  ASSUME IInv, [Next]_vars
  PROVE  \/ owed' = owed
         \/ Len(owed) = 0 /\ Len(owed') = 1
         \/ Len(owed) = 1 /\ Len(owed') = 0
<1>1. owed \in Seq(CacheReq(Ids)) /\ Len(owed) <= 1
  BY DEF IInv, TypeOK, CacheTypeOK, OneOutstanding
<1>2. CASE MemoryResponse
  <2>1. owed # <<>> /\ owed' = Tail(owed)
    BY <1>2 DEF MemoryResponse, Response
  <2> QED
    BY <1>1, <2>1, LenOneSeq
<1>3. CASE DCacheTick /\ SendMiss
  <2>1. owed = <<>>
    BY <1>3 DEF IInv, OneOutstanding, SendMiss, CanSendMiss
  <2>2. lookup_req \in CacheReq(Ids) /\ owed' = Append(owed, lookup_req)
    BY <1>3 DEF IInv, TypeOK, CacheTypeOK, SendMiss, CanSendMiss
  <2>3. owed' = <<lookup_req>>
    BY <2>1, <2>2, SingletonSeq
  <2> QED
    BY <2>1, <2>2, <2>3, SingletonSeq
<1>4. CASE ~MemoryResponse /\ ~(DCacheTick /\ SendMiss)
  BY <1>4 DEF Next, CpuStage, DCacheTick, Tick, FlushTick, LookupTick, ParentRefuses,
              WaitClearTick, StepTick, RestTick, MemoryQuiet, WbRetire, ExcRedirect,
              Redirect, MemAccessDone, MemPass, MemWait, ExeIdle, ExeStall,
              ExeStartStall, ExePass, ExeFence, Flush, ExeScFail, ExeLookup, Accept,
              ExeLookupRefused, MoveToMem, MoveWait, Issue, NoIssue, vars, cacheVars
<1> QED
  BY <1>2, <1>3, <1>4

(* DCache sends a miss only when its parent has nothing of its own, and    *)
(* each response is to the read that is out: with the same theorems about  *)
(* the ICache and the memory, what each side assumes of the other holds.   *)
THEOREM ParentRefinement == Spec => ImplementsParent
<1>1. Init => Parent!Init
  BY DEF Init, CacheInit, Parent!Init
<1>2. IInv /\ [Next]_vars => [Parent!Next]_([c \in {"dcache"} |-> Len(owed)])
  <2> SUFFICES ASSUME IInv, [Next]_vars
               PROVE  Parent!Next \/ UNCHANGED [c \in {"dcache"} |-> Len(owed)]
    OBVIOUS
  <2>1. CASE owed' = owed
    BY <2>1
  <2>2. CASE Len(owed) = 0 /\ Len(owed') = 1
    <3>1. Parent!Ask("dcache")
      BY <2>2 DEF Parent!Ask
    <3> QED
      BY <3>1 DEF Parent!Next
  <2>3. CASE Len(owed) = 1 /\ Len(owed') = 0
    <3>1. Parent!CallBack("dcache")
      BY <2>3 DEF Parent!CallBack
    <3> QED
      BY <3>1 DEF Parent!Next
  <2> QED
    BY <2>1, <2>2, <2>3, OwedChanges
<1> QED
  BY <1>1, <1>2, Invariance, PTL DEF Spec, ImplementsParent, Parent!Spec

-----------------------------------------------------------------------------
(* What wedges the cache.  RedirectResets does not hold: excRedirect may   *)
(* find the DCache in REFILL, where no response is due any more.  Nothing  *)
(* else wedges it, it stays wedged for good, and without a FENCE that      *)
(* keeps tick() in its flush branch no redirect ever meets REFILL.         *)

(* Only a redirect in REFILL wedges the cache. *)
WedgedByRedirect == [][~Wedged /\ Wedged' => ExcRedirect /\ state = "REFILL"]_vars

(* No later miss, response or redirect gets the cache out of it. *)
WedgedForGood == [][Wedged => Wedged']_vars

(* The tick after the response leaves REFILL, as long as nothing flushes. *)
RefillIsShort == flush_num = 0 /\ (state = "REFILL" => phase = "dcache")

(* What a step does to Wedged.                                             *)
LEMMA WedgedSteps ==
  ASSUME IInv, [Next]_vars
  PROVE  /\ Wedged => Wedged'
         /\ ~Wedged /\ Wedged' => ExcRedirect /\ state = "REFILL"
<1>1. CASE MemoryResponse
  <2>1. owed # <<>> /\ ~req_clear_wait'
    BY <1>1 DEF MemoryResponse, Response
  <2> QED
    BY <2>1 DEF Wedged
<1>2. CASE DCacheTick
  <2>1. req_clear_wait' = req_clear_wait
    BY <1>2 DEF DCacheTick, Tick, FlushTick, LookupTick, SendMiss, ParentRefuses,
                WaitClearTick, StepTick, RestTick, cacheVars
  <2>2. req_clear_wait => owed' = owed
    BY <1>2 DEF DCacheTick, Tick, FlushTick, LookupTick, SendMiss, CanSendMiss,
                ParentRefuses, WaitClearTick, StepTick, RestTick, cacheVars
  <2> QED
    BY <2>1, <2>2 DEF Wedged
<1>3. CASE ExcRedirect
  <2>1. owed' = owed /\ req_clear_wait' = (req_clear_wait \/ state \in {"MISS", "REFILL"})
    BY <1>3 DEF ExcRedirect, Redirect
  <2>2. state = "MISS" => owed = <<lookup_req>> /\ <<lookup_req>> # <<>>
    BY SingletonSeq DEF IInv, OneOutstanding
  <2> QED
    BY <1>3, <2>1, <2>2 DEF Wedged
<1>4. CASE ~MemoryResponse /\ ~DCacheTick /\ ~ExcRedirect
  <2>1. UNCHANGED <<owed, req_clear_wait>>
    BY <1>4 DEF Next, CpuStage, MemoryQuiet, WbRetire, MemAccessDone, MemPass, MemWait,
                ExeIdle, ExeStall, ExeStartStall, ExePass, ExeFence, Flush, ExeScFail,
                ExeLookup, Accept, ExeLookupRefused, MoveToMem, MoveWait, Issue, NoIssue,
                vars, cacheVars
  <2> QED
    BY <2>1 DEF Wedged
<1> QED
  BY <1>1, <1>2, <1>3, <1>4

(* Only excRedirect in REFILL makes the cache wait for a response that is  *)
(* not due (DCache::redirect).                                             *)
THEOREM OnlyRedirectWedges == Spec => WedgedByRedirect
<1>1. IInv /\ [Next]_vars => [~Wedged /\ Wedged' => ExcRedirect /\ state = "REFILL"]_vars
  BY WedgedSteps
<1> QED
  BY <1>1, Invariance, PTL DEF Spec, WedgedByRedirect

(* A wedged cache is wedged until the end of the run: what RedirectResets  *)
(* forbids is not a delay.                                                 *)
THEOREM WedgeIsPermanent == Spec => WedgedForGood
<1>1. IInv /\ [Next]_vars => [Wedged => Wedged']_vars
  BY WedgedSteps
<1> QED
  BY <1>1, Invariance, PTL DEF Spec, WedgedForGood

(* Without a FENCE no flush runs, and REFILL is over before the CPU runs.  *)
LEMMA RefillStaysShort ==
  ASSUME IInv, RefillIsShort, [Next]_vars, [~ExeFence]_vars
  PROVE  RefillIsShort'
<1> USE DEF RefillIsShort
<1>1. CASE MemoryResponse
  BY <1>1 DEF MemoryResponse, Response
<1>2. CASE DCacheTick
  <2>1. ~FlushTick
    BY DEF FlushTick, flush_valid
  <2>2. flush_num' = flush_num /\ state' # "REFILL"
    BY <1>2, <2>1 DEF DCacheTick, Tick, LookupTick, SendMiss, ParentRefuses, CanSendMiss,
                WaitClearTick, StepTick, NextState, RestTick, flush_valid, cacheVars
  <2> QED
    BY <2>2
<1>3. CASE ExcRedirect
  BY <1>3 DEF ExcRedirect, Redirect
<1>4. CASE MemoryQuiet
  BY <1>4 DEF MemoryQuiet, cacheVars
<1>5. CASE UNCHANGED vars
  BY <1>5 DEF vars, cacheVars
<1>6. CASE /\ ~MemoryResponse /\ ~DCacheTick /\ ~ExcRedirect /\ ~MemoryQuiet
           /\ ~ExeFence /\ Next
  <2>1. UNCHANGED <<state, flush_num>> /\ phase # "dcache"
    BY <1>6 DEF Next, CpuStage, WbRetire, MemAccessDone, MemPass, MemWait,
                ExeIdle, ExeStall, ExeStartStall, ExePass, InExe, ExeScFail,
                ExeLookup, Accept, ExeLookupRefused, MoveToMem, MoveWait, Issue, NoIssue,
                cacheVars
  <2> QED
    BY <2>1
<1> QED
  BY <1>1, <1>2, <1>3, <1>4, <1>5, <1>6

(* It takes a FENCE to wedge the cache: in a run without one every         *)
(* redirect resets it, whatever faults, misses and responses there are.    *)
THEOREM NoFenceNoWedge == Spec /\ [][~ExeFence]_vars => []RedirectResets
<1>1. Init => RefillIsShort /\ RedirectResets
  BY DEF Init, CacheInit, RefillIsShort, RedirectResets, Wedged
<1>2. IInv /\ RefillIsShort /\ [Next]_vars /\ [~ExeFence]_vars => RefillIsShort'
  BY RefillStaysShort
<1>3. IInv /\ RefillIsShort /\ RedirectResets /\ [Next]_vars => RedirectResets'
  <2> SUFFICES ASSUME IInv, RefillIsShort, RedirectResets, [Next]_vars
               PROVE  RedirectResets'
    OBVIOUS
  <2>1. ExcRedirect => state # "REFILL"
    BY DEF ExcRedirect, RefillIsShort
  <2> QED
    BY <2>1, WedgedSteps DEF RedirectResets
<1> QED
  BY <1>1, <1>2, <1>3, Invariance, PTL DEF Spec

-----------------------------------------------------------------------------
(* What lets an instruction retire unanswered.  RetiredAfterAnswer does    *)
(* not hold: excRedirect leaves mem_end_map as it is, and the flag of an   *)
(* access it drops serves the next one that gets the slot.  The ring is    *)
(* not the cause: in runs whose redirects find no flag set, two slots      *)
(* suffice for the property.                                               *)

(* A redirect finds no answer that MEM has not consumed. *)
RedirectFindsNoFlag == ExcRedirect => \A i \in Ids : ~mem_end_map[i]

(* An instruction that has taken a slot and not given it back. *)
UsesSlot(inst) == inst # NoInst /\ inst.kind \in MemKinds
ExeUsesSlot == exe_end /\ UsesSlot(exe_inst)
SlotsInUse ==
  (IF UsesSlot(mem_inst) THEN {mem_inst.mem_id} ELSE {})
    \cup (IF ExeUsesSlot THEN {exe_inst.mem_id} ELSE {})

(* EXE has finished an instruction, or stalls with one that uses no slot. *)
ExeInv ==
  /\ exe_end => exe_inst # NoInst /\ exe_stall_cycle = 0
  /\ exe_stall_cycle > 0 => exe_inst # NoInst /\ exe_inst.kind = "other"

(* The slots in use are the last ones taken, in program order. *)
SlotAfterMem == IF ExeUsesSlot THEN exe_inst.mem_id ELSE mem_tail
InOrder ==
  /\ ExeUsesSlot => NextSlot(exe_inst.mem_id) = mem_tail
  /\ UsesSlot(mem_inst) => NextSlot(mem_inst.mem_id) = SlotAfterMem
  /\ UsesSlot(wb_inst) /\ phase = "exe" =>
       mem_inst = NoInst /\ NextSlot(wb_inst.mem_id) = SlotAfterMem
  /\ phase = "mem" => wb_inst = NoInst

(* A flag, and an access inside the cache, belong to an instruction that   *)
(* uses the slot; the flag is not set while the access is out.             *)
FlagsInUse == \A i \in Ids : mem_end_map[i] => i \in SlotsInUse
AccessInUse ==
  \A i \in Ids : pending = <<i>> =>
    i \in SlotsInUse /\ ~mem_end_map[i] /\ (UsesSlot(wb_inst) => wb_inst.mem_id # i)

SlotInv == ExeInv /\ InOrder /\ FlagsInUse /\ AccessInUse

(* In a ring of two slots or more the next slot is another one.            *)
LEMMA NextSlotDiffers ==
  ASSUME RetireSize >= 2, NEW i \in Ids
  PROVE  NextSlot(i) # i
<1>1. PICK n : n = RetireSize
  OBVIOUS
<1>2. n \in Nat /\ n >= 2 /\ i \in 0 .. n - 1 /\ NextSlot(i) = (i + 1) % n
  BY <1>1, DataSideAssumption DEF Ids, NextSlot
<1>3. CASE i + 1 = n
  BY <1>2, <1>3
<1>4. CASE i + 1 < n
  <2>1. (i + 1) % n = i + 1
    BY <1>2, <1>4
  <2> QED
    BY <1>2, <2>1
<1> QED
  BY <1>2, <1>3, <1>4

(* The ring holds no access or one.                                        *)
LEMMA OneAccess ==
  ASSUME IInv
  PROVE  pending = <<>> \/ \E i \in Ids : pending = <<i>>
  BY UnansweredCases DEF IInv, TypeOK, NoRequestLost

(* The cache answers the access it holds, and nothing else moves.          *)
LEMMA SlotsAnswer ==
  ASSUME IInv, SlotInv, MemoryResponse \/ DCacheTick
  PROVE  SlotInv'
<1>1. /\ UNCHANGED <<stageVars, mem_tail>> /\ phase' \notin {"exe", "mem"}
  BY DEF MemoryResponse, DCacheTick
<1>2. SlotsInUse' = SlotsInUse
  BY <1>1 DEF SlotsInUse, ExeUsesSlot, UsesSlot, stageVars
<1>3. ExeInv' /\ InOrder'
  BY <1>1 DEF SlotInv, ExeInv, InOrder, SlotAfterMem, ExeUsesSlot, UsesSlot, stageVars, NextSlot
<1>4. CASE UNCHANGED <<pending, mem_end_map>>
  BY <1>1, <1>2, <1>3, <1>4 DEF SlotInv, FlagsInUse, AccessInUse, UsesSlot, stageVars
<1>5. CASE Port!Answer
  <2>1. PICK s \in Ids : pending = <<s>>
    BY <1>5, OneAccess DEF Port!Answer
  <2>2. pending' = <<>> /\ mem_end_map' = [mem_end_map EXCEPT ![s] = TRUE]
    BY <1>5, <2>1, SingletonSeq DEF Port!Answer
  <2>3. s \in SlotsInUse
    BY <2>1 DEF SlotInv, AccessInUse
  <2>4. mem_end_map \in [Ids -> BOOLEAN]
    BY DEF IInv, TypeOK, ListsTypeOK
  <2>5. FlagsInUse'
    BY <1>2, <2>2, <2>3, <2>4 DEF SlotInv, FlagsInUse
  <2>6. AccessInUse'
    BY <2>2, SingletonSeq DEF AccessInUse
  <2> QED
    BY <1>3, <2>5, <2>6 DEF SlotInv
<1> QED
  BY <1>4, <1>5, AnswerIsPortAnswer

(* A step that leaves the stages and the ring alone.                       *)
LEMMA SlotsRest ==
  ASSUME SlotInv, UNCHANGED <<stageVars, listVars>>,
         phase' = "exe" => phase \in {"mem", "exe"}, phase' = "mem" => phase = "mem"
  PROVE  SlotInv'
<1>1. SlotsInUse' = SlotsInUse
  BY DEF SlotsInUse, ExeUsesSlot, UsesSlot, stageVars
<1>2. ExeInv' /\ InOrder'
  BY DEF SlotInv, ExeInv, InOrder, SlotAfterMem, ExeUsesSlot, UsesSlot, stageVars, listVars,
         NextSlot
<1>3. FlagsInUse' /\ AccessInUse'
  BY <1>1 DEF SlotInv, FlagsInUse, AccessInUse, UsesSlot, stageVars, listVars
<1> QED
  BY <1>2, <1>3 DEF SlotInv

(* WB takes an instruction out of the pipeline, or all of them.            *)
LEMMA SlotsWb ==
  ASSUME IInv, SlotInv, WbRetire \/ (ExcRedirect /\ RedirectFindsNoFlag)
  PROVE  SlotInv'
<1>1. CASE WbRetire
  <2>1. /\ UNCHANGED <<mem_inst, exe_inst, exe_end, exe_stall_cycle, listVars>>
        /\ wb_inst' = NoInst /\ phase' = "mem"
    BY <1>1 DEF WbRetire
  <2>2. SlotsInUse' = SlotsInUse
    BY <2>1 DEF SlotsInUse, ExeUsesSlot, UsesSlot
  <2>3. ExeInv' /\ InOrder'
    BY <2>1 DEF SlotInv, ExeInv, InOrder, SlotAfterMem, ExeUsesSlot, UsesSlot, listVars,
                NextSlot
  <2>4. FlagsInUse' /\ AccessInUse'
    BY <2>1, <2>2 DEF SlotInv, FlagsInUse, AccessInUse, UsesSlot, listVars
  <2> QED
    BY <2>3, <2>4 DEF SlotInv
<1>2. CASE ExcRedirect /\ RedirectFindsNoFlag
  <2>1. /\ wb_inst' = NoInst /\ mem_inst' = NoInst /\ exe_inst' = NoInst
        /\ exe_end' = FALSE /\ exe_stall_cycle' = 0 /\ pending' = <<>>
        /\ mem_end_map' = mem_end_map /\ \A i \in Ids : ~mem_end_map[i]
    BY <1>2 DEF ExcRedirect, RedirectFindsNoFlag
  <2>2. ExeInv' /\ InOrder'
    BY <2>1 DEF ExeInv, InOrder, ExeUsesSlot, UsesSlot
  <2>3. FlagsInUse' /\ AccessInUse'
    BY <2>1, SingletonSeq DEF FlagsInUse, AccessInUse
  <2> QED
    BY <2>2, <2>3 DEF SlotInv
<1> QED
  BY <1>1, <1>2

(* MEM consumes the flag of its own slot: the access of that slot is not   *)
(* out, and the slot EXE may have taken since is another one.              *)
LEMMA SlotsMemAccessDone ==
  ASSUME IInv, SlotInv, MemAccessDone
  PROVE  SlotInv'
<1> DEFINE s == mem_inst.mem_id
<1>1. /\ UsesSlot(mem_inst) /\ mem_end_map[s] /\ s \in Ids
      /\ mem_end_map' = [mem_end_map EXCEPT ![s] = FALSE]
      /\ wb_inst' = mem_inst /\ mem_inst' = NoInst /\ phase' = "exe"
      /\ UNCHANGED <<exe_inst, exe_end, exe_stall_cycle, mem_tail, pending>>
  BY DEF MemAccessDone, UsesSlot, IInv, TypeOK, StagesTypeOK, Inst
<1>2. mem_end_map \in [Ids -> BOOLEAN]
  BY DEF IInv, TypeOK, ListsTypeOK
<1>3. SlotAfterMem' = SlotAfterMem /\ NextSlot(s) = SlotAfterMem
  BY <1>1 DEF SlotInv, InOrder, SlotAfterMem, ExeUsesSlot, UsesSlot
<1>4. ExeInv'
  BY <1>1 DEF SlotInv, ExeInv
<1>5. InOrder'
  BY <1>1, <1>3 DEF SlotInv, InOrder, ExeUsesSlot, UsesSlot, NextSlot
<1>6. \A i \in SlotsInUse : i # s => i \in SlotsInUse'
  BY <1>1 DEF SlotsInUse, ExeUsesSlot, UsesSlot
<1>7. FlagsInUse'
  <2> SUFFICES ASSUME NEW i \in Ids, mem_end_map'[i]
               PROVE  i \in SlotsInUse'
    BY DEF FlagsInUse
  <2>1. i # s /\ mem_end_map[i]
    BY <1>1, <1>2
  <2> QED
    BY <1>6, <2>1 DEF SlotInv, FlagsInUse
<1>8. AccessInUse'
  <2> SUFFICES ASSUME NEW i \in Ids, pending' = <<i>>
               PROVE  i \in SlotsInUse' /\ ~mem_end_map'[i] /\ i # s
    BY <1>1 DEF AccessInUse
  <2>1. i \in SlotsInUse /\ ~mem_end_map[i]
    BY <1>1 DEF SlotInv, AccessInUse
  <2>2. i # s
    BY <1>1, <2>1
  <2>3. i \in SlotsInUse' /\ mem_end_map'[i] = mem_end_map[i]
    BY <1>1, <1>2, <1>6, <2>1, <2>2
  <2> QED
    BY <2>1, <2>2, <2>3
<1> QED
  BY <1>4, <1>5, <1>7, <1>8 DEF SlotInv

(* MEM hands on an instruction that uses no slot.                          *)
LEMMA SlotsMemPass ==
  ASSUME IInv, SlotInv, MemPass
  PROVE  SlotInv'
<1>1. /\ ~UsesSlot(mem_inst) /\ wb_inst' = mem_inst /\ mem_inst' = NoInst /\ phase' = "exe"
      /\ UNCHANGED <<exe_inst, exe_end, exe_stall_cycle, listVars>>
  BY DEF MemPass, UsesSlot
<1>2. SlotsInUse' = SlotsInUse
  BY <1>1 DEF SlotsInUse, ExeUsesSlot, UsesSlot
<1>3. ExeInv' /\ InOrder'
  BY <1>1 DEF SlotInv, ExeInv, InOrder, SlotAfterMem, ExeUsesSlot, UsesSlot, listVars,
              NextSlot
<1>4. FlagsInUse' /\ AccessInUse'
  BY <1>1, <1>2 DEF SlotInv, FlagsInUse, AccessInUse, UsesSlot, listVars
<1> QED
  BY <1>3, <1>4 DEF SlotInv

(* EXE goes on with an instruction that uses no slot.                      *)
LEMMA SlotsExeLocal ==
  ASSUME IInv, SlotInv, ExeStall \/ ExeStartStall \/ ExePass \/ ExeFence
  PROVE  SlotInv'
<1>1. /\ UNCHANGED <<wb_inst, mem_inst, exe_inst, listVars>> /\ phase' = "move"
      /\ exe_inst # NoInst
  BY DEF ExeStall, ExeStartStall, ExePass, ExeFence, InExe
<1>2. exe_inst.kind \notin MemKinds
  BY DEF ExeStall, ExeStartStall, ExePass, ExeFence, InExe, SlotInv, ExeInv, MemKinds
<1>3. ~ExeUsesSlot /\ ~ExeUsesSlot'
  BY <1>1, <1>2 DEF ExeUsesSlot, UsesSlot
<1>4. SlotsInUse' = SlotsInUse
  BY <1>1, <1>3 DEF SlotsInUse, UsesSlot
<1>5. ExeInv'
  <2>1. exe_stall_cycle \in Nat /\ StallDelay \in Nat
    BY DataSideAssumption DEF IInv, TypeOK, StagesTypeOK
  <2>2. CASE ExeStall
    <3>1. PICK n \in Nat : n = exe_stall_cycle
      BY <2>1
    <3>2. n > 0 /\ exe_stall_cycle' = n - 1 /\ exe_end' = (n = 1 \/ exe_end)
      BY <2>2, <3>1 DEF ExeStall
    <3>3. exe_end = FALSE /\ exe_inst.kind = "other"
      <4>1. exe_stall_cycle > 0 /\ exe_stall_cycle # 0
        BY <3>1, <3>2
      <4>2. exe_end \in BOOLEAN
        BY DEF IInv, TypeOK, StagesTypeOK
      <4> QED
        BY <4>1, <4>2 DEF SlotInv, ExeInv
    <3>4. n = 1 \/ (n - 1 > 0 /\ n # 1)
      BY <3>1, <3>2
    <3>5. n # 1 => exe_end' = FALSE
      BY <3>2, <3>3, Zenon
    <3> QED
      BY <1>1, <3>2, <3>3, <3>4, <3>5 DEF ExeInv
  <2>3. CASE ExeStartStall
    BY <1>1, <2>1, <2>3 DEF ExeStartStall, InExe, SlotInv, ExeInv
  <2>4. CASE ExePass \/ ExeFence
    BY <1>1, <2>4 DEF ExePass, ExeFence, InExe, ExeInv
  <2> QED
    BY <2>2, <2>3, <2>4
<1>6. InOrder'
  BY <1>1, <1>3 DEF SlotInv, InOrder, SlotAfterMem, UsesSlot, listVars, NextSlot
<1>7. FlagsInUse' /\ AccessInUse'
  BY <1>1, <1>4 DEF SlotInv, FlagsInUse, AccessInUse, UsesSlot, listVars
<1> QED
  BY <1>5, <1>6, <1>7 DEF SlotInv

(* EXE takes the next slot: it differs from that of the instruction before, *)
(* which MEM or WB may still hold.                                         *)
LEMMA SlotsTaken ==
  ASSUME RetireSize >= 2, IInv, SlotInv,
         ExeScFail \/ \E line \in Lines : ExeLookup(line)
  PROVE  SlotInv'
<1> DEFINE t == mem_tail
<1>1. /\ phase = "exe" /\ phase' = "move" /\ UNCHANGED <<wb_inst, mem_inst, exe_stall_cycle>>
      /\ ~exe_end /\ exe_stall_cycle = 0 /\ exe_end'
      /\ exe_inst' = [exe_inst EXCEPT !.mem_id = t] /\ UsesSlot(exe_inst)
      /\ mem_tail' = NextSlot(t)
  BY DEF ExeScFail, ExeLookup, InExe, UsesSlot, MemKinds
<1>2. t \in Ids /\ exe_inst \in Inst /\ mem_end_map \in [Ids -> BOOLEAN]
  BY <1>1 DEF IInv, TypeOK, StagesTypeOK, ListsTypeOK, UsesSlot
<1>3. exe_inst'.mem_id = t /\ ExeUsesSlot'
  <2>1. exe_inst' \in Inst /\ exe_inst'.mem_id = t /\ exe_inst'.kind = exe_inst.kind
    BY <1>1, <1>2 DEF Inst
  <2> QED
    BY <1>1, <2>1, NoInstAssumption DEF ExeUsesSlot, UsesSlot
<1>4. /\ UsesSlot(mem_inst) => NextSlot(mem_inst.mem_id) = t /\ mem_inst.mem_id # t
      /\ UsesSlot(wb_inst) => NextSlot(wb_inst.mem_id) = t /\ wb_inst.mem_id # t
  <2>1. /\ UsesSlot(mem_inst) => NextSlot(mem_inst.mem_id) = t /\ mem_inst.mem_id \in Ids
        /\ UsesSlot(wb_inst) => NextSlot(wb_inst.mem_id) = t /\ wb_inst.mem_id \in Ids
    BY <1>1 DEF SlotInv, InOrder, SlotAfterMem, ExeUsesSlot, UsesSlot, IInv, TypeOK,
                StagesTypeOK, Inst
  <2> QED
    BY <2>1, NextSlotDiffers
<1>5. SlotsInUse' = SlotsInUse \cup {t} /\ t \notin SlotsInUse
  BY <1>1, <1>3, <1>4 DEF SlotsInUse, ExeUsesSlot, UsesSlot
<1>6. ExeInv'
  BY <1>1, <1>3 DEF ExeInv, ExeUsesSlot, UsesSlot
<1>7. InOrder'
  BY <1>1, <1>3, <1>4 DEF InOrder, SlotAfterMem, UsesSlot, NextSlot
<1>8. ~mem_end_map[t]
  BY <1>2, <1>5 DEF SlotInv, FlagsInUse
<1>9. CASE ExeScFail
  <2>1. mem_end_map' = [mem_end_map EXCEPT ![t] = TRUE] /\ pending' = pending
    BY <1>9 DEF ExeScFail
  <2>2. FlagsInUse'
    BY <1>2, <1>5, <2>1 DEF SlotInv, FlagsInUse
  <2>3. AccessInUse'
    <3> SUFFICES ASSUME NEW i \in Ids, pending = <<i>>
                 PROVE  i \in SlotsInUse' /\ ~mem_end_map'[i]
                        /\ (UsesSlot(wb_inst) => wb_inst.mem_id # i)
      BY <1>1, <2>1 DEF AccessInUse, UsesSlot
    <3>1. i \in SlotsInUse /\ ~mem_end_map[i] /\ (UsesSlot(wb_inst) => wb_inst.mem_id # i)
      BY DEF SlotInv, AccessInUse
    <3>2. i # t /\ mem_end_map'[i] = mem_end_map[i]
      BY <1>2, <1>5, <2>1, <3>1
    <3> QED
      BY <1>5, <3>1, <3>2
  <2> QED
    BY <1>6, <1>7, <2>2, <2>3 DEF SlotInv
<1>10. CASE \E line \in Lines : ExeLookup(line)
  <2>1. mem_end_map' = mem_end_map /\ pending' = Append(pending, t) /\ CanAccept
    BY <1>10 DEF ExeLookup, Accept
  <2>2. pending = <<>>
    <3>1. idle_req = NoReq /\ state # "MISS" /\ ~(state = "LOOKUP" /\ ~match)
      BY <1>1, <2>1 DEF CanAccept, IInv, LookedUpNextTick
    <3> QED
      BY <3>1, UnansweredCases DEF IInv, TypeOK, NoRequestLost
  <2>3. pending' = <<t>>
    BY <1>2, <2>1, <2>2, SingletonSeq
  <2>4. FlagsInUse'
    BY <1>5, <2>1 DEF SlotInv, FlagsInUse
  <2>5. AccessInUse'
    <3> SUFFICES ASSUME NEW i \in Ids, <<t>> = <<i>>
                 PROVE  i \in SlotsInUse' /\ ~mem_end_map'[i]
                        /\ (UsesSlot(wb_inst) => wb_inst.mem_id # i)
      BY <1>1, <2>3 DEF AccessInUse, UsesSlot
    <3>1. i = t
      OBVIOUS
    <3> QED
      BY <1>4, <1>5, <1>8, <2>1, <3>1
  <2> QED
    BY <1>6, <1>7, <2>4, <2>5 DEF SlotInv
<1> QED
  BY <1>9, <1>10

(* A refused lookup takes no slot.                                         *)
LEMMA SlotsRefused ==
  ASSUME IInv, SlotInv, ExeLookupRefused
  PROVE  SlotInv'
<1>1. /\ ~exe_end /\ ~exe_end' /\ exe_stall_cycle = 0 /\ phase' = "move"
      /\ UNCHANGED <<wb_inst, mem_inst, exe_stall_cycle, listVars>>
  BY DEF ExeLookupRefused, InExe
<1>2. SlotsInUse' = SlotsInUse
  BY <1>1 DEF SlotsInUse, ExeUsesSlot, UsesSlot
<1>3. ExeInv' /\ InOrder'
  BY <1>1 DEF SlotInv, ExeInv, InOrder, SlotAfterMem, ExeUsesSlot, UsesSlot, listVars,
              NextSlot
<1>4. FlagsInUse' /\ AccessInUse'
  BY <1>1, <1>2 DEF SlotInv, FlagsInUse, AccessInUse, UsesSlot, listVars
<1> QED
  BY <1>3, <1>4 DEF SlotInv

(* EXE -> MEM, and ID -> EXE.                                              *)
LEMMA SlotsMove ==
  ASSUME IInv, SlotInv, MoveToMem \/ \E kind \in Kinds : Issue(kind)
  PROVE  SlotInv'
<1>1. CASE MoveToMem
  <2>1. /\ exe_inst # NoInst /\ exe_end /\ mem_inst = NoInst /\ phase' = "issue"
        /\ mem_inst' = exe_inst /\ exe_inst' = NoInst /\ exe_end' = FALSE
        /\ UNCHANGED <<wb_inst, exe_stall_cycle, listVars>>
    BY <1>1 DEF MoveToMem
  <2>2. SlotsInUse' = SlotsInUse
    BY <2>1 DEF SlotsInUse, ExeUsesSlot, UsesSlot
  <2>3. ExeInv' /\ InOrder'
    BY <2>1 DEF SlotInv, ExeInv, InOrder, SlotAfterMem, ExeUsesSlot, UsesSlot, listVars,
                NextSlot
  <2>4. FlagsInUse' /\ AccessInUse'
    BY <2>1, <2>2 DEF SlotInv, FlagsInUse, AccessInUse, UsesSlot, listVars
  <2> QED
    BY <2>3, <2>4 DEF SlotInv
<1>2. CASE \E kind \in Kinds : Issue(kind)
  <2>1. /\ exe_inst = NoInst /\ phase' = "memory"
        /\ UNCHANGED <<wb_inst, mem_inst, exe_end, exe_stall_cycle, listVars>>
    BY <1>2 DEF Issue
  <2>2. ~exe_end /\ ~(exe_stall_cycle > 0)
    BY <2>1 DEF SlotInv, ExeInv
  <2>3. SlotsInUse' = SlotsInUse
    BY <2>1, <2>2 DEF SlotsInUse, ExeUsesSlot, UsesSlot
  <2>4. ExeInv' /\ InOrder'
    BY <2>1, <2>2 DEF SlotInv, ExeInv, InOrder, SlotAfterMem, ExeUsesSlot, UsesSlot,
                      listVars, NextSlot
  <2>5. FlagsInUse' /\ AccessInUse'
    BY <2>1, <2>3 DEF SlotInv, FlagsInUse, AccessInUse, UsesSlot, listVars
  <2> QED
    BY <2>4, <2>5 DEF SlotInv
<1> QED
  BY <1>1, <1>2

(* Every step, unless a redirect leaves a flag behind.                     *)
LEMMA NextSlotInv ==
  ASSUME RetireSize >= 2, IInv, SlotInv, [Next]_vars, [RedirectFindsNoFlag]_vars
  PROVE  SlotInv'
<1>1. CASE MemoryResponse \/ DCacheTick
  BY <1>1, SlotsAnswer
<1>2. CASE WbRetire
  BY <1>2, SlotsWb
<1>3. CASE MemAccessDone
  BY <1>3, SlotsMemAccessDone
<1>4. CASE MemPass
  BY <1>4, SlotsMemPass
<1>5. CASE ExeStall \/ ExeStartStall \/ ExePass \/ ExeFence
  BY <1>5, SlotsExeLocal
<1>6. CASE ExeScFail \/ \E line \in Lines : ExeLookup(line)
  BY <1>6, SlotsTaken
<1>7. CASE ExeLookupRefused
  BY <1>7, SlotsRefused
<1>8. CASE MoveToMem \/ \E kind \in Kinds : Issue(kind)
  BY <1>8, SlotsMove
<1>9. CASE MemoryQuiet \/ MemWait \/ ExeIdle \/ MoveWait \/ NoIssue
  <2>1. /\ UNCHANGED <<stageVars, listVars>>
        /\ phase' = "exe" => phase \in {"mem", "exe"}
        /\ phase' = "mem" => phase = "mem"
    BY <1>9 DEF MemoryQuiet, MemWait, ExeIdle, MoveWait, NoIssue
  <2> QED
    BY <2>1, SlotsRest
<1>10. CASE UNCHANGED vars
  <2>1. UNCHANGED <<stageVars, listVars>> /\ phase' = phase
    BY <1>10 DEF vars
  <2> QED
    BY <2>1, SlotsRest
<1>11. CASE ExcRedirect /\ phase' # phase
  <2>1. RedirectFindsNoFlag
    BY <1>11 DEF vars
  <2> QED
    BY <1>11, <2>1, SlotsWb
<1>12. ExcRedirect => phase' # phase
  BY DEF ExcRedirect
<1> QED
  BY <1>1, <1>2, <1>3, <1>4, <1>5, <1>6, <1>7, <1>8, <1>9, <1>10, <1>11, <1>12
     DEF Next, CpuStage

(* With two slots or more, an instruction retires before its own access is *)
(* answered only behind a redirect that found the flag of an answered      *)
(* access and left it set (excRedirect, mem_end_map).                      *)
THEOREM OnlyLeftFlagsRetireEarly ==
  ASSUME RetireSize >= 2
  PROVE  Spec /\ [][RedirectFindsNoFlag]_vars => []RetiredAfterAnswer
<1>1. Init => SlotInv
  <2> SUFFICES ASSUME Init PROVE SlotInv
    OBVIOUS
  <2>1. \A i \in Ids : <<i>> # <<>>
    BY SingletonSeq
  <2> QED
    BY <2>1 DEF Init, SlotInv, ExeInv, InOrder, FlagsInUse, AccessInUse, ExeUsesSlot, UsesSlot
<1>2. IInv /\ SlotInv /\ [Next]_vars /\ [RedirectFindsNoFlag]_vars => SlotInv'
  BY NextSlotInv
<1>3. IInv /\ SlotInv => RetiredAfterAnswer
  <2> SUFFICES ASSUME IInv, SlotInv, UsesSlot(wb_inst)
               PROVE  \A i \in DOMAIN pending : pending[i] # wb_inst.mem_id
    BY DEF RetiredAfterAnswer, UsesSlot, MemKinds
  <2>1. CASE pending = <<>>
    BY <2>1
  <2>2. CASE \E i \in Ids : pending = <<i>>
    <3>1. PICK s \in Ids : pending = <<s>>
      BY <2>2
    <3>2. wb_inst.mem_id # s
      BY <3>1 DEF SlotInv, AccessInUse
    <3> QED
      BY <3>1, <3>2
  <2> QED
    BY <2>1, <2>2, OneAccess
<1> QED
  BY <1>1, <1>2, <1>3, Invariance, PTL DEF Spec

=============================================================================
