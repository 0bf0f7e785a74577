-------------------------- MODULE FetchSideProofs --------------------------
(***************************************************************************)
(* Proofs about FetchSide for every address space, cache geometry, set of  *)
(* branch targets and delay: the type invariant and the safety properties  *)
(* of the front end.                                                       *)
(*                                                                         *)
(* The invariant comes in layers, each inductive given those before it:    *)
(*   FrontInv  what fetch, ID and the ICache wait for,                     *)
(*   Order     what can be behind an instruction that will redirect,       *)
(*   PathInv   how the chunks on their way relate to the functional pc,    *)
(*   Bounded   how far id_remain_size gets on a wrong path,                *)
(*   AgeInv    how many objects the rings hand out while one is in use.    *)
(***************************************************************************)
EXTENDS FetchSide, CacheLemmas

-----------------------------------------------------------------------------
(* What the operators on instructions keep.                                *)

(* Ageing an instruction of the front end changes nothing else of it.      *)
LEMMA OlderInst ==
  ASSUME NEW inst \in IdInst \cup {NoInst}, NEW ring
  PROVE  /\ Older(inst, ring) \in IdInst \cup {NoInst}
         /\ Older(inst, ring) = NoInst <=> inst = NoInst
         /\ inst # NoInst =>
              /\ Older(inst, ring).chunk = inst.chunk
              /\ Older(inst, ring).real_pc = inst.real_pc
              /\ Older(inst, ring).kind = inst.kind
              /\ Older(inst, ring).size = inst.size
              /\ Older(inst, ring).exc = inst.exc
              /\ Older(inst, ring).taken = inst.taken
              /\ Older(inst, ring).next_pc = inst.next_pc
<1>1. CASE inst # NoInst /\ inst.obj.ring = ring /\ inst.obj.age < RetireSize
  <2>1. inst \in IdInst /\ inst.obj \in Ages
    BY <1>1 DEF IdInst
  <2>2. [inst.obj EXCEPT !.age = @ + 1] \in Ages
    BY <1>1, <2>1, FetchSideAssumption DEF Ages
  <2>3. Older(inst, ring) = [inst EXCEPT !.obj = [inst.obj EXCEPT !.age = @ + 1]]
    BY <1>1, <2>1 DEF Older, IdInst
  <2>4. Older(inst, ring) \in IdInst
    BY <2>1, <2>2, <2>3 DEF IdInst
  <2> QED
    BY <1>1, <2>1, <2>3, <2>4, NoInstAssumption DEF IdInst
<1>2. CASE ~(inst # NoInst /\ inst.obj.ring = ring /\ inst.obj.age < RetireSize)
  BY <1>2 DEF Older
<1> QED
  BY <1>1, <1>2

(* Nor of an instruction of the back end.                                  *)
LEMMA OlderBack ==
  ASSUME NEW inst \in BackInst \cup {NoInst}, NEW ring
  PROVE  /\ Older(inst, ring) \in BackInst \cup {NoInst}
         /\ Older(inst, ring) = NoInst <=> inst = NoInst
         /\ inst # NoInst =>
              /\ Older(inst, ring).kind = inst.kind
              /\ Older(inst, ring).target = inst.target
              /\ Older(inst, ring).done = inst.done
<1>1. CASE inst # NoInst /\ inst.obj.ring = ring /\ inst.obj.age < RetireSize
  <2>1. inst \in BackInst /\ inst.obj \in Ages
    BY <1>1 DEF BackInst
  <2>2. [inst.obj EXCEPT !.age = @ + 1] \in Ages
    BY <1>1, <2>1, FetchSideAssumption DEF Ages
  <2>3. Older(inst, ring) = [inst EXCEPT !.obj = [inst.obj EXCEPT !.age = @ + 1]]
    BY <1>1, <2>1 DEF Older, BackInst
  <2>4. Older(inst, ring) \in BackInst
    BY <2>1, <2>2, <2>3 DEF BackInst
  <2> QED
    BY <1>1, <2>1, <2>3, <2>4, NoInstAssumption DEF BackInst
<1>2. CASE ~(inst # NoInst /\ inst.obj.ring = ring /\ inst.obj.age < RetireSize)
  BY <1>2 DEF Older
<1> QED
  BY <1>1, <1>2

(* Addresses wrap inside the address space.                                *)
LEMMA PlusType ==
  ASSUME NEW a \in Addr, NEW n \in Int
  PROVE  Plus(a, n) \in Addr
  BY FetchSideAssumption DEF Plus, Addr

(* An Inst that fetch hands out is one, and carries the address it is for. *)
LEMMA FreshType ==
  ASSUME NEW a \in Addr
  PROVE  FreshInst(a) \in IdInst /\ FreshInst(a).chunk = a /\ ~FreshInst(a).exc
<1>1. 0 \in Addr /\ [ring |-> "req", age |-> 0] \in Ages
  BY FetchSideAssumption DEF Addr, Ages
<1> QED
  BY <1>1 DEF FreshInst, IdInst, Kinds

(* ID's copy of an instruction that EXE has.                               *)
LEMMA SpentType ==
  ASSUME NEW inst \in IdInst
  PROVE  /\ Spent(inst) \in IdInst
         /\ Spent(inst).chunk = inst.chunk /\ Spent(inst).exc = inst.exc
<1>1. inst.chunk \in Addr /\ inst.exc \in BOOLEAN /\ inst.obj \in Ages
  BY DEF IdInst
<1>2. FreshInst(inst.chunk) \in IdInst /\ FreshInst(inst.chunk).chunk = inst.chunk
  BY <1>1, FreshType
<1> QED
  BY <1>1, <1>2 DEF Spent, IdInst

(* What goes to EXE is an instruction of the back end.                     *)
LEMMA BackOfType ==
  ASSUME NEW inst \in IdInst, NEW target \in Addr, NEW fail \in BOOLEAN,
         NEW done \in BOOLEAN
  PROVE  /\ BackOf(inst, target, fail, done) \in BackInst
         /\ BackOf(inst, target, fail, done).done = done
         /\ BackOf(inst, target, fail, done).kind \in {"redirects", "exc"} =>
              BackOf(inst, target, fail, done).target = target
         /\ BackOf(inst, target, fail, done).kind = "exc" <=> inst.exc
         /\ BackOf(inst, target, fail, done).kind = "redirects" <=>
              ~inst.exc /\ inst.kind \in {"cond", "jump"} /\ fail
<1> DEFINE kind == BackOf(inst, target, fail, done).kind
<1>1. kind \in BackKinds /\ inst.obj \in Ages /\ inst.exc \in BOOLEAN
  BY DEF BackOf, BackKinds, IdInst
<1>2. 0 \in Addr
  BY FetchSideAssumption DEF Addr
<1> QED
  BY <1>1, <1>2 DEF BackOf, BackInst, BackKinds

(* preId fills in the Inst it takes and keeps the chunk it came in.        *)
LEMMA DecodedType ==
  ASSUME pc \in Addr, NEW d \in Decodes, NEW inst,
         NewChunk => inst \in IdInst, ~NewChunk => id_inst \in IdInst
  PROVE  /\ Decoded(inst, d) \in IdInst
         /\ Decoded(inst, d).chunk = IF NewChunk THEN inst.chunk ELSE id_inst.chunk
         /\ Faults(inst, d) \/ d.exc => Decoded(inst, d).exc
         /\ ~Faults(inst, d) /\ ~d.exc =>
              /\ Decoded(inst, d).real_pc = pc
              /\ Decoded(inst, d).kind = d.kind
              /\ Decoded(inst, d).size = d.size
              /\ ~Decoded(inst, d).exc
              /\ Decoded(inst, d).taken = d.taken
              /\ Decoded(inst, d).next_pc =
                   IF d.taken THEN d.next_pc ELSE Plus(pc, d.size)
<1> DEFINE b == Base(inst)
<1>1. b \in IdInst /\ b.chunk = IF NewChunk THEN inst.chunk ELSE id_inst.chunk
  <2>1. [ring |-> "extra", age |-> 0] \in Ages
    BY FetchSideAssumption DEF Ages
  <2>2. CASE NewChunk
    BY <2>2 DEF Base
  <2>3. CASE ~NewChunk
    BY <2>1, <2>3 DEF Base, IdInst
  <2> QED
    BY <2>2, <2>3
<1>2. /\ d.fault \in BOOLEAN /\ d.exc \in BOOLEAN /\ d.kind \in Kinds /\ d.size \in {1, 2}
      /\ d.taken \in BOOLEAN /\ d.next_pc \in Addr
  BY FetchSideAssumption DEF Decodes
<1>3. Plus(pc, d.size) \in Addr
  BY <1>2, PlusType
<1> HIDE DEF b
<1>4. CASE Faults(inst, d) \/ d.exc
  <2>1. Decoded(inst, d) = [b EXCEPT !.exc = TRUE]
    BY <1>4 DEF Decoded, b
  <2> QED
    BY <1>1, <1>4, <2>1 DEF IdInst
<1>5. CASE ~Faults(inst, d) /\ ~d.exc
  <2> DEFINE n == IF d.taken THEN d.next_pc ELSE Plus(pc, d.size)
  <2>1. Decoded(inst, d) = [b EXCEPT !.real_pc = pc, !.kind = d.kind, !.size = d.size,
                              !.exc = FALSE, !.taken = d.taken, !.next_pc = n]
    BY <1>5 DEF Decoded, b
  <2>2. n \in Addr
    BY <1>2, <1>3
  <2> HIDE DEF n
  <2>3. Decoded(inst, d) \in IdInst
    BY <1>1, <1>2, <2>1, <2>2 DEF IdInst
  <2>4. /\ Decoded(inst, d).chunk = b.chunk
        /\ Decoded(inst, d).real_pc = pc
        /\ Decoded(inst, d).kind = d.kind
        /\ Decoded(inst, d).size = d.size
        /\ ~Decoded(inst, d).exc
        /\ Decoded(inst, d).taken = d.taken
        /\ Decoded(inst, d).next_pc = n
    BY <1>1, <2>1 DEF IdInst
  <2> QED
    BY <1>1, <1>5, <2>3, <2>4 DEF n
<1> QED
  BY <1>4, <1>5

(* What is kept of an instruction that leaves EXE or MEM.                  *)
LEMMA PastType ==
  ASSUME NEW inst \in BackInst, NEW past \in {PastExe(inst), PastMem(inst)}
  PROVE  /\ past \in BackInst /\ past # NoInst
         /\ past.done = inst.done /\ past.obj = inst.obj
         /\ past.kind = "exc" <=> inst.kind = "exc"
         /\ inst.kind = "exc" => past.target = inst.target
<1>1. 0 \in Addr
  BY FetchSideAssumption DEF Addr
<1>2. CASE past = PastExe(inst)
  <2>1. CASE inst.kind \in {"mem", "exc"}
    BY <1>2, <2>1, NoInstAssumption DEF PastExe
  <2>2. CASE inst.kind \notin {"mem", "exc"}
    <3>1. past = [inst EXCEPT !.kind = "quick", !.target = 0]
      BY <1>2, <2>2 DEF PastExe
    <3>2. past \in BackInst
      BY <1>1, <3>1 DEF BackInst, BackKinds
    <3> QED
      BY <2>2, <3>1, <3>2, NoInstAssumption DEF BackInst
  <2> QED
    BY <2>1, <2>2
<1>3. CASE past = PastMem(inst)
  <2>1. CASE inst.kind = "exc"
    BY <1>3, <2>1, NoInstAssumption DEF PastMem
  <2>2. CASE inst.kind # "exc"
    <3>1. past = [inst EXCEPT !.kind = "quick"]
      BY <1>3, <2>2 DEF PastMem
    <3>2. past \in BackInst
      BY <3>1 DEF BackInst, BackKinds
    <3> QED
      BY <2>2, <3>1, <3>2, NoInstAssumption DEF BackInst
  <2> QED
    BY <2>1, <2>2
<1> QED
  BY <1>2, <1>3

LEMMA PastExeMem ==
  ASSUME NEW inst \in BackInst
  PROVE  PastExe(inst).kind = "mem" <=> inst.kind = "mem"
BY DEF PastExe, BackInst

(* What preId leaves of the chunk; Finished says that it is nothing.       *)
LEMMA RemainType ==
  ASSUME id_remain_size \in Int, NEW d \in Decodes, NEW inst
  PROVE  /\ RemainAfter(inst, d) \in Int
         /\ Redirects(inst, d) => RemainAfter(inst, d) = 0
         /\ Redirects(inst, d) => Finished(inst, d)
         /\ ~Finished(inst, d) => RemainAfter(inst, d) > 0 /\ ~Faults(inst, d)
         /\ ~Faults(inst, d) /\ Finished(inst, d) => RemainAfter(inst, d) <= 0
<1>1. d.size \in {1, 2}
  BY DEF Decodes
<1>2. RemainAfter(inst, d) \in Int
  BY <1>1 DEF RemainAfter, ChunkSize
<1> QED
  BY <1>2 DEF RemainAfter, Finished, Redirects

-----------------------------------------------------------------------------
(* cache_reqs, when the next request is prepared.                          *)

(* What fetch's prepare does to the ring of requests: one more Inst, and   *)
(* the addresses of the others stay.                                       *)
LEMMA PreparedReqs ==
  ASSUME NEW reqs \in Seq(IdInst), NEW a \in Addr
  PROVE  LET q == Append([i \in DOMAIN reqs |-> Older(reqs[i], "req")], FreshInst(a))
         IN  /\ q \in Seq(IdInst)
             /\ Len(q) = Len(reqs) + 1
             /\ q[Len(reqs) + 1] = FreshInst(a)
             /\ \A i \in 1 .. Len(reqs) : q[i].chunk = reqs[i].chunk /\ q[i].exc = reqs[i].exc
<1> DEFINE old == [i \in DOMAIN reqs |-> Older(reqs[i], "req")]
<1>1. DOMAIN reqs = 1 .. Len(reqs) /\ Len(reqs) \in Nat
  OBVIOUS
<1>2. \A i \in 1 .. Len(reqs) : reqs[i] \in IdInst
  BY ElementOfSeq
<1>3. \A i \in 1 .. Len(reqs) : /\ Older(reqs[i], "req") \in IdInst
                                /\ Older(reqs[i], "req").chunk = reqs[i].chunk
                                /\ Older(reqs[i], "req").exc = reqs[i].exc
  BY <1>2, OlderInst, NoInstAssumption
<1>4. old \in [1 .. Len(reqs) -> IdInst]
  BY <1>1, <1>3
<1>5. old \in Seq(IdInst) /\ Len(old) = Len(reqs)
  BY <1>1, <1>4, SeqDef, LenProperties
<1>6. FreshInst(a) \in IdInst
  BY FreshType
<1>7. \A i \in 1 .. Len(reqs) : old[i] = Older(reqs[i], "req")
  BY <1>1
<1> HIDE DEF old
<1> DEFINE q == Append(old, FreshInst(a))
<1>8. /\ q \in Seq(IdInst) /\ Len(q) = Len(old) + 1
      /\ \A i \in 1 .. Len(old) : q[i] = old[i]
      /\ q[Len(old) + 1] = FreshInst(a)
  BY <1>5, <1>6, AppendProperties
<1> QED
  BY <1>3, <1>5, <1>7, <1>8 DEF old

-----------------------------------------------------------------------------
(* The ICache.  One request at most is inside it (Busy, for BusyLine), one *)
(* at most is at its parent, and a response is waited for only when one is *)
(* owed.  A request is looked up in the tick after the cache accepts it,   *)
(* which no flush can delay: idle_req is only found set by the tick.       *)

(* The ICache holds a request that it has not answered, and its line.      *)
Busy == state = "MISS" \/ (state = "LOOKUP" /\ ~match) \/ idle_req # NoReq
BusyLine == IF idle_req # NoReq THEN idle_req ELSE lookup_req

(* One request at the parent, expected, and no accepted request meets a    *)
(* flush or another one.                                                   *)
OneMiss ==
  /\ Len(owed) <= 1
  /\ owed # <<>> => state = "MISS" \/ req_clear_wait
  /\ state = "MISS" => owed # <<>> /\ ~req_clear_wait /\ ~flush_valid
  /\ state = "REFILL" => phase = "icache" /\ ~flush_valid
  /\ idle_req # NoReq =>
       /\ phase \in {"memory", "icache"} /\ ~flush_valid
       /\ state = "IDLE" \/ (state = "LOOKUP" /\ match)

(* The part of the invariant that is about the ICache alone.               *)
CacheInv == CacheTypeOK /\ OneMiss /\ RedirectResets

(* ICache::lookup finds no other request inside the cache.                 *)
LEMMA AcceptKeeps ==
  ASSUME CacheInv, phase = "fetch", phase' = "memory", NEW line \in Lines, Accept(line)
  PROVE  CacheInv' /\ ~Busy /\ Busy' /\ BusyLine' = line
  BY ICacheAssumption
  DEF CacheInv, CacheTypeOK, OneMiss, RedirectResets, Accept, CanAccept, flush_valid,
      Busy, BusyLine

(* ICache::flush, when no request is at the parent.                        *)
LEMMA FlushKeeps ==
  ASSUME CacheInv, phase = "exe", phase' = "move", state \in {"IDLE", "LOOKUP"}, Flush
  PROVE  CacheInv' /\ Busy' = Busy /\ BusyLine' = BusyLine
<1>1. SetSize \in 0 .. SetSize
  BY CacheAssumption
<1> QED
  BY <1>1 DEF CacheInv, CacheTypeOK, OneMiss, RedirectResets, Flush, flush_valid,
              Busy, BusyLine

(* ICache::redirect leaves no request inside the cache.                    *)
LEMMA RedirectKeeps ==
  ASSUME CacheInv, phase \notin {"memory", "icache"}, Redirect
  PROVE  CacheInv' /\ ~Busy' /\ state' = "IDLE"
  BY DEF CacheInv, CacheTypeOK, OneMiss, RedirectResets, Redirect, flush_valid, Busy,
         CacheStates

(* The cache does nothing.                                                 *)
LEMMA CacheRests ==
  ASSUME CacheInv, UNCHANGED cacheVars,
         phase' = "icache" \/ state # "REFILL",
         phase' \in {"memory", "icache"} \/ idle_req = NoReq
  PROVE  CacheInv' /\ Busy' = Busy /\ BusyLine' = BusyLine /\ state' = state /\ match' = match
  BY DEF CacheInv, CacheTypeOK, OneMiss, RedirectResets, cacheVars, flush_valid, Busy,
         BusyLine

(* ICache::tick keeps the request inside, unless it answers it.            *)
LEMMA TickKeeps ==
  ASSUME CacheInv, phase = "icache", phase' = "wb", NEW red \in BOOLEAN, Tick(red)
  PROVE  /\ CacheInv'
         /\ TickAnswers => Busy /\ ~Busy'
         /\ ~TickAnswers => ~red /\ Busy' = Busy /\ (Busy => BusyLine' = BusyLine)
         /\ state = "IDLE" \/ (state = "LOOKUP" /\ match) => state' \in {"IDLE", "LOOKUP"}
<1> USE DEF CacheInv, OneMiss, RedirectResets, flush_valid, Busy, BusyLine
<1>1. CASE FlushTick
  <2>1. SetSize - flush_num \in Sets /\ flush_num' \in 0 .. SetSize
    BY <1>1, CacheAssumption DEF FlushTick, CacheTypeOK, Sets
  <2>2. tagvs' \in TagArray
    BY <1>1, <2>1, ClearSetType DEF FlushTick, CacheTypeOK
  <2>3. CacheTypeOK'
    BY <1>1, <2>1, <2>2 DEF FlushTick, CacheTypeOK
  <2>4. ~TickAnswers /\ ~red /\ flush_num > 0
    BY <1>1 DEF FlushTick, TickAnswers, TakesIdleReq, Tick, LookupTick
  <2>5. OneMiss' /\ RedirectResets'
    BY <1>1, <2>4 DEF FlushTick
  <2> QED
    BY <1>1, <2>3, <2>4, <2>5 DEF FlushTick
<1>2. CASE LookupTick(red)
  <2>1. CacheTypeOK'
    BY <1>2 DEF LookupTick, TakesIdleReq, CacheTypeOK, CacheStates, Present
  <2>2. OneMiss' /\ RedirectResets'
    BY <1>2 DEF LookupTick, TakesIdleReq
  <2>3. Busy /\ BusyLine = idle_req
    BY <1>2 DEF LookupTick, TakesIdleReq
  <2>4. TickAnswers => ~Busy'
    BY <1>2 DEF LookupTick, TickAnswers
  <2>5. ~TickAnswers => ~red /\ Busy' /\ BusyLine' = idle_req
    BY <1>2 DEF LookupTick, TickAnswers
  <2>6. state' \in {"IDLE", "LOOKUP"}
    BY <1>2 DEF LookupTick
  <2> QED
    BY <2>1, <2>2, <2>3, <2>4, <2>5, <2>6 DEF CacheInv
<1>3. CASE ~red /\ SendMiss
  <2>1. lookup_req \in Lines
    BY <1>3 DEF SendMiss, CanSendMiss, CacheTypeOK
  <2>2. replace_way' \in Ways /\ lru' \in VictimLists
    BY <1>3, <2>1, SetOfInRange, VictimType DEF SendMiss, CacheTypeOK
  <2>3. owed = <<>>
    BY <1>3 DEF SendMiss, CanSendMiss
  <2>4. owed' \in Seq(Lines) /\ owed' # <<>> /\ Len(owed') = 1
    BY <1>3, <2>1, <2>3 DEF SendMiss
  <2>5. CacheTypeOK'
    BY <1>3, <2>1, <2>2, <2>4, ICacheAssumption DEF SendMiss, CacheTypeOK, CacheStates
  <2>6. ~TickAnswers /\ idle_req = NoReq
    BY <1>3 DEF SendMiss, CanSendMiss, TickAnswers, TakesIdleReq
  <2>7. OneMiss' /\ RedirectResets'
    BY <1>3, <2>4, <2>6 DEF SendMiss, CanSendMiss
  <2> QED
    BY <1>3, <2>5, <2>6, <2>7 DEF SendMiss, CanSendMiss
<1>4. CASE ~red /\ StepTick
  <2>1. CacheTypeOK'
    BY <1>4 DEF StepTick, CacheTypeOK, CacheStates
  <2>2. ~TickAnswers /\ idle_req = NoReq /\ state # "MISS"
    BY <1>4 DEF StepTick, TickAnswers, TakesIdleReq
  <2>3. OneMiss' /\ RedirectResets'
    BY <1>4, <2>2 DEF StepTick
  <2> QED
    BY <1>4, <2>1, <2>2, <2>3 DEF StepTick
<1>5. CASE ~red /\ (ParentRefuses \/ WaitClearTick \/ RestTick)
  <2>1. ~TickAnswers /\ idle_req = NoReq /\ state # "REFILL" /\ UNCHANGED cacheVars
    BY <1>5 DEF ParentRefuses, WaitClearTick, RestTick, CanSendMiss, TickAnswers,
                TakesIdleReq
  <2> QED
    BY <1>5, <2>1, CacheRests
<1> QED
  BY <1>1, <1>2, <1>3, <1>4, <1>5 DEF Tick

(* The parent's callback answers the request inside, unless a redirect     *)
(* left the response to be swallowed.                                      *)
LEMMA ResponseKeeps ==
  ASSUME CacheInv, phase = "memory", phase' = "icache", NEW red \in BOOLEAN, Response(red)
  PROVE  /\ CacheInv'
         /\ ResponseAnswers => Busy /\ ~Busy'
         /\ ~ResponseAnswers => /\ ~red /\ Busy' = Busy /\ (Busy => BusyLine' = BusyLine)
                                /\ state' = state /\ match' = match
<1> USE DEF CacheInv, OneMiss, RedirectResets, flush_valid
<1>1. owed \in Seq(Lines) /\ owed # <<>> /\ Len(owed) <= 1 /\ owed' = Tail(owed)
  BY DEF Response, CacheTypeOK
<1>2. owed' \in Seq(Lines) /\ owed' = <<>> /\ Len(owed') = 0
  <2>1. Tail(owed) \in Seq(Lines) /\ Len(Tail(owed)) = Len(owed) - 1 /\ Len(owed) \in Nat
    BY <1>1
  <2> QED
    BY <1>1, <2>1, EmptySeq
<1>3. lookup_req \in Lines /\ tagvs' \in TagArray
  BY <1>1, InstallType DEF Response, CacheTypeOK
<1>4. CacheTypeOK'
  BY <1>2, <1>3 DEF Response, CacheTypeOK, CacheStates, WaitsAfter
<1>5. ResponseAnswers => /\ state = "MISS" /\ idle_req = NoReq /\ idle_req' = NoReq
                         /\ state' \in {"IDLE", "REFILL"} /\ ~flush_valid /\ ~req_clear_wait'
  BY DEF Response, ResponseAnswers, WaitsAfter
<1>6. ~ResponseAnswers => /\ ~red /\ req_clear_wait /\ state # "MISS" /\ state # "REFILL"
                          /\ state' = state /\ idle_req' = idle_req /\ ~req_clear_wait'
                          /\ match' = match /\ lookup_req' = lookup_req
  BY <1>1 DEF Response, ResponseAnswers, WaitsAfter
<1>7. OneMiss' /\ RedirectResets'
  BY <1>2, <1>5, <1>6 DEF Response
<1> QED
  BY <1>4, <1>5, <1>6, <1>7 DEF Busy, BusyLine

-----------------------------------------------------------------------------
(* The requests and the front end.  At most one request is sent and not    *)
(* called back (Sending), it is the one inside the ICache, and ID is free  *)
(* for its answer.                                                         *)

(* Types, but for the bound of id_remain_size (Bounded, below).            *)
FrontType ==
  /\ phase \in Phases
  /\ pc \in Addr /\ pred_pc \in Addr /\ fetch_valid \in BOOLEAN
  /\ cache_reqs \in Seq(IdInst)
  /\ id_valid \in BOOLEAN /\ id_inst \in IdInst \cup {NoInst}
  /\ id_remain_size \in Int
  /\ id_stall_valid \in BOOLEAN /\ id_stall_dec_more \in BOOLEAN
  /\ id_stall_inst_valid \in BOOLEAN /\ id_wait_redirect \in BOOLEAN
  /\ id_stall_inst \in IdInst \cup {NoInst}
  /\ exe_inst \in BackInst \cup {NoInst}
  /\ mem_inst \in BackInst \cup {NoInst}
  /\ wb_inst \in BackInst \cup {NoInst}
  /\ exe_end \in BOOLEAN
  /\ id_inst = NoInst => ~id_valid /\ id_remain_size <= 0

(* How many of the requests in cache_req_list have been sent to the        *)
(* ICache: the last one has not while fetch_valid is set.                  *)
Sending == Len(cache_reqs) - (IF fetch_valid THEN 1 ELSE 0)

(* What the CPU has sent is what the ICache works on: at most one request, *)
(* of the oldest Inst's line, and only while ID is free to take the        *)
(* answer.                                                                 *)
Queue ==
  /\ Sending \in {0, 1}
  /\ Sending = 1 <=> Busy
  /\ Busy => LineOf(cache_reqs[1].chunk) = BusyLine /\ ~id_valid /\ ~id_stall_valid

(* A stall has its rest, id_stall_inst is never set, and a stall is over   *)
(* before fetch asks for more.                                             *)
Requests ==
  /\ StallHasRest
  /\ ~id_stall_inst_valid
  /\ phase = "fetch" => id_valid \/ ~id_stall_valid

(* When fence.i is in EXE, nothing that is inside the ICache is at the     *)
(* parent, nor will be before EXE flushes it.                              *)
FencePending == exe_inst # NoInst /\ exe_inst.kind = "ifence" /\ ~exe_end
FenceAlone ==
  FencePending =>
    /\ phase \notin {"move", "id"}
    /\ state \in {"IDLE", "LOOKUP"}
    /\ phase \in {"stall", "fetch", "memory", "icache"} /\ state = "LOOKUP" => match

(* The first layer of the invariant: who waits for whom.                   *)
FrontInv == FrontType /\ CacheInv /\ Queue /\ Requests /\ FenceAlone

(* Every address lies in a line.                                           *)
LEMMA LineOfType ==
  ASSUME NEW a \in Addr
  PROVE  LineOf(a) \in Lines
  BY FetchSideAssumption DEF LineOf

(* The two cases of Sending, as arithmetic.                                *)
LEMMA SendingIs ==
  /\ fetch_valid => Sending = Len(cache_reqs) - 1
  /\ ~fetch_valid => Sending = Len(cache_reqs) - 0
  BY DEF Sending

(* The ring that a redirect leaves.                                        *)
LEMMA NoReqs == <<>> \in Seq(IdInst) /\ Len(<<>>) = 0
  OBVIOUS

(* One more object of a ring is handed out: the back end only ages.        *)
Same(i, j) ==
  /\ j = NoInst <=> i = NoInst
  /\ i # NoInst => j.kind = i.kind /\ j.target = i.target /\ j.done = i.done
BackAges ==
  /\ Same(exe_inst, exe_inst') /\ Same(mem_inst, mem_inst') /\ Same(wb_inst, wb_inst')
  /\ exe_end' = exe_end
  /\ {exe_inst, mem_inst, wb_inst}' \subseteq BackInst \cup {NoInst}

(* Handing out an Inst changes the back end's instructions only in age.    *)
LEMMA AgeAllAges ==
  ASSUME FrontType, NEW ring, AgeAll(ring), exe_end' = exe_end
  PROVE  BackAges
<1>1. /\ Older(exe_inst, ring) \in BackInst \cup {NoInst} /\ Same(exe_inst, Older(exe_inst, ring))
      /\ Older(mem_inst, ring) \in BackInst \cup {NoInst} /\ Same(mem_inst, Older(mem_inst, ring))
      /\ Older(wb_inst, ring) \in BackInst \cup {NoInst} /\ Same(wb_inst, Older(wb_inst, ring))
  BY OlderBack DEF FrontType, Same
<1> QED
  BY <1>1 DEF BackAges, AgeAll

(* So does, trivially, a step that leaves the back end alone.              *)
LEMMA BackRests ==
  ASSUME FrontType, UNCHANGED backVars
  PROVE  BackAges
  BY DEF FrontType, BackAges, Same, backVars

(* PipelineCPU::preId keeps everything typed.                              *)
LEMMA PreIdType ==
  ASSUME FrontType, NEW d \in Decodes, NEW inst, NewChunk => inst \in IdInst,
         PreId(inst, d), exe_end' = exe_end
  PROVE  id_inst' \in IdInst /\ id_remain_size' \in Int /\ BackAges
<1>1. ~NewChunk => id_inst \in IdInst
  BY DEF FrontType, NewChunk
<1>2. id_inst' \in IdInst
  BY <1>1, DecodedType DEF PreId, FrontType
<1>3. id_remain_size' \in Int
  BY RemainType DEF PreId, FrontType
<1>4. BackAges
  BY AgeAllAges, BackRests DEF PreId, backVars
<1> QED
  BY <1>2, <1>3, <1>4

-----------------------------------------------------------------------------
(* The actions keep FrontInv.                                              *)

(* The callback answers the one request there is.                          *)
LEMMA CallbackKeeps ==
  ASSUME FrontType, Queue, Requests, Busy, NEW d \in Decodes, Callback(d),
         ~Busy', UNCHANGED <<pc, id_wait_redirect>>, phase' \in {"icache", "wb"}
  PROVE  /\ FrontType' /\ Queue' /\ Requests' /\ BackAges
         /\ ~id_valid /\ ~id_stall_valid /\ Head(cache_reqs) \in IdInst
<1> DEFINE inst == Head(cache_reqs)
<1>1. ~id_valid /\ ~id_stall_valid /\ Sending = 1
  BY DEF Queue
<1>2. /\ cache_reqs \in Seq(IdInst) /\ Len(cache_reqs) \in Nat /\ cache_reqs # <<>>
      /\ inst \in IdInst /\ Tail(cache_reqs) \in Seq(IdInst)
      /\ Len(Tail(cache_reqs)) = Len(cache_reqs) - 1
  <2>1. cache_reqs \in Seq(IdInst) /\ Len(cache_reqs) \in Nat /\ Len(cache_reqs) > 0
    <3>1. cache_reqs \in Seq(IdInst) /\ Len(cache_reqs) \in Nat
      BY DEF FrontType
    <3>2. Sending = Len(cache_reqs) - 1 \/ Sending = Len(cache_reqs) - 0
      BY SendingIs
    <3> QED
      BY <1>1, <3>1, <3>2
  <2> QED
    BY <2>1
<1> HIDE DEF inst
<1>3. /\ id_valid' = TRUE
      /\ PreId(inst, d)
      /\ id_stall_valid' = ~Finished(inst, d)
      /\ id_stall_dec_more' = ~Finished(inst, d)
      /\ IF Redirects(inst, d)
           THEN /\ RefetchFrom(d.next_pc)
                /\ id_stall_inst_valid' = FALSE
           ELSE /\ cache_reqs' = Tail(cache_reqs)
                /\ UNCHANGED <<pred_pc, fetch_valid, id_stall_inst_valid>>
      /\ UNCHANGED <<id_stall_inst, exe_end>>
  BY <1>1 DEF Callback, inst
<1>4. id_inst' \in IdInst /\ id_remain_size' \in Int /\ BackAges
  BY <1>2, <1>3, PreIdType
<1>5. d.next_pc \in Addr
  BY FetchSideAssumption DEF Decodes
<1>6. FrontType'
  <2>1. pred_pc' \in Addr /\ fetch_valid' \in BOOLEAN /\ cache_reqs' \in Seq(IdInst)
    BY <1>2, <1>3, <1>5, NoReqs DEF RefetchFrom, FrontType
  <2>2. id_stall_valid' \in BOOLEAN /\ id_stall_dec_more' \in BOOLEAN
        /\ id_stall_inst_valid' \in BOOLEAN /\ id_stall_inst' \in IdInst \cup {NoInst}
    BY <1>3 DEF FrontType
  <2>3. phase' \in Phases /\ exe_end' \in BOOLEAN
    BY <1>3 DEF Phases, FrontType
  <2> QED
    BY <1>3, <1>4, <2>1, <2>2, <2>3, NoInstAssumption DEF FrontType, BackAges
<1>7. Queue'
  <2>1. Sending' = 0
    <3>1. CASE Redirects(inst, d)
      <4>1. fetch_valid' = FALSE /\ cache_reqs' = <<>>
        BY <1>3, <3>1 DEF RefetchFrom
      <4> QED
        BY <4>1, NoReqs DEF Sending
    <3>2. CASE ~Redirects(inst, d)
      <4>1. fetch_valid' = fetch_valid /\ Len(cache_reqs') = Len(cache_reqs) - 1
        BY <1>2, <1>3, <3>2
      <4>2. CASE fetch_valid
        BY <1>1, <1>2, <4>1, <4>2, SendingIs DEF Sending
      <4>3. CASE ~fetch_valid
        BY <1>1, <1>2, <4>1, <4>3, SendingIs DEF Sending
      <4> QED
        BY <4>2, <4>3
    <3> QED
      BY <3>1, <3>2
  <2> QED
    BY <2>1 DEF Queue
<1>8. Requests'
  <2>1. ~Finished(inst, d) => id_remain_size' > 0
    BY <1>3, RemainType DEF PreId, FrontType
  <2> QED
    BY <1>3, <2>1 DEF Requests, StallHasRest
<1> QED
  BY <1>1, <1>2, <1>4, <1>6, <1>7, <1>8 DEF inst

(* Steps that leave the front end and the ICache alone.                    *)
LEMMA FrontRests ==
  ASSUME FrontInv, UNCHANGED <<cacheVars, fetchVars, idVars>>,
         phase' \in Phases,
         phase' = "icache" \/ phase # "icache",
         phase' \in {"memory", "icache"} \/ phase \notin {"memory", "icache"},
         phase' = "fetch" => id_valid \/ ~id_stall_valid,
         exe_inst' \in BackInst \cup {NoInst}, mem_inst' \in BackInst \cup {NoInst},
         wb_inst' \in BackInst \cup {NoInst}, exe_end' \in BOOLEAN,
         FencePending' => /\ FencePending
                          /\ phase' \notin {"move", "id"}
                          /\ phase' \in {"stall", "fetch", "memory", "icache"} =>
                               phase \in {"stall", "fetch", "memory", "icache"}
  PROVE  FrontInv'
<1>1. CacheInv' /\ Busy' = Busy /\ BusyLine' = BusyLine /\ state' = state /\ match' = match
  BY CacheRests DEF FrontInv, CacheInv, OneMiss
<1>2. FrontType'
  BY DEF FrontInv, FrontType, fetchVars, idVars, stallVars
<1>3. Queue'
  BY <1>1 DEF FrontInv, Queue, Sending, fetchVars, idVars, stallVars
<1>4. Requests'
  BY DEF FrontInv, Requests, StallHasRest, idVars, stallVars
<1>5. FenceAlone'
  BY <1>1 DEF FrontInv, FenceAlone
<1> QED
  BY <1>1, <1>2, <1>3, <1>4, <1>5 DEF FrontInv

(* ICache::redirect together with what its callers do to the front end.    *)
LEMMA RedirectClears ==
  ASSUME FrontInv, phase \notin {"memory", "icache"}, Redirect, NEW a \in Addr,
         RefetchFrom(a), ClearStall
  PROVE  /\ CacheInv' /\ state' = "IDLE" /\ Queue'
         /\ pred_pc' \in Addr /\ fetch_valid' \in BOOLEAN /\ cache_reqs' \in Seq(IdInst)
         /\ id_stall_valid' = FALSE /\ id_stall_dec_more' = FALSE
         /\ id_stall_inst_valid' = FALSE /\ id_stall_inst' = id_stall_inst
<1>1. CacheInv' /\ ~Busy' /\ state' = "IDLE"
  BY RedirectKeeps DEF FrontInv
<1>2. fetch_valid' = FALSE /\ cache_reqs' = <<>> /\ Sending' = 0
  <2>1. fetch_valid' = FALSE /\ cache_reqs' = <<>>
    BY DEF RefetchFrom
  <2> QED
    BY <2>1, NoReqs DEF Sending
<1>3. Queue'
  BY <1>1, <1>2 DEF Queue
<1> QED
  BY <1>1, <1>2, <1>3, NoReqs DEF RefetchFrom, ClearStall

(* The initial state, and then one lemma for each action.                  *)
LEMMA FrontInit ==
  ASSUME Init
  PROVE  FrontInv
<1>1. CacheInv
  <2>1. 0 \in Ways /\ 0 \in 0 .. SetSize
    BY CacheAssumption DEF Ways
  <2>2. <<>> \in Seq(Lines) /\ Len(<<>>) = 0
    OBVIOUS
  <2>3. owed = <<>> /\ tagvs = EmptyTags /\ lru = InitVictims
    BY DEF Init, CacheInit
  <2>4. owed \in Seq(Lines) /\ Len(owed) = 0 /\ tagvs \in TagArray /\ lru \in VictimLists
    BY <2>2, <2>3, EmptyTagsType, InitVictimsType
  <2>5. /\ state = "IDLE" /\ idle_req = NoReq /\ lookup_req = NoReq /\ match = FALSE
        /\ req_clear_wait = FALSE /\ replace_way = 0 /\ flush_num = 0
    BY DEF Init, CacheInit
  <2>6. CacheTypeOK
    BY <2>1, <2>3, <2>4, <2>5 DEF CacheTypeOK, CacheStates
  <2>7. OneMiss /\ RedirectResets
    BY <2>3, <2>4, <2>5 DEF OneMiss, RedirectResets
  <2> QED
    BY <2>6, <2>7 DEF CacheInv
<1>2. FrontType
  <2>1. 0 \in Addr
    BY FetchSideAssumption DEF Addr
  <2>2. cache_reqs \in Seq(IdInst)
    BY NoReqs DEF Init
  <2>3. /\ phase = "memory" /\ pc = 0 /\ pred_pc = 0 /\ fetch_valid = FALSE
        /\ id_valid = FALSE /\ id_inst = NoInst /\ id_remain_size = 0
        /\ id_stall_valid = FALSE /\ id_stall_dec_more = FALSE
        /\ id_stall_inst_valid = FALSE /\ id_stall_inst = NoInst
        /\ id_wait_redirect = FALSE /\ exe_inst = NoInst /\ exe_end = FALSE
        /\ mem_inst = NoInst /\ wb_inst = NoInst
    BY DEF Init
  <2>4. phase \in Phases
    BY <2>3 DEF Phases
  <2>5. id_remain_size \in Int /\ id_remain_size <= 0
    BY <2>3
  <2>6. /\ exe_inst \in BackInst \cup {NoInst}
        /\ mem_inst \in BackInst \cup {NoInst}
        /\ wb_inst \in BackInst \cup {NoInst}
        /\ id_inst \in IdInst \cup {NoInst}
        /\ id_stall_inst \in IdInst \cup {NoInst}
    BY <2>3
  <2> QED
    BY <2>1, <2>2, <2>3, <2>4, <2>5, <2>6 DEF FrontType
<1>3. Sending = 0 /\ ~Busy
  BY NoReqs DEF Init, CacheInit, Sending, Busy
<1> QED
  BY <1>1, <1>2, <1>3
  DEF Init, FrontInv, Queue, Requests, StallHasRest, FenceAlone, FencePending

LEMMA FrontMemoryResponse ==
  ASSUME FrontInv, MemoryResponse
  PROVE  FrontInv'
<1>1. CASE ResponseAnswers
  <2>1. PICK d \in Decodes : Callback(d) /\ Response(CallbackRedirects(d))
    BY <1>1 DEF MemoryResponse
  <2>2. CallbackRedirects(d) \in BOOLEAN
    BY DEF CallbackRedirects, Redirects, Faults, FrontInv, FrontType, Decodes
  <2>3. CacheInv' /\ Busy /\ ~Busy'
    BY <1>1, <2>1, <2>2, ResponseKeeps DEF MemoryResponse, FrontInv
  <2>4. FrontType' /\ Queue' /\ Requests' /\ BackAges
    BY <2>1, <2>3, CallbackKeeps DEF FrontInv, MemoryResponse
  <2>5. state = "MISS"
    BY <1>1 DEF ResponseAnswers, FrontInv, CacheInv, OneMiss
  <2>6. ~FencePending'
    BY <2>4, <2>5 DEF FrontInv, FenceAlone, FencePending, BackAges, Same
  <2> QED
    BY <2>3, <2>4, <2>6 DEF FrontInv, FenceAlone
<1>2. CASE ~ResponseAnswers
  <2>1. /\ Response(FALSE) /\ phase = "memory" /\ phase' = "icache"
        /\ UNCHANGED <<fetchVars, idVars, backVars>>
    BY <1>2 DEF MemoryResponse, fetchVars, idVars
  <2>2. /\ CacheInv' /\ Busy' = Busy /\ (Busy => BusyLine' = BusyLine)
        /\ state' = state /\ match' = match
    BY <1>2, <2>1, ResponseKeeps DEF FrontInv
  <2>3. FrontType'
    BY <2>1 DEF FrontInv, FrontType, Phases, fetchVars, idVars, stallVars, backVars
  <2>4. Queue'
    BY <2>1, <2>2 DEF FrontInv, Queue, Sending, fetchVars, idVars, stallVars
  <2>5. Requests'
    BY <2>1 DEF FrontInv, Requests, StallHasRest, idVars, stallVars
  <2>6. FenceAlone'
    BY <2>1, <2>2 DEF FrontInv, FenceAlone, FencePending, backVars
  <2> QED
    BY <2>2, <2>3, <2>4, <2>5, <2>6 DEF FrontInv
<1> QED
  BY <1>1, <1>2

LEMMA FrontICacheTick ==
  ASSUME FrontInv, ICacheTick
  PROVE  FrontInv'
<1>1. CASE TickAnswers
  <2>1. PICK d \in Decodes : Callback(d) /\ Tick(CallbackRedirects(d))
    BY <1>1 DEF ICacheTick
  <2>2. CallbackRedirects(d) \in BOOLEAN
    BY DEF CallbackRedirects, Redirects, Faults, FrontInv, FrontType, Decodes
  <2>3. /\ CacheInv' /\ Busy /\ ~Busy'
        /\ state = "IDLE" \/ (state = "LOOKUP" /\ match) => state' \in {"IDLE", "LOOKUP"}
    BY <1>1, <2>1, <2>2, TickKeeps DEF ICacheTick, FrontInv
  <2>4. FrontType' /\ Queue' /\ Requests' /\ BackAges
    BY <2>1, <2>3, CallbackKeeps DEF FrontInv, ICacheTick
  <2>5. FenceAlone'
    BY <2>3, <2>4 DEF FrontInv, FenceAlone, FencePending, BackAges, Same, ICacheTick
  <2> QED
    BY <2>3, <2>4, <2>5 DEF FrontInv
<1>2. CASE ~TickAnswers
  <2>1. /\ Tick(FALSE) /\ phase = "icache" /\ phase' = "wb"
        /\ UNCHANGED <<fetchVars, idVars, backVars>>
    BY <1>2 DEF ICacheTick, fetchVars, idVars
  <2>2. /\ CacheInv' /\ Busy' = Busy /\ (Busy => BusyLine' = BusyLine)
        /\ state = "IDLE" \/ (state = "LOOKUP" /\ match) => state' \in {"IDLE", "LOOKUP"}
    BY <1>2, <2>1, TickKeeps DEF FrontInv
  <2>3. FrontType'
    BY <2>1 DEF FrontInv, FrontType, Phases, fetchVars, idVars, stallVars, backVars
  <2>4. Queue'
    BY <2>1, <2>2 DEF FrontInv, Queue, Sending, fetchVars, idVars, stallVars
  <2>5. Requests'
    BY <2>1 DEF FrontInv, Requests, StallHasRest, idVars, stallVars
  <2>6. FenceAlone'
    BY <2>1, <2>2 DEF FrontInv, FenceAlone, FencePending, backVars
  <2> QED
    BY <2>2, <2>3, <2>4, <2>5, <2>6 DEF FrontInv
<1> QED
  BY <1>1, <1>2

(* The steps that only move instructions.                                  *)
LEMMA FrontMoves ==
  ASSUME FrontInv,
         \/ MemoryQuiet \/ WbRetire \/ MemToWb \/ MemWait
         \/ ExeIdle \/ ExeStay \/ ExePass \/ MoveToMem \/ MoveWait
         \/ NoHandOver \/ NoStall \/ FetchRefused \/ FetchBusy
  PROVE  FrontInv'
<1> USE DEF Phases, FencePending
<1>t. /\ exe_inst \in BackInst \cup {NoInst} /\ mem_inst \in BackInst \cup {NoInst}
      /\ wb_inst \in BackInst \cup {NoInst} /\ exe_end \in BOOLEAN
      /\ FencePending => phase \notin {"move", "id"}
  BY DEF FrontInv, FrontType, FenceAlone
<1>1. CASE MemoryQuiet
  BY <1>1, <1>t, FrontRests DEF MemoryQuiet, backVars
<1>2. CASE WbRetire
  BY <1>2, <1>t, FrontRests DEF WbRetire
<1>3. CASE MemToWb
  <2>1. wb_inst' \in BackInst
    BY <1>3, <1>t, PastType DEF MemToWb
  <2> QED
    BY <1>3, <1>t, <2>1, FrontRests DEF MemToWb
<1>4. CASE MemWait
  BY <1>4, <1>t, FrontRests DEF MemWait, backVars
<1>5. CASE ExeIdle
  BY <1>5, <1>t, FrontRests DEF ExeIdle, backVars
<1>6. CASE ExeStay
  BY <1>6, <1>t, FrontRests DEF ExeStay, InExe, backVars
<1>7. CASE ExePass
  BY <1>7, <1>t, FrontRests DEF ExePass, InExe
<1>8. CASE MoveToMem
  <2>1. mem_inst' \in BackInst
    BY <1>8, <1>t, PastType DEF MoveToMem
  <2> QED
    BY <1>8, <1>t, <2>1, FrontRests DEF MoveToMem
<1>9. CASE MoveWait
  BY <1>9, <1>t, FrontRests DEF MoveWait, backVars
<1>10. CASE NoHandOver
  BY <1>10, <1>t, FrontRests DEF NoHandOver, backVars
<1>11. CASE NoStall
  BY <1>11, <1>t, FrontRests DEF NoStall, backVars
<1>12. CASE FetchRefused
  BY <1>12, <1>t, FrontRests DEF FetchRefused, backVars
<1>13. CASE FetchBusy
  BY <1>13, <1>t, FrontRests DEF FetchBusy, backVars
<1> QED
  BY <1>1, <1>2, <1>3, <1>4, <1>5, <1>6, <1>7, <1>8, <1>9, <1>10, <1>11, <1>12, <1>13

LEMMA FrontExcRedirect ==
  ASSUME FrontInv, ExcRedirect
  PROVE  FrontInv'
<1>1. wb_inst.target \in Addr
  BY DEF FrontInv, FrontType, ExcRedirect, BackInst
<1>2. /\ CacheInv' /\ Queue'
      /\ pred_pc' \in Addr /\ fetch_valid' \in BOOLEAN /\ cache_reqs' \in Seq(IdInst)
      /\ id_stall_valid' = FALSE /\ id_stall_dec_more' = FALSE
      /\ id_stall_inst_valid' = FALSE /\ id_stall_inst' = id_stall_inst
  BY <1>1, RedirectClears DEF ExcRedirect
<1>3. phase' = "mem" /\ exe_inst' = NoInst
  BY DEF ExcRedirect
<1>4. FrontType'
  <2>1. id_remain_size' \in Int /\ id_remain_size' <= 0 /\ id_valid' = FALSE
        /\ id_wait_redirect' = FALSE
    BY DEF ExcRedirect, ClearId
  <2> QED
    BY <1>2, <2>1 DEF FrontInv, FrontType, ExcRedirect, Phases
<1> QED
  BY <1>2, <1>3, <1>4 DEF FrontInv, Requests, StallHasRest, FenceAlone, FencePending

LEMMA FrontBrRedirect ==
  ASSUME FrontInv, BrRedirect
  PROVE  FrontInv'
<1>1. exe_inst.target \in Addr
  BY DEF FrontInv, FrontType, BrRedirect, InExe, BackInst
<1>2. /\ CacheInv' /\ Queue'
      /\ pred_pc' \in Addr /\ fetch_valid' \in BOOLEAN /\ cache_reqs' \in Seq(IdInst)
      /\ id_stall_valid' = FALSE /\ id_stall_dec_more' = FALSE
      /\ id_stall_inst_valid' = FALSE /\ id_stall_inst' = id_stall_inst
  BY <1>1, RedirectClears DEF BrRedirect, InExe
<1>3. phase' = "move" /\ exe_end' = TRUE
  BY DEF BrRedirect
<1>4. FrontType'
  <2>1. id_remain_size' \in Int /\ id_remain_size' <= 0 /\ id_valid' = FALSE
        /\ id_wait_redirect' = FALSE
    BY DEF BrRedirect, ClearId
  <2> QED
    BY <1>2, <2>1 DEF FrontInv, FrontType, BrRedirect, Phases
<1> QED
  BY <1>2, <1>3, <1>4 DEF FrontInv, Requests, StallHasRest, FenceAlone, FencePending

(* fence.i: only here does a flush begin.                                  *)
LEMMA FrontExeIfence ==
  ASSUME FrontInv, ExeIfence
  PROVE  FrontInv'
<1>1. phase = "exe" /\ phase' = "move" /\ FencePending /\ exe_end' = TRUE
  BY DEF ExeIfence, InExe, FencePending
<1>2. CacheInv' /\ Busy' = Busy /\ BusyLine' = BusyLine
  BY <1>1, FlushKeeps DEF FrontInv, FenceAlone, ExeIfence
<1>3. FrontType'
  BY <1>1 DEF ExeIfence, FrontInv, FrontType, Phases, fetchVars, idVars, stallVars
<1>4. Queue'
  BY <1>2 DEF ExeIfence, FrontInv, Queue, Sending, fetchVars, idVars, stallVars
<1>5. Requests'
  BY <1>1 DEF ExeIfence, FrontInv, Requests, StallHasRest, idVars, stallVars
<1> QED
  BY <1>1, <1>2, <1>3, <1>4, <1>5 DEF FrontInv, FenceAlone, FencePending

(* Nothing is inside the ICache when ID has an instruction.                *)
LEMMA IdleWhenValid ==
  ASSUME FrontInv, id_valid, phase \notin {"icache"}
  PROVE  /\ ~Busy /\ Sending = 0
         /\ state \in {"IDLE", "LOOKUP"} /\ (state = "LOOKUP" => match)
  BY DEF FrontInv, Queue, Busy, CacheInv, CacheTypeOK, OneMiss, CacheStates

LEMMA FrontHandOver ==
  ASSUME FrontInv, NEW real \in Addr, NEW fail \in BOOLEAN, HandOver(real, fail)
  PROVE  FrontInv'
<1> DEFINE b == BackOf(id_inst, real, fail, TRUE)
<1>1. /\ id_valid /\ id_inst \in IdInst /\ phase = "id" /\ phase' = "stall"
      /\ exe_inst' = b /\ id_inst' = Spent(id_inst) /\ id_valid' = FALSE /\ pc' = real
      /\ exe_inst = NoInst
  BY DEF HandOver, CanHandOver, FrontInv, FrontType
<1>2. /\ ~Busy /\ Sending = 0
      /\ state \in {"IDLE", "LOOKUP"} /\ (state = "LOOKUP" => match)
  BY <1>1, IdleWhenValid
<1>3. b \in BackInst
  BY <1>1, BackOfType
<1>4. id_inst' \in IdInst
  BY <1>1, SpentType
<1> HIDE DEF b
<1>5. WaitsForRedirect(exe_inst') \in BOOLEAN
  BY DEF WaitsForRedirect
<1>6. CASE ~id_inst.exc /\ id_inst.kind = "satp"
  <2>1. ClearStall /\ id_remain_size' = 0 /\ RefetchFrom(real) /\ Redirect
    BY <1>6 DEF HandOver
  <2>2. /\ CacheInv' /\ state' = "IDLE" /\ Queue'
        /\ pred_pc' \in Addr /\ fetch_valid' \in BOOLEAN /\ cache_reqs' \in Seq(IdInst)
        /\ id_stall_valid' = FALSE /\ id_stall_dec_more' = FALSE
        /\ id_stall_inst_valid' = FALSE /\ id_stall_inst' = id_stall_inst
    BY <1>1, <2>1, RedirectClears
  <2>3. FrontType'
    <3>1. id_remain_size' \in Int /\ id_inst' # NoInst
      BY <1>4, <2>1, NoInstAssumption
    <3> QED
      BY <1>1, <1>3, <1>4, <1>5, <2>2, <3>1 DEF HandOver, FrontInv, FrontType, Phases
  <2> QED
    BY <1>1, <2>2, <2>3 DEF FrontInv, Requests, StallHasRest, FenceAlone
<1>7. CASE ~(~id_inst.exc /\ id_inst.kind = "satp")
  <2>1. UNCHANGED <<stallVars, id_remain_size, pred_pc, fetch_valid, cache_reqs, cacheVars>>
    BY <1>7 DEF HandOver
  <2>2. CacheInv' /\ Busy' = Busy /\ BusyLine' = BusyLine /\ state' = state /\ match' = match
    BY <1>1, <1>2, <2>1, CacheRests DEF FrontInv, CacheInv, OneMiss, Busy
  <2>3. FrontType'
    BY <1>1, <1>3, <1>4, <1>5, <2>1, NoInstAssumption
    DEF HandOver, FrontInv, FrontType, Phases, stallVars
  <2>4. Queue'
    BY <1>1, <1>2, <2>1, <2>2 DEF Queue, Sending, stallVars
  <2>5. Requests'
    BY <1>1, <2>1 DEF FrontInv, Requests, StallHasRest, stallVars
  <2> QED
    BY <1>1, <1>2, <2>2, <2>3, <2>4, <2>5 DEF FrontInv, FenceAlone
<1> QED
  BY <1>6, <1>7

LEMMA FrontHandOverWrongPath ==
  ASSUME FrontInv, NEW target \in Targets, NEW fail \in BOOLEAN,
         HandOverWrongPath(target, fail)
  PROVE  FrontInv'
<1> DEFINE b == BackOf(id_inst, target, fail, FALSE)
<1>1. /\ id_valid /\ id_inst \in IdInst /\ phase = "id" /\ phase' = "stall"
      /\ exe_inst' = b /\ id_inst' = Spent(id_inst) /\ id_valid' = FALSE
  BY DEF HandOverWrongPath, CanHandOver, FrontInv, FrontType
<1>2. /\ ~Busy /\ Sending = 0
      /\ state \in {"IDLE", "LOOKUP"} /\ (state = "LOOKUP" => match)
  BY <1>1, IdleWhenValid
<1>3. target \in Addr
  BY FetchSideAssumption
<1>4. b \in BackInst
  BY <1>1, <1>3, BackOfType
<1>5. id_inst' \in IdInst
  BY <1>1, SpentType
<1> HIDE DEF b
<1>6. /\ UNCHANGED <<cacheVars, fetchVars, id_remain_size, stallVars, id_wait_redirect,
                     exe_end, mem_inst, wb_inst>>
  BY DEF HandOverWrongPath
<1>7. CacheInv' /\ Busy' = Busy /\ BusyLine' = BusyLine /\ state' = state /\ match' = match
  BY <1>1, <1>2, <1>6, CacheRests DEF FrontInv, CacheInv, OneMiss, Busy
<1>8. FrontType'
  BY <1>1, <1>4, <1>5, <1>6, NoInstAssumption
  DEF FrontInv, FrontType, Phases, stallVars, fetchVars
<1>9. Queue'
  BY <1>1, <1>2, <1>6, <1>7 DEF Queue, Sending, stallVars, fetchVars
<1>10. Requests'
  BY <1>1, <1>6 DEF FrontInv, Requests, StallHasRest, stallVars
<1> QED
  BY <1>1, <1>2, <1>7, <1>8, <1>9, <1>10 DEF FrontInv, FenceAlone

(* The stalled instruction is the next one of the chunk.                   *)
LEMMA FrontStallStep ==
  ASSUME FrontInv, NEW d \in Decodes, StallStep(d)
  PROVE  FrontInv' /\ BackAges
<1> DEFINE inst == id_stall_inst
<1>1. /\ phase = "stall" /\ phase' = "fetch" /\ ~id_valid /\ id_stall_valid
      /\ id_stall_dec_more /\ ~id_stall_inst_valid /\ ~NewChunk
      /\ PreId(inst, d) /\ id_valid' = TRUE
      /\ UNCHANGED <<pc, id_stall_inst, id_wait_redirect, exe_end>>
  BY DEF StallStep, FrontInv, FrontType, Requests, StallHasRest, NewChunk
<1>2. id_inst' \in IdInst /\ id_remain_size' \in Int /\ BackAges
  BY <1>1, PreIdType DEF FrontInv
<1>3. /\ id_stall_dec_more' \in BOOLEAN /\ id_stall_inst_valid' = FALSE
      /\ id_stall_valid' \in BOOLEAN
      /\ id_stall_valid' =>
           /\ id_stall_dec_more' /\ id_remain_size' > 0
  <2>1. /\ Redirects(inst, d) \in BOOLEAN /\ Finished(inst, d) \in BOOLEAN
        /\ Redirects(inst, d) => Finished(inst, d)
        /\ ~Finished(inst, d) => id_remain_size' > 0
    BY <1>1, RemainType DEF FrontInv, FrontType, PreId, Redirects, Finished, Faults, Decodes
  <2>2. /\ id_stall_dec_more' = (~Redirects(inst, d) /\ ~Finished(inst, d))
        /\ id_stall_inst_valid' = FALSE
        /\ id_stall_valid' = IF ~Redirects(inst, d) THEN ~Finished(inst, d)
                             ELSE FALSE
    BY <1>1, <2>1 DEF StallStep
  <2> QED
    BY <2>1, <2>2
<1>4. CASE Redirects(inst, d)
  <2>1. RefetchFrom(d.next_pc) /\ Redirect
    BY <1>4 DEF StallStep
  <2>2. d.next_pc \in Addr
    BY FetchSideAssumption DEF Decodes
  <2>3. CacheInv' /\ ~Busy' /\ state' = "IDLE"
    BY <1>1, <2>1, RedirectKeeps DEF FrontInv
  <2>4. /\ pred_pc' \in Addr /\ fetch_valid' = FALSE /\ cache_reqs' = <<>>
        /\ cache_reqs' \in Seq(IdInst) /\ Len(cache_reqs') = 0
    BY <2>1, <2>2, NoReqs DEF RefetchFrom
  <2>5. Queue'
    BY <2>3, <2>4 DEF Queue, Sending
  <2>6. FrontType'
    BY <1>1, <1>2, <1>3, <2>4, NoInstAssumption DEF FrontInv, FrontType, Phases, BackAges
  <2> QED
    BY <1>1, <1>2, <1>3, <2>3, <2>5, <2>6 DEF FrontInv, Requests, StallHasRest, FenceAlone
<1>5. CASE ~Redirects(inst, d)
  <2>1. UNCHANGED <<pred_pc, fetch_valid, cache_reqs, cacheVars>>
    BY <1>5 DEF StallStep
  <2>2. ~Busy /\ Sending = 0
    BY <1>1 DEF FrontInv, Queue
  <2>3. CacheInv' /\ Busy' = Busy /\ state' = state /\ match' = match
    BY <1>1, <2>1, <2>2, CacheRests DEF FrontInv, CacheInv, OneMiss, Busy
  <2>4. Queue'
    BY <2>1, <2>2, <2>3 DEF Queue, Sending
  <2>5. FrontType'
    BY <1>1, <1>2, <1>3, <2>1, NoInstAssumption DEF FrontInv, FrontType, Phases, BackAges
  <2>6. FenceAlone'
    BY <1>1, <1>2, <2>3 DEF FrontInv, FenceAlone, FencePending, BackAges, Same
  <2>7. Requests'
    BY <1>1, <1>3 DEF Requests, StallHasRest
  <2> QED
    BY <1>2, <2>3, <2>4, <2>5, <2>6, <2>7 DEF FrontInv
<1> QED
  BY <1>2, <1>4, <1>5

(* Preparing the next request, whatever is kept of cache_reqs.             *)
LEMMA PrepareType ==
  ASSUME FrontType, NEW reqs \in Seq(IdInst), NEW aged \in IdInst \cup {NoInst},
         Prepare(reqs, aged), exe_end' = exe_end
  PROVE  /\ cache_reqs' \in Seq(IdInst) /\ Len(cache_reqs') = Len(reqs) + 1
         /\ cache_reqs'[Len(reqs) + 1].chunk = pred_pc
         /\ \A i \in 1 .. Len(reqs) : cache_reqs'[i].chunk = reqs[i].chunk
         /\ pred_pc' = Plus(pred_pc, ChunkSize) /\ pred_pc' \in Addr
         /\ fetch_valid' = TRUE
         /\ id_inst' = Older(aged, "req") /\ id_inst' \in IdInst \cup {NoInst}
         /\ Sending' = Len(reqs)
         /\ BackAges
<1>1. pred_pc \in Addr
  BY DEF FrontType
<1>2. cache_reqs' = Append([i \in DOMAIN reqs |-> Older(reqs[i], "req")], FreshInst(pred_pc))
  BY DEF Prepare
<1>3. /\ cache_reqs' \in Seq(IdInst) /\ Len(cache_reqs') = Len(reqs) + 1
      /\ cache_reqs'[Len(reqs) + 1] = FreshInst(pred_pc)
      /\ \A i \in 1 .. Len(reqs) : cache_reqs'[i].chunk = reqs[i].chunk
  BY <1>1, <1>2, PreparedReqs
<1>4. FreshInst(pred_pc).chunk = pred_pc
  BY <1>1, FreshType
<1>5. ChunkSize \in Int
  BY DEF ChunkSize
<1>6. pred_pc' \in Addr
  BY <1>1, <1>5, PlusType DEF Prepare
<1>7. Older(aged, "req") \in IdInst \cup {NoInst}
  BY OlderInst
<1>8. BackAges
  BY AgeAllAges DEF Prepare
<1>9. Len(reqs) \in Nat
  OBVIOUS
<1>10. Sending' = Len(reqs)
  BY <1>3, <1>9 DEF Sending, Prepare
<1> QED
  BY <1>3, <1>4, <1>6, <1>7, <1>8, <1>10 DEF Prepare

(* A prepared request stands after those that are sent.                    *)
LEMMA PreparedIsLast ==
  ASSUME FrontInv, fetch_valid
  PROVE  /\ cache_reqs \in Seq(IdInst) /\ Len(cache_reqs) = Sending + 1
         /\ Prepared \in IdInst /\ Prepared = cache_reqs[Sending + 1]
         /\ Prepared.chunk \in Addr
<1>1. cache_reqs \in Seq(IdInst) /\ Len(cache_reqs) \in Nat /\ Sending \in {0, 1}
  BY DEF FrontInv, FrontType, Queue
<1>2. Sending = Len(cache_reqs) - 1
  BY SendingIs
<1>3. Len(cache_reqs) = Sending + 1 /\ Len(cache_reqs) \in 1 .. Len(cache_reqs)
  BY <1>1, <1>2
<1>4. cache_reqs[Len(cache_reqs)] \in IdInst
  BY <1>1, <1>3, ElementOfSeq
<1> QED
  BY <1>1, <1>3, <1>4 DEF Prepared, IdInst

LEMMA FrontFetchSend ==
  ASSUME FrontInv, FetchSend
  PROVE  FrontInv'
<1>1. /\ phase = "fetch" /\ phase' = "memory" /\ fetch_valid /\ ~id_valid
      /\ Accept(LineOf(Prepared.chunk)) /\ Prepare(cache_reqs, id_inst)
      /\ UNCHANGED <<pc, id_valid, id_remain_size, stallVars, id_wait_redirect, exe_end>>
  BY DEF FetchSend
<1>2. Prepared.chunk \in Addr /\ LineOf(Prepared.chunk) \in Lines
  BY <1>1, PreparedIsLast, LineOfType
<1>3. CacheInv' /\ ~Busy /\ Busy' /\ BusyLine' = LineOf(Prepared.chunk)
  BY <1>1, <1>2, AcceptKeeps DEF FrontInv
<1>4. Sending = 0 /\ Len(cache_reqs) = 1 /\ Prepared = cache_reqs[1]
  <2>1. Sending = 0
    BY <1>3 DEF FrontInv, Queue
  <2>2. Len(cache_reqs) = Sending + 1 /\ Prepared = cache_reqs[Sending + 1]
    BY <1>1, PreparedIsLast
  <2> QED
    BY <2>1, <2>2
<1>5. cache_reqs \in Seq(IdInst) /\ id_inst \in IdInst \cup {NoInst} /\ FrontType
  BY DEF FrontInv, FrontType
<1>6. /\ cache_reqs' \in Seq(IdInst) /\ cache_reqs'[1].chunk = cache_reqs[1].chunk
      /\ pred_pc' \in Addr /\ fetch_valid' = TRUE
      /\ id_inst' = Older(id_inst, "req") /\ id_inst' \in IdInst \cup {NoInst}
      /\ Sending' = 1 /\ BackAges
  <2>1. \A i \in 1 .. Len(cache_reqs) : cache_reqs'[i].chunk = cache_reqs[i].chunk
    BY <1>1, <1>5, PrepareType
  <2>2. 1 \in 1 .. Len(cache_reqs)
    BY <1>4
  <2> QED
    BY <1>1, <1>4, <1>5, <2>1, <2>2, PrepareType
<1>7. id_inst' = NoInst => id_inst = NoInst
  BY <1>5, <1>6, OlderInst
<1>8. FrontType'
  BY <1>1, <1>5, <1>6, <1>7 DEF FrontType, Phases, BackAges, stallVars
<1>9. ~id_stall_valid
  BY <1>1 DEF FrontInv, Requests
<1>10. Queue'
  BY <1>1, <1>3, <1>4, <1>6, <1>9 DEF Queue, stallVars
<1>11. Requests'
  BY <1>1, <1>9 DEF FrontInv, Requests, StallHasRest, stallVars
<1>12. FenceAlone'
  <2>1. state' = state /\ match' = match
    BY <1>1 DEF Accept
  <2> QED
    BY <1>1, <1>6, <2>1 DEF FrontInv, FenceAlone, FencePending, BackAges, Same
<1> QED
  BY <1>3, <1>8, <1>10, <1>11, <1>12 DEF FrontInv

LEMMA FrontFetchFault ==
  ASSUME FrontInv, FetchFault
  PROVE  FrontInv'
<1> DEFINE aged == [Prepared EXCEPT !.exc = TRUE]
<1>1. /\ phase = "fetch" /\ phase' = "memory" /\ fetch_valid /\ ~id_valid
      /\ Len(cache_reqs) = 1 /\ ~id_stall_valid
      /\ id_valid' = TRUE /\ id_remain_size' = id_remain_size + ChunkSize
      /\ Prepare(<<>>, aged)
      /\ UNCHANGED <<cacheVars, pc, stallVars, id_wait_redirect, exe_end>>
  BY DEF FetchFault, OnlyPrepared
<1>2. Prepared \in IdInst /\ Sending = 0
  BY <1>1, PreparedIsLast DEF FrontInv, Queue
<1>3. aged \in IdInst
  BY <1>2 DEF IdInst
<1> HIDE DEF aged
<1>4. FrontType /\ ~Busy
  BY <1>2 DEF FrontInv, Queue
<1>5. /\ cache_reqs' \in Seq(IdInst)
      /\ pred_pc' \in Addr /\ fetch_valid' = TRUE
      /\ id_inst' = Older(aged, "req") /\ id_inst' \in IdInst \cup {NoInst}
      /\ Sending' = 0 /\ BackAges
  BY <1>1, <1>3, <1>4, PrepareType, NoReqs
<1>6. id_inst' # NoInst
  BY <1>3, <1>5, OlderInst, NoInstAssumption
<1>7. id_remain_size' \in Int
  BY <1>1, <1>4 DEF FrontType, ChunkSize
<1>8. FrontType'
  BY <1>1, <1>4, <1>5, <1>6, <1>7 DEF FrontType, Phases, BackAges, stallVars
<1>9. CacheInv' /\ Busy' = Busy /\ state' = state /\ match' = match
  BY <1>1, CacheRests DEF FrontInv, CacheInv, OneMiss
<1>10. Queue'
  BY <1>4, <1>5, <1>9 DEF Queue
<1>11. Requests'
  BY <1>1 DEF FrontInv, Requests, StallHasRest, stallVars
<1>12. FenceAlone'
  BY <1>1, <1>5, <1>9 DEF FrontInv, FenceAlone, FencePending, BackAges, Same
<1> QED
  BY <1>8, <1>9, <1>10, <1>11, <1>12 DEF FrontInv

LEMMA FrontFetchFaultWaits ==
  ASSUME FrontInv, FetchFaultWaits
  PROVE  FrontInv' /\ Len(cache_reqs') = Len(cache_reqs)
         /\ \A i \in 1 .. Len(cache_reqs) : cache_reqs'[i].chunk = cache_reqs[i].chunk
<1> DEFINE n == Len(cache_reqs)
<1>1. /\ phase = "fetch" /\ phase' = "memory" /\ fetch_valid /\ ~id_valid
      /\ cache_reqs' = [cache_reqs EXCEPT ![n].exc = TRUE]
      /\ UNCHANGED <<cacheVars, pc, pred_pc, fetch_valid, idVars, backVars>>
  BY DEF FetchFaultWaits
<1>2. /\ cache_reqs \in Seq(IdInst) /\ n = Sending + 1 /\ Prepared \in IdInst
      /\ Prepared = cache_reqs[n] /\ n \in Nat /\ n \in 1 .. n
  BY <1>1, PreparedIsLast DEF FrontInv, Queue
<1> DEFINE last == [cache_reqs[n] EXCEPT !.exc = TRUE]
<1>3. last \in IdInst /\ last.chunk = cache_reqs[n].chunk
  BY <1>2 DEF IdInst
<1>4. cache_reqs' = [cache_reqs EXCEPT ![n] = last]
  BY <1>1
<1> HIDE DEF last, n
<1>5. /\ cache_reqs' \in Seq(IdInst) /\ Len(cache_reqs') = Len(cache_reqs)
      /\ \A i \in 1 .. Len(cache_reqs) :
           cache_reqs'[i] = IF i = n THEN last ELSE cache_reqs[i]
  BY <1>2, <1>3, <1>4, ExceptSeq DEF n
<1>6. \A i \in 1 .. Len(cache_reqs) : cache_reqs'[i].chunk = cache_reqs[i].chunk
  BY <1>3, <1>5
<1>7. CacheInv' /\ Busy' = Busy /\ BusyLine' = BusyLine /\ state' = state /\ match' = match
  BY <1>1, CacheRests DEF FrontInv, CacheInv, OneMiss
<1>8. FrontType'
  BY <1>1, <1>5 DEF FrontInv, FrontType, Phases, idVars, stallVars, backVars
<1>9. Queue'
  <2>1. Sending' = Sending
    BY <1>1, <1>5 DEF Sending
  <2>2. 1 \in 1 .. Len(cache_reqs)
    BY <1>2 DEF n, FrontInv, Queue
  <2>3. cache_reqs'[1].chunk = cache_reqs[1].chunk
    BY <1>6, <2>2
  <2> QED
    BY <1>1, <1>7, <2>1, <2>3 DEF FrontInv, Queue, idVars, stallVars
<1>10. Requests'
  BY <1>1 DEF FrontInv, Requests, StallHasRest, idVars, stallVars
<1>11. FenceAlone'
  BY <1>1, <1>7 DEF FrontInv, FenceAlone, FencePending, backVars
<1> QED
  BY <1>5, <1>6, <1>7, <1>8, <1>9, <1>10, <1>11 DEF FrontInv

LEMMA FrontFetchPrepare ==
  ASSUME FrontInv, FetchPrepare
  PROVE  FrontInv'
<1>1. /\ phase = "fetch" /\ phase' = "memory" /\ ~fetch_valid
      /\ Prepare(cache_reqs, id_inst)
      /\ UNCHANGED <<cacheVars, pc, id_valid, id_remain_size, stallVars,
                     id_wait_redirect, exe_end>>
  BY DEF FetchPrepare
<1>2. FrontType /\ cache_reqs \in Seq(IdInst) /\ id_inst \in IdInst \cup {NoInst}
      /\ Len(cache_reqs) \in Nat /\ Sending \in {0, 1}
  BY DEF FrontInv, FrontType, Queue
<1>3. Sending = Len(cache_reqs)
  <2>1. Sending = Len(cache_reqs) - 0
    BY <1>1, SendingIs
  <2> QED
    BY <1>2, <2>1
<1>4. /\ cache_reqs' \in Seq(IdInst)
      /\ \A i \in 1 .. Len(cache_reqs) : cache_reqs'[i].chunk = cache_reqs[i].chunk
      /\ pred_pc' \in Addr /\ fetch_valid' = TRUE
      /\ id_inst' = Older(id_inst, "req") /\ id_inst' \in IdInst \cup {NoInst}
      /\ Sending' = Sending /\ BackAges
  BY <1>1, <1>2, <1>3, PrepareType
<1>5. id_inst' = NoInst => id_inst = NoInst
  BY <1>2, <1>4, OlderInst
<1>6. FrontType'
  BY <1>1, <1>2, <1>4, <1>5 DEF FrontType, Phases, BackAges, stallVars
<1>7. CacheInv' /\ Busy' = Busy /\ BusyLine' = BusyLine /\ state' = state /\ match' = match
  BY <1>1, CacheRests DEF FrontInv, CacheInv, OneMiss
<1>8. Queue'
  <2>1. Sending = 1 => cache_reqs'[1].chunk = cache_reqs[1].chunk
    BY <1>3, <1>4
  <2> QED
    BY <1>1, <1>4, <1>7, <2>1 DEF FrontInv, Queue, stallVars
<1>9. Requests'
  BY <1>1 DEF FrontInv, Requests, StallHasRest, stallVars
<1>10. FenceAlone'
  BY <1>1, <1>4, <1>7 DEF FrontInv, FenceAlone, FencePending, BackAges, Same
<1> QED
  BY <1>6, <1>7, <1>8, <1>9, <1>10 DEF FrontInv

(* Every step keeps the first layer.                                       *)
LEMMA FrontNext ==
  ASSUME FrontInv, [Next]_vars
  PROVE  FrontInv'
<1>1. CASE MemoryResponse
  BY <1>1, FrontMemoryResponse
<1>2. CASE ICacheTick
  BY <1>2, FrontICacheTick
<1>3. CASE \/ MemoryQuiet \/ WbRetire \/ MemToWb \/ MemWait
           \/ ExeIdle \/ ExeStay \/ ExePass \/ MoveToMem \/ MoveWait
           \/ NoHandOver \/ NoStall \/ FetchRefused \/ FetchBusy
  BY <1>3, FrontMoves
<1>4. CASE ExcRedirect
  BY <1>4, FrontExcRedirect
<1>5. CASE ExeIfence
  BY <1>5, FrontExeIfence
<1>6. CASE BrRedirect
  BY <1>6, FrontBrRedirect
<1>7. CASE \E a \in Addr, fail \in BOOLEAN : HandOver(a, fail)
  BY <1>7, FrontHandOver
<1>8. CASE \E a \in Targets, fail \in BOOLEAN : HandOverWrongPath(a, fail)
  BY <1>8, FrontHandOverWrongPath
<1>9. CASE \E d \in Decodes : StallStep(d)
  BY <1>9, FrontStallStep
<1>10. CASE FetchSend
  BY <1>10, FrontFetchSend
<1>11. CASE FetchFault
  BY <1>11, FrontFetchFault
<1>12. CASE FetchFaultWaits
  BY <1>12, FrontFetchFaultWaits
<1>13. CASE FetchPrepare
  BY <1>13, FrontFetchPrepare
<1>14. CASE UNCHANGED vars
  BY <1>14
  DEF vars, cacheVars, fetchVars, idVars, stallVars, backVars, FrontInv, FrontType,
      CacheInv, CacheTypeOK, OneMiss, RedirectResets, Queue, Sending, Busy, BusyLine,
      Requests, StallHasRest, FenceAlone, FencePending, flush_valid
<1> QED
  BY <1>1, <1>2, <1>3, <1>4, <1>5, <1>6, <1>7, <1>8, <1>9, <1>10, <1>11, <1>12, <1>13,
     <1>14 DEF Next

(* CPU and ICache agree on what is outstanding in every reachable state    *)
(* (ICache::lookup, tick and redirect with their callers in exec()).       *)
THEOREM FrontSafe == Spec => []FrontInv
<1>1. Init => FrontInv
  BY FrontInit
<1>2. FrontInv /\ [Next]_vars => FrontInv'
  BY FrontNext
<1> QED
  BY <1>1, <1>2, PTL DEF Spec

(* The request inside the cache is the one request that is sent.           *)
LEMMA FrontAnswers ==
  ASSUME FrontInv
  PROVE  AnswersInOrder
<1>1. cache_reqs \in Seq(IdInst) /\ Sending \in {0, 1} /\ fetch_valid \in BOOLEAN
  BY DEF FrontInv, FrontType, Queue
<1>2. Sent \in Seq(IdInst) /\ Len(Sent) = Sending /\ \A i \in 1 .. Sending : Sent[i] = cache_reqs[i]
  <2>1. CASE fetch_valid
    <3>1. Sending = Len(cache_reqs) - 1 /\ Len(cache_reqs) \in Nat
      BY <1>1, <2>1, SendingIs
    <3>2. Sent = SubSeq(cache_reqs, 1, Sending)
      BY <2>1, <3>1 DEF Sent
    <3>3. \A i \in 1 .. Sending : cache_reqs[i] \in IdInst
      <4>1. \A i \in 1 .. Sending : i \in 1 .. Len(cache_reqs)
        BY <1>1, <3>1
      <4> QED
        BY <1>1, <4>1, ElementOfSeq
    <3>4. /\ SubSeq(cache_reqs, 1, Sending) \in Seq(IdInst)
          /\ Len(SubSeq(cache_reqs, 1, Sending)) = IF 1 <= Sending THEN Sending - 1 + 1 ELSE 0
          /\ \A i \in 1 .. Sending - 1 + 1 :
               SubSeq(cache_reqs, 1, Sending)[i] = cache_reqs[1 + i - 1]
      BY <1>1, <3>3, SubSeqProperties
    <3>5. \A i \in 1 .. Sending : 1 + i - 1 = i /\ i \in 1 .. Sending - 1 + 1
      BY <1>1
    <3> QED
      BY <1>1, <3>2, <3>4, <3>5
  <2>2. CASE ~fetch_valid
    <3>1. Sending = Len(cache_reqs) - 0 /\ Len(cache_reqs) \in Nat
      BY <1>1, <2>2, SendingIs
    <3> QED
      BY <1>1, <2>2, <3>1 DEF Sent
  <2> QED
    BY <1>1, <2>1, <2>2
<1>3. DOMAIN Sent = 1 .. Sending
  BY <1>2
<1> DEFINE lines == [i \in DOMAIN Sent |-> LineOf(Sent[i].chunk)]
<1>4. CASE Busy
  <2>1. Sending = 1 /\ LineOf(cache_reqs[1].chunk) = BusyLine /\ ~id_valid /\ ~id_stall_valid
    BY <1>4 DEF FrontInv, Queue
  <2>2. Unanswered = <<BusyLine>>
    <3>1. BusyLine \in Lines
      BY <1>4 DEF Busy, BusyLine, FrontInv, CacheInv, CacheTypeOK
    <3>2. <<BusyLine>> \in Seq(Lines)
      BY <3>1
    <3>3. <<BusyLine>> \o <<>> = <<BusyLine>> /\ <<>> \o <<BusyLine>> = <<BusyLine>>
      BY <3>2, ConcatEmptySeq
    <3>4. CASE idle_req # NoReq
      BY <3>3, <3>4 DEF Unanswered, BusyLine, FrontInv, CacheInv, OneMiss
    <3>5. CASE idle_req = NoReq
      BY <1>4, <3>3, <3>5 DEF Unanswered, Busy, BusyLine
    <3> QED
      BY <3>4, <3>5
  <2>3. lines = [i \in 1 .. 1 |-> BusyLine]
    BY <1>2, <1>3, <2>1
  <2>4. lines = <<BusyLine>>
    BY <2>3
  <2> QED
    BY <2>1, <2>2, <2>4 DEF AnswersInOrder
<1>5. CASE ~Busy
  <2>1. Sending = 0
    BY <1>1, <1>5 DEF FrontInv, Queue
  <2>2. Unanswered = <<>>
    BY <1>5 DEF Unanswered, Busy
  <2>3. Sent = <<>>
    BY <1>2, <2>1, EmptySeq
  <2>4. lines = <<>>
    BY <2>3
  <2> QED
    BY <2>2, <2>3, <2>4 DEF AnswersInOrder
<1> QED
  BY <1>4, <1>5

(* The ICache answers the requests in the order in which they were sent    *)
(* and only when ID is free, whatever it is doing when a redirect or a     *)
(* fence.i comes (PipelineCPU::afterLoad's callback, ICache::tick).        *)
THEOREM RequestsAnsweredInOrder == Spec => []AnswersInOrder
<1>1. FrontInv => AnswersInOrder
  BY FrontAnswers
<1> QED
  BY <1>1, FrontSafe, PTL

(* preId is never called with an Inst nothing has set: what ID decodes     *)
(* after a stall is the rest of the chunk it has.                          *)
THEOREM StallKeepsRest == Spec => []StallHasRest
<1>1. FrontInv => StallHasRest
  BY DEF FrontInv, Requests
<1> QED
  BY <1>1, FrontSafe, PTL

(* ICache::redirect never waits for a response that is not due.            *)
THEOREM RedirectsAlwaysReset == Spec => []RedirectResets
<1>1. FrontInv => RedirectResets
  BY DEF FrontInv, CacheInv
<1> QED
  BY <1>1, FrontSafe, PTL

(* Only a miss asks the parent, and only its callback answers.             *)
LEMMA OwedChanges ==
  ASSUME FrontInv, [Next]_vars
  PROVE  \/ owed' = owed
         \/ Len(owed) = 0 /\ Len(owed') = 1
         \/ Len(owed) = 1 /\ Len(owed') = 0
<1>1. owed \in Seq(Lines) /\ Len(owed) <= 1
  BY DEF FrontInv, CacheInv, CacheTypeOK, OneMiss
<1>2. CASE MemoryResponse
  <2>1. owed # <<>> /\ owed' = Tail(owed)
    BY <1>2 DEF MemoryResponse, Response
  <2>2. Len(owed) \in Nat \ {0} /\ Len(Tail(owed)) = Len(owed) - 1
    BY <1>1, <2>1, EmptySeq
  <2>3. Len(owed) = 1
    BY <1>1, <2>2
  <2> QED
    BY <2>1, <2>2, <2>3
<1>3. CASE ICacheTick /\ SendMiss
  <2>1. owed = <<>> /\ lookup_req \in Lines
    BY <1>3 DEF FrontInv, CacheInv, CacheTypeOK, OneMiss, SendMiss, CanSendMiss
  <2>2. owed' = Append(owed, lookup_req)
    BY <1>3 DEF SendMiss
  <2>3. Len(owed) = 0 /\ Len(owed') = 1
    BY <1>1, <2>1, <2>2
  <2> QED
    BY <2>3
<1>4. CASE ICacheTick /\ ~SendMiss
  BY <1>4 DEF ICacheTick, Tick, FlushTick, LookupTick, ParentRefuses, WaitClearTick,
              StepTick, RestTick, cacheVars
<1>5. CASE \/ \E a \in Addr, fail \in BOOLEAN : HandOver(a, fail)
           \/ \E a \in Targets, fail \in BOOLEAN : HandOverWrongPath(a, fail)
           \/ \E d \in Decodes : StallStep(d)
  BY <1>5 DEF HandOver, HandOverWrongPath, StallStep, Redirect, cacheVars
<1>6. CASE FetchSend \/ FetchRefused \/ FetchFault \/ FetchFaultWaits \/ FetchBusy \/ FetchPrepare
  BY <1>6 DEF FetchSend, Accept, FetchRefused, FetchFault, FetchFaultWaits, FetchBusy,
              FetchPrepare, cacheVars
<1>7. CASE \/ MemoryQuiet \/ WbRetire \/ ExcRedirect \/ MemToWb \/ MemWait
           \/ ExeIdle \/ ExeStay \/ ExePass \/ ExeIfence \/ BrRedirect
           \/ MoveToMem \/ MoveWait \/ NoHandOver \/ NoStall \/ UNCHANGED vars
  BY <1>7 DEF MemoryQuiet, WbRetire, ExcRedirect, Redirect, MemToWb, MemWait, ExeIdle,
              ExeStay, ExePass, ExeIfence, Flush, BrRedirect, MoveToMem, MoveWait,
              NoHandOver, NoStall, vars, cacheVars
<1> QED
  BY <1>2, <1>3, <1>4, <1>5, <1>6, <1>7 DEF Next

(* Towards the memory the ICache is a caller of ReadPort: a miss is sent   *)
(* only when nothing of its own is out, through redirects and fence.i, and *)
(* each response is to the read that is out.                               *)
THEOREM ParentRefinement == Spec => ImplementsParent
<1>1. Init => Parent!Init
  <2>1. Init => owed = <<>>
    BY DEF Init, CacheInit
  <2> QED
    BY <2>1 DEF Parent!Init
<1>2. FrontInv /\ [Next]_vars => [Parent!Next]_([c \in {"icache"} |-> Len(owed)])
  <2> SUFFICES ASSUME FrontInv, [Next]_vars
               PROVE  Parent!Next \/ UNCHANGED [c \in {"icache"} |-> Len(owed)]
    OBVIOUS
  <2>1. CASE owed' = owed
    BY <2>1
  <2>2. CASE Len(owed) = 0 /\ Len(owed') = 1
    <3>1. Parent!Ask("icache")
      BY <2>2 DEF Parent!Ask
    <3> QED
      BY <3>1 DEF Parent!Next
  <2>3. CASE Len(owed) = 1 /\ Len(owed') = 0
    <3>1. Parent!CallBack("icache")
      BY <2>3 DEF Parent!CallBack
    <3> QED
      BY <3>1 DEF Parent!Next
  <2> QED
    BY <2>1, <2>2, <2>3, OwedChanges
<1> QED
  BY <1>1, <1>2, FrontSafe, PTL DEF Spec, ImplementsParent, Parent!Spec

-----------------------------------------------------------------------------
(* The order of the back end.  Behind an instruction that traps, nothing   *)
(* has executed, and only there is anything that has not.  Nothing waits   *)
(* in front of a trap for more than a cycle, so that a wrong-path branch   *)
(* behind it resolves (and ends the wait for a redirect) only when the     *)
(* trap is in WB; until WB redirects, in the next cycle, nothing reaches   *)
(* ID: TrapOnly.                                                           *)

IsTrap(inst) == inst # NoInst /\ inst.kind = "exc" /\ inst.done
Undone(inst) == inst # NoInst /\ ~inst.done
Mispredicted ==
  exe_inst # NoInst /\ exe_inst.kind = "redirects" /\ exe_inst.done /\ ~exe_end

TrapOnly == IsTrap(wb_inst) /\ ~id_wait_redirect

Order ==
  /\ exe_inst = NoInst => ~exe_end
  /\ phase = "mem" => wb_inst = NoInst
  /\ phase \in {"exe", "move"} /\ mem_inst # NoInst => mem_inst.kind = "mem"
  /\ phase \in {"move", "id"} /\ exe_inst # NoInst /\ ~exe_end =>
       exe_inst.kind \in {"alu", "mem"}
  /\ IsTrap(wb_inst) => /\ mem_inst # NoInst => Undone(mem_inst)
                        /\ exe_inst # NoInst => Undone(exe_inst)
  /\ IsTrap(mem_inst) => (exe_inst # NoInst => Undone(exe_inst))
  /\ ~Undone(wb_inst)
  /\ Undone(mem_inst) => IsTrap(wb_inst)
  /\ Undone(exe_inst) => IsTrap(wb_inst) \/ IsTrap(mem_inst)
  /\ id_wait_redirect =>
       Mispredicted \/ IsTrap(wb_inst) \/ IsTrap(mem_inst) \/ IsTrap(exe_inst)
  /\ Mispredicted \/ IsTrap(mem_inst) \/ IsTrap(exe_inst) => id_wait_redirect
  /\ TrapOnly =>
       /\ phase \notin {"mem", "exe"}
       /\ ~id_valid /\ ~id_stall_valid /\ ~Busy
       /\ phase \in {"move", "id", "stall", "fetch"} => ~fetch_valid

(* The pipeline starts empty.                                              *)
LEMMA OrderInit ==
  ASSUME Init
  PROVE  Order
  BY DEF Init, Order, IsTrap, Undone, Mispredicted, TrapOnly

(* Steps that only age the back end.                                       *)
LEMMA OrderFront ==
  ASSUME FrontType, Order, BackAges, id_wait_redirect' = id_wait_redirect,
         phase' \in {"memory", "icache", "wb", "fetch", "stall"},
         TrapOnly => /\ ~id_valid' /\ ~id_stall_valid' /\ ~Busy'
                     /\ phase' \in {"stall", "fetch"} => ~fetch_valid'
  PROVE  Order'
<1>1. /\ exe_inst' = NoInst <=> exe_inst = NoInst
      /\ IsTrap(exe_inst)' = IsTrap(exe_inst) /\ Undone(exe_inst)' = Undone(exe_inst)
      /\ IsTrap(mem_inst)' = IsTrap(mem_inst) /\ Undone(mem_inst)' = Undone(mem_inst)
      /\ IsTrap(wb_inst)' = IsTrap(wb_inst) /\ Undone(wb_inst)' = Undone(wb_inst)
      /\ mem_inst' = NoInst <=> mem_inst = NoInst
      /\ wb_inst' = NoInst <=> wb_inst = NoInst
      /\ Mispredicted' = Mispredicted /\ exe_end' = exe_end
  BY DEF BackAges, Same, IsTrap, Undone, Mispredicted
<1>2. TrapOnly' = TrapOnly
  BY <1>1 DEF TrapOnly
<1> QED
  BY <1>1, <1>2 DEF Order

(* Steps that leave the front end alone and keep the back end's order.     *)
LEMMA OrderMemoryResponse ==
  ASSUME FrontInv, Order, MemoryResponse
  PROVE  Order'
<1>1. CASE ResponseAnswers
  <2>1. PICK d \in Decodes : Callback(d) /\ Response(CallbackRedirects(d))
    BY <1>1 DEF MemoryResponse
  <2>2. CallbackRedirects(d) \in BOOLEAN
    BY DEF CallbackRedirects, Redirects, Faults, FrontInv, FrontType, Decodes
  <2>3. Busy /\ ~Busy'
    BY <1>1, <2>1, <2>2, ResponseKeeps DEF MemoryResponse, FrontInv
  <2>4. BackAges
    BY <2>1, <2>3, CallbackKeeps DEF FrontInv, MemoryResponse
  <2> QED
    BY <2>3, <2>4, OrderFront DEF FrontInv, Order, MemoryResponse
<1>2. CASE ~ResponseAnswers
  <2>1. Response(FALSE) /\ UNCHANGED <<fetchVars, idVars, backVars>>
    BY <1>2 DEF MemoryResponse, fetchVars, idVars
  <2>2. Busy' = Busy
    BY <1>2, <2>1, ResponseKeeps DEF FrontInv, MemoryResponse
  <2>3. BackAges
    BY <2>1, BackRests DEF FrontInv
  <2> QED
    BY <2>1, <2>2, <2>3, OrderFront
    DEF FrontInv, Order, MemoryResponse, idVars, stallVars, fetchVars
<1> QED
  BY <1>1, <1>2

(* An answer of the ICache decodes in ID and touches no stage.             *)
LEMMA OrderICacheTick ==
  ASSUME FrontInv, Order, ICacheTick
  PROVE  Order'
<1>1. CASE TickAnswers
  <2>1. PICK d \in Decodes : Callback(d) /\ Tick(CallbackRedirects(d))
    BY <1>1 DEF ICacheTick
  <2>2. CallbackRedirects(d) \in BOOLEAN
    BY DEF CallbackRedirects, Redirects, Faults, FrontInv, FrontType, Decodes
  <2>3. Busy /\ ~Busy'
    BY <1>1, <2>1, <2>2, TickKeeps DEF ICacheTick, FrontInv
  <2>4. BackAges
    BY <2>1, <2>3, CallbackKeeps DEF FrontInv, ICacheTick
  <2> QED
    BY <2>3, <2>4, OrderFront DEF FrontInv, Order, ICacheTick
<1>2. CASE ~TickAnswers
  <2>1. Tick(FALSE) /\ UNCHANGED <<fetchVars, idVars, backVars>>
    BY <1>2 DEF ICacheTick, fetchVars, idVars
  <2>2. Busy' = Busy
    BY <1>2, <2>1, TickKeeps DEF FrontInv, ICacheTick
  <2>3. BackAges
    BY <2>1, BackRests DEF FrontInv
  <2> QED
    BY <2>1, <2>2, <2>3, OrderFront
    DEF FrontInv, Order, ICacheTick, idVars, stallVars, fetchVars
<1> QED
  BY <1>1, <1>2

(* The steps of the back end.                                              *)
LEMMA OrderBack ==
  ASSUME FrontInv, Order,
         \/ WbRetire \/ ExcRedirect \/ MemToWb \/ MemWait
         \/ ExeIdle \/ ExeStay \/ ExePass \/ ExeIfence \/ MoveToMem \/ MoveWait
  PROVE  Order'
<1>t. exe_inst \in BackInst \cup {NoInst} /\ mem_inst \in BackInst \cup {NoInst}
  BY DEF FrontInv, FrontType
<1> USE DEF Order, IsTrap, Undone, Mispredicted, TrapOnly, InExe
<1>1. CASE WbRetire
  BY <1>1 DEF WbRetire, idVars, stallVars
<1>2. CASE ExcRedirect
  BY <1>2 DEF ExcRedirect, ClearId
<1>3. CASE MemToWb
  <2>1. /\ wb_inst' # NoInst /\ wb_inst'.done = mem_inst.done
        /\ wb_inst'.kind = "exc" <=> mem_inst.kind = "exc"
    BY <1>3, <1>t, PastType DEF MemToWb
  <2> QED
    BY <1>3, <2>1 DEF MemToWb, idVars
<1>4. CASE MemWait
  BY <1>4 DEF MemWait, idVars, backVars
<1>5. CASE ExeIdle
  BY <1>5 DEF ExeIdle, idVars, backVars
<1>6. CASE ExeStay
  BY <1>6 DEF ExeStay, idVars, backVars
<1>7. CASE ExePass
  BY <1>7 DEF ExePass, idVars
<1>8. CASE ExeIfence
  BY <1>8 DEF ExeIfence, idVars
<1>9. CASE MoveToMem
  <2>1. /\ mem_inst' # NoInst /\ mem_inst'.done = exe_inst.done
        /\ mem_inst'.kind = "exc" <=> exe_inst.kind = "exc"
    BY <1>9, <1>t, PastType DEF MoveToMem
  <2> QED
    BY <1>9, <2>1 DEF MoveToMem, idVars, stallVars, fetchVars, cacheVars, Busy
<1>10. CASE MoveWait
  BY <1>10 DEF MoveWait, idVars, stallVars, fetchVars, backVars, cacheVars, Busy
<1> QED
  BY <1>1, <1>2, <1>3, <1>4, <1>5, <1>6, <1>7, <1>8, <1>9, <1>10

(* A wrong-path branch leaves a trap that nothing waits for any more.      *)
LEMMA OrderBrRedirect ==
  ASSUME FrontInv, Order, BrRedirect
  PROVE  Order'
<1>1. /\ phase = "exe" /\ phase' = "move" /\ exe_inst # NoInst /\ ~exe_end
      /\ exe_inst.kind = "redirects" /\ exe_end' = TRUE
      /\ UNCHANGED <<exe_inst, mem_inst, wb_inst>>
      /\ id_valid' = FALSE /\ id_wait_redirect' = FALSE /\ id_stall_valid' = FALSE
      /\ fetch_valid' = FALSE /\ Redirect
  BY DEF BrRedirect, InExe, ClearId, ClearStall, RefetchFrom
<1>2. ~Busy'
  BY <1>1, RedirectKeeps DEF FrontInv
<1>3. ~IsTrap(mem_inst) /\ ~IsTrap(exe_inst)
  BY <1>1 DEF Order, IsTrap
<1> QED
  BY <1>1, <1>2, <1>3 DEF Order, IsTrap, Undone, Mispredicted, TrapOnly

(* What ID hands over executes only when no redirect is coming.            *)
LEMMA OrderHandOver ==
  ASSUME FrontInv, Order, NEW real \in Addr, NEW fail \in BOOLEAN, HandOver(real, fail)
  PROVE  Order'
<1>1. /\ phase = "id" /\ phase' = "stall" /\ id_valid /\ ~id_wait_redirect /\ exe_inst = NoInst
      /\ exe_inst' = BackOf(id_inst, real, fail, TRUE)
      /\ id_wait_redirect' = WaitsForRedirect(exe_inst')
      /\ UNCHANGED <<exe_end, mem_inst, wb_inst>> /\ id_inst \in IdInst
  BY DEF HandOver, CanHandOver, FrontInv, FrontType
<1>2. exe_inst' \in BackInst /\ exe_inst'.done /\ exe_inst' # NoInst
  BY <1>1, BackOfType, NoInstAssumption
<1>3. ~IsTrap(wb_inst) /\ ~IsTrap(mem_inst) /\ ~exe_end
  BY <1>1 DEF Order, TrapOnly
<1> QED
  BY <1>1, <1>2, <1>3 DEF Order, IsTrap, Undone, Mispredicted, TrapOnly, WaitsForRedirect

(* What is handed over while ID waits has not executed.                    *)
LEMMA OrderHandOverWrongPath ==
  ASSUME FrontInv, Order, NEW target \in Targets, NEW fail \in BOOLEAN,
         HandOverWrongPath(target, fail)
  PROVE  Order'
<1>1. /\ phase = "id" /\ phase' = "stall" /\ id_valid /\ id_wait_redirect /\ exe_inst = NoInst
      /\ exe_inst' = BackOf(id_inst, target, fail, FALSE) /\ id_wait_redirect'
      /\ UNCHANGED <<exe_end, mem_inst, wb_inst>> /\ id_inst \in IdInst
  BY DEF HandOverWrongPath, CanHandOver, FrontInv, FrontType
<1>2. exe_inst' \in BackInst /\ ~exe_inst'.done /\ exe_inst' # NoInst
  <2>1. target \in Addr /\ FALSE \in BOOLEAN
    BY FetchSideAssumption
  <2>2. exe_inst' \in BackInst /\ exe_inst'.done = FALSE
    BY <1>1, <2>1, BackOfType
  <2> QED
    BY <2>2, NoInstAssumption
<1>3. IsTrap(wb_inst) \/ IsTrap(mem_inst)
  BY <1>1 DEF Order, IsTrap, Mispredicted
<1> QED
  BY <1>1, <1>2, <1>3 DEF Order, IsTrap, Undone, Mispredicted, TrapOnly

(* Every step keeps the second layer.                                      *)
LEMMA OrderNext ==
  ASSUME FrontInv, Order, [Next]_vars
  PROVE  Order'
<1> USE DEF FrontInv
<1>1. CASE MemoryResponse
  BY <1>1, OrderMemoryResponse
<1>2. CASE ICacheTick
  BY <1>2, OrderICacheTick
<1>3. CASE \/ WbRetire \/ ExcRedirect \/ MemToWb \/ MemWait
           \/ ExeIdle \/ ExeStay \/ ExePass \/ ExeIfence \/ MoveToMem \/ MoveWait
  BY <1>3, OrderBack
<1>4. CASE BrRedirect
  BY <1>4, OrderBrRedirect
<1>5. CASE \E a \in Addr, fail \in BOOLEAN : HandOver(a, fail)
  BY <1>5, OrderHandOver
<1>6. CASE \E a \in Targets, fail \in BOOLEAN : HandOverWrongPath(a, fail)
  BY <1>6, OrderHandOverWrongPath
<1>7. CASE MemoryQuiet \/ NoHandOver \/ NoStall \/ FetchRefused \/ FetchBusy \/ FetchFaultWaits
  <2>1. /\ UNCHANGED <<cacheVars, backVars, idVars, fetch_valid>>
        /\ phase' \in {"memory", "icache", "stall", "fetch"}
        /\ phase' = "stall" => phase = "id"
        /\ phase' = "fetch" => phase = "stall"
    BY <1>7 DEF MemoryQuiet, NoHandOver, NoStall, FetchRefused, FetchBusy, FetchFaultWaits,
                fetchVars
  <2>2. BackAges /\ Busy' = Busy
    BY <2>1, BackRests DEF Busy, cacheVars
  <2>3. TrapOnly => /\ ~id_valid' /\ ~id_stall_valid' /\ ~Busy'
                    /\ phase' \in {"stall", "fetch"} => ~fetch_valid'
    BY <2>1, <2>2 DEF Order, idVars, stallVars
  <2>4. id_wait_redirect' = id_wait_redirect
    BY <2>1 DEF idVars
  <2> QED
    BY <2>1, <2>2, <2>3, <2>4, OrderFront
<1>8. CASE \E d \in Decodes : StallStep(d)
  <2>1. PICK d \in Decodes : StallStep(d)
    BY <1>8
  <2>2. ~TrapOnly /\ id_wait_redirect' = id_wait_redirect /\ phase' = "fetch"
    BY <2>1 DEF StallStep, Order
  <2>3. BackAges
    BY <2>1, FrontStallStep
  <2> QED
    BY <2>2, <2>3, OrderFront
<1>9. CASE FetchSend \/ FetchFault
  <2>1. ~TrapOnly /\ id_wait_redirect' = id_wait_redirect /\ phase' = "memory"
    BY <1>9 DEF FetchSend, FetchFault, Order
  <2>2. exe_end' = exe_end /\ AgeAll("req")
    BY <1>9 DEF FetchSend, FetchFault, Prepare
  <2> QED
    BY <2>1, <2>2, AgeAllAges, OrderFront
<1>10. CASE FetchPrepare
  <2>1. exe_end' = exe_end /\ AgeAll("req") /\ id_wait_redirect' = id_wait_redirect
        /\ phase' = "memory" /\ UNCHANGED <<id_valid, id_stall_valid, cacheVars>>
    BY <1>10 DEF FetchPrepare, Prepare, stallVars
  <2>2. Busy' = Busy
    BY <2>1 DEF Busy, cacheVars
  <2>3. TrapOnly => ~id_valid' /\ ~id_stall_valid' /\ ~Busy'
    BY <2>1, <2>2 DEF Order
  <2> QED
    BY <2>1, <2>3, AgeAllAges, OrderFront
<1>11. CASE UNCHANGED vars
  BY <1>11 DEF Order, IsTrap, Undone, Mispredicted, TrapOnly, Busy, vars, cacheVars,
               fetchVars, idVars, stallVars, backVars
<1> QED
  BY <1>1, <1>2, <1>3, <1>4, <1>5, <1>6, <1>7, <1>8, <1>9, <1>10, <1>11 DEF Next

(* The first two layers hold in every reachable state (exec(), brRedirect, *)
(* excRedirect).                                                           *)
THEOREM OrderSafe == Spec => [](FrontInv /\ Order)
<1>1. Init => FrontInv /\ Order
  BY FrontInit, OrderInit
<1>2. (FrontInv /\ Order) /\ [Next]_vars => (FrontInv /\ Order)'
  BY FrontNext, OrderNext
<1> QED
  BY <1>1, <1>2, PTL DEF Spec

(* Behind an instruction that will redirect, none in the pipeline has      *)
(* executed: what brRedirect and excRedirect drop need not be undone.      *)
THEOREM NothingToUndo == Spec => []NothingExecutedBehind
<1>1. ASSUME FrontInv, Order
      PROVE  NothingExecutedBehind
  <2>1. Stages[1] = wb_inst /\ Stages[2] = mem_inst /\ Stages[3] = exe_inst
    BY DEF Stages
  <2>2. \A i, j \in 1 .. 3 : i < j => (i = 1 /\ j \in {2, 3}) \/ (i = 2 /\ j = 3)
    OBVIOUS
  <2>3. /\ WillRedirect(1) => IsTrap(wb_inst)
        /\ WillRedirect(2) => IsTrap(mem_inst) \/ IsTrap(wb_inst)
    BY <1>1, <2>1 DEF WillRedirect, Order, IsTrap, Undone
  <2> QED
    BY <1>1, <2>1, <2>2, <2>3 DEF NothingExecutedBehind, Order, Undone
<1> QED
  BY <1>1, OrderSafe, PTL

(* id_wait_redirect is set only while the redirect that clears it is       *)
(* coming ("id wait redirect for 5000 cycle" never happens for want of     *)
(* one).                                                                   *)
THEOREM RedirectAlwaysComes == Spec => []RedirectIsComing
<1>1. ASSUME FrontInv, Order
      PROVE  RedirectIsComing
  <2>1. Stages[1] = wb_inst /\ Stages[2] = mem_inst /\ Stages[3] = exe_inst
    BY DEF Stages
  <2>2. /\ IsTrap(wb_inst) => WillRedirect(1) /\ Stages[1].done
        /\ IsTrap(mem_inst) => WillRedirect(2) /\ Stages[2].done
        /\ IsTrap(exe_inst) \/ Mispredicted => WillRedirect(3) /\ Stages[3].done
    BY <2>1 DEF WillRedirect, IsTrap, Mispredicted
  <2>3. 1 \in 1 .. 3 /\ 2 \in 1 .. 3 /\ 3 \in 1 .. 3
    OBVIOUS
  <2> QED
    BY <1>1, <2>2, <2>3 DEF RedirectIsComing, Order
<1> QED
  BY <1>1, OrderSafe, PTL

-----------------------------------------------------------------------------
(* Arithmetic on addresses: Plus is addition modulo AddrSpace.             *)

(* Arithmetic of addresses, which wrap: quotient and remainder.            *)
LEMMA ModRange ==
  ASSUME NEW x \in Int
  PROVE  /\ x % AddrSpace \in 0 .. AddrSpace - 1 /\ x \div AddrSpace \in Int
         /\ x = AddrSpace * (x \div AddrSpace) + (x % AddrSpace)
  BY FetchSideAssumption

(* The remainder is determined.                                            *)
LEMMA ModUnique ==
  ASSUME NEW x \in Int, NEW k \in Int, NEW r \in 0 .. AddrSpace - 1,
         x = AddrSpace * k + r
  PROVE  x % AddrSpace = r
<1> DEFINE q == (x \div AddrSpace) - k
           m == x % AddrSpace
<1>1. m \in 0 .. AddrSpace - 1 /\ x = AddrSpace * (x \div AddrSpace) + m /\ q \in Int
  BY ModRange
<1>2. r - m = AddrSpace * q
  <2> DEFINE d == x \div AddrSpace
  <2>1. d \in Int /\ x = AddrSpace * d + m /\ q = d - k
    BY <1>1, ModRange
  <2> HIDE DEF d, q, m
  <2>2. AddrSpace * (d - k) = AddrSpace * d - AddrSpace * k
        /\ AddrSpace * d \in Int /\ AddrSpace * k \in Int
    BY <2>1, FetchSideAssumption
  <2> QED
    BY <1>1, <2>1, <2>2, FetchSideAssumption
<1> HIDE DEF q, m
<1>3. /\ q >= 1 => AddrSpace * q >= AddrSpace
      /\ q <= -1 => AddrSpace * q <= -AddrSpace
      /\ q = 0 => AddrSpace * q = 0
  BY <1>1, FetchSideAssumption
<1>4. -AddrSpace < r - m /\ r - m < AddrSpace
  BY <1>1, FetchSideAssumption
<1>5. AddrSpace * q \in Int
  BY <1>1, FetchSideAssumption
<1>6. ~(q >= 1) /\ ~(q <= -1)
  BY <1>2, <1>3, <1>4, <1>5, FetchSideAssumption
<1>7. q = 0
  BY <1>1, <1>6
<1>8. r = m
  BY <1>1, <1>2, <1>3, <1>7
<1> QED
  BY <1>8 DEF m

(* Offsets add up.                                                         *)
LEMMA PlusPlus ==
  ASSUME NEW a \in Addr, NEW m \in Int, NEW n \in Int
  PROVE  Plus(Plus(a, m), n) = Plus(a, m + n)
<1> DEFINE x == a + m
           xr == x % AddrSpace
           xq == x \div AddrSpace
           y == xr + n
           yr == y % AddrSpace
           yq == y \div AddrSpace
<1>1. x \in Int
  BY FetchSideAssumption DEF Addr
<1>2. xr \in 0 .. AddrSpace - 1 /\ xq \in Int /\ x = AddrSpace * xq + xr
  BY <1>1, ModRange
<1>3. y \in Int
  BY <1>2, FetchSideAssumption
<1>4. yr \in 0 .. AddrSpace - 1 /\ yq \in Int /\ y = AddrSpace * yq + yr
  BY <1>3, ModRange
<1>5. Plus(Plus(a, m), n) = yr /\ Plus(a, m + n) = (x + n) % AddrSpace /\ y = xr + n
  BY FetchSideAssumption DEF Plus, Addr
<1> HIDE DEF x, xr, xq, y, yr, yq
<1>6. AddrSpace * (xq + yq) = AddrSpace * xq + AddrSpace * yq
      /\ AddrSpace * xq \in Int /\ AddrSpace * yq \in Int
  BY <1>2, <1>4, FetchSideAssumption
<1>7. x + n = AddrSpace * (xq + yq) + yr
  BY <1>1, <1>2, <1>3, <1>4, <1>5, <1>6, FetchSideAssumption
<1>8. xq + yq \in Int /\ x + n \in Int
  BY <1>1, <1>2, <1>4
<1>9. (x + n) % AddrSpace = yr
  BY <1>4, <1>7, <1>8, ModUnique
<1> QED
  BY <1>5, <1>9

(* No offset.                                                              *)
LEMMA PlusZero ==
  ASSUME NEW a \in Addr
  PROVE  Plus(a, 0) = a
<1>1. a \in Int /\ a = AddrSpace * 0 + a /\ a \in 0 .. AddrSpace - 1
  BY FetchSideAssumption DEF Addr
<1>2. a % AddrSpace = a
  BY <1>1, ModUnique
<1>3. a + 0 = a
  BY <1>1
<1> QED
  BY <1>2, <1>3 DEF Plus

(* Going on from a and going back.                                         *)
LEMMA PlusBack ==
  ASSUME NEW a \in Addr, NEW n \in Int
  PROVE  Plus(Plus(a, n), -n) = a
<1>1. -n \in Int /\ n + (-n) = 0
  OBVIOUS
<1> QED
  BY <1>1, PlusPlus, PlusZero

(* A last half word of a chunk is the one before the next chunk.           *)
LEMMA PlusCancel ==
  ASSUME NEW a \in Addr, NEW b \in Addr, NEW n \in Int, Plus(a, n) = Plus(b, n)
  PROVE  a = b
  BY PlusBack

-----------------------------------------------------------------------------
(* Fetch and function stay in step.  The requests ask for consecutive      *)
(* chunks (Chain), a redirect that is coming goes to the functional pc     *)
(* (Aim), and, unless one is coming, the chunk after the one ID has        *)
(* (NextChunk) begins id_remain_size half words after the instruction that *)
(* is next (InStep): one half word of ID's chunk is left, none, or one     *)
(* half word of the next chunk is already taken.                           *)

Chain ==
  /\ Len(cache_reqs) = 1 => pred_pc = Plus(cache_reqs[1].chunk, ChunkSize)
  /\ Len(cache_reqs) = 2 => /\ cache_reqs[2].chunk = Plus(cache_reqs[1].chunk, ChunkSize)
                            /\ pred_pc = Plus(cache_reqs[2].chunk, ChunkSize)

Aim ==
  /\ Mispredicted \/ IsTrap(exe_inst) => exe_inst.target = pc
  /\ IsTrap(mem_inst) => mem_inst.target = pc
  /\ IsTrap(wb_inst) => wb_inst.target = pc

NextChunk == IF Len(cache_reqs) = 0 THEN pred_pc ELSE cache_reqs[1].chunk
Aligned(a) == id_remain_size \in -1 .. 1 /\ NextChunk = Plus(a, id_remain_size)
Rest ==
  /\ id_remain_size > 0 <=> id_stall_valid
  /\ id_remain_size > 0 => Plus(id_inst.chunk, ChunkSize) = NextChunk

RightPath == ~id_wait_redirect /\ ~TrapOnly

BeforeDecode == ~id_valid =>
  /\ Aligned(pc) /\ Rest
  /\ id_stall_valid => ~id_inst.exc

AfterDecode == id_valid =>
  /\ InChunk(pc, id_inst.chunk)
  /\ id_remain_size <= ChunkSize
  /\ ~id_inst.exc =>
       /\ id_inst.real_pc = pc
       /\ Aligned(id_inst.next_pc) /\ Rest
       /\ id_inst.kind \notin {"cond", "direct", "jump"} =>
            id_inst.next_pc = Plus(pc, id_inst.size)

InStep == RightPath => BeforeDecode /\ AfterDecode

PathInv == Chain /\ Aim /\ InStep

(* The next chunk is an address; no more than two requests are held.       *)
LEMMA NextChunkType ==
  ASSUME FrontInv
  PROVE  NextChunk \in Addr /\ Len(cache_reqs) \in {0, 1, 2}
<1>1. cache_reqs \in Seq(IdInst) /\ Len(cache_reqs) \in Nat /\ pred_pc \in Addr
      /\ Sending \in {0, 1}
  BY DEF FrontInv, FrontType, Queue
<1>2. Len(cache_reqs) \in {0, 1, 2}
  <2>1. Sending = Len(cache_reqs) - 1 \/ Sending = Len(cache_reqs) - 0
    BY SendingIs
  <2>2. Len(cache_reqs) \in Nat /\ Sending \in {0, 1}
    BY <1>1
  <2>3. CASE Sending = 0
    BY <2>1, <2>2, <2>3
  <2>4. CASE Sending = 1
    BY <2>1, <2>2, <2>4
  <2> QED
    BY <2>2, <2>3, <2>4
<1>3. Len(cache_reqs) # 0 => cache_reqs[1] \in IdInst
  <2>1. Len(cache_reqs) # 0 => 1 \in 1 .. Len(cache_reqs)
    BY <1>2
  <2> QED
    BY <1>1, <2>1, ElementOfSeq
<1> QED
  BY <1>1, <1>2, <1>3 DEF NextChunk, IdInst

(* preId on the right path: after it the next chunk begins where the       *)
(* decoded instruction ends, or where it is predicted to go.               *)
LEMMA DecodedInStep ==
  ASSUME FrontInv, NEW d \in Decodes, NEW inst,
         NewChunk => inst \in IdInst /\ NextChunk = inst.chunk,
         Aligned(pc), Rest, PreId(inst, d),
         id_stall_valid' = ~Finished(inst, d),
         NextChunk' = IF Redirects(inst, d) THEN d.next_pc
                      ELSE Plus(IF NewChunk THEN inst.chunk ELSE id_inst.chunk, ChunkSize),
         pc' = pc
  PROVE  /\ InChunk(pc, id_inst.chunk)'
         /\ id_remain_size' <= ChunkSize
         /\ ~id_inst'.exc =>
              /\ id_inst'.real_pc = pc
              /\ Aligned(id_inst.next_pc)' /\ Rest'
              /\ id_inst'.kind \notin {"cond", "direct", "jump"} =>
                   id_inst'.next_pc = Plus(pc, id_inst'.size)
<1> DEFINE c == IF NewChunk THEN inst.chunk ELSE id_inst.chunk
           r == id_remain_size
           off == IF NewChunk THEN -r ELSE 2 - r
<1>1. /\ pc \in Addr /\ r \in -1 .. 1 /\ NextChunk \in Addr /\ ChunkSize = 2
      /\ NextChunk = Plus(pc, r) /\ d.size \in {1, 2} /\ d.next_pc \in Addr
      /\ NewChunk <=> r <= 0
  BY NextChunkType, FetchSideAssumption
  DEF FrontInv, FrontType, Aligned, Decodes, ChunkSize, NewChunk
<1>2. ~NewChunk => id_inst \in IdInst
  BY <1>1 DEF FrontInv, FrontType
<1>3. c \in Addr
  BY <1>2 DEF IdInst
<1>4. off \in {0, 1} /\ pc = Plus(c, off)
  <2>1. CASE NewChunk
    <3>1. c = Plus(pc, r) /\ off = -r /\ off \in {0, 1}
      BY <1>1, <2>1
    <3> QED
      BY <1>1, <3>1, PlusBack
  <2>2. CASE ~NewChunk
    <3>1. r = 1 /\ off = 1 /\ Plus(c, 2) = Plus(pc, 1)
      BY <1>1, <2>2 DEF Rest
    <3>2. Plus(c, 2) = Plus(Plus(c, 1), 1)
      BY <1>3, PlusPlus
    <3>3. Plus(c, 1) \in Addr
      BY <1>3, PlusType
    <3> QED
      BY <1>1, <3>1, <3>2, <3>3, PlusCancel
  <2> QED
    BY <2>1, <2>2
<1>5. /\ id_inst' \in IdInst /\ id_inst'.chunk = c
      /\ Faults(inst, d) \/ d.exc => id_inst'.exc
      /\ ~Faults(inst, d) /\ ~d.exc =>
           /\ ~id_inst'.exc /\ id_inst'.kind = d.kind
           /\ id_inst'.real_pc = pc /\ id_inst'.size = d.size
           /\ id_inst'.next_pc = IF d.taken THEN d.next_pc ELSE Plus(pc, d.size)
  BY <1>1, <1>2, DecodedType DEF PreId
<1> DEFINE s == d.size
<1>6. /\ Redirects(inst, d) <=> ~Faults(inst, d) /\ d.taken
      /\ Redirects(inst, d) => id_remain_size' = 0
      /\ ~Redirects(inst, d) /\ Faults(inst, d) =>
           id_remain_size' = IF NewChunk THEN r + 2 ELSE r
      /\ ~Redirects(inst, d) /\ ~Faults(inst, d) => id_remain_size' = 2 - off - s
      /\ Finished(inst, d) <=> Faults(inst, d) \/ id_remain_size' <= 0
  BY <1>1 DEF PreId, RemainAfter, Redirects, Finished, ChunkSize
<1>7. InChunk(pc, id_inst.chunk)'
  BY <1>4, <1>5 DEF InChunk, ChunkSize
<1>8. id_remain_size' \in -1 .. 2
  BY <1>1, <1>4, <1>6
<1>9. ASSUME ~id_inst'.exc
      PROVE  /\ id_inst'.real_pc = pc
             /\ Aligned(id_inst.next_pc)' /\ Rest'
             /\ id_inst'.kind \notin {"cond", "direct", "jump"} =>
                  id_inst'.next_pc = Plus(pc, id_inst'.size)
  <2>1. ~Faults(inst, d) /\ ~d.exc
    BY <1>5, <1>9
  <2>2. id_remain_size' \in -1 .. 1 /\ (id_remain_size' > 0 <=> id_stall_valid')
    <3>1. id_stall_valid' <=> ~Finished(inst, d)
      OBVIOUS
    <3>2. id_remain_size' \in -1 .. 1
      BY <1>1, <1>4, <1>6, <2>1
    <3>3. Finished(inst, d) <=> id_remain_size' <= 0
      BY <1>6, <2>1
    <3> QED
      BY <3>1, <3>2, <3>3
  <2>3. CASE d.taken
    <3>1. id_remain_size' = 0 /\ NextChunk' = d.next_pc /\ id_inst'.next_pc = d.next_pc
      BY <1>5, <1>6, <2>1, <2>3
    <3>2. Plus(d.next_pc, 0) = d.next_pc
      BY <1>1, PlusZero
    <3>3. d.kind \in {"cond", "direct", "jump"}
      BY <2>3 DEF Decodes
    <3> QED
      BY <1>5, <2>1, <2>2, <3>1, <3>2, <3>3 DEF Aligned, Rest
  <2>4. CASE ~d.taken
    <3> DEFINE n == 2 - off - s
    <3>1. id_remain_size' = n /\ NextChunk' = Plus(c, 2) /\ id_inst'.next_pc = Plus(pc, s)
          /\ n \in Int /\ s \in Int /\ off \in Int
      BY <1>1, <1>4, <1>5, <1>6, <2>1, <2>4
    <3>2. Plus(pc, s) = Plus(c, off + s)
      BY <1>3, <1>4, <3>1, PlusPlus
    <3>3. Plus(Plus(c, off + s), n) = Plus(c, (off + s) + n) /\ (off + s) + n = 2
      <4> HIDE DEF off, s, c
      <4>1. (off + s) + n = 2 /\ off + s \in Int
        BY <3>1
      <4> QED
        BY <1>3, <3>1, <4>1, PlusPlus
    <3>4. Plus(Plus(pc, s), n) = Plus(c, 2)
      BY <3>2, <3>3
    <3> HIDE DEF n, c, s
    <3>5. Aligned(id_inst.next_pc)'
      BY <2>2, <3>1, <3>4 DEF Aligned
    <3>6. Rest'
      BY <1>1, <1>5, <2>2, <3>1 DEF Rest
    <3> QED
      BY <1>5, <2>1, <3>1, <3>5, <3>6 DEF s
  <2> QED
    BY <2>3, <2>4
<1> QED
  BY <1>1, <1>7, <1>8, <1>9

(* Both pcs start at the reset vector.                                     *)
LEMMA PathInit ==
  ASSUME Init
  PROVE  PathInv
<1>1. /\ pc = 0 /\ pred_pc = 0 /\ cache_reqs = <<>> /\ id_remain_size = 0
      /\ id_valid = FALSE /\ id_stall_valid = FALSE
      /\ exe_inst = NoInst /\ mem_inst = NoInst /\ wb_inst = NoInst
  BY DEF Init
<1>2. Len(cache_reqs) = 0
  BY <1>1, NoReqs
<1>3. NextChunk = 0 /\ Plus(0, 0) = 0
  <2>1. 0 \in Addr
    BY FetchSideAssumption DEF Addr
  <2> QED
    BY <1>1, <1>2, <2>1, PlusZero DEF NextChunk
<1>4. BeforeDecode
  <2>1. id_remain_size \in -1 .. 1 /\ ~(id_remain_size > 0)
    BY <1>1
  <2> QED
    BY <1>1, <1>3, <2>1 DEF BeforeDecode, Aligned, Rest
<1>5. AfterDecode
  BY <1>1 DEF AfterDecode
<1>6. Chain /\ Aim
  BY <1>1, <1>2 DEF Chain, Aim, IsTrap, Mispredicted
<1> QED
  BY <1>4, <1>5, <1>6 DEF PathInv, InStep

(* Ageing the back end moves no target.                                    *)
LEMMA AimAges ==
  ASSUME Aim, BackAges, pc' = pc
  PROVE  Aim'
  BY DEF Aim, BackAges, Same, IsTrap, Mispredicted

(* Ages do not tell the right path from a wrong one.                       *)
LEMMA RightPathAges ==
  ASSUME BackAges, id_wait_redirect' = id_wait_redirect
  PROVE  RightPath' = RightPath
<1>1. IsTrap(wb_inst)' = IsTrap(wb_inst)
  BY DEF BackAges, Same, IsTrap
<1> QED
  BY <1>1 DEF RightPath, TrapOnly

(* Steps that leave the front end alone.                                   *)
LEMMA PathRests ==
  ASSUME PathInv, UNCHANGED <<fetchVars, idVars>>, Aim', RightPath' => RightPath
  PROVE  PathInv'
<1>1. Chain' /\ NextChunk' = NextChunk
  BY DEF PathInv, Chain, NextChunk, fetchVars
<1>2. BeforeDecode' = BeforeDecode /\ AfterDecode' = AfterDecode
  BY <1>1 DEF BeforeDecode, AfterDecode, Aligned, Rest, fetchVars, idVars, stallVars
<1> QED
  BY <1>1, <1>2 DEF PathInv, InStep

(* The callback decodes the chunk of the request it answers.               *)
LEMMA PathCallback ==
  ASSUME FrontInv, Order, PathInv, Busy, NEW d \in Decodes, Callback(d), ~Busy',
         UNCHANGED <<pc, id_wait_redirect>>, phase' \in {"icache", "wb"}
  PROVE  PathInv'
<1> DEFINE inst == Head(cache_reqs)
<1>1. FrontType' /\ BackAges /\ ~id_valid /\ ~id_stall_valid /\ inst \in IdInst
  BY CallbackKeeps DEF FrontInv
<1>2. /\ cache_reqs \in Seq(IdInst) /\ Len(cache_reqs) \in {1, 2}
      /\ inst = cache_reqs[1] /\ NextChunk = inst.chunk
  <2>1. cache_reqs \in Seq(IdInst) /\ Len(cache_reqs) \in {0, 1, 2}
    BY NextChunkType DEF FrontInv, FrontType
  <2>2. Len(cache_reqs) # 0
    <3>1. Sending = 1
      BY DEF FrontInv, Queue
    <3>2. Sending = Len(cache_reqs) - 1 \/ Sending = Len(cache_reqs) - 0
      BY SendingIs
    <3>3. Len(cache_reqs) \in Nat
      BY <2>1
    <3> QED
      BY <3>1, <3>2, <3>3
  <2>3. Len(cache_reqs) \in {1, 2} /\ inst = cache_reqs[1]
    BY <2>1, <2>2
  <2> QED
    BY <2>1, <2>2, <2>3 DEF NextChunk
<1>3. /\ PreId(inst, d) /\ id_valid' = TRUE
      /\ id_stall_valid' = ~Finished(inst, d)
      /\ IF Redirects(inst, d) THEN RefetchFrom(d.next_pc)
         ELSE cache_reqs' = Tail(cache_reqs) /\ pred_pc' = pred_pc
  BY <1>1 DEF Callback
<1> HIDE DEF inst
<1>4. Chain' /\ NextChunk' = IF Redirects(inst, d) THEN d.next_pc
                             ELSE Plus(inst.chunk, ChunkSize)
  <2>1. CASE Redirects(inst, d)
    <3>1. cache_reqs' = <<>> /\ pred_pc' = d.next_pc /\ Len(cache_reqs') = 0
      BY <1>3, <2>1, NoReqs DEF RefetchFrom
    <3> QED
      BY <2>1, <3>1 DEF Chain, NextChunk
  <2>2. CASE ~Redirects(inst, d)
    <3>1. /\ cache_reqs' = Tail(cache_reqs) /\ pred_pc' = pred_pc
          /\ Len(cache_reqs') = Len(cache_reqs) - 1
          /\ \A i \in 1 .. Len(cache_reqs) - 1 : cache_reqs'[i] = cache_reqs[i + 1]
      <4>1. cache_reqs # <<>>
        BY <1>2, EmptySeq
      <4>2. /\ Len(Tail(cache_reqs)) = Len(cache_reqs) - 1
            /\ \A i \in 1 .. Len(Tail(cache_reqs)) : Tail(cache_reqs)[i] = cache_reqs[i + 1]
        BY <1>2, <4>1, HeadTailProperties
      <4> QED
        BY <1>3, <2>2, <4>2
    <3>2. CASE Len(cache_reqs) = 1
      <4>1. Len(cache_reqs') = 0
        BY <3>1, <3>2
      <4>2. Chain' /\ NextChunk' = pred_pc'
        BY <4>1 DEF Chain, NextChunk
      <4>3. pred_pc = Plus(cache_reqs[1].chunk, ChunkSize)
        BY <3>2 DEF PathInv, Chain
      <4> QED
        BY <1>2, <2>2, <3>1, <4>2, <4>3
    <3>3. CASE Len(cache_reqs) = 2
      <4>1. Len(cache_reqs') = 1 /\ 1 \in 1 .. Len(cache_reqs) - 1 /\ 1 + 1 = 2
        BY <3>1, <3>3
      <4>2. cache_reqs'[1] = cache_reqs[2]
        BY <3>1, <4>1
      <4> QED
        BY <1>2, <2>2, <3>1, <3>3, <4>1, <4>2 DEF PathInv, Chain, NextChunk
    <3> QED
      BY <1>2, <3>2, <3>3
  <2> QED
    BY <2>1, <2>2
<1>5. Aim' /\ RightPath' = RightPath
  BY <1>1, AimAges, RightPathAges DEF PathInv
<1>6. ASSUME RightPath
      PROVE  BeforeDecode' /\ AfterDecode'
  <2>1. Aligned(pc) /\ Rest /\ NewChunk
    BY <1>1, <1>6 DEF PathInv, InStep, BeforeDecode, Aligned, Rest, NewChunk
  <2>2. /\ InChunk(pc, id_inst.chunk)'
        /\ id_remain_size' <= ChunkSize
        /\ ~id_inst'.exc =>
             /\ id_inst'.real_pc = pc
             /\ Aligned(id_inst.next_pc)' /\ Rest'
             /\ id_inst'.kind \notin {"cond", "direct", "jump"} =>
                  id_inst'.next_pc = Plus(pc, id_inst'.size)
    BY <1>1, <1>2, <1>3, <1>4, <2>1, DecodedInStep
  <2> QED
    BY <1>3, <2>2 DEF BeforeDecode, AfterDecode, ChunkSize
<1> QED
  BY <1>4, <1>5, <1>6 DEF PathInv, InStep

(* The second instruction of a chunk, decoded without a fetch.             *)
LEMMA PathStallStep ==
  ASSUME FrontInv, Order, PathInv, NEW d \in Decodes, StallStep(d)
  PROVE  PathInv'
<1> DEFINE inst == id_stall_inst
<1>1. /\ ~id_valid /\ id_stall_valid /\ id_stall_dec_more /\ ~id_stall_inst_valid /\ ~NewChunk
      /\ PreId(inst, d) /\ id_valid' = TRUE
      /\ UNCHANGED <<pc, id_wait_redirect, exe_end>>
  BY DEF StallStep, FrontInv, FrontType, Requests, StallHasRest, NewChunk
<1>2. id_stall_valid' = ~Finished(inst, d)
  <2>1. Redirects(inst, d) \in BOOLEAN /\ Finished(inst, d) \in BOOLEAN
    BY RemainType DEF FrontInv, FrontType, Redirects, Finished, Faults, Decodes
  <2>2. Redirects(inst, d) => Finished(inst, d)
    BY RemainType DEF FrontInv, FrontType
  <2> QED
    BY <1>1, <2>1, <2>2 DEF StallStep
<1>3. IF Redirects(inst, d) THEN RefetchFrom(d.next_pc)
      ELSE UNCHANGED <<pred_pc, cache_reqs>>
  BY DEF StallStep
<1>4. BackAges
  BY FrontStallStep
<1>5. Aim' /\ RightPath' = RightPath
  BY <1>1, <1>4, AimAges, RightPathAges DEF PathInv
<1>6. Chain' /\ NextChunk' = IF Redirects(inst, d) THEN d.next_pc ELSE NextChunk
  <2>1. CASE Redirects(inst, d)
    <3>1. cache_reqs' = <<>> /\ pred_pc' = d.next_pc /\ Len(cache_reqs') = 0
      BY <1>3, <2>1, NoReqs DEF RefetchFrom
    <3> QED
      BY <2>1, <3>1 DEF Chain, NextChunk
  <2>2. CASE ~Redirects(inst, d)
    BY <1>3, <2>2 DEF PathInv, Chain, NextChunk
  <2> QED
    BY <2>1, <2>2
<1> HIDE DEF inst
<1>7. ASSUME RightPath
      PROVE  BeforeDecode' /\ AfterDecode'
  <2>1. Aligned(pc) /\ Rest /\ id_remain_size > 0
    BY <1>1, <1>7 DEF PathInv, InStep, BeforeDecode, Rest
  <2>2. NextChunk' = IF Redirects(inst, d) THEN d.next_pc
                     ELSE Plus(IF NewChunk THEN inst.chunk ELSE id_inst.chunk, ChunkSize)
    BY <1>1, <1>6, <2>1 DEF Rest
  <2>3. /\ InChunk(pc, id_inst.chunk)'
        /\ id_remain_size' <= ChunkSize
        /\ ~id_inst'.exc =>
             /\ id_inst'.real_pc = pc
             /\ Aligned(id_inst.next_pc)' /\ Rest'
             /\ id_inst'.kind \notin {"cond", "direct", "jump"} =>
                  id_inst'.next_pc = Plus(pc, id_inst'.size)
    BY <1>1, <1>2, <2>1, <2>2, DecodedInStep
  <2> QED
    BY <1>1, <2>3 DEF BeforeDecode, AfterDecode, ChunkSize
<1> QED
  BY <1>5, <1>6, <1>7 DEF PathInv, InStep

(* When ID's instruction needs no redirect, the program goes on where it   *)
(* was predicted to.                                                       *)
LEMMA GoesWherePredicted ==
  ASSUME NEW inst \in IdInst, NEW real \in Successors(inst), NEW fail \in PredFails(inst, real),
         ~inst.exc, ~(inst.kind \in {"cond", "jump"} /\ fail),
         inst.kind \notin {"cond", "direct", "jump"} =>
           inst.next_pc = Plus(inst.real_pc, inst.size)
  PROVE  real = inst.next_pc
<1>1. CASE inst.kind \in {"cond", "jump"}
  <2>1. ~fail
    BY <1>1
  <2>2. fail = (real # inst.next_pc) \/ fail = TRUE
    BY DEF PredFails
  <2> QED
    BY <2>1, <2>2
<1>2. CASE inst.kind = "direct"
  BY <1>2 DEF Successors
<1>3. CASE inst.kind \notin {"cond", "direct", "jump"}
  BY <1>3 DEF Successors
<1> QED
  BY <1>1, <1>2, <1>3

(* ID executes: pc moves to where the instruction goes, and ID waits       *)
(* unless it was predicted there.                                          *)
LEMMA PathHandOver ==
  ASSUME FrontInv, Order, PathInv, NEW real \in Addr, NEW fail \in BOOLEAN,
         HandOver(real, fail)
  PROVE  PathInv'
<1>1. /\ phase = "id" /\ id_valid /\ ~id_wait_redirect /\ id_inst \in IdInst
      /\ real \in Successors(id_inst) /\ fail \in PredFails(id_inst, real)
      /\ exe_inst' = BackOf(id_inst, real, fail, TRUE) /\ pc' = real
      /\ id_inst' = Spent(id_inst) /\ id_valid' = FALSE
      /\ id_wait_redirect' = WaitsForRedirect(exe_inst')
      /\ UNCHANGED <<mem_inst, wb_inst>>
  BY DEF HandOver, CanHandOver, FrontInv, FrontType
<1>2. RightPath /\ ~IsTrap(wb_inst) /\ ~IsTrap(mem_inst)
  BY <1>1 DEF Order, TrapOnly, RightPath
<1>3. /\ exe_inst'.kind \in {"redirects", "exc"} => exe_inst'.target = real
      /\ exe_inst'.kind = "exc" <=> id_inst.exc
      /\ exe_inst'.kind = "redirects" <=>
           ~id_inst.exc /\ id_inst.kind \in {"cond", "jump"} /\ fail
  <2>1. TRUE \in BOOLEAN
    OBVIOUS
  <2> DEFINE b == BackOf(id_inst, real, fail, TRUE)
  <2>2. /\ b.kind \in {"redirects", "exc"} => b.target = real
        /\ b.kind = "exc" <=> id_inst.exc
        /\ b.kind = "redirects" <=>
             ~id_inst.exc /\ id_inst.kind \in {"cond", "jump"} /\ fail
    BY <1>1, <2>1, BackOfType
  <2>3. exe_inst' = b
    BY <1>1
  <2> HIDE DEF b
  <2> QED
    BY <2>2, <2>3
<1>4. Aim'
  BY <1>1, <1>2, <1>3 DEF Aim, IsTrap, Mispredicted
<1>5. /\ id_remain_size <= ChunkSize
      /\ ~id_inst.exc =>
           /\ id_inst.real_pc = pc
           /\ Aligned(id_inst.next_pc) /\ Rest
           /\ id_inst.kind \notin {"cond", "direct", "jump"} =>
                id_inst.next_pc = Plus(pc, id_inst.size)
  BY <1>1, <1>2 DEF PathInv, InStep, AfterDecode
<1>6. id_inst'.chunk = id_inst.chunk /\ id_inst'.exc = id_inst.exc
  BY <1>1, SpentType
<1>7. CASE ~id_inst.exc /\ id_inst.kind = "satp"
  <2>1. ClearStall /\ id_remain_size' = 0 /\ RefetchFrom(real)
    BY <1>7 DEF HandOver
  <2>2. cache_reqs' = <<>> /\ pred_pc' = real /\ Len(cache_reqs') = 0 /\ id_stall_valid' = FALSE
    BY <2>1, NoReqs DEF RefetchFrom, ClearStall
  <2>3. Chain' /\ NextChunk' = pc'
    BY <1>1, <2>2 DEF Chain, NextChunk
  <2>4. Plus(pc', 0) = pc'
    BY <1>1, PlusZero
  <2>5. id_remain_size' \in -1 .. 1 /\ ~(id_remain_size' > 0)
    BY <2>1
  <2>6. BeforeDecode' /\ AfterDecode'
    BY <1>1, <2>1, <2>2, <2>3, <2>4, <2>5 DEF BeforeDecode, AfterDecode, Aligned, Rest
  <2> QED
    BY <1>4, <2>3, <2>6 DEF PathInv, InStep
<1>8. CASE ~(~id_inst.exc /\ id_inst.kind = "satp")
  <2>1. UNCHANGED <<id_stall_valid, id_remain_size, pred_pc, cache_reqs>>
    BY <1>8 DEF HandOver, stallVars
  <2>2. Chain' /\ NextChunk' = NextChunk
    BY <2>1 DEF PathInv, Chain, NextChunk
  <2>3. ASSUME RightPath'
        PROVE  BeforeDecode' /\ AfterDecode'
    <3>1. ~id_inst.exc /\ ~(id_inst.kind \in {"cond", "jump"} /\ fail)
      BY <1>1, <1>3, <2>3 DEF RightPath, WaitsForRedirect
    <3>2. pc' = id_inst.next_pc
      BY <1>1, <1>5, <3>1, GoesWherePredicted
    <3> QED
      BY <1>1, <1>5, <1>6, <2>1, <2>2, <3>1, <3>2
      DEF BeforeDecode, AfterDecode, Aligned, Rest
  <2> QED
    BY <1>4, <2>2, <2>3 DEF PathInv, InStep
<1> QED
  BY <1>7, <1>8

(* On a wrong path nothing is claimed.                                     *)
LEMMA PathHandOverWrongPath ==
  ASSUME FrontInv, Order, PathInv, NEW target \in Targets, NEW fail \in BOOLEAN,
         HandOverWrongPath(target, fail)
  PROVE  PathInv'
<1>1. /\ id_valid /\ id_wait_redirect /\ id_inst \in IdInst /\ target \in Addr
      /\ exe_inst' = BackOf(id_inst, target, fail, FALSE)
      /\ UNCHANGED <<cacheVars, fetchVars, id_wait_redirect, mem_inst, wb_inst>>
  BY FetchSideAssumption DEF HandOverWrongPath, CanHandOver, FrontInv, FrontType
<1>2. exe_inst'.done = FALSE
  BY <1>1, BackOfType
<1>3. Aim'
  BY <1>1, <1>2 DEF PathInv, Aim, IsTrap, Mispredicted, fetchVars
<1>4. Chain'
  BY <1>1 DEF PathInv, Chain, fetchVars
<1> QED
  BY <1>1, <1>3, <1>4 DEF PathInv, InStep, RightPath

(* A redirect takes fetching to the functional pc, unless it is the        *)
(* redirect of a wrong-path branch; then WB's follows.                     *)
LEMMA PathRedirect ==
  ASSUME FrontInv, Order, PathInv, BrRedirect \/ ExcRedirect
  PROVE  PathInv'
<1> DEFINE inst == IF phase = "exe" THEN exe_inst ELSE wb_inst
<1>1. /\ id_valid' = FALSE /\ id_remain_size' = 0 /\ id_stall_valid' = FALSE
      /\ cache_reqs' = <<>> /\ pred_pc' = inst.target /\ Len(cache_reqs') = 0 /\ pc' = pc
  BY NoReqs DEF BrRedirect, ExcRedirect, InExe, ClearId, ClearStall, RefetchFrom
<1>2. Chain' /\ NextChunk' = inst.target
  BY <1>1 DEF Chain, NextChunk
<1>3. Aim'
  BY DEF PathInv, Aim, IsTrap, Mispredicted, BrRedirect, ExcRedirect
<1>4. ASSUME RightPath'
      PROVE  BeforeDecode' /\ AfterDecode'
  <2>1. inst.target = pc
    <3>1. CASE BrRedirect
      <4>1. CASE Undone(exe_inst)
        <5>1. IsTrap(wb_inst)'
          BY <3>1, <4>1 DEF BrRedirect, InExe, Order, IsTrap
        <5> QED
          BY <1>4, <5>1 DEF RightPath, TrapOnly
      <4>2. CASE ~Undone(exe_inst)
        BY <3>1, <4>2 DEF BrRedirect, InExe, Undone, PathInv, Aim, Mispredicted
      <4> QED
        BY <4>1, <4>2
    <3>2. CASE ExcRedirect
      BY <3>2 DEF ExcRedirect, Order, Undone, IsTrap, PathInv, Aim
    <3> QED
      BY <3>1, <3>2
  <2>2. pc \in Addr /\ Plus(pc, 0) = pc
    BY PlusZero DEF FrontInv, FrontType
  <2>3. id_remain_size' \in -1 .. 1 /\ ~(id_remain_size' > 0)
    BY <1>1
  <2> QED
    BY <1>1, <1>2, <2>1, <2>2, <2>3 DEF BeforeDecode, AfterDecode, Aligned, Rest
<1> QED
  BY <1>2, <1>3, <1>4 DEF PathInv, InStep

(* FETCH goes on after the last chunk asked for.                           *)
LEMMA PreparedChain ==
  ASSUME FrontInv, Chain, Len(cache_reqs) \in {0, 1}, NEW aged \in IdInst \cup {NoInst},
         Prepare(cache_reqs, aged), exe_end' = exe_end
  PROVE  Chain' /\ NextChunk' = NextChunk
<1>1. cache_reqs \in Seq(IdInst) /\ FrontType
  BY DEF FrontInv, FrontType
<1>2. /\ Len(cache_reqs') = Len(cache_reqs) + 1
      /\ cache_reqs'[Len(cache_reqs) + 1].chunk = pred_pc
      /\ \A i \in 1 .. Len(cache_reqs) : cache_reqs'[i].chunk = cache_reqs[i].chunk
      /\ pred_pc' = Plus(pred_pc, ChunkSize)
  BY <1>1, PrepareType
<1>3. CASE Len(cache_reqs) = 0
  BY <1>2, <1>3 DEF Chain, NextChunk
<1>4. CASE Len(cache_reqs) = 1
  <2>1. Len(cache_reqs') = 2 /\ cache_reqs'[2].chunk = pred_pc
        /\ cache_reqs'[1].chunk = cache_reqs[1].chunk
    BY <1>2, <1>4
  <2> QED
    BY <1>2, <1>4, <2>1 DEF Chain, NextChunk
<1> QED
  BY <1>3, <1>4

(* Fetch asks for the chunk behind the last.                               *)
LEMMA PathPrepare ==
  ASSUME FrontInv, Order, PathInv, FetchSend \/ FetchPrepare
  PROVE  PathInv'
<1>1. /\ phase = "fetch" /\ Prepare(cache_reqs, id_inst) /\ AgeAll("req")
      /\ UNCHANGED <<pc, id_valid, id_remain_size, stallVars, id_wait_redirect, exe_end>>
  BY DEF FetchSend, FetchPrepare, Prepare
<1>2. cache_reqs \in Seq(IdInst) /\ id_inst \in IdInst \cup {NoInst}
  BY DEF FrontInv, FrontType
<1>3. Len(cache_reqs) \in {0, 1}
  <2>1. Len(cache_reqs) \in {0, 1, 2}
    BY NextChunkType
  <2>2. CASE FetchSend
    <3>1. LineOf(Prepared.chunk) \in Lines /\ Accept(LineOf(Prepared.chunk)) /\ fetch_valid
          /\ phase' = "memory"
      BY <2>2, PreparedIsLast, LineOfType DEF FetchSend
    <3>2. ~Busy
      BY <1>1, <3>1, AcceptKeeps DEF FrontInv
    <3>3. Sending = 0
      BY <3>2 DEF FrontInv, Queue
    <3>4. Len(cache_reqs) = Sending + 1
      BY <3>1, PreparedIsLast
    <3> QED
      BY <3>3, <3>4
  <2>3. CASE FetchPrepare
    <3>1. Sending = Len(cache_reqs) - 0
      BY <2>3, SendingIs DEF FetchPrepare
    <3>2. Sending \in {0, 1}
      BY DEF FrontInv, Queue
    <3> QED
      BY <2>1, <3>1, <3>2
  <2> QED
    BY <2>2, <2>3
<1>4. Chain' /\ NextChunk' = NextChunk
  BY <1>1, <1>2, <1>3, PreparedChain DEF PathInv
<1>5. BackAges
  BY <1>1, AgeAllAges DEF FrontInv
<1>6. Aim' /\ RightPath' = RightPath
  BY <1>1, <1>5, AimAges, RightPathAges DEF PathInv
<1>7. /\ id_inst' = Older(id_inst, "req")
      /\ id_inst # NoInst =>
           /\ id_inst'.chunk = id_inst.chunk /\ id_inst'.real_pc = id_inst.real_pc
           /\ id_inst'.kind = id_inst.kind /\ id_inst'.size = id_inst.size
           /\ id_inst'.exc = id_inst.exc /\ id_inst'.next_pc = id_inst.next_pc
  BY <1>1, <1>2, OlderInst DEF Prepare
<1>8. /\ id_valid \/ id_stall_valid \/ id_remain_size > 0 => id_inst # NoInst
  BY DEF FrontInv, FrontType, Requests, StallHasRest
<1>9. BeforeDecode => BeforeDecode'
  BY <1>1, <1>4, <1>7, <1>8 DEF BeforeDecode, Aligned, Rest, stallVars
<1>10. AfterDecode => AfterDecode'
  BY <1>1, <1>4, <1>7, <1>8 DEF AfterDecode, Aligned, Rest, stallVars
<1> QED
  BY <1>4, <1>6, <1>9, <1>10 DEF PathInv, InStep

(* A chunk that cannot be translated is handed to ID as it is.             *)
LEMMA PathFetchFault ==
  ASSUME FrontInv, Order, PathInv, FetchFault
  PROVE  PathInv'
<1> DEFINE aged == [Prepared EXCEPT !.exc = TRUE]
<1>1. /\ phase = "fetch" /\ fetch_valid /\ ~id_valid /\ Len(cache_reqs) = 1 /\ ~id_stall_valid
      /\ id_valid' = TRUE /\ id_remain_size' = id_remain_size + ChunkSize
      /\ Prepare(<<>>, aged) /\ AgeAll("req")
      /\ UNCHANGED <<pc, stallVars, id_wait_redirect, exe_end>>
  BY DEF FetchFault, OnlyPrepared, Prepare
<1>2. Prepared \in IdInst /\ Prepared = cache_reqs[1] /\ Prepared.chunk \in Addr
  <2>1. Prepared \in IdInst /\ Prepared = cache_reqs[Len(cache_reqs)] /\ Prepared.chunk \in Addr
    BY <1>1, PreparedIsLast DEF Prepared
  <2> QED
    BY <1>1, <2>1
<1>3. aged \in IdInst /\ aged.exc = TRUE /\ aged.chunk = Prepared.chunk
  BY <1>2 DEF IdInst
<1> HIDE DEF aged
<1>4. /\ Len(cache_reqs') = 1 /\ cache_reqs'[1].chunk = pred_pc
      /\ pred_pc' = Plus(pred_pc, ChunkSize)
      /\ id_inst' = Older(aged, "req") /\ BackAges
  <2>1. <<>> \in Seq(IdInst) /\ Len(<<>>) = 0 /\ FrontType
    BY NoReqs DEF FrontInv
  <2>2. /\ Len(cache_reqs') = Len(<<>>) + 1 /\ cache_reqs'[Len(<<>>) + 1].chunk = pred_pc
        /\ pred_pc' = Plus(pred_pc, ChunkSize) /\ id_inst' = Older(aged, "req") /\ BackAges
    BY <1>1, <1>3, <2>1, PrepareType
  <2> QED
    BY <2>1, <2>2
<1>5. id_inst'.exc /\ id_inst'.chunk = cache_reqs[1].chunk
  BY <1>2, <1>3, <1>4, OlderInst, NoInstAssumption
<1>6. Chain'
  BY <1>4 DEF Chain
<1>7. Aim' /\ RightPath' = RightPath
  BY <1>1, <1>4, AimAges, RightPathAges DEF PathInv
<1>8. ASSUME RightPath
      PROVE  BeforeDecode' /\ AfterDecode'
  <2> DEFINE r == id_remain_size
             c == cache_reqs[1].chunk
  <2>1. r \in {-1, 0} /\ c = Plus(pc, r) /\ pc \in Addr /\ c \in Addr
    BY <1>1, <1>2, <1>8
    DEF PathInv, InStep, BeforeDecode, Aligned, Rest, NextChunk, FrontInv, FrontType
  <2>2. pc = Plus(c, -r) /\ -r \in 0 .. ChunkSize - 1
    BY <2>1, PlusBack DEF ChunkSize
  <2>3. InChunk(pc, c)
    BY <2>2 DEF InChunk
  <2>4. InChunk(pc, id_inst.chunk)'
    BY <1>1, <1>5, <2>3 DEF InChunk
  <2>5. id_remain_size' <= ChunkSize
    BY <1>1, <2>1 DEF ChunkSize
  <2> QED
    BY <1>1, <1>5, <2>4, <2>5 DEF BeforeDecode, AfterDecode
<1> QED
  BY <1>6, <1>7, <1>8 DEF PathInv, InStep

(* A fetch fault that finds ID busy.                                       *)
LEMMA PathFetchFaultWaits ==
  ASSUME FrontInv, Order, PathInv, FetchFaultWaits
  PROVE  PathInv'
<1>1. /\ Len(cache_reqs') = Len(cache_reqs) /\ Len(cache_reqs) \in {0, 1, 2}
      /\ \A i \in 1 .. Len(cache_reqs) : cache_reqs'[i].chunk = cache_reqs[i].chunk
  BY FrontFetchFaultWaits, NextChunkType
<1>2. UNCHANGED <<pc, pred_pc, idVars, backVars>>
  BY DEF FetchFaultWaits
<1>3. Chain' /\ NextChunk' = NextChunk
  BY <1>1, <1>2 DEF PathInv, Chain, NextChunk
<1>4. Aim' /\ RightPath' = RightPath
  BY <1>2 DEF PathInv, Aim, RightPath, TrapOnly, IsTrap, Mispredicted, idVars, backVars
<1>5. BeforeDecode' = BeforeDecode /\ AfterDecode' = AfterDecode
  BY <1>2, <1>3 DEF BeforeDecode, AfterDecode, Aligned, Rest, idVars, stallVars
<1> QED
  BY <1>3, <1>4, <1>5 DEF PathInv, InStep

(* Every step keeps the third layer.                                       *)
LEMMA PathNext ==
  ASSUME FrontInv, Order, PathInv, [Next]_vars
  PROVE  PathInv'
<1>1. CASE MemoryResponse
  <2>1. CASE ResponseAnswers
    <3>1. PICK d \in Decodes : Callback(d) /\ Response(CallbackRedirects(d))
      BY <1>1, <2>1 DEF MemoryResponse
    <3>2. CallbackRedirects(d) \in BOOLEAN
      BY DEF CallbackRedirects, Redirects, Faults, FrontInv, FrontType, Decodes
    <3>3. Busy /\ ~Busy'
      BY <1>1, <2>1, <3>1, <3>2, ResponseKeeps DEF MemoryResponse, FrontInv
    <3> QED
      BY <1>1, <3>1, <3>3, PathCallback DEF MemoryResponse
  <2>2. CASE ~ResponseAnswers
    <3>1. UNCHANGED <<fetchVars, idVars, backVars>>
      BY <1>1, <2>2 DEF MemoryResponse, fetchVars, idVars
    <3>2. Aim' /\ (RightPath' => RightPath)
      BY <3>1 DEF PathInv, Aim, RightPath, TrapOnly, IsTrap, Mispredicted, fetchVars, idVars,
                  backVars
    <3> QED
      BY <3>1, <3>2, PathRests
  <2> QED
    BY <2>1, <2>2
<1>2. CASE ICacheTick
  <2>1. CASE TickAnswers
    <3>1. PICK d \in Decodes : Callback(d) /\ Tick(CallbackRedirects(d))
      BY <1>2, <2>1 DEF ICacheTick
    <3>2. CallbackRedirects(d) \in BOOLEAN
      BY DEF CallbackRedirects, Redirects, Faults, FrontInv, FrontType, Decodes
    <3>3. Busy /\ ~Busy'
      BY <1>2, <2>1, <3>1, <3>2, TickKeeps DEF ICacheTick, FrontInv
    <3> QED
      BY <1>2, <3>1, <3>3, PathCallback DEF ICacheTick
  <2>2. CASE ~TickAnswers
    <3>1. UNCHANGED <<fetchVars, idVars, backVars>>
      BY <1>2, <2>2 DEF ICacheTick, fetchVars, idVars
    <3>2. Aim' /\ (RightPath' => RightPath)
      BY <3>1 DEF PathInv, Aim, RightPath, TrapOnly, IsTrap, Mispredicted, fetchVars, idVars,
                  backVars
    <3> QED
      BY <3>1, <3>2, PathRests
  <2> QED
    BY <2>1, <2>2
<1>3. CASE \/ MemoryQuiet \/ MemWait \/ ExeIdle \/ ExeStay \/ MoveWait
           \/ NoHandOver \/ NoStall \/ FetchRefused \/ FetchBusy
  <2>1. UNCHANGED <<fetchVars, idVars, backVars>>
    BY <1>3 DEF MemoryQuiet, MemWait, ExeIdle, ExeStay, MoveWait, NoHandOver, NoStall,
                FetchRefused, FetchBusy
  <2>2. Aim' /\ (RightPath' => RightPath)
    BY <2>1 DEF PathInv, Aim, RightPath, TrapOnly, IsTrap, Mispredicted, fetchVars, idVars,
                backVars
  <2> QED
    BY <2>1, <2>2, PathRests
<1>4. CASE WbRetire \/ MemToWb \/ ExePass \/ ExeIfence \/ MoveToMem
  <2>1. UNCHANGED <<fetchVars, idVars>>
    BY <1>4 DEF WbRetire, MemToWb, ExePass, ExeIfence, MoveToMem
  <2>2. /\ MoveToMem /\ IsTrap(mem_inst)' => IsTrap(exe_inst) /\ mem_inst'.target = exe_inst.target
        /\ MemToWb => /\ IsTrap(wb_inst)' <=> IsTrap(mem_inst)
                      /\ IsTrap(wb_inst)' => wb_inst'.target = mem_inst.target
    <3>1. CASE MoveToMem
      BY <3>1, PastType DEF MoveToMem, MemToWb, IsTrap, FrontInv, FrontType
    <3>2. CASE MemToWb
      BY <3>2, PastType DEF MoveToMem, MemToWb, IsTrap, FrontInv, FrontType
    <3> QED
      BY <3>1, <3>2
  <2>3. CASE WbRetire \/ ExePass \/ ExeIfence
    BY <2>1, <2>3, PathRests DEF PathInv, Aim, RightPath, TrapOnly, IsTrap, Mispredicted, Order,
                      fetchVars, idVars, WbRetire, ExePass, ExeIfence
  <2>4. CASE MemToWb
    <3>1. Aim'
      BY <2>1, <2>2, <2>4 DEF PathInv, Aim, IsTrap, Mispredicted, fetchVars, MemToWb
    <3>2. RightPath' => RightPath
      BY <2>1, <2>2, <2>4 DEF RightPath, TrapOnly, IsTrap, Order, idVars, MemToWb
    <3> QED
      BY <2>1, <3>1, <3>2, PathRests
  <2>5. CASE MoveToMem
    <3>1. Aim'
      BY <2>1, <2>2, <2>5 DEF PathInv, Aim, IsTrap, Mispredicted, fetchVars, MoveToMem
    <3>2. RightPath' => RightPath
      BY <2>1, <2>5 DEF RightPath, TrapOnly, IsTrap, idVars, MoveToMem
    <3> QED
      BY <2>1, <3>1, <3>2, PathRests
  <2> QED
    BY <1>4, <2>3, <2>4, <2>5
<1>5. CASE BrRedirect \/ ExcRedirect
  BY <1>5, PathRedirect
<1>6. CASE \E a \in Addr, fail \in BOOLEAN : HandOver(a, fail)
  BY <1>6, PathHandOver
<1>7. CASE \E a \in Targets, fail \in BOOLEAN : HandOverWrongPath(a, fail)
  BY <1>7, PathHandOverWrongPath
<1>8. CASE \E d \in Decodes : StallStep(d)
  BY <1>8, PathStallStep
<1>9. CASE FetchSend \/ FetchPrepare
  BY <1>9, PathPrepare
<1>10. CASE FetchFault
  BY <1>10, PathFetchFault
<1>11. CASE FetchFaultWaits
  BY <1>11, PathFetchFaultWaits
<1>12. CASE UNCHANGED vars
  <2>1. UNCHANGED <<fetchVars, idVars, backVars>>
    BY <1>12 DEF vars
  <2>2. Aim' /\ (RightPath' => RightPath)
    BY <2>1 DEF PathInv, Aim, RightPath, TrapOnly, IsTrap, Mispredicted, fetchVars, idVars,
                backVars
  <2> QED
    BY <2>1, <2>2, PathRests
<1> QED
  BY <1>1, <1>2, <1>3, <1>4, <1>5, <1>6, <1>7, <1>8, <1>9, <1>10, <1>11, <1>12 DEF Next

(* The three layers hold in every reachable state (preId, exec(), the      *)
(* redirects).                                                             *)
THEOREM PathSafe == Spec => [](FrontInv /\ Order /\ PathInv)
<1>1. Init => FrontInv /\ Order /\ PathInv
  BY FrontInit, OrderInit, PathInit
<1>2. (FrontInv /\ Order /\ PathInv) /\ [Next]_vars => (FrontInv /\ Order /\ PathInv)'
  BY FrontNext, OrderNext, PathNext
<1> QED
  BY <1>1, <1>2, PTL DEF Spec

(* exec()'s check of the pc never fires: what ID is about to execute is    *)
(* the instruction at the functional pc, decoded out of the chunk that was *)
(* fetched for it, through every prediction, redirect, stall, half-fetched *)
(* instruction and fault.                                                  *)
THEOREM FetchStaysInStep == Spec => []FetchInStep
<1>1. ASSUME FrontInv, Order, PathInv
      PROVE  FetchInStep
  <2>1. id_valid /\ ~id_wait_redirect => RightPath
    BY <1>1 DEF Order, TrapOnly, RightPath
  <2> QED
    BY <1>1, <2>1 DEF FetchInStep, PathInv, InStep, AfterDecode
<1> QED
  BY <1>1, PathSafe, PTL

-----------------------------------------------------------------------------
(* id_remain_size does not run away.  Each fault of FETCH adds a chunk, but *)
(* only when ID is free: Room counts the one that may be added.  ID is      *)
(* emptied once when the trapping instruction goes to EXE, and twice more   *)
(* before WB redirects.                                                     *)

Room == id_remain_size + (IF id_valid THEN 0 ELSE ChunkSize)

Bounded ==
  /\ id_remain_size >= -1
  /\ Mispredicted \/ IsTrap(exe_inst) => Room <= 2 * ChunkSize
  /\ IsTrap(mem_inst) =>
       Room <= (IF phase = "id" THEN 2 ELSE 3) * ChunkSize
  /\ IsTrap(wb_inst) =>
       Room <= (IF phase \in {"exe", "move", "id"} THEN 3 ELSE 4) * ChunkSize

(* Decoding never adds more than the chunk ID has room for.                *)
LEMMA RemainInRoom ==
  ASSUME id_remain_size \in Int, id_remain_size >= -1, NEW d \in Decodes, NEW inst
  PROVE  RemainAfter(inst, d) \in -1 .. id_remain_size + ChunkSize
<1>1. d.size \in {1, 2}
  BY DEF Decodes
<1> QED
  BY <1>1 DEF RemainAfter, NewChunk, ChunkSize

(* The two cases of Room, as arithmetic.                                   *)
LEMMA RoomIs ==
  ASSUME id_remain_size \in Int
  PROVE  /\ id_valid => Room = id_remain_size
         /\ ~id_valid => Room = id_remain_size + 2
         /\ Room \in Int /\ Room >= id_remain_size
  BY DEF Room, ChunkSize

(* The same after the step.                                                *)
LEMMA NextRoomIs ==
  ASSUME NEW n \in Int, id_remain_size' = n
  PROVE  /\ id_valid' => Room' = n
         /\ ~id_valid' => Room' = n + 2
         /\ Room' \in Int
  BY DEF Room, ChunkSize

(* Steps that only age the back end and add no room.                       *)
LEMMA BoundedFront ==
  ASSUME Bounded, BackAges, Room \in Int, Room' \in Int, Room' <= Room, id_remain_size' >= -1,
         phase' \in {"memory", "icache", "wb", "fetch", "stall"}
  PROVE  Bounded'
<1>1. /\ IsTrap(exe_inst)' = IsTrap(exe_inst) /\ IsTrap(mem_inst)' = IsTrap(mem_inst)
      /\ IsTrap(wb_inst)' = IsTrap(wb_inst) /\ Mispredicted' = Mispredicted
  BY DEF BackAges, Same, IsTrap, Mispredicted
<1> QED
  BY <1>1 DEF Bounded, ChunkSize

(* A decode takes its room and no more.                                    *)
LEMMA BoundedDecode ==
  ASSUME FrontType, Bounded, BackAges, ~id_valid, NEW d \in Decodes, NEW inst, PreId(inst, d),
         id_valid' = TRUE, phase' \in {"icache", "wb", "fetch"}
  PROVE  Bounded'
<1>1. id_remain_size \in Int /\ id_remain_size >= -1
  BY DEF FrontType, Bounded
<1>2. id_remain_size' \in -1 .. id_remain_size + 2
  <2>1. id_remain_size' = RemainAfter(inst, d)
    BY DEF PreId
  <2>2. RemainAfter(inst, d) \in -1 .. id_remain_size + ChunkSize
    BY <1>1, RemainInRoom
  <2> QED
    BY <2>1, <2>2 DEF ChunkSize
<1>3. PICK n \in -1 .. id_remain_size + 2 : id_remain_size' = n
  BY <1>2
<1>4. n \in Int /\ n >= -1 /\ Room = id_remain_size + 2 /\ Room' = n
  BY <1>1, <1>3, RoomIs, NextRoomIs
<1>5. Room \in Int /\ Room' \in Int /\ Room' <= Room /\ id_remain_size' >= -1
  <2>1. n \in Int /\ n <= id_remain_size + 2
    BY <1>1, <1>3
  <2> QED
    BY <1>1, <1>3, <1>4, <2>1
<1> QED
  BY <1>5, BoundedFront

(* Steps of the back end that leave ID alone.                              *)
LEMMA BoundedBack ==
  ASSUME FrontType, Order, Bounded, UNCHANGED <<id_valid, id_remain_size, id_wait_redirect>>,
         \/ WbRetire \/ MemToWb \/ MemWait \/ ExeIdle \/ ExeStay \/ ExePass \/ ExeIfence
         \/ MoveToMem \/ MoveWait
  PROVE  Bounded'
<1>1. Room' = Room /\ Room \in Int
  BY DEF Room, FrontType, ChunkSize
<1> USE <1>1 DEF Order, Bounded, IsTrap, Mispredicted, InExe, ChunkSize
<1>2. CASE WbRetire
  BY <1>2 DEF WbRetire
<1>3. CASE MemToWb
  <2>1. /\ wb_inst' # NoInst /\ wb_inst'.done = mem_inst.done
        /\ wb_inst'.kind = "exc" <=> mem_inst.kind = "exc"
    BY <1>3, PastType DEF MemToWb, FrontType
  <2> QED
    BY <1>3, <2>1 DEF MemToWb
<1>4. CASE MemWait
  BY <1>4 DEF MemWait, backVars
<1>5. CASE ExeIdle
  BY <1>5 DEF ExeIdle, backVars
<1>6. CASE ExeStay
  BY <1>6 DEF ExeStay, backVars
<1>7. CASE ExePass
  BY <1>7 DEF ExePass
<1>8. CASE ExeIfence
  BY <1>8 DEF ExeIfence
<1>9. CASE MoveToMem
  <2>1. /\ mem_inst' # NoInst /\ mem_inst'.done = exe_inst.done
        /\ mem_inst'.kind = "exc" <=> exe_inst.kind = "exc"
    BY <1>9, PastType DEF MoveToMem, FrontType
  <2> QED
    BY <1>9, <2>1 DEF MoveToMem
<1>10. CASE MoveWait
  BY <1>10 DEF MoveWait, backVars
<1> QED
  BY <1>2, <1>3, <1>4, <1>5, <1>6, <1>7, <1>8, <1>9, <1>10

(* Steps that leave ID alone and only age the back end.                    *)
LEMMA BoundedRests ==
  ASSUME FrontType, Bounded, BackAges, UNCHANGED <<id_valid, id_remain_size>>,
         phase' \in {"memory", "icache", "wb", "fetch", "stall"}
  PROVE  Bounded'
<1>1. Room' = Room /\ Room \in Int /\ id_remain_size' >= -1
  BY DEF Room, FrontType, ChunkSize, Bounded
<1> QED
  BY <1>1, BoundedFront

(* The instruction that will redirect is decoded on the right path, where  *)
(* no more than a chunk is left.                                           *)
LEMMA BoundedHandOver ==
  ASSUME FrontInv, Order, PathInv, Bounded, NEW real \in Addr, NEW fail \in BOOLEAN,
         HandOver(real, fail)
  PROVE  Bounded'
<1>1. /\ phase = "id" /\ phase' = "stall" /\ id_valid /\ ~id_wait_redirect
      /\ id_valid' = FALSE /\ UNCHANGED <<mem_inst, wb_inst>>
      /\ id_remain_size' \in {0, id_remain_size}
  BY DEF HandOver, CanHandOver
<1>2. ~IsTrap(wb_inst) /\ ~IsTrap(mem_inst) /\ RightPath
  BY <1>1 DEF Order, TrapOnly, RightPath
<1>3. id_remain_size \in -1 .. 2
  BY <1>1, <1>2 DEF PathInv, InStep, AfterDecode, FrontInv, FrontType, Bounded, ChunkSize
<1>4. PICK n \in -1 .. 2 : id_remain_size' = n
  BY <1>1, <1>3
<1>6. n \in Int /\ Room' = n + 2
  BY <1>1, <1>4, NextRoomIs
<1>7. id_remain_size' >= -1 /\ Room' <= 4
  BY <1>4, <1>6
<1>5. ~IsTrap(wb_inst)' /\ ~IsTrap(mem_inst)'
  BY <1>1, <1>2 DEF IsTrap
<1> QED
  BY <1>5, <1>7 DEF Bounded, ChunkSize

(* Behind it ID is emptied only while it is in MEM or WB.                  *)
LEMMA BoundedHandOverWrongPath ==
  ASSUME FrontInv, Order, Bounded, NEW target \in Targets, NEW fail \in BOOLEAN,
         HandOverWrongPath(target, fail)
  PROVE  Bounded'
<1>1. /\ phase = "id" /\ phase' = "stall" /\ id_valid /\ id_valid' = FALSE
      /\ UNCHANGED <<mem_inst, wb_inst, id_remain_size>>
      /\ exe_inst' = BackOf(id_inst, target, fail, FALSE)
  BY DEF HandOverWrongPath, CanHandOver
<1>2. exe_inst'.done = FALSE
  BY <1>1 DEF BackOf
<1>3. /\ ~Mispredicted' /\ ~IsTrap(exe_inst)'
      /\ IsTrap(mem_inst)' = IsTrap(mem_inst) /\ IsTrap(wb_inst)' = IsTrap(wb_inst)
  BY <1>1, <1>2 DEF Mispredicted, IsTrap
<1>4. PICK n \in Int : id_remain_size = n /\ n >= -1
  BY DEF FrontInv, FrontType, Bounded
<1>6. Room = n /\ Room' = n + 2 /\ id_remain_size' = n
  <2>1. Room = n
    BY <1>1, <1>4, RoomIs
  <2>2. id_remain_size' = n
    BY <1>1, <1>4
  <2>3. Room' = n + 2
    BY <1>1, <1>4, <2>2, NextRoomIs
  <2> QED
    BY <2>1, <2>2, <2>3
<1>5. /\ IsTrap(mem_inst)' => Room' <= 6
      /\ IsTrap(wb_inst)' => Room' <= 8
  <2>1. /\ IsTrap(mem_inst) => n <= 4
        /\ IsTrap(wb_inst) => n <= 6
    BY <1>1, <1>4, <1>6 DEF Bounded, ChunkSize
  <2>2. Room' = n + 2 /\ n \in Int
    BY <1>4, <1>6
  <2> QED
    BY <1>3, <2>1, <2>2
<1>7. id_remain_size' >= -1 /\ phase' = "stall"
  BY <1>1, <1>4, <1>6
<1> QED
  BY <1>3, <1>5, <1>7 DEF Bounded, ChunkSize

(* A redirect of a branch counts from zero again; one of a trap leaves     *)
(* nothing behind it.                                                      *)
LEMMA BoundedRedirect ==
  ASSUME FrontInv, Order, Bounded, BrRedirect \/ ExcRedirect
  PROVE  Bounded'
<1>1. id_valid' = FALSE /\ id_remain_size' = 0
  BY DEF BrRedirect, ExcRedirect, ClearId
<1>2. Room' = 2 /\ id_remain_size' = 0
  BY <1>1 DEF Room, ChunkSize
<1> QED
  BY <1>2 DEF Bounded, ChunkSize

(* Every step keeps the fourth layer.                                      *)
LEMMA BoundedNext ==
  ASSUME FrontInv, Order, PathInv, Bounded, [Next]_vars
  PROVE  Bounded'
<1> USE DEF FrontInv
<1>1. CASE MemoryResponse
  <2>1. CASE ResponseAnswers
    <3>1. PICK d \in Decodes : Callback(d) /\ Response(CallbackRedirects(d))
      BY <1>1, <2>1 DEF MemoryResponse
    <3>2. CallbackRedirects(d) \in BOOLEAN
      BY DEF CallbackRedirects, Redirects, Faults, FrontType, Decodes
    <3>3. Busy /\ ~Busy'
      BY <1>1, <2>1, <3>1, <3>2, ResponseKeeps DEF MemoryResponse
    <3>4. BackAges /\ ~id_valid
      BY <1>1, <3>1, <3>3, CallbackKeeps DEF MemoryResponse
    <3>5. id_valid' = TRUE /\ PreId(Head(cache_reqs), d) /\ phase' = "icache"
      BY <1>1, <3>1, <3>4 DEF Callback, MemoryResponse
    <3> QED
      BY <3>4, <3>5, BoundedDecode
  <2>2. CASE ~ResponseAnswers
    <3>1. UNCHANGED <<id_valid, id_remain_size, backVars>> /\ phase' = "icache"
      BY <1>1, <2>2 DEF MemoryResponse
    <3> QED
      BY <3>1, BackRests, BoundedRests
  <2> QED
    BY <2>1, <2>2
<1>2. CASE ICacheTick
  <2>1. CASE TickAnswers
    <3>1. PICK d \in Decodes : Callback(d) /\ Tick(CallbackRedirects(d))
      BY <1>2, <2>1 DEF ICacheTick
    <3>2. CallbackRedirects(d) \in BOOLEAN
      BY DEF CallbackRedirects, Redirects, Faults, FrontType, Decodes
    <3>3. Busy /\ ~Busy'
      BY <1>2, <2>1, <3>1, <3>2, TickKeeps DEF ICacheTick
    <3>4. BackAges /\ ~id_valid
      BY <1>2, <3>1, <3>3, CallbackKeeps DEF ICacheTick
    <3>5. id_valid' = TRUE /\ PreId(Head(cache_reqs), d) /\ phase' = "wb"
      BY <1>2, <3>1, <3>4 DEF Callback, ICacheTick
    <3> QED
      BY <3>4, <3>5, BoundedDecode
  <2>2. CASE ~TickAnswers
    <3>1. UNCHANGED <<id_valid, id_remain_size, backVars>> /\ phase' = "wb"
      BY <1>2, <2>2 DEF ICacheTick
    <3> QED
      BY <3>1, BackRests, BoundedRests
  <2> QED
    BY <2>1, <2>2
<1>3. CASE \/ MemoryQuiet \/ NoHandOver \/ NoStall \/ FetchRefused \/ FetchBusy
           \/ FetchFaultWaits
  <2>1. /\ UNCHANGED <<id_valid, id_remain_size, backVars>>
        /\ phase' \in {"memory", "icache", "fetch", "stall"}
    BY <1>3 DEF MemoryQuiet, NoHandOver, NoStall, FetchRefused, FetchBusy, FetchFaultWaits,
                idVars
  <2> QED
    BY <2>1, BackRests, BoundedRests
<1>4. CASE \/ WbRetire \/ MemToWb \/ MemWait \/ ExeIdle \/ ExeStay \/ ExePass \/ ExeIfence
           \/ MoveToMem \/ MoveWait
  <2>1. UNCHANGED <<id_valid, id_remain_size, id_wait_redirect>>
    BY <1>4 DEF WbRetire, MemToWb, MemWait, ExeIdle, ExeStay, ExePass, ExeIfence,
                MoveToMem, MoveWait, idVars
  <2> QED
    BY <1>4, <2>1, BoundedBack
<1>5. CASE BrRedirect \/ ExcRedirect
  BY <1>5, BoundedRedirect
<1>6. CASE \E a \in Addr, fail \in BOOLEAN : HandOver(a, fail)
  BY <1>6, BoundedHandOver
<1>7. CASE \E a \in Targets, fail \in BOOLEAN : HandOverWrongPath(a, fail)
  BY <1>7, BoundedHandOverWrongPath
<1>8. CASE \E d \in Decodes : StallStep(d)
  <2>1. PICK d \in Decodes : StallStep(d)
    BY <1>8
  <2>2. BackAges
    BY <2>1, FrontStallStep
  <2>3. ~id_valid /\ id_valid' = TRUE /\ PreId(id_stall_inst, d) /\ phase' = "fetch"
    BY <2>1 DEF StallStep
  <2> QED
    BY <2>2, <2>3, BoundedDecode
<1>9. CASE FetchSend \/ FetchPrepare
  <2>1. /\ UNCHANGED <<id_valid, id_remain_size, exe_end>> /\ AgeAll("req")
        /\ phase' = "memory"
    BY <1>9 DEF FetchSend, FetchPrepare, Prepare
  <2> QED
    BY <2>1, AgeAllAges, BoundedRests
<1>10. CASE FetchFault
  <2>1. /\ ~id_valid /\ id_valid' = TRUE /\ id_remain_size' = id_remain_size + ChunkSize
        /\ exe_end' = exe_end /\ AgeAll("req") /\ phase' = "memory"
    BY <1>10 DEF FetchFault, Prepare
  <2>2. PICK n \in Int : id_remain_size = n /\ n >= -1
    BY DEF FrontType, Bounded
  <2>3. Room = n + 2
    BY <2>1, <2>2, RoomIs
  <2>4. id_remain_size' = n + 2 /\ n + 2 \in Int
    BY <2>1, <2>2 DEF ChunkSize
  <2>5. Room' = n + 2
    BY <2>1, <2>4, NextRoomIs
  <2>6. Room' = Room /\ Room \in Int /\ Room' \in Int /\ Room' <= Room
        /\ id_remain_size' >= -1
    BY <2>2, <2>3, <2>4, <2>5
  <2> QED
    BY <2>1, <2>6, AgeAllAges, BoundedFront
<1>11. CASE UNCHANGED vars
  BY <1>11 DEF Bounded, Room, IsTrap, Mispredicted, vars, idVars, backVars
<1> QED
  BY <1>1, <1>2, <1>3, <1>4, <1>5, <1>6, <1>7, <1>8, <1>9, <1>10, <1>11 DEF Next

(* Nothing is left over at the start.                                      *)
LEMMA BoundedInit ==
  ASSUME Init
  PROVE  Bounded
<1>1. id_remain_size = 0 /\ ~id_valid /\ exe_inst = NoInst /\ mem_inst = NoInst
      /\ wb_inst = NoInst
  BY DEF Init
<1> QED
  BY <1>1 DEF Bounded, Room, IsTrap, Mispredicted, ChunkSize

(* The four layers hold in every reachable state (id_remain_size in preId  *)
(* and frontRedirect).                                                     *)
THEOREM BoundedSafe == Spec => [](FrontInv /\ Order /\ PathInv /\ Bounded)
<1>1. Init => FrontInv /\ Order /\ PathInv /\ Bounded
  BY FrontInit, OrderInit, PathInit, BoundedInit
<1>2. (FrontInv /\ Order /\ PathInv /\ Bounded) /\ [Next]_vars =>
        (FrontInv /\ Order /\ PathInv /\ Bounded)'
  BY FrontNext, OrderNext, PathNext, BoundedNext
<1> QED
  BY <1>1, <1>2, PTL DEF Spec

(* Every variable stays in its range; id_remain_size stays within four     *)
(* chunks, however many fetch faults are decoded on a wrong path.          *)
THEOREM FetchTypeCorrect == Spec => []TypeOK
<1>1. ASSUME FrontInv, Order, PathInv, Bounded
      PROVE  TypeOK
  <2>1. id_remain_size \in Int /\ id_remain_size >= -1 /\ Room \in Int
        /\ Room >= id_remain_size
    BY <1>1, RoomIs DEF FrontInv, FrontType, Bounded
  <2>2. id_remain_size <= 8
    <3>1. CASE RightPath
      <4>1. CASE id_valid
        BY <1>1, <2>1, <3>1, <4>1 DEF PathInv, InStep, AfterDecode, ChunkSize
      <4>2. CASE ~id_valid
        <5>1. id_remain_size \in -1 .. 1
          BY <1>1, <3>1, <4>2 DEF PathInv, InStep, BeforeDecode, Aligned
        <5> QED
          BY <5>1
      <4> QED
        BY <4>1, <4>2
    <3>2. CASE ~RightPath
      <4>1. Mispredicted \/ IsTrap(wb_inst) \/ IsTrap(mem_inst) \/ IsTrap(exe_inst)
        BY <1>1, <3>2 DEF RightPath, TrapOnly, Order
      <4>2. Room <= 4 \/ Room <= 6 \/ Room <= 8
        BY <1>1, <2>1, <4>1 DEF Bounded, ChunkSize
      <4> QED
        BY <2>1, <4>2
    <3> QED
      BY <3>1, <3>2
  <2>3. id_remain_size \in -1 .. 4 * ChunkSize
    BY <2>1, <2>2 DEF ChunkSize
  <2> QED
    BY <1>1, <2>3 DEF TypeOK, FrontInv, FrontType, CacheInv
<1> QED
  BY <1>1, BoundedSafe, PTL

-----------------------------------------------------------------------------
(* The rings of Inst objects have no check of their own.  An object is     *)
(* safe because few more are handed out before ID rests: ReqsLeft of       *)
(* id_insts and ExtrasLeft of id_extra_insts, until the next instruction   *)
(* goes to EXE or a branch redirects.  Each stage's object is bounded by   *)
(* its age and those still to come; in a stage that is left within the     *)
(* cycle, by its age alone.                                                *)

Age(inst, ring) == IF inst # NoInst /\ inst.obj.ring = ring THEN inst.obj.age ELSE 0

ReqsLeft ==
  (IF id_valid THEN 0 ELSE IF Sending = 1 THEN 1 ELSE 2) + (IF fetch_valid THEN 0 ELSE 1)
ExtrasLeft == IF id_valid THEN 0 ELSE 1

Unresolved == exe_inst # NoInst /\ exe_inst.kind = "redirects" /\ ~exe_end
BeforeFetch == phase \in {"stall", "fetch"}

ReqAges ==
  /\ ~fetch_valid => cache_reqs = <<>>
  /\ \A i \in 1 .. Len(cache_reqs) :
       cache_reqs[i].obj = [ring |-> "req", age |-> Len(cache_reqs) - i]

(* What may have redirected when it was decoded, and what an exception of  *)
(* it may hide.                                                            *)
MayBeTaken(inst) == inst.exc \/ inst.kind \in {"cond", "direct", "jump"}

IdAges == id_valid =>
  /\ Age(id_inst, "req") + ReqsLeft <= (IF MayBeTaken(id_inst) THEN 2 ELSE 1)
  /\ Age(id_inst, "extra") = 0

ExeAges == exe_inst # NoInst =>
  /\ IF Unresolved THEN Age(exe_inst, "req") <= (IF BeforeFetch THEN 2 ELSE 3)
     ELSE Age(exe_inst, "req") + ReqsLeft <=
            (IF exe_inst.kind = "redirects" THEN 6
             ELSE IF exe_inst.kind = "mem" THEN 3 ELSE 4)
  /\ Age(exe_inst, "extra") + ExtrasLeft <= (IF exe_end THEN 2 ELSE 1)

MemAges == mem_inst # NoInst =>
  /\ IF mem_inst.kind # "mem"
       THEN Age(mem_inst, "req") <= (IF BeforeFetch \/ phase = "id" THEN 6 ELSE 7)
     ELSE IF exe_inst = NoInst THEN Age(mem_inst, "req") + ReqsLeft <= 3
     ELSE IF Unresolved THEN Age(mem_inst, "req") <= (IF BeforeFetch THEN 3 ELSE 4)
     ELSE Age(mem_inst, "req") + ReqsLeft <= 7
  /\ Age(mem_inst, "extra") + ExtrasLeft <=
       (IF exe_inst = NoInst THEN 2 ELSE IF exe_end THEN 4 ELSE 3)

WbAges == wb_inst # NoInst =>
  /\ Age(wb_inst, "req") <=
       (IF phase \in {"exe", "move", "id", "stall", "fetch"} THEN 7 ELSE 8)
  /\ Age(wb_inst, "extra") <= (IF phase \in {"exe", "move", "id", "stall"} THEN 4
                               ELSE IF phase \in {"fetch", "memory"} THEN 5
                               ELSE IF phase = "icache" THEN 6 ELSE 7)

AgeInv == ReqAges /\ IdAges /\ ExeAges /\ MemAges /\ WbAges

(* An age is a number.                                                     *)
LEMMA AgeType ==
  ASSUME NEW inst \in IdInst \cup BackInst \cup {NoInst}, NEW ring
  PROVE  Age(inst, ring) \in Nat
<1>1. inst # NoInst => inst.obj \in Ages
  BY DEF IdInst, BackInst
<1> QED
  BY <1>1 DEF Age, Ages

(* Handing out an object ages those of its ring by at most one.            *)
LEMMA OlderAge ==
  ASSUME NEW inst \in IdInst \cup BackInst \cup {NoInst}, NEW ring, NEW r
  PROVE  /\ Age(Older(inst, ring), r) \in Nat
         /\ r = ring => Age(Older(inst, ring), r) <= Age(inst, r) + 1
         /\ r # ring => Age(Older(inst, ring), r) = Age(inst, r)
<1>1. CASE inst # NoInst /\ inst.obj.ring = ring /\ inst.obj.age < RetireSize
  <2>1. inst \in IdInst \cup BackInst /\ inst.obj \in Ages
    BY <1>1 DEF IdInst, BackInst
  <2>2. [inst.obj EXCEPT !.age = @ + 1] \in Ages
    BY <1>1, <2>1, FetchSideAssumption DEF Ages
  <2>3. Older(inst, ring) = [inst EXCEPT !.obj = [inst.obj EXCEPT !.age = @ + 1]]
    BY <1>1, <2>1 DEF Older, IdInst, BackInst
  <2>4. Older(inst, ring).obj = [inst.obj EXCEPT !.age = @ + 1]
    BY <2>1, <2>3 DEF IdInst, BackInst
  <2>5. Older(inst, ring).obj.ring = inst.obj.ring
        /\ Older(inst, ring).obj.age = inst.obj.age + 1 /\ inst.obj.age \in Nat
    BY <2>1, <2>4 DEF Ages
  <2>6. Older(inst, ring) # NoInst
    BY <2>1, OlderInst, OlderBack, NoInstAssumption
  <2> QED
    BY <1>1, <2>5, <2>6 DEF Age
<1>2. CASE ~(inst # NoInst /\ inst.obj.ring = ring /\ inst.obj.age < RetireSize)
  <2>1. Older(inst, ring) = inst
    BY <1>2 DEF Older
  <2> QED
    BY <2>1, AgeType
<1> QED
  BY <1>1, <1>2

(* So are those of the stages.                                             *)
LEMMA StageAges ==
  ASSUME FrontType, NEW ring
  PROVE  /\ Age(exe_inst, ring) \in Nat /\ Age(mem_inst, ring) \in Nat
         /\ Age(wb_inst, ring) \in Nat /\ Age(id_inst, ring) \in Nat
  BY AgeType DEF FrontType

(* What is left to hand out.                                               *)
LEMMA LeftType ==
  ASSUME FrontInv
  PROVE  ReqsLeft \in 0 .. 3 /\ ExtrasLeft \in 0 .. 1
  BY DEF ReqsLeft, ExtrasLeft

(* What is left once ID has an instruction, and once it is free with no    *)
(* request under way.                                                      *)
LEMMA LeftValid ==
  ASSUME id_valid'
  PROVE  /\ ExtrasLeft' = 0
         /\ fetch_valid' => ReqsLeft' = 0
         /\ ~fetch_valid' => ReqsLeft' = 1
  BY DEF ReqsLeft, ExtrasLeft

(* ID is free again.                                                       *)
LEMMA LeftFree ==
  ASSUME ~id_valid'
  PROVE  /\ ExtrasLeft' = 1
         /\ Sending' = 0 => /\ fetch_valid' => ReqsLeft' = 2
                            /\ ~fetch_valid' => ReqsLeft' = 3
  BY DEF ReqsLeft, ExtrasLeft

(* Nothing was handed out.                                                 *)
LEMMA LeftSame ==
  ASSUME UNCHANGED <<id_valid, fetch_valid>>, Sending' = Sending
  PROVE  ReqsLeft' = ReqsLeft /\ ExtrasLeft' = ExtrasLeft
  BY DEF ReqsLeft, ExtrasLeft

(* Steps that leave ID, FETCH and the back end alone.                      *)
Follows ==
  \/ (phase = "memory" /\ phase' = "icache") \/ (phase = "icache" /\ phase' = "wb")
  \/ (phase = "wb" /\ phase' = "mem") \/ (phase = "mem" /\ phase' = "exe")
  \/ (phase = "exe" /\ phase' = "move") \/ (phase = "move" /\ phase' = "id")
  \/ (phase = "id" /\ phase' = "stall") \/ (phase = "stall" /\ phase' = "fetch")
  \/ (phase = "fetch" /\ phase' = "memory")

(* A step that hands out nothing and moves no instruction.                 *)
LEMMA AgesRest ==
  ASSUME FrontInv, Order, AgeInv, Follows,
         UNCHANGED <<id_valid, id_inst, fetch_valid, backVars>>,
         Sending' = Sending, ReqAges',
         phase = "mem" => (mem_inst # NoInst => mem_inst.kind = "mem"),
         phase = "wb" => wb_inst = NoInst
  PROVE  AgeInv'
<1>1. ReqsLeft' = ReqsLeft /\ ExtrasLeft' = ExtrasLeft
  BY LeftSame
<1>2. UNCHANGED <<exe_inst, exe_end, mem_inst, wb_inst, id_valid, id_inst>>
      /\ Unresolved' = Unresolved
  BY DEF backVars, Unresolved
<1>3. phase \in {"move", "id"} => ~Unresolved
  BY DEF Order, Unresolved
<1>4. \A r \in {"req", "extra"} :
        /\ Age(exe_inst, r) \in Nat /\ Age(mem_inst, r) \in Nat
        /\ Age(wb_inst, r) \in Nat /\ Age(id_inst, r) \in Nat
  BY StageAges DEF FrontInv
<1>5. IdAges'
  BY <1>1, <1>2 DEF AgeInv, IdAges
<1>6. ExeAges'
  BY <1>1, <1>2, <1>3, <1>4 DEF AgeInv, ExeAges, BeforeFetch, Follows
<1>7. MemAges'
  BY <1>1, <1>2, <1>3, <1>4 DEF AgeInv, MemAges, BeforeFetch, Follows, Order
<1>8. WbAges'
  BY <1>2, <1>4 DEF AgeInv, WbAges, Follows, Order
<1> QED
  BY <1>5, <1>6, <1>7, <1>8 DEF AgeInv

(* WB, MEM, EXE and the move, without a redirect.                          *)
LEMMA AgesBack ==
  ASSUME FrontInv, Order, AgeInv,
         WbRetire \/ MemToWb \/ ExePass \/ ExeIfence \/ MoveToMem
  PROVE  AgeInv'
<1>1. UNCHANGED <<pc, id_valid, id_inst, fetch_valid, cache_reqs>>
  BY DEF WbRetire, MemToWb, ExePass, ExeIfence, MoveToMem, idVars, fetchVars
<1>2. Sending' = Sending
  BY <1>1 DEF Sending
<1>3. ReqsLeft' = ReqsLeft /\ ExtrasLeft' = ExtrasLeft /\ ReqAges' /\ IdAges'
  BY <1>1, <1>2, LeftSame DEF AgeInv, ReqAges, IdAges
<1>4. /\ \A r \in {"req", "extra"} :
           /\ Age(exe_inst, r) \in Nat /\ Age(mem_inst, r) \in Nat
           /\ Age(wb_inst, r) \in Nat /\ Age(id_inst, r) \in Nat
      /\ ReqsLeft \in 0 .. 3 /\ ExtrasLeft \in 0 .. 1
  BY StageAges, LeftType DEF FrontInv
<1>5. CASE WbRetire
  <2>1. /\ phase = "wb" /\ phase' = "mem" /\ wb_inst' = NoInst
        /\ UNCHANGED <<exe_inst, exe_end, mem_inst>>
    BY <1>5 DEF WbRetire
  <2>2. Unresolved' = Unresolved
    BY <2>1 DEF Unresolved
  <2>3. ExeAges'
    BY <1>3, <2>1, <2>2 DEF AgeInv, ExeAges, BeforeFetch
  <2>4. MemAges'
    BY <1>3, <2>1, <2>2 DEF AgeInv, MemAges, BeforeFetch
  <2> QED
    BY <1>3, <2>1, <2>3, <2>4 DEF AgeInv, WbAges
<1>6. CASE MemToWb
  <2>1. /\ phase = "mem" /\ phase' = "exe" /\ mem_inst' = NoInst
        /\ mem_inst # NoInst /\ UNCHANGED <<exe_inst, exe_end>>
    BY <1>6 DEF MemToWb
  <2>7. \A r \in {"req", "extra"} : Age(wb_inst', r) = Age(mem_inst, r)
    <3>1. wb_inst' # NoInst /\ wb_inst'.obj = mem_inst.obj
      BY <1>6, <2>1, PastType DEF MemToWb, FrontInv, FrontType
    <3> QED
      BY <2>1, <3>1 DEF Age
  <2>2. Unresolved' = Unresolved
    BY <2>1 DEF Unresolved
  <2>3. ExeAges'
    BY <1>3, <2>1, <2>2 DEF AgeInv, ExeAges, BeforeFetch
  <2>4. Age(mem_inst, "req") <= 7
    <3>1. CASE mem_inst.kind # "mem"
      BY <1>4, <2>1, <3>1 DEF AgeInv, MemAges, BeforeFetch
    <3>2. CASE mem_inst.kind = "mem"
      BY <1>4, <2>1, <3>2 DEF AgeInv, MemAges, BeforeFetch
    <3> QED
      BY <3>1, <3>2
  <2>5. Age(mem_inst, "extra") <= 4
    BY <1>4, <2>1 DEF AgeInv, MemAges
  <2>6. WbAges'
    BY <2>1, <2>4, <2>5, <2>7 DEF WbAges
  <2> QED
    BY <1>3, <2>1, <2>3, <2>6 DEF AgeInv, MemAges
<1>7. CASE ExePass \/ ExeIfence
  <2>1. /\ phase = "exe" /\ phase' = "move" /\ exe_end' = TRUE /\ ~exe_end
        /\ exe_inst # NoInst /\ exe_inst.kind # "redirects"
        /\ UNCHANGED <<exe_inst, mem_inst, wb_inst>>
    BY <1>7 DEF ExePass, ExeIfence, InExe
  <2>2. ~Unresolved /\ ~Unresolved'
    BY <2>1 DEF Unresolved
  <2>3. ExeAges'
    BY <1>3, <1>4, <2>1, <2>2 DEF AgeInv, ExeAges
  <2>4. MemAges'
    BY <1>3, <1>4, <2>1, <2>2 DEF AgeInv, MemAges, BeforeFetch
  <2>5. WbAges'
    BY <2>1 DEF AgeInv, WbAges
  <2> QED
    BY <1>3, <2>3, <2>4, <2>5 DEF AgeInv
<1>8. CASE MoveToMem
  <2>1. /\ phase = "move" /\ phase' = "id" /\ exe_inst # NoInst /\ exe_end
        /\ exe_inst' = NoInst /\ wb_inst' = wb_inst
    BY <1>8 DEF MoveToMem
  <2>6. /\ \A r \in {"req", "extra"} : Age(mem_inst', r) = Age(exe_inst, r)
        /\ mem_inst'.kind = "mem" <=> exe_inst.kind = "mem"
    <3>1. exe_inst \in BackInst /\ mem_inst' = PastExe(exe_inst)
      BY <1>8, <2>1 DEF MoveToMem, FrontInv, FrontType
    <3>2. mem_inst' # NoInst /\ mem_inst'.obj = exe_inst.obj
      BY <3>1, PastType
    <3>3. \A r \in {"req", "extra"} : Age(mem_inst', r) = Age(exe_inst, r)
      BY <2>1, <3>2 DEF Age
    <3> QED
      BY <3>1, <3>3, PastExeMem
  <2>2. ~Unresolved
    BY <2>1 DEF Unresolved
  <2>3. Age(exe_inst, "req") <= 6
        /\ (exe_inst.kind = "mem" => Age(exe_inst, "req") + ReqsLeft <= 3)
        /\ Age(exe_inst, "extra") + ExtrasLeft <= 2
    BY <1>4, <2>1, <2>2 DEF AgeInv, ExeAges
  <2>4. MemAges'
    BY <1>3, <2>1, <2>3, <2>6 DEF MemAges, BeforeFetch
  <2>5. WbAges'
    BY <2>1 DEF AgeInv, WbAges
  <2> QED
    BY <1>3, <2>1, <2>4, <2>5 DEF AgeInv, ExeAges
<1> QED
  BY <1>5, <1>6, <1>7, <1>8

(* After a redirect, three requests may be prepared before ID rests.       *)
LEMMA RedirectLeaves ==
  ASSUME NEW a, RefetchFrom(a), id_valid' = FALSE
  PROVE  ReqsLeft' = 3 /\ ExtrasLeft' = 1 /\ ReqAges' /\ IdAges'
<1>1. fetch_valid' = FALSE /\ cache_reqs' = <<>>
  BY DEF RefetchFrom
<1>2. Sending' = 0
  BY <1>1, NoReqs DEF Sending
<1>3. ReqAges'
  BY <1>1, NoReqs DEF ReqAges
<1> QED
  BY <1>1, <1>2, <1>3, LeftFree DEF IdAges

(* A redirect empties the stages behind it.                                *)
LEMMA AgesRedirect ==
  ASSUME FrontInv, Order, AgeInv, BrRedirect \/ ExcRedirect
  PROVE  AgeInv'
<1>1. ReqsLeft' = 3 /\ ExtrasLeft' = 1 /\ ReqAges' /\ IdAges'
  BY RedirectLeaves DEF BrRedirect, ExcRedirect, ClearId
<1>2. /\ \A r \in {"req", "extra"} :
           /\ Age(exe_inst, r) \in Nat /\ Age(mem_inst, r) \in Nat
           /\ Age(wb_inst, r) \in Nat
      /\ ReqsLeft \in 0 .. 3 /\ ExtrasLeft \in 0 .. 1
  BY StageAges, LeftType DEF FrontInv
<1>3. CASE BrRedirect
  <2>1. /\ phase = "exe" /\ phase' = "move" /\ exe_end' = TRUE /\ ~exe_end
        /\ exe_inst # NoInst /\ exe_inst.kind = "redirects"
        /\ UNCHANGED <<exe_inst, mem_inst, wb_inst>>
    BY <1>3 DEF BrRedirect, InExe
  <2>2. Unresolved /\ ~Unresolved'
    BY <2>1 DEF Unresolved
  <2>3. Age(exe_inst, "req") <= 3 /\ Age(exe_inst, "extra") <= 1
    BY <1>2, <2>1, <2>2 DEF AgeInv, ExeAges, BeforeFetch
  <2>4. ExeAges'
    BY <1>1, <1>2, <2>1, <2>2, <2>3 DEF ExeAges
  <2>5. mem_inst # NoInst => mem_inst.kind = "mem"
    BY <2>1 DEF Order
  <2>6. mem_inst # NoInst => Age(mem_inst, "req") <= 4 /\ Age(mem_inst, "extra") <= 3
    BY <1>2, <2>1, <2>2, <2>5 DEF AgeInv, MemAges, BeforeFetch
  <2>7. MemAges'
    BY <1>1, <1>2, <2>1, <2>2, <2>5, <2>6 DEF MemAges
  <2>8. WbAges'
    BY <2>1 DEF AgeInv, WbAges
  <2> QED
    BY <1>1, <2>4, <2>7, <2>8 DEF AgeInv
<1>4. CASE ExcRedirect
  <2>1. wb_inst' = NoInst /\ mem_inst' = NoInst /\ exe_inst' = NoInst
    BY <1>4 DEF ExcRedirect
  <2> QED
    BY <1>1, <2>1 DEF AgeInv, ExeAges, MemAges, WbAges
<1> QED
  BY <1>3, <1>4

(* ID is free again: two or three more requests, and one extra object.     *)
LEMMA AgesHandOver ==
  ASSUME FrontInv, Order, AgeInv, phase = "id", phase' = "stall", id_valid, exe_inst = NoInst,
         id_valid' = FALSE, UNCHANGED <<exe_end, mem_inst, wb_inst>>,
         NEW target, NEW fail, NEW done, exe_inst' = BackOf(id_inst, target, fail, done),
         exe_inst' # NoInst, ReqAges', ExtrasLeft' = 1,
         \/ ReqsLeft' = ReqsLeft + 2
         \/ ReqsLeft' = 3 /\ ~id_inst.exc /\ id_inst.kind = "satp"
  PROVE  AgeInv'
<1> DEFINE b == BackOf(id_inst, target, fail, done)
<1>1. /\ b.obj = id_inst.obj /\ id_inst # NoInst
      /\ b.kind = "redirects" => id_inst.kind \in {"cond", "jump"}
      /\ b.kind = "mem" => id_inst.kind = "mem" /\ ~id_inst.exc
  BY DEF BackOf, FrontInv, FrontType
<1>2. exe_inst' = b
  OBVIOUS
<1> HIDE DEF b
<1>3. \A r : Age(b, r) = Age(id_inst, r)
  BY <1>1, <1>2 DEF Age
<1>4. /\ \A r \in {"req", "extra"} :
           /\ Age(mem_inst, r) \in Nat /\ Age(wb_inst, r) \in Nat /\ Age(id_inst, r) \in Nat
      /\ ReqsLeft \in 0 .. 3 /\ ExtrasLeft = 0
  BY StageAges, LeftType DEF FrontInv, ExtrasLeft
<1>5. ~exe_end /\ exe_end' = FALSE
  BY DEF Order, FrontInv, FrontType
<1>6. /\ Age(id_inst, "req") + ReqsLeft <= 2
      /\ id_inst.kind \notin {"cond", "direct", "jump"} /\ ~id_inst.exc =>
           Age(id_inst, "req") + ReqsLeft <= 1
      /\ Age(id_inst, "extra") = 0
  BY <1>4 DEF AgeInv, IdAges, MayBeTaken
<1>7. PICK n \in 0 .. 5 : /\ ReqsLeft' = n
                          /\ \/ n = ReqsLeft + 2
                             \/ n = 3 /\ ~id_inst.exc /\ id_inst.kind = "satp"
  BY <1>4
<1>8. ExeAges'
  <2>1. Age(b, "extra") + 1 <= 1
    BY <1>3, <1>6
  <2>2. CASE b.kind = "redirects"
    <3>1. Unresolved'
      BY <1>2, <1>5, <2>2 DEF Unresolved
    <3>2. Age(b, "req") <= 2
      BY <1>3, <1>4, <1>6
    <3> QED
      BY <1>2, <1>5, <2>1, <3>1, <3>2 DEF ExeAges, BeforeFetch
  <2>3. CASE b.kind # "redirects"
    <3>1. ~Unresolved'
      BY <1>2, <2>3 DEF Unresolved
    <3>2. Age(b, "req") + n <= 4
      BY <1>3, <1>4, <1>6, <1>7
    <3>3. b.kind = "mem" => Age(b, "req") + n <= 3
      BY <1>1, <1>3, <1>4, <1>6, <1>7
    <3> QED
      BY <1>2, <1>5, <1>7, <2>1, <2>3, <3>1, <3>2, <3>3 DEF ExeAges
  <2> QED
    BY <2>2, <2>3
<1>9. MemAges'
  <2>1. CASE mem_inst # NoInst
    <3>1. Age(mem_inst, "extra") + 1 <= 3
      BY <1>4, <2>1 DEF AgeInv, MemAges
    <3>2. mem_inst.kind # "mem" => Age(mem_inst, "req") <= 6
      BY <1>4, <2>1 DEF AgeInv, MemAges
    <3>3. mem_inst.kind = "mem" => Age(mem_inst, "req") + ReqsLeft <= 3
      BY <1>4, <2>1 DEF AgeInv, MemAges
    <3>4. mem_inst.kind = "mem" => Age(mem_inst, "req") <= 3 /\ Age(mem_inst, "req") + n <= 7
      BY <1>4, <1>7, <3>3
    <3> QED
      BY <1>5, <1>7, <2>1, <3>1, <3>2, <3>4 DEF MemAges, BeforeFetch
  <2>2. CASE mem_inst = NoInst
    BY <2>2 DEF MemAges
  <2> QED
    BY <2>1, <2>2
<1>10. WbAges'
  BY DEF AgeInv, WbAges
<1> QED
  BY <1>8, <1>9, <1>10 DEF AgeInv, IdAges

(* A step that hands out dr of id_insts or dx of id_extra_insts.           *)
LEMMA StagesAge ==
  ASSUME FrontInv, Order, AgeInv, exe_end' = exe_end,
         NEW e, NEW m, NEW w, exe_inst' = e, mem_inst' = m, wb_inst' = w,
         Same(exe_inst, e), Same(mem_inst, m), Same(wb_inst, w),
         NEW n \in 0 .. 3, NEW x \in 0 .. 1, ReqsLeft' = n, ExtrasLeft' = x,
         NEW dr \in 0 .. 1, NEW dx \in 0 .. 1, n + dr <= ReqsLeft, x + dx <= ExtrasLeft,
         /\ Age(e, "req") \in Nat /\ Age(e, "req") <= Age(exe_inst, "req") + dr
         /\ Age(m, "req") \in Nat /\ Age(m, "req") <= Age(mem_inst, "req") + dr
         /\ Age(w, "req") \in Nat /\ Age(w, "req") <= Age(wb_inst, "req") + dr,
         /\ Age(e, "extra") \in Nat /\ Age(e, "extra") <= Age(exe_inst, "extra") + dx
         /\ Age(m, "extra") \in Nat /\ Age(m, "extra") <= Age(mem_inst, "extra") + dx
         /\ Age(w, "extra") \in Nat /\ Age(w, "extra") <= Age(wb_inst, "extra") + dx,
         \/ phase = "fetch" /\ phase' = "memory" /\ dx = 0
         \/ phase = "memory" /\ phase' = "icache" /\ dr = 0
         \/ phase = "icache" /\ phase' = "wb" /\ dr = 0
         \/ phase = "stall" /\ phase' = "fetch" /\ dr = 0
  PROVE  ExeAges' /\ MemAges' /\ WbAges'
<1>1. /\ \A r \in {"req", "extra"} :
           /\ Age(exe_inst, r) \in Nat /\ Age(mem_inst, r) \in Nat
           /\ Age(wb_inst, r) \in Nat
      /\ ReqsLeft \in 0 .. 3 /\ ExtrasLeft \in 0 .. 1
  BY StageAges, LeftType DEF FrontInv
<1>2. /\ e = NoInst <=> exe_inst = NoInst
      /\ m = NoInst <=> mem_inst = NoInst
      /\ w = NoInst <=> wb_inst = NoInst
      /\ e # NoInst => e.kind = exe_inst.kind
      /\ m # NoInst => m.kind = mem_inst.kind
  BY DEF Same
<1>3. Unresolved' = Unresolved
  BY <1>2 DEF Unresolved
<1>4. ExeAges'
  <2>1. CASE e # NoInst
    <3>1. Age(e, "extra") + x <= IF exe_end THEN 2 ELSE 1
      BY <1>1, <1>2, <2>1 DEF AgeInv, ExeAges
    <3>2. CASE Unresolved
      <4>1. Age(exe_inst, "req") <= (IF BeforeFetch THEN 2 ELSE 3)
        BY <1>2, <2>1, <3>2 DEF AgeInv, ExeAges
      <4>2. Age(e, "req") <= (IF phase' \in {"stall", "fetch"} THEN 2 ELSE 3)
        BY <1>1, <4>1 DEF BeforeFetch
      <4> QED
        BY <1>3, <2>1, <3>1, <3>2, <4>2 DEF ExeAges, BeforeFetch
    <3>3. CASE ~Unresolved
      <4>1. Age(e, "req") + n <= (IF e.kind = "redirects" THEN 6
                                  ELSE IF e.kind = "mem" THEN 3 ELSE 4)
        BY <1>1, <1>2, <2>1, <3>3 DEF AgeInv, ExeAges
      <4> QED
        BY <1>3, <2>1, <3>1, <3>3, <4>1 DEF ExeAges
    <3> QED
      BY <3>2, <3>3
  <2> QED
    BY <2>1 DEF ExeAges
<1>5. MemAges'
  <2>1. CASE m # NoInst
    <3>1. Age(m, "extra") + x <= IF e = NoInst THEN 2 ELSE IF exe_end THEN 4 ELSE 3
      BY <1>1, <1>2, <2>1 DEF AgeInv, MemAges
    <3>2. m.kind # "mem" =>
            Age(m, "req") <= (IF phase' \in {"stall", "fetch", "id"} THEN 6 ELSE 7)
      BY <1>1, <1>2, <2>1 DEF AgeInv, MemAges, BeforeFetch
    <3>3. CASE m.kind = "mem" /\ Unresolved
      <4>1. exe_inst # NoInst /\ e # NoInst
        BY <1>2, <3>3 DEF Unresolved
      <4>2. Age(mem_inst, "req") <= (IF BeforeFetch THEN 3 ELSE 4)
        BY <1>2, <2>1, <3>3, <4>1 DEF AgeInv, MemAges
      <4>3. Age(m, "req") <= (IF phase' \in {"stall", "fetch"} THEN 3 ELSE 4)
        BY <1>1, <4>2 DEF BeforeFetch
      <4> QED
        BY <1>3, <2>1, <3>1, <3>3, <4>1, <4>3 DEF MemAges, BeforeFetch
    <3>4. CASE m.kind = "mem" /\ ~Unresolved
      <4>1. Age(m, "req") + n <= (IF e = NoInst THEN 3 ELSE 7)
        BY <1>1, <1>2, <2>1, <3>4 DEF AgeInv, MemAges
      <4> QED
        BY <1>3, <2>1, <3>1, <3>4, <4>1 DEF MemAges
    <3>5. CASE m.kind # "mem"
      BY <2>1, <3>1, <3>2, <3>5 DEF MemAges, BeforeFetch
    <3> QED
      BY <3>3, <3>4, <3>5
  <2> QED
    BY <2>1 DEF MemAges
<1>6. WbAges'
  <2>1. CASE w # NoInst
    <3>1. Age(w, "req") <=
            (IF phase' \in {"exe", "move", "id", "stall", "fetch"} THEN 7 ELSE 8)
      BY <1>1, <1>2, <2>1 DEF AgeInv, WbAges
    <3>2. Age(w, "extra") <= (IF phase' \in {"exe", "move", "id", "stall"} THEN 4
                              ELSE IF phase' \in {"fetch", "memory"} THEN 5
                              ELSE IF phase' = "icache" THEN 6 ELSE 7)
      BY <1>1, <1>2, <2>1 DEF AgeInv, WbAges
    <3> QED
      BY <3>1, <3>2 DEF WbAges
  <2> QED
    BY <2>1 DEF WbAges
<1> QED
  BY <1>4, <1>5, <1>6

(* The object preId uses.                                                  *)
LEMMA DecodedObj ==
  ASSUME pc \in Addr, NEW d \in Decodes, NEW inst,
         NewChunk => inst \in IdInst, ~NewChunk => id_inst \in IdInst
  PROVE  Decoded(inst, d).obj = IF NewChunk THEN inst.obj ELSE [ring |-> "extra", age |-> 0]
<1> DEFINE b == Base(inst)
<1>1. b \in IdInst /\ b.obj = IF NewChunk THEN inst.obj ELSE [ring |-> "extra", age |-> 0]
  <2>1. [ring |-> "extra", age |-> 0] \in Ages
    BY FetchSideAssumption DEF Ages
  <2>2. CASE NewChunk
    BY <2>2 DEF Base
  <2>3. CASE ~NewChunk
    BY <2>1, <2>3 DEF Base, IdInst
  <2> QED
    BY <2>2, <2>3
<1> HIDE DEF b
<1>3. CASE Faults(inst, d) \/ d.exc
  <2>1. Decoded(inst, d) = [b EXCEPT !.exc = TRUE]
    BY <1>3 DEF Decoded, b
  <2> QED
    BY <1>1, <2>1 DEF IdInst
<1>4. CASE ~Faults(inst, d) /\ ~d.exc
  <2>1. Decoded(inst, d) =
          [b EXCEPT !.real_pc = pc, !.kind = d.kind, !.size = d.size, !.exc = FALSE,
             !.taken = d.taken, !.next_pc = IF d.taken THEN d.next_pc ELSE Plus(pc, d.size)]
    BY <1>4 DEF Decoded, b
  <2> QED
    BY <1>1, <2>1 DEF IdInst
<1> QED
  BY <1>3, <1>4

(* preId hands out at most one object of the second ring, for an           *)
(* instruction that is the second of its chunk.                            *)
LEMMA AgesDecode ==
  ASSUME FrontInv, Order, AgeInv, ~id_valid, id_valid' = TRUE, exe_end' = exe_end,
         NEW d \in Decodes, NEW inst, PreId(inst, d),
         NewChunk => inst \in IdInst /\ Age(inst, "req") <= 1 /\ Age(inst, "extra") = 0,
         NewChunk /\ ~Redirects(inst, d) => fetch_valid',
         \/ phase = "memory" /\ phase' = "icache"
         \/ phase = "icache" /\ phase' = "wb"
         \/ phase = "stall" /\ phase' = "fetch",
         ReqAges'
  PROVE  AgeInv'
<1>1. PICK n \in 0 .. 1 : ReqsLeft' = n /\ (fetch_valid' => n = 0)
  BY LeftValid
<1>2. ExtrasLeft' = 0 /\ ExtrasLeft = 1 /\ ReqsLeft \in 0 .. 3 /\ ReqsLeft >= 1
  <2>1. ReqsLeft >= 1
    BY DEF ReqsLeft
  <2> QED
    BY <2>1, LeftValid, LeftType DEF ExtrasLeft
<1>3. ~NewChunk => id_inst \in IdInst
  BY DEF FrontInv, FrontType, NewChunk
<1>4. IdAges'
  <2> DEFINE i == Decoded(inst, d)
  <2>1. /\ i \in IdInst /\ i.obj = IF NewChunk THEN inst.obj ELSE [ring |-> "extra", age |-> 0]
        /\ d.exc => i.exc
        /\ ~Faults(inst, d) /\ ~d.exc => i.kind = d.kind
    BY <1>3, DecodedType, DecodedObj DEF FrontInv, FrontType
  <2>2. id_inst' = i
    BY DEF PreId
  <2> HIDE DEF i
  <2>3. i # NoInst /\ (NewChunk => inst # NoInst)
    BY <2>1, NoInstAssumption
  <2>4. CASE NewChunk
    <3>1. Age(i, "req") = Age(inst, "req") /\ Age(i, "extra") = Age(inst, "extra")
      BY <2>1, <2>3, <2>4 DEF Age
    <3>2. Age(i, "req") \in Nat /\ Age(i, "req") <= 1 /\ Age(i, "extra") = 0
      BY <2>1, <2>4, <3>1, AgeType
    <3>3. Redirects(inst, d) => MayBeTaken(i)
      BY <2>1 DEF Redirects, Decodes, MayBeTaken
    <3>4. ~Redirects(inst, d) => n = 0
      BY <1>1, <2>4
    <3>5. Age(i, "req") + n <= IF MayBeTaken(i) THEN 2 ELSE 1
      BY <3>2, <3>3, <3>4
    <3> QED
      BY <1>1, <2>2, <3>2, <3>5 DEF IdAges
  <2>5. CASE ~NewChunk
    <3>1. Age(i, "req") = 0 /\ Age(i, "extra") = 0
      BY <2>1, <2>5 DEF Age
    <3>2. Age(i, "req") + n <= IF MayBeTaken(i) THEN 2 ELSE 1
      BY <3>1
    <3> QED
      BY <1>1, <2>2, <3>1, <3>2 DEF IdAges
  <2> QED
    BY <2>4, <2>5
<1>5. ExeAges' /\ MemAges' /\ WbAges'
  <2>1. n + 0 <= ReqsLeft /\ 0 + 1 <= ExtrasLeft /\ 0 + 0 <= ExtrasLeft /\ n \in 0 .. 3
        /\ 0 \in 0 .. 1 /\ 1 \in 0 .. 1
    BY <1>1, <1>2
  <2>2. CASE NewChunk
    <3>1. exe_inst' = exe_inst /\ mem_inst' = mem_inst /\ wb_inst' = wb_inst
      BY <2>2 DEF PreId
    <3>2. \A r \in {"req", "extra"} :
            /\ Age(exe_inst, r) \in Nat /\ Age(exe_inst, r) <= Age(exe_inst, r) + 0
            /\ Age(mem_inst, r) \in Nat /\ Age(mem_inst, r) <= Age(mem_inst, r) + 0
            /\ Age(wb_inst, r) \in Nat /\ Age(wb_inst, r) <= Age(wb_inst, r) + 0
      BY StageAges DEF FrontInv
    <3>3. Same(exe_inst, exe_inst) /\ Same(mem_inst, mem_inst) /\ Same(wb_inst, wb_inst)
      BY DEF Same
    <3> QED
      BY <1>1, <1>2, <2>1, <3>1, <3>2, <3>3, StagesAge
  <2>3. CASE ~NewChunk
    <3> DEFINE e == Older(exe_inst, "extra")
               m == Older(mem_inst, "extra")
               w == Older(wb_inst, "extra")
    <3>1. exe_inst' = e /\ mem_inst' = m /\ wb_inst' = w
      BY <2>3 DEF PreId, AgeAll
    <3>2. /\ Age(e, "req") \in Nat /\ Age(e, "req") <= Age(exe_inst, "req") + 0
          /\ Age(m, "req") \in Nat /\ Age(m, "req") <= Age(mem_inst, "req") + 0
          /\ Age(w, "req") \in Nat /\ Age(w, "req") <= Age(wb_inst, "req") + 0
      BY OlderAge DEF FrontInv, FrontType
    <3>3. /\ Age(e, "extra") \in Nat /\ Age(e, "extra") <= Age(exe_inst, "extra") + 1
          /\ Age(m, "extra") \in Nat /\ Age(m, "extra") <= Age(mem_inst, "extra") + 1
          /\ Age(w, "extra") \in Nat /\ Age(w, "extra") <= Age(wb_inst, "extra") + 1
      BY OlderAge DEF FrontInv, FrontType
    <3>4. Same(exe_inst, e) /\ Same(mem_inst, m) /\ Same(wb_inst, w)
      BY OlderBack DEF Same, FrontInv, FrontType
    <3> HIDE DEF e, m, w
    <3> QED
      BY <1>1, <1>2, <2>1, <3>1, <3>2, <3>3, <3>4, StagesAge
  <2> QED
    BY <2>2, <2>3
<1> QED
  BY <1>4, <1>5 DEF AgeInv

(* The callback: the answered request is one object old.                   *)
LEMMA AgesCallback ==
  ASSUME FrontInv, Order, AgeInv, Busy, ~Busy', NEW d \in Decodes, Callback(d),
         UNCHANGED <<pc, id_wait_redirect>>,
         \/ phase = "memory" /\ phase' = "icache"
         \/ phase = "icache" /\ phase' = "wb"
  PROVE  AgeInv'
<1> DEFINE inst == Head(cache_reqs)
<1>1. ~id_valid /\ inst \in IdInst
  <2>1. phase' \in {"icache", "wb"}
    OBVIOUS
  <2> QED
    BY <2>1, CallbackKeeps DEF FrontInv
<1>2. cache_reqs \in Seq(IdInst) /\ Len(cache_reqs) = 2 /\ fetch_valid
  <2>1. cache_reqs \in Seq(IdInst) /\ Len(cache_reqs) \in Nat /\ Sending = 1
    BY DEF FrontInv, FrontType, Queue
  <2>2. CASE ~fetch_valid
    <3>1. Len(cache_reqs) = 0
      BY <2>2, NoReqs DEF AgeInv, ReqAges
    <3>2. Sending = 0
      BY <2>2, <3>1, SendingIs
    <3> QED
      BY <2>1, <3>2
  <2>3. CASE fetch_valid
    <3>1. Sending = Len(cache_reqs) - 1
      BY <2>3, SendingIs
    <3> QED
      BY <2>1, <2>3, <3>1
  <2> QED
    BY <2>2, <2>3
<1>3. inst = cache_reqs[1] /\ Tail(cache_reqs) \in Seq(IdInst) /\ Len(Tail(cache_reqs)) = 1
      /\ Tail(cache_reqs)[1] = cache_reqs[2]
  <2>1. cache_reqs # <<>>
    BY <1>2, NoReqs
  <2>2. /\ Len(Tail(cache_reqs)) = Len(cache_reqs) - 1 /\ Tail(cache_reqs) \in Seq(IdInst)
        /\ \A i \in 1 .. Len(Tail(cache_reqs)) : Tail(cache_reqs)[i] = cache_reqs[i + 1]
    BY <1>2, <2>1, HeadTailProperties
  <2>3. Len(Tail(cache_reqs)) = 1 /\ 1 \in 1 .. 1 /\ 1 + 1 = 2
    BY <1>2, <2>2
  <2>4. Tail(cache_reqs)[1] = cache_reqs[2]
    BY <2>2, <2>3
  <2>5. inst = cache_reqs[1]
    BY <1>2
  <2> QED
    BY <2>2, <2>3, <2>4, <2>5
<1>4. inst.obj = [ring |-> "req", age |-> 1]
      /\ cache_reqs[2].obj = [ring |-> "req", age |-> 0]
  <2>1. \A i \in 1 .. 2 : cache_reqs[i].obj = [ring |-> "req", age |-> 2 - i]
    BY <1>2 DEF AgeInv, ReqAges
  <2>2. /\ cache_reqs[1].obj = [ring |-> "req", age |-> 2 - 1]
        /\ cache_reqs[2].obj = [ring |-> "req", age |-> 2 - 2]
    BY <2>1
  <2> QED
    BY <1>3, <2>2
<1> HIDE DEF inst
<1>5. /\ id_valid' = TRUE /\ PreId(inst, d) /\ exe_end' = exe_end
      /\ Redirects(inst, d) => RefetchFrom(d.next_pc)
      /\ ~Redirects(inst, d) => cache_reqs' = Tail(cache_reqs) /\ fetch_valid' = fetch_valid
  BY <1>1 DEF Callback, inst
<1>6. Age(inst, "req") <= 1 /\ Age(inst, "extra") = 0
  BY <1>4 DEF Age
<1>7. ReqAges'
  <2>1. CASE Redirects(inst, d)
    BY <1>5, <2>1, NoReqs DEF RefetchFrom, ReqAges
  <2>2. CASE ~Redirects(inst, d)
    <3>1. cache_reqs' = Tail(cache_reqs) /\ fetch_valid'
      BY <1>2, <1>5, <2>2
    <3>2. \A i \in 1 .. 1 : Tail(cache_reqs)[i].obj = [ring |-> "req", age |-> 1 - i]
      <4>1. \A i \in 1 .. 1 : i = 1 /\ 1 - i = 0
        OBVIOUS
      <4> QED
        BY <1>3, <1>4, <4>1
    <3> QED
      BY <1>3, <3>1, <3>2 DEF ReqAges
  <2> QED
    BY <2>1, <2>2
<1> QED
  BY <1>1, <1>2, <1>5, <1>6, <1>7, AgesDecode

(* The second instruction of a chunk.                                      *)
LEMMA AgesStallStep ==
  ASSUME FrontInv, Order, AgeInv, NEW d \in Decodes, StallStep(d)
  PROVE  AgeInv'
<1>1. /\ phase = "stall" /\ phase' = "fetch" /\ ~id_valid /\ id_valid' = TRUE
      /\ PreId(id_stall_inst, d) /\ exe_end' = exe_end /\ ~NewChunk
  BY DEF StallStep, FrontInv, FrontType, Requests, StallHasRest, NewChunk
<1>2. ReqAges'
  <2>1. CASE Redirects(id_stall_inst, d)
    <3>1. RefetchFrom(d.next_pc)
      BY <2>1 DEF StallStep
    <3> QED
      BY <3>1, NoReqs DEF RefetchFrom, ReqAges
  <2>2. CASE ~Redirects(id_stall_inst, d)
    <3>1. UNCHANGED <<fetch_valid, cache_reqs>>
      BY <2>2 DEF StallStep
    <3> QED
      BY <3>1 DEF AgeInv, ReqAges
  <2> QED
    BY <2>1, <2>2
<1> QED
  BY <1>1, <1>2, AgesDecode

(* FETCH takes an object.                                                  *)
LEMMA AgesPrepare ==
  ASSUME FrontInv, Order, AgeInv, NEW reqs \in Seq(IdInst), Len(reqs) \in {0, 1},
         \A i \in 1 .. Len(reqs) : reqs[i].obj = [ring |-> "req", age |-> 0],
         NEW aged, Prepare(reqs, aged), exe_end' = exe_end,
         phase = "fetch", phase' = "memory",
         NEW n \in 0 .. 3, ReqsLeft' = n, n + 1 <= ReqsLeft,
         NEW x \in 0 .. 1, ExtrasLeft' = x, x <= ExtrasLeft
  PROVE  ReqAges' /\ ExeAges' /\ MemAges' /\ WbAges'
<1>1. ReqAges'
  <2> DEFINE q == Append([i \in DOMAIN reqs |-> Older(reqs[i], "req")], FreshInst(pred_pc))
  <2>1. cache_reqs' = q /\ fetch_valid' = TRUE
    BY DEF Prepare
  <2>2. pred_pc \in Addr
    BY DEF FrontInv, FrontType
  <2>3. q \in Seq(IdInst) /\ Len(q) = Len(reqs) + 1 /\ q[Len(reqs) + 1] = FreshInst(pred_pc)
    BY <2>2, PreparedReqs
  <2>4. q[Len(reqs) + 1].obj = [ring |-> "req", age |-> 0]
    BY <2>3 DEF FreshInst
  <2>5. CASE Len(reqs) = 0
    <3>1. Len(q) = 1 /\ q[1].obj = [ring |-> "req", age |-> 0]
      BY <2>3, <2>4, <2>5
    <3> HIDE DEF q
    <3>2. \A i \in 1 .. 1 : q[i].obj = [ring |-> "req", age |-> 1 - i]
      BY <3>1
    <3> QED
      BY <2>1, <3>1, <3>2 DEF ReqAges
  <2>6. CASE Len(reqs) = 1
    <3>1. Len(q) = 2 /\ q[2].obj = [ring |-> "req", age |-> 0]
      BY <2>3, <2>4, <2>6
    <3>2. reqs[1] \in IdInst /\ reqs[1].obj = [ring |-> "req", age |-> 0]
      <4>1. 1 \in 1 .. Len(reqs)
        BY <2>6
      <4> QED
        BY <4>1, ElementOfSeq
    <3>3. Older(reqs[1], "req").obj = [ring |-> "req", age |-> 1]
      <4>1. /\ reqs[1] # NoInst /\ reqs[1].obj.ring = "req" /\ reqs[1].obj.age = 0
            /\ 0 < RetireSize
        BY <3>2, NoInstAssumption, FetchSideAssumption
      <4>2. Older(reqs[1], "req") = [reqs[1] EXCEPT !.obj.age = @ + 1]
        BY <4>1 DEF Older
      <4>3. Older(reqs[1], "req") = [reqs[1] EXCEPT !.obj = [reqs[1].obj EXCEPT !.age = 1]]
        BY <3>2, <4>1, <4>2 DEF IdInst
      <4> QED
        BY <3>2, <4>3 DEF IdInst
    <3>4. q[1] = Older(reqs[1], "req")
      <4> DEFINE old == [i \in DOMAIN reqs |-> Older(reqs[i], "req")]
      <4>1. DOMAIN reqs = 1 .. 1
        BY <2>6
      <4>2. Older(reqs[1], "req") \in IdInst
        BY <3>2, OlderInst, NoInstAssumption
      <4>3. old \in [1 .. 1 -> IdInst] /\ old[1] = Older(reqs[1], "req")
        BY <4>1, <4>2
      <4>4. old \in Seq(IdInst) /\ Len(old) = 1
        BY <4>3, SeqDef, LenProperties
      <4>5. FreshInst(pred_pc) \in IdInst
        BY <2>2, FreshType
      <4> HIDE DEF old
      <4>6. Append(old, FreshInst(pred_pc))[1] = old[1]
        BY <4>4, <4>5, AppendProperties
      <4> QED
        BY <4>3, <4>6 DEF old
    <3>5. q[1].obj = [ring |-> "req", age |-> 1]
      BY <3>3, <3>4
    <3> HIDE DEF q
    <3>6. \A i \in 1 .. 2 : q[i].obj = [ring |-> "req", age |-> 2 - i]
      <4>1. (\A i \in 1 .. 2 : i = 1 \/ i = 2) /\ 2 - 1 = 1 /\ 2 - 2 = 0
        OBVIOUS
      <4> QED
        BY <3>1, <3>5, <4>1
    <3> QED
      BY <2>1, <3>1, <3>6 DEF ReqAges
  <2> QED
    BY <2>5, <2>6
<1> DEFINE e == Older(exe_inst, "req")
           m == Older(mem_inst, "req")
           w == Older(wb_inst, "req")
<1>2. exe_inst' = e /\ mem_inst' = m /\ wb_inst' = w
  BY DEF Prepare, AgeAll
<1>3. /\ Age(e, "extra") \in Nat /\ Age(e, "extra") <= Age(exe_inst, "extra") + 0
      /\ Age(m, "extra") \in Nat /\ Age(m, "extra") <= Age(mem_inst, "extra") + 0
      /\ Age(w, "extra") \in Nat /\ Age(w, "extra") <= Age(wb_inst, "extra") + 0
  <2>1. /\ Age(e, "extra") \in Nat /\ Age(e, "extra") = Age(exe_inst, "extra")
        /\ Age(m, "extra") \in Nat /\ Age(m, "extra") = Age(mem_inst, "extra")
        /\ Age(w, "extra") \in Nat /\ Age(w, "extra") = Age(wb_inst, "extra")
    BY OlderAge DEF FrontInv, FrontType
  <2> HIDE DEF e, m, w
  <2> QED
    BY <2>1
<1>4. /\ Age(e, "req") \in Nat /\ Age(e, "req") <= Age(exe_inst, "req") + 1
      /\ Age(m, "req") \in Nat /\ Age(m, "req") <= Age(mem_inst, "req") + 1
      /\ Age(w, "req") \in Nat /\ Age(w, "req") <= Age(wb_inst, "req") + 1
  BY OlderAge DEF FrontInv, FrontType
<1>5. Same(exe_inst, e) /\ Same(mem_inst, m) /\ Same(wb_inst, w)
  BY OlderBack DEF Same, FrontInv, FrontType
<1>6. x + 0 <= ExtrasLeft /\ 0 \in 0 .. 1 /\ 1 \in 0 .. 1
  OBVIOUS
<1> HIDE DEF e, m, w
<1>7. ExeAges' /\ MemAges' /\ WbAges'
  BY <1>2, <1>3, <1>4, <1>5, <1>6, StagesAge
<1> QED
  BY <1>1, <1>7

(* Fetch: the request goes out, and the next Inst is prepared or not.      *)
LEMMA AgesFetchSend ==
  ASSUME FrontInv, Order, AgeInv, FetchSend
  PROVE  AgeInv'
<1>1. /\ phase = "fetch" /\ phase' = "memory" /\ fetch_valid /\ ~id_valid
      /\ Accept(LineOf(Prepared.chunk)) /\ Prepare(cache_reqs, id_inst)
      /\ id_valid' = id_valid /\ exe_end' = exe_end
  BY DEF FetchSend
<1>2. LineOf(Prepared.chunk) \in Lines
  BY <1>1, PreparedIsLast, LineOfType
<1>3. ~Busy
  BY <1>1, <1>2, AcceptKeeps DEF FrontInv
<1>4. Sending = 0 /\ Len(cache_reqs) = 1 /\ cache_reqs \in Seq(IdInst)
  <2>1. Sending = 0
    BY <1>3 DEF FrontInv, Queue
  <2>2. Len(cache_reqs) = Sending + 1 /\ cache_reqs \in Seq(IdInst)
    BY <1>1, PreparedIsLast
  <2> QED
    BY <2>1, <2>2
<1>5. id_inst \in IdInst \cup {NoInst} /\ FrontType
  BY DEF FrontInv, FrontType
<1>6. Sending' = 1 /\ fetch_valid'
  BY <1>1, <1>4, <1>5, PrepareType
<1>7. ReqsLeft = 2 /\ ReqsLeft' = 1 /\ ExtrasLeft = 1 /\ ExtrasLeft' = 1
  BY <1>1, <1>4, <1>6 DEF ReqsLeft, ExtrasLeft
<1>8. \A i \in 1 .. Len(cache_reqs) : cache_reqs[i].obj = [ring |-> "req", age |-> 0]
  <2>1. \A i \in 1 .. 1 : cache_reqs[i].obj = [ring |-> "req", age |-> 1 - i]
    BY <1>4 DEF AgeInv, ReqAges
  <2>2. \A i \in 1 .. 1 : 1 - i = 0
    OBVIOUS
  <2> QED
    BY <1>4, <2>1, <2>2
<1>9. 1 \in 0 .. 3 /\ 1 + 1 <= ReqsLeft /\ 1 \in 0 .. 1 /\ 1 <= ExtrasLeft
  BY <1>7
<1>10. ReqAges' /\ ExeAges' /\ MemAges' /\ WbAges'
  BY <1>1, <1>4, <1>7, <1>8, <1>9, AgesPrepare
<1> QED
  BY <1>1, <1>10 DEF AgeInv, IdAges

LEMMA AgesFetchFault ==
  ASSUME FrontInv, Order, AgeInv, FetchFault
  PROVE  AgeInv'
<1> DEFINE aged == [Prepared EXCEPT !.exc = TRUE]
<1>1. /\ phase = "fetch" /\ phase' = "memory" /\ fetch_valid /\ ~id_valid
      /\ Len(cache_reqs) = 1 /\ id_valid' = TRUE
      /\ Prepare(<<>>, aged) /\ exe_end' = exe_end
  BY DEF FetchFault, OnlyPrepared
<1>2. Prepared \in IdInst /\ Prepared = cache_reqs[1] /\ Sending = 0
  <2>1. Len(cache_reqs) = Sending + 1 /\ Prepared \in IdInst /\ Prepared = cache_reqs[Sending + 1]
    BY <1>1, PreparedIsLast
  <2>2. Sending \in {0, 1}
    BY DEF FrontInv, Queue
  <2> QED
    BY <1>1, <2>1, <2>2
<1>3. Prepared.obj = [ring |-> "req", age |-> 0]
  <2>1. \A i \in 1 .. 1 : cache_reqs[i].obj = [ring |-> "req", age |-> 1 - i]
    BY <1>1 DEF AgeInv, ReqAges
  <2>2. 1 \in 1 .. 1 /\ 1 - 1 = 0
    OBVIOUS
  <2> QED
    BY <1>2, <2>1, <2>2
<1>4. aged \in IdInst /\ aged.obj = [ring |-> "req", age |-> 0]
  BY <1>2, <1>3 DEF IdInst
<1> HIDE DEF aged
<1>5. id_inst' = Older(aged, "req") /\ fetch_valid' = TRUE
  BY <1>1 DEF Prepare
<1>6. ReqsLeft = 2 /\ ReqsLeft' = 0 /\ ExtrasLeft = 1 /\ ExtrasLeft' = 0
  BY <1>1, <1>2, <1>5 DEF ReqsLeft, ExtrasLeft
<1>7. <<>> \in Seq(IdInst) /\ Len(<<>>) = 0
  BY NoReqs
<1>8. \A i \in 1 .. 0 : <<>>[i].obj = [ring |-> "req", age |-> 0]
  OBVIOUS
<1>9. 0 \in 0 .. 3 /\ 0 + 1 <= ReqsLeft /\ 0 \in 0 .. 1 /\ 0 <= ExtrasLeft
  BY <1>6
<1>10. ReqAges' /\ ExeAges' /\ MemAges' /\ WbAges'
  BY <1>1, <1>6, <1>7, <1>8, <1>9, AgesPrepare
<1>11. IdAges'
  <2> DEFINE i == Older(aged, "req")
  <2>1. Age(aged, "req") = 0 /\ Age(aged, "extra") = 0
    BY <1>4 DEF Age
  <2>2. /\ Age(i, "req") \in Nat /\ Age(i, "req") <= Age(aged, "req") + 1
        /\ Age(i, "extra") = Age(aged, "extra")
    BY <1>4, OlderAge
  <2> HIDE DEF i
  <2>3. Age(i, "req") + 0 <= 1 /\ Age(i, "extra") = 0
    BY <2>1, <2>2
  <2>4. Age(i, "req") + 0 <= IF MayBeTaken(i) THEN 2 ELSE 1
    BY <2>2, <2>3
  <2>5. id_inst' = i
    BY <1>5 DEF i
  <2> QED
    BY <1>6, <2>3, <2>4, <2>5 DEF IdAges
<1> QED
  BY <1>10, <1>11 DEF AgeInv

LEMMA AgesFetchPrepare ==
  ASSUME FrontInv, Order, AgeInv, FetchPrepare
  PROVE  AgeInv'
<1>1. /\ phase = "fetch" /\ phase' = "memory" /\ ~fetch_valid
      /\ Prepare(cache_reqs, id_inst) /\ id_valid' = id_valid /\ exe_end' = exe_end
      /\ cache_reqs = <<>>
  BY DEF FetchPrepare, AgeInv, ReqAges
<1>2. cache_reqs \in Seq(IdInst) /\ Len(cache_reqs) = 0 /\ FrontType
      /\ id_inst \in IdInst \cup {NoInst}
  BY <1>1, NoReqs DEF FrontInv, FrontType
<1>3. Sending = 0 /\ Sending' = 0 /\ fetch_valid' /\ id_inst' = Older(id_inst, "req")
  <2>1. Sending' = Len(cache_reqs) /\ fetch_valid' = TRUE /\ id_inst' = Older(id_inst, "req")
    BY <1>1, <1>2, PrepareType
  <2>2. Sending = Len(cache_reqs) - 0
    BY <1>1, SendingIs
  <2> QED
    BY <1>2, <2>1, <2>2
<1>4. PICK n \in 0 .. 2 : ReqsLeft' = n /\ ReqsLeft = n + 1
  <2>1. CASE id_valid
    BY <1>1, <1>3, <2>1 DEF ReqsLeft
  <2>2. CASE ~id_valid
    BY <1>1, <1>3, <2>2 DEF ReqsLeft
  <2> QED
    BY <2>1, <2>2
<1>5. PICK x \in 0 .. 1 : ExtrasLeft' = x /\ ExtrasLeft = x
  BY <1>1 DEF ExtrasLeft
<1>6. n \in 0 .. 3 /\ n + 1 <= ReqsLeft /\ x <= ExtrasLeft
  BY <1>4, <1>5
<1>7. \A i \in 1 .. Len(cache_reqs) : cache_reqs[i].obj = [ring |-> "req", age |-> 0]
  BY <1>2
<1>8. ReqAges' /\ ExeAges' /\ MemAges' /\ WbAges'
  BY <1>1, <1>2, <1>4, <1>5, <1>6, <1>7, AgesPrepare
<1>9. IdAges'
  <2> DEFINE i == Older(id_inst, "req")
  <2>1. SUFFICES ASSUME id_valid'
                 PROVE  IdAges'
    BY DEF IdAges
  <2>2. id_valid /\ id_inst # NoInst
    BY <1>1, <2>1 DEF FrontInv, FrontType
  <2>3. /\ Age(i, "req") \in Nat /\ Age(i, "req") <= Age(id_inst, "req") + 1
        /\ Age(i, "extra") = Age(id_inst, "extra") /\ Age(id_inst, "req") \in Nat
        /\ i.kind = id_inst.kind /\ i.exc = id_inst.exc
    BY <1>2, <2>2, OlderAge, OlderInst, AgeType
  <2> HIDE DEF i
  <2>4. Age(i, "req") + n <= IF MayBeTaken(i) THEN 2 ELSE 1
    BY <1>4, <2>2, <2>3 DEF AgeInv, IdAges, MayBeTaken
  <2>5. Age(i, "extra") = 0
    BY <2>2, <2>3 DEF AgeInv, IdAges
  <2>6. id_inst' = i
    BY <1>3 DEF i
  <2> QED
    BY <1>4, <2>4, <2>5, <2>6 DEF IdAges
<1> QED
  BY <1>8, <1>9 DEF AgeInv

LEMMA AgesFetchFaultWaits ==
  ASSUME FrontInv, Order, AgeInv, FetchFaultWaits
  PROVE  AgeInv'
<1> DEFINE n == Len(cache_reqs)
           last == [cache_reqs[n] EXCEPT !.exc = TRUE]
<1>1. /\ phase = "fetch" /\ phase' = "memory" /\ fetch_valid
      /\ UNCHANGED <<id_valid, id_inst, fetch_valid, backVars>>
      /\ cache_reqs' = [cache_reqs EXCEPT ![n] = last]
  BY DEF FetchFaultWaits, idVars
<1>2. cache_reqs \in Seq(IdInst) /\ n \in Nat /\ n \in 1 .. n /\ cache_reqs[n] \in IdInst
  <2>1. cache_reqs \in Seq(IdInst) /\ n = Sending + 1 /\ Sending \in {0, 1}
    BY <1>1, PreparedIsLast DEF FrontInv, Queue
  <2> HIDE DEF n
  <2>2. n \in Nat /\ n \in 1 .. n
    BY <2>1
  <2> QED
    BY <2>1, <2>2, ElementOfSeq DEF n
<1>3. last \in IdInst /\ last.obj = cache_reqs[n].obj
  BY <1>2 DEF IdInst
<1> HIDE DEF last, n
<1>4. /\ Len(cache_reqs') = Len(cache_reqs)
      /\ \A i \in 1 .. Len(cache_reqs) :
           cache_reqs'[i] = IF i = n THEN last ELSE cache_reqs[i]
  BY <1>1, <1>2, <1>3, ExceptSeq DEF n
<1>5. \A i \in 1 .. Len(cache_reqs) : cache_reqs'[i].obj = cache_reqs[i].obj
  BY <1>3, <1>4
<1>6. ReqAges' /\ Sending' = Sending
  BY <1>1, <1>4, <1>5 DEF AgeInv, ReqAges, Sending
<1> QED
  BY <1>1, <1>6, AgesRest DEF Follows

(* Every step keeps the fifth layer.                                       *)
LEMMA AgesNext ==
  ASSUME FrontInv, Order, AgeInv, [Next]_vars
  PROVE  AgeInv'
<1>1. CASE MemoryResponse
  <2>1. CASE ResponseAnswers
    <3>1. PICK d \in Decodes : Callback(d) /\ Response(CallbackRedirects(d))
      BY <1>1, <2>1 DEF MemoryResponse
    <3>2. CallbackRedirects(d) \in BOOLEAN
      BY DEF CallbackRedirects, Redirects, Faults, FrontInv, FrontType, Decodes
    <3>3. Busy /\ ~Busy'
      BY <1>1, <2>1, <3>1, <3>2, ResponseKeeps DEF MemoryResponse, FrontInv
    <3> QED
      BY <1>1, <3>1, <3>3, AgesCallback DEF MemoryResponse
  <2>2. CASE ~ResponseAnswers
    <3>1. UNCHANGED <<id_valid, id_inst, fetch_valid, cache_reqs, backVars>>
          /\ phase = "memory" /\ phase' = "icache"
      BY <1>1, <2>2 DEF MemoryResponse
    <3>2. ReqAges' /\ Sending' = Sending
      BY <3>1 DEF AgeInv, ReqAges, Sending
    <3> QED
      BY <3>1, <3>2, AgesRest DEF Follows
  <2> QED
    BY <2>1, <2>2
<1>2. CASE ICacheTick
  <2>1. CASE TickAnswers
    <3>1. PICK d \in Decodes : Callback(d) /\ Tick(CallbackRedirects(d))
      BY <1>2, <2>1 DEF ICacheTick
    <3>2. CallbackRedirects(d) \in BOOLEAN
      BY DEF CallbackRedirects, Redirects, Faults, FrontInv, FrontType, Decodes
    <3>3. Busy /\ ~Busy'
      BY <1>2, <2>1, <3>1, <3>2, TickKeeps DEF ICacheTick, FrontInv
    <3> QED
      BY <1>2, <3>1, <3>3, AgesCallback DEF ICacheTick
  <2>2. CASE ~TickAnswers
    <3>1. UNCHANGED <<id_valid, id_inst, fetch_valid, cache_reqs, backVars>>
          /\ phase = "icache" /\ phase' = "wb"
      BY <1>2, <2>2 DEF ICacheTick
    <3>2. ReqAges' /\ Sending' = Sending
      BY <3>1 DEF AgeInv, ReqAges, Sending
    <3> QED
      BY <3>1, <3>2, AgesRest DEF Follows
  <2> QED
    BY <2>1, <2>2
<1>3. CASE \/ MemoryQuiet \/ MemWait \/ ExeIdle \/ ExeStay \/ MoveWait
           \/ NoHandOver \/ NoStall \/ FetchRefused \/ FetchBusy
  <2>1. UNCHANGED <<id_valid, id_inst, fetch_valid, cache_reqs, backVars>> /\ Follows
    BY <1>3 DEF MemoryQuiet, MemWait, ExeIdle, ExeStay, InExe, MoveWait, NoHandOver, NoStall,
                FetchRefused, FetchBusy, Follows, fetchVars, idVars
  <2>2. ReqAges' /\ Sending' = Sending
    BY <2>1 DEF AgeInv, ReqAges, Sending
  <2>3. /\ phase = "mem" => (mem_inst # NoInst => mem_inst.kind = "mem")
        /\ phase # "wb"
    BY <1>3 DEF MemoryQuiet, MemWait, ExeIdle, ExeStay, InExe, MoveWait, NoHandOver, NoStall,
                FetchRefused, FetchBusy
  <2> QED
    BY <2>1, <2>2, <2>3, AgesRest
<1>4. CASE WbRetire \/ MemToWb \/ ExePass \/ ExeIfence \/ MoveToMem
  BY <1>4, AgesBack
<1>5. CASE BrRedirect \/ ExcRedirect
  BY <1>5, AgesRedirect
<1>6. CASE \E a \in Addr, fail \in BOOLEAN : HandOver(a, fail)
  <2>1. PICK a \in Addr, fail \in BOOLEAN : HandOver(a, fail)
    BY <1>6
  <2>2. /\ phase = "id" /\ phase' = "stall" /\ id_valid /\ exe_inst = NoInst
        /\ id_valid' = FALSE /\ UNCHANGED <<exe_end, mem_inst, wb_inst>>
        /\ exe_inst' = BackOf(id_inst, a, fail, TRUE) /\ id_inst \in IdInst
    BY <2>1 DEF HandOver, CanHandOver, FrontInv, FrontType
  <2>3. exe_inst' # NoInst
    BY <2>2, BackOfType, NoInstAssumption
  <2>4. Sending = 0
    BY <2>2, IdleWhenValid
  <2>5. CASE ~id_inst.exc /\ id_inst.kind = "satp"
    <3>1. RefetchFrom(a)
      BY <2>1, <2>5 DEF HandOver
    <3>2. ReqsLeft' = 3 /\ ExtrasLeft' = 1 /\ ReqAges'
      BY <2>2, <3>1, RedirectLeaves
    <3> QED
      BY <2>2, <2>3, <2>5, <3>2, AgesHandOver
  <2>6. CASE ~(~id_inst.exc /\ id_inst.kind = "satp")
    <3>1. UNCHANGED <<fetch_valid, cache_reqs>>
      BY <2>1, <2>6 DEF HandOver
    <3>2. Sending' = 0 /\ ReqAges'
      BY <2>4, <3>1 DEF Sending, AgeInv, ReqAges
    <3>3. ReqsLeft' = ReqsLeft + 2 /\ ExtrasLeft' = 1
      BY <2>2, <3>1, <3>2, LeftFree DEF ReqsLeft
    <3> QED
      BY <2>2, <2>3, <3>2, <3>3, AgesHandOver
  <2> QED
    BY <2>5, <2>6
<1>7. CASE \E a \in Targets, fail \in BOOLEAN : HandOverWrongPath(a, fail)
  <2>1. PICK a \in Targets, fail \in BOOLEAN : HandOverWrongPath(a, fail)
    BY <1>7
  <2>2. /\ phase = "id" /\ phase' = "stall" /\ id_valid /\ exe_inst = NoInst
        /\ id_valid' = FALSE /\ UNCHANGED <<exe_end, mem_inst, wb_inst>>
        /\ exe_inst' = BackOf(id_inst, a, fail, FALSE) /\ id_inst \in IdInst
        /\ UNCHANGED <<fetch_valid, cache_reqs>>
    BY <2>1 DEF HandOverWrongPath, CanHandOver, FrontInv, FrontType, fetchVars
  <2>3. exe_inst' # NoInst
    <3>1. a \in Addr /\ FALSE \in BOOLEAN
      BY FetchSideAssumption
    <3> QED
      BY <2>2, <3>1, BackOfType, NoInstAssumption
  <2>4. Sending = 0
    BY <2>2, IdleWhenValid
  <2>5. Sending' = 0 /\ ReqAges'
    BY <2>2, <2>4 DEF Sending, AgeInv, ReqAges
  <2>6. ReqsLeft' = ReqsLeft + 2 /\ ExtrasLeft' = 1
    BY <2>2, <2>5, LeftFree DEF ReqsLeft
  <2> QED
    BY <2>2, <2>3, <2>5, <2>6, AgesHandOver
<1>8. CASE \E d \in Decodes : StallStep(d)
  BY <1>8, AgesStallStep
<1>9. CASE FetchSend
  BY <1>9, AgesFetchSend
<1>10. CASE FetchPrepare
  BY <1>10, AgesFetchPrepare
<1>11. CASE FetchFault
  BY <1>11, AgesFetchFault
<1>12. CASE FetchFaultWaits
  BY <1>12, AgesFetchFaultWaits
<1>13. CASE UNCHANGED vars
  <2>1. UNCHANGED <<id_valid, id_inst, fetch_valid, cache_reqs, exe_inst, exe_end, mem_inst,
                    wb_inst, phase>>
    BY <1>13 DEF vars, fetchVars, idVars, backVars
  <2>2. Sending' = Sending
    BY <2>1 DEF Sending
  <2>3. ReqsLeft' = ReqsLeft /\ ExtrasLeft' = ExtrasLeft /\ Unresolved' = Unresolved
    BY <2>1, <2>2, LeftSame DEF Unresolved
  <2>4. ReqAges' /\ IdAges'
    BY <2>1, <2>3 DEF AgeInv, ReqAges, IdAges
  <2>5. ExeAges' /\ MemAges' /\ WbAges'
    BY <2>1, <2>3 DEF AgeInv, ExeAges, MemAges, WbAges, BeforeFetch
  <2> QED
    BY <2>4, <2>5 DEF AgeInv
<1> QED
  BY <1>1, <1>2, <1>3, <1>4, <1>5, <1>6, <1>7, <1>8, <1>9, <1>10, <1>11, <1>12, <1>13 DEF Next

(* Nothing has been handed out.                                            *)
LEMMA AgesInit ==
  ASSUME Init
  PROVE  AgeInv
<1>1. cache_reqs = <<>> /\ ~id_valid /\ exe_inst = NoInst /\ mem_inst = NoInst
      /\ wb_inst = NoInst
  BY DEF Init
<1> QED
  BY <1>1, NoReqs DEF AgeInv, ReqAges, IdAges, ExeAges, MemAges, WbAges

(* Ages are bounded in every reachable state (the rings of Inst in         *)
(* pipelinecpu.h, which hand out objects without a look at who uses them). *)
THEOREM AgesSafe == Spec => [](FrontInv /\ Order /\ AgeInv)
<1>1. Init => FrontInv /\ Order /\ AgeInv
  BY FrontInit, OrderInit, AgesInit
<1>2. (FrontInv /\ Order /\ AgeInv) /\ [Next]_vars => (FrontInv /\ Order /\ AgeInv)'
  BY FrontNext, OrderNext, AgesNext
<1> QED
  BY <1>1, <1>2, PTL DEF Spec

(* With rings of nine objects or more (the shipped configuration has ten)  *)
(* no Inst is handed out again while a stage still uses it.                *)
THEOREM InstsAreNotReused ==
  ASSUME RetireSize >= 9
  PROVE  Spec => []NoInstReused
<1>1. ASSUME FrontInv, Order, AgeInv
      PROVE  NoInstReused
  <2>1. ASSUME NEW inst \in InUse
        PROVE  inst.obj.age < RetireSize
    <3>1. RetireSize \in Nat
      BY FetchSideAssumption
    <3>2. /\ inst \in IdInst \cup BackInst /\ inst # NoInst /\ inst.obj \in Ages
          /\ \/ inst = exe_inst \/ inst = mem_inst \/ inst = wb_inst
             \/ id_valid /\ inst = id_inst
      <4>1. /\ inst # NoInst
            /\ \/ inst = exe_inst \/ inst = mem_inst \/ inst = wb_inst
               \/ id_valid /\ inst = id_inst
        BY <2>1 DEF InUse
      <4>2. inst \in IdInst \cup BackInst
        BY <1>1, <4>1 DEF FrontInv, FrontType
      <4> QED
        BY <4>1, <4>2 DEF IdInst, BackInst
    <3>3. /\ \A r \in {"req", "extra"} : Age(inst, r) \in Nat
          /\ ReqsLeft \in 0 .. 3 /\ ExtrasLeft \in 0 .. 1
      BY <1>1, <3>2, AgeType, LeftType
    <3>4. Age(inst, "req") <= 8 /\ Age(inst, "extra") <= 8
      <4>1. CASE id_valid /\ inst = id_inst
        BY <1>1, <3>3, <4>1 DEF AgeInv, IdAges
      <4>2. CASE inst = exe_inst
        <5>1. /\ Age(inst, "extra") + ExtrasLeft <= 2
              /\ Age(inst, "req") <= 3 \/ Age(inst, "req") + ReqsLeft <= 6
          BY <1>1, <3>2, <3>3, <4>2 DEF AgeInv, ExeAges
        <5> QED
          BY <3>3, <5>1
      <4>3. CASE inst = mem_inst
        <5>1. /\ Age(inst, "extra") + ExtrasLeft <= 4
              /\ Age(inst, "req") <= 7 \/ Age(inst, "req") + ReqsLeft <= 7
          BY <1>1, <3>2, <3>3, <4>3 DEF AgeInv, MemAges
        <5> QED
          BY <3>3, <5>1
      <4>4. CASE inst = wb_inst
        BY <1>1, <3>2, <3>3, <4>4 DEF AgeInv, WbAges
      <4> QED
        BY <3>2, <4>1, <4>2, <4>3, <4>4
    <3>5. inst.obj.age <= 8 /\ inst.obj.age \in Nat
      BY <3>2, <3>4 DEF Age, Ages
    <3> QED
      BY <3>1, <3>5
  <2> QED
    BY <2>1 DEF NoInstReused
<1> QED
  BY <1>1, AgesSafe, PTL

=============================================================================
