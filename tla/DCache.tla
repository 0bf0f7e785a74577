------------------------------- MODULE DCache -------------------------------
(***************************************************************************)
(* class DCache (dcache.h, dcache.cpp): one action per handler.  The       *)
(* handlers are called from outside, by the simulation loop (tick), by the *)
(* CPU (lookup, flush, redirect) and by the parent memory (the callback    *)
(* registered in afterLoad); DataSide composes them with their callers.    *)
(*                                                                         *)
(* flush_valid and flush_set are functions of flush_num: flush() sets the  *)
(* three together and tick() moves them together.  _match is stored with   *)
(* lookup_req, both written by handleIdleReq alone.                        *)
(***************************************************************************)
EXTENDS Cache

CONSTANT NoReq       \* idle_req_valid = false; lookup_req before any request

VARIABLES
  state,             \* DCache::state
  idle_req,          \* the accepted request tick() has not looked up, or NoReq
  lookup_req,        \* the request being served (stale when state is IDLE)
  match,             \* DCache::_match
  req_clear_wait,    \* a response is to be swallowed
  replace_way,       \* the way the next response fills
  flush_num,         \* sets still to be cleared
  tagvs, lru,
  owed               \* requests the parent accepted and has not called back

cacheVars == <<state, idle_req, lookup_req, match, req_clear_wait,
               replace_way, flush_num, tagvs, lru, owed>>

CacheStates == {"IDLE", "LOOKUP", "WRITE", "MISS", "REFILL"}

(* CacheReq: id[0] is the slot of the CPU's request ring. *)
CacheReq(Ids) == [id : Ids, line : Lines, req : {"READ_SHARED", "WRITE_BACK"}]

CacheInit ==
  /\ state = "IDLE"
  /\ idle_req = NoReq /\ lookup_req = NoReq
  /\ match = FALSE /\ req_clear_wait = FALSE
  /\ replace_way = 0 /\ flush_num = 0
  /\ tagvs = EmptyTags /\ lru = InitVictims
  /\ owed = <<>>

(* Every variable stays in its range; lookup_req is defined whenever a     *)
(* handler reads it.                                                       *)
CacheTypeOK(Ids) ==
  /\ state \in CacheStates
  /\ idle_req \in CacheReq(Ids) \cup {NoReq}
  /\ lookup_req \in CacheReq(Ids) \cup {NoReq}
  /\ state # "IDLE" \/ owed # <<>> => lookup_req # NoReq
  /\ match \in BOOLEAN /\ req_clear_wait \in BOOLEAN
  /\ replace_way \in Ways
  /\ flush_num \in 0 .. SetSize
  /\ tagvs \in TagArray
  /\ lru \in VictimLists
  /\ owed \in Seq(CacheReq(Ids))

flush_valid == flush_num > 0

-----------------------------------------------------------------------------
(* DCache::lookup *)

(* Faults for the mutation runs: a lookup accepted while a miss is being   *)
(* looked up, and one accepted while a flush is running.                   *)
AcceptOverMiss == ~flush_valid /\ state \in {"IDLE", "LOOKUP"}
AcceptInFlush ==
  \/ state = "IDLE"
  \/ state = "LOOKUP" /\ match /\ lookup_req.req # "WRITE_BACK"

CanAccept ==
  /\ ~flush_valid
  /\ \/ state = "IDLE"
     \/ state = "LOOKUP" /\ match /\ lookup_req.req # "WRITE_BACK"

Accept(req) ==
  /\ CanAccept
  /\ idle_req' = req
  /\ UNCHANGED <<state, lookup_req, match, req_clear_wait, replace_way,
                 flush_num, tagvs, lru, owed>>

(* Fault: the flush starts after the first set. *)
FlushFromSecondSet ==
  /\ flush_num' = SetSize - 1
  /\ UNCHANGED <<state, idle_req, lookup_req, match, req_clear_wait,
                 replace_way, tagvs, lru, owed>>

(* DCache::flush *)
Flush ==
  /\ flush_num' = SetSize
  /\ UNCHANGED <<state, idle_req, lookup_req, match, req_clear_wait,
                 replace_way, tagvs, lru, owed>>

(* DCache::redirect *)
Redirect ==
  /\ idle_req' = NoReq
  /\ req_clear_wait' = (req_clear_wait \/ state \in {"MISS", "REFILL"})
  /\ state' = "IDLE"
  /\ UNCHANGED <<lookup_req, match, replace_way, flush_num, tagvs, lru, owed>>

-----------------------------------------------------------------------------
(* DCache::tick *)

FlushTick ==
  /\ flush_valid
  /\ flush_num' = flush_num - 1
  /\ tagvs' = ClearSet(tagvs, SetSize - flush_num)
  /\ UNCHANGED <<state, idle_req, lookup_req, match, req_clear_wait,
                 replace_way, lru, owed>>

(* handleIdleReq: it answers at once when the line is present. *)
HandleIdleReq ==
  /\ lookup_req' = idle_req
  /\ idle_req' = NoReq
  /\ match' = Present(tagvs, idle_req.line)

(* Fault: a LOOKUP hit goes back to IDLE without the request behind it. *)
TakesWhenIdle == ~flush_valid /\ idle_req # NoReq /\ state = "IDLE"

(* The states in which tick() calls handleIdleReq. *)
TakesIdleReq ==
  /\ ~flush_valid
  /\ idle_req # NoReq
  /\ \/ state = "IDLE"
     \/ state = "LOOKUP" /\ match /\ lookup_req.req # "WRITE_BACK"

(* Fault: the answer carries the id of the request before. *)
AnswerBeforeCopy == lookup_req.id

(* This tick calls callbacks[0], with the id handleIdleReq has just copied *)
(* to lookup_req.                                                          *)
TickAnswers == TakesIdleReq /\ Present(tagvs, idle_req.line)
TickAnswerId == lookup_req'.id

LookupTick ==
  /\ TakesIdleReq
  /\ state' = "LOOKUP"
  /\ HandleIdleReq
  /\ UNCHANGED <<req_clear_wait, replace_way, flush_num, tagvs, lru, owed>>

(* Fault: a miss does not wait for the response to be swallowed. *)
SendWithoutWaiting == ~flush_valid /\ state = "LOOKUP" /\ ~match

(* A miss asks the parent, which may refuse. *)
CanSendMiss ==
  /\ ~flush_valid /\ state = "LOOKUP" /\ ~match /\ ~req_clear_wait

SendMiss ==
  /\ CanSendMiss
  /\ state' = "MISS"
  /\ owed' = Append(owed, lookup_req)
  /\ replace_way' = Victim(lru, SetOf(lookup_req.line))
  /\ lru' = Rotate(lru, SetOf(lookup_req.line))
  /\ UNCHANGED <<idle_req, lookup_req, match, req_clear_wait, flush_num, tagvs>>

ParentRefuses == CanSendMiss /\ UNCHANGED cacheVars

WaitClearTick ==
  /\ ~flush_valid /\ state = "LOOKUP" /\ ~match /\ req_clear_wait
  /\ UNCHANGED cacheVars

(* LOOKUP hit of a store, LOOKUP hit with nothing to follow, WRITE, REFILL. *)
NextState ==
  IF state = "LOOKUP" /\ lookup_req.req = "WRITE_BACK" THEN "WRITE" ELSE "IDLE"

StepTick ==
  /\ ~flush_valid
  /\ \/ state = "LOOKUP" /\ match
        /\ (idle_req = NoReq \/ lookup_req.req = "WRITE_BACK")
     \/ state \in {"WRITE", "REFILL"}
  /\ state' = NextState
  /\ idle_req' = IF state = "REFILL" THEN NoReq ELSE idle_req
  /\ UNCHANGED <<lookup_req, match, req_clear_wait, replace_way, flush_num,
                 tagvs, lru, owed>>

RestTick ==
  /\ ~flush_valid
  /\ state = "MISS" \/ (state = "IDLE" /\ idle_req = NoReq)
  /\ UNCHANGED cacheVars

Tick ==
  \/ FlushTick \/ LookupTick \/ SendMiss \/ ParentRefuses
  \/ WaitClearTick \/ StepTick \/ RestTick

-----------------------------------------------------------------------------
(* The parent's callback (the lambda of afterLoad): the fill goes to the    *)
(* line of lookup_req as it is now, and the CPU is answered unless a        *)
(* redirect asked for the response to be swallowed.                         *)

Fill == tagvs' = Install(tagvs, replace_way, lookup_req.line)

Response ==
  /\ owed # <<>>
  /\ owed' = Tail(owed)
  /\ Fill
  /\ IF req_clear_wait
       THEN req_clear_wait' = FALSE /\ UNCHANGED state
       ELSE state' = "REFILL" /\ UNCHANGED req_clear_wait
  /\ UNCHANGED <<idle_req, lookup_req, match, replace_way, flush_num, lru>>

ResponseAnswers == ~req_clear_wait

=============================================================================
