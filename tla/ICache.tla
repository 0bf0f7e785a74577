------------------------------- MODULE ICache -------------------------------
(***************************************************************************)
(* class ICache (icache.h, icache.cpp): one action per handler.  Unlike    *)
(* the DCache's, its callback into the CPU may call redirect() before it   *)
(* returns (PipelineCPU::preId, on a predicted-taken branch); the handlers *)
(* that answer take `redirected', which says whether it did.               *)
(*                                                                         *)
(* A request is the line it asks for.  flush_valid and flush_set are       *)
(* functions of flush_num, as in DCache.  current_id and the ids of a      *)
(* request are left out: nothing reads them.                               *)
(***************************************************************************)
EXTENDS Cache

CONSTANT NoReq       \* idle_req_valid = false; lookup_req before any request

ASSUME ICacheAssumption == NoReq \notin Lines

VARIABLES
  state, idle_req, lookup_req, match, req_clear_wait, replace_way,
  flush_num, tagvs, lru,
  owed               \* requests the parent accepted and has not called back

cacheVars == <<state, idle_req, lookup_req, match, req_clear_wait,
               replace_way, flush_num, tagvs, lru, owed>>

CacheStates == {"IDLE", "LOOKUP", "MISS", "REFILL"}

CacheInit ==
  /\ state = "IDLE"
  /\ idle_req = NoReq /\ lookup_req = NoReq
  /\ match = FALSE /\ req_clear_wait = FALSE
  /\ replace_way = 0 /\ flush_num = 0
  /\ tagvs = EmptyTags /\ lru = InitVictims
  /\ owed = <<>>

(* Every variable stays in its range; lookup_req is defined whenever a     *)
(* handler reads it.                                                       *)
CacheTypeOK ==
  /\ state \in CacheStates
  /\ idle_req \in Lines \cup {NoReq} /\ lookup_req \in Lines \cup {NoReq}
  /\ state # "IDLE" \/ owed # <<>> => lookup_req # NoReq
  /\ match \in BOOLEAN /\ req_clear_wait \in BOOLEAN
  /\ replace_way \in Ways
  /\ flush_num \in 0 .. SetSize
  /\ tagvs \in TagArray
  /\ lru \in VictimLists
  /\ owed \in Seq(Lines)

flush_valid == flush_num > 0

-----------------------------------------------------------------------------
(* ICache::lookup *)

(* Fault: a lookup is accepted while a miss is being looked up. *)
AcceptOverMiss == ~flush_valid /\ state \in {"IDLE", "LOOKUP"}

CanAccept == ~flush_valid /\ (state = "IDLE" \/ (state = "LOOKUP" /\ match))

Accept(line) ==
  /\ CanAccept
  /\ idle_req' = line
  /\ UNCHANGED <<state, lookup_req, match, req_clear_wait, replace_way,
                 flush_num, tagvs, lru, owed>>

(* ICache::flush *)
Flush ==
  /\ flush_num' = SetSize
  /\ UNCHANGED <<state, idle_req, lookup_req, match, req_clear_wait,
                 replace_way, tagvs, lru, owed>>

(* ICache::redirect, not called from its own callback. *)
Redirect ==
  /\ idle_req' = NoReq
  /\ req_clear_wait' = (req_clear_wait \/ state \in {"MISS", "REFILL"})
  /\ state' = "IDLE"
  /\ UNCHANGED <<lookup_req, match, replace_way, flush_num, tagvs, lru, owed>>

-----------------------------------------------------------------------------
(* ICache::tick *)

FlushTick ==
  /\ flush_valid
  /\ flush_num' = flush_num - 1
  /\ tagvs' = ClearSet(tagvs, SetSize - flush_num)
  /\ UNCHANGED <<state, idle_req, lookup_req, match, req_clear_wait,
                 replace_way, lru, owed>>

TakesIdleReq ==
  /\ ~flush_valid
  /\ idle_req # NoReq
  /\ state = "IDLE" \/ (state = "LOOKUP" /\ match)

(* This tick calls the CPU back: handleIdleReq finds the line. *)
TickAnswers == TakesIdleReq /\ Present(tagvs, idle_req)

(* From IDLE the state is set after handleIdleReq, over a redirect's. *)
LookupTick(redirected) ==
  /\ TakesIdleReq
  /\ redirected => TickAnswers
  /\ lookup_req' = idle_req
  /\ idle_req' = NoReq
  /\ match' = Present(tagvs, idle_req)
  /\ state' = IF state = "LOOKUP" /\ redirected THEN "IDLE" ELSE "LOOKUP"
  /\ UNCHANGED <<req_clear_wait, replace_way, flush_num, tagvs, lru, owed>>

(* Fault: a miss does not wait for the response to be swallowed. *)
SendWithoutWaiting == ~flush_valid /\ state = "LOOKUP" /\ ~match

CanSendMiss ==
  /\ ~flush_valid /\ state = "LOOKUP" /\ ~match /\ ~req_clear_wait

SendMiss ==
  /\ CanSendMiss
  /\ state' = "MISS"
  /\ owed' = Append(owed, lookup_req)
  /\ replace_way' = Victim(lru, SetOf(lookup_req))
  /\ lru' = Rotate(lru, SetOf(lookup_req))
  /\ UNCHANGED <<idle_req, lookup_req, match, req_clear_wait, flush_num, tagvs>>

ParentRefuses == CanSendMiss /\ UNCHANGED cacheVars

WaitClearTick ==
  /\ ~flush_valid /\ state = "LOOKUP" /\ ~match /\ req_clear_wait
  /\ UNCHANGED cacheVars

(* LOOKUP hit with nothing to follow, and REFILL. *)
StepTick ==
  /\ ~flush_valid
  /\ state = "REFILL" \/ (state = "LOOKUP" /\ match /\ idle_req = NoReq)
  /\ state' = "IDLE" /\ idle_req' = NoReq
  /\ UNCHANGED <<lookup_req, match, req_clear_wait, replace_way, flush_num,
                 tagvs, lru, owed>>

RestTick ==
  /\ ~flush_valid
  /\ state = "MISS" \/ (state = "IDLE" /\ idle_req = NoReq)
  /\ UNCHANGED cacheVars

Tick(redirected) ==
  \/ LookupTick(redirected)
  \/ /\ ~redirected
     /\ \/ FlushTick \/ SendMiss \/ ParentRefuses
        \/ WaitClearTick \/ StepTick \/ RestTick

-----------------------------------------------------------------------------
(* The parent's callback (the lambda of afterLoad).  in_callback makes a    *)
(* redirect from within it wait for nothing.                                *)

ResponseAnswers == owed # <<>> /\ ~req_clear_wait

(* Fault: without in_callback, a redirect from the callback finds REFILL   *)
(* and waits for another response.                                         *)
WaitsForAnother(redirected) == redirected

WaitsAfter(redirected) == FALSE

Response(redirected) ==
  /\ owed # <<>>
  /\ redirected => ResponseAnswers
  /\ owed' = Tail(owed)
  /\ tagvs' = Install(tagvs, replace_way, lookup_req)
  /\ req_clear_wait' = WaitsAfter(redirected)
  /\ state' = IF req_clear_wait THEN state
              ELSE IF redirected THEN "IDLE" ELSE "REFILL"
  /\ idle_req' = IF redirected THEN NoReq ELSE idle_req
  /\ UNCHANGED <<lookup_req, match, replace_way, flush_num, lru>>

(* The request inside the cache that has not been answered. *)
Unanswered ==
  (IF state = "MISS" \/ (state = "LOOKUP" /\ ~match) THEN <<lookup_req>> ELSE <<>>)
  \o (IF idle_req # NoReq THEN <<idle_req>> ELSE <<>>)

=============================================================================
