---------------------------- MODULE MCFetchSide ----------------------------
(* FetchSide on two cache lines.  In MCFetchSide.cfg a line holds one chunk *)
(* and the address space two, so that branches go to either half of either  *)
(* chunk and instructions straddle chunks; RetireSize is the least for      *)
(* which no Inst is handed out while in use.  MCFetchSideLive.cfg is the    *)
(* least instance in which fetching can stop.                               *)
EXTENDS FetchSide
=============================================================================
