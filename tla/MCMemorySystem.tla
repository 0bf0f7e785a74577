--------------------------- MODULE MCMemorySystem ---------------------------
(* Memory with two caches and its three devices. *)
EXTENDS MemorySystem
=============================================================================
