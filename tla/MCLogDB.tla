------------------------------ MODULE MCLogDB ------------------------------
(* Instances of LogDB for TLC; the configurations give the ring a few       *)
(* slices of a few rows.                                                    *)
EXTENDS LogDB
=============================================================================
