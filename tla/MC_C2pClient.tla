---------------------------- MODULE MC_C2pClient ----------------------------
(* Instances of C2pClient for TLC: see the .cfg files. *)
EXTENDS C2pClient

CONSTANT t1
=============================================================================
