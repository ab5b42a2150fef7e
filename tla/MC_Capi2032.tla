---------------------------- MODULE MC_Capi2032 -----------------------------
(* Instances of Capi2032 for TLC: see the .cfg files. *)
EXTENDS Capi2032, TLC

CONSTANTS t1, t2

ThreadSymmetry == Permutations(Threads)

AllCalls == CapiTypes
AppCalls == {"CAPI_REGISTER", "CAPI_RELEASE", "CAPI_GETMESSAGE"}
=============================================================================
