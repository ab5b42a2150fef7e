-------------------------- MODULE MC_Capi20Server ---------------------------
(* Instances of Capi20Server for TLC: see the .cfg files. *)
EXTENDS Capi20Server, TLC

CONSTANTS c1, c2, c3

ConnSymmetry == Permutations(Conns)

AllTypes == ProxyTypes \cup CapiTypes
SessionTypes == {"PROXY_HELO", "CAPI_REGISTER", "CAPI_RELEASE"}
CapiOnly == {"CAPI_REGISTER", "CAPI_RELEASE"}
FirstSlot == {SessionOf(0)}
UserPass == {"AUTH_USERPASS"}

(* One message for each branch of the length checks. *)
AllPuts ==
    {[data_len |->  7, len1 |->  7, b3 |-> FALSE, len2 |-> 0],
     [data_len |->  8, len1 |->  9, b3 |-> FALSE, len2 |-> 0],
     [data_len |->  8, len1 |->  8, b3 |-> FALSE, len2 |-> 0],
     [data_len |-> 20, len1 |-> 17, b3 |-> TRUE,  len2 |-> 0],
     [data_len |-> 22, len1 |-> 18, b3 |-> TRUE,  len2 |-> 5],
     [data_len |-> 22, len1 |-> 18, b3 |-> TRUE,  len2 |-> 4]}
=============================================================================
