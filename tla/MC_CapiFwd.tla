----------------------------- MODULE MC_CapiFwd -----------------------------
(* Instances of CapiFwd for TLC: see the .cfg files. *)
EXTENDS CapiFwd, TLC

CONSTANTS c1, c2

ConnSymmetry == Permutations(Conns)

AllTypes == ProxyTypes \cup CapiTypes
SessionTypes == {"PROXY_HELO", "CAPI_REGISTER", "CAPI_RELEASE"}

LiveTypes == {"PROXY_HELO", "CAPI_REGISTER", "CAPI_WAITFORSIGNAL"}
OneInd == {[data_len |->  8, len1 |->  8, b3 |-> FALSE, len2 |-> 0]}

(* One message for each branch of the length checks. *)
TooShort    == [data_len |->  7, len1 |->  7, b3 |-> FALSE, len2 |-> 0]
Truncated   == [data_len |->  8, len1 |->  9, b3 |-> FALSE, len2 |-> 0]
Plain       == [data_len |->  8, len1 |->  8, b3 |-> FALSE, len2 |-> 0]
B3Short     == [data_len |-> 20, len1 |-> 17, b3 |-> TRUE,  len2 |-> 0]
B3Truncated == [data_len |-> 22, len1 |-> 18, b3 |-> TRUE,  len2 |-> 5]
B3          == [data_len |-> 22, len1 |-> 18, b3 |-> TRUE,  len2 |-> 4]

AllPuts == {TooShort, Truncated, Plain, B3Short, B3Truncated, B3}
AllInds == {Plain, B3Short, B3}
=============================================================================
