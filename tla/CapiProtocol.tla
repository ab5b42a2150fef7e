---------------------------- MODULE CapiProtocol ----------------------------
(***************************************************************************)
(* The wire protocol that every program of the repository shares           *)
(* (protocol.h, four near-identical copies).  A message is its header: the *)
(* fields that decide how it is routed and judged.  Numeric codes are      *)
(* written as the names protocol.h gives them; bodies that only carry text *)
(* or numbers for the application (names, versions, serials) are left out. *)
(***************************************************************************)
EXTENDS Integers, Sequences

CONSTANT CAPI_MAXAPPL   \* the largest application number the CAPI hands out

ASSUME MaxApplAssumption == CAPI_MAXAPPL \in Nat \ {0}

AppIds == 1 .. CAPI_MAXAPPL

(* TYPE_*: the requests a server dispatches on. *)
ProxyTypes == {"PROXY_HELO", "PROXY_AUTH", "PROXY_KEEPALIVE"}
AppTypes   == {"CAPI_RELEASE", "CAPI_PUTMESSAGE", "CAPI_GETMESSAGE",
               "CAPI_WAITFORSIGNAL"}
InfoTypes  == {"CAPI_INSTALLED", "CAPI_VERSION", "CAPI_SERIAL",
               "CAPI_MANUFACTURER", "CAPI_PROFILE"}
CapiTypes  == {"CAPI_REGISTER"} \cup AppTypes \cup InfoTypes

(* PERROR_*: the proxy's own verdict on a request. *)
ProxyErrors == {"NONE", "AUTH_REQUIRED", "WRONG_SESSION", "ACCESS_DENIED",
                "PARSE_ERROR", "AUTH_TYPE_NOT_SUPPORTED",
                "INCOMPATIBLE_VERSION", "NO_RESSOURCES"}

(* capi_error: what the CAPI driver returned.                              *)
(* 0x1101 illegal application number, 0x1103 queue full, 0x1104 queue      *)
(* empty, 0x1108 out of resources, 0x1109 CAPI not installed.              *)
CapiErrors == {"0x0000", "0x1101", "0x1103", "0x1104", "0x1108", "0x1109"}

AuthTypes == {"AUTH_NO_AUTH", "AUTH_BY_IP", "AUTH_USERPASS"}

(***************************************************************************)
(* A CAPI message as PUTMESSAGE carries it: the bytes that arrived with    *)
(* the request (data_len), the length the message itself claims in its     *)
(* first word (len1), whether it is a DATA_B3 message, and the length of   *)
(* the data block a DATA_B3 message claims (len2).                         *)
(***************************************************************************)
CapiMsgs == [data_len : Nat, len1 : Nat, b3 : BOOLEAN, len2 : Nat]

NoMsg == [data_len |-> 0, len1 |-> 0, b3 |-> FALSE, len2 |-> 0]

(***************************************************************************)
(* REQUEST_HEADER.  "remainder" says whether any byte follows the header:  *)
(* message_len - sizeof(header) is 0 when the body struct is empty and     *)
(* there is no data, which is what a C client sends for the requests of    *)
(* BareTypes; a C++ client pads an empty struct to one byte.               *)
(***************************************************************************)
BareTypes == InfoTypes \cup
    {"PROXY_KEEPALIVE", "CAPI_RELEASE", "CAPI_GETMESSAGE", "CAPI_WAITFORSIGNAL"}

Requests ==
    [message_id   : Nat,
     message_type : ProxyTypes \cup CapiTypes,
     app_id       : AppIds \cup {0},
     session_id   : Nat,
     remainder    : BOOLEAN,
     auth_type    : AuthTypes,
     msg          : CapiMsgs]

(* ANSWER_HEADER, without the lengths that follow from the type. *)
Answers ==
    [message_id   : Nat,
     message_type : ProxyTypes \cup CapiTypes,
     app_id       : AppIds \cup {0},
     session_id   : Nat,
     proxy_error  : ProxyErrors,
     capi_error   : CapiErrors,
     data_len     : Nat]
=============================================================================
