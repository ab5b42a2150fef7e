------------------------------ MODULE CapiFwd -------------------------------
(***************************************************************************)
(* capifwd, the Linux server (linux-server/src).  A listener process       *)
(* accepts connections and forks one handler process per connection; the   *)
(* handler reads requests, makes the CAPI call and sends the answer; a     *)
(* WAITFORSIGNAL request forks a further child that blocks in the CAPI and *)
(* answers on the shared socket.  The CAPI driver (libcapi20) and the      *)
(* clients are the environment.                                            *)
(*                                                                         *)
(* The byte stream of a connection is the log of the requests the client   *)
(* has sent (asked[c], the message id is the index) with the handler's     *)
(* read position (taken[c]); what reached the client is the log answers[c].*)
(***************************************************************************)
EXTENDS CapiProtocol, FiniteSets

CONSTANTS
    Conns,          \* connections, one per client socket
    None,           \* no owner
    ReqTypes,       \* the request types the clients of this instance use
    PutShapes,      \* the CAPI messages clients put
    IndShapes,      \* the CAPI messages the driver delivers
    MaxReq,         \* bound: requests per connection
    MaxTotal,       \* bound: requests on all connections together
    MaxPipeline,    \* bound: requests sent and not yet read, per connection
    MaxInbox,       \* bound: messages queued in the driver per application
    MaxFds          \* descriptors the listener may hold for connections

ASSUME CapiFwdAssumption ==
    /\ None \notin Conns
    /\ ReqTypes \subseteq ProxyTypes \cup CapiTypes
    /\ PutShapes \subseteq CapiMsgs
    /\ IndShapes \subseteq CapiMsgs
    /\ MaxReq \in Nat /\ MaxTotal \in Nat /\ MaxPipeline \in Nat
    /\ MaxInbox \in Nat /\ MaxFds \in Nat

VARIABLES
    (* the listener process *)
    listening,          \* the process is alive, its socket sc open
    sessionID,          \* its session counter
    fds,                \* connection sockets it holds open
    (* the handler processes *)
    handler,            \* life cycle of the handler of each connection
    sess,               \* its copy of sessionID, made by fork()
    registered_apps,    \* its list of applications
    out_packet,         \* what earlier answers left in its answer buffer
    waiters,            \* children blocked in capi20_waitformessage
    (* the connections *)
    conn, asked, taken, answers,
    (* the CAPI driver *)
    owner,              \* the process an application number belongs to
    inbox               \* messages the driver holds for an application

listenerVars == <<listening, sessionID, fds>>
handlerVars  == <<handler, sess, registered_apps, out_packet, waiters>>
connVars     == <<conn, asked, taken, answers>>
driverVars   == <<owner, inbox>>
vars == <<listenerVars, handlerVars, connVars, driverVars>>

(* "exited" after release_all, "sigpipe" and "sigterm" when a signal ended *)
(* the process, "refused" when fork() failed.                              *)
HandlerStates == {"none", "serving", "releasing", "exited", "sigpipe",
                  "sigterm", "refused"}

(* "closed" once the client has closed, "reset" once its kernel has        *)
(* answered with a reset, because it closed with unread answers or because *)
(* something was sent to it after it closed.                               *)
ConnStates == {"none", "open", "closed", "reset"}
Gone == {"closed", "reset"}

Waiters == [conn : Conns, app_id : AppIds \cup {0}, message_id : Nat]

TypeOK ==
    /\ listening \in BOOLEAN
    /\ sessionID \in Nat
    /\ fds \subseteq Conns
    /\ handler \in [Conns -> HandlerStates]
    /\ sess \in [Conns -> Nat]
    /\ registered_apps \in [Conns -> SUBSET AppIds]
    /\ out_packet \in [Conns -> [app_id : AppIds \cup {0},
                                 capi_error : CapiErrors]]
    /\ waiters \subseteq Waiters
    /\ conn \in [Conns -> ConnStates]
    /\ asked \in [Conns -> Seq(Requests)]
    /\ taken \in [Conns -> Nat]
    /\ answers \in [Conns -> Seq(Answers)]
    /\ owner \in [AppIds -> Conns \cup {None}]
    /\ inbox \in [AppIds -> Seq(CapiMsgs)]

-----------------------------------------------------------------------------
(* main() up to the accept loop; the out_packet buffer starts as zeroes.   *)
Init ==
    /\ listening = TRUE
    /\ sessionID = 2
    /\ fds = {}
    /\ handler = [c \in Conns |-> "none"]
    /\ sess = [c \in Conns |-> 0]
    /\ registered_apps = [c \in Conns |-> {}]
    /\ out_packet = [c \in Conns |-> [app_id |-> 0, capi_error |-> "0x0000"]]
    /\ waiters = {}
    /\ conn = [c \in Conns |-> "none"]
    /\ asked = [c \in Conns |-> <<>>]
    /\ taken = [c \in Conns |-> 0]
    /\ answers = [c \in Conns |-> <<>>]
    /\ owner = [a \in AppIds |-> None]
    /\ inbox = [a \in AppIds |-> <<>>]

-----------------------------------------------------------------------------
(* The clients.  A client may use any session id an answer has told it, on *)
(* this connection or on another one, or 0 before it knows any.            *)

KnownSessions ==
    {0} \cup {answers[p[1]][p[2]].session_id :
                  p \in {q \in Conns \X (1 .. MaxReq) : q[2] <= Len(answers[q[1]])}}

ClientRequests(id) ==
    {r \in [message_id   : {id},
            message_type : ReqTypes,
            app_id       : AppIds \cup {0},
            session_id   : KnownSessions,
            remainder    : BOOLEAN,
            auth_type    : AuthTypes,
            msg          : PutShapes \cup {NoMsg}] :
        /\ (r.app_id # 0) <=> (r.message_type \in AppTypes)
        /\ r.remainder \/ r.message_type \in BareTypes
        /\ r.auth_type = "AUTH_NO_AUTH" \/ r.message_type = "PROXY_AUTH"
        /\ (r.msg \in PutShapes) <=> (r.message_type = "CAPI_PUTMESSAGE")
        /\ r.message_type \in ProxyTypes => r.session_id = 0}

Connect(c) ==
    /\ conn[c] = "none"
    /\ listening
    /\ conn' = [conn EXCEPT ![c] = "open"]
    /\ UNCHANGED <<asked, taken, answers, listenerVars, handlerVars, driverVars>>

(* Bytes sent to a server process that is gone are read by nobody. *)
SendRequest(c) ==
    /\ conn[c] = "open"
    /\ handler[c] \in {"none", "serving"}
    /\ Len(asked[c]) < MaxReq
    /\ Cardinality({p \in Conns \X (1 .. MaxReq) : p[2] <= Len(asked[p[1]])}) < MaxTotal
    /\ Len(asked[c]) - taken[c] < MaxPipeline
    /\ \E request \in ClientRequests(Len(asked[c]) + 1) :
          asked' = [asked EXCEPT ![c] = Append(@, request)]
    /\ UNCHANGED <<conn, taken, answers, listenerVars, handlerVars, driverVars>>

Disconnect(c) ==
    /\ conn[c] = "open"
    /\ \E state \in Gone : conn' = [conn EXCEPT ![c] = state]
    /\ UNCHANGED <<asked, taken, answers, listenerVars, handlerVars, driverVars>>

-----------------------------------------------------------------------------
(* The listener. *)

(* Mutant: the increment is forgotten. *)
NextSession_NoIncrement == sessionID

(* The next session number of sessionID++. *)
NextSession == sessionID + 1

(* accept() and fork() succeed; the parent goes on with "continue" and     *)
(* keeps its copy of the connection's socket open.                         *)
accept(c) ==
    /\ listening
    /\ conn[c] # "none" /\ handler[c] = "none"
    /\ Cardinality(fds) < MaxFds
    /\ sessionID' = NextSession
    /\ fds' = fds \cup {c}
    /\ handler' = [handler EXCEPT ![c] = "serving"]
    /\ sess' = [sess EXCEPT ![c] = NextSession]
    /\ UNCHANGED <<listening, registered_apps, out_packet, waiters, connVars,
                   driverVars>>

(* fork() fails: both sockets are closed and the listener exits. *)
accept_fork_fails(c) ==
    /\ listening
    /\ conn[c] # "none" /\ handler[c] = "none"
    /\ Cardinality(fds) < MaxFds
    /\ listening' = FALSE
    /\ sessionID' = NextSession
    /\ fds' = {}
    /\ handler' = [handler EXCEPT ![c] = "refused"]
    /\ UNCHANGED <<sess, registered_apps, out_packet, waiters, connVars,
                   driverVars>>

(* accept() fails, because the listener has no descriptor left or because  *)
(* the client has already gone: the listener exits.                        *)
accept_fails(c) ==
    /\ listening
    /\ conn[c] # "none" /\ handler[c] = "none"
    /\ Cardinality(fds) >= MaxFds \/ conn[c] \in Gone
    /\ listening' = FALSE
    /\ fds' = {}
    /\ UNCHANGED <<sessionID, handlerVars, connVars, driverVars>>

(* SIGINT or SIGTERM at the listener. *)
sigparent ==
    /\ listening
    /\ listening' = FALSE
    /\ fds' = {}
    /\ UNCHANGED <<sessionID, handlerVars, connVars, driverVars>>

-----------------------------------------------------------------------------
(* libcapi20, as the handlers use it.  An application number belongs to    *)
(* the process that registered it; another process gets 0x1101.  A driver  *)
(* takes back the applications of a process that died once no child of it  *)
(* holds them either.                                                      *)

Owns(c, app) == app \in AppIds /\ owner[app] = c

capi20_register(c, app) ==
    /\ owner[app] = None
    /\ owner' = [owner EXCEPT ![app] = c]
    /\ inbox' = [inbox EXCEPT ![app] = <<>>]

capi20_release(app) ==
    /\ owner' = [owner EXCEPT ![app] = None]
    /\ inbox' = [inbox EXCEPT ![app] = <<>>]

CapiIndication(app) ==
    /\ owner[app] # None
    /\ Len(inbox[app]) < MaxInbox
    /\ \E m \in IndShapes : inbox' = [inbox EXCEPT ![app] = Append(@, m)]
    /\ UNCHANGED <<owner, listenerVars, handlerVars, connVars>>

Reap(app) ==
    /\ owner[app] # None
    /\ handler[owner[app]] \in {"sigpipe", "sigterm"}
    /\ \A w \in waiters : w.conn # owner[app]
    /\ capi20_release(app)
    /\ UNCHANGED <<listenerVars, handlerVars, connVars>>

-----------------------------------------------------------------------------
(* registered_apps, a character per application number (appindex.c). *)

add_app(app, list) == list \cup {app}

del_app(app, list) == list \ {app}

(* Mutant: the loop stops one entry early. *)
SetEntries_OffByOne(list) == {i \in 1 .. CAPI_MAXAPPL - 1 : i \in list}

(* The candidates of getfirst_app's loop: the entries that are set. *)
SetEntries(list) == {i \in 1 .. CAPI_MAXAPPL : i \in list}

-----------------------------------------------------------------------------
(* Answers.  Every exec_* function fills the header at the start of the    *)
(* process's one out_packet and sends it.  Fields it does not assign keep  *)
(* what an earlier answer left there.                                      *)

AnswerHead(c, request, proxy_error, capi_error) ==
    [message_id   |-> request.message_id,
     message_type |-> request.message_type,
     app_id       |-> request.app_id,
     session_id   |-> sess[c],
     proxy_error  |-> proxy_error,
     capi_error   |-> capi_error,
     data_len     |-> 0]

(* send(): to a client that has gone the answer is lost and provokes a     *)
(* reset; after a reset, as nothing handles SIGPIPE, it may end the process.*)
Send(c, head) ==
    /\ out_packet' = [out_packet EXCEPT ![c] = [app_id     |-> head.app_id,
                                                capi_error |-> head.capi_error]]
    /\ \/ /\ conn[c] = "open"
          /\ answers' = [answers EXCEPT ![c] = Append(@, head)]
          /\ UNCHANGED <<handler, conn>>
       \/ /\ conn[c] \in Gone
          /\ conn' \in {conn, [conn EXCEPT ![c] = "reset"]}
          /\ UNCHANGED <<answers, handler>>
       \/ /\ conn[c] = "reset"
          /\ handler' = [handler EXCEPT ![c] = "sigpipe"]
          /\ UNCHANGED <<answers, conn>>

exec_proxy_helo(c, request) ==
    /\ request.message_type = "PROXY_HELO"
    /\ Send(c, [AnswerHead(c, request, "AUTH_REQUIRED", "0x0000") EXCEPT !.app_id = 0])
    /\ UNCHANGED <<registered_apps, waiters, driverVars>>

(* up_auth refuses every user; ip_auth looks at the local address of the   *)
(* socket, which the model does not have: both outcomes are possible.      *)
AuthVerdicts(auth_type) ==
    CASE auth_type = "AUTH_USERPASS" -> {"ACCESS_DENIED"}
      [] auth_type = "AUTH_BY_IP"    -> {"NONE", "ACCESS_DENIED"}
      [] OTHER                       -> {"AUTH_TYPE_NOT_SUPPORTED"}

exec_proxy_auth(c, request) ==
    /\ request.message_type = "PROXY_AUTH"
    /\ \E verdict \in AuthVerdicts(request.auth_type) :
          Send(c, [AnswerHead(c, request, verdict, "0x0000") EXCEPT
                      !.app_id = 0,
                      !.session_id = IF verdict = "NONE" THEN sess[c] ELSE 0])
    /\ UNCHANGED <<registered_apps, waiters, driverVars>>

(* Mutant: the result of the registration is not looked at. *)
exec_capi_register_Unchecked(c, request) ==
    /\ request.message_type = "CAPI_REGISTER"
    /\ registered_apps' =
          [registered_apps EXCEPT ![c] = add_app(out_packet[c].app_id, @)]
    /\ Send(c, [AnswerHead(c, request, "NONE", "0x1108") EXCEPT
                    !.app_id = out_packet[c].app_id])
    /\ UNCHANGED <<waiters, driverVars>>

(* A registration that fails leaves the application number of an earlier   *)
(* answer in the header.                                                   *)
exec_capi_register(c, request) ==
    /\ request.message_type = "CAPI_REGISTER"
    /\ \/ \E app \in AppIds :
             /\ capi20_register(c, app)
             /\ registered_apps' = [registered_apps EXCEPT ![c] = add_app(app, @)]
             /\ Send(c, [AnswerHead(c, request, "NONE", "0x0000") EXCEPT !.app_id = app])
       \/ /\ Send(c, [AnswerHead(c, request, "NONE", "0x1108") EXCEPT
                          !.app_id = out_packet[c].app_id])
          /\ UNCHANGED <<registered_apps, driverVars>>
    /\ UNCHANGED waiters

exec_capi_release(c, request) ==
    /\ request.message_type = "CAPI_RELEASE"
    /\ \/ /\ Owns(c, request.app_id)
          /\ capi20_release(request.app_id)
          /\ registered_apps' =
                [registered_apps EXCEPT ![c] = del_app(request.app_id, @)]
          /\ Send(c, AnswerHead(c, request, "NONE", "0x0000"))
       \/ /\ ~ Owns(c, request.app_id)
          /\ Send(c, AnswerHead(c, request, "NONE", "0x1101"))
          /\ UNCHANGED <<registered_apps, driverVars>>
    /\ UNCHANGED waiters

(* The length checks of exec_capi_putmessage. *)
PutParses(m) ==
    /\ m.data_len >= 8
    /\ m.data_len >= m.len1
    /\ m.b3 => /\ m.len1 >= 18
               /\ m.len1 + m.len2 <= m.data_len

(* A message that does not parse is answered with the capi_error of an     *)
(* earlier answer.                                                         *)
exec_capi_putmessage(c, request) ==
    /\ request.message_type = "CAPI_PUTMESSAGE"
    /\ \/ /\ ~ PutParses(request.msg)
          /\ Send(c, AnswerHead(c, request, "PARSE_ERROR", out_packet[c].capi_error))
       \/ /\ PutParses(request.msg)
          /\ \E result \in IF Owns(c, request.app_id) THEN {"0x0000", "0x1103"}
                                                      ELSE {"0x1101"} :
                Send(c, AnswerHead(c, request, "NONE", result))
    /\ UNCHANGED <<registered_apps, waiters, driverVars>>

exec_capi_getmessage(c, request) ==
    /\ request.message_type = "CAPI_GETMESSAGE"
    /\ \/ /\ Owns(c, request.app_id)
          /\ inbox[request.app_id] # <<>>
          /\ LET m == inbox[request.app_id][1]
                 short == m.b3 /\ m.len1 < 18
                 head == AnswerHead(c, request, IF short THEN "PARSE_ERROR" ELSE "NONE",
                              "0x0000")
             IN Send(c, [head EXCEPT !.data_len =
                            m.len1 + (IF m.b3 /\ ~ short THEN m.len2 ELSE 0)])
          /\ inbox' = [inbox EXCEPT ![request.app_id] = Tail(@)]
       \/ /\ Owns(c, request.app_id)
          /\ inbox[request.app_id] = <<>>
          /\ Send(c, AnswerHead(c, request, "NONE", "0x1104"))
          /\ UNCHANGED inbox
       \/ /\ ~ Owns(c, request.app_id)
          /\ Send(c, AnswerHead(c, request, "NONE", "0x1101"))
          /\ UNCHANGED inbox
    /\ UNCHANGED <<registered_apps, waiters, owner>>

(* Mutants: the parent does not return after fork() but answers as well;   *)
(* and a failed fork() is not answered.                                    *)
exec_capi_waitforsignal_Twice(c, request) ==
    /\ request.message_type = "CAPI_WAITFORSIGNAL"
    /\ waiters' = waiters \cup {[conn       |-> c,
                                 app_id     |-> request.app_id,
                                 message_id |-> request.message_id]}
    /\ Send(c, AnswerHead(c, request, "NONE", "0x0000"))
    /\ UNCHANGED <<registered_apps, driverVars>>

exec_capi_waitforsignal_Silent(c, request) ==
    /\ request.message_type = "CAPI_WAITFORSIGNAL"
    /\ UNCHANGED <<handler, registered_apps, out_packet, waiters, conn, answers,
                   driverVars>>

(* The handler forks a child that waits, or answers itself if it cannot. *)
exec_capi_waitforsignal(c, request) ==
    /\ request.message_type = "CAPI_WAITFORSIGNAL"
    /\ \/ /\ waiters' = waiters \cup {[conn       |-> c,
                                        app_id     |-> request.app_id,
                                        message_id |-> request.message_id]}
          /\ UNCHANGED <<out_packet, answers, handler, conn>>
       \/ /\ Send(c, AnswerHead(c, request, "NO_RESSOURCES", "0x1108"))
          /\ UNCHANGED waiters
    /\ UNCHANGED <<registered_apps, driverVars>>

exec_capi_isinstalled(c, request) ==
    /\ request.message_type = "CAPI_INSTALLED"
    /\ \E result \in {"0x0000", "0x1109"} : Send(c, AnswerHead(c, request, "NONE", result))
    /\ UNCHANGED <<registered_apps, waiters, driverVars>>

exec_capi_profile(c, request) ==
    /\ request.message_type = "CAPI_PROFILE"
    /\ \E result \in {"0x0000", "0x1109"} : Send(c, AnswerHead(c, request, "NONE", result))
    /\ UNCHANGED <<registered_apps, waiters, driverVars>>

(* version.c, serial.c and manufacturer.c ignore what the CAPI returned. *)
exec_capi_version(c, request) ==
    /\ request.message_type = "CAPI_VERSION"
    /\ Send(c, AnswerHead(c, request, "NONE", "0x0000"))
    /\ UNCHANGED <<registered_apps, waiters, driverVars>>

exec_capi_serial(c, request) ==
    /\ request.message_type = "CAPI_SERIAL"
    /\ Send(c, AnswerHead(c, request, "NONE", "0x0000"))
    /\ UNCHANGED <<registered_apps, waiters, driverVars>>

exec_capi_manufacturer(c, request) ==
    /\ request.message_type = "CAPI_MANUFACTURER"
    /\ Send(c, AnswerHead(c, request, "NONE", "0x0000"))
    /\ UNCHANGED <<registered_apps, waiters, driverVars>>

-----------------------------------------------------------------------------
(* The handler's loop in main(). *)

exec_proxy(c, request) ==
    \/ exec_proxy_helo(c, request)
    \/ exec_proxy_auth(c, request)

exec_capi(c, request) ==
    \/ exec_capi_register(c, request)
    \/ exec_capi_release(c, request)
    \/ exec_capi_isinstalled(c, request)
    \/ exec_capi_version(c, request)
    \/ exec_capi_serial(c, request)
    \/ exec_capi_manufacturer(c, request)
    \/ exec_capi_profile(c, request)
    \/ exec_capi_waitforsignal(c, request)
    \/ exec_capi_getmessage(c, request)
    \/ exec_capi_putmessage(c, request)

(* Mutant: the session is not checked. *)
SessionMatches_Any(c, request) == TRUE

(* The check every CAPI request passes before its function is called. *)
SessionMatches(c, request) == request.session_id = sess[c]

(* A keepalive, and a CAPI request of another session, get no answer. *)
Ignore(c, request) ==
    /\ \/ request.message_type = "PROXY_KEEPALIVE"
       \/ request.message_type \in CapiTypes /\ ~ SessionMatches(c, request)
    /\ UNCHANGED <<handler, registered_apps, out_packet, waiters, conn, answers,
                   driverVars>>

(* Mutant: release_all() is not called. *)
BeginRelease_Skipped(c) ==
    /\ handler' = [handler EXCEPT ![c] = "exited"]
    /\ UNCHANGED <<registered_apps, out_packet, waiters, conn, answers, driverVars>>

(* close(sock), then release_all() *)
BeginRelease(c) ==
    /\ handler' = [handler EXCEPT ![c] = "releasing"]
    /\ UNCHANGED <<registered_apps, out_packet, waiters, conn, answers, driverVars>>

(* recvn() of a remainder of no bytes returns 0, as at a disconnect. *)
HandleRequest(c) ==
    /\ handler[c] = "serving"
    /\ taken[c] < Len(asked[c])
    /\ taken' = [taken EXCEPT ![c] = @ + 1]
    /\ LET request == asked[c][taken[c] + 1]
       IN  \/ ~ request.remainder /\ BeginRelease(c)
           \/ /\ request.remainder
              /\ \/ exec_proxy(c, request)
                 \/ SessionMatches(c, request) /\ exec_capi(c, request)
                 \/ Ignore(c, request)
    /\ UNCHANGED <<listenerVars, sess, asked>>

(* recvn() of the next header finds the connection closed. *)
ReceiveFails(c) ==
    /\ handler[c] = "serving"
    /\ taken[c] = Len(asked[c])
    /\ conn[c] \in Gone
    /\ BeginRelease(c)
    /\ UNCHANGED <<listenerVars, sess, asked, taken>>

(* One round of release_all's loop: getfirst_app clears the lowest entry   *)
(* and the application is released, whatever the CAPI says.                *)
release_all(c) ==
    /\ handler[c] = "releasing"
    /\ \E app \in SetEntries(registered_apps[c]) :
          /\ \A other \in SetEntries(registered_apps[c]) : app <= other
          /\ registered_apps' = [registered_apps EXCEPT ![c] = del_app(app, @)]
          /\ IF Owns(c, app) THEN capi20_release(app) ELSE UNCHANGED driverVars
    /\ UNCHANGED <<handler, sess, out_packet, waiters, listenerVars, connVars>>

(* getfirst_app returns 0: exit(0). *)
HandlerExits(c) ==
    /\ handler[c] = "releasing"
    /\ SetEntries(registered_apps[c]) = {}
    /\ handler' = [handler EXCEPT ![c] = "exited"]
    /\ UNCHANGED <<sess, registered_apps, out_packet, waiters, listenerVars,
                   connVars, driverVars>>

(* SIGINT or SIGTERM at a handler: exit without release_all(). *)
sigchild(c) ==
    /\ handler[c] \in {"serving", "releasing"}
    /\ handler' = [handler EXCEPT ![c] = "sigterm"]
    /\ UNCHANGED <<sess, registered_apps, out_packet, waiters, listenerVars,
                   connVars, driverVars>>

-----------------------------------------------------------------------------
(* The child of exec_capi_waitforsignal: it works on its own copy of the   *)
(* application and message id, sends on the shared socket and exits.       *)

(* Mutant: the id is read from the handler's in_packet when the call       *)
(* returns, by which time it holds a later request.                        *)
WaiterHead_Late(w, capi_error) ==
    [message_id   |-> taken[w.conn],
     message_type |-> "CAPI_WAITFORSIGNAL",
     app_id       |-> w.app_id,
     session_id   |-> sess[w.conn],
     proxy_error  |-> "NONE",
     capi_error   |-> capi_error,
     data_len     |-> 0]

WaiterHead(w, capi_error) ==
    [message_id   |-> w.message_id,
     message_type |-> "CAPI_WAITFORSIGNAL",
     app_id       |-> w.app_id,
     session_id   |-> sess[w.conn],
     proxy_error  |-> "NONE",
     capi_error   |-> capi_error,
     data_len     |-> 0]

WaiterSends(w, capi_error) ==
    /\ waiters' = waiters \ {w}
    /\ \/ /\ conn[w.conn] = "open"
          /\ answers' = [answers EXCEPT ![w.conn] = Append(@, WaiterHead(w, capi_error))]
          /\ UNCHANGED conn
       \/ /\ conn[w.conn] \in Gone
          /\ conn' \in {conn, [conn EXCEPT ![w.conn] = "reset"]}
          /\ UNCHANGED answers
    /\ UNCHANGED <<handler, sess, registered_apps, out_packet, asked, taken,
                   listenerVars, driverVars>>

(* capi20_waitformessage returns because a message is there ... *)
WaiterWakes(c) ==
    \E w \in waiters :
        /\ w.conn = c
        /\ Owns(c, w.app_id)
        /\ inbox[w.app_id] # <<>>
        /\ WaiterSends(w, "0x0000")

(* ... or may return because the application is not (or no longer) there;  *)
(* SIGTERM ends a waiting child too.                                       *)
WaiterFails(c) ==
    \E w \in waiters :
        /\ w.conn = c
        /\ ~ Owns(c, w.app_id)
        /\ WaiterSends(w, "0x1101")

WaiterKilled(c) ==
    \E w \in waiters :
        /\ w.conn = c
        /\ waiters' = waiters \ {w}
        /\ UNCHANGED <<handler, sess, registered_apps, out_packet, listenerVars,
                       connVars, driverVars>>

-----------------------------------------------------------------------------
Next ==
    \/ sigparent
    \/ \E c \in Conns :
          \/ Connect(c) \/ SendRequest(c) \/ Disconnect(c)
          \/ accept(c) \/ accept_fork_fails(c) \/ accept_fails(c)
          \/ HandleRequest(c) \/ ReceiveFails(c)
          \/ release_all(c) \/ HandlerExits(c) \/ sigchild(c)
          \/ WaiterWakes(c) \/ WaiterFails(c) \/ WaiterKilled(c)
    \/ \E app \in AppIds : CapiIndication(app) \/ Reap(app)

Spec == Init /\ [][Next]_vars

(* A process that can run does: the listener accepts, a handler reads on,  *)
(* releases and exits, a child whose message is there wakes up.  Clients,  *)
(* signals, failures and the driver promise nothing.                       *)
Fairness ==
    \A c \in Conns :
        /\ WF_vars(accept(c))
        /\ WF_vars(HandleRequest(c))
        /\ WF_vars(ReceiveFails(c))
        /\ WF_vars(release_all(c))
        /\ WF_vars(HandlerExits(c))
        /\ WF_vars(WaiterWakes(c))

FairSpec == Spec /\ Fairness

-----------------------------------------------------------------------------
(* Properties. *)

(* Every process the listener has forked has a session id of its own, no   *)
(* larger than the listener's counter, so the id a client learns from HELO *)
(* names exactly one handler.                                              *)
Accepted(c) == handler[c] \notin {"none", "refused"}

SessionsDistinct ==
    /\ \A c \in Conns : Accepted(c) => sess[c] \in 3 .. sessionID
    /\ \A c, d \in Conns : Accepted(c) /\ Accepted(d) /\ sess[c] = sess[d] => c = d

(* A running handler's registered_apps lists exactly the applications the  *)
(* CAPI holds for it, through registrations, releases and release_all;     *)
(* hence a handler that read the end of its connection exits only when the *)
(* CAPI holds nothing for it any more, and only a handler that a signal    *)
(* ended leaves applications behind.                                       *)
AppsAccounted ==
    /\ \A c \in Conns : handler[c] \in {"serving", "releasing"} =>
          registered_apps[c] = {app \in AppIds : owner[app] = c}
    /\ \A app \in AppIds : owner[app] # None =>
          handler[owner[app]] \in {"serving", "releasing", "sigpipe", "sigterm"}

(* An answer on a connection belongs to a request the handler read from    *)
(* the same connection: same id and type, the same application where the   *)
(* request names one, and for a CAPI call both carry the handler's own     *)
(* session.  Answers of waiting children, sent at any later time, included.*)
AnswersRouted ==
    \A c \in Conns : \A i \in 1 .. Len(answers[c]) :
        LET answer  == answers[c][i]
            request == asked[c][answer.message_id]
        IN  /\ answer.message_id \in 1 .. taken[c]
            /\ taken[c] <= Len(asked[c])
            /\ answer.message_type = request.message_type
            /\ answer.message_type \in AppTypes => answer.app_id = request.app_id
            /\ answer.message_type \in CapiTypes =>
                  request.session_id = sess[c] /\ answer.session_id = sess[c]

(* No request is answered twice, and none that is answered still has a     *)
(* child waiting to answer it: the client may reuse the entry it keyed by  *)
(* the message id as soon as one answer has come.                          *)
AnsweredOnce ==
    /\ \A c \in Conns : \A i, j \in 1 .. Len(answers[c]) :
          answers[c][i].message_id = answers[c][j].message_id => i = j
    /\ \A w \in waiters : \A i \in 1 .. Len(answers[w.conn]) :
          answers[w.conn][i].message_id # w.message_id

(* An application is taken from a handler that serves a connection only by *)
(* a RELEASE request read from that connection with that session's id:     *)
(* no other session, no failed call and no waiting child can take it.      *)
TakenOnlyByOwner ==
    [][\A app \in AppIds, c \in Conns :
          (owner[app] = c /\ owner'[app] # c /\ handler[c] = "serving") =>
              /\ taken'[c] = taken[c] + 1
              /\ LET request == asked[c][taken'[c]]
                 IN  /\ request.message_type = "CAPI_RELEASE"
                     /\ request.app_id = app
                     /\ request.session_id = sess[c]]_vars

(* capifwd keeps the promises of AppRegistry: its handlers are the         *)
(* sessions, the CAPI's ownership of numbers is who holds them.            *)
Phase(state) ==
    CASE state = "serving"                -> "live"
      [] state = "releasing"              -> "ending"
      [] state = "exited"                 -> "gone"
      [] state \in {"sigpipe", "sigterm"} -> "lost"
      [] OTHER                            -> "idle"

Registry == INSTANCE AppRegistry WITH
    Sessions <- Conns, Apps <- AppIds,
    phase <- [c \in Conns |-> Phase(handler[c])], holder <- owner

(* Every step of the server is a step of AppRegistry or leaves its state   *)
(* alone.                                                                  *)
RegistrySpec == Registry!Spec

(* When a client goes, its handler gives back every application, unless a  *)
(* signal ends it first.                                                   *)
DisconnectReleases ==
    \A c \in Conns :
        (conn[c] \in Gone /\ handler[c] = "serving") ~>
            \/ handler[c] \in {"sigpipe", "sigterm"}
            \/ handler[c] = "exited" /\ \A app \in AppIds : owner[app] # c

(* A request with a body and the right session is answered, or a child is  *)
(* left waiting to answer it, unless the connection or the handler ends.   *)
RequestsServed ==
    \A c \in Conns, id \in 1 .. MaxReq :
        (/\ handler[c] = "serving"
         /\ id \in taken[c] + 1 .. Len(asked[c])
         /\ asked[c][id].remainder
         /\ \/ asked[c][id].message_type \in {"PROXY_HELO", "PROXY_AUTH"}
            \/ /\ asked[c][id].message_type \in CapiTypes
               /\ asked[c][id].session_id = sess[c])
        ~>
        \/ handler[c] # "serving" \/ conn[c] \in Gone
        \/ \E i \in 1 .. Len(answers[c]) : answers[c][i].message_id = id
        \/ \E w \in waiters : w.conn = c /\ w.message_id = id
=============================================================================
