---------------------------- MODULE Capi20Server ----------------------------
(***************************************************************************)
(* capi20server, the Win32 server (win32-server/capi20server.cpp): one     *)
(* process in which the service thread accepts connections and starts one  *)
(* session thread per connection, a WAITFORSIGNAL request starts a waiter  *)
(* thread, and the control handler pauses and stops the service.  All      *)
(* threads share the table sockets[] and, being one process, the CAPI's    *)
(* application numbers.                                                    *)
(*                                                                         *)
(* The session thread started for connection c is thread[c]; the socket it *)
(* serves is the one it finds in sockets[] when it runs.                   *)
(***************************************************************************)
EXTENDS CapiProtocol, FiniteSets

CONSTANTS
    Conns,          \* connections, in the order the clients make them
    INVALID_SOCKET,
    MAX_SESSIONS,   \* _MAX_SESSIONS, the size of sockets[]
    ReqTypes,       \* the request types the clients of this instance use
    PutShapes,      \* the CAPI messages clients put
    OldIds,         \* session ids clients were told on earlier connections
    MaxReq,         \* bound: requests per connection
    MaxTotal,       \* bound: requests on all connections together
    MaxPipeline,    \* bound: requests sent and not yet read, per connection
    Controls,       \* the control codes sent to the service
    Coalesce,       \* whether one recv() may return several requests
    AuthRequired,   \* AUTH_REQUIRED, from the registry
    AuthTypesOn     \* AUTH_TYPES, from the registry

ASSUME Capi20ServerAssumption ==
    /\ INVALID_SOCKET \notin Conns
    /\ MAX_SESSIONS \in Nat \ {0}
    /\ ReqTypes \subseteq ProxyTypes \cup CapiTypes
    /\ PutShapes \subseteq CapiMsgs
    /\ OldIds \subseteq Nat
    /\ MaxReq \in Nat /\ MaxTotal \in Nat /\ MaxPipeline \in Nat
    /\ Controls \subseteq {"PAUSE", "STOP"}
    /\ Coalesce \in BOOLEAN /\ AuthRequired \in BOOLEAN
    /\ AuthTypesOn \subseteq {"AUTH_BY_IP", "AUTH_USERPASS"}

Slots == 0 .. MAX_SESSIONS - 1

VARIABLES
    run, pause,         \* the flags the control handler sets
    listener,           \* where the service thread is in its loop
    stopping,           \* where ServiceExit is
    sockets,            \* the connection of each session slot
    thread,             \* the session threads
    registered_apps,    \* their lists of applications
    waiters,            \* threads blocked in CAPI_WAIT_FOR_SIGNAL
    conn, asked, taken, answers,
    shut,               \* connections the server has shut down or closed
    apps                \* applications the CAPI has registered

serviceVars == <<run, pause, listener, stopping>>
connVars    == <<conn, asked, taken, answers>>
vars == <<serviceVars, sockets, thread, registered_apps, waiters, connVars, shut, apps>>

ThreadStates == {"none", "start", "loop", "recv", "leaving", "releasing"}

(* PROXY_SHUTDOWN is sent by the server alone. *)
ServerAnswers ==
    [message_id : Nat, message_type : ProxyTypes \cup CapiTypes \cup {"PROXY_SHUTDOWN"},
     session_id : Nat, proxy_error : ProxyErrors]

ServerRequests ==
    [message_id : Nat, message_type : ProxyTypes \cup CapiTypes,
     app_id : AppIds \cup {0}, session_id : Nat, sizes : BOOLEAN,
     auth_type : AuthTypes, msg : CapiMsgs]

TypeOK ==
    /\ run \in BOOLEAN /\ pause \in BOOLEAN
    /\ listener \in {"top", "accepting", "ended"}
    /\ stopping \in {"no", "stopped", "shut", "closed"}
    /\ sockets \in [Slots -> Conns \cup {INVALID_SOCKET}]
    /\ thread \in [Conns -> [pc : ThreadStates, sess : Slots,
                             socket : Conns \cup {INVALID_SOCKET}]]
    /\ registered_apps \in [Conns -> SUBSET AppIds]
    /\ waiters \subseteq [socket : Conns, ApplID : AppIds \cup {0},
                          message_id : Nat, session_id : Nat]
    /\ conn \in [Conns -> {"none", "open", "accepted", "closed"}]
    /\ asked \in [Conns -> Seq(ServerRequests)]
    /\ taken \in [Conns -> Nat]
    /\ answers \in [Conns -> Seq(ServerAnswers)]
    /\ shut \subseteq Conns
    /\ apps \subseteq AppIds

(* main() and ServiceStart() up to the loop. *)
Init ==
    /\ run = TRUE /\ pause = FALSE
    /\ listener = "top" /\ stopping = "no"
    /\ sockets = [s \in Slots |-> INVALID_SOCKET]
    /\ thread = [c \in Conns |-> [pc |-> "none", sess |-> 0, socket |-> INVALID_SOCKET]]
    /\ registered_apps = [c \in Conns |-> {}]
    /\ waiters = {}
    /\ conn = [c \in Conns |-> "none"]
    /\ asked = [c \in Conns |-> <<>>]
    /\ taken = [c \in Conns |-> 0]
    /\ answers = [c \in Conns |-> <<>>]
    /\ shut = {}
    /\ apps = {}

(* client.session, after ServiceInitialization has added 0x10000. *)
SessionOf(sess) == 65536 + sess

-----------------------------------------------------------------------------
(* The clients.  HELO carries no session id; a CAPI call is made with an   *)
(* id an answer has told, on this connection, on another one or on one of  *)
(* an earlier run of the server, where the ids were the same slots.        *)

KnownSessions ==
    {0} \cup OldIds \cup
        {answers[p[1]][p[2]].session_id :
             p \in {q \in Conns \X (1 .. MaxReq) : q[2] <= Len(answers[q[1]])}}

ClientRequests(id) ==
    {r \in [message_id   : {id},
            message_type : ReqTypes,
            app_id       : AppIds \cup {0},
            session_id   : KnownSessions,
            sizes        : BOOLEAN,
            auth_type    : AuthTypes,
            msg          : PutShapes \cup {NoMsg}] :
        /\ (r.app_id # 0) <=> (r.message_type \in AppTypes)
        /\ r.sizes \/ r.message_type = "PROXY_HELO"
        /\ r.auth_type = "AUTH_NO_AUTH" \/ r.message_type = "PROXY_AUTH"
        /\ (r.msg \in PutShapes) <=> (r.message_type = "CAPI_PUTMESSAGE")
        /\ r.message_type = "PROXY_HELO" => r.session_id = 0
        /\ r.message_type \in CapiTypes => r.session_id # 0}

Connect(c) ==
    /\ conn[c] = "none" /\ listener # "ended"
    /\ conn' = [conn EXCEPT ![c] = "open"]
    /\ UNCHANGED <<serviceVars, sockets, thread, registered_apps, waiters, asked,
                   taken, answers, shut, apps>>

SendRequest(c) ==
    /\ conn[c] \in {"open", "accepted"}
    /\ Len(asked[c]) < MaxReq
    /\ Cardinality({p \in Conns \X (1 .. MaxReq) : p[2] <= Len(asked[p[1]])}) < MaxTotal
    /\ Len(asked[c]) - taken[c] < MaxPipeline
    /\ \E request \in ClientRequests(Len(asked[c]) + 1) :
          asked' = [asked EXCEPT ![c] = Append(@, request)]
    /\ UNCHANGED <<serviceVars, sockets, thread, registered_apps, waiters, conn,
                   taken, answers, shut, apps>>

Disconnect(c) ==
    /\ conn[c] = "accepted"
    /\ conn' = [conn EXCEPT ![c] = "closed"]
    /\ UNCHANGED <<serviceVars, sockets, thread, registered_apps, waiters, asked,
                   taken, answers, shut, apps>>

-----------------------------------------------------------------------------
(* The service thread. *)

ServiceLoopTop ==
    /\ listener = "top"
    /\ listener' = IF ~ run THEN "ended" ELSE IF pause THEN "top" ELSE "accepting"
    /\ UNCHANGED <<run, pause, stopping, sockets, thread, registered_apps, waiters,
                   connVars, shut, apps>>

(* select() finds no connection to accept, or accept() fails; a select()   *)
(* that fails ends the service thread.                                     *)
NothingToAccept ==
    /\ listener = "accepting"
    /\ listener' \in {"top", "ended"}
    /\ UNCHANGED <<run, pause, stopping, sockets, thread, registered_apps, waiters,
                   connVars, shut, apps>>

FreeSlots == {s \in Slots : sockets[s] = INVALID_SOCKET}

(* Mutant: the search starts over at slot 0 when only one slot is left. *)
allocSession_Early(c, sess) ==
    \/ /\ Cardinality(FreeSlots) > 1
       /\ sess \in FreeSlots /\ \A other \in FreeSlots : sess <= other
       /\ sockets' = [sockets EXCEPT ![sess] = c]
    \/ /\ Cardinality(FreeSlots) <= 1
       /\ sess = 0
       /\ UNCHANGED sockets

(* The first free slot takes the connection.  When there is none the       *)
(* function returns 0, which is slot 0, where its caller expects -1.       *)
allocSession(c, sess) ==
    \/ /\ sess \in FreeSlots /\ \A other \in FreeSlots : sess <= other
       /\ sockets' = [sockets EXCEPT ![sess] = c]
    \/ /\ FreeSlots = {}
       /\ sess = 0
       /\ UNCHANGED sockets

accept(c) ==
    /\ listener = "accepting"
    /\ listener' = "top"
    /\ conn[c] = "open"
    /\ conn' = [conn EXCEPT ![c] = "accepted"]
    /\ \E sess \in Slots :
          /\ allocSession(c, sess)
          /\ \/ thread' = [thread EXCEPT ![c].pc = "start", ![c].sess = sess]
             \/ UNCHANGED thread        \* CreateThread failed
    /\ UNCHANGED <<run, pause, stopping, registered_apps, waiters, asked, taken,
                   answers, shut, apps>>

-----------------------------------------------------------------------------
(* The control handler. *)

SERVICE_CONTROL_PAUSE ==
    /\ "PAUSE" \in Controls
    /\ stopping = "no" /\ ~ pause
    /\ pause' = TRUE
    /\ UNCHANGED <<run, listener, stopping, sockets, thread, registered_apps,
                   waiters, connVars, shut, apps>>

SERVICE_CONTROL_CONTINUE ==
    /\ stopping = "no" /\ pause
    /\ pause' = FALSE
    /\ UNCHANGED <<run, listener, stopping, sockets, thread, registered_apps,
                   waiters, connVars, shut, apps>>

SERVICE_CONTROL_STOP ==
    /\ "STOP" \in Controls
    /\ stopping = "no"
    /\ stopping' = "stopped"
    /\ run' = FALSE /\ pause' = FALSE
    /\ UNCHANGED <<listener, sockets, thread, registered_apps, waiters, connVars,
                   shut, apps>>

(* Mutant: the sessions' sockets are not shut down. *)
ServiceExit_NoShutdown ==
    \/ /\ stopping = "stopped"
       /\ stopping' = "shut"
       /\ UNCHANGED <<listener, shut>>
    \/ /\ stopping = "shut"
       /\ stopping' = "closed"
       /\ UNCHANGED <<listener, shut>>

(* ServiceExit shuts the sessions' sockets down, waits for RunningThread   *)
(* and closes the sockets.  A console process waits five seconds for the   *)
(* service thread and then terminates it; in a service RunningThread was   *)
(* never set, the wait fails at once and the thread goes on.               *)
ServiceExit ==
    \/ /\ stopping = "stopped"
       /\ stopping' = "shut"
       /\ shut' = shut \cup {sockets[s] : s \in Slots \ FreeSlots}
       /\ UNCHANGED listener
    \/ /\ stopping = "shut"
       /\ stopping' = "closed"
       /\ shut' = shut \cup {sockets[s] : s \in Slots \ FreeSlots}
       /\ listener' \in {listener, "ended"}

StopService ==
    /\ ServiceExit
    /\ UNCHANGED <<run, pause, sockets, thread, registered_apps, waiters,
                   connVars, apps>>

-----------------------------------------------------------------------------
(* Answers: a send() that fails is logged and otherwise ignored. *)

Reply(socket, answer) ==
    answers' = IF conn[socket] = "accepted"
               THEN [answers EXCEPT ![socket] = Append(@, answer)] ELSE answers

Answer(request, sess, proxy_error) ==
    [message_id |-> request.message_id, message_type |-> request.message_type,
     session_id |-> SessionOf(sess), proxy_error |-> proxy_error]

(* A session whose version is too old is not told its number. *)
exec_proxy_helo(c, request) ==
    /\ request.message_type = "PROXY_HELO"
    /\ \E answer \in {Answer(request, thread[c].sess, "NONE"),
                      [Answer(request, thread[c].sess, "INCOMPATIBLE_VERSION")
                           EXCEPT !.session_id = 0]} :
          Reply(thread[c].socket, answer)
    /\ UNCHANGED <<registered_apps, waiters, apps>>

(* try_auth_byip and try_auth_userpass look into the registry, which the   *)
(* model does not have.                                                    *)
AuthVerdicts(auth_type) ==
    IF auth_type = "AUTH_NO_AUTH"
    THEN {IF AuthRequired THEN "ACCESS_DENIED" ELSE "NONE"}
    ELSE IF auth_type \in AuthTypesOn THEN {"NONE", "ACCESS_DENIED"}
         ELSE {"AUTH_TYPE_NOT_SUPPORTED"}

(* A user name or password of more than 255 bytes gets no answer. *)
exec_proxy_auth(c, request) ==
    /\ request.message_type = "PROXY_AUTH"
    /\ \/ \E verdict \in AuthVerdicts(request.auth_type) :
             Reply(thread[c].socket, Answer(request, thread[c].sess, verdict))
       \/ /\ request.auth_type = "AUTH_USERPASS" /\ request.auth_type \in AuthTypesOn
          /\ UNCHANGED answers
    /\ UNCHANGED <<registered_apps, waiters, apps>>

exec_proxy_keepalive(c, request) ==
    /\ request.message_type = "PROXY_KEEPALIVE"
    /\ UNCHANGED <<registered_apps, waiters, apps, answers>>

(* Mutant: the application is not entered in the session's list. *)
exec_capi_register_Unlisted(c, request) ==
    /\ request.message_type = "CAPI_REGISTER"
    /\ \E app \in AppIds \ apps : apps' = apps \cup {app}
    /\ Reply(thread[c].socket, Answer(request, thread[c].sess, "NONE"))
    /\ UNCHANGED <<waiters, registered_apps>>

(* Mutant: the number in the request is entered, not the one assigned. *)
exec_capi_register_Request(c, request) ==
    /\ request.message_type = "CAPI_REGISTER"
    /\ \E app \in AppIds \ apps : apps' = apps \cup {app}
    /\ registered_apps' = [registered_apps EXCEPT ![c] = @ \cup {request.app_id}]
    /\ Reply(thread[c].socket, Answer(request, thread[c].sess, "NONE"))
    /\ UNCHANGED waiters

exec_capi_register(c, request) ==
    /\ request.message_type = "CAPI_REGISTER"
    /\ \/ \E app \in AppIds \ apps :
             /\ apps' = apps \cup {app}
             /\ registered_apps' = [registered_apps EXCEPT ![c] = @ \cup {app}]
       \/ UNCHANGED <<apps, registered_apps>>
    /\ Reply(thread[c].socket, Answer(request, thread[c].sess, "NONE"))
    /\ UNCHANGED waiters

(* The CAPI knows the process, not the session: any registered application *)
(* is released, and only the list of the session that asked is changed.    *)
exec_capi_release(c, request) ==
    /\ request.message_type = "CAPI_RELEASE"
    /\ \/ /\ request.app_id \in apps
          /\ apps' = apps \ {request.app_id}
          /\ registered_apps' = [registered_apps EXCEPT ![c] = @ \ {request.app_id}]
       \/ request.app_id \notin apps /\ UNCHANGED <<apps, registered_apps>>
    /\ Reply(thread[c].socket, Answer(request, thread[c].sess, "NONE"))
    /\ UNCHANGED waiters

PutParses(m) ==
    /\ m.data_len >= 8
    /\ m.data_len >= m.len1
    /\ m.b3 => m.len1 >= 18 /\ m.len1 + m.len2 <= m.data_len

exec_capi_putmessage(c, request) ==
    /\ request.message_type = "CAPI_PUTMESSAGE"
    /\ Reply(thread[c].socket,
             Answer(request, thread[c].sess,
                    IF PutParses(request.msg) THEN "NONE" ELSE "PARSE_ERROR"))
    /\ UNCHANGED <<registered_apps, waiters, apps>>

(* A DATA_B3 indication that is too short is a parse error. *)
exec_capi_getmessage(c, request) ==
    /\ request.message_type = "CAPI_GETMESSAGE"
    /\ \E proxy_error \in {"NONE"} \cup
             (IF request.app_id \in apps THEN {"PARSE_ERROR"} ELSE {}) :
          Reply(thread[c].socket, Answer(request, thread[c].sess, proxy_error))
    /\ UNCHANGED <<registered_apps, waiters, apps>>

(* Mutant: the session thread answers too when it has started the waiter. *)
exec_capi_waitforsignal_Twice(c, request) ==
    /\ request.message_type = "CAPI_WAITFORSIGNAL"
    /\ waiters' = waiters \cup {[socket     |-> thread[c].socket,
                                 ApplID     |-> request.app_id,
                                 message_id |-> request.message_id,
                                 session_id |-> SessionOf(thread[c].sess)]}
    /\ Reply(thread[c].socket, Answer(request, thread[c].sess, "NO_RESSOURCES"))
    /\ UNCHANGED <<registered_apps, apps>>

(* A waiter is started, or CreateThread fails. *)
exec_capi_waitforsignal(c, request) ==
    /\ request.message_type = "CAPI_WAITFORSIGNAL"
    /\ \/ /\ waiters' = waiters \cup {[socket     |-> thread[c].socket,
                                       ApplID     |-> request.app_id,
                                       message_id |-> request.message_id,
                                       session_id |-> SessionOf(thread[c].sess)]}
          /\ UNCHANGED answers
       \/ /\ Reply(thread[c].socket, Answer(request, thread[c].sess, "NO_RESSOURCES"))
          /\ UNCHANGED waiters
    /\ UNCHANGED <<registered_apps, apps>>

(* manufacturer, version, serial, profile and installed *)
exec_capi_info(c, request) ==
    /\ request.message_type \in InfoTypes
    /\ Reply(thread[c].socket, Answer(request, thread[c].sess, "NONE"))
    /\ UNCHANGED <<registered_apps, waiters, apps>>

(* The waiter's CAPI call returns, whether with a message or because the   *)
(* application is gone; it answers on the socket it was given.             *)
waiter ==
    /\ \E w \in waiters :
          /\ waiters' = waiters \ {w}
          /\ Reply(w.socket, [message_id   |-> w.message_id,
                              message_type |-> "CAPI_WAITFORSIGNAL",
                              session_id   |-> w.session_id,
                              proxy_error  |-> "NONE"])
    /\ UNCHANGED <<serviceVars, sockets, thread, registered_apps, conn, asked,
                   taken, shut, apps>>

-----------------------------------------------------------------------------
(* StartSession. *)

StartSession(c) ==
    /\ thread[c].pc = "start"
    /\ thread' = [thread EXCEPT ![c].pc = "loop", ![c].socket = sockets[thread[c].sess]]
    /\ UNCHANGED <<serviceVars, sockets, registered_apps, waiters, connVars, shut, apps>>

SessionLoopTop(c) ==
    /\ thread[c].pc = "loop"
    /\ thread' = [thread EXCEPT ![c].pc =
          IF ~ run THEN "leaving" ELSE IF pause THEN "loop" ELSE "recv"]
    /\ UNCHANGED <<serviceVars, sockets, registered_apps, waiters, connVars, shut, apps>>

verifySessionId(c, request) == request.session_id = SessionOf(thread[c].sess)

NeedsSession(request) == request.message_type # "PROXY_HELO"

Dispatch(c, request) ==
    \/ exec_proxy_helo(c, request)
    \/ /\ NeedsSession(request) /\ verifySessionId(c, request)
       /\ \/ exec_capi_register(c, request) \/ exec_capi_release(c, request)
          \/ exec_capi_putmessage(c, request) \/ exec_capi_getmessage(c, request)
          \/ exec_capi_waitforsignal(c, request) \/ exec_capi_info(c, request)
          \/ exec_proxy_keepalive(c, request) \/ exec_proxy_auth(c, request)

(* recv() returns what has arrived; whatever follows the first request in  *)
(* it is overlooked.  Requests that fail verifyRequest or verifySessionId  *)
(* get no answer.                                                          *)
ReceiveRequest(c) ==
    LET socket  == thread[c].socket
        request == asked[socket][taken[socket] + 1]
    IN  /\ thread[c].pc = "recv"
        /\ socket \notin shut
        /\ taken[socket] < Len(asked[socket])
        /\ \E k \in (IF Coalesce THEN taken[socket] + 1 .. Len(asked[socket])
                                 ELSE {taken[socket] + 1}) :
              taken' = [taken EXCEPT ![socket] = k]
        /\ \/ request.sizes /\ Dispatch(c, request)
           \/ /\ \/ ~ request.sizes
                 \/ NeedsSession(request) /\ ~ verifySessionId(c, request)
              /\ UNCHANGED <<registered_apps, waiters, apps, answers>>
        /\ thread' = [thread EXCEPT ![c].pc = "loop"]
        /\ UNCHANGED <<serviceVars, sockets, conn, asked, shut>>

SessionStep(c) == StartSession(c) \/ SessionLoopTop(c) \/ ReceiveRequest(c)

(* recv() returns 0 or an error. *)
ReceiveEnds(c) ==
    /\ thread[c].pc = "recv"
    /\ \/ thread[c].socket \in shut
       \/ /\ conn[thread[c].socket] = "closed"
          /\ taken[thread[c].socket] = Len(asked[thread[c].socket])
    /\ thread' = [thread EXCEPT ![c].pc = "leaving"]
    /\ UNCHANGED <<serviceVars, sockets, registered_apps, waiters, connVars, shut, apps>>

exec_proxy_shutdown(c) ==
    /\ thread[c].pc = "leaving"
    /\ thread' = [thread EXCEPT ![c].pc = "releasing"]
    /\ Reply(thread[c].socket, [message_id |-> 0, message_type |-> "PROXY_SHUTDOWN",
                                session_id |-> SessionOf(thread[c].sess),
                                proxy_error |-> "NONE"])
    /\ UNCHANGED <<serviceVars, sockets, registered_apps, waiters, conn, asked,
                   taken, shut, apps>>

(* getfirst_app() looks at entry 1 only: its loop never increments i.  If  *)
(* the entry is set it is cleared and the application released; if not     *)
(* the loop never ends, so the thread takes no further step, and           *)
(* closesocket() and freeSession() after it are never reached.             *)
getfirst_app(c) ==
    /\ thread[c].pc = "releasing"
    /\ 1 \in registered_apps[c]
    /\ registered_apps' = [registered_apps EXCEPT ![c] = @ \ {1}]
    /\ apps' = apps \ {1}
    /\ UNCHANGED <<serviceVars, sockets, thread, waiters, connVars, shut>>

-----------------------------------------------------------------------------
Next ==
    \/ ServiceLoopTop \/ NothingToAccept
    \/ SERVICE_CONTROL_PAUSE \/ SERVICE_CONTROL_CONTINUE \/ SERVICE_CONTROL_STOP
    \/ StopService
    \/ waiter
    \/ \E c \in Conns :
          \/ Connect(c) \/ SendRequest(c) \/ Disconnect(c)
          \/ accept(c)
          \/ SessionStep(c) \/ ReceiveEnds(c)
          \/ exec_proxy_shutdown(c) \/ getfirst_app(c)

Spec == Init /\ [][Next]_vars

(* Threads run: the service thread, ServiceExit and the session threads.   *)
Fairness ==
    /\ WF_vars(ServiceLoopTop) /\ WF_vars(NothingToAccept) /\ WF_vars(StopService)
    /\ \A c \in Conns :
          /\ WF_vars(SessionStep(c)) /\ WF_vars(ReceiveEnds(c))
          /\ WF_vars(exec_proxy_shutdown(c)) /\ WF_vars(getfirst_app(c))

FairSpec == Spec /\ Fairness

-----------------------------------------------------------------------------
(* Properties. *)

Serving(c) == thread[c].pc \in {"start", "loop", "recv"}

(* Every application the CAPI has registered is listed by a session        *)
(* thread, so that some session's end could still give it back, although   *)
(* any session may release, and others register again, what one lists.     *)
Accounted ==
    apps \subseteq UNION {registered_apps[c] : c \in Conns}

(* Two session threads work on one slot, and so read requests from one     *)
(* socket, only when the table was full: the slot is 0 and no slot is free.*)
SlotsShared ==
    \A c, d \in Conns :
        (thread[c].pc # "none" /\ thread[d].pc # "none" /\ c # d
            /\ thread[c].sess = thread[d].sess) =>
        thread[c].sess = 0 /\ FreeSlots = {}

(* No request is answered twice, by whatever mix of session threads that   *)
(* share a socket and waiter threads, and every answer but a shutdown      *)
(* notice has the id of a request read from the connection it goes to.     *)
AnsweredOnce ==
    \A c \in Conns :
        /\ \A i, j \in 1 .. Len(answers[c]) :
              (/\ answers[c][i].message_id = answers[c][j].message_id
               /\ answers[c][i].message_type # "PROXY_SHUTDOWN") => i = j
        /\ \A i \in 1 .. Len(answers[c]) :
              answers[c][i].message_type = "PROXY_SHUTDOWN" \/
              answers[c][i].message_id \in 1 .. taken[c]
        /\ \A w \in waiters : w.socket = c =>
              \A i \in 1 .. Len(answers[c]) : answers[c][i].message_id # w.message_id

(* Once the service is told to stop, every session thread leaves its loop: *)
(* those blocked in recv() because their socket is shut down, those that   *)
(* were just started or paused because they see run cleared.               *)
StopEndsSessions ==
    \A c \in Conns : (stopping # "no") ~> ~ Serving(c)

(* "now we release all registered Apps" (the comment in StartSession), and *)
(* the log: "doing automatic CAPI_RELEASE for each registered application  *)
(* when connection to client breaks".                                      *)
AutoRelease ==
    \A c \in Conns : (thread[c].pc = "leaving") ~> (registered_apps[c] = {})
=============================================================================
