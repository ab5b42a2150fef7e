------------------------- MODULE Capi20ServerProofs -------------------------
(***************************************************************************)
(* Theorems about the Win32 server, for any number of connections, session *)
(* slots, applications and requests.                                       *)
(***************************************************************************)
EXTENDS Capi20Server, TLAPS

WaiterThreads == [socket : Conns, ApplID : AppIds \cup {0},
                  message_id : Nat, session_id : Nat]

(* A thread that was started has a slot that is in use, and one that runs  *)
(* has found a connection in it: no slot is ever given back.               *)
ThreadsBound ==
    \A c \in Conns :
        /\ thread[c].pc # "none" => sockets[thread[c].sess] \in Conns
        /\ thread[c].pc \in {"loop", "recv", "leaving", "releasing"} =>
              thread[c].socket \in Conns

(* What a step does to the slots and the session threads ... *)
ThreadsStay == sockets' = sockets /\ thread' = thread

Moves(c) ==
    /\ sockets' = sockets
    /\ thread[c].pc # "none"
    /\ \E t \in [pc : ThreadStates \ {"none"}, sess : {thread[c].sess}, socket : Conns] :
          thread' = [thread EXCEPT ![c] = t]

Allocates(c) ==
    \E sess \in Slots :
        /\ allocSession(c, sess)
        /\ \/ thread' = [thread EXCEPT ![c].pc = "start", ![c].sess = sess]
           \/ thread' = thread

(* ... to the applications ... *)
ListsStay == apps' = apps /\ registered_apps' = registered_apps

Registers(c, app) ==
    /\ app \notin apps
    /\ apps' = apps \cup {app}
    /\ registered_apps' = [registered_apps EXCEPT ![c] = @ \cup {app}]

Releases(c, app) ==
    /\ apps' = apps \ {app}
    /\ registered_apps' = [registered_apps EXCEPT ![c] = @ \ {app}]

(* ... and to requests and answers: on the connection s that a thread      *)
(* serves, which need not be the one the thread was started for.           *)
LogsStay == UNCHANGED <<asked, taken, answers, waiters>>

Asks(c) ==
    /\ \E request \in ServerRequests :
          /\ request.message_id = Len(asked[c]) + 1
          /\ asked' = [asked EXCEPT ![c] = Append(@, request)]
    /\ UNCHANGED <<taken, answers, waiters>>

Silent == UNCHANGED <<answers, waiters>>

Answering(s, request) ==
    /\ \E answer \in ServerAnswers :
          /\ answer.message_id = request.message_id
          /\ answer.message_type # "PROXY_SHUTDOWN"
          /\ answers' = [answers EXCEPT ![s] = Append(@, answer)]
    /\ waiters' = waiters

Forking(s, request) ==
    /\ \E w \in WaiterThreads :
          /\ w.socket = s /\ w.message_id = request.message_id
          /\ waiters' = waiters \cup {w}
    /\ answers' = answers

NextRequest(s) == asked[s][taken[s] + 1]

Reads(s) ==
    /\ taken[s] < Len(asked[s])
    /\ \E k \in taken[s] + 1 .. Len(asked[s]) : taken' = [taken EXCEPT ![s] = k]
    /\ asked' = asked
    /\ Silent \/ Answering(s, NextRequest(s)) \/ Forking(s, NextRequest(s))

Wakes(w) ==
    /\ UNCHANGED <<asked, taken>>
    /\ waiters' = waiters \ {w}
    /\ \/ answers' = answers
       \/ \E answer \in ServerAnswers :
             /\ answer.message_id = w.message_id
             /\ answer.message_type # "PROXY_SHUTDOWN"
             /\ answers' = [answers EXCEPT ![w.socket] = Append(@, answer)]

Notifies(s) ==
    /\ UNCHANGED <<asked, taken, waiters>>
    /\ \E answer \in ServerAnswers :
          /\ answer.message_id = 0 /\ answer.message_type = "PROXY_SHUTDOWN"
          /\ answers' = [answers EXCEPT ![s] = Append(@, answer)]

-----------------------------------------------------------------------------
(* The header every exec_* function builds is an answer to its request. *)
LEMMA AnswerType ==
    ASSUME NEW request \in ServerRequests, NEW sess \in Slots, NEW perr \in ProxyErrors
    PROVE  /\ Answer(request, sess, perr) \in ServerAnswers
           /\ [Answer(request, sess, perr) EXCEPT !.session_id = 0] \in ServerAnswers
           /\ Answer(request, sess, perr).message_id = request.message_id
           /\ [Answer(request, sess, perr) EXCEPT !.session_id = 0].message_id
                 = request.message_id
           /\ Answer(request, sess, perr).message_type # "PROXY_SHUTDOWN"
           /\ [Answer(request, sess, perr) EXCEPT !.session_id = 0].message_type
                 # "PROXY_SHUTDOWN"
<1>1. SessionOf(sess) \in Nat
  BY Capi20ServerAssumption DEF SessionOf, Slots
<1>2. request.message_type # "PROXY_SHUTDOWN"
  BY DEF ServerRequests, ProxyTypes, CapiTypes, AppTypes, InfoTypes
<1>3. QED
  BY <1>1, <1>2 DEF Answer, ServerAnswers, ServerRequests

(* A send() that fails is a silent one. *)
LEMMA ReplyEffect ==
    ASSUME NEW s, NEW request, NEW answer \in ServerAnswers, Reply(s, answer),
           answer.message_id = request.message_id,
           answer.message_type # "PROXY_SHUTDOWN", waiters' = waiters
    PROVE  Silent \/ Answering(s, request)
BY DEF Reply, Silent, Answering

(* Every exec_* function answers its request, starts a waiter or is silent *)
(* and changes the lists of its own session alone.                         *)
LEMMA DispatchEffect ==
    ASSUME TypeOK, NEW c \in Conns, thread[c].socket \in Conns,
           NEW request \in ServerRequests, Dispatch(c, request)
    PROVE  /\ \/ Silent
              \/ Answering(thread[c].socket, request)
              \/ Forking(thread[c].socket, request)
           /\ \/ ListsStay
              \/ \E app \in AppIds : Registers(c, app) \/ Releases(c, app)
<1> DEFINE s == thread[c].socket
           H(perr) == Answer(request, thread[c].sess, perr)
           Logs == Silent \/ Answering(s, request) \/ Forking(s, request)
           Lists == ListsStay \/ \E app \in AppIds : Registers(c, app) \/ Releases(c, app)
<1>s. thread[c].sess \in Slots
  BY DEF TypeOK
<1>h. ASSUME NEW perr \in ProxyErrors, Reply(s, H(perr)), waiters' = waiters PROVE Logs
  <2> DEFINE head == H(perr)
  <2>1. /\ head \in ServerAnswers /\ head.message_id = request.message_id
        /\ head.message_type # "PROXY_SHUTDOWN"
    BY <1>s, AnswerType
  <2>2. Reply(s, head)
    BY <1>h
  <2> HIDE DEF head
  <2>3. QED
    BY <1>h, <2>1, <2>2, ReplyEffect
<1>e. /\ "NONE" \in ProxyErrors /\ "NO_RESSOURCES" \in ProxyErrors
      /\ "PARSE_ERROR" \in ProxyErrors /\ "INCOMPATIBLE_VERSION" \in ProxyErrors
      /\ "ACCESS_DENIED" \in ProxyErrors /\ "AUTH_TYPE_NOT_SUPPORTED" \in ProxyErrors
  BY DEF ProxyErrors
<1>1. CASE exec_proxy_helo(c, request)
  <2>1. Lists /\ waiters' = waiters
    BY <1>1 DEF exec_proxy_helo, ListsStay
  <2>2. \/ Reply(s, H("NONE"))
        \/ Reply(s, [H("INCOMPATIBLE_VERSION") EXCEPT !.session_id = 0])
    BY <1>1 DEF exec_proxy_helo
  <2>3. CASE Reply(s, [H("INCOMPATIBLE_VERSION") EXCEPT !.session_id = 0])
    <3> DEFINE head == [H("INCOMPATIBLE_VERSION") EXCEPT !.session_id = 0]
    <3>1. /\ head \in ServerAnswers /\ head.message_id = request.message_id
          /\ head.message_type # "PROXY_SHUTDOWN"
      BY <1>e, <1>s, AnswerType
    <3>2. Reply(s, head)
      BY <2>3
    <3> HIDE DEF head
    <3>3. QED
      BY <2>1, <3>1, <3>2, ReplyEffect
  <2>4. QED
    BY <1>e, <1>h, <2>1, <2>2, <2>3
<1>2. CASE exec_proxy_auth(c, request)
  <2>1. Lists /\ waiters' = waiters
    BY <1>2 DEF exec_proxy_auth, ListsStay
  <2>2. CASE answers' = answers
    BY <2>1, <2>2 DEF Silent
  <2>3. CASE \E verdict \in AuthVerdicts(request.auth_type) : Reply(s, H(verdict))
    <3>1. PICK verdict \in AuthVerdicts(request.auth_type) : Reply(s, H(verdict))
      BY <2>3
    <3>2. verdict \in ProxyErrors
      BY <1>e DEF AuthVerdicts
    <3>3. QED
      BY <1>h, <2>1, <3>1, <3>2
  <2>4. QED
    BY <1>2, <2>2, <2>3 DEF exec_proxy_auth
<1>3. CASE exec_proxy_keepalive(c, request)
  BY <1>3 DEF exec_proxy_keepalive, ListsStay, Silent
<1>4. CASE exec_capi_register(c, request)
  <2>1. Lists
    BY <1>4 DEF exec_capi_register, ListsStay, Registers
  <2>2. QED
    BY <1>4, <1>e, <1>h, <2>1 DEF exec_capi_register
<1>5. CASE exec_capi_release(c, request)
  <2>1. Lists
    BY <1>5 DEF exec_capi_release, ListsStay, Releases, TypeOK
  <2>2. QED
    BY <1>5, <1>e, <1>h, <2>1 DEF exec_capi_release
<1>6. CASE exec_capi_putmessage(c, request)
  BY <1>6, <1>e, <1>h DEF exec_capi_putmessage, ListsStay
<1>7. CASE exec_capi_getmessage(c, request)
  BY <1>7, <1>e, <1>h DEF exec_capi_getmessage, ListsStay
<1>8. CASE exec_capi_waitforsignal(c, request)
  <2>1. Lists
    BY <1>8 DEF exec_capi_waitforsignal, ListsStay
  <2> DEFINE w == [socket |-> s, ApplID |-> request.app_id,
                   message_id |-> request.message_id,
                   session_id |-> SessionOf(thread[c].sess)]
  <2>2. CASE waiters' = waiters \cup {w} /\ answers' = answers
    <3>1. SessionOf(thread[c].sess) \in Nat
      BY <1>s, Capi20ServerAssumption DEF SessionOf, Slots
    <3>2. w \in WaiterThreads
      BY <3>1 DEF WaiterThreads, ServerRequests
    <3>3. QED
      BY <2>1, <2>2, <3>2 DEF Forking
  <2>3. CASE Reply(s, H("NO_RESSOURCES")) /\ waiters' = waiters
    BY <1>e, <1>h, <2>1, <2>3
  <2>4. QED
    BY <1>8, <2>2, <2>3 DEF exec_capi_waitforsignal
<1>9. CASE exec_capi_info(c, request)
  BY <1>9, <1>e, <1>h DEF exec_capi_info, ListsStay
<1>10. QED
  BY <1>1, <1>2, <1>3, <1>4, <1>5, <1>6, <1>7, <1>8, <1>9 DEF Dispatch

(* Every step of the server, seen in these three ways. *)
LEMMA ServerStep ==
    ASSUME TypeOK, ThreadsBound, [Next]_vars
    PROVE  /\ ThreadsStay \/ \E c \in Conns : Moves(c) \/ Allocates(c)
           /\ \/ ListsStay
              \/ \E c \in Conns, app \in AppIds : Registers(c, app) \/ Releases(c, app)
           /\ \/ LogsStay
              \/ \E c \in Conns : Asks(c) \/ Reads(c) \/ Notifies(c)
              \/ \E w \in waiters : Wakes(w)
<1> DEFINE Threads == ThreadsStay \/ \E c \in Conns : Moves(c) \/ Allocates(c)
           Lists == \/ ListsStay
                    \/ \E c \in Conns, app \in AppIds : Registers(c, app) \/ Releases(c, app)
           Logs == \/ LogsStay
                   \/ \E c \in Conns : Asks(c) \/ Reads(c) \/ Notifies(c)
                   \/ \E w \in waiters : Wakes(w)
           Goal == Threads /\ Lists /\ Logs
<1> USE DEF serviceVars, connVars
<1>m. ASSUME NEW c \in Conns, sockets' = sockets, thread[c].pc # "none",
             NEW pc \in ThreadStates \ {"none"}, NEW s \in Conns,
             \/ thread' = [thread EXCEPT ![c].pc = pc, ![c].socket = s]
             \/ thread' = [thread EXCEPT ![c].pc = pc] /\ thread[c].socket = s
      PROVE  Threads
  <2> DEFINE t == [pc |-> pc, sess |-> thread[c].sess, socket |-> s]
  <2>1. t \in [pc : ThreadStates \ {"none"}, sess : {thread[c].sess}, socket : Conns]
    OBVIOUS
  <2>2. thread[c] \in [pc : ThreadStates, sess : Slots, socket : Conns \cup {INVALID_SOCKET}]
        /\ thread \in [Conns -> [pc : ThreadStates, sess : Slots,
                                 socket : Conns \cup {INVALID_SOCKET}]]
    BY DEF TypeOK
  <2>3. thread' = [thread EXCEPT ![c] = t]
    BY <1>m, <2>2
  <2> HIDE DEF t
  <2>4. Moves(c)
    BY <1>m, <2>1, <2>3 DEF Moves
  <2>5. QED
    BY <2>4
<1> HIDE DEF Threads
<1>k. ThreadsStay => Threads
  BY DEF Threads
<1>1. CASE \/ ServiceLoopTop \/ NothingToAccept \/ SERVICE_CONTROL_PAUSE
           \/ SERVICE_CONTROL_CONTINUE \/ SERVICE_CONTROL_STOP \/ StopService
           \/ UNCHANGED vars
  <2>1. UNCHANGED <<sockets, thread, registered_apps, waiters, asked, taken, answers, apps>>
    BY <1>1 DEF ServiceLoopTop, NothingToAccept, SERVICE_CONTROL_PAUSE,
                SERVICE_CONTROL_CONTINUE, SERVICE_CONTROL_STOP, StopService, vars
  <2>2. QED
    BY <1>k, <2>1 DEF ThreadsStay, ListsStay, LogsStay
<1>2. CASE waiter
  <2>1. PICK w \in waiters :
          /\ waiters' = waiters \ {w}
          /\ Reply(w.socket, [message_id |-> w.message_id,
                              message_type |-> "CAPI_WAITFORSIGNAL",
                              session_id |-> w.session_id, proxy_error |-> "NONE"])
    BY <1>2 DEF waiter
  <2> DEFINE head == [message_id |-> w.message_id, message_type |-> "CAPI_WAITFORSIGNAL",
                      session_id |-> w.session_id, proxy_error |-> "NONE"]
  <2>2. /\ head \in ServerAnswers /\ head.message_id = w.message_id
        /\ head.message_type # "PROXY_SHUTDOWN"
    BY DEF TypeOK, ServerAnswers, CapiTypes, AppTypes, ProxyErrors
  <2>3. Reply(w.socket, head)
    BY <2>1
  <2> HIDE DEF head
  <2>4. Wakes(w)
    BY <1>2, <2>1, <2>2, <2>3 DEF waiter, Wakes, Reply
  <2>5. QED
    BY <1>2, <1>k, <2>4 DEF waiter, ThreadsStay, ListsStay
<1>3. ASSUME NEW c \in Conns, Connect(c) \/ Disconnect(c) PROVE Goal
  BY <1>3, <1>k DEF Connect, Disconnect, ThreadsStay, ListsStay, LogsStay
<1>4. ASSUME NEW c \in Conns, SendRequest(c) PROVE Goal
  <2>1. PICK request \in ClientRequests(Len(asked[c]) + 1) :
          asked' = [asked EXCEPT ![c] = Append(@, request)]
    BY <1>4 DEF SendRequest
  <2>2. request.message_id = Len(asked[c]) + 1
    BY DEF ClientRequests
  <2>3. request \in ServerRequests
    <3>1. KnownSessions \subseteq Nat
      <4>1. ASSUME NEW d \in Conns, NEW i \in 1 .. Len(answers[d])
            PROVE  answers[d][i].session_id \in Nat
        <5>1. answers[d] \in Seq(ServerAnswers)
          BY DEF TypeOK
        <5>2. answers[d][i] \in ServerAnswers
          BY <5>1
        <5>3. QED
          BY <5>2 DEF ServerAnswers
      <4>2. OldIds \subseteq Nat
        BY Capi20ServerAssumption
      <4> DEFINE told ==
            {answers[p[1]][p[2]].session_id :
                p \in {q \in Conns \X (1 .. MaxReq) : q[2] <= Len(answers[q[1]])}}
      <4>3. told \subseteq Nat
        BY <4>1 DEF TypeOK
      <4>4. KnownSessions = {0} \cup OldIds \cup told
        BY DEF KnownSessions
      <4> HIDE DEF told
      <4>5. QED
        BY <4>2, <4>3, <4>4
    <3>2. Len(asked[c]) + 1 \in Nat
      BY DEF TypeOK
    <3>3. PutShapes \cup {NoMsg} \subseteq CapiMsgs
      <4>1. NoMsg \in CapiMsgs
        BY DEF NoMsg, CapiMsgs
      <4>2. QED
        BY <4>1, Capi20ServerAssumption
    <3>4. QED
      BY <3>1, <3>2, <3>3, Capi20ServerAssumption DEF ClientRequests, ServerRequests
  <2>4. Asks(c)
    BY <1>4, <2>1, <2>2, <2>3 DEF SendRequest, Asks
  <2>5. QED
    BY <1>4, <1>k, <2>4 DEF SendRequest, ThreadsStay, ListsStay
<1>5. ASSUME NEW c \in Conns, accept(c) PROVE Goal
  <2>1. Allocates(c) /\ UNCHANGED <<registered_apps, waiters, asked, taken, answers, apps>>
    BY <1>5 DEF accept, Allocates
  <2>2. QED
    BY <2>1 DEF Threads, ListsStay, LogsStay
<1>6. ASSUME NEW c \in Conns, StartSession(c) PROVE Goal
  <2>1. sockets[thread[c].sess] \in Conns
    BY <1>6 DEF StartSession, ThreadsBound
  <2>2. Threads
    BY <1>6, <1>m, <2>1 DEF StartSession, ThreadStates
  <2>3. QED
    BY <1>6, <2>2 DEF StartSession, ListsStay, LogsStay
<1>7. ASSUME NEW c \in Conns, SessionLoopTop(c) \/ ReceiveEnds(c) PROVE Goal
  <2>1. thread[c].socket \in Conns /\ thread[c].pc # "none" /\ sockets' = sockets
    BY <1>7 DEF SessionLoopTop, ReceiveEnds, ThreadsBound
  <2>2. \E pc \in ThreadStates \ {"none"} : thread' = [thread EXCEPT ![c].pc = pc]
    BY <1>7 DEF SessionLoopTop, ReceiveEnds, ThreadStates
  <2>3. Threads
    BY <1>m, <2>1, <2>2
  <2>4. QED
    BY <1>7, <2>3 DEF SessionLoopTop, ReceiveEnds, ListsStay, LogsStay
<1>8. ASSUME NEW c \in Conns, ReceiveRequest(c) PROVE Goal
  <2> DEFINE s == thread[c].socket
  <2>1. /\ thread[c].pc = "recv" /\ s \in Conns /\ sockets' = sockets /\ asked' = asked
        /\ thread' = [thread EXCEPT ![c].pc = "loop"]
        /\ taken[s] < Len(asked[s])
    BY <1>8 DEF ReceiveRequest, ThreadsBound
  <2>2. Threads
    BY <1>m, <2>1 DEF ThreadStates
  <2>3. asked[s] \in Seq(ServerRequests) /\ taken[s] \in Nat /\ Len(asked[s]) \in Nat
    BY <2>1 DEF TypeOK
  <2>4. NextRequest(s) \in ServerRequests
    BY <2>1, <2>3 DEF NextRequest
  <2>5. \E k \in taken[s] + 1 .. Len(asked[s]) : taken' = [taken EXCEPT ![s] = k]
    <3>1. taken[s] + 1 \in taken[s] + 1 .. Len(asked[s])
      BY <2>1, <2>3
    <3>2. QED
      BY <1>8, <3>1 DEF ReceiveRequest
  <2>6. \/ Dispatch(c, NextRequest(s))
        \/ UNCHANGED <<registered_apps, waiters, apps, answers>>
    BY <1>8 DEF ReceiveRequest, NextRequest
  <2>7. CASE Dispatch(c, NextRequest(s))
    <3>1. /\ Silent \/ Answering(s, NextRequest(s)) \/ Forking(s, NextRequest(s))
          /\ Lists
      BY <2>1, <2>4, <2>7, DispatchEffect
    <3>2. Reads(s)
      BY <2>1, <2>5, <3>1 DEF Reads
    <3>3. QED
      BY <2>1, <2>2, <3>1, <3>2
  <2>8. CASE UNCHANGED <<registered_apps, waiters, apps, answers>>
    <3>1. Reads(s) /\ ListsStay
      BY <2>1, <2>5, <2>8 DEF Reads, Silent, ListsStay
    <3>2. QED
      BY <2>1, <2>2, <3>1
  <2>9. QED
    BY <2>6, <2>7, <2>8
<1>9. ASSUME NEW c \in Conns, exec_proxy_shutdown(c) PROVE Goal
  <2> DEFINE s == thread[c].socket
             head == [message_id |-> 0, message_type |-> "PROXY_SHUTDOWN",
                      session_id |-> SessionOf(thread[c].sess), proxy_error |-> "NONE"]
  <2>1. /\ thread[c].pc = "leaving" /\ s \in Conns /\ sockets' = sockets
        /\ thread' = [thread EXCEPT ![c].pc = "releasing"]
    BY <1>9 DEF exec_proxy_shutdown, ThreadsBound
  <2>2. Threads
    BY <1>m, <2>1 DEF ThreadStates
  <2>3. SessionOf(thread[c].sess) \in Nat
    BY Capi20ServerAssumption DEF SessionOf, Slots, TypeOK
  <2>4. /\ head \in ServerAnswers /\ head.message_id = 0
        /\ head.message_type = "PROXY_SHUTDOWN"
    BY <2>3 DEF ServerAnswers, ProxyErrors
  <2>5. Reply(s, head)
    BY <1>9 DEF exec_proxy_shutdown
  <2> HIDE DEF head
  <2>6. Notifies(s) \/ LogsStay
    BY <1>9, <2>4, <2>5 DEF exec_proxy_shutdown, Notifies, LogsStay, Reply
  <2>7. QED
    BY <1>9, <2>1, <2>2, <2>6 DEF exec_proxy_shutdown, ListsStay
<1>10. ASSUME NEW c \in Conns, getfirst_app(c) PROVE Goal
  <2>1. Releases(c, 1) /\ 1 \in AppIds
    BY <1>10 DEF getfirst_app, Releases, TypeOK
  <2>2. QED
    BY <1>10, <1>k, <2>1 DEF getfirst_app, ThreadsStay, LogsStay
<1>11. QED
  BY <1>1, <1>2, <1>3, <1>4, <1>5, <1>6, <1>7, <1>8, <1>9, <1>10
     DEF Next, SessionStep, Threads

-----------------------------------------------------------------------------
(* The types, part by part. *)
ThreadTypes ==
    /\ sockets \in [Slots -> Conns \cup {INVALID_SOCKET}]
    /\ thread \in [Conns -> [pc : ThreadStates, sess : Slots,
                             socket : Conns \cup {INVALID_SOCKET}]]

ListTypes == registered_apps \in [Conns -> SUBSET AppIds] /\ apps \subseteq AppIds

LogTypes ==
    /\ asked \in [Conns -> Seq(ServerRequests)]
    /\ taken \in [Conns -> Nat]
    /\ answers \in [Conns -> Seq(ServerAnswers)]
    /\ waiters \subseteq WaiterThreads

ServiceTypes ==
    /\ run \in BOOLEAN /\ pause \in BOOLEAN
    /\ listener \in {"top", "accepting", "ended"}
    /\ stopping \in {"no", "stopped", "shut", "closed"}
    /\ conn \in [Conns -> {"none", "open", "accepted", "closed"}]
    /\ shut \subseteq Conns

(* The type invariant is the conjunction of its four groups. *)
LEMMA TypeParts == TypeOK <=> ThreadTypes /\ ListTypes /\ LogTypes /\ ServiceTypes
BY DEF TypeOK, ThreadTypes, ListTypes, LogTypes, ServiceTypes, WaiterThreads

(* Slots and threads keep their types, and threads their slots: a slot in  *)
(* use is never given back.                                                *)
LEMMA ThreadsStep ==
    ASSUME ThreadTypes, ThreadsBound,
           ThreadsStay \/ \E c \in Conns : Moves(c) \/ Allocates(c)
    PROVE  /\ ThreadTypes' /\ ThreadsBound'
           /\ \A s \in Slots : sockets[s] \in Conns => sockets'[s] \in Conns
<1>1. CASE ThreadsStay
  BY <1>1 DEF ThreadsStay, ThreadTypes, ThreadsBound
<1>2. ASSUME NEW c \in Conns, Moves(c)
      PROVE  ThreadTypes' /\ ThreadsBound' /\ sockets' = sockets
  <2>1. PICK t \in [pc : ThreadStates \ {"none"}, sess : {thread[c].sess}, socket : Conns] :
          thread' = [thread EXCEPT ![c] = t]
    BY <1>2 DEF Moves
  <2>2. sockets' = sockets /\ thread[c].pc # "none"
    BY <1>2 DEF Moves
  <2>3. t \in [pc : ThreadStates, sess : Slots, socket : Conns \cup {INVALID_SOCKET}]
    BY DEF ThreadTypes
  <2>4. ThreadTypes'
    BY <2>1, <2>2, <2>3 DEF ThreadTypes
  <2>5. thread'[c] = t /\ \A d \in Conns \ {c} : thread'[d] = thread[d]
    BY <2>1 DEF ThreadTypes
  <2>6. t.sess = thread[c].sess /\ t.socket \in Conns
    OBVIOUS
  <2>7. ThreadsBound'
    BY <2>2, <2>5, <2>6 DEF ThreadsBound
  <2>8. QED
    BY <2>2, <2>4, <2>7
<1>3. ASSUME NEW c \in Conns, Allocates(c)
      PROVE  /\ ThreadTypes' /\ ThreadsBound'
             /\ \A s \in Slots : sockets[s] \in Conns => sockets'[s] \in Conns
  <2>1. PICK sess \in Slots :
          /\ allocSession(c, sess)
          /\ \/ thread' = [thread EXCEPT ![c].pc = "start", ![c].sess = sess]
             \/ thread' = thread
    BY <1>3 DEF Allocates
  <2>2. /\ sockets' \in [Slots -> Conns \cup {INVALID_SOCKET}]
        /\ sockets'[sess] \in Conns
        /\ \A s \in Slots : sockets[s] \in Conns => sockets'[s] \in Conns
    <3>1. CASE sess \in FreeSlots /\ sockets' = [sockets EXCEPT ![sess] = c]
      BY <3>1 DEF ThreadTypes
    <3>2. CASE FreeSlots = {} /\ sockets' = sockets
      BY <3>2 DEF ThreadTypes, FreeSlots
    <3>3. QED
      BY <2>1, <3>1, <3>2 DEF allocSession
  <2>3. ThreadTypes'
    BY <2>1, <2>2 DEF ThreadTypes, ThreadStates
  <2>4. ASSUME NEW d \in Conns
        PROVE  /\ thread'[d].pc # "none" => sockets'[thread'[d].sess] \in Conns
               /\ thread'[d].pc \in {"loop", "recv", "leaving", "releasing"} =>
                     thread'[d].socket \in Conns
    <3>1. thread[d].sess \in Slots
      BY DEF ThreadTypes
    <3>2. CASE thread'[d] = thread[d]
      BY <2>2, <3>1, <3>2 DEF ThreadsBound
    <3>3. CASE thread'[d].pc = "start" /\ thread'[d].sess = sess
      BY <2>2, <3>3
    <3>4. QED
      BY <2>1, <3>2, <3>3 DEF ThreadTypes
  <2>5. QED
    BY <2>2, <2>3, <2>4 DEF ThreadsBound
<1>4. QED
  BY <1>1, <1>2, <1>3

(* The lists keep their types. *)
LEMMA ListsStep ==
    ASSUME ListTypes,
           \/ ListsStay
           \/ \E c \in Conns, app \in AppIds : Registers(c, app) \/ Releases(c, app)
    PROVE  ListTypes'
BY DEF ListTypes, ListsStay, Registers, Releases

(* Requests and answers keep their types. *)
LEMMA LogsStep ==
    ASSUME LogTypes,
           \/ LogsStay
           \/ \E c \in Conns : Asks(c) \/ Reads(c) \/ Notifies(c)
           \/ \E w \in waiters : Wakes(w)
    PROVE  LogTypes'
<1>a. ASSUME NEW s, NEW answer \in ServerAnswers,
             answers' = [answers EXCEPT ![s] = Append(@, answer)]
      PROVE  answers' \in [Conns -> Seq(ServerAnswers)]
  <2>1. CASE s \in Conns
    BY <1>a, <2>1 DEF LogTypes
  <2>2. CASE s \notin Conns
    BY <1>a, <2>2 DEF LogTypes
  <2>3. QED
    BY <2>1, <2>2
<1>1. CASE LogsStay
  BY <1>1 DEF LogsStay, LogTypes
<1>2. ASSUME NEW c \in Conns, Asks(c) PROVE LogTypes'
  <2>1. PICK request \in ServerRequests : asked' = [asked EXCEPT ![c] = Append(@, request)]
    BY <1>2 DEF Asks
  <2>2. asked' \in [Conns -> Seq(ServerRequests)]
    BY <2>1 DEF LogTypes
  <2>3. QED
    BY <1>2, <2>2 DEF Asks, LogTypes
<1>3. ASSUME NEW c \in Conns, Reads(c) PROVE LogTypes'
  <2>1. asked' \in [Conns -> Seq(ServerRequests)]
    BY <1>3 DEF Reads, LogTypes
  <2>2. taken' \in [Conns -> Nat]
    <3>1. PICK k \in taken[c] + 1 .. Len(asked[c]) : taken' = [taken EXCEPT ![c] = k]
      BY <1>3 DEF Reads
    <3>2. k \in Nat
      BY DEF LogTypes
    <3>3. QED
      BY <3>1, <3>2 DEF LogTypes
  <2>3. answers' \in [Conns -> Seq(ServerAnswers)] /\ waiters' \subseteq WaiterThreads
    BY <1>3, <1>a DEF Reads, LogTypes, Silent, Answering, Forking
  <2>4. QED
    BY <2>1, <2>2, <2>3 DEF LogTypes
<1>4. ASSUME NEW c \in Conns, Notifies(c) PROVE LogTypes'
  BY <1>4, <1>a DEF Notifies, LogTypes
<1>5. ASSUME NEW w \in waiters, Wakes(w) PROVE LogTypes'
  BY <1>5, <1>a DEF Wakes, LogTypes
<1>6. QED
  BY <1>1, <1>2, <1>3, <1>4, <1>5

(* The service's flags, the connections and their ends keep their types. *)
LEMMA ServiceStep ==
    ASSUME ServiceTypes, ThreadTypes, [Next]_vars
    PROVE  ServiceTypes'
<1> USE DEF serviceVars, connVars, ServiceTypes
<1>1. CASE ServiceLoopTop \/ NothingToAccept
  BY <1>1 DEF ServiceLoopTop, NothingToAccept
<1>2. CASE SERVICE_CONTROL_PAUSE \/ SERVICE_CONTROL_CONTINUE \/ SERVICE_CONTROL_STOP
  BY <1>2 DEF SERVICE_CONTROL_PAUSE, SERVICE_CONTROL_CONTINUE, SERVICE_CONTROL_STOP
<1>3. CASE StopService
  <2>1. {sockets[s] : s \in Slots \ FreeSlots} \subseteq Conns
    BY DEF FreeSlots, ThreadTypes
  <2>2. QED
    BY <1>3, <2>1 DEF StopService, ServiceExit
<1>4. CASE waiter \/ UNCHANGED vars
  BY <1>4 DEF waiter, vars
<1>5. ASSUME NEW c \in Conns, Connect(c) \/ Disconnect(c) \/ accept(c) PROVE ServiceTypes'
  BY <1>5 DEF Connect, Disconnect, accept
<1>6. ASSUME NEW c \in Conns,
             \/ SendRequest(c) \/ StartSession(c) \/ SessionLoopTop(c) \/ ReceiveRequest(c)
             \/ ReceiveEnds(c) \/ exec_proxy_shutdown(c) \/ getfirst_app(c)
      PROVE  ServiceTypes'
  BY <1>6 DEF SendRequest, StartSession, SessionLoopTop, ReceiveRequest, ReceiveEnds,
              exec_proxy_shutdown, getfirst_app
<1>7. QED
  BY <1>1, <1>2, <1>3, <1>4, <1>5, <1>6 DEF Next, SessionStep

-----------------------------------------------------------------------------
(* TypeOK alone is not inductive: that a request is read from a connection *)
(* needs the slot of a started thread to be in use.                        *)
BaseInv == TypeOK /\ ThreadsBound

(* A server that has not started has no threads and empty lists. *)
LEMMA BaseInit == ASSUME Init PROVE BaseInv
<1>1. 0 \in Slots
  BY Capi20ServerAssumption DEF Slots
<1>2. ThreadTypes /\ ThreadsBound
  BY <1>1 DEF Init, ThreadTypes, ThreadsBound, ThreadStates
<1>3. ListTypes
  BY DEF Init, ListTypes
<1>4. LogTypes
  BY DEF Init, LogTypes
<1>5. ServiceTypes
  BY DEF Init, ServiceTypes
<1>6. QED
  BY <1>2, <1>3, <1>4, <1>5, TypeParts DEF BaseInv

(* Every step keeps the types and the bound on the threads. *)
LEMMA BaseStep == ASSUME BaseInv, [Next]_vars PROVE BaseInv'
<1>1. ThreadTypes /\ ListTypes /\ LogTypes /\ ServiceTypes /\ ThreadsBound
  BY TypeParts DEF BaseInv
<1>2. /\ ThreadsStay \/ \E c \in Conns : Moves(c) \/ Allocates(c)
      /\ \/ ListsStay
         \/ \E c \in Conns, app \in AppIds : Registers(c, app) \/ Releases(c, app)
      /\ \/ LogsStay
         \/ \E c \in Conns : Asks(c) \/ Reads(c) \/ Notifies(c)
         \/ \E w \in waiters : Wakes(w)
  BY ServerStep DEF BaseInv
<1>3. ThreadTypes' /\ ThreadsBound'
  BY <1>1, <1>2, ThreadsStep
<1>4. ListTypes'
  BY <1>1, <1>2, ListsStep
<1>5. LogTypes'
  BY <1>1, <1>2, LogsStep
<1>6. ServiceTypes'
  BY <1>1, ServiceStep
<1>7. TypeOK'
  BY <1>3, <1>4, <1>5, <1>6
     DEF TypeOK, ThreadTypes, ListTypes, LogTypes, ServiceTypes, WaiterThreads
<1>8. QED
  BY <1>3, <1>7 DEF BaseInv

(* Every reachable state of the Win32 server is well typed; in particular  *)
(* no thread ever serves INVALID_SOCKET and no waiter is started for it.   *)
THEOREM TypeCorrect == Spec => []TypeOK
<1>1. Init => BaseInv
  BY BaseInit
<1>2. BaseInv /\ [Next]_vars => BaseInv'
  BY BaseStep
<1>3. BaseInv => TypeOK
  BY DEF BaseInv
<1>4. QED
  BY <1>1, <1>2, <1>3, PTL DEF Spec

-----------------------------------------------------------------------------
(* A new thread gets a slot no other thread has, unless no slot is free.   *)
LEMMA SharedStep ==
    ASSUME BaseInv, SlotsShared, [Next]_vars
    PROVE  SlotsShared'
<1>1. ThreadsStay \/ \E c \in Conns : Moves(c) \/ Allocates(c)
  BY ServerStep DEF BaseInv
<1>2. ThreadTypes /\ ThreadsBound /\ ThreadTypes'
  BY BaseStep, TypeParts DEF BaseInv, TypeOK, ThreadTypes
<1>3. \A s \in Slots : sockets[s] \in Conns => sockets'[s] \in Conns
  BY <1>1, <1>2, ThreadsStep
<1>4. FreeSlots = {} => FreeSlots' = {}
  <2>1. ASSUME FreeSlots = {}, NEW s \in Slots PROVE sockets'[s] # INVALID_SOCKET
    <3>1. sockets[s] \in Conns
      BY <1>2, <2>1 DEF FreeSlots, ThreadTypes
    <3>2. QED
      BY <1>3, <3>1, Capi20ServerAssumption
  <2>2. QED
    BY <2>1 DEF FreeSlots
<1>5. CASE ThreadsStay
  BY <1>4, <1>5 DEF ThreadsStay, SlotsShared
<1>6. ASSUME NEW c \in Conns, Moves(c) PROVE SlotsShared'
  <2>1. /\ thread[c].pc # "none"
        /\ \A d \in Conns : thread'[d].sess = thread[d].sess
        /\ \A d \in Conns \ {c} : thread'[d] = thread[d]
    BY <1>2, <1>6 DEF Moves, ThreadTypes
  <2>2. QED
    BY <1>4, <2>1 DEF SlotsShared
<1>7. ASSUME NEW c \in Conns, Allocates(c) PROVE SlotsShared'
  <2>1. PICK sess \in Slots :
          /\ allocSession(c, sess)
          /\ \/ thread' = [thread EXCEPT ![c].pc = "start", ![c].sess = sess]
             \/ thread' = thread
    BY <1>7 DEF Allocates
  <2>2. CASE thread' = thread
    BY <1>4, <2>2 DEF SlotsShared
  <2>3. CASE thread' = [thread EXCEPT ![c].pc = "start", ![c].sess = sess]
    <3>1. thread'[c].sess = sess /\ \A d \in Conns \ {c} : thread'[d] = thread[d]
      BY <1>2, <2>3 DEF ThreadTypes
    <3>2. CASE sess \in FreeSlots
      <4>1. \A d \in Conns \ {c} : thread[d].pc # "none" => thread[d].sess # sess
        BY <1>2, <3>2, Capi20ServerAssumption DEF ThreadsBound, FreeSlots
      <4>2. QED
        BY <1>4, <3>1, <4>1 DEF SlotsShared
    <3>3. CASE FreeSlots = {} /\ sess = 0
      BY <1>4, <3>1, <3>3 DEF SlotsShared
    <3>4. QED
      BY <2>1, <3>2, <3>3 DEF allocSession
  <2>4. QED
    BY <2>1, <2>2, <2>3
<1>8. QED
  BY <1>1, <1>5, <1>6, <1>7

(* Two session threads share a slot, and so a socket, only if it is slot 0 *)
(* and the table was full, whatever MAX_SESSIONS is.                       *)
THEOREM SlotsCorrect == Spec => []SlotsShared
<1>1. Init => BaseInv /\ SlotsShared
  <2>1. Init => SlotsShared
    BY DEF Init, SlotsShared
  <2>2. QED
    BY <2>1, BaseInit
<1>2. BaseInv /\ SlotsShared /\ [Next]_vars => (BaseInv /\ SlotsShared)'
  BY BaseStep, SharedStep
<1>3. QED
  BY <1>1, <1>2, PTL DEF Spec

-----------------------------------------------------------------------------
(* Every application the CAPI has registered is listed by some session,    *)
(* although any session may release it from under the one that lists it.   *)
THEOREM AppsCorrect == Spec => []Accounted
<1>1. Init => BaseInv /\ Accounted
  <2>1. Init => Accounted
    BY DEF Init, Accounted
  <2>2. QED
    BY <2>1, BaseInit
<1>2. BaseInv /\ Accounted /\ [Next]_vars => (BaseInv /\ Accounted)'
  <2> SUFFICES ASSUME BaseInv, Accounted, [Next]_vars PROVE Accounted'
    BY BaseStep
  <2>1. \/ ListsStay
        \/ \E c \in Conns, app \in AppIds : Registers(c, app) \/ Releases(c, app)
    BY ServerStep DEF BaseInv
  <2>2. registered_apps \in [Conns -> SUBSET AppIds]
    BY DEF BaseInv, TypeOK
  <2>3. CASE ListsStay
    BY <2>3 DEF ListsStay, Accounted
  <2>4. ASSUME NEW c \in Conns, NEW app \in AppIds, Registers(c, app) \/ Releases(c, app),
               NEW a \in apps'
        PROVE  \E d \in Conns : a \in registered_apps'[d]
    <3>1. CASE Registers(c, app) /\ a = app
      BY <2>2, <3>1 DEF Registers
    <3>2. CASE a # app
      <4>1. PICK d \in Conns : a \in registered_apps[d]
        BY <2>4, <3>2 DEF Registers, Releases, Accounted
      <4>2. a \in registered_apps'[d]
        BY <2>2, <2>4, <3>2, <4>1 DEF Registers, Releases
      <4>3. QED
        BY <4>2
    <3>3. QED
      BY <2>4, <3>1, <3>2 DEF Registers, Releases
  <2>5. QED
    BY <2>1, <2>3, <2>4 DEF Accounted
<1>3. QED
  BY <1>1, <1>2, PTL DEF Spec

-----------------------------------------------------------------------------
(* AnsweredOnce is inductive together with: the ids number the requests,   *)
(* no more is read than was sent, shutdown notices have id 0, and waiters  *)
(* wait for different requests that were read.                             *)
ReadSent == \A c \in Conns : taken[c] <= Len(asked[c])

IdsNumber == \A c \in Conns : \A i \in 1 .. Len(asked[c]) : asked[c][i].message_id = i

NoticesZero ==
    \A c \in Conns : \A i \in 1 .. Len(answers[c]) :
        answers[c][i].message_type = "PROXY_SHUTDOWN" => answers[c][i].message_id = 0

WaitersRead == \A w \in waiters : w.message_id \in 1 .. taken[w.socket]

WaitersDistinct ==
    \A v, w \in waiters : v.socket = w.socket /\ v.message_id = w.message_id => v = w

OnceInv ==
    ReadSent /\ IdsNumber /\ NoticesZero /\ WaitersRead /\ WaitersDistinct /\ AnsweredOnce

(* What reading no further and answering nothing keeps. *)
LEMMA OnceIfKept ==
    ASSUME LogTypes, NoticesZero, WaitersRead, WaitersDistinct, AnsweredOnce,
           answers' = answers, waiters' \subseteq waiters,
           \A c \in Conns : taken[c] <= taken'[c] /\ taken'[c] \in Nat
    PROVE  NoticesZero' /\ WaitersRead' /\ WaitersDistinct' /\ AnsweredOnce'
<1>1. \A c \in Conns : taken[c] \in Nat
  BY DEF LogTypes
<1>2. WaitersRead'
  BY <1>1 DEF WaitersRead, LogTypes, WaiterThreads
<1>3. AnsweredOnce'
  <2>1. ASSUME NEW c \in Conns, NEW i \in 1 .. Len(answers[c]),
               answers[c][i].message_type # "PROXY_SHUTDOWN"
        PROVE  answers[c][i].message_id \in 1 .. taken'[c]
    BY <1>1, <2>1 DEF AnsweredOnce
  <2>2. QED
    BY <2>1 DEF AnsweredOnce
<1>4. QED
  BY <1>2, <1>3 DEF NoticesZero, WaitersDistinct

(* Appending one answer keeps those that were there. *)
LEMMA AppendAnswer ==
    ASSUME LogTypes, NEW s \in Conns, NEW answer \in ServerAnswers,
           answers' = [answers EXCEPT ![s] = Append(@, answer)]
    PROVE  /\ \A d \in Conns \ {s} : answers'[d] = answers[d]
           /\ Len(answers[s]) \in Nat /\ Len(answers'[s]) = Len(answers[s]) + 1
           /\ \A i \in 1 .. Len(answers[s]) : answers'[s][i] = answers[s][i]
           /\ answers'[s][Len(answers[s]) + 1] = answer
<1>1. answers[s] \in Seq(ServerAnswers) /\ answers'[s] = Append(answers[s], answer)
  BY DEF LogTypes
<1>2. \A d \in Conns \ {s} : answers'[d] = answers[d]
  BY DEF LogTypes
<1>3. QED
  BY <1>1, <1>2

(* An answer whose id no other answer has and no waiter waits for, or a    *)
(* notice with id 0, keeps the answers single.                             *)
LEMMA OnceIfAppended ==
    ASSUME LogTypes, NoticesZero, WaitersRead, WaitersDistinct, AnsweredOnce,
           NEW s \in Conns, NEW answer \in ServerAnswers,
           answers' = [answers EXCEPT ![s] = Append(@, answer)], waiters' \subseteq waiters,
           \A c \in Conns : taken[c] <= taken'[c] /\ taken'[c] \in Nat,
           \/ answer.message_type = "PROXY_SHUTDOWN" /\ answer.message_id = 0
           \/ /\ answer.message_type # "PROXY_SHUTDOWN"
              /\ answer.message_id \in 1 .. taken'[s]
              /\ \A i \in 1 .. Len(answers[s]) :
                    answers[s][i].message_id # answer.message_id
              /\ \A w \in waiters' : w.socket = s => w.message_id # answer.message_id
    PROVE  NoticesZero' /\ WaitersRead' /\ WaitersDistinct' /\ AnsweredOnce'
<1>a. /\ \A d \in Conns \ {s} : answers'[d] = answers[d]
      /\ Len(answers[s]) \in Nat /\ Len(answers'[s]) = Len(answers[s]) + 1
      /\ \A i \in 1 .. Len(answers[s]) : answers'[s][i] = answers[s][i]
      /\ answers'[s][Len(answers[s]) + 1] = answer
  BY AppendAnswer
<1>n. \A c \in Conns : taken[c] \in Nat
  BY DEF LogTypes
<1>1. NoticesZero'
  <2>1. ASSUME NEW c \in Conns, NEW i \in 1 .. Len(answers'[c]),
               answers'[c][i].message_type = "PROXY_SHUTDOWN"
        PROVE  answers'[c][i].message_id = 0
    <3>1. CASE c = s
      BY <1>a, <2>1, <3>1 DEF NoticesZero
    <3>2. CASE c # s
      BY <1>a, <2>1, <3>2 DEF NoticesZero
    <3>3. QED
      BY <3>1, <3>2
  <2>2. QED
    BY <2>1 DEF NoticesZero
<1>2. WaitersRead'
  BY <1>n DEF WaitersRead, LogTypes, WaiterThreads
<1>3. ASSUME NEW c \in Conns, NEW i \in 1 .. Len(answers'[c])
      PROVE  \/ answers'[c][i].message_type = "PROXY_SHUTDOWN"
             \/ answers'[c][i].message_id \in 1 .. taken'[c]
  <2>1. CASE c = s /\ i = Len(answers[s]) + 1
    BY <1>a, <2>1
  <2>2. CASE ~ (c = s /\ i = Len(answers[s]) + 1)
    <3>1. i \in 1 .. Len(answers[c]) /\ answers'[c][i] = answers[c][i]
      BY <1>a, <2>2
    <3>2. QED
      BY <1>n, <3>1 DEF AnsweredOnce
  <2>3. QED
    BY <2>1, <2>2
<1>4. ASSUME NEW c \in Conns, NEW i \in 1 .. Len(answers'[c]),
             NEW j \in 1 .. Len(answers'[c]),
             answers'[c][i].message_id = answers'[c][j].message_id,
             answers'[c][i].message_type # "PROXY_SHUTDOWN"
      PROVE  i = j
  <2>1. CASE c # s
    BY <1>a, <1>4, <2>1 DEF AnsweredOnce
  <2>2. CASE c = s /\ i # Len(answers[s]) + 1 /\ j # Len(answers[s]) + 1
    BY <1>a, <1>4, <2>2 DEF AnsweredOnce
  <2>3. CASE c = s /\ i = Len(answers[s]) + 1 /\ j # Len(answers[s]) + 1
    BY <1>a, <1>4, <2>3
  <2>4. CASE c = s /\ i # Len(answers[s]) + 1 /\ j = Len(answers[s]) + 1
    <3>1. i \in 1 .. Len(answers[s]) /\ answers'[s][i] = answers[s][i]
      BY <1>a, <2>4
    <3>2. answers[s][i].message_id \in 1 .. taken[s]
      BY <1>4, <2>4, <3>1 DEF AnsweredOnce
    <3>3. answers[s][i].message_id # 0
      BY <1>n, <3>2
    <3>4. QED
      BY <1>a, <1>4, <2>4, <3>1, <3>3
  <2>5. QED
    BY <2>1, <2>2, <2>3, <2>4
<1>5. ASSUME NEW w \in waiters', NEW i \in 1 .. Len(answers'[w.socket])
      PROVE  answers'[w.socket][i].message_id # w.message_id
  <2>1. w.socket \in Conns /\ w \in waiters /\ w.message_id \in 1 .. taken[w.socket]
    BY DEF LogTypes, WaiterThreads, WaitersRead
  <2>2. w.message_id # 0
    BY <1>n, <2>1
  <2>3. CASE w.socket = s /\ i = Len(answers[s]) + 1
    BY <1>a, <2>1, <2>2, <2>3
  <2>4. CASE ~ (w.socket = s /\ i = Len(answers[s]) + 1)
    <3>1. i \in 1 .. Len(answers[w.socket]) /\ answers'[w.socket][i] = answers[w.socket][i]
      BY <1>a, <2>1, <2>4
    <3>2. QED
      BY <2>1, <3>1 DEF AnsweredOnce
  <2>5. QED
    BY <2>3, <2>4
<1>6. AnsweredOnce'
  BY <1>3, <1>4, <1>5 DEF AnsweredOnce
<1>7. QED
  BY <1>1, <1>2, <1>6 DEF WaitersDistinct

(* Every step keeps the answers single: a new id is larger than every id   *)
(* read before, also where one recv() overlooks requests and where several *)
(* session threads read from one socket.                                   *)
LEMMA OnceStep ==
    ASSUME BaseInv, OnceInv, [Next]_vars
    PROVE  OnceInv'
<1>t. LogTypes /\ LogTypes'
  BY BaseStep DEF BaseInv, TypeOK, LogTypes, WaiterThreads
<1>n. \A c \in Conns : /\ taken[c] \in Nat /\ taken'[c] \in Nat
                       /\ Len(asked[c]) \in Nat /\ taken[c] <= Len(asked[c])
  BY <1>t DEF LogTypes, OnceInv, ReadSent
<1>i. /\ NoticesZero /\ WaitersRead /\ WaitersDistinct /\ AnsweredOnce
      /\ ReadSent /\ IdsNumber
  BY DEF OnceInv
<1> DEFINE Later == \A c \in Conns : taken[c] <= taken'[c] /\ taken'[c] \in Nat
           Rest == NoticesZero' /\ WaitersRead' /\ WaitersDistinct' /\ AnsweredOnce'
<1>1. CASE LogsStay
  <2>1. Rest
    BY <1>1, <1>i, <1>n, <1>t, OnceIfKept DEF LogsStay
  <2>2. QED
    BY <1>1, <1>i, <2>1 DEF LogsStay, OnceInv, ReadSent, IdsNumber
<1>2. ASSUME NEW c \in Conns, Asks(c) PROVE OnceInv'
  <2>1. Rest
    BY <1>2, <1>i, <1>n, <1>t, OnceIfKept DEF Asks
  <2>2. PICK request \in ServerRequests :
          /\ request.message_id = Len(asked[c]) + 1
          /\ asked' = [asked EXCEPT ![c] = Append(@, request)]
    BY <1>2 DEF Asks
  <2>3. /\ Len(asked'[c]) = Len(asked[c]) + 1
        /\ \A i \in 1 .. Len(asked[c]) : asked'[c][i] = asked[c][i]
        /\ asked'[c][Len(asked[c]) + 1] = request
        /\ \A d \in Conns \ {c} : asked'[d] = asked[d]
    <3>1. asked[c] \in Seq(ServerRequests) /\ asked'[c] = Append(asked[c], request)
      BY <1>t, <2>2 DEF LogTypes
    <3>2. \A d \in Conns \ {c} : asked'[d] = asked[d]
      BY <1>t, <2>2 DEF LogTypes
    <3>3. QED
      BY <3>1, <3>2
  <2>4. ReadSent'
    <3>1. ASSUME NEW d \in Conns PROVE taken[d] <= Len(asked'[d])
      BY <1>n, <2>3
    <3>2. QED
      BY <1>2, <3>1 DEF Asks, ReadSent
  <2>5. IdsNumber'
    <3>1. ASSUME NEW i \in 1 .. Len(asked[c]) + 1 PROVE asked'[c][i].message_id = i
      BY <1>i, <1>n, <2>2, <2>3 DEF IdsNumber
    <3>2. QED
      BY <1>i, <2>3, <3>1 DEF IdsNumber
  <2>6. QED
    BY <2>1, <2>4, <2>5 DEF OnceInv
<1>3. ASSUME NEW c \in Conns, Reads(c) PROVE OnceInv'
  <2>1. PICK k \in taken[c] + 1 .. Len(asked[c]) : taken' = [taken EXCEPT ![c] = k]
    BY <1>3 DEF Reads
  <2>2. /\ taken'[c] = k /\ taken[c] + 1 \in 1 .. k /\ taken[c] + 1 \in 1 .. Len(asked[c])
        /\ \A d \in Conns \ {c} : taken'[d] = taken[d]
    BY <1>n, <1>t, <2>1 DEF LogTypes
  <2>3. Later
    BY <1>n, <2>1, <2>2
  <2>4. ReadSent' /\ IdsNumber'
    BY <1>3, <1>i, <2>1, <2>2 DEF Reads, ReadSent, IdsNumber
  <2>5. NextRequest(c).message_id = taken[c] + 1
    BY <1>i, <2>2 DEF NextRequest, IdsNumber
  <2>6. \A n \in 1 .. taken[c] : n # taken[c] + 1
    BY <1>n
  <2>7. \A w \in waiters : w.socket = c => w.message_id # taken[c] + 1
    BY <1>i, <2>6 DEF WaitersRead
  <2>8. \A i \in 1 .. Len(answers[c]) : answers[c][i].message_id # taken[c] + 1
    <3>1. ASSUME NEW i \in 1 .. Len(answers[c])
          PROVE  answers[c][i].message_id # taken[c] + 1
      <4>1. CASE answers[c][i].message_type = "PROXY_SHUTDOWN"
        <5>1. answers[c][i].message_id = 0
          BY <1>i, <4>1 DEF NoticesZero
        <5>2. QED
          BY <1>n, <5>1
      <4>2. CASE answers[c][i].message_type # "PROXY_SHUTDOWN"
        BY <1>i, <2>6, <4>2 DEF AnsweredOnce
      <4>3. QED
        BY <4>1, <4>2
    <3>2. QED
      BY <3>1
  <2>9. CASE Silent
    <3>1. Rest
      BY <1>i, <1>t, <2>3, <2>9, OnceIfKept DEF Silent
    <3>2. QED
      BY <2>4, <3>1 DEF OnceInv
  <2>10. CASE Answering(c, NextRequest(c))
    <3>1. PICK answer \in ServerAnswers :
            /\ answer.message_id = NextRequest(c).message_id
            /\ answer.message_type # "PROXY_SHUTDOWN"
            /\ answers' = [answers EXCEPT ![c] = Append(@, answer)]
      BY <2>10 DEF Answering
    <3>2. waiters' = waiters
      BY <2>10 DEF Answering
    <3>3. /\ answer.message_id \in 1 .. taken'[c]
          /\ \A i \in 1 .. Len(answers[c]) : answers[c][i].message_id # answer.message_id
          /\ \A w \in waiters' : w.socket = c => w.message_id # answer.message_id
      BY <2>2, <2>5, <2>7, <2>8, <3>1, <3>2
    <3>4. Rest
      BY <1>i, <1>t, <2>3, <3>1, <3>2, <3>3, OnceIfAppended
    <3>5. QED
      BY <2>4, <3>4 DEF OnceInv
  <2>11. CASE Forking(c, NextRequest(c))
    <3>1. PICK new \in WaiterThreads :
            /\ new.socket = c /\ new.message_id = NextRequest(c).message_id
            /\ waiters' = waiters \cup {new}
      BY <2>11 DEF Forking
    <3>2. answers' = answers
      BY <2>11 DEF Forking
    <3>3. \A w \in waiters : w.message_id \in 1 .. taken'[w.socket]
      <4>1. ASSUME NEW w \in waiters PROVE w.message_id \in 1 .. taken'[w.socket]
        <5>1. PICK s \in Conns : s = w.socket
          BY <1>t DEF LogTypes, WaiterThreads
        <5>2. w.message_id \in 1 .. taken[s]
          BY <1>i, <5>1 DEF WaitersRead
        <5>3. w.message_id \in 1 .. taken'[s]
          BY <1>n, <2>3, <5>2
        <5>4. QED
          BY <5>1, <5>3
      <4>2. QED
        BY <4>1
    <3>4. WaitersRead'
      BY <2>2, <2>5, <3>1, <3>3 DEF WaitersRead
    <3>5. WaitersDistinct'
      BY <1>i, <2>5, <2>7, <3>1 DEF WaitersDistinct
    <3>6. AnsweredOnce'
      <4>1. ASSUME NEW d \in Conns, NEW i \in 1 .. Len(answers[d]),
                   answers[d][i].message_type # "PROXY_SHUTDOWN"
            PROVE  answers[d][i].message_id \in 1 .. taken'[d]
        <5>1. answers[d][i].message_id \in 1 .. taken[d]
          BY <1>i, <4>1 DEF AnsweredOnce
        <5>2. QED
          BY <1>n, <2>3, <5>1
      <4>2. ASSUME NEW w \in waiters', NEW i \in 1 .. Len(answers[w.socket])
            PROVE  answers[w.socket][i].message_id # w.message_id
        <5>1. CASE w \in waiters
          <6>1. w.socket \in Conns
            BY <1>t, <5>1 DEF LogTypes, WaiterThreads
          <6>2. QED
            BY <1>i, <5>1, <6>1 DEF AnsweredOnce
        <5>2. CASE w = new
          BY <2>5, <2>8, <3>1, <5>2
        <5>3. QED
          BY <3>1, <5>1, <5>2
      <4>3. QED
        BY <1>i, <3>2, <4>1, <4>2 DEF AnsweredOnce
    <3>7. QED
      BY <1>i, <2>4, <3>2, <3>4, <3>5, <3>6 DEF OnceInv, NoticesZero
  <2>12. QED
    BY <1>3, <2>9, <2>10, <2>11 DEF Reads
<1>4. ASSUME NEW c \in Conns, Notifies(c) PROVE OnceInv'
  <2>1. PICK answer \in ServerAnswers :
          /\ answer.message_id = 0 /\ answer.message_type = "PROXY_SHUTDOWN"
          /\ answers' = [answers EXCEPT ![c] = Append(@, answer)]
    BY <1>4 DEF Notifies
  <2>2. Later /\ waiters' = waiters
    BY <1>4, <1>n DEF Notifies
  <2>3. Rest
    BY <1>i, <1>t, <2>1, <2>2, OnceIfAppended
  <2>4. QED
    BY <1>4, <1>i, <2>3 DEF Notifies, OnceInv, ReadSent, IdsNumber
<1>5. ASSUME NEW w \in waiters, Wakes(w) PROVE OnceInv'
  <2>1. Later /\ waiters' = waiters \ {w}
    BY <1>5, <1>n DEF Wakes
  <2>2. PICK s \in Conns : s = w.socket
    BY <1>t DEF LogTypes, WaiterThreads
  <2>4. ASSUME NEW answer \in ServerAnswers, answer.message_id = w.message_id,
               answer.message_type # "PROXY_SHUTDOWN",
               answers' = [answers EXCEPT ![s] = Append(@, answer)]
        PROVE  Rest
    <3>1. answer.message_id \in 1 .. taken'[s]
      BY <1>5, <1>i, <2>2, <2>4 DEF Wakes, WaitersRead
    <3>2. \A i \in 1 .. Len(answers[s]) : answers[s][i].message_id # answer.message_id
      BY <1>i, <2>2, <2>4 DEF AnsweredOnce
    <3>3. \A v \in waiters' : v.socket = s => v.message_id # answer.message_id
      BY <1>i, <2>1, <2>2, <2>4 DEF WaitersDistinct
    <3>4. waiters' \subseteq waiters
      BY <2>1
    <3>5. QED
      BY <1>i, <1>t, <2>1, <2>4, <3>1, <3>2, <3>3, <3>4, OnceIfAppended
  <2>5. Rest
    <3>1. CASE answers' = answers
      BY <1>i, <1>t, <2>1, <3>1, OnceIfKept
    <3>2. QED
      BY <1>5, <2>2, <2>4, <3>1 DEF Wakes
  <2>6. QED
    BY <1>5, <1>i, <2>5 DEF Wakes, OnceInv, ReadSent, IdsNumber
<1>6. QED
  BY <1>1, <1>2, <1>3, <1>4, <1>5, ServerStep DEF BaseInv

(* No request is answered twice, and every answer but a shutdown notice    *)
(* has the id of a request read from the connection it goes to, for any    *)
(* number of session threads on one socket and any number of waiters.      *)
THEOREM OnceCorrect == Spec => []AnsweredOnce
<1>1. Init => BaseInv /\ OnceInv
  <2>1. Init => OnceInv
    BY DEF Init, OnceInv, ReadSent, IdsNumber, NoticesZero, WaitersRead,
           WaitersDistinct, AnsweredOnce
  <2>2. QED
    BY <2>1, BaseInit
<1>2. BaseInv /\ OnceInv /\ [Next]_vars => (BaseInv /\ OnceInv)'
  BY BaseStep, OnceStep
<1>3. OnceInv => AnsweredOnce
  BY DEF OnceInv
<1>4. QED
  BY <1>1, <1>2, <1>3, PTL DEF Spec
=============================================================================
