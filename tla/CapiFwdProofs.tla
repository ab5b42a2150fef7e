--------------------------- MODULE CapiFwdProofs ----------------------------
(***************************************************************************)
(* Theorems about capifwd for any number of connections, application       *)
(* numbers and requests.                                                   *)
(***************************************************************************)
EXTENDS CapiFwd, TLAPS

(* The request HandleRequest(c) has just read. *)
Current(c) == asked[c][taken[c] + 1]

(* What a dispatched request may change. *)
Dispatched(c, request) ==
    \/ exec_proxy(c, request)
    \/ SessionMatches(c, request) /\ exec_capi(c, request)
    \/ Ignore(c, request)

-----------------------------------------------------------------------------
(* A request read from the stream is a request. *)
LEMMA CurrentIsRequest ==
    ASSUME TypeOK, NEW c \in Conns, taken[c] < Len(asked[c])
    PROVE  Current(c) \in Requests
BY DEF TypeOK, Current

(* send() keeps the types of what it touches. *)
LEMMA SendTypeOK ==
    ASSUME TypeOK, NEW c \in Conns, NEW head \in Answers, Send(c, head)
    PROVE  /\ out_packet' \in [Conns -> [app_id : AppIds \cup {0},
                                         capi_error : CapiErrors]]
           /\ answers' \in [Conns -> Seq(Answers)]
           /\ handler' \in [Conns -> HandlerStates]
           /\ conn' \in [Conns -> ConnStates]
<1>1. out_packet' \in [Conns -> [app_id : AppIds \cup {0}, capi_error : CapiErrors]]
  BY DEF TypeOK, Send, Answers
<1>2. CASE conn[c] = "open" /\ answers' = [answers EXCEPT ![c] = Append(@, head)]
             /\ UNCHANGED <<handler, conn>>
  BY <1>1, <1>2 DEF TypeOK
<1>3. CASE conn[c] \in Gone /\ conn' \in {conn, [conn EXCEPT ![c] = "reset"]}
             /\ UNCHANGED <<answers, handler>>
  BY <1>1, <1>3 DEF TypeOK, ConnStates
<1>4. CASE conn[c] = "reset" /\ handler' = [handler EXCEPT ![c] = "sigpipe"]
             /\ UNCHANGED <<answers, conn>>
  BY <1>1, <1>4 DEF TypeOK, HandlerStates
<1>5. QED
  BY <1>2, <1>3, <1>4 DEF Send

(* The header of an answer to a request is a well-formed answer. *)
LEMMA AnswerHeadType ==
    ASSUME TypeOK, NEW c \in Conns, NEW request \in Requests,
           NEW perr \in ProxyErrors, NEW cerr \in CapiErrors
    PROVE  /\ AnswerHead(c, request, perr, cerr) \in Answers
           /\ \A app \in AppIds \cup {0} :
                [AnswerHead(c, request, perr, cerr) EXCEPT !.app_id = app] \in Answers
           /\ \A n \in Nat :
                [AnswerHead(c, request, perr, cerr) EXCEPT !.data_len = n] \in Answers
           /\ \A s \in Nat :
                [AnswerHead(c, request, perr, cerr) EXCEPT
                    !.app_id = 0, !.session_id = s] \in Answers
BY DEF TypeOK, AnswerHead, Answers, Requests

(* Releasing an application number keeps the driver's types. *)
LEMMA ReleaseTypeOK ==
    ASSUME TypeOK, NEW app \in AppIds, capi20_release(app)
    PROVE  owner' \in [AppIds -> Conns \cup {None}] /\ inbox' \in [AppIds -> Seq(CapiMsgs)]
BY DEF TypeOK, capi20_release

(* The part of the type invariant that dispatching a request can disturb.  *)
DispatchTypes ==
    /\ out_packet \in [Conns -> [app_id : AppIds \cup {0}, capi_error : CapiErrors]]
    /\ answers \in [Conns -> Seq(Answers)]
    /\ handler \in [Conns -> HandlerStates]
    /\ conn \in [Conns -> ConnStates]
    /\ registered_apps \in [Conns -> SUBSET AppIds]
    /\ waiters \subseteq Waiters
    /\ owner \in [AppIds -> Conns \cup {None}]
    /\ inbox \in [AppIds -> Seq(CapiMsgs)]

(* Every exec_* function keeps the types. *)
LEMMA DispatchTypeOK ==
    ASSUME TypeOK, NEW c \in Conns, NEW request \in Requests, Dispatched(c, request)
    PROVE  DispatchTypes'
<1> USE DEF ProxyErrors, CapiErrors
<1>0. DispatchTypes
  BY DEF TypeOK, DispatchTypes
<1>1. CASE exec_proxy_helo(c, request)
  <2>1. [AnswerHead(c, request, "AUTH_REQUIRED", "0x0000") EXCEPT !.app_id = 0] \in Answers
    BY AnswerHeadType
  <2>2. QED
    BY <1>0, <1>1, <2>1, SendTypeOK DEF exec_proxy_helo, DispatchTypes, driverVars
<1>2. CASE exec_proxy_auth(c, request)
  <2>1. PICK verdict \in AuthVerdicts(request.auth_type) :
          Send(c, [AnswerHead(c, request, verdict, "0x0000") EXCEPT
                      !.app_id = 0,
                      !.session_id = IF verdict = "NONE" THEN sess[c] ELSE 0])
    BY <1>2 DEF exec_proxy_auth
  <2>2. verdict \in ProxyErrors
    BY DEF AuthVerdicts, Requests, AuthTypes
  <2>3. (IF verdict = "NONE" THEN sess[c] ELSE 0) \in Nat
    BY DEF TypeOK
  <2> DEFINE s == IF verdict = "NONE" THEN sess[c] ELSE 0
             head == [AnswerHead(c, request, verdict, "0x0000") EXCEPT
                         !.app_id = 0, !.session_id = s]
  <2>4. head \in Answers
    <3>1. "0x0000" \in CapiErrors
      OBVIOUS
    <3> HIDE DEF s, ProxyErrors, CapiErrors
    <3>2. s \in Nat
      BY <2>3 DEF s
    <3>3. \A n \in Nat : [AnswerHead(c, request, verdict, "0x0000") EXCEPT
                             !.app_id = 0, !.session_id = n] \in Answers
      BY <2>2, <3>1, AnswerHeadType
    <3>4. QED
      BY <3>2, <3>3
  <2>5. Send(c, head)
    BY <2>1
  <2>6. UNCHANGED <<registered_apps, waiters, owner, inbox>>
    BY <1>2 DEF exec_proxy_auth, driverVars
  <2> HIDE DEF head
  <2>7. QED
    BY <1>0, <2>4, <2>5, <2>6, SendTypeOK DEF DispatchTypes
<1>3. CASE exec_capi_register(c, request)
  <2>1. CASE \E app \in AppIds :
               /\ capi20_register(c, app)
               /\ registered_apps' = [registered_apps EXCEPT ![c] = add_app(app, @)]
               /\ Send(c, [AnswerHead(c, request, "NONE", "0x0000") EXCEPT !.app_id = app])
    <3>1. PICK app \in AppIds :
               /\ capi20_register(c, app)
               /\ registered_apps' = [registered_apps EXCEPT ![c] = add_app(app, @)]
               /\ Send(c, [AnswerHead(c, request, "NONE", "0x0000") EXCEPT !.app_id = app])
      BY <2>1
    <3>2. [AnswerHead(c, request, "NONE", "0x0000") EXCEPT !.app_id = app] \in Answers
      BY AnswerHeadType
    <3>3. owner' \in [AppIds -> Conns \cup {None}] /\ inbox' \in [AppIds -> Seq(CapiMsgs)]
      <4>1. capi20_register(c, app)
        BY <3>1
      <4>2. QED
        BY <1>0, <4>1 DEF capi20_register, DispatchTypes
    <3>4. registered_apps' \in [Conns -> SUBSET AppIds]
      BY <1>0, <3>1 DEF add_app, DispatchTypes
    <3>5. QED
      BY <1>0, <1>3, <3>1, <3>2, <3>3, <3>4, SendTypeOK
         DEF exec_capi_register, DispatchTypes
  <2>2. CASE /\ Send(c, [AnswerHead(c, request, "NONE", "0x1108") EXCEPT
                             !.app_id = out_packet[c].app_id])
             /\ UNCHANGED <<registered_apps, driverVars>>
    <3> DEFINE head == [AnswerHead(c, request, "NONE", "0x1108") EXCEPT
                           !.app_id = out_packet[c].app_id]
    <3>1. head \in Answers
      <4>1. "NONE" \in ProxyErrors /\ "0x1108" \in CapiErrors
        OBVIOUS
      <4> HIDE DEF ProxyErrors, CapiErrors
      <4>2. out_packet[c].app_id \in AppIds \cup {0}
        BY <1>0 DEF DispatchTypes
      <4>3. \A app \in AppIds \cup {0} :
              [AnswerHead(c, request, "NONE", "0x1108") EXCEPT !.app_id = app] \in Answers
        BY <4>1, AnswerHeadType
      <4>4. QED
        BY <4>2, <4>3
    <3>2. Send(c, head)
      BY <2>2
    <3>3. UNCHANGED <<registered_apps, waiters, owner, inbox>>
      BY <1>3, <2>2 DEF exec_capi_register, driverVars
    <3> HIDE DEF head
    <3>4. QED
      BY <1>0, <3>1, <3>2, <3>3, SendTypeOK DEF DispatchTypes
  <2>3. QED
    BY <1>3, <2>1, <2>2 DEF exec_capi_register
<1>4. CASE exec_capi_release(c, request)
  <2>1. /\ AnswerHead(c, request, "NONE", "0x0000") \in Answers
        /\ AnswerHead(c, request, "NONE", "0x1101") \in Answers
    BY AnswerHeadType
  <2>2. CASE Owns(c, request.app_id)
    <3>1. owner' \in [AppIds -> Conns \cup {None}] /\ inbox' \in [AppIds -> Seq(CapiMsgs)]
      <4>1. capi20_release(request.app_id)
        BY <1>4, <2>2 DEF exec_capi_release
      <4>2. request.app_id \in AppIds
        BY <2>2 DEF Owns
      <4>3. QED
        BY <4>1, <4>2, ReleaseTypeOK
    <3>2. registered_apps' \in [Conns -> SUBSET AppIds]
      BY <1>0, <1>4, <2>2 DEF exec_capi_release, del_app, DispatchTypes
    <3>3. QED
      BY <1>0, <1>4, <2>1, <2>2, <3>1, <3>2, SendTypeOK
         DEF exec_capi_release, DispatchTypes
  <2>3. CASE ~ Owns(c, request.app_id)
    BY <1>0, <1>4, <2>1, <2>3, SendTypeOK
       DEF exec_capi_release, DispatchTypes, driverVars
  <2>4. QED
    BY <2>2, <2>3
<1>5. CASE exec_capi_putmessage(c, request)
  <2>1. PICK perr \in ProxyErrors, cerr \in CapiErrors :
          Send(c, AnswerHead(c, request, perr, cerr))
    BY <1>0, <1>5 DEF exec_capi_putmessage, DispatchTypes
  <2>2. UNCHANGED <<registered_apps, waiters, owner, inbox>>
    BY <1>5 DEF exec_capi_putmessage, driverVars
  <2> HIDE DEF ProxyErrors, CapiErrors
  <2>3. AnswerHead(c, request, perr, cerr) \in Answers
    BY AnswerHeadType
  <2>4. QED
    BY <1>0, <2>1, <2>2, <2>3, SendTypeOK DEF DispatchTypes
<1>6. CASE exec_capi_getmessage(c, request)
  <2>1. CASE Owns(c, request.app_id) /\ inbox[request.app_id] # <<>>
    <3> DEFINE m == inbox[request.app_id][1]
               short == m.b3 /\ m.len1 < 18
               perr == IF short THEN "PARSE_ERROR" ELSE "NONE"
               n == m.len1 + (IF m.b3 /\ ~ short THEN m.len2 ELSE 0)
    <3>1. /\ Send(c, [AnswerHead(c, request, perr, "0x0000") EXCEPT !.data_len = n])
          /\ inbox' = [inbox EXCEPT ![request.app_id] = Tail(@)]
      BY <1>6, <2>1 DEF exec_capi_getmessage
    <3>2. inbox[request.app_id] \in Seq(CapiMsgs) /\ request.app_id \in AppIds
      BY <1>0, <2>1 DEF DispatchTypes, Owns
    <3>3. m \in CapiMsgs
      BY <2>1, <3>2
    <3>4. n \in Nat
      BY <3>3 DEF CapiMsgs
    <3>5. perr \in ProxyErrors
      OBVIOUS
    <3>6. [AnswerHead(c, request, perr, "0x0000") EXCEPT !.data_len = n] \in Answers
      <4> HIDE DEF n, perr
      <4>1. "0x0000" \in CapiErrors
        OBVIOUS
      <4> HIDE DEF ProxyErrors, CapiErrors
      <4>2. \A k \in Nat :
              [AnswerHead(c, request, perr, "0x0000") EXCEPT !.data_len = k] \in Answers
        BY <3>5, <4>1, AnswerHeadType
      <4>3. QED
        BY <3>4, <4>2
    <3>7. Tail(inbox[request.app_id]) \in Seq(CapiMsgs)
      BY <2>1, <3>2
    <3>8. inbox' \in [AppIds -> Seq(CapiMsgs)]
      BY <1>0, <3>1, <3>2, <3>7 DEF DispatchTypes
    <3> HIDE DEF n, perr
    <3>9. QED
      BY <1>0, <1>6, <3>1, <3>6, <3>8, SendTypeOK DEF exec_capi_getmessage, DispatchTypes
  <2>2. CASE ~ (Owns(c, request.app_id) /\ inbox[request.app_id] # <<>>)
    <3>1. PICK cerr \in CapiErrors : Send(c, AnswerHead(c, request, "NONE", cerr))
      BY <1>6, <2>2 DEF exec_capi_getmessage
    <3>2. UNCHANGED <<registered_apps, waiters, owner, inbox>>
      BY <1>6, <2>2 DEF exec_capi_getmessage
    <3>3. QED
      BY <1>0, <3>1, <3>2, AnswerHeadType, SendTypeOK DEF DispatchTypes
  <2>3. QED
    BY <2>1, <2>2
<1>7. CASE exec_capi_waitforsignal(c, request)
  <2>1. AnswerHead(c, request, "NO_RESSOURCES", "0x1108") \in Answers
    BY AnswerHeadType
  <2>2. [conn |-> c, app_id |-> request.app_id, message_id |-> request.message_id] \in Waiters
    BY DEF Waiters, Requests
  <2>3. QED
    BY <1>0, <1>7, <2>1, <2>2, SendTypeOK
       DEF exec_capi_waitforsignal, DispatchTypes, driverVars
<1>8. CASE \/ exec_capi_isinstalled(c, request) \/ exec_capi_profile(c, request)
           \/ exec_capi_version(c, request) \/ exec_capi_serial(c, request)
           \/ exec_capi_manufacturer(c, request)
  <2>1. PICK cerr \in CapiErrors : Send(c, AnswerHead(c, request, "NONE", cerr))
    BY <1>8 DEF exec_capi_isinstalled, exec_capi_profile, exec_capi_version,
                exec_capi_serial, exec_capi_manufacturer
  <2>2. UNCHANGED <<registered_apps, waiters, driverVars>>
    BY <1>8 DEF exec_capi_isinstalled, exec_capi_profile, exec_capi_version,
                exec_capi_serial, exec_capi_manufacturer
  <2>3. QED
    BY <1>0, <2>1, <2>2, AnswerHeadType, SendTypeOK DEF DispatchTypes, driverVars
<1>9. CASE Ignore(c, request)
  BY <1>0, <1>9 DEF Ignore, DispatchTypes, driverVars
<1>10. QED
  BY <1>1, <1>2, <1>3, <1>4, <1>5, <1>6, <1>7, <1>8, <1>9
     DEF Dispatched, exec_proxy, exec_capi

(* Every step keeps the type invariant. *)
LEMMA TypeOKStep ==
    ASSUME TypeOK, [Next]_vars
    PROVE  TypeOK'
<1> USE CapiFwdAssumption DEF listenerVars, handlerVars, connVars, driverVars
<1>1. CASE sigparent
  BY <1>1 DEF sigparent, TypeOK
<1>2. ASSUME NEW c \in Conns, Connect(c) PROVE TypeOK'
  BY <1>2 DEF Connect, TypeOK, ConnStates
<1>3. ASSUME NEW c \in Conns, SendRequest(c) PROVE TypeOK'
  <2>1. PICK request \in ClientRequests(Len(asked[c]) + 1) :
          asked' = [asked EXCEPT ![c] = Append(@, request)]
    BY <1>3 DEF SendRequest
  <2>2. KnownSessions \subseteq Nat
    <3>1. ASSUME NEW d \in Conns, NEW i \in 1 .. Len(answers[d])
          PROVE  answers[d][i].session_id \in Nat
      <4>1. answers[d] \in Seq(Answers)
        BY DEF TypeOK
      <4>2. answers[d][i] \in Answers
        BY <4>1
      <4>3. QED
        BY <4>2 DEF Answers
    <3>2. QED
      BY <3>1 DEF KnownSessions, TypeOK
  <2>3. Len(asked[c]) + 1 \in Nat
    BY DEF TypeOK
  <2>4. request \in Requests
    <3>1. PutShapes \cup {NoMsg} \subseteq CapiMsgs
      <4>1. NoMsg \in CapiMsgs
        BY DEF CapiMsgs, NoMsg
      <4>2. QED
        BY <4>1
    <3>2. request \in [message_id   : {Len(asked[c]) + 1},
                      message_type : ReqTypes,
                      app_id       : AppIds \cup {0},
                      session_id   : KnownSessions,
                      remainder    : BOOLEAN,
                      auth_type    : AuthTypes,
                      msg          : PutShapes \cup {NoMsg}]
      BY DEF ClientRequests
    <3>3. QED
      BY <2>2, <2>3, <3>1, <3>2 DEF Requests
  <2>5. asked' \in [Conns -> Seq(Requests)]
    BY <2>1, <2>4 DEF TypeOK
  <2>6. QED
    BY <1>3, <2>5 DEF SendRequest, TypeOK
<1>4. ASSUME NEW c \in Conns, Disconnect(c) PROVE TypeOK'
  BY <1>4 DEF Disconnect, TypeOK, ConnStates, Gone
<1>5. ASSUME NEW c \in Conns, accept(c) \/ accept_fork_fails(c) \/ accept_fails(c)
      PROVE  TypeOK'
  <2>1. CASE accept(c)
    BY <2>1 DEF accept, NextSession, TypeOK, HandlerStates
  <2>2. CASE accept_fork_fails(c)
    <3>1. handler' \in [Conns -> HandlerStates]
      BY <2>2 DEF accept_fork_fails, TypeOK, HandlerStates
    <3>2. sessionID' \in Nat
      BY <2>2 DEF accept_fork_fails, NextSession, TypeOK
    <3>3. listening' \in BOOLEAN /\ fds' \subseteq Conns
      BY <2>2 DEF accept_fork_fails
    <3>4. UNCHANGED <<sess, registered_apps, out_packet, waiters, connVars, driverVars>>
      BY <2>2 DEF accept_fork_fails
    <3>5. QED
      BY <3>1, <3>2, <3>3, <3>4 DEF TypeOK
  <2>3. CASE accept_fails(c)
    BY <2>3 DEF accept_fails, TypeOK
  <2>4. QED
    BY <1>5, <2>1, <2>2, <2>3
<1>6. ASSUME NEW c \in Conns, HandleRequest(c) PROVE TypeOK'
  <2>1. taken[c] < Len(asked[c]) /\ taken' = [taken EXCEPT ![c] = @ + 1]
        /\ UNCHANGED <<listenerVars, sess, asked>>
    BY <1>6 DEF HandleRequest
  <2>2. Current(c) \in Requests
    BY <2>1, CurrentIsRequest
  <2>3. CASE BeginRelease(c)
    BY <2>1, <2>3 DEF BeginRelease, TypeOK, HandlerStates
  <2>4. CASE Dispatched(c, Current(c))
    <3>1. DispatchTypes'
      BY <2>2, <2>4, DispatchTypeOK
    <3>2. taken' \in [Conns -> Nat]
      BY <2>1 DEF TypeOK
    <3>3. QED
      BY <2>1, <3>1, <3>2 DEF DispatchTypes, TypeOK
  <2>5. QED
    BY <1>6, <2>3, <2>4 DEF HandleRequest, Dispatched, Current
<1>7. ASSUME NEW c \in Conns, ReceiveFails(c) PROVE TypeOK'
  BY <1>7 DEF ReceiveFails, BeginRelease, TypeOK, HandlerStates
<1>8. ASSUME NEW c \in Conns, release_all(c) PROVE TypeOK'
  <2>1. PICK app \in SetEntries(registered_apps[c]) :
          /\ registered_apps' = [registered_apps EXCEPT ![c] = del_app(app, @)]
          /\ IF Owns(c, app) THEN capi20_release(app) ELSE UNCHANGED driverVars
    BY <1>8 DEF release_all
  <2>2. owner' \in [AppIds -> Conns \cup {None}] /\ inbox' \in [AppIds -> Seq(CapiMsgs)]
    <3>1. CASE Owns(c, app)
      BY <2>1, <3>1, ReleaseTypeOK DEF SetEntries, AppIds
    <3>2. CASE ~ Owns(c, app)
      BY <2>1, <3>2 DEF TypeOK
    <3>3. QED
      BY <3>1, <3>2
  <2>3. registered_apps' \in [Conns -> SUBSET AppIds]
    BY <2>1 DEF del_app, TypeOK
  <2>4. QED
    BY <1>8, <2>2, <2>3 DEF release_all, TypeOK
<1>9. ASSUME NEW c \in Conns, HandlerExits(c) \/ sigchild(c) PROVE TypeOK'
  <2>1. handler' \in [Conns -> HandlerStates]
    BY <1>9 DEF HandlerExits, sigchild, TypeOK, HandlerStates
  <2>2. UNCHANGED <<sess, registered_apps, out_packet, waiters, listenerVars,
                    connVars, driverVars>>
    BY <1>9 DEF HandlerExits, sigchild
  <2>3. QED
    BY <2>1, <2>2 DEF TypeOK
<1>10. ASSUME NEW w \in waiters, NEW cerr \in CapiErrors, WaiterSends(w, cerr)
       PROVE  TypeOK'
  <2>1. w \in Waiters
    BY DEF TypeOK
  <2>2. WaiterHead(w, cerr) \in Answers
    BY <2>1 DEF WaiterHead, Answers, Waiters, TypeOK, CapiTypes, AppTypes, ProxyErrors
  <2>3. answers' \in [Conns -> Seq(Answers)] /\ conn' \in [Conns -> ConnStates]
    <3>1. w.conn \in Conns
      BY <2>1 DEF Waiters
    <3>2. CASE conn[w.conn] = "open"
      <4>1. answers' = [answers EXCEPT ![w.conn] = Append(@, WaiterHead(w, cerr))]
            /\ conn' = conn
        BY <1>10, <3>2 DEF WaiterSends, Gone
      <4>2. QED
        BY <2>2, <3>1, <4>1 DEF TypeOK
    <3>3. CASE conn[w.conn] \in Gone
      BY <1>10, <3>1, <3>3 DEF WaiterSends, TypeOK, Gone, ConnStates
    <3>4. QED
      BY <1>10, <3>2, <3>3 DEF WaiterSends
  <2>4. QED
    BY <1>10, <2>3 DEF WaiterSends, TypeOK
<1>11. ASSUME NEW c \in Conns, WaiterWakes(c) \/ WaiterFails(c) PROVE TypeOK'
  BY <1>10, <1>11 DEF WaiterWakes, WaiterFails, CapiErrors
<1>12. ASSUME NEW c \in Conns, WaiterKilled(c) PROVE TypeOK'
  BY <1>12 DEF WaiterKilled, TypeOK
<1>13. ASSUME NEW app \in AppIds, CapiIndication(app) PROVE TypeOK'
  BY <1>13 DEF CapiIndication, TypeOK
<1>14. ASSUME NEW app \in AppIds, Reap(app) PROVE TypeOK'
  BY <1>14 DEF Reap, capi20_release, TypeOK
<1>15. CASE UNCHANGED vars
  BY <1>15 DEF vars, TypeOK
<1>16. QED
  BY <1>1, <1>2, <1>3, <1>4, <1>5, <1>6, <1>7, <1>8, <1>9, <1>11, <1>12, <1>13,
     <1>14, <1>15 DEF Next

(* The initial state is well typed. *)
LEMMA TypeOKInit == ASSUME Init PROVE TypeOK
BY CapiFwdAssumption DEF Init, TypeOK, HandlerStates, ConnStates, CapiErrors

(* The processes, the connections and the driver keep the shape the code   *)
(* gives them.                                                             *)
THEOREM TypeCorrect == Spec => []TypeOK
BY TypeOKInit, TypeOKStep, PTL DEF Spec

-----------------------------------------------------------------------------
(* What serving a request may do to the applications and to the handler:   *)
(* it leaves the applications alone, registers a free number, or, for a    *)
(* RELEASE that names one of its own, gives it back.  Sending the answer   *)
(* may end the process.                                                    *)
StaysOrPipes(c) ==
    handler' = handler \/ handler' = [handler EXCEPT ![c] = "sigpipe"]

KeepsApps == owner' = owner /\ registered_apps' = registered_apps

GainsApp(c, app) ==
    /\ owner[app] = None
    /\ owner' = [owner EXCEPT ![app] = c]
    /\ registered_apps' = [registered_apps EXCEPT ![c] = @ \cup {app}]

DropsApp(c, app) ==
    /\ owner[app] = c
    /\ owner' = [owner EXCEPT ![app] = None]
    /\ registered_apps' = [registered_apps EXCEPT ![c] = @ \ {app}]

(* Sending an answer does not touch the handler. *)
LEMMA SendKeepsHandler ==
    ASSUME NEW c, NEW head, Send(c, head)
    PROVE  StaysOrPipes(c)
BY DEF Send, StaysOrPipes

(* What dispatching one request may do to the two application lists. *)
LEMMA DispatchEffect ==
    ASSUME NEW c \in Conns, NEW request, Dispatched(c, request)
    PROVE  /\ StaysOrPipes(c)
           /\ \/ KeepsApps
              \/ \E app \in AppIds : GainsApp(c, app)
              \/ \E app \in AppIds : /\ DropsApp(c, app)
                                     /\ request.message_type = "CAPI_RELEASE"
                                     /\ request.app_id = app
                                     /\ request.session_id = sess[c]
<1>1. CASE exec_proxy(c, request)
  BY <1>1, SendKeepsHandler
     DEF exec_proxy, exec_proxy_helo, exec_proxy_auth, KeepsApps, driverVars
<1>2. CASE SessionMatches(c, request) /\ exec_capi_register(c, request)
  <2>1. CASE \E app \in AppIds :
               /\ capi20_register(c, app)
               /\ registered_apps' = [registered_apps EXCEPT ![c] = add_app(app, @)]
               /\ Send(c, [AnswerHead(c, request, "NONE", "0x0000") EXCEPT !.app_id = app])
    BY <2>1, SendKeepsHandler DEF capi20_register, add_app, GainsApp
  <2>2. CASE /\ Send(c, [AnswerHead(c, request, "NONE", "0x1108") EXCEPT
                             !.app_id = out_packet[c].app_id])
             /\ UNCHANGED <<registered_apps, driverVars>>
    BY <2>2, SendKeepsHandler DEF KeepsApps, driverVars
  <2>3. QED
    BY <1>2, <2>1, <2>2 DEF exec_capi_register
<1>3. CASE SessionMatches(c, request) /\ exec_capi_release(c, request)
  <2>1. CASE Owns(c, request.app_id)
    BY <1>3, <2>1, SendKeepsHandler
       DEF exec_capi_release, Owns, capi20_release, del_app, DropsApp, SessionMatches
  <2>2. CASE ~ Owns(c, request.app_id)
    BY <1>3, <2>2, SendKeepsHandler DEF exec_capi_release, KeepsApps, driverVars
  <2>3. QED
    BY <2>1, <2>2
<1>4. CASE exec_capi_getmessage(c, request)
  BY <1>4, SendKeepsHandler DEF exec_capi_getmessage, KeepsApps
<1>5. CASE exec_capi_waitforsignal(c, request)
  BY <1>5, SendKeepsHandler
     DEF exec_capi_waitforsignal, KeepsApps, driverVars, StaysOrPipes
<1>6. CASE \/ exec_capi_putmessage(c, request)
           \/ exec_capi_isinstalled(c, request) \/ exec_capi_profile(c, request)
           \/ exec_capi_version(c, request) \/ exec_capi_serial(c, request)
           \/ exec_capi_manufacturer(c, request)
  BY <1>6, SendKeepsHandler
     DEF exec_capi_putmessage, exec_capi_isinstalled, exec_capi_profile,
         exec_capi_version, exec_capi_serial, exec_capi_manufacturer, KeepsApps, driverVars
<1>7. CASE Ignore(c, request)
  BY <1>7 DEF Ignore, KeepsApps, driverVars, StaysOrPipes
<1>8. QED
  BY <1>1, <1>2, <1>3, <1>4, <1>5, <1>6, <1>7 DEF Dispatched, exec_capi

-----------------------------------------------------------------------------
(* The steps of the server, seen from the applications. *)
LEMMA AppStep ==
    ASSUME TypeOK, [Next]_vars
    PROVE  \/ KeepsApps /\ handler' = handler
           \/ \E c \in Conns :
                 \/ /\ handler[c] = "none" /\ KeepsApps
                    /\ \E state \in {"serving", "refused"} :
                          handler' = [handler EXCEPT ![c] = state]
                 \/ /\ handler[c] = "serving" /\ KeepsApps
                    /\ handler' = [handler EXCEPT ![c] = "releasing"]
                 \/ /\ handler[c] \in {"serving", "releasing"} /\ KeepsApps
                    /\ handler' = [handler EXCEPT ![c] = "sigterm"]
                 \/ /\ handler[c] = "serving" /\ StaysOrPipes(c)
                    /\ KeepsApps \/ \E app \in AppIds : GainsApp(c, app) \/ DropsApp(c, app)
                 \/ /\ handler[c] = "releasing" /\ handler' = handler
                    /\ \E app \in registered_apps[c] :
                          /\ registered_apps' = [registered_apps EXCEPT ![c] = @ \ {app}]
                          /\ IF Owns(c, app) THEN owner' = [owner EXCEPT ![app] = None]
                                             ELSE owner' = owner
                 \/ /\ handler[c] = "releasing" /\ KeepsApps
                    /\ registered_apps[c] = {}
                    /\ handler' = [handler EXCEPT ![c] = "exited"]
           \/ \E app \in AppIds :
                 /\ owner[app] # None /\ handler[owner[app]] \in {"sigpipe", "sigterm"}
                 /\ owner' = [owner EXCEPT ![app] = None]
                 /\ registered_apps' = registered_apps /\ handler' = handler
<1> USE DEF listenerVars, handlerVars, connVars, driverVars
<1>1. CASE sigparent
  BY <1>1 DEF sigparent, KeepsApps
<1>2. ASSUME NEW c \in Conns, Connect(c) \/ SendRequest(c) \/ Disconnect(c) \/ accept_fails(c)
      PROVE  KeepsApps /\ handler' = handler
  BY <1>2 DEF Connect, SendRequest, Disconnect, accept_fails, KeepsApps
<1>3. ASSUME NEW c \in Conns, accept(c) \/ accept_fork_fails(c)
      PROVE  /\ handler[c] = "none" /\ KeepsApps
             /\ \E state \in {"serving", "refused"} :
                   handler' = [handler EXCEPT ![c] = state]
  BY <1>3 DEF accept, accept_fork_fails, KeepsApps
<1>4. ASSUME NEW c \in Conns, HandleRequest(c)
      PROVE  /\ handler[c] = "serving"
             /\ \/ KeepsApps /\ handler' = [handler EXCEPT ![c] = "releasing"]
                \/ /\ StaysOrPipes(c)
                   /\ KeepsApps \/ \E app \in AppIds : GainsApp(c, app) \/ DropsApp(c, app)
  <2>1. CASE BeginRelease(c)
    BY <1>4, <2>1 DEF HandleRequest, BeginRelease, KeepsApps
  <2>2. CASE Dispatched(c, Current(c))
    BY <1>4, <2>2, DispatchEffect DEF HandleRequest
  <2>3. QED
    BY <1>4, <2>1, <2>2 DEF HandleRequest, Dispatched, Current
<1>5. ASSUME NEW c \in Conns, ReceiveFails(c)
      PROVE  /\ handler[c] = "serving" /\ KeepsApps
             /\ handler' = [handler EXCEPT ![c] = "releasing"]
  BY <1>5 DEF ReceiveFails, BeginRelease, KeepsApps
<1>6. ASSUME NEW c \in Conns, release_all(c)
      PROVE  /\ handler[c] = "releasing" /\ handler' = handler
             /\ \E app \in registered_apps[c] :
                   /\ registered_apps' = [registered_apps EXCEPT ![c] = @ \ {app}]
                   /\ IF Owns(c, app) THEN owner' = [owner EXCEPT ![app] = None]
                                      ELSE owner' = owner
  BY <1>6 DEF release_all, SetEntries, del_app, capi20_release
<1>7. ASSUME NEW c \in Conns, HandlerExits(c)
      PROVE  /\ handler[c] = "releasing" /\ KeepsApps
             /\ registered_apps[c] = {}
             /\ handler' = [handler EXCEPT ![c] = "exited"]
  BY <1>7 DEF HandlerExits, SetEntries, KeepsApps, TypeOK, AppIds
<1>8. ASSUME NEW c \in Conns, sigchild(c)
      PROVE  /\ handler[c] \in {"serving", "releasing"} /\ KeepsApps
             /\ handler' = [handler EXCEPT ![c] = "sigterm"]
  BY <1>8 DEF sigchild, KeepsApps
<1>9. ASSUME NEW c \in Conns, WaiterWakes(c) \/ WaiterFails(c) \/ WaiterKilled(c)
      PROVE  KeepsApps /\ handler' = handler
  BY <1>9 DEF WaiterWakes, WaiterFails, WaiterKilled, WaiterSends, KeepsApps
<1>10. ASSUME NEW app \in AppIds, CapiIndication(app)
       PROVE  KeepsApps /\ handler' = handler
  BY <1>10 DEF CapiIndication, KeepsApps
<1>11. ASSUME NEW app \in AppIds, Reap(app)
       PROVE  /\ owner[app] # None /\ handler[owner[app]] \in {"sigpipe", "sigterm"}
              /\ owner' = [owner EXCEPT ![app] = None]
              /\ registered_apps' = registered_apps /\ handler' = handler
  BY <1>11 DEF Reap, capi20_release
<1>12. CASE UNCHANGED vars
  BY <1>12 DEF vars, KeepsApps
<1>13. QED
  BY <1>1, <1>2, <1>3, <1>4, <1>5, <1>6, <1>7, <1>8, <1>9, <1>10, <1>11, <1>12 DEF Next

-----------------------------------------------------------------------------
(* The inductive form of AppsAccounted: a connection without a handler     *)
(* has an empty list, which is what its handler starts from.               *)
AppsInv ==
    /\ AppsAccounted
    /\ \A c \in Conns : handler[c] = "none" => registered_apps[c] = {}

(* Initially no application is registered. *)
LEMMA AppsInvInit == ASSUME Init PROVE AppsInv
BY CapiFwdAssumption DEF Init, AppsInv, AppsAccounted

(* Every step keeps the two application lists in agreement. *)
LEMMA AppsInvStep ==
    ASSUME TypeOK, TypeOK', AppsInv, [Next]_vars
    PROVE  AppsInv'
<1> USE CapiFwdAssumption DEF AppsInv, AppsAccounted
<1>1. CASE KeepsApps /\ handler' = handler
  BY <1>1 DEF KeepsApps
<1>2. ASSUME NEW c \in Conns, handler[c] = "none", KeepsApps,
             NEW state \in {"serving", "refused"}, handler' = [handler EXCEPT ![c] = state]
      PROVE  AppsInv'
  <2>1. \A a \in AppIds : owner[a] # c
    BY <1>2
  <2>2. \A d \in Conns : d # c => handler'[d] = handler[d]
    BY <1>2 DEF TypeOK
  <2>3. handler'[c] = state
    BY <1>2 DEF TypeOK
  <2>4. QED
    BY <1>2, <2>1, <2>2, <2>3 DEF KeepsApps
<1>3. ASSUME NEW c \in Conns, handler[c] \in {"serving", "releasing"}, KeepsApps,
             NEW state \in {"releasing", "sigterm", "sigpipe"},
             handler' = [handler EXCEPT ![c] = state]
      PROVE  AppsInv'
  BY <1>3 DEF KeepsApps, TypeOK
<1>4. ASSUME NEW c \in Conns, handler[c] = "serving", StaysOrPipes(c),
             NEW app \in AppIds, GainsApp(c, app) \/ DropsApp(c, app)
      PROVE  AppsInv'
  <2>0. /\ \A a \in AppIds : a # app => owner'[a] = owner[a]
        /\ \A d \in Conns : d # c => registered_apps'[d] = registered_apps[d]
        /\ \/ /\ owner[app] = None /\ owner'[app] = c
              /\ registered_apps'[c] = registered_apps[c] \cup {app}
           \/ /\ owner[app] = c /\ owner'[app] = None
              /\ registered_apps'[c] = registered_apps[c] \ {app}
    BY <1>4 DEF GainsApp, DropsApp, TypeOK
  <2>1. ASSUME NEW d \in Conns, handler'[d] \in {"serving", "releasing"}
        PROVE  registered_apps'[d] = {a \in AppIds : owner'[a] = d}
    <3>1. handler[d] \in {"serving", "releasing"}
      BY <1>4, <2>1 DEF StaysOrPipes, TypeOK
    <3>2. registered_apps[d] = {a \in AppIds : owner[a] = d}
      BY <3>1
    <3> HIDE DEF AppsInv, AppsAccounted
    <3>3. CASE d = c
      BY <2>0, <3>2, <3>3
    <3>4. CASE d # c
      BY <2>0, <3>2, <3>4
    <3>5. QED
      BY <3>3, <3>4
  <2>2. ASSUME NEW a \in AppIds, owner'[a] # None
        PROVE  handler'[owner'[a]] \in {"serving", "releasing", "sigpipe", "sigterm"}
    <3>1. owner'[a] = c \/ owner'[a] = owner[a]
      BY <2>0, <2>2
    <3>2. \A d \in Conns : handler'[d] = handler[d] \/ (d = c /\ handler'[d] = "sigpipe")
      BY <1>4 DEF StaysOrPipes, TypeOK
    <3>3. owner'[a] \in Conns
      BY <2>2 DEF TypeOK
    <3>4. QED
      BY <1>4, <2>2, <3>1, <3>2, <3>3
  <2>3. ASSUME NEW d \in Conns, handler'[d] = "none"
        PROVE  registered_apps'[d] = {}
    <3>1. handler[d] = "none" /\ d # c
      <4> HIDE DEF AppsInv, AppsAccounted
      <4> QED BY <1>4, <2>3 DEF StaysOrPipes, TypeOK
    <3>2. QED
      BY <2>0, <3>1
  <2>4. QED
    BY <2>1, <2>2, <2>3
<1>5. ASSUME NEW c \in Conns, handler[c] = "releasing", handler' = handler,
             NEW app \in registered_apps[c],
             registered_apps' = [registered_apps EXCEPT ![c] = @ \ {app}],
             IF Owns(c, app) THEN owner' = [owner EXCEPT ![app] = None]
                             ELSE owner' = owner
      PROVE  AppsInv'
  <2>1. app \in AppIds /\ owner[app] = c
    BY <1>5
  <2>2. owner' = [owner EXCEPT ![app] = None]
    BY <1>5, <2>1 DEF Owns
  <2>3. \A a \in AppIds : owner'[a] = IF a = app THEN None ELSE owner[a]
    BY <2>2 DEF TypeOK
  <2>4. \A d \in Conns : registered_apps'[d] = IF d = c THEN registered_apps[c] \ {app}
                                                      ELSE registered_apps[d]
    BY <1>5 DEF TypeOK
  <2>5. QED
    BY <1>5, <2>1, <2>3, <2>4
<1>6. ASSUME NEW c \in Conns, handler[c] = "releasing", KeepsApps,
             registered_apps[c] = {}, handler' = [handler EXCEPT ![c] = "exited"]
      PROVE  AppsInv'
  BY <1>6 DEF KeepsApps, TypeOK
<1>7. ASSUME NEW app \in AppIds, owner[app] # None,
             handler[owner[app]] \in {"sigpipe", "sigterm"},
             owner' = [owner EXCEPT ![app] = None],
             registered_apps' = registered_apps, handler' = handler
      PROVE  AppsInv'
  <2>1. \A a \in AppIds : owner'[a] = IF a = app THEN None ELSE owner[a]
    BY <1>7 DEF TypeOK
  <2>2. owner[app] \in Conns
    BY <1>7 DEF TypeOK
  <2>3. ASSUME NEW d \in Conns, handler[d] \in {"serving", "releasing"}
        PROVE  registered_apps[d] = {a \in AppIds : owner'[a] = d}
    <3>1. registered_apps[d] = {a \in AppIds : owner[a] = d} /\ d # owner[app]
      BY <1>7, <2>3
    <3> HIDE DEF AppsInv, AppsAccounted
    <3>2. QED
      BY <2>1, <2>2, <3>1
  <2>4. QED
    BY <1>7, <2>1, <2>3
<1> HIDE DEF AppsInv, AppsAccounted
<1>8. ASSUME NEW c \in Conns, handler[c] = "serving", StaysOrPipes(c),
             KeepsApps \/ \E app \in AppIds : GainsApp(c, app) \/ DropsApp(c, app)
      PROVE  AppsInv'
  BY <1>1, <1>3, <1>4, <1>8 DEF StaysOrPipes
<1>9. QED
  BY <1>1, <1>2, <1>3, <1>5, <1>6, <1>7, <1>8, AppStep

(* The proxy and the CAPI never disagree about who has which application,  *)
(* and a handler that reached the end of its connection leaves none        *)
(* behind, for any number of connections and applications.                 *)
THEOREM AppsCorrect == Spec => []AppsAccounted
<1>1. Init => TypeOK /\ AppsInv
  BY TypeOKInit, AppsInvInit
<1>2. TypeOK /\ AppsInv /\ [Next]_vars => (TypeOK /\ AppsInv)'
  BY TypeOKStep, AppsInvStep
<1>3. AppsInv => AppsAccounted
  BY DEF AppsInv
<1>4. QED
  BY <1>1, <1>2, <1>3, PTL DEF Spec

-----------------------------------------------------------------------------
(* capifwd implements AppRegistry. *)

LEMMA RegistryInit == ASSUME Init PROVE Registry!Init
BY DEF Init, Registry!Init, Phase

(* A handler that does not change is in the same phase. *)
LEMMA RegistryStep ==
    ASSUME TypeOK, AppsInv, [Next]_vars
    PROVE  [Registry!Next]_(Registry!vars)
<1> DEFINE ph == [c \in Conns |-> Phase(handler[c])]
<1> USE CapiFwdAssumption
<1>1. CASE owner' = owner /\ handler' = handler
  BY <1>1 DEF Registry!vars
<1>2. ASSUME NEW c \in Conns, NEW state \in HandlerStates,
             handler' = [handler EXCEPT ![c] = state]
      PROVE  ph' = [ph EXCEPT ![c] = Phase(state)]
  BY <1>2 DEF TypeOK
<1>3. ASSUME NEW c \in Conns, handler[c] = "none", KeepsApps,
             NEW state \in {"serving", "refused"}, handler' = [handler EXCEPT ![c] = state]
      PROVE  [Registry!Next]_(Registry!vars)
  <2>1. ph' = [ph EXCEPT ![c] = Phase(state)]
    BY <1>3 DEF TypeOK
  <2>2. CASE state = "serving"
    <3>1. Registry!Open(c)
      BY <1>3, <2>1, <2>2 DEF Registry!Open, Phase, KeepsApps
    <3>2. QED
      BY <3>1 DEF Registry!Next
  <2>3. CASE state = "refused"
    <3>1. ph' = ph
      BY <1>3, <2>1, <2>3 DEF Phase
    <3>2. QED
      BY <1>3, <3>1 DEF Registry!vars, KeepsApps
  <2>4. QED
    BY <2>2, <2>3
<1>4. ASSUME NEW c \in Conns, handler[c] = "serving", KeepsApps,
             handler' = [handler EXCEPT ![c] = "releasing"]
      PROVE  [Registry!Next]_(Registry!vars)
  <2>1. Registry!BreakDown(c)
    BY <1>2, <1>4 DEF Registry!BreakDown, Phase, KeepsApps, HandlerStates
  <2>2. QED
    BY <2>1 DEF Registry!Next
<1>5. ASSUME NEW c \in Conns, handler[c] \in {"serving", "releasing"}, KeepsApps,
             NEW state \in {"sigterm", "sigpipe"}, handler' = [handler EXCEPT ![c] = state]
      PROVE  [Registry!Next]_(Registry!vars)
  <2>1. Registry!Die(c)
    BY <1>2, <1>5 DEF Registry!Die, Phase, KeepsApps, HandlerStates
  <2>2. QED
    BY <2>1 DEF Registry!Next
<1>6. ASSUME NEW c \in Conns, handler[c] = "serving", StaysOrPipes(c),
             NEW app \in AppIds, GainsApp(c, app) \/ DropsApp(c, app)
      PROVE  [Registry!Next]_(Registry!vars)
  <2>1. Registry!StaysOrDies(c)
    <3>1. CASE handler' = handler
      BY <3>1 DEF Registry!StaysOrDies
    <3>2. CASE handler' = [handler EXCEPT ![c] = "sigpipe"]
      <4>1. ph' = [ph EXCEPT ![c] = Phase("sigpipe")]
        BY <3>2 DEF TypeOK
      <4>2. QED
        BY <4>1 DEF Registry!StaysOrDies, Phase
    <3>3. QED
      BY <1>6, <3>1, <3>2 DEF StaysOrPipes
  <2>2. Registry!Acquire(c, app) \/ Registry!GiveBack(c, app)
    BY <1>6, <2>1 DEF Registry!Acquire, Registry!GiveBack, GainsApp, DropsApp, Phase
  <2>3. QED
    BY <2>2 DEF Registry!Next
<1>7. ASSUME NEW c \in Conns, handler[c] = "releasing", handler' = handler,
             NEW app \in registered_apps[c],
             IF Owns(c, app) THEN owner' = [owner EXCEPT ![app] = None]
                             ELSE owner' = owner
      PROVE  [Registry!Next]_(Registry!vars)
  <2>1. app \in AppIds /\ owner[app] = c
    BY <1>7 DEF AppsInv, AppsAccounted
  <2>2. Registry!Drain(c, app)
    BY <1>7, <2>1 DEF Registry!Drain, Owns, Phase
  <2>3. QED
    BY <2>1, <2>2 DEF Registry!Next
<1>8. ASSUME NEW c \in Conns, handler[c] = "releasing", KeepsApps,
             registered_apps[c] = {}, handler' = [handler EXCEPT ![c] = "exited"]
      PROVE  [Registry!Next]_(Registry!vars)
  <2>1. Registry!Held(c) = {}
    BY <1>8 DEF AppsInv, AppsAccounted, Registry!Held
  <2>2. Registry!Finish(c)
    BY <1>2, <1>8, <2>1 DEF Registry!Finish, Phase, KeepsApps, HandlerStates
  <2>3. QED
    BY <2>2 DEF Registry!Next
<1>9. ASSUME NEW app \in AppIds, owner[app] # None,
             handler[owner[app]] \in {"sigpipe", "sigterm"},
             owner' = [owner EXCEPT ![app] = None], handler' = handler
      PROVE  [Registry!Next]_(Registry!vars)
  <2>1. owner[app] \in Conns
    BY <1>9 DEF TypeOK
  <2>2. Registry!Reclaim(app)
    BY <1>9, <2>1 DEF Registry!Reclaim, Phase
  <2>3. QED
    BY <2>2 DEF Registry!Next
<1>10. ASSUME NEW c \in Conns, handler[c] = "serving", StaysOrPipes(c),
              KeepsApps \/ \E app \in AppIds : GainsApp(c, app) \/ DropsApp(c, app)
       PROVE  [Registry!Next]_(Registry!vars)
  BY <1>1, <1>5, <1>6, <1>10 DEF StaysOrPipes, KeepsApps
<1>11. QED
  BY <1>1, <1>3, <1>4, <1>5, <1>7, <1>8, <1>9, <1>10, AppStep DEF KeepsApps

(* Every behaviour of capifwd is one that AppRegistry allows. *)
THEOREM RefinesRegistry == Spec => RegistrySpec
<1>1. Init => TypeOK /\ AppsInv
  BY TypeOKInit, AppsInvInit
<1>2. TypeOK /\ AppsInv /\ [Next]_vars => (TypeOK /\ AppsInv)'
  BY TypeOKStep, AppsInvStep
<1>3. Init => Registry!Init
  BY RegistryInit
<1>4. TypeOK /\ AppsInv /\ [Next]_vars => [Registry!Next]_(Registry!vars)
  BY RegistryStep
<1>5. QED
  BY <1>1, <1>2, <1>3, <1>4, PTL DEF Spec, RegistrySpec, Registry!Spec

-----------------------------------------------------------------------------
(* Sessions.  Only accept() starts a handler, and it is the only step that *)
(* gives out a session number.                                             *)

LEMMA SessionStep ==
    ASSUME TypeOK, [Next]_vars
    PROVE  \/ \E c \in Conns :
                /\ handler' = [handler EXCEPT ![c] = "serving"]
                /\ sessionID' = sessionID + 1
                /\ sess' = [sess EXCEPT ![c] = sessionID + 1]
           \/ /\ sess' = sess
              /\ sessionID' \in {sessionID, sessionID + 1}
              /\ \A d \in Conns : Accepted(d)' => Accepted(d)
<1> USE DEF listenerVars, handlerVars, connVars, driverVars
<1>1. ASSUME NEW c \in Conns, accept(c)
      PROVE  /\ handler' = [handler EXCEPT ![c] = "serving"]
             /\ sessionID' = sessionID + 1
             /\ sess' = [sess EXCEPT ![c] = sessionID + 1]
  BY <1>1 DEF accept, NextSession
<1> DEFINE Other == /\ sess' = sess
                    /\ sessionID' \in {sessionID, sessionID + 1}
                    /\ \A d \in Conns : Accepted(d)' => Accepted(d)
<1>2. ASSUME NEW c \in Conns, accept_fork_fails(c) PROVE Other
  BY <1>2 DEF accept_fork_fails, NextSession, Accepted, TypeOK
<1>3. ASSUME sess' = sess, sessionID' = sessionID, handler' = handler PROVE Other
  BY <1>3 DEF Accepted
<1>4. ASSUME NEW c \in Conns, handler[c] \in {"serving", "releasing"},
             sess' = sess, sessionID' = sessionID,
             \E state \in HandlerStates : handler' = [handler EXCEPT ![c] = state]
      PROVE  Other
  BY <1>4 DEF Accepted, TypeOK
<1>5. ASSUME NEW c \in Conns, HandleRequest(c) PROVE Other
  <2>1. handler[c] = "serving" /\ sess' = sess /\ sessionID' = sessionID
    BY <1>5 DEF HandleRequest
  <2>2. CASE BeginRelease(c)
    BY <1>4, <2>1, <2>2 DEF BeginRelease, HandlerStates
  <2>3. CASE Dispatched(c, Current(c))
    <3>1. StaysOrPipes(c)
      BY <2>3, DispatchEffect
    <3>2. QED
      BY <1>3, <1>4, <2>1, <3>1 DEF StaysOrPipes, HandlerStates
  <2>4. QED
    BY <1>5, <2>2, <2>3 DEF HandleRequest, Dispatched, Current
<1>6. ASSUME NEW c \in Conns, ReceiveFails(c) \/ HandlerExits(c) \/ sigchild(c)
      PROVE  Other
  <2>1. /\ handler[c] \in {"serving", "releasing"}
        /\ sess' = sess /\ sessionID' = sessionID
    BY <1>6 DEF ReceiveFails, HandlerExits, sigchild
  <2>2. \E state \in HandlerStates : handler' = [handler EXCEPT ![c] = state]
    BY <1>6 DEF ReceiveFails, BeginRelease, HandlerExits, sigchild, HandlerStates
  <2>3. QED
    BY <1>4, <2>1, <2>2
<1>7. ASSUME sigparent \/ UNCHANGED vars PROVE Other
  BY <1>3, <1>7 DEF sigparent, vars
<1>8. ASSUME NEW c \in Conns, Connect(c) \/ SendRequest(c) \/ Disconnect(c) \/ accept_fails(c)
      PROVE  Other
  BY <1>3, <1>8 DEF Connect, SendRequest, Disconnect, accept_fails
<1>9. ASSUME NEW c \in Conns,
             release_all(c) \/ WaiterWakes(c) \/ WaiterFails(c) \/ WaiterKilled(c)
      PROVE  Other
  BY <1>3, <1>9 DEF release_all, WaiterWakes, WaiterFails, WaiterKilled, WaiterSends
<1>10. ASSUME NEW app \in AppIds, CapiIndication(app) \/ Reap(app) PROVE Other
  BY <1>3, <1>10 DEF CapiIndication, Reap
<1> HIDE DEF Other
<1>11. (\E c \in Conns : accept(c)) \/ Other
  BY <1>2, <1>5, <1>6, <1>7, <1>8, <1>9, <1>10 DEF Next
<1>12. QED
  BY <1>1, <1>11 DEF Other

(* The inductive form of SessionsDistinct: the counter has not gone below  *)
(* the number it starts from.                                              *)
SessionsInv == SessionsDistinct /\ sessionID >= 2

(* Every step keeps the sessions within their bound. *)
LEMMA SessionsInvStep ==
    ASSUME TypeOK, SessionsInv, [Next]_vars
    PROVE  SessionsInv'
<1>1. sessionID \in Nat /\ \A d \in Conns : sess[d] \in Nat
  BY DEF TypeOK
<1>2. ASSUME NEW c \in Conns, handler' = [handler EXCEPT ![c] = "serving"],
             sessionID' = sessionID + 1, sess' = [sess EXCEPT ![c] = sessionID + 1]
      PROVE  SessionsInv'
  <2>1. sess'[c] = sessionID + 1
    BY <1>2 DEF TypeOK
  <2>2. \A d \in Conns : d # c => sess'[d] = sess[d] /\ (Accepted(d)' <=> Accepted(d))
    BY <1>2 DEF TypeOK, Accepted
  <2>3. \A d \in Conns : d # c /\ Accepted(d)' => sess'[d] \in 3 .. sessionID
    BY <2>2 DEF SessionsInv, SessionsDistinct
  <2>4. \A d \in Conns : Accepted(d)' => sess'[d] \in 3 .. sessionID'
    BY <1>1, <1>2, <2>1, <2>3 DEF SessionsInv
  <2>5. ASSUME NEW d \in Conns, NEW e \in Conns, Accepted(d)', Accepted(e)',
               sess'[d] = sess'[e]
        PROVE  d = e
    <3>1. CASE d # c /\ e # c
      BY <2>2, <2>5, <3>1 DEF SessionsInv, SessionsDistinct
    <3>2. CASE d = c \/ e = c
      BY <1>1, <2>1, <2>3, <2>5, <3>2
    <3>3. QED
      BY <3>1, <3>2
  <2>6. QED
    BY <1>1, <1>2, <2>4, <2>5 DEF SessionsInv, SessionsDistinct
<1>3. ASSUME sess' = sess, sessionID' \in {sessionID, sessionID + 1},
             \A d \in Conns : Accepted(d)' => Accepted(d)
      PROVE  SessionsInv'
  BY <1>1, <1>3 DEF SessionsInv, SessionsDistinct
<1>4. QED
  BY <1>2, <1>3, SessionStep

(* No two handlers of a listener ever serve the same session id, however   *)
(* many connections it accepts and however they end.                       *)
THEOREM SessionsCorrect == Spec => []SessionsDistinct
<1>1. Init => TypeOK /\ SessionsInv
  BY TypeOKInit DEF Init, SessionsInv, SessionsDistinct, Accepted
<1>2. TypeOK /\ SessionsInv /\ [Next]_vars => (TypeOK /\ SessionsInv)'
  BY TypeOKStep, SessionsInvStep
<1>3. SessionsInv => SessionsDistinct
  BY DEF SessionsInv
<1>4. QED
  BY <1>1, <1>2, <1>3, PTL DEF Spec

-----------------------------------------------------------------------------
(* Who can take an application from a serving handler. *)

LEMMA TakenStep ==
    ASSUME TypeOK, [Next]_vars, NEW app \in AppIds, NEW c \in Conns,
           owner[app] = c, owner'[app] # c, handler[c] = "serving"
    PROVE  /\ taken'[c] = taken[c] + 1
           /\ asked[c][taken'[c]].message_type = "CAPI_RELEASE"
           /\ asked[c][taken'[c]].app_id = app
           /\ asked[c][taken'[c]].session_id = sess[c]
<1> USE DEF listenerVars, handlerVars, connVars, driverVars
<1>0. c # None
  BY CapiFwdAssumption
<1>1. owner' # owner
  OBVIOUS
<1>2. ASSUME NEW d \in Conns, HandleRequest(d)
      PROVE  /\ taken'[c] = taken[c] + 1
             /\ asked[c][taken'[c]].message_type = "CAPI_RELEASE"
             /\ asked[c][taken'[c]].app_id = app
             /\ asked[c][taken'[c]].session_id = sess[c]
  <2>1. Dispatched(d, Current(d))
    BY <1>1, <1>2 DEF HandleRequest, BeginRelease, Dispatched, Current
  <2>2. PICK a \in AppIds : \/ GainsApp(d, a)
                            \/ /\ DropsApp(d, a)
                               /\ Current(d).message_type = "CAPI_RELEASE"
                               /\ Current(d).app_id = a
                               /\ Current(d).session_id = sess[d]
    BY <1>1, <2>1, DispatchEffect DEF KeepsApps
  <2>3. a = app
    BY <2>2 DEF GainsApp, DropsApp, TypeOK
  <2>4. ~ GainsApp(d, a)
    BY <1>0, <2>3 DEF GainsApp
  <2>5. d = c
    BY <2>2, <2>3, <2>4 DEF DropsApp
  <2>6. taken'[c] = taken[c] + 1
    BY <1>2, <2>5 DEF HandleRequest, TypeOK
  <2>7. QED
    BY <2>2, <2>3, <2>4, <2>5, <2>6 DEF Current
<1>3. ASSUME NEW d \in Conns, release_all(d) PROVE FALSE
  <2>1. PICK a \in AppIds : handler[d] = "releasing" /\ Owns(d, a)
                            /\ owner' = [owner EXCEPT ![a] = None]
    BY <1>1, <1>3 DEF release_all, SetEntries, AppIds, capi20_release, Owns
  <2>2. a = app
    BY <2>1 DEF TypeOK
  <2>3. QED
    BY <2>1, <2>2 DEF Owns
<1>4. ASSUME NEW a \in AppIds, Reap(a) PROVE FALSE
  <2>1. a = app
    BY <1>4 DEF Reap, capi20_release, TypeOK
  <2>2. QED
    BY <1>4, <2>1 DEF Reap
<1>5. ASSUME NEW d \in Conns,
             \/ Connect(d) \/ SendRequest(d) \/ Disconnect(d)
             \/ accept(d) \/ accept_fork_fails(d) \/ accept_fails(d)
             \/ ReceiveFails(d) \/ HandlerExits(d) \/ sigchild(d)
             \/ WaiterWakes(d) \/ WaiterFails(d) \/ WaiterKilled(d)
      PROVE  FALSE
  <2>1. owner' = owner
    BY <1>5 DEF Connect, SendRequest, Disconnect, accept, accept_fork_fails,
       accept_fails, ReceiveFails, BeginRelease, HandlerExits, sigchild, WaiterWakes,
       WaiterFails, WaiterKilled, WaiterSends
  <2>2. QED
    BY <1>1, <2>1
<1>6. ASSUME sigparent \/ (\E a \in AppIds : CapiIndication(a)) \/ UNCHANGED vars PROVE FALSE
  BY <1>1, <1>6 DEF sigparent, CapiIndication, vars
<1>7. QED
  BY <1>2, <1>3, <1>4, <1>5, <1>6 DEF Next

(* While a handler serves, the only thing that takes an application from   *)
(* it is a RELEASE it reads from its own client with its own session id.   *)
THEOREM OnlyOwnReleaseTakes == Spec => TakenOnlyByOwner
<1>1. TypeOK /\ [Next]_vars =>
        \A app \in AppIds, c \in Conns :
          (owner[app] = c /\ owner'[app] # c /\ handler[c] = "serving") =>
              /\ taken'[c] = taken[c] + 1
              /\ LET request == asked[c][taken'[c]]
                 IN  /\ request.message_type = "CAPI_RELEASE"
                     /\ request.app_id = app
                     /\ request.session_id = sess[c]
  BY TakenStep
<1>2. QED
  BY <1>1, TypeCorrect, PTL DEF Spec, TakenOnlyByOwner
=============================================================================
