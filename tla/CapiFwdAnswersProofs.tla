------------------------ MODULE CapiFwdAnswersProofs ------------------------
(***************************************************************************)
(* Theorems about the answers of capifwd, for any number of connections,   *)
(* applications and requests.                                              *)
(***************************************************************************)
EXTENDS CapiFwdProofs

(* "answer" answers "request" of session s. *)
Fits(s, answer, request) ==
    /\ answer.message_id = request.message_id
    /\ answer.message_type = request.message_type
    /\ answer.message_type \in AppTypes => answer.app_id = request.app_id
    /\ answer.message_type \in CapiTypes =>
          request.session_id = s /\ answer.session_id = s

(* The child that a WAITFORSIGNAL request leaves behind. *)
WaiterOf(c, request) ==
    [conn |-> c, app_id |-> request.app_id, message_id |-> request.message_id]

(* The kinds of effect a step has on requests and answers. *)
Quiet ==
    /\ UNCHANGED <<asked, taken, answers, sess>>
    /\ waiters' \subseteq waiters
    /\ \A d \in Conns : handler'[d] = "none" => handler[d] = "none"

Starts(c) ==
    /\ handler[c] = "none"
    /\ handler' = [handler EXCEPT ![c] = "serving"]
    /\ \A d \in Conns \ {c} : sess'[d] = sess[d]
    /\ UNCHANGED <<asked, taken, answers, waiters>>

Asks(c) ==
    /\ \E request \in Requests :
          /\ request.message_id = Len(asked[c]) + 1
          /\ asked' = [asked EXCEPT ![c] = Append(@, request)]
    /\ UNCHANGED <<taken, answers, sess, waiters, handler>>

Silent == UNCHANGED <<answers, waiters>>

Answering(c, request) ==
    /\ \E head \in Answers :
          /\ Fits(sess[c], head, request)
          /\ answers' = [answers EXCEPT ![c] = Append(@, head)]
    /\ waiters' = waiters

Forking(c, request) ==
    /\ request.message_type = "CAPI_WAITFORSIGNAL"
    /\ request.session_id = sess[c]
    /\ waiters' = waiters \cup {WaiterOf(c, request)}
    /\ answers' = answers

Serves(c) ==
    /\ handler[c] = "serving"
    /\ taken[c] < Len(asked[c])
    /\ taken' = [taken EXCEPT ![c] = @ + 1]
    /\ UNCHANGED <<asked, sess>>
    /\ \A d \in Conns : handler'[d] = "none" => handler[d] = "none"
    /\ Silent \/ Answering(c, Current(c)) \/ Forking(c, Current(c))

Wakes(w) ==
    /\ waiters' = waiters \ {w}
    /\ \E cerr \in CapiErrors :
          answers' = [answers EXCEPT ![w.conn] = Append(@, WaiterHead(w, cerr))]
    /\ UNCHANGED <<asked, taken, sess, handler>>

-----------------------------------------------------------------------------
(* An answer that is sent arrives as it is or is lost. *)
LEMMA SendEffect ==
    ASSUME NEW c \in Conns, NEW request, NEW head \in Answers, Send(c, head),
           Fits(sess[c], head, request), waiters' = waiters
    PROVE  Silent \/ Answering(c, request)
BY DEF Send, Silent, Answering

(* Every exec_* function answers its own request, leaves a child to do so, *)
(* or sends nothing.                                                       *)
LEMMA DispatchAnswers ==
    ASSUME TypeOK, NEW c \in Conns, NEW request \in Requests, Dispatched(c, request)
    PROVE  Silent \/ Answering(c, request) \/ Forking(c, request)
<1> USE DEF ProxyErrors, CapiErrors
<1> DEFINE Goal == Silent \/ Answering(c, request) \/ Forking(c, request)
           H(perr, cerr) == AnswerHead(c, request, perr, cerr)
<1>t. /\ "PROXY_HELO" \notin CapiTypes \cup AppTypes
      /\ "PROXY_AUTH" \notin CapiTypes \cup AppTypes
      /\ "CAPI_REGISTER" \notin AppTypes
  BY DEF CapiTypes, AppTypes, InfoTypes
<1>h. ASSUME NEW perr \in ProxyErrors, NEW cerr \in CapiErrors, Send(c, H(perr, cerr)),
             SessionMatches(c, request), waiters' = waiters
      PROVE  Goal
  <2> HIDE DEF ProxyErrors, CapiErrors
  <2>1. H(perr, cerr) \in Answers
    BY AnswerHeadType, Zenon
  <2>2. Fits(sess[c], H(perr, cerr), request)
    BY <1>h DEF Fits, AnswerHead, SessionMatches
  <2>3. QED
    BY <1>h, <2>1, <2>2, SendEffect
<1>1. CASE exec_proxy_helo(c, request)
  <2> DEFINE head == [H("AUTH_REQUIRED", "0x0000") EXCEPT !.app_id = 0]
  <2>1. head \in Answers
    BY AnswerHeadType
  <2>2. Fits(sess[c], head, request)
    BY <1>1, <1>t DEF exec_proxy_helo, Fits, AnswerHead
  <2>3. Send(c, head) /\ waiters' = waiters
    BY <1>1 DEF exec_proxy_helo
  <2> HIDE DEF head
  <2>4. QED
    BY <2>1, <2>2, <2>3, SendEffect
<1>2. CASE exec_proxy_auth(c, request)
  <2>1. PICK verdict \in AuthVerdicts(request.auth_type) :
          Send(c, [H(verdict, "0x0000") EXCEPT
                      !.app_id = 0,
                      !.session_id = IF verdict = "NONE" THEN sess[c] ELSE 0])
    BY <1>2 DEF exec_proxy_auth
  <2> DEFINE s == IF verdict = "NONE" THEN sess[c] ELSE 0
             head == [H(verdict, "0x0000") EXCEPT !.app_id = 0, !.session_id = s]
  <2>2. verdict \in ProxyErrors /\ s \in Nat /\ "0x0000" \in CapiErrors
    BY DEF AuthVerdicts, Requests, AuthTypes, TypeOK
  <2>3. Send(c, head) /\ waiters' = waiters
    BY <1>2, <2>1 DEF exec_proxy_auth
  <2> HIDE DEF s, ProxyErrors, CapiErrors
  <2>4. head \in Answers
    <3>1. \A n \in Nat : [H(verdict, "0x0000") EXCEPT !.app_id = 0, !.session_id = n]
                            \in Answers
      BY <2>2, AnswerHeadType
    <3>2. QED
      BY <2>2, <3>1
  <2>5. Fits(sess[c], head, request)
    BY <1>2, <1>t DEF exec_proxy_auth, Fits, AnswerHead
  <2> HIDE DEF head
  <2>6. QED
    BY <2>3, <2>4, <2>5, SendEffect
<1>3. CASE SessionMatches(c, request) /\ exec_capi_register(c, request)
  <2>1. PICK app \in AppIds \cup {0}, cerr \in CapiErrors :
          Send(c, [H("NONE", cerr) EXCEPT !.app_id = app])
    <3>1. out_packet[c].app_id \in AppIds \cup {0}
      BY DEF TypeOK
    <3>2. QED
      BY <1>3, <3>1 DEF exec_capi_register
  <2> DEFINE head == [H("NONE", cerr) EXCEPT !.app_id = app]
  <2>2. head \in Answers
    <3>1. "NONE" \in ProxyErrors
      OBVIOUS
    <3> HIDE DEF ProxyErrors, CapiErrors
    <3>2. QED
      BY <3>1, AnswerHeadType
  <2>3. Fits(sess[c], head, request)
    BY <1>3, <1>t DEF exec_capi_register, Fits, AnswerHead, SessionMatches
  <2>4. Send(c, head) /\ waiters' = waiters
    BY <1>3, <2>1 DEF exec_capi_register
  <2> HIDE DEF head
  <2>5. QED
    BY <2>2, <2>3, <2>4, SendEffect
<1>4. CASE SessionMatches(c, request) /\ exec_capi_release(c, request)
  BY <1>4, <1>h DEF exec_capi_release
<1>5. CASE SessionMatches(c, request) /\ exec_capi_putmessage(c, request)
  <2>1. PICK perr \in ProxyErrors, cerr \in CapiErrors : Send(c, H(perr, cerr))
    BY <1>5 DEF exec_capi_putmessage, TypeOK
  <2>2. QED
    BY <1>5, <2>1, <1>h DEF exec_capi_putmessage
<1>6. CASE SessionMatches(c, request) /\ exec_capi_getmessage(c, request)
  <2>1. CASE Owns(c, request.app_id) /\ inbox[request.app_id] # <<>>
    <3> DEFINE m == inbox[request.app_id][1]
               short == m.b3 /\ m.len1 < 18
               perr == IF short THEN "PARSE_ERROR" ELSE "NONE"
               n == m.len1 + (IF m.b3 /\ ~ short THEN m.len2 ELSE 0)
               head == [H(perr, "0x0000") EXCEPT !.data_len = n]
    <3>1. Send(c, head) /\ waiters' = waiters
      BY <1>6, <2>1 DEF exec_capi_getmessage
    <3>2. inbox[request.app_id] \in Seq(CapiMsgs)
      BY <2>1 DEF TypeOK, Owns
    <3>3. m \in CapiMsgs
      BY <2>1, <3>2
    <3>4. n \in Nat
      BY <3>3 DEF CapiMsgs
    <3>5. perr \in ProxyErrors /\ "0x0000" \in CapiErrors
      OBVIOUS
    <3> HIDE DEF n, perr, ProxyErrors, CapiErrors
    <3>6. head \in Answers
      <4>1. \A k \in Nat : [H(perr, "0x0000") EXCEPT !.data_len = k] \in Answers
        BY <3>5, AnswerHeadType
      <4>2. QED
        BY <3>4, <4>1
    <3>7. Fits(sess[c], head, request)
      BY <1>6 DEF Fits, AnswerHead, SessionMatches
    <3> HIDE DEF head
    <3>8. QED
      BY <3>1, <3>6, <3>7, SendEffect
  <2>2. CASE ~ (Owns(c, request.app_id) /\ inbox[request.app_id] # <<>>)
    <3>1. PICK cerr \in CapiErrors : Send(c, H("NONE", cerr))
      BY <1>6, <2>2 DEF exec_capi_getmessage
    <3>2. QED
      BY <1>6, <3>1, <1>h DEF exec_capi_getmessage
  <2>3. QED
    BY <2>1, <2>2
<1>7. CASE SessionMatches(c, request) /\ exec_capi_waitforsignal(c, request)
  <2>1. CASE Send(c, H("NO_RESSOURCES", "0x1108")) /\ waiters' = waiters
    BY <1>7, <2>1, <1>h
  <2>2. CASE waiters' = waiters \cup {WaiterOf(c, request)} /\ answers' = answers
    BY <1>7, <2>2 DEF exec_capi_waitforsignal, Forking, SessionMatches
  <2>3. QED
    BY <1>7, <2>1, <2>2 DEF exec_capi_waitforsignal, WaiterOf
<1>8. CASE /\ SessionMatches(c, request)
           /\ \/ exec_capi_isinstalled(c, request) \/ exec_capi_profile(c, request)
              \/ exec_capi_version(c, request) \/ exec_capi_serial(c, request)
              \/ exec_capi_manufacturer(c, request)
  <2>1. /\ \E cerr \in CapiErrors : Send(c, H("NONE", cerr))
        /\ waiters' = waiters
    BY <1>8 DEF exec_capi_isinstalled, exec_capi_profile, exec_capi_version,
                exec_capi_serial, exec_capi_manufacturer
  <2>2. QED
    BY <1>8, <2>1, <1>h
<1>9. CASE Ignore(c, request)
  BY <1>9 DEF Ignore, Silent
<1>10. QED
  BY <1>1, <1>2, <1>3, <1>4, <1>5, <1>6, <1>7, <1>8, <1>9
     DEF Dispatched, exec_proxy, exec_capi

(* Every step of the server, seen from the requests and answers. *)
LEMMA AnswerStep ==
    ASSUME TypeOK, [Next]_vars
    PROVE  \/ Quiet
           \/ \E c \in Conns : Starts(c) \/ Asks(c) \/ Serves(c)
           \/ \E w \in waiters : Wakes(w)
<1> USE DEF listenerVars, handlerVars, connVars, driverVars
<1>1. CASE sigparent \/ UNCHANGED vars
  BY <1>1 DEF sigparent, vars, Quiet
<1>2. ASSUME NEW c \in Conns, Connect(c) \/ Disconnect(c) \/ accept_fails(c)
      PROVE  Quiet
  BY <1>2 DEF Connect, Disconnect, accept_fails, Quiet
<1>3. ASSUME NEW c \in Conns, SendRequest(c) PROVE Asks(c)
  <2>1. PICK request \in ClientRequests(Len(asked[c]) + 1) :
          asked' = [asked EXCEPT ![c] = Append(@, request)]
    BY <1>3 DEF SendRequest
  <2>2. request.message_id = Len(asked[c]) + 1
    BY DEF ClientRequests
  <2>3. request \in Requests
    <3>1. TypeOK'
      BY TypeOKStep
    <3>2. asked'[c] = Append(asked[c], request) /\ asked[c] \in Seq(Requests)
      BY <2>1 DEF TypeOK
    <3>3. asked'[c] \in Seq(Requests)
      BY <3>1 DEF TypeOK
    <3>4. Len(asked'[c]) = Len(asked[c]) + 1 /\ asked'[c][Len(asked[c]) + 1] = request
      BY <3>2
    <3>5. QED
      BY <3>2, <3>3, <3>4
  <2>4. QED
    BY <1>3, <2>1, <2>2, <2>3 DEF SendRequest, Asks
<1>4. ASSUME NEW c \in Conns, accept(c) PROVE Starts(c)
  BY <1>4 DEF accept, Starts, TypeOK
<1>5. ASSUME NEW c \in Conns, accept_fork_fails(c) PROVE Quiet
  BY <1>5 DEF accept_fork_fails, Quiet, TypeOK
<1>6. ASSUME NEW c \in Conns, HandleRequest(c) PROVE Serves(c)
  <2>1. /\ handler[c] = "serving" /\ taken[c] < Len(asked[c])
        /\ taken' = [taken EXCEPT ![c] = @ + 1] /\ UNCHANGED <<asked, sess>>
    BY <1>6 DEF HandleRequest
  <2>2. CASE BeginRelease(c)
    BY <2>1, <2>2 DEF BeginRelease, Serves, Silent, TypeOK
  <2>3. CASE Dispatched(c, Current(c))
    <3>1. Current(c) \in Requests
      BY <2>1, CurrentIsRequest
    <3>2. Silent \/ Answering(c, Current(c)) \/ Forking(c, Current(c))
      BY <2>3, <3>1, DispatchAnswers
    <3>3. \A d \in Conns : handler'[d] = "none" => handler[d] = "none"
      BY <2>3, DispatchEffect DEF StaysOrPipes, TypeOK
    <3>4. QED
      BY <2>1, <3>2, <3>3 DEF Serves
  <2>4. QED
    BY <1>6, <2>2, <2>3 DEF HandleRequest, Dispatched, Current
<1>7. ASSUME NEW c \in Conns, ReceiveFails(c) \/ HandlerExits(c) \/ sigchild(c)
      PROVE  Quiet
  BY <1>7 DEF ReceiveFails, BeginRelease, HandlerExits, sigchild, Quiet, TypeOK
<1>8. ASSUME NEW c \in Conns, release_all(c) \/ WaiterKilled(c) PROVE Quiet
  BY <1>8 DEF release_all, WaiterKilled, Quiet
<1>9. ASSUME NEW w \in waiters, NEW cerr \in CapiErrors, WaiterSends(w, cerr)
      PROVE  Quiet \/ Wakes(w)
  BY <1>9 DEF WaiterSends, Quiet, Wakes
<1>10. ASSUME NEW c \in Conns, WaiterWakes(c) \/ WaiterFails(c)
       PROVE  Quiet \/ \E w \in waiters : Wakes(w)
  <2>1. PICK w \in waiters, cerr \in CapiErrors : WaiterSends(w, cerr)
    BY <1>10 DEF WaiterWakes, WaiterFails, CapiErrors
  <2>2. QED
    BY <1>9, <2>1
<1>11. ASSUME NEW app \in AppIds, CapiIndication(app) \/ Reap(app) PROVE Quiet
  BY <1>11 DEF CapiIndication, Reap, Quiet
<1>12. QED
  BY <1>1, <1>2, <1>3, <1>4, <1>5, <1>6, <1>7, <1>8, <1>10, <1>11 DEF Next

-----------------------------------------------------------------------------
(* A child w waits for a request of session s that is among the first n of *)
(* the log, and asks for it.                                               *)
WaiterFits(s, n, log, w) ==
    /\ w.message_id \in 1 .. n
    /\ log[w.message_id].message_type = "CAPI_WAITFORSIGNAL"
    /\ log[w.message_id].app_id = w.app_id
    /\ log[w.message_id].session_id = s

(* An answer belongs to one of the first n requests of the log. *)
RightAnswer(s, n, log, answer) ==
    /\ answer.message_id \in 1 .. n
    /\ Fits(s, answer, log[answer.message_id])

(* The inductive form of AnswersRouted: the ids number the requests, a     *)
(* handler reads no more than was sent and nothing before it runs, and     *)
(* what is still to be answered by a child will be answered rightly.       *)
ReadSent == \A c \in Conns : taken[c] <= Len(asked[c])

ReadByHandler == \A c \in Conns : handler[c] = "none" => taken[c] = 0

IdsNumber == \A c \in Conns : \A i \in 1 .. Len(asked[c]) : asked[c][i].message_id = i

AnswersRight ==
    \A c \in Conns : \A i \in 1 .. Len(answers[c]) :
        RightAnswer(sess[c], taken[c], asked[c], answers[c][i])

WaitersRight ==
    \A w \in waiters : WaiterFits(sess[w.conn], taken[w.conn], asked[w.conn], w)

RoutedInv == ReadSent /\ ReadByHandler /\ IdsNumber /\ AnswersRight /\ WaitersRight

(* The sequences of the state are sequences and its numbers are numbers. *)
LEMMA SeqFacts ==
    ASSUME TypeOK, NEW c \in Conns
    PROVE  /\ asked[c] \in Seq(Requests) /\ Len(asked[c]) \in Nat
           /\ answers[c] \in Seq(Answers) /\ Len(answers[c]) \in Nat
           /\ taken[c] \in Nat
           /\ \A i \in 1 .. Len(answers[c]) : answers[c][i] \in Answers
BY DEF TypeOK

(* Appending one answer keeps those that were there. *)
LEMMA AppendAnswer ==
    ASSUME TypeOK, NEW c \in Conns, NEW head \in Answers,
           answers' = [answers EXCEPT ![c] = Append(@, head)]
    PROVE  /\ \A d \in Conns \ {c} : answers'[d] = answers[d]
           /\ Len(answers'[c]) = Len(answers[c]) + 1
           /\ \A i \in 1 .. Len(answers[c]) : answers'[c][i] = answers[c][i]
           /\ answers'[c][Len(answers[c]) + 1] = head
<1>1. answers[c] \in Seq(Answers) /\ answers'[c] = Append(answers[c], head)
  BY DEF TypeOK
<1>2. \A d \in Conns \ {c} : answers'[d] = answers[d]
  BY DEF TypeOK
<1>3. QED
  BY <1>1, <1>2

(* An answer, or a child, that was right is right as long as the requests  *)
(* that were read stay.                                                    *)
LEMMA StaysRight ==
    ASSUME NEW s, NEW n \in Nat, NEW m \in Nat, n <= m, NEW log, NEW longer,
           \A i \in 1 .. n : longer[i] = log[i], NEW x
    PROVE  /\ RightAnswer(s, n, log, x) => RightAnswer(s, m, longer, x)
           /\ WaiterFits(s, n, log, x) => WaiterFits(s, m, longer, x)
<1>1. ASSUME x.message_id \in 1 .. n
      PROVE  x.message_id \in 1 .. m /\ longer[x.message_id] = log[x.message_id]
  BY <1>1
<1>2. RightAnswer(s, n, log, x) => RightAnswer(s, m, longer, x)
  BY <1>1 DEF RightAnswer
<1>3. WaiterFits(s, n, log, x) => WaiterFits(s, m, longer, x)
  BY <1>1 DEF WaiterFits
<1>4. QED
  BY <1>2, <1>3

(* What a step that reads no request of another log, and lets no answered  *)
(* session change, does to what was right.                                 *)
LEMMA RightAfter ==
    ASSUME TypeOK, TypeOK', AnswersRight, WaitersRight,
           \A c \in Conns : /\ taken[c] <= taken'[c]
                            /\ taken[c] # 0 => sess'[c] = sess[c]
                            /\ \A i \in 1 .. taken[c] : asked'[c][i] = asked[c][i]
    PROVE  /\ \A c \in Conns : \A i \in 1 .. Len(answers[c]) :
                 RightAnswer(sess'[c], taken'[c], asked'[c], answers[c][i])
           /\ \A w \in waiters :
                 WaiterFits(sess'[w.conn], taken'[w.conn], asked'[w.conn], w)
<1>1. \A c \in Conns : taken[c] \in Nat /\ taken'[c] \in Nat
  BY DEF TypeOK
<1>2. ASSUME NEW c \in Conns, NEW i \in 1 .. Len(answers[c])
      PROVE  RightAnswer(sess'[c], taken'[c], asked'[c], answers[c][i])
  <2>1. RightAnswer(sess[c], taken[c], asked[c], answers[c][i])
    BY DEF AnswersRight
  <2>2. taken[c] # 0
    BY <1>1, <2>1 DEF RightAnswer
  <2>3. RightAnswer(sess[c], taken'[c], asked'[c], answers[c][i])
    BY <1>1, <2>1, StaysRight
  <2>4. QED
    BY <2>2, <2>3
<1>3. ASSUME NEW w \in waiters
      PROVE  WaiterFits(sess'[w.conn], taken'[w.conn], asked'[w.conn], w)
  <2>1. w.conn \in Conns /\ WaiterFits(sess[w.conn], taken[w.conn], asked[w.conn], w)
    BY DEF TypeOK, Waiters, WaitersRight
  <2>2. taken[w.conn] # 0
    BY <1>1, <2>1 DEF WaiterFits
  <2>3. WaiterFits(sess[w.conn], taken'[w.conn], asked'[w.conn], w)
    <3>1. PICK c \in Conns : c = w.conn
      BY <2>1
    <3>2. WaiterFits(sess[c], taken[c], asked[c], w)
      BY <2>1, <3>1
    <3>3. WaiterFits(sess[c], taken'[c], asked'[c], w)
      BY <1>1, <3>2, StaysRight
    <3>4. QED
      BY <3>1, <3>3
  <2>4. QED
    BY <2>1, <2>2, <2>3
<1>4. QED
  BY <1>2, <1>3

(* One more right answer leaves all answers right. *)
LEMMA RightIfAppended ==
    ASSUME TypeOK, NEW c \in Conns, NEW head \in Answers,
           RightAnswer(sess'[c], taken'[c], asked'[c], head),
           answers' = [answers EXCEPT ![c] = Append(@, head)],
           \A d \in Conns : \A i \in 1 .. Len(answers[d]) :
               RightAnswer(sess'[d], taken'[d], asked'[d], answers[d][i])
    PROVE  AnswersRight'
<1> SUFFICES ASSUME NEW d \in Conns, NEW i \in 1 .. Len(answers'[d])
             PROVE  RightAnswer(sess'[d], taken'[d], asked'[d], answers'[d][i])
  BY DEF AnswersRight
<1>1. CASE d = c /\ i = Len(answers[c]) + 1
  BY <1>1, AppendAnswer
<1>2. CASE ~ (d = c /\ i = Len(answers[c]) + 1)
  <2>1. i \in 1 .. Len(answers[d]) /\ answers'[d][i] = answers[d][i]
    BY <1>2, AppendAnswer, SeqFacts
  <2>2. QED
    BY <2>1
<1>3. QED
  BY <1>1, <1>2

(* Every step keeps the answers routed. *)
LEMMA RoutedInvStep ==
    ASSUME TypeOK, RoutedInv, [Next]_vars
    PROVE  RoutedInv'
<1>i. ReadSent /\ ReadByHandler /\ IdsNumber /\ AnswersRight /\ WaitersRight
  BY DEF RoutedInv
<1>t. TypeOK'
  BY TypeOKStep
<1>w. \A w \in waiters : w.conn \in Conns /\ w.message_id \in Nat
  BY DEF TypeOK, Waiters
<1>n. \A c \in Conns : taken[c] \in Nat
  BY DEF TypeOK
<1> DEFINE StillRight ==
      \A c \in Conns : \A i \in 1 .. Len(answers[c]) :
          RightAnswer(sess'[c], taken'[c], asked'[c], answers[c][i])
           StillWaiting ==
      \A w \in waiters : WaiterFits(sess'[w.conn], taken'[w.conn], asked'[w.conn], w)
<1>k. ASSUME \A c \in Conns : /\ taken[c] <= taken'[c]
                              /\ taken[c] # 0 => sess'[c] = sess[c]
                              /\ \A i \in 1 .. taken[c] : asked'[c][i] = asked[c][i]
      PROVE  StillRight /\ StillWaiting
  BY <1>i, <1>t, <1>k, RightAfter
<1>a. StillRight /\ answers' = answers => AnswersRight'
  BY DEF AnswersRight
<1>b. StillWaiting /\ waiters' \subseteq waiters => WaitersRight'
  BY DEF WaitersRight
<1> HIDE DEF StillRight, StillWaiting
<1>1. CASE Quiet
  <2>1. StillRight /\ StillWaiting
    BY <1>1, <1>k, <1>n DEF Quiet
  <2>2. QED
    BY <1>1, <1>i, <1>a, <1>b, <2>1
       DEF Quiet, RoutedInv, ReadSent, ReadByHandler, IdsNumber
<1>2. ASSUME NEW c \in Conns, Starts(c) PROVE RoutedInv'
  <2>1. taken[c] = 0
    BY <1>2, <1>i DEF Starts, ReadByHandler
  <2>2. \A d \in Conns : handler'[d] = "none" => handler[d] = "none"
    BY <1>2 DEF Starts, TypeOK
  <2>3. StillRight /\ StillWaiting
    BY <1>2, <1>k, <1>n, <2>1 DEF Starts
  <2>4. QED
    BY <1>2, <1>i, <1>a, <1>b, <2>2, <2>3
       DEF Starts, RoutedInv, ReadSent, ReadByHandler, IdsNumber
<1>3. ASSUME NEW c \in Conns, Asks(c) PROVE RoutedInv'
  <2>1. PICK request \in Requests :
          /\ request.message_id = Len(asked[c]) + 1
          /\ asked' = [asked EXCEPT ![c] = Append(@, request)]
    BY <1>3 DEF Asks
  <2>2. /\ Len(asked'[c]) = Len(asked[c]) + 1
        /\ \A i \in 1 .. Len(asked[c]) : asked'[c][i] = asked[c][i]
        /\ asked'[c][Len(asked[c]) + 1] = request
        /\ \A d \in Conns \ {c} : asked'[d] = asked[d]
    <3>1. asked[c] \in Seq(Requests) /\ asked'[c] = Append(asked[c], request)
      BY <2>1 DEF TypeOK
    <3>2. QED
      BY <2>1, <3>1 DEF TypeOK
  <2>3. ASSUME NEW d \in Conns
        PROVE  /\ taken[d] <= Len(asked'[d])
               /\ \A i \in 1 .. taken[d] : asked'[d][i] = asked[d][i]
    <3>1. Len(asked[d]) \in Nat /\ taken[d] \in Nat /\ taken[d] <= Len(asked[d])
      BY <1>i, SeqFacts DEF ReadSent
    <3>2. CASE d = c
      BY <2>2, <3>1, <3>2
    <3>3. CASE d # c
      BY <2>2, <3>1, <3>3
    <3>4. QED
      BY <3>2, <3>3
  <2>4. IdsNumber'
    <3>1. ASSUME NEW i \in 1 .. Len(asked[c]) + 1 PROVE asked'[c][i].message_id = i
      BY <1>i, <2>1, <2>2, SeqFacts DEF IdsNumber
    <3>2. QED
      BY <1>i, <2>2, <3>1 DEF IdsNumber
  <2>5. StillRight /\ StillWaiting
    BY <1>3, <1>k, <1>n, <2>3 DEF Asks
  <2>6. QED
    BY <1>3, <1>i, <1>a, <1>b, <2>3, <2>4, <2>5
       DEF Asks, RoutedInv, ReadSent, ReadByHandler
<1>4. ASSUME NEW c \in Conns, Serves(c) PROVE RoutedInv'
  <2>1. /\ taken'[c] = taken[c] + 1 /\ \A d \in Conns \ {c} : taken'[d] = taken[d]
        /\ taken[c] \in Nat /\ taken[c] + 1 <= Len(asked[c])
        /\ taken[c] + 1 \in 1 .. Len(asked[c])
        /\ asked' = asked /\ sess' = sess
    BY <1>4, SeqFacts DEF Serves, TypeOK
  <2>2. Current(c).message_id = taken[c] + 1
    BY <1>i, <2>1 DEF Current, IdsNumber
  <2>3. \A d \in Conns : taken[d] <= taken'[d]
    BY <1>n, <2>1
  <2>4. ReadSent' /\ ReadByHandler' /\ IdsNumber'
    <3>1. ReadSent'
      BY <1>i, <2>1 DEF ReadSent
    <3>2. ReadByHandler'
      BY <1>4, <1>i, <2>1 DEF Serves, ReadByHandler
    <3>3. QED
      BY <1>i, <2>1, <3>1, <3>2 DEF IdsNumber
  <2>5. StillRight /\ StillWaiting
    BY <1>k, <2>1, <2>3
  <2>6. taken[c] + 1 \in 1 .. taken'[c] /\ asked[c][taken[c] + 1] = Current(c)
    BY <2>1 DEF Current
  <2>7. CASE Silent
    BY <1>a, <1>b, <2>4, <2>5, <2>7 DEF Silent, RoutedInv
  <2>8. CASE Forking(c, Current(c))
    <3> DEFINE w == WaiterOf(c, Current(c))
    <3>1. w.conn = c /\ w.message_id = taken[c] + 1 /\ w.app_id = Current(c).app_id
      BY <2>2 DEF WaiterOf
    <3> HIDE DEF w
    <3>2. WaiterFits(sess'[w.conn], taken'[w.conn], asked'[w.conn], w)
      BY <2>1, <2>6, <2>8, <3>1 DEF WaiterFits, Forking
    <3>3. WaitersRight'
      <4>1. waiters' = waiters \cup {w}
        BY <2>8 DEF Forking, w
      <4>2. QED
        BY <2>5, <3>2, <4>1 DEF WaitersRight, StillWaiting
    <3>4. QED
      BY <1>a, <2>4, <2>5, <2>8, <3>3 DEF RoutedInv, Forking
  <2>9. CASE Answering(c, Current(c))
    <3>1. PICK head \in Answers :
            /\ Fits(sess[c], head, Current(c))
            /\ answers' = [answers EXCEPT ![c] = Append(@, head)]
      BY <2>9 DEF Answering
    <3>2. head.message_id = taken[c] + 1
      BY <2>2, <3>1 DEF Fits
    <3>3. RightAnswer(sess'[c], taken'[c], asked'[c], head)
      BY <2>1, <2>6, <3>1, <3>2 DEF RightAnswer
    <3>4. AnswersRight'
      BY <2>5, <3>1, <3>3, RightIfAppended DEF StillRight
    <3>5. WaitersRight'
      BY <1>b, <2>5, <2>9 DEF Answering
    <3>6. QED
      BY <2>4, <3>4, <3>5 DEF RoutedInv
  <2>10. QED
    BY <1>4, <2>7, <2>8, <2>9 DEF Serves
<1>5. ASSUME NEW w \in waiters, Wakes(w) PROVE RoutedInv'
  <2> DEFINE c == w.conn
  <2>1. c \in Conns /\ w \in Waiters
    BY <1>w DEF TypeOK
  <2>2. WaiterFits(sess[c], taken[c], asked[c], w)
    BY <1>i DEF WaitersRight
  <2>3. PICK cerr \in CapiErrors :
          answers' = [answers EXCEPT ![c] = Append(@, WaiterHead(w, cerr))]
    BY <1>5 DEF Wakes
  <2> DEFINE head == WaiterHead(w, cerr)
  <2>4. head \in Answers
    BY <2>1 DEF WaiterHead, Answers, Waiters, TypeOK, CapiTypes, AppTypes, ProxyErrors
  <2>5. UNCHANGED <<asked, taken, sess, handler>> /\ waiters' \subseteq waiters
    BY <1>5 DEF Wakes
  <2>6. StillRight /\ StillWaiting
    BY <1>k, <1>n, <2>5
  <2>7. RightAnswer(sess[c], taken[c], asked[c], head)
    <3>1. w.message_id \in 1 .. Len(asked[c])
      BY <1>i, <2>1, <2>2, SeqFacts DEF WaiterFits, ReadSent
    <3>2. asked[c][w.message_id].message_id = w.message_id
      BY <1>i, <2>1, <3>1 DEF IdsNumber
    <3>3. QED
      BY <2>2, <3>2 DEF WaiterFits, WaiterHead, RightAnswer, Fits, AppTypes
  <2>8. AnswersRight'
    <3> HIDE DEF head, c
    <3>1. answers' = [answers EXCEPT ![c] = Append(@, head)]
      BY <2>3 DEF head
    <3>2. RightAnswer(sess'[c], taken'[c], asked'[c], head)
      BY <2>5, <2>7
    <3>3. QED
      BY <2>1, <2>4, <2>6, <3>1, <3>2, RightIfAppended DEF StillRight
  <2>9. QED
    BY <1>i, <1>b, <2>5, <2>6, <2>8 DEF RoutedInv, ReadSent, ReadByHandler, IdsNumber
<1>6. QED
  BY <1>1, <1>2, <1>3, <1>4, <1>5, AnswerStep

(* The initial state, in which nothing was asked, is routed. *)
LEMMA RoutedInvInit == ASSUME Init PROVE RoutedInv
BY DEF Init, RoutedInv, ReadSent, ReadByHandler, IdsNumber, AnswersRight, WaitersRight

(* Every answer a client gets belongs to a request of its own that the     *)
(* handler of its own connection has read, also when a waiting child sends *)
(* it at any later time, for any number of connections and requests.       *)
THEOREM AnswersCorrect == Spec => []AnswersRouted
<1>1. Init => TypeOK /\ RoutedInv
  BY TypeOKInit, RoutedInvInit
<1>2. TypeOK /\ RoutedInv /\ [Next]_vars => (TypeOK /\ RoutedInv)'
  BY TypeOKStep, RoutedInvStep
<1>3. TypeOK /\ RoutedInv => AnswersRouted
  BY DEF RoutedInv, ReadSent, AnswersRight, RightAnswer, AnswersRouted, Fits
<1>4. QED
  BY <1>1, <1>2, <1>3, PTL DEF Spec

-----------------------------------------------------------------------------
(* AnsweredOnce is inductive together with RoutedInv, which makes the id   *)
(* of the next request larger than every id answered or waited for, and    *)
(* with: no two children of a connection wait for one request.             *)
WaitersDistinct ==
    \A v, w \in waiters : v.conn = w.conn /\ v.message_id = w.message_id => v = w

(* What no step of the server but an answer or a new child can change. *)
LEMMA OnceIfKept ==
    ASSUME AnsweredOnce, WaitersDistinct, answers' = answers, waiters' \subseteq waiters
    PROVE  AnsweredOnce' /\ WaitersDistinct'
BY DEF AnsweredOnce, WaitersDistinct

(* An answer with an id that no answer of its connection has and for which *)
(* no child goes on waiting keeps the answers single.                      *)
LEMMA OnceIfAppended ==
    ASSUME TypeOK, AnsweredOnce, WaitersDistinct, NEW c \in Conns, NEW head \in Answers,
           answers' = [answers EXCEPT ![c] = Append(@, head)], waiters' \subseteq waiters,
           \A i \in 1 .. Len(answers[c]) : answers[c][i].message_id # head.message_id,
           \A w \in waiters' : w.conn = c => w.message_id # head.message_id
    PROVE  AnsweredOnce' /\ WaitersDistinct'
<1>a. /\ \A d \in Conns \ {c} : answers'[d] = answers[d]
      /\ Len(answers'[c]) = Len(answers[c]) + 1 /\ Len(answers[c]) \in Nat
      /\ \A i \in 1 .. Len(answers[c]) : answers'[c][i] = answers[c][i]
      /\ answers'[c][Len(answers[c]) + 1] = head
  BY AppendAnswer, SeqFacts
<1>1. ASSUME NEW d \in Conns, NEW i \in 1 .. Len(answers'[d]),
             NEW j \in 1 .. Len(answers'[d]),
             answers'[d][i].message_id = answers'[d][j].message_id
      PROVE  i = j
  <2>1. CASE d # c
    BY <1>a, <1>1, <2>1 DEF AnsweredOnce
  <2>2. CASE d = c
    BY <1>a, <1>1, <2>2 DEF AnsweredOnce
  <2>3. QED
    BY <2>1, <2>2
<1>2. ASSUME NEW w \in waiters', NEW i \in 1 .. Len(answers'[w.conn])
      PROVE  answers'[w.conn][i].message_id # w.message_id
  <2>1. w.conn \in Conns /\ w \in waiters
    BY DEF TypeOK, Waiters
  <2>2. CASE w.conn # c
    BY <1>a, <1>2, <2>1, <2>2 DEF AnsweredOnce
  <2>3. CASE w.conn = c
    BY <1>a, <1>2, <2>1, <2>3 DEF AnsweredOnce
  <2>4. QED
    BY <2>2, <2>3
<1>3. AnsweredOnce'
  BY <1>1, <1>2 DEF AnsweredOnce
<1>4. QED
  BY <1>3 DEF WaitersDistinct

(* Every step keeps the answers single. *)
LEMMA OnceStep ==
    ASSUME TypeOK, RoutedInv, AnsweredOnce, WaitersDistinct, [Next]_vars
    PROVE  AnsweredOnce' /\ WaitersDistinct'
<1>1. CASE Quiet
  BY <1>1, OnceIfKept DEF Quiet
<1>2. ASSUME NEW c \in Conns, Starts(c) \/ Asks(c)
      PROVE  AnsweredOnce' /\ WaitersDistinct'
  BY <1>2, OnceIfKept DEF Starts, Asks
<1>3. ASSUME NEW c \in Conns, Serves(c) PROVE AnsweredOnce' /\ WaitersDistinct'
  <2>1. taken[c] \in Nat /\ taken[c] + 1 \in 1 .. Len(asked[c])
    BY <1>3, SeqFacts DEF Serves
  <2>2. Current(c).message_id = taken[c] + 1
    BY <2>1 DEF RoutedInv, IdsNumber, Current
  <2>3. \A i \in 1 .. Len(answers[c]) : answers[c][i].message_id \in 1 .. taken[c]
    BY DEF RoutedInv, AnswersRight, RightAnswer
  <2>4. \A w \in waiters : w.conn = c => w.message_id \in 1 .. taken[c]
    BY DEF RoutedInv, WaitersRight, WaiterFits
  <2>5. CASE Silent
    BY <2>5, OnceIfKept DEF Silent
  <2>6. CASE Answering(c, Current(c))
    <3>1. PICK head \in Answers :
            /\ head.message_id = Current(c).message_id
            /\ answers' = [answers EXCEPT ![c] = Append(@, head)]
      BY <2>6 DEF Answering, Fits
    <3>2. waiters' = waiters
      BY <2>6 DEF Answering
    <3>3. \A n \in 1 .. taken[c] : n # head.message_id
      BY <2>1, <2>2, <3>1
    <3>4. \A i \in 1 .. Len(answers[c]) : answers[c][i].message_id # head.message_id
      BY <2>3, <3>3
    <3>5. \A w \in waiters' : w.conn = c => w.message_id # head.message_id
      BY <2>4, <3>2, <3>3
    <3>6. QED
      BY <3>1, <3>2, <3>4, <3>5, OnceIfAppended
  <2>7. CASE Forking(c, Current(c))
    <3> DEFINE new == WaiterOf(c, Current(c))
    <3>1. new.conn = c /\ new.message_id = taken[c] + 1
      BY <2>2 DEF WaiterOf
    <3>2. waiters' = waiters \cup {new} /\ answers' = answers
      BY <2>7 DEF Forking
    <3> HIDE DEF new
    <3>3. \A n \in 1 .. taken[c] : n # new.message_id
      BY <2>1, <3>1
    <3>4. AnsweredOnce'
      BY <2>3, <3>1, <3>2, <3>3 DEF AnsweredOnce
    <3>5. WaitersDistinct'
      BY <2>4, <3>1, <3>2, <3>3 DEF WaitersDistinct
    <3>6. QED
      BY <3>4, <3>5
  <2>8. QED
    BY <1>3, <2>5, <2>6, <2>7 DEF Serves
<1>4. ASSUME NEW w \in waiters, Wakes(w) PROVE AnsweredOnce' /\ WaitersDistinct'
  <2>1. PICK cerr \in CapiErrors :
          answers' = [answers EXCEPT ![w.conn] = Append(@, WaiterHead(w, cerr))]
    BY <1>4 DEF Wakes
  <2> DEFINE head == WaiterHead(w, cerr)
  <2>2. head \in Answers /\ w.conn \in Conns
    BY DEF WaiterHead, Answers, Waiters, TypeOK, CapiTypes, AppTypes, ProxyErrors
  <2>3. head.message_id = w.message_id
    BY DEF WaiterHead
  <2>4. waiters' = waiters \ {w} /\ answers' = [answers EXCEPT ![w.conn] = Append(@, head)]
    BY <1>4, <2>1 DEF Wakes
  <2> HIDE DEF head
  <2>5. PICK c \in Conns : c = w.conn
    BY <2>2
  <2>6. /\ answers' = [answers EXCEPT ![c] = Append(@, head)]
        /\ waiters' \subseteq waiters
    BY <2>4, <2>5
  <2>7. \A i \in 1 .. Len(answers[c]) : answers[c][i].message_id # head.message_id
    BY <2>3, <2>5 DEF AnsweredOnce
  <2>8. \A v \in waiters' : v.conn = c => v.message_id # head.message_id
    BY <2>3, <2>4, <2>5 DEF WaitersDistinct
  <2>9. QED
    BY <2>2, <2>6, <2>7, <2>8, OnceIfAppended
<1>5. QED
  BY <1>1, <1>2, <1>3, <1>4, AnswerStep

(* A request is answered at most once, by its handler or by the child that *)
(* waits for it and never by both.                                         *)
THEOREM OnceCorrect == Spec => []AnsweredOnce
<1> DEFINE Inv == TypeOK /\ RoutedInv /\ AnsweredOnce /\ WaitersDistinct
<1>1. Init => Inv
  <2> SUFFICES ASSUME Init PROVE Inv
    OBVIOUS
  <2>1. AnsweredOnce /\ WaitersDistinct
    BY DEF Init, AnsweredOnce, WaitersDistinct
  <2>2. QED
    BY <2>1, TypeOKInit, RoutedInvInit
<1>2. Inv /\ [Next]_vars => Inv'
  BY TypeOKStep, RoutedInvStep, OnceStep
<1>3. QED
  BY <1>1, <1>2, PTL DEF Spec
=============================================================================
