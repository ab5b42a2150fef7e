------------------------ MODULE Capi2032SerialProofs ------------------------
(***************************************************************************)
(* What the Win32 client guarantees to an application with one thread and  *)
(* enough memory: the library touches no memory it does not own, and its   *)
(* application list is the server's.  Neither holds for two threads, whose *)
(* increments of msg_id and stale reads of hash_start break both.          *)
(*                                                                         *)
(* The argument: at most one request is in flight, and while it is the     *)
(* call waits with its entry the only one in the list with its id.         *)
(***************************************************************************)
EXTENDS Capi2032ListProofs, FiniteSetTheorems

(* One thread, and enough memory. *)
Serial == Threads # {} /\ (\A t, u \in Threads : t = u) /\ ~ OutOfMemory

(* Ids rise from call to call. *)
IdsRise ==
    /\ dll = "unloaded" => \A t \in Threads : call[t].pc = "idle"
    /\ \A n \in Nodes : msgId[n] <= msg_id
    /\ \A t \in Threads : call[t].pc = "increment" => call[t].id = msg_id + 1
    /\ \A t \in Threads : call[t].pc \in {"read_start", "add"} =>
          call[t].id = msg_id /\ \A n \in Nodes : msgId[n] < msg_id

(* The start that addToHash read is still the start, and never freed. *)
(* Once the library is marked the start of the list is reset.              *)
Marked == dll \in {"marked", "detached"}

QueueFresh ==
    \A t \in Threads : call[t].pc = "add" =>
        /\ call[t].queue \in allocated \cup {NULL}
        /\ receiver.pc # "quit" /\ ~ Marked => call[t].queue = hash_start

(* The start that setdata_app gets is still that of the list. *)
KeepFresh ==
    \A t \in Threads : call[t].pc = "keep" =>
        call[t].queue = NULL \/ Behind(call[t].queue) # {}

(* Nothing is on its way on a connection that is shut down. *)
Quits ==
    /\ receiver.pc = "quit" => socke \in {"broken", "closed"}
    /\ pending # {} => socke = "open"
    /\ dll \in {"detaching", "marked", "detached"} =>
          socke \in {"broken", "closed"} /\ wire = <<>>
    /\ Marked => receiver.pc \in {"recv", "quit"}

(* At most one request is in flight: with the server, on the wire or with  *)
(* the receiver; and its call waits for it.                                *)
Busy == receiver.pc \in {"lookup", "read_start", "unlink", "store"}

Awaited(id) ==
    \A t \in Threads : call[t].pc = "wait" /\ call[t].answer = Waiting /\ call[t].id = id

Idle      == pending = {} /\ wire = <<>> /\ ~ Busy
AtServer  == \E r \in pending : pending = {r} /\ wire = <<>> /\ ~ Busy /\ Awaited(r.message_id)
OnWire    == pending = {} /\ Len(wire) = 1 /\ ~ Busy /\ Awaited(wire[1].message_id)
WithReceiver == pending = {} /\ wire = <<>> /\ Busy /\ Awaited(receiver.msg.message_id)

InFlight == receiver.pc = "quit" \/ Idle \/ AtServer \/ OnWire \/ WithReceiver

(* The receiver will find the entry of the call that waits, or found it. *)
Found ==
    \A t \in Threads :
        /\ (/\ call[t].pc \in {"send", "wait"} /\ call[t].answer = Waiting
            /\ receiver.pc \in {"none", "recv", "lookup"} /\ ~ Marked) =>
               /\ msgId[Node(t)] = call[t].id
               /\ Leads(next, msgId, hash_start, call[t].id, Node(t))
        /\ receiver.pc \in {"read_start", "unlink", "store"} => receiver.data = Node(t)

(* A call that is about to send its request has no answer. *)
SendFresh ==
    Up => \A t \in Threads : call[t].pc = "send" => call[t].answer = Waiting

SerialInv ==
    /\ IdsRise /\ QueueFresh /\ KeepFresh /\ Quits /\ InFlight /\ Found /\ SendFresh
    /\ MemorySafe

-----------------------------------------------------------------------------
(* The states of a call, with one thread: the step of a call is the only   *)
(* change of calls.                                                        *)
LEMMA TheCall ==
    ASSUME Serial, ClientInv, NEW t \in Threads
    PROVE  /\ \A u \in Threads : u = t
           /\ call[t] \in CallRecords /\ call = [u \in Threads |-> call[u]]
           /\ msg_id \in Nat /\ msgId \in [Nodes -> Nat]
BY DEF Serial, ClientInv, CallInv, CallOK, CallRecords, FlagTypes, HashInv

(* The steps with which a call takes its answer and returns. *)
Returning(t) ==
    \/ CAPI_REGISTER(t) \/ CAPI_RELEASE(t) \/ CAPI_GET_MESSAGE(t)
    \/ CAPI_PUT_MESSAGE(t) \/ CAPI_WAIT_FOR_SIGNAL(t)
    \/ CAPI_GET_MANUFACTURER(t) \/ CAPI_GET_VERSION(t) \/ CAPI_GET_SERIAL_NUMBER(t)
    \/ CAPI_GET_PROFILE(t) \/ CAPI_INSTALLED(t)

Taken(c, d) ==
    /\ \/ c.pc = "wait" /\ c.answer # Waiting /\ d.pc \in {"keep", "idle"}
       \/ c.pc = "keep" /\ d.pc = "idle"
    /\ d.n = c.n /\ d.id = c.id /\ d.answer = c.answer /\ d.type = c.type
    /\ d.app_id = c.app_id

(* What a call does. *)
LEMMA CallerCases ==
    ASSUME NEW t \in Threads, CallerStep(t)
    PROVE  \/ IncrementMsgId(t) \/ ReadStart(t) \/ AddEntry(t)
           \/ sendRequest(t) \/ sendRequest_fails(t) \/ Returning(t)
BY DEF CallerStep, Returning

(* They change the call, the application list and nothing else. *)
LEMMA ReturnEffect ==
    ASSUME ClientInv, NEW t \in Threads, Returning(t)
    PROVE  /\ Taken(call[t], call'[t])
           /\ UNCHANGED <<dll, socke, msg_id, hashVars, receiver, serverVars>>
<1>c. call[t] \in CallRecords /\ call = [u \in Threads |-> call[u]]
  BY DEF ClientInv, CallInv, CallOK, CallRecords
<1>1. ASSUME NEW result, Ends(t, result),
             \/ call[t].pc = "wait" /\ call[t].answer # Waiting
             \/ call[t].pc = "keep"
      PROVE  /\ Taken(call[t], call'[t])
             /\ UNCHANGED <<dll, socke, msg_id, hashVars, receiver, serverVars>>
  <2>1. PICK d : d = [call[t] EXCEPT !.pc = "idle", !.result = result]
    OBVIOUS
  <2>2. call'[t] = d
    BY <1>1, <1>c, <2>1 DEF Ends
  <2>3. /\ d.n = call[t].n /\ d.id = call[t].id /\ d.answer = call[t].answer
        /\ d.type = call[t].type /\ d.app_id = call[t].app_id /\ d.pc = "idle"
    BY <1>c, <2>1 DEF CallRecords
  <2>4. QED
    BY <1>1, <2>2, <2>3 DEF Ends, Taken
<1>2. ASSUME NEW type, NEW result, Returns(t, type, result)
      PROVE  /\ Taken(call[t], call'[t])
             /\ UNCHANGED <<dll, socke, msg_id, hashVars, receiver, serverVars>>
  BY <1>1, <1>2 DEF Returns, Answered
<1>3. CASE GetMessage_copies(t)
  <2>1. PICK queue : call' = [call EXCEPT ![t].pc = "keep", ![t].queue = queue]
    BY <1>3 DEF GetMessage_copies
  <2>2. PICK d : d = [call[t] EXCEPT !.pc = "keep", !.queue = queue]
    OBVIOUS
  <2>3. call'[t] = d
    BY <1>c, <2>1, <2>2
  <2>4. /\ d.n = call[t].n /\ d.id = call[t].id /\ d.answer = call[t].answer
        /\ d.type = call[t].type /\ d.app_id = call[t].app_id /\ d.pc = "keep"
    BY <1>c, <2>2 DEF CallRecords
  <2>5. QED
    BY <1>3, <2>3, <2>4 DEF GetMessage_copies, Answered, Taken
<1>4. CASE GetMessage_fails(t) \/ GetMessage_malformed(t) \/ GetMessage_keeps(t)
  BY <1>1, <1>4 DEF GetMessage_fails, GetMessage_malformed, GetMessage_keeps, Answered
<1>5. QED
  BY <1>2, <1>3, <1>4
     DEF Returning, CAPI_REGISTER, CAPI_RELEASE, CAPI_GET_MESSAGE, PlainCallReturns,
         CAPI_PUT_MESSAGE, CAPI_WAIT_FOR_SIGNAL, CAPI_GET_MANUFACTURER, CAPI_GET_VERSION,
         CAPI_GET_SERIAL_NUMBER, CAPI_GET_PROFILE, CAPI_INSTALLED

(* The receiver and the unloading change the answers of calls alone. *)
LEMMA GivenCalls ==
    ASSUME ClientInv, Store \/ MarkEntries, NEW t \in Threads
    PROVE  \/ call'[t] = call[t]
           \/ /\ call'[t].pc = call[t].pc /\ call'[t].id = call[t].id /\ call'[t].n = call[t].n
              /\ call'[t].queue = call[t].queue /\ call'[t].type = call[t].type
              /\ call'[t].app_id = call[t].app_id
<1>c. call[t] \in CallRecords /\ call = [u \in Threads |-> call[u]]
  BY DEF ClientInv, CallInv, CallOK, CallRecords
<1>1. \E a : call'[t] \in {call[t], Given(call[t], a)}
  <2>1. CASE Store
    <3>1. ASSUME NEW d, call' = [call EXCEPT ![d] = Given(@, receiver.msg)]
          PROVE  call'[t] \in {call[t], Given(call[t], receiver.msg)}
      BY <1>c, <3>1
    <3>2. QED
      BY <2>1, <3>1 DEF Store
  <2>2. CASE MarkEntries
    BY <2>2 DEF MarkEntries
  <2>3. QED
    BY <2>1, <2>2
<1>2. PICK a : call'[t] \in {call[t], Given(call[t], a)}
  BY <1>1
<1>3. PICK g : g = [call[t] EXCEPT !.answer = a]
  OBVIOUS
<1>4. /\ g.pc = call[t].pc /\ g.id = call[t].id /\ g.n = call[t].n /\ g.queue = call[t].queue
      /\ g.type = call[t].type /\ g.app_id = call[t].app_id
  BY <1>c, <1>3 DEF CallRecords
<1>5. QED
  BY <1>2, <1>3, <1>4 DEF Given

(* Ids go on rising. *)
LEMMA IdsRiseStep ==
    ASSUME Serial, ClientInv, IdsRise, [Next]_vars
    PROVE  IdsRise'
<1>n. msg_id \in Nat /\ msgId \in [Nodes -> Nat]
  BY DEF ClientInv, FlagTypes, HashInv
<1>0. CASE call' = call /\ msg_id' = msg_id /\ msgId' = msgId /\ (dll' = "unloaded" => dll = "unloaded")
  BY <1>0 DEF IdsRise
<1>1. ASSUME NEW t \in Threads, Call(t) PROVE IdsRise'
  <2>1. call'[t].pc = "increment" /\ call'[t].id = msg_id + 1 /\ msg_id' = msg_id
        /\ msgId' = msgId /\ dll' # "unloaded"
    BY <1>1, TheCall DEF Call, hashVars
  <2>2. \A u \in Threads : u = t
    BY TheCall
  <2>3. QED
    BY <2>1, <2>2 DEF IdsRise
<1>2. ASSUME NEW t \in Threads, IncrementMsgId(t) PROVE IdsRise'
  <2>1. /\ call[t].pc = "increment" /\ call'[t].pc = "read_start" /\ call'[t].id = call[t].id
        /\ msg_id' = call[t].id /\ msgId' = msgId /\ dll' = dll
    BY <1>2, TheCall DEF IncrementMsgId, Moves, hashVars, CallRecords
  <2>2. (\A u \in Threads : u = t) /\ call[t].id = msg_id + 1
    BY <2>1, TheCall DEF IdsRise
  <2>3. \A n \in Nodes : msgId'[n] < msg_id' /\ msgId'[n] <= msg_id'
    BY <1>n, <2>1, <2>2 DEF IdsRise
  <2>4. QED
    BY <2>1, <2>2, <2>3 DEF IdsRise
<1>3. ASSUME NEW t \in Threads, ReadStart(t) PROVE IdsRise'
  <2>1. /\ call[t].pc = "read_start" /\ call'[t].pc = "add" /\ call'[t].id = call[t].id
        /\ msg_id' = msg_id /\ msgId' = msgId /\ dll' = dll
    BY <1>3, TheCall DEF ReadStart, hashVars, CallRecords
  <2>2. \A u \in Threads : u = t
    BY TheCall
  <2>3. QED
    BY <2>1, <2>2 DEF IdsRise
<1>4. ASSUME NEW t \in Threads, AddEntry(t) PROVE IdsRise'
  <2>1. /\ call[t].pc = "add" /\ call'[t].pc = "send" /\ call[t].id = msg_id
        /\ msg_id' = msg_id /\ dll' = dll
    BY <1>4, TheCall DEF AddEntry, Moves, CallRecords, IdsRise
  <2>2. \A u \in Threads : u = t
    BY TheCall
  <2>3. msgId' = [msgId EXCEPT ![Node(t)] = call[t].id] \/ msgId' = msgId
    BY <1>4 DEF AddEntry, addToHash, addToHash_fails
  <2>4. \A n \in Nodes : msgId'[n] <= msg_id'
    BY <1>n, <2>1, <2>3 DEF IdsRise
  <2>5. QED
    BY <2>1, <2>2, <2>4 DEF IdsRise
<1>5. ASSUME NEW t \in Threads, call'[t].pc \in {"send", "wait", "keep", "idle"}, call[t].pc # "idle",
             msg_id' = msg_id, msgId' = msgId, dll' = dll
      PROVE  IdsRise'
  <2>1. \A u \in Threads : u = t
    BY TheCall
  <2>2. QED
    BY <1>5, <2>1 DEF IdsRise
<1>6. ASSUME NEW t \in Threads, sendRequest(t) \/ sendRequest_fails(t) PROVE IdsRise'
  BY <1>5, <1>6, TheCall DEF sendRequest, sendRequest_fails, Moves, hashVars, CallRecords
<1>7. ASSUME NEW t \in Threads, Returning(t) PROVE IdsRise'
  BY <1>5, <1>7, ReturnEffect DEF Taken, hashVars
<1>8. ASSUME NEW t \in Threads, CallerStep(t) PROVE IdsRise'
  BY <1>2, <1>3, <1>4, <1>6, <1>7, <1>8, CallerCases
<1>9. ASSUME \A t \in Threads : call'[t].pc = call[t].pc /\ call'[t].id = call[t].id,
             msg_id' = msg_id, msgId' = msgId, dll' = "unloaded" => dll = "unloaded"
      PROVE  IdsRise'
  BY <1>9 DEF IdsRise
<1>10. CASE MarkEntries
  BY <1>9, <1>10, GivenCalls DEF MarkEntries
<1>11. CASE Store
  BY <1>9, <1>11, GivenCalls DEF Store, hashVars
<1>12. CASE DLL_PROCESS_ATTACH
  <2>1. /\ call' = call /\ msgId' = msgId /\ dll' = "loaded"
        /\ msg_id' \in {msg_id + 1, msg_id + 2} /\ \A t \in Threads : call[t].pc = "idle"
    BY <1>12 DEF DLL_PROCESS_ATTACH, initConnection, hashVars, IdsRise
  <2>2. \A n \in Nodes : msgId'[n] <= msg_id'
    BY <1>n, <2>1 DEF IdsRise
  <2>3. QED
    BY <2>1, <2>2 DEF IdsRise
<1>13. CASE recv \/ recv_fails \/ Lookup \/ ReadStartToRemove
  BY <1>0, <1>13 DEF recv, recv_fails, Lookup, ReadStartToRemove, hashVars
<1>14. CASE Unlink
  BY <1>0, <1>14 DEF Unlink, removeFromHash, hashVars
<1>15. CASE \/ DLL_PROCESS_DETACH \/ FreeApps \/ ServerAnswers \/ ConnectionBreaks
            \/ UNCHANGED vars
  BY <1>0, <1>15 DEF DLL_PROCESS_DETACH, FreeApps, ServerAnswers, ConnectionBreaks, vars, hashVars
<1>16. QED
  BY <1>1, <1>8, <1>10, <1>11, <1>12, <1>13, <1>14, <1>15 DEF Next, ReceiverStep

(* The receiver ends only on a connection that is lost, and nothing is     *)
(* pending on a connection that is.                                        *)
LEMMA QuitsStep ==
    ASSUME Serial, ClientInv, EarlyInv, Quits, [Next]_vars
    PROVE  Quits'
<1>r. receiver \in [pc : {"none", "recv", "lookup", "read_start", "unlink", "store", "quit"},
                    msg : GoodAnswers \cup {Waiting},
                    data : Nodes \cup {NULL}, queue : Nodes \cup {NULL}]
  BY DEF ClientInv, ReceiverInv
<1>0. CASE UNCHANGED <<dll, socke, pending, wire, receiver>>
  BY <1>0 DEF Quits, Marked
<1>1. ASSUME NEW t \in Threads, Call(t) PROVE Quits'
  BY <1>0, <1>1 DEF Call, serverVars
<1>2. ASSUME NEW t \in Threads, sendRequest(t) PROVE Quits'
  BY <1>2 DEF sendRequest, Quits, Marked
<1>3. ASSUME NEW t \in Threads, CallerStep(t), ~ sendRequest(t) PROVE Quits'
  <2>1. ASSUME IncrementMsgId(t) \/ ReadStart(t) \/ AddEntry(t) \/ sendRequest_fails(t) PROVE Quits'
    BY <1>0, <2>1 DEF serverVars, IncrementMsgId, ReadStart, AddEntry, sendRequest_fails
  <2>2. ASSUME Returning(t) PROVE Quits'
    BY <1>0, <2>2, ReturnEffect DEF serverVars
  <2>3. QED
    BY <1>3, <2>1, <2>2, CallerCases
<1>4. CASE recv_fails
  <2>1. /\ socke \in {"broken", "closed"} /\ receiver'.pc = "quit"
        /\ UNCHANGED <<dll, socke, pending, wire>>
    BY <1>4, <1>r DEF recv_fails, serverVars, Serial
  <2>2. QED
    BY <2>1 DEF Quits, Marked
<1>5. CASE recv
  <2>1. /\ wire # <<>> /\ receiver'.pc = "lookup" /\ UNCHANGED <<dll, socke, pending>>
    BY <1>5, <1>r DEF recv
  <2>2. dll \notin {"detaching", "marked", "detached"}
    BY <2>1 DEF Quits
  <2>3. QED
    BY <2>1, <2>2 DEF Quits, Marked
<1>b. CASE Lookup \/ ReadStartToRemove \/ Unlink \/ Store
  <2>1. /\ receiver.pc \notin {"recv", "quit"} /\ receiver'.pc # "quit"
        /\ UNCHANGED <<dll, socke, pending, wire>>
    BY <1>b, <1>r DEF Lookup, ReadStartToRemove, Unlink, Store, serverVars
  <2>2. QED
    BY <2>1 DEF Quits, Marked
<1>6. CASE DLL_PROCESS_ATTACH
  <2>1. /\ dll' = "loaded" /\ socke = "none" /\ receiver'.pc = "recv" /\ pending' = pending
    BY <1>6, <1>r DEF DLL_PROCESS_ATTACH, EarlyInv, serverVars
  <2>2. QED
    BY <2>1 DEF Quits, Marked
<1>7. CASE DLL_PROCESS_DETACH
  BY <1>7 DEF DLL_PROCESS_DETACH, Quits, Marked
<1>c. CASE ConnectionBreaks
  <2>1. dll' = dll /\ socke' = "broken" /\ pending' = {} /\ wire' = wire /\ receiver' = receiver
    BY <1>c DEF ConnectionBreaks
  <2>2. QED
    BY <2>1 DEF Quits, Marked
<1>8. CASE ServerAnswers
  <2>1. socke = "open" /\ UNCHANGED <<dll, socke, receiver>>
    BY <1>8 DEF ServerAnswers
  <2>2. dll \notin {"detaching", "marked", "detached"}
    BY <2>1 DEF Quits
  <2>3. QED
    BY <2>1, <2>2 DEF Quits, Marked
<1>9. CASE FreeApps \/ UNCHANGED vars
  <2>1. UNCHANGED <<socke, pending, wire, receiver>> /\ (dll' = dll \/ dll = "marked")
    BY <1>9 DEF FreeApps, vars, serverVars
  <2>2. QED
    BY <2>1 DEF Quits, Marked
<1>m. CASE MarkEntries
  <2>1. /\ dll = "detaching" /\ socke' = "closed" /\ UNCHANGED <<pending, wire, receiver>>
        /\ receiver.pc \in {"recv", "quit"}
    BY <1>m DEF MarkEntries, serverVars
  <2>2. QED
    BY <2>1 DEF Quits, Marked
<1>10. QED
  BY <1>1, <1>2, <1>3, <1>4, <1>5, <1>b, <1>6, <1>7, <1>c, <1>8, <1>9, <1>m DEF Next, ReceiverStep

(* An answer has the id of its request. *)
LEMMA EffectsTo ==
    ASSUME NEW r, NEW effect \in Effects(r) \cup {Refusal(r)}
    PROVE  effect.answer.message_id = r.message_id
<1>1. \E app, p, c, len : effect.answer = AnswerTo(r, app, p, c, len)
  <2>1. CASE effect = Refusal(r)
    BY <2>1 DEF Refusal
  <2>2. CASE effect \in Effects(r) /\ r.type = "CAPI_REGISTER"
    BY <2>2 DEF Effects
  <2>3. CASE effect \in Effects(r) /\ r.type # "CAPI_REGISTER"
    BY <2>3 DEF Effects
  <2>4. QED
    BY <2>1, <2>2, <2>3
<1>2. QED
  BY <1>1 DEF AnswerTo

(* A call that is not waiting has nothing in flight. *)
LEMMA NothingInFlight ==
    ASSUME InFlight, NEW t \in Threads, call[t].pc # "wait" \/ call[t].answer # Waiting
    PROVE  receiver.pc = "quit" \/ Idle
BY DEF InFlight, AtServer, OnWire, WithReceiver, Awaited

(* Every step keeps at most one request in flight. *)
LEMMA InFlightStep ==
    ASSUME Serial, ClientInv, EarlyInv, Quits, InFlight, SendFresh, [Next]_vars
    PROVE  InFlight'
<1>r. receiver \in [pc : {"none", "recv", "lookup", "read_start", "unlink", "store", "quit"},
                    msg : GoodAnswers \cup {Waiting},
                    data : Nodes \cup {NULL}, queue : Nodes \cup {NULL}]
  BY DEF ClientInv, ReceiverInv
<1>w. wire \in Seq(GoodAnswers)
  BY DEF ClientInv, ServerInv
<1>q. CASE receiver'.pc = "quit"
  BY <1>q DEF InFlight
<1>0. ASSUME UNCHANGED <<pending, wire, receiver, call>> PROVE InFlight'
  BY <1>0 DEF InFlight, Idle, AtServer, OnWire, WithReceiver, Busy, Awaited
<1>i. ASSUME UNCHANGED <<pending, wire, receiver>>, Idle PROVE InFlight'
  BY <1>i DEF InFlight, Idle, Busy
<1>c. ASSUME NEW t \in Threads, UNCHANGED <<pending, wire, receiver>>,
             call[t].pc # "wait" \/ call[t].answer # Waiting
      PROVE  InFlight'
  BY <1>c, <1>i, <1>q, NothingInFlight
<1>1. ASSUME NEW t \in Threads, Call(t) PROVE InFlight'
  BY <1>1, <1>c DEF Call, serverVars
<1>2. ASSUME NEW t \in Threads, sendRequest(t) PROVE InFlight'
  <2>1. receiver' = receiver /\ wire' = wire /\ call[t].pc = "send"
    BY <1>2 DEF sendRequest, Moves
  <2>2. CASE socke # "open"
    <3>1. pending' = pending
      BY <1>2, <2>2 DEF sendRequest
    <3>2. QED
      BY <1>c, <2>1, <3>1
  <2>3. CASE socke = "open"
    <3>0. call[t].answer = Waiting
      BY <2>1, <2>3 DEF SendFresh, Up
    <3>1. Idle
      BY <2>1, <2>3, NothingInFlight DEF Quits
    <3>2. PICK r : r = [message_id |-> call[t].id, type |-> call[t].type,
                        app_id |-> call[t].app_id, from |-> Node(t)]
      OBVIOUS
    <3>3. pending' = {r} /\ r.message_id = call[t].id
      BY <1>2, <2>3, <3>1, <3>2 DEF sendRequest, Idle
    <3>4. call'[t].pc = "wait" /\ call'[t].answer = Waiting /\ call'[t].id = call[t].id
      BY <1>2, <3>0, TheCall DEF sendRequest, Moves, CallRecords
    <3>5. \A u \in Threads : u = t
      BY TheCall
    <3>6. \A u \in Threads : call'[u].pc = "wait" /\ call'[u].answer = Waiting
                             /\ call'[u].id = r.message_id
      BY <3>3, <3>4, <3>5
    <3>7. AtServer'
      BY <2>1, <3>1, <3>3, <3>6 DEF AtServer, Awaited, Idle, Busy
    <3>8. QED
      BY <3>7 DEF InFlight
  <2>4. QED
    BY <2>2, <2>3
<1>3. ASSUME NEW t \in Threads, CallerStep(t), ~ sendRequest(t) PROVE InFlight'
  <2>1. ASSUME IncrementMsgId(t) \/ ReadStart(t) \/ AddEntry(t) \/ sendRequest_fails(t)
        PROVE  InFlight'
    BY <1>c, <2>1 DEF serverVars, IncrementMsgId, ReadStart, AddEntry, Moves, sendRequest_fails
  <2>2. ASSUME Returning(t) PROVE InFlight'
    BY <1>c, <2>2, ReturnEffect DEF Taken, serverVars
  <2>3. QED
    BY <1>3, <2>1, <2>2, CallerCases
<1>4. CASE recv
  <2>1. /\ receiver.pc = "recv" /\ wire # <<>> /\ pending' = pending /\ call' = call
        /\ receiver'.pc = "lookup" /\ receiver'.msg = Head(wire)
    BY <1>4, <1>r DEF recv
  <2>2. OnWire
    BY <2>1 DEF InFlight, Idle, AtServer, WithReceiver, Busy
  <2>3. Len(wire) = 1 /\ Head(wire) = wire[1]
    BY <2>2, <1>w DEF OnWire
  <2>4. PICK k \in 1 .. 1 : wire' = SubSeq(wire, k + 1, Len(wire))
    BY <1>4, <2>3 DEF recv
  <2>5. wire' = SubSeq(wire, 2, 1)
    BY <2>3, <2>4
  <2>6. wire' = <<>>
    BY <2>5, SubSeqEmpty
  <2>7. WithReceiver'
    BY <2>1, <2>2, <2>3, <2>6 DEF WithReceiver, OnWire, Busy, Awaited
  <2>8. QED
    BY <2>7 DEF InFlight
<1>5. CASE recv_fails
  BY <1>5, <1>q, <1>r DEF recv_fails
<1>6. CASE Lookup \/ ReadStartToRemove \/ Unlink
  <2>1. /\ Busy /\ receiver.pc # "quit"
        /\ receiver'.pc \in {"read_start", "unlink", "store"} /\ receiver'.msg = receiver.msg
        /\ UNCHANGED <<pending, wire, call>>
    BY <1>6, <1>r DEF Lookup, ReadStartToRemove, Unlink, Busy, serverVars
  <2>2. WithReceiver
    BY <2>1 DEF InFlight, Idle, AtServer, OnWire
  <2>3. WithReceiver'
    BY <2>1, <2>2 DEF WithReceiver, Busy, Awaited
  <2>4. QED
    BY <2>3 DEF InFlight
<1>7. CASE Store
  <2>1. /\ Busy /\ receiver.pc # "quit" /\ receiver'.pc = "recv" /\ UNCHANGED <<pending, wire>>
    BY <1>7, <1>r DEF Store, Busy, serverVars
  <2>2. WithReceiver
    BY <2>1 DEF InFlight, Idle, AtServer, OnWire
  <2>3. Idle'
    BY <2>1, <2>2 DEF WithReceiver, Idle, Busy
  <2>4. QED
    BY <2>3 DEF InFlight
<1>8. CASE DLL_PROCESS_ATTACH
  <2>1. /\ UNCHANGED <<pending, wire, call>> /\ receiver.pc = "none" /\ receiver'.pc = "recv"
    BY <1>8, <1>r DEF DLL_PROCESS_ATTACH, ClientInv, Unloaded, serverVars
  <2>2. QED
    BY <2>1 DEF InFlight, Idle, AtServer, OnWire, WithReceiver, Busy, Awaited
<1>9. CASE DLL_PROCESS_DETACH \/ ConnectionBreaks
  <2>1. pending' = {} /\ wire' \in {wire, <<>>} /\ UNCHANGED <<receiver, call>>
    BY <1>9 DEF DLL_PROCESS_DETACH, ConnectionBreaks
  <2>2. QED
    BY <2>1 DEF InFlight, Idle, AtServer, OnWire, WithReceiver, Busy, Awaited
<1>10. CASE ServerAnswers
  <2>r. PICK r \in pending : \E effect \in Effects(r) \cup {Refusal(r)} :
          pending' = pending \ {r} /\ wire' = Append(wire, effect.answer)
    BY <1>10 DEF ServerAnswers
  <2>1. PICK a : /\ pending' = pending \ {r} /\ wire' = Append(wire, a)
                 /\ a.message_id = r.message_id
    <3>1. \A effect \in Effects(r) \cup {Refusal(r)} : effect.answer.message_id = r.message_id
      BY EffectsTo
    <3>2. QED
      BY <2>r, <3>1
  <2>2. socke = "open" /\ UNCHANGED <<receiver, call>>
    BY <1>10 DEF ServerAnswers
  <2>3. AtServer
    BY <2>1, <2>2 DEF InFlight, Quits, Idle, OnWire, WithReceiver
  <2>4. pending' = {} /\ wire' = <<a>> /\ Awaited(a.message_id) /\ ~ Busy
    BY <2>1, <2>3 DEF AtServer
  <2>5. Len(wire') = 1 /\ wire'[1] = a
    BY <2>4
  <2>6. OnWire'
    BY <2>2, <2>4, <2>5 DEF OnWire, Busy, Awaited
  <2>7. QED
    BY <2>6 DEF InFlight
<1>11. CASE MarkEntries
  <2>1. /\ dll = "detaching" /\ receiver.pc \in {"recv", "quit"}
        /\ UNCHANGED <<pending, wire, receiver>>
    BY <1>11 DEF MarkEntries, serverVars
  <2>2. pending = {} /\ wire = <<>>
    BY <2>1 DEF Quits
  <2>3. QED
    BY <1>i, <1>q, <2>1, <2>2 DEF Idle, Busy
<1>12. CASE FreeApps \/ UNCHANGED vars
  BY <1>0, <1>12 DEF FreeApps, vars, serverVars
<1>13. QED
  BY <1>1, <1>2, <1>3, <1>4, <1>5, <1>6, <1>7, <1>8, <1>9, <1>10, <1>11, <1>12
     DEF Next, ReceiverStep

(* A call has no answer before its request is sent. *)
LEMMA SendFreshStep ==
    ASSUME ClientInv, EarlyInv, InFlight, SendFresh, [Next]_vars
    PROVE  SendFresh'
<1> SUFFICES ASSUME Up', NEW t \in Threads, call'[t].pc = "send"
             PROVE  call'[t].answer = Waiting
  BY DEF SendFresh
<1>1. Up /\ ~ MarkEntries
  BY UpStep
<1>2. ~ sendRequest_fails(t)
  BY <1>1 DEF sendRequest_fails, Up
<1>3. ~ (Store /\ FrameLive(receiver.data) /\ receiver.data[1] = t)
  <2> SUFFICES ASSUME Store, FrameLive(receiver.data), receiver.data[1] = t PROVE FALSE
    OBVIOUS
  <2>1. WithReceiver
    BY DEF Store, InFlight, Idle, AtServer, OnWire, Busy
  <2>2. call[t].pc = "wait"
    BY <2>1 DEF WithReceiver, Awaited
  <2>3. call'[t].pc = call[t].pc
    BY GivenCalls
  <2>4. QED
    BY <2>2, <2>3
<1>4. Keeps(call[t], call'[t])
  BY <1>1, <1>2, <1>3, CallsKeep DEF Gets
<1>5. QED
  BY <1>1, <1>4 DEF Keeps, EarlyInv, SendFresh

-----------------------------------------------------------------------------
(* Nothing frees an entry or moves the start while a call is about to add  *)
(* its own.                                                                *)
LEMMA QueueFreshStep ==
    ASSUME Serial, ClientInv, ListInv, InFlight, QueueFresh, [Next]_vars
    PROVE  QueueFresh'
<1>s. hash_start \in allocated \cup {NULL}
  BY DEF ListInv, LiveSet, Heads
<1>r. receiver \in [pc : {"none", "recv", "lookup", "read_start", "unlink", "store", "quit"},
                    msg : GoodAnswers \cup {Waiting},
                    data : Nodes \cup {NULL}, queue : Nodes \cup {NULL}]
  BY DEF ClientInv, ReceiverInv
<1>0. ASSUME \A t \in Threads : call'[t].pc = call[t].pc /\ call'[t].queue = call[t].queue,
             allocated' = allocated, hash_start' = hash_start,
             receiver.pc = "quit" => receiver'.pc = "quit", Marked => Marked'
      PROVE  QueueFresh'
  BY <1>0 DEF QueueFresh
<1>1. ASSUME NEW t \in Threads, call'[t].pc # "add" PROVE QueueFresh'
  BY <1>1, TheCall DEF QueueFresh
<1>2. ASSUME NEW t \in Threads, Call(t) PROVE QueueFresh'
  <2>1. call'[t].pc = "increment"
    BY <1>2, TheCall DEF Call
  <2>2. QED
    BY <1>1, <2>1
<1>3. ASSUME NEW t \in Threads, ReadStart(t) PROVE QueueFresh'
  <2>1. /\ call'[t].queue = hash_start /\ UNCHANGED <<hash_start, allocated>>
        /\ \A u \in Threads : u = t
    BY <1>3, TheCall DEF ReadStart, CallRecords, hashVars
  <2>2. QED
    BY <1>s, <2>1 DEF QueueFresh
<1>4. ASSUME NEW t \in Threads, CallerStep(t), ~ ReadStart(t) PROVE QueueFresh'
  <2>1. ASSUME NEW from, NEW to, Moves(t, from, to), to # "add" PROVE call'[t].pc # "add"
    BY <2>1, TheCall DEF Moves, CallRecords
  <2>2. ASSUME IncrementMsgId(t) \/ AddEntry(t) \/ sendRequest(t) PROVE call'[t].pc # "add"
    BY <2>1, <2>2 DEF IncrementMsgId, AddEntry, sendRequest
  <2>3. ASSUME Returning(t) PROVE call'[t].pc # "add"
    BY <2>3, ReturnEffect DEF Taken
  <2>4. ASSUME sendRequest_fails(t) PROVE call'[t].pc # "add"
    BY <2>4, TheCall DEF sendRequest_fails, CallRecords
  <2>5. QED
    BY <1>1, <1>4, <2>2, <2>3, <2>4, CallerCases
<1>5. CASE Unlink
  <2>1. WithReceiver
    BY <1>5 DEF Unlink, InFlight, Idle, AtServer, OnWire, Busy
  <2>2. \A t \in Threads : call'[t].pc # "add"
    BY <1>5, <2>1 DEF Unlink, WithReceiver, Awaited
  <2>3. QED
    BY <2>2 DEF QueueFresh
<1>6. CASE Store
  <2>1. WithReceiver
    BY <1>6 DEF Store, InFlight, Idle, AtServer, OnWire, Busy
  <2>2. \A t \in Threads : call'[t].pc # "add"
    BY <1>6, <2>1, GivenCalls DEF WithReceiver, Awaited
  <2>3. QED
    BY <2>2 DEF QueueFresh
<1>7. CASE MarkEntries
  <2>1. \A t \in Threads : call'[t].pc = call[t].pc /\ call'[t].queue = call[t].queue
    BY <1>7, GivenCalls
  <2>2. allocated' = allocated /\ Marked'
    BY <1>7 DEF MarkEntries, Marked
  <2>3. QED
    BY <2>1, <2>2 DEF QueueFresh
<1>8. CASE recv \/ recv_fails \/ Lookup \/ ReadStartToRemove
  <2>1. UNCHANGED <<call, allocated, hash_start, dll>> /\ receiver.pc # "quit"
    BY <1>8 DEF recv, recv_fails, Lookup, ReadStartToRemove, hashVars
  <2>2. QED
    BY <1>0, <2>1 DEF Marked
<1>9. CASE DLL_PROCESS_ATTACH
  <2>1. UNCHANGED <<call, allocated, hash_start>> /\ receiver.pc # "quit" /\ ~ Marked
    BY <1>9 DEF DLL_PROCESS_ATTACH, hashVars, ClientInv, Unloaded, Marked
  <2>2. QED
    BY <1>0, <2>1
<1>10. CASE \/ DLL_PROCESS_DETACH \/ FreeApps \/ ServerAnswers \/ ConnectionBreaks
            \/ UNCHANGED vars
  <2>1. UNCHANGED <<call, allocated, hash_start, receiver>> /\ (Marked => Marked')
    BY <1>10 DEF DLL_PROCESS_DETACH, FreeApps, ServerAnswers, ConnectionBreaks, vars, hashVars,
                 Marked
  <2>2. QED
    BY <1>0, <2>1
<1>11. QED
  BY <1>2, <1>3, <1>4, <1>5, <1>6, <1>7, <1>8, <1>9, <1>10 DEF Next, ReceiverStep

(* The entry a call adds is the first with its id on the way from the      *)
(* start: the others have lower ids.                                       *)
LEMMA AddLeads ==
    ASSUME Serial, ClientInv, IdsRise, QueueFresh, NEW t \in Threads, AddEntry(t),
           receiver.pc # "quit", ~ Marked
    PROVE  /\ msgId'[Node(t)] = call[t].id
           /\ Leads(next', msgId', hash_start', call[t].id, Node(t))
<1>0. PICK new, id : new = Node(t) /\ id = call[t].id
  OBVIOUS
<1>i. /\ HashInv /\ Chained /\ next \in Links /\ NULL \notin Nodes /\ call[t].pc = "add"
      /\ msgId \in [Nodes -> Nat]
  BY Capi2032Assumption DEF ClientInv, HashInv, Chained, Nodes, AddEntry, Moves
<1>n. new \in Nodes \ Added
  BY <1>0, <1>i, NewNode
<1>q. call[t].queue = hash_start /\ call[t].queue \in allocated \cup {NULL}
  BY <1>i DEF QueueFresh
<1>1. /\ msgId' = [msgId EXCEPT ![new] = id]
      /\ \/ hash_start' = new
         \/ /\ hash_start # NULL /\ hash_start' = hash_start
            /\ next' = [next EXCEPT ![Last(hash_start)] = new]
  <2>1. NULL \notin allocated
    BY <1>i DEF HashInv, Added
  <2>2. addToHash(t)
    BY DEF AddEntry, addToHash_fails, Serial
  <2>3. QED
    BY <1>0, <1>q, <2>1, <2>2 DEF addToHash
<1>m. msgId'[new] = id
  BY <1>1, <1>i, <1>n
<1>2. CASE hash_start' = new
  <2>1. PICK B \in SUBSET Nodes : B = {}
    OBVIOUS
  <2>2. Leads(next', msgId', new, id, new)
    <3>1. /\ new \in B \cup {new} /\ new \notin B
          /\ \A n \in B : next'[n] \in B \cup {new} /\ msgId'[n] # id
      BY <2>1
    <3>2. QED
      BY <3>1 DEF Leads
  <2>3. QED
    BY <1>0, <1>2, <1>m, <2>2
<1>3. CASE /\ hash_start # NULL /\ hash_start' = hash_start
           /\ next' = [next EXCEPT ![Last(hash_start)] = new]
  <2>0. PICK list : list = ListFrom(hash_start)
    OBVIOUS
  <2>1. hash_start \in Added /\ Added \subseteq Nodes
    BY <1>i, <1>3 DEF HashInv, Added
  <2>2. \A i \in 1 .. Len(list) : list[i] \in Added
    <3>1. \A n \in Added : next[n] = NULL \/ next[n] \in Added
      BY <1>i, <2>1 DEF HashInv
    <3>2. QED
      BY <1>i, <2>0, <2>1, <3>1, ListStays
  <2>3. /\ Len(list) \in Nat /\ Len(list) >= 1 /\ list[1] = hash_start
        /\ \A i \in 1 .. Len(list) - 1 : list[i + 1] = next[list[i]]
    BY <1>i, <2>0, <2>1, ListShape
  <2>4. Last(hash_start) = list[Len(list)]
    BY <2>0 DEF Last
  <2>5. PICK B : B = {list[i] : i \in 1 .. Len(list)}
    OBVIOUS
  <2>6. ASSUME NEW i \in 1 .. Len(list) PROVE next'[list[i]] \in B \cup {new}
    <3>1. list[i] \in Nodes
      BY <2>1, <2>2
    <3>2. CASE list[i] = list[Len(list)]
      BY <1>3, <1>i, <2>4, <3>1, <3>2 DEF Links
    <3>3. CASE list[i] # list[Len(list)]
      <4>1. i # Len(list)
        BY <3>3
      <4>2. i \in 1 .. Len(list) - 1 /\ i + 1 \in 1 .. Len(list)
        BY <2>3, <4>1
      <4>3. next'[list[i]] = list[i + 1]
        BY <1>3, <1>i, <2>3, <2>4, <3>1, <3>3, <4>2 DEF Links
      <4>4. QED
        BY <2>5, <4>2, <4>3
    <3>4. QED
      BY <3>2, <3>3
  <2>7. ASSUME NEW n \in Added PROVE msgId'[n] # id
    <3>1. msgId'[n] = msgId[n] /\ msgId[n] < msg_id /\ id = msg_id
      BY <1>0, <1>1, <1>i, <1>n, <2>1 DEF IdsRise
    <3>2. msgId[n] \in Nat /\ msg_id \in Nat
      BY <1>i, <2>1 DEF ClientInv, FlagTypes
    <3>3. QED
      BY <3>1, <3>2
  <2>8. B \subseteq Added /\ hash_start \in B
    <3>1. 1 \in 1 .. Len(list)
      BY <2>3
    <3>2. QED
      BY <2>2, <2>3, <2>5, <3>1
  <2>9. \A n \in B : next'[n] \in B \cup {new} /\ msgId'[n] # id
    <3>1. ASSUME NEW n \in B PROVE next'[n] \in B \cup {new} /\ msgId'[n] # id
      <4>1. PICK i \in 1 .. Len(list) : n = list[i]
        BY <2>5
      <4>2. QED
        BY <2>6, <2>7, <2>8, <4>1
    <3>2. QED
      BY <3>1
  <2>10. new \notin B /\ B \in SUBSET Nodes
    BY <1>n, <2>1, <2>8
  <2>11. Leads(next', msgId', hash_start, id, new)
    BY <2>8, <2>9, <2>10 DEF Leads
  <2>12. QED
    BY <1>0, <1>3, <1>m, <2>11
<1>4. QED
  BY <1>1, <1>2, <1>3

(* The receiver finds the entry of the call that waits. *)
LEMMA LookupFinds ==
    ASSUME ClientInv, NEW id, NEW x \in Nodes, Leads(next, msgId, hash_start, id, x),
           msgId[x] = id
    PROVE  getDataPtrFromMsgId(id) = x
<1>1. hash_start \in Nodes /\ Chained
  BY DEF Leads, ClientInv, HashInv
<1>2. PICK i \in Matches(hash_start, id) :
        (\A j \in Matches(hash_start, id) : i <= j) /\ ListFrom(hash_start)[i] = x
  BY <1>1, LeadsFirst
<1> DEFINE M == Matches(hash_start, id)
           k == CHOOSE l \in M : \A j \in M : l <= j
<1>3. k \in M /\ \A j \in M : k <= j
  BY <1>2
<1>4. M \subseteq Nat
  BY DEF Matches
<1> HIDE DEF k
<1>5. k = i
  <2>1. k <= i /\ i <= k /\ k \in Nat /\ i \in Nat
    BY <1>2, <1>3, <1>4
  <2>2. QED
    BY <2>1
<1>6. getDataPtrFromMsgId(id) = ListFrom(hash_start)[k]
  BY <1>2 DEF getDataPtrFromMsgId, k
<1>7. QED
  BY <1>2, <1>5, <1>6

(* Every step keeps the entry of the call that waits where the receiver    *)
(* finds it.                                                               *)
LEMMA FoundStep ==
    ASSUME Serial, ClientInv, ListInv, IdsRise, QueueFresh, Quits, InFlight, Found, [Next]_vars
    PROVE  Found'
<1>r. receiver \in [pc : {"none", "recv", "lookup", "read_start", "unlink", "store", "quit"},
                    msg : GoodAnswers \cup {Waiting},
                    data : Nodes \cup {NULL}, queue : Nodes \cup {NULL}]
  BY DEF ClientInv, ReceiverInv
<1>c. ASSUME NEW t \in Threads
      PROVE  call[t] \in CallRecords /\ call = [u \in Threads |-> call[u]] /\ \A u \in Threads : u = t
  BY TheCall
<1>0. ASSUME UNCHANGED <<next, msgId, hash_start>>,
             \A t \in Threads : /\ call'[t].n = call[t].n /\ call'[t].id = call[t].id
                                /\ (call'[t].pc \in {"send", "wait"} /\ call'[t].answer = Waiting) =>
                                   (call[t].pc \in {"send", "wait"} /\ call[t].answer = Waiting),
             receiver'.pc \in {"none", "recv", "lookup"} => receiver.pc \in {"none", "recv", "lookup"},
             Marked => Marked',
             receiver'.pc \in {"read_start", "unlink", "store"} =>
                 receiver.pc \in {"read_start", "unlink", "store"} /\ receiver'.data = receiver.data
      PROVE  Found'
  <2> SUFFICES ASSUME NEW t \in Threads
               PROVE  /\ (/\ call'[t].pc \in {"send", "wait"} /\ call'[t].answer = Waiting
                          /\ receiver'.pc \in {"none", "recv", "lookup"} /\ ~ Marked') =>
                             /\ msgId'[Node(t)'] = call'[t].id
                             /\ Leads(next', msgId', hash_start', call'[t].id, Node(t)')
                      /\ receiver'.pc \in {"read_start", "unlink", "store"} => receiver'.data = Node(t)'
    BY DEF Found
  <2>1. Node(t)' = Node(t)
    BY <1>0 DEF Node
  <2>2. QED
    BY <1>0, <2>1 DEF Found
<1>1. ASSUME NEW t \in Threads, call'[t].pc \notin {"send", "wait"} \/ call'[t].answer # Waiting,
             receiver'.pc \notin {"read_start", "unlink", "store"}
      PROVE  Found'
  BY <1>1, <1>c DEF Found
<1>b. ASSUME NEW t \in Threads, call[t].pc # "wait" \/ call[t].answer # Waiting
      PROVE  receiver.pc \notin {"read_start", "unlink", "store"}
  BY <1>b, NothingInFlight DEF Idle, Busy
<1>2. ASSUME NEW t \in Threads, Call(t) PROVE Found'
  <2>1. call'[t].pc = "increment" /\ receiver' = receiver
    BY <1>2, <1>c DEF Call
  <2>2. call[t].pc # "wait"
    BY <1>2 DEF Call
  <2>3. QED
    BY <1>1, <1>b, <2>1, <2>2
<1>3. ASSUME NEW t \in Threads, IncrementMsgId(t) \/ ReadStart(t) PROVE Found'
  <2>1. call'[t].pc \in {"read_start", "add"} /\ receiver' = receiver /\ call[t].pc # "wait"
    BY <1>3, <1>c DEF IncrementMsgId, Moves, ReadStart, CallRecords
  <2>2. QED
    BY <1>1, <1>b, <2>1
<1>4. ASSUME NEW t \in Threads, AddEntry(t) PROVE Found'
  <2>1. /\ call'[t].id = call[t].id /\ call'[t].n = call[t].n /\ call[t].pc # "wait"
        /\ receiver' = receiver /\ (Marked => Marked')
    BY <1>4, <1>c DEF AddEntry, Moves, CallRecords, Marked
  <2>2. receiver.pc # "quit" /\ ~ Marked =>
          /\ msgId'[Node(t)] = call[t].id
          /\ Leads(next', msgId', hash_start', call[t].id, Node(t))
    BY <1>4, AddLeads
  <2>3. receiver.pc \notin {"read_start", "unlink", "store"}
    BY <1>b, <2>1
  <2>4. Node(t)' = Node(t)
    BY <2>1 DEF Node
  <2>5. \A u \in Threads : u = t
    BY <1>c
  <2>6. QED
    BY <2>1, <2>2, <2>3, <2>4, <2>5 DEF Found
<1>5. ASSUME NEW t \in Threads, sendRequest(t) PROVE Found'
  <2>1. /\ call'[t].id = call[t].id /\ call'[t].n = call[t].n /\ call[t].pc = "send"
        /\ call'[t].answer = call[t].answer
        /\ receiver' = receiver /\ UNCHANGED <<next, msgId, hash_start>> /\ (Marked => Marked')
    BY <1>5, <1>c DEF sendRequest, Moves, CallRecords, hashVars, Marked
  <2>2. QED
    BY <1>0, <1>c, <2>1
<1>6. ASSUME NEW t \in Threads, sendRequest_fails(t) PROVE Found'
  <2>1. /\ call'[t].answer = ILLEGAL_ANSWER /\ call[t].pc = "send" /\ receiver' = receiver
    BY <1>6, <1>c DEF sendRequest_fails, CallRecords
  <2>2. QED
    BY <1>1, <1>b, <2>1, NoAnswers
<1>7. ASSUME NEW t \in Threads, Returning(t) PROVE Found'
  <2>1. /\ call'[t].pc \notin {"send", "wait"} /\ receiver' = receiver
        /\ call[t].pc # "wait" \/ call[t].answer # Waiting
    BY <1>7, ReturnEffect DEF Taken
  <2>2. QED
    BY <1>1, <1>b, <2>1
<1>8. ASSUME NEW t \in Threads, CallerStep(t) PROVE Found'
  BY <1>3, <1>4, <1>5, <1>6, <1>7, <1>8, CallerCases
<1>9. CASE recv \/ recv_fails \/ DLL_PROCESS_ATTACH
  <2>1. /\ UNCHANGED <<next, msgId, hash_start, call>>
        /\ receiver.pc \in {"none", "recv"} /\ receiver'.pc \in {"recv", "lookup", "quit"}
        /\ (Marked => Marked')
    BY <1>9, <1>r DEF recv, recv_fails, DLL_PROCESS_ATTACH, ClientInv, Unloaded, hashVars, Marked
  <2>2. QED
    BY <1>0, <2>1
<1>10. CASE Lookup
  <2>1. /\ UNCHANGED <<next, msgId, hash_start, call>>
        /\ receiver.pc = "lookup" /\ receiver'.pc = "read_start"
        /\ receiver'.data = getDataPtrFromMsgId(receiver.msg.message_id)
    BY <1>10, <1>r DEF Lookup, hashVars
  <2>2. WithReceiver /\ ~ Marked
    BY <2>1 DEF InFlight, Idle, AtServer, OnWire, Busy, Quits
  <2>3. ASSUME NEW t \in Threads
        PROVE  getDataPtrFromMsgId(receiver.msg.message_id) = Node(t)
    <3>1. /\ call[t].pc = "wait" /\ call[t].answer = Waiting
          /\ receiver.msg.message_id = call[t].id
      BY <2>2 DEF WithReceiver, Awaited
    <3>2. PICK id, x : id = call[t].id /\ x = Node(t)
      OBVIOUS
    <3>3. Leads(next, msgId, hash_start, id, x) /\ msgId[x] = id
      BY <2>1, <2>2, <3>1, <3>2 DEF Found
    <3>4. x \in Nodes
      BY <3>1, <3>2, NodeType DEF ClientInv
    <3>5. QED
      BY <3>1, <3>2, <3>3, <3>4, LookupFinds
  <2>4. \A t \in Threads : Node(t)' = Node(t)
    BY <2>1 DEF Node
  <2>5. QED
    BY <2>1, <2>3, <2>4 DEF Found
<1>11. CASE ReadStartToRemove \/ Unlink
  <2>1. /\ receiver.pc \in {"read_start", "unlink"} /\ receiver'.pc \in {"unlink", "store"}
        /\ receiver'.data = receiver.data /\ call' = call
    BY <1>11, <1>r DEF ReadStartToRemove, Unlink
  <2>2. \A t \in Threads : Node(t)' = Node(t)
    BY <2>1 DEF Node
  <2>3. QED
    BY <2>1, <2>2 DEF Found
<1>12. CASE Store
  <2>1. /\ receiver.pc = "store" /\ receiver'.pc = "recv" /\ receiver.msg \in GoodAnswers
    BY <1>12, <1>r DEF Store, ClientInv, ReceiverInv
  <2>2. WithReceiver
    BY <2>1 DEF InFlight, Idle, AtServer, OnWire, Busy
  <2>3. ASSUME NEW t \in Threads PROVE call'[t].answer # Waiting
    <3>1. receiver.data = Node(t) /\ call[t].pc = "wait"
      BY <2>1, <2>2 DEF Found, WithReceiver, Awaited
    <3>2. Node(t) \in Nodes
      BY <3>1, NodeType DEF ClientInv
    <3>3. FrameLive(receiver.data) /\ receiver.data[1] = t
      BY <3>1, <3>2, Capi2032Assumption DEF FrameLive, Node, Nodes
    <3>4. call'[t] = [call[t] EXCEPT !.answer = receiver.msg]
      BY <1>12, <1>c, <3>1, <3>3 DEF Store, Given
    <3>5. call'[t].answer = receiver.msg
      BY <1>c, <3>4 DEF CallRecords
    <3>6. QED
      BY <2>1, <3>5, NoAnswers
  <2>4. QED
    BY <2>1, <2>3 DEF Found
<1>13. CASE MarkEntries
  <2>1. Marked' /\ receiver'.pc \in {"recv", "quit"}
    BY <1>13 DEF MarkEntries, Marked
  <2>2. QED
    BY <2>1 DEF Found
<1>14. CASE \/ DLL_PROCESS_DETACH \/ FreeApps \/ ServerAnswers \/ ConnectionBreaks
            \/ UNCHANGED vars
  <2>1. UNCHANGED <<call, next, msgId, hash_start, receiver>> /\ (Marked => Marked')
    BY <1>14 DEF DLL_PROCESS_DETACH, FreeApps, ServerAnswers, ConnectionBreaks, vars, hashVars,
                 Marked
  <2>2. QED
    BY <1>0, <2>1
<1>15. QED
  BY <1>2, <1>8, <1>9, <1>10, <1>11, <1>12, <1>13, <1>14 DEF Next, ReceiverStep

(* The list of applications does not change while the one call keeps its   *)
(* message.                                                                *)
LEMMA KeepFreshStep ==
    ASSUME Serial, ClientInv, ListType, KeepFresh, [Next]_vars
    PROVE  KeepFresh'
<1>t. PICK t \in Threads : \A u \in Threads : u = t
  BY DEF Serial
<1>k. CASE call'[t].pc # "keep"
  BY <1>k, <1>t DEF KeepFresh
<1>s. CASE /\ registered_apps' = registered_apps /\ call'[t].pc = call[t].pc
           /\ call'[t].queue = call[t].queue
  <2>1. PICK q : q = call[t].queue
    OBVIOUS
  <2>2. Behind(q)' = Behind(q)
    BY <1>s DEF Behind
  <2>3. call'[t].pc = "keep" => q = NULL \/ Behind(q)' # {}
    BY <1>s, <2>1, <2>2 DEF KeepFresh
  <2>4. QED
    BY <1>s, <1>t, <2>1, <2>3 DEF KeepFresh
<1>c. call[t] \in CallRecords /\ call = [u \in Threads |-> call[u]]
  BY TheCall
<1>1. CASE CAPI_GET_MESSAGE(t)
  <2>1. CASE GetMessage_copies(t)
    <3>1. PICK q : q = IF registered_apps = <<>> THEN NULL ELSE registered_apps[1].entry
      OBVIOUS
    <3>2. /\ call' = [call EXCEPT ![t].pc = "keep", ![t].queue = q]
          /\ registered_apps' = registered_apps
      BY <2>1, <3>1 DEF GetMessage_copies
    <3>3. call'[t].queue = q
      BY <1>c, <3>2 DEF CallRecords
    <3>4. q = NULL \/ Behind(q) # {}
      BY <3>1, ListStart
    <3>5. Behind(q)' = Behind(q)
      BY <3>2 DEF Behind
    <3>6. QED
      BY <1>t, <3>3, <3>4, <3>5 DEF KeepFresh
  <2>2. CASE ~ GetMessage_copies(t)
    <3>1. PICK result : Ends(t, result)
      BY <1>1, <2>2 DEF CAPI_GET_MESSAGE, GetMessage_fails, GetMessage_malformed,
                        GetMessage_keeps
    <3>2. call'[t].pc = "idle"
      BY <1>c, <3>1 DEF Ends, CallRecords
    <3>3. QED
      BY <1>k, <3>2
  <2>3. QED
    BY <2>1, <2>2
<1>2. ASSUME NEW type, NEW result, Returns(t, type, result) PROVE call'[t].pc # "keep"
  BY <1>c, <1>2 DEF Returns, Ends, CallRecords
<1>3. CASE CallerStep(t) /\ ~ CAPI_GET_MESSAGE(t)
  <2>1. CASE \/ IncrementMsgId(t) \/ ReadStart(t) \/ AddEntry(t)
             \/ sendRequest(t) \/ sendRequest_fails(t)
    <3>1. call'[t].pc # "keep"
      BY <1>c, <2>1 DEF IncrementMsgId, ReadStart, AddEntry, sendRequest, sendRequest_fails,
                        Moves, CallRecords
    <3>2. QED
      BY <1>k, <3>1
  <2>2. QED
    BY <1>k, <1>2, <1>3, <2>1
       DEF CallerStep, CAPI_REGISTER, CAPI_RELEASE, PlainCallReturns,
           CAPI_PUT_MESSAGE, CAPI_WAIT_FOR_SIGNAL, CAPI_GET_MANUFACTURER, CAPI_GET_VERSION,
           CAPI_GET_SERIAL_NUMBER, CAPI_GET_PROFILE, CAPI_INSTALLED
<1>4. CASE Call(t)
  <2>1. call'[t].pc = "increment"
    BY <1>c, <1>4 DEF Call
  <2>2. QED
    BY <1>k, <2>1
<1>5. CASE Store \/ MarkEntries
  <2>1. registered_apps' = registered_apps
    BY <1>5 DEF Store, MarkEntries, appVars
  <2>2. call'[t].pc = call[t].pc /\ call'[t].queue = call[t].queue
    BY <1>5, GivenCalls
  <2>3. QED
    BY <1>s, <2>1, <2>2
<1>6. CASE recv \/ recv_fails \/ Lookup \/ ReadStartToRemove \/ Unlink
  BY <1>s, <1>6 DEF recv, recv_fails, Lookup, ReadStartToRemove, Unlink, appVars
<1>7. CASE \/ DLL_PROCESS_ATTACH \/ DLL_PROCESS_DETACH \/ ServerAnswers \/ ConnectionBreaks
           \/ UNCHANGED vars
  BY <1>s, <1>7 DEF DLL_PROCESS_ATTACH, DLL_PROCESS_DETACH, ServerAnswers, ConnectionBreaks,
                    vars, appVars
<1>8. CASE FreeApps
  BY <1>k, <1>8 DEF FreeApps
<1>9. QED
  BY <1>t, <1>1, <1>3, <1>4, <1>5, <1>6, <1>7, <1>8 DEF Next, ReceiverStep

(* No step of the one thread, of the receiver or of the server makes the   *)
(* library touch foreign memory.                                           *)
LEMMA MemoryStep ==
    ASSUME Serial, ClientInv, QueueFresh, KeepFresh, InFlight, Found, MemorySafe, [Next]_vars
    PROVE  MemorySafe'
<1>0. CASE wild' = wild /\ Next
  BY <1>0 DEF MemorySafe, Next
<1>1. ASSUME NEW t \in Threads, AddEntry(t) PROVE wild' = wild
  <2>1. call[t].queue \in allocated \cup {NULL} /\ addToHash(t)
    BY <1>1 DEF AddEntry, Moves, QueueFresh, addToHash_fails, Serial
  <2>2. QED
    BY <2>1 DEF addToHash
<1>2. CASE Store
  <2>1. WithReceiver /\ receiver.pc = "store"
    BY <1>2 DEF Store, InFlight, Idle, AtServer, OnWire, Busy
  <2>2. receiver.data \in Nodes
    <3>1. ReceiverInv /\ Threads # {}
      <4>1. receiver.msg \in GoodAnswers /\ ReceiverInv
        BY <2>1 DEF ClientInv, ReceiverInv
      <4>2. receiver.msg.to \in Nodes
        BY <4>1 DEF GoodAnswers, WireAnswers
      <4>3. QED
        BY <4>1, <4>2 DEF Nodes
    <3>2. PICK t \in Threads : TRUE
      BY <3>1
    <3>3. receiver.data = Node(t) /\ call[t].pc = "wait"
      BY <2>1 DEF Found, WithReceiver, Awaited
    <3>4. QED
      BY <3>3, NodeType DEF ClientInv
  <2>3. PICK t \in Threads, n \in 1 .. MaxCalls : receiver.data = <<t, n>>
    BY <2>2 DEF Nodes
  <2>4. receiver.data = Node(t) /\ call[t].pc = "wait"
    BY <2>1 DEF Found, WithReceiver, Awaited
  <2>5. FrameLive(receiver.data)
    BY <2>2, <2>3, <2>4, Capi2032Assumption DEF FrameLive, Node, Nodes
  <2>6. QED
    BY <1>0, <1>2, <2>5 DEF Store, MemorySafe, Next
<1>3. CASE MarkEntries
  BY <1>3 DEF MarkEntries, MemorySafe
<1>k. ASSUME NEW t \in Threads, CAPI_GET_MESSAGE(t) PROVE wild' = wild
  <2>1. CASE GetMessage_keeps(t)
    <3>1. call[t].queue = NULL \/ Behind(call[t].queue) # {}
      BY <2>1 DEF GetMessage_keeps, KeepFresh
    <3>2. QED
      BY <2>1, <3>1 DEF GetMessage_keeps, setdata_app
  <2>2. QED
    BY <1>k, <2>1 DEF CAPI_GET_MESSAGE, GetMessage_fails, GetMessage_malformed, GetMessage_copies
<1>a. ASSUME NEW t \in Threads, CAPI_REGISTER(t) PROVE wild' = wild
  BY <1>a DEF CAPI_REGISTER, add_app, Serial
<1>4. ASSUME NEW t \in Threads, Call(t) \/ CallerStep(t), ~ AddEntry(t) PROVE wild' = wild
  BY <1>4, <1>a, <1>k DEF Call, CallerStep, IncrementMsgId, ReadStart, sendRequest,
         sendRequest_fails, CAPI_RELEASE, PlainCallReturns,
         CAPI_PUT_MESSAGE, CAPI_WAIT_FOR_SIGNAL, CAPI_GET_MANUFACTURER,
         CAPI_GET_VERSION, CAPI_GET_SERIAL_NUMBER, CAPI_GET_PROFILE, CAPI_INSTALLED
<1>5. CASE UNCHANGED vars
  BY <1>5 DEF vars, MemorySafe
<1>6. CASE Next /\ (recv \/ recv_fails \/ Lookup \/ ReadStartToRemove \/ Unlink)
  BY <1>6, <1>0 DEF recv, recv_fails, Lookup, ReadStartToRemove, Unlink
<1>7. CASE Next /\ (\/ DLL_PROCESS_ATTACH \/ DLL_PROCESS_DETACH \/ FreeApps \/ ServerAnswers
                    \/ ConnectionBreaks)
  BY <1>7, <1>0
     DEF DLL_PROCESS_ATTACH, DLL_PROCESS_DETACH, FreeApps, ServerAnswers, ConnectionBreaks
<1>8. CASE Next /\ \E t \in Threads : Call(t) \/ CallerStep(t)
  BY <1>0, <1>1, <1>4, <1>8
<1>9. QED
  BY <1>2, <1>3, <1>5, <1>6, <1>7, <1>8 DEF Next, ReceiverStep

(* All parts together. *)
WholeInv == ClientInv /\ ListInv /\ SerialInv

(* They hold throughout when one thread calls and memory does not run out. *)
LEMMA SerialCorrect == ASSUME Serial PROVE Spec => []WholeInv
<1>1. ASSUME Init PROVE WholeInv
  <2>1. ClientInv
    BY <1>1, ClientInvInit
  <2>2. ListInv
    <3>1. LiveSet({})
      BY <1>1 DEF Init, LiveSet, Sound, Heads
    <3>2. EarlyInv
      BY <1>1 DEF Init, EarlyInv, Up
    <3>3. QED
      BY <3>1, <3>2 DEF ListInv
  <2>3. IdsRise /\ QueueFresh /\ KeepFresh /\ Quits /\ Found /\ SendFresh /\ MemorySafe
    BY <1>1 DEF Init, IdsRise, QueueFresh, KeepFresh, Quits, Marked, Found, SendFresh, MemorySafe
  <2>4. InFlight
    BY <1>1 DEF Init, InFlight, Idle, Busy
  <2>5. QED
    BY <2>1, <2>2, <2>3, <2>4 DEF WholeInv, SerialInv
<1>2. ASSUME WholeInv, ClientInv /\ AppsInv, [Next]_vars PROVE WholeInv'
  <2>1. ClientInv /\ ListType /\ ListInv /\ EarlyInv /\ SerialInv
    BY <1>2 DEF WholeInv, ListInv, AppsInv
  <2>2. ClientInv' /\ ListInv'
    BY <1>2, <2>1, ClientInvStep, ListInvStep
  <2>3. IdsRise' /\ QueueFresh' /\ KeepFresh' /\ Quits'
    BY <1>2, <2>1, IdsRiseStep, QueueFreshStep, KeepFreshStep, QuitsStep DEF SerialInv
  <2>4. InFlight' /\ Found' /\ SendFresh' /\ MemorySafe'
    BY <1>2, <2>1, InFlightStep, FoundStep, SendFreshStep, MemoryStep DEF SerialInv
  <2>5. QED
    BY <2>2, <2>3, <2>4 DEF WholeInv, SerialInv
<1>3. QED
  BY <1>1, <1>2, AppsInvCorrect, PTL DEF Spec

(* With one thread and enough memory the library touches no memory it does *)
(* not own while it is loaded: the pointer that dispatchMessage stores the *)
(* answer through is that of the call that waits, for any number of calls, *)
(* lost connections and answers in one recv() included.                    *)
THEOREM MemoryCorrect == ASSUME Serial PROVE Spec => []MemorySafe
<1>1. WholeInv => MemorySafe
  BY DEF WholeInv, SerialInv
<1>2. QED
  BY <1>1, SerialCorrect, PTL

-----------------------------------------------------------------------------
(* The application list follows the server's.  The two differ by what the  *)
(* answer on its way to the call says, and by nothing when there is none.  *)
Ids(apps) == {apps[i].ApplID : i \in 1 .. Len(apps)}

Distinct(apps) == \A i, j \in 1 .. Len(apps) : apps[i].ApplID = apps[j].ApplID => i = j

(* The answer on its way: on the wire, with the receiver or with the call. *)
Carries(w, r, c) ==
    IF w # <<>> THEN w[1]
    ELSE IF r.pc \in {"lookup", "read_start", "unlink", "store"} THEN r.msg
    ELSE IF c.pc = "wait" THEN c.answer ELSE Waiting

Succeeds(a, type) ==
    a.message_type = type /\ a.proxy_error = "NONE" /\ a.capi_error = "0x0000"

(* What the server has registered once answer a was sent to call c. *)
Settles(c, a, apps, served) ==
    /\ (c.type = "CAPI_REGISTER" /\ Succeeds(a, "CAPI_REGISTER")) =>
          /\ a.app_id \in AppIds /\ a.app_id \notin Ids(apps)
          /\ served = Ids(apps) \cup {a.app_id}
    /\ (c.type = "CAPI_RELEASE" /\ Succeeds(a, "CAPI_RELEASE")) =>
          served = Ids(apps) \ {c.app_id}
    /\ (~ (c.type = "CAPI_REGISTER" /\ Succeeds(a, "CAPI_REGISTER")) /\
        ~ (c.type = "CAPI_RELEASE" /\ Succeeds(a, "CAPI_RELEASE"))) =>
          served = Ids(apps)

(* A request is that of the call. *)
Asked ==
    \A r \in pending : \A t \in Threads : r.type = call[t].type /\ r.app_id = call[t].app_id

Follows ==
    socke = "open" =>
        /\ Distinct(registered_apps)
        /\ \A t \in Threads :
              Settles(call[t], Carries(wire, receiver, call[t]), registered_apps, serverApps)

(* Before the library is loaded nothing is registered. *)
NoneYet ==
    dll = "unloaded" => registered_apps = <<>> /\ serverApps = {} /\ wire = <<>>

AppsFollow == NoneYet /\ Asked /\ Follows

(* With no answer on its way the lists are equal. *)
LEMMA SettlesNothing ==
    ASSUME NEW c, NEW apps, NEW served
    PROVE  Settles(c, Waiting, apps, served) <=> served = Ids(apps)
BY DEF Settles, Succeeds, Waiting, NoAnswer

(* A new application at the end of the list. *)
LEMMA IdsAppend ==
    ASSUME NEW apps \in AppList, Distinct(apps), NEW app \in AppIds, app \notin Ids(apps),
           NEW node,
           NEW new, new = Append(apps, [entry |-> node, ApplID |-> app, data |-> NULL])
    PROVE  Distinct(new) /\ Ids(new) = Ids(apps) \cup {app}
<1>1. Len(new) = Len(apps) + 1 /\ Len(apps) \in Nat
  BY DEF AppList
<1>2. /\ \A i \in 1 .. Len(apps) : new[i] = apps[i]
      /\ new[Len(apps) + 1].ApplID = app
  BY DEF AppList
<1>3. \A i \in 1 .. Len(new) : i \in 1 .. Len(apps) \/ i = Len(apps) + 1
  BY <1>1
<1>4. (\A i \in 1 .. Len(apps) : i \in 1 .. Len(new)) /\ Len(apps) + 1 \in 1 .. Len(new)
  BY <1>1
<1>5. \A i \in 1 .. Len(apps) : apps[i].ApplID # app
  BY DEF Ids
<1>6. Distinct(new)
  BY <1>2, <1>3, <1>5 DEF Distinct
<1>7. Ids(new) = Ids(apps) \cup {app}
  BY <1>2, <1>3, <1>4 DEF Ids
<1>8. QED
  BY <1>6, <1>7

(* An application is taken from the list. *)
LEMMA IdsDelete ==
    ASSUME NEW apps \in AppList, Distinct(apps), NEW i \in 1 .. Len(apps),
           NEW new, Remains(apps, i, new)
    PROVE  Distinct(new) /\ Ids(new) = Ids(apps) \ {apps[i].ApplID}
<1>1. \A j \in 1 .. Len(new) : /\ Old(i, j) \in 1 .. Len(apps) /\ Old(i, j) # i
                               /\ new[j] = apps[Old(i, j)]
  BY DEF Remains
<1>2. Distinct(new)
  BY DEF Remains, Distinct
<1>3. ASSUME NEW a \in Ids(new) PROVE a \in Ids(apps) \ {apps[i].ApplID}
  <2>1. PICK j \in 1 .. Len(new) : a = new[j].ApplID
    BY DEF Ids
  <2>2. a = apps[Old(i, j)].ApplID /\ Old(i, j) \in 1 .. Len(apps) /\ Old(i, j) # i
    BY <1>1, <2>1
  <2>3. QED
    BY <2>2 DEF Ids, Distinct
<1>4. ASSUME NEW a \in Ids(apps) \ {apps[i].ApplID} PROVE a \in Ids(new)
  <2>1. PICK k \in 1 .. Len(apps) : a = apps[k].ApplID
    BY DEF Ids
  <2>2. PICK j \in 1 .. Len(new) : k = Old(i, j)
    BY <2>1 DEF Remains
  <2>3. QED
    BY <1>1, <2>1, <2>2 DEF Ids
<1>5. QED
  BY <1>2, <1>3, <1>4

(* A new message does not change who is registered. *)
LEMMA IdsReplace ==
    ASSUME NEW apps \in AppList, Distinct(apps), NEW i \in 1 .. Len(apps), NEW d \in Nodes
    PROVE  Distinct([apps EXCEPT ![i].data = d]) /\ Ids([apps EXCEPT ![i].data = d]) = Ids(apps)
<1>0. PICK new : new = [apps EXCEPT ![i].data = d]
  OBVIOUS
<1>1. apps[i] \in AppEntries
  BY ElementOfSeq DEF AppList
<1>2. PICK r : r = [apps[i] EXCEPT !.data = d]
  OBVIOUS
<1>e. r \in AppEntries /\ r.ApplID = apps[i].ApplID
  BY <1>1, <1>2 DEF AppEntries
<1>3. new = [apps EXCEPT ![i] = r]
  BY <1>0, <1>2
<1>4. Len(new) = Len(apps) /\ \A j \in 1 .. Len(apps) : new[j].ApplID = apps[j].ApplID
  BY <1>3, <1>e DEF AppList
<1>5. Distinct(new) /\ Ids(new) = Ids(apps)
  BY <1>4 DEF Distinct, Ids
<1>6. QED
  BY <1>0, <1>5

(* What the server does with the request settles it. *)
LEMMA ServedSettles ==
    ASSUME NEW r, NEW c, c.type = r.type, c.app_id = r.app_id, NEW apps,
           serverApps = Ids(apps), NEW effect \in Effects(r) \cup {Refusal(r)}
    PROVE  Settles(c, effect.answer, apps, effect.apps)
<1>1. CASE effect = Refusal(r)
  BY <1>1 DEF Refusal, AnswerTo, Settles, Succeeds
<1>2. CASE effect \in Effects(r) /\ r.type = "CAPI_REGISTER"
  <2>1. Effects(r) =
          {[apps |-> serverApps \cup {a}, answer |-> AnswerTo(r, a, "NONE", "0x0000", 0)] :
               a \in AppIds \ serverApps}
          \cup {[apps |-> serverApps, answer |-> AnswerTo(r, 0, "NONE", "0x1108", 0)]}
    BY <1>2 DEF Effects, AppTypes
  <2>2. \/ \E a \in AppIds \ serverApps :
              /\ effect.apps = serverApps \cup {a}
              /\ effect.answer = AnswerTo(r, a, "NONE", "0x0000", 0)
        \/ /\ effect.apps = serverApps
           /\ effect.answer = AnswerTo(r, 0, "NONE", "0x1108", 0)
    BY <1>2, <2>1
  <2>3. ASSUME NEW a \in AppIds \ serverApps, effect.apps = serverApps \cup {a},
               effect.answer = AnswerTo(r, a, "NONE", "0x0000", 0)
        PROVE  Settles(c, effect.answer, apps, effect.apps)
    <3>1. effect.answer.app_id = a /\ Succeeds(effect.answer, "CAPI_REGISTER")
      BY <1>2, <2>3 DEF AnswerTo, Succeeds
    <3>2. QED
      BY <1>2, <2>3, <3>1 DEF Settles
  <2>4. CASE /\ effect.apps = serverApps
             /\ effect.answer = AnswerTo(r, 0, "NONE", "0x1108", 0)
    <3>1. ~ Succeeds(effect.answer, "CAPI_REGISTER")
      BY <2>4 DEF AnswerTo, Succeeds
    <3>2. QED
      BY <1>2, <2>4, <3>1 DEF Settles
  <2>5. QED
    BY <2>2, <2>3, <2>4
<1>3. CASE effect \in Effects(r) /\ r.type = "CAPI_RELEASE"
  <2>1. \/ /\ r.app_id \in serverApps /\ effect.apps = serverApps \ {r.app_id}
           /\ effect.answer = AnswerTo(r, r.app_id, "NONE", "0x0000", 0)
        \/ /\ effect.apps = serverApps
           /\ effect.answer = AnswerTo(r, r.app_id, "NONE", "0x1101", 0)
    BY <1>3 DEF Effects, AppTypes
  <2>2. QED
    BY <1>3, <2>1 DEF AnswerTo, Settles, Succeeds
<1>4. CASE effect \in Effects(r) /\ r.type # "CAPI_REGISTER" /\ r.type # "CAPI_RELEASE"
  <2>1. effect.apps = serverApps
    BY <1>4 DEF Effects
  <2>2. QED
    BY <1>4, <2>1 DEF Settles
<1>5. QED
  BY <1>1, <1>2, <1>3, <1>4

(* REGISTER and RELEASE report success on just the answers that say so. *)
LEMMA ResultSucceeds ==
    ASSUME NEW c, CallOK(c), c.answer # Waiting, c.type \in {"CAPI_REGISTER", "CAPI_RELEASE"}
    PROVE  Result(c.answer, c.type) = "0x0000" <=> Succeeds(c.answer, c.type)
<1>1. ASSUME Result(c.answer, c.type) = "0x0000" PROVE Succeeds(c.answer, c.type)
  BY <1>1, ResultOK DEF Succeeds
<1>2. ASSUME Succeeds(c.answer, c.type) PROVE Result(c.answer, c.type) = "0x0000"
  <2>1. c.answer # ILLEGAL_ANSWER
    BY <1>2 DEF Succeeds, ILLEGAL_ANSWER, NoAnswer
  <2>2. abodysize(c.type) = 1
    BY DEF abodysize
  <2>3. verifyMessage(c.answer, c.type)
    BY <1>2, <2>2 DEF verifyMessage, Succeeds
  <2>4. QED
    BY <1>2, <2>1, <2>3 DEF Result, Succeeds
<1>3. QED
  BY <1>1, <1>2

(* The list after CAPI_REGISTER, CAPI_RELEASE or another call returned is  *)
(* what its answer said the server has.                                    *)
LEMMA ReturnsSettles ==
    ASSUME ClientInv, AppsInv, NEW t \in Threads, CallerStep(t), call[t].pc = "wait",
           ~ OutOfMemory, Distinct(registered_apps),
           Settles(call[t], call[t].answer, registered_apps, serverApps)
    PROVE  Distinct(registered_apps') /\ Ids(registered_apps') = serverApps
<1>a. registered_apps \in AppList /\ CallOK(call[t])
  BY DEF AppsInv, ListType, ClientInv, CallInv
<1>u. ASSUME UNCHANGED appVars, serverApps = Ids(registered_apps)
      PROVE  Distinct(registered_apps') /\ Ids(registered_apps') = serverApps
  BY <1>u DEF appVars
<1>1. CASE CAPI_REGISTER(t)
  <2>1. PICK result \in CapiErrors :
          /\ Returns(t, "CAPI_REGISTER", result)
          /\ IF result = "0x0000" THEN add_app(t, call[t].answer.app_id)
                                  ELSE UNCHANGED <<appVars, wild>>
    BY <1>1 DEF CAPI_REGISTER
  <2>2. /\ call[t].type = "CAPI_REGISTER" /\ call[t].answer # Waiting
        /\ result = Result(call[t].answer, call[t].type)
    BY <2>1 DEF Returns, Answered
  <2>3. result = "0x0000" <=> Succeeds(call[t].answer, "CAPI_REGISTER")
    BY <1>a, <2>2, ResultSucceeds
  <2>4. CASE result = "0x0000"
    <3>1. /\ call[t].answer.app_id \in AppIds
          /\ call[t].answer.app_id \notin Ids(registered_apps)
          /\ serverApps = Ids(registered_apps) \cup {call[t].answer.app_id}
      BY <2>2, <2>3, <2>4 DEF Settles
    <3>2. registered_apps' =
            Append(registered_apps,
                   [entry |-> Node(t), ApplID |-> call[t].answer.app_id, data |-> NULL])
      BY <2>1, <2>4 DEF add_app
    <3>3. QED
      BY <1>a, <3>1, <3>2, IdsAppend
  <2>5. CASE result # "0x0000"
    BY <1>u, <2>1, <2>2, <2>3, <2>5 DEF Settles
  <2>6. QED
    BY <2>4, <2>5
<1>2. CASE CAPI_RELEASE(t)
  <2>1. PICK result \in CapiErrors :
          /\ Returns(t, "CAPI_RELEASE", result)
          /\ IF result = "0x0000" THEN del_app(call[t].app_id) ELSE UNCHANGED appVars
    BY <1>2 DEF CAPI_RELEASE
  <2>2. /\ call[t].type = "CAPI_RELEASE" /\ call[t].answer # Waiting
        /\ result = Result(call[t].answer, call[t].type)
    BY <2>1 DEF Returns, Answered
  <2>3. result = "0x0000" <=> Succeeds(call[t].answer, "CAPI_RELEASE")
    BY <1>a, <2>2, ResultSucceeds
  <2>4. CASE result = "0x0000"
    <3>1. serverApps = Ids(registered_apps) \ {call[t].app_id}
      BY <2>2, <2>3, <2>4 DEF Settles
    <3>2. CASE Entries(call[t].app_id) = {} /\ UNCHANGED appVars
      <4>1. call[t].app_id \notin Ids(registered_apps)
        BY <3>2 DEF Entries, Ids
      <4>2. QED
        BY <1>u, <3>1, <3>2, <4>1
    <3>3. ASSUME NEW i \in Entries(call[t].app_id),
                 registered_apps' = SubSeq(registered_apps, 1, i - 1)
                                    \o SubSeq(registered_apps, i + 1, Len(registered_apps))
          PROVE  Distinct(registered_apps') /\ Ids(registered_apps') = serverApps
      <4>1. i \in 1 .. Len(registered_apps) /\ registered_apps[i].ApplID = call[t].app_id
        BY DEF Entries
      <4>2. Remains(registered_apps, i, registered_apps')
        BY <1>a, <3>3, <4>1, Deleted
      <4>3. QED
        BY <1>a, <3>1, <4>1, <4>2, IdsDelete
    <3>4. QED
      BY <2>1, <2>4, <3>2, <3>3 DEF del_app
  <2>5. CASE result # "0x0000"
    BY <1>u, <2>1, <2>2, <2>3, <2>5 DEF Settles
  <2>6. QED
    BY <2>4, <2>5
<1>3. CASE CAPI_GET_MESSAGE(t)
  <2>1. call[t].type = "CAPI_GETMESSAGE" /\ registered_apps' = registered_apps
    BY <1>3 DEF CAPI_GET_MESSAGE, GetMessage_fails, GetMessage_malformed, GetMessage_copies,
                GetMessage_keeps, Answered, appVars
  <2>2. serverApps = Ids(registered_apps)
    BY <2>1 DEF Settles
  <2>3. QED
    BY <2>1, <2>2
<1>4. ASSUME NEW type, PlainCallReturns(t, type), type # "CAPI_REGISTER", type # "CAPI_RELEASE"
      PROVE  Distinct(registered_apps') /\ Ids(registered_apps') = serverApps
  <2>1. call[t].type = type /\ UNCHANGED appVars
    BY <1>4 DEF PlainCallReturns, Returns, Answered
  <2>2. serverApps = Ids(registered_apps)
    BY <1>4, <2>1 DEF Settles
  <2>3. QED
    BY <1>u, <2>1, <2>2
<1>5. CASE \/ IncrementMsgId(t) \/ ReadStart(t) \/ AddEntry(t)
           \/ sendRequest(t) \/ sendRequest_fails(t)
  BY <1>5 DEF IncrementMsgId, ReadStart, AddEntry, sendRequest, sendRequest_fails, Moves
<1>6. QED
  BY <1>1, <1>2, <1>3, <1>4, <1>5
     DEF CallerStep, CAPI_PUT_MESSAGE, CAPI_WAIT_FOR_SIGNAL, CAPI_GET_MANUFACTURER,
         CAPI_GET_VERSION, CAPI_GET_SERIAL_NUMBER, CAPI_GET_PROFILE, CAPI_INSTALLED

(* A message that is kept changes nothing about who is registered. *)
LEMMA KeepSettles ==
    ASSUME ClientInv, AppsInv, NEW t \in Threads, GetMessage_keeps(t), Distinct(registered_apps)
    PROVE  Distinct(registered_apps') /\ Ids(registered_apps') = Ids(registered_apps)
<1>a. registered_apps \in AppList
  BY DEF AppsInv, ListType
<1>1. PICK d \in Nodes : d = Node(t)
  BY NodeType DEF ClientInv, GetMessage_keeps
<1>2. ASSUME NEW i \in 1 .. Len(registered_apps), Replaces(i, Node(t))
      PROVE  Distinct(registered_apps') /\ Ids(registered_apps') = Ids(registered_apps)
  <2>1. registered_apps' = [registered_apps EXCEPT ![i].data = d]
    BY <1>1, <1>2 DEF Replaces
  <2>2. /\ Distinct([registered_apps EXCEPT ![i].data = d])
        /\ Ids([registered_apps EXCEPT ![i].data = d]) = Ids(registered_apps)
    BY <1>a, IdsReplace
  <2>3. QED
    BY <2>1, <2>2
<1>3. \/ registered_apps' = registered_apps
      \/ \E i \in 1 .. Len(registered_apps) : Replaces(i, Node(t))
  BY DEF GetMessage_keeps, setdata_app, Entries, appVars
<1>4. QED
  BY <1>2, <1>3

(* While the library is not loaded nothing is registered. *)
LEMMA NoneYetStep ==
    ASSUME ClientInv, EarlyInv, IdsRise, NoneYet, [Next]_vars
    PROVE  NoneYet'
<1> SUFFICES ASSUME dll' = "unloaded"
             PROVE  registered_apps' = <<>> /\ serverApps' = {} /\ wire' = <<>>
  BY DEF NoneYet
<1>1. dll = "unloaded"
  <2>1. ASSUME NEW t \in Threads, Call(t) \/ CallerStep(t) PROVE dll' = dll
    BY <2>1, CallerCases, ReturnEffect
       DEF Call, IncrementMsgId, ReadStart, AddEntry, sendRequest, sendRequest_fails
  <2>2. CASE ReceiverStep \/ ServerAnswers \/ ConnectionBreaks \/ UNCHANGED vars
    BY <2>2 DEF ReceiverStep, recv, recv_fails, Lookup, ReadStartToRemove, Unlink, Store,
                ServerAnswers, ConnectionBreaks, vars
  <2>3. QED
    BY <2>1, <2>2
       DEF Next, DLL_PROCESS_ATTACH, DLL_PROCESS_DETACH, MarkEntries, FreeApps
<1>2. /\ \A t \in Threads : call[t].pc = "idle"
      /\ receiver.pc = "none" /\ socke = "none"
  BY <1>1 DEF IdsRise, ClientInv, Unloaded, EarlyInv
<1>3. ASSUME NEW t \in Threads PROVE ~ CallerStep(t) /\ ~ Call(t)
  BY <1>1, <1>2, CallerCases, ReturnEffect
     DEF Call, Moves, IncrementMsgId, ReadStart, AddEntry, sendRequest, sendRequest_fails, Taken
<1>4. ~ ReceiverStep /\ ~ ServerAnswers /\ ~ ConnectionBreaks
  BY <1>2 DEF ReceiverStep, recv, recv_fails, Lookup, ReadStartToRemove, Unlink, Store,
              ServerAnswers, ConnectionBreaks
<1>5. UNCHANGED vars
  BY <1>1, <1>3, <1>4 DEF Next, DLL_PROCESS_ATTACH, DLL_PROCESS_DETACH, MarkEntries, FreeApps
<1>6. QED
  BY <1>1, <1>5 DEF NoneYet, vars, appVars, serverVars

(* The request at the server is that of the call that waits for it. *)
LEMMA AskedStep ==
    ASSUME Serial, ClientInv, Quits, InFlight, Asked, [Next]_vars
    PROVE  Asked'
<1>0. ASSUME pending' \subseteq pending,
             \A t \in Threads : /\ call'[t].type = call[t].type
                                /\ call'[t].app_id = call[t].app_id
      PROVE  Asked'
  BY <1>0 DEF Asked
<1>i. ASSUME NEW t \in Threads, call[t].pc = "idle" PROVE pending = {}
  BY <1>i DEF InFlight, Quits, Idle, AtServer, OnWire, WithReceiver, Awaited
<1>1. ASSUME NEW t \in Threads, Call(t) PROVE Asked'
  BY <1>1, <1>i DEF Call, serverVars, Asked
<1>2. ASSUME NEW t \in Threads, sendRequest(t) PROVE Asked'
  <2>1. PICK r : r = [message_id |-> call[t].id, type |-> call[t].type,
                      app_id |-> call[t].app_id, from |-> Node(t)]
    OBVIOUS
  <2>2. pending' = pending \/ pending' = pending \cup {r}
    BY <1>2, <2>1 DEF sendRequest
  <2>3. r.type = call[t].type /\ r.app_id = call[t].app_id
    BY <2>1
  <2>4. call'[t].type = call[t].type /\ call'[t].app_id = call[t].app_id
    BY <1>2, TheCall DEF sendRequest, Moves, CallRecords
  <2>5. \A u \in Threads : u = t
    BY TheCall
  <2>6. QED
    BY <2>2, <2>3, <2>4, <2>5 DEF Asked
<1>3. ASSUME NEW t \in Threads, CallerStep(t), ~ sendRequest(t) PROVE Asked'
  <2>1. CASE IncrementMsgId(t) \/ ReadStart(t) \/ AddEntry(t) \/ sendRequest_fails(t)
    <3>1. /\ pending' = pending /\ call'[t].type = call[t].type
          /\ call'[t].app_id = call[t].app_id
      BY <2>1, TheCall DEF serverVars, IncrementMsgId, ReadStart, AddEntry, Moves,
                           sendRequest_fails, CallRecords
    <3>2. QED
      BY <1>0, <3>1, TheCall
  <2>2. CASE Returning(t)
    BY <1>0, <2>2, ReturnEffect, TheCall DEF Taken, serverVars
  <2>3. QED
    BY <1>3, <2>1, <2>2, CallerCases
<1>4. CASE MarkEntries \/ Store
  <2>1. pending' = pending
    BY <1>4 DEF MarkEntries, Store, serverVars
  <2>2. QED
    BY <1>0, <1>4, <2>1, GivenCalls
<1>6. CASE recv \/ recv_fails \/ Lookup \/ ReadStartToRemove \/ Unlink
  BY <1>0, <1>6 DEF recv, recv_fails, Lookup, ReadStartToRemove, Unlink, serverVars
<1>7. CASE \/ DLL_PROCESS_ATTACH \/ DLL_PROCESS_DETACH \/ FreeApps \/ ServerAnswers
           \/ ConnectionBreaks \/ UNCHANGED vars
  BY <1>0, <1>7 DEF DLL_PROCESS_ATTACH, DLL_PROCESS_DETACH, FreeApps, ServerAnswers,
                    ConnectionBreaks, vars, serverVars
<1>8. QED
  BY <1>1, <1>2, <1>3, <1>4, <1>6, <1>7 DEF Next, ReceiverStep

(* An open connection was open before, or is that of a library just loaded.*)
LEMMA OpenStep ==
    ASSUME ClientInv, [Next]_vars, socke' = "open"
    PROVE  \/ DLL_PROCESS_ATTACH
           \/ socke = "open" /\ ~ DLL_PROCESS_DETACH
<1>1. ASSUME NEW t \in Threads, Call(t) \/ CallerStep(t) PROVE socke' = socke
  BY <1>1, CallerCases, ReturnEffect
     DEF Call, IncrementMsgId, ReadStart, AddEntry, sendRequest, sendRequest_fails
<1>2. ASSUME ReceiverStep \/ ServerAnswers \/ UNCHANGED vars PROVE socke' = socke
  BY <1>2 DEF ReceiverStep, recv, recv_fails, Lookup, ReadStartToRemove, Unlink, Store,
              ServerAnswers, vars
<1>3. ~ ConnectionBreaks /\ ~ DLL_PROCESS_DETACH /\ ~ MarkEntries
  BY DEF ConnectionBreaks, DLL_PROCESS_DETACH, MarkEntries
<1>4. QED
  BY <1>1, <1>2, <1>3 DEF Next, FreeApps

(* The receiver stores the answer in the variable of the call that waits. *)
LEMMA StoreLands ==
    ASSUME Serial, ClientInv, InFlight, Found, Store, NEW t \in Threads
    PROVE  /\ WithReceiver /\ receiver'.pc = "recv"
           /\ call'[t] = [call[t] EXCEPT !.answer = receiver.msg]
<1>1. WithReceiver /\ receiver.pc = "store"
  BY DEF Store, InFlight, Idle, AtServer, OnWire, Busy
<1>2. receiver.data = Node(t) /\ call[t].pc = "wait"
  BY <1>1 DEF Found, WithReceiver, Awaited
<1>3. Node(t) \in Nodes
  BY <1>2, NodeType DEF ClientInv
<1>4. FrameLive(receiver.data) /\ receiver.data[1] = t
  BY <1>2, <1>3, Capi2032Assumption DEF FrameLive, Node, Nodes
<1>5. call'[t] = [call[t] EXCEPT !.answer = receiver.msg]
  BY <1>2, <1>4, TheCall DEF Store, Given
<1>6. receiver'.pc = "recv"
  BY DEF Store, ClientInv, ReceiverInv
<1>7. QED
  BY <1>1, <1>5, <1>6

(* Every step keeps the list and the server's apart by no more than the    *)
(* answer on its way.                                                      *)
LEMMA FollowsStep ==
    ASSUME Serial, ClientInv, AppsInv, EarlyInv, IdsRise, Quits, InFlight, Found, SendFresh,
           NoneYet, Asked, Follows, [Next]_vars
    PROVE  Follows'
<1> SUFFICES ASSUME socke' = "open"
             PROVE  /\ Distinct(registered_apps')
                    /\ \A t \in Threads :
                          Settles(call'[t], Carries(wire', receiver', call'[t]),
                                  registered_apps', serverApps')
  BY DEF Follows
<1>t. PICK t \in Threads : \A u \in Threads : u = t
  BY TheCall DEF Serial
<1> DEFINE Goal == /\ Distinct(registered_apps')
                   /\ Settles(call'[t], Carries(wire', receiver', call'[t]),
                              registered_apps', serverApps')
<1> SUFFICES Goal
  BY <1>t
<1>r. receiver \in [pc : {"none", "recv", "lookup", "read_start", "unlink", "store", "quit"},
                    msg : GoodAnswers \cup {Waiting},
                    data : Nodes \cup {NULL}, queue : Nodes \cup {NULL}]
  BY DEF ClientInv, ReceiverInv
<1>c. call[t] \in CallRecords /\ call = [u \in Threads |-> call[u]]
  BY TheCall
<1>1. CASE DLL_PROCESS_ATTACH
  <2>1. /\ dll = "unloaded" /\ UNCHANGED <<registered_apps, serverApps, wire, call>>
        /\ receiver'.pc = "recv"
    BY <1>1, <1>r DEF DLL_PROCESS_ATTACH, appVars, serverVars
  <2>2. registered_apps = <<>> /\ serverApps = {} /\ wire = <<>> /\ call[t].pc = "idle"
    BY <2>1 DEF NoneYet, IdsRise
  <2>3. Carries(wire', receiver', call'[t]) = Waiting
    BY <2>1, <2>2 DEF Carries
  <2>4. Ids(<<>>) = {} /\ Distinct(<<>>)
    BY DEF Ids, Distinct
  <2>5. QED
    BY <2>1, <2>2, <2>3, <2>4, SettlesNothing
<1>2. CASE socke = "open" /\ ~ DLL_PROCESS_DETACH
  <2> DEFINE before == Carries(wire, receiver, call[t])
             after  == Carries(wire', receiver', call'[t])
  <2>0. /\ Distinct(registered_apps) /\ dll = "loaded" /\ receiver.pc # "quit"
        /\ Settles(call[t], before, registered_apps, serverApps)
    BY <1>2 DEF Follows, EarlyInv, Up, Quits
  <2>k. ASSUME UNCHANGED <<registered_apps, serverApps>>, after = before,
               call'[t].type = call[t].type, call'[t].app_id = call[t].app_id
        PROVE  Goal
    BY <2>0, <2>k DEF Settles
  <2>n. ASSUME before = Waiting, after = Waiting, UNCHANGED <<registered_apps, serverApps>>
        PROVE  Goal
    BY <2>0, <2>n, SettlesNothing
  <2>i. ASSUME call[t].pc # "wait" \/ call[t].answer # Waiting PROVE Idle
    BY <2>0, <2>i, NothingInFlight
  <2>1. CASE Call(t)
    <3>1. Idle /\ UNCHANGED <<wire, receiver, registered_apps, serverApps>>
      BY <2>1, <2>i DEF Call, appVars, serverVars
    <3>2. call[t].pc = "idle" /\ call'[t].pc = "increment"
      BY <1>c, <2>1 DEF Call
    <3>3. QED
      BY <2>n, <3>1, <3>2 DEF Idle, Busy, Carries
  <2>2. CASE IncrementMsgId(t) \/ ReadStart(t) \/ AddEntry(t)
    <3>1. /\ UNCHANGED <<wire, receiver, registered_apps, serverApps>>
          /\ call[t].pc # "wait" /\ call'[t].pc # "wait"
      BY <1>c, <2>2
         DEF IncrementMsgId, ReadStart, AddEntry, Moves, appVars, serverVars, CallRecords
    <3>2. QED
      BY <2>i, <2>n, <3>1 DEF Idle, Busy, Carries
  <2>3. CASE sendRequest(t)
    <3>1. UNCHANGED <<wire, receiver, registered_apps, serverApps>> /\ call[t].pc = "send"
      BY <2>3 DEF sendRequest, Moves, appVars
    <3>2. call[t].answer = Waiting
      BY <1>2, <3>1 DEF SendFresh, Up
    <3>3. call'[t].answer = Waiting
      BY <1>c, <2>3, <3>2 DEF sendRequest, Moves, CallRecords
    <3>4. QED
      BY <2>i, <2>n, <3>1, <3>3 DEF Idle, Busy, Carries
  <2>4. CASE Returning(t) /\ call[t].pc = "wait"
    <3>1. /\ UNCHANGED <<wire, receiver, serverApps>>
          /\ call[t].answer # Waiting /\ call'[t].pc \in {"keep", "idle"}
      BY <2>4, ReturnEffect DEF Taken, serverVars
    <3>2. Idle
      BY <2>i, <3>1
    <3>3. before = call[t].answer /\ after = Waiting
      BY <2>4, <3>1, <3>2 DEF Idle, Busy, Carries
    <3>4. Settles(call[t], call[t].answer, registered_apps, serverApps)
      BY <2>0, <3>3
    <3>5. CallerStep(t) /\ ~ OutOfMemory
      BY <2>4 DEF Returning, CallerStep, Serial
    <3>6. Distinct(registered_apps') /\ Ids(registered_apps') = serverApps
      BY <2>0, <2>4, <3>4, <3>5, ReturnsSettles
    <3>7. QED
      BY <3>1, <3>3, <3>6, SettlesNothing
  <2>g. CASE Returning(t) /\ call[t].pc = "keep"
    <3>1. UNCHANGED <<wire, receiver, serverApps>> /\ call'[t].pc = "idle"
      BY <2>g, ReturnEffect DEF Taken, serverVars
    <3>2. Idle
      BY <2>g, <2>i
    <3>3. before = Waiting /\ after = Waiting
      BY <2>g, <3>1, <3>2 DEF Idle, Busy, Carries
    <3>4. GetMessage_keeps(t)
      BY <2>g DEF Returning, CAPI_REGISTER, CAPI_RELEASE, CAPI_GET_MESSAGE, GetMessage_fails,
         GetMessage_malformed, GetMessage_copies, PlainCallReturns, Returns, Answered,
         CAPI_PUT_MESSAGE, CAPI_WAIT_FOR_SIGNAL, CAPI_GET_MANUFACTURER,
         CAPI_GET_VERSION, CAPI_GET_SERIAL_NUMBER, CAPI_GET_PROFILE, CAPI_INSTALLED
    <3>5. Distinct(registered_apps') /\ Ids(registered_apps') = Ids(registered_apps)
      BY <2>0, <3>4, KeepSettles
    <3>6. serverApps = Ids(registered_apps)
      BY <2>0, <3>3, SettlesNothing
    <3>7. QED
      BY <3>1, <3>3, <3>5, <3>6, SettlesNothing
  <2>5. CASE CallerStep(t)
    <3>1. ~ sendRequest_fails(t)
      BY <1>2 DEF sendRequest_fails
    <3>2. Returning(t) => call[t].pc \in {"wait", "keep"}
      BY ReturnEffect DEF Taken
    <3>3. QED
      BY <2>2, <2>3, <2>4, <2>g, <2>5, <3>1, <3>2, CallerCases
  <2>6. CASE recv
    <3>1. /\ receiver.pc = "recv" /\ wire # <<>> /\ receiver'.msg = Head(wire)
          /\ receiver'.pc = "lookup" /\ UNCHANGED <<registered_apps, serverApps, call, socke>>
      BY <1>r, <2>6 DEF recv, appVars
    <3>2. Head(wire) = wire[1] /\ Len(wire) = 1
      <4>1. OnWire
        BY <2>0, <3>1 DEF InFlight, Idle, AtServer, WithReceiver, Busy
      <4>2. QED
        BY <4>1 DEF OnWire, ClientInv, ServerInv
    <3>3. wire' = <<>>
      <4>1. PICK k \in 1 .. 1 : wire' = SubSeq(wire, k + 1, Len(wire))
        BY <2>6, <3>2 DEF recv
      <4>2. wire' = SubSeq(wire, 2, 1)
        BY <3>2, <4>1
      <4>3. QED
        BY <4>2, SubSeqEmpty
    <3>4. QED
      BY <2>k, <3>1, <3>2, <3>3 DEF Carries
  <2>7. CASE Lookup \/ ReadStartToRemove \/ Unlink
    <3>1. /\ Busy /\ receiver'.pc \in {"read_start", "unlink", "store"}
          /\ receiver'.msg = receiver.msg
          /\ UNCHANGED <<wire, call, registered_apps, serverApps>>
      BY <1>r, <2>7 DEF Lookup, ReadStartToRemove, Unlink, Busy, appVars, serverVars
    <3>2. QED
      BY <2>k, <3>1 DEF Carries, Busy
  <2>8. CASE Store
    <3>1. /\ WithReceiver /\ receiver'.pc = "recv"
          /\ call'[t] = [call[t] EXCEPT !.answer = receiver.msg]
      BY <2>8, StoreLands
    <3>2. /\ call[t].pc = "wait" /\ wire = <<>> /\ Busy
      BY <3>1 DEF WithReceiver, Awaited
    <3>3. /\ call'[t].pc = "wait" /\ call'[t].answer = receiver.msg
          /\ call'[t].type = call[t].type /\ call'[t].app_id = call[t].app_id
      BY <1>c, <3>1, <3>2 DEF CallRecords
    <3>4. UNCHANGED <<wire, registered_apps, serverApps>>
      BY <2>8 DEF Store, appVars, serverVars
    <3>5. QED
      BY <2>k, <3>1, <3>2, <3>3, <3>4 DEF Carries, Busy
  <2>9. CASE ServerAnswers
    <3>1. PICK r \in pending : \E effect \in Effects(r) \cup {Refusal(r)} :
            /\ pending' = pending \ {r} /\ wire' = Append(wire, effect.answer)
            /\ serverApps' = effect.apps
      BY <2>9 DEF ServerAnswers
    <3>2. PICK effect \in Effects(r) \cup {Refusal(r)} :
            wire' = Append(wire, effect.answer) /\ serverApps' = effect.apps
      BY <3>1
    <3>3. UNCHANGED <<receiver, call, registered_apps>>
      BY <2>9 DEF ServerAnswers, appVars
    <3>4. AtServer
      BY <2>0, <3>1 DEF InFlight, Idle, OnWire, WithReceiver
    <3>5. wire = <<>> /\ ~ Busy /\ call[t].answer = Waiting
      BY <3>4 DEF AtServer, Awaited
    <3>6. before = Waiting
      BY <3>5 DEF Carries, Busy
    <3>7. wire' # <<>> /\ wire'[1] = effect.answer
      BY <3>2, <3>5
    <3>8. after = effect.answer
      BY <3>7 DEF Carries
    <3>9. serverApps = Ids(registered_apps)
      BY <2>0, <3>6, SettlesNothing
    <3>10. call[t].type = r.type /\ call[t].app_id = r.app_id
      BY <3>1 DEF Asked
    <3>11. Settles(call[t], effect.answer, registered_apps, effect.apps)
      BY <3>9, <3>10, ServedSettles
    <3>12. QED
      BY <2>0, <3>2, <3>3, <3>8, <3>11
  <2>10. CASE recv_fails \/ MarkEntries \/ FreeApps \/ ConnectionBreaks
    BY <1>2, <2>0, <2>10 DEF recv_fails, MarkEntries, FreeApps, ConnectionBreaks, Serial
  <2>11. CASE UNCHANGED vars
    BY <2>k, <2>11 DEF vars, appVars, serverVars
  <2>12. ~ DLL_PROCESS_ATTACH
    BY <2>0 DEF DLL_PROCESS_ATTACH
  <2>13. QED
    BY <1>t, <1>2, <2>1, <2>5, <2>6, <2>7, <2>8, <2>9, <2>10, <2>11, <2>12
       DEF Next, ReceiverStep
<1>3. QED
  BY <1>1, <1>2, OpenStep

(* The application list follows the server's throughout. *)
LEMMA AppsFollowCorrect == ASSUME Serial PROVE Spec => []AppsFollow
<1>1. ASSUME Init PROVE AppsFollow
  <2>1. NoneYet /\ Asked
    BY <1>1 DEF Init, NoneYet, Asked
  <2>2. Follows
    BY <1>1 DEF Init, Follows
  <2>3. QED
    BY <2>1, <2>2 DEF AppsFollow
<1>2. ASSUME WholeInv, ClientInv /\ AppsInv, AppsFollow, [Next]_vars PROVE AppsFollow'
  <2>1. EarlyInv /\ IdsRise /\ Quits /\ InFlight /\ Found /\ SendFresh
    BY <1>2 DEF WholeInv, ListInv, SerialInv
  <2>2. NoneYet'
    BY <1>2, <2>1, NoneYetStep DEF AppsFollow
  <2>3. Asked'
    BY <1>2, <2>1, AskedStep DEF AppsFollow
  <2>4. Follows'
    BY <1>2, <2>1, FollowsStep DEF AppsFollow
  <2>5. QED
    BY <2>2, <2>3, <2>4 DEF AppsFollow
<1>3. QED
  BY <1>1, <1>2, SerialCorrect, AppsInvCorrect, PTL DEF Spec

(* With one thread and enough memory, the application list between calls   *)
(* holds exactly the applications the server has registered for this       *)
(* client, each once, so long as the connection is up: also after calls    *)
(* that failed, and answers that refused them.                             *)
THEOREM AppsAgreeCorrect == ASSUME Serial PROVE Spec => []AppsAgree
<1>1. ASSUME ClientInv /\ AppsInv, WholeInv, AppsFollow PROVE AppsAgree
  <2> SUFFICES ASSUME socke = "open", \A t \in Threads : call[t].pc = "idle"
               PROVE  /\ Ids(registered_apps) = serverApps
                      /\ \A app \in AppIds : Cardinality(Entries(app)) <= 1
    BY DEF AppsAgree, Ids
  <2>1. PICK t \in Threads : TRUE
    BY DEF Serial
  <2>2. Idle
    BY <1>1, <2>1, NothingInFlight DEF WholeInv, SerialInv, Quits
  <2>3. Carries(wire, receiver, call[t]) = Waiting
    BY <2>2 DEF Idle, Busy, Carries
  <2>4. Distinct(registered_apps) /\ Ids(registered_apps) = serverApps
    BY <1>1, <2>3, SettlesNothing DEF AppsFollow, Follows
  <2>5. ASSUME NEW app \in AppIds PROVE Cardinality(Entries(app)) <= 1
    <3>1. CASE Entries(app) = {}
      BY <3>1, FS_EmptySet
    <3>2. ASSUME NEW i \in Entries(app) PROVE Cardinality(Entries(app)) <= 1
      <4>1. Entries(app) = {i}
        BY <2>4 DEF Distinct, Entries
      <4>2. Cardinality({i}) = 1
        BY FS_Singleton
      <4>3. QED
        BY <4>1, <4>2
    <3>3. QED
      BY <3>1, <3>2
  <2>6. QED
    BY <2>4, <2>5
<1>2. QED
  BY <1>1, AppsFollowCorrect, SerialCorrect, AppsInvCorrect, PTL
=============================================================================
