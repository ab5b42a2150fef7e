------------------------------ MODULE Capi2032 ------------------------------
(***************************************************************************)
(* capi2032.dll, the Win32 client (win32-client/capi2032.cpp).  The        *)
(* threads of an application call the exported CAPI functions; each call   *)
(* takes a message id, enters the address of its local answer variable in  *)
(* a linked list keyed by the id, sends its request and polls the variable.*)
(* The receiver thread reads answers, looks the id up, unlinks the entry   *)
(* and stores the answer through the pointer.                              *)
(*                                                                         *)
(* Steps are cut where the code gives another thread the chance to run     *)
(* between a read and its use: the increment of msg_id, the two reads of   *)
(* hash_start and the read of registered_apps made before                  *)
(* EnterCriticalSection.  A node of either list is named by the call that  *)
(* allocated it, <<thread, number of its call>>, and so are the stack      *)
(* frame a data pointer points to and the copy of a message.               *)
(***************************************************************************)
EXTENDS CapiProtocol, FiniteSets

CONSTANTS
    Threads,        \* the threads of the application
    NULL,           \* the null pointer
    CallTypes,      \* the functions this instance calls
    MaxCalls,       \* bound: calls per thread
    MaxTotal,       \* bound: calls of all threads together
    AuthRequired,   \* whether the server's HELO asks for authentication
    Coalesce,       \* whether one recv() may return several answers
    OutOfMemory     \* whether an allocation may fail

ASSUME Capi2032Assumption ==
    /\ CallTypes \subseteq CapiTypes
    /\ MaxCalls \in Nat /\ MaxTotal \in Nat
    /\ AuthRequired \in BOOLEAN /\ Coalesce \in BOOLEAN /\ OutOfMemory \in BOOLEAN
    /\ NULL \notin Threads \X (1 .. MaxCalls)

Nodes == Threads \X (1 .. MaxCalls)

VARIABLES
    dll,                \* life cycle of the library in this process
    socke,              \* its connection to the server
    msg_id,             \* the last message id given out
    hash_start, next, msgId, allocated,     \* the list of awaited answers
    registered_apps,    \* the list of applications and their last message
    buffers,            \* messages allocated with GlobalAlloc
    call,               \* the call each thread is in; its queue is the start
                        \* of a list that it read before the lock of the list
    receiver,           \* the thread in messageDispatcher
    wild,               \* the process read or wrote memory it does not own
    (* the server *)
    pending, wire, serverApps

hashVars   == <<hash_start, next, msgId, allocated>>
appVars    == <<registered_apps, buffers>>
serverVars == <<pending, wire, serverApps>>
vars == <<dll, socke, msg_id, hashVars, appVars, call, receiver, wild, serverVars>>

(* The answer ILLEGAL_ANSWER, and an answer variable that is still NULL,   *)
(* are answers of these types.                                             *)
NoAnswer(type) ==
    [message_id |-> 0, message_type |-> type, app_id |-> 0, proxy_error |-> "NONE",
     capi_error |-> "0x0000", data_len |-> 0, to |-> NULL]
Waiting        == NoAnswer("NULL")
ILLEGAL_ANSWER == NoAnswer("ILLEGAL_ANSWER")

(* "to" is the call an answer was made for; the code does not have it. *)
WireAnswers ==
    [message_id : Nat, message_type : CapiTypes, app_id : AppIds \cup {0},
     proxy_error : ProxyErrors, capi_error : CapiErrors, data_len : Nat, to : Nodes]

CallStates == {"idle", "increment", "read_start", "add", "send", "wait", "keep"}

TypeOK ==
    /\ dll \in {"unloaded", "loaded", "detaching", "marked", "detached"}
    /\ socke \in {"none", "open", "broken", "closed"}
    /\ msg_id \in Nat
    /\ hash_start \in Nodes \cup {NULL}
    /\ next \in [Nodes -> Nodes \cup {NULL}]
    /\ msgId \in [Nodes -> Nat]
    /\ allocated \subseteq Nodes
    /\ registered_apps \in Seq([entry : Nodes, ApplID : AppIds, data : Nodes \cup {NULL}])
    /\ buffers \subseteq Nodes
    /\ call \in [Threads ->
          [pc : CallStates, n : 0 .. MaxCalls, type : CapiTypes \cup {"none"},
           app_id : AppIds \cup {0}, id : Nat, queue : Nodes \cup {NULL},
           answer : WireAnswers \cup {Waiting, ILLEGAL_ANSWER},
           result : CapiErrors \cup {"none"}]]
    /\ receiver \in [pc : {"none", "recv", "lookup", "read_start", "unlink", "store", "quit"},
                     msg : WireAnswers \cup {Waiting},
                     data : Nodes \cup {NULL}, queue : Nodes \cup {NULL}]
    /\ wild \in BOOLEAN
    /\ pending \subseteq [message_id : Nat, type : CapiTypes,
                          app_id : AppIds \cup {0}, from : Nodes]
    /\ wire \in Seq(WireAnswers)
    /\ serverApps \subseteq AppIds

Init ==
    /\ dll = "unloaded" /\ socke = "none" /\ msg_id = 0
    /\ hash_start = NULL
    /\ next = [n \in Nodes |-> NULL]
    /\ msgId = [n \in Nodes |-> 0]
    /\ allocated = {}
    /\ registered_apps = <<>> /\ buffers = {}
    /\ call = [t \in Threads |->
          [pc |-> "idle", n |-> 0, type |-> "none", app_id |-> 0, id |-> 0,
           queue |-> NULL, answer |-> Waiting, result |-> "none"]]
    /\ receiver = [pc |-> "none", msg |-> Waiting, data |-> NULL, queue |-> NULL]
    /\ wild = FALSE
    /\ pending = {} /\ wire = <<>> /\ serverApps = {}

-----------------------------------------------------------------------------
(* Loading the library. *)

(* initConnection() succeeds once the server has answered HELO; when the   *)
(* server requires authentication, do_auth() closes the socket if it is    *)
(* refused, and initConnection() succeeds all the same.                    *)
initConnection ==
    \/ ~ AuthRequired /\ socke' = "open" /\ msg_id' = msg_id + 1
    \/ AuthRequired /\ socke' \in {"open", "closed"} /\ msg_id' = msg_id + 2

DLL_PROCESS_ATTACH ==
    /\ dll = "unloaded"
    /\ initConnection
    /\ dll' = "loaded"
    /\ receiver' = [receiver EXCEPT !.pc = "recv"]
    /\ UNCHANGED <<hashVars, appVars, call, wild, serverVars>>

-----------------------------------------------------------------------------
(* The list of awaited answers. *)

(* The nodes on the way from node p to the end of the list. *)
ListFrom(p) ==
    LET walk[n \in Nodes \cup {NULL}] ==
            IF n = NULL THEN <<>> ELSE <<n>> \o walk[next[n]]
    IN  walk[p]

InList(p) == {ListFrom(p)[i] : i \in 1 .. Len(ListFrom(p))}

Last(p) == ListFrom(p)[Len(ListFrom(p))]

Node(t) == <<t, call[t].n>>

(* addToHash() after EnterCriticalSection, with the pointer read before.   *)
(* If the node it points to has been freed in between, the entry may end   *)
(* up linked behind whatever now uses the memory, or nowhere, or the       *)
(* access may fault.                                                       *)
addToHash(t) ==
    LET new   == Node(t)
        queue == call[t].queue
    IN  /\ msgId' = [msgId EXCEPT ![new] = call[t].id]
        /\ allocated' = allocated \cup {new}
        /\ \/ /\ queue = NULL
              /\ hash_start' = new
              /\ UNCHANGED <<next, wild>>
           \/ /\ queue \in allocated
              /\ next' = [next EXCEPT ![Last(queue)] = new]
              /\ UNCHANGED <<hash_start, wild>>
           \/ /\ queue # NULL /\ queue \notin allocated
              /\ \/ /\ hash_start # NULL
                    /\ next' = [next EXCEPT ![Last(hash_start)] = new]
                    /\ UNCHANGED <<hash_start, wild>>
                 \/ UNCHANGED <<next, hash_start, wild>>
                 \/ wild' = TRUE /\ UNCHANGED <<next, hash_start>>

(* Its malloc() fails; the caller does not look at the return value. *)
addToHash_fails(t) ==
    /\ OutOfMemory
    /\ call[t].queue = NULL \/ call[t].queue \in allocated
    /\ hash_start' = IF call[t].queue = NULL THEN NULL ELSE hash_start
    /\ UNCHANGED <<next, msgId, allocated, wild>>

Matches(p, id) == {i \in 1 .. Len(ListFrom(p)) : msgId[ListFrom(p)[i]] = id}

(* The node of the first entry with the id, NULL if there is none. *)
getDataPtrFromMsgId(id) ==
    IF Matches(hash_start, id) = {} THEN NULL
    ELSE ListFrom(hash_start)[CHOOSE i \in Matches(hash_start, id) :
                                 \A j \in Matches(hash_start, id) : i <= j]

(* Mutant: the node is not unlinked before it is freed. *)
removeFromHash_Linked(start, id) ==
    \/ /\ Matches(start, id) = {}
       /\ UNCHANGED hashVars
    \/ \E i \in Matches(start, id) :
          /\ \A j \in Matches(start, id) : i <= j
          /\ allocated' = allocated \ {ListFrom(start)[i]}
          /\ UNCHANGED <<next, hash_start, msgId>>

(* removeFromHash() after EnterCriticalSection, from the start read before.*)
removeFromHash(start, id) ==
    \/ /\ Matches(start, id) = {}
       /\ UNCHANGED hashVars
    \/ \E i \in Matches(start, id) :
          LET list == ListFrom(start)
          IN  /\ \A j \in Matches(start, id) : i <= j
              /\ allocated' = allocated \ {list[i]}
              /\ IF i > 1
                 THEN next' = [next EXCEPT ![list[i - 1]] = next[list[i]]] /\ UNCHANGED hash_start
                 ELSE hash_start' = next[list[i]] /\ UNCHANGED next
              /\ UNCHANGED msgId

-----------------------------------------------------------------------------
(* The list of applications. *)

Entries(app) == {i \in 1 .. Len(registered_apps) : registered_apps[i].ApplID = app}
IsFirst(i, app) == i \in Entries(app) /\ \A j \in Entries(app) : i <= j

(* The entry is appended; a malloc() that fails is written through.        *)
add_app(t, app) ==
    \/ /\ registered_apps' = Append(registered_apps,
                                    [entry |-> Node(t), ApplID |-> app, data |-> NULL])
       /\ UNCHANGED <<buffers, wild>>
    \/ /\ OutOfMemory
       /\ wild' = TRUE
       /\ UNCHANGED appVars

del_app(app) ==
    \/ Entries(app) = {} /\ UNCHANGED appVars
    \/ \E i \in Entries(app) :
          /\ IsFirst(i, app)
          /\ registered_apps' = SubSeq(registered_apps, 1, i - 1)
                                \o SubSeq(registered_apps, i + 1, Len(registered_apps))
          /\ buffers' = buffers \ {registered_apps[i].data}

(* The entries that a walk from a node of the list comes to: none when the *)
(* node has been freed.                                                    *)
Behind(list) ==
    {j \in 1 .. Len(registered_apps) : \E i \in 1 .. j : registered_apps[i].entry = list}

IsFound(i, app, list) ==
    /\ i \in Entries(app) \cap Behind(list)
    /\ \A j \in Entries(app) \cap Behind(list) : i <= j

(* Mutant: no return after the assignment, so the new message is freed too.*)
Replaces_Frees(i, data) ==
    /\ registered_apps' = [registered_apps EXCEPT ![i].data = data]
    /\ buffers' = buffers \ {registered_apps[i].data, data}

(* The new message takes the place of the previous one, which is freed. *)
Replaces(i, data) ==
    /\ registered_apps' = [registered_apps EXCEPT ![i].data = data]
    /\ buffers' = buffers \ {registered_apps[i].data}

(* setdata_app() after EnterCriticalSection, with the start of the list    *)
(* read before.  If the application is not found the message is freed.  If *)
(* the first entry has been freed in between, the walk may still come to   *)
(* an entry of the application, or to none, or to memory in which the      *)
(* message is lost, or the access may fault.                               *)
setdata_app(app, list, data) ==
    \/ /\ list = NULL \/ Behind(list) # {}
       /\ Entries(app) \cap Behind(list) = {}
       /\ buffers' = buffers \ {data}
       /\ UNCHANGED <<registered_apps, wild>>
    \/ \E i \in Entries(app) : IsFound(i, app, list) /\ Replaces(i, data) /\ UNCHANGED wild
    \/ /\ list # NULL /\ Behind(list) = {}
       /\ \/ \E i \in Entries(app) : Replaces(i, data) /\ UNCHANGED wild
          \/ /\ buffers' \in {buffers, buffers \ {data}}
             /\ UNCHANGED <<registered_apps, wild>>
          \/ wild' = TRUE /\ UNCHANGED appVars

-----------------------------------------------------------------------------
(* The exported functions. *)

(* The function is called and loads msg_id. *)
Call(t) ==
    /\ dll = "loaded"
    /\ call[t].pc = "idle"
    /\ call[t].n < MaxCalls
    /\ Cardinality({node \in Nodes : node[2] <= call[node[1]].n}) < MaxTotal
    /\ \E type \in CallTypes : \E app \in AppIds \cup {0} :
          /\ (app # 0) <=> (type \in AppTypes)
          /\ call' = [call EXCEPT ![t] =
                [pc |-> "increment", n |-> @.n + 1, type |-> type, app_id |-> app,
                 id |-> msg_id + 1, queue |-> NULL, answer |-> Waiting,
                 result |-> "none"]]
    /\ UNCHANGED <<dll, socke, msg_id, hashVars, appVars, receiver, wild, serverVars>>

(* The call goes on; it is done with the start of a list it had read. *)
Moves(t, from, to) ==
    /\ call[t].pc = from
    /\ call' = [call EXCEPT ![t].pc = to, ![t].queue = NULL]

(* ... and stores what it loaded, plus one. *)
IncrementMsgId(t) ==
    /\ Moves(t, "increment", "read_start")
    /\ msg_id' = call[t].id
    /\ UNCHANGED <<dll, socke, hashVars, appVars, receiver, wild, serverVars>>

(* sendAndReceive: addToHash reads hash_start outside its lock, *)
ReadStart(t) ==
    /\ call[t].pc = "read_start"
    /\ call' = [call EXCEPT ![t].pc = "add", ![t].queue = hash_start]
    /\ UNCHANGED <<dll, socke, msg_id, hashVars, appVars, receiver, wild, serverVars>>

AddEntry(t) ==
    /\ Moves(t, "add", "send")
    /\ addToHash(t) \/ addToHash_fails(t)
    /\ UNCHANGED <<dll, socke, msg_id, appVars, receiver, serverVars>>

(* the request is sent, *)
sendRequest(t) ==
    /\ socke \in {"open", "broken"}
    /\ Moves(t, "send", "wait")
    /\ pending' = IF socke = "open"
                  THEN pending \cup {[message_id |-> call[t].id, type |-> call[t].type,
                                      app_id |-> call[t].app_id, from |-> Node(t)]}
                  ELSE pending
    /\ UNCHANGED <<dll, socke, msg_id, hashVars, appVars, receiver, wild, wire, serverApps>>

(* or cannot be sent: the entry stays in the list. *)
sendRequest_fails(t) ==
    /\ socke \in {"broken", "closed"}
    /\ call[t].pc = "send"
    /\ call' = [call EXCEPT ![t].pc = "wait", ![t].answer = ILLEGAL_ANSWER]
    /\ UNCHANGED <<dll, socke, msg_id, hashVars, appVars, receiver, wild, serverVars>>

abodysize(type) ==
    CASE type \in {"CAPI_MANUFACTURER", "CAPI_PROFILE"} -> 64
      [] type = "CAPI_VERSION" -> 16
      [] type = "CAPI_SERIAL"  -> 8
      [] OTHER -> 1

(* Mutant: the type of the answer is not looked at. *)
verifyMessage_AnyType(answer, type) ==
    /\ abodysize(answer.message_type) + 1 >= abodysize(type)
    /\ answer.proxy_error = "NONE"

(* The header of an answer is well formed.  An answer that reports a CAPI  *)
(* error is accepted whatever its type.                                    *)
verifyMessage(answer, type) ==
    /\ abodysize(answer.message_type) + 1 >= abodysize(type)
    /\ answer.proxy_error = "NONE"
    /\ answer.capi_error # "0x0000" \/ answer.message_type = type

Result(answer, type) ==
    IF answer # ILLEGAL_ANSWER /\ verifyMessage(answer, type)
    THEN answer.capi_error ELSE "0x1108"

Answered(t, type) ==
    /\ call[t].pc = "wait"
    /\ call[t].type = type
    /\ call[t].answer # Waiting

Ends(t, result) ==
    /\ call' = [call EXCEPT ![t].pc = "idle", ![t].result = result]
    /\ UNCHANGED <<dll, socke, msg_id, hashVars, receiver, serverVars>>

Returns(t, type, result) ==
    /\ Answered(t, type)
    /\ result = Result(call[t].answer, type)
    /\ Ends(t, result)

(* Mutant: the application is entered whatever the result. *)
CAPI_REGISTER_Unchecked(t) ==
    \E result \in CapiErrors :
        /\ Returns(t, "CAPI_REGISTER", result)
        /\ add_app(t, call[t].answer.app_id)

CAPI_REGISTER(t) ==
    \E result \in CapiErrors :
        /\ Returns(t, "CAPI_REGISTER", result)
        /\ IF result = "0x0000" THEN add_app(t, call[t].answer.app_id)
                                ELSE UNCHANGED <<appVars, wild>>

(* Mutant: the application is removed whatever the result. *)
CAPI_RELEASE_Unchecked(t) ==
    \E result \in CapiErrors :
        /\ Returns(t, "CAPI_RELEASE", result)
        /\ del_app(call[t].app_id)
        /\ UNCHANGED wild

CAPI_RELEASE(t) ==
    \E result \in CapiErrors :
        /\ Returns(t, "CAPI_RELEASE", result)
        /\ IF result = "0x0000" THEN del_app(call[t].app_id) ELSE UNCHANGED appVars
        /\ UNCHANGED wild

(* The answer carries something long enough to be a CAPI message. *)
HasMessage(answer) ==
    /\ answer # ILLEGAL_ANSWER
    /\ verifyMessage(answer, "CAPI_GETMESSAGE")
    /\ answer.data_len >= 8

(* CAPI_GET_MESSAGE has no message to give, or no memory to copy it to. *)
GetMessage_fails(t) ==
    /\ Answered(t, "CAPI_GETMESSAGE")
    /\ HasMessage(call[t].answer) => OutOfMemory
    /\ Ends(t, "0x1108")
    /\ UNCHANGED <<appVars, wild>>

(* The lengths inside the message, which are looked at once it is copied,  *)
(* are not those of what came: the copy is not freed.                      *)
GetMessage_malformed(t) ==
    /\ Answered(t, "CAPI_GETMESSAGE")
    /\ HasMessage(call[t].answer)
    /\ Ends(t, "0x1108")
    /\ buffers' = buffers \cup {Node(t)}
    /\ UNCHANGED <<registered_apps, wild>>

(* The copy is handed out and the start of the application list read,      *)
GetMessage_copies(t) ==
    /\ Answered(t, "CAPI_GETMESSAGE")
    /\ HasMessage(call[t].answer)
    /\ call' = [call EXCEPT ![t].pc = "keep",
                            ![t].queue = IF registered_apps = <<>> THEN NULL
                                         ELSE registered_apps[1].entry]
    /\ buffers' = buffers \cup {Node(t)}
    /\ UNCHANGED <<dll, socke, msg_id, hashVars, registered_apps, receiver, wild, serverVars>>

(* and the copy kept, whatever capi_error says.                            *)
GetMessage_keeps(t) ==
    /\ call[t].pc = "keep"
    /\ setdata_app(call[t].app_id, call[t].queue, Node(t))
    /\ Ends(t, call[t].answer.capi_error)

CAPI_GET_MESSAGE(t) ==
    \/ GetMessage_fails(t) \/ GetMessage_malformed(t)
    \/ GetMessage_copies(t) \/ GetMessage_keeps(t)

(* The other functions change nothing in the library; what they copy to    *)
(* the caller is left out.                                                 *)
PlainCallReturns(t, type) ==
    /\ \E result \in CapiErrors : Returns(t, type, result)
    /\ UNCHANGED <<appVars, wild>>

CAPI_PUT_MESSAGE(t)       == PlainCallReturns(t, "CAPI_PUTMESSAGE")
CAPI_WAIT_FOR_SIGNAL(t)   == PlainCallReturns(t, "CAPI_WAITFORSIGNAL")
CAPI_GET_MANUFACTURER(t)  == PlainCallReturns(t, "CAPI_MANUFACTURER")
CAPI_GET_VERSION(t)       == PlainCallReturns(t, "CAPI_VERSION")
CAPI_GET_SERIAL_NUMBER(t) == PlainCallReturns(t, "CAPI_SERIAL")
CAPI_GET_PROFILE(t)       == PlainCallReturns(t, "CAPI_PROFILE")
CAPI_INSTALLED(t)         == PlainCallReturns(t, "CAPI_INSTALLED")

-----------------------------------------------------------------------------
(* messageDispatcher: one answer is taken from what recv() returned.       *)
recv ==
    /\ receiver.pc = "recv"
    /\ wire # <<>> /\ socke # "closed"
    /\ \E k \in (IF Coalesce THEN 1 .. Len(wire) ELSE {1}) :
          wire' = SubSeq(wire, k + 1, Len(wire))
    /\ receiver' = [receiver EXCEPT !.pc = "lookup", !.msg = Head(wire)]
    /\ UNCHANGED <<dll, socke, msg_id, hashVars, appVars, call, wild, pending, serverApps>>

(* The thread ends, also when it has no memory for the next answer; nobody *)
(* tells the calls that still wait.                                        *)
recv_fails ==
    /\ receiver.pc = "recv"
    /\ socke = "closed" \/ (socke = "broken" /\ wire = <<>>) \/ OutOfMemory
    /\ receiver' = [receiver EXCEPT !.pc = "quit"]
    /\ UNCHANGED <<dll, socke, msg_id, hashVars, appVars, call, wild, serverVars>>

(* dispatchMessage: the pointer is looked up, *)
Lookup ==
    /\ receiver.pc = "lookup"
    /\ receiver' = [receiver EXCEPT !.pc = "read_start",
                                    !.data = getDataPtrFromMsgId(receiver.msg.message_id)]
    /\ UNCHANGED <<dll, socke, msg_id, hashVars, appVars, call, wild, serverVars>>

(* removeFromHash reads hash_start outside its lock, *)
ReadStartToRemove ==
    /\ receiver.pc = "read_start"
    /\ receiver' = [receiver EXCEPT !.pc = "unlink", !.queue = hash_start]
    /\ UNCHANGED <<dll, socke, msg_id, hashVars, appVars, call, wild, serverVars>>

Unlink ==
    /\ receiver.pc = "unlink"
    /\ removeFromHash(receiver.queue, receiver.msg.message_id)
    /\ receiver' = [receiver EXCEPT !.pc = "store"]
    /\ UNCHANGED <<dll, socke, msg_id, appVars, call, wild, serverVars>>

(* The frame of call <<t, n>> exists: its variable can be written. *)
FrameLive(node) ==
    /\ node # NULL
    /\ call[node[1]].n = node[2]
    /\ call[node[1]].pc # "idle"

(* Mutant: the answer is not stored. *)
Store_Drops ==
    /\ receiver.pc = "store"
    /\ receiver' = [receiver EXCEPT !.pc = "recv", !.msg = Waiting,
                                    !.data = NULL, !.queue = NULL]
    /\ UNCHANGED <<call, wild>>
    /\ UNCHANGED <<dll, socke, msg_id, hashVars, appVars, serverVars>>

(* A call that has taken its answer does not look at the variable again. *)
Given(c, answer) == IF c.pc = "keep" THEN c ELSE [c EXCEPT !.answer = answer]

(* and the answer is stored through it, even if it is NULL. *)
Store ==
    /\ receiver.pc = "store"
    /\ receiver' = [receiver EXCEPT !.pc = "recv", !.msg = Waiting,
                                    !.data = NULL, !.queue = NULL]
    /\ IF FrameLive(receiver.data)
       THEN call' = [call EXCEPT ![receiver.data[1]] = Given(@, receiver.msg)] /\ UNCHANGED wild
       ELSE wild' = TRUE /\ UNCHANGED call
    /\ UNCHANGED <<dll, socke, msg_id, hashVars, appVars, serverVars>>

-----------------------------------------------------------------------------
(* Unloading the library. *)

(* shutdown(SD_RECEIVE): requests may still go out, no answer comes in. *)
DLL_PROCESS_DETACH ==
    /\ dll = "loaded"
    /\ dll' = "detaching"
    /\ socke' = IF socke = "closed" THEN "closed" ELSE "broken"
    /\ pending' = {} /\ wire' = <<>> /\ UNCHANGED serverApps
    /\ UNCHANGED <<msg_id, hashVars, appVars, call, receiver, wild>>

(* Mutant: the calls that wait are not told. *)
MarkEntries_Silent ==
    /\ dll = "detaching"
    /\ receiver.pc \in {"recv", "quit"}
    /\ dll' = "marked"
    /\ socke' = "closed"
    /\ hash_start' = NULL
    /\ UNCHANGED <<msg_id, next, msgId, allocated, appVars, call, receiver, wild,
                   serverVars>>

(* Once the receiver has ended, or two seconds have passed in which recv() *)
(* did not notice the shutdown, the socket is closed and every awaited     *)
(* answer becomes ILLEGAL_ANSWER.  An entry left by a call whose send      *)
(* failed points to a frame that is gone.                                  *)
MarkEntries ==
    /\ dll = "detaching"
    /\ receiver.pc \in {"recv", "quit"}
    /\ dll' = "marked"
    /\ socke' = "closed"
    /\ hash_start' = NULL
    /\ call' = [t \in Threads |->
          IF Node(t) \in InList(hash_start) /\ call[t].pc # "idle"
          THEN Given(call[t], ILLEGAL_ANSWER) ELSE call[t]]
    /\ wild' \in (IF \A node \in InList(hash_start) : FrameLive(node)
                  THEN {FALSE} ELSE BOOLEAN)
    /\ UNCHANGED <<msg_id, next, msgId, allocated, appVars, receiver, serverVars>>

(* Sleep(500) has let the calls return that have an answer or were about   *)
(* to send; the application list is emptied by getfirst_app.               *)
FreeApps ==
    /\ dll = "marked"
    /\ \A t \in Threads :
          call[t].pc = "idle" \/ (call[t].pc = "wait" /\ call[t].answer = Waiting)
    /\ dll' = "detached"
    /\ registered_apps' = <<>>
    /\ buffers' = buffers \ {registered_apps[i].data : i \in 1 .. Len(registered_apps)}
    /\ UNCHANGED <<socke, msg_id, hashVars, call, receiver, wild, serverVars>>

-----------------------------------------------------------------------------
(* The server, as the client sees it: it answers what it is asked, a call  *)
(* that waits for a signal at any later time, or refuses the request.      *)

AnswerTo(r, app, proxy_error, capi_error, data_len) ==
    [message_id |-> r.message_id, message_type |-> r.type, app_id |-> app,
     proxy_error |-> proxy_error, capi_error |-> capi_error,
     data_len |-> data_len, to |-> r.from]

Effects(r) ==
    CASE r.type = "CAPI_REGISTER" ->
            {[apps |-> serverApps \cup {a}, answer |-> AnswerTo(r, a, "NONE", "0x0000", 0)] :
                 a \in AppIds \ serverApps}
            \cup {[apps |-> serverApps, answer |-> AnswerTo(r, 0, "NONE", "0x1108", 0)]}
      [] r.type \in AppTypes /\ r.app_id \notin serverApps ->
            {[apps |-> serverApps, answer |-> AnswerTo(r, r.app_id, "NONE", "0x1101", 0)]}
      [] r.type = "CAPI_RELEASE" /\ r.app_id \in serverApps ->
            {[apps |-> serverApps \ {r.app_id},
              answer |-> AnswerTo(r, r.app_id, "NONE", "0x0000", 0)]}
      [] r.type = "CAPI_GETMESSAGE" /\ r.app_id \in serverApps ->
            {[apps |-> serverApps, answer |-> AnswerTo(r, r.app_id, "NONE", "0x0000", 8)],
             [apps |-> serverApps, answer |-> AnswerTo(r, r.app_id, "NONE", "0x1104", 0)]}
      [] OTHER ->
            {[apps |-> serverApps, answer |-> AnswerTo(r, r.app_id, "NONE", "0x0000", 0)]}

Refusal(r) ==
    [apps |-> serverApps, answer |-> AnswerTo(r, r.app_id, "WRONG_SESSION", "0x0000", 0)]

ServerAnswers ==
    /\ socke = "open"
    /\ \E r \in pending : \E effect \in Effects(r) \cup {Refusal(r)} :
          /\ pending' = pending \ {r}
          /\ wire' = Append(wire, effect.answer)
          /\ serverApps' = effect.apps
    /\ UNCHANGED <<dll, socke, msg_id, hashVars, appVars, call, receiver, wild>>

ConnectionBreaks ==
    /\ socke = "open"
    /\ socke' = "broken"
    /\ pending' = {}
    /\ UNCHANGED <<dll, msg_id, hashVars, appVars, call, receiver, wild, wire, serverApps>>

-----------------------------------------------------------------------------
CallerStep(t) ==
    \/ IncrementMsgId(t) \/ ReadStart(t) \/ AddEntry(t)
    \/ sendRequest(t) \/ sendRequest_fails(t)
    \/ CAPI_REGISTER(t) \/ CAPI_RELEASE(t) \/ CAPI_GET_MESSAGE(t)
    \/ CAPI_PUT_MESSAGE(t) \/ CAPI_WAIT_FOR_SIGNAL(t)
    \/ CAPI_GET_MANUFACTURER(t) \/ CAPI_GET_VERSION(t) \/ CAPI_GET_SERIAL_NUMBER(t)
    \/ CAPI_GET_PROFILE(t) \/ CAPI_INSTALLED(t)

ReceiverStep == recv \/ recv_fails \/ Lookup \/ ReadStartToRemove \/ Unlink \/ Store

(* A process that has faulted takes no further step. *)
Next ==
    /\ ~ wild
    /\ \/ DLL_PROCESS_ATTACH \/ DLL_PROCESS_DETACH \/ MarkEntries \/ FreeApps
       \/ \E t \in Threads : Call(t) \/ CallerStep(t)
       \/ ReceiverStep
       \/ ServerAnswers \/ ConnectionBreaks

Spec == Init /\ [][Next]_vars

(* Threads that can run do, and the server answers in the end.  The        *)
(* application need not call, unload, and the network need not break.      *)
Fairness ==
    /\ \A t \in Threads : WF_vars(~ wild /\ CallerStep(t))
    /\ WF_vars(~ wild /\ ReceiverStep)
    /\ WF_vars(~ wild /\ MarkEntries)
    /\ WF_vars(~ wild /\ ServerAnswers)

FairSpec == Spec /\ Fairness

-----------------------------------------------------------------------------
(* Properties. *)

(* "when the function terminates we have received a message" (the comment  *)
(* after every sendAndReceive), the answer to the request of this very     *)
(* call: a call never returns with the answer made for another one.        *)
OwnAnswer ==
    \A t \in Threads :
        call[t].answer.to # NULL => call[t].answer.to = Node(t)

(* While the library is loaded the process never touches memory it does    *)
(* not own: the receiver finds an entry for every answer, and no pointer   *)
(* read before a lock is stale.  Only unloading it, which writes through   *)
(* the entries of calls whose request could not be sent, may.              *)
MemorySafe == wild => dll = "marked"

(* Between calls, the client's application list holds exactly the          *)
(* applications the server has registered for it, each once.               *)
AppsAgree ==
    (socke = "open" /\ dll = "loaded" /\ \A t \in Threads : call[t].pc = "idle") =>
        /\ {registered_apps[i].ApplID : i \in 1 .. Len(registered_apps)} = serverApps
        /\ \A app \in AppIds : Cardinality(Entries(app)) <= 1

(* The list of awaited answers, as its walkers see it, is sound whatever   *)
(* the threads do: every node reached from hash_start is allocated, and    *)
(* the call it belongs to is in progress or returned because its request   *)
(* could not be sent.                                                      *)
HashSound ==
    ~ wild => \A node \in InList(hash_start) :
        /\ node \in allocated
        /\ \/ FrameLive(node)
           \/ socke # "open"

(* No message is freed twice, whatever the threads do: the message an      *)
(* entry of the application list keeps, which the next message, the        *)
(* release of the application or the unloading of the library will free,   *)
(* is still allocated, and no other entry and no call that is about to     *)
(* keep one has it too.                                                    *)
BuffersOwned ==
    \A i \in 1 .. Len(registered_apps) : registered_apps[i].data # NULL =>
        /\ registered_apps[i].data \in buffers
        /\ \A j \in 1 .. Len(registered_apps) \ {i} :
              registered_apps[j].data # registered_apps[i].data
        /\ \A t \in Threads : call[t].pc = "keep" => registered_apps[i].data # Node(t)

(* A message that CAPI_GET_MESSAGE handed out with success is there for    *)
(* the application to read: the library knows the application it is for    *)
(* and keeps the message until the next call.                              *)
MessageReadable ==
    dll = "loaded" =>
        \A t \in Threads :
            (/\ call[t].pc = "idle" /\ call[t].type = "CAPI_GETMESSAGE"
             /\ call[t].result = "0x0000") => Node(t) \in buffers

(* A call reports success only on an answer of its own type and id that    *)
(* says so.                                                                *)
SuccessIsAnswered ==
    \A t \in Threads : call[t].pc = "idle" /\ call[t].result = "0x0000" =>
        /\ call[t].answer.message_type = call[t].type
        /\ call[t].answer.message_id = call[t].id
        /\ call[t].answer.proxy_error = "NONE"

(* A call returns, unless the connection breaks under it and the receiver  *)
(* ends without telling it, or unloading the library faulted.              *)
CallsReturn ==
    \A t \in Threads :
        (call[t].pc # "idle") ~>
            (call[t].pc = "idle" \/ wild \/ (receiver.pc = "quit" /\ dll = "loaded"))

(* Unloading the library ends every call that still waits for an answer,   *)
(* also when the receiver had given up before.                             *)
DetachWakes ==
    \A t \in Threads : (dll = "detaching") ~> (call[t].pc = "idle" \/ wild)
=============================================================================
